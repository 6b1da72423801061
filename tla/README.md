# Formal models of KiranaCrew

KiranaCrew takes voice notes and texts from a shopkeeper's Telegram chat, turns each into at most one entry of
the shop's books, and asks when it is not sure. Its core is a few short Postgres transactions with speech
recognition, language models and Telegram calls between them, run by worker threads, background tasks of the API and
a reaper, any of which may die or be late; around it are the way a sentence becomes a command, a catalog that changes
while questions are open, and the way messages reach the queue. This directory models these in TLA+, checks them with
TLC and proves the main results with TLAPS. Paths below are relative to `src/backend/app/` unless they start with
`src/`.

## 1. Inventory

| Component | Code | State it keeps | Operations | Hard behaviour | What makes it correct |
|---|---|---|---|---|---|
| Message pipeline | `services/pipeline.py` | `messages`, `pending_actions` | claim, process in transactions A, B1, B2, C, fail, deliver | another actor between any two transactions; retry from the top after a crash | one booking per message; settled is final; refused means not booked |
| Confirmations | `services/confirmations.py` | `pending_actions` | tap, cancel, typed answer, re-ask, undo | a tap, a typed answer, an expiry and a worker race for one question; two messages answer one question | a message waits exactly while it has an open question; answers are kept and not asked for again |
| Job queue | `services/jobs.py` | `jobs` | enqueue, claim, done, fail, reap | reaping of live work, retries, revival | one job in one hand; all attempts used; every job ends |
| Worker | `cli/worker.py` | thread locals | run_one, loop, reaper | crashes, exceptions in exception handlers | job and message fail together; every message settles |
| Ledger | `services/bookkeeping.py`, `src/backend/migrations/001_init.sql` | `transactions`, `inventory_movements`, `credit_ledger` | post, reverse | two undos of one entry, undo of an undo | one reversal; balances are the history of live entries |
| Queries | `services/queries.py` | none | views, daily summary, load_catalog | two derivations of the same money | they agree |
| Decision engine | `domain/decide.py`, `domain/money.py` | none | decide | rounding, units that do not fit, a catalog that changed since the question | a sale costs what was said; the live choice wins |
| Name resolver | `domain/resolve.py` | none | resolve_customer, resolve_product | bands of likeness, phrases, near misses | nobody is guessed |
| Language | `domain/normalize.py`, `rules_parser.py`, `parser.py`, `llm_parser.py` | none | numbers, rules, providers, grounding | state carried from one number word to the next; a model that says anything | numbers read as said, used once, never invented; two of anything flagged |
| Catalog and wizards | `services/catalog.py`, `services/pipeline.py:226-234,345-404` | `customers`, `products` | add, price, learn alias, remove, wizards | change while a question is open | only live entries are booked |
| Transport | `api/telegram.py`, `cli/poll.py` | the poller's offset, background tasks | webhook, poll, inline processing | redelivery, lost answers, restarts, a raising update | no message lost, booked once, rows in the chat's order |
| Simulator API | `api/dev.py` | none | simulate, choose, answer, undo, reap | an inline processor beside workers and reaper | as the transport |
| Insights | `crew/insights.py`, `cli/insights.py` | `insights`, `llm_calls` | run, approve, send | regeneration against approval, failing providers, a cap | nothing unapproved is sent, every call logged, calls bounded |
| Row locks of all of these | Postgres | | | transactions that lock questions, messages, jobs, products and customers in different orders | circles only where a path takes rows against the order, and loops and jobs that come to an end |
| Forecast, n8n endpoints, dashboard, STT and LLM providers, replies, configuration, tools, frontend | `forecast/`, `api/internal.py`, `api/dashboard.py`, `stt/`, `llm/`, `services/replies.py`, ... | none of the above | I/O and text | | |

They meet in the database only. The webhook inserts a message and its job in one transaction; a worker thread claims
the job and runs `process_message`; that may open a question, which a tap (a background task of the API), the next
message of the chat (another worker) or the reaper closes; booking writes the ledger inside the same transaction that
settles the message; the reaper repairs jobs, messages and questions every 60 s. Telegram is called after commits only.

`PROJECT.json` lists every component with its status, and under `hazards` each place where this can go wrong.

## 2. Modules

| Module | Models | Kind |
|---|---|---|
| `JobQueue` | `jobs` table, `jobs.py`, the worker threads' hold on jobs | component |
| `Messages` (EXTENDS JobQueue) | `messages` and `pending_actions` of one chat, `decide_and_post_in` as an order of questions | component |
| `Confirmations` (EXTENDS Messages) | `resolve_callback`, `open_enter_text`, `answer_text` | component |
| `Pipeline` (EXTENDS Confirmations) | `process_message` step by step under `run_one`, webhook, reaper: the composition | system |
| `Promise` | what the user is promised of a message | abstract specification |
| `Ledger` | the books, `post_decision`, `reverse_transaction`, `undo`, views, daily summary | component |
| `Money`, `Decide` | rounding and units; `decide` with its amounts, condition by condition | functions |
| `Resolve` | `resolve_customer`, `resolve_product` | functions |
| `Dialogue` (EXTENDS Decide, Resolve) | a message with its data: questions, answers, new customers and items, wizards, catalog commands, booking | system |
| `Normalizer` | the number reader, word by word, and what a spelled-out number means | component |
| `RulesParser` | `parse_rules` on canonical words | functions |
| `Understanding` (EXTENDS Normalizer, RulesParser) | `parse`: rules, completeness gate, providers with retries, grounding, merging | system |
| `Transport` (EXTENDS JobQueue) | Telegram's updates, poller, webhook, inline tasks, simulate, workers, reaper | system |
| `Insights` | weekly runs, their calls and log, approval and sending | component |
| `Locks` | the row locks of ten transactions: waiting, rollback, retries, dead-lettering | component |
| `MCPipeline`, `MCLedger`, `MCDialogue`, `MCUnderstanding`, `MCTransport`, `MCInsights`, `MCLocks` | constants of the runs | model checking |
| `JobQueueProofs`, `PipelineProofs`, `LedgerProofs`, `DialogueProofs`, `UnderstandingProofs`, `TransportProofs`, `InsightsProofs`, `LocksProofs` | theorems | proofs |

Operators named `Mut...` (and `BadReversal`) are deliberate errors: the definition below each of them with a guard
dropped, a reset missing or a sign wrong. Nothing uses them; each property was seen to fail when the one that
`PROJECT.json` pairs with it takes the place of the definition.

### How they correspond to the code

**One transaction, one action.** Postgres runs at READ COMMITTED and every transaction of the core takes the row locks
it needs before it decides, so each transaction is one action, with its statements composed in code order. There are
three exceptions: the read of the open question in `Route`, which is outside any transaction; `undo`, whose statements
are separate actions because it reads, waits for a row lock and reads again; and `Locks`, whose actions are the single
lock requests.

*JobQueue.* `jobs[j]` is a row; `slot[w]` is the row `claim` returned to thread `w`, with the attempts of that moment,
by which `fail` judges. `Claim` takes the lowest ready id, passing over rows that other threads' transactions have
locked. `Complete` and `Fail` write by id alone, as the code does, so a worker that lost its job still overwrites it.
`Reap(stale, stuck)` is one transaction; which rows are old enough is a choice. `SlowWorkers = FALSE` says that a live
handler finishes in under 5 minutes, so that only a dead worker's row gets stale.

*Messages.* A message id is its job's id (`dedupe_key msg:<id>`). A parsed sentence is the set of questions `decide`
has to have answered before it books (or `Junk`); `First` is the order `decide` asks in; `pend[m].answered` is
`draft.overrides`. `DecideAndPost(m, o, st, pd)` takes the tables as the earlier statements of the same transaction
left them. `words = "unsure"` is a confidence below `stt_min_avg_logprob`. Only the latest question of a message is
kept: an older one can neither be tapped nor answered. `ENTER_TEXT` questions are `Texts`, all others `Buttons`.

*Confirmations.* `Tap`, `Cancel` and `StrayTap` are the three ways through `resolve_callback` once its conditional
UPDATE has found a row; otherwise it writes nothing. `Tap` has the case where `Skip` is caught inside the
transaction, which then commits the resolved question. `AnswerAccepted`, `AnswerReasked` and `AnswerSkipped` are
`answer_text`: the first two reject the answering message, the third rolls everything back. `answer_text` checks PENDING
and not the expiry, `open_enter_text` the expiry.

*Pipeline.* `pc[w]` is the next transaction or external call of thread `w`. `Lock` is transaction A, `Transcribe` STT
and B1, `Parse` the parsers and B2 (which does not look at the status), `Post` transaction C, `FailMessage` `_fail`
(which does not look at the status either), `Raise` an exception at any step of `Raises`, `FailJob` and `Apologise` the
except block of `run_one`, `Die` a killed process or an exception out of `run_one`. `Finish` from `"skipped"` is the
except branch for `Skip`. `ReaperRuns` is `reap` on all three tables.

*Ledger.* `txns`, `moves` and `credits` are the three tables; a transaction has at most one movement and one credit
row. `Post` is `post_decision` with its refusals, `FindForUndo`, `LockForUndo`, `CheckUndone` and `Reverse` the
statements of `undo`. `Stock`, `Balance` and `Total` are the SQL sums.

*Money, Decide.* Quantities are thousandths of a unit, money is paise, prices per base unit; ROUND_HALF_UP and the
banker's rounding of a quantity are two operators. `Verdict` is `decide`: `Applies(r, c)` is the condition of each
question or refusal in `Precedence`, the order of the code's returns, and the first that applies is the answer. A
command is a record in which `None`, `Nobody` and `<<>>` stand for what was not said.

*Resolve.* A name is a sequence of tokens. The by-sound skeleton and the scores of `rapidfuzz` are constants
(`Skeleton`, `Alike`, `Ratio`, `Near`), the bands that use them are the code's.

*Dialogue.* `draft[m]` is the `Overrides` of the pending row, `question[m]` the latest question, `entry[m]` the booked
transaction. `Hear` parses and decides; `Tap` is `resolve_callback` with the option's override, `AnswerNumber` and
`AnswerName` the two halves of `answer_text`, `StartWizard` `/add_customer` and `/add_product` without arguments,
`Command` the owner's other catalog commands. `DecideAndPost` includes the accepted new customer, the flow of a new
item with its unit and price, `add_product`, and the decision on the catalog of that moment. `answered`, `touched` and
`taught` (the near misses that were picked, with the words they were picked for) are history.

*Normalizer, RulesParser, Understanding.* The reader takes a branch of `_read_number` per step; a word is canonical, and
a number that was read is the word `"#"` with a value, in thousandths. `Meaning` is what the words of a number mean
together, taken apart at "hazaar" and "sau". `parse_rules` is functions over word positions: `Positions` are those of
the numbers that have a role by their neighbours. Mentions are sets of words. `AttachCustomer` and `AttachNumbers` are
the first half of `parse_rules`, which shares no state with anyone: the cut is there for TLC. `ApplyRules` builds the
`ParsedCommand`, which raises when `Valid` does not hold. `Extract` is one provider's answer, any extraction of
`Extractions`, grounded and merged; `RetryModel` an invalid text, `GiveUpModel` an exception or the second invalid text.

*Transport.* Telegram's memory is `confirmed` (an offset confirms all that is below it), the poller's is `offset` and
`batch`. `Forward` is the POST of one update and its outcome: delivered, delivered but the answer lost, not delivered,
or an update that raises. `tasks` are background tasks of the API, `sim` a simulate request with its three
transactions: begin (transaction A), process, and what is written between. What a message says is left to `Pipeline`:
here `Decides` books it, asks or rejects, `Refuses` is `_fail`, `Answers` is `answer_text` with the message as the answer
to another, `TooLate` its `Skip`, `Tap` a tap, and `Expires` the expiry within `Reap`. Only `Decides` looks at the status
again, and lets PROCESSING and AWAITING_CONFIRMATION pass (`services/pipeline.py:199`); `Refuses`, `Answers` and the
"cancel" of `Tap` write FAILED and REJECTED whatever the message is by then, as the code does. `booked` counts the
bookings of a message, which its status therefore does not tell.

*Insights.* `row` is the week's row, its body named by the run that wrote it. `Request` is one provider asked by one
role, `Kickoff` the CrewAI path, `SavesCalls` the finally block, `Writes` the upsert, `Approve` the UPDATE with
RETURNING and `Send` the message.

*Locks.* A script lists the lock requests of one transaction in code order, the rows whose status its conditional
statements test, and those its commit closes. `Role` says what a row is to the transactions: a job, a message of a
dead job, a stuck one, a question, an entry, a message being processed or waiting, a product, a customer; `QuestionOf`
is the question a waiting message is reached through. `Timely` are the scripts of transactions that are where they
belong, `Late` those of a worker that was reaped and goes on. Modes are FOR UPDATE, FOR NO KEY UPDATE and FOR KEY SHARE
with Postgres' conflicts; a statement whose row no longer satisfies its condition ends the transaction. `WaitsOn(t)` is
the least set that holds those `t` waits for and those they wait for. What a deadlock rolls back goes on as its caller
does: a tap ends, the reaper's loop comes again (`ReapsAgain`), a job is claimed again after a backoff that heeds nobody
(`Again`), and after its last attempt the transaction of `run_one`'s except block takes its place (`GivesUp`,
`LastRites`), which makes the job DEAD and fails a message that is still being processed.

**Left out on purpose.** `UNIQUE (message_id)` and `UNIQUE (reverses_transaction_id)`. ADR-003 calls the first the
guarantee and the layers above it optimisations; the models show that row locks and status checks suffice, and the
constraints are a second line.

## 3. Runs

| Run | Instance | Checks |
|---|---|---|
| `Pipeline_chat` | 2 texts, 2 threads, 2 attempts, all parses, 1 crash | `WaitsForItsQuestion`, `DeadMeansSettled`, `OneHolder`, `SettledIsFinal`, `AnswersAreKept`, `DeadIsFinal` |
| `Pipeline_voice` | 2 messages of any kind, unusable answers, 1 attempt, 1 crash; fairness | `RefusedMeansNotBooked`, `RepliesAgree`, `EveryMessageSettles` |
| `Pipeline_slow` | 2 messages of any kind, live workers reaped, external calls that raise, stray taps | `TypeOK`, `ExactlyOnce`, `PromiseKept` |
| `Ledger` | 4 transactions, every type, 2 customers, 2 undoers that may abort, 2 days; fairness | `TypeOK`, `OneReversal`, `BalanceIsHistory`, `StockIsHistory`, `SummariesAgree`, `UndoEnds` |
| `Dialogue` | 1 message of 28 sentences or 4 wizards, 4 customers and 3 items known or to be made, 10 commands of which 3 are given | `StatusAgrees`, `AskedOnce`, `ChargedAsSaid`, `LiveChoiceWins`, `BooksLive`, `NeverGuessed`, `PickingTeaches` |
| `Language` | 627 sentences of up to fourteen words, every mode, 2 models that say anything of `MCExtractions` or fail; fairness | `TypeOK`, `ReadsAsSaid`, `Grounded`, `OneRole`, `TwoOfAnything`, `TypeIsSaid`, `EverySentenceEnds` |
| `Transport` | 2 updates (a note and a text, a note and one that raises, or two that raise) and 1 simulated message, inline tasks, taps and answers, 1 worker, 2 attempts, 1 loss, restart, crash or late answer; fairness | `NothingLost`, `BookedOnce`, `EveryMessageArrives` |
| `Insights` | a queued and a forced run, 3 providers, a cap of 6, 2 approvals, 1 retry | `NothingUnapproved`, `EveryCallLogged`, `CallsBounded` |
| `Locks` | any three of ten transactions, jobs of 3 attempts; fairness | `CirclesNeedATurn`, `LoopsGetThrough` |

They show, in words:

- with timely workers a job is never in two hands, a dead one stays dead, a message waits exactly while it has a
  question, nothing reopens or relabels a settled message, no given answer is lost, no refused message is booked, no
  reply contradicts the books, and every message received is settled in the end (`Pipeline_chat`, `Pipeline_voice`);
- with workers that are reaped while alive and with stray taps a message is still booked at most once and never after it
  was refused (`Pipeline_slow`);
- undo never reverses twice, always answers, and leaves no trace in balances, stock or summaries (`Ledger`);
- whatever the owner adds, removes, reprices or teaches while a question is open, what is booked is in the catalog,
  a choice that is still there wins over the words, nobody is charged by likeness of names alone, a sale costs what
  was said but for rounding (half a gram where less than a gram was said, half a paisa per unit), a message does not ask
  again for what was answered, and a word that was once taught finds its item, or asks among the items spelt just so
  (`Dialogue`);
- numbers in words mean what they say, a number fills one field of a transaction, nothing is in a command that was not
  heard or added up from what was, two counts or more numbers than roles are flagged and dropped, no model makes a sale
  one on credit or for cash, and every sentence ends in a command or is refused (`Language`);
- redelivery, lost answers and restarts lose no message, and neither they nor a worker, an inline task, `simulate`, a tap
  and an answer at the same message book it twice, ask about it once it is booked or leave it open for ever (`Transport`);
- only approved notes are sent or shown, whatever is regenerated meanwhile (`Insights`);
- the transactions take their row locks in one order but for two; Postgres breaks the deadlocks of these, after which the
  reaper gets through, and a job does too or is given up in its last attempt, with its message (`Locks`).

**Bounds.** Two workers and two messages are enough for the races of the pipeline: each involves one message, the
message that answers it, and two actors. A third message would be a second answer to the same question, which the
reaper's revival already produces. Two attempts separate a retry from the last one. `MaxFaults` counts crashes, retries
and reaps of live work, `MaxLosses` lost answers and restarts (in `Transport` crashes and late answers too),
`MaxBadReplies` unusable answers, `ReviveCap` revivals of a finished job whose message is open: each cuts a loop that
only repeats. `Ids` bounds the number of transactions, `Room` keeps an id for every undo under way, and `Days` bounds
the calendar; four transactions hold two entries and their reversals, or an entry, its reversal, an attempt to undo the
reversal and another entry. In `Dialogue` messages meet in the catalog only, so one message beside the commands sees
what another could do to it; three commands remove, teach another item the same word, and add again what was removed.
The sentences have an instance of each question, of both kinds of name, and of amounts that round up, down and to
nothing. In `Language` every phrase of customer, amount, product, price and action is combined with every other, with
and without each; as TLC's integers are 32 bits wide, `MaxTotal` and `MaxPrice` are below the limits of
`domain/models.py`, which one of the amounts passes. Two updates are a message before or behind one that raises, or one
that the other answers; a simulated message meets nobody but the worker and the reaper. The cap of `Insights` is the
code's. Three transactions are enough for a circle through question, message and customer. `SYMMETRY` permutes workers,
in runs without liveness properties; `Locks`, which has one, starts from one arrangement of each three scripts
(`Arranged`), as its transactions differ in their scripts alone.

Deadlock checking is off where the system may be at rest: a shop that posts nothing more or has used up `Ids`
(`Ledger`), a message that is settled or whose user does not answer (`Dialogue`, `Finding_wrongperson`), a sentence that
is understood (`Language`, `Finding_twocustomers`), runs that ended (`Insights`), transactions that ended (`Locks`).

**Fairness.** Worker threads loop for ever, handlers return, raise or die (external calls have timeouts), the reaper
passes every 60 s and clocks advance: weak fairness on a worker's claim and on its next step, on backoffs and expiries,
and on a due reaper pass. None on arrivals, taps or answers: a user owes nothing. A raise is a step like any other, so
fairness never prefers success. A row lock is granted in the order of requests: strong fairness on `LockForUndo`, since
the holder may change any number of times while one waits. In `Transport` the poller is a loop too, which compose
restarts, and tasks and requests go on while the API lives. In `Language` the steps of one call follow each other.
In `Locks` statements return, the server looks for deadlocks, run_one's except block and the reaper's loop go on, and
rows are granted in the order of requests: strong fairness on a transaction's next lock. With weak fairness TLC lets the
reaper take a question again and again before the job that waits for it.

### Where the code and its documents disagree

Each of these runs finds the property violated; the property states what the document says.

| Run | Document | What happens |
|---|---|---|
| `Finding_refused` | `src/docs/runbook.md:21`, FAILED may be simulated again | `_fail` of a worker that was reaped while alive overwrites COMMITTED |
| `Finding_wrongperson` | `domain/models.py:79`, answers are applied before asking again | the chosen customer is removed while another question is open; the words now mean somebody else, who is charged |
| `Finding_twocustomers` | `domain/rules_parser.py:3`, two customers are flagged | of "ramesh aur suresh ne ..." one is the customer and the other falls into the product, without a flag |

The cause behind `Finding_refused` contradicts two more lines: `services/pipeline.py:3` and `src/plan.md:447` say that
two workers never share a message, but `reap` hands out a job again after 5 minutes and `process_message` holds the
message's lock during transaction A only. `OneWorkerPerMessage` states the claim; it is proved for timely workers
(`WorkersNeverShare`).

A worker is timely when nobody else is at its message: its handler ends within the 5 minutes, and no background task of
the API (`run_worker_inline`, `api/telegram.py:87`) and no `/dev/simulate` (`api/dev.py:41`) processes the message beside
it.
Where they do, two handlers share a message without any of them being slow, and the status of a booked message may
become FAILED or REJECTED just as in `Finding_refused`: `Transport` has them, and there a message is booked at most once
(`BookedOnce`), whatever its status says then.

So `RefusedMeansNotBooked`, `SettledIsFinal`, `AnswersAreKept`, `WaitsForItsQuestion` and `RepliesAgree` are about
timely workers, and `Pipeline` has none of these handlers; `WaitsForItsQuestion` needs in addition that there are no
stray indices, and `RepliesAgree` that sends do not raise after a commit (`Raises` has the calls before it). These are the
hypotheses of their theorems in
`PipelineProofs` too, which need no others. `ExactlyOnce` and `PromiseKept` need none of these.

The models show more, which no run of its own records:

- *Skip means handled* (`services/pipeline.py:28`): when two messages answer one question, the loser's job is DONE while
  the message stays PROCESSING until the reaper runs it again 5 minutes later (`services/confirmations.py:120`).
- *Confirm the words before booking anything* (`services/pipeline.py:206`): a low-confidence voice note that answers a
  question books unconfirmed (`services/pipeline.py:142`).
- *AWAITING goes with one PENDING* (`src/docs/architecture.md:18`): an index past the options commits the resolved
  question and nothing else; the message waits for ever (`services/confirmations.py:66`).
- When every send after the commit raises, the job dies and the user is told to try again of a booked message
  (`cli/worker.py:61` against `services/replies.py:136`).
- A price per unit that does not fit the item (`domain/decide.py:100`, `PRICE_MISMATCH` in the model) asks for a quantity,
  which cannot repair it: it is asked again whatever is typed. A chosen customer who was removed is asked for again.
  `Excused` takes these two out of `AskedOnce`.
- "max 6 LLM calls" (`crew/insights.py:7`): the cap is looked at before a role and not before each provider, so 8 are
  possible, `MaxCalls + Providers - 1` (`CallsBounded`). An answer that is JSON but no object is listed twice (`:91-100`),
  and CrewAI's calls are one line when it succeeds and none when it fails.
- One note a week is not one run a week: forced runs, and an `INSIGHTS` job that is reaped while it runs, ask the models
  again. An approval by id approves what the row has by then, which may be a body written after the owner read it.
- A multiplier may be used twice in one number: "ek sau do sau" is 10200, "paanch sau paanch sau" 50500, where
  `domain/normalize.py:4` says it never invents a number. `ReadsAsSaid` is about the others (`Once`).
- A word that `Decimal` reads and cannot compare ("nan") raises in `domain/rules_parser.py:41`; more than 80 characters
  of unknown words, or an amount above the limits, raise in `domain/rules_parser.py:188`. The job then fails and is
  retried with the same words until it is dead; the user is asked to try again.
- `domain/parser.py:57`, the roles of numbers are the rules': not for the numbers the rules drop again. The parts of a
  sum ("2 kg 500 g chawal rupaye") and the goods of a repayment ("ramesh ne do kg chawal chukaya") may be taken for a
  model's total or unit price (`Dropped` in `OneRole`). The unit of a quantity is the model's even when its number is
  the rules'.
- A number below zero ("paune 0") is a word to the rules and not flagged (`Numerals`). "ramesh ko udhaar chukaya" without
  an amount is a repayment (`domain/rules_parser.py:169`), and "ramesh ko 2 kg pachas rupaye", which the rules give no
  type, may be one to a model, without the flag of `domain/rules_parser.py:165`.
- `/price Rice 0.001` rounds to 0 paise, the CHECK raises, the webhook answers 500 and the poller sends the update again
  for ever, with every later one behind it: the `"poison"` of `Transport`.
- Taps and wizards run in background tasks after the 200 and are lost if the API dies there.

## 4. Proofs

All theorems hold for every value of the constants allowed by the modules' assumptions: any set of jobs (natural
numbers), any workers, attempts, questions, parses and kinds of arrival, slow workers and stray taps included; any
runs, approvals, providers and caps; any updates, simulated messages and losses; any customers, products, decisions,
undoers and days; any catalog, sentence, wizard, typed name and number, and likeness of names; any spoken words,
vocabulary, models and extractions that pass validation; any rows and any transactions on them. Only the theorems about
timely workers have hypotheses of their own, named below.

*JobQueueProofs.* `QueueTypeCorrect`, `OneWorkerOneJob` (`OneHolder`), `DeadLettersStay` (`DeadIsFinal`) and
`NoEarlyDeath` (`DeadWasTried`). `OneHolder` is inductive with the type invariant because it says three things at once:
the held row is RUNNING (so nobody can claim it), has the attempts read, and has one holder. `DeadWasTried` needs in
addition that a table row has at least the attempts any holder read, which remains true when a live worker's job is
reaped.

*PipelineProofs.* `PipelineImplementsQueue`: every step is a queue step or leaves the queue alone, so the queue's
theorems carry over; `WorkersNeverShare` is one of them. `PipelineTypeCorrect` strengthens `TypeOK` with `HandsFull` (a
worker past idle holds a job), without which `Own(w)` is no message. `BooksAtMostOnce` uses `PipelineInv == TypeOK /\
HandsFull /\ Known /\ ExactlyOnce`: an unknown message has no question, and what a worker holds or has set out to answer
is a message that was received. `ExactlyOnce` is its own reason: an open message has booked nothing, and booking both
requires open and ends it in the same transaction. The lemma `StepEffect` classifies every action: a message is
received, or one open message is booked, or none is, and in each case every message that was open stays open or is
settled while no settled one is opened. `PipelineKeepsPromise` maps a step to `Hear`, `Book`, `Refuse` or a stutter
through the same lemma. `DeadLettersAreReported` (`DeadMeansSettled`) rests on two lemmas: only the webhook makes a
message unhandled, and only `run_one`'s except block makes a job DEAD, which handles the message in the same
transaction; its message is that of the job it holds, by `HandsFull`. `Fate` reads a booked message as booked whatever
its status says, because of `Finding_refused`.

*Timely workers (in PipelineProofs).* With `~SlowWorkers` (a handler that lives ends within the 5 minutes of `reap`):
`SettledForGood` (`SettledIsFinal`), `DraftsGrow` (`AnswersAreKept`) and `RefusedNotBooked`
(`RefusedMeansNotBooked`); with `~StrayTaps` besides, `WaitsExactlyWhileAsked` (`WaitsForItsQuestion`); with calls that
raise before the commit only, `RepliesTellTheBooks` (`RepliesAgree`). None of these is inductive: a worker past its
transaction A writes without looking at the status, so what it relies on is that nobody else has moved the message
since. `TimelyInv` says so: `OneHolder` from the queue, `Busy` (the message under a working thread is PROCESSING),
`Awaited` (an open question belongs to a message that waits) and `Unanswered`. `StepMoves` then says what a step may do
to one message (`Moves`: nothing, begin, end, ask, stray), and each property is read off it; `Told` keeps what a
delivery says true until it is sent.

*LedgerProofs.* `ReversedAtMostOnce` with `LedgerInv == TypeOK /\ UndoInv /\ OneReversal`. `OneReversal` alone is not
inductive: an undo past its check must know that nothing reversed its target since. `UndoInv` says so, because a row is
locked by one undo at a time and only the holder writes a reversal of it. `StockNeverDrifts`, `BalancesNeverDrift` and
`SummariesNeverDisagree` are about sums over sets of rows. The library's sum is a recursive function of the set, and
induction over finite sets is not to be had, so the lemmas about it (a row more, a row less, rows that move
between two sums, two families of sums with one total) are proved by a least counterexample: a set of least cardinality
for which a lemma fails, which `LeastSet` takes from the well-foundedness of the naturals. Every step enters one live
transaction with its rows, adds a REVERSAL that takes its target out of the live ones and mirrors its rows
(`RowsAgree`), or leaves the books alone. `SummariesAgree` needs that an entry and an undo shift one day and one
customer by the same amount (`MovesTogether`).

*DialogueProofs.* A step is the turn of one message, which asks, ends or books (`Turn`, `DecideOutcome`), or a command.
On this rest the type invariant, `RowsOfAMessageAgree` (`StatusAgrees`), `OnlyLiveRowsBooked` (`BooksLive`),
`LiveChoicesAreKept` (`LiveChoiceWins`) and `NobodyIsGuessed` (`NeverGuessed`): what `resolve_customer` and
`resolve_product` return is of the catalog they were given, and a customer they return contains the mention and has no
rival that is spelt like it. `PicksAreLearnt` (`PickingTeaches`) is about all that was ever taught. `LessonsStay` says
that those words are still a spelling of that item: picking puts them there (`TapTeaches`, which needs `OffersAreNew`,
that what a question offers is not what the draft already chose), and no other write to the catalog, of a command or a
booking, takes a spelling from an item (`CommandKeepsSpellings`, `BodyKeeps`). `SpeltIsFound` follows the cutting of a
mention into phrases down to a whole mention of up to three words that is somebody's spelling, which finds the items
spelt so and no others. `SaidIsWhatItCosts` (`ChargedAsSaid`) is the arithmetic of two conversions and four
roundings (`LineIsFair`). It does not hold to half a paisa per unit when less than a gram is said: the proof
failed there, and the half gram the code drops became a term of the property. `NothingAskedTwice` (`AskedOnce`) is
not inductive either: that a question is new says nothing of the next one. `AnswersCount` says of a waiting message
whose catalog stays that every answer has left something (`Left`), that its question found something missing (`Lacks`),
and that no question finds missing what its answer left, but for the two `Excused`. Each button, number and name keeps
what others left and leaves its own (`Better`), and the transaction body, which fills in what it created, takes nothing
away (`FilledKeeps`).

*TransportProofs.* `TransportTypeCorrect` needs `Sourced`: what a worker, a task or a question is about is a message
with a row. `BooksOnce` (`BookedOnce`) says of the status only that a booked message is never one that the booking
transaction accepts: that transaction looks at it under the row lock and accepts only what is not settled, and every
write that does not look (`_fail`, the REJECTED of an answer, the end of a dead job) leaves something settled behind.
`SoundStep` shows this of each step to each message. `NothingIsLost` (`NothingLost`) rests on `Kept`: what is behind the
poller has a row (what Telegram forgot, what is below the offset or before the rest of the batch), a batch has no gaps,
and rows are in order.

*InsightsProofs.* `NothingSentUnapproved`, `CallsAreLogged` and `CallsStayBounded`, each with the type invariant and one
fact more about the runs in progress.

*LocksProofs.* `CirclesTurn` (`CirclesNeedATurn`): along every script but those of `Turning` (`late`, `recreate`) the
rows have growing ranks (job, message of a dead job, stuck message, question or entry, message in processing, product,
customer), and a message that waits comes after its question. With `Exclusive` (two transactions never hold conflicting
locks) nobody waits for a message that waits, as both would need its question (`NoneWaitsForAMessage`), so a waiting
transaction asks for a row above all that it holds and ranks; a circle without a turn would climb for ever
(`SomeoneTurns`).

*UnderstandingProofs.* `UnderstandingInv` says that parts, rules and command are functions of the sentence: the rules
are `Classify` of the attached words, and a command is the rules' or `Merge(Ground(x))` of some extraction. The rest is
about these functions, for any sequence of tokens. `PositionsFit` is the lemma that carries it: the numbers that get the
roles unit price, quantity and total are disjoint, at most one each, are not among the customer's words, and one that is
left over is unread. From it `NothingInvented` (`Grounded`), `TwoAreFlagged` (`TwoOfAnything`: five numbers do not fit
four places, and two counts not one) and `OneRoleANumber` (`OneRole`): the roles of a command that hold one number are
at distinct places of the sentence where it stands, since `RulesOwnNumbers` takes from a model what the rules gave
another role. `TypesAreSaid` (`TypeIsSaid`) follows the marker of the customer through `Rule`.
`UnderstandingTypeCorrect` (`TypeOK`) needs `Valid` of the rules. For `NumbersReadAsSaid` (`ReadsAsSaid`) the invariant
is `AsMeant`: as long as no multiplier is repeated, the words read so far end in a part below 1000 that starts at some
`p` (`Below`: nothing yet, a modifier alone, or a value that is `Below1000(p, j)`), and the total is what was said
before `p` times 1000 (`Thousands`). It is not inductive without one more fact, that `after` in a part means that its
last word is its only "sau": else what is added behind "sau" could belong to another number.

Several properties of `Language` were first stated too strongly, and the attempts to prove them found the sentences that
section 3 lists; they now name their exceptions (`Sums`, `Dropped`, `Numerals`).

Only model-checked is liveness (`EveryMessageSettles`, `UndoEnds`, `EverySentenceEnds`, `EveryMessageArrives`,
`LoopsGetThrough`), which needs ENABLED. Every other property of a passing run is proved.

## 5. Plan

Done: the queue, the pipeline and its promise, the ledger, decisions with their amounts, dialogue with the catalog,
language, transport, insights, locks, and the proofs of all their safety properties. Next, in this order:

1. `Delivery`: lost replies, what the user has been told, balances in replies.
2. The reader's words from spellings (`CANON` of `domain/normalize.py`).
3. `Migrate`: the migrations runner against running services.

## 6. Not modelled

Speech recognition, language models and HTTP clients are their outcomes only. Wording, logging, audit rows, the
dashboard, the frontend, forecasting, and the one-shot tools write nothing the properties depend on. In the language
modules the regular expressions that cut a text into words and the table of spellings are left out: the words are
canonical. Fuzzy scores and skeletons are constants, so nothing is said of which names are alike. The code offers the
best four or three candidates of a question, the model all. One chat of one shop is modelled: every table of the core
is keyed by message or shop, and questions by chat, so chats interact only through the order of the queue. Database
faults between two statements of a transaction are rollbacks, and so stutters or `Raise`.

## 7. Running

    tlc -workers 2 -config Pipeline_chat.cfg MCPipeline
    tlapm PipelineProofs.tla
