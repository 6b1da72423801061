------------------------------ MODULE Transport ------------------------------
(***************************************************************************)
(* How what a user sends reaches the queue, and is processed: Telegram     *)
(* keeps updates until a getUpdates confirms them, app/cli/poll.py         *)
(* forwards them one by one, the webhook of app/api/telegram.py inserts a  *)
(* message with its job or leaves a background task, and workers, inline   *)
(* tasks and /dev/simulate (app/api/dev.py) process the message.           *)
(*                                                                         *)
(* The job of a message has the id of its update, and a simulated message  *)
(* an id of its own.  Two handlers of one message may run at once here,    *)
(* however fast they are: a task or a simulate request and a worker.  Each *)
(* decides for itself, to book, to ask or to refuse; what it goes by is    *)
(* left to Pipeline and Dialogue.                                          *)
(***************************************************************************)
EXTENDS JobQueue

CONSTANTS
    Updates,        \* 1 .. N, in the order they are sent
    Simulated,      \* ids that simulated messages may have
    Traffic,        \* bound: settings and what may be sent: [inline, kind, simulated]
    MaxLosses       \* bound: crashes of workers, lost answers, restarts of the poller
                    \* and the API, and answers that come too late, together

\* A poison update raises in the webhook.
Kind == {"text", "voice", "poison"}

ASSUME TransportAssumption ==
    /\ Jobs = Updates \cup Simulated /\ Updates \cap Simulated = {}
    /\ \A u \in Updates : u > 0 /\ 1 .. u \subseteq Updates
    /\ Traffic \subseteq [inline : BOOLEAN, kind : [Updates -> Kind], simulated : SUBSET Simulated]
    /\ MaxLosses \in Nat

VARIABLES
    inline,     \* run_worker_inline
    kind,       \* of an update
    confirmed,  \* updates 1 .. confirmed are gone from Telegram
    offset,     \* the poller's, 0 for None
    batch,      \* what the poller has still to forward
    tasks,      \* background tasks of the API: [of, begun]
    message,    \* status of a message
    question,   \* its open question: "none", "buttons" or "text", which is typed
    booked,     \* how often it was booked (history)
    sim,        \* a simulate request: "none", "claimed", "marked", "begun" or "gone"
    phase,      \* of a worker with a job: "claimed", "begun" or "over"
    losses

net == <<inline, kind, confirmed, offset, batch>>
api == <<tasks, sim>>
rows == <<message, question, booked>>
vars == <<jqVars, net, api, rows, phase, losses>>

Init ==
    /\ JQInit
    /\ \E t \in Traffic :
        /\ inline = t.inline /\ kind = t.kind
        /\ sim = [s \in Simulated |-> IF s \in t.simulated THEN "none" ELSE "gone"]
    /\ confirmed = 0 /\ offset = 0 /\ batch = {}
    /\ tasks = {}
    /\ message = [m \in Jobs |-> "ABSENT"]
    /\ question = [m \in Jobs |-> "none"]
    /\ booked = [m \in Jobs |-> 0]
    /\ phase = [w \in Workers |-> "over"]
    /\ losses = 0

MayBreak == losses + faults < MaxLosses

Lose == MayBreak /\ losses' = losses + 1

-----------------------------------------------------------------------------
(* Telegram and the poller.                                                *)
\* getUpdates confirms what is below the offset and returns some of the rest,
\* in order: what users have sent by then.  Its answer may be lost.
Poll ==
    /\ batch = {}
    /\ confirmed' = IF offset = 0 THEN confirmed ELSE offset - 1
    /\ \/ \E last \in {u \in Updates : u > confirmed'} : batch' = (confirmed' + 1) .. last /\ UNCHANGED losses
       \/ Updates \subseteq 1 .. confirmed' /\ UNCHANGED <<batch, losses>>
       \/ Lose /\ UNCHANGED batch
    /\ UNCHANGED <<jqVars, inline, kind, offset, api, rows, phase>>

(* claim_message: one row per idempotency key, and its job, in one         *)
(* transaction.                                                            *)
ClaimMessage(m) ==
    IF message[m] = "ABSENT"
    THEN message' = [message EXCEPT ![m] = "RECEIVED"] /\ Enqueue(m)
    ELSE UNCHANGED <<message, jqVars>>

Messages == {u \in Updates : kind[u] # "poison"}
Stored(m) == message[m] # "ABSENT"

(* webhook: a message is claimed, and processed after the answer when the  *)
(* worker is inline.                                                       *)
Webhook(u) ==
    /\ u \in Messages
    /\ ClaimMessage(u)
    /\ tasks' = IF inline /\ message[u] = "ABSENT"
                THEN tasks \cup {[of |-> u, begun |-> FALSE]} ELSE tasks

\* The poller posts its next update.
IsNext(u) == u \in batch /\ \A v \in batch : u <= v

\* Mutant: an update whose answer is lost is given up.
MutForward(u) ==
    /\ IsNext(u)
    /\ \/ Webhook(u) /\ UNCHANGED losses
       \/ Lose /\ UNCHANGED <<jqVars, message, tasks>>
    /\ offset' = u + 1 /\ batch' = batch \ {u}
    /\ UNCHANGED <<inline, kind, confirmed, sim, question, booked, phase>>
\* After a 2xx the offset advances, and after anything else the rest of the
\* batch is dropped: the API was not reached, its answer was lost, or the
\* update raises in it.
Forward(u) ==
    /\ IsNext(u)
    /\ \/ /\ Webhook(u)
          /\ offset' = u + 1 /\ batch' = batch \ {u}
          /\ UNCHANGED losses
       \/ /\ Webhook(u) \/ UNCHANGED <<jqVars, message, tasks>>
          /\ batch' = {}
          /\ Lose /\ UNCHANGED offset
       \/ /\ kind[u] = "poison"
          /\ batch' = {}
          /\ UNCHANGED <<jqVars, message, tasks, offset, losses>>
    /\ UNCHANGED <<inline, kind, confirmed, sim, question, booked, phase>>

RestartPoller ==
    /\ Lose
    /\ offset' = 0 /\ batch' = {}
    /\ UNCHANGED <<jqVars, inline, kind, confirmed, api, rows, phase>>

-----------------------------------------------------------------------------
(* process_message: transaction A takes an open message, and only what     *)
(* decides looks at its status again.                                      *)
Open(m) == message[m] \in {"RECEIVED", "PROCESSING"}

Begin(m) == message' = [message EXCEPT ![m] = "PROCESSING"]

\* Mutant: the status is not looked at again.
MutDecidable(m) == TRUE
\* decide_and_post_in raises Skip otherwise.
Decidable(m) == message[m] \in {"PROCESSING", "AWAITING"}

\* It books m, asks (which cancels an open question) or rejects, in the
\* transaction that made others and asked of the messages and questions.
Decides(m, others, asked) ==
    /\ Decidable(m)
    /\ \/ /\ message' = [others EXCEPT ![m] = "COMMITTED"]
          /\ booked' = [booked EXCEPT ![m] = @ + 1]
          /\ question' = asked
       \/ /\ message' = [others EXCEPT ![m] = "AWAITING"]
          /\ \E how \in {"buttons", "text"} : question' = [asked EXCEPT ![m] = how]
          /\ UNCHANGED booked
       \/ /\ message' = [others EXCEPT ![m] = "REJECTED"]
          /\ question' = asked
          /\ UNCHANGED booked

\* _fail, of a note that is too long, too short or silent: without a look.
Refuses(m) ==
    /\ m \in Updates /\ kind[m] = "voice"
    /\ message' = [message EXCEPT ![m] = "FAILED"]
    /\ UNCHANGED <<question, booked>>

Closed(m) == [question EXCEPT ![m] = "none"]

\* answer_text: n answers the open question of m, and is rejected without a
\* look.  It is asked again, also of a settled m, or m is decided.
Answers(n, m) ==
    /\ n # m /\ question[m] = "text"
    /\ LET others == [message EXCEPT ![n] = "REJECTED"]
       IN \/ message' = others /\ UNCHANGED <<question, booked>>
          \/ Decides(m, others, Closed(m))

Processes(m) ==
    \/ Decides(m, message, question) \/ Refuses(m)
    \/ m \in Updates /\ \E other \in Updates : Answers(m, other)

\* Skip, after which m may still be open: its question was answered by another
\* message, or is that of a message that was settled.
TooLate(m) ==
    /\ m \in Updates /\ \E other \in Updates \ {m} : message[other] \notin {"ABSENT", "RECEIVED"}
    /\ Lose

(* resolve_callback, and /dev/simulate/answer: a choice or an answer of the *)
(* user, "cancel", which rejects without a look, or an index that the       *)
(* question does not have or a Skip, which leave the question resolved.     *)
Tap(m) ==
    /\ question[m] # "none"
    /\ \/ Decides(m, message, Closed(m))
       \/ /\ message' \in {message, [message EXCEPT ![m] = "REJECTED"]}
          /\ question' = Closed(m)
          /\ UNCHANGED booked
    /\ UNCHANGED <<jqVars, net, api, phase, losses>>

\* A worker thread: run_one.
WorkerClaims(w) ==
    /\ Claim(w)
    /\ phase' = [phase EXCEPT ![w] = "claimed"]
    /\ UNCHANGED <<net, api, rows, losses>>

WorkerBegins(w) ==
    /\ phase[w] = "claimed"
    /\ IF Open(slot[w].job) THEN Begin(slot[w].job) /\ phase' = [phase EXCEPT ![w] = "begun"]
       ELSE UNCHANGED message /\ phase' = [phase EXCEPT ![w] = "over"]
    /\ UNCHANGED <<jqVars, net, api, question, booked, losses>>

WorkerProcesses(w) ==
    /\ phase[w] = "begun"
    /\ \/ Processes(slot[w].job) /\ UNCHANGED losses
       \/ ~Decidable(slot[w].job) /\ UNCHANGED <<rows, losses>>
       \/ TooLate(slot[w].job) /\ UNCHANGED rows
    /\ phase' = [phase EXCEPT ![w] = "over"]
    /\ UNCHANGED <<jqVars, net, api>>

WorkerEnds(w) ==
    /\ phase[w] = "over" /\ Complete(w)
    /\ UNCHANGED <<net, api, rows, phase, losses>>

\* The last attempt fails the message too, if it is still open.
WorkerRaises(w) ==
    /\ phase[w] = "begun"
    /\ Fail(w)
    /\ message' = IF Dead(w) /\ Open(slot[w].job) THEN [message EXCEPT ![slot[w].job] = "FAILED"] ELSE message
    /\ phase' = [phase EXCEPT ![w] = "over"]
    /\ UNCHANGED <<net, api, question, booked, losses>>

WorkerCrashes(w) ==
    /\ Crash(w) /\ slot[w] # Idle /\ MayBreak
    /\ phase' = [phase EXCEPT ![w] = "over"]
    /\ UNCHANGED <<net, api, rows, losses>>

-----------------------------------------------------------------------------
(* The API's own processing: background tasks and simulate.  A raise in a  *)
(* background task is logged, one in simulate is an error to the caller.   *)
RunTask(t) ==
    /\ t \in tasks
    /\ \/ /\ ~t.begun /\ Open(t.of)
          /\ Begin(t.of)
          /\ tasks' = (tasks \ {t}) \cup {[t EXCEPT !.begun = TRUE]}
          /\ UNCHANGED <<question, booked>>
       \/ /\ t.begun
          /\ Processes(t.of) \/ UNCHANGED rows
          /\ tasks' = tasks \ {t}
       \/ /\ ~t.begun /\ ~Open(t.of)
          /\ tasks' = tasks \ {t}
          /\ UNCHANGED rows
    /\ UNCHANGED <<jqVars, net, sim, phase, losses>>

SimulateClaims(s) ==
    /\ sim[s] = "none"
    /\ ClaimMessage(s)
    /\ sim' = [sim EXCEPT ![s] = "claimed"]
    /\ UNCHANGED <<net, tasks, question, booked, phase, losses>>

\* The queued job is marked done, whatever it is by now.
SimulateMarks(s) ==
    /\ sim[s] = "claimed"
    /\ jobs' = [jobs EXCEPT ![s].status = "DONE"]
    /\ sim' = [sim EXCEPT ![s] = "marked"]
    /\ UNCHANGED <<slot, faults, net, tasks, rows, phase, losses>>

SimulateProcesses(s) ==
    /\ \/ /\ sim[s] = "marked" /\ Open(s)
          /\ Begin(s) /\ sim' = [sim EXCEPT ![s] = "begun"] /\ UNCHANGED <<question, booked>>
       \/ /\ sim[s] = "marked" /\ ~Open(s)
          /\ sim' = [sim EXCEPT ![s] = "gone"] /\ UNCHANGED rows
       \/ /\ sim[s] = "begun"
          /\ Processes(s) \/ UNCHANGED rows
          /\ sim' = [sim EXCEPT ![s] = "gone"]
    /\ UNCHANGED <<jqVars, net, tasks, phase, losses>>

RestartApi ==
    /\ Lose
    /\ tasks' = {}
    /\ sim' = [s \in Simulated |-> IF sim[s] = "none" THEN "none" ELSE "gone"]
    /\ UNCHANGED <<jqVars, net, rows, phase>>

-----------------------------------------------------------------------------
(* The reaper: RUNNING rows nobody works on, open messages that nobody     *)
(* touched for 5 minutes and whose job is DONE, and questions that expire. *)
(* It takes those that are old enough.  (Open messages of DEAD jobs, which *)
(* it fails, are Pipeline's subject: here WorkerRaises leaves none.)       *)
Untouched(m) ==
    /\ m \in Simulated => sim[m] \notin {"claimed", "marked", "begun"}
    /\ \A t \in tasks : t.of # m
    /\ \A w \in Workers : slot[w].job # m

\* Mutant: a message is stuck only when its job is dead.
MutStuck == {}
Stuck == {m \in Jobs : Open(m) /\ Untouched(m) /\ jobs[m].status = "DONE"}

Asked == {m \in Jobs : question[m] # "none"}

Expires(expired) ==
    /\ question' = [m \in Jobs |-> IF m \in expired THEN "none" ELSE question[m]]
    /\ message' = [m \in Jobs |-> IF m \in expired /\ message[m] = "AWAITING" THEN "REJECTED" ELSE message[m]]
    /\ UNCHANGED booked

Reaper ==
    /\ \E stale \in SUBSET (Running \ Held), stuck \in SUBSET Stuck, expired \in SUBSET Asked :
        stale \cup stuck \cup expired # {} /\ Reap(stale, stuck) /\ Expires(expired)
    /\ UNCHANGED <<net, api, phase, losses>>

Backoff(j) == Ripen(j) /\ UNCHANGED <<net, api, rows, phase, losses>>

Next ==
    \/ Poll \/ RestartPoller \/ RestartApi \/ Reaper
    \/ \E u \in Updates : Forward(u)
    \/ \E w \in Workers :
        WorkerClaims(w) \/ WorkerBegins(w) \/ WorkerProcesses(w) \/ WorkerEnds(w) \/ WorkerRaises(w) \/ WorkerCrashes(w)
    \/ \E t \in tasks : RunTask(t)
    \/ \E s \in Simulated : SimulateClaims(s) \/ SimulateMarks(s) \/ SimulateProcesses(s)
    \/ \E j \in Jobs : Backoff(j) \/ Tap(j)

(* The poller, the workers and the reaper are loops that compose restarts; *)
(* background tasks and requests of the API go on while it lives.          *)
Fairness ==
    /\ WF_vars(Poll) /\ WF_vars(\E u \in Updates : Forward(u)) /\ WF_vars(Reaper)
    /\ \A w \in Workers : WF_vars(WorkerClaims(w)) /\ WF_vars(WorkerBegins(w)) /\ WF_vars(WorkerEnds(w))
                          /\ WF_vars(WorkerProcesses(w) \/ WorkerRaises(w))
    /\ WF_vars(\E t \in tasks : RunTask(t))
    /\ \A s \in Simulated : WF_vars(SimulateMarks(s)) /\ WF_vars(SimulateProcesses(s))
    /\ \A j \in Jobs : WF_vars(Backoff(j))

Spec == Init /\ [][Next]_vars /\ Fairness

-----------------------------------------------------------------------------
(* The statuses of architecture.md:18, the steps of the processes, and     *)
(* what the poller and Telegram have of the updates.                       *)
Status == {"ABSENT", "RECEIVED", "PROCESSING", "AWAITING", "COMMITTED", "REJECTED", "FAILED"}

TypeOK ==
    /\ JQTypeOK
    /\ inline \in BOOLEAN /\ kind \in [Updates -> Kind]
    /\ confirmed \in Nat /\ offset \in Nat /\ batch \subseteq Updates
    /\ tasks \subseteq [of : Updates, begun : BOOLEAN]
    /\ message \in [Jobs -> Status]
    /\ question \in [Jobs -> {"none", "buttons", "text"}]
    /\ booked \in [Jobs -> Nat]
    /\ sim \in [Simulated -> {"none", "claimed", "marked", "begun", "gone"}]
    /\ phase \in [Workers -> {"claimed", "begun", "over"}]
    /\ losses \in Nat

(* poll.py:2, "the offset advances only on a 2xx, so a failed delivery is  *)
(* retried": whatever is lost or restarted, Telegram forgets no message    *)
(* that has no row here, and the messages of a chat get their rows in the  *)
(* order they were sent, so that an answer does not come before its request. *)
NothingLost ==
    /\ \A m \in Messages : m <= confirmed => Stored(m)
    /\ \A m, n \in Messages : m < n /\ Stored(n) => Stored(m)

(* architecture.md:8-21, layers 1 to 5: however often an update is         *)
(* delivered, whoever processes it beside the worker (telegram.py:87,      *)
(* dev.py:53), answers it or taps, and though _fail and answer_text write  *)
(* over a status they did not look at, its message is booked once at most  *)
(* and one that was booked never waits or is processed again.              *)
BookedOnce ==
    \A m \in Jobs : booked[m] <= 1 /\ (booked[m] = 1 => message[m] \in {"COMMITTED", "REJECTED", "FAILED"})

Safe(m) == \A u \in Updates : u <= m => u \in Messages

\* Settled, or the user's turn.
Arrived(m) == message[m] \in {"AWAITING", "COMMITTED", "REJECTED", "FAILED"}

(* runbook.md:20, "nothing is lost": a message that is sent, and that no   *)
(* raising update is ahead of, is settled or asked about in the end; so is *)
(* a simulated one, whose job dev.py:51 marks done before it is run, should *)
(* the API die in between.                                                 *)
EveryMessageArrives ==
    /\ \A m \in Updates : Safe(m) ~> Arrived(m)
    /\ \A s \in Simulated : message[s] = "RECEIVED" ~> Arrived(s)
=============================================================================
