------------------------------ MODULE Pipeline ------------------------------
(***************************************************************************)
(* The whole path of a message: claim_message in the webhook, the worker   *)
(* threads that run process_message (app/services/pipeline.py) under       *)
(* run_one (app/cli/worker.py), the reaper, and the user's answers.        *)
(*                                                                         *)
(* A worker step is one transaction or one external call of                *)
(* process_message; between two of them every other actor may move.        *)
(***************************************************************************)
EXTENDS Confirmations

CONSTANTS
    Arrivals,       \* kinds of message the chat sends
    Raises          \* steps at which an external call or the database may fail

VARIABLES
    pc,         \* where each worker thread is
    said,       \* its local transcript
    target,     \* the open question it read, which its message answers
    out         \* the Outcome it has committed and not yet sent

workerVars == <<pc, said, target, out>>

vars == <<jqVars, tableVars, badReplies, workerVars>>

\* Steps inside run_one's try block, then those after it.
TrySteps == {"lock", "stt", "fail", "route", "parse", "post", "answer", "deliver", "finish"}
Steps == TrySteps \cup {"idle", "skipped", "raised", "apologise"}

ASSUME PipelineAssumption == Arrivals \subseteq Kinds /\ Raises \subseteq TrySteps

NoMsg == NoJob
NoTarget == [msg |-> NoMsg, id |-> 0]
NoOutcome == [msg |-> NoMsg, reply |-> "question"]

WorkersTypeOK ==
    /\ pc \in [Workers -> Steps]
    /\ said \in [Workers -> Words]
    /\ target \in [Workers -> [msg : Msgs \cup {NoMsg}, id : Nat]]
    /\ out \in [Workers -> [msg : Msgs \cup {NoMsg}, reply : Replies]]

TypeOK == JQTypeOK /\ TablesTypeOK /\ badReplies \in Nat /\ WorkersTypeOK

Init ==
    /\ JQInit
    /\ TablesInit
    /\ badReplies = 0
    /\ pc = [w \in Workers |-> "idle"]
    /\ said = [w \in Workers |-> "null"]
    /\ target = [w \in Workers |-> NoTarget]
    /\ out = [w \in Workers |-> NoOutcome]

Own(w) == slot[w].job

At(w, step) == pc[w] = step

Goto(w, step) == pc' = [pc EXCEPT ![w] = step]

Rest(w) ==
    /\ pc' = [pc EXCEPT ![w] = "idle"]
    /\ said' = [said EXCEPT ![w] = "null"]
    /\ target' = [target EXCEPT ![w] = NoTarget]
    /\ out' = [out EXCEPT ![w] = NoOutcome]

-----------------------------------------------------------------------------
(* The webhook: claim_message inserts the message and its job in one       *)
(* transaction.  A redelivered update finds the idempotency key and does   *)
(* nothing.                                                                *)
Receive(m) ==
    /\ status[m] = "ABSENT"
    /\ Enqueue(m)
    /\ status' = [status EXCEPT ![m] = "RECEIVED"]
    /\ \E k \in Arrivals :
        /\ kind' = [kind EXCEPT ![m] = k]
        /\ words' = [words EXCEPT ![m] = IF k = "text" THEN "clear" ELSE "null"]
    /\ UNCHANGED <<parsed, booked, pend, asked, badReplies, workerVars>>

Take(w) ==
    /\ At(w, "idle")
    /\ Claim(w)
    /\ Goto(w, "lock")
    /\ UNCHANGED <<tableVars, badReplies, said, target, out>>

\* Mutant: no status guard, a settled message is processed again.
MutLock(w) ==
    /\ At(w, "lock")
    /\ status' = [status EXCEPT ![Own(w)] = "PROCESSING"]
    /\ said' = [said EXCEPT ![w] = words[Own(w)]]
    /\ Goto(w, IF kind[Own(w)] # "text" /\ words[Own(w)] = "null" THEN "stt" ELSE "route")
    /\ UNCHANGED <<jqVars, kind, words, parsed, booked, pend, asked, badReplies, target, out>>

(* Transaction A, with the row it read kept as a snapshot.  A settled      *)
(* message needs nothing more.                                             *)
Lock(w) ==
    /\ At(w, "lock")
    /\ LET m == Own(w) IN
        \/ /\ Unhandled(m)
           /\ status' = [status EXCEPT ![m] = "PROCESSING"]
           /\ said' = [said EXCEPT ![w] = words[m]]
           /\ Goto(w, IF kind[m] # "text" /\ words[m] = "null" THEN "stt" ELSE "route")
        \/ /\ ~Unhandled(m)
           /\ Goto(w, "finish")
           /\ UNCHANGED <<status, said>>
    /\ UNCHANGED <<jqVars, kind, words, parsed, booked, pend, asked, badReplies, target, out>>

(* FOR UPDATE SKIP LOCKED finds the row locked, by a transaction of another *)
(* worker on the same message or of an answer to its question, and returns *)
(* None: the job will be DONE.                                             *)
LockBusy(w) ==
    /\ At(w, "lock")
    /\ \/ \E v \in Workers \ {w} : Own(v) = Own(w)
       \/ Pending(Own(w))
    /\ Goto(w, "finish")
    /\ UNCHANGED <<jqVars, tableVars, badReplies, said, target, out>>

(* Voice guard, or download and speech to text, then transaction B1.       *)
Transcribe(w) ==
    /\ At(w, "stt")
    /\ LET m == Own(w) IN
        \/ /\ kind[m] = "odd"
           /\ Goto(w, "fail")
           /\ UNCHANGED <<words, said>>
        \/ /\ kind[m] = "voice"
           /\ \E t \in {"clear", "unsure", "blank"} :
               /\ words' = [words EXCEPT ![m] = t]
               /\ said' = [said EXCEPT ![w] = t]
               /\ Goto(w, IF t = "blank" THEN "fail" ELSE "route")
    /\ UNCHANGED <<jqVars, kind, status, parsed, booked, pend, asked, badReplies, target, out>>

\* Mutant: a job's status written to the message.
MutFailMessage(w) ==
    /\ At(w, "fail")
    /\ status' = [status EXCEPT ![Own(w)] = "DEAD"]
    /\ Goto(w, "deliver")
    /\ UNCHANGED <<jqVars, kind, words, parsed, booked, pend, asked, badReplies, said, target, out>>

(* _fail: FAILED whatever the status is by now.                            *)
FailMessage(w) ==
    /\ At(w, "fail")
    /\ status' = [status EXCEPT ![Own(w)] = "FAILED"]
    /\ out' = [out EXCEPT ![w] = [msg |-> Own(w), reply |-> "failed"]]
    /\ Goto(w, "deliver")
    /\ UNCHANGED <<jqVars, kind, words, parsed, booked, pend, asked, badReplies, said, target>>

(* A read outside any transaction: does this message answer a question?    *)
Route(w) ==
    /\ At(w, "route")
    /\ \/ \E n \in Msgs \ {Own(w)} :
           /\ IsNewest(n)
           /\ target' = [target EXCEPT ![w] = [msg |-> n, id |-> pend[n].id]]
           /\ Goto(w, "answer")
       \/ /\ \A n \in Msgs \ {Own(w)} : ~IsNewest(n)
          /\ Goto(w, "parse")
          /\ UNCHANGED target
    /\ UNCHANGED <<jqVars, tableVars, badReplies, said, out>>

(* Rules, or rules and LLM, then transaction B2, which does not look at    *)
(* the status.                                                             *)
Parse(w) ==
    /\ At(w, "parse")
    /\ \E p \in IF said[w] = "blank" THEN {Junk} ELSE Parses :
        parsed' = [parsed EXCEPT ![Own(w)] = p]
    /\ Goto(w, "post")
    /\ UNCHANGED <<jqVars, kind, status, words, booked, pend, asked, badReplies, said, target, out>>

(* Transaction C with blank overrides, or its Skip.                        *)
Post(w) ==
    /\ At(w, "post")
    /\ \/ /\ DecideAndPost(Own(w), {}, status, pend)
          /\ out' = [out EXCEPT ![w] = [msg |-> Own(w), reply |-> ReplyTo(status'[Own(w)])]]
          /\ Goto(w, "deliver")
       \/ /\ ~Decidable(status[Own(w)])
          /\ Goto(w, "skipped")
          /\ UNCHANGED <<tableVars, out>>
    /\ UNCHANGED <<jqVars, badReplies, said, target>>

(* answer_text.  A transcript without words is never a usable answer.      *)
Answer(w) ==
    /\ At(w, "answer")
    /\ LET t == target[w] IN
        \/ /\ said[w] # "blank"
           /\ AnswerAccepted(Own(w), t)
           /\ out' = [out EXCEPT ![w] = [msg |-> t.msg, reply |-> ReplyTo(status'[t.msg])]]
           /\ Goto(w, "deliver")
           /\ UNCHANGED badReplies
        \/ /\ said[w] = "blank" \/ badReplies < MaxBadReplies
           /\ AnswerReasked(Own(w), t)
           /\ badReplies' = IF said[w] = "blank" THEN badReplies ELSE badReplies + 1
           /\ out' = [out EXCEPT ![w] = [msg |-> t.msg, reply |-> "question"]]
           /\ Goto(w, "deliver")
        \/ /\ AnswerSkipped(Own(w), t, said[w] # "blank")
           /\ Goto(w, "skipped")
           /\ UNCHANGED <<tableVars, badReplies, out>>
    /\ UNCHANGED <<jqVars, said, target>>

\* deliver: the call to Telegram, which sends the reply or returns None.
WorkerDeliver(w) ==
    /\ At(w, "deliver")
    /\ Goto(w, "finish")
    /\ UNCHANGED <<jqVars, tableVars, badReplies, said, target, out>>

\* run_one: done after a return or a Skip.
Finish(w) ==
    /\ pc[w] \in {"finish", "skipped"}
    /\ Complete(w)
    /\ Rest(w)
    /\ UNCHANGED <<tableVars, badReplies>>

\* A call or a transaction raises; what the transaction did is rolled back.
Raise(w) ==
    /\ pc[w] \in Raises
    /\ Goto(w, "raised")
    /\ UNCHANGED <<jqVars, tableVars, badReplies, said, target, out>>

\* Mutant: the message of a dead job keeps its status.
MutFailJob(w) ==
    /\ At(w, "raised")
    /\ Rest(w)
    /\ Fail(w)
    /\ UNCHANGED <<tableVars, badReplies>>

(* run_one's except block: fail the job and, when it is dead, the message  *)
(* if it is still unhandled.  A dead job is reported either way.           *)
FailJob(w) ==
    /\ At(w, "raised")
    /\ \/ /\ Dead(w)
          /\ status' = IF Unhandled(Own(w)) THEN [status EXCEPT ![Own(w)] = "FAILED"] ELSE status
          /\ pc' = [pc EXCEPT ![w] = "apologise"]
          /\ said' = [said EXCEPT ![w] = "null"]
          /\ target' = [target EXCEPT ![w] = NoTarget]
          /\ out' = [out EXCEPT ![w] = [msg |-> Own(w), reply |-> "failed"]]
       \/ /\ ~Dead(w)
          /\ Rest(w)
          /\ UNCHANGED status
    /\ Fail(w)
    /\ UNCHANGED <<kind, words, parsed, booked, pend, asked, badReplies>>

Apologise(w) ==
    /\ At(w, "apologise")
    /\ Rest(w)
    /\ UNCHANGED <<jqVars, tableVars, badReplies>>

(* The process is killed, or run_one itself raises because a transaction of *)
(* its except blocks fails: the row stays RUNNING either way.              *)
Die(w) ==
    /\ ~At(w, "idle")
    /\ Crash(w)
    /\ Rest(w)
    /\ UNCHANGED <<tableVars, badReplies>>

(* reap, one transaction: stale RUNNING jobs are requeued; of the messages *)
(* open and untouched for 5 minutes, those whose job is DONE get it back   *)
(* and those whose job is DEAD fail; overdue questions expire and their    *)
(* messages are rejected if they still wait.                               *)
\* Mutant: open messages whose job is DONE are overlooked.
MutStuck(old) == {m \in old : Unhandled(m) /\ jobs[m].status = "DEAD"}

Stuck(old) == {m \in old : Unhandled(m) /\ jobs[m].status \in {"DONE", "DEAD"}}

ReaperRuns(stale, old) ==
    /\ old \subseteq Msgs
    /\ Reap(stale, Stuck(old) \cap MayBeStuck)
    /\ LET expired == {m \in Msgs : Pending(m) /\ pend[m].overdue}
           given   == {m \in Stuck(old) : jobs[m].status = "DEAD"}
           lapsed  == {m \in expired : status[m] = "AWAITING_CONFIRMATION"} IN
        /\ pend' = [m \in Msgs |-> IF m \in expired THEN [pend[m] EXCEPT !.status = "EXPIRED"]
                                   ELSE pend[m]]
        /\ status' = [m \in Msgs |-> IF m \in given THEN "FAILED"
                                     ELSE IF m \in lapsed THEN "REJECTED" ELSE status[m]]
    /\ UNCHANGED <<kind, words, parsed, booked, asked, badReplies, workerVars>>

-----------------------------------------------------------------------------
RipenAlone(m) == Ripen(m) /\ UNCHANGED <<tableVars, badReplies, workerVars>>

HandlerStep(w) ==
    \/ Lock(w) \/ LockBusy(w) \/ Transcribe(w) \/ FailMessage(w) \/ Route(w) \/ Parse(w)
    \/ Post(w) \/ Answer(w) \/ WorkerDeliver(w) \/ Finish(w) \/ Raise(w) \/ FailJob(w)
    \/ Apologise(w)

\* The API's tasks and the clock leave the worker threads alone.
UserStep(m) == (Tap(m) \/ Cancel(m) \/ StrayTap(m)) /\ UNCHANGED workerVars
Lapse(m) == Overdue(m) /\ UNCHANGED workerVars

Next ==
    \/ \E m \in Msgs : Receive(m) \/ UserStep(m) \/ Lapse(m) \/ RipenAlone(m)
    \/ \E w \in Workers : Take(w) \/ HandlerStep(w) \/ Die(w)
    \/ \E stale, old \in SUBSET Msgs : ReaperRuns(stale, old)

Spec == Init /\ [][Next]_vars

-----------------------------------------------------------------------------
(* ADR-003: whatever is lost, repeated or raced, a message books at most   *)
(* one transaction.  The model has no UNIQUE (message_id): the row locks   *)
(* and status checks of layers 3 and 4 carry it alone, and an open message *)
(* has booked nothing (pipeline.py:199).                                   *)
ExactlyOnce ==
    \A m \in Msgs :
        /\ booked[m] <= 1
        /\ status[m] = "COMMITTED" => booked[m] = 1
        /\ ~Settled(m) => booked[m] = 0

(* A message reported as FAILED or REJECTED left nothing in the books:     *)
(* the user is asked to send it again (pipeline.py:177, jobs.py:66,        *)
(* confirmations.py:72 and 124 write these statuses without a status       *)
(* check).                                                                 *)
RefusedMeansNotBooked ==
    \A m \in Msgs : status[m] \in {"REJECTED", "FAILED"} => booked[m] = 0

(* architecture.md:18: a message waits for an answer exactly while it has  *)
(* a PENDING question.                                                     *)
WaitsForItsQuestion ==
    \A m \in Msgs : status[m] = "AWAITING_CONFIRMATION" <=> Pending(m)

(* A reply agrees with the books when it is sent: "booked" is said of      *)
(* booked messages only, "failed, send it again" and "rejected" only of    *)
(* messages that booked nothing.                                           *)
RepliesAgree ==
    \A w \in Workers : pc[w] \in {"deliver", "apologise"} =>
        LET o == out[w] IN
        /\ o.reply = "booked" => booked[o.msg] = 1
        /\ o.reply \in {"rejected", "failed"} => booked[o.msg] = 0

(* A dead-lettered job leaves no message hanging: fail and the message's   *)
(* FAILED are one transaction (worker.py:54).                              *)
DeadMeansSettled ==
    \A m \in Msgs : jobs[m].status = "DEAD" => ~Unhandled(m)

(* A settled message keeps its status: nothing reopens or relabels it.     *)
SettledIsFinal ==
    [][\A m \in Msgs : Settled(m) => status'[m] = status[m]]_vars

(* Answers already given are never asked for again: the next question of a *)
(* message carries every answer of the one before (confirmations.py:77).   *)
AnswersAreKept ==
    [][\A m \in Msgs : pend'[m].id # pend[m].id => pend[m].answered \subseteq pend'[m].answered]_vars

(* pipeline.py:3 and plan.md:447: two workers never share a message.       *)
OneWorkerPerMessage ==
    \A v, w \in Workers : v # w /\ Own(v) # NoMsg => Own(v) # Own(w)

(* Every step of the pipeline is a step of the queue or leaves it alone.   *)
QueueRefined == JQSpec

(* The pipeline keeps the promise: every message is heard once and then    *)
(* booked by one entry or refused with none, for good (ADR-003).  What is  *)
(* booked counts as booked, whatever its status says later.                *)
Fate(m) ==
    IF booked[m] > 0 THEN "booked"
    ELSE IF status[m] \in {"REJECTED", "FAILED"} THEN "refused"
    ELSE IF status[m] = "ABSENT" THEN "unheard" ELSE "open"

P == INSTANCE Promise WITH fate <- [m \in Msgs |-> Fate(m)], entries <- booked

PromiseKept == P!Spec

-----------------------------------------------------------------------------
(* Worker threads and API tasks run while they are alive, time passes for  *)
(* backoffs and TTLs, and the reaper thread runs every 60 s.  The user is  *)
(* under no obligation to tap or answer.                                   *)
Abandoned == Running \ Held

ReaperDue ==
    /\ \/ Abandoned # {}
       \/ \E m \in Msgs : Unhandled(m) /\ jobs[m].status \in {"DONE", "DEAD"}
       \/ \E m \in Msgs : Pending(m) /\ pend[m].overdue
    /\ ReaperRuns(Abandoned, {m \in Msgs : Unhandled(m)})

Fairness ==
    /\ \A w \in Workers : WF_vars(Take(w)) /\ WF_vars(HandlerStep(w))
    /\ \A m \in Msgs : WF_vars(RipenAlone(m)) /\ WF_vars(Lapse(m))
    /\ WF_vars(ReaperDue)

FairSpec == Spec /\ Fairness

(* README.md:30, runbook.md:20: nothing is lost.  Every message received   *)
(* is booked, rejected or reported as failed, even if the worker dies, the *)
(* answer never comes or two answers race; an unanswered question expires. *)
EveryMessageSettles == \A m \in Msgs : status[m] = "RECEIVED" ~> Settled(m)
=============================================================================
