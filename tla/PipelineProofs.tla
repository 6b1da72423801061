--------------------------- MODULE PipelineProofs ---------------------------
(***************************************************************************)
(* The pipeline's safety for any number of messages and workers, with      *)
(* timely or slow handlers, stray taps, and any questions and parses.      *)
(***************************************************************************)
EXTENDS Pipeline, JobQueueProofs, WellFoundedInduction

-----------------------------------------------------------------------------
(* The pipeline drives the queue: every step of it is a queue step or      *)
(* leaves the queue alone.                                                 *)
LEMMA QueueStep == [Next]_vars => [JQNext]_jqVars
<1> SUFFICES ASSUME Next PROVE [JQNext]_jqVars
    BY DEF vars, jqVars
<1>1. ASSUME NEW m \in Msgs, Receive(m) PROVE JQNext
    BY <1>1 DEF Receive, JQNext, Msgs
<1>2. ASSUME NEW m \in Msgs, UserStep(m) \/ Lapse(m) PROVE UNCHANGED jqVars
    BY <1>2 DEF UserStep, Lapse, Tap, Cancel, StrayTap, Overdue
<1>3. ASSUME NEW m \in Msgs, RipenAlone(m) PROVE JQNext
    BY <1>3 DEF RipenAlone, JQNext, Msgs
<1>4. ASSUME NEW w \in Workers, Take(w) PROVE JQNext
    BY <1>4 DEF Take, JQNext, WorkerStep
<1>5. ASSUME NEW w \in Workers, Finish(w) \/ FailJob(w) PROVE JQNext
    BY <1>5 DEF Finish, FailJob, JQNext, WorkerStep
<1>6. ASSUME NEW w \in Workers, Die(w) PROVE JQNext
    BY <1>6 DEF Die, JQNext
<1>7. ASSUME NEW w \in Workers, HandlerStep(w), ~Finish(w), ~FailJob(w) PROVE UNCHANGED jqVars
    BY <1>7 DEF HandlerStep, Lock, LockBusy, Transcribe, FailMessage, Route, Parse, Post, Answer,
                WorkerDeliver, Raise, Apologise
<1>8. ASSUME NEW stale \in SUBSET Msgs, NEW old \in SUBSET Msgs, ReaperRuns(stale, old)
      PROVE  JQNext
    <2>1. Stuck(old) \cap MayBeStuck \in SUBSET Jobs
        BY DEF MayBeStuck
    <2> QED BY <1>8, <2>1 DEF ReaperRuns, JQNext, Msgs
<1> QED BY <1>1, <1>2, <1>3, <1>4, <1>5, <1>6, <1>7, <1>8 DEF Next

(* So what is proved of the queue holds in the pipeline, where a handler   *)
(* is process_message (worker.py:38-63).                                   *)
THEOREM PipelineImplementsQueue == Spec => QueueRefined
<1>1. Init => JQInit
    BY DEF Init
<1> QED BY <1>1, QueueStep, PTL DEF Spec, QueueRefined, JQSpec

(* pipeline.py:3: while every handler finishes within 5 minutes, no two    *)
(* workers are ever on one message, whatever crashes and is retried.       *)
THEOREM WorkersNeverShare == Spec => [](SlowWorkers \/ OneWorkerPerMessage)
<1>1. OneHolder => SlowWorkers \/ OneWorkerPerMessage
    BY DEF OneHolder, OneWorkerPerMessage, Own, NoMsg
<1> QED BY <1>1, PipelineImplementsQueue, OneWorkerOneJob, PTL DEF QueueRefined

-----------------------------------------------------------------------------
LEMMA LeastNat ==
    ASSUME NEW S, S \subseteq Nat, S # {}
    PROVE  \E n \in S : \A k \in S : n <= k
<1> DEFINE R == OpToRel(<, Nat)
<1>1. IsWellFoundedOn(R, Nat)
    BY NatLessThanWellFounded
<1> HIDE DEF R
<1>2. PICK n \in S : \A k \in S : <<k, n>> \notin R
    BY <1>1, WFMin, Zenon
<1>3. \A k \in S : <<k, n>> \in R <=> k < n
    BY DEF R, OpToRel
<1>4. \A k \in S : ~(k < n)
    BY <1>2, <1>3, Zenon
<1> QED BY <1>4

\* The question asked next is one that is still open.
LEMMA FirstIsOpen ==
    ASSUME NEW qs \in SUBSET (Buttons \cup Texts), qs # {}
    PROVE  First(qs) \in qs
<1> DEFINE ranks == {Rank[q] : q \in qs}
<1>1. ranks \subseteq Nat /\ ranks # {}
    BY QuestionsAssumption
<1>2. PICK n \in ranks : \A k \in ranks : n <= k
    BY <1>1, LeastNat
<1>3. \E q \in qs : \A r \in qs : Rank[q] <= Rank[r]
    BY <1>2
<1> QED BY <1>3 DEF First

\* decide_and_post_in keeps the types of the tables.
LEMMA DecideTypes ==
    ASSUME TablesTypeOK, NEW m \in Msgs, NEW o \in SUBSET Questions,
           NEW st \in [Msgs -> MsgStatus], NEW pd \in [Msgs -> PendRow],
           DecideAndPost(m, o, st, pd)
    PROVE  TablesTypeOK'
<1> USE DEF TablesTypeOK, MsgStatus
<1>1. CASE Commits(m, o)
    <2>1. ~Asks(m, o) /\ ~Rejects(m, o)
        BY <1>1 DEF Asks, Rejects, Commits
    <2> QED BY <2>1 DEF DecideAndPost
<1>2. CASE Rejects(m, o)
    <2>1. ~Asks(m, o) /\ ~Commits(m, o)
        BY <1>2 DEF Asks, Rejects, Commits
    <2> QED BY <2>1 DEF DecideAndPost
<1>3. CASE Asks(m, o)
    <2>1. Question(m, o) \in Questions
        <3>1. CASE Unheard(m, o)
            BY <3>1 DEF Question, Questions
        <3>2. CASE ~Unheard(m, o)
            <4>1. parsed[m] # Junk /\ ~(parsed[m] \subseteq o)
                BY <1>3, <3>2 DEF Asks, Commits, Rejects
            <4>2. parsed[m] \ o \in SUBSET (Buttons \cup Texts) /\ parsed[m] \ o # {}
                BY <4>1 DEF Sentences
            <4>3. First(parsed[m] \ o) \in parsed[m] \ o
                BY <4>2, FirstIsOpen
            <4> QED BY <3>2, <4>2, <4>3 DEF Question, Questions
        <3> QED BY <3>1, <3>2
    <2>2. NewPending(Question(m, o), o) \in PendRow
        BY <2>1 DEF NewPending, PendRow, PendStatus
    <2> QED BY <1>3, <2>2 DEF DecideAndPost, Asks
<1> QED BY <1>1, <1>2, <1>3 DEF DecideAndPost

-----------------------------------------------------------------------------
(* Where a worker stands agrees with what it holds.                        *)
HandsFull ==
    \A w \in Workers :
        /\ pc[w] \in {"idle", "apologise"} <=> Own(w) = NoMsg
        /\ pc[w] = "answer" => target[w].msg \in Msgs

LEMMA WorkersInductive ==
    ASSUME TypeOK, HandsFull, Next
    PROVE  badReplies' \in Nat /\ WorkersTypeOK' /\ HandsFull'
<1> USE JobsAssumption DEF TypeOK, WorkersTypeOK, HandsFull, Own, NoMsg, NoTarget, NoOutcome, Msgs,
        At, Goto, Steps, TrySteps, Replies
<1>1. ASSUME NEW m \in Msgs, Receive(m) \/ RipenAlone(m)
      PROVE  badReplies' \in Nat /\ WorkersTypeOK' /\ HandsFull'
    BY <1>1 DEF Receive, Enqueue, RipenAlone, Ripen, workerVars
<1>2. ASSUME NEW m \in Msgs, UserStep(m) \/ Lapse(m)
      PROVE  badReplies' \in Nat /\ WorkersTypeOK' /\ HandsFull'
    BY <1>2 DEF UserStep, Lapse, Tap, Cancel, StrayTap, Overdue, workerVars, jqVars
<1>3. ASSUME NEW w \in Workers, Take(w)
      PROVE  badReplies' \in Nat /\ WorkersTypeOK' /\ HandsFull'
    BY <1>3 DEF Take, Claim, Claimable, JQTypeOK
<1>4. ASSUME NEW w \in Workers, Lock(w)
      PROVE  badReplies' \in Nat /\ WorkersTypeOK' /\ HandsFull'
    <2>1. words[Own(w)] \in Words
        BY <1>4 DEF Lock, JQTypeOK, TablesTypeOK
    <2> QED BY <1>4, <2>1 DEF Lock, jqVars
<1>5. ASSUME NEW w \in Workers, LockBusy(w) \/ WorkerDeliver(w) \/ Raise(w) \/ Parse(w)
      PROVE  badReplies' \in Nat /\ WorkersTypeOK' /\ HandsFull'
    BY <1>5, PipelineAssumption DEF LockBusy, WorkerDeliver, Raise, Parse, jqVars
<1>6. ASSUME NEW w \in Workers, Transcribe(w)
      PROVE  badReplies' \in Nat /\ WorkersTypeOK' /\ HandsFull'
    <2>1. UNCHANGED <<slot, badReplies, target, out>>
        BY <1>6 DEF Transcribe, jqVars
    <2>2. PICK step \in {"fail", "route"} : pc' = [pc EXCEPT ![w] = step]
        BY <1>6 DEF Transcribe
    <2>3. said' \in [Workers -> Words]
        BY <1>6 DEF Transcribe, Words
    <2>4. pc[w] = "stt"
        BY <1>6 DEF Transcribe
    <2> QED BY <2>1, <2>2, <2>3, <2>4
<1>7. ASSUME NEW w \in Workers, FailMessage(w)
      PROVE  badReplies' \in Nat /\ WorkersTypeOK' /\ HandsFull'
    BY <1>7 DEF FailMessage, jqVars, JQTypeOK
<1>8. ASSUME NEW w \in Workers, Route(w)
      PROVE  badReplies' \in Nat /\ WorkersTypeOK' /\ HandsFull'
    <2>1. UNCHANGED <<slot, badReplies, said, out>> /\ pc[w] = "route"
        BY <1>8 DEF Route, jqVars
    <2>2. \A n \in Msgs : pend[n].id \in Nat
        BY DEF TablesTypeOK, PendRow
    <2>3. CASE \E n \in Msgs : /\ target' = [target EXCEPT ![w] = [msg |-> n, id |-> pend[n].id]]
                             /\ pc' = [pc EXCEPT ![w] = "answer"]
        <3> PICK n \in Msgs : /\ target' = [target EXCEPT ![w] = [msg |-> n, id |-> pend[n].id]]
                              /\ pc' = [pc EXCEPT ![w] = "answer"]
            BY <2>3
        <3> QED BY <2>1, <2>2
    <2>4. CASE target' = target /\ pc' = [pc EXCEPT ![w] = "parse"]
        BY <2>1, <2>4
    <2> QED BY <1>8, <2>3, <2>4 DEF Route
<1>9. ASSUME NEW w \in Workers, Post(w)
      PROVE  badReplies' \in Nat /\ WorkersTypeOK' /\ HandsFull'
    <2>1. UNCHANGED <<slot, badReplies, said, target>> /\ pc[w] = "post"
        BY <1>9 DEF Post, jqVars
    <2>2. PICK step \in {"deliver", "skipped"} : pc' = [pc EXCEPT ![w] = step]
        BY <1>9 DEF Post
    <2>3. \A s : ReplyTo(s) \in Replies
        BY DEF ReplyTo
    <2>4. Own(w) \in Msgs \cup {NoMsg}
        BY DEF JQTypeOK
    <2>5. out' \in [Workers -> [msg : Msgs \cup {NoMsg}, reply : Replies]]
        BY <1>9, <2>3, <2>4 DEF Post
    <2> QED BY <2>1, <2>2, <2>5
<1>10. ASSUME NEW w \in Workers, Answer(w)
       PROVE  badReplies' \in Nat /\ WorkersTypeOK' /\ HandsFull'
    <2>1. UNCHANGED <<slot, said, target>> /\ pc[w] = "answer"
        BY <1>10 DEF Answer, jqVars
    <2>2. PICK step \in {"deliver", "skipped"} : pc' = [pc EXCEPT ![w] = step]
        BY <1>10 DEF Answer
    <2>3. \A s : ReplyTo(s) \in Replies
        BY DEF ReplyTo
    <2>4. out' \in [Workers -> [msg : Msgs \cup {NoMsg}, reply : Replies]]
        <3>1. target[w].msg \in Msgs
            BY <2>1
        <3>2. CASE out' = out
            BY <3>2
        <3>3. ASSUME NEW r \in Replies,
                     out' = [out EXCEPT ![w] = [msg |-> target[w].msg, reply |-> r]]
              PROVE  out' \in [Workers -> [msg : Msgs \cup {NoMsg}, reply : Replies]]
            <4>1. [msg |-> target[w].msg, reply |-> r] \in [msg : Msgs \cup {NoMsg}, reply : Replies]
                BY <3>1
            <4> QED BY <3>3, <4>1
        <3> QED BY <1>10, <2>3, <3>2, <3>3 DEF Answer
    <2>5. badReplies' \in Nat
        BY <1>10 DEF Answer
    <2> QED BY <2>1, <2>2, <2>4, <2>5
<1>11. ASSUME NEW w \in Workers, Finish(w) \/ Die(w) \/ Apologise(w)
       PROVE  badReplies' \in Nat /\ WorkersTypeOK' /\ HandsFull'
    <2>1. Rest(w) /\ badReplies' = badReplies
        BY <1>11 DEF Finish, Die, Apologise
    <2>2. /\ \A v \in Workers \ {w} : slot'[v] = slot[v]
          /\ slot'[w].job = NoJob
        BY <1>11 DEF Finish, Complete, Die, Crash, Apologise, Idle, jqVars, JQTypeOK
    <2>3. WorkersTypeOK'
        BY <2>1 DEF Rest, Words
    <2>4. HandsFull'
        BY <2>1, <2>2 DEF Rest
    <2> QED BY <2>1, <2>3, <2>4
<1>12. ASSUME NEW w \in Workers, FailJob(w)
       PROVE  badReplies' \in Nat /\ WorkersTypeOK' /\ HandsFull'
    <2>1. Own(w) \in Msgs \cup {NoMsg} /\ badReplies' = badReplies
        BY <1>12 DEF FailJob, JQTypeOK
    <2>2. /\ \A v \in Workers \ {w} : slot'[v] = slot[v]
          /\ slot'[w].job = NoJob
        BY <1>12 DEF FailJob, Fail, Idle, JQTypeOK
    <2>3. WorkersTypeOK'
        <3>1. out' \in [Workers -> [msg : Msgs \cup {NoMsg}, reply : Replies]]
            BY <1>12, <2>1 DEF FailJob, Rest
        <3>2. PICK step \in {"idle", "apologise"} :
                  /\ pc' = [pc EXCEPT ![w] = step]
                  /\ said' = [said EXCEPT ![w] = "null"]
                  /\ target' = [target EXCEPT ![w] = NoTarget]
            BY <1>12 DEF FailJob, Rest
        <3>3. pc' \in [Workers -> Steps] /\ said' \in [Workers -> Words]
            BY <3>2 DEF Words
        <3>4. target' \in [Workers -> [msg : Msgs \cup {NoMsg}, id : Nat]]
            BY <3>2
        <3> QED BY <3>1, <3>3, <3>4
    <2>4. PICK step \in {"idle", "apologise"} :
              pc' = [pc EXCEPT ![w] = step] /\ target' = [target EXCEPT ![w] = NoTarget]
        BY <1>12 DEF FailJob, Rest
    <2>5. HandsFull'
        BY <2>2, <2>4
    <2> QED BY <2>1, <2>3, <2>5
<1>13. ASSUME NEW stale \in SUBSET Msgs, NEW old \in SUBSET Msgs, ReaperRuns(stale, old)
       PROVE  badReplies' \in Nat /\ WorkersTypeOK' /\ HandsFull'
    BY <1>13 DEF ReaperRuns, Reap, workerVars
<1> QED BY <1>1, <1>2, <1>3, <1>4, <1>5, <1>6, <1>7, <1>8, <1>9, <1>10, <1>11, <1>12, <1>13
        DEF Next, HandlerStep

LEMMA TablesInductive ==
    ASSUME TypeOK, HandsFull, Next
    PROVE  TablesTypeOK'
<1> USE DEF TypeOK
<1>0. /\ \A m \in Msgs : status[m] \in MsgStatus
      /\ \A m \in Msgs : pend[m] \in PendRow
    BY DEF TablesTypeOK
<1>1. ASSUME NEW m \in Msgs, Receive(m) PROVE TablesTypeOK'
    <2>1. Arrivals \subseteq Kinds
        BY PipelineAssumption
    <2> QED BY <1>1, <2>1 DEF Receive, TablesTypeOK, MsgStatus, Words
<1>2. ASSUME NEW m \in Msgs, Tap(m) PROVE TablesTypeOK'
    <2>1. Resolved(m) \in [Msgs -> PendRow]
        BY <1>0 DEF Resolved, TablesTypeOK, PendRow, PendStatus
    <2>2. pend[m].answered \cup {pend[m].question} \in SUBSET Questions
        BY <1>0 DEF PendRow
    <2>3. CASE DecideAndPost(m, pend[m].answered \cup {pend[m].question}, status, Resolved(m))
        BY <2>1, <2>2, <2>3, DecideTypes DEF TablesTypeOK
    <2>4. CASE pend' = Resolved(m) /\ UNCHANGED <<kind, status, words, parsed, booked, asked>>
        BY <2>1, <2>4 DEF TablesTypeOK
    <2> QED BY <1>2, <2>3, <2>4 DEF Tap
<1>3. ASSUME NEW m \in Msgs, Cancel(m) \/ StrayTap(m) \/ Overdue(m) PROVE TablesTypeOK'
    <2>1. pend' \in [Msgs -> PendRow]
        <3>1. CASE Cancel(m)
            BY <1>0, <3>1 DEF Cancel, TablesTypeOK, PendRow, PendStatus
        <3>2. CASE StrayTap(m)
            BY <1>0, <3>2 DEF StrayTap, Resolved, TablesTypeOK, PendRow, PendStatus
        <3>3. CASE Overdue(m)
            BY <1>0, <3>3 DEF Overdue, TablesTypeOK, PendRow, PendStatus
        <3> QED BY <1>3, <3>1, <3>2, <3>3
    <2>2. status' \in [Msgs -> MsgStatus]
        BY <1>3 DEF Cancel, StrayTap, Overdue, TablesTypeOK, MsgStatus
    <2> QED BY <1>3, <2>1, <2>2 DEF Cancel, StrayTap, Overdue, TablesTypeOK
<1>4. ASSUME NEW w \in Workers, Lock(w) \/ FailMessage(w) \/ FailJob(w) PROVE TablesTypeOK'
    <2>1. status' \in [Msgs -> MsgStatus]
        BY <1>4 DEF Lock, FailMessage, FailJob, TablesTypeOK, MsgStatus
    <2> QED BY <1>4, <2>1 DEF Lock, FailMessage, FailJob, TablesTypeOK
<1>5. ASSUME NEW w \in Workers, Transcribe(w) PROVE TablesTypeOK'
    BY <1>5 DEF Transcribe, TablesTypeOK, Words
<1>6. ASSUME NEW w \in Workers, Parse(w) PROVE TablesTypeOK'
    <2>1. Parses \cup {Junk} \subseteq Sentences
        BY QuestionsAssumption DEF Sentences
    <2>2. PICK p \in Sentences : parsed' = [parsed EXCEPT ![Own(w)] = p]
        BY <1>6, <2>1 DEF Parse
    <2> QED BY <1>6, <2>2 DEF Parse, TablesTypeOK
<1>7. ASSUME NEW w \in Workers, Post(w) PROVE TablesTypeOK'
    <2>1. Own(w) \in Msgs
        BY <1>7 DEF Post, At, HandsFull, Own, Msgs, JQTypeOK, NoMsg
    <2>2. CASE DecideAndPost(Own(w), {}, status, pend)
        BY <2>1, <2>2, DecideTypes DEF TablesTypeOK
    <2>3. CASE UNCHANGED tableVars
        BY <2>3 DEF tableVars, TablesTypeOK
    <2> QED BY <1>7, <2>2, <2>3 DEF Post
<1>8. ASSUME NEW w \in Workers, Answer(w) PROVE TablesTypeOK'
    <2> DEFINE t == target[w]
    <2>1. t.msg \in Msgs
        BY <1>8 DEF Answer, At, HandsFull
    <2>2. AnswererRejected(Own(w)) \in [Msgs -> MsgStatus]
        BY DEF AnswererRejected, TablesTypeOK, MsgStatus
    <2>3. CASE AnswerAccepted(Own(w), t)
        <3>1. Resolved(t.msg) \in [Msgs -> PendRow]
            BY <1>0, <2>1 DEF Resolved, TablesTypeOK, PendRow, PendStatus
        <3>2. pend[t.msg].answered \cup {pend[t.msg].question} \in SUBSET Questions
            BY <1>0, <2>1 DEF PendRow
        <3> HIDE DEF t
        <3> QED BY <2>1, <2>2, <2>3, <3>1, <3>2, DecideTypes DEF AnswerAccepted
    <2>4. CASE AnswerReasked(Own(w), t)
        <3>1. NewPending(pend[t.msg].question, pend[t.msg].answered) \in PendRow
            BY <1>0, <2>1 DEF NewPending, PendRow, PendStatus, TablesTypeOK
        <3> HIDE DEF t
        <3> QED BY <2>1, <2>2, <2>4, <3>1 DEF AnswerReasked, TablesTypeOK
    <2>5. CASE UNCHANGED tableVars
        BY <2>5 DEF tableVars, TablesTypeOK
    <2> QED BY <1>8, <2>3, <2>4, <2>5 DEF Answer
<1>9. ASSUME NEW stale \in SUBSET Msgs, NEW old \in SUBSET Msgs, ReaperRuns(stale, old)
      PROVE  TablesTypeOK'
    <2>1. \A m \in Msgs : [pend[m] EXCEPT !.status = "EXPIRED"] \in PendRow
        BY <1>0 DEF PendRow, PendStatus
    <2>2. pend' \in [Msgs -> PendRow]
        BY <1>0, <1>9, <2>1 DEF ReaperRuns
    <2>3. status' \in [Msgs -> MsgStatus]
        BY <1>0, <1>9 DEF ReaperRuns, MsgStatus
    <2> QED BY <1>9, <2>2, <2>3 DEF ReaperRuns, TablesTypeOK
<1>10. CASE UNCHANGED tableVars
    BY <1>10 DEF tableVars, TablesTypeOK
<1>11. ASSUME NEW m \in Msgs, UserStep(m) \/ Lapse(m) PROVE TablesTypeOK'
    BY <1>2, <1>3, <1>11 DEF UserStep, Lapse
<1>12. ASSUME NEW m \in Msgs, RipenAlone(m) PROVE TablesTypeOK'
    BY <1>10, <1>12 DEF RipenAlone
<1>13. ASSUME NEW w \in Workers, Take(w) \/ Die(w) PROVE TablesTypeOK'
    BY <1>10, <1>13 DEF Take, Die
<1>14. ASSUME NEW w \in Workers, HandlerStep(w) PROVE TablesTypeOK'
    BY <1>4, <1>5, <1>6, <1>7, <1>8, <1>10, <1>14
       DEF HandlerStep, LockBusy, Route, WorkerDeliver, Finish, Raise, Apologise
<1> QED BY <1>1, <1>9, <1>11, <1>12, <1>13, <1>14 DEF Next

LEMMA TypeAndHands == TypeOK /\ HandsFull /\ [Next]_vars => TypeOK' /\ HandsFull'
<1>1. ASSUME TypeOK, HandsFull, Next PROVE TypeOK' /\ HandsFull'
    <2>1. JQTypeOK'
        BY <1>1, QueueStep, TypeInductive DEF TypeOK
    <2> QED BY <1>1, <2>1, WorkersInductive, TablesInductive DEF TypeOK
<1>2. ASSUME TypeOK, HandsFull, UNCHANGED vars PROVE TypeOK' /\ HandsFull'
    BY <1>2 DEF vars, jqVars, tableVars, workerVars, TypeOK, HandsFull, Own,
                JQTypeOK, TablesTypeOK, WorkersTypeOK
<1> QED BY <1>1, <1>2

LEMMA InitTyped == Init => TypeOK /\ HandsFull
<1> SUFFICES ASSUME Init PROVE TypeOK /\ HandsFull
    OBVIOUS
<1> USE DEF Init
<1>1. JQTypeOK
    BY DEF JQInit, JQTypeOK, JobRow, JobStatus, Idle
<1>2. TablesTypeOK
    <2>1. NoPend \in PendRow
        BY DEF NoPend, PendRow, PendStatus, Questions
    <2> QED BY <2>1 DEF TablesInit, TablesTypeOK, Kinds, MsgStatus, Words, Sentences
<1>3. WorkersTypeOK /\ HandsFull
    BY DEF WorkersTypeOK, HandsFull, Own, JQInit, Idle, NoTarget, NoOutcome, NoMsg, Steps,
           TrySteps, Words, Replies
<1> QED BY <1>1, <1>2, <1>3 DEF TypeOK

(* Every table row and every worker's local state is well-typed in every   *)
(* reachable state (pipeline.py:90-257, worker.py:38-63).                  *)
THEOREM PipelineTypeCorrect == Spec => [](TypeOK /\ HandsFull)
BY InitTyped, TypeAndHands, PTL DEF Spec

-----------------------------------------------------------------------------
\* decide_and_post_in leaves no message unhandled that was not.
LEMMA DecideHandles ==
    ASSUME NEW m \in Msgs, NEW o, NEW st \in [Msgs -> MsgStatus], NEW pd,
           DecideAndPost(m, o, st, pd), NEW n \in Msgs
    PROVE  status'[n] = st[n] \/ ~Unhandled(n)'
BY DEF DecideAndPost, Unhandled

\* Only the webhook makes a message unhandled.
LEMMA OnlyReceived ==
    ASSUME TypeOK, Next, NEW n \in Msgs, ~Unhandled(n), Unhandled(n)'
    PROVE  Receive(n)
<1>0. status \in [Msgs -> MsgStatus] /\ status'[n] # status[n]
    BY DEF TypeOK, TablesTypeOK, Unhandled
<1>1. ASSUME NEW m \in Msgs, Receive(m) PROVE Receive(n)
    <2>1. m = n
        BY <1>0, <1>1 DEF Receive
    <2> QED BY <1>1, <2>1
<1>2. ASSUME NEW m \in Msgs, UserStep(m) \/ Lapse(m) PROVE FALSE
    BY <1>0, <1>2, DecideHandles DEF UserStep, Lapse, Tap, Cancel, StrayTap, Overdue, Unhandled
<1>3. ASSUME NEW m \in Msgs, RipenAlone(m) PROVE FALSE
    BY <1>0, <1>3 DEF RipenAlone, tableVars
<1>4. ASSUME NEW w \in Workers, Lock(w) \/ FailMessage(w) \/ FailJob(w) PROVE FALSE
    BY <1>0, <1>4 DEF Lock, FailMessage, FailJob, Unhandled
<1>5. ASSUME NEW w \in Workers, Post(w) PROVE FALSE
    <2>1. DecideAndPost(Own(w), {}, status, pend)
        BY <1>0, <1>5 DEF Post, tableVars
    <2>2. CASE Own(w) \in Msgs
        BY <1>0, <2>1, <2>2, DecideHandles
    <2>3. CASE Own(w) \notin Msgs
        BY <1>0, <2>1, <2>3 DEF DecideAndPost
    <2> QED BY <2>2, <2>3
<1>6. ASSUME NEW w \in Workers, Answer(w) PROVE FALSE
    <2> DEFINE st == AnswererRejected(Own(w))
               t == target[w]
    <2>1. st \in [Msgs -> MsgStatus] /\ (st[n] = status[n] \/ st[n] = "REJECTED")
        BY <1>0 DEF AnswererRejected, MsgStatus
    <2>2. CASE AnswerReasked(Own(w), t)
        BY <1>0, <2>1, <2>2 DEF AnswerReasked, Unhandled
    <2>3. CASE AnswerAccepted(Own(w), t)
        <3>1. PICK o, pd : DecideAndPost(t.msg, o, st, pd)
            BY <2>3 DEF AnswerAccepted
        <3> HIDE DEF st, t
        <3>2. status'[n] = st[n] \/ ~Unhandled(n)'
            BY <2>1, <3>1 DEF DecideAndPost, Unhandled
        <3> QED BY <1>0, <2>1, <3>2 DEF Unhandled
    <2> QED BY <1>0, <1>6, <2>2, <2>3 DEF Answer, tableVars
<1>7. ASSUME NEW stale \in SUBSET Msgs, NEW old \in SUBSET Msgs, ReaperRuns(stale, old) PROVE FALSE
    BY <1>0, <1>7 DEF ReaperRuns, Unhandled
<1> QED BY <1>0, <1>1, <1>2, <1>3, <1>4, <1>5, <1>6, <1>7
        DEF Next, Take, Die, HandlerStep, LockBusy, Transcribe, Route, Parse, WorkerDeliver, Finish,
            Raise, Apologise, tableVars

\* Only run_one's except block makes a job DEAD, and its message is then handled.
LEMMA DiesHandled ==
    ASSUME TypeOK, HandsFull, Next, NEW n \in Msgs,
           jobs[n].status # "DEAD", jobs'[n].status = "DEAD"
    PROVE  ~Unhandled(n)'
<1>0. n \in Jobs /\ jobs \in [Jobs -> JobRow] /\ status \in [Msgs -> MsgStatus]
    BY DEF TypeOK, JQTypeOK, TablesTypeOK, Msgs
<1>1. ASSUME NEW w \in Workers, FailJob(w) PROVE ~Unhandled(n)'
    <2>1. n = slot[w].job /\ Dead(w)
        BY <1>0, <1>1 DEF FailJob, Fail
    <2>2. Own(w) = n
        BY <2>1 DEF Own
    <2> QED BY <1>0, <1>1, <2>1, <2>2 DEF FailJob, Unhandled
<1>2. ASSUME NEW w \in Workers, Finish(w) PROVE FALSE
    BY <1>0, <1>2 DEF Finish, Complete
<1>3. ASSUME NEW w \in Workers, Take(w) \/ Die(w) PROVE FALSE
    <2>1. CASE Claim(w)
        <3> PICK k \in Claimable :
                jobs' = [jobs EXCEPT ![k].status = "RUNNING", ![k].attempts = @ + 1]
            BY <2>1 DEF Claim
        <3> QED BY <1>0 DEF Claimable, JobRow
    <2>2. CASE Crash(w)
        BY <2>2 DEF Crash
    <2> QED BY <1>3, <2>1, <2>2 DEF Take, Die
<1>4. ASSUME NEW m \in Msgs, Receive(m) \/ RipenAlone(m) PROVE FALSE
    <2>1. CASE Enqueue(m)
        <3>1. jobs' = [jobs EXCEPT ![m].status = "QUEUED", ![m].ready = TRUE]
            BY <2>1 DEF Enqueue
        <3> QED BY <1>0, <3>1 DEF JobRow
    <2>2. CASE Ripen(m)
        <3>1. jobs' = [jobs EXCEPT ![m].ready = TRUE]
            BY <2>2 DEF Ripen
        <3> QED BY <1>0, <3>1 DEF JobRow
    <2> QED BY <1>4, <2>1, <2>2 DEF Receive, RipenAlone
<1>5. ASSUME NEW stale \in SUBSET Msgs, NEW old \in SUBSET Msgs, ReaperRuns(stale, old) PROVE FALSE
    <2>1. PICK stuck : jobs' = Reaped(stale, stuck)
        BY <1>5 DEF ReaperRuns, Reap
    <2>2. jobs'[n] = jobs[n] \/ jobs'[n] = [jobs[n] EXCEPT !.status = "QUEUED", !.ready = TRUE]
        BY <1>0, <2>1 DEF Reaped
    <2>3. jobs[n] \in JobRow
        BY <1>0
    <2> QED BY <2>2, <2>3 DEF JobRow
<1>6. ASSUME UNCHANGED jqVars PROVE FALSE
    BY <1>6 DEF jqVars
<1> QED BY <1>1, <1>2, <1>3, <1>4, <1>5, <1>6
        DEF Next, UserStep, Lapse, Tap, Cancel, StrayTap, Overdue, HandlerStep, Lock, LockBusy,
            Transcribe, FailMessage, Route, Parse, Post, Answer, WorkerDeliver, Raise, Apologise

(* worker.py:54: whatever crashes, is reaped or raises, no message is left *)
(* to a job that will never run again.                                     *)
THEOREM DeadLettersAreReported == Spec => []DeadMeansSettled
<1>1. Init => DeadMeansSettled
    BY DEF Init, JQInit, DeadMeansSettled, Msgs
<1>2. TypeOK /\ HandsFull /\ DeadMeansSettled /\ [Next]_vars => DeadMeansSettled'
    <2>1. ASSUME TypeOK, HandsFull, DeadMeansSettled, Next, NEW n \in Msgs, jobs'[n].status = "DEAD"
          PROVE  ~Unhandled(n)'
        <3>1. CASE jobs[n].status # "DEAD"
            BY <2>1, <3>1, DiesHandled
        <3>2. CASE jobs[n].status = "DEAD"
            BY <2>1, <3>2, OnlyReceived DEF DeadMeansSettled, Receive, Enqueue
        <3> QED BY <3>1, <3>2
    <2>2. ASSUME DeadMeansSettled, UNCHANGED vars PROVE DeadMeansSettled'
        BY <2>2 DEF DeadMeansSettled, vars, jqVars, tableVars, Unhandled
    <2> QED BY <2>1, <2>2 DEF DeadMeansSettled
<1> QED BY <1>1, <1>2, PipelineTypeCorrect, PTL DEF Spec

-----------------------------------------------------------------------------
(* No job, question or held row belongs to a message that was not received.*)
Known ==
    /\ \A w \in Workers : Own(w) # NoMsg => status[Own(w)] # "ABSENT"
    /\ \A m \in Msgs : status[m] = "ABSENT" => jobs[m].status = "ABSENT" /\ ~Pending(m)

OpenStatus == {"RECEIVED", "PROCESSING", "AWAITING_CONFIRMATION"}

\* What a step does to the status of a message it does not book.
Refused(n) == status[n] # "ABSENT" /\ status'[n] \in {"REJECTED", "FAILED"}
Stays(n) == status[n] \in OpenStatus /\ status'[n] \in OpenStatus
Kept(n) == status'[n] = status[n] \/ Refused(n)

\* The two kinds of step after a message is received: it books nothing, or
\* it books one open message.
Quiet == booked' = booked /\ \A n \in Msgs : Kept(n) \/ Stays(n)
Books(m) ==
    /\ status[m] \in OpenStatus
    /\ status'[m] = "COMMITTED"
    /\ booked' = [booked EXCEPT ![m] = @ + 1]
    /\ \A n \in Msgs \ {m} : Kept(n)

\* decide_and_post_in re-checks the status under the row lock, so it books
\* an open message or nothing.
LEMMA DecideEffect ==
    ASSUME TablesTypeOK, NEW m \in Msgs, NEW o \in SUBSET Questions,
           NEW st \in [Msgs -> MsgStatus], NEW pd,
           \A n \in Msgs : st[n] = status[n] \/ (status[n] # "ABSENT" /\ st[n] = "REJECTED"),
           DecideAndPost(m, o, st, pd)
    PROVE  Quiet \/ Books(m)
<1>1. status[m] \in OpenStatus /\ st[m] = status[m]
    BY DEF DecideAndPost, Decidable, OpenStatus
<1>2. PICK s \in {"COMMITTED", "REJECTED", "AWAITING_CONFIRMATION"} :
          /\ status' = [st EXCEPT ![m] = s]
          /\ booked' = IF s = "COMMITTED" THEN [booked EXCEPT ![m] = @ + 1] ELSE booked
    BY DEF DecideAndPost
<1>3. \A n \in Msgs \ {m} : Kept(n)
    BY <1>2 DEF Kept, Refused
<1>4. status'[m] = s
    BY <1>2
<1>5. CASE s = "COMMITTED"
    BY <1>1, <1>2, <1>3, <1>4, <1>5 DEF Books
<1>6. CASE s \in {"REJECTED", "AWAITING_CONFIRMATION"}
    <2>1. Kept(m) \/ Stays(m)
        BY <1>1, <1>4, <1>6 DEF Kept, Refused, Stays, OpenStatus
    <2> QED BY <1>2, <1>3, <1>6, <2>1 DEF Quiet
<1> QED BY <1>2, <1>5, <1>6

LEMMA StepEffect ==
    ASSUME TypeOK, HandsFull, Known, Next
    PROVE  (\E m \in Msgs : Receive(m)) \/ Quiet \/ \E m \in Msgs : Books(m)
<1> USE DEF TypeOK
<1>0. /\ status \in [Msgs -> MsgStatus]
      /\ \A m \in Msgs : pend[m] \in PendRow
    BY DEF TablesTypeOK
<1>1. ASSUME status' = status, booked' = booked PROVE Quiet
    BY <1>1 DEF Quiet, Kept
<1>2. ASSUME NEW m \in Msgs, Tap(m) PROVE Quiet \/ Books(m)
    <2>1. pend[m].answered \cup {pend[m].question} \in SUBSET Questions
        BY <1>0 DEF PendRow
    <2>2. CASE DecideAndPost(m, pend[m].answered \cup {pend[m].question}, status, Resolved(m))
        BY <1>0, <2>1, <2>2, DecideEffect
    <2> QED BY <1>1, <1>2, <2>2 DEF Tap
<1>3. ASSUME NEW m \in Msgs, Cancel(m) PROVE Quiet
    <2>1. status[m] # "ABSENT"
        BY <1>3 DEF Cancel, Tappable, Known
    <2> QED BY <1>0, <1>3, <2>1 DEF Cancel, Quiet, Kept, Refused
<1>4. ASSUME NEW m \in Msgs, UserStep(m) \/ Lapse(m) \/ RipenAlone(m)
      PROVE  Quiet \/ Books(m)
    BY <1>1, <1>2, <1>3, <1>4 DEF UserStep, Lapse, RipenAlone, StrayTap, Overdue, tableVars
<1>5. ASSUME NEW w \in Workers, Lock(w) PROVE Quiet
    <2>1. CASE Unhandled(Own(w)) /\ status' = [status EXCEPT ![Own(w)] = "PROCESSING"]
        <3>1. Stays(Own(w)) \/ Own(w) \notin Msgs
            BY <1>0, <2>1 DEF Unhandled, Stays, OpenStatus
        <3> QED BY <1>0, <1>5, <2>1, <3>1 DEF Lock, Quiet, Kept
    <2> QED BY <1>1, <1>5, <2>1 DEF Lock
<1>6. ASSUME NEW w \in Workers, FailMessage(w) \/ FailJob(w) PROVE Quiet
    <2>1. Own(w) # NoMsg
        BY <1>6 DEF FailMessage, FailJob, HandsFull, At
    <2>2. status[Own(w)] # "ABSENT"
        BY <2>1 DEF Known
    <2>3. CASE status' = [status EXCEPT ![Own(w)] = "FAILED"]
        BY <1>0, <1>6, <2>2, <2>3 DEF FailMessage, FailJob, Quiet, Kept, Refused
    <2> QED BY <1>1, <1>6, <2>3 DEF FailMessage, FailJob
<1>7. ASSUME NEW w \in Workers, Post(w) PROVE Quiet \/ \E m \in Msgs : Books(m)
    <2>1. Own(w) \in Msgs
        BY <1>7 DEF Post, At, HandsFull, Own, Msgs, JQTypeOK, NoMsg
    <2>2. CASE DecideAndPost(Own(w), {}, status, pend)
        BY <1>0, <2>1, <2>2, DecideEffect
    <2> QED BY <1>1, <1>7, <2>2 DEF Post, tableVars
<1>8. ASSUME NEW w \in Workers, Answer(w) PROVE Quiet \/ \E m \in Msgs : Books(m)
    <2> DEFINE t == target[w]
               st == AnswererRejected(Own(w))
    <2>1. t.msg \in Msgs /\ Own(w) \in Msgs
        BY <1>8 DEF Answer, At, HandsFull, Own, Msgs, JQTypeOK, NoMsg
    <2>2. status[Own(w)] # "ABSENT"
        BY <2>1, JobsAssumption DEF Known, Msgs, NoMsg
    <2>3. /\ st \in [Msgs -> MsgStatus]
          /\ \A n \in Msgs : st[n] = status[n] \/ (status[n] # "ABSENT" /\ st[n] = "REJECTED")
        BY <1>0, <2>2 DEF AnswererRejected, MsgStatus
    <2>4. CASE AnswerAccepted(Own(w), t)
        <3>1. pend[t.msg].answered \cup {pend[t.msg].question} \in SUBSET Questions
            BY <1>0, <2>1 DEF PendRow
        <3> HIDE DEF t
        <3> QED BY <2>1, <2>3, <2>4, <3>1, DecideEffect DEF AnswerAccepted
    <2>5. CASE AnswerReasked(Own(w), t)
        BY <2>3, <2>5 DEF AnswerReasked, Quiet, Kept, Refused
    <2> QED BY <1>1, <1>8, <2>4, <2>5 DEF Answer, tableVars
<1>9. ASSUME NEW stale \in SUBSET Msgs, NEW old \in SUBSET Msgs, ReaperRuns(stale, old)
      PROVE  Quiet
    BY <1>9 DEF ReaperRuns, Quiet, Kept, Refused, Stuck, Unhandled
<1>10. ASSUME NEW w \in Workers, Take(w) \/ Die(w) PROVE Quiet
    BY <1>1, <1>10 DEF Take, Die, tableVars
<1>11. ASSUME NEW w \in Workers, HandlerStep(w) PROVE Quiet \/ \E m \in Msgs : Books(m)
    BY <1>1, <1>5, <1>6, <1>7, <1>8, <1>11
       DEF HandlerStep, LockBusy, Transcribe, Route, Parse, WorkerDeliver, Finish, Raise,
           Apologise, tableVars
<1> QED BY <1>4, <1>9, <1>10, <1>11 DEF Next

LEMMA KnownInductive ==
    ASSUME TypeOK, HandsFull, Known, Next
    PROVE  Known'
<1> USE DEF TypeOK
<1>0. /\ status \in [Msgs -> MsgStatus] /\ pend \in [Msgs -> PendRow] /\ jobs \in [Msgs -> JobRow]
      /\ \A w \in Workers : Own(w) \in Msgs \cup {NoMsg}
    BY DEF TablesTypeOK, JQTypeOK, Own, Msgs, NoMsg
\* No step unhears a message.
<1>1. \A n \in Msgs : status[n] # "ABSENT" => status'[n] # "ABSENT"
    <2>1. CASE \E m \in Msgs : Receive(m)
        BY <1>0, <2>1 DEF Receive
    <2>2. CASE Quiet
        BY <2>2 DEF Quiet, Kept, Refused, Stays, OpenStatus
    <2>3. ASSUME NEW m \in Msgs, Books(m)
          PROVE  \A n \in Msgs : status[n] # "ABSENT" => status'[n] # "ABSENT"
        BY <2>3 DEF Books, Kept, Refused
    <2> QED BY <2>1, <2>2, <2>3, StepEffect
\* A worker comes to hold a row only by claiming one that exists.
<1>2. ASSUME NEW v \in Workers, slot'[v].job # NoJob
      PROVE  \/ slot'[v].job = slot[v].job
             \/ jobs[slot'[v].job].status = "QUEUED" /\ slot'[v].job \in Jobs
    <2>1. CASE slot' = slot
        BY <2>1
    <2>2. ASSUME NEW w \in Workers, Complete(w) \/ Fail(w) \/ Crash(w)
          PROVE  slot'[v].job = slot[v].job
        <3>1. slot' = [slot EXCEPT ![w] = Idle]
            BY <2>2 DEF Complete, Fail, Crash
        <3> QED BY <1>2, <3>1 DEF Idle, JQTypeOK
    <2>3. ASSUME NEW w \in Workers, Claim(w)
          PROVE  \/ slot'[v].job = slot[v].job
                 \/ jobs[slot'[v].job].status = "QUEUED" /\ slot'[v].job \in Jobs
        <3> PICK j \in Claimable :
                slot' = [slot EXCEPT ![w] = [job |-> j, attempts |-> jobs[j].attempts + 1]]
            BY <2>3 DEF Claim
        <3> QED BY DEF Claimable, JQTypeOK
    <2> QED BY <2>1, <2>2, <2>3, QueueStep DEF JQNext, WorkerStep, Enqueue, Ripen, Reap, jqVars
<1>3. ASSUME NEW w \in Workers, slot'[w].job # NoJob PROVE status'[slot'[w].job] # "ABSENT"
    <2>1. slot'[w].job \in Msgs /\ status[slot'[w].job] # "ABSENT"
        <3>1. CASE slot'[w].job = slot[w].job
            BY <1>0, <1>3, <3>1 DEF Known, Own, NoMsg
        <3>2. CASE jobs[slot'[w].job].status = "QUEUED" /\ slot'[w].job \in Jobs
            BY <3>2 DEF Known, Msgs
        <3> QED BY <1>2, <1>3, <3>1, <3>2
    <2> QED BY <1>1, <2>1
\* A row is inserted, and asked about, only for a message that was received.
<1>4. \A j \in Jobs : jobs[j].status = "ABSENT" =>
          \/ jobs'[j].status = "ABSENT"
          \/ status'[j] # "ABSENT"
    <2>1. ASSUME NEW m \in Msgs, Receive(m), NEW j \in Jobs, jobs[j].status = "ABSENT"
          PROVE  jobs'[j].status = "ABSENT" \/ status'[j] # "ABSENT"
        BY <1>0, <2>1 DEF Receive, Enqueue, Msgs
    <2>2. ASSUME NEW w \in Workers, Take(w) \/ Die(w), NEW j \in Jobs, jobs[j].status = "ABSENT"
          PROVE  jobs'[j].status = "ABSENT"
        <3>1. CASE Claim(w)
            <4> PICK k \in Claimable :
                    jobs' = [jobs EXCEPT ![k].status = "RUNNING", ![k].attempts = @ + 1]
                BY <3>1 DEF Claim
            <4> QED BY <2>2 DEF Claimable, JQTypeOK
        <3>2. CASE Crash(w)
            BY <2>2, <3>2 DEF Crash
        <3> QED BY <2>2, <3>1, <3>2 DEF Take, Die
    <2>3. ASSUME NEW w \in Workers, Finish(w) \/ FailJob(w), NEW j \in Jobs, jobs[j].status = "ABSENT"
          PROVE  jobs'[j].status = "ABSENT" \/ status'[j] # "ABSENT"
        <3>1. CASE j = slot[w].job
            <4>1. status[j] # "ABSENT"
                BY <3>1, JobsAssumption DEF Known, Own, NoMsg
            <4> QED BY <1>1, <4>1 DEF Msgs
        <3>2. CASE j # slot[w].job
            <4>1. jobs'[j] = jobs[j]
                BY <2>3, <3>2 DEF Finish, FailJob, Complete, Fail, JQTypeOK
            <4> QED BY <2>3, <4>1
        <3> QED BY <3>1, <3>2
    <2>4. ASSUME NEW m \in Msgs, RipenAlone(m), NEW j \in Jobs, jobs[j].status = "ABSENT"
          PROVE  jobs'[j].status = "ABSENT"
        BY <1>0, <2>4 DEF RipenAlone, Ripen
    <2>5. ASSUME NEW stale \in SUBSET Msgs, NEW old \in SUBSET Msgs, ReaperRuns(stale, old),
                 NEW j \in Jobs, jobs[j].status = "ABSENT"
          PROVE  jobs'[j].status = "ABSENT"
        BY <1>0, <2>5 DEF ReaperRuns, Reap, Reaped, MayBeStale, MayBeStuck, Running
    <2>6. ASSUME UNCHANGED jqVars, NEW j \in Jobs, jobs[j].status = "ABSENT"
          PROVE  jobs'[j].status = "ABSENT"
        BY <2>6 DEF jqVars
    <2> QED BY <2>1, <2>2, <2>3, <2>4, <2>5, <2>6
            DEF Next, UserStep, Lapse, Tap, Cancel, StrayTap, Overdue, HandlerStep, Lock, LockBusy,
                Transcribe, FailMessage, Route, Parse, Post, Answer, WorkerDeliver, Raise, Apologise
<1>5. ASSUME NEW n \in Msgs, status[n] = "ABSENT" PROVE ~Pending(n)'
    <2> USE DEF Pending
    <2>0. pend[n].status # "PENDING"
        BY <1>5 DEF Known
    <2>1. CASE pend' = pend
        BY <2>0, <2>1
    <2>3. ASSUME NEW m \in Msgs, NEW o, NEW st, NEW pd,
                 pd[n].status # "PENDING", st[n] \in {"ABSENT", "REJECTED"},
                 pd \in [Msgs -> PendRow], DecideAndPost(m, o, st, pd)
          PROVE  pend'[n].status # "PENDING"
        <3>1. m # n
            BY <2>3 DEF DecideAndPost, Decidable
        <3> QED BY <2>3, <3>1 DEF DecideAndPost
    <2>4. ASSUME NEW m \in Msgs, Tap(m) PROVE pend'[n].status # "PENDING"
        <3>1. Resolved(m)[n].status # "PENDING" /\ Resolved(m) \in [Msgs -> PendRow]
            BY <1>0, <2>0 DEF Resolved, PendRow, PendStatus
        <3> QED BY <1>5, <2>3, <2>4, <3>1 DEF Tap
    <2>5. ASSUME NEW m \in Msgs, Cancel(m) \/ StrayTap(m) \/ Overdue(m)
          PROVE  pend'[n].status # "PENDING"
        BY <1>0, <2>0, <2>5 DEF Cancel, StrayTap, Overdue, Tappable, Resolved
    <2>6. ASSUME NEW w \in Workers, Post(w) PROVE pend'[n].status # "PENDING"
        <3>1. Own(w) \in Msgs
            BY <2>6 DEF Post, At, HandsFull, Own, Msgs, JQTypeOK, NoMsg
        <3> QED BY <1>0, <1>5, <2>0, <2>1, <2>3, <2>6, <3>1 DEF Post, tableVars
    <2>7. ASSUME NEW w \in Workers, Answer(w) PROVE pend'[n].status # "PENDING"
        <3> DEFINE t == target[w]
        <3>1. t.msg \in Msgs
            BY <2>7 DEF Answer, At, HandsFull
        <3> HIDE DEF t
        <3>2. CASE AnswerAccepted(Own(w), t)
            <4>1. AnswererRejected(Own(w))[n] \in {"ABSENT", "REJECTED"}
                BY <1>0, <1>5 DEF AnswererRejected
            <4>2. Resolved(t.msg)[n].status # "PENDING" /\ Resolved(t.msg) \in [Msgs -> PendRow]
                BY <1>0, <2>0, <3>1 DEF Resolved, PendRow, PendStatus
            <4> QED BY <2>3, <3>1, <3>2, <4>1, <4>2 DEF AnswerAccepted
        <3>3. CASE AnswerReasked(Own(w), t)
            BY <1>0, <2>0, <3>1, <3>3 DEF AnswerReasked, StillOpen
        <3> QED BY <2>1, <2>7, <3>2, <3>3 DEF Answer, tableVars, t
    <2>8. ASSUME NEW stale \in SUBSET Msgs, NEW old \in SUBSET Msgs, ReaperRuns(stale, old)
          PROVE  pend'[n].status # "PENDING"
        BY <1>0, <2>0, <2>8 DEF ReaperRuns
    <2> QED BY <2>1, <2>4, <2>5, <2>6, <2>7, <2>8
            DEF Next, Receive, UserStep, Lapse, RipenAlone, Take, Die, HandlerStep, Lock, LockBusy,
                Transcribe, FailMessage, Route, Parse, WorkerDeliver, Finish, Raise, FailJob,
                Apologise, tableVars
<1> QED BY <1>1, <1>3, <1>4, <1>5 DEF Known, Own, NoMsg, Msgs

-----------------------------------------------------------------------------
(* A step books an open message, which has no entry yet, or books nothing  *)
(* and reopens nothing: ExactlyOnce is inductive.                          *)
LEMMA ExactlyOnceInductive ==
    ASSUME TypeOK, HandsFull, Known, ExactlyOnce, Next
    PROVE  ExactlyOnce'
<1>0. booked \in [Msgs -> Nat] /\ status \in [Msgs -> MsgStatus]
    BY DEF TypeOK, TablesTypeOK
<1> USE DEF ExactlyOnce, Settled
<1>1. CASE \E m \in Msgs : Receive(m)
    BY <1>0, <1>1 DEF Receive
<1>2. CASE Quiet
    BY <1>2 DEF Quiet, Kept, Refused, Stays, OpenStatus
<1>3. ASSUME NEW m \in Msgs, Books(m) PROVE ExactlyOnce'
    BY <1>0, <1>3 DEF Books, Kept, Refused, OpenStatus
<1> QED BY <1>1, <1>2, <1>3, StepEffect

PipelineInv == TypeOK /\ HandsFull /\ Known /\ ExactlyOnce

LEMMA InitInv == Init => PipelineInv
<1> SUFFICES ASSUME Init PROVE Known /\ ExactlyOnce
    BY InitTyped DEF PipelineInv
<1> QED BY DEF Init, TablesInit, JQInit, Known, ExactlyOnce, Settled, Own, Idle, NoMsg, Pending,
               NoPend, Msgs

LEMMA PipelineInductive == PipelineInv /\ [Next]_vars => PipelineInv'
<1>1. ASSUME PipelineInv, Next PROVE PipelineInv'
    BY <1>1, TypeAndHands, KnownInductive, ExactlyOnceInductive DEF PipelineInv
<1>2. ASSUME PipelineInv, UNCHANGED vars PROVE PipelineInv'
    <2>1. TypeOK' /\ HandsFull'
        BY <1>2, TypeAndHands DEF PipelineInv
    <2> QED BY <1>2, <2>1 DEF vars, jqVars, tableVars, PipelineInv, Known, ExactlyOnce, Settled, Own,
                              Pending
<1> QED BY <1>1, <1>2

LEMMA Invariance == Spec => []PipelineInv
BY InitInv, PipelineInductive, PTL DEF Spec

(* Layers 3 and 4 of ADR-003 suffice: with any number of workers, late or  *)
(* not, crashes, reaps, retries, taps, typed answers and expiries, no      *)
(* message has two transactions, one that is open has none, and one that   *)
(* is COMMITTED has its one (pipeline.py:198-200, 238-245).                *)
THEOREM BooksAtMostOnce == Spec => []ExactlyOnce
BY Invariance, PTL DEF PipelineInv

-----------------------------------------------------------------------------
(* In terms of the promise: a quiet step refuses the open messages it      *)
(* marks and leaves every other fate alone.                                *)
LEMMA QuietKeepsPromise ==
    ASSUME PipelineInv, Quiet
    PROVE  P!Refuse({n \in Msgs : Fate(n) = "open" /\ Fate(n)' = "refused"})
<1> DEFINE refused == {n \in Msgs : Fate(n) = "open" /\ Fate(n)' = "refused"}
<1>1. ASSUME NEW n \in Msgs PROVE Fate(n)' = Fate(n) \/ n \in refused
    <2>1. booked'[n] = booked[n] /\ booked[n] \in Nat
        BY DEF Quiet, PipelineInv, TypeOK, TablesTypeOK
    <2>2. Kept(n) \/ Stays(n)
        BY DEF Quiet
    <2>3. status[n] \in {"REJECTED", "FAILED", "COMMITTED"} \cup OpenStatus \cup {"ABSENT"}
        BY DEF PipelineInv, TypeOK, TablesTypeOK, MsgStatus, OpenStatus
    <2> QED BY <2>1, <2>2, <2>3
            DEF Fate, Kept, Refused, Stays, OpenStatus, PipelineInv, ExactlyOnce
<1>2. booked' = booked
    BY DEF Quiet
<1> QED BY <1>1, <1>2 DEF P!Refuse

LEMMA BookKeepsPromise ==
    ASSUME PipelineInv, NEW m \in Msgs, Books(m)
    PROVE  P!Book(m, {n \in Msgs \ {m} : Fate(n) = "open" /\ Fate(n)' = "refused"})
<1> DEFINE refused == {n \in Msgs \ {m} : Fate(n) = "open" /\ Fate(n)' = "refused"}
<1>0. booked \in [Msgs -> Nat]
    BY DEF PipelineInv, TypeOK, TablesTypeOK
<1>1. Fate(m) = "open" /\ Fate(m)' = "booked"
    <2>1. booked[m] = 0
        BY DEF PipelineInv, ExactlyOnce, Settled, Books, OpenStatus
    <2> QED BY <1>0, <2>1 DEF Fate, Books, OpenStatus
<1>2. ASSUME NEW n \in Msgs \ {m} PROVE Fate(n)' = Fate(n) \/ n \in refused
    <2>1. booked'[n] = booked[n] /\ booked[n] \in Nat
        BY <1>0 DEF Books
    <2>2. Kept(n)
        BY DEF Books
    <2>3. status[n] \in {"REJECTED", "FAILED", "COMMITTED"} \cup OpenStatus \cup {"ABSENT"}
        BY DEF PipelineInv, TypeOK, TablesTypeOK, MsgStatus, OpenStatus
    <2> QED BY <2>1, <2>2, <2>3 DEF Fate, Kept, Refused, OpenStatus, PipelineInv, ExactlyOnce
<1>3. booked' = [booked EXCEPT ![m] = @ + 1]
    BY DEF Books
<1> QED BY <1>1, <1>2, <1>3 DEF P!Book

LEMMA ReceiveKeepsPromise ==
    ASSUME PipelineInv, NEW m \in Msgs, Receive(m)
    PROVE  P!Hear(m)
<1>1. status \in [Msgs -> MsgStatus] /\ booked \in [Msgs -> Nat]
    BY DEF PipelineInv, TypeOK, TablesTypeOK
<1>2. booked[m] = 0 /\ booked' = booked
    BY DEF Receive, PipelineInv, ExactlyOnce, Settled
<1>3. status' = [status EXCEPT ![m] = "RECEIVED"] /\ status[m] = "ABSENT"
    BY DEF Receive
<1>4. Fate(m) = "unheard" /\ Fate(m)' = "open"
    BY <1>1, <1>2, <1>3 DEF Fate
<1>5. \A n \in Msgs \ {m} : Fate(n)' = Fate(n)
    BY <1>1, <1>2, <1>3 DEF Fate
<1> QED BY <1>2, <1>4, <1>5 DEF P!Hear

(* The pipeline implements the promise: each message is heard once, then   *)
(* booked by one entry or refused with none, and stays so (ADR-003).       *)
THEOREM PipelineKeepsPromise == Spec => PromiseKept
<1>1. Init => P!Init
    BY DEF Init, TablesInit, P!Init, Fate
<1>2. PipelineInv /\ [Next]_vars => [P!Next]_<<[m \in Msgs |-> Fate(m)], booked>>
    <2>1. ASSUME PipelineInv, Next PROVE P!Next
        <3>1. CASE \E m \in Msgs : Receive(m)
            BY <2>1, <3>1, ReceiveKeepsPromise DEF P!Next
        <3>2. CASE Quiet
            BY <2>1, <3>2, QuietKeepsPromise DEF P!Next
        <3>3. CASE \E m \in Msgs : Books(m)
            BY <2>1, <3>3, BookKeepsPromise DEF P!Next
        <3> QED BY <2>1, <3>1, <3>2, <3>3, StepEffect DEF PipelineInv
    <2>2. ASSUME UNCHANGED vars PROVE UNCHANGED <<[m \in Msgs |-> Fate(m)], booked>>
        BY <2>2 DEF vars, tableVars, Fate
    <2> QED BY <2>1, <2>2
<1> QED BY <1>1, <1>2, Invariance, PTL DEF Spec, PromiseKept, P!Spec

-----------------------------------------------------------------------------
(***************************************************************************)
(* What the pipeline keeps as long as every handler finishes within 5      *)
(* minutes, so that no job is reaped under a living worker: with any       *)
(* number of messages and workers, crashes, retries, revivals, taps, typed *)
(* answers and expiries, and with stray taps except where it says so.      *)
(***************************************************************************)
\* Between transaction A and the one that settles or asks; and after a
\* failure, when that is where calls fail.
Handling == {"stt", "fail", "route", "parse", "post", "answer"}
AtWork == Handling \cup {s \in {"raised"} : Raises \subseteq Handling}

(* A message on which a worker is at work is nobody else's.                *)
Busy == \A w \in Workers : pc[w] \in AtWork => status[Own(w)] = "PROCESSING"

(* An open question is one that its message waits for.                     *)
Awaited == \A m \in Msgs : Pending(m) => status[m] = "AWAITING_CONFIRMATION"

(* Before its first question a message has no answers.                     *)
Unanswered ==
    \A m \in Msgs : status[m] \in {"ABSENT", "RECEIVED", "PROCESSING"} => pend[m].answered = {}

TimelyInv == TypeOK /\ HandsFull /\ OneHolder /\ Busy /\ Awaited /\ Unanswered

-----------------------------------------------------------------------------
(* What a step may do to one message: nothing, process it, end it, ask     *)
(* about it, or take its question away.                                    *)
Still(n) ==
    /\ status'[n] = status[n] /\ booked'[n] = booked[n]
    /\ pend'[n] \in {pend[n], [pend[n] EXCEPT !.overdue = TRUE]}

Begins(n) ==
    /\ status[n] \in {"ABSENT", "RECEIVED", "PROCESSING"}
    /\ status'[n] \in {"RECEIVED", "PROCESSING"}
    /\ booked'[n] = booked[n] /\ pend'[n] = pend[n]

Ends(n) ==
    /\ status[n] \in OpenStatus
    /\ \/ status'[n] \in {"REJECTED", "FAILED"} /\ booked'[n] = booked[n]
       \/ status'[n] = "COMMITTED" /\ booked'[n] = booked[n] + 1
    /\ pend'[n].status # "PENDING" /\ pend'[n].id = pend[n].id

AsksOn(n) ==
    /\ status[n] \in OpenStatus
    /\ status'[n] = "AWAITING_CONFIRMATION" /\ booked'[n] = booked[n]
    /\ pend'[n].status = "PENDING" /\ pend[n].answered \subseteq pend'[n].answered

Strays(n) ==
    /\ StrayTaps
    /\ status[n] = "AWAITING_CONFIRMATION"
    /\ status'[n] = status[n] /\ booked'[n] = booked[n]
    /\ pend'[n].status # "PENDING" /\ pend'[n].id = pend[n].id

Moves(n) == Still(n) \/ Begins(n) \/ Ends(n) \/ AsksOn(n) \/ Strays(n)

\* decide_and_post_in settles its message or asks, and touches no other.
LEMMA DecideMoves ==
    ASSUME TypeOK, NEW m \in Msgs, NEW o, NEW st \in [Msgs -> MsgStatus], NEW pd \in [Msgs -> PendRow],
           st[m] \in {status[m], "REJECTED"}, pd[m].status # "PENDING", pd[m].id = pend[m].id,
           pend[m].answered \subseteq o, DecideAndPost(m, o, st, pd)
    PROVE  /\ Ends(m) \/ AsksOn(m)
           /\ \A n \in Msgs \ {m} : /\ status'[n] = st[n] /\ pend'[n] = pd[n]
                                    /\ booked'[n] = booked[n]
<1>0. booked \in [Msgs -> Nat]
    BY DEF TypeOK, TablesTypeOK
<1>1. status[m] \in OpenStatus /\ st[m] = status[m]
    BY DEF DecideAndPost, Decidable, OpenStatus
<1>2. CASE Asks(m, o)
    <2>1. /\ status' = [st EXCEPT ![m] = "AWAITING_CONFIRMATION"] /\ booked' = booked
          /\ pend' = [pd EXCEPT ![m] = NewPending(Question(m, o), o)]
        BY <1>2 DEF DecideAndPost, Asks
    <2>2. AsksOn(m)
        BY <1>1, <2>1 DEF AsksOn, NewPending
    <2> QED BY <2>1, <2>2
<1>3. CASE ~Asks(m, o)
    <2>1. PICK s \in {"COMMITTED", "REJECTED"} :
              /\ status' = [st EXCEPT ![m] = s] /\ pend' = pd
              /\ booked' = IF s = "COMMITTED" THEN [booked EXCEPT ![m] = @ + 1] ELSE booked
        BY <1>3 DEF DecideAndPost
    <2>2. Ends(m)
        BY <1>0, <1>1, <2>1 DEF Ends
    <2> QED BY <1>0, <2>1, <2>2
<1> QED BY <1>2, <1>3

\* What the user and the clock do to a question leaves all others alone.
LEMMA UserMoves ==
    ASSUME TimelyInv, NEW m \in Msgs, UserStep(m) \/ Lapse(m), NEW n \in Msgs
    PROVE  Moves(n)
<1> USE DEF TimelyInv
<1>0. /\ status \in [Msgs -> MsgStatus] /\ pend \in [Msgs -> PendRow]
      /\ Resolved(m) \in [Msgs -> PendRow]
    BY DEF TypeOK, TablesTypeOK, PendRow, PendStatus, Resolved
<1>1. status[m] = "AWAITING_CONFIRMATION" /\ Pending(m)
    BY DEF UserStep, Lapse, Tap, Cancel, StrayTap, Overdue, Tappable, Awaited
<1>2. CASE Tap(m)
    <2>1. DecideAndPost(m, pend[m].answered \cup {pend[m].question}, status, Resolved(m))
        BY <1>1, <1>2 DEF Tap, Decidable
    <2>2. /\ Resolved(m)[m].status # "PENDING" /\ Resolved(m)[m].id = pend[m].id
          /\ \A k \in Msgs \ {m} : Resolved(m)[k] = pend[k]
        BY <1>0 DEF Resolved, PendRow
    <2>3. /\ Ends(m) \/ AsksOn(m)
          /\ \A k \in Msgs \ {m} : Still(k)
        BY <1>0, <2>1, <2>2, DecideMoves DEF Still
    <2> QED BY <2>3 DEF Moves
<1>3. CASE Cancel(m)
    <2>1. Ends(m)
        BY <1>0, <1>1, <1>3 DEF Cancel, Ends, OpenStatus, PendRow
    <2>2. n # m => Still(n)
        BY <1>0, <1>3 DEF Cancel, Still
    <2> QED BY <2>1, <2>2 DEF Moves
<1>4. CASE StrayTap(m)
    <2>1. Strays(m)
        BY <1>0, <1>1, <1>4 DEF StrayTap, Strays, Resolved, PendRow
    <2>2. n # m => Still(n)
        BY <1>0, <1>4 DEF StrayTap, Still, Resolved
    <2> QED BY <2>1, <2>2 DEF Moves
<1>5. CASE Overdue(m)
    BY <1>0, <1>5 DEF Overdue, Moves, Still
<1> QED BY <1>2, <1>3, <1>4, <1>5 DEF UserStep, Lapse

\* A worker at work holds a message that is PROCESSING.
LEMMA AtWorkHolds ==
    ASSUME TimelyInv, NEW w \in Workers, pc[w] \in AtWork
    PROVE  Own(w) \in Msgs /\ status[Own(w)] = "PROCESSING" /\ ~Pending(Own(w))
<1>1. Own(w) \in Msgs
    BY DEF TimelyInv, HandsFull, AtWork, Handling, TypeOK, JQTypeOK, Own, NoMsg, Msgs
<1> QED BY <1>1 DEF TimelyInv, Busy, Awaited

\* The answering message is rejected, the answered one decided or asked again.
LEMMA AnswerMoves ==
    ASSUME TimelyInv, NEW w \in Workers, Answer(w), NEW n \in Msgs
    PROVE  Moves(n)
<1> USE DEF TimelyInv
<1> DEFINE t == target[w]
           own == Own(w)
<1>0. status \in [Msgs -> MsgStatus] /\ pend \in [Msgs -> PendRow] /\ booked \in [Msgs -> Nat]
    BY DEF TypeOK, TablesTypeOK
<1>1. own \in Msgs /\ status[own] = "PROCESSING" /\ pend[own].status # "PENDING"
    BY AtWorkHolds DEF Answer, At, AtWork, Handling, Pending
<1>2. t.msg \in Msgs
    BY DEF Answer, At, HandsFull
<1> DEFINE st == AnswererRejected(own)
<1>3. /\ st \in [Msgs -> MsgStatus] /\ st[own] = "REJECTED"
      /\ \A k \in Msgs \ {own} : st[k] = status[k]
    BY <1>0, <1>1 DEF AnswererRejected, MsgStatus
<1> HIDE DEF t, st, own
<1>4. ASSUME StillOpen(t) PROVE t.msg # own /\ status[t.msg] = "AWAITING_CONFIRMATION"
    BY <1>1, <1>2, <1>4 DEF StillOpen, Awaited, Pending
<1>5. CASE AnswerAccepted(own, t)
    <2> DEFINE pd == Resolved(t.msg)
               o == pend[t.msg].answered \cup {pend[t.msg].question}
    <2>1. /\ pd \in [Msgs -> PendRow] /\ pd[t.msg].status # "PENDING" /\ pd[t.msg].id = pend[t.msg].id
          /\ \A k \in Msgs \ {t.msg} : pd[k] = pend[k]
        BY <1>0, <1>2 DEF Resolved, PendRow, PendStatus
    <2>2. DecideAndPost(t.msg, o, st, pd) /\ t.msg # own
        BY <1>4, <1>5 DEF AnswerAccepted, st
    <2>3. st[t.msg] \in {status[t.msg], "REJECTED"}
        BY <1>2, <1>3
    <2>3a. pend[t.msg].answered \subseteq o
        OBVIOUS
    <2> HIDE DEF pd, o
    <2>4. /\ Ends(t.msg) \/ AsksOn(t.msg)
          /\ \A k \in Msgs \ {t.msg} : status'[k] = st[k] /\ pend'[k] = pd[k] /\ booked'[k] = booked[k]
        BY <1>2, <1>3, <2>1, <2>2, <2>3, <2>3a, DecideMoves
    <2>5. Ends(own)
        BY <1>1, <1>3, <2>1, <2>2, <2>4 DEF Ends, OpenStatus
    <2>6. \A k \in Msgs \ {t.msg, own} : Still(k)
        BY <1>3, <2>1, <2>4 DEF Still
    <2> QED BY <2>4, <2>5, <2>6 DEF Moves
<1>6. CASE AnswerReasked(own, t)
    <2>1. /\ status' = st /\ booked' = booked
          /\ pend' = [pend EXCEPT ![t.msg] = NewPending(pend[t.msg].question, pend[t.msg].answered)]
        BY <1>6 DEF AnswerReasked, st
    <2>2. t.msg # own /\ status[t.msg] = "AWAITING_CONFIRMATION"
        BY <1>4, <1>6 DEF AnswerReasked
    <2>3. AsksOn(t.msg)
        BY <1>0, <1>2, <1>3, <2>1, <2>2 DEF AsksOn, NewPending, OpenStatus
    <2>4. Ends(own)
        BY <1>0, <1>1, <1>3, <2>1, <2>2 DEF Ends, OpenStatus
    <2>5. \A k \in Msgs \ {t.msg, own} : Still(k)
        BY <1>0, <1>3, <2>1 DEF Still
    <2> QED BY <2>3, <2>4, <2>5 DEF Moves
<1>7. CASE UNCHANGED tableVars
    BY <1>7 DEF Moves, Still, tableVars
<1> QED BY <1>5, <1>6, <1>7 DEF Answer, t, own, tableVars

\* A worker before its end touches the message it holds and no other.
LEMMA HandlerMoves ==
    ASSUME TimelyInv, NEW w \in Workers, HandlerStep(w), NEW n \in Msgs
    PROVE  Moves(n)
<1> USE DEF TimelyInv
<1>0. status \in [Msgs -> MsgStatus] /\ pend \in [Msgs -> PendRow] /\ booked \in [Msgs -> Nat]
    BY DEF TypeOK, TablesTypeOK
<1>1. ASSUME status' = status, booked' = booked, pend' = pend PROVE Moves(n)
    BY <1>1 DEF Moves, Still
<1>2. CASE Lock(w)
    BY <1>0, <1>2 DEF Lock, Moves, Still, Begins, Unhandled
<1>3. CASE FailMessage(w)
    <2>1. Own(w) \in Msgs /\ status[Own(w)] = "PROCESSING" /\ ~Pending(Own(w))
        BY <1>3, AtWorkHolds DEF FailMessage, At, AtWork, Handling
    <2> QED BY <1>0, <1>3, <2>1 DEF FailMessage, Moves, Still, Ends, OpenStatus, Pending
<1>4. CASE Post(w)
    <2>1. Own(w) \in Msgs /\ status[Own(w)] = "PROCESSING" /\ ~Pending(Own(w))
        BY <1>4, AtWorkHolds DEF Post, At, AtWork, Handling
    <2>2. DecideAndPost(Own(w), {}, status, pend)
        BY <1>4, <2>1 DEF Post, Decidable
    <2>3. pend[Own(w)].answered \subseteq {}
        BY <2>1 DEF Unanswered
    <2>4. /\ Ends(Own(w)) \/ AsksOn(Own(w))
          /\ \A k \in Msgs \ {Own(w)} : Still(k)
        BY <1>0, <2>1, <2>2, <2>3, DecideMoves DEF Still, Pending
    <2> QED BY <2>4 DEF Moves
<1>5. CASE FailJob(w)
    <2>1. CASE Unhandled(n) /\ status'[n] = "FAILED"
        <3>1. Ends(n)
            BY <1>5, <2>1 DEF FailJob, Ends, OpenStatus, Unhandled, Awaited, Pending
        <3> QED BY <3>1 DEF Moves
    <2>2. CASE status'[n] = status[n]
        BY <1>5, <2>2 DEF FailJob, Moves, Still
    <2> QED BY <1>0, <1>5, <2>1, <2>2 DEF FailJob
<1>6. CASE Answer(w)
    BY <1>6, AnswerMoves
<1> QED BY <1>1, <1>2, <1>3, <1>4, <1>5, <1>6
        DEF HandlerStep, LockBusy, Transcribe, Route, Parse, WorkerDeliver, Finish, Raise, Apologise,
            tableVars

LEMMA ReaperMoves ==
    ASSUME TimelyInv, NEW stale, NEW old, ReaperRuns(stale, old), NEW n \in Msgs
    PROVE  Moves(n)
<1> USE DEF TimelyInv
<1>0. status \in [Msgs -> MsgStatus] /\ pend \in [Msgs -> PendRow] /\ booked' = booked
    BY DEF TypeOK, TablesTypeOK, ReaperRuns
<1>1. CASE Pending(n) /\ pend[n].overdue
    <2>1. status[n] = "AWAITING_CONFIRMATION"
        BY <1>1 DEF Awaited
    <2>2. pend'[n].status = "EXPIRED" /\ pend'[n].id = pend[n].id
        BY <1>0, <1>1 DEF ReaperRuns, PendRow
    <2>3. status'[n] \in {"REJECTED", "FAILED"}
        BY <1>1, <2>1 DEF ReaperRuns
    <2> QED BY <1>0, <2>1, <2>2, <2>3 DEF Moves, Ends, OpenStatus
<1>2. CASE ~(Pending(n) /\ pend[n].overdue)
    <2>1. pend'[n] = pend[n]
        BY <1>2 DEF ReaperRuns
    <2>2. \/ status'[n] = status[n]
          \/ status'[n] = "FAILED" /\ Unhandled(n)
        BY <1>2 DEF ReaperRuns, Stuck
    <2> QED BY <1>0, <2>1, <2>2 DEF Moves, Still, Ends, OpenStatus, Unhandled, Awaited, Pending
<1> QED BY <1>1, <1>2

LEMMA StepMoves ==
    ASSUME TimelyInv, Next, NEW n \in Msgs
    PROVE  Moves(n)
<1>0. status \in [Msgs -> MsgStatus]
    BY DEF TimelyInv, TypeOK, TablesTypeOK
<1>1. ASSUME NEW m \in Msgs, Receive(m) PROVE Moves(n)
    BY <1>0, <1>1 DEF Receive, Moves, Still, Begins
<1>2. ASSUME UNCHANGED tableVars PROVE Moves(n)
    BY <1>2 DEF tableVars, Moves, Still
<1> QED BY <1>1, <1>2, UserMoves, HandlerMoves, ReaperMoves DEF Next, RipenAlone, Take, Die

-----------------------------------------------------------------------------
\* A message that a worker is at work on is left alone by everybody else.
LEMMA OthersKeepOff ==
    ASSUME TimelyInv, ~SlowWorkers, Next, NEW v \in Workers, pc[v] \in AtWork,
           ~HandlerStep(v)
    PROVE  status'[Own(v)] = "PROCESSING"
<1> USE DEF TimelyInv
<1> DEFINE own == Own(v)
<1>0. status \in [Msgs -> MsgStatus] /\ pend \in [Msgs -> PendRow]
    BY DEF TypeOK, TablesTypeOK
<1>1. own \in Msgs /\ status[own] = "PROCESSING" /\ pend[own].status # "PENDING"
    BY AtWorkHolds DEF Pending
<1>2. /\ jobs[own].status = "RUNNING"
      /\ \A w \in Workers \ {v} : Own(w) # own
    BY <1>1, JobsAssumption DEF OneHolder, Own, Msgs
<1> HIDE DEF own
<1>3. ASSUME status' = status PROVE status'[own] = "PROCESSING"
    BY <1>1, <1>3
<1>4. ASSUME NEW m \in Msgs, Receive(m) PROVE status'[own] = "PROCESSING"
    BY <1>0, <1>1, <1>4 DEF Receive
<1>5. ASSUME NEW m \in Msgs, UserStep(m) \/ Lapse(m) PROVE status'[own] = "PROCESSING"
    <2>1. own # m
        BY <1>1, <1>5 DEF UserStep, Lapse, Tap, Cancel, StrayTap, Overdue, Tappable, Pending
    <2> QED BY <1>0, <1>1, <1>5, <2>1
            DEF UserStep, Lapse, Tap, Cancel, StrayTap, Overdue, DecideAndPost
<1>6. ASSUME NEW w \in Workers \ {v}, HandlerStep(w) PROVE status'[own] = "PROCESSING"
    <2>0. own # Own(w)
        BY <1>2
    <2>1. CASE Lock(w) \/ FailMessage(w) \/ Post(w) \/ FailJob(w)
        BY <1>0, <1>1, <2>0, <2>1 DEF Lock, FailMessage, Post, FailJob, DecideAndPost, tableVars
    <2>2. CASE Answer(w)
        <3> DEFINE t == target[w]
        <3>1. t.msg \in Msgs
            BY <2>2 DEF Answer, At, HandsFull
        <3>2. AnswererRejected(Own(w))[own] = status[own]
            BY <1>0, <1>1, <2>0 DEF AnswererRejected
        <3>3. StillOpen(t) => own # t.msg
            BY <1>1 DEF StillOpen, Pending
        <3> HIDE DEF t
        <3> QED BY <1>0, <1>1, <2>2, <3>1, <3>2, <3>3
                DEF Answer, AnswerAccepted, AnswerReasked, AnswererRejected, DecideAndPost,
                    MsgStatus, tableVars, t
    <2> QED BY <1>3, <1>6, <2>1, <2>2
            DEF HandlerStep, LockBusy, Transcribe, Route, Parse, WorkerDeliver, Finish, Raise,
                Apologise, tableVars
<1>7. ASSUME NEW stale, NEW old, ReaperRuns(stale, old) PROVE status'[own] = "PROCESSING"
    BY <1>1, <1>2, <1>7 DEF ReaperRuns, Stuck
<1> QED BY <1>3, <1>4, <1>5, <1>6, <1>7 DEF Next, RipenAlone, Take, Die, tableVars, own

\* Nobody else moves a worker.
LEMMA OthersStandStill ==
    ASSUME TypeOK, Next, NEW v \in Workers, ~HandlerStep(v), pc'[v] \in AtWork
    PROVE  pc[v] = pc'[v] /\ Own(v)' = Own(v)
<1>0. pc \in [Workers -> Steps] /\ slot \in [Workers -> [job : Jobs \cup {NoJob}, attempts : Nat]]
    BY DEF TypeOK, WorkersTypeOK, JQTypeOK
<1> USE DEF Own
<1>1. ASSUME NEW m \in Msgs, Receive(m) \/ UserStep(m) \/ Lapse(m) \/ RipenAlone(m)
      PROVE  pc' = pc /\ slot' = slot
    BY <1>1 DEF Receive, Enqueue, UserStep, Tap, Cancel, StrayTap, Lapse, Overdue, RipenAlone,
                Ripen, workerVars, jqVars
<1>2. ASSUME NEW w \in Workers, Take(w) PROVE pc[v] = pc'[v] /\ Own(v)' = Own(v)
    BY <1>0, <1>2 DEF Take, Claim, Goto, AtWork, Handling
<1>3. ASSUME NEW w \in Workers, Die(w) PROVE pc[v] = pc'[v] /\ Own(v)' = Own(v)
    BY <1>0, <1>3 DEF Die, Crash, Rest, AtWork, Handling
<1>4. ASSUME NEW w \in Workers \ {v}, HandlerStep(w) PROVE pc[v] = pc'[v] /\ Own(v)' = Own(v)
    BY <1>0, <1>4
       DEF HandlerStep, Lock, LockBusy, Transcribe, FailMessage, Route, Parse, Post, Answer,
           WorkerDeliver, Finish, Complete, Raise, FailJob, Fail, Apologise, Goto, Rest, jqVars
<1>5. ASSUME NEW stale, NEW old, ReaperRuns(stale, old) PROVE pc' = pc /\ slot' = slot
    BY <1>5 DEF ReaperRuns, Reap, workerVars
<1> QED BY <1>1, <1>2, <1>3, <1>4, <1>5 DEF Next

LEMMA BusyInductive ==
    ASSUME TimelyInv, ~SlowWorkers, Next
    PROVE  Busy'
<1> USE DEF TimelyInv
<1> SUFFICES ASSUME NEW v \in Workers, pc'[v] \in AtWork PROVE status'[Own(v)'] = "PROCESSING"
    BY DEF Busy
<1>0. /\ pc \in [Workers -> Steps] /\ status \in [Msgs -> MsgStatus]
      /\ Own(v) \in Msgs \cup {NoMsg}
    BY DEF TypeOK, WorkersTypeOK, TablesTypeOK, JQTypeOK, Own, Msgs, NoMsg
<1>1. CASE HandlerStep(v)
    <2>1. CASE Lock(v)
        <3>1. Own(v) \in Msgs
            BY <1>0, <2>1 DEF Lock, At, HandsFull
        <3>2. status' = [status EXCEPT ![Own(v)] = "PROCESSING"]
            BY <1>0, <2>1 DEF Lock, Goto, AtWork, Handling
        <3> QED BY <1>0, <2>1, <3>1, <3>2 DEF Lock, jqVars, Own
    <2>2. CASE Transcribe(v) \/ Route(v) \/ Parse(v)
        <3>1. pc[v] \in AtWork /\ slot' = slot /\ status' = status
            BY <2>2 DEF Transcribe, Route, Parse, At, AtWork, Handling, jqVars, tableVars
        <3> QED BY <3>1 DEF Busy, Own
    <2>2a. CASE Raise(v)
        <3>1. pc[v] \in AtWork /\ slot' = slot /\ status' = status
            BY <1>0, <2>2a DEF Raise, Goto, AtWork, Handling, jqVars, tableVars
        <3> QED BY <3>1 DEF Busy, Own
    <2>3. ASSUME NEW s \in Steps \ AtWork, Goto(v, s) PROVE FALSE
        BY <1>0, <2>3 DEF Goto
    <2>4. ASSUME Rest(v) \/ pc' = [pc EXCEPT ![v] = "apologise"] PROVE FALSE
        BY <1>0, <2>4 DEF Rest, AtWork, Handling
    <2> QED BY <1>1, <2>1, <2>2, <2>2a, <2>3, <2>4
            DEF HandlerStep, LockBusy, FailMessage, Post, Answer, WorkerDeliver, Finish,
                FailJob, Apologise, Steps, TrySteps, AtWork, Handling
<1>2. CASE ~HandlerStep(v)
    BY <1>2, OthersStandStill, OthersKeepOff
<1> QED BY <1>1, <1>2

LEMMA TimelyInductive ==
    ASSUME ~SlowWorkers
    PROVE  TimelyInv /\ [Next]_vars => TimelyInv'
<1>1. ASSUME TimelyInv, Next PROVE TimelyInv'
    <2>1. TypeOK' /\ HandsFull'
        BY <1>1, TypeAndHands DEF TimelyInv
    <2>2. OneHolder'
        BY <1>1, QueueStep, OneHolderInductive DEF TimelyInv, TypeOK
    <2>3. Awaited' /\ Unanswered'
        <3> SUFFICES ASSUME NEW n \in Msgs
                     PROVE  /\ Pending(n)' => status'[n] = "AWAITING_CONFIRMATION"
                            /\ status'[n] \in {"ABSENT", "RECEIVED", "PROCESSING"}
                                   => pend'[n].answered = {}
            BY DEF Awaited, Unanswered
        <3>1. Moves(n)
            BY <1>1, StepMoves
        <3>2. pend[n] \in PendRow
            BY <1>1 DEF TimelyInv, TypeOK, TablesTypeOK
        <3> QED BY <1>1, <3>1, <3>2
                DEF Moves, Still, Begins, Ends, AsksOn, Strays, TimelyInv, Awaited, Unanswered,
                    Pending, PendRow
    <2> QED BY <1>1, <2>1, <2>2, <2>3, BusyInductive DEF TimelyInv
<1>2. ASSUME TimelyInv, UNCHANGED vars PROVE TimelyInv'
    <2>1. TypeOK' /\ HandsFull'
        BY <1>2, TypeAndHands DEF TimelyInv
    <2> QED BY <1>2, <2>1
            DEF TimelyInv, vars, jqVars, tableVars, workerVars, OneHolder, Busy, Awaited, Unanswered,
                Own, Pending
<1> QED BY <1>1, <1>2

LEMMA InitTimely == Init => TimelyInv
<1> SUFFICES ASSUME Init PROVE OneHolder /\ Busy /\ Awaited /\ Unanswered
    BY InitTyped DEF TimelyInv
<1> QED BY DEF Init, JQInit, TablesInit, OneHolder, Busy, Awaited, Unanswered, AtWork, Handling, Idle, NoPend,
               Pending

LEMMA Timely == ASSUME ~SlowWorkers PROVE Spec => []TimelyInv
BY InitTimely, TimelyInductive, PTL DEF Spec

-----------------------------------------------------------------------------
(* With timely handlers no message is relabelled once it is settled, not   *)
(* even by the writes that check no status (pipeline.py:177, jobs.py:66,   *)
(* worker.py:54, confirmations.py:72 and 124).                             *)
THEOREM SettledForGood == ASSUME ~SlowWorkers PROVE Spec => SettledIsFinal
<1>1. TimelyInv /\ [Next]_vars => [\A m \in Msgs : Settled(m) => status'[m] = status[m]]_vars
    <2> SUFFICES ASSUME TimelyInv, Next, NEW m \in Msgs, Settled(m) PROVE status'[m] = status[m]
        OBVIOUS
    <2>1. Moves(m)
        BY StepMoves
    <2> QED BY <2>1 DEF Moves, Still, Begins, Ends, AsksOn, Strays, OpenStatus, Settled
<1> QED BY <1>1, Timely, PTL DEF Spec, SettledIsFinal

(* With timely handlers the draft of a message only grows: no question is  *)
(* ever repeated because a retry or a second answer dropped the answers    *)
(* given before (confirmations.py:77 and 121, pipeline.py:248).            *)
THEOREM DraftsGrow == ASSUME ~SlowWorkers PROVE Spec => AnswersAreKept
<1>1. TimelyInv /\ [Next]_vars =>
        [\A m \in Msgs : pend'[m].id # pend[m].id
                             => pend[m].answered \subseteq pend'[m].answered]_vars
    <2> SUFFICES ASSUME TimelyInv, Next, NEW m \in Msgs, pend'[m].id # pend[m].id
                 PROVE  pend[m].answered \subseteq pend'[m].answered
        OBVIOUS
    <2>1. Moves(m) /\ pend[m] \in PendRow
        BY StepMoves DEF TimelyInv, TypeOK, TablesTypeOK
    <2> QED BY <2>1 DEF Moves, Still, Begins, Ends, AsksOn, Strays, PendRow
<1> QED BY <1>1, Timely, PTL DEF Spec, AnswersAreKept

(* With timely handlers, what the user is told to send again is not in the *)
(* books: together with ExactlyOnce, inductive over the moves of a message *)
(* (pipeline.py:177, jobs.py:66, confirmations.py:72 and 124).             *)
THEOREM RefusedNotBooked == ASSUME ~SlowWorkers PROVE Spec => []RefusedMeansNotBooked
<1>1. Init => RefusedMeansNotBooked
    BY DEF Init, TablesInit, RefusedMeansNotBooked
<1>2. TimelyInv /\ ExactlyOnce /\ RefusedMeansNotBooked /\ [Next]_vars => RefusedMeansNotBooked'
    <2>1. ASSUME TimelyInv, ExactlyOnce, RefusedMeansNotBooked, Next PROVE RefusedMeansNotBooked'
        <3> SUFFICES ASSUME NEW m \in Msgs, status'[m] \in {"REJECTED", "FAILED"}
                     PROVE  booked'[m] = 0
            BY DEF RefusedMeansNotBooked
        <3>1. Moves(m)
            BY <2>1, StepMoves
        <3> QED BY <2>1, <3>1
                DEF Moves, Still, Begins, Ends, AsksOn, Strays, OpenStatus, RefusedMeansNotBooked,
                    ExactlyOnce, Settled
    <2>2. ASSUME RefusedMeansNotBooked, UNCHANGED vars PROVE RefusedMeansNotBooked'
        BY <2>2 DEF RefusedMeansNotBooked, vars, tableVars
    <2> QED BY <2>1, <2>2
<1> QED BY <1>1, <1>2, Timely, BooksAtMostOnce, PTL DEF Spec

(* With timely handlers and buttons that exist, a message waits for an     *)
(* answer exactly while its question is open: none hangs without one, and  *)
(* no open question outlives its message (architecture.md:18,              *)
(* confirmations.py:66-76 and 116-126, pipeline.py:246-257, jobs.py:66-76).*)
THEOREM WaitsExactlyWhileAsked ==
    ASSUME ~SlowWorkers, ~StrayTaps
    PROVE  Spec => []WaitsForItsQuestion
<1>1. Init => WaitsForItsQuestion
    BY DEF Init, TablesInit, NoPend, Pending, WaitsForItsQuestion
<1>2. TimelyInv /\ TimelyInv' /\ WaitsForItsQuestion /\ [Next]_vars => WaitsForItsQuestion'
    <2>1. ASSUME TimelyInv, TimelyInv', WaitsForItsQuestion, Next PROVE WaitsForItsQuestion'
        <3> SUFFICES ASSUME NEW m \in Msgs, status'[m] = "AWAITING_CONFIRMATION"
                     PROVE  pend'[m].status = "PENDING"
            BY <2>1 DEF WaitsForItsQuestion, TimelyInv, Awaited, Pending
        <3>1. Moves(m) /\ pend[m] \in PendRow
            BY <2>1, StepMoves DEF TimelyInv, TypeOK, TablesTypeOK
        <3> QED BY <2>1, <3>1
                DEF Moves, Still, Begins, Ends, AsksOn, Strays, WaitsForItsQuestion, Pending, PendRow
    <2>2. ASSUME WaitsForItsQuestion, UNCHANGED vars PROVE WaitsForItsQuestion'
        BY <2>2 DEF WaitsForItsQuestion, Pending, vars, tableVars
    <2> QED BY <2>1, <2>2
<1> QED BY <1>1, <1>2, Timely, PTL DEF Spec

-----------------------------------------------------------------------------
(* What a worker is about to say is what the message's status says.        *)
Told ==
    \A w \in Workers : pc[w] \in {"deliver", "apologise"} =>
        LET o == out[w] IN
        /\ o.msg \in Msgs
        /\ o.reply = "booked" => status[o.msg] = "COMMITTED"
        /\ o.reply = "rejected" => status[o.msg] = "REJECTED"
        /\ o.reply = "failed" => status[o.msg] = "FAILED"

\* Only a worker itself prepares what it says.
LEMMA OthersAreSilent ==
    ASSUME TypeOK, Next, NEW v \in Workers, ~HandlerStep(v), pc'[v] \in {"deliver", "apologise"}
    PROVE  pc[v] = pc'[v] /\ out'[v] = out[v]
<1>0. pc \in [Workers -> Steps] /\ out \in [Workers -> [msg : Msgs \cup {NoMsg}, reply : Replies]]
    BY DEF TypeOK, WorkersTypeOK
<1>1. ASSUME NEW m \in Msgs, Receive(m) \/ UserStep(m) \/ Lapse(m) \/ RipenAlone(m)
      PROVE  pc' = pc /\ out' = out
    BY <1>1 DEF Receive, UserStep, Lapse, RipenAlone, workerVars
<1>2. ASSUME NEW w \in Workers, Take(w) \/ Die(w) PROVE pc[v] = pc'[v] /\ out'[v] = out[v]
    BY <1>0, <1>2 DEF Take, Die, Goto, Rest
<1>3. ASSUME NEW w \in Workers \ {v}, HandlerStep(w) PROVE pc[v] = pc'[v] /\ out'[v] = out[v]
    BY <1>0, <1>3
       DEF HandlerStep, Lock, LockBusy, Transcribe, FailMessage, Route, Parse, Post, Answer,
           WorkerDeliver, Finish, Raise, FailJob, Apologise, Goto, Rest
<1>4. ASSUME NEW stale, NEW old, ReaperRuns(stale, old) PROVE pc' = pc /\ out' = out
    BY <1>4 DEF ReaperRuns, workerVars
<1> QED BY <1>1, <1>2, <1>3, <1>4 DEF Next

LEMMA ToldInductive ==
    ASSUME TimelyInv, Told, Next, Raises \subseteq Handling
    PROVE  Told'
<1> USE DEF TimelyInv
<1> SUFFICES ASSUME NEW v \in Workers, pc'[v] \in {"deliver", "apologise"}
             PROVE  LET o == out'[v] IN
                    /\ o.msg \in Msgs
                    /\ o.reply = "booked" => status'[o.msg] = "COMMITTED"
                    /\ o.reply = "rejected" => status'[o.msg] = "REJECTED"
                    /\ o.reply = "failed" => status'[o.msg] = "FAILED"
    BY DEF Told
<1>0. /\ pc \in [Workers -> Steps] /\ status \in [Msgs -> MsgStatus]
      /\ out \in [Workers -> [msg : Msgs \cup {NoMsg}, reply : Replies]]
      /\ Own(v) \in Msgs \cup {NoMsg}
    BY DEF TypeOK, WorkersTypeOK, TablesTypeOK, JQTypeOK, Own, Msgs, NoMsg
<1>1. CASE ~HandlerStep(v)
    <2>1. out'[v] = out[v] /\ pc'[v] = pc[v]
        BY <1>1, OthersAreSilent
    <2>2. out[v].msg \in Msgs
        BY <2>1 DEF Told
    <2>3. Moves(out[v].msg)
        BY <2>2, StepMoves
    <2>4. status[out[v].msg] \in {"COMMITTED", "REJECTED", "FAILED"}
              => status'[out[v].msg] = status[out[v].msg]
        BY <2>3 DEF Moves, Still, Begins, Ends, AsksOn, Strays, OpenStatus
    <2> QED BY <2>1, <2>2, <2>4 DEF Told
<1>2. CASE HandlerStep(v)
    <2>1. CASE FailMessage(v)
        <3>1. Own(v) \in Msgs
            BY <1>0, <2>1 DEF FailMessage, At, HandsFull
        <3> QED BY <1>0, <2>1, <3>1 DEF FailMessage
    <2>2. CASE Post(v)
        <3>1. Own(v) \in Msgs
            BY <1>0, <2>2 DEF Post, At, HandsFull
        <3>2. out'[v] = [msg |-> Own(v), reply |-> ReplyTo(status'[Own(v)])]
            BY <1>0, <2>2 DEF Post, Goto
        <3> QED BY <3>1, <3>2 DEF ReplyTo
    <2>3. CASE Answer(v)
        <3>1. target[v].msg \in Msgs
            BY <2>3 DEF Answer, At, HandsFull
        <3>2. \/ out'[v] = [msg |-> target[v].msg, reply |-> ReplyTo(status'[target[v].msg])]
              \/ out'[v] = [msg |-> target[v].msg, reply |-> "question"]
            BY <1>0, <2>3 DEF Answer, Goto
        <3> QED BY <3>1, <3>2 DEF ReplyTo
    <2>4. CASE FailJob(v)
        <3>1. Own(v) \in Msgs /\ status[Own(v)] = "PROCESSING"
            BY <2>4, AtWorkHolds DEF FailJob, At, AtWork
        <3>2. status' = [status EXCEPT ![Own(v)] = "FAILED"] /\ out'[v] = [msg |-> Own(v), reply |-> "failed"]
            BY <1>0, <2>4, <3>1 DEF FailJob, Rest, Unhandled
        <3> QED BY <1>0, <3>1, <3>2
    <2>5. ASSUME NEW s \in Steps \ {"deliver", "apologise"}, Goto(v, s) PROVE FALSE
        BY <1>0, <2>5 DEF Goto
    <2>6. ASSUME Rest(v) PROVE FALSE
        BY <1>0, <2>6 DEF Rest
    <2> QED BY <1>2, <2>1, <2>2, <2>3, <2>4, <2>5, <2>6
            DEF HandlerStep, Lock, LockBusy, Transcribe, Route, Parse, WorkerDeliver, Finish, Raise,
                Apologise, Steps, TrySteps
<1> QED BY <1>1, <1>2

(* With timely handlers whose failures fall between the lock and the       *)
(* posting, the chat and the books agree: the reply sent after the commit, *)
(* and the apology for a dead job, say what happened to the entry even if  *)
(* taps, answers and expiries move on before they are sent                 *)
(* (worker.py:44-63, pipeline.py:177-192 and 238-257).                     *)
THEOREM RepliesTellTheBooks ==
    ASSUME ~SlowWorkers, Raises \subseteq Handling
    PROVE  Spec => []RepliesAgree
<1>1. Init => Told
    BY DEF Init, Told
<1>2. TimelyInv /\ Told /\ [Next]_vars => Told'
    <2>1. ASSUME Told, UNCHANGED vars PROVE Told'
        BY <2>1 DEF Told, vars, tableVars, workerVars
    <2> QED BY <2>1, ToldInductive
<1>3. Told /\ ExactlyOnce /\ RefusedMeansNotBooked => RepliesAgree
    BY DEF Told, ExactlyOnce, RefusedMeansNotBooked, RepliesAgree
<1> QED BY <1>1, <1>2, <1>3, Timely, BooksAtMostOnce, RefusedNotBooked, PTL DEF Spec
=============================================================================
