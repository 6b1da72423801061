--------------------------- MODULE TransportProofs ---------------------------
(***************************************************************************)
(* Type correctness of Transport, and its two invariants for any number of  *)
(* updates, simulated messages and workers and whatever is lost.           *)
(***************************************************************************)
EXTENDS Transport, JobQueueProofs

LEMMA Interval ==
    ASSUME NEW c \in Nat, NEW n \in Nat
    PROVE  (c + 1) .. n \subseteq 1 .. n
OBVIOUS

LEMMA FirstOfInterval ==
    ASSUME NEW c \in Nat, NEW n \in Nat, (c + 1) .. n # {}
    PROVE  c + 1 \in (c + 1) .. n
<1>1. PICK x \in (c + 1) .. n : TRUE
    OBVIOUS
<1>2. x \in Int /\ c + 1 <= x /\ x <= n
    BY <1>1
<1> QED BY <1>2

Question == {"none", "buttons", "text"}
Final == {"COMMITTED", "REJECTED", "FAILED"}

\* What is taken or asked about has a row.
Sourced ==
    /\ \A w \in Workers : phase[w] # "over" => slot[w].job \in Jobs
    /\ \A w \in Workers : phase[w] = "begun" => Stored(slot[w].job)
    /\ \A t \in tasks : Stored(t.of)
    /\ \A m \in Jobs : question[m] # "none" => Stored(m)

\* A step books only what is not settled, and settles it; what is settled, it
\* may relabel but not open.
Sound(m) ==
    \/ booked'[m] = booked[m] /\ (message'[m] = message[m] \/ message[m] \notin Final \/ message'[m] \in Final)
    \/ booked'[m] = booked[m] + 1 /\ message[m] \notin Final /\ message'[m] = "COMMITTED"

\* What a handler of any message does to the rows.
Handled ==
    /\ message' \in [Jobs -> Status]
    /\ question' \in [Jobs -> Question]
    /\ booked' \in [Jobs -> Nat]
    /\ \A n \in Jobs : Sound(n) /\ Stored(n)' = Stored(n) /\ (question'[n] # "none" => Stored(n))

LEMMA DecidesHandles ==
    ASSUME TypeOK, Sourced, NEW m \in Jobs,
           NEW others \in [Jobs -> Status], NEW asked \in [Jobs -> Question],
           \A n \in Jobs : others[n] = message[n] \/ (n # m /\ others[n] = "REJECTED" /\ Stored(n)),
           \A n \in Jobs : asked[n] \in {question[n], "none"},
           Decides(m, others, asked)
    PROVE  Handled
<1>1. PICK status \in {"COMMITTED", "AWAITING", "REJECTED"}, how \in Question :
        /\ message' = [others EXCEPT ![m] = status]
        /\ question' \in {asked, [asked EXCEPT ![m] = how]}
        /\ (booked' = [booked EXCEPT ![m] = @ + 1] /\ status = "COMMITTED") \/ booked' = booked
    BY DEF Decides, Question
<1>2. message[m] \in {"PROCESSING", "AWAITING"}
    BY DEF Decides, Decidable
<1>3. message' \in [Jobs -> Status] /\ question' \in [Jobs -> Question]
    BY <1>1 DEF Status
<1>4. booked' \in [Jobs -> Nat]
    BY <1>1 DEF TypeOK
<1>5. ASSUME NEW n \in Jobs PROVE Sound(n)
    BY <1>1, <1>2 DEF Sound, Final, TypeOK
<1>6. ASSUME NEW n \in Jobs PROVE Stored(n)' = Stored(n)
    BY <1>1, <1>2 DEF Stored, TypeOK
<1>7. ASSUME NEW n \in Jobs, question'[n] # "none" PROVE Stored(n)
    BY <1>1, <1>2, <1>7 DEF Sourced, Stored, TypeOK
<1> QED BY <1>3, <1>4, <1>5, <1>6, <1>7 DEF Handled

LEMMA ProcessesHandles ==
    ASSUME TypeOK, Sourced, NEW m \in Jobs, Stored(m), Processes(m)
    PROVE  Handled
<1>t. /\ message \in [Jobs -> Status] /\ question \in [Jobs -> Question] /\ booked \in [Jobs -> Nat]
      /\ Updates \subseteq Jobs
    BY TransportAssumption DEF TypeOK, Question
<1>1. CASE Decides(m, message, question)
    BY <1>1, <1>t, DecidesHandles
<1>2. CASE Refuses(m)
    BY <1>2, <1>t DEF Refuses, Handled, Sound, Final, Stored, Sourced, Status
<1>3. ASSUME NEW other \in Updates, Answers(m, other) PROVE Handled
    <2> DEFINE others == [message EXCEPT ![m] = "REJECTED"]
    <2>1. other \in Jobs /\ others \in [Jobs -> Status] /\ Closed(other) \in [Jobs -> Question] /\ other # m
        BY <1>3, <1>t DEF Closed, Question, Status, Answers
    <2>2. \A n \in Jobs : others[n] = message[n] \/ (n # other /\ others[n] = "REJECTED" /\ Stored(n))
        BY <1>t, <2>1
    <2>3. \A n \in Jobs : Closed(other)[n] \in {question[n], "none"}
        BY <1>t DEF Closed
    <2>4. CASE message' = others /\ UNCHANGED <<question, booked>>
        BY <2>4, <1>t DEF Handled, Sound, Final, Stored, Sourced, Status
    <2>5. CASE Decides(other, others, Closed(other))
        <3> HIDE DEF others
        <3> QED BY <2>1, <2>2, <2>3, <2>5, DecidesHandles
    <2> QED BY <1>3, <2>4, <2>5 DEF Answers
<1> QED BY <1>1, <1>2, <1>3 DEF Processes

LEMMA NothingHandled ==
    ASSUME TypeOK, Sourced, UNCHANGED rows
    PROVE  Handled
BY DEF rows, Handled, Sound, Stored, Sourced, TypeOK, Question

LEMMA BeginHandles ==
    ASSUME TypeOK, Sourced, NEW m \in Jobs, Open(m), Begin(m), UNCHANGED <<question, booked>>
    PROVE  Handled
BY DEF Open, Begin, Handled, Sound, Final, Stored, Sourced, Status, TypeOK, Question

LEMMA TapHandles ==
    ASSUME TypeOK, Sourced, NEW m \in Jobs, Tap(m)
    PROVE  Handled
<1>t. /\ message \in [Jobs -> Status] /\ question \in [Jobs -> Question] /\ booked \in [Jobs -> Nat]
    BY DEF TypeOK, Question
<1>1. CASE Decides(m, message, Closed(m))
    <2>1. Closed(m) \in [Jobs -> Question] /\ \A n \in Jobs : Closed(m)[n] \in {question[n], "none"}
        BY <1>t DEF Closed, Question
    <2> QED BY <1>1, <1>t, <2>1, DecidesHandles
<1>2. CASE /\ message' \in {message, [message EXCEPT ![m] = "REJECTED"]}
           /\ question' = Closed(m) /\ UNCHANGED booked
    <2>1. Stored(m)
        BY DEF Tap, Sourced
    <2> QED BY <1>2, <1>t, <2>1 DEF Closed, Question, Handled, Sound, Final, Stored, Sourced, Status
<1> QED BY <1>1, <1>2 DEF Tap

LEMMA ExpiresHandles ==
    ASSUME TypeOK, Sourced, NEW expired, Expires(expired)
    PROVE  Handled
BY DEF Expires, Handled, Sound, Final, Stored, Sourced, Status, TypeOK, Question

\* A simulated message is in no chat: it is decided, or nothing happens.
LEMMA SimulateHandles ==
    ASSUME TypeOK, Sourced, NEW s \in Simulated, SimulateProcesses(s)
    PROVE  Handled
<1>t. /\ message \in [Jobs -> Status] /\ question \in [Jobs -> Question]
      /\ s \in Jobs /\ s \notin Updates
    BY TransportAssumption DEF TypeOK, Question
<1>1. CASE Open(s) /\ Begin(s) /\ UNCHANGED <<question, booked>>
    BY <1>1, <1>t, BeginHandles
<1>2. CASE Processes(s)
    BY <1>2, <1>t, DecidesHandles DEF Processes, Refuses
<1>3. CASE UNCHANGED rows
    BY <1>3, NothingHandled
<1> QED BY <1>1, <1>2, <1>3 DEF SimulateProcesses

LEMMA TaskHandles ==
    ASSUME TypeOK, Sourced, NEW t \in tasks, RunTask(t)
    PROVE  Handled
<1>1. t.of \in Jobs /\ Stored(t.of)
    BY TransportAssumption DEF TypeOK, Sourced
<1>2. CASE Open(t.of) /\ Begin(t.of) /\ UNCHANGED <<question, booked>>
    BY <1>1, <1>2, BeginHandles
<1>3. CASE Processes(t.of)
    BY <1>1, <1>3, ProcessesHandles
<1>4. CASE UNCHANGED rows
    BY <1>4, NothingHandled
<1> QED BY <1>2, <1>3, <1>4 DEF RunTask

LEMMA WebhookTypes ==
    ASSUME TypeOK, NEW u \in Updates, Webhook(u)
    PROVE  /\ JQTypeOK'
           /\ tasks' \subseteq [of : Updates, begun : BOOLEAN]
           /\ message' \in [Jobs -> Status]
<1> USE TransportAssumption DEF TypeOK, Status
<1>1. u \in Jobs
    OBVIOUS
<1>2. JQTypeOK'
    BY <1>1, TypeInductive DEF Webhook, ClaimMessage, JQNext
<1>3. tasks' \in {tasks, tasks \cup {[of |-> u, begun |-> FALSE]}}
    BY DEF Webhook
<1>4. tasks' \subseteq [of : Updates, begun : BOOLEAN]
    <2>1. [of |-> u, begun |-> FALSE] \in [of : Updates, begun : BOOLEAN]
        OBVIOUS
    <2>2. tasks \cup {[of |-> u, begun |-> FALSE]} \subseteq [of : Updates, begun : BOOLEAN]
        BY <2>1, Zenon
    <2> QED BY <1>3, <2>2
<1>5. message' \in [Jobs -> Status]
    BY <1>1 DEF Webhook, ClaimMessage
<1> QED
    BY <1>2, <1>4, <1>5

LEMMA TransportTypeInductive == TypeOK /\ Sourced /\ [Next]_vars => TypeOK'
<1> SUFFICES ASSUME TypeOK, Sourced, [Next]_vars PROVE TypeOK'
    OBVIOUS
<1> USE TransportAssumption DEF net, api, rows
<1>1. ASSUME Poll PROVE TypeOK'
    <2>1. JQTypeOK'
        BY <1>1 DEF Poll, TypeOK, JQTypeOK, jqVars
    <2>2. confirmed' \in Nat
        BY <1>1 DEF Poll, TypeOK
    <2>3. batch' \subseteq Updates
        <3>1. ASSUME NEW last \in Updates, batch' = (confirmed' + 1) .. last PROVE batch' \subseteq Updates
            <4>1. last \in Nat /\ 1 .. last \subseteq Updates
                BY JobsAssumption
            <4>2. batch' \subseteq 1 .. last
                BY <2>2, <3>1, <4>1, Interval
            <4>3. QED BY <4>1, <4>2
        <3> QED BY <1>1, <3>1 DEF Poll, TypeOK
    <2> QED BY <1>1, <2>1, <2>2, <2>3 DEF Poll, Lose, TypeOK
<1>2. ASSUME NEW u \in Updates, Forward(u) PROVE TypeOK'
    <2>1. /\ JQTypeOK'
          /\ tasks' \subseteq [of : Updates, begun : BOOLEAN]
          /\ message' \in [Jobs -> Status]
        <3>1. CASE Webhook(u)
            BY <3>1, WebhookTypes
        <3>2. CASE UNCHANGED <<jqVars, message, tasks>>
            BY <3>2 DEF TypeOK, JQTypeOK, jqVars
        <3> QED BY <1>2, <3>1, <3>2 DEF Forward
    <2>2. u \in Nat
        BY JobsAssumption
    <2>3. offset' \in {offset, u + 1} /\ losses' \in {losses, losses + 1} /\ batch' \in {{}, batch \ {u}}
        BY <1>2 DEF Forward, Lose
    <2>4. batch' \subseteq Updates
        BY <2>3, Zenon DEF TypeOK
    <2>5. offset' \in Nat /\ losses' \in Nat
        BY <2>2, <2>3 DEF TypeOK
    <2> QED BY <1>2, <2>1, <2>4, <2>5 DEF Forward, TypeOK
<1>3. ASSUME RestartPoller PROVE TypeOK'
    BY <1>3 DEF RestartPoller, Lose, TypeOK, JQTypeOK, jqVars
<1>4. ASSUME RestartApi PROVE TypeOK'
    BY <1>4 DEF RestartApi, Lose, TypeOK, JQTypeOK, jqVars
<1>5. ASSUME Reaper PROVE TypeOK'
    <2>1. JQTypeOK'
        BY <1>5, TypeInductive DEF Reaper, JQNext, TypeOK, Running, Stuck
    <2>2. Handled
        BY <1>5, ExpiresHandles DEF Reaper
    <2> QED BY <1>5, <2>1, <2>2 DEF Reaper, Handled, Question, TypeOK
<1>6. ASSUME NEW w \in Workers, WorkerClaims(w) PROVE TypeOK'
    <2>1. JQTypeOK'
        BY <1>6, TypeInductive DEF WorkerClaims, WorkerStep, JQNext, TypeOK
    <2> QED BY <1>6, <2>1 DEF WorkerClaims, TypeOK
<1>7. ASSUME NEW w \in Workers, WorkerBegins(w) PROVE TypeOK'
    BY <1>7 DEF WorkerBegins, Begin, TypeOK, Status, JQTypeOK, jqVars
<1>8. ASSUME NEW w \in Workers, WorkerProcesses(w) PROVE TypeOK'
    <2>1. slot[w].job \in Jobs /\ Stored(slot[w].job)
        BY <1>8 DEF WorkerProcesses, Sourced
    <2>2. Handled
        BY <1>8, <2>1, ProcessesHandles, NothingHandled DEF WorkerProcesses
    <2>3. losses' \in Nat
        BY <1>8 DEF WorkerProcesses, TooLate, Lose, TypeOK
    <2> QED BY <1>8, <2>2, <2>3 DEF WorkerProcesses, Handled, Question, TypeOK, JQTypeOK, jqVars
<1>9. ASSUME NEW w \in Workers, WorkerEnds(w) PROVE TypeOK'
    <2>1. JQTypeOK'
        BY <1>9, TypeInductive DEF WorkerEnds, WorkerStep, JQNext, TypeOK
    <2> QED BY <1>9, <2>1 DEF WorkerEnds, TypeOK
<1>10. ASSUME NEW w \in Workers, WorkerRaises(w) PROVE TypeOK'
    <2>1. JQTypeOK'
        BY <1>10, TypeInductive DEF WorkerRaises, WorkerStep, JQNext, TypeOK
    <2> QED BY <1>10, <2>1 DEF WorkerRaises, Status, TypeOK
<1>11. ASSUME NEW w \in Workers, WorkerCrashes(w) PROVE TypeOK'
    <2>1. JQTypeOK'
        BY <1>11, TypeInductive DEF WorkerCrashes, JQNext, TypeOK
    <2> QED BY <1>11, <2>1 DEF WorkerCrashes, TypeOK
<1>12. ASSUME NEW t \in tasks, RunTask(t) PROVE TypeOK'
    <2>1. t \in [of : Updates, begun : BOOLEAN] /\ t.of \in Jobs
        BY <1>12 DEF RunTask, TypeOK
    <2>2. tasks' \in {tasks \ {t}, (tasks \ {t}) \cup {[t EXCEPT !.begun = TRUE]}}
        BY <1>12 DEF RunTask
    <2>3. tasks' \subseteq [of : Updates, begun : BOOLEAN]
        <3>1. [t EXCEPT !.begun = TRUE] \in [of : Updates, begun : BOOLEAN]
            BY <2>1
        <3>2. /\ tasks \ {t} \subseteq [of : Updates, begun : BOOLEAN]
              /\ (tasks \ {t}) \cup {[t EXCEPT !.begun = TRUE]} \subseteq [of : Updates, begun : BOOLEAN]
            BY <3>1, Zenon DEF TypeOK
        <3> QED BY <2>2, <3>2
    <2>4. Handled
        BY <1>12, TaskHandles
    <2> QED BY <1>12, <2>3, <2>4 DEF RunTask, Handled, Question, TypeOK, JQTypeOK, jqVars
<1>13. ASSUME NEW s \in Simulated, SimulateClaims(s) PROVE TypeOK'
    <2>1. JQTypeOK'
        BY <1>13, TypeInductive DEF SimulateClaims, ClaimMessage, JQNext, TypeOK
    <2> QED BY <1>13, <2>1 DEF SimulateClaims, ClaimMessage, Status, TypeOK
<1>14. ASSUME NEW s \in Simulated, SimulateMarks(s) PROVE TypeOK'
    BY <1>14 DEF SimulateMarks, TypeOK, JQTypeOK, JobRow, JobStatus
<1>15. ASSUME NEW s \in Simulated, SimulateProcesses(s) PROVE TypeOK'
    <2>1. Handled
        BY <1>15, SimulateHandles
    <2> QED BY <1>15, <2>1 DEF SimulateProcesses, Handled, Question, TypeOK, JQTypeOK, jqVars
<1>16. ASSUME NEW j \in Jobs, Backoff(j) PROVE TypeOK'
    <2>1. JQTypeOK'
        BY <1>16, TypeInductive DEF Backoff, JQNext, TypeOK
    <2> QED BY <1>16, <2>1 DEF Backoff, TypeOK
<1>17. ASSUME NEW j \in Jobs, Tap(j) PROVE TypeOK'
    <2>1. Handled
        BY <1>17, TapHandles
    <2> QED BY <1>17, <2>1 DEF Tap, Handled, Question, TypeOK, JQTypeOK, jqVars
<1>18. CASE UNCHANGED vars
    BY <1>18 DEF vars, TypeOK, JQTypeOK, jqVars
<1> QED
    BY <1>1, <1>2, <1>3, <1>4, <1>5, <1>6, <1>7, <1>8, <1>9, <1>10, <1>11, <1>12, <1>13, <1>14, <1>15,
       <1>16, <1>17, <1>18 DEF Next

\* Rows stay, and threads, tasks and questions come from rows.
LEMMA SourcedKept ==
    ASSUME TypeOK, Sourced,
           \A n \in Jobs : Stored(n) => Stored(n)',
           \A n \in Jobs : question'[n] # "none" => Stored(n),
           \A t \in tasks' :
               \/ \E u \in tasks : t.of = u.of
               \/ t.of \in Jobs /\ Stored(t.of)',
           \A w \in Workers :
               \/ phase'[w] = "over"
               \/ slot'[w] = slot[w] /\ phase'[w] = phase[w]
               \/ slot'[w].job \in Jobs /\ (phase'[w] = "begun" => Stored(slot'[w].job))
    PROVE  Sourced'
<1>1. ASSUME NEW t \in tasks' PROVE Stored(t.of)'
    <2>1. \A u \in tasks : u.of \in Jobs /\ Stored(u.of)
        BY TransportAssumption DEF TypeOK, Sourced
    <2> QED BY <2>1
<1>2. ASSUME NEW w \in Workers, phase'[w] # "over" PROVE slot'[w].job \in Jobs
    BY <1>2 DEF Sourced
<1>3. ASSUME NEW w \in Workers, phase'[w] = "begun" PROVE Stored(slot[w].job)'
    <2>1. slot'[w].job \in Jobs /\ Stored(slot'[w].job)
        BY <1>3 DEF Sourced
    <2> QED BY <2>1 DEF Stored
<1> QED BY <1>1, <1>2, <1>3 DEF Sourced

LEMMA ClaimStores ==
    ASSUME TypeOK, NEW m \in Jobs, ClaimMessage(m)
    PROVE  Stored(m)' /\ \A n \in Jobs : Stored(n) => Stored(n)'
BY DEF ClaimMessage, Stored, TypeOK, Status

LEMMA SourcedInductive == TypeOK /\ Sourced /\ [Next]_vars => Sourced'
<1> SUFFICES ASSUME TypeOK, Sourced, [Next]_vars PROVE Sourced'
    OBVIOUS
<1> USE DEF net, api, rows, jqVars
<1>t. Updates \subseteq Jobs /\ Simulated \subseteq Jobs /\ \A n \in Jobs : question[n] # "none" => Stored(n)
    BY TransportAssumption DEF Sourced
<1>h. ASSUME Handled PROVE /\ \A n \in Jobs : Stored(n) => Stored(n)'
                           /\ \A n \in Jobs : question'[n] # "none" => Stored(n)
    BY <1>h DEF Handled
<1>1. CASE Poll \/ RestartPoller \/ RestartApi
    BY <1>1, <1>t, SourcedKept DEF Poll, RestartPoller, RestartApi, Stored
<1>2. CASE Reaper
    <2>1. Handled
        BY <1>2, ExpiresHandles DEF Reaper
    <2> QED BY <1>2, <1>h, <2>1, SourcedKept DEF Reaper, Reap
<1>3. ASSUME NEW u \in Updates, Forward(u) PROVE Sourced'
    <2>1. UNCHANGED <<slot, phase, question>>
        BY <1>3 DEF Forward, Webhook, ClaimMessage, Enqueue
    <2>2. CASE Webhook(u)
        <3>1. Stored(u)' /\ \A n \in Jobs : Stored(n) => Stored(n)'
            BY <1>t, <2>2, ClaimStores DEF Webhook
        <3>2. \A t \in tasks' : t \in tasks \/ t.of = u
            BY <2>2 DEF Webhook
        <3> QED BY <1>t, <2>1, <3>1, <3>2, SourcedKept
    <2>3. CASE UNCHANGED <<message, tasks>>
        BY <1>t, <2>1, <2>3, SourcedKept DEF Stored
    <2> QED BY <1>3, <2>2, <2>3 DEF Forward
<1>4. ASSUME NEW w \in Workers, WorkerClaims(w) PROVE Sourced'
    <2>1. /\ slot'[w].job \in Jobs /\ phase'[w] = "claimed"
          /\ \A v \in Workers \ {w} : slot'[v] = slot[v] /\ phase'[v] = phase[v]
        BY <1>4 DEF WorkerClaims, Claim, Claimable, TypeOK, JQTypeOK
    <2> QED BY <1>4, <1>t, <2>1, SourcedKept DEF WorkerClaims, Stored
<1>5. ASSUME NEW w \in Workers, WorkerBegins(w) PROVE Sourced'
    <2>1. slot[w].job \in Jobs /\ slot' = slot /\ \A v \in Workers \ {w} : phase'[v] = phase[v]
        BY <1>5 DEF WorkerBegins, Sourced, TypeOK
    <2>2. CASE Open(slot[w].job) /\ Begin(slot[w].job) /\ UNCHANGED <<question, booked>>
        <3>1. Handled /\ Stored(slot[w].job)
            BY <2>1, <2>2, BeginHandles DEF Open, Stored
        <3> QED BY <1>5, <1>h, <2>1, <3>1, SourcedKept DEF WorkerBegins
    <2>3. CASE UNCHANGED rows /\ phase' = [phase EXCEPT ![w] = "over"]
        BY <1>5, <1>t, <2>1, <2>3, SourcedKept DEF WorkerBegins, Stored, TypeOK
    <2> QED BY <1>5, <2>2, <2>3 DEF WorkerBegins
<1>6. ASSUME NEW w \in Workers, WorkerProcesses(w) PROVE Sourced'
    <2>1. slot[w].job \in Jobs /\ Stored(slot[w].job)
        BY <1>6 DEF WorkerProcesses, Sourced
    <2>2. Handled
        BY <1>6, <2>1, ProcessesHandles, NothingHandled DEF WorkerProcesses
    <2>3. phase' = [phase EXCEPT ![w] = "over"] /\ phase \in [Workers -> {"claimed", "begun", "over"}]
        BY <1>6 DEF WorkerProcesses, TypeOK
    <2> QED BY <1>6, <1>h, <2>2, <2>3, SourcedKept DEF WorkerProcesses
<1>7. ASSUME NEW w \in Workers, WorkerEnds(w) PROVE Sourced'
    <2>1. \A v \in Workers : phase'[v] = phase[v] /\ (v = w => phase[v] = "over") /\ (v # w => slot'[v] = slot[v])
        BY <1>7 DEF WorkerEnds, Complete, TypeOK, JQTypeOK
    <2> QED BY <1>7, <1>t, <2>1, SourcedKept DEF WorkerEnds, Stored
<1>8. ASSUME NEW w \in Workers, WorkerRaises(w) PROVE Sourced'
    <2>1. \A v \in Workers : (v = w => phase'[v] = "over") /\ (v # w => slot'[v] = slot[v] /\ phase'[v] = phase[v])
        BY <1>8 DEF WorkerRaises, Fail, TypeOK, JQTypeOK
    <2>2. \A n \in Jobs : Stored(n) => Stored(n)'
        BY <1>8 DEF WorkerRaises, Stored, TypeOK
    <2> QED BY <1>8, <1>t, <2>1, <2>2, SourcedKept DEF WorkerRaises
<1>9. ASSUME NEW w \in Workers, WorkerCrashes(w) PROVE Sourced'
    <2>1. \A v \in Workers : (v = w => phase'[v] = "over") /\ (v # w => slot'[v] = slot[v] /\ phase'[v] = phase[v])
        BY <1>9 DEF WorkerCrashes, Crash, TypeOK, JQTypeOK
    <2> QED BY <1>9, <1>t, <2>1, SourcedKept DEF WorkerCrashes, Stored
<1>10. ASSUME NEW t \in tasks, RunTask(t) PROVE Sourced'
    <2>1. Handled
        BY <1>10, TaskHandles
    <2>2. \A u \in tasks' : u \in tasks \/ u = [t EXCEPT !.begun = TRUE]
        BY <1>10 DEF RunTask
    <2>3. [t EXCEPT !.begun = TRUE].of = t.of
        BY DEF TypeOK
    <2>4. \A u \in tasks' : \E v \in tasks : u.of = v.of
        BY <2>2, <2>3
    <2> QED BY <1>10, <1>h, <2>1, <2>4, SourcedKept DEF RunTask
<1>11. ASSUME NEW s \in Simulated, SimulateClaims(s) PROVE Sourced'
    <2>1. \A n \in Jobs : Stored(n) => Stored(n)'
        BY <1>11, <1>t, ClaimStores DEF SimulateClaims
    <2>2. UNCHANGED slot
        BY <1>11 DEF SimulateClaims, ClaimMessage, Enqueue
    <2> QED BY <1>11, <1>t, <2>1, <2>2, SourcedKept DEF SimulateClaims
<1>12. ASSUME NEW s \in Simulated, SimulateMarks(s) PROVE Sourced'
    BY <1>12, <1>t, SourcedKept DEF SimulateMarks, Stored
<1>13. ASSUME NEW s \in Simulated, SimulateProcesses(s) PROVE Sourced'
    <2>1. Handled
        BY <1>13, SimulateHandles
    <2> QED BY <1>13, <1>h, <2>1, SourcedKept DEF SimulateProcesses
<1>14. ASSUME NEW j \in Jobs, Backoff(j) PROVE Sourced'
    BY <1>14, <1>t, SourcedKept DEF Backoff, Ripen, Stored
<1>15. ASSUME NEW j \in Jobs, Tap(j) PROVE Sourced'
    <2>1. Handled
        BY <1>15, TapHandles
    <2> QED BY <1>15, <1>h, <2>1, SourcedKept DEF Tap
<1>16. CASE UNCHANGED vars
    BY <1>16, <1>t, SourcedKept DEF vars, Stored
<1> QED
    BY <1>1, <1>2, <1>3, <1>4, <1>5, <1>6, <1>7, <1>8, <1>9, <1>10, <1>11, <1>12, <1>13, <1>14, <1>15,
       <1>16 DEF Next

LEMMA Sources == Init => TypeOK /\ Sourced
<1>1. Init => TypeOK
    BY TransportAssumption, JobsAssumption
    DEF Init, TypeOK, Status, JQInit, JQTypeOK, JobRow, JobStatus, Idle
<1>2. Init => Sourced
    BY DEF Init, Sourced
<1> QED BY <1>1, <1>2

(* architecture.md:18: the rows, processes and counters of the transport   *)
(* have the values TypeOK says, for any traffic.                           *)
THEOREM TransportTypeCorrect == Spec => []TypeOK
BY Sources, TransportTypeInductive, SourcedInductive, PTL DEF Spec

-----------------------------------------------------------------------------
\* Any step is sound for any row.
LEMMA SoundStep == TypeOK /\ Sourced /\ [Next]_vars => \A m \in Jobs : Sound(m)
<1> SUFFICES ASSUME TypeOK, Sourced, [Next]_vars, NEW m \in Jobs PROVE Sound(m)
    OBVIOUS
<1> USE DEF net, api, rows
<1>h. Handled => Sound(m)
    BY DEF Handled
<1>1. CASE UNCHANGED <<message, booked>>
    BY <1>1 DEF Sound
<1>2. ASSUME NEW n \in Jobs, ClaimMessage(n), UNCHANGED booked PROVE Sound(m)
    BY <1>2 DEF ClaimMessage, Sound, Final, TypeOK
<1>3. CASE Poll \/ RestartPoller \/ RestartApi
    BY <1>1, <1>3 DEF Poll, RestartPoller, RestartApi
<1>4. CASE Reaper
    BY <1>h, <1>4, ExpiresHandles DEF Reaper
<1>5. ASSUME NEW u \in Updates, Forward(u) PROVE Sound(m)
    BY <1>1, <1>2, <1>5, TransportAssumption DEF Forward, Webhook
<1>6. ASSUME NEW w \in Workers, WorkerClaims(w) \/ WorkerEnds(w) \/ WorkerCrashes(w) PROVE Sound(m)
    BY <1>1, <1>6 DEF WorkerClaims, WorkerEnds, WorkerCrashes
<1>7. ASSUME NEW w \in Workers, WorkerBegins(w) PROVE Sound(m)
    BY <1>7 DEF WorkerBegins, Begin, Open, Sound, Final, TypeOK
<1>8. ASSUME NEW w \in Workers, WorkerProcesses(w) PROVE Sound(m)
    <2>1. slot[w].job \in Jobs /\ Stored(slot[w].job)
        BY <1>8 DEF WorkerProcesses, Sourced
    <2> QED BY <1>h, <1>8, <2>1, ProcessesHandles, NothingHandled DEF WorkerProcesses
<1>9. ASSUME NEW w \in Workers, WorkerRaises(w) PROVE Sound(m)
    BY <1>9 DEF WorkerRaises, Open, Sound, Final, TypeOK
<1>10. ASSUME NEW t \in tasks, RunTask(t) PROVE Sound(m)
    BY <1>h, <1>10, TaskHandles
<1>11. ASSUME NEW s \in Simulated, SimulateClaims(s) \/ SimulateMarks(s) \/ SimulateProcesses(s) PROVE Sound(m)
    BY <1>h, <1>1, <1>2, <1>11, SimulateHandles, TransportAssumption DEF SimulateClaims, SimulateMarks
<1>12. ASSUME NEW j \in Jobs, Backoff(j) \/ Tap(j) PROVE Sound(m)
    BY <1>h, <1>1, <1>12, TapHandles DEF Backoff
<1>13. CASE UNCHANGED vars
    BY <1>1, <1>13 DEF vars
<1> QED
    BY <1>3, <1>4, <1>5, <1>6, <1>7, <1>8, <1>9, <1>10, <1>11, <1>12, <1>13 DEF Next

LEMMA BookedOnceInductive == TypeOK /\ Sourced /\ BookedOnce /\ [Next]_vars => BookedOnce'
<1> SUFFICES ASSUME TypeOK, Sourced, BookedOnce, [Next]_vars, NEW m \in Jobs
             PROVE  booked'[m] <= 1 /\ (booked'[m] = 1 => message'[m] \in Final)
    BY DEF BookedOnce, Final
<1>1. Sound(m)
    BY SoundStep
<1>2. booked[m] \in Nat /\ booked[m] <= 1 /\ (booked[m] = 1 => message[m] \in Final)
    BY DEF TypeOK, BookedOnce, Final
<1>3. "COMMITTED" \in Final
    BY DEF Final
<1> QED BY <1>1, <1>2, <1>3 DEF Sound

(* architecture.md:8-21: for any number of deliveries, workers, inline      *)
(* tasks, simulate requests, answers, taps, reaps and restarts, and with   *)
(* handlers that raise anywhere or write over a status they did not look   *)
(* at, a message is booked once at most: what books looks again at the     *)
(* status under the row lock (pipeline.py:199), and nothing that writes    *)
(* without looking writes a status that it would accept.                   *)
THEOREM BooksOnce == Spec => []BookedOnce
<1>1. Init => BookedOnce
    BY DEF Init, BookedOnce
<1> QED
    BY <1>1, Sources, TransportTypeInductive, SourcedInductive, BookedOnceInductive, PTL DEF Spec

-----------------------------------------------------------------------------
\* Behind the poller every message has its row: below what Telegram was told,
\* below the offset and before the rest of a batch, and a batch has no gaps.
Behind(m) ==
    \/ m <= confirmed
    \/ m < offset
    \/ batch # {} /\ \A v \in batch : m < v

Kept ==
    /\ \A m \in Messages : Behind(m) => Stored(m)
    /\ \A v, w \in batch : \A x \in Updates : v <= x /\ x <= w => x \in batch
    /\ \A m, n \in Messages : m < n /\ Stored(n) => Stored(m)

\* A step that stores no update and is neither Telegram's nor the poller's.
Elsewhere == UNCHANGED net /\ \A m \in Updates : Stored(m)' = Stored(m)

LEMMA KeptElsewhere ==
    ASSUME Kept, Elsewhere
    PROVE  Kept'
<1>1. /\ UNCHANGED <<kind, confirmed, offset, batch>>
      /\ Messages' = Messages /\ Messages \subseteq Updates
    BY DEF Elsewhere, net, Messages
<1>2. \A m \in Messages : Stored(m)' = Stored(m)
    BY <1>1 DEF Elsewhere
<1>3. (\A m \in Messages : Behind(m) => Stored(m))'
    BY <1>1, <1>2 DEF Kept, Behind
<1>4. (\A m, n \in Messages : m < n /\ Stored(n) => Stored(m))'
    BY <1>1, <1>2 DEF Kept
<1> QED BY <1>1, <1>3, <1>4 DEF Kept

LEMMA HandlingStoresNothing ==
    ASSUME Kept, UNCHANGED net, Handled
    PROVE  Kept'
<1>1. Elsewhere
    BY TransportAssumption DEF Elsewhere, Handled
<1> QED BY <1>1, KeptElsewhere

LEMMA UntouchedStoresNothing ==
    ASSUME Kept, UNCHANGED net, UNCHANGED message
    PROVE  Kept'
<1>1. Elsewhere
    BY DEF Elsewhere, Stored
<1> QED BY <1>1, KeptElsewhere

LEMMA KeptInductive == TypeOK /\ Sourced /\ Kept /\ [Next]_vars => Kept'
<1> SUFFICES ASSUME TypeOK, Sourced, Kept, [Next]_vars PROVE Kept'
    OBVIOUS
<1>t. /\ Updates \subseteq Jobs /\ Updates \subseteq Nat
      /\ Messages \subseteq Updates /\ (UNCHANGED kind => Messages' = Messages)
      /\ confirmed \in Nat /\ offset \in Nat /\ batch \subseteq Updates
    BY TransportAssumption, JobsAssumption DEF Messages, TypeOK
<1>1. ASSUME Poll PROVE Kept'
    <2>1. /\ UNCHANGED <<kind, offset, message>> /\ batch = {}
          /\ confirmed' = IF offset = 0 THEN confirmed ELSE offset - 1
          /\ batch' = {} \/ \E last \in Updates : batch' = (confirmed' + 1) .. last
        BY <1>1 DEF Poll, rows
    <2>2. confirmed' \in Nat /\ Messages' = Messages
        BY <1>t, <2>1
    <2>3. ASSUME NEW m \in Messages, Behind(m)' PROVE Behind(m)
        <3>1. m \in Nat
            BY <1>t
        <3>2. CASE m <= confirmed' \/ m < offset
            BY <1>t, <2>1, <3>1, <3>2 DEF Behind
        <3>3. CASE batch' # {} /\ \A v \in batch' : m < v
            <4>1. PICK last \in Updates : batch' = (confirmed' + 1) .. last
                BY <2>1, <3>3
            <4>2. confirmed' + 1 \in batch'
                BY <1>t, <2>2, <3>3, <4>1, FirstOfInterval
            <4>3. m <= confirmed'
                BY <2>2, <3>1, <3>3, <4>2
            <4> QED BY <3>2, <4>3
        <3> QED BY <2>1, <2>3, <3>2, <3>3 DEF Behind
    <2>4. (\A m \in Messages : Behind(m) => Stored(m))'
        BY <2>1, <2>2, <2>3 DEF Kept, Stored
    <2>5. \A v, w \in batch' : \A x \in Updates : v <= x /\ x <= w => x \in batch'
        BY <1>t, <2>1, <2>2
    <2>6. (\A m, n \in Messages : m < n /\ Stored(n) => Stored(m))'
        BY <2>1, <2>2 DEF Kept, Stored
    <2> QED BY <2>4, <2>5, <2>6 DEF Kept
<1>2. ASSUME NEW u \in Updates, Forward(u) PROVE Kept'
    <2>1. /\ u \in batch /\ \A v \in batch : u <= v
          /\ UNCHANGED <<kind, confirmed>> /\ Messages' = Messages
        BY <1>2, <1>t DEF Forward, IsNext
    <2>2. \A m \in Messages : m < u => Stored(m)
        <3>1. ASSUME NEW m \in Messages, m < u PROVE Behind(m)
            <4>1. \A v \in batch : m < v
                BY <1>t, <2>1, <3>1
            <4> QED BY <2>1, <4>1 DEF Behind
        <3> QED BY <3>1 DEF Kept
    <2>3. \A m \in Updates : Stored(m) => Stored(m)'
        BY <1>t, <1>2 DEF Forward, Webhook, ClaimMessage, Stored, TypeOK
    <2>4. \A m \in Updates : Stored(m)' => Stored(m) \/ m = u
        BY <1>t, <1>2 DEF Forward, Webhook, ClaimMessage, Stored, TypeOK
    <2>5. (\A m, n \in Messages : m < n /\ Stored(n) => Stored(m))'
        <3>1. ASSUME NEW m \in Messages, NEW n \in Messages, m < n, Stored(n)' PROVE Stored(m)
            BY <1>t, <2>2, <2>4, <3>1 DEF Kept
        <3> QED BY <1>t, <2>1, <2>3, <3>1
    <2>6. CASE batch' = {} /\ UNCHANGED offset
        <3>1. \A m \in Messages : Behind(m)' => Behind(m)
            BY <2>1, <2>6 DEF Behind
        <3>2. (\A m \in Messages : Behind(m) => Stored(m))'
            BY <1>t, <2>1, <2>3, <3>1 DEF Kept
        <3> QED BY <2>5, <2>6, <3>2 DEF Kept
    <2>7. CASE Webhook(u) /\ offset' = u + 1 /\ batch' = batch \ {u}
        <3>1. Stored(u)'
            BY <1>t, <2>7 DEF Webhook, ClaimMessage, Stored, TypeOK
        <3>2. ASSUME NEW m \in Messages, Behind(m)' PROVE Stored(m)'
            <4>0. m \in Nat /\ u \in Nat /\ m \in Updates
                BY <1>t
            <4>1. CASE m <= confirmed
                BY <4>0, <4>1, <2>3 DEF Kept, Behind
            <4>2. CASE m <= u
                BY <4>0, <4>2, <3>1, <2>2, <2>3
            <4>3. CASE batch' # {} /\ (\A v \in batch' : m < v) /\ u < m
                <5>1. PICK w \in batch : w \in batch' /\ m < w
                    BY <2>7, <4>3
                <5>2. w \in Nat
                    BY <1>t, <5>1
                <5>3. m \in batch
                    BY <2>1, <4>0, <4>3, <5>1, <5>2 DEF Kept
                <5>4. m \in batch'
                    BY <2>7, <4>0, <4>3, <5>3
                <5> QED BY <4>0, <4>3, <5>4
            <4>4. \/ m <= confirmed \/ m < u + 1
                  \/ batch' # {} /\ \A v \in batch' : m < v
                BY <2>1, <2>7, <3>2 DEF Behind
            <4> QED BY <4>0, <4>1, <4>2, <4>3, <4>4
        <3>3. \A v, w \in batch' : \A x \in Updates : v <= x /\ x <= w => x \in batch'
            <4>1. ASSUME NEW v \in batch', NEW w \in batch', NEW x \in Updates, v <= x, x <= w PROVE x \in batch'
                <5>1. x \in batch /\ v # u /\ u <= v /\ v \in Nat /\ u \in Nat /\ x \in Nat
                    BY <1>t, <2>1, <2>7, <4>1 DEF Kept
                <5> QED BY <2>7, <4>1, <5>1
            <4> QED BY <4>1
        <3>4. (\A m \in Messages : Behind(m) => Stored(m))'
            BY <2>1, <3>2
        <3> QED BY <2>5, <3>3, <3>4 DEF Kept
    <2> QED BY <1>2, <2>6, <2>7 DEF Forward
<1>3. ASSUME RestartPoller PROVE Kept'
    <2>1. /\ UNCHANGED <<kind, confirmed, message>> /\ offset' = 0 /\ batch' = {} /\ Messages' = Messages
        BY <1>3, <1>t DEF RestartPoller, rows
    <2>2. \A m \in Messages : Behind(m)' => Behind(m)
        BY <1>t, <2>1 DEF Behind
    <2>3. (\A m \in Messages : Behind(m) => Stored(m))'
        BY <2>1, <2>2 DEF Kept, Stored
    <2>4. (\A m, n \in Messages : m < n /\ Stored(n) => Stored(m))'
        BY <2>1 DEF Kept, Stored
    <2> QED BY <2>1, <2>3, <2>4 DEF Kept
<1>4. CASE RestartApi
    BY <1>4, UntouchedStoresNothing DEF RestartApi, rows
<1>5. CASE Reaper
    BY <1>5, ExpiresHandles, HandlingStoresNothing DEF Reaper
<1>6. ASSUME NEW w \in Workers, WorkerClaims(w) \/ WorkerEnds(w) \/ WorkerCrashes(w) PROVE Kept'
    BY <1>6, UntouchedStoresNothing DEF WorkerClaims, WorkerEnds, WorkerCrashes, rows
<1>7. ASSUME NEW w \in Workers, WorkerBegins(w) PROVE Kept'
    <2>1. slot[w].job \in Jobs
        BY <1>7 DEF WorkerBegins, Sourced
    <2>2. Handled \/ UNCHANGED message
        BY <1>7, <2>1, BeginHandles DEF WorkerBegins
    <2> QED BY <1>7, <2>2, HandlingStoresNothing, UntouchedStoresNothing DEF WorkerBegins
<1>8. ASSUME NEW w \in Workers, WorkerProcesses(w) PROVE Kept'
    <2>1. slot[w].job \in Jobs /\ Stored(slot[w].job)
        BY <1>8 DEF WorkerProcesses, Sourced
    <2>2. Handled
        BY <1>8, <2>1, ProcessesHandles, NothingHandled DEF WorkerProcesses
    <2> QED BY <1>8, <2>2, HandlingStoresNothing DEF WorkerProcesses
<1>9. ASSUME NEW w \in Workers, WorkerRaises(w) PROVE Kept'
    <2>1. \A m \in Updates : Stored(m)' = Stored(m)
        BY <1>9, <1>t DEF WorkerRaises, Open, Stored, TypeOK
    <2> QED BY <1>9, <2>1, KeptElsewhere DEF WorkerRaises, Elsewhere
<1>10. ASSUME NEW t \in tasks, RunTask(t) PROVE Kept'
    BY <1>10, TaskHandles, HandlingStoresNothing DEF RunTask
<1>11. ASSUME NEW s \in Simulated, SimulateClaims(s) PROVE Kept'
    <2>1. \A m \in Updates : Stored(m)' = Stored(m)
        BY <1>11, TransportAssumption DEF SimulateClaims, ClaimMessage, Stored, TypeOK
    <2> QED BY <1>11, <2>1, KeptElsewhere DEF SimulateClaims, Elsewhere
<1>12. ASSUME NEW s \in Simulated, SimulateMarks(s) PROVE Kept'
    BY <1>12, UntouchedStoresNothing DEF SimulateMarks, rows
<1>13. ASSUME NEW s \in Simulated, SimulateProcesses(s) PROVE Kept'
    BY <1>13, SimulateHandles, HandlingStoresNothing DEF SimulateProcesses
<1>14. ASSUME NEW j \in Jobs, Backoff(j) PROVE Kept'
    BY <1>14, UntouchedStoresNothing DEF Backoff, rows
<1>15. ASSUME NEW j \in Jobs, Tap(j) PROVE Kept'
    BY <1>15, TapHandles, HandlingStoresNothing DEF Tap
<1>16. CASE UNCHANGED vars
    BY <1>16, UntouchedStoresNothing DEF vars, rows
<1> QED
    BY <1>1, <1>2, <1>3, <1>4, <1>5, <1>6, <1>7, <1>8, <1>9, <1>10, <1>11, <1>12, <1>13, <1>14, <1>15,
       <1>16 DEF Next

(* poll.py:2: for any number of updates, lost answers and restarts of the  *)
(* poller, Telegram forgets no message without a row, and rows are made in *)
(* the order of the chat.                                                  *)
THEOREM NothingIsLost == Spec => []NothingLost
<1>1. Init => Kept
    <2>1. Messages \subseteq Updates /\ (\A u \in Updates : u > 0 /\ u \in Nat /\ u \in Jobs)
        BY TransportAssumption, JobsAssumption DEF Messages
    <2> QED BY <2>1 DEF Init, Kept, Behind, Stored
<1>2. Kept => NothingLost
    BY DEF Kept, Behind, NothingLost
<1> QED
    BY <1>1, <1>2, Sources, TransportTypeInductive, SourcedInductive, KeptInductive, PTL DEF Spec
=============================================================================
