---------------------------- MODULE InsightsProofs ----------------------------
(***************************************************************************)
(* Type correctness of Insights, and its three invariants for any number   *)
(* of runs, approvals and providers, and any cap.                          *)
(***************************************************************************)
EXTENDS Insights, TLAPS

LEMMA TypeInductive == TypeOK /\ [Next]_vars => TypeOK'
<1> SUFFICES ASSUME TypeOK, [Next]_vars PROVE TypeOK'
    OBVIOUS
<1> USE InsightsAssumption DEF TypeOK, runs, human
<1>1. ASSUME NEW r \in Runs, Start(r) PROVE TypeOK'
    BY <1>1 DEF Start, Goto
<1>2. ASSUME NEW r \in Runs, Kickoff(r) PROVE TypeOK'
    BY <1>2 DEF Kickoff, Goto
<1>3. ASSUME NEW r \in Runs, Request(r) PROVE TypeOK'
    BY <1>3 DEF Request
<1>4. ASSUME NEW r \in Runs, StopsAsking(r) PROVE TypeOK'
    BY <1>4 DEF StopsAsking, Goto
<1>5. ASSUME NEW r \in Runs, SavesCalls(r) PROVE TypeOK'
    BY <1>5 DEF SavesCalls, Goto, Log
<1>6. ASSUME NEW r \in Runs, Writes(r) PROVE TypeOK'
    BY <1>6 DEF Writes, Goto, Note
<1>7. ASSUME NEW r \in Runs, StartsAgain(r) PROVE TypeOK'
    BY <1>7 DEF StartsAgain, Goto, NoCalls
<1>8. ASSUME NEW a \in Approvals, Approve(a) PROVE TypeOK'
    BY <1>8 DEF Approve
<1>9. ASSUME NEW a \in Approvals, Send(a) PROVE TypeOK'
    BY <1>9 DEF Send, Outgoing
<1>10. CASE UNCHANGED vars
    BY <1>10 DEF vars
<1> QED
    BY <1>1, <1>2, <1>3, <1>4, <1>5, <1>6, <1>7, <1>8, <1>9, <1>10 DEF Next

(* The columns and steps of run_insights have the values TypeOK says, for  *)
(* any number of runs and approvals (insights.py:122, :158).               *)
THEOREM InsightsTypeCorrect == Spec => []TypeOK
<1>1. Init => TypeOK
    BY InsightsAssumption DEF Init, TypeOK, NoCalls
<1> QED
    BY <1>1, TypeInductive, PTL DEF Spec

-----------------------------------------------------------------------------
(* What an approval carries was approved when it was read.                 *)
CarriedIsApproved == \A a \in Approvals : carried[a] # None => carried[a] \in approved

LEMMA ApprovalInductive ==
    TypeOK /\ CarriedIsApproved /\ NothingUnapproved /\ [Next]_vars
        => CarriedIsApproved' /\ NothingUnapproved'
<1> SUFFICES ASSUME TypeOK, CarriedIsApproved, NothingUnapproved, [Next]_vars
             PROVE  CarriedIsApproved' /\ NothingUnapproved'
    OBVIOUS
<1> USE InsightsAssumption DEF TypeOK, CarriedIsApproved, NothingUnapproved
<1>1. ASSUME NEW r \in Runs,
             Start(r) \/ Kickoff(r) \/ Request(r) \/ StopsAsking(r) \/ SavesCalls(r) \/ StartsAgain(r)
      PROVE  UNCHANGED <<row, human>>
    BY <1>1 DEF Start, Kickoff, Request, StopsAsking, SavesCalls, StartsAgain
<1>2. ASSUME UNCHANGED <<row, human>> PROVE CarriedIsApproved' /\ NothingUnapproved'
    BY <1>2 DEF human
<1>3. ASSUME NEW r \in Runs, Writes(r) PROVE CarriedIsApproved' /\ NothingUnapproved'
    BY <1>3 DEF Writes, Note, human
<1>4. ASSUME NEW a \in Approvals, Approve(a) PROVE CarriedIsApproved' /\ NothingUnapproved'
    BY <1>4 DEF Approve
<1>5. ASSUME NEW a \in Approvals, Send(a) PROVE CarriedIsApproved' /\ NothingUnapproved'
    BY <1>5 DEF Send, Outgoing
<1>6. CASE UNCHANGED vars
    BY <1>2, <1>6 DEF vars, human
<1> QED
    BY <1>1, <1>2, <1>3, <1>4, <1>5, <1>6 DEF Next

(* insights.py:159: however many runs regenerate the note and however many *)
(* approvals race with them, nothing is sent or shown that was not         *)
(* approved itself.                                                        *)
THEOREM NothingSentUnapproved == Spec => []NothingUnapproved
<1>1. Init => CarriedIsApproved /\ NothingUnapproved
    BY DEF Init, CarriedIsApproved, NothingUnapproved
<1> QED
    BY <1>1, InsightsTypeCorrect, ApprovalInductive, PTL DEF Spec

-----------------------------------------------------------------------------
(* A run that has not started has no calls, and every request is in the    *)
(* list.                                                                   *)
Accounted ==
    \A r \in Runs :
        /\ pc[r] = "idle" => calls[r] = NoCalls
        /\ calls[r].asked <= calls[r].listed
        /\ crew => calls[r].asked = 0

LEMMA LoggingInductive ==
    TypeOK /\ Accounted /\ EveryCallLogged /\ [Next]_vars => Accounted' /\ EveryCallLogged'
<1> SUFFICES ASSUME TypeOK, Accounted, EveryCallLogged, [Next]_vars
             PROVE  Accounted' /\ EveryCallLogged'
    OBVIOUS
<1> USE DEF TypeOK, Accounted, EveryCallLogged, NoCalls, runs
<1>1. ASSUME NEW r \in Runs, Start(r) PROVE Accounted' /\ EveryCallLogged'
    BY <1>1 DEF Start, Goto
<1>2. ASSUME NEW r \in Runs, Kickoff(r) PROVE Accounted' /\ EveryCallLogged'
    BY <1>2 DEF Kickoff, Goto
<1>3. ASSUME NEW r \in Runs, Request(r) PROVE Accounted' /\ EveryCallLogged'
    BY <1>3 DEF Request
<1>4. ASSUME NEW r \in Runs, StopsAsking(r) PROVE Accounted' /\ EveryCallLogged'
    BY <1>4 DEF StopsAsking, Goto
<1>5. ASSUME NEW r \in Runs, SavesCalls(r) PROVE Accounted' /\ EveryCallLogged'
    BY <1>5 DEF SavesCalls, Goto, Log
<1>6. ASSUME NEW r \in Runs, Writes(r) PROVE Accounted' /\ EveryCallLogged'
    BY <1>6 DEF Writes, Goto
<1>7. ASSUME NEW r \in Runs, StartsAgain(r) PROVE Accounted' /\ EveryCallLogged'
    BY <1>7 DEF StartsAgain, Goto
<1>8. ASSUME NEW a \in Approvals, Approve(a) \/ Send(a) PROVE Accounted' /\ EveryCallLogged'
    BY <1>8 DEF Approve, Send
<1>9. CASE UNCHANGED vars
    BY <1>9 DEF vars
<1> QED
    BY <1>1, <1>2, <1>3, <1>4, <1>5, <1>6, <1>7, <1>8, <1>9 DEF Next

(* insights.py:7 and :141: whichever way a run ends, by a note, an empty    *)
(* one or an exception, each request it made has its row.                  *)
THEOREM CallsAreLogged == Spec => []EveryCallLogged
<1>1. Init => Accounted /\ EveryCallLogged
    BY DEF Init, Accounted, EveryCallLogged, NoCalls
<1> QED
    BY <1>1, InsightsTypeCorrect, LoggingInductive, PTL DEF Spec

-----------------------------------------------------------------------------
(* A role that is being asked found the cap open.                          *)
WithinRole == \A r \in Runs : tried[r] > 0 => calls[r].asked <= MaxCalls - 1 + tried[r]

LEMMA BoundInductive ==
    TypeOK /\ Accounted /\ WithinRole /\ CallsBounded /\ [Next]_vars => WithinRole' /\ CallsBounded'
<1> SUFFICES ASSUME TypeOK, Accounted, WithinRole, CallsBounded, [Next]_vars
             PROVE  WithinRole' /\ CallsBounded'
    OBVIOUS
<1> USE InsightsAssumption DEF TypeOK, Accounted, WithinRole, CallsBounded, NoCalls, runs
<1>1. ASSUME NEW r \in Runs, Start(r) \/ StopsAsking(r) \/ Writes(r) PROVE UNCHANGED <<crew, tried, calls>>
    BY <1>1 DEF Start, StopsAsking, Writes
<1>2. ASSUME NEW r \in Runs, Kickoff(r) PROVE WithinRole' /\ CallsBounded'
    <2>1. UNCHANGED <<crew, tried>> /\ crew
        BY <1>2 DEF Kickoff
    <2>2. \A q \in Runs : calls'[q].asked = 0 /\ calls'[q].listed \in Nat
        BY <1>2, <2>1 DEF Kickoff
    <2>3. \A q \in Runs : tried[q] \in Nat
        OBVIOUS
    <2> QED BY <2>1, <2>2, <2>3
<1>3. ASSUME NEW r \in Runs, Request(r) PROVE WithinRole' /\ CallsBounded'
    <2>1. calls[r].asked <= MaxCalls - 1 + tried[r]
        BY <1>3 DEF Request, CapReached
    <2>2. CASE /\ calls' = [calls EXCEPT ![r].asked = @ + 1, ![r].listed = @ + 1]
               /\ tried' = [tried EXCEPT ![r] = 0]
        BY <1>3, <2>1, <2>2 DEF Request
    <2>3. ASSUME NEW lines \in {1, 2},
                 calls' = [calls EXCEPT ![r].asked = @ + 1, ![r].listed = @ + lines],
                 tried' = [tried EXCEPT ![r] = @ + 1]
          PROVE  WithinRole' /\ CallsBounded'
        BY <1>3, <2>1, <2>3 DEF Request
    <2> QED BY <1>3, <2>2, <2>3 DEF Request
<1>4. ASSUME NEW r \in Runs, SavesCalls(r) PROVE WithinRole' /\ CallsBounded'
    BY <1>4 DEF SavesCalls, Log
<1>5. ASSUME NEW r \in Runs, StartsAgain(r) PROVE WithinRole' /\ CallsBounded'
    BY <1>5 DEF StartsAgain
<1>6. ASSUME NEW a \in Approvals, Approve(a) \/ Send(a) PROVE UNCHANGED <<crew, tried, calls>>
    BY <1>6 DEF Approve, Send
<1>7. ASSUME UNCHANGED <<crew, tried, calls>> PROVE WithinRole' /\ CallsBounded'
    BY <1>7
<1>8. CASE UNCHANGED vars
    BY <1>7, <1>8 DEF vars
<1> QED
    BY <1>1, <1>2, <1>3, <1>4, <1>5, <1>6, <1>7, <1>8 DEF Next

(* insights.py:87 keeps a run within MAX_CALLS and one role's providers,    *)
(* whatever they answer and however many are configured.                   *)
THEOREM CallsStayBounded == Spec => []CallsBounded
<1>1. Init => Accounted /\ EveryCallLogged /\ WithinRole /\ CallsBounded
    BY InsightsAssumption DEF Init, Accounted, EveryCallLogged, WithinRole, CallsBounded, NoCalls
<1> QED
    BY <1>1, InsightsTypeCorrect, LoggingInductive, BoundInductive, PTL DEF Spec
=============================================================================
