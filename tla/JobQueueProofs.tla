--------------------------- MODULE JobQueueProofs ---------------------------
(***************************************************************************)
(* The queue's safety, for any set of jobs and workers, any max_attempts   *)
(* and any number of crashes, reaps and revivals.                          *)
(***************************************************************************)
EXTENDS JobQueue, TLAPS

\* A held job is a row of the table.
LEMMA HeldJobInTable ==
    ASSUME JQTypeOK, NEW w \in Workers, slot[w].job # NoJob
    PROVE  slot[w].job \in Jobs /\ slot[w].attempts \in Nat
BY DEF JQTypeOK

(* The rows and the slots keep their types.                                *)
LEMMA TypeInductive == JQTypeOK /\ [JQNext]_jqVars => JQTypeOK'
<1> SUFFICES ASSUME JQTypeOK, [JQNext]_jqVars PROVE JQTypeOK'
    OBVIOUS
<1> USE DEF JQTypeOK, JobRow, JobStatus
<1>1. ASSUME NEW j \in Jobs, Enqueue(j) PROVE JQTypeOK'
    BY <1>1 DEF Enqueue
<1>2. ASSUME NEW j \in Jobs, Ripen(j) PROVE JQTypeOK'
    BY <1>2 DEF Ripen
<1>3. ASSUME NEW w \in Workers, Claim(w) PROVE JQTypeOK'
    BY <1>3 DEF Claim, Claimable
<1>4. ASSUME NEW w \in Workers, Complete(w) PROVE JQTypeOK'
    <2>1. slot[w].job \in Jobs
        BY <1>4, HeldJobInTable DEF Complete
    <2> QED BY <1>4, <2>1 DEF Complete, Idle
<1>5. ASSUME NEW w \in Workers, Fail(w) PROVE JQTypeOK'
    <2>1. slot[w].job \in Jobs
        BY <1>5, HeldJobInTable DEF Fail
    <2> QED BY <1>5, <2>1 DEF Fail, Idle
<1>6. ASSUME NEW w \in Workers, Crash(w) PROVE JQTypeOK'
    BY <1>6 DEF Crash, Idle
<1>7. ASSUME NEW stale \in SUBSET Jobs, NEW stuck \in SUBSET Jobs, Reap(stale, stuck)
      PROVE  JQTypeOK'
    <2>1. faults' \in Nat
        BY <1>7 DEF Reap
    <2>2. ASSUME NEW j \in Jobs
          PROVE  [jobs[j] EXCEPT !.status = "QUEUED", !.ready = TRUE] \in JobRow
        <3>1. jobs[j] \in JobRow
            OBVIOUS
        <3> QED BY <3>1
    <2>3. Reaped(stale, stuck) \in [Jobs -> JobRow]
        BY <2>2 DEF Reaped
    <2> QED BY <1>7, <2>1, <2>3 DEF Reap
<1>8. CASE UNCHANGED jqVars
    BY <1>8 DEF jqVars
<1> QED BY <1>1, <1>2, <1>3, <1>4, <1>5, <1>6, <1>7, <1>8 DEF JQNext, WorkerStep

(* The jobs table and the workers' rows are well-typed in every reachable  *)
(* state (jobs.py:14-77).                                                  *)
THEOREM QueueTypeCorrect == JQSpec => []JQTypeOK
<1>1. JQInit => JQTypeOK
    BY DEF JQInit, JQTypeOK, JobRow, JobStatus, Idle
<1> QED BY <1>1, TypeInductive, PTL DEF JQSpec

-----------------------------------------------------------------------------
(* A claim takes a QUEUED row, which no timely worker holds; complete and  *)
(* fail release a row nobody else holds; the reaper takes rows no worker   *)
(* holds.  OneHolder is inductive together with the types.                 *)
LEMMA OneHolderInductive == JQTypeOK /\ OneHolder /\ [JQNext]_jqVars => OneHolder'
<1> SUFFICES ASSUME JQTypeOK, OneHolder, [JQNext]_jqVars, SlowWorkers = FALSE
             PROVE  OneHolder'
    BY BoundsAssumption DEF OneHolder
<1> USE JobsAssumption DEF OneHolder, JQTypeOK, JobRow
<1>1. ASSUME NEW j \in Jobs, Enqueue(j) PROVE OneHolder'
    BY <1>1 DEF Enqueue
<1>2. ASSUME NEW j \in Jobs, Ripen(j) PROVE OneHolder'
    BY <1>2 DEF Ripen
<1>3. ASSUME NEW w \in Workers, Claim(w) PROVE OneHolder'
    <2> PICK j \in Claimable :
            /\ jobs' = [jobs EXCEPT ![j].status = "RUNNING", ![j].attempts = @ + 1]
            /\ slot' = [slot EXCEPT ![w] = [job |-> j, attempts |-> jobs[j].attempts + 1]]
        BY <1>3 DEF Claim
    <2>1. \A v \in Workers : slot[v].job # j
        BY DEF Claimable
    <2> QED BY <2>1 DEF Claimable
<1>4. ASSUME NEW w \in Workers, Complete(w) PROVE OneHolder'
    BY <1>4 DEF Complete, Idle
<1>5. ASSUME NEW w \in Workers, Fail(w) PROVE OneHolder'
    BY <1>5 DEF Fail, Idle
<1>6. ASSUME NEW w \in Workers, Crash(w) PROVE OneHolder'
    BY <1>6 DEF Crash, Idle
<1>7. ASSUME NEW stale \in SUBSET Jobs, NEW stuck \in SUBSET Jobs, Reap(stale, stuck)
      PROVE  OneHolder'
    <2>1. \A v \in Workers : slot[v].job # NoJob => slot[v].job \notin stale \cup stuck
        BY <1>7 DEF Reap, MayBeStale, MayBeStuck, Held
    <2> QED BY <1>7, <2>1 DEF Reap, Reaped
<1>8. CASE UNCHANGED jqVars
    BY <1>8 DEF jqVars
<1> QED BY <1>1, <1>2, <1>3, <1>4, <1>5, <1>6, <1>7, <1>8 DEF JQNext, WorkerStep

(* While handlers are timely, a job is never in two hands (jobs.py:24-32). *)
THEOREM OneWorkerOneJob == JQSpec => []OneHolder
<1>1. JQInit => OneHolder
    BY DEF JQInit, OneHolder, Idle
<1> QED BY <1>1, QueueTypeCorrect, OneHolderInductive, PTL DEF JQSpec

(* While handlers are timely, a dead-lettered job stays dead               *)
(* (jobs.py:35-47: done and fail write by id alone, and jobs.py:53, 69).   *)
THEOREM DeadLettersStay == JQSpec => DeadIsFinal
<1>1. JQTypeOK /\ OneHolder /\ [JQNext]_jqVars =>
        [SlowWorkers \/ \A j \in Jobs : jobs[j].status = "DEAD" => jobs'[j].status = "DEAD"]_jqVars
    <2> SUFFICES ASSUME JQTypeOK, OneHolder, JQNext, SlowWorkers = FALSE,
                        NEW j \in Jobs, jobs[j].status = "DEAD"
                 PROVE  jobs'[j].status = "DEAD"
        BY BoundsAssumption
    <2> USE DEF JQTypeOK, JobRow, OneHolder
    <2>1. ASSUME NEW k \in Jobs, Enqueue(k) \/ Ripen(k) PROVE jobs'[j].status = "DEAD"
        BY <2>1 DEF Enqueue, Ripen
    <2>2. ASSUME NEW w \in Workers, Claim(w) PROVE jobs'[j].status = "DEAD"
        BY <2>2 DEF Claim, Claimable
    <2>3. ASSUME NEW w \in Workers, Complete(w) \/ Fail(w) PROVE jobs'[j].status = "DEAD"
        <3>1. slot[w].job # j
            BY <2>3 DEF Complete, Fail
        <3> QED BY <2>3, <3>1 DEF Complete, Fail
    <2>4. ASSUME NEW w \in Workers, Crash(w) PROVE jobs'[j].status = "DEAD"
        BY <2>4 DEF Crash
    <2>5. ASSUME NEW stale \in SUBSET Jobs, NEW stuck \in SUBSET Jobs, Reap(stale, stuck)
          PROVE  jobs'[j].status = "DEAD"
        BY <2>5 DEF Reap, Reaped, MayBeStale, MayBeStuck, Running
    <2> QED BY <2>1, <2>2, <2>3, <2>4, <2>5 DEF JQNext, WorkerStep
<1> QED BY <1>1, QueueTypeCorrect, OneWorkerOneJob, PTL DEF JQSpec, DeadIsFinal

-----------------------------------------------------------------------------
(* Even a late worker holds a row whose attempts can only have grown since *)
(* it was claimed: what fail judges is never more than what the table says.*)
HeldWasClaimed ==
    \A w \in Workers : slot[w].job # NoJob => slot[w].attempts <= jobs[slot[w].job].attempts

LEMMA DeadWasTriedInductive ==
    JQTypeOK /\ HeldWasClaimed /\ DeadWasTried /\ [JQNext]_jqVars
        => HeldWasClaimed' /\ DeadWasTried'
<1> SUFFICES ASSUME JQTypeOK, HeldWasClaimed, DeadWasTried, [JQNext]_jqVars
             PROVE  HeldWasClaimed' /\ DeadWasTried'
    OBVIOUS
<1> USE JobsAssumption, BoundsAssumption DEF HeldWasClaimed, DeadWasTried, JQTypeOK, JobRow
<1>1. ASSUME NEW j \in Jobs, Enqueue(j) \/ Ripen(j) PROVE HeldWasClaimed' /\ DeadWasTried'
    BY <1>1 DEF Enqueue, Ripen
<1>2. ASSUME NEW w \in Workers, Claim(w) PROVE HeldWasClaimed' /\ DeadWasTried'
    BY <1>2 DEF Claim, Claimable
<1>3. ASSUME NEW w \in Workers, Complete(w) PROVE HeldWasClaimed' /\ DeadWasTried'
    BY <1>3 DEF Complete, Idle
<1>4. ASSUME NEW w \in Workers, Fail(w) PROVE HeldWasClaimed' /\ DeadWasTried'
    BY <1>4 DEF Fail, Dead, Idle
<1>5. ASSUME NEW w \in Workers, Crash(w) PROVE HeldWasClaimed' /\ DeadWasTried'
    BY <1>5 DEF Crash, Idle
<1>6. ASSUME NEW stale \in SUBSET Jobs, NEW stuck \in SUBSET Jobs, Reap(stale, stuck)
      PROVE  HeldWasClaimed' /\ DeadWasTried'
    BY <1>6 DEF Reap, Reaped
<1>7. CASE UNCHANGED jqVars
    BY <1>7 DEF jqVars
<1> QED BY <1>1, <1>2, <1>3, <1>4, <1>5, <1>6, <1>7 DEF JQNext, WorkerStep

(* No job is given up before max_attempts executions were started, not     *)
(* even by a worker that was reaped while alive (jobs.py:39-47).           *)
THEOREM NoEarlyDeath == JQSpec => []DeadWasTried
<1>1. JQInit => HeldWasClaimed /\ DeadWasTried
    BY DEF JQInit, HeldWasClaimed, DeadWasTried, Idle
<1> QED BY <1>1, QueueTypeCorrect, DeadWasTriedInductive, PTL DEF JQSpec
=============================================================================
