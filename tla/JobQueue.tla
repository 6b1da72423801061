------------------------------ MODULE JobQueue ------------------------------
(***************************************************************************)
(* The durable work queue: the jobs table of migrations/001_init.sql, the  *)
(* transactions of app/services/jobs.py on it, and the worker threads of   *)
(* app/cli/worker.py that claim, run and finish jobs.                      *)
(*                                                                         *)
(* One action is one committed transaction.  Row locks make each of them   *)
(* atomic; FOR UPDATE SKIP LOCKED in claim means that two claims never     *)
(* wait for each other and never take the same row.                        *)
(*                                                                         *)
(* What a job does is left to the module that extends this one: here a     *)
(* handler returns (or raises Skip), raises, or dies with its process.     *)
(***************************************************************************)
EXTENDS Integers, FiniteSets

CONSTANTS
    Jobs,           \* job ids (BIGSERIAL)
    Workers,        \* worker threads
    NoJob,          \* an idle worker's job
    MaxAttempts,    \* jobs.max_attempts
    SlowWorkers,    \* TRUE: a handler may outlive STALE_RUNNING (5 minutes)
    MaxFaults,      \* bound: crashes plus reaps of a job whose worker is alive
    ReviveCap       \* bound: a DONE job with this many attempts is not revived

ASSUME JobsAssumption == Jobs \subseteq Nat /\ NoJob \notin Jobs
ASSUME BoundsAssumption ==
    /\ MaxAttempts \in Nat \ {0}
    /\ SlowWorkers \in BOOLEAN
    /\ MaxFaults \in Nat
    /\ ReviveCap \in Nat

VARIABLES
    jobs,       \* the table; status "ABSENT" is a row not inserted yet
    slot,       \* what each worker thread holds: the row claim returned to it
    faults      \* crashes and reaps of live work so far

jqVars == <<jobs, slot, faults>>

\* jobs.status.  FAILED is in the table's CHECK and no code writes it.
JobStatus == {"ABSENT", "QUEUED", "RUNNING", "DONE", "DEAD"}

\* ready is run_after <= now().
JobRow == [status : JobStatus, attempts : Nat, ready : BOOLEAN]

Idle == [job |-> NoJob, attempts |-> 0]

JQTypeOK ==
    /\ jobs \in [Jobs -> JobRow]
    /\ slot \in [Workers -> [job : Jobs \cup {NoJob}, attempts : Nat]]
    /\ faults \in Nat

JQInit ==
    /\ jobs = [j \in Jobs |-> [status |-> "ABSENT", attempts |-> 0, ready |-> FALSE]]
    /\ slot = [w \in Workers |-> Idle]
    /\ faults = 0

Held == {slot[w].job : w \in Workers} \ {NoJob}

Running == {j \in Jobs : jobs[j].status = "RUNNING"}

Claimable == {j \in Jobs : jobs[j].status = "QUEUED" /\ jobs[j].ready}

(* enqueue: ON CONFLICT (dedupe_key) DO NOTHING, so an existing row stays. *)
Enqueue(j) ==
    /\ jobs[j].status = "ABSENT"
    /\ jobs' = [jobs EXCEPT ![j].status = "QUEUED", ![j].ready = TRUE]
    /\ UNCHANGED <<slot, faults>>

\* SKIP LOCKED: claim passes over the rows that transactions of other threads
\* have locked, each at most one, however those transactions end.
PassedOver(j) == {k \in Claimable : k < j}

(* claim: the lowest ready id that is not locked becomes RUNNING and the   *)
(* worker keeps the row.                                                   *)
Claim(w) ==
    /\ slot[w] = Idle
    /\ \E j \in Claimable :
        /\ Cardinality(PassedOver(j)) <= Cardinality(Workers \ {w})
        /\ jobs' = [jobs EXCEPT ![j].status = "RUNNING", ![j].attempts = @ + 1]
        /\ slot' = [slot EXCEPT ![w] = [job |-> j, attempts |-> jobs[j].attempts + 1]]
    /\ UNCHANGED faults

(* run_one after the handler returned or raised Skip: done, by id alone.   *)
Complete(w) ==
    /\ slot[w].job # NoJob
    /\ jobs' = [jobs EXCEPT ![slot[w].job].status = "DONE"]
    /\ slot' = [slot EXCEPT ![w] = Idle]
    /\ UNCHANGED faults

(* fail judges the attempts of the row claim returned, not of the table.   *)
Dead(w) == slot[w].attempts >= MaxAttempts

Fail(w) ==
    /\ slot[w].job # NoJob
    /\ jobs' = [jobs EXCEPT ![slot[w].job].status = IF Dead(w) THEN "DEAD" ELSE "QUEUED",
                            ![slot[w].job].ready = FALSE]
    /\ slot' = [slot EXCEPT ![w] = Idle]
    /\ UNCHANGED faults

(* The backoff of fail (20 s * 2^attempts) has passed.                     *)
Ripen(j) ==
    /\ jobs[j].status = "QUEUED"
    /\ ~jobs[j].ready
    /\ jobs' = [jobs EXCEPT ![j].ready = TRUE]
    /\ UNCHANGED <<slot, faults>>

(* The process is killed and restarted: the thread is idle again and the   *)
(* row it held stays RUNNING.                                              *)
Crash(w) ==
    /\ faults < MaxFaults
    /\ slot' = [slot EXCEPT ![w] = Idle]
    /\ faults' = faults + 1
    /\ UNCHANGED jobs

(* reap on the jobs table.  stale: RUNNING rows locked over 5 minutes ago; *)
(* such a row was claimable when it was locked, so run_after has passed.   *)
(* stuck: rows, not QUEUED or RUNNING, of messages that are still open and *)
(* not DEAD; run_after is set to now.                                      *)
Reaped(stale, stuck) ==
    [j \in Jobs |->
        IF j \in stale \cup stuck THEN [jobs[j] EXCEPT !.status = "QUEUED", !.ready = TRUE]
        ELSE jobs[j]]

\* Mutant: no look at locked_at.
MutMayBeStale == Running

\* Without SlowWorkers only a killed worker leaves a row RUNNING for 5 minutes.
MayBeStale == IF SlowWorkers THEN Running ELSE Running \ Held

\* Only a DONE job of an open message is revived: see Stuck in Pipeline.
MayBeStuck == {j \in Jobs : jobs[j].status = "DONE" /\ jobs[j].attempts < ReviveCap}

Reap(stale, stuck) ==
    /\ stale \subseteq MayBeStale
    /\ stuck \subseteq MayBeStuck
    /\ \/ stale \cap Held = {} /\ UNCHANGED faults
       \/ stale \cap Held # {} /\ faults < MaxFaults /\ faults' = faults + 1
    /\ jobs' = Reaped(stale, stuck)
    /\ UNCHANGED slot

WorkerStep(w) == Claim(w) \/ Complete(w) \/ Fail(w)

JQNext ==
    \/ \E j \in Jobs : Enqueue(j) \/ Ripen(j)
    \/ \E w \in Workers : WorkerStep(w) \/ Crash(w)
    \/ \E stale, stuck \in SUBSET Jobs : Reap(stale, stuck)

JQSpec == JQInit /\ [][JQNext]_jqVars

-----------------------------------------------------------------------------
(* While every handler finishes within 5 minutes, the row a worker holds   *)
(* is RUNNING with the attempts the worker read, and nobody else holds it: *)
(* crash, reap, revival and retry never put one job in two hands           *)
(* (jobs.py:24, "One worker slot, one job").                               *)
OneHolder ==
    SlowWorkers \/
    \A v, w \in Workers : slot[w].job # NoJob =>
        /\ jobs[slot[w].job].status = "RUNNING"
        /\ jobs[slot[w].job].attempts = slot[w].attempts
        /\ slot[v].job = slot[w].job => v = w

(* A job is given up only when max_attempts executions were started: a     *)
(* crash or a reap never makes one DEAD early (jobs.py:41).                *)
DeadWasTried == \A j \in Jobs : jobs[j].status = "DEAD" => jobs[j].attempts >= MaxAttempts

(* With timely handlers the dead-letter state is final: no reap, retry or  *)
(* late finish brings a DEAD job back (jobs.py:1).                         *)
DeadIsFinal ==
    [][SlowWorkers \/
       \A j \in Jobs : jobs[j].status = "DEAD" => jobs'[j].status = "DEAD"]_jqVars
=============================================================================
