-------------------------------- MODULE Locks --------------------------------
(***************************************************************************)
(* The row locks of the transactions that meet on a message: in which      *)
(* order each takes them, who waits for whom, and what is left of them when *)
(* Postgres breaks a deadlock.  A lock is kept to the end of a transaction. *)
(*                                                                         *)
(* A lock is [row, mode]: "update" for FOR UPDATE and for an upsert that    *)
(* sets a key column, "write" for any other UPDATE, "key" for the check of *)
(* a foreign key.  What the rows hold is Pipeline's and Ledger's; here one *)
(* is open until a transaction closes it.                                  *)
(***************************************************************************)
EXTENDS Naturals, Sequences

CONSTANTS
    Txns,       \* transactions that meet
    Role,       \* what each row is to them: a function from rows to roles
    QuestionOf, \* the open question of a message that waits
    MaxAttempts \* jobs.max_attempts

Rows(role) == {row \in DOMAIN Role : Role[row] = role}

ASSUME LocksAssumption ==
    /\ QuestionOf \in [Rows("waiting") -> Rows("question")]
    /\ MaxAttempts \in Nat \ {0}

VARIABLES
    script,     \* of a transaction: [kind, locks, checks, closes]
    at,         \* how many of its locks it has
    state,      \* "running", "committed" or "aborted"
    attempts,   \* how often its job was claimed
    closed      \* resolved questions, settled messages, reversed entries

vars == <<script, at, state, attempts, closed>>

Update(row) == [row |-> row, mode |-> "update"]
Write(row) == [row |-> row, mode |-> "write"]
Key(row) == [row |-> row, mode |-> "key"]

-----------------------------------------------------------------------------
(* Scripts: the statements that lock a row others lock, the rows whose     *)
(* status a statement tests, and those that are closed by the commit.      *)
Script(kind, locks, checks, closes) ==
    [kind |-> kind, locks |-> locks, checks |-> checks, closes |-> closes]

\* post_decision: the product first, then the foreign keys of the entry.
Posting(product, customer) == <<Update(product), Key(customer)>>

\* decide_and_post_in, where it books; a late worker was reaped while alive.
Booking(kind, m, product, customer) ==
    Script(kind, <<Update(m)>> \o Posting(product, customer), {m}, {m})

\* "naya customer" of a name that has a row: the upsert sets the name again.
Recreating(m, product, customer) ==
    Script("recreate", <<Update(m), Update(customer)>> \o Posting(product, customer), {m}, {m})

\* decide_and_post_in, where it asks: _create_pending cancels an open question.
Asking(m, q) == Script("late", <<Update(m), Write(q)>>, {m}, {q})

Before(first, path, rows) ==
    [path EXCEPT !.locks = first \o @, !.checks = @ \cup rows, !.closes = @ \cup rows]

\* Mutant: the message is locked before its question.
MutTap(q, alias, path) ==
    [path EXCEPT !.locks = <<Head(@), Write(q)>> \o alias \o Tail(@), !.checks = @ \cup {q}, !.closes = @ \cup {q}]
\* resolve_callback: the question, the alias of "did you mean", the decision.
Tap(q, alias, path) == Before(<<Write(q)>> \o alias, path, {q})

\* answer_text: the question, the answering message, the decision.
Typed(q, own, path) == Before(<<Write(q), Write(own)>>, path, {q})

\* reverse_transaction.
Undo(entry, product, customer) ==
    Script("tap", <<Update(entry), Update(product), Key(customer)>>, {entry}, {entry})

\* run_one after the last attempt: the job dies, and its message if it is
\* still being processed, which that of a late worker is not.
Failing(job, m) == Script("failing", <<Write(job), Write(m)>>, {m}, {m})
Burying(job) == Script("failing", <<Write(job)>>, {}, {})

\* reap: stale jobs, messages of dead jobs, jobs of stuck messages, expired
\* questions and their messages.
Reaping(stale, dead, stuck, q, m) ==
    Script("reap", <<Write(stale), Write(dead), Write(stuck), Write(q), Write(m)>>, {q}, {dead, q, m})

Products == Rows("product")
Customers == Rows("customer")

(* Who meets, of one shop.  A processing message is a job's or the answer  *)
(* to another; one that waits is reached through its question; a lost one  *)
(* has a dead job or none.                                                 *)
Timely ==
    {Booking("job", m, p, c) : m \in Rows("processing"), p \in Products, c \in Customers}
    \cup {Failing(j, m) : j \in Rows("job"), m \in Rows("processing")}
    \cup (UNION {{Tap(QuestionOf[m], alias, Booking("tap", m, p, c)) : alias \in {<<>>, <<Write(p)>>}} :
                    m \in Rows("waiting"), p \in Products, c \in Customers})
    \cup {Tap(QuestionOf[m], <<>>, Recreating(m, p, c)) :
             m \in Rows("waiting"), p \in Products, c \in Customers}
    \cup {Typed(QuestionOf[m], own, Booking("job", m, p, c)) :
             m \in Rows("waiting"), own \in Rows("processing"), p \in Products, c \in Customers}
    \cup {Undo(e, p, c) : e \in Rows("entry"), p \in Products, c \in Customers}
    \cup {Reaping(j, dead, stuck, QuestionOf[m], m) :
             j \in Rows("job"), dead \in Rows("lost"), stuck \in Rows("stuck"), m \in Rows("waiting")}

\* A worker that was reaped is still at a message that waits by now.
Late ==
    {Asking(m, QuestionOf[m]) : m \in Rows("waiting")}
    \cup {Booking("late", m, p, c) : m \in Rows("waiting"), p \in Products, c \in Customers}

Init ==
    /\ script \in [Txns -> Timely \cup Late]
    /\ at = [t \in Txns |-> 0]
    /\ state = [t \in Txns |-> "running"]
    /\ attempts = [t \in Txns |-> 1]
    /\ closed = {}

-----------------------------------------------------------------------------
Conflict(a, b) ==
    /\ a.row = b.row
    /\ "update" \in {a.mode, b.mode} \/ (a.mode = "write" /\ b.mode = "write")

Asks(t) == state[t] = "running" /\ at[t] < Len(script[t].locks)
Wants(t) == script[t].locks[at[t] + 1]
Holds(t) == IF state[t] = "running" THEN {script[t].locks[i] : i \in 1 .. at[t]} ELSE {}

WaitsFor(t) == {u \in Txns \ {t} : Asks(t) /\ \E held \in Holds(u) : Conflict(held, Wants(t))}

Enclosed(S) == \A u \in S : WaitsFor(u) \subseteq S

\* Those it waits for, directly or through others.
WaitsOn(t) == {u \in Txns : \A S \in SUBSET Txns : WaitsFor(t) \subseteq S /\ Enclosed(S) => u \in S}

Deadlocked == {t \in Txns : t \in WaitsOn(t)}

\* The next statement gets its row.  When a row that it tests was closed
\* meanwhile it matches nothing, and the transaction ends.
Take(t) ==
    /\ Asks(t) /\ WaitsFor(t) = {}
    /\ IF Wants(t).row \in closed \cap script[t].checks
       THEN state' = [state EXCEPT ![t] = "committed"] /\ UNCHANGED at
       ELSE at' = [at EXCEPT ![t] = @ + 1] /\ UNCHANGED state
    /\ UNCHANGED <<script, attempts, closed>>

Commit(t) ==
    /\ state[t] = "running" /\ ~Asks(t)
    /\ state' = [state EXCEPT ![t] = "committed"]
    /\ closed' = closed \cup script[t].closes
    /\ UNCHANGED <<script, at, attempts>>

\* Postgres rolls one of the deadlocked transactions back.
RolledBack(t) ==
    /\ t \in Deadlocked
    /\ state' = [state EXCEPT ![t] = "aborted"]
    /\ UNCHANGED <<script, at, attempts, closed>>

Restart(t) ==
    /\ state' = [state EXCEPT ![t] = "running"]
    /\ at' = [at EXCEPT ![t] = 0]
    /\ UNCHANGED closed

\* Mutant: an error ends the reaper's thread.
MutReapsAgain(t) == FALSE
\* The reaper's loop comes again, every minute.
ReapsAgain(t) ==
    /\ state[t] = "aborted" /\ script[t].kind = "reap"
    /\ Restart(t)
    /\ UNCHANGED <<script, attempts>>

(* run_one's except block, jobs.fail: the job waits for its backoff, which *)
(* heeds nobody, and is claimed again, or it is dead.  (Putting it back    *)
(* and claiming it lock its row alone, for a moment.)                      *)
OfJob(t) == state[t] = "aborted" /\ script[t].kind \in {"job", "late"}

Again(t) ==
    /\ OfJob(t) /\ attempts[t] < MaxAttempts
    /\ Restart(t)
    /\ attempts' = [attempts EXCEPT ![t] = @ + 1]
    /\ UNCHANGED script

\* The message of the job: the one being processed, of those it locks.
Own(s) == {m \in Rows("processing") : \E i \in 1 .. Len(s.locks) : s.locks[i].row = m}

LastRites(s) ==
    IF Own(s) = {} THEN {Burying(j) : j \in Rows("job")}
    ELSE {Failing(j, m) : j \in Rows("job"), m \in Own(s)}

GivesUp(t) ==
    /\ OfJob(t) /\ attempts[t] >= MaxAttempts
    /\ Restart(t)
    /\ \E s \in LastRites(script[t]) : script' = [script EXCEPT ![t] = s]
    /\ UNCHANGED attempts

Next == \E t \in Txns : Take(t) \/ Commit(t) \/ RolledBack(t) \/ ReapsAgain(t) \/ Again(t) \/ GivesUp(t)

(* Statements return, a row is granted in the order of requests, the       *)
(* server looks for deadlocks, workers and reaper are loops.               *)
Fairness == \A t \in Txns :
    /\ SF_vars(Take(t) \/ Commit(t)) /\ WF_vars(RolledBack(t))
    /\ WF_vars(ReapsAgain(t) \/ Again(t) \/ GivesUp(t))

Spec == Init /\ [][Next]_vars /\ Fairness

-----------------------------------------------------------------------------
(* confirmations.py:53 locks the question before the message, as does the  *)
(* reaper (jobs.py:72): transactions wait for each other in a circle only  *)
(* if one of them takes rows the other way, a late worker (pipeline.py:198 *)
(* before :293) or an accepted "naya customer" whose name has a row by now *)
(* (pipeline.py:219 before bookkeeping.py:17).                             *)
CirclesNeedATurn ==
    Deadlocked # {} => \E t \in Deadlocked : script[t].kind \in {"late", "recreate"}

(* worker.py:52, worker.py:84: whomever deadlocks roll back, a tap ends, a *)
(* pass of the reaper gets through, and so does a job, or the transaction  *)
(* that makes it DEAD after its last attempt and fails its message.        *)
LoopsGetThrough ==
    \A t \in Txns :
        /\ <>[](state[t] \in {"committed", "aborted"})
        /\ script[t].kind \notin {"tap", "recreate"} => <>(state[t] = "committed")
=============================================================================
