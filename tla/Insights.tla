------------------------------- MODULE Insights -------------------------------
(***************************************************************************)
(* The weekly note of app/crew/insights.py for one shop and one week: runs  *)
(* from the queue and the command line ask three roles in turn, each of a   *)
(* chain of providers, and leave one row; a human approves it by id.        *)
(*                                                                         *)
(* A body is named by the run that wrote it.  A job that the reaper starts  *)
(* again while it still runs is two runs.                                   *)
(***************************************************************************)
EXTENDS Integers, FiniteSets

CONSTANTS
    QueuedRuns,     \* run_insights from INSIGHTS jobs (cli/worker.py)
    ForcedRuns,     \* from the command line with --force
    Approvals,      \* python -m app.cli.insights --approve
    None,           \* no body
    Providers,      \* how many LLM providers are configured
    MaxCalls,       \* MAX_CALLS
    MaxFaults       \* bound: kills and retries

Runs == QueuedRuns \cup ForcedRuns

ASSUME InsightsAssumption ==
    /\ QueuedRuns \cap ForcedRuns = {} /\ None \notin Runs
    /\ Providers \in Nat /\ MaxCalls \in Nat \ {0} /\ MaxFaults \in Nat

VARIABLES
    crew,       \* crewai can be imported
    row,        \* the week's row: [body, approved], body None before there is one
    pc,         \* of a run: "idle", "asking", "logging", "writing", "ended" or "failed"
    role,       \* roles that answered, of three
    tried,      \* providers tried for the role being asked
    calls,      \* of a run: [asked, listed, saved]
    carried,    \* of an approval: the body RETURNING gave it
    shown,      \* history: what was sent to the owner
    approved,   \* history: bodies an approval was for
    faults

vars == <<crew, row, pc, role, tried, calls, carried, shown, approved, faults>>
runs == <<pc, role, tried, calls>>
human == <<carried, shown, approved>>

NoCalls == [asked |-> 0, listed |-> 0, saved |-> 0]

Init ==
    /\ crew \in BOOLEAN
    /\ row = [body |-> None, approved |-> FALSE]
    /\ pc = [r \in Runs |-> "idle"]
    /\ role = [r \in Runs |-> 0]
    /\ tried = [r \in Runs |-> 0]
    /\ calls = [r \in Runs |-> NoCalls]
    /\ carried = [a \in Approvals |-> None]
    /\ shown = {} /\ approved = {}
    /\ faults = 0

-----------------------------------------------------------------------------
(* run_insights.                                                           *)
Goto(r, step) == pc' = [pc EXCEPT ![r] = step]

\* An existing row ends an unforced run; nothing is locked meanwhile.
Start(r) ==
    /\ pc[r] = "idle"
    /\ Goto(r, IF row.body # None /\ r \notin ForcedRuns THEN "ended" ELSE "asking")
    /\ UNCHANGED <<crew, row, role, tried, calls, human, faults>>

\* The crew asks on its own account, and the list has one line if it succeeds.
Kickoff(r) ==
    /\ pc[r] = "asking" /\ crew
    /\ \/ calls' = [calls EXCEPT ![r].listed = 1] /\ role' = [role EXCEPT ![r] = 3]
       \/ UNCHANGED <<calls, role>>
    /\ Goto(r, "logging")
    /\ UNCHANGED <<crew, row, tried, human, faults>>

\* Mutant: the cap is one call too late.
MutCapReached(r) == calls[r].listed > MaxCalls
\* ask looks at the cap before the first provider of a role only.
CapReached(r) == calls[r].listed >= MaxCalls

\* One request of ask.  An answer that is JSON but not an object is listed as
\* a call and then, as `.get` raises, as a failed one.
Request(r) ==
    /\ pc[r] = "asking" /\ ~crew /\ role[r] < 3 /\ tried[r] < Providers
    /\ tried[r] = 0 => ~CapReached(r)
    /\ \/ /\ calls' = [calls EXCEPT ![r].asked = @ + 1, ![r].listed = @ + 1]
          /\ role' = [role EXCEPT ![r] = @ + 1] /\ tried' = [tried EXCEPT ![r] = 0]
       \/ \E lines \in {1, 2} :
            /\ calls' = [calls EXCEPT ![r].asked = @ + 1, ![r].listed = @ + lines]
            /\ tried' = [tried EXCEPT ![r] = @ + 1] /\ UNCHANGED role
    /\ UNCHANGED <<crew, row, pc, human, faults>>

\* All three answered, the cap is reached, or no provider answered.
StopsAsking(r) ==
    /\ pc[r] = "asking" /\ ~crew
    /\ \/ role[r] = 3
       \/ tried[r] = 0 /\ CapReached(r)
       \/ tried[r] = Providers
    /\ Goto(r, "logging")
    /\ UNCHANGED <<crew, row, role, tried, calls, human, faults>>

\* Mutant: the rows are written only for a note that was made.
MutLog(r) == IF role[r] = 3 THEN [calls EXCEPT ![r].saved = calls[r].listed] ELSE calls
Log(r) == [calls EXCEPT ![r].saved = calls[r].listed]

\* finally: the list goes to llm_calls; an exception or an empty note ends it.
SavesCalls(r) ==
    /\ pc[r] = "logging"
    /\ calls' = Log(r)
    /\ \/ Goto(r, "failed")
       \/ role[r] = 3 /\ Goto(r, "writing")
    /\ UNCHANGED <<crew, row, role, tried, human, faults>>

\* Mutant: a new body keeps the old approval.
MutNote(r) == [row EXCEPT !.body = r]
\* ON CONFLICT DO UPDATE.
Note(r) == [body |-> r, approved |-> FALSE]

Writes(r) ==
    /\ pc[r] = "writing"
    /\ row' = Note(r)
    /\ Goto(r, "ended")
    /\ UNCHANGED <<crew, role, tried, calls, human, faults>>

\* The queue tries a failed job again, and one whose worker is killed.
StartsAgain(r) ==
    /\ r \in QueuedRuns /\ faults < MaxFaults
    /\ pc[r] # "idle" /\ (pc[r] = "ended" => row.body # r)
    /\ Goto(r, "idle")
    /\ role' = [role EXCEPT ![r] = 0] /\ tried' = [tried EXCEPT ![r] = 0]
    /\ calls' = [calls EXCEPT ![r] = NoCalls]
    /\ faults' = faults + 1
    /\ UNCHANGED <<crew, row, human>>

-----------------------------------------------------------------------------
(* approve_and_send.                                                       *)
Approve(a) ==
    /\ carried[a] = None /\ row.body # None
    /\ row' = [row EXCEPT !.approved = TRUE]
    /\ carried' = [carried EXCEPT ![a] = row.body]
    /\ approved' = approved \cup {row.body}
    /\ UNCHANGED <<crew, runs, shown, faults>>

\* Mutant: the row is read again for the message.
MutOutgoing(a) == row.body
Outgoing(a) == carried[a]

\* After the commit; sent_at, which no code reads, is left out.
Send(a) ==
    /\ carried[a] # None
    /\ shown' = shown \cup {Outgoing(a)}
    /\ UNCHANGED <<crew, row, runs, carried, approved, faults>>

Next ==
    \/ \E r \in Runs :
        \/ Start(r) \/ Kickoff(r) \/ Request(r) \/ StopsAsking(r)
        \/ SavesCalls(r) \/ Writes(r) \/ StartsAgain(r)
    \/ \E a \in Approvals : Approve(a) \/ Send(a)

Spec == Init /\ [][Next]_vars

-----------------------------------------------------------------------------
(* The steps of run_insights and the columns it writes (insights.py:122).  *)
TypeOK ==
    /\ crew \in BOOLEAN
    /\ row \in [body : Runs \cup {None}, approved : BOOLEAN]
    /\ pc \in [Runs -> {"idle", "asking", "logging", "writing", "ended", "failed"}]
    /\ role \in [Runs -> 0 .. 3] /\ tried \in [Runs -> 0 .. Providers]
    /\ calls \in [Runs -> [asked : Nat, listed : Nat, saved : Nat]]
    /\ carried \in [Approvals -> Runs \cup {None}]
    /\ shown \subseteq Runs /\ approved \subseteq Runs
    /\ faults \in Nat

(* insights.py:159, "nothing is sent until someone approves", whatever is  *)
(* regenerated while an approval is on its way: what is sent, and what the *)
(* dashboard shows as approved (dashboard.py:26), was approved itself.     *)
NothingUnapproved ==
    /\ shown \subseteq approved
    /\ row.approved => row.body \in approved

(* insights.py:7, "every call logged": a run that stopped asking, whether  *)
(* or not it made a note, has left a row for each line of its list, and    *)
(* for each request it made to a provider.                                 *)
EveryCallLogged ==
    \A r \in Runs : pc[r] \in {"writing", "ended", "failed"} =>
        calls[r].saved = calls[r].listed /\ calls[r].asked <= calls[r].saved

(* insights.py:7 says "max 6 LLM calls": as the cap is looked at only      *)
(* before a role's first provider, what holds is this.                     *)
CallsBounded == \A r \in Runs : calls[r].asked <= MaxCalls + Providers - 1
=============================================================================
