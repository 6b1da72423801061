------------------------------ MODULE Messages ------------------------------
(***************************************************************************)
(* The messages and pending_actions tables of one Telegram chat, and the   *)
(* transaction body every path ends in: decide_and_post_in of              *)
(* app/services/pipeline.py, which books, asks or rejects.                 *)
(*                                                                         *)
(* Data is abstracted to what decides the control flow.  A parsed sentence *)
(* is the set of questions the decision engine must have answered before   *)
(* it can book it, or Junk when it is no single transaction; the overrides *)
(* of a draft are the questions answered so far.  One job per message      *)
(* (dedupe_key msg:<id>), so message ids are the job ids of JobQueue.      *)
(***************************************************************************)
EXTENDS JobQueue

Msgs == Jobs

CONSTANTS
    Buttons,        \* questions answered with a tap (customer, payment, ...)
    Texts,          \* ENTER_TEXT questions (quantity, amount, price, ...)
    Rank,           \* precedence of the questions in decide
    Parses          \* what a sentence may be parsed to

Heard == "heard"    \* CONFIRM_TRANSCRIPT: are these the words you said?

\* A sentence that is no transaction, names several items, is unsupported.
Junk == {"junk"}

Sentences == (SUBSET (Buttons \cup Texts)) \cup {Junk}

Questions == Buttons \cup Texts \cup {Heard}

ASSUME QuestionsAssumption ==
    /\ {Heard, "junk"} \cap (Buttons \cup Texts) = {}
    /\ Buttons \cap Texts = {}
    /\ Rank \in [Buttons \cup Texts -> Nat]
    /\ Parses \subseteq Sentences

VARIABLES
    kind,       \* messages.kind, with the outcome of _voice_guard
    status,     \* messages.status
    words,      \* messages.transcript and stt_confidence
    parsed,     \* messages.parsed
    booked,     \* transactions rows with this message_id
    pend,       \* the latest pending_actions row of each message
    asked       \* pending_actions rows so far: ids grow with created_at

tableVars == <<kind, status, words, parsed, booked, pend, asked>>

\* "odd" is a voice note shorter or longer than the settings allow.
Kinds == {"text", "voice", "odd"}

MsgStatus == {"ABSENT", "RECEIVED", "PROCESSING", "AWAITING_CONFIRMATION",
              "COMMITTED", "REJECTED", "FAILED"}

\* NULL, confident words, words below stt_min_avg_logprob, an empty string.
Words == {"null", "clear", "unsure", "blank"}

PendStatus == {"NONE", "PENDING", "RESOLVED", "CANCELLED", "EXPIRED"}

\* answered is draft.overrides; overdue is expires_at <= now().
PendRow == [id : Nat, question : Questions, answered : SUBSET Questions,
            status : PendStatus, overdue : BOOLEAN]

NoPend == [id |-> 0, question |-> Heard, answered |-> {}, status |-> "NONE", overdue |-> FALSE]

TablesTypeOK ==
    /\ kind \in [Msgs -> Kinds]
    /\ status \in [Msgs -> MsgStatus]
    /\ words \in [Msgs -> Words]
    /\ parsed \in [Msgs -> Sentences]
    /\ booked \in [Msgs -> Nat]
    /\ pend \in [Msgs -> PendRow]
    /\ asked \in Nat

TablesInit ==
    /\ kind = [m \in Msgs |-> "text"]
    /\ status = [m \in Msgs |-> "ABSENT"]
    /\ words = [m \in Msgs |-> "null"]
    /\ parsed = [m \in Msgs |-> Junk]
    /\ booked = [m \in Msgs |-> 0]
    /\ pend = [m \in Msgs |-> NoPend]
    /\ asked = 0

Unhandled(m) == status[m] \in {"RECEIVED", "PROCESSING"}

\* Mutant: no status re-check under the row lock.
MutDecidable(s) == s # "ABSENT"

Decidable(s) == s \in {"PROCESSING", "AWAITING_CONFIRMATION"}

Settled(m) == status[m] \in {"COMMITTED", "REJECTED", "FAILED"}

Pending(m) == pend[m].status = "PENDING"

First(qs) == CHOOSE q \in qs : \A r \in qs : Rank[q] <= Rank[r]

(* What decide_and_post_in does with message m and the answers o: low      *)
(* confidence first, then the verdict of decide.                           *)
Unheard(m, o) == words[m] = "unsure" /\ Heard \notin o
Commits(m, o) == ~Unheard(m, o) /\ parsed[m] # Junk /\ parsed[m] \subseteq o
Rejects(m, o) == ~Unheard(m, o) /\ parsed[m] = Junk
Asks(m, o)    == ~Commits(m, o) /\ ~Rejects(m, o)
Question(m, o) == IF Unheard(m, o) THEN Heard ELSE First(parsed[m] \ o)

(* _create_pending: a PENDING row of the message becomes CANCELLED and a   *)
(* new row with a full TTL replaces it as the latest.                      *)
NewPending(q, o) ==
    [id |-> asked + 1, question |-> q, answered |-> o, status |-> "PENDING", overdue |-> FALSE]

(* decide_and_post_in, with st and pd the two tables as the earlier        *)
(* statements of the same transaction left them.  Disabled when the status *)
(* re-check under the row lock raises Skip.                                *)
DecideAndPost(m, o, st, pd) ==
    /\ Decidable(st[m])
    /\ \/ /\ Commits(m, o)
          /\ status' = [st EXCEPT ![m] = "COMMITTED"]
          /\ booked' = [booked EXCEPT ![m] = @ + 1]
          /\ pend' = pd
          /\ UNCHANGED asked
       \/ /\ Rejects(m, o)
          /\ status' = [st EXCEPT ![m] = "REJECTED"]
          /\ pend' = pd
          /\ UNCHANGED <<booked, asked>>
       \/ /\ Asks(m, o)
          /\ status' = [st EXCEPT ![m] = "AWAITING_CONFIRMATION"]
          /\ pend' = [pd EXCEPT ![m] = NewPending(Question(m, o), o)]
          /\ asked' = asked + 1
          /\ UNCHANGED booked
    /\ UNCHANGED <<kind, words, parsed>>

Replies == {"booked", "rejected", "failed", "question"}

\* Mutant: a question is announced as a booking.
MutReplyTo(s) == CASE s = "REJECTED" -> "rejected" [] s = "FAILED" -> "failed" [] OTHER -> "booked"

(* The reply of an outcome, sent by deliver after the transaction commits. *)
ReplyTo(s) == CASE s = "COMMITTED" -> "booked"
                [] s = "REJECTED"  -> "rejected"
                [] s = "FAILED"    -> "failed"
                [] OTHER           -> "question"
=============================================================================
