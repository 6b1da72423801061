---------------------------- MODULE Confirmations ----------------------------
(***************************************************************************)
(* Human confirmation, app/services/confirmations.py: button taps, which   *)
(* the API runs as background tasks, and the transaction by which the next *)
(* message of a chat answers an open ENTER_TEXT question.                  *)
(*                                                                         *)
(* A tap is one transaction; the Telegram calls after its commit write     *)
(* nothing this model keeps.                                               *)
(***************************************************************************)
EXTENDS Messages

CONSTANTS
    MaxBadReplies,  \* bound: typed answers with no usable number or name
    StrayTaps       \* TRUE: a button index past the options may arrive

ASSUME ConfirmationsAssumption == MaxBadReplies \in Nat /\ StrayTaps \in BOOLEAN

VARIABLE badReplies  \* unusable typed answers so far

(* The conditional UPDATE of resolve_callback: PENDING and not expired.    *)
Tappable(m) == Pending(m) /\ ~pend[m].overdue

Resolved(m) == [pend EXCEPT ![m].status = "RESOLVED"]

\* Mutant: the draft's earlier answers are lost.
MutTap(m) ==
    /\ Tappable(m)
    /\ pend[m].question \in Buttons \cup {Heard}
    /\ DecideAndPost(m, {pend[m].question}, status, Resolved(m))
    /\ UNCHANGED <<jqVars, badReplies>>

(* A choice: the draft's answers and this one decide the message again.    *)
(* When the message has been settled meanwhile, Skip is caught inside the  *)
(* transaction, which still commits the RESOLVED row.                      *)
Tap(m) ==
    /\ Tappable(m)
    /\ pend[m].question \in Buttons \cup {Heard}
    /\ \/ DecideAndPost(m, pend[m].answered \cup {pend[m].question}, status, Resolved(m))
       \/ /\ ~Decidable(status[m])
          /\ pend' = Resolved(m)
          /\ UNCHANGED <<kind, status, words, parsed, booked, asked>>
    /\ UNCHANGED <<jqVars, badReplies>>

\* Mutant: only the question is cancelled.
MutCancel(m) ==
    /\ Tappable(m)
    /\ pend' = [pend EXCEPT ![m].status = "CANCELLED"]
    /\ UNCHANGED <<jqVars, kind, status, words, parsed, booked, asked, badReplies>>

(* The cancel button, on every question: the message is rejected whatever  *)
(* its status is.                                                          *)
Cancel(m) ==
    /\ Tappable(m)
    /\ pend' = [pend EXCEPT ![m].status = "CANCELLED"]
    /\ status' = [status EXCEPT ![m] = "REJECTED"]
    /\ UNCHANGED <<jqVars, kind, words, parsed, booked, asked, badReplies>>

(* idx >= len(options): the early return commits the RESOLVED row.         *)
StrayTap(m) ==
    /\ StrayTaps
    /\ Tappable(m)
    /\ pend' = Resolved(m)
    /\ UNCHANGED <<jqVars, kind, status, words, parsed, booked, asked, badReplies>>

(* The TTL of a pending question passes.                                   *)
Overdue(m) ==
    /\ Tappable(m)
    /\ pend' = [pend EXCEPT ![m].overdue = TRUE]
    /\ UNCHANGED <<jqVars, kind, status, words, parsed, booked, asked, badReplies>>

-----------------------------------------------------------------------------
(* open_enter_text: the newest open text question of the chat.             *)
OpenTexts == {m \in Msgs : Tappable(m) /\ pend[m].question \in Texts}

IsNewest(m) == m \in OpenTexts /\ \A n \in OpenTexts : pend[n].id <= pend[m].id

(* answer_text by message own for the question t = [msg, id] read earlier. *)
(* The UPDATE checks PENDING and not the expiry.                           *)
StillOpen(t) == Pending(t.msg) /\ pend[t.msg].id = t.id

AnswererRejected(own) == [status EXCEPT ![own] = "REJECTED"]

(* The answer is usable and the answered message is decided again.         *)
AnswerAccepted(own, t) ==
    /\ StillOpen(t)
    /\ DecideAndPost(t.msg, pend[t.msg].answered \cup {pend[t.msg].question},
                     AnswererRejected(own), Resolved(t.msg))

(* "Sirf ek number bataiye": a fresh question replaces the resolved one,   *)
(* without a look at the status of the message.                            *)
AnswerReasked(own, t) ==
    /\ StillOpen(t)
    /\ status' = AnswererRejected(own)
    /\ pend' = [pend EXCEPT ![t.msg] = NewPending(@.question, @.answered)]
    /\ asked' = asked + 1
    /\ UNCHANGED <<kind, words, parsed, booked>>

(* The whole transaction rolls back when the question was answered or      *)
(* replaced meanwhile, or when a usable answer finds its message settled.  *)
AnswerSkipped(own, t, usable) ==
    \/ ~StillOpen(t)
    \/ usable /\ ~Decidable(AnswererRejected(own)[t.msg])
=============================================================================
