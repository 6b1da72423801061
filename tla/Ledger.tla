------------------------------- MODULE Ledger -------------------------------
(***************************************************************************)
(* The books of one shop: transactions, inventory_movements and            *)
(* credit_ledger, written by post_decision and reverse_transaction of      *)
(* app/services/bookkeeping.py and by nothing else, and what the views of  *)
(* 001_init.sql and daily_summary derive from them.                        *)
(*                                                                         *)
(* A posting is one transaction that no other waits inside of, so it is    *)
(* one step.  An undo is one transaction too, but it reads, waits for the  *)
(* row, reads again and only then writes: between its statements other     *)
(* undos move.  UNIQUE (reverses_transaction_id) is left out: the row lock *)
(* and the second read have to do without it.  So is the product row lock: *)
(* postings and undos both take it last, so nobody waits while holding it. *)
(***************************************************************************)
EXTENDS Integers, FiniteSets, FiniteSetsExt

CONSTANTS
    Ids,            \* transaction ids; a bound on the number of transactions
    Customers,
    Products,
    Nobody,         \* NULL customer_id
    Nothing,        \* NULL product_id
    NoId,           \* NULL reverses_transaction_id; an undo without a target
    Decisions,      \* COMMIT decisions that may be posted
    Undoers,        \* API tasks running undo
    Days            \* bound: the days 1 .. Days of daily_summary

Types == {"CREDIT_SALE", "CASH_SALE", "CREDIT_REPAYMENT", "INVENTORY_PURCHASE", "STOCK_ADJUSTMENT"}

\* What post_decision reads of a Decision; amount 0 is also a NULL amount.
Decision == [type : Types, customer : Customers \cup {Nobody}, product : Products \cup {Nothing},
             quantity : Nat, amount : Nat, direction : {"IN", "OUT"}]

ASSUME LedgerAssumption ==
    /\ Ids \subseteq Nat /\ IsFiniteSet(Ids)
    /\ IsFiniteSet(Customers)
    /\ NoId \notin Ids /\ Nobody \notin Customers /\ Nothing \notin Products
    /\ Decisions \subseteq Decision
    /\ Days \in Nat \ {0}

VARIABLES
    txns,       \* the transactions table; type "NONE" is a free id
    moves,      \* qty_delta of each transaction's inventory movement, 0 if none
    credits,    \* amount_paise of each transaction's credit_ledger row, 0 if none
    today,      \* the day a new transaction is dated
    closed,     \* transactions older than undo_window_minutes
    undo        \* each undoer: the statement it is at and its target

vars == <<txns, moves, credits, today, closed, undo>>

Row == [type : Types \cup {"NONE", "REVERSAL"}, customer : Customers \cup {Nobody},
        product : Products \cup {Nothing}, quantity : Nat, amount : Nat,
        reverses : Ids \cup {NoId}, day : Nat]

Free == [type |-> "NONE", customer |-> Nobody, product |-> Nothing, quantity |-> 0, amount |-> 0,
         reverses |-> NoId, day |-> 0]

NoUndo == [at |-> "idle", txn |-> NoId]

\* found: the first SELECT of undo succeeded; locked: it holds the row with
\* FOR UPDATE; cleared: nothing reverses the row yet.
UndoSteps == {"idle", "found", "locked", "cleared"}

TypeOK ==
    /\ txns \in [Ids -> Row]
    /\ moves \in [Ids -> Int]
    /\ credits \in [Ids -> Int]
    /\ today \in Nat
    /\ closed \subseteq Ids
    /\ undo \in [Undoers -> [at : UndoSteps, txn : Ids \cup {NoId}]]

Init ==
    /\ txns = [i \in Ids |-> Free]
    /\ moves = [i \in Ids |-> 0]
    /\ credits = [i \in Ids |-> 0]
    /\ today = 1
    /\ closed = {}
    /\ undo = [u \in Undoers |-> NoUndo]

Posted == {i \in Ids : txns[i].type # "NONE"}

\* BIGSERIAL: the next id.
NextId(i) == i \in Ids \ Posted /\ \A j \in Ids \ Posted : i <= j

\* Bound: an undo under way always finds an id left for its reversal.
Room == Cardinality(Ids \ Posted) > Cardinality({u \in Undoers : undo[u].at # "idle"})

-----------------------------------------------------------------------------
(* The ValueErrors of post_decision and the CHECKs of its rows: a decision *)
(* that fails one rolls the whole transaction back.                        *)
Postable(d) ==
    /\ d.type \in {"CREDIT_SALE", "CREDIT_REPAYMENT"} => d.customer # Nobody /\ d.amount > 0
    /\ d.type # "CREDIT_REPAYMENT" => d.product # Nothing /\ d.quantity > 0

StockDelta(d) ==
    CASE d.type \in {"CREDIT_SALE", "CASH_SALE"} -> -d.quantity
      [] d.type = "CREDIT_REPAYMENT" -> 0
      [] d.type = "INVENTORY_PURCHASE" -> d.quantity
      [] d.type = "STOCK_ADJUSTMENT" -> IF d.direction = "OUT" THEN -d.quantity ELSE d.quantity

\* Mutant: a repayment adds to the debt.
MutCreditDelta(d) == IF d.type \in {"CREDIT_SALE", "CREDIT_REPAYMENT"} THEN d.amount ELSE 0

CreditDelta(d) ==
    CASE d.type = "CREDIT_SALE" -> d.amount
      [] d.type = "CREDIT_REPAYMENT" -> -d.amount
      [] OTHER -> 0

(* post_decision and the commit of its caller.                             *)
Post(d) ==
    /\ Room
    /\ Postable(d)
    /\ \E i \in Ids :
        /\ NextId(i)
        /\ txns' = [txns EXCEPT ![i] =
               [type |-> d.type, customer |-> d.customer, product |-> d.product,
                quantity |-> d.quantity, amount |-> d.amount, reverses |-> NoId, day |-> today]]
        /\ moves' = [moves EXCEPT ![i] = StockDelta(d)]
        /\ credits' = [credits EXCEPT ![i] = CreditDelta(d)]
    /\ UNCHANGED <<today, closed, undo>>

-----------------------------------------------------------------------------
(* undo reads the transaction and its age.  An unknown id or one past the  *)
(* window is answered at once.                                             *)
FindForUndo(u, t) ==
    /\ Room
    /\ undo[u].at = "idle"
    /\ t \in Posted \ closed
    /\ undo' = [undo EXCEPT ![u] = [at |-> "found", txn |-> t]]
    /\ UNCHANGED <<txns, moves, credits, today, closed>>

\* Mutant: SELECT without FOR UPDATE.
MutHolders(t) == {u \in Undoers : FALSE}

\* Undoers that hold the row lock of a transaction.
Holders(t) == {u \in Undoers : undo[u].txn = t /\ undo[u].at \in {"locked", "cleared"}}

(* reverse_transaction: SELECT ... FOR UPDATE waits for the other holder.  *)
(* A REVERSAL is not undone.                                               *)
LockForUndo(u) ==
    /\ undo[u].at = "found"
    /\ Holders(undo[u].txn) = {}
    /\ undo' = [undo EXCEPT ![u] = IF txns[undo[u].txn].type = "REVERSAL" THEN NoUndo
                                   ELSE [@ EXCEPT !.at = "locked"]]
    /\ UNCHANGED <<txns, moves, credits, today, closed>>

\* The transactions that reverse t.
ReversalsOf(t) == {i \in Ids : txns[i].reverses = t}

\* Mutant: the transaction is kept open when there is nothing to undo.
MutCheckUndone(u) ==
    /\ undo[u].at = "locked"
    /\ ReversalsOf(undo[u].txn) = {}
    /\ undo' = [undo EXCEPT ![u].at = "cleared"]
    /\ UNCHANGED <<txns, moves, credits, today, closed>>

(* A fresh read, which sees what the last holder committed.                *)
CheckUndone(u) ==
    /\ undo[u].at = "locked"
    /\ undo' = [undo EXCEPT ![u] = IF ReversalsOf(@.txn) # {} THEN NoUndo
                                   ELSE [@ EXCEPT !.at = "cleared"]]
    /\ UNCHANGED <<txns, moves, credits, today, closed>>

\* Mutants: a reversal of type REVERSED, the word of the audit log; rows
\* copied without negating them.
BadReversal(u, type, sign) ==
    /\ undo[u].at = "cleared"
    /\ \E i \in Ids :
        /\ NextId(i)
        /\ txns' = [txns EXCEPT ![i] =
               [txns[undo[u].txn] EXCEPT !.type = type, !.reverses = undo[u].txn, !.day = today]]
        /\ moves' = [moves EXCEPT ![i] = sign * moves[undo[u].txn]]
        /\ credits' = [credits EXCEPT ![i] = sign * credits[undo[u].txn]]
    /\ undo' = [undo EXCEPT ![u] = NoUndo]
    /\ UNCHANGED <<today, closed>>
MutReverseType(u) == BadReversal(u, "REVERSED", -1)
MutReverseSign(u) == BadReversal(u, "REVERSAL", 1)

(* The REVERSAL row and the negated rows, then commit, which releases the  *)
(* lock.                                                                   *)
Reverse(u) ==
    /\ undo[u].at = "cleared"
    /\ LET t == undo[u].txn IN
        \E i \in Ids :
            /\ NextId(i)
            /\ txns' = [txns EXCEPT ![i] =
                   [txns[t] EXCEPT !.type = "REVERSAL", !.reverses = t, !.day = today]]
            /\ moves' = [moves EXCEPT ![i] = -moves[t]]
            /\ credits' = [credits EXCEPT ![i] = -credits[t]]
    /\ undo' = [undo EXCEPT ![u] = NoUndo]
    /\ UNCHANGED <<today, closed>>

(* The connection or the process is lost: the transaction rolls back.      *)
AbortUndo(u) ==
    /\ undo[u].at # "idle"
    /\ undo' = [undo EXCEPT ![u] = NoUndo]
    /\ UNCHANGED <<txns, moves, credits, today, closed>>

\* The undo window of a transaction passes, the oldest one's first.
WindowCloses(t) ==
    /\ t \in Posted \ closed
    /\ \A s \in Posted \ closed : t <= s
    /\ closed' = closed \cup {t}
    /\ UNCHANGED <<txns, moves, credits, today, undo>>

NextDay ==
    /\ today < Days
    /\ today' = today + 1
    /\ UNCHANGED <<txns, moves, credits, closed, undo>>

UndoStep(u) == LockForUndo(u) \/ CheckUndone(u) \/ Reverse(u)

Next ==
    \/ \E d \in Decisions : Post(d)
    \/ \E u \in Undoers : UndoStep(u) \/ AbortUndo(u) \/ \E t \in Ids : FindForUndo(u, t)
    \/ \E t \in Ids : WindowCloses(t)
    \/ NextDay

Spec == Init /\ [][Next]_vars

-----------------------------------------------------------------------------
(* The views: sums over rows.                                              *)
SumOver(f, S) == MapThenSumSet(LAMBDA x : f[x], S)

Stock(p) == SumOver(moves, {i \in Posted : txns[i].product = p})

Balance(c) == SumOver(credits, {i \in Posted : txns[i].customer = c})

\* Mutant: what was undone still counts.
MutCounted(day) == {i \in Posted : txns[i].day = day}

\* daily_summary leaves out what was reversed, on whatever day.
Counted(day) == {i \in Posted : txns[i].day = day /\ ReversalsOf(i) = {}}

Amounts == [i \in Ids |-> txns[i].amount]

Total(day, type) == SumOver(Amounts, {i \in Counted(day) : txns[i].type = type})

CreditGiven(day) == Total(day, "CREDIT_SALE")
CreditCollected(day) == Total(day, "CREDIT_REPAYMENT")

-----------------------------------------------------------------------------
(* A transaction is reversed at most once and a reversal never, whatever   *)
(* taps race (test_pipeline.py:203, bookkeeping.py:85).                    *)
OneReversal ==
    \A i, j \in Posted :
        /\ txns[i].reverses # NoId /\ txns[i].reverses = txns[j].reverses => i = j
        /\ txns[i].reverses = j => txns[j].type # "REVERSAL"

(* What counts: neither undone nor an undo.                                *)
Live == {i \in Posted : txns[i].type # "REVERSAL" /\ ReversalsOf(i) = {}}

(* ADR-003: derived balances cannot drift.  Each customer owes exactly     *)
(* what live credit sales minus live repayments say, as if what was undone *)
(* had never been entered.                                                 *)
BalanceIsHistory ==
    \A c \in Customers :
        Balance(c) = LET of(type) == {i \in Live : txns[i].customer = c /\ txns[i].type = type} IN
            SumOver(Amounts, of("CREDIT_SALE")) - SumOver(Amounts, of("CREDIT_REPAYMENT"))

(* What was undone leaves no trace in the stock of any product.            *)
StockIsHistory ==
    \A p \in Products :
        Stock(p) = SumOver(moves, {i \in Live : txns[i].product = p})

(* The daily summaries, which add up transactions, agree with the          *)
(* customers' balances, which add up credit_ledger: given minus collected  *)
(* over all days is what all customers owe (queries.py:80-91).             *)
SummariesAgree ==
    SumOver([day \in 1 .. Days |-> CreditGiven(day) - CreditCollected(day)], 1 .. Days)
        = SumOver([c \in Customers |-> Balance(c)], Customers)

-----------------------------------------------------------------------------
(* Postgres grants a row lock in the order it was asked for, and an API    *)
(* task runs while it is not aborted.                                      *)
FairSpec == Spec /\ \A u \in Undoers : SF_vars(LockForUndo(u)) /\ WF_vars(CheckUndone(u) \/ Reverse(u))

(* Undo always answers: of two undos of one entry, the one that waits for  *)
(* the row is let in and told, whether or not the other got through.       *)
UndoEnds == \A u \in Undoers : undo[u].at = "found" ~> undo[u].at = "idle"
=============================================================================
