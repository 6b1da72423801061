---------------------------- MODULE LedgerProofs ----------------------------
(***************************************************************************)
(* No interleaving of undos reverses a transaction twice, for any number   *)
(* of transactions, decisions and undoers: the row lock taken by           *)
(* reverse_transaction, followed by a fresh read, is enough.  And so the   *)
(* views, which add up rows, never drift from what was entered and not     *)
(* undone.                                                                 *)
(***************************************************************************)
EXTENDS Ledger, TLAPS, FiniteSetTheorems, WellFoundedInduction

-----------------------------------------------------------------------------
(* Sums.  The library's sum over a set is a recursive function; induction  *)
(* over finite sets is by a least counterexample.                          *)
Pick(s) == CHOOSE x \in s : TRUE

Unfold(f, g, s) == IF s = {} THEN 0 ELSE f[Pick(s)] + g[s \ {Pick(s)}]
Iter(f, S) == CHOOSE g : g = [s \in SUBSET S |-> Unfold(f, g, s)]

LEMMA SumIsIter == ASSUME NEW f, NEW S PROVE SumOver(f, S) = Iter(f, S)[S]
BY DEF SumOver, MapThenSumSet, MapThenFoldSet, Iter, Unfold, Pick

LEMMA Picked == ASSUME NEW s, s # {} PROVE Pick(s) \in s
BY DEF Pick

LEMMA LeastSet ==
    ASSUME NEW B, B # {}, \A s \in B : IsFiniteSet(s)
    PROVE  \E s \in B : \A t \in B : t \subseteq s => t = s
<1> DEFINE R == OpToRel(<, Nat)
           sizes == {Cardinality(s) : s \in B}
<1>1. sizes \subseteq Nat /\ sizes # {}
    BY FS_CardinalityType
<1>2. IsWellFoundedOn(R, Nat)
    BY NatLessThanWellFounded
<1>3. \A j, k \in Nat : <<j, k>> \in R <=> j < k
    BY DEF OpToRel
<1> HIDE DEF R, sizes
<1>4. PICK n \in sizes : \A k \in sizes : <<k, n>> \notin R
    BY <1>1, <1>2, WFMin, Zenon
<1>5. PICK s \in B : Cardinality(s) = n
    BY DEF sizes
<1>6. ASSUME NEW t \in B, t \subseteq s, t # s PROVE FALSE
    <2>1. Cardinality(t) < Cardinality(s) /\ Cardinality(t) \in Nat
        BY <1>6, FS_Subset, FS_CardinalityType
    <2> QED BY <1>1, <1>3, <1>4, <1>5, <2>1 DEF sizes
<1> QED BY <1>5, <1>6

IsIter(f, S, g) == g = [s \in SUBSET S |-> Unfold(f, g, s)]

LEMMA OneIter ==
    ASSUME NEW f, NEW S, NEW T, NEW g, NEW h, IsIter(f, S, g), IsIter(f, T, h),
           NEW s, s \subseteq S, s \subseteq T, IsFiniteSet(s)
    PROVE  g[s] = h[s]
<1> DEFINE B == {t \in SUBSET s : g[t] # h[t]}
<1> SUFFICES ASSUME B # {} PROVE FALSE
    OBVIOUS
<1>1. \A t \in B : IsFiniteSet(t)
    BY FS_Subset
<1>2. PICK t \in B : \A u \in B : u \subseteq t => u = t
    <2> HIDE DEF B
    <2> QED BY <1>1, LeastSet
<1>3. g[t] = Unfold(f, g, t) /\ h[t] = Unfold(f, h, t)
    BY DEF IsIter
<1>4. CASE t = {}
    BY <1>3, <1>4 DEF Unfold
<1>5. CASE t # {}
    <2>1. Pick(t) \in t
        BY <1>5, Picked
    <2>2. t \ {Pick(t)} \notin B
        BY <1>2, <2>1
    <2>3. g[t \ {Pick(t)}] = h[t \ {Pick(t)}]
        BY <2>2
    <2> QED BY <1>3, <1>5, <2>3 DEF Unfold
<1> QED BY <1>4, <1>5

\* The library's recursive function exists on every finite set.
LEMMA IterExists ==
    ASSUME NEW f, NEW S, IsFiniteSet(S)
    PROVE  IsIter(f, S, Iter(f, S))
<1> DEFINE B == {s \in SUBSET S : ~IsIter(f, s, Iter(f, s))}
<1> SUFFICES ASSUME B # {} PROVE FALSE
    OBVIOUS
<1>1. \A s \in B : IsFiniteSet(s)
    BY FS_Subset
<1>2. PICK T \in B : \A u \in B : u \subseteq T => u = T
    <2> HIDE DEF B
    <2> QED BY <1>1, LeastSet
<1>3. IsFiniteSet(T)
    BY <1>1
<1> DEFINE rest(s) == s \ {Pick(s)}
           h == [s \in SUBSET T |-> IF s = {} THEN 0 ELSE f[Pick(s)] + Iter(f, rest(s))[rest(s)]]
<1>4. ASSUME NEW s \in SUBSET T, s # {} PROVE rest(s) \in SUBSET T /\ rest(s) # T /\ IsIter(f, rest(s), Iter(f, rest(s)))
    <2>1. Pick(s) \in s
        BY <1>4, Picked
    <2> QED BY <1>2, <1>4, <2>1
<1>5. ASSUME NEW s \in SUBSET T PROVE h[s] = Unfold(f, h, s)
    <2>1. CASE s = {}
        BY <2>1 DEF Unfold
    <2>2. CASE s # {}
        <3> DEFINE u == rest(s)
        <3>1. u \in SUBSET T /\ IsIter(f, u, Iter(f, u)) /\ IsFiniteSet(u)
            BY <1>3, <1>4, <2>2, FS_Subset
        <3>2. h[s] = f[Pick(s)] + Iter(f, u)[u]
            BY <2>2
        <3>3. Iter(f, u)[u] = Unfold(f, Iter(f, u), u)
            BY <3>1 DEF IsIter
        <3>4. h[u] = Iter(f, u)[u]
            <4>1. CASE u = {}
                BY <3>1, <3>3, <4>1 DEF Unfold
            <4>2. CASE u # {}
                <5> DEFINE v == rest(u)
                <5>1. v \in SUBSET T /\ IsIter(f, v, Iter(f, v)) /\ IsFiniteSet(v) /\ v \subseteq u
                    BY <1>3, <1>4, <3>1, <4>2, FS_Subset
                <5> HIDE DEF u
                <5>2. Iter(f, u)[v] = Iter(f, v)[v]
                    BY <3>1, <5>1, OneIter
                <5>3. h[u] = f[Pick(u)] + Iter(f, v)[v]
                    BY <3>1, <4>2
                <5> QED BY <3>3, <4>2, <5>2, <5>3 DEF Unfold
            <4> QED BY <4>1, <4>2
        <3> HIDE DEF h
        <3> QED BY <2>2, <3>2, <3>4 DEF Unfold
    <2> QED BY <2>1, <2>2
<1>6. h = [s \in SUBSET T |-> Unfold(f, h, s)]
    <2>1. h = [s \in SUBSET T |-> h[s]]
        OBVIOUS
    <2> HIDE DEF h
    <2> QED BY <1>5, <2>1
<1> HIDE DEF h
<1>7. IsIter(f, T, Iter(f, T))
    BY <1>6 DEF Iter, IsIter
<1> QED BY <1>7

LEMMA SumEmpty == ASSUME NEW f PROVE SumOver(f, {}) = 0
<1>1. IsIter(f, {}, Iter(f, {}))
    BY IterExists, FS_EmptySet
<1>2. Iter(f, {})[{}] = Unfold(f, Iter(f, {}), {})
    BY <1>1 DEF IsIter
<1> QED BY <1>2, SumIsIter DEF Unfold

LEMMA SumUnfolds ==
    ASSUME NEW f, NEW S, IsFiniteSet(S), S # {}
    PROVE  SumOver(f, S) = f[Pick(S)] + SumOver(f, S \ {Pick(S)})
<1> DEFINE T == S \ {Pick(S)}
<1>1. IsFiniteSet(T)
    BY FS_Subset
<1>2. IsIter(f, S, Iter(f, S)) /\ IsIter(f, T, Iter(f, T))
    BY <1>1, IterExists
<1>3. Iter(f, S)[S] = f[Pick(S)] + Iter(f, S)[T]
    BY <1>2 DEF IsIter, Unfold
<1> HIDE DEF T
<1>4. T \subseteq S
    BY DEF T
<1>5. Iter(f, S)[T] = Iter(f, T)[T]
    BY <1>1, <1>2, <1>4, OneIter
<1> QED BY <1>3, <1>5, SumIsIter DEF T

\* Sums of whole numbers are whole numbers.
LEMMA SumInt ==
    ASSUME NEW f, NEW S, IsFiniteSet(S), \A x \in S : f[x] \in Int
    PROVE  SumOver(f, S) \in Int
<1> DEFINE B == {s \in SUBSET S : SumOver(f, s) \notin Int}
<1> SUFFICES ASSUME B # {} PROVE FALSE
    OBVIOUS
<1>1. \A s \in B : IsFiniteSet(s)
    BY FS_Subset
<1>2. PICK s \in B : \A u \in B : u \subseteq s => u = s
    <2> HIDE DEF B
    <2> QED BY <1>1, LeastSet
<1>3. s # {}
    BY SumEmpty
<1>4. Pick(s) \in s
    BY <1>3, Picked
<1>5. SumOver(f, s) = f[Pick(s)] + SumOver(f, s \ {Pick(s)})
    BY <1>1, <1>3, SumUnfolds
<1>6. SumOver(f, s \ {Pick(s)}) \in Int
    BY <1>2, <1>4
<1> QED BY <1>4, <1>5, <1>6

\* Only the summands count.
LEMMA SumSame ==
    ASSUME NEW f, NEW g, NEW S, IsFiniteSet(S), \A x \in S : f[x] = g[x]
    PROVE  SumOver(f, S) = SumOver(g, S)
<1> DEFINE B == {s \in SUBSET S : SumOver(f, s) # SumOver(g, s)}
<1> SUFFICES ASSUME B # {} PROVE FALSE
    OBVIOUS
<1>1. \A s \in B : IsFiniteSet(s)
    BY FS_Subset
<1>2. PICK s \in B : \A u \in B : u \subseteq s => u = s
    <2> HIDE DEF B
    <2> QED BY <1>1, LeastSet
<1>3. s # {}
    BY SumEmpty
<1>4. Pick(s) \in s
    BY <1>3, Picked
<1>5. /\ SumOver(f, s) = f[Pick(s)] + SumOver(f, s \ {Pick(s)})
      /\ SumOver(g, s) = g[Pick(s)] + SumOver(g, s \ {Pick(s)})
    BY <1>1, <1>3, SumUnfolds
<1>6. SumOver(f, s \ {Pick(s)}) = SumOver(g, s \ {Pick(s)})
    BY <1>2, <1>4
<1> QED BY <1>4, <1>5, <1>6

\* Any summand may be taken out first.
LEMMA SumWithout ==
    ASSUME NEW f, NEW S, IsFiniteSet(S), \A x \in S : f[x] \in Int
    PROVE  \A x \in S : SumOver(f, S) = SumOver(f, S \ {x}) + f[x]
<1> DEFINE Bad(s) == \E x \in s : SumOver(f, s) # SumOver(f, s \ {x}) + f[x]
           B == {s \in SUBSET S : Bad(s)}
<1> SUFFICES ASSUME B # {} PROVE FALSE
    OBVIOUS
<1>1. \A s \in SUBSET S : IsFiniteSet(s) /\ SumOver(f, s) \in Int
    BY FS_Subset, SumInt
<1>2. PICK s \in B : \A u \in B : u \subseteq s => u = s
    <2>1. \A s \in B : IsFiniteSet(s)
        BY <1>1
    <2> HIDE DEF B
    <2> QED BY <2>1, LeastSet
<1>3. s \in SUBSET S /\ \A u \in SUBSET s : u # s => ~Bad(u)
    BY <1>2
<1>4. PICK x \in s : SumOver(f, s) # SumOver(f, s \ {x}) + f[x]
    BY <1>2
<1> DEFINE p == Pick(s)
           less == s \ {p}
           rest == less \ {x}
<1>5. p \in s
    BY <1>4, Picked
<1>6. SumOver(f, s) = f[p] + SumOver(f, less)
    BY <1>1, <1>3, <1>4, SumUnfolds
<1>7. SumOver(f, less) \in Int /\ SumOver(f, rest) \in Int /\ f[p] \in Int /\ f[x] \in Int
    BY <1>1, <1>3, <1>5
<1>8. p # x
    <2> SUFFICES ASSUME p = x PROVE FALSE
        OBVIOUS
    <2>1. s \ {x} = less
        OBVIOUS
    <2> HIDE DEF less, p
    <2> QED BY <1>4, <1>6, <1>7, <2>1
<1>9. ~Bad(less) /\ ~Bad(s \ {x})
    <2> HIDE DEF Bad
    <2> QED BY <1>3, <1>5
<1> HIDE DEF p
<1>10. SumOver(f, less) = SumOver(f, rest) + f[x]
    BY <1>4, <1>8, <1>9
<1>11. SumOver(f, s \ {x}) = SumOver(f, rest) + f[p]
    <2>1. rest = (s \ {x}) \ {p}
        OBVIOUS
    <2> HIDE DEF rest
    <2> QED BY <1>5, <1>8, <1>9, <2>1
<1> HIDE DEF B, Bad, less, rest
<1> QED BY <1>4, <1>6, <1>7, <1>10, <1>11

LEMMA SumWith ==
    ASSUME NEW f, NEW S, IsFiniteSet(S), NEW x, x \notin S, \A y \in S \cup {x} : f[y] \in Int
    PROVE  SumOver(f, S \cup {x}) = SumOver(f, S) + f[x]
<1>1. IsFiniteSet(S \cup {x}) /\ S = (S \cup {x}) \ {x}
    BY FS_AddElement
<1> DEFINE T == S \cup {x}
<1>2. x \in T /\ \A y \in T : f[y] \in Int
    OBVIOUS
<1> HIDE DEF T
<1>3. SumOver(f, T) = SumOver(f, T \ {x}) + f[x]
    BY <1>1, <1>2, SumWithout DEF T
<1> QED BY <1>1, <1>3 DEF T

\* A row enters a sum or does not.
Grows(f, g, S, T, i) ==
    /\ IsFiniteSet(S) /\ i \notin S /\ (T = S \/ T = S \cup {i})
    /\ (\A j \in S : f[j] \in Int /\ g[j] = f[j]) /\ g[i] \in Int

LEMMA SumEnters ==
    ASSUME NEW f, NEW g, NEW S, NEW T, NEW i, Grows(f, g, S, T, i)
    PROVE  SumOver(g, T) = SumOver(f, S) + (IF i \in T THEN g[i] ELSE 0)
<1> USE DEF Grows
<1>1. SumOver(g, S) = SumOver(f, S) /\ SumOver(f, S) \in Int
    BY SumSame, SumInt
<1>2. CASE T = S
    BY <1>1, <1>2
<1>3. CASE T = S \cup {i}
    <2>1. SumOver(g, S \cup {i}) = SumOver(g, S) + g[i]
        BY SumWith
    <2> QED BY <1>1, <1>3, <2>1
<1> QED BY <1>2, <1>3

\* A row that was in a sum leaves it.
Shrinks(f, g, S, t) ==
    IsFiniteSet(S) /\ (\A j \in S : f[j] \in Int) /\ \A j \in S \ {t} : g[j] = f[j]

LEMMA SumLeaves ==
    ASSUME NEW f, NEW g, NEW S, NEW t, Shrinks(f, g, S, t)
    PROVE  SumOver(g, S \ {t}) = SumOver(f, S) - (IF t \in S THEN f[t] ELSE 0)
<1> USE DEF Shrinks
<1>1. IsFiniteSet(S \ {t})
    BY FS_Subset
<1>2. SumOver(g, S \ {t}) = SumOver(f, S \ {t}) /\ SumOver(f, S \ {t}) \in Int
    <2> DEFINE T == S \ {t}
    <2>1. IsFiniteSet(T) /\ (\A j \in T : g[j] = f[j]) /\ (\A j \in T : f[j] \in Int)
        BY <1>1
    <2> HIDE DEF T
    <2>2. SumOver(g, T) = SumOver(f, T) /\ SumOver(f, T) \in Int
        BY <2>1, SumSame, SumInt
    <2> QED BY <2>2 DEF T
<1>3. CASE t \in S
    <2>1. SumOver(f, S) = SumOver(f, S \ {t}) + f[t]
        BY <1>3, SumWithout
    <2> QED BY <1>2, <1>3, <2>1
<1>4. CASE t \notin S
    <2>1. S \ {t} = S
        BY <1>4
    <2> QED BY <1>2, <1>4, <2>1
<1> QED BY <1>3, <1>4

-----------------------------------------------------------------------------
\* StockDelta and CreditDelta are whole numbers.
LEMMA DeltasAreInts ==
    ASSUME NEW d \in Decision
    PROVE  StockDelta(d) \in Int /\ CreditDelta(d) \in Int
BY DEF Decision, Types, StockDelta, CreditDelta

\* An undo under way has a target.
Aimed == \A u \in Undoers : undo[u].at # "idle" => undo[u].txn \in Ids

LEMMA LedgerTypeInductive == TypeOK /\ Aimed /\ [Next]_vars => TypeOK'
<1> SUFFICES ASSUME TypeOK, Aimed, [Next]_vars PROVE TypeOK'
    OBVIOUS
<1> USE LedgerAssumption DEF TypeOK
<1>1. ASSUME NEW d \in Decisions, Post(d) PROVE TypeOK'
    <2>1. d \in Decision /\ StockDelta(d) \in Int /\ CreditDelta(d) \in Int
        BY DeltasAreInts
    <2>2. [type |-> d.type, customer |-> d.customer, product |-> d.product, quantity |-> d.quantity,
           amount |-> d.amount, reverses |-> NoId, day |-> today] \in Row
        BY <2>1 DEF Decision, Row
    <2> QED BY <1>1, <2>1, <2>2 DEF Post, NextId
<1>2. ASSUME NEW u \in Undoers, NEW t \in Ids, FindForUndo(u, t) PROVE TypeOK'
    BY <1>2 DEF FindForUndo, UndoSteps
<1>3. ASSUME NEW u \in Undoers, LockForUndo(u) \/ CheckUndone(u) \/ AbortUndo(u) PROVE TypeOK'
    <2>1. undo[u] \in [at : UndoSteps, txn : Ids \cup {NoId}]
        OBVIOUS
    <2>2. PICK r \in [at : UndoSteps, txn : Ids \cup {NoId}] : undo' = [undo EXCEPT ![u] = r]
        BY <1>3, <2>1 DEF LockForUndo, CheckUndone, AbortUndo, NoUndo, UndoSteps
    <2> QED BY <1>3, <2>2 DEF LockForUndo, CheckUndone, AbortUndo
<1>4. ASSUME NEW u \in Undoers, Reverse(u) PROVE TypeOK'
    <2> DEFINE t == undo[u].txn
               row == [txns[t] EXCEPT !.type = "REVERSAL", !.reverses = t, !.day = today]
    <2>1. t \in Ids
        BY <1>4 DEF Reverse, Aimed
    <2>2. txns[t] \in Row /\ -moves[t] \in Int /\ -credits[t] \in Int
        <3> HIDE DEF t
        <3>1. txns[t] \in Row /\ moves[t] \in Int /\ credits[t] \in Int
            BY <2>1
        <3> QED BY <3>1
    <2>3. row \in Row
        BY <2>1, <2>2 DEF Row
    <2>4. PICK i \in Ids : /\ txns' = [txns EXCEPT ![i] = row]
                           /\ moves' = [moves EXCEPT ![i] = -moves[t]]
                           /\ credits' = [credits EXCEPT ![i] = -credits[t]]
        BY <1>4 DEF Reverse, NextId
    <2>5. undo' = [undo EXCEPT ![u] = NoUndo] /\ UNCHANGED <<today, closed>>
        BY <1>4 DEF Reverse
    <2> HIDE DEF t, row
    <2>6. txns' \in [Ids -> Row] /\ moves' \in [Ids -> Int] /\ credits' \in [Ids -> Int]
        BY <2>2, <2>3, <2>4
    <2> QED BY <2>5, <2>6 DEF NoUndo, UndoSteps
<1>5. ASSUME NEW t \in Ids, WindowCloses(t) PROVE TypeOK'
    BY <1>5 DEF WindowCloses
<1>6. ASSUME NextDay PROVE TypeOK'
    BY <1>6 DEF NextDay
<1>7. CASE UNCHANGED vars
    BY <1>7 DEF vars
<1> QED BY <1>1, <1>2, <1>3, <1>4, <1>5, <1>6, <1>7 DEF Next, UndoStep

-----------------------------------------------------------------------------
Locked(u) == undo[u].at \in {"locked", "cleared"}

(* Only REVERSAL rows reverse anything; what an undo has found is a posted *)
(* row, what it has locked is nobody else's and no REVERSAL, and what it   *)
(* has cleared is reversed by nothing, since nobody else may write that.   *)
UndoInv ==
    /\ \A i \in Ids : txns[i].reverses # NoId => txns[i].type = "REVERSAL" /\ txns[i].reverses \in Posted
    /\ \A u \in Undoers : undo[u].at # "idle" => undo[u].txn \in Posted
    /\ \A u \in Undoers : Locked(u) => txns[undo[u].txn].type # "REVERSAL"
    /\ \A u, v \in Undoers : Locked(u) /\ Locked(v) /\ undo[u].txn = undo[v].txn => u = v
    /\ \A u \in Undoers : undo[u].at = "cleared" => ReversalsOf(undo[u].txn) = {}

LEMMA UndoInductive ==
    ASSUME TypeOK, UndoInv, OneReversal, Next
    PROVE  UndoInv' /\ OneReversal'
<1> USE LedgerAssumption DEF TypeOK, UndoInv, OneReversal, Posted, Locked, ReversalsOf
<1>0. \A i \in Ids : txns[i] \in Row
    OBVIOUS
<1>1. ASSUME NEW d \in Decisions, Post(d) PROVE UndoInv' /\ OneReversal'
    <2> DEFINE row == [type |-> d.type, customer |-> d.customer, product |-> d.product,
                       quantity |-> d.quantity, amount |-> d.amount, reverses |-> NoId,
                       day |-> today]
    <2>1. PICK i \in Ids : txns[i].type = "NONE" /\ txns' = [txns EXCEPT ![i] = row]
        BY <1>1 DEF Post, NextId
    <2>2. d.type \in Types
        BY DEF Decision
    <2>3. txns'[i].reverses = NoId /\ txns'[i].type \notin {"NONE", "REVERSAL"}
        BY <2>1, <2>2 DEF Types
    <2>4. \A j \in Ids \ {i} : txns'[j] = txns[j]
        BY <2>1
    <2>5. undo' = undo
        BY <1>1 DEF Post
    <2> QED BY <2>1, <2>3, <2>4, <2>5
<1>2. ASSUME txns' = txns PROVE OneReversal' /\ Posted' = Posted
    BY <1>2
<1>3. ASSUME NEW u \in Undoers, NEW t \in Ids, FindForUndo(u, t) PROVE UndoInv' /\ OneReversal'
    BY <1>2, <1>3 DEF FindForUndo
<1>4. ASSUME NEW u \in Undoers, LockForUndo(u) PROVE UndoInv' /\ OneReversal'
    <2>1. CASE txns[undo[u].txn].type = "REVERSAL"
        BY <1>2, <1>4, <2>1 DEF LockForUndo, NoUndo
    <2>2. CASE txns[undo[u].txn].type # "REVERSAL"
        <3>1. undo' = [undo EXCEPT ![u] = [undo[u] EXCEPT !.at = "locked"]]
            BY <1>4, <2>2 DEF LockForUndo
        <3>2. undo'[u].at = "locked" /\ undo'[u].txn = undo[u].txn
            BY <3>1
        <3>3. \A v \in Undoers \ {u} : undo'[v] = undo[v]
            BY <3>1
        <3>4. \A v \in Undoers : ~(undo[v].txn = undo[u].txn /\ Locked(v))
            BY <1>4 DEF LockForUndo, Holders
        <3> QED BY <1>2, <1>4, <2>2, <3>2, <3>3, <3>4 DEF LockForUndo
    <2> QED BY <2>1, <2>2
<1>5. ASSUME NEW u \in Undoers, CheckUndone(u) PROVE UndoInv' /\ OneReversal'
    <2>1. CASE ReversalsOf(undo[u].txn) # {}
        BY <1>2, <1>5, <2>1 DEF CheckUndone, NoUndo
    <2>2. CASE ReversalsOf(undo[u].txn) = {}
        <3>1. undo' = [undo EXCEPT ![u] = [undo[u] EXCEPT !.at = "cleared"]]
            BY <1>5, <2>2 DEF CheckUndone
        <3>2. undo'[u].at = "cleared" /\ undo'[u].txn = undo[u].txn /\ undo[u].at = "locked"
            BY <1>5, <3>1 DEF CheckUndone
        <3>3. \A v \in Undoers \ {u} : undo'[v] = undo[v]
            BY <3>1
        <3> QED BY <1>2, <1>5, <2>2, <3>2, <3>3 DEF CheckUndone
    <2> QED BY <2>1, <2>2
<1>6. ASSUME NEW u \in Undoers, Reverse(u) PROVE UndoInv' /\ OneReversal'
    <2> DEFINE t == undo[u].txn
               row == [txns[t] EXCEPT !.type = "REVERSAL", !.reverses = t, !.day = today]
    <2>1. /\ t \in Posted /\ t # NoId /\ txns[t].type # "REVERSAL"
          /\ \A j \in Ids : txns[j].reverses # t
        BY <1>6 DEF Reverse
    <2>2. PICK i \in Ids : txns[i].type = "NONE" /\ txns' = [txns EXCEPT ![i] = row]
        BY <1>6 DEF Reverse, NextId
    <2>3. row.type = "REVERSAL" /\ row.reverses = t
        BY <1>0, <2>1 DEF Row
    <2> HIDE DEF row
    <2>4. txns'[i] = row /\ \A j \in Ids \ {i} : txns'[j] = txns[j]
        BY <2>2
    <2>5. t # i
        BY <2>1, <2>2
    <2>6. undo'[u].at = "idle" /\ \A v \in Undoers \ {u} : undo'[v] = undo[v]
        BY <1>6 DEF Reverse, NoUndo
    <2>7. \A v \in Undoers \ {u} : Locked(v) => undo[v].txn # t
        BY <1>6 DEF Reverse
    <2>8. OneReversal'
        BY <2>1, <2>2, <2>3, <2>4, <2>5
    <2>9. UndoInv'
        BY <2>1, <2>2, <2>3, <2>4, <2>5, <2>6, <2>7
    <2> QED BY <2>8, <2>9
<1>7. ASSUME NEW u \in Undoers, AbortUndo(u) PROVE UndoInv' /\ OneReversal'
    BY <1>2, <1>7 DEF AbortUndo, NoUndo
<1>8. ASSUME UNCHANGED <<txns, undo>> PROVE UndoInv' /\ OneReversal'
    BY <1>2, <1>8
<1> QED BY <1>1, <1>3, <1>4, <1>5, <1>6, <1>7, <1>8 DEF Next, UndoStep, WindowCloses, NextDay

LedgerInv == TypeOK /\ UndoInv /\ OneReversal

LEMMA LedgerInductive == LedgerInv /\ [Next]_vars => LedgerInv'
<1>1. ASSUME LedgerInv PROVE TypeOK /\ Aimed
    BY <1>1 DEF LedgerInv, UndoInv, Aimed, Posted
<1>2. ASSUME LedgerInv, Next PROVE LedgerInv'
    BY <1>1, <1>2, LedgerTypeInductive, UndoInductive DEF LedgerInv
<1>3. ASSUME LedgerInv, UNCHANGED vars PROVE LedgerInv'
    BY <1>3 DEF LedgerInv, TypeOK, UndoInv, OneReversal, Posted, Locked, ReversalsOf, vars
<1> QED BY <1>2, <1>3

LEMMA InitLedger == Init => LedgerInv
BY LedgerAssumption
   DEF Init, LedgerInv, TypeOK, UndoInv, OneReversal, Posted, Locked, ReversalsOf, Free, Row,
       NoUndo, UndoSteps

LEMMA Ledgered == Spec => []LedgerInv
BY InitLedger, LedgerInductive, PTL DEF Spec

(* Every row of the three tables, and every undo under way, is well-typed  *)
(* in every reachable state (bookkeeping.py:17-109).                       *)
THEOREM LedgerTypeCorrect == Spec => []TypeOK
BY Ledgered, PTL DEF LedgerInv

(* Double taps, undos of undos and crashes never reverse a transaction     *)
(* twice, nor a REVERSAL at all (bookkeeping.py:84-109).                   *)
THEOREM ReversedAtMostOnce == Spec => []OneReversal
BY Ledgered, PTL DEF LedgerInv

-----------------------------------------------------------------------------
(* What a row says of itself: its day is one of the summaries', a debt or  *)
(* a repayment is a customer's, and its credit_ledger row is its amount.   *)
Entered(i) ==
    /\ txns[i].type \in {"CREDIT_SALE", "CREDIT_REPAYMENT"} => txns[i].customer \in Customers
    /\ txns[i].type # "REVERSAL" => credits[i] = CreditDelta(txns[i])

RowsAgree ==
    /\ today \in 1 .. Days
    /\ \A i \in Posted : txns[i].day \in 1 .. Days /\ Entered(i)

\* A step enters a row, or undoes one, or leaves the books alone.
RowAdded(i) ==
    /\ i \in Ids \ Posted /\ Posted' = Posted \cup {i}
    /\ moves'[i] \in Int /\ credits'[i] \in Int /\ txns'[i].day = today
    /\ \A j \in Posted : /\ txns'[j] = txns[j] /\ moves'[j] = moves[j]
                         /\ credits'[j] = credits[j]

Enters(i) ==
    /\ RowAdded(i)
    /\ txns'[i].type \in Types /\ txns'[i].amount \in Nat /\ Entered(i)'
    /\ Live' = Live \cup {i}
    /\ \A j \in Ids : ReversalsOf(j)' = ReversalsOf(j)
    /\ ReversalsOf(i) = {}

Undoes(i, t) ==
    /\ RowAdded(i)
    /\ t \in Live /\ Live' = Live \ {t}
    /\ txns'[i] = [txns[t] EXCEPT !.type = "REVERSAL", !.reverses = t, !.day = today]
    /\ moves'[i] = -moves[t] /\ credits'[i] = -credits[t]
    /\ \A j \in Ids : ReversalsOf(j)' = IF j = t THEN {i} ELSE ReversalsOf(j)

BooksKept == UNCHANGED <<txns, moves, credits>>

\* A free id is reversed by nothing and reverses nothing.
LEMMA FreeIdIsFresh ==
    ASSUME LedgerInv, NEW i \in Ids \ Posted
    PROVE  ReversalsOf(i) = {} /\ txns[i].reverses = NoId
<1>1. \A j \in Ids : txns[j].reverses # NoId => txns[j].type = "REVERSAL" /\ txns[j].reverses \in Posted
    BY DEF LedgerInv, UndoInv
<1>2. i # NoId /\ txns[i].type = "NONE"
    BY LedgerAssumption DEF Posted
<1>3. txns[i].reverses = NoId
    BY <1>1, <1>2
<1> QED BY <1>1, <1>2, <1>3 DEF ReversalsOf

LEMMA PostEnters ==
    ASSUME LedgerInv, NEW d \in Decisions, Post(d)
    PROVE  \E i \in Ids : Enters(i)
<1> USE LedgerAssumption DEF LedgerInv, TypeOK
<1> DEFINE row == [type |-> d.type, customer |-> d.customer, product |-> d.product,
                   quantity |-> d.quantity, amount |-> d.amount, reverses |-> NoId, day |-> today]
<1>0. d \in Decision /\ StockDelta(d) \in Int /\ CreditDelta(d) \in Int
    BY DeltasAreInts
<1>1. PICK i \in Ids \ Posted : /\ txns' = [txns EXCEPT ![i] = row]
                                /\ moves' = [moves EXCEPT ![i] = StockDelta(d)]
                                /\ credits' = [credits EXCEPT ![i] = CreditDelta(d)]
    BY DEF Post, NextId
<1>2. /\ txns'[i] = row /\ moves'[i] \in Int /\ credits'[i] \in Int /\ credits'[i] = CreditDelta(d)
      /\ \A j \in Ids \ {i} : /\ txns'[j] = txns[j] /\ moves'[j] = moves[j]
                              /\ credits'[j] = credits[j]
    BY <1>0, <1>1
<1>3. row.type \in Types /\ row.amount \in Nat /\ row.type \notin {"NONE", "REVERSAL"}
    BY <1>0 DEF Decision, Types
<1>4. Posted' = Posted \cup {i}
    BY <1>1, <1>2, <1>3 DEF Posted
<1>5. \A j \in Ids : ReversalsOf(j)' = ReversalsOf(j)
    BY <1>1, <1>2 DEF ReversalsOf, UndoInv, Posted
<1>6. ReversalsOf(i) = {}
    BY FreeIdIsFresh
<1>7. CreditDelta(row) = CreditDelta(d)
    BY DEF CreditDelta
<1>8. d.type \in {"CREDIT_SALE", "CREDIT_REPAYMENT"} => d.customer \in Customers
    BY <1>0 DEF Post, Postable, Decision
<1>9. Entered(i)'
    BY <1>2, <1>7, <1>8 DEF Entered
<1>10. Live' = Live \cup {i}
    BY <1>1, <1>2, <1>3, <1>4, <1>5, <1>6 DEF Live, Posted
<1> QED BY <1>1, <1>2, <1>3, <1>4, <1>5, <1>6, <1>9, <1>10 DEF Enters, RowAdded, Posted

LEMMA ReverseUndoes ==
    ASSUME LedgerInv, NEW u \in Undoers, Reverse(u)
    PROVE  \E i, t \in Ids : Undoes(i, t)
<1> USE LedgerAssumption DEF LedgerInv, TypeOK
<1>a. PICK t \in Ids : t = undo[u].txn
    BY DEF Reverse, UndoInv, Posted
<1> DEFINE row == [txns[t] EXCEPT !.type = "REVERSAL", !.reverses = t, !.day = today]
<1>0. t \in Posted /\ t \in Ids /\ t # NoId /\ txns[t].type # "REVERSAL" /\ ReversalsOf(t) = {}
    <2>1. undo[u].at = "cleared"
        BY DEF Reverse
    <2>2. t \in Posted /\ txns[t].type # "REVERSAL" /\ ReversalsOf(t) = {}
        BY <1>a, <2>1 DEF UndoInv, Locked
    <2> QED BY <2>2 DEF Posted
<1>1. PICK i \in Ids \ Posted : /\ txns' = [txns EXCEPT ![i] = row]
                                /\ moves' = [moves EXCEPT ![i] = -moves[t]]
                                /\ credits' = [credits EXCEPT ![i] = -credits[t]]
    BY <1>a DEF Reverse, NextId
<1>2. row.type = "REVERSAL" /\ row.reverses = t /\ row.day = today
    BY <1>0 DEF Row
<1>3. /\ txns'[i] = row /\ moves'[i] = -moves[t] /\ credits'[i] = -credits[t]
      /\ moves[t] \in Int /\ credits[t] \in Int
      /\ \A j \in Ids \ {i} : /\ txns'[j] = txns[j] /\ moves'[j] = moves[j]
                              /\ credits'[j] = credits[j]
    BY <1>0, <1>1
<1>3a. -moves[t] \in Int /\ -credits[t] \in Int
    BY <1>3
<1>4. Posted' = Posted \cup {i}
    BY <1>1, <1>2, <1>3 DEF Posted
<1>5. ASSUME NEW j \in Ids PROVE ReversalsOf(j)' = IF j = t THEN {i} ELSE ReversalsOf(j)
    <2>1. i \notin ReversalsOf(j)
        BY <1>1 DEF ReversalsOf, UndoInv, Posted
    <2>2. ReversalsOf(j)' = ReversalsOf(j) \cup {k \in {i} : t = j}
        BY <1>1, <1>2, <1>3, <2>1 DEF ReversalsOf
    <2> QED BY <1>0, <2>2
<1>6. Live' = Live \ {t} /\ t \in Live
    <2>1. t \in Live /\ i # t
        BY <1>0, <1>1 DEF Live
    <2>2. txns'[i].type = "REVERSAL" /\ ReversalsOf(t)' # {}
        BY <1>0, <1>2, <1>3, <1>5
    <2>3. ASSUME NEW j \in Posted \ {t}
          PROVE  txns'[j] = txns[j] /\ ReversalsOf(j)' = ReversalsOf(j)
        BY <1>1, <1>3, <1>5, <2>3 DEF Posted
    <2>4. Live' = {j \in Posted' : txns'[j].type # "REVERSAL" /\ ReversalsOf(j)' = {}}
        BY DEF Live
    <2>5. \A j : j \in Live' <=> j \in Live \ {t}
        BY <1>4, <2>1, <2>2, <2>3, <2>4 DEF Live
    <2> QED BY <2>1, <2>5
<1>7. RowAdded(i)
    BY <1>1, <1>2, <1>3, <1>3a, <1>4 DEF RowAdded, Posted
<1> QED BY <1>0, <1>1, <1>3, <1>5, <1>6, <1>7 DEF Undoes

LEMMA LedgerSteps ==
    ASSUME LedgerInv, Next
    PROVE  BooksKept \/ (\E i \in Ids : Enters(i)) \/ \E i, t \in Ids : Undoes(i, t)
BY PostEnters, ReverseUndoes
   DEF Next, UndoStep, FindForUndo, LockForUndo, CheckUndone, AbortUndo, WindowCloses, NextDay,
       BooksKept

LEMMA RowsAgreeInductive == LedgerInv /\ RowsAgree /\ [Next]_vars => RowsAgree'
<1>1. ASSUME LedgerInv, RowsAgree, Next PROVE RowsAgree'
    <2>1. today' \in 1 .. Days
        <3>1. today' = today \/ NextDay
            BY <1>1 DEF Next, Post, UndoStep, FindForUndo, LockForUndo, CheckUndone, Reverse,
                        AbortUndo, WindowCloses
        <3>2. today \in 1 .. Days /\ Days \in Nat
            BY <1>1, LedgerAssumption DEF RowsAgree
        <3> QED BY <3>1, <3>2 DEF NextDay
    <2>2. ASSUME BooksKept PROVE RowsAgree'
        BY <1>1, <2>1, <2>2 DEF BooksKept, RowsAgree, Posted, Entered
    <2>3. ASSUME NEW i \in Ids, RowAdded(i), Entered(i)' PROVE RowsAgree'
        <3>1. ASSUME NEW j \in Posted' PROVE txns'[j].day \in 1 .. Days /\ Entered(j)'
            <4>1. CASE j = i
                BY <1>1, <2>3, <4>1 DEF RowAdded, RowsAgree
            <4>2. CASE j # i
                <5>1. j \in Posted /\ txns'[j] = txns[j] /\ credits'[j] = credits[j]
                    BY <2>3, <3>1, <4>2 DEF RowAdded
                <5> QED BY <1>1, <5>1 DEF RowsAgree, Entered
            <4> QED BY <4>1, <4>2
        <3> QED BY <2>1, <3>1 DEF RowsAgree
    <2>4. ASSUME NEW i \in Ids, NEW t \in Ids, Undoes(i, t) PROVE Entered(i)'
        BY <1>1, <2>4 DEF Undoes, Entered, LedgerInv, TypeOK, Row
    <2> QED BY <1>1, <2>2, <2>3, <2>4, LedgerSteps DEF Enters, Undoes
<1>2. ASSUME RowsAgree, UNCHANGED vars PROVE RowsAgree'
    BY <1>2 DEF RowsAgree, Posted, Entered, vars
<1> QED BY <1>1, <1>2

LEMMA InitRows == Init => RowsAgree
BY LedgerAssumption DEF Init, RowsAgree, Posted, Free

LEMMA RowsAlwaysAgree == Spec => []RowsAgree
BY InitRows, RowsAgreeInductive, Ledgered, PTL DEF Spec

\* Sums over rows of finite tables.
LEMMA RowSums ==
    ASSUME LedgerInv
    PROVE  /\ IsFiniteSet(Posted) /\ IsFiniteSet(Live) /\ Live \subseteq Posted /\ Posted \subseteq Ids
           /\ \A i \in Ids : /\ moves[i] \in Int /\ credits[i] \in Int /\ Amounts[i] \in Nat
                             /\ Amounts[i] = txns[i].amount
<1>1. Live \subseteq Posted /\ Posted \subseteq Ids
    BY DEF Live, Posted
<1>2. IsFiniteSet(Posted) /\ IsFiniteSet(Live)
    BY <1>1, LedgerAssumption, FS_Subset
<1>3. \A i \in Ids : txns[i].amount \in Nat
    BY DEF LedgerInv, TypeOK, Row
<1> QED BY <1>1, <1>2, <1>3 DEF LedgerInv, TypeOK, Amounts

LEMMA StockAdds ==
    ASSUME LedgerInv, NEW i \in Ids, RowAdded(i), NEW p
    PROVE  Stock(p)' = Stock(p) + (IF txns'[i].product = p THEN moves'[i] ELSE 0)
<1> DEFINE S == {j \in Posted : txns[j].product = p}
           T == {j \in Posted' : txns'[j].product = p}
<1>1. IsFiniteSet(S)
    BY RowSums, FS_Subset
<1>2. i \notin S /\ (T = S \/ T = S \cup {i}) /\ (i \in T <=> txns'[i].product = p)
    BY DEF RowAdded
<1>3. \A j \in S : moves[j] \in Int /\ moves'[j] = moves[j]
    BY RowSums DEF RowAdded
<1>4. moves'[i] \in Int
    BY DEF RowAdded
<1>5. Stock(p) = SumOver(moves, S) /\ Stock(p)' = SumOver(moves', T)
    BY DEF Stock
<1> HIDE DEF S, T
<1>6. Grows(moves, moves', S, T, i)
    BY <1>1, <1>2, <1>3, <1>4 DEF Grows
<1>7. SumOver(moves', T) = SumOver(moves, S) + (IF i \in T THEN moves'[i] ELSE 0)
    BY <1>6, SumEnters
<1> QED BY <1>2, <1>5, <1>7

LEMMA BalanceAdds ==
    ASSUME LedgerInv, NEW i \in Ids, RowAdded(i), NEW c
    PROVE  Balance(c)' = Balance(c) + (IF txns'[i].customer = c THEN credits'[i] ELSE 0)
<1> DEFINE S == {j \in Posted : txns[j].customer = c}
           T == {j \in Posted' : txns'[j].customer = c}
<1>1. IsFiniteSet(S)
    BY RowSums, FS_Subset
<1>2. i \notin S /\ (T = S \/ T = S \cup {i}) /\ (i \in T <=> txns'[i].customer = c)
    BY DEF RowAdded
<1>3. \A j \in S : credits[j] \in Int /\ credits'[j] = credits[j]
    BY RowSums DEF RowAdded
<1>4. credits'[i] \in Int
    BY DEF RowAdded
<1>5. Balance(c) = SumOver(credits, S) /\ Balance(c)' = SumOver(credits', T)
    BY DEF Balance
<1> HIDE DEF S, T
<1>6. Grows(credits, credits', S, T, i)
    BY <1>1, <1>2, <1>3, <1>4 DEF Grows
<1>7. SumOver(credits', T) = SumOver(credits, S) + (IF i \in T THEN credits'[i] ELSE 0)
    BY <1>6, SumEnters
<1> QED BY <1>2, <1>5, <1>7

LEMMA AmountsEnter ==
    ASSUME LedgerInv, NEW i \in Ids, Enters(i), NEW S \in SUBSET Live, NEW T, T = S \/ T = S \cup {i}
    PROVE  /\ SumOver(Amounts', T) = SumOver(Amounts, S) + (IF i \in T THEN txns'[i].amount ELSE 0)
           /\ SumOver(Amounts, S) \in Int /\ txns'[i].amount \in Nat
<1>1. IsFiniteSet(S) /\ i \notin S /\ \A j \in S : Amounts[j] \in Int
    BY RowSums, FS_Subset DEF Enters, RowAdded
<1>2. txns'[i].amount \in Nat
    BY DEF Enters
<1>3. \A j \in S : Amounts'[j] = Amounts[j]
    BY RowSums DEF Enters, RowAdded, Amounts
<1>4. Amounts'[i] = txns'[i].amount
    BY DEF Amounts
<1>5. Grows(Amounts, Amounts', S, T, i)
    BY <1>1, <1>2, <1>3, <1>4 DEF Grows
<1> QED BY <1>1, <1>2, <1>4, <1>5, SumEnters, SumInt

LEMMA AmountsLeave ==
    ASSUME LedgerInv, NEW i \in Ids, NEW t \in Ids, Undoes(i, t), NEW S \in SUBSET Live
    PROVE  /\ SumOver(Amounts', S \ {t}) = SumOver(Amounts, S) - (IF t \in S THEN txns[t].amount ELSE 0)
           /\ SumOver(Amounts, S) \in Int /\ txns[t].amount \in Nat
<1>1. IsFiniteSet(S) /\ \A j \in S : Amounts[j] \in Int
    BY RowSums, FS_Subset
<1>2. \A j \in S : Amounts'[j] = Amounts[j]
    BY RowSums DEF Undoes, RowAdded, Amounts
<1>3. Amounts[t] = txns[t].amount /\ txns[t].amount \in Nat
    BY RowSums
<1>4. Shrinks(Amounts, Amounts', S, t)
    BY <1>1, <1>2 DEF Shrinks
<1> QED BY <1>1, <1>3, <1>4, SumLeaves, SumInt

-----------------------------------------------------------------------------
(* What was undone leaves no trace in any product's stock: a posting adds  *)
(* its movement to both sides, an undo adds the negated movement to the    *)
(* view and takes its target out of what counts (bookkeeping.py:60-109,    *)
(* 001_init.sql:212-217).                                                  *)
LEMMA StockInductive == LedgerInv /\ StockIsHistory /\ [Next]_vars => StockIsHistory'
<1>1. ASSUME LedgerInv, StockIsHistory, Next, NEW p \in Products
      PROVE  Stock(p)' = SumOver(moves', {j \in Live' : txns'[j].product = p})
    <2> DEFINE S == {j \in Live : txns[j].product = p}
               T == {j \in Live' : txns'[j].product = p}
    <2>1. Stock(p) = SumOver(moves, S) /\ IsFiniteSet(S) /\ \A j \in S : moves[j] \in Int
        BY <1>1, RowSums, FS_Subset DEF StockIsHistory
    <2>2. CASE BooksKept
        BY <2>1, <2>2 DEF BooksKept, Stock, Posted, Live, ReversalsOf
    <2>3. ASSUME NEW i \in Ids, Enters(i) PROVE Stock(p)' = SumOver(moves', T)
        <3>1. Stock(p)' = Stock(p) + (IF txns'[i].product = p THEN moves'[i] ELSE 0)
            BY <1>1, <2>3, StockAdds DEF Enters
        <3>2. /\ i \notin S /\ (T = S \/ T = S \cup {i}) /\ (i \in T <=> txns'[i].product = p)
              /\ moves'[i] \in Int /\ \A j \in S : moves'[j] = moves[j]
            BY <2>3 DEF Enters, RowAdded, Live
        <3> HIDE DEF S, T
        <3>3. Grows(moves, moves', S, T, i)
            BY <2>1, <3>2 DEF Grows
        <3>4. SumOver(moves', T) = SumOver(moves, S) + (IF i \in T THEN moves'[i] ELSE 0)
            BY <3>3, SumEnters
        <3> QED BY <2>1, <3>1, <3>2, <3>4
    <2>4. ASSUME NEW i \in Ids, NEW t \in Ids, Undoes(i, t) PROVE Stock(p)' = SumOver(moves', T)
        <3>1. Stock(p)' = Stock(p) + (IF txns'[i].product = p THEN moves'[i] ELSE 0)
            BY <1>1, <2>4, StockAdds DEF Undoes
        <3>2. txns'[i].product = txns[t].product /\ moves'[i] = -moves[t] /\ moves[t] \in Int
            BY <1>1, <2>4 DEF Undoes, LedgerInv, TypeOK, Row
        <3>3. /\ T = S \ {t} /\ (t \in S <=> txns[t].product = p)
              /\ \A j \in S : moves'[j] = moves[j]
            BY <2>4 DEF Undoes, RowAdded, Live
        <3> HIDE DEF S, T
        <3>4. Shrinks(moves, moves', S, t)
            BY <2>1, <3>3 DEF Shrinks
        <3>5. SumOver(moves', T) = SumOver(moves, S) - (IF t \in S THEN moves[t] ELSE 0)
            BY <3>3, <3>4, SumLeaves
        <3>6. SumOver(moves, S) \in Int
            BY <2>1, SumInt
        <3> QED BY <2>1, <3>1, <3>2, <3>3, <3>5, <3>6
    <2> QED BY <1>1, <2>2, <2>3, <2>4, LedgerSteps
<1>2. ASSUME StockIsHistory, UNCHANGED vars PROVE StockIsHistory'
    BY <1>2 DEF StockIsHistory, Stock, Live, Posted, ReversalsOf, vars
<1> QED BY <1>1, <1>2 DEF StockIsHistory

(* The stock view of every product is what was entered and not undone, for *)
(* any sequence of postings and racing undos (ADR-003,                     *)
(* 001_init.sql:212-217).                                                  *)
THEOREM StockNeverDrifts == Spec => []StockIsHistory
<1>1. Init => StockIsHistory
    <2> SUFFICES ASSUME Init, NEW p \in Products
                 PROVE  Stock(p) = SumOver(moves, {i \in Live : txns[i].product = p})
        BY DEF StockIsHistory
    <2>1. Posted = {} /\ Live = {}
        BY DEF Init, Posted, Live, Free
    <2> QED BY <2>1 DEF Stock
<1> QED BY <1>1, StockInductive, Ledgered, PTL DEF Spec

-----------------------------------------------------------------------------
(* Credit given minus credit collected by a set of live rows: the two sums *)
(* of BalanceIsHistory and of the daily summaries.                         *)
OfType(rows, S, type) == {i \in S : rows[i].type = type}
Net(f, rows, S) ==
    SumOver(f, OfType(rows, S, "CREDIT_SALE")) - SumOver(f, OfType(rows, S, "CREDIT_REPAYMENT"))

LEMMA DeltaIsNet ==
    ASSUME NEW row, row.amount \in Nat
    PROVE  CreditDelta(row) = (IF row.type = "CREDIT_SALE" THEN row.amount ELSE 0)
                              - (IF row.type = "CREDIT_REPAYMENT" THEN row.amount ELSE 0)
BY DEF CreditDelta

LEMMA NetEnters ==
    ASSUME LedgerInv, NEW i \in Ids, Enters(i), NEW S \in SUBSET Live, NEW T, T = S \/ T = S \cup {i}
    PROVE  /\ Net(Amounts', txns', T)
                = Net(Amounts, txns, S) + (IF i \in T THEN CreditDelta(txns'[i]) ELSE 0)
           /\ Net(Amounts, txns, S) \in Int
<1>0. i \notin S /\ \A j \in S : txns'[j] = txns[j]
    BY RowSums DEF Enters, RowAdded
<1>1. ASSUME NEW type
      PROVE  /\ SumOver(Amounts', OfType(txns', T, type))
                  = SumOver(Amounts, OfType(txns, S, type))
                    + (IF i \in T /\ txns'[i].type = type THEN txns'[i].amount ELSE 0)
             /\ SumOver(Amounts, OfType(txns, S, type)) \in Int
    <2> DEFINE A == OfType(txns, S, type)
               B == OfType(txns', T, type)
    <2>1. /\ A \in SUBSET Live /\ (B = A \/ B = A \cup {i})
          /\ i \in B <=> i \in T /\ txns'[i].type = type
        BY <1>0 DEF OfType
    <2> HIDE DEF A, B
    <2>2. /\ SumOver(Amounts', B) = SumOver(Amounts, A) + (IF i \in B THEN txns'[i].amount ELSE 0)
          /\ SumOver(Amounts, A) \in Int
        BY <2>1, AmountsEnter
    <2> QED BY <2>1, <2>2 DEF A, B
<1>2. txns'[i].amount \in Nat
    BY DEF Enters
<1> QED BY <1>1, <1>2, DeltaIsNet DEF Net

LEMMA NetLeaves ==
    ASSUME LedgerInv, NEW i \in Ids, NEW t \in Ids, Undoes(i, t), NEW S \in SUBSET Live
    PROVE  /\ Net(Amounts', txns', S \ {t})
                = Net(Amounts, txns, S) - (IF t \in S THEN CreditDelta(txns[t]) ELSE 0)
           /\ Net(Amounts, txns, S) \in Int
<1>0. \A j \in S : txns'[j] = txns[j]
    BY RowSums DEF Undoes, RowAdded
<1>1. ASSUME NEW type
      PROVE  /\ SumOver(Amounts', OfType(txns', S \ {t}, type))
                  = SumOver(Amounts, OfType(txns, S, type))
                    - (IF t \in S /\ txns[t].type = type THEN txns[t].amount ELSE 0)
             /\ SumOver(Amounts, OfType(txns, S, type)) \in Int
    <2> DEFINE A == OfType(txns, S, type)
    <2>1. A \in SUBSET Live /\ (t \in A <=> t \in S /\ txns[t].type = type)
        BY DEF OfType
    <2>2. OfType(txns', S \ {t}, type) = A \ {t}
        BY <1>0 DEF OfType
    <2> HIDE DEF A
    <2>3. /\ SumOver(Amounts', A \ {t}) = SumOver(Amounts, A) - (IF t \in A THEN txns[t].amount ELSE 0)
          /\ SumOver(Amounts, A) \in Int
        BY <2>1, AmountsLeave
    <2> QED BY <2>1, <2>2, <2>3 DEF A
<1>2. txns[t].amount \in Nat
    BY RowSums
<1> DEFINE U == S \ {t}
<1> HIDE DEF U
<1>3. ASSUME NEW type
      PROVE  /\ SumOver(Amounts', OfType(txns', U, type))
                  = SumOver(Amounts, OfType(txns, S, type))
                    - (IF t \in S /\ txns[t].type = type THEN txns[t].amount ELSE 0)
             /\ SumOver(Amounts, OfType(txns, S, type)) \in Int
    BY <1>1 DEF U
<1>4. /\ Net(Amounts', txns', U)
           = Net(Amounts, txns, S) - (IF t \in S THEN CreditDelta(txns[t]) ELSE 0)
      /\ Net(Amounts, txns, S) \in Int
    BY <1>2, <1>3, DeltaIsNet DEF Net
<1> QED BY <1>4 DEF U

-----------------------------------------------------------------------------
(* A posting changes a customer's balance and net credit by the same       *)
(* amount, and an undo takes both back.                                    *)
LEMMA BalanceInductive ==
    LedgerInv /\ RowsAgree /\ BalanceIsHistory /\ [Next]_vars => BalanceIsHistory'
<1>1. ASSUME LedgerInv, RowsAgree, BalanceIsHistory, Next, NEW c \in Customers
      PROVE  Balance(c)' = Net(Amounts', txns', {j \in Live' : txns'[j].customer = c})
    <2> DEFINE S == {j \in Live : txns[j].customer = c}
               T == {j \in Live' : txns'[j].customer = c}
    <2>1. Balance(c) = Net(Amounts, txns, S) /\ S \in SUBSET Live
        <3>1. \A type : OfType(txns, S, type) = {j \in Live : txns[j].customer = c /\ txns[j].type = type}
            BY DEF OfType
        <3> QED BY <1>1, <3>1 DEF BalanceIsHistory, Net
    <2>2. CASE BooksKept
        <3>1. Balance(c)' = Balance(c)
            BY <2>2 DEF BooksKept, Balance, Posted
        <3>2. Amounts' = Amounts /\ txns' = txns /\ T = S
            BY <2>2 DEF BooksKept, Amounts, Posted, Live, ReversalsOf
        <3> QED BY <2>1, <3>1, <3>2
    <2>3. ASSUME NEW i \in Ids, Enters(i) PROVE Balance(c)' = Net(Amounts', txns', T)
        <3>1. Balance(c)' = Balance(c) + (IF txns'[i].customer = c THEN credits'[i] ELSE 0)
            BY <1>1, <2>3, BalanceAdds DEF Enters
        <3>2. credits'[i] = CreditDelta(txns'[i])
            BY <2>3 DEF Enters, Entered, Types
        <3>3. (T = S \/ T = S \cup {i}) /\ (i \in T <=> txns'[i].customer = c)
            BY <2>3 DEF Enters, RowAdded, Live
        <3> HIDE DEF S, T
        <3>4. Net(Amounts', txns', T)
                = Net(Amounts, txns, S) + (IF i \in T THEN CreditDelta(txns'[i]) ELSE 0)
            BY <1>1, <2>1, <2>3, <3>3, NetEnters
        <3> QED BY <2>1, <3>1, <3>2, <3>3, <3>4
    <2>4. ASSUME NEW i \in Ids, NEW t \in Ids, Undoes(i, t)
          PROVE  Balance(c)' = Net(Amounts', txns', T)
        <3>1. Balance(c)' = Balance(c) + (IF txns'[i].customer = c THEN credits'[i] ELSE 0)
            BY <1>1, <2>4, BalanceAdds DEF Undoes
        <3>2. txns'[i].customer = txns[t].customer /\ credits'[i] = -credits[t] /\ credits[t] \in Int
            BY <1>1, <2>4 DEF Undoes, LedgerInv, TypeOK, Row
        <3>3. credits[t] = CreditDelta(txns[t])
            BY <1>1, <2>4 DEF Undoes, Live, RowsAgree, Entered
        <3>4. T = S \ {t} /\ (t \in S <=> txns[t].customer = c)
            BY <2>4 DEF Undoes, RowAdded, Live
        <3> HIDE DEF S, T
        <3>5. /\ Net(Amounts', txns', S \ {t})
                   = Net(Amounts, txns, S) - (IF t \in S THEN CreditDelta(txns[t]) ELSE 0)
              /\ Net(Amounts, txns, S) \in Int
            BY <1>1, <2>1, <2>4, NetLeaves
        <3>6. CASE txns[t].customer = c
            BY <2>1, <3>1, <3>2, <3>3, <3>4, <3>5, <3>6
        <3>7. CASE txns[t].customer # c
            BY <2>1, <3>1, <3>2, <3>4, <3>5, <3>7
        <3> QED BY <3>6, <3>7
    <2> QED BY <1>1, <2>2, <2>3, <2>4, LedgerSteps
<1>2. ASSUME BalanceIsHistory, UNCHANGED vars PROVE BalanceIsHistory'
    BY <1>2 DEF BalanceIsHistory, Balance, Amounts, Live, Posted, ReversalsOf, vars
<1>3. ASSUME NEW c \in Customers,
             Balance(c)' = Net(Amounts', txns', {j \in Live' : txns'[j].customer = c})
      PROVE  (Balance(c) = LET of(type) == {i \in Live : txns[i].customer = c /\ txns[i].type = type} IN
                 SumOver(Amounts, of("CREDIT_SALE")) - SumOver(Amounts, of("CREDIT_REPAYMENT")))'
    <2>1. \A type : OfType(txns', {j \in Live' : txns'[j].customer = c}, type)
                        = {j \in Live' : txns'[j].customer = c /\ txns'[j].type = type}
        BY DEF OfType
    <2> QED BY <1>3, <2>1 DEF Net
<1> QED BY <1>1, <1>2, <1>3 DEF BalanceIsHistory

(* The balance of every customer is what was lent and not repaid by what   *)
(* was entered and not undone, for any sequence of postings and racing     *)
(* undos (ADR-003, bookkeeping.py:60-109, 001_init.sql:219-224).           *)
THEOREM BalancesNeverDrift == Spec => []BalanceIsHistory
<1>1. Init => BalanceIsHistory
    <2> SUFFICES ASSUME Init PROVE BalanceIsHistory
        OBVIOUS
    <2>1. Posted = {} /\ Live = {}
        BY DEF Init, Posted, Live, Free
    <2>2. SumOver(credits, {}) = 0 /\ SumOver(Amounts, {}) = 0
        BY SumEmpty
    <2> QED BY <2>1, <2>2 DEF BalanceIsHistory, Balance
<1> QED BY <1>1, BalanceInductive, RowsAlwaysAgree, Ledgered, PTL DEF Spec

-----------------------------------------------------------------------------
(* The daily summaries and the balances move together.                     *)
\* One summand moves by d, if it is among the summands at all.
Shifts(f, g, S, x, d) ==
    IsFiniteSet(S) /\ d \in Int /\ \A y \in S : f[y] \in Int /\ g[y] = f[y] + (IF y = x THEN d ELSE 0)

LEMMA SumShifts ==
    ASSUME NEW f, NEW g, NEW S, NEW x, NEW d, Shifts(f, g, S, x, d)
    PROVE  SumOver(g, S) = SumOver(f, S) + (IF x \in S THEN d ELSE 0)
<1>1. IsFiniteSet(S) /\ SumOver(f, S) \in Int
    BY SumInt DEF Shifts
<1>2. CASE x \in S
    <2>1. Shrinks(f, g, S, x) /\ \A y \in S : g[y] \in Int
        BY DEF Shifts, Shrinks
    <2>2. SumOver(g, S \ {x}) = SumOver(f, S) - f[x]
        BY <1>2, <2>1, SumLeaves
    <2>3. SumOver(g, S) = SumOver(g, S \ {x}) + g[x]
        BY <1>1, <1>2, <2>1, SumWithout
    <2>4. g[x] = f[x] + d /\ f[x] \in Int /\ d \in Int
        BY <1>2 DEF Shifts
    <2> QED BY <1>1, <1>2, <2>2, <2>3, <2>4
<1>3. CASE x \notin S
    <2>1. \A y \in S : f[y] = g[y]
        BY <1>3 DEF Shifts
    <2> QED BY <1>1, <1>3, <2>1, SumSame
<1> QED BY <1>2, <1>3

LiveOn(day) == {j \in Live : txns[j].day = day}
DayNets == [day \in 1 .. Days |-> CreditGiven(day) - CreditCollected(day)]
Balances == [c \in Customers |-> Balance(c)]

\* What a summary counts of a day is live, but for REVERSALs.
LEMMA DayNetIs ==
    ASSUME NEW day \in 1 .. Days
    PROVE  /\ DayNets[day] = Net(Amounts, txns, LiveOn(day))
           /\ DayNets'[day] = Net(Amounts', txns', LiveOn(day)')
<1>1. ASSUME NEW type, type # "REVERSAL"
      PROVE  /\ {i \in Counted(day) : txns[i].type = type} = OfType(txns, LiveOn(day), type)
             /\ {i \in Counted(day)' : txns'[i].type = type} = OfType(txns', LiveOn(day)', type)
    BY <1>1 DEF Counted, OfType, LiveOn, Live
<1> QED BY <1>1 DEF DayNets, CreditGiven, CreditCollected, Total, Net

LEMMA BalanceInt == ASSUME LedgerInv, NEW c PROVE Balance(c) \in Int
<1> DEFINE S == {j \in Posted : txns[j].customer = c}
<1>1. IsFiniteSet(S) /\ \A j \in S : credits[j] \in Int
    BY RowSums, FS_Subset
<1> HIDE DEF S
<1>2. SumOver(credits, S) \in Int
    BY <1>1, SumInt
<1> QED BY <1>2 DEF Balance, S

\* A debt or a repayment is a customer's.
LEMMA NobodyOwesNothing ==
    ASSUME NEW i, Entered(i), txns[i].customer \notin Customers
    PROVE  CreditDelta(txns[i]) = 0
BY DEF Entered, CreditDelta

LEMMA DeltaInt == ASSUME NEW row, row.amount \in Nat PROVE CreditDelta(row) \in Int
BY DEF CreditDelta

(* A posting or an undo moves the summary of one day and the balance of at *)
(* most one customer, both by the same amount.                             *)
MovesTogether(day, c, d) ==
    /\ Shifts(DayNets, DayNets', 1 .. Days, day, d) /\ day \in 1 .. Days
    /\ Shifts(Balances, Balances', Customers, c, d) /\ (c \in Customers \/ d = 0)

LEMMA EntersTogether ==
    ASSUME LedgerInv, RowsAgree, NEW i \in Ids, Enters(i)
    PROVE  MovesTogether(txns'[i].day, txns'[i].customer, CreditDelta(txns'[i]))
<1>1. PICK day, c, d : day = txns'[i].day /\ c = txns'[i].customer /\ d = CreditDelta(txns'[i])
    OBVIOUS
<1>2. d \in Int /\ day \in 1 .. Days /\ credits'[i] = d
    BY <1>1, DeltaInt DEF Enters, RowAdded, RowsAgree, Entered, Types
<1>3. c \in Customers \/ d = 0
    BY <1>1, NobodyOwesNothing DEF Enters, Entered, CreditDelta
<1>4. ASSUME NEW e \in 1 .. Days
      PROVE  DayNets[e] \in Int /\ DayNets'[e] = DayNets[e] + (IF e = day THEN d ELSE 0)
    <2> DEFINE S == LiveOn(e)
               T == LiveOn(e)'
    <2>1. /\ S \in SUBSET Live /\ (T = S \/ T = S \cup {i}) /\ (i \in T <=> e = day)
        BY <1>1 DEF LiveOn, Enters, RowAdded, Live
    <2>2. DayNets[e] = Net(Amounts, txns, S) /\ DayNets'[e] = Net(Amounts', txns', T)
        BY DayNetIs
    <2> HIDE DEF S, T
    <2>3. /\ Net(Amounts', txns', T) = Net(Amounts, txns, S) + (IF i \in T THEN CreditDelta(txns'[i]) ELSE 0)
          /\ Net(Amounts, txns, S) \in Int
        BY <2>1, NetEnters
    <2> QED BY <1>1, <2>1, <2>2, <2>3
<1>5. ASSUME NEW k \in Customers
      PROVE  Balances[k] \in Int /\ Balances'[k] = Balances[k] + (IF k = c THEN d ELSE 0)
    <2>1. Balance(k)' = Balance(k) + (IF txns'[i].customer = k THEN credits'[i] ELSE 0)
        BY BalanceAdds DEF Enters
    <2> QED BY <1>1, <1>2, <2>1, BalanceInt DEF Balances
<1>6. IsFiniteSet(1 .. Days) /\ IsFiniteSet(Customers)
    BY LedgerAssumption, FS_Interval
<1> QED BY <1>1, <1>2, <1>3, <1>4, <1>5, <1>6 DEF MovesTogether, Shifts

LEMMA UndoesTogether ==
    ASSUME LedgerInv, RowsAgree, NEW i \in Ids, NEW t \in Ids, Undoes(i, t)
    PROVE  MovesTogether(txns[t].day, txns[t].customer, -CreditDelta(txns[t]))
<1>1. PICK day, c, d : day = txns[t].day /\ c = txns[t].customer /\ d = CreditDelta(txns[t])
    OBVIOUS
<1>2. d \in Int /\ day \in 1 .. Days /\ credits'[i] = -d /\ txns'[i].customer = c
    <2>1. t \in Posted /\ txns[t].type # "REVERSAL" /\ Entered(t) /\ txns[t].day \in 1 .. Days
        BY DEF Undoes, Live, RowsAgree
    <2>2. credits[t] = d /\ credits'[i] = -credits[t]
        BY <1>1, <2>1 DEF Entered, Undoes
    <2>3. txns[t] \in Row /\ txns'[i].customer = txns[t].customer
        BY DEF LedgerInv, TypeOK, Undoes, Row
    <2>4. d \in Int
        BY <1>1, <2>3, DeltaInt DEF Row
    <2> QED BY <1>1, <2>1, <2>2, <2>3, <2>4
<1>3. c \in Customers \/ d = 0
    BY <1>1, NobodyOwesNothing DEF Undoes, Live, RowsAgree
<1>4. ASSUME NEW e \in 1 .. Days
      PROVE  DayNets[e] \in Int /\ DayNets'[e] = DayNets[e] + (IF e = day THEN -d ELSE 0)
    <2> DEFINE S == LiveOn(e)
               T == LiveOn(e)'
    <2>1. S \in SUBSET Live /\ T = S \ {t} /\ (t \in S <=> e = day)
        BY <1>1 DEF LiveOn, Undoes, RowAdded, Live
    <2>2. DayNets[e] = Net(Amounts, txns, S) /\ DayNets'[e] = Net(Amounts', txns', T)
        BY DayNetIs
    <2> HIDE DEF S, T
    <2>3. /\ Net(Amounts', txns', S \ {t}) = Net(Amounts, txns, S) - (IF t \in S THEN CreditDelta(txns[t]) ELSE 0)
          /\ Net(Amounts, txns, S) \in Int
        BY <2>1, NetLeaves
    <2> QED BY <1>1, <1>2, <2>1, <2>2, <2>3
<1>5. ASSUME NEW k \in Customers
      PROVE  Balances[k] \in Int /\ Balances'[k] = Balances[k] + (IF k = c THEN -d ELSE 0)
    <2>1. Balance(k)' = Balance(k) + (IF txns'[i].customer = k THEN credits'[i] ELSE 0)
        BY BalanceAdds DEF Undoes
    <2> QED BY <1>1, <1>2, <2>1, BalanceInt DEF Balances
<1>6. IsFiniteSet(1 .. Days) /\ IsFiniteSet(Customers)
    BY LedgerAssumption, FS_Interval
<1>7. -d \in Int /\ (d = 0 => -d = 0)
    BY <1>2
<1> QED BY <1>1, <1>2, <1>3, <1>4, <1>5, <1>6, <1>7 DEF MovesTogether, Shifts

LEMMA TogetherAgree ==
    ASSUME SummariesAgree, NEW day, NEW c, NEW d, MovesTogether(day, c, d)
    PROVE  SummariesAgree'
<1>0. PICK f, g, h, k : f = DayNets /\ g = DayNets' /\ h = Balances /\ k = Balances'
    OBVIOUS
<1>1. /\ SumOver(g, 1 .. Days) = SumOver(f, 1 .. Days) + (IF day \in 1 .. Days THEN d ELSE 0)
      /\ SumOver(k, Customers) = SumOver(h, Customers) + (IF c \in Customers THEN d ELSE 0)
    <2>1. Shifts(f, g, 1 .. Days, day, d) /\ Shifts(h, k, Customers, c, d)
        BY <1>0 DEF MovesTogether
    <2> QED BY <2>1, SumShifts
<1>2. SumOver(DayNets, 1 .. Days) = SumOver(Balances, Customers)
    BY DEF SummariesAgree, DayNets, Balances
<1>3. SumOver(DayNets', 1 .. Days) = SumOver(Balances', Customers)
    BY <1>0, <1>1, <1>2 DEF MovesTogether
<1> QED BY <1>3 DEF SummariesAgree, DayNets, Balances

LEMMA SummariesInductive ==
    LedgerInv /\ RowsAgree /\ SummariesAgree /\ [Next]_vars => SummariesAgree'
<1>1. ASSUME LedgerInv, RowsAgree, SummariesAgree, Next PROVE SummariesAgree'
    <2>1. CASE BooksKept
        BY <1>1, <2>1 DEF BooksKept, SummariesAgree, CreditGiven, CreditCollected, Total, Counted,
                          Amounts, Balance, Posted, ReversalsOf
    <2>2. ASSUME NEW i \in Ids, Enters(i) PROVE SummariesAgree'
        <3>1. PICK day, c, d : day = txns'[i].day /\ c = txns'[i].customer /\ d = CreditDelta(txns'[i])
            OBVIOUS
        <3>2. MovesTogether(day, c, d)
            BY <1>1, <2>2, <3>1, EntersTogether
        <3> QED BY <1>1, <3>2, TogetherAgree
    <2>3. ASSUME NEW i \in Ids, NEW t \in Ids, Undoes(i, t) PROVE SummariesAgree'
        <3>1. PICK day, c, d : day = txns[t].day /\ c = txns[t].customer /\ d = -CreditDelta(txns[t])
            OBVIOUS
        <3>2. MovesTogether(day, c, d)
            BY <1>1, <2>3, <3>1, UndoesTogether
        <3> QED BY <1>1, <3>2, TogetherAgree
    <2> QED BY <1>1, <2>1, <2>2, <2>3, LedgerSteps
<1>2. ASSUME SummariesAgree, UNCHANGED vars PROVE SummariesAgree'
    BY <1>2 DEF SummariesAgree, CreditGiven, CreditCollected, Total, Counted, Amounts, Balance,
                Posted, ReversalsOf, vars
<1> QED BY <1>1, <1>2

\* A sum of nothings.
LEMMA SumZero ==
    ASSUME NEW f, NEW S, IsFiniteSet(S), \A x \in S : f[x] = 0
    PROVE  SumOver(f, S) = 0
<1> DEFINE B == {s \in SUBSET S : SumOver(f, s) # 0}
<1> SUFFICES ASSUME B # {} PROVE FALSE
    OBVIOUS
<1>1. \A s \in B : IsFiniteSet(s)
    BY FS_Subset
<1>2. PICK s \in B : \A u \in B : u \subseteq s => u = s
    <2> HIDE DEF B
    <2> QED BY <1>1, LeastSet
<1>3. s # {}
    BY SumEmpty
<1>4. Pick(s) \in s
    BY <1>3, Picked
<1>5. SumOver(f, s) = f[Pick(s)] + SumOver(f, s \ {Pick(s)})
    BY <1>1, <1>3, SumUnfolds
<1>6. SumOver(f, s \ {Pick(s)}) = 0
    BY <1>2, <1>4
<1> QED BY <1>2, <1>4, <1>5, <1>6

(* Credit given minus credit collected, over all days, is what all         *)
(* customers owe: the daily summaries, which skip what was reversed, and   *)
(* the balance view, which nets it out, never disagree, even when an undo  *)
(* and its target fall on different days (queries.py:80-91,                *)
(* 001_init.sql:219-224).                                                  *)
THEOREM SummariesNeverDisagree == Spec => []SummariesAgree
<1>1. Init => SummariesAgree
    <2> SUFFICES ASSUME Init PROVE SummariesAgree
        OBVIOUS
    <2>1. Posted = {} /\ Live = {}
        BY DEF Init, Posted, Live, Free
    <2>2. \A day \in 1 .. Days : DayNets[day] = 0
        BY <2>1, SumEmpty DEF DayNets, CreditGiven, CreditCollected, Total, Counted
    <2>3. \A c \in Customers : Balances[c] = 0
        BY <2>1, SumEmpty DEF Balances, Balance
    <2>4. IsFiniteSet(1 .. Days) /\ IsFiniteSet(Customers)
        BY LedgerAssumption, FS_Interval
    <2>5. SumOver(DayNets, 1 .. Days) = 0 /\ SumOver(Balances, Customers) = 0
        <3> HIDE DEF DayNets, Balances
        <3> QED BY <2>2, <2>3, <2>4, SumZero
    <2> QED BY <2>5 DEF SummariesAgree, DayNets, Balances
<1> QED BY <1>1, SummariesInductive, RowsAlwaysAgree, Ledgered, PTL DEF Spec
=============================================================================
