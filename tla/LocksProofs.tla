----------------------------- MODULE LocksProofs -----------------------------
(***************************************************************************)
(* Who can wait in a circle, for any number of transactions and rows: rows *)
(* have ranks, and only the transactions that CirclesNeedATurn names take  *)
(* them downwards.  A message that waits has no rank; it is guarded by its *)
(* question.                                                               *)
(***************************************************************************)
EXTENDS Locks, TLAPS, SequenceTheorems

Turning == {"late", "recreate"}

-----------------------------------------------------------------------------
(* What the scripts lock.                                                  *)
Ranks == [job |-> 1, lost |-> 2, stuck |-> 3, question |-> 4, entry |-> 4, processing |-> 5, product |-> 6, customer |-> 7]
Rank(row) == Ranks[Role[row]]

\* A later row ranks higher, or is the product locked again.
InOrder(locks) ==
    \A i, j \in 1 .. Len(locks) :
        i < j /\ Role[locks[i].row] # "waiting" /\ Role[locks[j].row] # "waiting" =>
            \/ Rank(locks[i].row) < Rank(locks[j].row)
            \/ locks[i] = Write(locks[j].row) /\ Role[locks[j].row] = "product"

\* A message that waits is locked after its question.
QuestionFirst(locks) ==
    \A j \in 1 .. Len(locks) : Role[locks[j].row] = "waiting" =>
        \E i \in 1 .. j - 1 : locks[i] = Write(QuestionOf[locks[j].row])

\* A product is locked to be changed.
ProductsChange(locks) ==
    \A j \in 1 .. Len(locks) : Role[locks[j].row] = "product" => locks[j].mode \in {"update", "write"}

Ranked(locks) ==
    \A j \in 1 .. Len(locks) : Role[locks[j].row] # "waiting" => Rank(locks[j].row) \in 1 .. 7

Orderly(locks) ==
    Len(locks) \in Nat /\ InOrder(locks) /\ QuestionFirst(locks) /\ ProductsChange(locks) /\ Ranked(locks)

\* One tuple after another.
LEMMA OneAndTwo == ASSUME NEW a, NEW b, NEW c PROVE <<a>> \o <<b, c>> = <<a, b, c>>
<1> DEFINE S == {a, b, c}
<1>1. <<a>> \in Seq(S) /\ <<b, c>> \in Seq(S) /\ <<a, b, c>> \in Seq(S)
    OBVIOUS
<1> HIDE DEF S
<1>2. Len(<<a>> \o <<b, c>>) = 3 /\ <<a>> \o <<b, c>> \in Seq(S)
      /\ \A i \in 1 .. 3 : (<<a>> \o <<b, c>>)[i] = <<a, b, c>>[i]
    BY <1>1, ConcatProperties
<1> QED BY <1>1, <1>2, SeqEqual

LEMMA OneAndNone == ASSUME NEW a PROVE <<a>> \o <<>> = <<a>>
<1>1. <<a>> \in Seq({a})
    OBVIOUS
<1> QED BY <1>1, ConcatEmptySeq

LEMMA OneAndOne == ASSUME NEW a, NEW b PROVE <<a>> \o <<b>> = <<a, b>>
<1> DEFINE S == {a, b}
<1>1. <<a>> \in Seq(S) /\ <<b>> \in Seq(S) /\ <<a, b>> \in Seq(S)
    OBVIOUS
<1> HIDE DEF S
<1>2. Len(<<a>> \o <<b>>) = 2 /\ <<a>> \o <<b>> \in Seq(S)
      /\ \A i \in 1 .. 2 : (<<a>> \o <<b>>)[i] = <<a, b>>[i]
    BY <1>1, ConcatProperties
<1> QED BY <1>1, <1>2, SeqEqual

LEMMA OneAndThree == ASSUME NEW a, NEW b, NEW c, NEW d PROVE <<a>> \o <<b, c, d>> = <<a, b, c, d>>
<1> DEFINE S == {a, b, c, d}
<1>1. <<a>> \in Seq(S) /\ <<b, c, d>> \in Seq(S) /\ <<a, b, c, d>> \in Seq(S)
    OBVIOUS
<1> HIDE DEF S
<1>2. Len(<<a>> \o <<b, c, d>>) = 4 /\ <<a>> \o <<b, c, d>> \in Seq(S)
      /\ \A i \in 1 .. 4 : (<<a>> \o <<b, c, d>>)[i] = <<a, b, c, d>>[i]
    BY <1>1, ConcatProperties
<1> QED BY <1>1, <1>2, SeqEqual

LEMMA TwoAndThree == ASSUME NEW a, NEW b, NEW c, NEW d, NEW e
                     PROVE  <<a, b>> \o <<c, d, e>> = <<a, b, c, d, e>>
<1> DEFINE S == {a, b, c, d, e}
<1>1. <<a, b>> \in Seq(S) /\ <<c, d, e>> \in Seq(S) /\ <<a, b, c, d, e>> \in Seq(S)
    OBVIOUS
<1> HIDE DEF S
<1>2. Len(<<a, b>> \o <<c, d, e>>) = 5 /\ <<a, b>> \o <<c, d, e>> \in Seq(S)
      /\ \A i \in 1 .. 5 : (<<a, b>> \o <<c, d, e>>)[i] = <<a, b, c, d, e>>[i]
    BY <1>1, ConcatProperties
<1> QED BY <1>1, <1>2, SeqEqual

LEMMA BookingLocks ==
    ASSUME NEW kind, NEW m, NEW p, NEW c
    PROVE  Booking(kind, m, p, c).locks = <<Update(m), Update(p), Key(c)>>
BY OneAndTwo DEF Booking, Posting, Script

\* What comes first is locked first; the kind stays.
LEMMA BeforeLocks ==
    ASSUME NEW first, NEW kind, NEW m, NEW p, NEW c, NEW rows
    PROVE  /\ Before(first, Booking(kind, m, p, c), rows).kind = kind
           /\ Before(first, Booking(kind, m, p, c), rows).locks = first \o <<Update(m), Update(p), Key(c)>>
<1>1. PICK booking : booking = Booking(kind, m, p, c)
    OBVIOUS
<1>2. /\ booking = [kind |-> kind, locks |-> booking.locks, checks |-> booking.checks, closes |-> booking.closes]
      /\ booking.locks = <<Update(m), Update(p), Key(c)>>
    <2>1. booking.locks = <<Update(m), Update(p), Key(c)>>
        BY <1>1, BookingLocks
    <2>2. booking = Script(kind, <<Update(m)>> \o Posting(p, c), {m}, {m})
        BY <1>1 DEF Booking
    <2>3. booking = [kind |-> kind, locks |-> booking.locks, checks |-> booking.checks, closes |-> booking.closes]
        BY <2>2 DEF Script
    <2> QED BY <2>1, <2>3
<1>3. Before(first, booking, rows).kind = kind /\ Before(first, booking, rows).locks = first \o booking.locks
    BY <1>2 DEF Before
<1> QED BY <1>1, <1>2, <1>3

LEMMA TapLocks ==
    ASSUME NEW q, NEW m, NEW p, NEW c
    PROVE  \A alias : /\ alias = <<>> => Tap(q, alias, Booking("tap", m, p, c)).locks =
                                             <<Write(q), Update(m), Update(p), Key(c)>>
                      /\ alias = <<Write(p)>> => Tap(q, alias, Booking("tap", m, p, c)).locks =
                                                     <<Write(q), Write(p), Update(m), Update(p), Key(c)>>
<1> TAKE alias
<1>1. Tap(q, alias, Booking("tap", m, p, c)).locks = (<<Write(q)>> \o alias) \o <<Update(m), Update(p), Key(c)>>
    <2>1. PICK first : first = <<Write(q)>> \o alias
        OBVIOUS
    <2>2. Tap(q, alias, Booking("tap", m, p, c)) = Before(first, Booking("tap", m, p, c), {q})
        BY <2>1, Zenon DEF Tap
    <2>3. Before(first, Booking("tap", m, p, c), {q}).locks = first \o <<Update(m), Update(p), Key(c)>>
        BY BeforeLocks
    <2> QED BY <2>1, <2>2, <2>3
<1>2. <<Write(q)>> \o <<>> = <<Write(q)>> /\ <<Write(q)>> \o <<Write(p)>> = <<Write(q), Write(p)>>
    BY OneAndNone, OneAndOne
<1>3. /\ <<Write(q)>> \o <<Update(m), Update(p), Key(c)>> = <<Write(q), Update(m), Update(p), Key(c)>>
      /\ <<Write(q), Write(p)>> \o <<Update(m), Update(p), Key(c)>> =
             <<Write(q), Write(p), Update(m), Update(p), Key(c)>>
    BY OneAndThree, TwoAndThree
<1>4. ASSUME alias = <<>>
      PROVE  Tap(q, alias, Booking("tap", m, p, c)).locks = <<Write(q), Update(m), Update(p), Key(c)>>
    BY <1>1, <1>2, <1>3, <1>4
<1>5. ASSUME alias = <<Write(p)>>
      PROVE  Tap(q, alias, Booking("tap", m, p, c)).locks =
                 <<Write(q), Write(p), Update(m), Update(p), Key(c)>>
    BY <1>1, <1>2, <1>3, <1>5
<1> QED BY <1>4, <1>5

LEMMA TypedLocks ==
    ASSUME NEW q, NEW own, NEW m, NEW p, NEW c
    PROVE  Typed(q, own, Booking("job", m, p, c)).locks =
               <<Write(q), Write(own), Update(m), Update(p), Key(c)>>
<1>1. Typed(q, own, Booking("job", m, p, c)).locks = <<Write(q), Write(own)>> \o <<Update(m), Update(p), Key(c)>>
    <2>1. PICK first : first = <<Write(q), Write(own)>>
        OBVIOUS
    <2>2. Typed(q, own, Booking("job", m, p, c)) = Before(first, Booking("job", m, p, c), {q})
        BY <2>1, Zenon DEF Typed
    <2>3. Before(first, Booking("job", m, p, c), {q}).locks = first \o <<Update(m), Update(p), Key(c)>>
        BY BeforeLocks
    <2> QED BY <2>1, <2>2, <2>3
<1> QED BY <1>1, TwoAndThree

\* The tuples that the scripts are.
LEMMA TwoLocks ==
    ASSUME NEW a, NEW b, NEW locks, locks = <<a, b>>,
           \A x \in {a, b} : Role[x.row] \notin {"product", "waiting"} /\ Rank(x.row) \in 1 .. 7,
           Rank(a.row) < Rank(b.row)
    PROVE  Orderly(locks)
BY DEF Orderly, InOrder, QuestionFirst, ProductsChange, Ranked

LEMMA ThreeLocks ==
    ASSUME NEW a, NEW b, NEW c, NEW locks, locks = <<a, b, c>>,
           \A x \in {a, b, c} : Role[x.row] # "waiting" /\ Rank(x.row) \in 1 .. 7,
           \A x \in {a, b, c} : Role[x.row] = "product" => x.mode \in {"update", "write"},
           Rank(a.row) < Rank(b.row), Rank(b.row) < Rank(c.row)
    PROVE  Orderly(locks)
BY DEF Orderly, InOrder, QuestionFirst, ProductsChange, Ranked

LEMMA FourLocks ==
    ASSUME NEW q, NEW m, NEW p, NEW c, NEW locks, locks = <<Write(q), Update(m), Update(p), Key(c)>>,
           Role[q] = "question", Role[m] = "waiting", q = QuestionOf[m], Role[p] = "product", Role[c] = "customer"
    PROVE  Orderly(locks)
<1>1. Len(locks) = 4 /\ locks[1] = Write(q) /\ locks[2] = Update(m) /\ locks[3] = Update(p) /\ locks[4] = Key(c)
    OBVIOUS
<1>2. Rank(q) = 4 /\ Rank(p) = 6 /\ Rank(c) = 7
    BY DEF Rank, Ranks
<1>3. /\ locks[1].row = q /\ locks[2].row = m /\ locks[3].row = p /\ locks[4].row = c
      /\ locks[3].mode = "update"
    BY <1>1 DEF Write, Update, Key
<1>4. InOrder(locks)
    BY <1>1, <1>2, <1>3 DEF InOrder
<1>5. QuestionFirst(locks)
    BY <1>1, <1>3 DEF QuestionFirst
<1>6. ProductsChange(locks) /\ Ranked(locks)
    BY <1>1, <1>2, <1>3 DEF ProductsChange, Ranked
<1> QED BY <1>1, <1>4, <1>5, <1>6 DEF Orderly

LEMMA AliasLocks ==
    ASSUME NEW q, NEW m, NEW p, NEW c, NEW locks, locks = <<Write(q), Write(p), Update(m), Update(p), Key(c)>>,
           Role[q] = "question", Role[m] = "waiting", q = QuestionOf[m], Role[p] = "product", Role[c] = "customer"
    PROVE  Orderly(locks)
<1>1. /\ Len(locks) = 5 /\ locks[1] = Write(q) /\ locks[2] = Write(p)
      /\ locks[3] = Update(m) /\ locks[4] = Update(p) /\ locks[5] = Key(c)
    OBVIOUS
<1>2. Rank(q) = 4 /\ Rank(p) = 6 /\ Rank(c) = 7
    BY DEF Rank, Ranks
<1>3. /\ locks[1].row = q /\ locks[2].row = p /\ locks[3].row = m /\ locks[4].row = p /\ locks[5].row = c
      /\ locks[2].mode = "write" /\ locks[4].mode = "update"
    BY <1>1 DEF Write, Update, Key
<1>4. InOrder(locks)
    BY <1>1, <1>2, <1>3 DEF InOrder
<1>5. QuestionFirst(locks)
    BY <1>1, <1>3 DEF QuestionFirst
<1>6. ProductsChange(locks) /\ Ranked(locks)
    BY <1>1, <1>2, <1>3 DEF ProductsChange, Ranked
<1> QED BY <1>1, <1>4, <1>5, <1>6 DEF Orderly

LEMMA TypedOrder ==
    ASSUME NEW q, NEW own, NEW m, NEW p, NEW c, NEW locks,
           locks = <<Write(q), Write(own), Update(m), Update(p), Key(c)>>,
           Role[q] = "question", Role[own] = "processing", Role[m] = "waiting", q = QuestionOf[m],
           Role[p] = "product", Role[c] = "customer"
    PROVE  Orderly(locks)
<1>1. /\ Len(locks) = 5 /\ locks[1] = Write(q) /\ locks[2] = Write(own)
      /\ locks[3] = Update(m) /\ locks[4] = Update(p) /\ locks[5] = Key(c)
    OBVIOUS
<1>2. Rank(q) = 4 /\ Rank(own) = 5 /\ Rank(p) = 6 /\ Rank(c) = 7
    BY DEF Rank, Ranks
<1>3. /\ locks[1].row = q /\ locks[2].row = own /\ locks[3].row = m /\ locks[4].row = p /\ locks[5].row = c
      /\ locks[4].mode = "update"
    BY <1>1 DEF Write, Update, Key
<1>4. InOrder(locks)
    BY <1>1, <1>2, <1>3 DEF InOrder
<1>5. QuestionFirst(locks)
    BY <1>1, <1>3 DEF QuestionFirst
<1>6. ProductsChange(locks) /\ Ranked(locks)
    BY <1>1, <1>2, <1>3 DEF ProductsChange, Ranked
<1> QED BY <1>1, <1>4, <1>5, <1>6 DEF Orderly

LEMMA ReapingLocks ==
    ASSUME NEW job, NEW dead, NEW stuck, NEW q, NEW m, NEW locks,
           locks = <<Write(job), Write(dead), Write(stuck), Write(q), Write(m)>>,
           Role[job] = "job", Role[dead] = "lost", Role[stuck] = "stuck",
           Role[q] = "question", Role[m] = "waiting", q = QuestionOf[m]
    PROVE  Orderly(locks)
<1>1. /\ Len(locks) = 5 /\ locks[1] = Write(job) /\ locks[2] = Write(dead)
      /\ locks[3] = Write(stuck) /\ locks[4] = Write(q) /\ locks[5] = Write(m)
    OBVIOUS
<1>2. Rank(job) = 1 /\ Rank(dead) = 2 /\ Rank(stuck) = 3 /\ Rank(q) = 4
    BY DEF Rank, Ranks
<1>3. locks[1].row = job /\ locks[2].row = dead /\ locks[3].row = stuck /\ locks[4].row = q /\ locks[5].row = m
    BY <1>1 DEF Write
<1>4. InOrder(locks)
    BY <1>1, <1>2, <1>3 DEF InOrder
<1>5. QuestionFirst(locks)
    BY <1>1, <1>3 DEF QuestionFirst
<1>6. ProductsChange(locks) /\ Ranked(locks)
    BY <1>1, <1>2, <1>3 DEF ProductsChange, Ranked
<1> QED BY <1>1, <1>4, <1>5, <1>6 DEF Orderly

\* What a transaction may be, at first or when its job is given up.
Scripts == Timely \cup Late \cup {Burying(j) : j \in Rows("job")}

\* Every transaction that does not turn takes its rows in order.
LEMMA ScriptsAreOrderly ==
    ASSUME NEW s \in Scripts, s.kind \notin Turning
    PROVE  Orderly(s.locks)
<1> USE LocksAssumption
<1>0. ASSUME NEW role, NEW row \in Rows(role)
      PROVE  Role[row] = role
    BY DEF Rows
<1>00. \A m \in Rows("waiting") : QuestionOf[m] \in Rows("question")
    OBVIOUS
<1> USE <1>0, <1>00 DEF Products, Customers
<1>1. ASSUME NEW m \in Rows("processing"), NEW p \in Products, NEW c \in Customers, s = Booking("job", m, p, c)
      PROVE  Orderly(s.locks)
    <2>1. Role[m] = "processing" /\ Role[p] = "product" /\ Role[c] = "customer"
        BY <1>1
    <2>2. Rank(m) = 5 /\ Rank(p) = 6 /\ Rank(c) = 7
        BY <2>1 DEF Rank, Ranks
    <2>3. s.locks = <<Update(m), Update(p), Key(c)>>
        BY <1>1, BookingLocks
    <2> QED BY <2>1, <2>2, <2>3, ThreeLocks DEF Update, Key
<1>2. ASSUME NEW j \in Rows("job"), NEW m \in Rows("processing"), s = Failing(j, m)
      PROVE  Orderly(s.locks)
    <2>1. s.locks = <<Write(j), Write(m)>>
        BY <1>2 DEF Failing, Script
    <2>2. Role[j] = "job" /\ Role[m] = "processing"
        BY <1>2
    <2>3. Rank(j) = 1 /\ Rank(m) = 5
        BY <2>2 DEF Rank, Ranks
    <2> QED BY <2>1, <2>2, <2>3, TwoLocks DEF Write
<1>3. ASSUME NEW m \in Rows("waiting"), NEW p \in Products, NEW c \in Customers, NEW alias \in {<<>>, <<Write(p)>>},
             s = Tap(QuestionOf[m], alias, Booking("tap", m, p, c))
      PROVE  Orderly(s.locks)
    <2>1. Role[m] = "waiting" /\ Role[p] = "product" /\ Role[c] = "customer" /\ Role[QuestionOf[m]] = "question"
        BY <1>3
    <2>2. CASE alias = <<>>
        <3>1. s.locks = <<Write(QuestionOf[m]), Update(m), Update(p), Key(c)>>
            BY <1>3, <2>2, TapLocks
        <3> QED BY <2>1, <3>1, FourLocks
    <2>3. CASE alias = <<Write(p)>>
        <3>1. s.locks = <<Write(QuestionOf[m]), Write(p), Update(m), Update(p), Key(c)>>
            BY <1>3, <2>3, TapLocks
        <3> QED BY <2>1, <3>1, AliasLocks
    <2> QED BY <1>3, <2>2, <2>3
<1>4. ASSUME NEW m \in Rows("waiting"), NEW p \in Products, NEW c \in Customers,
             s = Tap(QuestionOf[m], <<>>, Recreating(m, p, c))
      PROVE  FALSE
    <2>1. Recreating(m, p, c).kind = "recreate"
        BY DEF Recreating, Script
    <2>2. s.kind = Recreating(m, p, c).kind
        BY <1>4 DEF Tap, Before, Recreating, Script
    <2> QED BY <2>1, <2>2 DEF Turning
<1>5. ASSUME NEW m \in Rows("waiting"), NEW own \in Rows("processing"), NEW p \in Products, NEW c \in Customers,
             s = Typed(QuestionOf[m], own, Booking("job", m, p, c))
      PROVE  Orderly(s.locks)
    <2>1. Role[m] = "waiting" /\ Role[p] = "product" /\ Role[c] = "customer" /\ Role[QuestionOf[m]] = "question"
          /\ Role[own] = "processing"
        BY <1>5
    <2>2. s.locks = <<Write(QuestionOf[m]), Write(own), Update(m), Update(p), Key(c)>>
        BY <1>5, TypedLocks
    <2> QED BY <2>1, <2>2, TypedOrder
<1>6. ASSUME NEW e \in Rows("entry"), NEW p \in Products, NEW c \in Customers, s = Undo(e, p, c)
      PROVE  Orderly(s.locks)
    <2>1. s.locks = <<Update(e), Update(p), Key(c)>>
        BY <1>6 DEF Undo, Script
    <2>2. Role[e] = "entry" /\ Role[p] = "product" /\ Role[c] = "customer"
        BY <1>6
    <2>3. Rank(e) = 4 /\ Rank(p) = 6 /\ Rank(c) = 7
        BY <2>2 DEF Rank, Ranks
    <2> QED BY <2>1, <2>2, <2>3, ThreeLocks DEF Update, Key
<1>7. ASSUME NEW j \in Rows("job"), NEW dead \in Rows("lost"), NEW stuck \in Rows("stuck"),
             NEW m \in Rows("waiting"), s = Reaping(j, dead, stuck, QuestionOf[m], m)
      PROVE  Orderly(s.locks)
    <2>1. s.locks = <<Write(j), Write(dead), Write(stuck), Write(QuestionOf[m]), Write(m)>>
        BY <1>7 DEF Reaping, Script
    <2>2. /\ Role[j] = "job" /\ Role[dead] = "lost" /\ Role[stuck] = "stuck"
          /\ Role[m] = "waiting" /\ Role[QuestionOf[m]] = "question"
        BY <1>7
    <2> QED BY <2>1, <2>2, ReapingLocks
<1>8. ASSUME s \in Late
      PROVE  FALSE
    <2>1. \A m, q : Asking(m, q).kind = "late"
        BY DEF Asking, Script
    <2>2. \A m, p, c : Booking("late", m, p, c).kind = "late"
        BY DEF Booking, Script
    <2> QED BY <1>8, <2>1, <2>2 DEF Late, Turning
<1>9. CASE s \in {Booking("job", m, p, c) : m \in Rows("processing"), p \in Products, c \in Customers}
    BY <1>9, <1>1
<1>10. CASE s \in {Failing(j, m) : j \in Rows("job"), m \in Rows("processing")}
    BY <1>10, <1>2
<1>11. CASE s \in UNION {{Tap(QuestionOf[m], alias, Booking("tap", m, p, c)) : alias \in {<<>>, <<Write(p)>>}} :
                             m \in Rows("waiting"), p \in Products, c \in Customers}
    <2>1. PICK m \in Rows("waiting"), p \in Products, c \in Customers :
              s \in {Tap(QuestionOf[m], alias, Booking("tap", m, p, c)) : alias \in {<<>>, <<Write(p)>>}}
        BY <1>11
    <2>2. PICK alias \in {<<>>, <<Write(p)>>} : s = Tap(QuestionOf[m], alias, Booking("tap", m, p, c))
        BY <2>1
    <2> QED BY <2>2, <1>3
<1>12. CASE s \in {Tap(QuestionOf[m], <<>>, Recreating(m, p, c)) :
                       m \in Rows("waiting"), p \in Products, c \in Customers}
    BY <1>12, <1>4
<1>13. CASE s \in {Typed(QuestionOf[m], own, Booking("job", m, p, c)) :
                       m \in Rows("waiting"), own \in Rows("processing"), p \in Products, c \in Customers}
    BY <1>13, <1>5
<1>14. CASE s \in {Undo(e, p, c) : e \in Rows("entry"), p \in Products, c \in Customers}
    BY <1>14, <1>6
<1>15. CASE s \in {Reaping(j, dead, stuck, QuestionOf[m], m) :
                       j \in Rows("job"), dead \in Rows("lost"), stuck \in Rows("stuck"), m \in Rows("waiting")}
    BY <1>15, <1>7
<1>16. CASE s \in {Burying(j) : j \in Rows("job")}
    <2>1. PICK j \in Rows("job") : s.locks = <<Write(j)>>
        BY <1>16 DEF Burying, Script
    <2>2. Role[j] = "job" /\ Rank(j) = 1
        BY <2>1 DEF Rank, Ranks
    <2> QED BY <2>1, <2>2 DEF Orderly, InOrder, QuestionFirst, ProductsChange, Ranked, Write
<1>17. s \in Timely \/ s \in {Burying(j) : j \in Rows("job")}
    BY <1>8 DEF Scripts
<1> QED BY <1>16, <1>17, <1>9, <1>10, <1>11, <1>12, <1>13, <1>14, <1>15 DEF Timely

-----------------------------------------------------------------------------
(* Locks exclude each other.                                               *)
TypeOK ==
    /\ script \in [Txns -> Scripts]
    /\ at \in [Txns -> Nat]
    /\ state \in [Txns -> {"running", "committed", "aborted"}]

\* No two transactions hold locks that conflict.
Exclusive ==
    \A t, u \in Txns : t # u => \A held \in Holds(t), other \in Holds(u) : ~Conflict(held, other)

LocksInv == TypeOK /\ Exclusive

LEMMA ConflictsBothWays == ASSUME NEW a, NEW b, Conflict(a, b) PROVE Conflict(b, a)
BY DEF Conflict

LEMMA InitLocks == Init => LocksInv
<1> SUFFICES ASSUME Init PROVE LocksInv
    OBVIOUS
<1>1. TypeOK
    BY DEF Init, TypeOK, Scripts
<1>2. \A t \in Txns : Holds(t) = {}
    <2> SUFFICES ASSUME NEW t \in Txns PROVE Holds(t) = {}
        OBVIOUS
    <2>1. at[t] = 0 /\ 1 .. 0 = {}
        BY DEF Init
    <2> QED BY <2>1 DEF Holds
<1> QED BY <1>1, <1>2 DEF LocksInv, Exclusive

\* What one holds after a step in which it took nothing, it held before.
LEMMA NothingTaken ==
    ASSUME Exclusive, \A t \in Txns : Holds(t)' \subseteq Holds(t)
    PROVE  Exclusive'
BY DEF Exclusive

LEMMA NextLocks == LocksInv /\ [Next]_vars => LocksInv'
<1> SUFFICES ASSUME LocksInv, [Next]_vars PROVE LocksInv'
    OBVIOUS
<1> USE DEF LocksInv
<1>1. ASSUME NEW t \in Txns, Take(t) PROVE LocksInv'
    <2>1. script' = script
        BY <1>1 DEF Take
    <2>2. CASE state' = [state EXCEPT ![t] = "committed"] /\ at' = at
        <3>1. TypeOK'
            BY <2>1, <2>2 DEF TypeOK
        <3>2. \A u \in Txns : Holds(u)' \subseteq Holds(u)
            BY <2>1, <2>2 DEF Holds, TypeOK
        <3> QED BY <3>1, <3>2, NothingTaken
    <2>3. CASE at' = [at EXCEPT ![t] = @ + 1] /\ state' = state
        <3>1. TypeOK'
            BY <2>1, <2>3 DEF TypeOK
        <3>2. \A u \in Txns \ {t} : Holds(u)' = Holds(u)
            BY <2>1, <2>3 DEF Holds, TypeOK
        <3>3. Holds(t)' = Holds(t) \cup {Wants(t)}
            <4>1. state[t] = "running" /\ at[t] \in Nat /\ at'[t] = at[t] + 1
                BY <1>1, <2>3 DEF Take, Asks, TypeOK
            <4>2. 1 .. at[t] + 1 = (1 .. at[t]) \cup {at[t] + 1}
                BY <4>1
            <4>3. Holds(t)' = {script[t].locks[i] : i \in 1 .. at[t] + 1}
                BY <2>1, <2>3, <4>1 DEF Holds
            <4>4. Holds(t) = {script[t].locks[i] : i \in 1 .. at[t]}
                BY <4>1 DEF Holds
            <4> QED BY <4>2, <4>3, <4>4 DEF Wants
        <3>4. \A u \in Txns \ {t} : \A held \in Holds(u) : ~Conflict(held, Wants(t)) /\ ~Conflict(Wants(t), held)
            BY <1>1, ConflictsBothWays DEF Take, WaitsFor
        <3>5. Exclusive'
            <4> SUFFICES ASSUME NEW u \in Txns, NEW v \in Txns, u # v,
                                NEW held \in Holds(u)', NEW other \in Holds(v)'
                         PROVE  ~Conflict(held, other)
                BY DEF Exclusive, Conflict
            <4>1. CASE held \in Holds(u) /\ other \in Holds(v)
                BY <4>1 DEF Exclusive
            <4>2. CASE held \notin Holds(u)
                BY <4>2, <3>2, <3>3, <3>4
            <4>3. CASE other \notin Holds(v)
                BY <4>3, <3>2, <3>3, <3>4
            <4> QED BY <4>1, <4>2, <4>3
        <3> QED BY <3>1, <3>5
    <2> QED BY <1>1, <2>2, <2>3 DEF Take
<1>2. ASSUME NEW t \in Txns, Commit(t) \/ RolledBack(t) PROVE LocksInv'
    <2>1. /\ script' = script /\ at' = at
          /\ state' = [state EXCEPT ![t] = "committed"] \/ state' = [state EXCEPT ![t] = "aborted"]
        BY <1>2 DEF Commit, RolledBack
    <2>2. TypeOK'
        BY <2>1 DEF TypeOK
    <2>3. \A u \in Txns : Holds(u)' \subseteq Holds(u)
        BY <2>1 DEF Holds, TypeOK
    <2> QED BY <2>2, <2>3, NothingTaken
<1>3. ASSUME NEW t \in Txns, ReapsAgain(t) \/ Again(t) \/ GivesUp(t) PROVE LocksInv'
    <2>1. Restart(t) /\ \A u \in Txns \ {t} : script'[u] = script[u]
        BY <1>3 DEF TypeOK, ReapsAgain, Again, GivesUp
    <2>2. script' \in [Txns -> Scripts]
        <3>1. CASE script' = script
            BY <3>1 DEF TypeOK
        <3>2. CASE \E s \in LastRites(script[t]) : script' = [script EXCEPT ![t] = s]
            <4>1. LastRites(script[t]) \subseteq Scripts
                BY DEF LastRites, Own, Scripts, Timely
            <4> QED BY <3>2, <4>1 DEF TypeOK
        <3> QED BY <1>3, <3>1, <3>2 DEF ReapsAgain, Again, GivesUp
    <2>3. TypeOK'
        BY <2>1, <2>2 DEF TypeOK, Restart
    <2>4. 1 .. 0 = {} /\ at'[t] = 0
        BY <2>1 DEF Restart, TypeOK
    <2>5. Holds(t)' = {}
        BY <2>4 DEF Holds
    <2>6. \A u \in Txns \ {t} : Holds(u)' = Holds(u)
        BY <2>1 DEF Holds, TypeOK, Restart
    <2> QED BY <2>3, <2>5, <2>6, NothingTaken
<1>4. CASE UNCHANGED vars
    <2>1. TypeOK'
        BY <1>4 DEF vars, TypeOK
    <2>2. \A u \in Txns : Holds(u)' = Holds(u)
        BY <1>4 DEF vars, Holds
    <2> QED BY <2>1, <2>2, NothingTaken
<1> QED BY <1>1, <1>2, <1>3, <1>4 DEF Next

-----------------------------------------------------------------------------
(* Circles.                                                                *)

\* Waiting goes on from those one waits on.
LEMMA WaitingGoesOn ==
    ASSUME NEW t \in Txns
    PROVE  WaitsFor(t) \subseteq WaitsOn(t) /\ Enclosed(WaitsOn(t)) /\ WaitsOn(t) \subseteq Txns
<1>1. WaitsFor(t) \subseteq WaitsOn(t)
    BY DEF WaitsOn, WaitsFor
<1>2. ASSUME NEW u \in WaitsOn(t), NEW v \in WaitsFor(u)
      PROVE  v \in WaitsOn(t)
    <2>1. v \in Txns
        BY <1>2 DEF WaitsFor
    <2>2. ASSUME NEW S \in SUBSET Txns, WaitsFor(t) \subseteq S, Enclosed(S)
          PROVE  v \in S
        <3>1. u \in S
            BY <1>2, <2>2 DEF WaitsOn
        <3> QED BY <3>1, <2>2, <1>2 DEF Enclosed
    <2> QED BY <2>1, <2>2 DEF WaitsOn
<1> QED BY <1>1, <1>2 DEF Enclosed, WaitsOn

\* Who is in a circle waits for one that is.
LEMMA CirclesClose ==
    ASSUME NEW t \in Deadlocked
    PROVE  \E u \in Deadlocked : u \in WaitsFor(t)
<1>1. t \in Txns /\ t \in WaitsOn(t)
    BY DEF Deadlocked
<1> DEFINE S == WaitsFor(t) \cup (UNION {WaitsOn(u) : u \in WaitsFor(t)})
<1>2. WaitsFor(t) \subseteq Txns
    BY DEF WaitsFor
<1>3. S \in SUBSET Txns /\ WaitsFor(t) \subseteq S
    BY <1>2, WaitingGoesOn
<1>4. Enclosed(S)
    <2> SUFFICES ASSUME NEW v \in S PROVE WaitsFor(v) \subseteq S
        BY DEF Enclosed
    <2>1. CASE v \in WaitsFor(t)
        BY <2>1, <1>2, WaitingGoesOn
    <2>2. ASSUME NEW u \in WaitsFor(t), v \in WaitsOn(u) PROVE WaitsFor(v) \subseteq S
        <3>1. WaitsFor(v) \subseteq WaitsOn(u)
            BY <2>2, <1>2, WaitingGoesOn DEF Enclosed
        <3> QED BY <3>1
    <2> QED BY <2>1, <2>2
<1>5. t \in S
    BY <1>1, <1>3, <1>4 DEF WaitsOn
<1>6. t \notin WaitsFor(t)
    BY DEF WaitsFor
<1>7. PICK u \in WaitsFor(t) : t \in WaitsOn(u)
    BY <1>5, <1>6
<1>8. u \in WaitsOn(u)
    BY <1>2, <1>7, WaitingGoesOn DEF Enclosed
<1> QED BY <1>2, <1>7, <1>8 DEF Deadlocked

\* Numbers up to seven do not grow for ever.
LEMMA NothingAboveSeven ==
    ASSUME NEW S \in SUBSET (1 .. 7), \A a \in S : \E b \in S : a < b
    PROVE  S = {}
<1>1. 7 \notin S
    OBVIOUS
<1>2. 6 \notin S
    BY <1>1
<1>3. 5 \notin S
    BY <1>1, <1>2
<1>4. 4 \notin S
    BY <1>1, <1>2, <1>3
<1>5. 3 \notin S
    BY <1>1, <1>2, <1>3, <1>4
<1>6. 2 \notin S
    BY <1>1, <1>2, <1>3, <1>4, <1>5
<1> QED BY <1>1, <1>2, <1>3, <1>4, <1>5, <1>6

\* It asks for one of its locks, which are in order.
InLine(t) ==
    /\ t \in Txns /\ state[t] = "running" /\ at[t] \in Nat
    /\ at[t] < Len(script[t].locks) /\ Orderly(script[t].locks)

\* Who has or wants a message that waits has its question.
LEMMA QuestionIsHeld ==
    ASSUME NEW t, InLine(t), NEW k \in 1 .. at[t] + 1, Role[script[t].locks[k].row] = "waiting"
    PROVE  Write(QuestionOf[script[t].locks[k].row]) \in Holds(t)
<1>1. k \in 1 .. Len(script[t].locks)
    BY DEF InLine, Orderly
<1>2. PICK i \in 1 .. k - 1 : script[t].locks[i] = Write(QuestionOf[script[t].locks[k].row])
    BY <1>1 DEF InLine, Orderly, QuestionFirst
<1>3. i \in 1 .. at[t]
    BY <1>2 DEF InLine
<1> QED BY <1>2, <1>3 DEF InLine, Holds

\* One of two that are in line has what the other wants: it is no message
\* that waits, which would need its question twice.
LEMMA NoneWaitsForAMessage ==
    ASSUME LocksInv, NEW t, NEW u \in WaitsFor(t), InLine(t), InLine(u)
    PROVE  /\ Role[Wants(t).row] # "waiting"
           /\ \E i \in 1 .. at[u] : Conflict(script[u].locks[i], Wants(t)) /\ script[u].locks[i].row = Wants(t).row
<1>1. PICK i \in 1 .. at[u] : Conflict(script[u].locks[i], Wants(t))
    BY DEF WaitsFor, Holds, InLine
<1>2. script[u].locks[i].row = Wants(t).row
    BY <1>1 DEF Conflict
<1>3. ASSUME Role[Wants(t).row] = "waiting"
      PROVE  FALSE
    <2>1. at[t] + 1 \in 1 .. at[t] + 1 /\ i \in 1 .. at[u] + 1
        BY DEF InLine
    <2>2. Write(QuestionOf[Wants(t).row]) \in Holds(t)
        BY <1>3, <2>1, QuestionIsHeld DEF Wants
    <2>3. Write(QuestionOf[Wants(t).row]) \in Holds(u)
        BY <1>2, <1>3, <2>1, QuestionIsHeld
    <2>4. Conflict(Write(QuestionOf[Wants(t).row]), Write(QuestionOf[Wants(t).row]))
        BY DEF Conflict, Write
    <2>5. u # t
        BY DEF WaitsFor
    <2> QED BY <2>2, <2>3, <2>4, <2>5 DEF LocksInv, Exclusive, InLine
<1> QED BY <1>1, <1>2, <1>3

LEMMA CirclesAreInLine ==
    ASSUME LocksInv, NEW t \in Deadlocked, script[t].kind \notin Turning
    PROVE  InLine(t)
<1>1. t \in Txns /\ Asks(t)
    BY CirclesClose DEF Deadlocked, WaitsFor
<1>2. script[t] \in Scripts /\ at[t] \in Nat
    BY <1>1 DEF LocksInv, TypeOK
<1>3. Orderly(script[t].locks)
    BY <1>2, ScriptsAreOrderly
<1> QED BY <1>1, <1>2, <1>3 DEF Asks, InLine

\* Along a chain of waiting the rows that are waited for rank higher.
LEMMA RanksGrow ==
    ASSUME LocksInv, NEW t, NEW u \in WaitsFor(t), NEW v \in WaitsFor(u), InLine(t), InLine(u), InLine(v)
    PROVE  Rank(Wants(t).row) < Rank(Wants(u).row)
<1>1. PICK i \in 1 .. at[u] : script[u].locks[i].row = Wants(t).row
    BY NoneWaitsForAMessage
<1>2. PICK n \in 1 .. at[v] : Conflict(script[v].locks[n], Wants(u)) /\ script[v].locks[n].row = Wants(u).row
    BY NoneWaitsForAMessage
<1>3. Role[Wants(t).row] # "waiting" /\ Role[Wants(u).row] # "waiting"
    BY NoneWaitsForAMessage
<1>4. PICK k : k = at[u] + 1
    OBVIOUS
<1>5. /\ Wants(u) = script[u].locks[k] /\ i < k
      /\ k \in 1 .. Len(script[u].locks) /\ i \in 1 .. Len(script[u].locks)
    BY <1>4 DEF Wants, InLine, Orderly
<1>6. ~(script[u].locks[i] = Write(Wants(u).row) /\ Role[Wants(u).row] = "product")
    <2> SUFFICES ASSUME script[u].locks[i] = Write(Wants(u).row), Role[Wants(u).row] = "product" PROVE FALSE
        OBVIOUS
    <2>1. script[u].locks[i] \in Holds(u) /\ script[v].locks[n] \in Holds(v)
        BY DEF Holds, InLine
    <2>2. n \in 1 .. Len(script[v].locks)
        BY DEF InLine, Orderly
    <2>3. script[v].locks[n].mode \in {"update", "write"}
        BY <1>2, <2>2 DEF InLine, Orderly, ProductsChange
    <2>4. Conflict(script[u].locks[i], script[v].locks[n])
        BY <1>2, <2>3 DEF Conflict, Write
    <2>5. u # v
        BY DEF WaitsFor
    <2> QED BY <2>1, <2>4, <2>5 DEF LocksInv, Exclusive, InLine
<1>7. Rank(script[u].locks[i].row) < Rank(script[u].locks[k].row)
    BY <1>1, <1>3, <1>5, <1>6 DEF InLine, Orderly, InOrder
<1> QED BY <1>1, <1>5, <1>7

LEMMA SomeoneTurns == LocksInv => CirclesNeedATurn
<1> SUFFICES ASSUME LocksInv, \A t \in Deadlocked : script[t].kind \notin Turning
             PROVE  Deadlocked = {}
    BY DEF CirclesNeedATurn, Turning
<1> DEFINE S == {Rank(Wants(t).row) : t \in Deadlocked}
<1>1. ASSUME NEW t \in Deadlocked
      PROVE  Rank(Wants(t).row) \in 1 .. 7 /\ \E u \in Deadlocked : Rank(Wants(t).row) < Rank(Wants(u).row)
    <2>1. PICK u \in Deadlocked : u \in WaitsFor(t)
        BY CirclesClose
    <2>2. PICK v \in Deadlocked : v \in WaitsFor(u)
        BY CirclesClose
    <2>3. InLine(t) /\ InLine(u) /\ InLine(v)
        BY CirclesAreInLine
    <2>4. Rank(Wants(t).row) < Rank(Wants(u).row)
        BY <2>1, <2>2, <2>3, RanksGrow
    <2>5. Role[Wants(t).row] # "waiting"
        BY <2>1, <2>3, NoneWaitsForAMessage
    <2>6. at[t] + 1 \in 1 .. Len(script[t].locks)
        BY <2>3 DEF InLine, Orderly
    <2>7. Rank(Wants(t).row) \in 1 .. 7
        BY <2>3, <2>5, <2>6 DEF Wants, InLine, Orderly, Ranked
    <2> QED BY <2>4, <2>7
<1>2. S \in SUBSET (1 .. 7) /\ \A a \in S : \E b \in S : a < b
    BY <1>1
<1>3. S = {}
    BY <1>2, NothingAboveSeven
<1> QED BY <1>3

(* Whatever transactions meet, on however many messages, products and      *)
(* customers: they wait for each other in a circle only if one of them is  *)
(* a late worker, which locks the message before its question              *)
(* (pipeline.py:198 before :293), or creates a customer whose name has a   *)
(* row by now (pipeline.py:219 before bookkeeping.py:17).  All others take *)
(* question, message, product and customer in this order.                  *)
THEOREM CirclesTurn == Spec => []CirclesNeedATurn
<1>1. Init => LocksInv
    BY InitLocks
<1>2. LocksInv /\ [Next]_vars => LocksInv'
    BY NextLocks
<1>3. LocksInv => CirclesNeedATurn
    BY SomeoneTurns
<1> QED BY <1>1, <1>2, <1>3, PTL DEF Spec
=============================================================================
