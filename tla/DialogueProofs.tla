--------------------------- MODULE DialogueProofs ---------------------------
(***************************************************************************)
(* What a dialogue books is what the catalog has and the user chose, for   *)
(* any catalog, sentences, answers, commands and spellings: decide and     *)
(* resolve look at the catalog of the transaction that books.              *)
(***************************************************************************)
EXTENDS Dialogue, TLAPS, FiniteSetTheorems, WellFoundedInduction

-----------------------------------------------------------------------------
(* Resolution.  Whatever a mention resolves to, or may mean, is an entry   *)
(* of the catalog it was resolved in.                                      *)
LEMMA FirstOfTwo ==
    ASSUME NEW a, NEW b
    PROVE  FirstNonEmpty(<<a, b>>) = IF a # {} THEN a ELSE b
<1> DEFINE s == <<a, b>>
           first(i) == i \in DOMAIN s /\ s[i] # {} /\ \A j \in 1 .. i - 1 : s[j] = {}
<1>1. DOMAIN s = 1 .. 2 /\ s[1] = a /\ s[2] = b
    OBVIOUS
<1>2. CASE a # {}
    <2>1. first(1) /\ \A i : first(i) => i = 1
        BY <1>1, <1>2
    <2> QED BY <1>1, <1>2, <2>1 DEF FirstNonEmpty
<1>3. CASE a = {} /\ b # {}
    <2>1. first(2) /\ \A i : first(i) => i = 2
        BY <1>1, <1>3
    <2> QED BY <1>1, <1>3, <2>1 DEF FirstNonEmpty
<1>4. CASE a = {} /\ b = {}
    BY <1>1, <1>4 DEF FirstNonEmpty
<1> QED BY <1>2, <1>3, <1>4

LEMMA FirstOfFour ==
    ASSUME NEW a, NEW b, NEW c, NEW d
    PROVE  FirstNonEmpty(<<a, b, c, d>>)
               = IF a # {} THEN a ELSE IF b # {} THEN b ELSE IF c # {} THEN c ELSE d
<1> DEFINE s == <<a, b, c, d>>
           first(i) == i \in DOMAIN s /\ s[i] # {} /\ \A j \in 1 .. i - 1 : s[j] = {}
<1>1. DOMAIN s = 1 .. 4 /\ s[1] = a /\ s[2] = b /\ s[3] = c /\ s[4] = d
    OBVIOUS
<1>2. CASE a # {}
    <2>1. first(1) /\ \A i : first(i) => i = 1
        BY <1>1, <1>2
    <2> QED BY <1>1, <1>2, <2>1 DEF FirstNonEmpty
<1>3. CASE a = {} /\ b # {}
    <2>1. first(2) /\ \A i : first(i) => i = 2
        BY <1>1, <1>3
    <2> QED BY <1>1, <1>3, <2>1 DEF FirstNonEmpty
<1>4. CASE a = {} /\ b = {} /\ c # {}
    <2>1. first(3) /\ \A i : first(i) => i = 3
        BY <1>1, <1>4
    <2> QED BY <1>1, <1>4, <2>1 DEF FirstNonEmpty
<1>5. CASE a = {} /\ b = {} /\ c = {} /\ d # {}
    <2>1. first(4) /\ \A i : first(i) => i = 4
        BY <1>1, <1>5
    <2> QED BY <1>1, <1>5, <2>1 DEF FirstNonEmpty
<1>6. CASE a = {} /\ b = {} /\ c = {} /\ d = {}
    BY <1>1, <1>6 DEF FirstNonEmpty
<1> QED BY <1>2, <1>3, <1>4, <1>5, <1>6

Statuses == {"RESOLVED", "AMBIGUOUS", "UNKNOWN", "MISSING", "MULTIPLE"}

\* A resolution within a catalog.
FoundIn(r, cs) ==
    /\ r.status \in Statuses /\ r.candidates \subseteq cs
    /\ r.status = "RESOLVED" => r.value \in cs

LEMMA OneIsThere ==
    ASSUME NEW S, Cardinality(S) = 1
    PROVE  (CHOOSE x \in S : TRUE) \in S
<1>1. S # {}
    BY FS_EmptySet
<1> QED BY <1>1

LEMMA CustomerFound == ASSUME NEW m, NEW cs PROVE FoundIn(ResolveCustomer(m, cs), cs)
<1>1. Hits(m, cs) \subseteq cs
    BY FirstOfFour DEF Hits
<1>2. Offered(m, cs) \subseteq cs
    BY DEF Offered
<1> QED BY <1>1, <1>2, OneIsThere DEF FoundIn, Statuses, ResolveCustomer, Resolved, Unresolved

-----------------------------------------------------------------------------
LEMMA LeastNumber ==
    ASSUME NEW B \in SUBSET Nat, B # {}
    PROVE  \E n \in B : \A k \in B : n <= k
<1> DEFINE R == OpToRel(<, Nat)
<1>1. IsWellFoundedOn(R, Nat)
    BY NatLessThanWellFounded
<1>2. \A j, k \in Nat : <<j, k>> \in R <=> j < k
    BY DEF OpToRel
<1>3. B \subseteq Nat /\ B # {}
    OBVIOUS
<1> HIDE DEF R
<1>4. PICK n \in B : \A k \in B : <<k, n>> \notin R
    BY <1>1, <1>3, WFMin, Zenon
<1>5. n \in Nat /\ \A k \in B : k \in Nat /\ ~(k < n)
    BY <1>2, <1>4
<1> QED BY <1>4, <1>5

\* The recursive function of Groups: its steps look ahead, never back.
KnownAt(m, ps, i) == {n \in 1 .. 3 : i + n - 1 <= Len(m) /\ Meant(SubSeq(m, i, i + n - 1), ps) # {}}
CutAt(m, ps, g, i) ==
    IF i > Len(m) THEN {}
    ELSE IF KnownAt(m, ps, i) = {} THEN g[i + 1]
    ELSE {Meant(SubSeq(m, i, i + Max(KnownAt(m, ps, i)) - 1), ps)} \cup g[i + Max(KnownAt(m, ps, i))]
Cut(m, ps) == CHOOSE g : g = [i \in 1 .. Len(m) + 3 |-> CutAt(m, ps, g, i)]

LEMMA GroupsAreCut == ASSUME NEW m, NEW ps PROVE Groups(m, ps) = Cut(m, ps)[1]
BY DEF Groups, Cut, CutAt, KnownAt

LEMMA LargestKnown ==
    ASSUME NEW m, NEW ps, NEW i, KnownAt(m, ps, i) # {}
    PROVE  Max(KnownAt(m, ps, i)) \in KnownAt(m, ps, i)
<1> DEFINE K == KnownAt(m, ps, i)
<1>1. K \subseteq {1, 2, 3} /\ K # {}
    BY DEF KnownAt
<1> HIDE DEF K
<1>2. \E x \in K : \A y \in K : x >= y
    <2>1. CASE 3 \in K
        BY <1>1, <2>1
    <2>2. CASE 3 \notin K /\ 2 \in K
        <3>1. \A y \in K : 2 >= y
            BY <1>1, <2>2
        <3> QED BY <2>2, <3>1
    <2>3. CASE 3 \notin K /\ 2 \notin K
        <3>1. \A y \in K : y = 1
            BY <1>1, <2>3
        <3>2. PICK x \in K : TRUE
            BY <1>1
        <3>3. x = 1
            BY <3>1
        <3>4. \A y \in K : x >= y
            BY <3>1, <3>3
        <3> QED BY <3>4
    <2> QED BY <2>1, <2>2, <2>3
<1>3. Max(K) \in K
    BY <1>2 DEF Max
<1> QED BY <1>3 DEF K

\* What a cut needs of the function is further on, and within its domain.
LEMMA CutLooksAhead ==
    ASSUME NEW m, Len(m) \in Nat, NEW ps, NEW i \in 1 .. Len(m) + 3, NEW g, NEW h,
           \A j \in 1 .. Len(m) + 3 : j > i => g[j] = h[j]
    PROVE  CutAt(m, ps, g, i) = CutAt(m, ps, h, i)
<1>1. CASE i > Len(m)
    BY <1>1 DEF CutAt
<1>2. CASE ~(i > Len(m)) /\ KnownAt(m, ps, i) = {}
    BY <1>2 DEF CutAt
<1>3. CASE ~(i > Len(m)) /\ KnownAt(m, ps, i) # {}
    <2>1. PICK x : x = Max(KnownAt(m, ps, i))
        OBVIOUS
    <2>2. x \in 1 .. 3 /\ i + x - 1 <= Len(m)
        <3>1. x \in KnownAt(m, ps, i)
            BY <1>3, <2>1, LargestKnown
        <3> QED BY <3>1 DEF KnownAt
    <2>3. g[i + x] = h[i + x]
        BY <2>2
    <2> QED BY <1>3, <2>1, <2>3 DEF CutAt
<1> QED BY <1>1, <1>2, <1>3

LEMMA CutExists ==
    ASSUME NEW m, Len(m) \in Nat, NEW ps
    PROVE  Cut(m, ps) = [i \in 1 .. Len(m) + 3 |-> CutAt(m, ps, Cut(m, ps), i)]
<1> DEFINE N == Len(m) + 3
           from(g, k) == \A i \in 1 .. N : i > N - k => g[i] = CutAt(m, ps, g, i)
           B == {k \in 0 .. N : ~\E g : g = [i \in 1 .. N |-> g[i]] /\ from(g, k)}
<1>0. N \in Nat /\ N = Len(m) + 3
    OBVIOUS
<1>1. B = {}
    <2> SUFFICES ASSUME B # {} PROVE FALSE
        OBVIOUS
    <2>1. PICK k \in B : \A j \in B : k <= j
        <3>1. B \in SUBSET Nat
            BY <1>0
        <3> HIDE DEF B
        <3> QED BY <3>1, LeastNumber
    <2>2. k # 0
        <3>1. DEFINE g0 == [i \in 1 .. N |-> {}]
        <3>2. g0 = [i \in 1 .. N |-> g0[i]] /\ from(g0, 0)
            BY <1>0
        <3> QED BY <2>1, <3>2
    <2>3. k - 1 \in 0 .. N /\ k - 1 \notin B
        BY <1>0, <2>1, <2>2
    <2>4. PICK g : g = [i \in 1 .. N |-> g[i]] /\ from(g, k - 1)
        BY <2>3
    <2> DEFINE n == N - k + 1
               h == [i \in 1 .. N |-> IF i = n THEN CutAt(m, ps, g, n) ELSE g[i]]
    <2>5. n \in 1 .. N
        BY <1>0, <2>1, <2>2
    <2>6. ASSUME NEW i \in 1 .. N, i > N - k PROVE h[i] = CutAt(m, ps, h, i)
        <3> HIDE DEF N
        <3>1. i = n \/ i > N - (k - 1)
            BY <1>0, <2>1, <2>6
        <3>2. h[i] = CutAt(m, ps, g, i)
            BY <2>4, <2>5, <3>1
        <3>3. \A j \in 1 .. N : j > i => g[j] = h[j]
            BY <1>0, <2>1, <3>1
        <3> HIDE DEF h
        <3> QED BY <1>0, <3>2, <3>3, CutLooksAhead
    <2>7. h = [i \in 1 .. N |-> h[i]]
        OBVIOUS
    <2> QED BY <2>1, <2>6, <2>7
<1>2. PICK g : g = [i \in 1 .. N |-> g[i]] /\ from(g, N)
    BY <1>0, <1>1
<1>3. g = [i \in 1 .. N |-> CutAt(m, ps, g, i)]
    BY <1>0, <1>2
<1> QED BY <1>3 DEF Cut

\* A group is what some phrase stands for, and so a set of products.
LEMMA GroupsWithin == ASSUME NEW m, Len(m) \in Nat, NEW ps PROVE \A g \in Groups(m, ps) : g \subseteq ps
<1> DEFINE cut == Cut(m, ps)
           N == Len(m) + 3
           bad(i) == ~\A g \in cut[i] : g \subseteq ps
           B == {k \in 0 .. N - 1 : bad(N - k)}
<1>0. N \in Nat /\ N = Len(m) + 3
    OBVIOUS
<1>1. ASSUME NEW i \in 1 .. N PROVE cut[i] = CutAt(m, ps, cut, i)
    <2> HIDE DEF cut
    <2> QED BY <1>0, CutExists DEF cut
<1>2. \A phrase : Meant(phrase, ps) \subseteq ps
    BY FirstOfTwo DEF Meant, Named, Sounding
<1>3. B = {}
    <2> SUFFICES ASSUME B # {} PROVE FALSE
        OBVIOUS
    <2>1. PICK k \in B : \A j \in B : k <= j
        <3>1. B \in SUBSET Nat
            BY <1>0
        <3> HIDE DEF B
        <3> QED BY <3>1, LeastNumber
    <2> DEFINE i == N - k
    <2>2. i \in 1 .. N /\ bad(i) /\ k \in Nat
        BY <1>0, <2>1
    <2>3. \A j \in 1 .. N : j > i => ~bad(j)
        <3>1. ASSUME NEW j \in 1 .. N, j > i, bad(j) PROVE FALSE
            <4>1. N - j \in 0 .. N - 1 /\ N - (N - j) = j /\ N - j < k
                BY <1>0, <2>1, <3>1
            <4>2. N - j \in B
                BY <3>1, <4>1
            <4> HIDE DEF B
            <4> QED BY <1>0, <2>1, <2>2, <4>1, <4>2
        <3> QED BY <3>1
    <2> HIDE DEF i, B
    <2>4. cut[i] = CutAt(m, ps, cut, i)
        BY <1>1, <2>2
    <2> HIDE DEF cut
    <2>5. CASE i > Len(m)
        BY <2>2, <2>4, <2>5 DEF CutAt
    <2>6. CASE ~(i > Len(m)) /\ KnownAt(m, ps, i) = {}
        BY <1>0, <2>2, <2>3, <2>4, <2>6 DEF CutAt
    <2>7. CASE ~(i > Len(m)) /\ KnownAt(m, ps, i) # {}
        <3>1. PICK x : x = Max(KnownAt(m, ps, i))
            OBVIOUS
        <3>2. x \in 1 .. 3 /\ i + x - 1 <= Len(m)
            <4>1. x \in KnownAt(m, ps, i)
                BY <2>7, <3>1, LargestKnown
            <4> QED BY <4>1 DEF KnownAt
        <3>3. cut[i] = {Meant(SubSeq(m, i, i + x - 1), ps)} \cup cut[i + x]
            BY <2>4, <2>7, <3>1 DEF CutAt
        <3>4. i + x \in 1 .. N /\ i + x > i
            BY <1>0, <2>2, <3>2
        <3> QED BY <1>2, <2>2, <2>3, <3>3, <3>4
    <2> QED BY <2>5, <2>6, <2>7
<1>4. ~bad(1)
    <2>1. N - 1 \in 0 .. N - 1 /\ N - (N - 1) = 1
        BY <1>0
    <2> HIDE DEF N, bad
    <2> QED BY <1>3, <2>1
<1> QED BY <1>4, GroupsAreCut

LEMMA ProductFound ==
    ASSUME NEW m, Len(m) \in Nat, NEW ps PROVE FoundIn(ResolveProduct(m, ps), ps)
<1> DEFINE groups == FirstNonEmpty(<<Groups(m, ps), Misspelt(m, ps)>>)
<1>1. \A g \in groups : g \subseteq ps
    <2>1. \A g \in Misspelt(m, ps) : g \subseteq ps
        BY DEF Misspelt, Named
    <2> QED BY <2>1, FirstOfTwo, GroupsWithin
<1>2. UNION groups \subseteq ps
    BY <1>1
<1>3. NearMisses(m, ps) \subseteq ps
    BY DEF NearMisses
<1>4. ResolveProduct(m, ps) =
        IF m = <<>> THEN Unresolved("MISSING", {})
        ELSE IF groups = {} THEN Unresolved("UNKNOWN", NearMisses(m, ps))
        ELSE IF Cardinality(groups) > 1 THEN Unresolved("MULTIPLE", {})
        ELSE IF Cardinality(UNION groups) = 1 THEN Resolved(CHOOSE p \in UNION groups : TRUE)
        ELSE Unresolved("AMBIGUOUS", UNION groups)
    BY DEF ResolveProduct
<1> HIDE DEF groups
<1> QED BY <1>2, <1>3, <1>4, OneIsThere DEF FoundIn, Statuses, Resolved, Unresolved

-----------------------------------------------------------------------------
(* Money.                                                                  *)
LEMMA HalfUpNat == ASSUME NEW n \in Nat, NEW d \in {1, 10, 1000, 12000} PROVE HalfUp(n, d) \in Nat
<1>1. CASE d = 1
    BY <1>1 DEF HalfUp
<1>2. CASE d = 10
    BY <1>2 DEF HalfUp
<1>3. CASE d = 1000
    BY <1>3 DEF HalfUp
<1>4. CASE d = 12000
    BY <1>4 DEF HalfUp
<1> QED BY <1>1, <1>2, <1>3, <1>4

LEMMA TimesNat == ASSUME NEW a \in Nat, NEW b \in Nat PROVE a * b \in Nat
OBVIOUS

LEMMA MoneyTypes ==
    ASSUME NEW n \in Nat, NEW k \in Nat, NEW unit \in Units, NEW base \in BaseUnits
    PROVE  /\ RupeesToPaise(n) \in Nat /\ LineAmount(n, k) \in Nat
           /\ ToBaseQty(n, unit, base) \in Number /\ UnitPriceToBase(n, unit, base) \in Number
           /\ BaseUnitOf[unit] \in BaseUnits
<1>1. RupeesToPaise(n) \in Nat
    BY HalfUpNat DEF RupeesToPaise
<1>2. LineAmount(n, k) \in Nat
    BY HalfUpNat, TimesNat DEF LineAmount
<1>3. Factor[unit] \in {1, 1000, 12000}
    BY DEF Factor, Units
<1>4. n * Factor[unit] \in Nat /\ n * 1000 \in Nat
    BY <1>3, TimesNat
<1>5. HalfEven(n * Factor[unit], 1000) \in Nat
    <2>1. PICK j \in Nat : j = n * Factor[unit]
        BY <1>4
    <2>2. HalfUp(j, 1000) \in Nat /\ j \div 1000 \in Nat
        BY HalfUpNat
    <2>3. HalfEven(j, 1000) \in Nat
        BY <2>2 DEF HalfEven
    <2> QED BY <2>1, <2>3
<1>6. HalfUp(n * 1000, Factor[unit]) \in Nat
    BY <1>3, <1>4, HalfUpNat
<1> QED BY <1>1, <1>2, <1>5, <1>6 DEF ToBaseQty, UnitPriceToBase, Number, BaseUnits

-----------------------------------------------------------------------------
(* Decisions.                                                              *)
LEMMA MentionIsSequence == ASSUME NEW m \in Mentions PROVE Len(m) \in Nat
BY DialogueAssumption DEF Mentions

LEMMA LoadedRows ==
    ASSUME NEW t, NEW row, Table(t, row)
    PROVE  /\ Active(t) \subseteq Names
           /\ \A e \in Load(t) : e \in row /\ e.id \in Active(t) /\ e = t[e.id]
           /\ \A n \in Active(t) : t[n] \in Load(t) /\ t[n].id = n
BY DEF Load, Active, Table

LEMMA LoadedIsFinite == ASSUME NEW t, NEW row, Table(t, row) PROVE IsFiniteSet(Load(t))
<1>1. IsFiniteSet(Active(t))
    BY LoadedRows, DialogueAssumption, FS_Subset
<1>2. [n \in Active(t) |-> t[n]] \in Surjection(Active(t), Load(t))
    BY DEF Load, Surjection
<1> QED BY <1>1, <1>2, FS_Surjection DEF ExistsSurjection

\* A sentence, overrides, and what its mentions mean in a catalog.
CaseOK(c, cs, ps) ==
    /\ c.p \in Sentence /\ c.o \in Overrides
    /\ FoundIn(c.cust, Load(cs)) /\ FoundIn(c.prod, Load(ps))

LEMMA ChosenFound ==
    ASSUME NEW id, NEW es, NEW r, FoundIn(r, es) PROVE FoundIn(Chosen(id, es, r), es)
BY DEF Chosen, FoundIn, Resolved, Statuses

LEMMA CaseTyped ==
    ASSUME NEW p \in Sentence, NEW o \in Overrides, NEW cs, NEW ps
    PROVE  CaseOK(Case(p, o, cs, ps), cs, ps)
<1>1. Len(p.product) \in Nat
    BY MentionIsSequence DEF Sentence
<1> QED BY <1>1, CustomerFound, ProductFound, ChosenFound DEF Case, CaseOK

\* The verdict is a condition that applies, or none does.
LEMMA Verdicts ==
    ASSUME NEW c
    PROVE  /\ Verdict(c) = "COMMIT" => \A i \in DOMAIN Precedence : ~Applies(Precedence[i], c)
           /\ Verdict(c) # "COMMIT" => /\ Verdict(c) \in {Precedence[i] : i \in DOMAIN Precedence}
                                       /\ Applies(Verdict(c), c)
<1> DEFINE A == {i \in DOMAIN Precedence : Applies(Precedence[i], c)}
<1>1. DOMAIN Precedence = 1 .. 18
    BY DEF Precedence
<1>2. CASE A = {}
    BY <1>2 DEF Verdict
<1>3. CASE A # {}
    <2>1. A \in SUBSET Nat
        BY <1>1
    <2>2. PICK n \in A : \A k \in A : n <= k
        <3> HIDE DEF A
        <3> QED BY <1>3, <2>1, LeastNumber
    <2>3. \A j \in 1 .. n - 1 : ~Applies(Precedence[j], c)
        <3>1. \A j \in 1 .. n - 1 : j \in DOMAIN Precedence /\ ~(n <= j)
            BY <1>1, <2>2
        <3> QED BY <2>2, <3>1
    <2>4. \E i \in DOMAIN Precedence :
              Applies(Precedence[i], c) /\ \A j \in 1 .. i - 1 : ~Applies(Precedence[j], c)
        BY <2>2, <2>3
    <2>5. PICK i \in DOMAIN Precedence : Verdict(c) = Precedence[i] /\ Applies(Precedence[i], c)
        BY <1>3, <2>4 DEF Verdict
    <2>6. Precedence[i] # "COMMIT"
        BY <1>1 DEF Precedence
    <2> QED BY <2>5, <2>6
<1> QED BY <1>2, <1>3

\* Nothing stands between the case and its booking.
Clear(c) == \A i \in DOMAIN Precedence : ~Applies(Precedence[i], c)

LEMMA ClearMeans ==
    ASSUME NEW c, Clear(c)
    PROVE  /\ c.p.type # Nobody /\ Type(c) # "SALE"
           /\ ForCustomer(c) => c.cust.status \notin {"AMBIGUOUS", "UNKNOWN", "MISSING"}
           /\ ForProduct(c) => /\ c.prod.status \notin {"MULTIPLE", "AMBIGUOUS", "UNKNOWN", "MISSING"}
                               /\ Quantity(c) \notin {0, None}
           /\ Type(c) = "CREDIT_REPAYMENT" => c.o.total > 0 \/ Said(c.p.total)
           /\ Sale(c) => /\ PriceSource(c) # "none"
                         /\ PriceSource(c) = "price" => UnitPrice(c) # None
<1>1. \A r \in {"QUESTION", "CHOOSE_PAYMENT", "AMBIGUOUS_CUSTOMER", "UNKNOWN_CUSTOMER", "MISSING_CUSTOMER",
                "MULTIPLE_PRODUCTS", "AMBIGUOUS_PRODUCT", "UNKNOWN_PRODUCT", "MISSING_PRODUCT",
                "MISSING_QUANTITY", "UNIT_MISMATCH", "MISSING_AMOUNT", "PRICE_MISMATCH", "MISSING_PRICE"} :
           ~Applies(r, c)
    <2>1. /\ Precedence[2] = "QUESTION" /\ Precedence[3] = "MULTIPLE_PRODUCTS"
          /\ Precedence[6] = "AMBIGUOUS_CUSTOMER" /\ Precedence[7] = "UNKNOWN_CUSTOMER"
          /\ Precedence[8] = "MISSING_CUSTOMER" /\ Precedence[9] = "AMBIGUOUS_PRODUCT"
          /\ Precedence[10] = "UNKNOWN_PRODUCT" /\ Precedence[11] = "MISSING_PRODUCT"
          /\ Precedence[12] = "MISSING_QUANTITY" /\ Precedence[13] = "UNIT_MISMATCH"
          /\ Precedence[14] = "MISSING_AMOUNT" /\ Precedence[15] = "CHOOSE_PAYMENT"
          /\ Precedence[16] = "PRICE_MISMATCH" /\ Precedence[17] = "MISSING_PRICE"
          /\ DOMAIN Precedence = 1 .. 18
        BY DEF Precedence
    <2> QED BY <2>1 DEF Clear
<1>2. /\ ~Applies("QUESTION", c) /\ ~Applies("CHOOSE_PAYMENT", c)
      /\ ~Applies("AMBIGUOUS_CUSTOMER", c) /\ ~Applies("UNKNOWN_CUSTOMER", c) /\ ~Applies("MISSING_CUSTOMER", c)
    BY <1>1
<1>3. /\ ~Applies("MULTIPLE_PRODUCTS", c) /\ ~Applies("AMBIGUOUS_PRODUCT", c)
      /\ ~Applies("UNKNOWN_PRODUCT", c) /\ ~Applies("MISSING_PRODUCT", c)
      /\ ~Applies("MISSING_QUANTITY", c) /\ ~Applies("UNIT_MISMATCH", c)
    BY <1>1
<1>4. ~Applies("MISSING_AMOUNT", c) /\ ~Applies("PRICE_MISMATCH", c) /\ ~Applies("MISSING_PRICE", c)
    BY <1>1
<1>5. /\ c.p.type # Nobody /\ Type(c) # "SALE"
      /\ ForCustomer(c) => c.cust.status \notin {"AMBIGUOUS", "UNKNOWN", "MISSING"}
    BY <1>2 DEF Applies
<1>6. ForProduct(c) => /\ c.prod.status \notin {"MULTIPLE", "AMBIGUOUS", "UNKNOWN", "MISSING"}
                       /\ Quantity(c) \notin {0, None}
    BY <1>3 DEF Applies
<1>7. /\ Type(c) = "CREDIT_REPAYMENT" => c.o.total > 0 \/ Said(c.p.total)
      /\ Sale(c) => /\ PriceSource(c) # "none"
                    /\ PriceSource(c) = "price" => UnitPrice(c) # None
    BY <1>4 DEF Applies
<1> QED BY <1>5, <1>6, <1>7

EntryRow == [type : Types \cup {Nobody}, customer : Names \cup {Nobody}, product : Names \cup {Nobody},
             qty : Number, amount : Number]

LEMMA TypeTyped ==
    ASSUME NEW c, c.p \in Sentence, c.o \in Overrides
    PROVE  /\ Type(c) \in Types \cup {Nobody}
           /\ c.p.type # Nobody => Type(c) \in Types
BY DialogueAssumption DEF Type, Sentence, Overrides, Types, NeedsCustomer, NeedsProduct

LEMMA QuantityTyped ==
    ASSUME NEW c, NEW cs, NEW ps, CaseOK(c, cs, ps), Table(ps, ProductRow), c.prod.status = "RESOLVED"
    PROVE  Quantity(c) \in Number
<1>1. c.prod.value \in ProductRow
    BY LoadedRows DEF CaseOK, FoundIn
<1>2. c.prod.value.unit \in BaseUnits /\ c.p.unit \in Units \cup {Nobody} /\ c.p.qty \in Number
      /\ c.o.qty \in Number
    BY <1>1 DEF ProductRow, CaseOK, Sentence, Overrides
<1>3. Countable \subseteq Units
    BY DEF Countable, Units
<1>4. UnitSaid(c) \in Units \cup {Nobody}
    BY <1>2, <1>3 DEF UnitSaid
<1>5. \A q \in Nat : UnitSaid(c) \in Units => ToBaseQty(q, UnitSaid(c), c.prod.value.unit) \in Number
    BY <1>2, MoneyTypes
<1>6. c.p.qty \in Nat \/ ~Said(c.p.qty)
    BY <1>2 DEF Number, Said
<1> QED BY <1>2, <1>4, <1>5, <1>6 DEF Quantity, Number

LEMMA AmountTyped ==
    ASSUME NEW c, NEW cs, NEW ps, CaseOK(c, cs, ps), Table(ps, ProductRow), Clear(c)
    PROVE  Amount(c) \in Number
<1>1. /\ c.o.total \in Number /\ c.o.price \in Number /\ c.p.total \in Number /\ c.p.price \in Number
      /\ c.p.unit \in Units \cup {Nobody} /\ c.p.priceUnit \in Units \cup {Nobody}
    BY DEF CaseOK, Sentence, Overrides
<1>2. \A n \in Number : Said(n) => n \in Nat /\ RupeesToPaise(n) \in Nat
    BY MoneyTypes DEF Number, Said, Units, BaseUnits
<1>3. CASE Type(c) = "CREDIT_REPAYMENT"
    BY <1>1, <1>2, <1>3, ClearMeans DEF Amount, Number
<1>4. CASE Sale(c)
    <2>1. ForProduct(c) /\ PriceSource(c) # "none" /\ (PriceSource(c) = "price" => UnitPrice(c) # None)
        BY <1>4, ClearMeans DEF ForProduct, Sale, NeedsProduct
    <2>2. c.prod.status = "RESOLVED" /\ Quantity(c) \notin {0, None}
        BY <2>1, ClearMeans DEF CaseOK, FoundIn, Statuses
    <2>3. Quantity(c) \in Nat
        BY <2>2, QuantityTyped DEF Number
    <2>4. c.prod.value.unit \in BaseUnits /\ c.prod.value.price \in Number
        <3>1. c.prod.value \in ProductRow
            BY <2>2, LoadedRows DEF CaseOK, FoundIn
        <3> QED BY <3>1 DEF ProductRow
    <2>5. CASE PriceSource(c) = "answered price"
        <3>1. c.o.price \in Nat
            BY <1>1, <2>5 DEF PriceSource, Number, None
        <3>2. LineAmount(Quantity(c), c.o.price) \in Nat
            BY <2>3, <3>1, MoneyTypes DEF BaseUnits, Units
        <3> QED BY <1>4, <2>5, <3>2 DEF Amount, SaleAmount, UnitPrice, Sale, Number
    <2>6. CASE PriceSource(c) = "answered total"
        BY <1>1, <1>4, <2>6 DEF Amount, SaleAmount, PriceSource, Sale, Number
    <2>7. CASE PriceSource(c) = "total"
        <3>1. Said(c.p.total)
            BY <2>7 DEF PriceSource
        <3> QED BY <1>1, <1>2, <1>4, <2>7, <3>1 DEF Amount, SaleAmount, Sale, Number
    <2>8. CASE PriceSource(c) = "price"
        <3>1. Said(c.p.price)
            BY <2>8 DEF PriceSource
        <3>2. PriceUnit(c) \in Units
            BY <1>1, <2>4 DEF PriceUnit, BaseUnits, Units, BaseUnitOf
        <3>3. UnitPrice(c) = UnitPriceToBase(RupeesToPaise(c.p.price), PriceUnit(c), c.prod.value.unit)
            BY <2>8 DEF UnitPrice
        <3>4. UnitPrice(c) \in Nat
            <4>1. RupeesToPaise(c.p.price) \in Nat
                BY <1>1, <1>2, <3>1
            <4>2. UnitPrice(c) \in Number
                BY <2>4, <3>2, <3>3, <4>1, MoneyTypes
            <4> QED BY <2>1, <2>8, <4>2 DEF Number
        <3>5. LineAmount(Quantity(c), UnitPrice(c)) \in Nat
            BY <2>3, <3>4, MoneyTypes DEF BaseUnits, Units
        <3> QED BY <1>4, <2>8, <3>5 DEF Amount, SaleAmount, Sale, Number
    <2>9. CASE PriceSource(c) = "catalog"
        <3>1. c.prod.value.price \in Nat
            BY <1>2, <2>4, <2>9 DEF PriceSource
        <3>2. LineAmount(Quantity(c), c.prod.value.price) \in Nat
            BY <2>3, <3>1, MoneyTypes DEF BaseUnits, Units
        <3> QED BY <1>4, <2>9, <3>2 DEF Amount, SaleAmount, UnitPrice, Sale, Number
    <2> QED BY <2>1, <2>5, <2>6, <2>7, <2>8, <2>9 DEF PriceSource
<1>5. CASE Type(c) # "CREDIT_REPAYMENT" /\ ~Sale(c)
    BY <1>1, <1>2, <1>5 DEF Amount, Sale, Number
<1> QED BY <1>3, <1>4, <1>5

\* A booking names a type, and rows of the catalog it was decided in.
LEMMA EntryTyped ==
    ASSUME NEW c, NEW cs, NEW ps, CaseOK(c, cs, ps), Table(cs, CustomerRow), Table(ps, ProductRow),
           Verdict(c) = "COMMIT"
    PROVE  /\ Entry(c) \in EntryRow /\ Entry(c).type # Nobody
           /\ Entry(c).customer \in Active(cs) \cup {Nobody}
           /\ Entry(c).product \in Active(ps) \cup {Nobody}
<1>1. Clear(c)
    BY Verdicts DEF Clear
<1>2. Type(c) \in Types
    BY <1>1, ClearMeans, TypeTyped DEF CaseOK
<1>3. Type(c) # Nobody
    BY <1>2, DialogueAssumption
<1>4. c.cust.status = "RESOLVED" => c.cust.value.id \in Active(cs)
    BY LoadedRows DEF CaseOK, FoundIn
<1>5. ForProduct(c) => c.prod.status = "RESOLVED"
    BY <1>1, ClearMeans DEF CaseOK, FoundIn, Statuses
<1>6. ForProduct(c) => c.prod.value.id \in Active(ps) /\ Quantity(c) \in Number
    BY <1>5, LoadedRows, QuantityTyped DEF CaseOK, FoundIn
<1>7. Active(cs) \subseteq Names /\ Active(ps) \subseteq Names
    BY LoadedRows
<1>8. Amount(c) \in Number
    BY <1>1, AmountTyped
<1> QED BY <1>2, <1>3, <1>4, <1>6, <1>7, <1>8 DEF Entry, EntryRow, Number

-----------------------------------------------------------------------------
(* The transaction body.                                                   *)
LEMMA RowReplaced ==
    ASSUME NEW t, NEW row, Table(t, row), NEW n \in Names, NEW r \in row, r.id = n
    PROVE  Table([t EXCEPT ![n] = r], row)
BY DEF Table

LEMMA RowsTyped ==
    ASSUME NEW t, NEW n \in Names, NEW alias \in Mentions
    PROVE  /\ Table(t, CustomerRow) => /\ Table([t EXCEPT ![n] = [@ EXCEPT !.known = TRUE, !.active = TRUE]], CustomerRow)
                                       /\ Table([t EXCEPT ![n].active = FALSE], CustomerRow)
                                       /\ Table(Taught(t, n, alias), CustomerRow)
           /\ Table(t, ProductRow) => /\ Table([t EXCEPT ![n].active = FALSE], ProductRow)
                                      /\ Table(Taught(t, n, alias), ProductRow)
                                      /\ \A price \in Number : Table([t EXCEPT ![n].price = price], ProductRow)
<1>1. ASSUME Table(t, CustomerRow)
      PROVE  /\ Table([t EXCEPT ![n] = [@ EXCEPT !.known = TRUE, !.active = TRUE]], CustomerRow)
             /\ Table([t EXCEPT ![n].active = FALSE], CustomerRow)
             /\ Table(Taught(t, n, alias), CustomerRow)
    <2>1. t[n] \in CustomerRow /\ t[n].id = n
        BY <1>1 DEF Table
    <2> DEFINE a == [t[n] EXCEPT !.known = TRUE, !.active = TRUE]
               b == [t[n] EXCEPT !.active = FALSE]
               c == [t[n] EXCEPT !.aliases = IF alias = n THEN @ ELSE @ \cup {alias}]
    <2>2. /\ a \in CustomerRow /\ a.id = n
          /\ b \in CustomerRow /\ b.id = n
          /\ c \in CustomerRow /\ c.id = n
        BY <2>1 DEF CustomerRow
    <2>3. Taught(t, n, alias) = [t EXCEPT ![n] = c]
        BY DEF Taught
    <2> HIDE DEF a, b, c
    <2>4. /\ Table([t EXCEPT ![n] = a], CustomerRow)
          /\ Table([t EXCEPT ![n] = b], CustomerRow)
          /\ Table([t EXCEPT ![n] = c], CustomerRow)
        BY <1>1, <2>2, RowReplaced
    <2> QED BY <2>3, <2>4 DEF a, b
<1>2. ASSUME Table(t, ProductRow)
      PROVE  /\ Table([t EXCEPT ![n].active = FALSE], ProductRow)
             /\ Table(Taught(t, n, alias), ProductRow)
             /\ \A price \in Number : Table([t EXCEPT ![n].price = price], ProductRow)
    <2>1. t[n] \in ProductRow /\ t[n].id = n
        BY <1>2 DEF Table
    <2> DEFINE b == [t[n] EXCEPT !.active = FALSE]
               c == [t[n] EXCEPT !.aliases = IF alias = n THEN @ ELSE @ \cup {alias}]
               d(price) == [t[n] EXCEPT !.price = price]
    <2>2. /\ b \in ProductRow /\ b.id = n
          /\ c \in ProductRow /\ c.id = n
          /\ \A price \in Number : d(price) \in ProductRow /\ d(price).id = n
        BY <2>1 DEF ProductRow
    <2>3. Taught(t, n, alias) = [t EXCEPT ![n] = c]
        BY DEF Taught
    <2> HIDE DEF b, c, d
    <2>4. /\ Table([t EXCEPT ![n] = b], ProductRow)
          /\ Table([t EXCEPT ![n] = c], ProductRow)
          /\ \A price \in Number : Table([t EXCEPT ![n] = d(price)], ProductRow)
        BY <1>2, <2>2, RowReplaced
    <2> QED BY <2>3, <2>4 DEF b, d
<1> QED BY <1>1, <1>2

LEMMA AddedProductTyped ==
    ASSUME Table(products, ProductRow), NEW n \in Names, NEW unit \in BaseUnits, NEW price \in Number,
           NEW alias \in Mentions
    PROVE  Table(AddedProduct(n, unit, price, alias), ProductRow)
<1> DEFINE row == [id |-> n, known |-> TRUE, active |-> TRUE, unit |-> unit,
                   price |-> IF price > 0 THEN price ELSE IF products[n].known THEN products[n].price ELSE None,
                   aliases |-> (products[n].aliases \cup {n, alias}) \ {<<>>}]
<1>1. products[n] \in ProductRow
    BY DEF Table
<1>2. row \in ProductRow /\ row.id = n
    BY <1>1 DEF ProductRow, Number, Mentions
<1>3. AddedProduct(n, unit, price, alias) = [products EXCEPT ![n] = row]
    BY DEF AddedProduct
<1> HIDE DEF row
<1> QED BY <1>2, <1>3 DEF Table

FlowReasons == {"ENTER_CUSTOMER", "ENTER_NAME", "CHOOSE_UNIT", "ENTER_PRICE"}

\* A transaction asks, closes the message without a booking, or books what
\* the case of its catalog, sentence and draft comes to.
Asks(m, p, o) ==
    \E r \in Reasons \ Refusals, cands \in SUBSET Names :
        /\ r # "none" /\ Ask(m, o, r, cands)
        /\ r = "UNKNOWN_PRODUCT" => p.product # <<>> /\ o.product \notin cands
Ends(m, o) == \E s \in {"DONE", "REJECTED", "FAILED"} : Close(m, o, s) /\ UNCHANGED entry
Books(m, p, o) ==
    LET c == Case(p, o, customers', products') IN
    /\ Verdict(c) = "COMMIT"
    /\ Close(m, o, "COMMITTED")
    /\ entry' = [entry EXCEPT ![m] = Entry(c)]

CatalogTyped == Table(customers, CustomerRow) /\ Table(products, ProductRow)

LEMMA CandidatesAreNames ==
    ASSUME NEW r, NEW c, NEW cs, NEW ps, CaseOK(c, cs, ps), Table(cs, CustomerRow), Table(ps, ProductRow)
    PROVE  Candidates(r, c) \subseteq Names
<1>1. c.cust.candidates \subseteq Load(cs) /\ c.prod.candidates \subseteq Load(ps)
    BY DEF CaseOK, FoundIn
<1>2. \A e \in Load(cs) \cup Load(ps) : e.id \in Names
    BY LoadedRows
<1> QED BY <1>1, <1>2 DEF Candidates

\* What is offered for an unknown item is not what was chosen before.
LEMMA NearMissesAreNew ==
    ASSUME NEW p \in Sentence, NEW o, NEW cs, NEW ps, Case(p, o, cs, ps).prod.status = "UNKNOWN"
    PROVE  p.product # <<>> /\ o.product \notin Candidates("UNKNOWN_PRODUCT", Case(p, o, cs, ps))
<1> DEFINE r == ResolveProduct(p.product, Load(ps))
<1>1. Case(p, o, cs, ps).prod = r /\ \A e \in Load(ps) : e.id # o.product
    BY DEF Case, Chosen, Resolved
<1>2. FoundIn(r, Load(ps))
    BY ProductFound, MentionIsSequence DEF Sentence
<1>3. p.product # <<>>
    BY <1>1 DEF ResolveProduct, Unresolved
<1> HIDE DEF r
<1>4. Candidates("UNKNOWN_PRODUCT", Case(p, o, cs, ps)) = {e.id : e \in r.candidates}
    BY <1>1 DEF Candidates
<1> QED BY <1>1, <1>2, <1>3, <1>4 DEF FoundIn

LEMMA DecidedOutcome ==
    ASSUME NEW m \in Msgs, NEW p \in Sentence, NEW o \in Overrides, CatalogTyped',
           Decided(m, Case(p, o, customers', products'))
    PROVE  Asks(m, p, o) \/ Ends(m, o) \/ Books(m, p, o)
<1> DEFINE c == Case(p, o, customers', products')
<1>1. c.o = o
    BY DEF Case
<1>2. CaseOK(c, customers', products')
    BY CaseTyped
<1>3. Candidates(Verdict(c), c) \in SUBSET Names
    BY <1>2, CandidatesAreNames DEF CatalogTyped
<1>4. Verdict(c) # "COMMIT" => Verdict(c) \in {Precedence[i] : i \in DOMAIN Precedence}
    BY Verdicts
<1>5. "none" \notin {Precedence[i] : i \in DOMAIN Precedence}
    BY DEF Precedence
<1> HIDE DEF c
<1>6. Decided(m, c)
    BY DEF c
<1>7. CASE Verdict(c) = "COMMIT"
    BY <1>1, <1>6, <1>7 DEF Decided, Books, c, Refusals
<1>8. CASE Verdict(c) \in Refusals
    BY <1>1, <1>6, <1>8 DEF Decided, Ends, Refusals
<1>9. CASE Verdict(c) \notin Refusals \cup {"COMMIT"}
    <2>1. Ask(m, o, Verdict(c), Candidates(Verdict(c), c))
        BY <1>1, <1>6, <1>9 DEF Decided
    <2>2. Verdict(c) \in Reasons \ Refusals /\ Verdict(c) # "none"
        BY <1>4, <1>5, <1>9 DEF Reasons
    <2>3. Verdict(c) = "UNKNOWN_PRODUCT" => p.product # <<>> /\ o.product \notin Candidates(Verdict(c), c)
        <3>1. Verdict(c) = "UNKNOWN_PRODUCT" => Applies("UNKNOWN_PRODUCT", c)
            BY Verdicts
        <3>2. Applies("UNKNOWN_PRODUCT", c) => c.prod.status = "UNKNOWN"
            BY DEF Applies
        <3> QED BY <3>1, <3>2, NearMissesAreNew DEF c
    <2> QED BY <1>3, <2>1, <2>2, <2>3 DEF Asks
<1> QED BY <1>7, <1>8, <1>9

LEMMA DecideOutcome ==
    ASSUME CatalogTyped, NEW m \in Msgs, NEW p \in Sentence, NEW o0 \in Overrides, NEW ps0, Table(ps0, ProductRow),
           DecideAndPost(m, p, o0, ps0)
    PROVE  /\ CatalogTyped'
           /\ parsed' = [parsed EXCEPT ![m] = p] /\ commands' = commands
           /\ touched' = [n \in Msgs |-> touched[n] \/ (n # m /\ status[n] # "ABSENT" /\ catalog' # catalog)]
           /\ \E o \in Overrides : Asks(m, p, o) \/ Ends(m, o) \/ Books(m, p, o)
<1> DEFINE o1 == IF NewCustomer(o0) THEN [o0 EXCEPT !.customer = o0.newCustomer] ELSE o0
           o == UnitKnown(p, o1)
           asks == FlowQuestion(p, o)
           cs == IF NewCustomer(o0)
                 THEN IF o.catalogOnly = "no" THEN Enrolled(o0.newCustomer) ELSE AddedCustomer(o0.newCustomer)
                 ELSE customers
           makes == NewItem(o) /\ asks = "none" /\ o.catalogOnly # "customer"
           ps == IF makes THEN AddedProduct(o.newProduct, o.newUnit, o.newPrice, p.product) ELSE ps0
           od == IF makes THEN [o EXCEPT !.product = o.newProduct] ELSE o
<1>1. /\ customers' = cs /\ products' = ps
      /\ parsed' = [parsed EXCEPT ![m] = p] /\ commands' = commands
      /\ Touch(m, cs, ps)
      /\ IF asks # "none" THEN Ask(m, o, asks, {})
         ELSE IF o.catalogOnly # "no" THEN Close(m, od, "DONE") /\ UNCHANGED entry
         ELSE Decided(m, Case(p, od, cs, ps))
    BY DEF DecideAndPost
<1>2. o1 \in Overrides
    BY DEF NewCustomer, Overrides, Mentions
<1>3. o \in Overrides
    <2>1. p.unit # Nobody => BaseUnitOf[p.unit] \in BaseUnits
        BY DEF Sentence, BaseUnits
    <2> HIDE DEF o1
    <2> QED BY <1>2, <2>1 DEF UnitKnown, Overrides
<1>4. asks \in FlowReasons \cup {"none"}
    BY DEF FlowQuestion, FlowReasons
<1>5. makes => o.newProduct \in Names /\ o.newUnit \in BaseUnits /\ o.newPrice \in Number
    <2> HIDE DEF o
    <2> QED BY <1>3 DEF NewItem, FlowQuestion, Overrides, Mentions
<1>6. od \in Overrides
    <2> HIDE DEF o
    <2> QED BY <1>3, <1>5 DEF Overrides
<1>7. Table(cs, CustomerRow)
    <2>1. NewCustomer(o0) => o0.newCustomer \in Names
        BY DEF NewCustomer, Overrides, Mentions
    <2> HIDE DEF o
    <2> QED BY <2>1, RowsTyped DEF CatalogTyped, Enrolled, AddedCustomer, Mentions
<1>8. Table(ps, ProductRow)
    <2>1. p.product \in Mentions
        BY DEF Sentence
    <2> HIDE DEF o, asks
    <2> QED BY <1>5, <2>1, AddedProductTyped DEF CatalogTyped
<1>9. CatalogTyped'
    <2> HIDE DEF cs, ps
    <2> QED BY <1>1, <1>7, <1>8 DEF CatalogTyped
<1> HIDE DEF o1, o, asks, cs, makes, ps, od
<1>10. CASE asks # "none"
    <2>1. asks \in Reasons \ Refusals /\ asks # "UNKNOWN_PRODUCT" /\ {} \in SUBSET Names
        BY <1>4, <1>10 DEF FlowReasons, Reasons, Refusals
    <2> QED BY <1>1, <1>3, <1>9, <1>10, <2>1 DEF Asks, Touch, catalog
<1>11. CASE asks = "none" /\ o.catalogOnly # "no"
    BY <1>1, <1>6, <1>9, <1>11 DEF Ends, Touch, catalog
<1>12. CASE asks = "none" /\ o.catalogOnly = "no"
    <2>1. Decided(m, Case(p, od, customers', products'))
        BY <1>1, <1>12
    <2>2. Asks(m, p, od) \/ Ends(m, od) \/ Books(m, p, od)
        BY <1>6, <1>9, <2>1, DecidedOutcome
    <2> QED BY <1>1, <1>6, <1>9, <2>2 DEF Touch, catalog
<1> QED BY <1>10, <1>11, <1>12

-----------------------------------------------------------------------------
(* The steps.                                                              *)
Turn(m, p, o) ==
    /\ status[m] = "ABSENT" \/ Open(m)
    /\ parsed' = [parsed EXCEPT ![m] = p]
    /\ Asks(m, p, o) \/ Ends(m, o) \/ Books(m, p, o)

LEMMA TurnOf ==
    ASSUME TypeOK, NEW m \in Msgs, status[m] = "ABSENT" \/ Open(m),
           NEW p \in Sentence, NEW o \in Overrides, NEW ps, Table(ps, ProductRow), DecideAndPost(m, p, o, ps)
    PROVE  /\ CatalogTyped' /\ commands' = commands /\ touched' \in [Msgs -> BOOLEAN]
           /\ \E od \in Overrides : Turn(m, p, od)
<1>1. CatalogTyped /\ touched \in [Msgs -> BOOLEAN]
    BY DEF TypeOK, CatalogTyped
<1>2. /\ CatalogTyped' /\ commands' = commands /\ parsed' = [parsed EXCEPT ![m] = p]
      /\ touched' = [n \in Msgs |-> touched[n] \/ (n # m /\ status[n] # "ABSENT" /\ catalog' # catalog)]
      /\ \E od \in Overrides : Asks(m, p, od) \/ Ends(m, od) \/ Books(m, p, od)
    BY <1>1, DecideOutcome
<1>3. touched' \in [Msgs -> BOOLEAN]
    BY <1>1, <1>2
<1> QED BY <1>2, <1>3 DEF Turn

LEMMA PicksTyped ==
    ASSUME TypeOK, NEW m \in Msgs
    PROVE  Picks(parsed[m], question[m], draft[m]) \subseteq Overrides
<1>1. /\ parsed[m].customer \in Mentions /\ parsed[m].product \in Mentions
      /\ draft[m] \in Overrides /\ question[m].candidates \subseteq Names
    BY DEF TypeOK, Sentence
<1> DEFINE o == draft[m]
           new(name) == IF name = <<>> THEN {} ELSE {name}
<1>2. \A name \in Mentions : new(name) \subseteq Mentions
    OBVIOUS
<1> HIDE DEF o, new
<1>3. o \in Overrides
    BY <1>1 DEF o
<1>4. /\ \A n \in Names : [o EXCEPT !.customer = n] \in Overrides /\ [o EXCEPT !.product = n] \in Overrides
      /\ \A n \in Mentions : [o EXCEPT !.newCustomer = n] \in Overrides /\ [o EXCEPT !.newProduct = n] \in Overrides
    BY <1>3 DEF Overrides
<1>5. /\ \A way \in {"CREDIT", "CASH"} : [o EXCEPT !.payment = way] \in Overrides
      /\ [o EXCEPT !.large = TRUE] \in Overrides /\ [o EXCEPT !.newPrice = 0] \in Overrides
      /\ \A u \in BaseUnits : [o EXCEPT !.newUnit = u] \in Overrides
    BY <1>3 DEF Overrides, Number
<1>6. Picks(parsed[m], question[m], o) \subseteq Overrides
    BY <1>1, <1>2, <1>4, <1>5 DEF Picks, new
<1> QED BY <1>6 DEF o

LEMMA LearnedTyped ==
    ASSUME TypeOK, NEW m \in Msgs, NEW o
    PROVE  Table(Learned(m, o), ProductRow)
<1>1. /\ parsed[m].product \in Mentions /\ question[m].candidates \subseteq Names
      /\ Table(products, ProductRow)
    BY DEF TypeOK, Sentence
<1> QED BY <1>1, RowsTyped DEF Learned, NearMiss

LEMMA TypedQuantityTyped ==
    ASSUME TypeOK, NEW m \in Msgs, NEW n \in Amounts, NEW unit \in {Nobody} \cup Units
    PROVE  TypedQuantity(m, n, unit) \in Number
<1>0. draft[m] \in Overrides /\ parsed[m] \in Sentence /\ CatalogTyped /\ n \in Nat
    BY DialogueAssumption DEF TypeOK, CatalogTyped
<1> DEFINE item == Case(parsed[m], draft[m], customers, products).prod
<1>1. CaseOK(Case(parsed[m], draft[m], customers, products), customers, products)
    BY <1>0, CaseTyped
<1> HIDE DEF item
<1>2. item.status = "RESOLVED" => item.value \in ProductRow
    BY <1>0, <1>1, LoadedRows DEF CaseOK, FoundIn, CatalogTyped, item
<1>3. item.status = "RESOLVED" => item.value.unit \in BaseUnits
    BY <1>2 DEF ProductRow
<1>4. BaseUnits \subseteq Units
    BY DEF BaseUnits, Units, BaseUnitOf
<1>5. TypedQuantity(m, n, unit) =
        IF item.status # "RESOLVED" THEN None
        ELSE ToBaseQty(n, IF unit = Nobody THEN item.value.unit ELSE unit, item.value.unit)
    BY DEF TypedQuantity, item
<1> QED BY <1>0, <1>3, <1>4, <1>5, MoneyTypes DEF Number

LEMMA NumberedTyped ==
    ASSUME TypeOK, NEW m \in Msgs, NEW n \in Amounts, NEW unit \in {Nobody} \cup Units,
           Field(m) \in {"quantity", "amount", "price", "new_price"}
    PROVE  Numbered(m, n, unit) \in Overrides
<1>1. draft[m] \in Overrides /\ parsed[m] \in Sentence /\ CatalogTyped /\ n \in Nat
    BY DialogueAssumption DEF TypeOK, CatalogTyped
<1>2. RupeesToPaise(n) \in Number
    BY <1>1, MoneyTypes DEF Number, Units, BaseUnits
<1>3. TypedQuantity(m, n, unit) \in Number
    BY TypedQuantityTyped
<1>4. PICK q, k, o : q = TypedQuantity(m, n, unit) /\ k = RupeesToPaise(n) /\ o = draft[m]
    OBVIOUS
<1>5. /\ [o EXCEPT !.qty = q] \in Overrides /\ [o EXCEPT !.total = k] \in Overrides
      /\ [o EXCEPT !.price = k] \in Overrides /\ [o EXCEPT !.newPrice = k] \in Overrides
      /\ o \in Overrides
    BY <1>1, <1>2, <1>3, <1>4 DEF Overrides
<1> QED BY <1>4, <1>5 DEF Numbered

AnswersTyped == answered' \in [Msgs -> SUBSET Reasons]

LEMMA TapTurns ==
    ASSUME TypeOK, NEW m \in Msgs, Tap(m)
    PROVE  /\ CatalogTyped' /\ commands' = commands /\ touched' \in [Msgs -> BOOLEAN] /\ AnswersTyped
           /\ \E p \in Sentence, o \in Overrides : Turn(m, p, o)
<1>1. PICK o : o \in Picks(parsed[m], question[m], draft[m]) /\ DecideAndPost(m, parsed[m], o, Learned(m, o))
    BY DEF Tap
<1>2. o \in Overrides /\ Table(Learned(m, o), ProductRow) /\ parsed[m] \in Sentence
    BY <1>1, PicksTyped, LearnedTyped DEF TypeOK
<1>3. AnswersTyped
    BY DEF Tap, AnsweredNow, TypeOK, AnswersTyped
<1> QED BY <1>1, <1>2, <1>3, TurnOf DEF Tap

LEMMA AnswerTurns ==
    ASSUME TypeOK, NEW m \in Msgs, AnswerNumber(m)
    PROVE  /\ CatalogTyped' /\ commands' = commands /\ touched' \in [Msgs -> BOOLEAN] /\ AnswersTyped
           /\ \E p \in Sentence, o \in Overrides : Turn(m, p, o)
<1>1. PICK n \in Amounts, unit \in {Nobody} \cup Units :
        \/ /\ Field(m) = "quantity"
           /\ Ask(m, draft[m], question[m].reason, {})
           /\ UNCHANGED <<catalog, parsed, answered, touched, commands>>
        \/ /\ DecideAndPost(m, parsed[m], Numbered(m, n, unit), products)
           /\ answered' = answered \/ AnsweredNow(m)
    BY DEF AnswerNumber
<1>2. parsed[m] \in Sentence /\ draft[m] \in Overrides /\ Table(products, ProductRow)
      /\ Numbered(m, n, unit) \in Overrides
    BY NumberedTyped DEF TypeOK, AnswerNumber
<1>3. CASE Field(m) = "quantity" /\ Ask(m, draft[m], question[m].reason, {})
           /\ UNCHANGED <<catalog, parsed, answered, touched, commands>>
    <2>1. question[m].reason \in Reasons \ Refusals /\ question[m].reason \notin {"none", "UNKNOWN_PRODUCT"}
        BY <1>3 DEF TypeOK, Field, FieldOf
    <2>2. Asks(m, parsed[m], draft[m])
        BY <1>3, <2>1 DEF Asks
    <2>3. parsed' = [parsed EXCEPT ![m] = parsed[m]]
        BY <1>3 DEF TypeOK
    <2> QED BY <1>2, <1>3, <2>2, <2>3
            DEF Turn, AnswerNumber, TypeOK, CatalogTyped, catalog, AnswersTyped
<1>4. CASE DecideAndPost(m, parsed[m], Numbered(m, n, unit), products) /\ (answered' = answered \/ AnsweredNow(m))
    <2>1. AnswersTyped
        BY <1>4 DEF AnsweredNow, TypeOK, AnswersTyped
    <2> QED BY <1>2, <1>4, <2>1, TurnOf DEF AnswerNumber
<1> QED BY <1>1, <1>3, <1>4

LEMMA NamesTyped ==
    ASSUME TypeOK, NEW m \in Msgs, AnswerName(m)
    PROVE  \E p \in Sentence, o \in Overrides : DecideAndPost(m, p, o, products)
<1>1. PICK n \in NameAnswers, unit \in BaseUnits \cup {Nobody},
           price \in {None} \cup {RupeesToPaise(a) : a \in Amounts} :
        \/ DecideAndPost(m, [parsed[m] EXCEPT !.customer = n],
                         [draft[m] EXCEPT !.customer = Nobody, !.newCustomer = <<>>], products)
        \/ DecideAndPost(m, [parsed[m] EXCEPT !.product = n], [draft[m] EXCEPT !.product = Nobody], products)
        \/ DecideAndPost(m, parsed[m], Item(draft[m], n, unit, price), products)
        \/ DecideAndPost(m, parsed[m], [draft[m] EXCEPT !.newCustomer = n], products)
    BY DEF AnswerName
<1>2. parsed[m] \in Sentence /\ draft[m] \in Overrides /\ n \in Names
    BY DialogueAssumption DEF TypeOK
<1>3. price \in Number
    <2>1. Amounts \subseteq Nat
        BY DialogueAssumption
    <2> QED BY <2>1, MoneyTypes DEF Number, Units, BaseUnits
<1>4. PICK p, o : p = parsed[m] /\ o = draft[m]
    OBVIOUS
<1>5. /\ p \in Sentence /\ [p EXCEPT !.customer = n] \in Sentence /\ [p EXCEPT !.product = n] \in Sentence
    BY <1>2, <1>4 DEF Sentence, Mentions
<1>6. /\ [o EXCEPT !.customer = Nobody, !.newCustomer = <<>>] \in Overrides
      /\ [o EXCEPT !.product = Nobody] \in Overrides
      /\ Item(o, n, unit, price) \in Overrides
      /\ [o EXCEPT !.newCustomer = n] \in Overrides
    BY <1>2, <1>3, <1>4 DEF Overrides, Mentions, Item
<1> QED BY <1>1, <1>4, <1>5, <1>6

LEMMA NameTurns ==
    ASSUME TypeOK, NEW m \in Msgs, AnswerName(m)
    PROVE  /\ CatalogTyped' /\ commands' = commands /\ touched' \in [Msgs -> BOOLEAN] /\ AnswersTyped
           /\ \E p \in Sentence, o \in Overrides : Turn(m, p, o)
<1>1. AnswersTyped
    BY DEF AnswerName, AnsweredNow, TypeOK, AnswersTyped
<1>2. Table(products, ProductRow)
    BY DEF TypeOK
<1> QED BY <1>1, <1>2, NamesTyped, TurnOf DEF AnswerName

LEMMA BlankTyped == Blank \in Overrides
BY DEF Blank, Overrides, Number, Mentions

LEMMA HearTurns ==
    ASSUME TypeOK, NEW m \in Msgs, Hear(m) \/ StartWizard(m) \/ GiveUp(m)
    PROVE  /\ CatalogTyped' /\ commands' = commands /\ touched' \in [Msgs -> BOOLEAN] /\ AnswersTyped
           /\ \E p \in Sentence, o \in Overrides : Turn(m, p, o)
<1>1. answered' = answered /\ AnswersTyped
    BY DEF Hear, StartWizard, GiveUp, TypeOK, AnswersTyped
<1>2. /\ Blank \in Overrides /\ parsed[m] \in Sentence /\ draft[m] \in Overrides
      /\ NoSentence \in Sentence /\ Table(products, ProductRow)
    BY BlankTyped DEF TypeOK, NoSentence, Sentence, Number, Mentions
<1>3. CASE Hear(m)
    <2>1. PICK p \in Sentences :
            \/ DecideAndPost(m, p, Blank, products)
            \/ /\ Close(m, Blank, "FAILED")
               /\ parsed' = [parsed EXCEPT ![m] = p]
               /\ UNCHANGED <<catalog, entry, touched, commands>>
        BY <1>3 DEF Hear
    <2>2. p \in Sentence /\ status[m] = "ABSENT"
        BY <1>3, DialogueAssumption DEF Hear
    <2>3. CASE DecideAndPost(m, p, Blank, products)
        BY <1>1, <1>2, <2>2, <2>3, TurnOf
    <2>4. CASE /\ Close(m, Blank, "FAILED")
               /\ parsed' = [parsed EXCEPT ![m] = p]
               /\ UNCHANGED <<catalog, entry, touched, commands>>
        BY <1>1, <1>2, <2>2, <2>4 DEF Turn, Ends, TypeOK, CatalogTyped, catalog
    <2> QED BY <2>1, <2>3, <2>4
<1>4. CASE StartWizard(m)
    <2>1. PICK o \in Wizards : DecideAndPost(m, NoSentence, o, products)
        BY <1>4 DEF StartWizard
    <2>2. o \in Overrides /\ status[m] = "ABSENT"
        BY <1>4, DialogueAssumption DEF StartWizard
    <2> QED BY <1>1, <1>2, <2>1, <2>2, TurnOf
<1>5. CASE GiveUp(m)
    <2>1. Ends(m, draft[m]) /\ parsed' = [parsed EXCEPT ![m] = parsed[m]]
        BY <1>5 DEF GiveUp, Ends, TypeOK
    <2> QED BY <1>1, <1>2, <1>5, <2>1 DEF GiveUp, Turn, TypeOK, CatalogTyped, catalog
<1> QED BY <1>3, <1>4, <1>5

LEMMA CommandKeeps ==
    ASSUME TypeOK, NEW c \in Commands, Command(c)
    PROVE  /\ CatalogTyped' /\ commands' \in 0 .. MaxCommands /\ touched' \in [Msgs -> BOOLEAN]
           /\ UNCHANGED <<status, parsed, draft, question, entry, answered>>
<1>1. CatalogTyped /\ c.words \in Names
    BY DialogueAssumption DEF TypeOK, CatalogTyped
<1>2. Len(c.words) \in Nat
    BY <1>1, MentionIsSequence DEF Mentions
<1>3. FoundProduct(c.words) \subseteq Names /\ FoundCustomer(c.words) \subseteq Names
    <2>1. /\ FoundIn(ResolveProduct(c.words, Load(products)), Load(products))
          /\ FoundIn(ResolveCustomer(c.words, Load(customers)), Load(customers))
        BY <1>2, ProductFound, CustomerFound
    <2>2. \A e \in Load(products) \cup Load(customers) : e.id \in Names
        BY <1>1, LoadedRows DEF CatalogTyped
    <2> QED BY <2>1, <2>2 DEF FoundIn, FoundProduct, FoundCustomer
<1>4. /\ UNCHANGED <<status, parsed, draft, question, entry, answered>>
      /\ touched' \in [Msgs -> BOOLEAN]
    BY DEF Command
<1>5. commands' \in 0 .. MaxCommands
    BY DialogueAssumption DEF Command, TypeOK
<1>6. CatalogTyped'
    <2>1. CASE c.cmd = "/price" /\ UNCHANGED customers
               /\ \E n \in FoundProduct(c.words) : products' = [products EXCEPT ![n].price = c.price]
        <3>1. c.price \in Number
            BY <2>1, DialogueAssumption DEF Number
        <3>2. PICK n \in Names, price \in Number : products' = [products EXCEPT ![n].price = price]
            BY <1>3, <2>1, <3>1
        <3> QED BY <1>1, <2>1, <3>2, RowsTyped DEF CatalogTyped, Mentions
    <2>2. CASE UNCHANGED customers /\ \E n \in FoundProduct(c.words) : products' = [products EXCEPT ![n].active = FALSE]
        <3>1. PICK n \in Names : products' = [products EXCEPT ![n].active = FALSE]
            BY <1>3, <2>2
        <3>2. Table([products EXCEPT ![n].active = FALSE], ProductRow)
            BY <1>1, RowsTyped DEF CatalogTyped, Mentions
        <3> QED BY <1>1, <2>2, <3>1, <3>2 DEF CatalogTyped
    <2>3. CASE UNCHANGED products /\ \E n \in FoundCustomer(c.words) : customers' = [customers EXCEPT ![n].active = FALSE]
        <3>1. PICK n \in Names : customers' = [customers EXCEPT ![n].active = FALSE]
            BY <1>3, <2>3
        <3>2. Table([customers EXCEPT ![n].active = FALSE], CustomerRow)
            BY <1>1, RowsTyped DEF CatalogTyped, Mentions
        <3> QED BY <1>1, <2>3, <3>1, <3>2 DEF CatalogTyped
    <2>4. CASE c.cmd = "/alias"
               /\ \/ UNCHANGED customers /\ \E n \in FoundProduct(c.words) : products' = Taught(products, n, c.alias)
                  \/ UNCHANGED products /\ \E n \in FoundCustomer(c.words) : customers' = Taught(customers, n, c.alias)
        <3>1. c.alias \in Mentions
            BY <2>4, DialogueAssumption DEF Mentions
        <3> QED BY <1>1, <1>3, <2>4, <3>1, RowsTyped DEF CatalogTyped
    <2>5. CASE customers' = AddedCustomer(c.words) /\ UNCHANGED products
        BY <1>1, <2>5, RowsTyped DEF CatalogTyped, Mentions, AddedCustomer
    <2>6. CASE c.cmd = "/add_product" /\ UNCHANGED customers
               /\ products' = AddedProduct(c.words, c.unit, c.price, <<>>)
        <3>1. c.unit \in BaseUnits /\ c.price \in Number
            BY <2>6, DialogueAssumption DEF Number
        <3>2. PICK n \in Names, unit \in BaseUnits, price \in Number : products' = AddedProduct(n, unit, price, <<>>)
            BY <1>1, <2>6, <3>1
        <3> QED BY <1>1, <2>6, <3>2, AddedProductTyped DEF CatalogTyped, Mentions
    <2> QED BY <2>1, <2>2, <2>3, <2>4, <2>5, <2>6 DEF Command
<1> QED BY <1>4, <1>5, <1>6

\* Every step is the turn of one message or a command to the catalog.
LEMMA DialogueSteps ==
    ASSUME TypeOK, Next
    PROVE  /\ CatalogTyped' /\ commands' \in 0 .. MaxCommands /\ touched' \in [Msgs -> BOOLEAN] /\ AnswersTyped
           /\ \/ \E m \in Msgs, p \in Sentence, o \in Overrides : Turn(m, p, o)
              \/ UNCHANGED <<status, parsed, draft, question, entry>>
<1>1. ASSUME NEW c \in Commands, Command(c) PROVE AnswersTyped
    BY <1>1, CommandKeeps DEF TypeOK, AnswersTyped
<1>2. commands \in 0 .. MaxCommands
    BY DEF TypeOK
<1> QED BY <1>1, <1>2, HearTurns, TapTurns, AnswerTurns, NameTurns, CommandKeeps DEF Next

QuestionRow == [reason : Reasons \ Refusals, open : BOOLEAN, candidates : SUBSET Names]

LEMMA TurnTyped ==
    ASSUME TypeOK, CatalogTyped', NEW m \in Msgs, NEW p \in Sentence, NEW o \in Overrides, Turn(m, p, o)
    PROVE  /\ status' \in [Msgs -> {"ABSENT", "AWAITING_CONFIRMATION", "COMMITTED", "REJECTED", "FAILED", "DONE"}]
           /\ parsed' \in [Msgs -> Sentence] /\ draft' \in [Msgs -> Overrides]
           /\ question' \in [Msgs -> QuestionRow] /\ entry' \in [Msgs -> EntryRow]
<1> USE DEF TypeOK, QuestionRow, EntryRow
<1>1. parsed' \in [Msgs -> Sentence]
    BY DEF Turn
<1>2. CASE Asks(m, p, o)
    <2>1. PICK r \in Reasons \ Refusals, cands \in SUBSET Names : Ask(m, o, r, cands)
        BY <1>2 DEF Asks
    <2> QED BY <1>1, <2>1 DEF Ask
<1>3. CASE Ends(m, o)
    <2>1. PICK s \in {"DONE", "REJECTED", "FAILED"} : Close(m, o, s) /\ UNCHANGED entry
        BY <1>3 DEF Ends
    <2> QED BY <1>1, <2>1 DEF Close
<1>4. CASE Books(m, p, o)
    <2> DEFINE c == Case(p, o, customers', products')
    <2>1. Entry(c) \in EntryRow
        <3>1. CaseOK(c, customers', products') /\ Verdict(c) = "COMMIT"
            BY <1>4, CaseTyped DEF Books
        <3> HIDE DEF c
        <3> QED BY <3>1, EntryTyped DEF CatalogTyped
    <2>2. Close(m, o, "COMMITTED") /\ entry' = [entry EXCEPT ![m] = Entry(c)]
        BY <1>4 DEF Books
    <2> HIDE DEF c
    <2> QED BY <1>1, <2>1, <2>2 DEF Close
<1> QED BY <1>2, <1>3, <1>4 DEF Turn

\* Only a tap teaches, and what it teaches is a mention and an offered item.
LEMMA LessonsTyped ==
    ASSUME TypeOK, Next
    PROVE  taught' \subseteq [words : Mentions, product : Names]
<1>1. CASE UNCHANGED taught
    BY <1>1 DEF TypeOK
<1>2. ASSUME NEW m \in Msgs, Tap(m) PROVE taught' \subseteq [words : Mentions, product : Names]
    <2>1. PICK o : taught' = taught \cup {[words |-> parsed[m].product, product |-> n] :
                                          n \in {x \in {o.product} : NearMiss(m, o)}}
        BY <1>2 DEF Tap
    <2>2. NearMiss(m, o) => o.product \in Names
        BY DEF NearMiss, TypeOK
    <2>3. parsed[m].product \in Mentions
        BY DEF TypeOK, Sentence
    <2> QED BY <2>1, <2>2, <2>3 DEF TypeOK
<1> QED BY <1>1, <1>2 DEF Next, Hear, StartWizard, GiveUp, AnswerNumber, AnswerName, Command

LEMMA DialogueTypeInductive == TypeOK /\ [Next]_vars => TypeOK'
<1>1. ASSUME TypeOK, Next PROVE TypeOK'
    BY <1>1, DialogueSteps, TurnTyped, LessonsTyped DEF TypeOK, CatalogTyped, AnswersTyped, QuestionRow, EntryRow
<1>2. ASSUME TypeOK, UNCHANGED vars PROVE TypeOK'
    BY <1>2 DEF TypeOK, Table, vars, catalog
<1> QED BY <1>1, <1>2

LEMMA InitDialogue == Init => TypeOK
<1>1. NoSentence \in Sentence /\ NoEntry \in EntryRow /\ NoQuestion \in QuestionRow
    BY DEF NoSentence, Sentence, NoEntry, EntryRow, NoQuestion, QuestionRow, Number, Mentions, Reasons, Refusals
<1> QED BY <1>1, DialogueAssumption, BlankTyped DEF Init, TypeOK, QuestionRow, EntryRow

(* The catalog, and what is kept of each message and its question, are     *)
(* well-typed in every reachable state, and no two rows of the catalog     *)
(* share a name (pipeline.py:190-290, catalog.py).                         *)
THEOREM DialogueTypeCorrect == Spec => []TypeOK
BY InitDialogue, DialogueTypeInductive, PTL DEF Spec

-----------------------------------------------------------------------------
(* Each way out of the transaction body writes status, question and entry  *)
(* by separate statements, and none of them forgets one.                   *)
LEMMA StatusInductive == TypeOK /\ StatusAgrees /\ [Next]_vars => StatusAgrees'
<1>1. ASSUME TypeOK, StatusAgrees, CatalogTyped', NEW m \in Msgs, NEW p \in Sentence, NEW o \in Overrides, Turn(m, p, o)
      PROVE  StatusAgrees'
    <2> USE DEF TypeOK, StatusAgrees
    <2>1. status[m] \in {"ABSENT", "AWAITING_CONFIRMATION"} /\ entry[m] = NoEntry
        BY <1>1 DEF Turn, Open
    <2>2. CASE Asks(m, p, o)
        <3>1. PICK r, cands : Ask(m, o, r, cands)
            BY <2>2 DEF Asks
        <3> QED BY <1>1, <2>1, <3>1 DEF Ask
    <2>3. CASE Ends(m, o)
        <3>1. PICK s \in {"DONE", "REJECTED", "FAILED"} : Close(m, o, s) /\ UNCHANGED entry
            BY <2>3 DEF Ends
        <3> QED BY <1>1, <2>1, <3>1 DEF Close
    <2>4. CASE Books(m, p, o)
        <3> DEFINE c == Case(p, o, customers', products')
        <3>1. CaseOK(c, customers', products') /\ Verdict(c) = "COMMIT"
            BY <2>4, CaseTyped DEF Books
        <3>2. Close(m, o, "COMMITTED") /\ entry' = [entry EXCEPT ![m] = Entry(c)]
            BY <2>4 DEF Books
        <3> HIDE DEF c
        <3>3. Entry(c) # NoEntry
            BY <1>1, <3>1, EntryTyped DEF CatalogTyped, NoEntry
        <3> QED BY <1>1, <2>1, <3>2, <3>3 DEF Close
    <2> QED BY <1>1, <2>2, <2>3, <2>4 DEF Turn
<1>2. ASSUME TypeOK, StatusAgrees, Next PROVE StatusAgrees'
    BY <1>1, <1>2, DialogueSteps DEF StatusAgrees
<1>3. ASSUME StatusAgrees, UNCHANGED vars PROVE StatusAgrees'
    BY <1>3 DEF StatusAgrees, vars
<1> QED BY <1>2, <1>3

(* A message waits exactly while its question is open, and is COMMITTED    *)
(* exactly when it has its entry, on every path through the transaction    *)
(* body (pipeline.py:295, :317, bookkeeping.py:23).                        *)
THEOREM RowsOfAMessageAgree == Spec => []StatusAgrees
<1>1. Init => StatusAgrees
    BY DEF Init, StatusAgrees, NoQuestion
<1> QED BY <1>1, DialogueTypeCorrect, StatusInductive, PTL DEF Spec

-----------------------------------------------------------------------------
(* What is booked is the entry of the case that the sentence, the draft    *)
(* and the catalog of the same transaction make.                           *)
BookedCase(m) == Case(parsed'[m], draft'[m], customers', products')

LEMMA Booked ==
    ASSUME TypeOK, [Next]_vars, NEW m \in Msgs, entry'[m] # entry[m]
    PROVE  /\ Verdict(BookedCase(m)) = "COMMIT" /\ entry'[m] = Entry(BookedCase(m))
           /\ CaseOK(BookedCase(m), customers', products') /\ CatalogTyped'
           /\ parsed'[m] \in Sentence /\ draft'[m] \in Overrides
<1>1. Next
    BY DEF vars
<1>2. CatalogTyped'
    BY <1>1, DialogueSteps
<1>3. PICK k \in Msgs, p \in Sentence, o \in Overrides : Turn(k, p, o)
    BY <1>1, DialogueSteps
<1>4. Books(k, p, o) /\ k = m
    BY <1>3 DEF Turn, Asks, Ask, Ends, Books, TypeOK
<1>5. parsed'[m] = p /\ draft'[m] = o
    BY <1>3, <1>4 DEF Turn, Books, Close, TypeOK
<1>6. entry' = [entry EXCEPT ![m] = Entry(Case(p, o, customers', products'))]
      /\ Verdict(Case(p, o, customers', products')) = "COMMIT"
    BY <1>4 DEF Books
<1>7. CaseOK(Case(p, o, customers', products'), customers', products')
    BY CaseTyped
<1> QED BY <1>2, <1>5, <1>6, <1>7 DEF BookedCase, TypeOK

(* A booking names only rows that are in the catalog when it is made,      *)
(* whatever was removed while a question was open (pipeline.py:199,        *)
(* decide.py:40): what was chosen is looked up again.                      *)
THEOREM OnlyLiveRowsBooked == Spec => BooksLive
<1>1. ASSUME TypeOK, [Next]_vars, NEW m \in Msgs, entry'[m] # entry[m]
      PROVE  /\ entry'[m].customer # Nobody => entry'[m].customer \in Active(customers')
             /\ entry'[m].product # Nobody => entry'[m].product \in Active(products')
    <2> DEFINE c == BookedCase(m)
    <2>1. Verdict(c) = "COMMIT" /\ entry'[m] = Entry(c) /\ CaseOK(c, customers', products') /\ CatalogTyped'
        BY <1>1, Booked
    <2> HIDE DEF c
    <2> QED BY <2>1, EntryTyped DEF CatalogTyped
<1>2. TypeOK /\ [Next]_vars =>
        [\A m \in Msgs : entry'[m] # entry[m] =>
             /\ entry'[m].customer # Nobody => entry'[m].customer \in Active(customers')
             /\ entry'[m].product # Nobody => entry'[m].product \in Active(products')]_vars
    BY <1>1
<1> QED BY <1>2, DialogueTypeCorrect, PTL DEF Spec, BooksLive

LEMMA ChoiceIsTaken ==
    ASSUME NEW t, NEW row, Table(t, row), NEW id \in Active(t), NEW r
    PROVE  Chosen(id, Load(t), r).status = "RESOLVED" /\ Chosen(id, Load(t), r).value.id = id
<1>1. \E e \in Load(t) : e.id = id
    BY LoadedRows
<1> QED BY <1>1 DEF Chosen, Resolved

(* The customer and the item a user picked are the ones booked as long as  *)
(* they are in the catalog, whatever else was asked, typed or edited in    *)
(* between (models.py:79).                                                 *)
THEOREM LiveChoicesAreKept == Spec => LiveChoiceWins
<1>1. ASSUME TypeOK, [Next]_vars, NEW m \in Msgs, entry'[m] # entry[m]
      PROVE  LET o == draft'[m]  e == entry'[m] IN
             /\ o.customer \in Active(customers') /\ e.customer # Nobody => e.customer = o.customer
             /\ o.product \in Active(products') /\ e.product # Nobody => e.product = o.product
    <2>1. entry'[m] = Entry(BookedCase(m)) /\ CatalogTyped'
        BY <1>1, Booked
    <2>2. /\ draft'[m].customer \in Active(customers') => BookedCase(m).cust.value.id = draft'[m].customer
          /\ draft'[m].product \in Active(products') => BookedCase(m).prod.value.id = draft'[m].product
        BY <2>1, ChoiceIsTaken DEF BookedCase, Case, CatalogTyped
    <2> QED BY <2>1, <2>2 DEF Entry
<1>2. TypeOK /\ [Next]_vars =>
        [\A m \in Msgs : entry'[m] # entry[m] =>
             LET o == draft'[m]  e == entry'[m] IN
             /\ o.customer \in Active(customers') /\ e.customer # Nobody => e.customer = o.customer
             /\ o.product \in Active(products') /\ e.product # Nobody => e.product = o.product]_vars
    BY <1>1
<1> QED BY <1>2, DialogueTypeCorrect, PTL DEF Spec, LiveChoiceWins

-----------------------------------------------------------------------------
(* A mention that resolves to a customer.                                  *)
LEMMA ExactIsWithin ==
    ASSUME NEW m, NEW n, m = n \/ Within(m, n) \/ Skel(m) = Skel(n)
    PROVE  Within(Skel(m), Skel(n))
<1>1. \A x : Tokens(Skel(x)) = {Skeleton[t] : t \in Tokens(x)}
    BY DEF Tokens, Range, Skel
<1> QED BY <1>1 DEF Within

\* The one hit has the mention among its spellings, at least by sound, and
\* nobody else is spelt like it.
LEMMA HitIsMeant ==
    ASSUME NEW m, NEW cs, IsFiniteSet(cs), ResolveCustomer(m, cs).status = "RESOLVED"
    PROVE  LET who == ResolveCustomer(m, cs).value IN
           /\ who \in cs
           /\ \E n \in Spellings(who) : Within(Skel(m), Skel(n))
           /\ \A c \in cs : m \in Spellings(c) => c = who
<1> DEFINE hits == Hits(m, cs)
           who == CHOOSE c \in hits : TRUE
           exact == {c \in cs : m \in Spellings(c)}
<1>1. Cardinality(hits) = 1 /\ ResolveCustomer(m, cs).value = who
    BY DEF ResolveCustomer, Resolved, Unresolved
<1>2. hits \subseteq cs /\ \A c \in hits : \E n \in Spellings(c) : Within(Skel(m), Skel(n))
    BY FirstOfFour, ExactIsWithin DEF Hits
<1>3. exact = {} \/ hits = exact
    BY FirstOfFour DEF Hits
<1> HIDE DEF hits, exact
<1>4. IsFiniteSet(hits)
    BY <1>2, FS_Subset
<1>5. PICK x : hits = {x}
    BY <1>1, <1>4, FS_Singleton
<1>6. who = x
    BY <1>5
<1> QED BY <1>1, <1>2, <1>3, <1>5, <1>6 DEF exact

(* Nobody is charged on a guess: a customer the user did not choose has    *)
(* every token of the mention in one of his spellings, at least by sound,  *)
(* and no one else in the catalog is spelt like the mention (resolve.py:3, *)
(* :20-60).                                                                *)
THEOREM NobodyIsGuessed == Spec => NeverGuessed
<1>1. ASSUME TypeOK, [Next]_vars, NEW m \in Msgs, entry'[m] # entry[m],
             entry'[m].customer \notin {Nobody, draft'[m].customer}
      PROVE  LET mention == parsed'[m].customer  who == entry'[m].customer IN
             /\ \E n \in customers'[who].aliases \cup {who} : Within(Skel(mention), Skel(n))
             /\ \A x \in Active(customers') \ {who} : mention \notin customers'[x].aliases \cup {x}
    <2>1. PICK mention, o, cs, who :
            /\ mention = parsed'[m].customer /\ o = draft'[m] /\ cs = customers' /\ who = entry'[m].customer
        OBVIOUS
    <2> DEFINE r == ResolveCustomer(mention, Load(cs))
               cust == Chosen(o.customer, Load(cs), r)
    <2>2. /\ cust.status = "RESOLVED" /\ who = cust.value.id /\ Table(cs, CustomerRow)
          /\ who # o.customer
        <3> DEFINE c == BookedCase(m)
        <3>1. entry'[m] = Entry(c) /\ CatalogTyped'
            BY <1>1, Booked
        <3>2. c.cust = cust
            BY <2>1 DEF BookedCase, Case
        <3> HIDE DEF c, cust
        <3>3. who = IF cust.status = "RESOLVED" THEN cust.value.id ELSE Nobody
            BY <2>1, <3>1, <3>2 DEF Entry
        <3> QED BY <1>1, <2>1, <3>1, <3>3 DEF CatalogTyped
    <2>3. cust = r
        BY <2>2 DEF Chosen, Resolved
    <2>4. IsFiniteSet(Load(cs))
        BY <2>2, LoadedIsFinite
    <2> HIDE DEF cust
    <2>5. /\ r.value \in Load(cs)
          /\ \E n \in Spellings(r.value) : Within(Skel(mention), Skel(n))
          /\ \A c \in Load(cs) : mention \in Spellings(c) => c = r.value
        BY <2>2, <2>3, <2>4, HitIsMeant
    <2> HIDE DEF r
    <2>6. r.value = cs[who] /\ who = r.value.id
        BY <2>2, <2>3, <2>5, LoadedRows
    <2>7. \A x \in Active(cs) : cs[x] \in Load(cs) /\ cs[x].id = x
        BY <2>2, LoadedRows
    <2> QED BY <2>1, <2>5, <2>6, <2>7 DEF Spellings
<1>2. TypeOK /\ [Next]_vars =>
        [\A m \in Msgs : entry'[m] # entry[m] /\ entry'[m].customer \notin {Nobody, draft'[m].customer} =>
             LET mention == parsed'[m].customer  who == entry'[m].customer IN
             /\ \E n \in customers'[who].aliases \cup {who} : Within(Skel(mention), Skel(n))
             /\ \A x \in Active(customers') \ {who} : mention \notin customers'[x].aliases \cup {x}]_vars
    BY <1>1
<1> QED BY <1>2, DialogueTypeCorrect, PTL DEF Spec, NeverGuessed
-----------------------------------------------------------------------------
(* A mention of one to three tokens that is some item's spelling is one    *)
(* phrase, and stands for the items that are spelt so.                     *)
LEMMA SpeltIsOneGroup ==
    ASSUME NEW words \in Names, Len(words) \in 1 .. 3, NEW ps, NEW e \in ps, words \in Spellings(e)
    PROVE  Groups(words, ps) = {Named(words, ps)} /\ e \in Named(words, ps)
<1> DEFINE n == Len(words)
           K == KnownAt(words, ps, 1)
<1>1. Meant(words, ps) = Named(words, ps) /\ e \in Named(words, ps)
    <2>1. e \in Named(words, ps)
        BY DEF Named
    <2> QED BY <2>1, FirstOfTwo DEF Meant
<1>2. SubSeq(words, 1, n) = words
    <2>1. PICK S : words \in Seq(S)
        BY DialogueAssumption
    <2>2. \A k : k = Len(words) => SubSeq(words, 1, k) = words
        BY <2>1
    <2> QED BY <2>2
<1>3. n \in K /\ \A k \in K : k \in 1 .. n
    <2>1. n \in 1 .. 3 /\ 1 + n - 1 = n /\ n <= Len(words)
        OBVIOUS
    <2>2. Meant(SubSeq(words, 1, 1 + n - 1), ps) # {}
        BY <1>1, <1>2, <2>1
    <2>3. n \in K
        BY <2>1, <2>2 DEF KnownAt
    <2>4. \A k \in K : k \in 1 .. 3 /\ 1 + k - 1 <= n
        BY DEF KnownAt
    <2> HIDE DEF K
    <2> QED BY <2>1, <2>3, <2>4
<1>4. Max(K) = n
    <2>1. Max(K) \in K
        BY <1>3, LargestKnown
    <2>2. \A y \in K : n >= y
        BY <1>3
    <2> HIDE DEF K, n
    <2>3. \A x \in K : (\A y \in K : x >= y) => x = n
        BY <1>3, <2>2
    <2>4. \E x \in K : \A y \in K : x >= y
        BY <1>3, <2>2
    <2> QED BY <2>3, <2>4 DEF Max
<1>5. Cut(words, ps) = [i \in 1 .. n + 3 |-> CutAt(words, ps, Cut(words, ps), i)]
    BY CutExists
<1>6. Cut(words, ps)[n + 1] = {}
    <2>1. CutAt(words, ps, Cut(words, ps), n + 1) = {}
        BY DEF CutAt
    <2> QED BY <1>5, <2>1
<1>7. Cut(words, ps)[1] = {Meant(words, ps)} \cup Cut(words, ps)[1 + n]
    <2>1. CutAt(words, ps, Cut(words, ps), 1) = {Meant(SubSeq(words, 1, 1 + n - 1), ps)} \cup Cut(words, ps)[1 + n]
        BY <1>3, <1>4 DEF CutAt
    <2>2. 1 + n - 1 = n /\ 1 \in 1 .. n + 3
        OBVIOUS
    <2> QED BY <1>2, <1>5, <2>1, <2>2
<1>8. 1 + n = n + 1
    OBVIOUS
<1> QED BY <1>1, <1>6, <1>7, <1>8, GroupsAreCut

LEMMA SpeltIsFound ==
    ASSUME NEW words \in Names, Len(words) \in 1 .. 3, NEW ps, IsFiniteSet(ps), NEW e \in ps, words \in Spellings(e)
    PROVE  LET r == ResolveProduct(words, ps) IN
           \/ r = Resolved(e)
           \/ r.status = "AMBIGUOUS" /\ r.candidates = Named(words, ps) /\ e \in Named(words, ps)
<1> DEFINE G == Named(words, ps)
<1>1. Groups(words, ps) = {G} /\ e \in G
    BY SpeltIsOneGroup
<1> HIDE DEF G
<1>2. FirstNonEmpty(<<Groups(words, ps), Misspelt(words, ps)>>) = {G}
    BY <1>1, FirstOfTwo
<1>3. UNION {G} = G /\ Cardinality({G}) = 1
    BY FS_Singleton
<1>4. words # <<>>
    BY DialogueAssumption
<1>5. IsFiniteSet(G)
    BY FS_Subset DEF G, Named
<1>6. Cardinality(G) = 1 => (CHOOSE p \in G : TRUE) = e
    BY <1>1, <1>5, FS_Singleton
<1>7. ResolveProduct(words, ps) = IF Cardinality(G) = 1 THEN Resolved(CHOOSE p \in G : TRUE) ELSE Unresolved("AMBIGUOUS", G)
    <2> DEFINE groups == FirstNonEmpty(<<Groups(words, ps), Misspelt(words, ps)>>)
    <2>1. ResolveProduct(words, ps) =
            IF groups = {} THEN Unresolved("UNKNOWN", NearMisses(words, ps))
            ELSE IF Cardinality(groups) > 1 THEN Unresolved("MULTIPLE", {})
            ELSE IF Cardinality(UNION groups) = 1 THEN Resolved(CHOOSE p \in UNION groups : TRUE)
            ELSE Unresolved("AMBIGUOUS", UNION groups)
        BY <1>4 DEF ResolveProduct
    <2> HIDE DEF groups
    <2>2. groups = {G}
        BY <1>2 DEF groups
    <2>3. groups # {} /\ ~(Cardinality(groups) > 1) /\ UNION groups = G
        BY <1>3, <2>2
    <2> QED BY <2>1, <2>3
<1>8. CASE Cardinality(G) = 1
    BY <1>6, <1>7, <1>8
<1>9. CASE Cardinality(G) # 1
    BY <1>1, <1>7, <1>9 DEF Unresolved, G
<1> QED BY <1>8, <1>9

\* An open question about an unknown item has words, and offers what was not chosen before.
OffersAreNew ==
    \A m \in Msgs :
        /\ status[m] = "ABSENT" => question[m] = NoQuestion
        /\ question[m].open /\ question[m].reason = "UNKNOWN_PRODUCT" =>
             parsed[m].product # <<>> /\ draft[m].product \notin question[m].candidates

LEMMA OffersInductive == TypeOK /\ OffersAreNew /\ [Next]_vars => OffersAreNew'
<1>1. ASSUME TypeOK, OffersAreNew, NEW m \in Msgs, NEW p \in Sentence, NEW o \in Overrides, Turn(m, p, o)
      PROVE  OffersAreNew'
    <2> USE DEF TypeOK, OffersAreNew
    <2>1. CASE Asks(m, p, o)
        <3>1. PICK r, cands : /\ Ask(m, o, r, cands)
                              /\ r = "UNKNOWN_PRODUCT" => p.product # <<>> /\ o.product \notin cands
            BY <2>1 DEF Asks
        <3> QED BY <1>1, <3>1 DEF Ask, Turn
    <2>2. CASE Ends(m, o) \/ Books(m, p, o)
        <3>1. PICK s \in {"DONE", "REJECTED", "FAILED", "COMMITTED"} : Close(m, o, s)
            BY <2>2 DEF Ends, Books
        <3> QED BY <1>1, <3>1 DEF Close, Turn
    <2> QED BY <1>1, <2>1, <2>2 DEF Turn
<1>2. ASSUME TypeOK, OffersAreNew, Next PROVE OffersAreNew'
    BY <1>1, <1>2, DialogueSteps DEF OffersAreNew
<1>3. ASSUME OffersAreNew, UNCHANGED vars PROVE OffersAreNew'
    BY <1>3 DEF OffersAreNew, vars
<1> QED BY <1>2, <1>3

LEMMA OffersInvariant == Spec => []OffersAreNew
<1>1. Init => OffersAreNew
    BY DEF Init, OffersAreNew, NoQuestion
<1> QED BY <1>1, DialogueTypeCorrect, OffersInductive, PTL DEF Spec
\* What the transaction body makes of the products, and of the chosen one.
LEMMA BodyProducts ==
    ASSUME TypeOK, NEW m \in Msgs, NEW p \in Sentence, NEW o0 \in Overrides, NEW ps0, DecideAndPost(m, p, o0, ps0)
    PROVE  \/ products' = ps0 /\ draft'[m].product = o0.product
           \/ /\ NewItem(o0) /\ draft'[m].product = o0.newProduct
              /\ \E unit, price : products' = AddedProduct(o0.newProduct, unit, price, p.product)
<1> DEFINE o1 == IF NewCustomer(o0) THEN [o0 EXCEPT !.customer = o0.newCustomer] ELSE o0
           o == UnitKnown(p, o1)
           asks == FlowQuestion(p, o)
           cs == IF NewCustomer(o0)
                 THEN IF o.catalogOnly = "no" THEN Enrolled(o0.newCustomer) ELSE AddedCustomer(o0.newCustomer)
                 ELSE customers
           makes == NewItem(o) /\ asks = "none" /\ o.catalogOnly # "customer"
           ps == IF makes THEN AddedProduct(o.newProduct, o.newUnit, o.newPrice, p.product) ELSE ps0
           od == IF makes THEN [o EXCEPT !.product = o.newProduct] ELSE o
<1>1. /\ products' = ps
      /\ IF asks # "none" THEN Ask(m, o, asks, {})
         ELSE IF o.catalogOnly # "no" THEN Close(m, od, "DONE") /\ UNCHANGED entry
         ELSE Decided(m, Case(p, od, cs, ps))
    BY DEF DecideAndPost
<1>2. o1 \in Overrides /\ o1.product = o0.product /\ o1.newProduct = o0.newProduct
    BY DEF NewCustomer, Overrides, Mentions
<1>3. o \in Overrides /\ o.product = o0.product /\ o.newProduct = o0.newProduct
    <2>1. p.unit # Nobody => BaseUnitOf[p.unit] \in BaseUnits
        BY DEF Sentence, BaseUnits
    <2> HIDE DEF o1
    <2> QED BY <1>2, <2>1 DEF UnitKnown, Overrides
<1> HIDE DEF o, o1, cs, ps
<1>4. draft'[m] = od
    <2>1. CASE asks # "none"
        BY <1>1, <2>1 DEF Ask, TypeOK
    <2>2. CASE asks = "none" /\ o.catalogOnly # "no"
        BY <1>1, <2>2 DEF Close, TypeOK
    <2>3. CASE asks = "none" /\ o.catalogOnly = "no"
        <3>1. Decided(m, Case(p, od, cs, ps)) /\ Case(p, od, cs, ps).o = od
            BY <1>1, <2>3 DEF Case
        <3> HIDE DEF od
        <3> QED BY <3>1 DEF Decided, Ask, Close, TypeOK
    <2> QED BY <2>1, <2>2, <2>3
<1>5. CASE makes
    <2>1. od.product = o.newProduct
        BY <1>3, <1>5 DEF Overrides
    <2>2. products' = AddedProduct(o.newProduct, o.newUnit, o.newPrice, p.product)
        BY <1>1, <1>5 DEF ps
    <2>3. NewItem(o0)
        BY <1>3, <1>5 DEF NewItem
    <2> HIDE DEF od, makes
    <2> QED BY <1>3, <1>4, <2>1, <2>2, <2>3
<1>6. CASE ~makes
    BY <1>1, <1>3, <1>4, <1>6 DEF ps
<1> QED BY <1>5, <1>6

\* What an item was called once it is always called; <<>> is no name.
Kept(ps, qs) == \A n \in Names : Spellings(ps[n]) \ {<<>>} \subseteq Spellings(qs[n])

LEMMA RowKept ==
    ASSUME NEW ps, Table(ps, ProductRow), NEW n, NEW row,
           row.id = ps[n].id, ps[n].aliases \ {<<>>} \subseteq row.aliases
    PROVE  Kept(ps, [ps EXCEPT ![n] = row])
<1>1. DOMAIN ps = Names
    BY DEF Table
<1>2. \A k \in Names : [ps EXCEPT ![n] = row][k] = IF k = n THEN row ELSE ps[k]
    BY <1>1
<1> QED BY <1>2 DEF Kept, Spellings

LEMMA TaughtKeeps ==
    ASSUME NEW ps, Table(ps, ProductRow), NEW n \in Names, NEW alias
    PROVE  Kept(ps, Taught(ps, n, alias)) /\ alias \in Spellings(Taught(ps, n, alias)[n])
<1>1. PICK row : row = ps[n]
    OBVIOUS
<1>2. row \in ProductRow /\ row.id = n /\ DOMAIN ps = Names
    BY <1>1 DEF Table
<1> DEFINE new == [row EXCEPT !.aliases = IF alias = n THEN @ ELSE @ \cup {alias}]
<1>3. new.id = n /\ row.aliases \subseteq new.aliases /\ alias \in new.aliases \cup {n}
    BY <1>2 DEF ProductRow
<1>4. Taught(ps, n, alias) = [ps EXCEPT ![n] = new]
    BY <1>1 DEF Taught
<1> HIDE DEF new
<1>5. Kept(ps, [ps EXCEPT ![n] = new])
    BY <1>1, <1>2, <1>3, RowKept
<1>6. [ps EXCEPT ![n] = new][n] = new
    BY <1>2
<1> QED BY <1>3, <1>4, <1>5, <1>6 DEF Spellings

LEMMA AddedProductKeeps ==
    ASSUME Table(products, ProductRow), NEW n, NEW unit, NEW price, NEW alias
    PROVE  Kept(products, AddedProduct(n, unit, price, alias))
<1>1. PICK row : row = products[n]
    OBVIOUS
<1> DEFINE new == [id |-> n, known |-> TRUE, active |-> TRUE, unit |-> unit,
                   price |-> IF price > 0 THEN price ELSE IF row.known THEN row.price ELSE None,
                   aliases |-> (row.aliases \cup {n, alias}) \ {<<>>}]
<1>2. AddedProduct(n, unit, price, alias) = [products EXCEPT ![n] = new]
    BY <1>1 DEF AddedProduct
<1>3. new.id = n /\ row.aliases \ {<<>>} \subseteq new.aliases
    OBVIOUS
<1>4. \A k \in Names : products[k].id = k
    BY DEF Table
<1> HIDE DEF new
<1>5. CASE n \in Names
    <2>1. new.id = products[n].id /\ products[n].aliases \ {<<>>} \subseteq new.aliases
        BY <1>1, <1>3, <1>4, <1>5
    <2>2. Kept(products, [products EXCEPT ![n] = new])
        BY <2>1, RowKept
    <2> QED BY <1>2, <2>2
<1>6. CASE n \notin Names
    <2>1. [products EXCEPT ![n] = new] = products
        BY <1>6 DEF Table
    <2> QED BY <1>2, <2>1 DEF Kept
<1> QED BY <1>5, <1>6

\* The transaction body keeps what it is given.
LEMMA BodyKeeps ==
    ASSUME TypeOK, NEW m \in Msgs, NEW p \in Sentence, NEW o \in Overrides, NEW ps0, DecideAndPost(m, p, o, ps0),
           Kept(products, ps0)
    PROVE  Kept(products, products')
<1>1. products' = ps0 \/ \E n, unit, price : products' = AddedProduct(n, unit, price, p.product)
    BY BodyProducts
<1> QED BY <1>1, AddedProductKeeps DEF TypeOK

LEMMA CommandKeepsSpellings ==
    ASSUME TypeOK, NEW c \in Commands, Command(c)
    PROVE  Kept(products, products')
<1>1. Table(products, ProductRow)
    BY DEF TypeOK
<1>2. FoundProduct(c.words) \subseteq Names
    <2>1. Len(c.words) \in Nat
        BY DialogueAssumption, MentionIsSequence DEF Mentions
    <2>2. FoundIn(ResolveProduct(c.words, Load(products)), Load(products))
        BY <2>1, ProductFound
    <2>3. \A e \in Load(products) : e.id \in Names
        BY <1>1, LoadedRows
    <2> QED BY <2>2, <2>3 DEF FoundIn, FoundProduct
<1>3. CASE UNCHANGED products
    BY <1>3 DEF Kept
<1>4. CASE \E n \in FoundProduct(c.words) : products' = [products EXCEPT ![n].price = c.price]
    <2>1. PICK n \in Names : products' = [products EXCEPT ![n].price = c.price]
        BY <1>2, <1>4
    <2>2. PICK row : row = [products[n] EXCEPT !.price = c.price]
        OBVIOUS
    <2>3. products[n] \in ProductRow
        BY <1>1 DEF Table
    <2>4. row.id = products[n].id /\ row.aliases = products[n].aliases
        BY <2>2, <2>3 DEF ProductRow
    <2>5. products' = [products EXCEPT ![n] = row]
        BY <2>1, <2>2
    <2> QED BY <1>1, <2>4, <2>5, RowKept
<1>5. CASE \E n \in FoundProduct(c.words) : products' = [products EXCEPT ![n].active = FALSE]
    <2>1. PICK n \in Names : products' = [products EXCEPT ![n].active = FALSE]
        BY <1>2, <1>5
    <2>2. PICK row : row = [products[n] EXCEPT !.active = FALSE]
        OBVIOUS
    <2>3. products[n] \in ProductRow
        BY <1>1 DEF Table
    <2>4. row.id = products[n].id /\ row.aliases = products[n].aliases
        BY <2>2, <2>3 DEF ProductRow
    <2>5. products' = [products EXCEPT ![n] = row]
        BY <2>1, <2>2
    <2> QED BY <1>1, <2>4, <2>5, RowKept
<1>6. CASE \E n \in FoundProduct(c.words) : products' = Taught(products, n, c.alias)
    BY <1>1, <1>2, <1>6, TaughtKeeps
<1>7. CASE products' = AddedProduct(c.words, c.unit, c.price, <<>>)
    BY <1>1, <1>7, AddedProductKeeps
<1> QED BY <1>3, <1>4, <1>5, <1>6, <1>7 DEF Command

\* A pick from the offers teaches the words that were asked about.
LEMMA TapTeaches ==
    ASSUME TypeOK, OffersAreNew, NEW m \in Msgs, Tap(m)
    PROVE  /\ Kept(products, products')
           /\ \A t \in taught' \ taught : t.words # <<>> /\ t.words \in Spellings(products'[t.product])
<1>1. PICK oo \in Picks(parsed[m], question[m], draft[m]) :
        /\ DecideAndPost(m, parsed[m], oo, Learned(m, oo))
        /\ taught' = taught \cup {[words |-> parsed[m].product, product |-> n] :
                                  n \in {x \in {oo.product} : NearMiss(m, oo)}}
    BY DEF Tap
<1>2. /\ oo \in Overrides /\ parsed[m] \in Sentence /\ Table(products, ProductRow)
      /\ question[m].candidates \subseteq Names
    BY <1>1, PicksTyped DEF TypeOK
<1>3. Kept(products, products)
    BY DEF Kept
<1>4. CASE NearMiss(m, oo)
    <2>1. PICK n, words : n = oo.product /\ words = parsed[m].product
        OBVIOUS
    <2>2. n \in Names /\ Learned(m, oo) = Taught(products, n, words)
        BY <1>2, <1>4, <2>1 DEF NearMiss, Learned
    <2>3. Kept(products, Taught(products, n, words)) /\ words \in Spellings(Taught(products, n, words)[n])
        BY <1>2, <2>2, TaughtKeeps
    <2>4. ~NewItem(oo)
        BY <2>1, <2>2, DialogueAssumption DEF NewItem
    <2>5. products' = Taught(products, n, words)
        BY <1>1, <1>2, <2>2, <2>4, BodyProducts
    <2>6. words # <<>>
        BY <1>4, <2>1 DEF NearMiss, OffersAreNew, Tap, Open
    <2>7. \A t \in taught' \ taught : t.words = words /\ t.product = n
        BY <1>1, <2>1
    <2> QED BY <2>3, <2>5, <2>6, <2>7
<1>5. CASE ~NearMiss(m, oo)
    <2>1. Learned(m, oo) = products /\ taught' = taught
        BY <1>1, <1>5 DEF Learned
    <2> QED BY <1>1, <1>2, <1>3, <2>1, BodyKeeps
<1> QED BY <1>4, <1>5

(* The strengthening of PickingTeaches: what was taught is among the        *)
(* item's spellings, sold or not.                                          *)
LessonsStay == \A t \in taught : t.words # <<>> /\ t.words \in Spellings(products[t.product])

LEMMA SpellingsStay ==
    ASSUME TypeOK, OffersAreNew, Next
    PROVE  /\ Kept(products, products')
           /\ \A t \in taught' \ taught : t.words # <<>> /\ t.words \in Spellings(products'[t.product])
<1>1. Kept(products, products)
    BY DEF Kept
<1>2. ASSUME NEW m \in Msgs, Hear(m) \/ StartWizard(m) PROVE Kept(products, products')
    <2>1. Blank \in Overrides /\ NoSentence \in Sentence /\ Sentences \subseteq Sentence /\ Wizards \subseteq Overrides
        BY BlankTyped, DialogueAssumption DEF NoSentence, Sentence, Number, Mentions
    <2>2. CASE UNCHANGED products
        BY <1>1, <2>2 DEF Kept
    <2>3. CASE \E p \in Sentence, o \in Overrides : DecideAndPost(m, p, o, products)
        BY <1>1, <2>3, BodyKeeps
    <2> QED BY <1>2, <2>1, <2>2, <2>3 DEF Hear, StartWizard, catalog
<1>3. ASSUME NEW m \in Msgs, GiveUp(m) PROVE Kept(products, products')
    BY <1>1, <1>3 DEF GiveUp, catalog, Kept
<1>4. ASSUME NEW m \in Msgs, AnswerNumber(m) PROVE Kept(products, products')
    <2>1. parsed[m] \in Sentence
        BY DEF TypeOK
    <2>2. CASE UNCHANGED products
        BY <1>1, <2>2 DEF Kept
    <2>3. CASE \E n \in Amounts, unit \in {Nobody} \cup Units : DecideAndPost(m, parsed[m], Numbered(m, n, unit), products)
        BY <1>1, <1>4, <2>1, <2>3, NumberedTyped, BodyKeeps DEF AnswerNumber
    <2> QED BY <1>4, <2>2, <2>3 DEF AnswerNumber, catalog
<1>5. ASSUME NEW m \in Msgs, AnswerName(m) PROVE Kept(products, products')
    BY <1>1, <1>5, NamesTyped, BodyKeeps
<1>6. CASE UNCHANGED taught
    BY <1>2, <1>3, <1>4, <1>5, <1>6, TapTeaches, CommandKeepsSpellings DEF Next
<1>7. CASE \E m \in Msgs : Tap(m)
    BY <1>7, TapTeaches
<1> QED BY <1>6, <1>7 DEF Next, Hear, StartWizard, GiveUp, AnswerNumber, AnswerName, Command

LEMMA LessonsInductive == TypeOK /\ OffersAreNew /\ LessonsStay /\ [Next]_vars => LessonsStay'
<1>1. ASSUME TypeOK, OffersAreNew, LessonsStay, Next PROVE LessonsStay'
    <2>1. \A t \in taught : t.product \in Names
        BY <1>1 DEF TypeOK
    <2> QED BY <1>1, <2>1, SpellingsStay DEF LessonsStay, Kept
<1>2. ASSUME LessonsStay, UNCHANGED vars PROVE LessonsStay'
    BY <1>2 DEF LessonsStay, vars, catalog
<1> QED BY <1>1, <1>2

LEMMA LessonsFind == TypeOK /\ LessonsStay => PickingTeaches
<1> SUFFICES ASSUME TypeOK, LessonsStay, NEW t \in taught, t.product \in Active(products), Len(t.words) <= 3
             PROVE  Finds(t.words, t.product)
    BY DEF PickingTeaches
<1>1. PICK words, n : words = t.words /\ n = t.product
    OBVIOUS
<1>2. words # <<>> /\ words \in Spellings(products[n]) /\ words \in Mentions
    BY <1>1 DEF LessonsStay, TypeOK
<1>3. words \in Names /\ Len(words) \in 1 .. 3
    <2>1. words \in Names
        BY <1>2 DEF Mentions
    <2>2. PICK S : words \in Seq(S)
        BY <2>1, DialogueAssumption
    <2>3. Len(words) \in Nat /\ Len(words) # 0 /\ Len(words) <= 3
        BY <1>1, <1>2, <2>2
    <2>4. \A k \in Nat : k # 0 /\ k <= 3 => k \in 1 .. 3
        OBVIOUS
    <2> QED BY <2>1, <2>3, <2>4
<1>4. Table(products, ProductRow)
    BY DEF TypeOK
<1>5. products[n] \in Load(products)
    BY <1>1, <1>4, LoadedRows
<1>6. IsFiniteSet(Load(products))
    BY <1>4, LoadedIsFinite
<1> DEFINE r == ResolveProduct(words, Load(products))
<1>7. \/ r = Resolved(products[n])
      \/ r.status = "AMBIGUOUS" /\ r.candidates = Named(words, Load(products)) /\ products[n] \in Named(words, Load(products))
    BY <1>2, <1>3, <1>5, <1>6, SpeltIsFound
<1>8. \A e \in Named(words, Load(products)) : words \in Spellings(e)
    BY DEF Named
<1> HIDE DEF r
<1>9. \/ r = Resolved(products[n])
      \/ r.status = "AMBIGUOUS" /\ products[n] \in r.candidates /\ \A e \in r.candidates : words \in Spellings(e)
    BY <1>7, <1>8
<1> QED BY <1>1, <1>9 DEF Finds, r

(* Once a near miss was picked for the shop's word, every later mention of  *)
(* the word finds the item while it is sold, whatever commands, wizards    *)
(* and other messages did to the catalog in between, or asks between the   *)
(* items that have this very spelling (confirmations.py:80-84,             *)
(* catalog.py:58-70, resolve.py:60-110).                                   *)
THEOREM PicksAreLearnt == Spec => []PickingTeaches
<1>1. Init => LessonsStay
    BY DEF Init, LessonsStay
<1> QED BY <1>1, DialogueTypeCorrect, OffersInvariant, LessonsInductive, LessonsFind, PTL DEF Spec
-----------------------------------------------------------------------------
(* What a sale at a stated price costs.                                    *)
LEMMA Rounded ==
    ASSUME NEW n \in Nat
    PROVE  /\ 20 * HalfUp(n, 10) \in 2 * n - 10 .. 2 * n + 10
           /\ 2000 * HalfUp(n, 1000) \in 2 * n - 1000 .. 2 * n + 1000
           /\ 24000 * HalfUp(n, 12000) \in 2 * n - 12000 .. 2 * n + 12000
BY DEF HalfUp

LEMMA EvenlyRounded ==
    ASSUME NEW n \in Nat
    PROVE  /\ HalfEven(n, 1000) \in Nat
           /\ 1000 * HalfEven(n, 1000) - n \in -500 .. 500
           /\ \A k \in Nat : n = 1000 * k => HalfEven(n, 1000) = k
<1>1. CASE (2 * n) % 2000 = 1000
    <2>1. 1000 * (n \div 1000) + 500 = n
        BY <1>1
    <2> QED BY <1>1, <2>1 DEF HalfEven, HalfUp
<1>2. CASE (2 * n) % 2000 # 1000
    BY <1>2 DEF HalfEven, HalfUp
<1> QED BY <1>1, <1>2

LEMMA Scaled ==
    ASSUME NEW x \in Int, NEW d \in Nat, x \in -d .. d, NEW k \in Nat
    PROVE  k * x \in -(d * k) .. d * k
<1>1. k * x <= k * d /\ k * (-d) <= k * x
    OBVIOUS
<1>2. k * (-d) = -(d * k) /\ k * d = d * k
    OBVIOUS
<1> QED BY <1>1, <1>2

\* Q and A are fair for q of a unit with factor f at r, all in thousandths but
\* A in paise.
FairLine(q, r, f, Q, A) ==
    LET dropped == 1000 * Q - q * f
        slack == 5000 + 5 * (Q + q) + (IF dropped = 0 THEN 0 ELSE 5000 * RupeesToPaise(r))
    IN dropped \in -500 .. 500 /\ 10000 * A - r * q \in -slack .. slack

LEMMA LineIsFair ==
    ASSUME NEW q \in Nat, NEW r \in Nat, NEW f \in {1, 1000, 12000}
    PROVE  FairLine(q, r, f, HalfEven(q * f, 1000),
                    LineAmount(HalfEven(q * f, 1000), HalfUp(RupeesToPaise(r) * 1000, f)))
<1>1. PICK R \in Nat : R = RupeesToPaise(r)
    BY HalfUpNat DEF RupeesToPaise
<1>2. 10 * R - r \in -5 .. 5
    <2>1. 20 * R \in 2 * r - 10 .. 2 * r + 10
        BY <1>1, Rounded DEF RupeesToPaise
    <2> QED BY <2>1
<1>3. q * (10 * R - r) \in -(5 * q) .. 5 * q
    BY <1>2, Scaled
<1>4. q * (10 * R - r) = 10 * (q * R) - r * q
    OBVIOUS
<1>5. PICK w \in Nat : w = q * R
    BY TimesNat
<1>6. PICK v \in Nat : v = r * q
    BY TimesNat
<1>7. 10 * w - v \in -(5 * q) .. 5 * q
    BY <1>3, <1>4, <1>5, <1>6
<1>8. CASE f = 1000
    <2>1. HalfUp(R * 1000, f) = R /\ HalfEven(q * f, 1000) = q
        BY <1>8, EvenlyRounded DEF HalfUp
    <2>2. 2000 * LineAmount(q, R) \in 2 * w - 1000 .. 2 * w + 1000
        BY <1>5, Rounded DEF LineAmount
    <2>3. PICK A \in Nat : A = LineAmount(q, R)
        BY <1>5, HalfUpNat DEF LineAmount
    <2>4. 10000 * A - v \in -(5000 + 5 * q) .. 5000 + 5 * q
        BY <1>7, <2>2, <2>3
    <2> QED BY <1>1, <1>6, <1>8, <2>1, <2>3, <2>4 DEF FairLine
<1>9. CASE f = 12000
    <2>1. PICK U \in Nat : U = HalfUp(R * 1000, f)
        BY <1>9, HalfUpNat
    <2>2. 12 * U - R \in -6 .. 6
        <3>1. \A n \in Nat : n = R * 1000 => 24000 * HalfUp(n, 12000) \in 2 * n - 12000 .. 2 * n + 12000
            BY Rounded
        <3>2. 24000 * U \in 2000 * R - 12000 .. 2000 * R + 12000
            BY <1>9, <2>1, <3>1
        <3> QED BY <3>2
    <2>3. q * (12 * U - R) \in -(6 * q) .. 6 * q
        BY <2>2, Scaled
    <2>4. HalfEven(q * f, 1000) = 12 * q
        BY <1>9, EvenlyRounded
    <2>5. PICK z \in Nat : z = q * U
        BY TimesNat
    <2>6. q * (12 * U - R) = 12 * z - w /\ (12 * q) * U = 12 * z
        BY <1>5, <2>5
    <2>7. PICK A \in Nat : A = LineAmount(12 * q, U)
        BY <2>5, <2>6, HalfUpNat DEF LineAmount
    <2>8. 2000 * A \in 24 * z - 1000 .. 24 * z + 1000
        <3>1. A = HalfUp(12 * z, 1000)
            BY <2>6, <2>7 DEF LineAmount
        <3>2. \A n \in Nat : n = 12 * z => 2000 * HalfUp(n, 1000) \in 2 * n - 1000 .. 2 * n + 1000
            BY Rounded
        <3> QED BY <3>1, <3>2
    <2>9. 10000 * A - v \in -(5000 + 65 * q) .. 5000 + 65 * q
        BY <1>7, <2>3, <2>6, <2>8
    <2> QED BY <1>1, <1>6, <1>9, <2>1, <2>4, <2>7, <2>9 DEF FairLine
<1>10. CASE f = 1
    <2>1. HalfUp(R * 1000, f) = 1000 * R
        BY <1>10 DEF HalfUp
    <2>2. PICK Q, j : Q = HalfEven(j, 1000) /\ j = q * f
        OBVIOUS
    <2>3. j = q
        BY <1>10, <2>2
    <2>4. Q \in Nat /\ 1000 * Q - q \in -500 .. 500
        <3>1. HalfEven(q, 1000) \in Nat /\ 1000 * HalfEven(q, 1000) - q \in -500 .. 500
            BY EvenlyRounded
        <3> QED BY <2>2, <2>3, <3>1
    <2>5. PICK z \in Nat : z = Q * R
        BY <2>4, TimesNat
    <2>6. Q * (1000 * R) = 1000 * z
        BY <2>4, <2>5
    <2>7. LineAmount(Q, 1000 * R) = z
        <3>1. HalfUp(1000 * z, 1000) = z
            BY <2>5 DEF HalfUp
        <3> QED BY <2>6, <3>1 DEF LineAmount
    <2>8. R * (1000 * Q - q) \in -(500 * R) .. 500 * R
        BY <2>4, Scaled
    <2>9. R * (1000 * Q - q) = 1000 * z - w
        BY <1>5, <2>4, <2>5
    <2>10. 10000 * z - v \in -(5 * q + 5000 * R) .. 5 * q + 5000 * R
        BY <1>7, <2>8, <2>9
    <2>11. 1000 * Q - q = 0 => 10000 * z - v \in -(5 * q) .. 5 * q
        BY <1>7, <2>9
    <2>12. FairLine(q, r, f, Q, z)
        BY <1>1, <1>6, <1>10, <2>4, <2>10, <2>11 DEF FairLine
    <2> QED BY <1>1, <2>1, <2>2, <2>7, <2>12
<1> QED BY <1>8, <1>9, <1>10
\* Every path to a sale at a stated price takes one unit for the quantity and
\* the price.
LEMMA SaidIsCharged ==
    ASSUME NEW c, NEW cs, NEW ps, CaseOK(c, cs, ps), Table(ps, ProductRow), Verdict(c) = "COMMIT",
           Sale(c), Said(c.p.price), ~Said(c.p.total), Said(c.p.qty), c.p.priceUnit \in {Nobody, c.p.unit},
           {c.o.qty, c.o.price, c.o.total} = {None}
    PROVE  Charged(c.p, Entry(c))
<1> DEFINE base == c.prod.value.unit
           unit == UnitSaid(c)
           f == IF c.p.unit = Nobody THEN 1000 ELSE Factor[c.p.unit]
<1>1. Clear(c) /\ ForProduct(c)
    BY Verdicts DEF Clear, ForProduct, Sale, NeedsProduct
<1>2. c.prod.status = "RESOLVED" /\ Quantity(c) \notin {0, None}
    BY <1>1, ClearMeans DEF CaseOK, FoundIn, Statuses
<1>3. base \in BaseUnits /\ c.p.unit \in Units \cup {Nobody} /\ c.p.qty \in Nat /\ c.p.price \in Nat
    <2>1. c.prod.value \in ProductRow
        BY <1>2, LoadedRows DEF CaseOK, FoundIn
    <2> QED BY <2>1 DEF ProductRow, CaseOK, Sentence, Number, Said
<1>4. c.o.qty = None /\ c.o.price = None /\ c.o.total = None
    OBVIOUS
<1>5. PriceSource(c) = "price"
    BY <1>4 DEF PriceSource, None
<1>6. unit # Nobody /\ Quantity(c) = ToBaseQty(c.p.qty, unit, base)
    BY <1>2, <1>4 DEF Quantity, None
<1>7. unit \in Units /\ BaseUnitOf[unit] = base
    <2>1. unit \in Units
        BY <1>3, <1>6 DEF UnitSaid, BaseUnits, Units, BaseUnitOf
    <2>2. BaseUnitOf[unit] = base
        BY <1>2, <1>6 DEF ToBaseQty
    <2> QED BY <2>1, <2>2
<1>8. PriceUnit(c) = unit
    BY <1>6 DEF PriceUnit, UnitSaid
<1>9. f = Factor[unit] /\ f \in {1, 1000, 12000}
    <2>1. CASE c.p.unit = Nobody
        <3>1. unit \in Countable
            BY <1>6, <2>1 DEF UnitSaid
        <3> QED BY <2>1, <3>1 DEF Countable, Factor
    <2>2. CASE c.p.unit # Nobody
        <3>1. unit = c.p.unit
            BY <2>2 DEF UnitSaid
        <3> QED BY <1>7, <2>2, <3>1 DEF Factor, Units
    <2> QED BY <2>1, <2>2
<1>10. Quantity(c) = HalfEven(c.p.qty * f, 1000)
    BY <1>6, <1>7, <1>9 DEF ToBaseQty
<1>11. UnitPrice(c) = HalfUp(RupeesToPaise(c.p.price) * 1000, f)
    BY <1>5, <1>7, <1>8, <1>9 DEF UnitPrice, UnitPriceToBase
<1>12. Amount(c) = LineAmount(Quantity(c), UnitPrice(c))
    BY <1>5 DEF Amount, SaleAmount, Sale
<1>13. Entry(c).qty = Quantity(c) /\ Entry(c).amount = Amount(c)
    BY <1>1 DEF Entry
<1> HIDE DEF f
<1>14. PICK q, r, e : q = c.p.qty /\ r = c.p.price /\ e = Entry(c)
    OBVIOUS
<1>15. FairLine(q, r, f, HalfEven(q * f, 1000),
                LineAmount(HalfEven(q * f, 1000), HalfUp(RupeesToPaise(r) * 1000, f)))
    BY <1>3, <1>9, <1>14, LineIsFair
<1>16. FairLine(q, r, f, e.qty, e.amount)
    BY <1>10, <1>11, <1>12, <1>13, <1>14, <1>15
<1>17. FairLine(c.p.qty, c.p.price, f, e.qty, e.amount)
    BY <1>14, <1>16
<1>18. Charged(c.p, e)
    BY <1>17 DEF Charged, FairLine, f
<1> QED BY <1>14, <1>18

LEMMA ChargedInductive == TypeOK /\ StatusAgrees /\ ChargedAsSaid /\ [Next]_vars => ChargedAsSaid'
<1>1. ASSUME TypeOK, StatusAgrees, ChargedAsSaid, CatalogTyped',
             NEW m \in Msgs, NEW p \in Sentence, NEW o \in Overrides, Turn(m, p, o)
      PROVE  ChargedAsSaid'
    <2>1. \A k \in Msgs \ {m} : parsed'[k] = parsed[k] /\ entry'[k] = entry[k] /\ draft'[k] = draft[k]
        BY <1>1 DEF Turn, Asks, Ask, Ends, Books, Close, TypeOK
    <2>2. CASE Asks(m, p, o) \/ Ends(m, o)
        <3>1. entry[m] = NoEntry /\ entry' = entry
            BY <1>1, <2>2 DEF Turn, Open, StatusAgrees, Asks, Ask, Ends
        <3>2. Nobody \notin {"CREDIT_SALE", "CASH_SALE"}
            BY DialogueAssumption DEF Types, NeedsCustomer, NeedsProduct
        <3> QED BY <1>1, <2>1, <3>1, <3>2 DEF ChargedAsSaid, NoEntry
    <2>3. CASE Books(m, p, o)
        <3> DEFINE c == Case(p, o, customers', products')
        <3>1. CaseOK(c, customers', products') /\ Verdict(c) = "COMMIT" /\ c.p = p /\ c.o = o
            BY <2>3, CaseTyped DEF Books, Case
        <3>2. entry'[m] = Entry(c) /\ draft'[m] = o /\ parsed'[m] = p
            BY <1>1, <2>3 DEF Books, Close, Turn, TypeOK
        <3> HIDE DEF c
        <3>3. Entry(c).type \in {"CREDIT_SALE", "CASH_SALE"} => Sale(c)
            BY DEF Entry, Sale
        <3>4. PICK e : e = Entry(c)
            OBVIOUS
        <3>5. (/\ e.type \in {"CREDIT_SALE", "CASH_SALE"} /\ Said(p.price) /\ ~Said(p.total) /\ Said(p.qty)
               /\ p.priceUnit \in {Nobody, p.unit} /\ {o.qty, o.price, o.total} = {None}) => Charged(p, e)
            BY <1>1, <3>1, <3>3, <3>4, SaidIsCharged DEF CatalogTyped
        <3> QED BY <1>1, <2>1, <3>2, <3>4, <3>5 DEF ChargedAsSaid
    <2> QED BY <1>1, <2>2, <2>3 DEF Turn
<1>2. ASSUME TypeOK, StatusAgrees, ChargedAsSaid, Next PROVE ChargedAsSaid'
    BY <1>1, <1>2, DialogueSteps DEF ChargedAsSaid
<1>3. ASSUME ChargedAsSaid, UNCHANGED vars PROVE ChargedAsSaid'
    BY <1>3 DEF ChargedAsSaid, vars
<1> QED BY <1>2, <1>3

(* A sale at a stated price costs what was said, whatever the unit, the    *)
(* item, the numbers and the questions asked on the way: rounding is all   *)
(* that two conversions and four roundings of money.py add (decide.py:5,   *)
(* :77-123).                                                               *)
THEOREM SaidIsWhatItCosts == Spec => []ChargedAsSaid
<1>1. Init => ChargedAsSaid
    <2>1. Nobody \notin {"CREDIT_SALE", "CASH_SALE"}
        BY DialogueAssumption DEF Types, NeedsCustomer, NeedsProduct
    <2> QED BY <2>1 DEF Init, ChargedAsSaid, NoEntry
<1> QED BY <1>1, DialogueTypeCorrect, RowsOfAMessageAgree, ChargedInductive, PTL DEF Spec

-----------------------------------------------------------------------------
(* Nothing is asked twice: every answer leaves something in the sentence   *)
(* or the draft that the same question would have to find missing.         *)
AsksCustomer == {"AMBIGUOUS_CUSTOMER", "UNKNOWN_CUSTOMER"}
AsksProduct == {"AMBIGUOUS_PRODUCT", "UNKNOWN_PRODUCT"}
AsksQuantity == {"MISSING_QUANTITY", "UNIT_MISMATCH"}
AsksOther == {"MISSING_CUSTOMER", "MISSING_PRODUCT", "MISSING_AMOUNT", "CHOOSE_PAYMENT",
              "PRICE_MISMATCH", "MISSING_PRICE", "CONFIRM_LARGE_AMOUNT"}
Questions == AsksCustomer \cup AsksProduct \cup AsksQuantity \cup AsksOther \cup FlowReasons

\* What an answer to r leaves.
Left(r, p, o) ==
    /\ r = "MISSING_CUSTOMER" => p.customer # <<>>
    /\ r \in AsksCustomer => p.customer # <<>> /\ (o.customer # Nobody \/ o.newCustomer # <<>>)
    /\ r = "MISSING_PRODUCT" => p.product # <<>>
    /\ r \in AsksProduct => p.product # <<>> /\ (o.product # Nobody \/ o.newProduct # <<>>)
    /\ r \in AsksQuantity => o.qty > 0
    /\ r = "MISSING_AMOUNT" => o.total > 0
    /\ r = "MISSING_PRICE" => o.price > 0
    /\ r = "CHOOSE_PAYMENT" => o.payment # Nobody
    /\ r = "CONFIRM_LARGE_AMOUNT" => o.large
    /\ r = "CHOOSE_UNIT" => o.newUnit # Nobody
    /\ r = "ENTER_PRICE" => o.newPrice # None /\ o.newProduct # <<>>
    /\ r = "ENTER_NAME" => o.newProduct # <<>>
    /\ r = "ENTER_CUSTOMER" => o.newCustomer # <<>> /\ o.catalogOnly = "customer"

\* What a question r found missing.
Lacks(r, p, o, cs, ps) ==
    /\ r = "MISSING_CUSTOMER" => p.customer = <<>>
    /\ r \in AsksCustomer => p.customer # <<>> /\ o.customer \notin Active(cs)
    /\ r = "MISSING_PRODUCT" => p.product = <<>>
    /\ r \in AsksProduct => p.product # <<>> /\ o.product \notin Active(ps)
    /\ r \in AsksQuantity => ~(o.qty > 0)
    /\ r = "MISSING_AMOUNT" => ~(o.total > 0)
    /\ r = "MISSING_PRICE" => ~(o.price > 0)
    /\ r = "CHOOSE_PAYMENT" => o.payment = Nobody
    /\ r = "CONFIRM_LARGE_AMOUNT" => ~o.large
    /\ r = "CHOOSE_UNIT" => o.newUnit = Nobody /\ o.newProduct # <<>>
    /\ r = "ENTER_PRICE" => o.newPrice = None /\ o.newProduct # <<>>
    /\ r = "ENTER_NAME" => o.newProduct = <<>>
    /\ r = "ENTER_CUSTOMER" => o.newCustomer = <<>> /\ o.catalogOnly = "customer"

\* A question, and the draft it was asked with.
Fits(r, p, o, cs, ps) ==
    /\ r \in Questions /\ Lacks(r, p, o, cs, ps)
    /\ r \notin FlowReasons => o.catalogOnly = "no" /\ ~NewItem(o)
    /\ o.newCustomer # <<>> => o.customer # Nobody

LEMMA AskedAreQuestions == \A r \in Reasons \ Refusals : r = "none" \/ r \in Questions
<1>1. DOMAIN Precedence = 1 .. 18
    BY DEF Precedence
<1>2. \A i \in 1 .. 18 : Precedence[i] \in Refusals \cup Questions
    BY DEF Precedence, Refusals, Questions, AsksCustomer, AsksProduct, AsksQuantity, AsksOther
<1> QED BY <1>1, <1>2 DEF Reasons, Questions, FlowReasons

\* What was answered is not asked for again, but for a customer that is gone.
LEMMA LeftIsNotLacking ==
    ASSUME NEW r, NEW p, NEW o, NEW cs, NEW ps, Fits(r, p, o, cs, ps), Left(r, p, o),
           o.product # Nobody => o.product \in Active(ps)
    PROVE  r = "PRICE_MISMATCH" \/ (o.customer # Nobody /\ o.customer \notin Active(cs))
<1>1. CASE r \in AsksCustomer
    BY <1>1 DEF Fits, Left, Lacks
<1>2. CASE r \in AsksProduct
    <2>1. r \notin FlowReasons
        BY <1>2 DEF AsksProduct, FlowReasons
    <2> QED BY <1>2, <2>1 DEF Fits, Left, Lacks, NewItem
<1>3. CASE r \in AsksQuantity
    BY <1>3 DEF Fits, Left, Lacks
<1>4. CASE r \in AsksOther \cup FlowReasons
    BY <1>4 DEF Fits, Left, Lacks, AsksOther, FlowReasons
<1> QED BY <1>1, <1>2, <1>3, <1>4 DEF Fits, Questions

LEMMA VerdictFits ==
    ASSUME NEW p \in Sentence, NEW o \in Overrides, NEW cs, NEW ps, Table(cs, CustomerRow), Table(ps, ProductRow),
           o.catalogOnly = "no", ~NewItem(o), o.newCustomer # <<>> => o.customer # Nobody,
           Verdict(Case(p, o, cs, ps)) \notin Refusals \cup {"COMMIT"}
    PROVE  LET r == Verdict(Case(p, o, cs, ps)) IN
           /\ Fits(r, p, o, cs, ps)
           /\ r \in AsksProduct => Candidates(r, Case(p, o, cs, ps)) \subseteq Active(ps)
<1> DEFINE c == Case(p, o, cs, ps)
<1>1. PICK r : r = Verdict(c)
    OBVIOUS
<1>2. r \in Questions /\ r \notin FlowReasons /\ Applies(r, c)
    <2>1. Applies(r, c) /\ r \in {Precedence[i] : i \in DOMAIN Precedence} /\ r \notin Refusals
        <3> HIDE DEF c
        <3> QED BY <1>1, Verdicts DEF c
    <2>2. r # "none" /\ r \notin FlowReasons
        BY <2>1 DEF Precedence, FlowReasons
    <2> QED BY <2>1, <2>2, AskedAreQuestions DEF Reasons
<1>3. /\ c.p = p /\ c.o = o
      /\ c.cust.status # "RESOLVED" => c.cust = ResolveCustomer(p.customer, Load(cs)) /\ o.customer \notin Active(cs)
      /\ c.prod.status # "RESOLVED" => c.prod = ResolveProduct(p.product, Load(ps)) /\ o.product \notin Active(ps)
    <2>1. ASSUME NEW t, NEW row, Table(t, row), NEW id, NEW resolution, Chosen(id, Load(t), resolution).status # "RESOLVED"
          PROVE  Chosen(id, Load(t), resolution) = resolution /\ id \notin Active(t)
        <3>1. id \notin Active(t)
            BY <2>1, ChoiceIsTaken
        <3>2. ~\E e \in Load(t) : e.id = id
            BY <2>1 DEF Chosen, Resolved
        <3> QED BY <3>1, <3>2 DEF Chosen
    <2>2. c.p = p /\ c.o = o
        BY DEF Case
    <2>3. /\ c.cust = Chosen(o.customer, Load(cs), ResolveCustomer(p.customer, Load(cs)))
          /\ c.prod = Chosen(o.product, Load(ps), ResolveProduct(p.product, Load(ps)))
        BY DEF Case
    <2> HIDE DEF c
    <2>4. c.cust.status # "RESOLVED" => c.cust = ResolveCustomer(p.customer, Load(cs)) /\ o.customer \notin Active(cs)
        BY <2>1, <2>3
    <2>5. c.prod.status # "RESOLVED" => c.prod = ResolveProduct(p.product, Load(ps)) /\ o.product \notin Active(ps)
        BY <2>1, <2>3
    <2> QED BY <2>2, <2>4, <2>5
<1>4. /\ c.cust.status = "MISSING" => p.customer = <<>>
      /\ c.cust.status \in {"AMBIGUOUS", "UNKNOWN"} => p.customer # <<>>
      /\ c.prod.status = "MISSING" => p.product = <<>>
      /\ c.prod.status \in {"AMBIGUOUS", "UNKNOWN"} => p.product # <<>>
    <2> HIDE DEF c
    <2>1. \A hits, v : Unresolved("MISSING", hits).status = "MISSING" /\ Unresolved("AMBIGUOUS", hits).status = "AMBIGUOUS"
                       /\ Unresolved("UNKNOWN", hits).status = "UNKNOWN" /\ Unresolved("MULTIPLE", hits).status = "MULTIPLE"
                       /\ Resolved(v).status = "RESOLVED"
        BY DEF Resolved, Unresolved
    <2> QED BY <1>3, <2>1 DEF ResolveCustomer, ResolveProduct
<1> HIDE DEF c
<1>5. /\ r = "MISSING_CUSTOMER" => p.customer = <<>>
      /\ r \in AsksCustomer => p.customer # <<>> /\ o.customer \notin Active(cs)
    <2>1. Applies("MISSING_CUSTOMER", c) => c.cust.status = "MISSING"
        BY DEF Applies
    <2>2. Applies("AMBIGUOUS_CUSTOMER", c) => c.cust.status = "AMBIGUOUS"
        BY DEF Applies
    <2>3. Applies("UNKNOWN_CUSTOMER", c) => c.cust.status = "UNKNOWN"
        BY DEF Applies
    <2> QED BY <1>2, <1>3, <1>4, <2>1, <2>2, <2>3 DEF AsksCustomer
<1>6. /\ r = "MISSING_PRODUCT" => p.product = <<>>
      /\ r \in AsksProduct => p.product # <<>> /\ o.product \notin Active(ps)
    <2>1. Applies("MISSING_PRODUCT", c) => c.prod.status = "MISSING"
        BY DEF Applies
    <2>2. Applies("AMBIGUOUS_PRODUCT", c) => c.prod.status = "AMBIGUOUS"
        BY DEF Applies
    <2>3. Applies("UNKNOWN_PRODUCT", c) => c.prod.status = "UNKNOWN"
        BY DEF Applies
    <2> QED BY <1>2, <1>3, <1>4, <2>1, <2>2, <2>3 DEF AsksProduct
<1>7. r \in AsksQuantity => ~(o.qty > 0)
    <2>1. Applies("MISSING_QUANTITY", c) => Quantity(c) = 0
        BY DEF Applies
    <2>2. Applies("UNIT_MISMATCH", c) => Quantity(c) = None
        BY DEF Applies
    <2>3. o.qty > 0 => Quantity(c) = o.qty
        BY <1>3 DEF Quantity
    <2>4. o.qty \in Number
        BY DEF Overrides
    <2> QED BY <1>2, <2>1, <2>2, <2>3, <2>4 DEF AsksQuantity, Number, None
<1>8. r = "MISSING_AMOUNT" => ~(o.total > 0)
    <2>1. Applies("MISSING_AMOUNT", c) => ~(c.o.total > 0)
        BY DEF Applies
    <2> QED BY <1>2, <1>3, <2>1
<1>9. r = "MISSING_PRICE" => ~(o.price > 0)
    <2>1. Applies("MISSING_PRICE", c) => PriceSource(c) = "none"
        BY DEF Applies
    <2> QED BY <1>2, <1>3, <2>1 DEF PriceSource
<1>10. r = "CHOOSE_PAYMENT" => o.payment = Nobody
    <2>1. Applies("CHOOSE_PAYMENT", c) => Type(c) = "SALE"
        BY DEF Applies
    <2>2. o.payment \in {"CREDIT", "CASH", Nobody}
        BY DEF Overrides
    <2> QED BY <1>2, <1>3, <2>1, <2>2 DEF Type
<1>11. r = "CONFIRM_LARGE_AMOUNT" => ~o.large
    <2>1. Applies("CONFIRM_LARGE_AMOUNT", c) => ~c.o.large
        BY DEF Applies
    <2> QED BY <1>2, <1>3, <2>1
<1>12. Lacks(r, p, o, cs, ps)
    BY <1>2, <1>5, <1>6, <1>7, <1>8, <1>9, <1>10, <1>11 DEF Lacks, FlowReasons
<1>13. Fits(r, p, o, cs, ps)
    BY <1>2, <1>12 DEF Fits
<1>14. r \in AsksProduct => Candidates(r, c) \subseteq Active(ps)
    <2>1. c.prod.candidates \subseteq Load(ps)
        BY CaseTyped DEF CaseOK, FoundIn, c
    <2>2. r \in AsksProduct => Candidates(r, c) = {e.id : e \in c.prod.candidates}
        BY DEF Candidates, AsksProduct
    <2> QED BY <2>1, <2>2, LoadedRows
<1> QED BY <1>1, <1>13, <1>14 DEF c

\* What the transaction body does to a draft: it fills in what it created.
Filled(o0, o) ==
    /\ \A f \in {"payment", "large", "price", "qty", "total", "newCustomer", "newProduct", "newPrice", "catalogOnly"} :
           o[f] = o0[f]
    /\ o0.newUnit # Nobody => o.newUnit # Nobody
    /\ o0.customer # Nobody => o.customer # Nobody
    /\ o.newCustomer # <<>> => o.customer # Nobody
    /\ \/ o.product = o0.product
       \/ NewItem(o0) /\ o.product = o0.newProduct /\ o.product \in Active(products')
    /\ Active(products) \subseteq Active(products')

LEMMA BodyAsks ==
    ASSUME TypeOK, NEW m \in Msgs, NEW p \in Sentence, NEW o0 \in Overrides, NEW ps0, Table(ps0, ProductRow),
           Active(ps0) = Active(products), DecideAndPost(m, p, o0, ps0), Open(m)'
    PROVE  /\ parsed'[m] = p
           /\ Fits(question'[m].reason, p, draft'[m], customers', products')
           /\ question'[m].reason \in AsksProduct => question'[m].candidates \subseteq Active(products')
           /\ Filled(o0, draft'[m])
<1> DEFINE o1 == IF NewCustomer(o0) THEN [o0 EXCEPT !.customer = o0.newCustomer] ELSE o0
           o == UnitKnown(p, o1)
           asks == FlowQuestion(p, o)
           cs == IF NewCustomer(o0)
                 THEN IF o.catalogOnly = "no" THEN Enrolled(o0.newCustomer) ELSE AddedCustomer(o0.newCustomer)
                 ELSE customers
           makes == NewItem(o) /\ asks = "none" /\ o.catalogOnly # "customer"
           ps == IF makes THEN AddedProduct(o.newProduct, o.newUnit, o.newPrice, p.product) ELSE ps0
           od == IF makes THEN [o EXCEPT !.product = o.newProduct] ELSE o
<1>1. /\ customers' = cs /\ products' = ps /\ parsed' = [parsed EXCEPT ![m] = p]
      /\ IF asks # "none" THEN Ask(m, o, asks, {})
         ELSE IF o.catalogOnly # "no" THEN Close(m, od, "DONE") /\ UNCHANGED entry
         ELSE Decided(m, Case(p, od, cs, ps))
    BY DEF DecideAndPost
<1> DEFINE Same(a, b) ==
               \A f \in {"payment", "large", "price", "qty", "total", "newCustomer", "newProduct", "newPrice", "catalogOnly"} :
                   a[f] = b[f]
<1>2. /\ o1 \in Overrides /\ Same(o1, o0) /\ o1.product = o0.product /\ o1.newUnit = o0.newUnit
      /\ o0.customer # Nobody => o1.customer # Nobody
      /\ o1.newCustomer # <<>> => o1.customer # Nobody
    <2>1. CASE NewCustomer(o0)
        <3>1. o0.newCustomer \in Names /\ o0.newCustomer # Nobody
            BY <2>1, DialogueAssumption DEF NewCustomer, Overrides, Mentions
        <3>2. o1 = [o0 EXCEPT !.customer = o0.newCustomer]
            BY <2>1
        <3> HIDE DEF o1
        <3> QED BY <3>1, <3>2 DEF Overrides
    <2>2. CASE ~NewCustomer(o0)
        BY <2>2 DEF NewCustomer, Overrides
    <2> QED BY <2>1, <2>2
<1>3. /\ o \in Overrides /\ Same(o, o0) /\ o.product = o0.product /\ o.customer = o1.customer
      /\ o0.newUnit # Nobody => o.newUnit # Nobody
    <2>0. BaseUnits \subseteq Units /\ Nobody \notin Units
        BY DialogueAssumption DEF BaseUnits, Units, BaseUnitOf
    <2>1. p.unit # Nobody => BaseUnitOf[p.unit] \in BaseUnits /\ BaseUnitOf[p.unit] # Nobody
        BY <2>0 DEF Sentence, BaseUnits
    <2> HIDE DEF o1
    <2> QED BY <1>2, <2>1 DEF UnitKnown, Overrides
<1> HIDE DEF o1, o
<1>4. draft'[m] = IF asks # "none" THEN o ELSE od
    <2>1. CASE asks # "none"
        BY <1>1, <2>1 DEF Ask, TypeOK
    <2>2. CASE asks = "none" /\ o.catalogOnly # "no"
        BY <1>1, <2>2 DEF Close, TypeOK
    <2>3. CASE asks = "none" /\ o.catalogOnly = "no"
        <3>1. Decided(m, Case(p, od, cs, ps)) /\ Case(p, od, cs, ps).o = od
            BY <1>1, <2>3 DEF Case
        <3> HIDE DEF od
        <3> QED BY <2>3, <3>1 DEF Decided, Ask, Close, TypeOK
    <2> QED BY <2>1, <2>2, <2>3
<1>5. makes => o.newProduct \in Names /\ o.newUnit \in BaseUnits /\ o.newPrice \in Number
    BY <1>3 DEF NewItem, FlowQuestion, Overrides, Mentions
<1>6. /\ od \in Overrides /\ Same(od, o0) /\ od.customer = o.customer
      /\ od.newUnit = o.newUnit
      /\ od.product = IF makes THEN o.newProduct ELSE o0.product
    BY <1>3, <1>5 DEF Overrides
<1>7. Table(ps, ProductRow) /\ Table(products, ProductRow) /\ Table(cs, CustomerRow)
    <2>1. CatalogTyped
        BY DEF TypeOK, CatalogTyped
    <2>2. CatalogTyped'
        BY <2>1, DecideOutcome
    <2> QED BY <1>1, <2>1, <2>2 DEF CatalogTyped
<1>8. /\ makes => o.newProduct \in Active(ps)
      /\ Active(products) \subseteq Active(ps)
    <2>1. CASE ~makes
        BY <2>1
    <2>2. CASE makes
        <3>1. PICK n, row : n \in Names /\ row.known /\ row.active /\ n = o.newProduct /\ ps = [products EXCEPT ![n] = row]
            BY <1>5, <2>2 DEF AddedProduct
        <3>2. DOMAIN products = Names /\ DOMAIN ps = Names
            BY <1>7, <3>1 DEF Table
        <3> HIDE DEF ps
        <3> QED BY <3>1, <3>2 DEF Active
    <2> QED BY <2>1, <2>2
<1> HIDE DEF cs, ps, od, asks
<1>9. (asks = "none" /\ o.catalogOnly = "no") \/ asks # "none"
    BY <1>1 DEF Close, Open, TypeOK
<1>10. Filled(o0, draft'[m])
    <2>1. CASE asks # "none"
        <3>1. draft'[m] = o
            BY <1>4, <2>1
        <3> QED BY <1>1, <1>2, <1>3, <1>8, <3>1 DEF Filled
    <2>2. CASE asks = "none" /\ o.catalogOnly = "no"
        <3>1. draft'[m] = od
            BY <1>4, <2>2
        <3>2. makes => NewItem(o0)
            BY <1>3 DEF NewItem
        <3> HIDE DEF makes
        <3> QED BY <1>1, <1>2, <1>3, <1>6, <1>8, <3>1, <3>2 DEF Filled
    <2> QED BY <1>9, <2>1, <2>2
<1>11. CASE asks # "none"
    <2>1. /\ question'[m].reason = asks /\ question'[m].candidates = {} /\ draft'[m] = o
        BY <1>1, <1>11 DEF Ask, TypeOK
    <2>2. asks \in FlowReasons /\ Lacks(asks, p, o, customers', products')
        <3>1. CASE o.catalogOnly = "customer"
            <4>1. asks = "ENTER_CUSTOMER" /\ o.newCustomer = <<>>
                BY <1>11, <3>1 DEF FlowQuestion, asks
            <4> QED BY <3>1, <4>1 DEF Lacks, FlowReasons, AsksCustomer, AsksProduct, AsksQuantity
        <3>2. CASE o.catalogOnly # "customer" /\ asks = "ENTER_NAME"
            <4>1. o.newProduct = <<>>
                BY <3>2 DEF FlowQuestion, asks
            <4> QED BY <3>2, <4>1 DEF Lacks, FlowReasons, AsksCustomer, AsksProduct, AsksQuantity
        <3>3. CASE o.catalogOnly # "customer" /\ asks # "ENTER_NAME"
            <4>0. PICK a : a = asks /\ a = FlowQuestion(p, o)
                BY DEF asks
            <4>1. /\ o.newProduct # <<>>
                  /\ (asks = "CHOOSE_UNIT" /\ o.newUnit = Nobody) \/ (asks = "ENTER_PRICE" /\ o.newPrice = None)
                <5>1. NewItem(o)
                    BY <1>11, <3>3, <4>0 DEF FlowQuestion
                <5>2. a = IF o.newUnit = Nobody THEN "CHOOSE_UNIT"
                          ELSE IF o.newPrice = None /\ PriceNeeded(p, o) THEN "ENTER_PRICE" ELSE "none"
                    BY <3>3, <4>0, <5>1 DEF FlowQuestion
                <5> QED BY <1>11, <4>0, <5>1, <5>2 DEF NewItem
            <4> QED BY <4>1 DEF Lacks, FlowReasons, AsksCustomer, AsksProduct, AsksQuantity
        <3> QED BY <3>1, <3>2, <3>3
    <2>3. asks \notin AsksProduct
        BY <2>2 DEF FlowReasons, AsksProduct
    <2> QED BY <1>1, <1>10, <2>1, <2>2, <2>3 DEF Fits, Questions, Filled, TypeOK
<1>12. CASE asks = "none" /\ o.catalogOnly = "no"
    <2> DEFINE c == Case(p, od, customers', products')
               r == Verdict(c)
    <2>1. draft'[m] = od /\ Decided(m, c)
        BY <1>1, <1>4, <1>12
    <2>2. c.o = od
        BY DEF Case
    <2>3. od.catalogOnly = "no" /\ ~NewItem(od)
        <3>1. ~NewItem(o) => ~NewItem(od)
            BY <1>12 DEF od
        <3>2. NewItem(o) => od.product \in Names
            BY <1>5, <1>6, <1>12
        <3> QED BY <1>3, <1>6, <1>12, <3>1, <3>2, DialogueAssumption DEF NewItem
    <2> HIDE DEF c
    <2>4. /\ r \notin Refusals \cup {"COMMIT"}
          /\ question'[m].reason = r /\ question'[m].candidates = Candidates(r, c)
        <3>1. status'[m] = "AWAITING_CONFIRMATION"
            BY DEF Open
        <3>2. CASE r = "COMMIT"
            BY <2>1, <3>1, <3>2 DEF Decided, Close, TypeOK, Refusals
        <3>3. CASE r \in Refusals
            BY <2>1, <3>1, <3>3 DEF Decided, Close, TypeOK, Refusals
        <3>4. CASE r \notin Refusals \cup {"COMMIT"}
            BY <2>1, <3>4 DEF Decided, Ask, TypeOK
        <3> QED BY <3>2, <3>3, <3>4
    <2>5. /\ Fits(r, p, od, customers', products')
          /\ r \in AsksProduct => Candidates(r, c) \subseteq Active(products')
        <3>1. od.newCustomer # <<>> => od.customer # Nobody
            BY <1>10, <2>1 DEF Filled
        <3>2. Table(customers', CustomerRow) /\ Table(products', ProductRow)
            BY <1>1, <1>7
        <3> HIDE DEF r
        <3> QED BY <1>6, <2>3, <2>4, <3>1, <3>2, VerdictFits DEF c, r
    <2> QED BY <1>1, <1>10, <2>1, <2>4, <2>5 DEF TypeOK
<1> QED BY <1>9, <1>11, <1>12

\* Of a message that waits in a catalog that stays: its question fits, what
\* it offers is there, and every answer has left something.
AnswersLeft(m) ==
    /\ Fits(question[m].reason, parsed[m], draft[m], customers, products)
    /\ question[m].reason \in AsksProduct => question[m].candidates \subseteq Active(products)
    /\ \A r \in answered[m] : Left(r, parsed[m], draft[m])
    /\ draft[m].product # Nobody => draft[m].product \in Active(products)

AnswersCount ==
    \A m \in Msgs : /\ status[m] = "ABSENT" => answered[m] = {}
                    /\ Open(m) /\ ~touched[m] => AnswersLeft(m)

LEMMA AnsweredIsEnough == AnswersCount => AskedOnce
<1> SUFFICES ASSUME AnswersCount, NEW m \in Msgs, Open(m), ~touched[m], ~Excused(m),
                    question[m].reason \in answered[m]
             PROVE  FALSE
    BY DEF AskedOnce
<1>1. PICK r, p, o, cs, ps : r = question[m].reason /\ p = parsed[m] /\ o = draft[m] /\ cs = customers /\ ps = products
    OBVIOUS
<1>2. Fits(r, p, o, cs, ps) /\ Left(r, p, o) /\ (o.product # Nobody => o.product \in Active(ps))
    BY <1>1 DEF AnswersCount, AnswersLeft
<1>3. r = "PRICE_MISMATCH" \/ (o.customer # Nobody /\ o.customer \notin Active(cs))
    BY <1>2, LeftIsNotLacking
<1> QED BY <1>1, <1>3 DEF Excused

\* Filling in keeps what was left.
LEMMA FilledKeeps ==
    ASSUME NEW o0, NEW o, Filled(o0, o), NEW r, NEW p, Left(r, p, o0),
           o0.product # Nobody => o0.product \in Active(products)
    PROVE  Left(r, p, o) /\ (o.product # Nobody => o.product \in Active(products'))
<1>1. /\ o.payment = o0.payment /\ o.large = o0.large /\ o.price = o0.price /\ o.qty = o0.qty /\ o.total = o0.total
      /\ o.newCustomer = o0.newCustomer /\ o.newProduct = o0.newProduct /\ o.newPrice = o0.newPrice
      /\ o.catalogOnly = o0.catalogOnly
    BY DEF Filled
<1>2. Left(r, p, o)
    <2>1. r \in AsksProduct => o.product # Nobody \/ o.newProduct # <<>>
        BY <1>1 DEF Left, Filled, NewItem
    <2>2. r \in AsksCustomer => o.customer # Nobody \/ o.newCustomer # <<>>
        BY <1>1 DEF Left, Filled
    <2>3. r = "CHOOSE_UNIT" => o.newUnit # Nobody
        BY DEF Left, Filled
    <2> QED BY <1>1, <2>1, <2>2, <2>3 DEF Left
<1>3. o.product # Nobody => o.product \in Active(products')
    BY DEF Filled
<1> QED BY <1>2, <1>3

\* What the body is called with has to leave what was answered.
Leaves(m, p, o0) ==
    /\ \A r \in answered'[m] : Left(r, p, o0)
    /\ o0.product # Nobody => o0.product \in Active(products)

LEMMA BodyLeaves ==
    ASSUME TypeOK, NEW m \in Msgs, NEW p \in Sentence, NEW o0 \in Overrides, NEW ps0, Table(ps0, ProductRow),
           Active(ps0) = Active(products), DecideAndPost(m, p, o0, ps0), Leaves(m, p, o0), Open(m)'
    PROVE  AnswersLeft(m)'
<1>1. /\ parsed'[m] = p
      /\ Fits(question'[m].reason, p, draft'[m], customers', products')
      /\ question'[m].reason \in AsksProduct => question'[m].candidates \subseteq Active(products')
      /\ Filled(o0, draft'[m])
    BY BodyAsks
<1>2. PICK o : o = draft'[m]
    OBVIOUS
<1>3. ASSUME NEW r \in answered'[m] PROVE Left(r, p, o)
    BY <1>1, <1>2, FilledKeeps DEF Leaves
<1>4. o.product # Nobody => o.product \in Active(products')
    BY <1>1, <1>2 DEF Filled, Leaves
<1> QED BY <1>1, <1>2, <1>3, <1>4 DEF AnswersLeft

\* An answer keeps what others left, and leaves its own.
Better(p, o, p0, o0, r0) ==
    /\ \A r : Left(r, p, o) => Left(r, p0, o0)
    /\ Left(r0, p0, o0)

LEMMA PicksLeave ==
    ASSUME NEW p \in Sentence, NEW o \in Overrides, NEW q \in QuestionRow, NEW o0 \in Picks(p, q, o),
           Lacks(q.reason, p, o, customers, products), q.reason \in Questions
    PROVE  /\ Better(p, o, p, o0, q.reason)
           /\ o0.product = o.product \/ (q.reason \in AsksProduct /\ o0.product \in q.candidates)
<1> USE DEF Left, Better
<1>0. Nobody \notin Names /\ Nobody \notin BaseUnits /\ Nobody \notin {"CREDIT", "CASH"} /\ q.candidates \subseteq Names
    BY DialogueAssumption DEF BaseUnits, Units, BaseUnitOf, QuestionRow
<1>1. CASE q.reason \in AsksCustomer
    <2>1. \/ \E n \in q.candidates : o0 = [o EXCEPT !.customer = n]
          \/ p.customer # <<>> /\ o0 = [o EXCEPT !.newCustomer = p.customer]
        BY <1>1 DEF Picks, AsksCustomer
    <2> QED BY <1>0, <1>1, <2>1 DEF Lacks, Overrides, AsksCustomer, AsksProduct, AsksQuantity
<1>2. CASE q.reason \in AsksProduct
    <2>1. \/ \E n \in q.candidates : o0 = [o EXCEPT !.product = n]
          \/ p.product # <<>> /\ o0 = [o EXCEPT !.newProduct = p.product]
        BY <1>2 DEF Picks, AsksProduct
    <2> QED BY <1>0, <1>2, <2>1 DEF Lacks, Overrides, AsksCustomer, AsksProduct, AsksQuantity
<1>3. CASE q.reason = "CHOOSE_PAYMENT"
    <2>1. \E way \in {"CREDIT", "CASH"} : o0 = [o EXCEPT !.payment = way]
        BY <1>3 DEF Picks
    <2> QED BY <1>0, <1>3, <2>1 DEF Overrides, AsksCustomer, AsksProduct, AsksQuantity
<1>4. CASE q.reason = "CONFIRM_LARGE_AMOUNT"
    <2>1. o0 = [o EXCEPT !.large = TRUE]
        BY <1>4 DEF Picks
    <2> QED BY <1>4, <2>1 DEF Overrides, AsksCustomer, AsksProduct, AsksQuantity
<1>5. CASE q.reason = "CHOOSE_UNIT"
    <2>1. \E u \in BaseUnits : o0 = [o EXCEPT !.newUnit = u]
        BY <1>5 DEF Picks
    <2> QED BY <1>0, <1>5, <2>1 DEF Overrides, AsksCustomer, AsksProduct, AsksQuantity
<1>6. CASE q.reason = "ENTER_PRICE"
    <2>1. o0 = [o EXCEPT !.newPrice = 0]
        BY <1>6 DEF Picks
    <2> QED BY <1>6, <2>1 DEF Lacks, Overrides, None, AsksCustomer, AsksProduct, AsksQuantity
<1>7. CASE q.reason \notin AsksCustomer \cup AsksProduct \cup {"CHOOSE_PAYMENT", "CONFIRM_LARGE_AMOUNT", "CHOOSE_UNIT", "ENTER_PRICE"}
    BY <1>7 DEF Picks, AsksCustomer, AsksProduct
<1> QED BY <1>1, <1>2, <1>3, <1>4, <1>5, <1>6, <1>7

LEMMA TapLeaves ==
    ASSUME TypeOK, NEW m \in Msgs, Open(m), ~touched[m], AnswersLeft(m), Tap(m), Open(m)'
    PROVE  AnswersLeft(m)'
<1>1. PICK o0 : o0 \in Picks(parsed[m], question[m], draft[m]) /\ DecideAndPost(m, parsed[m], o0, Learned(m, o0))
    BY DEF Tap
<1>2. PICK p \in Sentence, o \in Overrides, q \in QuestionRow : p = parsed[m] /\ o = draft[m] /\ q = question[m]
    BY DEF TypeOK, QuestionRow
<1>3. Lacks(q.reason, p, o, customers, products) /\ q.reason \in Questions
    BY <1>2 DEF AnswersLeft, Fits
<1>4. /\ Better(p, o, p, o0, q.reason)
      /\ o0.product = o.product \/ (q.reason \in AsksProduct /\ o0.product \in q.candidates)
    BY <1>1, <1>2, <1>3, PicksLeave
<1>5. Leaves(m, p, o0)
    BY <1>2, <1>4 DEF Leaves, AnswersLeft, Better, Tap, AnsweredNow, TypeOK
<1>6. Active(Learned(m, o0)) = Active(products)
    <2>1. Table(products, ProductRow)
        BY DEF TypeOK
    <2>2. ASSUME NEW n, NEW alias PROVE Active(Taught(products, n, alias)) = Active(products)
        BY <2>1 DEF Taught, Active, Table, ProductRow
    <2> QED BY <2>2 DEF Learned
<1>7. o0 \in Overrides /\ Table(Learned(m, o0), ProductRow)
    BY <1>1, PicksTyped, LearnedTyped
<1> QED BY <1>1, <1>2, <1>5, <1>6, <1>7, BodyLeaves

\* A number fills the field it was asked for.
LEMMA NumberBetter ==
    ASSUME NEW p \in Sentence, NEW o \in Overrides, NEW r, Lacks(r, p, o, customers, products), NEW k \in Nat
    PROVE  /\ r \in AsksQuantity \cup {"PRICE_MISMATCH"} =>
                \A q \in Nat \ {0} : Better(p, o, p, [o EXCEPT !.qty = q], r)
           /\ r = "MISSING_AMOUNT" => /\ \A x : x # r /\ Left(x, p, o) => Left(x, p, [o EXCEPT !.total = k])
                                      /\ k > 0 => Left(r, p, [o EXCEPT !.total = k])
           /\ r = "MISSING_PRICE" => /\ \A x : x # r /\ Left(x, p, o) => Left(x, p, [o EXCEPT !.price = k])
                                     /\ k > 0 => Left(r, p, [o EXCEPT !.price = k])
           /\ r = "ENTER_PRICE" => Better(p, o, p, [o EXCEPT !.newPrice = k], r)
<1> USE DEF Left, Better, Overrides, AsksCustomer, AsksProduct, AsksQuantity
<1>1. ASSUME r \in AsksQuantity \cup {"PRICE_MISMATCH"}, NEW q \in Nat \ {0}
      PROVE  Better(p, o, p, [o EXCEPT !.qty = q], r)
    BY <1>1
<1>2. ASSUME r = "MISSING_AMOUNT"
      PROVE  /\ \A x : x # r /\ Left(x, p, o) => Left(x, p, [o EXCEPT !.total = k])
             /\ k > 0 => Left(r, p, [o EXCEPT !.total = k])
    BY <1>2
<1>3. ASSUME r = "MISSING_PRICE"
      PROVE  /\ \A x : x # r /\ Left(x, p, o) => Left(x, p, [o EXCEPT !.price = k])
             /\ k > 0 => Left(r, p, [o EXCEPT !.price = k])
    BY <1>3
<1>4. ASSUME r = "ENTER_PRICE"
      PROVE  Better(p, o, p, [o EXCEPT !.newPrice = k], r)
    BY <1>4 DEF Lacks, None
<1> QED BY <1>1, <1>2, <1>3, <1>4

LEMMA NumberLeaves ==
    ASSUME TypeOK, NEW m \in Msgs, Open(m), ~touched[m], AnswersLeft(m), AnswerNumber(m), Open(m)'
    PROVE  AnswersLeft(m)'
<1>1. Field(m) \in {"quantity", "amount", "price", "new_price"}
    BY DEF AnswerNumber
<1>2. PICK n \in Amounts, unit \in {Nobody} \cup Units :
        \/ /\ Field(m) = "quantity"
           /\ Ask(m, draft[m], question[m].reason, {})
           /\ UNCHANGED <<catalog, parsed, answered, touched, commands>>
        \/ /\ ~(Field(m) = "quantity" /\ TypedQuantity(m, n, unit) <= 0)
           /\ DecideAndPost(m, parsed[m], Numbered(m, n, unit), products)
           /\ IF RupeesToPaise(n) > 0 THEN AnsweredNow(m) ELSE UNCHANGED answered
    BY DEF AnswerNumber
<1>3. CASE /\ Field(m) = "quantity"
           /\ Ask(m, draft[m], question[m].reason, {})
           /\ UNCHANGED <<catalog, parsed, answered, touched, commands>>
    BY <1>3 DEF AnswersLeft, Ask, TypeOK, catalog
<1>4. CASE /\ ~(Field(m) = "quantity" /\ TypedQuantity(m, n, unit) <= 0)
           /\ DecideAndPost(m, parsed[m], Numbered(m, n, unit), products)
           /\ IF RupeesToPaise(n) > 0 THEN AnsweredNow(m) ELSE UNCHANGED answered
    <2>1. PICK p \in Sentence, o \in Overrides, r \in Reasons : p = parsed[m] /\ o = draft[m] /\ r = question[m].reason
        BY DEF TypeOK
    <2>2. Lacks(r, p, o, customers, products) /\ \A x \in answered[m] : Left(x, p, o)
        BY <2>1 DEF AnswersLeft, Fits
    <2>3. PICK k \in Nat : k = RupeesToPaise(n)
        <3>1. n \in Nat
            BY DialogueAssumption
        <3> QED BY <3>1, MoneyTypes DEF Units, BaseUnits
    <2>4. PICK o0 : o0 = Numbered(m, n, unit)
        OBVIOUS
    <2>5. answered'[m] = IF k > 0 THEN answered[m] \cup {r} ELSE answered[m]
        BY <1>4, <2>1, <2>3 DEF AnsweredNow, TypeOK
    <2>6. o0 \in Overrides /\ Table(products, ProductRow)
        BY <1>1, <2>4, NumberedTyped DEF TypeOK
    <2>7. (\A x \in answered'[m] : Left(x, p, o0)) /\ o0.product = o.product
        <3>1. CASE Field(m) = "quantity"
            <4>1. r \in AsksQuantity \cup {"PRICE_MISMATCH"}
                BY <2>1, <3>1 DEF Field, FieldOf, AsksQuantity
            <4>2. PICK q : q = TypedQuantity(m, n, unit)
                OBVIOUS
            <4>3. o0 = IF q > 0 THEN [o EXCEPT !.qty = q] ELSE o
                BY <2>1, <2>4, <3>1, <4>2 DEF Numbered
            <4>4. q \in Nat \ {0}
                <5>1. q \in Number
                    BY <4>2, TypedQuantityTyped
                <5> QED BY <1>4, <3>1, <4>2, <5>1 DEF Number, None
            <4>5. o0 = [o EXCEPT !.qty = q]
                BY <4>3, <4>4
            <4>6. \A x \in Nat \ {0} : Better(p, o, p, [o EXCEPT !.qty = x], r)
                BY <2>2, <4>1, NumberBetter, Zenon
            <4>7. Better(p, o, p, o0, r)
                BY <4>4, <4>5, <4>6
            <4>8. o0.product = o.product
                BY <4>5 DEF Overrides
            <4> QED BY <2>2, <2>5, <4>7, <4>8 DEF Better
        <3>2. CASE Field(m) = "amount"
            <4>1. r = "MISSING_AMOUNT"
                BY <2>1, <3>2 DEF Field, FieldOf
            <4>2. o0 = [o EXCEPT !.total = k]
                BY <2>1, <2>3, <2>4, <3>2 DEF Numbered
            <4>3. r \notin answered[m]
                BY <2>2, <4>1 DEF Lacks, Left
            <4> QED BY <2>2, <2>5, <4>1, <4>2, <4>3, NumberBetter DEF Overrides
        <3>3. CASE Field(m) = "price"
            <4>1. r = "MISSING_PRICE"
                BY <2>1, <3>3 DEF Field, FieldOf
            <4>2. o0 = [o EXCEPT !.price = k]
                BY <2>1, <2>3, <2>4, <3>3 DEF Numbered
            <4>3. r \notin answered[m]
                BY <2>2, <4>1 DEF Lacks, Left
            <4> QED BY <2>2, <2>5, <4>1, <4>2, <4>3, NumberBetter DEF Overrides
        <3>4. CASE Field(m) = "new_price"
            <4>1. r = "ENTER_PRICE"
                BY <2>1, <3>4 DEF Field, FieldOf
            <4>2. o0 = [o EXCEPT !.newPrice = k]
                BY <2>1, <2>3, <2>4, <3>4 DEF Numbered
            <4> QED BY <2>2, <2>5, <4>1, <4>2, NumberBetter DEF Better, Overrides
        <3> QED BY <1>1, <3>1, <3>2, <3>3, <3>4
    <2>8. Leaves(m, p, o0)
        BY <2>1, <2>7 DEF Leaves, AnswersLeft
    <2> QED BY <1>4, <2>1, <2>4, <2>6, <2>8, BodyLeaves
<1> QED BY <1>2, <1>3, <1>4

\* A name is asked for where there was none.
LEMMA NameBetter ==
    ASSUME NEW p \in Sentence, NEW o \in Overrides, NEW r, Lacks(r, p, o, customers, products), NEW n \in Names
    PROVE  /\ r = "MISSING_CUSTOMER" /\ o.catalogOnly = "no" =>
                Better(p, o, [p EXCEPT !.customer = n], [o EXCEPT !.customer = Nobody, !.newCustomer = <<>>], r)
           /\ r = "MISSING_PRODUCT" =>
                Better(p, o, [p EXCEPT !.product = n], [o EXCEPT !.product = Nobody], r)
           /\ r = "ENTER_NAME" => \A unit, price : Better(p, o, p, Item(o, n, unit, price), r)
           /\ r = "ENTER_CUSTOMER" => Better(p, o, p, [o EXCEPT !.newCustomer = n], r)
<1> USE DEF Left, Better, Sentence, Overrides, AsksCustomer, AsksProduct, AsksQuantity
<1>0. n # <<>>
    BY DialogueAssumption
<1>1. ASSUME r = "MISSING_CUSTOMER", o.catalogOnly = "no"
      PROVE  Better(p, o, [p EXCEPT !.customer = n], [o EXCEPT !.customer = Nobody, !.newCustomer = <<>>], r)
    BY <1>0, <1>1 DEF Lacks
<1>2. ASSUME r = "MISSING_PRODUCT"
      PROVE  Better(p, o, [p EXCEPT !.product = n], [o EXCEPT !.product = Nobody], r)
    BY <1>0, <1>2 DEF Lacks
<1>3. ASSUME r = "ENTER_NAME", NEW unit, NEW price
      PROVE  Better(p, o, p, Item(o, n, unit, price), r)
    BY <1>0, <1>3 DEF Lacks, Item
<1>4. ASSUME r = "ENTER_CUSTOMER"
      PROVE  Better(p, o, p, [o EXCEPT !.newCustomer = n], r)
    BY <1>0, <1>4 DEF Lacks
<1> QED BY <1>1, <1>2, <1>3, <1>4

LEMMA NameLeaves ==
    ASSUME TypeOK, NEW m \in Msgs, Open(m), ~touched[m], AnswersLeft(m), AnswerName(m), Open(m)'
    PROVE  AnswersLeft(m)'
<1>1. PICK n \in NameAnswers :
        \/ /\ Field(m) = "customer"
           /\ DecideAndPost(m, [parsed[m] EXCEPT !.customer = n],
                            [draft[m] EXCEPT !.customer = Nobody, !.newCustomer = <<>>], products)
        \/ /\ Field(m) = "product"
           /\ DecideAndPost(m, [parsed[m] EXCEPT !.product = n], [draft[m] EXCEPT !.product = Nobody], products)
        \/ /\ Field(m) = "new_name"
           /\ \E unit \in BaseUnits \cup {Nobody}, price \in {None} \cup {RupeesToPaise(a) : a \in Amounts} :
                DecideAndPost(m, parsed[m], Item(draft[m], n, unit, price), products)
        \/ /\ Field(m) = "new_customer"
           /\ DecideAndPost(m, parsed[m], [draft[m] EXCEPT !.newCustomer = n], products)
    BY DEF AnswerName
<1>2. PICK p \in Sentence, o \in Overrides, r \in Reasons : p = parsed[m] /\ o = draft[m] /\ r = question[m].reason
    BY DEF TypeOK
<1>3. /\ Lacks(r, p, o, customers, products) /\ \A x \in answered[m] : Left(x, p, o)
      /\ r \notin FlowReasons => o.catalogOnly = "no"
      /\ o.product # Nobody => o.product \in Active(products)
    BY <1>2 DEF AnswersLeft, Fits
<1>4. n \in Names /\ Table(products, ProductRow) /\ Active(products) = Active(products)
    BY DialogueAssumption DEF TypeOK
<1>5. answered'[m] = answered[m] \cup {r}
    BY <1>2 DEF AnswerName, AnsweredNow, TypeOK
<1>6. ASSUME NEW p0 \in Sentence, NEW o0 \in Overrides, DecideAndPost(m, p0, o0, products), Better(p, o, p0, o0, r),
             o0.product \in {Nobody, o.product}
      PROVE  AnswersLeft(m)'
    <2>1. Leaves(m, p0, o0)
        BY <1>3, <1>5, <1>6 DEF Leaves, Better
    <2> QED BY <1>4, <1>6, <2>1, BodyLeaves
<1>7. CASE /\ Field(m) = "customer"
           /\ DecideAndPost(m, [p EXCEPT !.customer = n], [o EXCEPT !.customer = Nobody, !.newCustomer = <<>>], products)
    <2>1. r = "MISSING_CUSTOMER" /\ o.catalogOnly = "no"
        BY <1>2, <1>3, <1>7 DEF Field, FieldOf, FlowReasons
    <2>2. PICK p0, o0 : p0 = [p EXCEPT !.customer = n] /\ o0 = [o EXCEPT !.customer = Nobody, !.newCustomer = <<>>]
        OBVIOUS
    <2>3. p0 \in Sentence /\ o0 \in Overrides /\ o0.product = o.product
        BY <1>4, <2>2 DEF Sentence, Overrides, Mentions
    <2>4. Better(p, o, p0, o0, r)
        BY <1>3, <1>4, <2>1, <2>2, NameBetter
    <2> QED BY <1>6, <1>7, <2>2, <2>3, <2>4
<1>8. CASE /\ Field(m) = "product"
           /\ DecideAndPost(m, [p EXCEPT !.product = n], [o EXCEPT !.product = Nobody], products)
    <2>1. r = "MISSING_PRODUCT"
        BY <1>2, <1>8 DEF Field, FieldOf
    <2>2. PICK p0, o0 : p0 = [p EXCEPT !.product = n] /\ o0 = [o EXCEPT !.product = Nobody]
        OBVIOUS
    <2>3. p0 \in Sentence /\ o0 \in Overrides /\ o0.product = Nobody
        BY <1>4, <2>2 DEF Sentence, Overrides, Mentions
    <2>4. Better(p, o, p0, o0, r)
        BY <1>3, <1>4, <2>1, <2>2, NameBetter
    <2> QED BY <1>6, <1>8, <2>2, <2>3, <2>4
<1>9. CASE /\ Field(m) = "new_name"
           /\ \E unit \in BaseUnits \cup {Nobody}, price \in {None} \cup {RupeesToPaise(a) : a \in Amounts} :
                DecideAndPost(m, p, Item(o, n, unit, price), products)
    <2>1. r = "ENTER_NAME"
        BY <1>2, <1>9 DEF Field, FieldOf
    <2>2. PICK unit \in BaseUnits \cup {Nobody}, price \in {None} \cup {RupeesToPaise(a) : a \in Amounts} :
            DecideAndPost(m, p, Item(o, n, unit, price), products)
        BY <1>9
    <2>3. PICK o0 : o0 = Item(o, n, unit, price)
        OBVIOUS
    <2>4. price \in Number
        <3>1. \A a \in Amounts : RupeesToPaise(a) \in Nat
            BY DialogueAssumption, MoneyTypes DEF Units, BaseUnits
        <3> QED BY <2>2, <3>1 DEF Number
    <2>5. o0 \in Overrides /\ o0.product = o.product
        BY <1>4, <2>3, <2>4 DEF Overrides, Mentions, Item
    <2>6. Better(p, o, p, o0, r)
        BY <1>3, <1>4, <2>1, <2>3, NameBetter
    <2> QED BY <1>6, <2>2, <2>3, <2>5, <2>6
<1>10. CASE /\ Field(m) = "new_customer"
            /\ DecideAndPost(m, p, [o EXCEPT !.newCustomer = n], products)
    <2>1. r = "ENTER_CUSTOMER"
        BY <1>2, <1>10 DEF Field, FieldOf
    <2>2. PICK o0 : o0 = [o EXCEPT !.newCustomer = n]
        OBVIOUS
    <2>3. o0 \in Overrides /\ o0.product = o.product
        BY <1>4, <2>2 DEF Overrides, Mentions
    <2>4. Better(p, o, p, o0, r)
        BY <1>3, <1>4, <2>1, <2>2, NameBetter
    <2> QED BY <1>6, <1>10, <2>2, <2>3, <2>4
<1> QED BY <1>1, <1>2, <1>7, <1>8, <1>9, <1>10

\* Nothing is answered before the first turn.
LEMMA HearLeaves ==
    ASSUME TypeOK, NEW m \in Msgs, answered[m] = {}, Hear(m) \/ StartWizard(m), Open(m)'
    PROVE  AnswersLeft(m)'
<1>1. Table(products, ProductRow) /\ answered'[m] = {}
    BY DEF Hear, StartWizard, TypeOK
<1>2. ASSUME NEW p \in Sentence, NEW o \in Overrides, DecideAndPost(m, p, o, products), o.product = Nobody
      PROVE  AnswersLeft(m)'
    <2>1. Leaves(m, p, o)
        BY <1>1, <1>2 DEF Leaves
    <2> QED BY <1>1, <1>2, <2>1, BodyLeaves
<1>3. CASE Hear(m)
    <2>1. PICK p \in Sentence : \/ DecideAndPost(m, p, Blank, products)
                              \/ Close(m, Blank, "FAILED")
        BY <1>3, DialogueAssumption DEF Hear
    <2>2. ~Close(m, Blank, "FAILED")
        BY DEF Close, Open, TypeOK
    <2>3. Blank.product = Nobody
        BY DEF Blank
    <2> QED BY <1>2, <2>1, <2>2, <2>3, BlankTyped
<1>4. CASE StartWizard(m)
    <2>1. PICK o \in Wizards : DecideAndPost(m, NoSentence, o, products)
        BY <1>4 DEF StartWizard
    <2>2. o \in Overrides /\ o.product = Nobody
        BY DialogueAssumption
    <2>3. NoSentence \in Sentence
        BY DEF NoSentence, Sentence, Number, Mentions
    <2> QED BY <1>2, <2>1, <2>2, <2>3
<1> QED BY <1>3, <1>4

\* A message that waits while others have their turn, in a catalog that stays.
Waits(m) ==
    /\ UNCHANGED <<parsed[m], draft[m], question[m], status[m], answered[m]>>
    /\ Open(m) /\ ~touched'[m] => ~touched[m] /\ UNCHANGED catalog

LEMMA OthersAreTold ==
    ASSUME NEW m, NEW p, NEW o0, NEW ps0, DecideAndPost(m, p, o0, ps0)
    PROVE  touched' = [n \in Msgs |-> touched[n] \/ (n # m /\ status[n] # "ABSENT" /\ catalog' # catalog)]
BY DEF DecideAndPost, Touch, catalog

\* A turn writes the rows of its own message, and all others see the catalog change.
LEMMA OwnRows ==
    ASSUME TypeOK, NEW k \in Msgs, Hear(k) \/ StartWizard(k) \/ Tap(k) \/ GiveUp(k) \/ AnswerNumber(k) \/ AnswerName(k)
    PROVE  /\ \A m \in Msgs \ {k} : Waits(m)
           /\ touched'[k] = touched[k] /\ (status[k] = "ABSENT" \/ Open(k)) /\ status'[k] # "ABSENT"
<1>1. /\ status[k] = "ABSENT" \/ Open(k)
      /\ \E p \in Sentence, o \in Overrides : Turn(k, p, o)
    BY HearTurns, TapTurns, AnswerTurns, NameTurns DEF Turn
<1>2. ASSUME NEW m \in Msgs \ {k} PROVE UNCHANGED <<parsed[m], draft[m], question[m], status[m]>>
    BY <1>1, <1>2 DEF Turn, Asks, Ends, Books, Ask, Close, TypeOK
<1>3. status'[k] # "ABSENT"
    BY <1>1 DEF Turn, Asks, Ends, Books, Ask, Close, TypeOK
<1>4. ASSUME NEW m \in Msgs \ {k} PROVE answered'[m] = answered[m]
    BY <1>4 DEF Hear, StartWizard, Tap, GiveUp, AnswerNumber, AnswerName, AnsweredNow, TypeOK
<1>5. \/ touched' = [n \in Msgs |-> touched[n] \/ (n # k /\ status[n] # "ABSENT" /\ catalog' # catalog)]
      \/ UNCHANGED <<catalog, touched>>
    <2>1. ASSUME NEW p, NEW o, NEW ps, DecideAndPost(k, p, o, ps)
          PROVE  touched' = [n \in Msgs |-> touched[n] \/ (n # k /\ status[n] # "ABSENT" /\ catalog' # catalog)]
        BY <2>1, OthersAreTold
    <2>2. \/ \E p, o, ps : DecideAndPost(k, p, o, ps)
          \/ UNCHANGED <<catalog, touched>>
        <3>1. Hear(k) => (\E p, o, ps : DecideAndPost(k, p, o, ps)) \/ UNCHANGED <<catalog, touched>>
            BY DEF Hear
        <3>2. StartWizard(k) => \E p, o, ps : DecideAndPost(k, p, o, ps)
            BY DEF StartWizard
        <3>3. Tap(k) => \E p, o, ps : DecideAndPost(k, p, o, ps)
            BY DEF Tap
        <3>4. GiveUp(k) => UNCHANGED <<catalog, touched>>
            BY DEF GiveUp
        <3>5. AnswerNumber(k) => (\E p, o, ps : DecideAndPost(k, p, o, ps)) \/ UNCHANGED <<catalog, touched>>
            BY DEF AnswerNumber
        <3>6. AnswerName(k) => \E p, o, ps : DecideAndPost(k, p, o, ps)
            BY DEF AnswerName
        <3> QED BY <3>1, <3>2, <3>3, <3>4, <3>5, <3>6
    <2> QED BY <2>1, <2>2
<1> QED BY <1>1, <1>2, <1>3, <1>4, <1>5 DEF Waits, Open, TypeOK

LEMMA AnswersInductive == TypeOK /\ AnswersCount /\ [Next]_vars => AnswersCount'
<1>1. ASSUME NEW m, Waits(m), status[m] = "ABSENT" => answered[m] = {}, Open(m) /\ ~touched[m] => AnswersLeft(m)
      PROVE  /\ status'[m] = "ABSENT" => answered'[m] = {}
             /\ Open(m)' /\ ~touched'[m] => AnswersLeft(m)'
    BY <1>1 DEF Waits, Open, AnswersLeft, catalog
<1>2. ASSUME TypeOK, AnswersCount, NEW k \in Msgs,
             Hear(k) \/ StartWizard(k) \/ Tap(k) \/ GiveUp(k) \/ AnswerNumber(k) \/ AnswerName(k)
      PROVE  AnswersCount'
    <2>1. /\ \A m \in Msgs \ {k} : Waits(m)
          /\ touched'[k] = touched[k] /\ (status[k] = "ABSENT" \/ Open(k)) /\ status'[k] # "ABSENT"
        BY <1>2, OwnRows
    <2>2. ASSUME Open(k)', ~touched'[k] PROVE AnswersLeft(k)'
        <3>1. ~touched[k]
            BY <2>1, <2>2
        <3>2. CASE status[k] = "ABSENT"
            <4>1. Hear(k) \/ StartWizard(k)
                BY <1>2, <3>2 DEF Tap, GiveUp, AnswerNumber, AnswerName, Open
            <4> QED BY <1>2, <2>2, <3>2, <4>1, HearLeaves DEF AnswersCount
        <3>3. CASE Open(k)
            <4>1. AnswersLeft(k)
                BY <1>2, <3>1, <3>3 DEF AnswersCount
            <4>2. ~GiveUp(k)
                BY <1>2, <2>2 DEF GiveUp, Close, Open, TypeOK
            <4>3. Tap(k) \/ AnswerNumber(k) \/ AnswerName(k)
                BY <1>2, <3>3, <4>2 DEF Hear, StartWizard, Open
            <4> QED BY <1>2, <2>2, <3>1, <3>3, <4>1, <4>3, TapLeaves, NumberLeaves, NameLeaves
        <3> QED BY <2>1, <3>2, <3>3
    <2>3. ASSUME NEW m \in Msgs
          PROVE  /\ status'[m] = "ABSENT" => answered'[m] = {}
                 /\ Open(m)' /\ ~touched'[m] => AnswersLeft(m)'
        <3>1. CASE m = k
            BY <2>1, <2>2, <3>1
        <3>2. CASE m # k
            <4>1. /\ status[m] = "ABSENT" => answered[m] = {}
                  /\ Open(m) /\ ~touched[m] => AnswersLeft(m)
                BY <1>2 DEF AnswersCount
            <4> QED BY <1>1, <2>1, <3>2, <4>1
        <3> QED BY <3>1, <3>2
    <2> QED BY <2>3 DEF AnswersCount
<1>3. ASSUME TypeOK, AnswersCount, NEW c \in Commands, Command(c) PROVE AnswersCount'
    <2>1. /\ touched' = [m \in Msgs |-> status[m] # "ABSENT"]
          /\ UNCHANGED <<status, parsed, draft, question, entry, answered>>
        BY <1>3 DEF Command
    <2>2. \A m \in Msgs : Open(m)' => touched'[m]
        BY <2>1 DEF Open
    <2> QED BY <1>3, <2>1, <2>2 DEF AnswersCount
<1>4. ASSUME AnswersCount, UNCHANGED vars PROVE AnswersCount'
    <2>1. \A m \in Msgs : Waits(m)
        BY <1>4 DEF vars, Waits, catalog
    <2>2. ASSUME NEW m \in Msgs
          PROVE  /\ status[m] = "ABSENT" => answered[m] = {}
                 /\ Open(m) /\ ~touched[m] => AnswersLeft(m)
        BY <1>4 DEF AnswersCount
    <2> QED BY <1>1, <2>1, <2>2 DEF AnswersCount
<1> QED BY <1>2, <1>3, <1>4 DEF Next

(* A message whose catalog stays as it was is never asked a second time    *)
(* for what it was answered (models.py:79, decide.py), but for the two     *)
(* sentences Excused names, so that answers bring it to an end.            *)
THEOREM NothingAskedTwice == Spec => []AskedOnce
<1>1. Init => AnswersCount
    BY DEF Init, AnswersCount, Open
<1> QED BY <1>1, DialogueTypeCorrect, AnswersInductive, AnsweredIsEnough, PTL DEF Spec
=============================================================================
