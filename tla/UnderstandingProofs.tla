------------------------- MODULE UnderstandingProofs -------------------------
(***************************************************************************)
(* What reaches a command, for any sentence of canonical words, any words  *)
(* of products, any number of models and whatever they say.                *)
(***************************************************************************)
EXTENDS Understanding, TLAPS, FiniteSetTheorems, WellFoundedInduction

-----------------------------------------------------------------------------
(* The first of a set of positions is one of them.                         *)
LEMMA LeastOf ==
    ASSUME NEW S, S \subseteq Nat, S # {}
    PROVE  Min(S) \in S
<1> DEFINE R == OpToRel(<, Nat)
<1>1. IsWellFoundedOn(R, Nat)
    BY NatLessThanWellFounded
<1>2. \A j, k \in Nat : <<j, k>> \in R <=> j < k
    BY DEF OpToRel
<1> HIDE DEF R
<1>3. PICK n \in S : \A k \in S : <<k, n>> \notin R
    BY <1>1, WFMin, Zenon
<1>4. \A k \in S : ~(k < n)
    BY <1>2, <1>3, Zenon
<1>5. \A k \in S : n <= k
    BY <1>4
<1> QED BY <1>3, <1>5 DEF Min

LEMMA LeastOfOne == ASSUME NEW i \in Nat PROVE Min({i}) = i
BY DEF Min

LEMMA FirstIsOne ==
    ASSUME NEW S, S \subseteq Nat
    PROVE  \/ First(S) = {} /\ S = {}
           \/ \E i \in S : First(S) = {i}
BY LeastOf DEF First

-----------------------------------------------------------------------------
(* A normalized sentence: only "#" has a number above zero.                *)
Tokens ==
    {t \in Seq([word : STRING \cup {"#"}, n : Int]) : \A i \in DOMAIN t : IsNum(t[i]) => t[i].word = "#"}

Numeric(toks) == {i \in DOMAIN toks : IsNum(toks[i])}

LEMMA TokensAre ==
    ASSUME NEW toks \in Tokens
    PROVE  /\ DOMAIN toks = 1 .. Len(toks) /\ Len(toks) \in Nat /\ DOMAIN toks \subseteq Nat
           /\ \A i \in DOMAIN toks : toks[i].n \in Int
           /\ \A i \in Numeric(toks) : toks[i].n \in Nat /\ toks[i].n > 0 /\ toks[i].word = "#"
<1> DEFINE T == [word : STRING \cup {"#"}, n : Int]
<1>1. toks \in Seq(T)
    BY DEF Tokens
<1> HIDE DEF T
<1>2. DOMAIN toks = 1 .. Len(toks) /\ Len(toks) \in Nat
    BY <1>1
<1>3. \A i \in DOMAIN toks : toks[i] \in T
    BY <1>1
<1>4. \A i \in DOMAIN toks : toks[i].n \in Int
    BY <1>3 DEF T
<1> QED BY <1>2, <1>4 DEF Tokens, Numeric, IsNum

\* The customer's words are no numbers, and the word behind them is a marker.
LEMMA CustomerIsWords ==
    ASSUME NEW toks \in Tokens
    PROVE  LET c == CustomerSpan(toks) IN
           /\ c.span \subseteq DOMAIN toks \ Numeric(toks)
           /\ c.marker \in Markers \cup {Nothing}
<1> DEFINE marked == {m \in DOMAIN toks : toks[m].word \in NameMarkers /\ NameBefore(toks, m) # {}}
           lead == LeadingName(toks)
           breaks == {i \in DOMAIN toks : Stops(toks[i])}
           c == CustomerSpan(toks)
<1>1. \A m \in DOMAIN toks : NameBefore(toks, m) \subseteq DOMAIN toks \ Numeric(toks)
    BY TokensAre DEF NameBefore, Numeric, Namey
<1>2. lead \subseteq DOMAIN toks \ Numeric(toks)
    BY TokensAre DEF LeadingName, Numeric, Stops
<1>3. CASE marked # {}
    <2>1. Min(marked) \in marked
        BY <1>3, TokensAre, LeastOf
    <2>2. c.span = NameBefore(toks, Min(marked)) /\ c.marker = toks[Min(marked)].word
        BY <1>3 DEF CustomerSpan
    <2> QED BY <1>1, <2>1, <2>2 DEF Markers
<1>4. CASE marked = {}
    <2>1. /\ c.span = lead
          /\ c.marker = IF lead # {} /\ breaks # {} /\ toks[Min(breaks)].word \in Markers
                        THEN toks[Min(breaks)].word ELSE Nothing
        BY <1>4 DEF CustomerSpan
    <2> QED BY <1>2, <2>1
<1> QED BY <1>3, <1>4

(* The words attached to the customer hold no number.                      *)
Taken(toks) == TakenBy(toks, CustomerSpan(toks))

LEMMA TakenAreWords ==
    ASSUME NEW toks \in Tokens
    PROVE  /\ Taken(toks) \cap Numeric(toks) = {}
           /\ Attach(toks, CustomerSpan(toks)) = [c |-> CustomerSpan(toks), n |-> Numbers(toks, Taken(toks))]
<1> DEFINE c == CustomerSpan(toks)
<1>1. c.span \cap Numeric(toks) = {}
    BY CustomerIsWords
<1>2. ASSUME NEW i \in Numeric(toks) PROVE At(toks, i) # c.marker
    <2>1. At(toks, i) = "#"
        BY TokensAre DEF At, Numeric
    <2> QED BY <2>1, CustomerIsWords DEF Markers, NameMarkers, Nothing
<1> QED BY <1>1, <1>2 DEF Taken, TakenBy, Attach

-----------------------------------------------------------------------------
(* The roles of the numbers.  What a number is followed by tells a count   *)
(* from a price, and what a price spans holds no second number.            *)
LEMMA NextWords ==
    ASSUME NEW toks \in Tokens, NEW i \in Numeric(toks)
    PROVE  /\ i \in Nat /\ Per(toks, i) \in Nat /\ Per(toks, i) \in {i + 1, i + 2, i + 3}
           /\ IsCount(toks, i) => ~IsPrice(toks, i) /\ ~IsPerUnit(toks, i) /\ ~IsAtRate(toks, i)
           /\ IsPerUnit(toks, i) \/ IsAtRate(toks, i) =>
                  \A j \in i .. Per(toks, i) : j \in Numeric(toks) => j = i
<1>1. i \in Nat /\ At(toks, i) = "#"
    BY TokensAre DEF At, Numeric
<1>2. \A j \in Nat : j \in Numeric(toks) => At(toks, j) = "#"
    BY TokensAre DEF At, Numeric
<1>3. Per(toks, i) \in Nat /\ Per(toks, i) \in {i + 1, i + 2, i + 3}
    BY <1>1 DEF Per
<1>4. ASSUME IsCount(toks, i) PROVE ~IsPrice(toks, i) /\ ~IsPerUnit(toks, i) /\ ~IsAtRate(toks, i)
    <2>1. At(toks, i + 1) \in {"kg", "g", "packet", "dozen"}
        BY <1>4 DEF IsCount, UnitWords
    <2>2. ~IsPrice(toks, i) /\ Per(toks, i) = i + 1
        BY <2>1 DEF IsPrice, Per
    <2> QED BY <1>1, <2>1, <2>2 DEF IsPerUnit, IsAtRate, PriceWords
<1>5. ASSUME IsPerUnit(toks, i) \/ IsAtRate(toks, i), NEW j \in i .. Per(toks, i), j \in Numeric(toks)
      PROVE  j = i
    <2> DEFINE k == Per(toks, i)
    <2>1. At(toks, j) = "#" /\ j \in Nat
        BY <1>1, <1>2, <1>3, <1>5
    <2>2. At(toks, k) # "#"
        BY <1>5 DEF IsPerUnit, IsAtRate, UnitWords, PriceWords
    <2>3. CASE IsPrice(toks, i)
        <3>1. At(toks, i + 1) # "#"
            BY <2>3 DEF IsPrice
        <3>2. k = i + 2 \/ (k = i + 3 /\ At(toks, i + 2) # "#")
            BY <1>1, <2>3 DEF Per
        <3> QED BY <1>1, <2>1, <2>2, <3>1, <3>2
    <2>4. CASE ~IsPrice(toks, i)
        <3>1. k = i + 1 \/ (k = i + 2 /\ At(toks, i + 1) # "#")
            BY <1>1, <2>4 DEF Per
        <3> QED BY <1>1, <2>1, <2>2, <3>1
    <2> QED BY <2>3, <2>4
<1> QED BY <1>1, <1>3, <1>4, <1>5

\* "2 kg 500 g": the second number is the only other one it takes.
LEMMA SubUnits ==
    ASSUME NEW toks \in Tokens, NEW i \in Numeric(toks), HasSubUnit(toks, i)
    PROVE  /\ i + 2 \in Numeric(toks) /\ At(toks, i + 1) = "kg" /\ At(toks, i + 3) = "g"
           /\ \A j \in i .. (i + 3) : j \in Numeric(toks) => j \in {i, i + 2}
<1>1. i \in Nat
    BY TokensAre DEF Numeric
<1>2. \A j \in Nat : j \in Numeric(toks) => At(toks, j) = "#"
    BY TokensAre DEF At, Numeric
<1>3. i + 2 \in Numeric(toks) /\ At(toks, i + 1) = "kg" /\ At(toks, i + 3) = "g"
    BY DEF HasSubUnit, Numeric
<1>4. i + 1 \notin Numeric(toks) /\ i + 3 \notin Numeric(toks)
    BY <1>1, <1>2, <1>3
<1> QED BY <1>1, <1>3, <1>4

(* Each role has at most one number of its own, and every other number is  *)
(* left over but for the part of a sum.                                    *)
Lone(S, toks) == S = {} \/ \E i \in Numeric(toks) : S = {i}
Added(toks, count) == {i + 2 : i \in {k \in count : HasSubUnit(toks, k)}}

LEMMA PositionsFit ==
    ASSUME NEW toks \in Tokens, NEW used0, used0 \cap Numeric(toks) = {}
    PROVE  LET pos == Positions(toks, used0) IN
           /\ Lone(pos.price, toks) /\ Lone(pos.count, toks) /\ Lone(pos.alone, toks) /\ Lone(pos.total, toks)
           /\ pos.count = {} \/ pos.alone = {}
           /\ pos.price \cap (pos.count \cup pos.alone \cup pos.total) = {}
           /\ pos.total \cap (pos.count \cup pos.alone) = {}
           /\ \A i \in pos.price \cup pos.total : ~IsCount(toks, i)
           /\ \A i \in pos.alone : \A j \in Numeric(toks) : ~IsCount(toks, j)
           /\ pos.used \cap Numeric(toks) =
                  pos.price \cup pos.count \cup pos.alone \cup pos.total \cup Added(toks, pos.count)
<1> DEFINE N == Numeric(toks)
           free(used) == {i \in DOMAIN toks \ used : IsNum(toks[i])}
           price == First({i \in free(used0) : IsPerUnit(toks, i) \/ IsAtRate(toks, i)})
           used1 == used0 \cup UNION {i .. Per(toks, i) : i \in price}
           count == First({i \in free(used1) : IsCount(toks, i)})
           used2 == used1 \cup UNION {i .. (IF HasSubUnit(toks, i) THEN i + 3 ELSE i + 1) : i \in count}
           alone == IF count = {} THEN First({i \in free(used1) : ~IsPrice(toks, i)}) ELSE {}
           used3 == used2 \cup alone
           total == First({i \in free(used3) : IsPrice(toks, i)})
           used4 == used3 \cup UNION {{i, i + 1} : i \in total}
<1>0. N \subseteq Nat /\ \A used : free(used) = N \ used
    BY TokensAre DEF Numeric
<1>1. /\ price = {} \/ \E i \in N : price = {i}
      /\ \A i \in price : IsPerUnit(toks, i) \/ IsAtRate(toks, i)
    <2> DEFINE S == {i \in free(used0) : IsPerUnit(toks, i) \/ IsAtRate(toks, i)}
    <2>1. S \subseteq Nat /\ S \subseteq N
        BY <1>0
    <2>2. First(S) = {} \/ \E i \in S : First(S) = {i}
        BY <2>1, FirstIsOne
    <2> QED BY <2>1, <2>2
<1>2. used1 \cap N = price
    <2>1. \A i \in price : i \in i .. Per(toks, i) /\ \A j \in i .. Per(toks, i) : j \in N => j = i
        BY <1>1, NextWords
    <2> QED BY <1>1, <2>1
<1> HIDE DEF price
<1>3. /\ count = {} \/ \E i \in N : count = {i}
      /\ count \cap price = {}
      /\ \A i \in count : IsCount(toks, i)
      /\ count = {} => \A i \in N \ price : ~IsCount(toks, i)
    <2> DEFINE S == {i \in free(used1) : IsCount(toks, i)}
    <2>1. S \subseteq Nat /\ S \subseteq N \ price /\ S = {i \in N \ price : IsCount(toks, i)}
        BY <1>0, <1>2
    <2>2. (First(S) = {} /\ S = {}) \/ \E i \in S : First(S) = {i}
        BY <2>1, FirstIsOne
    <2> QED BY <2>1, <2>2
<1>4. /\ alone = {} \/ \E i \in N : alone = {i}
      /\ alone \cap price = {}
      /\ alone # {} => count = {}
    <2> DEFINE S == {i \in free(used1) : ~IsPrice(toks, i)}
    <2>1. S \subseteq Nat /\ S \subseteq N \ price
        BY <1>0, <1>2
    <2>2. First(S) = {} \/ \E i \in S : First(S) = {i}
        BY <2>1, FirstIsOne
    <2> QED BY <2>1, <2>2
<1>5. used2 \cap N = price \cup count \cup Added(toks, count)
    <2> HIDE DEF count, used1
    <2>1. CASE count = {}
        BY <1>2, <2>1 DEF Added
    <2>2. ASSUME NEW i \in N, count = {i} PROVE used2 \cap N = price \cup count \cup Added(toks, count)
        <3>1. i \in Nat /\ IsCount(toks, i)
            BY <1>0, <1>3, <2>2
        <3>2. i + 1 \notin N
            BY <3>1, TokensAre DEF IsCount, UnitWords, At, Numeric
        <3>3. used2 = used1 \cup i .. (IF HasSubUnit(toks, i) THEN i + 3 ELSE i + 1)
            BY <2>2
        <3>4. CASE HasSubUnit(toks, i)
            <4>1. i .. (i + 3) \cap N = {i, i + 2}
                BY <3>1, <3>4, SubUnits
            <4>2. Added(toks, count) = {i + 2}
                BY <2>2, <3>4 DEF Added
            <4> QED BY <1>2, <2>2, <3>3, <3>4, <4>1, <4>2
        <3>5. CASE ~HasSubUnit(toks, i)
            <4>1. i .. (i + 1) \cap N = {i}
                BY <3>1, <3>2
            <4>2. Added(toks, count) = {}
                BY <2>2, <3>5 DEF Added
            <4> QED BY <1>2, <2>2, <3>3, <3>5, <4>1, <4>2
        <3> QED BY <3>4, <3>5
    <2> QED BY <1>3, <2>1, <2>2
<1> HIDE DEF count, alone
<1>6. used3 \cap N = price \cup count \cup alone \cup Added(toks, count)
    BY <1>4, <1>5
<1>7. /\ total = {} \/ \E i \in N : total = {i}
      /\ total \cap (price \cup count \cup alone) = {}
      /\ \A i \in total : IsPrice(toks, i)
    <2> DEFINE S == {i \in free(used3) : IsPrice(toks, i)}
    <2>1. S \subseteq Nat /\ S \subseteq N \ (price \cup count \cup alone) /\ \A i \in S : IsPrice(toks, i)
        BY <1>0, <1>6
    <2>2. First(S) = {} \/ \E i \in S : First(S) = {i}
        BY <2>1, FirstIsOne
    <2> QED BY <2>1, <2>2
<1> HIDE DEF total
<1>8. used4 \cap N = price \cup count \cup alone \cup total \cup Added(toks, count)
    <2>1. ASSUME NEW i \in total PROVE i \in N /\ i + 1 \notin N
        <3>1. i \in N /\ IsPrice(toks, i)
            BY <1>7, <2>1
        <3> QED BY <1>0, <3>1, TokensAre DEF IsPrice, At, Numeric
    <2> QED BY <1>6, <2>1
<1>9. \A i \in price \cup total : ~IsCount(toks, i)
    BY <1>1, <1>7, NextWords
<1>10. \A i \in alone : \A j \in N : ~IsCount(toks, j)
    BY <1>3, <1>4, <1>9
<1>11. Positions(toks, used0) = [price |-> price, count |-> count, alone |-> alone, total |-> total,
                                 counted |-> used3, used |-> used4]
    BY DEF Positions, price, count, alone, total
<1> HIDE DEF used3, used4
<1> QED BY <1>1, <1>3, <1>4, <1>7, <1>8, <1>9, <1>10, <1>11 DEF Lone

(* The value of a role is that of its number, or what the rules add up.    *)
IsOf(v, S, toks) == (S = {} /\ v = Absent) \/ \E i \in S : v = toks[i].n

LEMMA NumbersAre ==
    ASSUME NEW toks \in Tokens, NEW used0, used0 \cap Numeric(toks) = {}
    PROVE  LET pos == Positions(toks, used0)
               n == Numbers(toks, used0) IN
           /\ n.used = pos.used
           /\ IsOf(n.price, pos.price, toks) /\ IsOf(n.total, pos.total, toks)
           /\ \/ IsOf(n.quantity, pos.count \cup pos.alone, toks)
              \/ /\ n.quantity \in Nat /\ n.quantity > 0
                 /\ \E i \in pos.count : HasSubUnit(toks, i)
           /\ n.quantity = Absent => pos.count \cup pos.alone = {}
<1> DEFINE pos == Positions(toks, used0)
           n == Numbers(toks, used0)
           number(S) == IF S = {} THEN Absent ELSE toks[Min(S)].n
           word(S) == IF S = {} THEN Nothing ELSE toks[Min(S)].word
           unit == IF pos.count # {} THEN {i + 1 : i \in pos.count}
                   ELSE IF pos.alone = {} THEN {}
                   ELSE First({j \in DOMAIN toks \ pos.counted : toks[j].word \in UnitWords})
           sub == IF \E i \in pos.count : HasSubUnit(toks, i)
                  THEN number({i + 2 : i \in pos.count}) \div 1000 ELSE 0
<1>1. ASSUME NEW S, Lone(S, toks) PROVE IsOf(number(S), S, toks) /\ (S # {} => number(S) \in Nat /\ number(S) > 0)
    <2>1. CASE S = {}
        BY <2>1 DEF IsOf
    <2>2. ASSUME NEW i \in Numeric(toks), S = {i}
          PROVE IsOf(number(S), S, toks) /\ (S # {} => number(S) \in Nat /\ number(S) > 0)
        <3>1. Min(S) = i
            BY <2>2, TokensAre, LeastOfOne DEF Numeric
        <3> QED BY <2>2, <3>1, TokensAre DEF IsOf
    <2> QED BY <1>1, <2>1, <2>2 DEF Lone
<1>2. n = [price |-> number(pos.price),
           priceUnit |-> word({Per(toks, i) : i \in {k \in pos.price : IsPerUnit(toks, k)}}),
           quantity |-> number(pos.count \cup pos.alone) + sub,
           unit |-> word(unit), total |-> number(pos.total), used |-> pos.used]
    BY DEF Numbers
<1>3. /\ Lone(pos.price, toks) /\ Lone(pos.total, toks)
      /\ Lone(pos.count \cup pos.alone, toks) /\ Lone(pos.count, toks)
    BY PositionsFit DEF Lone
<1>4. ASSUME ~\E i \in pos.count : HasSubUnit(toks, i)
      PROVE  IsOf(n.quantity, pos.count \cup pos.alone, toks)
    <2>1. sub = 0
        BY <1>4
    <2>2. number(pos.count \cup pos.alone) \in Int
        BY <1>1, <1>3 DEF Absent
    <2> HIDE DEF n, sub, number, pos
    <2>3. n.quantity = number(pos.count \cup pos.alone)
        BY <1>2, <2>1, <2>2
    <2> QED BY <1>1, <1>3, <2>3
<1>5. ASSUME NEW i \in pos.count, HasSubUnit(toks, i) PROVE n.quantity \in Nat /\ n.quantity > 0
    <2>1. i \in Numeric(toks) /\ pos.count = {i}
        BY <1>3 DEF Lone
    <2>2. i + 2 \in Numeric(toks) /\ Lone({i + 2}, toks)
        BY <1>5, <2>1, SubUnits DEF Lone
    <2>3. {j + 2 : j \in pos.count} = {i + 2}
        BY <2>1
    <2>4. number({i + 2}) \in Nat
        BY <1>1, <2>2
    <2>5. sub = number({i + 2}) \div 1000
        BY <1>5, <2>3
    <2>6. number(pos.count \cup pos.alone) \in Nat /\ number(pos.count \cup pos.alone) > 0
        BY <1>1, <1>3, <2>1
    <2>7. n.quantity = number(pos.count \cup pos.alone) + sub
        BY <1>2
    <2> HIDE DEF n, number, pos, sub
    <2>8. sub \in Nat
        BY <2>4, <2>5
    <2> QED BY <2>6, <2>7, <2>8
<1>6. n.quantity = Absent => pos.count \cup pos.alone = {}
    <2> SUFFICES ASSUME n.quantity = Absent PROVE pos.count \cup pos.alone = {}
        OBVIOUS
    <2>1. ~\E i \in pos.count : HasSubUnit(toks, i)
        BY <1>5 DEF Absent
    <2>2. sub = 0 /\ n.quantity = number(pos.count \cup pos.alone) + sub
        BY <1>2, <2>1
    <2> HIDE DEF n, number, pos, sub
    <2> QED BY <1>1, <1>3, <2>2 DEF Absent
<1> HIDE DEF n, number, pos, sub, word, unit
<1>7. n.used = pos.used /\ IsOf(n.price, pos.price, toks) /\ IsOf(n.total, pos.total, toks)
    BY <1>1, <1>2, <1>3
<1> QED BY <1>4, <1>5, <1>6, <1>7 DEF n, pos

-----------------------------------------------------------------------------
(* What the rules make of the normalized sentence.                         *)
Customer == CustomerSpan(norm)
Where == Positions(norm, Taken(norm))
Got == Numbers(norm, Taken(norm))
HasProduct == Leftover(norm, Got.used) \cap Vocabulary # {}
RuleIs == Rule(norm, Customer, Got, HasProduct)
Unclear == Unread(norm, Got.used)

Classified ==
    /\ norm \in Tokens
    /\ parts = Attach(norm, CustomerSpan(norm))
    /\ rules = Classify(norm, parts.c, parts.n)

LEMMA RulesAre ==
    ASSUME Classified
    PROVE  /\ parts.n = Got
           /\ DOMAIN rules = DOMAIN Unparsed
           /\ rules.question \in BOOLEAN
           /\ rules.question =>
                  rules = [Unparsed EXCEPT !.question = TRUE, !.customer = Words(norm, Customer.span)]
           /\ ~rules.question =>
                  /\ rules.type = TypeOf(RuleIs)
                  /\ rules.customer = IF RuleIs = "arrived" THEN {} ELSE Words(norm, Customer.span)
                  /\ rules.product = Leftover(norm, Got.used)
                  /\ rules.flags = Flags(norm, Customer, Got, HasProduct)
                  /\ Unclear # {} => rules.quantity = Absent /\ rules.total = Absent /\ rules.price = Absent
                  /\ Unclear = {} => /\ rules.total = Got.total /\ rules.price = Got.price
                                     /\ rules.quantity = IF RuleIs = "repaid goods" THEN Absent ELSE Got.quantity
<1>1. parts = [c |-> Customer, n |-> Got]
    BY TakenAreWords DEF Classified, Customer, Got
<1>2. rules = Classify(norm, Customer, Got)
    BY <1>1 DEF Classified
<1> DEFINE cmd == [Unparsed EXCEPT
                      !.type = TypeOf(RuleIs), !.product = Leftover(norm, Got.used),
                      !.customer = IF RuleIs = "arrived" THEN {} ELSE Words(norm, Customer.span),
                      !.quantity = IF RuleIs = "repaid goods" THEN Absent ELSE Got.quantity,
                      !.unit = IF RuleIs = "repaid goods" THEN Nothing ELSE Got.unit,
                      !.total = Got.total, !.price = Got.price, !.priceUnit = Got.priceUnit,
                      !.direction = CASE RuleIs = "lost" -> "OUT" [] RuleIs = "found" -> "IN" [] OTHER -> Nothing,
                      !.flags = Flags(norm, Customer, Got, HasProduct)]
<1>3. CASE Words(norm, DOMAIN norm) \cap Question # {}
    <2>1. rules = [Unparsed EXCEPT !.question = TRUE, !.customer = Words(norm, Customer.span)]
        BY <1>2, <1>3 DEF Classify
    <2> QED BY <1>1, <2>1 DEF Unparsed
<1>4. CASE Words(norm, DOMAIN norm) \cap Question = {}
    <2>1. rules = IF Unclear # {} THEN WithoutNumbers(cmd) ELSE cmd
        BY <1>2, <1>4 DEF Classify, Unclear, RuleIs, HasProduct
    <2> QED BY <1>1, <2>1 DEF Unparsed, WithoutNumbers
<1> QED BY <1>3, <1>4

(* A number the rules have a role for is one that was said, or the sum.    *)
LEMMA RulesNumbers ==
    ASSUME Classified
    PROVE  /\ Taken(norm) \cap Numeric(norm) = {}
           /\ \A r \in {"quantity", "total", "price"} :
                  /\ rules[r] = Absent \/ (rules[r] \in Nat /\ rules[r] > 0)
                  /\ \/ rules[r] \in NumbersIn \cup {Absent}
                     \/ r = "quantity" /\ Sums
<1>1. norm \in Tokens /\ Taken(norm) \cap Numeric(norm) = {}
    BY TakenAreWords DEF Classified
<1>2. \A i \in Numeric(norm) : norm[i].n \in NumbersIn /\ norm[i].n \in Nat /\ norm[i].n > 0
    BY <1>1, TokensAre DEF NumbersIn, Numerals, Numeric
<1>3. ASSUME NEW v, NEW S, S \subseteq Numeric(norm), IsOf(v, S, norm)
      PROVE  (v = Absent \/ (v \in Nat /\ v > 0)) /\ v \in NumbersIn \cup {Absent}
    BY <1>2, <1>3 DEF IsOf
<1>4. /\ Where.price \subseteq Numeric(norm) /\ Where.total \subseteq Numeric(norm)
      /\ Where.count \cup Where.alone \subseteq Numeric(norm)
    BY <1>1, PositionsFit DEF Where, Lone
<1>5. /\ IsOf(Got.price, Where.price, norm) /\ IsOf(Got.total, Where.total, norm)
      /\ \/ IsOf(Got.quantity, Where.count \cup Where.alone, norm)
         \/ /\ Got.quantity \in Nat /\ Got.quantity > 0
            /\ \E i \in Where.count : HasSubUnit(norm, i)
    BY <1>1, NumbersAre DEF Where, Got
<1>6. (\E i \in Where.count : HasSubUnit(norm, i)) => Sums
    BY <1>4 DEF Sums, Numeric
<1>7. ~rules.question =>
          /\ rules.quantity \in {Absent, Got.quantity}
          /\ rules.total \in {Absent, Got.total} /\ rules.price \in {Absent, Got.price}
    BY RulesAre
<1>8. rules.question => rules.quantity = Absent /\ rules.total = Absent /\ rules.price = Absent
    BY RulesAre DEF Unparsed
<1>9. (rules.price = Absent \/ (rules.price \in Nat /\ rules.price > 0)) /\ rules.price \in NumbersIn \cup {Absent}
    BY <1>3, <1>4, <1>5, <1>7, <1>8, RulesAre
<1>10. (rules.total = Absent \/ (rules.total \in Nat /\ rules.total > 0)) /\ rules.total \in NumbersIn \cup {Absent}
    BY <1>3, <1>4, <1>5, <1>7, <1>8, RulesAre
<1>11. /\ rules.quantity = Absent \/ (rules.quantity \in Nat /\ rules.quantity > 0)
       /\ rules.quantity \in NumbersIn \cup {Absent} \/ Sums
    BY <1>3, <1>4, <1>5, <1>6, <1>7, <1>8, RulesAre
<1> QED BY <1>1, <1>9, <1>10, <1>11

(* What becomes of a model's numbers.                                      *)
Roles == {"quantity", "total", "price"}
Answered == \E x \in Extractions : command = Merge(Ground(x))

LEMMA MergedNumbers ==
    ASSUME Classified, NEW x \in Extractions, NEW r \in Roles
    PROVE  LET c == Merge(Ground(x)) IN
           /\ rules[r] # Absent => c[r] = rules[r]
           /\ rules[r] = Absent /\ c[r] # Absent =>
                  /\ c[r] = x[r] /\ c[r] \in NumbersIn
                  /\ "EXTRA_NUMBERS" \notin rules.flags
                  /\ \A own \in Roles : rules[own] # c[r]
<1> DEFINE g == Ground(x)
           m == [g EXCEPT !.question = rules.question, !.flags = rules.flags,
                          !.customer = IF @ = {} THEN rules.customer ELSE @,
                          !.product = IF @ = {} THEN rules.product ELSE @]
           w == IF "EXTRA_NUMBERS" \in m.flags THEN WithoutNumbers(m) ELSE m
           o == RulesOwnNumbers(w)
           c == Merge(Ground(x))
<1>1. x \in Extraction
    BY UnderstandingAssumption
<1>2. /\ DOMAIN g = DOMAIN x
      /\ g[r] \in {Absent} \cup {n \in NumbersIn : n = x[r]}
    BY <1>1 DEF Ground, Extraction, Roles
<1>3. DOMAIN m = DOMAIN x /\ m[r] = g[r] /\ m.flags = rules.flags
    BY <1>1, <1>2 DEF Extraction, Roles
<1>4. DOMAIN w = DOMAIN x /\ w[r] \in {Absent, g[r]} /\ ("EXTRA_NUMBERS" \in rules.flags => w[r] = Absent)
    BY <1>1, <1>3 DEF Extraction, Roles, WithoutNumbers
<1> HIDE DEF g, m, w
<1>5. /\ DOMAIN o = DOMAIN x
      /\ o[r] = IF rules[r] # Absent THEN rules[r]
                ELSE IF \E own \in Roles \ {r} : rules[own] # Absent /\ rules[own] = w[r] /\ rules[r] # w[r]
                     THEN Absent ELSE w[r]
    BY <1>1, <1>4 DEF RulesOwnNumbers, Roles, Extraction
<1> HIDE DEF o
<1>6. c = RulesOwnType(o)
    BY DEF Merge, o, w, m, g
<1>7. c[r] = o[r]
    BY <1>1, <1>5, <1>6 DEF RulesOwnType, Roles, Extraction
<1> QED BY <1>2, <1>4, <1>5, <1>7 DEF Roles

(* And of the rest of what it says.                                        *)
LEMMA MergedRest ==
    ASSUME Classified, NEW x \in Extractions
    PROVE  LET c == Merge(Ground(x)) IN
           /\ c.question = rules.question /\ c.flags = rules.flags
           /\ c.customer = rules.customer \/ (c.customer = x.customer /\ Spanned(c.customer))
           /\ c.customer = {} => rules.customer = {}
           /\ c.product = rules.product \/ (c.product = x.product /\ Spanned(c.product))
           /\ rules.type # Nothing => c.type = rules.type
           /\ rules.type = Nothing =>
                  /\ c.type \in TxTypes \cup {Nothing}
                  /\ c.type = "CREDIT_SALE" => "udhaar" \in Heard
                  /\ c.type = "CASH_SALE" => "cash" \in Heard
<1> DEFINE g == Ground(x)
           m == [g EXCEPT !.question = rules.question, !.flags = rules.flags,
                          !.customer = IF @ = {} THEN rules.customer ELSE @,
                          !.product = IF @ = {} THEN rules.product ELSE @]
           w == IF "EXTRA_NUMBERS" \in m.flags THEN WithoutNumbers(m) ELSE m
           o == RulesOwnNumbers(w)
           c == Merge(Ground(x))
           Same(a, b) == /\ DOMAIN a = DOMAIN b /\ a.question = b.question /\ a.flags = b.flags
                         /\ a.customer = b.customer /\ a.product = b.product
<1>1. x \in Extraction
    BY UnderstandingAssumption
<1>2. /\ DOMAIN g = DOMAIN x /\ g.type = x.type
      /\ g.customer = {} \/ (g.customer = x.customer /\ Spanned(g.customer))
      /\ g.product = {} \/ (g.product = x.product /\ Spanned(g.product))
    BY <1>1 DEF Ground, Extraction
<1> HIDE DEF g
<1>3. /\ DOMAIN m = DOMAIN x /\ m.type = x.type /\ m.flags = rules.flags /\ m.question = rules.question
      /\ m.customer = IF g.customer = {} THEN rules.customer ELSE g.customer
      /\ m.product = IF g.product = {} THEN rules.product ELSE g.product
    BY <1>1, <1>2 DEF Extraction
<1> HIDE DEF m
<1>4. Same(w, m) /\ w.type = x.type
    BY <1>1, <1>3 DEF Extraction, WithoutNumbers
<1> HIDE DEF w
<1>5. Same(o, m) /\ o.type = x.type
    BY <1>1, <1>3, <1>4 DEF Extraction, RulesOwnNumbers
<1> HIDE DEF o
<1>6. c = RulesOwnType(o)
    BY DEF Merge, o, w, m, g
<1>7. Same(c, m)
    BY <1>1, <1>3, <1>5, <1>6 DEF RulesOwnType, Extraction
<1>8. /\ rules.type # Nothing => c.type = rules.type
      /\ rules.type = Nothing =>
              c.type = IF \/ x.type = "CREDIT_SALE" /\ "udhaar" \notin Heard
                          \/ x.type = "CASH_SALE" /\ "cash" \notin Heard
                       THEN "SALE" ELSE x.type
    BY <1>1, <1>3, <1>5, <1>6 DEF RulesOwnType, Extraction
<1>9. x.type \in TxTypes \cup {Nothing}
    BY <1>1 DEF Extraction
<1> HIDE DEF c
<1>10. /\ rules.type = Nothing =>
              /\ c.type \in TxTypes \cup {Nothing}
              /\ c.type = "CREDIT_SALE" => "udhaar" \in Heard
              /\ c.type = "CASH_SALE" => "cash" \in Heard
    BY <1>8, <1>9 DEF TxTypes, Nothing
<1>11. /\ c.customer = rules.customer \/ (c.customer = x.customer /\ Spanned(c.customer))
       /\ c.customer = {} => rules.customer = {}
       /\ c.product = rules.product \/ (c.product = x.product /\ Spanned(c.product))
    BY <1>2, <1>3, <1>7
<1> QED BY <1>3, <1>7, <1>8, <1>10, <1>11 DEF c

-----------------------------------------------------------------------------
(* Nothing is in a command that was not said.                              *)
LEMMA RulesSpan ==
    ASSUME Classified
    PROVE  Spanned(rules.customer) /\ Spanned(rules.product)
<1>1. ASSUME NEW mention, mention \subseteq Heard PROVE Spanned(mention)
    BY <1>1 DEF Spanned
<1>2. Words(norm, Customer.span) \subseteq Heard
    BY CustomerIsWords DEF Customer, Classified, Words, Heard
<1>3. Leftover(norm, Got.used) \subseteq Heard
    BY DEF Leftover, Words, Heard
<1>4. rules.customer \subseteq Heard /\ rules.product \subseteq Heard
    BY <1>2, <1>3, RulesAre DEF Unparsed
<1> QED BY <1>1, <1>4

Known == Classified /\ (command = rules \/ Answered)

LEMMA KnownGrounded ==
    ASSUME Known
    PROVE  Grounded
<1>1. PICK x \in Extractions \cup {Nothing} :
          command = rules \/ (x \in Extractions /\ command = Merge(Ground(x)))
    BY DEF Known, Answered
<1>2. ASSUME NEW r \in Roles, command[r] # Absent
      PROVE  command[r] \in NumbersIn \/ (Sums /\ command[r] = command.quantity /\ command[r] = rules.quantity)
    <2>1. CASE rules[r] # Absent
        <3>1. command[r] = rules[r]
            BY <1>1, <2>1, MergedNumbers DEF Known
        <3>2. rules[r] \in NumbersIn \/ (r = "quantity" /\ Sums)
            BY <2>1, RulesNumbers DEF Known, Roles
        <3> QED BY <3>1, <3>2
    <2>2. CASE rules[r] = Absent
        BY <1>1, <1>2, <2>2, MergedNumbers DEF Known
    <2> QED BY <2>1, <2>2
<1>3. Spanned(command.customer) /\ Spanned(command.product)
    BY <1>1, RulesSpan, MergedRest DEF Known
<1> QED BY <1>2, <1>3 DEF Grounded, Roles

(* Either every number of the sentence has a place, or none is kept.       *)
LEMMA CommandAgrees ==
    ASSUME Known
    PROVE  command.question = rules.question /\ command.flags = rules.flags
BY MergedRest DEF Known, Answered

LEMMA UnclearKeepsNothing ==
    ASSUME Known, ~command.question, Unclear # {}
    PROVE  command.flags # {} /\ \A r \in Roles : command[r] = Absent
<1>1. ~rules.question
    BY CommandAgrees
<1>2. "EXTRA_NUMBERS" \in rules.flags
    BY <1>1, RulesAre DEF Known, Flags, Unclear
<1>3. \A r \in Roles : rules[r] = Absent
    BY <1>1, RulesAre DEF Known, Roles
<1>4. \A r \in Roles : command[r] = Absent
    BY <1>2, <1>3, MergedNumbers DEF Known, Answered
<1> QED BY <1>2, <1>4, CommandAgrees

LEMMA ClearIsPlaced ==
    ASSUME Classified, Unclear = {}
    PROVE  /\ Numerals = Numeric(norm)
           /\ Numerals = Where.price \cup Where.count \cup Where.alone \cup Where.total \cup Added(norm, Where.count)
<1>1. norm \in Tokens /\ Taken(norm) \cap Numeric(norm) = {}
    BY TakenAreWords DEF Classified
<1>2. Got.used = Where.used
    BY <1>1, NumbersAre DEF Got, Where
<1>3. \A i \in DOMAIN norm : norm[i].n \in Int
    BY <1>1, TokensAre
<1>4. Numeric(norm) \subseteq Numerals
    BY <1>1, TokensAre DEF Numerals, Numeric
<1>5. ASSUME NEW i \in Numerals PROVE i \in Numeric(norm) /\ i \in Where.used
    <2>1. norm[i].n # 0 /\ (IsNum(norm[i]) => i \in Got.used)
        BY DEF Unclear, Unread, Numerals
    <2> QED BY <1>2, <1>3, <2>1 DEF Numerals, Numeric, IsNum
<1>6. Where.used \cap Numeric(norm) =
          Where.price \cup Where.count \cup Where.alone \cup Where.total \cup Added(norm, Where.count)
    BY <1>1, PositionsFit DEF Where
<1> QED BY <1>4, <1>5, <1>6

(* What the rules take for money paid to a customer is flagged.            *)
LEMMA KnownTyped ==
    ASSUME Known
    PROVE  TypeIsSaid
<1>1. norm \in Tokens /\ Taken(norm) \cap Numeric(norm) = {}
    BY TakenAreWords DEF Known, Classified
<1>2. PICK x \in Extractions \cup {Nothing} :
          command = rules \/ (x \in Extractions /\ command = Merge(Ground(x)))
    BY DEF Known, Answered
<1>3. \A S : Words(norm, DOMAIN norm) \cap S = {} \/ \E w \in S : w \in Heard
    BY DEF Heard
<1>4. rules.question => rules.type = Nothing
    BY RulesAre DEF Known, Unparsed
<1>5. rules.type = "CREDIT_SALE" => "udhaar" \in Heard
    <2> SUFFICES ASSUME rules.type = "CREDIT_SALE" PROVE "udhaar" \in Heard
        OBVIOUS
    <2>1. RuleIs = "credit"
        BY <1>4, RulesAre DEF Known, TypeOf, Nothing
    <2> QED BY <2>1 DEF RuleIs, Rule, Heard, Nothing
<1>6. rules.type = "CASH_SALE" /\ rules.customer # {} => "cash" \in Heard
    <2> SUFFICES ASSUME rules.type = "CASH_SALE", rules.customer # {} PROVE "cash" \in Heard
        OBVIOUS
    <2>1. RuleIs = "cash" /\ ~rules.question
        BY <1>4, RulesAre DEF Known, TypeOf, Nothing
    <2>2. Customer.span # {}
        BY <2>1, RulesAre DEF Known, Words
    <2> QED BY <2>1, <2>2 DEF RuleIs, Rule, Heard, Nothing
<1>7. command.type = "CREDIT_SALE" => "udhaar" \in Heard
    BY <1>2, <1>5, MergedRest DEF Known
<1>8. command.type = "CASH_SALE" /\ rules.customer # {} => "cash" \in Heard
    BY <1>2, <1>6, MergedRest DEF Known
<1>9. ASSUME rules.type = "CREDIT_REPAYMENT", command.total # Absent, command.flags = {},
             NEW k \in DOMAIN norm, norm[k].word = "ko", NameBefore(norm, k) # {},
             \A m \in DOMAIN norm : norm[m].word \in {"ne", "se"} => NameBefore(norm, m) = {}
      PROVE  FALSE
    <2> DEFINE marked == {m \in DOMAIN norm : norm[m].word \in NameMarkers /\ NameBefore(norm, m) # {}}
    <2>1. Customer.span # {} /\ Customer.marker = "ko"
        <3>1. k \in marked /\ marked \subseteq Nat
            BY <1>1, <1>9, TokensAre DEF NameMarkers
        <3>2. Min(marked) \in marked
            BY <3>1, LeastOf
        <3>3. Customer.span = NameBefore(norm, Min(marked)) /\ Customer.marker = norm[Min(marked)].word
            BY <3>1 DEF Customer, CustomerSpan
        <3> QED BY <1>9, <3>2, <3>3 DEF NameMarkers
    <2>2. ~rules.question /\ rules.flags = {}
        BY <1>4, <1>9, CommandAgrees DEF Nothing
    <2>3. rules.type = TypeOf(RuleIs) /\ rules.flags = Flags(norm, Customer, Got, HasProduct)
        BY <2>2, RulesAre DEF Known
    <2>4. Unclear = {} /\ RuleIs # "paid out"
        BY <2>2, <2>3 DEF Flags, Unclear, RuleIs
    <2>5. RuleIs \in {"repaid", "repaid goods"}
        BY <1>9, <2>3, <2>4 DEF TypeOf, Nothing
    <2>6. RuleIs = "repaid" /\ Got.quantity = Absent /\ Got.total = Absent
        BY <2>1, <2>4, <2>5 DEF RuleIs, Rule, Nothing
    <2>7. rules.quantity = Absent /\ rules.total = Absent /\ rules.price = Got.price
        BY <2>2, <2>4, <2>6, RulesAre DEF Known
    <2>8. /\ command.total \in NumbersIn
          /\ \A own \in Roles : rules[own] # command.total
        BY <1>2, <1>9, <2>7, MergedNumbers DEF Known, Roles
    <2>9. Where.count = {} /\ Where.alone = {} /\ Where.total = {} /\ Added(norm, Where.count) = {}
        <3>1. Where.count = {} /\ Where.alone = {}
            BY <1>1, <2>6, NumbersAre DEF Where, Got
        <3>2. Lone(Where.total, norm) /\ IsOf(Got.total, Where.total, norm)
            BY <1>1, PositionsFit, NumbersAre DEF Where, Got
        <3>3. Where.total = {}
            BY <1>1, <2>6, <3>2, TokensAre DEF Lone, IsOf, Absent
        <3> QED BY <3>1, <3>3 DEF Added
    <2>10. PICK i \in Numerals : norm[i].n = command.total
        BY <2>8 DEF NumbersIn
    <2>11. i \in Where.price
        BY <2>4, <2>9, <2>10, ClearIsPlaced DEF Known
    <2>12. Lone(Where.price, norm) /\ IsOf(Got.price, Where.price, norm)
        BY <1>1, PositionsFit, NumbersAre DEF Where, Got
    <2>13. Got.price = norm[i].n
        BY <2>11, <2>12 DEF Lone, IsOf
    <2> QED BY <2>7, <2>8, <2>10, <2>13 DEF Roles
<1> QED BY <1>7, <1>8, <1>9 DEF TypeIsSaid

(* Two counts, or five numbers, do not find a place.                       *)
LEMMA AtMostFour ==
    ASSUME NEW a, NEW b, NEW c, NEW d, NEW S, S \subseteq {a, b, c, d}
    PROVE  IsFiniteSet(S) /\ Cardinality(S) \in Nat /\ Cardinality(S) <= 4
<1>1. IsFiniteSet({a}) /\ Cardinality({a}) = 1
    BY FS_Singleton
<1>2. IsFiniteSet({a} \cup {b}) /\ Cardinality({a} \cup {b}) \in 1 .. 2
    BY <1>1, FS_AddElement
<1>3. IsFiniteSet(({a} \cup {b}) \cup {c}) /\ Cardinality(({a} \cup {b}) \cup {c}) \in 1 .. 3
    BY <1>2, FS_AddElement
<1> DEFINE T == (({a} \cup {b}) \cup {c}) \cup {d}
<1>4. IsFiniteSet(T) /\ Cardinality(T) \in 1 .. 4
    BY <1>3, FS_AddElement
<1>5. S \subseteq T
    OBVIOUS
<1> HIDE DEF T
<1>6. IsFiniteSet(S) /\ Cardinality(S) <= Cardinality(T)
    BY <1>4, <1>5, FS_Subset
<1> QED BY <1>4, <1>6, FS_CardinalityType

LEMMA KnownFlagsTwo ==
    ASSUME Known
    PROVE  TwoOfAnything
<1>1. norm \in Tokens /\ Taken(norm) \cap Numeric(norm) = {}
    BY TakenAreWords DEF Known, Classified
<1> DEFINE counts == {i \in Numerals : norm[i].n > 0 /\ IsCount(norm, i)
                          /\ ~(i > 2 /\ i - 2 \in Numerals /\ At(norm, i - 1) = "kg" /\ At(norm, i + 1) = "g")}
<1>2. ASSUME Unclear = {} PROVE counts \subseteq Where.count /\ Lone(Where.count, norm)
    <2>1. ASSUME NEW i \in counts PROVE i \in Where.count
        <3>1. i \in Numeric(norm) /\ IsCount(norm, i)
            BY <1>2, ClearIsPlaced DEF Known
        <3>2. i \notin Where.price \cup Where.total \cup Where.alone
            BY <1>1, <3>1, PositionsFit DEF Where
        <3>3. i \notin Added(norm, Where.count)
            <4> SUFFICES ASSUME NEW k \in Where.count, HasSubUnit(norm, k), i = k + 2 PROVE FALSE
                BY DEF Added
            <4>1. k \in Numeric(norm) /\ k \in Nat /\ k > 0
                BY <1>1, PositionsFit, TokensAre DEF Where, Lone, Numeric
            <4>2. At(norm, i - 1) = "kg" /\ At(norm, i + 1) = "g"
                BY <1>1, <4>1, SubUnits
            <4>3. k \in Numerals /\ i - 2 = k /\ i > 2
                BY <1>2, <4>1, ClearIsPlaced DEF Known
            <4> QED BY <4>2, <4>3
        <3> QED BY <1>2, <3>2, <3>3, ClearIsPlaced DEF Known
    <2>2. Lone(Where.count, norm)
        BY <1>1, PositionsFit DEF Where
    <2> QED BY <2>1, <2>2
<1>3. ASSUME Unclear = {} PROVE ~(Cardinality(counts) > 1)
    <2>1. counts \subseteq Where.count /\ Lone(Where.count, norm)
        BY <1>2, <1>3
    <2> HIDE DEF counts
    <2>2. PICK i : counts = {} \/ counts = {i}
        BY <2>1 DEF Lone
    <2>3. Cardinality(counts) \in {0, 1}
        BY <2>2, FS_EmptySet, FS_Singleton
    <2> QED BY <2>3
<1>4. ASSUME Unclear = {} PROVE ~(Cardinality(Numerals) > 4)
    <2>1. /\ Lone(Where.price, norm) /\ Lone(Where.count, norm) /\ Lone(Where.alone, norm) /\ Lone(Where.total, norm)
          /\ Where.count = {} \/ Where.alone = {}
        BY <1>1, PositionsFit DEF Where
    <2>2. PICK p, q, t : /\ Where.price \subseteq {p} /\ Where.total \subseteq {t}
                         /\ Where.count \cup Where.alone \subseteq {q}
        <3>1. \E p : Where.price \subseteq {p}
            BY <2>1 DEF Lone
        <3>2. \E t : Where.total \subseteq {t}
            BY <2>1 DEF Lone
        <3>3. \E q : Where.count \cup Where.alone \subseteq {q}
            BY <2>1 DEF Lone
        <3> QED BY <3>1, <3>2, <3>3
    <2>3. Added(norm, Where.count) \subseteq {q + 2}
        BY <2>2 DEF Added
    <2>4. Numerals \subseteq {p, q, q + 2, t}
        BY <1>4, <2>2, <2>3, ClearIsPlaced DEF Known
    <2>5. Cardinality(Numerals) \in Nat /\ Cardinality(Numerals) <= 4
        BY <2>4, AtMostFour
    <2> QED BY <2>5
<1>5. ASSUME ~command.question, Cardinality(counts) > 1 \/ Cardinality(Numerals) > 4
      PROVE  /\ command.flags # {}
             /\ command.quantity = Absent /\ command.total = Absent /\ command.price = Absent
    BY <1>3, <1>4, <1>5, UnclearKeepsNothing DEF Roles
<1> QED BY <1>5 DEF TwoOfAnything

(* A number that has one place has one role.                               *)
LEMMA KnownOneRole ==
    ASSUME Known
    PROVE  OneRole
<1> SUFFICES ASSUME ~command.question, ~Dropped, NEW n \in NumbersIn
             PROVE  Cardinality({r \in Roles : command[r] = n}) <= Said(n)
    BY DEF OneRole, Roles
<1>1. norm \in Tokens /\ Taken(norm) \cap Numeric(norm) = {} /\ ~rules.question /\ n # Absent
    BY TakenAreWords, CommandAgrees, TokensAre DEF Known, Classified, NumbersIn, Numerals, Absent
<1> DEFINE R == {r \in Roles : command[r] = n}
           P == {i \in Numerals : norm[i].n = n}
<1>2. IsFiniteSet(P) /\ Cardinality(P) \in Nat
    <2>1. P \subseteq 1 .. Len(norm) /\ 1 \in Int /\ Len(norm) \in Int
        BY <1>1, TokensAre DEF Numerals
    <2>2. IsFiniteSet(1 .. Len(norm))
        BY <2>1, FS_Interval
    <2> HIDE DEF P
    <2>3. IsFiniteSet(P)
        BY <2>1, <2>2, FS_Subset
    <2> QED BY <2>3, FS_CardinalityType
<1>3. CASE Unclear # {}
    <2>1. R = {}
        BY <1>1, <1>3, UnclearKeepsNothing
    <2> QED BY <1>2, <2>1, FS_EmptySet DEF Said
<1>4. CASE Unclear = {}
    <2>1. /\ Numerals = Where.price \cup Where.count \cup Where.alone \cup Where.total \cup Added(norm, Where.count)
          /\ Added(norm, Where.count) = {}
        <3>1. Where.count \subseteq DOMAIN norm
            BY <1>1, PositionsFit DEF Where, Lone, Numeric
        <3>2. Added(norm, Where.count) = {}
            BY <3>1 DEF Added, Dropped, Sums
        <3> QED BY <1>4, <3>2, ClearIsPlaced DEF Known
    <2>2. /\ IsOf(Got.price, Where.price, norm) /\ IsOf(Got.total, Where.total, norm)
          /\ IsOf(Got.quantity, Where.count \cup Where.alone, norm)
        <3>1. Where.count \subseteq DOMAIN norm
            BY <1>1, PositionsFit DEF Where, Lone, Numeric
        <3>2. ~\E i \in Where.count : HasSubUnit(norm, i)
            BY <3>1 DEF Dropped, Sums
        <3> QED BY <1>1, <3>2, NumbersAre DEF Where, Got
    <2>3. rules.quantity = Got.quantity /\ rules.total = Got.total /\ rules.price = Got.price
        <3>1. RuleIs = "repaid goods" => Got.quantity = Absent
            BY <1>1, RulesAre DEF Known, Dropped, TypeOf
        <3> QED BY <1>1, <1>4, <3>1, RulesAre DEF Known
    <2> DEFINE Place == [quantity |-> Where.count \cup Where.alone, total |-> Where.total, price |-> Where.price]
    <2>4. \A r \in Roles : IsOf(rules[r], Place[r], norm) /\ Lone(Place[r], norm)
        <3>1. /\ Lone(Where.count \cup Where.alone, norm) /\ Lone(Where.total, norm) /\ Lone(Where.price, norm)
            BY <1>1, PositionsFit DEF Where, Lone
        <3> QED BY <2>2, <2>3, <3>1 DEF Roles
    <2>5. \A r, s \in Roles : r # s => Place[r] \cap Place[s] = {}
        <3>1. /\ Where.price \cap (Where.count \cup Where.alone \cup Where.total) = {}
              /\ Where.total \cap (Where.count \cup Where.alone) = {}
            BY <1>1, PositionsFit DEF Where
        <3> QED BY <3>1 DEF Roles
    <2>6. \A i \in P : \E r \in Roles : i \in Place[r]
        BY <2>1 DEF Roles
    <2> HIDE DEF Place
    <2>7. \E r \in Roles : rules[r] = n
        <3>1. PICK i \in P : TRUE
            BY DEF NumbersIn
        <3>2. PICK r \in Roles : i \in Place[r]
            BY <2>6
        <3>3. rules[r] = norm[i].n
            BY <2>4, <3>2 DEF IsOf, Lone
        <3> QED BY <3>3
    <2>8. ASSUME NEW r \in R PROVE rules[r] = n
        <3>1. CASE command = rules
            BY <3>1
        <3>2. ASSUME NEW x \in Extractions, command = Merge(Ground(x)) PROVE rules[r] = n
            BY <1>1, <2>7, <3>2, MergedNumbers DEF Known
        <3> QED BY <3>1, <3>2 DEF Known, Answered
    <2> DEFINE f == [r \in R |-> CHOOSE i \in Place[r] : TRUE]
    <2>9. \A r \in R : f[r] \in P /\ f[r] \in Place[r]
        <3> SUFFICES ASSUME NEW r \in R PROVE f[r] \in P /\ f[r] \in Place[r]
            OBVIOUS
        <3>1. PICK i \in Place[r] : norm[i].n = n
            BY <1>1, <2>4, <2>8 DEF IsOf
        <3>2. Place[r] = {i} /\ f[r] = i
            BY <2>4, <3>1 DEF Lone
        <3>3. i \in Numerals
            BY <1>4, <2>4, <3>2, ClearIsPlaced DEF Known, Lone
        <3> QED BY <3>1, <3>2, <3>3
    <2> HIDE DEF f
    <2>10. f \in Injection(R, P)
        <3>1. f \in [R -> P] /\ DOMAIN f = R
            BY <2>9 DEF f
        <3>2. \A r, s \in R : f[r] = f[s] => r = s
            <4> HIDE DEF P
            <4>1. \A r, s \in R : r \in Roles /\ s \in Roles
                OBVIOUS
            <4> HIDE DEF R
            <4> QED BY <2>5, <2>9, <4>1
        <3> HIDE DEF R, P
        <3> QED BY <3>1, <3>2 DEF Injection, IsInjective
    <2> QED BY <1>2, <2>10, FS_Injection DEF Said
<1> QED BY <1>3, <1>4

-----------------------------------------------------------------------------
(* The reader writes tokens and stays in the sentence.                     *)
LEMMA BaseTyped ==
    /\ \A w \in Bases : BaseValue[w] \in Int
    /\ \A w \in Modifiers : Modifier[w] \in Int
    /\ \A w \in Multipliers : Multiplier[w] \in Int
    /\ "end" \notin Bases \cup Modifiers \cup Multipliers
<1>1. \A w \in Modifiers : Modifier[w] \in Int /\ w # "end"
    BY DEF Modifiers, Modifier
<1>2. \A w \in Multipliers : Multiplier[w] \in Int /\ w # "end"
    BY DEF Multipliers, Multiplier
<1>3. \A w \in Bases : BaseValue[w] \in Int /\ w # "end"
    BY DEF Bases, BaseValue
<1> QED BY <1>1, <1>2, <1>3

Counting(n) ==
    /\ {"from", "total", "cur", "mod", "used", "after", "over"} \subseteq DOMAIN n
    /\ n.from \in Int /\ n.total \in Int /\ n.cur \in Int /\ n.mod \in Int

ReaderInv ==
    /\ heard \in Utterances
    /\ at \in 1 .. (Len(heard) + 1)
    /\ Counting(num) /\ num.from \in 1 .. (Len(heard) + 1)
    /\ norm \in Tokens

LEMMA HeardIs ==
    ASSUME heard \in Utterances
    PROVE  /\ Len(heard) \in Nat /\ DOMAIN heard = 1 .. Len(heard)
           /\ \A i \in DOMAIN heard : heard[i] \in STRING
BY UtterancesAssumption

LEMMA ReaderStarts == ReaderInit => ReaderInv
<1> SUFFICES ASSUME ReaderInit PROVE ReaderInv
    OBVIOUS
<1>1. norm \in Tokens
    BY DEF ReaderInit, Tokens
<1> QED BY <1>1, HeardIs DEF ReaderInit, ReaderInv, Counting, Fresh, None

LEMMA ReaderStep ==
    ASSUME ReaderInv, ReaderNext
    PROVE  ReaderInv'
<1>1. /\ heard \in Utterances /\ Len(heard) \in Nat /\ DOMAIN heard = 1 .. Len(heard)
      /\ \A i \in DOMAIN heard : heard[i] \in STRING
      /\ at \in Int /\ norm \in Tokens /\ Counting(num) /\ num.from \in 1 .. (Len(heard) + 1)
    BY HeardIs DEF ReaderInv
<1>2. ASSUME NEW n, Counting(n), n.from = num.from, Advance(n), Word(at) # "end" PROVE ReaderInv'
    <2>1. at \in DOMAIN heard
        BY <1>2 DEF Word
    <2> QED BY <1>1, <1>2, <2>1 DEF ReaderInv, Advance
<1>3. CASE ReadModifier
    <2> DEFINE n == [num EXCEPT !.mod = Modifier[Word(at)]]
    <2>1. Word(at) \in Modifiers /\ Advance(n)
        BY <1>3 DEF ReadModifier, ReadsModifier, Fits
    <2>2. Counting(n) /\ n.from = num.from
        BY <1>1, <2>1, BaseTyped DEF Counting
    <2> QED BY <1>2, <2>1, <2>2, BaseTyped
<1>4. CASE ReadPart
    <2> DEFINE n == [num EXCEPT !.cur = 1000 + Modifier[Word(at)], !.used = TRUE, !.over = TRUE]
    <2>1. Word(at) \in Modifiers /\ Advance(n)
        BY <1>4 DEF ReadPart, ReadsPart, Fits
    <2>2. Counting(n) /\ n.from = num.from
        BY <1>1, <2>1, BaseTyped DEF Counting
    <2> QED BY <1>2, <2>1, <2>2, BaseTyped
<1>5. CASE ReadMultiplier
    <2> DEFINE m == Multiplier[Word(at)]
               base == IF num.cur # None THEN num.cur ELSE 1000 + num.mod
               b == [num EXCEPT !.used = TRUE, !.after = TRUE, !.mod = IF num.cur = None THEN 0 ELSE @]
               n == IF m >= 1000 THEN [b EXCEPT !.total = @ + base * m, !.cur = None] ELSE [b EXCEPT !.cur = base * m]
    <2>1. Word(at) \in Multipliers /\ Advance(n)
        BY <1>5 DEF ReadMultiplier, ReadsMultiplier
    <2>2. m \in Int /\ base \in Int
        BY <1>1, <2>1, BaseTyped DEF Counting
    <2>3. Counting(b) /\ b.from = num.from
        BY <1>1 DEF Counting
    <2> HIDE DEF m, base, b
    <2>4. Counting(n) /\ n.from = num.from
        BY <2>2, <2>3 DEF Counting, None
    <2> HIDE DEF n
    <2> QED BY <1>2, <2>1, <2>4, BaseTyped
<1>6. CASE ReadRemainder
    <2> DEFINE n == [num EXCEPT !.cur = @ + BaseValue[Word(at)], !.after = FALSE]
    <2>1. Word(at) \in Bases /\ Advance(n)
        BY <1>6 DEF ReadRemainder, ReadsRemainder
    <2>2. Counting(n) /\ n.from = num.from
        BY <1>1, <2>1, BaseTyped DEF Counting
    <2> QED BY <1>2, <2>1, <2>2, BaseTyped
<1>7. CASE ReadBase
    <2> DEFINE n == [num EXCEPT !.cur = BaseValue[Word(at)] + num.mod, !.mod = 0, !.used = TRUE, !.after = FALSE]
    <2>1. Word(at) \in Bases /\ Advance(n)
        BY <1>7 DEF ReadBase, ReadsBase
    <2>2. Counting(n) /\ n.from = num.from
        BY <1>1, <2>1, BaseTyped DEF Counting
    <2> QED BY <1>2, <2>1, <2>2, BaseTyped
<1>8. CASE EndNumber
    <2>1. ASSUME NEW w \in STRING \cup {"#"}, NEW n \in Int, n > 0 => w = "#", norm' = Append(norm, [word |-> w, n |-> n])
          PROVE  norm' \in Tokens
        <3> DEFINE T == [word : STRING \cup {"#"}, n : Int]
                   t == [word |-> w, n |-> n]
        <3>1. norm \in Seq(T) /\ t \in T /\ norm' = Append(norm, t)
            BY <1>1, <2>1 DEF Tokens
        <3>2. t.n > 0 => t.word = "#"
            BY <2>1
        <3>3. \A i \in DOMAIN norm : norm[i].n > 0 => norm[i].word = "#"
            BY <1>1 DEF Tokens, IsNum
        <3> HIDE DEF T, t
        <3>4. norm' \in Seq(T)
            BY <3>1
        <3>5. \A i \in DOMAIN norm' : norm'[i] = t \/ (i \in DOMAIN norm /\ norm'[i] = norm[i])
            BY <3>1
        <3>6. \A i \in DOMAIN norm' : norm'[i].n > 0 => norm'[i].word = "#"
            BY <3>2, <3>3, <3>5
        <3> QED BY <3>4, <3>6 DEF Tokens, IsNum, T
    <2>2. CASE num.used
        <3>1. norm' = Append(norm, [word |-> "#", n |-> ValueRead]) /\ num' = Fresh(at) /\ at' = at /\ heard' = heard
            BY <1>8, <2>2 DEF EndNumber
        <3>2. ValueRead \in Int
            BY <1>1 DEF ValueRead, Counting
        <3>3. norm' \in Tokens
            BY <2>1, <3>1, <3>2, Zenon
        <3> QED BY <1>1, <3>1, <3>3 DEF ReaderInv, Fresh, Counting, None
    <2>3. CASE ~num.used
        <3>1. /\ norm' = Append(norm, [word |-> heard[num.from], n |-> None])
              /\ num' = Fresh(num.from + 1) /\ at' = num.from + 1 /\ heard' = heard
              /\ num.from <= Len(heard)
            BY <1>8, <2>3 DEF EndNumber
        <3> DEFINE w == heard[num.from]
        <3>2. w \in STRING /\ None \in Int /\ (None > 0 => w = "#")
            BY <1>1, <3>1 DEF None, Counting
        <3>3. norm' = Append(norm, [word |-> w, n |-> None])
            BY <3>1
        <3> HIDE DEF w
        <3>4. norm' \in Tokens
            BY <2>1, <3>2, <3>3, Zenon
        <3> QED BY <1>1, <3>1, <3>4 DEF ReaderInv, Fresh, Counting, None
    <2> QED BY <2>2, <2>3
<1> QED BY <1>3, <1>4, <1>5, <1>6, <1>7, <1>8 DEF ReaderNext

-----------------------------------------------------------------------------
(* What words mean together, word by word.                                 *)
LEMMA AmongOneMore ==
    ASSUME NEW p \in Int, NEW j \in Int, p <= j, NEW S
    PROVE  Among(p, j, S) = Among(p, j - 1, S) \cup (IF heard[j] \in S THEN {j} ELSE {})
BY DEF Among

LEMMA TheOne == ASSUME NEW k PROVE The({k}) = k
BY DEF The

LEMMA SmallTyped == ASSUME NEW p \in Int, NEW j \in Int PROVE Below100(p, j) \in Int
<1> DEFINE mods == Among(p, j, Modifiers)
           bases == Among(p, j, Bases)
<1>1. mods # {} => heard[The(mods)] \in Modifiers
    BY DEF Among, The
<1>2. bases # {} => heard[The(bases)] \in Bases
    BY DEF Among, The
<1>3. Simple(p, j) \in Int
    BY <1>1, <1>2, BaseTyped DEF Simple
<1> QED BY <1>3 DEF Below100

LEMMA WithHundreds ==
    ASSUME NEW p \in Int, NEW j \in Int, NEW k \in Int, Among(p, j, {"sau"}) = {k}
    PROVE  /\ k = p => Below1000(p, j) = 100 * 1000 + Below100(k + 1, j)
           /\ k # p => Below1000(p, j) = 100 * Below100(p, k - 1) + Below100(k + 1, j)
<1>1. The(Among(p, j, {"sau"})) = k /\ Among(p, j, {"sau"}) # {}
    BY DEF The
<1> QED BY <1>1, Zenon DEF Below1000

LEMMA WithThousands ==
    ASSUME NEW p \in Int, NEW j \in Int, NEW k \in Int, Among(p, j, {"hazaar"}) = {k}
    PROVE  /\ k = p => Meaning(p, j) = 1000 * 1000 + Below1000(k + 1, j)
           /\ k # p => Meaning(p, j) = 1000 * Below1000(p, k - 1) + Below1000(k + 1, j)
<1>1. The(Among(p, j, {"hazaar"})) = k /\ Among(p, j, {"hazaar"}) # {}
    BY DEF The
<1> QED BY <1>1 DEF Meaning

LEMMA NoWords ==
    ASSUME NEW p \in Int
    PROVE  (\A S : Among(p, p - 1, S) = {}) /\ Below100(p, p - 1) = 0 /\ Below1000(p, p - 1) = 0
<1>1. \A S : Among(p, p - 1, S) = {}
    BY DEF Among
<1>2. Below100(p, p - 1) = 0
    BY DEF Below100
<1> QED BY <1>1, <1>2 DEF Below1000

LEMMA OneWord ==
    ASSUME NEW p \in Int
    PROVE  /\ heard[p] \in Modifiers => Below1000(p, p) = 1000 + Modifier[heard[p]]
           /\ heard[p] \in Bases => Below1000(p, p) = BaseValue[heard[p]] /\ Below100(p, p) = BaseValue[heard[p]]
           /\ heard[p] = "sau" => Below1000(p, p) = 100000
<1>1. \A S : Among(p, p, S) = IF heard[p] \in S THEN {p} ELSE {}
    BY AmongOneMore, NoWords
<1>2. CASE heard[p] \in Modifiers
    <2>1. Among(p, p, {"sau"}) = {} /\ Among(p, p, Bases) = {} /\ Among(p, p, Modifiers) = {p} /\ heard[p] \notin Bases
        BY <1>1, <1>2 DEF Modifiers, Modifier, Bases, BaseValue
    <2>2. The(Among(p, p, Modifiers)) = p /\ Among(p, p, Modifiers) # {}
        BY <2>1 DEF The
    <2>3. Simple(p, p) = Modifier[heard[p]] + 1000
        BY <2>1, <2>2 DEF Simple
    <2> QED BY <1>2, <2>1, <2>3, BaseTyped DEF Below1000, Below100, Modifiers, Modifier
<1>3. CASE heard[p] \in Bases
    <2>1. Among(p, p, {"sau"}) = {} /\ Among(p, p, Bases) = {p} /\ Among(p, p, Modifiers) = {} /\ heard[p] # "sau" /\ heard[p] \notin Modifiers
        BY <1>1, <1>3 DEF Modifiers, Modifier, Bases, BaseValue
    <2>2. Simple(p, p) = 0 + BaseValue[heard[p]]
        BY <2>1, TheOne DEF Simple
    <2> QED BY <1>3, <2>1, <2>2, BaseTyped DEF Below1000, Below100
<1>4. CASE heard[p] = "sau"
    <2>1. Among(p, p, {"sau"}) = {p} /\ heard[p] \notin Bases \cup Modifiers
        BY <1>1, <1>4 DEF Modifiers, Modifier, Bases, BaseValue
    <2>2. Below100(p + 1, p) = 0
        BY DEF Below100
    <2>3. Below1000(p, p) = 100 * 1000 + Below100(p + 1, p)
        BY <2>1, WithHundreds
    <2> QED BY <2>1, <2>2, <2>3
<1> QED BY <1>2, <1>3, <1>4

LEMMA TwoWords ==
    ASSUME NEW p \in Int, heard[p] \in Modifiers, heard[p + 1] \in Bases
    PROVE  Below1000(p, p + 1) = BaseValue[heard[p + 1]] + Modifier[heard[p]]
<1>1. \A S : Among(p, p + 1, S) = (IF heard[p] \in S THEN {p} ELSE {}) \cup (IF heard[p + 1] \in S THEN {p + 1} ELSE {})
    BY AmongOneMore, NoWords
<1>2. /\ Among(p, p + 1, {"sau"}) = {}
      /\ Among(p, p + 1, Bases) = {p + 1} /\ Among(p, p + 1, Modifiers) = {p}
    BY <1>1 DEF Modifiers, Modifier, Bases, BaseValue
<1>3. Simple(p, p + 1) = Modifier[heard[p]] + BaseValue[heard[p + 1]]
    BY <1>2, TheOne DEF Simple
<1> QED BY <1>2, <1>3, BaseTyped DEF Below1000, Below100

LEMMA Hundreds ==
    ASSUME NEW p \in Int, NEW j \in Int, p < j, Among(p, j - 1, {"sau"}) = {}, heard[j] = "sau"
    PROVE  Below1000(p, j) = 100 * Below1000(p, j - 1)
<1>1. Among(p, j, {"sau"}) = {j}
    BY AmongOneMore
<1>2. Below100(j + 1, j) = 0
    BY DEF Below100
<1>3. Below1000(p, j) = 100 * Below100(p, j - 1) + Below100(j + 1, j)
    <2>1. p # j
        OBVIOUS
    <2> QED BY <1>1, <2>1, WithHundreds
<1>4. Below100(p, j - 1) = Below1000(p, j - 1) /\ Below100(p, j - 1) \in Int
    BY SmallTyped DEF Below1000
<1> QED BY <1>2, <1>3, <1>4

LEMMA Remainders ==
    ASSUME NEW p \in Int, NEW j \in Int, p < j, Among(p, j - 1, {"sau"}) = {j - 1}, heard[j] \in Bases
    PROVE  Below1000(p, j) = Below1000(p, j - 1) + BaseValue[heard[j]]
<1>1. Among(p, j, {"sau"}) = {j - 1}
    BY AmongOneMore DEF Bases, BaseValue
<1> DEFINE head == 100 * (IF j - 1 = p THEN 1000 ELSE Below100(p, j - 1 - 1))
<1>2. head \in Int /\ j - 1 \in Int
    BY SmallTyped
<1>3. Below1000(p, j - 1) = head + Below100(j - 1 + 1, j - 1)
    BY <1>2, WithHundreds
<1>4. Below1000(p, j) = head + Below100(j - 1 + 1, j)
    BY <1>1, <1>2, WithHundreds
<1>5. Below100(j - 1 + 1, j - 1) = 0 /\ Below100(j - 1 + 1, j) = BaseValue[heard[j]]
    BY NoWords, OneWord
<1> HIDE DEF head
<1> QED BY <1>2, <1>3, <1>4, <1>5, BaseTyped

(* After word j, a number is in a part below 1000 that starts at p, and    *)
(* holds the thousands of what was said before p.                          *)
PartRead(p, j, n) ==
    /\ p <= j /\ n.cur # None /\ n.mod = 0 /\ n.cur = Below1000(p, j)
    /\ n.after /\ ~n.over => Among(p, j, {"sau"}) = {j}

Below(p, j, n) ==
    /\ Among(p, j, {"hazaar"}) = {}
    /\ \/ j = p - 1 /\ n.cur = None /\ n.mod = 0
       \/ j = p /\ heard[p] \in Modifiers /\ n.cur = None /\ n.mod = Modifier[heard[p]]
       \/ PartRead(p, j, n)

Multiplied(h, n) ==
    /\ Among(n.from, h, {"hazaar"}) = {h}
    /\ n.total = 1000 * (IF h = n.from THEN 1000 ELSE Below1000(n.from, h - 1))

Thousands(p, n) ==
    \/ p = n.from /\ n.total = 0
    \/ \E h \in n.from .. p : p = h + 1 /\ Multiplied(h, n)

Told(j, n) == \E p \in n.from .. (j + 1) : Below(p, j, n) /\ Thousands(p, n)

LEMMA WordValues ==
    /\ \A w \in Bases : BaseValue[w] \in {0, 1000, 2000, 2500, 3000, 5000, 20000, 50000, 500000}
    /\ \A w \in Modifiers : Modifier[w] \in {250, 500, -250}
    /\ \A w \in Multipliers : (w = "sau" /\ Multiplier[w] = 100) \/ (w = "hazaar" /\ Multiplier[w] = 1000)
    /\ {"sau", "hazaar"} \subseteq Multipliers /\ {"sau", "hazaar"} \cap (Bases \cup Modifiers) = {}
<1>1. \A w \in Bases : BaseValue[w] \in {0, 1000, 2000, 2500, 3000, 5000, 20000, 50000, 500000}
    BY DEF Bases, BaseValue
<1>2. \A w \in Modifiers : Modifier[w] \in {250, 500, -250}
    BY DEF Modifiers, Modifier
<1>3. \A w \in Multipliers : (w = "sau" /\ Multiplier[w] = 100) \/ (w = "hazaar" /\ Multiplier[w] = 1000)
    BY DEF Multipliers, Multiplier
<1>4. {"sau", "hazaar"} \subseteq Multipliers /\ {"sau", "hazaar"} \cap (Bases \cup Modifiers) = {}
    BY DEF Multipliers, Multiplier, Modifiers, Modifier, Bases, BaseValue
<1> QED BY <1>1, <1>2, <1>3, <1>4

LEMMA ToldIsMeant ==
    ASSUME NEW j \in Int, NEW n, Counting(n), Told(j, n), n.mod = 0
    PROVE  n.total + (IF n.cur = None THEN 0 ELSE n.cur) = Meaning(n.from, j)
<1> DEFINE i == n.from
<1>1. PICK p \in i .. (j + 1) : Below(p, j, n) /\ Thousands(p, n)
    BY DEF Told
<1>2. i \in Int /\ p \in Int /\ n.cur \in Int /\ n.total \in Int
    BY <1>1 DEF Counting
<1>3. (IF n.cur = None THEN 0 ELSE n.cur) = Below1000(p, j)
    <2>1. \A w \in Modifiers : Modifier[w] # 0
        BY WordValues
    <2> QED BY <1>1, <1>2, <2>1, NoWords DEF Below, PartRead
<1>4. Among(p, j, {"hazaar"}) = {}
    BY <1>1 DEF Below
<1>5. CASE p = i /\ n.total = 0
    BY <1>2, <1>3, <1>4, <1>5 DEF Meaning, None
<1>6. ASSUME NEW h \in i .. p, p = h + 1, Multiplied(h, n)
      PROVE  n.total + Below1000(p, j) = Meaning(i, j)
    <2>1. h \in Int /\ i <= h /\ h <= j
        BY <1>1, <1>2, <1>6
    <2>2. Among(i, j, {"hazaar"}) = Among(i, h, {"hazaar"}) \cup Among(p, j, {"hazaar"})
        BY <1>2, <1>6, <2>1 DEF Among
    <2>3. Among(i, j, {"hazaar"}) = {h}
        BY <1>4, <1>6, <2>2 DEF Multiplied
    <2>4. Meaning(i, j) = 1000 * (IF h = i THEN 1000 ELSE Below1000(i, h - 1)) + Below1000(p, j)
        BY <1>2, <1>6, <2>1, <2>3, WithThousands
    <2> QED BY <1>6, <2>4 DEF Multiplied
<1> QED BY <1>1, <1>3, <1>5, <1>6 DEF Thousands

(* Each word read keeps that, as long as no multiplier is repeated.        *)
LEMMA ToldStep ==
    ASSUME ReaderInv, Once(num.from, at), Told(at - 1, num),
           ReadModifier \/ ReadPart \/ ReadMultiplier \/ ReadRemainder \/ ReadBase
    PROVE  Told(at, num')
<1> DEFINE i == num.from
           w == heard[at]
<1>1. Counting(num) /\ i \in Int /\ at \in Int /\ num.cur \in Int /\ num.mod \in Int /\ num.total \in Int
    BY HeardIs DEF ReaderInv, Counting
<1>2. PICK p \in i .. (at - 1 + 1) : Below(p, at - 1, num) /\ Thousands(p, num)
    BY DEF Told
<1>3. /\ at \in DOMAIN heard /\ Word(at) = w
      /\ w \in Bases \cup Modifiers \cup Multipliers
    BY BaseTyped DEF Word, ReadModifier, ReadsModifier, ReadPart, ReadsPart, Fits, ReadMultiplier, ReadsMultiplier,
        ReadRemainder, ReadsRemainder, ReadBase, ReadsBase
<1>4. p \in Int /\ i <= p /\ p <= at /\ at - 1 \in Int /\ p \in i .. (at + 1) /\ (at - 1 = p - 1 <=> at = p)
    BY <1>1, <1>2
<1>5. \A S : Among(p, at, S) = Among(p, at - 1, S) \cup (IF w \in S THEN {at} ELSE {})
    BY <1>1, <1>4, AmongOneMore
<1>6. w # "hazaar" => Among(p, at, {"hazaar"}) = {}
    BY <1>2, <1>5 DEF Below
<1>7. ASSUME NEW n, Advance(n), n.from = i, n.total = num.total, w # "hazaar",
             \/ p = at /\ w \in Modifiers /\ n.cur = None /\ n.mod = Modifier[w]
             \/ PartRead(p, at, n)
      PROVE  Told(at, num')
    <2>1. num' = n
        BY <1>7 DEF Advance
    <2>2. Below(p, at, n)
        BY <1>6, <1>7 DEF Below
    <2>3. Thousands(p, n)
        BY <1>2, <1>7 DEF Thousands, Multiplied
    <2> QED BY <1>4, <1>7, <2>1, <2>2, <2>3 DEF Told
<1>8. CASE ReadModifier
    <2> DEFINE n == [num EXCEPT !.mod = Modifier[w]]
    <2>1. w \in Modifiers /\ Advance(n) /\ num.cur = None /\ num.mod = 0
        BY <1>3, <1>8 DEF ReadModifier, ReadsModifier, Fits
    <2>2. p = at
        BY <1>2, <1>4, <2>1, WordValues DEF Below, PartRead
    <2>3. n.from = i /\ n.total = num.total /\ n.cur = None /\ n.mod = Modifier[w]
        BY <1>1, <2>1 DEF Counting
    <2> HIDE DEF n
    <2> QED BY <1>7, <2>1, <2>2, <2>3, WordValues
<1>9. CASE ReadPart
    <2> DEFINE n == [num EXCEPT !.cur = 1000 + Modifier[w], !.used = TRUE, !.over = TRUE]
    <2>1. w \in Modifiers /\ Advance(n) /\ num.cur = None /\ num.mod = 0
        BY <1>3, <1>9 DEF ReadPart, ReadsPart, Fits
    <2>2. p = at
        BY <1>2, <1>4, <2>1, WordValues DEF Below, PartRead
    <2>3. n.from = i /\ n.total = num.total /\ n.mod = 0 /\ n.cur = 1000 + Modifier[w] /\ n.over = TRUE
        BY <1>1, <2>1 DEF Counting
    <2>4. n.cur = Below1000(p, at) /\ n.cur # None
        BY <1>4, <2>1, <2>2, <2>3, OneWord, WordValues DEF None
    <2> HIDE DEF n
    <2>5. PartRead(p, at, n)
        BY <1>4, <2>3, <2>4 DEF PartRead
    <2> QED BY <1>7, <2>1, <2>3, <2>5, WordValues
<1>10. CASE ReadMultiplier
    <2> DEFINE m == Multiplier[w]
               base == IF num.cur # None THEN num.cur ELSE 1000 + num.mod
               b == [num EXCEPT !.used = TRUE, !.after = TRUE, !.mod = IF num.cur = None THEN 0 ELSE @]
               n == IF m >= 1000 THEN [b EXCEPT !.total = @ + base * m, !.cur = None] ELSE [b EXCEPT !.cur = base * m]
    <2>1. /\ w \in Multipliers /\ Advance(n) /\ ~num.over
          /\ ~(num.after /\ (num.cur = None \/ m < 1000))
        BY <1>3, <1>10 DEF ReadMultiplier, ReadsMultiplier
    <2>2. num.mod = 0 \/ num.cur = None
        BY <1>2 DEF Below, PartRead
    <2>3. b.from = i /\ b.total = num.total /\ b.cur = num.cur /\ b.mod = 0 /\ Counting(b)
        BY <1>1, <2>2 DEF Counting
    <2>4. base \in Int
        BY <1>1
    <2>5. at \in i .. at /\ i <= at
        BY <1>1, <1>2
    <2>6. \A k \in i .. (at - 1) : heard[k] = w => FALSE
        BY <1>1, <2>1, <2>5 DEF Once, Among
    <2>7. base = IF p = at THEN 1000 ELSE Below1000(p, at - 1)
        <3>1. CASE at = p /\ num.cur = None /\ num.mod = 0
            BY <3>1
        <3>2. CASE at = p + 1 /\ heard[p] \in Modifiers /\ num.cur = None /\ num.mod = Modifier[heard[p]]
            BY <1>4, <3>2, OneWord
        <3>3. CASE p < at /\ num.cur # None /\ num.mod = 0 /\ num.cur = Below1000(p, at - 1)
            BY <1>4, <3>3
        <3> QED BY <1>1, <1>2, <1>4, <3>1, <3>2, <3>3 DEF Below, PartRead
    <2>8. CASE w = "sau"
        <3>1. m = 100
            BY <2>1, <2>8, WordValues
        <3>2. n.from = i /\ n.total = num.total /\ n.mod = 0 /\ n.cur = base * 100
            BY <2>3, <3>1 DEF Counting
        <3>3. Among(p, at - 1, {"sau"}) = {}
            BY <1>1, <1>2, <1>4, <2>6, <2>8 DEF Among
        <3>4. Among(p, at, {"sau"}) = {at}
            BY <1>5, <2>8, <3>3
        <3> HIDE DEF base, b, m
        <3>5. n.cur # None
            BY <2>4, <3>2 DEF None
        <3> HIDE DEF n
        <3>6. Below1000(p, at) = base * 100
            <4>1. CASE p = at
                BY <1>4, <2>7, <2>8, <4>1, OneWord
            <4>2. CASE p # at
                <5>1. Below1000(p, at) = 100 * Below1000(p, at - 1)
                    BY <1>1, <1>4, <2>8, <3>3, <4>2, Hundreds
                <5> QED BY <2>4, <2>7, <4>2, <5>1
            <4> QED BY <4>1, <4>2
        <3>7. PartRead(p, at, n)
            BY <1>4, <3>2, <3>4, <3>5, <3>6 DEF PartRead
        <3> QED BY <1>7, <2>1, <2>8, <3>2, <3>7
    <2>9. CASE w = "hazaar"
        <3>1. m = 1000
            BY <2>1, <2>9, WordValues
        <3>2. n.from = i /\ n.total = num.total + base * 1000 /\ n.mod = 0 /\ n.cur = None
            BY <2>3, <3>1 DEF Counting
        <3>3. p = i /\ num.total = 0
            BY <1>1, <1>2, <1>4, <2>6, <2>9 DEF Thousands, Multiplied, Among
        <3>4. Among(i, at, {"hazaar"}) = {at}
            BY <1>2, <1>5, <2>9, <3>3 DEF Below
        <3>5. /\ num' = n
              /\ at + 1 \in Int /\ at \in i .. (at + 1) /\ at + 1 \in i .. (at + 1) /\ at = at + 1 - 1
            BY <1>1, <2>1, <2>5 DEF Advance
        <3> HIDE DEF base, b, m, n
        <3>6. Below(at + 1, at, n)
            BY <1>1, <3>2, <3>5, NoWords DEF Below
        <3>7. Multiplied(at, n)
            BY <2>4, <2>7, <3>2, <3>3, <3>4 DEF Multiplied
        <3>8. Thousands(at + 1, n)
            BY <3>2, <3>5, <3>7 DEF Thousands
        <3> QED BY <3>2, <3>5, <3>6, <3>8 DEF Told
    <2> QED BY <2>1, <2>8, <2>9, WordValues
<1>11. CASE ReadRemainder
    <2> DEFINE n == [num EXCEPT !.cur = @ + BaseValue[w], !.after = FALSE]
    <2>1. w \in Bases /\ Advance(n) /\ num.cur # None /\ num.after /\ ~num.over /\ BaseValue[w] < 100000 /\ num.cur % 100000 = 0
        BY <1>3, <1>11 DEF ReadRemainder, ReadsRemainder
    <2>2. p < at /\ num.mod = 0 /\ num.cur = Below1000(p, at - 1) /\ Among(p, at - 1, {"sau"}) = {at - 1}
        BY <1>1, <1>2, <1>4, <2>1 DEF Below, PartRead
    <2>3. Below1000(p, at) = num.cur + BaseValue[w]
        BY <1>1, <1>4, <2>1, <2>2, Remainders
    <2>4. num.cur + BaseValue[w] # None
        BY <1>1, <2>1, WordValues DEF None
    <2>5. n.from = i /\ n.total = num.total /\ n.mod = 0 /\ n.cur = num.cur + BaseValue[w] /\ n.after = FALSE
        BY <1>1, <2>2 DEF Counting
    <2> HIDE DEF n
    <2>6. PartRead(p, at, n)
        BY <1>4, <2>3, <2>4, <2>5 DEF PartRead
    <2> QED BY <1>7, <2>1, <2>5, <2>6, WordValues
<1>12. CASE ReadBase
    <2> DEFINE n == [num EXCEPT !.cur = BaseValue[w] + num.mod, !.mod = 0, !.used = TRUE, !.after = FALSE]
    <2>1. w \in Bases /\ Advance(n) /\ num.cur = None
        BY <1>3, <1>12 DEF ReadBase, ReadsBase
    <2>2. n.from = i /\ n.total = num.total /\ n.mod = 0 /\ n.cur = BaseValue[w] + num.mod /\ n.after = FALSE
        BY <1>1 DEF Counting
    <2>3. CASE p = at /\ num.mod = 0
        <3>1. Below1000(p, at) = BaseValue[w] /\ BaseValue[w] + num.mod = BaseValue[w] /\ BaseValue[w] # None
            BY <1>1, <2>1, <2>3, OneWord, WordValues DEF None
        <3> HIDE DEF n
        <3>2. PartRead(p, at, n)
            BY <1>4, <2>2, <3>1 DEF PartRead
        <3> QED BY <1>7, <2>1, <2>2, <3>2, WordValues
    <2>4. CASE at = p + 1 /\ heard[p] \in Modifiers /\ num.mod = Modifier[heard[p]]
        <3>1. Below1000(p, at) = BaseValue[w] + num.mod
            BY <1>4, <2>1, <2>4, TwoWords
        <3>2. BaseValue[w] + num.mod # None
            BY <2>1, <2>4, WordValues DEF None
        <3> HIDE DEF n
        <3>3. PartRead(p, at, n)
            BY <1>4, <2>2, <3>1, <3>2 DEF PartRead
        <3> QED BY <1>7, <2>1, <2>2, <3>3, WordValues
    <2> QED BY <1>1, <1>2, <1>4, <2>1, <2>3, <2>4 DEF Below, PartRead
<1> QED BY <1>8, <1>9, <1>10, <1>11, <1>12

LEMMA SameWords ==
    ASSUME heard' = heard, NEW j, NEW n
    PROVE  /\ Told(j, n)' <=> Told(j, n)
           /\ \A i : Once(i, j)' <=> Once(i, j)
<1>1. \A p, k, S : Among(p, k, S)' = Among(p, k, S)
    BY DEF Among
<1>2. \A p, k : Simple(p, k)' = Simple(p, k)
    BY <1>1 DEF Simple
<1>3. \A p, k : Below100(p, k)' = Below100(p, k)
    BY <1>2 DEF Below100
<1>4. \A p, k : Below1000(p, k)' = Below1000(p, k)
    BY <1>1, <1>3 DEF Below1000
<1>5. \A p : (Below(p, j, n)' <=> Below(p, j, n)) /\ (Thousands(p, n)' <=> Thousands(p, n))
    BY <1>1, <1>4 DEF Below, PartRead, Thousands, Multiplied
<1>6. Told(j, n)' <=> Told(j, n)
    BY <1>5 DEF Told
<1>7. \A i : Once(i, j)' <=> Once(i, j)
    BY <1>1 DEF Once
<1> QED BY <1>6, <1>7

AsMeant == Once(num.from, at - 1) => Told(at - 1, num)

LEMMA NothingRead ==
    ASSUME NEW i \in Int
    PROVE  Told(i - 1, Fresh(i))
<1> DEFINE n == Fresh(i)
<1>1. n.from = i /\ n.total = 0 /\ n.cur = None /\ n.mod = 0
    BY DEF Fresh
<1>2. Below(i, i - 1, n) /\ Thousands(i, n)
    BY <1>1, NoWords DEF Below, Thousands
<1>3. i \in i .. (i - 1 + 1)
    OBVIOUS
<1> HIDE DEF n
<1> QED BY <1>1, <1>2, <1>3 DEF Told, n

LEMMA ReadsOn ==
    ASSUME ReaderInv, ReadModifier \/ ReadPart \/ ReadMultiplier \/ ReadRemainder \/ ReadBase
    PROVE  at' = at + 1 /\ num'.from = num.from /\ heard' = heard
<1>1. Counting(num)
    BY DEF ReaderInv
<1>2. \A n : Advance(n) /\ n.from = num.from => at' = at + 1 /\ num'.from = num.from /\ heard' = heard
    BY DEF Advance
<1>3. CASE ReadMultiplier
    <2> DEFINE m == Multiplier[Word(at)]
               base == IF num.cur # None THEN num.cur ELSE 1000 + num.mod
               b == [num EXCEPT !.used = TRUE, !.after = TRUE, !.mod = IF num.cur = None THEN 0 ELSE @]
               n == IF m >= 1000 THEN [b EXCEPT !.total = @ + base * m, !.cur = None] ELSE [b EXCEPT !.cur = base * m]
    <2>1. Advance(n)
        BY <1>3 DEF ReadMultiplier
    <2>2. b.from = num.from /\ DOMAIN b = DOMAIN num
        BY <1>1 DEF Counting
    <2> HIDE DEF b
    <2>3. n.from = num.from
        BY <1>1, <2>2 DEF Counting
    <2> HIDE DEF n
    <2> QED BY <1>2, <2>1, <2>3
<1>4. CASE ReadModifier \/ ReadPart \/ ReadRemainder \/ ReadBase
    BY <1>1, <1>2, <1>4 DEF ReadModifier, ReadPart, ReadRemainder, ReadBase, Counting
<1> QED BY <1>3, <1>4

LEMMA AsMeantStep ==
    ASSUME ReaderInv, AsMeant, ReaderNext
    PROVE  AsMeant'
<1>1. at \in Int /\ num.from \in Int /\ heard \in Utterances
    BY HeardIs DEF ReaderInv
<1>2. PICK n : n = num'
    OBVIOUS
<1>3. PICK a : a = at'
    OBVIOUS
<1>4. CASE EndNumber
    <2>1. PICK i \in Int : a = i /\ n = Fresh(i) /\ heard' = heard
        BY <1>1, <1>2, <1>3, <1>4 DEF EndNumber
    <2>2. Told(a - 1, n)
        BY <2>1, NothingRead
    <2>3. Told(a - 1, n)'
        BY <2>1, <2>2, SameWords
    <2> QED BY <1>2, <1>3, <2>3 DEF AsMeant
<1>5. CASE ReadModifier \/ ReadPart \/ ReadMultiplier \/ ReadRemainder \/ ReadBase
    <2>1. a = at + 1 /\ n.from = num.from /\ heard' = heard
        BY <1>2, <1>3, <1>5, ReadsOn
    <2>2. ASSUME Once(n.from, a - 1)'
          PROVE  Told(a - 1, n)'
        <3>1. a - 1 = at
            BY <1>1, <2>1
        <3> DEFINE i == n.from
                   j == a - 1
        <3>2. Once(i, j)' <=> Once(i, j)
            <4> HIDE DEF i, j
            <4> QED BY <2>1, SameWords
        <3>3. Once(num.from, at)
            BY <2>1, <2>2, <3>1, <3>2
        <3>4. Once(num.from, at - 1)
            BY <1>1, <3>3 DEF Once, Among
        <3>5. Told(at, n)
            BY <1>2, <1>5, <3>3, <3>4, ToldStep DEF AsMeant
        <3> QED BY <2>1, <3>1, <3>5, SameWords
    <2> QED BY <1>2, <1>3, <2>2 DEF AsMeant
<1> QED BY <1>4, <1>5 DEF ReaderNext

LEMMA InvAsMeant == AsMeant /\ ReaderInv => ReadsAsSaid
<1> SUFFICES ASSUME AsMeant, ReaderInv, num.used, num.mod = 0, Once(num.from, at - 1)
             PROVE  ValueRead = Meaning(num.from, at - 1)
    BY DEF ReadsAsSaid
<1>1. at - 1 \in Int /\ Counting(num) /\ Told(at - 1, num)
    BY HeardIs DEF ReaderInv, AsMeant
<1> QED BY <1>1, ToldIsMeant DEF ValueRead

-----------------------------------------------------------------------------
(* A command is what the rules made of the sentence that was read, or what *)
(* a model's answer became.                                                *)
UnderstandingInv ==
    /\ ReaderInv
    /\ mode \in Modes
    /\ stage \in {"reading", "numbers", "rules", "llm", "done", "raised"}
    /\ provider \in 0 .. Providers /\ attempt \in 0 .. Retries
    /\ stage = "numbers" => parts = [c |-> CustomerSpan(norm)]
    /\ stage \in {"rules", "llm", "done"} => parts = Attach(norm, CustomerSpan(norm))
    /\ stage \in {"llm", "done"} => rules = Classify(norm, parts.c, parts.n) /\ Valid(rules)
    /\ IF stage = "done" THEN command = rules \/ Answered ELSE command = Unparsed
    /\ stage = "llm" => provider > 0

LEMMA UnderstandingStarts == Init => UnderstandingInv
<1> SUFFICES ASSUME Init PROVE UnderstandingInv
    OBVIOUS
<1>1. ReaderInv
    BY ReaderStarts DEF Init
<1> QED BY <1>1, UnderstandingAssumption DEF Init, UnderstandingInv, Retries

LEMMA SameMerge ==
    ASSUME norm' = norm, rules' = rules, NEW x
    PROVE  Merge(Ground(x))' = Merge(Ground(x))
<1>1. Heard' = Heard /\ NumbersIn' = NumbersIn
    BY DEF Heard, Words, NumbersIn, Numerals
<1>2. \A m : Spanned(m)' <=> Spanned(m)
    BY <1>1 DEF Spanned
<1>3. Ground(x)' = Ground(x)
    BY <1>1, <1>2 DEF Ground
<1>4. \A y : RulesOwnNumbers(y)' = RulesOwnNumbers(y)
    BY DEF RulesOwnNumbers
<1>5. \A y : RulesOwnType(y)' = RulesOwnType(y)
    BY <1>1 DEF RulesOwnType
<1>6. \A y : Merge(y)' = Merge(y)
    BY <1>4, <1>5 DEF Merge, WithoutNumbers
<1> QED BY <1>3, <1>6

LEMMA UnderstandingStep ==
    ASSUME UnderstandingInv, [Next]_vars
    PROVE  UnderstandingInv'
<1> DEFINE Kept == UNCHANGED readerVars
<1>1. ASSUME Kept PROVE ReaderInv'
    BY <1>1 DEF readerVars, ReaderInv, UnderstandingInv, Counting
<1>2. CASE Read
    <2>1. ReaderInv'
        BY <1>2, ReaderStep DEF Read, UnderstandingInv
    <2> QED BY <1>2, <2>1 DEF Read, parserVars, UnderstandingInv
<1>3. CASE AttachCustomer \/ AttachNumbers
    <2>1. ReaderInv' /\ norm' = norm
        BY <1>1, <1>3 DEF AttachCustomer, AttachNumbers, readerVars
    <2>2. CASE AttachCustomer
        BY <2>1, <2>2 DEF AttachCustomer, UnderstandingInv
    <2>3. CASE AttachNumbers
        BY <2>1, <2>3 DEF AttachNumbers, UnderstandingInv
    <2> QED BY <1>3, <2>2, <2>3
<1>4. CASE ApplyRules
    <2>1. ReaderInv' /\ norm' = norm
        BY <1>1, <1>4 DEF ApplyRules, readerVars
    <2>2. parts' = parts /\ mode' = mode /\ attempt' = attempt /\ stage = "rules"
          /\ rules' = Classify(norm, parts.c, parts.n)
        BY <1>4 DEF ApplyRules
    <2>3. CASE ~Valid(rules')
        BY <1>4, <2>1, <2>2, <2>3 DEF ApplyRules, UnderstandingInv
    <2>4. CASE Valid(rules')
        <3>1. Valid(rules)' /\ Providers \in Nat
            BY <2>4, UnderstandingAssumption DEF Valid
        <3> QED BY <1>4, <2>1, <2>2, <2>4, <3>1 DEF ApplyRules, UnderstandingInv
    <2> QED BY <2>3, <2>4
<1>5. CASE Extract
    <2>1. ReaderInv' /\ norm' = norm
        BY <1>1, <1>5 DEF Extract, readerVars
    <2>2. UNCHANGED <<mode, parts, rules, provider, attempt>> /\ stage = "llm" /\ stage' = "done"
        BY <1>5 DEF Extract
    <2>3. PICK x \in Extractions : command' = Merge(Ground(x))
        BY <1>5 DEF Extract
    <2>4. Merge(Ground(x))' = Merge(Ground(x))
        BY <2>1, <2>2, SameMerge
    <2>5. Answered'
        BY <2>3, <2>4 DEF Answered
    <2>6. Valid(rules)'
        BY <2>2 DEF UnderstandingInv, Valid
    <2> QED BY <2>1, <2>2, <2>5, <2>6 DEF UnderstandingInv
<1>6. CASE RetryModel
    <2>1. ReaderInv' /\ norm' = norm
        BY <1>1, <1>6 DEF RetryModel, readerVars
    <2> QED BY <1>6, <2>1 DEF RetryModel, UnderstandingInv, Retries, Valid
<1>7. CASE GiveUpModel
    <2>1. ReaderInv' /\ norm' = norm
        BY <1>1, <1>7 DEF GiveUpModel, readerVars
    <2> QED BY <1>7, <2>1, UnderstandingAssumption DEF GiveUpModel, UnderstandingInv, Retries, Valid
<1>8. CASE UNCHANGED vars
    <2>1. ReaderInv' /\ norm' = norm /\ rules' = rules /\ command' = command
        BY <1>1, <1>8 DEF vars, readerVars
    <2>2. Answered => Answered'
        BY <2>1, SameMerge DEF Answered
    <2> QED BY <1>8, <2>1, <2>2 DEF vars, UnderstandingInv, Valid
<1> QED BY <1>2, <1>3, <1>4, <1>5, <1>6, <1>7, <1>8 DEF Next

LEMMA UnderstandingAlways == Spec => []UnderstandingInv
BY UnderstandingStarts, UnderstandingStep, PTL DEF Spec

LEMMA DoneIsKnown ==
    ASSUME UnderstandingInv, Done
    PROVE  Known /\ Valid(rules)
BY DEF UnderstandingInv, ReaderInv, Done, Known, Classified

-----------------------------------------------------------------------------
(* A command has the types, the flags and the limits that models.py gives  *)
(* it, and the reader stays in the sentence.                               *)
LEMMA RulesTyped ==
    ASSUME Classified
    PROVE  /\ rules.type \in TxTypes \cup {Nothing} /\ rules.question \in BOOLEAN
           /\ rules.flags \subseteq {"EXTRA_NUMBERS", "MULTIPLE_ITEMS", "UNSUPPORTED"}
<1>1. \A r : TypeOf(r) \in TxTypes \cup {Nothing}
    BY DEF TypeOf, TxTypes
<1>2. Flags(norm, Customer, Got, HasProduct) \subseteq {"EXTRA_NUMBERS", "MULTIPLE_ITEMS", "UNSUPPORTED"}
    BY DEF Flags
<1> QED BY <1>1, <1>2, RulesAre DEF Unparsed

LEMMA InvTyped == UnderstandingInv => TypeOK
<1> SUFFICES ASSUME UnderstandingInv PROVE TypeOK
    OBVIOUS
<1>1. CASE stage # "done"
    <2>1. command = Unparsed
        BY <1>1 DEF UnderstandingInv
    <2>2. \A max : Absent \in UpTo(max)
        BY DEF UpTo, Absent
    <2> QED BY <2>1, <2>2 DEF TypeOK, UnderstandingInv, ReaderInv, Unparsed
<1>2. CASE stage = "done"
    <2>1. Known /\ Valid(rules)
        BY <1>2, DoneIsKnown DEF Done
    <2>2. /\ rules.quantity \in UpTo(MaxQuantity)
          /\ rules.total \in UpTo(MaxTotal) /\ rules.price \in UpTo(MaxPrice)
        BY <2>1, RulesNumbers, UnderstandingAssumption DEF Known, Valid, UpTo, Absent
    <2>3. CASE command = rules
        BY <2>1, <2>2, <2>3, RulesTyped DEF Known, TypeOK, UnderstandingInv, ReaderInv
    <2>4. ASSUME NEW x \in Extractions, command = Merge(Ground(x)) PROVE TypeOK
        <3>1. /\ x.quantity \in UpTo(MaxQuantity)
              /\ x.total \in UpTo(MaxTotal) /\ x.price \in UpTo(MaxPrice)
            BY UnderstandingAssumption DEF Extraction
        <3>2. \A r \in Roles : command[r] \in {Absent, rules[r], x[r]}
            BY <2>1, <2>4, MergedNumbers DEF Known
        <3>3. /\ command.quantity \in UpTo(MaxQuantity)
              /\ command.total \in UpTo(MaxTotal) /\ command.price \in UpTo(MaxPrice)
            BY <2>2, <3>1, <3>2 DEF Roles, UpTo, Absent
        <3>4. /\ command.type \in TxTypes \cup {Nothing} /\ command.question \in BOOLEAN
              /\ command.flags \subseteq {"EXTRA_NUMBERS", "MULTIPLE_ITEMS", "UNSUPPORTED"}
            BY <2>1, <2>4, RulesTyped, MergedRest DEF Known
        <3> QED BY <3>3, <3>4 DEF TypeOK, UnderstandingInv, ReaderInv
    <2> QED BY <2>1, <2>3, <2>4 DEF Known, Answered
<1> QED BY <1>1, <1>2

THEOREM UnderstandingTypeCorrect == Spec => []TypeOK
BY UnderstandingAlways, InvTyped, PTL

(* llm_parser.py:3: whatever the models answer, the numbers and mentions   *)
(* of a command were said, save the quantity that the rules added up.      *)
THEOREM NothingInvented == Spec => []Grounded
<1>1. UnderstandingInv => Grounded
    BY DoneIsKnown, KnownGrounded DEF Grounded
<1> QED BY <1>1, UnderstandingAlways, PTL

(* parser.py:57: a number has no more roles than it was said times,        *)
(* whatever roles a model gives it.                                        *)
THEOREM OneRoleANumber == Spec => []OneRole
<1>1. UnderstandingInv => OneRole
    BY DoneIsKnown, KnownOneRole DEF OneRole
<1> QED BY <1>1, UnderstandingAlways, PTL

(* rules_parser.py:3: of two counts, or more numbers than roles, none is   *)
(* kept, and the sentence is flagged.                                      *)
THEOREM TwoAreFlagged == Spec => []TwoOfAnything
<1>1. UnderstandingInv => TwoOfAnything
    BY DoneIsKnown, KnownFlagsTwo DEF TwoOfAnything
<1> QED BY <1>1, UnderstandingAlways, PTL

(* parser.py:75, rules_parser.py:165: no model makes a sale one on credit  *)
(* or for cash that was not said to be, or money paid out a repayment.     *)
THEOREM TypesAreSaid == Spec => []TypeIsSaid
<1>1. UnderstandingInv => TypeIsSaid
    BY DoneIsKnown, KnownTyped DEF TypeIsSaid
<1> QED BY <1>1, UnderstandingAlways, PTL

LEMMA AsMeantStays ==
    ASSUME UnderstandingInv, AsMeant, [Next]_vars
    PROVE  AsMeant'
<1>1. CASE Read
    BY <1>1, AsMeantStep DEF Read, UnderstandingInv
<1>2. CASE UNCHANGED readerVars
    <2>1. PICK n : n = num
        OBVIOUS
    <2>2. PICK j : j = at - 1
        OBVIOUS
    <2>3. heard' = heard /\ num' = n /\ at' - 1 = j
        BY <1>2, <2>1, <2>2 DEF readerVars
    <2> DEFINE i == n.from
    <2>4. (Told(j, n)' <=> Told(j, n)) /\ (Once(i, j)' <=> Once(i, j))
        <3> HIDE DEF i
        <3> QED BY <2>3, SameWords
    <2> QED BY <2>1, <2>2, <2>3, <2>4 DEF AsMeant
<1>3. CASE UNCHANGED vars
    BY <1>2, <1>3 DEF vars
<1> QED BY <1>1, <1>2, <1>3 DEF Next, AttachCustomer, AttachNumbers, ApplyRules, Extract, RetryModel, GiveUpModel, readerVars

(* normalize.py:97: whatever is said before and behind it, a spoken number *)
(* in which no multiplier is repeated is read as what its words mean.      *)
THEOREM NumbersReadAsSaid == Spec => []ReadsAsSaid
<1>1. Init => AsMeant
    <2> SUFFICES ASSUME Init PROVE AsMeant
        OBVIOUS
    <2>1. at - 1 = 1 - 1 /\ num = Fresh(1)
        BY DEF Init, ReaderInit
    <2> QED BY <2>1, NothingRead DEF AsMeant
<1>2. UnderstandingInv /\ AsMeant /\ [Next]_vars => AsMeant'
    BY AsMeantStays
<1>3. UnderstandingInv /\ AsMeant => ReadsAsSaid
    BY InvAsMeant DEF UnderstandingInv
<1> QED BY <1>1, <1>2, <1>3, UnderstandingAlways, PTL DEF Spec
=============================================================================
