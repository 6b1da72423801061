----------------------------- MODULE RulesParser -----------------------------
(***************************************************************************)
(* app/domain/rules_parser.py: what the rules understand of a normalized   *)
(* sentence, a sequence of [word, n] in which n is a number in thousandths *)
(* for the word "#" and None for every other.                              *)
(*                                                                         *)
(* A mention is the set of its words, empty for none.                      *)
(***************************************************************************)
EXTENDS Integers, Sequences, FiniteSets, FiniteSetsExt

CONSTANT Vocabulary     \* the words of the shop's products

Absent == -1            \* None, of a number
Nothing == "none"       \* None, of anything else

UnitWords == {"kg", "g", "packet", "dozen"}
NameMarkers == {"ne", "ko", "se"}
Markers == NameMarkers \cup {"ka", "ke", "ki"}
Fillers == {"aaj", "bhai"}
Repay == {"chukaya", "jama"}
Arrival == {"aaya", "mila"}
PurchaseVerbs == {"kharida"}
SaleVerbs == {"liya", "diya"}
AdjustOut == {"kharab", "toot"}
Question == {"kitna"}
PriceWords == {"bhav", "rate"}
Stop == {"pe", "ka", "ke", "ki", "ko", "ne", "se", "aur", "aaj", "rupaye", "per", "gaya"} \cup PriceWords
Keywords == {"udhaar", "cash", "zyada", "kam", "nikla"} \cup Repay \cup Arrival \cup PurchaseVerbs
            \cup SaleVerbs \cup AdjustOut \cup Question

\* "0 kilo" is not a quantity.
IsNum(t) == t.n > 0
Namey(t) == ~IsNum(t) /\ t.word \notin Keywords \cup UnitWords \cup Vocabulary \cup Stop \cup Fillers

At(toks, i) == IF i \in DOMAIN toks THEN toks[i].word ELSE ""
Words(toks, S) == {toks[i].word : i \in S}
First(S) == IF S = {} THEN {} ELSE {Min(S)}

(* _customer_span: the name before the first ne, ko or se that has one; a  *)
(* second such name is another actor; else the sentence's leading words.   *)
NameBefore(toks, m) ==
    {i \in 1 .. (m - 1) :
        /\ Namey(toks[i]) /\ Namey(toks[m - 1])
        /\ \A k \in i .. (m - 1) : Namey(toks[k]) \/ toks[k].word \in Fillers}

Stops(t) == IsNum(t) \/ t.word \in Markers \cup Keywords \cup UnitWords \cup Vocabulary \cup Stop

LeadingName(toks) ==
    {i \in DOMAIN toks : toks[i].word \notin Fillers /\ \A k \in 1 .. i : ~Stops(toks[k])}

CustomerSpan(toks) ==
    LET marked == {m \in DOMAIN toks : toks[m].word \in NameMarkers /\ NameBefore(toks, m) # {}}
        lead == LeadingName(toks)
        breaks == {i \in DOMAIN toks : Stops(toks[i])} IN
    IF marked # {}
    THEN [span |-> NameBefore(toks, Min(marked)), marker |-> toks[Min(marked)].word,
          second |-> Cardinality(marked) > 1]
    ELSE [span |-> lead, second |-> FALSE,
          marker |-> IF lead # {} /\ breaks # {} /\ toks[Min(breaks)].word \in Markers
                     THEN toks[Min(breaks)].word ELSE Nothing]

(* A number that is not used yet: what the words after it make of it.      *)
IsPrice(toks, i) == At(toks, i + 1) = "rupaye"
Per(toks, i) ==
    LET j == IF IsPrice(toks, i) THEN i + 2 ELSE i + 1 IN
    IF At(toks, j) \in {"per", "ka", "ke"} THEN j + 1 ELSE j
IsPerUnit(toks, i) == IsPrice(toks, i) /\ At(toks, Per(toks, i)) \in UnitWords
IsAtRate(toks, i) ==
    /\ At(toks, Per(toks, i)) \in PriceWords
    /\ At(toks, Per(toks, i) - 1) \in {"per", "ka", "ke"}
IsCount(toks, i) == At(toks, i + 1) \in UnitWords
HasSubUnit(toks, i) ==
    At(toks, i + 1) = "kg" /\ i + 2 \in DOMAIN toks /\ IsNum(toks[i + 2]) /\ At(toks, i + 3) = "g"

(* Where the unit price, the quantity (a count with a unit, else a number  *)
(* alone) and the total are, in that order, each the first number that     *)
(* fits and is not used; and the words used.                               *)
Positions(toks, used0) ==
    LET free(used) == {i \in DOMAIN toks \ used : IsNum(toks[i])}
        price == First({i \in free(used0) : IsPerUnit(toks, i) \/ IsAtRate(toks, i)})
        used1 == used0 \cup UNION {i .. Per(toks, i) : i \in price}
        count == First({i \in free(used1) : IsCount(toks, i)})
        used2 == used1 \cup UNION {i .. (IF HasSubUnit(toks, i) THEN i + 3 ELSE i + 1) : i \in count}
        alone == IF count = {} THEN First({i \in free(used1) : ~IsPrice(toks, i)}) ELSE {}
        used3 == used2 \cup alone
        total == First({i \in free(used3) : IsPrice(toks, i)}) IN
    [price |-> price, count |-> count, alone |-> alone, total |-> total, counted |-> used3,
     used |-> used3 \cup UNION {{i, i + 1} : i \in total}]

Numbers(toks, used0) ==
    LET pos == Positions(toks, used0)
        unit == IF pos.count # {} THEN {i + 1 : i \in pos.count}
                ELSE IF pos.alone = {} THEN {}
                ELSE First({j \in DOMAIN toks \ pos.counted : toks[j].word \in UnitWords})
        number(S) == IF S = {} THEN Absent ELSE toks[Min(S)].n
        word(S) == IF S = {} THEN Nothing ELSE toks[Min(S)].word IN
    [price |-> number(pos.price),
     priceUnit |-> word({Per(toks, i) : i \in {k \in pos.price : IsPerUnit(toks, k)}}),
     quantity |-> number(pos.count \cup pos.alone)
                  + (IF \E i \in pos.count : HasSubUnit(toks, i)
                     THEN number({i + 2 : i \in pos.count}) \div 1000 ELSE 0),
     unit |-> word(unit), total |-> number(pos.total), used |-> pos.used]

(* What is left over is the product's words; numbers left over, and zeros, *)
(* mean that the sentence said more than was understood.  A number below   *)
(* zero ("paune 0") is neither, but a word.                                *)
Leftover(toks, used) ==
    {toks[i].word : i \in {k \in DOMAIN toks \ used : ~IsNum(toks[k])}}
        \ (Stop \cup Keywords \cup UnitWords \cup Fillers)

\* Mutant: numbers left over are dropped in silence.
MutUnread(toks, used) == {i \in DOMAIN toks : toks[i].word = "#" /\ toks[i].n = 0}
Unread(toks, used) ==
    {i \in DOMAIN toks : toks[i].word = "#" /\ (toks[i].n = 0 \/ (IsNum(toks[i]) /\ i \notin used))}

(* The first rule that applies names the type.                             *)
Rule(toks, c, n, hasProduct) ==
    LET Says(S) == Words(toks, DOMAIN toks) \cap S # {}
        moneyOnly == n.total # Absent /\ n.quantity = Absent /\ ~hasProduct
        named == c.span # {} IN
    IF Says(AdjustOut) \/ (Says({"kam"}) /\ Says({"nikla"})) THEN "lost"
    ELSE IF Says({"zyada"}) /\ Says({"nikla"}) THEN "found"
    ELSE IF moneyOnly /\ named /\ c.marker = "ko" THEN "paid out"
    ELSE IF moneyOnly /\ (named \/ Says(Repay)) THEN "repaid"
    ELSE IF Says(Repay) /\ n.quantity = Absent /\ ~hasProduct THEN "repaid"
    ELSE IF Says(Repay) /\ ~Says(SaleVerbs) /\ named /\ c.marker # "ko" THEN "repaid goods"
    ELSE IF (Says(Arrival) \/ Says(PurchaseVerbs)) /\ (~named \/ c.marker = "se") THEN "arrived"
    ELSE IF Says({"udhaar"}) THEN "credit"
    ELSE IF Says({"cash"}) THEN "cash"
    ELSE IF Says(SaleVerbs \cup PurchaseVerbs) THEN IF named THEN "sold" ELSE "cash"
    ELSE IF named /\ n.quantity # Absent /\ hasProduct THEN "sold"
    ELSE Nothing

TypeOf(rule) ==
    CASE rule \in {"lost", "found"} -> "STOCK_ADJUSTMENT"
      [] rule \in {"paid out", "repaid", "repaid goods"} -> "CREDIT_REPAYMENT"
      [] rule = "arrived" -> "INVENTORY_PURCHASE"
      [] rule = "credit" -> "CREDIT_SALE"
      [] rule = "cash" -> "CASH_SALE"
      [] rule = "sold" -> "SALE"
      [] OTHER -> Nothing

\* Mutant: money handed to a customer is a repayment like any other.
MutFlags(toks, c, n, hasProduct) ==
    IF Unread(toks, n.used) # {} THEN {"EXTRA_NUMBERS"} ELSE IF c.second THEN {"MULTIPLE_ITEMS"} ELSE {}
Flags(toks, c, n, hasProduct) ==
    LET Says(S) == Words(toks, DOMAIN toks) \cap S # {}
        counted == n.quantity # Absent
        twice == \/ c.second
                 \/ \E i \in DOMAIN toks \ n.used : IsNum(toks[i]) /\ IsCount(toks, i)
                 \/ Says(Repay) /\ Says(SaleVerbs) /\ counted /\ hasProduct
                 \/ Says({"udhaar"}) /\ Says({"cash"}) /\ ~Says(Repay) /\ (counted \/ hasProduct) IN
    (IF Unread(toks, n.used) # {} THEN {"EXTRA_NUMBERS"} ELSE {})
    \cup (IF twice THEN {"MULTIPLE_ITEMS"} ELSE {})
    \cup (IF Rule(toks, c, n, hasProduct) = "paid out" THEN {"UNSUPPORTED"} ELSE {})

\* An empty ParsedCommand.
Unparsed ==
    [type |-> Nothing, customer |-> {}, product |-> {}, quantity |-> Absent, unit |-> Nothing,
     total |-> Absent, price |-> Absent, priceUnit |-> Nothing, direction |-> Nothing,
     flags |-> {}, question |-> FALSE]

\* A half-understood sentence keeps none of its numbers.
WithoutNumbers(cmd) == [cmd EXCEPT !.quantity = Absent, !.total = Absent, !.price = Absent]

(* parse_rules, sections 1 to 4: the words the customer takes, and what the *)
(* numbers among the others are for.                                       *)
TakenBy(toks, c) ==
    c.span \cup (IF c.span # {} /\ At(toks, Max(c.span) + 1) = c.marker THEN {Max(c.span) + 1} ELSE {})
Attach(toks, c) == [c |-> c, n |-> Numbers(toks, TakenBy(toks, c))]

(* Sections 5 and 6: what is left over, the flags and the type.            *)
Classify(toks, c, n) ==
    LET product == Leftover(toks, n.used)
        hasProduct == product \cap Vocabulary # {}
        rule == Rule(toks, c, n, hasProduct)
        cmd == [Unparsed EXCEPT
                   !.type = TypeOf(rule), !.product = product,
                   !.customer = IF rule = "arrived" THEN {} ELSE Words(toks, c.span),
                   !.quantity = IF rule = "repaid goods" THEN Absent ELSE n.quantity,
                   !.unit = IF rule = "repaid goods" THEN Nothing ELSE n.unit,
                   !.total = n.total, !.price = n.price, !.priceUnit = n.priceUnit,
                   !.direction = CASE rule = "lost" -> "OUT" [] rule = "found" -> "IN" [] OTHER -> Nothing,
                   !.flags = Flags(toks, c, n, hasProduct)] IN
    IF Words(toks, DOMAIN toks) \cap Question # {}
    THEN [Unparsed EXCEPT !.question = TRUE, !.customer = Words(toks, c.span)]
    ELSE IF Unread(toks, n.used) # {} THEN WithoutNumbers(cmd) ELSE cmd
=============================================================================
