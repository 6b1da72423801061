------------------------------ MODULE Normalizer ------------------------------
(***************************************************************************)
(* The spoken numbers of app/domain/normalize.py: a left-to-right reader   *)
(* turns runs of number words into numbers and copies every other word.    *)
(* Each branch of the loop of _read_number is an action.                   *)
(*                                                                         *)
(* The words are canonical already (NFC, CANON, digits split from words).  *)
(* A number is in thousandths, and a normalized sentence is a sequence of  *)
(* [word, n]: a word, or "#" with the number n.                            *)
(***************************************************************************)
EXTENDS Integers, Sequences, FiniteSets

CONSTANT Utterances     \* what may be said

ASSUME UtterancesAssumption == Utterances \subseteq Seq(STRING)

None == -1

\* NUMBER_WORDS, FRACTIONS and digits; MODIFIERS; MULTIPLIERS: one word for each
\* value that the reader treats alike.
BaseValue ==
    [w \in {"ek", "do", "teen", "paanch", "bees", "pachas", "dhai", "0", "2", "500"} |->
        CASE w = "ek" -> 1000 [] w \in {"do", "2"} -> 2000 [] w = "teen" -> 3000 [] w = "paanch" -> 5000
          [] w = "bees" -> 20000 [] w = "pachas" -> 50000 [] w = "dhai" -> 2500
          [] w = "500" -> 500000 [] OTHER -> 0]
Modifier == [sawa |-> 250, saade |-> 500, paune |-> -250]
Multiplier == [sau |-> 100, hazaar |-> 1000]
ContextOnly == {"do"}
Units == {"kg", "g", "packet", "dozen"}

Bases == DOMAIN BaseValue
Modifiers == DOMAIN Modifier
Multipliers == DOMAIN Multiplier

VARIABLES
    heard,      \* the words
    at,         \* the word the reader looks at
    num,        \* the number being read
    norm        \* the normalized sentence so far

readerVars == <<heard, at, num, norm>>

(* _read_number's locals, from the word it started at; mod is 0 for None.  *)
Fresh(i) == [from |-> i, total |-> 0, cur |-> None, mod |-> 0, used |-> FALSE, after |-> FALSE, over |-> FALSE]

ReaderInit ==
    /\ heard \in Utterances
    /\ at = 1
    /\ num = Fresh(1)
    /\ norm = <<>>

Word(i) == IF i \in DOMAIN heard THEN heard[i] ELSE "end"

NumericContext == Word(at + 1) \in Units \cup Multipliers \cup {"rupaye"}

Advance(n) == num' = n /\ at' = at + 1 /\ UNCHANGED <<heard, norm>>

Fits(t) == t \in Modifiers /\ num.cur = None /\ num.mod = 0

\* "saade teen", "sawa sau".
ReadsModifier ==
    Fits(Word(at)) /\ Word(at + 1) \in Bases \cup Multipliers
ReadModifier ==
    /\ ~num.over /\ ReadsModifier
    /\ Advance([num EXCEPT !.mod = Modifier[Word(at)]])

\* "sawa kilo" is 1.25 kg, and ends the number.
ReadsPart == Fits(Word(at)) /\ Word(at + 1) \in Units
ReadPart ==
    /\ ~num.over /\ ReadsPart
    /\ Advance([num EXCEPT !.cur = 1000 + Modifier[Word(at)], !.used = TRUE, !.over = TRUE])

\* "teen sau", "sau", "sawa sau"; "sau sau" is two numbers.
ReadsMultiplier ==
    /\ Word(at) \in Multipliers
    /\ ~(num.after /\ (num.cur = None \/ Multiplier[Word(at)] < 1000))
\* Mutant: the base of a multiplier is kept and added once more.
MutReadMultiplier ==
    /\ ~num.over /\ ReadsMultiplier
    /\ LET m == Multiplier[Word(at)]
           base == IF num.cur # None THEN num.cur ELSE 1000 + num.mod
           n == [num EXCEPT !.used = TRUE, !.after = TRUE,
                            !.mod = IF num.cur = None THEN 0 ELSE @] IN
       Advance(IF m >= 1000 THEN [n EXCEPT !.total = @ + base * m]
               ELSE [n EXCEPT !.cur = base * m])
ReadMultiplier ==
    /\ ~num.over /\ ReadsMultiplier
    /\ LET m == Multiplier[Word(at)]
           base == IF num.cur # None THEN num.cur ELSE 1000 + num.mod
           n == [num EXCEPT !.used = TRUE, !.after = TRUE,
                            !.mod = IF num.cur = None THEN 0 ELSE @] IN
       Advance(IF m >= 1000 THEN [n EXCEPT !.total = @ + base * m, !.cur = None]
               ELSE [n EXCEPT !.cur = base * m])

\* "ek sau bees" is 120.
ReadsRemainder ==
    /\ Word(at) \in Bases
    /\ num.cur # None /\ num.after /\ BaseValue[Word(at)] < 100000 /\ num.cur % 100000 = 0
ReadRemainder ==
    /\ ~num.over /\ ReadsRemainder
    /\ Advance([num EXCEPT !.cur = @ + BaseValue[Word(at)], !.after = FALSE])

\* "do" is two only before a unit, a multiplier or rupaye.
ReadsBase ==
    /\ Word(at) \in Bases /\ num.cur = None
    /\ Word(at) \in ContextOnly => NumericContext
ReadBase ==
    /\ ~num.over /\ ReadsBase
    /\ Advance([num EXCEPT !.cur = BaseValue[Word(at)] + num.mod, !.mod = 0,
                           !.used = TRUE, !.after = FALSE])

Reads == ReadsModifier \/ ReadsPart \/ ReadsMultiplier \/ ReadsRemainder \/ ReadsBase

ValueRead == num.total + IF num.cur = None THEN 0 ELSE num.cur

\* Mutant: the word that ended a number is skipped.
MutEndNumber ==
    /\ num.from <= Len(heard)
    /\ num.over \/ ~Reads
    /\ \/ /\ num.used
          /\ norm' = Append(norm, [word |-> "#", n |-> ValueRead])
          /\ num' = Fresh(at + 1)
          /\ UNCHANGED at
       \/ /\ ~num.used
          /\ norm' = Append(norm, [word |-> heard[num.from], n |-> None])
          /\ num' = Fresh(num.from + 1)
          /\ at' = num.from + 1
    /\ UNCHANGED heard
\* The number ends; without one the word it started at is copied.
EndNumber ==
    /\ num.from <= Len(heard)
    /\ num.over \/ ~Reads
    /\ \/ /\ num.used
          /\ norm' = Append(norm, [word |-> "#", n |-> ValueRead])
          /\ num' = Fresh(at)
          /\ UNCHANGED at
       \/ /\ ~num.used
          /\ norm' = Append(norm, [word |-> heard[num.from], n |-> None])
          /\ num' = Fresh(num.from + 1)
          /\ at' = num.from + 1
    /\ UNCHANGED heard

ReaderNext == ReadModifier \/ ReadPart \/ ReadMultiplier \/ ReadRemainder \/ ReadBase \/ EndNumber

Normalized == num.from > Len(heard)

-----------------------------------------------------------------------------
(* What the words from i to j mean together: a modifier changes the number *)
(* behind it, or one; a multiplier multiplies what is before it, or one,   *)
(* and what is behind it is added.                                         *)
Among(i, j, S) == {k \in i .. j : heard[k] \in S}
The(positions) == CHOOSE k \in positions : TRUE

Simple(i, j) ==
    LET mods == Among(i, j, Modifiers)
        bases == Among(i, j, Bases) IN
    (IF mods = {} THEN 0 ELSE Modifier[heard[The(mods)]])
    + (IF bases = {} THEN 1000 ELSE BaseValue[heard[The(bases)]])

Below100(i, j) == IF i > j THEN 0 ELSE Simple(i, j)
Below1000(i, j) ==
    LET saus == Among(i, j, {"sau"}) IN
    IF saus = {} THEN Below100(i, j)
    ELSE 100 * (IF The(saus) = i THEN 1000 ELSE Below100(i, The(saus) - 1)) + Below100(The(saus) + 1, j)
Meaning(i, j) ==
    LET hazaars == Among(i, j, {"hazaar"}) IN
    IF hazaars = {} THEN Below1000(i, j)
    ELSE 1000 * (IF The(hazaars) = i THEN 1000 ELSE Below1000(i, The(hazaars) - 1)) + Below1000(The(hazaars) + 1, j)

Once(i, j) == \A k, l \in Among(i, j, Multipliers) : heard[k] = heard[l] => k = l

(* normalize.py:97, "ek hazaar do sau pachas" = 1250, "saade teen sau" =   *)
(* 350: a number in which no multiplier is repeated is what was said.      *)
ReadsAsSaid ==
    num.used /\ num.mod = 0 /\ Once(num.from, at - 1) => ValueRead = Meaning(num.from, at - 1)
=============================================================================
