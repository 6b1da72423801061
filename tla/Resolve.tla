-------------------------------- MODULE Resolve --------------------------------
(***************************************************************************)
(* app/domain/resolve.py: from a mention to a customer or a product.       *)
(*                                                                         *)
(* A mention or name is a sequence of tokens, <<>> when there is none.     *)
(* What two spellings have in common is left to the constants: the         *)
(* phonetic skeleton of a token and the similarity scores of rapidfuzz.    *)
(* A catalog entry is identified by its name (UNIQUE per shop) and has     *)
(* [id, aliases] with the name and the aliases among its spellings.        *)
(***************************************************************************)
EXTENDS Integers, Sequences, FiniteSets, Functions, FiniteSetsExt

CONSTANTS
    Skeleton,       \* skeleton of each token
    Alike(_, _),    \* WRatio of two customer names
    Ratio(_, _),    \* ratio of a token and a one-word spelling of a product
    Near(_, _),     \* best partial_ratio of a mention's tokens and a spelling
    LongTokens      \* tokens of at least 4 characters

AskFloor == 80
AutoAccept == 88
Margin == 6
Suggest == 70

Resolved(v) == [status |-> "RESOLVED", value |-> v, candidates |-> {}]
Unresolved(s, cs) == [status |-> s, value |-> "nobody", candidates |-> cs]

Spellings(e) == e.aliases \cup {e.id}

Skel(name) == [i \in DOMAIN name |-> Skeleton[name[i]]]

Tokens(name) == Range(name)

\* "ramesh" in "ramesh kumar".
Within(m, name) == Tokens(m) \subseteq Tokens(name)

FirstNonEmpty(sets) ==
    IF \E i \in DOMAIN sets : sets[i] # {}
    THEN sets[CHOOSE i \in DOMAIN sets : sets[i] # {} /\ \A j \in 1 .. i - 1 : sets[j] = {}]
    ELSE {}

\* Mutant: similar names are hits.
MutHits(m, cs) ==
    FirstNonEmpty(<<{c \in cs : m \in Spellings(c)},
                    {c \in cs : \E n \in Spellings(c) : Alike(m, n) >= AskFloor}>>)

\* Exact, token subset, exact by sound, token subset by sound.
Hits(m, cs) ==
    FirstNonEmpty(<<{c \in cs : m \in Spellings(c)},
                    {c \in cs : \E n \in Spellings(c) : Within(m, n)},
                    {c \in cs : \E n \in Spellings(c) : Skel(m) = Skel(n)},
                    {c \in cs : \E n \in Spellings(c) : Within(Skel(m), Skel(n))}>>)

\* Offered, never assumed (the code offers the best four of them).
Offered(m, cs) ==
    {c \in cs : \E n \in Spellings(c) :
        Alike(m, n) >= AskFloor \/ Tokens(Skel(m)) \cap Tokens(Skel(n)) # {}}

ResolveCustomer(m, cs) ==
    IF m = <<>> THEN Unresolved("MISSING", {})
    ELSE LET hits == Hits(m, cs) IN
         IF Cardinality(hits) = 1 THEN Resolved(CHOOSE c \in hits : TRUE)
         ELSE IF hits # {} THEN Unresolved("AMBIGUOUS", hits)
         ELSE IF Offered(m, cs) # {} THEN Unresolved("AMBIGUOUS", Offered(m, cs))
         ELSE Unresolved("UNKNOWN", {})

-----------------------------------------------------------------------------
\* alias_map and sk_map: the products a phrase stands for.
Named(phrase, ps) == {p \in ps : phrase \in Spellings(p)}
Sounding(phrase, ps) == {p \in ps : \E n \in Spellings(p) : Skel(phrase) = Skel(n)}
Meant(phrase, ps) == FirstNonEmpty(<<Named(phrase, ps), Sounding(phrase, ps)>>)

(* The mention is cut from the left into known phrases of 3, 2 or 1 tokens; *)
(* tokens that start none are passed over.                                 *)
Groups(m, ps) ==
    LET known(i) == {n \in 1 .. 3 : i + n - 1 <= Len(m) /\ Meant(SubSeq(m, i, i + n - 1), ps) # {}}
        cut[i \in 1 .. Len(m) + 3] ==
            IF i > Len(m) THEN {}
            ELSE IF known(i) = {} THEN cut[i + 1]
            ELSE {Meant(SubSeq(m, i, i + Max(known(i)) - 1), ps)} \cup cut[i + Max(known(i))]
    IN cut[1]

(* A misspelt word is accepted when its best spelling is good and every    *)
(* spelling of anything else is clearly worse.                             *)
OneWord(ps) == {n \in UNION {Spellings(p) : p \in ps} : Len(n) = 1}

Misspelt(m, ps) ==
    {Named(n, ps) : n \in
        {n \in OneWord(ps) : \E t \in Tokens(m) \cap LongTokens :
            /\ Ratio(t, n) >= AutoAccept
            /\ \A k \in OneWord(ps) :
                /\ Ratio(t, k) <= Ratio(t, n)
                /\ Named(k, ps) # Named(n, ps) => Ratio(t, n) - Ratio(t, k) >= Margin}}

\* The best three of them in the code.
NearMisses(m, ps) == {p \in ps : \E n \in Spellings(p) : Near(m, n) >= Suggest}

ResolveProduct(m, ps) ==
    IF m = <<>> THEN Unresolved("MISSING", {})
    ELSE LET groups == FirstNonEmpty(<<Groups(m, ps), Misspelt(m, ps)>>)
             group == UNION groups IN
         IF groups = {} THEN Unresolved("UNKNOWN", NearMisses(m, ps))
         ELSE IF Cardinality(groups) > 1 THEN Unresolved("MULTIPLE", {})
         ELSE IF Cardinality(group) = 1 THEN Resolved(CHOOSE p \in group : TRUE)
         ELSE Unresolved("AMBIGUOUS", group)
=============================================================================
