---------------------------- MODULE Understanding ----------------------------
(***************************************************************************)
(* How a sentence becomes a command: app/domain/parser.py asks the rules,  *)
(* and for what they leave incomplete the language models, one after the   *)
(* other; llm_parser.py retries and grounds what a model says.             *)
(*                                                                         *)
(* A model may raise, answer something that is not a valid extraction, or  *)
(* extract any command: its contract does not bind it.  parse_rules raises *)
(* on a word like "nan", which Decimal reads and cannot compare            *)
(* (rules_parser.py:41), and on what ParsedCommand refuses (models.py:21). *)
(***************************************************************************)
EXTENDS Normalizer, RulesParser

CONSTANTS Modes,            \* PARSER_MODE
          Providers,        \* how many models are configured
          Extractions,      \* what a model may say, without flags and question
          MaxQuantity, MaxTotal, MaxPrice,  \* the most that a command may hold
          TooLong(_),       \* a mention is longer than the 80 characters it may have
          SoundsLike(_, _), \* fuzz.ratio of two words reaches 80
          Names             \* words that are names of customers

TxTypes == {"CREDIT_SALE", "CASH_SALE", "SALE", "CREDIT_REPAYMENT", "INVENTORY_PURCHASE", "STOCK_ADJUSTMENT"}

\* LLMExtraction: what model_validate lets through.
UpTo(max) == {n \in Int : n = Absent \/ n \in 1 .. max}
Extraction ==
    [type : TxTypes \cup {Nothing}, customer : SUBSET STRING, product : SUBSET STRING,
     quantity : UpTo(MaxQuantity), unit : STRING, total : UpTo(MaxTotal), price : UpTo(MaxPrice),
     priceUnit : STRING, direction : {"OUT", "IN", Nothing}, flags : {{}}, question : {FALSE}]

ASSUME UnderstandingAssumption ==
    /\ MaxQuantity \in Nat /\ MaxTotal \in Nat /\ MaxPrice \in Nat
    /\ Providers \in Nat
    /\ Extractions \subseteq Extraction

VARIABLES
    mode,       \* the setting
    stage,      \* "reading", "numbers", "rules", "llm", "done" or "raised"
    parts,      \* the words parse_rules has attached, and to what
    rules,      \* what the rules understood
    command,    \* the ParsedCommand returned
    provider,   \* the model asked, or the one that answered
    attempt     \* parse_llm's attempt

vars == <<readerVars, mode, stage, parts, rules, command, provider, attempt>>

Retries == 1

Init ==
    /\ ReaderInit
    /\ mode \in Modes
    /\ stage = "reading"
    /\ parts = Nothing
    /\ rules = Unparsed /\ command = Unparsed
    /\ provider = 0 /\ attempt = 0

-----------------------------------------------------------------------------
(* ParsedCommand.is_complete: the rules gave all that decide() needs.      *)
Complete(c) ==
    LET sold == c.product # {} /\ c.quantity # Absent IN
    /\ c.type # Nothing /\ ~c.question /\ c.flags = {}
    /\ CASE c.type = "CREDIT_REPAYMENT" -> c.customer # {} /\ c.total # Absent
         [] c.type \in {"CREDIT_SALE", "SALE"} -> c.customer # {} /\ sold
         [] OTHER -> sold

(* ground(): a number must be in the text, a mention like a span of it, a  *)
(* unit a word of it, and a total needs rupaye.                            *)
Heard == Words(norm, DOMAIN norm)
Numerals == {i \in DOMAIN norm : norm[i].word = "#" /\ norm[i].n >= 0}
NumbersIn == {norm[i].n : i \in Numerals}

Spanned(mention) == \A w \in mention : \E h \in Heard : h = w \/ SoundsLike(w, h)

\* Mutant: what the model says is taken as it is.
MutGround(x) == x
Ground(x) ==
    LET number(v) == IF v \in NumbersIn THEN v ELSE Absent
        mention(m) == IF Spanned(m) THEN m ELSE {}
        unit(u) == IF u \in Heard THEN u ELSE Nothing IN
    [x EXCEPT !.quantity = number(@), !.price = number(@),
              !.total = IF "rupaye" \in Heard THEN number(@) ELSE Absent,
              !.customer = mention(@), !.product = mention(@),
              !.unit = unit(@), !.priceUnit = unit(@)]

(* _rules_own_number_roles: a number the rules have a role for keeps it.   *)
\* Mutant: the rules fill only what the model left empty.
MutRulesOwnNumbers(c) ==
    [c EXCEPT !.quantity = IF @ = Absent THEN rules.quantity ELSE @,
              !.total = IF @ = Absent THEN rules.total ELSE @,
              !.price = IF @ = Absent THEN rules.price ELSE @]
RulesOwnNumbers(c) ==
    LET Roles == {"quantity", "total", "price"}
        relabels(role, v) ==
            \E own \in Roles \ {role} : rules[own] # Absent /\ rules[own] = v /\ rules[role] # v
        owned(role) == IF rules[role] # Absent THEN rules[role]
                       ELSE IF relabels(role, c[role]) THEN Absent ELSE c[role] IN
    [c EXCEPT !.quantity = owned("quantity"), !.total = owned("total"), !.price = owned("price"),
              !.priceUnit = IF rules.price # Absent /\ rules.priceUnit # Nothing
                            THEN rules.priceUnit ELSE @]

(* _rules_own_type: the type is a matter of keywords.                      *)
\* Mutant: a sale the rules could not type is what the model says it is.
MutRulesOwnType(c) == IF rules.type # Nothing THEN [c EXCEPT !.type = rules.type] ELSE c
RulesOwnType(c) ==
    IF rules.type # Nothing
    THEN [c EXCEPT !.type = rules.type,
                   !.direction = IF rules.direction # Nothing THEN rules.direction ELSE @]
    ELSE IF \/ c.type = "CREDIT_SALE" /\ "udhaar" \notin Heard
            \/ c.type = "CASH_SALE" /\ "cash" \notin Heard
         THEN [c EXCEPT !.type = "SALE"] ELSE c

(* parse(): what becomes of an extraction that was grounded.               *)
Merge(x) ==
    LET c == [x EXCEPT !.question = rules.question, !.flags = rules.flags,
                       !.customer = IF @ = {} THEN rules.customer ELSE @,
                       !.product = IF @ = {} THEN rules.product ELSE @] IN
    RulesOwnType(RulesOwnNumbers(IF "EXTRA_NUMBERS" \in c.flags THEN WithoutNumbers(c) ELSE c))

-----------------------------------------------------------------------------
parserVars == <<mode, parts, rules, command, provider, attempt>>

Read ==
    /\ stage = "reading"
    /\ ~Normalized /\ ReaderNext
    /\ UNCHANGED <<parserVars, stage>>

\* parse_rules: the customer, then the numbers are attached; _num has read
\* every word by then.
AttachCustomer ==
    /\ stage = "reading" /\ Normalized
    /\ stage' = "numbers"
    /\ parts' = [c |-> CustomerSpan(norm)]
    /\ UNCHANGED <<readerVars, mode, rules, command, provider, attempt>>

Raises == "nan" \in Heard
AttachNumbers ==
    /\ stage = "numbers"
    /\ \/ Raises /\ stage' = "raised" /\ UNCHANGED parts
       \/ ~Raises /\ stage' = "rules" /\ parts' = Attach(norm, parts.c)
    /\ UNCHANGED <<readerVars, mode, rules, command, provider, attempt>>

\* The rest of parse_rules, and the gate in front of the models.
Valid(c) ==
    /\ c.quantity <= MaxQuantity /\ c.total <= MaxTotal /\ c.price <= MaxPrice
    /\ ~TooLong(c.customer) /\ ~TooLong(c.product)
ApplyRules ==
    /\ stage = "rules"
    /\ rules' = Classify(norm, parts.c, parts.n)
    /\ IF ~Valid(rules')
       THEN stage' = "raised" /\ UNCHANGED <<command, provider>>
       ELSE IF mode = "rules" \/ Providers = 0 \/ (mode = "hybrid" /\ Complete(rules'))
       THEN stage' = "done" /\ command' = rules' /\ UNCHANGED provider
       ELSE stage' = "llm" /\ provider' = 1 /\ UNCHANGED command
    /\ UNCHANGED <<readerVars, mode, parts, attempt>>

\* A model extracts something.
Extract ==
    /\ stage = "llm"
    /\ \E x \in Extractions : command' = Merge(Ground(x))
    /\ stage' = "done"
    /\ UNCHANGED <<readerVars, mode, parts, rules, provider, attempt>>

\* It answers something else: it is asked once more.
RetryModel ==
    /\ stage = "llm" /\ attempt < Retries
    /\ attempt' = attempt + 1
    /\ UNCHANGED <<readerVars, mode, stage, parts, rules, command, provider>>

\* It raises, or is out of attempts: the next one is asked, and after the
\* last one what the rules understood stands.
\* Mutant: after the last model nothing is returned.
MutGiveUpModel ==
    /\ stage = "llm"
    /\ provider < Providers /\ provider' = provider + 1
    /\ attempt' = 0
    /\ UNCHANGED <<readerVars, mode, stage, parts, rules, command>>
GiveUpModel ==
    /\ stage = "llm"
    /\ IF provider < Providers
       THEN provider' = provider + 1 /\ UNCHANGED <<stage, command>>
       ELSE stage' = "done" /\ command' = rules /\ UNCHANGED provider
    /\ attempt' = 0
    /\ UNCHANGED <<readerVars, mode, parts, rules>>

Next == Read \/ AttachCustomer \/ AttachNumbers \/ ApplyRules \/ Extract \/ RetryModel \/ GiveUpModel

\* The reader is a loop, and every call of a model ends: with an answer, or
\* with an error after its timeout.
Spec ==
    /\ Init /\ [][Next]_vars
    /\ WF_vars(Read) /\ WF_vars(AttachCustomer) /\ WF_vars(AttachNumbers) /\ WF_vars(ApplyRules)
    /\ WF_vars(GiveUpModel)

-----------------------------------------------------------------------------
Done == stage = "done"
Said(n) == Cardinality({i \in Numerals : norm[i].n = n})
Sums == \E i \in DOMAIN norm : HasSubUnit(norm, i)

(* llm_parser.py:3, "every number it returns must already appear in the    *)
(* normalized text and every mention must fuzzy-match a span of it":       *)
(* nothing else reaches the command, whatever a model says, save the       *)
(* quantity the rules add up in "2 kg 500 g".                              *)
Grounded ==
    Done => /\ \A n \in {command.quantity, command.total, command.price} \ {Absent} :
                   n \in NumbersIn \/ (Sums /\ n = command.quantity /\ n = rules.quantity)
            /\ Spanned(command.customer) /\ Spanned(command.product)

(* parser.py:57, "grounding proves a number exists in the text, not what   *)
(* it means": in a transaction a number said once fills only one of        *)
(* quantity, total and unit price, whatever roles a model gives it.  Those *)
(* parse_rules drops again are not guarded: the parts of a sum, and the    *)
(* goods of a repayment.                                                   *)
Dropped == Sums \/ (rules.type = "CREDIT_REPAYMENT" /\ parts.n.quantity # Absent)
OneRole ==
    Done /\ ~command.question /\ ~Dropped =>
        \A n \in NumbersIn :
            Cardinality({r \in {"quantity", "total", "price"} : command[r] = n}) <= Said(n)

(* rules_parser.py:3, "when the sentence carries two of anything ... the   *)
(* parser flags it": two counts with units, or more numbers than there are *)
(* roles, are flagged, and then no number is kept, whoever answered.       *)
TwoOfAnything ==
    Done /\ ~command.question =>
        LET counts == {i \in Numerals : norm[i].n > 0 /\ IsCount(norm, i)
                                        /\ ~(i > 2 /\ i - 2 \in Numerals /\ At(norm, i - 1) = "kg" /\ At(norm, i + 1) = "g")}
        IN (Cardinality(counts) > 1 \/ Cardinality(Numerals) > 4)
           => /\ command.flags # {}
              /\ command.quantity = Absent /\ command.total = Absent /\ command.price = Absent

(* parser.py:75, "paise baad mein dega is not a payment mode", and          *)
(* rules_parser.py:165, "money handed to a customer: not a repayment", as   *)
(* it would lower a debt that grew: a sale on credit, or one for cash to a *)
(* named customer, has its keyword, and what the rules take for money paid *)
(* to a customer is flagged.                                               *)
TypeIsSaid ==
    Done =>
        /\ command.type = "CREDIT_SALE" => "udhaar" \in Heard
        /\ command.type = "CASH_SALE" /\ rules.customer # {} => "cash" \in Heard
        /\ rules.type = "CREDIT_REPAYMENT" /\ command.total # Absent
            /\ (\E m \in DOMAIN norm : norm[m].word = "ko" /\ NameBefore(norm, m) # {})
            /\ (\A m \in DOMAIN norm : norm[m].word \in {"ne", "se"} => NameBefore(norm, m) = {})
                => command.flags # {}

(* rules_parser.py:3, "two customers": every name that the sentence has    *)
(* before its first marker and product is in the customer, or the sentence *)
(* is flagged.                                                             *)
TwoCustomers ==
    Done /\ ~command.question /\ Cardinality(Heard \cap Names) > 1 => command.flags # {}

(* parser.py:50: whatever the models do, every sentence gets an answer, or *)
(* is refused.                                                             *)
EverySentenceEnds == <>(stage \in {"done", "raised"})

(* Positions stay in the sentence, and a command has the types and the     *)
(* fields that ParsedCommand allows (models.py:18), with no amount above   *)
(* the most it may hold.                                                   *)
TypeOK ==
    /\ heard \in Utterances
    /\ at \in 1 .. (Len(heard) + 1) /\ num.from \in 1 .. (Len(heard) + 1)
    /\ mode \in Modes
    /\ stage \in {"reading", "numbers", "rules", "llm", "done", "raised"}
    /\ command.type \in TxTypes \cup {Nothing} /\ command.question \in BOOLEAN
    /\ command.flags \subseteq {"EXTRA_NUMBERS", "MULTIPLE_ITEMS", "UNSUPPORTED"}
    /\ command.quantity \in UpTo(MaxQuantity)
    /\ command.total \in UpTo(MaxTotal) /\ command.price \in UpTo(MaxPrice)
    /\ provider \in 0 .. Providers /\ attempt \in 0 .. Retries
=============================================================================
