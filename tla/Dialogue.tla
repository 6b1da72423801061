-------------------------------- MODULE Dialogue --------------------------------
(***************************************************************************)
(* A sentence on its way to the books while the owner edits the catalog:   *)
(* decide_and_post_in of app/services/pipeline.py with its new-customer    *)
(* and new-item flows and the catalog wizards, the answers of              *)
(* app/services/confirmations.py, and app/services/catalog.py under the    *)
(* commands of app/api/telegram.py.                                        *)
(*                                                                         *)
(* One action is one transaction.  Who runs it, and what becomes of crashed *)
(* or late workers, is the subject of Pipeline; here the data is real:     *)
(* names, quantities, prices, and the draft that collects the answers.     *)
(***************************************************************************)
EXTENDS Decide, Resolve

CONSTANTS
    Msgs,
    InitCustomers, InitProducts,    \* the tables at the start
    Sentences,                      \* what the parser may make of a message
    Wizards,                        \* overrides of /add_customer and /add_product
    Amounts,                        \* numbers in typed answers
    NameAnswers,                    \* names in typed answers
    Commands,                       \* the owner's catalog commands
    MaxCommands                     \* bound: commands given

\* Whatever may be enrolled is a row, known or not; <<>> is no mention.
Names == DOMAIN InitCustomers
Mentions == Names \cup {<<>>}
Number == Nat \cup {None}

CustomerRow == [id : Names, known : BOOLEAN, active : BOOLEAN, aliases : SUBSET Mentions]
ProductRow == [id : Names, known : BOOLEAN, active : BOOLEAN, aliases : SUBSET Mentions,
               unit : BaseUnits, price : Number]

\* UNIQUE (shop_id, name).
Table(t, row) == t \in [Names -> row] /\ \A n \in Names : t[n].id = n

Types == NeedsCustomer \cup NeedsProduct

Sentence == [type : Types \cup {Nobody}, customer : Mentions, product : Mentions,
             qty : Number, unit : Units \cup {Nobody}, total : Number, price : Number,
             priceUnit : Units \cup {Nobody}, direction : {"IN", "OUT", Nobody},
             flags : SUBSET {"multiple", "question", "unsupported"}]

Overrides == [customer : Names \cup {Nobody}, product : Names \cup {Nobody},
              payment : {"CREDIT", "CASH", Nobody}, large : BOOLEAN,
              price : Number, qty : Number, total : Number,
              newCustomer : Mentions, newProduct : Mentions, newUnit : BaseUnits \cup {Nobody},
              newPrice : Number, catalogOnly : {"no", "customer", "product"}]

ASSUME DialogueAssumption ==
    /\ ConfirmAbove \in Nat /\ MaxCommands \in Nat
    /\ IsFiniteSet(Names) /\ Names \subseteq Seq(DOMAIN Skeleton) \ {<<>>}
    /\ Nobody \notin Names /\ Nobody \notin Units \cup Types \cup {"CREDIT", "CASH", "IN", "OUT"}
    /\ Table(InitCustomers, CustomerRow) /\ Table(InitProducts, ProductRow)
    /\ Sentences \subseteq Sentence /\ Wizards \subseteq Overrides
    /\ \A o \in Wizards : o.catalogOnly # "no" /\ o.customer = Nobody /\ o.product = Nobody
    /\ Amounts \subseteq Nat /\ NameAnswers \subseteq Names
    /\ \A c \in Commands :
        /\ c.words \in Names
        /\ c.cmd = "/alias" => c.alias \in Names
        /\ c.cmd \in {"/price", "/add_product"} => c.price \in Nat
        /\ c.cmd = "/add_product" => c.unit \in BaseUnits

VARIABLES
    customers,  \* name -> [id, known, active, aliases], the name as id
    products,   \* name -> [id, known, active, aliases, unit, price]
    status,     \* messages.status
    parsed,     \* messages.parsed
    draft,      \* pending_actions.draft of the latest question, or what was decided with
    question,   \* the latest question: [reason, open, candidates]
    entry,      \* the transactions row of each message
    answered,   \* history: reasons usably answered
    touched,    \* history: the catalog changed since the message was heard
    taught,     \* history: what was said for an item, and the near miss that was picked for it
    commands    \* commands given so far

catalog == <<customers, products>>
vars == <<catalog, status, parsed, draft, question, entry, answered, touched, taught, commands>>

NoEntry == [type |-> Nobody, customer |-> Nobody, product |-> Nobody, qty |-> None, amount |-> None]
NoQuestion == [reason |-> "none", open |-> FALSE, candidates |-> {}]
NoSentence == [type |-> Nobody, customer |-> <<>>, product |-> <<>>, qty |-> None, unit |-> Nobody,
               total |-> None, price |-> None, priceUnit |-> Nobody, direction |-> Nobody, flags |-> {}]

Reasons == {Precedence[i] : i \in DOMAIN Precedence}
           \cup {"none", "CHOOSE_UNIT", "ENTER_PRICE", "ENTER_NAME", "ENTER_CUSTOMER"}

TypeOK ==
    /\ Table(customers, CustomerRow) /\ Table(products, ProductRow)
    /\ status \in [Msgs -> {"ABSENT", "AWAITING_CONFIRMATION", "COMMITTED", "REJECTED", "FAILED", "DONE"}]
    /\ parsed \in [Msgs -> Sentence]
    /\ draft \in [Msgs -> Overrides]
    /\ question \in [Msgs -> [reason : Reasons \ Refusals, open : BOOLEAN, candidates : SUBSET Names]]
    /\ entry \in [Msgs -> [type : Types \cup {Nobody}, customer : Names \cup {Nobody},
                           product : Names \cup {Nobody}, qty : Number, amount : Number]]
    /\ answered \in [Msgs -> SUBSET Reasons]
    /\ touched \in [Msgs -> BOOLEAN]
    /\ taught \subseteq [words : Mentions, product : Names]
    /\ commands \in 0 .. MaxCommands

Init ==
    /\ customers = InitCustomers
    /\ products = InitProducts
    /\ status = [m \in Msgs |-> "ABSENT"]
    /\ parsed = [m \in Msgs |-> NoSentence]
    /\ draft = [m \in Msgs |-> Blank]
    /\ question = [m \in Msgs |-> NoQuestion]
    /\ entry = [m \in Msgs |-> NoEntry]
    /\ answered = [m \in Msgs |-> {}]
    /\ touched = [m \in Msgs |-> FALSE]
    /\ taught = {}
    /\ commands = 0

Active(table) == {n \in DOMAIN table : table[n].known /\ table[n].active}

\* Mutant: removed entries are loaded as well.
MutLoad(table) == {table[n] : n \in {x \in DOMAIN table : table[x].known}}

\* load_catalog: the active rows.
Load(table) == {table[n] : n \in Active(table)}

-----------------------------------------------------------------------------
(* What the writers of the two tables leave there.                         *)

\* pipeline's INSERT for "naya customer": an existing row stays as it is.
Enrolled(n) == IF customers[n].known THEN customers
               ELSE [customers EXCEPT ![n] = [@ EXCEPT !.known = TRUE, !.active = TRUE]]

\* add_customer also makes a removed customer active again.
AddedCustomer(n) == [customers EXCEPT ![n] = [@ EXCEPT !.known = TRUE, !.active = TRUE]]

\* add_product keeps the old price when none is given, and adds aliases.
AddedProduct(n, unit, price, alias) ==
    [products EXCEPT ![n] =
        [id |-> n, known |-> TRUE, active |-> TRUE, unit |-> unit,
         price |-> IF price > 0 THEN price ELSE IF @.known THEN @.price ELSE None,
         aliases |-> (@.aliases \cup {n, alias}) \ {<<>>}]]

\* add_alias.
Taught(table, n, alias) == [table EXCEPT ![n].aliases = IF alias = n THEN @ ELSE @ \cup {alias}]

-----------------------------------------------------------------------------
(* decide on the catalog cs, ps.  A choice counts while it is active.      *)
\* Mutant: the sentence's own words beat the user's choice.
MutChosen(id, entries, resolution) ==
    IF resolution.status = "RESOLVED" THEN resolution
    ELSE IF \E e \in entries : e.id = id THEN Resolved(CHOOSE e \in entries : e.id = id) ELSE resolution

Chosen(id, entries, resolution) ==
    IF \E e \in entries : e.id = id THEN Resolved(CHOOSE e \in entries : e.id = id) ELSE resolution

Case(p, o, cs, ps) ==
    [p |-> p, o |-> o,
     cust |-> Chosen(o.customer, Load(cs), ResolveCustomer(p.customer, Load(cs))),
     prod |-> Chosen(o.product, Load(ps), ResolveProduct(p.product, Load(ps)))]

Candidates(r, c) ==
    {e.id : e \in IF r \in {"AMBIGUOUS_CUSTOMER", "UNKNOWN_CUSTOMER"} THEN c.cust.candidates
                  ELSE IF r \in {"AMBIGUOUS_PRODUCT", "UNKNOWN_PRODUCT"} THEN c.prod.candidates
                  ELSE {}}

NewCustomer(o) == o.newCustomer # <<>> /\ o.customer = Nobody
NewItem(o) == o.newProduct # <<>> /\ o.product = Nobody

\* "1 packet maggi" already told the unit.
UnitKnown(p, o) ==
    IF NewItem(o) /\ o.newUnit = Nobody /\ p.unit # Nobody
    THEN [o EXCEPT !.newUnit = BaseUnitOf[p.unit]] ELSE o

PriceNeeded(p, o) ==
    \/ o.catalogOnly # "no"
    \/ p.type \in {"CREDIT_SALE", "CASH_SALE", "SALE"} /\ ~Said(p.total) /\ ~Said(p.price)

(* What _catalog_wizard and _new_product_flow ask before they write.       *)
FlowQuestion(p, o) ==
    IF o.catalogOnly = "customer" THEN IF o.newCustomer = <<>> THEN "ENTER_CUSTOMER" ELSE "none"
    ELSE IF o.catalogOnly = "product" /\ o.newProduct = <<>> THEN "ENTER_NAME"
    ELSE IF ~NewItem(o) THEN "none"
    ELSE IF o.newUnit = Nobody THEN "CHOOSE_UNIT"
    ELSE IF o.newPrice = None /\ PriceNeeded(p, o) THEN "ENTER_PRICE" ELSE "none"

Ask(m, o, reason, candidates) ==
    /\ status' = [status EXCEPT ![m] = "AWAITING_CONFIRMATION"]
    /\ question' = [question EXCEPT ![m] = [reason |-> reason, open |-> TRUE, candidates |-> candidates]]
    /\ draft' = [draft EXCEPT ![m] = o]
    /\ UNCHANGED entry

\* Mutant: the buttons of a settled message stay alive.
MutClose(m, o, s) ==
    /\ status' = [status EXCEPT ![m] = s]
    /\ draft' = [draft EXCEPT ![m] = o]
    /\ UNCHANGED question

Close(m, o, s) ==
    /\ status' = [status EXCEPT ![m] = s]
    /\ question' = [question EXCEPT ![m].open = FALSE]
    /\ draft' = [draft EXCEPT ![m] = o]

Decided(m, c) ==
    LET v == Verdict(c) IN
    \/ /\ v = "COMMIT"
       /\ ~Unbookable(Entry(c), c.p.direction)
       /\ Close(m, c.o, "COMMITTED")
       /\ entry' = [entry EXCEPT ![m] = Entry(c)]
    \/ /\ v \in Refusals
       /\ Close(m, c.o, "REJECTED")
       /\ UNCHANGED entry
    \/ /\ v \notin Refusals \cup {"COMMIT"}
       /\ Ask(m, c.o, v, Candidates(v, c))

\* Other messages see a catalog that changed under them.
Touch(m, cs, ps) ==
    touched' = [n \in Msgs |-> touched[n] \/ (n # m /\ status[n] # "ABSENT" /\ <<cs, ps>> # catalog)]

(* decide_and_post_in, with p and o as the statements before it left them, *)
(* ps0 the products.  Disabled when post_decision raises: the transaction  *)
(* rolls back.                                                             *)
DecideAndPost(m, p, o0, ps0) ==
    LET o1 == IF NewCustomer(o0) THEN [o0 EXCEPT !.customer = o0.newCustomer] ELSE o0
        o  == UnitKnown(p, o1)
        asks == FlowQuestion(p, o)
        cs == IF NewCustomer(o0)
              THEN IF o.catalogOnly = "no" THEN Enrolled(o0.newCustomer) ELSE AddedCustomer(o0.newCustomer)
              ELSE customers
        makes == NewItem(o) /\ asks = "none" /\ o.catalogOnly # "customer"
        ps == IF makes THEN AddedProduct(o.newProduct, o.newUnit, o.newPrice, p.product) ELSE ps0
        od == IF makes THEN [o EXCEPT !.product = o.newProduct] ELSE o
    IN /\ customers' = cs
       /\ products' = ps
       /\ parsed' = [parsed EXCEPT ![m] = p]
       /\ Touch(m, cs, ps)
       /\ IF asks # "none" THEN Ask(m, o, asks, {})
          ELSE IF o.catalogOnly # "no" THEN Close(m, od, "DONE") /\ UNCHANGED entry
          ELSE Decided(m, Case(p, od, cs, ps))
       /\ UNCHANGED commands

\* A worker decides a parsed message; a booking that raises fails it.
Hear(m) ==
    /\ status[m] = "ABSENT"
    /\ UNCHANGED <<answered, taught>>
    /\ \E p \in Sentences :
        LET c == Case(p, Blank, customers, products) IN
        \/ DecideAndPost(m, p, Blank, products)
        \/ /\ Verdict(c) = "COMMIT" /\ Unbookable(Entry(c), p.direction)
           /\ Close(m, Blank, "FAILED")
           /\ parsed' = [parsed EXCEPT ![m] = p]
           /\ UNCHANGED <<catalog, entry, touched, commands>>

\* start_catalog_wizard: claimed without a job and run at once, parsed = {}.
StartWizard(m) ==
    /\ status[m] = "ABSENT"
    /\ \E o \in Wizards : DecideAndPost(m, NoSentence, o, products)
    /\ UNCHANGED <<answered, taught>>

Open(m) == status[m] = "AWAITING_CONFIRMATION" /\ question[m].open

AnsweredNow(m) == answered' = [answered EXCEPT ![m] = @ \cup {question[m].reason}]

(* build_options and the buttons of the wizards: what a choice sets.       *)
Picks(p, q, o) ==
    LET new(name) == IF name = <<>> THEN {} ELSE {name} IN
    CASE q.reason \in {"AMBIGUOUS_CUSTOMER", "UNKNOWN_CUSTOMER"} ->
           {[o EXCEPT !.customer = n] : n \in q.candidates}
             \cup {[o EXCEPT !.newCustomer = n] : n \in new(p.customer)}
      [] q.reason = "AMBIGUOUS_PRODUCT" -> {[o EXCEPT !.product = n] : n \in q.candidates}
      [] q.reason = "UNKNOWN_PRODUCT" ->
           {[o EXCEPT !.product = n] : n \in q.candidates}
             \cup {[o EXCEPT !.newProduct = n] : n \in new(p.product)}
      [] q.reason = "CHOOSE_PAYMENT" -> {[o EXCEPT !.payment = way] : way \in {"CREDIT", "CASH"}}
      [] q.reason = "CONFIRM_LARGE_AMOUNT" -> {[o EXCEPT !.large = TRUE]}
      [] q.reason = "CHOOSE_UNIT" -> {[o EXCEPT !.newUnit = u] : u \in BaseUnits}
      [] q.reason = "ENTER_PRICE" -> {[o EXCEPT !.newPrice = 0]}
      [] OTHER -> {}

\* "Did you mean X?", and X was meant.
NearMiss(m, o) == question[m].reason = "UNKNOWN_PRODUCT" /\ o.product \in question[m].candidates

\* Mutant: the choice is taken, the spelling forgotten.
MutLearned(m, o) == products

(* resolve_callback: choosing a near miss also teaches the spelling.       *)
Learned(m, o) == IF NearMiss(m, o) THEN Taught(products, o.product, parsed[m].product) ELSE products

Tap(m) ==
    /\ Open(m)
    /\ \E o \in Picks(parsed[m], question[m], draft[m]) :
        /\ DecideAndPost(m, parsed[m], o, Learned(m, o))
        /\ taught' = taught \cup {[words |-> parsed[m].product, product |-> n] :
                                  n \in {x \in {o.product} : NearMiss(m, o)}}
    /\ AnsweredNow(m)

\* The cancel button, or the question expires.
GiveUp(m) ==
    /\ Open(m)
    /\ Close(m, draft[m], "REJECTED")
    /\ UNCHANGED <<catalog, parsed, entry, answered, touched, taught, commands>>

-----------------------------------------------------------------------------
(* answer_text, by the field of the question.                              *)
FieldOf == [MISSING_CUSTOMER |-> "customer", MISSING_PRODUCT |-> "product",
            MISSING_QUANTITY |-> "quantity", UNIT_MISMATCH |-> "quantity",
            PRICE_MISMATCH |-> "quantity", MISSING_AMOUNT |-> "amount", MISSING_PRICE |-> "price",
            ENTER_PRICE |-> "new_price", ENTER_NAME |-> "new_name", ENTER_CUSTOMER |-> "new_customer"]

Field(m) == IF question[m].reason \in DOMAIN FieldOf THEN FieldOf[question[m].reason] ELSE "none"

\* The quantity in the item's base unit, when the draft tells the item.
TypedQuantity(m, n, unit) ==
    LET item == Case(parsed[m], draft[m], customers, products).prod IN
    IF item.status # "RESOLVED" THEN None
    ELSE ToBaseQty(n, IF unit = Nobody THEN item.value.unit ELSE unit, item.value.unit)

\* What a number sets; a draft unchanged where the answer is useless.
Numbered(m, n, unit) ==
    LET o == draft[m]  q == TypedQuantity(m, n, unit) IN
    CASE Field(m) = "quantity"  -> IF q > 0 THEN [o EXCEPT !.qty = q] ELSE o
      [] Field(m) = "amount"    -> [o EXCEPT !.total = RupeesToPaise(n)]
      [] Field(m) = "price"     -> [o EXCEPT !.price = RupeesToPaise(n)]
      [] Field(m) = "new_price" -> [o EXCEPT !.newPrice = RupeesToPaise(n)]

AnswerNumber(m) ==
    /\ Open(m)
    /\ Field(m) \in {"quantity", "amount", "price", "new_price"}
    /\ UNCHANGED taught
    /\ \E n \in Amounts, unit \in {Nobody} \cup Units :
        LET useless == Field(m) = "quantity" /\ TypedQuantity(m, n, unit) <= 0 IN
        /\ unit = Nobody \/ Field(m) = "quantity"
        /\ \/ /\ useless
              /\ Ask(m, draft[m], question[m].reason, {})
              /\ UNCHANGED <<catalog, parsed, answered, touched, commands>>
           \/ /\ ~useless
              /\ DecideAndPost(m, parsed[m], Numbered(m, n, unit), products)
              /\ IF RupeesToPaise(n) > 0 THEN AnsweredNow(m) ELSE UNCHANGED answered

\* parse_product_args: a typed item may come with a unit and a price, which
\* count where the draft has none.
Item(o, n, unit, price) ==
    [o EXCEPT !.newProduct = n, !.newUnit = IF @ = Nobody THEN unit ELSE @,
              !.newPrice = IF @ > 0 THEN @ ELSE price]

\* A typed name replaces the mention, and forgets the customer chosen so far.
AnswerName(m) ==
    /\ Open(m)
    /\ AnsweredNow(m)
    /\ UNCHANGED taught
    /\ \E n \in NameAnswers :
        LET p == parsed[m]  o == draft[m] IN
        \/ /\ Field(m) = "customer"
           /\ DecideAndPost(m, [p EXCEPT !.customer = n],
                            [o EXCEPT !.customer = Nobody, !.newCustomer = <<>>], products)
        \/ /\ Field(m) = "product"
           /\ DecideAndPost(m, [p EXCEPT !.product = n], [o EXCEPT !.product = Nobody], products)
        \/ /\ Field(m) = "new_name"
           /\ \E unit \in BaseUnits \cup {Nobody}, price \in {None} \cup {RupeesToPaise(a) : a \in Amounts} :
                DecideAndPost(m, p, Item(o, n, unit, price), products)
        \/ /\ Field(m) = "new_customer"
           /\ DecideAndPost(m, p, [o EXCEPT !.newCustomer = n], products)

-----------------------------------------------------------------------------
(* catalog_command: an entry is named in words, and must be found; and the *)
(* wizards of other messages at their last step.                           *)
FoundProduct(words) == {r.value.id : r \in {x \in {ResolveProduct(words, Load(products))} : x.status = "RESOLVED"}}
FoundCustomer(words) == {r.value.id : r \in {x \in {ResolveCustomer(words, Load(customers))} : x.status = "RESOLVED"}}

Command(c) ==
    /\ commands < MaxCommands
    /\ commands' = commands + 1
    /\ \/ /\ c.cmd = "/price" /\ c.price > 0
          /\ \E n \in FoundProduct(c.words) : products' = [products EXCEPT ![n].price = c.price]
          /\ UNCHANGED customers
       \/ /\ c.cmd = "/remove_product"
          /\ \E n \in FoundProduct(c.words) : products' = [products EXCEPT ![n].active = FALSE]
          /\ UNCHANGED customers
       \/ /\ c.cmd = "/remove_customer"
          /\ \E n \in FoundCustomer(c.words) : customers' = [customers EXCEPT ![n].active = FALSE]
          /\ UNCHANGED products
       \/ /\ c.cmd = "/alias"
          /\ \/ /\ \E n \in FoundProduct(c.words) : products' = Taught(products, n, c.alias)
                /\ UNCHANGED customers
             \/ /\ FoundProduct(c.words) = {}
                /\ \E n \in FoundCustomer(c.words) : customers' = Taught(customers, n, c.alias)
                /\ UNCHANGED products
       \/ /\ c.cmd = "/add_customer"
          /\ customers' = AddedCustomer(c.words)
          /\ UNCHANGED products
       \/ /\ c.cmd = "/add_product"
          /\ products' = AddedProduct(c.words, c.unit, c.price, <<>>)
          /\ UNCHANGED customers
    /\ catalog' # catalog
    /\ touched' = [m \in Msgs |-> status[m] # "ABSENT"]
    /\ UNCHANGED <<status, parsed, draft, question, entry, answered, taught>>

Next ==
    \/ \E m \in Msgs : Hear(m) \/ StartWizard(m) \/ Tap(m) \/ GiveUp(m) \/ AnswerNumber(m) \/ AnswerName(m)
    \/ \E c \in Commands : Command(c)

Spec == Init /\ [][Next]_vars

-----------------------------------------------------------------------------
(* What is booked is booked to a customer and an item of the catalog as it *)
(* is then, the one the user picked from a question's buttons if he did,   *)
(* whatever was removed while the question was open (decide.py:40).        *)
BooksLive ==
    [][\A m \in Msgs : entry'[m] # entry[m] =>
         /\ entry'[m].customer # Nobody => entry'[m].customer \in Active(customers')
         /\ entry'[m].product # Nobody => entry'[m].product \in Active(products')]_vars

(* models.py:79, "answers the user has already given ... decide() applies  *)
(* them before asking again", and resolve.py:6, "booking the wrong person  *)
(* is the worst failure in this project": a sale is booked to the customer *)
(* the user chose.                                                         *)
BookedAsChosen ==
    \A m \in Msgs : status[m] = "COMMITTED" /\ draft[m].customer # Nobody /\ entry[m].customer # Nobody =>
        entry[m].customer = draft[m].customer

(* The same for choices that are still in the catalog when the booking is  *)
(* made, whatever the mention itself has come to mean since.               *)
LiveChoiceWins ==
    [][\A m \in Msgs : entry'[m] # entry[m] =>
         LET o == draft'[m]  e == entry'[m] IN
         /\ o.customer \in Active(customers') /\ e.customer # Nobody => e.customer = o.customer
         /\ o.product \in Active(products') /\ e.product # Nobody => e.product = o.product]_vars

(* resolve.py:3: a customer the user did not choose was named: one of his  *)
(* spellings has every token of the mention, at least by sound, and nobody *)
(* else in the catalog is spelt like the mention.                          *)
NeverGuessed ==
    [][\A m \in Msgs : entry'[m] # entry[m] /\ entry'[m].customer \notin {Nobody, draft'[m].customer} =>
         LET mention == parsed'[m].customer  who == entry'[m].customer IN
         /\ \E n \in customers'[who].aliases \cup {who} : Within(Skel(mention), Skel(n))
         /\ \A x \in Active(customers') \ {who} : mention \notin customers'[x].aliases \cup {x}]_vars

\* The two sentences that are asked again for what was answered; see the README.
Excused(m) ==
    \/ question[m].reason = "PRICE_MISMATCH"
    \/ draft[m].customer # Nobody /\ draft[m].customer \notin Active(customers)

(* models.py:79: while the catalog stays as it is, a message never asks a  *)
(* second time what was answered, so that answers bring it to an end.      *)
AskedOnce == \A m \in Msgs : Open(m) /\ ~touched[m] /\ ~Excused(m) => question[m].reason \notin answered[m]

\* A sale at a stated price: its quantity is the one said to half a gram (or
\* ml), and the charge is quantity times price but for half a paisa for each
\* unit said, for each base unit sold ("1 dozen at 50" is 12 pieces at 4.17),
\* and once, and the half gram where less than a gram was dropped.
Charged(p, e) ==
    LET rounded == 1000 * e.qty - p.qty * (IF p.unit = Nobody THEN 1000 ELSE Factor[p.unit])
        gap == 10000 * e.amount - p.price * p.qty
        slack == 5000 + 5 * (e.qty + p.qty) + (IF rounded = 0 THEN 0 ELSE 5000 * RupeesToPaise(p.price))
    IN rounded \in -500 .. 500 /\ gap \in -slack .. slack

(* decide.py:5, "nothing is ever invented": what is said in numbers is     *)
(* booked and charged, through two conversions of unit and four roundings. *)
ChargedAsSaid ==
    \A m \in Msgs :
        LET p == parsed[m]  e == entry[m]  o == draft[m] IN
        (/\ e.type \in {"CREDIT_SALE", "CASH_SALE"} /\ Said(p.price) /\ ~Said(p.total) /\ Said(p.qty)
         /\ p.priceUnit \in {Nobody, p.unit} /\ {o.qty, o.price, o.total} = {None})
        => Charged(p, e)

(* confirmations.py:80, "teach that spelling": once a near miss was picked  *)
(* for the shop's word, a mention of the word (up to three tokens) finds   *)
(* the item in every later message while the item is sold, whatever else   *)
(* becomes of the catalog, and can only be asked about where another item  *)
(* has the same spelling.                                                  *)
Finds(words, n) ==
    LET r == ResolveProduct(words, Load(products)) IN
    \/ r = Resolved(products[n])
    \/ /\ r.status = "AMBIGUOUS" /\ products[n] \in r.candidates
       /\ \A e \in r.candidates : words \in Spellings(e)

PickingTeaches ==
    \A t \in taught : t.product \in Active(products) /\ Len(t.words) <= 3 => Finds(t.words, t.product)

(* Status, question and entry are rows of three tables, written by a        *)
(* different statement each (pipeline.py:295, :317, bookkeeping.py:23): a  *)
(* message waits while its question is open, and is COMMITTED when it has  *)
(* its entry.                                                              *)
StatusAgrees ==
    /\ \A m \in Msgs : status[m] = "AWAITING_CONFIRMATION" <=> question[m].open
    /\ \A m \in Msgs : status[m] = "COMMITTED" <=> entry[m] # NoEntry
=============================================================================
