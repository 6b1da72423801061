-------------------------------- MODULE Decide --------------------------------
(***************************************************************************)
(* app/domain/decide.py: what stands between a parsed sentence and its     *)
(* booking.  decide walks through its conditions in a fixed order and      *)
(* returns at the first that applies; here each condition is stated by     *)
(* itself, and the verdict is the one that comes first in Precedence.      *)
(*                                                                         *)
(* A case has the sentence p, the customer and product resolutions and the *)
(* overrides o: c = [p, cust, prod, o].                                    *)
(***************************************************************************)
EXTENDS Money, Sequences, FiniteSets

CONSTANTS
    ConfirmAbove,       \* shops.confirm_above_paise
    Nobody              \* no customer, product, unit, payment mode or type

NeedsCustomer == {"CREDIT_SALE", "CREDIT_REPAYMENT", "SALE"}
NeedsProduct == {"CREDIT_SALE", "CASH_SALE", "SALE", "INVENTORY_PURCHASE", "STOCK_ADJUSTMENT"}
Countable == {"piece", "packet"}

\* Overrides(): nothing answered yet.
Blank == [customer |-> Nobody, product |-> Nobody, payment |-> Nobody, large |-> FALSE,
          price |-> None, qty |-> None, total |-> None, newCustomer |-> <<>>,
          newProduct |-> <<>>, newUnit |-> Nobody, newPrice |-> None, catalogOnly |-> "no"]

Type(c) ==
    IF c.p.type = "SALE" /\ c.o.payment # Nobody
    THEN [CREDIT |-> "CREDIT_SALE", CASH |-> "CASH_SALE"][c.o.payment] ELSE c.p.type

ForCustomer(c) == Type(c) \in NeedsCustomer
ForProduct(c) == Type(c) \in NeedsProduct

Said(n) == n # None

(* A typed quantity counts only when it is positive; a countable item may  *)
(* be said without a unit.                                                 *)
UnitSaid(c) ==
    IF c.p.unit = Nobody /\ c.prod.value.unit \in Countable THEN c.prod.value.unit ELSE c.p.unit

\* Mutant: a typed quantity is not looked at.
MutQuantity(c) ==
    IF ~Said(c.p.qty) \/ UnitSaid(c) = Nobody THEN 0
    ELSE ToBaseQty(c.p.qty, UnitSaid(c), c.prod.value.unit)

\* 0 for none, None for a unit that does not fit.
Quantity(c) ==
    IF c.o.qty > 0 THEN c.o.qty
    ELSE IF ~Said(c.p.qty) \/ UnitSaid(c) = Nobody THEN 0
    ELSE ToBaseQty(c.p.qty, UnitSaid(c), c.prod.value.unit)

\* "55 rupaye kilo": the unit of the price, else of the quantity, else the item's.
PriceUnit(c) ==
    IF c.p.priceUnit # Nobody THEN c.p.priceUnit
    ELSE IF c.p.unit # Nobody THEN c.p.unit ELSE c.prod.value.unit

PriceSource(c) ==
    IF c.o.price > 0 THEN "answered price"
    ELSE IF c.o.total > 0 THEN "answered total"
    ELSE IF Said(c.p.total) THEN "total"
    ELSE IF Said(c.p.price) THEN "price"
    ELSE IF Said(c.prod.value.price) THEN "catalog" ELSE "none"

UnitPrice(c) ==
    CASE PriceSource(c) = "answered price" -> c.o.price
      [] PriceSource(c) = "price" ->
           UnitPriceToBase(RupeesToPaise(c.p.price), PriceUnit(c), c.prod.value.unit)
      [] PriceSource(c) = "catalog" -> c.prod.value.price

SaleAmount(c) ==
    CASE PriceSource(c) = "answered total" -> c.o.total
      [] PriceSource(c) = "total" -> RupeesToPaise(c.p.total)
      [] OTHER -> LineAmount(Quantity(c), UnitPrice(c))

\* A purchase keeps a stated total; an adjustment has no amount.
Amount(c) ==
    CASE Type(c) = "CREDIT_REPAYMENT" ->
           IF c.o.total > 0 THEN c.o.total ELSE RupeesToPaise(c.p.total)
      [] Type(c) \in {"CREDIT_SALE", "CASH_SALE"} -> SaleAmount(c)
      [] Type(c) = "INVENTORY_PURCHASE" /\ Said(c.p.total) -> RupeesToPaise(c.p.total)
      [] OTHER -> None

Precedence == <<"MULTIPLE_ITEMS", "QUESTION", "MULTIPLE_PRODUCTS", "UNSUPPORTED", "NOTHING_SAID",
                "AMBIGUOUS_CUSTOMER", "UNKNOWN_CUSTOMER", "MISSING_CUSTOMER",
                "AMBIGUOUS_PRODUCT", "UNKNOWN_PRODUCT", "MISSING_PRODUCT",
                "MISSING_QUANTITY", "UNIT_MISMATCH", "MISSING_AMOUNT", "CHOOSE_PAYMENT",
                "PRICE_MISMATCH", "MISSING_PRICE", "CONFIRM_LARGE_AMOUNT">>

\* MULTIPLE_PRODUCTS, NOTHING_SAID and PRICE_MISMATCH are this model's names for
\* the second places that return MULTIPLE_ITEMS, NOT_A_TRANSACTION, UNIT_MISMATCH.
Refusals == {"MULTIPLE_ITEMS", "QUESTION", "MULTIPLE_PRODUCTS", "UNSUPPORTED", "NOTHING_SAID"}

Sale(c) == Type(c) \in {"CREDIT_SALE", "CASH_SALE"}

(* Each condition presupposes only those before it.                        *)
Applies(r, c) ==
    CASE r = "MULTIPLE_ITEMS" -> "multiple" \in c.p.flags /\ "question" \notin c.p.flags
      [] r = "QUESTION" -> "question" \in c.p.flags \/ c.p.type = Nobody
      [] r = "MULTIPLE_PRODUCTS" -> ForProduct(c) /\ c.prod.status = "MULTIPLE"
      [] r = "UNSUPPORTED" -> "unsupported" \in c.p.flags
      [] r = "NOTHING_SAID" ->
           ForProduct(c) /\ ~Said(c.p.qty) /\ ~Said(c.p.total) /\ c.prod.status = "MISSING"
      [] r = "AMBIGUOUS_CUSTOMER" -> ForCustomer(c) /\ c.cust.status = "AMBIGUOUS"
      [] r = "UNKNOWN_CUSTOMER" -> ForCustomer(c) /\ c.cust.status = "UNKNOWN"
      [] r = "MISSING_CUSTOMER" -> ForCustomer(c) /\ c.cust.status = "MISSING"
      [] r = "AMBIGUOUS_PRODUCT" -> ForProduct(c) /\ c.prod.status = "AMBIGUOUS"
      [] r = "UNKNOWN_PRODUCT" -> ForProduct(c) /\ c.prod.status = "UNKNOWN"
      [] r = "MISSING_PRODUCT" -> ForProduct(c) /\ c.prod.status = "MISSING"
      [] r = "MISSING_QUANTITY" -> ForProduct(c) /\ Quantity(c) = 0
      [] r = "UNIT_MISMATCH" -> ForProduct(c) /\ Quantity(c) = None
      [] r = "MISSING_AMOUNT" ->
           Type(c) = "CREDIT_REPAYMENT" /\ ~(c.o.total > 0) /\ ~Said(c.p.total)
      [] r = "CHOOSE_PAYMENT" -> Type(c) = "SALE"
      [] r = "PRICE_MISMATCH" -> Sale(c) /\ PriceSource(c) = "price" /\ UnitPrice(c) = None
      [] r = "MISSING_PRICE" -> Sale(c) /\ PriceSource(c) = "none"
      [] r = "CONFIRM_LARGE_AMOUNT" -> Amount(c) > ConfirmAbove /\ ~c.o.large

\* The first condition that applies: reasons before it do not.
Verdict(c) ==
    IF \E i \in DOMAIN Precedence : Applies(Precedence[i], c)
    THEN Precedence[CHOOSE i \in DOMAIN Precedence :
             Applies(Precedence[i], c) /\ \A j \in 1 .. i - 1 : ~Applies(Precedence[j], c)]
    ELSE "COMMIT"

(* The decision to commit: what post_decision is given.                    *)
Entry(c) ==
    [type |-> Type(c),
     customer |-> IF c.cust.status = "RESOLVED" THEN c.cust.value.id ELSE Nobody,
     product |-> IF ForProduct(c) THEN c.prod.value.id ELSE Nobody,
     qty |-> IF ForProduct(c) THEN Quantity(c) ELSE None,
     amount |-> Amount(c)]

(* post_decision raises, and the transaction rolls back: a repayment of 0, *)
(* an adjustment without a direction; the CHECK of credit_ledger refuses a *)
(* credit sale of 0.                                                       *)
Unbookable(e, direction) ==
    \/ e.type \in {"CREDIT_SALE", "CREDIT_REPAYMENT"} /\ e.amount = 0
    \/ e.type = "STOCK_ADJUSTMENT" /\ direction = Nobody
=============================================================================
