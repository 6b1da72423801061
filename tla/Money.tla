-------------------------------- MODULE Money --------------------------------
(***************************************************************************)
(* app/domain/money.py: fixed-point arithmetic of quantities and amounts.  *)
(* Decimals are whole numbers of thousandths (of a unit, of a rupee);      *)
(* paise are whole numbers, as in the code.                                *)
(***************************************************************************)
EXTENDS Integers

\* A value that is absent; every other value is a natural number.
None == -1

Units == {"kg", "g", "litre", "ml", "piece", "dozen", "packet"}

BaseUnitOf == [kg |-> "kg", g |-> "kg", litre |-> "litre", ml |-> "litre",
               piece |-> "piece", dozen |-> "piece", packet |-> "packet"]

BaseUnits == {BaseUnitOf[u] : u \in Units}

\* FACTOR in thousandths.
Factor == [kg |-> 1000, g |-> 1, litre |-> 1000, ml |-> 1,
           piece |-> 1000, dozen |-> 12000, packet |-> 1000]

\* Mutant: what is left over is dropped.
MutHalfUp(n, d) == n \div d

\* n / d to the nearest integer, a half away from zero: ROUND_HALF_UP.
HalfUp(n, d) == (2 * n + d) \div (2 * d)

\* A half to the even neighbour: the default of Decimal.quantize.
HalfEven(n, d) == IF (2 * n) % (2 * d) = d /\ (n \div d) % 2 = 0 THEN n \div d ELSE HalfUp(n, d)

ToBaseQty(q, unit, base) ==
    IF BaseUnitOf[unit] # base THEN None ELSE HalfEven(q * Factor[unit], 1000)

RupeesToPaise(r) == HalfUp(r, 10)

UnitPriceToBase(paise, unit, base) ==
    IF BaseUnitOf[unit] # base THEN None ELSE HalfUp(paise * 1000, Factor[unit])

LineAmount(q, paise) == HalfUp(q * paise, 1000)
=============================================================================
