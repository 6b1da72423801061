------------------------------ MODULE MCLedger ------------------------------
EXTENDS Ledger

CONSTANTS asha, ravi, rice, u1, u2

FourIds == 1 .. 4
MCCustomers == {asha, ravi}
MCProducts == {rice}
MCUndoers == {u1, u2}

Entry(type, customer, product, quantity, amount, direction) ==
    [type |-> type, customer |-> customer, product |-> product, quantity |-> quantity,
     amount |-> amount, direction |-> direction]

\* One decision of every type, and two that post_decision or a CHECK refuses.
MCDecisions ==
    { Entry("CREDIT_SALE", asha, rice, 2, 3, "OUT"),
      Entry("CREDIT_SALE", ravi, rice, 1, 0, "OUT"),
      Entry("CASH_SALE", Nobody, rice, 1, 2, "OUT"),
      Entry("CREDIT_REPAYMENT", asha, Nothing, 0, 2, "OUT"),
      Entry("INVENTORY_PURCHASE", Nobody, rice, 5, 0, "IN"),
      Entry("STOCK_ADJUSTMENT", Nobody, rice, 1, 0, "OUT"),
      Entry("STOCK_ADJUSTMENT", Nobody, rice, 1, 0, "IN") }
=============================================================================
