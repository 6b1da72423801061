SPECIFICATION FairSpec
CONSTANTS
    asha = asha
    ravi = ravi
    rice = rice
    u1 = u1
    u2 = u2
    Nobody = Nobody
    Nothing = Nothing
    NoId = NoId
    Ids <- FourIds
    Customers <- MCCustomers
    Products <- MCProducts
    Decisions <- MCDecisions
    Undoers <- MCUndoers
    Days = 2
INVARIANTS TypeOK OneReversal BalanceIsHistory StockIsHistory SummariesAgree
PROPERTIES UndoEnds
CHECK_DEADLOCK FALSE
