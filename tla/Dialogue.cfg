SPECIFICATION Spec
CONSTANTS
    Nobody = Nobody
    ConfirmAbove = 15000
    Skeleton <- MCSkeleton
    Alike <- MCAlike
    Ratio <- MCRatio
    Near <- MCNear
    LongTokens <- MCLong
    Msgs <- OneMsg
    InitCustomers <- MCCustomers
    InitProducts <- MCProducts
    Sentences <- MCSentences
    Wizards <- MCWizards
    Amounts <- MCAmounts
    NameAnswers <- MCNames
    Commands <- MCCommands
    MaxCommands = 3
INVARIANTS StatusAgrees AskedOnce ChargedAsSaid PickingTeaches
PROPERTIES LiveChoiceWins BooksLive NeverGuessed
CHECK_DEADLOCK FALSE
