\* Any three of ten transactions, in one order each.
SPECIFICATION MCSpec
CONSTANTS
    Txns <- MCTxns
    Role <- MCRole
    QuestionOf <- MCQuestionOf
    MaxAttempts = 3
INVARIANTS CirclesNeedATurn
PROPERTIES LoopsGetThrough
CHECK_DEADLOCK FALSE
