SPECIFICATION Spec
CONSTANTS
    w1 = w1
    w2 = w2
    Jobs <- TwoMsgs
    Workers <- TwoWorkers
    NoJob = NoJob
    MaxAttempts = 1
    SlowWorkers = TRUE
    MaxFaults = 1
    ReviveCap = 2
    Buttons <- MCButtons
    Texts <- MCTexts
    Rank <- MCRank
    Parses <- FewParses
    MaxBadReplies = 0
    StrayTaps = TRUE
    Arrivals <- AnyKind
    Raises <- ExternalCalls
SYMMETRY SymWorkers
INVARIANTS TypeOK ExactlyOnce
PROPERTIES PromiseKept
