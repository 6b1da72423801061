SPECIFICATION Spec
CONSTANTS
    w1 = w1
    w2 = w2
    Jobs <- OneMsg
    Workers <- TwoWorkers
    NoJob = NoJob
    MaxAttempts = 1
    SlowWorkers = TRUE
    MaxFaults = 2
    ReviveCap = 2
    Buttons <- MCButtons
    Texts <- MCTexts
    Rank <- MCRank
    Parses <- MCParses
    MaxBadReplies = 1
    StrayTaps = FALSE
    Arrivals <- AnyKind
    Raises <- ExternalCalls
INVARIANT RefusedMeansNotBooked
