SPECIFICATION FairSpec
CONSTANTS
    w1 = w1
    w2 = w2
    Jobs <- TwoMsgs
    Workers <- TwoWorkers
    NoJob = NoJob
    MaxAttempts = 1
    SlowWorkers = FALSE
    MaxFaults = 1
    ReviveCap = 4
    Buttons <- MCButtons
    Texts <- MCTexts
    Rank <- MCRank
    Parses <- FewParses
    MaxBadReplies = 1
    StrayTaps = FALSE
    Arrivals <- AnyKind
    Raises <- ExternalCalls
INVARIANTS RefusedMeansNotBooked RepliesAgree
PROPERTIES EveryMessageSettles
