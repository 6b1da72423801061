SPECIFICATION Spec
CONSTANTS
    w1 = w1
    w2 = w2
    Jobs <- TwoMsgs
    Workers <- TwoWorkers
    NoJob = NoJob
    MaxAttempts = 2
    SlowWorkers = FALSE
    MaxFaults = 1
    ReviveCap = 2
    Buttons <- MCButtons
    Texts <- MCTexts
    Rank <- MCRank
    Parses <- MCParses
    MaxBadReplies = 0
    StrayTaps = FALSE
    Arrivals <- TextOnly
    Raises <- ExternalCalls
SYMMETRY SymWorkers
INVARIANTS WaitsForItsQuestion DeadMeansSettled OneHolder
PROPERTIES SettledIsFinal AnswersAreKept DeadIsFinal
