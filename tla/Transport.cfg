\* A note and a text, a note and a raising update, or a simulated message:
\* inline tasks and simulate beside one worker.
SPECIFICATION Spec
CONSTANTS
    w1 = w1
    Workers <- MCWorkers
    Updates <- MCUpdates
    Traffic <- MCTraffic
    Simulated <- MCSimulated
    Jobs <- MCJobs
    NoJob = NoJob
    MaxAttempts = 2
    SlowWorkers = FALSE
    MaxFaults = 1
    MaxLosses = 1
    ReviveCap = 5
INVARIANTS NothingLost BookedOnce
PROPERTIES EveryMessageArrives
