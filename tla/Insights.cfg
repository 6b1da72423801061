\* A queued run and a forced one of the same week, the three providers of
\* config.py, and two approvals.
SPECIFICATION Spec
CONSTANTS
    QueuedRuns <- MCQueued
    ForcedRuns <- MCForced
    Approvals <- MCApprovals
    None = None
    Providers = 3
    MaxCalls = 6
    MaxFaults = 1
INVARIANTS NothingUnapproved EveryCallLogged CallsBounded
CHECK_DEADLOCK FALSE
