SPECIFICATION FairSpec
CONSTANTS
    Jobs = {j1, j2}
    Workers = {w1, w2}
    Concurrency = 2
    MaxAttempts = 3
    MaxFaults = 1
    MaxLate = 1
INVARIANT OwnerHoldsRow
PROPERTIES SuccessIsFinal ImplementsQueue JobsEnd
