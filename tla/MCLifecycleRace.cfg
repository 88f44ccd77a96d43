\* Two processes that open a new database file at the same time.
SPECIFICATION Spec
CONSTANTS
    p1 = p1
    p2 = p2
    Procs = {p1, p2}
    Latest = 4
    Replayable <- MCReplayable
    NoEffect <- MCNoEffect
    Configs <- OneConfig
    Roots <- MCRoots
    Overlap = TRUE
    MaxFaults = 0
    MaxSignals = 0
INVARIANT RecordedIsApplied
CHECK_DEADLOCK FALSE
