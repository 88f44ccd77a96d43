\* Two processes that start one after the other, two crashes, two signals.
SPECIFICATION Spec
CONSTANTS
    p1 = p1
    p2 = p2
    Procs = {p1, p2}
    Latest = 4
    Replayable <- MCReplayable
    NoEffect <- MCNoEffect
    Configs <- MCConfigs
    Roots <- MCRoots
    Overlap = FALSE
    MaxFaults = 2
    MaxSignals = 2
INVARIANTS MigrationsInStep RequestsSupported
PROPERTIES RequestsDrain ServesAgain CancelledExits
CHECK_DEADLOCK FALSE
