SPECIFICATION Spec
CONSTANTS
    Names = {n1}
    Branches = {main, dev}
    Creates = {c1, c2, c3}
    None = None
    MaxFailures = 1
    MaxCrashes = 1
SYMMETRY Symmetry
INVARIANTS RecordedModuleKept NoLeftovers OkIsRecorded
