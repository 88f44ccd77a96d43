SPECIFICATION Spec
CONSTANTS
    Handlers = {h1, h2}
    Sessions = {s1}
    MaxSecrets = 2
    MaxCodes = 2
    BatchSize = 1
    MaxStep = 1
    Limit = 2
    MaxFaults = 1
    None = None
SYMMETRY Symmetry
INVARIANTS CodesOnce GateNeedsCode
PROPERTY FactorKept
