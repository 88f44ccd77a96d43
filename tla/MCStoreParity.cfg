SPECIFICATION Spec
CONSTANTS
    Users <- MCUsers
    Modules <- MCModules
    None = None
    MaxAttempts = 2
    MaxCalls = 4
    MaxTime = 1
    Overlap = {}
    Forms = {"dash", "hex"}
    DefaultLimit = 1
    MaxLimit = 2
    Contents <- MCContents
    maxRateLimitKeys = 2
    maxValueKeys = 2
    evictionSampleSize = 2
    windowTTL = 1
INVARIANTS BackendsAgree LatestIsLastWritten HitIsCounted
CHECK_DEADLOCK FALSE
