SPECIFICATION Spec
CONSTANTS
    m1 = m1
    m2 = m2
    u1 = u1
    u2 = u2
    u3 = u3
    Modules = {m1, m2}
    Uploads = {u1, u2}
    Requests <- AllRequests
    Paths <- MCPaths
    Accepted <- MCAccepted
    BufYaml = "buf.yaml"
    Readme = "README.md"
    Blobs <- MCBlobs
    Settings = "settings"
    Empty = "empty"
    NoFile = "absent"
    LintEnabled = TRUE
    SdkEnabled = TRUE
    MaxFaults = 1
SYMMETRY Symmetry
INVARIANTS UploadedFilesStored ExactUnlessRaced ReportsAreRecorded
PROPERTY HeadMoves
