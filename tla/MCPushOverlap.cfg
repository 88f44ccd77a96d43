SPECIFICATION Spec
CONSTANTS
    m1 = m1
    m2 = m2
    u1 = u1
    u2 = u2
    u3 = u3
    Modules = {m1}
    Uploads = {u1, u2, u3}
    Requests <- OneModule
    Paths <- MCPaths
    Accepted <- MCAccepted
    BufYaml = "buf.yaml"
    Readme = "README.md"
    Blobs <- MCBlobs
    Settings = "settings"
    Empty = "empty"
    NoFile = "absent"
    LintEnabled = TRUE
    SdkEnabled = TRUE
    MaxFaults = 0
SYMMETRY Symmetry
INVARIANTS TypeOK UploadedFilesStored ExactUnlessRaced DigestUnique SuccessIsDurable HeadAccounted ReportsAreRecorded
PROPERTY HeadMoves
