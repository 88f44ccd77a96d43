SPECIFICATION ProxySpec
CONSTANTS
  Superadmins = {"root"}
  Names <- MCNames
  Commits <- MCCommits
  NoCommit = "none"
  ModuleOf <- MCModuleOf
  Initial <- MCInitial
  Size <- MCSize
  Bindings <- MCBindings
  Handlers = {1, 2}
  Scenarios <- WideScenarios
  DefaultPageSize = 2
  MaxPageSize = 3
  maxListScanBatches = 2
  maxDownloadRefs = 2
  maxDownloadBytes = 4
  maxFileContentBytes = 2
  MaxCalls = 2
  Versions = {"c2"}
  Plugins = {"gen", "grpc"}
  Configured = {{"gen"}, {"gen", "grpc"}}
  Output <- MCOutput
  NoFile = "none"
  Backends = {"none", "disk", "s3", "gitaly"}
  MaxTasks = 2
  MaxFaults = 1
CHECK_DEADLOCK FALSE
INVARIANT ScopedListingExact
