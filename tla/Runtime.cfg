SPECIFICATION Spec
CONSTANTS
  Paths <- MCPaths
  Disk <- MCDisk
  Files <- MCFiles
  Addresses = {a1, a2}
  Fds = {3, 4}
  None = None
  Contexts = {c1, c2, c3}
  NoContext = NoContext
  MaxLoads = 3
INVARIANTS
  LoadedMeansWhole
  SessionIsWhole
  NothingRetained
PROPERTY
  RunsOnTheLoadedModel
CHECK_DEADLOCK FALSE
