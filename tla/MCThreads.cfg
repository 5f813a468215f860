CONSTANTS
  Drive <- MCDrive
  Name <- MCName
  Lower <- MCLower
  Path <- MCPath
  Row <- MCTwoRows
  PathOf <- MCTwoPathsOf
  Target <- MCTarget
  Size = {1}
  TTL = 0
  MAX_ENTRIES = 1
  MAX_MEMORY_BYTES = 600
  ENTRY_BYTES = 288
  NoSize = NoSize
  Blank = Blank
  Pending = Pending
  MAX_PENDING_REQUESTS = 1
  FAILURE_RETRY_INTERVAL = 1
  VISIBLE_REFRESH_INTERVAL = 1
  REFRESH_MEMORY = 1
  MaxDelay = 0
  Critical = {"GetSize", "Do"}
  NonAlloc = "PSFormatForDisplay"
  RegQuery = "RegQueryValueExW"
SPECIFICATION ThreadsSpec
PROPERTIES
  PendingSettles
  UnloadEnds
CHECK_DEADLOCK FALSE
