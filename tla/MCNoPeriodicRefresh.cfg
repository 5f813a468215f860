CONSTANTS
  Drive <- MCDrive
  Name <- MCName
  Lower <- MCLower
  Path <- MCPath
  Folder <- MCFolder
  Home <- MCHome
  FileIn <- MCPlainFiles
  Row <- MCRow
  PathOf <- MCPathOf
  Target <- MCTarget
  Size <- MCSize
  TTL = 0
  MAX_ENTRIES = 2
  MAX_MEMORY_BYTES = 600
  ENTRY_BYTES = 288
  NoSize = NoSize
  Blank = Blank
  Pending = Pending
  MAX_PENDING_REQUESTS = 1
  FAILURE_RETRY_INTERVAL = 1
  VISIBLE_REFRESH_INTERVAL = 1
  REFRESH_MEMORY = 1
  MaxDelay = 0
  MaxChanges = 1
  MayLose = TRUE
SPECIFICATION SystemSpec
INVARIANT VisibleIsRefreshed
