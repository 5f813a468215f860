CONSTANTS
  Drive <- MCDrive
  Name <- MCName
  Lower <- MCLower
  MaxTokens = 8
  Path <- MCPath
  Size = {1, 2}
  TTL = 2
  MAX_ENTRIES = 2
  MAX_MEMORY_BYTES = 600
  ENTRY_BYTES = 288
  NoSize = NoSize
  NoEntry = NoEntry
  MaxThrown = 1
  Folder = {f1, f2}
  Connecting = connecting
  Disconnecting = disconnecting
  Idle = idle
  NoAnswer = noanswer
  WrongSize = wrong
  PIPES = 2
  TRIES = 2
  RECONNECT_INTERVAL = 2
  MAX_SKIP = 2
  MaxPayload = 3
  Capacity = 4
  MaxRequests = 1
  Absent = absent
  OtherType = other
  NoBuffer = nobuffer
  Item = {"Name", "DateModified", "prop:System.Size"}
  SizeItem = {"System.Size", "~System.Size", "*System.Size", "prop:System.Size"}
  MarkerItem = {"DateModified", "prop:*System.DateModified"}
  MaxItems = 3
  kBufCch = 2
  Hint = 1
  Kilo = 8
  Sentinel = 12288
  Factory = {c1}
  Overlay = {o1, o2}
  MaxReferences = 2
  MaxLocks = 2
SPECIFICATION PartsSpec
INVARIANTS
  KeyIsCanonical
  KeysAgree
  InvalidationReachesAncestors
  CacheTypeOK
  CacheWithinLimits
  ExtractionLeavesNothing
  EverythingTypeOK
  StaysInStep
  TwoCallsAgree
  InjectionIsFaithful
  ColumnKeepsOrder
  CountsAreExact
  RegistrationIsWhole
PROPERTIES
  KeepsFreshStorePromise
  EvictsLeastRecentlyUsed
  KeepsQueryPromise
  MutexIsReleased
  Reconnects
CHECK_DEADLOCK FALSE
