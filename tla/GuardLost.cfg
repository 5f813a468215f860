CONSTANTS
  Critical = {"GetSize", "Do"}
  NonAlloc = "PSFormatForDisplay"
  RegQuery = "RegQueryValueExW"
  Thread = {t1}
  GetSize = "GetSize"
  Operation = {"Do"}
  MaxNesting = 2
  MaxLost = 1
SPECIFICATION HookCallsSpec
INVARIANT GuardIsReleased
CHECK_DEADLOCK FALSE
