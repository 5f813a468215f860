CONSTANTS
  Critical = {"GetSize"}
  NonAlloc = "PSFormatForDisplay"
  RegQuery = "RegQueryValueExW"
SPECIFICATION LifecycleSpec
INVARIANTS
  NotifierUnwinds
CHECK_DEADLOCK FALSE
