CONSTANTS
  Caller = {"worker", "sync"}
  Impatient = {"sync"}
  Dir = {"root", "a", "empty"}
  Entries <- MCEntries
  SizeOfFirst <- MCSizeOfFirst
  NoSize = NoSize
SPECIFICATION FairScannerSpec
INVARIANTS
  ScannerTypeOK
  TokensAreExact
PROPERTIES
  KeepsScanPromise
  EveryCallReturns
