CONSTANTS
  o1 = o1
  o2 = o2
  NULL = NULL
  ACTUAL = ACTUAL
  NThreads = 2
  Writers <- TwoWriters
  Objects <- MCObjects
  MaxWriteSets = 1
  RingSize = 2
  MAX_VERSION = 99
  MaxSections <- Sections21
SPECIFICATION FairSpec
INVARIANTS
  TypeOK
  LocksMatchLogs
  FreshLog
  StolenLogNotReused
  NoLostUpdate
PROPERTY SyncTerminates
