CONSTANTS
  t1 = t1
  t2 = t2
  r = r
  x = x
  NULL = NULL
  ACTUAL = ACTUAL
  QP = QP
  Threads <- TwoThreads
  Objects <- TwoObjects
  Root = r
  Plans <- MCPlans
  LowMark = 2
  HighMark = 2
  DerefMinActObj = 1
  MVRLU_DEREF_MARK = 3
  MAX_VERSION = 99
SPECIFICATION Spec
CONSTRAINT Timely
INVARIANTS
  TypeOK
  VersionsDescend
  LocksMatchLogs
  QpClkIsQuiescent
  SnapshotReads
  LatestKept
  WritesExtendSnapshot
