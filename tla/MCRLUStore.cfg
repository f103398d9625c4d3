CONSTANTS
  o1 = o1
  o2 = o2
  NULL = NULL
  ACTUAL = ACTUAL
  NThreads = 2
  Writers <- TwoWriters
  Objects <- MCObjects
  MaxWriteSets = 2
  RingSize = 4
  MAX_VERSION = 99
  MaxSections <- Sections31
SPECIFICATION Spec
CONSTRAINT NoVersionRace
INVARIANTS
  RunCounterTellsSections
  FinishedIsClean
PROPERTY ImplementsSnapshotStore
