CONSTANTS
  o1 = o1
  o2 = o2
  NULL = NULL
  ACTUAL = ACTUAL
  NThreads = 3
  Writers <- TwoWriters
  Objects <- MCObjects
  MaxWriteSets = 1
  RingSize = 2
  MAX_VERSION = 99
  MaxSections <- Sections111
SPECIFICATION Spec
SYMMETRY ObjectSymmetry
INVARIANTS
  GracePeriod
  SnapshotReads
  WritesExtendSnapshot
