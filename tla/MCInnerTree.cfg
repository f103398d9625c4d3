CONSTANTS
  t1 = t1
  t2 = t2
  Threads <- Two
  MaxKey = 5
  Trees <- TwoPartitions
  inner_node_degree = 4
  split_thres_r = 67
  merge_thres_r = 67
  distri_r = 50
  Plans <- Plans3
SPECIFICATION FairSpec
CONSTRAINT Followed
INVARIANTS
  TypeOK
  LevelsAreSorted
  ParentsListChildren
  RoutesToHeaders
  RegisteredByOne
  NoSectionLeaked
  MasterHasEntry

PROPERTY SmosEnd
