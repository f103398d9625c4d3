CONSTANTS
  t1 = t1
  t2 = t2
  t3 = t3
  Threads <- Two
  Ops = {"add", "search"}
  MaxKey = 3
  leaf_node_degree = 3
  split_thres_r = 50
  merge_thres_r = 34
  distri_r = 50
  InnerSplitThres = 7
  MaxOps = 2
SPECIFICATION FairSpec
PROPERTIES
  TerminatedByDuration
