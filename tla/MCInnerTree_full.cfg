CONSTANTS
  t1 = t1
  t2 = t2
  Threads <- Two
  MaxKey = 5
  Trees <- TwoPartitions
  inner_node_degree = 3
  split_thres_r = 100
  merge_thres_r = 67
  distri_r = 50
  Plans <- OneGrows
SPECIFICATION FairSpec
PROPERTY StopIsTested
