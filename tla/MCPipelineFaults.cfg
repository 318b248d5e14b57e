\* Every fault, with one read of each query out at a time; ties included.
CONSTANTS
  Nodes <- FourNodes
  Medoid = 0
  K = 2
  Ef = 3
  Npb = 2
  SidSpan = 4
  NumBlocks = 3
  TagSpan = 16
  MaxConcurrency = 2
  Queries <- ThreeQueries
  W = 1
  Workloads <- AllLoads
  QueueDepth = 2
  SqEntries = 2
  Faults = {"eio", "short", "enter", "signal"}
SPECIFICATION FairSpec
PROPERTIES
  Returns
  UsesExecutor
