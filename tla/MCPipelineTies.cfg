\* Two nodes equally far from a query.
CONSTANTS
  Nodes <- FourNodes
  Medoid = 0
  K = 2
  Ef = 3
  Npb = 2
  SidSpan = 4
  NumBlocks = 3
  TagSpan = 16
  MaxConcurrency = 2
  Queries <- TwoQueries
  W = 2
  Workloads <- TiedLoads
  QueueDepth = 4
  SqEntries = 4
  Faults = {}
SPECIFICATION Spec
INVARIANTS
  SameAsSingleQuery
