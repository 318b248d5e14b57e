\* A read fails while another is with the kernel.
CONSTANTS
  Nodes <- FourNodes
  Medoid = 0
  K = 2
  Ef = 3
  Npb = 2
  SidSpan = 4
  NumBlocks = 3
  TagSpan = 16
  MaxConcurrency = 2
  Queries <- TwoQueries
  W = 2
  Workloads <- KiteLoad
  QueueDepth = 4
  SqEntries = 4
  Faults = {"eio"}
SPECIFICATION Spec
INVARIANTS
  BufferOutlivesRead
