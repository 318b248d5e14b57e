\* One thread, which discards the reader after an error as it is told to.
CONSTANTS
  QueueDepth = 2
  SqEntries = 2
  NumBlocks = 2
  Faults <- AllFaults
  Threads = {t1}
  Batches <- SomeBatches
  Nobody = Nobody
SPECIFICATION Spec
INVARIANTS
  DrainedBeforeDrop
