\* Every fault, two threads that share the reader.
CONSTANTS
  QueueDepth = 2
  SqEntries = 2
  NumBlocks = 2
  Faults <- AllFaults
  Threads = {t1, t2}
  Batches <- SomeBatches
  Nobody = Nobody
SPECIFICATION FairSpec
INVARIANTS
  TypeOK
  RingDrained
  OneChunkAtATime
  OkMeansRead
PROPERTIES
  CallsReturn
