\* Three slots over a submission queue of four entries, every fault: the
\* device against staging, flushing and draining in every order.
CONSTANTS
  QueueDepth = 3
  SqEntries = 4
  NumBlocks = 2
  TagSpan = 2
  Faults <- AllFaults
SPECIFICATION FairSpec
INVARIANTS
  TypeOK
  IndInv
  SlotAccounting
  CompletionFaithful
  SqHasRoom
PROPERTIES
  ImplementsReads
  DrainReturns
