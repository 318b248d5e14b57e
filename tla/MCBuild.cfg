\* Four points, two chunks inserted by two threads.
CONSTANTS
  Nodes <- FourNodes
  Base <- Position
  R = 2
  L = 2
  Alphas <- CodeAlphas
  ChunkSize = 2
  Draws <- SomeDraws
SPECIFICATION FairSpec
INVARIANTS
  TypeOK
  GraphWellFormed
  NeverOrphaned
PROPERTIES
  BuildEnds
