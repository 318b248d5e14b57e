\* Four points, the medoid in a chunk of its own.
CONSTANTS
  Nodes <- FourNodes
  Base <- Position
  R = 2
  L = 2
  Alphas <- CodeAlphas
  ChunkSize = 3
  Draws <- LastDraw
SPECIFICATION Spec
INVARIANTS
  Navigable
