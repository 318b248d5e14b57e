\* Two requests, read errors and panics.
CONSTANTS
  Nodes <- FourNodes
  Queries <- TwoQueries
  Medoid = 0
  K = 2
  Ef = 2
  W = 2
  Requests = {r1, r2}
  Workloads <- KiteLoad
  EpochMax = 2
  Faults = {"read", "panic"}
SPECIFICATION Spec
INVARIANTS
  TypeOK
  ScratchAccounting
  MarksFresh
  AnswerAsFresh
