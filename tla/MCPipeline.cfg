\* Beam width 2, no faults: three queries over two state slots, distances
\* all distinct, completions in every order.
CONSTANTS
  Nodes <- FourNodes
  Medoid = 0
  K = 2
  Ef = 3
  Npb = 2
  SidSpan = 4
  NumBlocks = 3
  TagSpan = 16
  MaxConcurrency = 2
  Queries <- ThreeQueries
  W = 2
  Workloads <- DistinctLoads
  QueueDepth = 4
  SqEntries = 4
  Faults = {}
SPECIFICATION FairSpec
INVARIANTS
  TypeOK
  InFlightExact
  RoutedHome
  SlotsSuffice
  NeverWaitsForNothing
  NeverBreathesOut
  OkIsQuiet
PROPERTIES
  MatchesBatched
  AnswersAll
