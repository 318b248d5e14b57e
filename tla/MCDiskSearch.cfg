\* Calls one after another, any of their reads failing; beams of one and two,
\* pools of one to all nodes.
CONSTANTS
  Nodes <- FiveNodes
  Bases <- SomeBases
  Graphs <- SomeGraphs
  Points <- SomePoints
  Requests <- SomeRequests
  MaxW = 3
  Levels = 2
  Npb = 2
SPECIFICATION Spec
INVARIANTS
  TypeOK
  PoolIsNearest
  AnswerExact
  StepForStep
  RoutingClose
