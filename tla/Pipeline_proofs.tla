-------------------------- MODULE Pipeline_proofs --------------------------
(***************************************************************************)
(* Theorems about Pipeline, for every graph, number of queries, width,     *)
(* concurrency and set of faults.  What is proved of the executor is used  *)
(* through Ring, an instance of its module of proofs.                      *)
(***************************************************************************)
EXTENDS Pipeline, BeamSearch_proofs

Ring == INSTANCE UringExecutor_proofs

\* The constants are such as the executor's theorems ask for.
LEMMA RingConstants ==
  /\ QueueDepth \in Nat \ {0}
  /\ SqEntries \in Nat
  /\ SqEntries >= QueueDepth
  /\ NumBlocks \in Nat \ {0}
  /\ Faults \subseteq Ring!FaultKinds
  /\ TagSpan \in Nat \ {0}
BY PipelineAssumption DEF Ring!FaultKinds

-----------------------------------------------------------------------------
\* Exec and Ring are two instances of one module: the same by definition.
LEMMA SameInvariant == Exec!IndInv <=> Ring!IndInv
<1>1. Exec!TypeOK <=> Ring!TypeOK
  BY DEF Exec!TypeOK, Ring!TypeOK, Exec!Sqe, Ring!Sqe, Exec!Cqe, Ring!Cqe, Exec!Slots, Ring!Slots,
    Exec!Blocks, Ring!Blocks, Exec!UserData, Ring!UserData, Exec!Results, Ring!Results,
    Exec!Contents, Ring!Contents, Exec!Garbage, Ring!Garbage, Exec!Statuses, Ring!Statuses,
    Exec!Running, Ring!Running, Exec!Request, Ring!Request, Exec!NoRequest, Ring!NoRequest,
    Exec!Delivery, Ring!Delivery, Exec!NoDelivery, Ring!NoDelivery, Exec!Tags, Ring!Tags
<1>2. Exec!SlotAccounting <=> Ring!SlotAccounting
  BY DEF Exec!SlotAccounting, Ring!SlotAccounting, Exec!OwnedOnce, Ring!OwnedOnce,
    Exec!Apart, Ring!Apart, Exec!NoneLost, Ring!NoneLost, Exec!Distinct, Ring!Distinct,
    Exec!SlotOf, Ring!SlotOf, Exec!SlotsIn, Ring!SlotsIn, Exec!KernelSlots, Ring!KernelSlots,
    Exec!FreeSlots, Ring!FreeSlots, Exec!Running, Ring!Running, Exec!Slots, Ring!Slots
<1>3. Exec!Linked <=> Ring!Linked
  BY DEF Exec!Linked, Ring!Linked, Exec!Serves, Ring!Serves, Exec!Answers, Ring!Answers,
    Exec!Faithful, Ring!Faithful, Exec!SlotOf, Ring!SlotOf, Exec!TagOf, Ring!TagOf,
    Exec!NoRequest, Ring!NoRequest, Exec!FreeSlots, Ring!FreeSlots
<1>4. Exec!Phases <=> Ring!Phases
  BY DEF Exec!Phases, Ring!Phases, Exec!NoDelivery, Ring!NoDelivery, Exec!Garbage, Ring!Garbage
<1> QED
  BY <1>1, <1>2, <1>3, <1>4 DEF Exec!IndInv, Ring!IndInv

LEMMA SameNext == Exec!Next <=> Ring!Next
<1> USE DEF Exec!vars, Ring!vars, Exec!ringVars, Ring!ringVars,
            Exec!executorVars, Ring!executorVars
<1>1. ASSUME NEW block, NEW tag
      PROVE  /\ Exec!StageRead(block, tag) <=> Ring!StageRead(block, tag)
             /\ Exec!StageRefused(block, tag) <=> Ring!StageRefused(block, tag)
  BY DEF Exec!StageRead, Ring!StageRead, Exec!StageRefused, Ring!StageRefused,
    Exec!Push, Ring!Push, Exec!Pack, Ring!Pack, Exec!Refused, Ring!Refused
<1>2. ASSUME NEW n PROVE Exec!Enter(n) <=> Ring!Enter(n)
  BY DEF Exec!Enter, Ring!Enter, Exec!Slots, Ring!Slots, Exec!Garbage, Ring!Garbage
<1>3. Exec!Flush <=> Ring!Flush
  BY <1>2 DEF Exec!Flush, Ring!Flush, Exec!Prefixes, Ring!Prefixes
<1>4. (Exec!FlushFails <=> Ring!FlushFails) /\ (Exec!DrainFails <=> Ring!DrainFails)
  BY DEF Exec!FlushFails, Ring!FlushFails, Exec!DrainFails, Ring!DrainFails, Exec!Fail, Ring!Fail
<1>5. ASSUME NEW min PROVE Exec!DrainEnter(min) <=> Ring!DrainEnter(min)
  BY <1>2 DEF Exec!DrainEnter, Ring!DrainEnter, Exec!Prefixes, Ring!Prefixes,
    Exec!Awaited, Ring!Awaited
<1>6. Exec!Drains = Ring!Drains
  <2>1. Exec!Outstanding = Ring!Outstanding
    BY DEF Exec!Outstanding, Ring!Outstanding, Exec!Slots, Ring!Slots,
      Exec!NoRequest, Ring!NoRequest
  <2> QED
    BY <2>1, Zenon DEF Exec!Drains, Ring!Drains, Exec!Cardinality, Ring!Cardinality
<1>7. Exec!Executor <=> Ring!Executor
  BY DEF Exec!Executor, Ring!Executor, Exec!Reap, Ring!Reap, Exec!Deliver, Ring!Deliver,
    Exec!CompletionError, Ring!CompletionError, Exec!DrainDone, Ring!DrainDone,
    Exec!SlotOf, Ring!SlotOf, Exec!TagOf, Ring!TagOf, Exec!NoRequest, Ring!NoRequest,
    Exec!NoDelivery, Ring!NoDelivery, Exec!Garbage, Ring!Garbage
<1>8. Exec!Device <=> Ring!Device
  BY DEF Exec!Device, Ring!Device, Exec!KernelComplete, Ring!KernelComplete,
    Exec!Complete, Ring!Complete, Exec!Results, Ring!Results, Exec!Garbage, Ring!Garbage
<1>9. (Exec!Drop <=> Ring!Drop) /\ (Exec!Dropped <=> Ring!Dropped)
  BY DEF Exec!Drop, Ring!Drop, Exec!Dropped, Ring!Dropped
<1>10. Exec!Caller <=> Ring!Caller
  BY <1>1, <1>3, <1>4, <1>5, <1>6, <1>9 DEF Exec!Caller, Ring!Caller
<1> QED
  BY <1>7, <1>8, <1>9, <1>10 DEF Exec!Next, Ring!Next

\* So what is proved of the executor holds of the one the scheduler uses.
LEMMA ExecInit == Exec!Init => Exec!IndInv
<1>1. Exec!Init <=> Ring!Init
  BY DEF Exec!Init, Ring!Init, Exec!RingInit, Ring!RingInit, Exec!Slots, Ring!Slots,
    Exec!NoRequest, Ring!NoRequest, Exec!NoDelivery, Ring!NoDelivery, Exec!Garbage, Ring!Garbage
<1>2. Ring!Init => Ring!IndInv
  BY RingConstants, Ring!InitInv
<1> QED
  BY <1>1, <1>2, SameInvariant

LEMMA ExecStep == Exec!IndInv /\ [Exec!Next]_(Exec!vars) => Exec!IndInv'
<1>1. Exec!vars = Ring!vars /\ Exec!vars' = Ring!vars'
  BY DEF Exec!vars, Ring!vars, Exec!ringVars, Ring!ringVars, Exec!executorVars, Ring!executorVars
<1>2. Ring!IndInv /\ [Ring!Next]_(Ring!vars) => Ring!IndInv'
  BY RingConstants, Ring!StepInv
<1>3. Exec!IndInv' <=> Ring!IndInv'
  BY SameInvariant, PTL
<1> QED
  BY <1>1, <1>2, <1>3, SameInvariant, SameNext

-----------------------------------------------------------------------------
\* How many state slots there are.
LEMMA SidFacts ==
  /\ NumQueries \in Nat /\ Concurrency \in Nat
  /\ Concurrency >= 1 /\ Concurrency <= NumQueries /\ Concurrency <= SidSpan - 1
  /\ IsFiniteSet(Sids) /\ Cardinality(Sids) = Concurrency
<1>1. NumQueries \in Nat
  BY PipelineAssumption, FS_CardinalityType DEF NumQueries
<1>2. NumQueries >= 1 /\ MaxConcurrency \in Nat /\ SidSpan \in Nat \ {0, 1}
  BY PipelineAssumption
<1>3. /\ Concurrency \in Nat /\ Concurrency >= 1 /\ Concurrency <= NumQueries
      /\ Concurrency <= SidSpan - 1
  BY <1>1, <1>2 DEF Concurrency
<1>4. IsFiniteSet(0 .. Concurrency - 1) /\ Cardinality(0 .. Concurrency - 1) = Concurrency
  BY <1>3, FS_Interval
<1> QED
  BY <1>1, <1>3, <1>4 DEF Sids


LEMMA NodeFacts ==
  ASSUME NEW node \in Nodes
  PROVE  node \in Nat /\ node <= Cardinality(Nodes) - 1 /\ Cardinality(Nodes) \in Nat
<1>1. Cardinality(Nodes) \in Nat
  BY BeamAssumption, FS_CardinalityType
<1>2. node \in 0 .. Cardinality(Nodes) - 1
  BY PipelineAssumption
<1> QED
  BY <1>1, <1>2

\* A tag gives back its state slot and its node, and fits below the buffer slot.
LEMMA TagFacts ==
  ASSUME NEW s \in Sids, NEW node \in Nodes
  PROVE  /\ Tag(s, node) \in 0 .. TagSpan - 1
         /\ SidOf(Tag(s, node)) = s /\ NodeOf(Tag(s, node)) = node
<1> DEFINE c == Cardinality(Nodes)
<1>1. /\ s \in Nat /\ s <= SidSpan - 1 /\ SidSpan \in Nat /\ SidSpan > 0
      /\ node \in Nat /\ node <= c - 1 /\ c \in Nat
      /\ TagSpan \in Nat /\ SidSpan * c <= TagSpan
  BY SidFacts, NodeFacts, PipelineAssumption DEF Sids
<1> HIDE DEF c
<1>2. SidSpan * node \in Nat /\ SidSpan * node <= SidSpan * (c - 1)
  BY <1>1
<1>3. SidSpan * (c - 1) = SidSpan * c - SidSpan
  BY <1>1
<1>4. SidSpan * c \in Nat
  BY <1>1
<1>5. s + SidSpan * node \in 0 .. TagSpan - 1
  BY <1>1, <1>2, <1>3, <1>4
<1>6. (s + SidSpan * node) % SidSpan = s /\ (s + SidSpan * node) \div SidSpan = node
  <2>1. s + SidSpan * node = node * SidSpan + s
    BY <1>1
  <2>2. node * SidSpan \in Nat
    BY <1>1
  <2>3. (node * SidSpan + s) % SidSpan = s
    BY <1>1, <2>2
  <2>4. (node * SidSpan + s) \div SidSpan = node
    BY <1>1, <2>2
  <2> QED
    BY <2>1, <2>3, <2>4
<1> QED
  BY <1>5, <1>6 DEF Tag, SidOf, NodeOf

\* The node found in a node's block, at its offset, is that node.
LEMMA BlockFacts ==
  ASSUME NEW node \in Nodes
  PROVE  BlockOf(node) \in 0 .. NumBlocks - 1 /\ NodeAt(BlockOf(node), node) = node
<1>1. node \in Nat /\ Npb \in Nat /\ Npb > 0 /\ NumBlocks \in Nat /\ 1 + node \div Npb < NumBlocks
  BY NodeFacts, PipelineAssumption
<1>2. node \div Npb \in Nat
  BY <1>1
<1>3. 1 + node \div Npb \in 0 .. NumBlocks - 1
  BY <1>1, <1>2
<1>4. node = Npb * (node \div Npb) + (node % Npb)
  BY <1>1
<1>5. ((1 + node \div Npb) - 1) * Npb = Npb * (node \div Npb)
  BY <1>1, <1>2
<1> QED
  BY <1>3, <1>4, <1>5 DEF BlockOf, NodeAt


-----------------------------------------------------------------------------
\* How many buffer slots there are.
LEMMA SlotFacts ==
  /\ Exec!Slots = 0 .. QueueDepth - 1
  /\ IsFiniteSet(Exec!Slots) /\ Cardinality(Exec!Slots) = QueueDepth
  /\ Exec!Outstanding \subseteq Exec!Slots /\ IsFiniteSet(Exec!Outstanding)
<1>1. QueueDepth \in Nat
  BY PipelineAssumption
<1>2. Exec!Slots = 0 .. QueueDepth - 1
  BY DEF Exec!Slots
<1>3. /\ IsFiniteSet(0 .. QueueDepth - 1)
      /\ Cardinality(0 .. QueueDepth - 1) = QueueDepth
  BY <1>1, FS_Interval
<1>4. Exec!Outstanding \subseteq 0 .. QueueDepth - 1
  BY <1>2 DEF Exec!Outstanding
<1>5. IsFiniteSet(Exec!Outstanding)
  BY <1>3, <1>4, FS_Subset
<1> QED
  BY <1>2, <1>3, <1>4, <1>5

\* The reads owed to a slot are as many as the slot counts.
LEMMA OwedFacts ==
  ASSUME IndInv, NEW s \in Sids
  PROVE  /\ IsFiniteSet(OwedTo(s)) /\ Cardinality(OwedTo(s)) \in Nat
         /\ OwedTo(s) \subseteq Exec!Outstanding
         /\ Cardinality(OwedTo(s)) = states[s].inFlight
         /\ states[s].inFlight = 0 <=> OwedTo(s) = {}
<1>1. IsFiniteSet(Exec!Slots)
  BY SlotFacts
<1>2. OwedTo(s) \subseteq Exec!Outstanding /\ OwedTo(s) \subseteq Exec!Slots
  BY DEF OwedTo, Exec!Outstanding
<1>3. IsFiniteSet(OwedTo(s))
  BY <1>1, <1>2, FS_Subset
<1>4. states[s].inFlight = Cardinality(OwedTo(s))
  BY DEF IndInv, InFlightExact
<1> QED
  BY <1>2, <1>3, <1>4, FS_CardinalityType, FS_EmptySet

\* Whenever the scheduler goes to the kernel a read is out: had none been, every
\* query would have finished.
LEMMA SomeOutstanding ==
  ASSUME IndInv, pc \in {"flush", "drain"}
  PROVE  Exec!Outstanding # {}
<1> DEFINE running == {s \in Sids : states[s].active}
<1>1. /\ remaining > 0 /\ \A s \in Sids : states[s].active => states[s].inFlight > 0
      /\ remaining = (NumQueries - nextQ) + Cardinality(running)
      /\ nextQ < NumQueries => running = Sids
      /\ nextQ \in 0 .. NumQueries
  BY DEF IndInv, PassedBy, QueriesCounted, TypeOK
<1>2. running # {}
  <2> SUFFICES ASSUME running = {} PROVE FALSE
    OBVIOUS
  <2> HIDE DEF running
  <2>1. Cardinality(running) = 0
    BY FS_EmptySet
  <2>2. Sids # {}
    BY SidFacts, FS_EmptySet
  <2>3. ~ (nextQ < NumQueries)
    BY <1>1, <2>2
  <2> QED
    BY <1>1, <2>1, <2>3, SidFacts
<1>3. PICK s \in Sids : states[s].active
  BY <1>2
<1>4. states[s].inFlight # 0
  <2>1. states[s].inFlight > 0 /\ states[s].inFlight \in Nat
    <3>1. states[s].inFlight \in Nat
      BY OwedFacts
    <3> QED
      BY <1>1, <1>3, <3>1
  <2> QED
    BY <2>1
<1> QED
  BY <1>4, OwedFacts

\* The scheduler keeps to the executor's terms: a step of it is a step of the
\* executor or leaves the executor alone.
LEMMA ExecNext ==
  ASSUME IndInv, [Next]_vars
  PROVE  [Exec!Next]_(Exec!vars)
<1> USE DEF Exec!vars, Exec!ringVars, Exec!executorVars
<1>1. ASSUME UNCHANGED execVars PROVE UNCHANGED Exec!vars
  BY <1>1 DEF execVars
<1>2. ASSUME Stage PROVE [Exec!Next]_(Exec!vars)
  <2> DEFINE block == BlockOf(Head(frontier))
             tag == Tag(sid, Head(frontier))
  <2>1. sid \in Sids /\ Head(frontier) \in Nodes
    <3>1. pc = "stage" /\ frontier \in Seq(Nodes)
      BY <1>2 DEF IndInv, TypeOK, Stage
    <3>2. sid \in Sids /\ frontier # <<>>
      BY <3>1 DEF IndInv, StagingApart
    <3> QED
      BY <3>1, <3>2, HeadTailProperties
  <2>2. block \in 0 .. NumBlocks /\ tag \in 0 .. TagSpan
    <3>1. block \in 0 .. NumBlocks - 1 /\ tag \in 0 .. TagSpan - 1
      BY <2>1, BlockFacts, TagFacts
    <3>2. NumBlocks \in Nat /\ TagSpan \in Nat
      BY PipelineAssumption
    <3> QED
      BY <3>1, <3>2
  <2>3. Exec!StageRead(block, tag) \/ Exec!StageRefused(block, tag)
    BY <1>2, Zenon DEF Stage
  <2> HIDE DEF block, tag
  <2> QED
    BY <2>2, <2>3 DEF Exec!Next, Exec!Caller
<1>3. ASSUME Wait PROVE Exec!Next
  <2>1. pc = "drain" /\ Exec!DrainEnter(1)
    BY <1>3 DEF Wait
  <2>2. IsFiniteSet(Exec!Outstanding)
    BY SlotFacts
  <2>3. Cardinality(Exec!Outstanding) \in Nat /\ Cardinality(Exec!Outstanding) # 0
    BY <2>1, <2>2, SomeOutstanding, FS_CardinalityType, FS_EmptySet
  <2>4. Exec!Drains = 0 .. Cardinality(Exec!Outstanding)
    BY Zenon DEF Exec!Drains, Exec!Cardinality, Cardinality
  <2>5. 1 \in Exec!Drains
    BY <2>3, <2>4
  <2> QED
    BY <2>1, <2>5 DEF Exec!Next, Exec!Caller
<1>4. ASSUME PassBy \/ Expand \/ Finish \/ EndPhaseA PROVE UNCHANGED execVars
  BY <1>4 DEF PassBy, Expand, Finish, EndPhaseA
<1>5. ASSUME FlushReads \/ IoError \/ DropExecutor PROVE Exec!Next
  BY <1>5 DEF FlushReads, IoError, DropExecutor, Exec!Next, Exec!Caller, Exec!Executor
<1>6. ASSUME Land PROVE Exec!Next
  <2>1. Exec!Deliver
    BY <1>6, Zenon DEF Land
  <2> QED
    BY <2>1 DEF Exec!Next, Exec!Executor
<1>8. ASSUME Reap \/ EndPhaseB \/ Device PROVE Exec!Next
  <2>1. Exec!Reap \/ Exec!DrainDone \/ Exec!Device
    BY <1>8, Zenon DEF Reap, EndPhaseB, Device
  <2> QED
    BY <2>1, Zenon DEF Exec!Next, Exec!Executor
<1>7. ASSUME Returned \/ UNCHANGED vars PROVE UNCHANGED execVars
  BY <1>7 DEF Returned, vars
<1> QED
  BY <1>1, <1>2, <1>3, <1>4, <1>5, <1>6, <1>7, <1>8 DEF Next, Scheduler

-----------------------------------------------------------------------------
\* A step that leaves the requests of the executor, the state slots and the
\* frontier alone keeps what ties them together, unless it begins to stage.
LEMMA Frame ==
  ASSUME IndInv, UNCHANGED <<asked, load, states, frontier>>,
         pc' # "stage" \/ (pc' = pc /\ sid' = sid)
  PROVE  InFlightExact' /\ RoutedHome' /\ SlotsTidy' /\ StagingApart' /\ AllOwed'
<1>1. \A s : OwedTo(s)' = OwedTo(s)
  BY DEF OwedTo, Exec!Slots, Exec!NoRequest
<1>2. InFlightExact'
  BY <1>1 DEF IndInv, InFlightExact
<1>3. RoutedHome'
  BY <1>1 DEF IndInv, RoutedHome
<1>4. AllOwed'
  BY DEF IndInv, AllOwed, Exec!Outstanding, Exec!Slots, Exec!NoRequest
<1>5. StagingApart'
  BY <1>1 DEF IndInv, StagingApart
<1>6. SlotsTidy'
  <2>1. ASSUME NEW s \in Sids PROVE SlotTidy(s)'
    <3>1. SlotTidy(s) /\ states' = states
      BY DEF IndInv, SlotsTidy
    <3>2. /\ Unstaged(s) \in Nat /\ Unstaged(s)' \in Nat /\ Unstaged(s)' <= Unstaged(s)
      <4>1. frontier \in Seq(Nodes) /\ frontier' = frontier
        BY DEF IndInv, TypeOK
      <4>2. Len(frontier) \in Nat /\ Len(frontier)' = Len(frontier)
        BY <4>1, LenProperties
      <4> QED
        BY <4>2 DEF Unstaged
    <3>3. states[s] \in QState
      BY DEF IndInv, TypeOK
    <3>4. states[s].inFlight \in Nat /\ states[s].reads \in Nat /\ W \in Nat
      BY <3>3, BeamAssumption, FS_CardinalityType DEF QState
    <3>5. PICK E \in SUBSET Nodes :
            /\ Tidy([visited |-> states[s].visited, pool |-> states[s].pool], E)
            /\ states[s].reads + Unstaged(s) <= Cardinality(E)
      BY <3>1 DEF SlotTidy
    <3>6. Cardinality(E) \in Nat
      BY BeamAssumption, FS_Subset, FS_CardinalityType
    <3>7. states[s].reads + Unstaged(s)' <= Cardinality(E)
      BY <3>2, <3>4, <3>5, <3>6
    <3>8. /\ states[s].inFlight + Unstaged(s)' <= W
          /\ states[s].inFlight + Unstaged(s)' > 0 => states[s].active
      BY <3>1, <3>2, <3>4 DEF SlotTidy
    <3> QED
      BY <3>1, <3>5, <3>7, <3>8, Zenon DEF SlotTidy
  <2> QED
    BY <2>1 DEF SlotsTidy, Sids, Concurrency, NumQueries
<1> QED
  BY <1>2, <1>3, <1>4, <1>5, <1>6

\* The steps of the scheduler that leave them alone: all that neither touch a
\* query nor stage a read.
Quiet ==
  \/ PassBy \/ EndPhaseA \/ FlushReads \/ Wait \/ Reap \/ EndPhaseB
  \/ IoError \/ DropExecutor \/ Device \/ Returned \/ UNCHANGED vars

LEMMA QuietStep ==
  ASSUME IndInv, Quiet, Exec!IndInv'
  PROVE  IndInv'
<1>1. /\ UNCHANGED <<asked, load, states, frontier, nextQ, remaining, results>>
      /\ pc' # "stage" \/ (pc' = pc /\ sid' = sid)
  <2>1. CASE PassBy \/ EndPhaseA \/ Returned \/ UNCHANGED vars
    BY <2>1 DEF PassBy, EndPhaseA, Returned, vars, execVars, given
  <2>2. CASE FlushReads \/ Wait
    BY <2>2 DEF FlushReads, Wait, given, Exec!Flush, Exec!DrainEnter, Exec!executorVars
  <2>3. CASE Reap \/ EndPhaseB \/ Device
    BY <2>3 DEF Reap, EndPhaseB, Device, given, Exec!Reap, Exec!DrainDone, Exec!Device,
      Exec!executorVars
  <2>4. CASE IoError \/ DropExecutor
    BY <2>4 DEF IoError, DropExecutor, given, Exec!FlushFails, Exec!DrainFails, Exec!Fail,
      Exec!CompletionError, Exec!Drop
  <2> QED
    BY <2>1, <2>2, <2>3, <2>4 DEF Quiet
<1>2. InFlightExact' /\ RoutedHome' /\ SlotsTidy' /\ StagingApart' /\ AllOwed'
  BY <1>1, Frame
<1>3. QueriesCounted'
  BY <1>1 DEF IndInv, QueriesCounted
<1>4. /\ pc' \in {"phaseA", "stage", "flush", "drain", "landing", "ok", "err"}
      /\ sid' \in 0 .. Concurrency /\ InStep' /\ PassedBy'
  <2>1. /\ pc \in {"phaseA", "stage", "flush", "drain", "landing", "ok", "err"}
        /\ sid \in 0 .. Concurrency /\ InStep /\ PassedBy /\ remaining \in Nat
        /\ Concurrency \in Nat
    BY SidFacts DEF IndInv, TypeOK
  <2>2. CASE PassBy
    BY <1>1, <2>1, <2>2 DEF PassBy, Busy, InStep, PassedBy, Sids, execVars
  <2>3. CASE EndPhaseA
    BY <1>1, <2>1, <2>3 DEF EndPhaseA, InStep, PassedBy, Sids, execVars
  <2>4. CASE FlushReads
    BY <1>1, <2>1, <2>4 DEF FlushReads, InStep, PassedBy, Sids, Exec!Flush, Exec!executorVars
  <2>5. CASE Wait
    BY <1>1, <2>1, <2>5 DEF Wait, InStep, PassedBy, Sids, Exec!DrainEnter
  <2>6. CASE Reap
    BY <1>1, <2>1, <2>6 DEF Reap, InStep, PassedBy, Sids, Exec!Reap
  <2>7. CASE EndPhaseB
    BY <1>1, <2>1, <2>7 DEF EndPhaseB, InStep, PassedBy, Sids, Exec!DrainDone
  <2>8. CASE IoError
    BY <1>1, <2>1, <2>8 DEF IoError, InStep, PassedBy, Sids
  <2>9. CASE DropExecutor
    BY <1>1, <2>1, <2>9 DEF DropExecutor, InStep, PassedBy, Sids
  <2>10. CASE Device
    BY <1>1, <2>1, <2>10 DEF Device, InStep, PassedBy, Sids, Exec!Device, Exec!executorVars
  <2>11. CASE Returned \/ UNCHANGED vars
    BY <1>1, <2>1, <2>11 DEF Returned, vars, execVars, InStep, PassedBy, Sids
  <2> QED
    BY <2>2, <2>3, <2>4, <2>5, <2>6, <2>7, <2>8, <2>9, <2>10, <2>11 DEF Quiet
<1>5. TypeOK'
  BY <1>1, <1>4 DEF IndInv, TypeOK
<1> QED
  BY <1>2, <1>3, <1>4, <1>5 DEF IndInv

-----------------------------------------------------------------------------
\* A sequence without repetition has as many elements as it is long.
LEMMA AllDifferent ==
  ASSUME NEW S, NEW f \in Seq(S), \A i, j \in DOMAIN f : f[i] = f[j] => i = j
  PROVE  IsFiniteSet(ToSet(f)) /\ Cardinality(ToSet(f)) = Len(f)
<1>1. Len(f) \in Nat /\ DOMAIN f = 1 .. Len(f) /\ f = [i \in 1 .. Len(f) |-> f[i]]
  BY LenProperties
<1>2. ToSet(f) = {f[i] : i \in 1 .. Len(f)}
  BY <1>1 DEF ToSet
<1>3. f \in Bijection(1 .. Len(f), ToSet(f))
  <2>1. f \in [1 .. Len(f) -> ToSet(f)]
    BY <1>1, <1>2
  <2>2. IsInjective(f)
    BY DEF IsInjective
  <2>3. \A t \in ToSet(f) : \E i \in 1 .. Len(f) : f[i] = t
    BY <1>2
  <2> QED
    BY <2>1, <2>2, <2>3, Zenon DEF Bijection, Injection, Surjection
<1>4. IsFiniteSet(1 .. Len(f)) /\ Cardinality(1 .. Len(f)) = Len(f)
  <2>1. Len(f) \in Nat
    BY LenProperties
  <2>2. /\ IsFiniteSet(1 .. Len(f))
        /\ Cardinality(1 .. Len(f)) = IF 1 > Len(f) THEN 0 ELSE Len(f) - 1 + 1
    BY <2>1, FS_Interval
  <2> QED
    BY <2>1, <2>2
<1> QED
  BY <1>3, <1>4, FS_Bijection DEF ExistsBijection

\* The frontier of a tidy beam: nodes visited and never expanded, each once.
LEMMA FrontierApart ==
  ASSUME NEW visited \in SUBSET Nodes, NEW pool \in Seq(Cand), NEW E \in SUBSET Nodes,
         Tidy([visited |-> visited, pool |-> pool], E)
  PROVE  LET f == Frontier(pool) IN
         /\ f \in Seq(Nodes) /\ Len(f) <= W
         /\ \A i, j \in DOMAIN f : f[i] = f[j] => i = j
         /\ \A i \in DOMAIN f : f[i] \in visited
         /\ Cardinality(E \cup ToSet(f)) = Cardinality(E) + Len(f)
<1> DEFINE at == FrontierAt(pool)
           f == Frontier(pool)
<1>1. /\ Len(at) <= W
      /\ \A j \in DOMAIN at : ~ pool[at[j]].expanded
      /\ \A j, l \in DOMAIN at : at[j] = at[l] => j = l
  BY FrontierAtFacts
<1>2. /\ f \in Seq(Nodes) /\ Len(f) = Len(at) /\ DOMAIN f = DOMAIN at
      /\ \A j \in DOMAIN at : at[j] \in DOMAIN pool /\ f[j] = pool[at[j]].id
  BY FrontierFacts
<1>3. /\ \A i \in DOMAIN pool :
           pool[i].id \in visited /\ (pool[i].expanded <=> pool[i].id \in E)
      /\ \A i, j \in DOMAIN pool : pool[i].id = pool[j].id => i = j
  BY DEF Tidy
<1> HIDE DEF at, f
<1>4. \A i, j \in DOMAIN f : f[i] = f[j] => i = j
  BY <1>1, <1>2, <1>3
<1>5. \A i \in DOMAIN f : f[i] \in visited /\ f[i] \notin E
  BY <1>1, <1>2, <1>3
<1>6. IsFiniteSet(ToSet(f)) /\ Cardinality(ToSet(f)) = Len(f)
  BY <1>2, <1>4, AllDifferent
<1>7. E \cap ToSet(f) = {}
  BY <1>5 DEF ToSet
<1>8. IsFiniteSet(E) /\ Cardinality(E) \in Nat
  BY BeamAssumption, FS_Subset, FS_CardinalityType
<1>9. Cardinality(E \cup ToSet(f)) = Cardinality(E) + Len(f)
  <2>1. Cardinality(E \cup ToSet(f)) = Cardinality(E) + Cardinality(ToSet(f)) - Cardinality(E \cap ToSet(f))
    BY <1>6, <1>8, FS_Union
  <2>2. Cardinality(E \cap ToSet(f)) = 0
    BY <1>7, FS_EmptySet
  <2>3. Len(f) \in Nat
    BY <1>2, LenProperties
  <2> QED
    BY <1>6, <1>8, <2>1, <2>2, <2>3
<1> QED
  BY <1>1, <1>2, <1>4, <1>5, <1>9 DEF f

\* What a state slot holds after its round's neighbours have been integrated.
LEMMA IntegratedFacts ==
  ASSUME IndInv, NEW s \in Sids
  PROVE  LET new == Integrated(s)
             st == states[s]
         IN  /\ new.visited \in SUBSET Nodes /\ new.pool \in Seq(Cand)
             /\ st.visited \subseteq new.visited
             /\ new = [visited |-> new.visited, pool |-> new.pool]
             /\ \A E : Tidy([visited |-> st.visited, pool |-> st.pool], E) => Tidy(new, E)
<1> DEFINE st == states[s]
           route == load.route[st.qi]
           visited == st.visited
           pool == st.pool
           nbs == st.pending
           new == Integrated(s)
<1>1. st \in QState /\ load \in Workload
  BY PipelineAssumption DEF IndInv, TypeOK
<1>2. /\ st.qi \in Queries /\ visited \in SUBSET Nodes /\ pool \in Seq(Cand)
      /\ nbs \in Seq(Nodes)
  BY <1>1 DEF QState
<1>3. route \in [Nodes -> Nat]
  BY <1>1, <1>2 DEF Workload
<1>4. new = Integrate(visited, pool, route, nbs)
  BY DEF Integrated
<1> HIDE DEF visited, pool, route, nbs, new
<1>5. /\ new \in Beam /\ visited \subseteq new.visited
      /\ \A E : Tidy([visited |-> visited, pool |-> pool], E) => Tidy(new, E)
  BY <1>2, <1>3, <1>4, IntegrateFacts
<1>6. /\ new.visited \in SUBSET Nodes /\ new.pool \in Seq(Cand)
      /\ new = [visited |-> new.visited, pool |-> new.pool]
  BY <1>5 DEF Beam
<1> QED
  BY <1>5, <1>6 DEF visited, pool, new

\* A state slot that waits for no read and is given another state owes none.
LEMMA IdleSlotChanges ==
  ASSUME IndInv, NEW s \in Sids, s = sid, pc = "phaseA", ~ Busy(s),
         NEW X \in QState, X.inFlight = 0, states' = [states EXCEPT ![s] = X],
         UNCHANGED asked, pc' = "phaseA" \/ (pc' = "stage" /\ sid' = sid)
  PROVE  /\ InFlightExact' /\ RoutedHome' /\ AllOwed' /\ OwedTo(s)' = {}
         /\ states'[s] = X /\ \A t \in Sids \ {s} : states'[t] = states[t]
         /\ states' \in [Sids -> QState]
         /\ \A t \in Sids \ {s} : SlotTidy(t)'
<1>1. \A t : OwedTo(t)' = OwedTo(t)
  BY DEF OwedTo, Exec!Slots, Exec!NoRequest
<1>2. states \in [Sids -> QState]
  BY DEF IndInv, TypeOK
<1>3. /\ states'[s] = X /\ \A t \in Sids \ {s} : states'[t] = states[t]
      /\ states' \in [Sids -> QState]
  BY <1>2
<1>4. states[s].inFlight = 0
  <2>1. states[s].inFlight \in Nat
    BY <1>2, BeamAssumption DEF QState
  <2> QED
    BY <2>1 DEF Busy
<1>5. OwedTo(s) = {}
  BY <1>4, OwedFacts
<1>6. InFlightExact'
  <2> SUFFICES ASSUME NEW t \in Sids PROVE states'[t].inFlight = Cardinality(OwedTo(t)')
    BY DEF InFlightExact
  <2>1. CASE t = s
    BY <1>1, <1>3, <1>5, <2>1, FS_EmptySet
  <2>2. CASE t # s
    BY <1>1, <1>3, <2>2 DEF IndInv, InFlightExact
  <2> QED
    BY <2>1, <2>2
<1>7. RoutedHome'
  BY <1>1, <1>3, <1>5 DEF IndInv, RoutedHome
<1>8. AllOwed'
  BY DEF IndInv, AllOwed, Exec!Outstanding, Exec!Slots, Exec!NoRequest
<1>9. ASSUME NEW t \in Sids \ {s} PROVE SlotTidy(t)'
  <2>1. SlotTidy(t) /\ Unstaged(t) = 0 /\ Unstaged(t)' = 0
    BY DEF IndInv, SlotsTidy, Unstaged
  <2> QED
    BY <1>3, <2>1 DEF SlotTidy
<1> QED
  BY <1>1, <1>3, <1>5, <1>6, <1>7, <1>8, <1>9

\* A state slot whose candidates alone have changed, with no neighbours left.
Into(st, v, p) == [st EXCEPT !.visited = v, !.pool = p, !.pending = <<>>]

LEMMA IntoFacts ==
  ASSUME NEW st \in QState, NEW v \in SUBSET Nodes, NEW p \in Seq(Cand)
  PROVE  LET X == Into(st, v, p) IN
         /\ X \in QState /\ X.visited = v /\ X.pool = p /\ X.qi = st.qi
         /\ X.inFlight = st.inFlight /\ X.reads = st.reads /\ X.active = st.active
         /\ X.exact = st.exact /\ X.pending = <<>>
<1>1. <<>> \in Seq(Nodes)
  BY EmptySeq
<1> QED
  BY <1>1 DEF QState, Into

-----------------------------------------------------------------------------
\* Expand begins a round of as many reads as the beam is wide, at most, all of
\* nodes its query has not read yet.
LEMMA ExpandStep ==
  ASSUME IndInv, Expand, Exec!IndInv', NEW s \in Sids, s = sid
  PROVE  IndInv'
<1> DEFINE st == states[s]
           new == Integrated(s)
           f == Frontier(new.pool)
           m == MarkExpanded(new.pool)
           X == Into(st, new.visited, m)
<1>1. /\ pc = "phaseA" /\ ~ Busy(s) /\ f # <<>> /\ frontier' = f
      /\ pc' = "stage"
      /\ UNCHANGED <<execVars, given, sid, nextQ, remaining, results>>
  BY DEF Expand
<1>2. states \in [Sids -> QState]
  BY DEF IndInv, TypeOK
<1>3. states' = [states EXCEPT ![s] = X]
  BY <1>1, <1>2 DEF Expand, QState, Into
<1>4. /\ new.visited \in SUBSET Nodes /\ new.pool \in Seq(Cand)
      /\ st.visited \subseteq new.visited
      /\ new = [visited |-> new.visited, pool |-> new.pool]
      /\ \A E : Tidy([visited |-> st.visited, pool |-> st.pool], E) => Tidy(new, E)
  BY <1>1, IntegratedFacts
<1>5. PICK E \in SUBSET Nodes :
        /\ Tidy([visited |-> st.visited, pool |-> st.pool], E)
        /\ st.reads + Unstaged(s) <= Cardinality(E)
  BY <1>1 DEF IndInv, SlotsTidy, SlotTidy
<1>6. /\ st \in QState /\ st.inFlight = 0 /\ st.active /\ st.reads \in Nat
      /\ st.reads <= Cardinality(E) /\ Cardinality(E) \in Nat
  <2>1. st \in QState /\ st.inFlight \in Nat /\ st.reads \in Nat
    BY <1>1, <1>2, BeamAssumption, FS_CardinalityType DEF QState
  <2>2. Cardinality(E) \in Nat
    BY BeamAssumption, FS_Subset, FS_CardinalityType
  <2>3. Unstaged(s) = 0
    BY <1>1 DEF Unstaged
  <2> HIDE DEF st
  <2> QED
    BY <1>1, <1>5, <2>1, <2>2, <2>3 DEF Busy, st
<1> HIDE DEF new
<1> DEFINE F == E \cup ToSet(f)
<1>7. Tidy([visited |-> new.visited, pool |-> new.pool], E)
  BY <1>4, <1>5
<1>8. /\ f \in Seq(Nodes) /\ Len(f) <= W
      /\ \A i, j \in DOMAIN f : f[i] = f[j] => i = j
      /\ \A i \in DOMAIN f : f[i] \in new.visited
      /\ Cardinality(F) = Cardinality(E) + Len(f)
  BY <1>4, <1>7, FrontierApart, Zenon
<1>9. Tidy([visited |-> new.visited, pool |-> m], F) /\ F \in SUBSET Nodes
  BY <1>4, <1>7, RoundExpands, Zenon
<1>10. m \in Seq(Cand)
  BY <1>4, MarkExpandedFacts
<1>11. Len(f) \in Nat /\ Len(f) > 0
  BY <1>1, <1>8, EmptySeq, LenProperties
<1>12. /\ X \in QState /\ X.inFlight = 0 /\ X.active /\ X.reads = st.reads
       /\ X.visited = new.visited /\ X.pool = m
  <2> HIDE DEF st, m
  <2>2. st \in QState /\ new.visited \in SUBSET Nodes
    BY <1>4, <1>6
  <2>3. /\ X \in QState /\ X.visited = new.visited /\ X.pool = m /\ X.qi = st.qi
        /\ X.inFlight = st.inFlight /\ X.reads = st.reads /\ X.active = st.active
    BY <1>10, <2>2, IntoFacts
  <2> HIDE DEF X
  <2> QED
    BY <1>6, <2>3
<1> HIDE DEF st, f, F, m, X
<1>13. UNCHANGED <<asked, status, load>>
  BY <1>1 DEF execVars, given
<1>14. /\ InFlightExact' /\ RoutedHome' /\ AllOwed' /\ OwedTo(s)' = {}
       /\ states'[s] = X /\ \A t \in Sids \ {s} : states'[t] = states[t]
       /\ states' \in [Sids -> QState]
       /\ \A t \in Sids \ {s} : SlotTidy(t)'
  BY <1>1, <1>3, <1>12, <1>13, IdleSlotChanges
<1>15. SlotTidy(s)'
  <2>1. Unstaged(s)' = Len(f)
    BY <1>1 DEF Unstaged
  <2>2. X.reads + Len(f) <= Cardinality(F)
    BY <1>6, <1>8, <1>11, <1>12
  <2>3. X.inFlight + Len(f) <= W /\ X.active
    BY <1>6, <1>8, <1>11, <1>12
  <2> HIDE DEF F
  <2> QED
    BY <1>9, <1>12, <1>14, <2>1, <2>2, <2>3 DEF SlotTidy
<1>16. SlotsTidy'
  BY <1>14, <1>15 DEF SlotsTidy
<1>17. StagingApart'
  <2>1. frontier' # <<>> /\ frontier' = f
    BY <1>1
  <2> QED
    BY <1>1, <1>8, <1>12, <1>14, <2>1 DEF StagingApart
<1>18. InStep' /\ PassedBy'
  BY <1>1, <1>13, <1>14 DEF IndInv, InStep, PassedBy, Sids
<1>19. QueriesCounted'
  <2>1. \A t \in Sids : states'[t].active <=> states[t].active
    BY <1>6, <1>12, <1>14 DEF st
  <2>2. {t \in Sids : states'[t].active} = {t \in Sids : states[t].active}
    BY <2>1
  <2> QED
    BY <1>1, <2>2 DEF IndInv, QueriesCounted
<1>20. TypeOK'
  BY <1>1, <1>8, <1>13, <1>14 DEF IndInv, TypeOK
<1> QED
  BY <1>14, <1>16, <1>17, <1>18, <1>19, <1>20 DEF IndInv

-----------------------------------------------------------------------------
\* A state slot that a query has left.
Left(st, v, p) ==
  [st EXCEPT !.visited = v, !.pool = p, !.pending = <<>>, !.exact = <<>>, !.active = FALSE]

LEMMA LeftFacts ==
  ASSUME NEW st \in QState, NEW v \in SUBSET Nodes, NEW p \in Seq(Cand)
  PROVE  LET X == Left(st, v, p) IN
         /\ X \in QState /\ X.visited = v /\ X.pool = p
         /\ X.inFlight = st.inFlight /\ X.reads = st.reads /\ X.active = FALSE
<1>1. <<>> \in Seq(Nodes) /\ <<>> \in Seq(Scored)
  BY EmptySeq
<1> QED
  BY <1>1 DEF QState, Left

\* A state slot that a query begins in is tidy: nothing is expanded yet.
LEMMA SeedFacts ==
  ASSUME NEW q \in Queries, load \in Workload
  PROVE  /\ Seed(q) \in QState /\ Seed(q).inFlight = 0 /\ Seed(q).reads = 0 /\ Seed(q).active
         /\ Tidy([visited |-> Seed(q).visited, pool |-> Seed(q).pool], {})
<1> DEFINE c == [dist |-> load.route[q][Medoid], id |-> Medoid, expanded |-> FALSE]
           pool == <<c>>
<1>1. Medoid \in Nodes /\ load.route[q][Medoid] \in Nat
  BY BeamAssumption DEF Workload
<1>2. c \in Cand /\ c.id = Medoid /\ ~ c.expanded
  BY <1>1 DEF Cand
<1> HIDE DEF c
<1>3. pool \in Seq(Cand) /\ DOMAIN pool = {1} /\ pool[1] = c
  BY <1>2
<1>4. <<>> \in Seq(Nodes) /\ <<>> \in Seq(Scored)
  BY EmptySeq
<1>5. 0 \in 0 .. W /\ 0 \in 0 .. Cardinality(Nodes)
  BY BeamAssumption, FS_CardinalityType
<1> HIDE DEF pool
<1>6. Seed(q) = [qi |-> q, pool |-> pool, exact |-> <<>>, visited |-> {Medoid},
                 pending |-> <<>>, inFlight |-> 0, reads |-> 0, active |-> TRUE]
  BY DEF Seed, pool, c
<1>7. Seed(q) \in QState /\ Seed(q).inFlight = 0 /\ Seed(q).reads = 0 /\ Seed(q).active
  BY <1>1, <1>3, <1>4, <1>5, <1>6 DEF QState
<1>8. [visited |-> Seed(q).visited, pool |-> Seed(q).pool] = [visited |-> {Medoid}, pool |-> pool]
  BY <1>6
<1>9. Tidy([visited |-> {Medoid}, pool |-> pool], {})
  <2> DEFINE b == [visited |-> {Medoid}, pool |-> pool]
  <2>1. b \in Beam /\ b.visited = {Medoid} /\ b.pool = pool
    BY <1>1, <1>3 DEF Beam
  <2> HIDE DEF b
  <2>2. Tidy(b, {})
    BY <1>2, <1>3, <2>1 DEF Tidy
  <2> QED
    BY <2>2 DEF b
<1> QED
  BY <1>7, <1>8, <1>9

\* The state slots that have a query.
Running == {t \in Sids : states[t].active}

LEMMA RunningFacts ==
  /\ IsFiniteSet(Running) /\ Cardinality(Running) \in Nat /\ Running \subseteq Sids
  /\ Running # {} => Cardinality(Running) > 0
<1>1. Running \subseteq Sids
  BY DEF Running
<1>2. IsFiniteSet(Running)
  BY <1>1, SidFacts, FS_Subset
<1> QED
  BY <1>1, <1>2, FS_CardinalityType, FS_EmptySet

\* Finish ends a query none of whose reads is out, and begins the next.
LEMMA FinishStep ==
  ASSUME IndInv, Finish, Exec!IndInv', NEW s \in Sids, s = sid
  PROVE  IndInv'
<1> DEFINE st == states[s]
           new == Integrated(s)
           X == IF nextQ < NumQueries THEN Seed(nextQ) ELSE Left(st, new.visited, new.pool)
<1>1. /\ pc = "phaseA" /\ ~ Busy(s) /\ remaining' = remaining - 1
      /\ UNCHANGED <<execVars, given, pc, frontier>>
      /\ results' = [results EXCEPT ![st.qi] = [top |-> st.exact, reads |-> st.reads]]
      /\ \/ nextQ < NumQueries /\ nextQ' = nextQ + 1 /\ sid' = sid
         \/ ~ (nextQ < NumQueries) /\ nextQ' = nextQ /\ sid' = sid + 1
  BY DEF Finish
<1>2. states' = [states EXCEPT ![s] = X]
  BY DEF Finish, Left
<1>3. /\ states \in [Sids -> QState] /\ load \in Workload /\ nextQ \in 0 .. NumQueries
      /\ NumQueries \in Nat /\ remaining \in Nat
      /\ results \in [Queries -> AnswerSet \cup {NoAnswer}]
  BY PipelineAssumption, SidFacts DEF IndInv, TypeOK
<1>4. /\ new.visited \in SUBSET Nodes /\ new.pool \in Seq(Cand)
      /\ new = [visited |-> new.visited, pool |-> new.pool]
      /\ \A E : Tidy([visited |-> st.visited, pool |-> st.pool], E) => Tidy(new, E)
  BY IntegratedFacts
<1>5. PICK E \in SUBSET Nodes :
        /\ Tidy([visited |-> st.visited, pool |-> st.pool], E)
        /\ st.reads + Unstaged(s) <= Cardinality(E)
  BY DEF IndInv, SlotsTidy, SlotTidy
<1>6. /\ st \in QState /\ st.inFlight = 0 /\ st.active /\ st.reads \in Nat
      /\ st.reads <= Cardinality(E) /\ Cardinality(E) \in Nat
  <2>1. st \in QState /\ st.inFlight \in Nat /\ st.reads \in Nat
    BY <1>3, BeamAssumption, FS_CardinalityType DEF QState
  <2>2. Cardinality(E) \in Nat
    BY BeamAssumption, FS_Subset, FS_CardinalityType
  <2>3. Unstaged(s) = 0
    BY <1>1 DEF Unstaged
  <2> HIDE DEF st
  <2> QED
    BY <1>1, <1>5, <2>1, <2>2, <2>3 DEF Busy, st
<1>7. [visited |-> new.visited, pool |-> new.pool] = new /\ Tidy(new, E)
  BY <1>4, <1>5
<1> HIDE DEF st, new
<1>8. ASSUME nextQ < NumQueries
      PROVE  /\ Seed(nextQ) \in QState /\ Seed(nextQ).inFlight = 0
             /\ Seed(nextQ).reads = 0 /\ Seed(nextQ).active
             /\ Tidy([visited |-> Seed(nextQ).visited, pool |-> Seed(nextQ).pool], {})
  <2>1. nextQ \in Queries
    BY <1>3, <1>8, PipelineAssumption
  <2> QED
    BY <1>3, <2>1, SeedFacts
<1>9. LET L == Left(st, new.visited, new.pool) IN
      /\ L \in QState /\ L.visited = new.visited /\ L.pool = new.pool
      /\ L.inFlight = 0 /\ L.reads = st.reads /\ L.active = FALSE
  <2>1. st \in QState /\ new.visited \in SUBSET Nodes /\ new.pool \in Seq(Cand)
    BY <1>4, <1>6
  <2> DEFINE L == Left(st, new.visited, new.pool)
  <2>2. /\ L \in QState /\ L.visited = new.visited /\ L.pool = new.pool
        /\ L.inFlight = st.inFlight /\ L.reads = st.reads /\ L.active = FALSE
    BY <2>1, LeftFacts
  <2> HIDE DEF L
  <2>3. L.inFlight = 0
    BY <1>6, <2>2
  <2> QED
    BY <2>2, <2>3 DEF L
<1>10. /\ X \in QState /\ X.inFlight = 0 /\ (X.active <=> nextQ < NumQueries)
  BY <1>8, <1>9
<1>11. \E F \in SUBSET Nodes :
         /\ Tidy([visited |-> X.visited, pool |-> X.pool], F)
         /\ X.reads <= Cardinality(F) /\ X.reads \in Nat
  <2>1. CASE nextQ < NumQueries
    <3>1. Cardinality({}) = 0 /\ {} \in SUBSET Nodes
      BY FS_EmptySet
    <3>2. X = Seed(nextQ)
      BY <2>1
    <3> HIDE DEF X
    <3> QED
      BY <1>8, <2>1, <3>1, <3>2
  <2>2. CASE ~ (nextQ < NumQueries)
    <3>1. X = Left(st, new.visited, new.pool)
      BY <2>2
    <3>2. X.visited = new.visited /\ X.pool = new.pool /\ X.reads = st.reads
      BY <1>9, <3>1
    <3> HIDE DEF X
    <3>3. Tidy([visited |-> X.visited, pool |-> X.pool], E)
      BY <1>7, <3>2
    <3> QED
      BY <1>6, <3>2, <3>3
  <2> QED
    BY <2>1, <2>2
<1> HIDE DEF X
<1>12. UNCHANGED <<asked, status, load>>
  BY <1>1 DEF execVars, given
<1>13. /\ InFlightExact' /\ RoutedHome' /\ AllOwed' /\ OwedTo(s)' = {}
       /\ states'[s] = X /\ \A t \in Sids \ {s} : states'[t] = states[t]
       /\ states' \in [Sids -> QState]
       /\ \A t \in Sids \ {s} : SlotTidy(t)'
  BY <1>1, <1>2, <1>10, <1>12, IdleSlotChanges
<1>14. SlotsTidy'
  <2>1. SlotTidy(s)'
    <3>1. Unstaged(s)' = 0
      BY <1>1 DEF Unstaged
    <3>2. PICK F \in SUBSET Nodes :
            /\ Tidy([visited |-> X.visited, pool |-> X.pool], F)
            /\ X.reads <= Cardinality(F) /\ X.reads \in Nat
      BY <1>11
    <3>3. X.reads + 0 <= Cardinality(F) /\ X.inFlight + 0 <= W /\ ~ (X.inFlight + 0 > 0)
      BY <1>10, <3>2, BeamAssumption
    <3> QED
      BY <1>13, <3>1, <3>2, <3>3 DEF SlotTidy
  <2> QED
    BY <1>13, <2>1 DEF SlotsTidy
<1>15. StagingApart'
  BY <1>1 DEF StagingApart
<1>16. InStep' /\ PassedBy'
  <2>1. InStep'
    BY <1>1, <1>12 DEF IndInv, InStep
  <2>2. PassedBy'
    BY <1>1, <1>10, <1>13 DEF IndInv, PassedBy, Sids
  <2> QED
    BY <2>1, <2>2
<1>17. s \in Running /\ Cardinality(Running) > 0 /\ Cardinality(Running) \in Nat
  BY <1>6, RunningFacts DEF Running, st
<1>18. /\ remaining = (NumQueries - nextQ) + Cardinality(Running)
       /\ nextQ < NumQueries => Running = Sids
  BY DEF IndInv, QueriesCounted, Running
<1>19. QueriesCounted' /\ remaining > 0
  <2>1. ASSUME /\ remaining' = (NumQueries - nextQ') + Cardinality(Running')
               /\ nextQ' < NumQueries => Running' = Sids
        PROVE  QueriesCounted'
    BY <2>1 DEF QueriesCounted, Running
  <2>2. CASE nextQ < NumQueries
    <3>1. Running' = Running
      BY <1>10, <1>13, <1>17, <2>2 DEF Running
    <3>2. /\ remaining' = (NumQueries - nextQ') + Cardinality(Running)
          /\ Running = Sids /\ remaining > 0
      BY <1>1, <1>3, <1>17, <1>18, <2>2
    <3> QED
      BY <2>1, <3>1, <3>2
  <2>3. CASE ~ (nextQ < NumQueries)
    <3>1. Running' = Running \ {s}
      BY <1>10, <1>13, <1>17, <2>3 DEF Running
    <3>2. Cardinality(Running \ {s}) = Cardinality(Running) - 1
      BY <1>17, RunningFacts, FS_RemoveElement
    <3>3. /\ remaining' = (NumQueries - nextQ') + (Cardinality(Running) - 1)
          /\ ~ (nextQ' < NumQueries) /\ remaining > 0
      BY <1>1, <1>3, <1>17, <1>18, <2>3
    <3> QED
      BY <2>1, <3>1, <3>2, <3>3
  <2> QED
    BY <2>2, <2>3
<1>20. TypeOK'
  <2>1. results' \in [Queries -> AnswerSet \cup {NoAnswer}]
    <3>1. st.qi \in Queries /\ [top |-> st.exact, reads |-> st.reads] \in AnswerSet
      BY <1>6 DEF QState, AnswerSet
    <3> QED
      BY <1>1, <1>3, <3>1
  <2>2. /\ nextQ' \in 0 .. NumQueries /\ remaining' \in 0 .. NumQueries
        /\ sid' \in 0 .. Concurrency
    <3>1. remaining \in 0 .. NumQueries /\ sid \in 0 .. Concurrency - 1 /\ Concurrency \in Nat
      BY SidFacts DEF IndInv, TypeOK, Sids
    <3> QED
      BY <1>1, <1>3, <1>19, <3>1
  <2> QED
    BY <1>1, <1>12, <1>13, <2>1, <2>2 DEF IndInv, TypeOK
<1> QED
  BY <1>13, <1>14, <1>15, <1>16, <1>19, <1>20 DEF IndInv

-----------------------------------------------------------------------------
\* What staging a read does to the requests of the executor.
LEMMA StageReadFacts ==
  ASSUME Exec!IndInv, NEW block, NEW tag, Exec!StageRead(block, tag)
  PROVE  \/ status' = "failed" /\ asked' = asked
         \/ /\ status' = "ready"
            /\ \E slot \in Exec!Slots :
                 /\ asked[slot] = Exec!NoRequest
                 /\ asked' = [asked EXCEPT ![slot] = [tag |-> tag, block |-> block]]
<1> DEFINE slot == free[Len(free)]
<1>1. free \in Seq(Exec!Slots) /\ free # <<>>
  BY DEF Exec!IndInv, Exec!TypeOK, Exec!StageRead, Exec!Refused
<1>2. Len(free) \in DOMAIN free /\ slot \in Exec!Slots
  BY <1>1, EmptySeq, LenProperties
<1>3. asked[slot] = Exec!NoRequest
  BY <1>2 DEF Exec!IndInv, Exec!Linked, Exec!FreeSlots
<1>4. \/ status' = "failed" /\ asked' = asked
      \/ status' = status /\ asked' = [asked EXCEPT ![slot] = [tag |-> tag, block |-> block]]
  BY DEF Exec!StageRead
<1>5. status = "ready"
  BY DEF Exec!StageRead
<1> HIDE DEF slot
<1> QED
  BY <1>2, <1>3, <1>4, <1>5

\* What a callback is given: the tag and the block of a request, which is then
\* no longer outstanding.
LEMMA DeliverFacts ==
  ASSUME Exec!IndInv, Exec!Deliver
  PROVE  /\ status' = status
         /\ \E slot \in Exec!Outstanding :
              /\ out'.tag = asked[slot].tag /\ out'.data = asked[slot].block
              /\ asked' = [asked EXCEPT ![slot] = Exec!NoRequest]
<1> DEFINE c == Head(cqBuf)
           slot == Exec!SlotOf(c.ud)
<1>1. cqBuf \in Seq(Exec!Cqe(Exec!UserData)) /\ cqBuf # <<>>
  BY DEF Exec!IndInv, Exec!TypeOK, Exec!Deliver
<1>2. c = cqBuf[1] /\ 1 \in DOMAIN cqBuf /\ c \in Exec!Cqe(Exec!UserData)
  BY <1>1, EmptySeq, LenProperties, HeadTailProperties
<1>3. slot \in Exec!Slots
  <2>1. c.ud \in Ring!UserData
    BY <1>2 DEF Exec!Cqe, Exec!UserData, Ring!UserData
  <2>2. Ring!SlotOf(c.ud) \in Ring!Slots
    BY <2>1, RingConstants, Ring!UnpackFacts
  <2> QED
    BY <2>2 DEF Ring!SlotOf, Exec!SlotOf, Ring!Slots, Exec!Slots
<1>4. Exec!Answers(c)
  BY <1>2 DEF Exec!IndInv, Exec!Linked
<1>5. c.res = "full" /\ status' = status
  BY DEF Exec!Deliver
<1>6. /\ asked[slot] # Exec!NoRequest /\ asked[slot].tag = Exec!TagOf(c.ud)
      /\ bufs[slot] = asked[slot].block
  BY <1>4, <1>5 DEF Exec!Answers, Exec!Faithful
<1>7. /\ out' = [tag |-> Exec!TagOf(c.ud), data |-> bufs[slot]]
      /\ asked' = [asked EXCEPT ![slot] = Exec!NoRequest]
  BY DEF Exec!Deliver
<1> HIDE DEF slot, c
<1>8. slot \in Exec!Outstanding
  BY <1>3, <1>6 DEF Exec!Outstanding
<1>9. out'.tag = asked[slot].tag /\ out'.data = asked[slot].block
  BY <1>6, <1>7
<1> QED
  BY <1>5, <1>7, <1>8, <1>9

-----------------------------------------------------------------------------
\* A request put in a buffer slot is owed to the state slot in its tag.
LEMMA OwedGrows ==
  ASSUME Exec!IndInv, NEW slot \in Exec!Slots, asked[slot] = Exec!NoRequest,
         NEW s \in Sids, NEW tag \in 0 .. TagSpan - 1, NEW block, SidOf(tag) = s,
         asked' = [asked EXCEPT ![slot] = [tag |-> tag, block |-> block]]
  PROVE  /\ asked'[slot].tag = tag /\ asked'[slot].block = block
         /\ asked'[slot] # Exec!NoRequest
         /\ \A b \in Exec!Slots \ {slot} : asked'[b] = asked[b]
         /\ OwedTo(s)' = OwedTo(s) \cup {slot} /\ slot \notin OwedTo(s)
         /\ \A t \in Sids \ {s} : OwedTo(t)' = OwedTo(t)
         /\ \A t \in Sids : \A b \in OwedTo(t) : b # slot /\ asked'[b] = asked[b]
<1>1. asked \in [Exec!Slots -> Exec!Request \cup {Exec!NoRequest}]
  BY DEF Exec!IndInv, Exec!TypeOK
<1>2. /\ asked'[slot].tag = tag /\ asked'[slot].block = block
      /\ asked'[slot] # Exec!NoRequest
      /\ \A b \in Exec!Slots \ {slot} : asked'[b] = asked[b]
  <2>1. asked'[slot] = [tag |-> tag, block |-> block]
    BY <1>1
  <2>2. tag # -1
    BY PipelineAssumption
  <2>3. [tag |-> tag, block |-> block] # Exec!NoRequest
    BY <2>2 DEF Exec!NoRequest
  <2>4. \A b \in Exec!Slots \ {slot} : asked'[b] = asked[b]
    BY <1>1
  <2> QED
    BY <2>1, <2>3, <2>4
<1>3. \A t : slot \notin OwedTo(t) /\ OwedTo(t) \subseteq Exec!Slots
  BY DEF OwedTo
<1>4. \A t \in Sids : OwedTo(t)' = {b \in Exec!Slots :
        asked'[b] # Exec!NoRequest /\ SidOf(asked'[b].tag) = t}
  BY DEF OwedTo, SidOf, Exec!Slots, Exec!NoRequest
<1>5. \A t \in Sids : \A b : b \in OwedTo(t)' <=>
        \/ b = slot /\ t = s
        \/ b # slot /\ b \in OwedTo(t)
  BY <1>2, <1>4 DEF OwedTo
<1>6. OwedTo(s)' = OwedTo(s) \cup {slot}
  BY <1>3, <1>5
<1>7. \A t \in Sids \ {s} : OwedTo(t)' = OwedTo(t)
  BY <1>3, <1>5
<1>8. \A t \in Sids : \A b \in OwedTo(t) : b # slot /\ asked'[b] = asked[b]
  BY <1>2, <1>3
<1> QED
  BY <1>2, <1>3, <1>6, <1>7, <1>8

\* A request that has been answered is owed no longer.
LEMMA OwedShrinks ==
  ASSUME Exec!IndInv, NEW slot \in Exec!Outstanding, NEW s \in Sids, s = SidOf(asked[slot].tag),
         asked' = [asked EXCEPT ![slot] = Exec!NoRequest]
  PROVE  /\ slot \in OwedTo(s) /\ OwedTo(s)' = OwedTo(s) \ {slot}
         /\ \A t \in Sids \ {s} : OwedTo(t)' = OwedTo(t)
         /\ \A t \in Sids : \A b \in OwedTo(t)' : b # slot /\ asked'[b] = asked[b]
<1>1. asked \in [Exec!Slots -> Exec!Request \cup {Exec!NoRequest}]
  BY DEF Exec!IndInv, Exec!TypeOK
<1>2. /\ slot \in Exec!Slots /\ slot \in OwedTo(s)
      /\ \A t \in Sids \ {s} : slot \notin OwedTo(t)
  BY DEF OwedTo, Exec!Outstanding
<1>3. /\ asked'[slot] = Exec!NoRequest
      /\ \A b \in Exec!Slots \ {slot} : asked'[b] = asked[b]
  BY <1>1, <1>2
<1>4. \A t \in Sids : OwedTo(t)' = {b \in Exec!Slots :
        asked'[b] # Exec!NoRequest /\ SidOf(asked'[b].tag) = t}
  BY DEF OwedTo, SidOf, Exec!Slots, Exec!NoRequest
<1>5. \A t \in Sids : \A b : b \in OwedTo(t)' <=> b # slot /\ b \in OwedTo(t)
  BY <1>3, <1>4 DEF OwedTo
<1>6. OwedTo(s)' = OwedTo(s) \ {slot} /\ \A t \in Sids \ {s} : OwedTo(t)' = OwedTo(t)
  BY <1>2, <1>5
<1>7. \A t \in Sids : \A b \in OwedTo(t)' : b # slot /\ asked'[b] = asked[b]
  <2>1. \A t \in Sids : \A b \in OwedTo(t)' : b # slot /\ b \in Exec!Slots
    BY <1>5 DEF OwedTo
  <2> QED
    BY <1>3, <2>1
<1> QED
  BY <1>2, <1>6, <1>7

-----------------------------------------------------------------------------
\* A state slot with one read more in flight.
Asking(st) == [st EXCEPT !.inFlight = @ + 1, !.reads = @ + 1]

LEMMA AskingFacts ==
  ASSUME NEW st \in QState, st.inFlight + 1 <= W, st.reads + 1 <= Cardinality(Nodes)
  PROVE  LET X == Asking(st) IN
         /\ X \in QState /\ X.inFlight = st.inFlight + 1 /\ X.reads = st.reads + 1
         /\ X.visited = st.visited /\ X.pool = st.pool /\ X.active = st.active
         /\ X.qi = st.qi /\ X.exact = st.exact /\ X.pending = st.pending
<1>1. /\ W \in Nat /\ Cardinality(Nodes) \in Nat
      /\ st.inFlight \in 0 .. W /\ st.reads \in 0 .. Cardinality(Nodes)
  BY BeamAssumption, FS_CardinalityType DEF QState
<1>2. st.inFlight + 1 \in 0 .. W /\ st.reads + 1 \in 0 .. Cardinality(Nodes)
  BY <1>1
<1> QED
  BY <1>2 DEF QState, Asking

\* Stage leaves everything but the scheduler's place alone when the read is
\* refused or the executor fails.
LEMMA StageFailsStep ==
  ASSUME IndInv, pc' = "err", Exec!IndInv',
         UNCHANGED <<asked, given, sid, frontier, states, nextQ, remaining, results>>
  PROVE  IndInv'
<1>1. UNCHANGED <<asked, load, states, frontier, nextQ, remaining, results, sid>>
  BY DEF given
<1>2. InFlightExact' /\ RoutedHome' /\ SlotsTidy' /\ StagingApart' /\ AllOwed'
  BY <1>1, Frame
<1>3. QueriesCounted'
  BY <1>1 DEF IndInv, QueriesCounted
<1>4. InStep' /\ PassedBy'
  BY DEF InStep, PassedBy
<1>5. TypeOK'
  BY <1>1 DEF IndInv, TypeOK
<1> QED
  BY <1>2, <1>3, <1>4, <1>5 DEF IndInv

\* Staged counts the read the executor has taken, of a node none of the query's
\* reads is for.
LEMMA StagedStep ==
  ASSUME IndInv, pc = "stage", Staged, Exec!IndInv', NEW s \in Sids, s = sid,
         UNCHANGED <<given, nextQ, remaining, results>>, status' = "ready",
         NEW slot \in Exec!Slots, asked'[slot].tag = Tag(s, Head(frontier)),
         asked'[slot].block = BlockOf(Head(frontier)),
         asked'[slot] # Exec!NoRequest,
         \A b \in Exec!Slots \ {slot} : asked'[b] = asked[b],
         OwedTo(s)' = OwedTo(s) \cup {slot}, slot \notin OwedTo(s),
         \A t \in Sids \ {s} : OwedTo(t)' = OwedTo(t),
         \A t \in Sids : \A b \in OwedTo(t) : b # slot /\ asked'[b] = asked[b]
  PROVE  IndInv'
<1> DEFINE st == states[s]
           node == Head(frontier)
           tag == Tag(s, node)
           X == Asking(st)
<1>1. /\ frontier \in Seq(Nodes) /\ frontier # <<>> /\ states \in [Sids -> QState]
  BY DEF IndInv, TypeOK, StagingApart
<1>2. /\ Len(frontier) \in Nat /\ Len(frontier) > 0 /\ node = frontier[1] /\ node \in Nodes
      /\ DOMAIN frontier = 1 .. Len(frontier)
  BY <1>1, EmptySeq, LenProperties, HeadTailProperties
<1>3. /\ Tail(frontier) \in Seq(Nodes) /\ Len(Tail(frontier)) = Len(frontier) - 1
      /\ \A i \in 1 .. Len(frontier) - 1 : Tail(frontier)[i] = frontier[i + 1]
      /\ DOMAIN Tail(frontier) = 1 .. Len(frontier) - 1
  <2>1. Tail(frontier) \in Seq(Nodes) /\ Len(Tail(frontier)) = Len(frontier) - 1
    BY <1>1, HeadTailProperties
  <2> QED
    BY <1>1, <2>1, HeadTailProperties, LenProperties
<1>4. tag \in 0 .. TagSpan - 1 /\ SidOf(tag) = s /\ NodeOf(tag) = node
  BY <1>2, TagFacts
<1>5. /\ frontier' = Tail(frontier)
      /\ \/ Len(frontier) = 1 /\ pc' = "phaseA" /\ sid' = sid + 1
         \/ Len(frontier) # 1 /\ pc' = "stage" /\ sid' = sid
  BY DEF Staged
<1>6. states' = [states EXCEPT ![s] = X]
  BY <1>1 DEF Staged, Asking
<1>7. Unstaged(s) = Len(frontier) /\ Unstaged(s)' = Len(frontier) - 1
  BY <1>2, <1>3, <1>5 DEF Unstaged
<1>8. PICK E \in SUBSET Nodes :
        /\ Tidy([visited |-> st.visited, pool |-> st.pool], E)
        /\ st.reads + Unstaged(s) <= Cardinality(E)
  BY DEF IndInv, SlotsTidy, SlotTidy
<1>9. /\ Cardinality(E) \in Nat /\ Cardinality(E) <= Cardinality(Nodes)
      /\ Cardinality(Nodes) \in Nat
  BY BeamAssumption, FS_Subset, FS_CardinalityType
<1>10. /\ st \in QState /\ st.inFlight \in Nat /\ st.reads \in Nat
       /\ st.inFlight + Unstaged(s) <= W /\ W \in Nat
       /\ st.inFlight + Unstaged(s) > 0 => st.active
  <2>1. st \in QState /\ W \in Nat
    BY <1>1, BeamAssumption
  <2>2. st.inFlight \in Nat /\ st.reads \in Nat
    BY <1>9, <2>1 DEF QState
  <2> QED
    BY <2>1, <2>2 DEF IndInv, SlotsTidy, SlotTidy
<1> HIDE DEF st
<1>11. st.active /\ st.inFlight + 1 <= W /\ st.reads + 1 <= Cardinality(Nodes)
  BY <1>2, <1>7, <1>8, <1>9, <1>10
<1>12. /\ X \in QState /\ X.inFlight = st.inFlight + 1 /\ X.reads = st.reads + 1
       /\ X.visited = st.visited /\ X.pool = st.pool /\ X.active = st.active
  BY <1>10, <1>11, AskingFacts
<1> HIDE DEF X, tag, node
<1>13. /\ states'[s] = X /\ states' \in [Sids -> QState]
       /\ \A t \in Sids \ {s} : states'[t] = states[t]
  BY <1>1, <1>6, <1>12
<1>14. /\ asked'[slot].tag = tag /\ asked'[slot].block = BlockOf(node)
       /\ asked'[slot] # Exec!NoRequest
       /\ \A b \in Exec!Slots \ {slot} : asked'[b] = asked[b]
  BY DEF tag, node
<1>15. /\ OwedTo(s)' = OwedTo(s) \cup {slot} /\ slot \notin OwedTo(s)
       /\ \A t \in Sids \ {s} : OwedTo(t)' = OwedTo(t)
  OBVIOUS
<1>16. InFlightExact'
  <2> SUFFICES ASSUME NEW t \in Sids PROVE states'[t].inFlight = Cardinality(OwedTo(t)')
    BY DEF InFlightExact
  <2>1. CASE t = s
    <3>1. IsFiniteSet(OwedTo(s)) /\ Cardinality(OwedTo(s)) = st.inFlight
      BY OwedFacts DEF st
    <3>2. PICK A : A = OwedTo(s)
      OBVIOUS
    <3>3. IsFiniteSet(A) /\ slot \notin A /\ Cardinality(A) = st.inFlight
      BY <1>15, <3>1, <3>2, Zenon
    <3>4. Cardinality(A \cup {slot}) = Cardinality(A) + 1
      BY <3>3, FS_AddElement
    <3>5. OwedTo(s)' = A \cup {slot}
      BY <1>15, <3>2, Zenon
    <3> QED
      BY <1>12, <1>13, <2>1, <3>3, <3>4, <3>5
  <2>2. CASE t # s
    BY <1>13, <1>15, <2>2 DEF IndInv, InFlightExact
  <2> QED
    BY <2>1, <2>2
<1>17. /\ node \in st.visited
       /\ \A i, j \in DOMAIN frontier : frontier[i] = frontier[j] => i = j
       /\ \A i \in DOMAIN frontier :
            /\ frontier[i] \in st.visited
            /\ \A b \in OwedTo(s) : NodeOf(asked[b].tag) # frontier[i]
  <2>1. /\ \A i, j \in DOMAIN frontier : frontier[i] = frontier[j] => i = j
        /\ \A i \in DOMAIN frontier :
             /\ frontier[i] \in st.visited
             /\ \A b \in OwedTo(s) : NodeOf(asked[b].tag) # frontier[i]
    BY DEF IndInv, StagingApart, st
  <2>2. 1 \in DOMAIN frontier /\ node = frontier[1]
    BY <1>2 DEF node
  <2> QED
    BY <2>1, <2>2
<1>18. RoutedHome'
  <2>1. \A t \in Sids \ {s} : \A b \in OwedTo(t) : b # slot /\ asked'[b] = asked[b]
    OBVIOUS
  <2>2. \A b \in OwedTo(s) : b # slot /\ asked'[b] = asked[b]
    OBVIOUS
  <2>3. ASSUME NEW t \in Sids, NEW b \in OwedTo(t)'
        PROVE  /\ states'[t].active
               /\ NodeOf(asked'[b].tag) \in states'[t].visited
               /\ asked'[b].block = BlockOf(NodeOf(asked'[b].tag))
               /\ \A c \in OwedTo(t)' : asked'[b].tag = asked'[c].tag => b = c
    <3>1. CASE t # s
      BY <1>13, <1>15, <2>1, <2>3, <3>1 DEF IndInv, RoutedHome
    <3>2. CASE t = s
      <4>1. /\ states'[t].active /\ states'[t].visited = st.visited
        BY <1>11, <1>12, <1>13, <3>2
      <4>2. \A c \in OwedTo(s) : /\ NodeOf(asked[c].tag) \in st.visited
                                 /\ asked[c].block = BlockOf(NodeOf(asked[c].tag))
                                 /\ NodeOf(asked[c].tag) # node
                                 /\ \A d \in OwedTo(s) : asked[c].tag = asked[d].tag => c = d
        <5>1. 1 \in DOMAIN frontier /\ node = frontier[1]
          BY <1>2 DEF node
        <5>2. \A c \in OwedTo(s) : NodeOf(asked[c].tag) # node
          BY <1>17, <5>1
        <5> QED
          BY <5>2 DEF IndInv, RoutedHome, st
      <4>3. OwedTo(t)' = OwedTo(s) \cup {slot}
        BY <1>15, <3>2
      <4>4. CASE b = slot
        <5>1. \A c \in OwedTo(t)' : asked'[b].tag = asked'[c].tag => b = c
          BY <1>4, <1>14, <2>2, <4>2, <4>3, <4>4
        <5> QED
          BY <1>4, <1>14, <1>17, <4>1, <4>4, <5>1
      <4>5. CASE b # slot
        <5>1. b \in OwedTo(s)
          BY <2>3, <4>3, <4>5
        <5>2. \A c \in OwedTo(t)' : asked'[b].tag = asked'[c].tag => b = c
          BY <1>4, <1>14, <2>2, <4>2, <4>3, <5>1
        <5> QED
          BY <2>2, <4>1, <4>2, <5>1, <5>2
      <4> QED
        BY <4>4, <4>5
    <3> QED
      BY <3>1, <3>2
  <2> QED
    BY <2>3 DEF RoutedHome
<1>19. AllOwed'
  <2>1. \A b : b \in Exec!Outstanding' <=> b \in Exec!Slots /\ asked'[b] # Exec!NoRequest
    BY DEF Exec!Outstanding, Exec!Slots, Exec!NoRequest
  <2>2. ASSUME NEW b \in Exec!Outstanding'
        PROVE  SidOf(asked'[b].tag) \in Sids /\ NodeOf(asked'[b].tag) \in Nodes
    <3>1. CASE b = slot
      BY <1>2, <1>4, <1>14, <3>1 DEF node
    <3>2. CASE b # slot
      <4>1. b \in Exec!Outstanding /\ asked'[b] = asked[b]
        BY <1>14, <2>1, <2>2, <3>2 DEF Exec!Outstanding
      <4> QED
        BY <4>1 DEF IndInv, AllOwed
    <3> QED
      BY <3>1, <3>2
  <2> QED
    BY <2>2 DEF AllOwed
<1>20. SlotsTidy'
  <2>1. SlotTidy(s)'
    <3>1. X.reads + Unstaged(s)' <= Cardinality(E)
      BY <1>2, <1>7, <1>8, <1>9, <1>10, <1>12
    <3>2. /\ X.inFlight + Unstaged(s)' <= W
          /\ X.inFlight + Unstaged(s)' > 0 => X.active
      BY <1>2, <1>7, <1>10, <1>11, <1>12
    <3> QED
      BY <1>8, <1>12, <1>13, <3>1, <3>2 DEF SlotTidy
  <2>2. ASSUME NEW t \in Sids \ {s} PROVE SlotTidy(t)'
    <3>1. SlotTidy(t) /\ Unstaged(t) = 0 /\ Unstaged(t)' = 0
      BY <1>5 DEF IndInv, SlotsTidy, Unstaged
    <3> QED
      BY <1>13, <3>1 DEF SlotTidy
  <2> QED
    BY <2>1, <2>2 DEF SlotsTidy
<1>21. StagingApart'
  <2>1. CASE pc' # "stage"
    BY <2>1 DEF StagingApart
  <2>2. CASE pc' = "stage"
    <3>1. Len(frontier) > 1 /\ sid' = s /\ frontier' = Tail(frontier)
      BY <1>2, <1>5, <2>2
    <3>2. frontier' # <<>>
      <4>1. Len(Tail(frontier)) > 0
        BY <1>2, <1>3, <3>1
      <4> QED
        BY <3>1, <4>1, EmptySeq
    <3>3. \A i \in DOMAIN frontier' :
            i \in Nat /\ i + 1 \in DOMAIN frontier /\ i + 1 # 1 /\ frontier'[i] = frontier[i + 1]
      BY <1>2, <1>3, <3>1
    <3>4. \A i, j \in DOMAIN frontier' : frontier'[i] = frontier'[j] => i = j
      <4> TAKE i, j \in DOMAIN frontier'
      <4> HAVE frontier'[i] = frontier'[j]
      <4>1. i + 1 = j + 1 /\ i \in Nat /\ j \in Nat
        BY <1>17, <3>3
      <4> QED
        BY <4>1
    <3>5. \A i \in DOMAIN frontier' : frontier'[i] \in st.visited /\ frontier'[i] # node
      <4>1. 1 \in DOMAIN frontier /\ node = frontier[1]
        BY <1>2 DEF node
      <4> QED
        BY <1>17, <3>3, <4>1
    <3>6. \A i \in DOMAIN frontier' : \A b \in OwedTo(s)' : NodeOf(asked'[b].tag) # frontier'[i]
      <4> TAKE i \in DOMAIN frontier'
      <4> TAKE b \in OwedTo(s)'
      <4>1. CASE b = slot
        BY <1>4, <1>14, <3>5, <4>1
      <4>2. CASE b # slot
        <5>1. b \in OwedTo(s) /\ asked'[b] = asked[b]
          BY <1>14, <1>15, <4>2 DEF OwedTo
        <5> QED
          BY <1>17, <3>3, <5>1
      <4> QED
        BY <4>1, <4>2
    <3> QED
      BY <1>12, <1>13, <3>1, <3>2, <3>4, <3>5, <3>6 DEF StagingApart
  <2> QED
    BY <2>1, <2>2
<1>22. InStep' /\ PassedBy'
  <2>1. InStep'
    BY <1>5 DEF InStep
  <2>2. states'[s].inFlight > 0
    BY <1>10, <1>12, <1>13
  <2>3. PassedBy'
    <3>1. \A t \in Sids : t < s /\ states'[t].active => states'[t].inFlight > 0
      BY <1>13 DEF IndInv, PassedBy, Sids
    <3>2. s \in Nat /\ \A t \in Sids : t \in Nat
      BY DEF Sids
    <3>3. sid' = s \/ sid' = s + 1
      BY <1>5
    <3>4. ASSUME NEW t \in Sids, t < sid', states'[t].active PROVE states'[t].inFlight > 0
      <4>1. t < s \/ t = s
        BY <3>2, <3>3, <3>4
      <4> QED
        BY <2>2, <3>1, <3>4, <4>1
    <3>5. pc' \notin {"flush", "drain"}
      BY <1>5
    <3> QED
      BY <3>4, <3>5 DEF PassedBy
  <2> QED
    BY <2>1, <2>3
<1>23. QueriesCounted'
  <2>1. \A t \in Sids : states'[t].active <=> states[t].active
    BY <1>12, <1>13 DEF st
  <2>2. {t \in Sids : states'[t].active} = {t \in Sids : states[t].active}
    BY <2>1
  <2> QED
    BY <2>2 DEF IndInv, QueriesCounted
<1>24. TypeOK'
  <2>1. sid' \in 0 .. Concurrency
    BY <1>5, SidFacts DEF Sids
  <2> QED
    BY <1>3, <1>5, <1>13, <2>1 DEF IndInv, TypeOK, given
<1> QED
  BY <1>16, <1>18, <1>19, <1>20, <1>21, <1>22, <1>23, <1>24 DEF IndInv

\* Stage fails and leaves the requests alone, or the executor owes the state slot
\* one read more, of the first node of the frontier.
LEMMA StageFacts ==
  ASSUME IndInv, Stage, NEW s \in Sids, s = sid
  PROVE  /\ pc = "stage" /\ UNCHANGED <<given, nextQ, remaining, results>>
         /\ \/ pc' = "err" /\ UNCHANGED <<asked, sid, frontier, states>>
            \/ /\ Staged /\ status' = "ready"
               /\ \E slot \in Exec!Slots :
                    /\ asked'[slot].tag = Tag(s, Head(frontier))
                    /\ asked'[slot].block = BlockOf(Head(frontier))
                    /\ asked'[slot] # Exec!NoRequest
                    /\ \A b \in Exec!Slots \ {slot} : asked'[b] = asked[b]
                    /\ OwedTo(s)' = OwedTo(s) \cup {slot} /\ slot \notin OwedTo(s)
                    /\ \A t \in Sids \ {s} : OwedTo(t)' = OwedTo(t)
                    /\ \A t \in Sids : \A b \in OwedTo(t) : b # slot /\ asked'[b] = asked[b]
<1> DEFINE block == BlockOf(Head(frontier))
           tag == Tag(sid, Head(frontier))
<1>1. pc = "stage" /\ UNCHANGED <<given, nextQ, remaining, results>> /\ Exec!IndInv
  BY DEF Stage, IndInv
<1>2. \/ /\ Exec!StageRefused(block, tag)
         /\ pc' = "err" /\ UNCHANGED <<sid, frontier, states>>
      \/ /\ Exec!StageRead(block, tag)
         /\ IF status' = "failed"
              THEN pc' = "err" /\ UNCHANGED <<sid, frontier, states>>
              ELSE Staged
  BY Zenon DEF Stage
<1>3. PICK x, y : x = tag /\ y = block
  OBVIOUS
<1>4. x \in 0 .. TagSpan - 1 /\ SidOf(x) = s
  <2>1. Head(frontier) \in Nodes
    BY <1>1, HeadTailProperties DEF IndInv, TypeOK, StagingApart
  <2> QED
    BY <1>3, <2>1, TagFacts
<1> HIDE DEF tag, block
<1>5. CASE Exec!StageRefused(block, tag) /\ pc' = "err" /\ UNCHANGED <<sid, frontier, states>>
  <2>1. asked' = asked
    BY <1>5 DEF Exec!StageRefused, Exec!vars, Exec!executorVars
  <2> QED
    BY <1>1, <1>5, <2>1
<1>6. CASE /\ Exec!StageRead(block, tag)
           /\ IF status' = "failed"
                THEN pc' = "err" /\ UNCHANGED <<sid, frontier, states>>
                ELSE Staged
  <2>1. \/ status' = "failed" /\ asked' = asked
        \/ /\ status' = "ready"
           /\ \E slot \in Exec!Slots :
                /\ asked[slot] = Exec!NoRequest
                /\ asked' = [asked EXCEPT ![slot] = [tag |-> x, block |-> y]]
    BY <1>1, <1>3, <1>6, StageReadFacts
  <2>2. CASE status' = "failed"
    BY <1>1, <1>6, <2>1, <2>2
  <2>3. CASE status' # "failed"
    <3>1. PICK slot \in Exec!Slots :
            /\ asked[slot] = Exec!NoRequest
            /\ asked' = [asked EXCEPT ![slot] = [tag |-> x, block |-> y]]
      BY <2>1, <2>3
    <3>2. Exec!IndInv /\ x \in 0 .. TagSpan - 1 /\ SidOf(x) \in Sids
      BY <1>1, <1>4
    <3>3. /\ asked'[slot].tag = x /\ asked'[slot].block = y
          /\ asked'[slot] # Exec!NoRequest
          /\ \A b \in Exec!Slots \ {slot} : asked'[b] = asked[b]
          /\ OwedTo(SidOf(x))' = OwedTo(SidOf(x)) \cup {slot} /\ slot \notin OwedTo(SidOf(x))
          /\ \A t \in Sids \ {SidOf(x)} : OwedTo(t)' = OwedTo(t)
          /\ \A t \in Sids : \A b \in OwedTo(t) : b # slot /\ asked'[b] = asked[b]
      BY <3>1, <3>2, OwedGrows
    <3>4. x = Tag(s, Head(frontier)) /\ y = BlockOf(Head(frontier))
      BY <1>3 DEF tag, block
    <3>5. Staged /\ status' = "ready"
      BY <1>6, <2>1, <2>3
    <3>6. /\ asked'[slot].tag = Tag(s, Head(frontier))
          /\ asked'[slot].block = BlockOf(Head(frontier))
      BY <3>3, <3>4, Zenon
    <3>7. /\ OwedTo(s)' = OwedTo(s) \cup {slot} /\ slot \notin OwedTo(s)
          /\ \A t \in Sids \ {s} : OwedTo(t)' = OwedTo(t)
      BY <1>4, <3>3, Zenon
    <3> QED
      BY <1>1, <3>1, <3>3, <3>5, <3>6, <3>7, Zenon
  <2> QED
    BY <2>2, <2>3
<1> QED
  BY <1>2, <1>5, <1>6

LEMMA StageStep ==
  ASSUME IndInv, Stage, Exec!IndInv', NEW s \in Sids, s = sid
  PROVE  IndInv'
<1>1. /\ pc = "stage" /\ UNCHANGED <<given, nextQ, remaining, results>>
      /\ \/ pc' = "err" /\ UNCHANGED <<asked, sid, frontier, states>>
         \/ /\ Staged /\ status' = "ready"
            /\ \E slot \in Exec!Slots :
                 /\ asked'[slot].tag = Tag(s, Head(frontier))
                 /\ asked'[slot].block = BlockOf(Head(frontier))
                 /\ asked'[slot] # Exec!NoRequest
                 /\ \A b \in Exec!Slots \ {slot} : asked'[b] = asked[b]
                 /\ OwedTo(s)' = OwedTo(s) \cup {slot} /\ slot \notin OwedTo(s)
                 /\ \A t \in Sids \ {s} : OwedTo(t)' = OwedTo(t)
                 /\ \A t \in Sids : \A b \in OwedTo(t) : b # slot /\ asked'[b] = asked[b]
  BY StageFacts, Zenon
<1> QED
  BY <1>1, StageFailsStep, StagedStep

-----------------------------------------------------------------------------
\* A state slot one of whose reads has come back.
Landed(st, exact, nbs) ==
  [st EXCEPT !.exact = exact, !.pending = nbs, !.inFlight = @ - 1]

LEMMA LandedFacts ==
  ASSUME NEW st \in QState, NEW exact \in Seq(Scored), NEW nbs \in Seq(Nodes), st.inFlight > 0
  PROVE  LET X == Landed(st, exact, nbs) IN
         /\ X \in QState /\ X.inFlight = st.inFlight - 1 /\ X.reads = st.reads
         /\ X.visited = st.visited /\ X.pool = st.pool /\ X.active = st.active
         /\ X.qi = st.qi /\ X.exact = exact /\ X.pending = nbs
<1>1. W \in Nat /\ st.inFlight \in 0 .. W
  BY BeamAssumption DEF QState
<1>2. st.inFlight - 1 \in 0 .. W
  BY <1>1
<1> QED
  BY <1>2 DEF QState, Landed

\* A read that has come back leaves the slot it was staged for with one less.
LEMMA LandedStep ==
  ASSUME IndInv, pc = "landing", Exec!IndInv', status' = status,
         UNCHANGED <<load, pc, sid, frontier, nextQ, remaining, results>>,
         NEW slot \in Exec!Outstanding, asked' = [asked EXCEPT ![slot] = Exec!NoRequest],
         NEW s \in Sids, s = SidOf(asked[slot].tag), NEW X \in QState,
         states' = [states EXCEPT ![s] = X],
         X.inFlight = states[s].inFlight - 1, X.reads = states[s].reads,
         X.visited = states[s].visited, X.pool = states[s].pool, X.active = states[s].active
  PROVE  IndInv'
<1>1. /\ states \in [Sids -> QState]
      /\ asked \in [Exec!Slots -> Exec!Request \cup {Exec!NoRequest}]
  BY DEF IndInv, TypeOK, Exec!IndInv, Exec!TypeOK
<1>2. /\ states'[s] = X /\ states' \in [Sids -> QState]
      /\ \A t \in Sids \ {s} : states'[t] = states[t]
  BY <1>1
<1>3. /\ slot \in Exec!Slots /\ slot \in OwedTo(s)
      /\ \A t \in Sids \ {s} : slot \notin OwedTo(t)
  BY DEF OwedTo, Exec!Outstanding
<1>4. Exec!IndInv /\ asked'[slot] = Exec!NoRequest
      /\ \A b \in Exec!Slots \ {slot} : asked'[b] = asked[b]
  BY <1>1, <1>3 DEF IndInv
<1>5. /\ OwedTo(s)' = OwedTo(s) \ {slot}
      /\ \A t \in Sids \ {s} : OwedTo(t)' = OwedTo(t)
  BY <1>4, OwedShrinks
<1>6. /\ IsFiniteSet(OwedTo(s)) /\ Cardinality(OwedTo(s)) = states[s].inFlight
      /\ states[s].inFlight \in Nat
  BY OwedFacts
<1>7. InFlightExact'
  <2> SUFFICES ASSUME NEW t \in Sids PROVE states'[t].inFlight = Cardinality(OwedTo(t)')
    BY DEF InFlightExact
  <2>1. CASE t = s
    <3>1. Cardinality(OwedTo(s) \ {slot}) = states[s].inFlight - 1
      BY <1>3, <1>6, FS_RemoveElement
    <3> QED
      BY <1>2, <1>5, <2>1, <3>1
  <2>2. CASE t # s
    BY <1>2, <1>5, <2>2 DEF IndInv, InFlightExact
  <2> QED
    BY <2>1, <2>2
<1>8. RoutedHome'
  <2>1. \A t \in Sids : /\ OwedTo(t)' \subseteq OwedTo(t)
                        /\ \A b \in OwedTo(t)' : asked'[b] = asked[b]
                        /\ states'[t].active = states[t].active
                        /\ states'[t].visited = states[t].visited
    <3> TAKE t \in Sids
    <3>1. states'[t].active = states[t].active /\ states'[t].visited = states[t].visited
      BY <1>2
    <3>2. OwedTo(t)' \subseteq OwedTo(t) /\ slot \notin OwedTo(t)'
      BY <1>3, <1>5
    <3>3. \A b \in OwedTo(t)' : asked'[b] = asked[b]
      BY <1>4, <3>2 DEF OwedTo
    <3> QED
      BY <3>1, <3>2, <3>3
  <2> QED
    BY <2>1 DEF IndInv, RoutedHome
<1>9. AllOwed'
  <2>1. \A b : b \in Exec!Outstanding' => b \in Exec!Outstanding /\ asked'[b] = asked[b]
    BY <1>4 DEF Exec!Outstanding, Exec!Slots, Exec!NoRequest
  <2> QED
    BY <2>1 DEF IndInv, AllOwed
<1>10. SlotsTidy'
  <2>1. \A t \in Sids : Unstaged(t) = 0 /\ Unstaged(t)' = 0 /\ SlotTidy(t)
    BY DEF IndInv, SlotsTidy, Unstaged
  <2>2. SlotTidy(s)'
    <3>1. PICK E \in SUBSET Nodes :
            /\ Tidy([visited |-> states[s].visited, pool |-> states[s].pool], E)
            /\ states[s].reads + 0 <= Cardinality(E)
      BY <2>1 DEF SlotTidy
    <3>2. /\ states[s].inFlight + 0 <= W
          /\ states[s].inFlight + 0 > 0 => states[s].active
      BY <2>1 DEF SlotTidy
    <3>3. X.inFlight + 0 <= W /\ (X.inFlight + 0 > 0 => X.active)
      BY <1>6, <3>2, BeamAssumption
    <3> QED
      BY <1>2, <2>1, <3>1, <3>3 DEF SlotTidy
  <2>3. ASSUME NEW t \in Sids \ {s} PROVE SlotTidy(t)'
    BY <1>2, <2>1 DEF SlotTidy
  <2> QED
    BY <2>2, <2>3 DEF SlotsTidy
<1>11. StagingApart' /\ InStep' /\ PassedBy'
  BY DEF IndInv, StagingApart, InStep, PassedBy
<1>12. QueriesCounted'
  <2>1. \A t \in Sids : states'[t].active <=> states[t].active
    BY <1>2
  <2>2. {t \in Sids : states'[t].active} = {t \in Sids : states[t].active}
    BY <2>1
  <2> QED
    BY <2>2 DEF IndInv, QueriesCounted
<1>13. TypeOK'
  BY <1>2 DEF IndInv, TypeOK
<1> QED
  BY <1>7, <1>8, <1>9, <1>10, <1>11, <1>12, <1>13 DEF IndInv

\* Land takes one read off the slot it was staged for, and it finds the node it
\* was to read in the block.
LEMMA LandStep ==
  ASSUME IndInv, Land, Exec!IndInv'
  PROVE  IndInv'
<1>1. /\ pc = "landing" /\ Exec!Deliver
      /\ UNCHANGED <<given, pc, sid, frontier, nextQ, remaining, results>>
  BY Zenon DEF Land
<1>2. Exec!IndInv
  BY DEF IndInv
<1>3. status' = status
  BY <1>1, <1>2, DeliverFacts
<1>4. PICK slot \in Exec!Outstanding :
        /\ out'.tag = asked[slot].tag /\ out'.data = asked[slot].block
        /\ asked' = [asked EXCEPT ![slot] = Exec!NoRequest]
  BY <1>1, <1>2, DeliverFacts
<1> DEFINE tag == asked[slot].tag
           s == SidOf(tag)
           node == NodeOf(tag)
           st == states[s]
           exact == TopPush(st.exact, load.exact[st.qi][node], node)
           nbs == st.pending \o load.nbrs[node]
           X == Landed(st, exact, nbs)
<1>5. slot \in Exec!Slots /\ asked[slot] # Exec!NoRequest /\ s \in Sids /\ node \in Nodes
  BY DEF IndInv, AllOwed, Exec!Outstanding
<1>6. slot \in OwedTo(s)
  BY <1>5 DEF OwedTo
<1>7. NodeAt(out'.data, node) = node
  <2>1. asked[slot].block = BlockOf(node)
    BY <1>5, <1>6 DEF IndInv, RoutedHome
  <2> QED
    BY <1>4, <1>5, <2>1, BlockFacts
<1>8. states' = [states EXCEPT ![s] = X]
  <2> DEFINE t == SidOf(out'.tag)
             n == NodeOf(out'.tag)
             found == NodeAt(out'.data, n)
             u == states[t]
  <2>1. states' = [states EXCEPT ![t] =
           [u EXCEPT !.exact = TopPush(u.exact, load.exact[u.qi][found], n),
                     !.pending = u.pending \o load.nbrs[found],
                     !.inFlight = @ - 1]]
    BY Zenon DEF Land
  <2>2. t = s /\ n = node
    BY <1>4
  <2>3. found = node /\ u = st
    BY <1>7, <2>2
  <2> HIDE DEF t, n, found, u
  <2>4. states' = [states EXCEPT ![s] =
           [st EXCEPT !.exact = TopPush(st.exact, load.exact[st.qi][node], node),
                      !.pending = st.pending \o load.nbrs[node],
                      !.inFlight = @ - 1]]
    BY <2>1, <2>2, <2>3
  <2> QED
    BY <2>4 DEF Landed
<1>9. /\ states \in [Sids -> QState] /\ load \in Workload
      /\ asked \in [Exec!Slots -> Exec!Request \cup {Exec!NoRequest}]
  BY PipelineAssumption DEF IndInv, TypeOK, Exec!IndInv, Exec!TypeOK
<1>10. /\ st \in QState /\ st.qi \in Queries /\ st.exact \in Seq(Scored)
       /\ st.pending \in Seq(Nodes) /\ st.inFlight \in Nat
       /\ st.inFlight = Cardinality(OwedTo(s)) /\ st.inFlight > 0
  <2>1. st \in QState
    BY <1>5, <1>9
  <2>2. st.inFlight = Cardinality(OwedTo(s)) /\ st.inFlight # 0 /\ st.inFlight \in Nat
    BY <1>5, <1>6, OwedFacts
  <2> QED
    BY <2>1, <2>2 DEF QState
<1>11. exact \in Seq(Scored) /\ nbs \in Seq(Nodes)
  <2>1. load.exact[st.qi][node] \in Nat /\ load.nbrs[node] \in Seq(Nodes)
    BY <1>5, <1>9, <1>10 DEF Workload
  <2> QED
    BY <1>5, <1>10, <2>1, TopPushType, ConcatProperties
<1> HIDE DEF st, exact, nbs, tag, s, node
<1>12. /\ X \in QState /\ X.inFlight = st.inFlight - 1 /\ X.reads = st.reads
       /\ X.visited = st.visited /\ X.pool = st.pool /\ X.active = st.active
  BY <1>10, <1>11, LandedFacts
<1> HIDE DEF X
<1>13. UNCHANGED <<load, pc, sid, frontier, nextQ, remaining, results>>
  BY <1>1 DEF given
<1>14. ASSUME NEW t \in Sids, t = s PROVE IndInv'
  <2>1. t = SidOf(asked[slot].tag)
    BY <1>14 DEF s, tag
  <2>2. /\ X.inFlight = states[t].inFlight - 1 /\ X.reads = states[t].reads
        /\ X.visited = states[t].visited /\ X.pool = states[t].pool
        /\ X.active = states[t].active /\ states' = [states EXCEPT ![t] = X]
    BY <1>8, <1>12, <1>14 DEF st
  <2> QED
    BY <1>1, <1>3, <1>4, <1>12, <1>13, <2>1, <2>2, LandedStep
<1> QED
  BY <1>5, <1>14

-----------------------------------------------------------------------------
LEMMA InitInv == Init => IndInv
<1> SUFFICES ASSUME Init PROVE IndInv
  OBVIOUS
<1>1. /\ Exec!Init /\ load \in Workloads /\ pc = "phaseA" /\ sid = 0 /\ frontier = <<>>
      /\ states = [s \in Sids |-> Seed(s)] /\ nextQ = Concurrency
      /\ remaining = NumQueries /\ results = [q \in Queries |-> NoAnswer]
  BY DEF Init
<1>2. Exec!IndInv
  BY <1>1, ExecInit
<1>3. status = "ready" /\ asked = [b \in Exec!Slots |-> Exec!NoRequest]
  BY <1>1 DEF Exec!Init
<1>4. Exec!Outstanding = {} /\ \A s : OwedTo(s) = {}
  BY <1>3 DEF Exec!Outstanding, OwedTo
<1>5. ASSUME NEW s \in Sids
      PROVE  /\ states[s] \in QState /\ states[s].inFlight = 0 /\ states[s].active
             /\ SlotTidy(s)
  <2>1. s \in Queries /\ load \in Workload
    BY <1>1, SidFacts, PipelineAssumption DEF Sids
  <2>2. states[s] = Seed(s)
    BY <1>1
  <2>3. /\ Seed(s) \in QState /\ Seed(s).inFlight = 0 /\ Seed(s).reads = 0 /\ Seed(s).active
        /\ Tidy([visited |-> Seed(s).visited, pool |-> Seed(s).pool], {})
    BY <2>1, SeedFacts
  <2>4. Unstaged(s) = 0 /\ W \in Nat
    BY <1>1, BeamAssumption DEF Unstaged
  <2>5. {} \in SUBSET Nodes /\ Seed(s).reads + 0 <= Cardinality({})
    BY <2>3, FS_EmptySet
  <2>6. Seed(s).inFlight + 0 <= W /\ ~ (Seed(s).inFlight + 0 > 0)
    BY <2>3, <2>4
  <2>7. SlotTidy(s)
    BY <2>2, <2>3, <2>4, <2>5, <2>6 DEF SlotTidy
  <2> QED
    BY <2>2, <2>3, <2>7
<1>6. TypeOK
  <2>1. states \in [Sids -> QState]
    BY <1>1, <1>5
  <2>2. frontier \in Seq(Nodes)
    BY <1>1, EmptySeq
  <2>3. sid \in 0 .. Concurrency /\ nextQ \in 0 .. NumQueries /\ remaining \in 0 .. NumQueries
    BY <1>1, SidFacts
  <2> QED
    BY <1>1, <2>1, <2>2, <2>3 DEF TypeOK
<1>7. InFlightExact
  BY <1>4, <1>5, FS_EmptySet DEF InFlightExact
<1>8. RoutedHome /\ AllOwed /\ SlotsTidy /\ StagingApart /\ InStep
  BY <1>1, <1>3, <1>4, <1>5 DEF RoutedHome, AllOwed, SlotsTidy, StagingApart, InStep
<1>9. PassedBy
  BY <1>1 DEF PassedBy, Sids
<1>10. QueriesCounted
  <2>1. Running = Sids /\ Cardinality(Sids) = Concurrency
    BY <1>5, SidFacts DEF Running
  <2>2. remaining = (NumQueries - nextQ) + Cardinality(Running)
    BY <1>1, <2>1, SidFacts
  <2> QED
    BY <2>1, <2>2 DEF QueriesCounted, Running
<1> QED
  BY <1>2, <1>6, <1>7, <1>8, <1>9, <1>10 DEF IndInv

LEMMA StepInv == IndInv /\ [Next]_vars => IndInv'
<1> SUFFICES ASSUME IndInv, [Next]_vars PROVE IndInv'
  OBVIOUS
<1>1. Exec!IndInv'
  <2>1. Exec!IndInv
    BY DEF IndInv
  <2> QED
    BY <2>1, ExecNext, ExecStep
<1>2. CASE Quiet
  BY <1>1, <1>2, QuietStep
<1>3. CASE Expand
  <2>1. sid \in Sids
    BY <1>3 DEF Expand
  <2> QED
    BY <1>1, <1>3, <2>1, ExpandStep
<1>4. CASE Finish
  <2>1. sid \in Sids
    BY <1>4 DEF Finish
  <2> QED
    BY <1>1, <1>4, <2>1, FinishStep
<1>5. CASE Stage
  <2>1. sid \in Sids
    BY <1>5 DEF Stage, IndInv, StagingApart
  <2> QED
    BY <1>1, <1>5, <2>1, StageStep
<1>6. CASE Land
  BY <1>1, <1>6, LandStep
<1> QED
  BY <1>2, <1>3, <1>4, <1>5, <1>6 DEF Next, Scheduler, Quiet

\* In every reachable state the inductive invariant holds.
THEOREM InvariantHolds == Spec => []IndInv
BY InitInv, StepInv, PTL DEF Spec

\* The scheduler is one of the executor's callers: every run of it is a run of
\* the executor, with what is proved of that (pipeline.rs keeps to the terms
\* of uring.rs: it never waits for more completions than are outstanding).
THEOREM ExecutorUsed == Spec => UsesExecutor
<1>1. Init => Exec!Init
  BY DEF Init
<1>2. IndInv /\ [Next]_vars => [Exec!Next]_(Exec!vars)
  BY ExecNext
<1> QED
  BY <1>1, <1>2, InvariantHolds, PTL DEF Spec, UsesExecutor, Exec!Spec

\* Every variable of the scheduler keeps its type: the counters of a slot stay
\* within the beam's width and the number of nodes.
THEOREM TypeCorrect == Spec => []TypeOK
<1>1. IndInv => TypeOK
  BY DEF IndInv
<1> QED
  BY <1>1, InvariantHolds, PTL

\* A slot's count of reads in flight is what the executor owes it, always.
THEOREM CountsAreExact == Spec => []InFlightExact
<1>1. IndInv => InFlightExact
  BY DEF IndInv
<1> QED
  BY <1>1, InvariantHolds, PTL

\* A completion always finds the query that asked for it still in its slot.
THEOREM CompletionsRouted == Spec => []RoutedHome
<1>1. IndInv => RoutedHome
  BY DEF IndInv
<1> QED
  BY <1>1, InvariantHolds, PTL

\* The scheduler never blocks with nothing to wait for.
THEOREM WaitsEnd == Spec => []NeverWaitsForNothing
<1>1. IndInv => NeverWaitsForNothing
  BY SomeOutstanding DEF NeverWaitsForNothing
<1> QED
  BY <1>1, InvariantHolds, PTL

\* When the thread goes to the kernel, as many queries as there can be run, and
\* each has reads in flight.
THEOREM KeepsBusy == Spec => []NeverBreathesOut
<1>1. IndInv => NeverBreathesOut
  <2> SUFFICES ASSUME IndInv, pc \in {"flush", "drain"}
               PROVE  /\ Cardinality(Running) = IF remaining < Concurrency THEN remaining ELSE Concurrency
                      /\ \A s \in Running : states[s].inFlight > 0
    BY DEF NeverBreathesOut, Running
  <2>1. /\ remaining = (NumQueries - nextQ) + Cardinality(Running)
        /\ nextQ < NumQueries => Running = Sids
        /\ nextQ \in 0 .. NumQueries
    BY DEF IndInv, QueriesCounted, TypeOK, Running
  <2>2. \A s \in Running : states[s].inFlight > 0
    BY DEF IndInv, PassedBy, Running
  <2>3. Cardinality(Running) \in Nat /\ Cardinality(Running) <= Concurrency
    BY RunningFacts, SidFacts, FS_Subset
  <2>4. CASE nextQ < NumQueries
    <3>1. Cardinality(Running) = Concurrency
      BY <2>1, <2>4, SidFacts
    <3>2. ~ (remaining < Concurrency)
      BY <2>1, <2>4, <3>1, SidFacts
    <3> QED
      BY <2>2, <3>1, <3>2
  <2>5. CASE ~ (nextQ < NumQueries)
    <3>1. remaining = Cardinality(Running)
      BY <2>1, <2>3, <2>5, SidFacts
    <3> QED
      BY <2>2, <2>3, <3>1, SidFacts
  <2> QED
    BY <2>4, <2>5
<1> QED
  BY <1>1, InvariantHolds, PTL

-----------------------------------------------------------------------------
\* The reads out to the state slots up to one of them, with those it has still
\* to stage, are no more than as many beams.
LEMMA BeamsBound ==
  ASSUME IndInv
  PROVE  Cardinality(Exec!Outstanding) +
           (IF pc = "stage" THEN Len(frontier) ELSE 0) <= Concurrency * W
<1> DEFINE Below(k) == {b \in Exec!Outstanding : SidOf(asked[b].tag) < k}
           More(k) == IF pc = "stage" /\ sid < k THEN Len(frontier) ELSE 0
           G == {k \in Nat : k <= Concurrency => Cardinality(Below(k)) + More(k) <= k * W}
<1>1. W \in Nat /\ Concurrency \in Nat /\ Len(frontier) \in Nat
  BY SidFacts, BeamAssumption, LenProperties DEF IndInv, TypeOK
<1>2. \A k : IsFiniteSet(Below(k)) /\ Cardinality(Below(k)) \in Nat
  <2> TAKE k
  <2>1. Below(k) \subseteq Exec!Outstanding
    OBVIOUS
  <2> HIDE DEF Below
  <2>2. IsFiniteSet(Below(k))
    BY <2>1, SlotFacts, FS_Subset
  <2> QED
    BY <2>2, FS_CardinalityType
<1>3. \A b \in Exec!Outstanding : SidOf(asked[b].tag) \in 0 .. Concurrency - 1
  BY DEF IndInv, AllOwed, Sids
<1>4. pc = "stage" => sid \in 0 .. Concurrency - 1
  BY DEF IndInv, StagingApart, Sids
<1>5. 0 \in G
  <2>1. Below(0) = {}
    BY <1>1, <1>3
  <2>2. More(0) = 0
    BY <1>1, <1>4
  <2> HIDE DEF Below, More
  <2>3. Cardinality(Below(0)) = 0
    BY <2>1, FS_EmptySet
  <2> QED
    BY <1>1, <2>2, <2>3
<1>6. ASSUME NEW k \in 1 .. Concurrency, k - 1 \in G PROVE k \in G
  <2>1. k \in Nat /\ k - 1 \in Nat /\ k - 1 \in Sids
    BY <1>1 DEF Sids
  <2> DEFINE s == k - 1
  <2>2. Below(k) = Below(s) \cup OwedTo(s)
    <3>1. \A b \in Exec!Outstanding : SidOf(asked[b].tag) < k <=>
            SidOf(asked[b].tag) < s \/ SidOf(asked[b].tag) = s
      BY <1>1, <1>3, <2>1
    <3>2. OwedTo(s) = {b \in Exec!Outstanding : SidOf(asked[b].tag) = s}
      BY DEF OwedTo, Exec!Outstanding
    <3> HIDE DEF s
    <3> QED
      BY <3>1, <3>2
  <2>3. More(k) = More(s) + Unstaged(s)
    <3>1. CASE pc = "stage"
      <4>1. sid \in Int /\ (sid < k <=> sid < s \/ sid = s) /\ ~ (sid < s /\ sid = s)
        BY <1>1, <1>4, <2>1, <3>1
      <4>2. More(k) = IF sid < k THEN Len(frontier) ELSE 0
        BY <3>1
      <4>3. More(s) = IF sid < s THEN Len(frontier) ELSE 0
        BY <3>1
      <4>4. Unstaged(s) = IF sid = s THEN Len(frontier) ELSE 0
        BY <3>1 DEF Unstaged
      <4>5. Len(frontier) \in Nat
        BY <1>1
      <4> HIDE DEF More, s
      <4>6. CASE sid < s
        BY <4>1, <4>2, <4>3, <4>4, <4>5, <4>6
      <4>7. CASE sid = s
        <5>1. More(k) = Len(frontier) /\ More(s) = 0 /\ Unstaged(s) = Len(frontier)
          BY <4>1, <4>2, <4>3, <4>4, <4>7
        <5> QED
          BY <4>5, <5>1
      <4>8. CASE ~ (sid < s) /\ sid # s
        <5>1. More(k) = 0 /\ More(s) = 0 /\ Unstaged(s) = 0
          BY <4>1, <4>2, <4>3, <4>4, <4>8
        <5> QED
          BY <5>1
      <4> QED
        BY <4>6, <4>7, <4>8
    <3>2. CASE pc # "stage"
      BY <3>2 DEF Unstaged
    <3> QED
      BY <3>1, <3>2
  <2>4. /\ IsFiniteSet(OwedTo(s)) /\ Cardinality(OwedTo(s)) \in Nat
        /\ Cardinality(OwedTo(s)) + Unstaged(s) <= W
    <3>1. IsFiniteSet(OwedTo(s)) /\ Cardinality(OwedTo(s)) \in Nat
      BY <2>1, OwedFacts
    <3>2. Cardinality(OwedTo(s)) = states[s].inFlight
      BY <2>1, OwedFacts
    <3>3. states[s].inFlight + Unstaged(s) <= W
      BY <2>1 DEF IndInv, SlotsTidy, SlotTidy
    <3> QED
      BY <3>1, <3>2, <3>3
  <2>5. Cardinality(Below(s)) + More(s) <= s * W
    BY <1>1, <1>6, <2>1
  <2>6. Unstaged(s) \in Nat /\ More(s) \in Nat
    BY <1>1 DEF Unstaged
  <2>7. s * W + W = k * W
    BY <1>1, <2>1
  <2> HIDE DEF Below, More, s
  <2>8. Cardinality(Below(k)) <= Cardinality(Below(s)) + Cardinality(OwedTo(s))
    <3>1. Cardinality(Below(s) \cup OwedTo(s)) =
            Cardinality(Below(s)) + Cardinality(OwedTo(s)) - Cardinality(Below(s) \cap OwedTo(s))
      BY <1>2, <2>4, FS_Union
    <3>2. IsFiniteSet(Below(s) \cap OwedTo(s))
      BY <1>2, FS_Intersection
    <3>3. Cardinality(Below(s) \cap OwedTo(s)) \in Nat
      BY <3>2, FS_CardinalityType
    <3> QED
      BY <1>2, <2>2, <2>4, <3>1, <3>3
  <2>9. s * W \in Int /\ k * W \in Int
    <3>1. s \in Nat
      BY <2>1 DEF s
    <3> QED
      BY <1>1, <2>1, <3>1
  <2>10. Cardinality(Below(k)) + More(k) <= k * W
    <3>1. \A bk, bs, o, ms, u, w \in Nat, sw, kw \in Int :
            /\ bk <= bs + o /\ bs + ms <= sw /\ o + u <= w /\ sw + w = kw
            => bk + (ms + u) <= kw
      OBVIOUS
    <3> QED
      BY <1>1, <1>2, <2>3, <2>4, <2>5, <2>6, <2>7, <2>8, <2>9, <3>1
  <2> QED
    BY <2>1, <2>10
<1> HIDE DEF G
<1>7. \A k \in 0 .. Concurrency : k \in G
  BY <1>1, <1>5, <1>6, UpTo
<1>8. Concurrency \in G
  BY <1>1, <1>7
<1>9. Below(Concurrency) = Exec!Outstanding
  BY <1>1, <1>3
<1>10. More(Concurrency) = IF pc = "stage" THEN Len(frontier) ELSE 0
  BY <1>1, <1>4
<1> HIDE DEF Below, More
<1> QED
  BY <1>1, <1>8, <1>9, <1>10 DEF G

\* A slot of the executor that is not free serves a request, as long as it runs.
LEMMA UsedServe ==
  ASSUME Exec!IndInv, status \in Exec!Running
  PROVE  Exec!Slots = Exec!FreeSlots \cup Exec!Outstanding
<1>1. \A c : c.ud \in Exec!UserData => Exec!TagOf(c.ud) # -1 /\ Exec!SlotOf(c.ud) \in Exec!Slots
  <2> TAKE c
  <2> HAVE c.ud \in Exec!UserData
  <2>1. c.ud \in Ring!UserData
    BY DEF Exec!UserData, Ring!UserData
  <2>2. Ring!SlotOf(c.ud) \in Ring!Slots /\ Ring!TagOf(c.ud) \in Ring!Tags
    BY <2>1, RingConstants, Ring!UnpackFacts
  <2>3. TagSpan \in Nat
    BY PipelineAssumption
  <2> QED
    BY <2>2, <2>3 DEF Ring!SlotOf, Exec!SlotOf, Ring!TagOf, Exec!TagOf, Ring!Tags, Ring!Slots, Exec!Slots
<1>2. \A e : /\ Exec!Serves(e) /\ e.ud \in Exec!UserData
             => Exec!SlotOf(e.ud) \in Exec!Outstanding
  BY <1>1 DEF Exec!Serves, Exec!Outstanding, Exec!NoRequest
<1>3. \A c : Exec!Answers(c) /\ c.ud \in Exec!UserData => Exec!SlotOf(c.ud) \in Exec!Outstanding
  BY <1>1 DEF Exec!Answers, Exec!Outstanding
<1>4. Exec!SlotsIn(sq) \subseteq Exec!Outstanding
  <2>1. sq \in Seq(Exec!Sqe(Exec!UserData)) /\ \A i \in DOMAIN sq : Exec!Serves(sq[i])
    BY DEF Exec!IndInv, Exec!TypeOK, Exec!Linked
  <2>2. \A i \in DOMAIN sq : sq[i].ud \in Exec!UserData
    <3>1. \A i \in DOMAIN sq : sq[i] \in Exec!Sqe(Exec!UserData)
      BY <2>1, LenProperties
    <3> QED
      BY <3>1 DEF Exec!Sqe
  <2> QED
    BY <1>2, <2>1, <2>2 DEF Exec!SlotsIn
<1>5. Exec!KernelSlots \subseteq Exec!Outstanding
  <2>1. \A e \in kernel : Exec!Serves(e) /\ e.ud \in Exec!UserData
    BY DEF Exec!IndInv, Exec!TypeOK, Exec!Linked, Exec!Sqe
  <2> QED
    BY <1>2, <2>1 DEF Exec!KernelSlots
<1>6. Exec!SlotsIn(cq) \subseteq Exec!Outstanding
  <2>1. cq \in Seq(Exec!Cqe(Exec!UserData)) /\ \A i \in DOMAIN cq : Exec!Answers(cq[i])
    BY DEF Exec!IndInv, Exec!TypeOK, Exec!Linked
  <2>2. \A i \in DOMAIN cq : cq[i].ud \in Exec!UserData
    <3>1. \A i \in DOMAIN cq : cq[i] \in Exec!Cqe(Exec!UserData)
      BY <2>1, LenProperties
    <3> QED
      BY <3>1 DEF Exec!Cqe
  <2> QED
    BY <1>3, <2>1, <2>2 DEF Exec!SlotsIn
<1>7. Exec!SlotsIn(cqBuf) \subseteq Exec!Outstanding
  <2>1. cqBuf \in Seq(Exec!Cqe(Exec!UserData)) /\ \A i \in DOMAIN cqBuf : Exec!Answers(cqBuf[i])
    BY DEF Exec!IndInv, Exec!TypeOK, Exec!Linked
  <2>2. \A i \in DOMAIN cqBuf : cqBuf[i].ud \in Exec!UserData
    <3>1. \A i \in DOMAIN cqBuf : cqBuf[i] \in Exec!Cqe(Exec!UserData)
      BY <2>1, LenProperties
    <3> QED
      BY <3>1 DEF Exec!Cqe
  <2> QED
    BY <1>3, <2>1, <2>2 DEF Exec!SlotsIn
<1>8. /\ Exec!FreeSlots \cup Exec!SlotsIn(sq) \cup Exec!KernelSlots \cup Exec!SlotsIn(cq)
           \cup Exec!SlotsIn(cqBuf) = Exec!Slots
  BY DEF Exec!IndInv, Exec!SlotAccounting, Exec!NoneLost
<1> QED
  BY <1>4, <1>5, <1>6, <1>7, <1>8, SlotFacts

\* capacity() >= concurrency * w is enough: with a read still to stage, fewer
\* are out than the executor has slots, and every slot not free is of one out.
LEMMA SlotIsFree ==
  ASSUME IndInv, pc = "stage"
  PROVE  free # <<>>
<1> SUFFICES ASSUME free = <<>> PROVE FALSE
  OBVIOUS
<1>1. Exec!FreeSlots = {}
  BY EmptySeq DEF Exec!FreeSlots
<1>2. Exec!IndInv /\ status \in Exec!Running
  BY DEF IndInv, InStep, Exec!Running
<1>3. Exec!Outstanding = Exec!Slots
  BY <1>1, <1>2, UsedServe
<1>4. Cardinality(Exec!Outstanding) = QueueDepth
  BY <1>3, SlotFacts
<1>5. Len(frontier) \in Nat /\ Len(frontier) > 0
  BY EmptySeq, LenProperties DEF IndInv, TypeOK, StagingApart
<1>6. Cardinality(Exec!Outstanding) + Len(frontier) <= Concurrency * W
  BY BeamsBound
<1>7. QueueDepth \in Nat /\ QueueDepth >= Concurrency * W /\ Concurrency * W \in Int
  BY PipelineAssumption, BeamAssumption, SidFacts
<1> QED
  BY <1>4, <1>5, <1>6, <1>7

\* stage_read always finds a free slot, though slots come back only when drained.
THEOREM SlotsAreEnough == Spec => []SlotsSuffice
<1>1. IndInv => SlotsSuffice
  BY SlotIsFree DEF SlotsSuffice
<1> QED
  BY <1>1, InvariantHolds, PTL

\* On Ok no read is out, neither staged nor with the kernel.
THEOREM OkLeavesNothing == Spec => []OkIsQuiet
<1>1. ASSUME IndInv, pc = "ok" PROVE Exec!Outstanding = {} /\ kernel = {}
  <2>1. Running = {}
    <3>1. /\ remaining = (NumQueries - nextQ) + Cardinality(Running)
          /\ nextQ \in 0 .. NumQueries /\ remaining = 0
      BY <1>1 DEF IndInv, QueriesCounted, TypeOK, InStep, Running
    <3>2. Cardinality(Running) = 0
      BY <3>1, RunningFacts, SidFacts
    <3> QED
      BY <3>2, RunningFacts
  <2>2. Exec!Outstanding = {}
    <3> SUFFICES ASSUME NEW b \in Exec!Outstanding PROVE FALSE
      OBVIOUS
    <3>1. SidOf(asked[b].tag) \in Sids /\ b \in OwedTo(SidOf(asked[b].tag))
      BY <1>1 DEF IndInv, AllOwed, OwedTo, Exec!Outstanding
    <3>2. states[SidOf(asked[b].tag)].active
      BY <1>1, <3>1 DEF IndInv, RoutedHome
    <3> QED
      BY <2>1, <3>1, <3>2 DEF Running
  <2>3. kernel = {}
    <3> SUFFICES ASSUME NEW e \in kernel PROVE FALSE
      OBVIOUS
    <3>1. e \in Exec!Sqe(Exec!UserData) /\ Exec!Serves(e)
      BY <1>1 DEF IndInv, Exec!IndInv, Exec!TypeOK, Exec!Linked
    <3>2. e.buf \in Exec!Slots /\ e.block \in Exec!Blocks
      BY <3>1 DEF Exec!Sqe
    <3>3. asked[e.buf].block = e.block
      BY <3>1 DEF Exec!Serves
    <3>4. e.block # -1
      BY <3>2, PipelineAssumption DEF Exec!Blocks
    <3>5. asked[e.buf] # Exec!NoRequest
      BY <3>3, <3>4 DEF Exec!NoRequest
    <3> QED
      BY <2>2, <3>2, <3>5 DEF Exec!Outstanding
  <2> QED
    BY <2>2, <2>3
<1>2. IndInv => OkIsQuiet
  BY <1>1 DEF OkIsQuiet
<1> QED
  BY <1>2, InvariantHolds, PTL

\* No read fails to be staged: the executor has a slot for it, room in its
\* queue, and the block and the tag are within bounds.  So the `?` of stage_read
\* never leaves the loop, and only the I/O errors of flush and drain do.
THEOREM StagingNeverFails == Spec => [][Stage => pc' # "err"]_vars
<1>1. IndInv /\ Exec!SqHasRoom /\ [Next]_vars => [Stage => pc' # "err"]_vars
  <2> SUFFICES ASSUME IndInv, Exec!SqHasRoom, Stage PROVE pc' # "err"
    BY Zenon
  <2> DEFINE block == BlockOf(Head(frontier))
             tag == Tag(sid, Head(frontier))
  <2>1. pc = "stage" /\ status = "ready" /\ frontier \in Seq(Nodes) /\ frontier # <<>> /\ sid \in Sids
    BY DEF Stage, IndInv, InStep, TypeOK, StagingApart
  <2>2. Head(frontier) \in Nodes
    BY <2>1, HeadTailProperties
  <2>3. block \in 0 .. NumBlocks - 1 /\ tag \in 0 .. TagSpan - 1 /\ free # <<>>
    BY <2>1, <2>2, BlockFacts, TagFacts, SlotIsFree
  <2>4. NumBlocks \in Nat /\ TagSpan \in Nat
    BY PipelineAssumption
  <2>5. \/ /\ Exec!StageRefused(block, tag)
           /\ pc' = "err" /\ UNCHANGED <<sid, frontier, states>>
        \/ /\ Exec!StageRead(block, tag)
           /\ IF status' = "failed"
                THEN pc' = "err" /\ UNCHANGED <<sid, frontier, states>>
                ELSE Staged
    BY Zenon DEF Stage
  <2> HIDE DEF block, tag
  <2>6. ~ Exec!Refused(block, tag)
    BY <2>3, <2>4 DEF Exec!Refused
  <2>7. Len(sq) < SqEntries
    BY <2>1, <2>3 DEF Exec!SqHasRoom
  <2>8. Exec!StageRead(block, tag)
    BY <2>5, <2>6 DEF Exec!StageRefused
  <2>9. status' # "failed"
    BY <2>1, <2>7, <2>8 DEF Exec!StageRead
  <2>10. Staged
    BY <2>5, <2>6, <2>9 DEF Exec!StageRefused
  <2> QED
    BY <2>1, <2>10 DEF Staged
<1>2. Exec!Spec => []Exec!SqHasRoom
  <2>1. Ring!Spec => []Ring!SqHasRoom
    BY RingConstants, Ring!QueueHasRoom
  <2>2. Exec!Spec => Ring!Spec
    <3>1. Exec!Init => Ring!Init
      BY DEF Exec!Init, Ring!Init, Exec!RingInit, Ring!RingInit, Exec!Slots, Ring!Slots,
        Exec!NoRequest, Ring!NoRequest, Exec!NoDelivery, Ring!NoDelivery, Exec!Garbage, Ring!Garbage
    <3>2. [Exec!Next]_(Exec!vars) => [Ring!Next]_(Ring!vars)
      <4>1. Exec!vars = Ring!vars /\ Exec!vars' = Ring!vars'
        BY DEF Exec!vars, Ring!vars, Exec!ringVars, Ring!ringVars, Exec!executorVars, Ring!executorVars
      <4> QED
        BY <4>1, SameNext
    <3> QED
      BY <3>1, <3>2, PTL DEF Exec!Spec, Ring!Spec
  <2>3. Ring!SqHasRoom => Exec!SqHasRoom
    BY DEF Exec!SqHasRoom, Ring!SqHasRoom
  <2> QED
    BY <2>1, <2>2, <2>3, PTL
<1> QED
  BY <1>1, <1>2, InvariantHolds, ExecutorUsed, PTL DEF Spec, UsesExecutor

-----------------------------------------------------------------------------
\* A round begins with all of its nodes still to be staged.
LEMMA RoundBegins ==
  ASSUME NEW st \in QState, NEW n, NEW E, HasExpanded(load, st.qi, n, E),
         LET r == Rounds(load, st.qi)[n] IN
           /\ Frontier(r.pool) # <<>>
           /\ st.visited = r.visited /\ st.pool = MarkExpanded(r.pool)
           /\ st.exact = r.exact /\ st.reads = r.reads /\ st.pending = <<>>
  PROVE  LET f == Frontier(Rounds(load, st.qi)[n].pool) IN
         MidRound(st, n, E, {}, ToSet(f), Len(f))
<1> DEFINE r == Rounds(load, st.qi)[n]
           f == Frontier(r.pool)
<1>1. ToSet(st.pending) = {}
  <2>1. st.pending = <<>>
    OBVIOUS
  <2> QED
    BY <2>1 DEF ToSet
<1>2. NearestOf(st.exact, load.exact[st.qi], E, K)
  <2>1. NearestOf(r.exact, load.exact[st.qi], E, K)
    BY Zenon DEF HasExpanded
  <2>2. st.exact = r.exact
    OBVIOUS
  <2> QED
    BY <2>1, <2>2, Zenon
<1>3. f # <<>> /\ st.visited = r.visited /\ st.pool = MarkExpanded(r.pool) /\ st.reads = r.reads
  OBVIOUS
<1> HIDE DEF r, f
<1>4. {} \cup ToSet(f) = ToSet(f) /\ {} \cap ToSet(f) = {} /\ E \cup {} = E
  OBVIOUS
<1>5. NeighboursOf(load, {}) = {}
  BY DEF NeighboursOf
<1>6. NearestOf(st.exact, load.exact[st.qi], E \cup {}, K)
  BY <1>2, <1>4, Zenon
<1>7. st.reads + Len(f) = r.reads + Len(f)
  BY <1>3
<1>8. ToSet(st.pending) = NeighboursOf(load, {})
  BY <1>1, <1>5, Zenon
<1> QED
  BY <1>3, <1>4, <1>6, <1>7, <1>8, Zenon DEF MidRound, r, f

\* Staging a read changes the count of them only.
LEMMA RoundStages ==
  ASSUME NEW st \in QState, NEW X \in QState, NEW n, NEW E, NEW D, NEW await,
         NEW k \in Nat \ {0}, MidRound(st, n, E, D, await, k),
         X.qi = st.qi, X.visited = st.visited, X.pool = st.pool, X.pending = st.pending,
         X.exact = st.exact, X.reads = st.reads + 1
  PROVE  MidRound(X, n, E, D, await, k - 1)
<1>1. st.reads \in Nat
  BY BeamAssumption, FS_CardinalityType DEF QState
<1>2. X.reads + (k - 1) = st.reads + k
  BY <1>1
<1> QED
  BY <1>2, Zenon DEF MidRound

\* A read that comes back takes its node from those awaited to those landed, its
\* distance to the top and its neighbours to the others, whichever it is.
LEMMA RoundLands ==
  ASSUME load \in Workload, NEW st \in QState, NEW X \in QState, NEW n, NEW E, NEW D, NEW await,
         NEW k, MidRound(st, n, E, D, await, k), NEW node \in await, node \in Nodes,
         \A a \in await : a \notin E,
         E \in SUBSET Nodes, D \in SUBSET Nodes,
         X.qi = st.qi, X.visited = st.visited, X.pool = st.pool, X.reads = st.reads,
         X.exact = TopPush(st.exact, load.exact[st.qi][node], node),
         X.pending = st.pending \o load.nbrs[node]
  PROVE  MidRound(X, n, E, D \cup {node}, await \ {node}, k)
<1>1. /\ st.qi \in Queries /\ st.exact \in Seq(Scored) /\ st.pending \in Seq(Nodes)
      /\ load.exact[st.qi] \in [Nodes -> Nat] /\ load.nbrs[node] \in Seq(Nodes)
  BY DEF QState, Workload
<1> DEFINE r == Rounds(load, st.qi)[n]
           f == Frontier(r.pool)
<1>2. /\ HasExpanded(load, st.qi, n, E) /\ f # <<>>
      /\ st.visited = r.visited /\ st.pool = MarkExpanded(r.pool)
      /\ D \cup await = ToSet(f) /\ D \cap await = {}
      /\ ToSet(st.pending) = NeighboursOf(load, D)
      /\ NearestOf(st.exact, load.exact[st.qi], E \cup D, K)
      /\ st.reads + k = r.reads + Len(f)
  BY Zenon DEF MidRound
<1> HIDE DEF r, f
<1>3. /\ (D \cup {node}) \cup (await \ {node}) = ToSet(f)
      /\ (D \cup {node}) \cap (await \ {node}) = {}
      /\ node \notin E \cup D /\ (E \cup D) \cup {node} = E \cup (D \cup {node})
  BY <1>2
<1>4. ToSet(X.pending) = NeighboursOf(load, D \cup {node})
  <2>1. ToSet(X.pending) = ToSet(st.pending) \cup ToSet(load.nbrs[node])
    <3>1. PICK a \in Seq(Nodes) : a = st.pending
      BY <1>1
    <3>2. PICK b \in Seq(Nodes) : b = load.nbrs[node]
      BY <1>1
    <3>3. ToSet(a \o b) = ToSet(a) \cup ToSet(b)
      BY ConcatNodes
    <3>4. X.pending = a \o b
      BY <3>1, <3>2, Zenon
    <3> QED
      BY <3>1, <3>2, <3>3, <3>4, Zenon
  <2>2. NeighboursOf(load, D \cup {node}) =
          NeighboursOf(load, D) \cup ToSet(load.nbrs[node])
    BY DEF NeighboursOf
  <2> QED
    BY <1>2, <2>1, <2>2, Zenon
<1>5. NearestOf(X.exact, load.exact[X.qi], E \cup (D \cup {node}), K)
  <2>1. PICK dist \in [Nodes -> Nat] : dist = load.exact[st.qi]
    BY <1>1
  <2>2. NearestOf(st.exact, dist, E \cup D, K) /\ E \cup D \in SUBSET Nodes
    BY <1>2, <2>1
  <2>3. NearestOf(TopPush(st.exact, dist[node], node), dist, (E \cup D) \cup {node}, K)
    BY <1>1, <1>3, <2>2, TopPushNearest
  <2> QED
    BY <1>3, <2>1, <2>3, Zenon
<1> QED
  BY <1>2, <1>3, <1>4, <1>5, Zenon DEF MidRound, r, f

\* When all of a round's reads have come back, whatever their order, the slot's
\* candidates, top and count are those of the round-based search.
LEMMA RoundEnds ==
  ASSUME load \in Workload, DistancesDiffer(load), NEW st \in QState,
         NEW n \in 0 .. Cardinality(Nodes) - 1, NEW E, NEW D,
         MidRound(st, n, E, D, {}, 0)
  PROVE  LET t == Rounds(load, st.qi)[n + 1]
             new == Integrate(st.visited, st.pool, load.route[st.qi], st.pending)
         IN
         /\ new.visited = t.visited /\ new.pool = t.pool
         /\ st.exact = t.exact /\ st.reads = t.reads
         /\ HasExpanded(load, st.qi, n + 1, E \cup D)
<1>1. PICK q \in Queries : q = st.qi
  BY DEF QState
<1> DEFINE r == Rounds(load, q)[n]
           t == Rounds(load, q)[n + 1]
           f == Frontier(r.pool)
<1>2. /\ HasExpanded(load, q, n, E) /\ f # <<>>
      /\ st.visited = r.visited /\ st.pool = MarkExpanded(r.pool)
      /\ D \cup {} = ToSet(f)
      /\ ToSet(st.pending) = NeighboursOf(load, D)
      /\ NearestOf(st.exact, load.exact[q], E \cup D, K)
      /\ st.reads + 0 = r.reads + Len(f)
  BY <1>1, Zenon DEF MidRound
<1>3. D = ToSet(f)
  BY <1>2
<1>4. n \in Nat /\ n < Cardinality(Nodes)
  <2>1. Cardinality(Nodes) \in Nat
    BY BeamAssumption, FS_CardinalityType
  <2> QED
    BY <2>1
<1>5. PICK w \in Workload : w = load
  OBVIOUS
<1>6. PICK nbs \in Seq(Nodes) : nbs = st.pending
  BY DEF QState
<1>7. PICK top \in Seq(Scored) : top = st.exact
  BY DEF QState
<1> DEFINE new == Integrate(st.visited, st.pool, load.route[q], st.pending)
<1>10. new.visited = t.visited /\ new.pool = t.pool /\ top = t.exact
  <2> DEFINE x == Rounds(w, q)[n]
             y == Rounds(w, q)[n + 1]
             v == Integrate(x.visited, MarkExpanded(x.pool), w.route[q], nbs)
  <2>1. HasExpanded(w, q, n, E) /\ x = r /\ y = t
    BY <1>2, <1>5, Zenon
  <2>2. /\ ToSet(nbs) = NeighboursOf(w, ToSet(Frontier(x.pool)))
        /\ NearestOf(top, w.exact[q], E \cup ToSet(Frontier(x.pool)), K)
    BY <1>2, <1>3, <1>5, <1>6, <1>7, Zenon
  <2>3. Differ(w.route[q]) /\ Differ(w.exact[q])
    BY <1>5 DEF DistancesDiffer, Differ
  <2>4. v.visited = y.visited /\ v.pool = y.pool /\ top = y.exact
    <3> HIDE DEF r, t, f, new
    <3> QED
      BY <1>4, <2>1, <2>2, <2>3, SameRound
  <2>5. v = new
    BY <1>2, <1>5, <1>6, <2>1, Zenon
  <2> HIDE DEF r, t, f, new, x, y, v
  <2> QED
    BY <2>1, <2>4, <2>5, Zenon
<1>11. t.reads = r.reads + Len(f) /\ HasExpanded(load, q, n + 1, E \cup ToSet(f))
  BY <1>2, <1>4, RoundExpanded
<1>12. st.reads = t.reads
  <2>1. st.reads \in Nat
    BY BeamAssumption, FS_CardinalityType DEF QState
  <2> HIDE DEF r, t, f
  <2> QED
    BY <1>2, <1>11, <2>1
<1>14. st.exact = t.exact
  BY <1>7, <1>10, Zenon
<1>15. HasExpanded(load, q, n + 1, E \cup D)
  BY <1>3, <1>11, Zenon
<1> QED
  BY <1>1, <1>10, <1>12, <1>14, <1>15, Zenon

\* A search has come to the end of its round n, with these candidates.
Reached(st, n, E, new) ==
  LET r == Rounds(load, st.qi)[n] IN
  /\ HasExpanded(load, st.qi, n, E)
  /\ new.visited = r.visited /\ new.pool = r.pool
  /\ st.exact = r.exact /\ st.reads = r.reads

\* A query that has not begun is before round 1.
LEMMA SeedReached ==
  ASSUME load \in Workload, NEW q \in Queries, NEW st, st = Seed(q)
  PROVE  Reached(st, 0, {}, Integrate(st.visited, st.pool, load.route[st.qi], st.pending))
<1>1. /\ st.qi = q /\ st.visited = {Medoid} /\ st.exact = <<>> /\ st.reads = 0
      /\ st.pool = <<[dist |-> load.route[q][Medoid], id |-> Medoid, expanded |-> FALSE]>>
      /\ st.pending = <<>>
  BY DEF Seed
<1>2. Rounds(load, q)[0] = SearchSeed(load.route[q])
  BY RoundsStates
<1>3. LET r == SearchSeed(load.route[q]) IN
      /\ r.visited = {Medoid} /\ r.exact = <<>> /\ r.reads = 0
      /\ r.pool = <<[dist |-> load.route[q][Medoid], id |-> Medoid, expanded |-> FALSE]>>
  BY DEF SearchSeed
<1>4. HasExpanded(load, q, 0, {})
  BY SeedExpanded
<1> DEFINE r == Rounds(load, q)[0]
           b == [visited |-> st.visited, pool |-> st.pool]
<1>5. r.visited = st.visited /\ r.exact = st.exact /\ r.reads = st.reads /\ r.pool = st.pool
  BY <1>1, <1>2, <1>3, Zenon
<1>6. \A nbs \in Seq(Nodes) : nbs = <<>> => Integrate(st.visited, st.pool, load.route[q], nbs) = b
  <2> TAKE nbs \in Seq(Nodes)
  <2>1. nbs = <<>> => Loop(Visit(load.route[q]), b, nbs) = b
    BY LoopNothing
  <2> QED
    BY <2>1, Zenon DEF Integrate
<1>7. <<>> \in Seq(Nodes)
  BY EmptySeq
<1>8. Integrate(st.visited, st.pool, load.route[q], st.pending) = b
  BY <1>1, <1>6, <1>7, Zenon
<1>9. b.visited = st.visited /\ b.pool = st.pool
  OBVIOUS
<1> HIDE DEF b
<1> QED
  BY <1>1, <1>4, <1>5, <1>8, <1>9, Zenon DEF Reached

\* An idle slot, its neighbours integrated, is where the round-based search of
\* its query is at the end of some round.
LEMMA AtRest ==
  ASSUME IndInv, DistancesDiffer(load), NEW s \in Sids, pc = "phaseA", ~ Busy(s), InSomeRound(s)
  PROVE  \E n \in 0 .. Cardinality(Nodes) : \E E \in SUBSET Nodes :
           Reached(states[s], n, E, Integrated(s))
<1>1. load \in Workload /\ states[s] \in QState /\ Cardinality(Nodes) \in Nat /\ W \in Nat
  BY PipelineAssumption, BeamAssumption, FS_CardinalityType DEF IndInv, TypeOK
<1>2. states[s].qi \in Queries /\ states[s].inFlight = 0
  <2>1. states[s].qi \in Queries /\ states[s].inFlight \in Nat
    BY <1>1 DEF QState
  <2> QED
    BY <2>1 DEF Busy
<1>3. Awaited(s) = {} /\ Unstaged(s) = 0
  <2>1. OwedTo(s) = {}
    BY <1>2, OwedFacts
  <2> QED
    BY <2>1 DEF Awaited, Unstaged
<1>4. PICK st \in QState : st = states[s]
  BY <1>1
<1> DEFINE new == Integrate(st.visited, st.pool, load.route[st.qi], st.pending)
<1>5. Integrated(s) = new
  BY <1>4, Zenon DEF Integrated
<1>6. CASE states[s] = Seed(states[s].qi)
  <2>1. Reached(st, 0, {}, new)
    BY <1>1, <1>2, <1>4, <1>6, SeedReached
  <2>2. 0 \in 0 .. Cardinality(Nodes) /\ {} \in SUBSET Nodes
    BY <1>1
  <2> HIDE DEF new
  <2> QED
    BY <1>4, <1>5, <2>1, <2>2, Zenon
<1>7. CASE \E n \in 0 .. Cardinality(Nodes) - 1 : \E E, D \in SUBSET Nodes :
             MidRound(states[s], n, E, D, Awaited(s), Unstaged(s))
  <2>1. PICK n \in 0 .. Cardinality(Nodes) - 1, E \in SUBSET Nodes, D \in SUBSET Nodes :
          MidRound(states[s], n, E, D, Awaited(s), Unstaged(s))
    BY <1>7
  <2>2. MidRound(st, n, E, D, {}, 0)
    BY <1>3, <1>4, <2>1, Zenon
  <2> DEFINE t == Rounds(load, st.qi)[n + 1]
  <2>3. /\ new.visited = t.visited /\ new.pool = t.pool
        /\ st.exact = t.exact /\ st.reads = t.reads
        /\ HasExpanded(load, st.qi, n + 1, E \cup D)
    <3> HIDE DEF t, new
    <3> QED
      BY <1>1, <2>2, RoundEnds DEF t, new
  <2>4. n + 1 \in 0 .. Cardinality(Nodes) /\ E \cup D \in SUBSET Nodes
    BY <1>1
  <2> HIDE DEF new
  <2>5. Reached(st, n + 1, E \cup D, new)
    BY <2>3, Zenon DEF Reached
  <2> QED
    BY <1>4, <1>5, <2>4, <2>5, Zenon
<1> QED
  BY <1>6, <1>7 DEF InSomeRound

\* A slot none of whose reads and fields a step touches stays in its round.
LEMMA SameSlot ==
  ASSUME NEW s, InSomeRound(s), load' = load, states'[s] = states[s],
         Awaited(s)' = Awaited(s), Unstaged(s)' = Unstaged(s)
  PROVE  InSomeRound(s)'
<1>1. \A q : Seed(q)' = Seed(q)
  BY DEF Seed
<1>2. \A st, n, E, D, await, k : MidRound(st, n, E, D, await, k)' = MidRound(st, n, E, D, await, k)
  BY DEF MidRound
<1> QED
  BY <1>1, <1>2 DEF InSomeRound

-----------------------------------------------------------------------------
\* A tag is its state slot and its node.
LEMMA TagSplit ==
  ASSUME NEW s \in Nat, NEW tag \in Nat, SidOf(tag) = s
  PROVE  tag = Tag(s, NodeOf(tag))
<1>1. SidSpan \in Nat /\ SidSpan > 0
  BY PipelineAssumption
<1>2. tag = SidSpan * (tag \div SidSpan) + (tag % SidSpan)
  BY <1>1
<1>3. SidSpan * (tag \div SidSpan) \in Int /\ tag % SidSpan \in Int
  BY <1>1
<1> QED
  BY <1>2, <1>3 DEF Tag, SidOf, NodeOf

\* No two reads owed to a state slot are of one node.
LEMMA OwedNodesApart ==
  ASSUME IndInv, NEW s \in Sids, NEW b \in OwedTo(s), NEW c \in OwedTo(s),
         NodeOf(asked[b].tag) = NodeOf(asked[c].tag)
  PROVE  b = c
<1>1. /\ asked \in [Exec!Slots -> Exec!Request \cup {Exec!NoRequest}]
      /\ TagSpan \in Nat /\ s \in Nat
  BY PipelineAssumption DEF IndInv, Exec!IndInv, Exec!TypeOK, Sids
<1>2. /\ asked[b] \in Exec!Request /\ asked[c] \in Exec!Request
      /\ SidOf(asked[b].tag) = s /\ SidOf(asked[c].tag) = s
  BY <1>1 DEF OwedTo
<1>3. asked[b].tag \in Nat /\ asked[c].tag \in Nat
  BY <1>1, <1>2 DEF Exec!Request, Exec!Tags
<1>4. asked[b].tag = asked[c].tag
  BY <1>1, <1>2, <1>3, TagSplit
<1> QED
  BY <1>4 DEF IndInv, RoutedHome

-----------------------------------------------------------------------------
LEMMA AwaitedSame ==
  ASSUME NEW s, OwedTo(s)' = OwedTo(s), \A b \in OwedTo(s) : asked'[b] = asked[b],
         \/ (pc = "stage" => sid # s) /\ (pc' = "stage" => sid' # s)
         \/ UNCHANGED <<pc, sid, frontier>>
  PROVE  Awaited(s)' = Awaited(s) /\ Unstaged(s)' = Unstaged(s)
<1>1. {NodeOf(asked[b].tag) : b \in OwedTo(s)}' = {NodeOf(asked[b].tag) : b \in OwedTo(s)}
  <2>1. \A b \in OwedTo(s) : NodeOf(asked'[b].tag) = NodeOf(asked[b].tag)
    OBVIOUS
  <2>2. \A x : NodeOf(x)' = NodeOf(x)
    BY DEF NodeOf
  <2> QED
    BY <2>1 DEF NodeOf
<1>2. (IF pc = "stage" /\ sid = s THEN ToSet(frontier) ELSE {})' =
        IF pc = "stage" /\ sid = s THEN ToSet(frontier) ELSE {}
  OBVIOUS
<1>3. Unstaged(s)' = Unstaged(s)
  BY DEF Unstaged
<1> QED
  BY <1>1, <1>2, <1>3 DEF Awaited

LEMMA NowInRound ==
  ASSUME NEW s, NEW X, NEW n \in 0 .. Cardinality(Nodes) - 1, NEW E \in SUBSET Nodes,
         NEW D \in SUBSET Nodes, NEW await, NEW k, MidRound(X, n, E, D, await, k),
         load' = load, states'[s] = X, Awaited(s)' = await, Unstaged(s)' = k
  PROVE  InSomeRound(s)'
<1>1. MidRound(X, n, E, D, await, k)'
  BY DEF MidRound
<1>2. MidRound(states[s], n, E, D, Awaited(s), Unstaged(s))'
  BY <1>1
<1> QED
  BY <1>2 DEF InSomeRound

LEMMA ExpandRounds ==
  ASSUME IndInv, InSomeRounds, DistancesDiffer(load), Expand, NEW s \in Sids, s = sid
  PROVE  InSomeRounds'
<1> DEFINE st == states[s]
           new == Integrated(s)
           f == Frontier(new.pool)
           m == MarkExpanded(new.pool)
           X == Into(st, new.visited, m)
<1>1. /\ pc = "phaseA" /\ ~ Busy(s) /\ f # <<>> /\ frontier' = f
      /\ pc' = "stage"
      /\ UNCHANGED <<execVars, given, sid, nextQ, remaining, results>>
  BY DEF Expand
<1>2. states \in [Sids -> QState] /\ load \in Workload
  BY PipelineAssumption DEF IndInv, TypeOK
<1>3. states' = [states EXCEPT ![s] = X]
  BY <1>1, <1>2 DEF Expand, QState, Into
<1>4. new.visited \in SUBSET Nodes /\ new.pool \in Seq(Cand)
  BY IntegratedFacts
<1>5. st.active /\ st.inFlight = 0 /\ st.qi \in Queries /\ st \in QState
  <2>1. st \in QState
    BY <1>2
  <2>2. st.inFlight \in Nat
    BY <2>1, BeamAssumption DEF QState
  <2> QED
    BY <1>1, <2>1, <2>2 DEF Busy, QState
<1>6. InSomeRound(s)
  BY <1>1, <1>5 DEF InSomeRounds
<1>7. PICK n \in 0 .. Cardinality(Nodes), E \in SUBSET Nodes : Reached(st, n, E, new)
  BY <1>1, <1>6, AtRest
<1> HIDE DEF new
<1>8. m \in Seq(Cand)
  BY <1>4, MarkExpandedFacts
<1>9. /\ X \in QState /\ X.qi = st.qi /\ X.visited = new.visited /\ X.pool = m
      /\ X.inFlight = 0 /\ X.reads = st.reads /\ X.exact = st.exact /\ X.pending = <<>>
  <2> HIDE DEF st, m
  <2>1. /\ X \in QState /\ X.visited = new.visited /\ X.pool = m /\ X.qi = st.qi
        /\ X.inFlight = st.inFlight /\ X.reads = st.reads /\ X.active = st.active
        /\ X.exact = st.exact /\ X.pending = <<>>
    BY <1>4, <1>5, <1>8, IntoFacts
  <2> HIDE DEF X
  <2> QED
    BY <1>5, <2>1, Zenon
<1> HIDE DEF X
<1> DEFINE r == Rounds(load, X.qi)[n]
<1>10. /\ HasExpanded(load, X.qi, n, E) /\ new.visited = r.visited /\ new.pool = r.pool
       /\ X.exact = r.exact /\ X.reads = r.reads /\ f = Frontier(r.pool) /\ X.qi \in Queries
  BY <1>5, <1>7, <1>9, Zenon DEF Reached
<1>11. n \in 0 .. Cardinality(Nodes) - 1
  <2>1. Frontier(r.pool) # <<>>
    BY <1>1, <1>10, Zenon
  <2>2. n < Cardinality(Nodes)
    <3>1. Frontier(Rounds(load, X.qi)[n].pool) # <<>> => n < Cardinality(Nodes)
      BY <1>2, <1>10, RoundsBounded
    <3> QED
      BY <2>1, <3>1, Zenon
  <2>3. Cardinality(Nodes) \in Nat
    BY BeamAssumption, FS_CardinalityType
  <2> QED
    BY <2>2, <2>3
<1>12. MidRound(X, n, E, {}, ToSet(f), Len(f))
  <2>1. LET a == Rounds(load, X.qi)[n] IN
          /\ Frontier(a.pool) # <<>>
          /\ X.visited = a.visited /\ X.pool = MarkExpanded(a.pool)
          /\ X.exact = a.exact /\ X.reads = a.reads /\ X.pending = <<>>
    BY <1>1, <1>9, <1>10, Zenon
  <2>2. LET g == Frontier(Rounds(load, X.qi)[n].pool) IN MidRound(X, n, E, {}, ToSet(g), Len(g))
    <3> HIDE DEF r, f, m
    <3> QED
      BY <1>9, <1>10, <2>1, RoundBegins
  <2> QED
    BY <1>10, <2>2, Zenon
<1> HIDE DEF r, f, m
<1>13. UNCHANGED <<asked, load>>
  BY <1>1 DEF execVars, given
<1>14. /\ OwedTo(s)' = {} /\ states'[s] = X /\ \A t \in Sids \ {s} : states'[t] = states[t]
  BY <1>1, <1>3, <1>9, <1>13, IdleSlotChanges
<1>15. Awaited(s)' = ToSet(f) /\ Unstaged(s)' = Len(f)
  BY <1>1, <1>14 DEF Awaited, Unstaged
<1>16. InSomeRound(s)'
  BY <1>11, <1>12, <1>13, <1>14, <1>15, NowInRound
<1>17. ASSUME NEW t \in Sids \ {s}, states'[t].active PROVE InSomeRound(t)'
  <2>1. OwedTo(t)' = OwedTo(t)
    BY <1>13 DEF OwedTo, Exec!Slots, Exec!NoRequest
  <2>2. Awaited(t)' = Awaited(t) /\ Unstaged(t)' = Unstaged(t)
    BY <1>1, <1>13, <2>1, AwaitedSame
  <2>3. InSomeRound(t)
    BY <1>1, <1>14, <1>17 DEF InSomeRounds
  <2> QED
    BY <1>13, <1>14, <2>2, <2>3, SameSlot
<1> QED
  BY <1>16, <1>17 DEF InSomeRounds, Sids, Concurrency, NumQueries

LEMMA FinishRounds ==
  ASSUME IndInv, IndInv', InSomeRounds, Finish, NEW s \in Sids, s = sid
  PROVE  InSomeRounds'
<1> DEFINE X == IF nextQ < NumQueries THEN Seed(nextQ)
                ELSE Left(states[s], Integrated(s).visited, Integrated(s).pool)
<1>1. pc = "phaseA" /\ ~ Busy(s) /\ UNCHANGED <<execVars, given, pc, frontier>>
  BY DEF Finish
<1>2. /\ states \in [Sids -> QState] /\ load \in Workload /\ nextQ \in 0 .. NumQueries
      /\ NumQueries \in Nat
  BY PipelineAssumption, SidFacts DEF IndInv, TypeOK
<1>3. states' = [states EXCEPT ![s] = X]
  BY DEF Finish, Left
<1>4. states'[s] = X /\ \A t \in Sids \ {s} : states'[t] = states[t]
  BY <1>2, <1>3
<1>5. UNCHANGED <<asked, load>>
  BY <1>1 DEF execVars, given
<1>6. \A t : OwedTo(t)' = OwedTo(t)
  BY <1>5 DEF OwedTo, Exec!Slots, Exec!NoRequest
<1>7. \A t \in Sids : Awaited(t)' = Awaited(t) /\ Unstaged(t)' = Unstaged(t)
  BY <1>1, <1>5, <1>6, AwaitedSame
<1>8. Awaited(s) = {}
  <2>1. states[s].inFlight \in Nat
    BY <1>2, BeamAssumption DEF QState
  <2>2. OwedTo(s) = {}
    BY <1>1, <2>1, OwedFacts DEF Busy
  <2> QED
    BY <1>1, <2>2 DEF Awaited
<1>9. ASSUME states'[s].active PROVE InSomeRound(s)'
  <2>1. nextQ < NumQueries
    BY <1>4, <1>9 DEF Left
  <2>2. states'[s] = Seed(nextQ) /\ Seed(nextQ).qi = nextQ
    BY <1>4, <2>1 DEF Seed
  <2>3. \A q : Seed(q)' = Seed(q)
    BY <1>5 DEF Seed
  <2>4. states'[s] = Seed(states[s].qi)'
    <3>1. PICK q : q = nextQ
      OBVIOUS
    <3>2. states'[s] = Seed(q)' /\ states'[s].qi = q
      BY <2>2, <2>3, <3>1
    <3> QED
      BY <3>2
  <2> QED
    BY <1>7, <1>8, <2>4 DEF InSomeRound
<1>10. ASSUME NEW t \in Sids \ {s}, states'[t].active PROVE InSomeRound(t)'
  <2>1. InSomeRound(t)
    BY <1>1, <1>4, <1>10 DEF InSomeRounds
  <2> QED
    BY <1>4, <1>5, <1>7, <2>1, SameSlot
<1> QED
  BY <1>9, <1>10 DEF InSomeRounds, Sids, Concurrency, NumQueries

LEMMA StagedRounds ==
  ASSUME IndInv, InSomeRounds, pc = "stage", Staged, NEW s \in Sids, s = sid,
         load' = load,
         NEW slot, asked'[slot].tag = Tag(s, Head(frontier)),
         OwedTo(s)' = OwedTo(s) \cup {slot},
         \A t \in Sids \ {s} : OwedTo(t)' = OwedTo(t),
         \A t \in Sids : \A b \in OwedTo(t) : b # slot /\ asked'[b] = asked[b]
  PROVE  InSomeRounds'
<1> DEFINE st == states[s]
           node == Head(frontier)
           tag == Tag(s, node)
           X == Asking(st)
<1>1. /\ frontier \in Seq(Nodes) /\ frontier # <<>> /\ states \in [Sids -> QState]
  BY DEF IndInv, TypeOK, StagingApart
<1>2. /\ Len(frontier) \in Nat /\ Len(frontier) > 0 /\ node = frontier[1] /\ node \in Nodes
      /\ DOMAIN frontier = 1 .. Len(frontier)
      /\ Tail(frontier) \in Seq(Nodes) /\ Len(Tail(frontier)) = Len(frontier) - 1
      /\ \A i \in 1 .. Len(frontier) - 1 : Tail(frontier)[i] = frontier[i + 1]
  BY <1>1, EmptySeq, LenProperties, HeadTailProperties
<1>3. tag \in 0 .. TagSpan - 1 /\ SidOf(tag) = s /\ NodeOf(tag) = node
  BY <1>2, TagFacts
<1>4. /\ frontier' = Tail(frontier)
      /\ \/ Len(frontier) = 1 /\ pc' = "phaseA" /\ sid' = sid + 1
         \/ Len(frontier) # 1 /\ pc' = "stage" /\ sid' = sid
  BY DEF Staged
<1>5. states' = [states EXCEPT ![s] = X]
  BY <1>1 DEF Staged, Asking
<1>6. /\ st \in QState /\ Unstaged(s) = Len(frontier) /\ Unstaged(s)' = Len(frontier) - 1
  BY <1>1, <1>2, <1>4 DEF Unstaged
<1>7. /\ st.active /\ st.inFlight + 1 <= W /\ st.reads + 1 <= Cardinality(Nodes)
  <2>1. PICK E \in SUBSET Nodes : st.reads + Unstaged(s) <= Cardinality(E)
    BY DEF IndInv, SlotsTidy, SlotTidy
  <2>2. /\ Cardinality(E) \in Nat /\ Cardinality(E) <= Cardinality(Nodes)
        /\ Cardinality(Nodes) \in Nat
    BY BeamAssumption, FS_Subset, FS_CardinalityType
  <2>3. st.inFlight \in Nat /\ st.reads \in Nat /\ W \in Nat
    BY <1>6, <2>2, BeamAssumption DEF QState
  <2>4. /\ st.inFlight + Unstaged(s) <= W
        /\ st.inFlight + Unstaged(s) > 0 => st.active
    BY DEF IndInv, SlotsTidy, SlotTidy
  <2> HIDE DEF st
  <2> QED
    BY <1>2, <1>6, <2>1, <2>2, <2>3, <2>4
<1> HIDE DEF st
<1>8. /\ X \in QState /\ X.reads = st.reads + 1 /\ X.visited = st.visited /\ X.pool = st.pool
      /\ X.qi = st.qi /\ X.exact = st.exact /\ X.pending = st.pending /\ X.active = st.active
  BY <1>6, <1>7, AskingFacts
<1> HIDE DEF X, tag, node
<1>9. /\ states'[s] = X /\ \A t \in Sids \ {s} : states'[t] = states[t]
  BY <1>1, <1>5
<1>10. /\ asked'[slot].tag = tag
       /\ OwedTo(s)' = OwedTo(s) \cup {slot}
       /\ \A t \in Sids \ {s} : OwedTo(t)' = OwedTo(t)
       /\ \A t \in Sids : \A b \in OwedTo(t) : b # slot /\ asked'[b] = asked[b]
  BY DEF tag, node
<1>11. ToSet(frontier) = {node} \cup ToSet(Tail(frontier)) /\ (Len(frontier) = 1 => ToSet(Tail(frontier)) = {})
  <2>1. DOMAIN Tail(frontier) = 1 .. Len(frontier) - 1
    BY <1>2, LenProperties
  <2>2. \A i \in 1 .. Len(frontier) : i = 1 \/ (i - 1 \in 1 .. Len(frontier) - 1 /\ i = (i - 1) + 1)
    BY <1>2
  <2>3. ASSUME NEW i \in 1 .. Len(frontier) PROVE frontier[i] \in {node} \cup ToSet(Tail(frontier))
    <3>1. CASE i = 1
      BY <1>2, <3>1 DEF node
    <3>2. CASE i # 1
      <4>1. PICK j \in 1 .. Len(frontier) - 1 : i = j + 1
        BY <2>2, <3>2
      <4> QED
        BY <1>2, <2>1, <4>1 DEF ToSet
    <3> QED
      BY <3>1, <3>2
  <2>4. \A j \in 1 .. Len(frontier) - 1 : j + 1 \in 1 .. Len(frontier)
    BY <1>2
  <2>5. \A j \in DOMAIN Tail(frontier) : Tail(frontier)[j] \in ToSet(frontier)
    BY <1>2, <2>1, <2>4 DEF ToSet
  <2>6. node \in ToSet(frontier)
    BY <1>2 DEF ToSet, node
  <2>7. ToSet(frontier) \subseteq {node} \cup ToSet(Tail(frontier))
    BY <1>2, <2>3 DEF ToSet
  <2>8. ToSet(Tail(frontier)) \subseteq ToSet(frontier)
    BY <2>5 DEF ToSet
  <2>9. Len(frontier) = 1 => ToSet(Tail(frontier)) = {}
    BY <2>1 DEF ToSet
  <2> QED
    BY <2>6, <2>7, <2>8, <2>9
<1>12. Awaited(s)' = Awaited(s)
  <2>1. Awaited(s) = {NodeOf(asked[b].tag) : b \in OwedTo(s)} \cup ToSet(frontier)
    BY DEF Awaited
  <2>2. Awaited(s)' = {NodeOf(asked'[b].tag) : b \in OwedTo(s)'} \cup ToSet(Tail(frontier))
    <3>1. (IF pc = "stage" /\ sid = s THEN ToSet(frontier) ELSE {})' = ToSet(Tail(frontier))
      BY <1>4, <1>11
    <3> QED
      BY <3>1, Zenon DEF Awaited, NodeOf
  <2>3. {NodeOf(asked'[b].tag) : b \in OwedTo(s)'} =
          {NodeOf(asked[b].tag) : b \in OwedTo(s)} \cup {node}
    BY <1>3, <1>10
  <2> QED
    BY <1>11, <2>1, <2>2, <2>3
<1>13. PICK n \in 0 .. Cardinality(Nodes) - 1, E \in SUBSET Nodes, D \in SUBSET Nodes :
         MidRound(states[s], n, E, D, Awaited(s), Unstaged(s))
  <2>1. InSomeRound(s)
    BY <1>7 DEF InSomeRounds, st
  <2>2. Awaited(s) # {}
    BY <1>11 DEF Awaited
  <2> QED
    BY <2>1, <2>2 DEF InSomeRound
<1>14. MidRound(X, n, E, D, Awaited(s), Len(frontier) - 1)
  <2>1. PICK a, k : a = Awaited(s) /\ k = Len(frontier)
    OBVIOUS
  <2>2. k \in Nat \ {0} /\ MidRound(st, n, E, D, a, k)
    BY <1>2, <1>6, <1>13, <2>1 DEF st
  <2>3. MidRound(X, n, E, D, a, k - 1)
    BY <1>6, <1>8, <2>2, RoundStages
  <2> QED
    BY <2>1, <2>3
<1>15. InSomeRound(s)'
  <2>1. PICK a, k : a = Awaited(s) /\ k = Len(frontier) - 1
    OBVIOUS
  <2> QED
    BY <1>6, <1>9, <1>12, <1>14, <2>1, NowInRound
<1>16. ASSUME NEW t \in Sids \ {s}, states'[t].active PROVE InSomeRound(t)'
  <2>1. (sid' # t \/ pc' # "stage") /\ sid # t
    BY <1>4
  <2>2. Awaited(t)' = Awaited(t) /\ Unstaged(t)' = Unstaged(t)
    <3>1. OwedTo(t)' = OwedTo(t) /\ \A b \in OwedTo(t) : asked'[b] = asked[b]
      BY <1>10
    <3> QED
      BY <2>1, <3>1, AwaitedSame
  <2>3. InSomeRound(t)
    BY <1>9, <1>16 DEF InSomeRounds
  <2> QED
    BY <1>9, <2>2, <2>3, SameSlot
<1> QED
  BY <1>15, <1>16 DEF InSomeRounds, Sids, Concurrency, NumQueries
LEMMA StageRounds ==
  ASSUME IndInv, InSomeRounds, Stage, NEW s \in Sids, s = sid
  PROVE  InSomeRounds'
<1>1. /\ pc = "stage" /\ UNCHANGED <<given, nextQ, remaining, results>>
      /\ \/ pc' = "err" /\ UNCHANGED <<asked, sid, frontier, states>>
         \/ /\ Staged /\ status' = "ready"
            /\ \E slot \in Exec!Slots :
                 /\ asked'[slot].tag = Tag(s, Head(frontier))
                 /\ asked'[slot].block = BlockOf(Head(frontier))
                 /\ asked'[slot] # Exec!NoRequest
                 /\ \A b \in Exec!Slots \ {slot} : asked'[b] = asked[b]
                 /\ OwedTo(s)' = OwedTo(s) \cup {slot} /\ slot \notin OwedTo(s)
                 /\ \A t \in Sids \ {s} : OwedTo(t)' = OwedTo(t)
                 /\ \A t \in Sids : \A b \in OwedTo(t) : b # slot /\ asked'[b] = asked[b]
  BY StageFacts, Zenon
<1>2. load' = load
  BY <1>1 DEF given
<1>3. CASE pc' = "err"
  BY <1>3 DEF InSomeRounds
<1> QED
  BY <1>1, <1>2, <1>3, StagedRounds

\* The nodes of a round have not been expanded before.
LEMMA AwaitedNew ==
  ASSUME load \in Workload, NEW st \in QState, NEW n \in 0 .. Cardinality(Nodes) - 1,
         NEW E, NEW D, NEW await, NEW k, MidRound(st, n, E, D, await, k)
  PROVE  \A a \in await : a \notin E
<1> DEFINE r == Rounds(load, st.qi)[n]
           f == Frontier(r.pool)
<1>1. /\ D \cup await = ToSet(f)
      /\ Tidy([visited |-> r.visited, pool |-> r.pool], E)
  BY Zenon DEF MidRound, HasExpanded
<1>2. r \in Search
  <2>1. st.qi \in Queries /\ Cardinality(Nodes) \in Nat
    BY BeamAssumption, FS_CardinalityType DEF QState
  <2>2. n \in 0 .. Cardinality(Nodes)
    BY <2>1
  <2> QED
    BY <2>1, <2>2, RoundsFacts
<1> HIDE DEF r
<1>3. r.visited \in SUBSET Nodes /\ r.pool \in Seq(Cand)
  BY <1>2 DEF Search
<1>4. \A i \in DOMAIN f : f[i] \notin E
  BY <1>1, <1>3, FrontierNew
<1> HIDE DEF f
<1> QED
  BY <1>1, <1>4 DEF ToSet

LEMMA LandRounds ==
  ASSUME IndInv, InSomeRounds, Land
  PROVE  InSomeRounds'
<1>1. /\ pc = "landing" /\ Exec!Deliver
      /\ UNCHANGED <<given, pc, sid, frontier, nextQ, remaining, results>>
  BY Zenon DEF Land
<1>2. Exec!IndInv /\ UNCHANGED load
  BY <1>1 DEF IndInv, given
<1>3. PICK slot \in Exec!Outstanding :
        /\ out'.tag = asked[slot].tag /\ out'.data = asked[slot].block
        /\ asked' = [asked EXCEPT ![slot] = Exec!NoRequest]
  BY <1>1, <1>2, DeliverFacts
<1>4. PICK s \in Sids, node \in Nodes : s = SidOf(asked[slot].tag) /\ node = NodeOf(asked[slot].tag)
  BY DEF IndInv, AllOwed
<1>5. /\ slot \in OwedTo(s) /\ OwedTo(s)' = OwedTo(s) \ {slot}
      /\ \A t \in Sids \ {s} : OwedTo(t)' = OwedTo(t)
      /\ \A t \in Sids : \A b \in OwedTo(t)' : b # slot /\ asked'[b] = asked[b]
  BY <1>2, <1>3, <1>4, OwedShrinks
<1> DEFINE st == states[s]
           exact == TopPush(st.exact, load.exact[st.qi][node], node)
           nbs == st.pending \o load.nbrs[node]
           X == Landed(st, exact, nbs)
<1>6. /\ states \in [Sids -> QState] /\ load \in Workload
  BY PipelineAssumption DEF IndInv, TypeOK
<1>7. states' = [states EXCEPT ![s] = X]
  <2>1. NodeAt(out'.data, node) = node
    <3>1. asked[slot].block = BlockOf(node)
      BY <1>4, <1>5 DEF IndInv, RoutedHome
    <3> QED
      BY <1>3, <3>1, BlockFacts
  <2> DEFINE t == SidOf(out'.tag)
             n == NodeOf(out'.tag)
             found == NodeAt(out'.data, n)
             u == states[t]
  <2>2. states' = [states EXCEPT ![t] =
           [u EXCEPT !.exact = TopPush(u.exact, load.exact[u.qi][found], n),
                     !.pending = u.pending \o load.nbrs[found],
                     !.inFlight = @ - 1]]
    BY Zenon DEF Land
  <2>3. t = s /\ n = node /\ found = node /\ u = st
    BY <1>3, <1>4, <2>1
  <2> HIDE DEF t, n, found, u
  <2>4. states' = [states EXCEPT ![s] =
           [st EXCEPT !.exact = TopPush(st.exact, load.exact[st.qi][node], node),
                      !.pending = st.pending \o load.nbrs[node],
                      !.inFlight = @ - 1]]
    BY <2>2, <2>3
  <2> QED
    BY <2>4 DEF Landed
<1>8. states'[s] = X /\ \A t \in Sids \ {s} : states'[t] = states[t]
  BY <1>6, <1>7
<1>9. /\ st \in QState /\ st.qi \in Queries /\ st.exact \in Seq(Scored)
      /\ st.pending \in Seq(Nodes) /\ st.inFlight > 0 /\ st.active
  <2>1. st \in QState
    BY <1>6
  <2>2. st.inFlight # 0 /\ st.inFlight \in Nat
    BY <1>5, OwedFacts
  <2>3. st.active
    BY <1>5 DEF IndInv, RoutedHome
  <2> QED
    BY <2>1, <2>2, <2>3 DEF QState
<1>10. exact \in Seq(Scored) /\ nbs \in Seq(Nodes)
  <2>1. load.exact[st.qi][node] \in Nat /\ load.nbrs[node] \in Seq(Nodes)
    BY <1>6, <1>9 DEF Workload
  <2> QED
    BY <1>9, <2>1, TopPushType, ConcatProperties
<1>11. PICK n \in 0 .. Cardinality(Nodes) - 1, E \in SUBSET Nodes, D \in SUBSET Nodes :
         MidRound(states[s], n, E, D, Awaited(s), Unstaged(s))
  <2>1. InSomeRound(s)
    BY <1>1, <1>9 DEF InSomeRounds
  <2>2. Awaited(s) # {}
    BY <1>5 DEF Awaited
  <2> QED
    BY <2>1, <2>2 DEF InSomeRound
<1>12. node \in Awaited(s) /\ Awaited(s)' = Awaited(s) \ {node} /\ Unstaged(s) = 0 /\ Unstaged(s)' = 0
  <2>1. Awaited(s) = {NodeOf(asked[b].tag) : b \in OwedTo(s)}
    BY <1>1 DEF Awaited
  <2>2. Awaited(s)' = {NodeOf(asked[b].tag) : b \in OwedTo(s) \ {slot}}
    <3>1. Awaited(s)' = {NodeOf(asked'[b].tag) : b \in OwedTo(s)'}
      BY <1>1 DEF Awaited, NodeOf
    <3>2. \A b \in OwedTo(s)' : asked'[b] = asked[b]
      BY <1>5
    <3> QED
      BY <1>5, <3>1, <3>2
  <2>3. \A b \in OwedTo(s) : NodeOf(asked[b].tag) = node => b = slot
    BY <1>4, <1>5, OwedNodesApart
  <2> QED
    BY <1>1, <1>4, <1>5, <2>1, <2>2, <2>3 DEF Unstaged
<1> HIDE DEF st, exact, nbs
<1>13. /\ X \in QState /\ X.reads = st.reads /\ X.visited = st.visited /\ X.pool = st.pool
       /\ X.qi = st.qi /\ X.exact = exact /\ X.pending = nbs /\ X.active = st.active
  <2>1. PICK y \in QState, e \in Seq(Scored), p \in Seq(Nodes) : y = st /\ e = exact /\ p = nbs
    BY <1>9, <1>10
  <2>2. y.inFlight > 0
    BY <1>9, <2>1
  <2> DEFINE Y == Landed(y, e, p)
  <2>3. /\ Y \in QState /\ Y.reads = y.reads /\ Y.visited = y.visited /\ Y.pool = y.pool
        /\ Y.qi = y.qi /\ Y.exact = e /\ Y.pending = p /\ Y.active = y.active
    BY <2>2, LandedFacts
  <2> HIDE DEF Y
  <2> QED
    BY <2>1, <2>3, Zenon DEF Y
<1> HIDE DEF X
<1>14. PICK await, k : await = Awaited(s) /\ k = Unstaged(s)
  OBVIOUS
<1>15. MidRound(X, n, E, D \cup {node}, await \ {node}, k)
  <2>1. PICK y \in QState : y = st
    BY <1>9
  <2>2. MidRound(y, n, E, D, await, k) /\ node \in await
    BY <1>11, <1>12, <1>14, <2>1, Zenon DEF st
  <2>3. \A a \in await : a \notin E
    BY <1>6, <2>2, AwaitedNew
  <2>4. /\ X.qi = y.qi /\ X.visited = y.visited /\ X.pool = y.pool /\ X.reads = y.reads
        /\ X.exact = TopPush(y.exact, load.exact[y.qi][node], node)
        /\ X.pending = y.pending \o load.nbrs[node]
    BY <1>13, <2>1, Zenon DEF exact, nbs
  <2> QED
    BY <1>6, <1>13, <2>2, <2>3, <2>4, RoundLands
<1>16. InSomeRound(s)'
  <2>1. D \cup {node} \in SUBSET Nodes
    OBVIOUS
  <2>2. Awaited(s)' = await \ {node} /\ Unstaged(s)' = k
    BY <1>12, <1>14
  <2> QED
    BY <1>2, <1>8, <1>15, <2>1, <2>2, NowInRound
<1>17. ASSUME NEW t \in Sids \ {s}, states'[t].active PROVE InSomeRound(t)'
  <2>1. OwedTo(t)' = OwedTo(t) /\ \A b \in OwedTo(t) : asked'[b] = asked[b]
    <3>1. OwedTo(t)' = OwedTo(t) /\ \A b \in OwedTo(t)' : asked'[b] = asked[b]
      BY <1>5
    <3> QED
      BY <3>1
  <2>2. Awaited(t)' = Awaited(t) /\ Unstaged(t)' = Unstaged(t)
    BY <1>1, <2>1, AwaitedSame
  <2>3. InSomeRound(t)
    BY <1>1, <1>8, <1>17 DEF InSomeRounds
  <2> QED
    BY <1>2, <1>8, <2>2, <2>3, SameSlot
<1> QED
  BY <1>16, <1>17 DEF InSomeRounds, Sids, Concurrency, NumQueries

LEMMA QuietRounds ==
  ASSUME IndInv, InSomeRounds, Quiet
  PROVE  InSomeRounds'
<1>1. /\ UNCHANGED <<asked, load, states, frontier>>
      /\ \/ pc # "stage" /\ pc' # "stage"
         \/ UNCHANGED <<pc, sid>>
      /\ pc \in {"ok", "err"} => pc' = pc
  <2>1. CASE PassBy \/ EndPhaseA \/ Returned \/ UNCHANGED vars
    BY <2>1 DEF PassBy, EndPhaseA, Returned, vars, execVars, given
  <2>2. CASE FlushReads \/ Wait
    BY <2>2 DEF FlushReads, Wait, given, Exec!Flush, Exec!DrainEnter, Exec!executorVars
  <2>3. CASE Reap \/ EndPhaseB \/ Device
    BY <2>3 DEF Reap, EndPhaseB, Device, given, Exec!Reap, Exec!DrainDone, Exec!Device,
      Exec!executorVars
  <2>4. CASE IoError \/ DropExecutor
    BY <2>4 DEF IoError, DropExecutor, given, Exec!FlushFails, Exec!DrainFails, Exec!Fail,
      Exec!CompletionError, Exec!Drop
  <2> QED
    BY <2>1, <2>2, <2>3, <2>4 DEF Quiet
<1>2. SUFFICES ASSUME pc' \notin {"ok", "err"}, NEW t \in Sids, states'[t].active
               PROVE  InSomeRound(t)'
  BY DEF InSomeRounds, Sids, Concurrency, NumQueries
<1>3. OwedTo(t)' = OwedTo(t) /\ \A b \in OwedTo(t) : asked'[b] = asked[b]
  BY <1>1 DEF OwedTo, Exec!Slots, Exec!NoRequest
<1>4. Awaited(t)' = Awaited(t) /\ Unstaged(t)' = Unstaged(t)
  BY <1>1, <1>3, AwaitedSame
<1>5. InSomeRound(t)
  BY <1>1, <1>2 DEF InSomeRounds
<1> QED
  BY <1>1, <1>4, <1>5, SameSlot

\* A step that ends no query leaves each with its state slot.
LEMMA SlotsKeepQueries ==
  ASSUME IndInv, [Next]_vars, ~ Finish
  PROVE  /\ nextQ' = nextQ /\ results' = results
         /\ \A t \in Sids : states'[t].qi = states[t].qi /\ states'[t].active = states[t].active
<1>1. \A t \in Sids : states[t] \in QState
  BY DEF IndInv, TypeOK
<1>2. states \in [Sids -> QState]
  BY DEF IndInv, TypeOK
<1>3. CASE Quiet
  <2>1. UNCHANGED <<states, nextQ, results>>
    BY <1>3 DEF Quiet, PassBy, EndPhaseA, FlushReads, Wait, Reap, EndPhaseB, IoError,
      DropExecutor, Device, Returned, vars
  <2> QED
    BY <2>1
<1>4. CASE Expand
  <2>1. nextQ' = nextQ /\ results' = results /\ sid \in Sids
    BY <1>4 DEF Expand
  <2>2. PICK v, p : states' = [states EXCEPT ![sid].visited = v, ![sid].pool = p, ![sid].pending = <<>>]
    BY <1>4, Zenon DEF Expand
  <2> QED
    BY <1>1, <1>2, <2>1, <2>2 DEF QState
<1>5. CASE Stage
  <2>1. nextQ' = nextQ /\ results' = results /\ sid \in Sids
    BY <1>5 DEF Stage, IndInv, StagingApart
  <2>2. states' = states \/ Staged
    BY <1>5, Zenon DEF Stage
  <2>3. CASE states' = states
    BY <2>1, <2>3
  <2>4. CASE Staged
    BY <1>1, <1>2, <2>1, <2>4 DEF Staged, QState
  <2> QED
    BY <2>2, <2>3, <2>4
<1>6. CASE Land
  <2>1. nextQ' = nextQ /\ results' = results
    BY <1>6, Zenon DEF Land
  <2>2. PICK s, e, p : states' = [states EXCEPT ![s] =
          [states[s] EXCEPT !.exact = e, !.pending = p, !.inFlight = @ - 1]]
    BY <1>6, Zenon DEF Land
  <2> QED
    BY <1>1, <1>2, <2>1, <2>2 DEF QState
<1> QED
  BY <1>3, <1>4, <1>5, <1>6 DEF Next, Scheduler, Quiet

\* What Finish does to the state slots and the answers.
LEMMA FinishFacts ==
  ASSUME IndInv, Finish, NEW s \in Sids, s = sid
  PROVE  /\ states[s].active /\ states[s].qi \in Queries
         /\ results' = [results EXCEPT ![states[s].qi] =
              [top |-> states[s].exact, reads |-> states[s].reads]]
         /\ \A t \in Sids \ {s} : states'[t] = states[t]
         /\ \/ /\ nextQ < NumQueries /\ nextQ' = nextQ + 1
               /\ states'[s].qi = nextQ /\ states'[s].active
            \/ ~ (nextQ < NumQueries) /\ nextQ' = nextQ /\ ~ states'[s].active
<1> DEFINE L == Left(states[s], Integrated(s).visited, Integrated(s).pool)
<1>1. /\ ~ Busy(s)
      /\ results' = [results EXCEPT ![states[s].qi] =
              [top |-> states[s].exact, reads |-> states[s].reads]]
      /\ \/ nextQ < NumQueries /\ nextQ' = nextQ + 1 /\ states' = [states EXCEPT ![s] = Seed(nextQ)]
         \/ ~ (nextQ < NumQueries) /\ nextQ' = nextQ /\ states' = [states EXCEPT ![s] = L]
  BY DEF Finish, Left
<1>2. states \in [Sids -> QState] /\ states[s] \in QState
  BY DEF IndInv, TypeOK
<1>3. /\ states[s].active /\ states[s].qi \in Queries
      /\ \A t \in Sids \ {s} : states'[t] = states[t]
  BY <1>1, <1>2 DEF Busy, QState
<1>4. L.active = FALSE
  BY <1>2 DEF Left, QState
<1>5. Seed(nextQ).qi = nextQ /\ Seed(nextQ).active
  BY DEF Seed
<1> HIDE DEF L
<1> QED
  BY <1>1, <1>2, <1>3, <1>4, <1>5

\* A query begins in one state slot, once.
LEMMA ApartStep ==
  ASSUME IndInv, QueriesApart, [Next]_vars
  PROVE  QueriesApart'
<1>1. nextQ \in Nat /\ \A t \in Sids : states[t].qi \in Nat
  BY SidFacts, PipelineAssumption DEF IndInv, TypeOK, QState
<1>2. \A t \in Sids : states[t].active =>
        /\ states[t].qi < nextQ
        /\ \A u \in Sids : states[u].active /\ states[u].qi = states[t].qi => u = t
  BY DEF QueriesApart
<1>3. SUFFICES ASSUME NEW t \in Sids, states'[t].active
               PROVE  /\ states'[t].qi < nextQ'
                      /\ \A u \in Sids : states'[u].active /\ states'[u].qi = states'[t].qi => u = t
  BY DEF QueriesApart, Sids, Concurrency, NumQueries
<1>4. CASE ~ Finish
  BY <1>2, <1>3, <1>4, SlotsKeepQueries
<1>5. CASE Finish
  <2>1. PICK s \in Sids : s = sid
    BY <1>5 DEF Finish
  <2>2. /\ \A u \in Sids \ {s} : states'[u] = states[u]
        /\ \/ /\ nextQ < NumQueries /\ nextQ' = nextQ + 1
              /\ states'[s].qi = nextQ /\ states'[s].active
           \/ ~ (nextQ < NumQueries) /\ nextQ' = nextQ /\ ~ states'[s].active
    BY <1>5, <2>1, FinishFacts
  <2>3. CASE t = s
    <3>1. nextQ' = nextQ + 1 /\ states'[t].qi = nextQ
      BY <1>3, <2>2, <2>3
    <3>2. \A u \in Sids \ {s} : states[u].active => states[u].qi # nextQ
      BY <1>1, <1>2
    <3> QED
      BY <1>1, <2>2, <2>3, <3>1, <3>2
  <2>4. CASE t # s
    <3>1. states'[t] = states[t] /\ states[t].qi < nextQ /\ states[t].qi # nextQ
      BY <1>1, <1>2, <1>3, <2>2, <2>4
    <3>2. states[t].qi < nextQ'
      BY <1>1, <2>2, <3>1
    <3>3. \A u \in Sids : states'[u].active /\ states'[u].qi = states'[t].qi => u = t
      BY <1>2, <1>3, <2>2, <3>1
    <3> QED
      BY <3>1, <3>2, <3>3
  <2> QED
    BY <2>3, <2>4
<1> QED
  BY <1>4, <1>5

LEMMA RoundInit == Init => RoundInv
<1> SUFFICES ASSUME Init PROVE RoundInv
  OBVIOUS
<1>1. /\ IndInv /\ pc = "phaseA" /\ sid = 0 /\ states = [s \in Sids |-> Seed(s)]
      /\ nextQ = Concurrency /\ expected = [q \in Queries |-> BatchedSearch(load, q)]
  BY InitInv DEF Init
<1>2. asked = [b \in Exec!Slots |-> Exec!NoRequest]
  BY DEF Init, Exec!Init
<1>3. \A s \in Sids : states[s] = Seed(s) /\ Seed(s).qi = s
  BY <1>1 DEF Seed
<1>4. \A s \in Sids : states[s] = Seed(states[s].qi)
  BY <1>3, Zenon
<1>5. \A s : Awaited(s) = {}
  <2>1. \A s : OwedTo(s) = {}
    BY <1>2 DEF OwedTo
  <2> QED
    BY <1>1, <2>1 DEF Awaited
<1>6. InSomeRounds
  BY <1>4, <1>5 DEF InSomeRounds, InSomeRound
<1>7. QueriesApart
  <2>1. \A s \in Sids : s < Concurrency
    BY SidFacts DEF Sids
  <2> QED
    BY <1>1, <1>3, <2>1 DEF QueriesApart
<1> QED
  BY <1>1, <1>6, <1>7 DEF RoundInv

LEMMA RoundStep ==
  ASSUME \A w \in Workloads : DistancesDiffer(w), RoundInv, [Next]_vars
  PROVE  RoundInv'
<1>1. IndInv /\ InSomeRounds /\ QueriesApart /\ IndInv' /\ QueriesApart'
  BY StepInv, ApartStep DEF RoundInv
<1>2. DistancesDiffer(load)
  BY <1>1 DEF IndInv, TypeOK
<1>3. UNCHANGED given
  BY Zenon DEF Next, Scheduler, vars, PassBy, Expand, Finish, Stage, EndPhaseA, FlushReads, Wait,
    Reap, Land, EndPhaseB, IoError, DropExecutor, Device, Returned
<1>4. expected' = [q \in Queries |-> BatchedSearch(load', q)]
  BY <1>3 DEF RoundInv, given
<1>5. InSomeRounds'
  <2>1. CASE Quiet
    BY <1>1, <2>1, QuietRounds
  <2>2. CASE Expand
    BY <1>1, <1>2, <2>2, ExpandRounds DEF Expand
  <2>3. CASE Finish
    BY <1>1, <2>3, FinishRounds DEF Finish
  <2>4. CASE Stage
    <3>1. sid \in Sids
      BY <1>1, <2>4 DEF Stage, IndInv, StagingApart
    <3> QED
      BY <1>1, <2>4, <3>1, StageRounds
  <2>5. CASE Land
    BY <1>1, <2>5, LandRounds
  <2> QED
    BY <2>1, <2>2, <2>3, <2>4, <2>5 DEF Next, Scheduler, Quiet
<1> QED
  BY <1>1, <1>4, <1>5 DEF RoundInv, BatchedSearch, Rounds

\* Where no two nodes are equally far from a query, every query that runs is in one
\* of the rounds of the round-based search of it: its pool is what that round leaves
\* it, its top the nearest of the nodes whose reads have landed, and what it awaits
\* is the rest of the round.
THEOREM RoundsFollowed ==
  ASSUME \A w \in Workloads : DistancesDiffer(w)
  PROVE  Spec => []RoundInv
<1>1. RoundInv /\ [Next]_vars => RoundInv'
  BY RoundStep
<1> QED
  BY <1>1, RoundInit, PTL DEF Spec

-----------------------------------------------------------------------------
\* The queries that run.
RunningQueries == {states[s].qi : s \in {t \in Sids : states[t].active}}

LEMMA ServiceInit == Init => Service!Init
<1> SUFFICES ASSUME Init PROVE Service!Init
  OBVIOUS
<1>1. /\ pc = "phaseA" /\ states = [s \in Sids |-> Seed(s)]
      /\ nextQ = Concurrency /\ results = [q \in Queries |-> NoAnswer]
  BY DEF Init
<1>2. results = [q \in Service!QueryIds |-> Service!NoAnswer]
  BY <1>1, PipelineAssumption DEF NoAnswer, Service!NoAnswer, Service!QueryIds
<1>3. RunningQueries = 0 .. Concurrency - 1
  <2>1. \A s \in Sids : states[s].qi = s /\ states[s].active
    BY <1>1 DEF Seed
  <2> QED
    BY <2>1 DEF RunningQueries, Sids
<1> QED
  BY <1>1, <1>2, <1>3 DEF Service!Init, RunningQueries

\* Finish gives the query the answer of the round-based search.
LEMMA AnswersMatch ==
  ASSUME RoundInv, DistancesDiffer(load), Finish, NEW s \in Sids, s = sid
  PROVE  [top |-> states[s].exact, reads |-> states[s].reads] = expected[states[s].qi]
<1>1. /\ pc = "phaseA" /\ ~ Busy(s) /\ Frontier(Integrated(s).pool) = <<>>
  BY DEF Finish
<1>2. /\ IndInv /\ InSomeRounds /\ expected = [q \in Queries |-> BatchedSearch(load, q)]
  BY DEF RoundInv
<1>3. load \in Workload /\ states[s].active /\ states[s].qi \in Queries
  BY <1>2, PipelineAssumption, FinishFacts DEF IndInv, TypeOK
<1>4. InSomeRound(s)
  BY <1>1, <1>2, <1>3 DEF InSomeRounds
<1>5. PICK n \in 0 .. Cardinality(Nodes), E \in SUBSET Nodes :
        Reached(states[s], n, E, Integrated(s))
  BY <1>1, <1>2, <1>4, AtRest
<1>6. PICK q \in Queries : q = states[s].qi
  BY <1>3
<1> DEFINE r == Rounds(load, q)[n]
           last == Rounds(load, q)[Cardinality(Nodes)]
<1>7. Frontier(r.pool) = <<>> /\ states[s].exact = r.exact /\ states[s].reads = r.reads
  BY <1>1, <1>5, <1>6, Zenon DEF Reached
<1>8. last = r
  BY <1>3, <1>7, RoundsSettle
<1>9. expected[q] = [top |-> last.exact, reads |-> last.reads]
  <2>1. expected[q] = BatchedSearch(load, q)
    BY <1>2
  <2> QED
    BY <2>1 DEF BatchedSearch
<1> HIDE DEF r, last
<1> QED
  BY <1>6, <1>7, <1>8, <1>9

\* Finish answers its query, and the next takes its place.
LEMMA FinishAnswers ==
  ASSUME RoundInv, DistancesDiffer(load), Finish
  PROVE  \E q \in Service!QueryIds : Service!Answer(q)
<1>1. PICK s \in Sids : s = sid
  BY DEF Finish
<1>2. IndInv /\ QueriesApart
  BY DEF RoundInv
<1>3. PICK q \in Queries : q = states[s].qi
  BY <1>1, <1>2, FinishFacts
<1>4. /\ states[s].active
      /\ results' = [results EXCEPT ![q] = [top |-> states[s].exact, reads |-> states[s].reads]]
      /\ \A t \in Sids \ {s} : states'[t] = states[t]
      /\ \/ /\ nextQ < NumQueries /\ nextQ' = nextQ + 1
            /\ states'[s].qi = nextQ /\ states'[s].active
         \/ ~ (nextQ < NumQueries) /\ nextQ' = nextQ /\ ~ states'[s].active
  BY <1>1, <1>2, <1>3, FinishFacts
<1>5. results' = [results EXCEPT ![q] = expected[q]]
  BY <1>1, <1>3, <1>4, AnswersMatch
<1>6. q \in RunningQueries
  BY <1>3, <1>4 DEF RunningQueries
<1>7. IF nextQ < NumQueries
        THEN RunningQueries' = (RunningQueries \ {q}) \cup {nextQ} /\ nextQ' = nextQ + 1
        ELSE RunningQueries' = RunningQueries \ {q} /\ UNCHANGED nextQ
  <2>1. \A x : x \in RunningQueries <=> \E t \in Sids : states[t].active /\ states[t].qi = x
    BY DEF RunningQueries
  <2>2. \A x : x \in RunningQueries' <=> \E t \in Sids : states'[t].active /\ states'[t].qi = x
    BY DEF RunningQueries, Sids, Concurrency, NumQueries
  <2>3. \A t \in Sids \ {s} : states[t].active => states[t].qi # q
    BY <1>2, <1>3, <1>4 DEF QueriesApart
  <2>4. CASE nextQ < NumQueries
    <3>1. RunningQueries' = (RunningQueries \ {q}) \cup {nextQ}
      BY <1>3, <1>4, <2>1, <2>2, <2>3, <2>4
    <3> QED
      BY <1>4, <2>4, <3>1
  <2>5. CASE ~ (nextQ < NumQueries)
    <3>1. RunningQueries' = RunningQueries \ {q}
      BY <1>3, <1>4, <2>1, <2>2, <2>3, <2>5
    <3> QED
      BY <1>4, <2>5, <3>1
  <2> QED
    BY <2>4, <2>5
<1>8. pc = "phaseA" /\ pc' = pc /\ expected' = expected
  BY DEF Finish, given
<1>9. q \in Service!QueryIds
  BY PipelineAssumption DEF Service!QueryIds
<1>10. Service!Answer(q)
  BY <1>5, <1>6, <1>7, <1>8 DEF Service!Answer, RunningQueries
<1> QED
  BY <1>9, <1>10

\* The call returns once, Ok only when no query is left.
LEMMA OutcomeStep ==
  ASSUME IndInv, [Next]_vars, ~ Finish
  PROVE  /\ pc \in {"ok", "err"} => pc' = pc
         /\ pc' = "ok" => pc = "ok" \/ RunningQueries = {}
         /\ expected' = expected
<1>1. pc \in {"ok", "err"} => pc' = pc
  BY Zenon DEF Next, Scheduler, vars, PassBy, Expand, Finish, Stage, EndPhaseA, FlushReads, Wait,
    Reap, Land, EndPhaseB, IoError, DropExecutor, Device, Returned
<1>2. expected' = expected
  <2>1. UNCHANGED given
    BY Zenon DEF Next, Scheduler, vars, PassBy, Expand, Finish, Stage, EndPhaseA, FlushReads, Wait,
      Reap, Land, EndPhaseB, IoError, DropExecutor, Device, Returned
  <2> QED
    BY <2>1 DEF given
<1>3. pc' = "ok" => pc = "ok" \/ remaining = 0
  BY Zenon DEF Next, Scheduler, vars, PassBy, Expand, Stage, Staged, EndPhaseA, FlushReads, Wait,
    Reap, Land, EndPhaseB, IoError, DropExecutor, Device, Returned
<1>4. remaining = 0 => RunningQueries = {}
  <2> SUFFICES ASSUME remaining = 0 PROVE Running = {}
    BY DEF Running, RunningQueries
  <2>1. /\ remaining = (NumQueries - nextQ) + Cardinality(Running)
        /\ nextQ \in 0 .. NumQueries
    BY DEF IndInv, QueriesCounted, TypeOK, Running
  <2>2. Cardinality(Running) = 0
    BY <2>1, RunningFacts, SidFacts
  <2> QED
    BY <2>2, RunningFacts
<1> QED
  BY <1>1, <1>2, <1>3, <1>4

\* Every step of the pipeline answers a query, returns or fails, or changes
\* nothing that its caller sees.
LEMMA ServiceStep ==
  ASSUME RoundInv, DistancesDiffer(load), [Next]_vars
  PROVE  [Service!Next]_(Service!serviceVars)
<1>1. CASE Finish
  BY <1>1, FinishAnswers DEF Service!Next
<1>2. CASE ~ Finish
  <2>1. /\ nextQ' = nextQ /\ results' = results
        /\ \A t \in Sids : states'[t].qi = states[t].qi /\ states'[t].active = states[t].active
    BY <1>2, SlotsKeepQueries DEF RoundInv
  <2>2. /\ pc \in {"ok", "err"} => pc' = pc
        /\ pc' = "ok" => pc = "ok" \/ RunningQueries = {}
        /\ expected' = expected
    BY <1>2, OutcomeStep DEF RoundInv
  <2>3. RunningQueries' = RunningQueries
    <3>1. \A x : x \in RunningQueries <=> \E t \in Sids : states[t].active /\ states[t].qi = x
      BY DEF RunningQueries
    <3>2. \A x : x \in RunningQueries' <=> \E t \in Sids : states'[t].active /\ states'[t].qi = x
      BY DEF RunningQueries, Sids, Concurrency, NumQueries
    <3>3. \A t \in Sids : (states'[t].active <=> states[t].active) /\ states'[t].qi = states[t].qi
      BY <2>1, Zenon
    <3>4. \A x : (\E t \in Sids : states[t].active /\ states[t].qi = x) <=>
                 (\E t \in Sids : states'[t].active /\ states'[t].qi = x)
      BY <3>3, Zenon
    <3>5. \A x : x \in RunningQueries' <=> x \in RunningQueries
      BY <3>1, <3>2, <3>4, Zenon
    <3> QED
      BY <3>5
  <2>4. CASE pc' = "err" /\ pc \notin {"ok", "err"}
    BY <2>1, <2>2, <2>3, <2>4 DEF Service!Next, Service!Fail, RunningQueries
  <2>5. CASE pc' = "ok" /\ pc \notin {"ok", "err"}
    BY <2>1, <2>2, <2>3, <2>5 DEF Service!Next, Service!Return, RunningQueries
  <2>6. CASE pc \in {"ok", "err"} \/ pc' \notin {"ok", "err"}
    BY <2>1, <2>2, <2>3, <2>6 DEF Service!serviceVars, RunningQueries
  <2> QED
    BY <2>4, <2>5, <2>6
<1> QED
  BY <1>1, <1>2

\* Each query gets the answer and the read count that the round-based search
\* gives it alone, queries start in order and each is answered once, and Ok
\* means that all are: when no two nodes are equally far from a query.
THEOREM AnsweredAsAlone ==
  ASSUME \A w \in Workloads : DistancesDiffer(w)
  PROVE  Spec => MatchesBatched
<1>1. RoundInv /\ [Next]_vars => [Service!Next]_(Service!serviceVars)
  <2>1. RoundInv => DistancesDiffer(load)
    BY DEF RoundInv, IndInv, TypeOK
  <2> QED
    BY <2>1, ServiceStep
<1> QED
  BY <1>1, ServiceInit, RoundsFollowed, PTL DEF Spec, MatchesBatched, Service!Spec

=============================================================================
