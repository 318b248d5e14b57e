------------------------------ MODULE Pipeline ------------------------------
(***************************************************************************)
(* search_pipelined (crates/nvvec-index/src/pipeline.rs:115-227): one      *)
(* thread drives several queries over one UringExecutor.  Every query in   *)
(* flight has a state slot; a read is tagged with its state slot and node, *)
(* and the drain's callback finds its way back by that tag.                *)
(*                                                                         *)
(* The executor's state and steps are those of UringExecutor, so the       *)
(* kernel completes reads between any two steps of the scheduler.  The     *)
(* scheduler's steps: one per state slot visited in phase A, one per read  *)
(* staged, one per call of flush and drain, one per callback.              *)
(***************************************************************************)
EXTENDS BeamSearch

CONSTANTS
  MaxConcurrency,  \* PipelineParams.concurrency
  Npb,             \* nodes per block
  SidSpan,         \* 2^16: the low bits of a tag hold the state slot
  Workloads,       \* the workloads a run may be given
  QueueDepth, SqEntries, NumBlocks, Faults, TagSpan  \* as in UringExecutor

NumQueries == Cardinality(Queries)

\* concurrency.clamp(1, nq).min(65535)
Concurrency ==
  LET clamped == IF MaxConcurrency < 1 THEN 1
                 ELSE IF MaxConcurrency > NumQueries THEN NumQueries
                 ELSE MaxConcurrency
  IN  IF clamped > SidSpan - 1 THEN SidSpan - 1 ELSE clamped

\* The queries are numbered from 0 and there is one; the nodes fit the file
\* and the tag; the assertion on the executor's capacity holds; and what
\* UringExecutor assumes of its constants.
ASSUME PipelineAssumption ==
  /\ IsFiniteSet(Queries) /\ Queries = 0 .. NumQueries - 1 /\ NumQueries >= 1
  /\ Nodes = 0 .. Cardinality(Nodes) - 1
  /\ MaxConcurrency \in Nat /\ Npb \in Nat \ {0} /\ SidSpan \in Nat \ {0, 1}
  /\ \A n \in Nodes : 1 + n \div Npb < NumBlocks
  /\ SidSpan * Cardinality(Nodes) <= TagSpan
  /\ QueueDepth >= Concurrency * W
  /\ Workloads \subseteq Workload
  /\ QueueDepth \in Nat \ {0} /\ SqEntries \in Nat /\ SqEntries >= QueueDepth
  /\ NumBlocks \in Nat \ {0} /\ TagSpan \in Nat \ {0}
  /\ Faults \subseteq {"eio", "short", "enter", "signal"}

VARIABLES
  sq, kernel, cq, bufs,                    \* the ring: see IoUring
  free, cqBuf, need, status, asked, out,   \* the executor
  load,       \* the workload of this run; never changes
  expected,   \* history: what the round-based search answers, query by query
  pc,         \* where the scheduler is
  sid,        \* the state slot phase A has come to
  frontier,   \* nodes of that slot's round still to be staged
  states,     \* the state slots
  nextQ,      \* the next query to start
  remaining,  \* queries not finished
  results     \* the answers

execVars == <<sq, kernel, cq, bufs, free, cqBuf, need, status, asked, out>>
given == <<load, expected>>
vars == <<execVars, given, pc, sid, frontier, states, nextQ, remaining, results>>

Exec == INSTANCE UringExecutor

Sids == 0 .. Concurrency - 1
NoAnswer == [top |-> <<>>, reads |-> 0]

BlockOf(node) == 1 + node \div Npb
\* Variant: the node overlaps the state slot by one.
TagOverlaps(s, node) == s + (SidSpan - 1) * node

Tag(s, node) == s + SidSpan * node
SidOf(tag) == tag % SidSpan
NodeOf(tag) == tag \div SidSpan

\* The node found in a block at the offset of the given node.
NodeAt(block, node) == (block - 1) * Npb + (node % Npb)

Seed(q) ==
  [qi |-> q,
   pool |-> <<[dist |-> load.route[q][Medoid], id |-> Medoid, expanded |-> FALSE]>>,
   exact |-> <<>>, visited |-> {Medoid}, pending |-> <<>>,
   inFlight |-> 0, reads |-> 0, active |-> TRUE]

Init ==
  /\ Exec!Init
  /\ load \in Workloads
  /\ expected = [q \in Queries |-> BatchedSearch(load, q)]
  /\ pc = "phaseA"
  /\ sid = 0
  /\ frontier = <<>>
  /\ states = [s \in Sids |-> Seed(s)]
  /\ nextQ = Concurrency
  /\ remaining = NumQueries
  /\ results = [q \in Queries |-> NoAnswer]

-----------------------------------------------------------------------------
\* Variant: a slot expands again while reads of its round are out.
BusyIfInactive(s) == ~ states[s].active

\* Phase A.  A state slot that waits for reads, or has no query, is passed by.
Busy(s) == ~ states[s].active \/ states[s].inFlight > 0

PassBy ==
  /\ pc = "phaseA"
  /\ sid \in Sids
  /\ Busy(sid)
  /\ sid' = sid + 1
  /\ UNCHANGED <<execVars, given, pc, frontier, states, nextQ, remaining, results>>

\* Variant: distances to the query whose number is that of the state slot.
IntegratedForSlot(s) ==
  LET st == states[s] IN
  Integrate(st.visited, st.pool, load.route[s], st.pending)

\* An idle slot first integrates the neighbours its round has brought.
Integrated(s) ==
  LET st == states[s] IN
  Integrate(st.visited, st.pool, load.route[st.qi], st.pending)

\* Then it expands the best candidates left, whose reads are staged next.
Expand ==
  /\ pc = "phaseA"
  /\ sid \in Sids
  /\ ~ Busy(sid)
  /\ LET new == Integrated(sid) IN
     /\ Frontier(new.pool) # <<>>
     /\ frontier' = Frontier(new.pool)
     /\ states' = [states EXCEPT ![sid].visited = new.visited,
                                 ![sid].pool = MarkExpanded(new.pool),
                                 ![sid].pending = <<>>]
  /\ pc' = "stage"
  /\ UNCHANGED <<execVars, given, sid, nextQ, remaining, results>>

\* Variant: no `continue` after the slot is given its next query.
FinishMovesOn ==
  /\ pc = "phaseA"
  /\ sid \in Sids
  /\ ~ Busy(sid)
  /\ LET st == states[sid] IN
     /\ Frontier(Integrated(sid).pool) = <<>>
     /\ results' = [results EXCEPT ![st.qi] = [top |-> st.exact, reads |-> st.reads]]
     /\ IF nextQ < NumQueries
          THEN /\ states' = [states EXCEPT ![sid] = Seed(nextQ)]
               /\ nextQ' = nextQ + 1
          ELSE /\ states' = [states EXCEPT ![sid].active = FALSE]
               /\ UNCHANGED nextQ
  /\ sid' = sid + 1
  /\ remaining' = remaining - 1
  /\ UNCHANGED <<execVars, given, pc, frontier>>

\* Or, with none left, it has converged: the answer is recorded and the slot
\* goes to the next query (and is visited again at once), if there is one.
Finish ==
  /\ pc = "phaseA"
  /\ sid \in Sids
  /\ ~ Busy(sid)
  /\ LET new == Integrated(sid)
         st == states[sid]
     IN  /\ Frontier(new.pool) = <<>>
         /\ results' = [results EXCEPT ![st.qi] = [top |-> st.exact, reads |-> st.reads]]
         /\ IF nextQ < NumQueries
              THEN /\ states' = [states EXCEPT ![sid] = Seed(nextQ)]
                   /\ nextQ' = nextQ + 1
                   /\ UNCHANGED sid
              ELSE /\ states' = [states EXCEPT ![sid] =
                        [st EXCEPT !.visited = new.visited, !.pool = new.pool,
                                   !.pending = <<>>, !.exact = <<>>, !.active = FALSE]]
                   /\ sid' = sid + 1
                   /\ UNCHANGED nextQ
  /\ remaining' = remaining - 1
  /\ UNCHANGED <<execVars, given, pc, frontier>>

\* Variant: the count of reads in flight is set in place of incremented.
StagedSetsOne ==
  /\ states' = [states EXCEPT ![sid].inFlight = 1, ![sid].reads = @ + 1]
  /\ frontier' = Tail(frontier)
  /\ IF Len(frontier) = 1
       THEN pc' = "phaseA" /\ sid' = sid + 1
       ELSE UNCHANGED <<pc, sid>>

\* The next node of the frontier is read; a stage_read that fails ends it all.
Staged ==
  /\ states' = [states EXCEPT ![sid].inFlight = @ + 1, ![sid].reads = @ + 1]
  /\ frontier' = Tail(frontier)
  /\ IF Len(frontier) = 1
       THEN pc' = "phaseA" /\ sid' = sid + 1
       ELSE UNCHANGED <<pc, sid>>

Stage ==
  /\ pc = "stage"
  /\ LET block == BlockOf(Head(frontier))
         tag == Tag(sid, Head(frontier))
     IN  IF Exec!Refused(block, tag)
           THEN /\ Exec!StageRefused(block, tag)
                /\ pc' = "err"
                /\ UNCHANGED <<sid, frontier, states>>
           ELSE /\ Exec!StageRead(block, tag)
                /\ IF status' = "failed"
                     THEN pc' = "err" /\ UNCHANGED <<sid, frontier, states>>
                     ELSE Staged
  /\ UNCHANGED <<given, nextQ, remaining, results>>

\* Variant: the drain is entered even when every query has finished.
EndPhaseAFlushes ==
  /\ pc = "phaseA"
  /\ sid = Concurrency
  /\ pc' = "flush"
  /\ UNCHANGED <<execVars, given, sid, frontier, states, nextQ, remaining, results>>

\* Variant: returns with one query to go.
EndPhaseAEarly ==
  /\ pc = "phaseA"
  /\ sid = Concurrency
  /\ pc' = IF remaining <= 1 THEN "ok" ELSE "flush"
  /\ UNCHANGED <<execVars, given, sid, frontier, states, nextQ, remaining, results>>

\* End of phase A: return when every query has finished, flush otherwise.
EndPhaseA ==
  /\ pc = "phaseA"
  /\ sid = Concurrency
  /\ pc' = IF remaining = 0 THEN "ok" ELSE "flush"
  /\ UNCHANGED <<execVars, given, sid, frontier, states, nextQ, remaining, results>>

FlushReads ==
  /\ pc = "flush"
  /\ Exec!Flush
  /\ pc' = "drain"
  /\ UNCHANGED <<given, sid, frontier, states, nextQ, remaining, results>>

\* Variant: waits for two completions, whether or not two are out.
WaitForTwo ==
  /\ pc = "drain"
  /\ Exec!DrainEnter(2)
  /\ pc' = "landing"
  /\ UNCHANGED <<given, sid, frontier, states, nextQ, remaining, results>>

\* Phase B: wait for one completion at least, then take all there are.
Wait ==
  /\ pc = "drain"
  /\ Exec!DrainEnter(1)
  /\ pc' = "landing"
  /\ UNCHANGED <<given, sid, frontier, states, nextQ, remaining, results>>

Reap ==
  /\ pc = "landing"
  /\ Exec!Reap
  /\ UNCHANGED <<given, pc, sid, frontier, states, nextQ, remaining, results>>

\* Variant: a read that has landed is still counted.
LandUncounted ==
  /\ pc = "landing"
  /\ Exec!Deliver
  /\ LET s == SidOf(out'.tag)
         node == NodeOf(out'.tag)
         found == NodeAt(out'.data, node)
         st == states[s]
     IN  states' = [states EXCEPT ![s] =
           [st EXCEPT !.exact = TopPush(st.exact, load.exact[st.qi][found], node),
                      !.pending = st.pending \o load.nbrs[found]]]
  /\ UNCHANGED <<given, pc, sid, frontier, nextQ, remaining, results>>

\* The callback scores the node its block holds and collects its neighbours.
Land ==
  /\ pc = "landing"
  /\ Exec!Deliver
  /\ LET s == SidOf(out'.tag)
         node == NodeOf(out'.tag)
         found == NodeAt(out'.data, node)
         st == states[s]
     IN  states' = [states EXCEPT ![s] =
           [st EXCEPT !.exact = TopPush(st.exact, load.exact[st.qi][found], node),
                      !.pending = st.pending \o load.nbrs[found],
                      !.inFlight = @ - 1]]
  /\ UNCHANGED <<given, pc, sid, frontier, nextQ, remaining, results>>

EndPhaseB ==
  /\ pc = "landing"
  /\ Exec!DrainDone
  /\ pc' = "phaseA"
  /\ sid' = 0
  /\ UNCHANGED <<given, frontier, states, nextQ, remaining, results>>

\* Variant: the error of flush and drain is ignored and the loop goes on.
IoErrorIgnored ==
  /\ \/ pc = "flush" /\ Exec!FlushFails
     \/ pc = "drain" /\ Exec!DrainFails
     \/ pc = "landing" /\ Exec!CompletionError
  /\ pc' = "phaseA"
  /\ sid' = 0
  /\ UNCHANGED <<given, frontier, states, nextQ, remaining, results>>

\* Any I/O error leaves search_pipelined by `?`.
IoError ==
  /\ \/ pc = "flush" /\ Exec!FlushFails
     \/ pc = "drain" /\ Exec!DrainFails
     \/ pc = "landing" /\ Exec!CompletionError
  /\ pc' = "err"
  /\ UNCHANGED <<given, sid, frontier, states, nextQ, remaining, results>>

\* The caller has its result, and the executor goes out of scope.
DropExecutor ==
  /\ pc \in {"ok", "err"}
  /\ Exec!Drop
  /\ UNCHANGED <<given, pc, sid, frontier, states, nextQ, remaining, results>>

Device ==
  /\ Exec!Device
  /\ UNCHANGED <<given, pc, sid, frontier, states, nextQ, remaining, results>>

Returned == status = "dropped" /\ UNCHANGED vars

-----------------------------------------------------------------------------
Scheduler ==
  \/ PassBy \/ Expand \/ Finish \/ Stage \/ EndPhaseA
  \/ FlushReads \/ Wait \/ Reap \/ Land \/ EndPhaseB
  \/ IoError \/ DropExecutor

Next == Scheduler \/ Device \/ Returned

Spec == Init /\ [][Next]_vars

\* The thread keeps running; the device finishes what it has accepted.
Fairness == WF_vars(Scheduler) /\ WF_vars(Device)
FairSpec == Spec /\ Fairness

-----------------------------------------------------------------------------
QState ==
  [qi: Queries, pool: Seq(Cand), exact: Seq(Scored),
   visited: SUBSET Nodes, pending: Seq(Nodes), inFlight: 0 .. W,
   reads: 0 .. Cardinality(Nodes), active: BOOLEAN]

AnswerSet == [top: Seq(Scored), reads: 0 .. Cardinality(Nodes)]

\* Every variable of the scheduler has its type.
TypeOK ==
  /\ load \in Workloads
  /\ pc \in {"phaseA", "stage", "flush", "drain", "landing", "ok", "err"}
  /\ sid \in 0 .. Concurrency
  /\ frontier \in Seq(Nodes)
  /\ states \in [Sids -> QState]
  /\ nextQ \in 0 .. NumQueries
  /\ remaining \in 0 .. NumQueries
  /\ results \in [Queries -> AnswerSet \cup {NoAnswer}]

\* The reads the executor owes to a state slot.
OwedTo(s) == {b \in Exec!Slots :
                asked[b] # Exec!NoRequest /\ SidOf(asked[b].tag) = s}

\* The scheduler's count of a slot's reads is the executor's: were it higher
\* the query would wait for ever, were it lower it would go on without them.
InFlightExact == \A s \in Sids : states[s].inFlight = Cardinality(OwedTo(s))

\* A completion finds the query it belongs to: the state slot in its tag still
\* holds the query that asked (that query has visited the node, is active, and
\* no two of its reads are for the same node), and the block is the node's.
\* A slot is never handed to the next query while a read of the last is out.
RoutedHome ==
  \A s \in Sids : \A b \in OwedTo(s) :
    /\ states[s].active
    /\ NodeOf(asked[b].tag) \in states[s].visited
    /\ asked[b].block = BlockOf(NodeOf(asked[b].tag))
    /\ \A c \in OwedTo(s) : asked[b].tag = asked[c].tag => b = c

\* stage_read always finds a free slot: capacity() >= concurrency * w is
\* enough, though slots come back only when drained.
SlotsSuffice == pc = "stage" => free # <<>>

\* The scheduler never waits for a completion when nothing is outstanding,
\* which would block its thread for ever.
NeverWaitsForNothing == pc = "drain" => Exec!Outstanding # {}

\* "The pipeline never breathes out": whenever the thread goes to the kernel,
\* as many queries as there can be are running, each with reads in flight.
NeverBreathesOut ==
  pc \in {"flush", "drain"} =>
    LET running == {s \in Sids : states[s].active} IN
    /\ Cardinality(running) = IF remaining < Concurrency THEN remaining ELSE Concurrency
    /\ \A s \in running : states[s].inFlight > 0

\* On Ok nothing is left behind: no read is out, so the executor can be
\* dropped, or used again, at once.
OkIsQuiet == pc = "ok" => Exec!Outstanding = {} /\ kernel = {}

\* The SAFETY comment of stage_read (uring.rs:282): the slot buffer stays
\* allocated until the completion is drained.
BufferOutlivesRead == Exec!BufferOutlivesRead

\* The scheduler keeps to the executor's terms: it is one of the callers that
\* UringExecutor, and what is proved of it, allows for.
UsesExecutor == Exec!Spec

\* Each query gets the answer the round-based search gives it alone, same
\* results and same read count; queries start in order, and Ok means all.
Service == INSTANCE SearchService WITH
  correct <- expected,
  answer  <- results,
  running <- {states[s].qi : s \in {t \in Sids : states[t].active}},
  next    <- nextQ,
  outcome <- IF pc \in {"ok", "err"} THEN pc ELSE "running"
MatchesBatched == Service!Spec

\* What the tests of the pipeline say of it (tests/pipeline.rs:1): each query
\* gets exactly what the round-based search gives it, "same results, same
\* read counts", whatever the distances.
SameAsSingleQuery ==
  \A q \in Queries : results[q] # NoAnswer => results[q] = expected[q]

\* The call returns, however the device orders and delays the reads, ...
Returns == <>(pc \in {"ok", "err"})

\* ... and with no I/O error it returns Ok with every query answered.
AnswersAll == <>(pc = "ok" /\ \A q \in Queries : results[q] # NoAnswer)

-----------------------------------------------------------------------------
\* What makes the invariants above inductive, with the executor's own.  The
\* reads of its round that a state slot has still to stage ...
Unstaged(s) == IF pc = "stage" /\ sid = s THEN Len(frontier) ELSE 0

\* ... are of nodes it has expanded, and so are those it has staged: never two
\* reads of a query for one node, never more of a round than the beam is wide.
SlotTidy(s) ==
  LET st == states[s] IN
  /\ \E E \in SUBSET Nodes :
       /\ Tidy([visited |-> st.visited, pool |-> st.pool], E)
       /\ st.reads + Unstaged(s) <= Cardinality(E)
  /\ st.inFlight + Unstaged(s) <= W
  /\ st.inFlight + Unstaged(s) > 0 => st.active

SlotsTidy == \A s \in Sids : SlotTidy(s)

\* The nodes still to be read are all different, and none is being read.
StagingApart ==
  pc = "stage" =>
    /\ sid \in Sids /\ frontier # <<>>
    /\ \A i, j \in DOMAIN frontier : frontier[i] = frontier[j] => i = j
    /\ \A i \in DOMAIN frontier :
         /\ frontier[i] \in states[sid].visited
         /\ \A b \in OwedTo(sid) : NodeOf(asked[b].tag) # frontier[i]

\* Every read out is owed to a state slot, for a node there is.
AllOwed ==
  \A b \in Exec!Outstanding : SidOf(asked[b].tag) \in Sids /\ NodeOf(asked[b].tag) \in Nodes

\* Where the executor is while the scheduler runs.
InStep ==
  /\ pc \in {"phaseA", "stage", "flush", "drain"} => status = "ready"
  /\ pc = "landing" => status \in {"waiting", "callback"}
  /\ pc = "ok" => remaining = 0

\* The slots phase A has passed by wait for reads, if they have a query.
PassedBy ==
  /\ pc \in {"phaseA", "stage"} =>
       \A s \in Sids : s < sid /\ states[s].active => states[s].inFlight > 0
  /\ pc \in {"flush", "drain"} =>
       remaining > 0 /\ \A s \in Sids : states[s].active => states[s].inFlight > 0

\* The queries not finished are those not started and those that run.
QueriesCounted ==
  LET running == {s \in Sids : states[s].active} IN
  /\ remaining = (NumQueries - nextQ) + Cardinality(running)
  /\ nextQ < NumQueries => running = Sids

IndInv ==
  /\ Exec!IndInv /\ TypeOK /\ InFlightExact /\ RoutedHome /\ SlotsTidy /\ StagingApart
  /\ AllOwed /\ InStep /\ PassedBy /\ QueriesCounted

-----------------------------------------------------------------------------
\* What makes MatchesBatched hold, with IndInv, when no two nodes are equally far
\* from a query: equal distances keep their order of arrival, which the device
\* decides.
DistancesDiffer(w) ==
  \A q \in Queries : \A a, b \in Nodes :
    /\ w.route[q][a] = w.route[q][b] => a = b
    /\ w.exact[q][a] = w.exact[q][b] => a = b

\* The nodes of its round that a state slot has still to hear of.
Awaited(s) ==
  {NodeOf(asked[b].tag) : b \in OwedTo(s)}
    \cup (IF pc = "stage" /\ sid = s THEN ToSet(frontier) ELSE {})

\* The state st is in the midst of round n + 1 of the round-based search of its
\* query, which had expanded the nodes of E before: those of D have landed, in
\* whatever order, those of await have not, and k of these are not staged.
MidRound(st, n, E, D, await, k) ==
  LET r == Rounds(load, st.qi)[n]
      f == Frontier(r.pool)
  IN  /\ HasExpanded(load, st.qi, n, E) /\ f # <<>>
      /\ st.visited = r.visited /\ st.pool = MarkExpanded(r.pool)
      /\ D \cup await = ToSet(f) /\ D \cap await = {}
      /\ ToSet(st.pending) = NeighboursOf(load, D)
      /\ NearestOf(st.exact, load.exact[st.qi], E \cup D, K)
      /\ st.reads + k = r.reads + Len(f)

\* Every query that runs has not begun or is in the midst of some round.
InSomeRound(s) ==
  \/ states[s] = Seed(states[s].qi) /\ Awaited(s) = {}
  \/ \E n \in 0 .. Cardinality(Nodes) - 1 : \E E, D \in SUBSET Nodes :
       MidRound(states[s], n, E, D, Awaited(s), Unstaged(s))

InSomeRounds ==
  pc \notin {"ok", "err"} => \A s \in Sids : states[s].active => InSomeRound(s)

\* No query runs twice, and the next one does not run yet.
QueriesApart ==
  \A s \in Sids : states[s].active =>
    /\ states[s].qi < nextQ
    /\ \A t \in Sids : states[t].active /\ states[t].qi = states[s].qi => t = s

RoundInv ==
  /\ IndInv /\ InSomeRounds /\ QueriesApart
  /\ expected = [q \in Queries |-> BatchedSearch(load, q)]

=============================================================================
