----------------------------- MODULE DiskSearch -----------------------------
(***************************************************************************)
(* DiskIndex::search (crates/nvvec-index/src/disk.rs) on one thread: one   *)
(* call after another over the same index, on buffers that are kept from   *)
(* call to call (those of a scratch of the server, or of a thread of the   *)
(* bench), with the parameters the server makes of a request.  The search  *)
(* is routed by exact distances or by quantized ones; every node it expands*)
(* is read from disk, and ranked by the vector found there.                *)
(*                                                                         *)
(* Blocks are read one by one, as PreadReader does it (nvvec-io/src/lib.rs),*)
(* and any of these reads may fail.                                        *)
(***************************************************************************)
EXTENDS DiskLayout, Sq8, SequencesExt

CONSTANTS
  Nodes,         \* 0 .. n - 1
  Bases, Graphs, \* what the index may hold: a vector and neighbours per node
  Points,        \* the queries
  Requests,      \* the k, ef and w that may be asked for
  MaxW           \* the widest beam the server allows, 64

N == Cardinality(Nodes)

ASSUME SearchAssumption ==
  /\ IsFiniteSet(Nodes) /\ Nodes = 0 .. N - 1 /\ N >= 1
  /\ Bases \subseteq [Nodes -> Seq(Int)]
  /\ Points # {} /\ Points \subseteq Seq(Int)
  /\ \A b \in Bases, q \in Points : \A n \in Nodes : Len(b[n]) = Len(q)
  /\ Graphs \subseteq [Nodes -> Seq(Nodes)]
  /\ Requests \subseteq [k: Nat, ef: Nat, w: Nat]
  /\ MaxW \in Nat \ {0}

VARIABLES
  base, nbrs,   \* the content of the index; never changes
  book,         \* the codes trained on the base; never change
  bufs,         \* io_bufs: the block in each of the buffers
  pc,           \* where the call is, or "idle"
  query, routing, params,   \* its arguments
  pool, visited, expanded,  \* its scratch
  frontier,     \* the nodes of this round
  read,         \* how many of their blocks are read
  ioErr,        \* a read of this call has failed
  top,          \* the nearest of the nodes read
  answer        \* what the last call returned

given == <<base, nbrs, book>>
call  == <<query, routing, params>>
beam  == <<pool, visited, expanded>>
vars  == <<given, bufs, pc, call, beam, frontier, read, ioErr, top, answer>>

Medoid == FindMedoid(base)

Beams == INSTANCE BeamSearch WITH
  Queries <- {0}, K <- params.k, Ef <- params.ef, W <- params.w

\* RouteScorer: the base itself, or the codes trained on it.
Score(kind, q, id) ==
  IF kind = "exact" THEN L2Sq(q, base[id]) ELSE ScoreOf(book, q, id)

Route == [id \in Nodes |-> Score(routing, query, id)]

-----------------------------------------------------------------------------
\* What a buffer holds that is not a block of nodes: zeros, or part of a block.
Junk == 0

\* The node at a slot of a block: its vector and its neighbours.  There is
\* nothing but zeros where no node is.
NodeBytes(block, slot) ==
  LET nodes == IF block = Junk THEN <<>> ELSE NodesOf(N, block) IN
  IF slot + 1 \in DOMAIN nodes
    THEN [vector |-> base[nodes[slot + 1]], nbrs |-> nbrs[nodes[slot + 1]]]
    ELSE [vector |-> [d \in DOMAIN query |-> 0], nbrs |-> <<>>]

NoAnswer == [ok |-> FALSE, top |-> <<>>, reads |-> 0]

NoQuery  == CHOOSE q \in Points : TRUE
NoParams == [k |-> 1, ef |-> 1, w |-> 1]

Init ==
  /\ base \in Bases /\ nbrs \in Graphs
  /\ book = Train(base)
  /\ bufs = <<>>
  /\ pc = "idle"
  /\ query = NoQuery /\ routing = "exact" /\ params = NoParams
  /\ pool = <<>> /\ visited = {} /\ expanded = <<>>
  /\ frontier = <<>> /\ read = 0
  /\ ioErr = FALSE /\ top = <<>> /\ answer = NoAnswer

\* Nothing is expanded, read or ranked yet.
Begin ==
  /\ expanded' = <<>> /\ frontier' = <<>> /\ read' = 0
  /\ ioErr' = FALSE /\ top' = <<>> /\ answer' = NoAnswer

\* Variant: the parameters are taken as they come.
AsAsked(asked) == asked

\* The server's handler: max(1), max(k), clamp(1, 64).
Clamped(asked) ==
  LET k == IF asked.k < 1 THEN 1 ELSE asked.k IN
  [k  |-> k,
   ef |-> IF asked.ef < k THEN k ELSE asked.ef,
   w  |-> IF asked.w < 1 THEN 1 ELSE IF asked.w > MaxW THEN MaxW ELSE asked.w]

\* Vec::resize: buffers kept as they are, and zeros in the new ones.
Resized(n) == [i \in 1 .. n |-> IF i <= Len(bufs) THEN bufs[i] ELSE Junk]

Start(q, kind, asked) ==
  /\ pc = "idle"
  /\ query' = q
  /\ routing' = kind
  /\ params' = Clamped(asked)
  /\ bufs' = Resized(params'.w)
  /\ pool' = <<[dist |-> Score(kind, q, Medoid), id |-> Medoid, expanded |-> FALSE]>>
  /\ visited' = {Medoid}
  /\ Begin
  /\ pc' = "round"
  /\ UNCHANGED given

\* A round: the nearest candidates not yet expanded are read, unless a read
\* has failed before, when nothing is read any more.
Expand ==
  /\ pc = "round"
  /\ Beams!Frontier(pool) # <<>>
  /\ frontier' = Beams!Frontier(pool)
  /\ pool' = Beams!MarkExpanded(pool)
  /\ expanded' = expanded \o frontier'
  /\ pc' = IF ioErr THEN "round" ELSE "read"
  /\ UNCHANGED <<given, bufs, call, visited, read, ioErr, top, answer>>

BlockOf(i) == Locate(frontier[i]).block

\* One block after another is read into a buffer of its own.
ReadBlock ==
  /\ pc = "read"
  /\ BlockOf(read + 1) <= DataBlocks(N)
  /\ bufs' = [bufs EXCEPT ![read + 1] = BlockOf(read + 1)]
  /\ read' = IF read + 1 = Len(frontier) THEN 0 ELSE read + 1
  /\ pc' = IF read + 1 = Len(frontier) THEN "collect" ELSE "read"
  /\ UNCHANGED <<given, call, beam, frontier, ioErr, top, answer>>

\* Variant: the error of a batch is noted by nobody.
ReadIgnored ==
  /\ pc = "read"
  /\ bufs' \in {bufs, [bufs EXCEPT ![read + 1] = Junk]}
  /\ read' = 0
  /\ pc' = "collect"
  /\ UNCHANGED <<given, call, beam, frontier, ioErr, top, answer>>

\* A read fails, with its buffer as it was or partly written; those behind it
\* in the batch are not made.
ReadFails ==
  /\ pc = "read"
  /\ bufs' \in {bufs, [bufs EXCEPT ![read + 1] = Junk]}
  /\ read' = 0
  /\ ioErr' = TRUE
  /\ pc' = "round"
  /\ UNCHANGED <<given, call, beam, frontier, top, answer>>

\* The nodes are taken out of the buffers: each is ranked by its vector and
\* its neighbours are collected, and then scored and put into the pool.
Found == [i \in DOMAIN frontier |-> NodeBytes(bufs[i], Locate(frontier[i]).slot)]

Collect ==
  LET places == [i \in DOMAIN frontier |-> i]
      nbs  == Beams!Loop([i \in DOMAIN frontier |-> [s \in Seq(Nodes) |-> s \o Found[i].nbrs]],
                         <<>>, places)
      next == Beams!Integrate(visited, pool, Route, nbs)
  IN  /\ pc = "collect"
      /\ top' = Beams!Loop([i \in DOMAIN frontier |-> [t \in Seq(Beams!Scored) |->
                             Beams!TopPush(t, L2Sq(query, Found[i].vector), frontier[i])]],
                           top, places)
      /\ pool' = next.pool
      /\ visited' = next.visited
      /\ pc' = "round"
      /\ UNCHANGED <<given, bufs, call, expanded, frontier, read, ioErr, answer>>

\* With nothing left to expand, the call returns: the error if there was one.
Return ==
  /\ pc = "round"
  /\ Beams!Frontier(pool) = <<>>
  /\ answer' = IF ioErr THEN NoAnswer ELSE [ok |-> TRUE, top |-> top, reads |-> Len(expanded)]
  /\ pc' = "returned"
  /\ UNCHANGED <<given, bufs, call, beam, frontier, read, ioErr, top>>

\* The caller has the answer.  All the call leaves behind is the buffers: the
\* next one clears the scratch it is given (begin; Server looks into that).
HandOver ==
  /\ pc = "returned"
  /\ pc' = "idle"
  /\ query' = NoQuery /\ routing' = "exact" /\ params' = NoParams
  /\ pool' = <<>> /\ visited' = {}
  /\ Begin
  /\ UNCHANGED <<given, bufs>>

Next ==
  \/ \E q \in Points, kind \in {"exact", "sq8"}, asked \in Requests : Start(q, kind, asked)
  \/ Expand \/ ReadBlock \/ ReadFails \/ Collect \/ Return \/ HandOver

Spec == Init /\ [][Next]_vars

-----------------------------------------------------------------------------
\* Every variable has its type, and whatever is asked for the search keeps
\* within it: never a beam or a heap of no size (the code asserts that), a
\* round wider than its buffers, or more results than k.
TypeOK ==
  /\ base \in Bases /\ nbrs \in Graphs
  /\ pc \in {"idle", "round", "read", "collect", "returned"}
  /\ query \in Points /\ routing \in {"exact", "sq8"}
  /\ params \in [k: Nat \ {0}, ef: Nat, w: 1 .. MaxW] /\ params.ef >= params.k
  /\ bufs \in Seq(0 .. DataBlocks(N)) /\ (pc # "idle" => Len(bufs) = params.w)
  /\ pool \in Seq(Beams!Cand) /\ Len(pool) <= params.ef
  /\ visited \subseteq Nodes
  /\ expanded \in Seq(Nodes)
  /\ frontier \in Seq(Nodes) /\ Len(frontier) <= params.w
  /\ read \in 0 .. params.w /\ ioErr \in BOOLEAN
  /\ top \in Seq(Beams!Scored) /\ Len(top) <= params.k
  /\ answer \in [ok: BOOLEAN, top: Seq(Beams!Scored), reads: Nat]

\* The pool holds the ef nearest of all the nodes met so far, as the scorer
\* sees them, nearest first and each once, though every insertion saw only the
\* last of the pool, and what was dropped is never looked at again.
PoolIsNearest ==
  LET pooled == {pool[i].id : i \in DOMAIN pool} IN
  /\ Cardinality(pooled) = Len(pool) /\ pooled \subseteq visited
  /\ \A i \in DOMAIN pool : pool[i].dist = Route[pool[i].id]
  /\ \A i \in 1 .. Len(pool) - 1 : pool[i].dist <= pool[i + 1].dist
  /\ \A n \in visited \ pooled : Len(pool) = params.ef /\ Route[n] >= Last(pool).dist

DistancesOf(scored) == [i \in DOMAIN scored |-> scored[i].dist]

\* brute::search over some of the nodes, lowest number first.
Brute(nodes) ==
  Beams!Loop([n \in Nodes |-> [t \in Seq(Beams!Scored) |->
                IF n \in nodes THEN Beams!TopPush(t, L2Sq(query, base[n]), n) ELSE t]],
             <<>>, [i \in 1 .. N |-> i - 1])

\* The nodes a search can come to at all: those of every set that has the medoid
\* and the neighbours of its own.
Reachable ==
  LET medoid == Medoid
      Closed == {S \in SUBSET Nodes : medoid \in S /\ \A m \in S : ToSet(nbrs[m]) \subseteq S}
  IN  {n \in Nodes : \A S \in Closed : n \in S}

\* "Every expanded node is reranked exactly", "the returned top-k comes only
\* from exact scores": whichever scorer routed the search, and whatever calls
\* before it left in the buffers, an answer ranks the nodes it has read as
\* exact search would, and counts each of them once; and if the pool has room
\* for all there are, it is what exact search finds among all within reach.
AnswerExact ==
  answer.ok =>
    /\ \A i \in DOMAIN answer.top : answer.top[i].dist = L2Sq(query, base[answer.top[i].id])
    /\ DistancesOf(answer.top) = DistancesOf(Brute(ToSet(expanded)))
    /\ answer.reads = Cardinality(ToSet(expanded))
    /\ params.ef >= N => DistancesOf(answer.top) = DistancesOf(Brute(Reachable))

\* "With w == 1 and an exact scorer this is step-for-step identical to
\* beam_search": the same nodes expanded in the same order, the same pool at
\* the end, and an answer with the distances of its top_k.  Which nodes these
\* are is left open where it may differ: among nodes equally far, their order,
\* and which of them has the last of the k places (the code's test compares
\* nodes too, on vectors without ties).
StepForStep ==
  answer.ok /\ params.w = 1 /\ routing = "exact" =>
    LET load   == [nbrs |-> nbrs, route |-> [q \in {0} |-> Route]]
        greedy == Beams!GreedySearch(load, 0)
    IN  /\ expanded = greedy.expanded
        /\ pool = greedy.pool
        /\ DistancesOf(answer.top) = DistancesOf(Beams!FirstOf(greedy.pool, params.k))

\* "The quantization error only affects which nodes get explored": see
\* CloseOn in Sq8.
RoutingClose == CloseOn(book, base, query)

-----------------------------------------------------------------------------
\* What these rest on.  Exactly measured distances.
Exact == [id \in Nodes |-> L2Sq(query, base[id])]

Reading == pc \in {"read", "collect"}

\* The nodes taken out of the buffers: those expanded but for a round that is
\* being read.
Done == IF Reading THEN ToSet(expanded) \ ToSet(frontier) ELSE ToSet(expanded)

\* Every candidate is visited, there once, and expanded if and only if it has
\* been in a round; the pool holds the nearest of the visited.
BeamTidy ==
  /\ Beams!Tidy([visited |-> visited, pool |-> pool], ToSet(expanded))
  /\ Beams!NearestOf(pool, Route, visited, params.ef)
  /\ \A i, j \in DOMAIN expanded : expanded[i] = expanded[j] => i = j

\* A round being read is of different nodes, the last expanded; the buffers read
\* hold the blocks of the first of them, and then of all.
RoundRead ==
  /\ pc # "read" => read = 0
  /\ Reading =>
       /\ ~ ioErr /\ frontier # <<>> /\ ToSet(frontier) \subseteq ToSet(expanded)
       /\ \A i, j \in DOMAIN frontier : frontier[i] = frontier[j] => i = j
       /\ pc = "read" => read < Len(frontier)
       /\ \A i \in DOMAIN frontier : pc = "collect" \/ i <= read => bufs[i] = BlockOf(i)

\* Unless a read has failed, the top holds the nearest of the nodes taken out,
\* and these have had their neighbours visited.
TopNearest == ~ ioErr => Beams!NearestOf(top, Exact, Done, params.k)

WithinReach ==
  ~ ioErr /\ pc # "idle" =>
    /\ visited = {Medoid} \cup Beams!NeighboursOf([nbrs |-> nbrs], Done)
    /\ visited \subseteq Reachable

\* What a call is about to return, and that it has nothing left to expand.
AnswerKept ==
  IF pc = "returned"
    THEN /\ \A i \in DOMAIN pool : pool[i].expanded
         /\ answer = IF ioErr THEN NoAnswer ELSE [ok |-> TRUE, top |-> top, reads |-> Len(expanded)]
    ELSE answer = NoAnswer

Trained == book = Train(base)

IndInv ==
  /\ TypeOK /\ Trained /\ BeamTidy /\ RoundRead /\ TopNearest /\ WithinReach /\ AnswerKept

=============================================================================
