----------------------------- MODULE BeamSearch -----------------------------
(***************************************************************************)
(* The beam search both engines run over the graph, as operators: the pool *)
(* of candidates (search.rs, and its twin in pipeline.rs), the top-k heap  *)
(* (topk.rs), and the round-based search of one query (search.rs:79-134    *)
(* under DiskIndex::search, disk.rs:170-221), the reference that the       *)
(* pipelined engine is measured against.                                   *)
(*                                                                         *)
(* A workload is what is fixed for a run: the neighbours of each node on   *)
(* disk, and for each query the distance of each node, as the routing      *)
(* scorer sees it (route) and exactly (exact).  Distances are naturals.    *)
(***************************************************************************)
EXTENDS Integers, SequencesExt

CONSTANTS
  Nodes,    \* node ids, 0 .. n - 1
  Queries,  \* query numbers, 0 .. nq - 1
  Medoid,   \* the entry point
  K, Ef, W  \* results wanted, pool size, beam width

ASSUME BeamAssumption ==
  /\ IsFiniteSet(Nodes) /\ Medoid \in Nodes
  /\ K \in Nat \ {0} /\ W \in Nat \ {0} /\ Ef \in Nat /\ Ef >= K

Workload ==
  [nbrs: [Nodes -> Seq(Nodes)],
   route: [Queries -> [Nodes -> Nat]],
   exact: [Queries -> [Nodes -> Nat]]]

Cand   == [dist: Nat, id: Nodes, expanded: BOOLEAN]
Scored == [dist: Nat, id: Nodes]

FirstOf(s, n) == SubSeq(s, 1, IF Len(s) < n THEN Len(s) ELSE n)

\* A loop over a sequence: step[x] is what the element x does to its state.
Loop(step, state, seq) == FoldLeft(LAMBDA s, x : step[x][s], state, seq)

-----------------------------------------------------------------------------
\* Variant: a full pool takes nothing more.
PoolInsertUntilFull(pool, dist, id) ==
  IF Len(pool) >= Ef THEN pool
  ELSE LET nearer == {i \in DOMAIN pool : pool[i].dist <= dist} IN
       InsertAt(pool, Cardinality(nearer) + 1, [dist |-> dist, id |-> id, expanded |-> FALSE])

\* The candidate goes behind every one that is not farther (partition_point),
\* so equal distances keep their order of arrival; the farthest falls off a
\* pool that is over-full.  A full pool refuses what is no nearer than its last.
PoolInsert(pool, dist, id) ==
  IF Len(pool) >= Ef /\ dist >= Last(pool).dist
    THEN pool
    ELSE LET nearer == {i \in DOMAIN pool : pool[i].dist <= dist} IN
         FirstOf(InsertAt(pool, Cardinality(nearer) + 1,
                          [dist |-> dist, id |-> id, expanded |-> FALSE]), Ef)

\* The loop over a round's neighbours: only a first visit reaches the pool.
Beam == [visited: SUBSET Nodes, pool: Seq(Cand)]

\* Variant: a node met again is inserted again.
VisitAgain(route) ==
  [nb \in Nodes |-> [s \in Beam |->
     [visited |-> s.visited \cup {nb},
      pool |-> PoolInsert(s.pool, route[nb], nb)]]]

Visit(route) ==
  [nb \in Nodes |-> [s \in Beam |->
     IF nb \in s.visited THEN s
     ELSE [visited |-> s.visited \cup {nb},
           pool |-> PoolInsert(s.pool, route[nb], nb)]]]

Integrate(visited, pool, route, nbs) ==
  Loop(Visit(route), [visited |-> visited, pool |-> pool], nbs)

\* The loop that looks for W places of the pool not yet expanded.
Gather(pool) ==
  [i \in DOMAIN pool |-> [at \in Seq(DOMAIN pool) |->
     IF Len(at) = W \/ pool[i].expanded THEN at ELSE Append(at, i)]]

\* Variant: only the first W places of the pool are looked at.
FrontierAtHead(pool) ==
  Loop(Gather(pool), <<>>, [i \in DOMAIN FirstOf(pool, W) |-> i])

\* The first W places of the pool not yet expanded, nearest first.
FrontierAt(pool) ==
  Loop(Gather(pool), <<>>, [i \in DOMAIN FirstOf(pool, Ef) |-> i])

Frontier(pool) == [j \in DOMAIN FrontierAt(pool) |-> pool[FrontierAt(pool)[j]].id]

MarkExpanded(pool) ==
  LET at == ToSet(FrontierAt(pool)) IN
  [i \in DOMAIN pool |->
     IF i \in at THEN [pool[i] EXCEPT !.expanded = TRUE] ELSE pool[i]]

\* TopK, as its entries in ascending order of (distance, id): the worst is
\* the last, and a full heap takes only what is strictly nearer than that.
Before(d, e) == d.dist < e.dist \/ (d.dist = e.dist /\ d.id <= e.id)

TopPush(top, dist, id) ==
  LET e == [dist |-> dist, id |-> id]
      Add(s) == InsertAt(s, Cardinality({i \in DOMAIN s : Before(s[i], e)}) + 1, e)
  IN  IF Len(top) < K THEN Add(top)
      ELSE IF dist < Last(top).dist THEN Add(Front(top))
      ELSE top

-----------------------------------------------------------------------------
\* One round of DiskIndex::search: read the frontier's blocks as one batch,
\* score and collect them in frontier order, then integrate their neighbours.
SearchSeed(route) ==
  [pool |-> <<[dist |-> route[Medoid], id |-> Medoid, expanded |-> FALSE]>>,
   visited |-> {Medoid}, exact |-> <<>>, reads |-> 0]

Search ==
  [pool: Seq(Cand), visited: SUBSET Nodes, exact: Seq(Scored), reads: Nat]

Collected(load, frontier) ==
  Loop([n \in Nodes |-> [nbs \in Seq(Nodes) |-> nbs \o load.nbrs[n]]], <<>>, frontier)

Ranked(load, q, top, frontier) ==
  Loop([n \in Nodes |-> [t \in Seq(Scored) |-> TopPush(t, load.exact[q][n], n)]], top, frontier)

Explored(load, q, visited, pool) ==
  Integrate(visited, MarkExpanded(pool), load.route[q], Collected(load, Frontier(pool)))

SearchRound(load, q) ==
  [s \in Search |->
     LET frontier == Frontier(s.pool)
         next == Explored(load, q, s.visited, s.pool)
     IN  [pool |-> next.pool,
          visited |-> next.visited,
          exact |-> Ranked(load, q, s.exact, frontier),
          reads |-> s.reads + Len(frontier)]]

\* Every round but the last expands a node never expanded before, so there
\* are at most as many as there are nodes; a round with nothing left to
\* expand changes nothing.
Rounds(load, q) ==
  LET after[n \in 0 .. Cardinality(Nodes)] ==
        IF n = 0 THEN SearchSeed(load.route[q]) ELSE SearchRound(load, q)[after[n - 1]]
  IN  after

BatchedSearch(load, q) ==
  LET last == Rounds(load, q)[Cardinality(Nodes)]
  IN  [top |-> last.exact, reads |-> last.reads]

-----------------------------------------------------------------------------
\* beam_search (search.rs:136-186): the nearest candidate not yet expanded, one
\* at a time, its neighbours looked up in memory.
Open(pool) == {i \in DOMAIN FirstOf(pool, Ef) : ~ pool[i].expanded}

Greedy == [pool: Seq(Cand), visited: SUBSET Nodes, expanded: Seq(Nodes)]

Hop(load, q) ==
  [s \in Greedy |->
     IF Open(s.pool) = {} THEN s
     ELSE LET idx  == CHOOSE i \in Open(s.pool) : \A j \in Open(s.pool) : i <= j
              cur  == s.pool[idx].id
              next == Integrate(s.visited, [s.pool EXCEPT ![idx].expanded = TRUE],
                                load.route[q], load.nbrs[cur])
          IN  [pool |-> next.pool, visited |-> next.visited, expanded |-> Append(s.expanded, cur)]]

Hops(load, q) ==
  LET after[n \in 0 .. Cardinality(Nodes)] ==
        IF n = 0
          THEN [pool |-> SearchSeed(load.route[q]).pool, visited |-> {Medoid}, expanded |-> <<>>]
          ELSE Hop(load, q)[after[n - 1]]
  IN  after

GreedySearch(load, q) == Hops(load, q)[Cardinality(Nodes)]

-----------------------------------------------------------------------------
\* A beam in which every candidate has been visited and is there once, and
\* those in a set E of nodes are the expanded ones.
Tidy(b, E) ==
  /\ b \in Beam /\ E \subseteq b.visited
  /\ \A i \in DOMAIN b.pool :
       b.pool[i].id \in b.visited /\ (b.pool[i].expanded <=> b.pool[i].id \in E)
  /\ \A i, j \in DOMAIN b.pool : b.pool[i].id = b.pool[j].id => i = j

\* s holds, nearest first and each once, the nodes of V nearest by dist: all of
\* them, or m of them and no other node of V is nearer than any of those.
NearestOf(s, dist, V, m) ==
  /\ Len(s) <= m
  /\ \A i \in DOMAIN s : s[i].id \in V /\ s[i].dist = dist[s[i].id]
  /\ \A i, j \in DOMAIN s : i < j => s[i].dist <= s[j].dist
  /\ \A i, j \in DOMAIN s : s[i].id = s[j].id => i = j
  /\ \A n \in V : \/ \E i \in DOMAIN s : s[i].id = n
                  \/ Len(s) = m /\ \A i \in DOMAIN s : s[i].dist <= dist[n]

\* The neighbours of the nodes of A.
NeighboursOf(load, A) == UNION {ToSet(load.nbrs[a]) : a \in A}

\* The nodes of E are those the search of a query has expanded in n rounds.
HasExpanded(load, q, n, E) ==
  LET r == Rounds(load, q)[n] IN
  /\ Tidy([visited |-> r.visited, pool |-> r.pool], E)
  /\ NearestOf(r.pool, load.route[q], r.visited, Ef)
  /\ NearestOf(r.exact, load.exact[q], E, K)

=============================================================================
