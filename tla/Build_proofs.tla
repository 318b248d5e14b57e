---------------------------- MODULE Build_proofs ----------------------------
(***************************************************************************)
(* Theorems about Build, for every base, number of chunks under way, degree*)
(* R, list size L, sequence of alphas and permutations.  What is proved of *)
(* the search is used through Search, an instance of its module of proofs, *)
(* and what is proved there of loops, sums and division, which needs none  *)
(* of its constants, through Loops.                                        *)
(***************************************************************************)
EXTENDS Build, SequenceTheorems, FiniteSetTheorems, TLAPS

Search == INSTANCE BeamSearch_proofs WITH
  Queries <- Nodes, K <- 1, Ef <- L, W <- 1

Loops == INSTANCE BeamSearch_proofs WITH
  Nodes <- {0}, Queries <- {0}, Medoid <- 0, K <- 1, Ef <- 1, W <- 1

N == Cardinality(Nodes)

\* The constants of Loops are such as its lemmas ask for.
LEMMA LoopConstants == Loops!BeamAssumption
<1>1. \A S : Loops!IsFiniteSet(S) <=> IsFiniteSet(S)
  BY DEF Loops!IsFiniteSet, IsFiniteSet
<1> QED
  BY <1>1, FS_Singleton DEF Loops!BeamAssumption

LEMMA Sizes ==
  /\ N \in Nat /\ N >= 1 /\ Nodes = 0 .. N - 1 /\ 0 \in Nodes
  /\ R \in Nat /\ R >= 2 /\ L \in Nat /\ L >= 2 /\ ChunkSize \in Nat \ {0}
<1>1. N \in Nat /\ Nodes = 0 .. N - 1 /\ Nodes # {}
  BY BuildAssumption, FS_CardinalityType DEF N
<1>2. N >= 1
  BY <1>1
<1> QED
  BY <1>1, <1>2, BuildAssumption

\* What holds of 0, and of each number up to n if of the one before it.
LEMMA Climb ==
  ASSUME NEW n \in Nat, NEW T, 0 \in T, \A i \in 1 .. n : i - 1 \in T => i \in T
  PROVE  n \in T
<1>1. \A i \in 0 .. n : i \in T
  BY LoopConstants, Loops!UpTo
<1> QED
  BY <1>1

-----------------------------------------------------------------------------
\* Beams, Search and Loops are instances of one module: the same by definition.
LEMMA SameLoop ==
  ASSUME NEW step, NEW state, NEW seq
  PROVE  /\ Beams!Loop(step, state, seq) = Loops!Loop(step, state, seq)
         /\ Beams!Loop(step, state, seq) = Search!Loop(step, state, seq)
<1>1. \A S : Beams!Max(S) = Loops!Max(S) /\ Beams!Max(S) = Search!Max(S)
  BY DEF Beams!Max, Loops!Max, Search!Max
<1> QED
  BY <1>1, Zenon DEF Beams!Loop, Loops!Loop, Search!Loop, Beams!FoldLeft, Loops!FoldLeft, Search!FoldLeft,
    Beams!MapThenFoldSet, Loops!MapThenFoldSet, Search!MapThenFoldSet, Beams!Max, Loops!Max, Search!Max

LEMMA SameCand == Beams!Cand = Search!Cand /\ Beams!Beam = Search!Beam
BY DEF Beams!Cand, Search!Cand, Beams!Beam, Search!Beam

LEMMA SameCardinality == \A S : Beams!Cardinality(S) = Cardinality(S) /\ Search!Cardinality(S) = Cardinality(S)
BY Zenon DEF Beams!Cardinality, Search!Cardinality, Cardinality

LEMMA SameInsert ==
  ASSUME NEW pool, NEW dist, NEW id
  PROVE  Beams!PoolInsert(pool, dist, id) = Search!PoolInsert(pool, dist, id)
BY SameCardinality, Zenon DEF Beams!PoolInsert, Search!PoolInsert, Beams!FirstOf, Search!FirstOf,
   Beams!InsertAt, Search!InsertAt, Beams!Last, Search!Last

LEMMA SameIntegrate ==
  ASSUME NEW visited, NEW pool, NEW route, NEW nbs
  PROVE  Beams!Integrate(visited, pool, route, nbs) = Search!Integrate(visited, pool, route, nbs)
<1>1. Beams!Visit(route) = Search!Visit(route)
  BY SameCand, SameInsert, Zenon DEF Beams!Visit, Search!Visit
<1> QED
  BY <1>1, SameLoop DEF Beams!Integrate, Search!Integrate

LEMMA SameFrontier ==
  ASSUME NEW pool
  PROVE  /\ Beams!Frontier(pool) = Search!Frontier(pool)
         /\ Beams!FrontierAt(pool) = Search!FrontierAt(pool)
         /\ Beams!MarkExpanded(pool) = Search!MarkExpanded(pool)
<1>1. Beams!Gather(pool) = Search!Gather(pool)
  BY Zenon DEF Beams!Gather, Search!Gather
<1>2. Beams!FrontierAt(pool) = Search!FrontierAt(pool)
  BY <1>1, SameLoop, Zenon DEF Beams!FrontierAt, Search!FrontierAt, Beams!FirstOf, Search!FirstOf
<1>3. Beams!Frontier(pool) = Search!Frontier(pool)
  BY <1>2, Zenon DEF Beams!Frontier, Search!Frontier
<1>4. \A s : Beams!ToSet(s) = Search!ToSet(s)
  BY DEF Beams!ToSet, Search!ToSet
<1>5. Beams!MarkExpanded(pool) = Search!MarkExpanded(pool)
  BY <1>2, <1>4, Zenon DEF Beams!MarkExpanded, Search!MarkExpanded
<1> QED
  BY <1>2, <1>3, <1>5

-----------------------------------------------------------------------------
\* Distances are naturals, and the least of them is at some node.
LEMMA SameSums ==
  /\ \A f : Total(f) = Loops!Total(f)
  /\ \A a, b : L2Sq(a, b) = Loops!L2Sq(a, b)
  /\ \A S : Cardinality(S) = Loops!Cardinality(S)
<1>1. \A f : Total(f) = Loops!Total(f)
  BY Zenon DEF Total, FoldFunction, FoldFunctionOnSet, MapThenFoldSet,
    Loops!Total, Loops!FoldFunction, Loops!FoldFunctionOnSet, Loops!MapThenFoldSet
<1>2. \A a, b : L2Sq(a, b) = Loops!L2Sq(a, b)
  BY <1>1, Zenon DEF L2Sq, Loops!L2Sq
<1>3. \A S : Cardinality(S) = Loops!Cardinality(S)
  BY Zenon DEF Cardinality, Loops!Cardinality
<1> QED
  BY <1>1, <1>2, <1>3

LEMMA DistanceType == Distance \in [Nodes -> [Nodes -> Nat]]
<1> SUFFICES ASSUME NEW a \in Nodes, NEW b \in Nodes PROVE L2Sq(Base[a], Base[b]) \in Nat
  BY DEF Distance
<1> DEFINE n == Len(Base[0])
<1>1. Base[a] \in Seq(Int) /\ Base[b] \in Seq(Int) /\ Len(Base[a]) = n /\ Len(Base[b]) = n
  BY BuildAssumption
<1>2. n \in Nat /\ DOMAIN Base[a] = 1 .. n /\ \A d \in 1 .. n : Base[a][d] \in Int /\ Base[b][d] \in Int
  BY <1>1, LenProperties, ElementOfSeq
<1> HIDE DEF n
<1> QED
  BY <1>2, LoopConstants, Loops!L2SqType, SameSums

\* The medoid is a node.
LEMMA MedoidType == Medoid \in Nodes
<1>1. \A S : Loops!IsFiniteSet(S) <=> IsFiniteSet(S)
  BY DEF Loops!IsFiniteSet, IsFiniteSet
<1>2. /\ Nodes \in SUBSET Nat /\ Loops!IsFiniteSet(Nodes) /\ 0 \in Nodes
      /\ Base \in [Nodes -> Seq(Int)] /\ \A i \in Nodes : Len(Base[i]) = Len(Base[0])
  BY <1>1, BuildAssumption, Sizes
<1>3. Loops!FindMedoid(Base) \in Nodes
  BY <1>2, LoopConstants, Loops!MedoidFacts
<1>4. FindMedoid(Base) = Loops!FindMedoid(Base)
  BY SameSums, Zenon DEF FindMedoid, Loops!FindMedoid
<1> QED
  BY <1>3, <1>4 DEF Medoid

\* The constants of the search are such as its lemmas ask for.
LEMMA SearchConstants == Search!BeamAssumption
<1>1. \A S : Search!IsFiniteSet(S) <=> IsFiniteSet(S)
  BY DEF Search!IsFiniteSet, IsFiniteSet
<1> QED
  BY <1>1, MedoidType, Sizes, BuildAssumption DEF Search!BeamAssumption

-----------------------------------------------------------------------------
\* The steps of the search, over lists that other insertions change: what it
\* has visited, has expanded and has in its pool are nodes.
BeamState == [visited: SUBSET Nodes, pool: Seq(Beams!Cand), expanded: SUBSET Nodes]

LEMMA NoneSearched == NoBeam \in BeamState
<1>1. <<>> \in Seq(Beams!Cand)
  BY EmptySeq
<1> QED
  BY <1>1 DEF NoBeam, BeamState

LEMMA SeedFacts ==
  ASSUME NEW p \in Nodes
  PROVE  LET pool == Beams!SearchSeed(Distance[p]).pool IN
         /\ pool \in Seq(Beams!Cand) /\ Len(pool) = 1
         /\ pool[1].id = Medoid /\ ~ pool[1].expanded
<1> DEFINE c == [dist |-> Distance[p][Medoid], id |-> Medoid, expanded |-> FALSE]
<1>1. c \in Beams!Cand /\ c.id = Medoid /\ ~ c.expanded
  BY MedoidType, DistanceType DEF Beams!Cand
<1>2. Beams!SearchSeed(Distance[p]).pool = <<c>>
  BY DEF Beams!SearchSeed
<1> HIDE DEF c
<1>3. <<c>> \in Seq(Beams!Cand) /\ Len(<<c>>) = 1 /\ <<c>>[1] = c
  BY <1>1
<1> QED
  BY <1>1, <1>2, <1>3

\* Taking up a list keeps the pool and the visited set of nodes.
LEMMA ExpandFacts ==
  ASSUME NEW p \in Nodes, NEW b \in BeamState, NEW list \in Seq(Nodes)
  PROVE  LET next == Beams!Integrate(b.visited, Beams!MarkExpanded(b.pool), Distance[p], list) IN
         /\ next.visited \subseteq Nodes /\ next.pool \in Seq(Beams!Cand)
         /\ Beams!Frontier(b.pool) \in Seq(Nodes)
<1>1. b.visited \in SUBSET Nodes /\ b.pool \in Seq(Search!Cand) /\ Distance[p] \in [Nodes -> Nat]
  BY SameCand, DistanceType DEF BeamState
<1> DEFINE pool == b.pool
           visited == b.visited
           route == Distance[p]
           m == Search!MarkExpanded(pool)
<1> HIDE DEF pool, visited, route
<1>2. m \in Seq(Search!Cand) /\ Search!Frontier(pool) \in Seq(Nodes)
  BY <1>1, SearchConstants, Search!MarkExpandedFacts, Search!FrontierFacts DEF pool
<1> HIDE DEF m
<1> DEFINE v == Search!Integrate(visited, m, route, list)
<1>3. v \in Search!Beam
  BY <1>1, <1>2, SearchConstants, Search!IntegrateFacts DEF visited, route
<1>4. v.visited \subseteq Nodes /\ v.pool \in Seq(Search!Cand)
  BY <1>3 DEF Search!Beam
<1>5. Beams!Integrate(visited, Beams!MarkExpanded(pool), route, list) = v
  BY SameIntegrate, SameFrontier DEF m
<1> HIDE DEF v
<1> QED
  BY <1>2, <1>4, <1>5, SameCand, SameFrontier DEF pool, visited, route

\* A search that has not expanded the medoid yet has it to expand.
LEMMA EntryFirst ==
  ASSUME NEW pool \in Seq(Beams!Cand), Len(pool) = 1, pool[1].id = Medoid, ~ pool[1].expanded
  PROVE  Beams!Frontier(pool) # <<>> /\ Head(Beams!Frontier(pool)) = Medoid
<1> DEFINE at == Search!FrontierAt(pool)
           f == Search!Frontier(pool)
<1>1. pool \in Seq(Search!Cand) /\ DOMAIN pool = {1}
  BY SameCand, LenProperties
<1>2. /\ at \in Seq(DOMAIN pool)
      /\ at = <<>> => \A i \in DOMAIN pool : i <= L => pool[i].expanded
  BY <1>1, SearchConstants, Search!FrontierAtFacts
<1>3. at # <<>>
  <2>1. 1 <= L
    BY Sizes
  <2> HIDE DEF at
  <2> QED
    BY <1>1, <1>2, <2>1
<1>4. /\ f \in Seq(Nodes) /\ DOMAIN f = DOMAIN at
      /\ \A j \in DOMAIN at : at[j] \in DOMAIN pool /\ f[j] = pool[at[j]].id
      /\ f = <<>> <=> at = <<>>
  BY <1>1, SearchConstants, Search!FrontierFacts
<1> HIDE DEF at, f
<1>5. f # <<>>
  BY <1>3, <1>4
<1>6. Len(f) \in Nat /\ Len(f) # 0 /\ DOMAIN f = 1 .. Len(f)
  BY <1>4, <1>5, LenProperties, EmptySeq
<1>7. 1 \in DOMAIN f /\ Head(f) = f[1]
  BY <1>4, <1>6
<1>8. f[1] = Medoid
  BY <1>1, <1>4, <1>7
<1> QED
  BY <1>5, <1>7, <1>8, SameFrontier DEF f

-----------------------------------------------------------------------------
\* The order of a pass has every node in it.
Full(v) == v \in Seq(Nodes) /\ Len(v) = N /\ \A n \in Nodes : \E i \in 1 .. N : v[i] = n

\* One swap of the shuffle loses no node.
LEMMA SwapFacts ==
  ASSUME NEW draw \in Draws, NEW k \in 1 .. N - 1, NEW v, Full(v)
  PROVE  Full(Swap(draw)[k][v])
<1> DEFINE i == k + 1
           j == draw[k] + 1
           u == [v EXCEPT ![i] = v[j]]
           w == [u EXCEPT ![j] = v[i]]
<1>1. N \in Nat /\ i \in 1 .. N /\ j \in 1 .. N
  <2>1. draw[k] \in 0 .. k
    BY BuildAssumption DEF N
  <2> QED
    BY <2>1, Sizes
<1>2. v \in Seq(Nodes) /\ Len(v) = N /\ v[i] \in Nodes /\ v[j] \in Nodes
  BY <1>1, ElementOfSeq DEF Full
<1> HIDE DEF i, j
<1>3. u \in Seq(Nodes) /\ Len(u) = N /\ \A m \in 1 .. N : u[m] = IF m = i THEN v[j] ELSE v[m]
  BY <1>1, <1>2, ExceptSeq
<1> HIDE DEF u
<1>4. w \in Seq(Nodes) /\ Len(w) = N /\ \A m \in 1 .. N : w[m] = IF m = j THEN v[i] ELSE u[m]
  BY <1>1, <1>2, <1>3, ExceptSeq
<1> HIDE DEF w
<1>5. Swap(draw)[k][v] = w
  BY <1>2, Zenon DEF Swap, u, w, i, j, N
<1>6. ASSUME NEW n \in Nodes PROVE \E m \in 1 .. N : w[m] = n
  <2>1. PICK m \in 1 .. N : v[m] = n
    BY DEF Full
  <2>2. CASE m = i
    BY <1>1, <1>4, <2>1, <2>2
  <2>3. CASE m = j /\ m # i
    <3>1. w[i] = v[j]
      BY <1>1, <1>3, <1>4, <2>3
    <3> QED
      BY <1>1, <2>1, <2>3, <3>1
  <2>4. CASE m # i /\ m # j
    BY <1>3, <1>4, <2>1, <2>4
  <2> QED
    BY <2>2, <2>3, <2>4
<1> QED
  BY <1>4, <1>5, <1>6 DEF Full

\* The shuffle of a pass leaves every node in its order, whatever is drawn.
THEOREM PermutationFacts ==
  ASSUME NEW draw \in Draws
  PROVE  Full(Permutation(draw))
<1> DEFINE init == [i \in 1 .. N |-> i - 1]
           seq == [i \in 1 .. N - 1 |-> N - i]
           step == Swap(draw)
           Good == [i \in Nat |-> {v \in Seq(Nodes) : Full(v)}]
<1>1. seq \in Seq(1 .. N - 1) /\ Len(seq) = N - 1 /\ N - 1 \in Nat
  <2>1. seq \in [1 .. N - 1 -> 1 .. N - 1] /\ N - 1 \in Nat
    BY Sizes
  <2> HIDE DEF seq
  <2> QED
    BY <2>1, LoopConstants, Loops!SeqOfFunction
<1>2. Full(init)
  <2>1. init \in [1 .. N -> Nodes] /\ N \in Nat
    BY Sizes
  <2>2. \A n \in Nodes : n + 1 \in 1 .. N /\ init[n + 1] = n
    BY Sizes
  <2> HIDE DEF init
  <2> QED
    BY <2>1, <2>2, LoopConstants, Loops!SeqOfFunction DEF Full
<1>3. Permutation(draw) = Loops!Loop(step, init, seq)
  BY SameLoop, Zenon DEF Permutation, N
<1> HIDE DEF init, seq, step
<1>4. init \in Good[0]
  BY <1>2 DEF Full
<1>5. ASSUME NEW i \in 1 .. Len(seq), NEW v \in Good[i - 1] PROVE step[seq[i]][v] \in Good[i]
  <2>1. i - 1 \in Nat /\ i \in Nat
    BY <1>1
  <2>2. seq[i] \in 1 .. N - 1
    BY <1>1, ElementOfSeq
  <2>3. Full(v)
    BY <1>5, <2>1
  <2>4. Full(step[seq[i]][v])
    BY <2>2, <2>3, SwapFacts DEF step
  <2> QED
    BY <2>1, <2>4 DEF Full
<1> HIDE DEF Good
<1>6. Loops!Loop(step, init, seq) \in Good[Len(seq)]
  BY <1>1, <1>4, <1>5, LoopConstants, Loops!LoopInvariant
<1> QED
  BY <1>1, <1>3, <1>6 DEF Good

LEMMA FullOrder ==
  ASSUME NEW v, Full(v)
  PROVE  v \in Seq(Nodes) /\ Len(v) = N /\ ToSet(v) = Nodes
<1>1. v \in Seq(Nodes) /\ DOMAIN v = 1 .. N /\ Len(v) = N
  BY LenProperties DEF Full
<1> QED
  BY <1>1, ElementOfSeq DEF Full, ToSet

-----------------------------------------------------------------------------
\* The nearest of the candidates is one of them.
LEMMA NearestFacts ==
  ASSUME NEW p \in Nodes, NEW S \in SUBSET Nodes, S # {}
  PROVE  Nearest(p, S) \in S
<1> DEFINE off == Distance[p]
<1>1. S \in SUBSET Nat /\ \A i \in S : off[i] \in Nat
  BY DistanceType, Sizes
<1> HIDE DEF off
<1>2. \E i \in S : \A j \in S : off[i] < off[j] \/ (off[i] = off[j] /\ i <= j)
  BY <1>1, LoopConstants, Loops!LeastOf, Zenon
<1> QED
  BY <1>2, Zenon DEF Nearest, off

\* A list with an element more.
LEMMA OneMore ==
  ASSUME NEW s \in Seq(Nodes), NoRepeats(s), NEW n \in Nodes, n \notin ToSet(s)
  PROVE  LET t == Append(s, n) IN
         /\ t \in Seq(Nodes) /\ Len(t) = Len(s) + 1 /\ t # <<>>
         /\ NoRepeats(t) /\ ToSet(t) = ToSet(s) \cup {n}
<1> DEFINE t == Append(s, n)
<1>1. /\ t \in Seq(Nodes) /\ t # <<>> /\ Len(t) = Len(s) + 1
      /\ \A i \in 1 .. Len(s) : t[i] = s[i]
      /\ t[Len(s) + 1] = n
  BY AppendProperties
<1> HIDE DEF t
<1>2. Len(s) \in Nat /\ DOMAIN s = 1 .. Len(s) /\ DOMAIN t = 1 .. Len(s) + 1
  BY <1>1, LenProperties
<1>3. ToSet(t) = ToSet(s) \cup {n}
  BY <1>1, <1>2 DEF ToSet
<1>4. \A i \in DOMAIN s : s[i] # n
  BY DEF ToSet
<1>5. NoRepeats(t)
  BY <1>1, <1>2, <1>4 DEF NoRepeats
<1> QED
  BY <1>1, <1>3, <1>5 DEF t

\* What pruning yields: up to R of the candidates, each once and never the node
\* itself, and one at least of them if there is any.
Prunes(out, p, cand) ==
  /\ out \in Seq(Nodes) /\ Len(out) <= R
  /\ NoRepeats(out) /\ ToSet(out) \subseteq cand \ {p}
  /\ cand \ {p} # {} => out # <<>>

\* It does so whatever the candidates, the distances and alpha.
THEOREM RobustPruneFacts ==
  ASSUME NEW p \in Nodes, NEW cand \in SUBSET Nodes, NEW alpha
  PROVE  Prunes(RobustPrune(p, cand, alpha), p, cand)
<1> DEFINE C == cand \ {p}
           init == [kept |-> <<>>, alive |-> C]
           seq == [i \in 1 .. R |-> i]
           step == [i \in 1 .. R |-> KeepNearest(p, alpha)]
           Fine(s, i) == /\ s \in Pruning
                         /\ Len(s.kept) <= i /\ NoRepeats(s.kept)
                         /\ ToSet(s.kept) \subseteq C /\ s.alive \subseteq C
                         /\ \A n \in s.alive : n \notin ToSet(s.kept)
                         /\ i = 0 => s.alive = C
                         /\ i >= 1 /\ C # {} => s.kept # <<>>
           Good == [i \in Nat |-> {s \in Pruning : Fine(s, i)}]
<1>1. seq \in Seq(1 .. R) /\ Len(seq) = R /\ R \in Nat /\ R >= 1
  <2>1. seq \in [1 .. R -> 1 .. R] /\ R \in Nat /\ R >= 1
    BY Sizes
  <2> HIDE DEF seq
  <2> QED
    BY <2>1, LoopConstants, Loops!SeqOfFunction
<1>2. C \subseteq Nodes
  OBVIOUS
<1>3. RobustPrune(p, cand, alpha) = Loops!Loop(step, init, seq).kept
  BY SameLoop, Zenon DEF RobustPrune
<1> HIDE DEF seq, C
<1>4. Fine(init, 0)
  <2>1. <<>> \in Seq(Nodes) /\ Len(<<>>) = 0 /\ DOMAIN <<>> = {}
    BY EmptySeq
  <2>2. init \in Pruning
    BY <1>2, <2>1 DEF Pruning
  <2>3. NoRepeats(<<>>) /\ ToSet(<<>>) = {}
    BY <2>1 DEF NoRepeats, ToSet
  <2> QED
    BY <2>1, <2>2, <2>3
<1>5. ASSUME NEW k \in 1 .. R, NEW i \in Nat, i >= 1, NEW s, Fine(s, i - 1)
      PROVE  Fine(step[k][s], i)
  <2> DEFINE n == Nearest(p, s.alive)
             t == [kept  |-> Append(s.kept, n),
                   alive |-> {c \in s.alive \ {n} : ~ Occludes(n, c, p, alpha)}]
             kept == Append(s.kept, n)
             alive == {c \in s.alive \ {n} : ~ Occludes(n, c, p, alpha)}
  <2>1. s \in Pruning /\ s.kept \in Seq(Nodes) /\ s.alive \in SUBSET Nodes /\ Len(s.kept) \in Nat
    BY <1>5, LenProperties DEF Pruning
  <2>2. step[k][s] = IF s.alive = {} THEN s ELSE t
    BY <2>1, Zenon DEF KeepNearest
  <2>3. CASE s.alive = {}
    <3>1. step[k][s] = s
      BY <2>2, <2>3
    <3>2. i - 1 = 0 => C = {}
      BY <1>5, <2>3
    <3>3. C # {} => s.kept # <<>>
      BY <1>5, <3>2
    <3>4. Len(s.kept) <= i
      BY <1>5, <2>1
    <3> QED
      BY <1>5, <3>1, <3>3, <3>4
  <2>4. CASE s.alive # {}
    <3>1. n \in s.alive
      BY <2>1, <2>4, NearestFacts
    <3> HIDE DEF n
    <3>2. n \in Nodes /\ n \notin ToSet(s.kept) /\ n \in C
      BY <1>5, <2>1, <3>1
    <3>3. /\ kept \in Seq(Nodes) /\ Len(kept) = Len(s.kept) + 1 /\ kept # <<>>
          /\ NoRepeats(kept) /\ ToSet(kept) = ToSet(s.kept) \cup {n}
      BY <1>5, <2>1, <3>2, OneMore
    <3>4. alive \subseteq s.alive /\ n \notin alive
      OBVIOUS
    <3>5. step[k][s] = t /\ t.kept = kept /\ t.alive = alive
      BY <2>2, <2>4
    <3> HIDE DEF kept, alive
    <3>6. t \in Pruning
      BY <2>1, <3>3, <3>4, <3>5 DEF Pruning, kept, alive
    <3>7. Len(kept) <= i
      BY <1>5, <2>1, <3>3
    <3> HIDE DEF t
    <3>8. ToSet(kept) \subseteq C /\ alive \subseteq C /\ \A m \in alive : m \notin ToSet(kept)
      BY <1>5, <3>2, <3>3, <3>4
    <3> QED
      BY <1>5, <3>3, <3>5, <3>6, <3>7, <3>8
  <2> QED
    BY <2>3, <2>4
<1> HIDE DEF init, step
<1>6. init \in Good[0]
  BY <1>4
<1>7. ASSUME NEW i \in 1 .. Len(seq), NEW s \in Good[i - 1] PROVE step[seq[i]][s] \in Good[i]
  <2>1. i - 1 \in Nat /\ i \in Nat /\ i >= 1
    BY <1>1
  <2>2. seq[i] \in 1 .. R
    BY <1>1, ElementOfSeq
  <2>3. Fine(s, i - 1)
    BY <1>7, <2>1
  <2> HIDE DEF Fine
  <2>4. Fine(step[seq[i]][s], i)
    BY <1>5, <2>1, <2>2, <2>3
  <2>5. step[seq[i]][s] \in Pruning
    BY <2>4 DEF Fine
  <2> QED
    BY <2>1, <2>4, <2>5
<1> HIDE DEF Good
<1>8. Loops!Loop(step, init, seq) \in Good[Len(seq)]
  BY <1>1, <1>6, <1>7, LoopConstants, Loops!LoopInvariant
<1> DEFINE s == Loops!Loop(step, init, seq)
<1> HIDE DEF s, Fine
<1>9. Fine(s, R)
  BY <1>1, <1>8 DEF Good, s
<1>10. RobustPrune(p, cand, alpha) = s.kept
  BY <1>3 DEF s
<1>11. s.kept \in Seq(Nodes)
  BY <1>9 DEF Fine, Pruning
<1> QED
  BY <1>1, <1>9, <1>10, <1>11 DEF Prunes, Fine, C

\* A list that names nothing twice has as many elements as places.
LEMMA CardOfList ==
  ASSUME NEW s \in Seq(Nodes), NoRepeats(s)
  PROVE  Cardinality(ToSet(s)) = Len(s)
<1>1. Len(s) \in Nat /\ DOMAIN s = 1 .. Len(s) /\ s \in [1 .. Len(s) -> Nodes]
  BY LenProperties
<1> DEFINE A == 1 .. Len(s)
           B == ToSet(s)
<1>2. IsFiniteSet(A) /\ Cardinality(A) = Len(s)
  <2>1. /\ IsFiniteSet(1 .. Len(s))
        /\ Cardinality(1 .. Len(s)) = IF 1 > Len(s) THEN 0 ELSE Len(s) - 1 + 1
    BY <1>1, FS_Interval
  <2> QED
    BY <1>1, <2>1
<1>3. s \in [A -> B] /\ \A b \in B : \E a \in A : s[a] = b
  BY <1>1 DEF ToSet
<1>4. \A a, b \in A : s[a] = s[b] => a = b
  BY <1>1 DEF NoRepeats
<1> HIDE DEF A, B
<1>5. ExistsBijection(A, B)
  BY <1>3, <1>4 DEF ExistsBijection, Bijection, Injection, IsInjective, Surjection
<1> QED
  BY <1>2, <1>5, FS_Bijection DEF B

-----------------------------------------------------------------------------
\* The chunks of an order hold its nodes, and every node is in one of them.
THEOREM ChunkFacts ==
  ASSUME NEW v, Full(v)
  PROVE  /\ \A c \in Chunks : Chunk(v, c) \in Seq(Nodes)
         /\ \A n \in Nodes : \E c \in Chunks : n \in ToSet(Chunk(v, c))
<1> DEFINE lo(c) == (c - 1) * ChunkSize + 1
           hi(c) == IF c * ChunkSize < Len(v) THEN c * ChunkSize ELSE Len(v)
<1>1. v \in Seq(Nodes) /\ Len(v) = N /\ \A i \in 1 .. N : v[i] \in Nodes
  BY ElementOfSeq DEF Full
<1>2. N \in Nat /\ ChunkSize \in Nat \ {0} /\ NumChunks \in Nat /\ N <= NumChunks * ChunkSize
  <2> DEFINE a == N + ChunkSize - 1
  <2>1. N \in Nat /\ ChunkSize \in Nat \ {0} /\ a \in Nat /\ NumChunks = a \div ChunkSize
    BY Sizes DEF NumChunks, N
  <2> HIDE DEF a
  <2>2. /\ NumChunks \in Nat /\ (a % ChunkSize) \in Nat /\ (a % ChunkSize) < ChunkSize
        /\ a = NumChunks * ChunkSize + (a % ChunkSize)
    BY <2>1, LoopConstants, Loops!DivisionLaw
  <2>3. NumChunks * ChunkSize \in Nat
    BY <2>1, <2>2
  <2> QED
    BY <2>1, <2>2, <2>3 DEF a
<1>3. ASSUME NEW c \in Chunks
      PROVE  /\ lo(c) \in Int /\ hi(c) \in Int /\ lo(c) >= 1 /\ hi(c) <= N
             /\ Chunk(v, c) = SubSeq(v, lo(c), hi(c))
  <2>1. c \in Nat /\ c - 1 \in Nat
    BY <1>2 DEF Chunks
  <2>2. (c - 1) * ChunkSize \in Nat /\ c * ChunkSize \in Nat
    BY <1>2, <2>1
  <2>3. Chunk(v, c) = SubSeq(v, lo(c), hi(c))
    BY Zenon DEF Chunk
  <2> QED
    BY <1>1, <1>2, <2>2, <2>3
<1>4. ASSUME NEW c \in Chunks
      PROVE  /\ Chunk(v, c) \in Seq(Nodes)
             /\ \A i \in lo(c) .. hi(c) : v[i] \in ToSet(Chunk(v, c))
  <2> DEFINE m == lo(c)
             n == hi(c)
             t == SubSeq(v, m, n)
  <2>1. m \in Int /\ n \in Int /\ m >= 1 /\ n <= N /\ Chunk(v, c) = t
    BY <1>3
  <2> HIDE DEF m, n
  <2>2. \A i \in m .. n : v[i] \in Nodes
    BY <1>1, <1>2, <2>1
  <2>3. /\ t \in Seq(Nodes)
        /\ Len(t) = IF m <= n THEN n - m + 1 ELSE 0
        /\ \A i \in 1 .. n - m + 1 : t[i] = v[m + i - 1]
    BY <2>1, <2>2, SubSeqProperties
  <2> HIDE DEF t
  <2>4. ASSUME NEW i \in m .. n PROVE v[i] \in ToSet(t)
    <3> DEFINE k == i - m + 1
    <3>1. k \in 1 .. n - m + 1 /\ m + k - 1 = i /\ m <= n
      BY <2>1
    <3> HIDE DEF k
    <3>2. t[k] = v[i] /\ k \in 1 .. Len(t)
      BY <2>1, <2>3, <3>1
    <3>3. DOMAIN t = 1 .. Len(t)
      BY <2>3, LenProperties
    <3> QED
      BY <3>2, <3>3 DEF ToSet
  <2> QED
    BY <2>1, <2>3, <2>4 DEF m, n
<1>5. ASSUME NEW i \in 1 .. N PROVE \E c \in Chunks : i \in lo(c) .. hi(c)
  <2> DEFINE q == (i - 1) \div ChunkSize
             r == (i - 1) % ChunkSize
             c == q + 1
  <2>1. i - 1 \in Nat /\ i <= N
    BY <1>2
  <2>2. q \in Nat /\ r \in Nat /\ i - 1 = q * ChunkSize + r /\ r < ChunkSize
    BY <1>2, <2>1, LoopConstants, Loops!DivisionLaw
  <2> HIDE DEF q, r
  <2>3. q * ChunkSize \in Nat /\ (q + 1) * ChunkSize = q * ChunkSize + ChunkSize
    BY <1>2, <2>2
  <2>4. i >= q * ChunkSize + 1 /\ i <= (q + 1) * ChunkSize
    BY <1>2, <2>2, <2>3
  <2>5. q + 1 <= NumChunks
    <3> SUFFICES ASSUME NumChunks <= q PROVE FALSE
      BY <1>2, <2>2
    <3>1. NumChunks * ChunkSize <= q * ChunkSize
      BY <1>2, <2>2, LoopConstants, Loops!TimesMonotone
    <3>2. NumChunks * ChunkSize \in Nat
      BY <1>2
    <3> QED
      BY <1>2, <2>1, <2>3, <2>4, <3>1, <3>2
  <2>6. c \in Chunks
    BY <1>2, <2>2, <2>5 DEF Chunks
  <2>7. lo(c) = q * ChunkSize + 1 /\ hi(c) = IF (q + 1) * ChunkSize < N THEN (q + 1) * ChunkSize ELSE N
    BY <1>1, <2>2
  <2>8. lo(c) \in Int /\ hi(c) \in Int /\ i \in Int /\ i >= lo(c) /\ i <= hi(c)
    BY <1>2, <2>1, <2>2, <2>3, <2>4, <2>7
  <2> HIDE DEF c, lo, hi
  <2>9. i \in lo(c) .. hi(c)
    BY <2>8
  <2> QED
    BY <2>6, <2>9
<1> HIDE DEF lo, hi
<1>6. ASSUME NEW n \in Nodes PROVE \E c \in Chunks : n \in ToSet(Chunk(v, c))
  <2>1. PICK i \in 1 .. N : v[i] = n
    BY DEF Full
  <2>2. PICK c \in Chunks : i \in lo(c) .. hi(c)
    BY <1>5
  <2> QED
    BY <1>4, <2>1, <2>2
<1> QED
  BY <1>4, <1>6

-----------------------------------------------------------------------------
\* A list that is tidy stays so with the edge back.
LEMMA PrunedIsTidy ==
  ASSUME NEW out, NEW p, NEW cand, Prunes(out, p, cand)
  PROVE  out \in Seq(Nodes) /\ Tidy(out, p)
BY DEF Prunes, Tidy

LEMMA ToSetType ==
  ASSUME NEW s \in Seq(Nodes)
  PROVE  ToSet(s) \in SUBSET Nodes
BY LenProperties, ElementOfSeq DEF ToSet

LEMMA LinkedFacts ==
  ASSUME NEW nb \in Nodes, NEW p \in Nodes, p # nb, NEW list \in Seq(Nodes), Tidy(list, nb)
  PROVE  /\ Linked(list, nb, p) \in Seq(Nodes) /\ Linked(list, nb, p) # <<>>
         /\ Tidy(Linked(list, nb, p), nb)
<1>1. list \in Seq(Nodes) /\ Len(list) \in Nat /\ Len(list) <= R /\ R \in Nat
  BY Sizes, LenProperties DEF Tidy
<1>2. Contains(list, p) <=> p \in ToSet(list)
  BY DEF Contains, ToSet
<1>3. CASE Contains(list, p)
  <2>1. list # <<>>
    <3>1. PICK i \in DOMAIN list : list[i] = p
      BY <1>2, <1>3 DEF ToSet
    <3>2. DOMAIN list = 1 .. Len(list)
      BY <1>1, LenProperties
    <3>3. Len(list) # 0
      BY <1>1, <3>1, <3>2
    <3> QED
      BY <3>3, EmptySeq
  <2> QED
    BY <1>3, <2>1 DEF Linked
<1>4. CASE ~ Contains(list, p) /\ Len(list) < R
  <2> DEFINE t == Append(list, p)
  <2>1. /\ t \in Seq(Nodes) /\ Len(t) = Len(list) + 1 /\ t # <<>>
        /\ NoRepeats(t) /\ ToSet(t) = ToSet(list) \cup {p}
    BY <1>1, <1>2, <1>4, OneMore DEF Tidy
  <2> HIDE DEF t
  <2>2. Linked(list, nb, p) = t
    BY <1>4 DEF Linked, t
  <2>3. Len(t) <= R
    BY <1>1, <1>4, <2>1
  <2> QED
    BY <2>1, <2>2, <2>3 DEF Tidy
<1>5. CASE ~ Contains(list, p) /\ ~ (Len(list) < R)
  <2> DEFINE cand == ToSet(list) \cup {p}
             out == RobustPrune(nb, cand, Alphas[pass])
  <2>1. cand \in SUBSET Nodes /\ cand \ {nb} # {}
    BY <1>1, ToSetType
  <2> HIDE DEF cand
  <2>2. Prunes(out, nb, cand)
    BY <2>1, RobustPruneFacts
  <2>3. Linked(list, nb, p) = out
    BY <1>5 DEF Linked, cand
  <2> HIDE DEF out
  <2> QED
    BY <2>1, <2>2, <2>3, PrunedIsTidy DEF Prunes
<1> QED
  BY <1>3, <1>4, <1>5

-----------------------------------------------------------------------------
\* Where the nodes that a chunk works at are.
LEMMA AtWork ==
  ASSUME TypeOK, NEW c \in Chunks, todo[c] # <<>>
  PROVE  Head(todo[c]) \in Nodes /\ Tail(todo[c]) \in Seq(Nodes)
BY HeadTailProperties DEF TypeOK

\* The lists of a pass's order, as they begin it.
LEMMA OrderFacts ==
  ASSUME TypeOK, NEW q \in Passes
  PROVE  Full(orders[q])
<1>1. orders[q] \in Seq(Nodes) /\ Len(orders[q]) = N /\ ToSet(orders[q]) = Nodes
  BY DEF TypeOK, N
<1>2. DOMAIN orders[q] = 1 .. N
  BY <1>1, LenProperties
<1> QED
  BY <1>1, <1>2 DEF Full, ToSet

LEMMA PassFacts == Passes = 1 .. Len(Alphas) /\ Len(Alphas) \in Nat /\ 1 \in Passes
<1>1. Alphas \in Seq((Nat \ {0}) \X (Nat \ {0})) /\ Len(Alphas) >= 1
  BY BuildAssumption
<1>2. Passes = 1 .. Len(Alphas) /\ Len(Alphas) \in Nat
  BY <1>1, LenProperties DEF Passes
<1> QED
  BY <1>1, <1>2

-----------------------------------------------------------------------------
LEMMA InitHolds == Init => IndInv
<1> SUFFICES ASSUME Init PROVE IndInv
  OBVIOUS
<1>1. <<>> \in Seq(Nodes) /\ Len(<<>>) = 0 /\ DOMAIN <<>> = {} /\ 0 <= R /\ ToSet(<<>>) = {}
  BY EmptySeq, Sizes DEF ToSet
<1>2. \A q \in Passes : Full(orders[q])
  <2> TAKE q \in Passes
  <2>1. PICK draw \in Draws : orders[q] = Permutation(draw)
    BY DEF Init, Orders
  <2> QED
    BY <2>1, PermutationFacts
<1>3. Full(orders[1])
  BY <1>2, PassFacts
<1>4. todo = [c \in Chunks |-> Chunk(orders[1], c)] /\ \A c \in Chunks : Chunk(orders[1], c) \in Seq(Nodes)
  BY <1>3, ChunkFacts DEF Init
<1>5. TypeOK
  <2>1. orders \in [Passes -> Seq(Nodes)]
    <3>1. orders = [q \in Passes |-> orders[q]]
      BY DEF Init
    <3> QED
      BY <1>2, <3>1 DEF Full
  <2>2. \A q \in Passes : Len(orders[q]) = Cardinality(Nodes) /\ ToSet(orders[q]) = Nodes
    BY <1>2, FullOrder DEF N
  <2>3. pass \in Passes \cup {Len(Alphas) + 1}
    BY PassFacts DEF Init
  <2>4. adj \in [Nodes -> Seq(Nodes)] /\ chosen \in [Chunks -> Seq(Nodes)]
    BY <1>1 DEF Init
  <2>5. todo \in [Chunks -> Seq(Nodes)]
    BY <1>4
  <2>6. beam \in [Chunks -> BeamState]
    BY NoneSearched DEF Init
  <2>7. pc \in [Chunks -> {"insert", "search", "write", "reverse", "link", "done"}]
    BY DEF Init
  <2>8. guards \in [Chunks -> SUBSET Nodes]
    BY DEF Init
  <2>9. \A c \in Chunks : Len(chosen[c]) <= R
    BY <1>1 DEF Init
  <2> QED
    BY <2>1, <2>2, <2>3, <2>4, <2>5, <2>6, <2>7, <2>8, <2>9 DEF TypeOK, BeamState
<1>6. \A c \in Chunks : pc[c] = "insert"
  BY DEF Init
<1>7. Inserting /\ Entered /\ Chosen
  BY <1>6 DEF Inserting, Entered, Chosen
<1>8. ListsTidy
  <2>1. \A n \in Nodes : adj[n] = <<>>
    BY DEF Init
  <2>2. \A n \in Nodes : Tidy(<<>>, n)
    BY <1>1 DEF Tidy, NoRepeats
  <2> QED
    BY <2>1, <2>2 DEF ListsTidy
<1>9. NeverOrphaned
  <2>1. pass = 1
    BY DEF Init
  <2>2. \A n \in Nodes : ~ InsertedBefore(n)
    BY <1>4, <1>6, <2>1 DEF InsertedBefore
  <2> QED
    BY <2>2 DEF NeverOrphaned
<1> QED
  BY <1>5, <1>7, <1>8, <1>9 DEF IndInv

-----------------------------------------------------------------------------
\* A step that leaves the lists alone orphans no one, if none is inserted by it.
LEMMA NoneOrphaned ==
  ASSUME NeverOrphaned, UNCHANGED <<orders, pass, todo>>,
         \A n \in Nodes : adj[n] # <<>> => adj'[n] # <<>>,
         \A d \in Chunks : pc'[d] \in {"reverse", "link"} => pc[d] \in {"reverse", "link"}
  PROVE  NeverOrphaned'
<1>1. \A n \in Nodes : InsertedBefore(n)' => InsertedBefore(n)
  BY DEF InsertedBefore
<1> QED
  BY <1>1 DEF NeverOrphaned

LEMMA InsertKeeps ==
  ASSUME IndInv, NEW c \in Chunks, Insert(c)
  PROVE  IndInv'
<1> DEFINE p == Head(todo[c])
<1>1. TypeOK /\ p \in Nodes /\ todo[c] # <<>>
  BY AtWork DEF IndInv, Insert
<1> PICK seed \in Seq(Beams!Cand) : /\ seed = Beams!SearchSeed(Distance[p]).pool
                                   /\ Len(seed) = 1 /\ seed[1].id = Medoid /\ ~ seed[1].expanded
  BY <1>1, SeedFacts
<1> PICK b \in BeamState : b = [visited |-> {Medoid}, expanded |-> {}, pool |-> seed]
  <2>1. [visited |-> {Medoid}, expanded |-> {}, pool |-> seed] \in BeamState
    BY MedoidType DEF BeamState
  <2> QED
    BY <2>1
<1>2. /\ beam' = [beam EXCEPT ![c] = b]
      /\ pc' = [pc EXCEPT ![c] = "search"]
      /\ UNCHANGED <<orders, pass, adj, todo, chosen, guards>>
  BY Zenon DEF Insert
<1>3. /\ \A d \in Chunks : d # c => pc'[d] = pc[d] /\ beam'[d] = beam[d]
      /\ pc'[c] = "search" /\ beam'[c] = b
  BY <1>1, <1>2 DEF TypeOK
<1>4. TypeOK'
  <2>1. beam' \in [Chunks -> BeamState]
    BY <1>1, <1>2 DEF TypeOK, BeamState
  <2>2. pc' \in [Chunks -> {"insert", "search", "write", "reverse", "link", "done"}]
    BY <1>1, <1>2 DEF TypeOK
  <2> QED
    BY <1>1, <1>2, <2>1, <2>2 DEF TypeOK, BeamState
<1>5. Inserting'
  BY <1>1, <1>2, <1>3 DEF IndInv, Inserting
<1>6. Entered'
  BY <1>3 DEF IndInv, Entered
<1>7. Chosen' /\ ListsTidy'
  BY <1>2, <1>3 DEF IndInv, Chosen, ListsTidy
<1>8. NeverOrphaned'
  BY <1>2, <1>3, NoneOrphaned DEF IndInv
<1> QED
  BY <1>4, <1>5, <1>6, <1>7, <1>8 DEF IndInv

LEMMA ExpandKeeps ==
  ASSUME IndInv, NEW c \in Chunks, Expand(c)
  PROVE  IndInv'
<1> DEFINE p == Head(todo[c])
           front == Beams!Frontier(beam[c].pool)
           next == Beams!Integrate(beam[c].visited, Beams!MarkExpanded(beam[c].pool),
                                   Distance[p], adj[Head(front)])
<1>1. TypeOK /\ pc[c] = "search" /\ front # <<>>
  BY Zenon DEF IndInv, Expand
<1>2. todo[c] # <<>> /\ p \in Nodes /\ beam[c] \in BeamState
  BY <1>1, AtWork DEF IndInv, Inserting, TypeOK, BeamState
<1>3. front \in Seq(Nodes)
  <2>1. <<>> \in Seq(Nodes)
    BY EmptySeq
  <2> QED
    BY <1>2, <2>1, ExpandFacts
<1>4. Head(front) \in Nodes
  BY <1>1, <1>3, HeadTailProperties
<1>5. adj[Head(front)] \in Seq(Nodes)
  BY <1>1, <1>4 DEF TypeOK
<1>6. next.visited \subseteq Nodes /\ next.pool \in Seq(Beams!Cand)
  BY <1>2, <1>5, ExpandFacts
<1> PICK b \in BeamState : b = [visited |-> next.visited, pool |-> next.pool,
                                expanded |-> beam[c].expanded \cup {Head(front)}]
  <2> HIDE DEF next, front
  <2>1. [visited |-> next.visited, pool |-> next.pool,
         expanded |-> beam[c].expanded \cup {Head(front)}] \in BeamState
    BY <1>2, <1>4, <1>6 DEF BeamState
  <2> QED
    BY <2>1
<1>7. beam' = [beam EXCEPT ![c] = b] /\ UNCHANGED <<orders, pass, adj, pc, todo, chosen, guards>>
  BY Zenon DEF Expand
<1>8. b.expanded = beam[c].expanded \cup {Head(front)}
  OBVIOUS
<1> HIDE DEF front, next
<1>9. /\ \A d \in Chunks : d # c => beam'[d] = beam[d]
      /\ beam'[c] = b
  BY <1>1, <1>7 DEF TypeOK
<1>10. TypeOK'
  <2>1. beam' \in [Chunks -> BeamState]
    BY <1>1, <1>7 DEF TypeOK, BeamState
  <2> QED
    BY <1>1, <1>7, <2>1 DEF TypeOK, BeamState
<1>11. Medoid \in b.expanded
  <2>1. CASE Medoid \in beam[c].expanded
    BY <1>8, <2>1
  <2>2. CASE /\ Len(beam[c].pool) = 1
             /\ beam[c].pool[1].id = Medoid /\ ~ beam[c].pool[1].expanded
    <3>1. beam[c].pool \in Seq(Beams!Cand)
      BY <1>2 DEF BeamState
    <3>2. Head(front) = Medoid
      BY <2>2, <3>1, EntryFirst DEF front
    <3> QED
      BY <1>8, <3>2
  <2> QED
    BY <1>1, <2>1, <2>2 DEF IndInv, Entered
<1>12. Entered'
  BY <1>7, <1>9, <1>11 DEF IndInv, Entered
<1>13. Inserting' /\ Chosen' /\ ListsTidy'
  BY <1>7 DEF IndInv, Inserting, Chosen, ListsTidy
<1>14. NeverOrphaned'
  BY <1>7, NoneOrphaned DEF IndInv
<1> QED
  BY <1>10, <1>12, <1>13, <1>14 DEF IndInv

LEMMA ReadOwnKeeps ==
  ASSUME IndInv, NEW c \in Chunks, ReadOwn(c)
  PROVE  IndInv'
<1> DEFINE p == Head(todo[c])
           cand == beam[c].expanded \cup ToSet(adj[p])
<1>1. TypeOK /\ pc[c] = "search" /\ Beams!Frontier(beam[c].pool) = <<>>
  BY Zenon DEF IndInv, ReadOwn
<1>2. todo[c] # <<>> /\ p \in Nodes /\ beam[c] \in BeamState
  BY <1>1, AtWork DEF IndInv, Inserting, TypeOK, BeamState
<1>3. cand \in SUBSET Nodes /\ beam[c].expanded \subseteq cand
  <2>1. adj[p] \in Seq(Nodes)
    BY <1>1, <1>2 DEF TypeOK
  <2>2. ToSet(adj[p]) \in SUBSET Nodes
    BY <2>1, ToSetType
  <2> QED
    BY <1>2, <2>2 DEF BeamState
<1>4. Medoid \in cand
  <2>1. ~ (/\ Len(beam[c].pool) = 1
           /\ beam[c].pool[1].id = Medoid /\ ~ beam[c].pool[1].expanded)
    <3>1. beam[c].pool \in Seq(Beams!Cand)
      BY <1>2 DEF BeamState
    <3> QED
      BY <1>1, <3>1, EntryFirst
  <2> QED
    BY <1>1, <1>3, <2>1 DEF IndInv, Entered
<1> PICK out \in Seq(Nodes) : out = RobustPrune(p, cand, Alphas[pass]) /\ Prunes(out, p, cand)
  <2> HIDE DEF cand
  <2>1. Prunes(RobustPrune(p, cand, Alphas[pass]), p, cand)
    BY <1>2, <1>3, RobustPruneFacts
  <2> QED
    BY <2>1 DEF Prunes
<1>5. /\ chosen' = [chosen EXCEPT ![c] = out]
      /\ beam' = [beam EXCEPT ![c] = NoBeam]
      /\ pc' = [pc EXCEPT ![c] = "write"]
      /\ UNCHANGED <<orders, pass, adj, todo, guards>>
  BY Zenon DEF ReadOwn
<1>6. Tidy(out, p) /\ (p # Medoid => out # <<>>)
  BY <1>4, PrunedIsTidy DEF Prunes
<1> HIDE DEF cand
<1>7. /\ \A d \in Chunks : d # c => pc'[d] = pc[d] /\ beam'[d] = beam[d] /\ chosen'[d] = chosen[d]
      /\ pc'[c] = "write" /\ chosen'[c] = out
  BY <1>1, <1>5 DEF TypeOK
<1>8. TypeOK'
  <2>1. beam' \in [Chunks -> BeamState]
    BY <1>1, <1>5, NoneSearched DEF TypeOK, BeamState
  <2>2. pc' \in [Chunks -> {"insert", "search", "write", "reverse", "link", "done"}]
    BY <1>1, <1>5 DEF TypeOK
  <2>3. chosen' \in [Chunks -> Seq(Nodes)]
    BY <1>1, <1>5 DEF TypeOK
  <2>4. \A d \in Chunks : Len(chosen'[d]) <= R
    BY <1>1, <1>6, <1>7 DEF TypeOK, Tidy
  <2> QED
    BY <1>1, <1>5, <2>1, <2>2, <2>3, <2>4 DEF TypeOK, BeamState
<1>9. Inserting'
  BY <1>1, <1>2, <1>5, <1>7 DEF IndInv, Inserting
<1>10. Entered'
  BY <1>7 DEF IndInv, Entered
<1>11. Chosen'
  BY <1>5, <1>6, <1>7 DEF IndInv, Chosen, Tidy
<1>12. ListsTidy'
  BY <1>5 DEF IndInv, ListsTidy
<1>13. NeverOrphaned'
  BY <1>5, <1>7, NoneOrphaned DEF IndInv
<1> QED
  BY <1>8, <1>9, <1>10, <1>11, <1>12, <1>13 DEF IndInv

LEMMA WriteOwnKeeps ==
  ASSUME IndInv, NEW c \in Chunks, WriteOwn(c)
  PROVE  IndInv'
<1> DEFINE p == Head(todo[c])
<1>1. /\ TypeOK /\ pc[c] = "write"
      /\ adj' = [adj EXCEPT ![p] = chosen[c]]
      /\ pc' = [pc EXCEPT ![c] = "reverse"]
      /\ UNCHANGED <<orders, pass, todo, beam, chosen, guards>>
  BY Zenon DEF IndInv, WriteOwn
<1>2. todo[c] # <<>> /\ p \in Nodes /\ chosen[c] \in Seq(Nodes) /\ Len(chosen[c]) <= R
  BY <1>1, AtWork DEF IndInv, Inserting, TypeOK
<1>3. Tidy(chosen[c], p) /\ (p # Medoid => chosen[c] # <<>>)
  BY <1>1, <1>2 DEF IndInv, Chosen, Tidy
<1>4. /\ \A d \in Chunks : d # c => pc'[d] = pc[d]
      /\ pc'[c] = "reverse"
      /\ \A n \in Nodes : n # p => adj'[n] = adj[n]
      /\ adj'[p] = chosen[c]
  BY <1>1, <1>2 DEF TypeOK
<1>5. TypeOK'
  <2>1. pc' \in [Chunks -> {"insert", "search", "write", "reverse", "link", "done"}]
    BY <1>1 DEF TypeOK
  <2>2. adj' \in [Nodes -> Seq(Nodes)]
    BY <1>1, <1>2 DEF TypeOK
  <2> QED
    BY <1>1, <2>1, <2>2 DEF TypeOK
<1>6. Inserting'
  BY <1>1, <1>2, <1>4 DEF IndInv, Inserting
<1>7. Entered' /\ Chosen'
  BY <1>1, <1>4 DEF IndInv, Entered, Chosen
<1>8. ListsTidy'
  BY <1>3, <1>4 DEF IndInv, ListsTidy
<1>9. NeverOrphaned'
  <2>1. ASSUME NEW n \in Nodes \ {Medoid}, InsertedBefore(n)' PROVE adj'[n] # <<>>
    <3>1. CASE n = p
      BY <1>3, <1>4, <3>1
    <3>2. CASE n # p
      <4>1. InsertedBefore(n)
        BY <1>1, <1>4, <2>1, <3>2 DEF InsertedBefore
      <4> QED
        BY <1>4, <3>2, <4>1 DEF IndInv, NeverOrphaned
    <3> QED
      BY <3>1, <3>2
  <2> QED
    BY <2>1 DEF NeverOrphaned
<1> QED
  BY <1>5, <1>6, <1>7, <1>8, <1>9 DEF IndInv

LEMMA LockBackKeeps ==
  ASSUME IndInv, NEW c \in Chunks, LockBack(c)
  PROVE  IndInv'
<1> DEFINE nb == Head(chosen[c])
<1>1. /\ TypeOK /\ pc[c] = "reverse" /\ chosen[c] # <<>>
      /\ guards' = [guards EXCEPT ![c] = @ \cup {nb}]
      /\ pc' = [pc EXCEPT ![c] = "link"]
      /\ UNCHANGED <<orders, pass, adj, todo, beam, chosen>>
  BY Zenon DEF IndInv, LockBack
<1>2. nb \in Nodes
  BY <1>1, HeadTailProperties DEF TypeOK
<1>3. /\ \A d \in Chunks : d # c => pc'[d] = pc[d]
      /\ pc'[c] = "link"
  BY <1>1 DEF TypeOK
<1>4. TypeOK'
  <2>1. pc' \in [Chunks -> {"insert", "search", "write", "reverse", "link", "done"}]
    BY <1>1 DEF TypeOK
  <2>2. guards' \in [Chunks -> SUBSET Nodes]
    BY <1>1, <1>2 DEF TypeOK
  <2> QED
    BY <1>1, <2>1, <2>2 DEF TypeOK
<1>5. Inserting' /\ Entered' /\ Chosen' /\ ListsTidy'
  BY <1>1, <1>3 DEF IndInv, Inserting, Entered, Chosen, ListsTidy
<1>6. NeverOrphaned'
  BY <1>1, <1>3, NoneOrphaned DEF IndInv
<1> QED
  BY <1>4, <1>5, <1>6 DEF IndInv

LEMMA LinkBackKeeps ==
  ASSUME IndInv, NEW c \in Chunks, LinkBack(c)
  PROVE  IndInv'
<1> DEFINE p == Head(todo[c])
           nb == Head(chosen[c])
<1>1. /\ TypeOK /\ pc[c] = "link"
      /\ adj' = [adj EXCEPT ![nb] = Linked(adj[nb], nb, p)]
      /\ chosen' = [chosen EXCEPT ![c] = Tail(chosen[c])]
      /\ guards' = [guards EXCEPT ![c] = {}]
      /\ pc' = [pc EXCEPT ![c] = "reverse"]
      /\ UNCHANGED <<orders, pass, todo, beam>>
  BY Zenon DEF IndInv, LinkBack
<1>2. todo[c] # <<>> /\ p \in Nodes /\ chosen[c] # <<>>
  BY <1>1, AtWork DEF IndInv, Inserting
<1>3. /\ chosen[c] \in Seq(Nodes) /\ nb \in Nodes
      /\ Tail(chosen[c]) \in Seq(Nodes)
      /\ Len(Tail(chosen[c])) = Len(chosen[c]) - 1
      /\ \A i \in 1 .. Len(Tail(chosen[c])) : Tail(chosen[c])[i] = chosen[c][i + 1]
  BY <1>1, <1>2, HeadTailProperties DEF TypeOK
<1> PICK rest \in Seq(Nodes) : rest = Tail(chosen[c])
  BY <1>3
<1>4. /\ Len(chosen[c]) \in Nat /\ Len(chosen[c]) >= 1 /\ Len(chosen[c]) <= R
      /\ Len(rest) = Len(chosen[c]) - 1
      /\ DOMAIN chosen[c] = 1 .. Len(chosen[c]) /\ DOMAIN rest = 1 .. Len(rest)
  BY <1>1, <1>2, <1>3, EmptySeq, LenProperties DEF TypeOK
<1>5. p # nb
  <2>1. nb \in ToSet(chosen[c])
    BY <1>2, <1>3, <1>4 DEF ToSet
  <2> QED
    BY <1>1, <2>1 DEF IndInv, Chosen
<1>6. NoRepeats(rest) /\ p \notin ToSet(rest) /\ Len(rest) <= R
  <2>1. NoRepeats(chosen[c]) /\ p \notin ToSet(chosen[c])
    BY <1>1 DEF IndInv, Chosen
  <2>2. \A i \in DOMAIN rest : i + 1 \in DOMAIN chosen[c] /\ rest[i] = chosen[c][i + 1]
    BY <1>3, <1>4
  <2>3. p \notin ToSet(rest)
    BY <2>1, <2>2 DEF ToSet
  <2>4. \A i, j \in DOMAIN rest : rest[i] = rest[j] => i + 1 = j + 1
    BY <2>1, <2>2 DEF NoRepeats
  <2>5. NoRepeats(rest)
    BY <1>4, <2>4 DEF NoRepeats
  <2>6. Len(rest) <= R
    BY <1>4, Sizes
  <2> QED
    BY <2>3, <2>5, <2>6
<1>7. adj[nb] \in Seq(Nodes) /\ Tidy(adj[nb], nb)
  BY <1>1, <1>3 DEF IndInv, TypeOK, ListsTidy
<1> PICK list \in Seq(Nodes) : /\ list = Linked(adj[nb], nb, p)
                               /\ Tidy(list, nb) /\ list # <<>>
  BY <1>2, <1>3, <1>5, <1>7, LinkedFacts
<1>8. /\ adj' = [adj EXCEPT ![nb] = list]
      /\ chosen' = [chosen EXCEPT ![c] = rest]
  BY <1>1
<1>9. /\ \A d \in Chunks : d # c => pc'[d] = pc[d] /\ chosen'[d] = chosen[d]
      /\ pc'[c] = "reverse" /\ chosen'[c] = rest
      /\ \A n \in Nodes : n # nb => adj'[n] = adj[n]
      /\ adj'[nb] = list
  BY <1>1, <1>3, <1>8 DEF TypeOK
<1> HIDE DEF nb
<1>10. TypeOK'
  <2>1. pc' \in [Chunks -> {"insert", "search", "write", "reverse", "link", "done"}]
    BY <1>1 DEF TypeOK
  <2>2. adj' \in [Nodes -> Seq(Nodes)]
    BY <1>1, <1>8 DEF TypeOK
  <2>3. chosen' \in [Chunks -> Seq(Nodes)] /\ guards' \in [Chunks -> SUBSET Nodes]
    BY <1>1, <1>8 DEF TypeOK
  <2>4. \A d \in Chunks : Len(chosen'[d]) <= R
    BY <1>1, <1>6, <1>9 DEF TypeOK
  <2> QED
    BY <1>1, <2>1, <2>2, <2>3, <2>4 DEF TypeOK
<1>11. Inserting'
  BY <1>1, <1>2, <1>9 DEF IndInv, Inserting
<1>12. Entered'
  BY <1>1, <1>9 DEF IndInv, Entered
<1>13. Chosen'
  BY <1>1, <1>6, <1>9 DEF IndInv, Chosen
<1>14. ListsTidy'
  BY <1>9 DEF IndInv, ListsTidy
<1>15. NeverOrphaned'
  BY <1>1, <1>9, NoneOrphaned DEF IndInv
<1> QED
  BY <1>10, <1>11, <1>12, <1>13, <1>14, <1>15 DEF IndInv

LEMMA InsertedKeeps ==
  ASSUME IndInv, NEW c \in Chunks, Inserted(c)
  PROVE  IndInv'
<1> DEFINE p == Head(todo[c])
<1>1. /\ TypeOK /\ pc[c] = "reverse"
      /\ todo' = [todo EXCEPT ![c] = Tail(todo[c])]
      /\ pc' = [pc EXCEPT ![c] = IF Len(todo[c]) = 1 THEN "done" ELSE "insert"]
      /\ UNCHANGED <<orders, pass, adj, beam, chosen, guards>>
  BY Zenon DEF IndInv, Inserted
<1>2. todo[c] # <<>> /\ todo[c] \in Seq(Nodes)
  BY <1>1 DEF IndInv, Inserting, TypeOK
<1>3. /\ Tail(todo[c]) \in Seq(Nodes)
      /\ Len(Tail(todo[c])) = Len(todo[c]) - 1
      /\ \A i \in 1 .. Len(Tail(todo[c])) : Tail(todo[c])[i] = todo[c][i + 1]
  BY <1>2, HeadTailProperties
<1> PICK rest \in Seq(Nodes) : rest = Tail(todo[c])
  BY <1>3
<1>4. /\ Len(todo[c]) \in Nat /\ Len(todo[c]) >= 1
      /\ Len(rest) = Len(todo[c]) - 1
      /\ DOMAIN todo[c] = 1 .. Len(todo[c]) /\ DOMAIN rest = 1 .. Len(rest)
  BY <1>2, <1>3, EmptySeq, LenProperties
<1>5. /\ \A d \in Chunks : d # c => pc'[d] = pc[d] /\ todo'[d] = todo[d]
      /\ pc'[c] = (IF Len(todo[c]) = 1 THEN "done" ELSE "insert") /\ todo'[c] = rest
  BY <1>1 DEF TypeOK
<1>6. Len(todo[c]) = 1 => rest = <<>>
  BY <1>4, EmptySeq
<1>7. TypeOK'
  <2>1. pc' \in [Chunks -> {"insert", "search", "write", "reverse", "link", "done"}]
    BY <1>1 DEF TypeOK
  <2>2. todo' \in [Chunks -> Seq(Nodes)]
    BY <1>1, <1>3 DEF TypeOK
  <2> QED
    BY <1>1, <2>1, <2>2 DEF TypeOK
<1>8. Inserting'
  <2>1. pc'[c] = "insert" \/ (pc'[c] = "done" /\ todo'[c] = <<>>)
    BY <1>5, <1>6
  <2>2. ASSUME NEW d \in Chunks, d # c
        PROVE  /\ pc'[d] \in {"search", "write", "reverse", "link"} => todo'[d] # <<>>
               /\ pc'[d] = "done" => todo'[d] = <<>>
               /\ pc'[d] = "link" => chosen'[d] # <<>>
    <3>1. pc'[d] = pc[d] /\ todo'[d] = todo[d] /\ chosen'[d] = chosen[d]
      BY <1>1, <1>5, <2>2
    <3> QED
      BY <3>1 DEF IndInv, Inserting
  <2> QED
    BY <2>1, <2>2 DEF Inserting
<1>9. Entered'
  BY <1>1, <1>5 DEF IndInv, Entered
<1>10. Chosen'
  BY <1>1, <1>5 DEF IndInv, Chosen
<1>11. ListsTidy'
  BY <1>1 DEF IndInv, ListsTidy
<1>12. NeverOrphaned'
  <2>1. ASSUME NEW n \in ToSet(todo[c]), n # p PROVE n \in ToSet(rest)
    <3>1. PICK i \in DOMAIN todo[c] : todo[c][i] = n
      BY <2>1 DEF ToSet
    <3>2. i # 1
      BY <1>2, <2>1, <3>1
    <3>3. i - 1 \in DOMAIN rest /\ rest[i - 1] = todo[c][i]
      BY <1>3, <1>4, <3>1, <3>2
    <3> QED
      BY <3>1, <3>3 DEF ToSet
  <2>2. \A n \in Nodes : InsertedBefore(n)' => InsertedBefore(n)
    BY <1>1, <1>5, <2>1 DEF InsertedBefore
  <2> QED
    BY <1>1, <2>2 DEF IndInv, NeverOrphaned
<1> QED
  BY <1>7, <1>8, <1>9, <1>10, <1>11, <1>12 DEF IndInv

\* Every node is inserted before the first pass ends.
LEMMA NextPassKeeps ==
  ASSUME IndInv, NextPass
  PROVE  IndInv'
<1>1. /\ TypeOK /\ pass \in Passes /\ pass' = pass + 1
      /\ \A c \in Chunks : pc[c] = "done"
      /\ UNCHANGED <<orders, adj, beam, chosen, guards>>
  BY Zenon DEF IndInv, NextPass
<1>2. pass \in Nat /\ pass >= 1
  BY <1>1, PassFacts
<1>3. \A c \in Chunks : todo[c] = <<>>
  BY <1>1 DEF IndInv, Inserting
<1>4. /\ todo' \in [Chunks -> Seq(Nodes)]
      /\ pc' \in [Chunks -> {"insert", "search", "write", "reverse", "link", "done"}]
      /\ \A c \in Chunks : \/ pc'[c] = "insert"
                           \/ pc'[c] = "done" /\ todo'[c] = <<>>
  <2>1. CASE pass + 1 \in Passes
    <3>1. /\ todo' = [c \in Chunks |-> Chunk(orders[pass + 1], c)]
          /\ pc' = [c \in Chunks |-> "insert"]
      BY <2>1 DEF NextPass
    <3>2. \A c \in Chunks : Chunk(orders[pass + 1], c) \in Seq(Nodes)
      BY <1>1, <2>1, OrderFacts, ChunkFacts
    <3> QED
      BY <3>1, <3>2
  <2>2. CASE pass + 1 \notin Passes
    BY <1>1, <1>3, <2>2 DEF NextPass, TypeOK
  <2> QED
    BY <2>1, <2>2
<1>5. TypeOK'
  <2>1. pass' \in Passes \cup {Len(Alphas) + 1}
    BY <1>1, PassFacts
  <2> QED
    BY <1>1, <1>4, <2>1 DEF TypeOK
<1>6. Inserting' /\ Entered' /\ Chosen'
  BY <1>4 DEF Inserting, Entered, Chosen
<1>7. ListsTidy'
  BY <1>1 DEF IndInv, ListsTidy
<1>8. \A n \in Nodes : InsertedBefore(n)
  <2> TAKE n \in Nodes
  <2>1. Full(orders[1])
    BY <1>1, OrderFacts, PassFacts
  <2>2. PICK c \in Chunks : n \in ToSet(Chunk(orders[1], c))
    BY <2>1, ChunkFacts
  <2>3. n \notin ToSet(todo[c])
    BY <1>3 DEF ToSet
  <2> QED
    BY <2>2, <2>3 DEF InsertedBefore
<1>9. NeverOrphaned'
  BY <1>1, <1>8 DEF IndInv, NeverOrphaned
<1> QED
  BY <1>5, <1>6, <1>7, <1>9 DEF IndInv

-----------------------------------------------------------------------------
\* What makes the properties inductive always holds, however the insertions of
\* a pass interleave.
THEOREM InvariantHolds == Spec => []IndInv
<1>1. IndInv /\ [Next]_vars => IndInv'
  <2> SUFFICES ASSUME IndInv, [Next]_vars PROVE IndInv'
    OBVIOUS
  <2>1. ASSUME NEW c \in Chunks, Work(c) PROVE IndInv'
    BY <2>1, InsertKeeps, ExpandKeeps, ReadOwnKeeps, WriteOwnKeeps, LockBackKeeps,
       LinkBackKeeps, InsertedKeeps DEF Work
  <2>2. CASE UNCHANGED vars
    BY <2>2 DEF vars, IndInv, TypeOK, Inserting, Entered, Chosen, ListsTidy,
       NeverOrphaned, InsertedBefore
  <2> QED
    BY <2>1, <2>2, NextPassKeeps DEF Next, Frozen
<1> QED
  BY <1>1, InitHolds, PTL DEF Spec

\* Every variable has its type, and each pass inserts every node once.
THEOREM TypeCorrect == Spec => []TypeOK
<1>1. IndInv => TypeOK
  BY DEF IndInv
<1> QED
  BY <1>1, InvariantHolds, PTL

\* No list outgrows R, links a node to itself or names a node twice.
THEOREM GraphStaysWellFormed == Spec => []GraphWellFormed
<1>1. IndInv => GraphWellFormed
  BY CardOfList DEF IndInv, TypeOK, ListsTidy, Tidy, GraphWellFormed
<1> QED
  BY <1>1, InvariantHolds, PTL

\* No insertion leaves a node that is in the graph without a neighbour.
THEOREM NobodyOrphaned == Spec => []NeverOrphaned
<1>1. IndInv => NeverOrphaned
  BY DEF IndInv
<1> QED
  BY <1>1, InvariantHolds, PTL

=============================================================================
