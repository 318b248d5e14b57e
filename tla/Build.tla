------------------------------- MODULE Build -------------------------------
(***************************************************************************)
(* Vamana construction (crates/nvvec-index/src/build.rs): two passes over  *)
(* the nodes, each cut into chunks that rayon runs in parallel, inserting  *)
(* its nodes one by one into adjacency lists shared under one lock each.   *)
(* Any number of chunks may be under way, which takes in every number of   *)
(* threads: a chunk no thread has taken yet is one that does not step.     *)
(*                                                                         *)
(* Each time an insertion reads or replaces a list is one action, for which *)
(* no other may hold the list for writing; the write lock a neighbour's    *)
(* list is updated under is state, as the code holds it while it prunes.   *)
(* Between its locks, other insertions read and write the lists it has     *)
(* read.  Its search of the graph is that of BeamSearch with a beam of one,*)
(* over lists that change as it goes.                                      *)
(***************************************************************************)
EXTENDS Vectors, SequencesExt

CONSTANTS
  Nodes,      \* 0 .. n - 1
  Base,       \* the point of each node
  R, L,       \* BuildParams.r and l_build
  Alphas,     \* the square of alpha in each pass, as a fraction <<num, den>>
  ChunkSize,  \* 4096 in the code
  Draws       \* what splitmix64 may draw: for each i, a number up to i

ASSUME BuildAssumption ==
  /\ IsFiniteSet(Nodes) /\ Nodes = 0 .. Cardinality(Nodes) - 1 /\ Nodes # {}
  /\ Base \in [Nodes -> Seq(Int)] /\ \A n \in Nodes : Len(Base[n]) = Len(Base[0])
  /\ R \in Nat /\ R >= 2 /\ L \in Nat /\ L >= R
  /\ ChunkSize \in Nat \ {0}
  /\ Alphas \in Seq((Nat \ {0}) \X (Nat \ {0})) /\ Len(Alphas) >= 1
  /\ \A draw \in Draws : \A i \in 1 .. Cardinality(Nodes) - 1 : draw[i] \in 0 .. i

Passes == DOMAIN Alphas
NumChunks == (Cardinality(Nodes) + ChunkSize - 1) \div ChunkSize
Chunks == 1 .. NumChunks

Medoid == FindMedoid(Base)

Beams == INSTANCE BeamSearch WITH
  Queries <- Nodes, K <- 1, Ef <- L, W <- 1

Distance == [a \in Nodes |-> [b \in Nodes |-> L2Sq(Base[a], Base[b])]]

\* Fisher-Yates: from the last place down, each is swapped with the one drawn.
Swap(draw) ==
  [i \in 1 .. Cardinality(Nodes) - 1 |-> [v \in Seq(Nodes) |->
     [v EXCEPT ![i + 1] = v[draw[i] + 1], ![draw[i] + 1] = v[i + 1]]]]

Permutation(draw) ==
  Beams!Loop(Swap(draw), [i \in 1 .. Cardinality(Nodes) |-> i - 1],
             [i \in 1 .. Cardinality(Nodes) - 1 |-> Cardinality(Nodes) - i])

Orders == {Permutation(draw) : draw \in Draws}

VARIABLES
  orders,    \* the permutation of each pass; never changes
  pass,      \* the pass under way; one more than the last when built
  adj,       \* the adjacency list of each node
  pc,        \* where each chunk is
  todo,      \* its nodes left to insert, the first of them being inserted
  beam,      \* the search of that insertion
  chosen,    \* its new neighbours, those left to link back to in the end
  guards     \* the lists it holds for writing

vars == <<orders, pass, adj, pc, todo, beam, chosen, guards>>

\* par_chunks of a pass's order.
Chunk(order, c) ==
  SubSeq(order, (c - 1) * ChunkSize + 1,
         IF c * ChunkSize < Len(order) THEN c * ChunkSize ELSE Len(order))

NoBeam == [visited |-> {}, pool |-> <<>>, expanded |-> {}]

Init ==
  /\ orders \in [Passes -> Orders]
  /\ pass = 1
  /\ adj = [n \in Nodes |-> <<>>]
  /\ pc = [c \in Chunks |-> "insert"]
  /\ todo = [c \in Chunks |-> Chunk(orders[1], c)]
  /\ beam = [c \in Chunks |-> NoBeam]
  /\ chosen = [c \in Chunks |-> <<>>]
  /\ guards = [c \in Chunks |-> {}]

-----------------------------------------------------------------------------
\* RobustPrune: the nearest candidate left is kept, and those it occludes
\* are dropped with it, until none is left or R are kept.  The sort leaves
\* the order of equal distances open; here the lower number goes first.
Nearest(p, cand) ==
  CHOOSE c \in cand : \A d \in cand :
    \/ Distance[p][c] < Distance[p][d]
    \/ Distance[p][c] = Distance[p][d] /\ c <= d

Occludes(kept, c, p, alpha) ==
  alpha[1] * Distance[kept][c] <= alpha[2] * Distance[p][c]

Pruning == [kept: Seq(Nodes), alive: SUBSET Nodes]

KeepNearest(p, alpha) ==
  [s \in Pruning |->
     IF s.alive = {} THEN s
     ELSE LET n == Nearest(p, s.alive) IN
          [kept  |-> Append(s.kept, n),
           alive |-> {c \in s.alive \ {n} : ~ Occludes(n, c, p, alpha)}]]

\* Variant: stops after one candidate too many.
RobustPruneLate(p, cand, alpha) ==
  Beams!Loop([i \in 1 .. R + 1 |-> KeepNearest(p, alpha)],
             [kept |-> <<>>, alive |-> cand \ {p}], [i \in 1 .. R + 1 |-> i]).kept

RobustPrune(p, cand, alpha) ==
  Beams!Loop([i \in 1 .. R |-> KeepNearest(p, alpha)],
             [kept |-> <<>>, alive |-> cand \ {p}], [i \in 1 .. R |-> i]).kept

-----------------------------------------------------------------------------
\* No other insertion holds the list of n for writing.
Unlocked(n, c) == \A d \in Chunks \ {c} : n \notin guards[d]

\* insert_point of the next node: the search begins at the medoid, ...
Insert(c) ==
  /\ pc[c] = "insert"
  /\ todo[c] # <<>>
  /\ beam' = [beam EXCEPT ![c] =
       [visited |-> {Medoid}, expanded |-> {},
        pool |-> Beams!SearchSeed(Distance[Head(todo[c])]).pool]]
  /\ pc' = [pc EXCEPT ![c] = "search"]
  /\ UNCHANGED <<orders, pass, adj, todo, chosen, guards>>

\* ... and reads one list after another, under its read lock.
Expand(c) ==
  LET b == beam[c]
      frontier == Beams!Frontier(b.pool)
      next == Beams!Integrate(b.visited, Beams!MarkExpanded(b.pool),
                              Distance[Head(todo[c])], adj[Head(frontier)])
  IN  /\ pc[c] = "search"
      /\ frontier # <<>>
      /\ Unlocked(Head(frontier), c)
      /\ beam' = [beam EXCEPT ![c] =
           [visited |-> next.visited, pool |-> next.pool,
            expanded |-> b.expanded \cup {Head(frontier)}]]
      /\ UNCHANGED <<orders, pass, adj, pc, todo, chosen, guards>>

\* Variant: what the search expanded is lost before it is pruned.
ReadOwnOnly(c) ==
  LET p == Head(todo[c]) IN
  /\ pc[c] = "search"
  /\ Beams!Frontier(beam[c].pool) = <<>>
  /\ Unlocked(p, c)
  /\ chosen' = [chosen EXCEPT ![c] = RobustPrune(p, ToSet(adj[p]), Alphas[pass])]
  /\ beam' = [beam EXCEPT ![c] = NoBeam]
  /\ pc' = [pc EXCEPT ![c] = "write"]
  /\ UNCHANGED <<orders, pass, adj, todo, guards>>

\* The node's own list is read, and the candidates pruned, ...
ReadOwn(c) ==
  LET p == Head(todo[c]) IN
  /\ pc[c] = "search"
  /\ Beams!Frontier(beam[c].pool) = <<>>
  /\ Unlocked(p, c)
  /\ chosen' = [chosen EXCEPT ![c] =
       RobustPrune(p, beam[c].expanded \cup ToSet(adj[p]), Alphas[pass])]
  /\ beam' = [beam EXCEPT ![c] = NoBeam]
  /\ pc' = [pc EXCEPT ![c] = "write"]
  /\ UNCHANGED <<orders, pass, adj, todo, guards>>

\* Variant: the lock on the node's own list is kept while linking back.
WriteOwnHolds(c) ==
  LET p == Head(todo[c]) IN
  /\ pc[c] = "write"
  /\ Unlocked(p, c)
  /\ adj' = [adj EXCEPT ![p] = chosen[c]]
  /\ guards' = [guards EXCEPT ![c] = {p}]
  /\ pc' = [pc EXCEPT ![c] = "reverse"]
  /\ UNCHANGED <<orders, pass, todo, beam, chosen>>

\* ... and the list is replaced, with whatever was added to it meanwhile.
WriteOwn(c) ==
  LET p == Head(todo[c]) IN
  /\ pc[c] = "write"
  /\ Unlocked(p, c)
  /\ adj' = [adj EXCEPT ![p] = chosen[c]]
  /\ pc' = [pc EXCEPT ![c] = "reverse"]
  /\ UNCHANGED <<orders, pass, todo, beam, chosen, guards>>

\* A neighbour's list is locked, ...
LockBack(c) ==
  LET nb == Head(chosen[c]) IN
  /\ pc[c] = "reverse"
  /\ chosen[c] # <<>>
  /\ Unlocked(nb, c)
  /\ guards' = [guards EXCEPT ![c] = @ \cup {nb}]
  /\ pc' = [pc EXCEPT ![c] = "link"]
  /\ UNCHANGED <<orders, pass, adj, todo, beam, chosen>>

\* Variant: the link back is added without looking whether it is there.
LinkedTwice(list, nb, p) ==
  IF Len(list) < R THEN Append(list, p)
  ELSE RobustPrune(nb, ToSet(list) \cup {p}, Alphas[pass])

\* The list with the edge back to p, pruned when it overflows.
Linked(list, nb, p) ==
  IF Contains(list, p) THEN list
  ELSE IF Len(list) < R THEN Append(list, p)
  ELSE RobustPrune(nb, ToSet(list) \cup {p}, Alphas[pass])

\* ... given the edge back, and unlocked.
LinkBack(c) ==
  LET nb == Head(chosen[c]) IN
  /\ pc[c] = "link"
  /\ adj' = [adj EXCEPT ![nb] = Linked(@, nb, Head(todo[c]))]
  /\ chosen' = [chosen EXCEPT ![c] = Tail(@)]
  /\ guards' = [guards EXCEPT ![c] = {}]
  /\ pc' = [pc EXCEPT ![c] = "reverse"]
  /\ UNCHANGED <<orders, pass, todo, beam>>

Inserted(c) ==
  /\ pc[c] = "reverse"
  /\ chosen[c] = <<>>
  /\ todo' = [todo EXCEPT ![c] = Tail(@)]
  /\ pc' = [pc EXCEPT ![c] = IF Len(todo[c]) = 1 THEN "done" ELSE "insert"]
  /\ UNCHANGED <<orders, pass, adj, beam, chosen, guards>>

\* for_each_init returns when every chunk is done, and the next pass begins.
NextPass ==
  /\ pass \in Passes
  /\ \A c \in Chunks : pc[c] = "done"
  /\ pass' = pass + 1
  /\ IF pass + 1 \in Passes
       THEN /\ todo' = [c \in Chunks |-> Chunk(orders[pass + 1], c)]
            /\ pc' = [c \in Chunks |-> "insert"]
       ELSE UNCHANGED <<todo, pc>>
  /\ UNCHANGED <<orders, adj, beam, chosen, guards>>

Built == pass \notin Passes

Frozen == Built /\ UNCHANGED vars

-----------------------------------------------------------------------------
Work(c) ==
  \/ Insert(c) \/ Expand(c) \/ ReadOwn(c)
  \/ WriteOwn(c) \/ LockBack(c) \/ LinkBack(c) \/ Inserted(c)

Next == (\E c \in Chunks : Work(c)) \/ NextPass \/ Frozen

Spec == Init /\ [][Next]_vars

\* Every chunk is taken by a thread sooner or later, and the thread runs.
FairSpec == Spec /\ WF_vars(NextPass) /\ \A c \in Chunks : WF_vars(Work(c))

-----------------------------------------------------------------------------
\* Every variable has its type, and each pass inserts every node once.
TypeOK ==
  /\ orders \in [Passes -> Seq(Nodes)]
  /\ \A q \in Passes : Len(orders[q]) = Cardinality(Nodes) /\ ToSet(orders[q]) = Nodes
  /\ pass \in Passes \cup {Len(Alphas) + 1}
  /\ adj \in [Nodes -> Seq(Nodes)]
  /\ pc \in [Chunks -> {"insert", "search", "write", "reverse", "link", "done"}]
  /\ todo \in [Chunks -> Seq(Nodes)]
  /\ beam \in [Chunks -> [visited: SUBSET Nodes, pool: Seq(Beams!Cand), expanded: SUBSET Nodes]]
  /\ chosen \in [Chunks -> Seq(Nodes)]
  /\ \A c \in Chunks : Len(chosen[c]) <= R
  /\ guards \in [Chunks -> SUBSET Nodes]

\* However insertions interleave, no list outgrows R, which the graph file
\* and the disk layout have room for, links a node to itself, or names a
\* node twice.
GraphWellFormed ==
  \A n \in Nodes :
    /\ Len(adj[n]) <= R
    /\ n \notin ToSet(adj[n])
    /\ Cardinality(ToSet(adj[n])) = Len(adj[n])

\* A node once inserted always has a neighbour: though an insertion may
\* overwrite links added to its list since it read it, none leaves it empty.
\* (The medoid may find nothing but itself, see Navigable.)
InsertedBefore(n) ==
  \/ pass > 1
  \/ \E c \in Chunks :
       /\ n \in ToSet(Chunk(orders[1], c))
       /\ \/ n \notin ToSet(todo[c])
          \/ pc[c] \in {"reverse", "link"} /\ n = Head(todo[c])

NeverOrphaned ==
  \A n \in Nodes \ {Medoid} : InsertedBefore(n) => adj[n] # <<>>

\* "Pass 1 with alpha=1.0 builds a navigable approximation": after a pass, a
\* search that begins at the medoid, as every search does, gets somewhere.
Navigable == pass > 1 /\ Cardinality(Nodes) > 1 => adj[Medoid] # <<>>

\* "Deadlock-free because at most one adjacency lock is held at a time": the
\* construction always comes to its end.
BuildEnds == <>Built

-----------------------------------------------------------------------------
\* What makes the safety properties inductive.  A chunk that is inserting has
\* a node to insert, ...
Inserting ==
  \A c \in Chunks :
    /\ pc[c] \in {"search", "write", "reverse", "link"} => todo[c] # <<>>
    /\ pc[c] = "done" => todo[c] = <<>>
    /\ pc[c] = "link" => chosen[c] # <<>>

\* ... whose search expands the medoid first, ...
Entered ==
  \A c \in Chunks : pc[c] = "search" =>
    \/ Medoid \in beam[c].expanded
    \/ /\ Len(beam[c].pool) = 1
       /\ beam[c].pool[1].id = Medoid /\ ~ beam[c].pool[1].expanded

\* ... and which is linked to others, each once, and to none only if it is the
\* medoid itself; as every list of the graph is tidy.
NoRepeats(s) == \A i, j \in DOMAIN s : s[i] = s[j] => i = j

Tidy(list, n) == Len(list) <= R /\ NoRepeats(list) /\ n \notin ToSet(list)

Chosen ==
  \A c \in Chunks : pc[c] \in {"write", "reverse", "link"} =>
    /\ NoRepeats(chosen[c]) /\ Head(todo[c]) \notin ToSet(chosen[c])
    /\ pc[c] = "write" /\ Head(todo[c]) # Medoid => chosen[c] # <<>>

ListsTidy == \A n \in Nodes : Tidy(adj[n], n)

IndInv ==
  /\ TypeOK
  /\ Inserting
  /\ Entered
  /\ Chosen
  /\ ListsTidy
  /\ NeverOrphaned

=============================================================================
