----------------------------- MODULE MCPipeline -----------------------------
(***************************************************************************)
(* Instances of Pipeline for TLC: four nodes, two to a block, so two data  *)
(* blocks and a header; three queries, at most two of them in flight.      *)
(***************************************************************************)
EXTENDS Pipeline

Chain == 0 :> <<1>> @@ 1 :> <<0, 2>> @@ 2 :> <<1, 3>> @@ 3 :> <<2>>
Star  == 0 :> <<1, 2, 3>> @@ 1 :> <<0>> @@ 2 :> <<0>> @@ 3 :> <<0>>
Kite  == 0 :> <<1, 2>> @@ 1 :> <<2, 3>> @@ 2 :> <<3, 0>> @@ 3 :> <<1>>

\* Distances of nodes 0 .. 3 from a query.
Dist(a, b, c, d) == 0 :> a @@ 1 :> b @@ 2 :> c @@ 3 :> d

Near == 0 :> Dist(4, 3, 2, 1) @@ 1 :> Dist(1, 2, 3, 4) @@ 2 :> Dist(3, 1, 4, 2)
\* As a quantized scorer may see them: other distances, in another order.
Blur == 0 :> Dist(4, 2, 3, 1) @@ 1 :> Dist(2, 1, 3, 4) @@ 2 :> Dist(3, 2, 4, 1)
\* Nodes 1 and 2 are equally far from query 0.
Tied == 0 :> Dist(1, 2, 2, 3) @@ 1 :> Dist(1, 2, 3, 4) @@ 2 :> Dist(3, 1, 4, 2)

Load(nbrs, route, exact) ==
  [nbrs |-> nbrs,
   route |-> [q \in Queries |-> route[q]], exact |-> [q \in Queries |-> exact[q]]]

DistinctLoads == {Load(Chain, Near, Near), Load(Star, Near, Near), Load(Kite, Blur, Near)}

\* What the theorem AnsweredAsAlone asks of workloads.
ASSUME DistinctLoadsDiffer == \A w \in DistinctLoads : DistancesDiffer(w)

TiedLoads == {Load(Star, Tied, Tied), Load(Kite, Tied, Tied)}
AllLoads == DistinctLoads \cup TiedLoads
KiteLoad == {Load(Kite, Blur, Near)}

FourNodes == 0 .. 3
TwoQueries == 0 .. 1
ThreeQueries == 0 .. 2
=============================================================================
