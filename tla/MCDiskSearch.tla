---------------------------- MODULE MCDiskSearch ----------------------------
(***************************************************************************)
(* Instance of DiskSearch for TLC: five points of the plane, two to a      *)
(* block, so that half of the third block is zeros; distances that tie and *)
(* that do not, and codes coarse enough to put nodes in another order.     *)
(***************************************************************************)
EXTENDS DiskSearch, TLC

FiveNodes == 0 .. 4
Plane(xs, ys) == [i \in FiveNodes |-> <<xs[i + 1], ys[i + 1]>>]
Flat == <<1, 1, 1, 1, 1>>
\* Among them: a dimension that is constant, points that coincide, and every
\* place a value can have between two steps of codes.
SomeBases ==
  {Plane(<<0, 1, 2, 5, 3>>, Flat), Plane(<<5, 0, 3, 4, 1>>, <<0, 6, 1, 5, 2>>),
   Plane(<<1, 3, 3, 0, 2>>, <<1, 0, 4, 2, 3>>), Plane(Flat, Flat)}

Chain  == 0 :> <<1>> @@ 1 :> <<0, 2>> @@ 2 :> <<1, 3>> @@ 3 :> <<2, 4>> @@ 4 :> <<3>>
Kite   == 0 :> <<1, 2>> @@ 1 :> <<2, 3>> @@ 2 :> <<3, 0>> @@ 3 :> <<1, 4>> @@ 4 :> <<0>>
Island == 0 :> <<1, 2>> @@ 1 :> <<0, 2>> @@ 2 :> <<1, 0>> @@ 3 :> <<0, 2, 4>> @@ 4 :> <<3>>
SomeGraphs == {Chain, Kite, Island}

SomePoints == {<<0, 1>>, <<3, 1>>, <<6, 0>>}
Asked(k, ef, w) == [k |-> k, ef |-> ef, w |-> w]
SomeRequests ==
  {Asked(0, 0, 0), Asked(2, 3, 1), Asked(2, 3, 2), Asked(1, 5, 1), Asked(3, 5, 9)}
=============================================================================
