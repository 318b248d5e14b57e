------------------------------ MODULE MCServer ------------------------------
(***************************************************************************)
(* Instances of Server for TLC: two requests at a time, epochs that wrap   *)
(* round at the third search.                                              *)
(***************************************************************************)
EXTENDS Server

Kite == 0 :> <<1, 2>> @@ 1 :> <<2, 3>> @@ 2 :> <<3, 0>> @@ 3 :> <<1>>
Dist(a, b, c, d) == 0 :> a @@ 1 :> b @@ 2 :> c @@ 3 :> d
KiteLoad ==
  {[nbrs |-> Kite,
    route |-> 0 :> Dist(4, 2, 3, 1) @@ 1 :> Dist(2, 1, 3, 4),
    exact |-> 0 :> Dist(4, 3, 2, 1) @@ 1 :> Dist(1, 2, 3, 4)]}

FourNodes == 0 .. 3
TwoQueries == 0 .. 1
=============================================================================
