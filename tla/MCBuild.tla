------------------------------ MODULE MCBuild ------------------------------
(***************************************************************************)
(* Instances of Build for TLC: points of the plane, no two of them equally *)
(* far from a third, so that no sort meets a tie; two passes with alpha 1  *)
(* and 1.2, over a choice of permutations.                                 *)
(***************************************************************************)
EXTENDS Build, TLC

\* Node 1 in the middle of three that do not occlude each other, so that
\* with R = 2 it has a neighbour too many.
Position == 0 :> <<4, 1>> @@ 1 :> <<0, 0>> @@ 2 :> <<-3, 3>> @@ 3 :> <<-2, -4>>
CodeAlphas == <<<<1, 1>>, <<36, 25>>>>
FourNodes == 0 .. 3
\* With chunks of three, the medoid, 1, is last and has a chunk to itself.
LastDraw == {<<1, 1, 1>>}
SomeDraws == {<<1, 2, 3>>, <<1, 0, 2>>, <<0, 1, 0>>}
=============================================================================
