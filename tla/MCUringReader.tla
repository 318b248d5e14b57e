--------------------------- MODULE MCUringReader ---------------------------
(***************************************************************************)
(* Instances of UringReader for TLC: two threads share a ring of two       *)
(* slots; a batch of three is cut into two chunks, the second of them      *)
(* shorter than what an error may have left of the first.                  *)
(***************************************************************************)
EXTENDS UringReader

AllFaults == FaultKinds
SomeBatches == {<<>>, <<1>>, <<0, 1, 1>>, <<0, NumBlocks>>}
=============================================================================
