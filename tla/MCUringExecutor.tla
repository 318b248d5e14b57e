-------------------------- MODULE MCUringExecutor --------------------------
(***************************************************************************)
(* Instances of UringExecutor for TLC.  Two blocks and two tags tell a     *)
(* wrong block and a wrong tag from the right one; three slots let one be  *)
(* free, one queued and one completed at the same time.                    *)
(***************************************************************************)
EXTENDS UringExecutor

AllFaults == FaultKinds
=============================================================================
