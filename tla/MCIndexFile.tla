---------------------------- MODULE MCIndexFile ----------------------------
(***************************************************************************)
(* Instance of IndexFile for TLC: two runs at a time; a dataset of three   *)
(* vectors, which fill one block and half of another, and one of two.      *)
(***************************************************************************)
EXTENDS IndexFile, TLC

Symmetry == Permutations(Runs)
CountOf == "three" :> 3 @@ "two" :> 2
TwoDatasets == {"three", "two"}

\* Bound: no further than one file at a time that two runs have written at once.
OneRace == Cardinality(raced) <= 1
=============================================================================
