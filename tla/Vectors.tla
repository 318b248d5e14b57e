------------------------------ MODULE Vectors ------------------------------
(***************************************************************************)
(* Points and their distances (crates/nvvec-core/src/distance.rs), and the *)
(* entry point of a graph (find_medoid in nvvec-index/src/build.rs).  A    *)
(* vector is a sequence of integers, a base a function from node numbers,  *)
(* which begin at 0, to vectors.  Arithmetic is exact.                     *)
(***************************************************************************)
EXTENDS Integers, FiniteSets, Functions

Total(f) == FoldFunction(LAMBDA x, y : x + y, 0, f)

\* l2_sq; the order the lanes are added in is of no account here.
L2Sq(a, b) == Total([d \in DOMAIN a |-> (a[d] - b[d]) * (a[d] - b[d])])

\* find_medoid: the point nearest to the mean, the first of several.  Both are
\* taken n times as large, so that the mean is whole.
FindMedoid(base) ==
  LET n == Cardinality(DOMAIN base)
      sum == [d \in DOMAIN base[0] |-> Total([i \in DOMAIN base |-> base[i][d]])]
      off == [i \in DOMAIN base |-> L2Sq(sum, [d \in DOMAIN sum |-> n * base[i][d]])]
  IN  CHOOSE i \in DOMAIN base : \A j \in DOMAIN base :
        off[i] < off[j] \/ (off[i] = off[j] /\ i <= j)

=============================================================================
