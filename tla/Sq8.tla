-------------------------------- MODULE Sq8 --------------------------------
(***************************************************************************)
(* Scalar quantization (crates/nvvec-index/src/quant.rs): each dimension   *)
(* of a base is cut into Levels steps between its smallest and its largest *)
(* value, and a vector is kept as the number of the step nearest to it.    *)
(* Values are in units of 1 / Levels, so that steps are whole.             *)
(***************************************************************************)
EXTENDS Vectors

CONSTANT Levels  \* 255

ASSUME LevelsAssumption == Levels \in Nat \ {0}

Smallest(S) == CHOOSE x \in S : \A y \in S : x <= y
Largest(S)  == CHOOSE x \in S : \A y \in S : x >= y

\* The values of a dimension, and how far apart they are.
Column(base, d) == {base[i][d] : i \in DOMAIN base}
Spread(base, d) == Largest(Column(base, d)) - Smallest(Column(base, d))

\* (hi - lo) / 255, and 1 for a dimension that is constant.
StepOf(spread) == IF spread > 0 THEN spread ELSE Levels

Clamp(x, lo, hi) == IF x < lo THEN lo ELSE IF x > hi THEN hi ELSE x

\* Variant: the code is cut off, as by `as u8` alone.
CodeCut(above, step) == Clamp((Levels * above) \div step, 0, Levels)

\* The code of a value so far above the smallest: round, clamp, `as u8`.
CodeOf(above, step) == Clamp((2 * Levels * above + step) \div (2 * step), 0, Levels)

Train(base) ==
  LET min  == [d \in DOMAIN base[0] |-> Smallest(Column(base, d))]
      step == [d \in DOMAIN min |-> StepOf(Spread(base, d))]
  IN  [min |-> min, step |-> step,
       codes |-> [i \in DOMAIN base |->
                    [d \in DOMAIN min |-> CodeOf(base[i][d] - min[d], step[d])]]]

\* dist: the query, in full precision, against the decoded code.
Decoded(book, id) ==
  [d \in DOMAIN book.min |-> Levels * book.min[d] + book.step[d] * book.codes[id][d]]

ScoreOf(book, query, id) ==
  L2Sq([d \in DOMAIN query |-> Levels * query[d]], Decoded(book, id))

-----------------------------------------------------------------------------
Abs(x) == IF x >= 0 THEN x ELSE - x

\* "The quantization error only affects which nodes get explored": a routing
\* distance is as far from the exact one as half a step in each dimension can
\* make it, and in a constant dimension not at all.
CloseOn(book, base, query) ==
  \A id \in DOMAIN base :
    4 * Abs(ScoreOf(book, query, id) - Levels * Levels * L2Sq(query, base[id]))
      <= Total([d \in DOMAIN query |->
                  LET spread == Spread(base, d) IN
                  spread * (spread + 4 * Levels * Abs(query[d] - base[id][d]))])

=============================================================================
