------------------------- MODULE DiskSearch_proofs -------------------------
(***************************************************************************)
(* Theorems about DiskSearch, for every base, graph, query, request and    *)
(* number of nodes to a block.  What is proved of the search is used       *)
(* through Search, an instance of its module of proofs at the parameters of*)
(* the call, and what is proved there of loops, sums and division, which   *)
(* needs none of its constants, through Loops.                             *)
(***************************************************************************)
EXTENDS DiskSearch, SequenceTheorems, FiniteSetTheorems, TLAPS

Search == INSTANCE BeamSearch_proofs WITH
  Queries <- {0}, K <- params.k, Ef <- params.ef, W <- params.w

Loops == INSTANCE BeamSearch_proofs WITH
  Nodes <- {0}, Queries <- {0}, Medoid <- 0, K <- 1, Ef <- 1, W <- 1

\* The constants of Loops are such as its lemmas ask for.
LEMMA LoopConstants == Loops!BeamAssumption
<1>1. \A S : Loops!IsFiniteSet(S) <=> IsFiniteSet(S)
  BY DEF Loops!IsFiniteSet, IsFiniteSet
<1> QED
  BY <1>1, FS_Singleton DEF Loops!BeamAssumption

LEMMA SameSums ==
  /\ \A f : Total(f) = Loops!Total(f)
  /\ \A a, b : L2Sq(a, b) = Loops!L2Sq(a, b)
  /\ \A S : Cardinality(S) = Loops!Cardinality(S)
  /\ \A S : IsFiniteSet(S) <=> Loops!IsFiniteSet(S)
<1>1. \A f : Total(f) = Loops!Total(f)
  BY Zenon DEF Total, FoldFunction, FoldFunctionOnSet, MapThenFoldSet,
    Loops!Total, Loops!FoldFunction, Loops!FoldFunctionOnSet, Loops!MapThenFoldSet
<1>2. \A a, b : L2Sq(a, b) = Loops!L2Sq(a, b)
  BY <1>1, Zenon DEF L2Sq, Loops!L2Sq
<1>3. \A S : Cardinality(S) = Loops!Cardinality(S)
  BY Zenon DEF Cardinality, Loops!Cardinality
<1>4. \A S : Loops!IsFiniteSet(S) <=> IsFiniteSet(S)
  BY DEF Loops!IsFiniteSet, IsFiniteSet
<1> QED
  BY <1>1, <1>2, <1>3, <1>4

LEMMA Sizes ==
  /\ N \in Nat /\ N >= 1 /\ Nodes = 0 .. N - 1 /\ IsFiniteSet(Nodes) /\ Cardinality(Nodes) = N
  /\ 0 \in Nodes /\ Nodes \in SUBSET Nat
<1>1. N \in Nat
  BY SearchAssumption, FS_CardinalityType DEF N
<1> QED
  BY <1>1, SearchAssumption DEF N

\* The length of the vectors: that of the queries.
Dim == Len(NoQuery)

LEMMA PointFacts ==
  ASSUME NEW b \in Bases, NEW q \in Points
  PROVE  /\ Dim \in Nat
         /\ q \in Seq(Int) /\ DOMAIN q = 1 .. Dim /\ \A d \in 1 .. Dim : q[d] \in Int
         /\ b \in [Nodes -> Seq(Int)]
         /\ \A n \in Nodes : /\ Len(b[n]) = Dim /\ DOMAIN b[n] = 1 .. Dim
                             /\ \A d \in 1 .. Dim : b[n][d] \in Int
<1>1. NoQuery \in Points
  BY SearchAssumption, Zenon DEF NoQuery
<1>2. NoQuery \in Seq(Int) /\ q \in Seq(Int) /\ b \in [Nodes -> Seq(Int)]
  BY <1>1, SearchAssumption
<1>3. \A n \in Nodes : Len(b[n]) = Len(q) /\ Len(b[n]) = Len(NoQuery)
  BY <1>1, SearchAssumption
<1>4. Dim \in Nat /\ Len(q) = Dim
  BY <1>2, <1>3, LenProperties, Sizes DEF Dim
<1>5. DOMAIN q = 1 .. Dim /\ \A d \in 1 .. Dim : q[d] \in Int
  BY <1>2, <1>4, LenProperties, ElementOfSeq
<1>6. ASSUME NEW n \in Nodes
      PROVE  Len(b[n]) = Dim /\ DOMAIN b[n] = 1 .. Dim /\ \A d \in 1 .. Dim : b[n][d] \in Int
  <2>1. b[n] \in Seq(Int) /\ Len(b[n]) = Dim
    BY <1>2, <1>3 DEF Dim
  <2> QED
    BY <2>1, LenProperties, ElementOfSeq
<1> QED
  BY <1>2, <1>4, <1>5, <1>6

\* The medoid is a node.
LEMMA MedoidType ==
  ASSUME NEW b \in Bases
  PROVE  FindMedoid(b) \in Nodes
<1>1. PICK q : q \in Points
  BY SearchAssumption
<1>2. /\ Nodes \in SUBSET Nat /\ Loops!IsFiniteSet(Nodes) /\ 0 \in Nodes
      /\ b \in [Nodes -> Seq(Int)] /\ \A i \in Nodes : Len(b[i]) = Len(b[0])
  BY <1>1, SameSums, Sizes, PointFacts
<1>3. Loops!FindMedoid(b) \in Nodes
  BY <1>2, LoopConstants, Loops!MedoidFacts
<1>4. FindMedoid(b) = Loops!FindMedoid(b)
  BY SameSums, Zenon DEF FindMedoid, Loops!FindMedoid
<1> QED
  BY <1>3, <1>4


-----------------------------------------------------------------------------
\* Of finitely many numbers one is the least and one the greatest.
LEMMA LeastInt ==
  ASSUME NEW last \in Nat, NEW f, \A i \in 0 .. last : f[i] \in Int
  PROVE  \E m \in 0 .. last : \A j \in 0 .. last : f[m] <= f[j]
<1> DEFINE G == {n \in 0 .. last : \E m \in 0 .. n : \A j \in 0 .. n : f[m] <= f[j]}
<1>1. 0 \in G
  OBVIOUS
<1>2. ASSUME NEW n \in 1 .. last, n - 1 \in G PROVE n \in G
  <2>1. PICK m \in 0 .. n - 1 : \A j \in 0 .. n - 1 : f[m] <= f[j]
    BY <1>2
  <2>2. /\ f[m] \in Int /\ f[n] \in Int /\ \A j \in 0 .. n - 1 : f[j] \in Int
        /\ \A j \in 0 .. n : j \in 0 .. n - 1 \/ j = n
    OBVIOUS
  <2>3. CASE f[m] <= f[n]
    <3>1. \A j \in 0 .. n : f[m] <= f[j]
      BY <2>1, <2>2, <2>3
    <3> QED
      BY <3>1
  <2>4. CASE ~ (f[m] <= f[n])
    <3>1. \A j \in 0 .. n : f[n] <= f[j]
      BY <2>1, <2>2, <2>4
    <3> QED
      BY <3>1
  <2> QED
    BY <2>3, <2>4
<1>3. \A n \in 0 .. last : n \in G
  <2> HIDE DEF G
  <2> QED
    BY <1>1, <1>2, LoopConstants, Loops!UpTo
<1> QED
  BY <1>3

LEMMA GreatestInt ==
  ASSUME NEW last \in Nat, NEW f, \A i \in 0 .. last : f[i] \in Int
  PROVE  \E m \in 0 .. last : \A j \in 0 .. last : f[m] >= f[j]
<1> DEFINE g == [i \in 0 .. last |-> - f[i]]
<1>1. \A i \in 0 .. last : g[i] \in Int /\ g[i] = - f[i]
  OBVIOUS
<1> HIDE DEF g
<1>2. PICK m \in 0 .. last : \A j \in 0 .. last : g[m] <= g[j]
  BY <1>1, LeastInt
<1>3. \A j \in 0 .. last : f[m] >= f[j]
  BY <1>1, <1>2
<1> QED
  BY <1>3

\* The values of a dimension lie between the smallest and the largest of them.
LEMMA SpreadFacts ==
  ASSUME NEW b \in Bases, NEW d \in 1 .. Dim
  PROVE  /\ Smallest(Column(b, d)) \in Int /\ Spread(b, d) \in Nat
         /\ \A i \in Nodes : b[i][d] - Smallest(Column(b, d)) \in 0 .. Spread(b, d)
<1> DEFINE S == Column(b, d)
           f == [i \in Nodes |-> b[i][d]]
<1>1. \A i \in Nodes : f[i] \in Int /\ f[i] = b[i][d]
  <2>1. PICK q : q \in Points
    BY SearchAssumption
  <2> QED
    BY <2>1, PointFacts
<1>2. S = {f[i] : i \in Nodes}
  <2>1. DOMAIN b = Nodes
    BY SearchAssumption
  <2> QED
    BY <2>1 DEF Column
<1>3. N - 1 \in Nat /\ Nodes = 0 .. N - 1
  BY Sizes
<1> HIDE DEF S, f
<1>4. \E x \in S : \A y \in S : x <= y
  <2>1. PICK m \in Nodes : \A j \in Nodes : f[m] <= f[j]
    BY <1>1, <1>3, LeastInt
  <2> QED
    BY <1>2, <2>1
<1>5. \E x \in S : \A y \in S : x >= y
  <2>1. PICK m \in Nodes : \A j \in Nodes : f[m] >= f[j]
    BY <1>1, <1>3, GreatestInt
  <2> QED
    BY <1>2, <2>1
<1>6. Smallest(S) \in S /\ \A y \in S : Smallest(S) <= y
  BY <1>4 DEF Smallest
<1>7. Largest(S) \in S /\ \A y \in S : Largest(S) >= y
  BY <1>5 DEF Largest
<1>8. Smallest(S) \in Int /\ Largest(S) \in Int /\ Spread(b, d) = Largest(S) - Smallest(S)
  BY <1>1, <1>2, <1>6, <1>7 DEF Spread, S
<1>9. ASSUME NEW i \in Nodes PROVE b[i][d] - Smallest(S) \in 0 .. Spread(b, d)
  <2>1. b[i][d] \in S /\ b[i][d] \in Int
    BY <1>1, <1>2
  <2> QED
    BY <1>6, <1>7, <1>8, <2>1
<1>10. Spread(b, d) \in Nat
  BY <1>6, <1>7, <1>8
<1> QED
  BY <1>8, <1>9, <1>10 DEF S

\* Rounding to the nearest step errs by half a step at most, and in a dimension
\* that is constant not at all.
LEMMA CodeFacts ==
  ASSUME NEW spread \in Nat, NEW above \in 0 .. spread
  PROVE  /\ StepOf(spread) \in Nat \ {0}
         /\ CodeOf(above, StepOf(spread)) \in 0 .. Levels
         /\ 2 * (StepOf(spread) * CodeOf(above, StepOf(spread)) - Levels * above) <= spread
         /\ 2 * (Levels * above - StepOf(spread) * CodeOf(above, StepOf(spread))) <= spread
<1> DEFINE s == StepOf(spread)
           a == 2 * Levels * above + s
           q == a \div (2 * s)
           r == a % (2 * s)
<1>1. Levels \in Nat \ {0} /\ above \in Nat /\ above <= spread
  BY LevelsAssumption
<1>2. s \in Nat \ {0} /\ (spread > 0 => s = spread) /\ (spread = 0 => s = Levels)
  BY <1>1 DEF StepOf
<1> HIDE DEF s
<1>3. Levels * above \in Nat /\ Levels * s \in Nat /\ 2 * s \in Nat \ {0} /\ 2 * Levels * above = 2 * (Levels * above)
  BY <1>1, <1>2
<1>4. a \in Nat /\ a = 2 * (Levels * above) + s
  BY <1>2, <1>3
<1>5. CodeOf(above, s) = Clamp(q, 0, Levels)
  BY DEF CodeOf
<1> HIDE DEF a
<1>6. q \in Nat /\ r \in Nat /\ a = q * (2 * s) + r /\ r < 2 * s
  BY <1>3, <1>4, LoopConstants, Loops!DivisionLaw
<1> HIDE DEF q, r
<1>7. q * (2 * s) = 2 * (s * q) /\ s * q \in Nat
  BY <1>2, <1>6
<1>8. Levels * above <= Levels * s
  <2>1. above <= s
    BY <1>1, <1>2
  <2>2. above * Levels <= s * Levels
    BY <1>1, <1>2, <2>1, LoopConstants, Loops!TimesMonotone
  <2> QED
    BY <1>1, <1>2, <2>2
<1>9. q <= Levels
  <2> SUFFICES ASSUME Levels + 1 <= q PROVE FALSE
    BY <1>1, <1>6
  <2>1. (Levels + 1) * (2 * s) <= q * (2 * s)
    BY <1>1, <1>3, <1>6, LoopConstants, Loops!TimesMonotone
  <2>2. (Levels + 1) * (2 * s) = 2 * (Levels * s) + 2 * s
    BY <1>1, <1>2
  <2> QED
    BY <1>2, <1>3, <1>4, <1>6, <1>7, <1>8, <2>1, <2>2
<1>10. Clamp(q, 0, Levels) = q
  BY <1>1, <1>6, <1>9 DEF Clamp
<1>11. spread = 0 => q = 0 /\ Levels * above = 0
  <2> SUFFICES ASSUME spread = 0 PROVE q = 0 /\ Levels * above = 0
    OBVIOUS
  <2>1. above = 0 /\ Levels * above = 0
    BY <1>1
  <2>2. a = s
    BY <1>2, <1>4, <2>1
  <2>3. s * q = 0
    <3> SUFFICES ASSUME q >= 1 PROVE FALSE
      BY <1>2, <1>6
    <3>1. 1 * s <= q * s
      BY <1>2, <1>6, LoopConstants, Loops!TimesMonotone
    <3>2. s <= s * q
      BY <1>2, <1>6, <3>1
    <3> QED
      BY <1>2, <1>6, <1>7, <2>2, <3>2
  <2> QED
    BY <1>2, <1>6, <2>1, <2>3
<1>12. 2 * (s * q - Levels * above) <= spread /\ 2 * (Levels * above - s * q) <= spread
  <2>1. CASE spread = 0
    <3>1. s * q = 0
      BY <1>2, <1>11, <2>1
    <3> QED
      BY <1>11, <2>1, <3>1
  <2>2. CASE spread # 0
    <3>1. s = spread
      BY <1>2, <2>2
    <3> QED
      BY <1>2, <1>3, <1>4, <1>6, <1>7, <3>1
  <2> QED
    BY <2>1, <2>2
<1> QED
  BY <1>1, <1>2, <1>5, <1>6, <1>9, <1>10, <1>12 DEF s

\* The codes trained on a base: each dimension of a decoded vector is within half
\* a step of the vector.
LEMMA TrainFacts ==
  ASSUME NEW b \in Bases, NEW id \in Nodes
  PROVE  /\ DOMAIN Decoded(Train(b), id) = 1 .. Dim
         /\ \A d \in 1 .. Dim :
              /\ Decoded(Train(b), id)[d] \in Int
              /\ 2 * (Decoded(Train(b), id)[d] - Levels * b[id][d]) <= Spread(b, d)
              /\ 2 * (Levels * b[id][d] - Decoded(Train(b), id)[d]) <= Spread(b, d)
<1> DEFINE t == Train(b)
           least(d) == Smallest(Column(b, d))
           step(d) == StepOf(Spread(b, d))
           code(d) == CodeOf(b[id][d] - least(d), step(d))
<1>1. DOMAIN b = Nodes /\ DOMAIN b[0] = 1 .. Dim /\ \A d \in 1 .. Dim : b[id][d] \in Int
  <2>1. PICK q : q \in Points
    BY SearchAssumption
  <2> QED
    BY <2>1, PointFacts, Sizes
<1>2. /\ t.min = [d \in 1 .. Dim |-> least(d)]
      /\ t.step = [d \in 1 .. Dim |-> step(d)]
      /\ t.codes[id] = [d \in 1 .. Dim |-> code(d)]
  BY <1>1 DEF Train
<1>3. Decoded(t, id) = [d \in 1 .. Dim |-> Levels * least(d) + step(d) * code(d)]
  <2>1. DOMAIN t.min = 1 .. Dim
    BY <1>2
  <2>2. \A d \in 1 .. Dim : t.min[d] = least(d) /\ t.step[d] = step(d) /\ t.codes[id][d] = code(d)
    BY <1>2
  <2> HIDE DEF t, least, step, code
  <2> QED
    BY <2>1, <2>2 DEF Decoded
<1> HIDE DEF t
<1>4. ASSUME NEW d \in 1 .. Dim
      PROVE  /\ Decoded(t, id)[d] \in Int
             /\ 2 * (Decoded(t, id)[d] - Levels * b[id][d]) <= Spread(b, d)
             /\ 2 * (Levels * b[id][d] - Decoded(t, id)[d]) <= Spread(b, d)
  <2> DEFINE above == b[id][d] - least(d)
  <2>1. least(d) \in Int /\ Spread(b, d) \in Nat /\ above \in 0 .. Spread(b, d)
    BY SpreadFacts
  <2>2. Decoded(t, id)[d] = Levels * least(d) + step(d) * code(d)
    BY <1>3
  <2>3. b[id][d] = least(d) + above
    BY <1>1, <2>1
  <2> HIDE DEF above
  <2>4. /\ step(d) \in Nat \ {0}
        /\ CodeOf(above, step(d)) \in 0 .. Levels
        /\ 2 * (step(d) * CodeOf(above, step(d)) - Levels * above) <= Spread(b, d)
        /\ 2 * (Levels * above - step(d) * CodeOf(above, step(d))) <= Spread(b, d)
    BY <2>1, CodeFacts
  <2>5. code(d) = CodeOf(above, step(d))
    BY DEF above
  <2> HIDE DEF least, step, code
  <2>6. PICK l, x, c, p : l = least(d) /\ x = step(d) /\ c = code(d) /\ p = step(d) * code(d)
    OBVIOUS
  <2>7. p \in Int /\ Levels \in Nat /\ above \in Nat
    BY <2>1, <2>4, <2>5, <2>6, LevelsAssumption
  <2>8. Levels * b[id][d] = Levels * l + Levels * above /\ Levels * l \in Int /\ Levels * above \in Int
    BY <2>1, <2>3, <2>6, <2>7
  <2> QED
    BY <2>2, <2>4, <2>5, <2>6, <2>7, <2>8
<1> QED
  BY <1>3, <1>4 DEF t


-----------------------------------------------------------------------------
\* Distances are naturals, whichever scorer they are from.
LEMMA ScoreType ==
  ASSUME NEW b \in Bases, NEW q \in Points, NEW id \in Nodes
  PROVE  L2Sq(q, b[id]) \in Nat /\ ScoreOf(Train(b), q, id) \in Nat
<1> DEFINE scaled == [d \in DOMAIN q |-> Levels * q[d]]
           v == b[id]
           w == Decoded(Train(b), id)
<1>1. /\ Dim \in Nat /\ DOMAIN q = 1 .. Dim
      /\ \A d \in 1 .. Dim : q[d] \in Int /\ v[d] \in Int /\ w[d] \in Int
  BY PointFacts, TrainFacts
<1>2. DOMAIN scaled = 1 .. Dim /\ \A d \in 1 .. Dim : scaled[d] \in Int
  BY <1>1, LevelsAssumption
<1>3. ScoreOf(Train(b), q, id) = L2Sq(scaled, w)
  BY DEF ScoreOf
<1> HIDE DEF scaled, v, w
<1>4. Loops!L2Sq(q, v) \in Nat /\ Loops!L2Sq(scaled, w) \in Nat
  BY <1>1, <1>2, LoopConstants, Loops!L2SqType
<1> QED
  BY <1>3, <1>4, SameSums DEF v

\* A square moved by half a step at most.
LEMMA SquareClose ==
  ASSUME NEW x \in Int, NEW a \in Nat, x = a \/ x = - a, NEW s \in Nat,
         NEW e \in Int, 2 * e <= s, - s <= 2 * e
  PROVE  /\ 4 * ((x - e) * (x - e) - x * x) <= s * (s + 4 * a)
         /\ 4 * (x * x - (x - e) * (x - e)) <= s * (s + 4 * a)
<1>1. \A u, v \in Nat : u * v >= 0
  OBVIOUS
<1>2. s - 2 * e \in Nat /\ s + 2 * e \in Nat
  OBVIOUS
<1>3. (s - 2 * e) * (s + 2 * e) >= 0 /\ a * (s - 2 * e) >= 0 /\ a * (s + 2 * e) >= 0
      /\ a * s >= 0 /\ e * e >= 0
  <2>1. e * e >= 0
    OBVIOUS
  <2>2. a * (s - 2 * e) >= 0 /\ a * (s + 2 * e) >= 0 /\ (s - 2 * e) * (s + 2 * e) >= 0
    BY <1>1, <1>2
  <2> QED
    BY <1>1, <2>1, <2>2
<1>4. (s - 2 * e) * (s + 2 * e) = s * s - 4 * (e * e)
  OBVIOUS
<1>5. a * (s - 2 * e) = a * s - 2 * (a * e) /\ a * (s + 2 * e) = a * s + 2 * (a * e)
  OBVIOUS
<1>6. (x - e) * (x - e) - x * x = e * e - 2 * (x * e)
  OBVIOUS
<1>7. x * x - (x - e) * (x - e) = 2 * (x * e) - e * e
  OBVIOUS
<1>8. x * e = a * e \/ x * e = - (a * e)
  <2>1. CASE x = a
    BY <2>1
  <2>2. CASE x = - a
    BY <2>2
  <2> QED
    BY <2>1, <2>2
<1>9. s * (s + 4 * a) = s * s + 4 * (a * s)
  OBVIOUS
<1>10. PICK ss, ee, as, ae, xe : /\ ss = s * s /\ ee = e * e /\ as = a * s /\ ae = a * e /\ xe = x * e
                                /\ ss \in Int /\ ee \in Int /\ as \in Int /\ ae \in Int /\ xe \in Int
  OBVIOUS
<1>11. /\ ss - 4 * ee >= 0 /\ as - 2 * ae >= 0 /\ as + 2 * ae >= 0 /\ as >= 0 /\ ee >= 0
       /\ xe = ae \/ xe = - ae
  BY <1>3, <1>4, <1>5, <1>8, <1>10
<1>12. 4 * (ee - 2 * xe) <= ss + 4 * as /\ 4 * (2 * xe - ee) <= ss + 4 * as
  BY <1>10, <1>11
<1> QED
  BY <1>6, <1>7, <1>9, <1>10, <1>12

\* A distance to a decoded vector is as close to the exact one as CloseOn says.
LEMMA CloseEverywhere ==
  ASSUME NEW b \in Bases, NEW q \in Points
  PROVE  CloseOn(Train(b), b, q)
<1> SUFFICES ASSUME NEW id \in Nodes
             PROVE  4 * Abs(ScoreOf(Train(b), q, id) - Levels * Levels * L2Sq(q, b[id]))
                      <= Total([d \in DOMAIN q |->
                                  Spread(b, d) * (Spread(b, d) + 4 * Levels * Abs(q[d] - b[id][d]))])
  <2>1. DOMAIN b = Nodes
    BY SearchAssumption
  <2> QED
    BY <2>1 DEF CloseOn
<1> DEFINE D == 1 .. Dim
           w == Decoded(Train(b), id)
           scaled == [d \in DOMAIN q |-> Levels * q[d]]
           f == [d \in D |-> (scaled[d] - w[d]) * (scaled[d] - w[d])]
           g == [d \in D |-> (q[d] - b[id][d]) * (q[d] - b[id][d])]
           h == [d \in D |-> Spread(b, d) * (Spread(b, d) + 4 * Levels * Abs(q[d] - b[id][d]))]
<1>1. /\ Dim \in Nat /\ DOMAIN q = D
      /\ \A d \in D : q[d] \in Int /\ b[id][d] \in Int /\ w[d] \in Int
  BY PointFacts, TrainFacts
<1>2. IsFiniteSet(D) /\ Levels \in Nat
  <2>1. 1 \in Int /\ Dim \in Int
    BY <1>1
  <2> QED
    BY <2>1, FS_Interval, LevelsAssumption
<1>3. ScoreOf(Train(b), q, id) = Total(f)
  <2>1. DOMAIN scaled = D
    BY <1>1
  <2> QED
    BY <2>1, Zenon DEF ScoreOf, L2Sq
<1>4. L2Sq(q, b[id]) = Total(g)
  BY <1>1, Zenon DEF L2Sq
<1>5. [d \in DOMAIN q |-> Spread(b, d) * (Spread(b, d) + 4 * Levels * Abs(q[d] - b[id][d]))] = h
  BY <1>1
<1>6. ASSUME NEW d \in D
      PROVE  /\ f[d] \in Int /\ g[d] \in Int /\ h[d] \in Int
             /\ 4 * (f[d] - (Levels * Levels) * g[d]) <= h[d]
             /\ 4 * ((Levels * Levels) * g[d] - f[d]) <= h[d]
  <2> DEFINE y == q[d] - b[id][d]
             x == Levels * y
             a == Levels * Abs(y)
             s == Spread(b, d)
             e == w[d] - Levels * b[id][d]
  <2>1. y \in Int /\ s \in Nat /\ e \in Int /\ 2 * e <= s /\ - s <= 2 * e
    <3>1. s \in Nat
      BY SpreadFacts
    <3>2. w[d] \in Int /\ 2 * (w[d] - Levels * b[id][d]) <= s /\ 2 * (Levels * b[id][d] - w[d]) <= s
      BY TrainFacts
    <3>3. Levels * b[id][d] \in Int /\ y \in Int
      BY <1>1, <1>2
    <3> HIDE DEF w, s
    <3> QED
      BY <3>1, <3>2, <3>3
  <2>2. f[d] = (Levels * q[d] - w[d]) * (Levels * q[d] - w[d]) /\ g[d] = y * y
        /\ h[d] = s * (s + 4 * Levels * Abs(y))
    BY <1>1
  <2>3. Levels * q[d] - w[d] = x - e
    BY <1>1, <1>2
  <2> HIDE DEF y, s, e, f, g, h
  <2>4. Abs(y) \in Nat /\ (y = Abs(y) \/ y = - Abs(y))
    BY <2>1 DEF Abs
  <2>5. x \in Int /\ a \in Nat /\ (x = a \/ x = - a) /\ 4 * Levels * Abs(y) = 4 * a
    BY SMTT(30), <1>2, <2>1, <2>4
  <2>6. (Levels * Levels) * (y * y) = x * x
    BY <1>2, <2>1
  <2> HIDE DEF x, a
  <2>7. /\ 4 * ((x - e) * (x - e) - x * x) <= s * (s + 4 * a)
        /\ 4 * (x * x - (x - e) * (x - e)) <= s * (s + 4 * a)
    BY <2>1, <2>5, SquareClose
  <2>8. f[d] = (x - e) * (x - e) /\ (Levels * Levels) * g[d] = x * x /\ h[d] = s * (s + 4 * a)
    BY <2>2, <2>3, <2>5, <2>6
  <2>9. f[d] \in Int /\ g[d] \in Int /\ h[d] \in Int
    BY <2>1, <2>2, <2>5, <2>8
  <2> QED
    BY <2>7, <2>8, <2>9
<1>7. f \in [D -> Int] /\ g \in [D -> Int] /\ h \in [D -> Int]
  <2>1. \A d \in D : f[d] \in Int /\ g[d] \in Int /\ h[d] \in Int
    BY <1>6
  <2>2. f \in [D -> Int]
    BY <2>1
  <2>3. g \in [D -> Int]
    BY <2>1
  <2>4. h \in [D -> Int]
    BY <2>1
  <2> QED
    BY <2>2, <2>3, <2>4
<1> HIDE DEF f, g, h, D
<1>8. PICK c : c = Levels * Levels /\ c \in Int
  BY <1>2
<1>9. /\ Total(f) \in Int /\ Total(g) \in Int /\ Total(h) \in Int
      /\ 4 * (Total(f) - c * Total(g)) <= Total(h)
      /\ 4 * (c * Total(g) - Total(f)) <= Total(h)
  <2>1. Loops!IsFiniteSet(D)
    BY <1>2, SameSums
  <2>2. /\ Loops!Total(f) \in Int /\ Loops!Total(g) \in Int /\ Loops!Total(h) \in Int
        /\ 4 * (Loops!Total(f) - c * Loops!Total(g)) <= Loops!Total(h)
        /\ 4 * (c * Loops!Total(g) - Loops!Total(f)) <= Loops!Total(h)
    BY <1>6, <1>7, <1>8, <2>1, LoopConstants, Loops!SumsClose
  <2> QED
    BY <2>2, SameSums
<1>10. 4 * Abs(Total(f) - c * Total(g)) <= Total(h)
  <2>1. PICK z : z = c * Total(g) /\ z \in Int
    BY <1>8, <1>9
  <2> QED
    BY <1>9, <2>1 DEF Abs
<1> QED
  BY <1>3, <1>4, <1>5, <1>8, <1>10


-----------------------------------------------------------------------------
\* Where locate sends the search for a node there is that node.
LEMMA NodeFound ==
  ASSUME NEW node \in Nodes
  PROVE  /\ Locate(node).block \in Nat \ {0} /\ Locate(node).slot \in Nat
         /\ Locate(node).slot + 1 \in DOMAIN NodesOf(N, Locate(node).block)
         /\ NodesOf(N, Locate(node).block)[Locate(node).slot + 1] = node
<1> DEFINE q == node \div Npb
           s == node % Npb
<1>1. Npb \in Nat \ {0} /\ node \in Nat /\ node < N /\ N \in Nat
  BY LayoutAssumption, Sizes
<1>2. q \in Nat /\ s \in Nat /\ node = q * Npb + s /\ s < Npb
  BY <1>1, LoopConstants, Loops!DivisionLaw
<1>3. Locate(node).block = 1 + q /\ Locate(node).slot = s
  BY DEF Locate
<1> HIDE DEF q, s
<1>4. q * Npb \in Nat /\ (1 + q) * Npb = q * Npb + Npb /\ (1 + q) - 1 = q
  BY <1>1, <1>2
<1>5. DOMAIN NodesOf(N, 1 + q) = 1 .. (IF q * Npb + Npb <= N THEN Npb ELSE N - q * Npb)
  BY <1>4 DEF NodesOf
<1>6. s + 1 \in DOMAIN NodesOf(N, 1 + q)
  BY <1>1, <1>2, <1>4, <1>5
<1>7. NodesOf(N, 1 + q)[s + 1] = q * Npb + (s + 1) - 1
  BY <1>4, <1>5, <1>6 DEF NodesOf
<1>8. NodesOf(N, 1 + q)[s + 1] = node
  BY <1>2, <1>4, <1>7
<1> QED
  BY <1>2, <1>3, <1>6, <1>8

-----------------------------------------------------------------------------
\* Beams and Search are instances of one module: the same by definition.
LEMMA SameLoop ==
  ASSUME NEW step, NEW state, NEW seq
  PROVE  Beams!Loop(step, state, seq) = Search!Loop(step, state, seq)
<1>1. \A S : Beams!Max(S) = Search!Max(S)
  BY DEF Beams!Max, Search!Max
<1> QED
  BY <1>1, Zenon DEF Beams!Loop, Search!Loop, Beams!FoldLeft, Search!FoldLeft,
    Beams!MapThenFoldSet, Search!MapThenFoldSet, Beams!Max, Search!Max

LEMMA SameSets ==
  /\ Beams!Cand = Search!Cand /\ Beams!Beam = Search!Beam /\ Beams!Scored = Search!Scored
  /\ \A S : Beams!Cardinality(S) = Cardinality(S) /\ Search!Cardinality(S) = Cardinality(S)
  /\ \A s : Beams!ToSet(s) = ToSet(s) /\ Search!ToSet(s) = ToSet(s)
  /\ \A S : Search!IsFiniteSet(S) <=> IsFiniteSet(S)
<1>1. Beams!Cand = Search!Cand /\ Beams!Beam = Search!Beam /\ Beams!Scored = Search!Scored
  BY DEF Beams!Cand, Search!Cand, Beams!Beam, Search!Beam, Beams!Scored, Search!Scored
<1>2. \A S : Beams!Cardinality(S) = Cardinality(S) /\ Search!Cardinality(S) = Cardinality(S)
  BY Zenon DEF Beams!Cardinality, Search!Cardinality, Cardinality
<1>3. \A s : Beams!ToSet(s) = ToSet(s) /\ Search!ToSet(s) = ToSet(s)
  BY DEF Beams!ToSet, Search!ToSet, ToSet
<1>4. \A S : Search!IsFiniteSet(S) <=> IsFiniteSet(S)
  BY DEF Search!IsFiniteSet, IsFiniteSet
<1> QED
  BY <1>1, <1>2, <1>3, <1>4

LEMMA SameInsert ==
  ASSUME NEW pl, NEW dist, NEW id
  PROVE  Beams!PoolInsert(pl, dist, id) = Search!PoolInsert(pl, dist, id)
BY SameSets, Zenon DEF Beams!PoolInsert, Search!PoolInsert, Beams!FirstOf, Search!FirstOf,
   Beams!InsertAt, Search!InsertAt, Beams!Last, Search!Last

LEMMA SameTopPush ==
  ASSUME NEW t, NEW dist, NEW id
  PROVE  Beams!TopPush(t, dist, id) = Search!TopPush(t, dist, id)
BY SameSets, Zenon DEF Beams!TopPush, Search!TopPush, Beams!Before, Search!Before,
   Beams!InsertAt, Search!InsertAt, Beams!Last, Search!Last, Beams!Front, Search!Front

LEMMA SameIntegrate ==
  ASSUME NEW v, NEW pl, NEW route, NEW nbs
  PROVE  Beams!Integrate(v, pl, route, nbs) = Search!Integrate(v, pl, route, nbs)
<1>1. Beams!Visit(route) = Search!Visit(route)
  BY SameSets, SameInsert, Zenon DEF Beams!Visit, Search!Visit
<1> QED
  BY <1>1, SameLoop DEF Beams!Integrate, Search!Integrate

LEMMA SameFrontier ==
  ASSUME NEW pl
  PROVE  /\ Beams!Frontier(pl) = Search!Frontier(pl)
         /\ Beams!FrontierAt(pl) = Search!FrontierAt(pl)
         /\ Beams!MarkExpanded(pl) = Search!MarkExpanded(pl)
<1>1. Beams!Gather(pl) = Search!Gather(pl)
  BY Zenon DEF Beams!Gather, Search!Gather
<1>2. Beams!FrontierAt(pl) = Search!FrontierAt(pl)
  BY <1>1, SameLoop, Zenon DEF Beams!FrontierAt, Search!FrontierAt, Beams!FirstOf, Search!FirstOf
<1>3. Beams!Frontier(pl) = Search!Frontier(pl)
  BY <1>2, Zenon DEF Beams!Frontier, Search!Frontier
<1>4. Beams!MarkExpanded(pl) = Search!MarkExpanded(pl)
  BY <1>2, SameSets, Zenon DEF Beams!MarkExpanded, Search!MarkExpanded
<1> QED
  BY <1>2, <1>3, <1>4

LEMMA SamePredicates ==
  /\ \A b, E : Beams!Tidy(b, E) <=> Search!Tidy(b, E)
  /\ \A s, dist, V, m : Beams!NearestOf(s, dist, V, m) <=> Search!NearestOf(s, dist, V, m)
  /\ \A load, A : Beams!NeighboursOf(load, A) = Search!NeighboursOf(load, A)
<1>1. \A b, E : Beams!Tidy(b, E) <=> Search!Tidy(b, E)
  BY SameSets, Zenon DEF Beams!Tidy, Search!Tidy
<1>2. \A s, dist, V, m : Beams!NearestOf(s, dist, V, m) <=> Search!NearestOf(s, dist, V, m)
  BY Zenon DEF Beams!NearestOf, Search!NearestOf
<1>3. \A load, A : Beams!NeighboursOf(load, A) = Search!NeighboursOf(load, A)
  BY SameSets, Zenon DEF Beams!NeighboursOf, Search!NeighboursOf
<1> QED
  BY <1>1, <1>2, <1>3

-----------------------------------------------------------------------------
\* What the search of a call works with is such as the lemmas ask for.
LEMMA CallFacts ==
  ASSUME TypeOK, Trained
  PROVE  /\ Search!BeamAssumption
         /\ Medoid \in Nodes
         /\ Route \in [Nodes -> Nat] /\ Exact \in [Nodes -> Nat]
         /\ routing = "exact" => Route = Exact
<1>1. base \in Bases /\ query \in Points /\ routing \in {"exact", "sq8"} /\ book = Train(base)
  BY DEF TypeOK, Trained
<1>2. Medoid \in Nodes
  BY <1>1, MedoidType DEF Medoid
<1>3. \A id \in Nodes : L2Sq(query, base[id]) \in Nat /\ ScoreOf(book, query, id) \in Nat
  BY <1>1, ScoreType
<1>4. Route \in [Nodes -> Nat] /\ Exact \in [Nodes -> Nat]
  BY <1>3 DEF Route, Exact, Score
<1>5. routing = "exact" => Route = Exact
  BY DEF Route, Exact, Score
<1>6. params.k \in Nat \ {0} /\ params.w \in Nat \ {0} /\ params.ef \in Nat /\ params.ef >= params.k
  BY SearchAssumption DEF TypeOK
<1>7. Search!BeamAssumption
  BY <1>2, <1>6, SameSets, Sizes DEF Search!BeamAssumption
<1> QED
  BY <1>2, <1>4, <1>5, <1>7


-----------------------------------------------------------------------------
\* IndInv holds when no call has been made.
LEMMA InitHolds == Init => IndInv
<1> SUFFICES ASSUME Init PROVE IndInv
  OBVIOUS
<1>1. /\ base \in Bases /\ nbrs \in Graphs /\ book = Train(base) /\ bufs = <<>>
      /\ pc = "idle" /\ query = NoQuery /\ routing = "exact" /\ params = NoParams
      /\ pool = <<>> /\ visited = {} /\ expanded = <<>> /\ frontier = <<>> /\ read = 0
      /\ ioErr = FALSE /\ top = <<>> /\ answer = NoAnswer
  BY DEF Init
<1>2. NoQuery \in Points
  BY SearchAssumption, Zenon DEF NoQuery
<1>3. TypeOK
  <2>1. params \in [k: Nat \ {0}, ef: Nat, w: 1 .. MaxW] /\ params.ef >= params.k
    BY <1>1, SearchAssumption DEF NoParams
  <2>2. answer \in [ok: BOOLEAN, top: Seq(Beams!Scored), reads: Nat]
    BY <1>1 DEF NoAnswer
  <2>3. read \in 0 .. params.w /\ Len(pool) <= params.ef /\ Len(frontier) <= params.w /\ Len(top) <= params.k
    BY <1>1, <2>1, SearchAssumption
  <2>4. /\ pool \in Seq(Beams!Cand) /\ visited \subseteq Nodes /\ expanded \in Seq(Nodes)
        /\ frontier \in Seq(Nodes) /\ top \in Seq(Beams!Scored) /\ bufs \in Seq(0 .. DataBlocks(N))
    BY <1>1
  <2> QED
    BY <1>1, <1>2, <2>1, <2>2, <2>3, <2>4 DEF TypeOK
<1>4. Trained
  BY <1>1 DEF Trained
<1>5. ToSet(<<>>) = {} /\ Done = {} /\ ~ Reading
  BY <1>1 DEF ToSet, Done, Reading
<1>6. BeamTidy
  <2>1. Beams!Tidy([visited |-> visited, pool |-> pool], ToSet(expanded))
    BY <1>1, <1>5 DEF Beams!Tidy, Beams!Beam
  <2>2. Beams!NearestOf(pool, Route, visited, params.ef)
    BY <1>1, <1>3 DEF Beams!NearestOf, TypeOK
  <2> QED
    BY <1>1, <2>1, <2>2 DEF BeamTidy
<1>7. RoundRead
  BY <1>1, <1>5 DEF RoundRead
<1>8. TopNearest
  BY <1>1, <1>3, <1>5 DEF TopNearest, Beams!NearestOf, TypeOK
<1>9. WithinReach /\ AnswerKept
  BY <1>1 DEF WithinReach, AnswerKept
<1> QED
  BY <1>3, <1>4, <1>6, <1>7, <1>8, <1>9 DEF IndInv

\* What the server makes of a request is within the bounds of TypeOK.
LEMMA ClampedFacts ==
  ASSUME NEW asked \in Requests
  PROVE  /\ Clamped(asked) \in [k: Nat \ {0}, ef: Nat, w: 1 .. MaxW]
         /\ Clamped(asked).ef >= Clamped(asked).k
<1> DEFINE k == IF asked.k < 1 THEN 1 ELSE asked.k
           ef == IF asked.ef < k THEN k ELSE asked.ef
           w == IF asked.w < 1 THEN 1 ELSE IF asked.w > MaxW THEN MaxW ELSE asked.w
<1>1. asked.k \in Nat /\ asked.ef \in Nat /\ asked.w \in Nat /\ MaxW \in Nat \ {0}
  BY SearchAssumption
<1>2. k \in Nat \ {0} /\ ef \in Nat /\ ef >= k /\ w \in 1 .. MaxW
  BY <1>1
<1>3. Clamped(asked) = [k |-> k, ef |-> ef, w |-> w]
  BY DEF Clamped
<1> HIDE DEF k, ef, w
<1> QED
  BY <1>2, <1>3

LEMMA OneCandidate ==
  ASSUME NEW d \in Nat, NEW id \in Nodes, NEW dist, dist[id] = d, NEW m \in Nat, m >= 1
  PROVE  LET pl == <<[dist |-> d, id |-> id, expanded |-> FALSE]>> IN
         /\ pl \in Seq(Beams!Cand) /\ Len(pl) = 1
         /\ Beams!Tidy([visited |-> {id}, pool |-> pl], {})
         /\ Beams!NearestOf(pl, dist, {id}, m)
<1> DEFINE c == [dist |-> d, id |-> id, expanded |-> FALSE]
           pl == <<c>>
           b == [visited |-> {id}, pool |-> pl]
<1>1. c \in Beams!Cand /\ c.dist = d /\ c.id = id /\ c.expanded = FALSE
  BY DEF Beams!Cand
<1> HIDE DEF c
<1>2. pl \in Seq(Beams!Cand) /\ Len(pl) = 1 /\ DOMAIN pl = 1 .. 1 /\ pl[1] = c
  BY <1>1
<1> HIDE DEF pl
<1>3. \A i \in DOMAIN pl : i = 1 /\ pl[i] = c
  BY <1>2
<1>4. Beams!NearestOf(pl, dist, {id}, m)
  BY <1>1, <1>2, <1>3 DEF Beams!NearestOf
<1>5. b.visited = {id} /\ b.pool = pl /\ b \in Beams!Beam
  BY <1>2 DEF Beams!Beam
<1> HIDE DEF b
<1>6. Beams!Tidy(b, {})
  BY <1>1, <1>3, <1>5 DEF Beams!Tidy
<1> QED
  BY <1>2, <1>4, <1>6 DEF b, c, pl

LEMMA StartKeeps ==
  ASSUME IndInv, NEW q \in Points, NEW kind \in {"exact", "sq8"}, NEW asked \in Requests,
         Start(q, kind, asked)
  PROVE  IndInv'
<1> DEFINE d == Score(kind, q, Medoid)
<1>1. /\ pc' = "round" /\ query' = q /\ routing' = kind /\ params' = Clamped(asked)
      /\ bufs' = Resized(params'.w)
      /\ pool' = <<[dist |-> d, id |-> Medoid, expanded |-> FALSE]>>
      /\ visited' = {Medoid}
      /\ expanded' = <<>> /\ frontier' = <<>> /\ read' = 0 /\ ioErr' = FALSE /\ top' = <<>>
      /\ answer' = NoAnswer
      /\ base' = base /\ nbrs' = nbrs /\ book' = book
  BY DEF Start, Begin, given
<1>2. TypeOK /\ Trained
  BY DEF IndInv
<1>3. base \in Bases /\ nbrs \in Graphs /\ book = Train(base) /\ bufs \in Seq(0 .. DataBlocks(N))
  BY <1>2 DEF TypeOK, Trained
<1>4. Medoid \in Nodes /\ Medoid' = Medoid
  BY <1>1, <1>3, MedoidType DEF Medoid
<1>5. d \in Nat
  BY <1>3, <1>4, ScoreType DEF Score
<1>6. Route'[Medoid] = d
  BY <1>1, <1>4 DEF Route, Score
<1>7. params' \in [k: Nat \ {0}, ef: Nat, w: 1 .. MaxW] /\ params'.ef >= params'.k
  BY <1>1, ClampedFacts
<1>8. /\ params'.k \in Nat \ {0} /\ params'.w \in Nat \ {0} /\ params'.ef \in Nat
      /\ params'.ef >= params'.k /\ params'.ef >= 1
  BY <1>7, SearchAssumption
<1>9. /\ pool' \in Seq(Beams!Cand) /\ Len(pool') = 1
      /\ Beams!Tidy([visited |-> visited', pool |-> pool'], {})
      /\ Beams!NearestOf(pool', Route', visited', params'.ef)
  <2>1. PICK r : r = Route'
    OBVIOUS
  <2> HIDE DEF d
  <2> QED
    BY <1>1, <1>4, <1>5, <1>6, <1>8, <2>1, OneCandidate
<1>10. bufs' \in Seq(0 .. DataBlocks(N)) /\ Len(bufs') = params'.w
  <2> DEFINE S == 0 .. DataBlocks(N)
  <2>1. 0 \in S
    BY Sizes, LayoutAssumption, LoopConstants, Loops!DivisionLaw DEF DataBlocks
  <2>2. \A i \in 1 .. Len(bufs) : bufs[i] \in S
    <3> HIDE DEF S
    <3>1. bufs \in Seq(S)
      BY <1>3 DEF S
    <3> QED
      BY <3>1, ElementOfSeq
  <2>3. \A i \in 1 .. params'.w : (IF i <= Len(bufs) THEN bufs[i] ELSE Junk) \in S
    BY <1>3, <1>8, <2>1, <2>2 DEF Junk
  <2> HIDE DEF S
  <2>4. bufs' \in [1 .. params'.w -> S]
    BY <1>1, <2>3 DEF Resized
  <2>5. PICK n, f : n = params'.w /\ f = bufs'
    OBVIOUS
  <2>6. f \in Seq(S) /\ Len(f) = n
    BY <1>8, <2>4, <2>5, LoopConstants, Loops!SeqOfFunction
  <2> QED
    BY <2>5, <2>6 DEF S
<1>11. TypeOK'
  <2>1. /\ visited' \subseteq Nodes /\ expanded' \in Seq(Nodes) /\ frontier' \in Seq(Nodes)
        /\ top' \in Seq(Beams!Scored) /\ Len(top') = 0 /\ Len(frontier') = 0
    BY <1>1, <1>4
  <2>2. answer' \in [ok: BOOLEAN, top: Seq(Beams!Scored), reads: Nat]
    BY <1>1 DEF NoAnswer
  <2>3. Len(top') <= params'.k /\ Len(frontier') <= params'.w /\ Len(pool') <= params'.ef /\ read' \in 0 .. params'.w
    BY <1>1, <1>8, <1>9, <2>1
  <2>4. base' \in Bases /\ nbrs' \in Graphs /\ pc' \in {"idle", "round", "read", "collect", "returned"}
        /\ query' \in Points /\ routing' \in {"exact", "sq8"} /\ ioErr' \in BOOLEAN
    BY <1>1, <1>3
  <2> QED
    BY <1>7, <1>9, <1>10, <2>1, <2>2, <2>3, <2>4 DEF TypeOK
<1>12. Trained'
  BY <1>1, <1>3 DEF Trained
<1>13. ToSet(expanded') = {} /\ ~ Reading' /\ Done' = {}
  BY <1>1 DEF ToSet, Reading, Done
<1>14. BeamTidy'
  <2>1. \A i, j \in DOMAIN expanded' : expanded'[i] = expanded'[j] => i = j
    BY <1>1
  <2> QED
    BY <1>9, <1>13, <2>1 DEF BeamTidy
<1>15. RoundRead'
  BY <1>1, <1>13 DEF RoundRead
<1>16. TopNearest'
  BY <1>1, <1>8, <1>13 DEF TopNearest, Beams!NearestOf
<1>17. WithinReach'
  <2>1. Beams!NeighboursOf([nbrs |-> nbrs], {}) = {}
    BY DEF Beams!NeighboursOf
  <2>2. Medoid \in Reachable
    BY <1>4 DEF Reachable
  <2>3. Reachable' = Reachable
    BY <1>1, <1>4 DEF Reachable
  <2> QED
    BY <1>1, <1>4, <1>13, <2>1, <2>2, <2>3 DEF WithinReach
<1>18. AnswerKept'
  BY <1>1 DEF AnswerKept
<1> QED
  BY <1>11, <1>12, <1>14, <1>15, <1>16, <1>17, <1>18 DEF IndInv


\* Within a call the distances stay, and so do the nodes within reach.
LEMMA CallStays ==
  ASSUME UNCHANGED <<given, call>>
  PROVE  /\ base' = base /\ nbrs' = nbrs /\ book' = book
         /\ query' = query /\ routing' = routing /\ params' = params
         /\ Route' = Route /\ Exact' = Exact /\ Medoid' = Medoid /\ Reachable' = Reachable
<1>1. /\ base' = base /\ nbrs' = nbrs /\ book' = book
      /\ query' = query /\ routing' = routing /\ params' = params
  BY DEF given, call
<1>2. Medoid' = Medoid
  BY <1>1 DEF Medoid
<1>3. Route' = Route /\ Exact' = Exact
  BY <1>1 DEF Route, Exact, Score
<1>4. Reachable' = Reachable
  BY <1>1, <1>2 DEF Reachable
<1> QED
  BY <1>1, <1>2, <1>3, <1>4

\* What the search's lemmas say of the beam of a call.
LEMMA FrontierOf ==
  ASSUME TypeOK, Trained, BeamTidy
  PROVE  LET E == ToSet(expanded)
             f == Beams!Frontier(pool)
             m == Beams!MarkExpanded(pool)
         IN  /\ f \in Seq(Nodes) /\ Len(f) <= params.w
             /\ ToSet(f) \subseteq visited /\ \A i \in DOMAIN f : f[i] \notin E
             /\ \A i, j \in DOMAIN f : f[i] = f[j] => i = j
             /\ m \in Seq(Beams!Cand) /\ Len(m) = Len(pool)
             /\ Beams!Tidy([visited |-> visited, pool |-> m], E \cup ToSet(f))
             /\ Beams!NearestOf(m, Route, visited, params.ef)
             /\ f = <<>> => \A i \in DOMAIN pool : pool[i].expanded
<1> DEFINE E == ToSet(expanded)
           f == Search!Frontier(pool)
           m == Search!MarkExpanded(pool)
<1>1. Search!BeamAssumption
  BY CallFacts
<1>2. pool \in Seq(Search!Cand) /\ visited \in SUBSET Nodes /\ Len(pool) <= params.ef /\ Len(pool) \in Nat
  BY SameSets DEF TypeOK
<1>3. Search!Tidy([visited |-> visited, pool |-> pool], E)
  BY SamePredicates DEF BeamTidy
<1>4. Search!NearestOf(pool, Route, visited, params.ef)
  BY SamePredicates DEF BeamTidy
<1> HIDE DEF E
<1>5. /\ f \in Seq(Nodes) /\ Search!ToSet(f) \subseteq visited
      /\ \A i \in DOMAIN f : f[i] \notin E
      /\ \A i, j \in DOMAIN f : f[i] = f[j] => i = j
  BY <1>1, <1>2, <1>3, Search!FrontierNew
<1>6. /\ Search!FrontierAt(pool) \in Seq(DOMAIN pool) /\ Len(Search!FrontierAt(pool)) <= params.w
      /\ Search!FrontierAt(pool) = <<>> => \A i \in DOMAIN pool : i <= params.ef => pool[i].expanded
  BY <1>1, <1>2, Search!FrontierAtFacts
<1>7. /\ Len(f) = Len(Search!FrontierAt(pool)) /\ (f = <<>> <=> Search!FrontierAt(pool) = <<>>)
  BY <1>1, <1>2, Search!FrontierFacts
<1>8. m \in Seq(Search!Cand) /\ Len(m) = Len(pool)
  BY <1>1, <1>2, Search!MarkExpandedFacts
<1>9. Search!Tidy([visited |-> visited, pool |-> m], E \cup Search!ToSet(f))
  BY <1>1, <1>2, <1>3, Search!RoundExpands
<1>10. Search!NearestOf(m, Route, visited, params.ef)
  BY <1>1, <1>2, <1>4, Search!MarkExpandedNearest
<1>11. f = <<>> => \A i \in DOMAIN pool : pool[i].expanded
  <2>1. \A i \in DOMAIN pool : i <= params.ef
    <3>1. DOMAIN pool = 1 .. Len(pool) /\ params.ef \in Nat
      BY <1>2 DEF TypeOK
    <3> QED
      BY <1>2, <3>1
  <2> QED
    BY <1>6, <1>7, <2>1
<1>12. Len(f) <= params.w
  BY <1>6, <1>7
<1>13. /\ f = Beams!Frontier(pool) /\ m = Beams!MarkExpanded(pool)
       /\ Search!ToSet(f) = ToSet(f) /\ Search!Cand = Beams!Cand
  BY SameFrontier, SameSets
<1> HIDE DEF f, m
<1>14. /\ Beams!Tidy([visited |-> visited, pool |-> m], E \cup ToSet(f))
       /\ Beams!NearestOf(m, Route, visited, params.ef)
  BY <1>9, <1>10, <1>13, SamePredicates
<1> QED
  BY <1>5, <1>8, <1>11, <1>12, <1>13, <1>14 DEF E

\* One sequence behind another, with nothing in both.
LEMMA ConcatFacts ==
  ASSUME NEW s \in Seq(Nodes), NEW t \in Seq(Nodes),
         \A i, j \in DOMAIN s : s[i] = s[j] => i = j,
         \A i, j \in DOMAIN t : t[i] = t[j] => i = j,
         \A i \in DOMAIN t : t[i] \notin ToSet(s)
  PROVE  /\ s \o t \in Seq(Nodes) /\ ToSet(s \o t) = ToSet(s) \cup ToSet(t)
         /\ \A i, j \in DOMAIN (s \o t) : (s \o t)[i] = (s \o t)[j] => i = j
<1>1. s \o t \in Seq(Nodes) /\ ToSet(s \o t) = ToSet(s) \cup ToSet(t)
  <2>1. \A r : Loops!ToSet(r) = ToSet(r)
    BY DEF Loops!ToSet, ToSet
  <2> QED
    BY <2>1, LoopConstants, Loops!ConcatNodes
<1> DEFINE c == s \o t
           n == Len(s)
<1>2. n \in Nat /\ DOMAIN s = 1 .. n /\ Len(t) \in Nat /\ DOMAIN t = 1 .. Len(t)
  OBVIOUS
<1>3. DOMAIN c = 1 .. (n + Len(t)) /\ \A i \in DOMAIN c : c[i] = IF i <= n THEN s[i] ELSE t[i - n]
  OBVIOUS
<1>4. \A i \in DOMAIN s : s[i] \in ToSet(s)
  BY DEF ToSet
<1> HIDE DEF c, n
<1>5. ASSUME NEW i \in DOMAIN c, NEW j \in DOMAIN c, c[i] = c[j] PROVE i = j
  <2>1. CASE i <= n /\ j <= n
    <3>1. i \in DOMAIN s /\ j \in DOMAIN s /\ s[i] = s[j]
      BY <1>2, <1>3, <1>5, <2>1
    <3> QED
      BY <3>1
  <2>2. CASE i > n /\ j > n
    <3>1. i - n \in DOMAIN t /\ j - n \in DOMAIN t /\ t[i - n] = t[j - n]
      BY <1>2, <1>3, <1>5, <2>2
    <3>2. i - n = j - n
      BY <3>1
    <3> QED
      BY <1>2, <1>3, <3>2
  <2>3. CASE i <= n /\ j > n
    <3>1. i \in DOMAIN s /\ j - n \in DOMAIN t /\ s[i] = t[j - n]
      BY <1>2, <1>3, <1>5, <2>3
    <3> QED
      BY <1>4, <3>1
  <2>4. CASE i > n /\ j <= n
    <3>1. j \in DOMAIN s /\ i - n \in DOMAIN t /\ s[j] = t[i - n]
      BY <1>2, <1>3, <1>5, <2>4
    <3> QED
      BY <1>4, <3>1
  <2> QED
    BY <1>2, <1>3, <2>1, <2>2, <2>3, <2>4
<1> QED
  BY <1>1, <1>5 DEF c

LEMMA ExpandKeeps ==
  ASSUME IndInv, Expand
  PROVE  IndInv'
<1>1. /\ pc = "round" /\ Beams!Frontier(pool) # <<>>
      /\ frontier' = Beams!Frontier(pool) /\ pool' = Beams!MarkExpanded(pool)
      /\ expanded' = expanded \o frontier'
      /\ pc' = (IF ioErr THEN "round" ELSE "read")
      /\ UNCHANGED <<given, call>>
      /\ bufs' = bufs /\ visited' = visited /\ read' = read /\ ioErr' = ioErr
      /\ top' = top /\ answer' = answer
  BY Zenon DEF Expand
<1>2. TypeOK /\ Trained /\ BeamTidy /\ RoundRead /\ TopNearest /\ WithinReach /\ AnswerKept
  BY DEF IndInv
<1>3. PICK f : f = Beams!Frontier(pool)
  OBVIOUS
<1>4. PICK m : m = Beams!MarkExpanded(pool)
  OBVIOUS
<1>5. /\ f \in Seq(Nodes) /\ Len(f) <= params.w
      /\ ToSet(f) \subseteq visited /\ \A i \in DOMAIN f : f[i] \notin ToSet(expanded)
      /\ \A i, j \in DOMAIN f : f[i] = f[j] => i = j
      /\ m \in Seq(Beams!Cand) /\ Len(m) = Len(pool)
      /\ Beams!Tidy([visited |-> visited, pool |-> m], ToSet(expanded) \cup ToSet(f))
      /\ Beams!NearestOf(m, Route, visited, params.ef)
  BY <1>2, <1>3, <1>4, FrontierOf
<1>6. frontier' = f /\ pool' = m /\ expanded' = expanded \o f /\ f # <<>>
  BY <1>1, <1>3, <1>4
<1>7. /\ base' = base /\ nbrs' = nbrs /\ book' = book
      /\ query' = query /\ routing' = routing /\ params' = params
      /\ Route' = Route /\ Exact' = Exact /\ Medoid' = Medoid /\ Reachable' = Reachable
  BY <1>1, CallStays
<1>8. PICK e : e = expanded
  OBVIOUS
<1>9. e \in Seq(Nodes) /\ \A i, j \in DOMAIN e : e[i] = e[j] => i = j
  BY <1>2, <1>8 DEF TypeOK, BeamTidy
<1>10. /\ e \o f \in Seq(Nodes) /\ ToSet(e \o f) = ToSet(e) \cup ToSet(f)
       /\ \A i, j \in DOMAIN (e \o f) : (e \o f)[i] = (e \o f)[j] => i = j
  BY <1>5, <1>8, <1>9, ConcatFacts
<1>11. /\ expanded' = e \o f /\ expanded' \in Seq(Nodes) /\ ToSet(expanded') = ToSet(expanded) \cup ToSet(f)
       /\ \A i, j \in DOMAIN expanded' : expanded'[i] = expanded'[j] => i = j
  BY <1>6, <1>8, <1>10
<1>12. TypeOK'
  <2>1. pc' \in {"idle", "round", "read", "collect", "returned"}
    BY <1>1
  <2>2. Len(pool') <= params'.ef /\ Len(frontier') <= params'.w /\ bufs' \in Seq(0 .. DataBlocks(N)) /\ Len(bufs') = params'.w
    BY <1>1, <1>2, <1>5, <1>6, <1>7 DEF TypeOK
  <2> QED
    BY <1>1, <1>2, <1>5, <1>6, <1>7, <1>11, <2>1, <2>2 DEF TypeOK
<1>13. Trained'
  BY <1>2, <1>7 DEF Trained
<1>14. BeamTidy'
  BY <1>1, <1>5, <1>6, <1>7, <1>11 DEF BeamTidy
<1>15. read = 0 /\ read' = 0
  BY <1>1, <1>2 DEF RoundRead
<1>16. RoundRead'
  <2>1. CASE ioErr
    <3>1. ~ Reading'
      BY <1>1, <2>1 DEF Reading
    <3> QED
      BY <1>15, <3>1 DEF RoundRead
  <2>2. CASE ~ ioErr
    <3>1. pc' = "read" /\ ~ ioErr' /\ frontier' # <<>> /\ ToSet(frontier') \subseteq ToSet(expanded')
      BY <1>1, <1>6, <1>11, <2>2
    <3>2. Len(f) \in Nat /\ Len(f) > 0 /\ \A i \in DOMAIN f : i > 0
      BY <1>5, <1>6
    <3>3. read' < Len(frontier') /\ \A i \in DOMAIN frontier' : ~ (i <= read')
      BY <1>6, <1>15, <3>2
    <3> QED
      BY <1>5, <1>6, <1>15, <3>1, <3>3 DEF RoundRead
  <2> QED
    BY <2>1, <2>2
<1>17. ~ ioErr => Done' = Done
  <2> SUFFICES ASSUME ~ ioErr PROVE Done' = Done
    OBVIOUS
  <2>1. Reading' /\ ~ Reading
    BY <1>1 DEF Reading
  <2>2. Done = ToSet(expanded) /\ Done' = ToSet(expanded') \ ToSet(frontier')
    BY <2>1 DEF Done
  <2>3. \A n \in ToSet(f) : n \notin ToSet(expanded)
    BY <1>5 DEF ToSet
  <2> QED
    BY <1>6, <1>11, <2>2, <2>3
<1>18. TopNearest'
  BY <1>1, <1>2, <1>7, <1>17 DEF TopNearest
<1>19. WithinReach'
  BY <1>1, <1>2, <1>7, <1>17 DEF WithinReach
<1>20. AnswerKept'
  BY <1>1, <1>2 DEF AnswerKept
<1> QED
  BY <1>12, <1>13, <1>14, <1>16, <1>18, <1>19, <1>20 DEF IndInv


\* A round being read has a node to read next, and a buffer for it.
LEMMA NextRead ==
  ASSUME TypeOK, RoundRead, pc = "read"
  PROVE  /\ read + 1 \in DOMAIN frontier /\ read + 1 \in DOMAIN bufs
         /\ read + 1 \in 1 .. Len(frontier) /\ Len(frontier) <= params.w
         /\ BlockOf(read + 1) \in Nat \ {0}
<1>1. /\ frontier \in Seq(Nodes) /\ Len(frontier) <= params.w /\ read < Len(frontier)
      /\ read \in Nat /\ params.w \in Nat /\ bufs \in Seq(0 .. DataBlocks(N)) /\ Len(bufs) = params.w
  BY DEF TypeOK, RoundRead, Reading
<1>2. /\ Len(frontier) \in Nat /\ DOMAIN frontier = 1 .. Len(frontier) /\ DOMAIN bufs = 1 .. params.w
  BY <1>1
<1>3. read + 1 \in 1 .. Len(frontier) /\ read + 1 \in 1 .. params.w
  BY <1>1, <1>2
<1>4. frontier[read + 1] \in Nodes
  BY <1>1, <1>3, ElementOfSeq
<1>5. BlockOf(read + 1) \in Nat \ {0}
  BY <1>4, NodeFound DEF BlockOf
<1> QED
  BY <1>1, <1>2, <1>3, <1>5

\* One buffer written, the others as they were.
LEMMA BufferWritten ==
  ASSUME NEW S, NEW b \in Seq(S), NEW i \in DOMAIN b, NEW x \in S
  PROVE  LET c == [b EXCEPT ![i] = x] IN
         /\ c \in Seq(S) /\ Len(c) = Len(b) /\ DOMAIN c = DOMAIN b
         /\ c[i] = x /\ \A j \in DOMAIN b : j # i => c[j] = b[j]
OBVIOUS

LEMMA ReadBlockKeeps ==
  ASSUME IndInv, ReadBlock
  PROVE  IndInv'
<1> DEFINE n == read + 1
<1>1. /\ pc = "read" /\ BlockOf(n) <= DataBlocks(N)
      /\ bufs' = [bufs EXCEPT ![n] = BlockOf(n)]
      /\ read' = (IF n = Len(frontier) THEN 0 ELSE n)
      /\ pc' = (IF n = Len(frontier) THEN "collect" ELSE "read")
      /\ UNCHANGED <<given, call>>
      /\ pool' = pool /\ visited' = visited /\ expanded' = expanded
      /\ frontier' = frontier /\ ioErr' = ioErr /\ top' = top /\ answer' = answer
  BY DEF ReadBlock, beam
<1>2. TypeOK /\ Trained /\ BeamTidy /\ RoundRead /\ TopNearest /\ WithinReach /\ AnswerKept
  BY DEF IndInv
<1>3. /\ n \in DOMAIN frontier /\ n \in DOMAIN bufs /\ n \in 1 .. Len(frontier)
      /\ Len(frontier) <= params.w /\ BlockOf(n) \in Nat \ {0}
  BY <1>1, <1>2, NextRead
<1>4. /\ base' = base /\ nbrs' = nbrs /\ book' = book
      /\ query' = query /\ routing' = routing /\ params' = params
      /\ Route' = Route /\ Exact' = Exact /\ Medoid' = Medoid /\ Reachable' = Reachable
  BY <1>1, CallStays
<1>5. /\ bufs \in Seq(0 .. DataBlocks(N)) /\ Len(bufs) = params.w /\ params.w \in Nat
      /\ frontier \in Seq(Nodes) /\ Len(frontier) \in Nat /\ DOMAIN frontier = 1 .. Len(frontier)
      /\ read \in Nat
  BY <1>1, <1>2 DEF TypeOK
<1>6. DataBlocks(N) \in Nat
  BY Sizes, LayoutAssumption, LoopConstants, Loops!DivisionLaw DEF DataBlocks
<1>7. BlockOf(n) \in 0 .. DataBlocks(N)
  BY <1>1, <1>3, <1>6
<1>8. /\ bufs' \in Seq(0 .. DataBlocks(N)) /\ Len(bufs') = params.w
      /\ bufs'[n] = BlockOf(n) /\ \A j \in DOMAIN bufs : j # n => bufs'[j] = bufs[j]
  <2> DEFINE S == 0 .. DataBlocks(N)
  <2>1. bufs \in Seq(S) /\ BlockOf(n) \in S
    BY <1>5, <1>7
  <2> HIDE DEF S
  <2>2. PICK b, c, x : b = bufs /\ c = bufs' /\ x = BlockOf(n)
    OBVIOUS
  <2>3. PICK i : i = n
    OBVIOUS
  <2> HIDE DEF n
  <2>4. c = [b EXCEPT ![i] = x] /\ b \in Seq(S) /\ x \in S /\ i \in DOMAIN b
    BY <1>1, <1>3, <2>1, <2>2, <2>3
  <2>5. c \in Seq(S) /\ Len(c) = Len(b) /\ c[i] = x /\ \A j \in DOMAIN b : j # i => c[j] = b[j]
    BY <2>4, BufferWritten
  <2> QED
    BY <1>5, <2>2, <2>3, <2>5 DEF S
<1>9. read' \in 0 .. params'.w /\ (pc' # "read" => read' = 0) /\ (pc' = "read" => read' < Len(frontier'))
  <2>1. PICK l, w : l = Len(frontier) /\ w = params.w
    OBVIOUS
  <2>2. l \in Nat /\ w \in Nat /\ l <= w /\ n \in 1 .. l
    BY <1>3, <1>5, <2>1
  <2>3. CASE n = l
    BY <1>1, <1>4, <2>1, <2>2, <2>3
  <2>4. CASE n # l
    <3>1. read' = n /\ pc' = "read" /\ Len(frontier') = l /\ params'.w = w
      BY <1>1, <1>4, <2>1, <2>4
    <3>2. n \in 0 .. w /\ n < l
      BY <2>2, <2>4
    <3> QED
      BY <3>1, <3>2
  <2> QED
    BY <2>3, <2>4
<1>10. TypeOK'
  <2>1. pc' \in {"idle", "round", "read", "collect", "returned"}
    BY <1>1
  <2> QED
    BY <1>1, <1>2, <1>4, <1>8, <1>9, <2>1 DEF TypeOK
<1>11. Reading /\ Reading' /\ Done' = Done
  BY <1>1 DEF Reading, Done
<1>12. \A i \in DOMAIN frontier : i <= n => bufs'[i] = BlockOf(i)
  <2> TAKE i \in DOMAIN frontier
  <2> HAVE i <= n
  <2>1. i \in Nat /\ i \in DOMAIN bufs
    BY <1>3, <1>5
  <2>2. CASE i = n
    BY <1>8, <2>2
  <2>3. CASE i # n
    <3>1. i <= read
      BY <1>5, <2>1, <2>3
    <3>2. bufs[i] = BlockOf(i)
      BY <1>2, <1>11, <3>1 DEF RoundRead
    <3> QED
      BY <1>8, <2>1, <2>3, <3>2
  <2> QED
    BY <2>2, <2>3
<1>13. \A i : BlockOf(i)' = BlockOf(i)
  BY <1>1 DEF BlockOf
<1>14. RoundRead'
  <2>1. /\ ~ ioErr' /\ frontier' # <<>> /\ ToSet(frontier') \subseteq ToSet(expanded')
        /\ \A i, j \in DOMAIN frontier' : frontier'[i] = frontier'[j] => i = j
    BY <1>1, <1>2, <1>11 DEF RoundRead
  <2>2. (pc' # "read" => read' = 0) /\ (pc' = "read" => read' < Len(frontier'))
    BY <1>9
  <2>3. \A i \in DOMAIN frontier' : pc' = "collect" \/ i <= read' => bufs'[i] = BlockOf(i)'
    <3> SUFFICES ASSUME NEW i \in DOMAIN frontier, pc' = "collect" \/ i <= read' PROVE bufs'[i] = BlockOf(i)
      BY <1>1, <1>13
    <3>1. i \in Nat /\ i >= 1 /\ i <= Len(frontier)
      BY <1>5
    <3>2. i <= n
      <4>1. CASE n = Len(frontier)
        BY <3>1, <4>1
      <4>2. CASE n # Len(frontier)
        <5>1. pc' = "read" /\ read' = n
          BY <1>1, <4>2
        <5> HIDE DEF n
        <5> QED
          BY <5>1
      <4> QED
        BY <4>1, <4>2
    <3> QED
      BY <1>12, <3>2
  <2> QED
    BY <2>1, <2>2, <2>3 DEF RoundRead
<1>15. Trained' /\ BeamTidy'
  BY <1>1, <1>2, <1>4 DEF Trained, BeamTidy
<1>16. TopNearest' /\ WithinReach'
  BY <1>1, <1>2, <1>4, <1>11 DEF TopNearest, WithinReach
<1>17. AnswerKept'
  BY <1>1, <1>2 DEF AnswerKept
<1> QED
  BY <1>10, <1>14, <1>15, <1>16, <1>17 DEF IndInv

LEMMA ReadFailsKeeps ==
  ASSUME IndInv, ReadFails
  PROVE  IndInv'
<1> DEFINE n == read + 1
<1>1. /\ pc = "read" /\ (bufs' = bufs \/ bufs' = [bufs EXCEPT ![n] = Junk])
      /\ read' = 0 /\ ioErr' = TRUE /\ pc' = "round"
      /\ UNCHANGED <<given, call>>
      /\ pool' = pool /\ visited' = visited /\ expanded' = expanded
      /\ frontier' = frontier /\ top' = top /\ answer' = answer
  BY DEF ReadFails, beam
<1>2. TypeOK /\ Trained /\ BeamTidy /\ RoundRead /\ AnswerKept
  BY DEF IndInv
<1>3. n \in DOMAIN bufs
  BY <1>1, <1>2, NextRead
<1>4. /\ base' = base /\ nbrs' = nbrs /\ book' = book
      /\ query' = query /\ routing' = routing /\ params' = params /\ Route' = Route
  BY <1>1, CallStays
<1>5. bufs \in Seq(0 .. DataBlocks(N)) /\ Len(bufs) = params.w /\ params.w \in Nat
  BY <1>1, <1>2 DEF TypeOK
<1>6. Junk \in 0 .. DataBlocks(N)
  BY Sizes, LayoutAssumption, LoopConstants, Loops!DivisionLaw DEF DataBlocks, Junk
<1>7. bufs' \in Seq(0 .. DataBlocks(N)) /\ Len(bufs') = params.w
  <2> DEFINE S == 0 .. DataBlocks(N)
  <2>1. bufs \in Seq(S) /\ Junk \in S
    BY <1>5, <1>6
  <2> HIDE DEF S
  <2>2. PICK b, c, x : b = bufs /\ c = [bufs EXCEPT ![n] = Junk] /\ x = Junk
    OBVIOUS
  <2>3. PICK i : i = n
    OBVIOUS
  <2> HIDE DEF n
  <2>4. c = [b EXCEPT ![i] = x] /\ b \in Seq(S) /\ x \in S /\ i \in DOMAIN b
    BY <1>3, <2>1, <2>2, <2>3
  <2>5. c \in Seq(S) /\ Len(c) = Len(b)
    BY <2>4, BufferWritten
  <2>6. bufs' \in Seq(S) /\ Len(bufs') = Len(bufs)
    BY <1>1, <2>1, <2>2, <2>5 DEF n
  <2> QED
    BY <1>5, <2>6 DEF S
<1>8. TypeOK'
  BY <1>1, <1>2, <1>4, <1>5, <1>7 DEF TypeOK
<1>9. Trained' /\ BeamTidy'
  BY <1>1, <1>2, <1>4 DEF Trained, BeamTidy
<1>10. RoundRead' /\ TopNearest' /\ WithinReach'
  BY <1>1 DEF RoundRead, Reading, TopNearest, WithinReach
<1>11. AnswerKept'
  BY <1>1, <1>2 DEF AnswerKept
<1> QED
  BY <1>8, <1>9, <1>10, <1>11 DEF IndInv

LEMMA ReturnKeeps ==
  ASSUME IndInv, Return
  PROVE  IndInv'
<1>1. /\ pc = "round" /\ Beams!Frontier(pool) = <<>> /\ pc' = "returned"
      /\ answer' = (IF ioErr THEN NoAnswer ELSE [ok |-> TRUE, top |-> top, reads |-> Len(expanded)])
      /\ UNCHANGED <<given, call>>
      /\ bufs' = bufs /\ pool' = pool /\ visited' = visited /\ expanded' = expanded
      /\ frontier' = frontier /\ read' = read /\ ioErr' = ioErr /\ top' = top
  BY DEF Return, beam
<1>2. TypeOK /\ Trained /\ BeamTidy /\ RoundRead /\ TopNearest /\ WithinReach
  BY DEF IndInv
<1>3. /\ base' = base /\ nbrs' = nbrs /\ book' = book
      /\ query' = query /\ routing' = routing /\ params' = params
      /\ Route' = Route /\ Exact' = Exact /\ Medoid' = Medoid /\ Reachable' = Reachable
  BY <1>1, CallStays
<1>4. \A i \in DOMAIN pool : pool[i].expanded
  BY <1>1, <1>2, FrontierOf
<1>5. answer' \in [ok: BOOLEAN, top: Seq(Beams!Scored), reads: Nat]
  <2>1. top \in Seq(Beams!Scored) /\ Len(expanded) \in Nat
    BY <1>2 DEF TypeOK
  <2>2. <<>> \in Seq(Beams!Scored)
    OBVIOUS
  <2> QED
    BY <1>1, <2>1, <2>2 DEF NoAnswer
<1>6. TypeOK'
  BY <1>1, <1>2, <1>3, <1>5 DEF TypeOK
<1>7. ~ Reading /\ ~ Reading' /\ Done' = Done
  BY <1>1 DEF Reading, Done
<1>8. Trained' /\ BeamTidy'
  BY <1>1, <1>2, <1>3 DEF Trained, BeamTidy
<1>9. RoundRead'
  BY <1>1, <1>2, <1>7 DEF RoundRead
<1>10. TopNearest' /\ WithinReach'
  BY <1>1, <1>2, <1>3, <1>7 DEF TopNearest, WithinReach
<1>11. AnswerKept'
  BY <1>1, <1>4 DEF AnswerKept
<1> QED
  BY <1>6, <1>8, <1>9, <1>10, <1>11 DEF IndInv

LEMMA HandOverKeeps ==
  ASSUME IndInv, HandOver
  PROVE  IndInv'
<1>1. /\ pc' = "idle" /\ query' = NoQuery /\ routing' = "exact" /\ params' = NoParams
      /\ pool' = <<>> /\ visited' = {}
      /\ expanded' = <<>> /\ frontier' = <<>> /\ read' = 0 /\ ioErr' = FALSE /\ top' = <<>>
      /\ answer' = NoAnswer
      /\ base' = base /\ nbrs' = nbrs /\ book' = book /\ bufs' = bufs
  BY DEF HandOver, Begin, given
<1>2. base \in Bases /\ nbrs \in Graphs /\ book = Train(base) /\ bufs \in Seq(0 .. DataBlocks(N))
  BY DEF IndInv, TypeOK, Trained
<1>3. NoQuery \in Points
  BY SearchAssumption, Zenon DEF NoQuery
<1>4. /\ params' \in [k: Nat \ {0}, ef: Nat, w: 1 .. MaxW] /\ params'.ef >= params'.k
      /\ params'.ef = 1 /\ params'.k = 1 /\ params'.w = 1
  BY <1>1, SearchAssumption DEF NoParams
<1>5. TypeOK'
  <2>1. answer' \in [ok: BOOLEAN, top: Seq(Beams!Scored), reads: Nat]
    BY <1>1 DEF NoAnswer
  <2>2. /\ pool' \in Seq(Beams!Cand) /\ visited' \subseteq Nodes /\ expanded' \in Seq(Nodes)
        /\ frontier' \in Seq(Nodes) /\ top' \in Seq(Beams!Scored)
    BY <1>1
  <2>3. read' \in 0 .. params'.w /\ Len(pool') <= params'.ef /\ Len(frontier') <= params'.w /\ Len(top') <= params'.k
    BY <1>1, <1>4
  <2> QED
    BY <1>1, <1>2, <1>3, <1>4, <2>1, <2>2, <2>3 DEF TypeOK
<1>6. ToSet(<<>>) = {} /\ Done' = {} /\ ~ Reading'
  BY <1>1 DEF ToSet, Done, Reading
<1>7. BeamTidy'
  <2>1. Beams!Tidy([visited |-> visited', pool |-> pool'], ToSet(expanded'))
    BY <1>1, <1>6 DEF Beams!Tidy, Beams!Beam
  <2>2. Beams!NearestOf(pool', Route', visited', params'.ef)
    BY <1>1, <1>4 DEF Beams!NearestOf
  <2> QED
    BY <1>1, <2>1, <2>2 DEF BeamTidy
<1>8. RoundRead' /\ Trained'
  BY <1>1, <1>2, <1>6 DEF RoundRead, Trained
<1>9. TopNearest'
  BY <1>1, <1>4, <1>6 DEF TopNearest, Beams!NearestOf
<1>10. WithinReach' /\ AnswerKept'
  BY <1>1 DEF WithinReach, AnswerKept
<1> QED
  BY <1>5, <1>7, <1>8, <1>9, <1>10 DEF IndInv

LEMMA NothingKeeps ==
  ASSUME IndInv, UNCHANGED vars
  PROVE  IndInv'
<1>1. /\ UNCHANGED <<given, call>>
      /\ pc' = pc /\ bufs' = bufs /\ pool' = pool /\ visited' = visited /\ expanded' = expanded
      /\ frontier' = frontier /\ read' = read /\ ioErr' = ioErr /\ top' = top /\ answer' = answer
  BY DEF vars, beam
<1>2. TypeOK /\ Trained /\ BeamTidy /\ RoundRead /\ TopNearest /\ WithinReach /\ AnswerKept
  BY DEF IndInv
<1>3. /\ base' = base /\ nbrs' = nbrs /\ book' = book
      /\ query' = query /\ routing' = routing /\ params' = params
      /\ Route' = Route /\ Exact' = Exact /\ Medoid' = Medoid /\ Reachable' = Reachable
  BY <1>1, CallStays
<1>4. TypeOK'
  BY <1>1, <1>2, <1>3 DEF TypeOK
<1>5. Reading' = Reading /\ Done' = Done /\ \A i : BlockOf(i)' = BlockOf(i)
  BY <1>1 DEF Reading, Done, BlockOf
<1>6. Trained' /\ BeamTidy'
  BY <1>1, <1>2, <1>3 DEF Trained, BeamTidy
<1>7. RoundRead'
  BY <1>1, <1>2, <1>5 DEF RoundRead
<1>8. TopNearest' /\ WithinReach' /\ AnswerKept'
  BY <1>1, <1>2, <1>3, <1>5 DEF TopNearest, WithinReach, AnswerKept
<1> QED
  BY <1>4, <1>6, <1>7, <1>8 DEF IndInv


-----------------------------------------------------------------------------
\* When the blocks of a round are read, what is taken out of the buffers is the
\* vector and the neighbours of each of its nodes.
LEMMA FoundFacts ==
  ASSUME TypeOK, RoundRead, pc = "collect", NEW i \in DOMAIN frontier
  PROVE  /\ frontier[i] \in Nodes
         /\ Found[i].vector = base[frontier[i]] /\ Found[i].nbrs = nbrs[frontier[i]]
<1>1. frontier \in Seq(Nodes) /\ bufs[i] = BlockOf(i)
  BY DEF TypeOK, RoundRead, Reading
<1>2. frontier[i] \in Nodes
  BY <1>1
<1>3. PICK node \in Nodes : node = frontier[i]
  BY <1>2
<1> DEFINE block == Locate(node).block
           slot == Locate(node).slot
<1>4. /\ block \in Nat \ {0} /\ slot \in Nat
      /\ slot + 1 \in DOMAIN NodesOf(N, block) /\ NodesOf(N, block)[slot + 1] = node
  BY NodeFound
<1>5. Found[i] = NodeBytes(block, slot)
  BY <1>1, <1>3 DEF Found, BlockOf
<1> HIDE DEF block, slot
<1>6. block # Junk
  BY <1>4 DEF Junk
<1>7. NodeBytes(block, slot) = [vector |-> base[node], nbrs |-> nbrs[node]]
  BY <1>4, <1>6, Zenon DEF NodeBytes
<1> QED
  BY <1>2, <1>3, <1>5, <1>7

LEMMA SameOnes ==
  /\ \A t, dist, id : Beams!TopPush(t, dist, id) = Search!TopPush(t, dist, id)
  /\ \A step, state, seq : Beams!Loop(step, state, seq) = Search!Loop(step, state, seq)
BY SameTopPush, SameLoop

\* So the loop over them ranks the nodes of the round,
LEMMA RoundRanked ==
  ASSUME IndInv, Collect
  PROVE  /\ top' \in Seq(Beams!Scored)
         /\ Beams!NearestOf(top', Exact, Done \cup ToSet(frontier), params.k)
<1> DEFINE places == [i \in DOMAIN frontier |-> i]
           n == Len(frontier)
           step == [i \in DOMAIN frontier |-> [t \in Seq(Beams!Scored) |->
                      Beams!TopPush(t, L2Sq(query, Found[i].vector), frontier[i])]]
           P == [i \in 0 .. n |-> Done \cup {frontier[j] : j \in 1 .. i}]
<1>1. pc = "collect" /\ top' = Beams!Loop(step, top, places)
  BY Zenon DEF Collect
<1>2. TypeOK /\ Trained /\ BeamTidy /\ RoundRead /\ TopNearest
  BY DEF IndInv
<1>3. /\ n \in Nat /\ DOMAIN frontier = 1 .. n /\ \A i \in 1 .. n : frontier[i] \in Nodes
      /\ \A i \in 1 .. n : frontier[i] \in ToSet(frontier)
      /\ ToSet(frontier) = {frontier[j] : j \in 1 .. n}
  <2>1. frontier \in Seq(Nodes)
    BY <1>2 DEF TypeOK
  <2> QED
    BY <2>1 DEF ToSet
<1>4. /\ Reading /\ ~ ioErr /\ Done = ToSet(expanded) \ ToSet(frontier) /\ Done \in SUBSET Nodes
      /\ \A i, j \in 1 .. n : frontier[i] = frontier[j] => i = j
  <2>1. Reading
    BY <1>1 DEF Reading
  <2>2. ToSet(expanded) \subseteq Nodes
    BY <1>2 DEF TypeOK, ToSet
  <2> QED
    BY <1>2, <1>3, <2>1, <2>2 DEF RoundRead, Done
<1>5. \A i \in 1 .. n : places[i] = i
  BY <1>3
<1>6. places \in Seq(1 .. n) /\ Len(places) = n
  <2>1. places \in [1 .. n -> 1 .. n]
    BY <1>3
  <2>2. PICK c, G, S : c = n /\ G = places /\ S = 1 .. n
    OBVIOUS
  <2> HIDE DEF n, places
  <2>3. c \in Nat /\ G \in [1 .. c -> S]
    BY <1>3, <2>1, <2>2
  <2>4. G \in Seq(S) /\ Len(G) = c
    BY <2>3, LoopConstants, Loops!SeqOfFunction
  <2> QED
    BY <2>2, <2>4
<1>7. /\ \A i \in 0 .. n : P[i] \in SUBSET Nodes /\ P[i] = Done \cup {frontier[j] : j \in 1 .. i}
      /\ P[0] = Done /\ P[n] = Done \cup ToSet(frontier)
  <2>1. \A i \in 0 .. n : P[i] = Done \cup {frontier[j] : j \in 1 .. i}
    OBVIOUS
  <2>2. 0 \in 0 .. n /\ n \in 0 .. n /\ 1 .. 0 = {}
    BY <1>3
  <2>3. \A i \in 0 .. n : \A j \in 1 .. i : frontier[j] \in Nodes
    BY <1>3
  <2> HIDE DEF P, n
  <2>4. P[0] = Done
    BY <2>1, <2>2
  <2>5. P[n] = Done \cup ToSet(frontier)
    BY <1>3, <2>1, <2>2
  <2>6. \A i \in 0 .. n : P[i] \in SUBSET Nodes
    BY <1>4, <2>1, <2>3
  <2> QED
    BY <2>1, <2>4, <2>5, <2>6
<1>8. \A i \in 1 .. n : /\ i \in 0 .. n /\ i - 1 \in 0 .. n
                        /\ P[i] = P[i - 1] \cup {frontier[i]} /\ frontier[i] \notin P[i - 1]
  <2> TAKE i \in 1 .. n
  <2>1. i \in 0 .. n /\ i - 1 \in 0 .. n /\ i \in Nat /\ i >= 1
    BY <1>3
  <2>2. 1 .. i = (1 .. i - 1) \cup {i} /\ \A j \in 1 .. i - 1 : j \in 1 .. n /\ j # i
    BY <1>3, <2>1
  <2>3. P[i] = Done \cup {frontier[j] : j \in 1 .. i} /\ P[i - 1] = Done \cup {frontier[j] : j \in 1 .. i - 1}
    BY <1>7, <2>1
  <2> HIDE DEF P, n
  <2>4. {frontier[j] : j \in 1 .. i} = {frontier[j] : j \in 1 .. i - 1} \cup {frontier[i]}
    BY <2>2
  <2>5. frontier[i] \notin P[i - 1]
    BY <1>3, <1>4, <2>2, <2>3
  <2> QED
    BY <2>1, <2>3, <2>4, <2>5
<1>9. \A i \in 1 .. n : \A t \in Seq(Search!Scored) :
        step[i][t] = Search!TopPush(t, Exact[frontier[i]], frontier[i])
  <2> TAKE i \in 1 .. n
  <2> TAKE t \in Seq(Search!Scored)
  <2>1. t \in Seq(Beams!Scored) /\ i \in DOMAIN frontier
    BY <1>3, SameSets
  <2>2. step[i][t] = Beams!TopPush(t, L2Sq(query, Found[i].vector), frontier[i])
    BY <2>1
  <2>3. Found[i].vector = base[frontier[i]] /\ frontier[i] \in Nodes
    BY <1>1, <1>2, <2>1, FoundFacts
  <2>4. L2Sq(query, Found[i].vector) = Exact[frontier[i]]
    BY <2>3 DEF Exact
  <2> HIDE DEF step
  <2> QED
    BY <2>2, <2>4, SameOnes, Zenon
<1>10. /\ Search!BeamAssumption /\ Exact \in [Nodes -> Nat]
       /\ top \in Seq(Search!Scored) /\ Search!NearestOf(top, Exact, Done, params.k)
  <2>1. Beams!NearestOf(top, Exact, Done, params.k) /\ top \in Seq(Beams!Scored)
    BY <1>2, <1>4 DEF TopNearest, TypeOK
  <2> QED
    BY <1>2, <2>1, CallFacts, SameSets, SamePredicates
<1> HIDE DEF step, places, P, n
<1>11. PICK d, c, Q, F, s : d = Exact /\ c = n /\ Q = P /\ F = step /\ s = places
  OBVIOUS
<1>12. PICK A : A = 1 .. n
  OBVIOUS
<1>13. \A i \in 1 .. c : Search!Pushes(F[s[i]], d, Q[i - 1], Q[i])
  <2> TAKE i \in 1 .. c
  <2>1. s[i] = i /\ i \in 1 .. n
    BY <1>5, <1>11
  <2>2. PICK id \in Nodes : id = frontier[i]
    BY <1>3, <2>1
  <2>3. id \notin Q[i - 1] /\ Q[i] = Q[i - 1] \cup {id}
    BY <1>8, <1>11, <2>1, <2>2
  <2>4. \A t \in Seq(Search!Scored) : F[i][t] = Search!TopPush(t, d[id], id)
    BY <1>9, <1>11, <2>1, <2>2
  <2> QED
    BY <2>1, <2>3, <2>4, Zenon DEF Search!Pushes
<1>14. /\ s \in Seq(A) /\ Len(s) = c /\ d \in [Nodes -> Nat] /\ \A i \in 0 .. c : Q[i] \in SUBSET Nodes
       /\ Search!NearestOf(top, d, Q[0], params.k)
  BY <1>6, <1>7, <1>10, <1>11, <1>12
<1>15. PICK t : t = top
  OBVIOUS
<1>16. /\ Search!Loop(F, t, s) \in Seq(Search!Scored)
       /\ Search!NearestOf(Search!Loop(F, t, s), d, Q[Len(s)], params.k)
  BY <1>10, <1>13, <1>14, <1>15, Search!PushedNearest
<1>17. top' = Search!Loop(F, t, s)
  BY <1>1, <1>11, <1>15, SameOnes
<1>18. Q[Len(s)] = Done \cup ToSet(frontier)
  BY <1>7, <1>11, <1>14
<1> QED
  BY <1>11, <1>16, <1>17, <1>18, SameSets, SamePredicates

\* and visits the neighbours of all of them.
LEMMA RoundVisited ==
  ASSUME IndInv, Collect
  PROVE  /\ visited' = visited \cup Beams!NeighboursOf([nbrs |-> nbrs], ToSet(frontier))
         /\ visited' \subseteq Nodes /\ pool' \in Seq(Beams!Cand)
         /\ Beams!Tidy([visited |-> visited', pool |-> pool'], ToSet(expanded))
         /\ Beams!NearestOf(pool', Route, visited', params.ef)
<1> DEFINE places == [i \in DOMAIN frontier |-> i]
           n == Len(frontier)
           step == [i \in DOMAIN frontier |-> [s \in Seq(Nodes) |-> s \o Found[i].nbrs]]
           P == [i \in 0 .. n |-> {x \in Nodes : \E j \in 1 .. i : x \in ToSet(nbrs[frontier[j]])}]
<1>1. PICK nb, next :
        /\ pc = "collect" /\ nb = Beams!Loop(step, <<>>, places)
        /\ next = Beams!Integrate(visited, pool, Route, nb)
        /\ pool' = next.pool /\ visited' = next.visited
  BY Zenon DEF Collect
<1>2. TypeOK /\ Trained /\ BeamTidy /\ RoundRead
  BY DEF IndInv
<1>3. /\ n \in Nat /\ DOMAIN frontier = 1 .. n /\ \A i \in 1 .. n : frontier[i] \in Nodes
      /\ \A x : x \in ToSet(frontier) <=> \E i \in 1 .. n : x = frontier[i]
  <2>1. frontier \in Seq(Nodes)
    BY <1>2 DEF TypeOK
  <2> QED
    BY <2>1 DEF ToSet
<1>4. nbrs \in [Nodes -> Seq(Nodes)]
  BY <1>2, SearchAssumption DEF TypeOK
<1>5. \A i \in 1 .. n : places[i] = i
  BY <1>3
<1>6. places \in Seq(1 .. n) /\ Len(places) = n
  <2>1. places \in [1 .. n -> 1 .. n]
    BY <1>3
  <2>2. PICK c, G, S : c = n /\ G = places /\ S = 1 .. n
    OBVIOUS
  <2> HIDE DEF n, places
  <2>3. c \in Nat /\ G \in [1 .. c -> S]
    BY <1>3, <2>1, <2>2
  <2>4. G \in Seq(S) /\ Len(G) = c
    BY <2>3, LoopConstants, Loops!SeqOfFunction
  <2> QED
    BY <2>2, <2>4
<1>7. /\ P[0] = {}
      /\ \A i \in 0 .. n : \A x : x \in P[i] <=> x \in Nodes /\ \E j \in 1 .. i : x \in ToSet(nbrs[frontier[j]])
  <2>1. \A i \in 0 .. n : P[i] = {x \in Nodes : \E j \in 1 .. i : x \in ToSet(nbrs[frontier[j]])}
    OBVIOUS
  <2>2. 0 \in 0 .. n /\ 1 .. 0 = {}
    BY <1>3
  <2> HIDE DEF P, n
  <2> QED
    BY <2>1, <2>2
<1>8. ASSUME NEW i \in 1 .. n
      PROVE  /\ i \in 0 .. n /\ i - 1 \in 0 .. n
             /\ nbrs[frontier[i]] \in Seq(Nodes)
             /\ P[i] = P[i - 1] \cup ToSet(nbrs[frontier[i]])
  <2>1. i \in 0 .. n /\ i - 1 \in 0 .. n /\ i \in Nat /\ i >= 1
    BY <1>3
  <2>2. 1 .. i = (1 .. i - 1) \cup {i}
    BY <2>1
  <2>3. nbrs[frontier[i]] \in Seq(Nodes)
    BY <1>3, <1>4
  <2>4. ToSet(nbrs[frontier[i]]) \subseteq Nodes
    BY <2>3 DEF ToSet
  <2> HIDE DEF P, n
  <2>5. \A x : x \in P[i] <=> x \in P[i - 1] \/ x \in ToSet(nbrs[frontier[i]])
    BY <1>7, <2>1, <2>2, <2>4
  <2> QED
    BY <2>1, <2>3, <2>5
<1>9. \A i \in 1 .. n : \A s \in Seq(Nodes) : step[i][s] = s \o nbrs[frontier[i]]
  <2> TAKE i \in 1 .. n
  <2> TAKE s \in Seq(Nodes)
  <2>1. i \in DOMAIN frontier
    BY <1>3
  <2>2. Found[i].nbrs = nbrs[frontier[i]]
    BY <1>1, <1>2, <2>1, FoundFacts
  <2>3. step[i][s] = s \o Found[i].nbrs
    BY <2>1
  <2> HIDE DEF step
  <2> QED
    BY <2>2, <2>3
<1> HIDE DEF step, places, P, n
<1>10. PICK c, Q, F, s, A : c = n /\ Q = P /\ F = step /\ s = places /\ A = 1 .. n
  OBVIOUS
<1>11. \A i \in 1 .. c : Search!Appends(F[s[i]], Q[i - 1], Q[i])
  <2> TAKE i \in 1 .. c
  <2>1. s[i] = i /\ i \in 1 .. n
    BY <1>5, <1>10
  <2>2. PICK l : l = nbrs[frontier[i]]
    OBVIOUS
  <2>3. l \in Seq(Nodes) /\ Q[i] = Q[i - 1] \cup ToSet(l)
    BY <1>8, <1>10, <2>1, <2>2
  <2>4. \A u \in Seq(Nodes) : F[i][u] = u \o l
    BY <1>9, <1>10, <2>1, <2>2
  <2>5. ASSUME NEW u \in Seq(Nodes), Search!ToSet(u) = Q[i - 1]
        PROVE  F[i][u] \in Seq(Nodes) /\ Search!ToSet(F[i][u]) = Q[i]
    <3>1. u \o l \in Seq(Nodes) /\ Search!ToSet(u \o l) = Search!ToSet(u) \cup Search!ToSet(l)
      BY <1>2, <2>3, CallFacts, Search!ConcatNodes
    <3> QED
      BY <2>3, <2>4, <2>5, <3>1, SameSets
  <2> QED
    BY <2>1, <2>5, Zenon DEF Search!Appends
<1>12. s \in Seq(A) /\ Len(s) = c /\ Q[0] = {}
  BY <1>6, <1>7, <1>10
<1>13. Search!Loop(F, <<>>, s) \in Seq(Nodes) /\ Search!ToSet(Search!Loop(F, <<>>, s)) = Q[Len(s)]
  BY <1>2, <1>11, <1>12, CallFacts, Search!AppendedAll
<1>14. nb \in Seq(Nodes) /\ ToSet(nb) = P[n]
  BY <1>1, <1>10, <1>12, <1>13, SameOnes, SameSets
<1>15. ToSet(nb) = Beams!NeighboursOf([nbrs |-> nbrs], ToSet(frontier))
  <2>1. \A x : x \in P[n] <=> x \in Nodes /\ \E j \in 1 .. n : x \in ToSet(nbrs[frontier[j]])
    BY <1>3, <1>7
  <2>2. \A j \in 1 .. n : ToSet(nbrs[frontier[j]]) \subseteq Nodes
    BY <1>8 DEF ToSet
  <2>3. \A x : x \in P[n] <=> \E a \in ToSet(frontier) : x \in ToSet(nbrs[a])
    BY <1>3, <2>1, <2>2
  <2>4. \A x : x \in Beams!NeighboursOf([nbrs |-> nbrs], ToSet(frontier))
                 <=> \E a \in ToSet(frontier) : x \in ToSet(nbrs[a])
    BY SameSets DEF Beams!NeighboursOf
  <2> QED
    BY <1>14, <2>3, <2>4
<1>16. /\ Search!BeamAssumption /\ Route \in [Nodes -> Nat]
       /\ visited \in SUBSET Nodes /\ pool \in Seq(Search!Cand)
       /\ Search!Tidy([visited |-> visited, pool |-> pool], ToSet(expanded))
       /\ Search!NearestOf(pool, Route, visited, params.ef)
  BY <1>2, CallFacts, SameSets, SamePredicates DEF TypeOK, BeamTidy
<1>17. PICK r, v, p, E : r = Route /\ v = visited /\ p = pool /\ E = ToSet(expanded)
  OBVIOUS
<1>18. /\ r \in [Nodes -> Nat] /\ v \in SUBSET Nodes /\ p \in Seq(Search!Cand)
       /\ Search!Tidy([visited |-> v, pool |-> p], E)
       /\ Search!NearestOf(p, r, v, params.ef)
  BY <1>16, <1>17
<1>19. next = Search!Integrate(v, p, r, nb)
  BY <1>1, <1>17, SameIntegrate
<1>20. next \in Search!Beam /\ Search!Tidy(next, E)
  <2>1. PICK x : x = Search!Integrate(v, p, r, nb)
    OBVIOUS
  <2>2. x \in Search!Beam /\ \A D : Search!Tidy([visited |-> v, pool |-> p], D) => Search!Tidy(x, D)
    BY <1>14, <1>16, <1>18, <2>1, Search!IntegrateFacts
  <2> QED
    BY <1>18, <1>19, <2>1, <2>2
<1>21. next.visited = v \cup Search!ToSet(nb) /\ Search!NearestOf(next.pool, r, next.visited, params.ef)
  <2>1. Search!BeamAssumption /\ nb \in Seq(Nodes)
    BY <1>14, <1>16
  <2>2. /\ Search!Integrate(v, p, r, nb).visited = v \cup Search!ToSet(nb)
        /\ Search!NearestOf(Search!Integrate(v, p, r, nb).pool, r, Search!Integrate(v, p, r, nb).visited, params.ef)
    BY <1>18, <2>1, Search!IntegrateNearest, Zenon
  <2> QED
    BY <1>19, <2>2
<1>22. next.visited \subseteq Nodes /\ next.pool \in Seq(Beams!Cand) /\ next = [visited |-> next.visited, pool |-> next.pool]
  <2>1. next \in Beams!Beam
    BY <1>20, SameSets
  <2> QED
    BY <2>1 DEF Beams!Beam
<1>23. Beams!Tidy([visited |-> visited', pool |-> pool'], ToSet(expanded))
  <2>1. [visited |-> visited', pool |-> pool'] = next
    BY <1>1, <1>22
  <2> QED
    BY <1>17, <1>20, <2>1, SamePredicates
<1>24. Beams!NearestOf(pool', Route, visited', params.ef)
  BY <1>1, <1>17, <1>21, SamePredicates
<1>25. visited' = visited \cup Beams!NeighboursOf([nbrs |-> nbrs], ToSet(frontier))
  BY <1>1, <1>15, <1>17, <1>21, SameSets
<1> QED
  BY <1>1, <1>22, <1>23, <1>24, <1>25


LEMMA CollectKeeps ==
  ASSUME IndInv, Collect
  PROVE  IndInv'
<1>1. /\ pc = "collect" /\ pc' = "round"
      /\ UNCHANGED <<given, call>>
      /\ bufs' = bufs /\ expanded' = expanded /\ frontier' = frontier /\ read' = read
      /\ ioErr' = ioErr /\ answer' = answer
  BY Zenon DEF Collect
<1>2. TypeOK /\ Trained /\ BeamTidy /\ RoundRead /\ TopNearest /\ WithinReach /\ AnswerKept
  BY DEF IndInv
<1>3. /\ top' \in Seq(Beams!Scored)
      /\ Beams!NearestOf(top', Exact, Done \cup ToSet(frontier), params.k)
  BY RoundRanked
<1>4. /\ visited' = visited \cup Beams!NeighboursOf([nbrs |-> nbrs], ToSet(frontier))
      /\ visited' \subseteq Nodes /\ pool' \in Seq(Beams!Cand)
      /\ Beams!Tidy([visited |-> visited', pool |-> pool'], ToSet(expanded))
      /\ Beams!NearestOf(pool', Route, visited', params.ef)
  BY RoundVisited
<1>5. /\ base' = base /\ nbrs' = nbrs /\ book' = book
      /\ query' = query /\ routing' = routing /\ params' = params
      /\ Route' = Route /\ Exact' = Exact /\ Medoid' = Medoid /\ Reachable' = Reachable
  BY <1>1, CallStays
<1>6. /\ Reading /\ ~ Reading' /\ ~ ioErr /\ ToSet(frontier) \subseteq ToSet(expanded)
      /\ Done = ToSet(expanded) \ ToSet(frontier)
      /\ Done' = Done \cup ToSet(frontier)
  <2>1. Reading /\ ~ Reading'
    BY <1>1 DEF Reading
  <2>2. ~ ioErr /\ ToSet(frontier) \subseteq ToSet(expanded)
    BY <1>2, <2>1 DEF RoundRead
  <2>3. Done = ToSet(expanded) \ ToSet(frontier) /\ Done' = ToSet(expanded)
    BY <1>1, <2>1 DEF Done
  <2> QED
    BY <2>1, <2>2, <2>3
<1>7. TypeOK'
  <2>1. Len(pool') <= params'.ef /\ Len(top') <= params'.k
    BY <1>3, <1>4, <1>5 DEF Beams!NearestOf
  <2>2. pc' \in {"idle", "round", "read", "collect", "returned"}
    BY <1>1
  <2>3. bufs' \in Seq(0 .. DataBlocks(N)) /\ Len(bufs') = params'.w
    BY <1>1, <1>2, <1>5 DEF TypeOK
  <2> QED
    BY <1>1, <1>2, <1>3, <1>4, <1>5, <2>1, <2>2, <2>3 DEF TypeOK
<1>8. Trained'
  BY <1>2, <1>5 DEF Trained
<1>9. BeamTidy'
  BY <1>1, <1>2, <1>4, <1>5 DEF BeamTidy
<1>10. RoundRead'
  BY <1>1, <1>2, <1>6 DEF RoundRead
<1>11. TopNearest'
  BY <1>3, <1>5, <1>6 DEF TopNearest
<1>12. WithinReach'
  <2>1. visited = {Medoid} \cup Beams!NeighboursOf([nbrs |-> nbrs], Done) /\ visited \subseteq Reachable
    BY <1>1, <1>2, <1>6 DEF WithinReach
  <2>2. \A A : \A x : x \in Beams!NeighboursOf([nbrs |-> nbrs], A) <=> \E a \in A : x \in ToSet(nbrs[a])
    BY SameSets DEF Beams!NeighboursOf
  <2>3. \A x : x \in Beams!NeighboursOf([nbrs |-> nbrs], Done \cup ToSet(frontier))
                 <=> x \in Beams!NeighboursOf([nbrs |-> nbrs], Done)
                     \/ x \in Beams!NeighboursOf([nbrs |-> nbrs], ToSet(frontier))
    BY <2>2
  <2>4. visited' = {Medoid} \cup Beams!NeighboursOf([nbrs |-> nbrs], Done \cup ToSet(frontier))
    BY <1>4, <2>1, <2>3
  <2>5. ToSet(frontier) \subseteq visited
    <3>1. ToSet(expanded) \subseteq visited
      BY <1>2 DEF BeamTidy, Beams!Tidy
    <3> QED
      BY <1>6, <3>1
  <2>6. Beams!NeighboursOf([nbrs |-> nbrs], ToSet(frontier)) \subseteq Reachable
    <3> SUFFICES ASSUME NEW a \in ToSet(frontier), NEW x \in ToSet(nbrs[a]) PROVE x \in Reachable
      BY <2>2
    <3>1. a \in Reachable
      BY <2>1, <2>5
    <3>2. a \in Nodes /\ x \in Nodes
      <4>1. a \in Nodes /\ nbrs \in [Nodes -> Seq(Nodes)]
        BY <1>2, <2>5, SearchAssumption DEF TypeOK
      <4>2. nbrs[a] \in Seq(Nodes)
        BY <4>1
      <4> QED
        BY <4>1, <4>2 DEF ToSet
    <3> QED
      BY <3>1, <3>2 DEF Reachable
  <2>7. visited' \subseteq Reachable
    BY <1>4, <2>1, <2>6
  <2> QED
    BY <1>5, <1>6, <2>4, <2>7 DEF WithinReach
<1>13. AnswerKept'
  BY <1>1, <1>2 DEF AnswerKept
<1> QED
  BY <1>7, <1>8, <1>9, <1>10, <1>11, <1>12, <1>13 DEF IndInv

\* What the search of a call rests on holds at every step of every call.
THEOREM InvariantHolds == Spec => []IndInv
<1>1. Init => IndInv
  BY InitHolds
<1>2. IndInv /\ [Next]_vars => IndInv'
  <2> SUFFICES ASSUME IndInv, [Next]_vars PROVE IndInv'
    OBVIOUS
  <2>1. ASSUME NEW q \in Points, NEW kind \in {"exact", "sq8"}, NEW asked \in Requests, Start(q, kind, asked)
        PROVE  IndInv'
    BY <2>1, StartKeeps
  <2>2. CASE Expand
    BY <2>2, ExpandKeeps
  <2>3. CASE ReadBlock
    BY <2>3, ReadBlockKeeps
  <2>4. CASE ReadFails
    BY <2>4, ReadFailsKeeps
  <2>5. CASE Collect
    BY <2>5, CollectKeeps
  <2>6. CASE Return
    BY <2>6, ReturnKeeps
  <2>7. CASE HandOver
    BY <2>7, HandOverKeeps
  <2>8. CASE UNCHANGED vars
    BY <2>8, NothingKeeps
  <2> QED
    BY <2>1, <2>2, <2>3, <2>4, <2>5, <2>6, <2>7, <2>8 DEF Next
<1> QED
  BY <1>1, <1>2, PTL DEF Spec

\* Whatever is asked for, the search keeps within its types and its limits.
THEOREM TypeCorrect == Spec => []TypeOK
<1>1. IndInv => TypeOK
  BY DEF IndInv
<1> QED
  BY <1>1, InvariantHolds, PTL

\* Codes trained on the base order nodes as the exact distances do but for half
\* a step in each dimension.
THEOREM RoutingStaysClose == Spec => []RoutingClose
<1>1. ASSUME IndInv PROVE RoutingClose
  <2>1. base \in Bases /\ query \in Points /\ book = Train(base)
    BY <1>1 DEF IndInv, TypeOK, Trained
  <2>2. PICK b, q : b = base /\ q = query
    OBVIOUS
  <2>3. b \in Bases /\ q \in Points
    BY <2>1, <2>2
  <2>4. CloseOn(Train(b), b, q)
    BY <2>3, CloseEverywhere
  <2> QED
    BY <2>1, <2>2, <2>4, Zenon DEF RoutingClose
<1> QED
  BY <1>1, InvariantHolds, PTL

\* The pool holds the nearest of the nodes met, each once, nearest first.
THEOREM PoolStaysNearest == Spec => []PoolIsNearest
<1>1. ASSUME IndInv PROVE PoolIsNearest
  <2> DEFINE pooled == {pool[i].id : i \in DOMAIN pool}
  <2>1. TypeOK /\ Trained /\ BeamTidy
    BY <1>1 DEF IndInv
  <2>2. pool \in Seq(Beams!Cand) /\ Len(pool) \in Nat /\ DOMAIN pool = 1 .. Len(pool)
    BY <2>1 DEF TypeOK
  <2>3. Beams!NearestOf(pool, Route, visited, params.ef)
    BY <2>1 DEF BeamTidy
  <2>4. PICK s, dist, V, m, C : s = pool /\ dist = Route /\ V = visited /\ m = params.ef /\ C = Beams!Cand
    OBVIOUS
  <2>5. s \in Seq(C) /\ Search!NearestOf(s, dist, V, m) /\ Search!BeamAssumption
    BY <2>1, <2>2, <2>3, <2>4, SamePredicates, CallFacts
  <2>6. Search!Cardinality(Search!IdsOf(s)) = Len(s) /\ Search!IdsOf(s) \subseteq V
    BY <2>5, Search!NearestCount
  <2>7. Search!IdsOf(s) = pooled
    BY <2>4 DEF Search!IdsOf
  <2>8. Cardinality(pooled) = Len(pool) /\ pooled \subseteq visited
    BY <2>4, <2>6, <2>7, SameSets
  <2>9. /\ \A i \in DOMAIN pool : pool[i].dist = Route[pool[i].id]
        /\ \A i, j \in DOMAIN pool : i < j => pool[i].dist <= pool[j].dist
        /\ \A n \in visited : \/ \E i \in DOMAIN pool : pool[i].id = n
                              \/ Len(pool) = params.ef /\ \A i \in DOMAIN pool : pool[i].dist <= Route[n]
    BY <2>3 DEF Beams!NearestOf
  <2>10. \A i \in 1 .. Len(pool) - 1 : pool[i].dist <= pool[i + 1].dist
    <3> TAKE i \in 1 .. Len(pool) - 1
    <3>1. i \in DOMAIN pool /\ i + 1 \in DOMAIN pool /\ i < i + 1
      BY <2>2
    <3> QED
      BY <2>9, <3>1
  <2>11. \A n \in visited \ pooled : Len(pool) = params.ef /\ Route[n] >= Last(pool).dist
    <3> TAKE n \in visited \ pooled
    <3>1. Len(pool) = params.ef /\ \A i \in DOMAIN pool : pool[i].dist <= Route[n]
      BY <2>9
    <3>2. params.ef \in Nat /\ params.ef >= 1
      BY <2>1 DEF TypeOK
    <3>3. Len(pool) \in DOMAIN pool
      BY <2>2, <3>1, <3>2
    <3>4. pool[Len(pool)].dist <= Route[n] /\ pool[Len(pool)] \in Beams!Cand
      BY <2>2, <3>1, <3>3
    <3>5. pool[Len(pool)].dist \in Nat /\ Route[n] \in Nat
      BY <2>1, <3>4, CallFacts DEF Beams!Cand, TypeOK
    <3>6. Last(pool) = pool[Len(pool)]
      BY DEF Last
    <3> QED
      BY <3>1, <3>4, <3>5, <3>6
  <2> QED
    BY <2>8, <2>9, <2>10, <2>11 DEF PoolIsNearest
<1> QED
  BY <1>1, InvariantHolds, PTL

-----------------------------------------------------------------------------
\* Exact search over some of the nodes ranks them and no others.
LEMMA BruteNearest ==
  ASSUME TypeOK, Trained, NEW S \in SUBSET Nodes
  PROVE  /\ Brute(S) \in Seq(Beams!Scored)
         /\ Beams!NearestOf(Brute(S), Exact, S, params.k)
<1> DEFINE all == [i \in 1 .. N |-> i - 1]
           step == [n \in Nodes |-> [t \in Seq(Beams!Scored) |->
                      IF n \in S THEN Beams!TopPush(t, L2Sq(query, base[n]), n) ELSE t]]
           P == [i \in 0 .. N |-> {n \in S : n < i}]
<1>1. Brute(S) = Beams!Loop(step, <<>>, all)
  BY DEF Brute
<1>2. all \in Seq(Nodes) /\ Len(all) = N /\ \A i \in 1 .. N : all[i] = i - 1
  <2>1. all \in [1 .. N -> Nodes] /\ \A i \in 1 .. N : all[i] = i - 1
    BY Sizes
  <2>2. PICK c, G, T : c = N /\ G = all /\ T = Nodes
    OBVIOUS
  <2> HIDE DEF all
  <2>3. c \in Nat /\ G \in [1 .. c -> T]
    BY <2>1, <2>2, Sizes
  <2>4. G \in Seq(T) /\ Len(G) = c
    BY <2>3, LoopConstants, Loops!SeqOfFunction
  <2> QED
    BY <2>1, <2>2, <2>4
<1>3. \A i \in 0 .. N : P[i] \in SUBSET Nodes /\ \A n : n \in P[i] <=> n \in S /\ n < i
  OBVIOUS
<1>4. P[0] = {} /\ P[N] = S
  <2>1. 0 \in 0 .. N /\ N \in 0 .. N /\ \A n \in S : n \in Nat /\ n < N
    BY Sizes
  <2> HIDE DEF P
  <2> QED
    BY <1>3, <2>1
<1>5. \A n \in Nodes : \A t \in Seq(Search!Scored) :
        step[n][t] = IF n \in S THEN Search!TopPush(t, Exact[n], n) ELSE t
  <2> TAKE n \in Nodes
  <2> TAKE t \in Seq(Search!Scored)
  <2>1. t \in Seq(Beams!Scored)
    BY SameSets
  <2>2. step[n][t] = IF n \in S THEN Beams!TopPush(t, L2Sq(query, base[n]), n) ELSE t
    BY <2>1
  <2>3. L2Sq(query, base[n]) = Exact[n]
    BY DEF Exact
  <2> HIDE DEF step
  <2> QED
    BY <2>2, <2>3, SameOnes, Zenon
<1> HIDE DEF step, all, P
<1>6. PICK d, c, Q, F, s : d = Exact /\ c = N /\ Q = P /\ F = step /\ s = all
  OBVIOUS
<1>7. \A i \in 1 .. c : Search!Pushes(F[s[i]], d, Q[i - 1], Q[i])
  <2> TAKE i \in 1 .. c
  <2>1. /\ i \in 1 .. N /\ i \in 0 .. N /\ i - 1 \in 0 .. N /\ i \in Nat /\ i - 1 \in Nodes
    BY <1>6, Sizes
  <2>2. PICK id \in Nodes : id = i - 1 /\ s[i] = id
    BY <1>2, <1>6, <2>1
  <2>3. \A t \in Seq(Search!Scored) : F[s[i]][t] = IF id \in S THEN Search!TopPush(t, d[id], id) ELSE t
    BY <1>5, <1>6, <2>2
  <2>4. /\ \A n : n \in Q[i - 1] <=> n \in S /\ n < id
        /\ \A n : n \in Q[i] <=> n \in S /\ n < i
    BY <1>3, <1>6, <2>1, <2>2
  <2>5. \A n \in S : n < i <=> n < id \/ n = id
    BY <2>1, <2>2, Sizes
  <2>6. CASE id \in S
    <3>1. id \in Nat /\ ~ id < id /\ id < i
      BY <2>1, <2>2
    <3>2. \A n : n \in Q[i] <=> n \in Q[i - 1] \/ n = id
      BY <2>4, <2>5, <2>6
    <3>3. id \notin Q[i - 1]
      BY <2>4, <3>1
    <3>4. id \in Nodes \ Q[i - 1] /\ Q[i] = Q[i - 1] \cup {id}
      BY <3>2, <3>3
    <3>5. \A t \in Seq(Search!Scored) : F[s[i]][t] = Search!TopPush(t, d[id], id)
      BY <2>3, <2>6
    <3> QED
      BY <3>4, <3>5, Zenon DEF Search!Pushes
  <2>7. CASE id \notin S
    <3>1. Q[i] = Q[i - 1]
      BY <2>4, <2>5, <2>7
    <3>2. \A t \in Seq(Search!Scored) : F[s[i]][t] = t
      BY <2>3, <2>7
    <3> QED
      BY <3>1, <3>2, Zenon DEF Search!Pushes
  <2> QED
    BY <2>6, <2>7
<1>8. PICK t, A : t = <<>> /\ A = Nodes
  OBVIOUS
<1>9. t \in Seq(Search!Scored) /\ Search!NearestOf(t, d, Q[0], params.k)
  BY <1>4, <1>6, <1>8 DEF Search!NearestOf, TypeOK
<1>10. /\ Search!BeamAssumption /\ s \in Seq(A) /\ Len(s) = c /\ d \in [Nodes -> Nat]
       /\ \A i \in 0 .. c : Q[i] \in SUBSET Nodes
  BY <1>2, <1>3, <1>6, <1>8, CallFacts
<1>11. /\ Search!Loop(F, t, s) \in Seq(Search!Scored)
       /\ Search!NearestOf(Search!Loop(F, t, s), d, Q[Len(s)], params.k)
  BY <1>7, <1>9, <1>10, Search!PushedNearest
<1>12. Brute(S) = Search!Loop(F, t, s) /\ Q[Len(s)] = S
  BY <1>1, <1>4, <1>6, <1>8, <1>10, SameOnes
<1> QED
  BY <1>6, <1>11, <1>12, SameSets, SamePredicates

\* A call that has room for all the nodes, and whose reads succeed, has expanded
\* every node within reach when it returns.
LEMMA AllReached ==
  ASSUME IndInv, pc = "returned", ~ ioErr, params.ef >= N
  PROVE  ToSet(expanded) = Reachable
<1>1. TypeOK /\ Trained /\ BeamTidy /\ WithinReach /\ AnswerKept
  BY DEF IndInv
<1>2. /\ Search!BeamAssumption /\ Medoid \in Nodes
      /\ pool \in Seq(Beams!Cand) /\ visited \in SUBSET Nodes /\ params.ef \in Nat
      /\ nbrs \in [Nodes -> Seq(Nodes)]
  BY <1>1, CallFacts, SearchAssumption DEF TypeOK
<1>3. Done = ToSet(expanded)
  BY DEF Done, Reading
<1>4. /\ Search!NearestOf(pool, Route, visited, params.ef)
      /\ Beams!Tidy([visited |-> visited, pool |-> pool], ToSet(expanded))
  BY <1>1, SamePredicates DEF BeamTidy
<1>5. \A n \in visited : \E i \in DOMAIN pool : pool[i].id = n
  <2>1. PICK S, s, dist, V, m : S = Beams!Cand /\ s = pool /\ dist = Route /\ V = visited /\ m = params.ef
    OBVIOUS
  <2>2. s \in Seq(S) /\ V \in SUBSET Nodes /\ m \in Nat /\ Search!NearestOf(s, dist, V, m)
    BY <1>2, <1>4, <2>1
  <2>3. m >= Search!Cardinality(Nodes)
    BY <2>1, Sizes, SameSets
  <2>4. \A n \in V : \E i \in DOMAIN s : s[i].id = n
    BY <1>2, <2>2, <2>3, Search!NearestAll
  <2> QED
    BY <2>1, <2>4
<1>6. visited = ToSet(expanded)
  <2>1. \A i \in DOMAIN pool : pool[i].expanded
    BY <1>1 DEF AnswerKept
  <2>2. PICK b, E : b = [visited |-> visited, pool |-> pool] /\ E = ToSet(expanded)
    OBVIOUS
  <2>3. b.visited = visited /\ b.pool = pool
    BY <2>2
  <2>4. E \subseteq visited /\ \A i \in DOMAIN pool : pool[i].expanded <=> pool[i].id \in E
    BY <1>4, <2>2, <2>3 DEF Beams!Tidy
  <2> QED
    BY <1>5, <2>1, <2>2, <2>4
<1>7. /\ visited = {Medoid} \cup Beams!NeighboursOf([nbrs |-> nbrs], visited)
      /\ visited \subseteq Reachable
  BY <1>1, <1>3, <1>6 DEF WithinReach
<1>8. Medoid \in visited /\ \A m \in visited : ToSet(nbrs[m]) \subseteq visited
  <2>1. \A x : x \in Beams!NeighboursOf([nbrs |-> nbrs], visited) <=> \E a \in visited : x \in ToSet(nbrs[a])
    BY SameSets DEF Beams!NeighboursOf
  <2> QED
    BY <1>7, <2>1
<1>9. Reachable \subseteq visited
  BY <1>2, <1>8 DEF Reachable
<1> QED
  BY <1>6, <1>7, <1>9

\* Rankings of the same nodes are at the same distances.
LEMMA AsFar ==
  ASSUME TypeOK, Trained, NEW s \in Seq(Beams!Scored), NEW t \in Seq(Beams!Scored),
         NEW S \in SUBSET Nodes,
         Beams!NearestOf(s, Exact, S, params.k), Beams!NearestOf(t, Exact, S, params.k)
  PROVE  DistancesOf(s) = DistancesOf(t)
<1>1. PICK C, d, m : C = Beams!Scored /\ d = Exact /\ m = params.k
  OBVIOUS
<1>2. /\ Search!BeamAssumption /\ d \in [Nodes -> Nat] /\ m \in Nat /\ s \in Seq(C) /\ t \in Seq(C)
      /\ Search!NearestOf(s, d, S, m) /\ Search!NearestOf(t, d, S, m)
  BY <1>1, CallFacts, SamePredicates DEF TypeOK
<1>3. DOMAIN s = DOMAIN t /\ \A i \in DOMAIN s : s[i].dist = t[i].dist
  BY <1>2, Search!NearestDistances
<1> QED
  BY <1>3 DEF DistancesOf

\* An answer ranks what was read as exact search would, and with room for all
\* the nodes what is within reach.
THEOREM AnswersExact == Spec => []AnswerExact
<1>1. ASSUME IndInv, answer.ok PROVE AnswerExact
  <2>1. TypeOK /\ Trained /\ BeamTidy /\ RoundRead /\ TopNearest /\ WithinReach /\ AnswerKept
    BY <1>1 DEF IndInv
  <2>2. /\ pc = "returned" /\ ~ ioErr
        /\ answer.top = top /\ answer.reads = Len(expanded)
    <3>1. answer # NoAnswer
      BY <1>1 DEF NoAnswer
    <3>2. pc = "returned" /\ ~ ioErr
      BY <2>1, <3>1 DEF AnswerKept
    <3>3. answer = [ok |-> TRUE, top |-> top, reads |-> Len(expanded)]
      BY <2>1, <3>2 DEF AnswerKept
    <3> QED
      BY <3>2, <3>3
  <2>3. /\ Beams!NearestOf(top, Exact, ToSet(expanded), params.k)
        /\ top \in Seq(Beams!Scored) /\ ToSet(expanded) \in SUBSET Nodes
    <3>1. Done = ToSet(expanded)
      BY <2>2 DEF Done, Reading
    <3> QED
      BY <2>1, <2>2, <3>1 DEF TopNearest, TypeOK, ToSet
  <2>4. \A i \in DOMAIN top : top[i].dist = L2Sq(query, base[top[i].id])
    <3>1. \A i \in DOMAIN top : top[i].id \in Nodes /\ top[i].dist = Exact[top[i].id]
      BY <2>3 DEF Beams!NearestOf
    <3> QED
      BY <3>1 DEF Exact
  <2>5. DistancesOf(top) = DistancesOf(Brute(ToSet(expanded)))
    <3>1. PICK S \in SUBSET Nodes : S = ToSet(expanded)
      BY <2>3
    <3>2. Brute(S) \in Seq(Beams!Scored) /\ Beams!NearestOf(Brute(S), Exact, S, params.k)
      BY <2>1, BruteNearest
    <3>3. PICK t : t = Brute(S)
      OBVIOUS
    <3>4. PICK s : s = top
      OBVIOUS
    <3>5. DistancesOf(s) = DistancesOf(t)
      BY <2>1, <2>3, <3>1, <3>2, <3>3, <3>4, AsFar
    <3> QED
      BY <3>1, <3>3, <3>4, <3>5
  <2>6. Len(expanded) = Cardinality(ToSet(expanded))
    <3>1. expanded \in Seq(Nodes) /\ \A i, j \in DOMAIN expanded : expanded[i] = expanded[j] => i = j
      BY <2>1 DEF TypeOK, BeamTidy
    <3>2. PICK n, f, T : n = Len(expanded) /\ f = expanded /\ T = ToSet(expanded)
      OBVIOUS
    <3>3. n \in Nat /\ \A i, j \in 1 .. n : f[i] = f[j] => i = j
      BY <3>1, <3>2
    <3>4. \A x : x \in T <=> \E i \in 1 .. n : x = f[i]
      BY <3>1, <3>2 DEF ToSet
    <3>5. Loops!Cardinality(T) = n
      BY <3>3, <3>4, LoopConstants, Loops!DistinctCount
    <3> QED
      BY <3>2, <3>5, SameSums
  <2>7. ASSUME params.ef >= N PROVE DistancesOf(top) = DistancesOf(Brute(Reachable))
    BY <1>1, <2>2, <2>5, <2>7, AllReached
  <2> QED
    BY <2>2, <2>4, <2>5, <2>6, <2>7 DEF AnswerExact
<1>2. ASSUME IndInv PROVE AnswerExact
  <2>1. CASE answer.ok
    BY <1>1, <1>2, <2>1
  <2>2. CASE ~ answer.ok
    BY <2>2 DEF AnswerExact
  <2> QED
    BY <2>1, <2>2
<1> QED
  BY <1>2, InvariantHolds, PTL

-----------------------------------------------------------------------------
\* The greedy search of a call, hop by hop.
HopOf == Beams!Hop([nbrs |-> nbrs, route |-> [q \in {0} |-> Route]], 0)

Seed ==
  [pool |-> <<[dist |-> Route[Medoid], id |-> Medoid, expanded |-> FALSE]>>,
   visited |-> {Medoid}, expanded |-> <<>>]

HopsOf == Loops!Iterate(Seed, HopOf, N)

\* The beam as it will be once the node being read is taken out of its buffer.
Joined ==
  IF Reading
    THEN Beams!Integrate(visited, pool, Route, nbrs[frontier[1]])
    ELSE [visited |-> visited, pool |-> pool]

\* A call with a beam of width one is at the hop of as many nodes.
InStep ==
  pc # "idle" /\ ~ ioErr /\ params.w = 1 =>
    /\ Len(expanded) <= N
    /\ Reading => Len(frontier) = 1
    /\ HopsOf[Len(expanded)] = [pool |-> Joined.pool, visited |-> Joined.visited, expanded |-> expanded]

LEMMA HopsAre ==
  ASSUME NEW load, load = [nbrs |-> nbrs, route |-> [q \in {0} |-> Route]]
  PROVE  Beams!Hops(load, 0) = HopsOf
<1>1. load.route[0] = Route
  OBVIOUS
<1>2. Beams!SearchSeed(Route).pool = Seed.pool
  BY DEF Beams!SearchSeed, Seed
<1>3. Seed = [pool |-> Beams!SearchSeed(Route).pool, visited |-> {Medoid}, expanded |-> <<>>]
  BY <1>2 DEF Seed
<1> QED
  BY <1>1, <1>3, SameSets, Sizes, Zenon DEF HopsOf, HopOf, Loops!Iterate, Beams!Hops

LEMMA HopsStart ==
  /\ HopsOf[0] = Seed
  /\ \A n \in 1 .. N : HopsOf[n] = HopOf[HopsOf[n - 1]]
<1>1. PICK seed, step, last : seed = Seed /\ step = HopOf /\ last = N
  OBVIOUS
<1>2. last \in Nat
  BY <1>1, Sizes
<1>3. LET R == Loops!Iterate(seed, step, last) IN
      R[0] = seed /\ \A n \in 1 .. last : R[n] = step[R[n - 1]]
  BY <1>2, LoopConstants, Loops!IterateStates
<1> QED
  BY <1>1, <1>3 DEF HopsOf

\* Within a call the hops stay.
LEMMA HopsStay ==
  ASSUME params' = params, nbrs' = nbrs, Route' = Route, Medoid' = Medoid
  PROVE  HopsOf' = HopsOf
<1>1. HopOf' = HopOf
  BY ZenonT(90) DEF HopOf, Beams!Hop, Beams!Open, Beams!Integrate, Beams!Visit, Beams!PoolInsert
<1>2. Seed' = Seed
  BY DEF Seed
<1> QED
  BY <1>1, <1>2 DEF HopsOf, Loops!Iterate

LEMMA JoinedStays ==
  ASSUME params' = params, Route' = Route, NEW v, NEW p, NEW nb,
         visited' = v, pool' = p, nbrs'[frontier'[1]] = nb
  PROVE  Beams!Integrate(visited, pool, Route, nbrs[frontier[1]])' = Beams!Integrate(v, p, Route, nb)
BY Zenon DEF Beams!Integrate, Beams!Visit, Beams!PoolInsert

LEMMA SameHop ==
  ASSUME NEW load
  PROVE  Beams!Hop(load, 0) = Search!Hop(load, 0) /\ Beams!Greedy = Search!Greedy
<1>1. Beams!Greedy = Search!Greedy
  BY SameSets DEF Beams!Greedy, Search!Greedy
<1>2. \A s : Beams!Open(s) = Search!Open(s)
  BY Zenon DEF Beams!Open, Search!Open, Beams!FirstOf, Search!FirstOf
<1>3. \A v, pl, route, nb : Beams!Integrate(v, pl, route, nb) = Search!Integrate(v, pl, route, nb)
  BY SameIntegrate
<1> QED
  BY <1>1, <1>2, <1>3, Zenon DEF Beams!Hop, Search!Hop

\* What a hop does to the beam of a call.
LEMMA HopFacts ==
  ASSUME TypeOK, Trained,
         NEW s, s = [pool |-> pool, visited |-> visited, expanded |-> expanded],
         params.w = 1, Beams!Frontier(pool) # <<>>
  PROVE  LET f == Beams!Frontier(pool)
             next == Beams!Integrate(visited, Beams!MarkExpanded(pool), Route, nbrs[f[1]])
         IN  /\ Len(f) = 1
             /\ HopOf[s] = [pool |-> next.pool, visited |-> next.visited, expanded |-> Append(expanded, f[1])]
<1>1. PICK load : load = [nbrs |-> nbrs, route |-> [q \in {0} |-> Route]]
  OBVIOUS
<1>2. load.nbrs = nbrs /\ load.route[0] = Route /\ HopOf = Search!Hop(load, 0)
  BY <1>1, SameHop DEF HopOf
<1>3. s \in Search!Greedy /\ Search!BeamAssumption
  BY SameSets, CallFacts DEF Search!Greedy, TypeOK
<1>4. s.pool = pool /\ s.visited = visited /\ s.expanded = expanded
  OBVIOUS
<1>5. PICK p, v, e, r, l : p = pool /\ v = visited /\ e = expanded /\ r = Route /\ l = nbrs
  OBVIOUS
<1>6. PICK f, m : f = Search!Frontier(p) /\ m = Search!MarkExpanded(p)
  OBVIOUS
<1>7. Beams!Frontier(p) = f /\ Beams!MarkExpanded(p) = m
  BY <1>6, SameFrontier
<1>8. PICK next : next = Search!Integrate(v, m, r, l[f[1]])
  OBVIOUS
<1>9. Beams!Integrate(v, m, r, l[f[1]]) = next
  BY <1>8, SameIntegrate
<1>10. Search!Frontier(s.pool) = f /\ Search!RoundOf(load, 0, s) = next
  <2>1. Search!Frontier(s.pool) = f /\ Search!MarkExpanded(s.pool) = m
    BY <1>4, <1>5, <1>6
  <2> QED
    BY <1>2, <1>4, <1>5, <1>8, <2>1 DEF Search!RoundOf
<1>11. f # <<>>
  BY <1>5, <1>7
<1>12. /\ Len(Search!Frontier(s.pool)) = 1
       /\ Search!Hop(load, 0)[s] = [pool |-> Search!RoundOf(load, 0, s).pool,
                                    visited |-> Search!RoundOf(load, 0, s).visited,
                                    expanded |-> Append(s.expanded, Search!Frontier(s.pool)[1])]
  BY <1>3, <1>10, <1>11, Search!HopIsRound
<1>13. /\ Len(f) = 1
       /\ HopOf[s] = [pool |-> next.pool, visited |-> next.visited, expanded |-> Append(e, f[1])]
  BY <1>2, <1>4, <1>5, <1>10, <1>12
<1> QED
  BY <1>5, <1>7, <1>9, <1>13

LEMMA LastHop ==
  ASSUME TypeOK, Trained,
         NEW s, s = [pool |-> pool, visited |-> visited, expanded |-> expanded],
         \A i \in DOMAIN pool : pool[i].expanded
  PROVE  HopOf[s] = s
<1>1. PICK load : load = [nbrs |-> nbrs, route |-> [q \in {0} |-> Route]]
  OBVIOUS
<1>2. HopOf = Search!Hop(load, 0)
  BY <1>1, SameHop DEF HopOf
<1>3. s \in Search!Greedy /\ Search!BeamAssumption
  BY SameSets, CallFacts DEF Search!Greedy, TypeOK
<1>4. \A i \in DOMAIN s.pool : s.pool[i].expanded
  OBVIOUS
<1>5. Search!Hop(load, 0)[s] = s
  BY <1>3, <1>4, Search!HopIsLast
<1> QED
  BY <1>2, <1>5

\* A call starts at the seed,
LEMMA StartInStep ==
  ASSUME IndInv, NEW q \in Points, NEW kind \in {"exact", "sq8"}, NEW asked \in Requests,
         Start(q, kind, asked)
  PROVE  InStep'
<1>1. /\ pc' = "round" /\ routing' = kind /\ query' = q
      /\ pool' = <<[dist |-> Score(kind, q, Medoid), id |-> Medoid, expanded |-> FALSE]>>
      /\ visited' = {Medoid} /\ expanded' = <<>>
      /\ base' = base /\ nbrs' = nbrs /\ book' = book
  BY DEF Start, Begin, given
<1>2. Medoid \in Nodes /\ Medoid' = Medoid
  BY <1>1, CallFacts DEF IndInv, Medoid
<1>3. Route'[Medoid] = Score(kind, q, Medoid)
  BY <1>1, <1>2 DEF Route, Score
<1>4. ~ Reading' /\ Joined' = [visited |-> visited', pool |-> pool']
  <2>1. ~ Reading'
    BY <1>1 DEF Reading
  <2> QED
    BY <2>1, Zenon DEF Joined
<1>5. Seed' = [pool |-> pool', visited |-> visited', expanded |-> expanded']
  BY <1>1, <1>2, <1>3 DEF Seed
<1>6. HopsOf'[0] = Seed'
  <2>1. PICK seed, step, last : seed = Seed' /\ step = HopOf' /\ last = N
    OBVIOUS
  <2>2. last \in Nat
    BY <2>1, Sizes
  <2>3. LET R == Loops!Iterate(seed, step, last) IN
        R[0] = seed /\ \A n \in 1 .. last : R[n] = step[R[n - 1]]
    BY <2>2, LoopConstants, Loops!IterateStates
  <2> QED
    BY <2>1, <2>3 DEF HopsOf
<1>7. Len(expanded') = 0 /\ N >= 0
  BY <1>1, Sizes
<1> QED
  BY <1>4, <1>5, <1>6, <1>7 DEF InStep

\* a round takes it half a hop further,
LEMMA ExpandInStep ==
  ASSUME IndInv, IndInv', InStep, Expand
  PROVE  InStep'
<1> SUFFICES ASSUME ~ ioErr', params'.w = 1
             PROVE  /\ Len(expanded') <= N
                    /\ Reading' => Len(frontier') = 1
                    /\ HopsOf'[Len(expanded')] =
                         [pool |-> Joined'.pool, visited |-> Joined'.visited, expanded |-> expanded']
  BY DEF InStep
<1>1. /\ pc = "round" /\ Beams!Frontier(pool) # <<>>
      /\ frontier' = Beams!Frontier(pool) /\ pool' = Beams!MarkExpanded(pool)
      /\ expanded' = expanded \o frontier'
      /\ pc' = (IF ioErr THEN "round" ELSE "read")
      /\ UNCHANGED <<given, call>> /\ visited' = visited /\ ioErr' = ioErr
  BY Zenon DEF Expand
<1>2. TypeOK /\ Trained
  BY DEF IndInv
<1>3. /\ base' = base /\ nbrs' = nbrs /\ book' = book
      /\ query' = query /\ routing' = routing /\ params' = params
      /\ Route' = Route /\ Medoid' = Medoid
  BY <1>1, CallStays
<1>4. params.w = 1 /\ ~ ioErr /\ pc' = "read" /\ ~ Reading /\ Reading'
  BY <1>1, <1>3 DEF Reading
<1>5. PICK p, v, e, s : p = pool /\ v = visited /\ e = expanded /\ s = [pool |-> p, visited |-> v, expanded |-> e]
  OBVIOUS
<1>6. HopsOf[Len(e)] = s
  <2>1. Joined = [visited |-> visited, pool |-> pool]
    BY <1>4, Zenon DEF Joined
  <2> QED
    BY <1>1, <1>4, <1>5, <2>1 DEF InStep
<1>7. PICK f, m, r, l : f = Beams!Frontier(pool) /\ m = Beams!MarkExpanded(pool) /\ r = Route /\ l = nbrs
  OBVIOUS
<1>8. PICK next : next = Beams!Integrate(v, m, r, l[f[1]])
  OBVIOUS
<1>9. Len(f) = 1 /\ HopOf[s] = [pool |-> next.pool, visited |-> next.visited, expanded |-> Append(e, f[1])]
  <2>1. s = [pool |-> pool, visited |-> visited, expanded |-> expanded]
    BY <1>5
  <2>2. /\ Len(Beams!Frontier(pool)) = 1
        /\ HopOf[s] = [pool |-> Beams!Integrate(visited, Beams!MarkExpanded(pool), Route, nbrs[Beams!Frontier(pool)[1]]).pool,
                       visited |-> Beams!Integrate(visited, Beams!MarkExpanded(pool), Route, nbrs[Beams!Frontier(pool)[1]]).visited,
                       expanded |-> Append(expanded, Beams!Frontier(pool)[1])]
    BY <1>1, <1>2, <1>4, <2>1, HopFacts
  <2>3. Beams!Integrate(visited, Beams!MarkExpanded(pool), Route, nbrs[Beams!Frontier(pool)[1]]) = next
    BY <1>5, <1>7, <1>8
  <2>4. HopOf[s] = [pool |-> next.pool, visited |-> next.visited, expanded |-> Append(expanded, Beams!Frontier(pool)[1])]
    BY <2>2, <2>3
  <2>5. Append(expanded, Beams!Frontier(pool)[1]) = Append(e, f[1]) /\ Len(f) = 1
    BY <1>5, <1>7, <2>2
  <2> QED
    BY <2>4, <2>5
<1>10. Joined' = next
  <2>1. visited' = v /\ pool' = m /\ nbrs'[frontier'[1]] = l[f[1]]
    BY <1>1, <1>3, <1>5, <1>7
  <2>2. Beams!Integrate(visited, pool, Route, nbrs[frontier[1]])' = Beams!Integrate(v, m, Route, l[f[1]])
    BY <1>3, <2>1, JoinedStays
  <2>3. Joined' = Beams!Integrate(visited, pool, Route, nbrs[frontier[1]])'
    BY <1>4 DEF Joined
  <2> QED
    BY <1>7, <1>8, <2>2, <2>3
<1>11. e \in Seq(Nodes) /\ f \in Seq(Nodes) /\ frontier' = f /\ expanded' = e \o f
  <2>1. frontier' \in Seq(Nodes)
    BY DEF IndInv, TypeOK
  <2> QED
    BY <1>1, <1>2, <1>5, <1>7, <2>1 DEF TypeOK
<1>12. e \o f = Append(e, f[1]) /\ Len(e \o f) = Len(e) + 1 /\ Len(e) \in Nat
  <2>1. PICK x : x = f[1]
    OBVIOUS
  <2>2. f = <<x>> /\ x \in Nodes
    <3>1. f = <<f[1]>>
      BY <1>9, <1>11
    <3>2. 1 \in 1 .. Len(f) /\ f \in Seq(Nodes)
      BY <1>9, <1>11
    <3>3. f[1] \in Nodes
      BY <3>2, ElementOfSeq
    <3> QED
      BY <2>1, <3>1, <3>3
  <2>3. e \o <<x>> = Append(e, x)
    BY <1>11, <2>2, AppendIsConcat
  <2>4. Len(Append(e, x)) = Len(e) + 1 /\ Len(e) \in Nat
    BY <1>11, <2>2, AppendProperties, LenProperties
  <2> QED
    BY <2>1, <2>2, <2>3, <2>4
<1>13. Len(expanded') <= N
  <2>1. expanded' \in Seq(Nodes) /\ \A i, j \in DOMAIN expanded' : expanded'[i] = expanded'[j] => i = j
    BY DEF IndInv, TypeOK, BeamTidy
  <2>2. PICK n, g, T : n = Len(expanded') /\ g = expanded' /\ T = ToSet(expanded')
    OBVIOUS
  <2>3. /\ n \in Nat /\ \A i, j \in 1 .. n : g[i] = g[j] => i = j
        /\ \A x : x \in T <=> \E i \in 1 .. n : x = g[i]
        /\ T \in SUBSET Nodes
    BY <2>1, <2>2 DEF ToSet
  <2>4. Loops!Cardinality(T) = n
    BY <2>3, LoopConstants, Loops!DistinctCount
  <2>5. Cardinality(T) <= Cardinality(Nodes)
    BY <2>3, Sizes, FS_Subset
  <2> QED
    BY <2>2, <2>4, <2>5, Sizes, SameSums
<1>14. HopsOf[Len(e) + 1] = HopOf[s]
  <2>1. Len(e) + 1 \in 1 .. N /\ (Len(e) + 1) - 1 = Len(e)
    BY <1>11, <1>12, <1>13, Sizes
  <2>2. PICK n : n = Len(e) + 1
    OBVIOUS
  <2>3. HopsOf[n] = HopOf[HopsOf[n - 1]]
    BY <2>1, <2>2, HopsStart
  <2> QED
    BY <1>6, <2>1, <2>2, <2>3
<1>15. HopsOf' = HopsOf
  BY <1>3, HopsStay
<1> QED
  BY <1>9, <1>10, <1>11, <1>12, <1>13, <1>14, <1>15

\* reading leaves it there,
LEMMA QuietInStep ==
  ASSUME InStep, params' = params, nbrs' = nbrs, Route' = Route, Medoid' = Medoid,
         pool' = pool, visited' = visited, expanded' = expanded, frontier' = frontier,
         ioErr' = ioErr, pc # "idle", Reading' = Reading
  PROVE  InStep'
<1>1. HopsOf' = HopsOf
  BY HopsStay
<1>2. Joined' = Joined
  <2>1. PICK v, p, nb : v = visited /\ p = pool /\ nb = nbrs[frontier[1]]
    OBVIOUS
  <2>2. Beams!Integrate(visited, pool, Route, nbrs[frontier[1]])' = Beams!Integrate(v, p, Route, nb)
    BY <2>1, JoinedStays
  <2>3. CASE Reading
    BY <2>1, <2>2, <2>3 DEF Joined
  <2>4. CASE ~ Reading
    BY <2>4 DEF Joined
  <2> QED
    BY <2>3, <2>4
<1> QED
  BY <1>1, <1>2 DEF InStep

\* and taking the node out completes the hop.
LEMMA CollectInStep ==
  ASSUME IndInv, InStep, Collect
  PROVE  InStep'
<1> DEFINE places == [i \in DOMAIN frontier |-> i]
           step == [i \in DOMAIN frontier |-> [s \in Seq(Nodes) |-> s \o Found[i].nbrs]]
<1> SUFFICES ASSUME ~ ioErr', params'.w = 1
             PROVE  /\ Len(expanded') <= N
                    /\ Reading' => Len(frontier') = 1
                    /\ HopsOf'[Len(expanded')] =
                         [pool |-> Joined'.pool, visited |-> Joined'.visited, expanded |-> expanded']
  BY DEF InStep
<1>1. /\ pc = "collect" /\ pc' = "round"
      /\ UNCHANGED <<given, call>>
      /\ expanded' = expanded /\ frontier' = frontier /\ ioErr' = ioErr
  BY Zenon DEF Collect
<1>2. PICK nb, next :
        /\ nb = Beams!Loop(step, <<>>, places)
        /\ next = Beams!Integrate(visited, pool, Route, nb)
        /\ pool' = next.pool /\ visited' = next.visited
  BY Zenon DEF Collect
<1>3. /\ params' = params /\ nbrs' = nbrs /\ Route' = Route /\ Medoid' = Medoid
  BY <1>1, CallStays
<1>4. /\ Reading /\ ~ Reading' /\ Len(frontier) = 1 /\ Len(expanded) <= N
      /\ HopsOf[Len(expanded)] = [pool |-> Joined.pool, visited |-> Joined.visited, expanded |-> expanded]
  <2>1. Reading /\ ~ Reading'
    BY <1>1 DEF Reading
  <2> QED
    BY <1>1, <1>3, <2>1 DEF InStep
<1>5. nb = nbrs[frontier[1]]
  <2>1. frontier \in Seq(Nodes) /\ TypeOK /\ RoundRead /\ nbrs \in [Nodes -> Seq(Nodes)]
    BY SearchAssumption DEF IndInv, TypeOK
  <2>2. DOMAIN frontier = {1} /\ frontier[1] \in Nodes
    <3>1. PICK f : f = frontier
      OBVIOUS
    <3>2. f \in Seq(Nodes) /\ Len(f) = 1
      BY <1>4, <2>1, <3>1
    <3>3. DOMAIN f = 1 .. 1 /\ f[1] \in Nodes
      <4>1. DOMAIN f = 1 .. Len(f)
        BY <3>2, LenProperties
      <4>2. 1 \in 1 .. Len(f)
        BY <3>2
      <4>3. f[1] \in Nodes
        BY <3>2, <4>2, ElementOfSeq
      <4>4. 1 .. Len(f) = 1 .. 1
        BY <3>2
      <4> QED
        BY <4>1, <4>3, <4>4
    <3>4. 1 .. 1 = {1}
      <4>1. \A i : i \in 1 .. 1 <=> i \in {1}
        OBVIOUS
      <4> QED
        BY <4>1, Zenon
    <3> QED
      BY <3>1, <3>3, <3>4
  <2>3. Found[1].nbrs = nbrs[frontier[1]] /\ nbrs[frontier[1]] \in Seq(Nodes)
    BY <1>1, <2>1, <2>2, FoundFacts
  <2>4. PICK l : l = nbrs[frontier[1]]
    OBVIOUS
  <2>5. step[1] = [s \in Seq(Nodes) |-> s \o l]
    BY <2>2, <2>3, <2>4
  <2>6. places = <<1>>
    <3>1. places = [i \in {1} |-> i]
      BY <2>2
    <3> QED
      BY <3>1
  <2> HIDE DEF step, places
  <2>7. PICK F, q, t : F = step /\ q = places /\ t = <<>>
    OBVIOUS
  <2>8. q \in Seq(Nat) /\ Len(q) = 1 /\ q[1] = 1
    BY <2>6, <2>7
  <2>9. PICK f : /\ f[0] = t
                 /\ \A i \in 1 .. Len(q) : f[i] = F[q[i]][f[i - 1]]
                 /\ Loops!Loop(F, t, q) = f[Len(q)]
    BY <2>8, LoopConstants, Loops!LoopStates
  <2>10. f[1] = step[1][<<>>]
    BY <2>7, <2>8, <2>9
  <2>11. step[1][<<>>] = <<>> \o l
    BY <2>5
  <2>12. <<>> \o l = l
    BY <2>3, <2>4
  <2>13. \A a, b, c : Beams!Loop(a, b, c) = Loops!Loop(a, b, c)
    <3>1. \A S : Beams!Max(S) = Loops!Max(S)
      BY DEF Beams!Max, Loops!Max
    <3> QED
      BY <3>1, Zenon DEF Beams!Loop, Loops!Loop, Beams!FoldLeft, Loops!FoldLeft,
        Beams!MapThenFoldSet, Loops!MapThenFoldSet, Beams!Max, Loops!Max
  <2> QED
    BY <1>2, <2>4, <2>7, <2>8, <2>9, <2>10, <2>11, <2>12, <2>13
<1>6. Joined = next
  BY <1>2, <1>4, <1>5 DEF Joined
<1>7. Joined' = [visited |-> visited', pool |-> pool']
  BY <1>4, Zenon DEF Joined
<1>8. HopsOf' = HopsOf
  BY <1>3, HopsStay
<1> QED
  BY <1>1, <1>2, <1>4, <1>6, <1>7, <1>8


\* Steps that touch neither the beam nor the place in the hop.
LEMMA IdleInStep ==
  ASSUME IndInv, InStep, UNCHANGED <<given, call>>, pc # "idle",
         pool' = pool, visited' = visited, expanded' = expanded, frontier' = frontier,
         ioErr' = ioErr, Reading' = Reading
  PROVE  InStep'
<1>1. params' = params /\ nbrs' = nbrs /\ Route' = Route /\ Medoid' = Medoid
  BY CallStays
<1> QED
  BY <1>1, QuietInStep

LEMMA StutterInStep ==
  ASSUME IndInv, InStep, UNCHANGED vars
  PROVE  InStep'
<1>1. /\ UNCHANGED <<given, call>> /\ pc' = pc
      /\ pool' = pool /\ visited' = visited /\ expanded' = expanded
      /\ frontier' = frontier /\ ioErr' = ioErr
  BY DEF vars, beam
<1>2. Reading' = Reading
  BY <1>1 DEF Reading
<1>3. CASE pc = "idle"
  BY <1>1, <1>3 DEF InStep
<1>4. CASE pc # "idle"
  BY <1>1, <1>2, <1>4, IdleInStep
<1> QED
  BY <1>3, <1>4

LEMMA NextInStep == IndInv /\ IndInv' /\ InStep /\ [Next]_vars => InStep'
<1> SUFFICES ASSUME IndInv, IndInv', InStep, [Next]_vars PROVE InStep'
  OBVIOUS
<1>1. ASSUME NEW q \in Points, NEW kind \in {"exact", "sq8"}, NEW asked \in Requests, Start(q, kind, asked)
      PROVE  InStep'
  BY <1>1, StartInStep
<1>2. CASE Expand
  BY <1>2, ExpandInStep
<1>3. CASE ReadBlock
  <2>1. /\ pc = "read" /\ pc' \in {"read", "collect"} /\ UNCHANGED <<given, call>>
        /\ pool' = pool /\ visited' = visited /\ expanded' = expanded
        /\ frontier' = frontier /\ ioErr' = ioErr
    BY <1>3 DEF ReadBlock, beam
  <2>2. Reading' = Reading
    BY <2>1 DEF Reading
  <2> QED
    BY <2>1, <2>2, IdleInStep
<1>4. CASE ReadFails
  BY <1>4 DEF ReadFails, InStep
<1>5. CASE Collect
  BY <1>5, CollectInStep
<1>6. CASE Return
  <2>1. /\ pc = "round" /\ pc' = "returned" /\ UNCHANGED <<given, call>>
        /\ pool' = pool /\ visited' = visited /\ expanded' = expanded
        /\ frontier' = frontier /\ ioErr' = ioErr
    BY <1>6 DEF Return, beam
  <2>2. Reading' = Reading
    BY <2>1 DEF Reading
  <2> QED
    BY <2>1, <2>2, IdleInStep
<1>7. CASE HandOver
  BY <1>7 DEF HandOver, InStep
<1>8. CASE UNCHANGED vars
  BY <1>8, StutterInStep
<1> QED
  BY <1>1, <1>2, <1>3, <1>4, <1>5, <1>6, <1>7, <1>8 DEF Next

\* With the whole pool expanded, the greedy search is where the call is.
LEMMA GreedyEnds ==
  ASSUME TypeOK, Trained, InStep, pc = "returned", ~ ioErr, params.w = 1,
         \A i \in DOMAIN pool : pool[i].expanded,
         NEW load, load = [nbrs |-> nbrs, route |-> [q \in {0} |-> Route]]
  PROVE  Beams!GreedySearch(load, 0) = [pool |-> pool, visited |-> visited, expanded |-> expanded]
<1>1. PICK s, n : s = [pool |-> pool, visited |-> visited, expanded |-> expanded] /\ n = Len(expanded)
  OBVIOUS
<1>2. ~ Reading
  BY DEF Reading
<1>3. Joined = [visited |-> visited, pool |-> pool]
  BY <1>2, Zenon DEF Joined
<1>4. n <= N /\ HopsOf[n] = s
  BY <1>1, <1>3 DEF InStep
<1>5. n \in 0 .. N /\ N \in Nat
  <2>1. expanded \in Seq(Nodes)
    BY DEF TypeOK
  <2>2. Len(expanded) \in Nat
    BY <2>1, LenProperties
  <2> QED
    BY <1>1, <1>4, <2>2, Sizes
<1>6. HopOf[s] = s
  BY <1>1, LastHop
<1>7. HopsOf[N] = s
  <2>1. PICK seed, step, last : seed = Seed /\ step = HopOf /\ last = N
    OBVIOUS
  <2>2. PICK R : R = Loops!Iterate(seed, step, last)
    OBVIOUS
  <2>3. R = HopsOf
    BY <2>1, <2>2 DEF HopsOf
  <2>4. last \in Nat /\ n \in 0 .. last /\ step[R[n]] = R[n]
    BY <1>4, <1>5, <1>6, <2>1, <2>3
  <2>5. step[Loops!Iterate(seed, step, last)[n]] = Loops!Iterate(seed, step, last)[n]
    BY <2>2, <2>4
  <2>6. Loops!Iterate(seed, step, last)[last] = Loops!Iterate(seed, step, last)[n]
    BY <2>4, <2>5, LoopConstants, Loops!IterateSettles
  <2> QED
    BY <1>4, <2>1, <2>2, <2>3, <2>6
<1>8. Beams!Hops(load, 0) = HopsOf /\ Beams!Cardinality(Nodes) = N
  BY HopsAre, SameSets, Sizes
<1> QED
  BY <1>1, <1>7, <1>8 DEF Beams!GreedySearch

\* The nearest of the pool are at the distances of the nearest that were read.
LEMMA PoolAsFar ==
  ASSUME IndInv, pc = "returned", ~ ioErr, routing = "exact",
         \A i \in DOMAIN pool : pool[i].expanded
  PROVE  DistancesOf(top) = DistancesOf(Beams!FirstOf(pool, params.k))
<1>1. TypeOK /\ Trained /\ BeamTidy /\ TopNearest
  BY DEF IndInv
<1>2. PICK C, V, U, d, p, t, m, k :
        /\ C = Beams!Cand \cup Beams!Scored /\ V = visited /\ U = ToSet(expanded) /\ d = Exact
        /\ p = pool /\ t = top /\ m = params.ef /\ k = params.k
  OBVIOUS
<1>3. p \in Seq(C) /\ t \in Seq(C)
  <2>1. pool \in Seq(Beams!Cand) /\ top \in Seq(Beams!Scored)
    BY <1>1 DEF TypeOK
  <2>2. \A A, B : Seq(A) \subseteq Seq(A \cup B) /\ Seq(B) \subseteq Seq(A \cup B)
    OBVIOUS
  <2> QED
    BY <1>2, <2>1, <2>2
<1>4. m \in Nat /\ k \in Nat /\ k <= m /\ Search!BeamAssumption /\ d \in [Nodes -> Nat] /\ d = Route
  BY <1>1, <1>2, CallFacts DEF TypeOK
<1>5. Search!NearestOf(t, d, U, k)
  <2>1. Done = ToSet(expanded)
    BY DEF Done, Reading
  <2> QED
    BY <1>1, <1>2, <2>1, SamePredicates DEF TopNearest
<1>6. Search!NearestOf(p, d, V, m) /\ V \in SUBSET Nodes
  BY <1>1, <1>2, <1>4, SamePredicates DEF BeamTidy, TypeOK
<1>7. U \in SUBSET V /\ \A i \in DOMAIN p : p[i].id \in U
  <2>1. PICK b : b = [visited |-> visited, pool |-> pool]
    OBVIOUS
  <2>2. b.visited = V /\ b.pool = p /\ Beams!Tidy(b, U)
    BY <1>1, <1>2, <2>1 DEF BeamTidy
  <2>3. \A i \in DOMAIN p : p[i].expanded
    BY <1>2
  <2> QED
    BY <2>2, <2>3 DEF Beams!Tidy
<1>8. Search!NearestOf(p, d, U, m) /\ U \in SUBSET Nodes
  BY <1>6, <1>7, <1>4, Search!NearestWithin
<1>9. PICK g : g = Search!FirstOf(p, k)
  OBVIOUS
<1>10. Search!NearestOf(g, d, U, k) /\ g \in Seq(C)
  BY <1>3, <1>4, <1>8, <1>9, Search!NearestFirst, Search!FirstFacts
<1>11. DOMAIN t = DOMAIN g /\ \A i \in DOMAIN t : t[i].dist = g[i].dist
  BY <1>3, <1>4, <1>5, <1>8, <1>10, Search!NearestDistances
<1>12. Beams!FirstOf(pool, params.k) = g
  BY <1>2, <1>9, Zenon DEF Beams!FirstOf, Search!FirstOf
<1> QED
  BY <1>2, <1>11, <1>12 DEF DistancesOf

\* With a beam of width one and exact routing, DiskIndex::search expands what
\* beam_search expands, in its order, ends with its pool, and answers with its
\* distances.
THEOREM StepsAlike == Spec => []StepForStep
<1>1. Init => InStep
  BY DEF Init, InStep
<1>2. IndInv /\ IndInv' /\ InStep /\ [Next]_vars => InStep'
  BY NextInStep
<1>3. ASSUME IndInv, InStep PROVE StepForStep
  <2> SUFFICES ASSUME answer.ok, params.w = 1, routing = "exact",
                      NEW load, load = [nbrs |-> nbrs, route |-> [q \in {0} |-> Route]],
                      NEW greedy, greedy = Beams!GreedySearch(load, 0)
               PROVE  /\ expanded = greedy.expanded
                      /\ pool = greedy.pool
                      /\ DistancesOf(answer.top) = DistancesOf(Beams!FirstOf(greedy.pool, params.k))
    BY Zenon DEF StepForStep
  <2>1. TypeOK /\ Trained /\ AnswerKept
    BY <1>3 DEF IndInv
  <2>2. pc = "returned" /\ ~ ioErr
    <3>1. answer # NoAnswer
      BY DEF NoAnswer
    <3> QED
      BY <2>1, <3>1 DEF AnswerKept
  <2>3. \A i \in DOMAIN pool : pool[i].expanded
    BY <2>1, <2>2 DEF AnswerKept
  <2>4. answer.top = top
    <3>1. answer = [ok |-> TRUE, top |-> top, reads |-> Len(expanded)]
      BY <2>1, <2>2 DEF AnswerKept
    <3> QED
      BY <3>1
  <2>5. greedy = [pool |-> pool, visited |-> visited, expanded |-> expanded]
    BY <1>3, <2>1, <2>2, <2>3, GreedyEnds
  <2>6. expanded = greedy.expanded /\ pool = greedy.pool
    BY <2>5
  <2>7. DistancesOf(top) = DistancesOf(Beams!FirstOf(pool, params.k))
    BY <1>3, <2>2, <2>3, PoolAsFar
  <2>8. DistancesOf(answer.top) = DistancesOf(Beams!FirstOf(greedy.pool, params.k))
    BY <2>4, <2>6, <2>7
  <2> QED
    BY <2>6, <2>8
<1> QED
  BY <1>1, <1>2, <1>3, InvariantHolds, PTL DEF Spec

=============================================================================
