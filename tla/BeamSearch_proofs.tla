------------------------- MODULE BeamSearch_proofs -------------------------
(***************************************************************************)
(* Theorems about the operators of BeamSearch, for every graph, distance   *)
(* and width, and what other proofs share: division, sums over a finite    *)
(* set, squared distances and the medoid.  Induction is by the least       *)
(* counterexample, a set of numbers.                                       *)
(***************************************************************************)
EXTENDS BeamSearch, Vectors, SequenceTheorems, FiniteSetTheorems, WellFoundedInduction, TLAPS

\* Every set of numbers that is not empty has a least.
LEMMA LeastNat ==
  ASSUME NEW T \in SUBSET Nat, T # {}
  PROVE  \E x \in T : \A y \in T : x <= y
<1> DEFINE R == OpToRel(<, Nat)
<1>1. IsWellFoundedOn(R, Nat)
  BY NatLessThanWellFounded
<1>2. \A x, y \in Nat : x < y => <<x, y>> \in R
  BY DEF OpToRel
<1> HIDE DEF R
<1>3. PICK x \in T : \A y \in T : ~ (<<y, x>> \in R)
  BY <1>1, WFMin
<1>4. ASSUME NEW y \in T PROVE x <= y
  <2>1. x \in Nat /\ y \in Nat
    OBVIOUS
  <2>2. ~ (y < x)
    BY <1>2, <1>3, <2>1
  <2> QED
    BY <2>1, <2>2
<1> QED
  BY <1>4

\* Induction up to a bound, over the numbers that are not in a given set.
LEMMA UpTo ==
  ASSUME NEW n \in Nat, NEW G, 0 \in G,
         \A i \in 1 .. n : i - 1 \in G => i \in G
  PROVE  \A i \in 0 .. n : i \in G
<1> DEFINE T == {i \in 0 .. n : i \notin G}
<1> SUFFICES ASSUME T # {} PROVE FALSE
  OBVIOUS
<1>0. T \in SUBSET Nat
  OBVIOUS
<1>1. PICK x \in T : \A y \in T : x <= y
  <2> HIDE DEF T
  <2> QED
    BY <1>0, LeastNat
<1>2. x \in 1 .. n
  BY <1>1
<1>3. x - 1 \in G
  BY <1>1, <1>2
<1> QED
  BY <1>1, <1>2, <1>3

-----------------------------------------------------------------------------
\* A number is its quotient times the divisor, and a smaller remainder.
LEMMA DivisionLaw ==
  ASSUME NEW a \in Nat, NEW b \in Nat \ {0}
  PROVE  /\ a \div b \in Nat /\ (a % b) \in Nat
         /\ a = (a \div b) * b + (a % b)
         /\ (a % b) < b
  OBVIOUS

\* The order of products is that of their factors.
LEMMA TimesMonotone ==
  ASSUME NEW b \in Nat, NEW p \in Int, NEW q \in Int, p <= q
  PROVE  p * b <= q * b
<1>1. (q - p) * b >= 0
  OBVIOUS
<1>2. (q - p) * b = q * b - p * b
  OBVIOUS
<1>3. p * b \in Int /\ q * b \in Int
  OBVIOUS
<1> QED
  BY <1>1, <1>2, <1>3

\* There is one quotient and one remainder.
LEMMA DivisionUnique ==
  ASSUME NEW b \in Nat \ {0}, NEW q \in Nat, NEW r \in Nat, r < b
  PROVE  (q * b + r) \div b = q /\ ((q * b + r) % b) = r
<1> DEFINE a == q * b + r
           p == a \div b
           s == a % b
<1>1. a \in Nat
  OBVIOUS
<1>2. p \in Nat /\ s \in Nat /\ a = p * b + s /\ s < b
  BY <1>1, DivisionLaw
<1> HIDE DEF p, s
<1>3. p * b \in Nat /\ q * b \in Nat /\ (p + 1) * b = p * b + b /\ (q + 1) * b = q * b + b
  BY <1>2
<1>4. ~ (p < q)
  <2>1. SUFFICES ASSUME p + 1 <= q PROVE FALSE
    BY <1>2
  <2>2. p * b + b <= q * b
    BY <2>1, <1>2, <1>3, TimesMonotone
  <2> QED
    BY <2>2, <1>2, <1>3
<1>5. ~ (q < p)
  <2>1. SUFFICES ASSUME q + 1 <= p PROVE FALSE
    BY <1>2
  <2>2. q * b + b <= p * b
    BY <2>1, <1>2, <1>3, TimesMonotone
  <2> QED
    BY <2>2, <1>2, <1>3
<1>6. p = q
  BY <1>2, <1>4, <1>5
<1>7. s = r
  BY <1>2, <1>3, <1>6
<1> QED
  BY <1>6, <1>7 DEF p, s

-----------------------------------------------------------------------------
\* The member of a set that sums add first.
Member(s) == CHOOSE x \in s : TRUE

\* Total adds the terms one after another, in an order that is the same for all
\* functions on one set.
SumOver(f, D, iter) ==
  /\ Total(f) = iter[D] /\ iter[{}] = 0
  /\ \A s \in SUBSET D : s # {} => iter[s] = f[Member(s)] + iter[s \ {Member(s)}]

LEMMA SumUnfolds ==
  ASSUME NEW D, IsFiniteSet(D), NEW f, DOMAIN f = D
  PROVE  \E iter : SumOver(f, D, iter)
<1> DEFINE n == Cardinality(D)
           Body(g, s) == IF s = {} THEN 0 ELSE f[Member(s)] + g[s \ {Member(s)}]
           Sub(m) == {s \in SUBSET D : Cardinality(s) <= m}
           Def(g, m) == g = [s \in Sub(m) |-> Body(g, s)]
           Full(g) == g = [s \in SUBSET D |-> Body(g, s)]
           iter == CHOOSE g : Full(g)
<1>1. n \in Nat
  BY FS_CardinalityType
<1>2. \A s \in SUBSET D : IsFiniteSet(s) /\ Cardinality(s) \in Nat /\ Cardinality(s) <= n
  BY FS_Subset, FS_CardinalityType
<1>3. \A s \in SUBSET D : s # {} =>
        /\ Member(s) \in s /\ s \ {Member(s)} \in SUBSET D
        /\ Cardinality(s) >= 1 /\ Cardinality(s \ {Member(s)}) = Cardinality(s) - 1
  <2> TAKE s \in SUBSET D
  <2> HAVE s # {}
  <2>1. Member(s) \in s
    BY DEF Member
  <2>2. Cardinality(s \ {Member(s)}) = Cardinality(s) - 1
    BY <1>2, <2>1, FS_RemoveElement
  <2>3. s \ {Member(s)} \in SUBSET D
    OBVIOUS
  <2>4. Cardinality(s \ {Member(s)}) \in Nat /\ Cardinality(s) \in Nat
    BY <1>2, <2>3
  <2> QED
    BY <2>1, <2>2, <2>3, <2>4
<1>4. ASSUME NEW m \in 1 .. n, \E g : Def(g, m - 1) PROVE \E g : Def(g, m)
  <2>1. PICK g : Def(g, m - 1)
    BY <1>4
  <2> DEFINE h == [s \in Sub(m) |-> Body(g, s)]
  <2>2. \A s \in Sub(m - 1) : s \in Sub(m) /\ h[s] = g[s]
    <3> TAKE s \in Sub(m - 1)
    <3>1. s \in Sub(m)
      BY <1>1, <1>2
    <3>2. g[s] = Body(g, s)
      BY <2>1
    <3> HIDE DEF Body
    <3> QED
      BY <3>1, <3>2
  <2>3. \A s \in Sub(m) : s # {} => s \ {Member(s)} \in Sub(m - 1)
    BY <1>1, <1>2, <1>3
  <2> HIDE DEF h
  <2>4. \A s \in Sub(m) : Body(g, s) = Body(h, s)
    BY <2>2, <2>3
  <2>5. Def(h, m)
    BY <2>4 DEF h
  <2> QED
    BY <2>5
<1>5. \E g : Def(g, 0)
  <2> DEFINE g == [s \in Sub(0) |-> 0]
  <2>1. ASSUME NEW s \in SUBSET D, Cardinality(s) <= 0, s # {} PROVE FALSE
    <3>1. Cardinality(s) \in Nat /\ Cardinality(s) >= 1
      BY <1>2, <1>3, <2>1
    <3> QED
      BY <2>1, <3>1
  <2>2. Def(g, 0)
    BY <2>1
  <2> QED
    BY <2>2
<1>6. \E g : Def(g, n)
  <2> DEFINE T == {m \in 0 .. n : \E g : Def(g, m)}
  <2>1. 0 \in T /\ \A m \in 1 .. n : m - 1 \in T => m \in T
    <3> HIDE DEF Def, n
    <3> QED
      BY <1>1, <1>4, <1>5
  <2> HIDE DEF T, n
  <2>2. \A m \in 0 .. n : m \in T
    BY <1>1, <2>1, UpTo
  <2>3. n \in T
    BY <1>1, <2>2
  <2> QED
    BY <2>3 DEF T
<1>7. Full(iter)
  <2>1. Sub(n) = SUBSET D
    BY <1>2
  <2>2. \E g : Full(g)
    BY <1>6, <2>1
  <2> QED
    BY <2>2
<1>8. Total(f) = iter[D]
  BY Zenon DEF Total, FoldFunction, FoldFunctionOnSet, MapThenFoldSet, Member
<1> HIDE DEF iter
<1>9. iter[{}] = 0
  <2>1. {} \in SUBSET D
    OBVIOUS
  <2>2. iter[{}] = Body(iter, {})
    BY <1>7, <2>1, Zenon
  <2> QED
    BY <2>2
<1>10. ASSUME NEW s \in SUBSET D, s # {} PROVE iter[s] = f[Member(s)] + iter[s \ {Member(s)}]
  <2>1. iter[s] = Body(iter, s)
    BY <1>7, Zenon
  <2> QED
    BY <1>10, <2>1
<1>11. SumOver(f, D, iter)
  BY <1>8, <1>9, <1>10 DEF SumOver
<1> QED
  BY <1>11

\* The steps of a sum: its first member, and the sets that are left.
LEMMA SumSteps ==
  ASSUME NEW D, IsFiniteSet(D), NEW G \in SUBSET SUBSET D, {} \in G,
         \A s \in SUBSET D : s # {} /\ Member(s) \in s /\ s \ {Member(s)} \in G => s \in G
  PROVE  D \in G
<1> DEFINE n == Cardinality(D)
           T == {m \in 0 .. n : \A s \in SUBSET D : Cardinality(s) = m => s \in G}
<1>1. n \in Nat
  BY FS_CardinalityType
<1>2. \A s \in SUBSET D : IsFiniteSet(s) /\ Cardinality(s) \in Nat
  BY FS_Subset, FS_CardinalityType
<1>3. 0 \in T
  <2>1. \A s \in SUBSET D : Cardinality(s) = 0 => s = {}
    BY <1>2, FS_EmptySet
  <2> QED
    BY <1>1, <2>1
<1>4. ASSUME NEW m \in 1 .. n, m - 1 \in T PROVE m \in T
  <2> SUFFICES ASSUME NEW s \in SUBSET D, Cardinality(s) = m PROVE s \in G
    BY <1>1
  <2>1. s # {}
    <3>1. Cardinality({}) = 0
      BY FS_EmptySet
    <3>2. m # 0
      BY <1>1
    <3> QED
      BY <3>1, <3>2
  <2>2. Member(s) \in s
    BY <2>1 DEF Member
  <2>3. Cardinality(s \ {Member(s)}) = m - 1
    BY <1>2, <2>2, FS_RemoveElement
  <2>4. s \ {Member(s)} \in G
    BY <1>4, <2>3
  <2> QED
    BY <2>1, <2>2, <2>4
<1>5. \A m \in 0 .. n : m \in T
  <2> HIDE DEF T, n
  <2> QED
    BY <1>1, <1>3, <1>4, UpTo
<1>6. n \in T
  BY <1>1, <1>5
<1> QED
  BY <1>6

\* What is preserved by adding each of the terms holds of the sum.
LEMMA SumFacts ==
  ASSUME NEW D, IsFiniteSet(D), NEW f, DOMAIN f = D, NEW G, 0 \in G,
         \A x \in D, g \in G : f[x] + g \in G
  PROVE  Total(f) \in G
<1>1. PICK iter : SumOver(f, D, iter)
  BY SumUnfolds
<1> DEFINE H == {s \in SUBSET D : iter[s] \in G}
<1>2. {} \in H
  BY <1>1 DEF SumOver
<1>3. ASSUME NEW s \in SUBSET D, s # {}, Member(s) \in s, s \ {Member(s)} \in H PROVE s \in H
  BY <1>1, <1>3 DEF SumOver
<1>4. H \in SUBSET SUBSET D
  OBVIOUS
<1>5. D \in H
  <2> HIDE DEF H
  <2> QED
    BY <1>2, <1>3, <1>4, SumSteps
<1> QED
  BY <1>1, <1>5 DEF SumOver

LEMMA SumsUnfold ==
  ASSUME NEW D, IsFiniteSet(D)
  PROVE  \A u \in [D -> Int] : \E iter : SumOver(u, D, iter)
<1>1. ASSUME NEW u, DOMAIN u = D PROVE \E iter : SumOver(u, D, iter)
  BY <1>1, SumUnfolds
<1> QED
  BY <1>1

\* What bounds the difference of each two terms bounds that of the sums.
LEMMA SumsClose ==
  ASSUME NEW D, IsFiniteSet(D), NEW c \in Int,
         NEW f \in [D -> Int], NEW g \in [D -> Int], NEW h \in [D -> Int],
         \A x \in D : 4 * (f[x] - c * g[x]) <= h[x] /\ 4 * (c * g[x] - f[x]) <= h[x]
  PROVE  /\ Total(f) \in Int /\ Total(g) \in Int /\ Total(h) \in Int
         /\ 4 * (Total(f) - c * Total(g)) <= Total(h)
         /\ 4 * (c * Total(g) - Total(f)) <= Total(h)
<1>1. \A u \in [D -> Int] : \E iter : SumOver(u, D, iter)
  BY SumsUnfold
<1>2. PICK F : SumOver(f, D, F)
  BY <1>1
<1>3. PICK G : SumOver(g, D, G)
  BY <1>1
<1>4. PICK H : SumOver(h, D, H)
  BY <1>1
<1> DEFINE Close(s) == /\ F[s] \in Int /\ G[s] \in Int /\ H[s] \in Int
                       /\ 4 * (F[s] - c * G[s]) <= H[s] /\ 4 * (c * G[s] - F[s]) <= H[s]
           T == {s \in SUBSET D : Close(s)}
<1>5. {} \in T
  <2>1. c * 0 = 0
    OBVIOUS
  <2>2. F[{}] = 0 /\ G[{}] = 0 /\ H[{}] = 0
    BY <1>2, <1>3, <1>4 DEF SumOver
  <2>3. Close({})
    BY <2>1, <2>2
  <2> HIDE DEF Close
  <2> QED
    BY <2>3
<1>6. ASSUME NEW s \in SUBSET D, s # {}, Member(s) \in s, s \ {Member(s)} \in T
      PROVE  s \in T
  <2> DEFINE m == Member(s)
             r == s \ {m}
  <2>1. Close(r) /\ m \in D
    BY <1>6
  <2>2. F[s] = f[m] + F[r] /\ G[s] = g[m] + G[r] /\ H[s] = h[m] + H[r]
    BY <1>2, <1>3, <1>4, <1>6 DEF SumOver
  <2>3. /\ f[m] \in Int /\ g[m] \in Int /\ h[m] \in Int
        /\ 4 * (f[m] - c * g[m]) <= h[m] /\ 4 * (c * g[m] - f[m]) <= h[m]
    BY <2>1
  <2> HIDE DEF m, r
  <2>4. PICK i, j, x, y : i = g[m] /\ j = G[r] /\ x = c * g[m] /\ y = c * G[r]
    OBVIOUS
  <2>5. i \in Int /\ j \in Int /\ x \in Int /\ y \in Int /\ c * (i + j) = x + y
    BY <2>1, <2>3, <2>4
  <2>6. c * G[s] = x + y
    BY <2>2, <2>4, <2>5
  <2>7. /\ F[s] \in Int /\ G[s] \in Int /\ H[s] \in Int
        /\ 4 * (F[s] - (x + y)) <= H[s] /\ 4 * ((x + y) - F[s]) <= H[s]
    BY <2>1, <2>2, <2>3, <2>4, <2>5
  <2> QED
    BY <2>6, <2>7
<1>7. D \in T
  <2>1. T \in SUBSET SUBSET D
    OBVIOUS
  <2> HIDE DEF T
  <2> QED
    BY <1>5, <1>6, <2>1, SumSteps
<1>8. Close(D)
  BY <1>7
<1>9. Total(f) = F[D] /\ Total(g) = G[D] /\ Total(h) = H[D]
  BY <1>2, <1>3, <1>4 DEF SumOver
<1> QED
  BY <1>8, <1>9

\* Distances are naturals.
LEMMA L2SqType ==
  ASSUME NEW n \in Nat, NEW a, NEW b, DOMAIN a = 1 .. n,
         \A d \in 1 .. n : a[d] \in Int /\ b[d] \in Int
  PROVE  L2Sq(a, b) \in Nat
<1> DEFINE D == 1 .. n
           f == [d \in DOMAIN a |-> (a[d] - b[d]) * (a[d] - b[d])]
<1>1. IsFiniteSet(D)
  <2>1. 1 \in Int /\ n \in Int
    OBVIOUS
  <2> QED
    BY <2>1, FS_Interval
<1>2. DOMAIN f = D
  OBVIOUS
<1>3. ASSUME NEW x \in D, NEW g \in Nat PROVE f[x] + g \in Nat
  <2>1. f[x] = (a[x] - b[x]) * (a[x] - b[x]) /\ a[x] \in Int /\ b[x] \in Int
    OBVIOUS
  <2>2. \A y \in Int : y * y \in Nat
    OBVIOUS
  <2>3. a[x] - b[x] \in Int
    BY <2>1
  <2>4. f[x] \in Nat
    BY <2>1, <2>2, <2>3
  <2> QED
    BY <2>4
<1> HIDE DEF D, f
<1>4. Total(f) \in Nat
  BY <1>1, <1>2, <1>3, SumFacts
<1> QED
  BY <1>4 DEF L2Sq, f

\* The first of the least values of a function on numbers.
LEMMA LeastOf ==
  ASSUME NEW S \in SUBSET Nat, S # {}, NEW off, \A i \in S : off[i] \in Nat
  PROVE  \E i \in S : \A j \in S : off[i] < off[j] \/ (off[i] = off[j] /\ i <= j)
<1> DEFINE V == {off[i] : i \in S}
<1>1. V \in SUBSET Nat /\ V # {}
  OBVIOUS
<1> HIDE DEF V
<1>2. PICK v \in V : \A w \in V : v <= w
  BY <1>1, LeastNat
<1> DEFINE T == {i \in S : off[i] = v}
<1>3. T \in SUBSET Nat /\ T # {}
  <2>1. \E i \in S : off[i] = v
    BY DEF V
  <2>2. \A i \in S : i \in Nat
    OBVIOUS
  <2> QED
    BY <2>1, <2>2
<1> HIDE DEF T
<1>4. PICK i \in T : \A j \in T : i <= j
  BY <1>3, LeastNat
<1>5. i \in S /\ off[i] = v
  BY <1>4 DEF T
<1>6. ASSUME NEW j \in S PROVE off[i] < off[j] \/ (off[i] = off[j] /\ i <= j)
  <2>1. off[j] \in V /\ off[j] \in Nat /\ v \in Nat
    BY <1>1, <1>2 DEF V
  <2>2. CASE off[j] = v
    BY <1>4, <1>5, <2>2 DEF T
  <2>3. CASE off[j] # v
    BY <1>2, <1>5, <2>1, <2>3
  <2> QED
    BY <2>2, <2>3
<1> QED
  BY <1>5, <1>6

\* The medoid is one of the points.
LEMMA MedoidFacts ==
  ASSUME NEW S \in SUBSET Nat, IsFiniteSet(S), 0 \in S, NEW base \in [S -> Seq(Int)],
         \A i \in S : Len(base[i]) = Len(base[0])
  PROVE  FindMedoid(base) \in S
<1> DEFINE n == Cardinality(DOMAIN base)
           sum == [d \in DOMAIN base[0] |-> Total([i \in DOMAIN base |-> base[i][d]])]
           scaled == [i \in DOMAIN base |-> [d \in DOMAIN sum |-> n * base[i][d]]]
           off == [i \in DOMAIN base |-> L2Sq(sum, [d \in DOMAIN sum |-> n * base[i][d]])]
           dim == Len(base[0])
<1>1. DOMAIN base = S /\ S # {} /\ n \in Nat
  <2>1. DOMAIN base = S
    OBVIOUS
  <2> QED
    BY <2>1, FS_CardinalityType
<1>2. dim \in Nat /\ DOMAIN base[0] = 1 .. dim
      /\ \A i \in S : \A d \in 1 .. dim : base[i][d] \in Int
  <2>1. \A i \in S : base[i] \in Seq(Int) /\ Len(base[i]) = dim
    BY <1>1
  <2> QED
    BY <1>1, <2>1, LenProperties, ElementOfSeq
<1> HIDE DEF n, dim
<1>3. ASSUME NEW d \in 1 .. dim PROVE sum[d] \in Int
  <2> DEFINE f == [i \in DOMAIN base |-> base[i][d]]
  <2>1. DOMAIN f = S /\ \A x \in S, g \in Int : f[x] + g \in Int
    BY <1>1, <1>2
  <2>2. sum[d] = Total(f)
    BY <1>2
  <2> HIDE DEF f, sum
  <2>3. PICK h, G : h = f /\ G = Int
    OBVIOUS
  <2>4. DOMAIN h = S /\ 0 \in G /\ \A x \in S, g \in G : h[x] + g \in G
    BY <2>1, <2>3
  <2>5. Total(h) \in G
    BY <2>4, SumFacts
  <2> QED
    BY <2>2, <2>3, <2>5
<1>4. DOMAIN sum = 1 .. dim
  BY <1>2
<1>5. ASSUME NEW i \in S PROVE off[i] \in Nat
  <2> DEFINE b == [d \in DOMAIN sum |-> n * base[i][d]]
  <2>1. off[i] = L2Sq(sum, b)
    BY <1>1
  <2> HIDE DEF sum, off
  <2>2. \A d \in 1 .. dim : sum[d] \in Int /\ b[d] \in Int
    <3> SUFFICES ASSUME NEW d \in 1 .. dim PROVE b[d] \in Int
      BY <1>3
    <3>1. b[d] = n * base[i][d] /\ base[i][d] \in Int
      BY <1>1, <1>2, <1>4
    <3> QED
      BY <1>1, <3>1
  <2> HIDE DEF b
  <2>3. L2Sq(sum, b) \in Nat
    BY <1>2, <1>4, <2>2, L2SqType
  <2> QED
    BY <2>1, <2>3
<1>6. FindMedoid(base) = CHOOSE i \in DOMAIN base : \A j \in DOMAIN base :
                 off[i] < off[j] \/ (off[i] = off[j] /\ i <= j)
  BY Zenon DEF FindMedoid, n
<1> HIDE DEF off
<1>7. \E i \in S : \A j \in S : off[i] < off[j] \/ (off[i] = off[j] /\ i <= j)
  BY <1>1, <1>5, LeastOf
<1> QED
  BY <1>1, <1>6, <1>7

-----------------------------------------------------------------------------
\* The maximum of some of the first numbers.
LEMMA MaxFacts ==
  ASSUME NEW n \in Nat, NEW S \in SUBSET (1 .. n), S # {}
  PROVE  Max(S) \in S /\ \A y \in S : Max(S) >= y
<1> DEFINE T == {u \in Nat : \A y \in S : u >= y}
<1>1. n \in T
  OBVIOUS
<1>2. PICK u \in T : \A v \in T : u <= v
  BY <1>1, LeastNat
<1>3. u \in S
  <2> SUFFICES ASSUME u \notin S PROVE FALSE
    OBVIOUS
  <2>1. \A y \in S : y \in Nat /\ y >= 1 /\ u >= y /\ y # u
    BY <1>2
  <2>2. u >= 1
    <3>1. PICK y \in S : TRUE
      OBVIOUS
    <3>2. u \in Nat /\ y \in Nat /\ y >= 1 /\ u >= y
      BY <1>2, <2>1
    <3> QED
      BY <3>2
  <2>3. u - 1 \in T
    BY <1>2, <2>1, <2>2
  <2> QED
    BY <1>2, <2>3
<1>4. \E x \in S : \A y \in S : x >= y
  BY <1>2, <1>3
<1> QED
  BY <1>4 DEF Max

-----------------------------------------------------------------------------
\* A loop goes through a sequence of states, each made from the one before it.
LEMMA LoopStates ==
  ASSUME NEW A, NEW seq \in Seq(A), NEW step, NEW state
  PROVE  \E f : /\ f[0] = state
                /\ \A i \in 1 .. Len(seq) : f[i] = step[seq[i]][f[i - 1]]
                /\ Loop(step, state, seq) = f[Len(seq)]
<1> DEFINE n == Len(seq)
           Body(g, s) == IF s = {} THEN state ELSE step[seq[Max(s)]][g[s \ {Max(s)}]]
           Def(g, m)  == g = [s \in SUBSET (1 .. m) |-> Body(g, s)]
           G == {m \in 0 .. n : \E g : Def(g, m)}
           iter == CHOOSE g : Def(g, n)
<1>1. n \in Nat /\ DOMAIN seq = 1 .. n
  BY LenProperties
<1>2. 0 \in G
  <2> DEFINE g == [s \in SUBSET (1 .. 0) |-> state]
  <2>1. \A s \in SUBSET (1 .. 0) : s = {}
    OBVIOUS
  <2>2. Def(g, 0)
    BY <2>1
  <2> QED
    BY <1>1, <2>2
<1>3. ASSUME NEW m \in 1 .. n, m - 1 \in G PROVE m \in G
  <2>1. PICK g : Def(g, m - 1)
    BY <1>3
  <2> DEFINE h == [s \in SUBSET (1 .. m) |-> Body(g, s)]
  <2> HIDE DEF Body
  <2>2. \A s \in SUBSET (1 .. m - 1) : s \in SUBSET (1 .. m) /\ h[s] = g[s]
    <3> TAKE s \in SUBSET (1 .. m - 1)
    <3>1. s \in SUBSET (1 .. m)
      BY <1>3
    <3>2. g[s] = Body(g, s)
      BY <2>1
    <3> QED
      BY <3>1, <3>2
  <2>3. \A s \in SUBSET (1 .. m) : s # {} => s \ {Max(s)} \in SUBSET (1 .. m - 1)
    <3> SUFFICES ASSUME NEW s \in SUBSET (1 .. m), s # {}, NEW x \in s, x # Max(s)
                 PROVE  x \in 1 .. m - 1
      OBVIOUS
    <3>1. m \in Nat
      BY <1>1
    <3>2. Max(s) \in s /\ Max(s) >= x
      BY <3>1, MaxFacts
    <3>3. Max(s) \in 1 .. m /\ x \in 1 .. m
      BY <3>2
    <3> HIDE DEF Max
    <3>4. \A a, b \in 1 .. m : a >= b /\ b # a => b \in 1 .. m - 1
      BY <3>1
    <3> QED
      BY <3>2, <3>3, <3>4
  <2>4. \A s \in SUBSET (1 .. m) : Body(g, s) = Body(h, s)
    BY <2>2, <2>3 DEF Body
  <2>5. Def(h, m)
    BY <2>4
  <2>6. m \in 0 .. n
    BY <1>1
  <2> HIDE DEF Def, h
  <2> QED
    BY <2>5, <2>6
<1>4. n \in G
  <2> HIDE DEF G
  <2>1. \A i \in 0 .. n : i \in G
    BY SMTT(30), <1>1, <1>2, <1>3, UpTo
  <2> QED
    BY <1>1, <2>1
<1>5. Def(iter, n)
  BY <1>4
<1>6. Loop(step, state, seq) = iter[1 .. n]
  BY <1>1, Zenon DEF Loop, FoldLeft, MapThenFoldSet
<1> DEFINE f == [k \in 0 .. n |-> iter[1 .. k]]
<1>7. f[0] = state
  <2>1. 0 \in 0 .. n /\ 1 .. 0 = {}
    BY SMTT(30), <1>1
  <2>2. iter[{}] = Body(iter, {})
    BY <1>5
  <2> QED
    BY <2>1, <2>2
<1>8. ASSUME NEW i \in 1 .. n PROVE f[i] = step[seq[i]][f[i - 1]]
  <2>0. i \in Nat /\ i >= 1 /\ i <= n
    BY <1>1
  <2>1. 1 .. i \in SUBSET (1 .. n) /\ i \in 1 .. i
    BY <1>1, <2>0
  <2> HIDE DEF iter
  <2>2. Max(1 .. i) = i
    <3>1. Max(1 .. i) \in 1 .. i /\ Max(1 .. i) >= i
      <4>1. 1 .. i \in SUBSET (1 .. i)
        OBVIOUS
      <4> QED
        BY <2>0, <2>1, <4>1, MaxFacts, Zenon
    <3> QED
      BY <2>0, <3>1
  <2>3. (1 .. i) \ {i} = 1 .. i - 1
    BY <2>0
  <2>4. iter[1 .. i] = Body(iter, 1 .. i)
    BY <1>5, <2>1
  <2>5. iter[1 .. i] = step[seq[i]][iter[1 .. i - 1]]
    BY <2>1, <2>2, <2>3, <2>4
  <2>6. i \in 0 .. n /\ i - 1 \in 0 .. n
    BY <1>1
  <2>7. f[i] = iter[1 .. i] /\ f[i - 1] = iter[1 .. i - 1]
    BY <2>6
  <2> HIDE DEF f, iter
  <2> QED
    BY <2>5, <2>7
<1>9. n \in 0 .. n
  BY <1>1
<1> QED
  BY <1>6, <1>7, <1>8, <1>9

\* What holds of the state at the start, and of the state after an element if
\* it does before it, holds of the state at the end.
LEMMA LoopInvariant ==
  ASSUME NEW A, NEW seq \in Seq(A), NEW step, NEW state, NEW Good,
         state \in Good[0],
         \A i \in 1 .. Len(seq) : \A s \in Good[i - 1] : step[seq[i]][s] \in Good[i]
  PROVE  Loop(step, state, seq) \in Good[Len(seq)]
<1>1. Len(seq) \in Nat
  BY LenProperties
<1>2. PICK f : /\ f[0] = state
               /\ \A i \in 1 .. Len(seq) : f[i] = step[seq[i]][f[i - 1]]
               /\ Loop(step, state, seq) = f[Len(seq)]
  BY LoopStates
<1> DEFINE G == {i \in 0 .. Len(seq) : f[i] \in Good[i]}
<1>3. 0 \in G
  BY <1>1, <1>2
<1>4. ASSUME NEW i \in 1 .. Len(seq), i - 1 \in G PROVE i \in G
  <2>1. i \in 0 .. Len(seq) /\ f[i - 1] \in Good[i - 1]
    BY <1>1, <1>4
  <2>2. f[i] \in Good[i]
    BY <1>2, <2>1
  <2> QED
    BY <2>1, <2>2
<1>5. Len(seq) \in G
  <2> HIDE DEF G
  <2>1. \A i \in 0 .. Len(seq) : i \in G
    BY <1>1, <1>3, <1>4, UpTo
  <2> QED
    BY <1>1, <2>1
<1> QED
  BY <1>2, <1>5

-----------------------------------------------------------------------------
\* A sequence is the function of its places.
LEMMA SeqOfFunction ==
  ASSUME NEW S, NEW n \in Nat, NEW f \in [1 .. n -> S]
  PROVE  f \in Seq(S) /\ Len(f) = n
<1>1. f \in Seq(S)
  BY SeqDef
<1>2. DOMAIN f = 1 .. Len(f) /\ Len(f) \in Nat
  BY <1>1, LenProperties
<1> QED
  BY <1>1, <1>2

\* What FirstOf keeps of a sequence.
LEMMA FirstFacts ==
  ASSUME NEW S, NEW s \in Seq(S), NEW n \in Nat
  PROVE  LET t == FirstOf(s, n) IN
         /\ t \in Seq(S)
         /\ Len(t) = (IF Len(s) < n THEN Len(s) ELSE n)
         /\ DOMAIN t = 1 .. Len(t) /\ DOMAIN t \subseteq DOMAIN s
         /\ \A i \in DOMAIN t : t[i] = s[i]
<1> DEFINE m == IF Len(s) < n THEN Len(s) ELSE n
           t == SubSeq(s, 1, m)
<1>1. /\ Len(s) \in Nat /\ DOMAIN s = 1 .. Len(s) /\ m \in 0 .. Len(s)
      /\ \A i \in 1 .. Len(s) : s[i] \in S
  BY LenProperties
<1> HIDE DEF m
<1>2. \A i \in 1 .. m : s[i] \in S
  BY <1>1
<1>3. /\ t \in Seq(S) /\ Len(t) = (IF 1 <= m THEN m - 1 + 1 ELSE 0)
      /\ \A i \in 1 .. m - 1 + 1 : t[i] = s[1 + i - 1]
  BY <1>1, <1>2, SubSeqProperties
<1> HIDE DEF t
<1>4. Len(t) = m /\ DOMAIN t = 1 .. m
  BY <1>1, <1>3, LenProperties
<1>5. \A i \in 1 .. m : t[i] = s[i]
  BY <1>1, <1>3
<1> QED
  BY <1>1, <1>3, <1>4, <1>5 DEF FirstOf, m, t

\* What InsertAt does to the places of a sequence.
LEMMA InsertFacts ==
  ASSUME NEW S, NEW s \in Seq(S), NEW k \in 0 .. Len(s), NEW e \in S
  PROVE  LET t == InsertAt(s, k + 1, e) IN
         /\ t \in Seq(S) /\ Len(t) = Len(s) + 1 /\ DOMAIN t = 1 .. Len(s) + 1
         /\ \A i \in DOMAIN t :
              t[i] = IF i <= k THEN s[i] ELSE IF i = k + 1 THEN e ELSE s[i - 1]
<1> DEFINE a == SubSeq(s, 1, k)
           b == <<e>>
           c == SubSeq(s, k + 1, Len(s))
           t == (a \o b) \o c
<1>1. /\ Len(s) \in Nat /\ k \in Nat /\ k <= Len(s)
      /\ \A i \in 1 .. Len(s) : s[i] \in S
  BY LenProperties
<1>2. a \in Seq(S) /\ Len(a) = k /\ \A i \in 1 .. k : a[i] = s[i]
  <2>1. \A i \in 1 .. k : s[i] \in S
    BY <1>1
  <2>2. /\ a \in Seq(S) /\ Len(a) = (IF 1 <= k THEN k - 1 + 1 ELSE 0)
        /\ \A i \in 1 .. k - 1 + 1 : a[i] = s[1 + i - 1]
    BY <1>1, <2>1, SubSeqProperties
  <2> HIDE DEF a
  <2> QED
    BY <1>1, <2>2
<1>3. /\ c \in Seq(S) /\ Len(c) = Len(s) - k
      /\ \A i \in 1 .. Len(s) - k : c[i] = s[k + i]
  <2>1. \A i \in k + 1 .. Len(s) : s[i] \in S
    BY <1>1
  <2>2. /\ c \in Seq(S)
        /\ Len(c) = (IF k + 1 <= Len(s) THEN Len(s) - (k + 1) + 1 ELSE 0)
        /\ \A i \in 1 .. Len(s) - (k + 1) + 1 : c[i] = s[k + 1 + i - 1]
    <3>1. k + 1 \in Int /\ Len(s) \in Int
      BY <1>1
    <3> QED
      BY <2>1, <3>1, SubSeqProperties
  <2> HIDE DEF c
  <2> QED
    BY <1>1, <2>2
<1>4. b \in Seq(S) /\ Len(b) = 1 /\ b[1] = e
  OBVIOUS
<1> HIDE DEF a, b, c
<1>5. /\ a \o b \in Seq(S) /\ Len(a \o b) = k + 1
      /\ \A i \in 1 .. k + 1 : (a \o b)[i] = IF i <= k THEN s[i] ELSE e
  <2>1. /\ a \o b \in Seq(S) /\ Len(a \o b) = Len(a) + Len(b)
        /\ \A i \in 1 .. Len(a) + Len(b) :
             (a \o b)[i] = IF i <= Len(a) THEN a[i] ELSE b[i - Len(a)]
    BY <1>2, <1>4, ConcatProperties
  <2> QED
    BY <1>1, <1>2, <1>4, <2>1
<1>6. /\ t \in Seq(S) /\ Len(t) = Len(s) + 1
      /\ \A i \in 1 .. Len(s) + 1 :
           t[i] = IF i <= k + 1 THEN (a \o b)[i] ELSE c[i - (k + 1)]
  <2>1. /\ t \in Seq(S) /\ Len(t) = Len(a \o b) + Len(c)
        /\ \A i \in 1 .. Len(a \o b) + Len(c) :
             t[i] = IF i <= Len(a \o b) THEN (a \o b)[i] ELSE c[i - Len(a \o b)]
    BY <1>3, <1>5, ConcatProperties
  <2> QED
    BY <1>1, <1>3, <1>5, <2>1
<1>7. \A i \in 1 .. Len(s) + 1 :
        t[i] = IF i <= k THEN s[i] ELSE IF i = k + 1 THEN e ELSE s[i - 1]
  <2> TAKE i \in 1 .. Len(s) + 1
  <2>1. CASE i <= k + 1
    BY <1>1, <1>5, <1>6, <2>1
  <2>2. CASE ~ (i <= k + 1)
    <3>1. i - (k + 1) \in 1 .. Len(s) - k /\ k + (i - (k + 1)) = i - 1
      BY <1>1, <2>2
    <3>2. t[i] = s[i - 1]
      BY <1>3, <1>6, <2>2, <3>1
    <3> QED
      BY <1>1, <2>2, <3>2
  <2> QED
    BY <2>1, <2>2
<1> HIDE DEF t
<1>8. DOMAIN t = 1 .. Len(s) + 1
  BY <1>6, LenProperties
<1>9. InsertAt(s, k + 1, e) = t
  <2>1. (k + 1) - 1 = k
    BY <1>1
  <2>2. InsertAt(s, k + 1, e) = SubSeq(s, 1, (k + 1) - 1) \o <<e>> \o SubSeq(s, k + 1, Len(s))
    BY Zenon DEF InsertAt
  <2> QED
    BY <2>1, <2>2, Zenon DEF a, b, c, t
<1> QED
  BY <1>6, <1>7, <1>8, <1>9

\* A loop over nothing does nothing.
LEMMA LoopNothing ==
  ASSUME NEW A, NEW seq \in Seq(A), NEW step, NEW state
  PROVE  seq = <<>> => Loop(step, state, seq) = state
<1>1. PICK f : /\ f[0] = state
               /\ \A i \in 1 .. Len(seq) : f[i] = step[seq[i]][f[i - 1]]
               /\ Loop(step, state, seq) = f[Len(seq)]
  BY LoopStates
<1>2. seq = <<>> => Len(seq) = 0
  BY EmptySeq
<1> QED
  BY <1>1, <1>2

-----------------------------------------------------------------------------
\* The places of a pool that are not farther than a distance can be counted.
LEMMA NearerCount ==
  ASSUME NEW S, NEW pool \in Seq(S), NEW T \in SUBSET DOMAIN pool
  PROVE  Cardinality(T) \in 0 .. Len(pool)
<1>1. Len(pool) \in Nat /\ DOMAIN pool = 1 .. Len(pool)
  BY LenProperties
<1>2. IsFiniteSet(1 .. Len(pool)) /\ Cardinality(1 .. Len(pool)) = Len(pool)
  <2>1. /\ IsFiniteSet(1 .. Len(pool))
        /\ Cardinality(1 .. Len(pool)) = IF 1 > Len(pool) THEN 0 ELSE Len(pool) - 1 + 1
    BY <1>1, FS_Interval
  <2> QED
    BY <1>1, <2>1
<1>3. IsFiniteSet(T) /\ Cardinality(T) <= Len(pool)
  BY <1>1, <1>2, FS_Subset
<1> QED
  BY <1>1, <1>3, FS_CardinalityType

\* What PoolInsert leaves of a pool: at one place the new candidate, the others
\* in their order.
LEMMA PoolInsertFacts ==
  ASSUME NEW pool \in Seq(Cand), NEW dist \in Nat, NEW id \in Nodes
  PROVE  LET t == PoolInsert(pool, dist, id)
             c == [dist |-> dist, id |-> id, expanded |-> FALSE]
         IN  /\ t \in Seq(Cand)
             /\ \E k \in 0 .. Len(pool) : \A i \in DOMAIN t :
                  /\ i \in Nat /\ i >= 1
                  /\ \/ i <= k /\ i \in DOMAIN pool /\ t[i] = pool[i]
                     \/ i = k + 1 /\ t[i] = c
                     \/ i > k + 1 /\ i - 1 \in DOMAIN pool /\ t[i] = pool[i - 1]
<1> DEFINE c == [dist |-> dist, id |-> id, expanded |-> FALSE]
           near == {i \in DOMAIN pool : pool[i].dist <= dist}
           k == Cardinality(near)
           u == InsertAt(pool, k + 1, c)
           t == PoolInsert(pool, dist, id)
<1>1. Len(pool) \in Nat /\ DOMAIN pool = 1 .. Len(pool) /\ Ef \in Nat
  BY LenProperties, BeamAssumption
<1>2. c \in Cand
  BY DEF Cand
<1>3. CASE Len(pool) >= Ef /\ dist >= Last(pool).dist
  <2>1. t = pool
    BY <1>3 DEF PoolInsert
  <2>2. /\ Len(pool) \in 0 .. Len(pool)
        /\ \A i \in DOMAIN pool : i \in Nat /\ i >= 1 /\ i <= Len(pool)
    BY <1>1
  <2> HIDE DEF t, c
  <2> QED
    BY <2>1, <2>2 DEF t, c
<1>4. CASE ~ (Len(pool) >= Ef /\ dist >= Last(pool).dist)
  <2>1. t = FirstOf(u, Ef)
    BY <1>4, Zenon DEF PoolInsert
  <2>2. k \in 0 .. Len(pool)
    BY NearerCount
  <2> HIDE DEF k, c, t
  <2>3. /\ u \in Seq(Cand) /\ DOMAIN u = 1 .. Len(pool) + 1
        /\ \A i \in DOMAIN u :
             u[i] = IF i <= k THEN pool[i] ELSE IF i = k + 1 THEN c ELSE pool[i - 1]
    BY SMTT(30), <1>2, <2>2, InsertFacts
  <2> HIDE DEF u
  <2>4. /\ t \in Seq(Cand) /\ DOMAIN t \subseteq DOMAIN u
        /\ \A i \in DOMAIN t : t[i] = u[i]
    BY <1>1, <2>1, <2>3, FirstFacts
  <2>5. ASSUME NEW i \in DOMAIN t
        PROVE  /\ i \in Nat /\ i >= 1
               /\ \/ i <= k /\ i \in DOMAIN pool /\ t[i] = pool[i]
                  \/ i = k + 1 /\ t[i] = c
                  \/ i > k + 1 /\ i - 1 \in DOMAIN pool /\ t[i] = pool[i - 1]
    <3>1. i \in 1 .. Len(pool) + 1 /\ k \in Nat /\ k <= Len(pool)
      BY <1>1, <2>2, <2>3, <2>4
    <3>2. t[i] = IF i <= k THEN pool[i] ELSE IF i = k + 1 THEN c ELSE pool[i - 1]
      BY <2>3, <2>4
    <3> QED
      BY <1>1, <3>1, <3>2
  <2> QED
    BY <2>2, <2>4, <2>5 DEF t, c
<1> QED
  BY <1>3, <1>4

\* A visit only adds to the visited nodes, and keeps a beam tidy.
LEMMA VisitFacts ==
  ASSUME NEW route \in [Nodes -> Nat], NEW nb \in Nodes, NEW b \in Beam
  PROVE  LET v == Visit(route)[nb][b] IN
         /\ v \in Beam /\ b.visited \subseteq v.visited
         /\ \A E : Tidy(b, E) => Tidy(v, E)
<1> DEFINE v == Visit(route)[nb][b]
           pool == PoolInsert(b.pool, route[nb], nb)
           c == [dist |-> route[nb], id |-> nb, expanded |-> FALSE]
<1>1. v = IF nb \in b.visited THEN b
          ELSE [visited |-> b.visited \cup {nb}, pool |-> pool]
  BY DEF Visit
<1>2. CASE nb \in b.visited
  BY <1>1, <1>2
<1>3. CASE nb \notin b.visited
  <2>1. b.pool \in Seq(Cand) /\ b.visited \subseteq Nodes /\ route[nb] \in Nat
    BY DEF Beam
  <2>2. pool \in Seq(Cand)
    BY <2>1, PoolInsertFacts, Zenon
  <2>3. PICK k \in 0 .. Len(b.pool) : \A i \in DOMAIN pool :
          /\ i \in Nat /\ i >= 1
          /\ \/ i <= k /\ i \in DOMAIN b.pool /\ pool[i] = b.pool[i]
             \/ i = k + 1 /\ pool[i] = c
             \/ i > k + 1 /\ i - 1 \in DOMAIN b.pool /\ pool[i] = b.pool[i - 1]
    BY <2>1, PoolInsertFacts, Zenon
  <2>4. c.id = nb /\ ~ c.expanded
    OBVIOUS
  <2>5. k \in Nat
    BY <2>1, LenProperties
  <2> HIDE DEF pool, v, c
  <2>6. v.visited = b.visited \cup {nb} /\ v.pool = pool /\ v \in Beam
    BY <1>1, <1>3, <2>1, <2>2 DEF Beam
  <2>7. ASSUME NEW E, Tidy(b, E) PROVE Tidy(v, E)
    <3>1. /\ E \subseteq b.visited /\ nb \notin E
          /\ \A i \in DOMAIN b.pool :
               /\ b.pool[i].id \in b.visited /\ b.pool[i].id # nb
               /\ b.pool[i].expanded <=> b.pool[i].id \in E
          /\ \A i, j \in DOMAIN b.pool : b.pool[i].id = b.pool[j].id => i = j
      BY <1>3, <2>7 DEF Tidy
    <3>2. ASSUME NEW i \in DOMAIN pool
          PROVE  pool[i].id \in v.visited /\ (pool[i].expanded <=> pool[i].id \in E)
      <4>1. CASE pool[i] = c
        BY <2>4, <2>6, <3>1, <4>1
      <4>2. CASE pool[i] # c
        <5>1. PICK j \in DOMAIN b.pool : pool[i] = b.pool[j]
          BY <2>3, <4>2
        <5> QED
          BY <2>6, <3>1, <5>1
      <4> QED
        BY <4>1, <4>2
    <3>3. ASSUME NEW i \in DOMAIN pool, NEW j \in DOMAIN pool, pool[i].id = pool[j].id
          PROVE  i = j
      <4> DEFINE Old(l) == IF l <= k THEN l ELSE l - 1
      <4>1. \A l \in DOMAIN pool :
              /\ l \in Nat
              /\ \/ l = k + 1 /\ pool[l].id = nb
                 \/ l # k + 1 /\ Old(l) \in DOMAIN b.pool /\ pool[l] = b.pool[Old(l)]
        <5> TAKE l \in DOMAIN pool
        <5>1. l \in Nat /\ k \in Nat
          BY <2>3, <2>5
        <5>2. CASE l <= k
          BY <2>3, <5>1, <5>2
        <5>3. CASE l = k + 1
          BY <2>3, <2>4, <5>1, <5>3
        <5>4. CASE l > k + 1
          BY <2>3, <5>1, <5>4
        <5> QED
          BY <5>1, <5>2, <5>3, <5>4
      <4>2. CASE i = k + 1 \/ j = k + 1
        BY <3>1, <3>3, <4>1, <4>2
      <4>3. CASE i # k + 1 /\ j # k + 1
        <5>1. Old(i) = Old(j)
          BY <3>1, <3>3, <4>1, <4>3
        <5> QED
          BY <2>5, <4>1, <4>3, <5>1
      <4> QED
        BY <4>2, <4>3
    <3> QED
      BY <2>6, <3>1, <3>2, <3>3 DEF Tidy
  <2> QED
    BY <2>6, <2>7 DEF v
<1> QED
  BY <1>2, <1>3

\* So does the loop over a round's neighbours.
LEMMA IntegrateFacts ==
  ASSUME NEW route \in [Nodes -> Nat], NEW nbs \in Seq(Nodes),
         NEW visited \in SUBSET Nodes, NEW pool \in Seq(Cand)
  PROVE  LET v == Integrate(visited, pool, route, nbs) IN
         /\ v \in Beam /\ visited \subseteq v.visited
         /\ \A E : Tidy([visited |-> visited, pool |-> pool], E) => Tidy(v, E)
<1> DEFINE b == [visited |-> visited, pool |-> pool]
           v == Integrate(visited, pool, route, nbs)
           G == {s \in Beam : /\ visited \subseteq s.visited
                              /\ \A E : Tidy(b, E) => Tidy(s, E)}
           Good == [i \in 0 .. Len(nbs) |-> G]
<1>1. Len(nbs) \in Nat /\ \A i \in 1 .. Len(nbs) : nbs[i] \in Nodes
  BY LenProperties
<1>2. b \in G
  BY DEF Beam
<1>3. ASSUME NEW i \in 1 .. Len(nbs), NEW s \in G
      PROVE  Visit(route)[nbs[i]][s] \in G
  <2> DEFINE x == Visit(route)[nbs[i]][s]
  <2>1. /\ x \in Beam /\ s.visited \subseteq x.visited
        /\ \A E : Tidy(s, E) => Tidy(x, E)
    BY <1>1, VisitFacts
  <2> QED
    BY <2>1
<1> HIDE DEF G, b
<1>4. /\ 0 \in 0 .. Len(nbs) /\ Len(nbs) \in 0 .. Len(nbs)
      /\ \A i \in 1 .. Len(nbs) : i \in 0 .. Len(nbs) /\ i - 1 \in 0 .. Len(nbs)
  BY <1>1
<1>5. b \in Good[0]
  BY <1>2, <1>4
<1>6. \A i \in 1 .. Len(nbs) : \A s \in Good[i - 1] : Visit(route)[nbs[i]][s] \in Good[i]
  BY <1>3, <1>4
<1>7. Good[Len(nbs)] = G
  BY <1>4
<1> HIDE DEF Good
<1>8. v \in G
  BY <1>5, <1>6, <1>7, LoopInvariant DEF Integrate, b
<1> QED
  BY <1>8 DEF G, b

-----------------------------------------------------------------------------
\* The frontier: places of the pool, each once, none expanded, and no more
\* than W; when there is none, nothing is left within the first Ef places.
LEMMA FrontierAtFacts ==
  ASSUME NEW pool \in Seq(Cand)
  PROVE  LET at == FrontierAt(pool) IN
         /\ at \in Seq(DOMAIN pool) /\ Len(at) <= W
         /\ \A j \in DOMAIN at : ~ pool[at[j]].expanded
         /\ \A j, l \in DOMAIN at : at[j] = at[l] => j = l
         /\ at = <<>> => \A i \in DOMAIN pool : i <= Ef => pool[i].expanded
<1> DEFINE n == Len(FirstOf(pool, Ef))
           seq == [i \in DOMAIN FirstOf(pool, Ef) |-> i]
           P(at, k) ==
             /\ Len(at) <= W
             /\ \A j \in DOMAIN at : at[j] <= k /\ ~ pool[at[j]].expanded
             /\ \A j, l \in DOMAIN at : at[j] = at[l] => j = l
             /\ at = <<>> => \A i \in 1 .. k : pool[i].expanded
           Good == [k \in 0 .. n |-> {at \in Seq(DOMAIN pool) : P(at, k)}]
<1>1. /\ Len(pool) \in Nat /\ DOMAIN pool = 1 .. Len(pool)
      /\ \A i \in DOMAIN pool : pool[i] \in Cand
  BY LenProperties
<1>2. /\ n \in Nat /\ n <= Len(pool) /\ n = (IF Len(pool) < Ef THEN Len(pool) ELSE Ef)
      /\ DOMAIN FirstOf(pool, Ef) = 1 .. n
  BY <1>1, FirstFacts, BeamAssumption
<1> HIDE DEF n
<1>3. seq \in Seq(1 .. n) /\ Len(seq) = n /\ \A i \in 1 .. n : seq[i] = i
  <2>1. seq \in [1 .. n -> 1 .. n]
    BY <1>2
  <2>2. \A i \in 1 .. n : seq[i] = i
    BY <1>2
  <2> HIDE DEF seq
  <2> QED
    BY <1>2, <2>1, <2>2, SeqOfFunction
<1> HIDE DEF seq, P
<1>9. \A k \in 0 .. n : \A at : at \in Good[k] <=> at \in Seq(DOMAIN pool) /\ P(at, k)
  OBVIOUS
<1> HIDE DEF Good
<1>4. <<>> \in Good[0]
  <2>1. 0 \in 0 .. n /\ <<>> \in Seq(DOMAIN pool) /\ Len(<<>>) = 0
    BY <1>2, EmptySeq
  <2>2. P(<<>>, 0)
    BY <2>1, BeamAssumption DEF P
  <2> QED
    BY <1>9, <2>1, <2>2
<1>5. ASSUME NEW i \in 1 .. n, NEW at \in Good[i - 1]
      PROVE  Gather(pool)[seq[i]][at] \in Good[i]
  <2>0. n \in Nat /\ n <= Len(pool)
    BY <1>2
  <2>1. i \in Nat /\ i >= 1 /\ i - 1 \in 0 .. n /\ i \in 0 .. n /\ i \in DOMAIN pool
    BY <1>1, <2>0
  <2>2. /\ at \in Seq(DOMAIN pool) /\ Len(at) <= W
        /\ \A j \in DOMAIN at : at[j] <= i - 1 /\ ~ pool[at[j]].expanded
        /\ \A j, l \in DOMAIN at : at[j] = at[l] => j = l
        /\ at = <<>> => \A j \in 1 .. i - 1 : pool[j].expanded
    BY <1>9, <2>1 DEF P
  <2>3. /\ Len(at) \in Nat /\ DOMAIN at = 1 .. Len(at) /\ W \in Nat /\ W > 0
        /\ \A j \in DOMAIN at : at[j] \in Nat
    BY <1>1, <2>2, LenProperties, BeamAssumption
  <2>4. Gather(pool)[seq[i]][at] =
          IF Len(at) = W \/ pool[i].expanded THEN at ELSE Append(at, i)
    BY <1>3, <2>1, <2>2 DEF Gather
  <2>5. CASE Len(at) = W \/ pool[i].expanded
    <3>1. \A j \in DOMAIN at : at[j] <= i
      BY <2>1, <2>2, <2>3
    <3>2. at = <<>> => \A j \in 1 .. i : pool[j].expanded
      <4> SUFFICES ASSUME at = <<>>, NEW j \in 1 .. i PROVE pool[j].expanded
        OBVIOUS
      <4>1. pool[i].expanded
        BY <2>3, <2>5, EmptySeq
      <4>2. j = i \/ j \in 1 .. i - 1
        BY <2>1
      <4> QED
        BY <2>2, <4>1, <4>2
    <3>3. P(at, i)
      BY <2>1, <2>2, <3>1, <3>2 DEF P
    <3> QED
      BY <1>9, <2>1, <2>2, <2>4, <2>5, <3>3
  <2>6. CASE ~ (Len(at) = W \/ pool[i].expanded)
    <3> DEFINE a == Append(at, i)
    <3>1. /\ a \in Seq(DOMAIN pool) /\ a # <<>> /\ Len(a) = Len(at) + 1
          /\ \A j \in 1 .. Len(at) : a[j] = at[j]
          /\ a[Len(at) + 1] = i
      BY <2>1, <2>2, AppendProperties
    <3>2. DOMAIN a = 1 .. Len(at) + 1
      BY <3>1, LenProperties
    <3> HIDE DEF a
    <3>3. \A j \in DOMAIN a : \/ j = Len(at) + 1 /\ a[j] = i
                              \/ j \in DOMAIN at /\ a[j] = at[j] /\ at[j] <= i - 1
      BY SMTT(30), <2>2, <2>3, <3>1, <3>2
    <3>4. Len(a) <= W
      <4>1. /\ Len(at) \in Nat /\ W \in Nat /\ Len(at) <= W /\ Len(at) # W
            /\ Len(a) = Len(at) + 1
        BY <2>2, <2>3, <2>6, <3>1
      <4> QED
        BY <4>1
    <3>5. ASSUME NEW j \in DOMAIN a PROVE a[j] <= i /\ ~ pool[a[j]].expanded
      <4>1. CASE a[j] = i
        BY <2>1, <2>6, <4>1
      <4>2. CASE j \in DOMAIN at /\ a[j] = at[j] /\ at[j] <= i - 1
        <5>1. at[j] \in Nat /\ ~ pool[at[j]].expanded
          BY <2>2, <2>3, <4>2
        <5> QED
          BY <2>1, <4>2, <5>1
      <4> QED
        BY <3>3, <4>1, <4>2
    <3>6. \A j, l \in DOMAIN a : a[j] = a[l] => j = l
      BY SMTT(30), <2>1, <2>2, <2>3, <3>3
    <3>7. P(a, i)
      BY <3>1, <3>4, <3>5, <3>6 DEF P
    <3> QED
      BY <1>9, <2>1, <2>4, <2>6, <3>1, <3>7 DEF a
  <2> QED
    BY <2>5, <2>6
<1>6. FrontierAt(pool) \in Good[n]
  <2>1. FrontierAt(pool) = Loop(Gather(pool), <<>>, seq)
    BY DEF FrontierAt, seq
  <2> QED
    BY <1>3, <1>4, <1>5, <2>1, LoopInvariant
<1>7. n \in 0 .. n
  BY <1>2
<1>8. \A i \in DOMAIN pool : i <= Ef => i \in 1 .. n
  <2> SUFFICES ASSUME NEW i \in DOMAIN pool, i <= Ef PROVE i \in 1 .. n
    OBVIOUS
  <2>1. i \in Nat /\ i >= 1 /\ i <= Len(pool) /\ Ef \in Nat /\ Len(pool) \in Nat
    BY <1>1, BeamAssumption
  <2>2. n = Len(pool) \/ n = Ef
    BY <1>2
  <2> QED
    BY <2>1, <2>2
<1> QED
  BY <1>6, <1>7, <1>8, <1>9 DEF P

\* The frontier names the nodes at those places.
LEMMA FrontierFacts ==
  ASSUME NEW pool \in Seq(Cand)
  PROVE  LET at == FrontierAt(pool) IN
         /\ Frontier(pool) \in Seq(Nodes)
         /\ Len(Frontier(pool)) = Len(at) /\ DOMAIN Frontier(pool) = DOMAIN at
         /\ \A j \in DOMAIN at : at[j] \in DOMAIN pool /\ Frontier(pool)[j] = pool[at[j]].id
         /\ Frontier(pool) = <<>> <=> at = <<>>
<1> DEFINE at == FrontierAt(pool)
           f == Frontier(pool)
<1>1. at \in Seq(DOMAIN pool) /\ \A i \in DOMAIN pool : pool[i] \in Cand
  BY FrontierAtFacts, LenProperties
<1> HIDE DEF at
<1>2. Len(at) \in Nat /\ DOMAIN at = 1 .. Len(at) /\ \A j \in DOMAIN at : at[j] \in DOMAIN pool
  BY <1>1, LenProperties
<1>3. f = [j \in DOMAIN at |-> pool[at[j]].id]
  BY DEF Frontier, at
<1> HIDE DEF f
<1>4. f \in [1 .. Len(at) -> Nodes]
  BY <1>1, <1>2, <1>3 DEF Cand
<1>5. f \in Seq(Nodes) /\ Len(f) = Len(at)
  BY <1>2, <1>4, SeqOfFunction
<1>6. f = <<>> <=> at = <<>>
  BY <1>1, <1>5, EmptySeq
<1> QED
  BY <1>2, <1>3, <1>5, <1>6 DEF f, at

\* Marking the frontier as expanded changes nothing else in the pool.
LEMMA MarkExpandedFacts ==
  ASSUME NEW pool \in Seq(Cand)
  PROVE  LET m == MarkExpanded(pool)
             at == FrontierAt(pool)
         IN  /\ m \in Seq(Cand) /\ Len(m) = Len(pool) /\ DOMAIN m = DOMAIN pool
             /\ \A i \in DOMAIN pool :
                  /\ m[i].id = pool[i].id /\ m[i].dist = pool[i].dist
                  /\ m[i].expanded <=> pool[i].expanded \/ \E j \in DOMAIN at : at[j] = i
             /\ at = <<>> => m = pool
<1> DEFINE at == FrontierAt(pool)
           m == MarkExpanded(pool)
<1>1. /\ Len(pool) \in Nat /\ DOMAIN pool = 1 .. Len(pool)
      /\ \A i \in DOMAIN pool : pool[i] \in Cand
  BY LenProperties
<1>2. m = [i \in DOMAIN pool |->
             IF i \in ToSet(at) THEN [pool[i] EXCEPT !.expanded = TRUE] ELSE pool[i]]
  BY DEF MarkExpanded
<1>3. \A i : i \in ToSet(at) <=> \E j \in DOMAIN at : at[j] = i
  BY DEF ToSet
<1>8. at = <<>> => DOMAIN at = {}
  OBVIOUS
<1> HIDE DEF at, m
<1>4. \A i \in DOMAIN pool :
        /\ m[i] \in Cand
        /\ m[i].id = pool[i].id /\ m[i].dist = pool[i].dist
        /\ i \in ToSet(at) => m[i].expanded
        /\ i \notin ToSet(at) => m[i] = pool[i]
  BY <1>1, <1>2 DEF Cand
<1>5. m \in [1 .. Len(pool) -> Cand]
  BY <1>1, <1>2, <1>4
<1>6. m \in Seq(Cand) /\ Len(m) = Len(pool)
  BY <1>1, <1>5, SeqOfFunction
<1>7. ASSUME at = <<>> PROVE m = pool
  <2>1. \A i \in DOMAIN pool : i \notin ToSet(at)
    BY <1>3, <1>7, <1>8
  <2>2. \A i \in DOMAIN pool : m[i] = pool[i]
    BY <1>4, <2>1
  <2>3. \A i \in 1 .. Len(m) : m[i] = pool[i]
    BY <1>1, <1>6, <2>2
  <2> QED
    BY <1>6, <2>3, SeqEqual
<1>9. ASSUME NEW i \in DOMAIN pool
      PROVE  /\ m[i].id = pool[i].id /\ m[i].dist = pool[i].dist
             /\ m[i].expanded <=> pool[i].expanded \/ \E j \in DOMAIN at : at[j] = i
  <2>1. CASE i \in ToSet(at)
    BY <1>3, <1>4, <2>1
  <2>2. CASE i \notin ToSet(at)
    BY <1>3, <1>4, <2>2
  <2> QED
    BY <2>1, <2>2
<1>10. DOMAIN m = DOMAIN pool
  BY <1>2
<1> QED
  BY <1>6, <1>7, <1>9, <1>10 DEF at, m

\* The neighbours a round brings are nodes.
LEMMA CollectedType ==
  ASSUME NEW load \in Workload, NEW frontier \in Seq(Nodes)
  PROVE  Collected(load, frontier) \in Seq(Nodes)
<1> DEFINE step == [n \in Nodes |-> [nbs \in Seq(Nodes) |-> nbs \o load.nbrs[n]]]
           Good == [i \in 0 .. Len(frontier) |-> Seq(Nodes)]
<1>1. Len(frontier) \in Nat /\ \A i \in 1 .. Len(frontier) : frontier[i] \in Nodes
  BY LenProperties
<1>2. \A n \in Nodes, nbs \in Seq(Nodes) : step[n][nbs] \in Seq(Nodes)
  <2> TAKE n \in Nodes, nbs \in Seq(Nodes)
  <2>1. load.nbrs[n] \in Seq(Nodes)
    BY DEF Workload
  <2>2. nbs \o load.nbrs[n] \in Seq(Nodes)
    BY <2>1, ConcatProperties
  <2> QED
    BY <2>2
<1> HIDE DEF step
<1>3. /\ 0 \in 0 .. Len(frontier) /\ Len(frontier) \in 0 .. Len(frontier)
      /\ \A i \in 1 .. Len(frontier) : i \in 0 .. Len(frontier) /\ i - 1 \in 0 .. Len(frontier)
  BY <1>1
<1>4. /\ <<>> \in Good[0] /\ Good[Len(frontier)] = Seq(Nodes)
      /\ \A i \in 1 .. Len(frontier) : \A s \in Good[i - 1] : step[frontier[i]][s] \in Good[i]
  BY <1>1, <1>2, <1>3, EmptySeq
<1> HIDE DEF Good
<1>5. Loop(step, <<>>, frontier) \in Seq(Nodes)
  BY <1>4, LoopInvariant
<1> QED
  BY <1>5 DEF Collected, step

\* The last element of a sequence that has one, and what is before it.
LEMMA LastFrontType ==
  ASSUME NEW S, NEW s \in Seq(S), Len(s) > 0
  PROVE  Last(s) \in S /\ Front(s) \in Seq(S)
<1>1. Len(s) \in Nat /\ \A i \in 1 .. Len(s) : s[i] \in S
  BY LenProperties
<1>2. \A i \in 1 .. Len(s) - 1 : s[i] \in S
  BY <1>1
<1>3. 1 \in Int /\ Len(s) - 1 \in Int /\ Len(s) \in 1 .. Len(s)
  BY <1>1
<1>4. SubSeq(s, 1, Len(s) - 1) \in Seq(S)
  BY <1>2, <1>3, SubSeqProperties
<1> QED
  BY <1>1, <1>3, <1>4 DEF Last, Front

\* TopK holds scored nodes.
LEMMA TopPushType ==
  ASSUME NEW top \in Seq(Scored), NEW dist \in Nat, NEW id \in Nodes
  PROVE  TopPush(top, dist, id) \in Seq(Scored)
<1> DEFINE e == [dist |-> dist, id |-> id]
           Rank(s) == Cardinality({i \in DOMAIN s : Before(s[i], e)})
           Add(s) == InsertAt(s, Rank(s) + 1, e)
<1>1. e \in Scored
  BY DEF Scored
<1>2. ASSUME NEW s \in Seq(Scored) PROVE Add(s) \in Seq(Scored)
  <2>1. Rank(s) \in 0 .. Len(s)
    BY NearerCount
  <2> HIDE DEF Rank, e
  <2> QED
    BY <1>1, <2>1, InsertFacts
<1>3. ~ (Len(top) < K) => Front(top) \in Seq(Scored)
  <2> SUFFICES ASSUME ~ (Len(top) < K) PROVE Front(top) \in Seq(Scored)
    OBVIOUS
  <2>1. Len(top) \in Nat /\ Len(top) > 0
    BY LenProperties, BeamAssumption
  <2> QED
    BY <2>1, LastFrontType
<1>4. TopPush(top, dist, id) = IF Len(top) < K THEN Add(top)
                               ELSE IF dist < Last(top).dist THEN Add(Front(top))
                               ELSE top
  BY Zenon DEF TopPush
<1> HIDE DEF Add
<1> QED
  BY <1>2, <1>3, <1>4

LEMMA RankedType ==
  ASSUME NEW load \in Workload, NEW q \in Queries, NEW top \in Seq(Scored),
         NEW frontier \in Seq(Nodes)
  PROVE  Ranked(load, q, top, frontier) \in Seq(Scored)
<1> DEFINE step == [n \in Nodes |-> [t \in Seq(Scored) |-> TopPush(t, load.exact[q][n], n)]]
           Good == [i \in 0 .. Len(frontier) |-> Seq(Scored)]
<1>1. Len(frontier) \in Nat /\ \A i \in 1 .. Len(frontier) : frontier[i] \in Nodes
  BY LenProperties
<1>2. \A n \in Nodes, t \in Seq(Scored) : step[n][t] \in Seq(Scored)
  <2>1. \A n \in Nodes : load.exact[q][n] \in Nat
    BY DEF Workload
  <2> QED
    BY <2>1, TopPushType
<1> HIDE DEF step
<1>3. /\ 0 \in 0 .. Len(frontier) /\ Len(frontier) \in 0 .. Len(frontier)
      /\ \A i \in 1 .. Len(frontier) : i \in 0 .. Len(frontier) /\ i - 1 \in 0 .. Len(frontier)
  BY <1>1
<1>4. /\ top \in Good[0] /\ Good[Len(frontier)] = Seq(Scored)
      /\ \A i \in 1 .. Len(frontier) : \A s \in Good[i - 1] : step[frontier[i]][s] \in Good[i]
  BY <1>1, <1>2, <1>3
<1> HIDE DEF Good
<1>5. Loop(step, top, frontier) \in Seq(Scored)
  BY <1>4, LoopInvariant
<1> QED
  BY <1>5 DEF Ranked, step

-----------------------------------------------------------------------------
\* One round.  With no frontier it leaves the beam as it is.
LEMMA ExploredNothing ==
  ASSUME NEW load \in Workload, NEW q \in Queries,
         NEW visited \in SUBSET Nodes, NEW pool \in Seq(Cand)
  PROVE  Frontier(pool) = <<>> =>
           Explored(load, q, visited, pool) = [visited |-> visited, pool |-> pool]
<1> DEFINE nbs == Collected(load, Frontier(pool))
           m == MarkExpanded(pool)
           b == [visited |-> visited, pool |-> m]
<1> SUFFICES ASSUME Frontier(pool) = <<>>
             PROVE  Explored(load, q, visited, pool) = [visited |-> visited, pool |-> pool]
  OBVIOUS
<1>1. m = pool
  BY FrontierFacts, MarkExpandedFacts
<1>2. nbs = <<>>
  BY FrontierFacts, LoopNothing DEF Collected
<1> HIDE DEF nbs, b
<1>3. Loop(Visit(load.route[q]), b, nbs) = b
  <2>1. nbs \in Seq(Nodes)
    BY <1>2, EmptySeq
  <2> QED
    BY <1>2, <2>1, LoopNothing
<1> HIDE DEF m
<1>4. Explored(load, q, visited, pool) = Loop(Visit(load.route[q]), b, nbs)
  BY DEF Explored, Integrate, b, m, nbs
<1>5. b = [visited |-> visited, pool |-> pool]
  BY <1>1 DEF b
<1> QED
  BY <1>3, <1>4, <1>5

\* It takes a beam to a beam, and keeps it tidy.
LEMMA ExploredFacts ==
  ASSUME NEW load \in Workload, NEW q \in Queries,
         NEW visited \in SUBSET Nodes, NEW pool \in Seq(Cand)
  PROVE  LET v == Explored(load, q, visited, pool) IN
         /\ v \in Beam /\ visited \subseteq v.visited
         /\ \A E : Tidy([visited |-> visited, pool |-> MarkExpanded(pool)], E) => Tidy(v, E)
<1> DEFINE nbs == Collected(load, Frontier(pool))
           m == MarkExpanded(pool)
           v == Explored(load, q, visited, pool)
<1>1. load.route[q] \in [Nodes -> Nat]
  BY DEF Workload
<1>2. nbs \in Seq(Nodes) /\ m \in Seq(Cand)
  BY FrontierFacts, CollectedType, MarkExpandedFacts
<1>3. v = Integrate(visited, m, load.route[q], nbs)
  BY DEF Explored
<1> HIDE DEF nbs, m, v
<1>5. /\ v \in Beam /\ visited \subseteq v.visited
      /\ \A E : Tidy([visited |-> visited, pool |-> m], E) => Tidy(v, E)
  BY <1>1, <1>2, <1>3, IntegrateFacts
<1> QED
  BY <1>5 DEF m, v

\* A node about to be expanded never was: in a tidy beam a round adds at least
\* one node to the expanded ones if it has a frontier at all.
LEMMA RoundExpands ==
  ASSUME NEW visited \in SUBSET Nodes, NEW pool \in Seq(Cand), NEW E,
         Tidy([visited |-> visited, pool |-> pool], E)
  PROVE  LET F == E \cup ToSet(Frontier(pool)) IN
         /\ Tidy([visited |-> visited, pool |-> MarkExpanded(pool)], F)
         /\ F \subseteq Nodes
         /\ Frontier(pool) # <<>> => \E n \in F : n \notin E
<1> DEFINE at == FrontierAt(pool)
           f == Frontier(pool)
           m == MarkExpanded(pool)
           F == E \cup ToSet(f)
           b == [visited |-> visited, pool |-> m]
<1>1. /\ at \in Seq(DOMAIN pool)
      /\ \A j \in DOMAIN at : ~ pool[at[j]].expanded
  BY FrontierAtFacts
<1>2. /\ f \in Seq(Nodes) /\ DOMAIN f = DOMAIN at
      /\ \A j \in DOMAIN at : at[j] \in DOMAIN pool /\ f[j] = pool[at[j]].id
  BY FrontierFacts
<1>3. /\ m \in Seq(Cand) /\ DOMAIN m = DOMAIN pool
      /\ \A i \in DOMAIN pool :
           /\ m[i].id = pool[i].id
           /\ m[i].expanded <=> pool[i].expanded \/ \E j \in DOMAIN at : at[j] = i
  BY MarkExpandedFacts
<1>4. /\ E \subseteq visited
      /\ \A i \in DOMAIN pool :
           pool[i].id \in visited /\ (pool[i].expanded <=> pool[i].id \in E)
      /\ \A i, j \in DOMAIN pool : pool[i].id = pool[j].id => i = j
  BY DEF Tidy
<1> HIDE DEF at, f, m
<1>5. \A n : n \in ToSet(f) <=> \E j \in DOMAIN at : n = pool[at[j]].id
  BY <1>2 DEF ToSet
<1>6. ToSet(f) \subseteq visited
  BY <1>2, <1>4, <1>5
<1>7. \A i \in DOMAIN pool : pool[i].id \in ToSet(f) <=> \E j \in DOMAIN at : at[j] = i
  <2> TAKE i \in DOMAIN pool
  <2>1. ASSUME pool[i].id \in ToSet(f) PROVE \E j \in DOMAIN at : at[j] = i
    <3>1. PICK j \in DOMAIN at : pool[i].id = pool[at[j]].id
      BY <1>5, <2>1
    <3>2. at[j] = i
      BY <1>2, <1>4, <3>1
    <3> QED
      BY <3>2
  <2>2. ASSUME NEW j \in DOMAIN at, at[j] = i PROVE pool[i].id \in ToSet(f)
    BY <1>5, <2>2
  <2> QED
    BY <2>1, <2>2
<1>8. \A i \in DOMAIN m : m[i].id \in visited /\ (m[i].expanded <=> m[i].id \in F)
  BY <1>3, <1>4, <1>7
<1>9. \A i, j \in DOMAIN m : m[i].id = m[j].id => i = j
  BY <1>3, <1>4
<1>10. Tidy(b, F)
  <2>1. b \in Beam /\ b.visited = visited /\ b.pool = m
    BY <1>3 DEF Beam
  <2> HIDE DEF b
  <2> QED
    BY <1>4, <1>6, <1>8, <1>9, <2>1 DEF Tidy
<1>11. ASSUME f # <<>> PROVE \E n \in F : n \notin E
  <2>1. Len(f) \in Nat \ {0} /\ DOMAIN f = 1 .. Len(f)
    BY <1>2, <1>11, EmptySeq, LenProperties
  <2>2. 1 \in DOMAIN at
    BY <1>2, <2>1
  <2>3. pool[at[1]].id \in ToSet(f) /\ pool[at[1]].id \notin E
    BY <1>1, <1>2, <1>4, <1>5, <2>2
  <2> QED
    BY <2>3
<1> QED
  BY <1>4, <1>6, <1>10, <1>11 DEF f, m

\* A round of the reference search, on a state of its type.
LEMMA SearchRoundFacts ==
  ASSUME NEW load \in Workload, NEW q \in Queries, NEW s \in Search
  PROVE  LET t == SearchRound(load, q)[s]
             v == Explored(load, q, s.visited, s.pool)
         IN  /\ t \in Search
             /\ t = [pool |-> v.pool, visited |-> v.visited,
                     exact |-> Ranked(load, q, s.exact, Frontier(s.pool)),
                     reads |-> s.reads + Len(Frontier(s.pool))]
             /\ [visited |-> t.visited, pool |-> t.pool] = v
             /\ Frontier(s.pool) = <<>> => t = s
<1> DEFINE t == SearchRound(load, q)[s]
           v == Explored(load, q, s.visited, s.pool)
           f == Frontier(s.pool)
           r == Ranked(load, q, s.exact, f)
<1>1. /\ s.pool \in Seq(Cand) /\ s.visited \in SUBSET Nodes
      /\ s.exact \in Seq(Scored) /\ s.reads \in Nat
      /\ s = [pool |-> s.pool, visited |-> s.visited, exact |-> s.exact, reads |-> s.reads]
  BY DEF Search
<1>2. t = [pool |-> v.pool, visited |-> v.visited, exact |-> r, reads |-> s.reads + Len(f)]
  BY DEF SearchRound
<1>3. /\ v \in Beam
      /\ f = <<>> => v = [visited |-> s.visited, pool |-> s.pool]
  <2> DEFINE visited == s.visited
             pool == s.pool
  <2>1. visited \in SUBSET Nodes /\ pool \in Seq(Cand)
    BY <1>1
  <2> HIDE DEF visited, pool
  <2>2. Explored(load, q, visited, pool) \in Beam
    BY <2>1, ExploredFacts
  <2>3. Frontier(pool) = <<>> =>
          Explored(load, q, visited, pool) = [visited |-> visited, pool |-> pool]
    BY <2>1, ExploredNothing, Zenon
  <2> QED
    BY <2>2, <2>3 DEF visited, pool
<1>4. f \in Seq(Nodes) /\ Len(f) \in Nat
  BY <1>1, FrontierFacts, LenProperties
<1>5. r \in Seq(Scored)
  BY <1>1, <1>4, RankedType
<1>6. f = <<>> => r = s.exact /\ Len(f) = 0
  BY <1>4, LoopNothing, EmptySeq DEF Ranked
<1> HIDE DEF t, v, f, r
<1>7. t \in Search
  BY <1>1, <1>2, <1>3, <1>4, <1>5 DEF Search, Beam
<1>8. v = [visited |-> v.visited, pool |-> v.pool]
  BY <1>3 DEF Beam
<1>9. [visited |-> t.visited, pool |-> t.pool] = v
  BY <1>2, <1>8
<1>10. f = <<>> => t = s
  BY <1>1, <1>2, <1>3, <1>6
<1> QED
  BY <1>2, <1>7, <1>9, <1>10 DEF t, v, f, r

-----------------------------------------------------------------------------
\* seed, and what is made of it by step once, twice and so on.
Iterate(seed, step, last) ==
  LET after[n \in 0 .. last] == IF n = 0 THEN seed ELSE step[after[n - 1]] IN after

LEMMA IterateStates ==
  ASSUME NEW seed, NEW step, NEW last \in Nat
  PROVE  LET R == Iterate(seed, step, last) IN
         R[0] = seed /\ \A n \in 1 .. last : R[n] = step[R[n - 1]]
<1> DEFINE Body(g, n) == IF n = 0 THEN seed ELSE step[g[n - 1]]
           Def(g, m) == g = [n \in 0 .. m |-> Body(g, n)]
           G == {m \in 0 .. last : \E g : Def(g, m)}
           R == Iterate(seed, step, last)
<1>1. last \in Nat
  OBVIOUS
<1>2. R = CHOOSE g : Def(g, last)
  BY Zenon DEF Iterate
<1> HIDE DEF R
<1>3. 0 \in G
  <2> DEFINE g == [n \in 0 .. 0 |-> seed]
  <2>1. Def(g, 0)
    OBVIOUS
  <2>2. 0 \in 0 .. last
    BY <1>1
  <2> HIDE DEF Def, g
  <2> QED
    BY <2>1, <2>2
<1>4. ASSUME NEW m \in 1 .. last, m - 1 \in G PROVE m \in G
  <2>1. PICK g : Def(g, m - 1)
    BY <1>4
  <2> DEFINE h == [n \in 0 .. m |-> Body(g, n)]
  <2>2. m \in Nat /\ m >= 1 /\ m <= last
    BY <1>1
  <2> HIDE DEF Body
  <2>3. \A n \in 0 .. m - 1 : n \in 0 .. m /\ h[n] = g[n]
    BY <2>1, <2>2
  <2>4. \A n \in 0 .. m : Body(g, n) = Body(h, n)
    <3> TAKE n \in 0 .. m
    <3>1. CASE n = 0
      BY <3>1 DEF Body
    <3>2. CASE n # 0
      <4>1. n - 1 \in 0 .. m - 1
        BY <2>2, <3>2
      <4>2. h[n - 1] = g[n - 1]
        BY <2>3, <4>1
      <4> HIDE DEF h
      <4> QED
        BY <4>2 DEF Body
    <3> QED
      BY <3>1, <3>2
  <2>5. Def(h, m)
    BY <2>4
  <2>6. m \in 0 .. last
    BY <1>1
  <2> HIDE DEF Def, h
  <2> QED
    BY <2>5, <2>6
<1>5. last \in G
  <2> HIDE DEF G
  <2>1. \A i \in 0 .. last : i \in G
    BY <1>1, <1>3, <1>4, UpTo
  <2> QED
    BY <1>1, <2>1
<1>6. Def(R, last)
  <2> HIDE DEF Def
  <2> QED
    BY <1>2, <1>5
<1>7. R[0] = seed
  BY <1>1, <1>6
<1>8. ASSUME NEW n \in 1 .. last PROVE R[n] = step[R[n - 1]]
  <2>1. n \in 0 .. last /\ n # 0
    BY <1>1
  <2> QED
    BY <1>6, <2>1
<1> QED
  BY <1>7, <1>8 DEF R

\* What step does not change it never will.
LEMMA IterateSettles ==
  ASSUME NEW seed, NEW step, NEW last \in Nat, NEW n \in 0 .. last,
         LET R == Iterate(seed, step, last) IN step[R[n]] = R[n]
  PROVE  LET R == Iterate(seed, step, last) IN R[last] = R[n]
<1> DEFINE R == Iterate(seed, step, last)
           G == {m \in 0 .. last : m >= n => R[m] = R[n]}
<1>1. \A m \in 1 .. last : R[m] = step[R[m - 1]]
  BY IterateStates
<1> HIDE DEF R
<1>2. 0 \in G
  OBVIOUS
<1>3. ASSUME NEW m \in 1 .. last, m - 1 \in G PROVE m \in G
  <2>1. CASE m = n
    BY <2>1
  <2>2. CASE m > n
    <3>1. R[m - 1] = R[n]
      BY <1>3, <2>2
    <3> QED
      BY <1>1, <3>1 DEF R
  <2>3. CASE m < n
    BY <2>3
  <2> QED
    BY <2>1, <2>2, <2>3
<1>4. last \in G
  <2> HIDE DEF G
  <2>1. \A m \in 0 .. last : m \in G
    BY <1>2, <1>3, UpTo
  <2> QED
    BY <2>1
<1> QED
  BY <1>4 DEF R

\* The rounds of a search are each made from the one before.
LEMMA RoundsStates ==
  ASSUME NEW load, NEW q
  PROVE  LET R == Rounds(load, q) IN
         /\ R[0] = SearchSeed(load.route[q])
         /\ \A n \in 1 .. Cardinality(Nodes) : R[n] = SearchRound(load, q)[R[n - 1]]
<1>1. Cardinality(Nodes) \in Nat
  BY BeamAssumption, FS_CardinalityType
<1>2. Rounds(load, q) = Iterate(SearchSeed(load.route[q]), SearchRound(load, q), Cardinality(Nodes))
  BY Zenon DEF Rounds, Iterate
<1> QED
  BY <1>1, <1>2, IterateStates

\* As long as a search has a frontier, every round has expanded another node.
LEMMA RoundsFacts ==
  ASSUME NEW load \in Workload, NEW q \in Queries, NEW n \in 0 .. Cardinality(Nodes)
  PROVE  LET s == Rounds(load, q)[n] IN
         /\ s \in Search
         /\ \E E \in SUBSET Nodes :
              /\ Tidy([visited |-> s.visited, pool |-> s.pool], E)
              /\ Frontier(s.pool) # <<>> => Cardinality(E) >= n
<1> DEFINE last == Cardinality(Nodes)
           R == Rounds(load, q)
           Good(s, m) ==
             /\ s \in Search
             /\ \E E \in SUBSET Nodes :
                  /\ Tidy([visited |-> s.visited, pool |-> s.pool], E)
                  /\ Frontier(s.pool) # <<>> => Cardinality(E) >= m
           G == {m \in 0 .. last : Good(R[m], m)}
<1>1. last \in Nat /\ IsFiniteSet(Nodes)
  BY BeamAssumption, FS_CardinalityType
<1>2. R[0] = SearchSeed(load.route[q]) /\ \A m \in 1 .. last : R[m] = SearchRound(load, q)[R[m - 1]]
  BY RoundsStates
<1> HIDE DEF last, R
<1>3. Good(R[0], 0)
  <2> DEFINE c == [dist |-> load.route[q][Medoid], id |-> Medoid, expanded |-> FALSE]
             p == <<c>>
             b == [visited |-> {Medoid}, pool |-> p]
  <2>1. c \in Cand /\ c.id = Medoid /\ c.expanded = FALSE
    BY BeamAssumption DEF Cand, Workload
  <2> HIDE DEF c
  <2>2. p \in Seq(Cand) /\ DOMAIN p = {1} /\ p[1] = c
    BY <2>1
  <2>3. R[0] = [pool |-> p, visited |-> {Medoid}, exact |-> <<>>, reads |-> 0]
    BY <1>2 DEF SearchSeed, p, c
  <2> HIDE DEF p
  <2>4. R[0] \in Search
    BY <2>2, <2>3, EmptySeq, BeamAssumption DEF Search
  <2>5. b \in Beam /\ b.visited = {Medoid} /\ b.pool = p
    BY <2>2, BeamAssumption DEF Beam
  <2>6. b = [visited |-> R[0].visited, pool |-> R[0].pool]
    BY <2>3
  <2> HIDE DEF b
  <2>7. Tidy(b, {})
    BY <2>1, <2>2, <2>5 DEF Tidy
  <2>8. Cardinality({}) >= 0
    BY FS_EmptySet
  <2> QED
    BY <2>4, <2>6, <2>7, <2>8
<1>4. ASSUME NEW m \in 1 .. last, Good(R[m - 1], m - 1) PROVE Good(R[m], m)
  <2> DEFINE s == R[m - 1]
             t == R[m]
             f == Frontier(s.pool)
  <2>1. s \in Search /\ t = SearchRound(load, q)[s] /\ m \in Nat /\ m >= 1
    BY <1>1, <1>2, <1>4
  <2>2. PICK E \in SUBSET Nodes :
          /\ Tidy([visited |-> s.visited, pool |-> s.pool], E)
          /\ f # <<>> => Cardinality(E) >= m - 1
    BY <1>4
  <2> HIDE DEF s, t
  <2>3. t \in Search /\ (f = <<>> => t = s)
    BY <2>1, SearchRoundFacts
  <2>4. ASSUME f = <<>> PROVE Good(t, m)
    <3>1. t = s /\ ~ (f # <<>>)
      BY <2>3, <2>4
    <3> HIDE DEF f
    <3>2. ~ (Frontier(t.pool) # <<>>)
      BY <3>1 DEF f
    <3> QED
      BY <2>2, <2>3, <3>1, <3>2
  <2>5. ASSUME f # <<>> PROVE Good(t, m)
    <3> DEFINE F == E \cup ToSet(f)
               v == Explored(load, q, s.visited, s.pool)
    <3>1. s.visited \in SUBSET Nodes /\ s.pool \in Seq(Cand)
      BY <2>1 DEF Search
    <3>2. /\ Tidy([visited |-> s.visited, pool |-> MarkExpanded(s.pool)], F)
          /\ F \subseteq Nodes
          /\ \E n1 \in F : n1 \notin E
      BY <2>2, <2>5, <3>1, RoundExpands
    <3>3. Tidy(v, F)
      BY <3>1, <3>2, ExploredFacts
    <3>4. [visited |-> t.visited, pool |-> t.pool] = v
      BY <2>1, SearchRoundFacts
    <3>5. Cardinality(F) >= m
      <4>1. PICK n1 \in F : n1 \notin E
        BY <3>2
      <4>2. E \cup {n1} \subseteq F /\ IsFiniteSet(F) /\ IsFiniteSet(E)
        BY <1>1, <3>2, FS_Subset
      <4>3. Cardinality(E \cup {n1}) = Cardinality(E) + 1
        BY <4>1, <4>2, FS_AddElement
      <4>4. Cardinality(E \cup {n1}) <= Cardinality(F)
        BY <4>2, FS_Subset
      <4>5. Cardinality(E) \in Nat /\ Cardinality(F) \in Nat
        BY <4>2, FS_CardinalityType
      <4>6. Cardinality(E) >= m - 1
        BY <2>2, <2>5
      <4> QED
        BY <2>1, <4>3, <4>4, <4>5, <4>6
    <3> HIDE DEF F, v
    <3> QED
      BY <2>3, <3>2, <3>3, <3>4, <3>5
  <2> QED
    BY <2>4, <2>5 DEF t
<1>5. \A m \in 0 .. last : m \in G
  <2>1. 0 \in G
    BY <1>1, <1>3
  <2>2. \A m \in 1 .. last : m - 1 \in G => m \in G
    BY <1>1, <1>4
  <2> HIDE DEF G
  <2> QED
    BY <1>1, <2>1, <2>2, UpTo
<1> QED
  BY <1>5 DEF last, R

\* So a search has one round for each node at the most.
LEMMA RoundsBounded ==
  ASSUME NEW load \in Workload, NEW q \in Queries, NEW n \in 0 .. Cardinality(Nodes)
  PROVE  Frontier(Rounds(load, q)[n].pool) # <<>> => n < Cardinality(Nodes)
<1> DEFINE s == Rounds(load, q)[n]
<1>1. PICK E \in SUBSET Nodes :
        /\ s \in Search
        /\ Tidy([visited |-> s.visited, pool |-> s.pool], E)
        /\ Frontier(s.pool) # <<>> => Cardinality(E) >= n
  BY RoundsFacts
<1>2. ASSUME Frontier(s.pool) # <<>> PROVE n < Cardinality(Nodes)
  <2> HIDE DEF s
  <2>1. s.visited \in SUBSET Nodes /\ s.pool \in Seq(Cand)
    BY <1>1 DEF Search
  <2>2. \E n1 \in E \cup ToSet(Frontier(s.pool)) : n1 \notin E
    BY <1>1, <1>2, <2>1, RoundExpands
  <2>3. E \cup ToSet(Frontier(s.pool)) \subseteq Nodes
    BY <1>1, <2>1, RoundExpands
  <2>4. PICK n1 \in Nodes : n1 \notin E
    BY <2>2, <2>3
  <2>5. E \cup {n1} \subseteq Nodes /\ IsFiniteSet(Nodes) /\ IsFiniteSet(E)
    BY BeamAssumption, FS_Subset
  <2>6. /\ Cardinality(E \cup {n1}) = Cardinality(E) + 1
        /\ Cardinality(E \cup {n1}) <= Cardinality(Nodes)
    BY <2>4, <2>5, FS_AddElement, FS_Subset
  <2>7. /\ Cardinality(E) \in Nat /\ Cardinality(Nodes) \in Nat /\ n \in Nat
        /\ Cardinality(E) >= n
    BY <1>1, <1>2, <2>5, FS_CardinalityType
  <2> QED
    BY <2>6, <2>7
<1> QED
  BY <1>2 DEF s

\* Once it has no frontier a search stays as it is: that state is its answer.
LEMMA RoundsSettle ==
  ASSUME NEW load \in Workload, NEW q \in Queries, NEW n \in 0 .. Cardinality(Nodes),
         Frontier(Rounds(load, q)[n].pool) = <<>>
  PROVE  Rounds(load, q)[Cardinality(Nodes)] = Rounds(load, q)[n]
<1> DEFINE last == Cardinality(Nodes)
           R == Rounds(load, q)
           G == {m \in 0 .. last : m >= n => R[m] = R[n]}
<1>1. last \in Nat
  BY BeamAssumption, FS_CardinalityType
<1>2. \A m \in 1 .. last : R[m] = SearchRound(load, q)[R[m - 1]]
  BY RoundsStates
<1>3. SearchRound(load, q)[R[n]] = R[n]
  <2>1. R[n] \in Search
    BY RoundsFacts
  <2> QED
    BY <2>1, SearchRoundFacts
<1>4. n \in 0 .. last
  OBVIOUS
<1> HIDE DEF last, R
<1>5. 0 \in G
  BY <1>1, <1>4
<1>6. ASSUME NEW m \in 1 .. last, m - 1 \in G PROVE m \in G
  <2>1. m \in 0 .. last /\ (m >= n => m = n \/ m - 1 >= n)
    BY <1>1, <1>4
  <2> QED
    BY <1>2, <1>3, <1>6, <2>1
<1>7. \A m \in 0 .. last : m \in G
  <2> HIDE DEF G
  <2> QED
    BY <1>1, <1>5, <1>6, UpTo
<1>8. last \in 0 .. last /\ last >= n
  BY <1>1, <1>4
<1> QED
  BY <1>7, <1>8 DEF last, R

\* The reference search ends: after as many rounds as there are nodes, nothing
\* of its pool is left to expand (the while loop of search.rs:100 terminates).
THEOREM SearchEnds ==
  ASSUME NEW load \in Workload, NEW q \in Queries
  PROVE  Frontier(Rounds(load, q)[Cardinality(Nodes)].pool) = <<>>
<1>1. Cardinality(Nodes) \in Nat
  BY BeamAssumption, FS_CardinalityType
<1>2. Cardinality(Nodes) \in 0 .. Cardinality(Nodes)
  BY <1>1
<1>3. ~ (Cardinality(Nodes) < Cardinality(Nodes))
  BY <1>1
<1> QED
  BY <1>2, <1>3, RoundsBounded

-----------------------------------------------------------------------------
\* A set of the first numbers with every number below one of its own is the
\* first of them, as many as it has.
LEMMA DownClosed ==
  ASSUME NEW n \in Nat, NEW T \in SUBSET (1 .. n),
         \A i \in T : \A j \in 1 .. i : j \in T
  PROVE  Cardinality(T) \in 0 .. n /\ T = 1 .. Cardinality(T)
<1>1. CASE T = {}
  <2>1. Cardinality(T) = 0
    BY <1>1, FS_EmptySet
  <2> QED
    BY <1>1, <2>1
<1>2. CASE T # {}
  <2>1. PICK m : m = Max(T)
    OBVIOUS
  <2>2. m \in T /\ \A y \in T : m >= y
    BY <1>2, <2>1, MaxFacts
  <2>3. m \in Nat /\ m >= 1 /\ m <= n
    BY <2>2
  <2>4. T = 1 .. m
    <3>1. \A j \in 1 .. m : j \in T
      BY <2>2
    <3>2. \A j \in T : j \in 1 .. m
      BY <2>2, <2>3
    <3> QED
      BY <3>1, <3>2
  <2>5. Cardinality(1 .. m) = m
    <3>1. Cardinality(1 .. m) = IF 1 > m THEN 0 ELSE m - 1 + 1
      BY <2>3, FS_Interval
    <3> QED
      BY <2>3, <3>1
  <2> QED
    BY <2>3, <2>4, <2>5
<1> QED
  BY <1>1, <1>2

-----------------------------------------------------------------------------
\* NearestOf is about the nodes of a sequence and their distances only.
LEMMA NearestAlike ==
  ASSUME NEW s, NEW t, NEW dist, NEW V, NEW m, NearestOf(s, dist, V, m),
         Len(t) = Len(s), DOMAIN t = DOMAIN s,
         \A i \in DOMAIN s : t[i].id = s[i].id /\ t[i].dist = s[i].dist
  PROVE  NearestOf(t, dist, V, m)
BY DEF NearestOf

\* The first of the nearest are the nearest of fewer.
LEMMA NearestFirst ==
  ASSUME NEW S, NEW s \in Seq(S), NEW dist \in [Nodes -> Nat], NEW V \in SUBSET Nodes,
         NEW m \in Nat, NEW k \in Nat, k <= m, NearestOf(s, dist, V, m)
  PROVE  NearestOf(FirstOf(s, k), dist, V, k)
<1> DEFINE t == FirstOf(s, k)
<1>1. Len(s) \in Nat /\ DOMAIN s = 1 .. Len(s)
  BY LenProperties
<1>2. /\ Len(t) = (IF Len(s) < k THEN Len(s) ELSE k)
      /\ DOMAIN t = 1 .. Len(t) /\ DOMAIN t \subseteq DOMAIN s
      /\ \A i \in DOMAIN t : t[i] = s[i]
  BY FirstFacts
<1> HIDE DEF t
<1>3. /\ Len(s) <= m
      /\ \A i \in DOMAIN s : s[i].id \in V /\ s[i].dist = dist[s[i].id]
      /\ \A i, j \in DOMAIN s : i < j => s[i].dist <= s[j].dist
      /\ \A i, j \in DOMAIN s : s[i].id = s[j].id => i = j
      /\ \A n \in V : \/ \E i \in DOMAIN s : s[i].id = n
                      \/ Len(s) = m /\ \A i \in DOMAIN s : s[i].dist <= dist[n]
  BY DEF NearestOf
<1>4. Len(t) <= k
  BY <1>1, <1>2
<1>5. ASSUME NEW n \in V
      PROVE  \/ \E i \in DOMAIN t : t[i].id = n
             \/ Len(t) = k /\ \A i \in DOMAIN t : t[i].dist <= dist[n]
  <2>1. CASE \E i \in DOMAIN s : s[i].id = n
    <3>1. PICK i \in DOMAIN s : s[i].id = n
      BY <2>1
    <3>2. CASE i \in DOMAIN t
      BY <1>2, <3>1, <3>2
    <3>3. CASE i \notin DOMAIN t
      <4>0. Len(t) \in Nat /\ i \in 1 .. Len(s) /\ ~ (i \in 1 .. Len(t)) /\ DOMAIN t = 1 .. Len(t)
        BY <1>1, <1>2, <3>3
      <4>2. Len(t) < i /\ i <= Len(s) /\ i \in Nat
        BY SMTT(30), <1>1, <4>0
      <4>3. Len(t) = k
        BY <1>1, <1>2, <4>0, <4>2
      <4>4. \A j \in 1 .. Len(t) : j < i
        BY <4>0, <4>2
      <4>1. Len(t) = k /\ \A j \in DOMAIN t : j < i
        BY <4>0, <4>3, <4>4
      <4>5. \A j \in DOMAIN t : t[j].dist <= s[i].dist
        BY <1>2, <1>3, <4>1
      <4> QED
        BY <1>3, <3>1, <4>1, <4>5
    <3> QED
      BY <3>2, <3>3
  <2>2. CASE ~ \E i \in DOMAIN s : s[i].id = n
    <3>1. Len(s) = m /\ \A i \in DOMAIN s : s[i].dist <= dist[n]
      BY <1>3, <2>2
    <3>2. Len(t) = k
      BY <1>1, <1>2, <3>1
    <3> QED
      BY <1>2, <3>1, <3>2
  <2> QED
    BY <2>1, <2>2
<1>6. /\ \A i \in DOMAIN t : t[i].id \in V /\ t[i].dist = dist[t[i].id]
      /\ \A i, j \in DOMAIN t : i < j => t[i].dist <= t[j].dist
      /\ \A i, j \in DOMAIN t : t[i].id = t[j].id => i = j
  BY <1>2, <1>3
<1> QED
  BY <1>4, <1>5, <1>6, Zenon DEF NearestOf, t

\* A new node put behind those that are nearer, in front of those that are
\* farther and of all that are missing, joins the nearest.
LEMMA NearestInsert ==
  ASSUME NEW S, NEW s \in Seq(S), NEW dist \in [Nodes -> Nat], NEW V \in SUBSET Nodes,
         NEW m \in Nat, NearestOf(s, dist, V, m),
         NEW e \in S, NEW id \in Nodes \ V, e.id = id, e.dist = dist[id],
         NEW k \in 0 .. Len(s),
         \A i \in DOMAIN s : IF i <= k THEN s[i].dist <= dist[id] ELSE dist[id] <= s[i].dist,
         \A n \in V : (\E i \in DOMAIN s : s[i].id = n) \/ dist[id] <= dist[n]
  PROVE  LET t == InsertAt(s, k + 1, e) IN
         /\ NearestOf(t, dist, V \cup {id}, Len(s) + 1)
         /\ Len(s) < m => NearestOf(t, dist, V \cup {id}, m)
<1> DEFINE t == InsertAt(s, k + 1, e)
           Old(i) == IF i <= k THEN i ELSE i - 1
           New(i) == IF i <= k THEN i ELSE i + 1
<1>1. /\ Len(s) \in Nat /\ DOMAIN s = 1 .. Len(s) /\ k \in Nat /\ k <= Len(s)
      /\ dist[id] \in Nat /\ \A n \in V : dist[n] \in Nat
  BY LenProperties
<1>2. /\ Len(t) = Len(s) + 1 /\ DOMAIN t = 1 .. Len(s) + 1
      /\ \A i \in DOMAIN t :
           t[i] = IF i <= k THEN s[i] ELSE IF i = k + 1 THEN e ELSE s[i - 1]
  BY InsertFacts
<1> HIDE DEF t
<1>3. /\ Len(s) <= m
      /\ \A i \in DOMAIN s : s[i].id \in V /\ s[i].dist = dist[s[i].id]
      /\ \A i, j \in DOMAIN s : i < j => s[i].dist <= s[j].dist
      /\ \A i, j \in DOMAIN s : s[i].id = s[j].id => i = j
      /\ \A n \in V : \/ \E i \in DOMAIN s : s[i].id = n
                      \/ Len(s) = m /\ \A i \in DOMAIN s : s[i].dist <= dist[n]
  BY DEF NearestOf
<1>4. k + 1 \in DOMAIN t /\ t[k + 1] = e
  BY <1>1, <1>2
<1>5. \A i \in DOMAIN t : i # k + 1 => Old(i) \in DOMAIN s /\ t[i] = s[Old(i)]
  BY <1>1, <1>2
<1>6. \A i \in DOMAIN s : New(i) \in DOMAIN t /\ t[New(i)] = s[i]
  <2> SUFFICES ASSUME NEW i \in DOMAIN s PROVE New(i) \in DOMAIN t /\ t[New(i)] = s[i]
    OBVIOUS
  <2>1. CASE i <= k
    BY <1>1, <1>2, <2>1
  <2>2. CASE ~ (i <= k)
    <3>1. i + 1 \in DOMAIN t /\ ~ (i + 1 <= k) /\ i + 1 # k + 1 /\ (i + 1) - 1 = i
      BY <1>1, <1>2, <2>2
    <3> QED
      BY <1>2, <2>2, <3>1
  <2> QED
    BY <2>1, <2>2
<1>7. \A i \in DOMAIN t : t[i].id \in V \cup {id} /\ t[i].dist = dist[t[i].id]
  BY <1>3, <1>4, <1>5
<1>8. ASSUME NEW i \in DOMAIN t, NEW j \in DOMAIN t, i < j PROVE t[i].dist <= t[j].dist
  <2>1. CASE i = k + 1
    <3>1. Old(j) \in DOMAIN s /\ t[j] = s[Old(j)] /\ ~ (Old(j) <= k)
      BY <1>1, <1>2, <1>5, <1>8, <2>1
    <3> QED
      BY <1>4, <2>1, <3>1
  <2>2. CASE j = k + 1
    <3>1. Old(i) \in DOMAIN s /\ t[i] = s[Old(i)] /\ Old(i) <= k
      BY <1>1, <1>2, <1>5, <1>8, <2>2
    <3> QED
      BY <1>4, <2>2, <3>1
  <2>3. CASE i # k + 1 /\ j # k + 1
    <3>1. Old(i) \in DOMAIN s /\ Old(j) \in DOMAIN s /\ Old(i) < Old(j)
      BY <1>1, <1>2, <1>5, <1>8, <2>3
    <3>2. t[i] = s[Old(i)] /\ t[j] = s[Old(j)]
      BY <1>5, <2>3
    <3> HIDE DEF Old
    <3> QED
      BY <1>3, <3>1, <3>2
  <2> QED
    BY <2>1, <2>2, <2>3
<1>9. ASSUME NEW i \in DOMAIN t, NEW j \in DOMAIN t, t[i].id = t[j].id PROVE i = j
  <2>1. CASE i = k + 1 \/ j = k + 1
    BY <1>3, <1>4, <1>5, <1>9, <2>1
  <2>2. CASE i # k + 1 /\ j # k + 1
    <3>1. Old(i) = Old(j)
      BY <1>3, <1>5, <1>9, <2>2
    <3> QED
      BY <1>1, <1>2, <2>2, <3>1
  <2> QED
    BY <2>1, <2>2
<1>10. ASSUME NEW n \in V \cup {id}
       PROVE  \/ \E i \in DOMAIN t : t[i].id = n
              \/ Len(s) = m /\ \A i \in DOMAIN t : t[i].dist <= dist[n]
  <2>1. CASE n = id
    BY <1>4, <2>1
  <2>2. CASE n \in V /\ \E i \in DOMAIN s : s[i].id = n
    <3>1. PICK i \in DOMAIN s : s[i].id = n
      BY <2>2
    <3> HIDE DEF New
    <3> QED
      BY <1>6, <3>1
  <2>3. CASE n \in V /\ ~ \E i \in DOMAIN s : s[i].id = n
    <3>1. Len(s) = m /\ dist[id] <= dist[n] /\ \A i \in DOMAIN s : s[i].dist <= dist[n]
      BY <1>3, <2>3
    <3> HIDE DEF Old
    <3>2. \A i \in DOMAIN t : t[i].dist <= dist[n]
      BY <1>4, <1>5, <3>1
    <3> QED
      BY <3>1, <3>2
  <2> QED
    BY <2>1, <2>2, <2>3
<1>11. NearestOf(t, dist, V \cup {id}, Len(s) + 1)
  <2>1. Len(t) <= Len(s) + 1
    BY <1>1, <1>2
  <2> QED
    BY <1>2, <1>7, <1>8, <1>9, <1>10, <2>1, Zenon DEF NearestOf
<1>12. ASSUME Len(s) < m PROVE NearestOf(t, dist, V \cup {id}, m)
  <2>1. Len(t) <= m
    BY <1>1, <1>2, <1>12
  <2>2. \A n \in V \cup {id} : \E i \in DOMAIN t : t[i].id = n
    <3>0. \A a, b \in Nat : a < b => a # b
      OBVIOUS
    <3>1. Len(s) # m
      BY <1>1, <1>12, <3>0, Zenon
    <3>2. ASSUME NEW n \in V \cup {id} PROVE \E i \in DOMAIN t : t[i].id = n
      BY <1>10, <3>1
    <3> QED
      BY <3>2
  <2> QED
    BY <1>7, <1>8, <1>9, <2>1, <2>2, Zenon DEF NearestOf
<1> QED
  BY <1>11, <1>12 DEF t

-----------------------------------------------------------------------------
\* PoolInsert keeps the nearest, and the new node counts with the others.
LEMMA PoolInsertNearest ==
  ASSUME NEW pool \in Seq(Cand), NEW dist \in [Nodes -> Nat], NEW V \in SUBSET Nodes,
         NearestOf(pool, dist, V, Ef), NEW id \in Nodes \ V
  PROVE  NearestOf(PoolInsert(pool, dist[id], id), dist, V \cup {id}, Ef)
<1> DEFINE d == dist[id]
           c == [dist |-> d, id |-> id, expanded |-> FALSE]
           near == {i \in DOMAIN pool : pool[i].dist <= d}
           k == Cardinality(near)
           t == InsertAt(pool, k + 1, c)
           p == PoolInsert(pool, d, id)
<1>1. /\ Len(pool) \in Nat /\ DOMAIN pool = 1 .. Len(pool)
      /\ Ef \in Nat /\ Ef >= 1 /\ d \in Nat
      /\ \A n \in V : dist[n] \in Nat
  BY LenProperties, BeamAssumption
<1>2. /\ Len(pool) <= Ef
      /\ \A i \in DOMAIN pool : pool[i].id \in V /\ pool[i].dist = dist[pool[i].id]
      /\ \A i, j \in DOMAIN pool : i < j => pool[i].dist <= pool[j].dist
      /\ \A n \in V : \/ \E i \in DOMAIN pool : pool[i].id = n
                      \/ Len(pool) = Ef /\ \A i \in DOMAIN pool : pool[i].dist <= dist[n]
  BY DEF NearestOf
<1>3. c \in Cand /\ c.id = id /\ c.dist = d
  BY SMTT(30), <1>1 DEF Cand
<1>4. \A i \in DOMAIN pool : pool[i].dist \in Nat
  BY <1>1, <1>2
<1>5. ASSUME Len(pool) >= Ef
      PROVE  /\ Len(pool) = Ef /\ Len(pool) \in DOMAIN pool /\ Last(pool) = pool[Len(pool)]
             /\ \A i \in DOMAIN pool : pool[i].dist <= Last(pool).dist
  <2>0. \A a, b \in Nat : a <= b /\ a >= b => a = b
    OBVIOUS
  <2>1. Len(pool) = Ef /\ Len(pool) \in DOMAIN pool
    <3>1. Len(pool) = Ef
      BY <1>1, <1>2, <1>5, <2>0, Zenon
    <3> QED
      BY <1>1, <3>1
  <2>2. Last(pool) = pool[Len(pool)]
    BY DEF Last
  <2>3. \A i \in DOMAIN pool : i = Len(pool) \/ i < Len(pool)
    BY <1>1
  <2>4. \A i \in DOMAIN pool : pool[i].dist <= Last(pool).dist
    BY <1>2, <1>4, <2>1, <2>2, <2>3
  <2> QED
    BY <2>1, <2>2, <2>4
<1>6. CASE Len(pool) >= Ef /\ d >= Last(pool).dist
  <2>1. p = pool
    BY <1>6 DEF PoolInsert
  <2>2. \A i \in DOMAIN pool : pool[i].dist <= d
    BY <1>1, <1>4, <1>5, <1>6
  <2>3. \A n \in V \cup {id} : \/ \E i \in DOMAIN pool : pool[i].id = n
                               \/ Len(pool) = Ef /\ \A i \in DOMAIN pool : pool[i].dist <= dist[n]
    BY <1>2, <1>5, <1>6, <2>2
  <2> HIDE DEF p
  <2> QED
    BY <2>1, <2>3 DEF NearestOf, p
<1>7. CASE ~ (Len(pool) >= Ef /\ d >= Last(pool).dist)
  <2>1. p = FirstOf(t, Ef)
    BY <1>7, Zenon DEF PoolInsert
  <2>2. k \in 0 .. Len(pool) /\ near = 1 .. k
    <3> DEFINE n == Len(pool)
    <3>1. n \in Nat /\ near \in SUBSET (1 .. n)
      BY <1>1
    <3>2. \A i \in near : \A j \in 1 .. i : j \in near
      <4> SUFFICES ASSUME NEW i \in near, NEW j \in 1 .. i PROVE j \in near
        OBVIOUS
      <4>1. i \in DOMAIN pool /\ pool[i].dist <= d /\ i \in Nat /\ i <= Len(pool)
        BY <1>1
      <4>2. j \in DOMAIN pool /\ (j = i \/ j < i)
        BY <1>1, <4>1
      <4>3. pool[j].dist <= d
        <5>1. CASE j = i
          BY <4>1, <5>1
        <5>2. CASE j < i
          <6>1. pool[j].dist <= pool[i].dist
            BY <1>2, <4>1, <4>2, <5>2
          <6>2. pool[j].dist \in Nat /\ pool[i].dist \in Nat /\ d \in Nat
            BY <1>1, <1>4, <4>1, <4>2
          <6> QED
            BY <4>1, <6>1, <6>2
        <5> QED
          BY <4>2, <5>1, <5>2
      <4> QED
        BY <4>2, <4>3
    <3> HIDE DEF near, n
    <3>3. Cardinality(near) \in 0 .. n /\ near = 1 .. Cardinality(near)
      BY <3>1, <3>2, DownClosed
    <3> QED
      BY <3>3 DEF n
  <2>3. \A i \in DOMAIN pool : IF i <= k THEN pool[i].dist <= d ELSE d <= pool[i].dist
    <3> SUFFICES ASSUME NEW i \in DOMAIN pool
                 PROVE  IF i <= k THEN pool[i].dist <= d ELSE d <= pool[i].dist
      OBVIOUS
    <3>0. k \in Nat /\ i \in Nat /\ i >= 1 /\ pool[i].dist \in Nat
      BY <1>1, <1>4, <2>2
    <3>1. i \in near <=> pool[i].dist <= d
      OBVIOUS
    <3> HIDE DEF near, k
    <3>2. i \in near <=> i <= k
      BY <2>2, <3>0
    <3> QED
      BY <1>1, <3>0, <3>1, <3>2
  <2> HIDE DEF near, k, c, p, t
  <2>4. \A n \in V : (\E i \in DOMAIN pool : pool[i].id = n) \/ d <= dist[n]
    <3> SUFFICES ASSUME NEW n \in V, ~ \E i \in DOMAIN pool : pool[i].id = n
                 PROVE  d <= dist[n]
      OBVIOUS
    <3>1. Len(pool) = Ef /\ \A i \in DOMAIN pool : pool[i].dist <= dist[n]
      BY <1>2
    <3>2. Len(pool) >= Ef
      BY <1>1, <3>1
    <3>3. ~ (d >= Last(pool).dist)
      BY <1>7, <3>2
    <3>4. Last(pool).dist \in Nat /\ Last(pool).dist <= dist[n] /\ dist[n] \in Nat
      BY <1>1, <1>4, <1>5, <3>1, <3>2
    <3> QED
      BY <1>1, <3>3, <3>4
  <2>5. /\ NearestOf(t, dist, V \cup {id}, Len(pool) + 1)
        /\ Len(pool) < Ef => NearestOf(t, dist, V \cup {id}, Ef)
    BY <1>1, <1>3, <2>2, <2>3, <2>4, NearestInsert DEF t
  <2>6. t \in Seq(Cand) /\ V \cup {id} \in SUBSET Nodes
    BY <1>3, <2>2, InsertFacts DEF t
  <2>7. CASE Len(pool) < Ef
    BY <1>1, <2>1, <2>5, <2>6, <2>7, NearestFirst DEF p
  <2>8. CASE ~ (Len(pool) < Ef)
    <3>1. Len(pool) = Ef /\ Len(pool) + 1 \in Nat /\ Ef <= Len(pool) + 1
      BY <1>1, <1>2, <2>8
    <3> QED
      BY <1>1, <2>1, <2>5, <2>6, <3>1, NearestFirst DEF p
  <2> QED
    BY <2>7, <2>8
<1> QED
  BY <1>6, <1>7

\* A visit takes the pool to the nearest of one node more.
LEMMA VisitNearest ==
  ASSUME NEW route \in [Nodes -> Nat], NEW nb \in Nodes, NEW b \in Beam,
         NearestOf(b.pool, route, b.visited, Ef)
  PROVE  LET v == Visit(route)[nb][b] IN
         v.visited = b.visited \cup {nb} /\ NearestOf(v.pool, route, v.visited, Ef)
<1> DEFINE v == Visit(route)[nb][b]
           p == PoolInsert(b.pool, route[nb], nb)
<1>1. v = IF nb \in b.visited THEN b ELSE [visited |-> b.visited \cup {nb}, pool |-> p]
  BY DEF Visit
<1>2. CASE nb \in b.visited
  <2>1. b.visited \cup {nb} = b.visited
    BY <1>2
  <2> QED
    BY <1>1, <1>2, <2>1
<1>3. CASE nb \notin b.visited
  <2>1. b.pool \in Seq(Cand) /\ b.visited \in SUBSET Nodes
    BY DEF Beam
  <2>2. NearestOf(p, route, b.visited \cup {nb}, Ef)
    BY <1>3, <2>1, PoolInsertNearest
  <2> HIDE DEF p, v
  <2>3. v.visited = b.visited \cup {nb} /\ v.pool = p
    BY <1>1, <1>3
  <2> QED
    BY <2>2, <2>3 DEF v
<1> QED
  BY <1>2, <1>3

\* So whatever the order a round's neighbours come in, its pool is the nearest
\* of the nodes visited before and those neighbours.
LEMMA IntegrateNearest ==
  ASSUME NEW route \in [Nodes -> Nat], NEW nbs \in Seq(Nodes),
         NEW visited \in SUBSET Nodes, NEW pool \in Seq(Cand),
         NearestOf(pool, route, visited, Ef)
  PROVE  LET v == Integrate(visited, pool, route, nbs) IN
         v.visited = visited \cup ToSet(nbs) /\ NearestOf(v.pool, route, v.visited, Ef)
<1> DEFINE b == [visited |-> visited, pool |-> pool]
           v == Integrate(visited, pool, route, nbs)
           Met(i) == visited \cup {nbs[j] : j \in 1 .. i}
           Good == [i \in 0 .. Len(nbs) |->
                      {s \in Beam : /\ s.visited = Met(i)
                                    /\ NearestOf(s.pool, route, s.visited, Ef)}]
<1>1. /\ Len(nbs) \in Nat /\ DOMAIN nbs = 1 .. Len(nbs)
      /\ \A i \in 1 .. Len(nbs) : nbs[i] \in Nodes
  BY LenProperties
<1>2. b \in Beam /\ b.visited = visited /\ b.pool = pool
  BY DEF Beam
<1>3. Met(0) = visited /\ Met(Len(nbs)) = visited \cup ToSet(nbs)
  <2>1. {nbs[j] : j \in 1 .. 0} = {}
    OBVIOUS
  <2>2. {nbs[j] : j \in 1 .. Len(nbs)} = ToSet(nbs)
    BY <1>1 DEF ToSet
  <2> QED
    BY <2>1, <2>2
<1>4. \A i \in 1 .. Len(nbs) : Met(i) = Met(i - 1) \cup {nbs[i]}
  <2> TAKE i \in 1 .. Len(nbs)
  <2>1. 1 .. i = (1 .. i - 1) \cup {i}
    BY <1>1
  <2> QED
    BY <2>1
<1> HIDE DEF Met
<1>5. /\ 0 \in 0 .. Len(nbs) /\ Len(nbs) \in 0 .. Len(nbs)
      /\ \A i \in 1 .. Len(nbs) : i \in 0 .. Len(nbs) /\ i - 1 \in 0 .. Len(nbs)
  BY <1>1
<1>6. \A i \in 0 .. Len(nbs) : \A s :
        s \in Good[i] <=> s \in Beam /\ s.visited = Met(i) /\ NearestOf(s.pool, route, s.visited, Ef)
  OBVIOUS
<1> HIDE DEF Good, b
<1>7. b \in Good[0]
  BY <1>2, <1>3, <1>5, <1>6
<1>8. ASSUME NEW i \in 1 .. Len(nbs), NEW s \in Good[i - 1]
      PROVE  Visit(route)[nbs[i]][s] \in Good[i]
  <2> DEFINE x == Visit(route)[nbs[i]][s]
  <2>1. s \in Beam /\ s.visited = Met(i - 1) /\ NearestOf(s.pool, route, s.visited, Ef)
    BY <1>5, <1>6
  <2>2. x \in Beam
    BY <1>1, <2>1, VisitFacts
  <2>3. x.visited = s.visited \cup {nbs[i]} /\ NearestOf(x.pool, route, x.visited, Ef)
    BY <1>1, <2>1, VisitNearest
  <2> HIDE DEF x
  <2>4. x \in Good[i]
    BY <1>4, <1>5, <1>6, <2>1, <2>2, <2>3
  <2> QED
    BY <2>4 DEF x
<1>9. v \in Good[Len(nbs)]
  BY <1>7, <1>8, LoopInvariant DEF Integrate, b
<1> HIDE DEF v
<1> QED
  BY <1>3, <1>5, <1>6, <1>9 DEF v

\* Marking changes no node and no distance.
LEMMA MarkExpandedNearest ==
  ASSUME NEW pool \in Seq(Cand), NEW dist, NEW V, NEW m, NearestOf(pool, dist, V, m)
  PROVE  NearestOf(MarkExpanded(pool), dist, V, m)
<1> DEFINE t == MarkExpanded(pool)
<1>1. /\ Len(t) = Len(pool) /\ DOMAIN t = DOMAIN pool
      /\ \A i \in DOMAIN pool : t[i].id = pool[i].id /\ t[i].dist = pool[i].dist
  BY MarkExpandedFacts
<1> HIDE DEF t
<1>2. NearestOf(t, dist, V, m)
  BY <1>1, NearestAlike
<1> QED
  BY <1>2 DEF t

-----------------------------------------------------------------------------
\* The elements of two sequences one behind the other.
LEMMA ConcatNodes ==
  ASSUME NEW S, NEW s \in Seq(S), NEW t \in Seq(S)
  PROVE  s \o t \in Seq(S) /\ ToSet(s \o t) = ToSet(s) \cup ToSet(t)
<1> DEFINE u == s \o t
<1>1. /\ u \in Seq(S) /\ Len(u) = Len(s) + Len(t)
      /\ \A i \in 1 .. Len(s) + Len(t) : u[i] = IF i <= Len(s) THEN s[i] ELSE t[i - Len(s)]
  BY ConcatProperties
<1> HIDE DEF u
<1>2. /\ Len(s) \in Nat /\ DOMAIN s = 1 .. Len(s)
      /\ Len(t) \in Nat /\ DOMAIN t = 1 .. Len(t)
      /\ DOMAIN u = 1 .. Len(s) + Len(t)
  BY <1>1, LenProperties
<1>3. \A i \in DOMAIN u : (i \in DOMAIN s /\ u[i] = s[i])
                         \/ (i - Len(s) \in DOMAIN t /\ u[i] = t[i - Len(s)])
  BY <1>1, <1>2
<1>4. \A i \in DOMAIN s : i \in DOMAIN u /\ u[i] = s[i]
  BY <1>1, <1>2
<1>5. \A i \in DOMAIN t : i + Len(s) \in DOMAIN u /\ u[i + Len(s)] = t[i]
  <2> SUFFICES ASSUME NEW i \in DOMAIN t
               PROVE  i + Len(s) \in DOMAIN u /\ u[i + Len(s)] = t[i]
    OBVIOUS
  <2>1. /\ i + Len(s) \in 1 .. Len(s) + Len(t) /\ ~ (i + Len(s) <= Len(s))
        /\ (i + Len(s)) - Len(s) = i
    BY <1>2
  <2> QED
    BY <1>1, <1>2, <2>1
<1>6. ToSet(u) = ToSet(s) \cup ToSet(t)
  <2>1. \A x \in ToSet(u) : x \in ToSet(s) \/ x \in ToSet(t)
    BY <1>3 DEF ToSet
  <2>2. \A x \in ToSet(s) : x \in ToSet(u)
    BY <1>4, Zenon DEF ToSet
  <2>3. \A x \in ToSet(t) : x \in ToSet(u)
    BY <1>5, Zenon DEF ToSet
  <2> QED
    BY <2>1, <2>2, <2>3
<1> QED
  BY <1>1, <1>6 DEF u

\* What a round collects are the neighbours of its nodes.
LEMMA CollectedNodes ==
  ASSUME NEW load \in Workload, NEW frontier \in Seq(Nodes)
  PROVE  ToSet(Collected(load, frontier)) = NeighboursOf(load, ToSet(frontier))
<1> DEFINE step == [n \in Nodes |-> [nbs \in Seq(Nodes) |-> nbs \o load.nbrs[n]]]
           Of(i) == UNION {ToSet(load.nbrs[frontier[j]]) : j \in 1 .. i}
           Good == [i \in 0 .. Len(frontier) |-> {nbs \in Seq(Nodes) : ToSet(nbs) = Of(i)}]
<1>1. /\ Len(frontier) \in Nat /\ DOMAIN frontier = 1 .. Len(frontier)
      /\ \A i \in 1 .. Len(frontier) : frontier[i] \in Nodes
  BY LenProperties
<1>2. Of(0) = {} /\ Of(Len(frontier)) = UNION {ToSet(load.nbrs[n]) : n \in ToSet(frontier)}
  <2>1. Of(0) = {}
    OBVIOUS
  <2>2. {load.nbrs[frontier[j]] : j \in 1 .. Len(frontier)} = {load.nbrs[n] : n \in ToSet(frontier)}
    BY <1>1 DEF ToSet
  <2>3. Of(Len(frontier)) = UNION {ToSet(s) : s \in {load.nbrs[frontier[j]] : j \in 1 .. Len(frontier)}}
    OBVIOUS
  <2>4. UNION {ToSet(load.nbrs[n]) : n \in ToSet(frontier)} =
          UNION {ToSet(s) : s \in {load.nbrs[n] : n \in ToSet(frontier)}}
    OBVIOUS
  <2> QED
    BY <2>1, <2>2, <2>3, <2>4
<1>3. \A i \in 1 .. Len(frontier) : Of(i) = Of(i - 1) \cup ToSet(load.nbrs[frontier[i]])
  <2> TAKE i \in 1 .. Len(frontier)
  <2>1. 1 .. i = (1 .. i - 1) \cup {i}
    BY <1>1
  <2> QED
    BY <2>1
<1>4. ASSUME NEW n \in Nodes, NEW nbs \in Seq(Nodes)
      PROVE  /\ step[n][nbs] \in Seq(Nodes)
             /\ ToSet(step[n][nbs]) = ToSet(nbs) \cup ToSet(load.nbrs[n])
  <2>1. load.nbrs[n] \in Seq(Nodes)
    BY DEF Workload
  <2>2. step[n][nbs] = nbs \o load.nbrs[n]
    OBVIOUS
  <2> QED
    BY <2>1, <2>2, ConcatNodes
<1> HIDE DEF step, Of
<1>5. /\ 0 \in 0 .. Len(frontier) /\ Len(frontier) \in 0 .. Len(frontier)
      /\ \A i \in 1 .. Len(frontier) : i \in 0 .. Len(frontier) /\ i - 1 \in 0 .. Len(frontier)
  BY <1>1
<1>6. \A i \in 0 .. Len(frontier) : \A s : s \in Good[i] <=> s \in Seq(Nodes) /\ ToSet(s) = Of(i)
  OBVIOUS
<1> HIDE DEF Good
<1>7. <<>> \in Good[0]
  <2>1. <<>> \in Seq(Nodes) /\ ToSet(<<>>) = {}
    BY EmptySeq DEF ToSet
  <2> QED
    BY <1>2, <1>5, <1>6, <2>1
<1>8. ASSUME NEW i \in 1 .. Len(frontier), NEW s \in Good[i - 1]
      PROVE  step[frontier[i]][s] \in Good[i]
  <2>1. s \in Seq(Nodes) /\ ToSet(s) = Of(i - 1)
    BY <1>5, <1>6
  <2>2. /\ step[frontier[i]][s] \in Seq(Nodes)
        /\ ToSet(step[frontier[i]][s]) = ToSet(s) \cup ToSet(load.nbrs[frontier[i]])
    BY <1>1, <1>4, <2>1
  <2> QED
    BY <1>3, <1>5, <1>6, <2>1, <2>2
<1>9. Loop(step, <<>>, frontier) \in Good[Len(frontier)]
  BY <1>7, <1>8, LoopInvariant
<1>10. ToSet(Loop(step, <<>>, frontier)) = Of(Len(frontier))
  BY <1>5, <1>6, <1>9
<1>11. ToSet(Loop(step, <<>>, frontier)) = NeighboursOf(load, ToSet(frontier))
  BY <1>2, <1>10, Zenon DEF NeighboursOf
<1> QED
  BY <1>11 DEF Collected, step

-----------------------------------------------------------------------------
\* The distances of the nearest are sorted, so those below a bound come first.
LEMMA RankFacts ==
  ASSUME NEW s \in Seq(Scored), NEW dist \in [Nodes -> Nat], NEW V \in SUBSET Nodes,
         NEW m, NearestOf(s, dist, V, m), NEW e \in Scored
  PROVE  LET k == Cardinality({i \in DOMAIN s : Before(s[i], e)}) IN
         /\ k \in 0 .. Len(s)
         /\ \A i \in DOMAIN s : IF i <= k THEN s[i].dist <= e.dist ELSE e.dist <= s[i].dist
<1> DEFINE n == Len(s)
           d == e.dist
           R == {i \in DOMAIN s : Before(s[i], e)}
           A == {i \in DOMAIN s : s[i].dist < d}
           B == {i \in DOMAIN s : s[i].dist <= d}
<1>1. n \in Nat /\ DOMAIN s = 1 .. n
  BY LenProperties
<1>2. d \in Nat /\ \A i \in DOMAIN s : s[i].dist \in Nat
  BY <1>1 DEF NearestOf, Scored
<1>3. \A i, j \in DOMAIN s : i <= j => s[i].dist <= s[j].dist
  <2> SUFFICES ASSUME NEW i \in DOMAIN s, NEW j \in DOMAIN s, i <= j
               PROVE  s[i].dist <= s[j].dist
    OBVIOUS
  <2>1. i = j \/ i < j
    BY <1>1
  <2>2. i < j => s[i].dist <= s[j].dist
    BY DEF NearestOf
  <2> QED
    BY <1>2, <2>1, <2>2
<1>4. A \subseteq R /\ R \subseteq B /\ R \in SUBSET DOMAIN s
  BY <1>2 DEF Before
<1> HIDE DEF n
<1>5. A \in SUBSET (1 .. n) /\ \A i \in A : \A j \in 1 .. i : j \in A
  <2> SUFFICES ASSUME NEW i \in A, NEW j \in 1 .. i PROVE j \in A
    BY <1>1
  <2>1. j \in DOMAIN s /\ j <= i /\ i \in DOMAIN s
    BY <1>1
  <2>2. s[j].dist <= s[i].dist /\ s[i].dist < d
    BY <1>3, <2>1
  <2> QED
    BY <1>2, <2>1, <2>2
<1>6. B \in SUBSET (1 .. n) /\ \A i \in B : \A j \in 1 .. i : j \in B
  <2> SUFFICES ASSUME NEW i \in B, NEW j \in 1 .. i PROVE j \in B
    BY <1>1
  <2>1. j \in DOMAIN s /\ j <= i /\ i \in DOMAIN s
    BY <1>1
  <2>2. s[j].dist <= s[i].dist /\ s[i].dist <= d
    BY <1>3, <2>1
  <2> QED
    BY <1>2, <2>1, <2>2
<1>7. \A i \in DOMAIN s : /\ i \notin B => d <= s[i].dist
                          /\ i \in B => s[i].dist <= d
                          /\ i \notin A => d <= s[i].dist
  BY <1>2
<1> HIDE DEF R, A, B
<1>8. /\ Cardinality(A) \in 0 .. n /\ A = 1 .. Cardinality(A)
      /\ Cardinality(B) \in 0 .. n /\ B = 1 .. Cardinality(B)
  BY <1>1, <1>5, <1>6, DownClosed
<1>9. /\ IsFiniteSet(B) /\ IsFiniteSet(R)
      /\ Cardinality(R) \in Nat
      /\ Cardinality(A) <= Cardinality(R) /\ Cardinality(R) <= Cardinality(B)
  <2>1. IsFiniteSet(1 .. n)
    BY <1>1, FS_Interval
  <2>2. IsFiniteSet(B)
    BY <1>6, <2>1, FS_Subset
  <2>3. IsFiniteSet(R) /\ Cardinality(R) <= Cardinality(B)
    BY <1>4, <2>2, FS_Subset
  <2>4. Cardinality(A) <= Cardinality(R)
    BY <1>4, <2>3, FS_Subset
  <2> QED
    BY <2>2, <2>3, <2>4, FS_CardinalityType
<1>10. Cardinality(R) \in 0 .. n
  BY <1>1, <1>8, <1>9
<1>11. ASSUME NEW i \in DOMAIN s
       PROVE  IF i <= Cardinality(R) THEN s[i].dist <= d ELSE d <= s[i].dist
  <2>1. i \in 1 .. n /\ n \in Nat
    BY <1>1
  <2>2. CASE i <= Cardinality(R)
    <3>1. i \in 1 .. Cardinality(B)
      BY <1>8, <1>9, <2>1, <2>2
    <3> QED
      BY <1>7, <1>8, <2>2, <3>1
  <2>3. CASE ~ (i <= Cardinality(R))
    <3>1. ~ (i \in 1 .. Cardinality(A))
      BY <1>8, <1>9, <2>1, <2>3
    <3> QED
      BY <1>7, <1>8, <2>3, <3>1
  <2> QED
    BY <2>2, <2>3
<1> QED
  BY <1>10, <1>11 DEF n, d, R

\* TopK keeps the nearest of what has been pushed.
LEMMA TopPushNearest ==
  ASSUME NEW top \in Seq(Scored), NEW dist \in [Nodes -> Nat], NEW V \in SUBSET Nodes,
         NearestOf(top, dist, V, K), NEW id \in Nodes \ V
  PROVE  NearestOf(TopPush(top, dist[id], id), dist, V \cup {id}, K)
<1> DEFINE e == [dist |-> dist[id], id |-> id]
           Rank(s) == Cardinality({i \in DOMAIN s : Before(s[i], e)})
           Add(s) == InsertAt(s, Rank(s) + 1, e)
<1>1. e \in Scored /\ e.id = id /\ e.dist = dist[id]
  BY DEF Scored
<1>2. /\ Len(top) \in Nat /\ DOMAIN top = 1 .. Len(top) /\ K \in Nat /\ K >= 1
      /\ dist[id] \in Nat /\ \A n \in V : dist[n] \in Nat
  BY LenProperties, BeamAssumption
<1>3. /\ Len(top) <= K
      /\ \A i \in DOMAIN top : top[i].id \in V /\ top[i].dist = dist[top[i].id]
      /\ \A i, j \in DOMAIN top : i < j => top[i].dist <= top[j].dist
      /\ \A n \in V : (\E i \in DOMAIN top : top[i].id = n)
                      \/ (Len(top) = K /\ \A i \in DOMAIN top : top[i].dist <= dist[n])
  BY DEF NearestOf
<1>4. TopPush(top, dist[id], id) = IF Len(top) < K THEN Add(top)
                                   ELSE IF dist[id] < Last(top).dist THEN Add(Front(top))
                                   ELSE top
  BY Zenon DEF TopPush
<1>5. ASSUME NEW s \in Seq(Scored), NEW m \in Nat, NearestOf(s, dist, V, m),
             \A n \in V : (\E i \in DOMAIN s : s[i].id = n) \/ dist[id] <= dist[n]
      PROVE  /\ NearestOf(Add(s), dist, V \cup {id}, Len(s) + 1)
             /\ Len(s) < m => NearestOf(Add(s), dist, V \cup {id}, m)
  <2> DEFINE k == Rank(s)
  <2>1. /\ k \in 0 .. Len(s)
        /\ \A i \in DOMAIN s : IF i <= k THEN s[i].dist <= e.dist ELSE e.dist <= s[i].dist
    BY <1>1, <1>5, RankFacts
  <2> HIDE DEF k, e
  <2>2. /\ NearestOf(InsertAt(s, k + 1, e), dist, V \cup {id}, Len(s) + 1)
        /\ Len(s) < m => NearestOf(InsertAt(s, k + 1, e), dist, V \cup {id}, m)
    BY <1>1, <1>5, <2>1, NearestInsert
  <2> QED
    BY <2>2 DEF k
<1> HIDE DEF Add, e
<1>6. CASE Len(top) < K
  <2>1. \A n \in V : (\E i \in DOMAIN top : top[i].id = n) \/ dist[id] <= dist[n]
    <3>1. Len(top) # K
      <4>1. \A a, b \in Nat : a < b => a # b
        OBVIOUS
      <4> QED
        BY <1>2, <1>6, <4>1, Zenon
    <3> QED
      BY <1>3, <3>1
  <2>2. NearestOf(Add(top), dist, V \cup {id}, K)
    BY <1>2, <1>5, <1>6, <2>1
  <2> QED
    BY <1>4, <1>6, <2>2
<1>7. CASE ~ (Len(top) < K)
  <2>1. Len(top) = K /\ K \in DOMAIN top
    <3>1. \A a, b \in Nat : a <= b /\ ~ (a < b) => a = b
      OBVIOUS
    <3>2. Len(top) = K
      BY <1>2, <1>3, <1>7, <3>1, Zenon
    <3> QED
      BY <1>2, <3>2
  <2>2. Last(top) = top[K]
    BY <2>1 DEF Last
  <2>3. /\ top[K].dist \in Nat
        /\ \A i \in DOMAIN top : top[i].dist \in Nat /\ top[i].dist <= top[K].dist
    <3>1. \A i \in DOMAIN top : top[i].dist \in Nat
      BY <1>2, <1>3
    <3>2. \A i \in DOMAIN top : i = K \/ i < K
      BY <1>2, <2>1
    <3>3. ASSUME NEW i \in DOMAIN top PROVE top[i].dist <= top[K].dist
      <4>1. CASE i = K
        BY <2>1, <3>1, <4>1
      <4>2. CASE i < K
        BY <1>3, <2>1, <4>2
      <4> QED
        BY <3>2, <4>1, <4>2
    <3> QED
      BY SMTT(30), <2>1, <3>1, <3>3
  <2>4. CASE dist[id] < top[K].dist
    <3> DEFINE f == FirstOf(top, K - 1)
    <3>1. Front(top) = f
      <4>1. K - 1 \in Nat /\ ~ (K < K - 1)
        BY <1>2
      <4> QED
        BY <2>1, <4>1 DEF Front, FirstOf
    <3>2. K - 1 \in Nat /\ K - 1 <= K
      BY <1>2
    <3>3. /\ f \in Seq(Scored) /\ Len(f) = K - 1 /\ DOMAIN f = 1 .. K - 1
          /\ \A i \in DOMAIN f : f[i] = top[i]
      <4> DEFINE k == K - 1
      <4>1. k \in Nat /\ ~ (K < k)
        BY <1>2
      <4> HIDE DEF k
      <4>2. /\ FirstOf(top, k) \in Seq(Scored)
            /\ Len(FirstOf(top, k)) = (IF Len(top) < k THEN Len(top) ELSE k)
            /\ DOMAIN FirstOf(top, k) = 1 .. Len(FirstOf(top, k))
            /\ \A i \in DOMAIN FirstOf(top, k) : FirstOf(top, k)[i] = top[i]
        BY <4>1, FirstFacts
      <4>3. Len(FirstOf(top, k)) = k
        BY <2>1, <4>1, <4>2
      <4> QED
        BY <4>2, <4>3 DEF k
    <3>4. NearestOf(f, dist, V, K - 1)
      <4> DEFINE k == K - 1
      <4>1. k \in Nat /\ k <= K
        BY <1>2
      <4> HIDE DEF k
      <4>2. NearestOf(FirstOf(top, k), dist, V, k)
        BY <1>2, <4>1, NearestFirst
      <4> QED
        BY <4>2 DEF k
    <3> HIDE DEF f
    <3>5. ASSUME NEW n \in V, ~ \E i \in DOMAIN f : f[i].id = n PROVE dist[id] <= dist[n]
      <4>1. CASE \E i \in DOMAIN top : top[i].id = n
        <5>1. PICK i \in DOMAIN top : top[i].id = n
          BY <4>1
        <5>2. i \notin DOMAIN f
          BY <3>3, <3>5, <5>1
        <5>3. i = K
          BY <1>2, <2>1, <3>3, <5>2
        <5>4. top[K].dist = dist[n]
          BY <1>3, <2>1, <5>1, <5>3
        <5> QED
          BY <1>2, <2>3, <2>4, <5>4
      <4>2. CASE ~ \E i \in DOMAIN top : top[i].id = n
        <5>1. top[K].dist <= dist[n]
          BY <1>3, <2>1, <4>2
        <5> QED
          BY <1>2, <2>3, <2>4, <5>1
      <4> QED
        BY <4>1, <4>2
    <3>6. NearestOf(Add(f), dist, V \cup {id}, Len(f) + 1)
      BY <1>5, <3>2, <3>3, <3>4, <3>5
    <3>7. Len(f) + 1 = K
      BY <1>2, <3>3
    <3> QED
      BY <1>4, <1>7, <2>2, <2>4, <3>1, <3>6, <3>7
  <2>5. CASE ~ (dist[id] < top[K].dist)
    <3>1. TopPush(top, dist[id], id) = top
      BY <1>4, <1>7, <2>2, <2>5
    <3>2. \A i \in DOMAIN top : top[i].dist <= dist[id]
      BY <1>2, <2>3, <2>5
    <3>3. /\ \A i \in DOMAIN top : top[i].id \in V \cup {id}
          /\ \A n \in V \cup {id} :
               (\E i \in DOMAIN top : top[i].id = n)
               \/ (Len(top) = K /\ \A i \in DOMAIN top : top[i].dist <= dist[n])
      BY <1>3, <2>1, <3>2
    <3>4. NearestOf(top, dist, V \cup {id}, K)
      BY <3>3, Zenon DEF NearestOf
    <3> QED
      BY <3>1, <3>4
  <2> QED
    BY <2>4, <2>5
<1> QED
  BY <1>6, <1>7

\* So a round ranks the nodes it has read among those read before it.
LEMMA RankedNearest ==
  ASSUME NEW load \in Workload, NEW q \in Queries, NEW top \in Seq(Scored),
         NEW frontier \in Seq(Nodes), NEW V \in SUBSET Nodes,
         NearestOf(top, load.exact[q], V, K),
         \A i \in DOMAIN frontier : frontier[i] \notin V,
         \A i, j \in DOMAIN frontier : frontier[i] = frontier[j] => i = j
  PROVE  NearestOf(Ranked(load, q, top, frontier), load.exact[q], V \cup ToSet(frontier), K)
<1> DEFINE step == [n \in Nodes |-> [t \in Seq(Scored) |-> TopPush(t, load.exact[q][n], n)]]
           dist == load.exact[q]
           Read(i) == V \cup {frontier[j] : j \in 1 .. i}
           Good == [i \in 0 .. Len(frontier) |->
                      {t \in Seq(Scored) : NearestOf(t, dist, Read(i), K)}]
<1>1. /\ Len(frontier) \in Nat /\ DOMAIN frontier = 1 .. Len(frontier)
      /\ \A i \in 1 .. Len(frontier) : frontier[i] \in Nodes
  BY LenProperties
<1>2. Read(0) = V /\ Read(Len(frontier)) = V \cup ToSet(frontier)
  <2>1. {frontier[j] : j \in 1 .. 0} = {}
    OBVIOUS
  <2>2. {frontier[j] : j \in 1 .. Len(frontier)} = ToSet(frontier)
    BY <1>1 DEF ToSet
  <2> QED
    BY <2>1, <2>2
<1>3. ASSUME NEW i \in 1 .. Len(frontier)
      PROVE  /\ Read(i) = Read(i - 1) \cup {frontier[i]} /\ frontier[i] \notin Read(i - 1)
             /\ Read(i - 1) \in SUBSET Nodes
  <2>1. 1 .. i = (1 .. i - 1) \cup {i}
    BY <1>1
  <2>2. \A j \in 1 .. i - 1 : j \in DOMAIN frontier /\ j # i /\ frontier[j] \in Nodes
    BY <1>1
  <2>3. Read(i) = Read(i - 1) \cup {frontier[i]}
    BY <2>1
  <2>4. frontier[i] \notin Read(i - 1)
    BY <1>1, <2>2
  <2> QED
    BY <2>2, <2>3, <2>4
<1>4. \A n \in Nodes, t \in Seq(Scored) :
        step[n][t] = TopPush(t, dist[n], n) /\ step[n][t] \in Seq(Scored)
  <2>1. \A n \in Nodes : dist[n] \in Nat
    BY DEF Workload
  <2> QED
    BY <2>1, TopPushType
<1>5. dist \in [Nodes -> Nat]
  BY DEF Workload
<1> HIDE DEF step, Read
<1>6. /\ 0 \in 0 .. Len(frontier) /\ Len(frontier) \in 0 .. Len(frontier)
      /\ \A i \in 1 .. Len(frontier) : i \in 0 .. Len(frontier) /\ i - 1 \in 0 .. Len(frontier)
  BY <1>1
<1>7. \A i \in 0 .. Len(frontier) : \A t :
        t \in Good[i] <=> t \in Seq(Scored) /\ NearestOf(t, dist, Read(i), K)
  OBVIOUS
<1> HIDE DEF Good
<1>8. top \in Good[0]
  BY <1>2, <1>6, <1>7
<1> HIDE DEF dist
<1>9. ASSUME NEW i \in 1 .. Len(frontier), NEW t \in Good[i - 1]
      PROVE  step[frontier[i]][t] \in Good[i]
  <2>1. t \in Seq(Scored) /\ NearestOf(t, dist, Read(i - 1), K)
    BY <1>6, <1>7
  <2>2. frontier[i] \in Nodes \ Read(i - 1) /\ Read(i - 1) \in SUBSET Nodes
    BY <1>1, <1>3
  <2>3. NearestOf(TopPush(t, dist[frontier[i]], frontier[i]), dist, Read(i - 1) \cup {frontier[i]}, K)
    BY <1>5, <2>1, <2>2, TopPushNearest
  <2> QED
    <3>1. /\ step[frontier[i]][t] = TopPush(t, dist[frontier[i]], frontier[i])
          /\ step[frontier[i]][t] \in Seq(Scored)
      BY <1>1, <1>4, <2>1
    <3>2. Read(i) = Read(i - 1) \cup {frontier[i]}
      BY <1>3
    <3>3. NearestOf(step[frontier[i]][t], dist, Read(i), K)
      BY <2>3, <3>1, <3>2, Zenon
    <3> QED
      BY <1>6, <1>7, <3>1, <3>3, Zenon
<1>10. Loop(step, top, frontier) \in Good[Len(frontier)]
  BY <1>8, <1>9, LoopInvariant
<1>11. NearestOf(Loop(step, top, frontier), dist, Read(Len(frontier)), K)
  BY <1>6, <1>7, <1>10
<1> QED
  BY <1>2, <1>11 DEF Ranked, step, dist

-----------------------------------------------------------------------------
\* Where two sequences of the nearest agree up to a place that one of them has,
\* the other has it too, with a node that is no farther.
LEMMA NearestNoFarther ==
  ASSUME NEW S, NEW s \in Seq(S), NEW t \in Seq(S), NEW dist \in [Nodes -> Nat],
         NEW V \in SUBSET Nodes, NEW m \in Nat,
         \A a, b \in V : dist[a] = dist[b] => a = b,
         NearestOf(s, dist, V, m), NearestOf(t, dist, V, m),
         NEW i \in DOMAIN s,
         \A j \in 1 .. i - 1 : j \in DOMAIN t /\ t[j].id = s[j].id
  PROVE  i \in DOMAIN t /\ t[i].dist <= s[i].dist
<1>1. /\ Len(s) \in Nat /\ DOMAIN s = 1 .. Len(s)
      /\ Len(t) \in Nat /\ DOMAIN t = 1 .. Len(t)
      /\ \A n \in V : dist[n] \in Nat
  BY LenProperties
<1>2. /\ Len(s) <= m
      /\ \A j \in DOMAIN s : s[j].id \in V /\ s[j].dist = dist[s[j].id]
      /\ \A j, l \in DOMAIN s : s[j].id = s[l].id => j = l
  BY DEF NearestOf
<1>3. /\ Len(t) <= m
      /\ \A j \in DOMAIN t : t[j].id \in V /\ t[j].dist = dist[t[j].id]
      /\ \A j, l \in DOMAIN t : j < l => t[j].dist <= t[l].dist
      /\ \A n \in V : (\E j \in DOMAIN t : t[j].id = n)
                      \/ (Len(t) = m /\ \A j \in DOMAIN t : t[j].dist <= dist[n])
  BY DEF NearestOf
<1>4. PICK n \in V : n = s[i].id /\ s[i].dist = dist[n] /\ dist[n] \in Nat
  BY <1>1, <1>2
<1>5. i \in Nat /\ i >= 1 /\ i <= Len(s)
  BY <1>1
<1>6. \A j \in 1 .. i - 1 : t[j].id # n
  <2> SUFFICES ASSUME NEW j \in 1 .. i - 1, t[j].id = n PROVE FALSE
    OBVIOUS
  <2>1. j \in DOMAIN s /\ j # i /\ t[j].id = s[j].id
    BY <1>1, <1>5
  <2> QED
    BY <1>2, <1>4, <2>1
<1>7. i \in DOMAIN t
  <2> SUFFICES ASSUME i \notin DOMAIN t PROVE FALSE
    OBVIOUS
  <2>1. \A j \in DOMAIN t : j \in 1 .. i - 1
    BY <1>1, <1>5
  <2>2. Len(t) < i
    BY <1>1, <1>5
  <2>3. Len(t) = m
    BY SMTT(30), <1>3, <1>6, <2>1
  <2> QED
    BY <1>1, <1>2, <1>5, <2>2, <2>3
<1>8. t[i].dist \in Nat /\ t[i].dist = dist[t[i].id]
  BY <1>1, <1>3, <1>7
<1>9. t[i].dist <= dist[n]
  <2>1. CASE \E j \in DOMAIN t : t[j].id = n
    <3>1. PICK j \in DOMAIN t : t[j].id = n
      BY <2>1
    <3>2. j = i \/ i < j
      BY <1>1, <1>5, <1>6, <3>1
    <3>3. CASE j = i
      BY <1>4, <1>8, <3>1, <3>3
    <3>4. CASE i < j
      <4>1. t[i].dist <= t[j].dist
        BY <1>3, <1>7, <3>4
      <4>2. t[j].dist = dist[n]
        BY <1>3, <3>1
      <4> QED
        BY <4>1, <4>2
    <3> QED
      BY <3>2, <3>3, <3>4
  <2>2. CASE ~ \E j \in DOMAIN t : t[j].id = n
    BY <1>3, <1>7, <2>2
  <2> QED
    BY <2>1, <2>2
<1> QED
  BY <1>4, <1>7, <1>9

\* Where no two nodes are equally far, there is one sequence of the nearest.
LEMMA NearestUnique ==
  ASSUME NEW S, NEW s \in Seq(S), NEW t \in Seq(S), NEW dist \in [Nodes -> Nat],
         NEW V \in SUBSET Nodes, NEW m \in Nat,
         \A a, b \in V : dist[a] = dist[b] => a = b,
         NearestOf(s, dist, V, m), NearestOf(t, dist, V, m)
  PROVE  /\ Len(s) = Len(t) /\ DOMAIN s = DOMAIN t
         /\ \A i \in DOMAIN s : s[i].id = t[i].id /\ s[i].dist = t[i].dist
<1>1. /\ Len(s) \in Nat /\ DOMAIN s = 1 .. Len(s)
      /\ Len(t) \in Nat /\ DOMAIN t = 1 .. Len(t)
  BY LenProperties
<1>2. /\ \A i \in DOMAIN s : s[i].id \in V /\ s[i].dist = dist[s[i].id] /\ s[i].dist \in Nat
      /\ \A i \in DOMAIN t : t[i].id \in V /\ t[i].dist = dist[t[i].id] /\ t[i].dist \in Nat
  BY <1>1 DEF NearestOf
<1> DEFINE n == IF Len(s) <= Len(t) THEN Len(t) ELSE Len(s)
           G == {i \in 0 .. n : \A j \in 1 .. i :
                   (j \in DOMAIN s \/ j \in DOMAIN t) =>
                     (j \in DOMAIN s /\ j \in DOMAIN t /\ s[j].id = t[j].id)}
<1>3. n \in Nat /\ n >= Len(s) /\ n >= Len(t)
  BY <1>1
<1> HIDE DEF n
<1>4. 0 \in G
  BY <1>3
<1>5. ASSUME NEW i \in 1 .. n, i - 1 \in G PROVE i \in G
  <2>0. i \in 0 .. n /\ i \in Nat /\ i >= 1 /\ 1 .. i = (1 .. i - 1) \cup {i}
    BY <1>3
  <2>1. \A j \in 1 .. i - 1 : (j \in DOMAIN s \/ j \in DOMAIN t) =>
          (j \in DOMAIN s /\ j \in DOMAIN t /\ s[j].id = t[j].id)
    BY <1>5
  <2>2. ASSUME i \in DOMAIN s PROVE i \in DOMAIN t /\ t[i].dist <= s[i].dist
    <3>1. \A j \in 1 .. i - 1 : j \in DOMAIN s
      BY <1>1, <2>0, <2>2
    <3>2. \A j \in 1 .. i - 1 : j \in DOMAIN t /\ t[j].id = s[j].id
      BY <2>1, <3>1
    <3> QED
      BY <2>2, <3>2, NearestNoFarther
  <2>3. ASSUME i \in DOMAIN t PROVE i \in DOMAIN s /\ s[i].dist <= t[i].dist
    <3>1. \A j \in 1 .. i - 1 : j \in DOMAIN t
      BY <1>1, <2>0, <2>3
    <3>2. \A j \in 1 .. i - 1 : j \in DOMAIN s /\ s[j].id = t[j].id
      BY <2>1, <3>1
    <3> QED
      BY <2>3, <3>2, NearestNoFarther
  <2>4. ASSUME i \in DOMAIN s \/ i \in DOMAIN t
        PROVE  i \in DOMAIN s /\ i \in DOMAIN t /\ s[i].id = t[i].id
    <3>1. i \in DOMAIN s /\ i \in DOMAIN t /\ t[i].dist <= s[i].dist /\ s[i].dist <= t[i].dist
      BY <2>2, <2>3, <2>4
    <3>2. s[i].dist = t[i].dist
      BY <1>2, <3>1
    <3>3. dist[s[i].id] = dist[t[i].id] /\ s[i].id \in V /\ t[i].id \in V
      BY <1>2, <3>1, <3>2
    <3> QED
      BY <3>1, <3>3
  <2> QED
    BY <2>0, <2>1, <2>4
<1>6. \A j \in 1 .. n : (j \in DOMAIN s \/ j \in DOMAIN t) =>
        (j \in DOMAIN s /\ j \in DOMAIN t /\ s[j].id = t[j].id)
  <2>1. n \in G
    <3> HIDE DEF G
    <3>1. \A i \in 0 .. n : i \in G
      BY <1>3, <1>4, <1>5, UpTo
    <3> QED
      BY <1>3, <3>1
  <2> QED
    BY <2>1
<1>7. DOMAIN s \subseteq 1 .. n /\ DOMAIN t \subseteq 1 .. n
  BY <1>1, <1>3
<1>8. DOMAIN s = DOMAIN t
  BY <1>6, <1>7
<1>9. Len(s) = Len(t)
  <2>1. Len(s) = 0 \/ Len(s) \in DOMAIN s
    BY <1>1
  <2>2. Len(t) = 0 \/ Len(t) \in DOMAIN t
    BY <1>1
  <2>3. Len(s) <= Len(t) /\ Len(t) <= Len(s)
    BY <1>1, <1>8, <2>1, <2>2
  <2>4. \A a, b \in Nat : a <= b /\ b <= a => a = b
    OBVIOUS
  <2> QED
    BY <1>1, <2>3, <2>4, Zenon
<1>10. \A i \in DOMAIN s : s[i].id = t[i].id /\ s[i].dist = t[i].dist
  <2>1. \A i \in DOMAIN s : s[i].id = t[i].id
    BY <1>6, <1>7, <1>8
  <2> QED
    BY <1>2, <1>8, <2>1
<1> QED
  BY <1>8, <1>9, <1>10

\* So the top is the same, in whatever order nodes were pushed.
LEMMA TopUnique ==
  ASSUME NEW s \in Seq(Scored), NEW t \in Seq(Scored), NEW dist \in [Nodes -> Nat],
         NEW V \in SUBSET Nodes,
         \A a, b \in Nodes : dist[a] = dist[b] => a = b,
         NearestOf(s, dist, V, K), NearestOf(t, dist, V, K)
  PROVE  s = t
<1>1. K \in Nat /\ \A a, b \in V : dist[a] = dist[b] => a = b
  BY BeamAssumption
<1>2. /\ Len(s) = Len(t) /\ DOMAIN s = DOMAIN t
      /\ \A i \in DOMAIN s : s[i].id = t[i].id /\ s[i].dist = t[i].dist
  BY <1>1, NearestUnique
<1>3. DOMAIN s = 1 .. Len(s) /\ \A i \in DOMAIN s : s[i] \in Scored /\ t[i] \in Scored
  BY <1>2, LenProperties
<1>4. \A i \in DOMAIN s : s[i] = t[i]
  <2> TAKE i \in DOMAIN s
  <2>1. /\ s[i] = [dist |-> s[i].dist, id |-> s[i].id]
        /\ t[i] = [dist |-> t[i].dist, id |-> t[i].id]
    BY <1>3 DEF Scored
  <2> QED
    BY <1>2, <2>1, Zenon
<1> QED
  BY <1>2, <1>3, <1>4, SeqEqual

\* And so is the pool, if the same nodes are expanded ...
LEMMA PoolUnique ==
  ASSUME NEW p \in Seq(Cand), NEW r \in Seq(Cand), NEW dist \in [Nodes -> Nat],
         NEW V \in SUBSET Nodes, NEW E,
         \A a, b \in Nodes : dist[a] = dist[b] => a = b,
         NearestOf(p, dist, V, Ef), NearestOf(r, dist, V, Ef),
         \A i \in DOMAIN p : p[i].expanded <=> p[i].id \in E,
         \A i \in DOMAIN r : r[i].expanded <=> r[i].id \in E
  PROVE  p = r
<1>1. Ef \in Nat /\ \A a, b \in V : dist[a] = dist[b] => a = b
  BY BeamAssumption
<1>2. /\ Len(p) = Len(r) /\ DOMAIN p = DOMAIN r
      /\ \A i \in DOMAIN p : p[i].id = r[i].id /\ p[i].dist = r[i].dist
  BY <1>1, NearestUnique
<1>3. /\ DOMAIN p = 1 .. Len(p)
      /\ \A i \in DOMAIN p : p[i] \in Cand /\ r[i] \in Cand
  BY <1>2, LenProperties
<1>4. \A i \in DOMAIN p : p[i] = r[i]
  <2> TAKE i \in DOMAIN p
  <2>1. /\ p[i].expanded \in BOOLEAN /\ r[i].expanded \in BOOLEAN
        /\ p[i] = [dist |-> p[i].dist, id |-> p[i].id, expanded |-> p[i].expanded]
        /\ r[i] = [dist |-> r[i].dist, id |-> r[i].id, expanded |-> r[i].expanded]
    BY <1>3 DEF Cand
  <2>2. p[i].expanded <=> r[i].expanded
    BY <1>2
  <2>3. p[i].expanded = r[i].expanded
    BY <2>1, <2>2, Zenon
  <2> QED
    BY <1>2, <2>1, <2>3, Zenon
<1> QED
  BY <1>2, <1>3, <1>4, SeqEqual

\* ... which makes two beams with the same nodes visited and expanded the same.
LEMMA BeamUnique ==
  ASSUME NEW s \in Beam, NEW t \in Beam, NEW dist \in [Nodes -> Nat],
         \A a, b \in Nodes : dist[a] = dist[b] => a = b,
         NearestOf(s.pool, dist, s.visited, Ef), NearestOf(t.pool, dist, t.visited, Ef),
         s.visited = t.visited,
         NEW E, Tidy(s, E), Tidy(t, E)
  PROVE  s = t
<1>1. /\ s.pool \in Seq(Cand) /\ t.pool \in Seq(Cand) /\ s.visited \in SUBSET Nodes
      /\ s = [visited |-> s.visited, pool |-> s.pool]
      /\ t = [visited |-> t.visited, pool |-> t.pool]
  BY DEF Beam
<1>2. /\ \A i \in DOMAIN s.pool : s.pool[i].expanded <=> s.pool[i].id \in E
      /\ \A i \in DOMAIN t.pool : t.pool[i].expanded <=> t.pool[i].id \in E
  BY DEF Tidy
<1>3. PICK p \in Seq(Cand) : p = s.pool
  BY <1>1
<1>4. PICK r \in Seq(Cand) : r = t.pool
  BY <1>1
<1>5. PICK V \in SUBSET Nodes : V = s.visited
  BY <1>1
<1>6. /\ NearestOf(p, dist, V, Ef) /\ NearestOf(r, dist, V, Ef)
      /\ \A i \in DOMAIN p : p[i].expanded <=> p[i].id \in E
      /\ \A i \in DOMAIN r : r[i].expanded <=> r[i].id \in E
  BY <1>2, <1>3, <1>4, <1>5, Zenon
<1>7. p = r
  BY <1>6, PoolUnique
<1> QED
  BY <1>1, <1>3, <1>4, <1>7, Zenon

-----------------------------------------------------------------------------
\* The nodes of a frontier have been visited, not expanded, and are different.
LEMMA FrontierNew ==
  ASSUME NEW visited \in SUBSET Nodes, NEW pool \in Seq(Cand), NEW E,
         Tidy([visited |-> visited, pool |-> pool], E)
  PROVE  LET f == Frontier(pool) IN
         /\ f \in Seq(Nodes) /\ ToSet(f) \subseteq visited
         /\ \A i \in DOMAIN f : f[i] \notin E
         /\ \A i, j \in DOMAIN f : f[i] = f[j] => i = j
<1> DEFINE at == FrontierAt(pool)
           f == Frontier(pool)
<1>1. /\ \A j \in DOMAIN at : ~ pool[at[j]].expanded
      /\ \A j, l \in DOMAIN at : at[j] = at[l] => j = l
  BY FrontierAtFacts
<1>2. /\ f \in Seq(Nodes) /\ DOMAIN f = DOMAIN at
      /\ \A j \in DOMAIN at : at[j] \in DOMAIN pool /\ f[j] = pool[at[j]].id
  BY FrontierFacts
<1>3. /\ \A i \in DOMAIN pool :
           pool[i].id \in visited /\ (pool[i].expanded <=> pool[i].id \in E)
      /\ \A i, j \in DOMAIN pool : pool[i].id = pool[j].id => i = j
  BY DEF Tidy
<1> HIDE DEF at, f
<1>4. /\ \A i \in DOMAIN f : f[i] \in visited /\ f[i] \notin E
      /\ \A i, j \in DOMAIN f : f[i] = f[j] => i = j
  <2>1. \A i \in DOMAIN f : i \in DOMAIN at /\ at[i] \in DOMAIN pool /\ f[i] = pool[at[i]].id
    BY <1>2
  <2>2. \A i \in DOMAIN f : f[i] \in visited /\ f[i] \notin E
    BY <1>1, <1>3, <2>1, Zenon
  <2>3. ASSUME NEW i \in DOMAIN f, NEW j \in DOMAIN f, f[i] = f[j] PROVE i = j
    <3>1. at[i] = at[j]
      BY <1>3, <2>1, <2>3
    <3> QED
      BY <1>1, <2>1, <3>1
  <2> QED
    BY <2>2, <2>3
<1>5. ToSet(f) \subseteq visited
  BY <1>4 DEF ToSet
<1> QED
  BY <1>2, <1>4, <1>5 DEF f

\* Before its first round a search has expanded nothing.
LEMMA SeedExpanded ==
  ASSUME NEW load \in Workload, NEW q \in Queries
  PROVE  HasExpanded(load, q, 0, {})
<1> DEFINE c == [dist |-> load.route[q][Medoid], id |-> Medoid, expanded |-> FALSE]
           p == <<c>>
           r == Rounds(load, q)[0]
           b == [visited |-> {Medoid}, pool |-> p]
<1>1. r = SearchSeed(load.route[q])
  BY RoundsStates
<1>2. c \in Cand /\ c.id = Medoid /\ c.dist = load.route[q][Medoid] /\ c.expanded = FALSE
  BY BeamAssumption DEF Cand, Workload
<1> HIDE DEF r, c
<1>3. r.pool = p /\ r.visited = {Medoid} /\ r.exact = <<>>
  <2>1. r = [pool |-> p, visited |-> {Medoid}, exact |-> <<>>, reads |-> 0]
    BY <1>1 DEF SearchSeed, p, c
  <2> HIDE DEF p
  <2> QED
    BY <2>1
<1>4. p \in Seq(Cand) /\ DOMAIN p = {1} /\ p[1] = c /\ Len(p) = 1
  BY <1>2
<1> HIDE DEF p
<1>5. b \in Beam /\ b.visited = {Medoid} /\ b.pool = p
  BY <1>4, BeamAssumption DEF Beam
<1> HIDE DEF b
<1>6. Tidy(b, {})
  BY <1>2, <1>4, <1>5 DEF Tidy
<1>7. NearestOf(p, load.route[q], {Medoid}, Ef)
  <2>1. Len(p) <= Ef
    BY <1>4, BeamAssumption
  <2>2. \A i, j \in DOMAIN p : ~ (i < j)
    BY <1>4
  <2> QED
    BY <1>2, <1>4, <2>1, <2>2, Zenon DEF NearestOf
<1>8. NearestOf(<<>>, load.exact[q], {}, K)
  <2>1. DOMAIN <<>> = {} /\ Len(<<>>) <= K
    BY EmptySeq, BeamAssumption
  <2> QED
    BY <2>1, Zenon DEF NearestOf
<1>9. Tidy([visited |-> r.visited, pool |-> r.pool], {})
  BY <1>3, <1>6 DEF b
<1> QED
  BY <1>3, <1>7, <1>8, <1>9, Zenon DEF HasExpanded, r

\* A round expands its frontier: it visits the neighbours, ranks the nodes.
LEMMA RoundExpanded ==
  ASSUME NEW load \in Workload, NEW q \in Queries,
         NEW n \in Nat, n < Cardinality(Nodes), NEW E, HasExpanded(load, q, n, E)
  PROVE  LET s == Rounds(load, q)[n]
             t == Rounds(load, q)[n + 1]
             f == Frontier(s.pool)
         IN  /\ s \in Search /\ t \in Search
             /\ t.visited = s.visited \cup NeighboursOf(load, ToSet(f))
             /\ t.reads = s.reads + Len(f)
             /\ HasExpanded(load, q, n + 1, E \cup ToSet(f))
<1> DEFINE s == Rounds(load, q)[n]
           t == Rounds(load, q)[n + 1]
           f == Frontier(s.pool)
           m == MarkExpanded(s.pool)
           nbs == Collected(load, f)
           v == Explored(load, q, s.visited, s.pool)
           F == E \cup ToSet(f)
<1>0. Cardinality(Nodes) \in Nat
  BY BeamAssumption, FS_CardinalityType
<1>1. n \in 0 .. Cardinality(Nodes) /\ n + 1 \in 1 .. Cardinality(Nodes) /\ (n + 1) - 1 = n
  BY <1>0
<1>2. s \in Search
  BY <1>1, RoundsFacts
<1>3. t = SearchRound(load, q)[s]
  <2>1. t = SearchRound(load, q)[Rounds(load, q)[(n + 1) - 1]]
    BY <1>1, RoundsStates
  <2> QED
    BY <1>1, <2>1
<1>4. /\ Tidy([visited |-> s.visited, pool |-> s.pool], E)
      /\ NearestOf(s.pool, load.route[q], s.visited, Ef)
      /\ NearestOf(s.exact, load.exact[q], E, K)
  BY DEF HasExpanded
<1> HIDE DEF s
<1>5. /\ t \in Search
      /\ t = [pool |-> v.pool, visited |-> v.visited,
              exact |-> Ranked(load, q, s.exact, f), reads |-> s.reads + Len(f)]
      /\ [visited |-> t.visited, pool |-> t.pool] = v
  BY <1>2, <1>3, SearchRoundFacts
<1>6. /\ t.pool = v.pool /\ t.visited = v.visited
      /\ t.exact = Ranked(load, q, s.exact, f) /\ t.reads = s.reads + Len(f)
  BY <1>5
<1> HIDE DEF t
<1>7. /\ s.visited \in SUBSET Nodes /\ s.pool \in Seq(Cand) /\ s.exact \in Seq(Scored)
      /\ load.route[q] \in [Nodes -> Nat]
      /\ E \in SUBSET Nodes
  <2>1. s.visited \in SUBSET Nodes /\ s.pool \in Seq(Cand) /\ s.exact \in Seq(Scored)
    BY <1>2 DEF Search
  <2>2. E \subseteq s.visited
    BY <1>4 DEF Tidy
  <2> QED
    BY <2>1, <2>2 DEF Workload
<1>8. /\ f \in Seq(Nodes)
      /\ \A i \in DOMAIN f : f[i] \notin E
      /\ \A i, j \in DOMAIN f : f[i] = f[j] => i = j
  <2>1. PICK visited \in SUBSET Nodes : visited = s.visited
    BY <1>7
  <2>2. PICK pool \in Seq(Cand) : pool = s.pool
    BY <1>7
  <2>3. Tidy([visited |-> visited, pool |-> pool], E)
    BY <1>4, <2>1, <2>2, Zenon
  <2>4. /\ Frontier(pool) \in Seq(Nodes)
        /\ \A i \in DOMAIN Frontier(pool) : Frontier(pool)[i] \notin E
        /\ \A i, j \in DOMAIN Frontier(pool) : Frontier(pool)[i] = Frontier(pool)[j] => i = j
    BY <2>3, FrontierNew
  <2> QED
    BY <2>2, <2>4, Zenon
<1>9. m \in Seq(Cand) /\ NearestOf(m, load.route[q], s.visited, Ef)
  BY <1>4, <1>7, MarkExpandedFacts, MarkExpandedNearest
<1>10. nbs \in Seq(Nodes) /\ ToSet(nbs) = NeighboursOf(load, ToSet(f))
  BY <1>8, CollectedType, CollectedNodes
<1>11. v = Integrate(s.visited, m, load.route[q], nbs)
  BY DEF Explored
<1>12. Tidy(v, F)
  <2>1. Tidy([visited |-> s.visited, pool |-> m], F)
    BY <1>4, <1>7, RoundExpands
  <2> QED
    BY <1>7, <2>1, ExploredFacts
<1> HIDE DEF f, m, nbs, v, F
<1>13. v.visited = s.visited \cup ToSet(nbs) /\ NearestOf(v.pool, load.route[q], v.visited, Ef)
  <2>1. PICK visited \in SUBSET Nodes : visited = s.visited
    BY <1>7
  <2>2. PICK route \in [Nodes -> Nat] : route = load.route[q]
    BY <1>7
  <2>3. NearestOf(m, route, visited, Ef) /\ v = Integrate(visited, m, route, nbs)
    BY <1>9, <1>11, <2>1, <2>2, Zenon
  <2>4. v.visited = visited \cup ToSet(nbs) /\ NearestOf(v.pool, route, v.visited, Ef)
    BY <1>9, <1>10, <2>3, IntegrateNearest
  <2> QED
    BY <2>1, <2>2, <2>4, Zenon
<1>14. NearestOf(Ranked(load, q, s.exact, f), load.exact[q], F, K)
  BY <1>4, <1>7, <1>8, RankedNearest DEF F
<1>15. HasExpanded(load, q, n + 1, F)
  <2>1. /\ Tidy([visited |-> t.visited, pool |-> t.pool], F)
        /\ NearestOf(t.pool, load.route[q], t.visited, Ef)
        /\ NearestOf(t.exact, load.exact[q], F, K)
    BY <1>5, <1>6, <1>12, <1>13, <1>14, Zenon
  <2> QED
    BY <2>1, Zenon DEF HasExpanded, t
<1>16. t.visited = s.visited \cup NeighboursOf(load, ToSet(f))
  BY <1>6, <1>10, <1>13, Zenon
<1> QED
  BY <1>2, <1>5, <1>6, <1>15, <1>16, Zenon DEF s, t, f, F

\* No two nodes are equally far.
Differ(dist) == \A a, b \in Nodes : dist[a] = dist[b] => a = b

\* Where no two nodes are equally far from the query, a round ends in one state,
\* in whatever order its nodes are scored and their neighbours collected: one
\* pool and one top are the nearest of the nodes they are chosen from.
LEMMA SameRound ==
  ASSUME NEW load \in Workload, NEW q \in Queries,
         Differ(load.route[q]), Differ(load.exact[q]),
         NEW n \in Nat, n < Cardinality(Nodes), NEW E, HasExpanded(load, q, n, E),
         NEW nbs \in Seq(Nodes), NEW top \in Seq(Scored),
         ToSet(nbs) = NeighboursOf(load, ToSet(Frontier(Rounds(load, q)[n].pool))),
         NearestOf(top, load.exact[q], E \cup ToSet(Frontier(Rounds(load, q)[n].pool)), K)
  PROVE  LET s == Rounds(load, q)[n]
             t == Rounds(load, q)[n + 1]
             v == Integrate(s.visited, MarkExpanded(s.pool), load.route[q], nbs)
         IN  v.visited = t.visited /\ v.pool = t.pool /\ top = t.exact
<1> DEFINE s == Rounds(load, q)[n]
           t == Rounds(load, q)[n + 1]
           m == MarkExpanded(s.pool)
           v == Integrate(s.visited, m, load.route[q], nbs)
           w == [visited |-> t.visited, pool |-> t.pool]
           f == Frontier(s.pool)
           F == E \cup ToSet(f)
<1>1. /\ s \in Search /\ t \in Search
      /\ t.visited = s.visited \cup NeighboursOf(load, ToSet(f))
      /\ HasExpanded(load, q, n + 1, F)
  BY RoundExpanded
<1>2. /\ Tidy([visited |-> s.visited, pool |-> s.pool], E)
      /\ NearestOf(s.pool, load.route[q], s.visited, Ef)
  BY DEF HasExpanded
<1>3. Tidy(w, F) /\ NearestOf(t.pool, load.route[q], t.visited, Ef)
      /\ NearestOf(t.exact, load.exact[q], F, K)
  BY <1>1 DEF HasExpanded
<1> HIDE DEF t
<1>4. /\ f = Frontier(s.pool)
      /\ ToSet(nbs) = NeighboursOf(load, ToSet(f)) /\ NearestOf(top, load.exact[q], F, K)
  OBVIOUS
<1> HIDE DEF s, f
<1>5. /\ s.visited \in SUBSET Nodes /\ s.pool \in Seq(Cand)
      /\ t.visited \in SUBSET Nodes /\ t.pool \in Seq(Cand) /\ t.exact \in Seq(Scored)
      /\ load.route[q] \in [Nodes -> Nat] /\ load.exact[q] \in [Nodes -> Nat]
  BY <1>1 DEF Search, Workload
<1>6. m \in Seq(Cand) /\ NearestOf(m, load.route[q], s.visited, Ef)
  BY <1>2, <1>5, MarkExpandedFacts, MarkExpandedNearest
<1>7. Tidy([visited |-> s.visited, pool |-> m], F) /\ F \subseteq Nodes
  BY <1>2, <1>4, <1>5, RoundExpands
<1>8. w \in Beam /\ w.visited = t.visited /\ w.pool = t.pool
  BY <1>5 DEF Beam
<1> HIDE DEF m, w, F
<1>9. v \in Beam /\ Tidy(v, F)
  BY <1>5, <1>6, <1>7, IntegrateFacts
<1>10. v.visited = s.visited \cup ToSet(nbs) /\ NearestOf(v.pool, load.route[q], v.visited, Ef)
  BY <1>5, <1>6, IntegrateNearest
<1> HIDE DEF v
<1>11. v.visited = w.visited /\ NearestOf(w.pool, load.route[q], w.visited, Ef)
  BY <1>1, <1>3, <1>4, <1>8, <1>10, Zenon
<1>12. v = w
  <2>1. PICK dist \in [Nodes -> Nat] : dist = load.route[q]
    BY <1>5
  <2>2. /\ NearestOf(v.pool, dist, v.visited, Ef) /\ NearestOf(w.pool, dist, w.visited, Ef)
        /\ \A a, b \in Nodes : dist[a] = dist[b] => a = b
    BY <1>10, <1>11, <2>1, Zenon DEF Differ
  <2> QED
    BY <1>3, <1>8, <1>9, <1>11, <2>2, BeamUnique
<1>13. top = t.exact
  <2>1. PICK dist \in [Nodes -> Nat] : dist = load.exact[q]
    BY <1>5
  <2>2. /\ NearestOf(top, dist, F, K) /\ NearestOf(t.exact, dist, F, K)
        /\ \A a, b \in Nodes : dist[a] = dist[b] => a = b
    BY <1>3, <1>4, <2>1, Zenon DEF F, Differ
  <2> QED
    BY <1>5, <1>7, <2>2, TopUnique
<1>14. v.visited = t.visited /\ v.pool = t.pool
  BY <1>8, <1>12, Zenon
<1> QED
  BY <1>13, <1>14, Zenon DEF s, t, m, v

\* The nodes whose rounds are over: the frontiers of the first n rounds.
ExpandedIn(load, q, n) == UNION {ToSet(Frontier(Rounds(load, q)[i].pool)) : i \in 0 .. n - 1}

\* After any number of rounds of beam_search the pool is the ef nodes nearest to the
\* query, by the distances it is routed with, of all those it has visited, and the
\* top the k nearest by the exact distances, nearest first, of all the nodes in the
\* frontiers of its rounds, those the pool has dropped since included: the insertion
\* that drops a candidate beyond ef, the heap that drops its worst, the neighbours
\* scored once, lose none that belongs there.
THEOREM PoolsNearest ==
  ASSUME NEW load \in Workload, NEW q \in Queries
  PROVE  \A n \in 0 .. Cardinality(Nodes) : HasExpanded(load, q, n, ExpandedIn(load, q, n))
<1> DEFINE last == Cardinality(Nodes)
           G == {n \in 0 .. last : HasExpanded(load, q, n, ExpandedIn(load, q, n))}
<1>1. last \in Nat
  BY BeamAssumption, FS_CardinalityType
<1>2. 0 \in G
  <2>1. ExpandedIn(load, q, 0) = {}
    BY DEF ExpandedIn
  <2> QED
    BY <1>1, <2>1, SeedExpanded
<1>3. ASSUME NEW i \in 1 .. last, i - 1 \in G PROVE i \in G
  <2>1. PICK n \in Nat : n = i - 1
    BY <1>1
  <2>2. n < last /\ n + 1 = i
    BY <1>1, <2>1
  <2> DEFINE round == ToSet(Frontier(Rounds(load, q)[n].pool))
  <2>3. HasExpanded(load, q, n, ExpandedIn(load, q, n))
    BY <1>3, <2>1
  <2>4. HasExpanded(load, q, n + 1, ExpandedIn(load, q, n) \cup round)
    BY <2>2, <2>3, RoundExpanded
  <2>5. ExpandedIn(load, q, n + 1) = ExpandedIn(load, q, n) \cup round
    <3> DEFINE F(m) == ToSet(Frontier(Rounds(load, q)[m].pool))
    <3>1. \A m : m \in 0 .. (n + 1) - 1 <=> m \in 0 .. n - 1 \/ m = n
      OBVIOUS
    <3>2. /\ ExpandedIn(load, q, n + 1) = UNION {F(m) : m \in 0 .. (n + 1) - 1}
          /\ ExpandedIn(load, q, n) = UNION {F(m) : m \in 0 .. n - 1}
          /\ round = F(n)
      BY DEF ExpandedIn
    <3> HIDE DEF F, round
    <3>3. \A x : x \in ExpandedIn(load, q, n + 1) <=> x \in ExpandedIn(load, q, n) \/ x \in round
      BY <3>1, <3>2
    <3> QED
      BY <3>3
  <2>6. i \in 0 .. last
    BY <1>1, <1>3
  <2> QED
    BY <2>2, <2>4, <2>5, <2>6, Zenon
<1>4. \A i \in 0 .. last : i \in G
  <2> HIDE DEF last, G
  <2> QED
    BY <1>1, <1>2, <1>3, UpTo
<1> QED
  BY <1>4

-----------------------------------------------------------------------------
\* Numbers that are all different are as many as their places.
LEMMA DistinctCount ==
  ASSUME NEW n \in Nat, NEW f, \A i, j \in 1 .. n : f[i] = f[j] => i = j,
         NEW T, \A x : x \in T <=> \E i \in 1 .. n : x = f[i]
  PROVE  IsFiniteSet(T) /\ Cardinality(T) = n
<1> DEFINE A == 1 .. n
           g == [i \in A |-> f[i]]
<1>1. IsFiniteSet(A) /\ Cardinality(A) = n
  <2>1. /\ IsFiniteSet(1 .. n)
        /\ Cardinality(1 .. n) = IF 1 > n THEN 0 ELSE n - 1 + 1
    BY FS_Interval
  <2> QED
    BY <2>1
<1>2. \A i \in A : g[i] = f[i] /\ g[i] \in T
  OBVIOUS
<1>3. g \in [A -> T] /\ \A b \in T : \E a \in A : g[a] = b
  OBVIOUS
<1>4. \A a, b \in A : g[a] = g[b] => a = b
  BY <1>2
<1> HIDE DEF A, g
<1>5. ExistsBijection(A, T)
  BY <1>3, <1>4 DEF ExistsBijection, Bijection, Injection, IsInjective, Surjection
<1> QED
  BY <1>1, <1>5, FS_Bijection

\* The nearest are as many as the places they are in, and no more than there are.
IdsOf(s) == {s[i].id : i \in DOMAIN s}

LEMMA NearestCount ==
  ASSUME NEW S, NEW s \in Seq(S), NEW dist, NEW V, NEW m, NearestOf(s, dist, V, m)
  PROVE  IsFiniteSet(IdsOf(s)) /\ Cardinality(IdsOf(s)) = Len(s) /\ IdsOf(s) \subseteq V
<1> DEFINE f == [i \in 1 .. Len(s) |-> s[i].id]
<1>1. Len(s) \in Nat /\ DOMAIN s = 1 .. Len(s)
  OBVIOUS
<1>2. \A i \in 1 .. Len(s) : f[i] = s[i].id
  OBVIOUS
<1>3. /\ \A i \in DOMAIN s : s[i].id \in V
      /\ \A i, j \in DOMAIN s : s[i].id = s[j].id => i = j
  BY DEF NearestOf
<1> HIDE DEF f
<1>4. \A i, j \in 1 .. Len(s) : f[i] = f[j] => i = j
  BY <1>1, <1>2, <1>3
<1>5. \A x : x \in IdsOf(s) <=> \E i \in 1 .. Len(s) : x = f[i]
  BY <1>1, <1>2 DEF IdsOf
<1>6. IsFiniteSet(IdsOf(s)) /\ Cardinality(IdsOf(s)) = Len(s)
  BY <1>1, <1>4, <1>5, DistinctCount
<1>7. IdsOf(s) \subseteq V
  BY <1>3 DEF IdsOf
<1> QED
  BY <1>6, <1>7

\* With room for all, all are there.
LEMMA NearestAll ==
  ASSUME NEW S, NEW s \in Seq(S), NEW dist, NEW V \in SUBSET Nodes, NEW m \in Nat,
         NearestOf(s, dist, V, m), m >= Cardinality(Nodes)
  PROVE  \A n \in V : \E i \in DOMAIN s : s[i].id = n
<1> DEFINE T == IdsOf(s)
<1>1. \A x : x \in T <=> \E i \in DOMAIN s : x = s[i].id
  BY DEF IdsOf
<1>2. IsFiniteSet(T) /\ Cardinality(T) = Len(s) /\ T \subseteq V /\ Len(s) \in Nat
  BY NearestCount
<1> HIDE DEF T
<1>3. IsFiniteSet(Nodes) /\ Cardinality(Nodes) \in Nat
  BY BeamAssumption, FS_CardinalityType
<1>4. ASSUME NEW n \in V, ~ \E i \in DOMAIN s : s[i].id = n
      PROVE  FALSE
  <2>1. Len(s) = m
    BY <1>4 DEF NearestOf
  <2>2. T \in SUBSET Nodes
    BY <1>2
  <2>3. Cardinality(T) <= Cardinality(Nodes) /\ (Cardinality(Nodes) = Cardinality(T) => Nodes = T)
    BY <1>3, <2>2, FS_Subset
  <2>4. Nodes = T
    BY <1>2, <1>3, <2>1, <2>3
  <2> QED
    BY <1>1, <1>4, <2>4
<1> QED
  BY <1>4

\* What is nearest of a set is nearest of any part of it that has it all.
LEMMA NearestWithin ==
  ASSUME NEW s, NEW dist, NEW V, NEW m, NearestOf(s, dist, V, m),
         NEW U \in SUBSET V, \A i \in DOMAIN s : s[i].id \in U
  PROVE  NearestOf(s, dist, U, m)
BY DEF NearestOf

\* Of two sequences of the nearest, the one is as far as the other has places
\* and nowhere farther, however the nodes tie.
LEMMA NearestNoWorse ==
  ASSUME NEW S, NEW s \in Seq(S), NEW t \in Seq(S), NEW dist \in [Nodes -> Nat],
         NEW V \in SUBSET Nodes, NEW m \in Nat,
         NearestOf(s, dist, V, m), NearestOf(t, dist, V, m), NEW i \in DOMAIN s
  PROVE  i \in DOMAIN t /\ t[i].dist <= s[i].dist
<1>1. /\ Len(s) \in Nat /\ DOMAIN s = 1 .. Len(s)
      /\ Len(t) \in Nat /\ DOMAIN t = 1 .. Len(t)
      /\ \A n \in V : dist[n] \in Nat
  BY LenProperties
<1>2. /\ Len(s) <= m
      /\ \A j \in DOMAIN s : s[j].id \in V /\ s[j].dist = dist[s[j].id]
      /\ \A j, l \in DOMAIN s : j < l => s[j].dist <= s[l].dist
      /\ \A j, l \in DOMAIN s : s[j].id = s[l].id => j = l
  BY DEF NearestOf
<1>3. /\ Len(t) <= m
      /\ \A j \in DOMAIN t : t[j].id \in V /\ t[j].dist = dist[t[j].id]
      /\ \A j, l \in DOMAIN t : j < l => t[j].dist <= t[l].dist
      /\ \A j, l \in DOMAIN t : t[j].id = t[l].id => j = l
      /\ \A n \in V : (\E j \in DOMAIN t : t[j].id = n)
                      \/ (Len(t) = m /\ \A j \in DOMAIN t : t[j].dist <= dist[n])
  BY DEF NearestOf
<1>4. i \in Nat /\ i >= 1 /\ i <= Len(s)
  BY <1>1
<1> DEFINE h == IF Len(t) < i - 1 THEN Len(t) ELSE i - 1
           f == [j \in 1 .. i |-> s[j].id]
           g == [j \in 1 .. h |-> t[j].id]
           A == {f[j] : j \in 1 .. i}
           B == {g[j] : j \in 1 .. h}
<1>5. /\ h \in Nat /\ h < i /\ \A j \in 1 .. h : j \in DOMAIN t /\ g[j] = t[j].id
      /\ \A j \in 1 .. i : j \in DOMAIN s /\ f[j] = s[j].id
      /\ \A j \in DOMAIN t : j < i => j \in 1 .. h
  BY <1>1, <1>4
<1> HIDE DEF h, f, g
<1>6. IsFiniteSet(A) /\ Cardinality(A) = i
  <2>1. \A j, l \in 1 .. i : f[j] = f[l] => j = l
    BY <1>2, <1>5
  <2>2. \A x : x \in A <=> \E j \in 1 .. i : x = f[j]
    OBVIOUS
  <2> HIDE DEF A
  <2> QED
    BY <1>4, <2>1, <2>2, DistinctCount
<1>7. IsFiniteSet(B) /\ Cardinality(B) = h
  <2>1. \A j, l \in 1 .. h : g[j] = g[l] => j = l
    BY <1>3, <1>5
  <2>2. \A x : x \in B <=> \E j \in 1 .. h : x = g[j]
    OBVIOUS
  <2> HIDE DEF B
  <2>3. h \in Nat
    BY <1>5
  <2>4. PICK c, G : c = h /\ G = g
    OBVIOUS
  <2>5. /\ c \in Nat /\ \A j, l \in 1 .. c : G[j] = G[l] => j = l
        /\ \A x : x \in B <=> \E j \in 1 .. c : x = G[j]
    BY <2>1, <2>2, <2>3, <2>4
  <2>6. IsFiniteSet(B) /\ Cardinality(B) = c
    BY <2>5, DistinctCount
  <2> QED
    BY <2>4, <2>6
<1>8. PICK n : n \in A /\ n \notin B
  <2> SUFFICES ASSUME A \subseteq B PROVE FALSE
    OBVIOUS
  <2> HIDE DEF A, B
  <2>1. Cardinality(A) <= Cardinality(B)
    BY <1>7, FS_Subset
  <2> QED
    BY <1>4, <1>5, <1>6, <1>7, <2>1
<1>9. PICK k \in 1 .. i : n = s[k].id
  BY <1>5, <1>8
<1>10. n \in V /\ s[k].dist = dist[n] /\ dist[n] \in Nat /\ s[i].dist \in Nat /\ dist[n] <= s[i].dist
  <2>1. k \in DOMAIN s /\ s[k].id \in V /\ s[k].dist = dist[s[k].id] /\ s[i].id \in V /\ s[i].dist = dist[s[i].id]
    BY <1>2, <1>5, <1>9
  <2>2. k = i \/ k < i
    BY <1>4
  <2> QED
    BY <1>1, <1>2, <1>9, <2>1, <2>2
<1>11. \A j \in DOMAIN t : j < i => t[j].id # n
  BY <1>5, <1>8
<1>12. CASE \E j \in DOMAIN t : t[j].id = n
  <2>1. PICK j \in DOMAIN t : t[j].id = n
    BY <1>12
  <2>2. j >= i /\ j \in Nat /\ j <= Len(t)
    BY <1>1, <1>4, <1>11, <2>1
  <2>3. i \in DOMAIN t
    BY SMTT(30), <1>1, <1>4, <2>2
  <2>4. t[j].dist = dist[n] /\ t[i].dist \in Nat
    BY <1>1, <1>3, <2>1, <2>3
  <2>5. t[i].dist <= t[j].dist
    <3>1. CASE i = j
      BY <2>4, <3>1
    <3>2. CASE i # j
      <4>1. i < j
        BY <1>4, <2>2, <3>2
      <4> QED
        BY <1>3, <2>3, <4>1
    <3> QED
      BY <3>1, <3>2
  <2> QED
    BY <1>10, <2>3, <2>4, <2>5
<1>13. CASE ~ \E j \in DOMAIN t : t[j].id = n
  <2>1. Len(t) = m /\ \A j \in DOMAIN t : t[j].dist <= dist[n]
    BY <1>3, <1>10, <1>13
  <2>2. i \in DOMAIN t
    BY <1>1, <1>2, <1>4, <2>1
  <2>3. t[i].dist \in Nat /\ t[i].dist <= dist[n]
    BY <1>1, <1>3, <2>1, <2>2
  <2> QED
    BY <1>10, <2>2, <2>3
<1> QED
  BY <1>12, <1>13

\* So any two are equally long, and equally far at every place.
LEMMA NearestDistances ==
  ASSUME NEW S, NEW s \in Seq(S), NEW t \in Seq(S), NEW dist \in [Nodes -> Nat],
         NEW V \in SUBSET Nodes, NEW m \in Nat,
         NearestOf(s, dist, V, m), NearestOf(t, dist, V, m)
  PROVE  DOMAIN s = DOMAIN t /\ \A i \in DOMAIN s : s[i].dist = t[i].dist
<1>1. \A i \in DOMAIN s : i \in DOMAIN t /\ t[i].dist <= s[i].dist
  BY NearestNoWorse
<1>2. \A i \in DOMAIN t : i \in DOMAIN s /\ s[i].dist <= t[i].dist
  BY NearestNoWorse
<1>3. DOMAIN s = DOMAIN t
  BY <1>1, <1>2
<1>4. \A i \in DOMAIN s : s[i].dist \in Nat /\ t[i].dist \in Nat
  <2>1. \A n \in V : dist[n] \in Nat
    OBVIOUS
  <2> QED
    BY <1>3, <2>1 DEF NearestOf
<1> QED
  BY <1>1, <1>2, <1>3, <1>4

-----------------------------------------------------------------------------
\* F pushes at most one node more, so that U are pushed when V were.
Pushes(F, dist, V, U) ==
  \A t \in Seq(Scored) :
    \/ U = V /\ F[t] = t
    \/ \E id \in Nodes \ V : U = V \cup {id} /\ F[t] = TopPush(t, dist[id], id)

\* A loop of pushes leaves the nearest of all that were pushed.
LEMMA PushedNearest ==
  ASSUME NEW A, NEW seq \in Seq(A), NEW dist \in [Nodes -> Nat], NEW step, NEW top \in Seq(Scored),
         NEW P, \A i \in 0 .. Len(seq) : P[i] \in SUBSET Nodes,
         NearestOf(top, dist, P[0], K),
         \A i \in 1 .. Len(seq) : Pushes(step[seq[i]], dist, P[i - 1], P[i])
  PROVE  /\ Loop(step, top, seq) \in Seq(Scored)
         /\ NearestOf(Loop(step, top, seq), dist, P[Len(seq)], K)
<1> DEFINE n == Len(seq)
           Good == [i \in 0 .. n |-> {t \in Seq(Scored) : NearestOf(t, dist, P[i], K)}]
<1>1. n \in Nat /\ 0 \in 0 .. n /\ n \in 0 .. n /\ \A i \in 1 .. n : i \in 0 .. n /\ i - 1 \in 0 .. n
  OBVIOUS
<1>2. \A i \in 0 .. n : \A t : t \in Good[i] <=> t \in Seq(Scored) /\ NearestOf(t, dist, P[i], K)
  OBVIOUS
<1> HIDE DEF Good
<1>3. top \in Good[0]
  BY <1>1, <1>2
<1>4. ASSUME NEW i \in 1 .. n, NEW t \in Good[i - 1] PROVE step[seq[i]][t] \in Good[i]
  <2>1. t \in Seq(Scored) /\ NearestOf(t, dist, P[i - 1], K) /\ P[i - 1] \in SUBSET Nodes
    BY <1>1, <1>2, <1>4
  <2>2. PICK V, U, F : V = P[i - 1] /\ U = P[i] /\ F = step[seq[i]]
    OBVIOUS
  <2>3. Pushes(F, dist, V, U)
    BY <2>2
  <2>4. CASE U = V /\ F[t] = t
    BY <1>1, <1>2, <2>1, <2>2, <2>4
  <2>5. CASE \E id \in Nodes \ V : U = V \cup {id} /\ F[t] = TopPush(t, dist[id], id)
    <3>1. PICK id \in Nodes \ V : U = V \cup {id} /\ F[t] = TopPush(t, dist[id], id)
      BY <2>5
    <3>2. dist[id] \in Nat
      OBVIOUS
    <3>3. NearestOf(TopPush(t, dist[id], id), dist, V \cup {id}, K)
      BY <2>1, <2>2, <3>1, TopPushNearest
    <3>4. TopPush(t, dist[id], id) \in Seq(Scored)
      BY <2>1, <3>1, <3>2, TopPushType
    <3>5. F[t] \in Seq(Scored) /\ NearestOf(F[t], dist, U, K)
      BY <3>1, <3>3, <3>4, Zenon
    <3> QED
      BY <1>1, <1>2, <2>2, <3>5
  <2> QED
    BY <2>1, <2>3, <2>4, <2>5 DEF Pushes
<1>5. Loop(step, top, seq) \in Good[n]
  BY <1>3, <1>4, LoopInvariant
<1> QED
  BY <1>1, <1>2, <1>5

\* F puts behind a sequence of V what makes one of U.
Appends(F, V, U) ==
  \A s \in Seq(Nodes) : ToSet(s) = V => F[s] \in Seq(Nodes) /\ ToSet(F[s]) = U

\* A loop that appends leaves all that was appended.
LEMMA AppendedAll ==
  ASSUME NEW A, NEW seq \in Seq(A), NEW step,
         NEW P, P[0] = {}, \A i \in 1 .. Len(seq) : Appends(step[seq[i]], P[i - 1], P[i])
  PROVE  /\ Loop(step, <<>>, seq) \in Seq(Nodes)
         /\ ToSet(Loop(step, <<>>, seq)) = P[Len(seq)]
<1> DEFINE n == Len(seq)
           Good == [i \in 0 .. n |-> {s \in Seq(Nodes) : ToSet(s) = P[i]}]
<1>1. n \in Nat /\ 0 \in 0 .. n /\ n \in 0 .. n /\ \A i \in 1 .. n : i \in 0 .. n /\ i - 1 \in 0 .. n
  OBVIOUS
<1>2. \A i \in 0 .. n : \A s : s \in Good[i] <=> s \in Seq(Nodes) /\ ToSet(s) = P[i]
  OBVIOUS
<1> HIDE DEF Good
<1>3. <<>> \in Good[0]
  <2>1. <<>> \in Seq(Nodes) /\ ToSet(<<>>) = {}
    BY EmptySeq DEF ToSet
  <2> QED
    BY <1>1, <1>2, <2>1
<1>4. ASSUME NEW i \in 1 .. n, NEW s \in Good[i - 1] PROVE step[seq[i]][s] \in Good[i]
  <2>1. s \in Seq(Nodes) /\ ToSet(s) = P[i - 1]
    BY <1>1, <1>2, <1>4
  <2>2. step[seq[i]][s] \in Seq(Nodes) /\ ToSet(step[seq[i]][s]) = P[i]
    BY <2>1 DEF Appends
  <2> QED
    BY <1>1, <1>2, <2>2
<1>5. Loop(step, <<>>, seq) \in Good[n]
  BY <1>3, <1>4, LoopInvariant
<1> QED
  BY <1>1, <1>2, <1>5

-----------------------------------------------------------------------------
\* A beam of width one expands the first place of the pool not yet expanded.
LEMMA FirstOpen ==
  ASSUME NEW pool \in Seq(Cand), W = 1
  PROVE  \/ Open(pool) = {} /\ FrontierAt(pool) = <<>>
         \/ \E i \in Open(pool) : (\A j \in Open(pool) : i <= j) /\ FrontierAt(pool) = <<i>>
<1> DEFINE n == Len(FirstOf(pool, Ef))
           seq == [i \in DOMAIN FirstOf(pool, Ef) |-> i]
           First(i) == ~ pool[i].expanded /\ \A j \in 1 .. i - 1 : pool[j].expanded
           P(at, k) ==
             \/ at = <<>> /\ \A j \in 1 .. k : pool[j].expanded
             \/ \E i \in 1 .. k : First(i) /\ at = <<i>>
           Good == [k \in 0 .. n |-> {at \in Seq(DOMAIN pool) : P(at, k)}]
<1>1. /\ Len(pool) \in Nat /\ DOMAIN pool = 1 .. Len(pool)
      /\ n \in Nat /\ n <= Len(pool) /\ DOMAIN FirstOf(pool, Ef) = 1 .. n
  BY LenProperties, FirstFacts, BeamAssumption
<1>2. \A i : i \in Open(pool) <=> i \in 1 .. n /\ ~ pool[i].expanded
  BY <1>1 DEF Open
<1> HIDE DEF n
<1>3. seq \in Seq(1 .. n) /\ Len(seq) = n /\ \A i \in 1 .. n : seq[i] = i
  <2>1. seq \in [1 .. n -> 1 .. n] /\ \A i \in 1 .. n : seq[i] = i
    BY <1>1
  <2> HIDE DEF seq
  <2> QED
    BY <1>1, <2>1, SeqOfFunction
<1>4. FrontierAt(pool) = Loop(Gather(pool), <<>>, seq)
  BY DEF FrontierAt, seq
<1> HIDE DEF seq, P, First
<1>5. \A k \in 0 .. n : \A at : at \in Good[k] <=> at \in Seq(DOMAIN pool) /\ P(at, k)
  OBVIOUS
<1> HIDE DEF Good
<1>6. <<>> \in Good[0]
  <2>1. 0 \in 0 .. n /\ <<>> \in Seq(DOMAIN pool) /\ P(<<>>, 0)
    BY <1>1 DEF P
  <2> QED
    BY <1>5, <2>1
<1>7. ASSUME NEW k \in 1 .. n, NEW at \in Good[k - 1]
      PROVE  Gather(pool)[seq[k]][at] \in Good[k]
  <2>1. k \in Nat /\ k >= 1 /\ k - 1 \in 0 .. n /\ k \in 0 .. n /\ k \in DOMAIN pool
    BY <1>1
  <2>2. at \in Seq(DOMAIN pool) /\ P(at, k - 1)
    BY <1>5, <2>1
  <2>3. Gather(pool)[seq[k]][at] = IF Len(at) = 1 \/ pool[k].expanded THEN at ELSE Append(at, k)
    BY <1>3, <2>1, <2>2 DEF Gather
  <2>4. CASE at = <<>> /\ \A j \in 1 .. k - 1 : pool[j].expanded
    <3>1. Len(at) # 1 /\ Append(at, k) = <<k>>
      BY <2>4
    <3>2. CASE pool[k].expanded
      <4>1. \A j \in 1 .. k : pool[j].expanded
        <5>1. \A j \in 1 .. k : j = k \/ j \in 1 .. k - 1
          BY <2>1
        <5> QED
          BY <2>4, <3>2, <5>1
      <4>2. P(at, k)
        BY <2>4, <4>1 DEF P
      <4> QED
        BY <1>5, <2>1, <2>2, <2>3, <3>2, <4>2
    <3>3. CASE ~ pool[k].expanded
      <4>1. First(k) /\ k \in 1 .. k
        BY <2>1, <2>4, <3>3 DEF First
      <4>2. P(<<k>>, k)
        BY <4>1 DEF P
      <4>3. Gather(pool)[seq[k]][at] = <<k>>
        BY <2>3, <3>1, <3>3
      <4>4. <<k>> \in Seq(DOMAIN pool)
        BY <2>1
      <4> QED
        BY <1>5, <2>1, <4>2, <4>3, <4>4
    <3> QED
      BY <3>2, <3>3
  <2>5. CASE \E i \in 1 .. k - 1 : First(i) /\ at = <<i>>
    <3>1. PICK i \in 1 .. k - 1 : First(i) /\ at = <<i>>
      BY <2>5
    <3>2. Len(at) = 1 /\ i \in 1 .. k
      BY <2>1, <3>1
    <3>3. P(at, k)
      BY <3>1, <3>2 DEF P
    <3> QED
      BY <1>5, <2>1, <2>2, <2>3, <3>2, <3>3
  <2> QED
    BY <2>2, <2>4, <2>5 DEF P
<1>8. FrontierAt(pool) \in Good[n]
  BY <1>3, <1>4, <1>6, <1>7, LoopInvariant
<1>9. n \in 0 .. n
  BY <1>1
<1>10. P(FrontierAt(pool), n)
  BY <1>5, <1>8, <1>9
<1>11. CASE FrontierAt(pool) = <<>> /\ \A j \in 1 .. n : pool[j].expanded
  BY <1>2, <1>11
<1>12. CASE \E i \in 1 .. n : First(i) /\ FrontierAt(pool) = <<i>>
  <2>1. PICK i \in 1 .. n : First(i) /\ FrontierAt(pool) = <<i>>
    BY <1>12
  <2>2. i \in Open(pool)
    BY <1>2, <2>1 DEF First
  <2>3. ASSUME NEW j \in Open(pool) PROVE i <= j
    <3>1. j \in 1 .. n /\ ~ pool[j].expanded
      BY <1>2
    <3>2. j \notin 1 .. i - 1
      BY <2>1, <3>1 DEF First
    <3> QED
      BY <1>1, <3>1, <3>2
  <2> QED
    BY <2>1, <2>2, <2>3
<1> QED
  BY <1>10, <1>11, <1>12 DEF P

\* A hop with nothing left to expand changes nothing.
LEMMA HopIsLast ==
  ASSUME NEW load, NEW q, NEW s \in Greedy, \A i \in DOMAIN s.pool : s.pool[i].expanded
  PROVE  Hop(load, q)[s] = s
<1>1. PICK p : p = s.pool
  OBVIOUS
<1>2. p \in Seq(Cand) /\ Ef \in Nat
  BY <1>1, BeamAssumption DEF Greedy
<1>3. DOMAIN FirstOf(p, Ef) \subseteq DOMAIN p
  BY <1>2, FirstFacts
<1>4. Open(s.pool) = {}
  BY <1>1, <1>3 DEF Open
<1> QED
  BY <1>4, Zenon DEF Hop

\* What a round of a beam of width one makes of the beam.
RoundOf(load, q, s) ==
  Integrate(s.visited, MarkExpanded(s.pool), load.route[q], load.nbrs[Frontier(s.pool)[1]])

\* So a hop of the greedy search is such a round.
LEMMA HopIsRound ==
  ASSUME W = 1, NEW load, NEW q, NEW s \in Greedy, Frontier(s.pool) # <<>>
  PROVE  /\ Len(Frontier(s.pool)) = 1
         /\ Hop(load, q)[s] = [pool |-> RoundOf(load, q, s).pool,
                               visited |-> RoundOf(load, q, s).visited,
                               expanded |-> Append(s.expanded, Frontier(s.pool)[1])]
<1> DEFINE pool == s.pool
           f == Frontier(pool)
<1>1. pool \in Seq(Cand) /\ s.visited \in SUBSET Nodes /\ s.expanded \in Seq(Nodes)
  BY DEF Greedy
<1>2. Hop(load, q)[s] =
        IF Open(pool) = {} THEN s
        ELSE LET idx  == CHOOSE i \in Open(pool) : \A j \in Open(pool) : i <= j
                 cur  == pool[idx].id
                 after == Integrate(s.visited, [pool EXCEPT ![idx].expanded = TRUE],
                                    load.route[q], load.nbrs[cur])
             IN  [pool |-> after.pool, visited |-> after.visited, expanded |-> Append(s.expanded, cur)]
  BY Zenon DEF Hop
<1>3. /\ Len(pool) \in Nat /\ DOMAIN pool = 1 .. Len(pool) /\ \A i \in DOMAIN pool : pool[i] \in Cand
      /\ Open(pool) \in SUBSET DOMAIN pool
  <2>1. Ef \in Nat
    BY BeamAssumption
  <2>2. PICK p : p = pool
    OBVIOUS
  <2>3. p \in Seq(Cand) /\ DOMAIN FirstOf(p, Ef) \subseteq DOMAIN p
    BY <1>1, <2>1, <2>2, FirstFacts
  <2> QED
    BY <2>2, <2>3, LenProperties DEF Open
<1>4. PICK p : p = pool
  OBVIOUS
<1>5. /\ p \in Seq(Cand) /\ f = Frontier(p)
      /\ Len(f) = Len(FrontierAt(p)) /\ DOMAIN f = DOMAIN FrontierAt(p)
      /\ \A j \in DOMAIN f : f[j] = p[FrontierAt(p)[j]].id
      /\ f = <<>> <=> FrontierAt(p) = <<>>
  BY <1>1, <1>4, FrontierFacts
<1>6. CASE Open(p) = {} /\ FrontierAt(p) = <<>>
  BY SMTT(30), <1>2, <1>4, <1>5, <1>6
<1>7. CASE \E i \in Open(p) : (\A j \in Open(p) : i <= j) /\ FrontierAt(p) = <<i>>
  <2>1. PICK i \in Open(p) : (\A j \in Open(p) : i <= j) /\ FrontierAt(p) = <<i>>
    BY <1>7
  <2>2. i = CHOOSE k \in Open(p) : \A j \in Open(p) : k <= j
    <3>1. \A k \in Open(p) : k \in Nat
      BY <1>3, <1>4
    <3>2. \A k \in Open(p) : (\A j \in Open(p) : k <= j) => k = i
      BY <2>1, <3>1
    <3> QED
      BY <2>1, <3>2
  <2>3. f # <<>> /\ Len(f) = 1 /\ f[1] = p[i].id
    BY <1>5, <2>1
  <2>4. MarkExpanded(p) = [p EXCEPT ![i].expanded = TRUE]
    <3>1. ToSet(FrontierAt(p)) = {i}
      BY <2>1 DEF ToSet
    <3>2. MarkExpanded(p) = [k \in DOMAIN p |-> IF k = i THEN [p[k] EXCEPT !.expanded = TRUE] ELSE p[k]]
      BY <3>1 DEF MarkExpanded
    <3> QED
      BY <3>2
  <2> QED
    BY ZenonT(60), <1>2, <1>4, <2>1, <2>2, <2>3, <2>4 DEF RoundOf
<1> QED
  BY <1>4, <1>5, <1>6, <1>7, FirstOpen

=============================================================================
