-------------------------- MODULE IndexFile_proofs --------------------------
(***************************************************************************)
(* Theorems about IndexFile, for every number of runs that overlap, every  *)
(* set of datasets of any sizes, and every number of nodes per block, and  *)
(* about DiskLayout, which its index file and DiskSearch share.            *)
(***************************************************************************)
EXTENDS IndexFile, SequenceTheorems, FiniteSetTheorems, TLAPS

Arith == INSTANCE BeamSearch_proofs WITH
  Nodes <- {0}, Queries <- {0}, Medoid <- 0, K <- 1, Ef <- 1, W <- 1

\* The constants of Arith are such as its lemmas ask for.
LEMMA ArithConstants == Arith!BeamAssumption
<1>1. \A S : Arith!IsFiniteSet(S) <=> IsFiniteSet(S)
  BY DEF Arith!IsFiniteSet, IsFiniteSet
<1> QED
  BY <1>1, FS_Singleton DEF Arith!BeamAssumption

-----------------------------------------------------------------------------
\* The blocks data_blocks counts hold all n nodes, and one fewer would not.
LEMMA BlocksSuffice ==
  ASSUME NEW n \in Nat
  PROVE  /\ DataBlocks(n) \in Nat
         /\ n <= DataBlocks(n) * Npb
         /\ DataBlocks(n) * Npb < n + Npb
<1> DEFINE a == n + Npb - 1
           d == a \div Npb
           r == a % Npb
<1>1. Npb \in Nat \ {0} /\ a \in Nat
  BY LayoutAssumption
<1>2. d \in Nat /\ r \in Nat /\ a = d * Npb + r /\ r < Npb
  BY <1>1, ArithConstants, Arith!DivisionLaw
<1>3. DataBlocks(n) = d
  BY DEF DataBlocks
<1> HIDE DEF d, r
<1>4. d * Npb \in Nat
  BY <1>1, <1>2
<1>5. n <= d * Npb /\ d * Npb < n + Npb
  BY <1>1, <1>2, <1>4
<1> QED
  BY <1>2, <1>3, <1>5

-----------------------------------------------------------------------------
\* DiskIndex::locate names, for every node, a block the file has, a slot the
\* writer has filled, and the slot it has put that node in.
THEOREM LocateFindsNode ==
  ASSUME NEW n \in Nat, NEW node \in 0 .. n - 1
  PROVE  LET place == Locate(node) IN
         /\ place.block \in 1 .. DataBlocks(n)
         /\ place.slot + 1 \in DOMAIN NodesOf(n, place.block)
         /\ NodesOf(n, place.block)[place.slot + 1] = node
<1> DEFINE q == node \div Npb
           s == node % Npb
           d == DataBlocks(n)
<1>1. Npb \in Nat \ {0} /\ node \in Nat /\ node < n
  BY LayoutAssumption
<1>2. q \in Nat /\ s \in Nat /\ node = q * Npb + s /\ s < Npb
  BY <1>1, ArithConstants, Arith!DivisionLaw
<1>3. Locate(node) = [block |-> 1 + q, slot |-> s]
  BY DEF Locate
<1>4. d \in Nat /\ n <= d * Npb
  BY BlocksSuffice
<1> HIDE DEF q, s, d
<1>5. q * Npb \in Nat /\ d * Npb \in Nat /\ (1 + q) * Npb = q * Npb + Npb
  BY <1>1, <1>2, <1>4
<1>6. 1 + q \in 1 .. d
  <2>1. SUFFICES ASSUME d <= q PROVE FALSE
    BY <1>2, <1>4
  <2>2. d * Npb <= q * Npb
    BY <2>1, <1>1, <1>2, <1>4, ArithConstants, Arith!TimesMonotone
  <2> QED
    BY <2>2, <1>1, <1>2, <1>4, <1>5
<1>7. (1 + q) - 1 = q
  BY <1>2
<1>8. DOMAIN NodesOf(n, 1 + q) = 1 .. (IF q * Npb + Npb <= n THEN Npb ELSE n - q * Npb)
  BY <1>5, <1>7 DEF NodesOf
<1>9. s + 1 \in DOMAIN NodesOf(n, 1 + q)
  BY <1>1, <1>2, <1>5, <1>8
<1>10. NodesOf(n, 1 + q)[s + 1] = q * Npb + (s + 1) - 1
  BY <1>5, <1>7, <1>8, <1>9 DEF NodesOf
<1>11. NodesOf(n, 1 + q)[s + 1] = node
  BY <1>2, <1>5, <1>10
<1> QED
  BY <1>3, <1>6, <1>9, <1>11 DEF d

\* Whatever slot the writer fills holds a node of the base, and locate sends
\* searches for that node there: no node is in two places.
THEOREM SlotIsLocated ==
  ASSUME NEW n \in Nat, NEW i \in 1 .. DataBlocks(n), NEW s \in DOMAIN NodesOf(n, i)
  PROVE  /\ NodesOf(n, i)[s] \in 0 .. n - 1
         /\ Locate(NodesOf(n, i)[s]) = [block |-> i, slot |-> s - 1]
<1> DEFINE q == i - 1
           size == IF i * Npb <= n THEN Npb ELSE n - q * Npb
<1>1. Npb \in Nat \ {0} /\ i \in Nat /\ q \in Nat /\ i = q + 1
  BY LayoutAssumption, BlocksSuffice
<1> HIDE DEF q
<1>2. i * Npb = q * Npb + Npb /\ q * Npb \in Nat
  BY <1>1
<1>3. NodesOf(n, i) = [t \in 1 .. size |-> q * Npb + t - 1]
  BY DEF NodesOf, q
<1>4. s \in 1 .. size
  BY <1>3
<1>5. s \in Nat /\ s >= 1 /\ s <= Npb /\ q * Npb + s <= n
  BY <1>1, <1>2, <1>4
<1>6. NodesOf(n, i)[s] = q * Npb + (s - 1)
  <2>1. NodesOf(n, i)[s] = q * Npb + s - 1
    BY <1>3, <1>4
  <2> QED
    BY <2>1, <1>2, <1>5
<1>7. s - 1 \in Nat /\ s - 1 < Npb
  BY <1>1, <1>5
<1>8. NodesOf(n, i)[s] \in 0 .. n - 1
  BY <1>2, <1>5, <1>6, <1>7
<1>9. NodesOf(n, i)[s] \div Npb = q /\ (NodesOf(n, i)[s] % Npb) = s - 1
  BY <1>1, <1>6, <1>7, ArithConstants, Arith!DivisionUnique
<1> QED
  BY <1>1, <1>8, <1>9 DEF Locate

-----------------------------------------------------------------------------

\* The first nodes of the blocks, 0, Npb, 2 Npb and so on below n.
Firsts(n) == {first \in 0 .. n - 1 : (first % Npb) = 0}

\* The writer's loop makes as many blocks as data_blocks counts.
LEMMA BlocksCounted ==
  ASSUME NEW n \in Nat
  PROVE  Cardinality(Firsts(n)) = DataBlocks(n)
<1> DEFINE d == DataBlocks(n)
           f == [q \in 0 .. d - 1 |-> q * Npb]
<1>1. /\ Npb \in Nat \ {0} /\ d \in Nat
      /\ n <= d * Npb /\ d * Npb < n + Npb
  BY LayoutAssumption, BlocksSuffice
<1>2. f \in [0 .. d - 1 -> Firsts(n)]
  <2> SUFFICES ASSUME NEW q \in 0 .. d - 1 PROVE q * Npb \in Firsts(n)
    OBVIOUS
  <2>1. q \in Nat /\ q + 1 <= d
    BY <1>1
  <2>2. (q + 1) * Npb <= d * Npb
    BY <1>1, <2>1, ArithConstants, Arith!TimesMonotone
  <2>3. q * Npb \in Nat /\ (q + 1) * Npb = q * Npb + Npb /\ d * Npb \in Nat
    BY <1>1, <2>1
  <2>4. q * Npb \in 0 .. n - 1
    BY <1>1, <2>2, <2>3
  <2>5. ((q * Npb + 0) % Npb) = 0
    BY <1>1, <2>1, ArithConstants, Arith!DivisionUnique
  <2>6. q * Npb + 0 = q * Npb
    BY <2>3
  <2> QED
    BY <2>4, <2>5, <2>6 DEF Firsts
<1>3. \A p, q \in 0 .. d - 1 : f[p] = f[q] => p = q
  <2> SUFFICES ASSUME NEW p \in 0 .. d - 1, NEW q \in 0 .. d - 1, p * Npb = q * Npb PROVE p = q
    OBVIOUS
  <2>1. p \in Nat /\ q \in Nat /\ p * Npb \in Nat
    BY <1>1
  <2>2. (p * Npb + 0) \div Npb = p /\ (q * Npb + 0) \div Npb = q
    BY <1>1, <2>1, ArithConstants, Arith!DivisionUnique
  <2> QED
    BY <2>2
<1>4. \A first \in Firsts(n) : \E q \in 0 .. d - 1 : f[q] = first
  <2> SUFFICES ASSUME NEW first \in Firsts(n) PROVE \E q \in 0 .. d - 1 : q * Npb = first
    OBVIOUS
  <2> DEFINE q == first \div Npb
  <2>1. first \in 0 .. n - 1 /\ (first % Npb) = 0
    BY DEF Firsts
  <2>2. first \in Nat /\ first < n
    BY <2>1
  <2>3. q \in Nat /\ first = q * Npb + (first % Npb)
    BY <1>1, <2>2, ArithConstants, Arith!DivisionLaw
  <2> HIDE DEF q
  <2>4. q * Npb \in Nat /\ d * Npb \in Nat
    BY <1>1, <2>3
  <2>5. first = q * Npb
    BY <2>1, <2>3, <2>4
  <2>6. q < d
    <3>1. SUFFICES ASSUME d <= q PROVE FALSE
      BY <1>1, <2>3
    <3>2. d * Npb <= q * Npb
      BY <3>1, <1>1, <2>3, ArithConstants, Arith!TimesMonotone
    <3> QED
      BY <3>2, <1>1, <2>2, <2>4, <2>5
  <2> QED
    BY <1>1, <2>3, <2>5, <2>6
<1>5. IsFiniteSet(0 .. d - 1)
  BY <1>1, FS_Interval
<1>6. Cardinality(0 .. d - 1) = d
  <2>1. d \in Nat /\ 0 \in Int /\ d - 1 \in Int
    BY <1>1
  <2> HIDE DEF d
  <2>2. Cardinality(0 .. d - 1) = IF 0 > d - 1 THEN 0 ELSE d - 1 - 0 + 1
    BY <2>1, FS_Interval
  <2> QED
    BY <2>1, <2>2
<1> HIDE DEF d, f
<1>7. f \in Bijection(0 .. d - 1, Firsts(n))
  <2>1. f \in Injection(0 .. d - 1, Firsts(n))
    BY <1>2, <1>3 DEF Injection, IsInjective
  <2>2. f \in Surjection(0 .. d - 1, Firsts(n))
    BY <1>2, <1>4 DEF Surjection
  <2> QED
    BY <2>1, <2>2 DEF Bijection
<1> QED
  BY <1>5, <1>6, <1>7, FS_Bijection DEF d, ExistsBijection

\* Every block the writer fills is a sequence of nodes of the base.
LEMMA NodesTyped ==
  ASSUME NEW n \in Nat, NEW i \in 1 .. DataBlocks(n)
  PROVE  NodesOf(n, i) \in Seq(0 .. n - 1)
<1> DEFINE size == IF i * Npb <= n THEN Npb ELSE n - (i - 1) * Npb
<1>1. /\ Npb \in Nat \ {0} /\ DataBlocks(n) \in Nat /\ DataBlocks(n) * Npb < n + Npb
      /\ i \in Nat /\ i <= DataBlocks(n)
  BY LayoutAssumption, BlocksSuffice
<1>2. i * Npb <= DataBlocks(n) * Npb
  BY <1>1, ArithConstants, Arith!TimesMonotone
<1>3. i * Npb \in Nat /\ (i - 1) * Npb = i * Npb - Npb /\ DataBlocks(n) * Npb \in Nat
  BY <1>1
<1>4. size \in Nat
  BY <1>1, <1>2, <1>3
<1>5. NodesOf(n, i) = [s \in 1 .. size |-> (i - 1) * Npb + s - 1]
  BY DEF NodesOf
<1> HIDE DEF size
<1>6. \A s \in 1 .. size : NodesOf(n, i)[s] \in 0 .. n - 1
  BY <1>5, SlotIsLocated
<1>7. NodesOf(n, i) \in [1 .. size -> 0 .. n - 1]
  BY <1>5, <1>6
<1> QED
  BY <1>4, <1>7, SeqDef

\* The parts the writers make.
LEMMA PartFacts ==
  ASSUME NEW d \in Datasets, NEW what \in Kinds, NEW nodes \in Seq(0 .. Count[d] - 1)
  PROVE  /\ Part(d, what, nodes) \in AnyPart
         /\ Part(d, what, nodes).src = d
         /\ Part(d, what, nodes).what = what
         /\ Part(d, what, nodes).nodes = nodes
<1>1. Count[d] \in Nat
  BY FileAssumption
<1>2. nodes \in Seq(Nat)
  <2>1. nodes \in [1 .. Len(nodes) -> 0 .. Count[d] - 1] /\ Len(nodes) \in Nat
    BY LenProperties
  <2>2. \A i \in 1 .. Len(nodes) : nodes[i] \in Nat
    BY <1>1, <2>1
  <2>3. nodes \in [1 .. Len(nodes) -> Nat]
    BY <2>1, <2>2
  <2> QED
    BY <2>1, <2>3, SeqDef
<1> QED
  BY <1>2 DEF Part, AnyPart

\* What a part that is not a hole says of its source is true.
LEMMA SourceFacts ==
  ASSUME NEW part \in AnyPart, part.what # "hole"
  PROVE  part.src \in Datasets /\ part.what \in Kinds
BY DEF AnyPart, Hole, Part

\* A whole file: a header, and what belongs to it, all of one dataset.
LEMMA ImageFacts ==
  ASSUME NEW f \in Files, NEW src \in Datasets
  PROVE  /\ Image(f, src) \in Seq(AnyPart)
         /\ Len(Image(f, src)) \in Nat /\ Len(Image(f, src)) >= 1
         /\ DOMAIN Image(f, src) = 1 .. Len(Image(f, src))
         /\ Image(f, src)[1].what = "header" /\ Image(f, src)[1].src = src
         /\ f # "index" => Len(Image(f, src)) = 2 /\ Image(f, src)[2].src = src
         /\ f = "index" =>
              /\ Len(Image(f, src)) = 1 + DataBlocks(Count[src])
              /\ \A i \in 1 .. DataBlocks(Count[src]) :
                   Image(f, src)[1 + i].nodes = NodesOf(Count[src], i)
<1>1. Count[src] \in Nat
  BY FileAssumption
<1>0. ASSUME NEW what \in Kinds
      PROVE  /\ Part(src, what, <<>>) \in AnyPart
             /\ Part(src, what, <<>>).what = what /\ Part(src, what, <<>>).src = src
  <2> DEFINE nodes == <<>>
  <2>1. nodes \in Seq(0 .. Count[src] - 1)
    BY EmptySeq
  <2> HIDE DEF nodes
  <2>2. /\ Part(src, what, nodes) \in AnyPart
        /\ Part(src, what, nodes).what = what /\ Part(src, what, nodes).src = src
    BY <2>1, PartFacts
  <2> QED
    BY <2>2 DEF nodes
<1> DEFINE header == Part(src, "header", <<>>)
<1>2. header \in AnyPart /\ header.what = "header" /\ header.src = src
  <2>1. "header" \in Kinds
    BY DEF Kinds
  <2> QED
    BY <1>0, <2>1
<1> HIDE DEF header
<1>3. CASE f # "index"
  <2> DEFINE arrays == Part(src, "arrays", <<>>)
  <2>1. arrays \in AnyPart /\ arrays.src = src
    <3>1. "arrays" \in Kinds
      BY DEF Kinds
    <3> QED
      BY <1>0, <3>1
  <2>2. Image(f, src) = <<header, arrays>>
    BY <1>3 DEF Image, header
  <2> HIDE DEF arrays
  <2>3. <<header, arrays>> \in Seq(AnyPart) /\ Len(<<header, arrays>>) = 2
    BY <1>2, <2>1
  <2> QED
    BY <1>2, <1>3, <2>1, <2>2, <2>3, LenProperties
<1>4. CASE f = "index"
  <2> DEFINE d == DataBlocks(Count[src])
             rest == [i \in 1 .. d |-> Part(src, "block", NodesOf(Count[src], i))]
  <2>1. d \in Nat /\ Cardinality(Firsts(Count[src])) = d
    BY <1>1, BlocksSuffice, BlocksCounted
  <2>2. Image(f, src) = <<header>> \o rest
    BY <1>4, <2>1 DEF Image, IndexImage, Firsts, header
  <2>3. \A i \in 1 .. d : /\ Part(src, "block", NodesOf(Count[src], i)) \in AnyPart
                          /\ Part(src, "block", NodesOf(Count[src], i)).nodes = NodesOf(Count[src], i)
    BY <1>1, NodesTyped, PartFacts DEF Kinds
  <2>4. /\ rest \in [1 .. d -> AnyPart]
        /\ \A i \in 1 .. d : rest[i].nodes = NodesOf(Count[src], i)
    BY <2>3
  <2> HIDE DEF d, rest
  <2>5. rest \in Seq(AnyPart) /\ Len(rest) = d
    BY <2>1, <2>4, SeqDef, LenProperties
  <2>6. <<header>> \in Seq(AnyPart) /\ Len(<<header>>) = 1 /\ <<header>>[1] = header
    BY <1>2
  <2> DEFINE one == <<header>>
  <2> HIDE DEF one
  <2>7. one \in Seq(AnyPart) /\ Len(one) = 1 /\ one[1] = header /\ Image(f, src) = one \o rest
    BY <2>2, <2>6 DEF one
  <2>8. /\ one \o rest \in Seq(AnyPart)
        /\ Len(one \o rest) = 1 + d
        /\ \A i \in 1 .. 1 + d : (one \o rest)[i] = IF i <= 1 THEN one[i] ELSE rest[i - 1]
    <3>1. /\ one \o rest \in Seq(AnyPart)
          /\ Len(one \o rest) = Len(one) + Len(rest)
          /\ \A i \in 1 .. Len(one) + Len(rest) :
               (one \o rest)[i] = IF i <= Len(one) THEN one[i] ELSE rest[i - Len(one)]
      BY <2>5, <2>7, ConcatProperties
    <3> QED
      BY <2>5, <2>7, <3>1
  <2>9. \A i \in 1 .. d : 1 + i \in 1 .. 1 + d /\ ~ (1 + i <= 1) /\ (1 + i) - 1 = i
    BY <2>1
  <2>10. 1 \in 1 .. 1 + d /\ 1 + d \in Nat /\ 1 + d >= 1
    BY <2>1
  <2>11. (one \o rest)[1] = header
    BY <2>7, <2>8, <2>10
  <2>12. \A i \in 1 .. d : (one \o rest)[1 + i].nodes = NodesOf(Count[src], i)
    BY <2>4, <2>8, <2>9
  <2> QED
    BY <1>2, <1>4, <2>7, <2>8, <2>10, <2>11, <2>12, LenProperties DEF d
<1> QED
  BY <1>3, <1>4

-----------------------------------------------------------------------------
FileState == [exists: BOOLEAN, parts: Seq(AnyPart), ragged: BOOLEAN]
Places == {"idle", "look", "load", "create", "write", "open", "check", "using"}

\* A file whose last part is torn, or no longer.
Ragged(old, torn) == [old EXCEPT !.ragged = torn]

\* The states of a file, and what the programs make of them.
LEMMA StateFacts ==
  /\ \A old \in FileState : old.exists \in BOOLEAN /\ old.parts \in Seq(AnyPart) /\ old.ragged \in BOOLEAN
  /\ Absent \in FileState /\ ~ Absent.exists /\ Absent.parts = <<>>
  /\ Empty \in FileState /\ Empty.exists /\ Empty.parts = <<>> /\ ~ Empty.ragged
  /\ \A old \in FileState, torn \in BOOLEAN :
       /\ Ragged(old, torn) \in FileState /\ Ragged(old, torn).ragged = torn
       /\ Ragged(old, torn).exists = old.exists /\ Ragged(old, torn).parts = old.parts
<1>1. <<>> \in Seq(AnyPart)
  BY EmptySeq
<1> QED
  BY <1>1 DEF FileState, Absent, Empty, Ragged

\* A part written at its place: past the others it is appended to them.
LEMMA WrittenFacts ==
  ASSUME NEW old \in FileState, NEW place \in Nat \ {0}, NEW part \in AnyPart
  PROVE  LET new == Written(old, place, part) IN
         /\ new \in FileState /\ new.exists
         /\ place = Len(old.parts) + 1 =>
              /\ ~ new.ragged /\ Len(new.parts) = place /\ new.parts[place] = part
              /\ \A i \in 1 .. Len(old.parts) : new.parts[i] = old.parts[i]
<1> DEFINE len == IF Len(old.parts) > place THEN Len(old.parts) ELSE place
           parts == [i \in 1 .. len |-> IF i = place THEN part
                                       ELSE IF i <= Len(old.parts) THEN old.parts[i] ELSE Hole]
           ragged == old.ragged /\ len = Len(old.parts)
           new == Written(old, place, part)
<1>1. new = [exists |-> TRUE, parts |-> parts, ragged |-> ragged]
  BY DEF Written
<1>2. /\ old.parts \in Seq(AnyPart) /\ old.ragged \in BOOLEAN /\ Len(old.parts) \in Nat
      /\ \A i \in 1 .. Len(old.parts) : old.parts[i] \in AnyPart
  BY LenProperties, ElementOfSeq DEF FileState
<1>3. len \in Nat
  BY <1>2
<1>4. Hole \in AnyPart
  BY DEF AnyPart
<1>5. parts \in [1 .. len -> AnyPart]
  <2> HIDE DEF len
  <2> SUFFICES ASSUME NEW i \in 1 .. len
               PROVE (IF i = place THEN part
                      ELSE IF i <= Len(old.parts) THEN old.parts[i] ELSE Hole) \in AnyPart
    OBVIOUS
  <2>1. i <= Len(old.parts) => i \in 1 .. Len(old.parts)
    BY <1>2, <1>3
  <2> QED
    BY <1>2, <1>4, <2>1
<1>6. parts \in Seq(AnyPart) /\ Len(parts) = len
  <2> HIDE DEF parts, len
  <2> QED
    BY <1>3, <1>5, SeqDef, LenProperties
<1>7. ragged \in BOOLEAN
  OBVIOUS
<1>8. ASSUME place = Len(old.parts) + 1
      PROVE  /\ ~ ragged /\ len = place /\ parts[place] = part
             /\ \A i \in 1 .. Len(old.parts) : parts[i] = old.parts[i]
  <2>1. len = place /\ ~ ragged
    BY <1>2, <1>8
  <2> HIDE DEF len
  <2>2. place \in 1 .. len /\ \A i \in 1 .. Len(old.parts) : i \in 1 .. len /\ i # place /\ i <= Len(old.parts)
    BY <1>2, <1>8, <2>1
  <2> QED
    BY <2>1, <2>2
<1> HIDE DEF parts, len, ragged
<1>9. new \in FileState /\ new.exists
  BY <1>1, <1>6, <1>7 DEF FileState
<1> QED
  BY <1>1, <1>6, <1>8, <1>9

-----------------------------------------------------------------------------
\* What InOrder says of one run.
OrderOf(r) ==
  /\ pc[r] = "look" => command[r] \in {"vamana", "disk"}
  /\ pc[r] = "load" => command[r] \in {"vamana", "disk", "sq8"}
  /\ pc[r] \in {"create", "write"} => command[r] \in {"vamana", "disk", "train"}
  /\ pc[r] \in {"open", "check", "using"} => command[r] = "serve"
  /\ pc[r] # "idle" /\ command[r] # "sq8" => data[r] \in Datasets
  /\ mem[r] # <<>> => pc[r] = "load" /\ mem[r][1].what = "header"
  /\ pc[r] # "write" => at[r] = 0

Ordered == TypeOK /\ InOrder

RunOf(r) ==
  /\ pc[r] \in Places /\ command[r] \in Commands \cup {"none"}
  /\ data[r] \in Datasets \cup {"none"} /\ mem[r] \in Seq(AnyPart) /\ Len(mem[r]) <= 2
  /\ at[r] \in Nat /\ (pc[r] = "write" => at[r] <= Len(Mine(r))) /\ blocks[r] \in Nat
  /\ OrderOf(r)

LEMMA RunFacts == ASSUME Ordered, NEW r \in Runs PROVE RunOf(r)
BY DEF Ordered, TypeOK, InOrder, RunOf, OrderOf, Places

\* A variable that changes for one run only.
Only(r, old, new) == new = [old EXCEPT ![r] = new[r]]

\* The other runs are as they were.
Others(r) ==
  \A s \in Runs : s # r =>
    /\ pc'[s] = pc[s] /\ command'[s] = command[s] /\ data'[s] = data[s] /\ mem'[s] = mem[s]
    /\ at'[s] = at[s] /\ blocks'[s] = blocks[s] /\ Mine(s)' = Mine(s)

LEMMA OnlyFacts ==
  ASSUME Ordered, NEW r \in Runs, Only(r, pc, pc'), Only(r, command, command'), Only(r, data, data'),
         Only(r, mem, mem'), Only(r, at, at'), Only(r, blocks, blocks')
  PROVE  Others(r)
<1> SUFFICES ASSUME NEW s \in Runs, s # r
             PROVE  /\ pc'[s] = pc[s] /\ command'[s] = command[s] /\ data'[s] = data[s]
                    /\ mem'[s] = mem[s] /\ at'[s] = at[s] /\ blocks'[s] = blocks[s]
                    /\ Mine(s)' = Mine(s)
  BY DEF Others
<1>1. command'[s] = command[s] /\ data'[s] = data[s]
  BY DEF Only, Ordered, TypeOK
<1>2. Mine(s)' = Mine(s)
  BY <1>1 DEF Mine, Image, IndexImage, Writes
<1> QED
  BY <1>1, <1>2 DEF Only, Ordered, TypeOK

\* A step of one run, whose variables are in order after it.
LEMMA RunStep ==
  ASSUME Ordered, NEW r \in Runs, Only(r, pc, pc'), Only(r, command, command'), Only(r, data, data'),
         Only(r, mem, mem'), Only(r, at, at'), Only(r, blocks, blocks'),
         file' \in [Files -> FileState], raced' \subseteq Files, undercut' \subseteq Runs,
         RunOf(r)'
  PROVE  Ordered' /\ Others(r)
<1>1. Others(r)
  BY OnlyFacts
<1>2. \A s \in Runs : RunOf(s)'
  <2> SUFFICES ASSUME NEW s \in Runs, s # r PROVE RunOf(s)'
    OBVIOUS
  <2>1. RunOf(s)
    BY RunFacts
  <2> QED
    BY <1>1, <2>1 DEF Others, RunOf, OrderOf
<1>3. /\ DOMAIN pc' = Runs /\ DOMAIN command' = Runs /\ DOMAIN data' = Runs
      /\ DOMAIN mem' = Runs /\ DOMAIN at' = Runs /\ DOMAIN blocks' = Runs
      /\ pc' = [s \in Runs |-> pc'[s]] /\ command' = [s \in Runs |-> command'[s]]
      /\ data' = [s \in Runs |-> data'[s]] /\ mem' = [s \in Runs |-> mem'[s]]
      /\ at' = [s \in Runs |-> at'[s]] /\ blocks' = [s \in Runs |-> blocks'[s]]
  BY DEF Only, Ordered, TypeOK
<1>4. TypeOK'
  <2>1. pc' \in [Runs -> Places] /\ command' \in [Runs -> Commands \cup {"none"}]
    BY <1>2, <1>3 DEF RunOf
  <2>2. data' \in [Runs -> Datasets \cup {"none"}] /\ mem' \in [Runs -> Seq(AnyPart)]
    BY <1>2, <1>3 DEF RunOf
  <2>3. at' \in [Runs -> Nat] /\ blocks' \in [Runs -> Nat]
    BY <1>2, <1>3 DEF RunOf
  <2> QED
    BY <1>2, <2>1, <2>2, <2>3 DEF TypeOK, RunOf, FileState, Places
<1>5. InOrder'
  BY <1>2 DEF InOrder, RunOf, OrderOf
<1> QED
  BY <1>1, <1>4, <1>5 DEF Ordered

\* A run that ends has nothing left.
LEMMA EndFacts ==
  ASSUME Ordered, NEW r \in Runs, End(r)
  PROVE  /\ Only(r, pc, pc') /\ Only(r, command, command') /\ Only(r, data, data')
         /\ Only(r, mem, mem') /\ Only(r, at, at') /\ Only(r, blocks, blocks')
         /\ pc'[r] = "idle" /\ mem'[r] = <<>>
         /\ RunOf(r)' /\ undercut' = undercut \ {r} /\ undercut' \subseteq Runs
<1>1. /\ pc' = [pc EXCEPT ![r] = "idle"] /\ mem' = [mem EXCEPT ![r] = <<>>]
      /\ at' = [at EXCEPT ![r] = 0] /\ blocks' = [blocks EXCEPT ![r] = 0]
      /\ command' = [command EXCEPT ![r] = "none"] /\ data' = [data EXCEPT ![r] = "none"]
      /\ undercut' = undercut \ {r}
  BY DEF End, Goto
<1>2. /\ pc'[r] = "idle" /\ mem'[r] = <<>> /\ at'[r] = 0 /\ blocks'[r] = 0
      /\ command'[r] = "none" /\ data'[r] = "none"
  BY <1>1 DEF Ordered, TypeOK
<1>3. <<>> \in Seq(AnyPart) /\ Len(<<>>) = 0
  BY EmptySeq
<1>4. RunOf(r)'
  BY <1>2, <1>3 DEF RunOf, OrderOf, Places
<1> QED
  BY <1>1, <1>2, <1>4 DEF Only, Ordered, TypeOK

\* What a run does with no file but to look at it.
LEMMA StayFacts ==
  ASSUME Ordered, NEW r \in Runs, UNCHANGED <<file, raced>>,
         UNCHANGED undercut \/ undercut' = undercut \ {r},
         Only(r, pc, pc'), Only(r, command, command'), Only(r, data, data'),
         Only(r, mem, mem'), Only(r, at, at'), Only(r, blocks, blocks'), RunOf(r)'
  PROVE  Ordered' /\ Others(r)
<1>1. file' \in [Files -> FileState] /\ raced' \subseteq Files /\ undercut' \subseteq Runs
  BY DEF Ordered, TypeOK, FileState
<1> QED
  BY <1>1, RunStep

\* Nothing changes but for one run: every variable is of one of two kinds.
LEMMA SameOnly ==
  ASSUME Ordered, NEW r \in Runs
  PROVE  /\ pc' = pc => Only(r, pc, pc')
         /\ command' = command => Only(r, command, command')
         /\ data' = data => Only(r, data, data')
         /\ mem' = mem => Only(r, mem, mem')
         /\ at' = at => Only(r, at, at')
         /\ blocks' = blocks => Only(r, blocks, blocks')
         /\ \A x : pc' = [pc EXCEPT ![r] = x] => Only(r, pc, pc') /\ pc'[r] = x
         /\ \A x : command' = [command EXCEPT ![r] = x] => Only(r, command, command') /\ command'[r] = x
         /\ \A x : data' = [data EXCEPT ![r] = x] => Only(r, data, data') /\ data'[r] = x
         /\ \A x : mem' = [mem EXCEPT ![r] = x] => Only(r, mem, mem') /\ mem'[r] = x
         /\ \A x : at' = [at EXCEPT ![r] = x] => Only(r, at, at') /\ at'[r] = x
         /\ \A x : blocks' = [blocks EXCEPT ![r] = x] => Only(r, blocks, blocks') /\ blocks'[r] = x
BY DEF Only, Ordered, TypeOK

LEMMA EndStays ==
  ASSUME Ordered, NEW r \in Runs, End(r), UNCHANGED <<file, raced>>
  PROVE  Ordered' /\ Others(r)
BY EndFacts, StayFacts

LEMMA StartOrdered ==
  ASSUME Ordered, NEW r \in Runs, NEW c \in Commands, NEW d \in Datasets, Start(r, c, d)
  PROVE  Ordered' /\ Others(r)
<1> DEFINE where == CASE c = "train" -> "create" [] c = "serve" -> "open"
                      [] c = "sq8" -> "load" [] OTHER -> "look"
           src == IF c = "sq8" THEN "none" ELSE d
<1>1. /\ pc[r] = "idle" /\ command' = [command EXCEPT ![r] = c] /\ data' = [data EXCEPT ![r] = src]
      /\ pc' = [pc EXCEPT ![r] = where]
      /\ UNCHANGED <<file, mem, at, blocks, raced, undercut>>
  BY DEF Start, Goto
<1>2. /\ where \in {"create", "open", "load", "look"}
      /\ where = "create" => c = "train"
      /\ where = "open" => c = "serve"
      /\ where = "load" => c = "sq8"
      /\ where = "look" => c \in {"vamana", "disk"}
      /\ src \in Datasets \cup {"none"} /\ (c # "sq8" => src \in Datasets)
  BY DEF Commands
<1> HIDE DEF where, src
<1>3. RunOf(r)
  BY RunFacts
<1>4. /\ pc'[r] = where /\ command'[r] = c /\ data'[r] = src
      /\ mem'[r] = mem[r] /\ at'[r] = at[r] /\ blocks'[r] = blocks[r]
  BY <1>1, SameOnly
<1>5. RunOf(r)'
  BY <1>1, <1>2, <1>3, <1>4 DEF RunOf, OrderOf, Places
<1> QED
  BY <1>1, <1>5, SameOnly, StayFacts

LEMMA LookOrdered ==
  ASSUME Ordered, NEW r \in Runs, LookForGraph(r) \/ LookForIndex(r)
  PROVE  Ordered' /\ Others(r)
<1>1. RunOf(r)
  BY RunFacts
<1>2. CASE LookForGraph(r)
  <2>1. PICK where \in {"load", "create"} :
          /\ pc[r] = "look" /\ command[r] = "vamana" /\ pc' = [pc EXCEPT ![r] = where]
          /\ UNCHANGED <<file, command, data, mem, at, blocks, raced, undercut>>
    BY <1>2 DEF LookForGraph, Goto
  <2>2. /\ pc'[r] = where /\ command'[r] = command[r] /\ data'[r] = data[r]
        /\ mem'[r] = mem[r] /\ at'[r] = at[r] /\ blocks'[r] = blocks[r]
    BY <2>1, SameOnly
  <2>3. RunOf(r)'
    BY <1>1, <2>1, <2>2 DEF RunOf, OrderOf, Places
  <2> QED
    BY <2>1, <2>3, SameOnly, StayFacts
<1>3. CASE LookForIndex(r) /\ ~ End(r)
  <2>1. /\ pc[r] = "look" /\ command[r] = "disk"
        /\ UNCHANGED <<file, raced, data, mem, at, blocks, undercut>>
        /\ \/ pc' = [pc EXCEPT ![r] = "open"] /\ command' = [command EXCEPT ![r] = "serve"]
           \/ pc' = [pc EXCEPT ![r] = "load"] /\ UNCHANGED command
    BY <1>3 DEF LookForIndex, GoOpen, Goto
  <2>2. /\ data'[r] = data[r] /\ mem'[r] = mem[r] /\ at'[r] = at[r] /\ blocks'[r] = blocks[r]
        /\ \/ pc'[r] = "open" /\ command'[r] = "serve"
           \/ pc'[r] = "load" /\ command'[r] = command[r]
    BY <2>1, SameOnly
  <2>3. RunOf(r)'
    BY <1>1, <2>1, <2>2 DEF RunOf, OrderOf, Places, Commands
  <2>4. Only(r, pc, pc') /\ Only(r, command, command')
    BY <2>1, SameOnly
  <2> QED
    BY <2>1, <2>3, <2>4, SameOnly, StayFacts
<1>4. CASE LookForIndex(r) /\ End(r)
  BY <1>4, EndStays DEF LookForIndex
<1> QED
  BY <1>2, <1>3, <1>4

LEMMA LoadOrdered ==
  ASSUME Ordered, NEW r \in Runs, Load(r) \/ Loaded(r)
  PROVE  Ordered' /\ Others(r)
<1>1. RunOf(r)
  BY RunFacts
<1>2. CASE End(r)
  BY <1>2, EndStays DEF Load, Loaded
<1>3. CASE Load(r) /\ ~ End(r)
  <2> DEFINE next == Len(mem[r]) + 1
             parts == file[Reads(command[r])].parts
  <2>1. /\ pc[r] = "load" /\ next <= 2 /\ next <= Len(parts)
        /\ ~ (next = 1 /\ parts[1].what # "header")
        /\ mem' = [mem EXCEPT ![r] = Append(mem[r], parts[next])]
        /\ UNCHANGED <<file, raced, pc, command, data, at, blocks, undercut>>
    BY <1>3 DEF Load, Ordered, TypeOK
  <2>2. Reads(command[r]) \in Files
    BY DEF Reads, Files
  <2>3. parts \in Seq(AnyPart)
    BY <2>2 DEF Ordered, TypeOK
  <2>4. mem[r] \in Seq(AnyPart) /\ Len(mem[r]) \in Nat /\ DOMAIN mem[r] = 1 .. Len(mem[r])
    BY <1>1, LenProperties DEF RunOf
  <2> HIDE DEF parts
  <2>5. next \in 1 .. Len(parts) /\ parts[next] \in AnyPart
    <3>1. Len(parts) \in Nat
      BY <2>3, LenProperties
    <3>2. next \in 1 .. Len(parts)
      BY <2>1, <2>4, <3>1
    <3> QED
      BY <2>3, <3>2, ElementOfSeq
  <2> DEFINE a == Append(mem[r], parts[next])
  <2>6. /\ a \in Seq(AnyPart) /\ Len(a) = Len(mem[r]) + 1 /\ a[Len(mem[r]) + 1] = parts[next]
        /\ \A i \in 1 .. Len(mem[r]) : a[i] = mem[r][i]
    BY <2>4, <2>5, AppendProperties
  <2> HIDE DEF a
  <2>7. a[1].what = "header"
    <3>1. CASE mem[r] = <<>>
      <4>1. Len(mem[r]) = 0
        BY <3>1, EmptySeq
      <4> QED
        BY <2>1, <2>6, <4>1
    <3>2. CASE mem[r] # <<>>
      <4>1. 1 \in 1 .. Len(mem[r])
        BY <2>4, <3>2, EmptySeq
      <4> QED
        BY <1>1, <2>6, <3>2, <4>1 DEF RunOf, OrderOf
    <3> QED
      BY <3>1, <3>2
  <2>8. /\ pc'[r] = pc[r] /\ command'[r] = command[r] /\ data'[r] = data[r]
        /\ mem'[r] = a /\ at'[r] = at[r] /\ blocks'[r] = blocks[r] /\ Only(r, mem, mem')
    BY ZenonT(60), <2>1, SameOnly DEF a
  <2>9. Len(a) <= 2
    BY <2>1, <2>6
  <2>10. RunOf(r)'
    BY <1>1, <2>1, <2>6, <2>7, <2>8, <2>9 DEF RunOf, OrderOf
  <2> QED
    BY <2>1, <2>8, <2>10, SameOnly, StayFacts
<1>4. CASE Loaded(r) /\ ~ End(r)
  <2> DEFINE src == mem[r][1].src
             known == IF command[r] = "sq8" THEN src ELSE data[r]
  <2>1. /\ pc[r] = "load" /\ Len(mem[r]) = 2 /\ command[r] # "vamana"
        /\ UNCHANGED <<file, raced, at, blocks, undercut>>
        /\ \/ command[r] = "disk" /\ pc' = [pc EXCEPT ![r] = "create"] /\ UNCHANGED command
           \/ /\ command[r] # "disk" /\ pc' = [pc EXCEPT ![r] = "open"]
              /\ command' = [command EXCEPT ![r] = "serve"]
        /\ data' = [data EXCEPT ![r] = known]
        /\ mem' = [mem EXCEPT ![r] = <<>>]
    BY <1>4 DEF Loaded, GoOpen, Goto, Ordered, TypeOK
  <2>2. src \in Datasets
    <3>1. mem[r] \in Seq(AnyPart) /\ mem[r] # <<>>
      <4>1. \A m \in Seq(AnyPart) : Len(m) = 2 => m # <<>>
        BY EmptySeq
      <4> QED
        BY <1>1, <2>1, <4>1 DEF RunOf
    <3>2. mem[r][1] \in AnyPart
      <4> DEFINE m == mem[r]
      <4>1. m \in Seq(AnyPart) /\ 1 \in 1 .. Len(m)
        BY <2>1, <3>1
      <4> HIDE DEF m
      <4>2. m[1] \in AnyPart
        BY <4>1, ElementOfSeq
      <4> QED
        BY <4>2 DEF m
    <3>3. mem[r][1].what = "header"
      BY <1>1, <3>1 DEF RunOf, OrderOf
    <3> QED
      BY <3>2, <3>3, SourceFacts
  <2>3. known \in Datasets
    BY <1>1, <2>1, <2>2 DEF RunOf, OrderOf
  <2> HIDE DEF src, known
  <2>4. /\ data'[r] = known /\ mem'[r] = <<>> /\ at'[r] = at[r] /\ blocks'[r] = blocks[r]
        /\ \/ pc'[r] = "create" /\ command'[r] = command[r] /\ command[r] = "disk"
           \/ pc'[r] = "open" /\ command'[r] = "serve"
    BY <2>1, SameOnly
  <2>5. RunOf(r)'
    <3>1. <<>> \in Seq(AnyPart) /\ Len(<<>>) = 0
      BY EmptySeq
    <3> QED
      BY <1>1, <2>1, <2>3, <2>4, <3>1 DEF RunOf, OrderOf, Places, Commands
  <2>6. Only(r, pc, pc') /\ Only(r, command, command') /\ Only(r, data, data') /\ Only(r, mem, mem')
    BY <2>1, SameOnly
  <2> QED
    BY <2>1, <2>5, <2>6, SameOnly, StayFacts
<1> QED
  BY <1>2, <1>3, <1>4

\* A run that creates or writes a file has one of its own, and a dataset.
LEMMA WriterFacts ==
  ASSUME Ordered, NEW r \in Runs, pc[r] \in {"create", "write"}
  PROVE  /\ Writes(command[r]) \in Files /\ data[r] \in Datasets
         /\ command[r] \in {"vamana", "disk", "train"} /\ mem[r] = <<>>
         /\ Mine(r) = Image(Writes(command[r]), data[r])
         /\ Mine(r) \in Seq(AnyPart) /\ Len(Mine(r)) \in Nat /\ Len(Mine(r)) >= 1
         /\ DOMAIN Mine(r) = 1 .. Len(Mine(r))
         /\ pc[r] = "write" => at[r] <= Len(Mine(r))
<1>1. RunOf(r)
  BY RunFacts
<1>2. command[r] \in {"vamana", "disk", "train"} /\ data[r] \in Datasets /\ mem[r] = <<>>
  BY <1>1 DEF RunOf, OrderOf
<1>3. Writes(command[r]) \in Files
  BY <1>2 DEF Writes, Files
<1>4. Mine(r) = Image(Writes(command[r]), data[r])
  BY DEF Mine
<1> QED
  BY <1>1, <1>2, <1>3, <1>4, ImageFacts DEF RunOf

\* One file changes.
LEMMA FileStep ==
  ASSUME Ordered, NEW f \in Files, NEW new \in FileState, file' = [file EXCEPT ![f] = new]
  PROVE  /\ file' \in [Files -> FileState] /\ file'[f] = new
         /\ \A g \in Files : g # f => file'[g] = file[g]
BY DEF Ordered, TypeOK, FileState

LEMMA CreateOrdered ==
  ASSUME Ordered, NEW r \in Runs, Create(r)
  PROVE  Ordered' /\ Others(r)
<1> DEFINE f == Writes(command[r])
<1>1. /\ pc[r] = "create" /\ file' = [file EXCEPT ![f] = Empty] /\ pc' = [pc EXCEPT ![r] = "write"]
      /\ raced' = IF Writers(f, r) # {} THEN raced \cup {f} ELSE raced \ {f}
      /\ undercut' = undercut \cup Readers(f, r)
      /\ UNCHANGED <<command, data, mem, at, blocks>>
  BY DEF Create, Goto
<1>2. /\ f \in Files /\ data[r] \in Datasets /\ Len(Mine(r)) \in Nat /\ RunOf(r)
  BY <1>1, WriterFacts, RunFacts
<1> HIDE DEF f
<1>3. file' \in [Files -> FileState]
  BY <1>1, <1>2, StateFacts, FileStep
<1>4. raced' \subseteq Files /\ undercut' \subseteq Runs
  BY <1>1, <1>2 DEF Ordered, TypeOK, Readers
<1>5. /\ pc'[r] = "write" /\ command'[r] = command[r] /\ data'[r] = data[r]
      /\ mem'[r] = mem[r] /\ at'[r] = at[r] /\ blocks'[r] = blocks[r] /\ Only(r, pc, pc')
  BY <1>1, SameOnly
<1>6. Mine(r)' = Mine(r)
  BY <1>5 DEF Mine, Image, IndexImage, Writes
<1>7. at[r] = 0 /\ mem[r] = <<>>
  BY <1>1, <1>2 DEF RunOf, OrderOf
<1>8. RunOf(r)'
  BY <1>1, <1>2, <1>5, <1>6, <1>7 DEF RunOf, OrderOf, Places
<1> QED
  BY <1>1, <1>3, <1>4, <1>5, <1>8, SameOnly, RunStep

LEMMA WriteFacts ==
  ASSUME Ordered, NEW r \in Runs, WritePart(r)
  PROVE  LET f == Writes(command[r])
             place == at[r] + 1
         IN  /\ pc[r] = "write" /\ f \in Files /\ place \in 1 .. Len(Mine(r)) /\ place \in Nat \ {0}
             /\ Mine(r)[place] \in AnyPart
             /\ file' \in [Files -> FileState]
             /\ file'[f] = Written(file[f], place, Mine(r)[place])
             /\ \A g \in Files : g # f => file'[g] = file[g]
             /\ at' = [at EXCEPT ![r] = place]
             /\ UNCHANGED <<pc, command, data, mem, blocks, raced, undercut>>
<1> DEFINE f == Writes(command[r])
           place == at[r] + 1
           part == Mine(r)[place]
<1>1. /\ pc[r] = "write" /\ at[r] < Len(Mine(r))
      /\ UNCHANGED <<pc, command, data, mem, blocks, raced, undercut>>
      /\ file' = [file EXCEPT ![f] = Written(file[f], place, part)]
      /\ at' = [at EXCEPT ![r] = place]
  BY DEF WritePart, Ordered, TypeOK
<1>2. /\ f \in Files /\ Mine(r) \in Seq(AnyPart) /\ Len(Mine(r)) \in Nat /\ at[r] \in Nat
  BY <1>1, WriterFacts, RunFacts DEF RunOf
<1>3. place \in 1 .. Len(Mine(r)) /\ place \in Nat \ {0}
  BY <1>1, <1>2
<1> HIDE DEF place
<1>4. part \in AnyPart
  BY <1>2, <1>3, ElementOfSeq
<1>5. file[f] \in FileState
  BY <1>2 DEF Ordered, TypeOK, FileState
<1> HIDE DEF f, part
<1>6. Written(file[f], place, part) \in FileState
  BY <1>3, <1>4, <1>5, WrittenFacts
<1>7. /\ file' \in [Files -> FileState] /\ file'[f] = Written(file[f], place, part)
      /\ \A g \in Files : g # f => file'[g] = file[g]
  BY <1>1, <1>2, <1>6, FileStep
<1> QED
  BY <1>1, <1>2, <1>3, <1>4, <1>7 DEF f, place, part

LEMMA WriteOrdered ==
  ASSUME Ordered, NEW r \in Runs, WritePart(r)
  PROVE  Ordered' /\ Others(r)
<1> DEFINE place == at[r] + 1
<1>1. /\ pc[r] = "write" /\ place \in 1 .. Len(Mine(r)) /\ file' \in [Files -> FileState]
      /\ at' = [at EXCEPT ![r] = place]
      /\ UNCHANGED <<pc, command, data, mem, blocks, raced, undercut>>
  BY WriteFacts
<1>2. RunOf(r) /\ Len(Mine(r)) \in Nat
  BY <1>1, WriterFacts, RunFacts
<1> HIDE DEF place
<1>3. /\ pc'[r] = "write" /\ command'[r] = command[r] /\ data'[r] = data[r]
      /\ mem'[r] = mem[r] /\ at'[r] = place /\ blocks'[r] = blocks[r] /\ Only(r, at, at')
  BY <1>1, SameOnly
<1>4. Mine(r)' = Mine(r)
  BY <1>3 DEF Mine, Image, IndexImage, Writes
<1>5. place \in Nat /\ place <= Len(Mine(r))
  BY <1>1, <1>2
<1>6. RunOf(r)'
  BY <1>1, <1>2, <1>3, <1>4, <1>5 DEF RunOf, OrderOf, Places
<1>7. raced' \subseteq Files /\ undercut' \subseteq Runs
  BY <1>1 DEF Ordered, TypeOK
<1> QED
  BY <1>1, <1>3, <1>6, <1>7, SameOnly, RunStep

\* Closing a file, opening and checking an index, and leaving off.
LEMMA RestOrdered ==
  ASSUME Ordered, NEW r \in Runs, Close(r) \/ Open(r) \/ Check(r) \/ Finish(r)
  PROVE  Ordered' /\ Others(r)
<1>1. RunOf(r)
  BY RunFacts
<1>2. CASE End(r)
  BY <1>2, EndStays DEF Close, Open, Check, Finish
<1>3. CASE Close(r) /\ ~ End(r)
  <2>1. /\ pc[r] = "write" /\ UNCHANGED <<file, raced, data, mem, blocks, undercut>>
        /\ pc' = [pc EXCEPT ![r] = "open"] /\ command' = [command EXCEPT ![r] = "serve"]
        /\ at' = [at EXCEPT ![r] = 0]
    BY <1>3 DEF Close, GoOpen, Goto
  <2>2. /\ pc'[r] = "open" /\ command'[r] = "serve" /\ data'[r] = data[r] /\ mem'[r] = mem[r]
        /\ at'[r] = 0 /\ blocks'[r] = blocks[r]
        /\ Only(r, pc, pc') /\ Only(r, command, command') /\ Only(r, at, at')
    BY <2>1, SameOnly
  <2>3. RunOf(r)'
    BY <1>1, <2>1, <2>2 DEF RunOf, OrderOf, Places, Commands
  <2> QED
    BY <2>1, <2>2, <2>3, SameOnly, StayFacts
<1>4. CASE Open(r) /\ ~ End(r)
  <2> DEFINE n == Len(file["index"].parts)
  <2>1. /\ pc[r] = "open" /\ UNCHANGED <<file, raced, command, data, mem, at, undercut>>
        /\ pc' = [pc EXCEPT ![r] = "check"] /\ blocks' = [blocks EXCEPT ![r] = n]
    BY <1>4 DEF Open, Goto
  <2>2. n \in Nat
    <3>1. file["index"].parts \in Seq(AnyPart)
      BY DEF Ordered, TypeOK, Files
    <3> QED
      BY <3>1, LenProperties
  <2> HIDE DEF n
  <2>3. /\ pc'[r] = "check" /\ command'[r] = command[r] /\ data'[r] = data[r] /\ mem'[r] = mem[r]
        /\ at'[r] = at[r] /\ blocks'[r] = n /\ Only(r, pc, pc') /\ Only(r, blocks, blocks')
    BY <2>1, SameOnly
  <2>4. RunOf(r)'
    BY <1>1, <2>1, <2>2, <2>3 DEF RunOf, OrderOf, Places
  <2> QED
    BY <2>1, <2>3, <2>4, SameOnly, StayFacts
<1>5. CASE Check(r) /\ ~ End(r)
  <2>1. /\ pc[r] = "check" /\ UNCHANGED <<file, raced, command, data, mem, at, undercut>>
        /\ pc' = [pc EXCEPT ![r] = "using"] /\ blocks' = [blocks EXCEPT ![r] = 0]
    BY <1>5 DEF Check, Goto
  <2>2. /\ pc'[r] = "using" /\ command'[r] = command[r] /\ data'[r] = data[r] /\ mem'[r] = mem[r]
        /\ at'[r] = at[r] /\ blocks'[r] = 0 /\ Only(r, pc, pc') /\ Only(r, blocks, blocks')
    BY <2>1, SameOnly
  <2>3. RunOf(r)'
    BY <1>1, <2>1, <2>2 DEF RunOf, OrderOf, Places
  <2> QED
    BY <2>1, <2>2, <2>3, SameOnly, StayFacts
<1> QED
  BY <1>2, <1>3, <1>4, <1>5 DEF Finish

\* What a crash leaves of the file it interrupts.
LEMMA CrashFacts ==
  ASSUME Ordered, NEW r \in Runs, Crash(r)
  PROVE  /\ End(r) /\ raced' = raced /\ pc[r] # "idle"
         /\ \/ UNCHANGED file
            \/ /\ pc[r] = "write" /\ at[r] < Len(Mine(r)) /\ Writes(command[r]) \in Files
               /\ \E torn \in BOOLEAN :
                    LET f == Writes(command[r]) IN
                    /\ torn => file[f].ragged \/ at[r] = Len(file[f].parts)
                    /\ file'[f] = Ragged(file[f], torn) /\ Ragged(file[f], torn) \in FileState
                    /\ \A g \in Files : g # f => file'[g] = file[g]
                    /\ file' \in [Files -> FileState]
<1>1. End(r) /\ raced' = raced /\ pc[r] # "idle" /\ Torn(Writes(command[r]), r)
  BY DEF Crash
<1>2. CASE pc[r] = "write" /\ at[r] < Len(Mine(r))
  <2> DEFINE f == Writes(command[r])
  <2>1. f \in Files
    BY <1>2, WriterFacts
  <2>2. file[f] \in FileState
    BY <2>1 DEF Ordered, TypeOK, FileState
  <2>3. PICK torn \in {file[f].ragged, f = "index" /\ at[r] = Len(file[f].parts)} :
          file' = [file EXCEPT ![f].ragged = torn]
    BY <1>1, <1>2 DEF Torn
  <2>4. torn \in BOOLEAN /\ (torn => file[f].ragged \/ at[r] = Len(file[f].parts))
    BY <2>2, <2>3 DEF FileState
  <2>5. file' = [file EXCEPT ![f] = Ragged(file[f], torn)]
    BY <2>3 DEF Ragged
  <2> HIDE DEF f
  <2>6. Ragged(file[f], torn) \in FileState
    BY <2>2, <2>4, StateFacts
  <2>7. /\ file' \in [Files -> FileState] /\ file'[f] = Ragged(file[f], torn)
        /\ \A g \in Files : g # f => file'[g] = file[g]
    BY <2>1, <2>5, <2>6, FileStep
  <2> QED
    BY <1>1, <1>2, <2>1, <2>4, <2>6, <2>7 DEF f
<1>3. CASE ~ (pc[r] = "write" /\ at[r] < Len(Mine(r)))
  BY <1>1, <1>3 DEF Torn
<1> QED
  BY <1>2, <1>3

LEMMA CrashOrdered ==
  ASSUME Ordered, NEW r \in Runs, Crash(r)
  PROVE  Ordered' /\ Others(r)
<1>1. End(r) /\ raced' = raced /\ file' \in [Files -> FileState]
  BY CrashFacts DEF Ordered, TypeOK, FileState
<1>2. raced' \subseteq Files
  BY <1>1 DEF Ordered, TypeOK
<1> QED
  BY <1>1, <1>2, EndFacts, RunStep

LEMMA DeleteOrdered ==
  ASSUME Ordered, NEW f \in Files, Delete(f)
  PROVE  Ordered'
<1>1. /\ file' = [file EXCEPT ![f] = Absent] /\ raced' = raced \ {f}
      /\ pc' = pc /\ command' = command /\ data' = data /\ mem' = mem /\ at' = at
      /\ blocks' = blocks /\ undercut' = undercut
  BY DEF Delete, runVars
<1>2. file' \in [Files -> FileState]
  BY <1>1, StateFacts, FileStep
<1>3. \A r \in Runs : Mine(r)' = Mine(r)
  BY <1>1 DEF Mine, Image, IndexImage, Writes
<1>4. TypeOK'
  BY <1>1, <1>2, <1>3 DEF Ordered, TypeOK, FileState
<1> QED
  BY <1>1, <1>4 DEF Ordered, InOrder

-----------------------------------------------------------------------------
\* The beginning of a file is a file's, is the whole of it when it is as long,
\* and has its header when it has anything.
LEMMA BeginsFacts ==
  ASSUME NEW p \in Seq(AnyPart), NEW q \in Seq(AnyPart), Begins(p, q)
  PROVE  /\ Len(p) \in Nat /\ Len(q) \in Nat /\ Len(p) <= Len(q)
         /\ Len(q) <= Len(p) => p = q
         /\ p # <<>> => Len(p) >= 1 /\ p[1] = q[1]
<1>1. /\ Len(p) \in Nat /\ Len(q) \in Nat /\ Len(p) <= Len(q)
      /\ \A i \in 1 .. Len(p) : p[i] = q[i]
  BY LenProperties DEF Begins
<1>2. ASSUME Len(q) <= Len(p) PROVE p = q
  <2>1. Len(p) = Len(q)
    BY <1>1, <1>2
  <2>2. p = [i \in 1 .. Len(p) |-> p[i]] /\ q = [i \in 1 .. Len(q) |-> q[i]]
    BY LenProperties
  <2> QED
    BY <1>1, <2>1, <2>2
<1>3. ASSUME p # <<>> PROVE Len(p) >= 1 /\ p[1] = q[1]
  <2>1. Len(p) # 0
    BY <1>3, EmptySeq
  <2>2. Len(p) >= 1
    BY <1>1, <2>1
  <2>3. 1 \in 1 .. Len(p)
    BY <1>1, <2>2
  <2> QED
    BY <1>1, <2>2, <2>3
<1> QED
  BY <1>1, <1>2, <1>3

\* The beginning of a file is that of what the file grows into.
LEMMA BeginsOn ==
  ASSUME NEW p \in Seq(AnyPart), NEW q \in Seq(AnyPart), NEW w \in Seq(AnyPart),
         Begins(p, q), Len(q) <= Len(w), \A i \in 1 .. Len(q) : w[i] = q[i]
  PROVE  Begins(p, w)
<1>1. Len(p) \in Nat /\ Len(q) \in Nat /\ Len(w) \in Nat
  BY LenProperties
<1> QED
  BY <1>1 DEF Begins

Sound == (\A f \in Files : Started(f)) /\ (\A r \in Runs : Seen(r))

\* A file nobody was writing with another, and that has something in it, is
\* the beginning of one save, whose header tells which.
LEMMA SaveBegun ==
  ASSUME Ordered, NEW f \in Files, Started(f), f \notin raced, file[f].parts # <<>>
  PROVE  \E src \in Datasets :
           /\ Begins(file[f].parts, Image(f, src))
           /\ file[f].parts[1].src = src /\ file[f].parts[1].what = "header"
           /\ file[f].ragged => Len(file[f].parts) < Len(Image(f, src))
<1>1. PICK src \in Datasets : /\ Begins(file[f].parts, Image(f, src))
                              /\ file[f].ragged => Len(file[f].parts) < Len(Image(f, src))
  BY DEF Started
<1>2. file[f].parts \in Seq(AnyPart)
  BY DEF Ordered, TypeOK
<1>3. Image(f, src) \in Seq(AnyPart) /\ Image(f, src)[1].src = src /\ Image(f, src)[1].what = "header"
  BY ImageFacts
<1>4. file[f].parts[1] = Image(f, src)[1]
  BY <1>1, <1>2, <1>3, BeginsFacts
<1> QED
  BY <1>1, <1>3, <1>4

\* An index as long as its header says is whole.
LEMMA FitsIsWhole ==
  ASSUME Ordered, Sound, NEW r \in Runs, pc[r] = "check", Undisturbed("index", r), HeaderFits(r)
  PROVE  LET parts == file["index"].parts IN
         parts[1].src \in Datasets /\ parts = Image("index", parts[1].src)
<1> DEFINE parts == file["index"].parts
<1>1. /\ "index" \in Files /\ parts # <<>> /\ "index" \notin raced
      /\ blocks[r] = 1 + DataBlocks(Count[parts[1].src]) /\ blocks[r] <= Len(parts)
  BY DEF HeaderFits, Undisturbed, Sound, Seen, Files
<1>2. PICK src \in Datasets : Begins(parts, Image("index", src)) /\ parts[1].src = src
  BY <1>1, SaveBegun DEF Sound
<1>3. parts \in Seq(AnyPart)
  BY <1>1 DEF Ordered, TypeOK
<1>4. Image("index", src) \in Seq(AnyPart) /\ Len(Image("index", src)) = 1 + DataBlocks(Count[src])
  BY <1>1, ImageFacts
<1> HIDE DEF parts
<1>5. Len(Image("index", src)) <= Len(parts)
  BY <1>1, <1>2, <1>4
<1>6. parts = Image("index", src)
  BY <1>2, <1>3, <1>4, <1>5, BeginsFacts
<1> QED
  BY <1>2, <1>6 DEF parts

-----------------------------------------------------------------------------
\* A file that a step leaves alone stays as begun, unless its run begins to
\* write it.
LEMMA StartedStays ==
  ASSUME Ordered, NEW r \in Runs, Others(r), NEW f \in Files,
         pc'[r] # "write" \/ Writes(command'[r]) # f,
         file'[f] = file[f], f \in raced' <=> f \in raced, Started(f)
  PROVE  Started(f)'
<1>1. \A s \in Runs : Writing(f, s)' => s # r /\ Writing(f, s) /\ at'[s] = at[s] /\ Mine(s)' = Mine(s)
  BY DEF Writing, Others
<1>2. ASSUME f \notin raced, NEW s \in Runs, Writing(f, s)'
      PROVE  /\ file'[f].exists /\ ~ file'[f].ragged
             /\ Len(file'[f].parts) = at'[s] /\ Begins(file'[f].parts, Mine(s)')
             /\ \A u \in Runs : Writing(f, u)' => u = s
  BY <1>1, <1>2 DEF Started
<1>3. ~ file'[f].exists => file'[f].parts = <<>>
  BY DEF Started
<1>4. f \notin raced /\ file'[f].exists => \E src \in Datasets :
            /\ Begins(file'[f].parts, Image(f, src))
            /\ file'[f].ragged => Len(file'[f].parts) < Len(Image(f, src))
  BY DEF Started
<1> QED
  BY <1>2, <1>3, <1>4 DEF Started

\* Nor does another run see anything else.
LEMMA OtherSeen ==
  ASSUME Ordered, NEW r \in Runs, Others(r), UNCHANGED <<file, raced>>,
         undercut' = undercut \/ undercut' = undercut \ {r},
         NEW s \in Runs, s # r, Seen(s)
  PROVE  Seen(s)'
<1>1. /\ pc'[s] = pc[s] /\ command'[s] = command[s] /\ data'[s] = data[s] /\ mem'[s] = mem[s]
      /\ blocks'[s] = blocks[s]
  BY DEF Others
<1>2. \A f : Undisturbed(f, s)' => Undisturbed(f, s)
  BY DEF Undisturbed
<1> QED
  BY <1>1, <1>2 DEF Seen, Begins

\* A step that leaves the files alone leaves what is known of them.
LEMMA QuietSound ==
  ASSUME Ordered, Sound, NEW r \in Runs, Others(r), UNCHANGED <<file, raced>>, pc'[r] # "write",
         undercut' = undercut \/ undercut' = undercut \ {r}, Seen(r)'
  PROVE  Sound'
<1>1. \A f \in Files : Started(f)'
  BY StartedStays DEF Sound
<1>2. \A s \in Runs : Seen(s)'
  BY OtherSeen DEF Sound
<1> QED
  BY <1>1, <1>2 DEF Sound

\* A run that neither loads nor opens has seen nothing.
LEMMA NothingSeen ==
  ASSUME NEW r \in Runs, pc'[r] \notin {"load", "check", "using"}
  PROVE  Seen(r)'
BY DEF Seen

LEMMA NoneBegins ==
  ASSUME NEW q \in Seq(AnyPart) PROVE Begins(<<>>, q)
<1>1. Len(<<>>) = 0 /\ Len(q) \in Nat
  BY EmptySeq, LenProperties
<1> QED
  BY <1>1 DEF Begins

\* A run that has just begun to load neither.
LEMMA LoadBegun ==
  ASSUME Ordered', NEW r \in Runs, pc'[r] = "load", mem'[r] = <<>>
  PROVE  Seen(r)'
<1>1. Reads(command[r])' \in Files
  BY DEF Reads, Files
<1>2. file'[Reads(command'[r])].parts \in Seq(AnyPart)
  BY <1>1 DEF Ordered, TypeOK, Reads
<1>3. Begins(mem'[r], file'[Reads(command'[r])].parts)
  BY <1>2, NoneBegins
<1> QED
  BY <1>3 DEF Seen, Begins, Reads

LEMMA EndSound ==
  ASSUME Ordered, Sound, NEW r \in Runs, End(r), UNCHANGED <<file, raced>>
  PROVE  Sound'
<1>1. Others(r) /\ pc'[r] = "idle" /\ undercut' = undercut \ {r}
  BY EndStays, EndFacts
<1>2. Seen(r)'
  BY <1>1, NothingSeen
<1> QED
  BY <1>1, <1>2, QuietSound

LEMMA StartSound ==
  ASSUME Ordered, Sound, NEW r \in Runs, NEW c \in Commands, NEW d \in Datasets, Start(r, c, d)
  PROVE  Sound'
<1>1. Ordered' /\ Others(r)
  BY StartOrdered
<1>2. /\ pc[r] = "idle" /\ UNCHANGED <<file, mem, at, blocks, raced, undercut>>
      /\ pc' = [pc EXCEPT ![r] = CASE c = "train" -> "create" [] c = "serve" -> "open"
                                   [] c = "sq8" -> "load" [] OTHER -> "look"]
  BY DEF Start, Goto
<1>3. pc'[r] \in {"create", "open", "load", "look"}
  BY <1>2 DEF Commands, Ordered, TypeOK
<1>4. mem'[r] = <<>>
  <2>1. RunOf(r)
    BY RunFacts
  <2> QED
    BY <1>2, <2>1 DEF RunOf, OrderOf
<1>5. Seen(r)'
  BY <1>1, <1>3, <1>4, LoadBegun, NothingSeen
<1> QED
  BY <1>1, <1>2, <1>3, <1>5, QuietSound

LEMMA LookSound ==
  ASSUME Ordered, Sound, NEW r \in Runs, LookForGraph(r) \/ LookForIndex(r)
  PROVE  Sound'
<1>1. Ordered' /\ Others(r)
  BY LookOrdered
<1>2. CASE End(r)
  BY <1>2, EndSound DEF LookForGraph, LookForIndex
<1>3. CASE ~ End(r)
  <2>1. /\ pc[r] = "look" /\ UNCHANGED <<file, raced, mem, undercut>>
        /\ \E where \in {"load", "create", "open"} : pc' = [pc EXCEPT ![r] = where]
    BY <1>3 DEF LookForGraph, LookForIndex, GoOpen, Goto
  <2>2. pc'[r] \in {"load", "create", "open"}
    BY <2>1 DEF Ordered, TypeOK
  <2>3. mem'[r] = <<>>
    <3>1. RunOf(r)
      BY RunFacts
    <3> QED
      BY <2>1, <3>1 DEF RunOf, OrderOf
  <2>4. Seen(r)'
    BY <1>1, <2>2, <2>3, LoadBegun, NothingSeen
  <2> QED
    BY <1>1, <2>1, <2>2, <2>4, QuietSound
<1> QED
  BY <1>2, <1>3

LEMMA LoadSound ==
  ASSUME Ordered, Sound, NEW r \in Runs, Load(r) \/ Loaded(r)
  PROVE  Sound'
<1>1. Ordered' /\ Others(r)
  BY LoadOrdered
<1>2. CASE End(r)
  BY <1>2, EndSound DEF Load, Loaded
<1>3. CASE Load(r) /\ ~ End(r)
  <2> DEFINE f == Reads(command[r])
             next == Len(mem[r]) + 1
             parts == file[f].parts
             a == Append(mem[r], parts[next])
  <2>1. /\ pc[r] = "load" /\ next <= Len(parts)
        /\ mem' = [mem EXCEPT ![r] = a]
        /\ UNCHANGED <<file, raced, pc, command, data, at, blocks, undercut>>
    BY <1>3 DEF Load, Ordered, TypeOK
  <2>2. mem'[r] = a
    BY <2>1 DEF Ordered, TypeOK
  <2>3. f \in Files
    BY DEF Reads, Files
  <2>4. parts \in Seq(AnyPart) /\ mem[r] \in Seq(AnyPart)
    BY <2>3 DEF Ordered, TypeOK
  <2>5. ASSUME Undisturbed(f, r) PROVE Begins(a, parts)
    <3>1. Begins(mem[r], parts)
      BY <2>1, <2>5 DEF Sound, Seen
    <3> HIDE DEF parts, f
    <3>2. /\ Len(mem[r]) \in Nat /\ Len(parts) \in Nat
          /\ next \in 1 .. Len(parts)
      BY <2>1, <2>4, LenProperties
    <3>3. parts[next] \in AnyPart
      BY <2>4, <3>2, ElementOfSeq
    <3> DEFINE m == mem[r]
    <3> HIDE DEF m
    <3>4. m \in Seq(AnyPart) /\ Begins(m, parts) /\ next = Len(m) + 1 /\ a = Append(m, parts[next]) /\ Len(m) \in Nat
      BY <2>4, <3>1, <3>2 DEF m
    <3> HIDE DEF a, next
    <3>5. /\ Len(a) = Len(m) + 1 /\ a[Len(m) + 1] = parts[next]
          /\ \A i \in 1 .. Len(m) : a[i] = m[i]
      BY <3>3, <3>4, AppendProperties
    <3>6. \A i \in 1 .. Len(a) : i \in 1 .. Len(m) \/ i = Len(m) + 1
      BY <3>4, <3>5
    <3>7. Len(a) <= Len(parts)
      BY <3>2, <3>4, <3>5
    <3> QED
      BY <3>4, <3>5, <3>6, <3>7 DEF Begins
  <2> HIDE DEF a
  <2>6. Seen(r)'
    BY <2>1, <2>2, <2>5 DEF Seen, Undisturbed, Begins
  <2> QED
    BY <1>1, <2>1, <2>6, QuietSound
<1>4. CASE Loaded(r) /\ ~ End(r)
  <2>1. /\ UNCHANGED <<file, raced, undercut>>
        /\ \E where \in {"create", "open"} : pc' = [pc EXCEPT ![r] = where]
    BY <1>4 DEF Loaded, GoOpen, Goto
  <2>2. pc'[r] \in {"create", "open"}
    BY <2>1 DEF Ordered, TypeOK
  <2> QED
    BY <1>1, <2>1, <2>2, NothingSeen, QuietSound
<1> QED
  BY <1>2, <1>3, <1>4

LEMMA RestSound ==
  ASSUME Ordered, Sound, NEW r \in Runs, Close(r) \/ Open(r) \/ Check(r) \/ Finish(r)
  PROVE  Sound'
<1>1. Ordered' /\ Others(r)
  BY RestOrdered
<1>2. CASE End(r)
  BY <1>2, EndSound DEF Close, Open, Check, Finish
<1>3. CASE Close(r) /\ ~ End(r)
  <2>1. UNCHANGED <<file, raced, undercut>> /\ pc' = [pc EXCEPT ![r] = "open"]
    BY <1>3 DEF Close, GoOpen, Goto
  <2>2. pc'[r] = "open"
    BY <2>1 DEF Ordered, TypeOK
  <2> QED
    BY <1>1, <2>1, <2>2, NothingSeen, QuietSound
<1>4. CASE Open(r) /\ ~ End(r)
  <2> DEFINE n == Len(file["index"].parts)
  <2>1. /\ UNCHANGED <<file, raced, undercut>> /\ pc' = [pc EXCEPT ![r] = "check"]
        /\ blocks' = [blocks EXCEPT ![r] = n]
    BY <1>4 DEF Open, Goto
  <2>2. pc'[r] = "check" /\ blocks'[r] = n
    BY <2>1 DEF Ordered, TypeOK
  <2>3. n \in Nat
    <3>1. file["index"].parts \in Seq(AnyPart)
      BY DEF Ordered, TypeOK, Files
    <3> QED
      BY <3>1, LenProperties
  <2>4. Seen(r)'
    BY <2>1, <2>2, <2>3 DEF Seen
  <2> QED
    BY <1>1, <2>1, <2>2, <2>4, QuietSound
<1>5. CASE Check(r) /\ ~ End(r)
  <2> DEFINE parts == file["index"].parts
  <2>1. /\ pc[r] = "check" /\ HeaderFits(r) /\ Count[parts[1].src] = Count[data[r]]
        /\ UNCHANGED <<file, raced, data, undercut>> /\ pc' = [pc EXCEPT ![r] = "using"]
    BY <1>5 DEF Check, Goto
  <2>2. pc'[r] = "using"
    BY <2>1 DEF Ordered, TypeOK
  <2>3. Undisturbed("index", r) =>
          \E src \in Datasets : parts = Image("index", src) /\ Count[src] = Count[data[r]]
    BY <2>1, FitsIsWhole
  <2>4. Seen(r)'
    BY <2>1, <2>2, <2>3 DEF Seen, Undisturbed
  <2> QED
    BY <1>1, <2>1, <2>2, <2>4, QuietSound
<1> QED
  BY <1>2, <1>3, <1>4, <1>5 DEF Finish

-----------------------------------------------------------------------------
\* Making a file anew: who is alone with it is its one writer, and who was
\* looking at what it was has been undercut.
LEMMA CreateSound ==
  ASSUME Ordered, Sound, NEW r \in Runs, Create(r)
  PROVE  Sound'
<1>0. pc[r] = "create" /\ Writes(command[r]) \in Files
  BY WriterFacts DEF Create
<1> PICK f \in Files : f = Writes(command[r])
  BY <1>0
<1>1. /\ pc[r] = "create" /\ file' = [file EXCEPT ![f] = Empty] /\ pc' = [pc EXCEPT ![r] = "write"]
      /\ raced' = IF Writers(f, r) # {} THEN raced \cup {f} ELSE raced \ {f}
      /\ undercut' = undercut \cup Readers(f, r)
      /\ UNCHANGED <<command, data, mem, at, blocks>>
  BY DEF Create, Goto
<1>2. /\ f \in Files /\ data[r] \in Datasets /\ Mine(r) = Image(f, data[r]) /\ Mine(r) \in Seq(AnyPart)
      /\ Len(Mine(r)) >= 1 /\ Len(Mine(r)) \in Nat
  BY <1>1, WriterFacts
<1>3. Others(r) /\ Ordered'
  BY CreateOrdered
<1>4. pc'[r] = "write" /\ at'[r] = 0 /\ Mine(r)' = Mine(r) /\ Writes(command'[r]) = f
  <2>1. RunOf(r)
    BY RunFacts
  <2>2. Mine(r)' = Mine(r)
    BY <1>1 DEF Mine, Image, IndexImage, Writes
  <2> QED
    BY <1>1, <2>1, <2>2 DEF RunOf, OrderOf, Ordered, TypeOK
<1>5. /\ file'[f] = Empty /\ \A g \in Files : g # f => file'[g] = file[g]
  BY <1>1, <1>2, StateFacts, FileStep
<1>6. Empty.exists /\ Empty.parts = <<>> /\ ~ Empty.ragged /\ Len(<<>>) = 0
  BY StateFacts, EmptySeq
<1>7. Begins(<<>>, Mine(r))
  BY <1>2, NoneBegins
<1>8. Started(f)'
  <2>1. ASSUME f \notin raced', NEW s \in Runs, Writing(f, s)' PROVE s = r
    BY <1>1, <1>3, <2>1 DEF Writing, Writers, Others
  <2>2. ASSUME NEW s \in Runs, s = r
        PROVE  Len(file'[f].parts) = at'[s] /\ Begins(file'[f].parts, Mine(s)')
    BY <1>4, <1>5, <1>6, <1>7, <2>2
  <2>3. Begins(file'[f].parts, Image(f, data[r]))
    BY <1>2, <1>5, <1>6, <1>7
  <2>4. file'[f].exists /\ ~ file'[f].ragged /\ file'[f].parts = <<>>
    BY <1>5, <1>6
  <2> QED
    BY <1>2, <2>1, <2>2, <2>3, <2>4 DEF Started
<1>9. ASSUME NEW g \in Files, g # f PROVE Started(g)'
  <2>1. file'[g] = file[g] /\ (g \in raced' <=> g \in raced)
    BY <1>1, <1>5, <1>9
  <2> QED
    BY <1>3, <1>4, <1>9, <2>1, StartedStays DEF Sound
<1>10. ASSUME NEW s \in Runs, s # r PROVE Seen(s)'
  <2>1. /\ pc'[s] = pc[s] /\ command'[s] = command[s] /\ data'[s] = data[s] /\ mem'[s] = mem[s]
        /\ blocks'[s] = blocks[s] /\ Seen(s)
    BY <1>3, <1>10 DEF Others, Sound
  <2>2. \A g : g # f /\ Undisturbed(g, s)' => Undisturbed(g, s)
    BY <1>1 DEF Undisturbed
  <2>3. ASSUME pc[s] = "load", Undisturbed(Reads(command[s]), s)'
        PROVE  Begins(mem[s], file'[Reads(command[s])].parts)
    <3>1. Reads(command[s]) \in Files
      BY DEF Reads, Files
    <3>2. CASE Reads(command[s]) # f
      BY <1>5, <2>1, <2>2, <2>3, <3>1, <3>2 DEF Seen
    <3>3. CASE Reads(command[s]) = f
      <4>1. s \notin Readers(f, r)
        BY <1>1, <2>3 DEF Undisturbed
      <4>2. mem[s] = <<>>
        BY <1>10, <2>3, <3>3, <4>1 DEF Readers
      <4>3. <<>> \in Seq(AnyPart)
        BY EmptySeq
      <4> QED
        BY <1>5, <1>6, <3>3, <4>2, <4>3, NoneBegins
    <3> QED
      BY <3>2, <3>3
  <2>4. ASSUME pc[s] \in {"check", "using"}, Undisturbed("index", s)' PROVE f # "index"
    BY <1>1, <1>10, <2>4 DEF Undisturbed, Readers
  <2>5. ASSUME pc[s] \in {"check", "using"}, Undisturbed("index", s)'
        PROVE  file'["index"] = file["index"] /\ Undisturbed("index", s)
    BY <1>5, <2>2, <2>4, <2>5 DEF Files
  <2> QED
    BY <2>1, <2>3, <2>5 DEF Seen, Begins
<1>11. Seen(r)'
  BY <1>4, NothingSeen
<1> QED
  BY <1>8, <1>9, <1>10, <1>11 DEF Sound

\* Writing on: a file with one writer grows as what that has to write, and
\* nobody has seen the end of it yet.
LEMMA WriteSound ==
  ASSUME Ordered, Sound, NEW r \in Runs, WritePart(r)
  PROVE  Sound'
<1>0. /\ pc[r] = "write" /\ Writes(command[r]) \in Files /\ data[r] \in Datasets /\ at[r] \in Nat
      /\ Mine(r) \in Seq(AnyPart) /\ Mine(r) = Image(Writes(command[r]), data[r])
  BY WriteFacts, WriterFacts, RunFacts DEF RunOf
<1>11. PICK f \in Files : f = Writes(command[r])
  BY <1>0
<1>12. PICK mine \in Seq(AnyPart) : mine = Mine(r)
  BY <1>0
<1>13. PICK place \in Nat \ {0} : place = at[r] + 1
  BY <1>0
<1>1. /\ place \in 1 .. Len(mine) /\ mine[place] \in AnyPart
      /\ file'[f] = Written(file[f], place, mine[place])
      /\ \A g \in Files : g # f => file'[g] = file[g]
      /\ at' = [at EXCEPT ![r] = place]
      /\ UNCHANGED <<pc, command, data, mem, blocks, raced, undercut>>
  BY <1>11, <1>12, <1>13, WriteFacts
<1>2. Others(r) /\ Ordered'
  BY WriteOrdered
<1>3. Writing(f, r) /\ Mine(r)' = mine /\ at'[r] = place /\ mine = Image(f, data[r])
  BY <1>0, <1>1, <1>11, <1>12 DEF Writing, Mine, Image, IndexImage, Writes, Ordered, TypeOK
<1>4. file[f] \in FileState /\ file[f].parts \in Seq(AnyPart) /\ file'[f].parts \in Seq(AnyPart)
  BY <1>2 DEF Ordered, TypeOK, FileState
<1>5. ASSUME f \notin raced
      PROVE  /\ ~ file'[f].ragged /\ Len(file'[f].parts) = place /\ Begins(file'[f].parts, mine)
             /\ Len(file[f].parts) <= place /\ Len(file[f].parts) < Len(mine)
             /\ \A i \in 1 .. Len(file[f].parts) : file'[f].parts[i] = file[f].parts[i]
             /\ Begins(file[f].parts, mine)
             /\ \A s \in Runs : Writing(f, s) => s = r
  <2>1. /\ Len(file[f].parts) = at[r] /\ Begins(file[f].parts, mine)
        /\ \A s \in Runs : Writing(f, s) => s = r
    BY <1>3, <1>5, <1>12 DEF Sound, Started
  <2>2. place = Len(file[f].parts) + 1
    BY <1>13, <2>1
  <2> DEFINE old == file[f]
             part == mine[place]
             new == Written(old, place, part)
  <2>3. /\ ~ file'[f].ragged /\ Len(file'[f].parts) = place /\ file'[f].parts[place] = mine[place]
        /\ \A i \in 1 .. Len(file[f].parts) : file'[f].parts[i] = file[f].parts[i]
    <3>1. /\ ~ new.ragged /\ Len(new.parts) = place /\ new.parts[place] = part
          /\ \A i \in 1 .. Len(old.parts) : new.parts[i] = old.parts[i]
      <4>1. old \in FileState /\ part \in AnyPart /\ place = Len(old.parts) + 1
        BY <1>1, <1>4, <2>2
      <4> HIDE DEF old, part
      <4> QED
        BY <4>1, WrittenFacts
    <3> HIDE DEF new
    <3>2. file'[f] = new
      BY <1>1 DEF new
    <3> QED
      BY <3>1, <3>2
  <2>4. Len(file[f].parts) \in Nat /\ Len(mine) \in Nat
    BY <1>4, LenProperties
  <2>5. \A i \in 1 .. place : i \in 1 .. Len(file[f].parts) \/ i = place
    BY <2>2, <2>4
  <2>6. Begins(file'[f].parts, mine)
    BY <1>1, <2>1, <2>3, <2>4, <2>5 DEF Begins
  <2> QED
    BY <1>1, <2>1, <2>2, <2>3, <2>4, <2>6
<1>6. file'[f].exists
  BY <1>1, <1>4, WrittenFacts
<1>7. Started(f)'
  <2>1. \A s \in Runs : Writing(f, s)' => Writing(f, s)
    BY <1>1 DEF Writing
  <2>2. ASSUME f \notin raced', NEW s \in Runs, Writing(f, s)'
        PROVE  /\ file'[f].exists /\ ~ file'[f].ragged
               /\ Len(file'[f].parts) = at'[s] /\ Begins(file'[f].parts, Mine(s)')
               /\ \A u \in Runs : Writing(f, u)' => u = s
    BY <1>1, <1>3, <1>5, <1>6, <2>1, <2>2
  <2>3. f \notin raced' => \E src \in Datasets :
            /\ Begins(file'[f].parts, Image(f, src))
            /\ file'[f].ragged => Len(file'[f].parts) < Len(Image(f, src))
    BY <1>0, <1>1, <1>3, <1>5
  <2>4. ~ file'[f].exists => file'[f].parts = <<>>
    BY <1>6
  <2> QED
    BY <2>2, <2>3, <2>4 DEF Started
<1>8. ASSUME NEW g \in Files, g # f PROVE Started(g)'
  <2>1. Writes(command'[r]) = f
    BY <1>1, <1>11
  <2> QED
    BY <1>1, <1>2, <1>8, <2>1, StartedStays DEF Sound
<1>9. ASSUME NEW s \in Runs, s # r PROVE Seen(s)'
  <2>1. Seen(s) /\ \A g \in Files : Undisturbed(g, s)' => Undisturbed(g, s)
    BY <1>1 DEF Sound, Undisturbed
  <2>2. ASSUME NEW g \in Files, g \notin raced, NEW p \in Seq(AnyPart), Begins(p, file[g].parts)
        PROVE  Begins(p, file'[g].parts)
    <3>1. CASE g = f
      BY <1>4, <1>5, <2>2, <3>1, BeginsOn
    <3>2. CASE g # f
      BY <1>1, <2>2, <3>2
    <3> QED
      BY <3>1, <3>2
  <2>3. ASSUME pc[s] = "load", Undisturbed(Reads(command[s]), s)
        PROVE  Begins(mem[s], file'[Reads(command[s])].parts)
    <3>1. Reads(command[s]) \in Files /\ mem[s] \in Seq(AnyPart)
      BY DEF Reads, Files, Ordered, TypeOK
    <3>2. Begins(mem[s], file[Reads(command[s])].parts)
      BY <2>1, <2>3 DEF Seen
    <3> QED
      BY <2>2, <2>3, <3>1, <3>2 DEF Undisturbed
  <2>4. ASSUME pc[s] = "check", Undisturbed("index", s)
        PROVE  blocks[s] <= Len(file'["index"].parts)
    <3>1. blocks[s] <= Len(file["index"].parts) /\ "index" \notin raced /\ "index" \in Files
      BY <2>1, <2>4 DEF Seen, Undisturbed, Files
    <3>2. blocks[s] \in Nat /\ Len(file["index"].parts) \in Nat
      BY <3>1, LenProperties DEF Ordered, TypeOK
    <3>3. CASE f = "index"
      BY <1>5, <3>1, <3>2, <3>3
    <3>4. CASE f # "index"
      BY <1>1, <3>1, <3>4
    <3> QED
      BY <3>3, <3>4
  <2>5. ASSUME pc[s] = "using", Undisturbed("index", s), f = "index" PROVE FALSE
    <3>1. PICK src \in Datasets : file["index"].parts = Image("index", src)
      BY <2>1, <2>5 DEF Seen
    <3>2. /\ Image(f, src)[1].src = src /\ Image(f, data[r])[1].src = data[r]
          /\ Image(f, src) \in Seq(AnyPart) /\ Len(Image(f, src)) >= 1 /\ Len(Image(f, src)) \in Nat
      BY <1>0, ImageFacts
    <3>3. 1 \in 1 .. Len(Image(f, src))
      BY <3>2
    <3>4. Begins(Image(f, src), mine) /\ Len(Image(f, src)) < Len(mine)
      BY <1>5, <2>5, <3>1 DEF Undisturbed
    <3>5. src = data[r]
      BY <1>3, <3>2, <3>3, <3>4 DEF Begins
    <3> QED
      BY <1>3, <3>2, <3>4, <3>5
  <2>6. pc'[s] = pc[s] /\ command'[s] = command[s] /\ mem'[s] = mem[s] /\ blocks'[s] = blocks[s] /\ data'[s] = data[s]
    BY <1>1
  <2>7. Reads(command[s]) \in Files /\ "index" \in Files
    BY DEF Reads, Files
  <2>8. pc[s] = "using" /\ Undisturbed("index", s) => file'["index"] = file["index"]
    BY <1>1, <2>5, <2>7
  <2> QED
    BY <2>1, <2>3, <2>4, <2>6, <2>7, <2>8 DEF Seen, Begins
<1>10. Seen(r)'
  BY <1>0, <1>1, NothingSeen
<1> QED
  BY <1>7, <1>8, <1>9, <1>10 DEF Sound

\* A crash in the middle of a file: what is torn ends short of the whole.
LEMMA CrashSound ==
  ASSUME Ordered, Sound, NEW r \in Runs, Crash(r)
  PROVE  Sound'
<1>1. /\ End(r) /\ raced' = raced /\ Ordered' /\ Others(r)
      /\ pc'[r] = "idle" /\ undercut' = undercut \ {r}
  BY CrashFacts, CrashOrdered, EndFacts
<1>2. CASE UNCHANGED file
  BY <1>1, <1>2, EndSound
<1>3. CASE file' # file
  <2>1. /\ pc[r] = "write" /\ at[r] < Len(Mine(r)) /\ Writes(command[r]) \in Files
        /\ \E torn \in BOOLEAN :
             LET f == Writes(command[r]) IN
             /\ file'[f] = Ragged(file[f], torn)
             /\ \A g \in Files : g # f => file'[g] = file[g]
    BY <1>3, CrashFacts
  <2>2. PICK f \in Files : f = Writes(command[r])
    BY <2>1
  <2>3. PICK torn \in BOOLEAN : /\ file'[f] = Ragged(file[f], torn)
                                /\ \A g \in Files : g # f => file'[g] = file[g]
    BY <2>1, <2>2
  <2>4. file[f] \in FileState
    BY DEF Ordered, TypeOK, FileState
  <2>5. file'[f].exists = file[f].exists /\ file'[f].parts = file[f].parts
    <3> DEFINE old == file[f]
    <3>1. old \in FileState /\ file'[f] = Ragged(old, torn)
      BY <2>3, <2>4
    <3> HIDE DEF old
    <3>2. Ragged(old, torn).exists = old.exists /\ Ragged(old, torn).parts = old.parts
      BY <3>1, StateFacts
    <3> QED
      BY <3>1, <3>2 DEF old
  <2>6. \A g \in Files : file'[g].parts = file[g].parts
    BY <2>3, <2>5
  <2>7. Started(f)'
    <3>1. ~ file'[f].exists => file'[f].parts = <<>>
      BY <2>5 DEF Sound, Started
    <3>2. data[r] \in Datasets /\ Mine(r) = Image(f, data[r])
      BY <2>1, <2>2, WriterFacts
    <3>3. Writing(f, r)
      BY <2>1, <2>2 DEF Writing
    <3>4. ASSUME f \notin raced'
          PROVE  /\ Len(file[f].parts) < Len(Image(f, data[r]))
                 /\ Begins(file[f].parts, Image(f, data[r]))
                 /\ \A s \in Runs : Writing(f, s) => s = r
      BY <1>1, <2>1, <3>2, <3>3, <3>4 DEF Sound, Started
    <3>5. ASSUME f \notin raced', NEW s \in Runs, Writing(f, s)' PROVE FALSE
      <4>1. s # r /\ Writing(f, s)
        BY <1>1, <3>5 DEF Writing, Others
      <4> QED
        BY <3>4, <3>5, <4>1
    <3>6. f \notin raced' => \E src \in Datasets :
            /\ Begins(file'[f].parts, Image(f, src))
            /\ file'[f].ragged => Len(file'[f].parts) < Len(Image(f, src))
      BY <2>5, <3>2, <3>4
    <3> QED
      BY <3>1, <3>5, <3>6 DEF Started
  <2>8. ASSUME NEW g \in Files, g # f PROVE Started(g)'
    BY <1>1, <2>3, <2>8, StartedStays DEF Sound
  <2>9. ASSUME NEW s \in Runs, s # r PROVE Seen(s)'
    <3>1. /\ pc'[s] = pc[s] /\ command'[s] = command[s] /\ data'[s] = data[s] /\ mem'[s] = mem[s]
          /\ blocks'[s] = blocks[s] /\ Seen(s)
      BY <1>1, <2>9 DEF Others, Sound
    <3>2. \A g : Undisturbed(g, s)' => Undisturbed(g, s)
      BY <1>1, <2>9 DEF Undisturbed
    <3>3. Reads(command[s]) \in Files /\ "index" \in Files
      BY DEF Reads, Files
    <3>4. file'[Reads(command[s])].parts = file[Reads(command[s])].parts
          /\ file'["index"].parts = file["index"].parts
      BY <2>6, <3>3
    <3> QED
      BY <3>1, <3>2, <3>4 DEF Seen, Begins
  <2>10. Seen(r)'
    BY <1>1, NothingSeen
  <2> QED
    BY <2>7, <2>8, <2>9, <2>10 DEF Sound
<1> QED
  BY <1>2, <1>3

LEMMA DeleteSound ==
  ASSUME Ordered, Sound, NEW f \in Files, Delete(f)
  PROVE  Sound'
<1>1. /\ \A r \in Runs : pc'[r] = "idle"
      /\ file' = [file EXCEPT ![f] = Absent] /\ raced' = raced \ {f}
  BY DEF Delete, runVars
<1>2. file'[f] = Absent /\ \A g \in Files : g # f => file'[g] = file[g]
  BY <1>1, StateFacts, FileStep
<1>3. \A g \in Files, r \in Runs : ~ Writing(g, r)'
  BY <1>1 DEF Writing
<1>4. Started(f)'
  BY <1>2, <1>3, StateFacts DEF Started
<1>5. ASSUME NEW g \in Files, g # f PROVE Started(g)'
  <2>1. Started(g) /\ file'[g] = file[g] /\ (g \in raced' <=> g \in raced)
    BY <1>1, <1>2, <1>5 DEF Sound
  <2> QED
    BY <1>3, <2>1 DEF Started
<1>6. \A r \in Runs : Seen(r)'
  BY <1>1, NothingSeen
<1> QED
  BY <1>4, <1>5, <1>6 DEF Sound

-----------------------------------------------------------------------------
LEMMA Halves == IndInv <=> Ordered /\ Sound
BY DEF IndInv, Ordered, Sound

LEMMA RunInd ==
  ASSUME Ordered, Sound, NEW r \in Runs, Run(r)
  PROVE  Ordered' /\ Sound'
<1>1. CASE LookForGraph(r) \/ LookForIndex(r)
  BY <1>1, LookOrdered, LookSound
<1>2. CASE Load(r) \/ Loaded(r)
  BY <1>2, LoadOrdered, LoadSound
<1>3. CASE Create(r)
  BY <1>3, CreateOrdered, CreateSound
<1>4. CASE WritePart(r)
  BY <1>4, WriteOrdered, WriteSound
<1>5. CASE Close(r) \/ Open(r) \/ Check(r) \/ Finish(r)
  BY <1>5, RestOrdered, RestSound
<1>6. CASE Crash(r)
  BY <1>6, CrashOrdered, CrashSound
<1> QED
  BY <1>1, <1>2, <1>3, <1>4, <1>5, <1>6 DEF Run

LEMMA StutterInd ==
  ASSUME IndInv, UNCHANGED vars
  PROVE  IndInv'
<1>1. /\ file' = file /\ pc' = pc /\ command' = command /\ data' = data /\ mem' = mem /\ at' = at
      /\ blocks' = blocks /\ raced' = raced /\ undercut' = undercut
  BY DEF vars, runVars
<1>2. \A r \in Runs : Mine(r)' = Mine(r)
  BY <1>1 DEF Mine, Image, IndexImage, Writes
<1>3. TypeOK'
  BY <1>1, <1>2 DEF IndInv, TypeOK
<1>4. InOrder'
  BY <1>1 DEF IndInv, InOrder
<1>5. ASSUME NEW f \in Files PROVE Started(f)'
  BY <1>1, <1>2 DEF IndInv, Started, Writing
<1>6. ASSUME NEW r \in Runs PROVE Seen(r)'
  BY <1>1 DEF IndInv, Seen, Undisturbed, Begins
<1> QED
  BY <1>3, <1>4, <1>5, <1>6 DEF IndInv

LEMMA InitInd == Init => IndInv
<1> SUFFICES ASSUME Init PROVE IndInv
  OBVIOUS
<1>1. <<>> \in Seq(AnyPart) /\ Len(<<>>) = 0
  BY EmptySeq
<1>2. TypeOK
  <2>1. file \in [Files -> FileState]
    BY StateFacts DEF Init
  <2>2. mem \in [Runs -> Seq(AnyPart)] /\ \A r \in Runs : Len(mem[r]) <= 2
    BY <1>1 DEF Init
  <2> QED
    BY <2>1, <2>2 DEF Init, TypeOK, FileState
<1>3. InOrder
  BY DEF Init, InOrder
<1>4. \A f \in Files : Started(f)
  BY StateFacts DEF Init, Started, Writing
<1>5. \A r \in Runs : Seen(r)
  BY DEF Init, Seen
<1> QED
  BY <1>2, <1>3, <1>4, <1>5 DEF IndInv

\* IndInv holds whatever runs overlap, and however many of them are killed.
THEOREM InvariantHolds == Spec => []IndInv
<1>1. ASSUME IndInv, [Next]_vars PROVE IndInv'
  <2>1. Ordered /\ Sound
    BY <1>1, Halves
  <2>2. CASE UNCHANGED vars
    BY <1>1, <2>2, StutterInd
  <2>3. ASSUME NEW r \in Runs, NEW c \in Commands, NEW d \in Datasets, Start(r, c, d)
        PROVE  Ordered' /\ Sound'
    BY <2>1, <2>3, StartOrdered, StartSound
  <2>4. ASSUME NEW f \in {"graph", "index"}, Delete(f) PROVE Ordered' /\ Sound'
    <3>1. f \in Files
      BY DEF Files
    <3> QED
      BY <2>1, <2>4, <3>1, DeleteOrdered, DeleteSound
  <2>5. Next => Ordered' /\ Sound'
    BY <2>1, <2>3, <2>4, RunInd DEF Next
  <2>6. Ordered' /\ Sound' => IndInv'
    BY DEF IndInv, Ordered, Sound
  <2> QED
    BY <1>1, <2>2, <2>5, <2>6
<1> QED
  BY <1>1, InitInd, PTL DEF Spec

\* Every variable has its type, and a block holds nodes of its dataset only.
THEOREM TypeCorrect == Spec => []TypeOK
<1>1. IndInv => TypeOK
  BY DEF IndInv
<1> QED
  BY <1>1, InvariantHolds, PTL

LEMMA PairIsSome == \A m \in Seq(AnyPart) : Len(m) = 2 => m # <<>>
BY EmptySeq

LEMMA PairBegins ==
  ASSUME NEW m \in Seq(AnyPart), NEW p \in Seq(AnyPart), Len(m) = 2, Begins(m, p)
  PROVE  p # <<>> /\ Len(p) >= 2
<1>1. \A q \in Seq(AnyPart) : q = <<>> => Len(q) = 0
  BY EmptySeq
<1>2. Len(p) >= 2 /\ Len(p) # 0
  BY BeginsFacts
<1> QED
  BY <1>1, <1>2

\* What a run has loaded is one save, whole, of one run.
THEOREM LoadsAreWhole == Spec => []LoadedIsWhole
<1>1. IndInv => LoadedIsWhole
  <2> SUFFICES ASSUME Ordered, Sound, NEW r \in Runs, NEW f, f = Reads(command[r]),
                      Len(mem[r]) = 2, Undisturbed(f, r)
               PROVE  OneSave(f, mem[r])
    BY Halves DEF LoadedIsWhole
  <2>1. /\ f \in Files /\ f # "index" /\ mem[r] \in Seq(AnyPart) /\ file[f].parts \in Seq(AnyPart)
    BY DEF Reads, Files, Ordered, TypeOK
  <2>2. mem[r] # <<>>
    BY <2>1, PairIsSome
  <2>3. pc[r] = "load"
    BY <2>2 DEF Ordered, InOrder
  <2>4. Begins(mem[r], file[f].parts)
    BY <2>3 DEF Sound, Seen
  <2> DEFINE parts == file[f].parts
  <2>5. parts # <<>> /\ Len(parts) >= 2
    BY <2>1, <2>4, PairBegins
  <2>6. PICK src \in Datasets : Begins(parts, Image(f, src))
    BY <2>1, <2>5, SaveBegun DEF Sound, Undisturbed
  <2>7. Image(f, src) \in Seq(AnyPart) /\ Len(Image(f, src)) = 2
    BY <2>1, ImageFacts
  <2> HIDE DEF parts
  <2>8. parts = Image(f, src)
    BY <2>1, <2>5, <2>6, <2>7, BeginsFacts DEF parts
  <2>9. mem[r] = parts
    BY <2>1, <2>4, <2>7, <2>8, BeginsFacts DEF parts
  <2> QED
    BY <2>8, <2>9 DEF OneSave
<1> QED
  BY <1>1, InvariantHolds, PTL

\* An index in use is whole and stays so, and has every node the run counts on
\* at the place where locate says it is.
THEOREM IndexIsWhole == Spec => []IndexInUse
<1>1. IndInv => IndexInUse
  <2> SUFFICES ASSUME Ordered, Sound, NEW r \in Runs, pc[r] = "using", Undisturbed("index", r)
               PROVE  /\ OneSave("index", file["index"].parts)
                      /\ \A n \in 0 .. Count[data[r]] - 1 :
                           LET place == Locate(n) IN
                           file["index"].parts[place.block + 1].nodes[place.slot + 1] = n
    BY Halves DEF IndexInUse
  <2>1. PICK src \in Datasets :
          file["index"].parts = Image("index", src) /\ Count[src] = Count[data[r]]
    BY DEF Sound, Seen
  <2> DEFINE num == Count[src]
             index == "index"
  <2>2. num \in Nat /\ index \in Files
    BY FileAssumption DEF Files
  <2> HIDE DEF index, num
  <2>3. ASSUME NEW n \in 0 .. num - 1
        PROVE  Image(index, src)[Locate(n).block + 1].nodes[Locate(n).slot + 1] = n
    <3> DEFINE block == Locate(n).block
    <3>1. /\ block \in 1 .. DataBlocks(num)
          /\ NodesOf(num, block)[Locate(n).slot + 1] = n
      BY <2>2, LocateFindsNode
    <3> HIDE DEF block
    <3>2. Image(index, src)[1 + block].nodes = NodesOf(num, block)
      BY <2>2, <3>1, ImageFacts DEF index, num
    <3>3. 1 + block = block + 1
      BY <3>1
    <3> QED
      BY <3>1, <3>2, <3>3 DEF block
  <2> QED
    BY <2>1, <2>3 DEF OneSave, index, num
<1> QED
  BY <1>1, InvariantHolds, PTL

\* A run refuses a whole file for no other reason than those of Excuse.
THEOREM RefusalsExcused == Spec => WholeIsAccepted
<1>1. ASSUME IndInv, NEW r \in Runs, Refuses(r) PROVE Excuse(r)
  <2>1. Ordered /\ Sound /\ pc'[r] = "idle" /\ pc \in [Runs -> Places]
    BY <1>1, Halves DEF Refuses, Ordered, TypeOK, Places
  <2>2. CASE LookForIndex(r)
    <3>1. pc[r] = "look" /\ (file["index"].exists \/ file["graph"].exists =>
            pc' = [pc EXCEPT ![r] = "open"] \/ pc' = [pc EXCEPT ![r] = "load"])
      BY <2>2 DEF LookForIndex, GoOpen, Goto
    <3>2. ~ file["index"].exists /\ ~ file["graph"].exists
      BY <2>1, <3>1
    <3> QED
      BY <3>1, <3>2 DEF Excuse
  <2>3. CASE Load(r)
    <3>0. Reads(command[r]) \in {"graph", "codes"}
      BY DEF Reads
    <3>1. PICK f \in {"graph", "codes"} : f = Reads(command[r])
      BY <3>0
    <3> DEFINE parts == file[f].parts
               m == mem[r]
    <3>2. pc[r] = "load"
      BY <2>3 DEF Load
    <3>3. /\ Len(m) + 1 <= 2
          /\ \/ Len(m) + 1 > Len(parts)
             \/ Len(m) + 1 = 1 /\ parts[1].what # "header"
             \/ Len(m) + 1 = 2 /\ Count[parts[2].src] < Count[m[1].src]
      BY <2>1, <2>3, <3>1 DEF Load
    <3>4. ASSUME Whole(f), Undisturbed(f, r) PROVE FALSE
      <4>1. PICK src \in Datasets : parts = Image(f, src)
        BY <3>4 DEF Whole, OneSave
      <4>2. f \in Files /\ f # "index"
        BY DEF Files
      <4>3. /\ parts[1].what = "header" /\ parts[1].src = src /\ Len(parts) = 2 /\ parts[2].src = src
            /\ parts \in Seq(AnyPart)
        BY <4>1, <4>2, ImageFacts
      <4>4. m \in Seq(AnyPart) /\ Begins(m, parts)
        BY <2>1, <3>1, <3>2, <3>4 DEF Sound, Seen, Ordered, TypeOK
      <4> HIDE DEF m, parts
      <4>5. Len(m) \in Nat
        BY <4>4, LenProperties
      <4>6. Len(m) + 1 = 2 /\ Count[parts[2].src] < Count[m[1].src]
        BY <3>3, <4>3, <4>5
      <4>7. 1 \in 1 .. Len(m)
        BY <4>6
      <4>8. m[1] = parts[1]
        BY <4>4, <4>7 DEF Begins
      <4>9. Count[src] < Count[src] /\ Count[src] \in Nat
        BY <4>3, <4>6, <4>8, FileAssumption
      <4> QED
        BY <4>9
    <3> QED
      BY <3>1, <3>2, <3>4 DEF Excuse
  <2>4. CASE Loaded(r) /\ command[r] # "vamana"
    <3>1. /\ pc[r] = "load" /\ Len(mem[r]) = 2
          /\ ~ (command[r] = "disk" /\ Count[mem[r][1].src] # Count[data[r]]) =>
               pc' = [pc EXCEPT ![r] = "open"] \/ pc' = [pc EXCEPT ![r] = "create"]
      BY <2>4 DEF Loaded, GoOpen, Goto
    <3>2. command[r] = "disk" /\ Count[mem[r][1].src] # Count[data[r]]
      BY <2>1, <3>1
    <3>3. Reads(command[r]) = "graph"
      BY <3>2 DEF Reads
    <3>4. mem[r] # <<>>
      BY <2>1, <3>1, PairIsSome DEF Ordered, TypeOK
    <3> QED
      BY <3>1, <3>2, <3>3, <3>4 DEF Excuse
  <2>5. CASE Open(r)
    <3>1. pc[r] = "open" /\ (~ file["index"].exists \/ file["index"].ragged)
      BY <2>1, <2>5 DEF Open, Goto
    <3>2. ASSUME Whole("index") PROVE FALSE
      <4>1. PICK src \in Datasets : file["index"].parts = Image("index", src)
        BY <3>2 DEF Whole, OneSave
      <4>2. file["index"].parts = <<>>
        BY <2>1, <3>1, <3>2 DEF Whole, Sound, Started, Files
      <4>3. Len(Image("index", src)) >= 1
        BY ImageFacts DEF Files
      <4> QED
        BY <4>1, <4>2, <4>3, EmptySeq
    <3> QED
      BY <3>1, <3>2 DEF Excuse
  <2>6. CASE Check(r)
    <3> DEFINE parts == file["index"].parts
    <3>1. pc[r] = "check" /\ ~ (HeaderFits(r) /\ Count[parts[1].src] = Count[data[r]])
      BY <2>1, <2>6 DEF Check, Goto
    <3>2. ASSUME Whole("index"), blocks[r] = Len(parts), Count[parts[1].src] = Count[data[r]]
          PROVE  FALSE
      <4>1. PICK src \in Datasets : parts = Image("index", src)
        BY <3>2 DEF Whole, OneSave
      <4>2. /\ Len(parts) = 1 + DataBlocks(Count[src]) /\ parts[1].src = src /\ parts[1].what = "header"
            /\ Len(parts) >= 1
        BY <4>1, ImageFacts DEF Files
      <4>3. parts # <<>>
        BY <4>2, EmptySeq
      <4>4. blocks[r] = 1 + DataBlocks(Count[parts[1].src]) /\ blocks[r] > 0
        <5>1. blocks[r] \in Nat
          BY <2>1 DEF Ordered, TypeOK
        <5> QED
          BY <3>2, <4>2, <5>1
      <4>5. HeaderFits(r)
        BY <4>2, <4>3, <4>4 DEF HeaderFits
      <4> QED
        BY <3>1, <3>2, <4>5
    <3> QED
      BY <3>1, <3>2 DEF Excuse
  <2> QED
    BY <1>1, <2>2, <2>3, <2>4, <2>5, <2>6 DEF Refuses
<1>2. IndInv /\ [Next]_vars => [\A r \in Runs : Refuses(r) => Excuse(r)]_vars
  BY <1>1
<1> QED
  BY <1>2, InvariantHolds, PTL DEF Spec, WholeIsAccepted

=============================================================================
