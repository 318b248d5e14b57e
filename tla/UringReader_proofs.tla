------------------------- MODULE UringReader_proofs -------------------------
(***************************************************************************)
(* Theorems about UringReader, for every set of threads, every set of      *)
(* batches of any length, every queue depth and every set of faults.       *)
(***************************************************************************)
EXTENDS UringReader, SequenceTheorems, FiniteSetTheorems, TLAPS

\* The parts of the invariant: what holds always, what holds until a first
\* error, and OkMeansRead, which rests on both and outlives the error.
Always == TypeOK /\ LockHeld /\ Validated
Intact == RingDrained /\ OneChunkAtATime /\ Progress

\* The user_data of a queue, after one more entry, and after its tail is left.
LEMMA UdsAppend ==
  ASSUME NEW S, NEW q \in Seq(S), NEW x \in S
  PROVE  /\ Append(q, x) \in Seq(S)
         /\ UdsIn(Append(q, x)) = UdsIn(q) \cup {x.ud}
         /\ \A i \in DOMAIN Append(q, x) :
              \/ i \in DOMAIN q /\ Append(q, x)[i] = q[i]
              \/ i \notin DOMAIN q /\ i = Len(q) + 1 /\ Append(q, x)[i] = x
<1> DEFINE a == Append(q, x)
<1>1. /\ a \in Seq(S) /\ Len(q) \in Nat
      /\ DOMAIN a = 1 .. Len(q) + 1 /\ DOMAIN q = 1 .. Len(q)
      /\ \A i \in 1 .. Len(q) : a[i] = q[i]
      /\ a[Len(q) + 1] = x
  BY AppendProperties, LenProperties
<1> HIDE DEF a
<1>2. \A i \in DOMAIN a : i \in DOMAIN q \/ (i \notin DOMAIN q /\ i = Len(q) + 1)
  BY <1>1
<1>3. UdsIn(a) \subseteq UdsIn(q) \cup {x.ud}
  BY <1>1, <1>2 DEF UdsIn
<1>4. UdsIn(q) \subseteq UdsIn(a)
  BY <1>1 DEF UdsIn
<1>5. x.ud \in UdsIn(a)
  <2>1. Len(q) + 1 \in DOMAIN a
    BY <1>1
  <2> QED
    BY <1>1, <2>1 DEF UdsIn
<1> QED
  BY <1>1, <1>2, <1>3, <1>4, <1>5 DEF a

\* The entries a system call takes are apart from those it leaves, and
\* together they are all of them.
LEMMA UdsSplit ==
  ASSUME NEW S, NEW q \in Seq(S), NEW n \in 0 .. Len(q),
         \A i, j \in DOMAIN q : q[i].ud = q[j].ud => i = j
  PROVE  LET rest  == SubSeq(q, n + 1, Len(q))
             taken == {q[i] : i \in 1 .. n}
         IN  /\ \A d, e \in taken : d.ud = e.ud => d = e
             /\ UdsIn(rest) \cup UdsOf(taken) = UdsIn(q)
             /\ UdsIn(rest) \cap UdsOf(taken) = {}
             /\ \A i, j \in DOMAIN rest : rest[i].ud = rest[j].ud => i = j
             /\ \A i \in DOMAIN rest : \E j \in DOMAIN q : rest[i] = q[j]
             /\ \A e \in taken : \E j \in DOMAIN q : e = q[j]
<1> DEFINE rest  == SubSeq(q, n + 1, Len(q))
           taken == {q[i] : i \in 1 .. n}
<1>1. /\ Len(q) \in Nat /\ DOMAIN q = 1 .. Len(q) /\ n \in Nat /\ n <= Len(q)
      /\ \A i \in 1 .. Len(q) : q[i] \in S
  BY LenProperties
<1>2. /\ \A i \in 1 .. n : q[i] \in taken
      /\ \A e \in taken : \E i \in 1 .. n : e = q[i]
  OBVIOUS
<1>3. \A i \in n + 1 .. Len(q) : q[i] \in S
  BY <1>1
<1>4. /\ rest \in Seq(S)
      /\ Len(rest) = IF n + 1 <= Len(q) THEN Len(q) - (n + 1) + 1 ELSE 0
      /\ \A i \in 1 .. Len(q) - (n + 1) + 1 : rest[i] = q[n + 1 + i - 1]
  <2>1. n + 1 \in Int /\ Len(q) \in Int
    BY <1>1
  <2> QED
    BY <1>3, <2>1, SubSeqProperties
<1> HIDE DEF rest, taken
<1>5. DOMAIN rest = 1 .. Len(q) - n
  <2>1. \A m \in Nat : n <= m => (IF n + 1 <= m THEN m - (n + 1) + 1 ELSE 0) = m - n
    BY <1>1
  <2>2. Len(rest) = Len(q) - n
    BY <1>1, <1>4, <2>1
  <2>3. DOMAIN rest = 1 .. Len(rest)
    BY <1>4, LenProperties
  <2> QED
    BY <2>2, <2>3
<1>6. \A i \in DOMAIN rest : i + n \in DOMAIN q /\ rest[i] = q[i + n]
  <2> TAKE i \in DOMAIN rest
  <2>1. /\ i \in 1 .. Len(q) - (n + 1) + 1
        /\ n + 1 + i - 1 = i + n
        /\ i + n \in DOMAIN q
    BY <1>1, <1>5
  <2>2. rest[i] = q[n + 1 + i - 1]
    BY <1>4, <2>1
  <2> QED
    BY <2>1, <2>2
<1>7. \A i, j \in DOMAIN rest : rest[i].ud = rest[j].ud => i = j
  <2> TAKE i, j \in DOMAIN rest
  <2>1. rest[i].ud = rest[j].ud => i + n = j + n
    BY <1>6
  <2>2. i \in Int /\ j \in Int /\ n \in Int
    BY <1>1, <1>5
  <2> QED
    BY <2>1, <2>2
<1>8. \A j \in DOMAIN q : j \in 1 .. n \/ (j - n \in DOMAIN rest /\ rest[j - n] = q[j])
  <2> TAKE j \in DOMAIN q
  <2>1. CASE j > n
    <3>1. j - n \in DOMAIN rest /\ j - n + n = j
      BY <1>1, <1>5, <2>1
    <3> QED
      BY <1>6, <3>1
  <2>2. CASE j <= n
    BY <1>1, <2>2
  <2> QED
    BY <1>1, <2>1, <2>2
<1>9. UdsIn(rest) \cup UdsOf(taken) = UdsIn(q)
  <2>1. UdsIn(q) \subseteq UdsIn(rest) \cup UdsOf(taken)
    BY <1>2, <1>8 DEF UdsIn, UdsOf
  <2>2. UdsIn(rest) \subseteq UdsIn(q)
    BY <1>6 DEF UdsIn
  <2>3. UdsOf(taken) \subseteq UdsIn(q)
    <3>1. 1 .. n \subseteq DOMAIN q
      BY <1>1
    <3> QED
      BY <1>2, <3>1 DEF UdsIn, UdsOf
  <2> QED
    BY <2>1, <2>2, <2>3
<1>10. UdsIn(rest) \cap UdsOf(taken) = {}
  <2>1. \A i \in DOMAIN rest, j \in 1 .. n : i + n # j /\ j \in DOMAIN q
    BY <1>1, <1>5
  <2>2. \A i \in DOMAIN rest, j \in 1 .. n : rest[i].ud # q[j].ud
    BY <1>6, <2>1
  <2> QED
    BY <1>2, <2>2 DEF UdsIn, UdsOf
<1>11. \A d, e \in taken : d.ud = e.ud => d = e
  <2>1. 1 .. n \subseteq DOMAIN q
    BY <1>1
  <2> QED
    BY <1>2, <2>1
<1>12. \A e \in taken : \E j \in DOMAIN q : e = q[j]
  BY <1>1, <1>2
<1> QED
  BY <1>6, <1>7, <1>9, <1>10, <1>11, <1>12 DEF rest, taken

\* As many completions as there are places, no two for the same place: one
\* for each.
LEMMA EveryPlaceTaken ==
  ASSUME NEW S, NEW q \in Seq(S), NEW n \in Nat, Len(q) = n,
         \A i \in DOMAIN q : q[i].ud \in 0 .. n - 1,
         \A i, j \in DOMAIN q : q[i].ud = q[j].ud => i = j
  PROVE  UdsIn(q) = 0 .. n - 1
<1> DEFINE f == [i \in 1 .. n |-> q[i].ud]
<1>1. DOMAIN q = 1 .. n
  BY LenProperties
<1>2. f \in Injection(1 .. n, 0 .. n - 1)
  <2>1. f \in [1 .. n -> 0 .. n - 1]
    BY <1>1
  <2>2. \A i, j \in 1 .. n : f[i] = f[j] => i = j
    BY <1>1
  <2> HIDE DEF f
  <2> QED
    BY <2>1, <2>2 DEF Injection, IsInjective
<1>3. IsFiniteSet(1 .. n) /\ IsFiniteSet(0 .. n - 1)
  BY FS_Interval
<1>4. Cardinality(1 .. n) = n /\ Cardinality(0 .. n - 1) = n
  <2>1. Cardinality(1 .. n) = IF 1 > n THEN 0 ELSE n - 1 + 1
    BY FS_Interval
  <2>2. Cardinality(0 .. n - 1) = IF 0 > n - 1 THEN 0 ELSE n - 1 - 0 + 1
    BY FS_Interval
  <2> QED
    BY <2>1, <2>2
<1> HIDE DEF f
<1>5. f \in Surjection(1 .. n, 0 .. n - 1)
  BY <1>2, <1>3, <1>4, FS_Injection
<1>6. \A p \in 0 .. n - 1 : \E i \in 1 .. n : f[i] = p
  BY <1>5 DEF Surjection
<1>7. /\ \A i \in 1 .. n : f[i] = q[i].ud
      /\ UdsIn(q) = {q[i].ud : i \in 1 .. n}
  BY <1>1 DEF f, UdsIn
<1>8. \A p \in 0 .. n - 1 : p \in UdsIn(q)
  <2> TAKE p \in 0 .. n - 1
  <2>1. PICK i \in 1 .. n : f[i] = p
    BY <1>6
  <2>2. i \in DOMAIN q /\ q[i].ud = p
    BY <1>1, <1>7, <2>1
  <2> QED
    BY <2>2 DEF UdsIn
<1>9. \A p \in UdsIn(q) : p \in 0 .. n - 1
  BY DEF UdsIn
<1> QED
  BY <1>8, <1>9

-----------------------------------------------------------------------------
\* A chunk is not longer than the queue, and ends in its batch.
LEMMA ChunkFacts ==
  ASSUME TypeOK, NEW t \in Threads, start <= Len(batch[t])
  PROVE  /\ batch[t] \in Seq(0 .. NumBlocks)
         /\ Len(batch[t]) \in Nat /\ DOMAIN batch[t] = 1 .. Len(batch[t])
         /\ ChunkLen(t) \in 0 .. QueueDepth
         /\ start < Len(batch[t]) => ChunkLen(t) > 0
         /\ ChunkEnd(t) = start + ChunkLen(t)
         /\ ChunkEnd(t) <= Len(batch[t])
         /\ \A i \in 1 .. ChunkLen(t) : start + i \in DOMAIN batch[t]
<1>1. batch[t] \in Seq(0 .. NumBlocks)
  BY ReaderAssumption, EmptySeq DEF TypeOK
<1>2. Len(batch[t]) \in Nat /\ DOMAIN batch[t] = 1 .. Len(batch[t])
  BY <1>1, LenProperties
<1>3. start \in Nat /\ QueueDepth \in Nat \ {0}
  BY RingAssumption DEF TypeOK
<1> QED
  BY <1>1, <1>2, <1>3 DEF ChunkLen, ChunkEnd

\* The entries of a chunk: one for each place, with the slot and the block of
\* that place.
LEMMA EntriesFacts ==
  ASSUME TypeOK, NEW t \in Threads, start <= Len(batch[t]),
         \A i \in DOMAIN batch[t] : batch[t][i] \in Blocks
  PROVE  /\ Entries(t) \in Seq(Sqe(Slots))
         /\ Len(Entries(t)) = ChunkLen(t)
         /\ DOMAIN Entries(t) = 1 .. ChunkLen(t)
         /\ \A i \in DOMAIN Entries(t) :
              /\ Entries(t)[i].ud = i - 1 /\ Entries(t)[i].buf = i - 1
              /\ InFlight(Entries(t)[i], t)
         /\ UdsIn(Entries(t)) = Places(t)
<1> DEFINE q == Entries(t)
           n == ChunkLen(t)
<1>1. /\ n \in 0 .. QueueDepth /\ QueueDepth \in Nat \ {0}
      /\ \A i \in 1 .. n : batch[t][start + i] \in Blocks
  BY ChunkFacts, RingAssumption
<1>2. n \in Nat /\ \A i \in 1 .. n : i - 1 \in Slots
  BY <1>1 DEF Slots
<1>3. q = [i \in 1 .. n |-> [buf |-> i - 1, block |-> batch[t][start + i], ud |-> i - 1]]
  BY DEF Entries
<1> HIDE DEF q, n
<1>4. q \in [1 .. n -> Sqe(Slots)]
  BY <1>1, <1>2, <1>3 DEF Sqe
<1>5. q \in Seq(Sqe(Slots)) /\ Len(q) = n /\ DOMAIN q = 1 .. n
  BY <1>2, <1>4, LenProperties, SeqDef
<1>6. \A i \in DOMAIN q : q[i].ud = i - 1 /\ q[i].buf = i - 1 /\ q[i].block = batch[t][start + i]
  BY <1>3, <1>5
<1>7. \A i \in DOMAIN q : InFlight(q[i], t)
  <2> TAKE i \in DOMAIN q
  <2>1. i \in 1 .. n /\ start \in Nat
    BY <1>5 DEF TypeOK
  <2>2. i - 1 < n /\ start + (i - 1) + 1 = start + i
    BY <1>2, <2>1
  <2> QED
    BY <1>6, <2>2 DEF InFlight, n
<1>8. UdsIn(q) = 0 .. n - 1
  <2>1. \A i \in DOMAIN q : i - 1 \in 0 .. n - 1
    BY <1>2, <1>5
  <2>2. \A p \in 0 .. n - 1 : p + 1 \in DOMAIN q /\ p + 1 - 1 = p
    BY <1>2, <1>5
  <2> QED
    BY <1>6, <2>1, <2>2 DEF UdsIn
<1> QED
  BY <1>5, <1>6, <1>7, <1>8 DEF q, n, Places

-----------------------------------------------------------------------------
\* A thread with the mutex has a chunk of some length in hand, of blocks.
LEMMA HolderFacts ==
  ASSUME Always, NEW t \in Threads, pc[t] \in Working
  PROVE  /\ lock = t
         /\ start \in Nat /\ start <= Len(batch[t])
         /\ pc[t] # "push" => start < Len(batch[t])
         /\ pc[t] # "copy" => comps = <<>>
         /\ \A i \in DOMAIN batch[t] : batch[t][i] \in Blocks
         /\ \A u \in Threads : pc[u] \in Working <=> u = t
BY DEF Always, LockHeld, Validated, TypeOK

\* A call that ends with an error leaves the mutex free and the types in order.
LEMMA GiveAlways ==
  ASSUME Always, NEW t \in Threads, pc[t] \in Working,
         NEW outcome \in {"err", "panic"}, Give(t, outcome),
         sq' \in Seq(Sqe(Slots)), Len(sq') <= SqEntries,
         kernel' \subseteq Sqe(Slots), cq' \in Seq(Cqe(Slots)), bufs' \in [Slots -> Contents]
  PROVE  Always'
<1>1. Nobody \notin Threads /\ QueueDepth \in Nat
  BY ReaderAssumption, RingAssumption
<1>2. <<>> \in Seq(Cqe(Slots)) /\ 0 \in 0 .. QueueDepth
  BY <1>1, EmptySeq
<1>3. pc' = [pc EXCEPT ![t] = outcome] /\ outcome \in Done
  BY DEF Give, Goto, Done
<1>4. pc' \in [Threads -> Done \cup Working \cup {"blocked"}]
  BY <1>3 DEF Always, TypeOK
<1>5. TypeOK'
  BY <1>2, <1>4 DEF Give, Always, TypeOK
<1>6. \A u \in Threads : pc'[u] \notin Working
  <2>1. \A u \in Threads : pc'[u] = IF u = t THEN outcome ELSE pc[u]
    BY <1>3 DEF Always, TypeOK
  <2> QED
    BY <1>3, <2>1, HolderFacts DEF Done, Working
<1>7. LockHeld'
  BY <1>1, <1>6 DEF Give, LockHeld
<1>8. Validated'
  BY <1>3, <1>6 DEF Give, Always, Validated, TypeOK, Done
<1> QED
  BY <1>5, <1>7, <1>8 DEF Always

LEMMA CallAlways == ASSUME Always, NEW t \in Threads, Call(t) PROVE Always'
<1>1. PICK b \in Batches :
        /\ batch' = [batch EXCEPT ![t] = b]
        /\ dst' = [dst EXCEPT ![t] = [i \in DOMAIN b |-> Garbage]]
        /\ pc' = [pc EXCEPT ![t] =
             IF \A i \in DOMAIN b : b[i] \in Blocks THEN "blocked" ELSE "err"]
  BY DEF Call, Goto
<1>2. pc[t] \in Done /\ UNCHANGED <<ringVars, holderVars, broken, late, open>>
  BY DEF Call
<1>3. b \in Seq(0 .. NumBlocks) /\ DOMAIN b = 1 .. Len(b) /\ Len(b) \in Nat
  BY ReaderAssumption, LenProperties
<1>4. [i \in DOMAIN b |-> Garbage] \in Seq(Contents)
  <2>1. [i \in DOMAIN b |-> Garbage] \in [1 .. Len(b) -> Contents]
    BY <1>3 DEF Contents
  <2> QED
    BY <1>3, <2>1, SeqDef
<1>5. /\ pc' \in [Threads -> Done \cup Working \cup {"blocked"}]
      /\ \A u \in Threads : u # t => pc'[u] = pc[u]
      /\ pc'[t] \notin Working
      /\ pc'[t] = "blocked" => \A i \in DOMAIN b : b[i] \in Blocks
  BY <1>1 DEF Always, TypeOK, Done, Working
<1>6. TypeOK'
  BY <1>1, <1>2, <1>4, <1>5 DEF Always, TypeOK, ringVars, holderVars
<1>7. lock # t
  BY <1>2 DEF Always, LockHeld, Done, Working
<1>8. \A u \in Threads : u # t => batch'[u] = batch[u] /\ dst'[u] = dst[u]
  BY <1>1 DEF Always, TypeOK
<1>9. LockHeld'
  BY <1>2, <1>5, <1>7, <1>8 DEF Always, LockHeld, holderVars
<1>10. batch'[t] = b /\ dst'[t] = [i \in DOMAIN b |-> Garbage]
  BY <1>1 DEF Always, TypeOK
<1>11. Validated'
  BY <1>5, <1>8, <1>10 DEF Always, Validated
<1> QED
  BY <1>6, <1>9, <1>11 DEF Always

LEMMA LockAlways == ASSUME Always, NEW t \in Threads, Lock(t) PROVE Always'
<1>1. /\ pc[t] = "blocked" /\ lock = Nobody /\ lock' = t /\ start' = 0
      /\ late' = [late EXCEPT ![t] = broken]
      /\ pc' = [pc EXCEPT ![t] = "push"]
      /\ UNCHANGED <<ringVars, batch, dst, need, comps, broken, open>>
  BY DEF Lock, Goto
<1>2. \A u \in Threads : pc'[u] = IF u = t THEN "push" ELSE pc[u]
  BY <1>1 DEF Always, TypeOK
<1>3. TypeOK'
  BY <1>1 DEF Always, TypeOK, ringVars, Working
<1>4. Len(batch[t]) \in Nat
  BY ReaderAssumption, EmptySeq, LenProperties DEF Always, TypeOK
<1>5. comps = <<>> /\ \A u \in Threads : pc[u] \notin Working
  BY <1>1, ReaderAssumption DEF Always, LockHeld
<1>6. LockHeld'
  <2>1. broken' => late'[t]
    BY <1>1 DEF Always, TypeOK
  <2> QED
    BY <1>1, <1>2, <1>4, <1>5, <2>1, ReaderAssumption DEF LockHeld, Working
<1>7. Validated'
  BY <1>1, <1>2 DEF Always, Validated, Working
<1> QED
  BY <1>3, <1>6, <1>7 DEF Always

LEMMA PushAlways == ASSUME Always, NEW t \in Threads, PushChunk(t) PROVE Always'
<1> DEFINE room == SqEntries - Len(sq)
           q == Entries(t)
<1>1. /\ pc[t] = "push" /\ start < Len(batch[t])
      /\ UNCHANGED <<kernel, cq, bufs>>
      /\ IF ChunkLen(t) <= room
           THEN /\ sq' = sq \o q
                /\ pc' = [pc EXCEPT ![t] = "submit"]
                /\ UNCHANGED <<holderVars, batch, dst, broken, late, open>>
           ELSE /\ sq' = sq \o SubSeq(q, 1, room)
                /\ Give(t, "err")
  BY DEF PushChunk, Goto
<1>2. /\ lock = t /\ start \in Nat /\ start <= Len(batch[t]) /\ comps = <<>>
      /\ \A i \in DOMAIN batch[t] : batch[t][i] \in Blocks
      /\ \A u \in Threads : pc[u] \in Working <=> u = t
  BY <1>1, HolderFacts DEF Working
<1>3. q \in Seq(Sqe(Slots)) /\ Len(q) = ChunkLen(t) /\ ChunkLen(t) \in Nat
  BY <1>2, EntriesFacts, ChunkFacts, RingAssumption DEF Always
<1>4. sq \in Seq(Sqe(Slots)) /\ Len(sq) \in Nat /\ Len(sq) <= SqEntries /\ SqEntries \in Nat
  BY RingAssumption, LenProperties DEF Always, TypeOK
<1>5. room \in Nat /\ Len(sq) + room = SqEntries
  BY <1>4
<1> HIDE DEF room, q
<1>6. CASE ChunkLen(t) <= room
  <2>1. sq' \in Seq(Sqe(Slots)) /\ Len(sq') = Len(sq) + ChunkLen(t)
    <3>1. sq' = sq \o q
      BY <1>1, <1>6
    <3>2. sq \o q \in Seq(Sqe(Slots)) /\ Len(sq \o q) = Len(sq) + Len(q)
      BY <1>3, <1>4, ConcatProperties
    <3> QED
      BY <1>3, <3>1, <3>2
  <2>2. Len(sq') <= SqEntries
    BY <1>3, <1>4, <1>5, <1>6, <2>1
  <2>3. pc' = [pc EXCEPT ![t] = "submit"]
    BY <1>1, <1>6
  <2>4. /\ pc' \in [Threads -> Done \cup Working \cup {"blocked"}]
        /\ \A u \in Threads : pc'[u] = IF u = t THEN "submit" ELSE pc[u]
    BY <2>3 DEF Always, TypeOK, Working
  <2>5. TypeOK'
    BY <1>1, <1>6, <2>1, <2>2, <2>4 DEF Always, TypeOK, holderVars
  <2>6. LockHeld'
    BY <1>1, <1>2, <1>6, <2>4 DEF Always, LockHeld, holderVars, Working
  <2>7. Validated'
    BY <1>1, <1>2, <1>6, <2>4 DEF Always, Validated, Working
  <2> QED
    BY <2>5, <2>6, <2>7 DEF Always
<1>7. CASE ~ (ChunkLen(t) <= room)
  <2>1. room <= Len(q)
    BY <1>3, <1>5, <1>7
  <2>2. \A i \in 1 .. room : q[i] \in Sqe(Slots)
    <3>1. \A i \in 1 .. room : i \in 1 .. Len(q)
      BY <1>3, <1>5, <2>1
    <3> QED
      BY <1>3, <3>1, ElementOfSeq
  <2>3. /\ SubSeq(q, 1, room) \in Seq(Sqe(Slots))
        /\ Len(SubSeq(q, 1, room)) = IF 1 <= room THEN room - 1 + 1 ELSE 0
    BY <1>5, <2>2, SubSeqProperties
  <2>4. Len(SubSeq(q, 1, room)) = room
    BY <1>5, <2>3
  <2>5. sq' \in Seq(Sqe(Slots)) /\ Len(sq') = Len(sq) + room
    <3> DEFINE some == SubSeq(q, 1, room)
    <3>1. sq' = sq \o some
      BY <1>1, <1>7
    <3>2. some \in Seq(Sqe(Slots)) /\ Len(some) = room
      BY <2>3, <2>4
    <3> HIDE DEF some
    <3>3. sq \o some \in Seq(Sqe(Slots)) /\ Len(sq \o some) = Len(sq) + Len(some)
      BY <1>4, <3>2, ConcatProperties
    <3> QED
      BY <3>1, <3>2, <3>3
  <2>6. Give(t, "err") /\ Len(sq') <= SqEntries
    BY <1>1, <1>4, <1>5, <1>7, <2>5
  <2>7. kernel' \subseteq Sqe(Slots) /\ cq' \in Seq(Cqe(Slots)) /\ bufs' \in [Slots -> Contents]
    BY <1>1 DEF Always, TypeOK
  <2>8. pc[t] \in Working
    BY <1>1 DEF Working
  <2> QED
    BY <2>5, <2>6, <2>7, <2>8, GiveAlways
<1> QED
  BY <1>6, <1>7

\* What a system call that takes n entries leaves behind has its types.
LEMMA EnterFacts ==
  ASSUME TypeOK, NEW n \in Prefixes, Enter(n)
  PROVE  /\ n \in 0 .. Len(sq)
         /\ sq' \in Seq(Sqe(Slots)) /\ Len(sq') <= SqEntries
         /\ kernel' \subseteq Sqe(Slots) /\ cq' = cq /\ bufs' \in [Slots -> Contents]
<1>1. /\ sq \in Seq(Sqe(Slots)) /\ Len(sq) \in Nat /\ Len(sq) <= SqEntries
      /\ SqEntries \in Nat
  BY RingAssumption, LenProperties DEF TypeOK
<1>2. n \in Nat /\ n <= Len(sq) /\ n \in 0 .. Len(sq)
  BY <1>1, EmptySeq DEF Prefixes
<1>3. \A i \in 1 .. Len(sq) : sq[i] \in Sqe(Slots)
  BY <1>1, ElementOfSeq
<1>4. \A i \in n + 1 .. Len(sq) : sq[i] \in Sqe(Slots)
  BY <1>1, <1>2, <1>3
<1>5. \A i \in 1 .. n : sq[i] \in Sqe(Slots)
  BY <1>1, <1>2, <1>3
<1>6. n + 1 \in Int /\ Len(sq) \in Int
  BY <1>1, <1>2
<1>7. /\ SubSeq(sq, n + 1, Len(sq)) \in Seq(Sqe(Slots))
      /\ Len(SubSeq(sq, n + 1, Len(sq))) =
           IF n + 1 <= Len(sq) THEN Len(sq) - (n + 1) + 1 ELSE 0
  BY <1>4, <1>6, SubSeqProperties
<1>8. sq' = SubSeq(sq, n + 1, Len(sq))
  BY DEF Enter
<1>9. Len(sq') <= SqEntries
  <2>1. \A m \in Nat : n <= m => (IF n + 1 <= m THEN m - (n + 1) + 1 ELSE 0) <= m
    BY <1>2
  <2>2. Len(sq') <= Len(sq) /\ Len(sq') \in Nat
    BY <1>1, <1>2, <1>7, <1>8, <2>1, LenProperties
  <2> QED
    BY <1>1, <2>2
<1>10. kernel' \subseteq Sqe(Slots)
  BY <1>5 DEF Enter, TypeOK
<1>11. bufs' \in [Slots -> Contents]
  BY DEF Enter, TypeOK, Contents
<1> QED
  BY <1>2, <1>7, <1>8, <1>9, <1>10, <1>11 DEF Enter

LEMMA SubmitAlways == ASSUME Always, NEW t \in Threads, Submit(t) PROVE Always'
<1>1. PICK n \in Prefixes : Enter(n) /\ need' \in Awaited(n, ChunkLen(t))
  BY DEF Submit
<1>2. /\ pc[t] = "submit" /\ pc' = [pc EXCEPT ![t] = "wait"]
      /\ UNCHANGED <<lock, start, comps, batch, dst, broken, late, open>>
  BY DEF Submit, Goto
<1>3. /\ lock = t /\ start \in Nat /\ start < Len(batch[t]) /\ start <= Len(batch[t])
      /\ comps = <<>> /\ \A i \in DOMAIN batch[t] : batch[t][i] \in Blocks
      /\ \A u \in Threads : pc[u] \in Working <=> u = t
  BY <1>2, HolderFacts DEF Working
<1>4. ChunkLen(t) \in 0 .. QueueDepth
  BY <1>3, ChunkFacts DEF Always
<1>5. need' \in 0 .. QueueDepth
  <2>1. Awaited(n, ChunkLen(t)) \subseteq {0, ChunkLen(t)}
    BY DEF Awaited
  <2> QED
    BY <1>1, <1>4, <2>1, RingAssumption
<1>6. /\ pc' \in [Threads -> Done \cup Working \cup {"blocked"}]
      /\ \A u \in Threads : pc'[u] = IF u = t THEN "wait" ELSE pc[u]
  BY <1>2 DEF Always, TypeOK, Working
<1>7. TypeOK'
  BY <1>1, <1>2, <1>5, <1>6, EnterFacts DEF Always, TypeOK
<1>8. LockHeld'
  BY <1>2, <1>3, <1>6 DEF Always, LockHeld, Working
<1>9. Validated'
  BY <1>2, <1>3, <1>6 DEF Always, Validated, Working
<1> QED
  BY <1>7, <1>8, <1>9 DEF Always

LEMMA ReapAlways == ASSUME Always, NEW t \in Threads, Reap(t) PROVE Always'
<1>1. /\ pc[t] = "wait" /\ cq' = <<>> /\ UNCHANGED <<sq, kernel, bufs>>
      /\ IF Len(cq) = ChunkLen(t)
           THEN /\ comps' = cq /\ need' = 0
                /\ pc' = [pc EXCEPT ![t] = "copy"]
                /\ UNCHANGED <<lock, start, batch, dst, broken, late, open>>
           ELSE Give(t, "err")
  BY DEF Reap, Goto
<1>2. /\ lock = t /\ start < Len(batch[t]) /\ start \in Nat /\ start <= Len(batch[t])
      /\ \A i \in DOMAIN batch[t] : batch[t][i] \in Blocks
      /\ \A u \in Threads : pc[u] \in Working <=> u = t
  BY <1>1, HolderFacts DEF Working
<1>3. <<>> \in Seq(Cqe(Slots)) /\ 0 \in 0 .. QueueDepth
  BY EmptySeq, RingAssumption
<1>4. CASE Len(cq) = ChunkLen(t)
  <2>1. /\ comps' = cq /\ need' = 0 /\ pc' = [pc EXCEPT ![t] = "copy"]
        /\ UNCHANGED <<lock, start, batch, dst, broken, late, open>>
    BY <1>1, <1>4
  <2>2. /\ pc' \in [Threads -> Done \cup Working \cup {"blocked"}]
        /\ \A u \in Threads : pc'[u] = IF u = t THEN "copy" ELSE pc[u]
    BY <2>1 DEF Always, TypeOK, Working
  <2>3. TypeOK'
    BY <1>1, <1>3, <2>1, <2>2 DEF Always, TypeOK
  <2>4. LockHeld'
    BY <1>2, <2>1, <2>2, ReaderAssumption DEF Always, LockHeld, Working
  <2>5. Validated'
    BY <1>2, <2>1, <2>2 DEF Always, Validated, Working
  <2> QED
    BY <2>3, <2>4, <2>5 DEF Always
<1>5. CASE Len(cq) # ChunkLen(t)
  BY <1>1, <1>3, <1>5, GiveAlways DEF Always, TypeOK, Working
<1> QED
  BY <1>4, <1>5

LEMMA CopyAlways == ASSUME Always, NEW t \in Threads, Copy(t) PROVE Always'
<1> DEFINE c == Head(comps)
           place == start + c.ud + 1
<1>1. pc[t] = "copy" /\ comps # <<>> /\ UNCHANGED ringVars
  BY DEF Copy
<1>2. \/ Give(t, "err") \/ Give(t, "panic")
      \/ /\ c.ud < ChunkLen(t) \/ ~ (c.ud >= ChunkLen(t))
         /\ dst' = [dst EXCEPT ![t][place] = bufs[c.ud]]
         /\ comps' = Tail(comps)
         /\ UNCHANGED <<lock, start, need, pc, batch, broken, late, open>>
  BY DEF Copy
<1>3. CASE Give(t, "err") \/ Give(t, "panic")
  <2>1. pc[t] \in Working
    BY <1>1 DEF Working
  <2>2. /\ sq' \in Seq(Sqe(Slots)) /\ Len(sq') <= SqEntries
        /\ kernel' \subseteq Sqe(Slots) /\ cq' \in Seq(Cqe(Slots)) /\ bufs' \in [Slots -> Contents]
    BY <1>1 DEF Always, TypeOK, ringVars
  <2> QED
    BY <1>3, <2>1, <2>2, GiveAlways
<1>4. CASE /\ dst' = [dst EXCEPT ![t][place] = bufs[c.ud]]
           /\ comps' = Tail(comps)
           /\ UNCHANGED <<lock, start, need, pc, batch, broken, late, open>>
  <2>1. c \in Cqe(Slots) /\ Tail(comps) \in Seq(Cqe(Slots))
    BY <1>1, HeadTailProperties DEF Always, TypeOK
  <2>2. bufs[c.ud] \in Contents
    BY <2>1 DEF Cqe, Always, TypeOK
  <2> HIDE DEF c, place
  <2>3. /\ dst'[t] = [dst[t] EXCEPT ![place] = bufs[c.ud]]
        /\ \A u \in Threads : u # t => dst'[u] = dst[u]
        /\ DOMAIN dst' = Threads
    BY <1>4 DEF Always, TypeOK
  <2>4. dst[t] \in Seq(Contents) /\ dst[t] \in [1 .. Len(dst[t]) -> Contents] /\ Len(dst[t]) \in Nat
    BY LenProperties DEF Always, TypeOK
  <2>5. dst'[t] \in [1 .. Len(dst[t]) -> Contents] /\ DOMAIN dst'[t] = DOMAIN dst[t]
    BY <2>2, <2>3, <2>4
  <2>6. dst'[t] \in Seq(Contents)
    BY <2>4, <2>5, SeqDef
  <2>7. dst' \in [Threads -> Seq(Contents)]
    <3>1. \A u \in Threads : dst'[u] \in Seq(Contents)
      BY <2>3, <2>6 DEF Always, TypeOK
    <3>2. dst' = [u \in Threads |-> dst'[u]]
      BY <1>4, <2>3 DEF Always, TypeOK
    <3> QED
      BY <3>1, <3>2
  <2>8. TypeOK'
    BY <1>1, <1>4, <2>1, <2>7 DEF Always, TypeOK, ringVars
  <2>9. LockHeld'
    BY <1>1, <1>4, ReaderAssumption DEF Always, LockHeld, Working
  <2>10. Validated'
    BY <1>4, <2>3, <2>5 DEF Always, Validated
  <2> QED
    BY <2>8, <2>9, <2>10 DEF Always
<1> QED
  BY <1>2, <1>3, <1>4

LEMMA NextChunkAlways == ASSUME Always, NEW t \in Threads, NextChunk(t) PROVE Always'
<1>1. /\ pc[t] = "copy" /\ comps = <<>> /\ start' = ChunkEnd(t)
      /\ pc' = [pc EXCEPT ![t] = "push"]
      /\ UNCHANGED <<ringVars, batch, dst, lock, need, comps, broken, late, open>>
  BY DEF NextChunk, Goto
<1>2. /\ lock = t /\ start <= Len(batch[t]) /\ start \in Nat
      /\ \A i \in DOMAIN batch[t] : batch[t][i] \in Blocks
  BY <1>1, HolderFacts DEF Working
<1>3. /\ start' \in Nat /\ start' <= Len(batch[t])
  BY <1>1, <1>2, ChunkFacts, RingAssumption DEF Always
<1>4. /\ pc' \in [Threads -> Done \cup Working \cup {"blocked"}]
      /\ \A u \in Threads : pc'[u] = IF u = t THEN "push" ELSE pc[u]
  BY <1>1 DEF Always, TypeOK, Working
<1>5. TypeOK'
  BY <1>1, <1>3, <1>4 DEF Always, TypeOK, ringVars
<1>6. LockHeld'
  BY <1>1, <1>2, <1>3, <1>4, ReaderAssumption DEF Always, LockHeld, Working
<1>7. Validated'
  BY <1>1, <1>2, <1>4 DEF Always, Validated, Working
<1> QED
  BY <1>5, <1>6, <1>7 DEF Always

LEMMA ReturnAlways == ASSUME Always, NEW t \in Threads, Return(t) PROVE Always'
<1>1. /\ pc[t] = "push" /\ lock' = Nobody /\ start' = 0
      /\ pc' = [pc EXCEPT ![t] = "ok"]
      /\ UNCHANGED <<ringVars, batch, dst, need, comps, broken, late, open>>
  BY DEF Return, Goto
<1>2. /\ lock = t /\ comps = <<>> /\ \A u \in Threads : pc[u] \in Working <=> u = t
  BY <1>1, HolderFacts DEF Working
<1>3. /\ pc' \in [Threads -> Done \cup Working \cup {"blocked"}]
      /\ \A u \in Threads : pc'[u] = IF u = t THEN "ok" ELSE pc[u]
  BY <1>1 DEF Always, TypeOK, Done
<1>4. TypeOK'
  BY <1>1, <1>3 DEF Always, TypeOK, ringVars
<1>5. LockHeld'
  BY <1>1, <1>2, <1>3, ReaderAssumption DEF LockHeld, Working
<1>6. Validated'
  BY <1>1, <1>3 DEF Always, Validated, Working
<1> QED
  BY <1>4, <1>5, <1>6 DEF Always

\* What the device does to one read, whoever called.
LEMMA DeviceFacts ==
  ASSUME TypeOK, NEW e \in kernel, NEW res \in Results, Complete(e, res)
  PROVE  /\ e \in Sqe(Slots) /\ [ud |-> e.ud, res |-> res] \in Cqe(Slots)
         /\ cq' = Append(cq, [ud |-> e.ud, res |-> res]) /\ cq' \in Seq(Cqe(Slots))
         /\ kernel' = kernel \ {e} /\ kernel' \subseteq Sqe(Slots) /\ sq' = sq
         /\ bufs' \in [Slots -> Contents]
         /\ \A s \in Slots : bufs'[s] = IF s # e.buf THEN bufs[s]
                                        ELSE IF res = "full" THEN e.block ELSE Garbage
<1>1. e \in Sqe(Slots) /\ e.ud \in Slots /\ e.buf \in Slots /\ e.block \in Blocks
  BY DEF TypeOK, Sqe
<1>2. [ud |-> e.ud, res |-> res] \in Cqe(Slots)
  BY <1>1 DEF Cqe
<1>3. /\ cq' = Append(cq, [ud |-> e.ud, res |-> res]) /\ kernel' = kernel \ {e} /\ sq' = sq
      /\ bufs' = [bufs EXCEPT ![e.buf] = IF res = "full" THEN e.block ELSE Garbage]
  BY DEF Complete
<1>4. cq' \in Seq(Cqe(Slots))
  BY <1>2, <1>3, AppendProperties DEF TypeOK
<1> QED
  BY <1>1, <1>2, <1>3, <1>4 DEF TypeOK, Contents

LEMMA DeviceAlways == Always /\ Device => Always'
<1> SUFFICES ASSUME Always, Device PROVE Always'
  OBVIOUS
<1>1. PICK e \in kernel, res \in Results : Complete(e, res)
  BY DEF Device, KernelComplete
<1>2. UNCHANGED <<callVars, holderVars, broken, late, open>>
  BY DEF Device
<1>3. TypeOK'
  BY <1>1, <1>2, DeviceFacts DEF Always, TypeOK, callVars, holderVars
<1> QED
  BY <1>2, <1>3 DEF Always, LockHeld, Validated, callVars, holderVars

\* Every step keeps types, mutex and calls in order, errors or not.
LEMMA StepAlways == Always /\ [Next]_vars => Always'
<1> SUFFICES ASSUME Always, [Next]_vars PROVE Always'
  OBVIOUS
<1>1. ASSUME NEW t \in Threads, Call(t) PROVE Always'
  BY <1>1, CallAlways
<1>2. ASSUME NEW t \in Threads, Lock(t) PROVE Always'
  BY <1>2, LockAlways
<1>3. ASSUME NEW t \in Threads, Work(t) PROVE Always'
  <2>1. CASE SubmitFails(t)
    <3>1. pc[t] \in Working /\ Give(t, "err") /\ UNCHANGED ringVars
      BY <2>1 DEF SubmitFails, Working
    <3> QED
      BY <3>1, GiveAlways DEF Always, TypeOK, ringVars
  <2> QED
    BY <1>3, <2>1, PushAlways, SubmitAlways, ReapAlways, CopyAlways, NextChunkAlways,
       ReturnAlways DEF Work
<1>4. CASE Device
  BY <1>4, DeviceAlways
<1>5. CASE Drop \/ Dropped \/ UNCHANGED vars
  <2>1. UNCHANGED <<ringVars, callVars, holderVars, broken, late>> /\ open' \in BOOLEAN
    BY <1>5 DEF Drop, Dropped, vars, Always, TypeOK
  <2> QED
    BY <2>1 DEF Always, TypeOK, LockHeld, Validated, ringVars, callVars, holderVars
<1> QED
  BY <1>1, <1>2, <1>3, <1>4, <1>5 DEF Next

-----------------------------------------------------------------------------
\* Until a first error, for the one thread that holds the mutex.
AtOnce(t) ==
  /\ \A i \in DOMAIN sq : InFlight(sq[i], t)
  /\ \A e \in kernel : InFlight(e, t)
  /\ \A i \in DOMAIN cq : Landed(cq[i], t)
  /\ \A i \in DOMAIN comps : Landed(comps[i], t)
  /\ \A i, j \in DOMAIN cq : cq[i].ud = cq[j].ud => i = j

Going(t) ==
  /\ pc[t] \in {"push", "copy"} => RingEmpty
  /\ pc[t] = "submit" => kernel = {} /\ cq = <<>>
  /\ pc[t] \in {"submit", "wait"} => Underway(t)
  /\ \A i \in 1 .. start : dst[t][i] = batch[t][i]
  /\ pc[t] = "copy" => \A p \in Places(t) :
       \/ p \in UdsIn(comps)
       \/ dst[t][start + p + 1] = batch[t][start + p + 1]

LEMMA IntactParts ==
  Intact <=>
    (~ broken =>
       /\ lock = Nobody => RingEmpty
       /\ \A t \in Threads : lock = t => AtOnce(t) /\ Going(t))
BY DEF Intact, RingDrained, OneChunkAtATime, Progress, AtOnce, Going, RingEmpty

\* The same, of the next state.
LEMMA IntactNext ==
  Intact' <=>
    (~ broken' =>
       /\ lock' = Nobody => RingEmpty'
       /\ \A t \in Threads : lock' = t => AtOnce(t)' /\ Going(t)')
BY DEF Intact, RingDrained, OneChunkAtATime, Progress, AtOnce, Going, RingEmpty

\* A chunk's bounds are the same while its start and its batch are.
LEMMA SameChunk ==
  ASSUME NEW t \in Threads, start' = start, batch'[t] = batch[t]
  PROVE  /\ ChunkLen(t)' = ChunkLen(t) /\ Places(t)' = Places(t)
         /\ \A e : InFlight(e, t)' <=> InFlight(e, t)
BY DEF ChunkLen, ChunkEnd, Places, InFlight

LEMMA CallIntact == ASSUME Always, Intact, NEW t \in Threads, Call(t) PROVE Intact'
<1>1. /\ ~ broken /\ pc[t] \in Done
      /\ UNCHANGED <<ringVars, holderVars, broken, late, open>>
      /\ \A u \in Threads : u # t =>
           pc'[u] = pc[u] /\ batch'[u] = batch[u] /\ dst'[u] = dst[u]
  BY DEF Call, Goto, Always, TypeOK
<1>2. lock # t
  BY <1>1 DEF Always, LockHeld, Done, Working
<1>3. RingEmpty' <=> RingEmpty
  BY <1>1 DEF RingEmpty, ringVars
<1>4. ASSUME NEW u \in Threads, lock' = u PROVE AtOnce(u)' /\ Going(u)'
  <2>1. /\ lock = u /\ u # t /\ start' = start /\ batch'[u] = batch[u] /\ dst'[u] = dst[u]
        /\ pc'[u] = pc[u] /\ sq' = sq /\ kernel' = kernel /\ cq' = cq /\ bufs' = bufs
        /\ comps' = comps
    BY <1>1, <1>2, <1>4 DEF holderVars, ringVars
  <2>2. AtOnce(u) /\ Going(u)
    BY <1>1, <2>1, IntactParts
  <2>3. AtOnce(u)'
    BY <2>1, <2>2, SameChunk DEF AtOnce, Landed
  <2>4. Underway(u)' <=> Underway(u)
    <3>1. Places(u)' = Places(u)
      BY <2>1, SameChunk
    <3>2. UdsIn(sq)' = UdsIn(sq) /\ UdsIn(cq)' = UdsIn(cq) /\ UdsOf(kernel)' = UdsOf(kernel)
      BY <2>1 DEF UdsIn, UdsOf
    <3> QED
      BY <2>1, <3>1, <3>2 DEF Underway
  <2>5. Going(u)'
    BY <1>3, <2>1, <2>2, <2>4, SameChunk DEF Going, UdsIn
  <2> QED
    BY <2>3, <2>5
<1>5. lock' = Nobody => RingEmpty'
  BY <1>1, <1>3, IntactParts DEF holderVars
<1> QED
  BY <1>4, <1>5, IntactNext

LEMMA LockIntact == ASSUME Always, Intact, NEW t \in Threads, Lock(t) PROVE Intact'
<1>1. /\ pc[t] = "blocked" /\ lock = Nobody /\ lock' = t /\ start' = 0
      /\ late' = [late EXCEPT ![t] = broken]
      /\ pc' = [pc EXCEPT ![t] = "push"]
      /\ UNCHANGED <<ringVars, batch, dst, need, comps, broken, open>>
  BY DEF Lock, Goto
<1>2. SUFFICES ASSUME ~ broken PROVE Intact'
  BY <1>1, IntactNext
<1>3. RingEmpty /\ comps = <<>>
  BY <1>1, <1>2, IntactParts DEF Always, LockHeld
<1>4. AtOnce(t)'
  BY <1>1, <1>3 DEF AtOnce, RingEmpty, ringVars
<1>5. pc'[t] = "push"
  BY <1>1 DEF Always, TypeOK
<1>6. Going(t)'
  BY <1>1, <1>3, <1>5 DEF Going, RingEmpty, ringVars
<1> QED
  BY <1>1, <1>4, <1>6, IntactNext, ReaderAssumption

LEMMA PushIntact == ASSUME Always, Intact, NEW t \in Threads, PushChunk(t) PROVE Intact'
<1> DEFINE q == Entries(t)
<1>1. SUFFICES ASSUME ~ broken, ~ broken' PROVE Intact'
  BY IntactNext DEF PushChunk, Give, holderVars
<1>2. /\ pc[t] = "push" /\ start < Len(batch[t])
      /\ UNCHANGED <<kernel, cq, bufs, holderVars, batch, dst, broken, late, open>>
      /\ sq' = sq \o q
      /\ pc' = [pc EXCEPT ![t] = "submit"]
  BY <1>1 DEF PushChunk, Goto, Give
<1>3. /\ lock = t /\ start \in Nat /\ start <= Len(batch[t]) /\ comps = <<>>
      /\ \A i \in DOMAIN batch[t] : batch[t][i] \in Blocks
  BY <1>2, HolderFacts DEF Working
<1>4. /\ q \in Seq(Sqe(Slots)) /\ DOMAIN q = 1 .. ChunkLen(t) /\ ChunkLen(t) \in Nat
      /\ \A i \in DOMAIN q : q[i].ud = i - 1 /\ q[i].buf = i - 1 /\ InFlight(q[i], t)
      /\ UdsIn(q) = Places(t)
  BY <1>3, EntriesFacts, ChunkFacts, RingAssumption DEF Always
<1> HIDE DEF q
<1>5. AtOnce(t) /\ Going(t) /\ RingEmpty
  BY <1>1, <1>2, <1>3, IntactParts DEF Going
<1>6. /\ sq' = q /\ kernel' = {} /\ cq' = <<>> /\ comps' = <<>> /\ start' = start
      /\ batch' = batch /\ dst' = dst /\ lock' = t
  <2>1. <<>> \o q = q
    BY <1>4, ConcatEmptySeq
  <2> QED
    BY <1>2, <1>3, <1>5, <2>1 DEF RingEmpty, holderVars
<1>7. pc'[t] = "submit"
  BY <1>2 DEF Always, TypeOK
<1>8. ChunkLen(t)' = ChunkLen(t) /\ Places(t)' = Places(t) /\ \A e : InFlight(e, t)' <=> InFlight(e, t)
  BY <1>6, SameChunk
<1>9. AtOnce(t)'
  BY <1>4, <1>6, <1>8 DEF AtOnce
<1>10. Underway(t)'
  <2>1. /\ UdsIn(sq)' = Places(t) /\ UdsOf(kernel)' = {} /\ UdsIn(cq)' = {}
    BY <1>4, <1>6 DEF UdsIn, UdsOf
  <2>2. \A i, j \in DOMAIN q : q[i].ud = q[j].ud => i = j
    <3>1. \A i, j \in 1 .. ChunkLen(t) : i - 1 = j - 1 => i = j
      BY <1>4
    <3> QED
      BY <1>4, <3>1
  <2> QED
    BY <1>4, <1>6, <1>8, <2>1, <2>2 DEF Underway
<1>11. Going(t)'
  BY <1>5, <1>6, <1>7, <1>10 DEF Going
<1> QED
  BY <1>6, <1>9, <1>11, IntactNext, ReaderAssumption

LEMMA SubmitIntact == ASSUME Always, Intact, NEW t \in Threads, Submit(t) PROVE Intact'
<1>1. PICK n \in Prefixes : Enter(n) /\ need' \in Awaited(n, ChunkLen(t))
  BY DEF Submit
<1>2. /\ pc[t] = "submit" /\ pc' = [pc EXCEPT ![t] = "wait"]
      /\ UNCHANGED <<lock, start, comps, batch, dst, broken, late, open>>
  BY DEF Submit, Goto
<1>3. SUFFICES ASSUME ~ broken PROVE Intact'
  BY <1>2, IntactNext
<1> DEFINE taken == {sq[i] : i \in 1 .. n}
           rest  == SubSeq(sq, n + 1, Len(sq))
<1>4. /\ lock = t /\ comps = <<>>
  BY <1>2, HolderFacts DEF Working
<1>5. AtOnce(t) /\ Going(t) /\ kernel = {} /\ cq = <<>> /\ Underway(t)
  BY <1>2, <1>3, <1>4, IntactParts DEF Going
<1>6. sq' = rest /\ kernel' = kernel \cup taken /\ cq' = cq
  BY <1>1 DEF Enter
<1>7. /\ \A d, e \in taken : d.ud = e.ud => d = e
      /\ UdsIn(rest) \cup UdsOf(taken) = UdsIn(sq)
      /\ UdsIn(rest) \cap UdsOf(taken) = {}
      /\ \A i, j \in DOMAIN rest : rest[i].ud = rest[j].ud => i = j
      /\ \A i \in DOMAIN rest : \E j \in DOMAIN sq : rest[i] = sq[j]
      /\ \A e \in taken : \E j \in DOMAIN sq : e = sq[j]
  <2>1. sq \in Seq(Sqe(Slots)) /\ \A i, j \in DOMAIN sq : sq[i].ud = sq[j].ud => i = j
    BY <1>5 DEF Underway, Always, TypeOK
  <2>2. n \in 0 .. Len(sq)
    BY <1>1, EnterFacts DEF Always
  <2> QED
    BY <2>1, <2>2, UdsSplit
<1> HIDE DEF taken, rest
<1>8. sq' = rest /\ kernel' = taken /\ cq' = <<>> /\ comps' = <<>>
  BY <1>2, <1>4, <1>5, <1>6
<1>9. ChunkLen(t)' = ChunkLen(t) /\ Places(t)' = Places(t) /\ \A e : InFlight(e, t)' <=> InFlight(e, t)
  BY <1>2, SameChunk
<1>10. pc'[t] = "wait"
  BY <1>2 DEF Always, TypeOK
<1>11. AtOnce(t)'
  BY <1>5, <1>7, <1>8, <1>9 DEF AtOnce
<1>12. Underway(t)'
  <2>1. UdsIn(sq) \cup UdsOf(kernel) \cup UdsIn(cq) = UdsIn(sq)
    BY <1>5 DEF UdsOf, UdsIn
  <2>2. UdsIn(sq)' = UdsIn(rest) /\ UdsOf(kernel)' = UdsOf(taken) /\ UdsIn(cq)' = {}
    BY <1>8 DEF UdsIn, UdsOf
  <2>3. \A i \in DOMAIN sq : sq[i].buf = sq[i].ud
    BY <1>5 DEF Underway
  <2>4. UdsIn(sq) = Places(t)
    BY <1>5, <2>1 DEF Underway
  <2> QED
    BY <1>7, <1>8, <1>9, <2>2, <2>3, <2>4 DEF Underway
<1>13. Going(t)'
  BY <1>2, <1>5, <1>10, <1>12 DEF Going
<1> QED
  BY <1>2, <1>4, <1>11, <1>13, IntactNext, ReaderAssumption

\* When as many completions as the chunk has reads have come, they are the
\* chunk's, and the ring is empty.
LEMMA ReapIntact == ASSUME Always, Intact, NEW t \in Threads, Reap(t) PROVE Intact'
<1>1. SUFFICES ASSUME ~ broken, ~ broken' PROVE Intact'
  BY IntactNext DEF Reap, Give
<1>2. /\ pc[t] = "wait" /\ cq' = <<>> /\ UNCHANGED <<sq, kernel, bufs>>
      /\ Len(cq) = ChunkLen(t) /\ comps' = cq /\ pc' = [pc EXCEPT ![t] = "copy"]
      /\ UNCHANGED <<lock, start, batch, dst, broken, late, open>>
  BY <1>1 DEF Reap, Goto, Give
<1>3. /\ lock = t /\ start <= Len(batch[t])
  BY <1>2, HolderFacts DEF Working
<1>4. AtOnce(t) /\ Going(t) /\ Underway(t)
  BY <1>1, <1>2, <1>3, IntactParts DEF Going
<1>5. ChunkLen(t) \in Nat
  BY <1>3, ChunkFacts, RingAssumption DEF Always
<1>6. UdsIn(cq) = Places(t)
  <2>1. cq \in Seq(Cqe(Slots))
    BY DEF Always, TypeOK
  <2>2. \A i \in DOMAIN cq : cq[i].ud \in 0 .. ChunkLen(t) - 1
    <3>1. \A i \in DOMAIN cq : cq[i].ud \in UdsIn(cq)
      BY DEF UdsIn
    <3> QED
      BY <1>4, <3>1 DEF Underway, Places
  <2>3. \A i, j \in DOMAIN cq : cq[i].ud = cq[j].ud => i = j
    BY <1>4 DEF AtOnce
  <2> DEFINE n == ChunkLen(t)
  <2>4. n \in Nat /\ Len(cq) = n /\ \A i \in DOMAIN cq : cq[i].ud \in 0 .. n - 1
    BY <1>2, <1>5, <2>2
  <2> HIDE DEF n
  <2>5. UdsIn(cq) = 0 .. n - 1
    BY <2>1, <2>3, <2>4, EveryPlaceTaken
  <2> QED
    BY <2>5 DEF n, Places
<1>7. UdsIn(sq) = {} /\ UdsOf(kernel) = {}
  BY <1>4, <1>6 DEF Underway
<1>8. RingEmpty'
  <2>1. kernel = {}
    BY <1>7 DEF UdsOf
  <2>2. sq = <<>>
    <3>1. DOMAIN sq = {}
      BY <1>7 DEF UdsIn
    <3>2. Len(sq) \in Nat /\ DOMAIN sq = 1 .. Len(sq) /\ sq \in Seq(Sqe(Slots))
      BY LenProperties DEF Always, TypeOK
    <3>3. Len(sq) = 0
      BY <3>1, <3>2
    <3> QED
      BY <3>2, <3>3, EmptySeq
  <2> QED
    BY <1>2, <2>1, <2>2 DEF RingEmpty
<1>9. ChunkLen(t)' = ChunkLen(t) /\ Places(t)' = Places(t) /\ \A e : InFlight(e, t)' <=> InFlight(e, t)
  BY <1>2, SameChunk
<1>10. pc'[t] = "copy"
  BY <1>2 DEF Always, TypeOK
<1>11. AtOnce(t)'
  <2>1. \A i \in DOMAIN comps' : Landed(comps[i], t)'
    BY <1>2, <1>4, <1>9 DEF AtOnce, Landed
  <2> QED
    BY <1>8, <2>1 DEF AtOnce, RingEmpty
<1>12. Going(t)'
  <2>1. UdsIn(comps)' = Places(t)'
    BY <1>2, <1>6, <1>9 DEF UdsIn
  <2>2. \A i \in 1 .. start' : dst'[t][i] = batch'[t][i]
    BY <1>2, <1>4 DEF Going
  <2> QED
    BY <1>8, <1>10, <2>1, <2>2 DEF Going
<1> QED
  BY <1>2, <1>3, <1>11, <1>12, IntactNext, ReaderAssumption

LEMMA CopyIntact == ASSUME Always, Intact, NEW t \in Threads, Copy(t) PROVE Intact'
<1> DEFINE c == Head(comps)
           place == start + c.ud + 1
<1>1. SUFFICES ASSUME ~ broken, ~ broken' PROVE Intact'
  BY IntactNext DEF Copy, Give
<1>2. /\ pc[t] = "copy" /\ comps # <<>> /\ UNCHANGED ringVars /\ c.res = "full"
      /\ dst' = [dst EXCEPT ![t][place] = bufs[c.ud]] /\ comps' = Tail(comps)
      /\ UNCHANGED <<lock, start, need, pc, batch, broken, late, open>>
  BY <1>1 DEF Copy, Give
<1>3. lock = t /\ start \in Nat /\ start <= Len(batch[t])
  BY <1>2, HolderFacts DEF Working
<1>4. AtOnce(t) /\ Going(t) /\ RingEmpty
  BY <1>1, <1>2, <1>3, IntactParts DEF Going
<1>5. /\ 1 \in DOMAIN comps /\ c = comps[1]
      /\ \A i \in DOMAIN Tail(comps) : i + 1 \in DOMAIN comps /\ Tail(comps)[i] = comps[i + 1]
      /\ \A i \in DOMAIN comps : i = 1 \/ (i - 1 \in DOMAIN Tail(comps) /\ Tail(comps)[i - 1] = comps[i])
      /\ c \in Cqe(Slots)
  <2>1. comps \in Seq(Cqe(Slots)) /\ comps # <<>>
    BY <1>2 DEF Always, TypeOK
  <2>2. /\ c \in Cqe(Slots) /\ Tail(comps) \in Seq(Cqe(Slots)) /\ Len(Tail(comps)) = Len(comps) - 1
        /\ \A i \in 1 .. Len(Tail(comps)) : Tail(comps)[i] = comps[i + 1]
        /\ c = comps[1]
    BY <2>1, HeadTailProperties
  <2>3. /\ Len(comps) \in Nat /\ Len(comps) > 0
        /\ DOMAIN comps = 1 .. Len(comps) /\ DOMAIN Tail(comps) = 1 .. Len(Tail(comps))
    BY <2>1, <2>2, LenProperties, EmptySeq
  <2> HIDE DEF c
  <2>4. \A i \in DOMAIN comps : i = 1 \/ (i - 1 \in 1 .. Len(comps) - 1 /\ i - 1 + 1 = i)
    BY <2>3
  <2>5. \A i \in 1 .. Len(comps) - 1 : i + 1 \in 1 .. Len(comps)
    BY <2>3
  <2> QED
    BY <2>2, <2>3, <2>4, <2>5
<1>6. c.ud < ChunkLen(t) /\ bufs[c.ud] = batch[t][place] /\ c.ud \in Nat
  <2>1. Landed(c, t)
    BY <1>4, <1>5 DEF AtOnce
  <2>2. c.ud \in Nat
    BY <1>5, RingAssumption DEF Cqe, Slots
  <2> QED
    BY <1>2, <2>1, <2>2 DEF Landed
<1>7. place \in DOMAIN dst[t]
  <2>1. ChunkLen(t) \in Nat /\ ChunkEnd(t) = start + ChunkLen(t) /\ ChunkEnd(t) <= Len(batch[t])
        /\ DOMAIN batch[t] = 1 .. Len(batch[t]) /\ Len(batch[t]) \in Nat
    BY <1>3, ChunkFacts, RingAssumption DEF Always
  <2>2. place \in DOMAIN batch[t]
    BY <1>3, <1>6, <2>1
  <2> QED
    BY <2>2 DEF Always, Validated
<1> HIDE DEF c, place
<1>8. /\ \A u \in Threads : u # t => dst'[u] = dst[u]
      /\ \A p \in DOMAIN dst[t] : dst'[t][p] = IF p = place THEN batch[t][place] ELSE dst[t][p]
  BY <1>2, <1>6 DEF Always, TypeOK
<1>9. ChunkLen(t)' = ChunkLen(t) /\ Places(t)' = Places(t) /\ \A e : InFlight(e, t)' <=> InFlight(e, t)
  BY <1>2, SameChunk
<1>10. AtOnce(t)'
  <2>1. \A i \in DOMAIN comps' : Landed(comps[i], t)'
    BY <1>2, <1>4, <1>5, <1>9 DEF AtOnce, Landed, ringVars
  <2> QED
    BY <1>2, <1>4, <2>1 DEF AtOnce, RingEmpty, ringVars
<1>11. \A p \in DOMAIN batch[t] : dst[t][p] = batch[t][p] => dst'[t][p] = batch[t][p]
  BY <1>8 DEF Always, Validated
<1>12. Len(batch[t]) \in Nat /\ DOMAIN batch[t] = 1 .. Len(batch[t])
  BY <1>3, ChunkFacts DEF Always
<1>13. \A i \in 1 .. start' : dst'[t][i] = batch'[t][i]
  <2>1. \A i \in 1 .. start : i \in DOMAIN batch[t]
    BY <1>3, <1>12
  <2> QED
    BY <1>2, <1>4, <1>11, <2>1 DEF Going
<1>14. \A p \in Places(t)' :
          p \in UdsIn(comps)' \/ dst'[t][start' + p + 1] = batch'[t][start' + p + 1]
  <2> TAKE p \in Places(t)'
  <2>1. p \in Places(t) /\ pc[t] = "copy"
    BY <1>2, <1>9
  <2>2. CASE p = c.ud
    <3>1. start' + p + 1 = place /\ dst'[t][place] = batch[t][place]
      BY <1>2, <1>7, <1>8, <2>2 DEF place
    <3> QED
      BY <1>2, <3>1
  <2>3. CASE p # c.ud /\ p \in UdsIn(comps)
    <3>1. PICK i \in DOMAIN comps : comps[i].ud = p
      BY <2>3 DEF UdsIn
    <3>2. i - 1 \in DOMAIN Tail(comps) /\ Tail(comps)[i - 1].ud = p
      BY <1>5, <2>3, <3>1
    <3> QED
      BY <1>2, <3>2 DEF UdsIn
  <2>4. CASE p \notin UdsIn(comps)
    <3>1. dst[t][start + p + 1] = batch[t][start + p + 1]
      BY <1>4, <2>1, <2>4 DEF Going
    <3>2. start + p + 1 \in DOMAIN batch[t]
      <4>1. ChunkLen(t) \in Nat /\ ChunkEnd(t) = start + ChunkLen(t) /\ ChunkEnd(t) <= Len(batch[t])
        BY <1>3, ChunkFacts, RingAssumption DEF Always
      <4>2. p \in 0 .. ChunkLen(t) - 1
        BY <2>1 DEF Places
      <4> QED
        BY <1>3, <1>12, <4>1, <4>2
    <3> QED
      BY <1>2, <1>11, <3>1, <3>2
  <2> QED
    BY <2>2, <2>3, <2>4
<1>15. Going(t)'
  BY <1>2, <1>4, <1>13, <1>14 DEF Going, RingEmpty, ringVars
<1> QED
  BY <1>2, <1>3, <1>10, <1>15, IntactNext, ReaderAssumption

LEMMA NextChunkIntact == ASSUME Always, Intact, NEW t \in Threads, NextChunk(t) PROVE Intact'
<1>1. /\ pc[t] = "copy" /\ comps = <<>> /\ start' = ChunkEnd(t)
      /\ pc' = [pc EXCEPT ![t] = "push"]
      /\ UNCHANGED <<ringVars, batch, dst, lock, need, comps, broken, late, open>>
  BY DEF NextChunk, Goto
<1>2. SUFFICES ASSUME ~ broken PROVE Intact'
  BY <1>1, IntactNext
<1>3. lock = t /\ start \in Nat /\ start <= Len(batch[t])
  BY <1>1, HolderFacts DEF Working
<1>4. AtOnce(t) /\ Going(t) /\ RingEmpty
  BY <1>1, <1>2, <1>3, IntactParts DEF Going
<1>5. pc'[t] = "push"
  BY <1>1 DEF Always, TypeOK
<1>6. AtOnce(t)'
  BY <1>1, <1>4 DEF AtOnce, RingEmpty, ringVars
<1>7. \A i \in 1 .. ChunkEnd(t) : dst[t][i] = batch[t][i]
  <2> TAKE i \in 1 .. ChunkEnd(t)
  <2>1. ChunkLen(t) \in Nat /\ ChunkEnd(t) = start + ChunkLen(t)
    BY <1>3, ChunkFacts, RingAssumption DEF Always
  <2>2. CASE i <= start
    <3>1. i \in 1 .. start
      BY <1>3, <2>1, <2>2
    <3> QED
      BY <1>4, <3>1 DEF Going
  <2>3. CASE i > start
    <3>1. i - start - 1 \in 0 .. ChunkLen(t) - 1 /\ start + (i - start - 1) + 1 = i
      BY <1>3, <2>1, <2>3
    <3>2. UdsIn(comps) = {}
      BY <1>1 DEF UdsIn
    <3> QED
      BY <1>1, <1>4, <3>1, <3>2 DEF Going, Places
  <2> QED
    BY <1>3, <2>1, <2>2, <2>3
<1>8. Going(t)'
  BY <1>1, <1>4, <1>5, <1>7 DEF Going, RingEmpty, ringVars
<1> QED
  BY <1>1, <1>3, <1>6, <1>8, IntactNext, ReaderAssumption

LEMMA ReturnIntact == ASSUME Always, Intact, NEW t \in Threads, Return(t) PROVE Intact'
<1>1. pc[t] = "push" /\ lock' = Nobody /\ UNCHANGED <<ringVars, broken>>
  BY DEF Return
<1>2. SUFFICES ASSUME ~ broken PROVE Intact'
  BY <1>1, IntactNext
<1>3. lock = t
  BY <1>1, HolderFacts DEF Working
<1>4. RingEmpty
  BY <1>1, <1>2, <1>3, IntactParts DEF Going
<1>5. RingEmpty'
  BY <1>1, <1>4 DEF RingEmpty, ringVars
<1> QED
  BY <1>1, <1>5, IntactNext, ReaderAssumption

\* The device's completion of a read moves it from the kernel to the queue,
\* and fills the buffer of its place.
LEMMA DeviceIntact == ASSUME Always, Intact, Device PROVE Intact'
<1>1. PICK e \in kernel, res \in Results : Complete(e, res)
  BY DEF Device, KernelComplete
<1>2. UNCHANGED <<callVars, holderVars, broken, late, open>>
  BY DEF Device
<1>3. SUFFICES ASSUME ~ broken PROVE Intact'
  BY <1>2, IntactNext
<1> DEFINE c == [ud |-> e.ud, res |-> res]
<1>4. /\ e \in Sqe(Slots) /\ c \in Cqe(Slots)
      /\ cq' = Append(cq, c) /\ kernel' = kernel \ {e} /\ sq' = sq
      /\ \A s \in Slots : bufs'[s] = IF s # e.buf THEN bufs[s]
                                     ELSE IF res = "full" THEN e.block ELSE Garbage
  BY <1>1, DeviceFacts DEF Always
<1>5. c.ud = e.ud /\ c.res = res
  OBVIOUS
<1> HIDE DEF c
<1>6. /\ lock' = lock /\ start' = start /\ comps' = comps /\ pc' = pc /\ batch' = batch /\ dst' = dst
  BY <1>2 DEF callVars, holderVars
<1>7. kernel # {}
  OBVIOUS
<1>8. lock # Nobody
  BY <1>3, <1>7, IntactParts DEF RingEmpty
<1>9. ASSUME NEW t \in Threads, lock = t PROVE AtOnce(t)' /\ Going(t)'
  <2>1. AtOnce(t) /\ Going(t) /\ Underway(t) /\ pc[t] = "wait" /\ comps = <<>>
    <3>1. pc[t] \in Working
      BY <1>9 DEF Always, LockHeld
    <3>2. AtOnce(t) /\ Going(t)
      BY <1>3, <1>9, IntactParts
    <3>3. pc[t] = "wait"
      BY <1>7, <3>1, <3>2 DEF Going, RingEmpty, Working
    <3> QED
      BY <3>1, <3>2, <3>3, HolderFacts DEF Going
  <2>2. /\ UdsIn(cq') = UdsIn(cq) \cup {e.ud}
        /\ \A i \in DOMAIN cq' : \/ i \in DOMAIN cq /\ cq'[i] = cq[i]
                                 \/ i \notin DOMAIN cq /\ i = Len(cq) + 1 /\ cq'[i] = c
    BY <1>4, <1>5, UdsAppend DEF Always, TypeOK
  <2>3. UdsOf(kernel') = UdsOf(kernel) \ {e.ud} /\ e.ud \in UdsOf(kernel)
    <3>1. \A d \in kernel : d.ud = e.ud => d = e
      BY <2>1 DEF Underway
    <3> QED
      BY <1>4, <3>1 DEF UdsOf
  <2>4. e.buf = e.ud /\ e.ud \in Slots /\ InFlight(e, t)
    BY <1>4, <2>1 DEF Underway, AtOnce, Sqe
  <2>5. ChunkLen(t)' = ChunkLen(t) /\ Places(t)' = Places(t) /\ \A d : InFlight(d, t)' <=> InFlight(d, t)
    BY <1>6, SameChunk
  <2>6. e.ud \notin UdsIn(cq)
    BY <2>1, <2>3 DEF Underway
  <2>7. \A i \in DOMAIN cq : cq[i].ud # e.ud /\ cq[i].ud \in Slots
    <3>1. \A i \in DOMAIN cq : cq[i] \in Cqe(Slots)
      BY ElementOfSeq, LenProperties DEF Always, TypeOK
    <3> QED
      BY <2>6, <3>1 DEF UdsIn, Cqe
  <2>8. \A i \in DOMAIN cq' : Landed(cq[i], t)'
    <3> TAKE i \in DOMAIN cq'
    <3>1. CASE i \in DOMAIN cq /\ cq'[i] = cq[i]
      <4>1. Landed(cq[i], t) /\ bufs'[cq[i].ud] = bufs[cq[i].ud]
        BY <1>4, <2>1, <2>4, <2>7, <3>1 DEF AtOnce
      <4> QED
        BY <1>6, <2>5, <3>1, <4>1 DEF Landed
    <3>2. CASE cq'[i] = c
      <4>1. res = "full" => bufs'[e.ud] = batch[t][start + e.ud + 1]
        BY <1>4, <2>4 DEF InFlight
      <4> QED
        BY <1>5, <1>6, <2>4, <2>5, <3>2, <4>1 DEF Landed, InFlight
    <3> QED
      BY <2>2, <3>1, <3>2
  <2>9. \A i, j \in DOMAIN cq' : cq'[i].ud = cq'[j].ud => i = j
    BY <1>5, <2>1, <2>2, <2>7 DEF AtOnce
  <2>10. AtOnce(t)'
    BY <1>4, <1>6, <2>1, <2>5, <2>8, <2>9 DEF AtOnce
  <2>11. Underway(t)'
    <3>1. /\ UdsIn(sq)' = UdsIn(sq) /\ UdsOf(kernel)' = UdsOf(kernel) \ {e.ud}
          /\ UdsIn(cq)' = UdsIn(cq) \cup {e.ud}
      <4>1. UdsIn(sq)' = UdsIn(sq)
        BY <1>4 DEF UdsIn
      <4>2. UdsIn(cq)' = UdsIn(cq') /\ UdsOf(kernel)' = UdsOf(kernel')
        BY DEF UdsIn, UdsOf
      <4> QED
        BY <2>2, <2>3, <4>1, <4>2
    <3>2. /\ UdsIn(sq) \cup UdsOf(kernel) \cup UdsIn(cq) = Places(t)
          /\ UdsIn(sq) \cap UdsOf(kernel) = {}
          /\ UdsIn(sq) \cap UdsIn(cq) = {}
          /\ UdsOf(kernel) \cap UdsIn(cq) = {}
      BY <2>1 DEF Underway
    <3>3. /\ UdsIn(sq)' \cup UdsOf(kernel)' \cup UdsIn(cq)' = Places(t)'
          /\ UdsIn(sq)' \cap UdsOf(kernel)' = {}
          /\ UdsIn(sq)' \cap UdsIn(cq)' = {}
          /\ UdsOf(kernel)' \cap UdsIn(cq)' = {}
      BY <2>3, <2>5, <3>1, <3>2
    <3> QED
      BY <1>4, <2>1, <3>3 DEF Underway
  <2>12. Going(t)'
    BY <1>6, <2>1, <2>11 DEF Going
  <2> QED
    BY <2>10, <2>12
<1> QED
  BY <1>6, <1>8, <1>9, IntactNext

LEMMA StepIntact == Always /\ Intact /\ [Next]_vars => Intact'
<1> SUFFICES ASSUME Always, Intact, [Next]_vars PROVE Intact'
  OBVIOUS
<1>1. ASSUME NEW t \in Threads, Call(t) PROVE Intact'
  BY <1>1, CallIntact
<1>2. ASSUME NEW t \in Threads, Lock(t) PROVE Intact'
  BY <1>2, LockIntact
<1>3. ASSUME NEW t \in Threads, Work(t) PROVE Intact'
  <2>1. CASE SubmitFails(t)
    <3>1. broken'
      BY <2>1 DEF SubmitFails, Give
    <3> QED
      BY <3>1, IntactNext
  <2> QED
    BY <1>3, <2>1, PushIntact, SubmitIntact, ReapIntact, CopyIntact, NextChunkIntact,
       ReturnIntact DEF Work
<1>4. CASE Device
  BY <1>4, DeviceIntact
<1>5. CASE Drop \/ Dropped \/ UNCHANGED vars
  <2>1. /\ sq' = sq /\ kernel' = kernel /\ cq' = cq /\ bufs' = bufs /\ pc' = pc /\ batch' = batch
        /\ dst' = dst /\ lock' = lock /\ start' = start /\ comps' = comps /\ broken' = broken
    BY <1>5 DEF Drop, Dropped, vars, ringVars, callVars, holderVars
  <2>2. ASSUME NEW t \in Threads PROVE /\ AtOnce(t)' <=> AtOnce(t)
                                     /\ Going(t)' <=> Going(t)
    <3>1. ChunkLen(t)' = ChunkLen(t) /\ Places(t)' = Places(t) /\ \A e : InFlight(e, t)' <=> InFlight(e, t)
      BY <2>1, SameChunk
    <3>2. AtOnce(t)' <=> AtOnce(t)
      BY <2>1, <3>1 DEF AtOnce, Landed
    <3>3. UdsIn(sq)' = UdsIn(sq) /\ UdsOf(kernel)' = UdsOf(kernel) /\ UdsIn(cq)' = UdsIn(cq)
          /\ UdsIn(comps)' = UdsIn(comps)
      BY <2>1 DEF UdsIn, UdsOf
    <3>4. Underway(t)' <=> Underway(t)
      BY <2>1, <3>1, <3>3 DEF Underway
    <3>5. RingEmpty' <=> RingEmpty
      BY <2>1 DEF RingEmpty
    <3> QED
      BY <2>1, <3>1, <3>2, <3>3, <3>4, <3>5 DEF Going
  <2>3. RingEmpty' <=> RingEmpty
    BY <2>1 DEF RingEmpty
  <2> QED
    BY <2>1, <2>2, <2>3, IntactParts, IntactNext
<1> QED
  BY <1>1, <1>2, <1>3, <1>4, <1>5 DEF Next

-----------------------------------------------------------------------------
\* A step that leaves the calls of all other threads alone, and does not end
\* its own with Ok, leaves what has been answered.
LEMMA AnswersKept ==
  ASSUME OkMeansRead, NEW t \in Threads, pc'[t] # "ok",
         \A u \in Threads : u # t => /\ pc'[u] = pc[u] /\ dst'[u] = dst[u]
                                     /\ batch'[u] = batch[u] /\ late'[u] = late[u]
  PROVE  OkMeansRead'
BY DEF OkMeansRead

\* A call returns Ok when its chunks have all been copied; if it came before the
\* first error, there has been none, for only the call that holds the mutex
\* meets one.
LEMMA ReturnAnswers ==
  ASSUME Always, Intact, OkMeansRead, NEW t \in Threads, Return(t)
  PROVE  OkMeansRead'
<1>1. /\ pc[t] = "push" /\ start >= Len(batch[t])
      /\ pc' = [pc EXCEPT ![t] = "ok"]
      /\ UNCHANGED <<batch, dst, late>>
  BY DEF Return, Goto
<1>2. lock = t /\ start \in Nat /\ start <= Len(batch[t])
  BY <1>1, HolderFacts DEF Working
<1>3. ASSUME ~ late[t] PROVE dst[t] = batch[t]
  <2>1. ~ broken
    BY <1>2, <1>3 DEF Always, LockHeld
  <2>2. Going(t)
    BY <1>2, <2>1, IntactParts
  <2>3. batch[t] \in Seq(0 .. NumBlocks) /\ Len(batch[t]) \in Nat /\ DOMAIN batch[t] = 1 .. Len(batch[t])
    BY <1>2, ChunkFacts DEF Always
  <2>4. start = Len(batch[t])
    BY <1>1, <1>2, <2>3
  <2>5. dst[t] \in Seq(Contents) /\ DOMAIN dst[t] = DOMAIN batch[t]
    BY DEF Always, TypeOK, Validated
  <2>6. Len(dst[t]) = Len(batch[t])
    BY <2>3, <2>5, LenProperties
  <2>7. \A i \in 1 .. Len(batch[t]) : dst[t][i] = batch[t][i]
    BY <2>2, <2>4 DEF Going
  <2>8. dst[t] = [i \in 1 .. Len(batch[t]) |-> dst[t][i]]
    BY <2>5, <2>6, LenProperties
  <2>9. batch[t] = [i \in 1 .. Len(batch[t]) |-> batch[t][i]]
    BY <2>3, LenProperties
  <2> QED
    BY <2>7, <2>8, <2>9
<1>4. \A u \in Threads : u # t => pc'[u] = pc[u]
  BY <1>1 DEF Always, TypeOK
<1> QED
  BY <1>1, <1>3, <1>4 DEF OkMeansRead

\* What has been read stays read, on a ring that an error has broken as well.
LEMMA StepAnswers == Always /\ Intact /\ OkMeansRead /\ [Next]_vars => OkMeansRead'
<1> SUFFICES ASSUME Always, Intact, OkMeansRead, [Next]_vars PROVE OkMeansRead'
  OBVIOUS
<1>1. ASSUME NEW t \in Threads, Call(t) PROVE OkMeansRead'
  <2>1. /\ pc'[t] # "ok" /\ late' = late
        /\ \A u \in Threads : u # t =>
             pc'[u] = pc[u] /\ batch'[u] = batch[u] /\ dst'[u] = dst[u]
    BY <1>1 DEF Call, Goto, Always, TypeOK
  <2> QED
    BY <2>1, AnswersKept
<1>2. ASSUME NEW t \in Threads, Lock(t) PROVE OkMeansRead'
  <2>1. /\ pc'[t] = "push" /\ UNCHANGED <<batch, dst>>
        /\ \A u \in Threads : u # t => pc'[u] = pc[u] /\ late'[u] = late[u]
    BY <1>2 DEF Lock, Goto, Always, TypeOK
  <2> QED
    BY <2>1, AnswersKept
<1>3. ASSUME NEW t \in Threads, Work(t) PROVE OkMeansRead'
  <2>1. ASSUME NEW outcome \in {"err", "panic"}, Give(t, outcome) PROVE OkMeansRead'
    <3>1. /\ pc'[t] = outcome /\ UNCHANGED <<batch, dst, late>>
          /\ \A u \in Threads : u # t => pc'[u] = pc[u]
      BY <2>1 DEF Give, Goto, Always, TypeOK
    <3> QED
      BY <3>1, AnswersKept
  <2>2. ASSUME NEW where \in Working, pc' = [pc EXCEPT ![t] = where],
               UNCHANGED <<batch, dst, late>>
        PROVE  OkMeansRead'
    <3>1. pc'[t] = where /\ \A u \in Threads : u # t => pc'[u] = pc[u]
      BY <2>2 DEF Always, TypeOK
    <3> QED
      BY <2>2, <3>1, AnswersKept DEF Working
  <2>3. CASE PushChunk(t)
    BY <2>1, <2>2, <2>3 DEF PushChunk, Goto, Working
  <2>4. CASE Submit(t)
    BY <2>2, <2>4 DEF Submit, Goto, Working
  <2>5. CASE SubmitFails(t)
    BY <2>1, <2>5 DEF SubmitFails
  <2>6. CASE Reap(t)
    BY <2>1, <2>2, <2>6 DEF Reap, Goto, Working
  <2>7. CASE Copy(t)
    <3>1. \/ Give(t, "err") \/ Give(t, "panic")
          \/ /\ pc[t] = "copy" /\ UNCHANGED <<pc, batch, late>>
             /\ \E p, x : dst' = [dst EXCEPT ![t][p] = x]
      BY <2>7 DEF Copy
    <3>2. CASE /\ pc[t] = "copy" /\ UNCHANGED <<pc, batch, late>>
               /\ \E p, x : dst' = [dst EXCEPT ![t][p] = x]
      <4>1. \A u \in Threads : u # t => dst'[u] = dst[u]
        BY <3>2 DEF Always, TypeOK
      <4> QED
        BY <3>2, <4>1, AnswersKept
    <3> QED
      BY <2>1, <3>1, <3>2
  <2>8. CASE NextChunk(t)
    BY <2>2, <2>8 DEF NextChunk, Goto, Working
  <2>9. CASE Return(t)
    BY <2>9, ReturnAnswers
  <2> QED
    BY <1>3, <2>3, <2>4, <2>5, <2>6, <2>7, <2>8, <2>9 DEF Work
<1>4. CASE Device \/ Drop \/ Dropped \/ UNCHANGED vars
  <2>1. UNCHANGED <<pc, batch, dst, late>>
    BY <1>4 DEF Device, Drop, Dropped, vars, callVars
  <2> QED
    BY <2>1 DEF OkMeansRead
<1> QED
  BY <1>1, <1>2, <1>3, <1>4 DEF Next

LEMMA InitInd == Init => Always /\ Intact /\ OkMeansRead
<1> SUFFICES ASSUME Init PROVE Always /\ Intact /\ OkMeansRead
  OBVIOUS
<1>1. QueueDepth \in Nat /\ SqEntries \in Nat /\ Nobody \notin Threads
  BY RingAssumption, ReaderAssumption
<1>2. \A S : <<>> \in Seq(S) /\ Len(<<>>) = 0
  BY EmptySeq
<1>3. TypeOK
  <2>1. /\ bufs \in [Slots -> Contents] /\ pc \in [Threads -> Done]
        /\ batch \in [Threads -> {<<>>}] /\ dst \in [Threads -> Seq(Contents)]
    BY <1>2 DEF Init, RingInit, Contents, Done
  <2>2. /\ sq \in Seq(Sqe(Slots)) /\ Len(sq) <= SqEntries /\ kernel \subseteq Sqe(Slots)
        /\ cq \in Seq(Cqe(Slots)) /\ comps \in Seq(Cqe(Slots))
    <3>1. sq = <<>> /\ kernel = {} /\ cq = <<>> /\ comps = <<>>
      BY DEF Init, RingInit
    <3>2. Len(sq) <= SqEntries
      BY <1>1, <1>2, <3>1
    <3> QED
      BY <1>2, <3>1, <3>2
  <2>3. batch \in [Threads -> Batches \cup {<<>>}] /\ pc \in [Threads -> Done \cup Working \cup {"blocked"}]
    BY <2>1
  <2>4. lock = Nobody /\ start = 0 /\ need = 0 /\ broken = FALSE /\ open = TRUE
    BY DEF Init
  <2>5. start \in Nat /\ need \in 0 .. QueueDepth /\ lock \in Threads \cup {Nobody}
    BY <1>1, <2>4
  <2>6. broken \in BOOLEAN /\ late \in [Threads -> BOOLEAN] /\ open \in BOOLEAN
    BY <2>4 DEF Init
  <2> QED
    BY <2>1, <2>2, <2>3, <2>5, <2>6 DEF TypeOK
<1>4. LockHeld
  BY <1>1 DEF Init, LockHeld, Working
<1>5. Validated
  BY DEF Init, Validated, Working
<1>6. Intact
  BY <1>1 DEF Init, RingInit, Intact, RingDrained, OneChunkAtATime, Progress
<1>7. OkMeansRead
  BY DEF Init, OkMeansRead
<1> QED
  BY <1>3, <1>4, <1>5, <1>6, <1>7 DEF Always

LEMMA Parts == IndInv <=> Always /\ Intact /\ OkMeansRead
BY DEF IndInv, Always, Intact

\* The invariant of the module holds in every reachable state.
THEOREM InvariantHolds == Spec => []IndInv
<1>1. Init => IndInv
  BY InitInd, Parts
<1>2. IndInv /\ [Next]_vars => IndInv'
  <2>1. Always' /\ Intact' /\ OkMeansRead' => IndInv'
    BY DEF IndInv, Always, Intact
  <2> QED
    BY Parts, StepAlways, StepIntact, StepAnswers, <2>1
<1> QED
  BY <1>1, <1>2, PTL DEF Spec

\* Every variable has its type, also on a ring that an error has left behind.
THEOREM TypeCorrect == Spec => []TypeOK
BY InvariantHolds, PTL DEF IndInv

\* Until a first error the ring is empty whenever the mutex is free.
THEOREM NothingLeftBehind == Spec => []RingDrained
BY InvariantHolds, PTL DEF IndInv

\* Until a first error the ring holds reads of one chunk, each with its place,
\* and a block that has landed stays in its buffer until it is copied out.
THEOREM ChunksApart == Spec => []OneChunkAtATime
BY InvariantHolds, PTL DEF IndInv

\* Every call that got the mutex before the first error, and returns Ok, has
\* read every block into its place, whatever happens to the ring afterwards.
THEOREM OkIsRead == Spec => []OkMeansRead
BY InvariantHolds, PTL DEF IndInv

=============================================================================
