----------------------- MODULE UringExecutor_proofs -----------------------
(***************************************************************************)
(* Theorems about UringExecutor, for every queue depth, submission queue   *)
(* size, number of blocks, tag span and set of faults.                     *)
(***************************************************************************)
EXTENDS UringExecutor, SequenceTheorems, FiniteSetTheorems, TLAPS

\* Packing a slot and a tag into user_data loses neither.
LEMMA PackFacts ==
  ASSUME NEW slot \in Slots, NEW tag \in Tags
  PROVE  /\ Pack(slot, tag) \in UserData
         /\ SlotOf(Pack(slot, tag)) = slot
         /\ TagOf(Pack(slot, tag)) = tag
<1>1. /\ TagSpan \in Nat /\ TagSpan > 0 /\ QueueDepth \in Nat
      /\ slot \in Nat /\ slot <= QueueDepth - 1
      /\ tag \in Nat /\ tag < TagSpan
  BY RingAssumption, TagAssumption DEF Slots, Tags
<1>2. slot * TagSpan \in Nat
  BY <1>1
<1>3. slot * TagSpan <= (QueueDepth - 1) * TagSpan
  BY <1>1
<1>4. (QueueDepth - 1) * TagSpan = QueueDepth * TagSpan - TagSpan
  BY <1>1
<1>5. Pack(slot, tag) \in UserData
  BY <1>1, <1>2, <1>3, <1>4 DEF Pack, UserData
<1>6. (slot * TagSpan + tag) \div TagSpan = slot
  BY <1>1, <1>2
<1>7. (slot * TagSpan + tag) % TagSpan = tag
  BY <1>1, <1>2
<1> QED
  BY <1>5, <1>6, <1>7 DEF Pack, SlotOf, TagOf

\* Whatever user_data comes back from the ring names a slot and a tag.
LEMMA UnpackFacts ==
  ASSUME NEW ud \in UserData
  PROVE  SlotOf(ud) \in Slots /\ TagOf(ud) \in Tags
<1>1. /\ TagSpan \in Nat /\ TagSpan > 0 /\ QueueDepth \in Nat
      /\ ud \in Nat /\ ud < QueueDepth * TagSpan
  BY RingAssumption, TagAssumption DEF UserData
<1>2. ud \div TagSpan \in Nat
  BY <1>1
<1>3. ud % TagSpan \in Tags
  BY <1>1 DEF Tags
<1>4. ud = TagSpan * (ud \div TagSpan) + (ud % TagSpan)
  BY <1>1
<1>5. ud \div TagSpan < QueueDepth
  BY <1>1, <1>2, <1>3, <1>4 DEF Tags
<1> QED
  BY <1>1, <1>2, <1>3, <1>5 DEF SlotOf, TagOf, Slots

-----------------------------------------------------------------------------
\* What appending, taking the tail and splitting do to the slots a queue names.
LEMMA QueueAppend ==
  ASSUME NEW S, NEW q \in Seq(S), NEW x \in S
  PROVE  /\ Append(q, x) \in Seq(S)
         /\ SlotsIn(Append(q, x)) = SlotsIn(q) \cup {SlotOf(x.ud)}
         /\ Distinct(q) /\ SlotOf(x.ud) \notin SlotsIn(q) => Distinct(Append(q, x))
         /\ \A i \in DOMAIN Append(q, x) :
              Append(q, x)[i] = x \/ \E j \in DOMAIN q : Append(q, x)[i] = q[j]
<1> DEFINE a == Append(q, x)
<1>1. /\ a \in Seq(S) /\ Len(a) = Len(q) + 1 /\ Len(q) \in Nat
      /\ DOMAIN a = 1 .. Len(q) + 1 /\ DOMAIN q = 1 .. Len(q)
      /\ \A i \in 1 .. Len(q) : a[i] = q[i]
      /\ a[Len(q) + 1] = x
  BY AppendProperties, LenProperties
<1> HIDE DEF a
<1>2. \A i \in DOMAIN a : i \in DOMAIN q \/ i = Len(q) + 1
  BY <1>1
<1>3. SlotsIn(a) = SlotsIn(q) \cup {SlotOf(x.ud)}
  <2>1. SlotsIn(a) \subseteq SlotsIn(q) \cup {SlotOf(x.ud)}
    BY <1>1, <1>2 DEF SlotsIn
  <2>2. SlotsIn(q) \subseteq SlotsIn(a)
    BY <1>1 DEF SlotsIn
  <2>3. SlotOf(x.ud) \in SlotsIn(a)
    <3>1. Len(q) + 1 \in DOMAIN a
      BY <1>1
    <3> QED
      BY <1>1, <3>1 DEF SlotsIn
  <2> QED
    BY <2>1, <2>2, <2>3
<1>4. ASSUME Distinct(q), SlotOf(x.ud) \notin SlotsIn(q) PROVE Distinct(a)
  BY <1>1, <1>2, <1>4 DEF Distinct, SlotsIn
<1>5. \A i \in DOMAIN a : a[i] = x \/ \E j \in DOMAIN q : a[i] = q[j]
  BY <1>1, <1>2
<1> QED
  BY <1>1, <1>3, <1>4, <1>5 DEF a

\* The head of a queue leaves with its slot, which the tail names no more.
LEMMA QueueTail ==
  ASSUME NEW S, NEW q \in Seq(S), q # <<>>, Distinct(q)
  PROVE  /\ Head(q) \in S
         /\ 1 \in DOMAIN q /\ Head(q) = q[1]
         /\ Tail(q) \in Seq(S)
         /\ Distinct(Tail(q))
         /\ SlotsIn(Tail(q)) \cup {SlotOf(Head(q).ud)} = SlotsIn(q)
         /\ SlotOf(Head(q).ud) \notin SlotsIn(Tail(q))
         /\ \A i \in DOMAIN Tail(q) : i + 1 \in DOMAIN q /\ Tail(q)[i] = q[i + 1]
<1> DEFINE t == Tail(q)
<1>1. /\ Head(q) \in S /\ t \in Seq(S) /\ Len(t) = Len(q) - 1
      /\ Len(q) \in Nat /\ Len(q) > 0
      /\ DOMAIN q = 1 .. Len(q) /\ DOMAIN t = 1 .. Len(q) - 1
      /\ \A i \in 1 .. Len(q) - 1 : t[i] = q[i + 1]
      /\ Head(q) = q[1]
  BY HeadTailProperties, LenProperties, EmptySeq
<1> HIDE DEF t
<1>2. 1 \in DOMAIN q /\ \A i \in DOMAIN t : i + 1 \in DOMAIN q
  BY <1>1
<1>3. Distinct(t)
  BY <1>1, <1>2 DEF Distinct
<1>4. SlotsIn(q) \subseteq SlotsIn(t) \cup {SlotOf(Head(q).ud)}
  <2>1. \A i \in DOMAIN q : i = 1 \/ (i - 1 \in DOMAIN t /\ q[i] = t[i - 1])
    BY <1>1
  <2> QED
    BY <1>1, <2>1 DEF SlotsIn
<1>5. SlotsIn(t) \cup {SlotOf(Head(q).ud)} \subseteq SlotsIn(q)
  BY <1>1, <1>2 DEF SlotsIn
<1>6. SlotOf(Head(q).ud) \notin SlotsIn(t)
  <2>1. \A i \in DOMAIN t : i + 1 # 1
    BY <1>1
  <2> QED
    BY <1>1, <1>2, <2>1 DEF SlotsIn, Distinct
<1> QED
  BY <1>1, <1>2, <1>3, <1>4, <1>5, <1>6 DEF t

\* The entries io_uring_enter takes, those it leaves, and the slots of a set.
Taken(q, n) == {q[i] : i \in 1 .. n}
Rest(q, n)  == SubSeq(q, n + 1, Len(q))
SlotsOfSet(E) == {SlotOf(e.ud) : e \in E}

\* io_uring_enter takes a prefix of the submission queue: its slots and those
\* of the rest are apart, and together they are the slots of the whole.
LEMMA QueueSplit ==
  ASSUME NEW S, NEW q \in Seq(S), NEW n \in 0 .. Len(q), Distinct(q)
  PROVE  LET rest  == Rest(q, n)
             taken == Taken(q, n)
             takenSlots == SlotsOfSet(taken)
         IN  /\ rest \in Seq(S) /\ Len(rest) = Len(q) - n /\ taken \subseteq S
             /\ Distinct(rest)
             /\ \A d, e \in taken : SlotOf(d.ud) = SlotOf(e.ud) => d = e
             /\ takenSlots \cup SlotsIn(rest) = SlotsIn(q)
             /\ takenSlots \cap SlotsIn(rest) = {}
             /\ \A i \in DOMAIN rest : \E j \in DOMAIN q : rest[i] = q[j]
             /\ \A e \in taken : \E j \in DOMAIN q : e = q[j]
<1> DEFINE rest  == Rest(q, n)
           taken == Taken(q, n)
           takenSlots == SlotsOfSet(taken)
<1>1. /\ Len(q) \in Nat /\ DOMAIN q = 1 .. Len(q) /\ n \in Nat /\ n <= Len(q)
      /\ \A i \in 1 .. Len(q) : q[i] \in S
  BY LenProperties
<1>2. /\ \A i \in 1 .. n : q[i] \in taken
      /\ \A e \in taken : \E i \in 1 .. n : e = q[i]
  BY DEF Taken
<1>3. /\ \A e \in taken : SlotOf(e.ud) \in takenSlots
      /\ \A s \in takenSlots : \E e \in taken : s = SlotOf(e.ud)
  BY DEF SlotsOfSet
<1>4. \A i \in n + 1 .. Len(q) : q[i] \in S
  BY <1>1
<1>5. /\ rest \in Seq(S)
      /\ Len(rest) = IF n + 1 <= Len(q) THEN Len(q) - (n + 1) + 1 ELSE 0
      /\ \A i \in 1 .. Len(q) - (n + 1) + 1 : rest[i] = q[n + 1 + i - 1]
  <2>1. n + 1 \in Int /\ Len(q) \in Int
    BY <1>1
  <2> QED
    BY <1>4, <2>1, SubSeqProperties DEF Rest
<1> HIDE DEF rest, taken, takenSlots
<1>6. Len(rest) = Len(q) - n /\ DOMAIN rest = 1 .. Len(q) - n
  BY <1>1, <1>5, LenProperties
<1>7. \A i \in DOMAIN rest : i + n \in DOMAIN q /\ rest[i] = q[i + n]
  <2> TAKE i \in DOMAIN rest
  <2>1. /\ i \in 1 .. Len(q) - (n + 1) + 1
        /\ n + 1 + i - 1 = i + n
        /\ i + n \in DOMAIN q
    BY <1>1, <1>6
  <2>2. rest[i] = q[n + 1 + i - 1]
    BY <1>5, <2>1
  <2> QED
    BY <2>1, <2>2
<1>8. Distinct(rest)
  BY <1>1, <1>6, <1>7 DEF Distinct
<1>9. takenSlots \cup SlotsIn(rest) = SlotsIn(q)
  <2>1. \A j \in DOMAIN q : j \in 1 .. n \/ (j - n \in DOMAIN rest /\ rest[j - n] = q[j])
    <3> TAKE j \in DOMAIN q
    <3>1. CASE j > n
      <4>1. j - n \in DOMAIN rest /\ j - n + n = j
        BY <1>1, <1>6, <3>1
      <4> QED
        BY <1>7, <4>1
    <3>2. CASE j <= n
      BY <1>1, <3>2
    <3> QED
      BY <1>1, <3>1, <3>2
  <2>2. SlotsIn(q) \subseteq takenSlots \cup SlotsIn(rest)
    BY <1>2, <1>3, <2>1 DEF SlotsIn
  <2>3. takenSlots \cup SlotsIn(rest) \subseteq SlotsIn(q)
    BY <1>1, <1>2, <1>3, <1>7 DEF SlotsIn
  <2> QED
    BY <2>2, <2>3
<1>10. takenSlots \cap SlotsIn(rest) = {}
  <2>1. \A i \in DOMAIN rest, j \in 1 .. n : i + n # j /\ j \in DOMAIN q
    BY <1>1, <1>6
  <2> QED
    BY <1>2, <1>3, <1>7, <2>1 DEF SlotsIn, Distinct
<1>11. \A d, e \in taken : SlotOf(d.ud) = SlotOf(e.ud) => d = e
  <2> SUFFICES ASSUME NEW d \in taken, NEW e \in taken, SlotOf(d.ud) = SlotOf(e.ud)
               PROVE  d = e
    OBVIOUS
  <2>1. PICK i \in 1 .. n : d = q[i]
    BY <1>2
  <2>2. PICK j \in 1 .. n : e = q[j]
    BY <1>2
  <2>3. i \in DOMAIN q /\ j \in DOMAIN q
    BY <1>1
  <2>4. i = j
    BY <2>1, <2>2, <2>3 DEF Distinct
  <2> QED
    BY <2>1, <2>2, <2>4
<1>12. taken \subseteq S /\ \A e \in taken : \E j \in DOMAIN q : e = q[j]
  BY <1>1, <1>2
<1> QED
  BY <1>5, <1>6, <1>7, <1>8, <1>9, <1>10, <1>11, <1>12 DEF rest, taken, takenSlots

-----------------------------------------------------------------------------
\* What popping and pushing do to the stack of free slots.
Popped(f) == SubSeq(f, 1, Len(f) - 1)

LEMMA StackPop ==
  ASSUME NEW S, NEW f \in Seq(S), f # <<>>
  PROVE  LET g == Popped(f) IN
         /\ Len(f) \in DOMAIN f /\ f[Len(f)] \in S
         /\ g \in Seq(S) /\ DOMAIN f = DOMAIN g \cup {Len(f)}
         /\ Len(f) \notin DOMAIN g
         /\ \A i \in DOMAIN g : g[i] = f[i]
<1> DEFINE g == Popped(f)
<1>1. /\ Len(f) \in Nat /\ Len(f) > 0 /\ DOMAIN f = 1 .. Len(f)
      /\ \A i \in 1 .. Len(f) : f[i] \in S
  BY LenProperties, EmptySeq
<1>2. \A i \in 1 .. Len(f) - 1 : f[i] \in S
  BY <1>1
<1>3. /\ g \in Seq(S)
      /\ Len(g) = IF 1 <= Len(f) - 1 THEN Len(f) - 1 - 1 + 1 ELSE 0
      /\ \A i \in 1 .. Len(f) - 1 - 1 + 1 : g[i] = f[1 + i - 1]
  <2>1. Len(f) - 1 \in Int /\ 1 \in Int
    BY <1>1
  <2> QED
    BY <1>2, <2>1, SubSeqProperties DEF Popped
<1> HIDE DEF g
<1>4. DOMAIN g = 1 .. Len(f) - 1
  <2>1. Len(f) \in Nat /\ Len(f) > 0
    BY <1>1
  <2>2. Len(g) = IF 1 <= Len(f) - 1 THEN Len(f) - 1 - 1 + 1 ELSE 0
    BY <1>3
  <2>3. \A m, k : m \in Nat /\ m > 0 /\ k = (IF 1 <= m - 1 THEN m - 1 - 1 + 1 ELSE 0)
                 => k = m - 1
    OBVIOUS
  <2>4. Len(g) = Len(f) - 1
    BY <2>1, <2>2, <2>3
  <2> QED
    BY <1>3, <2>4, LenProperties
<1>5. \A i \in DOMAIN g : g[i] = f[i]
  <2> TAKE i \in DOMAIN g
  <2>1. i \in 1 .. Len(f) - 1 - 1 + 1 /\ 1 + i - 1 = i
    BY <1>1, <1>4
  <2>2. g[i] = f[1 + i - 1]
    BY <1>3, <2>1
  <2> QED
    BY <2>1, <2>2
<1>6. Len(f) \in DOMAIN f /\ Len(f) \notin DOMAIN g
  BY <1>1, <1>4
<1>7. DOMAIN f = DOMAIN g \cup {Len(f)}
  BY <1>1, <1>4
<1> QED
  BY <1>1, <1>3, <1>5, <1>6, <1>7 DEF g

\* Pushing adds one place to the stack and leaves the others as they were.
LEMMA StackPush ==
  ASSUME NEW S, NEW f \in Seq(S), NEW x \in S
  PROVE  LET g == Append(f, x) IN
         /\ g \in Seq(S) /\ DOMAIN g = DOMAIN f \cup {Len(f) + 1}
         /\ Len(f) + 1 \notin DOMAIN f
         /\ g[Len(f) + 1] = x /\ \A i \in DOMAIN f : g[i] = f[i]
  BY AppendProperties, LenProperties

-----------------------------------------------------------------------------
\* Type correctness.  First io_uring_enter, which flush and drain share.
LEMMA EnterType ==
  ASSUME TypeOK, NEW n \in Prefixes, Enter(n)
  PROVE  /\ sq' \in Seq(Sqe(UserData)) /\ kernel' \subseteq Sqe(UserData)
         /\ cq' \in Seq(Cqe(UserData)) /\ bufs' \in [Slots -> Contents]
<1>1. sq \in Seq(Sqe(UserData)) /\ Len(sq) \in Nat /\ n \in 0 .. Len(sq)
  BY LenProperties, EmptySeq DEF TypeOK, Prefixes
<1>2. \A i \in 1 .. Len(sq) : sq[i] \in Sqe(UserData)
  BY <1>1, LenProperties
<1>3. sq' \in Seq(Sqe(UserData))
  <2>1. n + 1 \in Int /\ Len(sq) \in Int /\ \A i \in n + 1 .. Len(sq) : sq[i] \in Sqe(UserData)
    BY <1>1, <1>2
  <2> QED
    BY <2>1, SubSeqProperties DEF Enter
<1>4. kernel' \subseteq Sqe(UserData)
  <2>1. \A i \in 1 .. n : sq[i] \in Sqe(UserData)
    BY <1>1, <1>2
  <2> QED
    BY <2>1 DEF Enter, TypeOK
<1>5. bufs' \in [Slots -> Contents]
  BY DEF Enter, TypeOK, Contents
<1> QED
  BY <1>3, <1>4, <1>5 DEF Enter, TypeOK

\* A freshly opened executor: every slot free, the ring empty.
LEMMA InitType == Init => TypeOK
<1> SUFFICES ASSUME Init PROVE TypeOK
  OBVIOUS
<1>1. free \in Seq(Slots)
  BY RingAssumption DEF Init, Slots
<1> QED
  BY <1>1 DEF Init, RingInit, TypeOK, Statuses, Running, Contents, Garbage

\* Every operation of the caller, of drain and of the device keeps the types.
LEMMA StepType == TypeOK /\ [Next]_vars => TypeOK'
<1> SUFFICES ASSUME TypeOK, [Next]_vars PROVE TypeOK'
  OBVIOUS
<1> USE DEF Statuses, Running
<1>1. ASSUME NEW block \in 0 .. NumBlocks, NEW tag \in 0 .. TagSpan,
             StageRead(block, tag)
      PROVE  TypeOK'
  <2> DEFINE slot == free[Len(free)]
             e == [buf |-> slot, block |-> block, ud |-> Pack(slot, tag)]
  <2>1. free # <<>> /\ block \in Blocks /\ tag \in Tags
    BY <1>1, RingAssumption, TagAssumption DEF StageRead, Refused, Blocks, Tags
  <2>2. slot \in Slots /\ free' \in Seq(Slots)
    BY <1>1, <2>1, StackPop DEF StageRead, Popped, TypeOK
  <2>3. e \in Sqe(UserData) /\ [tag |-> tag, block |-> block] \in Request
    BY <2>1, <2>2, PackFacts DEF Sqe, Request
  <2> HIDE DEF slot, e
  <2>4. CASE Len(sq) < SqEntries
    <3>1. sq' = Append(sq, e) /\ asked' = [asked EXCEPT ![slot] = [tag |-> tag, block |-> block]]
      BY <1>1, <2>4 DEF StageRead, Push, slot, e
    <3>2. sq' \in Seq(Sqe(UserData))
      BY <2>3, <3>1, AppendProperties DEF TypeOK
    <3>3. asked' \in [Slots -> Request \cup {NoRequest}]
      BY <2>2, <2>3, <3>1 DEF TypeOK
    <3>4. UNCHANGED <<kernel, cq, bufs, status, cqBuf, need, out>>
      BY <1>1, <2>4 DEF StageRead, Push
    <3> QED
      BY <2>2, <3>2, <3>3, <3>4 DEF TypeOK
  <2>5. CASE ~ (Len(sq) < SqEntries)
    BY <1>1, <2>2, <2>5 DEF StageRead, TypeOK, ringVars
  <2> QED
    BY <2>4, <2>5
<1>2. CASE Flush
  BY <1>2, EnterType DEF Flush, executorVars, TypeOK
<1>3. CASE Fail
  BY <1>3 DEF Fail, ringVars, TypeOK
<1>4. ASSUME NEW min \in Drains, DrainEnter(min) PROVE TypeOK'
  <2>1. min \in Nat
    BY DEF Drains
  <2>2. need' \in Nat
    BY <1>4, <2>1 DEF DrainEnter, Awaited
  <2>3. CASE UNCHANGED ringVars
    BY <1>4, <2>2, <2>3 DEF DrainEnter, ringVars, TypeOK
  <2>4. CASE \E n \in Prefixes : Enter(n)
    BY <1>4, <2>2, <2>4, EnterType DEF DrainEnter, TypeOK
  <2> QED
    BY <1>4, <2>3, <2>4 DEF DrainEnter
<1>5. CASE Drop
  BY <1>5 DEF Drop, ringVars, TypeOK
<1>6. CASE Reap
  <2>1. <<>> \in Seq(Cqe(UserData))
    BY EmptySeq
  <2> QED
    BY <1>6, <2>1 DEF Reap, TypeOK
<1>7. CASE Deliver
  <2> DEFINE c == Head(cqBuf)
             slot == SlotOf(c.ud)
  <2>1. c \in Cqe(UserData) /\ Tail(cqBuf) \in Seq(Cqe(UserData))
    BY <1>7, HeadTailProperties DEF Deliver, TypeOK
  <2>2. slot \in Slots /\ TagOf(c.ud) \in Tags
    BY <2>1, UnpackFacts DEF Cqe
  <2> HIDE DEF c, slot
  <2>3. /\ out' = [tag |-> TagOf(c.ud), data |-> bufs[slot]]
        /\ free' = Append(free, slot)
        /\ asked' = [asked EXCEPT ![slot] = NoRequest]
        /\ cqBuf' = Tail(cqBuf)
        /\ UNCHANGED <<sq, kernel, cq, bufs, need, status>>
    BY <1>7 DEF Deliver, ringVars, c, slot
  <2>4. out' \in Delivery
    BY <2>2, <2>3 DEF Delivery, TypeOK
  <2>5. free' \in Seq(Slots)
    BY <2>2, <2>3, AppendProperties DEF TypeOK
  <2> QED
    BY <2>1, <2>2, <2>3, <2>4, <2>5 DEF TypeOK
<1>8. CASE CompletionError \/ DrainDone
  <2>1. <<>> \in Seq(Cqe(UserData))
    BY EmptySeq
  <2> QED
    BY <1>8, <2>1 DEF CompletionError, DrainDone, ringVars, TypeOK
<1>9. CASE Device
  <2> PICK e \in kernel, res \in Results : Complete(e, res)
    BY <1>9 DEF Device, KernelComplete
  <2>1. e \in Sqe(UserData) /\ [ud |-> e.ud, res |-> res] \in Cqe(UserData)
    BY DEF TypeOK, Sqe, Cqe
  <2>2. cq' \in Seq(Cqe(UserData))
    BY <2>1, AppendProperties DEF Complete, TypeOK
  <2>3. bufs' \in [Slots -> Contents]
    BY <2>1 DEF Complete, TypeOK, Sqe, Contents
  <2> QED
    BY <1>9, <2>2, <2>3 DEF Device, executorVars, Complete, TypeOK
<1>10. CASE UNCHANGED vars
  BY <1>10 DEF vars, ringVars, executorVars, TypeOK
<1> QED
  BY <1>1, <1>2, <1>3, <1>4, <1>5, <1>6, <1>7, <1>8, <1>9, <1>10
     DEF Next, Caller, Executor, StageRefused, FlushFails, DrainFails, Dropped

\* Every variable keeps its type, for every value of the constants.
THEOREM TypeCorrect == Spec => []TypeOK
  BY InitType, StepType, PTL DEF Spec

-----------------------------------------------------------------------------
\* The inductive invariant.  First the initial states.
LEMMA InitInv == Init => IndInv
<1> SUFFICES ASSUME Init PROVE IndInv
  OBVIOUS
<1>1. TypeOK
  BY InitType
<1>2. /\ sq = <<>> /\ cq = <<>> /\ cqBuf = <<>> /\ kernel = {}
      /\ free = [i \in 1 .. QueueDepth |-> QueueDepth - i]
      /\ status = "ready" /\ out = NoDelivery
      /\ asked = [s \in Slots |-> NoRequest]
  BY DEF Init, RingInit
<1>3. DOMAIN sq = {} /\ DOMAIN cq = {} /\ DOMAIN cqBuf = {}
  BY <1>2
<1>4. SlotsIn(sq) = {} /\ SlotsIn(cq) = {} /\ SlotsIn(cqBuf) = {} /\ KernelSlots = {}
  BY <1>2, <1>3 DEF SlotsIn, KernelSlots
<1>5. FreeSlots = Slots
  <2>1. \A i \in 1 .. QueueDepth : QueueDepth - i \in Slots
    BY RingAssumption DEF Slots
  <2>2. \A s \in Slots : QueueDepth - s \in 1 .. QueueDepth /\ QueueDepth - (QueueDepth - s) = s
    BY RingAssumption DEF Slots
  <2>3. DOMAIN free = 1 .. QueueDepth /\ \A i \in 1 .. QueueDepth : free[i] = QueueDepth - i
    BY <1>2
  <2>4. FreeSlots \subseteq Slots
    BY <2>1, <2>3 DEF FreeSlots
  <2>5. Slots \subseteq FreeSlots
    <3> SUFFICES ASSUME NEW s \in Slots PROVE s \in FreeSlots
      OBVIOUS
    <3>1. QueueDepth - s \in DOMAIN free /\ free[QueueDepth - s] = s
      BY <2>2, <2>3
    <3> QED
      BY <3>1 DEF FreeSlots
  <2> QED
    BY <2>4, <2>5
<1>6. OwnedOnce
  <2>1. \A i, j \in 1 .. QueueDepth : QueueDepth - i = QueueDepth - j => i = j
    BY RingAssumption
  <2> QED
    BY <1>2, <1>3, <2>1 DEF OwnedOnce, Distinct
<1>7. Apart /\ NoneLost
  BY <1>4, <1>5 DEF Apart, NoneLost
<1>8. Linked
  <2>1. \A s \in FreeSlots : asked[s] = NoRequest
    BY <1>2, <1>5
  <2> QED
    BY <1>2, <1>3, <2>1 DEF Linked
<1>9. Phases
  BY <1>2 DEF Phases
<1> QED
  BY <1>1, <1>6, <1>7, <1>8, <1>9 DEF IndInv, SlotAccounting

\* Submitting entries moves their slots from the queue to the kernel.
LEMMA EnterInv ==
  ASSUME IndInv, NEW n \in Prefixes, Enter(n), UNCHANGED <<free, cqBuf, asked>>
  PROVE  /\ OwnedOnce' /\ Apart' /\ Linked'
         /\ SlotsIn(sq') \cup KernelSlots' = SlotsIn(sq) \cup KernelSlots
         /\ FreeSlots' = FreeSlots /\ cq' = cq
<1> DEFINE taken == Taken(sq, n)
           takenSlots == SlotsOfSet(taken)
<1>1. /\ sq \in Seq(Sqe(UserData)) /\ Distinct(sq) /\ n \in 0 .. Len(sq)
  BY LenProperties, EmptySeq DEF IndInv, TypeOK, Prefixes, SlotAccounting, OwnedOnce
<1>2. /\ Distinct(sq')
      /\ \A d, e \in taken : SlotOf(d.ud) = SlotOf(e.ud) => d = e
      /\ takenSlots \cup SlotsIn(sq') = SlotsIn(sq)
      /\ takenSlots \cap SlotsIn(sq') = {}
      /\ \A i \in DOMAIN sq' : \E j \in DOMAIN sq : sq'[i] = sq[j]
      /\ \A e \in taken : \E j \in DOMAIN sq : e = sq[j]
  <2>1. sq' = Rest(sq, n)
    BY DEF Enter, Rest
  <2> QED
    BY <1>1, <2>1, QueueSplit
<1>3. /\ kernel' = kernel \cup taken /\ UNCHANGED <<cq, cqBuf, free, asked>>
      /\ bufs' = [s \in Slots |-> IF \E e \in taken : e.buf = s THEN Garbage ELSE bufs[s]]
  BY DEF Enter, Taken
<1>4. \A e \in taken : Serves(e) /\ SlotOf(e.ud) \in takenSlots
  BY <1>2 DEF IndInv, Linked, SlotsOfSet
<1>5. \A s \in takenSlots : \E e \in taken : s = SlotOf(e.ud)
  BY DEF SlotsOfSet
<1> HIDE DEF taken, takenSlots
<1>6. KernelSlots' = KernelSlots \cup takenSlots
  BY <1>3, <1>4, <1>5 DEF KernelSlots
<1>7. takenSlots \subseteq SlotsIn(sq)
  BY <1>2
<1>8. Apart'
  BY <1>2, <1>3, <1>6 DEF IndInv, SlotAccounting, Apart, FreeSlots
<1>9. OwnedOnce'
  <2>1. ASSUME NEW d \in kernel', NEW e \in kernel', SlotOf(d.ud) = SlotOf(e.ud)
        PROVE  d = e
    <3>1. \A x \in kernel, y \in taken : SlotOf(x.ud) # SlotOf(y.ud)
      BY <1>4, <1>7 DEF IndInv, SlotAccounting, Apart, KernelSlots
    <3> QED
      BY <1>2, <1>3, <2>1, <3>1 DEF IndInv, SlotAccounting, OwnedOnce
  <2> QED
    BY <1>2, <1>3, <2>1 DEF IndInv, SlotAccounting, OwnedOnce
<1>10. ASSUME NEW c, c.ud \in UserData, SlotOf(c.ud) \notin SlotsIn(sq), Answers(c)
       PROVE  Answers(c)'
  <2>1. SlotOf(c.ud) \in Slots
    BY <1>10, UnpackFacts
  <2>2. bufs'[SlotOf(c.ud)] = bufs[SlotOf(c.ud)]
    BY <1>3, <1>4, <1>7, <1>10, <2>1 DEF Serves
  <2> QED
    BY <1>3, <1>10, <2>2 DEF Answers, Faithful
<1>11. \A i \in DOMAIN cq : cq[i].ud \in UserData /\ SlotOf(cq[i].ud) \notin SlotsIn(sq)
  <2>1. \A i \in DOMAIN cq : SlotOf(cq[i].ud) \in SlotsIn(cq)
    BY DEF SlotsIn
  <2>2. SlotsIn(sq) \cap SlotsIn(cq) = {}
    BY DEF IndInv, SlotAccounting, Apart
  <2>3. \A i \in DOMAIN cq : cq[i] \in Cqe(UserData)
    BY LenProperties DEF IndInv, TypeOK
  <2> QED
    BY <2>1, <2>2, <2>3 DEF Cqe
<1>12. \A i \in DOMAIN cqBuf : cqBuf[i].ud \in UserData /\ SlotOf(cqBuf[i].ud) \notin SlotsIn(sq)
  <2>1. \A i \in DOMAIN cqBuf : SlotOf(cqBuf[i].ud) \in SlotsIn(cqBuf)
    BY DEF SlotsIn
  <2>2. SlotsIn(sq) \cap SlotsIn(cqBuf) = {}
    BY DEF IndInv, SlotAccounting, Apart
  <2>3. \A i \in DOMAIN cqBuf : cqBuf[i] \in Cqe(UserData)
    BY LenProperties DEF IndInv, TypeOK
  <2> QED
    BY <2>1, <2>2, <2>3 DEF Cqe
<1>13. Linked'
  <2>1. (\A i \in DOMAIN sq : Serves(sq[i]))'
    BY <1>2, <1>3 DEF IndInv, Linked, Serves
  <2>2. (\A e \in kernel : Serves(e))'
    BY <1>3, <1>4 DEF IndInv, Linked, Serves
  <2>3. (\A i \in DOMAIN cq : Answers(cq[i]))'
    BY <1>3, <1>10, <1>11 DEF IndInv, Linked
  <2>4. (\A i \in DOMAIN cqBuf : Answers(cqBuf[i]))'
    BY <1>3, <1>10, <1>12 DEF IndInv, Linked
  <2>5. (\A s \in FreeSlots : asked[s] = NoRequest)'
    BY <1>3 DEF IndInv, Linked, FreeSlots
  <2> QED
    BY <2>1, <2>2, <2>3, <2>4, <2>5 DEF Linked
<1> QED
  BY <1>2, <1>3, <1>6, <1>8, <1>9, <1>13 DEF FreeSlots

\* The members of the queues, with the types and places of their slots.
LEMMA Places ==
  ASSUME IndInv
  PROVE  /\ Distinct(sq) /\ Distinct(cq) /\ Distinct(cqBuf)
         /\ \A i \in DOMAIN sq : sq[i] \in Sqe(UserData) /\ SlotOf(sq[i].ud) \in SlotsIn(sq)
         /\ \A i \in DOMAIN cq : cq[i] \in Cqe(UserData) /\ SlotOf(cq[i].ud) \in SlotsIn(cq)
         /\ \A i \in DOMAIN cqBuf : cqBuf[i] \in Cqe(UserData) /\ SlotOf(cqBuf[i].ud) \in SlotsIn(cqBuf)
         /\ \A e \in kernel : e \in Sqe(UserData) /\ SlotOf(e.ud) \in KernelSlots
         /\ \A i \in DOMAIN free : free[i] \in FreeSlots /\ free[i] \in Slots
<1>1. Distinct(sq) /\ Distinct(cq) /\ Distinct(cqBuf)
  BY DEF IndInv, SlotAccounting, OwnedOnce
<1>2. /\ \A i \in DOMAIN sq : sq[i] \in Sqe(UserData)
      /\ \A i \in DOMAIN cq : cq[i] \in Cqe(UserData)
      /\ \A i \in DOMAIN cqBuf : cqBuf[i] \in Cqe(UserData)
      /\ \A i \in DOMAIN free : free[i] \in Slots
  BY LenProperties DEF IndInv, TypeOK
<1>3. \A e \in kernel : e \in Sqe(UserData)
  BY DEF IndInv, TypeOK
<1> QED
  BY <1>1, <1>2, <1>3 DEF SlotsIn, KernelSlots, FreeSlots

\* stage_read moves the top of the free stack to the submission queue.
LEMMA StageInv ==
  ASSUME IndInv, NEW block \in 0 .. NumBlocks, NEW tag \in 0 .. TagSpan,
         StageRead(block, tag)
  PROVE  SlotAccounting' /\ Linked' /\ Phases'
<1> DEFINE slot == free[Len(free)]
           e == [buf |-> slot, block |-> block, ud |-> Pack(slot, tag)]
<1>1. free # <<>> /\ block \in Blocks /\ tag \in Tags
  BY RingAssumption, TagAssumption DEF StageRead, Refused, Blocks, Tags
<1>2. /\ Len(free) \in DOMAIN free /\ slot \in Slots
      /\ DOMAIN free = DOMAIN free' \cup {Len(free)}
      /\ Len(free) \notin DOMAIN free'
      /\ \A i \in DOMAIN free' : free'[i] = free[i]
  <2>1. free' = Popped(free) /\ free \in Seq(Slots)
    BY DEF StageRead, Popped, IndInv, TypeOK
  <2> QED
    BY <1>1, <2>1, StackPop
<1>3. /\ e \in Sqe(UserData) /\ SlotOf(e.ud) = slot /\ TagOf(e.ud) = tag
      /\ e.buf = slot /\ e.block = block
  BY <1>1, <1>2, PackFacts DEF Sqe
<1> HIDE DEF slot, e
<1>4. \A i, j \in DOMAIN free : free[i] = free[j] => i = j
  BY DEF IndInv, SlotAccounting, OwnedOnce
<1>5. /\ slot \in FreeSlots /\ FreeSlots = FreeSlots' \cup {slot}
      /\ slot \notin FreeSlots'
      /\ \A i, j \in DOMAIN free' : free'[i] = free'[j] => i = j
  <2>1. slot = free[Len(free)]
    BY DEF slot
  <2>2. slot \in FreeSlots
    BY <1>2, <2>1 DEF FreeSlots
  <2>3. FreeSlots \subseteq FreeSlots' \cup {slot}
    BY <1>2, <2>1 DEF FreeSlots
  <2>4. FreeSlots' \subseteq FreeSlots
    BY <1>2 DEF FreeSlots
  <2>5. slot \notin FreeSlots'
    BY <1>2, <1>4, <2>1 DEF FreeSlots
  <2>6. \A i, j \in DOMAIN free' : free'[i] = free'[j] => i = j
    BY <1>2, <1>4
  <2> QED
    BY <2>2, <2>3, <2>4, <2>5, <2>6
<1>6. UNCHANGED <<kernel, cq, bufs, cqBuf, out>>
  BY DEF StageRead, Push, ringVars
<1>7. CASE Len(sq) < SqEntries
  <2>1. /\ sq' = Append(sq, e) /\ UNCHANGED status
        /\ asked' = [asked EXCEPT ![slot] = [tag |-> tag, block |-> block]]
    BY <1>7 DEF StageRead, Push, slot, e
  <2>2. slot \notin SlotsIn(sq) \cup KernelSlots \cup SlotsIn(cq) \cup SlotsIn(cqBuf)
    BY <1>5 DEF IndInv, SlotAccounting, Apart
  <2>3. /\ SlotsIn(sq') = SlotsIn(sq) \cup {slot} /\ Distinct(sq')
        /\ \A i \in DOMAIN sq' : sq'[i] = e \/ \E j \in DOMAIN sq : sq'[i] = sq[j]
    BY <1>3, <2>1, <2>2, Places, QueueAppend DEF IndInv, TypeOK
  <2>4. OwnedOnce'
    BY <1>5, <1>6, <2>3 DEF IndInv, SlotAccounting, OwnedOnce
  <2>5. Apart' /\ NoneLost'
    BY <1>5, <1>6, <2>1, <2>2, <2>3
       DEF IndInv, SlotAccounting, Apart, NoneLost, KernelSlots
  <2>6. asked'[slot] = [tag |-> tag, block |-> block]
    BY <1>2, <2>1 DEF IndInv, TypeOK
  <2>7. \A s : s # slot => asked'[s] = asked[s]
    BY <2>1 DEF IndInv, TypeOK
  <2>8. (\A i \in DOMAIN sq : Serves(sq[i]))'
    <3>1. e.buf = SlotOf(e.ud) /\ asked'[e.buf] = [tag |-> TagOf(e.ud), block |-> e.block]
      BY <1>3, <2>6
    <3>2. ASSUME NEW j \in DOMAIN sq PROVE Serves(sq[j]) /\ sq[j].buf # slot
      BY <2>2, Places DEF IndInv, Linked, Serves
    <3> QED
      BY <2>3, <2>7, <3>1, <3>2 DEF Serves
  <2>9. (\A d \in kernel : Serves(d))'
    <3>1. \A d \in kernel : Serves(d) /\ d.buf # slot
      BY <2>2, Places DEF IndInv, Linked, Serves
    <3> QED
      BY <1>6, <2>7, <3>1 DEF Serves
  <2>10. (\A i \in DOMAIN cq : Answers(cq[i]))'
    <3>1. \A i \in DOMAIN cq : Answers(cq[i]) /\ SlotOf(cq[i].ud) # slot
      BY <2>2, Places DEF IndInv, Linked
    <3> QED
      BY <1>6, <2>7, <3>1 DEF Answers, Faithful
  <2>11. (\A i \in DOMAIN cqBuf : Answers(cqBuf[i]))'
    <3>1. \A i \in DOMAIN cqBuf : Answers(cqBuf[i]) /\ SlotOf(cqBuf[i].ud) # slot
      BY <2>2, Places DEF IndInv, Linked
    <3> QED
      BY <1>6, <2>7, <3>1 DEF Answers, Faithful
  <2>12. (\A s \in FreeSlots : asked[s] = NoRequest)'
    BY <1>5, <2>7 DEF IndInv, Linked
  <2>13. Phases'
    BY <1>6, <2>1 DEF IndInv, Phases
  <2> QED
    BY <2>4, <2>5, <2>8, <2>9, <2>10, <2>11, <2>12, <2>13 DEF SlotAccounting, Linked
<1>8. CASE ~ (Len(sq) < SqEntries)
  <2>1. UNCHANGED <<sq, asked>> /\ status' = "failed" /\ status = "ready"
    BY <1>8 DEF StageRead, ringVars
  <2>2. OwnedOnce' /\ Apart' /\ NoneLost'
    BY <1>5, <1>6, <2>1
       DEF IndInv, SlotAccounting, OwnedOnce, Apart, NoneLost, KernelSlots, Running
  <2>3. Linked' /\ Phases'
    BY <1>5, <1>6, <2>1
       DEF IndInv, Linked, Serves, Answers, Faithful, Phases
  <2> QED
    BY <2>2, <2>3 DEF SlotAccounting
<1> QED
  BY <1>7, <1>8

\* A callback hands the slot of its completion back to the free stack.
LEMMA DeliverInv ==
  ASSUME IndInv, Deliver
  PROVE  SlotAccounting' /\ Linked' /\ Phases'
<1> DEFINE c == Head(cqBuf)
           slot == SlotOf(c.ud)
<1>1. cqBuf \in Seq(Cqe(UserData)) /\ cqBuf # <<>> /\ Distinct(cqBuf)
  BY Places DEF IndInv, TypeOK, Deliver
<1>2. /\ c \in Cqe(UserData) /\ 1 \in DOMAIN cqBuf /\ c = cqBuf[1]
      /\ Distinct(Tail(cqBuf))
      /\ SlotsIn(Tail(cqBuf)) \cup {slot} = SlotsIn(cqBuf)
      /\ slot \notin SlotsIn(Tail(cqBuf))
      /\ \A i \in DOMAIN Tail(cqBuf) :
           i + 1 \in DOMAIN cqBuf /\ Tail(cqBuf)[i] = cqBuf[i + 1]
  BY <1>1, QueueTail
<1>3. /\ free' = Append(free, slot) /\ cqBuf' = Tail(cqBuf)
      /\ asked' = [asked EXCEPT ![slot] = NoRequest]
      /\ UNCHANGED <<sq, kernel, cq, bufs, status>> /\ status = "callback"
  BY DEF Deliver, ringVars
<1>4. slot \in Slots
  BY <1>2, UnpackFacts DEF Cqe
<1> HIDE DEF c, slot
<1>5. slot \notin FreeSlots \cup SlotsIn(sq) \cup KernelSlots \cup SlotsIn(cq)
  BY <1>2 DEF IndInv, SlotAccounting, Apart
<1>6. /\ DOMAIN free' = DOMAIN free \cup {Len(free) + 1}
      /\ Len(free) + 1 \notin DOMAIN free
      /\ free'[Len(free) + 1] = slot
      /\ \A i \in DOMAIN free : free'[i] = free[i]
  BY <1>3, <1>4, StackPush DEF IndInv, TypeOK
<1>7. FreeSlots' = FreeSlots \cup {slot}
  BY <1>6 DEF FreeSlots
<1>8. \A i, j \in DOMAIN free' : free'[i] = free'[j] => i = j
  <2>1. \A i \in DOMAIN free : free[i] # slot
    BY <1>5 DEF FreeSlots
  <2>2. \A i, j \in DOMAIN free : free[i] = free[j] => i = j
    BY DEF IndInv, SlotAccounting, OwnedOnce
  <2> QED
    BY <1>6, <2>1, <2>2
<1>9. OwnedOnce'
  BY <1>2, <1>3, <1>8 DEF IndInv, SlotAccounting, OwnedOnce
<1>10. Apart' /\ NoneLost'
  BY <1>2, <1>3, <1>5, <1>7 DEF IndInv, SlotAccounting, Apart, NoneLost, KernelSlots
<1>11. /\ asked'[slot] = NoRequest
       /\ \A s : s # slot => asked'[s] = asked[s]
  BY <1>3, <1>4 DEF IndInv, TypeOK
<1>12. (\A i \in DOMAIN sq : Serves(sq[i]))'
  <2>1. \A i \in DOMAIN sq : Serves(sq[i]) /\ sq[i].buf # slot
    BY <1>5, Places DEF IndInv, Linked, Serves
  <2> QED
    BY <1>3, <1>11, <2>1 DEF Serves
<1>13. (\A e \in kernel : Serves(e))'
  <2>1. \A e \in kernel : Serves(e) /\ e.buf # slot
    BY <1>5, Places DEF IndInv, Linked, Serves
  <2> QED
    BY <1>3, <1>11, <2>1 DEF Serves
<1>14. (\A i \in DOMAIN cq : Answers(cq[i]))'
  <2>1. \A i \in DOMAIN cq : Answers(cq[i]) /\ SlotOf(cq[i].ud) # slot
    BY <1>5, Places DEF IndInv, Linked
  <2> QED
    BY <1>3, <1>11, <2>1 DEF Answers, Faithful
<1>15. (\A i \in DOMAIN cqBuf : Answers(cqBuf[i]))'
  <2>1. \A i \in DOMAIN cqBuf' : SlotOf(cqBuf'[i].ud) # slot
    BY <1>2, <1>3 DEF SlotsIn
  <2>2. \A i \in DOMAIN cqBuf' : Answers(cqBuf'[i])
    BY <1>2, <1>3 DEF IndInv, Linked
  <2> QED
    BY <1>3, <1>11, <2>1, <2>2 DEF Answers, Faithful
<1>16. (\A s \in FreeSlots : asked[s] = NoRequest)'
  BY <1>7, <1>11 DEF IndInv, Linked
<1>17. Phases'
  BY <1>3 DEF Phases
<1> QED
  BY <1>9, <1>10, <1>12, <1>13, <1>14, <1>15, <1>16, <1>17 DEF SlotAccounting, Linked

\* The device moves a slot from the kernel to the completion queue.
LEMMA DeviceInv ==
  ASSUME IndInv, Device
  PROVE  SlotAccounting' /\ Linked' /\ Phases'
<1> PICK e \in kernel, res \in Results : Complete(e, res)
  BY DEF Device, KernelComplete
<1> DEFINE c == [ud |-> e.ud, res |-> res]
           slot == SlotOf(e.ud)
<1>1. /\ e \in Sqe(UserData) /\ Serves(e) /\ slot \in KernelSlots
      /\ slot \in Slots /\ e.buf = slot
  BY Places, UnpackFacts DEF Sqe, IndInv, Linked, Serves
<1>2. c \in Cqe(UserData) /\ c.ud = e.ud /\ c.res = res
  BY <1>1 DEF Sqe, Cqe
<1>3. /\ kernel' = kernel \ {e} /\ cq' = Append(cq, c)
      /\ bufs' = [bufs EXCEPT ![slot] = IF res = "full" THEN e.block ELSE Garbage]
      /\ UNCHANGED <<sq, free, cqBuf, status, asked, out>>
  BY <1>1 DEF Complete, Device, executorVars
<1> HIDE DEF c, slot
<1>4. slot \notin FreeSlots \cup SlotsIn(sq) \cup SlotsIn(cq) \cup SlotsIn(cqBuf)
  BY <1>1 DEF IndInv, SlotAccounting, Apart
<1>5. SlotOf(c.ud) = slot
  BY <1>2 DEF slot
<1>6. /\ SlotsIn(cq') = SlotsIn(cq) \cup {slot} /\ Distinct(cq')
      /\ \A i \in DOMAIN cq' : cq'[i] = c \/ \E j \in DOMAIN cq : cq'[i] = cq[j]
  BY <1>2, <1>3, <1>4, <1>5, Places, QueueAppend DEF IndInv, TypeOK
<1>7. KernelSlots = KernelSlots' \cup {slot} /\ slot \notin KernelSlots'
  BY <1>1, <1>3 DEF IndInv, SlotAccounting, OwnedOnce, KernelSlots, slot
<1>8. OwnedOnce'
  BY <1>3, <1>6 DEF IndInv, SlotAccounting, OwnedOnce
<1>9. Apart' /\ NoneLost'
  BY <1>3, <1>4, <1>6, <1>7 DEF IndInv, SlotAccounting, Apart, NoneLost, FreeSlots
<1>10. /\ bufs'[slot] = IF res = "full" THEN e.block ELSE Garbage
       /\ \A s : s # slot => bufs'[s] = bufs[s]
  BY <1>1, <1>3 DEF IndInv, TypeOK
<1>11. asked[slot] = [tag |-> TagOf(e.ud), block |-> e.block]
  BY <1>1 DEF Serves
<1>12. asked[slot] # NoRequest
  <2>1. TagOf(e.ud) \in Nat
    BY <1>1, UnpackFacts, TagAssumption DEF Sqe, Tags
  <2> QED
    BY <1>11, <2>1 DEF NoRequest
<1>13. (\A i \in DOMAIN sq : Serves(sq[i]))' /\ (\A d \in kernel : Serves(d))'
  BY <1>3 DEF IndInv, Linked, Serves
<1>14. (\A i \in DOMAIN cq : Answers(cq[i]))'
  <2>1. \A j \in DOMAIN cq : Answers(cq[j]) /\ SlotOf(cq[j].ud) # slot
    BY <1>4, Places DEF IndInv, Linked
  <2>2. /\ asked'[SlotOf(c.ud)] # NoRequest
        /\ asked'[SlotOf(c.ud)].tag = TagOf(c.ud)
        /\ c.res = "full" => bufs'[SlotOf(c.ud)] = asked'[SlotOf(c.ud)].block
    BY <1>2, <1>3, <1>5, <1>10, <1>11, <1>12
  <2> QED
    BY <1>3, <1>6, <1>10, <2>1, <2>2 DEF Answers, Faithful
<1>15. (\A i \in DOMAIN cqBuf : Answers(cqBuf[i]))'
  <2>1. \A i \in DOMAIN cqBuf : Answers(cqBuf[i]) /\ SlotOf(cqBuf[i].ud) # slot
    BY <1>4, Places DEF IndInv, Linked
  <2> QED
    BY <1>3, <1>10, <2>1 DEF Answers, Faithful
<1>16. (\A s \in FreeSlots : asked[s] = NoRequest)' /\ Phases'
  BY <1>3 DEF IndInv, Linked, FreeSlots, Phases
<1> QED
  BY <1>8, <1>9, <1>13, <1>14, <1>15, <1>16 DEF SlotAccounting, Linked

\* Steps that move no slot.
LEMMA SameOwners ==
  ASSUME IndInv, UNCHANGED <<ringVars, free, cqBuf, asked>>
  PROVE  /\ OwnedOnce' /\ Apart' /\ Linked'
         /\ (status' \in Running => status \in Running) => NoneLost'
  BY DEF IndInv, SlotAccounting, OwnedOnce, Apart, NoneLost, Linked, Serves, Answers,
         Faithful, FreeSlots, KernelSlots, ringVars

\* Every step preserves the inductive invariant: the cases above put together.
LEMMA StepInv == IndInv /\ [Next]_vars => IndInv'
<1> SUFFICES ASSUME IndInv, [Next]_vars PROVE SlotAccounting' /\ Linked' /\ Phases'
  BY StepType DEF IndInv
<1>1. ASSUME NEW block \in 0 .. NumBlocks, NEW tag \in 0 .. TagSpan, StageRead(block, tag)
      PROVE  SlotAccounting' /\ Linked' /\ Phases'
  BY <1>1, StageInv
<1>2. CASE Flush
  <2>1. PICK n \in Prefixes : Enter(n)
    BY <1>2 DEF Flush
  <2>2. UNCHANGED <<free, cqBuf, asked, status, out>>
    BY <1>2 DEF Flush, executorVars
  <2>3. /\ OwnedOnce' /\ Apart' /\ Linked' /\ FreeSlots' = FreeSlots /\ cq' = cq
        /\ SlotsIn(sq') \cup KernelSlots' = SlotsIn(sq) \cup KernelSlots
    BY <2>1, <2>2, EnterInv
  <2>4. NoneLost'
    BY <2>2, <2>3 DEF IndInv, SlotAccounting, NoneLost
  <2> QED
    BY <2>2, <2>3, <2>4 DEF IndInv, SlotAccounting, Phases
<1>3. CASE FlushFails \/ DrainFails
  <2>1. /\ UNCHANGED <<ringVars, free, cqBuf, asked, out>>
        /\ status = "ready" /\ status' = "failed"
    BY <1>3 DEF FlushFails, DrainFails, Fail
  <2> QED
    BY <2>1, SameOwners DEF IndInv, SlotAccounting, Phases, Running
<1>4. ASSUME NEW min \in Drains, DrainEnter(min)
      PROVE  SlotAccounting' /\ Linked' /\ Phases'
  <2>1. UNCHANGED <<free, cqBuf, asked, out>> /\ status = "ready" /\ status' = "waiting"
    BY <1>4 DEF DrainEnter
  <2>2. CASE UNCHANGED ringVars
    BY <2>1, <2>2, SameOwners DEF IndInv, SlotAccounting, Phases, Running
  <2>3. ASSUME NEW n \in Prefixes, Enter(n)
        PROVE  SlotAccounting' /\ Linked' /\ Phases'
    <3>1. /\ OwnedOnce' /\ Apart' /\ Linked' /\ FreeSlots' = FreeSlots /\ cq' = cq
          /\ SlotsIn(sq') \cup KernelSlots' = SlotsIn(sq) \cup KernelSlots
      BY <2>1, <2>3, EnterInv
    <3>2. NoneLost'
      BY <2>1, <3>1 DEF IndInv, SlotAccounting, NoneLost, Running
    <3> QED
      BY <2>1, <3>1, <3>2 DEF IndInv, SlotAccounting, Phases
  <2> QED
    BY <1>4, <2>2, <2>3 DEF DrainEnter
<1>5. CASE Drop
  BY <1>5, SameOwners DEF Drop, IndInv, SlotAccounting, Phases, Running
<1>6. CASE Reap
  <2>1. /\ cqBuf = <<>> /\ cqBuf' = cq /\ cq' = <<>> /\ status' = "callback"
        /\ status \in Running
        /\ UNCHANGED <<sq, kernel, bufs, free, asked>>
    BY <1>6 DEF Reap, IndInv, Phases, Running
  <2>2. SlotsIn(cqBuf) = {} /\ SlotsIn(cq') = {} /\ DOMAIN cq' = {}
    BY <2>1 DEF SlotsIn
  <2>3. OwnedOnce'
    BY <2>1, <2>2 DEF IndInv, SlotAccounting, OwnedOnce, Distinct
  <2>4. Apart' /\ NoneLost'
    BY <2>1, <2>2 DEF IndInv, SlotAccounting, Apart, NoneLost, FreeSlots, KernelSlots
  <2>5. Linked'
    BY <2>1, <2>2 DEF IndInv, Linked, Serves, Answers, Faithful, FreeSlots
  <2> QED
    BY <2>1, <2>3, <2>4, <2>5 DEF SlotAccounting, Phases
<1>7. CASE Deliver
  BY <1>7, DeliverInv
<1>8. CASE CompletionError
  <2>1. /\ cqBuf' = <<>> /\ status' = "failed" /\ out' = NoDelivery
        /\ UNCHANGED <<sq, kernel, cq, bufs, free, asked>>
    BY <1>8 DEF CompletionError, ringVars
  <2>2. SlotsIn(cqBuf') = {} /\ DOMAIN cqBuf' = {}
    BY <2>1 DEF SlotsIn
  <2>3. OwnedOnce'
    BY <2>1, <2>2 DEF IndInv, SlotAccounting, OwnedOnce, Distinct
  <2>4. Apart' /\ NoneLost'
    BY <2>1, <2>2 DEF IndInv, SlotAccounting, Apart, NoneLost, FreeSlots, KernelSlots, Running
  <2>5. Linked'
    BY <2>1, <2>2 DEF IndInv, Linked, Serves, Answers, Faithful, FreeSlots
  <2> QED
    BY <2>1, <2>3, <2>4, <2>5 DEF SlotAccounting, Phases
<1>9. CASE DrainDone
  BY <1>9, SameOwners DEF DrainDone, IndInv, SlotAccounting, Phases, Running
<1>10. CASE Device
  BY <1>10, DeviceInv
<1>11. CASE UNCHANGED vars
  BY <1>11, SameOwners DEF vars, executorVars, IndInv, SlotAccounting, Phases
<1> QED
  BY <1>1, <1>2, <1>3, <1>4, <1>5, <1>6, <1>7, <1>8, <1>9, <1>10, <1>11
     DEF Next, Caller, Executor, StageRefused, Dropped

\* The inductive invariant holds of every reachable state.
LEMMA Invariance == Spec => []IndInv
  BY InitInv, StepInv, PTL DEF Spec

-----------------------------------------------------------------------------
\* Every buffer slot is in exactly one place until an error ends the work,
\* and never in two: no two reads, and no read and a callback, share a buffer.
THEOREM SlotsAccountedFor == Spec => []SlotAccounting
  BY Invariance, PTL DEF IndInv

\* A completion that reaches the callback carries the tag it was staged under
\* and, if the read was full, the block that was asked for under that tag.
THEOREM CompletionsFaithful == Spec => []CompletionFaithful
<1>1. IndInv => CompletionFaithful
  BY DEF IndInv, Linked, Answers, CompletionFaithful
<1> QED
  BY <1>1, Invariance, PTL

\* With a slot free the submission queue has room: stage_read cannot fail
\* with "submission queue full", so it never leaks the slot it has popped.
THEOREM QueueHasRoom == Spec => []SqHasRoom
<1>1. IndInv => SqHasRoom
  <2> SUFFICES ASSUME IndInv, free # <<>> PROVE Len(sq) < SqEntries
    BY DEF SqHasRoom
  <2> DEFINE used == Slots \ FreeSlots
             f == [i \in 1 .. Len(sq) |-> SlotOf(sq[i].ud)]
  <2>1. Len(sq) \in Nat /\ DOMAIN sq = 1 .. Len(sq)
    BY LenProperties DEF IndInv, TypeOK
  <2>2. IsFiniteSet(Slots) /\ Cardinality(Slots) = QueueDepth
    <3>1. QueueDepth \in Nat /\ QueueDepth > 0 /\ 0 \in Int /\ QueueDepth - 1 \in Int
      BY RingAssumption
    <3>2. /\ IsFiniteSet(0 .. QueueDepth - 1)
          /\ Cardinality(0 .. QueueDepth - 1) =
               IF 0 > QueueDepth - 1 THEN 0 ELSE QueueDepth - 1 - 0 + 1
      BY <3>1, FS_Interval
    <3> QED
      BY <3>1, <3>2 DEF Slots
  <2>3. PICK s \in Slots : s \in FreeSlots
    <3>1. Len(free) \in DOMAIN free
      BY StackPop DEF IndInv, TypeOK
    <3> QED
      BY <3>1, Places
  <2>4. IsFiniteSet(used) /\ Cardinality(used) < QueueDepth
    <3>1. used \in SUBSET Slots /\ used # Slots
      BY <2>3
    <3>2. /\ IsFiniteSet(used) /\ Cardinality(used) <= Cardinality(Slots)
          /\ Cardinality(Slots) = Cardinality(used) => Slots = used
      BY <2>2, <3>1, FS_Subset
    <3>3. Cardinality(used) \in Nat
      BY <3>2, FS_CardinalityType
    <3> QED
      BY <2>2, <3>1, <3>2, <3>3, RingAssumption
  <2>5. f \in Injection(1 .. Len(sq), used)
    <3>1. \A i \in 1 .. Len(sq) : SlotOf(sq[i].ud) \in used
      <4>1. \A i \in 1 .. Len(sq) : sq[i].ud \in UserData
        BY <2>1, Places DEF Sqe
      <4>2. SlotsIn(sq) \cap FreeSlots = {}
        BY DEF IndInv, SlotAccounting, Apart
      <4> QED
        BY <2>1, <4>1, <4>2, Places, UnpackFacts
    <3>2. f \in [1 .. Len(sq) -> used]
      BY <3>1
    <3>3. \A i, j \in 1 .. Len(sq) : f[i] = f[j] => i = j
      BY <2>1, Places DEF Distinct
    <3> QED
      BY <3>2, <3>3 DEF Injection, IsInjective
  <2> HIDE DEF used, f
  <2>6. Cardinality(1 .. Len(sq)) <= Cardinality(used)
    BY <2>4, <2>5, FS_Injection
  <2>7. Cardinality(1 .. Len(sq)) = Len(sq)
    <3>1. Cardinality(1 .. Len(sq)) = IF 1 > Len(sq) THEN 0 ELSE Len(sq) - 1 + 1
      BY <2>1, FS_Interval
    <3> QED
      BY <2>1, <3>1
  <2>8. Cardinality(used) \in Nat
    BY <2>4, FS_CardinalityType
  <2> QED
    BY <2>1, <2>4, <2>6, <2>7, <2>8, RingAssumption
<1> QED
  BY <1>1, Invariance, PTL

-----------------------------------------------------------------------------
\* The executor implements the abstract read service: initial states and steps.
LEMMA ReadsInit == Init => Reads!Init
  BY DEF Init, Reads!Init, NoDelivery, Reads!NoDelivery, NoRequest, Reads!NoRequest,
         Garbage, Running

\* A step of the executor is a step of the read service or a stutter of it:
\* stage_read asks, a callback delivers, an error closes.
LEMMA ReadsStep ==
  ASSUME IndInv, [Next]_vars
  PROVE  [Reads!Next]_(Reads!absVars)
<1> USE DEF Reads!NoRequest, NoRequest, Reads!NoDelivery, NoDelivery, Garbage
<1>1. ASSUME NEW block \in 0 .. NumBlocks, NEW tag \in 0 .. TagSpan, StageRead(block, tag)
      PROVE  Reads!Next
  <2> DEFINE slot == free[Len(free)]
             r == [tag |-> tag, block |-> block]
  <2>1. r \in Reads!Request
    BY <1>1, RingAssumption, TagAssumption
       DEF StageRead, Refused, Blocks, Tags, Reads!Request
  <2>2. slot \in Slots /\ asked[slot] = NoRequest
    <3>1. Len(free) \in DOMAIN free
      BY <1>1, StackPop DEF StageRead, Refused, IndInv, TypeOK
    <3> QED
      BY <3>1, Places DEF IndInv, Linked
  <2> HIDE DEF slot, r
  <2>3. out = NoDelivery /\ out' = NoDelivery /\ status = "ready"
    BY <1>1 DEF StageRead, IndInv, Phases
  <2>4. CASE Len(sq) < SqEntries
    <3>1. asked' = [asked EXCEPT ![slot] = r] /\ status' = "ready"
      BY <1>1, <2>4 DEF StageRead, slot, r
    <3>2. Reads!Ask(slot, r)
      BY <2>2, <2>3, <3>1 DEF Reads!Ask, Running
    <3> QED
      BY <2>1, <2>2, <3>2 DEF Reads!Next
  <2>5. CASE ~ (Len(sq) < SqEntries)
    <3>1. UNCHANGED asked /\ status' = "failed"
      BY <1>1, <2>5 DEF StageRead
    <3> QED
      BY <2>3, <3>1 DEF Reads!Close, Reads!Next, Running
  <2> QED
    BY <2>4, <2>5
<1>2. CASE Deliver
  <2> DEFINE c == Head(cqBuf)
             slot == SlotOf(c.ud)
  <2>1. 1 \in DOMAIN cqBuf /\ c = cqBuf[1]
    BY <1>2, Places, QueueTail DEF Deliver, IndInv, TypeOK
  <2>2. /\ Answers(c) /\ c.res = "full" /\ slot \in Slots
    BY <1>2, <2>1, Places, UnpackFacts DEF Deliver, IndInv, Linked, Cqe
  <2>3. /\ out' = [tag |-> TagOf(c.ud), data |-> bufs[slot]]
        /\ asked' = [asked EXCEPT ![slot] = NoRequest]
        /\ status = "callback" /\ status' = "callback"
    BY <1>2 DEF Deliver
  <2> HIDE DEF c
  <2>4. Reads!Deliver(slot)
    BY <2>2, <2>3 DEF Answers, Faithful, Reads!Deliver, Running
  <2> QED
    BY <2>2, <2>4 DEF Reads!Next
<1>3. CASE CompletionError
  BY <1>3 DEF CompletionError, Reads!Close, Reads!Next, Running
<1>4. CASE FlushFails \/ DrainFails
  BY <1>4 DEF FlushFails, DrainFails, Fail, IndInv, Phases, Reads!Close, Reads!Next, Running
<1>5. CASE Drop
  BY <1>5 DEF Drop, IndInv, Phases, Reads!Close, Reads!Next, Running
<1>6. CASE DrainDone
  BY <1>6 DEF DrainDone, Reads!Return, Reads!Next, Running
<1>7. CASE Flush \/ Reap \/ Device \/ UNCHANGED vars
  BY <1>7 DEF Flush, Reap, Device, executorVars, vars, Reads!absVars, Running
<1>8. ASSUME NEW min \in Drains, DrainEnter(min) PROVE UNCHANGED Reads!absVars
  BY <1>8 DEF DrainEnter, Reads!absVars, Running
<1> QED
  BY <1>1, <1>2, <1>3, <1>4, <1>5, <1>6, <1>7, <1>8
     DEF Next, Caller, Executor, StageRefused, Dropped

\* Every request is delivered at most once, under its own tag, with its block,
\* in an order the device chooses, and none after a failure.
THEOREM ExecutorImplementsReads == Spec => ImplementsReads
  BY ReadsInit, ReadsStep, Invariance, PTL DEF Spec, ImplementsReads, Reads!Spec

=============================================================================
