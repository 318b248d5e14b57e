--------------------------- MODULE Server_proofs ---------------------------
(***************************************************************************)
(* Theorems about Server, for every number of requests, every workload and *)
(* every width of the epoch counter.                                       *)
(***************************************************************************)
EXTENDS Server, BeamSearch_proofs

\* The marks of a scratch are of epochs that have been.
Fresh(s) == \A n \in Nodes : s.marks[n] <= s.epoch

\* A scratch in which nodes have been marked and the pool replaced.
Marked(s, nodes, p) == [Mark(s, nodes) EXCEPT !.pool = p]

\* A scratch that begins a search has, of all its epochs, none of this one.
LEMMA BegunFacts ==
  ASSUME NEW s \in Scratch, Fresh(s)
  PROVE  /\ Begun(s) \in Scratch
         /\ \A n \in Nodes : Begun(s).marks[n] < Begun(s).epoch
<1>1. EpochMax \in Nat \ {0}
  BY ServerAssumption
<1>2. /\ s.epoch \in 0 .. EpochMax /\ s.pool \in Seq(Cand)
      /\ s.marks \in [Nodes -> 0 .. EpochMax]
      /\ s = [epoch |-> s.epoch, marks |-> s.marks, pool |-> s.pool]
  BY DEF Scratch, Epochs
<1>3. <<>> \in Seq(Cand)
  BY EmptySeq
<1>4. CASE s.epoch = EpochMax
  <2>1. Begun(s) = [epoch |-> 1, marks |-> [n \in Nodes |-> 0], pool |-> <<>>]
    BY <1>4 DEF Begun, NewScratch
  <2>2. 1 \in 0 .. EpochMax /\ 0 \in 0 .. EpochMax
    BY <1>1
  <2> QED
    BY <1>3, <2>1, <2>2 DEF Scratch, Epochs
<1>5. CASE s.epoch # EpochMax
  <2>1. Begun(s) = [epoch |-> s.epoch + 1, marks |-> s.marks, pool |-> <<>>]
    BY <1>2, <1>5 DEF Begun
  <2>2. s.epoch + 1 \in 0 .. EpochMax
    BY <1>1, <1>2, <1>5
  <2>3. \A n \in Nodes : s.marks[n] < s.epoch + 1
    <3>1. \A n \in Nodes : s.marks[n] \in Nat /\ s.epoch \in Nat /\ s.marks[n] <= s.epoch
      BY <1>1, <1>2 DEF Fresh
    <3> QED
      BY <3>1
  <2> QED
    BY <1>2, <1>3, <2>1, <2>2, <2>3 DEF Scratch, Epochs
<1> QED
  BY <1>4, <1>5

\* A round's scratch: marked nodes are added to the visited ones.
LEMMA MarkFacts ==
  ASSUME NEW s \in Scratch, NEW nodes \in SUBSET Nodes, NEW p \in Seq(Cand)
  PROVE  LET t == Marked(s, nodes, p) IN
         /\ t \in Scratch /\ t.pool = p /\ t.epoch = s.epoch
         /\ Fresh(s) => Fresh(t)
         /\ Visited(t) = Visited(s) \cup nodes
<1> DEFINE marks == [n \in Nodes |-> IF n \in nodes THEN s.epoch ELSE s.marks[n]]
           t == [Mark(s, nodes) EXCEPT !.pool = p]
<1>0. t = Marked(s, nodes, p)
  BY DEF Marked
<1>1. /\ s.epoch \in Epochs /\ s.marks \in [Nodes -> Epochs]
      /\ s = [epoch |-> s.epoch, marks |-> s.marks, pool |-> s.pool]
  BY DEF Scratch
<1>2. t = [epoch |-> s.epoch, marks |-> marks, pool |-> p]
  <2>1. Mark(s, nodes) = [epoch |-> s.epoch, marks |-> marks, pool |-> s.pool]
    <3>1. Mark(s, nodes) = [s EXCEPT !.marks = marks]
      BY DEF Mark
    <3> HIDE DEF marks
    <3> QED
      BY <1>1, <3>1
  <2> HIDE DEF marks
  <2> QED
    BY <2>1
<1> HIDE DEF t
<1>3. marks \in [Nodes -> Epochs]
  BY <1>1
<1>4. t \in Scratch
  BY <1>1, <1>2, <1>3 DEF Scratch
<1>5. ASSUME Fresh(s) PROVE Fresh(t)
  <2>1. s.epoch <= s.epoch
    BY <1>1, ServerAssumption DEF Epochs
  <2> QED
    BY <1>2, <1>5, <2>1 DEF Fresh
<1>6. Visited(t) = Visited(s) \cup nodes
  BY <1>2 DEF Visited
<1> QED
  BY <1>0, <1>2, <1>4, <1>5, <1>6

\* A search begins with the medoid as the only visited node.
LEMMA BeginFacts ==
  ASSUME NEW s \in Scratch, Fresh(s), NEW p \in Seq(Cand)
  PROVE  LET t == Marked(Begun(s), {Medoid}, p) IN
         /\ t \in Scratch /\ t.pool = p /\ Fresh(t)
         /\ Visited(t) = {Medoid}
<1> DEFINE u == Begun(s)
<1>1. u \in Scratch /\ \A n \in Nodes : u.marks[n] < u.epoch
  BY BegunFacts
<1> HIDE DEF u
<1>2. \A n \in Nodes : u.marks[n] \in Int /\ u.epoch \in Int
  BY <1>1, ServerAssumption DEF Scratch, Epochs
<1>3. Fresh(u) /\ Visited(u) = {}
  <2>1. \A n \in Nodes : u.marks[n] <= u.epoch /\ u.marks[n] # u.epoch
    BY <1>1, <1>2
  <2> QED
    BY <2>1 DEF Fresh, Visited
<1>4. {Medoid} \in SUBSET Nodes
  BY BeamAssumption
<1>5. LET t == Marked(u, {Medoid}, p) IN
      t \in Scratch /\ t.pool = p /\ Fresh(t) /\ Visited(t) = Visited(u) \cup {Medoid}
  BY <1>1, <1>3, <1>4, MarkFacts
<1> QED
  BY <1>3, <1>5 DEF u

\* A scratch never used is fresh.
LEMMA NewScratchFacts == NewScratch \in Scratch /\ Fresh(NewScratch)
<1>1. 0 \in Epochs /\ <<>> \in Seq(Cand)
  BY ServerAssumption, EmptySeq DEF Epochs
<1> QED
  BY <1>1 DEF NewScratch, Scratch, Fresh

\* The answer of the reference search, and what a search starts with, are answers.
LEMMA AnswerFacts ==
  /\ NoAnswer \in Answer
  /\ \A w \in Workloads, q \in Queries : BatchedSearch(w, q) \in Answer
<1>1. NoAnswer \in Answer
  BY EmptySeq DEF NoAnswer, Answer
<1>2. ASSUME NEW w \in Workloads, NEW q \in Queries PROVE BatchedSearch(w, q) \in Answer
  <2>1. w \in Workload
    BY ServerAssumption
  <2>2. Cardinality(Nodes) \in 0 .. Cardinality(Nodes)
    BY BeamAssumption, FS_CardinalityType
  <2>3. Rounds(w, q)[Cardinality(Nodes)] \in Search
    BY <2>1, <2>2, RoundsFacts
  <2> QED
    BY <2>3 DEF BatchedSearch, Answer, Search
<1> QED
  BY <1>1, <1>2

-----------------------------------------------------------------------------
\* The initial state satisfies the invariant.
LEMMA InitInd == Init => IndInv
<1> SUFFICES ASSUME Init PROVE IndInv
  OBVIOUS
<1> USE DEF Init
<1>1. TypeOK
  <2>1. pool \in Seq(Numbers)
    BY EmptySeq
  <2>2. DOMAIN scratch = {}
    OBVIOUS
  <2>3. NoReply \in [code: {0, 200, 400, 500}, answer: Answer]
    BY AnswerFacts DEF NoReply, Reply
  <2> QED
    BY <2>1, <2>2, <2>3, AnswerFacts DEF TypeOK
<1>2. ScratchAccounting
  <2>1. Held = {}
    BY DEF Held
  <2>2. DOMAIN pool = {} /\ DOMAIN scratch = {} /\ ToSet(pool) = {}
    BY DEF ToSet
  <2>3. Cardinality({}) = 0 /\ Cardinality(Requests) \in Nat
    BY FS_EmptySet, FS_CardinalityType, ServerAssumption
  <2>4. \A q, r \in Requests : mine[q] = None
    OBVIOUS
  <2> QED
    BY <2>1, <2>2, <2>3, <2>4 DEF ScratchAccounting
<1>3. MarksFresh
  BY DEF MarksFresh
<1>4. Holding
  BY DEF Holding
<1>5. Searching
  BY DEF Searching
<1>6. AnswerAsFresh
  BY DEF AnswerAsFresh, NoReply, Reply
<1> QED
  BY <1>1, <1>2, <1>3, <1>4, <1>5, <1>6 DEF IndInv

-----------------------------------------------------------------------------
\* A request's scratch is a scratch there is, and no other's.
LEMMA HeldFacts ==
  ASSUME IndInv, NEW r \in Requests, mine[r] # None
  PROVE  /\ mine[r] \in DOMAIN scratch
         /\ scratch[mine[r]] \in Scratch /\ Fresh(scratch[mine[r]])
         /\ \A p \in Requests : p # r => mine[p] # mine[r]
<1>1. TypeOK /\ ScratchAccounting /\ MarksFresh
  BY DEF IndInv
<1>2. mine[r] \in Held
  BY DEF Held
<1>3. mine[r] \in DOMAIN scratch
  BY <1>1, <1>2 DEF ScratchAccounting
<1> QED
  BY <1>1, <1>3 DEF ScratchAccounting, TypeOK, MarksFresh, Fresh

\* What a request's step leaves alone: another request's search.
LEMMA SearchingFrame ==
  ASSUME Searching, NEW p \in Requests, load' = load,
         pc'[p] = pc[p], query'[p] = query[p], mine'[p] = mine[p],
         ranked'[p] = ranked[p], ioErr'[p] = ioErr[p],
         pc[p] = "search" => scratch'[mine[p]] = scratch[mine[p]]
  PROVE  pc'[p] = "search" /\ ~ ioErr'[p] =>
           \E n \in 0 .. Cardinality(Nodes) : Rounds(load', query'[p])[n] = SearchState(p)'
<1> SUFFICES ASSUME pc[p] = "search", ~ ioErr[p]
             PROVE  \E n \in 0 .. Cardinality(Nodes) :
                      Rounds(load', query'[p])[n] = SearchState(p)'
  OBVIOUS
<1>1. SearchState(p)' = SearchState(p)
  BY DEF SearchState, Visited
<1>2. PICK n \in 0 .. Cardinality(Nodes) : Rounds(load, query[p])[n] = SearchState(p)
  BY DEF Searching
<1> QED
  BY <1>1, <1>2

\* A step that moves no scratch keeps the accounts.
LEMMA AccountingFrame ==
  ASSUME ScratchAccounting, pool' = pool, mine' = mine, DOMAIN scratch' = DOMAIN scratch
  PROVE  ScratchAccounting'
<1>1. Held' = Held
  BY DEF Held
<1> QED
  BY <1>1 DEF ScratchAccounting

LEMMA ArriveInd ==
  ASSUME IndInv, NEW r \in Requests, NEW q \in Queries \cup {BadQuery}, Arrive(r, q)
  PROVE  IndInv'
<1>1. TypeOK /\ Holding /\ Searching /\ ScratchAccounting /\ MarksFresh /\ AnswerAsFresh
  BY DEF IndInv
<1>2. UNCHANGED <<load, expected, pool, scratch, mine, ranked, ioErr>>
  BY DEF Arrive, given
<1>3. pc[r] = "idle" /\ query' = [query EXCEPT ![r] = q]
  BY DEF Arrive
<1>4. TypeOK'
  <2>1. Reply(400, NoAnswer) \in [code: {0, 200, 400, 500}, answer: Answer]
        /\ NoReply \in [code: {0, 200, 400, 500}, answer: Answer]
    BY AnswerFacts DEF NoReply, Reply
  <2>2. reply' \in [Requests -> [code: {0, 200, 400, 500}, answer: Answer]]
    BY <1>1, <2>1 DEF TypeOK, Arrive
  <2>3. /\ pc' \in [Requests -> {"idle", "take", "begin", "search"}]
        /\ client' \in [Requests -> BOOLEAN]
    <3>1. \/ pc' = pc /\ client' = client
          \/ pc' = [pc EXCEPT ![r] = "take"] /\ client' = [client EXCEPT ![r] = TRUE]
      BY DEF Arrive
    <3>2. pc \in [Requests -> {"idle", "take", "begin", "search"}] /\ client \in [Requests -> BOOLEAN]
      BY <1>1 DEF TypeOK
    <3>3. pc' \in [Requests -> {"idle", "take", "begin", "search"}]
      BY <3>1, <3>2
    <3>4. client' \in [Requests -> BOOLEAN]
      BY <3>1, <3>2
    <3> QED
      BY <3>3, <3>4
  <2>4. query' \in [Requests -> Queries \cup {BadQuery}]
    BY <1>1, <1>3 DEF TypeOK
  <2> QED
    BY <1>1, <1>2, <2>2, <2>3, <2>4 DEF TypeOK
<1>5. ScratchAccounting'
  BY <1>1, <1>2, AccountingFrame
<1>6. MarksFresh'
  BY <1>1, <1>2 DEF MarksFresh
<1>7. /\ q = BadQuery => pc'[r] = "idle"
      /\ q # BadQuery => pc'[r] = "take" /\ q \in Queries
      /\ query'[r] = q
      /\ \A p \in Requests : p # r => pc'[p] = pc[p] /\ query'[p] = query[p]
  BY <1>1, <1>3 DEF Arrive, TypeOK
<1>8. Holding'
  BY <1>1, <1>2, <1>3, <1>7 DEF Holding
<1>9. Searching'
  <2>1. ASSUME NEW p \in Requests
        PROVE  pc'[p] = "search" /\ ~ ioErr'[p] =>
                 \E n \in 0 .. Cardinality(Nodes) : Rounds(load', query'[p])[n] = SearchState(p)'
    <3>1. CASE p = r
      BY <1>7, <3>1
    <3>2. CASE p # r
      BY <1>1, <1>2, <1>7, <3>2, SearchingFrame
    <3> QED
      BY <3>1, <3>2
  <2> QED
    BY <2>1 DEF Searching
<1>10. AnswerAsFresh'
  <2>1. ASSUME NEW p \in Requests, reply'[p].code = 200
        PROVE  reply'[p].answer = expected'[query'[p]]
    <3>1. reply'[r].code # 200
      BY <1>1 DEF Arrive, TypeOK, NoReply, Reply
    <3>2. p # r /\ reply'[p] = reply[p]
      BY <1>1, <2>1, <3>1 DEF Arrive, TypeOK
    <3> QED
      BY <1>1, <1>2, <1>7, <2>1, <3>2 DEF AnswerAsFresh
  <2> QED
    BY <2>1 DEF AnswerAsFresh
<1> QED
  BY <1>2, <1>4, <1>5, <1>6, <1>8, <1>9, <1>10 DEF IndInv

LEMMA DisconnectInd ==
  ASSUME IndInv, NEW r \in Requests, Disconnect(r)
  PROVE  IndInv'
<1>1. UNCHANGED <<load, expected, pool, scratch, pc, query, mine, ranked, ioErr, reply>>
  BY DEF Disconnect, given
<1>2. TypeOK'
  BY <1>1 DEF IndInv, TypeOK, Disconnect
<1>3. ScratchAccounting'
  BY <1>1, AccountingFrame DEF IndInv
<1>4. MarksFresh' /\ Holding' /\ AnswerAsFresh'
  BY <1>1 DEF IndInv, MarksFresh, Holding, AnswerAsFresh
<1>5. Searching'
  BY <1>1, SearchingFrame DEF IndInv, Searching
<1> QED
  BY <1>1, <1>2, <1>3, <1>4, <1>5 DEF IndInv


-----------------------------------------------------------------------------
\* The numbers of the scratches that are held, and how many there can be.
LEMMA HeldFinite ==
  ASSUME NEW r \in Requests, mine[r] = None
  PROVE  /\ IsFiniteSet(Held) /\ Cardinality(Held) \in Nat
         /\ Cardinality(Requests) \in Nat
         /\ Cardinality(Held) <= Cardinality(Requests) - 1
<1> DEFINE S == {p \in Requests : mine[p] # None}
           f == [p \in S |-> mine[p]]
<1>1. f \in Surjection(S, Held)
  BY DEF Surjection, Held
<1>2. S \in SUBSET (Requests \ {r}) /\ IsFiniteSet(Requests)
  BY ServerAssumption
<1> HIDE DEF S, f
<1>3. /\ IsFiniteSet(Requests \ {r}) /\ Cardinality(Requests) \in Nat
      /\ Cardinality(Requests \ {r}) = Cardinality(Requests) - 1
  BY <1>2, FS_RemoveElement, FS_CardinalityType
<1>4. IsFiniteSet(S) /\ Cardinality(S) <= Cardinality(Requests \ {r})
  BY <1>2, <1>3, FS_Subset
<1>5. IsFiniteSet(Held) /\ Cardinality(Held) <= Cardinality(S)
  BY <1>1, <1>4, FS_Surjection
<1>6. Cardinality(Held) \in Nat /\ Cardinality(S) \in Nat
  BY <1>4, <1>5, FS_CardinalityType
<1> QED
  BY <1>3, <1>4, <1>5, <1>6

\* With an empty pool there is a number left for a new scratch.
LEMMA NumberLeft ==
  ASSUME IndInv, NEW r \in Requests, mine[r] = None, pool = <<>>
  PROVE  /\ \E i \in Numbers : i \notin DOMAIN scratch
         /\ IsFiniteSet(DOMAIN scratch)
         /\ \A i : Cardinality(DOMAIN scratch \cup {i}) <= Cardinality(Requests)
<1>1. DOMAIN scratch = Held
  <2>1. ToSet(pool) = {}
    BY DEF ToSet
  <2> QED
    BY <2>1 DEF IndInv, ScratchAccounting
<1>2. /\ IsFiniteSet(Held) /\ Cardinality(Held) \in Nat
      /\ Cardinality(Requests) \in Nat
      /\ Cardinality(Held) <= Cardinality(Requests) - 1
  BY HeldFinite
<1>3. \E i \in Numbers : i \notin DOMAIN scratch
  <2> SUFFICES ASSUME Numbers \subseteq Held PROVE FALSE
    BY <1>1
  <2>1. Cardinality(Numbers) = Cardinality(Requests) + 1
    BY <1>2, FS_Interval DEF Numbers
  <2>2. Cardinality(Numbers) <= Cardinality(Held)
    BY <1>2, FS_Subset
  <2> QED
    BY <1>2, <2>1, <2>2
<1>4. ASSUME NEW i PROVE Cardinality(Held \cup {i}) <= Cardinality(Requests)
  <2>1. Cardinality(Held \cup {i}) = IF i \in Held THEN Cardinality(Held) ELSE Cardinality(Held) + 1
    BY <1>2, FS_AddElement
  <2> QED
    BY <1>2, <2>1
<1> QED
  BY <1>1, <1>2, <1>3, <1>4

\* The top of the pool and the rest of it.
LEMMA PoolTop ==
  ASSUME NEW S, NEW s \in Seq(S), s # <<>>
  PROVE  /\ Last(s) = s[Len(s)] /\ Len(s) \in DOMAIN s
         /\ Front(s) \in Seq(S) /\ Len(Front(s)) = Len(s) - 1
         /\ DOMAIN Front(s) = DOMAIN s \ {Len(s)}
         /\ \A i \in DOMAIN Front(s) : Front(s)[i] = s[i]
         /\ ToSet(s) = ToSet(Front(s)) \cup {Last(s)}
<1>1. /\ Len(s) \in Nat /\ Len(s) > 0 /\ DOMAIN s = 1 .. Len(s)
      /\ \A i \in 1 .. Len(s) : s[i] \in S
  BY LenProperties, EmptySeq
<1> DEFINE t == SubSeq(s, 1, Len(s) - 1)
<1>2. 1 \in Int /\ Len(s) - 1 \in Int /\ \A i \in 1 .. Len(s) - 1 : s[i] \in S
  BY <1>1
<1>3. /\ t \in Seq(S)
      /\ Len(t) = (IF 1 <= Len(s) - 1 THEN (Len(s) - 1) - 1 + 1 ELSE 0)
      /\ \A i \in 1 .. (Len(s) - 1) - 1 + 1 : t[i] = s[1 + i - 1]
  BY <1>2, SubSeqProperties
<1>4. Front(s) = t /\ Last(s) = s[Len(s)]
  BY DEF Front, Last
<1> HIDE DEF t
<1>5. Len(t) = Len(s) - 1 /\ \A i \in 1 .. Len(s) - 1 : t[i] = s[i]
  <2>1. Len(t) = Len(s) - 1
    <3>1. \A k \in Nat \ {0} : (IF 1 <= k - 1 THEN (k - 1) - 1 + 1 ELSE 0) = k - 1
      OBVIOUS
    <3>2. Len(s) \in Nat \ {0}
      BY <1>1
    <3> QED
      BY <1>3, <3>1, <3>2
  <2>2. ASSUME NEW i \in 1 .. Len(s) - 1 PROVE t[i] = s[i]
    <3>1. i \in 1 .. (Len(s) - 1) - 1 + 1 /\ 1 + i - 1 = i
      BY <1>1
    <3> QED
      BY <1>3, <3>1
  <2> QED
    BY <2>1, <2>2
<1>6. DOMAIN t = 1 .. Len(s) - 1
  BY <1>3, <1>5, LenProperties
<1>7. DOMAIN s = DOMAIN t \cup {Len(s)} /\ Len(s) \notin DOMAIN t
  BY SMTT(30), <1>1, <1>6
<1>8. ToSet(s) = ToSet(t) \cup {s[Len(s)]}
  <2>1. \A i \in DOMAIN t : t[i] = s[i]
    BY <1>5, <1>6
  <2>2. ToSet(s) = {s[i] : i \in DOMAIN s} /\ ToSet(t) = {t[i] : i \in DOMAIN t}
    BY DEF ToSet
  <2> QED
    BY ZenonT(60), <1>7, <2>1, <2>2
<1> QED
  BY <1>3, <1>4, <1>5, <1>6, <1>7, <1>8

LEMMA TakeInd ==
  ASSUME IndInv, NEW r \in Requests, Take(r)
  PROVE  IndInv'
<1>1. TypeOK /\ Holding /\ Searching /\ ScratchAccounting /\ MarksFresh /\ AnswerAsFresh
  BY DEF IndInv
<1>2. /\ UNCHANGED <<load, expected, query, ranked, ioErr, client, reply>>
      /\ pc[r] = "take" /\ pc' = [pc EXCEPT ![r] = "begin"]
  BY DEF Take, given
<1>3. mine[r] = None
  BY <1>1, <1>2 DEF Holding
<1>4. /\ pc'[r] = "begin" /\ pc' \in [Requests -> {"idle", "take", "begin", "search"}]
      /\ \A p \in Requests : p # r => pc'[p] = pc[p]
  BY <1>1, <1>2 DEF TypeOK
\* What is needed of the scratch taken, wherever it comes from.
<1>5. ASSUME NEW k \in Numbers, mine' = [mine EXCEPT ![r] = k],
             pool' \in Seq(Numbers),
             \A i \in DOMAIN scratch : i \in DOMAIN scratch' /\ scratch'[i] = scratch[i],
             DOMAIN scratch' = DOMAIN scratch \cup {k},
             scratch'[k] \in Scratch /\ Fresh(scratch'[k]),
             k \notin Held, k \notin ToSet(pool'),
             \A i, j \in DOMAIN pool' : pool'[i] = pool'[j] => i = j,
             ToSet(pool) \subseteq ToSet(pool') \cup {k}, ToSet(pool') \subseteq ToSet(pool),
             Cardinality(DOMAIN scratch') <= Cardinality(Requests)
      PROVE  IndInv'
  <2>1. /\ mine'[r] = k /\ mine' \in [Requests -> Numbers \cup {None}]
        /\ \A p \in Requests : p # r => mine'[p] = mine[p]
    BY <1>1, <1>5 DEF TypeOK
  <2>2. k # None
    BY DEF Numbers, None
  <2>3. Held' = Held \cup {k}
    BY <1>3, <2>1, <2>2 DEF Held
  <2>4. TypeOK'
    BY <1>1, <1>2, <1>4, <1>5, <2>1 DEF TypeOK
  <2>5. ScratchAccounting'
    <3>1. \A p \in Requests : mine[p] # k
      BY <1>5, <2>2 DEF Held
    <3>2. \A p, q \in Requests : mine'[p] = mine'[q] /\ mine'[p] # None => p = q
      BY <1>1, <2>1, <3>1 DEF ScratchAccounting
    <3>3. ToSet(pool') \cap Held' = {}
      BY <1>1, <1>5, <2>3 DEF ScratchAccounting
    <3>4. ToSet(pool') \cup Held' = DOMAIN scratch'
      BY <1>1, <1>5, <2>3 DEF ScratchAccounting
    <3> QED
      BY <1>5, <3>2, <3>3, <3>4 DEF ScratchAccounting
  <2>6. MarksFresh'
    BY <1>1, <1>5 DEF MarksFresh, Fresh
  <2>7. Holding'
    BY <1>1, <1>2, <1>4, <2>1, <2>2 DEF Holding
  <2>8. Searching'
    <3>1. ASSUME NEW p \in Requests
          PROVE  pc'[p] = "search" /\ ~ ioErr'[p] =>
                   \E n \in 0 .. Cardinality(Nodes) : Rounds(load', query'[p])[n] = SearchState(p)'
      <4>1. CASE p = r
        BY <1>4, <4>1
      <4>2. CASE p # r
        <5>1. pc[p] = "search" => scratch'[mine[p]] = scratch[mine[p]]
          <6>1. pc[p] = "search" => mine[p] \in DOMAIN scratch
            BY <1>1, HeldFacts DEF Holding
          <6> QED
            BY <1>5, <6>1
        <5> QED
          BY <1>1, <1>2, <1>4, <2>1, <4>2, <5>1, SearchingFrame
      <4> QED
        BY <4>1, <4>2
    <3> QED
      BY <3>1 DEF Searching
  <2>9. AnswerAsFresh'
    BY <1>1, <1>2 DEF AnswerAsFresh
  <2> QED
    BY <1>2, <2>4, <2>5, <2>6, <2>7, <2>8, <2>9 DEF IndInv
<1>6. CASE pool # <<>>
  <2> DEFINE k == Last(pool)
  <2>1. mine' = [mine EXCEPT ![r] = k] /\ pool' = Front(pool) /\ scratch' = scratch
    BY <1>6 DEF Take
  <2>2. pool \in Seq(Numbers)
    BY <1>1 DEF TypeOK
  <2>3. /\ k = pool[Len(pool)] /\ Len(pool) \in DOMAIN pool
        /\ pool' \in Seq(Numbers) /\ DOMAIN pool' = DOMAIN pool \ {Len(pool)}
        /\ \A i \in DOMAIN pool' : pool'[i] = pool[i]
        /\ ToSet(pool) = ToSet(pool') \cup {k}
    BY <1>6, <2>1, <2>2, PoolTop
  <2> HIDE DEF k
  <2>4. k \in ToSet(pool) /\ k \in DOMAIN scratch /\ k \in Numbers /\ k \notin Held
    BY <1>1, <2>3 DEF ScratchAccounting, TypeOK
  <2>5. \A i, j \in DOMAIN pool' : pool'[i] = pool'[j] => i = j
    BY <1>1, <2>3 DEF ScratchAccounting
  <2>6. k \notin ToSet(pool')
    BY <1>1, <2>3 DEF ScratchAccounting, ToSet
  <2>7. scratch'[k] \in Scratch /\ Fresh(scratch'[k])
    BY <1>1, <2>1, <2>4 DEF TypeOK, MarksFresh, Fresh
  <2>8. Cardinality(DOMAIN scratch') <= Cardinality(Requests)
    BY <1>1, <2>1 DEF ScratchAccounting
  <2> QED
    BY <1>5, <2>1, <2>3, <2>4, <2>5, <2>6, <2>7, <2>8
<1>7. CASE pool = <<>>
  <2> DEFINE k == CHOOSE i \in Numbers : i \notin DOMAIN scratch
  <2>1. /\ mine' = [mine EXCEPT ![r] = k] /\ pool' = pool
        /\ scratch' = [i \in DOMAIN scratch \cup {k} |->
             IF i = k THEN NewScratch ELSE scratch[i]]
    BY <1>7 DEF Take
  <2>2. k \in Numbers /\ k \notin DOMAIN scratch
    BY <1>3, <1>7, NumberLeft
  <2> HIDE DEF k
  <2>3. /\ DOMAIN scratch' = DOMAIN scratch \cup {k} /\ scratch'[k] = NewScratch
        /\ \A i \in DOMAIN scratch : i \in DOMAIN scratch' /\ scratch'[i] = scratch[i]
    BY <2>1, <2>2
  <2>4. Cardinality(DOMAIN scratch') <= Cardinality(Requests)
    BY <1>3, <1>7, <2>3, NumberLeft
  <2>5. k \notin Held /\ k \notin ToSet(pool')
    BY <1>1, <2>1, <2>2 DEF ScratchAccounting
  <2>6. /\ \A i, j \in DOMAIN pool' : pool'[i] = pool'[j] => i = j
        /\ pool' \in Seq(Numbers)
        /\ ToSet(pool') = ToSet(pool)
    BY <1>1, <2>1 DEF ScratchAccounting, TypeOK
  <2> QED
    BY <1>5, <2>1, <2>2, <2>3, <2>4, <2>5, <2>6, NewScratchFacts
<1> QED
  BY <1>6, <1>7


-----------------------------------------------------------------------------
\* A step of a search changes its own scratch: the invariant is kept if the
\* search is, after it, at a state of the reference search or in error.
LEMMA OwnScratch ==
  ASSUME IndInv, NEW r \in Requests, mine[r] # None,
         NEW t \in Scratch, Fresh(t), scratch' = [scratch EXCEPT ![mine[r]] = t],
         UNCHANGED <<load, expected, pool, query, mine, client, reply>>,
         pc' \in [Requests -> {"idle", "take", "begin", "search"}], pc'[r] = "search",
         ranked' \in [Requests -> Answer], ioErr' \in [Requests -> BOOLEAN],
         \A p \in Requests : p # r =>
           pc'[p] = pc[p] /\ ranked'[p] = ranked[p] /\ ioErr'[p] = ioErr[p],
         ~ ioErr'[r] =>
           \E n \in 0 .. Cardinality(Nodes) :
             Rounds(load, query[r])[n] = [pool |-> t.pool, visited |-> Visited(t),
                                          exact |-> ranked'[r].top, reads |-> ranked'[r].reads]
  PROVE  IndInv'
<1>1. TypeOK /\ Holding /\ Searching /\ ScratchAccounting /\ MarksFresh /\ AnswerAsFresh
  BY DEF IndInv
<1>2. /\ mine[r] \in DOMAIN scratch
      /\ \A p \in Requests : p # r => mine[p] # mine[r]
  BY HeldFacts
<1>3. /\ DOMAIN scratch' = DOMAIN scratch /\ scratch'[mine[r]] = t
      /\ \A i \in DOMAIN scratch : i # mine[r] => scratch'[i] = scratch[i]
  BY <1>2
<1>4. TypeOK'
  <2>1. DOMAIN scratch' \subseteq Numbers /\ \A i \in DOMAIN scratch' : scratch'[i] \in Scratch
    BY <1>1, <1>3 DEF TypeOK
  <2> QED
    BY <1>1, <2>1 DEF TypeOK
<1>5. ScratchAccounting'
  BY <1>1, <1>3, AccountingFrame
<1>6. MarksFresh'
  BY <1>1, <1>3 DEF MarksFresh, Fresh
<1>7. Holding'
  <2>1. pc[r] \in {"begin", "search"}
    BY <1>1 DEF Holding
  <2>2. query[r] \in Queries
    BY <1>1, <2>1 DEF Holding
  <2> QED
    BY <1>1, <2>1, <2>2 DEF Holding
<1>8. Searching'
  <2>1. ASSUME NEW p \in Requests
        PROVE  pc'[p] = "search" /\ ~ ioErr'[p] =>
                 \E n \in 0 .. Cardinality(Nodes) : Rounds(load', query'[p])[n] = SearchState(p)'
    <3>1. CASE p = r
      <4>1. SearchState(r)' = [pool |-> t.pool, visited |-> Visited(t),
                               exact |-> ranked'[r].top, reads |-> ranked'[r].reads]
        <5>1. scratch'[mine'[r]] = t
          BY <1>3
        <5>2. SearchState(r)' =
                [pool |-> scratch'[mine'[r]].pool, visited |-> Visited(scratch'[mine'[r]]),
                 exact |-> ranked'[r].top, reads |-> ranked'[r].reads]
          BY DEF SearchState
        <5> QED
          BY <5>1, <5>2
      <4> QED
        BY <3>1, <4>1
    <3>2. CASE p # r
      <4>1. pc[p] = "search" => scratch'[mine[p]] = scratch[mine[p]]
        <5>1. pc[p] = "search" => mine[p] \in DOMAIN scratch
          BY <1>1, HeldFacts DEF Holding
        <5> QED
          BY <1>2, <1>3, <3>2, <5>1
      <4> QED
        BY <1>1, <3>2, <4>1, SearchingFrame
    <3> QED
      BY <3>1, <3>2
  <2> QED
    BY <2>1 DEF Searching
<1>9. AnswerAsFresh'
  BY <1>1 DEF AnswerAsFresh
<1> QED
  BY <1>4, <1>5, <1>6, <1>7, <1>8, <1>9 DEF IndInv

LEMMA BeginInd ==
  ASSUME IndInv, NEW r \in Requests, Begin(r)
  PROVE  IndInv'
<1> DEFINE k == mine[r]
           w == load.route[query[r]]
           p == SearchSeed(w).pool
           t == Marked(Begun(scratch[k]), {Medoid}, p)
<1>1. TypeOK /\ Holding
  BY DEF IndInv
<1>2. pc[r] = "begin" /\ k # None /\ query[r] \in Queries
  BY <1>1 DEF Begin, Holding
<1>3. load \in Workload /\ w \in [Nodes -> Nat] /\ load \in Workloads
  BY <1>1, <1>2, ServerAssumption DEF TypeOK, Workload
<1>4. 0 \in 0 .. Cardinality(Nodes) /\ Rounds(load, query[r])[0] = SearchSeed(w)
  BY RoundsStates, BeamAssumption, FS_CardinalityType
<1>5. /\ SearchSeed(w) = [pool |-> p, visited |-> {Medoid}, exact |-> <<>>, reads |-> 0]
      /\ p \in Seq(Cand)
  <2>1. SearchSeed(w) = [pool |-> p, visited |-> {Medoid}, exact |-> <<>>, reads |-> 0]
    BY DEF SearchSeed
  <2>2. Rounds(load, query[r])[0] \in Search
    BY <1>2, <1>3, <1>4, RoundsFacts
  <2> QED
    BY <1>4, <2>1, <2>2 DEF Search
<1>6. /\ scratch' = [scratch EXCEPT ![k] = t]
      /\ ranked' = [ranked EXCEPT ![r] = NoAnswer]
      /\ ioErr' = [ioErr EXCEPT ![r] = FALSE]
      /\ pc' = [pc EXCEPT ![r] = "search"]
      /\ UNCHANGED <<load, expected, pool, query, mine, client, reply>>
  BY DEF Begin, Marked, given
<1>7. scratch[k] \in Scratch /\ Fresh(scratch[k])
  BY <1>2, HeldFacts
<1> HIDE DEF p, w
<1>8. t \in Scratch /\ Fresh(t) /\ t.pool = p /\ Visited(t) = {Medoid}
  BY <1>5, <1>7, BeginFacts
<1> HIDE DEF t
<1>9. /\ ranked' \in [Requests -> Answer] /\ ranked'[r] = NoAnswer
      /\ \A q \in Requests : q # r => ranked'[q] = ranked[q]
  BY <1>1, <1>6, AnswerFacts DEF TypeOK
<1>10. /\ ioErr' \in [Requests -> BOOLEAN]
       /\ \A q \in Requests : q # r => ioErr'[q] = ioErr[q]
  BY <1>1, <1>6 DEF TypeOK
<1>11. /\ pc' \in [Requests -> {"idle", "take", "begin", "search"}] /\ pc'[r] = "search"
       /\ \A q \in Requests : q # r => pc'[q] = pc[q]
  BY <1>1, <1>6 DEF TypeOK
<1>12. Rounds(load, query[r])[0] = [pool |-> t.pool, visited |-> Visited(t),
                                    exact |-> ranked'[r].top, reads |-> ranked'[r].reads]
  BY <1>4, <1>5, <1>8, <1>9 DEF NoAnswer
<1>13. \E n \in 0 .. Cardinality(Nodes) :
         Rounds(load, query[r])[n] = [pool |-> t.pool, visited |-> Visited(t),
                                      exact |-> ranked'[r].top, reads |-> ranked'[r].reads]
  BY <1>4, <1>12
<1>14. \A q \in Requests : q # r =>
         pc'[q] = pc[q] /\ ranked'[q] = ranked[q] /\ ioErr'[q] = ioErr[q]
  BY <1>9, <1>10, <1>11
<1> QED
  BY <1>2, <1>6, <1>8, <1>9, <1>10, <1>11, <1>13, <1>14, OwnScratch, Zenon

LEMMA RoundReadInd ==
  ASSUME IndInv, NEW r \in Requests, RoundRead(r)
  PROVE  IndInv'
<1> DEFINE k == mine[r]
           s == scratch[k]
           f == Frontier(s.pool)
           next == Explored(load, query[r], Visited(s), s.pool)
           rk == [top |-> Ranked(load, query[r], ranked[r].top, f),
                  reads |-> ranked[r].reads + Len(f)]
           t == Marked(s, next.visited, next.pool)
<1>1. TypeOK /\ Holding /\ Searching
  BY DEF IndInv
<1>2. pc[r] = "search" /\ k # None /\ query[r] \in Queries /\ f # <<>> /\ ~ ioErr[r]
  BY <1>1 DEF RoundRead, Holding
<1>3. load \in Workload
  BY <1>1, ServerAssumption DEF TypeOK
<1>4. s \in Scratch /\ Fresh(s) /\ s.pool \in Seq(Cand) /\ Visited(s) \in SUBSET Nodes
  BY <1>2, HeldFacts DEF Scratch, Visited
<1>5. /\ scratch' = [scratch EXCEPT ![k] = t]
      /\ ranked' = [ranked EXCEPT ![r] = rk]
      /\ UNCHANGED <<load, expected, pool, pc, query, mine, ioErr, client, reply>>
  BY DEF RoundRead, Marked, given
<1>6. PICK n \in 0 .. Cardinality(Nodes) : Rounds(load, query[r])[n] = SearchState(r)
  BY <1>1, <1>2 DEF Searching
<1>7. SearchState(r) = [pool |-> s.pool, visited |-> Visited(s),
                        exact |-> ranked[r].top, reads |-> ranked[r].reads]
  BY DEF SearchState
<1> HIDE DEF s
<1>8. next \in Beam /\ Visited(s) \subseteq next.visited
  BY <1>2, <1>3, <1>4, ExploredFacts
<1>9. next.visited \in SUBSET Nodes /\ next.pool \in Seq(Cand)
  BY <1>8 DEF Beam
<1>10. ranked[r].top \in Seq(Scored) /\ ranked[r].reads \in Nat
  BY <1>1 DEF TypeOK, Answer
<1>11. rk \in Answer
  <2>1. f \in Seq(Nodes) /\ Len(f) \in Nat
    BY <1>4, FrontierFacts, LenProperties
  <2>2. Ranked(load, query[r], ranked[r].top, f) \in Seq(Scored)
    BY <1>2, <1>3, <1>10, <2>1, RankedType
  <2> QED
    BY <1>10, <2>1, <2>2 DEF Answer
<1>12. n + 1 \in 1 .. Cardinality(Nodes) /\ n + 1 \in 0 .. Cardinality(Nodes) /\ (n + 1) - 1 = n
  <2>1. Frontier(Rounds(load, query[r])[n].pool) # <<>>
    BY <1>2, <1>6, <1>7
  <2>2. n < Cardinality(Nodes) /\ Cardinality(Nodes) \in Nat /\ n \in Nat
    BY <1>2, <1>3, <2>1, RoundsBounded, BeamAssumption, FS_CardinalityType
  <2> QED
    BY <2>2
<1>13. Rounds(load, query[r])[n + 1] =
         [pool |-> next.pool, visited |-> next.visited, exact |-> rk.top, reads |-> rk.reads]
  <2> DEFINE u == Rounds(load, query[r])[n]
  <2>1. u \in Search
    BY <1>2, <1>3, RoundsFacts
  <2>2. Rounds(load, query[r])[n + 1] = SearchRound(load, query[r])[u]
    BY <1>12, RoundsStates
  <2>3. /\ u.pool = s.pool /\ u.visited = Visited(s)
        /\ u.exact = ranked[r].top /\ u.reads = ranked[r].reads
    BY <1>6, <1>7
  <2> HIDE DEF u
  <2>4. LET v == Explored(load, query[r], u.visited, u.pool) IN
        SearchRound(load, query[r])[u] =
          [pool |-> v.pool, visited |-> v.visited,
           exact |-> Ranked(load, query[r], u.exact, Frontier(u.pool)),
           reads |-> u.reads + Len(Frontier(u.pool))]
    BY <1>2, <1>3, <2>1, SearchRoundFacts
  <2> QED
    BY <2>2, <2>3, <2>4
<1> HIDE DEF next, f
<1>14. t \in Scratch /\ t.pool = next.pool /\ Fresh(t) /\ Visited(t) = next.visited
  <2> DEFINE v == next.visited
             p == next.pool
  <2>1. v \in SUBSET Nodes /\ p \in Seq(Cand) /\ Visited(s) \subseteq v
    BY <1>8, <1>9
  <2> HIDE DEF v, p
  <2>2. LET u == Marked(s, v, p) IN
        u \in Scratch /\ u.pool = p /\ Fresh(u) /\ Visited(u) = Visited(s) \cup v
    BY <1>4, <2>1, MarkFacts
  <2> QED
    BY <2>1, <2>2 DEF v, p
<1> HIDE DEF t, rk
<1>15. /\ ranked' \in [Requests -> Answer] /\ ranked'[r] = rk
       /\ \A q \in Requests : q # r => ranked'[q] = ranked[q]
  BY <1>1, <1>5, <1>11 DEF TypeOK
<1>16. Rounds(load, query[r])[n + 1] = [pool |-> t.pool, visited |-> Visited(t),
                                        exact |-> ranked'[r].top, reads |-> ranked'[r].reads]
  BY <1>13, <1>14, <1>15
<1>17. /\ ioErr' \in [Requests -> BOOLEAN]
       /\ pc' \in [Requests -> {"idle", "take", "begin", "search"}] /\ pc'[r] = "search"
       /\ \A q \in Requests : q # r =>
            pc'[q] = pc[q] /\ ranked'[q] = ranked[q] /\ ioErr'[q] = ioErr[q]
  BY <1>1, <1>2, <1>5, <1>15 DEF TypeOK
<1>18. \E m \in 0 .. Cardinality(Nodes) :
         Rounds(load, query[r])[m] = [pool |-> t.pool, visited |-> Visited(t),
                                      exact |-> ranked'[r].top, reads |-> ranked'[r].reads]
  BY <1>12, <1>16
<1> QED
  BY <1>2, <1>5, <1>14, <1>15, <1>17, <1>18, OwnScratch, Zenon


LEMMA RoundFailsInd ==
  ASSUME IndInv, NEW r \in Requests, RoundFails(r)
  PROVE  IndInv'
<1> DEFINE k == mine[r]
           s == scratch[k]
           f == Frontier(s.pool)
           m == MarkExpanded(s.pool)
           rk == [ranked[r] EXCEPT !.reads = @ + Len(f)]
           t == [s EXCEPT !.pool = m]
<1>1. TypeOK /\ Holding
  BY DEF IndInv
<1>2. pc[r] = "search" /\ k # None
  BY <1>1 DEF RoundFails, Holding
<1>3. s \in Scratch /\ Fresh(s) /\ s.pool \in Seq(Cand)
  BY <1>2, HeldFacts DEF Scratch
<1>4. /\ scratch' = [scratch EXCEPT ![k] = t]
      /\ ranked' = [ranked EXCEPT ![r] = rk]
      /\ ioErr' = [ioErr EXCEPT ![r] = TRUE]
      /\ UNCHANGED <<load, expected, pool, pc, query, mine, client, reply>>
  BY DEF RoundFails, given
<1> HIDE DEF s
<1>5. m \in Seq(Cand)
  BY <1>3, MarkExpandedFacts
<1> HIDE DEF m
<1>6. t \in Scratch /\ Fresh(t)
  BY <1>3, <1>5 DEF Scratch, Fresh
<1>7. rk \in Answer
  <2>1. Len(f) \in Nat
    BY <1>3, FrontierFacts, LenProperties
  <2>2. ranked[r] \in Answer
    BY <1>1 DEF TypeOK
  <2> HIDE DEF f
  <2> QED
    BY <2>1, <2>2 DEF Answer
<1> HIDE DEF t, rk
<1>8. ranked' \in [Requests -> Answer]
      /\ \A q \in Requests : q # r => ranked'[q] = ranked[q]
  BY <1>1, <1>4, <1>7 DEF TypeOK
<1>9. /\ ioErr' \in [Requests -> BOOLEAN] /\ ioErr'[r]
      /\ \A q \in Requests : q # r => ioErr'[q] = ioErr[q]
  BY <1>1, <1>4 DEF TypeOK
<1>10. pc' \in [Requests -> {"idle", "take", "begin", "search"}] /\ pc'[r] = "search"
  BY <1>1, <1>2, <1>4 DEF TypeOK
<1>11. \A q \in Requests : q # r =>
         pc'[q] = pc[q] /\ ranked'[q] = ranked[q] /\ ioErr'[q] = ioErr[q]
  BY <1>4, <1>8, <1>9
<1>12. ~ ioErr'[r] =>
         \E n \in 0 .. Cardinality(Nodes) :
           Rounds(load, query[r])[n] = [pool |-> t.pool, visited |-> Visited(t),
                                        exact |-> ranked'[r].top, reads |-> ranked'[r].reads]
  BY <1>9
<1> QED
  BY <1>2, <1>4, <1>6, <1>8, <1>9, <1>10, <1>11, <1>12, OwnScratch, Zenon

-----------------------------------------------------------------------------
\* A search that ends gives its scratch up, to the pool or for good.
LEMMA Released ==
  ASSUME IndInv, NEW r \in Requests, mine[r] # None,
         UNCHANGED <<load, expected, query>>,
         mine' = [mine EXCEPT ![r] = None],
         pc' = [pc EXCEPT ![r] = "idle"],
         ranked' = [ranked EXCEPT ![r] = NoAnswer],
         ioErr' = [ioErr EXCEPT ![r] = FALSE],
         client' = [client EXCEPT ![r] = FALSE],
         reply' \in [Requests -> [code: {0, 200, 400, 500}, answer: Answer]],
         \A p \in Requests : p # r => reply'[p] = reply[p],
         reply'[r].code = 200 => reply'[r].answer = expected[query[r]],
         DOMAIN scratch' \subseteq DOMAIN scratch,
         \A i \in DOMAIN scratch : i # mine[r] => i \in DOMAIN scratch',
         \A i \in DOMAIN scratch' : scratch'[i] = scratch[i],
         pool' \in Seq(Numbers),
         \A i, j \in DOMAIN pool' : pool'[i] = pool'[j] => i = j,
         ToSet(pool') \subseteq ToSet(pool) \cup {mine[r]},
         ToSet(pool') \cup (Held \ {mine[r]}) = DOMAIN scratch'
  PROVE  IndInv'
<1>1. TypeOK /\ Holding /\ Searching /\ ScratchAccounting /\ MarksFresh /\ AnswerAsFresh
  BY DEF IndInv
<1>2. /\ mine[r] \in DOMAIN scratch
      /\ \A p \in Requests : p # r => mine[p] # mine[r]
  BY HeldFacts
<1>3. /\ mine'[r] = None /\ mine' \in [Requests -> Numbers \cup {None}]
      /\ \A p \in Requests : p # r => mine'[p] = mine[p]
  BY <1>1 DEF TypeOK
<1>4. /\ pc'[r] = "idle" /\ pc' \in [Requests -> {"idle", "take", "begin", "search"}]
      /\ \A p \in Requests : p # r => pc'[p] = pc[p]
  BY <1>1 DEF TypeOK
<1>5. /\ ranked' \in [Requests -> Answer]
      /\ \A p \in Requests : p # r => ranked'[p] = ranked[p]
  BY <1>1, AnswerFacts DEF TypeOK
<1>6. /\ ioErr' \in [Requests -> BOOLEAN] /\ client' \in [Requests -> BOOLEAN]
      /\ \A p \in Requests : p # r => ioErr'[p] = ioErr[p]
  BY <1>1 DEF TypeOK
<1>7. Held' = Held \ {mine[r]}
  BY <1>2, <1>3 DEF Held
<1>8. TypeOK'
  <2>1. DOMAIN scratch' \subseteq Numbers /\ \A i \in DOMAIN scratch' : scratch'[i] \in Scratch
    BY <1>1 DEF TypeOK
  <2>2. load' \in Workloads /\ query' \in [Requests -> Queries \cup {BadQuery}]
    BY <1>1 DEF TypeOK
  <2> QED
    BY <1>3, <1>4, <1>5, <1>6, <2>1, <2>2 DEF TypeOK
<1>9. ScratchAccounting'
  <2>1. \A p, q \in Requests : mine'[p] = mine'[q] /\ mine'[p] # None => p = q
    BY <1>1, <1>3 DEF ScratchAccounting
  <2>2. ToSet(pool') \cap Held' = {} /\ ToSet(pool') \cup Held' = DOMAIN scratch'
    BY <1>1, <1>7 DEF ScratchAccounting
  <2>3. Cardinality(DOMAIN scratch') <= Cardinality(Requests)
    <3>1. DOMAIN scratch \subseteq Numbers /\ Cardinality(Requests) \in Nat
      BY <1>1, ServerAssumption, FS_CardinalityType DEF TypeOK
    <3>2. IsFiniteSet(DOMAIN scratch)
      <4>1. IsFiniteSet(Numbers)
        BY <3>1, FS_Interval DEF Numbers
      <4> QED
        BY <3>1, <4>1, FS_Subset
    <3>3. /\ Cardinality(DOMAIN scratch') <= Cardinality(DOMAIN scratch)
          /\ Cardinality(DOMAIN scratch') \in Nat /\ Cardinality(DOMAIN scratch) \in Nat
      BY <3>2, FS_Subset, FS_CardinalityType
    <3>4. Cardinality(DOMAIN scratch) <= Cardinality(Requests)
      BY <1>1 DEF ScratchAccounting
    <3> QED
      BY <3>1, <3>3, <3>4
  <2> QED
    BY <2>1, <2>2, <2>3 DEF ScratchAccounting
<1>10. MarksFresh'
  BY <1>1 DEF MarksFresh
<1>11. Holding'
  BY <1>1, <1>3, <1>4 DEF Holding
<1>12. Searching'
  <2>1. ASSUME NEW p \in Requests
        PROVE  pc'[p] = "search" /\ ~ ioErr'[p] =>
                 \E n \in 0 .. Cardinality(Nodes) : Rounds(load', query'[p])[n] = SearchState(p)'
    <3>1. CASE p = r
      BY <1>4, <3>1
    <3>2. CASE p # r
      <4>1. pc[p] = "search" => scratch'[mine[p]] = scratch[mine[p]]
        <5>1. pc[p] = "search" => mine[p] \in DOMAIN scratch
          BY <1>1, HeldFacts DEF Holding
        <5> QED
          BY <1>2, <3>2, <5>1
      <4> QED
        BY ZenonT(60), <1>1, <1>3, <1>4, <1>5, <1>6, <3>2, <4>1, SearchingFrame
    <3> QED
      BY <3>1, <3>2
  <2> QED
    BY <2>1 DEF Searching
<1>13. AnswerAsFresh'
  BY <1>1 DEF AnswerAsFresh
<1>14. expected' = [q \in Queries |-> BatchedSearch(load', q)]
  BY DEF IndInv
<1> QED
  BY <1>8, <1>9, <1>10, <1>11, <1>12, <1>13, <1>14 DEF IndInv

\* What Answered gives: the reply to this request and no other's.
LEMMA AnsweredFacts ==
  ASSUME TypeOK, NEW r \in Requests, NEW code \in {200, 500}, NEW answer \in Answer,
         Answered(r, code, answer)
  PROVE  /\ reply' \in [Requests -> [code: {0, 200, 400, 500}, answer: Answer]]
         /\ \A p \in Requests : p # r => reply'[p] = reply[p]
         /\ reply'[r].code = 200 => code = 200 /\ reply'[r].answer = answer
<1> DEFINE v == IF client[r] THEN Reply(code, answer) ELSE NoReply
<1>1. reply' = [reply EXCEPT ![r] = v]
  BY DEF Answered
<1>2. /\ Reply(code, answer) = [code |-> code, answer |-> answer]
      /\ NoReply = [code |-> 0, answer |-> NoAnswer]
  BY DEF Reply, NoReply
<1>3. v \in [code: {0, 200, 400, 500}, answer: Answer]
      /\ (v.code = 200 => code = 200 /\ v.answer = answer)
  BY <1>2, AnswerFacts
<1> HIDE DEF v
<1> QED
  BY <1>1, <1>3 DEF TypeOK

LEMMA PutInd ==
  ASSUME IndInv, NEW r \in Requests, Put(r)
  PROVE  IndInv'
<1> DEFINE k == mine[r]
<1>1. TypeOK /\ Holding /\ Searching /\ ScratchAccounting
  BY DEF IndInv
<1>2. /\ pc[r] = "search" /\ k # None /\ query[r] \in Queries
      /\ Frontier(scratch[k].pool) = <<>>
  BY <1>1 DEF Put, Holding
<1>3. load \in Workload /\ load \in Workloads /\ pool \in Seq(Numbers)
  BY <1>1, ServerAssumption DEF TypeOK
<1>4. k \in DOMAIN scratch /\ k \in Held
  BY <1>2, HeldFacts DEF Held
<1>5. k \in Numbers /\ k \notin ToSet(pool)
  BY <1>1, <1>4 DEF ScratchAccounting, TypeOK
<1>6. /\ pool' = Append(pool, k) /\ mine' = [mine EXCEPT ![r] = None]
      /\ pc' = [pc EXCEPT ![r] = "idle"] /\ ranked' = [ranked EXCEPT ![r] = NoAnswer]
      /\ ioErr' = [ioErr EXCEPT ![r] = FALSE] /\ client' = [client EXCEPT ![r] = FALSE]
      /\ UNCHANGED <<load, expected, query, scratch>>
  BY DEF Put, given
<1>7. /\ pool' \in Seq(Numbers) /\ DOMAIN pool' = DOMAIN pool \cup {Len(pool) + 1}
      /\ Len(pool) + 1 \notin DOMAIN pool
      /\ pool'[Len(pool) + 1] = k /\ \A i \in DOMAIN pool : pool'[i] = pool[i]
  <2>1. /\ pool' \in Seq(Numbers) /\ Len(pool') = Len(pool) + 1
        /\ \A i \in 1 .. Len(pool) : pool'[i] = pool[i]
        /\ pool'[Len(pool) + 1] = k
    BY <1>3, <1>5, <1>6, AppendProperties
  <2>2. /\ DOMAIN pool = 1 .. Len(pool) /\ DOMAIN pool' = 1 .. Len(pool')
        /\ Len(pool) \in Nat
    BY <1>3, <2>1, LenProperties
  <2> QED
    BY <2>1, <2>2
<1>8. ToSet(pool') = ToSet(pool) \cup {k}
  <2>1. ToSet(pool') = {pool'[i] : i \in DOMAIN pool'} /\ ToSet(pool) = {pool[i] : i \in DOMAIN pool}
    BY DEF ToSet
  <2> QED
    BY <1>7, <2>1
<1>9. \A i, j \in DOMAIN pool' : pool'[i] = pool'[j] => i = j
  <2>1. \A i \in DOMAIN pool : pool[i] # k
    BY <1>5 DEF ToSet
  <2>2. \A i, j \in DOMAIN pool : pool[i] = pool[j] => i = j
    BY <1>1 DEF ScratchAccounting
  <2> QED
    BY <1>7, <2>1, <2>2
<1>10. ToSet(pool') \cup (Held \ {k}) = DOMAIN scratch'
  BY <1>1, <1>4, <1>6, <1>8 DEF ScratchAccounting
<1>11. /\ mine[r] # None
       /\ mine' = [mine EXCEPT ![r] = None] /\ pc' = [pc EXCEPT ![r] = "idle"]
       /\ ranked' = [ranked EXCEPT ![r] = NoAnswer] /\ ioErr' = [ioErr EXCEPT ![r] = FALSE]
       /\ client' = [client EXCEPT ![r] = FALSE]
       /\ UNCHANGED <<load, expected, query>>
  BY <1>2, <1>6
<1>12. /\ DOMAIN scratch' \subseteq DOMAIN scratch
       /\ \A i \in DOMAIN scratch : i # mine[r] => i \in DOMAIN scratch'
       /\ \A i \in DOMAIN scratch' : scratch'[i] = scratch[i]
  BY <1>6
<1>13. /\ pool' \in Seq(Numbers)
       /\ ToSet(pool') \subseteq ToSet(pool) \cup {mine[r]}
       /\ ToSet(pool') \cup (Held \ {mine[r]}) = DOMAIN scratch'
  BY <1>6, <1>7, <1>8, <1>10
<1>14. CASE ioErr[r]
  <2>1. Answered(r, 500, NoAnswer)
    BY <1>14 DEF Put
  <2>2. /\ reply' \in [Requests -> [code: {0, 200, 400, 500}, answer: Answer]]
        /\ \A p \in Requests : p # r => reply'[p] = reply[p]
        /\ reply'[r].code # 200
    BY <1>1, <2>1, AnsweredFacts, AnswerFacts
  <2>3. /\ reply' \in [Requests -> [code: {0, 200, 400, 500}, answer: Answer]]
        /\ \A p \in Requests : p # r => reply'[p] = reply[p]
        /\ reply'[r].code = 200 => reply'[r].answer = expected[query[r]]
    BY <2>2
  <2> QED
    BY <1>9, <1>11, <1>12, <1>13, <2>3, Released
<1>15. CASE ~ ioErr[r]
  <2>1. PICK n \in 0 .. Cardinality(Nodes) : Rounds(load, query[r])[n] = SearchState(r)
    BY <1>1, <1>2, <1>15 DEF Searching
  <2>2. Rounds(load, query[r])[Cardinality(Nodes)] = SearchState(r)
    <3>1. Frontier(Rounds(load, query[r])[n].pool) = <<>>
      BY <1>2, <2>1 DEF SearchState
    <3> QED
      BY <1>2, <1>3, <2>1, <3>1, RoundsSettle
  <2>3. ranked[r] = expected[query[r]]
    <3>1. expected[query[r]] = BatchedSearch(load, query[r])
      BY <1>2 DEF IndInv
    <3>2. BatchedSearch(load, query[r]) = [top |-> ranked[r].top, reads |-> ranked[r].reads]
      BY <2>2 DEF BatchedSearch, SearchState
    <3>3. ranked[r] \in Answer
      BY <1>1 DEF TypeOK
    <3> QED
      BY <3>1, <3>2, <3>3 DEF Answer
  <2>4. Answered(r, 200, ranked[r]) /\ ranked[r] \in Answer
    BY <1>1, <1>15 DEF Put, TypeOK
  <2>5. /\ reply' \in [Requests -> [code: {0, 200, 400, 500}, answer: Answer]]
        /\ \A p \in Requests : p # r => reply'[p] = reply[p]
        /\ reply'[r].code = 200 => reply'[r].answer = expected[query[r]]
    BY <1>1, <2>3, <2>4, AnsweredFacts
  <2> QED
    BY <1>9, <1>11, <1>12, <1>13, <2>5, Released
<1> QED
  BY <1>14, <1>15

LEMMA PanicInd ==
  ASSUME IndInv, NEW r \in Requests, Panic(r)
  PROVE  IndInv'
<1> DEFINE k == mine[r]
<1>1. TypeOK /\ Holding /\ ScratchAccounting
  BY DEF IndInv
<1>2. pc[r] = "search" /\ k # None
  BY <1>1 DEF Panic, Holding
<1>3. /\ pool' = pool /\ mine' = [mine EXCEPT ![r] = None]
      /\ pc' = [pc EXCEPT ![r] = "idle"] /\ ranked' = [ranked EXCEPT ![r] = NoAnswer]
      /\ ioErr' = [ioErr EXCEPT ![r] = FALSE] /\ client' = [client EXCEPT ![r] = FALSE]
      /\ UNCHANGED <<load, expected, query>>
      /\ scratch' = [i \in DOMAIN scratch \ {k} |-> scratch[i]]
      /\ Answered(r, 500, NoAnswer)
  BY DEF Panic, given
<1>4. k \in Held
  BY <1>2 DEF Held
<1>5. /\ DOMAIN scratch' = DOMAIN scratch \ {k}
      /\ \A i \in DOMAIN scratch' : scratch'[i] = scratch[i]
  BY <1>3
<1>6. /\ pool' \in Seq(Numbers) /\ \A i, j \in DOMAIN pool' : pool'[i] = pool'[j] => i = j
      /\ ToSet(pool') = ToSet(pool)
  BY <1>1, <1>3 DEF TypeOK, ScratchAccounting
<1>7. ToSet(pool') \cup (Held \ {k}) = DOMAIN scratch'
  BY <1>1, <1>4, <1>5, <1>6 DEF ScratchAccounting
<1>8. /\ reply' \in [Requests -> [code: {0, 200, 400, 500}, answer: Answer]]
      /\ \A p \in Requests : p # r => reply'[p] = reply[p]
      /\ reply'[r].code # 200
  BY <1>1, <1>3, AnsweredFacts, AnswerFacts
<1> QED
  BY ZenonT(60), <1>2, <1>3, <1>5, <1>6, <1>7, <1>8, Released

-----------------------------------------------------------------------------
\* Every step keeps the invariant.
LEMMA NextInd == IndInv /\ [Next]_vars => IndInv'
<1> SUFFICES ASSUME IndInv, [Next]_vars PROVE IndInv'
  OBVIOUS
<1>1. CASE UNCHANGED vars
  <2> USE <1>1 DEF vars, given, requestVars
  <2>1. TypeOK'
    BY DEF IndInv, TypeOK
  <2>4. MarksFresh' /\ AnswerAsFresh'
    BY DEF IndInv, MarksFresh, AnswerAsFresh
  <2>5. Holding'
    BY DEF IndInv, Holding
  <2>2. ScratchAccounting'
    BY AccountingFrame DEF IndInv
  <2>3. Searching'
    BY SearchingFrame DEF IndInv, Searching
  <2> QED
    BY <2>1, <2>2, <2>3, <2>4, <2>5 DEF IndInv
<1>2. CASE Next
  <2>1. PICK r \in Requests :
          \/ \E q \in Queries \cup {BadQuery} : Arrive(r, q)
          \/ Disconnect(r)
          \/ Task(r)
    BY <1>2 DEF Next
  <2>2. ASSUME NEW q \in Queries \cup {BadQuery}, Arrive(r, q) PROVE IndInv'
    BY <2>2, ArriveInd
  <2>3. CASE Disconnect(r)
    BY <2>3, DisconnectInd
  <2>4. CASE Task(r)
    BY <2>4, TakeInd, BeginInd, RoundReadInd, RoundFailsInd, PutInd, PanicInd DEF Task
  <2> QED
    BY <2>1, <2>2, <2>3, <2>4
<1> QED
  BY <1>1, <1>2

\* The inductive invariant holds of every run of the server: a search that has
\* met no error is at a state of the reference search of its query.
THEOREM InvariantHolds == Spec => []IndInv
BY InitInd, NextInd, PTL DEF Spec

\* Every variable keeps its type: the epoch never leaves its width.
THEOREM TypeCorrect == Spec => []TypeOK
<1>1. IndInv => TypeOK
  BY DEF IndInv
<1> QED
  BY <1>1, InvariantHolds, PTL

\* No scratch is in two hands, none is lost but by a panic, and there are never
\* more than requests (lib.rs: the pool that take and put share).
THEOREM ScratchesAccounted == Spec => []ScratchAccounting
<1>1. IndInv => ScratchAccounting
  BY DEF IndInv
<1> QED
  BY <1>1, InvariantHolds, PTL

\* No mark is of an epoch still to come, however often the count wraps round
\* (SearchScratch::begin and first_visit).
THEOREM MarksAreFresh == Spec => []MarksFresh
<1>1. IndInv => MarksFresh
  BY DEF IndInv
<1> QED
  BY <1>1, InvariantHolds, PTL

\* A 200 carries what a search with a scratch never used before answers,
\* whatever other requests, read errors, panics and hang-ups there are.
THEOREM AnswersAreFresh == Spec => []AnswerAsFresh
<1>1. IndInv => AnswerAsFresh
  BY DEF IndInv
<1> QED
  BY <1>1, InvariantHolds, PTL

=============================================================================
