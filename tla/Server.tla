------------------------------- MODULE Server -------------------------------
(***************************************************************************)
(* nvvec-server (crates/nvvec-server/src/lib.rs): requests run in parallel *)
(* on tokio's blocking threads over one shared index.  Each takes a search *)
(* scratch from a pool behind a mutex, or makes one, searches with it, and *)
(* puts it back, whatever came of the search.  A scratch is reused without *)
(* being cleaned: its marks of visited nodes carry the number of the search*)
(* that made them, its epoch, a u32 that wraps round.                      *)
(*                                                                         *)
(* A round of a search touches only the request's own scratch, and is one  *)
(* action; the steps on the shared pool are actions of their own.  The     *)
(* block buffers pooled with the scratch are left out: a round reads only  *)
(* those it has just filled.                                               *)
(***************************************************************************)
EXTENDS BeamSearch

CONSTANTS
  Requests,   \* requests that may run at once
  Workloads,  \* the workloads a run may be given
  EpochMax,   \* u32::MAX
  Faults      \* what may go wrong: a subset of {"read", "panic"}

ASSUME ServerAssumption ==
  /\ Workloads \subseteq Workload
  /\ IsFiniteSet(Requests)
  /\ EpochMax \in Nat \ {0}
  /\ Faults \subseteq {"read", "panic"}

VARIABLES
  load,      \* the workload of this run; never changes
  expected,  \* history: what a search with a fresh scratch answers
  pool,      \* AppState.scratches: a stack of scratch numbers
  scratch,   \* the scratches there are, by number
  pc,        \* where each request is
  query,     \* what it asks
  mine,      \* the scratch it holds, or None
  ranked,    \* its exact-scored nodes and reads so far
  ioErr,     \* whether one of its reads has failed
  client,    \* whether its client still waits
  reply      \* what the client got

given == <<load, expected>>
requestVars == <<pc, query, mine, ranked, ioErr, client, reply>>
vars == <<given, pool, scratch, requestVars>>

None == 0
\* One number more than there can be requests, to see if it is ever used.
Numbers == 1 .. Cardinality(Requests) + 1

\* A query whose vector has not the dimension of the index.
BadQuery == -1

Epochs == 0 .. EpochMax
Answer == [top: Seq(Scored), reads: Nat]
Scratch == [epoch: Epochs, marks: [Nodes -> Epochs], pool: Seq(Cand)]
NewScratch == [epoch |-> 0, marks |-> [n \in Nodes |-> 0], pool |-> <<>>]

Reply(code, answer) == [code |-> code, answer |-> answer]
NoAnswer == [top |-> <<>>, reads |-> 0]
NoReply == Reply(0, NoAnswer)

Init ==
  /\ load \in Workloads
  /\ expected = [q \in Queries |-> BatchedSearch(load, q)]
  /\ pool = <<>>
  /\ scratch = <<>>
  /\ pc = [r \in Requests |-> "idle"]
  /\ query = [r \in Requests |-> BadQuery]
  /\ mine = [r \in Requests |-> None]
  /\ ranked = [r \in Requests |-> NoAnswer]
  /\ ioErr = [r \in Requests |-> FALSE]
  /\ client = [r \in Requests |-> FALSE]
  /\ reply = [r \in Requests |-> NoReply]

Answered(r, code, answer) ==
  reply' = [reply EXCEPT ![r] = IF client[r] THEN Reply(code, answer) ELSE NoReply]

-----------------------------------------------------------------------------
\* The handler, up to spawn_blocking: a vector of the wrong dimension is
\* refused at once.
Arrive(r, q) ==
  /\ pc[r] = "idle"
  /\ query' = [query EXCEPT ![r] = q]
  /\ IF q = BadQuery
       THEN /\ reply' = [reply EXCEPT ![r] = Reply(400, NoAnswer)]
            /\ UNCHANGED <<pc, client>>
       ELSE /\ reply' = [reply EXCEPT ![r] = NoReply]
            /\ pc' = [pc EXCEPT ![r] = "take"]
            /\ client' = [client EXCEPT ![r] = TRUE]
  /\ UNCHANGED <<given, pool, scratch, mine, ranked, ioErr>>

\* The client hangs up: the handler is dropped, its blocking task goes on.
Disconnect(r) ==
  /\ client[r]
  /\ client' = [client EXCEPT ![r] = FALSE]
  /\ UNCHANGED <<given, pool, scratch, pc, query, mine, ranked, ioErr, reply>>

\* Variant: the scratch is cloned off the pool's top and not popped.
TakePeeks(r) ==
  /\ pc[r] = "take"
  /\ IF pool # <<>>
       THEN /\ mine' = [mine EXCEPT ![r] = Last(pool)]
            /\ UNCHANGED scratch
       ELSE LET new == CHOOSE i \in Numbers : i \notin DOMAIN scratch IN
            /\ mine' = [mine EXCEPT ![r] = new]
            /\ scratch' = [i \in DOMAIN scratch \cup {new} |->
                 IF i = new THEN NewScratch ELSE scratch[i]]
  /\ pc' = [pc EXCEPT ![r] = "begin"]
  /\ UNCHANGED <<given, pool, query, ranked, ioErr, client, reply>>

\* Pops a scratch, or makes one, under the mutex.
Take(r) ==
  /\ pc[r] = "take"
  /\ IF pool # <<>>
       THEN /\ mine' = [mine EXCEPT ![r] = Last(pool)]
            /\ pool' = Front(pool)
            /\ UNCHANGED scratch
       ELSE LET new == CHOOSE i \in Numbers : i \notin DOMAIN scratch IN
            /\ mine' = [mine EXCEPT ![r] = new]
            /\ scratch' = [i \in DOMAIN scratch \cup {new} |->
                 IF i = new THEN NewScratch ELSE scratch[i]]
            /\ UNCHANGED pool
  /\ pc' = [pc EXCEPT ![r] = "begin"]
  /\ UNCHANGED <<given, query, ranked, ioErr, client, reply>>

\* Variant: the epoch wraps round and the marks stay.
BegunUnwiped(s) ==
  [s EXCEPT !.epoch = IF @ = EpochMax THEN 1 ELSE @ + 1, !.pool = <<>>]

\* Variant: the epoch counts on past its width.
BegunUnbounded(s) == [s EXCEPT !.epoch = @ + 1, !.pool = <<>>]

\* SearchScratch::begin: the next epoch; when they have run out the marks are
\* wiped and the count starts again.
Begun(s) ==
  IF s.epoch = EpochMax THEN [NewScratch EXCEPT !.epoch = 1]
  ELSE [s EXCEPT !.epoch = @ + 1, !.pool = <<>>]

\* first_visit, for each of a set of nodes.
Mark(s, nodes) ==
  [s EXCEPT !.marks = [n \in Nodes |-> IF n \in nodes THEN s.epoch ELSE s.marks[n]]]

Visited(s) == {n \in Nodes : s.marks[n] = s.epoch}

\* The search begins: a new epoch, and the medoid visited and in the pool.
Begin(r) ==
  /\ pc[r] = "begin"
  /\ scratch' = [scratch EXCEPT ![mine[r]] =
       [Mark(Begun(@), {Medoid}) EXCEPT !.pool =
          SearchSeed(load.route[query[r]]).pool]]
  /\ ranked' = [ranked EXCEPT ![r] = NoAnswer]
  /\ ioErr' = [ioErr EXCEPT ![r] = FALSE]
  /\ pc' = [pc EXCEPT ![r] = "search"]
  /\ UNCHANGED <<given, pool, query, mine, client, reply>>

\* A round that reads its blocks: score them, collect and visit neighbours.
RoundRead(r) ==
  LET s == scratch[mine[r]]
      frontier == Frontier(s.pool)
      next == Explored(load, query[r], Visited(s), s.pool)
  IN  /\ pc[r] = "search"
      /\ frontier # <<>>
      /\ ~ ioErr[r]
      /\ scratch' = [scratch EXCEPT ![mine[r]] =
           [Mark(s, next.visited) EXCEPT !.pool = next.pool]]
      /\ ranked' = [ranked EXCEPT ![r] =
           [top |-> Ranked(load, query[r], @.top, frontier),
            reads |-> @.reads + Len(frontier)]]
      /\ UNCHANGED <<given, pool, pc, query, mine, ioErr, client, reply>>

\* Variant: the error is kept for one round only, like an Option taken early.
RoundForgives(r) ==
  LET s == scratch[mine[r]] IN
  /\ pc[r] = "search"
  /\ Frontier(s.pool) # <<>>
  /\ "read" \in Faults
  /\ scratch' = [scratch EXCEPT ![mine[r]].pool = MarkExpanded(@)]
  /\ ranked' = [ranked EXCEPT ![r].reads = @ + Len(Frontier(s.pool))]
  /\ UNCHANGED <<given, pool, pc, query, mine, ioErr, client, reply>>

\* A round whose read fails, and every round after it: the candidates are
\* expanded, and counted, but nothing comes of it.
RoundFails(r) ==
  LET s == scratch[mine[r]] IN
  /\ pc[r] = "search"
  /\ Frontier(s.pool) # <<>>
  /\ ioErr[r] \/ "read" \in Faults
  /\ ioErr' = [ioErr EXCEPT ![r] = TRUE]
  /\ scratch' = [scratch EXCEPT ![mine[r]].pool = MarkExpanded(@)]
  /\ ranked' = [ranked EXCEPT ![r].reads = @ + Len(Frontier(s.pool))]
  /\ UNCHANGED <<given, pool, pc, query, mine, client, reply>>

\* No candidate is left: the scratch goes back to the pool, under the mutex,
\* and the client gets the answer, or the error.
Put(r) ==
  /\ pc[r] = "search"
  /\ Frontier(scratch[mine[r]].pool) = <<>>
  /\ pool' = Append(pool, mine[r])
  /\ mine' = [mine EXCEPT ![r] = None]
  /\ IF ioErr[r] THEN Answered(r, 500, NoAnswer) ELSE Answered(r, 200, ranked[r])
  /\ pc' = [pc EXCEPT ![r] = "idle"]
  /\ ranked' = [ranked EXCEPT ![r] = NoAnswer]
  /\ ioErr' = [ioErr EXCEPT ![r] = FALSE]
  /\ client' = [client EXCEPT ![r] = FALSE]
  /\ UNCHANGED <<given, scratch, query>>

\* A panic unwinds the blocking task: its scratch is freed, not put back, and
\* the join error is a 500.
Panic(r) ==
  /\ "panic" \in Faults
  /\ pc[r] = "search"
  /\ scratch' = [i \in DOMAIN scratch \ {mine[r]} |-> scratch[i]]
  /\ mine' = [mine EXCEPT ![r] = None]
  /\ Answered(r, 500, NoAnswer)
  /\ pc' = [pc EXCEPT ![r] = "idle"]
  /\ ranked' = [ranked EXCEPT ![r] = NoAnswer]
  /\ ioErr' = [ioErr EXCEPT ![r] = FALSE]
  /\ client' = [client EXCEPT ![r] = FALSE]
  /\ UNCHANGED <<given, pool, query>>

-----------------------------------------------------------------------------
Task(r) ==
  Take(r) \/ Begin(r) \/ RoundRead(r) \/ RoundFails(r) \/ Put(r) \/ Panic(r)

Next ==
  \E r \in Requests :
    \/ \E q \in Queries \cup {BadQuery} : Arrive(r, q)
    \/ Disconnect(r)
    \/ Task(r)

Spec == Init /\ [][Next]_vars

-----------------------------------------------------------------------------
\* Every variable has its type.
TypeOK ==
  /\ load \in Workloads
  /\ pool \in Seq(Numbers)
  /\ DOMAIN scratch \subseteq Numbers
  /\ \A i \in DOMAIN scratch : scratch[i] \in Scratch
  /\ pc \in [Requests -> {"idle", "take", "begin", "search"}]
  /\ query \in [Requests -> Queries \cup {BadQuery}]
  /\ mine \in [Requests -> Numbers \cup {None}]
  /\ ranked \in [Requests -> Answer]
  /\ ioErr \in [Requests -> BOOLEAN]
  /\ client \in [Requests -> BOOLEAN]
  /\ reply \in [Requests -> [code: {0, 200, 400, 500}, answer: Answer]]

\* Every scratch there is lies in the pool, once, or is held by one request;
\* none is lost but by a panic, and there are never more than requests that
\* ran at once.
Held == {mine[r] : r \in Requests} \ {None}

ScratchAccounting ==
  /\ \A q, r \in Requests : mine[q] = mine[r] /\ mine[q] # None => q = r
  /\ \A i, j \in DOMAIN pool : pool[i] = pool[j] => i = j
  /\ ToSet(pool) \cap Held = {}
  /\ ToSet(pool) \cup Held = DOMAIN scratch
  /\ Cardinality(DOMAIN scratch) <= Cardinality(Requests)

\* No mark is of an epoch still to come, so the nodes a search sees as visited
\* are its own, even after the count has wrapped round.
MarksFresh ==
  \A i \in DOMAIN scratch, n \in Nodes : scratch[i].marks[n] <= scratch[i].epoch

\* A 200 carries the answer of a search with a scratch never used before:
\* nothing of other requests, of a read that failed or of a client that left
\* is to be seen in it.
AnswerAsFresh ==
  \A r \in Requests : reply[r].code = 200 => reply[r].answer = expected[query[r]]

-----------------------------------------------------------------------------
\* What makes the properties above inductive.  A request holds a scratch from
\* its begin to its put, for a query that exists.
Holding ==
  \A r \in Requests :
    /\ mine[r] # None <=> pc[r] \in {"begin", "search"}
    /\ pc[r] # "idle" => query[r] \in Queries

\* Where a search is: what it keeps of the reference search's state.
SearchState(r) ==
  [pool |-> scratch[mine[r]].pool, visited |-> Visited(scratch[mine[r]]),
   exact |-> ranked[r].top, reads |-> ranked[r].reads]

\* A search that has met no error is where the reference search of its query
\* is after some number of rounds.
Searching ==
  \A r \in Requests : pc[r] = "search" /\ ~ ioErr[r] =>
    \E n \in 0 .. Cardinality(Nodes) : Rounds(load, query[r])[n] = SearchState(r)

IndInv ==
  /\ TypeOK
  /\ expected = [q \in Queries |-> BatchedSearch(load, q)]
  /\ ScratchAccounting
  /\ MarksFresh
  /\ Holding
  /\ Searching
  /\ AnswerAsFresh

=============================================================================
