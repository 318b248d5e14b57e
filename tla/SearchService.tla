--------------------------- MODULE SearchService ---------------------------
(***************************************************************************)
(* What search_pipelined promises, with no disk, ring or pool in sight:    *)
(* queries start in order, a bounded number runs at once and that number   *)
(* is kept up while queries are left, each is answered exactly once, with  *)
(* what a search of that query alone would answer, and the call returns Ok *)
(* only when all of them are.                                              *)
(***************************************************************************)
EXTENDS Integers, FiniteSets

CONSTANTS
  NumQueries,
  Concurrency  \* queries that run at once, at least 1, at most NumQueries

QueryIds == 0 .. NumQueries - 1
NoAnswer == [top |-> <<>>, reads |-> 0]

VARIABLES
  correct,  \* the answer each query should get; fixed
  answer,   \* the answer each query got, or NoAnswer
  running,  \* the queries started and not answered
  next,     \* the first query not started
  outcome   \* "running", "ok" or "err"

serviceVars == <<correct, answer, running, next, outcome>>

Init ==
  /\ answer = [q \in QueryIds |-> NoAnswer]
  /\ running = 0 .. Concurrency - 1
  /\ next = Concurrency
  /\ outcome = "running"

\* A query is answered, and the next one takes its place at once.
Answer(q) ==
  /\ outcome = "running"
  /\ q \in running
  /\ answer' = [answer EXCEPT ![q] = correct[q]]
  /\ IF next < NumQueries
       THEN running' = (running \ {q}) \cup {next} /\ next' = next + 1
       ELSE running' = running \ {q} /\ UNCHANGED next
  /\ UNCHANGED <<correct, outcome>>

Return ==
  /\ outcome = "running"
  /\ running = {}
  /\ outcome' = "ok"
  /\ UNCHANGED <<correct, answer, running, next>>

Fail ==
  /\ outcome = "running"
  /\ outcome' = "err"
  /\ UNCHANGED <<correct, answer, running, next>>

Next == (\E q \in QueryIds : Answer(q)) \/ Return \/ Fail

Spec == Init /\ [][Next]_serviceVars

=============================================================================
