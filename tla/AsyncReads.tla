---------------------------- MODULE AsyncReads ----------------------------
(***************************************************************************)
(* What UringExecutor promises its caller, with no ring, queue or buffer   *)
(* pool in sight: a bounded number of requests can be pending; each is     *)
(* delivered at most once, in any order, under its own tag and with the    *)
(* block it asked for; after a failure nothing is delivered any more.      *)
(***************************************************************************)
EXTENDS Integers

CONSTANTS Handles, Tags, Blocks

VARIABLES
  pending,  \* the request each handle serves, or NoRequest
  out,      \* the delivery under way, or NoDelivery
  open      \* FALSE once the service has failed or was closed

absVars == <<pending, out, open>>

Request    == [tag: Tags, block: Blocks]
NoRequest  == [tag |-> -1, block |-> -1]
NoDelivery == [tag |-> -1, data |-> -1]

Init ==
  /\ pending = [h \in Handles |-> NoRequest]
  /\ out = NoDelivery
  /\ open = TRUE

Ask(h, r) ==
  /\ open
  /\ out = NoDelivery
  /\ pending[h] = NoRequest
  /\ pending' = [pending EXCEPT ![h] = r]
  /\ UNCHANGED <<out, open>>

Deliver(h) ==
  /\ open
  /\ pending[h] # NoRequest
  /\ out' = [tag |-> pending[h].tag, data |-> pending[h].block]
  /\ pending' = [pending EXCEPT ![h] = NoRequest]
  /\ UNCHANGED open

Return ==
  /\ out' = NoDelivery
  /\ UNCHANGED <<pending, open>>

Close ==
  /\ open' = FALSE
  /\ out' = NoDelivery
  /\ UNCHANGED pending

Next ==
  \/ \E h \in Handles, r \in Request : Ask(h, r)
  \/ \E h \in Handles : Deliver(h)
  \/ Return
  \/ Close

Spec == Init /\ [][Next]_absVars

=============================================================================
