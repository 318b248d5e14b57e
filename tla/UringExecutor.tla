--------------------------- MODULE UringExecutor ---------------------------
(***************************************************************************)
(* nvvec-io's UringExecutor (crates/nvvec-io/src/uring.rs:200-325): one    *)
(* thread stages block reads, each into a buffer slot of its own, flushes  *)
(* them to the kernel with one system call, and drains completions, handing*)
(* each block to a callback together with the tag it was staged under.     *)
(* The slot travels in the high bits of user_data, the tag in the low.     *)
(*                                                                         *)
(* A call that blocks or calls back is several actions, because the kernel *)
(* and the callback act in between: drain is DrainEnter, Reap, one Deliver *)
(* or CompletionError per completion, DrainDone.                           *)
(***************************************************************************)
EXTENDS IoUring

CONSTANT TagSpan  \* 2^48 in the code: tags are 0 .. TagSpan - 1

ASSUME TagAssumption == TagSpan \in Nat \ {0}

Tags     == 0 .. TagSpan - 1
UserData == 0 .. QueueDepth * TagSpan - 1

\* Variant: the tag is one bit too wide for its place under the slot.
PackTooTight(slot, tag) == slot * (TagSpan - 1) + tag

Pack(slot, tag) == slot * TagSpan + tag
SlotOf(ud) == ud \div TagSpan
TagOf(ud)  == ud % TagSpan

VARIABLES
  free,    \* stack of free slots; the top is the last element
  cqBuf,   \* completions reaped by the drain under way, not yet called back
  need,    \* completions the drain under way waits for
  status,  \* where the executor's only thread is
  asked,   \* history: the request each slot serves, until it is delivered
  out      \* history: what the callback under way was given

executorVars == <<free, cqBuf, need, status, asked, out>>
vars == <<ringVars, executorVars>>

Request    == [tag: Tags, block: Blocks]
NoRequest  == [tag |-> -1, block |-> -1]
Delivery   == [tag: Tags, data: Contents]
NoDelivery == [tag |-> -1, data |-> Garbage]

Running  == {"ready", "waiting", "callback"}
Statuses == Running \cup {"failed", "dropped"}

Init ==
  /\ RingInit
  /\ free = [i \in 1 .. QueueDepth |-> QueueDepth - i]
  /\ cqBuf = <<>>
  /\ need = 0
  /\ status = "ready"
  /\ asked = [s \in Slots |-> NoRequest]
  /\ out = NoDelivery

-----------------------------------------------------------------------------
\* Variant: the block bound is checked with > in place of >=.
RefusedPastEnd(block, tag) ==
  \/ block > NumBlocks
  \/ tag >= TagSpan
  \/ free = <<>>

\* stage_read.  The checks run in the order of the code; each refuses the
\* call and changes nothing.
Refused(block, tag) ==
  \/ block >= NumBlocks
  \/ tag >= TagSpan
  \/ free = <<>>

StageRefused(block, tag) ==
  /\ status = "ready"
  /\ Refused(block, tag)
  /\ UNCHANGED vars

\* Variant: the slot is read off the free stack but not popped.
StageReadPeeks(block, tag) ==
  LET slot == free[Len(free)] IN
  /\ status = "ready"
  /\ ~ Refused(block, tag)
  /\ IF Len(sq) < SqEntries
       THEN /\ Push([buf |-> slot, block |-> block, ud |-> Pack(slot, tag)])
            /\ asked' = [asked EXCEPT ![slot] = [tag |-> tag, block |-> block]]
            /\ UNCHANGED status
       ELSE /\ status' = "failed"
            /\ UNCHANGED <<ringVars, asked>>
  /\ UNCHANGED <<free, cqBuf, need, out>>

\* The slot is popped before the push: a full queue would leak it.
StageRead(block, tag) ==
  LET slot == free[Len(free)] IN
  /\ status = "ready"
  /\ ~ Refused(block, tag)
  /\ free' = SubSeq(free, 1, Len(free) - 1)
  /\ IF Len(sq) < SqEntries
       THEN /\ Push([buf |-> slot, block |-> block, ud |-> Pack(slot, tag)])
            /\ asked' = [asked EXCEPT ![slot] = [tag |-> tag, block |-> block]]
            /\ UNCHANGED status
       ELSE /\ status' = "failed"
            /\ UNCHANGED <<ringVars, asked>>
  /\ UNCHANGED <<cqBuf, need, out>>

\* flush: one io_uring_enter that does not wait.
Flush ==
  /\ status = "ready"
  /\ \E n \in Prefixes : Enter(n)
  /\ UNCHANGED executorVars

\* io_uring_enter fails: nothing is submitted and `?` leaves the call.  A
\* signal fails drain's wait only when it had nothing to submit.
Fail ==
  /\ status' = "failed"
  /\ UNCHANGED <<ringVars, free, cqBuf, need, asked, out>>

FlushFails ==
  /\ status = "ready"
  /\ "enter" \in Faults
  /\ Fail

DrainFails ==
  /\ status = "ready"
  /\ \/ "enter" \in Faults
     \/ "signal" \in Faults /\ sq = <<>>
  /\ Fail

\* Variant: the wait goes on for all min completions after a partial submit.
DrainEnterInsists(min) ==
  /\ status = "ready"
  /\ status' = "waiting"
  /\ need' = min
  /\ IF min = 0 THEN UNCHANGED ringVars ELSE \E n \in Prefixes : Enter(n)
  /\ UNCHANGED <<free, cqBuf, asked, out>>

\* drain(min): submit_and_wait when min > 0, which may come back early.
DrainEnter(min) ==
  /\ status = "ready"
  /\ status' = "waiting"
  /\ \/ /\ min = 0
        /\ need' = 0
        /\ UNCHANGED ringVars
     \/ /\ min > 0
        /\ \E n \in Prefixes :
             /\ Enter(n)
             /\ need' \in Awaited(n, min)
  /\ UNCHANGED <<free, cqBuf, asked, out>>

\* Variant: slots are recycled as completions are reaped, ahead of callbacks.
ReapRecycles ==
  /\ status = "waiting"
  /\ Len(cq) >= need
  /\ cqBuf' = cq
  /\ cq' = <<>>
  /\ free' = free \o [i \in DOMAIN cq |-> SlotOf(cq[i].ud)]
  /\ need' = 0
  /\ status' = "callback"
  /\ UNCHANGED <<sq, kernel, bufs, asked, out>>

\* Variant: the completion queue is read but its head is not advanced.
ReapLeaves ==
  /\ status = "waiting"
  /\ Len(cq) >= need
  /\ cqBuf' = cq
  /\ need' = 0
  /\ status' = "callback"
  /\ UNCHANGED <<ringVars, free, asked, out>>

\* The wait is over: every completion posted so far is copied to cq_buf.
Reap ==
  /\ status = "waiting"
  /\ Len(cq) >= need
  /\ cqBuf' = cq
  /\ cq' = <<>>
  /\ need' = 0
  /\ status' = "callback"
  /\ UNCHANGED <<sq, kernel, bufs, free, asked, out>>

\* Variant: the callback gets user_data with the slot still in it.
DeliverUnmasked ==
  /\ status = "callback"
  /\ cqBuf # <<>>
  /\ Head(cqBuf).res = "full"
  /\ LET slot == SlotOf(Head(cqBuf).ud) IN
     /\ out' = [tag |-> Head(cqBuf).ud, data |-> bufs[slot]]
     /\ free' = Append(free, slot)
     /\ asked' = [asked EXCEPT ![slot] = NoRequest]
  /\ cqBuf' = Tail(cqBuf)
  /\ UNCHANGED <<ringVars, need, status>>

\* One turn of drain's loop: call back with the block, recycle the slot.
Deliver ==
  /\ status = "callback"
  /\ cqBuf # <<>>
  /\ Head(cqBuf).res = "full"
  /\ LET slot == SlotOf(Head(cqBuf).ud) IN
     /\ out' = [tag |-> TagOf(Head(cqBuf).ud), data |-> bufs[slot]]
     /\ free' = Append(free, slot)
     /\ asked' = [asked EXCEPT ![slot] = NoRequest]
  /\ cqBuf' = Tail(cqBuf)
  /\ UNCHANGED <<ringVars, need, status>>

\* An error or a short read ends the drain: the slot of this completion and
\* those of the completions behind it are never recycled.
CompletionError ==
  /\ status = "callback"
  /\ cqBuf # <<>>
  /\ Head(cqBuf).res # "full"
  /\ status' = "failed"
  /\ cqBuf' = <<>>
  /\ out' = NoDelivery
  /\ UNCHANGED <<ringVars, free, need, asked>>

DrainDone ==
  /\ status = "callback"
  /\ cqBuf = <<>>
  /\ status' = "ready"
  /\ out' = NoDelivery
  /\ UNCHANGED <<ringVars, free, cqBuf, need, asked>>

\* The owner drops the executor: the ring goes, then the buffers.
Drop ==
  /\ status \in {"ready", "failed"}
  /\ status' = "dropped"
  /\ UNCHANGED <<ringVars, free, cqBuf, need, asked, out>>

\* The device works on, whatever the thread does; a completion needs a ring.
Device ==
  /\ status # "dropped"
  /\ KernelComplete
  /\ UNCHANGED executorVars

Dropped == status = "dropped" /\ UNCHANGED vars

-----------------------------------------------------------------------------
\* Reads staged and not yet called back.  A caller must not wait for more
\* completions than that: nothing would ever wake it.
Outstanding == {s \in Slots : asked[s] # NoRequest}
Drains == 0 .. Cardinality(Outstanding)

\* The caller's steps, with every argument stage_read has to cope with.
Caller ==
  \/ \E block \in 0 .. NumBlocks, tag \in 0 .. TagSpan :
       StageRead(block, tag) \/ StageRefused(block, tag)
  \/ Flush
  \/ FlushFails
  \/ \E min \in Drains : DrainEnter(min)
  \/ DrainFails
  \/ Drop

Executor == Reap \/ Deliver \/ CompletionError \/ DrainDone

Next == Caller \/ Executor \/ Device \/ Dropped

Spec == Init /\ [][Next]_vars

\* The device finishes what it has accepted, and a thread inside drain runs.
Fairness == WF_vars(Device) /\ WF_vars(Executor)
FairSpec == Spec /\ Fairness

-----------------------------------------------------------------------------
\* Every variable has its type.
TypeOK ==
  /\ sq \in Seq(Sqe(UserData))
  /\ kernel \subseteq Sqe(UserData)
  /\ cq \in Seq(Cqe(UserData))
  /\ bufs \in [Slots -> Contents]
  /\ free \in Seq(Slots)
  /\ cqBuf \in Seq(Cqe(UserData))
  /\ need \in Nat
  /\ status \in Statuses
  /\ asked \in [Slots -> Request \cup {NoRequest}]
  /\ out \in Delivery \cup {NoDelivery}

\* The slots named by the entries of a queue, and by a set of entries.
SlotsIn(queue) == {SlotOf(queue[i].ud) : i \in DOMAIN queue}
KernelSlots == {SlotOf(e.ud) : e \in kernel}
FreeSlots == {free[i] : i \in DOMAIN free}

\* No two entries of a queue name the same slot.
Distinct(queue) ==
  \A i, j \in DOMAIN queue :
    SlotOf(queue[i].ud) = SlotOf(queue[j].ud) => i = j

OwnedOnce ==
  /\ \A i, j \in DOMAIN free : free[i] = free[j] => i = j
  /\ Distinct(sq) /\ Distinct(cq) /\ Distinct(cqBuf)
  /\ \A d, e \in kernel : SlotOf(d.ud) = SlotOf(e.ud) => d = e

Apart ==
  /\ FreeSlots \cap (SlotsIn(sq) \cup KernelSlots \cup SlotsIn(cq) \cup SlotsIn(cqBuf)) = {}
  /\ SlotsIn(sq) \cap (KernelSlots \cup SlotsIn(cq) \cup SlotsIn(cqBuf)) = {}
  /\ KernelSlots \cap (SlotsIn(cq) \cup SlotsIn(cqBuf)) = {}
  /\ SlotsIn(cq) \cap SlotsIn(cqBuf) = {}

NoneLost ==
  status \in Running =>
    FreeSlots \cup SlotsIn(sq) \cup KernelSlots \cup SlotsIn(cq) \cup SlotsIn(cqBuf) = Slots

\* Each buffer slot is in exactly one place: on the free stack, in an entry
\* not yet submitted, with the kernel, in a completion not yet reaped, or in
\* one not yet called back.  Two places would have the kernel overwrite a
\* block someone reads; none would be a leak, which only an error causes.
SlotAccounting == OwnedOnce /\ Apart /\ NoneLost

\* A completion names the slot of the request it answers and the tag of that
\* request, and if it is a full read the slot still holds the block asked for
\* when the callback is about to look: user_data packs and unpacks without
\* mixing slot and tag, and no later read has taken over the buffer.
Faithful(c) ==
  /\ asked[SlotOf(c.ud)].tag = TagOf(c.ud)
  /\ c.res = "full" => bufs[SlotOf(c.ud)] = asked[SlotOf(c.ud)].block

CompletionFaithful ==
  /\ \A i \in DOMAIN cq : Faithful(cq[i])
  /\ \A i \in DOMAIN cqBuf : Faithful(cqBuf[i])

\* The inductive invariant behind the three properties above and below: also,
\* an entry on its way to the kernel or with it serves the request noted for
\* its slot, a completion answers a request not yet delivered, a free slot
\* serves none, and completions wait for their callback only inside drain.
Serves(e) ==
  /\ e.buf = SlotOf(e.ud)
  /\ asked[e.buf] = [tag |-> TagOf(e.ud), block |-> e.block]

Answers(c) == asked[SlotOf(c.ud)] # NoRequest /\ Faithful(c)

Linked ==
  /\ \A i \in DOMAIN sq : Serves(sq[i])
  /\ \A e \in kernel : Serves(e)
  /\ \A i \in DOMAIN cq : Answers(cq[i])
  /\ \A i \in DOMAIN cqBuf : Answers(cqBuf[i])
  /\ \A s \in FreeSlots : asked[s] = NoRequest

Phases ==
  /\ status # "callback" => cqBuf = <<>>
  /\ status # "callback" => out = NoDelivery

IndInv == TypeOK /\ SlotAccounting /\ Linked /\ Phases

\* The error "submission queue full (stage/flush imbalance)" never happens,
\* so stage_read never leaks the slot it has popped: with a slot free, the
\* submission queue has room, however many flushes were only partial.
SqHasRoom == status = "ready" /\ free # <<>> => Len(sq) < SqEntries

\* A drain comes back, whatever order and speed the device chooses: it never
\* waits for a read that was not submitted.
DrainReturns == status \in {"waiting", "callback"} ~> status \in {"ready", "failed"}

\* The SAFETY comment of stage_read (uring.rs:282): the slot buffer stays
\* allocated until the completion is drained.
BufferOutlivesRead == status = "dropped" => kernel = {}

\* The executor implements the abstract read service: a slot is the handle of
\* the request it serves.
Reads == INSTANCE AsyncReads WITH
  Handles <- Slots,
  pending <- asked,
  open <- status \in Running
ImplementsReads == Reads!Spec

=============================================================================
