---------------------------- MODULE UringReader ----------------------------
(***************************************************************************)
(* nvvec-io's UringReader (crates/nvvec-io/src/uring.rs:85-198): blocking  *)
(* batch reads over one ring behind a mutex.  A batch is cut into chunks of*)
(* at most queue_depth reads; a chunk is pushed, submitted with one system *)
(* call that waits for all of it, reaped, and copied out to the caller.    *)
(* The i-th read of a chunk uses buffer slot i and carries i as user_data. *)
(*                                                                         *)
(* Threads may share a reader.  After an I/O error the ring may still hold *)
(* reads of the failed batch, and the module comment asks callers to       *)
(* discard the reader: no call begins any more, but one that already waits *)
(* for the mutex goes on, and meets what the failed one left behind.       *)
(***************************************************************************)
EXTENDS IoUring

CONSTANTS
  Threads,  \* threads that call read_batch
  Batches,  \* the batches they may ask for, as sequences of block numbers
  Nobody    \* the holder of a free mutex

\* A number that is not that of a block stands for a request that fails
\* validation, for its block or for the length of its buffer.
ASSUME ReaderAssumption ==
  /\ Batches \subseteq Seq(0 .. NumBlocks)
  /\ Nobody \notin Threads

VARIABLES
  lock,    \* the thread that holds the mutex, or Nobody
  pc,      \* where each thread is
  batch,   \* the batch of each thread's call
  dst,     \* the content of that call's buffers
  start,   \* where in its batch the holder's current chunk starts
  need,    \* completions the holder waits for
  comps,   \* completions the holder has reaped and not looked at
  broken,  \* history: an error has left the ring in an unknown state
  late,    \* history: a thread's call took the mutex after such an error
  open     \* FALSE once the reader is dropped

callVars == <<pc, batch, dst>>
holderVars == <<lock, start, need, comps>>
vars == <<ringVars, callVars, holderVars, broken, late, open>>

Done == {"idle", "ok", "err", "panic"}
Working == {"push", "submit", "wait", "copy"}

Init ==
  /\ RingInit
  /\ lock = Nobody
  /\ pc = [t \in Threads |-> "idle"]
  /\ batch = [t \in Threads |-> <<>>]
  /\ dst = [t \in Threads |-> <<>>]
  /\ start = 0
  /\ need = 0
  /\ comps = <<>>
  /\ broken = FALSE
  /\ late = [t \in Threads |-> FALSE]
  /\ open = TRUE

Goto(t, where) == pc' = [pc EXCEPT ![t] = where]

-----------------------------------------------------------------------------
\* A call, after the loop that validates every request of the batch.
Call(t) ==
  /\ open /\ ~ broken
  /\ pc[t] \in Done
  /\ \E b \in Batches :
       /\ batch' = [batch EXCEPT ![t] = b]
       /\ dst' = [dst EXCEPT ![t] = [i \in DOMAIN b |-> Garbage]]
       /\ Goto(t, IF \A i \in DOMAIN b : b[i] \in Blocks THEN "blocked" ELSE "err")
  /\ UNCHANGED <<ringVars, holderVars, broken, late, open>>

Lock(t) ==
  /\ pc[t] = "blocked"
  /\ lock = Nobody
  /\ lock' = t
  /\ start' = 0
  /\ late' = [late EXCEPT ![t] = broken]
  /\ Goto(t, "push")
  /\ UNCHANGED <<ringVars, batch, dst, need, comps, broken, open>>

\* The chunk that starts at start.
ChunkEnd(t) ==
  IF start + QueueDepth < Len(batch[t]) THEN start + QueueDepth ELSE Len(batch[t])
ChunkLen(t) == ChunkEnd(t) - start
\* Variant: every chunk reads the first blocks of the batch.
EntriesFromZero(t) ==
  [i \in 1 .. ChunkLen(t) |-> [buf |-> i - 1, block |-> batch[t][i], ud |-> i - 1]]

Entries(t) ==
  [i \in 1 .. ChunkLen(t) |-> [buf |-> i - 1, block |-> batch[t][start + i], ud |-> i - 1]]

\* Variant: the mutex is not released on the way out.
GiveKeepsLock(t, outcome) ==
  /\ Goto(t, outcome)
  /\ need' = 0
  /\ comps' = <<>>
  /\ broken' = TRUE
  /\ UNCHANGED <<lock, start, batch, dst, late, open>>

\* The call ends with an error, or a panic, and the guard unlocks the mutex;
\* what is queued, submitted or completed stays in the ring.
Give(t, outcome) ==
  /\ Goto(t, outcome)
  /\ lock' = Nobody
  /\ start' = 0
  /\ need' = 0
  /\ comps' = <<>>
  /\ broken' = TRUE
  /\ UNCHANGED <<batch, dst, late, open>>

\* Variant: pushes without looking whether the queue has room.
PushUnchecked(t) ==
  /\ pc[t] = "push"
  /\ start < Len(batch[t])
  /\ sq' = sq \o Entries(t)
  /\ Goto(t, "submit")
  /\ UNCHANGED <<kernel, cq, bufs, holderVars, batch, dst, broken, late, open>>

\* The push loop; it fails half-way when the submission queue is full.
PushChunk(t) ==
  LET room == SqEntries - Len(sq) IN
  /\ pc[t] = "push"
  /\ start < Len(batch[t])
  /\ UNCHANGED <<kernel, cq, bufs>>
  /\ IF ChunkLen(t) <= room
       THEN /\ sq' = sq \o Entries(t)
            /\ Goto(t, "submit")
            /\ UNCHANGED <<holderVars, batch, dst, broken, late, open>>
       ELSE /\ sq' = sq \o SubSeq(Entries(t), 1, room)
            /\ Give(t, "err")

\* submit_and_wait(chunk.len()).
Submit(t) ==
  /\ pc[t] = "submit"
  /\ \E n \in Prefixes :
       /\ Enter(n)
       /\ need' \in Awaited(n, ChunkLen(t))
  /\ Goto(t, "wait")
  /\ UNCHANGED <<lock, start, comps, batch, dst, broken, late, open>>

SubmitFails(t) ==
  /\ pc[t] = "submit"
  /\ "enter" \in Faults
  /\ Give(t, "err")
  /\ UNCHANGED ringVars

\* Variant: the completions reaped are not counted.
ReapUncounted(t) ==
  /\ pc[t] = "wait"
  /\ Len(cq) >= need
  /\ cq' = <<>>
  /\ comps' = cq
  /\ need' = 0
  /\ Goto(t, "copy")
  /\ UNCHANGED <<sq, kernel, bufs, lock, start, batch, dst, broken, late, open>>

\* All completions there are are reaped; their number must be the chunk's.
Reap(t) ==
  /\ pc[t] = "wait"
  /\ Len(cq) >= need
  /\ cq' = <<>>
  /\ UNCHANGED <<sq, kernel, bufs>>
  /\ IF Len(cq) = ChunkLen(t)
       THEN /\ comps' = cq
            /\ need' = 0
            /\ Goto(t, "copy")
            /\ UNCHANGED <<lock, start, batch, dst, broken, late, open>>
       ELSE Give(t, "err")

\* Variant: blocks are copied out in the order of their completions.
CopyInOrder(t) ==
  /\ pc[t] = "copy"
  /\ comps # <<>>
  /\ UNCHANGED ringVars
  /\ LET c == Head(comps)
         place == ChunkEnd(t) - Len(comps) + 1
     IN  IF c.res # "full" THEN Give(t, "err")
         ELSE /\ dst' = [dst EXCEPT ![t][place] = bufs[c.ud]]
              /\ comps' = Tail(comps)
              /\ UNCHANGED <<lock, start, need, pc, batch, broken, late, open>>

\* One turn of the copy loop: user_data says which buffer of the chunk the
\* block goes to; an index past the end of the chunk panics.
Copy(t) ==
  /\ pc[t] = "copy"
  /\ comps # <<>>
  /\ UNCHANGED ringVars
  /\ LET c == Head(comps) IN
     IF c.res # "full" THEN Give(t, "err")
     ELSE IF c.ud >= ChunkLen(t) THEN Give(t, "panic")
     ELSE /\ dst' = [dst EXCEPT ![t][start + c.ud + 1] = bufs[c.ud]]
          /\ comps' = Tail(comps)
          /\ UNCHANGED <<lock, start, need, pc, batch, broken, late, open>>

NextChunk(t) ==
  /\ pc[t] = "copy"
  /\ comps = <<>>
  /\ start' = ChunkEnd(t)
  /\ Goto(t, "push")
  /\ UNCHANGED <<ringVars, batch, dst, lock, need, comps, broken, late, open>>

Return(t) ==
  /\ pc[t] = "push"
  /\ start >= Len(batch[t])
  /\ Goto(t, "ok")
  /\ lock' = Nobody
  /\ start' = 0
  /\ UNCHANGED <<ringVars, batch, dst, need, comps, broken, late, open>>

\* The reader is dropped when no call is under way.
Drop ==
  /\ open
  /\ \A t \in Threads : pc[t] \in Done
  /\ open' = FALSE
  /\ UNCHANGED <<ringVars, callVars, holderVars, broken, late>>

Device ==
  /\ open
  /\ KernelComplete
  /\ UNCHANGED <<callVars, holderVars, broken, late, open>>

Dropped == ~ open /\ UNCHANGED vars

-----------------------------------------------------------------------------
Work(t) ==
  \/ PushChunk(t) \/ Submit(t) \/ SubmitFails(t) \/ Reap(t)
  \/ Copy(t) \/ NextChunk(t) \/ Return(t)

Next ==
  \/ \E t \in Threads : Call(t) \/ Lock(t) \/ Work(t)
  \/ Drop \/ Device \/ Dropped

Spec == Init /\ [][Next]_vars

\* The device finishes what it has accepted, a thread inside the mutex runs,
\* and parking_lot hands the mutex to a waiting thread sooner or later.
Fairness ==
  /\ WF_vars(Device)
  /\ \A t \in Threads : WF_vars(Work(t)) /\ SF_vars(Lock(t))

FairSpec == Spec /\ Fairness

-----------------------------------------------------------------------------
\* Every variable has its type.
TypeOK ==
  /\ sq \in Seq(Sqe(Slots)) /\ Len(sq) <= SqEntries
  /\ kernel \subseteq Sqe(Slots)
  /\ cq \in Seq(Cqe(Slots))
  /\ bufs \in [Slots -> Contents]
  /\ lock \in Threads \cup {Nobody}
  /\ pc \in [Threads -> Done \cup Working \cup {"blocked"}]
  /\ batch \in [Threads -> Batches \cup {<<>>}]
  /\ dst \in [Threads -> Seq(Contents)]
  /\ start \in Nat
  /\ need \in 0 .. QueueDepth
  /\ comps \in Seq(Cqe(Slots))
  /\ broken \in BOOLEAN
  /\ late \in [Threads -> BOOLEAN]
  /\ open \in BOOLEAN

\* Until a first error, the ring is empty whenever the mutex is free: no call
\* leaves a read, or a completion, for the next one to trip over.
RingDrained ==
  lock = Nobody /\ ~ broken => sq = <<>> /\ kernel = {} /\ cq = <<>>

\* Until a first error, what the ring holds belongs to the holder's current
\* chunk, each read once and at its own place, and a full read's block is
\* still in its buffer when it is copied out: no index panics, no buffer is
\* overwritten by the next chunk, no completion is of another batch.
InFlight(e, t) == e.ud < ChunkLen(t) /\ e.block = batch[t][start + e.ud + 1]
Landed(c, t) ==
  /\ c.ud < ChunkLen(t)
  /\ c.res = "full" => bufs[c.ud] = batch[t][start + c.ud + 1]

OneChunkAtATime ==
  ~ broken => \A t \in Threads : lock = t =>
    /\ \A i \in DOMAIN sq : InFlight(sq[i], t)
    /\ \A e \in kernel : InFlight(e, t)
    /\ \A i \in DOMAIN cq : Landed(cq[i], t)
    /\ \A i \in DOMAIN comps : Landed(comps[i], t)
    /\ \A i, j \in DOMAIN cq : cq[i].ud = cq[j].ud => i = j

\* A call that got the mutex before the first error, and returns Ok, has every
\* block it asked for in the buffer it gave for it, though completions come in
\* any order, and still has it when the calls of other threads fail later.  One
\* that waited for the mutex while another failed is promised nothing.
OkMeansRead ==
  \A t \in Threads : pc[t] = "ok" /\ ~ late[t] => dst[t] = batch[t]

\* No call waits for ever, for the mutex or for the device, even on a ring
\* that an error has left in an unknown state.
CallsReturn == \A t \in Threads : pc[t] = "blocked" ~> pc[t] \in Done

\* The SAFETY comment of read_batch (uring.rs:162): the ring is drained before
\* the pool can be reused or dropped.
DrainedBeforeDrop == ~ open => kernel = {}

-----------------------------------------------------------------------------
\* What makes the safety properties inductive.  The mutex is with the one
\* thread that works; a chunk has something in it from its push to its copy,
\* and completions are looked at only then.  An error takes the mutex from the
\* call it ends, so who works on a broken ring came to it late.
LockHeld ==
  /\ \A t \in Threads : lock = t <=> pc[t] \in Working
  /\ lock = Nobody => start = 0 /\ comps = <<>>
  /\ \A t \in Threads : lock = t =>
       /\ start <= Len(batch[t])
       /\ pc[t] # "push" => start < Len(batch[t])
       /\ pc[t] # "copy" => comps = <<>>
       /\ broken => late[t]

\* A call has a buffer for each of its blocks, and past validation no other.
Validated ==
  \A t \in Threads :
    /\ DOMAIN dst[t] = DOMAIN batch[t]
    /\ pc[t] \in Working \cup {"blocked"} => \A i \in DOMAIN batch[t] : batch[t][i] \in Blocks

RingEmpty == sq = <<>> /\ kernel = {} /\ cq = <<>>

\* The reads of a chunk, by their user_data.
Places(t) == 0 .. ChunkLen(t) - 1
UdsIn(q) == {q[i].ud : i \in DOMAIN q}
UdsOf(E) == {e.ud : e \in E}

\* While the ring works on a chunk, each of its reads is queued, with the
\* kernel, or completed, and only one of these; it uses the slot it is named for.
Underway(t) ==
  /\ UdsIn(sq) \cup UdsOf(kernel) \cup UdsIn(cq) = Places(t)
  /\ UdsIn(sq) \cap UdsOf(kernel) = {}
  /\ UdsIn(sq) \cap UdsIn(cq) = {}
  /\ UdsOf(kernel) \cap UdsIn(cq) = {}
  /\ \A i, j \in DOMAIN sq : sq[i].ud = sq[j].ud => i = j
  /\ \A d, e \in kernel : d.ud = e.ud => d = e
  /\ \A i \in DOMAIN sq : sq[i].buf = sq[i].ud
  /\ \A e \in kernel : e.buf = e.ud

\* Until a first error, the chunks before the current one have been read, and
\* so has every block of it that no completion waits to be copied for.
Progress ==
  ~ broken => \A t \in Threads : lock = t =>
    /\ pc[t] \in {"push", "copy"} => RingEmpty
    /\ pc[t] = "submit" => kernel = {} /\ cq = <<>>
    /\ pc[t] \in {"submit", "wait"} => Underway(t)
    /\ \A i \in 1 .. start : dst[t][i] = batch[t][i]
    /\ pc[t] = "copy" => \A p \in Places(t) :
         \/ p \in UdsIn(comps)
         \/ dst[t][start + p + 1] = batch[t][start + p + 1]

IndInv ==
  /\ TypeOK
  /\ LockHeld
  /\ Validated
  /\ RingDrained
  /\ OneChunkAtATime
  /\ Progress
  /\ OkMeansRead

=============================================================================
