------------------------------ MODULE IoUring ------------------------------
(***************************************************************************)
(* The kernel side of one io_uring instance, as nvvec-io uses it: a        *)
(* submission queue the program fills, reads the kernel has accepted, a    *)
(* completion queue the program empties, and the pool of block buffers the *)
(* kernel writes into.  None of this is code of the repository (it is the  *)
(* kernel and the io-uring crate); it is modelled from how uring.rs uses   *)
(* it.  Modules that model that code EXTEND this one.                      *)
(***************************************************************************)
EXTENDS Integers, Sequences, FiniteSets

CONSTANTS
  QueueDepth,  \* UringOpts.queue_depth: buffers in the pool
  SqEntries,   \* submission queue entries: queue_depth rounded up to 2^n
  NumBlocks,   \* blocks of the index file
  Faults       \* what may go wrong: a subset of FaultKinds

FaultKinds == {"eio", "short", "enter", "signal"}

ASSUME RingAssumption ==
  /\ QueueDepth \in Nat \ {0}
  /\ SqEntries \in Nat
  /\ SqEntries >= QueueDepth
  /\ NumBlocks \in Nat \ {0}
  /\ Faults \subseteq FaultKinds

Slots  == 0 .. QueueDepth - 1
Blocks == 0 .. NumBlocks - 1

\* The content of a buffer is the number of the block it holds, or Garbage.
Garbage == -1
Contents == Blocks \cup {Garbage}

\* The result of a read: all of the block, a part of it, or a negative errno.
Results == {"full"} \cup (Faults \cap {"eio", "short"})

VARIABLES
  sq,      \* sequence of entries pushed and not yet submitted
  kernel,  \* set of entries the kernel has accepted and not yet completed
  cq,      \* sequence of completions posted and not yet reaped
  bufs     \* content of each buffer slot

ringVars == <<sq, kernel, cq, bufs>>

Sqe(UserData) == [buf: Slots, block: Blocks, ud: UserData]
Cqe(UserData) == [ud: UserData, res: Results]

RingInit ==
  /\ sq = <<>>
  /\ kernel = {}
  /\ cq = <<>>
  /\ bufs = [s \in Slots |-> Garbage]

\* Writing an entry to the queue; the caller has checked that it has room.
Push(e) ==
  /\ sq' = Append(sq, e)
  /\ UNCHANGED <<kernel, cq, bufs>>

\* io_uring_enter takes the first n entries.  It may take fewer than there
\* are, but takes none only when there is none (otherwise it fails).  From
\* then on the content of their buffers is the kernel's business.
Prefixes == IF sq = <<>> THEN {0} ELSE 1 .. Len(sq)

Enter(n) ==
  LET taken == {sq[i] : i \in 1 .. n} IN
  /\ sq' = SubSeq(sq, n + 1, Len(sq))
  /\ kernel' = kernel \cup taken
  /\ bufs' = [s \in Slots |-> IF \E e \in taken : e.buf = s
                                THEN Garbage ELSE bufs[s]]
  /\ UNCHANGED cq

\* How many completions a submit_and_wait(min) that has taken n entries goes
\* on to wait for: none when it could take only a part of the queue, and none
\* when a signal arrives after it has taken something.
Awaited(n, min) ==
  IF n < Len(sq) THEN {0}
  ELSE IF n > 0 /\ "signal" \in Faults THEN {0, min}
  ELSE {min}

\* The device finishes any accepted read, in any order, at any time.
Complete(e, res) ==
  /\ e \in kernel
  /\ kernel' = kernel \ {e}
  /\ cq' = Append(cq, [ud |-> e.ud, res |-> res])
  /\ bufs' = [bufs EXCEPT ![e.buf] = IF res = "full" THEN e.block ELSE Garbage]
  /\ UNCHANGED sq

KernelComplete == \E e \in kernel, res \in Results : Complete(e, res)

=============================================================================
