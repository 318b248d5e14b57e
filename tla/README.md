# A formal model of pixeldrant

pixeldrant is a vector search engine: a Vamana graph on disk, searched with
batched or pipelined reads over io_uring and served over HTTP. This directory
holds TLA+ specifications of its stateful parts, the TLC configurations that
check them on small instances, and TLAPS proofs that every safety property the
runs check holds for every value of the constants, and that both refinements
do: of the executor, and of the pipelined search, which answers as the
round-based one.
Paths below are relative to `src/crates/`.

- `tlc -workers 2 -config X.cfg M` checks a configuration of the table of runs;
- `tlapm M.tla` checks the proofs of module M, for M each of
  `UringExecutor_proofs`, `UringReader_proofs`, `BeamSearch_proofs`,
  `Pipeline_proofs`, `Server_proofs`, `Build_proofs`, `IndexFile_proofs` and
  `DiskSearch_proofs` (a few minutes each).

## 1. The system

| component | state it keeps | operations | made correct by |
|---|---|---|---|
| **UringExecutor** (`nvvec-io/src/uring.rs:200-325`) | free stack of buffer slots, ring, reaped completions | `stage_read`, `flush`, `drain` with a callback per completion | a slot is in one place; a callback gets the tag and block that were asked for; the queue has room; a drain returns |
| **UringReader** (`uring.rs:85-198`) | ring and buffers behind a mutex | `read_batch`, `read_block` | until a first error nothing of a batch is left in the ring, and Ok means every block read into its place; callers never wait for ever |
| **Pipelined search** (`nvvec-index/src/pipeline.rs`) | a state slot per query in flight (visited, pool, neighbours pending, reads out), answers | `search_pipelined`: phase A (integrate, expand, stage), flush, drain | each query answered as if alone; no lost or misdirected completion; never idle, never stuck |
| **Beam search** (`nvvec-index/src/search.rs`, `disk.rs:170-221`) | scratch: epoch-marked visited array, candidate pool; block buffers kept from call to call | `beam_search`, `beam_search_batched`, `DiskIndex::search` | the pool is the nearest of what was met; exact rerank by the node's own block; a reused scratch is as good as a new one |
| **Scalar quantization** (`nvvec-index/src/quant.rs`) | a code per dimension of each vector | `train`, `dist`, `save`, `load` | routing distances within half a step of the exact ones |
| **HTTP server** (`nvvec-server/src/lib.rs`) | pool of scratches behind a mutex | `search` handler, blocking task | scratches not shared or lost; a 200 shows nothing of other requests or failed reads |
| **Vamana construction** (`nvvec-index/src/build.rs`) | one locked adjacency list per node | two passes of `insert_point` over parallel chunks | bounded degree, no loop or duplicate, no node orphaned, no deadlock |
| **Disk index file** (`nvvec-index/src/disk.rs`), **graph file** (`graph.rs`), **codes file** (`quant.rs`) | files | write/save, open/load | writer and searches agree where a node is; a reader sees one whole save, or an error |
| **Bench program** (`nvvec-bench/src/main.rs`) | caches of graph and index, codes file | `vamana`, `disk`, `pipeline`, `train-sq8` commands | caches complete, and for the right number of vectors, when used |
| **pread backend** (`nvvec-io/src/lib.rs`) | none | `open`, `read_block`, `read_batch` | a failed read fails the batch, and the search with it |
| brute force, distances | none | `brute::search`, `l2_sq` | what the searches are measured by |
| metrics, loaders, baselines | none | pure functions and I/O loops | - |

How they interact. `search_pipelined` is the only caller of the executor: one
thread, calling back into the scheduler's state from inside `drain`. The kernel
completes reads at any moment between two steps of that thread.
`DiskIndex::search` calls `read_batch` of some reader from inside
`beam_search_batched`; the bench gives each thread a UringReader of its own,
the server gives all threads one PreadReader. The server runs each search on a
blocking thread and takes its scratch from the shared pool. `build` uses
`beam_search` over lists that other threads are changing, and what it makes
goes to the disk index file. Searches are routed by the full vectors in memory
or by SQ8 codes, and ranked by the vectors read from disk.

What is hard here: completions in any order and at any time against buffers
that are reused; bookkeeping that is kept twice (the executor's free slots, the
scheduler's `in_flight`); errors half-way through a batch; a scheduler that
must never block with nothing outstanding; a scratch recycled without being
cleaned, with an epoch that wraps; locks taken and released several times
within one insertion. `PROJECT.json` lists each such hazard at its line with
the properties that answer it.

## 2. The modules

    IoUring          the ring and the device (external), and the buffer pool
      UringExecutor    stage_read / flush / drain      -- implements AsyncReads
        UringExecutor_proofs
      UringReader      read_batch under a mutex
        UringReader_proofs
    AsyncReads       what the executor promises
    Vectors          distances, the medoid
      Sq8              the codes and what they are decoded to
    DiskLayout       which block and slot a node is in
    BeamSearch       pool, frontier, TopK, the two searches, as operators
      BeamSearch_proofs  (used by all the proofs below)
      Pipeline         search_pipelined over UringExecutor
                                                       -- implements SearchService
        Pipeline_proofs
      Server           requests, scratches, epochs
        Server_proofs
      DiskSearch       one search after another over DiskLayout and Sq8
        DiskSearch_proofs
      (Build uses it for its searches)
    SearchService    what search_pipelined promises
    Build            parallel construction over Vectors
      Build_proofs
    IndexFile        the files of graph, index (DiskLayout) and codes, and the
                     programs that use them
      IndexFile_proofs
    MC<module>       instances for TLC

**IoUring** models what `uring.rs` relies on and is marked external: `push`
fails when the submission queue is full; `io_uring_enter` takes a prefix of the
submission queue, not always all of it, and then does not wait; it may fail;
and a signal may end its wait once it has taken something; the device completes any accepted read, in any
order, filling its buffer when it does so, with a full read, a short one or an
error. The kernel writes into the buffer named by the entry, so an overwritten
buffer is seen by whoever looks at it. The submission queue holds the queue
depth rounded up to a power of two; `SqEntries` is only assumed to be at least
`QueueDepth`. Which faults happen is the constant `Faults`: `eio`, `short`,
`enter`, `signal`.

**UringExecutor** keeps the code's variables: `free`, `cqBuf` (`cq_buf`), and
for a thread inside `drain` its `need` and `status`. One action per call of
`stage_read` and `flush`; `drain` is three kinds of step, as the device
interleaves with them: entering the kernel, reaping when enough completions
are there, and one step per callback (`Deliver`). The slot goes back on the
stack with the callback. Errors go where the code's early returns go: the
executor is then `failed` and can only be dropped, as its documentation says.
`asked` and `out` are history: the request each slot serves and what the last
callback saw.

**Pipeline** instantiates the executor whole, with its own actions guarded by
the scheduler's program counter: one step per state slot in phase A (with
the loop that reseeds a converged slot), one per read staged, one per `flush`,
`drain` and callback. Its data are given by a workload: adjacency lists, the
routing and the exact distance of each node from each query. `expected` is what
`BeamSearch!BatchedSearch` answers for the same workload. BeamSearch keeps the
code's strict comparisons and its order for equal distances.

**DiskLayout**, **Vectors** and **Sq8** are operators: the arithmetic of blocks
and slots, `l2_sq` and `find_medoid`, `train` and `dist` of the codes. Numbers
are integers, in units that make every quotient of the code whole: the medoid
is looked for among n times the points, a code's step is a multiple of
1/`Levels` (255 in the code).

**DiskSearch** is `DiskIndex::search` as one thread calls it again and again:
the parameters as the server's handler clamps them, a round expanded, its
blocks read one by one into buffers that keep what earlier rounds and calls
left in them, any read failing with its buffer as it was or partly written, and
the nodes taken out of the buffers. The content of a block is what DiskLayout
puts there, zeros where no node is. The scratch is taken as clean; how it gets
clean is Server's subject.

**UringReader** has a set of threads that share a reader. After the first error
no call begins any more, the module notes (`uring.rs:12-13`) telling callers to
discard it; a call already waiting for the mutex goes on, on whatever ring it
finds. Two history variables record this: `broken`, that there has been an
error, and `late`, whose call took the mutex after it. `RingDrained` and
`OneChunkAtATime` speak of the ring until the first error. `OkMeansRead` speaks
of every call that is not late, and after the error too: what it returned stays
as it is.

**Server**: a request takes a scratch (one step, under the mutex), begins a
search, runs rounds, and puts the scratch back (one step, under the mutex). A
round is one step, as it touches only the request's own scratch. A failed read
makes the later rounds hollow, as `io_err` does; a panic loses the scratch; a
client may leave at any time while the blocking task goes on.

**Build**: any number of chunks is under way at a time, which includes every
number of threads. A step is one access to a list under its lock: each
expansion of the search (read), the node's own list (read, then later write),
and per neighbour taking the write lock and releasing it with the change made.
The medoid and the orders of the two passes are computed from points and from
the numbers `splitmix64` draws, which are a constant.

**IndexFile**: a file is whether it exists, the parts in it, and whether a torn
part follows them. The index has a header and blocks, each with its nodes; the
graph and the codes have a header and the arrays whose sizes the header gives.
A part knows the dataset it came from, which the code does not look at beyond
the number of vectors. A run of a program looks whether its file exists, loads,
creates, writes part after part, opens and checks, with any other run and any
crash between two of these, as the code does it. Graph and index are caches:
used if they exist, deleted by the user when no program runs. The codes are
written anew, in place, by each `train-sq8`, also while a server loads them.

Two kinds of mixture are left out of its properties, by history variables,
because nothing in the code excludes them and no document claims otherwise.
`raced`: files that two runs were writing at once (`main.rs:429` and
`main.rs:547` look, and create much later); such a file may be a mixture, or
have a hole, with the right length. `undercut`: runs under whose eyes a file was
truncated; a load may then join the header of one save to the arrays of
another. A file made again by one run alone is out of `raced`.

`Variant:` operators in the modules are the operation below them with a
plausible mistake in it: a slot peeked at and not popped, a lock kept. No
specification uses them. Each property was seen to fail when the variant listed
for it in `PROJECT.json` takes its operation's place, so that a property that
holds is known to be able to fail.

## 3. The runs

| run | configuration | states | what it shows |
|---|---|---|---|
| executor | MCUringExecutor.cfg: 3 slots, queue of 4, 2 blocks, 2 tags, every fault, fairness | 406,947 | slot accounting, faithful completions, room in the queue, the inductive invariant of the proofs, that the executor implements AsyncReads, and that a drain returns |
| pipeline_service | MCPipeline.cfg: 3 queries, 2 at a time, w = 2, 4 nodes in 2 blocks, no fault | 318,509 | implements SearchService; bookkeeping exact, slots suffice, never waits for nothing, never idle, quiet on Ok, answers all |
| pipeline_faults | MCPipelineFaults.cfg: the same with w = 1, every fault, ties | 101,812 | the scheduler stays a caller the executor allows for, and the call returns, whatever fails |
| reader | MCUringReader.cfg: 2 threads, 2 slots, batches of up to 3, every fault | 35,057 | until a first error no call leaves anything behind for the next; a call that came before it has read what its Ok says; calls return |
| server | MCServer.cfg: 2 requests at once, epochs wrapping at 2, read errors, panics, disconnects | 239,868 | scratches not shared or lost; answers as with a fresh scratch |
| build | MCBuild.cfg: 4 points, 2 chunks, R = L = 2, 3 permutations | 14,235 | lists well formed, nobody orphaned, no deadlock |
| search | MCDiskSearch.cfg: 5 nodes, 2 to a block, 4 bases, 3 graphs, 3 queries, 5 requests, both scorers, read errors | 17,805 | the pool is the nearest of what was met; an answer ranks what was read as exact search would; a beam of one is `beam_search` step for step; codes within half a step |
| index_file | MCIndexFile.cfg: 2 runs at a time, datasets of 3 and 2 vectors, 2 nodes to a block, crashes, full disks | 1,586,337 | what is loaded or opened is one whole save for the right number of vectors; a whole file is not refused |
| pipeline_ties | MCPipelineTies.cfg | violation | finding 1 |
| pipeline_drop | MCPipelineDrop.cfg | violation | finding 2 |
| reader_drop | MCUringReaderDrop.cfg | violation | finding 3 |
| build_navigable | MCBuildNavigable.cfg | violation | finding 4 |

Why the bounds are enough to be interesting. Three buffer slots let one be
free, one queued and one completed at once, and a queue of four is the
power of two above three, so the queue and the pool are not the same size.
Two blocks and two tags tell a wrong one from the right one; one number beyond
each limit makes `stage_read` refuse. Three queries over two state slots make a
slot be reseeded while the other has reads out; four nodes in two blocks make
nodes share a block; `Ef = 3` with four nodes makes the pool overflow; `K = 2`
makes TopK replace; a tag of four state slots to a node is packed and unpacked
as in the code, with 4 in the place of 2^16. The three workloads are a chain (one node
at a time), a star (all at once) and a kite with cycles routed by other
distances than the exact ones. A batch of three over two slots is two chunks,
the second shorter. Epochs that wrap at the third search reuse every scratch
across a wrap. Four points, one of them amid three that do not occlude each
other, with R = 2, make lists overflow and be pruned; two chunks of two
overlap in both passes. Three vectors fill one block and half of another, two
fill one exactly, so each dataset's index is of another length; two runs are
enough for one to read while the other writes, and earlier runs, killed or
not, have left what they found. `OneRace` goes no further than one file at a
time that two runs have written at once: the properties say nothing of such a
file, and the other files do not depend on how it came about.

Five nodes at two to a block leave half of the third block zeros. The requests
of `search` are: nothing but zeros, which the handler has to raise; a beam of
one and of two with a pool of three, which overflows; a pool of all nodes, for
which the answer must be that of exact search; and a beam wider than allowed.
Among the bases are one with a constant dimension, one with all points in one
place, and spreads that put values between two codes; with `Levels = 2` codes
are coarse enough to lead a search elsewhere than exact distances do. In one
graph two nodes are out of the reach of some entry points, and so out of the
answer. A call ends in `idle` with nothing but its buffers left, so any sequence
of calls is covered.

Deadlock is checked in every passing run; the end of a run of the program
(returned, dropped, built) is an explicit stuttering action, and any other
stop is an error. (DiskSearch and IndexFile can always go on.)

Fairness. The device finishes the reads it has accepted (`WF(Device)`): an
NVMe device or the page cache does, and nothing is assumed of the order. A
thread inside `drain`, `read_batch` or `search_pipelined` takes its next step
when it can (`WF`): it does not wait for its caller. A thread that waits for
the mutex gets it if it is free again and again (`SF(Lock)`): parking_lot's
mutex is eventually fair. A rayon worker takes each chunk sooner or later and
runs. Nothing is assumed of callers, clients or faults. The server has no
liveness property: its search ends because each round expands a node, and its
only waits are for a mutex held for a push or a pop.

## 4. What is proved

Every safety property that a passing run checks is also a theorem, and so is
each refinement, for every value of the constants their assumptions allow.
Each proof is one inductive invariant, `IndInv`, stated in the module it is
about, and a step for each action; two properties need a second one on top of it
(`RoundInv` in Pipeline, `InStep` in DiskSearch_proofs). TLC checked each
invariant on the instance of its run before it was proved.

**Assumptions on constants.** `RingAssumption`, `TagAssumption`: a queue depth
of one or more, a submission queue no smaller, blocks and tags. `BeamAssumption`:
finitely many nodes, `K` and `W` positive, `Ef >= K` (as `search_pipelined` and
the handler make it). `PipelineAssumption`: queries and nodes numbered from 0,
slots enough for concurrency times `W`, tags wide enough for a state slot and a
node (both asserted or implied by the caller), each node's block within the
file. `ServerAssumption`: finitely many requests, an epoch counter that wraps
after one or more. `LayoutAssumption`: a block holds a node or more.
`LevelsAssumption`: codes have a level or more; `SearchAssumption`: one node or
more, numbered from 0, queries of the dimension of the base, any `k`, `ef` and
`w` asked for. `FileAssumption`: a dataset has a vector or more.
`BuildAssumption`: nodes numbered from 0, at least one, points of one dimension,
`R >= 2`, `L >= R`, one pass or more, chunks of one or more, and draws of the
shuffle in its range.

**UringExecutor** (`UringExecutor_proofs`): `TypeCorrect`, `SlotsAccountedFor`,
`CompletionsFaithful`, `QueueHasRoom`, and `ExecutorImplementsReads`, the
refinement of AsyncReads.
The argument is `IndInv == TypeOK /\ SlotAccounting /\ Linked /\ Phases`.
`Linked` says that an entry queued or in the kernel serves the request noted for
its slot (so that when the device fills the buffer, it is with that request's
block), that a completion answers a request not yet delivered, and that a free
slot serves none. `Phases` says that reaped completions exist only inside
`drain`. With `SlotAccounting` a slot moves along one path, free, queued,
kernel, completed, reaped, free, and no other step can touch its buffer
meanwhile: this is what carries `Linked` through a device step. `QueueHasRoom`
then counts: the slots of the queue are distinct and not on the free stack, so
with one free there are fewer entries than slots, and slots are at most
`SqEntries`.

**UringReader** (`UringReader_proofs`): `TypeCorrect`, `NothingLeftBehind`
(RingDrained), `ChunksApart` (OneChunkAtATime), `OkIsRead` (OkMeansRead), for
any threads, batches, queue sizes and faults. `TypeOK` holds on a broken ring
as well; of the ring itself it says only that the queue keeps its size and every
entry names a buffer slot. `LockHeld` ties the mutex to the
one thread that works and where it is in its batch, and says that who works on a
broken ring came late: an error takes the mutex from the call it ends. So a call
that is not late returns Ok from an unbroken ring, where the rest of the
invariant holds, and no later step touches what it returned (`StepAnswers`). `Validated` says that a call
past its checks asks for blocks there are. `Underway` is the
core: while the ring works on a chunk, the places of the chunk are split among
queue, kernel and completions. A thread reaps when the completions are as many
as the chunk; completions name different places, so by the pigeonhole principle
(`EveryPlaceTaken`) there is none left for the queue or the kernel. `Progress`
carries what has been copied: until a first error, all of the chunks before, and
of this one every place that no reaped completion is left for.

**BeamSearch** (`BeamSearch_proofs`): what each operator of the search returns
(the loop over a list, pool insertion, `Integrate`, the frontier and its mark,
TopK), and `SearchEnds`: the reference search has nothing left to expand after
as many rounds as there are nodes, because every round with a frontier expands
a node never expanded before. `PoolsNearest`: after any number of rounds the pool
is the `Ef` nearest of all that were visited and the top the `K` nearest of all
that were expanded (`NearestOf`: in order, each once, and nothing left out that is
nearer than what is in), where expanded are the frontiers of those rounds, and so
also nodes that the pool has dropped since. One insertion keeps `NearestOf` for a set with one node
more, though it sees nothing but the last entry; a loop of insertions, for the
union. Two sequences that are `NearestOf` the same set are at the same distances
(`NearestDistances`), and equal if no two of the nodes tie (`NearestUnique`): so
a pool or a top does not depend on the order it was filled in. `HopIsRound`: a
round with a beam of one is a hop of `beam_search`. The other proofs use these
lemmas.

**Pipeline** (`Pipeline_proofs`): `TypeCorrect`; `ExecutorUsed` (every step of
the scheduler is a step the executor allows its caller, so all that is proved of
the executor holds inside); `CountsAreExact` (InFlightExact); `CompletionsRouted`
(RoutedHome); `SlotsAreEnough` (SlotsSuffice); `WaitsEnd` (NeverWaitsForNothing);
`KeepsBusy` (NeverBreathesOut); `OkLeavesNothing` (OkIsQuiet); and
`StagingNeverFails`, which combines them with the executor's theorems. The
executor's `IndInv` is part of this one.
`SlotsTidy` says that what a state slot has staged and has still to stage are
nodes it has expanded, no more than a beam, `StagingApart` that they differ from
one another and from what it has out: this is why a completion finds its node
visited, its slot active, and one read only to count off. `AllOwed` gives each
read out to a state slot there is. `BeamsBound` adds the reads of the slots up:
at most `W` each, `Concurrency` of them, and one still to stage, so the executor
has a slot free. `PassedBy` says that phase A leaves behind no active slot
without reads, and `QueriesCounted` that queries unfinished are those not yet
started and those that run; together, a wait always has a read to wait for, and
Ok is reached with none out.

`RoundsFollowed` and `AnsweredAsAlone` (MatchesBatched, that Pipeline implements
SearchService, step by step) are about what a query computes. Reads complete in
any order, so neighbours are collected and nodes ranked in another order than
the round-based search takes. `RoundInv` says that each running query is in the
midst of some round of that search: the pool is what that round starts from, with
its frontier marked; the frontier is split into nodes that have landed and nodes
awaited (read out, or not staged yet); the neighbours collected are those of the
landed ones; the top is `NearestOf` the nodes expanded before and these. When
none is awaited, integrating the same set of neighbours gives the same pool,
because both are `NearestOf` the same visited nodes, and the query is at the end
of the round, which is the beginning of the next. By `SearchEnds` the answer of
the round whose frontier is empty is that of the reference. The theorems assume
of each workload `DistancesDiffer`: no two nodes equally far from one query, by
the routing or by the exact distance. The assumption cannot go: with ties the
order of completion shows in the answer, which is finding 1. `MCPipeline` asserts
it of the workloads of the run.

**Server** (`Server_proofs`): `TypeCorrect`, `ScratchesAccounted`
(ScratchAccounting), `MarksAreFresh` (MarksFresh), `AnswersAreFresh`
(AnswerAsFresh), for any number of requests and any width of the epoch.
`Holding`: a request holds a scratch from its begin to its put. `Searching`: a
search that has met no error is where the reference search of its query is after
some number of rounds, which holds because the marks it sees are its own
(`MarksFresh`, across the wrap too). When its frontier is empty, the reference
search stays as it is (`RoundsSettle`), so what it answers is the reference
answer.

**Build** (`Build_proofs`): `TypeCorrect`, `GraphStaysWellFormed`
(GraphWellFormed), `NobodyOrphaned` (NeverOrphaned), for any base, degree, list
size, number of chunks under way and shuffles; and of its parts,
`PermutationFacts` (the shuffle keeps every node, whatever is drawn),
`RobustPruneFacts` (at most R candidates, each once, not the node itself, and one
at least if there is one) and `ChunkFacts` (every node is in a chunk). The
argument: `Entered`, a search has expanded the medoid or has nothing but the
medoid to expand first; so when it prunes, the medoid is a candidate, and a node
other than the medoid chooses at least one neighbour (`Chosen`). After that its
list can be given a link or replaced by a pruned one, and neither leaves it
empty. `Inserting` says that a chunk that is done has nothing left, which with
`ChunkFacts` makes every node inserted when the first pass ends. Overwritten
links (finding 4) are thus lost, but never the last one.

**DiskLayout** (in `IndexFile_proofs`): `LocateFindsNode`, the block `locate`
names is one `data_blocks` counts, the slot is one the writer has filled, and it
has put that node there; `SlotIsLocated`, every slot that is filled holds a node
below n, which `locate` sends there. Together nodes and slots are one to one,
for every number of nodes and of nodes per block. Both rest on division as
`DivisionLaw` and `DivisionUnique` state it.

**IndexFile** (`IndexFile_proofs`): `TypeCorrect`, `LoadsAreWhole`
(LoadedIsWhole), `IndexIsWhole` (IndexInUse), `RefusalsExcused`
(WholeIsAccepted), for any runs, datasets and block size; `BlocksCounted`, that
the writer's loop over first nodes makes the blocks `data_blocks` counts.
`InOrder` says what a run has at each program counter. `Started`: a file that is
not raced is the beginning of one save, and that of the run still writing it, if
there is one. `Seen`: what a run has loaded so far, unless its file was truncated
under it, is there in the file still, and as many blocks as it counted when it
opened the index.

**DiskSearch** (`DiskSearch_proofs`): `TypeCorrect`, `RoutingStaysClose`
(RoutingClose), `PoolStaysNearest` (PoolIsNearest), `AnswersExact` (AnswerExact)
and `StepsAlike` (StepForStep), for any base, graph, queries, requests, number of
nodes to a block and number of levels. `IndInv` says: the pool is tidy and
`NearestOf` the visited nodes (`BeamTidy`); the buffers a round has read hold the
blocks of its nodes, whatever they held before (`RoundRead`); unless a read has
failed the top is `NearestOf` the nodes taken out of the buffers, and what is
visited is the medoid and their neighbours (`TopNearest`, `WithinReach`). So at
the end, with the whole pool expanded, top and exact search over the same nodes
are at the same distances; ties are allowed, which is why it is distances. If
the pool has room for all nodes, none was dropped, what is expanded is closed
under neighbours, and so it is all that is within reach.
`RoutingStaysClose` rests on the code of a value being the nearest level: twice
the error times `Levels` is at most the spread (from the quotient of the
rounding), each term of the distance then moves by at most
spread * (spread + 4 * Levels * distance in that dimension), and the sum by the
sum of these.
`StepsAlike` rests on `InStep`: with a beam of one, the call is at the hop of
`beam_search` of as many nodes as it has expanded, but for the node being read,
whose neighbours are still to be integrated. At the end the pool is all
expanded, where a hop changes nothing, so all later hops of the reference are
the same (`IterateSettles`).

**How.** `LeastNat` (a non-empty set of naturals has a least member) gives
induction by least counterexample (`UpTo`), and with it `LoopStates` and
`LoopInvariant` for the code's loops, all of which are folds over a sequence
(`BeamSearch!Loop`). So what a loop preserves is proved for every length, though
induction over data is not available as such.

**Only model-checked:** liveness (drains, calls, searches and builds that end),
which is outside the prover's reach, as is `ENABLED`. What the four violation
runs show is a counterexample each.

## 5. Findings

1. `pipeline_ties`. `nvvec-index/tests/pipeline.rs:1` says the pipelined search
   matches the round-based one exactly. With two nodes equally far from the
   query at the k-th place it returns the one whose read completes first
   (`TopK::push` refuses an equal distance). Without ties it does match, which
   is what pipeline_service shows.
2. `pipeline_drop`. The SAFETY comment at `uring.rs:282` relies on the buffer
   outliving the read. After an error the executor is dropped with other reads
   still with the kernel, and the pool is freed at once.
3. `reader_drop`. The comment at `uring.rs:162` says the ring is drained before
   the pool can be reused or dropped. When `submit_and_wait` submits only part
   of a chunk, or a signal ends its wait, fewer completions than reads are
   there, `read_batch` returns the mismatch as an error (lines 174-180), and the
   reader is dropped with the others still with the kernel. With a reader used
   by one thread this is the only way: a read that fails (181-190) is looked at
   when all of its chunk have completed, and a failed system call (170) has
   submitted nothing.
4. `build_navigable`. `build.rs:38` says pass 1 builds a navigable
   approximation. Between reading its list (line 80) and replacing it (line 84)
   an insertion holds no lock, and links added meanwhile are lost. For that to
   empty the medoid's list it must be the medoid's insertion that is overtaken
   by all the others, for instance alone in the last chunk: rare, and the next
   insertion of any other node links to the medoid again. `NeverOrphaned` shows
   that other nodes keep a neighbour in any case.

An observation that contradicts no document: when threads share a UringReader
against its design note, a call already waiting for the mutex when another
fails may find completions of the failed batch, and return Ok with wrong blocks
or panic on an index. `OneChunkAtATime` is therefore stated up to the first
error, and `OkMeansRead` of the calls that had the mutex before it.

Another: two runs of the bench program that both find the graph or index missing
write it at the same time, in place. And a server that loads its codes while
`train-sq8` writes them anew can join two saves of one shape, say of one base
before and after some of its vectors changed. See IndexFile above.

`nvvec-index/tests/disk.rs:48` says "w=1 disk search must equal the in-memory
search step for step". `StepForStep` shows that nodes are expanded in the same
order and the pool is the same; the answer is the same but for the order, and at
the k-th place the choice, of equal distances, which the pool keeps in order of
arrival and TopK in order of number. The test's random vectors have no ties.

## 6. What is abstracted, and what is not modelled

Blocks are numbers and buffers hold the number of the block read, `Garbage` (in
DiskSearch `Junk`) for anything else. In Pipeline and Server distances are
given, and Build, Sq8 and DiskSearch compute them from points. The bytes of a
node within a block are left out, their order in it is kept. f32 is replaced by
small integers, so NaN and rounding of f32 are not covered, the rounding to a
code is. Opening files
is `Init`. Memory exhaustion and allocation failures are left out.
In Build the sort of equal distances, which the code leaves open, takes the
lower number first; the instances have no ties there.

In IndexFile a crash is of the process: what it wrote stays. A loss of power,
where later blocks may be kept and earlier ones not, is not modelled (the code
never calls fsync). A cached file made from another dataset with the same number
of vectors, or with other build parameters, is not told apart. `vamana` without
`--graph` touches no file and is left out. `sq8` stands for a server routed by
codes; `pipeline` with `--routing sq8` trains its codes in memory.

Not modelled: metrics (`eval.rs`, numbers that are printed), the loaders of
fvecs and ivecs and `bvecs2fvecs` (files read or written whole by one loop; a
conversion killed between two records leaves a smaller dataset, noticed only
when a graph or index of another size is opened), the baselines, measuring and
printing.

## 7. Plan

Done, in this order: IoUring, UringExecutor and AsyncReads with proofs;
BeamSearch, SearchService and Pipeline; UringReader; Server; Build; IndexFile;
DiskLayout with proofs, Vectors, Sq8 and DiskSearch; codes in IndexFile; proofs
about BeamSearch, Server, Pipeline, UringReader, IndexFile and Build; the
refinement of SearchService; the proofs about DiskSearch and Sq8.

What could come next: a weaker `DistancesDiffer` (ties that never meet at the
last place of the pool or of the top would do); an abstract specification of a
call of `DiskIndex::search` under the UringReader instead of PreadReader; and a
model of `bvecs2fvecs` and the loaders, if a document ever says what an
interrupted conversion may leave.
