----------------------------- MODULE DiskLayout -----------------------------
(***************************************************************************)
(* Where the nodes are in a disk index (crates/nvvec-index/src/disk.rs): a *)
(* header block, number 0, and data blocks of Npb nodes each, in order, of *)
(* which the last may be partly filled.  The writer and the two searches   *)
(* each have this arithmetic to themselves, and must agree on it.          *)
(***************************************************************************)
EXTENDS Integers

CONSTANT Npb   \* nodes_per_block

ASSUME LayoutAssumption == Npb \in Nat \ {0}

\* Variants: blocks counted without rounding up; the last block filled to its
\* end.
DataBlocksFloor(n) == n \div Npb
NodesUncapped(n, i) == [s \in 1 .. Npb |-> (i - 1) * Npb + s - 1]

\* DiskIndexMeta::data_blocks, n.div_ceil(nodes_per_block).
DataBlocks(n) == (n + Npb - 1) \div Npb

\* The nodes the writer puts in the i-th data block, npb.min(n - first).
NodesOf(n, i) ==
  [s \in 1 .. (IF i * Npb <= n THEN Npb ELSE n - (i - 1) * Npb) |-> (i - 1) * Npb + s - 1]

\* DiskIndex::locate, and its twin in pipeline.rs.
Locate(node) == [block |-> 1 + node \div Npb, slot |-> node % Npb]

=============================================================================
