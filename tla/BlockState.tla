----------------------------- MODULE BlockState -----------------------------
(***************************************************************************)
(* A block of the model as BlockPatch calls it, in one sampling request:   *)
(* what is known of the call before it runs, and how far it has come.      *)
(***************************************************************************)
EXTENDS SolCall

CONSTANTS
  Blocks,         \* the block calls of the model (see BlockCall)
  ChunkSize,      \* Config.qkv_chunk_size
  StreamFactor,   \* a streamed sequence is longer than so many chunks
  MaxBlocks       \* bound: block calls in the request

\* rows, prefix: the packed sequence and the rows before its video tail.
\* vdn: VDN owns the attention.  warmup: the evaluation or layer is dense.
\* obstacles: what keeps the block from being streamed or fused.
\* stride: the layout of the hidden rows; segments: their modulation.
BlockCall ==
  [rows : Nat \ {0}, prefix : Nat, vdn : BOOLEAN, warmup : BOOLEAN, obstacles : SUBSET STRING,
   stride : Nat, segments : Seq([first : Nat, last : Nat, indexed : BOOLEAN])]

ASSUME ChunkAligned ==
  /\ BlockLen \in Nat \ {0} /\ ChunkSize \in Nat \ {0} /\ ChunkSize % BlockLen = 0
  /\ MaxBlocks \in Nat
ASSUME CallsDescribed == Blocks \subseteq BlockCall

VARIABLES
  block,       \* the block call in progress or the last one
  phase,       \* where it is
  plan,        \* who computes its attention, and whether it is fused
  traceback,   \* of a raised exception: the names whose tensors its frames hold
  calls        \* bound: block calls made

blockVars == <<block, phase, plan, traceback, calls>>

Rows == 0 .. block.rows - 1
FullChunk(start) == start .. start + ChunkSize - 1
Chunk(start) == start .. Least(start + ChunkSize, block.rows) - 1

\* prefix_length: the packed spans end in one video tail after a prefix.
Representable(b) == "layout" \notin b.obstacles /\ 0 < b.prefix /\ b.prefix < b.rows

Goto(p) == phase' = p /\ UNCHANGED <<block, plan, traceback, calls>>
=============================================================================
