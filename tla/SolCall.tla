------------------------------ MODULE SolCall ------------------------------
(***************************************************************************)
(* sol_attn, the entry of the vendored attention: which calls it accepts,  *)
(* which kernel runs them, and the work every thread block is given.       *)
(***************************************************************************)
EXTENDS PythonNone, Integers, Sequences, FiniteSets

CONSTANTS
  BlockLen,    \* BLOCK_SIZE
  GroupSize    \* blocks routed together

BlocksIn(tokens) == (tokens + BlockLen - 1) \div BlockLen
GroupsIn(tokens) == (BlocksIn(tokens) + GroupSize - 1) \div GroupSize
Least(a, b) == IF a < b THEN a ELSE b

\* The specialised kernels need CuTe's runtime; every other device since 8.0
\* runs the Triton kernel.
Backend(c) ==
  CASE c.cute /\ c.device = <<9, 0>> -> "sm90"
    [] c.cute /\ c.device \in {<<10, 0>>, <<10, 3>>} -> "sm100"
    [] c.cute /\ c.device \in {<<12, 0>>, <<12, 1>>} -> "sm120"
    [] OTHER -> "triton"

ValidInputs(c) ==
  /\ c.queries > 0 /\ c.keys > 0
  /\ c.sinkTokens \in 0 .. c.keys
  /\ c.sinkStart # None => c.sinkStart \in 0 .. c.keys - c.sinkTokens

\* A split may get no group although their number is checked.
ValidSplits(c) ==
  /\ c.splits \in {1, 2, 4}
  /\ c.splits # 1 => Backend(c) = "sm90" /\ c.splits <= GroupsIn(c.keys)

\* What only the sm120 kernel can do: rectangular calls, a query origin,
\* summaries made before, a key bias, mapped neighbours.
Special(c) ==
  c.queries # c.keys \/ c.origin # 0 \/ c.prepared \/ c.bias \/ c.intervals # None

Accepted(c) ==
  /\ c.device[1] >= 8
  /\ ValidInputs(c) /\ ValidSplits(c)
  /\ Special(c) => Backend(c) = "sm120"
  /\ c.origin >= 0 /\ c.origin % BlockLen = 0
  /\ c.intervals # None => ~c.bias /\ Len(c.intervals) = BlocksIn(c.queries)
  /\ c.prepared => c.threshold = "diag"
  /\ c.bucket # None => Backend(c) = "sm100" /\ c.bucket > 0 /\ c.bucket % BlockLen = 0

\* Rows a call's tensors have room for (_pad_to_bucket).
Capacity(c) ==
  IF c.bucket = None THEN c.keys
  ELSE ((c.keys + c.bucket - 1) \div c.bucket) * c.bucket

\* The blocks that overlap the sink; without a start it is the suffix.
SinkBlockRange(c) ==
  LET start == IF c.sinkStart = None THEN c.keys - c.sinkTokens ELSE c.sinkStart IN
  IF c.sinkTokens = 0 THEN <<BlocksIn(c.keys), BlocksIn(c.keys)>>
  ELSE <<start \div BlockLen, BlocksIn(start + c.sinkTokens)>>

\* "keep every KV block overlapping the corresponding contiguous token range
\* exact for all queries.  Omitting sink_start places the range at the token
\* suffix": the promise in terms of tokens.
Kept(c) ==
  LET start == IF c.sinkStart = None THEN c.keys - c.sinkTokens ELSE c.sinkStart IN
  start .. start + c.sinkTokens - 1

-----------------------------------------------------------------------------
\* The route groups of split s of n: equal shares, the last ones short or empty.
GroupsPerSplit(groups, n) == (groups + n - 1) \div n
SplitBegin(groups, n, s) == Least(s * GroupsPerSplit(groups, n), groups)
SplitEnd(groups, n, s) == Least((s + 1) * GroupsPerSplit(groups, n), groups)

\* The work of the thread block for a query tile and a split.  The sm100
\* kernel joins two route tiles and takes blocks in pairs.
Job(c, tile, split) ==
  [q |-> c.origin \div BlockLen + tile,
   keep |-> Kept(c),
   sink |-> SinkBlockRange(c),
   mapped |-> IF c.intervals = None THEN <<0, 0>> ELSE c.intervals[tile + 1],
   first |-> SplitBegin(GroupsIn(c.keys), c.splits, split),
   last |-> SplitEnd(GroupsIn(c.keys), c.splits, split),
   join |-> IF Backend(c) = "sm100" THEN 2 ELSE 1,
   pair |-> IF Backend(c) = "sm100" THEN 2 ELSE 1,
   partials |-> <<>>]

Jobs(c) == {Job(c, tile, split) : tile \in 0 .. BlocksIn(c.queries) - 1, split \in 0 .. c.splits - 1}
=============================================================================
