----------------------------- MODULE Summaries -----------------------------
(***************************************************************************)
(* What a call computes on its stream before the attention kernel: the     *)
(* summaries of the key blocks, their mean and variance, and the threshold *)
(* of every query tile.  The grids run one after the other, the programs   *)
(* of a grid in any order; DescriptorGrids and PointerGrids are the two    *)
(* implementations.                                                        *)
(***************************************************************************)
EXTENDS SolCall

CONSTANTS
  Calls,   \* the calls, of which a behaviour makes one
  Junk     \* what memory holds before it is written

VARIABLES
  call,
  step,        \* the grid that runs next
  tail,        \* what the rows between the call's length and its capacity hold
  kc, vc,      \* the summaries: the tokens summed and the divisor, the tokens
  stats,       \* the summaries under a mean and a second moment, their number
  bar,         \* the query tiles' centroids, stored for the exact variance
  threshold    \* what every query tile's threshold is made of

preparing == <<call, step, tail, kc, vc, stats, bar, threshold>>

KeyBlocks == BlocksIn(call.keys)
QueryBlocks == BlocksIn(call.queries)

Zero == [of |-> {}, by |-> 1]
Block(b) == b * BlockLen .. (b + 1) * BlockLen - 1
GroupFrom(b) == b .. b + GroupSize - 1

\* What a program sums over a block of a tensor with n rows, and the mean.
Centroid(rows, b, n) == [of |-> rows, by |-> Least(BlockLen, n - b * BlockLen)]

\* The blocks below "valid" that a program meets when it walks over n blocks.
Walked(n, valid) ==
  {b \in UNION {GroupFrom(g * GroupSize) : g \in 0 .. (n - 1) \div GroupSize} : b < valid}

Moments(blocks) == [of |-> [b \in blocks |-> kc[b]], by |-> Cardinality(blocks)]

AfterReduction == IF call.threshold = "exact" THEN "moments" ELSE "stats"

Allocate(summaries, contents, tiles) ==
  /\ kc = [b \in 0 .. summaries - 1 |-> contents.kc]
  /\ vc = [b \in 0 .. summaries - 1 |-> contents.vc]
  /\ stats = Junk
  /\ bar = [b \in 0 .. tiles - 1 |-> Junk]
  /\ threshold = [b \in 0 .. tiles - 1 |-> Junk]

SumBlock(b, keys, values) ==
  /\ step = "reduce" /\ b < KeyBlocks
  /\ kc' = [kc EXCEPT ![b] = keys]
  /\ vc' = [vc EXCEPT ![b] = values]
  /\ UNCHANGED <<call, step, tail, stats, bar, threshold>>

Reduced == step = "reduce" /\ \A b \in 0 .. KeyBlocks - 1 : kc[b] \notin {Junk, Zero}

Measure(from, to, blocks) ==
  /\ step = from /\ step' = to
  /\ stats' = Moments(blocks)
  /\ UNCHANGED <<call, tail, kc, vc, bar, threshold>>

SetThresholds(from, values) ==
  /\ step = from
  /\ threshold' = [b \in DOMAIN threshold |-> IF b \in DOMAIN values THEN values[b] ELSE threshold[b]]
  /\ UNCHANGED <<call, step, tail, kc, vc, stats, bar>>

StoreCentroid(b, centroid) ==
  /\ step = "pool"
  /\ bar' = [bar EXCEPT ![b] = centroid]
  /\ UNCHANGED <<call, step, tail, kc, vc, stats, threshold>>

Pooled ==
  /\ step = "pool" /\ \A b \in 0 .. QueryBlocks - 1 : bar[b] # Junk
  /\ step' = "fused"
  /\ UNCHANGED <<call, tail, kc, vc, stats, bar, threshold>>

Unsummed == {b \in 0 .. KeyBlocks - 1 : kc[b] \in {Junk, Zero}}
Unpooled == {b \in 0 .. QueryBlocks - 1 : bar[b] = Junk}
Unset == {b \in 0 .. QueryBlocks - 1 : threshold[b] = Junk}
=============================================================================
