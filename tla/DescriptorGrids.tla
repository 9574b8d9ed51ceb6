-------------------------- MODULE DescriptorGrids --------------------------
(***************************************************************************)
(* preprocess.py: the grids of the CuTe backends and of Triton on devices  *)
(* with TMA.  Tensors are loaded through descriptors in whole blocks, with *)
(* zeros beyond the tensor, and may have more room than the call's rows.   *)
(***************************************************************************)
EXTENDS Summaries

\* The blocks the tensors have room for; queries and keys share a bucket.
SummaryRoom == BlocksIn(Capacity(call))
TileRoom == IF call.bucket = None THEN QueryBlocks ELSE SummaryRoom

\* Between a tensor's rows and its capacity lies the tail.
LoadBlock(b, n) ==
  {t \in Block(b) : t < n} \union
  (IF call.bucket # None /\ Least((b + 1) * BlockLen, Capacity(call)) > n THEN tail ELSE {})

AllocateUninitialised ==
  Allocate(SummaryRoom, [kc |-> Junk, vc |-> Junk], TileRoom)

ReduceKV(b) ==
  SumBlock(b, Centroid(LoadBlock(b, call.keys), b, call.keys), LoadBlock(b, call.keys))

\* The summaries of a bucket's tail: the sm100 kernel loads whole groups.
LeaveBucketTail ==
  /\ Reduced /\ step' = AfterReduction
  /\ UNCHANGED <<call, tail, kc, vc, stats, bar, threshold>>

ClearBucketTail ==
  /\ Reduced /\ step' = AfterReduction
  /\ kc' = [b \in DOMAIN kc |-> IF b < KeyBlocks THEN kc[b] ELSE Zero]
  /\ vc' = [b \in DOMAIN vc |-> IF b < KeyBlocks THEN vc[b] ELSE {}]
  /\ UNCHANGED <<call, tail, stats, bar, threshold>>

\* One program walks over the room and masks what is not a key block.
KcStats == Measure("stats", "diag", Walked(SummaryRoom, KeyBlocks))

DiagThreshold(b) ==
  SetThresholds("diag",
    [t \in {b} |-> <<Centroid(LoadBlock(t, call.queries), t, call.queries), stats>>])

\* PyTorch computes the mean and the second moment of the key blocks.
SecondMoment == Measure("moments", "pool", 0 .. KeyBlocks - 1)

PoolQuery(b) == StoreCentroid(b, Centroid(LoadBlock(b, call.queries), b, call.queries))

\* A program computes the thresholds of as many tiles as there is room for:
\* those without queries from centroids nobody wrote.
ExactThresholds(b) ==
  /\ b % GroupSize = 0
  /\ SetThresholds("fused", [t \in GroupFrom(b) \intersect DOMAIN bar |-> <<bar[t], stats>>])

DescriptorPrograms ==
  \/ ClearBucketTail \/ KcStats \/ SecondMoment \/ Pooled
  \/ \E b \in Unsummed : ReduceKV(b)
  \/ \E b \in Unset : DiagThreshold(b) \/ ExactThresholds(b)
  \/ \E b \in Unpooled : PoolQuery(b)
=============================================================================
