---------------------------- MODULE PointerGrids ----------------------------
(***************************************************************************)
(* triton_ref/preprocess.py: the grids of devices without TMA.  Tensors    *)
(* are loaded through pointers under masks, the summaries are padded with  *)
(* zeros to whole groups, and one length stands for queries and keys.      *)
(***************************************************************************)
EXTENDS Summaries

PaddedBlocks == GroupsIn(call.keys) * GroupSize

MaskedRows(b, n) == {t \in Block(b) : t < n}

AllocateZeroed == Allocate(PaddedBlocks, [kc |-> Zero, vc |-> {}], QueryBlocks)

ReduceMasked(b) ==
  SumBlock(b, Centroid(MaskedRows(b, call.keys), b, call.keys), MaskedRows(b, call.keys))

ReducedMasked ==
  /\ Reduced /\ step' = AfterReduction
  /\ UNCHANGED <<call, tail, kc, vc, stats, bar, threshold>>

MaskedStats == Measure("stats", "diag", Walked(QueryBlocks, QueryBlocks))

MaskedDiagThreshold(b) ==
  SetThresholds("diag",
    [t \in {b} |-> <<Centroid(MaskedRows(t, call.queries), t, call.queries), stats>>])

MaskedSecondMoment == Measure("moments", "pool", 0 .. QueryBlocks - 1)

PoolMasked(b) == StoreCentroid(b, Centroid(MaskedRows(b, call.queries), b, call.queries))

MaskedExactThresholds(b) ==
  /\ b % GroupSize = 0
  /\ SetThresholds("fused", [t \in {g \in GroupFrom(b) : g < QueryBlocks} |-> <<bar[t], stats>>])

PointerPrograms ==
  \/ ReducedMasked \/ MaskedStats \/ MaskedSecondMoment \/ Pooled
  \/ \E b \in Unsummed : ReduceMasked(b)
  \/ \E b \in Unset : MaskedDiagThreshold(b) \/ MaskedExactThresholds(b)
  \/ \E b \in Unpooled : PoolMasked(b)
=============================================================================
