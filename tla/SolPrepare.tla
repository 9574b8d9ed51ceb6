----------------------------- MODULE SolPrepare -----------------------------
(***************************************************************************)
(* A call of sol_attn up to the start of its attention kernel: padding to  *)
(* a compile bucket, then the grids its backend prepares with.             *)
(***************************************************************************)
EXTENDS DescriptorGrids, PointerGrids

\* Triton uses TMA where the device has it.
Descriptors == Backend(call) # "triton" \/ call.device[1] >= 9

Init ==
  /\ call \in {c \in Calls : Accepted(c)}
  /\ step = IF call.bucket = None THEN "reduce" ELSE "pad"
  /\ tail = {}
  /\ IF Descriptors THEN AllocateUninitialised ELSE AllocateZeroed

\* _pad_to_bucket: the rows are copied to larger tensors and the tail cleared.
Pad ==
  /\ step = "pad" /\ step' = "clearTail"
  /\ tail' = {Junk}
  /\ UNCHANGED <<call, kc, vc, stats, bar, threshold>>

ClearTail ==
  /\ step = "clearTail" /\ step' = "reduce"
  /\ tail' = {}
  /\ UNCHANGED <<call, kc, vc, stats, bar, threshold>>

Prepares == IF Descriptors THEN DescriptorPrograms ELSE PointerPrograms

\* The attention kernel starts; the summaries do not change any more.
Launch ==
  /\ step \in {"diag", "fused"} /\ Unset = {}
  /\ step' = "launched"
  /\ UNCHANGED <<call, tail, kc, vc, stats, bar, threshold>>

\* The model forgets what it no longer needs.
Run ==
  /\ step = "launched" /\ step' = "running"
  /\ call' = None
  /\ tail' = {} /\ kc' = <<>> /\ vc' = <<>> /\ stats' = Junk /\ bar' = <<>> /\ threshold' = <<>>

Next == Pad \/ ClearTail \/ Launch \/ Run \/ (step # "launched" /\ Prepares)

Spec == Init /\ [][Next]_preparing

\* Sizes are positive, and the lengths of a call are integers.
Numbered ==
  /\ {BlockLen, GroupSize} \subseteq Nat \ {0}
  /\ \A c \in Calls : {c.queries, c.keys} \subseteq Int /\ c.bucket \in Int \union {None}

-----------------------------------------------------------------------------
\* When the attention kernel starts, every summary it loads, in whole groups,
\* is the mean of exactly the block's own keys and the sum of its values, or
\* zero beyond the last block, and every query tile's threshold is made of its
\* own rows and of all key blocks (prepare, _pad_to_bucket; "Leaving them
\* uninitialized permits NaNs to enter the score tile").
SummariesPrepared ==
  step = "launched" =>
    LET keys(b) == {t \in 0 .. call.keys - 1 : t \div BlockLen = b}
        own(n, b) == {t \in 0 .. n - 1 : t \div BlockLen = b}
        mean(S) == [of |-> S, by |-> Cardinality(S)]
        blocks == 0 .. KeyBlocks - 1
        loaded == 0 .. GroupsIn(call.keys) * GroupSize - 1
    IN /\ ~Descriptors => loaded \subseteq DOMAIN kc
       /\ \A b \in loaded \intersect DOMAIN kc :
            /\ kc[b] = IF b \in blocks THEN mean(keys(b)) ELSE Zero
            /\ vc[b] = keys(b)
       /\ \A b \in 0 .. QueryBlocks - 1 :
            threshold[b] = <<mean(own(call.queries, b)),
                             [of |-> [x \in blocks |-> mean(keys(x))], by |-> Cardinality(blocks)]>>
=============================================================================
