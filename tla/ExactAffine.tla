---------------------------- MODULE ExactAffine ----------------------------
(***************************************************************************)
(* The modulation of an exactly fused block (affine in exact.py): segment  *)
(* by segment a kernel scales and shifts the hidden rows in place.  The    *)
(* first rows of a segment are compared with native PyTorch, once for each *)
(* layout the kernel meets.                                                *)
(***************************************************************************)
EXTENDS BlockState

CONSTANTS
  ProbeRows,   \* rows of a segment that are compared
  Faulty       \* the layouts for which the kernel computes something else

ASSUME AffineAssumption == ProbeRows \in Nat \ {0}

VARIABLES
  hidden,      \* what has been done to each hidden row
  next,        \* the segment that is next
  affine       \* Request.exact_verified: the layouts that passed

affineVars == <<hidden, next, affine>>

Modulation == {"affine1", "affine2"}
Segment == block.segments[next]
SegmentRows == Segment.first .. Segment.last - 1

\* The layout of the hidden rows alone.
AffineStride == <<block.stride>>

\* The physical layout the kernel is given.
AffineLayout == <<block.stride, Segment.indexed>>

\* The segments before this one end here.
Covered == IF next = 1 THEN 0 ELSE block.segments[next - 1].last

Native(r) == Append(hidden[r], <<phase, r>>)
Kernel(r) ==
  Append(hidden[r], IF <<block.stride, Segment.indexed>> \in Faulty THEN <<"wrong", r>> ELSE <<phase, r>>)

StartAffine ==
  /\ hidden' = [r \in Rows |-> <<>>]
  /\ next' = 1

SegmentFits ==
  /\ Segment.first = Covered
  /\ Segment.first <= Segment.last /\ Segment.last <= block.rows

\* The rows to compare are copied before the kernel overwrites them.
AffineGate ==
  \/ AffineLayout \in affine
  \/ \A r \in SegmentRows : r < Segment.first + ProbeRows => Kernel(r) = Native(r)

Affine ==
  /\ phase \in Modulation /\ next <= Len(block.segments)
  /\ SegmentFits /\ AffineGate
  /\ hidden' = [r \in Rows |-> IF r \in SegmentRows THEN Kernel(r) ELSE hidden[r]]
  /\ affine' = IF SegmentRows = {} THEN affine ELSE affine \union {AffineLayout}
  /\ next' = next + 1
  /\ UNCHANGED blockVars

Modulates == phase \in Modulation /\ next > Len(block.segments) /\ Covered = block.rows

\* The segments do not cover the rows one after the other, or the gate fails.
AffineFails ==
  /\ phase \in Modulation
  /\ IF next <= Len(block.segments) THEN ~(SegmentFits /\ AffineGate) ELSE Covered # block.rows
  /\ phase' = "failed"
  /\ UNCHANGED <<block, plan, traceback, calls, affineVars>>
=============================================================================
