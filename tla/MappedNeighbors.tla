-------------------------- MODULE MappedNeighbors --------------------------
(***************************************************************************)
(* VDN's query-position maps and the block intervals Sol derives from      *)
(* them.  A wire map says at which physical key row each query row of a    *)
(* local call lies, as affine runs; the sparse kernel takes, for every     *)
(* query tile, one interval of key blocks it must treat exactly.           *)
(***************************************************************************)
EXTENDS Integers, Sequences, SequencesExt

CONSTANTS
  BlockSize,         \* rows of a query tile and of a key block
  MaxIntervalWidth,  \* blocks an interval may span
  None,              \* no descriptor: the ordinary selector applies
  Unavailable        \* MappingUnavailable

ASSUME BlockSizeAssumption == BlockSize \in Nat \ {0}
ASSUME DescriptorAssumption == None # Unavailable

\* A wire map: runs of query rows, each starting at a position.
Wires == [kv : Nat, q : Nat, sink : Nat, runs : Seq([begin : Nat, end : Nat, kv : Nat])]

CeilDiv(n) == (n + BlockSize - 1) \div BlockSize
QTiles(w) == 0 .. CeilDiv(w.q) - 1
TileRows(w, t) == t * BlockSize .. Min({w.q, (t + 1) * BlockSize}) - 1
Position(r, row) == r.kv + row - r.begin

\* The runs cover the query rows in order and their positions increase.
ValidWire(w, q, kv, sink) ==
  /\ <<w.q, w.kv, w.sink>> = <<q, kv, sink>>
  /\ w.runs # <<>>
  /\ w.runs[1].begin = 0 /\ Last(w.runs).end = q
  /\ \A i \in DOMAIN w.runs :
       LET r == w.runs[i]
       IN /\ r.begin < r.end /\ Position(r, r.end) <= kv
          /\ i > 1 => LET p == w.runs[i - 1]
                      IN r.begin = p.end /\ r.kv > Position(p, p.end - 1)

IdentityAligned(w) == w.q = w.kv /\ \A i \in DOMAIN w.runs : w.runs[i].kv = w.runs[i].begin

\* The blocks of positions first to last and their neighbours.
BlockRange(w, first, last) ==
  [start |-> Max({0, first \div BlockSize - 1}),
   end |-> Min({CeilDiv(w.kv), last \div BlockSize + 2})]

\* The part of a run that lies in a tile, and its block range.
First(w, t, i) == Max({t * BlockSize, w.runs[i].begin})
End(w, t, i) == Min({w.q, (t + 1) * BlockSize, w.runs[i].end})
Met(w, t) == {i \in DOMAIN w.runs : First(w, t, i) < End(w, t, i)}
SelectedRange(w, t, i) ==
  BlockRange(w, Position(w.runs[i], First(w, t, i)), Position(w.runs[i], End(w, t, i) - 1))

\* The ranges come sorted because positions increase: they merge into one
\* interval if each starts before or where the last one ends.
Merging(w, t) ==
  \A i \in Met(w, t) : i + 1 \in Met(w, t) =>
    SelectedRange(w, t, i + 1).start <= SelectedRange(w, t, i).end

MergedInterval(w, t) ==
  [start |-> SelectedRange(w, t, Min(Met(w, t))).start,
   end |-> SelectedRange(w, t, Max(Met(w, t))).end]

Accepted(w, t) ==
  /\ Met(w, t) # {} /\ Merging(w, t)
  /\ MergedInterval(w, t).end - MergedInterval(w, t).start \in 1 .. MaxIntervalWidth

CompileDescriptor(w) ==
  CASE IdentityAligned(w) -> None
    [] ~IdentityAligned(w) /\ \A t \in QTiles(w) : Accepted(w, t) ->
         [t \in QTiles(w) |-> MergedInterval(w, t)]
    [] OTHER -> Unavailable

-----------------------------------------------------------------------------
\* What the intervals stand for, row by row: the blocks at most one block
\* away from a block that holds the position of one of the tile's rows.
NeighbourBlocks(w, t) ==
  {b \in 0 .. CeilDiv(w.kv) - 1 :
     \E row \in TileRows(w, t), i \in DOMAIN w.runs :
       /\ row \in w.runs[i].begin .. w.runs[i].end - 1
       /\ b - Position(w.runs[i], row) \div BlockSize \in -1 .. 1}
=============================================================================
