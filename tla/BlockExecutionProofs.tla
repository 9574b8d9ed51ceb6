------------------------ MODULE BlockExecutionProofs ------------------------
(***************************************************************************)
(* Theorems about BlockExecution, for any block calls, chunk sizes and     *)
(* faulty layouts: streaming changes no row's attention, no result of a    *)
(* kernel is used without its comparison, and no workspace outlives its    *)
(* invocation.                                                             *)
(***************************************************************************)
EXTENDS BlockExecution, SequenceTheorems, FiniteSetTheorems, TLAPS

(***************************************************************************)
(* The inductive invariant: what the invocation holds, by where it is.     *)
(***************************************************************************)
Resting == {"idle", "affine1", "attention", "out", "affine2", "returned"}
Asking == {"attend", "load", "prepare", "gate", "run", "copyOut"}

\* The rows before the current chunk.
Before == 0 .. cursor - 1

\* All of K and V.
Whole == [k |-> Rows, v |-> Rows]

\* A chunk starts at a tile of queries.
CursorFits == cursor \in Rows /\ \E tile \in 0 .. cursor : cursor = tile * BlockLen

\* At rest there is no workspace.
Rests == phase \in Resting =>
  carriers = NoCarriers /\ views = NoViews /\ cursor = 0 /\ stream = None

\* While K and V, or VDN's carriers, are projected, the rows of the chunks so
\* far are written.
Loads ==
  /\ phase \in {"projectKV", "copyKV"} =>
       plan.attention = "streamed" /\ carriers = [q |-> {}, k |-> Before, v |-> Before]
  /\ phase \in {"projectVDN", "copyVDN"} =>
       plan.attention = "vdn" /\ carriers = [q |-> Before, k |-> Before, v |-> Before]
  /\ phase = "vdn" => plan.attention = "vdn" /\ carriers = [q |-> Rows, k |-> Rows, v |-> Rows]
  /\ phase = "queries" => plan.attention = "streamed"
  /\ phase \in {"projectKV", "copyKV", "projectVDN", "copyVDN", "vdn", "queries"} => stream = None
  /\ phase \in {"vdn", "queries"} => cursor = 0

\* Queries attend to all of K and V, a stream from where their chunk begins.
Attends ==
  /\ phase \in Asking \cup {"queries", "projectQ", "release"} =>
       carriers = [q |-> {}, k |-> Rows, v |-> Rows]
  /\ phase \in Asking \cup {"projectQ", "release"} =>
       /\ stream \in {None} \cup [start : Rows, prepared : {None, Whole}]
       /\ plan.attention = IF stream = None THEN "native" ELSE "streamed"
       /\ stream = None => cursor = 0 /\ phase # "projectQ"
  /\ phase = "release" => cursor = 0
  /\ phase \in Asking /\ stream # None => stream.start = cursor
  /\ phase \in {"gate", "run"} /\ stream # None => stream.prepared = Whole

\* A projected chunk is bound to the names that are dropped before the next.
ViewsFit ==
  /\ views \in [Names -> {None, cursor}]
  /\ \A n \in Names :
       views[n] # None =>
         \/ phase = "copyKV" /\ n \in {"qc", "kc", "vc"}
         \/ phase = "copyVDN" /\ n = "packed"
         \/ phase \in Asking /\ n = "q"
         \/ phase \in {"raised", "failed"}

\* Whether this block's attention is sparse: as long as the kernel was not
\* needed, no row depends on it.
Sparse == ~block.warmup /\ Representable(block) /\ kernel = "ready"

KernelKnown ==
  /\ phase \in {"prepare", "gate", "run"} => Sparse
  /\ phase = "load" => ~block.warmup /\ Representable(block)
  /\ (phase \in Asking \cup {"projectQ"} /\ cursor # 0) \/ phase = "copyOut" =>
       block.warmup \/ ~Representable(block) \/ kernel # "none"

\* What one call for the whole sequence computes, densely or sparsely.
Expected == [sparse \in BOOLEAN |-> [r \in Rows |-> Unstreamed(sparse, r)]]

\* The rows computed so far are those of one call for the whole sequence.
OutputFits ==
  /\ phase \in Asking \cup {"projectQ"} => output = [r \in Before |-> Expected[Sparse][r]]
  /\ phase = "release" => output = Expected[Sparse]
  /\ phase = "out" => (output = <<>> /\ plan.attention # "streamed") \/ output = Expected[Sparse]
  /\ phase \notin Asking \cup {"projectQ", "release", "out", "raised"} => output = <<>>
  /\ phase = "copyOut" => result = [r \in QueryRows |-> Expected[Sparse][r]]
  /\ phase \notin {"copyOut", "raised"} => result = <<>>

\* A row is in one of the parts, or in none.
Once(parts, r) == \E i \in DOMAIN parts : \A j \in DOMAIN parts : r \in parts[j] <=> j = i
Never(parts, r) == \A j \in DOMAIN parts : r \notin parts[j]

\* The gate has counted every one of these rows once, and no other.
Counted(m, rows) ==
  /\ m \in [elements : Nat, tiles : Seq(SUBSET Int), fused : Seq(SUBSET Int)]
  /\ m.elements = Cardinality(rows)
  /\ \A i \in DOMAIN m.tiles : m.tiles[i] \subseteq rows
  /\ \A i \in DOMAIN m.fused : m.fused[i] \subseteq rows
  /\ \A r \in rows :
         (Once(m.tiles, r) /\ Never(m.fused, r)) \/ (Never(m.tiles, r) /\ Once(m.fused, r))

Gated ==
  /\ phase = "gate" =>
       /\ gate.next \in Nat
       /\ Counted(gate.metrics, {r \in QueryRows : r - Origin < gate.next})
  /\ phase \notin {"gate", "raised"} => gate = None

\* What is remembered as verified was compared, row by row.
Qualified ==
  /\ verified \subseteq Nat \X Nat \X Nat
  /\ qualified \subseteq Nat \X Nat \X Nat
  /\ \A key \in verified : \A r \in key[3] .. key[3] + key[1] - 1 :
       <<key[1], key[2], r>> \in qualified
  /\ phase = "run" \/ (phase = "copyOut" /\ Sparse) => GateKey \in verified

\* After an error nothing is known but what may be held.
Raised == phase \in {"raised", "failed"} =>
  /\ carriers \in [{"q", "k", "v"} -> SUBSET Rows]
  /\ plan.attention # "vdn" => carriers.q = {}
  /\ stream # None => stream.start \in Rows
  /\ DOMAIN result \subseteq Rows /\ DOMAIN output \subseteq Rows

\* Only an exception has a traceback, and when its frames are left nothing is
\* alive but what it holds.
Retained ==
  /\ phase \notin {"raised", "failed"} => traceback = {}
  /\ traceback \subseteq Names \cup {"q", "k", "v"}
  /\ phase = "failed" =>
       /\ stream = None
       /\ \A f \in {"q", "k", "v"} : carriers[f] # {} => f \in traceback
       /\ \A n \in Names : views[n] # None => n \in traceback

\* The rows of the segments before this one are modulated, and no other.
HiddenFits == phase \in Modulation =>
  /\ next \in 1 .. Len(block.segments) + 1
  /\ Covered \in 0 .. block.rows
  /\ hidden = [r \in Rows |-> IF r < Covered THEN <<<<phase, r>>>> ELSE <<>>]

Typed ==
  /\ block \in BlockCall /\ phase \in Phases /\ calls \in 0 .. MaxBlocks
  /\ plan \in [attention : {"native", "streamed", "vdn"}, fused : BOOLEAN]
  /\ kernel \in {"none", "ready", "failed"} /\ native \in {"unknown", "audited", "changed"}
  /\ affine \cap Faulty = {}

\* The workspace, at every place of the invocation.
Held == CursorFits /\ Rests /\ Loads /\ Attends /\ ViewsFit

IInv ==
  /\ Typed /\ Held /\ Retained /\ Raised
  /\ KernelKnown /\ OutputFits /\ Gated /\ Qualified /\ HiddenFits

-----------------------------------------------------------------------------
(***************************************************************************)
(* Rows and tiles.                                                         *)
(***************************************************************************)
\* A quotient is the only number whose multiples enclose the dividend.
LEMMA DivUnique ==
  ASSUME NEW d \in Nat \ {0}, NEW x \in Int, NEW n \in Int, n * d <= x, x < n * d + d
  PROVE  x \div d = n
<1> DEFINE q == x \div d
<1>1. q \in Int /\ q * d <= x /\ x < q * d + d
  BY Z3
<1>2. ASSUME q < n PROVE FALSE
  <2>1. q + 1 <= n
    BY <1>1, <1>2
  <2>2. (q + 1) * d <= n * d
    BY <1>1, <2>1, Z3
  <2>3. (q + 1) * d = q * d + d
    BY <1>1, Z3
  <2> QED BY <1>1, <2>2, <2>3
<1>3. ASSUME n < q PROVE FALSE
  <2>1. n + 1 <= q
    BY <1>1, <1>3
  <2>2. (n + 1) * d <= q * d
    BY <1>1, <2>1, Z3
  <2>3. (n + 1) * d = n * d + d
    BY Z3
  <2> QED BY <1>1, <2>2, <2>3
<1> QED BY <1>1, <1>2, <1>3

\* Moving the rows by whole tiles moves their tiles.
LEMMA DivShift ==
  ASSUME NEW d \in Nat \ {0}, NEW k \in Int, NEW x \in Int
  PROVE  (k * d + x) \div d = k + x \div d
<1> DEFINE q == x \div d
<1>1. q \in Int /\ q * d <= x /\ x < q * d + d
  BY Z3
<1>2. (k + q) * d = k * d + q * d
  BY <1>1, Z3
<1>3. k * d \in Int /\ q * d \in Int /\ (k + q) * d \in Int
  BY <1>1
<1>4. (k + q) * d <= k * d + x /\ k * d + x < (k + q) * d + d
  BY <1>1, <1>2, <1>3
<1>5. k + q \in Int /\ k * d + x \in Int
  BY <1>1, <1>3
<1> QED BY <1>4, <1>5, DivUnique

\* A row is in one of the first tiles if and only if it is before their end.
LEMMA DivBelow ==
  ASSUME NEW d \in Nat \ {0}, NEW k \in Int, NEW x \in Int
  PROVE  x \div d < k <=> x < k * d
<1> DEFINE q == x \div d
<1>1. q \in Int /\ q * d <= x /\ x < q * d + d
  BY Z3
<1>2. k * d \in Int /\ q * d \in Int
  BY <1>1
<1>3. ASSUME q < k PROVE x < k * d
  <2>1. (q + 1) * d <= k * d
    BY <1>1, <1>3, Z3
  <2>2. (q + 1) * d = q * d + d
    BY <1>1, Z3
  <2> QED BY <1>1, <1>2, <2>1, <2>2
<1>4. ASSUME k <= q PROVE k * d <= x
  <2>1. k * d <= q * d
    BY <1>1, <1>4, Z3
  <2> QED BY <1>1, <1>2, <2>1
<1> QED BY <1>1, <1>2, <1>3, <1>4

\* A number that a divisor divides is a multiple of it.
LEMMA DivExact ==
  ASSUME NEW d \in Nat \ {0}, NEW x \in Nat, x % d = 0
  PROVE  x \div d \in Nat /\ x = (x \div d) * d
<1>1. x \div d \in Nat
  BY Z3
<1>2. d * (x \div d) = x
  BY Z3
<1>3. d * (x \div d) = (x \div d) * d
  BY <1>1, Z3
<1> QED BY <1>1, <1>2, <1>3

\* Tiles added up.
LEMMA Distributes ==
  ASSUME NEW d \in Int, NEW j \in Int, NEW k \in Int
  PROVE  (j + k) * d = j * d + k * d
BY Z3

\* The first of consecutive rows.
LEMMA FirstRow ==
  ASSUME NEW a \in Int, NEW b \in Int, a <= b
  PROVE  (CHOOSE x \in a .. b : \A y \in a .. b : x <= y) = a
<1>1. a \in a .. b /\ \A y \in a .. b : a <= y
  OBVIOUS
<1>2. \A x \in a .. b : (\A y \in a .. b : x <= y) => x = a
  BY <1>1
<1> QED BY <1>1, <1>2

\* The sizes of a block call.
LEMMA Sizes ==
  ASSUME block \in BlockCall
  PROVE  /\ block.rows \in Nat \ {0} /\ block.prefix \in Nat
         /\ Rows = 0 .. block.rows - 1 /\ 0 \in Rows /\ Rows \subseteq Nat
         /\ IsFiniteSet(Rows) /\ Cardinality(Rows) = block.rows
<1>1. block.rows \in Nat \ {0} /\ block.prefix \in Nat
  BY DEF BlockCall
<1>2. Rows = 0 .. block.rows - 1
  BY DEF Rows
<1>3. IsFiniteSet(Rows) /\ Cardinality(Rows) = block.rows
  BY <1>1, <1>2, FS_Interval
<1> QED BY <1>1, <1>2, <1>3

\* The rows a call asks for, from its origin.
Asked == IF stream = None THEN block.rows ELSE Least(ChunkSize, block.rows - cursor)

LEMMA QueriesFit ==
  ASSUME block \in BlockCall, CursorFits, stream = None => cursor = 0,
         stream # None => stream.start = cursor
  PROVE  /\ Origin = cursor /\ cursor \in Nat /\ cursor < block.rows
         /\ Asked \in Nat \ {0} /\ cursor + Asked <= block.rows
         /\ QueryRows = cursor .. cursor + Asked - 1 /\ cursor \in QueryRows
         /\ QueryRows \subseteq Rows
         /\ IsFiniteSet(QueryRows) /\ Cardinality(QueryRows) = Asked
<1>1. block.rows \in Nat \ {0} /\ cursor \in Nat /\ cursor < block.rows
  BY Sizes DEF CursorFits
<1>2. ChunkSize \in Nat \ {0}
  BY ChunkAligned
<1>3. Origin = cursor
  BY DEF Origin
<1>4. Asked \in Nat \ {0} /\ cursor + Asked <= block.rows
  BY <1>1, <1>2 DEF Asked, Least
<1>5. QueryRows = cursor .. cursor + Asked - 1
  BY <1>1, <1>2 DEF QueryRows, Rows, Chunk, Asked, Least
<1>6. IsFiniteSet(QueryRows) /\ Cardinality(QueryRows) = Asked
  BY <1>1, <1>4, <1>5, FS_Interval
<1>7. QueryRows \subseteq Rows /\ cursor \in QueryRows
  BY <1>1, <1>4, <1>5 DEF Rows
<1> QED BY <1>1, <1>3, <1>4, <1>5, <1>6, <1>7

\* The work for a tile of a call is that of the whole sequence's tile.
LEMMA JobShifts ==
  ASSUME NEW t \in Nat, NEW k \in Nat, Origin = k * BlockLen
  PROVE  Job(Call, t, 0) = Job(Square, k + t, 0)
<1>1. /\ Call.origin = Origin /\ Call.keys = Square.keys /\ Call.sinkStart = Square.sinkStart
      /\ Call.sinkTokens = Square.sinkTokens /\ Call.intervals = None /\ Call.splits = Square.splits
      /\ Call.cute = Square.cute /\ Call.device = Square.device
      /\ Square.origin = 0 /\ Square.intervals = None
  BY DEF Call, Square
<1>2. Kept(Call) = Kept(Square)
  BY <1>1 DEF Kept
<1>3. SinkBlockRange(Call) = SinkBlockRange(Square)
  BY <1>1 DEF SinkBlockRange
<1>4. Backend(Call) = Backend(Square)
  BY <1>1 DEF Backend
<1>5. Call.origin \div BlockLen = k /\ Square.origin \div BlockLen = 0
  <2>1. BlockLen \in Nat \ {0} /\ k * BlockLen \in Int
    BY ChunkAligned
  <2> QED BY <1>1, <2>1, DivUnique
<1> QED BY <1>1, <1>2, <1>3, <1>4, <1>5 DEF Job

\* The tile of a row among the queries of a call is its tile in the sequence.
LEMMA TileShifts ==
  ASSUME block \in BlockCall, CursorFits, stream = None => cursor = 0,
         stream # None => stream.start = cursor,
         NEW k \in Nat, cursor = k * BlockLen, NEW r \in QueryRows
  PROVE  /\ (r - cursor) \div BlockLen \in Nat
         /\ k + (r - cursor) \div BlockLen = r \div BlockLen
         /\ {x \in QueryRows : (x - cursor) \div BlockLen = (r - cursor) \div BlockLen} =
              {x \in Rows : x \div BlockLen = r \div BlockLen}
<1>1. BlockLen \in Nat \ {0} /\ ChunkSize \in Nat \ {0}
  BY ChunkAligned
<1>2. PICK c \in Nat : ChunkSize = c * BlockLen
  BY <1>1, ChunkAligned, DivExact
<1>3. /\ Asked \in Nat \ {0} /\ QueryRows = cursor .. cursor + Asked - 1 /\ QueryRows \subseteq Rows
      /\ cursor \in Nat /\ cursor + Asked <= block.rows /\ block.rows \in Nat
      /\ Rows = 0 .. block.rows - 1
  BY QueriesFit, Sizes
<1>4. \A x \in Int : (x - cursor) \div BlockLen = x \div BlockLen - k
  <2>1. TAKE x \in Int
  <2>2. (k * BlockLen + (x - cursor)) \div BlockLen = k + (x - cursor) \div BlockLen
    BY <1>1, <1>3, DivShift
  <2>3. x \div BlockLen \in Int /\ (x - cursor) \div BlockLen \in Int
    BY <1>1, <1>3, Z3
  <2> QED BY <2>2, <2>3, <1>3
<1>5. r \in Nat /\ cursor <= r
  BY <1>3
<1>6. (r - cursor) \div BlockLen \in Nat
  BY <1>1, <1>3, <1>5, Z3
<1>7. r \div BlockLen \in Int
  BY <1>1, <1>5, Z3
<1>8. ASSUME NEW x \in Rows, x \div BlockLen = r \div BlockLen PROVE x \in QueryRows
  <2>1. x \in Nat /\ x < block.rows
    BY <1>3
  <2>2. ~(r \div BlockLen < k)
    BY <1>1, <1>3, <1>5, DivBelow
  <2>3. cursor <= x
    BY <1>1, <1>3, <1>8, <2>1, <2>2, DivBelow
  <2>4. CASE stream = None
    BY <2>1, <2>3, <2>4, <1>3 DEF Asked
  <2>5. CASE stream # None
    <3>1. Asked <= ChunkSize /\ (x < cursor + ChunkSize => x < cursor + Asked)
      BY <1>1, <1>3, <2>1, <2>5 DEF Asked, Least
    <3>2. (k + c) * BlockLen = cursor + ChunkSize
      BY <1>1, <1>2, Distributes
    <3>3. r < (k + c) * BlockLen
      BY <1>1, <1>3, <1>5, <3>1, <3>2
    <3>4. x < (k + c) * BlockLen
      <4>1. k + c \in Int /\ r \in Int /\ x \in Int
        BY <1>5, <2>1
      <4>2. r \div BlockLen < k + c
        BY <1>1, <3>3, <4>1, DivBelow
      <4> QED BY <1>1, <1>8, <4>1, <4>2, DivBelow
    <3> QED BY <1>3, <2>1, <2>3, <3>1, <3>2, <3>4
  <2> QED BY <2>4, <2>5
<1>9. \A x \in QueryRows :
        (x - cursor) \div BlockLen = (r - cursor) \div BlockLen <=> x \div BlockLen = r \div BlockLen
  <2>1. TAKE x \in QueryRows
  <2>2. x \in Int
    BY <1>3
  <2>3. x \div BlockLen \in Int
    BY <1>1, <2>2
  <2> QED BY <1>4, <1>5, <1>7, <2>2, <2>3
<1>10. k + (r - cursor) \div BlockLen = r \div BlockLen
  BY <1>4, <1>5, <1>7
<1>11. QueryRows \subseteq Rows
  BY <1>3
<1>12. {x \in QueryRows : (x - cursor) \div BlockLen = (r - cursor) \div BlockLen} =
         {x \in Rows : x \div BlockLen = r \div BlockLen}
  BY <1>8, <1>9, <1>11, Zenon
<1> QED BY <1>6, <1>10, <1>12

\* The next chunk starts at a tile as well, and the last one ends the rows.
LEMMA ChunkEnds ==
  ASSUME block \in BlockCall, CursorFits
  PROVE  /\ cursor + ChunkSize < block.rows =>
              /\ cursor + ChunkSize \in Rows
              /\ \E tile \in 0 .. cursor + ChunkSize : cursor + ChunkSize = tile * BlockLen
              /\ Before \cup Chunk(cursor) = 0 .. (cursor + ChunkSize) - 1
         /\ ~(cursor + ChunkSize < block.rows) => Before \cup Chunk(cursor) = Rows
<1>1. /\ block.rows \in Nat \ {0} /\ cursor \in Nat /\ cursor < block.rows
      /\ ChunkSize \in Nat \ {0} /\ BlockLen \in Nat \ {0}
  BY Sizes, ChunkAligned DEF CursorFits
<1>2. ~(cursor + ChunkSize < block.rows) => Before \cup Chunk(cursor) = Rows
  BY <1>1 DEF Before, Chunk, Rows, Least
<1>3. ASSUME cursor + ChunkSize < block.rows
      PROVE  /\ cursor + ChunkSize \in Rows
             /\ Before \cup Chunk(cursor) = 0 .. (cursor + ChunkSize) - 1
  BY <1>1, <1>3 DEF Before, Chunk, Rows, Least
<1>4. \E tile \in 0 .. cursor + ChunkSize : cursor + ChunkSize = tile * BlockLen
  <2>1. PICK k \in 0 .. cursor : cursor = k * BlockLen
    BY DEF CursorFits
  <2>2. PICK c \in Nat : ChunkSize = c * BlockLen
    BY <1>1, ChunkAligned, DivExact
  <2>3. (k + c) * BlockLen = cursor + ChunkSize
    BY <1>1, <2>1, <2>2, Distributes
  <2>4. c <= ChunkSize
    BY <1>1, <2>2, Z3
  <2>5. k + c \in 0 .. cursor + ChunkSize
    BY <1>1, <2>1, <2>2, <2>4
  <2> QED BY <2>3, <2>5
<1> QED BY <1>2, <1>3, <1>4

\* Rest, with nothing projected, is where a sequence starts.
LEMMA AtRow0 == ASSUME block \in BlockCall, cursor = 0 PROVE CursorFits /\ Before = {}
<1>1. 0 \in Rows /\ BlockLen \in Nat
  BY Sizes, ChunkAligned
<1>2. 0 = 0 * BlockLen /\ 0 \in 0 .. 0
  BY <1>1, Z3
<1> QED BY <1>1, <1>2 DEF CursorFits, Before

-----------------------------------------------------------------------------
(***************************************************************************)
(* Every step preserves the invariant.                                     *)
(***************************************************************************)
\* What is computed of a block depends on the block only.
LEMMA SameBlock ==
  ASSUME UNCHANGED block
  PROVE  Rows' = Rows /\ Whole' = Whole /\ Expected' = Expected
<1>1. Rows' = Rows
  BY DEF Rows
<1>2. Whole' = Whole
  BY <1>1 DEF Whole
<1>3. Square' = Square
  BY DEF Square
<1>4. Expected' = Expected
  BY <1>1, <1>3 DEF Expected, Unstreamed, Job, Kept, SinkBlockRange, GroupsIn, BlocksIn, Backend,
                    SplitBegin, SplitEnd
<1> QED BY <1>1, <1>2, <1>4

LEMMA InitIInv == Init => IInv
<1> SUFFICES ASSUME Init PROVE IInv
  OBVIOUS
<1>1. block \in BlockCall
  BY CallsDescribed DEF Init
<1>2. Typed
  BY <1>1, ChunkAligned DEF Init, Typed, Phases
<1>3. CursorFits
  BY <1>1, AtRow0 DEF Init, AtRest
<1>4. Rests /\ Loads /\ Attends /\ ViewsFit
  BY DEF Init, AtRest, Rests, Loads, Attends, ViewsFit, NoViews, Asking
<1>5. KernelKnown /\ OutputFits /\ Gated /\ Qualified
  BY DEF Init, AtRest, KernelKnown, OutputFits, Gated, Qualified, Asking
<1>6. Raised /\ Retained /\ HiddenFits
  BY DEF Init, Raised, Retained, HiddenFits, Modulation
<1> QED BY <1>2, <1>3, <1>4, <1>5, <1>6 DEF IInv, Held

\* Where nothing was raised no tensor is held by a traceback.
LEMMA NothingRetained ==
  ASSUME IInv, UNCHANGED traceback, phase \notin {"raised", "failed"}, phase' \notin {"raised", "failed"}
  PROVE  Retained'
<1>1. traceback' = {}
  BY DEF IInv, Retained
<1> QED BY <1>1 DEF Retained

\* A block begins from rest.
LEMMA BeginStep ==
  ASSUME IInv, NEW b \in Blocks, Begin(b)
  PROVE  IInv'
<1> USE DEF IInv, Typed
<1>1. /\ block' = b /\ b \in BlockCall /\ calls' \in 0 .. MaxBlocks
      /\ phase' \in {"affine1", "attention"}
  BY CallsDescribed, ChunkAligned DEF Begin
<1>2. Typed'
  BY <1>1 DEF Begin, VerifyNative, streamVars, kernelVars, Phases
<1>3. UNCHANGED streamVars
  BY DEF Begin
<1>4. carriers = NoCarriers /\ views = NoViews /\ cursor = 0 /\ stream = None
  BY DEF Held, Rests, Resting, Begin
<1>5. cursor' = 0 /\ CursorFits'
  <2>1. (block \in BlockCall /\ cursor = 0 => CursorFits)'
    BY AtRow0, PTL
  <2> QED BY <1>1, <1>3, <1>4, <2>1 DEF streamVars
<1>6. Rests' /\ Loads' /\ Attends' /\ ViewsFit'
  BY <1>1, <1>3, <1>4 DEF streamVars, kernelVars, Rests, Resting, Loads, Attends, Asking, ViewsFit, NoViews
<1>7. KernelKnown' /\ OutputFits' /\ Gated' /\ Raised'
  BY <1>1, <1>3, <1>4
  DEF Begin, streamVars, kernelVars, KernelKnown, OutputFits, Gated, Raised, Asking
<1>8. Qualified'
  BY <1>1, <1>3 DEF streamVars, kernelVars, Qualified
<1>9. HiddenFits'
  <2>1. next' = 1 /\ hidden' = [r \in 0 .. b.rows - 1 |-> <<>>]
    BY DEF Begin
  <2>2. Covered' = 0
    BY <2>1 DEF Covered
  <2>3. b.rows \in Nat /\ b.segments \in Seq([first : Nat, last : Nat, indexed : BOOLEAN])
    BY <1>1 DEF BlockCall
  <2> QED BY <1>1, <2>1, <2>2, <2>3, LenProperties DEF HiddenFits, Modulation, Rows
<1>10. Retained'
  BY <1>1, <1>3, NothingRetained DEF Begin
<1> QED BY <1>2, <1>5, <1>6, <1>7, <1>8, <1>9, <1>10 DEF Held

\* A step from rest to rest that leaves the attention alone.
LEMMA StaysAtRest ==
  ASSUME IInv, UNCHANGED <<block, plan, traceback, streamVars>>,
         phase \in Resting \ {"out"}, phase' \in (Resting \ {"out"}) \cup {"failed"}
  PROVE  Held' /\ Retained' /\ KernelKnown' /\ OutputFits' /\ Gated' /\ Qualified' /\ Raised'
<1>1. UNCHANGED <<carriers, views, cursor, stream, gate, result, output, kernel, verified, qualified>>
  BY DEF streamVars, kernelVars
<1>2. carriers = NoCarriers /\ views = NoViews /\ cursor = 0 /\ stream = None
  BY DEF IInv, Held, Rests
<1>3. output = <<>> /\ result = <<>> /\ gate = None
  BY DEF IInv, OutputFits, Gated, Asking, Resting
<1>4. CursorFits'
  BY <1>1, SameBlock DEF IInv, Held, CursorFits
<1>5. Rests' /\ Loads' /\ Attends' /\ ViewsFit'
  BY <1>1, <1>2 DEF Rests, Resting, Loads, Attends, Asking, ViewsFit, NoViews
<1>6. KernelKnown' /\ OutputFits' /\ Gated' /\ Raised'
  <2>1. NoCarriers \in [{"q", "k", "v"} -> SUBSET Rows'] /\ NoCarriers.q = {}
    BY DEF NoCarriers
  <2> QED BY <1>1, <1>2, <1>3, <2>1 DEF KernelKnown, OutputFits, Gated, Raised, Asking, Resting
<1>7. Qualified'
  BY <1>1, <1>2 DEF IInv, Qualified, Resting
<1>8. Retained'
  <2>1. traceback = {}
    BY DEF IInv, Retained, Resting
  <2>2. /\ \A f \in {"q", "k", "v"} : carriers'[f] = {}
        /\ \A n \in Names : views'[n] = None
    BY <1>1, <1>2 DEF NoCarriers, NoViews
  <2> QED BY <1>1, <1>2, <2>1, <2>2 DEF Retained
<1> QED BY <1>4, <1>5, <1>6, <1>7, <1>8 DEF Held

LEMMA AffineStep ==
  ASSUME IInv, Affine, UNCHANGED <<streamVars, native>>
  PROVE  IInv'
<1>1. /\ phase \in {"affine1", "affine2"} /\ UNCHANGED <<block, phase, plan, traceback, calls>>
      /\ next \in 1 .. Len(block.segments) /\ SegmentFits /\ AffineGate /\ next' = next + 1
  <2>1. Len(block.segments) \in Nat
    BY LenProperties DEF IInv, Typed, BlockCall
  <2> QED BY <2>1 DEF Affine, Modulation, blockVars, IInv, HiddenFits
<1>2. /\ Segment \in [first : Nat, last : Nat, indexed : BOOLEAN]
      /\ Len(block.segments) \in Nat
  <2>1. block.segments \in Seq([first : Nat, last : Nat, indexed : BOOLEAN])
    BY DEF IInv, Typed, BlockCall
  <2> QED BY <1>1, <2>1, LenProperties, ElementOfSeq DEF Segment
<1>3. /\ Covered \in Nat /\ Segment.first = Covered /\ Segment.first <= Segment.last
      /\ Segment.last <= block.rows /\ block.rows \in Nat /\ Rows = 0 .. block.rows - 1
      /\ hidden = [r \in Rows |-> IF r < Covered THEN <<<<phase, r>>>> ELSE <<>>]
  BY <1>1, Sizes DEF SegmentFits, IInv, Typed, HiddenFits, Modulation
<1>4. \A r \in SegmentRows :
        /\ r \in Rows /\ Native(r) = <<<<phase, r>>>>
        /\ Kernel(r) = IF AffineLayout \in Faulty THEN <<<<"wrong", r>>>> ELSE <<<<phase, r>>>>
  <2>1. TAKE r \in SegmentRows
  <2>2. r \in Rows /\ ~(r < Covered)
    BY <1>2, <1>3 DEF SegmentRows
  <2>3. hidden[r] = <<>>
    BY <1>3, <2>2
  <2> QED BY <2>2, <2>3 DEF Native, Kernel, AffineLayout
<1>5. SegmentRows # {} => AffineLayout \notin Faulty
  <2>1. CASE AffineLayout \in affine
    BY <2>1 DEF IInv, Typed
  <2>2. CASE /\ SegmentRows # {}
             /\ \A r \in SegmentRows : r < Segment.first + ProbeRows => Kernel(r) = Native(r)
    <3>1. Segment.first \in SegmentRows /\ Segment.first < Segment.first + ProbeRows
      BY <1>2, <2>2, AffineAssumption DEF SegmentRows
    <3>2. Kernel(Segment.first) = <<<<phase, Segment.first>>>>
      BY <1>4, <2>2, <3>1
    <3>3. "wrong" # phase
      BY <1>1
    <3> QED BY <1>4, <3>1, <3>2, <3>3
  <2> QED BY <1>1, <2>1, <2>2 DEF AffineGate
<1>6. Typed'
  <2>1. affine' \cap Faulty = {}
    BY <1>5 DEF Affine, IInv, Typed
  <2> QED BY <1>1, <2>1 DEF IInv, Typed, streamVars, kernelVars
<1>7. Held' /\ Retained' /\ KernelKnown' /\ OutputFits' /\ Gated' /\ Qualified' /\ Raised'
  BY <1>1, StaysAtRest DEF Resting
<1>8. HiddenFits'
  <2>1. next' \in 1 .. Len(block.segments) + 1 /\ next' # 1 /\ next' - 1 = next
    BY <1>1, <1>2
  <2>2. Covered' = Segment.last
    BY <1>1, <2>1 DEF Covered, Segment
  <2>3. \A r \in Rows : (IF r \in SegmentRows THEN Kernel(r) ELSE hidden[r]) =
                        IF r < Segment.last THEN <<<<phase, r>>>> ELSE <<>>
    <3>1. TAKE r \in Rows
    <3>2. r \in SegmentRows <=> Covered <= r /\ r < Segment.last
      BY <1>2, <1>3 DEF SegmentRows
    <3>3. CASE r \in SegmentRows
      BY <1>4, <1>5, <3>2, <3>3
    <3>4. CASE r \notin SegmentRows
      <4>1. hidden[r] = IF r < Covered THEN <<<<phase, r>>>> ELSE <<>>
        BY <1>3
      <4>2. r < Covered <=> r < Segment.last
        BY <1>2, <1>3, <3>2, <3>4
      <4> QED BY <3>4, <4>1, <4>2
    <3> QED BY <3>3, <3>4
  <2>4. hidden' = [r \in Rows |-> IF r < Segment.last THEN <<<<phase, r>>>> ELSE <<>>]
    BY <2>3 DEF Affine
  <2>5. Rows' = Rows
    BY <1>1, SameBlock
  <2>6. Segment.last \in 0 .. block.rows
    BY <1>2, <1>3
  <2> QED BY <1>1, <2>1, <2>2, <2>4, <2>5, <2>6 DEF HiddenFits
<1> QED BY <1>6, <1>7, <1>8 DEF IInv

\* The modulation is complete, or refused, or the block returned.
LEMMA RestStep ==
  ASSUME IInv,
         \/ AffineFails /\ UNCHANGED <<streamVars, native>>
         \/ Modulated \/ Returned
  PROVE  IInv'
<1>1. /\ UNCHANGED <<block, plan, traceback, calls, streamVars, affine, native>>
      /\ phase \in Resting \ {"out"} /\ phase' \in {"attention", "returned", "idle", "failed"}
  BY DEF AffineFails, affineVars, Modulated, Modulates, Modulation, Returned, Goto, Resting
<1>2. Typed'
  BY <1>1 DEF IInv, Typed, Phases, streamVars, kernelVars
<1>3. Held' /\ Retained' /\ KernelKnown' /\ OutputFits' /\ Gated' /\ Qualified' /\ Raised'
  BY <1>1, StaysAtRest DEF Resting
<1>4. HiddenFits'
  BY <1>1 DEF HiddenFits, Modulation
<1> QED BY <1>2, <1>3, <1>4 DEF IInv

LEMMA ProjectedStep ==
  ASSUME IInv, Projected
  PROVE  IInv'
<1>1. /\ UNCHANGED <<block, plan, traceback, calls, carriers, views, cursor, stream, gate, result, affine, native>>
      /\ UNCHANGED <<kernel, verified, qualified>>
      /\ phase = "out" /\ phase' \in {"affine2", "returned"} /\ output' = <<>>
      /\ phase' = "affine2" => next' = 1 /\ hidden' = [r \in Rows |-> <<>>]
  BY DEF Projected, StartAffine, kernelVars
<1>2. Typed'
  BY <1>1 DEF IInv, Typed, Phases
<1>3. carriers = NoCarriers /\ views = NoViews /\ cursor = 0 /\ stream = None
  BY <1>1 DEF IInv, Held, Rests, Resting
<1>4. CursorFits'
  BY <1>1, SameBlock DEF IInv, Held, CursorFits
<1>5. Rests' /\ Loads' /\ Attends' /\ ViewsFit'
  BY <1>1, <1>3 DEF Rests, Resting, Loads, Attends, Asking, ViewsFit, NoViews
<1>6. KernelKnown' /\ OutputFits' /\ Gated' /\ Raised'
  BY <1>1 DEF IInv, KernelKnown, OutputFits, Gated, Raised, Asking
<1>7. Qualified'
  BY <1>1 DEF IInv, Qualified
<1>8. HiddenFits'
  <2>1. Len(block.segments) \in Nat /\ block.rows \in Nat
    BY LenProperties DEF IInv, Typed, BlockCall
  <2>2. Rows' = Rows
    BY <1>1, SameBlock
  <2>3. phase' = "affine2" => Covered' = 0
    BY <1>1 DEF Covered
  <2>4. \A r \in Rows : ~(r < 0)
    BY <2>1 DEF Rows
  <2> QED BY <1>1, <2>1, <2>2, <2>3, <2>4 DEF HiddenFits, Modulation
<1>9. Retained'
  BY <1>1, NothingRetained
<1> QED BY <1>2, <1>4, <1>5, <1>6, <1>7, <1>8, <1>9 DEF IInv, Held

LEMMA NewRequestStep ==
  ASSUME IInv, NewRequest
  PROVE  IInv'
<1>1. /\ UNCHANGED <<block, plan, stream, gate, result, output>> /\ cursor' = 0
      /\ phase \in {"idle", "failed"} /\ phase' = "idle" /\ calls' = 0 /\ traceback' = {}
      /\ carriers' = [f \in DOMAIN carriers |-> IF f \in traceback THEN {} ELSE carriers[f]]
      /\ views' = [n \in Names |-> IF n \in traceback THEN None ELSE views[n]]
      /\ kernel' = "none" /\ verified' = {} /\ qualified' = {} /\ affine' = {} /\ native' = "unknown"
  BY DEF NewRequest, StartRequest, Drop
<1>2. Typed'
  BY <1>1, ChunkAligned DEF IInv, Typed, Phases
<1>3. /\ carriers' = NoCarriers /\ views' = NoViews /\ stream = None
      /\ gate = None /\ result = <<>> /\ output = <<>>
  <2>1. DOMAIN carriers = {"q", "k", "v"}
    BY <1>1 DEF IInv, Raised, Held, Rests, Resting, NoCarriers
  <2>2. /\ \A f \in {"q", "k", "v"} : carriers[f] # {} => f \in traceback
        /\ \A n \in Names : views[n] # None => n \in traceback
    BY <1>1 DEF IInv, Retained, Held, Rests, Resting, NoCarriers, NoViews
  <2>3. carriers' = [f \in {"q", "k", "v"} |-> {}]
    BY <1>1, <2>1, <2>2
  <2>4. views' = NoViews
    BY <1>1, <2>2 DEF NoViews
  <2>5. stream = None
    BY <1>1 DEF IInv, Retained, Held, Rests, Resting
  <2>6. gate = None /\ result = <<>> /\ output = <<>>
    BY <1>1 DEF IInv, Gated, OutputFits, Asking
  <2> QED BY <2>3, <2>4, <2>5, <2>6 DEF NoCarriers
<1>4. CursorFits'
  <2>1. (block \in BlockCall /\ cursor = 0 => CursorFits)'
    BY AtRow0, PTL
  <2> QED BY <1>1, <1>2, <2>1 DEF Typed
<1>5. Rests' /\ Loads' /\ Attends' /\ ViewsFit'
  BY <1>1, <1>3 DEF Rests, Resting, Loads, Attends, Asking, ViewsFit, NoViews
<1>6. KernelKnown' /\ OutputFits' /\ Gated' /\ Raised' /\ Retained'
  BY <1>1, <1>3 DEF KernelKnown, OutputFits, Gated, Raised, Retained, Asking
<1>7. Qualified' /\ HiddenFits'
  BY <1>1 DEF Qualified, HiddenFits, Modulation
<1> QED BY <1>2, <1>4, <1>5, <1>6, <1>7 DEF IInv, Held

\* The attention is called: native attention asks for all rows at once.
LEMMA AttentionStep ==
  ASSUME IInv, Attention
  PROVE  IInv'
<1>1. /\ UNCHANGED <<block, plan, traceback, calls, views, cursor, stream, gate, result, output>>
      /\ UNCHANGED <<kernel, verified, qualified, affine, native>>
      /\ phase = "attention"
      /\ \/ plan.attention = "streamed" /\ phase' = "projectKV" /\ carriers' = carriers
         \/ plan.attention = "vdn" /\ phase' = "projectVDN" /\ carriers' = carriers
         \/ plan.attention = "native" /\ phase' = "out" /\ carriers' = carriers
         \/ plan.attention = "native" /\ phase' = "attend" /\ carriers' = [q |-> {}, k |-> Rows, v |-> Rows]
  BY DEF Attention, Goto, kernelVars, affineVars, IInv, Typed
<1>2. Typed'
  BY <1>1 DEF IInv, Typed, Phases
<1>3. carriers = NoCarriers /\ views = NoViews /\ cursor = 0 /\ stream = None
  BY <1>1 DEF IInv, Held, Rests, Resting
<1>4. block \in BlockCall /\ Before = {}
  BY <1>3, AtRow0 DEF IInv, Typed
<1>5. UNCHANGED <<Rows, Whole, Expected, Before>>
  BY <1>1, SameBlock DEF Before
<1>6. CursorFits'
  BY <1>1, <1>5 DEF IInv, Held, CursorFits
<1>7. Rests' /\ ViewsFit'
  BY <1>1, <1>3 DEF Rests, Resting, ViewsFit, NoViews
<1>8. Loads'
  BY <1>1, <1>3, <1>4, <1>5 DEF Loads, NoCarriers
<1>9. Attends'
  BY <1>1, <1>3, <1>5 DEF Attends, Asking
<1>10. KernelKnown' /\ Gated' /\ Raised'
  BY <1>1, <1>3 DEF IInv, KernelKnown, Gated, Raised, Asking
<1>11. OutputFits'
  <2>1. output = <<>> /\ result = <<>>
    BY <1>1 DEF IInv, OutputFits, Asking
  <2>2. output = [r \in Before |-> Expected[Sparse'][r]]
    BY <1>4, <2>1
  <2> QED BY <1>1, <1>5, <2>1, <2>2 DEF OutputFits, Asking
<1>12. Qualified' /\ HiddenFits'
  BY <1>1 DEF IInv, Qualified, HiddenFits, Modulation
<1>13. Retained'
  BY <1>1, NothingRetained
<1> QED BY <1>2, <1>6, <1>7, <1>8, <1>9, <1>10, <1>11, <1>12, <1>13 DEF IInv, Held

\* A chunk is projected, for K and V or for VDN.
LEMMA ProjectStep ==
  ASSUME IInv, ProjectKV \/ ProjectVDN, UNCHANGED <<affineVars, native>>
  PROVE  IInv'
<1>1. /\ UNCHANGED <<block, plan, traceback, calls, carriers, cursor, stream, gate, result, output>>
      /\ UNCHANGED <<kernel, verified, qualified, affine, native>>
      /\ \/ /\ phase = "projectKV" /\ phase' = "copyKV"
            /\ views' = [n \in Names |-> IF n \in {"qc", "kc", "vc"} THEN cursor ELSE views[n]]
         \/ /\ phase = "projectVDN" /\ phase' = "copyVDN"
            /\ views' = [n \in Names |-> IF n \in {"packed"} THEN cursor ELSE views[n]]
  BY DEF ProjectKV, ProjectVDN, Project, ChunkNames, Bind, Goto, kernelVars, affineVars
<1>2. Typed'
  BY <1>1 DEF IInv, Typed, Phases
<1>3. UNCHANGED <<Rows, Whole, Expected, Before>>
  BY <1>1, SameBlock DEF Before
<1>4. CursorFits' /\ Rests' /\ Loads' /\ Attends'
  BY <1>1, <1>3 DEF IInv, Held, CursorFits, Rests, Resting, Loads, Attends, Asking
<1>5. ViewsFit'
  BY <1>1 DEF IInv, Held, ViewsFit, Asking
<1>6. KernelKnown' /\ OutputFits' /\ Gated' /\ Raised'
  BY <1>1 DEF IInv, KernelKnown, OutputFits, Gated, Raised, Asking
<1>7. Qualified' /\ HiddenFits'
  BY <1>1 DEF IInv, Qualified, HiddenFits, Modulation
<1>8. Retained'
  BY <1>1, NothingRetained
<1> QED BY <1>2, <1>4, <1>5, <1>6, <1>7, <1>8 DEF IInv, Held

\* It is written to its rows of the carriers, and dropped.
LEMMA CopyStep ==
  ASSUME IInv, CopyKV \/ CopyVDN, UNCHANGED <<affineVars, native>>
  PROVE  IInv'
<1>1. /\ UNCHANGED <<block, plan, traceback, calls, stream, gate, result, output>>
      /\ UNCHANGED <<kernel, verified, qualified, affine, native>>
      /\ IF cursor + ChunkSize < block.rows
         THEN cursor' = cursor + ChunkSize ELSE cursor' = 0
  BY DEF CopyKV, CopyVDN, Copy, Goto, kernelVars, affineVars
<1>2. \/ /\ phase = "copyKV"
         /\ phase' = IF cursor + ChunkSize < block.rows THEN "projectKV" ELSE "queries"
         /\ carriers' = [f \in DOMAIN carriers |->
              IF f \in {"k", "v"} THEN carriers[f] \cup Chunk(cursor) ELSE carriers[f]]
         /\ views' = [n \in Names |-> IF n \in {"qc", "kc", "vc"} THEN None ELSE views[n]]
      \/ /\ phase = "copyVDN"
         /\ phase' = IF cursor + ChunkSize < block.rows THEN "projectVDN" ELSE "vdn"
         /\ carriers' = [f \in DOMAIN carriers |->
              IF f \in {"q", "k", "v"} THEN carriers[f] \cup Chunk(cursor) ELSE carriers[f]]
         /\ views' = [n \in Names |-> IF n \in {"packed"} THEN None ELSE views[n]]
  BY DEF CopyKV, CopyVDN, Copy, Drop, Goto
<1>3. Typed'
  BY <1>1, <1>2 DEF IInv, Typed, Phases
<1>4. UNCHANGED <<Rows, Whole, Expected>>
  BY <1>1, SameBlock
<1>5. /\ IF cursor + ChunkSize < block.rows
         THEN Before \cup Chunk(cursor) = 0 .. (cursor + ChunkSize) - 1
         ELSE Before \cup Chunk(cursor) = Rows
      /\ CursorFits'
  <2>1. block \in BlockCall /\ CursorFits
    BY DEF IInv, Typed, Held
  <2>2. (block \in BlockCall /\ cursor = 0 => CursorFits)'
    BY AtRow0, PTL
  <2> QED BY <1>1, <1>3, <1>4, <2>1, <2>2, ChunkEnds DEF CursorFits, Typed
<1>6. carriers' = IF phase = "copyKV"
                  THEN [q |-> {}, k |-> Before \cup Chunk(cursor), v |-> Before \cup Chunk(cursor)]
                  ELSE [q |-> Before \cup Chunk(cursor), k |-> Before \cup Chunk(cursor),
                        v |-> Before \cup Chunk(cursor)]
  <2>1. carriers = IF phase = "copyKV" THEN [q |-> {}, k |-> Before, v |-> Before]
                   ELSE [q |-> Before, k |-> Before, v |-> Before]
    BY <1>2 DEF IInv, Held, Loads
  <2> QED BY <1>2, <2>1
<1>7. Rests' /\ ViewsFit'
  <2>1. views \in [Names -> {None, cursor}]
    BY DEF IInv, Held, ViewsFit
  <2>2. \A n \in Names : views[n] # None =>
          IF phase = "copyKV" THEN n \in {"qc", "kc", "vc"} ELSE n = "packed"
    BY <1>2 DEF IInv, Held, ViewsFit, Asking
  <2>3. views' = [n \in Names |-> None]
    BY <1>2, <2>1, <2>2
  <2> QED BY <1>2, <2>3 DEF Rests, Resting, ViewsFit
<1>8. Loads'
  <2>1. stream = None /\ plan.attention = IF phase = "copyKV" THEN "streamed" ELSE "vdn"
    BY <1>2 DEF IInv, Held, Loads
  <2>2. CASE cursor + ChunkSize < block.rows
    <3>1. Before' = Before \cup Chunk(cursor)
      <4>1. Before' = 0 .. (cursor + ChunkSize) - 1
        BY <1>1, <2>2 DEF Before
      <4> QED BY <1>5, <2>2, <4>1
    <3> QED BY <1>1, <1>2, <1>6, <2>1, <2>2, <3>1 DEF Loads
  <2>3. CASE ~(cursor + ChunkSize < block.rows)
    <3>1. Rows' = Before \cup Chunk(cursor)
      BY <1>4, <1>5, <2>3
    <3> QED BY <1>1, <1>2, <1>6, <2>1, <2>3, <3>1 DEF Loads
  <2> QED BY <2>2, <2>3
<1>9. Attends'
  BY <1>1, <1>2, <1>4, <1>5, <1>6 DEF Attends, Asking
<1>10. KernelKnown' /\ OutputFits' /\ Gated' /\ Raised'
  BY <1>1, <1>2 DEF IInv, KernelKnown, OutputFits, Gated, Raised, Asking
<1>11. Qualified' /\ HiddenFits'
  BY <1>1, <1>2 DEF IInv, Qualified, HiddenFits, Modulation
<1>12. Retained'
  BY <1>1, <1>2, NothingRetained
<1> QED BY <1>3, <1>5, <1>7, <1>8, <1>9, <1>10, <1>11, <1>12 DEF IInv, Held

\* A stream is a stream.
LEMMA StreamApart ==
  ASSUME block \in BlockCall, NEW s \in [start : Rows, prepared : {None, Whole}]
  PROVE  s # None
<1>1. Rows \subseteq Nat
  BY Sizes
<1>2. Whole \in [k : SUBSET Nat, v : SUBSET Nat]
  BY <1>1 DEF Whole
<1>3. s \in [start : Nat, prepared : {None} \cup [k : SUBSET Nat, v : SUBSET Nat]]
  BY <1>1, <1>2
<1> QED BY <1>3, StreamAssumption

LEMMA StartQueriesStep ==
  ASSUME IInv, StartQueries, UNCHANGED <<affineVars, native>>
  PROVE  IInv'
<1>1. /\ UNCHANGED <<block, plan, traceback, calls, carriers, views, cursor, gate, result, output>>
      /\ UNCHANGED <<kernel, verified, qualified, affine, native>>
      /\ phase = "queries" /\ phase' = "projectQ" /\ stream' = [start |-> 0, prepared |-> None]
  BY DEF StartQueries, Goto, kernelVars, affineVars
<1>2. Typed'
  BY <1>1 DEF IInv, Typed, Phases
<1>3. UNCHANGED <<Rows, Whole, Expected, Before>>
  BY <1>1, SameBlock DEF Before
<1>5. /\ cursor = 0 /\ carriers = [q |-> {}, k |-> Rows, v |-> Rows]
      /\ plan.attention = "streamed" /\ block \in BlockCall
  BY <1>1 DEF IInv, Typed, Held, Loads, Attends
<1>6. Before = {} /\ 0 \in Rows
  BY <1>5, AtRow0, Sizes
<1>7. stream' \in [start : Rows, prepared : {None, Whole}] /\ stream' # None
  BY <1>1, <1>5, <1>6, StreamApart
<1>8. CursorFits' /\ Rests' /\ Loads' /\ ViewsFit'
  BY <1>1, <1>3 DEF IInv, Held, CursorFits, Rests, Resting, Loads, ViewsFit, Asking
<1>9. Attends'
  BY <1>1, <1>3, <1>5, <1>7 DEF Attends, Asking
<1>10. OutputFits'
  <2>1. output = <<>> /\ result = <<>>
    BY <1>1 DEF IInv, OutputFits, Asking
  <2>2. output = [r \in Before |-> Expected[Sparse'][r]]
    BY <1>6, <2>1
  <2> QED BY <1>1, <1>3, <2>1, <2>2 DEF OutputFits, Asking
<1>11. KernelKnown' /\ Gated' /\ Raised'
  BY <1>1, <1>5 DEF IInv, KernelKnown, Gated, Raised, Asking
<1>12. Qualified' /\ HiddenFits'
  BY <1>1 DEF IInv, Qualified, HiddenFits, Modulation
<1>13. Retained'
  BY <1>1, NothingRetained
<1> QED BY <1>2, <1>8, <1>9, <1>10, <1>11, <1>12, <1>13 DEF IInv, Held

\* What holds of a step's end needs Sparse as it was.
LEMMA ProjectQStep ==
  ASSUME IInv, ProjectQ, UNCHANGED <<affineVars, native>>
  PROVE  IInv'
<1>1. /\ UNCHANGED <<block, plan, traceback, calls, carriers, cursor, gate, result, output>>
      /\ UNCHANGED <<kernel, verified, qualified, affine, native>>
      /\ phase = "projectQ" /\ phase' = "attend" /\ stream' = [stream EXCEPT !.start = cursor]
      /\ views' = [n \in Names |-> IF n \in {"q"} THEN cursor ELSE views[n]]
  BY DEF ProjectQ, ChunkNames, Bind, Goto, kernelVars, affineVars
<1>2. Typed'
  BY <1>1 DEF IInv, Typed, Phases
<1>3. UNCHANGED <<Rows, Whole, Expected, Before, Sparse>>
  BY <1>1, SameBlock DEF Before, Sparse, Representable
<1>4. /\ carriers = [q |-> {}, k |-> Rows, v |-> Rows] /\ plan.attention = "streamed"
      /\ stream \in [start : Rows, prepared : {None, Whole}] /\ cursor \in Rows /\ block \in BlockCall
  BY <1>1 DEF IInv, Typed, Held, CursorFits, Attends, Asking
<1>5. stream' \in [start : Rows, prepared : {None, Whole}] /\ stream' # None /\ stream'.start = cursor
  BY <1>1, <1>4, StreamApart
<1>6. CursorFits' /\ Rests' /\ Loads'
  BY <1>1, <1>3 DEF IInv, Held, CursorFits, Rests, Resting, Loads
<1>7. ViewsFit'
  BY <1>1 DEF IInv, Held, ViewsFit, Asking
<1>8. Attends'
  BY <1>1, <1>3, <1>4, <1>5 DEF Attends, Asking
<1>9. KernelKnown' /\ OutputFits' /\ Gated' /\ Raised'
  BY <1>1, <1>3 DEF IInv, KernelKnown, OutputFits, Gated, Raised, Asking, Representable
<1>10. Qualified' /\ HiddenFits'
  BY <1>1 DEF IInv, Qualified, HiddenFits, Modulation
<1>11. Retained'
  BY <1>1, NothingRetained
<1> QED BY <1>2, <1>6, <1>7, <1>8, <1>9, <1>10, <1>11 DEF IInv, Held

\* While the queries of a call are answered the workspace stays.
LEMMA StillAsked ==
  ASSUME IInv, phase \in Asking, phase' \in Asking,
         UNCHANGED <<block, plan, traceback, carriers, views, cursor, stream>>,
         phase' \in {"gate", "run"} /\ stream # None => stream.prepared = Whole
  PROVE  /\ Held' /\ Retained' /\ Raised' /\ HiddenFits'
         /\ UNCHANGED <<Rows, Whole, Expected, Before, QueryRows, Origin>>
<1>1. UNCHANGED <<Rows, Whole, Expected, Before>>
  BY SameBlock DEF Before
<1>2. UNCHANGED <<QueryRows, Origin>>
  BY <1>1 DEF QueryRows, Origin, Chunk
<1>3. CursorFits' /\ Rests' /\ Loads'
  BY <1>1 DEF IInv, Held, CursorFits, Rests, Resting, Loads, Asking
<1>4. Attends'
  BY <1>1 DEF IInv, Held, Attends, Asking
<1>5. ViewsFit'
  BY DEF IInv, Held, ViewsFit, Asking
<1>6. Raised' /\ HiddenFits'
  BY DEF Raised, HiddenFits, Modulation, Asking
<1>7. Retained'
  BY NothingRetained DEF Asking
<1> QED BY <1>1, <1>2, <1>3, <1>4, <1>5, <1>6, <1>7 DEF Held

\* Where queries are answered.
LEMMA AskingFits ==
  ASSUME IInv, phase \in Asking
  PROVE  /\ block \in BlockCall /\ CursorFits
         /\ stream = None => cursor = 0
         /\ stream # None => stream.start = cursor
         /\ KV = Whole /\ output = [r \in Before |-> Expected[Sparse][r]]
         /\ stream \in {None} \cup [start : Rows, prepared : {None, Whole}]
         /\ plan.attention = IF stream = None THEN "native" ELSE "streamed"
  BY DEF IInv, Typed, Held, Attends, OutputFits, KV, Whole

\* A row computed densely is the expected one if none is expected sparsely.
LEMMA DenseExpected ==
  ASSUME KV = Whole
  PROVE  \A r \in Rows : Expected[FALSE][r] = DenseRow
BY DEF Expected, Unstreamed, DenseRow, KV, Whole

\* The override answers densely, or goes on.
LEMMA AttendStep ==
  ASSUME IInv, Attend, UNCHANGED <<affineVars, native>>
  PROVE  IInv'
<1>1. /\ UNCHANGED <<block, plan, traceback, calls, carriers, views, cursor, stream, gate, output>>
      /\ UNCHANGED <<kernel, verified, qualified, affine, native>>
      /\ phase = "attend"
      /\ \/ /\ block.warmup \/ ~Representable(block)
            /\ phase' = "copyOut" /\ result' = [r \in QueryRows |-> DenseRow]
         \/ /\ ~(block.warmup \/ ~Representable(block))
            /\ phase' = "load" /\ result' = result
  BY DEF Attend, Computed, Goto, kernelVars, affineVars
<1>2. Typed'
  BY <1>1 DEF IInv, Typed, Phases
<1>3. /\ Held' /\ Retained' /\ Raised' /\ HiddenFits'
      /\ UNCHANGED <<Rows, Whole, Expected, Before, QueryRows, Origin>>
  BY <1>1, StillAsked DEF Asking
<1>4. UNCHANGED Sparse
  BY <1>1 DEF Sparse, Representable
<1>5. KernelKnown'
  BY <1>1 DEF IInv, KernelKnown, Asking, Representable
<1>6. OutputFits'
  <2>1. QueryRows \subseteq Rows /\ KV = Whole
    BY <1>1, AskingFits, QueriesFit DEF Asking
  <2>2. phase' = "copyOut" => result' = [r \in QueryRows |-> Expected[Sparse][r]]
    <3>1. phase' = "copyOut" => Sparse = FALSE
      BY <1>1 DEF Sparse
    <3> QED BY <1>1, <2>1, <3>1, DenseExpected
  <2>3. output = [r \in Before |-> Expected[Sparse][r]] /\ result = <<>>
    BY <1>1 DEF IInv, OutputFits, Asking
  <2> QED BY <1>1, <1>3, <1>4, <2>2, <2>3 DEF OutputFits, Asking
<1>7. Gated' /\ Qualified'
  <2>1. phase' = "copyOut" => Sparse = FALSE
    BY <1>1 DEF Sparse
  <2> QED BY <1>1, <1>4, <2>1 DEF IInv, Gated, Qualified, Asking
<1> QED BY <1>2, <1>3, <1>5, <1>6, <1>7 DEF IInv

\* The kernel is loaded, or the call is answered densely like those before it.
LEMMA LoadKernelStep ==
  ASSUME IInv, LoadKernel, UNCHANGED <<affineVars, native>>
  PROVE  IInv'
<1>1. /\ UNCHANGED <<block, plan, traceback, calls, carriers, views, cursor, stream, gate, output>>
      /\ UNCHANGED <<verified, qualified, affine, native>>
      /\ phase = "load"
      /\ kernel' \in {"none", "ready", "failed"} /\ kernel' # "none"
      /\ kernel # "none" => kernel' = kernel
      /\ \/ kernel' = "ready" /\ phase' = "prepare" /\ result' = result
         \/ kernel' = "failed" /\ phase' = "copyOut" /\ result' = [r \in QueryRows |-> DenseRow]
  BY DEF LoadKernel, Computed, Goto, affineVars, IInv, Typed
<1>2. Typed'
  BY <1>1 DEF IInv, Typed, Phases
<1>3. /\ Held' /\ Retained' /\ Raised' /\ HiddenFits'
      /\ UNCHANGED <<Rows, Whole, Expected, Before, QueryRows, Origin>>
  BY <1>1, StillAsked DEF Asking
<1>4. /\ ~block.warmup /\ Representable(block)
      /\ cursor # 0 => kernel # "none"
      /\ result = <<>> /\ output = [r \in Before |-> Expected[Sparse][r]] /\ gate = None
  BY <1>1 DEF IInv, KernelKnown, OutputFits, Gated, Asking
<1>5. Sparse' = (kernel' = "ready")
  BY <1>1, <1>4 DEF Sparse, Representable
<1>6. KernelKnown'
  BY <1>1, <1>4, <1>5 DEF KernelKnown, Asking, Representable
<1>7. OutputFits'
  <2>1. QueryRows \subseteq Rows /\ KV = Whole /\ block \in BlockCall
    BY <1>1, AskingFits, QueriesFit DEF Asking
  <2>2. phase' = "copyOut" => result' = [r \in QueryRows |-> Expected[Sparse'][r]]
    BY <1>1, <1>5, <2>1, DenseExpected
  <2>3. output = [r \in Before |-> Expected[Sparse'][r]]
    <3>1. CASE cursor = 0
      BY <1>4, <2>1, <3>1, AtRow0
    <3>2. CASE cursor # 0
      BY <1>1, <1>4, <1>5, <3>2 DEF Sparse
    <3> QED BY <3>1, <3>2
  <2> QED BY <1>1, <1>3, <1>4, <2>2, <2>3 DEF OutputFits, Asking
<1>8. Gated' /\ Qualified'
  BY <1>1, <1>4, <1>5 DEF IInv, Gated, Qualified
<1> QED BY <1>2, <1>3, <1>6, <1>7, <1>8 DEF IInv

\* K and V are prepared, once for a stream, and the gate starts if it has to.
LEMMA PrepareKVStep ==
  ASSUME IInv, PrepareKV, UNCHANGED <<affineVars, native>>
  PROVE  IInv'
<1>1. /\ UNCHANGED <<block, plan, traceback, calls, carriers, views, cursor, result, output>>
      /\ UNCHANGED <<kernel, verified, qualified, affine, native>>
      /\ phase = "prepare"
      /\ stream' = IF stream # None /\ stream.prepared = None THEN [stream EXCEPT !.prepared = KV] ELSE stream
      /\ \/ GateKey \in verified /\ phase' = "run" /\ gate' = gate
         \/ phase' = "gate" /\ gate' = [next |-> 0, metrics |-> NoMetrics]
  BY DEF PrepareKV, Goto, kernelVars, affineVars
<1>2. Typed'
  BY <1>1 DEF IInv, Typed, Phases
<1>3. /\ block \in BlockCall /\ CursorFits
      /\ stream = None => cursor = 0
      /\ stream # None => stream.start = cursor
      /\ KV = Whole /\ output = [r \in Before |-> Expected[Sparse][r]]
      /\ stream \in {None} \cup [start : Rows, prepared : {None, Whole}]
      /\ plan.attention = IF stream = None THEN "native" ELSE "streamed"
  BY <1>1, AskingFits DEF Asking
<1>4. UNCHANGED <<Rows, Whole, Expected, Before, Sparse>>
  BY <1>1, SameBlock DEF Before, Sparse, Representable
<1>5. /\ stream' \in {None} \cup [start : Rows, prepared : {None, Whole}]
      /\ stream' = None <=> stream = None
      /\ stream # None => stream'.start = stream.start /\ stream'.prepared = Whole
  <2>1. CASE stream = None
    BY <1>1, <2>1
  <2>2. CASE stream # None
    <3>1. stream \in [start : Rows, prepared : {None, Whole}]
      BY <1>3, <2>2
    <3>2. stream' \in [start : Rows, prepared : {None, Whole}]
      BY <1>1, <1>3, <2>2, <3>1
    <3>3. stream'.start = stream.start /\ stream'.prepared = Whole
      BY <1>1, <1>3, <2>2, <3>1
    <3> QED BY <1>3, <2>2, <3>2, <3>3, StreamApart
  <2> QED BY <2>1, <2>2
<1>6. UNCHANGED <<QueryRows, Origin>>
  BY <1>1, <1>4, <1>5 DEF QueryRows, Origin, Chunk
<1>7. CursorFits' /\ Rests' /\ Loads' /\ ViewsFit'
  BY <1>1, <1>4 DEF IInv, Held, CursorFits, Rests, Resting, Loads, ViewsFit, Asking
<1>8. Attends'
  <2>1. carriers = [q |-> {}, k |-> Rows, v |-> Rows]
    BY <1>1 DEF IInv, Held, Attends, Asking
  <2> QED BY <1>1, <1>3, <1>4, <1>5, <2>1 DEF Attends, Asking
<1>9. KernelKnown' /\ OutputFits' /\ Raised' /\ HiddenFits'
  BY <1>1, <1>4 DEF IInv, KernelKnown, OutputFits, Raised, HiddenFits, Modulation, Asking, Representable
<1>10. Gated'
  <2>1. gate = None
    BY <1>1 DEF IInv, Gated
  <2>2. phase' = "gate" => gate'.next = 0 /\ gate'.metrics = NoMetrics
    BY <1>1
  <2>3. {r \in QueryRows : r - Origin < 0} = {}
    BY <1>3, QueriesFit
  <2>4. Counted(NoMetrics, {})
    BY FS_EmptySet DEF Counted, NoMetrics
  <2>5. phase' = "gate" => Counted(gate'.metrics, {r \in QueryRows' : r - Origin' < gate'.next})
    BY <1>6, <2>2, <2>3, <2>4
  <2>6. phase' = "gate" => gate'.next \in Nat
    BY <2>2
  <2> QED BY <1>1, <2>1, <2>5, <2>6 DEF Gated
<1>11. Qualified'
  BY <1>1, <1>6 DEF IInv, Qualified, GateKey
<1>12. Retained'
  BY <1>1, NothingRetained
<1> QED BY <1>2, <1>7, <1>8, <1>9, <1>10, <1>11, <1>12 DEF IInv, Held

-----------------------------------------------------------------------------
(***************************************************************************)
(* How the gate counts.                                                    *)
(***************************************************************************)
\* The tiles of consecutive rows have every row once.
LEMMA TilesPartition ==
  ASSUME NEW a \in Int, NEW b \in Int, a <= b
  PROVE  /\ MetricTiles(a .. b) \in Seq(SUBSET Int)
         /\ \A i \in DOMAIN MetricTiles(a .. b) : MetricTiles(a .. b)[i] \subseteq a .. b
         /\ \A r \in a .. b : Once(MetricTiles(a .. b), r)
<1> DEFINE n == Cardinality(a .. b)
           last == (n + MetricRows - 1) \div MetricRows
           t == [i \in 1 .. last |-> {r \in a .. b : (r - a) \div MetricRows = i - 1}]
<1>1. MetricRows \in Nat \ {0} /\ n = b - a + 1
  BY StreamAssumption, FS_Interval
<1>2. last \in Nat
  BY <1>1, Z3
<1>3. MetricTiles(a .. b) = t
  <2>1. (CHOOSE r \in a .. b : \A x \in a .. b : r <= x) = a
    BY FirstRow
  <2> QED BY <2>1 DEF MetricTiles
<1>4. t \in Seq(SUBSET Int)
  <2>1. \A i \in 1 .. last : {r \in a .. b : (r - a) \div MetricRows = i - 1} \in SUBSET Int
    OBVIOUS
  <2> QED BY <1>2, <2>1, IsASeq
<1>5. \A i \in DOMAIN t : t[i] \subseteq a .. b
  OBVIOUS
<1>6. ASSUME NEW r \in a .. b PROVE Once(t, r)
  <2> DEFINE q == (r - a) \div MetricRows
  <2>1. q \in Nat
    BY <1>1, Z3
  <2>2. q < last
    <3> DEFINE x == r - a
               y == n + MetricRows - 1
    <3>1. x \in Int /\ y \in Int /\ x + MetricRows <= y
      BY <1>1
    <3>2. q * MetricRows <= x
      BY <1>1, <3>1, Z3
    <3>3. (q + 1) * MetricRows = q * MetricRows + MetricRows
      BY <1>1, <2>1, Z3
    <3>4. ~(y < (q + 1) * MetricRows)
      BY <1>1, <2>1, <3>1, <3>2, <3>3
    <3>5. ~(y \div MetricRows < q + 1)
      BY <1>1, <2>1, <3>1, <3>4, DivBelow
    <3> QED BY <1>2, <2>1, <3>5
  <2>3. q + 1 \in 1 .. last
    BY <1>2, <2>1, <2>2
  <2>4. \A j \in 1 .. last : r \in t[j] <=> q = j - 1
    OBVIOUS
  <2>5. DOMAIN t = 1 .. last
    OBVIOUS
  <2> HIDE DEF t, q, last
  <2>6. \A j \in 1 .. last : q = j - 1 <=> j = q + 1
    BY <1>2, <2>1
  <2>7. PICK i \in 1 .. last : i = q + 1
    BY <2>3
  <2>8. \A j \in DOMAIN t : r \in t[j] <=> j = i
    BY <2>4, <2>5, <2>6, <2>7
  <2> QED BY <2>5, <2>8 DEF Once
<1> HIDE DEF t
<1> QED BY <1>3, <1>4, <1>5, <1>6

\* A concatenation has the parts of both.
LEMMA PartsJoin ==
  ASSUME NEW s \in Seq(SUBSET Int), NEW t \in Seq(SUBSET Int), NEW r
  PROVE  /\ Once(s, r) /\ Never(t, r) => Once(s \o t, r)
         /\ Never(s, r) /\ Once(t, r) => Once(s \o t, r)
         /\ Never(s, r) /\ Never(t, r) => Never(s \o t, r)
<1>1. Len(s) \in Nat /\ Len(t) \in Nat /\ DOMAIN s = 1 .. Len(s) /\ DOMAIN t = 1 .. Len(t)
  BY LenProperties
<1>2. /\ DOMAIN (s \o t) = 1 .. Len(s) + Len(t)
      /\ \A i \in 1 .. Len(s) + Len(t) : (s \o t)[i] = IF i <= Len(s) THEN s[i] ELSE t[i - Len(s)]
  <2>1. s \o t \in Seq(SUBSET Int) /\ Len(s \o t) = Len(s) + Len(t)
    BY ConcatProperties
  <2> QED BY <2>1, ConcatProperties, LenProperties
<1>3. ASSUME Once(s, r), Never(t, r) PROVE Once(s \o t, r)
  <2>1. PICK i \in 1 .. Len(s) : \A j \in 1 .. Len(s) : r \in s[j] <=> j = i
    BY <1>1, <1>3 DEF Once
  <2>2. i \in 1 .. Len(s) + Len(t)
    BY <1>1
  <2>3. \A j \in 1 .. Len(s) + Len(t) : r \in (s \o t)[j] <=> j = i
    <3>1. TAKE j \in 1 .. Len(s) + Len(t)
    <3>2. CASE j <= Len(s)
      BY <1>1, <1>2, <2>1, <3>2
    <3>3. CASE ~(j <= Len(s))
      BY <1>1, <1>2, <1>3, <3>3 DEF Never
    <3> QED BY <3>2, <3>3
  <2>4. i \in DOMAIN (s \o t) /\ \A j \in DOMAIN (s \o t) : r \in (s \o t)[j] <=> j = i
    BY <1>2, <2>2, <2>3
  <2> QED BY <2>4 DEF Once
<1>4. ASSUME Never(s, r), Once(t, r) PROVE Once(s \o t, r)
  <2>1. PICK i \in 1 .. Len(t) : \A j \in 1 .. Len(t) : r \in t[j] <=> j = i
    BY <1>1, <1>4 DEF Once
  <2>2. PICK k \in 1 .. Len(s) + Len(t) : k = Len(s) + i
    BY <1>1
  <2>3. \A j \in 1 .. Len(s) + Len(t) : r \in (s \o t)[j] <=> j = k
    <3>1. TAKE j \in 1 .. Len(s) + Len(t)
    <3>2. CASE j <= Len(s)
      BY <1>1, <1>2, <1>4, <2>2, <3>2 DEF Never
    <3>3. CASE ~(j <= Len(s))
      BY <1>1, <1>2, <2>1, <2>2, <3>3
    <3> QED BY <3>2, <3>3
  <2>4. k \in DOMAIN (s \o t) /\ \A j \in DOMAIN (s \o t) : r \in (s \o t)[j] <=> j = k
    BY <1>2, <2>2, <2>3
  <2> QED BY <2>4 DEF Once
<1>5. ASSUME Never(s, r), Never(t, r) PROVE Never(s \o t, r)
  BY <1>1, <1>2, <1>5 DEF Never
<1> QED BY <1>3, <1>4, <1>5

\* A part that is all of some rows has each of them once.
LEMMA OnePart ==
  ASSUME NEW s \in Seq(SUBSET Int), NEW rows \in SUBSET Int, NEW r
  PROVE  /\ Append(s, rows) \in Seq(SUBSET Int)
         /\ Never(s, r) /\ r \in rows => Once(Append(s, rows), r)
         /\ Once(s, r) /\ r \notin rows => Once(Append(s, rows), r)
         /\ Never(s, r) /\ r \notin rows => Never(Append(s, rows), r)
<1>1. <<rows>> \in Seq(SUBSET Int) /\ Append(s, rows) = s \o <<rows>>
  BY AppendIsConcat
<1>2. DOMAIN <<rows>> = 1 .. 1 /\ <<rows>>[1] = rows
  OBVIOUS
<1>3. IF r \in rows THEN Once(<<rows>>, r) ELSE Never(<<rows>>, r)
  <2>1. 1 \in DOMAIN <<rows>> /\ \A j \in DOMAIN <<rows>> : j = 1
    BY <1>2
  <2>2. CASE r \in rows
    <3>1. \A j \in DOMAIN <<rows>> : r \in <<rows>>[j] <=> j = 1
      BY <1>2, <2>1, <2>2
    <3> QED BY <2>1, <2>2, <3>1 DEF Once
  <2>3. CASE r \notin rows
    BY <1>2, <2>1, <2>3 DEF Never
  <2> QED BY <2>2, <2>3
<1>4. s \o <<rows>> \in Seq(SUBSET Int)
  BY <1>1, ConcatProperties
<1> QED BY <1>1, <1>3, <1>4, PartsJoin

\* Adding rows that were not counted, in either way, counts them.
LEMMA AddsOnce ==
  ASSUME NEW m, NEW old \in SUBSET Int, NEW a \in Int, NEW b \in Int, a <= b,
         Counted(m, old), IsFiniteSet(old), old \cap (a .. b) = {}, NEW new \in Added(m, a .. b)
  PROVE  Counted(new, old \cup (a .. b))
<1> DEFINE rows == a .. b
           tiles == MetricTiles(rows)
<1>1. /\ m \in [elements : Nat, tiles : Seq(SUBSET Int), fused : Seq(SUBSET Int)]
      /\ m.elements = Cardinality(old)
      /\ \A i \in DOMAIN m.tiles : m.tiles[i] \subseteq old
      /\ \A i \in DOMAIN m.fused : m.fused[i] \subseteq old
      /\ \A r \in old :
             (Once(m.tiles, r) /\ Never(m.fused, r)) \/ (Never(m.tiles, r) /\ Once(m.fused, r))
  BY DEF Counted
<1>2. /\ IsFiniteSet(rows) /\ Cardinality(rows) \in Nat
      /\ Cardinality(old \cup rows) = Cardinality(old) + Cardinality(rows)
  <2>1. IsFiniteSet(rows) /\ old \cap rows = {}
    BY FS_Interval
  <2>2. Cardinality(rows) \in Nat /\ Cardinality(old) \in Nat /\ Cardinality({}) = 0
    BY <2>1, FS_CardinalityType, FS_EmptySet
  <2> HIDE DEF rows
  <2>3. Cardinality(old \cup rows) = Cardinality(old) + Cardinality(rows) - Cardinality(old \cap rows)
    BY <2>1, FS_Union
  <2>4. Cardinality(old \cap rows) = 0
    BY <2>1, <2>2, Zenon
  <2> QED BY <2>1, <2>2, <2>3, <2>4
<1>3. /\ tiles \in Seq(SUBSET Int) /\ \A i \in DOMAIN tiles : tiles[i] \subseteq rows
      /\ \A r \in rows : Once(tiles, r)
  BY TilesPartition
<1>4. \A r \in rows : Never(m.tiles, r) /\ Never(m.fused, r)
  BY <1>1 DEF Never
<1>5. \A r \in old : Never(tiles, r) /\ r \notin rows
  BY <1>3 DEF Never
<1>6. rows \in SUBSET Int
  OBVIOUS
<1> HIDE DEF rows, tiles
<1>7. CASE new = AddTiles(m, rows)
  <2>1. PICK t \in Seq(SUBSET Int) : t = m.tiles \o tiles
    BY <1>1, <1>3, ConcatProperties
  <2>2. new = [elements |-> m.elements + Cardinality(rows), tiles |-> t, fused |-> m.fused]
    BY <1>1, <1>7, <2>1 DEF AddTiles, tiles
  <2>3. \A i \in DOMAIN t : t[i] \subseteq old \cup rows
    <3>1. TAKE i \in DOMAIN t
    <3>2. CASE i <= Len(m.tiles)
      <4>1. t[i] = m.tiles[i] /\ i \in DOMAIN m.tiles
        BY <1>1, <1>3, <2>1, <3>2, ConcatProperties, LenProperties
      <4> QED BY <1>1, <4>1
    <3>3. CASE ~(i <= Len(m.tiles))
      <4>1. t[i] = tiles[i - Len(m.tiles)] /\ i - Len(m.tiles) \in DOMAIN tiles
        BY <1>1, <1>3, <2>1, <3>3, ConcatProperties, LenProperties
      <4> QED BY <1>3, <4>1
    <3> QED BY <3>2, <3>3
  <2>4. \A r \in old \cup rows :
         (Once(t, r) /\ Never(m.fused, r)) \/ (Never(t, r) /\ Once(m.fused, r))
    <3>1. TAKE r \in old \cup rows
    <3>2. /\ Once(m.tiles, r) /\ Never(tiles, r) => Once(t, r)
          /\ Never(m.tiles, r) /\ Once(tiles, r) => Once(t, r)
          /\ Never(m.tiles, r) /\ Never(tiles, r) => Never(t, r)
      <4>1. m.tiles \in Seq(SUBSET Int)
        BY <1>1
      <4> QED BY <1>3, <2>1, <4>1, PartsJoin
    <3>3. CASE r \in old
      <4>1. (Once(m.tiles, r) /\ Never(m.fused, r)) \/ (Never(m.tiles, r) /\ Once(m.fused, r))
        BY <1>1, <3>3, Zenon
      <4>2. Never(tiles, r)
        BY <1>5, <3>3, Zenon
      <4> QED BY <3>2, <4>1, <4>2, Zenon
    <3>4. CASE r \in rows
      <4>1. Once(tiles, r) /\ Never(m.tiles, r) /\ Never(m.fused, r)
        BY <1>3, <1>4, <3>4, Zenon
      <4> QED BY <3>2, <4>1, Zenon
    <3> QED BY <3>3, <3>4
  <2>5. \A i \in DOMAIN m.fused : m.fused[i] \subseteq old \cup rows
    BY <1>1
  <2>6. /\ new.elements = Cardinality(old \cup rows) /\ new.tiles = t /\ new.fused = m.fused
        /\ new \in [elements : Nat, tiles : Seq(SUBSET Int), fused : Seq(SUBSET Int)]
    BY <1>1, <1>2, <2>2
  <2> QED BY <2>3, <2>4, <2>5, <2>6 DEF Counted, rows
<1>8. CASE new = AddFused(m, rows)
  <2>1. PICK f \in Seq(SUBSET Int) : f = Append(m.fused, rows)
    <3>1. m.fused \in Seq(SUBSET Int)
      BY <1>1
    <3> QED BY <1>6, <3>1, AppendProperties
  <2>2. new = [elements |-> m.elements + Cardinality(rows), tiles |-> m.tiles, fused |-> f]
    BY <1>1, <1>8, <2>1 DEF AddFused
  <2>3. \A i \in DOMAIN f : f[i] \subseteq old \cup rows
    <3>1. TAKE i \in DOMAIN f
    <3>2. f[i] = rows \/ (i \in DOMAIN m.fused /\ f[i] = m.fused[i])
      BY <1>1, <1>6, <2>1, AppendProperties, LenProperties
    <3> QED BY <1>1, <3>2
  <2>4. \A r \in old \cup rows :
         (Once(m.tiles, r) /\ Never(f, r)) \/ (Never(m.tiles, r) /\ Once(f, r))
    <3>1. TAKE r \in old \cup rows
    <3>2. /\ Never(m.fused, r) /\ r \in rows => Once(f, r)
          /\ Once(m.fused, r) /\ r \notin rows => Once(f, r)
          /\ Never(m.fused, r) /\ r \notin rows => Never(f, r)
      <4>1. m.fused \in Seq(SUBSET Int)
        BY <1>1
      <4> QED BY <1>6, <2>1, <4>1, OnePart
    <3>3. CASE r \in old
      <4>1. (Once(m.tiles, r) /\ Never(m.fused, r)) \/ (Never(m.tiles, r) /\ Once(m.fused, r))
        BY <1>1, <3>3, Zenon
      <4>2. r \notin rows
        BY <1>5, <3>3, Zenon
      <4> QED BY <3>2, <4>1, <4>2, Zenon
    <3>4. CASE r \in rows
      <4>1. Never(m.tiles, r) /\ Never(m.fused, r)
        BY <1>4, <3>4, Zenon
      <4> QED BY <3>2, <3>4, <4>1, Zenon
    <3> QED BY <3>3, <3>4
  <2>5. \A i \in DOMAIN m.tiles : m.tiles[i] \subseteq old \cup rows
    BY <1>1
  <2>6. /\ new.elements = Cardinality(old \cup rows) /\ new.tiles = m.tiles /\ new.fused = f
        /\ new \in [elements : Nat, tiles : Seq(SUBSET Int), fused : Seq(SUBSET Int)]
    BY <1>1, <1>2, <2>2
  <2> QED BY <2>3, <2>4, <2>5, <2>6 DEF Counted, rows
<1> QED BY <1>7, <1>8 DEF Added, rows

\* Rows that were counted once are what the statistics are about.
LEMMA CountedMeasured ==
  ASSUME NEW m, NEW rows \in SUBSET Int, Counted(m, rows)
  PROVE  Measured(m) = rows
<1>1. /\ m.tiles \in Seq(SUBSET Int) /\ m.fused \in Seq(SUBSET Int)
      /\ m.elements = Cardinality(rows)
  BY DEF Counted
<1>2. PICK p \in Seq(SUBSET Int) : p = Parts(m)
  BY <1>1, ConcatProperties DEF Parts
<1>3. \A r \in rows : Once(p, r)
  BY <1>1, <1>2, PartsJoin DEF Counted, Parts
<1>4. \A r : r \notin rows => Never(p, r)
  <2>1. TAKE r
  <2>2. r \notin rows => Never(m.tiles, r) /\ Never(m.fused, r)
    BY DEF Counted, Never
  <2> QED BY <1>1, <1>2, <2>2, PartsJoin DEF Parts
<1>5. UNION {p[i] : i \in DOMAIN p} = rows
  <2>1. \A r \in rows : \E i \in DOMAIN p : r \in p[i]
    BY <1>3 DEF Once
  <2>2. \A i \in DOMAIN p : \A r \in p[i] : r \in rows
    BY <1>4 DEF Never
  <2> QED BY <2>1, <2>2
<1>6. \A r \in rows : Cardinality({i \in DOMAIN p : r \in p[i]}) = 1
  <2>1. TAKE r \in rows
  <2>2. PICK i \in DOMAIN p : \A j \in DOMAIN p : r \in p[j] <=> j = i
    BY <1>3 DEF Once
  <2>3. {j \in DOMAIN p : r \in p[j]} = {i}
    BY <2>2
  <2> QED BY <2>3, FS_Singleton
<1>7. UNION {Parts(m)[i] : i \in DOMAIN Parts(m)} = rows
  BY <1>2, <1>5
<1>8. \A r \in rows : Cardinality({i \in DOMAIN Parts(m) : r \in Parts(m)[i]}) = 1
  BY <1>2, <1>6
<1> QED BY <1>1, <1>7, <1>8 DEF Measured

-----------------------------------------------------------------------------
(***************************************************************************)
(* The steps of the sparse call.                                           *)
(***************************************************************************)
\* The rows before the gate's next one, and those it compares now.
LEMMA QualifyStep ==
  ASSUME IInv, Qualify, UNCHANGED <<affineVars, native>>
  PROVE  IInv'
<1> DEFINE rows == {r \in QueryRows : r - Origin \in gate.next .. gate.next + GateRows - 1}
           old == {r \in QueryRows : r - Origin < gate.next}
<1>1. /\ UNCHANGED <<block, plan, traceback, calls, carriers, views, cursor, stream, result, output>>
      /\ UNCHANGED <<kernel, verified, qualified, affine, native>>
      /\ phase = "gate" /\ phase' = "gate" /\ rows # {}
      /\ \E metrics \in Added(gate.metrics, rows) :
           gate' = [next |-> gate.next + GateRows, metrics |-> metrics]
  BY DEF Qualify, Goto, kernelVars, affineVars
<1>2. Typed'
  BY <1>1 DEF IInv, Typed
<1>3. /\ Held' /\ Retained' /\ Raised' /\ HiddenFits'
      /\ UNCHANGED <<Rows, Whole, Expected, Before, QueryRows, Origin>>
  <2>1. stream # None => stream.prepared = Whole
    BY <1>1 DEF IInv, Held, Attends
  <2> QED BY <1>1, <2>1, StillAsked DEF Asking
<1>4. UNCHANGED Sparse
  BY <1>1 DEF Sparse, Representable
<1>5. KernelKnown' /\ OutputFits'
  BY <1>1, <1>3, <1>4 DEF IInv, KernelKnown, OutputFits, Asking, Representable
<1>6. Gated'
  <2>1. /\ Origin = cursor /\ cursor \in Nat /\ Asked \in Nat \ {0}
        /\ QueryRows = cursor .. cursor + Asked - 1 /\ IsFiniteSet(QueryRows)
    BY <1>1, AskingFits, QueriesFit DEF Asking
  <2>2. gate.next \in Nat /\ Counted(gate.metrics, old) /\ GateRows \in Nat \ {0}
    BY <1>1, StreamAssumption DEF IInv, Gated
  <2>3. old \in SUBSET Int /\ IsFiniteSet(old)
    BY <2>1, FS_Subset
  <2>4. PICK a \in Int, b \in Int : a <= b /\ rows = a .. b
    <3> DEFINE a == cursor + gate.next
               b == Least(gate.next + GateRows, Asked) - 1 + cursor
    <3>1. PICK r \in QueryRows : r - Origin \in gate.next .. gate.next + GateRows - 1
      BY <1>1
    <3>2. a \in Int /\ b \in Int /\ a <= b
      BY <2>1, <2>2, <3>1 DEF Least
    <3>3. rows = a .. b
      BY <2>1, <2>2 DEF Least
    <3> QED BY <3>2, <3>3
  <2>5. old \cap (a .. b) = {}
    BY <2>1, <2>2, <2>4
  <2>6. old \cup (a .. b) = {r \in QueryRows : r - Origin < gate.next + GateRows}
    <3>1. old \cup rows = {r \in QueryRows : r - Origin < gate.next + GateRows}
      BY <2>1, <2>2
    <3> QED BY <2>4, <3>1
  <2>7. PICK metrics \in Added(gate.metrics, a .. b) :
          gate' = [next |-> gate.next + GateRows, metrics |-> metrics]
    BY <1>1, <2>4
  <2>8. Counted(metrics, old \cup (a .. b))
    BY <2>2, <2>3, <2>4, <2>5, <2>7, AddsOnce
  <2>9. gate'.next = gate.next + GateRows /\ gate'.metrics = metrics
    BY <2>7
  <2>10. Counted(gate'.metrics, {r \in QueryRows' : r - Origin' < gate'.next})
    BY <1>3, <2>6, <2>8, <2>9
  <2>11. gate'.next \in Nat
    BY <2>2, <2>9
  <2> QED BY <1>1, <2>10, <2>11 DEF Gated
<1>7. Qualified'
  BY <1>1 DEF IInv, Qualified
<1> QED BY <1>2, <1>3, <1>5, <1>6, <1>7 DEF IInv

\* The gate passes when it has seen every row of the call.
LEMMA JudgeStep ==
  ASSUME IInv, Judge, UNCHANGED <<affineVars, native>>
  PROVE  IInv'
<1>1. /\ UNCHANGED <<block, plan, traceback, calls, carriers, views, cursor, stream, result, output>>
      /\ UNCHANGED <<kernel, affine, native>>
      /\ phase = "gate" /\ phase' = "run" /\ gate' = None
      /\ gate.next >= Cardinality(QueryRows)
      /\ verified' = verified \cup {GateKey}
      /\ qualified' = qualified \cup
           {<<Cardinality(QueryRows), block.rows, r>> : r \in Measured(gate.metrics)}
  BY DEF Judge, Goto, affineVars
<1>2. Typed'
  BY <1>1 DEF IInv, Typed, Phases
<1>3. /\ Held' /\ Retained' /\ Raised' /\ HiddenFits'
      /\ UNCHANGED <<Rows, Whole, Expected, Before, QueryRows, Origin>>
  <2>1. stream # None => stream.prepared = Whole
    BY <1>1 DEF IInv, Held, Attends
  <2> QED BY <1>1, <2>1, StillAsked DEF Asking
<1>4. UNCHANGED Sparse
  BY <1>1 DEF Sparse, Representable
<1>5. KernelKnown' /\ OutputFits' /\ Gated'
  BY <1>1, <1>3, <1>4 DEF IInv, KernelKnown, OutputFits, Gated, Asking, Representable
<1>6. /\ Origin = cursor /\ cursor \in Nat /\ Asked \in Nat \ {0} /\ block.rows \in Nat
      /\ QueryRows = cursor .. cursor + Asked - 1 /\ Cardinality(QueryRows) = Asked
  BY <1>1, AskingFits, QueriesFit, Sizes DEF Asking
<1>7. Measured(gate.metrics) = QueryRows
  <2>1. gate.next \in Nat /\ Counted(gate.metrics, {r \in QueryRows : r - Origin < gate.next})
    BY <1>1 DEF IInv, Gated
  <2>2. {r \in QueryRows : r - Origin < gate.next} = QueryRows
    BY <1>1, <1>6, <2>1
  <2>3. QueryRows \in SUBSET Int
    BY <1>6
  <2> QED BY <2>1, <2>2, <2>3, CountedMeasured
<1>8. GateKey = <<Asked, block.rows, cursor>>
  BY <1>6 DEF GateKey
<1>9. Qualified'
  <2>1. verified' \subseteq Nat \X Nat \X Nat
    BY <1>1, <1>6, <1>8 DEF IInv, Qualified
  <2>2. qualified' = qualified \cup {<<Asked, block.rows, r>> : r \in QueryRows}
    BY <1>1, <1>6, <1>7
  <2>3. qualified' \subseteq Nat \X Nat \X Nat
    <3>1. \A r \in QueryRows : <<Asked, block.rows, r>> \in Nat \X Nat \X Nat
      BY <1>6
    <3> QED BY <2>2, <3>1 DEF IInv, Qualified
  <2>4. \A key \in verified' : \A r \in key[3] .. key[3] + key[1] - 1 :
          <<key[1], key[2], r>> \in qualified'
    <3>1. \A key \in verified : \A r \in key[3] .. key[3] + key[1] - 1 :
            <<key[1], key[2], r>> \in qualified'
      BY <2>2 DEF IInv, Qualified
    <3>2. \A r \in cursor .. cursor + Asked - 1 : <<Asked, block.rows, r>> \in qualified'
      BY <1>6, <2>2
    <3>3. GateKey[1] = Asked /\ GateKey[2] = block.rows /\ GateKey[3] = cursor
      BY <1>8
    <3> QED BY <1>1, <3>1, <3>2, <3>3
  <2>5. GateKey' \in verified'
    BY <1>1, <1>3 DEF GateKey
  <2> QED BY <2>1, <2>3, <2>4, <2>5 DEF Qualified
<1> QED BY <1>2, <1>3, <1>5, <1>9 DEF IInv

\* Every row of a call gets what one call for the whole sequence computes.
LEMMA SparseExpected ==
  ASSUME IInv, phase = "run"
  PROVE  \A r \in QueryRows :
           (IF r \in PrefixRows THEN DenseRow
            ELSE SparseRow(Call, QueryRows, IF stream = None THEN KV ELSE stream.prepared, r))
             = Expected[TRUE][r]
<1>1. /\ block \in BlockCall /\ CursorFits
      /\ stream = None => cursor = 0
      /\ stream # None => stream.start = cursor
      /\ KV = Whole
  BY AskingFits DEF Asking
<1>2. /\ Origin = cursor /\ cursor \in Nat /\ Asked \in Nat \ {0} /\ cursor + Asked <= block.rows
      /\ QueryRows = cursor .. cursor + Asked - 1 /\ QueryRows \subseteq Rows
      /\ Cardinality(QueryRows) = Asked /\ block.prefix \in Nat
  BY <1>1, QueriesFit, Sizes
<1>3. (IF stream = None THEN KV ELSE stream.prepared) = Whole
  BY <1>1 DEF IInv, Held, Attends
<1>4. PICK k \in 0 .. cursor : cursor = k * BlockLen
  BY <1>1 DEF CursorFits
<1>5. SUFFICES ASSUME NEW r \in QueryRows
               PROVE  (IF r \in PrefixRows THEN DenseRow ELSE SparseRow(Call, QueryRows, Whole, r))
                        = Expected[TRUE][r]
  BY <1>3
<1>6. Expected[TRUE][r] = Unstreamed(TRUE, r)
  BY <1>2 DEF Expected
<1>7. r \in PrefixRows <=> r < block.prefix
  BY <1>2 DEF PrefixRows, Least
<1>8. CASE r < block.prefix
  BY <1>1, <1>6, <1>7, <1>8 DEF Unstreamed, DenseRow, Whole
<1>9. CASE ~(r < block.prefix)
  <2> DEFINE tile == (r - cursor) \div BlockLen
  <2>1. /\ tile \in Nat /\ k + tile = r \div BlockLen
        /\ {x \in QueryRows : (x - cursor) \div BlockLen = tile} =
             {x \in Rows : x \div BlockLen = r \div BlockLen}
    BY <1>1, <1>2, <1>4, TileShifts
  <2>2. (CHOOSE x \in QueryRows : \A y \in QueryRows : x <= y) = cursor
    <3>1. cursor \in Int /\ cursor + Asked - 1 \in Int /\ cursor <= cursor + Asked - 1
      BY <1>2
    <3> QED BY <1>2, <3>1, FirstRow
  <2>3. Job(Call, tile, 0) = Job(Square, r \div BlockLen, 0)
    <3>1. Origin = k * BlockLen /\ k \in Nat
      BY <1>2, <1>4
    <3> HIDE DEF tile
    <3>2. Job(Call, tile, 0) = Job(Square, k + tile, 0)
      BY <2>1, <3>1, JobShifts
    <3> QED BY <2>1, <3>2
  <2>4. SparseRow(Call, QueryRows, Whole, r) =
          [dense |-> FALSE, kv |-> Whole, summaries |-> Whole, job |-> Job(Square, r \div BlockLen, 0),
           tile |-> {x \in Rows : x \div BlockLen = r \div BlockLen}]
    BY <1>1, <2>1, <2>2, <2>3 DEF SparseRow
  <2>5. Unstreamed(TRUE, r) =
          [dense |-> FALSE, kv |-> Whole, summaries |-> Whole, job |-> Job(Square, r \div BlockLen, 0),
           tile |-> {x \in Rows : x \div BlockLen = r \div BlockLen}]
    BY <1>9 DEF Unstreamed, Whole
  <2> QED BY <1>6, <1>7, <1>9, <2>4, <2>5
<1> QED BY <1>8, <1>9

LEMMA RunSparseStep ==
  ASSUME IInv, RunSparse, UNCHANGED <<affineVars, native>>
  PROVE  IInv'
<1>1. /\ UNCHANGED <<block, plan, traceback, calls, carriers, views, cursor, stream, gate, output>>
      /\ UNCHANGED <<kernel, verified, qualified, affine, native>>
      /\ phase = "run" /\ phase' = "copyOut"
      /\ result' = [r \in QueryRows |->
           IF r \in PrefixRows THEN DenseRow
           ELSE SparseRow(Call, QueryRows, IF stream = None THEN KV ELSE stream.prepared, r)]
  BY DEF RunSparse, Computed, Goto, kernelVars, affineVars
<1>2. Typed'
  BY <1>1 DEF IInv, Typed, Phases
<1>3. /\ Held' /\ Retained' /\ Raised' /\ HiddenFits'
      /\ UNCHANGED <<Rows, Whole, Expected, Before, QueryRows, Origin>>
  BY <1>1, StillAsked DEF Asking
<1>4. UNCHANGED Sparse /\ Sparse
  BY <1>1 DEF IInv, KernelKnown, Sparse, Representable
<1>5. KernelKnown' /\ Gated'
  BY <1>1, <1>4 DEF IInv, KernelKnown, Gated, Sparse
<1>6. OutputFits'
  <2>1. result' = [r \in QueryRows |-> Expected[TRUE][r]]
    BY <1>1, SparseExpected
  <2>2. Sparse = TRUE
    BY <1>4 DEF Sparse
  <2>3. output = [r \in Before |-> Expected[Sparse][r]]
    BY <1>1 DEF IInv, OutputFits, Asking
  <2>4. result' = [r \in QueryRows |-> Expected[Sparse][r]]
    BY <2>1, <2>2
  <2> QED BY <1>1, <1>3, <1>4, <2>3, <2>4 DEF OutputFits, Asking
<1>7. Qualified'
  BY <1>1, <1>3 DEF IInv, Qualified, GateKey
<1> QED BY <1>2, <1>3, <1>5, <1>6, <1>7 DEF IInv

\* The chunk's rows join those before it.
LEMMA CopyOutStep ==
  ASSUME IInv, CopyOut, UNCHANGED <<affineVars, native>>
  PROVE  IInv'
<1>1. /\ UNCHANGED <<block, plan, traceback, calls, carriers, stream, gate>>
      /\ UNCHANGED <<kernel, verified, qualified, affine, native>>
      /\ phase = "copyOut" /\ result' = <<>>
      /\ output' = [r \in DOMAIN output \cup DOMAIN result |->
                     IF r \in DOMAIN result THEN result[r] ELSE output[r]]
      /\ views' = [n \in Names |-> IF n \in {"q"} THEN None ELSE views[n]]
      /\ \/ /\ stream # None /\ cursor + ChunkSize < block.rows
            /\ cursor' = cursor + ChunkSize /\ phase' = "projectQ"
         \/ /\ ~(stream # None /\ cursor + ChunkSize < block.rows)
            /\ cursor' = 0 /\ phase' = "release"
  BY DEF CopyOut, Drop, Goto, kernelVars, affineVars
<1>2. Typed'
  BY <1>1 DEF IInv, Typed, Phases
<1>3. UNCHANGED <<Rows, Whole, Expected, Sparse>>
  BY <1>1, SameBlock DEF Sparse, Representable
<1>4. /\ block \in BlockCall /\ CursorFits
      /\ stream = None => cursor = 0
      /\ stream # None => stream.start = cursor
      /\ output = [r \in Before |-> Expected[Sparse][r]]
      /\ stream \in {None} \cup [start : Rows, prepared : {None, Whole}]
      /\ plan.attention = IF stream = None THEN "native" ELSE "streamed"
  BY <1>1, AskingFits DEF Asking
<1>5. CursorFits'
  <2>1. (block \in BlockCall /\ cursor = 0 => CursorFits)'
    BY AtRow0, PTL
  <2> QED BY <1>1, <1>2, <1>3, <1>4, <2>1, ChunkEnds DEF CursorFits, Typed
<1>6. output' = [r \in Before \cup QueryRows |-> Expected[Sparse][r]]
  <2>1. result = [r \in QueryRows |-> Expected[Sparse][r]]
    BY <1>1 DEF IInv, OutputFits
  <2> QED BY <1>1, <1>4, <2>1
<1>7. Before \cup QueryRows = IF phase' = "release" THEN Rows ELSE Before'
  <2>1. CASE stream = None
    <3>1. Before = {} /\ QueryRows = Rows /\ phase' = "release"
      BY <1>1, <1>4, <2>1, AtRow0 DEF QueryRows
    <3> QED BY <3>1
  <2>2. CASE stream # None
    <3>1. QueryRows = Chunk(cursor)
      BY <2>2 DEF QueryRows
    <3>2. CASE cursor + ChunkSize < block.rows
      <4>1. Before' = 0 .. (cursor + ChunkSize) - 1
        BY <1>1, <2>2, <3>2 DEF Before
      <4> QED BY <1>1, <1>4, <2>2, <3>1, <3>2, <4>1, ChunkEnds
    <3>3. CASE ~(cursor + ChunkSize < block.rows)
      BY <1>1, <1>4, <2>2, <3>1, <3>3, ChunkEnds
    <3> QED BY <3>2, <3>3
  <2> QED BY <2>1, <2>2
<1>8. Rests' /\ Loads' /\ ViewsFit'
  <2>1. views \in [Names -> {None, cursor}] /\ \A n \in Names : views[n] # None => n = "q"
    BY <1>1 DEF IInv, Held, ViewsFit, Asking
  <2>2. views' = [n \in Names |-> None]
    BY <1>1, <2>1
  <2> QED BY <1>1, <2>2 DEF Rests, Resting, Loads, ViewsFit
<1>9. Attends'
  <2>1. carriers = [q |-> {}, k |-> Rows, v |-> Rows]
    BY <1>1 DEF IInv, Held, Attends, Asking
  <2> QED BY <1>1, <1>3, <1>4, <2>1 DEF Attends, Asking
<1>10. KernelKnown' /\ Gated' /\ Raised'
  BY <1>1 DEF IInv, KernelKnown, Gated, Raised, Asking, Representable
<1>11. OutputFits'
  <2>1. phase' = "release" => output' = Expected[Sparse]
    <3>1. \A s \in BOOLEAN : Expected[s] = [r \in Rows |-> Expected[s][r]]
      BY DEF Expected
    <3>2. Sparse \in BOOLEAN
      BY DEF Sparse
    <3> QED BY <1>6, <1>7, <3>1, <3>2
  <2>2. phase' = "projectQ" => output' = [r \in Before' |-> Expected[Sparse][r]]
    BY <1>6, <1>7
  <2> QED BY <1>1, <1>3, <2>1, <2>2 DEF OutputFits, Asking
<1>12. Qualified' /\ HiddenFits'
  BY <1>1 DEF IInv, Qualified, HiddenFits, Modulation
<1>13. Retained'
  BY <1>1, NothingRetained
<1> QED BY <1>2, <1>5, <1>8, <1>9, <1>10, <1>11, <1>12, <1>13 DEF IInv, Held

\* An invocation that returns gives up its workspace.
LEMMA ReleaseStep ==
  ASSUME IInv, Release, UNCHANGED <<affineVars, native>>
  PROVE  IInv'
<1>1. /\ UNCHANGED <<block, plan, traceback, calls, cursor, output>>
      /\ UNCHANGED <<kernel, verified, qualified, affine, native>>
      /\ stream' = None /\ gate' = None /\ result' = <<>>
      /\ phase \in {"release", "vdn"} /\ phase' = "out"
      /\ carriers' = [f \in DOMAIN carriers |-> IF f \in traceback THEN carriers[f] ELSE {}]
      /\ views' = [n \in Names |-> IF n \in traceback THEN views[n] ELSE None]
  BY DEF Release, Released, Goto, kernelVars, affineVars
<1>2. Typed'
  BY <1>1 DEF IInv, Typed, Phases
<1>3. UNCHANGED <<Expected, Sparse>>
  BY <1>1, SameBlock DEF Sparse, Representable
<1>4. carriers' = NoCarriers /\ views' = NoViews /\ cursor' = 0
  <2>1. traceback = {} /\ cursor = 0
    BY <1>1 DEF IInv, Retained, Held, Loads, Attends
  <2>2. DOMAIN carriers = {"q", "k", "v"}
    BY <1>1 DEF IInv, Held, Loads, Attends
  <2>3. carriers' = [f \in {"q", "k", "v"} |-> {}]
    BY <1>1, <2>1, <2>2
  <2> QED BY <1>1, <2>1, <2>3 DEF NoCarriers, NoViews
<1>5. CursorFits'
  <2>1. (block \in BlockCall /\ cursor = 0 => CursorFits)'
    BY AtRow0, PTL
  <2> QED BY <1>2, <1>4, <2>1 DEF Typed
<1>6. Rests' /\ Loads' /\ Attends' /\ ViewsFit'
  BY <1>1, <1>4 DEF Rests, Resting, Loads, Attends, Asking, ViewsFit, NoViews
<1>7. OutputFits'
  <2>1. phase = "vdn" => output = <<>> /\ plan.attention = "vdn"
    BY DEF IInv, OutputFits, Asking, Held, Loads
  <2>2. phase = "release" => output = Expected[Sparse]
    BY DEF IInv, OutputFits
  <2> QED BY <1>1, <1>3, <2>1, <2>2 DEF OutputFits, Asking
<1>8. KernelKnown' /\ Gated' /\ Raised' /\ HiddenFits'
  BY <1>1 DEF KernelKnown, Gated, Raised, HiddenFits, Modulation, Asking
<1>9. Qualified' /\ Retained'
  BY <1>1, NothingRetained DEF IInv, Qualified
<1> QED BY <1>2, <1>5, <1>6, <1>7, <1>8, <1>9 DEF IInv, Held

\* One that an exception leaves gives up what its own names and stream hold.
LEMMA UnwindStep ==
  ASSUME IInv, Unwind, UNCHANGED <<affineVars, native>>
  PROVE  IInv'
<1>1. /\ UNCHANGED <<block, plan, traceback, calls, cursor>>
      /\ UNCHANGED <<kernel, verified, qualified, affine, native>>
      /\ stream' = None /\ gate' = None /\ result' = <<>> /\ output' = <<>>
      /\ phase = "raised" /\ phase' = "failed"
      /\ carriers' = [f \in DOMAIN carriers |-> IF f \in traceback THEN carriers[f] ELSE {}]
      /\ views' = [n \in Names |-> IF n \in traceback THEN views[n] ELSE None]
  BY DEF Unwind, Released, Goto, kernelVars, affineVars
<1>2. Typed'
  BY <1>1 DEF IInv, Typed, Phases
<1>3. UNCHANGED Rows
  BY <1>1, SameBlock
<1>4. CursorFits' /\ Rests' /\ Loads' /\ Attends'
  BY <1>1, <1>3 DEF IInv, Held, CursorFits, Rests, Resting, Loads, Attends, Asking
<1>5. ViewsFit'
  <2>1. views \in [Names -> {None, cursor}]
    BY DEF IInv, Held, ViewsFit
  <2> QED BY <1>1, <2>1 DEF ViewsFit
<1>6. KernelKnown' /\ OutputFits' /\ Gated' /\ HiddenFits'
  BY <1>1 DEF KernelKnown, OutputFits, Gated, HiddenFits, Modulation, Asking
<1>7. Qualified'
  BY <1>1 DEF IInv, Qualified
<1>8. Raised' /\ Retained'
  <2>1. /\ carriers \in [{"q", "k", "v"} -> SUBSET Rows]
        /\ plan.attention # "vdn" => carriers.q = {}
        /\ traceback \subseteq Names \cup {"q", "k", "v"}
    BY <1>1 DEF IInv, Raised, Retained
  <2>2. carriers' = [f \in {"q", "k", "v"} |-> IF f \in traceback THEN carriers[f] ELSE {}]
    BY <1>1, <2>1
  <2>3. carriers' \in [{"q", "k", "v"} -> SUBSET Rows] /\ (plan.attention # "vdn" => carriers'.q = {})
    BY <2>1, <2>2
  <2>4. \A f \in {"q", "k", "v"} : carriers'[f] # {} => f \in traceback
    BY <2>2
  <2>5. \A n \in Names : views'[n] # None => n \in traceback
    BY <1>1
  <2> QED BY <1>1, <1>3, <2>1, <2>3, <2>4, <2>5 DEF Raised, Retained
<1> QED BY <1>2, <1>4, <1>5, <1>6, <1>7, <1>8 DEF IInv, Held

\* An exception leaves everything where it was, with the chunk just projected.
LEMMA RaiseStep ==
  ASSUME IInv, NEW projected \in BOOLEAN, Raise(projected), UNCHANGED <<affineVars, native>>
  PROVE  IInv'
<1>1. /\ UNCHANGED <<block, plan, calls, carriers, cursor, stream, gate, result, output>>
      /\ UNCHANGED <<kernel, verified, qualified, affine, native>>
      /\ phase \in Fallible /\ phase' = "raised" /\ traceback' = Frames(projected)
      /\ \/ \E names \in SUBSET Names : views' = [n \in Names |-> IF n \in names THEN cursor ELSE views[n]]
         \/ views' = views
  BY DEF Raise, Bind, ChunkNames, Names, kernelVars, affineVars
<1>2. Typed'
  BY <1>1 DEF IInv, Typed, Phases
<1>3. UNCHANGED Rows /\ block \in BlockCall /\ CursorFits
  BY <1>1, SameBlock DEF IInv, Typed, Held
<1>4. CursorFits' /\ Rests' /\ Loads' /\ Attends'
  BY <1>1, <1>3 DEF CursorFits, Rests, Resting, Loads, Attends, Asking
<1>5. ViewsFit'
  <2>1. views \in [Names -> {None, cursor}]
    BY DEF IInv, Held, ViewsFit
  <2> QED BY <1>1, <2>1 DEF ViewsFit
<1>6. KernelKnown' /\ OutputFits' /\ Gated' /\ HiddenFits'
  BY <1>1 DEF IInv, KernelKnown, OutputFits, Gated, HiddenFits, Modulation, Asking
<1>7. Qualified'
  BY <1>1 DEF IInv, Qualified
<1>8. Raised'
  <2>1. Before \subseteq Rows /\ {} \subseteq Rows
    BY <1>3, Sizes DEF Before, CursorFits
  <2>2. carriers \in [{"q", "k", "v"} -> SUBSET Rows] /\ (plan.attention # "vdn" => carriers.q = {})
    <3>1. \/ \E s \in {{}, Before, Rows} : carriers = [q |-> {}, k |-> s, v |-> s]
          \/ \E s \in {Before, Rows} : carriers = [q |-> s, k |-> s, v |-> s] /\ plan.attention = "vdn"
      BY <1>1 DEF IInv, Held, Loads, Attends, Fallible, Asking
    <3> QED BY <2>1, <3>1
  <2>3. stream # None => stream.start \in Rows
    BY <1>1 DEF IInv, Held, Loads, Attends, Fallible, Asking
  <2>4. DOMAIN result \subseteq Rows
    <3>1. CASE phase = "copyOut"
      <4>1. QueryRows \subseteq Rows
        BY <1>3, <3>1, AskingFits, QueriesFit DEF Asking
      <4> QED BY <3>1, <4>1 DEF IInv, OutputFits
    <3>2. CASE phase # "copyOut"
      BY <1>1, <3>2 DEF IInv, OutputFits, Fallible
    <3> QED BY <3>1, <3>2
  <2>5. DOMAIN output \subseteq Rows
    <3>1. output = <<>> \/ output = [r \in Before |-> Expected[Sparse][r]]
      BY <1>1 DEF IInv, OutputFits, Fallible, Asking
    <3> QED BY <2>1, <3>1
  <2> QED BY <1>1, <1>3, <2>2, <2>3, <2>4, <2>5 DEF Raised
<1>9. Retained'
  <2>1. Frames(projected) \subseteq Names \cup {"q", "k", "v"}
    BY DEF Frames, ChunkNames, Names
  <2> QED BY <1>1, <2>1 DEF Retained
<1> QED BY <1>2, <1>4, <1>5, <1>6, <1>7, <1>8, <1>9 DEF IInv, Held

\* Every step, and a stutter.
LEMMA StepIInv == IInv /\ [Next]_executionVars => IInv'
<1> SUFFICES ASSUME IInv, [Next]_executionVars PROVE IInv'
  OBVIOUS
<1>1. CASE \E b \in Blocks : Begin(b)
  BY <1>1, BeginStep
<1>2. CASE Affine /\ UNCHANGED <<streamVars, native>>
  BY <1>2, AffineStep
<1>3. CASE AffineFails /\ UNCHANGED <<streamVars, native>>
  BY <1>3, RestStep
<1>4. CASE Streaming /\ UNCHANGED <<affineVars, native>>
  BY <1>4, ProjectStep, CopyStep, StartQueriesStep, ProjectQStep, AttendStep, LoadKernelStep,
     PrepareKVStep, QualifyStep, JudgeStep, RunSparseStep, CopyOutStep, ReleaseStep, UnwindStep,
     RaiseStep
  DEF Streaming
<1>5. CASE Modulated \/ Returned
  BY <1>5, RestStep
<1>6. CASE Attention
  BY <1>6, AttentionStep
<1>7. CASE Projected
  BY <1>7, ProjectedStep
<1>8. CASE NewRequest
  BY <1>8, NewRequestStep
<1>9. CASE UNCHANGED executionVars
  <2>1. /\ UNCHANGED <<block, phase, plan, traceback, calls, carriers, views, cursor, stream, gate, result, output>>
        /\ UNCHANGED <<kernel, verified, qualified, hidden, next, affine, native>>
    BY <1>9 DEF executionVars, blockVars, streamVars, kernelVars, affineVars
  <2>2. UNCHANGED <<Rows, Whole, Expected, Before, Sparse>>
    BY <2>1, SameBlock DEF Before, Sparse, Representable
  <2>3. UNCHANGED <<QueryRows, Origin, Covered>>
    BY <2>1, <2>2 DEF QueryRows, Origin, Chunk, Covered
  <2>4. Typed'
    BY <2>1 DEF IInv, Typed
  <2>5. Held'
    BY <2>1, <2>2 DEF IInv, Held, CursorFits, Rests, Loads, Attends, ViewsFit
  <2>6. KernelKnown' /\ OutputFits'
    BY <2>1, <2>2, <2>3 DEF IInv, KernelKnown, OutputFits, Representable
  <2>7. Gated' /\ Qualified' /\ Raised' /\ Retained' /\ HiddenFits'
    BY <2>1, <2>2, <2>3 DEF IInv, Gated, Qualified, GateKey, Raised, Retained, HiddenFits
  <2> QED BY <2>4, <2>5, <2>6, <2>7 DEF IInv
<1> QED BY <1>1, <1>2, <1>3, <1>4, <1>5, <1>6, <1>7, <1>8, <1>9 DEF Next

-----------------------------------------------------------------------------
(***************************************************************************)
(* The theorems.                                                           *)
(***************************************************************************)
\* The inductive invariant holds in every reachable state: what the carriers,
\* views and stream of an invocation are at each place, what has been computed,
\* counted and qualified, and how far the modulation is.
THEOREM BlockCorrect == Spec => []IInv
<1> QED BY InitIInv, StepIInv, PTL DEF Spec

\* Every variable keeps its type.
THEOREM BlockTypes == Spec => []TypeOK
<1>1. IInv => TypeOK
  <2> SUFFICES ASSUME IInv PROVE TypeOK
    OBVIOUS
  <2>1. Rows \subseteq Nat /\ Before \subseteq Rows /\ cursor \in Rows /\ block \in BlockCall
    BY Sizes DEF IInv, Typed, Held, CursorFits, Before
  <2>2. carriers \in [{"q", "k", "v"} -> SUBSET Rows]
    <3>1. \/ \E s \in {{}, Before, Rows} : carriers = [q |-> {}, k |-> s, v |-> s]
          \/ \E s \in {Before, Rows} : carriers = [q |-> s, k |-> s, v |-> s]
          \/ carriers \in [{"q", "k", "v"} -> SUBSET Rows]
      BY DEF IInv, Typed, Phases, Held, Rests, Resting, Loads, Attends, Asking, Raised, NoCarriers
    <3>2. ASSUME NEW s \in {{}, Before, Rows},
                 carriers = [q |-> {}, k |-> s, v |-> s] \/ carriers = [q |-> s, k |-> s, v |-> s]
          PROVE  carriers \in [{"q", "k", "v"} -> SUBSET Rows]
      <4>1. s \in SUBSET Rows /\ {} \in SUBSET Rows
        BY <2>1
      <4>2. CASE carriers = [q |-> {}, k |-> s, v |-> s]
        BY <4>1, <4>2
      <4>3. CASE carriers = [q |-> s, k |-> s, v |-> s]
        BY <4>1, <4>3
      <4> QED BY <3>2, <4>2, <4>3
    <3>3. CASE \E s \in {{}, Before, Rows} : carriers = [q |-> {}, k |-> s, v |-> s]
      <4>1. PICK s \in {{}, Before, Rows} : carriers = [q |-> {}, k |-> s, v |-> s]
        BY <3>3
      <4> QED BY <3>2, <4>1
    <3>4. CASE \E s \in {Before, Rows} : carriers = [q |-> s, k |-> s, v |-> s]
      <4>1. PICK s \in {Before, Rows} : carriers = [q |-> s, k |-> s, v |-> s]
        BY <3>4
      <4>2. s \in {{}, Before, Rows}
        BY <4>1
      <4>3. carriers \in [{"q", "k", "v"} -> SUBSET Rows]
        BY <3>2, <4>1, <4>2
      <4> QED BY <4>3
    <3> QED BY <3>1, <3>3, <3>4
  <2>3. views \in [Names -> Rows \cup {None}]
    BY <2>1 DEF IInv, Held, ViewsFit
  <2>4. stream # None => stream.start \in Rows
    BY DEF IInv, Typed, Phases, Held, Rests, Resting, Loads, Attends, Asking, Raised
  <2>5. DOMAIN result \subseteq Rows
    <3>1. CASE phase = "copyOut"
      <4>1. QueryRows \subseteq Rows
        BY <3>1, AskingFits, QueriesFit DEF Asking
      <4> QED BY <3>1, <4>1 DEF IInv, OutputFits
    <3>2. CASE phase # "copyOut"
      BY <3>2 DEF IInv, OutputFits, Raised
    <3> QED BY <3>1, <3>2
  <2>6. DOMAIN output \subseteq Rows
    <3>1. Expected[Sparse] = [r \in Rows |-> Expected[Sparse][r]]
      BY DEF Expected, Sparse
    <3>2. \/ output = <<>> \/ output = Expected[Sparse] \/ phase = "raised"
          \/ output = [r \in Before |-> Expected[Sparse][r]]
      BY DEF IInv, OutputFits
    <3> QED BY <2>1, <3>1, <3>2 DEF IInv, Raised
  <2>7. traceback \subseteq Names \cup DOMAIN carriers
    BY <2>2 DEF IInv, Retained
  <2>8. \A f \in DOMAIN carriers : carriers[f] \subseteq Rows
    BY <2>2
  <2> QED BY <2>1, <2>3, <2>4, <2>5, <2>6, <2>7, <2>8 DEF IInv, Typed, Qualified, TypeOK
<1> QED BY <1>1, BlockCorrect, PTL

\* Streaming changes no row's attention: with chunks of any number of tiles,
\* the output is row for row what one call for the whole sequence computes.
THEOREM StreamedAsWholeTheorem == Spec => []StreamedAsWhole
<1>1. IInv => StreamedAsWhole
  <2> SUFFICES ASSUME IInv PROVE StreamedAsWhole
    OBVIOUS
  <2>1. Sparse \in BOOLEAN /\ Expected[Sparse] = [r \in Rows |-> Unstreamed(Sparse, r)]
    BY DEF Expected, Sparse
  <2>2. phase = "out" =>
          (output = <<>> /\ plan.attention # "streamed") \/ output = [r \in Rows |-> Unstreamed(Sparse, r)]
    BY <2>1 DEF IInv, OutputFits
  <2>3. phase = "vdn" => \A f \in DOMAIN carriers : carriers[f] = Rows
    BY DEF IInv, Held, Loads
  <2>4. phase = "out" /\ DOMAIN output # {} =>
          \E sparse \in BOOLEAN : output = [r \in Rows |-> Unstreamed(sparse, r)]
    BY <2>1, <2>2
  <2>5. phase = "out" /\ plan.attention = "streamed" => DOMAIN output = Rows
    BY <2>2
  <2> QED BY <2>3, <2>4, <2>5 DEF StreamedAsWhole
<1> QED BY <1>1, BlockCorrect, PTL

\* No row leaves a block with a result of the sparse kernel that the gate did
\* not compare, and no modulation with one of a faulty layout.
THEOREM KernelsQualifiedTheorem == Spec => []KernelsQualified
<1>1. IInv => KernelsQualified
  <2> SUFFICES ASSUME IInv PROVE KernelsQualified
    OBVIOUS
  <2>1. RowsQualified
    <3> SUFFICES ASSUME phase = "copyOut", NEW r \in DOMAIN result, ~result[r].dense
                 PROVE  <<Cardinality(DOMAIN result), block.rows, r>> \in qualified
      BY DEF RowsQualified
    <3>1. /\ block \in BlockCall /\ CursorFits /\ KV = Whole
          /\ stream = None => cursor = 0
          /\ stream # None => stream.start = cursor
      BY AskingFits DEF Asking
    <3>2. /\ Origin = cursor /\ cursor \in Nat /\ Asked \in Nat \ {0}
          /\ QueryRows = cursor .. cursor + Asked - 1 /\ QueryRows \subseteq Rows
          /\ Cardinality(QueryRows) = Asked
      BY <3>1, QueriesFit
    <3>3. result = [x \in QueryRows |-> Expected[Sparse][x]]
      BY DEF IInv, OutputFits
    <3>4. Sparse
      <4>1. ASSUME ~Sparse PROVE FALSE
        <5>1. Sparse = FALSE
          BY <4>1 DEF Sparse
        <5>2. result[r] = DenseRow
          BY <3>1, <3>2, <3>3, <5>1, DenseExpected
        <5> QED BY <5>2 DEF DenseRow
      <4> QED BY <4>1
    <3>5. GateKey \in verified /\ GateKey = <<Asked, block.rows, cursor>>
      BY <3>2, <3>4 DEF IInv, Qualified, GateKey
    <3>6. \A x \in cursor .. cursor + Asked - 1 : <<Asked, block.rows, x>> \in qualified
      <4>1. \A x \in GateKey[3] .. GateKey[3] + GateKey[1] - 1 :
              <<GateKey[1], GateKey[2], x>> \in qualified
        BY <3>5 DEF IInv, Qualified
      <4> QED BY <3>5, <4>1
    <3> QED BY <3>2, <3>3, <3>6
  <2>2. ModulatedExactly
    <3>1. Modulates => Covered = block.rows /\ phase \in Modulation
      BY DEF Modulates
    <3>2. Rows = 0 .. block.rows - 1 /\ block.rows \in Nat
      BY Sizes DEF IInv, Typed
    <3> QED BY <3>1, <3>2 DEF ModulatedExactly, IInv, HiddenFits
  <2> QED BY <2>1, <2>2 DEF KernelsQualified
<1> QED BY <1>1, BlockCorrect, PTL

\* One projected chunk is alive at a time, there is no full tensor of queries
\* without VDN, and nothing outlives its invocation but, if that fails, what the
\* frames of its exception hold.
THEOREM WorkspaceBoundedTheorem == Spec => []WorkspaceBounded
<1>1. IInv => WorkspaceBounded
  <2> SUFFICES ASSUME IInv PROVE WorkspaceBounded
    OBVIOUS
  <2> DEFINE projecting == phase \in {"projectKV", "projectQ", "projectVDN"}
             alive == ({views[n] : n \in Names} \ {None}) \cup IF projecting THEN {cursor} ELSE {}
  <2>1. Cardinality(alive) <= 1
    <3>1. alive = {} \/ alive = {cursor}
      BY DEF IInv, Held, ViewsFit
    <3>2. Cardinality({}) = 0 /\ Cardinality({cursor}) = 1
      BY FS_EmptySet, FS_Singleton
    <3> HIDE DEF alive
    <3> QED BY <3>1, <3>2
  <2>2. plan.attention # "vdn" => carriers.q = {}
    BY DEF IInv, Typed, Phases, Held, Rests, Resting, Loads, Attends, Asking, Raised, NoCarriers
  <2>3. phase \in Resting => carriers = NoCarriers /\ alive = {} /\ stream = None /\ result = <<>>
    BY DEF IInv, Held, Rests, Resting, NoViews, OutputFits
  <2>4. phase = "failed" => result = <<>> /\ output = <<>>
    BY DEF IInv, OutputFits, Asking
  <2>5. phase = "failed" =>
          /\ stream = None
          /\ \A f \in DOMAIN carriers : carriers[f] # {} => f \in traceback
          /\ \A n \in Names : views[n] # None => n \in traceback
    BY DEF IInv, Retained, Raised
  <2> QED BY <2>1, <2>2, <2>3, <2>4, <2>5 DEF WorkspaceBounded, Resting
<1> QED BY <1>1, BlockCorrect, PTL
=============================================================================
