-------------------------- MODULE SolKernelProofs ---------------------------
(***************************************************************************)
(* What a call of sol_attn has prepared when its attention kernel starts,  *)
(* for any sizes and any calls, either backend, and any order of the       *)
(* programs of its grids; then what a thread block of the sm120 kernel     *)
(* does with it, for any sizes, any warps and any routes of its groups:    *)
(* it hands every tile over and keeps the promise of RoutedAttention.  So  *)
(* do the Triton kernels and the kernel that joins the splits of an sm90   *)
(* call.                                                                   *)
(***************************************************************************)
EXTENDS Sm120Kernel, PreparedCall, FiniteSetTheorems, SequenceTheorems, WellFoundedInduction, TLAPS

\* The quotient is the number whose multiple is next below.
LEMMA DivUnique ==
  ASSUME NEW d \in Nat \ {0}, NEW x \in Int, NEW n \in Int, n * d <= x, x < n * d + d
  PROVE  x \div d = n
<1> DEFINE q == x \div d
<1>1. q \in Int /\ q * d <= x /\ x < q * d + d
  BY Z3
<1>2. ASSUME q < n PROVE FALSE
  <2>1. q + 1 <= n
    BY <1>1, <1>2
  <2>2. (q + 1) * d <= n * d
    BY <1>1, <2>1, Z3
  <2>3. (q + 1) * d = q * d + d
    BY <1>1, Z3
  <2> QED BY <1>1, <2>2, <2>3
<1>3. ASSUME n < q PROVE FALSE
  <2>1. n + 1 <= q
    BY <1>1, <1>3
  <2>2. (n + 1) * d <= q * d
    BY <1>1, <2>1, Z3
  <2>3. (n + 1) * d = n * d + d
    BY Z3
  <2> QED BY <1>1, <2>2, <2>3
<1> QED BY <1>1, <1>2, <1>3

\* Quotients by the sizes, rounded up: the number n of blocks of d is the
\* least whose blocks have room for x.
LEMMA RoundsUp ==
  ASSUME NEW d \in Nat \ {0}, NEW x \in Nat
  PROVE  LET n == (x + d - 1) \div d
         IN /\ n \in Nat /\ n * d \in Nat /\ x <= n * d
            /\ \A b \in Nat : b < n <=> b * d < x
<1> DEFINE n == (x + d - 1) \div d
<1>1. x + d - 1 \in Nat /\ n \in Int /\ n * d \in Int /\ n * d <= x + d - 1 /\ x + d - 1 < n * d + d
  BY Z3
<1>2. n \in Nat
  <2>1. ASSUME n <= -1 PROVE FALSE
    <3>1. n * d <= (-1) * d
      BY <1>1, <2>1, Z3
    <3> QED BY <1>1, <3>1
  <2> QED BY <1>1, <2>1
<1>3. n * d \in Nat /\ x <= n * d
  BY <1>1, <1>2, Z3
<1>4. ASSUME NEW b \in Nat PROVE b < n <=> b * d < x
  <2>1. ASSUME b < n PROVE b * d < x
    <3>1. (b + 1) * d <= n * d
      BY <1>1, <2>1, Z3
    <3>2. (b + 1) * d = b * d + d /\ b * d \in Int
      BY Z3
    <3> QED BY <1>1, <3>1, <3>2
  <2>2. ASSUME n <= b PROVE x <= b * d
    <3>1. n * d <= b * d /\ b * d \in Int
      BY <1>1, <2>2, Z3
    <3> QED BY <1>1, <1>3, <3>1
  <2> QED BY <2>1, <2>2, <1>1, Z3
<1> QED BY <1>2, <1>3, <1>4

\* What a block's own tokens are, among n.
Own(n, b) == {t \in 0 .. n - 1 : t \div BlockLen = b}
Mean(S) == [of |-> S, by |-> Cardinality(S)]

\* The rows of a block that exist are its own, the centroid of these is their
\* mean, and beyond the last block there are none.
LEMMA OwnTokens ==
  ASSUME BlockLen \in Nat \ {0}, NEW n \in Nat, NEW b \in Nat
  PROVE  /\ {t \in Prepare!Block(b) : t < n} = Own(n, b)
         /\ b < Prepare!BlocksIn(n) =>
              Prepare!Centroid(Own(n, b), b, n) = Mean(Own(n, b))
         /\ b >= Prepare!BlocksIn(n) => Own(n, b) = {}
<1> DEFINE s == b * BlockLen
           e == (b + 1) * BlockLen
<1>1. s \in Nat /\ e = s + BlockLen
  BY Z3
<1>2. Prepare!Block(b) = s .. e - 1
  BY DEF Prepare!Block
<1> HIDE DEF s, e
<1>3. ASSUME NEW t \in Nat PROVE t \div BlockLen = b <=> t \in s .. e - 1
  <2>1. ASSUME t \in s .. e - 1 PROVE t \div BlockLen = b
    BY <1>1, <2>1, DivUnique DEF s
  <2>2. ASSUME t \div BlockLen = b PROVE t \in s .. e - 1
    <3>1. b * BlockLen <= t /\ t < b * BlockLen + BlockLen
      BY <2>2, Z3
    <3> QED BY <1>1, <3>1 DEF s
  <2> QED BY <2>1, <2>2
<1>4. {t \in Prepare!Block(b) : t < n} = Own(n, b)
  <2>1. ASSUME NEW t \in Nat PROVE t \in Own(n, b) <=> t < n /\ t \in s .. e - 1
    BY <1>3 DEF Own
  <2>2. Own(n, b) \subseteq Nat /\ s .. e - 1 \subseteq Nat
    BY <1>1 DEF Own
  <2> QED BY <1>2, <2>1, <2>2
<1>5. b < Prepare!BlocksIn(n) <=> s < n
  BY RoundsUp DEF s, Prepare!BlocksIn
<1>6. ASSUME s < n PROVE Prepare!Centroid(Own(n, b), b, n) = Mean(Own(n, b))
  <2>1. CASE BlockLen < n - s
    <3>1. Own(n, b) = s .. e - 1
      BY <1>1, <1>3, <1>6, <2>1 DEF Own
    <3>2. Cardinality(Own(n, b)) = BlockLen
      BY <1>1, <3>1, FS_Interval
    <3> QED BY <2>1, <3>2 DEF s, Mean, Prepare!Centroid, Prepare!Least
  <2>2. CASE ~(BlockLen < n - s)
    <3>1. Own(n, b) = s .. n - 1
      BY <1>1, <1>3, <1>6, <2>2 DEF Own
    <3>2. Cardinality(Own(n, b)) = n - s
      BY <1>1, <1>6, <3>1, FS_Interval
    <3> QED BY <2>2, <3>2 DEF s, Mean, Prepare!Centroid, Prepare!Least
  <2> QED BY <2>1, <2>2
<1>7. ASSUME ~(s < n) PROVE Own(n, b) = {}
  BY <1>1, <1>3, <1>7 DEF Own
<1>8. Prepare!BlocksIn(n) \in Nat
  BY RoundsUp DEF Prepare!BlocksIn
<1> QED BY <1>4, <1>5, <1>6, <1>7, <1>8

\* A walk over n blocks in groups meets the blocks below any bound up to n.
LEMMA WalkedAll ==
  ASSUME GroupSize \in Nat \ {0}, NEW n \in Nat, NEW v \in Nat, v <= n
  PROVE  Prepare!Walked(n, v) = 0 .. v - 1
<1>1. ASSUME NEW b \in 0 .. v - 1 PROVE b \in Prepare!Walked(n, v)
  <2> DEFINE g == b \div GroupSize
             h == (n - 1) \div GroupSize
  <2>1. g \in Nat /\ g * GroupSize \in Nat /\ g * GroupSize <= b /\ b < g * GroupSize + GroupSize
    BY Z3
  <2>2. h \in Int /\ n - 1 < h * GroupSize + GroupSize /\ h * GroupSize \in Int
    BY Z3
  <2>3. g <= h
    <3>1. ASSUME h + 1 <= g PROVE FALSE
      <4>1. (h + 1) * GroupSize <= g * GroupSize
        BY <2>1, <2>2, <3>1, Z3
      <4>2. (h + 1) * GroupSize = h * GroupSize + GroupSize
        BY <2>2, Z3
      <4> QED BY <2>1, <2>2, <4>1, <4>2
    <3> QED BY <2>1, <2>2, <3>1
  <2>4. b \in Prepare!GroupFrom(g * GroupSize) /\ g \in 0 .. h
    BY <2>1, <2>2, <2>3 DEF Prepare!GroupFrom
  <2> HIDE DEF g, h
  <2> QED BY <2>4 DEF h, Prepare!Walked
<1>2. ASSUME NEW b \in Prepare!Walked(n, v) PROVE b \in 0 .. v - 1
  <2>1. PICK g \in 0 .. (n - 1) \div GroupSize : b \in Prepare!GroupFrom(g * GroupSize)
    BY <1>2 DEF Prepare!Walked
  <2>2. g \in Nat /\ g * GroupSize \in Nat
    BY Z3
  <2> QED BY <1>2, <2>1, <2>2 DEF Prepare!Walked, Prepare!GroupFrom
<1> QED BY <1>1, <1>2

-----------------------------------------------------------------------------
(***************************************************************************)
(* The preparation of a call.                                              *)
(***************************************************************************)
KeyRoom == IF Prepare!Descriptors THEN Prepare!SummaryRoom ELSE Prepare!PaddedBlocks
TileRoom == IF Prepare!Descriptors THEN Prepare!TileRoom ELSE Prepare!QueryBlocks

\* What is due: the summary of a key block, zeros beyond the last one, the
\* moments of all blocks and the threshold of a query tile.
KeyBlock(b) == kc[b] = Mean(Own(call.keys, b)) /\ vc[b] = Own(call.keys, b)
Beyond(b) == kc[b] = Prepare!Zero /\ vc[b] = {}
AllKeys ==
  [of |-> [x \in 0 .. Prepare!KeyBlocks - 1 |-> Mean(Own(call.keys, x))],
   by |-> Cardinality(0 .. Prepare!KeyBlocks - 1)]
Due(b) == <<Mean(Own(call.queries, b)), AllKeys>>

CallFits == call \in Calls /\ Prepare!Accepted(call)

Rooms ==
  /\ DOMAIN kc = 0 .. KeyRoom - 1 /\ DOMAIN vc = 0 .. KeyRoom - 1
  /\ DOMAIN bar = 0 .. TileRoom - 1 /\ DOMAIN threshold = 0 .. TileRoom - 1

\* The grids so far: a summary that is written is right, and once the
\* reduction has ended all of them are.
Summed ==
  /\ step \notin {"pad", "clearTail"} => tail = {}
  /\ \A b \in 0 .. KeyRoom - 1 :
       /\ b < Prepare!KeyBlocks => kc[b] \in {Junk, Prepare!Zero} \/ KeyBlock(b)
       /\ ~Prepare!Descriptors /\ b >= Prepare!KeyBlocks => Beyond(b)
  /\ step \in {"moments", "stats", "pool", "diag", "fused", "launched"} =>
       \A b \in 0 .. KeyRoom - 1 : IF b < Prepare!KeyBlocks THEN KeyBlock(b) ELSE Beyond(b)

Measured == step \in {"pool", "diag", "fused", "launched"} => stats = AllKeys

Centred ==
  \A b \in 0 .. Prepare!QueryBlocks - 1 :
    /\ bar[b] = Junk \/ bar[b] = Mean(Own(call.queries, b))
    /\ step = "fused" => bar[b] = Mean(Own(call.queries, b))

Thresholds ==
  \A b \in 0 .. Prepare!QueryBlocks - 1 :
    /\ threshold[b] = Junk \/ threshold[b] = Due(b)
    /\ step = "launched" => threshold[b] = Due(b)

Preparing == CallFits /\ Rooms /\ Summed /\ Measured /\ Centred /\ Thresholds
Prepared == step # "running" => Preparing

\* The rooms are large enough, and the pointer grids have one length.
LEMMA RoomsFit ==
  ASSUME Prepare!Numbered, CallFits
  PROVE  /\ BlockLen \in Nat \ {0} /\ GroupSize \in Nat \ {0}
         /\ call.queries \in Nat \ {0} /\ call.keys \in Nat \ {0}
         /\ Prepare!KeyBlocks \in Nat /\ Prepare!QueryBlocks \in Nat
         /\ KeyRoom \in Nat /\ TileRoom \in Nat
         /\ Prepare!KeyBlocks <= KeyRoom /\ Prepare!QueryBlocks <= TileRoom
         /\ ~Prepare!Descriptors =>
              /\ call.queries = call.keys /\ call.bucket = None
              /\ 0 .. Prepare!GroupsIn(call.keys) * GroupSize - 1 = 0 .. KeyRoom - 1
<1>1. /\ BlockLen \in Nat \ {0} /\ GroupSize \in Nat \ {0}
      /\ call.queries \in Nat \ {0} /\ call.keys \in Nat \ {0}
      /\ call.bucket # None => call.bucket \in Nat \ {0}
  BY DEF Prepare!Numbered, CallFits, Prepare!Accepted, Prepare!ValidInputs
<1>2. /\ Prepare!KeyBlocks \in Nat /\ Prepare!QueryBlocks \in Nat
      /\ \A n \in Nat : Prepare!BlocksIn(n) \in Nat
  BY <1>1, RoundsUp DEF Prepare!KeyBlocks, Prepare!QueryBlocks, Prepare!BlocksIn
<1>3. \A m, n \in Nat : m <= n => Prepare!BlocksIn(m) <= Prepare!BlocksIn(n)
  <2> SUFFICES ASSUME NEW m \in Nat, NEW n \in Nat, m <= n, Prepare!BlocksIn(n) < Prepare!BlocksIn(m)
               PROVE  FALSE
    BY <1>2
  <2> DEFINE b == Prepare!BlocksIn(n)
  <2>1. b \in Nat /\ b < Prepare!BlocksIn(m)
    BY <1>2
  <2> HIDE DEF b
  <2>2. b * BlockLen < m
    BY <1>1, <2>1, RoundsUp DEF Prepare!BlocksIn
  <2>3. n <= b * BlockLen
    BY <1>1, RoundsUp DEF b, Prepare!BlocksIn
  <2>4. b * BlockLen \in Int
    BY <1>1, <2>1
  <2> QED BY <2>2, <2>3, <2>4
<1>4. Prepare!Capacity(call) \in Nat /\ call.keys <= Prepare!Capacity(call)
  BY <1>1, RoundsUp DEF Prepare!Capacity
<1>5. Prepare!SummaryRoom \in Nat /\ Prepare!KeyBlocks <= Prepare!SummaryRoom
  BY <1>1, <1>2, <1>3, <1>4 DEF Prepare!SummaryRoom, Prepare!KeyBlocks
<1>6. Prepare!PaddedBlocks \in Nat /\ Prepare!KeyBlocks <= Prepare!PaddedBlocks
  BY <1>1, <1>2, RoundsUp DEF Prepare!PaddedBlocks, Prepare!GroupsIn, Prepare!KeyBlocks
<1>7. Prepare!Backend(call) # "sm120" => call.queries = call.keys
  BY DEF CallFits, Prepare!Accepted, Prepare!Special
<1>8. call.bucket # None => Prepare!Backend(call) = "sm100"
  BY DEF CallFits, Prepare!Accepted
<1>9. Prepare!TileRoom \in Nat /\ Prepare!QueryBlocks <= Prepare!TileRoom
  BY <1>2, <1>5, <1>7, <1>8 DEF Prepare!TileRoom, Prepare!QueryBlocks, Prepare!KeyBlocks
<1>10. ~Prepare!Descriptors => Prepare!Backend(call) = "triton"
  BY DEF Prepare!Descriptors
<1>11. ~Prepare!Descriptors => call.queries = call.keys /\ call.bucket = None
  BY <1>7, <1>8, <1>10
<1> QED BY <1>1, <1>2, <1>5, <1>6, <1>9, <1>11 DEF KeyRoom, TileRoom, Prepare!PaddedBlocks

\* Loads without a tail bring a block's own tokens.
LEMMA LoadsOwn ==
  ASSUME Prepare!Numbered, CallFits, NEW n \in {call.queries, call.keys}, NEW b \in Nat
  PROVE  /\ tail = {} => Prepare!LoadBlock(b, n) = Own(n, b)
         /\ Prepare!MaskedRows(b, n) = Own(n, b)
         /\ b < Prepare!BlocksIn(n) => Prepare!Centroid(Own(n, b), b, n) = Mean(Own(n, b))
         /\ b >= Prepare!BlocksIn(n) => Own(n, b) = {}
<1>1. n \in Nat /\ BlockLen \in Nat \ {0}
  BY RoomsFit
<1>2. {t \in Prepare!Block(b) : t < n} = Own(n, b)
  BY <1>1, OwnTokens
<1> QED BY <1>1, <1>2, OwnTokens DEF Prepare!LoadBlock, Prepare!MaskedRows

\* A call starts with nothing summed.
LEMMA PreparedInit == Prepare!Numbered /\ Prepare!Init => Prepared
<1> SUFFICES ASSUME Prepare!Numbered, Prepare!Init PROVE Preparing
  BY DEF Prepared
<1>1. CallFits
  BY DEF Prepare!Init, CallFits
<1>2. step \in {"pad", "reduce"} /\ tail = {}
  BY DEF Prepare!Init
<1>3. Rooms
  BY RoomsFit, <1>1 DEF Prepare!Init, Prepare!AllocateUninitialised, Prepare!AllocateZeroed, Prepare!Allocate, Rooms, KeyRoom, TileRoom
<1>4. /\ \A b \in 0 .. KeyRoom - 1 :
           IF Prepare!Descriptors THEN kc[b] = Junk ELSE Beyond(b)
      /\ \A b \in 0 .. TileRoom - 1 : bar[b] = Junk /\ threshold[b] = Junk
  BY RoomsFit, <1>1 DEF Prepare!Init, Prepare!AllocateUninitialised, Prepare!AllocateZeroed, Prepare!Allocate, Beyond, KeyRoom, TileRoom
<1>5. Summed
  BY <1>2, <1>4 DEF Summed, Beyond
<1>6. Measured
  BY <1>2 DEF Measured
<1>7. Centred /\ Thresholds
  BY <1>1, <1>2, <1>4, RoomsFit DEF Centred, Thresholds
<1> QED BY <1>1, <1>3, <1>5, <1>6, <1>7 DEF Preparing

\* What depends on the call alone stays while it does.
LEMMA SameCall ==
  ASSUME call' = call
  PROVE  /\ CallFits' <=> CallFits
         /\ Prepare!Descriptors' <=> Prepare!Descriptors
         /\ KeyRoom' = KeyRoom /\ TileRoom' = TileRoom
         /\ Prepare!KeyBlocks' = Prepare!KeyBlocks /\ Prepare!QueryBlocks' = Prepare!QueryBlocks
         /\ AllKeys' = AllKeys
         /\ \A b : Due(b)' = Due(b)
<1>1. /\ CallFits' <=> CallFits
      /\ Prepare!Descriptors' <=> Prepare!Descriptors
      /\ Prepare!KeyBlocks' = Prepare!KeyBlocks /\ Prepare!QueryBlocks' = Prepare!QueryBlocks
  BY DEF CallFits, Prepare!Descriptors, Prepare!KeyBlocks, Prepare!QueryBlocks
<1>2. KeyRoom' = KeyRoom /\ TileRoom' = TileRoom
  BY <1>1 DEF KeyRoom, TileRoom, Prepare!SummaryRoom, Prepare!PaddedBlocks, Prepare!TileRoom
<1>3. AllKeys' = AllKeys
  BY <1>1 DEF AllKeys
<1>4. \A b : Due(b)' = Due(b)
  BY <1>3 DEF Due
<1> QED BY <1>1, <1>2, <1>3, <1>4

\* A program of the reduction writes its own block.
LEMMA SumPrepared ==
  ASSUME Prepare!Numbered, Preparing, NEW b \in 0 .. Prepare!KeyBlocks - 1,
         Prepare!SumBlock(b, Mean(Own(call.keys, b)), Own(call.keys, b))
  PROVE  Preparing'
<1>1. /\ call' = call /\ step = "reduce" /\ step' = step /\ tail' = tail /\ stats' = stats
      /\ bar' = bar /\ threshold' = threshold
      /\ kc' = [kc EXCEPT ![b] = Mean(Own(call.keys, b))]
      /\ vc' = [vc EXCEPT ![b] = Own(call.keys, b)]
  BY DEF Prepare!SumBlock
<1>2. CallFits
  BY DEF Preparing
<1>3. CallFits' /\ Rooms'
  BY <1>1, <1>2, SameCall DEF Preparing, Rooms
<1>4. /\ KeyBlock(b)'
      /\ \A x \in 0 .. KeyRoom - 1 : x # b => kc'[x] = kc[x] /\ vc'[x] = vc[x]
  BY <1>1, <1>2, RoomsFit DEF Preparing, Rooms, KeyBlock
<1>5. Summed'
  <2>1. tail = {} /\ step' \notin {"moments", "stats", "pool", "diag", "fused", "launched"}
    BY <1>1 DEF Preparing, Summed
  <2>2. ASSUME NEW x \in 0 .. KeyRoom - 1
        PROVE  /\ x < Prepare!KeyBlocks => kc'[x] \in {Junk, Prepare!Zero} \/ KeyBlock(x)'
               /\ ~Prepare!Descriptors /\ x >= Prepare!KeyBlocks => Beyond(x)'
    <3>1. CASE x = b
      <4>1. b < Prepare!KeyBlocks
        BY <1>2, RoomsFit
      <4>2. ~(b >= Prepare!KeyBlocks)
        BY <1>2, RoomsFit
      <4> QED BY <1>4, <3>1, <4>2
    <3>2. CASE x # b
      BY <1>1, <1>4, <3>2 DEF Preparing, Summed, KeyBlock, Beyond
    <3> QED BY <3>1, <3>2
  <2> QED BY <1>1, <2>1, <2>2, SameCall DEF Summed
<1>6. Measured' /\ Centred' /\ Thresholds'
  BY <1>1, SameCall DEF Preparing, Measured, Centred, Thresholds
<1> QED BY <1>3, <1>5, <1>6 DEF Preparing

\* The reduction ends with every block summed and zeros beyond them.
LEMMA ReducedPrepared ==
  ASSUME Prepare!Numbered, Preparing, Prepare!Reduced, step' = Prepare!AfterReduction,
         UNCHANGED <<call, tail, stats, bar, threshold>>,
         DOMAIN kc' = DOMAIN kc, DOMAIN vc' = DOMAIN vc,
         \A b \in 0 .. KeyRoom - 1 :
           IF b < Prepare!KeyBlocks THEN kc'[b] = kc[b] /\ vc'[b] = vc[b] ELSE Beyond(b)'
  PROVE  Preparing'
<1>1. step = "reduce" /\ step' \in {"moments", "stats"}
  BY DEF Prepare!Reduced, Prepare!AfterReduction
<1>2. CallFits
  BY DEF Preparing
<1>3. CallFits' /\ Rooms'
  BY <1>2, SameCall DEF Preparing, Rooms
<1>4. \A b \in 0 .. KeyRoom - 1 : IF b < Prepare!KeyBlocks THEN KeyBlock(b)' ELSE Beyond(b)'
  <2> SUFFICES ASSUME NEW b \in 0 .. KeyRoom - 1, b < Prepare!KeyBlocks PROVE KeyBlock(b)'
    OBVIOUS
  <2>1. b \in 0 .. Prepare!KeyBlocks - 1
    BY <1>2, RoomsFit
  <2>2. kc[b] \notin {Junk, Prepare!Zero}
    BY <2>1 DEF Prepare!Reduced
  <2>3. KeyBlock(b)
    BY <2>2 DEF Preparing, Summed
  <2> QED BY <2>3 DEF KeyBlock
<1>5. Summed'
  BY <1>1, <1>4, SameCall DEF Preparing, Summed, KeyBlock, Beyond
<1>6. Measured'
  BY <1>1 DEF Measured
<1>7. Centred' /\ Thresholds'
  BY <1>1, SameCall DEF Preparing, Centred, Thresholds
<1> QED BY <1>3, <1>5, <1>6, <1>7 DEF Preparing

\* The moments are those of all blocks.
LEMMA MeasurePrepared ==
  ASSUME Prepare!Numbered, Preparing, NEW from \in {"stats", "moments"}, NEW to \in {"diag", "pool"},
         Prepare!Measure(from, to, 0 .. Prepare!KeyBlocks - 1)
  PROVE  Preparing'
<1>1. /\ step = from /\ step' = to /\ UNCHANGED <<call, tail, kc, vc, bar, threshold>>
      /\ stats' = Prepare!Moments(0 .. Prepare!KeyBlocks - 1)
  BY DEF Prepare!Measure
<1>2. CallFits
  BY DEF Preparing
<1>3. \A b \in 0 .. Prepare!KeyBlocks - 1 : kc[b] = Mean(Own(call.keys, b))
  BY <1>1, <1>2, RoomsFit DEF Preparing, Summed, KeyBlock
<1>4. stats' = AllKeys
  BY <1>1, <1>3 DEF Prepare!Moments, AllKeys, Prepare!Cardinality, Cardinality
<1>5. CallFits' /\ Rooms'
  BY <1>1, <1>2, SameCall DEF Preparing, Rooms
<1>6. Summed'
  BY <1>1, SameCall DEF Preparing, Summed, KeyBlock, Beyond
<1>7. Measured' /\ Centred' /\ Thresholds'
  BY <1>1, <1>4, SameCall DEF Preparing, Measured, Centred, Thresholds
<1> QED BY <1>5, <1>6, <1>7 DEF Preparing

\* A program sets the thresholds of some tiles from all moments.
LEMMA SetPrepared ==
  ASSUME Prepare!Numbered, Preparing, NEW from \in {"diag", "fused"}, NEW values,
         Prepare!SetThresholds(from, values),
         \A b \in DOMAIN values : b \in 0 .. Prepare!QueryBlocks - 1 => values[b] = Due(b)
  PROVE  Preparing'
<1>1. /\ step = from /\ UNCHANGED <<call, step, tail, kc, vc, stats, bar>>
      /\ threshold' = [b \in DOMAIN threshold |-> IF b \in DOMAIN values THEN values[b] ELSE threshold[b]]
  BY DEF Prepare!SetThresholds
<1>2. CallFits
  BY DEF Preparing
<1>3. CallFits' /\ Rooms'
  BY <1>1, <1>2, SameCall DEF Preparing, Rooms
<1>4. Summed'
  BY <1>1, SameCall DEF Preparing, Summed, KeyBlock, Beyond
<1>5. Measured' /\ Centred'
  BY <1>1, SameCall DEF Preparing, Measured, Centred
<1>6. \A b \in 0 .. Prepare!QueryBlocks - 1 : threshold'[b] = Junk \/ threshold'[b] = Due(b)
  BY <1>1, <1>2, RoomsFit DEF Preparing, Rooms, Thresholds
<1>7. Thresholds'
  BY <1>1, <1>6, SameCall DEF Thresholds
<1> QED BY <1>3, <1>4, <1>5, <1>7 DEF Preparing

\* A program stores the centroid of its tile, and then all are there.
LEMMA StorePrepared ==
  ASSUME Prepare!Numbered, Preparing, NEW b \in 0 .. Prepare!QueryBlocks - 1,
         Prepare!StoreCentroid(b, Mean(Own(call.queries, b)))
  PROVE  Preparing'
<1>1. /\ step = "pool" /\ UNCHANGED <<call, step, tail, kc, vc, stats, threshold>>
      /\ bar' = [bar EXCEPT ![b] = Mean(Own(call.queries, b))]
  BY DEF Prepare!StoreCentroid
<1>2. CallFits
  BY DEF Preparing
<1>3. CallFits' /\ Rooms'
  BY <1>1, <1>2, SameCall DEF Preparing, Rooms
<1>4. Summed'
  BY <1>1, SameCall DEF Preparing, Summed, KeyBlock, Beyond
<1>5. Measured' /\ Thresholds'
  BY <1>1, SameCall DEF Preparing, Measured, Thresholds
<1>6. Centred'
  BY <1>1, <1>2, RoomsFit, SameCall DEF Preparing, Rooms, Centred
<1> QED BY <1>3, <1>4, <1>5, <1>6 DEF Preparing

\* The grid that pools the query tiles has stored every centroid.
LEMMA PooledPrepared ==
  ASSUME Prepare!Numbered, Preparing, Prepare!Pooled
  PROVE  Preparing'
<1>1. /\ step = "pool" /\ step' = "fused" /\ UNCHANGED <<call, tail, kc, vc, stats, bar, threshold>>
      /\ \A b \in 0 .. Prepare!QueryBlocks - 1 : bar[b] # Junk
  BY DEF Prepare!Pooled
<1>2. CallFits' /\ Rooms'
  BY <1>1, SameCall DEF Preparing, Rooms
<1>3. Summed'
  BY <1>1, SameCall DEF Preparing, Summed, KeyBlock, Beyond
<1>4. Measured' /\ Thresholds' /\ Centred'
  BY <1>1, SameCall DEF Preparing, Measured, Thresholds, Centred
<1> QED BY <1>2, <1>3, <1>4 DEF Preparing

\* Padding and the launch.
LEMMA AroundPrepared ==
  ASSUME Preparing, Prepare!Pad \/ Prepare!ClearTail \/ Prepare!Launch
  PROVE  Preparing'
<1>1. UNCHANGED <<call, kc, vc, stats, bar, threshold>>
  BY DEF Prepare!Pad, Prepare!ClearTail, Prepare!Launch
<1>2. CallFits' /\ Rooms'
  BY <1>1, SameCall DEF Preparing, Rooms
<1>3. \/ step' \in {"clearTail", "reduce"} /\ step \in {"pad", "clearTail"} /\ (step' = "reduce" => tail' = {})
      \/ step \in {"diag", "fused"} /\ step' = "launched" /\ tail' = tail /\ Prepare!Unset = {}
  BY DEF Prepare!Pad, Prepare!ClearTail, Prepare!Launch
<1>4. Summed'
  BY <1>1, <1>3, SameCall DEF Preparing, Summed, KeyBlock, Beyond
<1>5. Measured' /\ Centred'
  BY <1>1, <1>3, SameCall DEF Preparing, Measured, Centred
<1>6. step' = "launched" => \A b \in 0 .. Prepare!QueryBlocks - 1 : threshold[b] = Due(b)
  BY <1>3 DEF Preparing, Thresholds, Prepare!Unset
<1>7. Thresholds'
  BY <1>1, <1>6, SameCall DEF Preparing, Thresholds
<1> QED BY <1>2, <1>4, <1>5, <1>7 DEF Preparing

\* The programs of the grids with descriptors.
LEMMA DescriptorsPrepared ==
  ASSUME Prepare!Numbered, Preparing, Prepare!Descriptors, Prepare!DescriptorPrograms
  PROVE  Preparing'
<1>1. CallFits /\ (step \notin {"pad", "clearTail"} => tail = {})
  BY DEF Preparing, Summed
<1>2. CASE Prepare!ClearBucketTail
  <2>1. /\ DOMAIN kc' = DOMAIN kc /\ DOMAIN vc' = DOMAIN vc
        /\ DOMAIN kc = 0 .. KeyRoom - 1 /\ DOMAIN vc = 0 .. KeyRoom - 1
    BY <1>2 DEF Prepare!ClearBucketTail, Preparing, Rooms
  <2>2. \A b \in 0 .. KeyRoom - 1 :
          IF b < Prepare!KeyBlocks THEN kc'[b] = kc[b] /\ vc'[b] = vc[b] ELSE Beyond(b)'
    BY <1>2, <2>1 DEF Prepare!ClearBucketTail, Beyond
  <2> QED BY <1>2, <2>1, <2>2, ReducedPrepared DEF Prepare!ClearBucketTail
<1>3. CASE Prepare!KcStats
  <2>1. Prepare!Walked(Prepare!SummaryRoom, Prepare!KeyBlocks) = 0 .. Prepare!KeyBlocks - 1
    BY <1>1, RoomsFit, WalkedAll DEF KeyRoom
  <2> QED BY <1>3, <2>1, MeasurePrepared DEF Prepare!KcStats
<1>4. CASE Prepare!SecondMoment
  BY <1>4, MeasurePrepared DEF Prepare!SecondMoment
<1>5. CASE Prepare!Pooled
  BY <1>5, PooledPrepared
<1>6. ASSUME NEW b \in Prepare!Unsummed, Prepare!ReduceKV(b) PROVE Preparing'
  <2>1. b \in 0 .. Prepare!KeyBlocks - 1 /\ b \in Nat /\ b < Prepare!BlocksIn(call.keys) /\ tail = {}
    BY <1>1, <1>6, RoomsFit DEF Prepare!Unsummed, Prepare!ReduceKV, Prepare!SumBlock, Prepare!KeyBlocks
  <2>2. /\ Prepare!LoadBlock(b, call.keys) = Own(call.keys, b)
        /\ Prepare!Centroid(Own(call.keys, b), b, call.keys) = Mean(Own(call.keys, b))
    BY <1>1, <2>1, LoadsOwn
  <2> QED BY <1>6, <2>1, <2>2, SumPrepared DEF Prepare!ReduceKV
<1>7. ASSUME NEW b \in Prepare!Unset, Prepare!DiagThreshold(b) PROVE Preparing'
  <2>1. b \in 0 .. Prepare!QueryBlocks - 1 /\ b \in Nat /\ b < Prepare!BlocksIn(call.queries)
    BY <1>1, RoomsFit DEF Prepare!Unset, Prepare!QueryBlocks
  <2>2. step = "diag" /\ tail = {} /\ stats = AllKeys
    BY <1>1, <1>7 DEF Prepare!DiagThreshold, Prepare!SetThresholds, Preparing, Measured
  <2>3. Prepare!Centroid(Prepare!LoadBlock(b, call.queries), b, call.queries) = Mean(Own(call.queries, b))
    BY <1>1, <2>1, <2>2, LoadsOwn
  <2>4. PICK values :
          /\ values = [t \in {b} |-> <<Prepare!Centroid(Prepare!LoadBlock(t, call.queries), t, call.queries), stats>>]
          /\ Prepare!SetThresholds("diag", values)
    BY <1>7 DEF Prepare!DiagThreshold
  <2>5. \A t \in DOMAIN values : t \in 0 .. Prepare!QueryBlocks - 1 => values[t] = Due(t)
    BY <2>2, <2>3, <2>4 DEF Due
  <2> QED BY <2>4, <2>5, SetPrepared
<1>8. ASSUME NEW b \in Prepare!Unset, Prepare!ExactThresholds(b) PROVE Preparing'
  <2>1. step = "fused" /\ stats = AllKeys
    BY <1>8 DEF Prepare!ExactThresholds, Prepare!SetThresholds, Preparing, Measured
  <2>2. PICK values :
          /\ values = [t \in Prepare!GroupFrom(b) \intersect DOMAIN bar |-> <<bar[t], stats>>]
          /\ Prepare!SetThresholds("fused", values)
    BY <1>8 DEF Prepare!ExactThresholds
  <2>3. \A t \in DOMAIN values : t \in 0 .. Prepare!QueryBlocks - 1 => values[t] = Due(t)
    BY <2>1, <2>2 DEF Due, Preparing, Centred
  <2> QED BY <2>2, <2>3, SetPrepared
<1>9. ASSUME NEW b \in Prepare!Unpooled, Prepare!PoolQuery(b) PROVE Preparing'
  <2>1. /\ b \in 0 .. Prepare!QueryBlocks - 1 /\ b \in Nat /\ b < Prepare!BlocksIn(call.queries)
        /\ step = "pool" /\ tail = {}
    BY <1>1, <1>9, RoomsFit DEF Prepare!Unpooled, Prepare!QueryBlocks, Prepare!PoolQuery, Prepare!StoreCentroid
  <2>2. Prepare!Centroid(Prepare!LoadBlock(b, call.queries), b, call.queries) = Mean(Own(call.queries, b))
    BY <1>1, <2>1, LoadsOwn
  <2> QED BY <1>9, <2>1, <2>2, StorePrepared DEF Prepare!PoolQuery
<1> QED BY <1>2, <1>3, <1>4, <1>5, <1>6, <1>7, <1>8, <1>9 DEF Prepare!DescriptorPrograms

\* The programs of the grids with pointers, where queries and keys are as many.
LEMMA PointersPrepared ==
  ASSUME Prepare!Numbered, Preparing, ~Prepare!Descriptors, Prepare!PointerPrograms
  PROVE  Preparing'
<1>1. /\ CallFits /\ call.queries = call.keys
      /\ Prepare!QueryBlocks = Prepare!KeyBlocks /\ Prepare!QueryBlocks \in Nat
  BY RoomsFit DEF Preparing, Prepare!QueryBlocks, Prepare!KeyBlocks
<1>2. CASE Prepare!ReducedMasked
  <2>1. \A b \in 0 .. KeyRoom - 1 :
          IF b < Prepare!KeyBlocks THEN kc'[b] = kc[b] /\ vc'[b] = vc[b] ELSE Beyond(b)'
    <3> SUFFICES ASSUME NEW b \in 0 .. KeyRoom - 1, ~(b < Prepare!KeyBlocks) PROVE Beyond(b)'
      BY <1>2 DEF Prepare!ReducedMasked
    <3>1. b >= Prepare!KeyBlocks
      BY <1>1, RoomsFit
    <3> QED BY <1>2, <3>1 DEF Prepare!ReducedMasked, Preparing, Summed, Beyond
  <2> QED BY <1>2, <2>1, ReducedPrepared DEF Prepare!ReducedMasked
<1>3. CASE Prepare!MaskedStats
  <2>1. Prepare!Walked(Prepare!QueryBlocks, Prepare!QueryBlocks) = 0 .. Prepare!KeyBlocks - 1
    BY <1>1, RoomsFit, WalkedAll
  <2> QED BY <1>3, <2>1, MeasurePrepared DEF Prepare!MaskedStats
<1>4. CASE Prepare!MaskedSecondMoment
  BY <1>1, <1>4, MeasurePrepared DEF Prepare!MaskedSecondMoment
<1>5. CASE Prepare!Pooled
  BY <1>5, PooledPrepared
<1>6. ASSUME NEW b \in Prepare!Unsummed, Prepare!ReduceMasked(b) PROVE Preparing'
  <2>1. b \in 0 .. Prepare!KeyBlocks - 1 /\ b \in Nat /\ b < Prepare!BlocksIn(call.keys)
    BY <1>1, RoomsFit DEF Prepare!Unsummed, Prepare!KeyBlocks
  <2>2. /\ Prepare!MaskedRows(b, call.keys) = Own(call.keys, b)
        /\ Prepare!Centroid(Own(call.keys, b), b, call.keys) = Mean(Own(call.keys, b))
    BY <1>1, <2>1, LoadsOwn
  <2> QED BY <1>6, <2>1, <2>2, SumPrepared DEF Prepare!ReduceMasked
<1>7. ASSUME NEW b \in Prepare!Unset, Prepare!MaskedDiagThreshold(b) PROVE Preparing'
  <2>1. b \in 0 .. Prepare!QueryBlocks - 1 /\ b \in Nat /\ b < Prepare!BlocksIn(call.queries)
    BY <1>1, RoomsFit DEF Prepare!Unset, Prepare!QueryBlocks
  <2>2. stats = AllKeys
    BY <1>7 DEF Prepare!MaskedDiagThreshold, Prepare!SetThresholds, Preparing, Measured
  <2>3. Prepare!Centroid(Prepare!MaskedRows(b, call.queries), b, call.queries) = Mean(Own(call.queries, b))
    BY <1>1, <2>1, LoadsOwn
  <2>4. PICK values :
          /\ values = [t \in {b} |-> <<Prepare!Centroid(Prepare!MaskedRows(t, call.queries), t, call.queries), stats>>]
          /\ Prepare!SetThresholds("diag", values)
    BY <1>7 DEF Prepare!MaskedDiagThreshold
  <2>5. \A t \in DOMAIN values : t \in 0 .. Prepare!QueryBlocks - 1 => values[t] = Due(t)
    BY <2>2, <2>3, <2>4 DEF Due
  <2> QED BY <2>4, <2>5, SetPrepared
<1>8. ASSUME NEW b \in Prepare!Unset, Prepare!MaskedExactThresholds(b) PROVE Preparing'
  <2>1. step = "fused" /\ stats = AllKeys
    BY <1>8 DEF Prepare!MaskedExactThresholds, Prepare!SetThresholds, Preparing, Measured
  <2>2. PICK values :
          /\ values = [t \in {g \in Prepare!GroupFrom(b) : g < Prepare!QueryBlocks} |-> <<bar[t], stats>>]
          /\ Prepare!SetThresholds("fused", values)
    BY <1>8 DEF Prepare!MaskedExactThresholds
  <2>3. \A t \in DOMAIN values : t \in 0 .. Prepare!QueryBlocks - 1 => values[t] = Due(t)
    BY <2>1, <2>2 DEF Due, Preparing, Centred
  <2> QED BY <2>2, <2>3, SetPrepared
<1>9. ASSUME NEW b \in Prepare!Unpooled, Prepare!PoolMasked(b) PROVE Preparing'
  <2>1. b \in 0 .. Prepare!QueryBlocks - 1 /\ b \in Nat /\ b < Prepare!BlocksIn(call.queries)
    BY <1>1, RoomsFit DEF Prepare!Unpooled, Prepare!QueryBlocks
  <2>2. Prepare!Centroid(Prepare!MaskedRows(b, call.queries), b, call.queries) = Mean(Own(call.queries, b))
    BY <1>1, <2>1, LoadsOwn
  <2> QED BY <1>9, <2>1, <2>2, StorePrepared DEF Prepare!PoolMasked
<1> QED BY <1>2, <1>3, <1>4, <1>5, <1>6, <1>7, <1>8, <1>9 DEF Prepare!PointerPrograms

\* Every step of a call up to its kernel.
LEMMA PreparedStep ==
  ASSUME Prepare!Numbered, Prepared, [Prepare!Next]_(Prepare!preparing)
  PROVE  Prepared'
<1>1. CASE UNCHANGED Prepare!preparing
  <2>1. UNCHANGED <<call, step, tail, kc, vc, stats, bar, threshold>>
    BY <1>1 DEF Prepare!preparing
  <2>2. ASSUME Preparing PROVE Preparing'
    <3>1. CallFits' /\ Rooms' /\ Summed'
      BY <2>1, <2>2, SameCall DEF Preparing, Rooms, Summed, KeyBlock, Beyond
    <3>2. Measured' /\ Centred' /\ Thresholds'
      BY <2>1, <2>2, SameCall DEF Preparing, Measured, Centred, Thresholds
    <3> QED BY <3>1, <3>2 DEF Preparing
  <2> QED BY <2>1, <2>2 DEF Prepared
<1>2. CASE Prepare!Run
  BY <1>2 DEF Prepare!Run, Prepared
<1>3. CASE Prepare!Pad \/ Prepare!ClearTail \/ Prepare!Launch
  <2>1. step # "running"
    BY <1>3 DEF Prepare!Pad, Prepare!ClearTail, Prepare!Launch
  <2> QED BY <1>3, <2>1, AroundPrepared DEF Prepared
<1>4. CASE Prepare!Prepares
  <2>1. step # "running"
    BY <1>4 DEF Prepare!Prepares, Prepare!DescriptorPrograms, Prepare!PointerPrograms,
      Prepare!ClearBucketTail, Prepare!KcStats, Prepare!SecondMoment, Prepare!Pooled, Prepare!ReduceKV,
      Prepare!DiagThreshold, Prepare!ExactThresholds, Prepare!PoolQuery, Prepare!ReducedMasked,
      Prepare!MaskedStats, Prepare!MaskedSecondMoment, Prepare!ReduceMasked, Prepare!MaskedDiagThreshold,
      Prepare!MaskedExactThresholds, Prepare!PoolMasked, Prepare!Reduced, Prepare!Measure,
      Prepare!SetThresholds, Prepare!StoreCentroid, Prepare!SumBlock
  <2> QED BY <1>4, <2>1, DescriptorsPrepared, PointersPrepared DEF Prepare!Prepares, Prepared
<1> QED BY <1>1, <1>2, <1>3, <1>4 DEF Prepare!Next

\* SummariesPrepared follows: what is loaded is set, and set right.
LEMMA PreparedComplete ==
  ASSUME Prepare!Numbered, Prepared PROVE Prepare!SummariesPrepared
<1> SUFFICES ASSUME Preparing, step = "launched" PROVE Prepare!SummariesPrepared
  BY DEF Prepared, Prepare!SummariesPrepared
<1>1. CallFits
  BY DEF Preparing
<1> DEFINE loaded == 0 .. Prepare!GroupsIn(call.keys) * GroupSize - 1
<1>2. ~Prepare!Descriptors => loaded \subseteq DOMAIN kc
  BY <1>1, RoomsFit DEF Preparing, Rooms
<1>3. ASSUME NEW b \in loaded \intersect DOMAIN kc
      PROVE  /\ kc[b] = IF b \in 0 .. Prepare!KeyBlocks - 1 THEN Mean(Own(call.keys, b)) ELSE Prepare!Zero
             /\ vc[b] = Own(call.keys, b)
  <2>1. b \in Nat /\ (b \in 0 .. Prepare!KeyBlocks - 1 <=> b < Prepare!KeyBlocks) /\ b \in 0 .. KeyRoom - 1
    BY <1>1, RoomsFit DEF Preparing, Rooms
  <2>2. CASE b < Prepare!KeyBlocks
    BY <2>1, <2>2 DEF Preparing, Summed, KeyBlock
  <2>3. CASE ~(b < Prepare!KeyBlocks)
    <3>1. Own(call.keys, b) = {}
      BY <1>1, <2>1, <2>3, LoadsOwn, RoomsFit DEF Prepare!KeyBlocks
    <3> QED BY <2>1, <2>3, <3>1 DEF Preparing, Summed, Beyond
  <2> QED BY <2>2, <2>3
<1>4. \A b \in 0 .. Prepare!QueryBlocks - 1 : threshold[b] = Due(b)
  BY DEF Preparing, Thresholds
<1> QED BY <1>2, <1>3, <1>4 DEF Prepare!SummariesPrepared, Due, AllKeys, Own, Mean, Prepare!Cardinality, Cardinality

\* SummariesPrepared (prepare, _pad_to_bucket): at the launch every summary the
\* kernel loads is that of its block's own keys or zero, and every threshold is
\* made of the tile's own queries and of all key blocks.
THEOREM PreparationComplete == Prepare!Spec => []SummariesPrepared
<1> USE CallsNumbered
<1>1. Prepare!Init => Prepared
  BY PreparedInit
<1>2. Prepared /\ [Prepare!Next]_(Prepare!preparing) => Prepared'
  BY PreparedStep
<1>3. Prepared => SummariesPrepared
  BY PreparedComplete DEF SummariesPrepared
<1> QED BY <1>1, <1>2, <1>3, PTL DEF Prepare!Spec

-----------------------------------------------------------------------------
\* The theorems about a pipeline, of the K pipeline and of the V pipeline.
KP == INSTANCE TmaPipelineProofs WITH
  pipe <- K, produce <- produce["K"], consume <- [w \in Warps |-> consume[w]["K"]]
VP == INSTANCE TmaPipelineProofs WITH
  pipe <- V, produce <- produce["V"], consume <- [w \in Warps |-> consume[w]["V"]]

Parities ==
  /\ produce \in [{"K", "V"} -> Bit]
  /\ consume \in [Warps -> [{"K", "V"} -> Bit]]

Pipes == Parities /\ KP!IInv /\ VP!IInv

\* What a step of a kernel does to its pipelines: one step of one of them, or
\* nothing.
KMoves ==
  \/ \E t \in Tiles : IssueK(t) /\ UNCHANGED <<V, consume>>
  \/ K.filling # None /\ K' = Landed(K) /\ UNCHANGED <<V, produce, consume>>
  \/ \E w \in Warps :
       \/ /\ w \notin K.reading /\ KReady(w)
          /\ K' = Begun(K, w) /\ UNCHANGED <<V, produce, consume>>
       \/ w \in K.reading /\ FreeK(w) /\ UNCHANGED <<V, produce>>

VMoves ==
  \/ \E t \in Tiles : IssueV(t) /\ UNCHANGED <<K, consume>>
  \/ V.filling # None /\ V' = Landed(V) /\ UNCHANGED <<K, produce, consume>>
  \/ \E w \in Warps :
       \/ /\ w \notin V.reading /\ VReady(w)
          /\ V' = Begun(V, w) /\ UNCHANGED <<K, produce, consume>>
       \/ w \in V.reading /\ FreeV(w) /\ UNCHANGED <<K, produce>>

PipesMove == KMoves \/ VMoves \/ UNCHANGED pipes

\* A parity that flips is a parity, and no other changes.
LEMMA ProducerFlips ==
  ASSUME Parities, NEW p \in {"K", "V"}, produce' = [produce EXCEPT ![p] = Flip(@)]
  PROVE  /\ produce' \in [{"K", "V"} -> Bit]
         /\ produce'[p] = Flip(produce[p])
         /\ \A q \in {"K", "V"} \ {p} : produce'[q] = produce[q]
BY DEF Parities, Flip, Bit

\* The same of a warp's parities.
LEMMA ConsumerFlips ==
  ASSUME Parities, NEW p \in {"K", "V"}, NEW w \in Warps,
         consume' = [consume EXCEPT ![w][p] = Flip(@)]
  PROVE  /\ consume' \in [Warps -> [{"K", "V"} -> Bit]]
         /\ [v \in Warps |-> consume'[v][p]] =
              [[v \in Warps |-> consume[v][p]] EXCEPT ![w] = Flip(@)]
         /\ \A q \in {"K", "V"} \ {p} :
              [v \in Warps |-> consume'[v][q]] = [v \in Warps |-> consume[v][q]]
<1>1. consume[w] \in [{"K", "V"} -> Bit] /\ Flip(consume[w][p]) \in Bit
  BY DEF Parities, Flip, Bit
<1>2. consume' = [consume EXCEPT ![w] = [consume[w] EXCEPT ![p] = Flip(consume[w][p])]]
  BY <1>1 DEF Parities
<1>3. consume' \in [Warps -> [{"K", "V"} -> Bit]]
  BY <1>1, <1>2 DEF Parities
<1>4. \A v \in Warps : consume'[v][p] = IF v = w THEN Flip(consume[v][p]) ELSE consume[v][p]
  BY <1>1, <1>2 DEF Parities
<1>5. \A q \in {"K", "V"} \ {p}, v \in Warps : consume'[v][q] = consume[v][q]
  BY <1>1, <1>2 DEF Parities
<1> QED BY <1>3, <1>4, <1>5

\* A step of the K pipeline is a step of TmaPipeline, and none of V's.
LEMMA KMovesAre ==
  ASSUME Parities, KMoves
  PROVE  KP!Next /\ UNCHANGED VP!pipeVars /\ Parities'
<1>1. ASSUME NEW t \in Tiles, IssueK(t), UNCHANGED <<V, consume>>
      PROVE  KP!Issue(t) /\ UNCHANGED VP!pipeVars /\ Parities'
  <2>1. /\ KP!Acquirable(K, produce["K"]) /\ K' = KP!Filled(K, t)
        /\ produce' = [produce EXCEPT !["K"] = Flip(@)]
    BY <1>1 DEF IssueK, Acquirable, Filled, KP!Acquirable, KP!Filled
  <2>2. /\ produce' \in [{"K", "V"} -> Bit]
        /\ produce'["K"] = KP!Flip(produce["K"]) /\ produce'["V"] = produce["V"]
    BY <2>1, ProducerFlips DEF Flip, KP!Flip
  <2>3. consume' = consume /\ V' = V
    BY <1>1
  <2>4. KP!Issue(t)
    BY <2>1, <2>2, <2>3 DEF KP!Issue
  <2> QED BY <2>2, <2>3, <2>4 DEF VP!pipeVars, Parities
<1>2. ASSUME K.filling # None, K' = Landed(K), UNCHANGED <<V, produce, consume>>
      PROVE  KP!Arrive /\ UNCHANGED VP!pipeVars /\ Parities'
  BY <1>2 DEF Parities, Landed, Flip, KP!Landed, KP!Flip, KP!Arrive, VP!pipeVars
<1>3. ASSUME NEW w \in Warps, w \notin K.reading, KReady(w), K' = Begun(K, w),
             UNCHANGED <<V, produce, consume>>
      PROVE  KP!Wait(w) /\ UNCHANGED VP!pipeVars /\ Parities'
  BY <1>3 DEF Parities, KReady, Ready, Begun, KP!Ready, KP!Begun, KP!Wait, VP!pipeVars
<1>4. ASSUME NEW w \in Warps, w \in K.reading, FreeK(w), UNCHANGED <<V, produce>>
      PROVE  KP!Release(w) /\ UNCHANGED VP!pipeVars /\ Parities'
  <2>1. K' = KP!Released(K, w) /\ consume' = [consume EXCEPT ![w]["K"] = Flip(@)]
    BY <1>4 DEF FreeK, Released, Flip, KP!Released, KP!Flip
  <2>2. /\ consume' \in [Warps -> [{"K", "V"} -> Bit]]
        /\ [v \in Warps |-> consume'[v]["K"]] =
             [[v \in Warps |-> consume[v]["K"]] EXCEPT ![w] = Flip(@)]
        /\ [v \in Warps |-> consume'[v]["V"]] = [v \in Warps |-> consume[v]["V"]]
    BY <2>1, ConsumerFlips
  <2>3. KP!Release(w)
    BY <1>4, <2>1, <2>2 DEF KP!Release, Flip, KP!Flip
  <2> QED BY <1>4, <2>2, <2>3 DEF VP!pipeVars, Parities
<1> QED BY <1>1, <1>2, <1>3, <1>4 DEF KP!Next, KMoves

\* The same of V.
LEMMA VMovesAre ==
  ASSUME Parities, VMoves
  PROVE  VP!Next /\ UNCHANGED KP!pipeVars /\ Parities'
<1>1. ASSUME NEW t \in Tiles, IssueV(t), UNCHANGED <<K, consume>>
      PROVE  VP!Issue(t) /\ UNCHANGED KP!pipeVars /\ Parities'
  <2>1. /\ VP!Acquirable(V, produce["V"]) /\ V' = VP!Filled(V, t)
        /\ produce' = [produce EXCEPT !["V"] = Flip(@)]
    BY <1>1 DEF IssueV, Acquirable, Filled, VP!Acquirable, VP!Filled
  <2>2. /\ produce' \in [{"K", "V"} -> Bit]
        /\ produce'["V"] = VP!Flip(produce["V"]) /\ produce'["K"] = produce["K"]
    BY <2>1, ProducerFlips DEF Flip, VP!Flip
  <2>3. consume' = consume /\ K' = K
    BY <1>1
  <2>4. VP!Issue(t)
    BY <2>1, <2>2, <2>3 DEF VP!Issue
  <2> QED BY <2>2, <2>3, <2>4 DEF KP!pipeVars, Parities
<1>2. ASSUME V.filling # None, V' = Landed(V), UNCHANGED <<K, produce, consume>>
      PROVE  VP!Arrive /\ UNCHANGED KP!pipeVars /\ Parities'
  BY <1>2 DEF Parities, Landed, Flip, VP!Landed, VP!Flip, VP!Arrive, KP!pipeVars
<1>3. ASSUME NEW w \in Warps, w \notin V.reading, VReady(w), V' = Begun(V, w),
             UNCHANGED <<K, produce, consume>>
      PROVE  VP!Wait(w) /\ UNCHANGED KP!pipeVars /\ Parities'
  BY <1>3 DEF Parities, VReady, Ready, Begun, VP!Ready, VP!Begun, VP!Wait, KP!pipeVars
<1>4. ASSUME NEW w \in Warps, w \in V.reading, FreeV(w), UNCHANGED <<K, produce>>
      PROVE  VP!Release(w) /\ UNCHANGED KP!pipeVars /\ Parities'
  <2>1. V' = VP!Released(V, w) /\ consume' = [consume EXCEPT ![w]["V"] = Flip(@)]
    BY <1>4 DEF FreeV, Released, Flip, VP!Released, VP!Flip
  <2>2. /\ consume' \in [Warps -> [{"K", "V"} -> Bit]]
        /\ [v \in Warps |-> consume'[v]["V"]] =
             [[v \in Warps |-> consume[v]["V"]] EXCEPT ![w] = Flip(@)]
        /\ [v \in Warps |-> consume'[v]["K"]] = [v \in Warps |-> consume[v]["K"]]
    BY <2>1, ConsumerFlips
  <2>3. VP!Release(w)
    BY <1>4, <2>1, <2>2 DEF VP!Release, Flip, VP!Flip
  <2> QED BY <1>4, <2>2, <2>3 DEF KP!pipeVars, Parities
<1> QED BY <1>1, <1>2, <1>3, <1>4 DEF VP!Next, VMoves

\* The slot of a pipeline is the one that TilesHandedOver speaks of.
LEMMA SameSlots ==
  /\ [KP!Slot!Next]_(KP!Slot!slotVars) => [KSlot!Next]_(KSlot!slotVars)
  /\ [VP!Slot!Next]_(VP!Slot!slotVars) => [VSlot!Next]_(VSlot!slotVars)
BY DEF KP!Slot!Next, KSlot!Next, KP!Slot!slotVars, KSlot!slotVars, KP!Slot!Fill, KSlot!Fill,
       KP!Slot!Land, KSlot!Land, KP!Slot!Begin, KSlot!Begin, KP!Slot!End, KSlot!End,
       VP!Slot!Next, VSlot!Next, VP!Slot!slotVars, VSlot!slotVars, VP!Slot!Fill, VSlot!Fill,
       VP!Slot!Land, VSlot!Land, VP!Slot!Begin, VSlot!Begin, VP!Slot!End, VSlot!End

\* Steps of the pipelines keep their invariants and are steps of their slots.
LEMMA PipesKept ==
  ASSUME Pipes, PipesMove
  PROVE  /\ Pipes'
         /\ [KSlot!Next]_(KSlot!slotVars) /\ [VSlot!Next]_(VSlot!slotVars)
<1>1. Parities' /\ [KP!Next]_(KP!pipeVars) /\ [VP!Next]_(VP!pipeVars)
  <2>1. CASE UNCHANGED pipes
    BY <2>1 DEF Pipes, Parities, pipes, KP!pipeVars, VP!pipeVars
  <2> QED BY <2>1, KMovesAre, VMovesAre DEF Pipes, PipesMove
<1>2. KP!IInv' /\ VP!IInv'
  BY <1>1, KP!NextIInv, VP!NextIInv, WarpsAssumption, NoneAssumption DEF Pipes
<1>3. [KP!Slot!Next]_(KP!Slot!slotVars) /\ [VP!Slot!Next]_(VP!Slot!slotVars)
  BY <1>1, <1>2, KP!StepsOfSlot, VP!StepsOfSlot, WarpsAssumption, NoneAssumption DEF Pipes
<1>4. [KSlot!Next]_(KSlot!slotVars) /\ [VSlot!Next]_(VSlot!slotVars)
  BY <1>3, SameSlots
<1> QED BY <1>1, <1>2, <1>4 DEF Pipes

\* The places of a warp, in the order it comes to them: before the first group,
\* up to a group's sums, in its decision, adding the group, and at the end.
Before == {"acquireQ", "syncStart", "loadQ"}
Scoring == {"routeK", "routeV", "scoreRoute", "reduceRoute", "syncSums"}
Deciding == {"decide", "syncRoute"}
Adding ==
  {"count", "firstK", "approximate", "releaseMeans", "firstV", "index", "scoreExact",
   "releaseK", "nextK", "exactV", "releaseV", "nextV"}
Written == {"syncStore", "store", "done"}
Ending == {"epilogue", "syncStore", "store", "done"}
Places == Before \union Scoring \union Deciding \union Adding \union Ending
OfProducer ==
  {"acquireQ", "routeK", "routeV", "decide", "firstK", "firstV", "nextK", "nextV", "store"}

\* How many decisions a warp has been told of, and which barrier it is past.
Round(l, r) == IF l \in Adding THEN r.group + 1 ELSE r.group
Rounds(w) == Round(pc[w], reg[w])
Stage(l) ==
  CASE l \in {"acquireQ", "syncStart"} -> "start"
    [] l \in Deciding -> "decision"
    [] l \in {"store", "done"} -> "end"
    [] OTHER -> "between"

Registers ==
  [group : Nat, count : Nat, ordinal : Nat, block : Nat, score : Tiles \union {None}]

Typed ==
  /\ pc \in [Warps -> Places \union {"undefined"}]
  /\ reg \in [Warps -> Registers]
  /\ scratch \in [sums : [Warps -> Int], group : Int, exact : Seq(0 .. NumBlocks - 1)]
  /\ Q \in {"none", "loading", "Q", "route", "O"}
  /\ tensor = IdleTensor
  /\ raced \in BOOLEAN /\ stored \in BOOLEAN

\* Where a warp is, and the group it is in.
PlacedAt(w, l, r) ==
  /\ l \in Places
  /\ l \in OfProducer => w = Producer
  /\ l \in Before => r.group = 0
  /\ l \in Ending => r.group = NumGroups
  /\ l \notin Before \union Ending => r.group < NumGroups

Placed == \A w \in Warps : PlacedAt(w, pc[w], reg[w])

\* The barriers keep the warps together.
Together ==
  \A w \in Warps : Rounds(w) = Rounds(Producer) /\ Stage(pc[w]) = Stage(pc[Producer])

\* The scratch: the sums of the group that is decided, the decision of the last.
Decided ==
  /\ \A w \in Warps : pc[w] \in Deciding \union {"syncSums"} => scratch.sums[w] = reg[w].group
  /\ scratch.group = IF pc[Producer] = "syncRoute" THEN reg[Producer].group ELSE Rounds(Producer) - 1

\* What the warps know of the exact blocks of the group they add.
CountedAt(l, r) ==
  /\ l \in Adding \ {"count"} => r.count = Len(scratch.exact)
  /\ l \in {"firstK", "firstV"} => r.count > 0
  /\ l = "index" => r.ordinal < r.count
  /\ l = "nextV" => r.ordinal + 1 < r.count

Counted == \A w \in Warps : CountedAt(pc[w], reg[w])

\* The memory of the Q tile: Q until the Producer has read it, then the scratch,
\* then its rows of the output.
Overlaid ==
  /\ Q = "O" <=> pc[Producer] \in Written
  /\ \A w \in Warps :
       pc[w] \in Deciding \union Adding \union {"syncSums"} \/ reg[w].group > 0 => Q \in {"route", "O"}

\* Before the Producer starts the first copy nobody is past the wait for it.
Fresh ==
  pc[Producer] \in Before \/ (pc[Producer] = "routeK" /\ reg[Producer].group = 0) =>
    /\ K = EmptyPipe(Warps)
    /\ pc[Producer] \in Before => Q \in {"none", "loading", "Q"}
    /\ \A w \in Warps :
         /\ consume[w]["K"] = 0
         /\ pc[w] \in Before \union {"routeK", "scoreRoute", "epilogue", "syncStore"}

\* Who reads a stage.
Reading ==
  \A w \in Warps :
    /\ w \in K.reading <=> pc[w] \in {"reduceRoute", "releaseK"}
    /\ w \in V.reading <=> pc[w] \in {"releaseMeans", "releaseV"}

Control == Placed /\ Together /\ Decided /\ Counted /\ Overlaid /\ Fresh /\ Reading

\* The inductive invariant of the sm120 kernel.
IInv == Typed /\ Pipes /\ (raced => Q = "O") /\ (~raced => Control)

\* InOrder lists the members of a finite set of numbers, each once and in order.
LEMMA Listed ==
  ASSUME NEW S \in SUBSET Nat, IsFiniteSet(S)
  PROVE  /\ InOrder(S) \in Seq(S) /\ Len(InOrder(S)) = Cardinality(S)
         /\ \A x \in S : \E i \in 1 .. Cardinality(S) : InOrder(S)[i] = x
         /\ \A i, j \in 1 .. Cardinality(S) : i < j => InOrder(S)[i] < InOrder(S)[j]
<1> DEFINE n == Cardinality(S)
           upTo(x) == {y \in S : y <= x}
           r == [x \in S |-> Cardinality(upTo(x))]
<1>1. n \in Nat /\ IsFiniteSet(1 .. n) /\ Cardinality(1 .. n) = n
  BY FS_CardinalityType, FS_Interval
<1>2. ASSUME NEW x \in S PROVE IsFiniteSet(upTo(x)) /\ Cardinality(upTo(x)) \in 1 .. n
  <2>1. IsFiniteSet(upTo(x)) /\ Cardinality(upTo(x)) <= n /\ Cardinality(upTo(x)) \in Nat
    BY FS_Subset, FS_CardinalityType
  <2>2. x \in upTo(x)
    OBVIOUS
  <2>3. Cardinality(upTo(x)) # 0
    BY <2>1, <2>2, FS_EmptySet
  <2> QED BY <1>1, <2>1, <2>3
<1>3. ASSUME NEW x \in S, NEW y \in S, x < y PROVE r[x] < r[y]
  <2> x \in Nat /\ y \in Nat
    OBVIOUS
  <2>1. upTo(x) \subseteq upTo(y) /\ y \in upTo(y) /\ y \notin upTo(x)
    <3>1. ASSUME NEW z \in upTo(x) PROVE z \in upTo(y)
      <4>1. z \in S /\ z \in Nat /\ z <= x
        BY <3>1
      <4> QED BY <1>3, <4>1
    <3>2. y \in upTo(y) /\ y \notin upTo(x)
      BY <1>3
    <3> HIDE DEF upTo
    <3> QED BY <3>1, <3>2
  <2>2. Cardinality(upTo(x)) <= Cardinality(upTo(y)) /\ Cardinality(upTo(x)) # Cardinality(upTo(y))
    BY <1>2, <2>1, FS_Subset
  <2> QED BY <1>2, <2>2
<1>4. r \in Injection(S, 1 .. n)
  <2>1. r \in [S -> 1 .. n]
    BY <1>2
  <2>2. ASSUME NEW x \in S, NEW y \in S, r[x] = r[y] PROVE x = y
    <3> x \in Nat /\ y \in Nat /\ r[x] \in Int
      BY <1>1, <2>1
    <3>1. ~(r[x] < r[y]) /\ ~(r[y] < r[x])
      BY <2>2
    <3> QED BY <1>3, <3>1
  <2> QED BY <2>1, <2>2 DEF Injection, IsInjective
<1>5. r \in Surjection(S, 1 .. n)
  BY <1>1, <1>4, FS_Injection
<1>6. \A i \in 1 .. n : \E x \in S : Cardinality(upTo(x)) = i
  BY <1>5 DEF Surjection
<1>7. InOrder(S) = [i \in 1 .. n |-> CHOOSE x \in S : Cardinality(upTo(x)) = i]
  BY DEF InOrder, Promise!InOrder, Promise!Cardinality, Cardinality
<1>8. \A i \in 1 .. n : InOrder(S)[i] \in S /\ r[InOrder(S)[i]] = i
  BY <1>6, <1>7
<1>9. InOrder(S) \in Seq(S) /\ Len(InOrder(S)) = n
  <2>1. InOrder(S) \in [1 .. n -> S]
    BY <1>7, <1>8
  <2> HIDE DEF n
  <2> QED BY <1>1, <2>1
<1>10. ASSUME NEW x \in S PROVE \E i \in 1 .. n : InOrder(S)[i] = x
  <2>1. r[x] \in 1 .. n
    BY <1>2
  <2>2. InOrder(S)[r[x]] \in S /\ r[InOrder(S)[r[x]]] = r[x]
    BY <1>8, <2>1
  <2> QED BY <1>4, <2>1, <2>2 DEF Injection, IsInjective
<1>11. ASSUME NEW i \in 1 .. n, NEW j \in 1 .. n, i < j PROVE InOrder(S)[i] < InOrder(S)[j]
  <2>1. /\ InOrder(S)[i] \in S /\ InOrder(S)[j] \in S
        /\ r[InOrder(S)[i]] = i /\ r[InOrder(S)[j]] = j
    BY <1>8
  <2> DEFINE x == InOrder(S)[i]
             y == InOrder(S)[j]
  <2>2. x \in S /\ y \in S /\ x \in Nat /\ y \in Nat /\ r[x] < r[y]
    BY <1>11, <2>1
  <2>3. ~(r[y] < r[x]) /\ x # y
    <3>1. r[x] \in Int /\ r[y] \in Int
      BY <1>1, <2>1
    <3> QED BY <2>2, <3>1
  <2>4. ~(y < x)
    BY <1>3, <2>2, <2>3
  <2> HIDE DEF x, y
  <2>5. x < y
    BY <2>2, <2>3, <2>4
  <2> QED BY <2>5 DEF x, y
<1> QED BY <1>9, <1>10, <1>11

\* The sizes are numbers, and so is what is counted in them.
LEMMA Sizes == NumBlocks \in Nat /\ NumGroups \in Nat
  BY SizesAssumption, Z3 DEF NumBlocks, NumGroups, Promise!NumBlocks, Promise!NumGroups

\* The fields of the pipelines.
LEMMA Fields ==
  ASSUME Pipes
  PROVE  \A p \in {K, V} :
           /\ p \in [readers : {Warps}, full : Bit, empty : Bit, arrived : SUBSET Warps,
                     filling : Tiles \union {None}, content : Tiles \union {None},
                     due : SUBSET Warps, reading : SUBSET Warps]
           /\ \A t : Filled(p, t).reading = p.reading
           /\ Landed(p).reading = p.reading
           /\ \A w : /\ Begun(p, w).reading = p.reading \union {w}
                     /\ Released(p, w).reading = p.reading \ {w}
  BY DEF Pipes, KP!IInv, VP!IInv, KP!TypeOK, VP!TypeOK, KP!Bit, VP!Bit, Bit, Filled, Landed,
         Begun, Released

\* The top of the loop over the groups: where a warp goes, as its round says.
LEMMA Tops ==
  ASSUME NEW w \in Warps, NEW g \in Nat, g <= NumGroups
  PROVE  /\ Top(w, g) = IF g = NumGroups THEN "epilogue"
                        ELSE IF w = Producer THEN "routeK" ELSE "scoreRoute"
         /\ \A r \in Registers : r.group = g =>
              PlacedAt(w, Top(w, g), r) /\ CountedAt(Top(w, g), r) /\ Round(Top(w, g), r) = g
         /\ Stage(Top(w, g)) = "between"
         /\ Top(w, g) \notin Deciding \union {"syncSums", "syncRoute"} \union Written \union Before
<1>1. Top(w, g) = IF g = NumGroups THEN "epilogue"
                  ELSE IF w = Producer THEN "routeK" ELSE "scoreRoute"
  BY Sizes DEF Top
<1>2. ASSUME NEW r \in Registers, r.group = g
      PROVE  PlacedAt(w, Top(w, g), r) /\ CountedAt(Top(w, g), r) /\ Round(Top(w, g), r) = g
  BY <1>1, <1>2, Sizes
  DEF PlacedAt, CountedAt, Round, Places, OfProducer, Before, Scoring, Deciding, Adding, Ending, Written
<1> QED BY <1>1, <1>2 DEF Stage, Deciding, Written, Before

\* A warp is at the start, in a decision or past the end when the Producer is.
LEMMA SameStage ==
  ASSUME Typed, Placed, Together, NEW w \in Warps
  PROVE  /\ pc[w] \in {"acquireQ", "syncStart"} <=> pc[Producer] \in {"acquireQ", "syncStart"}
         /\ pc[w] \in Deciding <=> pc[Producer] \in Deciding
         /\ pc[w] \in {"store", "done"} <=> pc[Producer] \in {"store", "done"}
<1>1. Stage(pc[w]) = Stage(pc[Producer])
  BY DEF Together
<1>2. \A l : /\ l \in {"acquireQ", "syncStart"} <=> Stage(l) = "start"
             /\ l \in Deciding <=> Stage(l) = "decision"
             /\ l \in {"store", "done"} <=> Stage(l) = "end"
  BY DEF Stage, Deciding
<1> QED BY <1>1, <1>2

\* A step of one warp within a round: it goes to a place and gets registers
\* that fit, passes no barrier and leaves the scratch and Q as they are.
WarpGoes(w, l, r) ==
  /\ ~raced /\ raced' = raced
  /\ pc' = [pc EXCEPT ![w] = l] /\ reg' = [reg EXCEPT ![w] = r]
  /\ Q' = Q /\ scratch' = scratch /\ tensor' = tensor

Fits(w, l, r) ==
  /\ r \in Registers
  /\ PlacedAt(w, l, r) /\ CountedAt(l, r)
  /\ Round(l, r) = Rounds(w) /\ Stage(l) = Stage(pc[w])
  /\ l \notin Deciding \union {"syncSums"} /\ pc[w] # "syncRoute"
  /\ w = Producer => (l \in Written <=> pc[w] \in Written)

\* Such a step keeps the warps placed and together, and the scratch right.
LEMMA WarpKeeps ==
  ASSUME Typed, Control, NEW w \in Warps, NEW l, NEW r, WarpGoes(w, l, r), Fits(w, l, r),
         stored' \in BOOLEAN
  PROVE  Typed' /\ Placed' /\ Together' /\ Decided' /\ Counted' /\ Overlaid'
<1> USE ProducerAssumption
<1>1. /\ pc'[w] = l /\ reg'[w] = r
      /\ \A v \in Warps \ {w} : pc'[v] = pc[v] /\ reg'[v] = reg[v]
      /\ pc' \in [Warps -> Places \union {"undefined"}] /\ reg' \in [Warps -> Registers]
  BY DEF Typed, WarpGoes, Fits, PlacedAt
<1>2. Typed'
  <2>1. raced' \in BOOLEAN
    BY DEF Typed, WarpGoes
  <2> QED BY <1>1, <2>1 DEF Typed, WarpGoes
<1>3. Placed'
  BY <1>1 DEF Control, Placed, Fits
<1>4. \A v \in Warps : Rounds(v)' = Rounds(v) /\ Stage(pc'[v]) = Stage(pc[v])
  BY <1>1 DEF Rounds, Fits
<1>5. Together'
  BY <1>4 DEF Control, Together
<1>6. Decided'
  BY <1>1, <1>4 DEF Control, Decided, WarpGoes, Fits, Deciding
<1>7. Counted'
  BY <1>1 DEF Control, Counted, CountedAt, WarpGoes, Fits
<1>8. Overlaid'
  <2>1. Q' = "O" <=> pc'[Producer] \in Written
    BY <1>1 DEF Control, Overlaid, WarpGoes, Fits
  <2>2. ASSUME NEW v \in Warps, pc'[v] \in Deciding \union Adding \union {"syncSums"} \/ reg'[v].group > 0
        PROVE  Q' \in {"route", "O"}
    <3>1. CASE v # w
      BY <1>1, <2>2, <3>1 DEF Control, Overlaid, WarpGoes
    <3>2. CASE v = w
      <4>1. l \in Adding \/ r.group > 0
        BY <1>1, <2>2, <3>2 DEF Fits
      <4>2. reg[w].group \in Nat /\ r.group \in Nat
        BY <1>1 DEF Typed, Registers, Fits
      <4>3. pc[w] \in Adding \/ reg[w].group > 0
        BY <4>1, <4>2 DEF Fits, Rounds, Round
      <4> QED BY <4>3 DEF Control, Overlaid, WarpGoes
    <3> QED BY <3>1, <3>2
  <2> QED BY <2>1, <2>2 DEF Overlaid
<1> QED BY <1>2, <1>3, <1>5, <1>6, <1>7, <1>8

ReadsK == {"reduceRoute", "releaseK"}
ReadsV == {"releaseMeans", "releaseV"}

\* Nobody else begins to read or stops.
Readers(w, l) ==
  \A v \in Warps :
    /\ v \in K'.reading <=> IF v = w THEN l \in ReadsK ELSE v \in K.reading
    /\ v \in V'.reading <=> IF v = w THEN l \in ReadsV ELSE v \in V.reading

\* After the first wait for K a step does not bring the start back.
LEMMA LateStart ==
  ASSUME Typed, Control, NEW w \in Warps, NEW l, NEW r \in Registers,
         pc' = [pc EXCEPT ![w] = l], reg' = [reg EXCEPT ![w] = r],
         l \notin Before, l = "routeK" => r.group > 0,
         w = Producer \/ pc[w] \notin Before \union {"routeK", "scoreRoute", "epilogue", "syncStore"}
  PROVE  Fresh'
<1> USE ProducerAssumption
<1>1. /\ pc'[w] = l /\ reg'[w] = r
      /\ \A v \in Warps \ {w} : pc'[v] = pc[v] /\ reg'[v] = reg[v]
  BY DEF Typed
<1>2. CASE w = Producer
  <2>1. r.group \in Nat
    BY DEF Registers
  <2> QED BY <1>1, <1>2, <2>1 DEF Fresh
<1>3. CASE w # Producer
  <2>1. ~(pc[Producer] \in Before \/ (pc[Producer] = "routeK" /\ reg[Producer].group = 0))
    BY <1>3 DEF Control, Fresh
  <2> QED BY <1>1, <1>3, <2>1 DEF Fresh
<1> QED BY <1>2, <1>3

\* The same of a step within a round.
LEMMA LateFresh ==
  ASSUME Typed, Control, NEW w \in Warps, NEW l, NEW r \in Registers, WarpGoes(w, l, r),
         l \notin Before, l = "routeK" => r.group > 0,
         w = Producer \/ pc[w] \notin Before \union {"routeK", "scoreRoute", "epilogue", "syncStore"}
  PROVE  Fresh'
  BY LateStart DEF WarpGoes

\* A step of a warp within a round keeps the invariant.
LEMMA Completes ==
  ASSUME Typed, Control, NEW w \in Warps, NEW l, NEW r, WarpGoes(w, l, r), Fits(w, l, r),
         stored' \in BOOLEAN, Readers(w, l), Fresh'
  PROVE  ~raced' /\ Typed' /\ Control'
<1>1. /\ pc'[w] = l
      /\ \A v \in Warps \ {w} : pc'[v] = pc[v]
  BY DEF Typed, WarpGoes
<1>2. Reading'
  BY <1>1 DEF Control, Reading, Readers, ReadsK, ReadsV
<1>3. Typed' /\ Placed' /\ Together' /\ Decided' /\ Counted' /\ Overlaid'
  BY WarpKeeps
<1> QED BY <1>2, <1>3 DEF Control, WarpGoes

\* A warp that reads neither stage goes on without one.
LEMMA NoReader ==
  ASSUME Control, NEW w \in Warps, NEW l,
         K'.reading = K.reading, V'.reading = V.reading,
         pc[w] \notin ReadsK \union ReadsV, l \notin ReadsK \union ReadsV
  PROVE  Readers(w, l)
  BY DEF Control, Reading, Readers, ReadsK, ReadsV

\* Registers that do not change.
LEMMA SameRegisters ==
  ASSUME Typed, NEW w \in Warps
  PROVE  reg = [reg EXCEPT ![w] = reg[w]] /\ reg[w] \in Registers
  BY DEF Typed

\* The tiles that copies bring are tiles.
LEMMA Means == \A g \in Nat : g < NumGroups => {Promise!KMeans(g), Promise!VMeans(g)} \subseteq Tiles
  BY Sizes, TilesAssumption

\* So are the copies of exact blocks.
LEMMA Exact ==
  ASSUME Typed, NEW i \in 1 .. Len(scratch.exact)
  PROVE  /\ scratch.exact[i] \in 0 .. NumBlocks - 1
         /\ {Promise!KBlocks({scratch.exact[i]}), Promise!VBlocks({scratch.exact[i]})} \subseteq Tiles
<1>1. scratch.exact[i] \in 0 .. NumBlocks - 1
  <2> DEFINE B == 0 .. NumBlocks - 1
  <2>1. scratch.exact \in Seq(B)
    BY DEF Typed
  <2> HIDE DEF B
  <2>2. scratch.exact[i] \in B
    BY <2>1
  <2> QED BY <2>2 DEF B
<1>2. {scratch.exact[i], scratch.exact[i]} = {scratch.exact[i]}
  OBVIOUS
<1> QED BY <1>1, <1>2, TilesAssumption

\* Where the loop over a group's blocks goes on.
LEMMA Proceeds ==
  ASSUME Typed, Control, NEW w \in Warps, NEW n \in Nat, Proceed(w, n),
         pc[w] \in {"releaseMeans", "firstV", "releaseV", "nextV"}
  PROVE  \E l \in {"index", "routeK", "scoreRoute", "epilogue"}, r \in Registers :
           /\ pc' = [pc EXCEPT ![w] = l] /\ reg' = [reg EXCEPT ![w] = r]
           /\ Fits(w, l, r) /\ (l = "routeK" => r.group > 0)
<1>1. /\ reg[w] \in Registers /\ reg[w].group \in Nat /\ reg[w].count \in Nat
      /\ PlacedAt(w, pc[w], reg[w]) /\ CountedAt(pc[w], reg[w])
      /\ reg[w].group < NumGroups /\ reg[w].count = Len(scratch.exact)
      /\ Rounds(w) = reg[w].group + 1 /\ Stage(pc[w]) = "between"
  BY DEF Typed, Registers, Control, Placed, PlacedAt, Counted, CountedAt, Rounds, Round, Stage,
         Before, Ending, Written, Adding, Deciding
<1>2. CASE n < reg[w].count
  <2> DEFINE r == [reg[w] EXCEPT !.ordinal = n]
  <2>1. /\ r \in Registers /\ r.group = reg[w].group /\ r.count = reg[w].count /\ r.ordinal = n
    BY <1>1 DEF Registers
  <2>2. reg' = [reg EXCEPT ![w] = r] /\ pc' = [pc EXCEPT ![w] = "index"]
    BY <1>2 DEF Proceed, Goto
  <2> HIDE DEF r
  <2>3. Fits(w, "index", r)
    BY <1>1, <1>2, <2>1 DEF Fits, PlacedAt, CountedAt, Round, Stage, Places, OfProducer, Before,
       Scoring, Deciding, Adding, Ending, Written
  <2> QED BY <2>1, <2>2, <2>3
<1>3. CASE ~(n < reg[w].count)
  <2> DEFINE r == [reg[w] EXCEPT !.group = reg[w].group + 1, !.ordinal = 0, !.count = 0]
             l == Top(w, reg[w].group + 1)
  <2>1. r \in Registers /\ r.group = reg[w].group + 1 /\ r.group \in Nat /\ r.group <= NumGroups /\ r.group > 0
    <3>1. /\ reg[w].group + 1 \in Nat /\ reg[w].group + 1 <= NumGroups /\ reg[w].group + 1 > 0
      BY <1>1, Sizes
    <3> DEFINE a == [reg[w] EXCEPT !.group = reg[w].group + 1]
               b == [a EXCEPT !.ordinal = 0]
               c == [b EXCEPT !.count = 0]
    <3>2. a \in Registers /\ a.group = reg[w].group + 1
      BY <1>1, <3>1 DEF Registers
    <3>3. r = c
      OBVIOUS
    <3> HIDE DEF r, a
    <3>4. b \in Registers /\ b.group = reg[w].group + 1
      BY <3>2 DEF Registers
    <3> HIDE DEF b
    <3>5. c \in Registers /\ c.group = reg[w].group + 1
      BY <3>4 DEF Registers
    <3> QED BY <1>1, <3>1, <3>3, <3>5
  <2>2. reg' = [reg EXCEPT ![w] = r] /\ pc' = [pc EXCEPT ![w] = l]
    BY <1>3 DEF Proceed, Goto
  <2> HIDE DEF r
  <2>3. /\ PlacedAt(w, l, r) /\ CountedAt(l, r) /\ Round(l, r) = r.group /\ Stage(l) = "between"
        /\ l \notin Deciding \union {"syncSums", "syncRoute"} \union Written
        /\ l \in {"epilogue", "routeK", "scoreRoute"}
    BY <2>1, Tops
  <2> HIDE DEF l
  <2>4. Fits(w, l, r)
    BY <1>1, <2>1, <2>3 DEF Fits, Written, Deciding
  <2> QED BY <2>1, <2>2, <2>3, <2>4
<1> QED BY <1>2, <1>3

\* What the invariant says of one warp.
LEMMA Here ==
  ASSUME Typed, Control, NEW w \in Warps
  PROVE  /\ reg[w] \in Registers /\ reg[w].group \in Nat /\ reg[w].count \in Nat
         /\ reg[w].ordinal \in Nat
         /\ PlacedAt(w, pc[w], reg[w]) /\ CountedAt(pc[w], reg[w])
         /\ Rounds(w) = Round(pc[w], reg[w])
         /\ scratch.group \in Int /\ scratch.exact \in Seq(0 .. NumBlocks - 1)
         /\ Len(scratch.exact) \in Nat
<1>1. reg[w] \in Registers /\ scratch.group \in Int /\ scratch.exact \in Seq(0 .. NumBlocks - 1)
  BY DEF Typed
<1> QED BY <1>1 DEF Control, Placed, Counted, Rounds, Registers

\* A place that a warp may go to without new registers fits.
LEMMA Onward ==
  ASSUME Typed, Control, NEW w \in Warps, NEW l,
         \/ pc[w] = "loadQ" /\ l = Top(w, 0)
         \/ pc[w] = "routeK" /\ l = "routeV"
         \/ pc[w] = "routeV" /\ l = "scoreRoute"
         \/ pc[w] = "scoreRoute" /\ l = "reduceRoute"
         \/ pc[w] = "firstK" /\ l = "approximate"
         \/ pc[w] = "approximate" /\ l = "releaseMeans"
         \/ pc[w] = "releaseMeans" /\ l = "firstV" /\ w = Producer /\ reg[w].count > 0
         \/ pc[w] = "scoreExact" /\ l = "releaseK"
         \/ pc[w] = "releaseK" /\ l = IF w = Producer THEN "nextK" ELSE "exactV"
         \/ pc[w] = "nextK" /\ l = "exactV"
         \/ pc[w] = "exactV" /\ l = "releaseV"
         \/ /\ pc[w] = "releaseV" /\ l = "nextV"
            /\ w = Producer /\ reg[w].ordinal + 1 < reg[w].count
         \/ pc[w] = "epilogue" /\ l = "syncStore" /\ w # Producer
         \/ pc[w] = "store" /\ l = "done"
  PROVE  Fits(w, l, reg[w])
<1>1. CASE pc[w] = "loadQ" /\ l = Top(w, 0)
  <2>1. reg[w].group = 0 /\ Round(pc[w], reg[w]) = 0 /\ Stage(pc[w]) = "between"
    BY <1>1, Here DEF PlacedAt, Round, Stage, Before, Adding, Deciding
  <2>2. 0 \in Nat /\ 0 <= NumGroups
    BY Sizes
  <2>3. /\ PlacedAt(w, l, reg[w]) /\ CountedAt(l, reg[w]) /\ Round(l, reg[w]) = 0
        /\ Stage(l) = "between" /\ l \notin Deciding \union {"syncSums", "syncRoute"} \union Written
    BY <1>1, <2>1, <2>2, Tops, Here
  <2> QED BY <1>1, <2>1, <2>3, Here DEF Fits, Written
<1>2. CASE pc[w] # "loadQ"
  BY <1>2, Here
  DEF Fits, PlacedAt, CountedAt, Round, Stage, Places, OfProducer, Before, Scoring, Deciding,
      Adding, Ending, Written
<1> QED BY <1>1, <1>2

\* What a step must keep, with the pipelines left to their own theorems.
Keeps ==
  /\ PipesMove /\ Typed'
  /\ raced' => Q' = "O"
  /\ ~raced' => Control'

\* A warp that adds a group has its routes in the scratch, unless the output
\* is there already.
LEMMA Current ==
  ASSUME Typed, Control, NEW w \in Warps, pc[w] \in Adding
  PROVE  scratch.group = reg[w].group /\ Q \in {"route", "O"}
<1>1. Rounds(w) = Rounds(Producer) /\ pc[Producer] # "syncRoute"
  BY SameStage DEF Control, Together, Adding, Deciding
<1>2. Rounds(w) = reg[w].group + 1
  BY DEF Rounds, Round
<1> QED BY <1>1, <1>2, Here DEF Control, Decided, Overlaid

\* A race leaves the memory alone.
LEMMA RaceKeeps ==
  ASSUME Typed, NEW w \in Warps, Race(w), Q = "O"
  PROVE  Keeps
<1>1. pc' \in [Warps -> Places \union {"undefined"}] /\ raced' = TRUE
  BY DEF Race, Goto, Typed
<1>2. /\ UNCHANGED <<reg, scratch, Q, tensor, stored>> /\ UNCHANGED pipes
  BY DEF Race, memory, results
<1> QED BY <1>1, <1>2 DEF Keeps, PipesMove, Typed

\* What each action of a warp keeps, by what it does.
LEMMA WarpDone ==
  ASSUME Typed, Control, NEW w \in Warps, NEW l, NEW r, WarpGoes(w, l, r), Fits(w, l, r),
         PipesMove, Readers(w, l), Fresh', UNCHANGED stored \/ stored' = TRUE
  PROVE  Keeps
<1>1. stored' \in BOOLEAN
  BY DEF Typed
<1> QED BY <1>1, Completes DEF Keeps

\* A warp has its queries, which the Producer meets in memory.
LEMMA LoadQKeeps ==
  ASSUME Typed, Pipes, Control, NEW w \in Warps, LoadQ(w)
  PROVE  Keeps
<1> DEFINE l == Top(w, 0)
<1>1. ~(w = Producer /\ Q # "Q")
  BY DEF LoadQ, Control, Fresh, Before
<1>2. /\ pc[w] = "loadQ" /\ WarpGoes(w, l, reg[w])
      /\ UNCHANGED <<K, V, produce, consume, stored>>
  BY <1>1, SameRegisters DEF LoadQ, Goto, WarpGoes, pipes, memory, results
<1>3. reg[w].group = 0
  BY <1>2, Here DEF PlacedAt, Before
<1>4. /\ l \in {"epilogue", "routeK", "scoreRoute"}
      /\ w = Producer => l \in {"epilogue", "routeK"}
  BY Sizes DEF Top
<1> HIDE DEF l
<1>5. Fits(w, l, reg[w])
  BY <1>2, Onward DEF l
<1>6. Fresh'
  <2>1. /\ pc'[w] = l /\ \A v \in Warps \ {w} : pc'[v] = pc[v]
        /\ reg' = reg
    BY <1>2, SameRegisters DEF WarpGoes, Typed
  <2>2. (pc'[Producer] \in Before \/ (pc'[Producer] = "routeK" /\ reg'[Producer].group = 0)) =>
          (pc[Producer] \in Before \/ (pc[Producer] = "routeK" /\ reg[Producer].group = 0))
    BY <1>2, <2>1, ProducerAssumption DEF Before
  <2>3. pc'[Producer] \in Before => pc[Producer] \in Before
    BY <1>2, <2>1, ProducerAssumption DEF Before
  <2> QED BY <1>2, <1>4, <2>1, <2>2, <2>3 DEF Control, Fresh, WarpGoes
<1>7. Readers(w, l)
  BY <1>2, <1>4, NoReader DEF ReadsK, ReadsV
<1>8. PipesMove
  BY <1>2 DEF PipesMove, pipes
<1> QED BY <1>2, <1>5, <1>6, <1>7, <1>8, WarpDone

\* The means of a group are fetched, unless they are there.
LEMMA RouteKKeeps ==
  ASSUME Typed, Pipes, Control, RouteK
  PROVE  Keeps
<1> USE ProducerAssumption
<1>1. /\ pc[Producer] = "routeK" /\ WarpGoes(Producer, "routeV", reg[Producer])
      /\ IssueK(Promise!KMeans(reg[Producer].group)) \/ UNCHANGED <<K, produce>>
      /\ UNCHANGED <<V, consume, stored>>
  BY SameRegisters DEF RouteK, Step, Goto, WarpGoes, memory, results
<1>2. reg[Producer].group \in Nat /\ reg[Producer].group < NumGroups
  BY <1>1, Here DEF PlacedAt, Before, Ending
<1>3. Promise!KMeans(reg[Producer].group) \in Tiles
  BY <1>2, Means
<1>4. PipesMove
  BY <1>1, <1>3 DEF PipesMove, KMoves, pipes
<1>5. K'.reading = K.reading /\ V'.reading = V.reading
  BY <1>1, Fields DEF IssueK
<1>6. Readers(Producer, "routeV")
  BY <1>1, <1>5, NoReader DEF ReadsK, ReadsV
<1>7. Fresh'
  BY <1>1, LateFresh, Here DEF Before
<1>8. Fits(Producer, "routeV", reg[Producer])
  BY <1>1, Onward
<1> QED BY <1>1, <1>4, <1>6, <1>7, <1>8, WarpDone

\* The means of its values are fetched.
LEMMA RouteVKeeps ==
  ASSUME Typed, Pipes, Control, RouteV
  PROVE  Keeps
<1> USE ProducerAssumption
<1>1. /\ pc[Producer] = "routeV" /\ WarpGoes(Producer, "scoreRoute", reg[Producer])
      /\ IssueV(Promise!VMeans(reg[Producer].group))
      /\ UNCHANGED <<K, consume, stored>>
  BY SameRegisters DEF RouteV, Step, Goto, WarpGoes, memory, results
<1>2. reg[Producer].group \in Nat /\ reg[Producer].group < NumGroups
  BY <1>1, Here DEF PlacedAt, Before, Ending
<1>3. Promise!VMeans(reg[Producer].group) \in Tiles
  BY <1>2, Means
<1>4. PipesMove
  BY <1>1, <1>3 DEF PipesMove, VMoves, pipes
<1>5. K'.reading = K.reading /\ V'.reading = V.reading
  BY <1>1, Fields DEF IssueV
<1>6. Readers(Producer, "scoreRoute")
  BY <1>1, <1>5, NoReader DEF ReadsK, ReadsV
<1>7. Fresh'
  BY <1>1, LateFresh, Here DEF Before
<1>8. Fits(Producer, "scoreRoute", reg[Producer])
  BY <1>1, Onward
<1> QED BY <1>1, <1>4, <1>6, <1>7, <1>8, WarpDone

\* A warp scores the stage.
LEMMA ScoreKeeps ==
  ASSUME Typed, Pipes, Control, NEW w \in Warps, ScoreRoute(w) \/ ScoreExact(w)
  PROVE  Keeps
<1> DEFINE l == IF pc[w] = "scoreRoute" THEN "reduceRoute" ELSE "releaseK"
           r == [reg[w] EXCEPT !.score = K.content]
<1>1. /\ pc[w] \in {"scoreRoute", "scoreExact"} /\ WarpGoes(w, l, r)
      /\ KReady(w) /\ K' = Begun(K, w) /\ UNCHANGED <<V, produce, consume, stored>>
  BY DEF ScoreRoute, ScoreExact, Score, Step, Goto, WarpGoes, memory, results
<1>2. K.content \in Tiles \union {None}
  BY Fields
<1>3. /\ r \in Registers /\ r.group = reg[w].group /\ r.count = reg[w].count
      /\ r.ordinal = reg[w].ordinal
  BY <1>2, Here DEF Registers
<1> HIDE DEF r
<1>4. Fits(w, l, reg[w])
  BY <1>1, Onward
<1>5. Fits(w, l, r)
  BY <1>3, <1>4 DEF Fits, PlacedAt, CountedAt, Round
<1>6. w \notin K.reading
  BY <1>1 DEF Control, Reading
<1>7. PipesMove
  BY <1>1, <1>6 DEF PipesMove, KMoves
<1>8. K'.reading = K.reading \union {w} /\ V' = V
  BY <1>1, Fields
<1>9. Readers(w, l)
  BY <1>1, <1>8 DEF Readers, ReadsK, ReadsV, Control, Reading
<1>10. Fresh'
  <2>1. CASE w = Producer \/ pc[w] = "scoreExact"
    BY <1>1, <1>3, <2>1, LateFresh DEF Before
  <2>2. CASE w # Producer /\ pc[w] = "scoreRoute"
    <3>1. ~(pc[Producer] \in Before \/ (pc[Producer] = "routeK" /\ reg[Producer].group = 0))
      BY <1>1 DEF Control, Fresh, KReady, Ready, EmptyPipe
    <3>2. pc'[Producer] = pc[Producer] /\ reg'[Producer] = reg[Producer]
      BY <1>1, <2>2, ProducerAssumption DEF WarpGoes, Typed
    <3> QED BY <3>1, <3>2 DEF Fresh
  <2> QED BY <1>1, <2>1, <2>2
<1> QED BY <1>1, <1>5, <1>7, <1>9, <1>10, WarpDone

\* A warp learns how many exact blocks the group has.
LEMMA ReadCountKeeps ==
  ASSUME Typed, Pipes, Control, NEW w \in Warps, ReadCount(w)
  PROVE  Keeps
<1> DEFINE n == Len(scratch.exact)
           l == IF w = Producer /\ n > 0 THEN "firstK" ELSE "approximate"
           r == [reg[w] EXCEPT !.count = n]
<1>1. pc[w] = "count" /\ pc[w] \in Adding
  BY DEF ReadCount, Adding
<1>2. CASE ~Readable(w)
  BY <1>1, <1>2, Current, RaceKeeps DEF ReadCount, Readable
<1>3. CASE Readable(w)
  <2>1. WarpGoes(w, l, r) /\ UNCHANGED <<K, V, produce, consume, stored>>
    BY <1>3 DEF ReadCount, Goto, WarpGoes, pipes, memory, results
  <2>2. /\ r \in Registers /\ r.group = reg[w].group /\ r.count = n
    BY Here DEF Registers
  <2> HIDE DEF r
  <2>3. Fits(w, l, r)
    BY <1>1, <2>2, Here
    DEF Fits, PlacedAt, CountedAt, Round, Stage, Places, OfProducer, Before, Scoring, Deciding,
        Adding, Ending, Written
  <2>4. Readers(w, l)
    BY <1>1, <2>1, NoReader DEF ReadsK, ReadsV
  <2>5. Fresh'
    BY <1>1, <2>1, <2>2, LateFresh DEF Before
  <2>6. PipesMove
    BY <2>1 DEF PipesMove, pipes
  <2> QED BY <2>1, <2>3, <2>4, <2>5, <2>6, WarpDone
<1> QED BY <1>2, <1>3

\* The first exact block's keys are fetched.
LEMMA FirstKKeeps ==
  ASSUME Typed, Pipes, Control, FirstK
  PROVE  Keeps
<1> USE ProducerAssumption
<1>1. /\ pc[Producer] = "firstK" /\ WarpGoes(Producer, "approximate", reg[Producer])
      /\ IssueK(Promise!KBlocks({scratch.exact[1]}))
      /\ UNCHANGED <<V, consume, stored>>
  BY SameRegisters DEF FirstK, Step, Goto, WarpGoes, memory, results
<1>2. 1 \in 1 .. Len(scratch.exact)
  BY <1>1, Here DEF CountedAt, Adding
<1>3. PipesMove
  BY <1>1, <1>2, Exact DEF PipesMove, KMoves
<1>4. Readers(Producer, "approximate")
  BY <1>1, Fields, NoReader DEF ReadsK, ReadsV, IssueK
<1>5. Fresh'
  BY <1>1, LateFresh, Here DEF Before
<1>6. Fits(Producer, "approximate", reg[Producer])
  BY <1>1, Onward
<1> QED BY <1>1, <1>3, <1>4, <1>5, <1>6, WarpDone

\* A warp adds the rest of the group.
LEMMA ApproximateKeeps ==
  ASSUME Typed, Pipes, Control, NEW w \in Warps, Approximate(w)
  PROVE  Keeps
<1>1. pc[w] = "approximate" /\ pc[w] \in Adding
  BY DEF Approximate, Adding
<1>2. CASE Race(w) /\ ~Readable(w)
  BY <1>1, <1>2, Current, RaceKeeps DEF Readable
<1>3. CASE ~(Race(w) /\ ~Readable(w))
  <2>1. /\ WarpGoes(w, "releaseMeans", reg[w]) /\ VReady(w) /\ V' = Begun(V, w)
        /\ UNCHANGED <<K, produce, consume, stored>>
    BY <1>3, SameRegisters DEF Approximate, Goto, WarpGoes, memory
  <2>2. w \notin V.reading
    BY <1>1 DEF Control, Reading
  <2>3. PipesMove
    BY <2>1, <2>2 DEF PipesMove, VMoves
  <2>4. V'.reading = V.reading \union {w} /\ K' = K
    BY <2>1, Fields
  <2>5. Readers(w, "releaseMeans")
    BY <1>1, <2>4 DEF Readers, ReadsK, ReadsV, Control, Reading
  <2>6. Fresh'
    BY <1>1, <2>1, LateFresh, Here DEF Before
  <2>7. Fits(w, "releaseMeans", reg[w])
    BY <1>1, Onward
  <2> QED BY <2>1, <2>3, <2>5, <2>6, <2>7, WarpDone
<1> QED BY <1>2, <1>3

\* A warp that frees the V stage stops reading it.
LEMMA FreesV ==
  ASSUME Typed, Pipes, Control, NEW w \in Warps, NEW l, FreeV(w), UNCHANGED <<K, produce>>,
         pc[w] \in ReadsV, l \notin ReadsK \union ReadsV
  PROVE  PipesMove /\ Readers(w, l)
<1>1. w \in V.reading
  BY DEF Control, Reading, ReadsV
<1>2. PipesMove
  BY <1>1 DEF PipesMove, VMoves
<1>3. V'.reading = V.reading \ {w} /\ K' = K
  BY Fields DEF FreeV
<1>4. Readers(w, l)
  BY <1>3 DEF Readers, ReadsK, ReadsV, Control, Reading
<1> QED BY <1>2, <1>4

\* The same of the K stage.
LEMMA FreesK ==
  ASSUME Typed, Pipes, Control, NEW w \in Warps, NEW l, FreeK(w), UNCHANGED <<V, produce>>,
         pc[w] \in ReadsK, l \notin ReadsK \union ReadsV
  PROVE  PipesMove /\ Readers(w, l)
<1>1. w \in K.reading
  BY DEF Control, Reading, ReadsK
<1>2. PipesMove
  BY <1>1 DEF PipesMove, KMoves
<1>3. K'.reading = K.reading \ {w} /\ V' = V
  BY Fields DEF FreeK
<1>4. Readers(w, l)
  BY <1>3 DEF Readers, ReadsK, ReadsV, Control, Reading
<1> QED BY <1>2, <1>4

\* A warp has read the means or an exact block's values.
LEMMA ReleaseVKeeps ==
  ASSUME Typed, Pipes, Control, NEW w \in Warps, ReleaseMeans(w) \/ ReleaseV(w)
  PROVE  Keeps
<1>1. /\ ~raced /\ raced' = raced /\ pc[w] \in ReadsV /\ FreeV(w)
      /\ UNCHANGED <<K, produce, Q, scratch, tensor, stored>>
  BY DEF ReleaseMeans, ReleaseV, ReadsV, memory, results
<1>2. PICK l \in {"firstV", "nextV", "index", "routeK", "scoreRoute", "epilogue"}, r \in Registers :
        /\ pc' = [pc EXCEPT ![w] = l] /\ reg' = [reg EXCEPT ![w] = r]
        /\ Fits(w, l, r) /\ (l = "routeK" => r.group > 0)
  <2>1. CASE ReleaseMeans(w) /\ w = Producer /\ reg[w].count > 0
    <3>1. pc[w] = "releaseMeans" /\ pc' = [pc EXCEPT ![w] = "firstV"] /\ reg' = reg
      BY <2>1 DEF ReleaseMeans, Goto
    <3>2. Fits(w, "firstV", reg[w])
      BY <2>1, <3>1, Onward
    <3> QED BY <3>1, <3>2, SameRegisters
  <2>2. CASE ReleaseV(w) /\ w = Producer /\ reg[w].ordinal + 1 < reg[w].count
    <3>1. pc[w] = "releaseV" /\ pc' = [pc EXCEPT ![w] = "nextV"] /\ reg' = reg
      BY <2>2 DEF ReleaseV, Goto
    <3>2. Fits(w, "nextV", reg[w])
      BY <2>2, <3>1, Onward
    <3> QED BY <3>1, <3>2, SameRegisters
  <2>3. CASE ReleaseMeans(w) /\ ~(w = Producer /\ reg[w].count > 0)
    <3>1. Proceed(w, 0) /\ pc[w] = "releaseMeans"
      BY <2>3 DEF ReleaseMeans
    <3>2. PICK l \in {"index", "routeK", "scoreRoute", "epilogue"}, r \in Registers :
           /\ pc' = [pc EXCEPT ![w] = l] /\ reg' = [reg EXCEPT ![w] = r]
           /\ Fits(w, l, r) /\ (l = "routeK" => r.group > 0)
      BY <3>1, Proceeds
    <3> QED BY <3>2
  <2>4. CASE ReleaseV(w) /\ ~(w = Producer /\ reg[w].ordinal + 1 < reg[w].count)
    <3>1. Proceed(w, reg[w].ordinal + 1) /\ pc[w] = "releaseV"
      BY <2>4 DEF ReleaseV
    <3>2. reg[w].ordinal + 1 \in Nat
      BY Here
    <3>3. PICK l \in {"index", "routeK", "scoreRoute", "epilogue"}, r \in Registers :
           /\ pc' = [pc EXCEPT ![w] = l] /\ reg' = [reg EXCEPT ![w] = r]
           /\ Fits(w, l, r) /\ (l = "routeK" => r.group > 0)
      BY <3>1, <3>2, Proceeds
    <3> QED BY <3>3
  <2> QED BY <2>1, <2>2, <2>3, <2>4
<1>3. WarpGoes(w, l, r)
  BY <1>1, <1>2 DEF WarpGoes
<1>4. PipesMove /\ Readers(w, l)
  BY <1>1, <1>2, FreesV DEF ReadsK, ReadsV
<1>5. Fresh'
  BY <1>1, <1>2, <1>3, LateFresh DEF Before, ReadsV
<1> QED BY <1>1, <1>2, <1>3, <1>4, <1>5, WarpDone

\* The first exact block's values are fetched.
LEMMA FirstVKeeps ==
  ASSUME Typed, Pipes, Control, FirstV
  PROVE  Keeps
<1> USE ProducerAssumption
<1>1. /\ ~raced /\ raced' = raced /\ pc[Producer] = "firstV"
      /\ IssueV(Promise!VBlocks({scratch.exact[1]})) /\ Proceed(Producer, 0)
      /\ UNCHANGED <<K, consume, Q, scratch, tensor, stored>>
  BY DEF FirstV, memory, results
<1>2. PICK l \in {"index", "routeK", "scoreRoute", "epilogue"}, r \in Registers :
        /\ pc' = [pc EXCEPT ![Producer] = l] /\ reg' = [reg EXCEPT ![Producer] = r]
        /\ Fits(Producer, l, r) /\ (l = "routeK" => r.group > 0)
  BY <1>1, Proceeds
<1>3. WarpGoes(Producer, l, r)
  BY <1>1, <1>2 DEF WarpGoes
<1>4. 1 \in 1 .. Len(scratch.exact)
  BY <1>1, Here DEF CountedAt, Adding
<1>5. PipesMove
  BY <1>1, <1>4, Exact DEF PipesMove, VMoves
<1>6. Readers(Producer, l)
  BY <1>1, <1>2, Fields, NoReader DEF ReadsK, ReadsV, IssueV
<1>7. Fresh'
  BY <1>2, <1>3, LateFresh DEF Before
<1> QED BY <1>1, <1>2, <1>3, <1>5, <1>6, <1>7, WarpDone

\* The next exact block's values are fetched.
LEMMA NextVKeeps ==
  ASSUME Typed, Pipes, Control, NextV
  PROVE  Keeps
<1> USE ProducerAssumption
<1> DEFINE next == reg[Producer].ordinal + 1
<1>1. /\ ~raced /\ raced' = raced /\ pc[Producer] = "nextV"
      /\ IssueV(Promise!VBlocks({scratch.exact[next + 1]})) /\ Proceed(Producer, next)
      /\ UNCHANGED <<K, consume, Q, scratch, tensor, stored>>
  BY DEF NextV, memory, results
<1>2. next \in Nat /\ next + 1 \in 1 .. Len(scratch.exact)
  BY <1>1, Here DEF CountedAt, Adding
<1> HIDE DEF next
<1>3. PICK l \in {"index", "routeK", "scoreRoute", "epilogue"}, r \in Registers :
        /\ pc' = [pc EXCEPT ![Producer] = l] /\ reg' = [reg EXCEPT ![Producer] = r]
        /\ Fits(Producer, l, r) /\ (l = "routeK" => r.group > 0)
  BY <1>1, <1>2, Proceeds
<1>4. WarpGoes(Producer, l, r)
  BY <1>1, <1>3 DEF WarpGoes
<1>5. PipesMove
  BY <1>1, <1>2, Exact DEF PipesMove, VMoves
<1>6. Readers(Producer, l)
  BY <1>1, <1>3, Fields, NoReader DEF ReadsK, ReadsV, IssueV
<1>7. Fresh'
  BY <1>3, <1>4, LateFresh DEF Before
<1> QED BY <1>1, <1>3, <1>4, <1>5, <1>6, <1>7, WarpDone

\* A warp learns which block comes next.
LEMMA ReadIndexKeeps ==
  ASSUME Typed, Pipes, Control, NEW w \in Warps, ReadIndex(w)
  PROVE  Keeps
<1> DEFINE b == scratch.exact[reg[w].ordinal + 1]
           r == [reg[w] EXCEPT !.block = b]
<1>1. pc[w] = "index" /\ pc[w] \in Adding
  BY DEF ReadIndex, Adding
<1>2. CASE ~Readable(w)
  BY <1>1, <1>2, Current, RaceKeeps DEF ReadIndex, Readable
<1>3. CASE Readable(w)
  <2>1. WarpGoes(w, "scoreExact", r) /\ UNCHANGED <<K, V, produce, consume, stored>>
    BY <1>3 DEF ReadIndex, Goto, WarpGoes, pipes, memory, results
  <2>2. reg[w].ordinal + 1 \in 1 .. Len(scratch.exact)
    BY <1>1, Here DEF CountedAt
  <2>3. b \in Nat
    <3>1. b \in 0 .. NumBlocks - 1
      BY <2>2, Exact
    <3> HIDE DEF b
    <3> QED BY <3>1, Sizes
  <2>4. /\ r \in Registers /\ r.group = reg[w].group /\ r.count = reg[w].count
        /\ r.ordinal = reg[w].ordinal
    <3> HIDE DEF b
    <3> QED BY <2>3, Here DEF Registers
  <2> HIDE DEF r
  <2>5. Fits(w, "scoreExact", r)
    BY <1>1, <2>4, Here
    DEF Fits, PlacedAt, CountedAt, Round, Stage, Places, OfProducer, Before, Scoring, Deciding,
        Adding, Ending, Written
  <2>6. Readers(w, "scoreExact")
    BY <1>1, <2>1, NoReader DEF ReadsK, ReadsV
  <2>7. Fresh'
    BY <1>1, <2>1, <2>4, LateFresh DEF Before
  <2>8. PipesMove
    BY <2>1 DEF PipesMove, pipes
  <2> QED BY <2>1, <2>5, <2>6, <2>7, <2>8, WarpDone
<1> QED BY <1>2, <1>3

\* A warp has scored an exact block.
LEMMA ReleaseKKeeps ==
  ASSUME Typed, Pipes, Control, NEW w \in Warps, ReleaseK(w)
  PROVE  Keeps
<1> DEFINE l == IF w = Producer THEN "nextK" ELSE "exactV"
<1>1. /\ pc[w] = "releaseK" /\ WarpGoes(w, l, reg[w]) /\ FreeK(w)
      /\ UNCHANGED <<V, produce, stored>>
  BY SameRegisters DEF ReleaseK, Step, Goto, WarpGoes, memory, results
<1>2. Fits(w, l, reg[w])
  BY <1>1, Onward
<1>3. PipesMove /\ Readers(w, l)
  BY <1>1, FreesK DEF ReadsK, ReadsV
<1>4. Fresh'
  BY <1>1, LateFresh, Here DEF Before
<1> QED BY <1>1, <1>2, <1>3, <1>4, WarpDone

\* The keys of the next exact block or the means of the next group are fetched.
LEMMA NextKKeeps ==
  ASSUME Typed, Pipes, Control, NextK
  PROVE  Keeps
<1> USE ProducerAssumption
<1> DEFINE g == reg[Producer].group
           next == reg[Producer].ordinal + 1
<1>1. /\ pc[Producer] = "nextK" /\ WarpGoes(Producer, "exactV", reg[Producer])
      /\ UNCHANGED <<V, consume, stored>>
  BY SameRegisters DEF NextK, Step, Goto, WarpGoes, memory, results
<1>2. /\ g \in Nat /\ next \in Nat /\ g + 1 \in Nat /\ reg[Producer].count \in Nat
      /\ reg[Producer].count = Len(scratch.exact)
  BY <1>1, Here DEF CountedAt, Adding
<1>3. \/ next < reg[Producer].count /\ IssueK(Promise!KBlocks({scratch.exact[next + 1]}))
      \/ g + 1 < NumGroups /\ IssueK(Promise!KMeans(g + 1))
      \/ UNCHANGED <<K, produce>>
  BY <1>2 DEF NextK
<1>4. \/ \E t \in Tiles : IssueK(t)
      \/ UNCHANGED <<K, produce>>
  <2>1. CASE next < reg[Producer].count /\ IssueK(Promise!KBlocks({scratch.exact[next + 1]}))
    <3>1. next + 1 \in 1 .. Len(scratch.exact)
      BY <1>2, <2>1
    <3> QED BY <2>1, <3>1, Exact
  <2>2. CASE g + 1 < NumGroups /\ IssueK(Promise!KMeans(g + 1))
    BY <1>2, <2>2, Means
  <2> QED BY <1>3, <2>1, <2>2
<1>5. PipesMove
  BY <1>1, <1>4 DEF PipesMove, KMoves, pipes
<1>6. K'.reading = K.reading /\ V'.reading = V.reading
  BY <1>1, <1>4, Fields DEF IssueK
<1>7. Readers(Producer, "exactV")
  BY <1>1, <1>6, NoReader DEF ReadsK, ReadsV
<1>8. Fresh'
  BY <1>1, LateFresh, Here DEF Before
<1>9. Fits(Producer, "exactV", reg[Producer])
  BY <1>1, Onward
<1> QED BY <1>1, <1>5, <1>7, <1>8, <1>9, WarpDone

\* A warp adds an exact block.
LEMMA ExactVKeeps ==
  ASSUME Typed, Pipes, Control, NEW w \in Warps, ExactV(w)
  PROVE  Keeps
<1>1. /\ pc[w] = "exactV" /\ WarpGoes(w, "releaseV", reg[w]) /\ VReady(w) /\ V' = Begun(V, w)
      /\ UNCHANGED <<K, produce, consume, stored>>
  BY SameRegisters DEF ExactV, Step, Goto, WarpGoes, memory
<1>2. w \notin V.reading
  BY <1>1 DEF Control, Reading
<1>3. PipesMove
  BY <1>1, <1>2 DEF PipesMove, VMoves
<1>4. V'.reading = V.reading \union {w} /\ K' = K
  BY <1>1, Fields
<1>5. Readers(w, "releaseV")
  BY <1>1, <1>4 DEF Readers, ReadsK, ReadsV, Control, Reading
<1>6. Fresh'
  BY <1>1, LateFresh, Here DEF Before
<1>7. Fits(w, "releaseV", reg[w])
  BY <1>1, Onward
<1> QED BY <1>1, <1>3, <1>5, <1>6, <1>7, WarpDone

\* The tile is stored.
LEMMA StoreOKeeps ==
  ASSUME Typed, Pipes, Control, StoreO
  PROVE  Keeps
<1> USE ProducerAssumption
<1>1. /\ pc[Producer] = "store" /\ WarpGoes(Producer, "done", reg[Producer])
      /\ UNCHANGED <<K, V, produce, consume>> /\ stored' = TRUE
  BY SameRegisters DEF StoreO, Step, Goto, WarpGoes, pipes, memory
<1>2. PipesMove
  BY <1>1 DEF PipesMove, pipes
<1>3. Readers(Producer, "done")
  BY <1>1, NoReader DEF ReadsK, ReadsV
<1>4. Fresh'
  BY <1>1, LateFresh, Here DEF Before
<1>5. Fits(Producer, "done", reg[Producer])
  BY <1>1, Onward
<1> QED BY <1>1, <1>2, <1>3, <1>4, <1>5, WarpDone

\* The first copy of Q is started.
LEMMA AcquireQKeeps ==
  ASSUME Typed, Pipes, Control, AcquireQ
  PROVE  Keeps
<1> USE ProducerAssumption
<1>1. /\ ~raced /\ raced' = raced /\ pc[Producer] = "acquireQ"
      /\ pc' = [pc EXCEPT ![Producer] = "syncStart"] /\ Q' = "loading"
      /\ UNCHANGED <<reg, K, V, produce, consume, scratch, tensor, stored>>
  BY DEF AcquireQ, Step, Goto, pipes, results
<1>2. \A w \in Warps : pc'[w] = IF w = Producer THEN "syncStart" ELSE pc[w]
  BY <1>1 DEF Typed
<1>3. \A w \in Warps :
        /\ pc[w] \in {"acquireQ", "syncStart"} /\ pc'[w] \in {"acquireQ", "syncStart"}
        /\ reg[w].group = 0
  BY <1>1, <1>2, SameStage, Here DEF Control, PlacedAt, Before
<1>4. Typed'
  <2>1. pc' \in [Warps -> Places \union {"undefined"}]
    BY <1>1 DEF Typed, Places, Before
  <2>2. raced' \in BOOLEAN /\ stored' \in BOOLEAN
    BY <1>1 DEF Typed
  <2> QED BY <1>1, <2>1, <2>2 DEF Typed
<1>5. Placed' /\ Together'
  BY <1>1, <1>2, <1>3
  DEF Control, Placed, PlacedAt, Together, Rounds, Round, Stage, Places, OfProducer, Before, Ending,
      Adding
<1>6. Decided' /\ Counted' /\ Overlaid'
  BY <1>1, <1>2, <1>3
  DEF Control, Decided, Counted, CountedAt, Overlaid, Rounds, Round, Deciding, Adding, Written
<1>7. Fresh' /\ Reading'
  BY <1>1, <1>2, <1>3 DEF Control, Fresh, Reading, Before
<1>8. PipesMove
  BY <1>1 DEF PipesMove, pipes
<1> QED BY <1>1, <1>4, <1>5, <1>6, <1>7, <1>8 DEF Keeps, Control

\* A warp puts its sums into the scratch.
LEMMA ReduceRouteKeeps ==
  ASSUME Typed, Pipes, Control, NEW w \in Warps, ReduceRoute(w)
  PROVE  Keeps
<1> USE ProducerAssumption
<1>1. /\ ~raced /\ raced' = raced /\ pc[w] = "reduceRoute"
      /\ pc' = [pc EXCEPT ![w] = "syncSums"] /\ reg' = reg /\ FreeK(w)
      /\ Q' = "route" /\ scratch' = [scratch EXCEPT !.sums[w] = reg[w].group]
      /\ UNCHANGED <<V, produce, tensor, stored>>
  BY DEF ReduceRoute, Step, Goto, results
<1>2. \A v \in Warps : pc'[v] = IF v = w THEN "syncSums" ELSE pc[v]
  BY <1>1 DEF Typed
<1>3. /\ reg[w] \in Registers /\ reg[w].group \in Nat /\ reg[w].group < NumGroups
      /\ Rounds(w) = reg[w].group /\ Stage(pc[w]) = "between"
  BY <1>1, Here DEF PlacedAt, Round, Stage, Before, Ending, Adding, Deciding
<1>4. /\ scratch' \in [sums : [Warps -> Int], group : Int, exact : Seq(0 .. NumBlocks - 1)]
      /\ scratch'.group = scratch.group /\ scratch'.exact = scratch.exact
      /\ \A v \in Warps : scratch'.sums[v] = IF v = w THEN reg[w].group ELSE scratch.sums[v]
  <2> DEFINE B == Seq(0 .. NumBlocks - 1)
             sums == [scratch.sums EXCEPT ![w] = reg[w].group]
  <2>1. scratch \in [sums : [Warps -> Int], group : Int, exact : B]
    BY DEF Typed
  <2> HIDE DEF B
  <2>2. sums \in [Warps -> Int] /\ \A v \in Warps : sums[v] = IF v = w THEN reg[w].group ELSE scratch.sums[v]
    BY <1>3, <2>1
  <2>3. scratch' = [scratch EXCEPT !.sums = sums]
    BY <1>1
  <2> HIDE DEF sums
  <2>4. /\ scratch' \in [sums : [Warps -> Int], group : Int, exact : B]
        /\ scratch'.group = scratch.group /\ scratch'.exact = scratch.exact
        /\ scratch'.sums = sums
    BY <2>1, <2>2, <2>3
  <2> QED BY <2>2, <2>4 DEF B
<1>5. Typed'
  <2>1. pc' \in [Warps -> Places \union {"undefined"}]
    BY <1>1 DEF Typed, Places, Scoring
  <2>2. raced' \in BOOLEAN /\ stored' \in BOOLEAN
    BY <1>1 DEF Typed
  <2> QED BY <1>1, <1>4, <2>1, <2>2 DEF Typed
<1>6. \A v \in Warps : Rounds(v)' = Rounds(v) /\ Stage(pc'[v]) = Stage(pc[v])
  BY <1>1, <1>2, <1>3 DEF Rounds, Round, Stage, Adding, Deciding
<1>7. Placed' /\ Together'
  <2>1. Placed'
    BY <1>1, <1>2, <1>3
    DEF Control, Placed, PlacedAt, Places, OfProducer, Before, Scoring, Ending
  <2> QED BY <1>6, <2>1 DEF Control, Together
<1>8. Decided' /\ Counted'
  BY <1>1, <1>2, <1>4, <1>6
  DEF Control, Decided, Counted, CountedAt, Deciding, Adding
<1>9. Overlaid'
  <2>1. pc[Producer] \notin Written
    BY <1>3, Here, Sizes DEF Control, Together, PlacedAt, Rounds, Round, Written, Ending, Adding
  <2> QED BY <1>1, <1>2, <2>1 DEF Overlaid, Written
<1>10. Fresh'
  <2>1. reg' = [reg EXCEPT ![w] = reg[w]]
    BY <1>1, SameRegisters
  <2> QED BY <1>1, <1>3, <2>1, LateStart DEF Before
<1>11. PipesMove /\ Readers(w, "syncSums")
  BY <1>1, FreesK DEF ReadsK, ReadsV
<1>12. Reading'
  BY <1>2, <1>11 DEF Control, Reading, Readers, ReadsK, ReadsV
<1> QED BY <1>1, <1>5, <1>7, <1>8, <1>9, <1>10, <1>11, <1>12 DEF Keeps, Control

\* The scratch of a decision: its blocks, in order.
LEMMA Selects ==
  ASSUME NEW g, NEW high
  PROVE  InOrder(Selected(g, high)) \in Seq(0 .. NumBlocks - 1)
<1> DEFINE B == 0 .. NumBlocks - 1
           S == Selected(g, high)
<1>1. S \subseteq B
  BY DEF Selected, Members, Promise!Members, NumBlocks
<1>2. IsFiniteSet(B) /\ B \subseteq Nat
  BY Sizes, FS_Interval
<1> HIDE DEF B, S
<1>3. IsFiniteSet(S) /\ S \in SUBSET Nat
  BY <1>1, <1>2, FS_Subset
<1>4. InOrder(S) \in Seq(S)
  BY <1>3, Listed
<1>5. InOrder(S) \in Seq(B)
  BY <1>1, <1>4
<1> QED BY <1>5 DEF B, S

\* The Producer decides with the sums of all warps.
LEMMA DecideKeeps ==
  ASSUME Typed, Pipes, Control, Decide
  PROVE  Keeps
<1> USE ProducerAssumption
<1> DEFINE g == reg[Producer].group
<1>1. pc[Producer] = "decide" /\ ~raced
  BY DEF Decide
<1>2. \A w \in Warps : pc[w] \in Deciding /\ reg[w].group = g /\ scratch.sums[w] = g
  <2> SUFFICES ASSUME NEW w \in Warps
               PROVE  pc[w] \in Deciding /\ reg[w].group = g /\ scratch.sums[w] = g
    OBVIOUS
  <2>1. pc[w] \in Deciding
    BY <1>1, SameStage DEF Control, Deciding
  <2>2. Rounds(w) = reg[w].group /\ Rounds(Producer) = g
    BY <1>1, <2>1 DEF Rounds, Round, Deciding, Adding
  <2> QED BY <2>1, <2>2 DEF Control, Together, Decided
<1>3. Q = "route"
  BY <1>1 DEF Control, Overlaid, Deciding, Written
<1>4. PICK high \in SUBSET Members(g) :
        scratch' = [scratch EXCEPT !.group = g, !.exact = InOrder(Selected(g, high))]
  BY <1>2, <1>3 DEF Decide
<1>5. /\ pc' = [pc EXCEPT ![Producer] = "syncRoute"] /\ raced' = raced
      /\ UNCHANGED <<reg, K, V, produce, consume, Q, tensor, stored>>
  BY <1>2, <1>3 DEF Decide, Goto, pipes
<1>6. \A v \in Warps : pc'[v] = IF v = Producer THEN "syncRoute" ELSE pc[v]
  BY <1>5 DEF Typed
<1>7. g \in Nat /\ g < NumGroups
  BY <1>1, Here DEF PlacedAt, Before, Ending
<1>8. /\ scratch' \in [sums : [Warps -> Int], group : Int, exact : Seq(0 .. NumBlocks - 1)]
      /\ scratch'.group = g /\ scratch'.sums = scratch.sums
  <2> DEFINE B == Seq(0 .. NumBlocks - 1)
             one == [scratch EXCEPT !.group = g]
             E == InOrder(Selected(g, high))
  <2>1. scratch \in [sums : [Warps -> Int], group : Int, exact : B]
    BY DEF Typed
  <2>2. E \in B
    BY Selects
  <2>3. scratch' = [one EXCEPT !.exact = E]
    BY <1>4
  <2> HIDE DEF B, E
  <2>4. one \in [sums : [Warps -> Int], group : Int, exact : B] /\ one.group = g /\ one.sums = scratch.sums
    BY <1>7, <2>1
  <2> HIDE DEF one, g
  <2>5. /\ scratch' \in [sums : [Warps -> Int], group : Int, exact : B]
        /\ scratch'.group = g /\ scratch'.sums = scratch.sums
    BY <2>2, <2>3, <2>4
  <2> QED BY <2>5 DEF B
<1>9. Typed'
  <2>1. pc' \in [Warps -> Places \union {"undefined"}]
    BY <1>5 DEF Typed, Places, Deciding
  <2>2. raced' \in BOOLEAN /\ stored' \in BOOLEAN
    BY <1>5 DEF Typed
  <2> QED BY <1>5, <1>8, <2>1, <2>2 DEF Typed
<1>10. Placed' /\ Together'
  <2>1. Placed'
    BY <1>1, <1>5, <1>6
    DEF Control, Placed, PlacedAt, Places, OfProducer, Before, Deciding, Ending
  <2>2. \A v \in Warps : Rounds(v)' = Rounds(v) /\ Stage(pc'[v]) = Stage(pc[v])
    BY <1>1, <1>5, <1>6 DEF Rounds, Round, Stage, Adding, Deciding
  <2> QED BY <2>1, <2>2 DEF Control, Together
<1>11. Decided' /\ Counted' /\ Overlaid'
  <2>1. \A v \in Warps : pc'[v] \in Deciding
    BY <1>2, <1>6 DEF Deciding
  <2>2. Decided'
    BY <1>2, <1>5, <1>6, <1>8 DEF Decided
  <2>3. Counted'
    BY <2>1 DEF Counted, CountedAt, Deciding, Adding
  <2> QED BY <1>3, <1>5, <2>1, <2>2, <2>3 DEF Overlaid, Written, Deciding
<1>12. Fresh' /\ Reading' /\ PipesMove
  BY <1>1, <1>5, <1>6 DEF Control, Fresh, Reading, Before, PipesMove, pipes
<1> QED BY <1>1, <1>5, <1>9, <1>10, <1>11, <1>12 DEF Keeps, Control

\* A warp writes its rows of the output.
LEMMA WriteOKeeps ==
  ASSUME Typed, Pipes, Control, NEW w \in Warps, WriteO(w)
  PROVE  Keeps
<1> USE ProducerAssumption
<1>1. /\ ~raced /\ raced' = raced /\ pc[w] = "epilogue"
      /\ pc' = [pc EXCEPT ![w] = "syncStore"]
      /\ Q' = IF w = Producer THEN "O" ELSE Q
      /\ UNCHANGED <<reg, K, V, produce, consume, scratch, tensor, stored>>
  BY DEF WriteO, Step, Goto, pipes, results
<1>2. \A v \in Warps : pc'[v] = IF v = w THEN "syncStore" ELSE pc[v]
  BY <1>1 DEF Typed
<1>3. Typed'
  <2>1. pc' \in [Warps -> Places \union {"undefined"}]
    BY <1>1 DEF Typed, Places, Ending
  <2>2. raced' \in BOOLEAN /\ stored' \in BOOLEAN
    BY <1>1 DEF Typed
  <2> QED BY <1>1, <2>1, <2>2 DEF Typed
<1>4. Placed' /\ Together'
  <2>1. Placed'
    BY <1>1, <1>2 DEF Control, Placed, PlacedAt, Places, OfProducer, Before, Ending
  <2>2. \A v \in Warps : Rounds(v)' = Rounds(v) /\ Stage(pc'[v]) = Stage(pc[v])
    BY <1>1, <1>2 DEF Rounds, Round, Stage, Adding, Deciding
  <2> QED BY <2>1, <2>2 DEF Control, Together
<1>5. Decided' /\ Counted'
  BY <1>1, <1>2
  DEF Control, Decided, Counted, CountedAt, Rounds, Round, Deciding, Adding
<1>6. Overlaid'
  BY <1>1, <1>2 DEF Control, Overlaid, Deciding, Adding, Written
<1>7. Fresh'
  BY <1>1, <1>2 DEF Control, Fresh, Before
<1>8. Reading' /\ PipesMove
  BY <1>1, <1>2 DEF Control, Reading, PipesMove, pipes
<1> QED BY <1>1, <1>3, <1>4, <1>5, <1>6, <1>7, <1>8 DEF Keeps, Control

\* All warps pass a barrier.
LEMMA SyncKeeps ==
  ASSUME Typed, Pipes, Control, Synchronises
  PROVE  Keeps
<1> USE ProducerAssumption
<1>1. PICK from \in {"syncStart", "syncSums", "syncRoute", "syncStore"} :
        /\ \A w \in Warps : pc[w] = from
        /\ pc' \in [Warps -> Places \union {"undefined"}]
        /\ \A w \in Warps :
             pc'[w] = CASE from = "syncStart" -> "loadQ"
                        [] from = "syncSums" -> IF w = Producer THEN "decide" ELSE "syncRoute"
                        [] from = "syncRoute" -> "count"
                        [] from = "syncStore" -> IF w = Producer THEN "store" ELSE "done"
        /\ ~raced /\ raced' = raced
        /\ UNCHANGED <<reg, K, V, produce, consume, Q, scratch, tensor, stored>>
  <2>1. CASE SyncStart
    BY <2>1 DEF SyncStart, Barrier, All, pipes, memory, results, Places, Before
  <2>2. CASE SyncSums
    BY <2>2 DEF SyncSums, Barrier, All, pipes, memory, results, Places, Deciding
  <2>3. CASE SyncRoute
    BY <2>3 DEF SyncRoute, Barrier, All, pipes, memory, results, Places, Adding
  <2>4. CASE SyncStore
    BY <2>4 DEF SyncStore, Barrier, All, pipes, memory, results, Places, Ending
  <2> QED BY <2>1, <2>2, <2>3, <2>4 DEF Synchronises
<1>2. Typed'
  <2>1. raced' \in BOOLEAN /\ stored' \in BOOLEAN
    BY <1>1 DEF Typed
  <2> QED BY <1>1, <2>1 DEF Typed
<1>3. Placed'
  BY <1>1
  DEF Control, Placed, PlacedAt, Places, OfProducer, Before, Scoring, Deciding, Adding, Ending
<1>4. \A w \in Warps : reg[w].group = reg[Producer].group /\ Rounds(w) = reg[w].group
  BY <1>1 DEF Control, Together, Rounds, Round, Adding
<1>5. \A w \in Warps :
        /\ Rounds(w)' = IF from = "syncRoute" THEN reg[w].group + 1 ELSE reg[w].group
        /\ Stage(pc'[w]) = CASE from = "syncSums" -> "decision"
                             [] from = "syncStore" -> "end"
                             [] OTHER -> "between"
  BY <1>1 DEF Rounds, Round, Adding, Stage, Deciding
<1>6. Together'
  BY <1>4, <1>5 DEF Together
<1>7. Decided'
  <2>1. reg[Producer].group \in Nat
    BY Here
  <2>2. scratch.group = IF from = "syncRoute" THEN reg[Producer].group ELSE reg[Producer].group - 1
    BY <1>1, <1>4 DEF Control, Decided
  <2> QED BY <1>1, <1>5, <2>1, <2>2 DEF Control, Decided, Deciding
<1>8. Counted'
  BY <1>1 DEF Counted, CountedAt, Adding
<1>9. Overlaid'
  <2>1. Q' = "O" <=> pc'[Producer] \in Written
    BY <1>1 DEF Control, Overlaid, Written
  <2> QED BY <1>1, <2>1 DEF Control, Overlaid, Deciding, Adding
<1>10. Fresh' /\ Reading'
  BY <1>1 DEF Control, Fresh, Reading, Before
<1>11. PipesMove
  BY <1>1 DEF PipesMove, pipes
<1> QED BY <1>1, <1>2, <1>3, <1>6, <1>7, <1>8, <1>9, <1>10, <1>11 DEF Keeps, Control

\* Where nothing moves but a copy or what holds Q before the first read of it,
\* the warps stay as they are.
LEMMA NobodyMoves ==
  ASSUME Typed, raced => Q = "O", ~raced => Control,
         UNCHANGED <<pc, reg, scratch, tensor, raced, stored>>,
         K'.reading = K.reading, V'.reading = V.reading,
         Q' = Q \/ (Q = "loading" /\ Q' = "Q"), ~raced => Fresh'
  PROVE  Typed' /\ (raced' => Q' = "O") /\ (~raced' => Control')
<1>1. Typed'
  <2>1. raced' \in BOOLEAN /\ stored' \in BOOLEAN
    BY DEF Typed
  <2> QED BY <2>1 DEF Typed
<1>2. raced' => Q' = "O"
  OBVIOUS
<1>3. ASSUME ~raced' PROVE Control'
  <2>1. Control /\ Fresh'
    BY <1>3
  <2>2. Placed' /\ Together' /\ Decided' /\ Counted'
    BY <2>1 DEF Control, Placed, PlacedAt, Together, Rounds, Round, Decided, Counted, CountedAt
  <2>3. Overlaid' /\ Reading'
    BY <2>1 DEF Control, Overlaid, Reading
  <2> QED BY <2>1, <2>2, <2>3 DEF Control
<1> QED BY <1>1, <1>2, <1>3

\* A copy completes.
LEMMA LandsKeep ==
  ASSUME Typed, Pipes, raced => Q = "O", ~raced => Control, LandQ \/ LandK \/ LandV
  PROVE  Keeps
<1>1. CASE LandQ
  <2>1. /\ UNCHANGED <<pc, reg, K, V, produce, consume, scratch, tensor, raced, stored>>
        /\ Q = "loading" /\ Q' = "Q"
    BY <1>1 DEF LandQ, pipes, results
  <2>2. ~raced => Fresh'
    BY <2>1 DEF Control, Fresh
  <2>3. PipesMove
    BY <2>1 DEF PipesMove, pipes
  <2> QED BY <2>1, <2>2, <2>3, NobodyMoves DEF Keeps
<1>2. CASE LandK
  <2>1. /\ UNCHANGED <<pc, reg, V, produce, consume, Q, scratch, tensor, raced, stored>>
        /\ K.filling # None /\ K' = Landed(K)
    BY <1>2 DEF LandK, memory, results
  <2>2. ~raced => Fresh'
    BY <2>1 DEF Control, Fresh, EmptyPipe
  <2>3. PipesMove
    BY <2>1 DEF PipesMove, KMoves
  <2>4. K'.reading = K.reading /\ V'.reading = V.reading
    BY <2>1, Fields
  <2> QED BY <2>1, <2>2, <2>3, <2>4, NobodyMoves DEF Keeps
<1>3. CASE LandV
  <2>1. /\ UNCHANGED <<pc, reg, K, produce, consume, Q, scratch, tensor, raced, stored>>
        /\ V.filling # None /\ V' = Landed(V)
    BY <1>3 DEF LandV, memory, results
  <2>2. ~raced => Fresh'
    BY <2>1 DEF Control, Fresh
  <2>3. PipesMove
    BY <2>1 DEF PipesMove, VMoves
  <2>4. K'.reading = K.reading /\ V'.reading = V.reading
    BY <2>1, Fields
  <2> QED BY <2>1, <2>2, <2>3, <2>4, NobodyMoves DEF Keeps
<1> QED BY <1>1, <1>2, <1>3

\* Every step of the kernel keeps the invariant and moves the pipelines by at
\* most one step of theirs.
LEMMA StepKeeps == ASSUME IInv, [Next]_vars PROVE IInv' /\ PipesMove
<1>1. Typed /\ Pipes /\ (raced => Q = "O") /\ (~raced => Control)
  BY DEF IInv
<1>2. Keeps
  <2>1. CASE UNCHANGED vars
    <3>1. PipesMove
      BY <2>1 DEF vars, PipesMove, pipes
    <3>2. ~raced => Fresh'
      BY <1>1, <2>1 DEF vars, Control, Fresh
    <3> QED BY <1>1, <2>1, <3>1, <3>2, NobodyMoves DEF vars, Keeps
  <2>2. CASE Lands
    BY <1>1, <2>2, LandsKeep DEF Lands
  <2>3. CASE Synchronises
    BY <1>1, <2>3, SyncKeeps DEF Synchronises, SyncStart, SyncSums, SyncRoute, SyncStore, Barrier
  <2>4. CASE Produces
    <3>1. Control
      BY <1>1, <2>4
      DEF Produces, AcquireQ, RouteK, RouteV, Decide, FirstK, FirstV, NextK, NextV, StoreO, Step
    <3> QED BY <1>1, <2>4, <3>1, AcquireQKeeps, RouteKKeeps, RouteVKeeps, DecideKeeps, FirstKKeeps,
            FirstVKeeps, NextKKeeps, NextVKeeps, StoreOKeeps DEF Produces
  <2>5. ASSUME NEW w \in Warps, Consumes(w) PROVE Keeps
    <3>1. Control
      BY <1>1, <2>5
      DEF Consumes, LoadQ, ScoreRoute, ScoreExact, Score, ReduceRoute, ReadCount, Approximate,
          ReleaseMeans, ReadIndex, ReleaseK, ExactV, ReleaseV, WriteO, Step
    <3> QED BY <1>1, <2>5, <3>1, LoadQKeeps, ScoreKeeps, ReduceRouteKeeps, ReadCountKeeps,
            ApproximateKeeps, ReleaseVKeeps, ReadIndexKeeps, ReleaseKKeeps, ExactVKeeps, WriteOKeeps
            DEF Consumes
  <2> QED BY <2>1, <2>2, <2>3, <2>4, <2>5 DEF Next
<1> QED BY <1>1, <1>2, PipesKept DEF Keeps, IInv

\* Nothing has been copied, and Q is not there.
LEMMA InitKeeps == ASSUME Init PROVE IInv
<1> USE ProducerAssumption
<1>1. /\ pc \in [Warps -> {"acquireQ", "syncStart"}]
      /\ \A w \in Warps : pc[w] = "acquireQ" => w = Producer
      /\ reg = [w \in Warps |-> [group |-> 0, count |-> 0, ordinal |-> 0, block |-> 0, score |-> None]]
      /\ K = EmptyPipe(Warps) /\ V = EmptyPipe(Warps)
      /\ produce = [p \in {"K", "V"} |-> 1]
      /\ consume = [w \in Warps |-> [p \in {"K", "V"} |-> 0]]
      /\ Q = "none" /\ scratch = [sums |-> [w \in Warps |-> -1], group |-> -1, exact |-> <<>>]
      /\ tensor = IdleTensor /\ raced = FALSE /\ stored = FALSE
  BY DEF Init, Promise!Init
<1>2. \A w \in Warps : reg[w] \in Registers /\ reg[w].group = 0
  BY <1>1 DEF Registers
<1>3. Typed
  <2>1. scratch \in [sums : [Warps -> Int], group : Int, exact : Seq(0 .. NumBlocks - 1)]
    <3> DEFINE B == 0 .. NumBlocks - 1
    <3>1. <<>> \in Seq(B)
      OBVIOUS
    <3> HIDE DEF B
    <3>2. scratch \in [sums : [Warps -> Int], group : Int, exact : Seq(B)]
      BY <1>1, <3>1
    <3> QED BY <3>2 DEF B
  <2>2. reg \in [Warps -> Registers]
    BY <1>1, <1>2
  <2>3. pc \in [Warps -> Places \union {"undefined"}]
    BY <1>1 DEF Places, Before
  <2>4. raced \in BOOLEAN /\ stored \in BOOLEAN
    BY <1>1
  <2> QED BY <1>1, <2>1, <2>2, <2>3, <2>4 DEF Typed
<1>4. Pipes
  <2>1. Parities
    BY <1>1 DEF Parities, Bit
  <2>2. KP!Init /\ VP!Init
    <3>1. produce["K"] = 1 /\ produce["V"] = 1
      BY <1>1
    <3>2. /\ [w \in Warps |-> consume[w]["K"]] = [w \in Warps |-> 0]
          /\ [w \in Warps |-> consume[w]["V"]] = [w \in Warps |-> 0]
      BY <1>1
    <3> QED BY <1>1, <3>1, <3>2 DEF KP!Init, VP!Init, EmptyPipe, KP!EmptyPipe, VP!EmptyPipe
  <2>3. KP!IInv /\ VP!IInv
    BY <2>2, KP!InitIInv, VP!InitIInv, WarpsAssumption, NoneAssumption
  <2> QED BY <2>1, <2>3 DEF Pipes
<1>5. Control
  <2>1. Placed /\ Counted
    BY <1>1, <1>2 DEF Placed, PlacedAt, Counted, CountedAt, Places, OfProducer, Before, Ending, Adding
  <2>2. \A w \in Warps : Rounds(w) = 0 /\ Stage(pc[w]) = "start"
    <3>1. \A w \in Warps : pc[w] \in {"acquireQ", "syncStart"} /\ reg[w].group = 0
      BY <1>1, <1>2
    <3>2. \A w \in Warps : Rounds(w) = 0
      BY <3>1 DEF Rounds, Round, Adding
    <3>3. \A w \in Warps : Stage(pc[w]) = "start"
      BY <3>1 DEF Stage, Deciding
    <3> QED BY <3>2, <3>3
  <2>3. Together
    BY <2>2 DEF Together
  <2>4. Decided
    BY <1>1, <2>2 DEF Decided, Deciding
  <2>5. Overlaid /\ Fresh /\ Reading
    BY <1>1, <1>2 DEF Overlaid, Fresh, Reading, Before, Deciding, Adding, Written, EmptyPipe
  <2> QED BY <2>1, <2>3, <2>4, <2>5 DEF Control
<1> QED BY <1>1, <1>3, <1>4, <1>5 DEF IInv

\* What the invariant says in the terms of SolTile.
LEMMA Implies ==
  ASSUME IInv PROVE TypeOK /\ RacesOnlyWithOutput
<1>1. Typed /\ Pipes
  BY DEF IInv
<1>2. Warps \subseteq DOMAIN pc /\ Q \in {"none", "loading", "Q", "route", "O"}
  BY <1>1 DEF Typed
<1>3. \A p \in {K, V} :
        /\ {p.full, p.empty} \subseteq Bit
        /\ p.filling \in Tiles \union {None} /\ p.content \in Tiles \union {None}
        /\ p.arrived \union p.due \union p.reading \subseteq p.readers
  <2> SUFFICES ASSUME NEW p \in {K, V}
               PROVE  /\ {p.full, p.empty} \subseteq Bit
                      /\ p.filling \in Tiles \union {None} /\ p.content \in Tiles \union {None}
                      /\ p.arrived \union p.due \union p.reading \subseteq p.readers
    OBVIOUS
  <2>1. p \in [readers : {Warps}, full : Bit, empty : Bit, arrived : SUBSET Warps,
               filling : Tiles \union {None}, content : Tiles \union {None},
               due : SUBSET Warps, reading : SUBSET Warps]
    BY <1>1, Fields
  <2> QED BY <2>1
<1>4. /\ {tensor.score.full, tensor.score.empty} \subseteq Bit
      /\ tensor.score.filling = None /\ tensor.score.content = None
      /\ tensor.score.arrived \union tensor.score.due \union tensor.score.reading
           \subseteq tensor.score.readers
  BY <1>1 DEF Typed, IdleTensor, EmptyPipe, Bit
<1>5. {produce["K"], produce["V"]} \subseteq Bit
  BY <1>1 DEF Pipes, Parities
<1>6. {raced, stored} \subseteq BOOLEAN
  <2>1. raced \in BOOLEAN /\ stored \in BOOLEAN
    BY <1>1 DEF Typed
  <2> QED BY <2>1
<1>7. TypeOK
  BY <1>2, <1>3, <1>4, <1>5, <1>6 DEF TypeOK
<1>8. RacesOnlyWithOutput
  BY DEF IInv, RacesOnlyWithOutput
<1> QED BY <1>7, <1>8

\* The slots of a kernel that starts are empty.
LEMMA SlotsStart == ASSUME Init PROVE KSlot!Init /\ VSlot!Init /\ ScoreSlot!Init
  BY WarpsAssumption DEF Init, EmptyPipe, IdleTensor, KSlot!Init, VSlot!Init, ScoreSlot!Init

\* A step is one of the slots', or leaves them alone.
LEMMA SlotsStep ==
  ASSUME IInv, [Next]_vars
  PROVE  /\ [KSlot!Next]_(KSlot!slotVars) /\ [VSlot!Next]_(VSlot!slotVars)
         /\ [ScoreSlot!Next]_(ScoreSlot!slotVars)
<1>1. PipesMove /\ Pipes /\ tensor = IdleTensor /\ tensor' = IdleTensor
  BY StepKeeps DEF IInv, Typed
<1> QED BY <1>1, PipesKept DEF ScoreSlot!slotVars

-----------------------------------------------------------------------------
\* The pipelines, barriers and registers of the sm120 kernel stay in their
\* ranges (sm120/mainloop.py).
THEOREM Sm120Types == Spec => []TypeOK
<1>1. Init => IInv
  BY InitKeeps
<1>2. IInv /\ [Next]_vars => IInv'
  BY StepKeeps
<1>3. IInv => TypeOK
  BY Implies
<1> QED BY <1>1, <1>2, <1>3, PTL DEF Spec

\* No warp of the sm120 kernel reads shared memory that was overwritten, but for
\* the scratch of the last group's routes once the output tile is written there
\* (sm120/mainloop.py: sO takes the allocation of sQ).
THEOREM Sm120Races == Spec => []RacesOnlyWithOutput
<1>1. Init => IInv
  BY InitKeeps
<1>2. IInv /\ [Next]_vars => IInv'
  BY StepKeeps
<1>3. IInv => RacesOnlyWithOutput
  BY Implies
<1> QED BY <1>1, <1>2, <1>3, PTL DEF Spec

\* The producer of the sm120 kernel fills a stage only when every warp has read
\* it, and every warp reads every tile once, after its copy completed: the
\* pipelines of the main loop are three slots of TileSlot.
THEOREM Sm120HandsOver == Spec => TilesHandedOver
<1>1. Init => IInv /\ KSlot!Init /\ VSlot!Init /\ ScoreSlot!Init
  BY InitKeeps, SlotsStart
<1>2. IInv /\ [Next]_vars =>
        /\ IInv'
        /\ [KSlot!Next]_(KSlot!slotVars) /\ [VSlot!Next]_(VSlot!slotVars)
        /\ [ScoreSlot!Next]_(ScoreSlot!slotVars)
  BY StepKeeps, SlotsStep
<1> QED BY <1>1, <1>2, PTL DEF Spec, TilesHandedOver, KSlot!Spec, VSlot!Spec, ScoreSlot!Spec

-----------------------------------------------------------------------------
(***************************************************************************)
(* Joined sequences and sums of lengths.                                   *)
(***************************************************************************)

\* A set of numbers has a least.
LEMMA LeastNat == ASSUME NEW T \in SUBSET Nat, T # {} PROVE \E m \in T : \A k \in T : m <= k
<1> DEFINE R == OpToRel(<, Nat)
<1>1. IsWellFoundedOn(R, Nat)
  BY NatLessThanWellFounded
<1>2. \A x, y \in Nat : <<x, y>> \in R <=> x < y
  BY DEF OpToRel
<1> HIDE DEF R
<1>3. PICK m \in T : \A k \in T : ~(<<k, m>> \in R)
  BY <1>1, WFMin
<1>4. ASSUME NEW k \in T PROVE m <= k
  <2>1. m \in Nat /\ k \in Nat
    OBVIOUS
  <2>2. ~(k < m)
    BY <1>2, <1>3, <2>1
  <2> QED BY <2>1, <2>2
<1> QED BY <1>3, <1>4

\* The function that FlattenSeq chooses: the first i sequences of s, joined.
Joins(f, s, n) == f = [i \in 1 .. n |-> IF i = 1 THEN s[i] ELSE f[i - 1] \o s[i]]

\* There is one,
LEMMA JoinExists ==
  ASSUME NEW D, NEW s, NEW n \in Nat, \A i \in 1 .. n : s[i] \in Seq(D)
  PROVE  \E f \in [1 .. n -> Seq(D)] : Joins(f, s, n)
<1> DEFINE T == {k \in 0 .. n : ~\E f \in [1 .. k -> Seq(D)] : Joins(f, s, k)}
<1> SUFFICES ASSUME T # {} PROVE FALSE
  OBVIOUS
<1>0. T \in SUBSET Nat
  OBVIOUS
<1>1. PICK m \in T : \A k \in T : m <= k
  <2> HIDE DEF T
  <2> QED BY <1>0, LeastNat
<1>2. m \in 0 .. n /\ ~\E f \in [1 .. m -> Seq(D)] : Joins(f, s, m)
  OBVIOUS
<1>3. CASE m = 0
  <2> DEFINE f == [i \in 1 .. 0 |-> <<>>]
  <2>1. f \in [1 .. m -> Seq(D)] /\ Joins(f, s, m)
    BY <1>3 DEF Joins
  <2> QED BY <1>2, <2>1
<1>4. CASE m > 0
  <2>1. m \in Nat /\ m - 1 \in 0 .. n /\ m - 1 \notin T
    BY <1>1, <1>2, <1>4
  <2>2. PICK f \in [1 .. m - 1 -> Seq(D)] : Joins(f, s, m - 1)
    BY <2>1
  <2> DEFINE x == IF m = 1 THEN s[m] ELSE f[m - 1] \o s[m]
             h == [i \in 1 .. m |-> IF i = m THEN x ELSE f[i]]
  <2>3. x \in Seq(D)
    BY <1>2, <1>4
  <2> HIDE DEF x
  <2>4. h \in [1 .. m -> Seq(D)]
    BY <2>1, <2>2, <2>3
  <2>5. \A i \in 1 .. m : h[i] = IF i = 1 THEN s[i] ELSE h[i - 1] \o s[i]
    <3> SUFFICES ASSUME NEW i \in 1 .. m
                 PROVE  h[i] = IF i = 1 THEN s[i] ELSE h[i - 1] \o s[i]
      OBVIOUS
    <3>1. CASE i = m
      BY <2>1, <3>1 DEF x
    <3>2. CASE i # m
      <4>1. i \in 1 .. m - 1 /\ h[i] = f[i] /\ (i # 1 => h[i - 1] = f[i - 1])
        BY <2>1, <3>2
      <4>2. f[i] = IF i = 1 THEN s[i] ELSE f[i - 1] \o s[i]
        BY <2>2, <4>1 DEF Joins
      <4> QED BY <4>1, <4>2
    <3> QED BY <3>1, <3>2
  <2>6. Joins(h, s, m)
    BY <2>4, <2>5 DEF Joins
  <2> QED BY <1>2, <2>4, <2>6
<1> QED BY <1>2, <1>3, <1>4

Agree(f, g, n) == \A i \in 1 .. n : f[i] = g[i]

\* and longer ones only go on.
LEMMA JoinUnique ==
  ASSUME NEW s, NEW t, NEW m \in Nat, NEW n \in Nat, m <= n,
         Agree(s, t, m), NEW f, NEW g, Joins(f, s, m), Joins(g, t, n)
  PROVE  Agree(f, g, m)
<1> DEFINE T == {i \in 1 .. m : f[i] # g[i]}
<1> SUFFICES ASSUME T # {} PROVE FALSE
  BY DEF Agree
<1>0. T \in SUBSET Nat
  OBVIOUS
<1>1. PICK k \in T : \A i \in T : k <= i
  <2> HIDE DEF T
  <2> QED BY <1>0, LeastNat
<1>2. k \in 1 .. m /\ k \in 1 .. n /\ f[k] # g[k]
  OBVIOUS
<1>3. /\ f[k] = IF k = 1 THEN s[k] ELSE f[k - 1] \o s[k]
      /\ g[k] = IF k = 1 THEN t[k] ELSE g[k - 1] \o t[k]
  BY <1>2 DEF Joins
<1>4. k # 1 => f[k - 1] = g[k - 1]
  <2> SUFFICES ASSUME k # 1 PROVE f[k - 1] = g[k - 1]
    OBVIOUS
  <2>1. k - 1 \in 1 .. m /\ ~(k <= k - 1)
    BY <1>2
  <2> QED BY <1>1, <2>1
<1> QED BY <1>2, <1>3, <1>4 DEF Agree

\* FlattenSeq joins all of them.
LEMMA FlattenIs ==
  ASSUME NEW D, NEW s \in Seq(Seq(D)), s # <<>>
  PROVE  \E f \in [1 .. Len(s) -> Seq(D)] : Joins(f, s, Len(s)) /\ FlattenSeq(s) = f[Len(s)]
<1> DEFINE c == CHOOSE f : Joins(f, s, Len(s))
<1>1. PICK h \in [1 .. Len(s) -> Seq(D)] : Joins(h, s, Len(s))
  <2>1. Len(s) \in Nat /\ \A i \in 1 .. Len(s) : s[i] \in Seq(D)
    <3> DEFINE E == Seq(D)
    <3>1. s \in Seq(E)
      OBVIOUS
    <3> HIDE DEF E
    <3>2. Len(s) \in Nat /\ \A i \in 1 .. Len(s) : s[i] \in E
      BY <3>1
    <3> QED BY <3>2 DEF E
  <2> QED BY <2>1, JoinExists
<1>2. Joins(c, s, Len(s))
  BY <1>1
<1>3. FlattenSeq(s) = c[Len(s)]
  BY DEF FlattenSeq, Joins
<1> HIDE DEF c
<1>4. \A i \in 1 .. Len(s) : c[i] = h[i]
  <2>1. Len(s) \in Nat /\ Len(s) <= Len(s) /\ Agree(s, s, Len(s))
    BY DEF Agree
  <2>2. Agree(c, h, Len(s))
    BY <1>1, <1>2, <2>1, JoinUnique
  <2> QED BY <2>2 DEF Agree
<1>5. c \in [1 .. Len(s) -> Seq(D)]
  <2>1. c = [i \in 1 .. Len(s) |-> IF i = 1 THEN s[i] ELSE c[i - 1] \o s[i]]
    BY <1>2 DEF Joins
  <2>2. \A i \in 1 .. Len(s) : c[i] \in Seq(D)
    BY <1>1, <1>4
  <2> QED BY <2>1, <2>2
<1> QED BY <1>2, <1>3, <1>5

\* What FlattenSeq makes of one sequence more.
LEMMA FlattenAppend ==
  ASSUME NEW D, NEW s \in Seq(Seq(D)), NEW x \in Seq(D)
  PROVE  FlattenSeq(s) \in Seq(D) /\ FlattenSeq(Append(s, x)) = FlattenSeq(s) \o x
<1> DEFINE t == Append(s, x)
           n == Len(s)
<1>1. n \in Nat /\ t \in Seq(Seq(D)) /\ Len(t) = n + 1 /\ t # <<>> /\ t[n + 1] = x
      /\ \A i \in 1 .. n : t[i] = s[i]
  <2> DEFINE E == Seq(D)
  <2>1. s \in Seq(E) /\ x \in E
    OBVIOUS
  <2> HIDE DEF E
  <2>2. n \in Nat /\ t \in Seq(E) /\ Len(t) = n + 1 /\ t[n + 1] = x
        /\ \A i \in 1 .. n : t[i] = s[i]
    BY <2>1
  <2>3. t # <<>>
    BY <2>2
  <2> QED BY <2>2, <2>3 DEF E
<1> HIDE DEF t
<1>2. PICK g \in [1 .. n + 1 -> Seq(D)] : Joins(g, t, n + 1) /\ FlattenSeq(t) = g[n + 1]
  BY <1>1, FlattenIs
<1>3. g[n + 1] = IF n = 0 THEN x ELSE g[n] \o x
  <2>1. n + 1 \in 1 .. n + 1 /\ (n + 1) - 1 = n /\ (n + 1 = 1 <=> n = 0)
    BY <1>1
  <2>2. g[n + 1] = IF n + 1 = 1 THEN t[n + 1] ELSE g[(n + 1) - 1] \o t[n + 1]
    BY <1>2, <2>1 DEF Joins
  <2> QED BY <1>1, <2>1, <2>2
<1>4. CASE n = 0
  <2>1. FlattenSeq(s) = <<>>
    BY <1>4 DEF FlattenSeq
  <2> QED BY <1>2, <1>3, <1>4, <2>1 DEF t
<1>5. CASE n # 0
  <2>1. PICK f \in [1 .. n -> Seq(D)] : Joins(f, s, n) /\ FlattenSeq(s) = f[n]
    BY <1>5, FlattenIs
  <2>2. f[n] = g[n]
    <3>1. n <= n + 1 /\ n \in 1 .. n /\ n + 1 \in Nat /\ \A i \in 1 .. n : s[i] = t[i]
      BY <1>1, <1>5
    <3> DEFINE p == n + 1
    <3>2. /\ n \in Nat /\ p \in Nat /\ n <= p /\ Joins(f, s, n) /\ Joins(g, t, p)
          /\ Agree(s, t, n)
      BY <1>1, <1>2, <2>1, <3>1 DEF Agree
    <3> HIDE DEF n, p
    <3>3. Agree(f, g, n)
      BY <3>2, JoinUnique
    <3> QED BY <3>1, <3>3 DEF Agree
  <2>3. f[n] \in Seq(D)
    BY <1>1, <1>5, <2>1
  <2> QED BY <1>2, <1>3, <1>5, <2>1, <2>2, <2>3 DEF t
<1> QED BY <1>4, <1>5

\* The same under the promise's name.
LEMMA SameFlatten == \A s : Promise!FlattenSeq(s) = FlattenSeq(s)
  BY DEF Promise!FlattenSeq, FlattenSeq

\* Keys of a block: those that are masked away lie beyond the end.
LEMMA LengthIs ==
  ASSUME NEW b \in 0 .. NumBlocks - 1
  PROVE  /\ Promise!Length(b) \in Nat
         /\ Promise!Length(b) = ColumnMass(b) /\ Promise!Length(b) = BlockMass(b)
<1> DEFINE x == Tokens - b * BlockLen
<1>1. Tokens \in Nat \ {0} /\ BlockLen \in Nat \ {0} /\ b \in Nat /\ b * BlockLen \in Nat
  BY SizesAssumption, Z3
<1>2. b < Prepare!BlocksIn(Tokens) /\ b * BlockLen < Tokens
  <2>1. b < Prepare!BlocksIn(Tokens)
    BY Sizes DEF NumBlocks, Promise!NumBlocks, Prepare!BlocksIn
  <2> QED BY <1>1, <2>1, RoundsUp DEF Prepare!BlocksIn
<1>3. Prepare!Centroid(Own(Tokens, b), b, Tokens) = Mean(Own(Tokens, b))
  BY <1>1, <1>2, OwnTokens
<1>4. Promise!Length(b) = Prepare!Least(BlockLen, x)
  <2>1. Promise!Length(b) = Cardinality(Own(Tokens, b))
    BY DEF Promise!Length, Own, Promise!Cardinality, Cardinality
  <2> QED BY <1>3, <2>1 DEF Prepare!Centroid, Mean
<1>5. x \in Nat /\ x > 0
  BY <1>1, <1>2
<1> QED BY <1>1, <1>4, <1>5 DEF Prepare!Least, ColumnMass, BlockMass

\* The sum over a group's columns and the sum over its blocks have equal terms.
LEMMA RouteMassIs ==
  ASSUME NEW S \in SUBSET (0 .. NumBlocks - 1)
  PROVE  RouteMass(S) = Promise!MassOf(S)
<1> DEFINE F(it) == [s \in SUBSET S |-> IF s = {} THEN 0 ELSE
                      LET x == CHOOSE x \in s : TRUE IN ColumnMass(x) + it[s \ {x}]]
           G(it) == [s \in SUBSET S |-> IF s = {} THEN 0 ELSE
                      LET x == CHOOSE x \in s : TRUE IN Promise!Length(x) + it[s \ {x}]]
<1>1. ASSUME NEW it PROVE F(it) = G(it)
  <2>1. ASSUME NEW s \in SUBSET S, s # {}
        PROVE  ColumnMass(CHOOSE x \in s : TRUE) = Promise!Length(CHOOSE x \in s : TRUE)
    BY <2>1, LengthIs
  <2>2. \A s \in SUBSET S : F(it)[s] = G(it)[s]
    BY <2>1
  <2> QED BY <2>2
<1>2. RouteMass(S) = (CHOOSE it : it = F(it))[S]
  BY DEF RouteMass, FoldSet, MapThenFoldSet
<1>3. Promise!MassOf(S) = (CHOOSE it : it = G(it))[S]
  BY DEF Promise!MassOf, Promise!FoldSet, Promise!MapThenFoldSet
<1> HIDE DEF F, G
<1>4. (CHOOSE it : it = F(it)) = (CHOOSE it : it = G(it))
  BY <1>1
<1> QED BY <1>2, <1>3, <1>4

\* The sum over one block is its length.
LEMMA BlockMassIs ==
  ASSUME NEW b \in 0 .. NumBlocks - 1
  PROVE  BlockMass(b) = Promise!MassOf({b})
<1> DEFINE G(it) == [s \in SUBSET {b} |-> IF s = {} THEN 0 ELSE
                      LET x == CHOOSE x \in s : TRUE IN Promise!Length(x) + it[s \ {x}]]
           f == [s \in SUBSET {b} |-> IF s = {} THEN 0 ELSE Promise!Length(b)]
           c == CHOOSE it : it = G(it)
<1>1. Promise!MassOf({b}) = c[{b}]
  BY DEF Promise!MassOf, Promise!FoldSet, Promise!MapThenFoldSet
<1>2. \A s \in SUBSET {b} : s # {} => s = {b} /\ s \ {b} = {} /\ (CHOOSE x \in s : TRUE) = b
  OBVIOUS
<1>3. f = G(f)
  <2>1. Promise!Length(b) \in Nat
    BY LengthIs
  <2>2. \A s \in SUBSET {b} : G(f)[s] = f[s]
    BY <1>2, <2>1
  <2> QED BY <2>2
<1>4. c = G(c)
  <2> HIDE DEF G
  <2> QED BY <1>3
<1>5. c[{}] = 0 /\ c[{b}] = Promise!Length(b) + c[{}]
  <2> HIDE DEF c
  <2>1. {} \in SUBSET {b} /\ {b} \in SUBSET {b} /\ {b} \ {b} = {} /\ {b} # {}
    OBVIOUS
  <2>2. \A s \in SUBSET {b} :
          c[s] = IF s = {} THEN 0
                 ELSE Promise!Length(CHOOSE x \in s : TRUE) + c[s \ {CHOOSE x \in s : TRUE}]
    BY <1>4
  <2>3. (CHOOSE x \in {b} : TRUE) = b
    BY <1>2
  <2> HIDE DEF G
  <2> QED BY <2>1, <2>2, <2>3
<1>6. c[{b}] = Promise!Length(b)
  <2>1. Promise!Length(b) \in Nat
    BY LengthIs
  <2> QED BY <1>5, <2>1
<1> QED BY <1>1, <1>6, LengthIs(* FlattenSeq, which joins a sequence of sequences, and sums of lengths.     *)

-----------------------------------------------------------------------------
(***************************************************************************)
(* The plan of the groups, for the thread blocks of the sm120 kernel.      *)
(***************************************************************************)

\* What RoutedAttention wants of the groups whose exact blocks are decided.
PartOf(k, v, S) == Promise!Part(k, v, S, Promise!MassOf(S))
Exacts(S) ==
  [k \in 1 .. Cardinality(S) |->
    LET b == InOrder(S)[k] IN PartOf(Promise!KBlocks({b}), Promise!VBlocks({b}), {b})]

GroupPlan(g, S) == Promise!ApproximateParts(g, S) \o Exacts(S)
PlanOf(rs) == FlattenSeq([i \in 1 .. Len(rs) |-> GroupPlan(i - 1, rs[i])])

\* The blocks, and what is added of them.
Blocks == 0 .. NumBlocks - 1
KeyTiles == {Promise!KMeans(g) : g \in Nat} \union {Promise!KBlocks({b}) : b \in Blocks}
ValueTiles == {Promise!VMeans(g) : g \in Nat} \union {Promise!VBlocks({b}) : b \in Blocks}
Parts == {PartOf(k, v, S) : k \in KeyTiles, v \in ValueTiles, S \in SUBSET Blocks}

\* Sets of blocks are finite sets of numbers.
LEMMA BlockSets ==
  ASSUME NEW S \in SUBSET Blocks
  PROVE  S \in SUBSET Nat /\ IsFiniteSet(S) /\ Cardinality(S) \in Nat
<1>1. IsFiniteSet(Blocks) /\ Blocks \subseteq Nat
  BY Sizes, FS_Interval DEF Blocks
<1> QED BY <1>1, FS_Subset, FS_CardinalityType

\* The parts of a group are a sequence, its exact blocks one part each.
LEMMA GroupParts ==
  ASSUME NEW S \in SUBSET Blocks, NEW g \in Nat
  PROVE  /\ Exacts(S) \in Seq(Parts) /\ Len(Exacts(S)) = Cardinality(S)
         /\ Promise!ApproximateParts(g, S) \in Seq(Parts)
         /\ GroupPlan(g, S) \in Seq(Parts)
<1>1. InOrder(S) \in Seq(S) /\ Len(InOrder(S)) = Cardinality(S) /\ Cardinality(S) \in Nat
  BY BlockSets, Listed
<1>2. ASSUME NEW k \in 1 .. Cardinality(S) PROVE Exacts(S)[k] \in Parts
  <2>1. InOrder(S)[k] \in Blocks
    BY <1>1
  <2> DEFINE b == InOrder(S)[k]
  <2>2. Exacts(S)[k] = PartOf(Promise!KBlocks({b}), Promise!VBlocks({b}), {b})
    BY DEF Exacts
  <2> HIDE DEF b
  <2>3. {b} \in SUBSET Blocks /\ Promise!KBlocks({b}) \in KeyTiles /\ Promise!VBlocks({b}) \in ValueTiles
    BY <2>1 DEF b, KeyTiles, ValueTiles
  <2> QED BY <2>2, <2>3 DEF Parts
<1>3. Exacts(S) \in Seq(Parts) /\ Len(Exacts(S)) = Cardinality(S)
  <2> DEFINE n == Cardinality(S)
             e == Exacts(S)
  <2>1. e = [k \in 1 .. n |-> e[k]] /\ n \in Nat /\ \A k \in 1 .. n : e[k] \in Parts
    BY <1>1, <1>2 DEF Exacts
  <2> HIDE DEF n, e
  <2>2. e \in [1 .. n -> Parts]
    BY <2>1
  <2>3. e \in Seq(Parts) /\ Len(e) = n
    BY <2>1, <2>2
  <2> QED BY <2>3 DEF n, e
<1>4. Promise!ApproximateParts(g, S) \in Seq(Parts)
  <2> DEFINE rest == Promise!Members(g) \ S
             part == PartOf(Promise!KMeans(g), Promise!VMeans(g), rest)
  <2>1. rest \in SUBSET Blocks
    BY DEF Promise!Members, Blocks, NumBlocks
  <2>2. part \in Parts
    <3>1. Promise!KMeans(g) \in KeyTiles /\ Promise!VMeans(g) \in ValueTiles
      BY DEF KeyTiles, ValueTiles
    <3> HIDE DEF rest
    <3> QED BY <2>1, <3>1 DEF Parts
  <2>3. Promise!ApproximateParts(g, S) \in {<<>>, <<part>>}
    BY DEF Promise!ApproximateParts, PartOf
  <2> HIDE DEF part
  <2>4. <<>> \in Seq(Parts) /\ <<part>> \in Seq(Parts)
    BY <2>2
  <2> QED BY <2>3, <2>4
<1>5. GroupPlan(g, S) \in Seq(Parts)
  BY <1>3, <1>4 DEF GroupPlan
<1> QED BY <1>3, <1>4, <1>5

\* The plan of the groups, and of one group more.
LEMMA PlanGrows ==
  ASSUME NEW rs \in Seq(SUBSET Blocks)
  PROVE  /\ PlanOf(rs) \in Seq(Parts)
         /\ \A S \in SUBSET Blocks : PlanOf(Append(rs, S)) = PlanOf(rs) \o GroupPlan(Len(rs), S)
<1> DEFINE n == Len(rs)
           s == [i \in 1 .. n |-> GroupPlan(i - 1, rs[i])]
<1>1. n \in Nat /\ \A i \in 1 .. n : rs[i] \in SUBSET Blocks
  <2> DEFINE B == SUBSET Blocks
  <2>1. rs \in Seq(B)
    OBVIOUS
  <2> HIDE DEF B
  <2>2. n \in Nat /\ \A i \in 1 .. n : rs[i] \in B
    BY <2>1
  <2> QED BY <2>2 DEF B
<1>2. \A i \in 1 .. n : i - 1 \in Nat /\ GroupPlan(i - 1, rs[i]) \in Seq(Parts)
  <2> SUFFICES ASSUME NEW i \in 1 .. n PROVE i - 1 \in Nat /\ GroupPlan(i - 1, rs[i]) \in Seq(Parts)
    OBVIOUS
  <2>1. i - 1 \in Nat /\ rs[i] \in SUBSET Blocks
    BY <1>1
  <2> QED BY <2>1, GroupParts
<1>3. s \in Seq(Seq(Parts)) /\ Len(s) = n
  <2> DEFINE P == Seq(Parts)
  <2>1. s \in [1 .. n -> P]
    BY <1>2
  <2> HIDE DEF P, s
  <2>2. s \in Seq(P) /\ Len(s) = n
    <3> HIDE DEF n
    <3> QED BY <1>1, <2>1
  <2> QED BY <2>2 DEF P
<1>4. PlanOf(rs) = FlattenSeq(s)
  BY DEF PlanOf
<1>5. PlanOf(rs) \in Seq(Parts)
  <2>1. <<>> \in Seq(Parts)
    OBVIOUS
  <2> HIDE DEF s
  <2> QED BY <1>3, <1>4, <2>1, FlattenAppend
<1>6. ASSUME NEW S \in SUBSET Blocks
      PROVE  PlanOf(Append(rs, S)) = PlanOf(rs) \o GroupPlan(n, S)
  <2> DEFINE t == Append(rs, S)
             x == GroupPlan(n, S)
             u == [i \in 1 .. Len(t) |-> GroupPlan(i - 1, t[i])]
  <2>1. Len(t) = n + 1 /\ t[n + 1] = S /\ \A i \in 1 .. n : t[i] = rs[i]
    BY <1>1
  <2>2. x \in Seq(Parts)
    BY <1>1, GroupParts
  <2>3. u = Append(s, x)
    <3>1. \A i \in 1 .. n + 1 : i - 1 \in Nat /\ (i \in 1 .. n \/ (i = n + 1 /\ i - 1 = n))
      BY <1>1
    <3>2. \A i \in 1 .. n + 1 : GroupPlan(i - 1, t[i]) = IF i \in 1 .. n THEN s[i] ELSE x
      BY <2>1, <3>1
    <3>3. u = [i \in 1 .. n + 1 |-> IF i \in 1 .. n THEN s[i] ELSE x]
      BY <2>1, <3>2
    <3> HIDE DEF s, x, u, t
    <3>4. Append(s, x) = [i \in 1 .. n + 1 |-> IF i \in 1 .. n THEN s[i] ELSE x]
      <4> DEFINE P == Seq(Parts)
                 a == Append(s, x)
      <4>1. s \in Seq(P) /\ x \in P
        BY <1>3, <2>2
      <4> HIDE DEF P
      <4>2. a \in Seq(P) /\ Len(a) = n + 1 /\ \A i \in 1 .. n + 1 : a[i] = IF i \in 1 .. n THEN s[i] ELSE x
        BY <1>1, <1>3, <4>1
      <4> HIDE DEF a, n
      <4>3. a = [i \in 1 .. n + 1 |-> a[i]]
        BY <4>2
      <4> QED BY <4>2, <4>3 DEF a
    <3> QED BY <3>3, <3>4
  <2>4. PlanOf(t) = FlattenSeq(u)
    BY DEF PlanOf
  <2> HIDE DEF t, u, s, x
  <2>5. FlattenSeq(Append(s, x)) = FlattenSeq(s) \o x
    BY <1>3, <2>2, FlattenAppend
  <2> QED BY <1>4, <2>3, <2>4, <2>5 DEF t, x
<1> QED BY <1>5, <1>6

\* The thread blocks of the kernel: they walk over all groups, one at a time,
\* and take one exact block after the other.
Alone ==
  /\ job.first = 0 /\ job.last = NumGroups
  /\ job.join = 1 /\ job.pair = 1 /\ job.partials = <<>>

\* The exact parts are taken one by one.
LEMMA ExactsAre ==
  ASSUME Alone, NEW S \in SUBSET Blocks
  PROVE  Promise!ExactParts(S) = Exacts(S)
<1> DEFINE e == Promise!InOrder(S)
           n == Cardinality(S)
           chunk(i) == {e[j] : j \in (i - 1) * job.pair + 1 .. Promise!Min({i * job.pair, Len(e)})}
           part(B) == PartOf(Promise!KBlocks(B), Promise!VBlocks(B), B)
<1>1. e = InOrder(S) /\ Len(e) = n /\ n \in Nat
  BY BlockSets, Listed DEF InOrder
<1> HIDE DEF e, n
<1>2. ASSUME NEW i \in 1 .. n PROVE chunk(i) = {e[i]}
  <2>1. Promise!Min({i, n}) = i
    BY <1>1 DEF Promise!Min
  <2>2. (i - 1) * job.pair + 1 = i /\ i * job.pair = i
    BY <1>1 DEF Alone
  <2>3. i .. i = {i}
    BY <1>1
  <2> QED BY <1>1, <2>1, <2>2, <2>3
<1>3. (Len(e) + job.pair - 1) \div job.pair = n
  <2>1. (n + 1 - 1) \div 1 = n
    BY <1>1, DivUnique
  <2> QED BY <1>1, <2>1 DEF Alone
<1>4. Promise!ExactParts(S) = [i \in 1 .. (Len(e) + job.pair - 1) \div job.pair |-> part(chunk(i))]
  BY DEF Promise!ExactParts, e, PartOf
<1>5. Promise!ExactParts(S) = [i \in 1 .. n |-> part({e[i]})]
  <2>1. \A i \in 1 .. n : part(chunk(i)) = part({e[i]})
    BY <1>2
  <2> HIDE DEF part, chunk
  <2> QED BY <1>3, <1>4, <2>1
<1> QED BY <1>1, <1>5 DEF Exacts, n

\* What is promised of the groups that are decided.
LEMMA PlanIs ==
  ASSUME Alone, routes \in Seq(SUBSET Blocks)
  PROVE  Promise!Plan = PlanOf(routes)
<1> DEFINE n == Len(routes)
<1>1. n \in Nat /\ \A i \in 1 .. n : routes[i] \in SUBSET Blocks
  <2> DEFINE B == SUBSET Blocks
  <2>1. routes \in Seq(B)
    OBVIOUS
  <2> HIDE DEF B
  <2>2. n \in Nat /\ \A i \in 1 .. n : routes[i] \in B
    BY <2>1
  <2> QED BY <2>2 DEF B
<1>2. Promise!PartialParts = <<>>
  <2>1. \A x : [i \in 1 .. Len(<<>>) |-> x] = <<>>
    OBVIOUS
  <2>2. FlattenSeq(<<>>) = <<>>
    BY DEF FlattenSeq
  <2> QED BY <2>1, <2>2, SameFlatten DEF Alone, Promise!PartialParts
<1>3. ASSUME NEW i \in 1 .. n
      PROVE  /\ Promise!Closes(i)
             /\ Promise!JoinedExact(i) = routes[i]
             /\ job.first + i - 1 = i - 1
  <2>1. i % 1 = 0 /\ \A k \in 1 .. i : (k - 1) \div 1 = k - 1
    <3>1. \A k \in 1 .. i : (k - 1) \div 1 = k - 1
      BY <1>1, DivUnique
    <3> QED BY <1>1, <3>1, Z3
  <2>2. {k \in 1 .. i : (k - 1) \div job.join = (i - 1) \div job.join} = {i}
    BY <1>1, <2>1 DEF Alone
  <2>3. Promise!JoinedExact(i) = UNION {routes[j] : j \in {i}}
    BY <2>2 DEF Promise!JoinedExact
  <2>4. job.first + i - 1 = i - 1
    BY <1>1 DEF Alone
  <2> QED BY <2>1, <2>3, <2>4 DEF Promise!Closes, Alone
<1>4. Promise!Plan = <<>> \o PlanOf(routes)
  <2> DEFINE part(i) == Promise!ApproximateParts(job.first + i - 1, routes[i])
                          \o (IF Promise!Closes(i) THEN Promise!ExactParts(Promise!JoinedExact(i)) ELSE <<>>)
  <2>1. Promise!Plan = <<>> \o FlattenSeq([i \in 1 .. n |-> part(i)])
    BY <1>2, SameFlatten DEF Promise!Plan
  <2>2. \A i \in 1 .. n : part(i) = GroupPlan(i - 1, routes[i])
    BY <1>1, <1>3, ExactsAre DEF GroupPlan
  <2> HIDE DEF part
  <2>3. [i \in 1 .. n |-> part(i)] = [i \in 1 .. n |-> GroupPlan(i - 1, routes[i])]
    BY <2>2
  <2> QED BY <2>1, <2>3 DEF PlanOf
<1>5. PlanOf(routes) \in Seq(Parts)
  BY PlanGrows
<1> QED BY <1>4, <1>5(* FlattenSeq, which joins a sequence of sequences, and sums of lengths.     *)

\* The blocks of the tokens from x up to y, which are those that overlap them.
LEMMA Overlaps ==
  ASSUME NEW x \in Nat, NEW y \in Nat, NEW t \in x .. y - 1
  PROVE  t \div BlockLen \in x \div BlockLen .. Prepare!BlocksIn(y) - 1
<1> DEFINE b == t \div BlockLen
           a == x \div BlockLen
<1>1. BlockLen \in Nat \ {0} /\ t \in Nat /\ x <= t /\ t < y
  BY SizesAssumption
<1>2. /\ a \in Int /\ a * BlockLen \in Int /\ a * BlockLen <= x
      /\ b \in Int /\ b * BlockLen \in Int /\ b * BlockLen <= t /\ t < b * BlockLen + BlockLen
  BY <1>1, Z3
<1>3. a <= b
  <2>1. ASSUME b + 1 <= a PROVE FALSE
    <3>1. (b + 1) * BlockLen <= a * BlockLen /\ (b + 1) * BlockLen = b * BlockLen + BlockLen
      BY <1>1, <1>2, <2>1, Z3
    <3> QED BY <1>1, <1>2, <3>1
  <2> QED BY <1>2, <2>1
<1>4. b \in Nat
  <2>1. ASSUME b + 1 <= 0 PROVE FALSE
    <3>1. (b + 1) * BlockLen <= 0 * BlockLen /\ (b + 1) * BlockLen = b * BlockLen + BlockLen
      BY <1>1, <1>2, <2>1, Z3
    <3> QED BY <1>1, <1>2, <3>1
  <2> QED BY <1>2, <2>1
<1>5. Prepare!BlocksIn(y) \in Nat /\ b < Prepare!BlocksIn(y)
  <2>1. b * BlockLen < y
    BY <1>1, <1>2
  <2> QED BY <1>1, <1>4, <2>1, RoundsUp DEF Prepare!BlocksIn
<1> QED BY <1>2, <1>3, <1>5

\* The calls that a kernel runs on these tokens, and their thread blocks.
CallsBy(a) == {c \in Calls : Prepare!Accepted(c) /\ Prepare!Backend(c) = a /\ c.keys = Tokens}
JobsBy(a) == UNION {Prepare!Jobs(c) : c \in CallsBy(a)}

Sunk == \A t \in job.keep : t \div BlockLen \in job.sink[1] .. job.sink[2] - 1

\* A thread block walks over all groups, and the blocks of its sink have the
\* tokens that are to be kept exact.
LEMMA JobsFit ==
  ASSUME NEW a \in {"sm120", "triton"}, job \in JobsBy(a)
  PROVE  Alone /\ Sunk
<1>1. PICK c \in Calls : /\ Prepare!Accepted(c) /\ Prepare!Backend(c) = a /\ c.keys = Tokens
                         /\ job \in Prepare!Jobs(c)
  BY DEF JobsBy, CallsBy
<1>2. c.splits = 1
  BY <1>1 DEF Prepare!Accepted, Prepare!ValidSplits
<1>3. PICK tile : job = Prepare!Job(c, tile, 0)
  <2>1. PICK tile \in 0 .. Prepare!BlocksIn(c.queries) - 1, split \in 0 .. c.splits - 1 : job = Prepare!Job(c, tile, split)
    BY <1>1 DEF Prepare!Jobs
  <2>2. split = 0
    BY <1>2, <2>1
  <2> QED BY <2>1, <2>2
<1>4. /\ job.keep = Prepare!Kept(c) /\ job.sink = Prepare!SinkBlockRange(c)
      /\ job.first = Prepare!SplitBegin(Prepare!GroupsIn(c.keys), c.splits, 0)
      /\ job.last = Prepare!SplitEnd(Prepare!GroupsIn(c.keys), c.splits, 0)
      /\ job.join = 1 /\ job.pair = 1 /\ job.partials = <<>>
  BY <1>1, <1>3 DEF Prepare!Job
<1>5. Alone
  <2> DEFINE g == NumGroups
  <2>1. Prepare!GroupsIn(c.keys) = g
    BY <1>1 DEF Prepare!GroupsIn, Prepare!BlocksIn, NumGroups, Promise!NumGroups, Promise!NumBlocks
  <2>2. g \in Nat
    BY Sizes
  <2> HIDE DEF g
  <2>3. (g + 1 - 1) \div 1 = g
    BY <2>2, DivUnique
  <2>4. Prepare!GroupsPerSplit(g, 1) = g
    BY <2>3 DEF Prepare!GroupsPerSplit
  <2>5. job.first = 0 /\ job.last = g
    BY <1>2, <1>4, <2>1, <2>2, <2>4 DEF Prepare!SplitBegin, Prepare!SplitEnd, Prepare!Least
  <2> QED BY <1>4, <2>5 DEF Alone, g
<1>6. Sunk
  <2> DEFINE x == IF c.sinkStart = None THEN c.keys - c.sinkTokens ELSE c.sinkStart
             y == x + c.sinkTokens
             kept == x .. y - 1
  <2>1. Tokens \in Nat /\ c.sinkTokens \in 0 .. Tokens /\ x \in Nat /\ y \in Nat
    BY <1>1, SizesAssumption DEF Prepare!Accepted, Prepare!ValidInputs
  <2>2. job.keep = x .. y - 1
    <3>1. Prepare!Kept(c) = kept
      BY <1>1, <2>1 DEF Prepare!Kept
    <3> HIDE DEF kept
    <3>2. job.keep = kept
      BY <1>4, <3>1
    <3> QED BY <3>2 DEF kept
  <2>3. c.sinkTokens # 0 => job.sink = <<x \div BlockLen, Prepare!BlocksIn(y)>>
    BY <1>4 DEF Prepare!SinkBlockRange
  <2> HIDE DEF x
  <2>4. ASSUME NEW t \in job.keep PROVE t \div BlockLen \in job.sink[1] .. job.sink[2] - 1
    <3>1. t \in x .. y - 1 /\ c.sinkTokens # 0
      BY <2>1, <2>2
    <3> HIDE DEF y
    <3>2. t \div BlockLen \in x \div BlockLen .. Prepare!BlocksIn(y) - 1
      BY <2>1, <3>1, Overlaps
    <3> QED BY <2>3, <3>1, <3>2
  <2> QED BY <2>4 DEF Sunk
<1> QED BY <1>5, <1>6(* FlattenSeq, which joins a sequence of sequences, and sums of lengths.     *)

-----------------------------------------------------------------------------
(***************************************************************************)
(* The sm120 kernel keeps the promise of RoutedAttention.                  *)
(***************************************************************************)

\* What has been decided, of which the scratch holds the last.
Routed ==
  /\ routes \in Seq(SUBSET Blocks)
  /\ Len(routes) = scratch.group + 1
  /\ \A i \in 1 .. Len(routes) : routes[i] \subseteq Members(i - 1)
  /\ scratch.exact = IF routes = <<>> THEN <<>> ELSE InOrder(routes[Len(routes)])

\* How many exact blocks of its group a warp has added, or -1 before the rest.
Exacting == {"index", "scoreExact", "releaseK", "nextK", "exactV", "releaseV", "nextV"}
AddedAt(l, r) ==
  CASE l \in {"releaseMeans", "firstV"} -> 0
    [] l \in {"index", "scoreExact", "releaseK", "nextK", "exactV"} -> r.ordinal
    [] l \in {"releaseV", "nextV"} -> r.ordinal + 1
    [] OTHER -> -1

SumAt(n, g) ==
  LET before == PlanOf(SubSeq(routes, 1, g))
      S == routes[g + 1] IN
  IF n = -1 THEN before
  ELSE before \o (Promise!ApproximateParts(g, S) \o SubSeq(Exacts(S), 1, n))

Added == taken = [w \in Warps |-> SumAt(AddedAt(pc[w], reg[w]), reg[w].group)]

\* What a warp has in its registers.
HoldsAt(l, r) ==
  /\ l \in Exacting => r.ordinal < Len(scratch.exact)
  /\ l \in {"scoreExact", "releaseK", "nextK", "exactV"} => r.block = scratch.exact[r.ordinal + 1]
  /\ l \in {"reduceRoute", "syncSums", "count", "firstK", "approximate"} \union Deciding =>
       r.score = Promise!KMeans(r.group)
  /\ l \in {"releaseK", "nextK", "exactV"} => r.score = Promise!KBlocks({r.block})

Holds == \A w \in Warps : HoldsAt(pc[w], reg[w])

\* The tiles since the last decision: the means of its group, its n exact
\* blocks, and the means of the next group.
Decision == IF pc[Producer] = "decide" THEN scratch.group + 1 ELSE scratch.group

KTile(k) ==
  IF k \in 1 .. Len(scratch.exact) THEN Promise!KBlocks({scratch.exact[k]})
  ELSE Promise!KMeans(scratch.group + 1)

VTile(k) ==
  CASE k \in 1 .. Len(scratch.exact) -> Promise!VBlocks({scratch.exact[k]})
    [] k = 0 -> Promise!VMeans(Decision)
    [] OTHER -> Promise!VMeans(scratch.group + 1)

\* The last of them that a warp has begun to read,
KRead(l, r, n) ==
  CASE l \in Deciding \union {"count", "firstK", "approximate", "releaseMeans", "firstV"} -> 0
    [] l \in {"index", "scoreExact"} -> r.ordinal
    [] l \in {"releaseK", "nextK", "exactV", "releaseV", "nextV"} -> r.ordinal + 1
    [] l \in {"reduceRoute", "syncSums"} -> n + 1
    [] OTHER -> n

VRead(l, r, n) ==
  CASE l \in Deciding \union {"count", "firstK", "approximate"} -> -1
    [] l \in {"releaseMeans", "firstV"} -> 0
    [] l \in {"index", "scoreExact", "releaseK", "nextK", "exactV"} -> r.ordinal
    [] l \in {"releaseV", "nextV"} -> r.ordinal + 1
    [] OTHER -> n

\* and the last that the Producer has started to copy.
KIssued(l, r, n) ==
  CASE l \in Deciding \union {"count", "firstK"} -> 0
    [] l \in {"approximate", "releaseMeans", "firstV"} -> IF n > 0 THEN 1 ELSE 0
    [] l \in {"index", "scoreExact", "releaseK", "nextK"} -> r.ordinal + 1
    [] l \in {"exactV", "releaseV", "nextV"} ->
         IF r.ordinal + 1 = n /\ r.group + 1 = NumGroups THEN n ELSE r.ordinal + 2
    [] l \in {"routeV", "scoreRoute", "reduceRoute", "syncSums"} -> n + 1
    [] l = "routeK" -> IF n > 0 THEN n + 1 ELSE 0
    [] OTHER -> n

VIssued(l, r, n) ==
  CASE l \in Deciding \union {"count", "firstK", "approximate", "releaseMeans", "firstV"} -> 0
    [] l \in Exacting -> r.ordinal + 1
    [] l \in {"scoreRoute", "reduceRoute", "syncSums"} -> n + 1
    [] OTHER -> n

\* Who has yet to read the tile that was copied last, which is in the stage or
\* on its way there.
Unread(p) == IF p.filling # None THEN Warps ELSE p.due
Newest(p) == IF p.filling # None THEN p.filling ELSE p.content

Reads(p, read, issued, tile) ==
  /\ \A w \in Warps : read[w] = IF w \in Unread(p) THEN issued - 1 ELSE issued
  /\ Unread(p) # {} => Newest(p) = tile

KReads ==
  LET n == Len(scratch.exact)
      issued == KIssued(pc[Producer], reg[Producer], n) IN
  Reads(K, [w \in Warps |-> KRead(pc[w], reg[w], n)], issued, KTile(issued))

VReads ==
  LET n == Len(scratch.exact)
      issued == VIssued(pc[Producer], reg[Producer], n) IN
  Reads(V, [w \in Warps |-> VRead(pc[w], reg[w], n)], issued, VTile(issued))

\* The second inductive invariant of the sm120 kernel.
Follows == Routed /\ Added /\ Holds /\ KReads /\ VReads

\* What a step does to a pipeline: nothing to the newest tile and its readers,
\* a warp begins to read it, or it is replaced.
Rests(p, q) == Unread(q) = Unread(p) /\ Newest(q) = Newest(p)
Begins(p, q, w) ==
  /\ w \in Unread(p) /\ p.content = Newest(p)
  /\ Unread(q) = Unread(p) \ {w} /\ Newest(q) = Newest(p)
Fills(p, q, t) == Unread(p) = {} /\ Unread(q) = Warps /\ Newest(q) = t

\* The steps of the K pipeline,
LEMMA KStreams ==
  ASSUME Pipes
  PROVE  /\ \A t \in Tiles : IssueK(t) => Fills(K, K', t)
         /\ K.filling # None => Rests(K, Landed(K))
         /\ \A w \in Warps : w \notin K.reading /\ KReady(w) => Begins(K, Begun(K, w), w)
         /\ \A w \in Warps : Rests(K, Released(K, w))
<1>1. /\ K \in [readers : {Warps}, full : Bit, empty : Bit, arrived : SUBSET Warps,
                filling : Tiles \union {None}, content : Tiles \union {None},
                due : SUBSET Warps, reading : SUBSET Warps]
      /\ KP!TypeOK /\ KP!Free /\ KP!Flying /\ KP!Shared
  BY Fields DEF Pipes, KP!IInv
<1>2. ASSUME NEW t \in Tiles, IssueK(t) PROVE Fills(K, K', t)
  <2>1. K.filling = None /\ K.due = {} /\ K'.filling = t
    BY <1>1, <1>2 DEF KP!Free, KP!Quiet, IssueK, Acquirable, Filled
  <2> QED BY <2>1, NoneAssumption DEF Fills, Unread, Newest
<1>3. ASSUME K.filling # None PROVE Rests(K, Landed(K))
  BY <1>1, <1>3 DEF Rests, Unread, Newest, Landed
<1>4. ASSUME NEW w \in Warps, w \notin K.reading, KReady(w) PROVE Begins(K, Begun(K, w), w)
  <2>1. K.full # consume[w]["K"] /\ K.full \in Bit
    BY <1>1, <1>4 DEF KReady, Ready
  <2>2. K.filling = None /\ w \in K.due
    BY <1>1, <1>4, <2>1 DEF KP!Free, KP!Flying, KP!Shared, KP!Quiet
  <2>3. Begun(K, w).filling = None /\ Begun(K, w).due = K.due \ {w} /\ Begun(K, w).content = K.content
    BY <1>1, <2>2 DEF Begun
  <2> QED BY <2>2, <2>3 DEF Begins, Unread, Newest
<1>5. ASSUME NEW w \in Warps PROVE Rests(K, Released(K, w))
  <2>1. /\ Released(K, w).filling = K.filling /\ Released(K, w).due = K.due
        /\ Released(K, w).content = K.content
    BY <1>1 DEF Released
  <2> QED BY <2>1 DEF Rests, Unread, Newest
<1> QED BY <1>2, <1>3, <1>4, <1>5

\* and of the V pipeline.
LEMMA VStreams ==
  ASSUME Pipes
  PROVE  /\ \A t \in Tiles : IssueV(t) => Fills(V, V', t)
         /\ V.filling # None => Rests(V, Landed(V))
         /\ \A w \in Warps : w \notin V.reading /\ VReady(w) => Begins(V, Begun(V, w), w)
         /\ \A w \in Warps : Rests(V, Released(V, w))
<1>1. /\ V \in [readers : {Warps}, full : Bit, empty : Bit, arrived : SUBSET Warps,
                filling : Tiles \union {None}, content : Tiles \union {None},
                due : SUBSET Warps, reading : SUBSET Warps]
      /\ VP!TypeOK /\ VP!Free /\ VP!Flying /\ VP!Shared
  BY Fields DEF Pipes, VP!IInv
<1>2. ASSUME NEW t \in Tiles, IssueV(t) PROVE Fills(V, V', t)
  <2>1. V.filling = None /\ V.due = {} /\ V'.filling = t
    BY <1>1, <1>2 DEF VP!Free, VP!Quiet, IssueV, Acquirable, Filled
  <2> QED BY <2>1, NoneAssumption DEF Fills, Unread, Newest
<1>3. ASSUME V.filling # None PROVE Rests(V, Landed(V))
  BY <1>1, <1>3 DEF Rests, Unread, Newest, Landed
<1>4. ASSUME NEW w \in Warps, w \notin V.reading, VReady(w) PROVE Begins(V, Begun(V, w), w)
  <2>1. V.full # consume[w]["V"] /\ V.full \in Bit
    BY <1>1, <1>4 DEF VReady, Ready
  <2>2. V.filling = None /\ w \in V.due
    BY <1>1, <1>4, <2>1 DEF VP!Free, VP!Flying, VP!Shared, VP!Quiet
  <2>3. Begun(V, w).filling = None /\ Begun(V, w).due = V.due \ {w} /\ Begun(V, w).content = V.content
    BY <1>1, <2>2 DEF Begun
  <2> QED BY <2>2, <2>3 DEF Begins, Unread, Newest
<1>5. ASSUME NEW w \in Warps PROVE Rests(V, Released(V, w))
  <2>1. /\ Released(V, w).filling = V.filling /\ Released(V, w).due = V.due
        /\ Released(V, w).content = V.content
    BY <1>1 DEF Released
  <2> QED BY <2>1 DEF Rests, Unread, Newest
<1> QED BY <1>2, <1>3, <1>4, <1>5

\* The counts of one warp and of its pipeline go on together.
LEMMA ReadsGo ==
  ASSUME NEW p, NEW q, NEW f, NEW g, NEW i \in Int, NEW j \in Int, NEW s, NEW t,
         Reads(p, f, i, s), NEW w \in Warps, \A v \in Warps \ {w} : g[v] = f[v],
         \/ Rests(p, q) /\ g[w] = f[w] /\ j = i /\ t = s
         \/ Begins(p, q, w) /\ g[w] = f[w] + 1 /\ j = i /\ t = s
         \/ Fills(p, q, t) /\ g[w] = f[w] /\ j = i + 1
  PROVE  Reads(q, g, j, t)
<1>1. CASE Rests(p, q) /\ g[w] = f[w] /\ j = i /\ t = s
  BY <1>1 DEF Reads, Rests
<1>2. CASE Begins(p, q, w) /\ g[w] = f[w] + 1 /\ j = i /\ t = s
  <2>1. f[w] = i - 1 /\ g[w] = i /\ w \notin Unread(q) /\ j = i
    BY <1>2 DEF Reads, Begins
  <2>2. ASSUME NEW v \in Warps \ {w} PROVE g[v] = IF v \in Unread(q) THEN j - 1 ELSE j
    BY <1>2 DEF Reads, Begins
  <2> QED BY <1>2, <2>1, <2>2 DEF Reads, Begins
<1>3. CASE Fills(p, q, t) /\ g[w] = f[w] /\ j = i + 1
  BY <1>3 DEF Reads, Fills
<1> QED BY <1>1, <1>2, <1>3

\* The counts are numbers.
LEMMA Counts ==
  ASSUME NEW l, NEW r \in Registers, NEW n \in Nat
  PROVE  /\ KRead(l, r, n) \in Int /\ VRead(l, r, n) \in Int
         /\ KIssued(l, r, n) \in Int /\ VIssued(l, r, n) \in Int
<1>1. r.ordinal \in Nat /\ r.group \in Nat
  BY DEF Registers
<1>2. KRead(l, r, n) \in Int
  BY <1>1 DEF KRead
<1>3. VRead(l, r, n) \in Int
  BY <1>1 DEF VRead
<1>4. KIssued(l, r, n) \in Int
  BY <1>1 DEF KIssued
<1>5. VIssued(l, r, n) \in Int
  BY <1>1 DEF VIssued
<1> QED BY <1>2, <1>3, <1>4, <1>5(* FlattenSeq, which joins a sequence of sequences, and sums of lengths.     *)

\* A sequence is its beginning and its last element.
LEMMA LastOf ==
  ASSUME NEW P, NEW s \in Seq(P), s # <<>>
  PROVE  /\ SubSeq(s, 1, Len(s) - 1) \in Seq(P) /\ s[Len(s)] \in P
         /\ Len(SubSeq(s, 1, Len(s) - 1)) = Len(s) - 1
         /\ s = Append(SubSeq(s, 1, Len(s) - 1), s[Len(s)])
<1> DEFINE n == Len(s) - 1
           f == SubSeq(s, 1, n)
<1>1. n \in Nat /\ Len(s) = n + 1
  OBVIOUS
<1>2. f \in Seq(P) /\ Len(f) = n /\ \A i \in 1 .. n : f[i] = s[i]
  BY <1>1, SubSeqProperties
<1>3. s[n + 1] \in P
  BY <1>1
<1> HIDE DEF n, f
<1>4. /\ Append(f, s[n + 1]) \in Seq(P) /\ Len(Append(f, s[n + 1])) = n + 1
      /\ \A i \in 1 .. n + 1 : Append(f, s[n + 1])[i] = s[i]
  BY <1>1, <1>2, <1>3
<1>5. s = Append(f, s[n + 1])
  BY <1>1, <1>4, SeqEqual
<1> QED BY <1>1, <1>2, <1>3, <1>5 DEF f, n

\* A beginning that grows by one element.
LEMMA SubSeqGrows ==
  ASSUME NEW P, NEW e \in Seq(P), NEW k \in Nat, k < Len(e)
  PROVE  /\ SubSeq(e, 1, k) \in Seq(P) /\ Len(SubSeq(e, 1, k)) = k /\ e[k + 1] \in P
         /\ SubSeq(e, 1, k + 1) = Append(SubSeq(e, 1, k), e[k + 1])
<1> DEFINE b == SubSeq(e, 1, k)
           c == SubSeq(e, 1, k + 1)
           d == Append(b, e[k + 1])
<1>1. k + 1 \in 1 .. Len(e) /\ e[k + 1] \in P
  OBVIOUS
<1>2. b \in Seq(P) /\ Len(b) = k /\ \A i \in 1 .. k : b[i] = e[i]
  BY <1>1, SubSeqProperties
<1>3. c \in Seq(P) /\ Len(c) = k + 1 /\ \A i \in 1 .. k + 1 : c[i] = e[i]
  BY <1>1, SubSeqProperties
<1> HIDE DEF b, c
<1>4. d \in Seq(P) /\ Len(d) = k + 1 /\ \A i \in 1 .. k + 1 : d[i] = e[i]
  BY <1>1, <1>2
<1> HIDE DEF d
<1>5. c = d
  BY <1>3, <1>4, SeqEqual
<1> QED BY <1>1, <1>2, <1>5 DEF b, c, d

\* Appending to the second of two sequences.
LEMMA ConcatAppend ==
  ASSUME NEW P, NEW s \in Seq(P), NEW t \in Seq(P), NEW x \in P
  PROVE  s \o t \in Seq(P) /\ s \o Append(t, x) = Append(s \o t, x)
<1>1. <<x>> \in Seq(P) /\ s \o t \in Seq(P)
  OBVIOUS
<1>2. Append(t, x) = t \o <<x>>
  BY AppendIsConcat
<1>3. s \o (t \o <<x>>) = (s \o t) \o <<x>>
  BY <1>1, ConcatAssociative
<1>4. Append(s \o t, x) = (s \o t) \o <<x>>
  BY <1>1, AppendIsConcat
<1> QED BY <1>1, <1>2, <1>3, <1>4

\* A sum of parts that is a part of the plan goes on with the next part.
LEMMA SumGoesOn ==
  ASSUME NEW P, NEW pre \in Seq(P), NEW a \in Seq(P), NEW e \in Seq(P), NEW b \in Seq(P),
         NEW k \in Nat, Len(b) = k, k < Len(e), NEW x, x = e[k + 1],
         NEW sum, sum = pre \o (a \o b), NEW plan, plan = pre \o (a \o e)
  PROVE  /\ Len(sum) < Len(plan)
         /\ plan[Len(sum) + 1] = x
<1>1. k \in Nat /\ k + 1 \in 1 .. Len(e) /\ e[k + 1] \in P
  OBVIOUS
<1>2. /\ sum \in Seq(P) /\ plan \in Seq(P) /\ Len(sum) = Len(pre) + Len(a) + k
      /\ Len(plan) = Len(pre) + Len(a) + Len(e)
  <2>1. ASSUME NEW t \in Seq(P)
        PROVE  pre \o (a \o t) \in Seq(P) /\ Len(pre \o (a \o t)) = Len(pre) + Len(a) + Len(t)
    <3> DEFINE u == a \o t
    <3>1. u \in Seq(P) /\ Len(u) = Len(a) + Len(t)
      OBVIOUS
    <3> HIDE DEF u
    <3>2. pre \o u \in Seq(P) /\ Len(pre \o u) = Len(pre) + Len(u)
      BY <3>1, ConcatProperties
    <3> QED BY <3>1, <3>2 DEF u
  <2> QED BY <2>1
<1>3. plan[Len(sum) + 1] = x
  <2> DEFINE t == a \o e
             m == Len(a) + k + 1
  <2>1. t \in Seq(P) /\ Len(t) = Len(a) + Len(e) /\ t[m] = e[k + 1] /\ m \in 1 .. Len(t)
    BY <1>1
  <2> HIDE DEF t, m
  <2>2. (pre \o t)[Len(pre) + m] = t[m]
    BY <2>1
  <2>3. Len(pre) + m = Len(sum) + 1
    BY <1>1, <1>2 DEF m
  <2>4. plan[Len(pre) + m] = x
    BY <2>1, <2>2 DEF t
  <2> QED BY <2>3, <2>4
<1>4. Len(sum) < Len(plan)
  BY <1>1, <1>2
<1> QED BY <1>3, <1>4(* FlattenSeq, which joins a sequence of sequences, and sums of lengths.     *)

\* The groups that are decided, in order.
Ordered ==
  /\ routes \in Seq(SUBSET Blocks)
  /\ \A i \in 1 .. Len(routes) : routes[i] \subseteq Members(i - 1)

\* The plan up to the group that is decided last, and what a warp has when it
\* has added none of it and all of it.
LEMMA OrderedSums ==
  ASSUME Ordered, NEW g \in Nat, Len(routes) = g + 1
  PROVE  /\ routes[g + 1] \in SUBSET Blocks /\ routes[g + 1] \subseteq Members(g)
         /\ Exacts(routes[g + 1]) \in Seq(Parts) /\ Len(Exacts(routes[g + 1])) = Cardinality(routes[g + 1])
         /\ PlanOf(SubSeq(routes, 1, g)) \in Seq(Parts)
         /\ Promise!ApproximateParts(g, routes[g + 1]) \in Seq(Parts)
         /\ PlanOf(routes) = PlanOf(SubSeq(routes, 1, g)) \o
              (Promise!ApproximateParts(g, routes[g + 1]) \o Exacts(routes[g + 1]))
         /\ SumAt(-1, g) = PlanOf(SubSeq(routes, 1, g))
         /\ SumAt(-1, g + 1) = PlanOf(routes)
         /\ SumAt(Cardinality(routes[g + 1]), g) = PlanOf(routes)
<1> DEFINE S == routes[g + 1]
           f == SubSeq(routes, 1, g)
           pre == PlanOf(f)
           n == Cardinality(routes[g + 1])
<1>1. /\ f \in Seq(SUBSET Blocks) /\ S \in SUBSET Blocks /\ Len(f) = g /\ routes = Append(f, S)
      /\ routes \in Seq(SUBSET Blocks) /\ routes # <<>>
  <2> DEFINE B == SUBSET Blocks
  <2>1. routes \in Seq(B) /\ routes # <<>> /\ Len(routes) - 1 = g
    BY DEF Ordered
  <2> HIDE DEF B
  <2>2. /\ SubSeq(routes, 1, Len(routes) - 1) \in Seq(B) /\ routes[Len(routes)] \in B
        /\ Len(SubSeq(routes, 1, Len(routes) - 1)) = Len(routes) - 1
        /\ routes = Append(SubSeq(routes, 1, Len(routes) - 1), routes[Len(routes)])
    BY <2>1, LastOf
  <2> QED BY <2>1, <2>2 DEF B
<1>2. S \subseteq Members(g)
  <2>1. g + 1 \in 1 .. Len(routes) /\ (g + 1) - 1 = g
    OBVIOUS
  <2> QED BY <1>1, <2>1 DEF Ordered
<1> HIDE DEF S, f
<1>3. pre \in Seq(Parts) /\ PlanOf(routes) = pre \o GroupPlan(g, S)
  BY <1>1, PlanGrows
<1>4. /\ Exacts(S) \in Seq(Parts) /\ Len(Exacts(S)) = Cardinality(S) /\ Cardinality(S) \in Nat
      /\ Promise!ApproximateParts(g, S) \in Seq(Parts)
  BY <1>1, GroupParts, BlockSets
<1>5. n = Cardinality(S)
  BY DEF S
<1>6. SumAt(-1, g) = pre
  BY DEF SumAt, f
<1>7. SumAt(-1, g + 1) = PlanOf(routes)
  <2> DEFINE B == SUBSET Blocks
  <2>1. routes \in Seq(B)
    BY <1>1
  <2> HIDE DEF B
  <2>2. SubSeq(routes, 1, g + 1) = routes
    BY <2>1, SubSeqFull
  <2> QED BY <2>2 DEF SumAt
<1>8. SumAt(n, g) = PlanOf(routes)
  <2>1. SubSeq(Exacts(S), 1, n) = Exacts(S)
    BY <1>4, <1>5, SubSeqFull
  <2>2. n # -1
    BY <1>4, <1>5
  <2> HIDE DEF n
  <2>3. SumAt(n, g) = pre \o (Promise!ApproximateParts(g, S) \o SubSeq(Exacts(S), 1, n))
    BY <2>2 DEF SumAt, S, f
  <2> QED BY <1>3, <2>1, <2>3 DEF GroupPlan
<1> QED BY <1>1, <1>2, <1>3, <1>4, <1>5, <1>6, <1>7, <1>8 DEF S, f, GroupPlan

\* The rest of the group is the next part of the plan, if there is a rest.
LEMMA RestIsNext ==
  ASSUME Alone, Ordered, NEW g \in Nat, Len(routes) = g + 1
  PROVE  LET S == routes[g + 1]
             rest == PartOf(Promise!KMeans(g), Promise!VMeans(g), Members(g) \ S)
         IN  IF S = Members(g) THEN SumAt(0, g) = SumAt(-1, g)
             ELSE /\ Len(SumAt(-1, g)) < Len(Promise!Plan)
                  /\ Promise!Plan[Len(SumAt(-1, g)) + 1] = rest
                  /\ SumAt(0, g) = Append(SumAt(-1, g), rest)
<1> DEFINE S == routes[g + 1]
           rest == PartOf(Promise!KMeans(g), Promise!VMeans(g), Members(g) \ S)
           pre == SumAt(-1, g)
           A == Promise!ApproximateParts(g, S)
           E == Exacts(S)
<1>1. /\ pre \in Seq(Parts) /\ E \in Seq(Parts) /\ A \in Seq(Parts)
      /\ Promise!Plan = pre \o (A \o E)
  BY OrderedSums, PlanIs DEF Ordered
<1>2. SumAt(0, g) = pre \o (A \o <<>>)
  <2>1. SubSeq(E, 1, 0) = <<>>
    BY SubSeqEmpty
  <2> QED BY <2>1 DEF SumAt
<1>3. A = IF S = Members(g) THEN <<>> ELSE <<rest>>
  BY DEF Promise!ApproximateParts, PartOf, Members
<1> HIDE DEF S, E, A, pre, rest
<1>4. CASE S = Members(g)
  BY <1>1, <1>2, <1>3, <1>4 DEF pre, S
<1>5. CASE S # Members(g)
  <2>1. A = <<rest>> /\ rest \in Parts
    <3>1. A[1] \in Parts
      BY <1>1, <1>3, <1>5
    <3> QED BY <1>3, <1>5, <3>1
  <2> DEFINE t == <<rest>> \o E
  <2>2. t \in Seq(Parts) /\ Len(t) > 0 /\ t[1] = rest
    BY <1>1, <2>1
  <2> HIDE DEF t
  <2>3. Len(pre \o t) > Len(pre) /\ (pre \o t)[Len(pre) + 1] = rest
    BY <1>1, <2>2, ConcatProperties
  <2>4. SumAt(0, g) = Append(pre, rest)
    <3>1. A \o <<>> = <<rest>>
      BY <1>1, <2>1
    <3> QED BY <1>1, <1>2, <2>1, <3>1, AppendIsConcat
  <2> QED BY <1>1, <1>5, <2>1, <2>3, <2>4 DEF t, pre, rest, S
<1> QED BY <1>4, <1>5 DEF S

\* So is each exact block after those before it.
LEMMA BlockIsNext ==
  ASSUME Alone, Ordered, NEW g \in Nat, Len(routes) = g + 1,
         NEW k \in 0 .. Cardinality(routes[g + 1]) - 1
  PROVE  LET b == InOrder(routes[g + 1])[k + 1]
             block == PartOf(Promise!KBlocks({b}), Promise!VBlocks({b}), {b})
         IN  /\ Len(SumAt(k, g)) < Len(Promise!Plan)
             /\ Promise!Plan[Len(SumAt(k, g)) + 1] = block
             /\ SumAt(k + 1, g) = Append(SumAt(k, g), block)
<1> DEFINE S == routes[g + 1]
           pre == SumAt(-1, g)
           A == Promise!ApproximateParts(g, S)
           E == Exacts(S)
           n == Cardinality(S)
           b == InOrder(S)[k + 1]
           block == PartOf(Promise!KBlocks({b}), Promise!VBlocks({b}), {b})
<1>0. k \in 0 .. n - 1 /\ n \in Nat
  BY OrderedSums, BlockSets
<1>1. /\ pre \in Seq(Parts) /\ E \in Seq(Parts) /\ A \in Seq(Parts)
      /\ Promise!Plan = pre \o (A \o E) /\ Len(E) = n
  BY OrderedSums, PlanIs DEF Ordered
<1>2. k \in Nat /\ k # -1 /\ k + 1 # -1 /\ k + 1 \in 1 .. n
  BY <1>0
<1>3. /\ SumAt(k, g) = pre \o (A \o SubSeq(E, 1, k))
      /\ SumAt(k + 1, g) = pre \o (A \o SubSeq(E, 1, k + 1))
  BY <1>2 DEF SumAt
<1>4. E[k + 1] = block
  BY <1>1, <1>2 DEF Exacts
<1> HIDE DEF n, S, E, A, pre, b, block
<1>5. /\ Len(SumAt(k, g)) < Len(Promise!Plan)
      /\ Promise!Plan[Len(SumAt(k, g)) + 1] = block
      /\ SumAt(k + 1, g) = Append(SumAt(k, g), block)
  <2> DEFINE u == SubSeq(E, 1, k)
             v == SubSeq(E, 1, k + 1)
             sum == SumAt(k, g)
             plan == Promise!Plan
  <2>1. /\ u \in Seq(Parts) /\ Len(u) = k /\ k < Len(E) /\ block \in Parts
        /\ v = Append(u, block)
    BY <1>0, <1>1, <1>4, SubSeqGrows
  <2>2. sum = pre \o (A \o u) /\ plan = pre \o (A \o E) /\ SumAt(k + 1, g) = pre \o (A \o v)
    BY <1>1, <1>3
  <2> HIDE DEF u, v, sum, plan
  <2>3. Len(sum) < Len(plan) /\ plan[Len(sum) + 1] = block
    <3>1. /\ pre \in Seq(Parts) /\ A \in Seq(Parts) /\ E \in Seq(Parts) /\ u \in Seq(Parts)
          /\ k \in Nat /\ Len(u) = k /\ k < Len(E) /\ block = E[k + 1]
          /\ sum = pre \o (A \o u) /\ plan = pre \o (A \o E)
      BY <1>1, <1>2, <1>4, <2>1, <2>2
    <3> QED BY <3>1, SumGoesOn
  <2>4. pre \o (A \o v) = Append(sum, block)
    <3> DEFINE t == A \o u
    <3>1. A \o Append(u, block) = Append(t, block) /\ t \in Seq(Parts)
      BY <1>1, <2>1, ConcatAppend
    <3> HIDE DEF t
    <3>2. pre \in Seq(Parts) /\ t \in Seq(Parts) /\ block \in Parts
      BY <1>1, <2>1, <3>1
    <3>3. pre \o Append(t, block) = Append(pre \o t, block)
      BY <3>2, ConcatAppend
    <3> QED BY <2>1, <2>2, <3>1, <3>3 DEF t
  <2> QED BY <2>2, <2>3, <2>4 DEF sum, plan
<1> QED BY <1>5 DEF block, b, S

\* The same of what the scratch of the sm120 kernel holds.
LEMMA Sums ==
  ASSUME Routed, NEW g \in Nat, Len(routes) = g + 1
  PROVE  /\ routes[g + 1] \in SUBSET Blocks /\ routes[g + 1] \subseteq Members(g)
         /\ scratch.exact = InOrder(routes[g + 1])
         /\ Len(scratch.exact) = Cardinality(routes[g + 1])
         /\ Exacts(routes[g + 1]) \in Seq(Parts) /\ Len(Exacts(routes[g + 1])) = Len(scratch.exact)
         /\ PlanOf(SubSeq(routes, 1, g)) \in Seq(Parts)
         /\ Promise!ApproximateParts(g, routes[g + 1]) \in Seq(Parts)
         /\ PlanOf(routes) = PlanOf(SubSeq(routes, 1, g)) \o
              (Promise!ApproximateParts(g, routes[g + 1]) \o Exacts(routes[g + 1]))
         /\ SumAt(-1, g) = PlanOf(SubSeq(routes, 1, g))
         /\ SumAt(-1, g + 1) = PlanOf(routes)
         /\ SumAt(Len(scratch.exact), g) = PlanOf(routes)
<1> DEFINE S == routes[g + 1]
<1>1. Ordered
  BY DEF Routed, Ordered
<1>2. S \in SUBSET Blocks
  BY <1>1, OrderedSums
<1>3. scratch.exact = InOrder(S)
  <2>1. routes # <<>>
    OBVIOUS
  <2> QED BY <2>1 DEF Routed
<1> HIDE DEF S
<1>4. Len(scratch.exact) = Cardinality(S)
  BY <1>2, <1>3, BlockSets, Listed
<1> QED BY <1>1, <1>3, <1>4, OrderedSums DEF S

\* The rest of a group, where it is not empty, is the next part of the plan.
LEMMA SumOfRest ==
  ASSUME Alone, Routed, NEW g \in Nat, Len(routes) = g + 1
  PROVE  LET S == routes[g + 1]
             rest == PartOf(Promise!KMeans(g), Promise!VMeans(g), Members(g) \ S)
         IN  IF S = Members(g) THEN SumAt(0, g) = SumAt(-1, g)
             ELSE /\ Len(SumAt(-1, g)) < Len(Promise!Plan)
                  /\ Promise!Plan[Len(SumAt(-1, g)) + 1] = rest
                  /\ SumAt(0, g) = Append(SumAt(-1, g), rest)
<1>1. Ordered
  BY DEF Routed, Ordered
<1> QED BY <1>1, RestIsNext

\* The next exact block is the next part of the plan.
LEMMA SumOfBlock ==
  ASSUME Alone, Routed, NEW g \in Nat, Len(routes) = g + 1, NEW k \in 0 .. Len(scratch.exact) - 1
  PROVE  LET b == scratch.exact[k + 1]
             block == PartOf(Promise!KBlocks({b}), Promise!VBlocks({b}), {b})
         IN  /\ Len(SumAt(k, g)) < Len(Promise!Plan)
             /\ Promise!Plan[Len(SumAt(k, g)) + 1] = block
             /\ SumAt(k + 1, g) = Append(SumAt(k, g), block)
<1>1. Ordered
  BY DEF Routed, Ordered
<1>2. /\ scratch.exact = InOrder(routes[g + 1])
      /\ Len(scratch.exact) = Cardinality(routes[g + 1])
  BY Sums
<1> QED BY <1>1, <1>2, BlockIsNext

\* A warp that makes its next addition takes a step of the promise.
LEMMA Takes ==
  ASSUME NEW w \in Warps, NEW part, DOMAIN taken = Warps, taken = [v \in Warps |-> taken[v]],
         Len(taken[w]) < Len(Promise!Plan), Promise!Plan[Len(taken[w]) + 1] = part,
         taken' = [taken EXCEPT ![w] = Append(taken[w], part)],
         UNCHANGED <<job, routes, stored>>
  PROVE  Promise!Next
<1>1. {w} \in SUBSET Warps
  OBVIOUS
<1>2. Promise!Take({w})
  BY DEF Promise!Take
<1> QED BY <1>1, <1>2 DEF Promise!Next(* FlattenSeq, which joins a sequence of sequences, and sums of lengths.     *)

\* What a step of a warp, which goes to l with registers r, does to the pipelines.
Streams(p, q, w, read0, read1, issued0, issued1, tile) ==
  \/ Rests(p, q) /\ read1 = read0 /\ (w = Producer => issued1 = issued0)
  \/ Begins(p, q, w) /\ read1 = read0 + 1 /\ (w = Producer => issued1 = issued0)
  \/ w = Producer /\ Fills(p, q, tile) /\ read1 = read0 /\ issued1 = issued0 + 1

KStep(w, l, r) ==
  LET n == Len(scratch.exact) IN
  Streams(K, K', w, KRead(pc[w], reg[w], n), KRead(l, r, n),
          KIssued(pc[w], reg[w], n), KIssued(l, r, n), KTile(KIssued(l, r, n)))

VStep(w, l, r) ==
  LET n == Len(scratch.exact) IN
  Streams(V, V', w, VRead(pc[w], reg[w], n), VRead(l, r, n),
          VIssued(pc[w], reg[w], n), VIssued(l, r, n), VTile(VIssued(l, r, n)))

\* A step of a warp that goes to l with registers r and decides nothing.
WarpMoves(w, l, r) ==
  /\ pc' = [pc EXCEPT ![w] = l] /\ reg' = [reg EXCEPT ![w] = r]
  /\ UNCHANGED <<job, routes>> /\ scratch'.exact = scratch.exact /\ scratch'.group = scratch.group
  /\ l # "decide" /\ pc[w] # "decide"

\* After such a step that adds what it should, the second invariant holds.
LEMMA WarpFollows ==
  ASSUME Typed, Follows, NEW w \in Warps, NEW l, NEW r \in Registers, WarpMoves(w, l, r),
         HoldsAt(l, r), taken' = [taken EXCEPT ![w] = SumAt(AddedAt(l, r), r.group)],
         KStep(w, l, r), VStep(w, l, r)
  PROVE  Follows'
<1> USE ProducerAssumption
<1> DEFINE n == Len(scratch.exact)
<1>1. /\ pc'[w] = l /\ reg'[w] = r
      /\ \A v \in Warps \ {w} : pc'[v] = pc[v] /\ reg'[v] = reg[v]
  BY DEF Typed, WarpMoves
<1>2. /\ routes' = routes /\ scratch'.exact = scratch.exact /\ scratch'.group = scratch.group
      /\ job' = job
  BY DEF WarpMoves
<1>3. n \in Nat /\ \A v \in Warps : reg[v] \in Registers
  <2> DEFINE B == 0 .. NumBlocks - 1
  <2>1. scratch.exact \in Seq(B)
    BY DEF Typed
  <2> HIDE DEF B
  <2> QED BY <2>1 DEF Typed
<1>4. Routed'
  BY <1>2 DEF Follows, Routed, Blocks
<1>5. Added'
  <2> DEFINE sum(v) == SumAt(AddedAt(pc[v], reg[v]), reg[v].group)
  <2>1. ASSUME NEW v \in Warps
        PROVE  sum(v)' = IF v = w THEN SumAt(AddedAt(l, r), r.group) ELSE sum(v)
    BY <1>1, <1>2 DEF SumAt
  <2>2. taken = [v \in Warps |-> sum(v)]
    BY DEF Follows, Added
  <2> HIDE DEF sum
  <2>3. taken' = [v \in Warps |-> sum(v)']
    BY <2>1, <2>2
  <2> QED BY <2>3 DEF Added, sum
<1>6. Holds'
  BY <1>1, <1>2 DEF Follows, Holds, HoldsAt
<1>7. Decision' = Decision
  BY <1>1, <1>2 DEF Decision, WarpMoves
<1>8. \A k : KTile(k)' = KTile(k) /\ VTile(k)' = VTile(k)
  BY <1>2, <1>7 DEF KTile, VTile
<1>9. KReads'
  <2> DEFINE f == [v \in Warps |-> KRead(pc[v], reg[v], n)]
             g == [v \in Warps |-> KRead(pc'[v], reg'[v], n)]
             i == KIssued(pc[Producer], reg[Producer], n)
             j == KIssued(pc'[Producer], reg'[Producer], n)
  <2>1. Reads(K, f, i, KTile(i))
    BY DEF Follows, KReads
  <2>2. i \in Int /\ j \in Int
    BY <1>1, <1>3, Counts
  <2>3. \A v \in Warps \ {w} : g[v] = f[v]
    BY <1>1
  <2>4. f[w] = KRead(pc[w], reg[w], n) /\ g[w] = KRead(l, r, n)
    BY <1>1
  <2>5. w # Producer => i = j
    BY <1>1
  <2>6. w = Producer => i = KIssued(pc[w], reg[w], n) /\ j = KIssued(l, r, n)
    BY <1>1
  <2>7. Streams(K, K', w, f[w], g[w], KIssued(pc[w], reg[w], n), KIssued(l, r, n), KTile(KIssued(l, r, n)))
    BY <2>4 DEF KStep
  <2> HIDE DEF f, g, i, j, n
  <2>8. \/ Rests(K, K') /\ g[w] = f[w] /\ j = i /\ KTile(j) = KTile(i)
        \/ Begins(K, K', w) /\ g[w] = f[w] + 1 /\ j = i /\ KTile(j) = KTile(i)
        \/ Fills(K, K', KTile(j)) /\ g[w] = f[w] /\ j = i + 1
    BY <2>5, <2>6, <2>7 DEF Streams
  <2>9. Reads(K', g, j, KTile(j))
    BY <2>1, <2>2, <2>3, <2>8, ReadsGo
  <2> QED BY <1>2, <1>8, <2>9 DEF KReads, g, j, n, Reads, Unread, Newest
<1>10. VReads'
  <2> DEFINE f == [v \in Warps |-> VRead(pc[v], reg[v], n)]
             g == [v \in Warps |-> VRead(pc'[v], reg'[v], n)]
             i == VIssued(pc[Producer], reg[Producer], n)
             j == VIssued(pc'[Producer], reg'[Producer], n)
  <2>1. Reads(V, f, i, VTile(i))
    BY DEF Follows, VReads
  <2>2. i \in Int /\ j \in Int
    BY <1>1, <1>3, Counts
  <2>3. \A v \in Warps \ {w} : g[v] = f[v]
    BY <1>1
  <2>4. f[w] = VRead(pc[w], reg[w], n) /\ g[w] = VRead(l, r, n)
    BY <1>1
  <2>5. w # Producer => i = j
    BY <1>1
  <2>6. w = Producer => i = VIssued(pc[w], reg[w], n) /\ j = VIssued(l, r, n)
    BY <1>1
  <2>7. Streams(V, V', w, f[w], g[w], VIssued(pc[w], reg[w], n), VIssued(l, r, n), VTile(VIssued(l, r, n)))
    BY <2>4 DEF VStep
  <2> HIDE DEF f, g, i, j, n
  <2>8. \/ Rests(V, V') /\ g[w] = f[w] /\ j = i /\ VTile(j) = VTile(i)
        \/ Begins(V, V', w) /\ g[w] = f[w] + 1 /\ j = i /\ VTile(j) = VTile(i)
        \/ Fills(V, V', VTile(j)) /\ g[w] = f[w] /\ j = i + 1
    BY <2>5, <2>6, <2>7 DEF Streams
  <2>9. Reads(V', g, j, VTile(j))
    BY <2>1, <2>2, <2>3, <2>8, ReadsGo
  <2> QED BY <1>2, <1>8, <2>9 DEF VReads, g, j, n, Reads, Unread, Newest
<1> QED BY <1>4, <1>5, <1>6, <1>9, <1>10 DEF Follows(* FlattenSeq, which joins a sequence of sequences, and sums of lengths.     *)

\* A step follows the promise, unless it races.
Goes == (~raced' => Follows') /\ [Promise!Next]_(Promise!promiseVars)

\* What the second invariant says of one warp.
LEMMA At ==
  ASSUME Typed, Control, Follows, NEW w \in Warps
  PROVE  /\ reg[w] \in Registers /\ reg[w].group \in Nat /\ reg[w].count \in Nat
         /\ reg[w].ordinal \in Nat /\ Len(scratch.exact) \in Nat
         /\ PlacedAt(w, pc[w], reg[w]) /\ CountedAt(pc[w], reg[w]) /\ HoldsAt(pc[w], reg[w])
         /\ scratch.group \in Int /\ Len(routes) = scratch.group + 1
         /\ pc[w] \notin Deciding =>
              scratch.group = IF pc[w] \in Adding THEN reg[w].group ELSE reg[w].group - 1
         /\ taken[w] = SumAt(AddedAt(pc[w], reg[w]), reg[w].group)
<1>1. taken[w] = SumAt(AddedAt(pc[w], reg[w]), reg[w].group)
  BY DEF Follows, Added
<1>2. ASSUME pc[w] \notin Deciding
      PROVE  scratch.group = IF pc[w] \in Adding THEN reg[w].group ELSE reg[w].group - 1
  <2>1. pc[Producer] # "syncRoute" /\ Rounds(w) = Rounds(Producer)
    BY <1>2, SameStage DEF Control, Together, Deciding
  <2>2. scratch.group = Rounds(w) - 1
    BY <2>1 DEF Control, Decided
  <2> QED BY <2>2, Here DEF Round
<1> QED BY <1>1, <1>2, Here DEF Follows, Routed, Holds

\* A step of a warp that adds nothing.
LEMMA WarpGoesOn ==
  ASSUME Typed, Follows, NEW w \in Warps, NEW l, NEW r \in Registers, WarpMoves(w, l, r),
         HoldsAt(l, r), UNCHANGED <<taken, stored>>,
         SumAt(AddedAt(l, r), r.group) = SumAt(AddedAt(pc[w], reg[w]), reg[w].group),
         KStep(w, l, r), VStep(w, l, r)
  PROVE  Goes
<1>1. taken' = [taken EXCEPT ![w] = SumAt(AddedAt(l, r), r.group)]
  BY DEF Follows, Added
<1>2. Follows'
  BY <1>1, WarpFollows
<1> QED BY <1>2 DEF Goes, Promise!promiseVars, WarpMoves

\* A pipeline that is left alone, or of which a stage is released, rests.
LEMMA KRests ==
  ASSUME NEW w \in Warps, NEW l, NEW r, Rests(K, K'),
         LET n == Len(scratch.exact) IN
           /\ KRead(l, r, n) = KRead(pc[w], reg[w], n)
           /\ w = Producer => KIssued(l, r, n) = KIssued(pc[w], reg[w], n)
  PROVE  KStep(w, l, r)
BY DEF KStep, Streams

\* The same of the V pipeline.
LEMMA VRests ==
  ASSUME NEW w \in Warps, NEW l, NEW r, Rests(V, V'),
         LET n == Len(scratch.exact) IN
           /\ VRead(l, r, n) = VRead(pc[w], reg[w], n)
           /\ w = Producer => VIssued(l, r, n) = VIssued(pc[w], reg[w], n)
  PROVE  VStep(w, l, r)
BY DEF VStep, Streams

\* A pipeline that is left alone rests.
LEMMA Alike == \A p : Rests(p, p)
BY DEF Rests

\* A warp has its queries.
LEMMA LoadQGoes ==
  ASSUME Typed, Control, Follows, NEW w \in Warps, LoadQ(w)
  PROVE  Goes
<1> USE ProducerAssumption
<1> DEFINE l == Top(w, 0)
<1>1. ~(w = Producer /\ Q # "Q")
  BY DEF LoadQ, Control, Fresh, Before
<1>2. /\ pc[w] = "loadQ" /\ pc' = [pc EXCEPT ![w] = l]
      /\ UNCHANGED <<job, reg, K, V, scratch, routes, taken, stored>>
  BY <1>1 DEF LoadQ, Goto, pipes, memory, results
<1>3. l \in {"epilogue", "routeK", "scoreRoute"} /\ (w = Producer => l \in {"epilogue", "routeK"})
  BY Sizes DEF Top
<1> HIDE DEF l
<1>4. WarpMoves(w, l, reg[w])
  BY <1>2, <1>3, SameRegisters DEF WarpMoves
<1>5. Len(scratch.exact) = 0
  <2>1. Len(routes) = 0
    BY <1>2, At DEF PlacedAt, Before, Deciding, Adding
  <2>2. routes = <<>>
    <3> DEFINE B == SUBSET Blocks
    <3>1. routes \in Seq(B)
      BY DEF Follows, Routed
    <3> HIDE DEF B
    <3> QED BY <2>1, <3>1
  <2> QED BY <2>2 DEF Follows, Routed
<1>6. HoldsAt(l, reg[w])
  BY <1>3 DEF HoldsAt, Exacting, Deciding
<1>7. AddedAt(l, reg[w]) = AddedAt(pc[w], reg[w])
  BY <1>2, <1>3 DEF AddedAt
<1>8. KStep(w, l, reg[w])
  BY <1>2, <1>3, <1>5, KRests, Alike DEF KRead, KIssued, Deciding
<1>9. VStep(w, l, reg[w])
  BY <1>2, <1>3, <1>5, VRests, Alike DEF VRead, VIssued, Deciding, Exacting
<1> QED BY <1>2, <1>4, <1>6, <1>7, <1>8, <1>9, At, WarpGoesOn(* FlattenSeq, which joins a sequence of sequences, and sums of lengths.     *)

\* A group's means are fetched, unless they are there.
LEMMA RouteKGoes ==
  ASSUME Typed, Pipes, Control, Follows, RouteK
  PROVE  Goes
<1> USE ProducerAssumption
<1> DEFINE g == reg[Producer].group
           n == Len(scratch.exact)
           r == reg[Producer]
<1>1. /\ pc[Producer] = "routeK" /\ pc' = [pc EXCEPT ![Producer] = "routeV"]
      /\ UNCHANGED <<job, reg, V, scratch, routes, taken, stored>>
      /\ IF g = 0 \/ scratch.exact = <<>> THEN IssueK(Promise!KMeans(g)) ELSE K' = K
  BY DEF RouteK, Step, Goto, memory, results
<1>2. WarpMoves(Producer, "routeV", r)
  BY <1>1, SameRegisters DEF WarpMoves
<1>3. g \in Nat /\ g < NumGroups /\ scratch.group = g - 1 /\ n \in Nat /\ r \in Registers
  BY <1>1, At DEF PlacedAt, Before, Ending, Deciding, Adding
<1>4. g = 0 \/ scratch.exact = <<>> <=> n = 0
  <2>1. g = 0 => routes = <<>>
    <3> DEFINE B == SUBSET Blocks
    <3>1. routes \in Seq(B) /\ Len(routes) = scratch.group + 1
      BY DEF Follows, Routed
    <3> HIDE DEF B
    <3> QED BY <1>3, <3>1
  <2>2. g = 0 => scratch.exact = <<>>
    BY <2>1 DEF Follows, Routed
  <2>3. scratch.exact = <<>> <=> n = 0
    <3> DEFINE B == 0 .. NumBlocks - 1
    <3>1. scratch.exact \in Seq(B)
      BY DEF Typed
    <3> HIDE DEF B
    <3> QED BY <3>1
  <2> QED BY <2>2, <2>3
<1>5. /\ KRead("routeV", r, n) = n /\ KRead("routeK", r, n) = n
      /\ KIssued("routeV", r, n) = n + 1 /\ KIssued("routeK", r, n) = IF n > 0 THEN n + 1 ELSE 0
  BY DEF KRead, KIssued, Deciding
<1>6. KStep(Producer, "routeV", r)
  <2>1. CASE n = 0
    <3>1. Fills(K, K', Promise!KMeans(g))
      BY <1>1, <1>3, <1>4, <2>1, KStreams, Means
    <3>2. KTile(n + 1) = Promise!KMeans(g)
      BY <1>3 DEF KTile
    <3> HIDE DEF g, n, r
    <3> QED BY <1>1, <1>5, <2>1, <3>1, <3>2 DEF KStep, Streams, n, r
  <2>2. CASE n # 0
    BY <1>1, <1>3, <1>4, <1>5, <2>2, KRests, Alike
  <2> QED BY <2>1, <2>2
<1>7. VStep(Producer, "routeV", r)
  BY <1>1, VRests, Alike DEF VRead, VIssued, Deciding, Exacting
<1>8. HoldsAt("routeV", r) /\ AddedAt("routeV", r) = AddedAt("routeK", r)
  BY DEF HoldsAt, AddedAt, Exacting, Deciding
<1> QED BY <1>1, <1>2, <1>3, <1>6, <1>7, <1>8, WarpGoesOn

\* The means of its values are fetched.
LEMMA RouteVGoes ==
  ASSUME Typed, Pipes, Control, Follows, RouteV
  PROVE  Goes
<1> USE ProducerAssumption
<1> DEFINE g == reg[Producer].group
           n == Len(scratch.exact)
           r == reg[Producer]
<1>1. /\ pc[Producer] = "routeV" /\ pc' = [pc EXCEPT ![Producer] = "scoreRoute"]
      /\ UNCHANGED <<job, reg, K, scratch, routes, taken, stored>> /\ IssueV(Promise!VMeans(g))
  BY DEF RouteV, Step, Goto, memory, results
<1>2. WarpMoves(Producer, "scoreRoute", r)
  BY <1>1, SameRegisters DEF WarpMoves
<1>3. g \in Nat /\ g < NumGroups /\ scratch.group = g - 1 /\ n \in Nat /\ r \in Registers
  BY <1>1, At DEF PlacedAt, Before, Ending, Deciding, Adding
<1>4. /\ VRead("scoreRoute", r, n) = n /\ VRead("routeV", r, n) = n
      /\ VIssued("scoreRoute", r, n) = n + 1 /\ VIssued("routeV", r, n) = n
  BY <1>3 DEF VRead, VIssued, Deciding, Exacting
<1>5. VStep(Producer, "scoreRoute", r)
  <2>1. Fills(V, V', Promise!VMeans(g))
    BY <1>1, <1>3, VStreams, Means
  <2>2. VTile(n + 1) = Promise!VMeans(g)
    BY <1>3 DEF VTile
  <2> HIDE DEF g, n, r
  <2> QED BY <1>1, <1>3, <1>4, <2>1, <2>2 DEF VStep, Streams, n, r
<1>6. KStep(Producer, "scoreRoute", r)
  BY <1>1, KRests, Alike DEF KRead, KIssued, Deciding
<1>7. HoldsAt("scoreRoute", r) /\ AddedAt("scoreRoute", r) = AddedAt("routeV", r)
  BY DEF HoldsAt, AddedAt, Exacting, Deciding
<1> QED BY <1>1, <1>2, <1>3, <1>5, <1>6, <1>7, WarpGoesOn

\* The tile that a warp waits for is the next that it has to read.
LEMMA KNext ==
  ASSUME Typed, Follows, NEW w \in Warps, Begins(K, K', w)
  PROVE  K.content = KTile(KRead(pc[w], reg[w], Len(scratch.exact)) + 1)
<1> USE ProducerAssumption
<1> DEFINE n == Len(scratch.exact)
           i == KIssued(pc[Producer], reg[Producer], n)
           read == [v \in Warps |-> KRead(pc[v], reg[v], n)]
<1>1. i \in Int
  <2>1. n \in Nat
    <3> DEFINE B == 0 .. NumBlocks - 1
    <3>1. scratch.exact \in Seq(B)
      BY DEF Typed
    <3> HIDE DEF B
    <3> QED BY <3>1
  <2> QED BY <2>1, Counts DEF Typed
<1>2. Reads(K, read, i, KTile(i)) /\ read[w] = KRead(pc[w], reg[w], n)
  BY DEF Follows, KReads
<1> HIDE DEF n, i, read
<1>3. read[w] = i - 1 /\ K.content = KTile(i)
  BY <1>2 DEF Reads, Begins
<1>4. read[w] + 1 = i
  BY <1>1, <1>3
<1> QED BY <1>2, <1>3, <1>4 DEF n

\* So are the values.
LEMMA VNext ==
  ASSUME Typed, Follows, NEW w \in Warps, Begins(V, V', w)
  PROVE  V.content = VTile(VRead(pc[w], reg[w], Len(scratch.exact)) + 1)
<1> USE ProducerAssumption
<1> DEFINE n == Len(scratch.exact)
           i == VIssued(pc[Producer], reg[Producer], n)
           read == [v \in Warps |-> VRead(pc[v], reg[v], n)]
<1>1. i \in Int
  <2>1. n \in Nat
    <3> DEFINE B == 0 .. NumBlocks - 1
    <3>1. scratch.exact \in Seq(B)
      BY DEF Typed
    <3> HIDE DEF B
    <3> QED BY <3>1
  <2> QED BY <2>1, Counts DEF Typed
<1>2. Reads(V, read, i, VTile(i)) /\ read[w] = VRead(pc[w], reg[w], n)
  BY DEF Follows, VReads
<1> HIDE DEF n, i, read
<1>3. read[w] = i - 1 /\ V.content = VTile(i)
  BY <1>2 DEF Reads, Begins
<1>4. read[w] + 1 = i
  BY <1>1, <1>3
<1> QED BY <1>2, <1>3, <1>4 DEF n(* FlattenSeq, which joins a sequence of sequences, and sums of lengths.     *)

\* A warp scores the stage.
LEMMA ScoreGoes ==
  ASSUME Typed, Pipes, Control, Follows, NEW w \in Warps, ScoreRoute(w) \/ ScoreExact(w)
  PROVE  Goes
<1> USE ProducerAssumption
<1> DEFINE n == Len(scratch.exact)
           l == IF pc[w] = "scoreRoute" THEN "reduceRoute" ELSE "releaseK"
           r == [reg[w] EXCEPT !.score = K.content]
<1>1. /\ pc[w] \in {"scoreRoute", "scoreExact"} /\ KReady(w) /\ K' = Begun(K, w)
      /\ pc' = [pc EXCEPT ![w] = l] /\ reg' = [reg EXCEPT ![w] = r]
      /\ UNCHANGED <<job, V, scratch, routes, taken, stored>>
  BY DEF ScoreRoute, ScoreExact, Score, Step, Goto, memory, results
<1>2. K.content \in Tiles \union {None}
  BY Fields
<1>3. /\ r \in Registers /\ r.group = reg[w].group /\ r.count = reg[w].count
      /\ r.ordinal = reg[w].ordinal /\ r.block = reg[w].block /\ r.score = K.content
  BY <1>2, At DEF Registers
<1> HIDE DEF r
<1>4. WarpMoves(w, l, r)
  BY <1>1 DEF WarpMoves
<1>5. Begins(K, K', w)
  BY <1>1, KStreams DEF Control, Reading
<1>6. K.content = KTile(KRead(pc[w], reg[w], n) + 1)
  BY <1>5, KNext
<1>7. n \in Nat /\ reg[w].ordinal \in Nat /\ reg[w].group \in Nat
  BY At
<1>8. HoldsAt(l, r)
  <2>1. CASE pc[w] = "scoreRoute"
    <3>1. scratch.group = reg[w].group - 1
      BY <2>1, At DEF Deciding, Adding
    <3>2. KRead(pc[w], reg[w], n) = n
      BY <2>1 DEF KRead, Deciding
    <3>3. KTile(n + 1) = Promise!KMeans(reg[w].group)
      BY <1>7, <3>1 DEF KTile
    <3> QED BY <1>3, <1>6, <2>1, <3>2, <3>3 DEF HoldsAt, Exacting, Deciding
  <2>2. CASE pc[w] = "scoreExact"
    <3>1. reg[w].ordinal < n /\ reg[w].block = scratch.exact[reg[w].ordinal + 1]
      BY <2>2, At DEF HoldsAt, Exacting
    <3>2. KRead(pc[w], reg[w], n) = reg[w].ordinal
      BY <2>2 DEF KRead, Deciding
    <3>3. KTile(reg[w].ordinal + 1) = Promise!KBlocks({reg[w].block})
      BY <1>7, <3>1 DEF KTile
    <3> QED BY <1>3, <1>6, <2>2, <3>1, <3>2, <3>3 DEF HoldsAt, Exacting, Deciding
  <2> QED BY <1>1, <2>1, <2>2
<1>9. AddedAt(l, r) = AddedAt(pc[w], reg[w])
  BY <1>1, <1>3 DEF AddedAt
<1>10. KStep(w, l, r)
  <2>1. KRead(l, r, n) = KRead(pc[w], reg[w], n) + 1
    BY <1>1, <1>3 DEF KRead, Deciding
  <2>2. KIssued(l, r, n) = KIssued(pc[w], reg[w], n)
    BY <1>1, <1>3 DEF KIssued, Deciding
  <2> QED BY <1>5, <2>1, <2>2 DEF KStep, Streams
<1>11. VStep(w, l, r)
  BY <1>1, <1>3, VRests, Alike DEF VRead, VIssued, Deciding, Exacting
<1> QED BY <1>1, <1>3, <1>4, <1>8, <1>9, <1>10, <1>11, WarpGoesOn

\* A warp puts its sums into the scratch.
LEMMA ReduceRouteGoes ==
  ASSUME Typed, Pipes, Control, Follows, NEW w \in Warps, ReduceRoute(w)
  PROVE  Goes
<1> DEFINE r == reg[w]
<1>1. /\ pc[w] = "reduceRoute" /\ FreeK(w) /\ pc' = [pc EXCEPT ![w] = "syncSums"]
      /\ UNCHANGED <<job, reg, V, routes, taken, stored>>
      /\ scratch' = [scratch EXCEPT !.sums[w] = reg[w].group]
  BY DEF ReduceRoute, Step, Goto, results
<1>2. scratch'.exact = scratch.exact /\ scratch'.group = scratch.group
  BY <1>1 DEF Typed
<1>3. WarpMoves(w, "syncSums", r)
  BY <1>1, <1>2, SameRegisters DEF WarpMoves
<1>4. Rests(K, K')
  BY <1>1, KStreams DEF FreeK
<1>5. KStep(w, "syncSums", r)
  BY <1>1, <1>4, KRests DEF KRead, KIssued, Deciding
<1>6. VStep(w, "syncSums", r)
  BY <1>1, VRests, Alike DEF VRead, VIssued, Deciding, Exacting
<1>7. HoldsAt("syncSums", r) /\ AddedAt("syncSums", r) = AddedAt("reduceRoute", r)
  BY <1>1, At DEF HoldsAt, AddedAt, Exacting, Deciding
<1> QED BY <1>1, <1>3, <1>5, <1>6, <1>7, At, WarpGoesOn

\* A race ends what is claimed, and changes nothing that is promised.
LEMMA RaceGoes == ASSUME NEW w, Race(w) PROVE Goes
BY DEF Race, Goes, results, Promise!promiseVars

\* A warp learns how many exact blocks the group has.
LEMMA ReadCountGoes ==
  ASSUME Typed, Pipes, Control, Follows, NEW w \in Warps, ReadCount(w)
  PROVE  Goes
<1> USE ProducerAssumption
<1> DEFINE n == Len(scratch.exact)
           l == IF w = Producer /\ n > 0 THEN "firstK" ELSE "approximate"
           r == [reg[w] EXCEPT !.count = n]
<1>1. CASE Race(w)
  BY <1>1, RaceGoes
<1>2. CASE ~Race(w)
  <2>1. /\ pc[w] = "count" /\ pc' = [pc EXCEPT ![w] = l] /\ reg' = [reg EXCEPT ![w] = r]
        /\ UNCHANGED <<job, K, V, scratch, routes, taken, stored>>
    BY <1>2 DEF ReadCount, Goto, pipes, memory, results
  <2>2. /\ r \in Registers /\ r.group = reg[w].group /\ r.score = reg[w].score
        /\ n \in Nat
    BY At DEF Registers
  <2> HIDE DEF r
  <2>3. WarpMoves(w, l, r)
    BY <2>1 DEF WarpMoves
  <2>4. HoldsAt(l, r)
    <3>1. r.score = Promise!KMeans(r.group)
      BY <2>1, <2>2, At DEF HoldsAt
    <3> QED BY <3>1 DEF HoldsAt, Exacting, Deciding
  <2>5. AddedAt(l, r) = AddedAt(pc[w], reg[w])
    BY <2>1 DEF AddedAt
  <2>6. KStep(w, l, r)
    BY <2>1, <2>2, KRests, Alike DEF KRead, KIssued, Deciding
  <2>7. VStep(w, l, r)
    BY <2>1, <2>2, VRests, Alike DEF VRead, VIssued, Deciding, Exacting
  <2> QED BY <2>1, <2>2, <2>3, <2>4, <2>5, <2>6, <2>7, WarpGoesOn
<1> QED BY <1>1, <1>2

\* The first exact block's keys are fetched.
LEMMA FirstKGoes ==
  ASSUME Typed, Pipes, Control, Follows, FirstK
  PROVE  Goes
<1> USE ProducerAssumption
<1> DEFINE n == Len(scratch.exact)
           r == reg[Producer]
<1>1. /\ pc[Producer] = "firstK" /\ pc' = [pc EXCEPT ![Producer] = "approximate"]
      /\ UNCHANGED <<job, reg, V, scratch, routes, taken, stored>>
      /\ IssueK(Promise!KBlocks({scratch.exact[1]}))
  BY DEF FirstK, Step, Goto, memory, results
<1>2. WarpMoves(Producer, "approximate", r)
  BY <1>1, SameRegisters DEF WarpMoves
<1>3. 1 \in 1 .. n /\ n > 0 /\ r \in Registers
  BY <1>1, At DEF CountedAt, Adding
<1>4. KStep(Producer, "approximate", r)
  <2>1. Fills(K, K', Promise!KBlocks({scratch.exact[1]}))
    BY <1>1, <1>3, KStreams, Exact
  <2>2. KTile(1) = Promise!KBlocks({scratch.exact[1]})
    BY <1>3 DEF KTile
  <2>3. /\ KRead("approximate", r, n) = 0 /\ KRead("firstK", r, n) = 0
        /\ KIssued("approximate", r, n) = 1 /\ KIssued("firstK", r, n) = 0
    BY <1>3 DEF KRead, KIssued, Deciding
  <2> HIDE DEF n, r
  <2> QED BY <1>1, <2>1, <2>2, <2>3 DEF KStep, Streams, n, r
<1>5. VStep(Producer, "approximate", r)
  BY <1>1, VRests, Alike DEF VRead, VIssued, Deciding, Exacting
<1>6. HoldsAt("approximate", r) /\ AddedAt("approximate", r) = AddedAt("firstK", r)
  BY <1>1, At DEF HoldsAt, AddedAt, Exacting, Deciding
<1> QED BY <1>1, <1>2, <1>3, <1>4, <1>5, <1>6, WarpGoesOn(* FlattenSeq, which joins a sequence of sequences, and sums of lengths.     *)

\* A step of a warp that adds its next part.
LEMMA WarpAdds ==
  ASSUME Typed, Follows, NEW w \in Warps, NEW l, NEW r \in Registers, WarpMoves(w, l, r),
         HoldsAt(l, r), KStep(w, l, r), VStep(w, l, r), UNCHANGED stored,
         NEW part, Len(taken[w]) < Len(Promise!Plan), Promise!Plan[Len(taken[w]) + 1] = part,
         taken' = [taken EXCEPT ![w] = Append(taken[w], part)],
         SumAt(AddedAt(l, r), r.group) = Append(taken[w], part)
  PROVE  Goes
<1>1. DOMAIN taken = Warps /\ taken = [v \in Warps |-> taken[v]]
  BY DEF Follows, Added
<1>2. Promise!Next
  BY <1>1, Takes DEF WarpMoves
<1>3. Follows'
  BY WarpFollows
<1> QED BY <1>2, <1>3 DEF Goes

\* The blocks decided are those of the scratch.
LEMMA Exactly ==
  ASSUME Routed, NEW g \in Nat, Len(routes) = g + 1
  PROVE  /\ Range(scratch.exact) = routes[g + 1]
         /\ Cardinality(Members(g)) \in Nat
         /\ Len(scratch.exact) < Cardinality(Members(g)) <=> routes[g + 1] # Members(g)
<1> DEFINE S == routes[g + 1]
           M == Members(g)
           e == scratch.exact
<1>1. S \in SUBSET Blocks /\ S \subseteq M /\ e = InOrder(S) /\ Len(e) = Cardinality(S)
  BY Sums
<1>2. M \in SUBSET Blocks
  BY DEF Members, Promise!Members, Blocks, NumBlocks
<1> HIDE DEF S, M, e
<1>3. /\ e \in Seq(S) /\ \A x \in S : \E i \in 1 .. Len(e) : e[i] = x
      /\ Len(e) \in Nat
  BY <1>1, BlockSets, Listed
<1>4. Range(e) = S
  <2>1. DOMAIN e = 1 .. Len(e) /\ \A i \in 1 .. Len(e) : e[i] \in S
    BY <1>3
  <2> QED BY <1>3, <2>1 DEF Range
<1>5. IsFiniteSet(M) /\ Cardinality(M) \in Nat
  BY <1>2, BlockSets
<1>6. /\ Cardinality(S) <= Cardinality(M) /\ Cardinality(S) \in Nat
      /\ Cardinality(S) = Cardinality(M) => S = M
  BY <1>1, <1>5, FS_Subset, FS_CardinalityType
<1>7. Cardinality(S) < Cardinality(M) <=> S # M
  BY <1>5, <1>6
<1> QED BY <1>1, <1>4, <1>5, <1>7 DEF S, M, e

\* A warp adds the rest of the group.
LEMMA ApproximateGoes ==
  ASSUME Typed, Pipes, Control, Follows, Alone, NEW w \in Warps, Approximate(w)
  PROVE  Goes
<1> USE ProducerAssumption
<1> DEFINE n == Len(scratch.exact)
           r == reg[w]
           g == reg[w].group
           S == routes[g + 1]
           rest == Members(g) \ Range(scratch.exact)
           has == reg[w].count < Cardinality(Members(g))
           part == Promise!Part(r.score, V.content, rest, RouteMass(rest))
<1>1. CASE Race(w)
  BY <1>1, RaceGoes
<1>2. CASE ~Race(w)
  <2>1. /\ pc[w] = "approximate" /\ pc' = [pc EXCEPT ![w] = "releaseMeans"]
        /\ VReady(w) /\ V' = Begun(V, w)
        /\ taken' = IF has THEN [taken EXCEPT ![w] = Append(taken[w], part)] ELSE taken
        /\ UNCHANGED <<job, reg, K, scratch, routes, stored>>
    BY <1>2 DEF Approximate, Goto, memory, AddPart
  <2>2. WarpMoves(w, "releaseMeans", r)
    BY <2>1, SameRegisters DEF WarpMoves
  <2>3. /\ r \in Registers /\ g \in Nat /\ n \in Nat /\ scratch.group = g /\ Len(routes) = g + 1
        /\ reg[w].count = n /\ r.score = Promise!KMeans(g)
        /\ taken[w] = SumAt(-1, g)
    BY <2>1, At DEF CountedAt, HoldsAt, AddedAt, Adding, Deciding
  <2>4. Begins(V, V', w)
    BY <2>1, VStreams DEF Control, Reading
  <2>5. V.content = Promise!VMeans(g)
    <3>1. VRead(pc[w], r, n) = -1
      BY <2>1 DEF VRead
    <3>2. V.content = VTile(-1 + 1)
      BY <2>4, <3>1, VNext
    <3>3. pc[Producer] # "decide"
      BY <2>1, SameStage DEF Control, Deciding
    <3>4. VTile(0) = Promise!VMeans(g)
      BY <2>3, <3>3 DEF VTile, Decision
    <3> QED BY <3>2, <3>4
  <2>6. Range(scratch.exact) = S /\ (has <=> S # Members(g)) /\ S \subseteq Members(g)
    BY <2>3, Exactly, Sums DEF Follows
  <2>7. part = PartOf(Promise!KMeans(g), Promise!VMeans(g), Members(g) \ S)
    <3>1. rest \in SUBSET (0 .. NumBlocks - 1)
      BY DEF Members, Promise!Members, NumBlocks
    <3>2. RouteMass(rest) = Promise!MassOf(rest)
      BY <3>1, RouteMassIs
    <3> QED BY <2>3, <2>5, <2>6, <3>2 DEF PartOf
  <2>8. HoldsAt("releaseMeans", r) /\ AddedAt("releaseMeans", r) = 0
    BY DEF HoldsAt, AddedAt, Exacting, Deciding
  <2>9. KStep(w, "releaseMeans", r)
    BY <2>1, KRests, Alike DEF KRead, KIssued, Deciding
  <2>10. VStep(w, "releaseMeans", r)
    <3>1. VRead("releaseMeans", r, n) = VRead("approximate", r, n) + 1
      BY DEF VRead, Deciding
    <3>2. VIssued("releaseMeans", r, n) = VIssued("approximate", r, n)
      BY DEF VIssued, Deciding, Exacting
    <3> QED BY <2>1, <2>4, <3>1, <3>2 DEF VStep, Streams
  <2>11. CASE ~has
    <3>1. SumAt(0, g) = SumAt(-1, g)
      BY <2>3, <2>6, <2>11, SumOfRest DEF Follows
    <3>2. UNCHANGED <<taken, stored>>
      BY <2>1, <2>11
    <3>3. AddedAt(pc[w], reg[w]) = -1
      BY <2>1 DEF AddedAt
    <3> HIDE DEF r
    <3>4. SumAt(AddedAt("releaseMeans", r), r.group) = SumAt(AddedAt(pc[w], reg[w]), reg[w].group)
      BY <2>8, <3>1, <3>3 DEF r
    <3> QED BY <2>2, <2>3, <2>8, <2>9, <2>10, <3>2, <3>4, WarpGoesOn
  <2>12. CASE has
    <3> HIDE DEF part
    <3>1. /\ Len(taken[w]) < Len(Promise!Plan) /\ Promise!Plan[Len(taken[w]) + 1] = part
          /\ SumAt(0, g) = Append(taken[w], part)
      BY <2>3, <2>6, <2>7, <2>12, SumOfRest DEF Follows
    <3>2. taken' = [taken EXCEPT ![w] = Append(taken[w], part)] /\ UNCHANGED stored
      BY <2>1, <2>12
    <3>3. SumAt(AddedAt("releaseMeans", r), r.group) = Append(taken[w], part)
      BY <2>8, <3>1
    <3> QED BY <2>2, <2>3, <2>8, <2>9, <2>10, <3>1, <3>2, <3>3, WarpAdds
  <2> QED BY <2>11, <2>12
<1> QED BY <1>1, <1>2(* FlattenSeq, which joins a sequence of sequences, and sums of lengths.     *)

\* Where a warp has added all of a group that is decided, it is before the next.
LEMMA NextGroup ==
  ASSUME Follows, NEW g \in Nat, Len(routes) = g + 1
  PROVE  SumAt(Len(scratch.exact), g) = SumAt(-1, g + 1)
BY Sums DEF Follows

\* A warp goes on to the next exact block or to the next group.
LEMMA ProceedFollows ==
  ASSUME Typed, Control, Follows, NEW w \in Warps,
         pc[w] \in {"releaseMeans", "firstV", "releaseV", "nextV"},
         Proceed(w, AddedAt(pc[w], reg[w])),
         w = Producer /\ pc[w] = "releaseMeans" => reg[w].count = 0,
         w = Producer /\ pc[w] = "releaseV" => ~(reg[w].ordinal + 1 < reg[w].count)
  PROVE  \E l \in {"index", "routeK", "scoreRoute", "epilogue"}, r \in Registers :
           LET n == Len(scratch.exact) IN
           /\ pc' = [pc EXCEPT ![w] = l] /\ reg' = [reg EXCEPT ![w] = r]
           /\ HoldsAt(l, r)
           /\ SumAt(AddedAt(l, r), r.group) = SumAt(AddedAt(pc[w], reg[w]), reg[w].group)
           /\ KRead(l, r, n) = KRead(pc[w], reg[w], n)
           /\ VRead(l, r, n) = VRead(pc[w], reg[w], n)
           /\ w = Producer =>
                /\ KIssued(l, r, n) = KIssued(pc[w], reg[w], n)
                /\ VIssued(l, r, n) =
                     IF pc[w] \in {"firstV", "nextV"} THEN VIssued(pc[w], reg[w], n) + 1
                     ELSE VIssued(pc[w], reg[w], n)
<1> USE ProducerAssumption
<1> DEFINE n == Len(scratch.exact)
           m == AddedAt(pc[w], reg[w])
           g == reg[w].group
           k == reg[w].ordinal
<1>1. /\ reg[w] \in Registers /\ g \in Nat /\ k \in Nat /\ n \in Nat /\ reg[w].count = n
      /\ scratch.group = g /\ Len(routes) = g + 1 /\ g < NumGroups
      /\ pc[w] \in {"releaseV", "nextV"} => k < n
      /\ pc[w] = "firstV" => w = Producer /\ n > 0
      /\ pc[w] = "nextV" => w = Producer /\ k + 1 < n
  BY At DEF CountedAt, HoldsAt, PlacedAt, OfProducer, Exacting, Adding, Deciding, Before, Ending
<1>2. m = IF pc[w] \in {"releaseMeans", "firstV"} THEN 0 ELSE k + 1
  BY DEF AddedAt
<1>3. m \in Nat /\ m <= n
  BY <1>1, <1>2
<1>4. KRead(pc[w], reg[w], n) = m /\ VRead(pc[w], reg[w], n) = m
  BY <1>2 DEF KRead, VRead, Deciding
<1>5. CASE m < n
  <2> DEFINE r == [reg[w] EXCEPT !.ordinal = m]
  <2>1. r \in Registers /\ r.group = g /\ r.ordinal = m
    BY <1>1, <1>3 DEF Registers
  <2>2. pc' = [pc EXCEPT ![w] = "index"] /\ reg' = [reg EXCEPT ![w] = r]
    BY <1>1, <1>5 DEF Proceed, Goto
  <2> HIDE DEF r, m
  <2>3. HoldsAt("index", r)
    BY <1>5, <2>1 DEF HoldsAt, Exacting, Deciding
  <2>4. AddedAt("index", r) = m
    BY <2>1 DEF AddedAt
  <2>5. KRead("index", r, n) = m /\ VRead("index", r, n) = m
    BY <2>1 DEF KRead, VRead, Deciding
  <2>6. KIssued("index", r, n) = m + 1 /\ VIssued("index", r, n) = m + 1
    BY <2>1 DEF KIssued, VIssued, Deciding, Exacting
  <2>7. w = Producer => pc[w] \in {"firstV", "nextV"}
    BY <1>1, <1>2, <1>5
  <2>8. ASSUME w = Producer PROVE KIssued(pc[w], reg[w], n) = m + 1 /\ VIssued(pc[w], reg[w], n) = m
    <3>1. CASE pc[w] = "firstV"
      BY <1>1, <1>2, <3>1 DEF KIssued, VIssued, Deciding, Exacting
    <3>2. CASE pc[w] = "nextV"
      <4>1. ~(k + 1 = n) /\ (k + 1) + 1 = k + 2
        BY <1>1, <3>2
      <4> QED BY <1>1, <1>2, <3>2, <4>1 DEF KIssued, VIssued, Deciding, Exacting
    <3> QED BY <2>7, <2>8, <3>1, <3>2
  <2> QED BY <1>4, <2>1, <2>2, <2>3, <2>4, <2>5, <2>6, <2>7, <2>8 DEF m
<1>6. CASE ~(m < n)
  <2> DEFINE r == [reg[w] EXCEPT !.group = g + 1, !.ordinal = 0, !.count = 0]
             l == Top(w, g + 1)
  <2>1. pc' = [pc EXCEPT ![w] = l] /\ reg' = [reg EXCEPT ![w] = r]
    BY <1>1, <1>6 DEF Proceed, Goto
  <2>2. r \in Registers /\ r.group = g + 1
    <3> DEFINE a == [reg[w] EXCEPT !.group = g + 1]
               b == [a EXCEPT !.ordinal = 0]
               c == [b EXCEPT !.count = 0]
    <3>1. a \in Registers /\ a.group = g + 1
      BY <1>1 DEF Registers
    <3>2. r = c
      OBVIOUS
    <3> HIDE DEF r, a
    <3>3. b \in Registers /\ b.group = g + 1
      BY <3>1 DEF Registers
    <3> HIDE DEF b
    <3>4. c \in Registers /\ c.group = g + 1
      BY <3>3 DEF Registers
    <3> QED BY <3>2, <3>4
  <2>3. l = IF g + 1 = NumGroups THEN "epilogue" ELSE IF w = Producer THEN "routeK" ELSE "scoreRoute"
    <3>1. g + 1 \in Nat /\ g + 1 <= NumGroups
      BY <1>1, Sizes
    <3> QED BY <3>1, Tops
  <2>4. m = n
    BY <1>3, <1>6
  <2> HIDE DEF r, l, m
  <2>5. HoldsAt(l, r) /\ AddedAt(l, r) = -1
    BY <2>3 DEF HoldsAt, AddedAt, Exacting, Deciding
  <2>6. SumAt(-1, g + 1) = SumAt(m, g)
    BY <1>1, <2>4, NextGroup
  <2>7. KRead(l, r, n) = n /\ VRead(l, r, n) = n
    BY <2>3 DEF KRead, VRead, Deciding
  <2>8. pc[w] \in {"releaseMeans", "releaseV"}
    BY <1>1, <1>2, <2>4
  <2>9. ASSUME w = Producer
        PROVE  KIssued(l, r, n) = KIssued(pc[w], reg[w], n) /\ VIssued(l, r, n) = VIssued(pc[w], reg[w], n)
    <3>1. VIssued(l, r, n) = n
      BY <2>3, <2>9 DEF VIssued, Deciding, Exacting
    <3>2. KIssued(l, r, n) = IF g + 1 = NumGroups THEN n ELSE IF n > 0 THEN n + 1 ELSE 0
      BY <2>3, <2>9 DEF KIssued, Deciding
    <3>3. CASE pc[w] = "releaseMeans"
      <4>1. n = 0
        BY <1>2, <2>4, <3>3
      <4> QED BY <3>1, <3>2, <3>3, <4>1 DEF KIssued, VIssued, Deciding, Exacting
    <3>4. CASE pc[w] = "releaseV"
      <4>1. k + 1 = n /\ n > 0 /\ k + 2 = n + 1
        BY <1>1, <1>2, <2>4, <3>4
      <4>2. VIssued(pc[w], reg[w], n) = n
        BY <3>4, <4>1 DEF VIssued, Deciding, Exacting
      <4>3. KIssued(pc[w], reg[w], n) = IF g + 1 = NumGroups THEN n ELSE n + 1
        BY <3>4, <4>1 DEF KIssued, Deciding
      <4> QED BY <3>1, <3>2, <4>1, <4>2, <4>3
    <3> QED BY <2>8, <3>3, <3>4
  <2>10. l \in {"routeK", "scoreRoute", "epilogue"}
    BY <2>3
  <2> QED BY <1>4, <2>1, <2>2, <2>4, <2>5, <2>6, <2>7, <2>8, <2>9, <2>10 DEF m
<1> QED BY <1>5, <1>6

\* A warp has read the means or an exact block's values.
LEMMA ReleaseVGoes ==
  ASSUME Typed, Pipes, Control, Follows, NEW w \in Warps, ReleaseMeans(w) \/ ReleaseV(w)
  PROVE  Goes
<1> USE ProducerAssumption
<1> DEFINE n == Len(scratch.exact)
<1>1. /\ pc[w] \in {"releaseMeans", "releaseV"} /\ FreeV(w)
      /\ UNCHANGED <<job, K, scratch, routes, taken, stored>>
  BY DEF ReleaseMeans, ReleaseV, memory, results
<1>2. Rests(V, V')
  BY <1>1, VStreams DEF FreeV
<1>3. \E l \in {"firstV", "nextV", "index", "routeK", "scoreRoute", "epilogue"}, r \in Registers :
        /\ pc' = [pc EXCEPT ![w] = l] /\ reg' = [reg EXCEPT ![w] = r]
        /\ HoldsAt(l, r)
        /\ SumAt(AddedAt(l, r), r.group) = SumAt(AddedAt(pc[w], reg[w]), reg[w].group)
        /\ KRead(l, r, n) = KRead(pc[w], reg[w], n)
        /\ VRead(l, r, n) = VRead(pc[w], reg[w], n)
        /\ w = Producer =>
             /\ KIssued(l, r, n) = KIssued(pc[w], reg[w], n)
             /\ VIssued(l, r, n) = VIssued(pc[w], reg[w], n)
  <2> DEFINE l == IF pc[w] = "releaseMeans" THEN "firstV" ELSE "nextV"
             stays == w = Producer /\ IF pc[w] = "releaseMeans" THEN reg[w].count > 0
                                      ELSE reg[w].ordinal + 1 < reg[w].count
  <2>1. CASE stays
    <3>1. pc' = [pc EXCEPT ![w] = l] /\ reg' = [reg EXCEPT ![w] = reg[w]]
      BY <1>1, <2>1, SameRegisters DEF ReleaseMeans, ReleaseV, Goto
    <3>2. HoldsAt(l, reg[w]) /\ AddedAt(l, reg[w]) = AddedAt(pc[w], reg[w])
      BY <1>1, At DEF HoldsAt, AddedAt, Exacting, Deciding
    <3>3. /\ KRead(l, reg[w], n) = KRead(pc[w], reg[w], n)
          /\ VRead(l, reg[w], n) = VRead(pc[w], reg[w], n)
          /\ KIssued(l, reg[w], n) = KIssued(pc[w], reg[w], n)
          /\ VIssued(l, reg[w], n) = VIssued(pc[w], reg[w], n)
      BY <1>1 DEF KRead, VRead, KIssued, VIssued, Deciding, Exacting
    <3>4. reg[w] \in Registers
      BY At
    <3> QED BY <3>1, <3>2, <3>3, <3>4
  <2>2. CASE ~stays
    <3>1. Proceed(w, AddedAt(pc[w], reg[w]))
      BY <1>1, <2>2 DEF ReleaseMeans, ReleaseV, AddedAt
    <3>2. /\ w = Producer /\ pc[w] = "releaseMeans" => reg[w].count = 0
          /\ w = Producer /\ pc[w] = "releaseV" => ~(reg[w].ordinal + 1 < reg[w].count)
      BY <2>2, At
    <3> QED BY <1>1, <3>1, <3>2, ProceedFollows
  <2> QED BY <2>1, <2>2
<1>4. PICK l \in {"firstV", "nextV", "index", "routeK", "scoreRoute", "epilogue"}, r \in Registers :
        /\ pc' = [pc EXCEPT ![w] = l] /\ reg' = [reg EXCEPT ![w] = r]
        /\ HoldsAt(l, r)
        /\ SumAt(AddedAt(l, r), r.group) = SumAt(AddedAt(pc[w], reg[w]), reg[w].group)
        /\ KRead(l, r, n) = KRead(pc[w], reg[w], n)
        /\ VRead(l, r, n) = VRead(pc[w], reg[w], n)
        /\ w = Producer =>
             /\ KIssued(l, r, n) = KIssued(pc[w], reg[w], n)
             /\ VIssued(l, r, n) = VIssued(pc[w], reg[w], n)
  BY <1>3
<1>5. WarpMoves(w, l, r)
  BY <1>1, <1>4 DEF WarpMoves
<1>6. KStep(w, l, r)
  BY <1>1, <1>4, KRests, Alike
<1>7. VStep(w, l, r)
  BY <1>2, <1>4, VRests
<1> QED BY <1>1, <1>4, <1>5, <1>6, <1>7, WarpGoesOn(* FlattenSeq, which joins a sequence of sequences, and sums of lengths.     *)

\* The values of the first or the next exact block are fetched.
LEMMA FetchVGoes ==
  ASSUME Typed, Pipes, Control, Follows, FirstV \/ NextV
  PROVE  Goes
<1> USE ProducerAssumption
<1> DEFINE n == Len(scratch.exact)
           w == Producer
           i == VIssued(pc[w], reg[w], n)
<1>1. /\ pc[w] \in {"firstV", "nextV"} /\ Proceed(w, AddedAt(pc[w], reg[w]))
      /\ i = AddedAt(pc[w], reg[w])
      /\ UNCHANGED <<job, K, scratch, routes, taken, stored>>
  BY DEF FirstV, NextV, AddedAt, VIssued, Deciding, Exacting, memory, results
<1>2. PICK k \in 1 .. n : k = i + 1 /\ IssueV(Promise!VBlocks({scratch.exact[k]}))
  <2>1. CASE pc[w] = "firstV"
    <3>1. i = 0 /\ 1 \in 1 .. n
      BY <1>1, <2>1, At DEF AddedAt, CountedAt, Adding
    <3>2. IssueV(Promise!VBlocks({scratch.exact[1]}))
      BY <2>1 DEF FirstV, NextV
    <3>3. 1 = i + 1
      BY <3>1
    <3> HIDE DEF i
    <3> DEFINE found(k) == k = i + 1 /\ IssueV(Promise!VBlocks({scratch.exact[k]}))
    <3>4. found(1)
      BY <3>2, <3>3
    <3> HIDE DEF found
    <3>5. \E k \in 1 .. n : found(k)
      BY <3>1, <3>4
    <3> QED BY <3>5 DEF found
  <2>2. CASE pc[w] = "nextV"
    <3> DEFINE next == reg[w].ordinal + 1
    <3>1. i = next /\ next + 1 \in 1 .. n
      BY <1>1, <2>2, At DEF AddedAt, CountedAt, Adding
    <3>2. IssueV(Promise!VBlocks({scratch.exact[next + 1]}))
      BY <2>2 DEF FirstV, NextV
    <3> HIDE DEF next, i
    <3> QED BY <3>1, <3>2
  <2> QED BY <1>1, <2>1, <2>2
<1>3. PICK l \in {"index", "routeK", "scoreRoute", "epilogue"}, r \in Registers :
        /\ pc' = [pc EXCEPT ![w] = l] /\ reg' = [reg EXCEPT ![w] = r]
        /\ HoldsAt(l, r)
        /\ SumAt(AddedAt(l, r), r.group) = SumAt(AddedAt(pc[w], reg[w]), reg[w].group)
        /\ KRead(l, r, n) = KRead(pc[w], reg[w], n)
        /\ VRead(l, r, n) = VRead(pc[w], reg[w], n)
        /\ KIssued(l, r, n) = KIssued(pc[w], reg[w], n)
        /\ VIssued(l, r, n) = i + 1
  BY <1>1, ProceedFollows
<1>4. WarpMoves(w, l, r)
  BY <1>1, <1>3 DEF WarpMoves
<1>5. KStep(w, l, r)
  BY <1>1, <1>3, KRests, Alike
<1>6. VStep(w, l, r)
  <2>1. Fills(V, V', Promise!VBlocks({scratch.exact[k]}))
    BY <1>2, VStreams, Exact
  <2>2. VTile(k) = Promise!VBlocks({scratch.exact[k]})
    BY <1>2 DEF VTile
  <2>3. VIssued(l, r, n) = k
    BY <1>2, <1>3
  <2> HIDE DEF i
  <2>4. Fills(V, V', VTile(VIssued(l, r, n)))
    BY <2>1, <2>2, <2>3
  <2> QED BY <1>2, <1>3, <2>3, <2>4 DEF VStep, Streams, i
<1> QED BY <1>1, <1>3, <1>4, <1>5, <1>6, WarpGoesOn

\* A warp learns which block comes next.
LEMMA ReadIndexGoes ==
  ASSUME Typed, Pipes, Control, Follows, NEW w \in Warps, ReadIndex(w)
  PROVE  Goes
<1> DEFINE n == Len(scratch.exact)
           b == scratch.exact[reg[w].ordinal + 1]
           r == [reg[w] EXCEPT !.block = b]
<1>1. CASE Race(w)
  BY <1>1, RaceGoes
<1>2. CASE ~Race(w)
  <2>1. /\ pc[w] = "index" /\ pc' = [pc EXCEPT ![w] = "scoreExact"] /\ reg' = [reg EXCEPT ![w] = r]
        /\ UNCHANGED <<job, K, V, scratch, routes, taken, stored>>
    BY <1>2 DEF ReadIndex, Goto, pipes, memory, results
  <2>2. reg[w].ordinal < n /\ reg[w].ordinal \in Nat /\ n \in Nat
    BY <2>1, At DEF HoldsAt, Exacting
  <2>3. b \in Nat
    <3>1. reg[w].ordinal + 1 \in 1 .. n
      BY <2>2
    <3>2. b \in 0 .. NumBlocks - 1
      BY <3>1, Exact
    <3> HIDE DEF b
    <3> QED BY <3>2, Sizes
  <2>4. /\ r \in Registers /\ r.group = reg[w].group /\ r.ordinal = reg[w].ordinal /\ r.block = b
    <3> HIDE DEF b
    <3> QED BY <2>3, At DEF Registers
  <2> HIDE DEF r
  <2>5. WarpMoves(w, "scoreExact", r)
    BY <2>1 DEF WarpMoves
  <2>6. HoldsAt("scoreExact", r) /\ AddedAt("scoreExact", r) = AddedAt(pc[w], reg[w])
    BY <2>1, <2>2, <2>4 DEF HoldsAt, AddedAt, Exacting, Deciding
  <2>7. KStep(w, "scoreExact", r)
    BY <2>1, <2>4, KRests, Alike DEF KRead, KIssued, Deciding
  <2>8. VStep(w, "scoreExact", r)
    BY <2>1, <2>4, VRests, Alike DEF VRead, VIssued, Deciding, Exacting
  <2> QED BY <2>1, <2>4, <2>5, <2>6, <2>7, <2>8, WarpGoesOn
<1> QED BY <1>1, <1>2

\* A warp has scored an exact block.
LEMMA ReleaseKGoes ==
  ASSUME Typed, Pipes, Control, Follows, NEW w \in Warps, ReleaseK(w)
  PROVE  Goes
<1> DEFINE l == IF w = Producer THEN "nextK" ELSE "exactV"
           r == reg[w]
<1>1. /\ pc[w] = "releaseK" /\ FreeK(w) /\ pc' = [pc EXCEPT ![w] = l]
      /\ UNCHANGED <<job, reg, V, scratch, routes, taken, stored>>
  BY DEF ReleaseK, Step, Goto, memory, results
<1>2. WarpMoves(w, l, r)
  BY <1>1, SameRegisters DEF WarpMoves
<1>3. Rests(K, K')
  BY <1>1, KStreams DEF FreeK
<1>4. KStep(w, l, r)
  BY <1>1, <1>3, KRests DEF KRead, KIssued, Deciding
<1>5. VStep(w, l, r)
  BY <1>1, VRests, Alike DEF VRead, VIssued, Deciding, Exacting
<1>6. HoldsAt(l, r) /\ AddedAt(l, r) = AddedAt(pc[w], r)
  BY <1>1, At DEF HoldsAt, AddedAt, Exacting, Deciding
<1> QED BY <1>1, <1>2, <1>4, <1>5, <1>6, At, WarpGoesOn

\* The keys of the next exact block or the means of the next group are fetched.
LEMMA NextKGoes ==
  ASSUME Typed, Pipes, Control, Follows, NextK
  PROVE  Goes
<1> USE ProducerAssumption
<1> DEFINE n == Len(scratch.exact)
           r == reg[Producer]
           g == reg[Producer].group
           k == reg[Producer].ordinal
<1>1. /\ pc[Producer] = "nextK" /\ pc' = [pc EXCEPT ![Producer] = "exactV"]
      /\ UNCHANGED <<job, reg, V, scratch, routes, taken, stored>>
  BY DEF NextK, Step, Goto, memory, results
<1>2. WarpMoves(Producer, "exactV", r)
  BY <1>1, SameRegisters DEF WarpMoves
<1>3. /\ g \in Nat /\ k \in Nat /\ n \in Nat /\ k < n /\ g < NumGroups /\ scratch.group = g
      /\ r \in Registers /\ r.count = n
  BY <1>1, At DEF CountedAt, HoldsAt, PlacedAt, Exacting, Adding, Deciding, Before, Ending
<1>4. /\ KRead("exactV", r, n) = k + 1 /\ KRead("nextK", r, n) = k + 1
      /\ KIssued("nextK", r, n) = k + 1
      /\ KIssued("exactV", r, n) = IF k + 1 = n /\ g + 1 = NumGroups THEN n ELSE k + 2
  BY DEF KRead, KIssued, Deciding
<1>5. KStep(Producer, "exactV", r)
  <2>1. CASE k + 1 < n
    <3> DEFINE next == reg[Producer].ordinal + 1
    <3>1. next + 1 \in 1 .. n /\ KIssued("exactV", r, n) = next + 1
      BY <1>3, <1>4, <2>1
    <3>2. IssueK(Promise!KBlocks({scratch.exact[next + 1]}))
      BY <1>3, <2>1 DEF NextK
    <3>3. Fills(K, K', Promise!KBlocks({scratch.exact[next + 1]}))
      BY <3>1, <3>2, KStreams, Exact
    <3>4. KTile(next + 1) = Promise!KBlocks({scratch.exact[next + 1]})
      BY <3>1 DEF KTile
    <3>5. /\ KRead("exactV", r, n) = KRead("nextK", r, n)
          /\ KIssued("exactV", r, n) = KIssued("nextK", r, n) + 1
      BY <1>4, <3>1
    <3> HIDE DEF next
    <3>6. Fills(K, K', KTile(KIssued("exactV", r, n)))
      BY <3>1, <3>3, <3>4
    <3> QED BY <1>1, <3>5, <3>6 DEF KStep, Streams
  <2>2. CASE ~(k + 1 < n) /\ g + 1 < NumGroups
    <3>1. k + 1 = n /\ k + 2 \notin 1 .. n /\ (k + 1) + 1 = k + 2 /\ KIssued("exactV", r, n) = k + 2
      BY <1>3, <1>4, <2>2, Sizes
    <3>2. IssueK(Promise!KMeans(g + 1)) /\ g + 1 \in Nat
      BY <1>3, <2>2, <3>1 DEF NextK
    <3>3. Fills(K, K', Promise!KMeans(g + 1))
      BY <2>2, <3>2, KStreams, Means
    <3>4. KTile(k + 2) = Promise!KMeans(g + 1)
      BY <1>3, <3>1 DEF KTile
    <3> HIDE DEF n, r, k, g
    <3> QED BY <1>1, <1>4, <3>1, <3>3, <3>4 DEF KStep, Streams, n, r
  <2>3. CASE ~(k + 1 < n) /\ ~(g + 1 < NumGroups)
    <3>1. k + 1 = n /\ g + 1 = NumGroups
      BY <1>3, <2>3, Sizes
    <3>2. K' = K
      BY <1>3, <2>3, <3>1 DEF NextK
    <3> HIDE DEF n, r, k, g
    <3> QED BY <1>1, <1>4, <3>1, <3>2, KRests, Alike DEF n, r
  <2> QED BY <2>1, <2>2, <2>3
<1>6. VStep(Producer, "exactV", r)
  BY <1>1, VRests, Alike DEF VRead, VIssued, Deciding, Exacting
<1>7. HoldsAt("exactV", r) /\ AddedAt("exactV", r) = AddedAt("nextK", r)
  BY <1>1, At DEF HoldsAt, AddedAt, Exacting, Deciding
<1> QED BY <1>1, <1>2, <1>3, <1>5, <1>6, <1>7, WarpGoesOn

\* A warp adds an exact block.
LEMMA ExactVGoes ==
  ASSUME Typed, Pipes, Control, Follows, Alone, NEW w \in Warps, ExactV(w)
  PROVE  Goes
<1> USE ProducerAssumption
<1> DEFINE n == Len(scratch.exact)
           r == reg[w]
           g == reg[w].group
           k == reg[w].ordinal
           b == reg[w].block
           part == Promise!Part(r.score, V.content, {b}, BlockMass(b))
<1>1. /\ pc[w] = "exactV" /\ pc' = [pc EXCEPT ![w] = "releaseV"]
      /\ VReady(w) /\ V' = Begun(V, w)
      /\ taken' = [taken EXCEPT ![w] = Append(taken[w], part)]
      /\ UNCHANGED <<job, reg, K, scratch, routes, stored>>
  BY DEF ExactV, Step, Goto, memory, AddPart
<1>2. WarpMoves(w, "releaseV", r)
  BY <1>1, SameRegisters DEF WarpMoves
<1>3. /\ g \in Nat /\ k \in Nat /\ n \in Nat /\ k < n /\ r \in Registers
      /\ Len(routes) = g + 1 /\ scratch.group = g
      /\ b = scratch.exact[k + 1] /\ r.score = Promise!KBlocks({b})
      /\ taken[w] = SumAt(k, g)
  BY <1>1, At DEF HoldsAt, AddedAt, Exacting, Adding, Deciding
<1>4. Begins(V, V', w)
  BY <1>1, VStreams DEF Control, Reading
<1>5. V.content = Promise!VBlocks({b})
  <2>1. VRead(pc[w], r, n) = k
    BY <1>1 DEF VRead, Deciding
  <2>2. V.content = VTile(k + 1)
    BY <1>4, <2>1, VNext
  <2>3. VTile(k + 1) = Promise!VBlocks({b})
    BY <1>3 DEF VTile
  <2> QED BY <2>2, <2>3
<1>6. part = PartOf(Promise!KBlocks({b}), Promise!VBlocks({b}), {b})
  <2>1. b \in 0 .. NumBlocks - 1
    <3>1. k + 1 \in 1 .. n
      BY <1>3
    <3> QED BY <1>3, <3>1, Exact
  <2>2. BlockMass(b) = Promise!MassOf({b})
    BY <2>1, BlockMassIs
  <2> QED BY <1>3, <1>5, <2>2 DEF PartOf
<1>7. /\ Len(taken[w]) < Len(Promise!Plan) /\ Promise!Plan[Len(taken[w]) + 1] = part
      /\ SumAt(k + 1, g) = Append(taken[w], part)
  <2>1. k \in 0 .. n - 1
    BY <1>3
  <2> HIDE DEF part
  <2> QED BY <1>3, <1>6, <2>1, SumOfBlock DEF Follows
<1>8. HoldsAt("releaseV", r) /\ AddedAt("releaseV", r) = k + 1
  BY <1>3 DEF HoldsAt, AddedAt, Exacting, Deciding
<1>9. KStep(w, "releaseV", r)
  BY <1>1, KRests, Alike DEF KRead, KIssued, Deciding
<1>10. VStep(w, "releaseV", r)
  <2>1. VRead("releaseV", r, n) = VRead("exactV", r, n) + 1
    BY DEF VRead, Deciding
  <2>2. VIssued("releaseV", r, n) = VIssued("exactV", r, n)
    BY DEF VIssued, Deciding, Exacting
  <2> QED BY <1>1, <1>4, <2>1, <2>2 DEF VStep, Streams
<1> HIDE DEF part
<1>11. SumAt(AddedAt("releaseV", r), r.group) = Append(taken[w], part)
  BY <1>7, <1>8
<1> QED BY <1>1, <1>2, <1>3, <1>7, <1>8, <1>9, <1>10, <1>11, WarpAdds(* FlattenSeq, which joins a sequence of sequences, and sums of lengths.     *)

\* The Producer starts the copy of Q.
LEMMA AcquireQGoes ==
  ASSUME Typed, Control, Follows, AcquireQ
  PROVE  Goes
<1> USE ProducerAssumption
<1> DEFINE r == reg[Producer]
<1>1. /\ pc[Producer] = "acquireQ" /\ pc' = [pc EXCEPT ![Producer] = "syncStart"]
      /\ UNCHANGED <<job, reg, K, V, scratch, routes, taken, stored>>
  BY DEF AcquireQ, Step, Goto, pipes, results
<1>2. WarpMoves(Producer, "syncStart", r)
  BY <1>1, SameRegisters DEF WarpMoves
<1>3. KStep(Producer, "syncStart", r)
  BY <1>1, KRests, Alike DEF KRead, KIssued, Deciding
<1>4. VStep(Producer, "syncStart", r)
  BY <1>1, VRests, Alike DEF VRead, VIssued, Deciding, Exacting
<1>5. HoldsAt("syncStart", r) /\ AddedAt("syncStart", r) = AddedAt("acquireQ", r)
  BY DEF HoldsAt, AddedAt, Exacting, Deciding
<1> QED BY <1>1, <1>2, <1>3, <1>4, <1>5, At, WarpGoesOn

\* A warp writes its rows of the output.
LEMMA WriteOGoes ==
  ASSUME Typed, Control, Follows, NEW w \in Warps, WriteO(w)
  PROVE  Goes
<1> DEFINE r == reg[w]
<1>1. /\ pc[w] = "epilogue" /\ pc' = [pc EXCEPT ![w] = "syncStore"]
      /\ UNCHANGED <<job, reg, K, V, scratch, routes, taken, stored>>
  BY DEF WriteO, Step, Goto, pipes, results
<1>2. WarpMoves(w, "syncStore", r)
  BY <1>1, SameRegisters DEF WarpMoves
<1>3. KStep(w, "syncStore", r)
  BY <1>1, KRests, Alike DEF KRead, KIssued, Deciding
<1>4. VStep(w, "syncStore", r)
  BY <1>1, VRests, Alike DEF VRead, VIssued, Deciding, Exacting
<1>5. HoldsAt("syncStore", r) /\ AddedAt("syncStore", r) = AddedAt("epilogue", r)
  BY DEF HoldsAt, AddedAt, Exacting, Deciding
<1> QED BY <1>1, <1>2, <1>3, <1>4, <1>5, At, WarpGoesOn

\* The tile is stored when every warp has added everything.
LEMMA StoreOGoes ==
  ASSUME Typed, Control, Follows, Alone, StoreO
  PROVE  Goes
<1> USE ProducerAssumption
<1> DEFINE r == reg[Producer]
<1>1. /\ pc[Producer] = "store" /\ pc' = [pc EXCEPT ![Producer] = "done"]
      /\ UNCHANGED <<job, reg, K, V, scratch, routes, taken>> /\ stored' = TRUE
  BY DEF StoreO, Step, Goto, pipes, memory
<1>2. WarpMoves(Producer, "done", r)
  BY <1>1, SameRegisters DEF WarpMoves
<1>3. KStep(Producer, "done", r)
  BY <1>1, KRests, Alike DEF KRead, KIssued, Deciding
<1>4. VStep(Producer, "done", r)
  BY <1>1, VRests, Alike DEF VRead, VIssued, Deciding, Exacting
<1>5. HoldsAt("done", r) /\ AddedAt("done", r) = AddedAt("store", r)
  BY DEF HoldsAt, AddedAt, Exacting, Deciding
<1>6. taken' = [taken EXCEPT ![Producer] = SumAt(AddedAt("done", r), r.group)]
  BY <1>1, <1>5 DEF Follows, Added
<1>7. Follows'
  BY <1>2, <1>3, <1>4, <1>5, <1>6, At, WarpFollows
<1>8. Len(routes) = NumGroups /\ NumGroups \in Nat
  BY <1>1, Sizes, At DEF PlacedAt, Ending, Deciding, Adding
<1>9. Promise!Plan = PlanOf(routes)
  BY PlanIs DEF Follows, Routed
<1>10. \A w \in Warps : taken[w] = PlanOf(routes)
  <2>1. SubSeq(routes, 1, NumGroups) = routes
    <3> DEFINE B == SUBSET Blocks
    <3>1. routes \in Seq(B)
      BY DEF Follows, Routed
    <3> HIDE DEF B
    <3> QED BY <1>8, <3>1, SubSeqFull
  <2>2. SumAt(-1, NumGroups) = PlanOf(routes)
    BY <2>1 DEF SumAt
  <2> SUFFICES ASSUME NEW w \in Warps PROVE taken[w] = PlanOf(routes)
    OBVIOUS
  <2>3. pc[w] \in {"store", "done"}
    BY <1>1, SameStage DEF Control
  <2>4. taken[w] = SumAt(-1, NumGroups)
    BY <2>3, At DEF AddedAt, PlacedAt, Ending
  <2> QED BY <2>2, <2>4
<1>11. Promise!Store
  <2>1. Promise!Decided
    BY <1>8 DEF Alone, Promise!Decided
  <2> QED BY <1>1, <1>9, <1>10, <2>1 DEF Promise!Store
<1> QED BY <1>7, <1>11 DEF Goes, Promise!Next

\* What was copied last was the i-th tile of K and the j-th of V. Now they are
\* the i - d-th and the j - e-th, as no warp, or all together, moved.
Shift(n, i, j, d, e) ==
  /\ UNCHANGED <<job, reg, routes, taken, stored>>
  /\ scratch'.exact = scratch.exact /\ scratch'.group = scratch.group
  /\ Rests(K, K') /\ Rests(V, V')
  /\ n = Len(scratch.exact)
  /\ \A w \in Warps :
       /\ HoldsAt(pc'[w], reg[w]) /\ AddedAt(pc'[w], reg[w]) = AddedAt(pc[w], reg[w])
       /\ KRead(pc'[w], reg[w], n) = KRead(pc[w], reg[w], n) - d
       /\ VRead(pc'[w], reg[w], n) = VRead(pc[w], reg[w], n) - e
  /\ i = KIssued(pc[Producer], reg[Producer], n) /\ j = VIssued(pc[Producer], reg[Producer], n)
  /\ KIssued(pc'[Producer], reg[Producer], n) = i - d
  /\ VIssued(pc'[Producer], reg[Producer], n) = j - e
  /\ Unread(K) = {} \/ KTile(i - d) = KTile(i)
  /\ Unread(V) = {} \/ VTile(j - e)' = VTile(j)

\* Such a step follows the promise.
LEMMA AllFollow ==
  ASSUME Follows, NEW n, NEW i \in Int, NEW j \in Int, NEW d \in Int, NEW e \in Int,
         Shift(n, i, j, d, e)
  PROVE  Goes
<1> USE DEF Shift
<1>1. Routed'
  BY DEF Follows, Routed, Blocks
<1>2. Added'
  <2> DEFINE sum(v) == SumAt(AddedAt(pc[v], reg[v]), reg[v].group)
  <2>1. ASSUME NEW v \in Warps PROVE sum(v)' = sum(v)
    BY DEF SumAt
  <2>2. taken = [v \in Warps |-> sum(v)]
    BY DEF Follows, Added
  <2> HIDE DEF sum
  <2>3. taken' = [v \in Warps |-> sum(v)']
    BY <2>1, <2>2
  <2> QED BY <2>3 DEF Added, sum
<1>3. Holds'
  BY DEF Holds, HoldsAt
<1>4. KReads'
  <2> DEFINE f == [v \in Warps |-> KRead(pc[v], reg[v], n)]
             g == [v \in Warps |-> KRead(pc'[v], reg'[v], n)]
  <2>1. Reads(K, f, i, KTile(i))
    BY DEF Follows, KReads
  <2>2. \A v \in Warps : g[v] = f[v] - d
    OBVIOUS
  <2> HIDE DEF f, g
  <2>3. Reads(K', g, i - d, KTile(i - d))
    BY <2>1, <2>2 DEF Reads, Rests
  <2>4. KTile(i - d)' = KTile(i - d)
    BY DEF KTile
  <2>5. KIssued(pc'[Producer], reg'[Producer], n) = i - d /\ Len(scratch'.exact) = n
    OBVIOUS
  <2> QED BY <2>3, <2>4, <2>5 DEF KReads, g, Reads, Unread, Newest
<1>5. VReads'
  <2> DEFINE f == [v \in Warps |-> VRead(pc[v], reg[v], n)]
             g == [v \in Warps |-> VRead(pc'[v], reg'[v], n)]
  <2>1. Reads(V, f, j, VTile(j))
    BY DEF Follows, VReads
  <2>2. \A v \in Warps : g[v] = f[v] - e
    OBVIOUS
  <2> HIDE DEF f, g
  <2>3. Reads(V', g, j - e, VTile(j - e)')
    BY <2>1, <2>2 DEF Reads, Rests
  <2>4. VIssued(pc'[Producer], reg'[Producer], n) = j - e /\ Len(scratch'.exact) = n
    OBVIOUS
  <2> QED BY <2>3, <2>4 DEF VReads, g, Reads, Unread, Newest
<1> QED BY <1>1, <1>2, <1>3, <1>4, <1>5 DEF Goes, Follows, Promise!promiseVars

\* Nobody has yet to read a tile that all have read.
LEMMA AllRead ==
  ASSUME Pipes, NEW p \in {K, V}, NEW f, NEW i \in Int, NEW t, Reads(p, f, i, t)
  PROVE  /\ (\A w \in Warps : f[w] = i) => Unread(p) = {}
         /\ (\A w \in Warps : f[w] = i - 1) => Unread(p) = Warps
<1>1. Unread(p) \subseteq Warps
  <2>1. p \in [readers : {Warps}, full : Bit, empty : Bit, arrived : SUBSET Warps,
               filling : Tiles \union {None}, content : Tiles \union {None},
               due : SUBSET Warps, reading : SUBSET Warps]
    BY Fields
  <2> QED BY <2>1 DEF Unread
<1> HIDE DEF Unread
<1>2. \A w \in Warps : f[w] = IF w \in Unread(p) THEN i - 1 ELSE i
  BY DEF Reads
<1> QED BY <1>1, <1>2

\* Nothing but a copy moves.
LEMMA LandsGo ==
  ASSUME Typed, Pipes, ~raced => Follows, Lands
  PROVE  Goes
<1> USE ProducerAssumption
<1>1. /\ UNCHANGED <<job, pc, reg, scratch, routes, taken, stored, raced>>
      /\ Rests(K, K') /\ Rests(V, V')
  <2>1. CASE LandQ
    BY <2>1, Alike DEF LandQ, pipes, results
  <2>2. CASE LandK
    BY <2>2, Alike, KStreams DEF LandK, memory, results
  <2>3. CASE LandV
    BY <2>3, Alike, VStreams DEF LandV, memory, results
  <2> QED BY <2>1, <2>2, <2>3 DEF Lands
<1>2. CASE raced
  BY <1>1, <1>2 DEF Goes, Promise!promiseVars
<1>3. CASE ~raced
  <2>0. PICK n, i, j : /\ n = Len(scratch.exact)
                       /\ i = KIssued(pc[Producer], reg[Producer], n)
                       /\ j = VIssued(pc[Producer], reg[Producer], n)
    OBVIOUS
  <2>1. /\ i \in Int /\ j \in Int
        /\ \A w \in Warps : KRead(pc[w], reg[w], n) \in Int /\ VRead(pc[w], reg[w], n) \in Int
    <3>1. n \in Nat
      <4> DEFINE B == 0 .. NumBlocks - 1
      <4>1. scratch.exact \in Seq(B)
        BY DEF Typed
      <4> HIDE DEF B
      <4> QED BY <2>0, <4>1
    <3> QED BY <2>0, <3>1, Counts DEF Typed
  <2>2. VTile(j)' = VTile(j)
    BY <1>1 DEF VTile, Decision
  <2>3. \A w \in Warps : HoldsAt(pc[w], reg[w])
    BY <1>3 DEF Follows, Holds
  <2>4. \A x \in Int : x - 0 = x
    OBVIOUS
  <2>5. pc' = pc
    BY <1>1
  <2>6. \A w \in Warps :
          /\ HoldsAt(pc'[w], reg[w]) /\ AddedAt(pc'[w], reg[w]) = AddedAt(pc[w], reg[w])
          /\ KRead(pc'[w], reg[w], n) = KRead(pc[w], reg[w], n) - 0
          /\ VRead(pc'[w], reg[w], n) = VRead(pc[w], reg[w], n) - 0
    <3> SUFFICES ASSUME NEW w \in Warps
                 PROVE  /\ HoldsAt(pc'[w], reg[w]) /\ AddedAt(pc'[w], reg[w]) = AddedAt(pc[w], reg[w])
                        /\ KRead(pc'[w], reg[w], n) = KRead(pc[w], reg[w], n) - 0
                        /\ VRead(pc'[w], reg[w], n) = VRead(pc[w], reg[w], n) - 0
      OBVIOUS
    <3> DEFINE x == KRead(pc[w], reg[w], n)
               y == VRead(pc[w], reg[w], n)
    <3>1. x \in Int /\ y \in Int
      BY <2>1
    <3>2. KRead(pc'[w], reg[w], n) = x /\ VRead(pc'[w], reg[w], n) = y
      BY <2>5
    <3>3. HoldsAt(pc'[w], reg[w]) /\ AddedAt(pc'[w], reg[w]) = AddedAt(pc[w], reg[w])
      BY <2>3, <2>5
    <3>4. x - 0 = x /\ y - 0 = y
      BY <2>4, <3>1
    <3> QED BY <3>2, <3>3, <3>4
  <2>7. i - 0 = i /\ j - 0 = j
    BY <2>1, <2>4
  <2>8. /\ n = Len(scratch.exact)
        /\ i = KIssued(pc[Producer], reg[Producer], n)
        /\ j = VIssued(pc[Producer], reg[Producer], n)
        /\ KIssued(pc'[Producer], reg[Producer], n) = i - 0
        /\ VIssued(pc'[Producer], reg[Producer], n) = j - 0
    BY <2>0, <2>5, <2>7
  <2>9. Follows /\ scratch'.exact = scratch.exact /\ scratch'.group = scratch.group
        /\ KTile(i - 0) = KTile(i) /\ VTile(j - 0)' = VTile(j) /\ 0 \in Int
    BY <1>1, <1>3, <2>2, <2>7
  <2>10. UNCHANGED <<job, reg, routes, taken, stored>> /\ Rests(K, K') /\ Rests(V, V')
    BY <1>1
  <2>11. Shift(n, i, j, 0, 0)
    BY <2>6, <2>8, <2>9, <2>10 DEF Shift
  <2> QED BY <1>3, <2>1, <2>11, AllFollow
<1> QED BY <1>2, <1>3(* FlattenSeq, which joins a sequence of sequences, and sums of lengths.     *)

\* All warps pass a barrier.
LEMMA SyncGoes ==
  ASSUME Typed, Pipes, Control, Follows, Synchronises
  PROVE  Goes
<1> USE ProducerAssumption
<1>1. PICK from \in {"syncStart", "syncSums", "syncRoute", "syncStore"} :
        /\ \A w \in Warps : pc[w] = from
        /\ \A w \in Warps :
             pc'[w] = CASE from = "syncStart" -> "loadQ"
                        [] from = "syncSums" -> IF w = Producer THEN "decide" ELSE "syncRoute"
                        [] from = "syncRoute" -> "count"
                        [] from = "syncStore" -> IF w = Producer THEN "store" ELSE "done"
        /\ UNCHANGED <<job, reg, K, V, scratch, routes, taken, stored>>
  <2>1. CASE SyncStart
    BY <2>1 DEF SyncStart, Barrier, All, pipes, memory, results
  <2>2. CASE SyncSums
    BY <2>2 DEF SyncSums, Barrier, All, pipes, memory, results
  <2>3. CASE SyncRoute
    BY <2>3 DEF SyncRoute, Barrier, All, pipes, memory, results
  <2>4. CASE SyncStore
    BY <2>4 DEF SyncStore, Barrier, All, pipes, memory, results
  <2> QED BY <2>1, <2>2, <2>3, <2>4 DEF Synchronises
<1>2. PICK n, i, j : /\ n = Len(scratch.exact)
                     /\ i = KIssued(pc[Producer], reg[Producer], n)
                     /\ j = VIssued(pc[Producer], reg[Producer], n)
  OBVIOUS
<1>3. n \in Nat /\ i \in Int /\ j \in Int
  <2>1. n \in Nat /\ reg[Producer] \in Registers
    BY <1>2, At
  <2> QED BY <1>2, <2>1, Counts
<1>4. Rests(K, K') /\ Rests(V, V')
  BY <1>1, Alike
<1>5. \A w \in Warps :
        HoldsAt(pc'[w], reg[w]) /\ AddedAt(pc'[w], reg[w]) = AddedAt(pc[w], reg[w])
  <2> SUFFICES ASSUME NEW w \in Warps
               PROVE  HoldsAt(pc'[w], reg[w]) /\ AddedAt(pc'[w], reg[w]) = AddedAt(pc[w], reg[w])
    OBVIOUS
  <2>1. HoldsAt(pc[w], reg[w])
    BY At
  <2> QED BY <1>1, <2>1 DEF HoldsAt, AddedAt, Exacting, Deciding
<1>6. /\ scratch'.exact = scratch.exact /\ scratch'.group = scratch.group
      /\ UNCHANGED <<job, reg, routes, taken, stored>>
  BY <1>1
<1>7. CASE from = "syncSums"
  <2> DEFINE d == n + 1
  <2>1. /\ i = d /\ j = d /\ d \in Int
        /\ KIssued(pc'[Producer], reg[Producer], n) = 0
        /\ VIssued(pc'[Producer], reg[Producer], n) = 0
    BY <1>1, <1>2, <1>3, <1>7 DEF KIssued, VIssued, Deciding, Exacting
  <2>2. \A w \in Warps :
          /\ KRead(pc[w], reg[w], n) = d /\ KRead(pc'[w], reg[w], n) = 0
          /\ VRead(pc[w], reg[w], n) = n /\ VRead(pc'[w], reg[w], n) = -1
    BY <1>1, <1>7 DEF KRead, VRead, Deciding
  <2>3. Unread(K) = {}
    <3> DEFINE f == [w \in Warps |-> KRead(pc[w], reg[w], n)]
    <3>1. Reads(K, f, i, KTile(i))
      BY <1>2 DEF Follows, KReads
    <3>2. \A w \in Warps : f[w] = i
      BY <2>1, <2>2
    <3> HIDE DEF f
    <3> QED BY <1>3, <3>1, <3>2, AllRead
  <2>4. VTile(0)' = VTile(d)
    <3>1. d \notin 1 .. n /\ d # 0 /\ 0 \notin 1 .. n
      BY <1>3
    <3>2. pc'[Producer] = "decide"
      BY <1>1, <1>7
    <3>3. VTile(d) = Promise!VMeans(scratch.group + 1)
      BY <1>2, <3>1 DEF VTile
    <3>4. VTile(0)' = Promise!VMeans(scratch.group + 1)
      BY <1>2, <1>6, <3>1, <3>2 DEF VTile, Decision
    <3> QED BY <3>3, <3>4
  <2>5. 0 = d - d /\ -1 = n - d
    BY <1>3
  <2> HIDE DEF d
  <2>6. \A w \in Warps :
          /\ KRead(pc'[w], reg[w], n) = KRead(pc[w], reg[w], n) - d
          /\ VRead(pc'[w], reg[w], n) = VRead(pc[w], reg[w], n) - d
    BY <2>2, <2>5
  <2>7. PICK e \in Int : e = d
    BY <2>1
  <2>8. Shift(n, i, j, e, e)
    <3>1. e - e = 0
      BY <2>7
    <3>2. VTile(j - e)' = VTile(j)
      BY <2>1, <2>4, <2>7, <3>1
    <3> QED BY <1>2, <1>4, <1>5, <1>6, <2>1, <2>3, <2>5, <2>6, <2>7, <3>1, <3>2 DEF Shift
  <2> QED BY <1>3, <2>8, AllFollow
<1>8. CASE from # "syncSums"
  <2>1. /\ KIssued(pc'[Producer], reg[Producer], n) = i
        /\ VIssued(pc'[Producer], reg[Producer], n) = j
    BY <1>1, <1>2, <1>8 DEF KIssued, VIssued, Deciding, Exacting
  <2>2. \A w \in Warps :
          /\ KRead(pc'[w], reg[w], n) = KRead(pc[w], reg[w], n)
          /\ VRead(pc'[w], reg[w], n) = VRead(pc[w], reg[w], n)
    BY <1>1, <1>8 DEF KRead, VRead, Deciding
  <2>3. \A w \in Warps : KRead(pc[w], reg[w], n) \in Int /\ VRead(pc[w], reg[w], n) \in Int
    BY <1>3, Counts DEF Typed
  <2>4. \A w \in Warps :
          /\ KRead(pc'[w], reg[w], n) = KRead(pc[w], reg[w], n) - 0
          /\ VRead(pc'[w], reg[w], n) = VRead(pc[w], reg[w], n) - 0
    <3> SUFFICES ASSUME NEW w \in Warps
                 PROVE  /\ KRead(pc'[w], reg[w], n) = KRead(pc[w], reg[w], n) - 0
                        /\ VRead(pc'[w], reg[w], n) = VRead(pc[w], reg[w], n) - 0
      OBVIOUS
    <3>1. \A x \in Int : x - 0 = x
      OBVIOUS
    <3>2. KRead(pc[w], reg[w], n) - 0 = KRead(pc[w], reg[w], n)
      BY <2>3, <3>1
    <3>3. VRead(pc[w], reg[w], n) - 0 = VRead(pc[w], reg[w], n)
      BY <2>3, <3>1
    <3> QED BY <2>2, <3>2, <3>3
  <2>5. i - 0 = i /\ j - 0 = j
    BY <1>3
  <2>6. VTile(j)' = VTile(j)
    <3>1. Decision' = Decision
      BY <1>1, <1>8 DEF Decision
    <3> QED BY <1>6, <3>1 DEF VTile
  <2>7. Shift(n, i, j, 0, 0)
    BY <1>2, <1>4, <1>5, <1>6, <2>1, <2>4, <2>5, <2>6 DEF Shift
  <2> QED BY <1>3, <2>7, AllFollow
<1> QED BY <1>7, <1>8(* FlattenSeq, which joins a sequence of sequences, and sums of lengths.     *)

\* A decision takes the blocks that must not be approximated.
LEMMA Decides ==
  ASSUME Alone, Sunk, NEW g, g = Len(routes), g \in Nat, g < NumGroups,
         NEW high \in SUBSET Members(g),
         routes' = Append(routes, Selected(g, high)), UNCHANGED <<job, taken, stored>>
  PROVE  Promise!Decide
<1> DEFINE S == Selected(g, high)
           group == Promise!Members(job.first + Len(routes))
<1>1. job.first + Len(routes) = g /\ job.last - job.first = NumGroups
  BY Sizes DEF Alone
<1>2. ~Promise!Decided
  BY <1>1, Sizes DEF Promise!Decided
<1>3. Promise!Forced \subseteq Forced
  BY DEF Promise!Forced, Forced, Sunk, NumBlocks
<1>4. group = Members(g)
  BY <1>1 DEF Members
<1>5. S \in SUBSET group /\ Promise!Forced \intersect group \subseteq S
  BY <1>3, <1>4 DEF Selected
<1> HIDE DEF S, group
<1>6. \E T \in SUBSET group : /\ Promise!Forced \intersect group \subseteq T
                              /\ routes' = Append(routes, T)
  BY <1>5 DEF S
<1> QED BY <1>2, <1>6 DEF Promise!Decide, group

\* The Producer decides what all warps then add.
LEMMA DecideGoes ==
  ASSUME Typed, Pipes, Control, Follows, Alone, Sunk, Decide
  PROVE  Goes
<1> USE ProducerAssumption
<1> DEFINE g == reg[Producer].group
           n == Len(scratch.exact)
<1>1. CASE Race(Producer)
  BY <1>1, RaceGoes
<1>2. CASE ~Race(Producer)
  <2>1. PICK high \in SUBSET Members(g) :
          /\ scratch' = [scratch EXCEPT !.group = g, !.exact = InOrder(Selected(g, high))]
          /\ routes' = Append(routes, Selected(g, high))
    BY <1>2 DEF Decide
  <2> DEFINE S == Selected(g, high)
  <2>2. /\ pc[Producer] = "decide" /\ pc' = [pc EXCEPT ![Producer] = "syncRoute"]
        /\ UNCHANGED <<job, reg, K, V, taken, stored>>
    BY <1>2 DEF Decide, Goto, pipes
  <2>3. \A w \in Warps : pc[w] \in Deciding /\ pc'[w] \in Deciding /\ reg[w].group = g
    <3> SUFFICES ASSUME NEW w \in Warps
                 PROVE  pc[w] \in Deciding /\ pc'[w] \in Deciding /\ reg[w].group = g
      OBVIOUS
    <3>1. pc[w] \in Deciding
      BY <2>2, SameStage DEF Control, Deciding
    <3>2. pc'[w] \in Deciding
      BY <2>2, <3>1 DEF Typed, Deciding
    <3>3. Rounds(w) = reg[w].group /\ Rounds(Producer) = g
      BY <2>2, <3>1 DEF Rounds, Round, Deciding, Adding
    <3> QED BY <3>1, <3>2, <3>3 DEF Control, Together
  <2>4. g \in Nat /\ g < NumGroups
    BY <2>2, At DEF PlacedAt, Before, Ending
  <2>5. scratch.group = g - 1 /\ Len(routes) = g
    <3>1. Rounds(Producer) = g
      BY <2>2 DEF Rounds, Round, Adding
    <3>2. scratch.group = g - 1
      BY <2>2, <3>1 DEF Control, Decided
    <3> QED BY <2>4, <3>2 DEF Follows, Routed
  <2>6. S \in SUBSET Blocks /\ S \subseteq Members(g)
    BY DEF Selected, Members, Promise!Members, Blocks, NumBlocks
  <2>7. scratch'.group = g /\ scratch'.exact = InOrder(S)
    <3> DEFINE E == InOrder(S)
    <3>1. scratch' = [scratch EXCEPT !.group = g, !.exact = E]
      BY <2>1
    <3>2. DOMAIN scratch = {"sums", "group", "exact"}
      BY DEF Typed
    <3> HIDE DEF E, g
    <3>3. scratch'.group = g /\ scratch'.exact = E
      BY <3>1, <3>2
    <3> QED BY <3>3 DEF E
  <2>8. /\ routes' \in Seq(SUBSET Blocks) /\ Len(routes') = g + 1 /\ routes'[g + 1] = S
        /\ \A i \in 1 .. g : routes'[i] = routes[i]
        /\ SubSeq(routes', 1, g) = routes /\ SubSeq(routes, 1, g) = routes
    <3> DEFINE B == SUBSET Blocks
    <3>1. routes \in Seq(B) /\ S \in B /\ routes' = Append(routes, S)
      BY <2>1, <2>6 DEF Follows, Routed
    <3> HIDE DEF B, S, g
    <3>2. /\ routes' \in Seq(B) /\ Len(routes') = g + 1 /\ routes'[g + 1] = S
          /\ \A i \in 1 .. g : routes'[i] = routes[i]
      BY <2>4, <2>5, <3>1
    <3>3. SubSeq(routes, 1, g) = routes
      BY <2>5, <3>1, SubSeqFull
    <3>4. SubSeq(routes', 1, g) = routes
      <4> DEFINE c == SubSeq(routes', 1, g)
      <4>1. c \in Seq(B) /\ Len(c) = g /\ \A i \in 1 .. g : c[i] = routes'[i]
        BY <2>4, <3>2, SubSeqProperties
      <4> HIDE DEF c
      <4>2. c = routes
        BY <2>5, <3>1, <3>2, <4>1, SeqEqual
      <4> QED BY <4>2 DEF c
    <3> QED BY <3>2, <3>3, <3>4 DEF B, S
  <2>9. Routed'
    <3>1. \A i \in 1 .. Len(routes') : routes'[i] \subseteq Members(i - 1)
      <4> SUFFICES ASSUME NEW i \in 1 .. Len(routes') PROVE routes'[i] \subseteq Members(i - 1)
        OBVIOUS
      <4>1. CASE i = g + 1
        <5>1. i - 1 = g
          BY <2>4, <4>1
        <5> QED BY <2>6, <2>8, <4>1, <5>1
      <4>2. CASE i # g + 1
        <5>1. i \in 1 .. g
          BY <2>4, <2>8, <4>2
        <5> QED BY <2>5, <2>8, <5>1 DEF Follows, Routed
      <4> QED BY <4>1, <4>2
    <3>2. routes' # <<>>
      BY <2>4, <2>8
    <3>3. scratch'.exact = InOrder(routes'[Len(routes')])
      BY <2>7, <2>8
    <3> HIDE DEF S
    <3> QED BY <2>7, <2>8, <3>1, <3>2, <3>3 DEF Routed, Blocks
  <2>10. Added'
    <3>1. \A w \in Warps : AddedAt(pc[w], reg[w]) = -1 /\ AddedAt(pc'[w], reg'[w]) = -1
      BY <2>2, <2>3 DEF AddedAt, Deciding
    <3>2. SumAt(-1, g) = PlanOf(routes) /\ SumAt(-1, g)' = PlanOf(routes)
      BY <2>2, <2>8 DEF SumAt, PlanOf
    <3>3. taken = [w \in Warps |-> PlanOf(routes)]
      <4>1. \A w \in Warps : SumAt(AddedAt(pc[w], reg[w]), reg[w].group) = PlanOf(routes)
        BY <2>3, <3>1, <3>2
      <4> QED BY <4>1 DEF Follows, Added
    <3>4. \A w \in Warps : SumAt(AddedAt(pc[w], reg[w]), reg[w].group)' = PlanOf(routes)
      BY <2>2, <2>3, <2>8, <3>1 DEF SumAt
    <3>5. taken' = [w \in Warps |-> PlanOf(routes)]
      BY <2>2, <3>3
    <3> QED BY <3>4, <3>5 DEF Added
  <2>11. Holds'
    <3> SUFFICES ASSUME NEW w \in Warps PROVE HoldsAt(pc[w], reg[w])'
      BY DEF Holds
    <3>1. reg[w].score = Promise!KMeans(reg[w].group)
      BY <2>3, At DEF HoldsAt
    <3> QED BY <2>2, <2>3, <3>1 DEF HoldsAt, Deciding, Exacting
  <2>12. KReads'
    <3> DEFINE f == [w \in Warps |-> KRead(pc[w], reg[w], n)]
    <3>1. Reads(K, f, 0, KTile(0))
      BY <2>2 DEF Follows, KReads, KIssued, Deciding
    <3>2. \A w \in Warps : f[w] = 0
      BY <2>3 DEF KRead, Deciding
    <3> HIDE DEF f
    <3>3. Unread(K) = {}
      BY <3>1, <3>2, AllRead
    <3>4. Unread(K)' = {}
      BY <2>2, <3>3 DEF Unread
    <3>5. \A w \in Warps : KRead(pc'[w], reg'[w], Len(scratch'.exact)) = 0
      BY <2>3 DEF KRead, Deciding
    <3>6. KIssued(pc'[Producer], reg'[Producer], Len(scratch'.exact)) = 0
      BY <2>3 DEF KIssued, Deciding
    <3> QED BY <3>4, <3>5, <3>6 DEF KReads, Reads
  <2>13. VReads'
    <3> DEFINE f == [w \in Warps |-> VRead(pc[w], reg[w], n)]
    <3>1. Reads(V, f, 0, VTile(0))
      BY <2>2 DEF Follows, VReads, VIssued, Deciding, Exacting
    <3>2. \A w \in Warps : f[w] = 0 - 1
      BY <2>3 DEF VRead, Deciding
    <3>3. n \in Nat /\ 0 \notin 1 .. n
      BY At
    <3>4. VTile(0) = Promise!VMeans(g)
      <4>1. Decision = g
        BY <2>2, <2>4, <2>5 DEF Decision
      <4> QED BY <3>3, <4>1 DEF VTile
    <3>5. VTile(0)' = Promise!VMeans(g)
      <4>1. 0 \notin 1 .. Len(scratch'.exact)
        OBVIOUS
      <4>2. Decision' = g
        BY <2>2, <2>7 DEF Decision, Typed
      <4> QED BY <4>1, <4>2 DEF VTile
    <3> HIDE DEF f
    <3>6. Unread(V) = Warps
      BY <3>1, <3>2, AllRead
    <3>7. Newest(V) = Promise!VMeans(g)
      BY <3>1, <3>4, <3>6 DEF Reads
    <3>8. Unread(V)' = Warps /\ Newest(V)' = Promise!VMeans(g)
      BY <2>2, <3>6, <3>7 DEF Unread, Newest
    <3>9. \A w \in Warps : VRead(pc'[w], reg'[w], Len(scratch'.exact)) = 0 - 1
      BY <2>3 DEF VRead, Deciding
    <3>10. VIssued(pc'[Producer], reg'[Producer], Len(scratch'.exact)) = 0
      BY <2>3 DEF VIssued, Deciding, Exacting
    <3> QED BY <3>5, <3>8, <3>9, <3>10 DEF VReads, Reads
  <2>14. Promise!Decide
    BY <2>1, <2>2, <2>4, <2>5, Decides
  <2> QED BY <2>9, <2>10, <2>11, <2>12, <2>13, <2>14 DEF Goes, Follows, Promise!Next
<1> QED BY <1>1, <1>2(* FlattenSeq, which joins a sequence of sequences, and sums of lengths.     *)

\* A step follows the promise.
LEMMA StepGoes ==
  ASSUME IInv, ~raced => Follows, Alone, Sunk, [Next]_vars
  PROVE  Goes
<1>1. Typed /\ Pipes /\ (~raced => Control)
  BY DEF IInv
<1>2. CASE UNCHANGED vars
  <2>1. Follows => Follows'
    BY <1>2
    DEF vars, Follows, Routed, Blocks, Added, SumAt, Holds, HoldsAt, KReads, VReads, Reads,
        Unread, Newest, KTile, VTile, Decision
  <2> QED BY <1>2, <2>1 DEF vars, Goes, Promise!promiseVars
<1>3. CASE Lands
  BY <1>1, <1>3, LandsGo
<1>4. CASE Synchronises
  <2>1. ~raced
    BY <1>4 DEF Synchronises, SyncStart, SyncSums, SyncRoute, SyncStore, Barrier
  <2> QED BY <1>1, <1>4, <2>1, SyncGoes
<1>5. CASE Produces
  <2>1. ~raced
    BY <1>5
    DEF Produces, AcquireQ, RouteK, RouteV, Decide, FirstK, FirstV, NextK, NextV, StoreO, Step
  <2> QED BY <1>1, <1>5, <2>1, AcquireQGoes, RouteKGoes, RouteVGoes, DecideGoes, FirstKGoes,
          FetchVGoes, NextKGoes, StoreOGoes DEF Produces
<1>6. ASSUME NEW w \in Warps, Consumes(w) PROVE Goes
  <2>1. ~raced
    BY <1>6
    DEF Consumes, LoadQ, ScoreRoute, ScoreExact, Score, ReduceRoute, ReadCount, Approximate,
        ReleaseMeans, ReadIndex, ReleaseK, ExactV, ReleaseV, WriteO, Step
  <2> QED BY <1>1, <1>6, <2>1, LoadQGoes, ScoreGoes, ReduceRouteGoes, ReadCountGoes,
          ApproximateGoes, ReleaseVGoes, ReadIndexGoes, ReleaseKGoes, ExactVGoes, WriteOGoes
          DEF Consumes
<1> QED BY <1>2, <1>3, <1>4, <1>5, <1>6 DEF Next

\* No step changes the thread block's work.
LEMMA SameJob == ASSUME [Next]_vars PROVE job' = job
<1>1. CASE UNCHANGED vars
  BY <1>1 DEF vars
<1>2. CASE Lands
  BY <1>2 DEF Lands, LandQ, LandK, LandV
<1>3. CASE Synchronises
  BY <1>3 DEF Synchronises, SyncStart, SyncSums, SyncRoute, SyncStore, Barrier
<1>4. CASE Produces
  BY <1>4
  DEF Produces, AcquireQ, RouteK, RouteV, Decide, Race, FirstK, FirstV, NextK, NextV, StoreO
<1>5. ASSUME NEW w \in Warps, Consumes(w) PROVE job' = job
  BY <1>5
  DEF Consumes, LoadQ, ScoreRoute, ScoreExact, Score, ReduceRoute, ReadCount, Approximate,
      ReleaseMeans, ReadIndex, ReleaseK, ExactV, ReleaseV, WriteO, Race
<1> QED BY <1>1, <1>2, <1>3, <1>4, <1>5 DEF Next

\* Nothing is decided, read or added.
LEMMA InitFollows == ASSUME Init PROVE Follows /\ Promise!Init
<1> USE ProducerAssumption
<1>1. /\ \A w \in Warps : pc[w] \in {"acquireQ", "syncStart"} /\ reg[w].group = 0
      /\ K = EmptyPipe(Warps) /\ V = EmptyPipe(Warps)
      /\ scratch.group = -1 /\ scratch.exact = <<>>
      /\ Promise!Init
  BY DEF Init
<1>2. routes = <<>> /\ taken = [w \in Warps |-> <<>>]
  BY <1>1 DEF Promise!Init
<1>3. Routed
  BY <1>1, <1>2 DEF Routed
<1>4. Added
  <2>1. PlanOf(<<>>) = <<>>
    <3>1. \A f : [i \in 1 .. Len(<<>>) |-> GroupPlan(i - 1, <<>>[i])] = <<>>
      OBVIOUS
    <3>2. FlattenSeq(<<>>) = <<>>
      BY DEF FlattenSeq
    <3> QED BY <3>1, <3>2 DEF PlanOf
  <2>2. SubSeq(routes, 1, 0) = <<>>
    BY <1>2
  <2>3. SumAt(-1, 0) = <<>>
    BY <2>1, <2>2 DEF SumAt
  <2>4. \A w \in Warps : SumAt(AddedAt(pc[w], reg[w]), reg[w].group) = <<>>
    <3>1. \A w \in Warps : AddedAt(pc[w], reg[w]) = -1
      BY <1>1 DEF AddedAt
    <3> QED BY <1>1, <2>3, <3>1
  <2> QED BY <1>2, <2>4 DEF Added
<1>5. Holds
  BY <1>1 DEF Holds, HoldsAt, Exacting, Deciding
<1>6. KReads /\ VReads
  <2>1. Unread(K) = {} /\ Unread(V) = {}
    BY <1>1 DEF Unread, EmptyPipe
  <2>2. \A w \in Warps :
          /\ KRead(pc[w], reg[w], Len(scratch.exact)) = 0
          /\ VRead(pc[w], reg[w], Len(scratch.exact)) = 0
    BY <1>1 DEF KRead, VRead, Deciding
  <2>3. /\ KIssued(pc[Producer], reg[Producer], Len(scratch.exact)) = 0
        /\ VIssued(pc[Producer], reg[Producer], Len(scratch.exact)) = 0
    BY <1>1 DEF KIssued, VIssued, Deciding, Exacting
  <2> QED BY <2>1, <2>2, <2>3 DEF KReads, VReads, Reads
<1> QED BY <1>1, <1>3, <1>4, <1>5, <1>6 DEF Follows

\* The sm120 kernel computes routed attention: every warp adds each group's
\* exact blocks and the rest of it once, in order, with matching scores and
\* values and the right number of keys, before the tile is stored, whatever the
\* decisions and the order of copies and warps (sm120/mainloop.py).  Its thread
\* blocks are those of accepted calls on these tokens (interface.py).
THEOREM Sm120KeepsPromise ==
  ASSUME Jobs120 \subseteq JobsBy("sm120")
  PROVE  Spec => KeepsPromise
<1> DEFINE FInv == IInv /\ (~raced => Follows) /\ job \in JobsBy("sm120")
<1>1. Init => FInv /\ Promise!Init
  <2>1. Init => job \in JobsBy("sm120")
    BY DEF Init
  <2> QED BY <2>1, InitKeeps, InitFollows
<1>2. FInv /\ [Next]_vars => FInv' /\ [Promise!Next]_(Promise!promiseVars)
  <2> SUFFICES ASSUME FInv, [Next]_vars
               PROVE  FInv' /\ [Promise!Next]_(Promise!promiseVars)
    OBVIOUS
  <2>1. Goes
    BY StepGoes, JobsFit
  <2>2. IInv' /\ job' \in JobsBy("sm120")
    BY StepKeeps, SameJob
  <2>3. (job \in JobsBy("sm120"))'
    BY <2>2 DEF JobsBy, CallsBy
  <2> QED BY <2>1, <2>2, <2>3 DEF Goes
<1> HIDE DEF FInv
<1> QED BY <1>1, <1>2, PTL DEF Spec, KeepsPromise, Promise!Spec

-----------------------------------------------------------------------------
(***************************************************************************)
(* The Triton kernels keep the promise of RoutedAttention.                 *)
(***************************************************************************)
CONSTANT JobsTriton   \* the thread blocks of the Triton kernels

Triton == INSTANCE TritonKernel

\* The Triton kernels count keys of a block that exist: all but for the last block.
LEMMA TritonMasses ==
  /\ \A b \in Blocks : Triton!BlockLength(b) = Promise!Length(b)
  /\ \A b \in Blocks :
       Cardinality({t \in 0 .. BlockLen - 1 : b * BlockLen + t < Tokens}) = Promise!MassOf({b})
<1> SUFFICES ASSUME NEW b \in Blocks
             PROVE  /\ Triton!BlockLength(b) = Promise!Length(b)
                    /\ Cardinality({t \in 0 .. BlockLen - 1 : b * BlockLen + t < Tokens})
                         = Promise!MassOf({b})
  OBVIOUS
<1> DEFINE x == Tokens - b * BlockLen
           m == BlockMass(b)
<1>1. /\ Tokens \in Nat \ {0} /\ BlockLen \in Nat \ {0} /\ b \in Nat /\ b < NumBlocks
      /\ NumBlocks \in Nat /\ b * BlockLen \in Nat
  BY SizesAssumption, Sizes, Z3 DEF Blocks
<1>2. Tokens <= NumBlocks * BlockLen /\ \A c \in Nat : c < NumBlocks <=> c * BlockLen < Tokens
  BY <1>1, RoundsUp DEF NumBlocks, Promise!NumBlocks
<1>3. Promise!Length(b) = m /\ m = Promise!MassOf({b}) /\ m \in Nat
  BY LengthIs, BlockMassIs DEF Blocks
<1>4. x \in Nat /\ x > 0 /\ m = IF x > BlockLen THEN BlockLen ELSE x
  BY <1>1, <1>2 DEF BlockMass
<1>5. Triton!BlockLength(b) = m
  <2>1. Triton!BlockLength(b) = IF b = NumBlocks - 1 THEN x ELSE BlockLen
    BY DEF Triton!BlockLength, Triton!NumBlocks, Triton!Promise!NumBlocks, NumBlocks, Promise!NumBlocks
  <2>2. (b + 1) * BlockLen = b * BlockLen + BlockLen
    BY <1>1, Z3
  <2>3. CASE b = NumBlocks - 1
    <3>1. Tokens <= (b + 1) * BlockLen
      BY <1>1, <1>2, <2>3
    <3>2. ~(x > BlockLen)
      BY <1>1, <2>2, <3>1
    <3> QED BY <1>4, <2>1, <2>3, <3>2
  <2>4. CASE b # NumBlocks - 1
    <3>1. (b + 1) * BlockLen < Tokens
      BY <1>1, <1>2, <2>4
    <3>2. x > BlockLen
      BY <1>1, <2>2, <3>1
    <3> QED BY <1>4, <2>1, <2>4, <3>2
  <2> QED BY <2>3, <2>4
<1>6. Cardinality({t \in 0 .. BlockLen - 1 : b * BlockLen + t < Tokens}) = m
  <2>1. {t \in 0 .. BlockLen - 1 : b * BlockLen + t < Tokens} = 0 .. m - 1
    <3>1. \A t \in 0 .. BlockLen - 1 : b * BlockLen + t < Tokens <=> t < x
      BY <1>1
    <3>2. \A t \in 0 .. BlockLen - 1 : t < x <=> t <= m - 1
      BY <1>1, <1>4
    <3>3. m <= BlockLen
      BY <1>1, <1>4
    <3>4. 0 .. m - 1 = {t \in 0 .. BlockLen - 1 : t <= m - 1}
      <4> HIDE DEF m
      <4> QED BY <1>1, <1>3, <3>3
    <3> HIDE DEF m
    <3> QED BY <3>1, <3>2, <3>4
  <2>2. Cardinality(0 .. m - 1) = m
    BY <1>3, FS_Interval
  <2> QED BY <2>1, <2>2
<1> QED BY <1>3, <1>5, <1>6

\* The sum over the rest of a group has equal terms too.
LEMMA TritonMassIs ==
  ASSUME NEW S \in SUBSET Blocks
  PROVE  Triton!FoldSet(LAMBDA b, sum : Triton!BlockLength(b) + sum, 0, S) = Promise!MassOf(S)
<1> DEFINE F(it) == [s \in SUBSET S |-> IF s = {} THEN 0 ELSE
                      LET x == CHOOSE x \in s : TRUE IN Triton!BlockLength(x) + it[s \ {x}]]
           G(it) == [s \in SUBSET S |-> IF s = {} THEN 0 ELSE
                      LET x == CHOOSE x \in s : TRUE IN Promise!Length(x) + it[s \ {x}]]
<1>1. ASSUME NEW it PROVE F(it) = G(it)
  <2>1. ASSUME NEW s \in SUBSET S, s # {}
        PROVE  Triton!BlockLength(CHOOSE x \in s : TRUE) = Promise!Length(CHOOSE x \in s : TRUE)
    BY <2>1, TritonMasses
  <2>2. \A s \in SUBSET S : F(it)[s] = G(it)[s]
    BY <2>1
  <2> QED BY <2>2
<1>2. Triton!FoldSet(LAMBDA b, sum : Triton!BlockLength(b) + sum, 0, S) = (CHOOSE it : it = F(it))[S]
  BY DEF Triton!FoldSet, Triton!MapThenFoldSet
<1>3. Promise!MassOf(S) = (CHOOSE it : it = G(it))[S]
  BY DEF Promise!MassOf, Promise!FoldSet, Promise!MapThenFoldSet
<1> HIDE DEF F, G
<1>4. (CHOOSE it : it = F(it)) = (CHOOSE it : it = G(it))
  BY <1>1
<1> QED BY <1>2, <1>3, <1>4

\* One group more.
LEMMA GroupMore ==
  ASSUME Ordered, NEW g \in Nat, Len(routes) = g, NEW S \in SUBSET Blocks, S \subseteq Members(g),
         routes' = Append(routes, S)
  PROVE  /\ Ordered' /\ Len(routes') = g + 1 /\ routes'[g + 1] = S
         /\ SubSeq(routes', 1, g) = routes /\ SubSeq(routes, 1, g) = routes
<1> DEFINE B == SUBSET Blocks
<1>1. routes \in Seq(B) /\ S \in B /\ \A i \in 1 .. g : routes[i] \subseteq Members(i - 1)
  BY DEF Ordered
<1> HIDE DEF B
<1>2. /\ routes' \in Seq(B) /\ Len(routes') = g + 1 /\ routes'[g + 1] = S
      /\ \A i \in 1 .. g : routes'[i] = routes[i]
  BY <1>1
<1>3. SubSeq(routes, 1, g) = routes
  BY <1>1, SubSeqFull
<1>4. SubSeq(routes', 1, g) = routes
  <2> DEFINE c == SubSeq(routes', 1, g)
  <2>1. c \in Seq(B) /\ Len(c) = g /\ \A i \in 1 .. g : c[i] = routes'[i]
    BY <1>2, SubSeqProperties
  <2> HIDE DEF c
  <2>2. c = routes
    BY <1>1, <1>2, <2>1, SeqEqual
  <2> QED BY <2>2 DEF c
<1>5. \A i \in 1 .. Len(routes') : routes'[i] \subseteq Members(i - 1)
  <2> SUFFICES ASSUME NEW i \in 1 .. Len(routes') PROVE routes'[i] \subseteq Members(i - 1)
    OBVIOUS
  <2>1. CASE i = g + 1
    <3>1. i - 1 = g
      BY <2>1
    <3> QED BY <1>2, <2>1, <3>1
  <2>2. CASE i # g + 1
    <3>1. i \in 1 .. g
      BY <1>2, <2>2
    <3> QED BY <1>1, <1>2, <3>1
  <2> QED BY <2>1, <2>2
<1>6. routes' \in Seq(SUBSET Blocks)
  BY <1>2 DEF B
<1> QED BY <1>2, <1>3, <1>4, <1>5, <1>6 DEF Ordered, Blocks

\* What is left of the blocks in order, and its least.
From(S, k) == {InOrder(S)[j] : j \in k + 1 .. Cardinality(S)}

\* The exact blocks still to be taken: the least of them is the next in order.
LEMMA Rest ==
  ASSUME NEW S \in SUBSET Blocks
  PROVE  /\ From(S, 0) = S
         /\ \A k \in 0 .. Cardinality(S) : From(S, k) = {} <=> k = Cardinality(S)
         /\ \A k \in 0 .. Cardinality(S) - 1 :
              LET b == InOrder(S)[k + 1] IN
              /\ b \in From(S, k) /\ b \in Blocks /\ From(S, k + 1) = From(S, k) \ {b}
              /\ \A x \in From(S, k) : b <= x /\ x \in Nat
<1> DEFINE n == Cardinality(S)
           e == InOrder(S)
<1>1. /\ n \in Nat /\ S \in SUBSET Nat /\ e \in Seq(S) /\ Len(e) = n
      /\ \A x \in S : \E i \in 1 .. n : e[i] = x
      /\ \A i, j \in 1 .. n : i < j => e[i] < e[j]
  BY BlockSets, Listed
<1>0. \A k : From(S, k) = {e[j] : j \in k + 1 .. n}
  BY DEF From
<1> HIDE DEF n, e
<1>2. \A i \in 1 .. n : e[i] \in S /\ e[i] \in Nat
  <2>1. \A i \in 1 .. Len(e) : e[i] \in S
    BY <1>1
  <2> QED BY <1>1, <2>1
<1>3. From(S, 0) = S
  <2>1. 0 + 1 .. n = 1 .. n
    OBVIOUS
  <2>2. From(S, 0) = {e[j] : j \in 1 .. n}
    BY <1>0, <2>1
  <2> QED BY <1>1, <1>2, <2>2
<1>4. \A k \in 0 .. n : From(S, k) = {} <=> k = n
  <2> SUFFICES ASSUME NEW k \in 0 .. n PROVE From(S, k) = {} <=> k = n
    OBVIOUS
  <2>1. k = n => k + 1 .. n = {}
    BY <1>1
  <2>2. k # n => k + 1 \in k + 1 .. n
    BY <1>1
  <2> QED BY <1>0, <2>1, <2>2
<1>5. ASSUME NEW k \in 0 .. n - 1
      PROVE  /\ e[k + 1] \in From(S, k) /\ e[k + 1] \in Blocks
             /\ From(S, k + 1) = From(S, k) \ {e[k + 1]}
             /\ \A x \in From(S, k) : e[k + 1] <= x /\ x \in Nat
  <2>1. k + 1 \in 1 .. n /\ k \in Nat
    BY <1>1
  <2>2. \A j \in k + 1 .. n : j \in 1 .. n /\ e[k + 1] <= e[j] /\ e[j] \in Nat /\ (j # k + 1 => e[j] # e[k + 1])
    <3> SUFFICES ASSUME NEW j \in k + 1 .. n
                 PROVE  j \in 1 .. n /\ e[k + 1] <= e[j] /\ e[j] \in Nat /\ (j # k + 1 => e[j] # e[k + 1])
      OBVIOUS
    <3>1. j \in 1 .. n /\ e[j] \in Nat /\ e[k + 1] \in Nat
      BY <1>2, <2>1
    <3>2. CASE j = k + 1
      BY <3>1, <3>2
    <3>3. CASE j # k + 1
      <4>1. k + 1 < j
        BY <3>1, <3>3
      <4>2. e[k + 1] < e[j]
        BY <1>1, <2>1, <3>1, <4>1
      <4> QED BY <3>1, <4>2
    <3> QED BY <3>2, <3>3
  <2>3. \A j : j \in k + 1 .. n <=> j = k + 1 \/ j \in (k + 1) + 1 .. n
    BY <1>1, <2>1
  <2>4. From(S, k) = {e[j] : j \in k + 1 .. n} /\ From(S, k + 1) = {e[j] : j \in (k + 1) + 1 .. n}
    BY <1>0
  <2>6. \A j \in (k + 1) + 1 .. n : j # k + 1
    BY <2>1
  <2>5. From(S, k + 1) = From(S, k) \ {e[k + 1]}
    BY <2>2, <2>3, <2>4, <2>6
  <2> QED BY <1>2, <2>1, <2>2, <2>3, <2>4, <2>5
<1> QED BY <1>3, <1>4, <1>5 DEF n, e

\* All warps that make their next addition together take a step of the promise.
LEMMA AllTake ==
  ASSUME NEW sum, taken = [w \in Warps |-> sum], NEW part, Len(sum) < Len(Promise!Plan),
         Promise!Plan[Len(sum) + 1] = part,
         taken' = [w \in Warps |-> Append(taken[w], part)], UNCHANGED <<job, routes, stored>>
  PROVE  Promise!Next /\ taken' = [w \in Warps |-> Append(sum, part)]
<1>1. Warps \in SUBSET Warps
  OBVIOUS
<1>2. Promise!Take(Warps)
  BY DEF Promise!Take
<1> QED BY <1>1, <1>2 DEF Promise!Next

\* A program of the Triton kernels: where it is, and what it has decided and added.
Program ==
  /\ DOMAIN pc = Warps /\ Producer \in Warps
  /\ reg \in [Warps -> [group : Int, exact : SUBSET Blocks, score : {None}]]
  /\ job \in JobsBy("triton")
  /\ Ordered

Walks(l, r) ==
  /\ l \in {"load", "route"} => /\ Len(routes) = r.group
                                /\ taken = [w \in Warps |-> SumAt(-1, r.group)]
  /\ l \in {"approximate", "exact"} => r.group < NumGroups /\ Len(routes) = r.group + 1
  /\ l = "approximate" => /\ r.exact = routes[r.group + 1]
                          /\ taken = [w \in Warps |-> SumAt(-1, r.group)]
  /\ l = "exact" => \E k \in 0 .. Cardinality(routes[r.group + 1]) :
                      /\ r.exact = From(routes[r.group + 1], k)
                      /\ taken = [w \in Warps |-> SumAt(k, r.group)]

ProgramInv == Program /\ reg[Producer].group \in 0 .. NumGroups /\ Walks(pc[Producer], reg[Producer])

ProgramGoes == ProgramInv' /\ [Promise!Next]_(Promise!promiseVars)

\* The names of the instance stand for the same things.
LEMMA TritonNames ==
  /\ Triton!NumGroups = NumGroups /\ Triton!Forced = Forced
  /\ \A g : Triton!Members(g) = Members(g)
  /\ \A g : Triton!Promise!KMeans(g) = Promise!KMeans(g) /\ Triton!Promise!VMeans(g) = Promise!VMeans(g)
  /\ \A B : Triton!Promise!KBlocks(B) = Promise!KBlocks(B) /\ Triton!Promise!VBlocks(B) = Promise!VBlocks(B)
  /\ \A k, v, B, m : Triton!Promise!Part(k, v, B, m) = Promise!Part(k, v, B, m)
  BY DEF Triton!NumGroups, Triton!Promise!NumGroups, Triton!Promise!NumBlocks, NumGroups,
         Promise!NumGroups, Promise!NumBlocks, Triton!Forced, Forced, Triton!NumBlocks, NumBlocks,
         Triton!Members, Triton!Promise!Members, Members, Promise!Members,
         Triton!Promise!KMeans, Triton!Promise!VMeans, Triton!Promise!KBlocks, Triton!Promise!VBlocks,
         Promise!KMeans, Promise!VMeans, Promise!KBlocks, Promise!VBlocks,
         Triton!Promise!Part, Promise!Part

\* A step of the Producer, to l, with the registers r.
LEMMA ProgramSteps ==
  ASSUME ProgramInv, NEW l, pc' = [pc EXCEPT ![Producer] = l], job' = job,
         NEW r \in [group : 0 .. NumGroups, exact : SUBSET Blocks, score : {None}],
         reg' = [reg EXCEPT ![Producer] = r], Ordered', Walks(l, r)'
  PROVE  ProgramInv'
<1>1. pc'[Producer] = l /\ DOMAIN pc' = Warps
  BY DEF ProgramInv, Program
<1>2. /\ reg' \in [Warps -> [group : Int, exact : SUBSET Blocks, score : {None}]]
      /\ reg'[Producer] = r /\ r.group \in 0 .. NumGroups
  <2> DEFINE B == SUBSET Blocks
  <2> HIDE DEF B
  <2>1. r \in [group : Int, exact : B, score : {None}] /\ r.group \in 0 .. NumGroups
    BY Sizes DEF B
  <2>2. reg \in [Warps -> [group : Int, exact : B, score : {None}]] /\ Producer \in Warps
    BY DEF ProgramInv, Program, B
  <2> QED BY <2>1, <2>2 DEF B
<1>3. Walks(pc[Producer], reg[Producer])'
  BY <1>1, <1>2 DEF Walks
<1> QED BY <1>1, <1>2, <1>3 DEF ProgramInv, Program, JobsBy, CallsBy, Blocks, NumBlocks, NumGroups

\* The registers of the one program with new exact blocks.
LEMMA RegisterTypes ==
  ASSUME ProgramInv
  PROVE  /\ reg[Producer] \in [group : 0 .. NumGroups, exact : SUBSET Blocks, score : {None}]
         /\ reg = [reg EXCEPT ![Producer] = reg[Producer]]
         /\ \A S : [reg EXCEPT ![Producer].exact = S]
                     = [reg EXCEPT ![Producer] = [reg[Producer] EXCEPT !.exact = S]]
         /\ \A S \in SUBSET Blocks :
              /\ [reg[Producer] EXCEPT !.exact = S]
                   \in [group : 0 .. NumGroups, exact : SUBSET Blocks, score : {None}]
              /\ [reg[Producer] EXCEPT !.exact = S].group = reg[Producer].group
              /\ [reg[Producer] EXCEPT !.exact = S].exact = S
<1> DEFINE B == SUBSET Blocks
<1>1. /\ reg \in [Warps -> [group : Int, exact : B, score : {None}]] /\ Producer \in Warps
      /\ reg[Producer].group \in 0 .. NumGroups
  BY DEF ProgramInv, Program
<1> HIDE DEF B
<1>2. /\ reg[Producer] \in [group : 0 .. NumGroups, exact : B, score : {None}]
      /\ reg = [reg EXCEPT ![Producer] = reg[Producer]]
      /\ \A S : [reg EXCEPT ![Producer].exact = S]
                  = [reg EXCEPT ![Producer] = [reg[Producer] EXCEPT !.exact = S]]
      /\ \A S \in B :
           /\ [reg[Producer] EXCEPT !.exact = S]
                \in [group : 0 .. NumGroups, exact : B, score : {None}]
           /\ [reg[Producer] EXCEPT !.exact = S].group = reg[Producer].group
           /\ [reg[Producer] EXCEPT !.exact = S].exact = S
  BY <1>1
<1> QED BY <1>2 DEF B

\* The program loads the queries and starts with the first group.
LEMMA TritonLoads ==
  ASSUME ProgramInv, Triton!Load
  PROVE  ProgramGoes
<1>0. PICK r : r = reg[Producer]
  OBVIOUS
<1>1. /\ pc[Producer] = "load" /\ pc' = [pc EXCEPT ![Producer] = "route"]
      /\ UNCHANGED <<job, reg, routes, taken, stored>>
  BY DEF Triton!Load, Triton!Step, Triton!Goto, Triton!results
<1>2. /\ r \in [group : 0 .. NumGroups, exact : SUBSET Blocks, score : {None}]
      /\ reg' = [reg EXCEPT ![Producer] = r]
  BY <1>0, <1>1, RegisterTypes
<1>3. Ordered' /\ Walks("route", r)'
  BY <1>0, <1>1
  DEF ProgramInv, Program, Ordered, Walks, SumAt, Members, Promise!Members, Blocks, NumBlocks
<1>4. ProgramInv'
  BY <1>1, <1>2, <1>3, ProgramSteps
<1> QED BY <1>1, <1>4 DEF ProgramGoes, Promise!promiseVars

\* It decides the exact blocks of its next group.
LEMMA TritonRoutes ==
  ASSUME ProgramInv, Triton!Route
  PROVE  ProgramGoes
<1>0. PICK r, g : r = reg[Producer] /\ g = r.group
  OBVIOUS
<1>a. PICK high \in SUBSET Members(g) :
        /\ pc[Producer] = "route" /\ pc' = [pc EXCEPT ![Producer] = "approximate"]
        /\ g < NumGroups
        /\ reg' = [reg EXCEPT ![Producer].exact = Selected(g, high)]
        /\ routes' = Append(routes, Selected(g, high))
        /\ UNCHANGED <<job, taken, stored>>
  BY <1>0, TritonNames DEF Triton!Route, Triton!Step, Triton!Goto, Triton!Group, Selected
<1>b. PICK S : S = Selected(g, high)
  OBVIOUS
<1>1. /\ S = Selected(g, high)
      /\ pc[Producer] = "route" /\ pc' = [pc EXCEPT ![Producer] = "approximate"]
      /\ g < NumGroups
      /\ reg' = [reg EXCEPT ![Producer].exact = S]
      /\ routes' = Append(routes, S)
      /\ UNCHANGED <<job, taken, stored>>
  BY <1>a, <1>b
<1>2. S \in SUBSET Blocks /\ S \subseteq Members(g)
  BY <1>1 DEF Selected, Members, Promise!Members, Blocks, NumBlocks
<1>3. g \in Nat /\ Len(routes) = g /\ taken = [w \in Warps |-> SumAt(-1, g)]
  BY <1>0, <1>1, Sizes DEF ProgramInv, Walks
<1>4. Ordered
  BY DEF ProgramInv, Program
<1>5. PICK n \in [group : 0 .. NumGroups, exact : SUBSET Blocks, score : {None}] :
        n.group = g /\ n.exact = S /\ reg' = [reg EXCEPT ![Producer] = n]
  BY <1>0, <1>1, <1>2, RegisterTypes
<1>6. /\ Ordered' /\ Len(routes') = g + 1 /\ routes'[g + 1] = S
      /\ SubSeq(routes', 1, g) = routes /\ SubSeq(routes, 1, g) = routes
  BY <1>1, <1>2, <1>3, <1>4, GroupMore
<1>7. taken' = [w \in Warps |-> SumAt(-1, g)']
  BY <1>1, <1>3, <1>6 DEF SumAt
<1>8. Walks("approximate", n)'
  <2>1. NumGroups' = NumGroups
    BY DEF NumGroups, Promise!NumGroups, Promise!NumBlocks
  <2> QED BY <1>1, <1>5, <1>6, <1>7, <2>1 DEF Walks
<1>9. ProgramInv'
  BY <1>1, <1>5, <1>6, <1>8, ProgramSteps
<1>10. Promise!Decide
  <2>1. Alone /\ Sunk
    BY JobsFit DEF ProgramInv, Program
  <2> QED BY <1>1, <1>3, <2>1, Decides
<1> QED BY <1>9, <1>10 DEF ProgramGoes, Promise!Next

\* It adds the rest of the group through the means, if there is any.
LEMMA TritonApproximates ==
  ASSUME ProgramInv, Triton!Approximate
  PROVE  ProgramGoes
<1>0. PICK r, g, S, rest : /\ r = reg[Producer] /\ g = r.group /\ S = routes[g + 1]
                           /\ rest = Members(g) \ S
  OBVIOUS
<1> DEFINE part == PartOf(Promise!KMeans(g), Promise!VMeans(g), rest)
<1>1. /\ pc[Producer] = "approximate" /\ pc' = [pc EXCEPT ![Producer] = "exact"]
      /\ UNCHANGED <<job, reg, routes, stored>>
  BY DEF Triton!Approximate, Triton!Step, Triton!Goto
<1>2. /\ g \in Nat /\ g < NumGroups /\ Len(routes) = g + 1 /\ r.exact = S
      /\ taken = [w \in Warps |-> SumAt(-1, g)] /\ Ordered
  BY <1>0, <1>1, Sizes DEF ProgramInv, Program, Walks
<1>3. Alone
  BY JobsFit DEF ProgramInv, Program
<1>4. S \in SUBSET Blocks /\ S \subseteq Members(g)
  BY <1>0, <1>2, OrderedSums
<1>5. rest \in SUBSET Blocks
  BY <1>0 DEF Members, Promise!Members, Blocks, NumBlocks
<1>6. IF rest = {} THEN taken' = taken ELSE taken' = [w \in Warps |-> Append(taken[w], part)]
  <2> DEFINE mass == Triton!FoldSet(LAMBDA b, sum : Triton!BlockLength(b) + sum, 0, rest)
  <2>1. mass = Promise!MassOf(rest)
    BY <1>5, TritonMassIs
  <2>2. IF rest = {} THEN UNCHANGED taken
        ELSE taken' = [w \in Warps |-> Append(taken[w],
               Triton!Promise!Part(Triton!Promise!KMeans(g), Triton!Promise!VMeans(g), rest, mass))]
    BY <1>0, <1>2, TritonNames DEF Triton!Approximate, Triton!AddAll, Triton!Group
  <2> HIDE DEF mass
  <2> QED BY <2>1, <2>2, TritonNames DEF PartOf
<1>7. IF S = Members(g) THEN SumAt(0, g) = SumAt(-1, g)
      ELSE /\ Len(SumAt(-1, g)) < Len(Promise!Plan)
           /\ Promise!Plan[Len(SumAt(-1, g)) + 1] = part
           /\ SumAt(0, g) = Append(SumAt(-1, g), part)
  BY <1>0, <1>2, <1>3, RestIsNext
<1> HIDE DEF part
<1>8. taken' = [w \in Warps |-> SumAt(0, g)] /\ [Promise!Next]_(Promise!promiseVars)
  <2>1. CASE rest = {}
    <3>1. S = Members(g)
      BY <1>0, <1>4, <2>1
    <3> QED BY <1>1, <1>2, <1>6, <1>7, <2>1, <3>1 DEF Promise!promiseVars
  <2>2. CASE rest # {}
    <3>1. S # Members(g)
      BY <1>0, <2>2
    <3> DEFINE sum == SumAt(-1, g)
    <3>2. /\ taken = [w \in Warps |-> sum] /\ Len(sum) < Len(Promise!Plan)
          /\ Promise!Plan[Len(sum) + 1] = part
          /\ taken' = [w \in Warps |-> Append(taken[w], part)]
          /\ SumAt(0, g) = Append(sum, part)
      BY <1>2, <1>6, <1>7, <2>2, <3>1
    <3> HIDE DEF sum
    <3> QED BY <1>1, <3>2, AllTake
  <2> QED BY <2>1, <2>2
<1>9. /\ r \in [group : 0 .. NumGroups, exact : SUBSET Blocks, score : {None}]
      /\ reg' = [reg EXCEPT ![Producer] = r]
  BY <1>0, <1>1, RegisterTypes
<1>10. Ordered' /\ Walks("exact", r)'
  <2>1. Ordered'
    BY <1>1, <1>2 DEF Ordered, Members, Promise!Members, Blocks, NumBlocks
  <2>2. r.exact = From(S, 0) /\ 0 \in 0 .. Cardinality(S)
    BY <1>2, <1>4, Rest, BlockSets
  <2>3. taken' = [w \in Warps |-> SumAt(0, g)'] /\ routes' = routes /\ NumGroups' = NumGroups
    BY <1>1, <1>8 DEF SumAt, NumGroups, Promise!NumGroups, Promise!NumBlocks
  <2>4. \E k \in 0 .. Cardinality(routes'[g + 1]) :
          /\ r.exact = From(routes'[g + 1], k)
          /\ taken' = [w \in Warps |-> SumAt(k, g)']
    BY <1>0, <2>2, <2>3
  <2> QED BY <1>0, <1>1, <1>2, <2>1, <2>3, <2>4 DEF Walks
<1>11. ProgramInv'
  BY <1>1, <1>9, <1>10, ProgramSteps
<1> QED BY <1>8, <1>11 DEF ProgramGoes

\* The least block left is the next of the blocks in order.
LEMMA LeastLeft ==
  ASSUME NEW S \in SUBSET Blocks, NEW k \in 0 .. Cardinality(S) - 1
  PROVE  Triton!Min(From(S, k)) = InOrder(S)[k + 1]
<1> DEFINE b == InOrder(S)[k + 1]
           left == From(S, k)
<1>1. b \in left /\ \A x \in left : b <= x /\ x \in Nat
  BY Rest
<1> HIDE DEF b, left
<1>2. ASSUME NEW x \in left, \A y \in left : x <= y PROVE x = b
  <2>1. x <= b /\ b <= x /\ x \in Nat /\ b \in Nat
    BY <1>1, <1>2
  <2> QED BY <2>1
<1>3. (CHOOSE x \in left : \A y \in left : x <= y) = b
  BY <1>1, <1>2
<1> QED BY <1>3 DEF Triton!Min, b, left

\* It adds the next exact block.
LEMMA TritonTakesExact ==
  ASSUME ProgramInv, Triton!Exact
  PROVE  ProgramGoes
<1>0. PICK r, g, S : r = reg[Producer] /\ g = r.group /\ S = routes[g + 1]
  OBVIOUS
<1>1. /\ pc[Producer] = "exact" /\ pc' = [pc EXCEPT ![Producer] = "exact"]
      /\ r.exact # {} /\ UNCHANGED <<job, routes, stored>>
      /\ reg' = [reg EXCEPT ![Producer].exact = r.exact \ {Triton!Min(r.exact)}]
  BY <1>0 DEF Triton!Exact, Triton!Step, Triton!Goto
<1>2. /\ g \in Nat /\ g < NumGroups /\ Len(routes) = g + 1 /\ Ordered
      /\ \E k \in 0 .. Cardinality(S) : r.exact = From(S, k) /\ taken = [w \in Warps |-> SumAt(k, g)]
  BY <1>0, <1>1, Sizes DEF ProgramInv, Program, Walks
<1>3. Alone
  BY JobsFit DEF ProgramInv, Program
<1>4. S \in SUBSET Blocks /\ Cardinality(S) \in Nat
  BY <1>0, <1>2, OrderedSums, BlockSets
<1>5. PICK k \in 0 .. Cardinality(S) - 1 :
        r.exact = From(S, k) /\ taken = [w \in Warps |-> SumAt(k, g)]
  <2>1. PICK k \in 0 .. Cardinality(S) : r.exact = From(S, k) /\ taken = [w \in Warps |-> SumAt(k, g)]
    BY <1>2
  <2>2. k # Cardinality(S)
    BY <1>1, <1>4, <2>1, Rest
  <2>3. k \in 0 .. Cardinality(S) - 1
    BY <1>4, <2>2
  <2> QED BY <2>1, <2>3
<1>6. PICK b : b = InOrder(S)[k + 1]
  OBVIOUS
<1>7. /\ Triton!Min(r.exact) = b /\ b \in Blocks /\ From(S, k + 1) = r.exact \ {b}
      /\ k + 1 \in 0 .. Cardinality(S)
  BY <1>4, <1>5, <1>6, Rest, LeastLeft
<1> DEFINE part == PartOf(Promise!KBlocks({b}), Promise!VBlocks({b}), {b})
<1>8. taken' = [w \in Warps |-> Append(taken[w], part)]
  <2> DEFINE keys == Triton!Cardinality({t \in 0 .. BlockLen - 1 : b * BlockLen + t < Tokens})
  <2>1. keys = Promise!MassOf({b})
    BY <1>7, TritonMasses DEF Triton!Cardinality, Cardinality
  <2>2. taken' = [w \in Warps |-> Append(taken[w],
          Triton!Promise!Part(Triton!Promise!KBlocks({b}), Triton!Promise!VBlocks({b}), {b}, keys))]
    BY <1>0, <1>7 DEF Triton!Exact, Triton!AddAll
  <2> HIDE DEF keys
  <2> QED BY <2>1, <2>2, TritonNames DEF PartOf
<1>9. /\ Len(SumAt(k, g)) < Len(Promise!Plan)
      /\ Promise!Plan[Len(SumAt(k, g)) + 1] = part
      /\ SumAt(k + 1, g) = Append(SumAt(k, g), part)
  BY <1>0, <1>2, <1>3, <1>5, <1>6, BlockIsNext
<1> HIDE DEF part
<1>10. taken' = [w \in Warps |-> SumAt(k + 1, g)] /\ Promise!Next
  <2> DEFINE sum == SumAt(k, g)
  <2>1. /\ taken = [w \in Warps |-> sum] /\ Len(sum) < Len(Promise!Plan)
        /\ Promise!Plan[Len(sum) + 1] = part /\ SumAt(k + 1, g) = Append(sum, part)
    BY <1>5, <1>9
  <2> HIDE DEF sum
  <2> QED BY <1>1, <1>8, <2>1, AllTake
<1>11. PICK n \in [group : 0 .. NumGroups, exact : SUBSET Blocks, score : {None}] :
         n.group = g /\ n.exact = From(S, k + 1) /\ reg' = [reg EXCEPT ![Producer] = n]
  <2>1. From(S, k + 1) \in SUBSET Blocks
    <3>1. r.exact \in SUBSET Blocks
      BY <1>0, RegisterTypes
    <3> QED BY <1>7, <3>1
  <2> QED BY <1>0, <1>1, <1>7, <2>1, RegisterTypes
<1>12. Ordered' /\ Walks("exact", n)'
  <2>1. Ordered'
    BY <1>1, <1>2 DEF Ordered, Members, Promise!Members, Blocks, NumBlocks
  <2>2. taken' = [w \in Warps |-> SumAt(k + 1, g)'] /\ routes' = routes /\ NumGroups' = NumGroups
    BY <1>1, <1>10 DEF SumAt, NumGroups, Promise!NumGroups, Promise!NumBlocks
  <2>3. \E i \in 0 .. Cardinality(routes'[g + 1]) :
          /\ n.exact = From(routes'[g + 1], i)
          /\ taken' = [w \in Warps |-> SumAt(i, g)']
    BY <1>0, <1>7, <1>11, <2>2
  <2> QED BY <1>0, <1>1, <1>2, <1>11, <2>1, <2>2, <2>3 DEF Walks
<1>13. ProgramInv'
  BY <1>1, <1>11, <1>12, ProgramSteps
<1> QED BY <1>10, <1>13 DEF ProgramGoes

\* It goes on to the next group after the last exact block.
LEMMA TritonGoesOn ==
  ASSUME ProgramInv, Triton!NextGroup
  PROVE  ProgramGoes
<1>0. PICK r, g, S : r = reg[Producer] /\ g = r.group /\ S = routes[g + 1]
  OBVIOUS
<1>1. /\ pc[Producer] = "exact" /\ pc' = [pc EXCEPT ![Producer] = "route"]
      /\ r.exact = {} /\ UNCHANGED <<job, routes, taken, stored>>
      /\ reg' = [reg EXCEPT ![Producer].group = g + 1]
  <2>1. reg' = [reg EXCEPT ![Producer].group = @ + 1]
    BY DEF Triton!NextGroup
  <2>2. reg' = [reg EXCEPT ![Producer].group = g + 1]
    BY <1>0, <2>1
  <2> QED BY <1>0, <2>2 DEF Triton!NextGroup, Triton!Step, Triton!Goto, Triton!results
<1>2. /\ g \in Nat /\ g < NumGroups /\ Len(routes) = g + 1 /\ Ordered
      /\ \E k \in 0 .. Cardinality(S) : r.exact = From(S, k) /\ taken = [w \in Warps |-> SumAt(k, g)]
  BY <1>0, <1>1, Sizes DEF ProgramInv, Program, Walks
<1>3. S \in SUBSET Blocks /\ Cardinality(S) \in Nat
  BY <1>0, <1>2, OrderedSums, BlockSets
<1>4. taken = [w \in Warps |-> SumAt(Cardinality(S), g)]
  BY <1>1, <1>2, <1>3, Rest
<1>5. taken = [w \in Warps |-> SumAt(-1, g + 1)]
  BY <1>0, <1>2, <1>4, OrderedSums
<1>6. PICK n \in [group : 0 .. NumGroups, exact : SUBSET Blocks, score : {None}] :
        n.group = g + 1 /\ reg' = [reg EXCEPT ![Producer] = n]
  <2> DEFINE B == SUBSET Blocks
  <2>1. r \in [group : 0 .. NumGroups, exact : B, score : {None}]
    BY <1>0, RegisterTypes
  <2>2. reg \in [Warps -> [group : Int, exact : B, score : {None}]] /\ Producer \in Warps
    BY DEF ProgramInv, Program
  <2> HIDE DEF B
  <2>3. g + 1 \in 0 .. NumGroups
    BY <1>2, Sizes
  <2>4. [r EXCEPT !.group = g + 1] \in [group : 0 .. NumGroups, exact : B, score : {None}]
    BY <2>1, <2>3
  <2>5. [r EXCEPT !.group = g + 1].group = g + 1
    BY <2>1
  <2>6. reg' = [reg EXCEPT ![Producer] = [r EXCEPT !.group = g + 1]]
    BY <1>0, <1>1, <2>2
  <2> QED BY <2>4, <2>5, <2>6 DEF B
<1>7. Ordered' /\ Walks("route", n)'
  <2>1. taken' = [w \in Warps |-> SumAt(-1, g + 1)'] /\ routes' = routes
    BY <1>1, <1>5 DEF SumAt
  <2> QED BY <1>1, <1>2, <1>6, <2>1 DEF Walks, Ordered, Members, Promise!Members, Blocks, NumBlocks
<1>8. ProgramInv'
  BY <1>1, <1>6, <1>7, ProgramSteps
<1> QED BY <1>1, <1>8 DEF ProgramGoes, Promise!promiseVars

\* It stores after the last group.
LEMMA TritonStores ==
  ASSUME ProgramInv, Triton!Store
  PROVE  ProgramGoes
<1>0. PICK r, g : r = reg[Producer] /\ g = r.group
  OBVIOUS
<1>1. /\ pc[Producer] = "route" /\ pc' = [pc EXCEPT ![Producer] = "done"]
      /\ g = NumGroups /\ stored' = TRUE /\ UNCHANGED <<job, reg, routes, taken>>
  BY <1>0, TritonNames DEF Triton!Store, Triton!Step, Triton!Goto, Triton!Group
<1>2. Len(routes) = g /\ taken = [w \in Warps |-> SumAt(-1, g)] /\ Ordered
  BY <1>0, <1>1 DEF ProgramInv, Program, Walks
<1>3. Alone
  BY JobsFit DEF ProgramInv, Program
<1>4. SumAt(-1, g) = Promise!Plan
  <2>1. routes \in Seq(SUBSET Blocks)
    BY <1>2 DEF Ordered
  <2>2. SubSeq(routes, 1, g) = routes
    <3> DEFINE B == SUBSET Blocks
    <3>1. routes \in Seq(B)
      BY <2>1
    <3> HIDE DEF B
    <3> QED BY <1>2, <3>1, SubSeqFull
  <2> QED BY <1>3, <2>1, <2>2, PlanIs DEF SumAt
<1>5. Promise!Store
  <2>1. Promise!Decided
    BY <1>1, <1>2, <1>3, Sizes DEF Promise!Decided, Alone
  <2>2. \A w \in Warps : taken[w] = Promise!Plan
    BY <1>2, <1>4
  <2> QED BY <1>1, <2>1, <2>2 DEF Promise!Store
<1>6. /\ r \in [group : 0 .. NumGroups, exact : SUBSET Blocks, score : {None}]
      /\ reg' = [reg EXCEPT ![Producer] = r]
  BY <1>0, <1>1, RegisterTypes
<1>7. Ordered' /\ Walks("done", r)'
  BY <1>1, <1>2 DEF Walks, Ordered, Members, Promise!Members, Blocks, NumBlocks
<1>8. ProgramInv'
  BY <1>1, <1>6, <1>7, ProgramSteps
<1> QED BY <1>5, <1>8 DEF ProgramGoes, Promise!Next

\* A program starts with nothing decided or added.
LEMMA TritonStarts ==
  ASSUME Triton!Init, JobsTriton \subseteq JobsBy("triton")
  PROVE  ProgramInv /\ Promise!Init
<1> USE ProducerAssumption
<1>1. /\ job \in JobsBy("triton") /\ pc = [w \in Warps |-> IF w = Producer THEN "load" ELSE "inStep"]
      /\ reg = [w \in Warps |-> [group |-> 0, exact |-> {}, score |-> None]]
      /\ Promise!Init
  BY DEF Triton!Init, Triton!Promise!Init, Promise!Init
<1>2. routes = <<>> /\ taken = [w \in Warps |-> <<>>]
  BY <1>1 DEF Promise!Init
<1>3. Ordered
  BY <1>2 DEF Ordered
<1>4. SumAt(-1, 0) = <<>>
  <2>1. PlanOf(<<>>) = <<>>
    <3>1. \A f : [i \in 1 .. Len(<<>>) |-> GroupPlan(i - 1, <<>>[i])] = <<>>
      OBVIOUS
    <3>2. FlattenSeq(<<>>) = <<>>
      BY DEF FlattenSeq
    <3> QED BY <3>1, <3>2 DEF PlanOf
  <2>2. SubSeq(routes, 1, 0) = <<>>
    BY <1>2
  <2> QED BY <2>1, <2>2 DEF SumAt
<1>5. Program
  <2>1. reg \in [Warps -> [group : Int, exact : SUBSET Blocks, score : {None}]]
    BY <1>1
  <2> QED BY <1>1, <1>3, <2>1 DEF Program
<1>6. pc[Producer] = "load" /\ reg[Producer].group = 0 /\ 0 \in 0 .. NumGroups
  BY <1>1, Sizes
<1>7. Walks(pc[Producer], reg[Producer])
  BY <1>2, <1>4, <1>6 DEF Walks
<1> QED BY <1>1, <1>5, <1>6, <1>7 DEF ProgramInv

\* The Triton kernels compute routed attention: for every group the program adds
\* the rest of it through the means and then each exact block once, in order and
\* with the number of keys that exist, and it stores when it has added all
\* (_forward_ptr, _forward_tma).  Its tiles are those of accepted calls on these
\* tokens (interface.py).
THEOREM TritonKeepsPromise ==
  ASSUME JobsTriton \subseteq JobsBy("triton")
  PROVE  Triton!Init /\ [][Triton!Next]_vars => KeepsPromise
<1>1. Triton!Init => ProgramInv /\ Promise!Init
  BY TritonStarts
<1>2. ProgramInv /\ [Triton!Next]_vars => ProgramInv' /\ [Promise!Next]_(Promise!promiseVars)
  <2> SUFFICES ASSUME ProgramInv, [Triton!Next]_vars PROVE ProgramGoes
    BY DEF ProgramGoes
  <2>1. CASE UNCHANGED vars
    <3>1. /\ UNCHANGED <<pc, reg, job, routes, taken, stored>>
          /\ NumGroups' = NumGroups
      BY <2>1 DEF vars, NumGroups, Promise!NumGroups, Promise!NumBlocks
    <3>2. Ordered'
      BY <3>1 DEF ProgramInv, Program, Ordered, Members, Promise!Members, Blocks, NumBlocks
    <3>3. Program'
      BY <3>1, <3>2 DEF ProgramInv, Program, JobsBy, CallsBy, Blocks, NumBlocks
    <3>4. Walks(pc[Producer], reg[Producer])'
      BY <3>1 DEF ProgramInv, Walks, SumAt
    <3> QED BY <3>1, <3>3, <3>4 DEF ProgramInv, ProgramGoes, Promise!promiseVars
  <2> QED BY <2>1, TritonLoads, TritonRoutes, TritonApproximates, TritonTakesExact, TritonGoesOn,
          TritonStores DEF Triton!Next, Triton!Consumes
<1> QED BY <1>1, <1>2, PTL DEF KeepsPromise, Promise!Spec

-----------------------------------------------------------------------------
(***************************************************************************)
(* The kernel that adds up the partial results of splits.  A warp has one  *)
(* commit group for each of the splits it adds next (Fetched), so the one  *)
(* it waits for is the one it adds; the LSEs are complete once every warp  *)
(* has waited for its own and all have met; and what a warp has added is   *)
(* what the partial results before its split leave (Shares).  That is the  *)
(* inductive invariant JoinInv.                                            *)
(***************************************************************************)
CONSTANTS
  JobsCombine,   \* the thread blocks of the kernel that joins splits
  Stages         \* stages a warp fetches into

Combine == INSTANCE SplitCombine

\* What is to be added of the first n of the partial results p.
Result(s, S) == PartOf(<<"LSE", s>>, <<"O", s>>, S)
Share(p, i) == IF p[i] = {} THEN <<>> ELSE <<Result(i - 1, p[i])>>
Shares(p, n) == FlattenSeq([i \in 1 .. n |-> Share(p, i)])
ShareParts == {Result(i, S) : i \in Nat, S \in SUBSET Blocks}

\* A share is one part or none.
LEMMA ShareTypes ==
  ASSUME NEW p \in Seq(SUBSET Blocks), NEW i \in 1 .. Len(p)
  PROVE  /\ Share(p, i) \in Seq(ShareParts)
         /\ Result(i - 1, p[i]) \in ShareParts
<1> DEFINE B == SUBSET Blocks
           part == Result(i - 1, p[i])
<1>1. p[i] \in B /\ i - 1 \in Nat
  <2>1. p \in Seq(B)
    OBVIOUS
  <2> HIDE DEF B
  <2> QED BY <2>1
<1>2. part \in ShareParts
  <2>1. PICK k, S : k = i - 1 /\ S = p[i]
    OBVIOUS
  <2>2. k \in Nat /\ S \in SUBSET Blocks
    BY <1>1, <2>1
  <2>3. Result(k, S) \in ShareParts
    BY <2>2 DEF ShareParts
  <2> QED BY <2>1, <2>3
<1> HIDE DEF part
<1>3. <<part>> \in Seq(ShareParts) /\ <<>> \in Seq(ShareParts)
  BY <1>2
<1> QED BY <1>2, <1>3 DEF Share, part

\* The partial results come in order; an empty one adds nothing.
LEMMA SharesGrow ==
  ASSUME NEW p \in Seq(SUBSET Blocks), NEW n \in 0 .. Len(p)
  PROVE  /\ Shares(p, n) \in Seq(ShareParts)
         /\ n < Len(p) => Shares(p, n + 1) = Shares(p, n) \o Share(p, n + 1)
<1> DEFINE s == [i \in 1 .. n |-> Share(p, i)]
           P == Seq(ShareParts)
<1>1. n \in Nat /\ Len(p) \in Nat
  OBVIOUS
<1>2. \A i \in 1 .. Len(p) : Share(p, i) \in P
  BY ShareTypes
<1>3. s \in Seq(P) /\ Len(s) = n
  <2>1. s \in [1 .. n -> P]
    BY <1>1, <1>2
  <2> HIDE DEF s, P
  <2> QED BY <1>1, <2>1
<1>4. Shares(p, n) \in P
  <2>1. <<>> \in P
    OBVIOUS
  <2> HIDE DEF s
  <2>2. FlattenSeq(s) \in Seq(ShareParts)
    BY <1>3, <2>1, FlattenAppend
  <2> QED BY <2>2 DEF Shares, s
<1>5. ASSUME n < Len(p) PROVE Shares(p, n + 1) = Shares(p, n) \o Share(p, n + 1)
  <2> DEFINE x == Share(p, n + 1)
             u == [i \in 1 .. n + 1 |-> Share(p, i)]
  <2>1. x \in P
    BY <1>1, <1>2, <1>5
  <2>2. u = Append(s, x)
    <3>1. \A i \in 1 .. n + 1 : Share(p, i) = IF i \in 1 .. n THEN s[i] ELSE x
      BY <1>1
    <3>2. u = [i \in 1 .. n + 1 |-> IF i \in 1 .. n THEN s[i] ELSE x]
      BY <3>1
    <3> HIDE DEF s, x, u, P
    <3>3. Append(s, x) = [i \in 1 .. n + 1 |-> IF i \in 1 .. n THEN s[i] ELSE x]
      <4> DEFINE a == Append(s, x)
      <4>1. a \in Seq(P) /\ Len(a) = n + 1 /\ \A i \in 1 .. n + 1 : a[i] = IF i \in 1 .. n THEN s[i] ELSE x
        BY <1>1, <1>3, <2>1
      <4> HIDE DEF a
      <4>2. a = [i \in 1 .. n + 1 |-> a[i]]
        BY <4>1
      <4> QED BY <4>1, <4>2 DEF a
    <3> QED BY <3>2, <3>3
  <2> HIDE DEF s, x, u
  <2>3. FlattenSeq(Append(s, x)) = FlattenSeq(s) \o x
    BY <1>3, <2>1, FlattenAppend
  <2> QED BY <2>2, <2>3 DEF Shares, s, x, u
<1> QED BY <1>4, <1>5

\* More of them go on from fewer.
LEMMA SharesGoOn ==
  ASSUME NEW p \in Seq(SUBSET Blocks), NEW n \in 0 .. Len(p), NEW m \in n .. Len(p)
  PROVE  \E t \in Seq(ShareParts) : Shares(p, m) = Shares(p, n) \o t
<1> DEFINE Good(k) == \E t \in Seq(ShareParts) : Shares(p, k) = Shares(p, n) \o t
           Bad == {k \in n .. Len(p) : ~Good(k)}
<1>1. Len(p) \in Nat /\ n \in Nat
  OBVIOUS
<1>2. Good(n)
  <2>1. Shares(p, n) \in Seq(ShareParts) /\ <<>> \in Seq(ShareParts)
    BY SharesGrow
  <2>2. Shares(p, n) = Shares(p, n) \o <<>>
    BY <2>1
  <2> QED BY <2>1, <2>2
<1>3. ASSUME NEW k \in n .. Len(p) - 1, Good(k) PROVE Good(k + 1)
  <2>1. PICK t \in Seq(ShareParts) : Shares(p, k) = Shares(p, n) \o t
    BY <1>3
  <2>2. k \in 0 .. Len(p) /\ k < Len(p) /\ k + 1 \in 1 .. Len(p)
    BY <1>1
  <2>3. Shares(p, k + 1) = Shares(p, k) \o Share(p, k + 1) /\ Shares(p, n) \in Seq(ShareParts)
        /\ Share(p, k + 1) \in Seq(ShareParts)
    BY <2>2, SharesGrow, ShareTypes
  <2> DEFINE a == Shares(p, n)
             x == Share(p, k + 1)
  <2>4. a \in Seq(ShareParts) /\ x \in Seq(ShareParts)
    BY <2>3
  <2> HIDE DEF a, x
  <2>5. t \o x \in Seq(ShareParts)
    BY <2>1, <2>4, ConcatProperties
  <2>6. (a \o t) \o x = a \o (t \o x)
    <3> DEFINE S == ShareParts
    <3>1. a \in Seq(S) /\ t \in Seq(S) /\ x \in Seq(S)
      BY <2>1, <2>4
    <3> HIDE DEF S
    <3> QED BY <3>1, ConcatAssociative
  <2>7. Shares(p, k + 1) = a \o (t \o x)
    BY <2>1, <2>3, <2>6 DEF a, x
  <2> QED BY <2>5, <2>7 DEF a
<1> HIDE DEF Good
<1>4. Bad = {}
  <2> SUFFICES ASSUME Bad # {} PROVE FALSE
    OBVIOUS
  <2>1. Bad \in SUBSET Nat
    BY <1>1
  <2>2. PICK k \in Bad : \A i \in Bad : k <= i
    BY <2>1, LeastNat
  <2>3. k \in n .. Len(p) /\ ~Good(k)
    OBVIOUS
  <2>4. k # n
    BY <1>2, <2>3
  <2>5. k - 1 \in n .. Len(p) - 1 /\ (k - 1) + 1 = k
    BY <1>1, <2>3, <2>4
  <2>6. ~Good(k - 1)
    BY <1>3, <2>3, <2>5
  <2>7. k - 1 \in Bad
    BY <1>1, <2>5, <2>6
  <2> QED BY <1>1, <2>2, <2>5, <2>7
<1> QED BY <1>4 DEF Good

\* Without a partial result that is not empty they stay the same.
LEMMA SharesStay ==
  ASSUME NEW p \in Seq(SUBSET Blocks), NEW n \in 0 .. Len(p), NEW m \in n .. Len(p),
         \A i \in n + 1 .. Len(p) : p[i] = {}
  PROVE  Shares(p, m) = Shares(p, n)
<1> DEFINE Bad == {k \in n .. Len(p) : Shares(p, k) # Shares(p, n)}
<1>1. Len(p) \in Nat /\ n \in Nat
  OBVIOUS
<1>2. ASSUME NEW k \in n .. Len(p) - 1, Shares(p, k) = Shares(p, n)
      PROVE  Shares(p, k + 1) = Shares(p, n)
  <2>1. k \in 0 .. Len(p) /\ k < Len(p) /\ k + 1 \in n + 1 .. Len(p)
    BY <1>1
  <2>2. Shares(p, k + 1) = Shares(p, k) \o Share(p, k + 1) /\ Shares(p, k) \in Seq(ShareParts)
    BY <2>1, SharesGrow
  <2>3. Share(p, k + 1) = <<>>
    BY <2>1 DEF Share
  <2> DEFINE a == Shares(p, k)
  <2>4. a \in Seq(ShareParts)
    BY <2>2
  <2> HIDE DEF a
  <2>5. a \o <<>> = a
    BY <2>4
  <2> QED BY <1>2, <2>2, <2>3, <2>5 DEF a
<1>3. Bad = {}
  <2> SUFFICES ASSUME Bad # {} PROVE FALSE
    OBVIOUS
  <2>1. Bad \in SUBSET Nat
    BY <1>1
  <2>2. PICK k \in Bad : \A i \in Bad : k <= i
    BY <2>1, LeastNat
  <2>3. k \in n .. Len(p) /\ k # n
    OBVIOUS
  <2>4. k - 1 \in n .. Len(p) - 1 /\ (k - 1) + 1 = k
    BY <1>1, <2>3
  <2>5. Shares(p, k - 1) # Shares(p, n)
    <3>1. Shares(p, k) # Shares(p, n)
      OBVIOUS
    <3> QED BY <1>2, <2>4, <3>1
  <2>6. k - 1 \in Bad
    BY <1>1, <2>4, <2>5
  <2> QED BY <1>1, <2>2, <2>4, <2>6
<1> QED BY <1>3

\* What follows the first part of a concatenation.
LEMMA NextOfConcat ==
  ASSUME NEW P, NEW a \in Seq(P), NEW x \in P, NEW t \in Seq(P)
  PROVE  Len(a) < Len(Append(a, x) \o t) /\ (Append(a, x) \o t)[Len(a) + 1] = x
<1> DEFINE b == Append(a, x)
<1>1. b \in Seq(P) /\ Len(b) = Len(a) + 1 /\ b[Len(a) + 1] = x /\ Len(a) \in Nat
  OBVIOUS
<1> HIDE DEF b
<1>2. Len(b \o t) = Len(b) + Len(t) /\ Len(t) \in Nat /\ \A i \in 1 .. Len(b) : (b \o t)[i] = b[i]
  BY <1>1
<1>3. Len(a) + 1 \in 1 .. Len(b)
  BY <1>1
<1> QED BY <1>1, <1>2, <1>3 DEF b

\* The next partial result that is not empty is the next part of the whole.
LEMMA ShareIsNext ==
  ASSUME NEW p \in Seq(SUBSET Blocks), NEW n \in 0 .. Len(p) - 1
  PROVE  LET part == Result(n, p[n + 1]) IN
         IF p[n + 1] = {} THEN Shares(p, n + 1) = Shares(p, n)
         ELSE /\ Shares(p, n + 1) = Append(Shares(p, n), part)
              /\ Len(Shares(p, n)) < Len(Shares(p, Len(p)))
              /\ Shares(p, Len(p))[Len(Shares(p, n)) + 1] = part
<1> DEFINE part == Result(n, p[n + 1])
           a == Shares(p, n)
           all == Shares(p, Len(p))
<1>1. /\ Len(p) \in Nat /\ n \in 0 .. Len(p) /\ n < Len(p) /\ n + 1 \in 0 .. Len(p)
      /\ n + 1 \in 1 .. Len(p) /\ Len(p) \in n + 1 .. Len(p) /\ (n + 1) - 1 = n
  OBVIOUS
<1>2. a \in Seq(ShareParts) /\ Shares(p, n + 1) = a \o Share(p, n + 1) /\ part \in ShareParts
  BY <1>1, SharesGrow, ShareTypes
<1>3. Share(p, n + 1) = IF p[n + 1] = {} THEN <<>> ELSE <<part>>
  BY <1>1 DEF Share
<1>4. PICK t \in Seq(ShareParts) : all = Shares(p, n + 1) \o t
  BY <1>1, SharesGoOn
<1> HIDE DEF a, part, all
<1>5. CASE p[n + 1] = {}
  <2>1. a \o <<>> = a
    BY <1>2
  <2> QED BY <1>2, <1>3, <1>5, <2>1 DEF a
<1>6. CASE p[n + 1] # {}
  <2>1. a \o <<part>> = Append(a, part)
    BY <1>2, AppendIsConcat
  <2>2. all = Append(a, part) \o t
    BY <1>2, <1>3, <1>4, <1>6, <2>1
  <2>3. Len(a) < Len(all) /\ all[Len(a) + 1] = part
    BY <1>2, <1>4, <2>2, NextOfConcat
  <2> QED BY <1>2, <1>3, <1>6, <2>1, <2>3 DEF a, part, all
<1> QED BY <1>5, <1>6 DEF part, a, all

\* The last split whose partial result is not empty, or -1.
LastFull(p) == Combine!Max({-1} \union {s \in 0 .. Len(p) - 1 : p[s + 1] # {}})

\* Nothing is left to add behind the last partial result that is not empty.
LEMMA LastFullIs ==
  ASSUME NEW p \in Seq(SUBSET Blocks)
  PROVE  /\ LastFull(p) \in -1 .. Len(p) - 1
         /\ \A i \in LastFull(p) + 2 .. Len(p) : p[i] = {}
<1> DEFINE F == {-1} \union {s \in 0 .. Len(p) - 1 : p[s + 1] # {}}
           n == Len(p)
           T == {n - 1 - x : x \in F}
<1>1. n \in Nat /\ F \subseteq -1 .. n - 1 /\ -1 \in F
  OBVIOUS
<1> HIDE DEF F
<1>2. T \in SUBSET Nat /\ T # {}
  <2> HIDE DEF n
  <2> QED BY <1>1
<1>3. PICK m \in T : \A k \in T : m <= k
  BY <1>2, LeastNat
<1>4. PICK x \in F : m = n - 1 - x
  OBVIOUS
<1>5. \A y \in F : x >= y
  <2> SUFFICES ASSUME NEW y \in F PROVE x >= y
    OBVIOUS
  <2>1. n - 1 - y \in T
    OBVIOUS
  <2>2. n - 1 - x <= n - 1 - y
    BY <1>3, <1>4, <2>1
  <2> HIDE DEF n
  <2> QED BY <1>1, <2>2
<1>6. LastFull(p) \in F /\ \A y \in F : LastFull(p) >= y
  BY <1>5 DEF LastFull, Combine!Max, F
<1>7. ASSUME NEW i \in LastFull(p) + 2 .. n PROVE p[i] = {}
  <2>1. LastFull(p) \in Int /\ LastFull(p) >= -1 /\ i \in Int
    <3> HIDE DEF n
    <3>1. LastFull(p) \in -1 .. n - 1
      BY <1>1, <1>6
    <3> QED BY <1>1, <3>1
  <2>2. i - 1 \in 0 .. n - 1 /\ (i - 1) + 1 = i /\ ~(LastFull(p) >= i - 1)
    BY <1>1, <2>1
  <2>3. i - 1 \notin F
    BY <1>6, <2>2
  <2> QED BY <2>2, <2>3 DEF F
<1> QED BY <1>1, <1>6, <1>7

\* All that is promised where no group is walked over.
LEMMA CombinePlan ==
  ASSUME NEW p \in Seq(SUBSET Blocks), job.partials = p, routes = <<>>
  PROVE  Promise!Plan = Shares(p, Len(p))
<1> DEFINE n == Len(p)
<1>1. Promise!PartialParts = Shares(p, n)
  BY SameFlatten DEF Promise!PartialParts, Shares, Share, Result, PartOf
<1>2. Promise!Plan = Promise!PartialParts \o <<>>
  <2> DEFINE f(i) == Promise!ApproximateParts(job.first + i - 1, routes[i])
                       \o (IF Promise!Closes(i) THEN Promise!ExactParts(Promise!JoinedExact(i)) ELSE <<>>)
  <2>1. Promise!Plan = Promise!PartialParts \o FlattenSeq([i \in 1 .. Len(routes) |-> f(i)])
    BY SameFlatten DEF Promise!Plan
  <2> HIDE DEF f
  <2>2. Len(routes) = 0
    OBVIOUS
  <2>3. [i \in 1 .. 0 |-> f(i)] = <<>>
    OBVIOUS
  <2>4. FlattenSeq(<<>>) = <<>>
    BY DEF FlattenSeq
  <2> QED BY <2>1, <2>2, <2>3, <2>4
<1>3. Shares(p, n) \in Seq(ShareParts)
  <2>1. n \in 0 .. Len(p)
    OBVIOUS
  <2> HIDE DEF n
  <2> QED BY <2>1, SharesGrow
<1> DEFINE a == Shares(p, n)
<1>4. a \in Seq(ShareParts)
  BY <1>3
<1> HIDE DEF a, n
<1>5. a \o <<>> = a
  BY <1>4
<1> QED BY <1>1, <1>2, <1>5 DEF a, n

\* The thread blocks that add up partial results walk over no group themselves.
Joinable(j) == j.first \in Nat /\ j.last = j.first /\ j.partials \in Seq(SUBSET Blocks)

\* Several warps, and stages to fetch into.
CombineSizes == Stages \in Nat \ {0} /\ \E w \in Warps : w # Producer

JoinPlaces == {"loadLSE", "prefetch", "syncLSE", "scale", "syncScales", "readValid", "add", "done"}
Copies == [split : Nat, stage : Nat]
JoinRegs == [split : Nat, last : Int, groups : Seq(SUBSET Copies), score : {None}]
JoinScratch ==
  [lse : SUBSET Nat, valid : SUBSET (Warps \X Int), stage : [Warps -> [0 .. Stages - 1 -> Int]]]

\* The copies a warp has started and not waited for: one group for each of the
\* splits it adds next.
Fetched(r, p) ==
  /\ Len(r.groups) = Stages - 1
  /\ \A i \in 1 .. Stages - 1 : r.split + i - 1 <= LastFull(p) =>
       r.groups[i] = {Combine!Fetch(r.split + i - 1, (r.split + i - 1) % Stages)}

Loads(p, w) == {s \in 0 .. Len(p) - 1 : Combine!Loader(s) = w}

\* Every warp's rows, with the last split that has any mass.
Valid(p) == Warps \X {LastFull(p)}

JoinAt(l, r, w, p, sc) ==
  /\ r.split \in 0 .. Len(p)
  /\ l \notin {"add", "done"} => r.split = 0
  /\ l = "loadLSE" => r.groups = <<>>
  /\ l = "prefetch" => r.groups = <<{Combine!LSE(s) : s \in Loads(p, w)}>>
  /\ l \notin {"loadLSE", "prefetch"} => Loads(p, w) \subseteq sc.lse /\ Fetched(r, p)
  /\ l \notin {"loadLSE", "prefetch", "syncLSE"} => 0 .. Len(p) - 1 \subseteq sc.lse
  /\ l \in {"syncScales", "readValid", "add", "done"} => <<w, LastFull(p)>> \in sc.valid
  /\ l \in {"readValid", "add", "done"} => Valid(p) \subseteq sc.valid
  /\ l \in {"add", "done"} => r.last = LastFull(p)
  /\ l = "done" => r.split > LastFull(p)

Joining ==
  /\ pc \in [Warps -> JoinPlaces] /\ reg \in [Warps -> JoinRegs] /\ scratch \in JoinScratch
  /\ Joinable(job) /\ routes = <<>> /\ raced = FALSE
  /\ scratch.valid \subseteq Valid(job.partials)
  /\ taken = [w \in Warps |-> Shares(job.partials, reg[w].split)]
  /\ stored \in BOOLEAN /\ (stored => \A w \in Warps : pc[w] = "done")

JoinInv == Joining /\ \A w \in Warps : JoinAt(pc[w], reg[w], w, job.partials, scratch)

JoinGoes == JoinInv' /\ [Promise!Next]_(Promise!promiseVars)

\* Every LSE has a warp that fetches it.
LEMMA Loaders == ASSUME CombineSizes, NEW s PROVE Combine!Loader(s) \in Warps
  BY ProducerAssumption DEF CombineSizes, Combine!Loader

\* What shared memory holds for all warps stays.
LEMMA StillLoaded ==
  ASSUME NEW l, NEW r, NEW w, NEW p, NEW a, NEW b, a.lse \subseteq b.lse, a.valid \subseteq b.valid,
         JoinAt(l, r, w, p, a)
  PROVE  JoinAt(l, r, w, p, b)
  BY DEF JoinAt

\* A step of warp w, to l, with the registers r.
LEMMA JoinSteps ==
  ASSUME JoinInv, NEW w \in Warps, NEW p, p = job.partials,
         NEW l \in JoinPlaces, NEW r \in JoinRegs, NEW sc \in JoinScratch,
         pc' = [pc EXCEPT ![w] = l], reg' = [reg EXCEPT ![w] = r], scratch' = sc,
         scratch.lse \subseteq sc.lse, scratch.valid \subseteq sc.valid, sc.valid \subseteq Valid(p),
         UNCHANGED <<job, routes, raced>>,
         taken' = [taken EXCEPT ![w] = Shares(p, r.split)],
         JoinAt(l, r, w, p, sc),
         stored' \in BOOLEAN, stored' => \A v \in Warps : pc'[v] = "done"
  PROVE  JoinInv'
<1>1. /\ pc' \in [Warps -> JoinPlaces] /\ reg' \in [Warps -> JoinRegs]
      /\ pc'[w] = l /\ reg'[w] = r
      /\ \A v \in Warps \ {w} : pc'[v] = pc[v] /\ reg'[v] = reg[v]
  BY DEF JoinInv, Joining
<1>2. \A v \in Warps : JoinAt(pc'[v], reg'[v], v, p, sc)
  <2> SUFFICES ASSUME NEW v \in Warps PROVE JoinAt(pc'[v], reg'[v], v, p, sc)
    OBVIOUS
  <2>1. CASE v = w
    BY <1>1, <2>1
  <2>2. CASE v # w
    <3>1. JoinAt(pc[v], reg[v], v, p, scratch)
      BY DEF JoinInv
    <3> QED BY <1>1, <2>2, <3>1, StillLoaded
  <2> QED BY <2>1, <2>2
<1>3. taken' = [v \in Warps |-> Shares(p, reg'[v].split)]
  <2>1. taken = [v \in Warps |-> Shares(p, reg[v].split)]
    BY DEF JoinInv, Joining
  <2>2. \A v \in Warps : Shares(p, reg'[v].split) =
          IF v = w THEN Shares(p, r.split) ELSE Shares(p, reg[v].split)
    BY <1>1
  <2> QED BY <2>1, <2>2
<1>4. JoinPlaces' = JoinPlaces /\ JoinRegs' = JoinRegs /\ JoinScratch' = JoinScratch
      /\ Valid(job.partials)' = Valid(p)
  BY DEF JoinPlaces, JoinRegs, Copies, JoinScratch, Valid, LastFull
<1>5. Joinable(job)'
  BY DEF JoinInv, Joining, Joinable, Blocks, NumBlocks
<1>6. Joining'
  <2>1. routes' = <<>> /\ raced' = FALSE /\ job'.partials = p
    BY DEF JoinInv, Joining
  <2> QED BY <1>1, <1>3, <1>4, <1>5, <2>1 DEF Joining
<1> QED BY <1>2, <1>6 DEF JoinInv

\* Of as many groups as there are stages, the first is waited for.
LEMMA OldestLands ==
  ASSUME CombineSizes, NEW g \in Seq(SUBSET Copies), Len(g) = Stages
  PROVE  /\ g[1] \in SUBSET Copies /\ Combine!Landing(g, Stages - 1) = g[1]
         /\ Combine!Pending(g, Stages - 1) \in Seq(SUBSET Copies)
         /\ Len(Combine!Pending(g, Stages - 1)) = Stages - 1
         /\ \A i \in 1 .. Stages - 1 : Combine!Pending(g, Stages - 1)[i] = g[i + 1]
<1> DEFINE B == SUBSET Copies
           h == SubSeq(g, 2, Stages)
<1>1. g \in Seq(B) /\ Stages \in Nat \ {0} /\ 1 \in 1 .. Stages
  BY DEF CombineSizes
<1> HIDE DEF B
<1>2. g[1] \in B
  BY <1>1
<1>3. Combine!Landing(g, Stages - 1) = g[1]
  <2>1. 1 .. Len(g) - (Stages - 1) = {1}
    BY <1>1
  <2>2. UNION {g[i] : i \in {1}} = g[1]
    OBVIOUS
  <2> QED BY <2>1, <2>2 DEF Combine!Landing
<1>4. Combine!Pending(g, Stages - 1) = h
  <2>1. Len(g) - (Stages - 1) + 1 = 2
    BY <1>1
  <2>2. Combine!Max({1, 2}) = 2
    BY DEF Combine!Max
  <2> QED BY <2>1, <2>2 DEF Combine!Pending
<1>5. h \in Seq(B) /\ Len(h) = Stages - 1 /\ \A i \in 1 .. Stages - 1 : h[i] = g[i + 1]
  <2>1. CASE Stages = 1
    BY <1>1, <2>1
  <2>2. CASE Stages # 1
    BY <1>1, <2>2
  <2> QED BY <2>1, <2>2
<1> QED BY <1>2, <1>3, <1>4, <1>5 DEF B

\* What landed copies leave.
LEMMA CopiesLand ==
  ASSUME CombineSizes, scratch \in JoinScratch, NEW w \in Warps, NEW X \in SUBSET Copies
  PROVE  LET sc == Combine!AfterLanding(w, X) IN
         /\ sc \in JoinScratch /\ scratch.lse \subseteq sc.lse /\ scratch.valid = sc.valid
         /\ \A c \in X : c.stage = Stages => c.split \in sc.lse
         /\ \A s, i : X = {Combine!Fetch(s, i)} /\ i \in 0 .. Stages - 1 => sc.stage[w][i] = s
<1> DEFINE sc == Combine!AfterLanding(w, X)
           lse == scratch.lse \union {c.split : c \in {x \in X : x.stage = Stages}}
           row == [i \in DOMAIN scratch.stage[w] |->
                    IF \E c \in X : c.stage = i THEN (CHOOSE c \in X : c.stage = i).split
                    ELSE scratch.stage[w][i]]
<1>1. sc = [scratch EXCEPT !.lse = lse, !.stage[w] = row]
  BY DEF Combine!AfterLanding
<1>2. /\ scratch \in [lse : SUBSET Nat, valid : SUBSET (Warps \X Int),
                       stage : [Warps -> [0 .. Stages - 1 -> Int]]]
      /\ \A c \in X : c.split \in Nat /\ c.stage \in Nat
  BY DEF JoinScratch, Copies
<1>3. DOMAIN scratch.stage[w] = 0 .. Stages - 1 /\ scratch.stage[w] \in [0 .. Stages - 1 -> Int]
  BY <1>2
<1>4. lse \in SUBSET Nat
  BY <1>2
<1>5. row \in [0 .. Stages - 1 -> Int]
  <2>1. \A i \in 0 .. Stages - 1 :
          (\E c \in X : c.stage = i) => (CHOOSE c \in X : c.stage = i).split \in Int
    BY <1>2
  <2> QED BY <1>3, <2>1
<1>6. ASSUME NEW s, NEW i, X = {Combine!Fetch(s, i)}, i \in 0 .. Stages - 1 PROVE row[i] = s
  <2>1. Combine!Fetch(s, i).stage = i /\ Combine!Fetch(s, i).split = s
    BY DEF Combine!Fetch
  <2>2. \E c \in X : c.stage = i
    BY <1>6, <2>1
  <2>3. (CHOOSE c \in X : c.stage = i) = Combine!Fetch(s, i)
    BY <1>6, <2>1
  <2> QED BY <1>3, <1>6, <2>1, <2>2, <2>3
<1>7. \A c \in X : c.stage = Stages => c.split \in lse
  OBVIOUS
<1>8. scratch.lse \subseteq lse
  OBVIOUS
<1> HIDE DEF lse, row
<1>9. sc.lse = lse /\ sc.stage[w] = row /\ sc.valid = scratch.valid /\ sc \in JoinScratch
  <2> DEFINE R == [0 .. Stages - 1 -> Int]
             Left == SUBSET (Warps \X Int)
             st == [scratch.stage EXCEPT ![w] = row]
  <2>1. scratch \in [lse : SUBSET Nat, valid : Left, stage : [Warps -> R]] /\ row \in R
    BY <1>2, <1>5
  <2> HIDE DEF R, Left
  <2>2. st \in [Warps -> R] /\ st[w] = row
    BY <2>1
  <2>3. sc = [scratch EXCEPT !.lse = lse, !.stage = st]
    BY <1>1, <2>1
  <2> HIDE DEF st, sc
  <2>4. /\ sc.lse = lse /\ sc.stage = st /\ sc.valid = scratch.valid
        /\ sc \in [lse : SUBSET Nat, valid : Left, stage : [Warps -> R]]
    BY <1>4, <2>1, <2>2, <2>3
  <2> QED BY <2>2, <2>4 DEF R, Left, JoinScratch
<1> QED BY <1>6, <1>7, <1>8, <1>9 DEF sc

\* The first warps' steps and the registers they leave.
LEMMA JoinFacts ==
  ASSUME JoinInv, NEW w \in Warps, NEW p, p = job.partials
  PROVE  /\ p \in Seq(SUBSET Blocks) /\ Len(p) \in Nat /\ Combine!LoadedBy(w) = Loads(p, w)
         /\ Combine!Splits = 0 .. Len(p) - 1
         /\ reg[w] \in JoinRegs /\ pc[w] \in JoinPlaces
         /\ JoinAt(pc[w], reg[w], w, p, scratch)
         /\ scratch \in JoinScratch /\ scratch.valid \subseteq Valid(p)
         /\ taken[w] = Shares(p, reg[w].split)
         /\ taken = [taken EXCEPT ![w] = taken[w]]
         /\ pc[w] # "done" => stored = FALSE
<1>1. Joining /\ JoinAt(pc[w], reg[w], w, p, scratch)
  BY DEF JoinInv
<1>2. p \in Seq(SUBSET Blocks) /\ Len(p) \in Nat
  BY <1>1 DEF Joining, Joinable
<1>3. Combine!LoadedBy(w) = Loads(p, w) /\ Combine!Splits = 0 .. Len(p) - 1
  BY DEF Combine!LoadedBy, Combine!Splits, Loads
<1>4. taken[w] = Shares(p, reg[w].split) /\ taken = [taken EXCEPT ![w] = taken[w]]
  BY <1>1 DEF Joining
<1> QED BY <1>1, <1>2, <1>3, <1>4 DEF Joining

\* The registers of a warp with new commit groups.
LEMMA NewGroups ==
  ASSUME JoinInv, NEW w \in Warps, NEW g \in Seq(SUBSET Copies), reg' = [reg EXCEPT ![w].groups = g]
  PROVE  \E r \in JoinRegs : /\ r.groups = g /\ r.split = reg[w].split /\ r.last = reg[w].last
                             /\ reg' = [reg EXCEPT ![w] = r]
<1> DEFINE G == Seq(SUBSET Copies)
           r == [reg[w] EXCEPT !.groups = g]
<1>1. reg \in [Warps -> [split : Nat, last : Int, groups : G, score : {None}]] /\ g \in G
  BY DEF JoinInv, Joining, JoinRegs
<1> HIDE DEF G
<1>2. /\ r \in [split : Nat, last : Int, groups : G, score : {None}]
      /\ r.groups = g /\ r.split = reg[w].split /\ r.last = reg[w].last
      /\ reg' = [reg EXCEPT ![w] = r]
  BY <1>1
<1> QED BY <1>2 DEF G, JoinRegs

\* A warp starts the copies of its LSEs.
LEMMA CombineLoads ==
  ASSUME CombineSizes, JoinInv, NEW w \in Warps, Combine!LoadLSE(w)
  PROVE  JoinGoes
<1>0. PICK p, m : p = job.partials /\ m = scratch
  OBVIOUS
<1> DEFINE X == {Combine!LSE(s) : s \in Loads(p, w)}
<1>1. /\ pc[w] = "loadLSE" /\ pc' = [pc EXCEPT ![w] = "prefetch"]
      /\ UNCHANGED <<job, scratch, routes, taken, stored, raced>>
      /\ reg' = [reg EXCEPT ![w].groups = reg[w].groups \o <<X>>]
  BY <1>0, JoinFacts DEF Combine!LoadLSE, Combine!Step, Combine!Goto, Combine!Commit, Combine!memory, Combine!results
<1>2. reg[w].groups = <<>> /\ reg[w].split = 0 /\ 0 \in 0 .. Len(p)
  BY <1>0, <1>1, JoinFacts DEF JoinAt
<1>3. X \in SUBSET Copies
  BY DEF Combine!LSE, Loads, Copies, CombineSizes
<1>4. PICK g \in Seq(SUBSET Copies) : g = <<X>> /\ g = reg[w].groups \o <<X>>
  <2> DEFINE B == SUBSET Copies
  <2>1. X \in B
    BY <1>3
  <2> HIDE DEF B, X
  <2>2. <<X>> \in Seq(B) /\ <<>> \o <<X>> = <<X>>
    BY <2>1
  <2> QED BY <1>2, <2>2 DEF B
<1> HIDE DEF X
<1>5. PICK r \in JoinRegs : r.groups = <<X>> /\ r.split = 0 /\ reg' = [reg EXCEPT ![w] = r]
  <2>1. reg' = [reg EXCEPT ![w].groups = g]
    BY <1>1, <1>4
  <2>2. PICK r \in JoinRegs : /\ r.groups = g /\ r.split = reg[w].split
                             /\ reg' = [reg EXCEPT ![w] = r]
    BY <2>1, NewGroups
  <2> QED BY <1>2, <1>4, <2>1, <2>2
<1>6. JoinAt("prefetch", r, w, p, m)
  BY <1>2, <1>5 DEF JoinAt, X
<1>7. JoinInv'
  <2>1. /\ scratch' = scratch /\ scratch \in JoinScratch /\ scratch.valid \subseteq Valid(p) /\ "prefetch" \in JoinPlaces
        /\ taken' = [taken EXCEPT ![w] = Shares(p, r.split)]
        /\ stored' = FALSE
    BY <1>0, <1>1, <1>2, <1>5, JoinFacts DEF JoinPlaces
  <2>2. PICK sc \in JoinScratch : sc = scratch
    BY <2>1
  <2>3. /\ scratch' = sc /\ scratch.lse \subseteq sc.lse /\ scratch.valid \subseteq sc.valid
        /\ sc.valid \subseteq Valid(p) /\ JoinAt("prefetch", r, w, p, sc)
        /\ stored' \in BOOLEAN /\ (stored' => \A v \in Warps : pc'[v] = "done")
    BY <1>0, <1>6, <2>1, <2>2
  <2> QED BY <1>0, <1>1, <1>5, <2>1, <2>3, JoinSteps
<1> QED BY <1>1, <1>7 DEF JoinGoes, Promise!promiseVars

\* It fetches the first splits and waits for its LSEs.
LEMMA CombinePrefetches ==
  ASSUME CombineSizes, JoinInv, NEW w \in Warps, Combine!Prefetch(w)
  PROVE  JoinGoes
<1>0. PICK p : p = job.partials
  OBVIOUS
<1> DEFINE X == {Combine!LSE(s) : s \in Loads(p, w)}
           F == [i \in 1 .. Stages - 1 |-> {Combine!Fetch(s, s) : s \in {i - 1} \intersect 0 .. Len(p) - 1}]
           B == SUBSET Copies
           g == <<X>> \o F
<1>1. pc[w] = "prefetch" /\ reg[w].groups = <<X>> /\ reg[w].split = 0 /\ 0 \in 0 .. Len(p)
  BY <1>0, JoinFacts DEF Combine!Prefetch, Combine!Step, JoinAt
<1>2. /\ pc' = [pc EXCEPT ![w] = "syncLSE"] /\ UNCHANGED <<job, routes, taken, stored, raced>>
      /\ scratch' = Combine!AfterLanding(w, Combine!Landing(g, Stages - 1))
      /\ reg' = [reg EXCEPT ![w].groups = Combine!Pending(g, Stages - 1)]
  BY <1>0, <1>1, JoinFacts DEF Combine!Prefetch, Combine!Step, Combine!Goto, Combine!results
<1>3. X \in B /\ F \in [1 .. Stages - 1 -> B] /\ Stages \in Nat \ {0}
  <2>1. X \in B
    BY DEF Combine!LSE, Loads, Copies, CombineSizes
  <2>2. ASSUME NEW i \in 1 .. Stages - 1
        PROVE  {Combine!Fetch(s, s) : s \in {i - 1} \intersect 0 .. Len(p) - 1} \in B
    <3>1. i - 1 \in Nat
      BY DEF CombineSizes
    <3> QED BY <3>1 DEF Combine!Fetch, Copies
  <2> QED BY <2>1, <2>2 DEF CombineSizes
<1>4. g \in Seq(B) /\ Len(g) = Stages /\ g[1] = X /\ \A i \in 1 .. Stages - 1 : g[i + 1] = F[i]
  <2> HIDE DEF B, X, F
  <2>1. F \in Seq(B) /\ Len(F) = Stages - 1 /\ <<X>> \in Seq(B) /\ Len(<<X>>) = 1 /\ <<X>>[1] = X
    BY <1>3
  <2> DEFINE a == <<X>>
  <2>2. a \in Seq(B) /\ Len(a) = 1 /\ a[1] = X /\ g = a \o F
    BY <2>1
  <2> HIDE DEF a, g
  <2>3. /\ a \o F \in Seq(B) /\ Len(a \o F) = Len(a) + Len(F)
        /\ \A i \in 1 .. Len(a) + Len(F) : (a \o F)[i] = IF i <= Len(a) THEN a[i] ELSE F[i - Len(a)]
    BY <2>1, <2>2, ConcatProperties
  <2>4. g \in Seq(B) /\ Len(g) = Stages
    BY <1>3, <2>1, <2>2, <2>3
  <2>5. g[1] = X
    BY <1>3, <2>1, <2>2, <2>3
  <2>6. ASSUME NEW i \in 1 .. Stages - 1 PROVE g[i + 1] = F[i]
    <3>1. i + 1 \in 1 .. Len(a) + Len(F) /\ ~(i + 1 <= Len(a)) /\ (i + 1) - Len(a) = i
      BY <1>3, <2>1, <2>2
    <3> QED BY <2>2, <2>3, <3>1
  <2> QED BY <2>4, <2>5, <2>6
<1>5. PICK h \in Seq(SUBSET Copies) :
        /\ h = Combine!Pending(g, Stages - 1)
        /\ Len(h) = Stages - 1 /\ \A i \in 1 .. Stages - 1 : h[i] = F[i]
        /\ Combine!Landing(g, Stages - 1) = X
  <2> HIDE DEF g, F, X
  <2> QED BY <1>4, OldestLands
<1>6. PICK r \in JoinRegs : r.groups = h /\ r.split = 0 /\ reg' = [reg EXCEPT ![w] = r]
  <2> HIDE DEF g, X, F
  <2>1. reg' = [reg EXCEPT ![w].groups = h]
    BY <1>2, <1>5
  <2>2. PICK r \in JoinRegs : /\ r.groups = h /\ r.split = reg[w].split
                             /\ reg' = [reg EXCEPT ![w] = r]
    BY <2>1, NewGroups
  <2> QED BY <1>1, <2>1, <2>2
<1>7. PICK sc \in JoinScratch : /\ scratch' = sc /\ scratch.lse \subseteq sc.lse /\ scratch.valid = sc.valid
                                /\ Loads(p, w) \subseteq sc.lse
  <2> DEFINE n == Combine!AfterLanding(w, X)
  <2>1. scratch' = n
    BY <1>2, <1>5
  <2>2. n \in JoinScratch /\ scratch.lse \subseteq n.lse /\ scratch.valid = n.valid /\ \A c \in X : c.stage = Stages => c.split \in n.lse
    BY <1>3, CopiesLand, JoinFacts
  <2>3. \A s \in Loads(p, w) : Combine!LSE(s) \in X /\ Combine!LSE(s).stage = Stages /\ Combine!LSE(s).split = s
    BY DEF Combine!LSE
  <2> HIDE DEF n, X
  <2>4. Loads(p, w) \subseteq n.lse
    BY <2>2, <2>3
  <2> QED BY <2>1, <2>2, <2>4
<1>8. Fetched(r, p)
  <2> SUFFICES ASSUME NEW i \in 1 .. Stages - 1, r.split + i - 1 <= LastFull(p)
               PROVE  r.groups[i] = {Combine!Fetch(r.split + i - 1, (r.split + i - 1) % Stages)}
    BY <1>5, <1>6 DEF Fetched
  <2>1. PICK x : x = i - 1
    OBVIOUS
  <2>2. x \in Nat /\ x < Stages /\ r.split + i - 1 = x
    BY <1>3, <1>6, <2>1
  <2>3. LastFull(p) \in -1 .. Len(p) - 1 /\ Len(p) \in Nat
    BY <1>0, JoinFacts, LastFullIs
  <2>4. x \in 0 .. Len(p) - 1
    BY <2>2, <2>3
  <2>5. x % Stages = x
    BY <1>3, <2>2
  <2>6. {x} \intersect 0 .. Len(p) - 1 = {x}
    BY <2>4
  <2>7. F[i] = {Combine!Fetch(x, x)}
    BY <2>1, <2>6
  <2> QED BY <1>5, <1>6, <2>2, <2>5, <2>7
<1>9. JoinAt("syncLSE", r, w, p, sc)
  <2> HIDE DEF X, F
  <2> QED BY <1>1, <1>6, <1>7, <1>8 DEF JoinAt
<1>10. JoinInv'
  <2>1. /\ taken' = [taken EXCEPT ![w] = Shares(p, r.split)] /\ stored' = FALSE
        /\ "syncLSE" \in JoinPlaces /\ scratch.valid \subseteq Valid(p)
    BY <1>0, <1>1, <1>2, <1>6, JoinFacts DEF JoinPlaces
  <2> HIDE DEF g
  <2> QED BY <1>0, <1>2, <1>6, <1>7, <1>9, <2>1, JoinSteps
<1> QED BY <1>2, <1>10 DEF JoinGoes, Promise!promiseVars

\* It leaves the last split with any mass.
LEMMA CombineScales ==
  ASSUME CombineSizes, JoinInv, NEW w \in Warps, Combine!Scale(w)
  PROVE  JoinGoes
<1>0. PICK p, r : p = job.partials /\ r = reg[w]
  OBVIOUS
<1> DEFINE entry == <<w, LastFull(p)>>
<1>1. /\ pc[w] = "scale" /\ Combine!Splits \subseteq scratch.lse /\ scratch \in JoinScratch
      /\ r \in JoinRegs /\ JoinAt("scale", r, w, p, scratch) /\ scratch.valid \subseteq Valid(p)
  BY <1>0, JoinFacts DEF Combine!Scale, JoinAt
<1>2. /\ pc' = [pc EXCEPT ![w] = "syncScales"]
      /\ UNCHANGED <<job, reg, routes, taken, stored, raced>>
      /\ scratch' = [scratch EXCEPT !.valid = scratch.valid \union {entry}]
  <2>1. {s \in Combine!Splits : Combine!Finite(s)} = {s \in 0 .. Len(p) - 1 : p[s + 1] # {}}
    BY <1>0, JoinFacts DEF Combine!Finite
  <2>2. scratch' = [scratch EXCEPT
          !.valid = @ \union {<<w, Combine!Max({-1} \union {s \in Combine!Splits : Combine!Finite(s)})>>}]
    BY <1>1 DEF Combine!Scale
  <2>3. scratch' = [scratch EXCEPT !.valid = scratch.valid \union {entry}]
    BY <2>1, <2>2 DEF LastFull
  <2> QED BY <1>1, <2>3 DEF Combine!Scale, Combine!Goto, Combine!results
<1>3. entry \in Warps \X Int /\ entry \in Valid(p)
  <2>1. p \in Seq(SUBSET Blocks) /\ Len(p) \in Nat
    BY <1>0, JoinFacts
  <2>2. LastFull(p) \in Int
    BY <2>1, LastFullIs
  <2> QED BY <2>2 DEF Valid
<1>4. PICK sc \in JoinScratch : /\ scratch' = sc /\ sc.lse = scratch.lse
                                /\ sc.valid = scratch.valid \union {entry}
  <2> DEFINE Left == SUBSET (Warps \X Int)
             T == [Warps -> [0 .. Stages - 1 -> Int]]
             new == scratch.valid \union {entry}
             sc == [scratch EXCEPT !.valid = new]
  <2>1. scratch \in [lse : SUBSET Nat, valid : Left, stage : T] /\ new \in Left
    BY <1>1, <1>3 DEF JoinScratch
  <2> HIDE DEF Left, T, new
  <2>2. sc \in [lse : SUBSET Nat, valid : Left, stage : T] /\ sc.lse = scratch.lse /\ sc.valid = new
    BY <2>1
  <2> HIDE DEF sc
  <2>3. scratch' = sc
    BY <1>2 DEF sc, new
  <2> QED BY <2>2, <2>3 DEF Left, T, new, JoinScratch
<1> HIDE DEF entry
<1>5. JoinAt("syncScales", r, w, p, sc)
  BY <1>1, <1>4 DEF JoinAt, entry
<1>6. JoinInv'
  <2>1. /\ taken' = [taken EXCEPT ![w] = Shares(p, r.split)] /\ stored' = FALSE
        /\ "syncScales" \in JoinPlaces /\ reg' = [reg EXCEPT ![w] = r]
    BY <1>0, <1>1, <1>2, JoinFacts DEF JoinPlaces, JoinInv, Joining
  <2>2. scratch.lse \subseteq sc.lse /\ scratch.valid \subseteq sc.valid /\ sc.valid \subseteq Valid(p)
    BY <1>1, <1>3, <1>4
  <2> QED BY <1>0, <1>1, <1>2, <1>4, <1>5, <2>1, <2>2, JoinSteps
<1> QED BY <1>2, <1>6 DEF JoinGoes, Promise!promiseVars

LEMMA MaxOfOne ==
  ASSUME NEW x \in Int
  PROVE  Combine!Max({x}) = x
<1>1. x >= x
  OBVIOUS
<1>2. \A y \in {x} : x >= y
  BY <1>1
<1>3. \E z \in {x} : \A y \in {x} : z >= y
  BY <1>2
<1>4. Combine!Max({x}) \in {x}
  BY <1>3, Zenon DEF Combine!Max
<1> QED BY <1>4

\* It takes the last split of the rows it adds, whoever left it.
LEMMA CombineReadsValid ==
  ASSUME CombineSizes, JoinInv, NEW w \in Warps, Combine!ReadValid(w)
  PROVE  JoinGoes
<1>0. PICK p, sc : p = job.partials /\ sc = scratch
  OBVIOUS
<1>1. /\ pc[w] = "readValid" /\ sc \in JoinScratch /\ JoinAt("readValid", reg[w], w, p, sc)
      /\ sc.valid = Valid(p)
  <2>1. pc[w] = "readValid" /\ sc \in JoinScratch /\ JoinAt("readValid", reg[w], w, p, sc)
        /\ sc.valid \subseteq Valid(p)
    <3>1. pc[w] = "readValid"
      BY DEF Combine!ReadValid
    <3>2. /\ JoinAt(pc[w], reg[w], w, p, scratch)
          /\ scratch \in JoinScratch /\ scratch.valid \subseteq Valid(p)
      BY <1>0, JoinFacts
    <3> QED BY <1>0, <3>1, <3>2
  <2> QED BY <2>1 DEF JoinAt
<1>2. PICK last \in Int : last = LastFull(p)
  <2>1. p \in Seq(SUBSET Blocks) /\ Len(p) \in Nat
    BY <1>0, JoinFacts
  <2> QED BY <2>1, LastFullIs
<1>3. /\ pc' = [pc EXCEPT ![w] = "add"]
      /\ UNCHANGED <<job, scratch, routes, taken, stored, raced>>
      /\ reg' = [reg EXCEPT ![w].last = last]
  <2>0. scratch.valid = Warps \X {last}
    BY <1>0, <1>1, <1>2 DEF Valid
  <2>1. \A x \in Warps : <<x, last>> \in Warps \X {last} /\ <<x, last>>[1] = x
    OBVIOUS
  <2>2. ~(\E x \in Warps : \A entry \in scratch.valid : entry[1] # x)
    BY <2>0, <2>1
  <2>3. {entry[2] : entry \in scratch.valid} = {last}
    <3>1. \A entry \in Warps \X {last} : entry[2] = last
      OBVIOUS
    <3>2. <<w, last>> \in Warps \X {last} /\ <<w, last>>[2] = last
      OBVIOUS
    <3> QED BY <2>0, <3>1, <3>2
  <2>4. Combine!Max({last}) = last
    BY <1>2, MaxOfOne
  <2> QED BY <2>2, <2>3, <2>4 DEF Combine!ReadValid, Combine!Goto, Combine!memory, Combine!results
<1>4. PICK r \in JoinRegs : /\ r.last = last /\ r.split = reg[w].split /\ r.groups = reg[w].groups
                            /\ reg' = [reg EXCEPT ![w] = r]
  <2> DEFINE G == Seq(SUBSET Copies)
             r == [reg[w] EXCEPT !.last = last]
  <2>1. reg \in [Warps -> [split : Nat, last : Int, groups : G, score : {None}]]
        /\ reg' = [reg EXCEPT ![w].last = last]
    BY <1>3 DEF JoinInv, Joining, JoinRegs
  <2> HIDE DEF G
  <2>2. /\ r \in [split : Nat, last : Int, groups : G, score : {None}]
        /\ r.last = last /\ r.split = reg[w].split /\ r.groups = reg[w].groups
        /\ reg' = [reg EXCEPT ![w] = r]
    BY <2>1
  <2> QED BY <2>2 DEF G, JoinRegs
<1>5. JoinAt("add", r, w, p, sc)
  BY <1>1, <1>2, <1>4 DEF JoinAt, Fetched
<1>6. JoinInv'
  <2>1. /\ taken' = [taken EXCEPT ![w] = Shares(p, r.split)] /\ stored' = FALSE
        /\ "add" \in JoinPlaces /\ scratch' = sc
        /\ scratch.lse \subseteq sc.lse /\ scratch.valid \subseteq sc.valid /\ sc.valid \subseteq Valid(p)
    <3>1. /\ taken = [taken EXCEPT ![w] = taken[w]] /\ taken[w] = Shares(p, reg[w].split)
          /\ (pc[w] # "done" => stored = FALSE)
      BY <1>0, JoinFacts
    <3>2. taken' = [taken EXCEPT ![w] = taken[w]] /\ taken[w] = Shares(p, r.split)
      BY <1>3, <1>4, <3>1
    <3>3. stored' = FALSE
      BY <1>1, <1>3, <3>1
    <3>4. scratch' = sc /\ scratch = sc
      BY <1>0, <1>3
    <3>5. sc.valid \subseteq Valid(p) /\ "add" \in JoinPlaces
      BY <1>1 DEF JoinPlaces
    <3> QED BY <3>2, <3>3, <3>4, <3>5
  <2> QED BY <1>0, <1>1, <1>3, <1>4, <1>5, <2>1, JoinSteps
<1> QED BY <1>3, <1>6 DEF JoinGoes, Promise!promiseVars

\* One more commit group.
LEMMA OneMoreGroup ==
  ASSUME NEW B, NEW a \in Seq(B), NEW x \in B
  PROVE  /\ a \o <<x>> \in Seq(B) /\ Len(a \o <<x>>) = Len(a) + 1
         /\ (a \o <<x>>)[Len(a) + 1] = x
         /\ \A i \in 1 .. Len(a) : (a \o <<x>>)[i] = a[i]
<1> DEFINE b == <<x>>
<1>1. b \in Seq(B) /\ Len(b) = 1 /\ b[1] = x /\ Len(a) \in Nat
  OBVIOUS
<1> HIDE DEF b
<1>2. /\ a \o b \in Seq(B) /\ Len(a \o b) = Len(a) + Len(b)
      /\ \A i \in 1 .. Len(a) + Len(b) : (a \o b)[i] = IF i <= Len(a) THEN a[i] ELSE b[i - Len(a)]
  BY <1>1, ConcatProperties
<1> QED BY <1>1, <1>2 DEF b

CopySets == SUBSET Copies

FetchGroups(g, s, p) ==
  /\ g \in Seq(SUBSET Copies) /\ Len(g) = Stages
  /\ g[1] = {Combine!Fetch(s, s % Stages)}
  /\ \A i \in 1 .. Stages - 1 : s + i <= LastFull(p) =>
       g[i + 1] = {Combine!Fetch(s + i, (s + i) % Stages)}

\* The groups of a warp that fetches once more: the first is the split's own.
LEMMA FetchesAhead ==
  ASSUME CombineSizes, NEW r \in JoinRegs, NEW p, Fetched(r, p), NEW s \in Nat, s = r.split,
         s <= LastFull(p), LastFull(p) \in Int, NEW ahead, ahead = s + Stages - 1,
         NEW X \in CopySets, ahead <= LastFull(p) => X = {Combine!Fetch(ahead, ahead % Stages)}
  PROVE  FetchGroups(r.groups \o <<X>>, s, p)
<1> DEFINE g == r.groups \o <<X>>
           B == SUBSET Copies
<1>1. Stages \in Nat \ {0} /\ r.groups \in Seq(B) /\ Len(r.groups) = Stages - 1 /\ ahead \in Nat
  BY DEF CombineSizes, JoinRegs, Fetched
<1>2. X \in B
  BY DEF CopySets
<1>3. ahead <= LastFull(p) => X = {Combine!Fetch(ahead, ahead % Stages)}
  OBVIOUS
<1>4. /\ g \in Seq(B) /\ Len(g) = Stages /\ g[Stages] = X
      /\ \A i \in 1 .. Stages - 1 : g[i] = r.groups[i]
  <2>1. r.groups \o <<X>> \in Seq(B) /\ Len(r.groups \o <<X>>) = Len(r.groups) + 1
    BY <1>1, <1>2, OneMoreGroup
  <2>2. (r.groups \o <<X>>)[Len(r.groups) + 1] = X
        /\ \A i \in 1 .. Len(r.groups) : (r.groups \o <<X>>)[i] = r.groups[i]
    BY <1>1, <1>2, OneMoreGroup
  <2>3. Stages = Len(r.groups) + 1
    BY <1>1
  <2> HIDE DEF B
  <2> QED BY <1>1, <2>1, <2>2, <2>3
<1>5. ASSUME NEW i \in 0 .. Stages - 1, s + i <= LastFull(p)
      PROVE  g[i + 1] = {Combine!Fetch(s + i, (s + i) % Stages)}
  <2>1. CASE i = Stages - 1
    <3>1. i + 1 = Stages /\ s + i = ahead
      BY <1>1, <2>1
    <3> HIDE DEF g
    <3> QED BY <1>3, <1>4, <1>5, <3>1
  <2>2. CASE i # Stages - 1
    <3>1. PICK k : k = i + 1
      OBVIOUS
    <3>2. k \in 1 .. Stages - 1 /\ r.split + k - 1 = s + i
      BY <1>1, <2>2, <3>1
    <3>3. r.groups[k] = {Combine!Fetch(r.split + k - 1, (r.split + k - 1) % Stages)}
      BY <1>5, <3>2 DEF Fetched
    <3> HIDE DEF g
    <3> QED BY <1>4, <3>1, <3>2, <3>3
  <2> QED BY <2>1, <2>2
<1> HIDE DEF g
<1>6. g[1] = {Combine!Fetch(s, s % Stages)}
  <2>1. 0 \in 0 .. Stages - 1 /\ s + 0 <= LastFull(p) /\ 0 + 1 = 1 /\ s + 0 = s
    BY <1>1
  <2>2. g[0 + 1] = {Combine!Fetch(s + 0, (s + 0) % Stages)}
    BY <1>5, <2>1
  <2> QED BY <2>1, <2>2
<1>7. \A i \in 1 .. Stages - 1 : s + i <= LastFull(p) =>
        g[i + 1] = {Combine!Fetch(s + i, (s + i) % Stages)}
  <2>1. \A i \in 1 .. Stages - 1 : i \in 0 .. Stages - 1
    BY <1>1
  <2> QED BY <1>5, <2>1
<1> QED BY <1>4, <1>6, <1>7 DEF g, B, FetchGroups

\* The parts of the combine kernel's promise.
LEMMA SameResult ==
  \A s, S : Combine!Promise!Part(<<"LSE", s>>, <<"O", s>>, S, Combine!Promise!MassOf(S)) = Result(s, S)
  BY DEF Combine!Promise!Part, Combine!Promise!MassOf, Combine!Promise!FoldSet, Combine!Promise!MapThenFoldSet,
         Combine!Promise!Length, Combine!Promise!Cardinality, Result, PartOf, Promise!Part,
         Promise!MassOf, Promise!FoldSet, Promise!MapThenFoldSet, Promise!Length, Promise!Cardinality

\* A warp adds the next split.
LEMMA CombineAdds ==
  ASSUME CombineSizes, JoinInv, NEW w \in Warps, Combine!Add(w)
  PROVE  JoinGoes
<1>0. PICK p, s, r0 : p = job.partials /\ s = reg[w].split /\ r0 = reg[w]
  OBVIOUS
<1>1. /\ pc[w] = "add" /\ s <= reg[w].last /\ JoinAt("add", reg[w], w, p, scratch)
      /\ reg[w].last = LastFull(p) /\ Fetched(reg[w], p)
  BY <1>0, JoinFacts DEF Combine!Add, JoinAt
<1>2. /\ p \in Seq(SUBSET Blocks) /\ Len(p) \in Nat /\ s \in Nat /\ reg[w] \in JoinRegs
      /\ scratch \in JoinScratch
  BY <1>0, JoinFacts DEF JoinRegs
<1>3. LastFull(p) \in Int /\ s \in 0 .. Len(p) - 1 /\ s + 1 \in 0 .. Len(p) /\ s + 1 \in Nat
  <2>1. LastFull(p) \in -1 .. Len(p) - 1
    BY <1>2, LastFullIs
  <2> QED BY <1>1, <1>2, <2>1
<1> DEFINE ahead == s + Stages - 1
           New == {Combine!Fetch(x, x % Stages) : x \in {ahead} \intersect 0 .. LastFull(p)}
<1>4. PICK X \in SUBSET Copies :
        X = New /\ (ahead <= LastFull(p) => X = {Combine!Fetch(ahead, ahead % Stages)})
  <2>2. Stages \in Nat \ {0} /\ ahead \in Nat
    BY <1>2 DEF CombineSizes
  <2>3. New \in SUBSET Copies
    <3>1. \A x \in Nat : x % Stages \in Nat
      BY <2>2
    <3> HIDE DEF ahead
    <3> QED BY <2>2, <3>1 DEF Combine!Fetch, Copies
  <2>4. ahead <= LastFull(p) => New = {Combine!Fetch(ahead, ahead % Stages)}
    <3> HIDE DEF ahead
    <3>1. ahead <= LastFull(p) => {ahead} \intersect 0 .. LastFull(p) = {ahead}
      BY <1>3, <2>2
    <3> QED BY <3>1
  <2> HIDE DEF New, ahead
  <2> QED BY <2>3, <2>4
<1> DEFINE g == r0.groups \o <<X>>
           landed == Combine!AfterLanding(w, Combine!Landing(g, Stages - 1))
           result == Result(s, p[s + 1])
<1>4a. /\ g \in Seq(SUBSET Copies) /\ Len(g) = Stages
      /\ g[1] = {Combine!Fetch(s, s % Stages)}
      /\ \A i \in 1 .. Stages - 1 : s + i <= LastFull(p) =>
           g[i + 1] = {Combine!Fetch(s + i, (s + i) % Stages)}
  <2>1. r0 \in JoinRegs /\ Fetched(r0, p) /\ s = r0.split /\ s <= LastFull(p)
    BY <1>0, <1>1, <1>2
  <2>2. PICK a : a = s + Stages - 1
    OBVIOUS
  <2>3. a <= LastFull(p) => X = {Combine!Fetch(a, a % Stages)}
    BY <1>4, <2>2
  <2>4. X \in CopySets
    BY DEF CopySets
  <2> HIDE DEF New, ahead
  <2>5. FetchGroups(r0.groups \o <<X>>, s, p)
    BY <1>2, <1>3, <2>1, <2>2, <2>3, <2>4, FetchesAhead
  <2> QED BY <2>5 DEF FetchGroups
<1>5. PICK h \in Seq(SUBSET Copies) :
        /\ h = Combine!Pending(g, Stages - 1)
        /\ Len(h) = Stages - 1 /\ \A i \in 1 .. Stages - 1 : h[i] = g[i + 1]
        /\ Combine!Landing(g, Stages - 1) = g[1] /\ g[1] \in SUBSET Copies
  <2> HIDE DEF g
  <2> QED BY <1>4a, OldestLands
<1>6. PICK sc \in JoinScratch : sc = landed /\ scratch.lse \subseteq sc.lse /\ scratch.valid = sc.valid /\ sc.stage[w][s % Stages] = s
  <2>1. s % Stages \in 0 .. Stages - 1
    BY <1>2 DEF CombineSizes
  <2>2. PICK C \in SUBSET Copies : C = {Combine!Fetch(s, s % Stages)} /\ landed = Combine!AfterLanding(w, C)
    <3> HIDE DEF g
    <3> QED BY <1>4a, <1>5
  <2> HIDE DEF landed
  <2> QED BY <1>2, <2>1, <2>2, CopiesLand
<1>7. /\ scratch' = sc /\ UNCHANGED <<job, pc, routes, stored, raced>>
      /\ reg' = [reg EXCEPT ![w].split = s + 1, ![w].groups = h]
      /\ IF p[s + 1] # {} THEN taken' = [taken EXCEPT ![w] = Append(taken[w], result)]
         ELSE taken' = taken
  <2>1. ~(landed.stage[w][s % Stages] # s)
    BY <1>6
  <2>2. Combine!Commit(w, {Combine!Fetch(x, x % Stages) : x \in {ahead} \intersect 0 .. reg[w].last}) = g
    BY <1>0, <1>1, <1>4 DEF Combine!Commit
  <2>3. /\ scratch' = landed /\ UNCHANGED <<job, pc, routes, stored, raced>>
        /\ reg' = [reg EXCEPT ![w].split = s + 1, ![w].groups = Combine!Pending(g, Stages - 1)]
        /\ IF Combine!Finite(s)
           THEN taken' = [taken EXCEPT ![w] = Append(@,
                  Combine!Promise!Part(<<"LSE", s>>, <<"O", s>>, job.partials[s + 1],
                                       Combine!Promise!MassOf(job.partials[s + 1])))]
           ELSE UNCHANGED taken
    BY <1>0, <2>1, <2>2 DEF Combine!Add
  <2>4. IF p[s + 1] # {} THEN taken' = [taken EXCEPT ![w] = Append(taken[w], result)]
        ELSE taken' = taken
    BY <1>0, <2>3, SameResult DEF Combine!Finite
  <2> HIDE DEF landed, g
  <2> QED BY <1>5, <1>6, <2>3, <2>4
<1> HIDE DEF result
<1>8. PICK r \in JoinRegs : /\ r.split = s + 1 /\ r.groups = h /\ r.last = reg[w].last
                            /\ reg' = [reg EXCEPT ![w] = r]
  <2> DEFINE G == Seq(SUBSET Copies)
             n == s + 1
             r == [reg[w] EXCEPT !.split = n, !.groups = h]
  <2>1. /\ reg \in [Warps -> [split : Nat, last : Int, groups : G, score : {None}]]
        /\ n \in Nat /\ h \in G /\ reg' = [reg EXCEPT ![w].split = n, ![w].groups = h]
    BY <1>3, <1>7 DEF JoinInv, Joining, JoinRegs
  <2> HIDE DEF G, n
  <2>2. /\ r \in [split : Nat, last : Int, groups : G, score : {None}]
        /\ r.split = n /\ r.groups = h /\ r.last = reg[w].last
        /\ reg' = [reg EXCEPT ![w] = r]
    BY <2>1
  <2> QED BY <2>2 DEF G, JoinRegs, n
<1>9. Fetched(r, p)
  <2> SUFFICES ASSUME NEW i \in 1 .. Stages - 1, r.split + i - 1 <= LastFull(p)
               PROVE  r.groups[i] = {Combine!Fetch(r.split + i - 1, (r.split + i - 1) % Stages)}
    BY <1>5, <1>8 DEF Fetched
  <2>1. r.split + i - 1 = s + i
    BY <1>2, <1>8 DEF CombineSizes
  <2> HIDE DEF g
  <2> QED BY <1>4a, <1>5, <1>8, <2>1
<1>10. JoinAt("add", r, w, p, sc)
  <2> HIDE DEF g, landed, New
  <2> QED BY <1>1, <1>3, <1>6, <1>8, <1>9 DEF JoinAt
<1>11. /\ taken' = [taken EXCEPT ![w] = Shares(p, r.split)] /\ [Promise!Next]_(Promise!promiseVars)
  <2>1. /\ taken[w] = Shares(p, s) /\ taken = [taken EXCEPT ![w] = taken[w]]
        /\ DOMAIN taken = Warps /\ taken = [v \in Warps |-> taken[v]]
    BY <1>0, JoinFacts DEF JoinInv, Joining
  <2>2. /\ IF p[s + 1] = {} THEN Shares(p, s + 1) = Shares(p, s)
           ELSE /\ Shares(p, s + 1) = Append(Shares(p, s), result)
                /\ Len(Shares(p, s)) < Len(Shares(p, Len(p)))
                /\ Shares(p, Len(p))[Len(Shares(p, s)) + 1] = result
    BY <1>2, <1>3, ShareIsNext DEF result
  <2>3. Promise!Plan = Shares(p, Len(p))
    BY <1>0, <1>2, CombinePlan DEF JoinInv, Joining
  <2>4. CASE p[s + 1] = {}
    BY <1>7, <1>8, <2>1, <2>2, <2>4 DEF Promise!promiseVars
  <2>5. CASE p[s + 1] # {}
    <3>1. /\ taken' = [taken EXCEPT ![w] = Append(taken[w], result)]
          /\ Len(taken[w]) < Len(Promise!Plan) /\ Promise!Plan[Len(taken[w]) + 1] = result
          /\ Append(taken[w], result) = Shares(p, r.split)
      BY <1>7, <1>8, <2>1, <2>2, <2>3, <2>5
    <3>2. UNCHANGED <<job, routes, stored>>
      BY <1>7
    <3>3. Promise!Next
      BY <2>1, <3>1, <3>2, Takes
    <3> QED BY <3>1, <3>3
  <2> QED BY <2>4, <2>5
<1>12. JoinInv'
  <2>1. /\ stored' = FALSE /\ pc' = [pc EXCEPT ![w] = "add"] /\ "add" \in JoinPlaces
    BY <1>0, <1>1, <1>7, JoinFacts DEF JoinPlaces, JoinInv, Joining
  <2> HIDE DEF g, landed, New
  <2>2. /\ stored' \in BOOLEAN /\ (stored' => \A v \in Warps : pc'[v] = "done")
        /\ UNCHANGED <<job, routes, raced>> /\ scratch' = sc /\ scratch.lse \subseteq sc.lse
        /\ scratch.valid \subseteq sc.valid /\ sc.valid \subseteq Valid(p)
        /\ taken' = [taken EXCEPT ![w] = Shares(p, r.split)] /\ reg' = [reg EXCEPT ![w] = r]
    BY <1>0, <1>6, <1>7, <1>8, <1>11, <2>1, JoinFacts
  <2>3. JoinAt("add", r, w, p, sc) /\ p = job.partials
    BY <1>0, <1>10
  <2> QED BY <2>1, <2>2, <2>3, JoinSteps
<1> QED BY <1>11, <1>12 DEF JoinGoes

\* A warp writes its rows; the last one completes the tile.
LEMMA CombineWrites ==
  ASSUME CombineSizes, JoinInv, NEW w \in Warps, Combine!Write(w)
  PROVE  JoinGoes
<1>0. PICK p, r, sc : p = job.partials /\ r = reg[w] /\ sc = scratch
  OBVIOUS
<1>1. /\ pc[w] = "add" /\ pc' = [pc EXCEPT ![w] = "done"] /\ r.split > r.last
      /\ stored' = \A x \in Warps \ {w} : pc[x] = "done"
      /\ UNCHANGED <<job, reg, scratch, routes, taken, raced>>
  BY <1>0 DEF Combine!Write, Combine!Step, Combine!Goto, Combine!memory
<1>2. /\ p \in Seq(SUBSET Blocks) /\ Len(p) \in Nat /\ r \in JoinRegs /\ sc \in JoinScratch
      /\ JoinAt("add", r, w, p, sc) /\ stored = FALSE /\ pc \in [Warps -> JoinPlaces]
  BY <1>0, <1>1, JoinFacts DEF JoinInv, Joining
<1>3. JoinAt("done", r, w, p, sc)
  BY <1>1, <1>2 DEF JoinAt
<1>4. JoinInv'
  <2>1. stored' \in BOOLEAN /\ (stored' => \A v \in Warps : pc'[v] = "done")
    BY <1>1, <1>2
  <2>2. /\ taken' = [taken EXCEPT ![w] = Shares(p, r.split)] /\ reg' = [reg EXCEPT ![w] = r]
        /\ scratch' = sc /\ scratch.lse \subseteq sc.lse /\ "done" \in JoinPlaces
        /\ scratch.valid \subseteq sc.valid /\ sc.valid \subseteq Valid(p)
    BY <1>0, <1>1, JoinFacts DEF JoinPlaces, JoinInv, Joining
  <2> QED BY <1>0, <1>1, <1>2, <1>3, <2>1, <2>2, JoinSteps
<1>5. ASSUME stored' PROVE Promise!Store
  <2>1. Promise!Plan = Shares(p, Len(p))
    BY <1>0, <1>2, CombinePlan DEF JoinInv, Joining
  <2>2. ASSUME NEW v \in Warps PROVE taken[v] = Promise!Plan
    <3>1. PICK n : n = reg[v].split
      OBVIOUS
    <3>2. n > LastFull(p) /\ n \in 0 .. Len(p)
      <4>1. JoinAt(pc[v], reg[v], v, p, scratch)
        BY <1>0 DEF JoinInv
      <4>2. CASE v = w
        BY <1>0, <1>1, <1>2, <3>1, <4>2 DEF JoinAt
      <4>3. CASE v # w
        <5>1. pc[v] = "done"
          BY <1>1, <1>5, <4>3
        <5> QED BY <3>1, <4>1, <5>1 DEF JoinAt
      <4> QED BY <4>2, <4>3
    <3>3. LastFull(p) \in -1 .. Len(p) - 1 /\ \A i \in LastFull(p) + 2 .. Len(p) : p[i] = {}
      BY <1>2, LastFullIs
    <3>4. \A i \in n + 1 .. Len(p) : p[i] = {}
      <4>1. \A i \in n + 1 .. Len(p) : i \in LastFull(p) + 2 .. Len(p)
        BY <1>2, <3>2, <3>3
      <4> QED BY <3>3, <4>1
    <3>5. Len(p) \in n .. Len(p)
      BY <1>2, <3>2
    <3>6. Shares(p, Len(p)) = Shares(p, n)
      BY <1>2, <3>2, <3>4, <3>5, SharesStay
    <3>7. taken[v] = Shares(p, n)
      BY <1>0, <3>1, JoinFacts
    <3> QED BY <2>1, <3>6, <3>7
  <2>3. Promise!Decided
    BY DEF Promise!Decided, JoinInv, Joining, Joinable
  <2> QED BY <1>1, <1>5, <2>2, <2>3 DEF Promise!Store
<1>6. CASE stored'
  BY <1>4, <1>5, <1>6 DEF JoinGoes, Promise!Next
<1>7. CASE ~stored'
  <2>1. stored' = stored
    BY <1>1, <1>2, <1>7
  <2> QED BY <1>1, <1>4, <2>1 DEF JoinGoes, Promise!promiseVars
<1> QED BY <1>6, <1>7

\* All warps meet and go on to l.
LEMMA JoinMeets ==
  ASSUME CombineSizes, JoinInv, NEW k, k # "done", NEW l \in JoinPlaces, Combine!Barrier(k, Combine!All(l)),
         \A v \in Warps : JoinAt(k, reg[v], v, job.partials, scratch) =>
                            JoinAt(l, reg[v], v, job.partials, scratch)
  PROVE  JoinGoes
<1>1. /\ pc' = [v \in Warps |-> l] /\ \A v \in Warps : pc[v] = k
      /\ UNCHANGED <<job, reg, scratch, routes, taken, stored, raced>>
  BY DEF Combine!Barrier, Combine!All, Combine!memory, Combine!results
<1>2. /\ JoinPlaces' = JoinPlaces /\ JoinRegs' = JoinRegs /\ JoinScratch' = JoinScratch
      /\ Joinable(job)' /\ Valid(job.partials)' = Valid(job.partials)
  BY <1>1 DEF JoinPlaces, JoinRegs, Copies, JoinScratch, JoinInv, Joining, Joinable, Blocks, NumBlocks,
              Valid, LastFull
<1>3. stored = FALSE
  BY <1>1, ProducerAssumption DEF JoinInv, Joining
<1>4. Joining'
  BY <1>1, <1>2, <1>3 DEF JoinInv, Joining
<1>5. \A v \in Warps : JoinAt(l, reg[v], v, job.partials, scratch)
  BY <1>1 DEF JoinInv
<1>6. JoinInv'
  <2>1. \A v \in Warps : pc'[v] = l /\ reg'[v] = reg[v]
    BY <1>1
  <2>2. job'.partials = job.partials /\ scratch' = scratch
    BY <1>1
  <2>3. \A v \in Warps : JoinAt(pc'[v], reg'[v], v, job'.partials, scratch')
    BY <1>5, <2>1, <2>2
  <2> QED BY <1>4, <2>3 DEF JoinInv
<1> QED BY <1>1, <1>6 DEF JoinGoes, Promise!promiseVars

\* The two barriers: all LSEs have landed, then all scales are there.
LEMMA CombineMeets ==
  ASSUME CombineSizes, JoinInv, Combine!Synchronises
  PROVE  JoinGoes
<1>1. CASE Combine!SyncLSE
  <2>1. Combine!Barrier("syncLSE", Combine!All("scale"))
    BY <1>1 DEF Combine!SyncLSE
  <2>2. PICK p, m : p = job.partials /\ m = scratch
    OBVIOUS
  <2>3. \A v \in Warps : pc[v] = "syncLSE" /\ JoinAt("syncLSE", reg[v], v, p, m)
    BY <2>1, <2>2 DEF Combine!Barrier, JoinInv
  <2>4. 0 .. Len(p) - 1 \subseteq m.lse
    <3> SUFFICES ASSUME NEW s \in 0 .. Len(p) - 1 PROVE s \in m.lse
      OBVIOUS
    <3>1. Combine!Loader(s) \in Warps
      BY Loaders
    <3>2. s \in Loads(p, Combine!Loader(s))
      BY DEF Loads
    <3>3. Loads(p, Combine!Loader(s)) \subseteq m.lse
      BY <2>3, <3>1 DEF JoinAt
    <3> QED BY <3>2, <3>3
  <2>5. \A v \in Warps : JoinAt("syncLSE", reg[v], v, p, m) => JoinAt("scale", reg[v], v, p, m)
    BY <2>4 DEF JoinAt
  <2> QED BY <2>1, <2>2, <2>5, JoinMeets DEF JoinPlaces
<1>2. CASE Combine!SyncScales
  <2>1. Combine!Barrier("syncScales", Combine!All("readValid"))
    BY <1>2 DEF Combine!SyncScales
  <2>2. PICK p, m : p = job.partials /\ m = scratch
    OBVIOUS
  <2>3. \A v \in Warps : JoinAt("syncScales", reg[v], v, p, m)
    BY <2>1, <2>2 DEF Combine!Barrier, JoinInv
  <2>4. Valid(p) \subseteq m.valid
    BY <2>3 DEF JoinAt, Valid
  <2>5. \A v \in Warps : JoinAt("syncScales", reg[v], v, p, m) => JoinAt("readValid", reg[v], v, p, m)
    BY <2>4 DEF JoinAt
  <2> QED BY <2>1, <2>2, <2>5, JoinMeets DEF JoinPlaces
<1> QED BY <1>1, <1>2 DEF Combine!Synchronises

\* A thread block starts with nothing fetched or added.
LEMMA CombineStarts ==
  ASSUME CombineSizes, \A j \in JobsCombine : Joinable(j), Combine!Init
  PROVE  JoinInv /\ Promise!Init
<1>1. /\ Joinable(job) /\ pc = [w \in Warps |-> "loadLSE"]
      /\ reg = [w \in Warps |-> [split |-> 0, last |-> -1, groups |-> <<>>, score |-> None]]
      /\ scratch = [lse |-> {}, valid |-> {}, stage |-> [w \in Warps |-> [i \in 0 .. Stages - 1 |-> -1]]]
      /\ raced = FALSE /\ Promise!Init
  BY DEF Combine!Init, Combine!Promise!Init, Promise!Init
<1>2. PICK p : p = job.partials
  OBVIOUS
<1>3. p \in Seq(SUBSET Blocks) /\ Len(p) \in Nat
  BY <1>1, <1>2 DEF Joinable
<1>4. Shares(p, 0) = <<>>
  <2>1. FlattenSeq(<<>>) = <<>>
    BY DEF FlattenSeq
  <2>2. [i \in 1 .. 0 |-> Share(p, i)] = <<>>
    OBVIOUS
  <2> QED BY <2>1, <2>2 DEF Shares
<1>5. scratch \in JoinScratch
  BY <1>1 DEF JoinScratch
<1>6. reg \in [Warps -> JoinRegs] /\ \A w \in Warps : reg[w].split = 0 /\ reg[w].groups = <<>>
  <2> DEFINE G == Seq(SUBSET Copies)
  <2>1. <<>> \in G
    OBVIOUS
  <2> HIDE DEF G
  <2>2. reg \in [Warps -> [split : Nat, last : Int, groups : G, score : {None}]]
    BY <1>1, <2>1
  <2>3. \A w \in Warps : reg[w].split = 0 /\ reg[w].groups = <<>>
    BY <1>1
  <2> QED BY <2>2, <2>3 DEF G, JoinRegs
<1>7. Joining
  <2>1. taken = [w \in Warps |-> Shares(p, reg[w].split)]
    BY <1>1, <1>4, <1>6 DEF Promise!Init
  <2> QED BY <1>1, <1>2, <1>5, <1>6, <2>1 DEF Joining, JoinPlaces, Promise!Init
<1>8. \A w \in Warps : JoinAt(pc[w], reg[w], w, p, scratch)
  <2> SUFFICES ASSUME NEW w \in Warps PROVE JoinAt(pc[w], reg[w], w, p, scratch)
    OBVIOUS
  <2>1. pc[w] = "loadLSE" /\ reg[w].split = 0 /\ reg[w].groups = <<>> /\ 0 \in 0 .. Len(p)
    BY <1>1, <1>3, <1>6
  <2> QED BY <2>1 DEF JoinAt
<1> QED BY <1>1, <1>2, <1>7, <1>8 DEF JoinInv

\* A step of the kernel that joins splits is a step of the promise or leaves it alone.
LEMMA CombineGoes ==
  ASSUME CombineSizes, JoinInv, [Combine!Next]_vars
  PROVE  JoinGoes
<1>1. CASE UNCHANGED vars
  <2>1. UNCHANGED <<job, pc, reg, scratch, routes, taken, stored, raced>>
    BY <1>1 DEF vars, pipes, memory, results
  <2>2. /\ JoinPlaces' = JoinPlaces /\ JoinRegs' = JoinRegs /\ JoinScratch' = JoinScratch
        /\ Joinable(job)' /\ Valid(job.partials)' = Valid(job.partials)
    BY <2>1 DEF JoinPlaces, JoinRegs, Copies, JoinScratch, JoinInv, Joining, Joinable, Blocks, NumBlocks,
                Valid, LastFull
  <2>3. Joining'
    BY <2>1, <2>2 DEF JoinInv, Joining
  <2>4. \A v \in Warps : JoinAt(pc'[v], reg'[v], v, job'.partials, scratch')
    BY <2>1 DEF JoinInv
  <2> QED BY <2>1, <2>3, <2>4 DEF JoinInv, JoinGoes, Promise!promiseVars
<1>2. CASE Combine!Next
  BY <1>2, CombineLoads, CombinePrefetches, CombineScales, CombineReadsValid,
     CombineAdds, CombineWrites, CombineMeets
    DEF Combine!Next, Combine!Consumes
<1> QED BY <1>1, <1>2

\* The kernel that joins splits computes routed attention too: every warp adds
\* each partial result that is not empty once, in order and with its share of
\* all keys, and the tile is stored when the last warp has added all of them
\* (BlockSparseAttnForwardCombine).  It is for any number of splits, of stages
\* and of warps; the thread block has several warps.
THEOREM CombineKeepsPromise ==
  ASSUME CombineSizes, \A j \in JobsCombine : Joinable(j)
  PROVE  Combine!Init /\ [][Combine!Next]_vars => KeepsPromise
<1>1. Combine!Init => JoinInv /\ Promise!Init
  BY CombineStarts
<1>2. JoinInv /\ [Combine!Next]_vars => JoinInv' /\ [Promise!Next]_(Promise!promiseVars)
  BY CombineGoes DEF JoinGoes
<1> QED BY <1>1, <1>2, PTL DEF KeepsPromise, Promise!Spec

\* No warp reads an LSE or a stage before the copy into it has landed, though
\* the LSEs are other warps' copies and a stage is fetched into again while the
\* one after it is added (cp_async_wait_group in BlockSparseAttnForwardCombine).
THEOREM CombineReadsItsCopies ==
  ASSUME CombineSizes, \A j \in JobsCombine : Joinable(j)
  PROVE  Combine!Init /\ [][Combine!Next]_vars => []RacesOnlyWithOutput
<1>1. Combine!Init => JoinInv
  BY CombineStarts
<1>2. JoinInv /\ [Combine!Next]_vars => JoinInv'
  BY CombineGoes DEF JoinGoes
<1>3. JoinInv => RacesOnlyWithOutput
  BY DEF JoinInv, Joining, RacesOnlyWithOutput
<1> QED BY <1>1, <1>2, <1>3, PTL
=============================================================================
