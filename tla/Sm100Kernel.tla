---------------------------- MODULE Sm100Kernel ----------------------------
(***************************************************************************)
(* The sm100 forward kernel (_sol_attn_sm100_bf16_kernel).  The Warps are  *)
(* the four that own rows (1 to 4); Mma is warp 0, which gives the tensor  *)
(* core its operations, and Tma is warp 5, which starts the copies.  The   *)
(* tensor core executes what it is given in order and signals mbarriers    *)
(* when all before has completed.  A group here is a half of a logical     *)
(* group: the exact blocks of both halves are taken together, in pairs.    *)
(***************************************************************************)
EXTENDS SolTile

CONSTANTS
  Mma, Tma,   \* the issuing and the loading warp
  Jobs100     \* the query tiles with their sinks

Agents == Warps \union {Mma, Tma}

Group(half) == half \div job.join
Terminal(half) == (half + 1) % job.join = 0 \/ half + 1 = NumGroups
FinalGroup(half) == Group(half) = Group(NumGroups - 1)

\* An agent goes on at l with the registers r.
Move(a, r, l) ==
  /\ reg' = [reg EXCEPT ![a] = r]
  /\ Goto(a, l)

Race(a) ==
  /\ raced' = TRUE
  /\ Goto(a, "undefined")
  /\ UNCHANGED <<job, reg, pipes, memory, results>>

\* What an agent does first for a route tile and for a group's pairs.
RouteStart(a) ==
  CASE a = Tma -> "routeK"
    [] a = Mma -> "routeQK"
    [] OTHER -> "score"

PairStart(a) ==
  CASE a = Tma -> "pairK"
    [] a = Mma -> "pairQK"
    [] OTHER -> "index"

AfterHalf(a, r) ==
  IF Terminal(r.half) THEN Move(a, r, "join")
  ELSE Move(a, [r EXCEPT !.half = @ + 1], RouteStart(a))

AfterGroup(a, r) ==
  IF r.half + 1 = NumGroups
  THEN Move(a, r, IF a \in Warps THEN "stats" ELSE "exit")
  ELSE Move(a, [r EXCEPT !.half = @ + 1, !.pair = 0, !.count = 0], RouteStart(a))

MorePairs(a) == 2 * (reg[a].pair + 1) < reg[a].count

AfterPair(a, r) ==
  IF MorePairs(a) THEN Move(a, [r EXCEPT !.pair = @ + 1], PairStart(a)) ELSE AfterGroup(a, r)

\* The agents A meet; each goes on to where "to" sends it.
Meet(A, from, to) ==
  /\ ~raced
  /\ \A a \in A : pc[a] = from
  /\ pc' = [a \in Agents |-> IF a \in A THEN to[a] ELSE pc[a]]
  /\ UNCHANGED <<job, reg, pipes, memory, results, raced>>

\* A copy is consumed by the tensor core on behalf of warp 0.
TmaUmma == EmptyPipe({Mma})

Storage ==
  [sums |-> [w \in Warps |-> -1],              \* route_partial
   masks |-> <<>>,                             \* column_masks
   packet |-> [half |-> -1, exact |-> {}, total |-> 0],
   indices |-> [group |-> -1, exact |-> <<>>]]

Init ==
  /\ job \in Jobs100
  /\ pc = [a \in Agents |->
             CASE a = Tma -> "loadQ" [] a = Mma -> "waitQ" [] OTHER -> "score"]
  /\ reg = [a \in Agents |-> [half |-> 0, pair |-> 0, count |-> 0, blocks |-> {},
                              score |-> None, started |-> FALSE]]
  /\ K = TmaUmma /\ V = TmaUmma
  /\ produce = [p \in {"K", "V", "S"} |-> 1]
  /\ consume = [a \in Agents |-> [p \in {"K", "V", "S"} |-> 0]]
  /\ Q = "none"
  /\ scratch = Storage
  /\ tensor = IdleTensor
  /\ Promise!Init
  /\ raced = FALSE

\* The two blocks of a pair; the last one may be alone.  Physically the first
\* is then loaded twice.
PairBlocks(ordinal) ==
  {scratch.indices.exact[i] : i \in {ordinal + 1, ordinal + 2} \intersect DOMAIN scratch.indices.exact}

PacketReadable(a) == scratch.packet.half = reg[a].half
IndicesReadable(a) == scratch.indices.group = Group(reg[a].half)

-----------------------------------------------------------------------------
(* Warp 5, the copies.                                                     *)

IssueK(t) ==
  /\ Acquirable(K, produce["K"])
  /\ K' = Filled(K, t)
  /\ produce' = [produce EXCEPT !["K"] = Flip(@)]

IssueV(t) ==
  /\ Acquirable(V, produce["V"])
  /\ V' = Filled(V, t)
  /\ produce' = [produce EXCEPT !["V"] = Flip(@)]

AcquireQ ==
  /\ Step(Tma, "loadQ", "routeK")
  /\ Q' = "loading"
  /\ UNCHANGED <<job, reg, pipes, scratch, tensor, results, raced>>

RouteK ==
  /\ Step(Tma, "routeK", "routeV")
  /\ IssueK(Promise!KMeans(reg[Tma].half))
  /\ UNCHANGED <<job, reg, V, consume, memory, results, raced>>

RouteV ==
  /\ ~raced
  /\ pc[Tma] = "routeV"
  /\ IssueV(Promise!VMeans(reg[Tma].half))
  /\ AfterHalf(Tma, reg[Tma])
  /\ UNCHANGED <<job, K, consume, memory, results, raced>>

PairK ==
  LET blocks == PairBlocks(2 * reg[Tma].pair) IN
  /\ ~raced
  /\ pc[Tma] = "pairK"
  /\ IF ~IndicesReadable(Tma) THEN Race(Tma)
     ELSE /\ IssueK(Promise!KBlocks(blocks))
          /\ Move(Tma, [reg[Tma] EXCEPT !.blocks = blocks], "pairV")
          /\ UNCHANGED <<job, V, consume, memory, results, raced>>

PairV ==
  /\ ~raced
  /\ pc[Tma] = "pairV"
  /\ IssueV(Promise!VBlocks(reg[Tma].blocks))
  /\ AfterPair(Tma, [reg[Tma] EXCEPT !.blocks = {}])
  /\ UNCHANGED <<job, K, consume, memory, results, raced>>

-----------------------------------------------------------------------------
(* Warp 0, the tensor core's operations, and the tensor core.              *)

WaitQ ==
  /\ Step(Mma, "waitQ", "routeQK")
  /\ Q \notin {"none", "loading"}
  /\ UNCHANGED <<job, reg, pipes, memory, results, raced>>

Given(op) == [tensor EXCEPT !.queue = Append(@, op)]

\* Wait for K, acquire the scores, multiply, and let the completion signal the
\* scores and release K.
IssueQK(from, to) ==
  /\ Step(Mma, from, to)
  /\ Ready(K, consume[Mma]["K"])
  /\ Acquirable(tensor.score, produce["S"])
  /\ K' = Begun(K, Mma)
  /\ tensor' = [Given([op |-> "QK"]) EXCEPT !.score = Filled(@, K.content)]
  /\ produce' = [produce EXCEPT !["S"] = Flip(@)]
  /\ consume' = [consume EXCEPT ![Mma]["K"] = Flip(@)]
  /\ UNCHANGED <<job, reg, V, Q, scratch, results, raced>>

RouteQK == IssueQK("routeQK", "packet")
PairQK == IssueQK("pairQK", "pairP")

\* Multiply the probabilities with V; the completion releases V, and with
\* "last" it signals the output.
IssuePV(last) ==
  /\ V' = Begun(V, Mma)
  /\ tensor' = Given([op |-> "PV", first |-> ~reg[Mma].started, last |-> last])
  /\ consume' = [consume EXCEPT ![Mma]["V"] = Flip(@)]

\* The means' values are consumed by a product only if some block of the half
\* is not exact.
RoutePV ==
  LET half == reg[Mma].half
      approx == Cardinality(scratch.packet.exact) < Cardinality(Members(half)) IN
  /\ ~raced
  /\ pc[Mma] = "routePV"
  /\ Ready(V, consume[Mma]["V"])
  /\ IF ~PacketReadable(Mma) THEN Race(Mma)
     ELSE /\ IF approx
             THEN IssuePV(half + 1 = NumGroups /\ scratch.packet.total = 0)
             ELSE /\ V' = Begun(V, Mma)
                  /\ tensor' = Given([op |-> "release"])
                  /\ consume' = [consume EXCEPT ![Mma]["V"] = Flip(@)]
          /\ AfterHalf(Mma, [reg[Mma] EXCEPT !.started = @ \/ approx])
          /\ UNCHANGED <<job, K, produce, Q, scratch, results, raced>>

PairPV ==
  /\ ~raced
  /\ pc[Mma] = "pairPV"
  /\ IssuePV(FinalGroup(reg[Mma].half) /\ ~MorePairs(Mma))
  /\ AfterPair(Mma, [reg[Mma] EXCEPT !.started = TRUE])
  /\ UNCHANGED <<job, K, produce, Q, scratch, results, raced>>

\* The scores overwrite what was in every warp's rows.
ExecuteQK ==
  /\ tensor.queue # <<>> /\ Head(tensor.queue).op = "QK"
  /\ tensor' = [tensor EXCEPT
       !.queue = Tail(@), !.score = Landed(@),
       !.cell = [w \in Warps |-> [scores |-> K.content]]]
  /\ K' = Released(K, Mma)
  /\ UNCHANGED <<job, pc, reg, V, produce, consume, Q, scratch, results, raced>>

\* What a warp's rows gain: the part of its probabilities, if that is what
\* they hold and an output so far was rescaled to them, and otherwise nothing
\* that is asked for.
Gain(w, first) ==
  LET cell == tensor.cell[w] IN
  IF "blocks" \in DOMAIN cell /\ (first \/ cell.rescaled)
  THEN Promise!Part(cell.of, V.content, cell.blocks, cell.mass)
  ELSE Promise!Part(None, V.content, {}, 0)

ExecutePV ==
  /\ tensor.queue # <<>> /\ Head(tensor.queue).op = "PV"
  /\ taken' = [w \in Warps |->
       LET first == Head(tensor.queue).first IN
       IF first THEN <<Gain(w, first)>> ELSE Append(taken[w], Gain(w, first))]
  /\ tensor' = [tensor EXCEPT
       !.queue = Tail(@), !.full = @ \/ Head(tensor.queue).last]
  /\ V' = Released(V, Mma)
  /\ UNCHANGED <<job, pc, reg, K, produce, consume, Q, scratch, routes, stored, raced>>

ExecuteRelease ==
  /\ tensor.queue # <<>> /\ Head(tensor.queue).op = "release"
  /\ tensor' = [tensor EXCEPT !.queue = Tail(@)]
  /\ V' = Released(V, Mma)
  /\ UNCHANGED <<job, pc, reg, K, produce, consume, Q, scratch, results, raced>>

\* The rows of the tensor memory may not be touched before these are done.
Busy == \E i \in DOMAIN tensor.queue : tensor.queue[i].op \in {"QK", "PV"}

-----------------------------------------------------------------------------
(* Warps 1 to 4, a route tile.                                             *)

\* Wait for the scores and load them from the tensor memory.
Load(w, from, to) ==
  /\ ~raced
  /\ pc[w] = from
  /\ Ready(tensor.score, consume[w]["S"])
  /\ tensor' = [tensor EXCEPT !.score = Begun(@, w)]
  /\ Move(w, [reg[w] EXCEPT !.score =
       IF "scores" \in DOMAIN tensor.cell[w] THEN tensor.cell[w].scores ELSE None], to)
  /\ UNCHANGED <<job, pipes, Q, scratch, results, raced>>

\* Give the score stage back.
FreeScore(w) ==
  /\ tensor' = [tensor EXCEPT !.score = Released(@, w)]
  /\ consume' = [consume EXCEPT ![w]["S"] = Flip(@)]

Score(w) == Load(w, "score", "scoreLoaded")

SyncScore == Meet(Warps, "scoreLoaded", [a \in Warps |-> "partial"])

PartialSums(w) ==
  /\ Step(w, "partial", "sums")
  /\ FreeScore(w)
  /\ scratch' = [scratch EXCEPT !.sums[w] = reg[w].half]
  /\ UNCHANGED <<job, reg, K, V, produce, Q, results, raced>>

SyncSums == Meet(Warps, "sums", [a \in Warps |-> IF a = Producer THEN "decide" ELSE "decided"])

Selected(half, high) == Members(half) \intersect (high \union Forced)

\* A half's blocks replace those of the halves before it.
NoAppendBase(half) == 0

\* The first half starts the list of exact blocks, the others append to it.
AppendBase(half) == IF half % job.join = 0 THEN 0 ELSE scratch.packet.total

Decide ==
  LET half == reg[Producer].half
      base == AppendBase(half) IN
  /\ ~raced
  /\ pc[Producer] = "decide"
  /\ IF \E w \in Warps : scratch.sums[w] # half THEN Race(Producer)
     ELSE \E high \in SUBSET Members(half) :
            LET exact == Selected(half, high) IN
            /\ scratch' = [scratch EXCEPT
                 !.masks = <<"route", half>>,
                 !.packet = [half |-> half, exact |-> exact, total |-> base + Cardinality(exact)],
                 !.indices = [group |-> Group(half),
                              exact |-> SubSeq(@.exact, 1, base) \o InOrder(exact)]]
            /\ routes' = Append(routes, exact)
            /\ Goto(Producer, "decided")
            /\ UNCHANGED <<job, reg, pipes, Q, tensor, taken, stored, raced>>

SyncDecision == Meet(Warps, "decided", [a \in Warps |-> "approximate"])

\* The keys of a column's block, cut at the end of the sequence.
BlockMass(b) ==
  LET length == Tokens - b * BlockLen IN
  IF length > BlockLen THEN BlockLen ELSE IF length < 0 THEN 0 ELSE length

RouteMass(blocks) == FoldSet(LAMBDA b, sum : BlockMass(b) + sum, 0, blocks)

\* A warp that knows of an output so far rescales it.
Rescales(w) == reg[w].started

\* Store probabilities over the scores.
StoreP(w, blocks, mass) ==
  tensor' = [tensor EXCEPT
    !.cell[w] = [of |-> reg[w].score, blocks |-> blocks, mass |-> mass,
                 rescaled |-> Rescales(w)]]

Approximate(w) ==
  LET rest == Members(reg[w].half) \ scratch.packet.exact IN
  /\ ~raced
  /\ pc[w] = "approximate"
  /\ IF \/ ~PacketReadable(w)
        \/ rest # {} /\ (Busy \/ scratch.masks # <<"route", reg[w].half>>)
     THEN Race(w)
     ELSE /\ IF rest # {} THEN StoreP(w, rest, RouteMass(rest)) ELSE UNCHANGED tensor
          /\ Move(w, [reg[w] EXCEPT !.started = @ \/ rest # {}], "packet")
          /\ UNCHANGED <<job, pipes, Q, scratch, results, raced>>

\* route_packet_ready_barrier.
SyncPacket ==
  Meet(Warps \union {Mma}, "packet", [a \in Agents |-> IF a = Mma THEN "routePV" ELSE "half"])

\* Without exact blocks the last half's product is the last of all.
Half(w) ==
  /\ ~raced
  /\ pc[w] = "half"
  /\ IF ~PacketReadable(w) THEN Race(w)
     ELSE /\ reg[w].half + 1 = NumGroups /\ scratch.packet.total = 0 => tensor.full
          /\ AfterHalf(w, reg[w])
          /\ UNCHANGED <<job, pipes, memory, results, raced>>

\* The whole thread block meets before the exact blocks of a logical group.
Join == Meet(Agents, "join", [a \in Agents |-> "count"])

ReadCount(a) ==
  LET n == scratch.packet.total IN
  /\ ~raced
  /\ pc[a] = "count"
  /\ IF ~PacketReadable(a) THEN Race(a)
     ELSE /\ IF n > 0 THEN Move(a, [reg[a] EXCEPT !.count = n], PairStart(a))
             ELSE AfterGroup(a, reg[a])
          /\ UNCHANGED <<job, pipes, memory, results, raced>>

-----------------------------------------------------------------------------
(* Warps 1 to 4, a pair of exact blocks and the epilogue.                  *)

\* A pair without a peer or with the short block is masked by column.
AllColumnsValid(blocks) == Cardinality(blocks) = 2 /\ \A b \in blocks : BlockMass(b) = BlockLen

\* Each column that is not masked counts once.
PairMass(blocks) ==
  IF AllColumnsValid(blocks) THEN 2 * BlockLen
  ELSE FoldSet(LAMBDA b, sum : BlockMass(b) + sum, 0, blocks)

PairMasks(w) == <<"pair", reg[w].half, reg[w].pair>>

ReadIndices(w) ==
  LET blocks == PairBlocks(2 * reg[w].pair) IN
  /\ ~raced
  /\ pc[w] = "index"
  /\ IF ~IndicesReadable(w) THEN Race(w)
     ELSE /\ Move(w, [reg[w] EXCEPT !.blocks = blocks], "pairScore")
          /\ scratch' = [scratch EXCEPT !.masks =
               IF w = Producer /\ ~AllColumnsValid(blocks) THEN PairMasks(w) ELSE @]
          /\ UNCHANGED <<job, pipes, Q, tensor, results, raced>>

PairScore(w) == Load(w, "pairScore", "pairLoaded")

SyncPairScore == Meet(Warps, "pairLoaded", [a \in Warps |-> "pairFree"])

FreePairScore(w) ==
  /\ Step(w, "pairFree", "pairStore")
  /\ FreeScore(w)
  /\ UNCHANGED <<job, reg, K, V, produce, Q, scratch, results, raced>>

StorePair(w) ==
  /\ ~raced
  /\ pc[w] = "pairStore"
  /\ IF Busy \/ (~AllColumnsValid(reg[w].blocks) /\ scratch.masks # PairMasks(w))
     THEN Race(w)
     ELSE /\ StoreP(w, reg[w].blocks, PairMass(reg[w].blocks))
          /\ Move(w, [reg[w] EXCEPT !.started = TRUE], "pairP")
          /\ UNCHANGED <<job, pipes, Q, scratch, results, raced>>

\* exact_pair_p_ready_barrier, which warp 0 enters when V is there.
SyncPairP ==
  /\ Ready(V, consume[Mma]["V"])
  /\ Meet(Warps \union {Mma}, "pairP", [a \in Agents |-> IF a = Mma THEN "pairPV" ELSE "pairDone"])

EndPair(w) ==
  /\ ~raced
  /\ pc[w] = "pairDone"
  /\ ~MorePairs(w) /\ FinalGroup(reg[w].half) => tensor.full
  /\ AfterPair(w, [reg[w] EXCEPT !.blocks = {}])
  /\ UNCHANGED <<job, pipes, memory, results, raced>>

SyncStats == Meet(Warps, "stats", [a \in Warps |-> "output"])

\* A warp loads its rows of the output and stores them.
WriteO(w) ==
  /\ ~raced
  /\ pc[w] = "output"
  /\ IF Busy THEN Race(w)
     ELSE /\ Goto(w, "exit")
          /\ stored' = \A v \in Warps \ {w} : pc[v] = "exit"
          /\ UNCHANGED <<job, reg, pipes, memory, routes, taken, raced>>

Exit == Meet(Agents, "exit", [a \in Agents |-> "done"])

-----------------------------------------------------------------------------
Produces == AcquireQ \/ RouteK \/ RouteV \/ PairK \/ PairV \/ ReadCount(Tma)

Multiplies == WaitQ \/ RouteQK \/ RoutePV \/ PairQK \/ PairPV \/ ReadCount(Mma)

Executes == ExecuteQK \/ ExecutePV \/ ExecuteRelease

Consumes(w) ==
  \/ Score(w) \/ PartialSums(w) \/ (w = Producer /\ Decide) \/ Approximate(w)
  \/ Half(w) \/ ReadCount(w) \/ ReadIndices(w) \/ PairScore(w)
  \/ FreePairScore(w) \/ StorePair(w) \/ EndPair(w) \/ WriteO(w)

Synchronises ==
  \/ SyncScore \/ SyncSums \/ SyncDecision \/ SyncPacket \/ Join
  \/ SyncPairScore \/ SyncPairP \/ SyncStats \/ Exit

Lands == LandQ \/ LandK \/ LandV

Next ==
  \/ Produces \/ Multiplies \/ Executes
  \/ (\E w \in Warps : Consumes(w)) \/ Synchronises \/ Lands
=============================================================================
