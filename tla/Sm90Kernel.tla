----------------------------- MODULE Sm90Kernel -----------------------------
(***************************************************************************)
(* The sm90 forward kernel (mma_one_warpgroup_sol_attn_route_tma with      *)
(* consume_exact_blocks): one warpgroup of four warps.  K and V share one  *)
(* pipeline state on each side, Q is read from shared memory by every      *)
(* score, the route mask and sums have memory of their own, and the output *)
(* tile reuses Q's.  A thread block may own one of several splits of the   *)
(* route groups.                                                           *)
(***************************************************************************)
EXTENDS SolTile

CONSTANT Jobs90   \* the query tiles with their sinks and groups

\* The shared producer state advances with the copy of V.
IssueK(t) ==
  /\ Acquirable(K, produce["K"])
  /\ K' = Filled(K, t)
  /\ UNCHANGED produce

IssueV(t) ==
  /\ Acquirable(V, produce["V"])
  /\ V' = Filled(V, t)
  /\ produce' = [p \in {"K", "V"} |-> Flip(produce[p])]

KReady(w) == Ready(K, consume[w]["K"])
VReady(w) == Ready(V, consume[w]["V"])

FreeK(w) == K' = Released(K, w) /\ UNCHANGED consume

FreeV(w) ==
  /\ V' = Released(V, w)
  /\ consume' = [consume EXCEPT ![w] = [p \in {"K", "V"} |-> Flip(@[p])]]

Race(w) ==
  /\ raced' = TRUE
  /\ Goto(w, "undefined")
  /\ UNCHANGED <<job, reg, pipes, memory, results>>

Top(w, g) ==
  CASE g = job.last -> "epilogue"
    [] g < job.last /\ w = Producer -> "routeK"
    [] OTHER -> "scoreRoute"

NextGroup(w) ==
  /\ reg' = [reg EXCEPT ![w].group = @ + 1, ![w].rest = <<>>]
  /\ Goto(w, Top(w, reg[w].group + 1))

Init ==
  /\ job \in Jobs90
  /\ pc = [w \in Warps |-> IF w = Producer THEN "acquireQ" ELSE "waitQ"]
  /\ reg = [w \in Warps |-> [group |-> job.first, rest |-> <<>>, score |-> None]]
  /\ K = EmptyPipe(Warps) /\ V = EmptyPipe(Warps)
  /\ produce = [p \in {"K", "V"} |-> 1]
  /\ consume = [w \in Warps |-> [p \in {"K", "V"} |-> 0]]
  /\ Q = "none"
  /\ scratch = [sums |-> [w \in Warps |-> -1], arrived |-> 0, group |-> -1, mask |-> <<>>]
  /\ tensor = IdleTensor
  /\ Promise!Init
  /\ raced = FALSE

-----------------------------------------------------------------------------
AcquireQ ==
  /\ Step(Producer, "acquireQ", "waitQ")
  /\ Q' = "loading"
  /\ UNCHANGED <<job, reg, pipes, scratch, tensor, results, raced>>

WaitQ(w) ==
  /\ Step(w, "waitQ", Top(w, job.first))
  /\ Q \notin {"none", "loading"}
  /\ UNCHANGED <<job, reg, pipes, memory, results, raced>>

-----------------------------------------------------------------------------
(* One route group: scores against the block means and the decision.       *)

RouteK ==
  LET g == reg[Producer].group IN
  /\ Step(Producer, "routeK", "routeV")
  /\ IF g = job.first \/ scratch.mask = <<>>
     THEN IssueK(Promise!KMeans(g))
     ELSE UNCHANGED <<K, produce>>
  /\ UNCHANGED <<job, reg, V, consume, memory, results, raced>>

RouteV ==
  /\ Step(Producer, "routeV", "scoreRoute")
  /\ IssueV(Promise!VMeans(reg[Producer].group))
  /\ UNCHANGED <<job, reg, K, consume, memory, results, raced>>

\* A score reads Q and the K stage from shared memory.
Score(w, from, to) ==
  /\ ~raced
  /\ pc[w] = from
  /\ KReady(w)
  /\ IF Q # "Q" THEN Race(w)
     ELSE /\ Goto(w, to)
          /\ K' = Begun(K, w)
          /\ reg' = [reg EXCEPT ![w].score = K.content]
          /\ UNCHANGED <<job, V, produce, consume, memory, results, raced>>

ScoreRoute(w) == Score(w, "scoreRoute", "reduceRoute")

\* Release K and write this warp's column sums.  The other warps only arrive
\* at the sums' barrier and go on to the mask's barrier.
ReduceRoute(w) ==
  /\ Step(w, "reduceRoute", IF w = Producer THEN "decide" ELSE "syncMask")
  /\ FreeK(w)
  /\ scratch' = [scratch EXCEPT
       !.sums[w] = reg[w].group,
       !.arrived = IF w = Producer THEN @ ELSE @ + 1]
  /\ UNCHANGED <<job, reg, V, produce, Q, tensor, results, raced>>

Selected(g, high) == Members(g) \intersect (high \union Forced)

\* Warp 0 waits at the sums' barrier for the arrivals of the others, adds up
\* the sums and publishes the mask.
Decide ==
  LET g == reg[Producer].group IN
  /\ ~raced
  /\ pc[Producer] = "decide"
  /\ scratch.arrived = Cardinality(Warps) - 1
  /\ IF \E w \in Warps : scratch.sums[w] # g THEN Race(Producer)
     ELSE \E high \in SUBSET Members(g) :
            /\ scratch' = [scratch EXCEPT !.arrived = 0, !.group = g,
                                          !.mask = InOrder(Selected(g, high))]
            /\ routes' = Append(routes, Selected(g, high))
            /\ Goto(Producer, "syncMask")
            /\ UNCHANGED <<job, reg, pipes, Q, tensor, taken, stored, raced>>

SyncMask == Barrier("syncMask", All("readMask"))

\* Every thread keeps the mask in registers.
ReadMask(w) ==
  /\ ~raced
  /\ pc[w] = "readMask"
  /\ IF scratch.group # reg[w].group THEN Race(w)
     ELSE /\ reg' = [reg EXCEPT ![w].rest = scratch.mask]
          /\ Goto(w, IF w = Producer /\ scratch.mask # <<>> THEN "firstK" ELSE "approximate")
          /\ UNCHANGED <<job, pipes, memory, results, raced>>

FirstK ==
  /\ Step(Producer, "firstK", "approximate")
  /\ IssueK(Promise!KBlocks({Head(reg[Producer].rest)}))
  /\ UNCHANGED <<job, reg, V, consume, memory, results, raced>>

-----------------------------------------------------------------------------
(* The rest of the group through its means.                                *)

LastBlock == (Tokens + BlockLen - 1) \div BlockLen - 1
TailLen == Tokens - LastBlock * BlockLen

\* The denominator counts one key per column; a column's other keys are added,
\* at once when no column of the group is the short last block.
FullLengths(g) ==
  TailLen = BlockLen \/ g * GroupSize + Cardinality(Members(g)) <= LastBlock

CurrentLen(b) == IF b = LastBlock THEN TailLen ELSE BlockLen

RouteMass(g, blocks) ==
  LET extra(b) == IF FullLengths(g) THEN BlockLen - 1 ELSE CurrentLen(b) - 1 IN
  FoldSet(LAMBDA b, sum : 1 + extra(b) + sum, 0, blocks)

Approximate(w) ==
  LET g == reg[w].group
      rest == Members(g) \ Range(reg[w].rest) IN
  /\ Step(w, "approximate", "releaseMeans")
  /\ VReady(w)
  /\ V' = Begun(V, w)
  /\ IF rest # {} THEN AddPart(w, rest, RouteMass(g, rest)) ELSE UNCHANGED taken
  /\ UNCHANGED <<job, reg, K, produce, consume, memory, routes, stored, raced>>

ReleaseMeans(w) ==
  /\ ~raced
  /\ pc[w] = "releaseMeans"
  /\ FreeV(w)
  /\ IF reg[w].rest = <<>> THEN NextGroup(w)
     ELSE Goto(w, IF w = Producer THEN "loadV" ELSE "scoreExact") /\ UNCHANGED reg
  /\ UNCHANGED <<job, K, produce, memory, results, raced>>

-----------------------------------------------------------------------------
(* consume_exact_blocks.                                                   *)

LoadV ==
  /\ Step(Producer, "loadV", "scoreExact")
  /\ IssueV(Promise!VBlocks({Head(reg[Producer].rest)}))
  /\ UNCHANGED <<job, reg, K, consume, memory, results, raced>>

ScoreExact(w) == Score(w, "scoreExact", "releaseK")

ReleaseK(w) ==
  /\ Step(w, "releaseK", IF w = Producer THEN "nextK" ELSE "exactV")
  /\ FreeK(w)
  /\ UNCHANGED <<job, reg, V, produce, memory, results, raced>>

\* Without the handoff, although RouteK counts on it.
NextKOnly ==
  LET rest == reg[Producer].rest IN
  /\ Step(Producer, "nextK", "exactV")
  /\ IF Len(rest) > 1 THEN IssueK(Promise!KBlocks({rest[2]})) ELSE UNCHANGED <<K, produce>>
  /\ UNCHANGED <<job, reg, V, consume, memory, results, raced>>

\* The released stage gets the next exact block, or the next group's means.
NextK ==
  LET g == reg[Producer].group
      rest == reg[Producer].rest IN
  /\ Step(Producer, "nextK", "exactV")
  /\ CASE Len(rest) > 1 -> IssueK(Promise!KBlocks({rest[2]}))
       [] Len(rest) <= 1 /\ g + 1 < job.last -> IssueK(Promise!KMeans(g + 1))
       [] OTHER -> UNCHANGED <<K, produce>>
  /\ UNCHANGED <<job, reg, V, consume, memory, results, raced>>

\* Keys past the end are masked, in the first block and in the last one.
BlockMass(b) == IF b = LastBlock THEN TailLen ELSE BlockLen

ExactV(w) ==
  LET b == Head(reg[w].rest) IN
  /\ Step(w, "exactV", "releaseV")
  /\ VReady(w)
  /\ V' = Begun(V, w)
  /\ AddPart(w, {b}, BlockMass(b))
  /\ UNCHANGED <<job, reg, K, produce, consume, memory, routes, stored, raced>>

ReleaseV(w) ==
  /\ ~raced
  /\ pc[w] = "releaseV"
  /\ FreeV(w)
  /\ IF Len(reg[w].rest) = 1 THEN NextGroup(w)
     ELSE /\ reg' = [reg EXCEPT ![w].rest = Tail(@)]
          /\ Goto(w, IF w = Producer THEN "loadV" ELSE "scoreExact")
  /\ UNCHANGED <<job, K, produce, memory, results, raced>>

-----------------------------------------------------------------------------
(* epilogue_one_warpgroup_tma_o: all warps are past their last score when  *)
(* the first of them writes over Q.                                        *)

SyncEpilogue == Barrier("epilogue", All("writeO"))

WriteO(w) ==
  /\ Step(w, "writeO", "syncStore")
  /\ Q' = "O"
  /\ UNCHANGED <<job, reg, pipes, scratch, tensor, results, raced>>

SyncStore == Barrier("syncStore", [All("done") EXCEPT ![Producer] = "store"])

StoreO ==
  /\ Step(Producer, "store", "done")
  /\ stored' = TRUE
  /\ UNCHANGED <<job, reg, pipes, memory, routes, taken, raced>>

-----------------------------------------------------------------------------
Produces ==
  AcquireQ \/ RouteK \/ RouteV \/ Decide \/ FirstK \/ LoadV \/ NextK \/ StoreO

Consumes(w) ==
  \/ WaitQ(w) \/ ScoreRoute(w) \/ ReduceRoute(w) \/ ReadMask(w)
  \/ Approximate(w) \/ ReleaseMeans(w) \/ ScoreExact(w) \/ ReleaseK(w)
  \/ ExactV(w) \/ ReleaseV(w) \/ WriteO(w)

Synchronises == SyncMask \/ SyncEpilogue \/ SyncStore

Lands == LandQ \/ LandK \/ LandV

Next == Produces \/ (\E w \in Warps : Consumes(w)) \/ Synchronises \/ Lands
=============================================================================
