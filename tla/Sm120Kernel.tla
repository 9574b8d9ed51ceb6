---------------------------- MODULE Sm120Kernel ----------------------------
(***************************************************************************)
(* The sm120 forward kernel (SolAttnForwardSm120.kernel): one thread block *)
(* of four warps.  The routing scratch and the output tile reuse the       *)
(* memory of the Q tile.  Both prefetches are on, as everywhere in the     *)
(* repository.  Q and scratch stand for the rows of that memory that       *)
(* belong to the Producer warp, which are the only ones the scratch        *)
(* overlaps (sizes and swizzle of the layouts).                            *)
(***************************************************************************)
EXTENDS SolTile

CONSTANT Jobs120   \* the query tiles with their sinks and mapped neighbours

\* An acquired stage gets a copy and the producer's parity advances.
IssueK(t) ==
  /\ Acquirable(K, produce["K"])
  /\ K' = Filled(K, t)
  /\ produce' = [produce EXCEPT !["K"] = Flip(@)]

IssueV(t) ==
  /\ Acquirable(V, produce["V"])
  /\ V' = Filled(V, t)
  /\ produce' = [produce EXCEPT !["V"] = Flip(@)]

KReady(w) == Ready(K, consume[w]["K"])
VReady(w) == Ready(V, consume[w]["V"])

FreeK(w) ==
  /\ K' = Released(K, w)
  /\ consume' = [consume EXCEPT ![w]["K"] = Flip(@)]

FreeV(w) ==
  /\ V' = Released(V, w)
  /\ consume' = [consume EXCEPT ![w]["V"] = Flip(@)]

\* The scratch holds the routes of the group a warp is in.
Readable(w) == Q = "route" /\ scratch.group = reg[w].group

Race(w) ==
  /\ raced' = TRUE
  /\ Goto(w, "undefined")
  /\ UNCHANGED <<job, reg, pipes, memory, results>>

\* The top of the loop over the route groups, and of the loop over a group's
\* exact blocks.
Top(w, g) ==
  CASE g = NumGroups -> "epilogue"
    [] g < NumGroups /\ w = Producer -> "routeK"
    [] OTHER -> "scoreRoute"

Proceed(w, ordinal) ==
  IF ordinal < reg[w].count
  THEN /\ reg' = [reg EXCEPT ![w].ordinal = ordinal]
       /\ Goto(w, "index")
  ELSE /\ reg' = [reg EXCEPT ![w].group = @ + 1, ![w].ordinal = 0, ![w].count = 0]
       /\ Goto(w, Top(w, reg[w].group + 1))

Init ==
  /\ job \in Jobs120
  /\ pc = [w \in Warps |-> IF w = Producer THEN "acquireQ" ELSE "syncStart"]
  /\ reg = [w \in Warps |-> [group |-> 0, count |-> 0, ordinal |-> 0,
                             block |-> 0, score |-> None]]
  /\ K = EmptyPipe(Warps) /\ V = EmptyPipe(Warps)
  /\ produce = [p \in {"K", "V"} |-> 1]
  /\ consume = [w \in Warps |-> [p \in {"K", "V"} |-> 0]]
  /\ Q = "none"
  /\ scratch = [sums |-> [w \in Warps |-> -1], group |-> -1, exact |-> <<>>]
  /\ tensor = IdleTensor
  /\ Promise!Init
  /\ raced = FALSE

-----------------------------------------------------------------------------
(* The prologue: Q through shared memory into every warp's registers.      *)

AcquireQ ==
  /\ Step(Producer, "acquireQ", "syncStart")
  /\ Q' = "loading"
  /\ UNCHANGED <<job, reg, pipes, scratch, tensor, results, raced>>

SyncStart == Barrier("syncStart", All("loadQ"))

\* Only the Producer's rows lie under the scratch.
LoadQ(w) ==
  /\ ~raced
  /\ pc[w] = "loadQ"
  /\ Q \notin {"none", "loading"}
  /\ IF w = Producer /\ Q # "Q" THEN Race(w)
     ELSE /\ Goto(w, Top(w, 0))
          /\ UNCHANGED <<job, reg, pipes, memory, results, raced>>

-----------------------------------------------------------------------------
(* One route group: scores against the block means and the decision.       *)

\* The last exact QK of the previous group has already fetched this group's
\* means, if that group had an exact block.
RouteK ==
  LET g == reg[Producer].group IN
  /\ Step(Producer, "routeK", "routeV")
  /\ IF g = 0 \/ scratch.exact = <<>>
     THEN IssueK(Promise!KMeans(g))
     ELSE UNCHANGED <<K, produce>>
  /\ UNCHANGED <<job, reg, V, consume, memory, results, raced>>

RouteV ==
  /\ Step(Producer, "routeV", "scoreRoute")
  /\ IssueV(Promise!VMeans(reg[Producer].group))
  /\ UNCHANGED <<job, reg, K, consume, memory, results, raced>>

\* wait, gemm_smem_zero_acc: the scores of the stage go to registers.
Score(w, from, to) ==
  /\ Step(w, from, to)
  /\ KReady(w)
  /\ K' = Begun(K, w)
  /\ reg' = [reg EXCEPT ![w].score = K.content]
  /\ UNCHANGED <<job, V, produce, consume, memory, results, raced>>

ScoreRoute(w) == Score(w, "scoreRoute", "reduceRoute")

\* Release K, then reduce_route_columns puts this warp's column sums into the
\* scratch, over the Q tile.
ReduceRoute(w) ==
  /\ Step(w, "reduceRoute", "syncSums")
  /\ FreeK(w)
  /\ Q' = "route"
  /\ scratch' = [scratch EXCEPT !.sums[w] = reg[w].group]
  /\ UNCHANGED <<job, reg, V, produce, tensor, results, raced>>

SyncSums == Barrier("syncSums", [All("syncRoute") EXCEPT ![Producer] = "decide"])

\* The columns whose mean passes the threshold, and the forced ones.
Selected(g, high) == Members(g) \intersect (high \union Forced)

\* Warp 0 adds up the four warps' sums and publishes masks, indices and count.
Decide ==
  LET g == reg[Producer].group IN
  /\ ~raced
  /\ pc[Producer] = "decide"
  /\ IF Q # "route" \/ \E w \in Warps : scratch.sums[w] # g THEN Race(Producer)
     ELSE \E high \in SUBSET Members(g) :
            /\ scratch' = [scratch EXCEPT !.group = g, !.exact = InOrder(Selected(g, high))]
            /\ routes' = Append(routes, Selected(g, high))
            /\ Goto(Producer, "syncRoute")
            /\ UNCHANGED <<job, reg, pipes, Q, tensor, taken, stored, raced>>

\* The warps do not wait for the decision.
NoSyncRoute ==
  \E w \in Warps :
    /\ Step(w, "syncRoute", "count")
    /\ UNCHANGED <<job, reg, pipes, memory, results, raced>>

SyncRoute == Barrier("syncRoute", All("count"))

ReadCount(w) ==
  /\ ~raced
  /\ pc[w] = "count"
  /\ IF ~Readable(w) THEN Race(w)
     ELSE LET n == Len(scratch.exact) IN
          /\ reg' = [reg EXCEPT ![w].count = n]
          /\ Goto(w, IF w = Producer /\ n > 0 THEN "firstK" ELSE "approximate")
          /\ UNCHANGED <<job, pipes, memory, results, raced>>

FirstK ==
  /\ Step(Producer, "firstK", "approximate")
  /\ IssueK(Promise!KBlocks({scratch.exact[1]}))
  /\ UNCHANGED <<job, reg, V, consume, memory, results, raced>>

-----------------------------------------------------------------------------
(* The rest of the group through its means.                                *)

\* The keys of a column's block, cut at the end of the sequence.
ColumnMass(b) ==
  LET length == Tokens - b * BlockLen IN
  IF length > BlockLen THEN BlockLen ELSE IF length < 0 THEN 0 ELSE length

RouteMass(blocks) == FoldSet(LAMBDA b, sum : ColumnMass(b) + sum, 0, blocks)

\* apply_route_mask reads the column masks; exact columns drop out.
Approximate(w) ==
  LET rest == Members(reg[w].group) \ Range(scratch.exact)
      hasApprox == reg[w].count < Cardinality(Members(reg[w].group)) IN
  /\ ~raced
  /\ pc[w] = "approximate"
  /\ VReady(w)
  /\ IF hasApprox /\ ~Readable(w) THEN Race(w)
     ELSE /\ V' = Begun(V, w)
          /\ IF hasApprox THEN AddPart(w, rest, RouteMass(rest)) ELSE UNCHANGED taken
          /\ Goto(w, "releaseMeans")
          /\ UNCHANGED <<job, reg, K, produce, consume, memory, routes, stored, raced>>

ReleaseMeans(w) ==
  /\ ~raced
  /\ pc[w] = "releaseMeans"
  /\ FreeV(w)
  /\ IF w = Producer /\ reg[w].count > 0
     THEN Goto(w, "firstV") /\ UNCHANGED reg
     ELSE Proceed(w, 0)
  /\ UNCHANGED <<job, K, produce, memory, results, raced>>

FirstV ==
  /\ ~raced
  /\ pc[Producer] = "firstV"
  /\ IssueV(Promise!VBlocks({scratch.exact[1]}))
  /\ Proceed(Producer, 0)
  /\ UNCHANGED <<job, K, consume, memory, results, raced>>

-----------------------------------------------------------------------------
(* The exact blocks of the group.                                          *)

ReadIndex(w) ==
  /\ ~raced
  /\ pc[w] = "index"
  /\ IF ~Readable(w) THEN Race(w)
     ELSE /\ reg' = [reg EXCEPT ![w].block = scratch.exact[reg[w].ordinal + 1]]
          /\ Goto(w, "scoreExact")
          /\ UNCHANGED <<job, pipes, memory, results, raced>>

ScoreExact(w) == Score(w, "scoreExact", "releaseK")

ReleaseK(w) ==
  /\ Step(w, "releaseK", IF w = Producer THEN "nextK" ELSE "exactV")
  /\ FreeK(w)
  /\ UNCHANGED <<job, reg, V, produce, memory, results, raced>>

\* The released K stage is refilled with the next exact block or, after the
\* last one, with the means of the next group.
NextK ==
  LET g == reg[Producer].group
      next == reg[Producer].ordinal + 1 IN
  /\ Step(Producer, "nextK", "exactV")
  /\ CASE next < reg[Producer].count -> IssueK(Promise!KBlocks({scratch.exact[next + 1]}))
       [] next >= reg[Producer].count /\ g + 1 < NumGroups -> IssueK(Promise!KMeans(g + 1))
       [] OTHER -> UNCHANGED <<K, produce>>
  /\ UNCHANGED <<job, reg, V, consume, memory, results, raced>>

\* mask_exact_scores keeps the keys before block_len.
BlockMass(b) ==
  LET length == Tokens - b * BlockLen IN IF length > BlockLen THEN BlockLen ELSE length

ExactV(w) ==
  /\ Step(w, "exactV", "releaseV")
  /\ VReady(w)
  /\ V' = Begun(V, w)
  /\ AddPart(w, {reg[w].block}, BlockMass(reg[w].block))
  /\ UNCHANGED <<job, reg, K, produce, consume, memory, routes, stored, raced>>

ReleaseV(w) ==
  /\ ~raced
  /\ pc[w] = "releaseV"
  /\ FreeV(w)
  /\ IF w = Producer /\ reg[w].ordinal + 1 < reg[w].count
     THEN Goto(w, "nextV") /\ UNCHANGED reg
     ELSE Proceed(w, reg[w].ordinal + 1)
  /\ UNCHANGED <<job, K, produce, memory, results, raced>>

NextV ==
  LET next == reg[Producer].ordinal + 1 IN
  /\ ~raced
  /\ pc[Producer] = "nextV"
  /\ IssueV(Promise!VBlocks({scratch.exact[next + 1]}))
  /\ Proceed(Producer, next)
  /\ UNCHANGED <<job, K, consume, memory, results, raced>>

-----------------------------------------------------------------------------
(* The epilogue.                                                           *)

\* A warp writes its rows of the output tile over the Q tile.
WriteO(w) ==
  /\ Step(w, "epilogue", "syncStore")
  /\ IF w = Producer THEN Q' = "O" ELSE UNCHANGED Q
  /\ UNCHANGED <<job, reg, pipes, scratch, tensor, results, raced>>

SyncStore == Barrier("syncStore", [All("done") EXCEPT ![Producer] = "store"])

StoreO ==
  /\ Step(Producer, "store", "done")
  /\ stored' = TRUE
  /\ UNCHANGED <<job, reg, pipes, memory, routes, taken, raced>>

-----------------------------------------------------------------------------
Produces ==
  \/ AcquireQ \/ RouteK \/ RouteV \/ Decide \/ FirstK \/ FirstV
  \/ NextK \/ NextV \/ StoreO

Consumes(w) ==
  \/ LoadQ(w) \/ ScoreRoute(w) \/ ReduceRoute(w) \/ ReadCount(w)
  \/ Approximate(w) \/ ReleaseMeans(w) \/ ReadIndex(w) \/ ScoreExact(w)
  \/ ReleaseK(w) \/ ExactV(w) \/ ReleaseV(w) \/ WriteO(w)

Synchronises == SyncStart \/ SyncSums \/ SyncRoute \/ SyncStore

Lands == LandQ \/ LandK \/ LandV

Next == Produces \/ (\E w \in Warps : Consumes(w)) \/ Synchronises \/ Lands

Spec == Init /\ [][Next]_vars
=============================================================================
