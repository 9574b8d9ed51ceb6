------------------------------ MODULE SolTile ------------------------------
(***************************************************************************)
(* The state of one thread block of a Sol attention kernel and what the    *)
(* sm120, the sm90 and the sm100 kernel must make of it.  The Producer is  *)
(* the warp that decides the routes and, but on sm100, starts the copies.  *)
(* Shared memory holds the K and the V stage, the Q tile, and the scratch  *)
(* through which the warps agree on a group's exact blocks.                *)
(***************************************************************************)
EXTENDS TmaBarriers, FiniteSets, Sequences, SequencesExt

CONSTANTS
  Producer,    \* the warp that decides the routes
  Tokens,      \* keys of the sequence
  BlockLen,    \* keys of a block
  GroupSize    \* blocks routed together

ASSUME ProducerAssumption == Producer \in Warps

VARIABLES
  job,       \* the query tile, its forced blocks and the groups to walk over
  pc,        \* where every warp is
  reg,       \* every warp's registers
  K, V,      \* the two pipelines
  produce,   \* the parities of the producer's pipeline states
  consume,   \* the parities of every warp's pipeline states
  Q,         \* what the memory of the Q tile holds
  scratch,   \* the routing scratch
  tensor,    \* the tensor core and its memory, used on sm100
  routes,    \* history: the exact blocks decided for each group
  taken,     \* the additions every warp has made to its rows
  raced,     \* a warp has read shared memory that is no longer what it wants
  stored     \* the output tile has been written

vars == <<job, pc, reg, K, V, produce, consume, Q, scratch, tensor, routes, taken, raced, stored>>
pipes == <<K, V, produce, consume>>
memory == <<Q, scratch, tensor>>
results == <<routes, taken, stored>>

Promise == INSTANCE RoutedAttention
KSlot == INSTANCE TileSlot WITH
  readers <- K.readers, content <- K.content, filling <- K.filling,
  unread <- K.due, reading <- K.reading
VSlot == INSTANCE TileSlot WITH
  readers <- V.readers, content <- V.content, filling <- V.filling,
  unread <- V.due, reading <- V.reading

\* queue: the operations the tensor core has been given.  cell: what the rows
\* of every warp hold in its memory.  score: the pipeline that hands scores to
\* the warps.  full: the completion of the output has been signalled.
IdleTensor ==
  [queue |-> <<>>, cell |-> [w \in Warps |-> None], score |-> EmptyPipe(Warps), full |-> FALSE]

ScoreSlot == INSTANCE TileSlot WITH
  readers <- tensor.score.readers, content <- tensor.score.content,
  filling <- tensor.score.filling, unread <- tensor.score.due,
  reading <- tensor.score.reading

NumBlocks == Promise!NumBlocks
NumGroups == Promise!NumGroups
Members(g) == Promise!Members(g)
InOrder(S) == Promise!InOrder(S)

ASSUME SizesAssumption == {Tokens, BlockLen, GroupSize} \subseteq Nat \ {0}

\* The tiles that copies bring: the means of a group, and one or two blocks.
ASSUME TilesAssumption ==
  /\ \A g \in 0 .. NumGroups - 1 : {Promise!KMeans(g), Promise!VMeans(g)} \subseteq Tiles
  /\ \A b, c \in 0 .. NumBlocks - 1 : {Promise!KBlocks({b, c}), Promise!VBlocks({b, c})} \subseteq Tiles

\* The blocks a kernel takes exactly whatever their scores: next to the query
\* tile, in the sink's block range or in the tile's mapped interval.
Forced ==
  {b \in 0 .. NumBlocks - 1 :
     \/ job.q - b \in -1 .. 1
     \/ b \in job.sink[1] .. job.sink[2] - 1
     \/ b \in job.mapped[1] .. job.mapped[2] - 1}

Goto(w, l) == pc' = [pc EXCEPT ![w] = l]

\* A warp's step: it moves on and may change its registers.
Step(w, from, to) ==
  /\ ~raced
  /\ pc[w] = from
  /\ Goto(w, to)

All(l) == [w \in Warps |-> l]

\* All warps meet; each goes on to where "to" sends it.
Barrier(from, to) ==
  /\ ~raced
  /\ \A w \in Warps : pc[w] = from
  /\ pc' = to
  /\ UNCHANGED <<job, reg, pipes, memory, results, raced>>

LandK ==
  /\ K.filling # None
  /\ K' = Landed(K)
  /\ UNCHANGED <<job, pc, reg, V, produce, consume, memory, results, raced>>

LandV ==
  /\ V.filling # None
  /\ V' = Landed(V)
  /\ UNCHANGED <<job, pc, reg, K, produce, consume, memory, results, raced>>

LandQ ==
  /\ Q = "loading"
  /\ Q' = "Q"
  /\ UNCHANGED <<job, pc, reg, pipes, scratch, tensor, results, raced>>

AddPart(w, blocks, mass) ==
  taken' = [taken EXCEPT ![w] =
    Append(@, Promise!Part(reg[w].score, V.content, blocks, mass))]

-----------------------------------------------------------------------------
TypeOK ==
  /\ Warps \subseteq DOMAIN pc
  /\ \A p \in {K, V, tensor.score} :
       /\ {p.full, p.empty} \subseteq Bit
       /\ p.filling \in Tiles \union {None}
       /\ p.content \in Tiles \union {None}
       /\ p.arrived \union p.due \union p.reading \subseteq p.readers
  /\ {produce["K"], produce["V"]} \subseteq Bit
  /\ Q \in {"none", "loading", "Q", "route", "O"}
  /\ {raced, stored} \subseteq BOOLEAN

\* The pipelines hand every tile to each of their readers once and in order: a
\* wait passes only for a reader that has not read the tile, and a copy, or on
\* sm100 a score, starts only when nobody still needs the one before it
\* (acquire, wait and release in the main loops).
TilesHandedOver == KSlot!Spec /\ VSlot!Spec /\ ScoreSlot!Spec

\* The main loop computes routed attention: each group's exact blocks and the
\* rest of it are added by every warp once, with matching scores and values
\* and the right number of keys, before the tile is stored.
KeepsPromise == Promise!Spec

\* Where a warp reads shared memory that was overwritten, it is the output
\* tile that overwrote it: no read of the main loop meets another group's
\* routes, sums or queries.
RacesOnlyWithOutput == raced => Q = "O"

\* A thread block whose warps keep running and whose copies complete stores
\* its tile, unless it met the race above, after which nothing is claimed.
Finishes == <>(stored \/ raced)
=============================================================================
