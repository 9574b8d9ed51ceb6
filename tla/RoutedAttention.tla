-------------------------- MODULE RoutedAttention --------------------------
(***************************************************************************)
(* What one thread block of a Sol attention kernel promises.  It owns one  *)
(* tile of queries and walks over groups of key blocks.  For every group   *)
(* it decides which blocks are attended exactly; every warp then adds to   *)
(* its rows the rest of the group through the block means and the exact    *)
(* blocks through their own keys, in order and once; and the result is     *)
(* stored when every warp has added everything.  A kernel may take the     *)
(* exact blocks of several groups together, and several blocks at once.    *)
(* When the groups are split among thread blocks, another one adds up      *)
(* their partial results in the same way.                                  *)
(***************************************************************************)
EXTENDS Integers, FiniteSets, Sequences, SequencesExt

CONSTANTS
  Warps,      \* the warps of the thread block, each with rows of its own
  Tokens,     \* keys of the sequence
  BlockLen,   \* keys of a block
  GroupSize   \* blocks routed together

VARIABLES
  job,        \* the query tile, the groups this thread block walks over, how
              \* many of them it joins and how many exact blocks it takes at
              \* once; or the blocks of every partial result it adds up
  routes,     \* the exact blocks of the groups decided so far
  taken,      \* what every warp has added to its rows
  stored      \* the output tile has been written

promiseVars == <<job, routes, taken, stored>>

NumBlocks == (Tokens + BlockLen - 1) \div BlockLen
NumGroups == (NumBlocks + GroupSize - 1) \div GroupSize
Members(g) == {b \in 0 .. NumBlocks - 1 : b \div GroupSize = g}
Length(b) == Cardinality({t \in 0 .. Tokens - 1 : t \div BlockLen = b})

KMeans(g) == <<"KC", g>>
VMeans(g) == <<"VC", g>>
KBlocks(blocks) == <<"K", blocks>>
VBlocks(blocks) == <<"V", blocks>>

\* One addition: the scores' tile, the values' tile, the blocks it stands for
\* and the probability mass of equal scores, the number of their keys.
Part(score, value, blocks, mass) ==
  [score |-> score, value |-> value, blocks |-> blocks, mass |-> mass]

MassOf(blocks) == FoldSet(LAMBDA b, sum : Length(b) + sum, 0, blocks)

ApproximateParts(g, S) ==
  IF S = Members(g) THEN <<>>
  ELSE <<Part(KMeans(g), VMeans(g), Members(g) \ S, MassOf(Members(g) \ S))>>

InOrder(S) == [i \in 1 .. Cardinality(S) |-> CHOOSE x \in S : Cardinality({y \in S : y <= x}) = i]

\* The blocks of S in order, job.pair at a time.
ExactParts(S) ==
  LET ordered == InOrder(S)
      chunk(i) == {ordered[j] : j \in (i - 1) * job.pair + 1 .. Min({i * job.pair, Len(ordered)})} IN
  [i \in 1 .. (Len(ordered) + job.pair - 1) \div job.pair |->
    Part(KBlocks(chunk(i)), VBlocks(chunk(i)), chunk(i), MassOf(chunk(i)))]

Decided == Len(routes) >= job.last - job.first

\* The decision i is the last of the groups that are taken together.
Closes(i) == i % job.join = 0 \/ i = job.last - job.first

JoinedExact(i) == UNION {routes[j] : j \in {k \in 1 .. i : (k - 1) \div job.join = (i - 1) \div job.join}}

\* The partial results that are not empty, with their shares of all keys.
PartialParts ==
  FlattenSeq([i \in 1 .. Len(job.partials) |->
    IF job.partials[i] = {} THEN <<>>
    ELSE <<Part(<<"LSE", i - 1>>, <<"O", i - 1>>, job.partials[i], MassOf(job.partials[i]))>>])

Plan ==
  PartialParts \o FlattenSeq([i \in 1 .. Len(routes) |->
    ApproximateParts(job.first + i - 1, routes[i])
      \o (IF Closes(i) THEN ExactParts(JoinedExact(i)) ELSE <<>>)])

\* Neighbours of the query tile, mapped neighbours and every block with a key
\* that is to be kept exact are never approximated.
Forced ==
  {b \in 0 .. NumBlocks - 1 :
     \/ job.q - b \in -1 .. 1
     \/ \E t \in job.keep : t \div BlockLen = b
     \/ b \in job.mapped[1] .. job.mapped[2] - 1}

Init ==
  /\ routes = <<>>
  /\ taken = [w \in Warps |-> <<>>]
  /\ stored = FALSE

Decide ==
  /\ ~Decided
  /\ LET group == Members(job.first + Len(routes)) IN
     \E S \in SUBSET group :
       /\ Forced \intersect group \subseteq S
       /\ routes' = Append(routes, S)
  /\ UNCHANGED <<job, taken, stored>>

\* Some warps make their next addition.
Take(W) ==
  /\ \A w \in W : Len(taken[w]) < Len(Plan)
  /\ taken' = [w \in Warps |->
                IF w \in W THEN Append(taken[w], Plan[Len(taken[w]) + 1]) ELSE taken[w]]
  /\ UNCHANGED <<job, routes, stored>>

Store ==
  /\ Decided
  /\ \A w \in Warps : taken[w] = Plan
  /\ stored' = TRUE
  /\ UNCHANGED <<job, routes, taken>>

Next == Decide \/ (\E W \in SUBSET Warps : Take(W)) \/ Store

Spec == Init /\ [][Next]_promiseVars
=============================================================================
