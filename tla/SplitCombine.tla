---------------------------- MODULE SplitCombine ----------------------------
(***************************************************************************)
(* The kernel that adds up the partial results of the splits of an sm90    *)
(* call (BlockSparseAttnForwardCombine).  A split's result is normalised   *)
(* and comes with the logarithm of its mass (LSE), which is minus infinity *)
(* for a split without groups.  The warps load the LSEs for each other,    *)
(* and each turns those of its share of the rows into scales, which it     *)
(* leaves in shared memory with the last split that has any mass, for the  *)
(* warps that add these rows' results.  The results are fetched ahead into *)
(* stages of a warp's own.  A copy is readable once its warp has waited    *)
(* for the commit group it belongs to.                                     *)
(***************************************************************************)
EXTENDS SolTile

CONSTANTS
  JobsCombine,   \* the blocks of every split
  Stages         \* stages a warp fetches into

Splits == 0 .. Len(job.partials) - 1
Finite(s) == job.partials[s + 1] # {}

\* The LSEs of two splits are fetched by one warp.
Loader(s) == IF s < 2 THEN Producer ELSE CHOOSE w \in Warps : w # Producer
LoadedBy(w) == {s \in Splits : Loader(s) = w}

\* A copy of split s's result for a warp's rows into a stage, or of an LSE.
Fetch(s, stage) == [split |-> s, stage |-> stage]
LSE(s) == [split |-> s, stage |-> Stages]

Init ==
  /\ job \in JobsCombine
  /\ pc = [w \in Warps |-> "loadLSE"]
  /\ reg = [w \in Warps |-> [split |-> 0, last |-> -1, groups |-> <<>>, score |-> None]]
  /\ K = EmptyPipe(Warps) /\ V = EmptyPipe(Warps)
  /\ produce = [p \in {"K", "V"} |-> 1]
  /\ consume = [w \in Warps |-> [p \in {"K", "V"} |-> 0]]
  /\ Q = "none"
  /\ scratch = [lse |-> {}, valid |-> {}, stage |-> [w \in Warps |-> [i \in 0 .. Stages - 1 |-> -1]]]
  /\ tensor = IdleTensor
  /\ Promise!Init
  /\ raced = FALSE

\* cp_async_commit_group with the copies started since the last one.
Commit(w, copies) == reg[w].groups \o <<copies>>

\* cp_async_wait_group(n): all commit groups but the last n have landed.
Landing(groups, n) == UNION {groups[i] : i \in 1 .. Len(groups) - n}
Pending(groups, n) == SubSeq(groups, Max({1, Len(groups) - n + 1}), Len(groups))
AfterLanding(w, copies) ==
  [scratch EXCEPT
     !.lse = @ \union {c.split : c \in {x \in copies : x.stage = Stages}},
     !.stage[w] = [i \in DOMAIN @ |->
        IF \E c \in copies : c.stage = i THEN (CHOOSE c \in copies : c.stage = i).split ELSE @[i]]]

Race(w) ==
  /\ raced' = TRUE
  /\ Goto(w, "undefined")
  /\ UNCHANGED <<job, reg, pipes, memory, results>>

LoadLSE(w) ==
  /\ Step(w, "loadLSE", "prefetch")
  /\ reg' = [reg EXCEPT ![w].groups = Commit(w, {LSE(s) : s \in LoadedBy(w)})]
  /\ UNCHANGED <<job, pipes, memory, results, raced>>

\* The first stages, one group each even when there is no split for it; then
\* the LSEs are waited for.
Prefetch(w) ==
  LET groups == reg[w].groups \o
        [i \in 1 .. Stages - 1 |-> {Fetch(s, s) : s \in {i - 1} \intersect Splits}]
  IN /\ Step(w, "prefetch", "syncLSE")
     /\ scratch' = AfterLanding(w, Landing(groups, Stages - 1))
     /\ reg' = [reg EXCEPT ![w].groups = Pending(groups, Stages - 1)]
     /\ UNCHANGED <<job, Q, tensor, pipes, results, raced>>

SyncLSE == Barrier("syncLSE", All("scale"))

\* A warp's share of the scales and of sMaxValidSplit, which go together.
Scale(w) ==
  /\ ~raced /\ pc[w] = "scale"
  /\ IF ~(Splits \subseteq scratch.lse) THEN Race(w)
     ELSE /\ Goto(w, "syncScales")
          /\ scratch' = [scratch EXCEPT
               !.valid = @ \union {<<w, Max({-1} \union {s \in Splits : Finite(s)})>>}]
          /\ UNCHANGED <<job, reg, Q, tensor, pipes, results, raced>>

SyncScales == Barrier("syncScales", All("readValid"))

\* The rows a warp adds are laid out in another way: any warp may have left
\* their scales.
ReadValid(w) ==
  /\ ~raced /\ pc[w] = "readValid"
  /\ IF \E x \in Warps : \A entry \in scratch.valid : entry[1] # x THEN Race(w)
     ELSE /\ Goto(w, "add")
          /\ reg' = [reg EXCEPT ![w].last = Max({entry[2] : entry \in scratch.valid})]
          /\ UNCHANGED <<job, pipes, memory, results, raced>>

\* Fetch Stages - 1 splits ahead, wait for the split's own group, add it.
Add(w) ==
  LET s == reg[w].split
      ahead == s + Stages - 1
      groups == Commit(w, {Fetch(x, x % Stages) : x \in {ahead} \intersect 0 .. reg[w].last})
      landed == AfterLanding(w, Landing(groups, Stages - 1))
  IN /\ s <= reg[w].last
     /\ ~raced /\ pc[w] = "add"
     /\ IF landed.stage[w][s % Stages] # s THEN Race(w)
        ELSE /\ scratch' = landed
             /\ reg' = [reg EXCEPT ![w].split = s + 1, ![w].groups = Pending(groups, Stages - 1)]
             /\ IF Finite(s)
                THEN taken' = [taken EXCEPT ![w] = Append(@,
                       Promise!Part(<<"LSE", s>>, <<"O", s>>, job.partials[s + 1],
                                    Promise!MassOf(job.partials[s + 1])))]
                ELSE UNCHANGED taken
             /\ UNCHANGED <<job, pc, Q, tensor, pipes, routes, stored, raced>>

\* The rows go to global memory; the last warp to write completes the tile.
Write(w) ==
  /\ reg[w].split > reg[w].last
  /\ Step(w, "add", "done")
  /\ stored' = \A x \in Warps \ {w} : pc[x] = "done"
  /\ UNCHANGED <<job, reg, pipes, memory, routes, taken, raced>>

Consumes(w) == LoadLSE(w) \/ Prefetch(w) \/ Scale(w) \/ ReadValid(w) \/ Add(w) \/ Write(w)
Synchronises == SyncLSE \/ SyncScales

Next == (\E w \in Warps : Consumes(w)) \/ Synchronises
=============================================================================
