----------------------------- MODULE SolInstall -----------------------------
(***************************************************************************)
(* Installing Sol-H3 on a MODEL (merge_config and install of               *)
(* sol_h3/runtime.py): clones of clones, some with Sol-H3 applied again,   *)
(* some wrapped by other nodes, and a sampling of any one of them.         *)
(*                                                                         *)
(* A model is what ModelPatcher.clone() copies: its transformer options,   *)
(* the wrappers kept under Sol-H3's key, and the chain of replacements of  *)
(* a block, outermost first.  Dictionaries inside the options may be       *)
(* shared between a model and its clones: they are cells of a heap, and    *)
(* the options hold references.                                            *)
(***************************************************************************)
EXTENDS PythonNone, Naturals, Sequences, FiniteSets

CONSTANTS
  Configs,     \* configurations the nodes may ask for
  MaxModels    \* bound: models

\* What the properties need of a Config: the two switches, and everything a
\* SOL policy fixes besides (tau, dense_evaluations, dense_layers, chunk size).
ASSUME ConfigsAssumption ==
  /\ Configs \subseteq [exact : BOOLEAN, backend : {"inherit", "sol"}, policy : STRING]
  /\ None \notin [exact : BOOLEAN, backend : {"inherit", "sol"}, policy : STRING]

\* Every configuration a merge of requested ones can give.
Merges == {[c EXCEPT !.exact = e] : c \in Configs, e \in BOOLEAN}

VARIABLES
  models,    \* the models made so far
  heap,      \* dictionaries the options of models refer to
  run,       \* the sampling in progress
  held       \* patches whose last options copy still holds Sol callbacks

installVars == <<models, heap, run, held>>
----
Sol(c) == [by |-> "sol", config |-> c]                 \* BlockPatch
Foreign(declared) == [by |-> declared, config |-> None]

Unpatched ==
  [key |-> None, sampling |-> <<>>, diffusion |-> <<>>, chain |-> <<>>,
   history |-> 0, registry |-> 0, applied |-> {}]

Idle ==
  [place |-> "idle", model |-> 0, request |-> None, copies |-> <<>>, raised |-> FALSE]

InstallInit ==
  /\ models = <<Unpatched>>
  /\ heap = <<>>
  /\ run = Idle
  /\ held = {}

Models == DOMAIN models
Installed(x) == x.key # None
SolLinks(x) == {i \in DOMAIN x.chain : x.chain[i].by = "sol"}
----
(***************************************************************************)
(* merge_config.                                                           *)
(***************************************************************************)
\* Two SOL policies on one model that differ in more than exact.
Conflict(old, new) ==
  /\ old.backend = "sol" /\ new.backend = "sol"
  /\ [old EXCEPT !.exact = new.exact] # new

\* Mutant: the newer policy wins.
MergeNewest(old, new) == [new EXCEPT !.exact = old.exact \/ new.exact]
Merge(old, new) ==
  [(IF old.backend = "sol" THEN old ELSE new) EXCEPT !.exact = old.exact \/ new.exact]

Active(x, c) == IF Installed(x) THEN Merge(x.key, c) ELSE c
----
(***************************************************************************)
(* install.                                                                *)
(***************************************************************************)
\* The wrappers kept under Sol-H3's key: a reapplication replaces them.
\* Mutant: it adds one more.
AddedWrapper(wrappers, c) == Append(wrappers, c)
Wrappers(wrappers, c) == <<c>>

\* A BlockPatch goes around what replaced the block so far, at the first
\* application only.
Patched(x, c) == IF Installed(x) THEN x.chain ELSE <<Sol(c)>> \o x.chain

\* Mutant: the dictionaries found in the options are written to.
Rewritten(x, c) ==
  IF x.history = 0
  THEN heap \o <<[policy |-> c, owner |-> 0], [policy |-> None, owner |-> Len(heap) + 2]>>
  ELSE [heap EXCEPT ![x.history].policy = c, ![x.registry].owner = Len(models) + Len(heap)]

\* The history policies and the capability registry of a SOL model are fresh
\* dictionaries, and the capability a new one with an owner of its own.
Extended(x, c) ==
  heap \o <<[policy |-> c, owner |-> 0], [policy |-> None, owner |-> Len(heap) + 2]>>

\* Mutant: the capability of the source model is registered again.
SameOwner(x) == IF x.registry = 0 THEN Len(heap) + 2 ELSE x.registry
FreshOwner(x) == Len(heap) + 2

NewModel(x) == Len(models) < MaxModels /\ models' = Append(models, x)

Install(m, c) ==
  /\ run = Idle
  /\ LET x == models[m]
         d == Active(x, c)
     IN  /\ Installed(x) => ~Conflict(x.key, c)
         /\ NewModel([x EXCEPT
              !.key = d,
              !.sampling = Wrappers(x.sampling, d),
              !.diffusion = Wrappers(x.diffusion, d),
              !.chain = Patched(x, d),
              !.history = IF d.backend = "sol" THEN Len(heap) + 1 ELSE @,
              !.registry = IF d.backend = "sol" THEN FreshOwner(x) ELSE @,
              !.applied = @ \cup {c}])
         /\ heap' = IF d.backend = "sol" THEN Extended(x, d) ELSE heap
  /\ UNCHANGED <<run, held>>

\* Other nodes clone a model, or wrap its block replacement in their own;
\* some declare their replacement to the numerical history.
CloneModel(m) ==
  /\ run = Idle
  /\ NewModel(models[m])
  /\ UNCHANGED <<heap, run, held>>

WrapBlocks(m) ==
  /\ run = Idle
  /\ \E by \in {"declared", "opaque"} :
       NewModel([models[m] EXCEPT !.chain = <<Foreign(by)>> \o @])
  /\ UNCHANGED <<heap, run, held>>
----
(***************************************************************************)
(* A sampling of one model, to the depth of one block call.                *)
(***************************************************************************)
\* The innermost SamplingWrapper's Request is the one the forwards find.
Sample(m) ==
  /\ run = Idle
  /\ Installed(models[m])
  /\ run' = [Idle EXCEPT !.place = "sampling", !.model = m,
                         !.request = models[m].sampling[Len(models[m].sampling)]]
  /\ UNCHANGED <<models, heap, held>>

\* Each DiffusionWrapper compares its configuration with the options and with
\* the request.
Coherent(x, request) ==
  \A i \in DOMAIN x.diffusion : x.diffusion[i] = x.key /\ request = x.diffusion[i]

Forward ==
  /\ run.place = "sampling"
  /\ run' = [run EXCEPT !.place =
       IF Coherent(models[run.model], run.request) THEN "forward" ELSE "refused"]
  /\ UNCHANGED <<models, heap, held>>

\* BlockPatch.__call__ of the next BlockPatch of the chain: a copy of the
\* options, into which _call puts Sol's callbacks when the configuration of
\* the request says SOL.
EnterPatch ==
  LET x == models[run.model]
      deeper == {i \in SolLinks(x) : \A k \in DOMAIN run.copies : run.copies[k].link < i}
  IN
  /\ run.place = "forward"
  /\ \E i \in deeper :
       /\ \A j \in deeper : i <= j
       /\ run' = [run EXCEPT !.copies =
            Append(@, [link |-> i, patch |-> x.chain[i].config,
                       callbacks |-> run.request.backend = "sol"])]
  /\ UNCHANGED <<models, heap, held>>

\* Anything inside the block raises.
BlockRaises ==
  /\ run.place = "forward" /\ run.copies # <<>> /\ ~run.raised
  /\ run' = [run EXCEPT !.raised = TRUE]
  /\ UNCHANGED <<models, heap, held>>

\* The finally block of BlockPatch.__call__ removes the callbacks if the
\* patch's own configuration says SOL.
Cleaned(patch) == patch.backend = "sol"

LeavePatch ==
  /\ run.place = "forward" /\ run.copies # <<>>
  /\ LET copy == run.copies[Len(run.copies)] IN
     /\ held' = IF copy.callbacks /\ ~Cleaned(copy.patch)
                THEN held \cup {copy.patch} ELSE held
     /\ run' = [run EXCEPT !.copies = SubSeq(@, 1, Len(@) - 1)]
  /\ UNCHANGED <<models, heap>>

EndSampling ==
  /\ run.place \in {"sampling", "forward", "refused"} /\ run.copies = <<>>
  /\ run' = Idle
  /\ held' = {}
  /\ UNCHANGED <<models, heap>>

InstallNext ==
  \/ \E m \in Models : \/ \E c \in Configs : Install(m, c)
                       \/ CloneModel(m) \/ WrapBlocks(m) \/ Sample(m)
  \/ Forward \/ EnterPatch \/ BlockRaises \/ LeavePatch \/ EndSampling

InstallSpec == InstallInit /\ [][InstallNext]_installVars
----
(***************************************************************************)
(* HistoryPolicy.__call__, as far as the block replacements go: the        *)
(* declared chain, or None where the routing is opaque.                    *)
(***************************************************************************)
ReplacementIdentity(x) ==
  LET policy == heap[x.history].policy IN
  IF /\ Cardinality(SolLinks(x)) = 1
     /\ \A i \in DOMAIN x.chain :
          \/ x.chain[i].by = "declared"
          \/ i \in SolLinks(x) /\ x.chain[i].config = policy
  THEN <<policy, [i \in DOMAIN x.chain |-> x.chain[i].by]>>
  ELSE None

\* What a model's options resolve to.
View(x) ==
  <<x.key, x.sampling, x.diffusion, x.chain,
    IF x.history = 0 THEN None ELSE heap[x.history].policy,
    IF x.registry = 0 THEN 0 ELSE heap[x.registry].owner>>
----
Cells == [policy : Merges \cup {None}, owner : Nat]
Links == [by : {"sol", "declared", "opaque"}, config : Merges \cup {None}]
ModelType ==
  [key : Merges \cup {None}, sampling : Seq(Merges), diffusion : Seq(Merges),
   chain : Seq(Links), history : Nat, registry : Nat, applied : SUBSET Configs]
Runs ==
  [place : {"idle", "sampling", "forward", "refused"}, model : Nat,
   request : Merges \cup {None},
   copies : Seq([link : Nat, patch : Merges, callbacks : BOOLEAN]), raised : BOOLEAN]

\* Every variable holds a value of its kind, and references point into the heap.
InstallTypeOK ==
  /\ models \in Seq(ModelType)
  /\ heap \in Seq(Cells)
  /\ \A m \in Models : models[m].history \in 0..Len(heap) /\ models[m].registry \in 0..Len(heap)
  /\ run \in Runs
  /\ held \in SUBSET Merges

\* Applications merge in any order: a model is exact if any application asked
\* for it, SOL if any was, and under the one policy its SOL applications agree
\* on (merge_config).
PolicyMerged ==
  \A m \in Models : LET x == models[m] IN Installed(x) =>
    /\ x.key.exact <=> \E c \in x.applied : c.exact
    /\ (x.key.backend = "sol") <=> \E c \in x.applied : c.backend = "sol"
    /\ \A c \in x.applied : c.backend = "sol" => c.policy = x.key.policy

\* No model refuses to run: the options, the wrappers and the request agree on
\* the configuration after any sequence of applications and clones
\* (DiffusionWrapper raises when they do not); and however often Sol-H3 is
\* applied, a block call passes exactly one BlockPatch.
NeverRefused ==
  /\ run.place # "refused"
  /\ \A m \in Models : Installed(models[m]) =>
       Cardinality(SolLinks(models[m])) = 1

\* Two models share the owner generation of the attention-measure capability
\* only if they run the same configuration over the same wrappers: an
\* application never reuses the capability of its source (weighted_measure.register).
OwnerNamesInstallation ==
  \A m, n \in Models :
    LET x == models[m]  y == models[n] IN
    (x.registry # 0 /\ y.registry # 0 /\ heap[x.registry].owner = heap[y.registry].owner) =>
      x.key = y.key /\ heap[x.history] = heap[y.history]

\* No node's work on a clone is seen by a model that exists already, although
\* they may share the dictionaries inside their options.
BranchesIsolated ==
  [][\A m \in Models : View(models[m])' = View(models[m])]_installVars

\* After a block call no options copy holds Sol's callbacks (docs/MEMORY.md:
\* "The corrected bridge restores inherited provider entries in finally, so
\* storage expires immediately on successful and failed calls").
CallbacksDropped == held = {}

\* A SOL model whose other replacements are all declared has a numerical
\* identity (README.md: "Sol-H3 provides a stable identity for the actual
\* attention ownership chain").
IdentityKnown ==
  \A m \in Models : LET x == models[m] IN
    (Installed(x) /\ x.key.backend = "sol" /\ \A i \in DOMAIN x.chain : x.chain[i].by # "opaque")
      => ReplacementIdentity(x) # None
=============================================================================
