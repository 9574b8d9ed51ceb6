-------------------------- MODULE SolInstallProofs --------------------------
(***************************************************************************)
(* Theorems about SolInstall, for any configurations and any number of     *)
(* models: policies merge, no model refuses to run, branches stay apart,   *)
(* and an owner generation names one installation.                         *)
(***************************************************************************)
EXTENDS SolInstall, SequenceTheorems, FiniteSetTheorems, TLAPS

(***************************************************************************)
(* The inductive invariant: what every model made so far is, given the     *)
(* dictionaries h its options refer to.                                    *)
(***************************************************************************)
\* The wrappers agree with the options, and the chain has one BlockPatch, or
\* none as long as Sol-H3 was not applied.
WrappedOnce(x) ==
  /\ \A i \in SolLinks(x) : x.chain[i].config \in Merges
  /\ Installed(x) =>
       /\ x.sampling = <<x.key>> /\ x.diffusion = <<x.key>>
       /\ \E i \in DOMAIN x.chain : SolLinks(x) = {i}
  /\ ~Installed(x) => SolLinks(x) = {} /\ x.applied = {}

\* The configuration is what the applications ask for together.
MergesApplied(x) ==
  Installed(x) =>
    /\ x.key.exact <=> \E c \in x.applied : c.exact
    /\ (x.key.backend = "sol") <=> \E c \in x.applied : c.backend = "sol"
    /\ \A c \in x.applied : c.backend = "sol" => c.policy = x.key.policy

\* The dictionaries of a SOL model were made together by its last application:
\* the registry's owner is named after its place in the heap.
RefersTo(x, h) ==
  /\ x.history \in 0..Len(h) /\ x.registry \in 0..Len(h)
  /\ x.registry # 0 =>
       /\ x.registry = x.history + 1 /\ x.history # 0
       /\ h[x.history] = [policy |-> x.key, owner |-> 0]
       /\ h[x.registry].owner = x.registry
  /\ x.history # 0 => x.registry # 0 /\ Installed(x) /\ x.key.backend = "sol"

ModelOK(x, h) == x \in ModelType /\ WrappedOnce(x) /\ MergesApplied(x) /\ RefersTo(x, h)

\* The request of a sampling has the configuration of its model.
RequestFits ==
  /\ run.place # "refused"
  /\ run.place # "idle" =>
       /\ run.model \in Models /\ Installed(models[run.model])
       /\ run.request = models[run.model].key

IInv ==
  /\ InstallTypeOK
  /\ \A m \in Models : ModelOK(models[m], heap)
  /\ RequestFits
-----------------------------------------------------------------------------
(***************************************************************************)
(* merge_config.                                                           *)
(***************************************************************************)
Shapes == [exact : BOOLEAN, backend : {"inherit", "sol"}, policy : STRING]

\* A merged configuration has the fields of a configuration, and is not None.
LEMMA MergeFields == ASSUME NEW d \in Merges PROVE d \in Shapes /\ d # None
<1>1. PICK c \in Configs, e \in BOOLEAN : d = [c EXCEPT !.exact = e]
  BY DEF Merges
<1>2. c \in Shapes
  BY ConfigsAssumption DEF Shapes
<1>3. d \in Shapes
  BY <1>1, <1>2 DEF Shapes
<1> QED BY <1>3, ConfigsAssumption DEF Shapes

\* A requested configuration is one, and so is one with another exact switch.
LEMMA MergeClosed ==
  /\ Configs \subseteq Merges
  /\ \A d \in Merges, e \in BOOLEAN : [d EXCEPT !.exact = e] \in Merges
<1>1. ASSUME NEW c \in Configs PROVE c \in Merges
  <2>1. c \in Shapes
    BY ConfigsAssumption DEF Shapes
  <2>2. c.exact \in BOOLEAN /\ c = [c EXCEPT !.exact = c.exact]
    BY <2>1 DEF Shapes
  <2> QED BY <2>2 DEF Merges
<1>2. ASSUME NEW d \in Merges, NEW e \in BOOLEAN PROVE [d EXCEPT !.exact = e] \in Merges
  <2>1. PICK c \in Configs, f \in BOOLEAN : d = [c EXCEPT !.exact = f]
    BY DEF Merges
  <2>2. c \in Shapes
    BY ConfigsAssumption DEF Shapes
  <2>3. [d EXCEPT !.exact = e] = [c EXCEPT !.exact = e]
    BY <2>1, <2>2 DEF Shapes
  <2> QED BY <2>3 DEF Merges
<1> QED BY <1>1, <1>2

\* A merge is exact if either is, SOL if either is, and has the policy of the
\* SOL one.
LEMMA MergeMeans ==
  ASSUME NEW old \in Merges, NEW new \in Configs, ~Conflict(old, new)
  PROVE  /\ Merge(old, new) \in Merges
         /\ Merge(old, new).exact <=> old.exact \/ new.exact
         /\ Merge(old, new).backend = "sol" <=> old.backend = "sol" \/ new.backend = "sol"
         /\ old.backend = "sol" => Merge(old, new).policy = old.policy
         /\ new.backend = "sol" => Merge(old, new).policy = new.policy
<1>1. old \in Shapes /\ new \in Merges /\ new \in Shapes
  BY MergeFields, MergeClosed
<1>2. PICK e \in BOOLEAN : e = (old.exact \/ new.exact)
  BY <1>1 DEF Shapes
<1>3. CASE old.backend = "sol"
  <2>1. Merge(old, new) = [old EXCEPT !.exact = e]
    BY <1>2, <1>3 DEF Merge
  <2>2. /\ [old EXCEPT !.exact = e].exact = e
        /\ [old EXCEPT !.exact = e].backend = old.backend
        /\ [old EXCEPT !.exact = e].policy = old.policy
    BY <1>1 DEF Shapes
  <2>3. ASSUME new.backend = "sol" PROVE new.policy = old.policy
    <3>1. [old EXCEPT !.exact = new.exact] = new
      BY <1>3, <2>3 DEF Conflict
    <3>2. [old EXCEPT !.exact = new.exact].policy = old.policy
      BY <1>1 DEF Shapes
    <3> QED BY <3>1, <3>2
  <2>4. [old EXCEPT !.exact = e] \in Merges
    BY MergeClosed
  <2> QED BY <1>2, <1>3, <2>1, <2>2, <2>3, <2>4
<1>4. CASE old.backend # "sol"
  <2>1. Merge(old, new) = [new EXCEPT !.exact = e]
    BY <1>2, <1>4 DEF Merge
  <2>2. /\ [new EXCEPT !.exact = e].exact = e
        /\ [new EXCEPT !.exact = e].backend = new.backend
        /\ [new EXCEPT !.exact = e].policy = new.policy
    BY <1>1 DEF Shapes
  <2>3. [new EXCEPT !.exact = e] \in Merges
    BY <1>1, MergeClosed
  <2> QED BY <1>2, <1>4, <2>1, <2>2, <2>3
<1> QED BY <1>3, <1>4
-----------------------------------------------------------------------------
(***************************************************************************)
(* Chains and dictionaries.                                                *)
(***************************************************************************)
\* A replacement goes around the others.
LEMMA Around ==
  ASSUME NEW x \in ModelType, NEW l \in Links, NEW y, y.chain = <<l>> \o x.chain
  PROVE  /\ y.chain \in Seq(Links)
         /\ y.chain[1] = l
         /\ \A i \in DOMAIN x.chain : i + 1 \in DOMAIN y.chain /\ y.chain[i + 1] = x.chain[i]
         /\ 1 \in DOMAIN y.chain
         /\ \A j : j \in SolLinks(y) <=>
                    (j = 1 /\ l.by = "sol") \/ (\E i \in SolLinks(x) : j = i + 1)
<1>1. <<l>> \in Seq(Links) /\ x.chain \in Seq(Links) /\ Len(<<l>>) = 1 /\ <<l>>[1] = l
  BY DEF ModelType
<1>2. PICK n \in Nat : n = Len(x.chain) /\ DOMAIN x.chain = 1..n
  BY <1>1
<1>3. /\ y.chain \in Seq(Links) /\ Len(y.chain) = n + 1
      /\ \A i \in 1..n + 1 : y.chain[i] = IF i <= 1 THEN <<l>>[i] ELSE x.chain[i - 1]
  BY <1>1, <1>2, ConcatProperties
<1>4. DOMAIN y.chain = 1..n + 1
  BY <1>3
<1>5. y.chain[1] = l
  BY <1>1, <1>3
<1>6. \A i \in 1..n : i + 1 \in 1..n + 1 /\ y.chain[i + 1] = x.chain[i]
  BY <1>3
<1>7. 1..n + 1 = {1} \cup {i + 1 : i \in 1..n}
  <2>1. ASSUME NEW j \in 1..n + 1 PROVE j \in {1} \cup {i + 1 : i \in 1..n}
    <3>1. CASE j = 1
      BY <3>1
    <3>2. CASE j # 1
      <4>1. j - 1 \in 1..n /\ j = (j - 1) + 1
        BY <3>2
      <4> QED BY <4>1
    <3> QED BY <3>1, <3>2
  <2>2. ASSUME NEW j \in {1} \cup {i + 1 : i \in 1..n} PROVE j \in 1..n + 1
    OBVIOUS
  <2> QED BY <2>1, <2>2
<1>8. ASSUME NEW j
      PROVE  j \in SolLinks(y) <=> (j = 1 /\ l.by = "sol") \/ (\E i \in SolLinks(x) : j = i + 1)
  <2>1. SolLinks(x) = {i \in 1..n : x.chain[i].by = "sol"}
    BY <1>2 DEF SolLinks
  <2>2. SolLinks(y) = {i \in 1..n + 1 : y.chain[i].by = "sol"}
    BY <1>4 DEF SolLinks
  <2>3. 1 \in SolLinks(y) <=> l.by = "sol"
    BY <1>5, <2>2
  <2>4. \A i \in 1..n : i + 1 \in SolLinks(y) <=> i \in SolLinks(x)
    BY <1>6, <2>1, <2>2
  <2>5. j \in SolLinks(y) => j = 1 \/ \E i \in 1..n : j = i + 1
    BY <1>7, <2>2
  <2>6. SolLinks(x) \subseteq 1..n
    BY <2>1
  <2> QED BY <2>3, <2>4, <2>5, <2>6
<1>9. 1 \in DOMAIN y.chain
  BY <1>4
<1> QED BY <1>2, <1>3, <1>5, <1>6, <1>8, <1>9

\* The first BlockPatch is the outermost replacement, and the only BlockPatch.
LEMMA FirstPatch ==
  ASSUME NEW x \in ModelType, NEW l \in Links, NEW y, y.chain = <<l>> \o x.chain,
         l.by = "sol", SolLinks(x) = {}
  PROVE  SolLinks(y) = {1}
<1>1. \A j : j \in SolLinks(y) <=>
               (j = 1 /\ l.by = "sol") \/ (\E i \in SolLinks(x) : j = i + 1)
  BY Around
<1> QED BY <1>1

\* Another replacement moves the BlockPatches one place in.
LEMMA ForeignPatch ==
  ASSUME NEW x \in ModelType, NEW l \in Links, NEW y, y.chain = <<l>> \o x.chain,
         l.by # "sol"
  PROVE  \A j : j \in SolLinks(y) <=> \E i \in SolLinks(x) : j = i + 1
<1>1. \A j : j \in SolLinks(y) <=>
               (j = 1 /\ l.by = "sol") \/ (\E i \in SolLinks(x) : j = i + 1)
  BY Around
<1> QED BY <1>1

\* What a model refers to stays when dictionaries are added.
LEMMA RefersStill ==
  ASSUME NEW x \in ModelType, NEW h, NEW g, Len(h) \in Nat, Len(g) \in Nat, Len(h) <= Len(g),
         \A i \in 1..Len(h) : g[i] = h[i], RefersTo(x, h)
  PROVE  /\ RefersTo(x, g)
         /\ x.history # 0 => g[x.history] = h[x.history]
         /\ x.registry # 0 => g[x.registry] = h[x.registry]
  BY DEF RefersTo
-----------------------------------------------------------------------------
(***************************************************************************)
(* The steps.                                                              *)
(***************************************************************************)
\* The dictionaries there are stay as they are.
Extends ==
  /\ heap' \in Seq(Cells) /\ Len(heap) <= Len(heap')
  /\ \A i \in 1..Len(heap) : heap'[i] = heap[i]

\* A new model leaves the others as they are.
LEMMA NewModelKeeps ==
  ASSUME IInv, NEW y \in ModelType, models' = Append(models, y)
  PROVE  /\ models' \in Seq(ModelType)
         /\ Models' = Models \cup {Len(models) + 1}
         /\ \A m \in Models : models'[m] = models[m]
         /\ models'[Len(models) + 1] = y
<1>1. models \in Seq(ModelType)
  BY DEF IInv, InstallTypeOK
<1>2. PICK n \in Nat : n = Len(models) /\ Models = 1..n
  BY <1>1 DEF Models
<1>3. /\ models' \in Seq(ModelType) /\ Len(models') = n + 1
      /\ \A m \in 1..n : models'[m] = models[m]
      /\ models'[n + 1] = y
  BY <1>1, <1>2, AppendProperties
<1>4. Models' = 1..n + 1
  BY <1>3 DEF Models
<1> QED BY <1>2, <1>3, <1>4

\* A model that is in order joins those that are.
LEMMA NewModelIInv ==
  ASSUME IInv, NEW y, NewModel(y), ModelOK(y, heap'), Extends, run = Idle, UNCHANGED <<run, held>>
  PROVE  IInv'
<1>1. /\ y \in ModelType /\ models' = Append(models, y)
  BY DEF NewModel, ModelOK
<1>2. /\ models' \in Seq(ModelType)
      /\ Models' = Models \cup {Len(models) + 1}
      /\ \A m \in Models : models'[m] = models[m]
      /\ models'[Len(models) + 1] = y
  BY <1>1, NewModelKeeps
<1>3. Len(heap) \in Nat /\ Len(heap') \in Nat
  BY DEF Extends, IInv, InstallTypeOK
<1>4. ASSUME NEW m \in Models PROVE ModelOK(models'[m], heap')
  <2>1. PICK x : x = models[m] /\ ModelOK(x, heap)
    BY DEF IInv
  <2>2. RefersTo(x, heap')
    <3>1. x \in ModelType /\ RefersTo(x, heap)
      BY <2>1 DEF ModelOK
    <3> QED BY <1>3, <3>1, RefersStill DEF Extends
  <2>3. models'[m] = x
    BY <1>2, <2>1
  <2> QED BY <2>1, <2>2, <2>3 DEF ModelOK
<1>6. \A m \in Models' : ModelOK(models'[m], heap')
  BY <1>2, <1>4
<1>7. InstallTypeOK'
  <2>1. \A m \in Models' : /\ models'[m].history \in 0..Len(heap')
                           /\ models'[m].registry \in 0..Len(heap')
    BY <1>6 DEF ModelOK, RefersTo
  <2> QED BY <1>2, <2>1 DEF IInv, InstallTypeOK, Extends
<1>8. RequestFits'
  BY DEF RequestFits, Idle
<1> QED BY <1>6, <1>7, <1>8 DEF IInv

\* An application of Sol-H3.
LEMMA InstallIInv == ASSUME IInv, NEW m \in Models, NEW c \in Configs, Install(m, c) PROVE IInv' /\ Extends
<1>1. PICK x : x = models[m] /\ ModelOK(x, heap) /\ x \in ModelType
  BY DEF IInv, ModelOK
<1>2. PICK d : d = Active(x, c)
  OBVIOUS
<1>3. PICK y : y = [x EXCEPT !.key = d,
                             !.sampling = Wrappers(x.sampling, d),
                             !.diffusion = Wrappers(x.diffusion, d),
                             !.chain = Patched(x, d),
                             !.history = IF d.backend = "sol" THEN Len(heap) + 1 ELSE @,
                             !.registry = IF d.backend = "sol" THEN FreshOwner(x) ELSE @,
                             !.applied = @ \cup {c}]
  OBVIOUS
<1>4. /\ NewModel(y) /\ run = Idle /\ UNCHANGED <<run, held>>
      /\ heap' = IF d.backend = "sol" THEN Extended(x, d) ELSE heap
      /\ Installed(x) => ~Conflict(x.key, c)
  BY <1>1, <1>2, <1>3 DEF Install
<1>5. /\ y.key = d /\ y.sampling = <<d>> /\ y.diffusion = <<d>>
      /\ y.chain = IF Installed(x) THEN x.chain ELSE <<Sol(d)>> \o x.chain
      /\ y.history = IF d.backend = "sol" THEN Len(heap) + 1 ELSE x.history
      /\ y.registry = IF d.backend = "sol" THEN Len(heap) + 2 ELSE x.registry
      /\ y.applied = x.applied \cup {c}
  BY <1>1, <1>3 DEF ModelType, Wrappers, Patched, FreshOwner
<1>6. heap \in Seq(Cells) /\ Len(heap) \in Nat
  BY DEF IInv, InstallTypeOK
<1>7. Installed(x) => x.key \in Merges
  BY <1>1 DEF Installed, ModelType
<1>8. /\ d \in Merges /\ d # None
      /\ Installed(x) => d = Merge(x.key, c)
      /\ ~Installed(x) => d = c
  <2>1. CASE Installed(x)
    BY <1>2, <1>4, <1>7, <2>1, MergeMeans, MergeFields DEF Active
  <2>2. CASE ~Installed(x)
    BY <1>2, <2>2, MergeClosed, MergeFields DEF Active
  <2> QED BY <2>1, <2>2
<1>9. MergesApplied(y)
  <2>1. CASE Installed(x)
    <3>1. /\ d.exact <=> x.key.exact \/ c.exact
          /\ d.backend = "sol" <=> x.key.backend = "sol" \/ c.backend = "sol"
          /\ x.key.backend = "sol" => d.policy = x.key.policy
          /\ c.backend = "sol" => d.policy = c.policy
      BY <1>4, <1>7, <1>8, <2>1, MergeMeans
    <3>2. /\ x.key.exact <=> \E a \in x.applied : a.exact
          /\ (x.key.backend = "sol") <=> \E a \in x.applied : a.backend = "sol"
          /\ \A a \in x.applied : a.backend = "sol" => a.policy = x.key.policy
      BY <1>1, <2>1 DEF ModelOK, MergesApplied
    <3> QED BY <1>5, <3>1, <3>2 DEF MergesApplied
  <2>2. CASE ~Installed(x)
    <3>1. x.applied = {}
      BY <1>1, <2>2 DEF ModelOK, WrappedOnce
    <3> QED BY <1>5, <1>8, <2>2, <3>1 DEF MergesApplied
  <2> QED BY <2>1, <2>2
<1>10. /\ y.chain \in Seq(Links)
       /\ \A i \in SolLinks(y) : y.chain[i].config \in Merges
       /\ \E i \in DOMAIN y.chain : SolLinks(y) = {i}
  <2>1. CASE Installed(x)
    BY <1>1, <1>5, <2>1 DEF ModelOK, WrappedOnce, ModelType, SolLinks
  <2>2. CASE ~Installed(x)
    <3>1. Sol(d) \in Links /\ Sol(d).by = "sol" /\ Sol(d).config \in Merges
      BY <1>8 DEF Sol, Links
    <3>2. SolLinks(x) = {}
      BY <1>1, <2>2 DEF ModelOK, WrappedOnce
    <3>3. y.chain = <<Sol(d)>> \o x.chain
      BY <1>5, <2>2
    <3>4. PICK l \in Links : l = Sol(d)
      BY <3>1
    <3>5. y.chain = <<l>> \o x.chain
      BY <3>3, <3>4
    <3>6. y.chain \in Seq(Links)
      BY <1>1, <3>5, Around
    <3>7. y.chain[1] = l
      BY <1>1, <3>5, Around
    <3>8. 1 \in DOMAIN y.chain
      BY <1>1, <3>5, Around
    <3>9. SolLinks(y) = {1}
      BY <1>1, <3>1, <3>2, <3>4, <3>5, FirstPatch
    <3> QED BY <3>1, <3>4, <3>6, <3>7, <3>8, <3>9
  <2> QED BY <2>1, <2>2
<1>11. WrappedOnce(y)
  <2>1. Installed(y) /\ y.sampling = <<y.key>> /\ y.diffusion = <<y.key>>
    BY <1>5, <1>8 DEF Installed
  <2> QED BY <1>10, <2>1 DEF WrappedOnce
<1>12. y \in ModelType
  <2>1. y.history \in Nat /\ y.registry \in Nat /\ y.applied \in SUBSET Configs
    BY <1>1, <1>5, <1>6 DEF ModelType
  <2>2. PICK w \in Seq(Merges) : w = <<d>>
    <3>1. <<d>> \in Seq(Merges)
      BY <1>8
    <3> QED BY <3>1
  <2>3. y = [key |-> d, sampling |-> w, diffusion |-> w, chain |-> y.chain,
             history |-> y.history, registry |-> y.registry, applied |-> y.applied]
    <3>1. x = [key |-> x.key, sampling |-> x.sampling, diffusion |-> x.diffusion,
               chain |-> x.chain, history |-> x.history, registry |-> x.registry,
               applied |-> x.applied]
      BY <1>1 DEF ModelType
    <3> QED BY <1>3, <1>5, <2>2, <3>1 DEF Wrappers
  <2>4. PICK k \in Merges \cup {None}, l \in Seq(Links), h \in Nat, g \in Nat,
             a \in SUBSET Configs :
          k = d /\ l = y.chain /\ h = y.history /\ g = y.registry /\ a = y.applied
    BY <1>8, <1>10, <2>1
  <2>5. y = [key |-> k, sampling |-> w, diffusion |-> w, chain |-> l,
             history |-> h, registry |-> g, applied |-> a]
    BY <2>3, <2>4
  <2> QED BY <2>5 DEF ModelType
<1>13. Extends /\ RefersTo(y, heap')
  <2>1. CASE d.backend = "sol"
    <3> DEFINE new == <<[policy |-> d, owner |-> 0], [policy |-> None, owner |-> Len(heap) + 2]>>
    <3>1. new \in Seq(Cells) /\ Len(new) = 2
      BY <1>6, <1>8 DEF Cells
    <3>2. heap' = heap \o new
      BY <1>4, <2>1 DEF Extended
    <3>3. /\ heap' \in Seq(Cells) /\ Len(heap') = Len(heap) + 2
          /\ \A i \in 1..Len(heap) : heap'[i] = heap[i]
          /\ heap'[Len(heap) + 1] = new[1] /\ heap'[Len(heap) + 2] = new[2]
      BY <1>6, <3>1, <3>2, ConcatProperties
    <3>4. /\ y.history = Len(heap) + 1 /\ y.registry = Len(heap) + 2 /\ y.key = d
          /\ heap'[y.history] = [policy |-> d, owner |-> 0]
          /\ heap'[y.registry].owner = y.registry
      BY <1>5, <2>1, <3>3
    <3>5. Installed(y) /\ y.key.backend = "sol"
      BY <1>8, <2>1, <3>4 DEF Installed
    <3>6. RefersTo(y, heap')
      BY <1>6, <3>3, <3>4, <3>5 DEF RefersTo
    <3> QED BY <1>6, <3>3, <3>6 DEF Extends
  <2>2. CASE d.backend # "sol"
    <3>1. heap' = heap /\ y.history = x.history /\ y.registry = x.registry
      BY <1>4, <1>5, <2>2
    <3>2. ~(Installed(x) /\ x.key.backend = "sol")
      BY <1>4, <1>7, <1>8, <2>2, MergeMeans
    <3>3. x.registry = 0 /\ x.history = 0
      BY <1>1, <3>2 DEF ModelOK, RefersTo
    <3> QED BY <1>6, <3>1, <3>3 DEF Extends, RefersTo
  <2> QED BY <2>1, <2>2
<1>14. ModelOK(y, heap')
  BY <1>9, <1>11, <1>12, <1>13 DEF ModelOK
<1> QED BY <1>4, <1>13, <1>14, NewModelIInv

\* A model added at the end leaves the others in their place.
LEMMA AppendKeeps ==
  ASSUME IInv, NEW y, models' = Append(models, y), NEW m \in Models
  PROVE  models'[m] = models[m]
  BY DEF IInv, InstallTypeOK, Models

\* A step that adds no dictionary.
LEMMA HeapKept == ASSUME IInv, UNCHANGED heap PROVE Extends
  BY DEF Extends, IInv, InstallTypeOK

\* A clone of a model is that model.
LEMMA CloneIInv == ASSUME IInv, NEW m \in Models, CloneModel(m) PROVE IInv' /\ Extends
<1>1. NewModel(models[m]) /\ run = Idle /\ UNCHANGED <<heap, run, held>>
  BY DEF CloneModel
<1>2. Extends
  BY <1>1, HeapKept
<1>3. PICK y : y = models[m] /\ ModelOK(y, heap)
  BY DEF IInv
<1>4. NewModel(y) /\ ModelOK(y, heap')
  BY <1>1, <1>3
<1> QED BY <1>1, <1>2, <1>4, NewModelIInv

\* Another node's wrapper leaves the BlockPatches and the options alone.
LEMMA WrapIInv == ASSUME IInv, NEW m \in Models, WrapBlocks(m) PROVE IInv' /\ Extends
<1>1. PICK x : x = models[m] /\ ModelOK(x, heap) /\ x \in ModelType
  BY DEF IInv, ModelOK
<1>2. PICK by \in {"declared", "opaque"} :
        /\ NewModel([x EXCEPT !.chain = <<Foreign(by)>> \o @])
        /\ run = Idle /\ UNCHANGED <<heap, run, held>>
  BY <1>1 DEF WrapBlocks
<1>3. PICK y : y = [x EXCEPT !.chain = <<Foreign(by)>> \o @]
  OBVIOUS
<1>4. /\ y.key = x.key /\ y.sampling = x.sampling /\ y.diffusion = x.diffusion
      /\ y.history = x.history /\ y.registry = x.registry /\ y.applied = x.applied
      /\ y.chain = <<Foreign(by)>> \o x.chain
  BY <1>1, <1>3 DEF ModelType
<1>5. PICK l \in Links : l = Foreign(by) /\ l.by # "sol"
  <2>1. Foreign(by) \in Links /\ Foreign(by).by # "sol"
    BY DEF Foreign, Links
  <2> QED BY <2>1
<1>6. y.chain = <<l>> \o x.chain
  BY <1>4, <1>5
<1>7. PICK chain \in Seq(Links) : chain = y.chain
  <2>1. y.chain \in Seq(Links)
    BY <1>1, <1>6, Around
  <2> QED BY <2>1
<1>8. \A i \in DOMAIN x.chain : i + 1 \in DOMAIN y.chain /\ y.chain[i + 1] = x.chain[i]
  <2>1. \A i \in DOMAIN x.chain : i + 1 \in DOMAIN y.chain
    BY <1>1, <1>6, Around
  <2>2. PICK c \in Seq(Links) : c = x.chain
    <3>1. x.chain \in Seq(Links)
      BY <1>1 DEF ModelType
    <3> QED BY <3>1
  <2>3. \A i \in DOMAIN c : (<<l>> \o c)[i + 1] = c[i]
    OBVIOUS
  <2> QED BY <1>6, <2>1, <2>2, <2>3
<1>9. \A j : j \in SolLinks(y) <=> \E i \in SolLinks(x) : j = i + 1
  BY <1>1, <1>5, <1>6, ForeignPatch
<1>10. y \in ModelType
  <2>1. y = [x EXCEPT !.chain = chain]
    BY <1>3, <1>4, <1>7
  <2> QED BY <1>1, <1>7, <2>1 DEF ModelType
<1>11. WrappedOnce(y)
  <2>1. WrappedOnce(x)
    BY <1>1 DEF ModelOK
  <2>2. \A i \in SolLinks(x) : i \in DOMAIN x.chain
    BY DEF SolLinks
  <2>3. \A j \in SolLinks(y) : y.chain[j].config \in Merges
    BY <1>8, <1>9, <2>1, <2>2 DEF WrappedOnce
  <2>4. Installed(y) <=> Installed(x)
    BY <1>4 DEF Installed
  <2>5. ASSUME Installed(x) PROVE \E j \in DOMAIN y.chain : SolLinks(y) = {j}
    <3>1. PICK i \in DOMAIN x.chain : SolLinks(x) = {i}
      BY <2>1, <2>5 DEF WrappedOnce
    <3>2. i + 1 \in DOMAIN y.chain
      BY <1>8, <3>1
    <3>3. SolLinks(y) = {i + 1}
      BY <1>9, <3>1
    <3> QED BY <3>2, <3>3
  <2>6. SolLinks(x) = {} => SolLinks(y) = {}
    BY <1>9
  <2> QED BY <1>4, <2>1, <2>3, <2>4, <2>5, <2>6 DEF WrappedOnce
<1>12. MergesApplied(y)
  BY <1>1, <1>4 DEF ModelOK, MergesApplied, Installed
<1>13. RefersTo(y, heap)
  BY <1>1, <1>4 DEF ModelOK, RefersTo, Installed
<1>14. Extends /\ ModelOK(y, heap')
  BY <1>2, <1>10, <1>11, <1>12, <1>13, HeapKept DEF ModelOK
<1> QED BY <1>2, <1>3, <1>14, NewModelIInv

\* A sampling leaves the models and their dictionaries alone.
LEMMA RunIInv ==
  ASSUME IInv, UNCHANGED <<models, heap>>, run' \in Runs, held' \in SUBSET Merges, RequestFits'
  PROVE  IInv' /\ Extends
<1>1. Extends
  BY HeapKept
<1>2. InstallTypeOK'
  BY DEF IInv, InstallTypeOK, Models
<1>3. \A m \in Models' : ModelOK(models'[m], heap')
  BY DEF IInv, Models
<1> QED BY <1>1, <1>2, <1>3 DEF IInv

\* The request of a sampling is the configuration of the one wrapper there is.
LEMMA SampleIInv == ASSUME IInv, NEW m \in Models, Sample(m) PROVE IInv' /\ Extends
<1>1. PICK x : x = models[m] /\ ModelOK(x, heap) /\ x \in ModelType /\ Installed(x)
  BY DEF IInv, ModelOK, Sample
<1>2. x.sampling = <<x.key>> /\ x.key \in Merges
  BY <1>1 DEF ModelOK, WrappedOnce, ModelType, Installed
<1>3. x.sampling[Len(x.sampling)] = x.key
  BY <1>2
<1>4. PICK k \in Merges : k = x.key
  BY <1>2
<1>5. /\ run' = [place |-> "sampling", model |-> m, request |-> k, copies |-> <<>>, raised |-> FALSE]
      /\ UNCHANGED <<models, heap, held>>
  BY <1>1, <1>3, <1>4 DEF Sample, Idle
<1>6. m \in Nat
  BY DEF Models, IInv, InstallTypeOK
<1>7. run' \in Runs
  BY <1>5, <1>6 DEF Runs
<1>8. RequestFits'
  BY <1>1, <1>4, <1>5 DEF RequestFits, Models
<1>9. held' \in SUBSET Merges
  BY <1>5 DEF IInv, InstallTypeOK
<1> QED BY <1>5, <1>7, <1>8, <1>9, RunIInv

\* The one DiffusionWrapper there is agrees with the options and the request.
LEMMA ForwardIInv == ASSUME IInv, Forward PROVE IInv' /\ Extends
<1>1. run \in Runs /\ run.place = "sampling" /\ held \in SUBSET Merges
  BY DEF IInv, InstallTypeOK, Forward
<1>2. PICK x : /\ x = models[run.model] /\ run.model \in Models /\ Installed(x)
               /\ run.request = x.key /\ ModelOK(x, heap)
  BY <1>1 DEF IInv, RequestFits
<1>3. x.diffusion = <<x.key>>
  BY <1>2 DEF ModelOK, WrappedOnce
<1>4. \A i \in DOMAIN x.diffusion : x.diffusion[i] = x.key
  BY <1>3
<1>5. Coherent(x, run.request)
  BY <1>2, <1>4 DEF Coherent
<1>6. run' = [run EXCEPT !.place = "forward"] /\ UNCHANGED <<models, heap, held>>
  BY <1>2, <1>5 DEF Forward
<1>7. run' \in Runs
  BY <1>1, <1>6 DEF Runs
<1>8. run'.place = "forward" /\ run'.model = run.model /\ run'.request = run.request
  BY <1>1, <1>6 DEF Runs
<1>9. RequestFits'
  BY <1>2, <1>6, <1>8 DEF RequestFits, Models
<1> QED BY <1>1, <1>6, <1>7, <1>9, RunIInv

\* A BlockPatch is entered under its configuration.
LEMMA EnterIInv == ASSUME IInv, EnterPatch PROVE IInv' /\ Extends
<1>1. run \in Runs /\ run.place = "forward" /\ held \in SUBSET Merges
  BY DEF IInv, InstallTypeOK, EnterPatch
<1>2. PICK x : x = models[run.model] /\ run.model \in Models /\ ModelOK(x, heap)
  BY <1>1 DEF IInv, RequestFits
<1>3. PICK i \in SolLinks(x) :
        /\ run' = [run EXCEPT !.copies = Append(@,
             [link |-> i, patch |-> x.chain[i].config, callbacks |-> run.request.backend = "sol"])]
        /\ UNCHANGED <<models, heap, held>>
  BY <1>2 DEF EnterPatch
<1>4. PICK copy :
        copy = [link |-> i, patch |-> x.chain[i].config, callbacks |-> run.request.backend = "sol"]
  OBVIOUS
<1>5. x.chain[i].config \in Merges
  BY <1>2 DEF ModelOK, WrappedOnce
<1>6. i \in Nat
  BY <1>2 DEF ModelOK, ModelType, SolLinks
<1>7. copy \in [link : Nat, patch : Merges, callbacks : BOOLEAN]
  <2>1. PICK b \in BOOLEAN : b = (run.request.backend = "sol")
    OBVIOUS
  <2>2. PICK p \in Merges : p = x.chain[i].config
    BY <1>5
  <2>3. copy = [link |-> i, patch |-> p, callbacks |-> b]
    BY <1>4, <2>1, <2>2
  <2> QED BY <1>6, <2>3
<1>8. run' \in Runs
  <2>1. PICK copies \in Seq([link : Nat, patch : Merges, callbacks : BOOLEAN]) :
          copies = Append(run.copies, copy)
    <3>1. run.copies \in Seq([link : Nat, patch : Merges, callbacks : BOOLEAN])
      BY <1>1 DEF Runs
    <3>2. Append(run.copies, copy) \in Seq([link : Nat, patch : Merges, callbacks : BOOLEAN])
      BY <1>7, <3>1
    <3> QED BY <3>2
  <2>2. run' = [run EXCEPT !.copies = copies]
    BY <1>3, <1>4, <2>1
  <2> QED BY <1>1, <2>2 DEF Runs
<1>9. run'.place = run.place /\ run'.model = run.model /\ run'.request = run.request
  BY <1>1, <1>3 DEF Runs
<1>10. RequestFits'
  BY <1>3, <1>9 DEF IInv, RequestFits, Models
<1> QED BY <1>1, <1>3, <1>8, <1>10, RunIInv

\* An exception is remembered, and nothing else.
LEMMA RaisesIInv == ASSUME IInv, BlockRaises PROVE IInv' /\ Extends
<1>1. run \in Runs /\ held \in SUBSET Merges
  BY DEF IInv, InstallTypeOK
<1>2. run' = [run EXCEPT !.raised = TRUE] /\ UNCHANGED <<models, heap, held>>
  BY DEF BlockRaises
<1>3. run' \in Runs
  BY <1>1, <1>2 DEF Runs
<1>4. run'.place = run.place /\ run'.model = run.model /\ run'.request = run.request
  BY <1>1, <1>2 DEF Runs
<1>5. RequestFits'
  BY <1>2, <1>4 DEF IInv, RequestFits, Models
<1> QED BY <1>1, <1>2, <1>3, <1>5, RunIInv

\* The innermost BlockPatch is left.
LEMMA LeaveIInv == ASSUME IInv, LeavePatch PROVE IInv' /\ Extends
<1> DEFINE Copies == [link : Nat, patch : Merges, callbacks : BOOLEAN]
<1>1. run \in Runs /\ held \in SUBSET Merges /\ run.copies # <<>>
  BY DEF IInv, InstallTypeOK, LeavePatch
<1>2. run.copies \in Seq(Copies)
  BY <1>1 DEF Runs
<1>3. PICK c \in Seq(Copies) : c = run.copies
  BY <1>2
<1> HIDE DEF Copies
<1>4. PICK n \in Nat \ {0} : n = Len(c) /\ n - 1 \in Nat
  <2>1. Len(c) \in Nat \ {0}
    BY <1>1, <1>3, EmptySeq
  <2> QED BY <2>1
<1>5. PICK copies \in Seq(Copies) : copies = SubSeq(c, 1, n - 1)
  <2>1. SubSeq(c, 1, n - 1) \in Seq(Copies)
    BY <1>4
  <2> QED BY <2>1
<1>6. PICK copy \in Copies : copy = c[n]
  <2>1. c[n] \in Copies
    BY <1>4
  <2> QED BY <2>1
<1>7. /\ run' = [run EXCEPT !.copies = copies] /\ UNCHANGED <<models, heap>>
      /\ held' = IF copy.callbacks /\ ~Cleaned(copy.patch) THEN held \cup {copy.patch} ELSE held
  BY <1>1, <1>3, <1>4, <1>5, <1>6 DEF LeavePatch, Runs
<1>8. run' \in Runs
  BY <1>1, <1>5, <1>7 DEF Runs, Copies
<1>9. held' \in SUBSET Merges
  BY <1>1, <1>6, <1>7 DEF Copies
<1>10. run'.place = run.place /\ run'.model = run.model /\ run'.request = run.request
  BY <1>1, <1>7 DEF Runs
<1>11. RequestFits'
  BY <1>7, <1>10 DEF IInv, RequestFits, Models
<1> QED BY <1>7, <1>8, <1>9, <1>11, RunIInv

\* The next sampling starts anew.
LEMMA EndIInv == ASSUME IInv, EndSampling PROVE IInv' /\ Extends
<1>1. run' = Idle /\ held' = {} /\ UNCHANGED <<models, heap>>
  BY DEF EndSampling
<1>2. run' \in Runs
  BY <1>1 DEF Idle, Runs
<1>3. RequestFits'
  BY <1>1 DEF Idle, RequestFits
<1> QED BY <1>1, <1>2, <1>3, RunIInv

\* Nothing happens.
LEMMA StutterIInv == ASSUME IInv, UNCHANGED installVars PROVE IInv' /\ Extends
<1>1. run' \in Runs /\ held' \in SUBSET Merges
  BY DEF IInv, InstallTypeOK, installVars
<1>2. RequestFits'
  BY DEF IInv, RequestFits, Models, installVars
<1> QED BY <1>1, <1>2, RunIInv DEF installVars

\* The model without Sol-H3.
LEMMA InitIInv == InstallInit => IInv
<1> SUFFICES ASSUME InstallInit PROVE IInv
  OBVIOUS
<1>1. /\ Unpatched.key = None /\ Unpatched.chain = <<>> /\ Unpatched.applied = {}
      /\ Unpatched.history = 0 /\ Unpatched.registry = 0
  BY DEF Unpatched
<1>2. Unpatched \in ModelType
  BY DEF Unpatched, ModelType
<1>3. SolLinks(Unpatched) = {}
  BY <1>1 DEF SolLinks
<1>4. ModelOK(Unpatched, <<>>)
  BY <1>1, <1>2, <1>3 DEF ModelOK, WrappedOnce, MergesApplied, RefersTo, Installed
<1>5. Models = {1} /\ models[1] = Unpatched /\ heap = <<>> /\ models \in Seq(ModelType)
  BY <1>2 DEF InstallInit, Models
<1>6. run \in Runs /\ held \in SUBSET Merges
  BY DEF InstallInit, Idle, Runs
<1>7. InstallTypeOK
  BY <1>1, <1>5, <1>6 DEF InstallTypeOK
<1>8. RequestFits
  BY DEF InstallInit, Idle, RequestFits
<1> QED BY <1>4, <1>5, <1>7, <1>8 DEF IInv

\* Every step keeps the invariant, and the dictionaries.
LEMMA NextIInv == ASSUME IInv, [InstallNext]_installVars PROVE IInv' /\ Extends
<1>1. ASSUME NEW m \in Models, NEW c \in Configs, Install(m, c) PROVE IInv' /\ Extends
  BY <1>1, InstallIInv
<1>2. ASSUME NEW m \in Models, CloneModel(m) PROVE IInv' /\ Extends
  BY <1>2, CloneIInv
<1>3. ASSUME NEW m \in Models, WrapBlocks(m) PROVE IInv' /\ Extends
  BY <1>3, WrapIInv
<1>4. ASSUME NEW m \in Models, Sample(m) PROVE IInv' /\ Extends
  BY <1>4, SampleIInv
<1> QED
  BY <1>1, <1>2, <1>3, <1>4, ForwardIInv, EnterIInv, RaisesIInv, LeaveIInv, EndIInv,
     StutterIInv DEF InstallNext

\* The invariant holds in every reachable state.
THEOREM InstallCorrect == InstallSpec => []IInv
<1>1. InstallInit => IInv
  BY InitIInv
<1>2. IInv /\ [InstallNext]_installVars => IInv'
  BY NextIInv
<1> QED BY <1>1, <1>2, PTL DEF InstallSpec
-----------------------------------------------------------------------------
(***************************************************************************)
(* What follows from the invariant.                                        *)
(***************************************************************************)
\* For any configurations and any number of models, clones and samplings,
\* every variable keeps its kind and every reference points into the heap.
THEOREM InstallTypes == InstallSpec => []InstallTypeOK
<1>1. IInv => InstallTypeOK
  BY DEF IInv
<1> QED BY <1>1, InstallCorrect, PTL

\* Applications merge in any order: a model is exact if any application asked
\* for it, SOL if any was, under the one policy its SOL applications agree on.
THEOREM PolicyMergedTheorem == InstallSpec => []PolicyMerged
<1>1. IInv => PolicyMerged
  BY DEF IInv, ModelOK, MergesApplied, PolicyMerged
<1> QED BY <1>1, InstallCorrect, PTL

\* No DiffusionWrapper ever raises for a configuration that is not the one of
\* the options and of the request, and a block call passes one BlockPatch,
\* however often Sol-H3 was applied and wrapped.
THEOREM NeverRefusedTheorem == InstallSpec => []NeverRefused
<1>1. ASSUME IInv, NEW m \in Models, Installed(models[m])
      PROVE  Cardinality(SolLinks(models[m])) = 1
  <2>1. PICK i : SolLinks(models[m]) = {i}
    BY <1>1 DEF IInv, ModelOK, WrappedOnce
  <2> QED BY <2>1, FS_Singleton
<1>2. IInv => NeverRefused
  BY <1>1 DEF IInv, RequestFits, NeverRefused
<1> QED BY <1>2, InstallCorrect, PTL

\* Two models under one owner generation refer to the dictionaries of one
\* application, and run its configuration.
THEOREM OwnerNamesTheorem == InstallSpec => []OwnerNamesInstallation
<1>1. ASSUME IInv, NEW m \in Models, NEW n \in Models, NEW x, NEW y,
             x = models[m], y = models[n], x.registry # 0, y.registry # 0,
             heap[x.registry].owner = heap[y.registry].owner
      PROVE  x.key = y.key /\ heap[x.history] = heap[y.history]
  <2>1. RefersTo(x, heap) /\ RefersTo(y, heap) /\ x \in ModelType /\ y \in ModelType
    BY <1>1 DEF IInv, ModelOK
  <2>2. /\ heap[x.history] = [policy |-> x.key, owner |-> 0] /\ x.registry = x.history + 1
        /\ heap[y.history] = [policy |-> y.key, owner |-> 0] /\ y.registry = y.history + 1
        /\ x.registry = y.registry
    BY <1>1, <2>1 DEF RefersTo
  <2>3. x.history \in Nat /\ y.history \in Nat
    BY <2>1 DEF ModelType
  <2>4. x.history = y.history
    BY <2>2, <2>3
  <2>5. [policy |-> x.key, owner |-> 0] = [policy |-> y.key, owner |-> 0]
    BY <2>2, <2>4
  <2> QED BY <2>4, <2>5
<1>2. IInv => OwnerNamesInstallation
  BY <1>1 DEF OwnerNamesInstallation
<1> QED BY <1>2, InstallCorrect, PTL

\* The models there are stay, and so do the dictionaries.
LEMMA ModelsKept ==
  ASSUME IInv, [InstallNext]_installVars, NEW m \in Models
  PROVE  models'[m] = models[m]
<1>1. ASSUME NEW n \in Models, NEW c \in Configs, Install(n, c) PROVE models'[m] = models[m]
  BY <1>1, AppendKeeps DEF Install, NewModel
<1>2. ASSUME NEW n \in Models, CloneModel(n) PROVE models'[m] = models[m]
  BY <1>2, AppendKeeps DEF CloneModel, NewModel
<1>3. ASSUME NEW n \in Models, WrapBlocks(n) PROVE models'[m] = models[m]
  BY <1>3, AppendKeeps DEF WrapBlocks, NewModel
<1>4. ASSUME NEW n \in Models, Sample(n) PROVE models'[m] = models[m]
  BY <1>4 DEF Sample
<1>5. ASSUME Forward \/ EnterPatch \/ BlockRaises \/ LeavePatch \/ EndSampling \/ UNCHANGED installVars
      PROVE  models'[m] = models[m]
  BY <1>5 DEF Forward, EnterPatch, BlockRaises, LeavePatch, EndSampling, installVars
<1> QED BY <1>1, <1>2, <1>3, <1>4, <1>5 DEF InstallNext

\* What the options of a model resolve to never changes, whatever is applied to
\* the clones that share its dictionaries.
THEOREM BranchesIsolatedTheorem == InstallSpec => BranchesIsolated
<1>1. ASSUME IInv, [InstallNext]_installVars, NEW m \in Models
      PROVE  View(models[m])' = View(models[m])
  <2>1. models'[m] = models[m]
    BY <1>1, ModelsKept
  <2>2. PICK x : x = models[m] /\ x \in ModelType /\ RefersTo(x, heap)
    BY <1>1 DEF IInv, ModelOK
  <2>3. Extends /\ Len(heap) \in Nat
    BY <1>1, NextIInv DEF IInv, InstallTypeOK
  <2>4. x.history # 0 => heap'[x.history] = heap[x.history]
    BY <2>2, <2>3 DEF Extends, RefersTo
  <2>5. x.registry # 0 => heap'[x.registry] = heap[x.registry]
    BY <2>2, <2>3 DEF Extends, RefersTo
  <2> QED BY <2>1, <2>2, <2>4, <2>5 DEF View
<1>2. IInv /\ [InstallNext]_installVars => [\A m \in Models : View(models[m])' = View(models[m])]_installVars
  BY <1>1
<1> QED BY <1>2, InstallCorrect, PTL DEF InstallSpec, BranchesIsolated
=============================================================================
