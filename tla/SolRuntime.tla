----------------------------- MODULE SolRuntime -----------------------------
(***************************************************************************)
(* The request runtime of Sol-H3 (sol_h3/runtime.py with the part of       *)
(* sol_h3/sparse.py a call goes through): sampling requests, diffusion     *)
(* forwards, block calls and the attention calls made inside a block.      *)
(*                                                                         *)
(* One Python context is modelled.  Its two ContextVars, _REQUEST and      *)
(* _FORWARD, are request and forward; sampling may nest (a sampler         *)
(* callback or a replaced block starts another sampling), so the running   *)
(* code is always that of the current request.  An exception is err[r]     *)
(* together with the frame it has reached; every frame either unwinds      *)
(* through its finally block or, where third-party code runs, recovers.    *)
(*                                                                         *)
(* Tensors are abstracted to what the properties need: how many times      *)
(* the inherited preprocessing chain has been applied to them, and whether *)
(* the mixed-grid measure has removed K/V rows.                            *)
(***************************************************************************)
EXTENDS Naturals, Sequences, FiniteSets

CONSTANTS
  Requests,          \* sampling requests that may be started, at most once each
  None,              \* Python's None
  NBlocks,           \* transformer blocks of the model
  DenseEvaluations,  \* Config.dense_evaluations
  DenseLayers,       \* Config.dense_layers
  Leaves,            \* inherited dense attention providers
  Domains,           \* arithmetic-qualification keys of the sparse kernel
  Options,           \* what the forwards of each request may find in their options
  Inputs,            \* the attention calls the blocks of each request may make
  MaxForwards,       \* bound: forwards entered, for each request
  MaxReceipts        \* bound: receipts in a forward before it makes no new call

Blocks == 0..(NBlocks - 1)

(***************************************************************************)
(* options["optimized_attention_override"] as a block finds it: a chain of *)
(* attention_preprocess_v1 transforms (or none) that ends in a leaf.       *)
(***************************************************************************)
Providers == [chain : BOOLEAN, leaf : Leaves \cup {None}]
NoProvider == [chain |-> FALSE, leaf |-> None]

\* The options a forward is called with: the inherited provider, and whether
\* they announce Flow's later-stage continuation.
ForwardOptions == [provider : Providers, high : BOOLEAN]

(***************************************************************************)
(* One attention call as the runtime sees it: who makes it, whether a      *)
(* shape/ownership/layout check gives a fallback reason, the mixed-grid    *)
(* measure contracts present in the options, whether the sequence is a     *)
(* valid external one, whether prefix queries exist, and the kernel        *)
(* qualification key the tensors have.  A VDN callback is not told of a    *)
(* measure; where it looks for one, finding it is a fallback reason.       *)
(***************************************************************************)
CallInputs ==
  {in \in [kind : {"override", "vdn"}, reason : BOOLEAN,
           measure : {"none", "legacy", "generic", "both"}, external : BOOLEAN,
           prefix : BOOLEAN, domain : Domains] :
     in.kind = "vdn" => in.measure = "none"}

SparseRoutes ==
  {"sol", "sol_external_mixed", "sol_external_mixed_measure",
   "sol_external_mixed_weighted_measure", "vdn_local_sol"}
DenseRoutes ==
  {"dense_warmup", "vdn_dense_warmup", "kernel_unavailable", "fallback",
   "vdn_native", "inherited_owner"}
Routes == SparseRoutes \cup DenseRoutes

\* Points where code outside Sol-H3 runs and may start another sampling.
External == {"sampling", "forward", "block"}
InCall == {"sparse", "dense", "original", "weighted", "native"}
InForward == {"forward", "block"} \cup InCall

ASSUME ConstantsAssumption ==
  /\ NBlocks \in Nat \ {0}
  /\ DenseEvaluations \in Nat
  /\ DenseLayers \in Nat
  /\ MaxForwards \in [Requests -> Nat]
  /\ MaxReceipts \in [Requests -> Nat]
  /\ Options \in [Requests -> SUBSET ForwardOptions]
  /\ Inputs \in [Requests -> SUBSET CallInputs]
  /\ None \notin Requests
  /\ None \notin Leaves

VARIABLES
  request,      \* _REQUEST
  forward,      \* _FORWARD, named by the request its tuple belongs to
  outer,        \* token of _REQUEST.set in SamplingWrapper._sample
  saved,        \* token of _FORWARD.set in DiffusionWrapper.__call__
  pc,           \* where each request's code is
  err,          \* an exception is propagating out of that place
  forwards,     \* bound: forwards entered
  evaluations,  \* Request.evaluations
  kernel,       \* Request.kernel / Request.kernel_failure
  verified,     \* Request.sparse_verified
  disabled,     \* Request.disabled_dense_providers
  fwd,          \* the tuple _FORWARD holds, and the options of the forward
  blk,          \* locals of BlockPatch._call
  call          \* locals of the attention callback in progress, or the last one

scopeVars == <<request, forward, outer, saved>>
stateVars == <<evaluations, kernel, verified, disabled>>
vars == <<scopeVars, stateVars, pc, err, forwards, fwd, blk, call>>
----
NoForward ==
  [evaluation |-> 0, high |-> FALSE, provider |-> NoProvider,
   seen |-> {}, routes |-> <<>>]
NoBlock == [index |-> 0, owner |-> None, start |-> 0]
NoCall ==
  [kind |-> "override", measure |-> "none", label |-> "none",
   domain |-> None, prefix |-> FALSE, stage |-> "answer",
   provider |-> NoProvider, pre |-> 0, reduced |-> FALSE,
   ran |-> {}, receipts |-> 0, gateFailed |-> FALSE, done |-> FALSE]

\* A consumer of Q, K, V: what it was, and the tensors it was given.
Ran(op, leaf, pre, reduced) ==
  [op |-> op, leaf |-> leaf, pre |-> pre, reduced |-> reduced]
Consumers ==
  [op : {"sparse", "provider", "original", "weighted", "native"},
   leaf : Leaves \cup {None}, pre : 0..2, reduced : BOOLEAN]

Init ==
  /\ request = None
  /\ forward = None
  /\ outer = [r \in Requests |-> None]
  /\ saved = [r \in Requests |-> None]
  /\ pc = [r \in Requests |-> "new"]
  /\ err = [r \in Requests |-> FALSE]
  /\ forwards = [r \in Requests |-> 0]
  /\ evaluations = [r \in Requests |-> 0]
  /\ kernel = [r \in Requests |-> "unloaded"]
  /\ verified = [r \in Requests |-> {}]
  /\ disabled = [r \in Requests |-> {}]
  /\ fwd = [r \in Requests |-> NoForward]
  /\ blk = [r \in Requests |-> NoBlock]
  /\ call = [r \in Requests |-> NoCall]

\* The code of r is running at this place with no exception in flight.
At(r, place) == request = r /\ pc[r] = place /\ ~err[r]
Goto(r, place) == pc' = [pc EXCEPT ![r] = place]

\* An exception leaves the place r is in and reaches the frame at place.
Raise(r, place) ==
  /\ err' = [err EXCEPT ![r] = TRUE]
  /\ Goto(r, place)
----
(***************************************************************************)
(* SamplingWrapper._sample: a fresh Request for the dynamic extent of the  *)
(* executor, restored in its finally block.                                *)
(***************************************************************************)
SampleEnter(r) ==
  /\ pc[r] = "new"
  /\ request # None => (pc[request] \in External /\ ~err[request])
  /\ outer' = [outer EXCEPT ![r] = request]
  /\ request' = r
  /\ Goto(r, "sampling")
  /\ UNCHANGED <<forward, saved, stateVars, err, forwards, fwd, blk, call>>

\* Mutant: the variable is cleared instead of restored from its token.
ResetRequestToNone(r) == request' = None
ResetRequest(r) == request' = outer[r]

\* The scope ends and with it the Request object.
SampleOver(r) ==
  /\ ResetRequest(r)
  /\ Goto(r, "over")
  /\ evaluations' = [evaluations EXCEPT ![r] = 0]
  /\ kernel' = [kernel EXCEPT ![r] = "unloaded"]
  /\ verified' = [verified EXCEPT ![r] = {}]
  /\ disabled' = [disabled EXCEPT ![r] = {}]
  /\ UNCHANGED <<forward, outer, saved, forwards, fwd, blk, call>>

SampleReturns(r) ==
  /\ At(r, "sampling")
  /\ SampleOver(r)
  /\ UNCHANGED err

\* The exception reaches the code that started this sampling, if any; that
\* code handles it or lets it go on.
SampleUnwinds(r) ==
  /\ request = r /\ pc[r] = "sampling" /\ err[r]
  /\ SampleOver(r)
  /\ \E goesOn \in BOOLEAN :
       err' = [q \in Requests |->
                 IF q = r THEN FALSE ELSE IF q = outer[r] THEN goesOn ELSE err[q]]

\* The sampler handles a failed evaluation itself and goes on sampling.
SamplerRecovers(r) ==
  /\ request = r /\ pc[r] = "sampling" /\ err[r]
  /\ err' = [err EXCEPT ![r] = FALSE]
  /\ UNCHANGED <<scopeVars, stateVars, pc, forwards, fwd, blk, call>>
----
(***************************************************************************)
(* DiffusionWrapper.__call__.                                              *)
(***************************************************************************)
\* options[KEY] differs from the wrapper's configuration, or the request was
\* opened by a differently configured model.
ForwardRefused(r) ==
  /\ At(r, "sampling")
  /\ err' = [err EXCEPT ![r] = TRUE]
  /\ UNCHANGED <<scopeVars, stateVars, pc, forwards, fwd, blk, call>>

\* The evaluation number a forward works under.
\* Mutant: numbers start one too low.
EvaluationBeforeEntry(r) == evaluations[r] - 1
EvaluationAtEntry(r) == evaluations[r]

ForwardEnter(r) ==
  /\ At(r, "sampling")
  /\ forwards[r] < MaxForwards[r]
  /\ forwards' = [forwards EXCEPT ![r] = @ + 1]
  /\ saved' = [saved EXCEPT ![r] = forward]
  /\ forward' = r
  /\ \E o \in Options[r] :
       fwd' = [fwd EXCEPT ![r] =
                 [evaluation |-> EvaluationAtEntry(r), high |-> o.high,
                  provider |-> o.provider, seen |-> {}, routes |-> <<>>]]
  /\ Goto(r, "forward")
  /\ UNCHANGED <<request, outer, stateVars, err, blk, call>>

\* Mutant: _FORWARD is not reset when the forward ends.
LeaveForwardOpen(r) ==
  /\ UNCHANGED forward
  /\ fwd' = [fwd EXCEPT ![r] = NoForward]
  /\ Goto(r, "sampling")
LeaveForward(r) ==
  /\ forward' = saved[r]
  /\ fwd' = [fwd EXCEPT ![r] = NoForward]
  /\ Goto(r, "sampling")

ForwardReturns(r) ==
  /\ At(r, "forward")
  /\ LeaveForward(r)
  /\ UNCHANGED <<request, outer, saved, stateVars, err, forwards, blk, call>>

ForwardUnwinds(r) ==
  /\ request = r /\ pc[r] = "forward" /\ err[r]
  /\ LeaveForward(r)
  /\ UNCHANGED <<request, outer, saved, stateVars, err, forwards, blk, call>>
----
(***************************************************************************)
(* BlockPatch._call.  All of it works on the Request and the lists found   *)
(* in _FORWARD, whoever put them there: the owner of the block call.       *)
(***************************************************************************)
Owner(r) == blk[r].owner
RoutesOf(r) == fwd[Owner(r)].routes

\* record(route): one entry of the forward's routes and one receipt.
WithRecord(o, i, route) == [fwd EXCEPT ![o].routes = Append(@, <<i, route>>)]
Record(r, route) == fwd' = WithRecord(Owner(r), blk[r].index, route)

\* "if not seen": the forward becomes an actual evaluation at its first block.
\* Mutant: every block counts as an evaluation.
AnyBlock(o) == TRUE
FirstBlock(o) == fwd[o].seen = {}

BlockEnter(r) ==
  /\ At(r, "forward")
  /\ forward # None
  /\ \E i \in Blocks :
       /\ \A j \in fwd[forward].seen : j < i
       /\ blk' = [blk EXCEPT ![r] = [index |-> i, owner |-> forward,
                                     start |-> Len(fwd[forward].routes)]]
       /\ fwd' = [fwd EXCEPT ![forward].seen = @ \cup {i}]
  /\ evaluations' =
       [evaluations EXCEPT ![forward] = IF FirstBlock(forward) THEN @ + 1 ELSE @]
  /\ Goto(r, "block")
  /\ UNCHANGED <<scopeVars, kernel, verified, disabled,
                 err, forwards, call>>

LeaveBlock(r) ==
  /\ blk' = [blk EXCEPT ![r] = NoBlock]
  /\ call' = [call EXCEPT ![r] = NoCall]
  /\ Goto(r, "forward")

\* A block whose attention reached no Sol callback is still accounted for.
BlockReturns(r) ==
  /\ At(r, "block")
  /\ IF Len(RoutesOf(r)) = blk[r].start
     THEN Record(r, "inherited_owner")
     ELSE UNCHANGED fwd
  /\ LeaveBlock(r)
  /\ UNCHANGED <<scopeVars, stateVars, err, forwards>>

BlockUnwinds(r) ==
  /\ request = r /\ pc[r] = "block" /\ err[r]
  /\ LeaveBlock(r)
  /\ UNCHANGED <<scopeVars, stateVars, err, forwards, fwd>>

\* The attention owner or a previous block replacement handles the failure of
\* one attention call inside the block, and may make other calls.
BlockRecovers(r) ==
  /\ request = r /\ pc[r] = "block" /\ err[r]
  /\ err' = [err EXCEPT ![r] = FALSE]
  /\ UNCHANGED <<scopeVars, stateVars, pc, forwards, fwd, blk, call>>
----
(***************************************************************************)
(* override: where an ordinary attention call goes.                        *)
(***************************************************************************)
\* dense_evaluation_warmup, with Flow's later-stage continuation.
\* Mutant: the last warmup evaluation already runs sparse.
EvaluationWarmupShort(evaluation, high) ==
  /\ evaluation + 1 < DenseEvaluations
  /\ ~(DenseEvaluations = 1 /\ high)
EvaluationWarmup(evaluation, high) ==
  /\ evaluation < DenseEvaluations
  /\ ~(DenseEvaluations = 1 /\ high)

Warm(r) ==
  \/ EvaluationWarmup(fwd[Owner(r)].evaluation, fwd[Owner(r)].high)
  \/ blk[r].index < DenseLayers

Previous(r) == fwd[Owner(r)].provider
ChainDepth(p) == IF p.chain THEN 1 ELSE 0
LeafOf(p) == [chain |-> FALSE, leaf |-> p.leaf]

\* A call on the caller's tensors: nothing preprocessed, nothing reduced.
NewCall(r, in) ==
  [NoCall EXCEPT !.kind = in.kind, !.measure = in.measure, !.domain = in.domain,
                 !.prefix = in.prefix, !.provider = Previous(r)]

\* q, k, v, dense_provider = _preprocess_chain(dense_provider, q, k, v, ...)
Preprocessed(c) ==
  [c EXCEPT !.pre = @ + ChainDepth(c.provider), !.provider = LeafOf(c.provider)]

\* k, v, measure_stats = reduce_kv(k, v, measure_validated)
Reduced(c) == [c EXCEPT !.reduced = (c.measure = "legacy")]

Recorded(c, route) == [c EXCEPT !.label = route, !.receipts = @ + 1]

SparseRoute(c, external) ==
  IF c.kind = "vdn" THEN "vdn_local_sol"
  ELSE IF c.measure = "generic" THEN "sol_external_mixed_weighted_measure"
  ELSE IF c.measure = "legacy" THEN "sol_external_mixed_measure"
  ELSE IF external THEN "sol_external_mixed" ELSE "sol"

\* The contracts an ordinary call may not combine or carry.
MeasureRefused(in) ==
  \/ in.measure = "both"
  \/ in.measure = "legacy" /\ (in.reason \/ ~in.external)
  \/ in.measure = "generic" /\ in.reason

CanCall(r, in, kind) ==
  /\ At(r, "block")
  /\ Len(RoutesOf(r)) < MaxReceipts[r]
  /\ in.kind = kind

Start(r, c, place) ==
  /\ call' = [call EXCEPT ![r] = c]
  /\ Goto(r, place)
  /\ UNCHANGED <<scopeVars, stateVars, err, forwards, blk>>

\* A refused contract, an invalid measure or a preprocessing transform that
\* breaks its promise: the call raises before any route is chosen.
CallRefused(r, in) ==
  /\ CanCall(r, in, "override")
  /\ \/ MeasureRefused(in)
     \/ in.measure # "none"
     \/ Previous(r).chain /\ ~in.reason /\ ~Warm(r)
  /\ call' = [call EXCEPT ![r] = NoCall]
  /\ Raise(r, "block")
  /\ UNCHANGED <<scopeVars, stateVars, forwards, fwd, blk>>

\* A fallback reason: receipt, then the inherited owner.
CallIneligible(r, in) ==
  /\ CanCall(r, in, "override")
  /\ in.reason /\ in.measure = "none"
  /\ Record(r, "fallback")
  /\ Start(r, Recorded(NewCall(r, in), "fallback"), "dense")

\* Warmup of an ordinary call: dense() does the preprocessing itself.
CallWarm(r, in) ==
  /\ CanCall(r, in, "override")
  /\ ~in.reason /\ in.measure = "none" /\ Warm(r)
  /\ Record(r, "dense_warmup")
  /\ Start(r, Recorded(NewCall(r, in), "dense_warmup"), "dense")

\* Warmup under the legacy measure: preprocessing, then the K/V rows are
\* removed, and dense() is given the result.
CallWarmReduced(r, in) ==
  /\ CanCall(r, in, "override")
  /\ in.measure = "legacy" /\ ~MeasureRefused(in) /\ Warm(r)
  /\ Record(r, "dense_warmup")
  /\ Start(r, Recorded(Reduced(Preprocessed(NewCall(r, in))), "dense_warmup"), "dense")

\* Warmup under the generic measure: the weighted dense result itself.
CallWarmWeighted(r, in) ==
  /\ CanCall(r, in, "override")
  /\ in.measure = "generic" /\ ~MeasureRefused(in) /\ Warm(r)
  /\ Start(r, [Preprocessed(NewCall(r, in)) EXCEPT !.label = "dense_warmup"], "weighted")
  /\ UNCHANGED fwd

CallSparse(r, in) ==
  /\ CanCall(r, in, "override")
  /\ ~in.reason /\ ~MeasureRefused(in) /\ ~Warm(r)
  /\ LET c == Reduced(Preprocessed(NewCall(r, in)))
     IN  Start(r, [c EXCEPT !.label = SparseRoute(c, in.external)], "sparse")
  /\ UNCHANGED fwd
----
(***************************************************************************)
(* The VDN provider callbacks: restricted-domain calls whose fallback is   *)
(* VDN's own native attention.                                             *)
(***************************************************************************)
\* Not local, outside the domain, no usable mapping or no owner: in any phase.
VdnIneligible(r, in) ==
  /\ CanCall(r, in, "vdn")
  /\ in.reason
  /\ Record(r, "vdn_native")
  /\ Start(r, Recorded(NewCall(r, in), "vdn_native"), "native")

VdnWarm(r, in) ==
  /\ CanCall(r, in, "vdn")
  /\ ~in.reason /\ Warm(r)
  /\ Record(r, "vdn_dense_warmup")
  /\ Start(r, Recorded(NewCall(r, in), "vdn_dense_warmup"), "native")

VdnSparse(r, in) ==
  /\ CanCall(r, in, "vdn")
  /\ ~in.reason /\ ~Warm(r)
  /\ Start(r, [NewCall(r, in) EXCEPT !.prefix = FALSE, !.label = "vdn_local_sol"], "sparse")
  /\ UNCHANGED fwd
----
(***************************************************************************)
(* sparse.attention.                                                       *)
(***************************************************************************)
\* The kernel is loaded by the first call of the request that needs it.
\* Mutant: a request whose kernel failed to load tries again.
LoadableAgain(o) == kernel[o] # "ready"
Loadable(o) == kernel[o] = "unloaded"

KernelLoads(r) ==
  /\ At(r, "sparse")
  /\ Loadable(Owner(r))
  /\ kernel' = [kernel EXCEPT ![Owner(r)] = "ready"]
  /\ UNCHANGED <<scopeVars, evaluations, verified, disabled,
                 pc, err, forwards, fwd, blk, call>>

\* The receipt of a call whose kernel is unavailable.
\* Mutant: the receipt keeps the route the call was meant to take.
MeantRoute(c) == c.label
UnavailableRoute(c) == "kernel_unavailable"

\* dense_provider = previous; dense() with the tensors of the call itself.
\* Mutant: the tensors keep the preprocessing already applied to them.
PreprocessedTensors(r, c) == [c EXCEPT !.provider = Previous(r), !.reduced = FALSE]
CallerTensors(r, c) ==
  [c EXCEPT !.provider = Previous(r), !.pre = 0, !.reduced = FALSE]

\* What the callback does on KernelUnavailable: an ordinary call goes back to
\* the caller's tensors and to the whole inherited provider; a weighted one
\* keeps its measure; a VDN one takes the native attention.
AfterUnavailable(r) ==
  LET c == call[r]
      route == UnavailableRoute(c)
      Fallback(d, place) ==
        /\ Record(r, route)
        /\ call' = [call EXCEPT ![r] = Recorded(d, route)]
        /\ Goto(r, place)
  IN  \/ c.kind = "vdn" /\ Fallback(c, "native")
      \/ /\ c.kind = "override" /\ c.measure = "generic"
         /\ call' = [call EXCEPT ![r] = [c EXCEPT !.label = route]]
         /\ Goto(r, "weighted")
         /\ UNCHANGED fwd
      \/ /\ c.kind = "override" /\ c.measure # "generic"
         /\ Fallback(CallerTensors(r, c), "dense")

\* Loading fails, or has failed before in this request.
KernelFails(r) ==
  /\ At(r, "sparse")
  /\ kernel[Owner(r)] # "ready"
  /\ kernel' = [kernel EXCEPT ![Owner(r)] = "failed"]
  /\ AfterUnavailable(r)
  /\ UNCHANGED <<scopeVars, evaluations, verified, disabled,
                 err, forwards, blk>>

\* The all-selected arithmetic gate, once per qualification key and request.
GatePasses(r) ==
  /\ At(r, "sparse")
  /\ kernel[Owner(r)] = "ready"
  /\ call[r].domain \notin verified[Owner(r)]
  /\ verified' = [verified EXCEPT ![Owner(r)] = @ \cup {call[r].domain}]
  /\ UNCHANGED <<scopeVars, evaluations, kernel, disabled,
                 pc, err, forwards, fwd, blk, call>>

\* A failed gate is a RuntimeError, which no handler here catches.
\* Mutant: it is handled like a kernel that could not be loaded.
GateFailureHandled(r) ==
  /\ call' = [call EXCEPT ![r] = [Recorded(CallerTensors(r, @), "kernel_unavailable")
                                   EXCEPT !.gateFailed = TRUE]]
  /\ Record(r, "kernel_unavailable")
  /\ Goto(r, "dense")
  /\ UNCHANGED err
AfterGateFailure(r) ==
  /\ call' = [call EXCEPT ![r].gateFailed = TRUE]
  /\ Raise(r, "block")
  /\ UNCHANGED fwd

GateFails(r) ==
  /\ At(r, "sparse")
  /\ kernel[Owner(r)] = "ready"
  /\ call[r].domain \notin verified[Owner(r)]
  /\ AfterGateFailure(r)
  /\ UNCHANGED <<scopeVars, stateVars, forwards, blk>>

\* The consumer reads the tensors the callback holds.
Consume(c, op) ==
  [c EXCEPT !.ran = @ \cup {Ran(op, IF op = "provider" THEN c.provider.leaf ELSE None,
                                c.pre + (IF op \in {"provider", "original"}
                                         THEN ChainDepth(c.provider) ELSE 0),
                                c.reduced)}]

Finished(c) == [c EXCEPT !.done = TRUE]

\* A receipt that follows its result.
RecordAndReturn(r, c) ==
  /\ Record(r, c.label)
  /\ call' = [call EXCEPT ![r] = Finished(Recorded(c, c.label))]
  /\ Goto(r, "block")

\* dense_attention of the prefix recomputation.
\* Mutant: the inherited provider recomputes the prefix of every call.
InheritedPrefix(c) == "dense"
PrefixPlace(c) == IF c.measure = "generic" THEN "weighted" ELSE "dense"

\* The kernel runs; prefix queries, if any, are then recomputed densely.
SparseRuns(r) ==
  /\ At(r, "sparse")
  /\ kernel[Owner(r)] = "ready"
  /\ call[r].domain \in verified[Owner(r)]
  /\ LET c == Consume(call[r], "sparse") IN
     IF c.prefix
     THEN /\ call' = [call EXCEPT ![r] = [c EXCEPT !.stage = "prefix"]]
          /\ Goto(r, PrefixPlace(c))
          /\ UNCHANGED fwd
     ELSE RecordAndReturn(r, c)
  /\ UNCHANGED <<scopeVars, stateVars, err, forwards, blk>>
----
(***************************************************************************)
(* dense(): the inherited provider, then the original attention.           *)
(***************************************************************************)
Answer(r, c) ==
  IF c.stage = "prefix" THEN RecordAndReturn(r, c)
  ELSE /\ call' = [call EXCEPT ![r] = Finished(c)]
       /\ Goto(r, "block")
       /\ UNCHANGED fwd

ProviderUsable(r) ==
  /\ call[r].provider.leaf # None
  /\ call[r].provider.leaf \notin disabled[Owner(r)]

ProviderReturns(r) ==
  /\ At(r, "dense")
  /\ ProviderUsable(r)
  /\ Answer(r, Consume(call[r], "provider"))
  /\ UNCHANGED <<scopeVars, stateVars, err, forwards, blk>>

\* ImportError or OSError from the provider: it is demoted for the request
\* and the original attention gets the same tensors.
ProviderUnavailable(r) ==
  /\ At(r, "dense")
  /\ ProviderUsable(r)
  /\ disabled' = [disabled EXCEPT ![Owner(r)] = @ \cup {call[r].provider.leaf}]
  /\ call' = [call EXCEPT ![r] = Consume(@, "provider")]
  /\ Goto(r, "original")
  /\ UNCHANGED <<scopeVars, evaluations, kernel, verified,
                 err, forwards, fwd, blk>>

ProviderSkipped(r) ==
  /\ At(r, "dense")
  /\ ~ProviderUsable(r)
  /\ Goto(r, "original")
  /\ UNCHANGED <<scopeVars, stateVars, err, forwards, fwd, blk, call>>

OriginalReturns(r) ==
  /\ At(r, "original")
  /\ Answer(r, Consume(call[r], "original"))
  /\ UNCHANGED <<scopeVars, stateVars, err, forwards, blk>>

\* weighted_measure.dense: the receipt follows the result.
WeightedReturns(r) ==
  /\ At(r, "weighted")
  /\ LET c == Consume(call[r], "weighted") IN RecordAndReturn(r, c)
  /\ UNCHANGED <<scopeVars, stateVars, err, forwards, blk>>

\* VDN's native attention, after its receipt.
NativeReturns(r) ==
  /\ At(r, "native")
  /\ Answer(r, Consume(call[r], "native"))
  /\ UNCHANGED <<scopeVars, stateVars, err, forwards, blk>>

\* Any other failure of a computation, or no original attention to fall back
\* to: not handled here.
ComputeRaises(r) ==
  /\ \E place \in InCall : At(r, place)
  /\ pc[r] = "sparse" => kernel[Owner(r)] = "ready"
  /\ call' = [call EXCEPT ![r] = NoCall]
  /\ Raise(r, "block")
  /\ UNCHANGED <<scopeVars, stateVars, forwards, fwd, blk>>
----
Sampling(r) ==
  \/ SampleEnter(r) \/ SampleReturns(r) \/ SampleUnwinds(r) \/ SamplerRecovers(r)
Diffusion(r) ==
  \/ ForwardRefused(r) \/ ForwardEnter(r) \/ ForwardReturns(r) \/ ForwardUnwinds(r)
Block(r) ==
  \/ BlockEnter(r) \/ BlockReturns(r) \/ BlockUnwinds(r) \/ BlockRecovers(r)
Begin(r, in) ==
  \/ CallRefused(r, in) \/ CallIneligible(r, in) \/ CallWarm(r, in)
  \/ CallWarmReduced(r, in) \/ CallWarmWeighted(r, in) \/ CallSparse(r, in)
  \/ VdnIneligible(r, in) \/ VdnWarm(r, in) \/ VdnSparse(r, in)
Sparse(r) ==
  \/ KernelLoads(r) \/ KernelFails(r) \/ GatePasses(r) \/ GateFails(r) \/ SparseRuns(r)
Dense(r) ==
  \/ ProviderReturns(r) \/ ProviderUnavailable(r) \/ ProviderSkipped(r)
  \/ OriginalReturns(r) \/ WeightedReturns(r) \/ NativeReturns(r) \/ ComputeRaises(r)

Next ==
  \E r \in Requests :
    \/ Sampling(r) \/ Diffusion(r) \/ Block(r) \/ Sparse(r) \/ Dense(r)
    \/ \E in \in Inputs[r] : Begin(r, in)

Spec == Init /\ [][Next]_vars
----
(***************************************************************************)
(* Type invariant.                                                         *)
(***************************************************************************)
Forwards ==
  [evaluation : Nat, high : BOOLEAN, provider : Providers,
   seen : SUBSET Blocks, routes : Seq(Blocks \X Routes)]
BlockCalls == [index : Blocks, owner : Requests \cup {None}, start : Nat]
Calls ==
  [kind : {"override", "vdn"}, measure : {"none", "legacy", "generic", "both"},
   label : Routes \cup {"none"}, domain : Domains \cup {None}, prefix : BOOLEAN,
   stage : {"answer", "prefix"}, provider : Providers, pre : 0..1, reduced : BOOLEAN,
   ran : SUBSET Consumers, receipts : Nat, gateFailed : BOOLEAN, done : BOOLEAN]

\* Every variable holds a value of its kind; in particular a call's own tensors
\* are preprocessed at most once.
TypeOK ==
  /\ request \in Requests \cup {None}
  /\ forward \in Requests \cup {None}
  /\ outer \in [Requests -> Requests \cup {None}]
  /\ saved \in [Requests -> Requests \cup {None}]
  /\ pc \in [Requests -> {"new", "over"} \cup External \cup InCall]
  /\ err \in [Requests -> BOOLEAN]
  /\ forwards \in [Requests -> Nat]
  /\ evaluations \in [Requests -> Nat]
  /\ kernel \in [Requests -> {"unloaded", "ready", "failed"}]
  /\ verified \in [Requests -> SUBSET Domains]
  /\ disabled \in [Requests -> SUBSET Leaves]
  /\ fwd \in [Requests -> Forwards]
  /\ blk \in [Requests -> BlockCalls]
  /\ call \in [Requests -> Calls]
----
(***************************************************************************)
(* Safety.                                                                 *)
(***************************************************************************)
\* Nested sampling and exceptions never leave a ContextVar pointing at the
\* wrong scope (the finally blocks of SamplingWrapper and DiffusionWrapper): a
\* forward is visible exactly while its own code or a sampling nested in it
\* runs, and a block call belongs to the forward of the current request.
ScopesNest ==
  /\ request = None => forward = None
  /\ forward # None => pc[forward] \in InForward
  /\ \A r \in Requests :
       /\ pc[r] \in InForward /\ request = r => forward = r
       /\ pc[r] \in {"block"} \cup InCall => Owner(r) = r
       /\ request = r => pc[r] \in {"sampling"} \cup InForward

\* Warmup is counted in actual evaluations (BlockPatch._call): while a forward
\* is open the counter has moved past the number the forward works under if
\* and only if one of its blocks has run, whatever was nested inside it.
EvaluationCharged ==
  \A r \in Requests :
    pc[r] \in InForward =>
      evaluations[r] = fwd[r].evaluation + (IF fwd[r].seen = {} THEN 0 ELSE 1)

\* The first dense_evaluations actual evaluations and the first dense_layers
\* blocks of every evaluation hold no sparse route, except that Flow's later
\* stage may consume the default one-evaluation warmup.
SparseOnlyPastWarmup ==
  \A r \in Requests : \A k \in DOMAIN fwd[r].routes :
    fwd[r].routes[k][2] \in SparseRoutes =>
      /\ fwd[r].routes[k][1] >= DenseLayers
      /\ evaluations[r] > DenseEvaluations \/ (DenseEvaluations = 1 /\ fwd[r].high)

\* A call that returned has exactly one receipt, and the receipt tells the
\* truth: a sparse route if and only if the sparse kernel ran, a dense route
\* only after an inherited, weighted or native computation.
ReceiptTruthful ==
  \A r \in Requests : call[r].done =>
    /\ call[r].receipts = 1
    /\ (call[r].label \in SparseRoutes) <=> (\E x \in call[r].ran : x.op = "sparse")
    /\ call[r].ran # {}

\* Whatever path a call takes - warmup, sparse with a dense prefix, a kernel
\* that cannot be loaded, a provider that is demoted half way - every consumer
\* of its tensors gets them with the inherited preprocessing chain applied
\* exactly once, and not at all when no chain was inherited.
PreprocessedOnce ==
  \A r \in Requests : call[r].kind = "override" =>
    \A x \in call[r].ran : x.pre = ChainDepth(Previous(r))

\* A call under the generic attention measure is never answered by code that
\* ignores the measure, on no fallback path and for no part of its queries.
WeightedKeepsMeasure ==
  \A r \in Requests : call[r].measure = "generic" =>
    \A x \in call[r].ran : x.op \in {"sparse", "weighted"}

\* Failed arithmetic calibration is fatal to the call: nothing answers it.
GateFailureIsFatal ==
  \A r \in Requests : call[r].gateFailed => ~call[r].done /\ call[r].ran = {}

\* A mixed-grid call whose legacy measure contract was validated attends over
\* the gathered K/V only (docs/RECTANGULAR.md: "Explicit preprocessing such as
\* Untwist is applied to the original full mixed domain first. Then only K/V
\* are gathered").
LegacyMeasureKept ==
  \A r \in Requests : call[r].measure = "legacy" =>
    \A x \in call[r].ran : x.reduced
----
(***************************************************************************)
(* What a step may never do.                                               *)
(***************************************************************************)
RequestState(r) ==
  <<evaluations[r], kernel[r], verified[r], disabled[r]>>

\* Code running under one sampling request never changes the state of another:
\* demotions, a failed kernel, qualifications and warmup stay request-local.
RequestIsolation ==
  [][\A r \in Requests : r # request => RequestState(r)' = RequestState(r)]_vars

\* What failed for a request is not tried again by it, in whatever forward or
\* call and on whatever path: a demoted provider computes nothing any more, and
\* after a kernel that did not load nothing is computed sparse.
FailuresStay ==
  [][\A r \in Requests :
       /\ pc'[r] # "over" =>
            /\ disabled[r] \subseteq disabled'[r]
            /\ kernel[r] = "failed" => kernel'[r] = "failed"
       /\ \A x \in call'[r].ran \ call[r].ran :
            x.leaf \notin disabled[r] /\ (kernel[r] = "failed" => x.op # "sparse")]_vars
=============================================================================
