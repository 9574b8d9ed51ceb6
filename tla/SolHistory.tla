----------------------------- MODULE SolHistory -----------------------------
(***************************************************************************)
(* What Sol-H3 tells a forecasting node about the evaluations of one       *)
(* sampling request: the numerical identity before a forward               *)
(* (HistoryPolicy.__call__), the receipts of its attention calls after it  *)
(* (accept_receipts, and the completion proofs of                          *)
(* sol_h3/partitioned_history.py and partitioned_request.py), and the      *)
(* state they are read from, which the forwards change.                    *)
(*                                                                         *)
(* The forecaster is not part of the repository.  It is modelled by what   *)
(* the policy asks of it: it keeps the last accepted evaluation as anchor  *)
(* with the identity found before it, and may skip a forward whose         *)
(* identity is the anchor's; an opaque identity is always an actual one.   *)
(* Whether it drops its anchor on other occasions is left open.            *)
(***************************************************************************)
EXTENDS PythonNone, Naturals, Sequences, FiniteSets

CONSTANTS
  NBlocks,           \* transformer blocks of the model
  DenseEvaluations,  \* Config.dense_evaluations
  DenseLayers,       \* Config.dense_layers
  Providers,         \* inherited dense attention providers
  Situations,        \* what the forwards of the request may find
  MaxSteps           \* bound: steps of the sampler

(***************************************************************************)
(* The inherited provider, whether the options announce Flow's later       *)
(* stage, and the replacements around the blocks: declared ones, Flow's    *)
(* partition, under which attention goes to partitioned_request_attention, *)
(* or an opaque one (or a generic attention measure, as opaque).           *)
(***************************************************************************)
AllSituations ==
  [provider : Providers \cup {None}, high : BOOLEAN,
   chain : {"declared", "partitioned", "opaque"}]

ASSUME HistoryAssumption ==
  /\ NBlocks \in Nat \ {0} /\ DenseEvaluations \in Nat /\ DenseLayers \in Nat
  /\ MaxSteps \in Nat
  /\ Situations \subseteq AllSituations
  /\ None \notin Providers
  /\ "original" \notin Providers

Layers == 0..(NBlocks - 1)

VARIABLES
  evaluations,  \* Request.evaluations
  loading,      \* Request.kernel
  disabled,     \* Request.disabled_dense_providers
  owned,        \* partitioned_receipt_evaluation, partitioned_validated_receipts
  fw,           \* the forward in progress
  anchor,       \* external: what the forecaster would forecast from
  steps,        \* bound: steps of the sampler
  skipped       \* history: of the last forecast, what its anchor and what it would have run

evaluationVars == <<evaluations, loading, disabled, owned>>
forecastVars == <<evaluationVars, fw, anchor, steps, skipped>>

NoForward ==
  [place |-> "idle", situation |-> None, identity |-> None, evaluation |-> 0,
   receipts |-> <<>>, ran |-> <<>>]
NoProof == [evaluation |-> None, proofs |-> {}]

ForecastInit ==
  /\ evaluations = 0
  /\ loading = "unloaded"
  /\ disabled = {}
  /\ owned = NoProof
  /\ fw = NoForward
  /\ anchor = None
  /\ steps = 0
  /\ skipped = None
----
(***************************************************************************)
(* HistoryPolicy.__call__.                                                 *)
(***************************************************************************)
\* dense_evaluation_warmup.
Warmup(evaluation, s) ==
  /\ evaluation < DenseEvaluations
  /\ ~(DenseEvaluations = 1 /\ s.high)

\* Mutant: the phase is the one the request began with.
FirstPhase(s) == IF Warmup(0, s) THEN "dense" ELSE "sol"
Phase(s) == IF Warmup(evaluations, s) THEN "dense" ELSE "sol"

\* Mutant: a provider is known by its name only.
ProviderName(s) == <<s.provider>>
ProviderIdentity(s) ==
  IF s.provider \in disabled THEN <<s.provider, "unavailable_fallback">> ELSE <<s.provider>>

HistoryIdentity(s) ==
  IF s.chain = "opaque" THEN None ELSE <<Phase(s), s.chain, ProviderIdentity(s)>>
----
(***************************************************************************)
(* How a block's attention is computed: by what, and for the dense part by *)
(* whom.                                                                   *)
(***************************************************************************)
Usable(s) == s.provider # None /\ s.provider \notin disabled
DenseBy(s) == IF Usable(s) THEN s.provider ELSE "original"

WarmBlock(s, evaluation, i) == Warmup(evaluation, s) \/ i < DenseLayers

PartitionedRoute(evaluation, s) ==
  IF Warmup(evaluation, s) THEN "partitioned_dense" ELSE "partitioned_sol"

\* What a forward would compute now if nothing failed that has not yet.
WouldRun(s) ==
  [k \in 1..NBlocks |->
     IF s.chain = "partitioned"
     THEN <<PartitionedRoute(evaluations, s), "torch">>
     ELSE <<IF WarmBlock(s, evaluations, k - 1) \/ loading = "failed" THEN "dense" ELSE "sparse",
            DenseBy(s)>>]
----
(***************************************************************************)
(* A step of the sampler: forecast or forward.                             *)
(***************************************************************************)
Preflight(s) ==
  /\ fw.place = "idle" /\ steps < MaxSteps
  /\ steps' = steps + 1
  /\ fw' = [NoForward EXCEPT !.place = "asked", !.situation = s, !.identity = HistoryIdentity(s)]
  /\ UNCHANGED <<evaluationVars, anchor, skipped>>

Forecast ==
  /\ fw.place = "asked"
  /\ fw.identity # None /\ anchor # None
  /\ anchor.identity = fw.identity
  /\ skipped' = [anchor |-> anchor.ran, skipped |-> WouldRun(fw.situation)]
  /\ fw' = NoForward
  /\ UNCHANGED <<evaluationVars, anchor, steps>>

\* DiffusionWrapper.__call__.
ForwardEnter ==
  /\ fw.place = "asked"
  /\ fw' = [fw EXCEPT !.place = "running", !.evaluation = evaluations]
  /\ UNCHANGED <<evaluationVars, anchor, steps, skipped>>
----
(***************************************************************************)
(* The blocks.  A block makes one attention call.                          *)
(***************************************************************************)
Block == Len(fw.ran)

\* An evaluation is charged by its first block.
FirstBlock == Block = 0

\* Block ends with this receipt, computed so.
Ran(route, how) ==
  /\ evaluations' = evaluations + (IF FirstBlock THEN 1 ELSE 0)
  /\ fw' = [fw EXCEPT !.receipts = Append(@, <<Block, route>>), !.ran = Append(@, how)]
  /\ UNCHANGED <<anchor, steps, skipped>>

\* The dense part is computed by the provider, by ComfyUI's own attention, or by
\* that because the provider turns out to be missing, which demotes it.
DenseOutcome(by) ==
  \/ by = DenseBy(fw.situation) /\ UNCHANGED disabled
  \/ /\ Usable(fw.situation)
     /\ by = "original"
     /\ disabled' = disabled \cup {fw.situation.provider}

Calls(partitioned) ==
  /\ fw.place = "running" /\ Block < NBlocks
  /\ (fw.situation.chain = "partitioned") = partitioned
Ordinary == Calls(FALSE)
Warm == WarmBlock(fw.situation, fw.evaluation, Block)

\* A check of the call's arguments gives a fallback reason.
Fallback(by) ==
  /\ Ordinary
  /\ Ran("fallback", <<"dense", by>>)
  /\ DenseOutcome(by)
  /\ UNCHANGED <<loading, owned>>

DenseWarmup(by) ==
  /\ Ordinary /\ Warm
  /\ Ran("dense_warmup", <<"dense", by>>)
  /\ DenseOutcome(by)
  /\ UNCHANGED <<loading, owned>>

\* The kernel runs, loaded now if need be; the provider computes the prefix.
Sparse(by) ==
  /\ Ordinary /\ ~Warm
  /\ loading # "failed"
  /\ loading' = "ready"
  /\ Ran("sol", <<"sparse", by>>)
  /\ DenseOutcome(by)
  /\ UNCHANGED owned

KernelUnavailable(by) ==
  /\ Ordinary /\ ~Warm
  /\ loading # "ready"
  /\ loading' = "failed"
  /\ Ran("kernel_unavailable", <<"dense", by>>)
  /\ DenseOutcome(by)
  /\ UNCHANGED owned

\* _record_completion: proofs belong to the evaluation they were made in.
\* Mutant: those of the last evaluation stay.
ProofsKept == owned.proofs
ProofsOfEvaluation == IF owned.evaluation = fw.evaluation THEN owned.proofs ELSE {}

PartitionedCall ==
  /\ Calls(TRUE)
  /\ LET route == PartitionedRoute(fw.evaluation, fw.situation) IN
     /\ Ran(route, <<route, "torch">>)
     /\ owned' = [evaluation |-> fw.evaluation, proofs |-> ProofsOfEvaluation \cup {<<Block, route>>}]
  /\ UNCHANGED <<loading, disabled>>

\* A block raises before or after it has charged the evaluation: the forward
\* ends, and the sampler may go on with another step.
ForwardRaises ==
  /\ fw.place = "running"
  /\ \/ UNCHANGED evaluations
     \/ /\ Block = 0
        /\ evaluations' = evaluations + 1
  /\ fw' = NoForward
  /\ UNCHANGED <<loading, disabled, owned, anchor, steps, skipped>>
----
(***************************************************************************)
(* accept_receipts.                                                        *)
(***************************************************************************)
Plain == {"sol", "dense_warmup"}
PartitionedRoutes == {"partitioned_dense", "partitioned_sol"}

\* _accept_partitioned_receipt: completed in the forward it is offered by.
AcceptPartitioned(item) == owned.evaluation = fw.evaluation /\ item \in owned.proofs

\* Mutant: any route the runtime writes is accepted.
AnyRoute(receipts) == receipts # <<>>
AcceptReceipts(receipts) ==
  /\ receipts # <<>>
  /\ \A k \in DOMAIN receipts :
       \/ receipts[k][2] \in Plain
       \/ receipts[k][2] \in PartitionedRoutes /\ AcceptPartitioned(receipts[k])

ForwardReturns ==
  /\ fw.place = "running" /\ Block = NBlocks
  /\ IF fw.identity # None /\ AcceptReceipts(fw.receipts)
     THEN anchor' = [identity |-> fw.identity, ran |-> fw.ran]
     ELSE anchor' \in {anchor, None}
  /\ fw' = NoForward
  /\ UNCHANGED <<evaluationVars, steps, skipped>>

ForecastNext ==
  \/ \E s \in Situations : Preflight(s)
  \/ Forecast \/ ForwardEnter \/ PartitionedCall \/ ForwardRaises \/ ForwardReturns
  \/ \E by \in Providers \cup {"original"} :
       Fallback(by) \/ DenseWarmup(by) \/ Sparse(by) \/ KernelUnavailable(by)

ForecastSpec == ForecastInit /\ [][ForecastNext]_forecastVars
----
Routes == Plain \cup PartitionedRoutes \cup {"fallback", "kernel_unavailable"}
Ways ==
  ({"dense", "sparse"} \X (Providers \cup {"original"})) \cup (PartitionedRoutes \X {"torch"})
Identities ==
  {None} \cup ({"dense", "sol"} \X {"declared", "partitioned"} \X
    ({<<p>> : p \in Providers \cup {None}} \cup
     {<<p, "unavailable_fallback">> : p \in Providers}))

Forwards ==
  [place : {"idle", "asked", "running"}, situation : Situations \cup {None},
   identity : Identities, evaluation : Nat, receipts : Seq(Layers \X Routes), ran : Seq(Ways)]

\* Every variable holds a value of its kind.
ForecastTypeOK ==
  /\ evaluations \in Nat /\ steps \in 0..MaxSteps
  /\ loading \in {"unloaded", "ready", "failed"}
  /\ disabled \subseteq Providers
  /\ owned.evaluation \in Nat \cup {None} /\ owned.proofs \subseteq Layers \X PartitionedRoutes
  /\ fw \in Forwards
  /\ fw.place # "idle" => fw.situation \in Situations
  /\ Len(fw.receipts) = Len(fw.ran)
  /\ anchor # None => anchor.identity \in Identities \ {None} /\ anchor.ran \in Seq(Ways)

\* A forward is skipped only if it would have computed every block the way the
\* anchor's forward did: no phase, demotion, kernel failure or fallback that the
\* identity and the receipts do not tell lies between them (README.md, "Spectrum
\* history and receipts").
ForecastSound == skipped # None => skipped.anchor = skipped.skipped

\* A completion proof authorizes only what its own evaluation has completed
\* (docs/PARTITIONED_HISTORY.md: "an earlier completion cannot authorize an
\* unexecuted attention call in the current forward").
ProofsScoped ==
  (fw.place = "running" /\ owned.evaluation = fw.evaluation) =>
    owned.proofs \subseteq {fw.receipts[k] : k \in DOMAIN fw.receipts}
=============================================================================
