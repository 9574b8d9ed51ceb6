------------------------------ MODULE MCSolHost -----------------------------
(***************************************************************************)
(* What the host does around the attention calls of a request, in one of   *)
(* three scenes that have no state in common: the blocks of two requests;  *)
(* the installation of Sol-H3 on a tree of models and their samplings; or  *)
(* the steps of a sampler whose forecaster asks Sol-H3 before and after    *)
(* each of them.                                                           *)
(***************************************************************************)
EXTENDS BlockExecution, SolInstall, SolHistory

CONSTANT flash   \* an inherited dense attention provider

VARIABLE scene

-----------------------------------------------------------------------------
Segments(n, mapped, end) ==
  <<[first |-> 0, last |-> n, indexed |-> FALSE], [first |-> n, last |-> n, indexed |-> TRUE],
    [first |-> n, last |-> end, indexed |-> mapped]>>

\* Nine rows in three chunks, the last one of a single row.
Long ==
  [rows |-> 9, prefix |-> 5, vdn |-> FALSE, warmup |-> FALSE, obstacles |-> {},
   stride |-> 1, segments |-> Segments(3, TRUE, 9)]

\* Sequences too short to be streamed: one the gate compares at once, and one
\* it does not; a kernel that is wrong for the second modulation's layout;
\* segments that leave rows out.
MCBlocks ==
  {Long,
   [Long EXCEPT !.warmup = TRUE, !.stride = 2],
   [Long EXCEPT !.obstacles = {"layout"}],
   [Long EXCEPT !.obstacles = {"hooks"}, !.prefix = 2],
   [Long EXCEPT !.obstacles = {"attention"}, !.segments = Segments(3, TRUE, 8)],
   [Long EXCEPT !.vdn = TRUE, !.obstacles = {"lora", "integration"}],
   [Long EXCEPT !.rows = 5, !.prefix = 1, !.segments = Segments(2, FALSE, 5)],
   [Long EXCEPT !.rows = 2, !.prefix = 1, !.segments = Segments(1, FALSE, 2)],
   [Long EXCEPT !.obstacles = {"platform"}, !.rows = 5]}

MCFaulty == {<<2, TRUE>>}

\* Forwards with and without the provider, in Flow's later stage, under a
\* partition and behind an opaque replacement, in any order.
Inherited == [provider |-> flash, high |-> FALSE, chain |-> "declared"]

MCSituations ==
  {Inherited,
   [Inherited EXCEPT !.high = TRUE],
   [Inherited EXCEPT !.provider = None],
   [Inherited EXCEPT !.chain = "partitioned"],
   [Inherited EXCEPT !.chain = "opaque"]}

\* What the Exact node asks for, one SOL policy with and without exact fusion,
\* and another SOL policy.
Exact == [exact |-> TRUE, backend |-> "inherit", policy |-> "default"]
SolA == [exact |-> TRUE, backend |-> "sol", policy |-> "a"]
MCConfigs == {Exact, SolA, [SolA EXCEPT !.exact = FALSE], [SolA EXCEPT !.policy = "b"]}

-----------------------------------------------------------------------------
hostVars == <<scene, executionVars, installVars, forecastVars>>

HostInit ==
  /\ scene \in {"block", "install", "history"}
  /\ Init /\ (scene = "block" \/ block = Long)
  /\ InstallInit /\ ForecastInit

\* A user need not go on with a model, nor a sampler with its steps; a block
\* must.
HostNext ==
  \/ scene = "block" /\ Next /\ UNCHANGED <<scene, installVars, forecastVars>>
  \/ scene = "install" /\ InstallNext /\ UNCHANGED <<scene, executionVars, forecastVars>>
  \/ scene = "history" /\ ForecastNext /\ UNCHANGED <<scene, executionVars, installVars>>
  \/ scene # "block" /\ UNCHANGED hostVars

HostSpec == HostInit /\ [][HostNext]_hostVars

\* Every variable of the three scenes holds a value of its kind.
TypesOK == TypeOK /\ InstallTypeOK /\ ForecastTypeOK
=============================================================================
