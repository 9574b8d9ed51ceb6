---------------------------- MODULE MCSolInstall ----------------------------
(***************************************************************************)
(* Four configurations: what the Exact node asks for, one SOL policy with  *)
(* and without exact fusion, and another SOL policy.                       *)
(***************************************************************************)
EXTENDS SolInstall

Exact == [exact |-> TRUE, backend |-> "inherit", policy |-> "default"]
SolA == [exact |-> TRUE, backend |-> "sol", policy |-> "a"]
SolAWithoutExact == [exact |-> FALSE, backend |-> "sol", policy |-> "a"]
SolB == [exact |-> TRUE, backend |-> "sol", policy |-> "b"]

MCConfigs == {Exact, SolA, SolAWithoutExact, SolB}
=============================================================================
