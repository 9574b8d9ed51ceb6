---------------------------- MODULE MCSolRuntime ----------------------------
(***************************************************************************)
(* A small instance of SolRuntime: a model of two blocks, the first kept   *)
(* dense by dense_layers, one warmup evaluation, one inherited provider.   *)
(* The first request makes every kind of call; the second, which may run   *)
(* nested in the first or after it, makes ordinary ones only.              *)
(***************************************************************************)
EXTENDS SolRuntime

CONSTANTS r1, r2, p

MCRequests == {r1, r2}
MCMaxForwards == [r \in MCRequests |-> IF r = r1 THEN 2 ELSE 1]
MCMaxReceipts == [r \in MCRequests |-> IF r = r1 THEN 2 ELSE 1]

Untwist == [chain |-> TRUE, leaf |-> p]
MCOptions ==
  [r \in MCRequests |->
     IF r = r2 THEN {[provider |-> Untwist, high |-> TRUE]}
     ELSE {[provider |-> Untwist, high |-> FALSE],
           [provider |-> NoProvider, high |-> FALSE],
           [provider |-> Untwist, high |-> TRUE]}]

Ordinary ==
  [kind |-> "override", reason |-> FALSE, measure |-> "none",
   external |-> FALSE, prefix |-> TRUE, domain |-> "d"]

MCInputs ==
  [r \in MCRequests |->
     IF r = r2 THEN {[Ordinary EXCEPT !.prefix = FALSE]}
     ELSE {Ordinary,
           [Ordinary EXCEPT !.reason = TRUE],
           [Ordinary EXCEPT !.external = TRUE, !.measure = "legacy"],
           [Ordinary EXCEPT !.measure = "generic"],
           [Ordinary EXCEPT !.measure = "both"],
           [Ordinary EXCEPT !.kind = "vdn"],
           [Ordinary EXCEPT !.kind = "vdn", !.reason = TRUE]}]
=============================================================================
