---------------------------- MODULE TritonKernel ----------------------------
(***************************************************************************)
(* The Triton kernels (_forward_ptr, and _forward_tma on devices with TMA) *)
(* that run where no specialised kernel does.  Triton keeps the warps of a *)
(* program in step, so the program is one agent, the Producer, and it      *)
(* needs neither stages nor scratch; the two differ in how they load.      *)
(***************************************************************************)
EXTENDS SolTile

CONSTANT JobsTriton   \* the query tiles with their sinks

Init ==
  /\ job \in JobsTriton
  /\ pc = [w \in Warps |-> IF w = Producer THEN "load" ELSE "inStep"]
  /\ reg = [w \in Warps |-> [group |-> 0, exact |-> {}, score |-> None]]
  /\ K = EmptyPipe(Warps) /\ V = EmptyPipe(Warps)
  /\ produce = [p \in {"K", "V"} |-> 1]
  /\ consume = [w \in Warps |-> [p \in {"K", "V"} |-> 0]]
  /\ Q = "none"
  /\ scratch = <<>>
  /\ tensor = IdleTensor
  /\ Promise!Init
  /\ raced = FALSE

Group == reg[Producer].group

Load ==
  /\ Step(Producer, "load", "route")
  /\ Q' = "Q"
  /\ UNCHANGED <<job, reg, pipes, scratch, tensor, results, raced>>

\* The columns whose mean passes the threshold, and the forced ones, that are
\* valid.
Route ==
  /\ Group < NumGroups
  /\ Step(Producer, "route", "approximate")
  /\ \E high \in SUBSET Members(Group) :
       LET exact == Members(Group) \intersect (high \union Forced)
       IN /\ reg' = [reg EXCEPT ![Producer].exact = exact]
          /\ routes' = Append(routes, exact)
  /\ UNCHANGED <<job, pipes, memory, taken, stored, raced>>

\* Keys of a block: whole ones but for the last.
BlockLength(b) == IF b = NumBlocks - 1 THEN Tokens - b * BlockLen ELSE BlockLen

AddAll(part) == taken' = [w \in Warps |-> Append(taken[w], part)]

\* With every block exact the sum has no column and the rows do not change.
Approximate ==
  LET rest == Members(Group) \ reg[Producer].exact
      mass == FoldSet(LAMBDA b, sum : BlockLength(b) + sum, 0, rest)
  IN /\ Step(Producer, "approximate", "exact")
     /\ IF rest = {} THEN UNCHANGED taken
        ELSE AddAll(Promise!Part(Promise!KMeans(Group), Promise!VMeans(Group), rest, mass))
     /\ UNCHANGED <<job, reg, pipes, memory, routes, stored, raced>>

\* The least offset left; the keys beyond the last token are masked.
Exact ==
  LET left == reg[Producer].exact
      b == Min(left)
  IN /\ left # {} /\ Step(Producer, "exact", "exact")
     /\ AddAll(Promise!Part(Promise!KBlocks({b}), Promise!VBlocks({b}), {b},
                            Cardinality({t \in 0 .. BlockLen - 1 : b * BlockLen + t < Tokens})))
     /\ reg' = [reg EXCEPT ![Producer].exact = left \ {b}]
     /\ UNCHANGED <<job, pipes, memory, routes, stored, raced>>

NextGroup ==
  /\ reg[Producer].exact = {} /\ Step(Producer, "exact", "route")
  /\ reg' = [reg EXCEPT ![Producer].group = @ + 1]
  /\ UNCHANGED <<job, pipes, memory, results, raced>>

Store ==
  /\ Group = NumGroups
  /\ Step(Producer, "route", "done")
  /\ Q' = "O" /\ stored' = TRUE
  /\ UNCHANGED <<job, reg, pipes, scratch, tensor, routes, taken, raced>>

Consumes == Load \/ Route \/ Approximate \/ Exact \/ NextGroup \/ Store

Next == Consumes
=============================================================================
