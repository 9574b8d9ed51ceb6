--------------------------- MODULE BlockExecution ---------------------------
(***************************************************************************)
(* original_block of BlockPatch: a native block of the model whose         *)
(* attention may be streamed and whose modulation may be fused, and the    *)
(* block calls of a request one after the other.                           *)
(***************************************************************************)
EXTENDS StreamedAttention, ExactAffine

VARIABLE native   \* Request.native_verified and native_reason

requestVars == <<kernel, verified, qualified, affine, native>>
executionVars == <<blockVars, streamVars, affineVars, native>>

\* What keeps a block's attention or projection native (ineligible_reason of
\* streamed.py): who owns them, what hooks into them, how they are computed.
Unstreamable(vdn) ==
  {"platform", "device", "attention", "owner", "hooks", "projection"} \union
  (IF vdn THEN {"producer"} ELSE {"integration", "layout", "lora", "source"})

Streams(b) ==
  b.rows > StreamFactor * ChunkSize /\ b.obstacles \intersect Unstreamable(b.vdn) = {}

\* ineligible_reason of exact.py.
Fusable(b) == b.obstacles \intersect {"platform", "device", "owner", "hooks"} = {}

Init ==
  /\ block \in Blocks /\ phase = "idle" /\ plan = [attention |-> "native", fused |-> FALSE]
  /\ calls = 0 /\ traceback = {}
  /\ AtRest
  /\ kernel = "none" /\ verified = {} /\ qualified = {}
  /\ hidden = <<>> /\ next = 1 /\ affine = {} /\ native = "unknown"

\* The native functions are compared with the audited ones, once a request.
VerifyNative(b) ==
  native' \in IF Fusable(b) /\ native = "unknown" THEN {"audited", "changed"} ELSE {native}

Begin(b) ==
  /\ phase = "idle" /\ calls < MaxBlocks
  /\ VerifyNative(b)
  /\ plan' = [attention |-> IF ~Streams(b) THEN "native" ELSE IF b.vdn THEN "vdn" ELSE "streamed",
              fused |-> Fusable(b) /\ native' = "audited"]
  /\ block' = b /\ calls' = calls + 1
  /\ phase' = IF plan'.fused THEN "affine1" ELSE "attention"
  /\ hidden' = [r \in 0 .. b.rows - 1 |-> <<>>] /\ next' = 1
  /\ UNCHANGED <<traceback, streamVars, affine>>

\* The modulated rows are given to the attention, or to the MLP.
Modulated ==
  /\ Modulates
  /\ Goto(IF phase = "affine1" THEN "attention" ELSE "returned")
  /\ UNCHANGED <<streamVars, affineVars, native>>

\* The block's attention is called.  A native one has projected all rows; VDN
\* and other owners of the attention call Sol in other ways, if at all.
Attention ==
  /\ phase = "attention"
  /\ \/ plan.attention = "streamed" /\ Goto("projectKV") /\ UNCHANGED carriers
     \/ plan.attention = "vdn" /\ Goto("projectVDN") /\ UNCHANGED carriers
     \/ /\ plan.attention = "native" /\ (block.vdn \/ "attention" \in block.obstacles)
        /\ Goto("out") /\ UNCHANGED carriers
     \/ /\ plan.attention = "native" /\ ~block.vdn /\ "attention" \notin block.obstacles
        /\ Goto("attend") /\ carriers' = [q |-> {}, k |-> Rows, v |-> Rows]
  /\ UNCHANGED <<views, cursor, stream, gate, result, output, kernelVars, affineVars, native>>

\* The output is projected and added to the block's rows.
Projected ==
  /\ phase = "out" /\ output' = <<>>
  /\ IF plan.fused
     THEN phase' = "affine2" /\ StartAffine
     ELSE phase' = "returned" /\ UNCHANGED <<hidden, next>>
  /\ UNCHANGED <<block, plan, traceback, calls, carriers, views, cursor, stream, gate, result,
                 kernelVars, affine, native>>

Returned ==
  /\ phase = "returned" /\ Goto("idle")
  /\ hidden' = <<>> /\ next' = 1
  /\ UNCHANGED <<streamVars, affine, native>>

\* The request is over, or an exception ends it, which is dropped with its
\* frames; another request begins in the same process.
NewRequest ==
  /\ phase \in {"idle", "failed"} /\ calls > 0
  /\ phase' = "idle" /\ calls' = 0 /\ UNCHANGED <<block, plan>>
  /\ traceback' = {}
  /\ carriers' = [f \in DOMAIN carriers |-> IF f \in traceback THEN {} ELSE carriers[f]]
  /\ Drop(traceback) /\ cursor' = 0
  /\ StartRequest
  /\ hidden' = <<>> /\ next' = 1 /\ affine' = {} /\ native' = "unknown"
  /\ UNCHANGED <<stream, gate, result, output>>

Next ==
  \/ \E b \in Blocks : Begin(b)
  \/ Affine /\ UNCHANGED <<streamVars, native>>
  \/ AffineFails /\ UNCHANGED <<streamVars, native>>
  \/ Streaming /\ UNCHANGED <<affineVars, native>>
  \/ Modulated \/ Attention \/ Projected \/ Returned \/ NewRequest

Spec == Init /\ [][Next]_executionVars

-----------------------------------------------------------------------------
Phases ==
  {"idle", "affine1", "attention", "projectKV", "copyKV", "projectVDN", "copyVDN", "vdn",
   "queries", "projectQ", "attend", "load", "prepare", "gate", "run", "copyOut", "release",
   "out", "affine2", "returned", "raised", "failed"}

\* Every variable keeps its type, and the sets grow only within a request.
TypeOK ==
  /\ block \in BlockCall /\ phase \in Phases /\ calls \in 0 .. MaxBlocks
  /\ plan \in [attention : {"native", "streamed", "vdn"}, fused : BOOLEAN]
  /\ \A f \in DOMAIN carriers : carriers[f] \subseteq Rows
  /\ views \in [Names -> Rows \union {None}] /\ cursor \in Rows
  /\ stream # None => stream.start \in Rows
  /\ traceback \subseteq Names \union DOMAIN carriers
  /\ DOMAIN result \subseteq Rows /\ DOMAIN output \subseteq Rows
  /\ kernel \in {"none", "ready", "failed"} /\ native \in {"unknown", "audited", "changed"}
  /\ verified \subseteq Nat \X Nat \X Nat /\ qualified \subseteq Nat \X Nat \X Nat

\* What attention without streaming computes in a row: densely, or sparsely
\* except in the prefix.
Unstreamed(sparse, r) ==
  LET full == [k |-> Rows, v |-> Rows]
  IN IF ~sparse \/ r < block.prefix THEN [dense |-> TRUE, kv |-> full]
     ELSE [dense |-> FALSE, kv |-> full, summaries |-> full,
           job |-> Job(Square, r \div BlockLen, 0),
           tile |-> {x \in Rows : x \div BlockLen = r \div BlockLen}]

\* The output of a streamed attention is, row for row, what one call for the
\* whole sequence computes: the same tile of queries with the same neighbours
\* and sink, all keys and values and their summaries, the prefix densely; and
\* VDN receives carriers in which every row is written (attention and
\* vdn_project_qkv of streamed.py).
StreamedAsWhole ==
  /\ phase = "out" /\ DOMAIN output # {} =>
       \E sparse \in BOOLEAN : output = [r \in Rows |-> Unstreamed(sparse, r)]
  /\ phase = "out" /\ plan.attention = "streamed" => DOMAIN output = Rows
  /\ phase = "vdn" => \A f \in DOMAIN carriers : carriers[f] = Rows

\* No row leaves a block with a result of the sparse kernel unless the gate
\* compared that very row in a call of the same size ("Qualify every query
\* origin once per request").
RowsQualified ==
  phase = "copyOut" =>
    \A r \in DOMAIN result :
      ~result[r].dense => <<Cardinality(DOMAIN result), block.rows, r>> \in qualified

\* A fused block's rows are modulated once and as PyTorch does it, whatever
\* layout the kernel cannot handle (affine of exact.py).
ModulatedExactly == Modulates => \A r \in Rows : hidden[r] = <<<<phase, r>>>>

\* No result of Sol's kernels is used in a block unless the kernel passed its
\* comparison with the native computation where it matters: sparse attention
\* for the row, the modulation for the layout.
KernelsQualified == RowsQualified /\ ModulatedExactly

\* "Only the current packed projection chunk survives", there is never a full
\* tensor of queries, and no stream or workspace outlives its invocation, except
\* for tensors that only the frames of an exception hold, until it is dropped
\* (attention and vdn_project_qkv of streamed.py).
WorkspaceBounded ==
  LET projecting == phase \in {"projectKV", "projectQ", "projectVDN"}
      alive == ({views[n] : n \in Names} \ {None}) \union IF projecting THEN {cursor} ELSE {}
  IN /\ Cardinality(alive) <= 1
     /\ plan.attention # "vdn" => carriers.q = {}
     /\ phase \in {"idle", "affine1", "attention", "affine2", "out", "returned"} =>
          carriers = NoCarriers /\ alive = {} /\ stream = None /\ result = <<>>
     /\ phase = "failed" =>
          /\ stream = None /\ result = <<>> /\ output = <<>>
          /\ \A f \in DOMAIN carriers : carriers[f] # {} => f \in traceback
          /\ \A n \in Names : views[n] # None => n \in traceback

\* "A retained exception traceback must not keep our workspace alive": K and V
\* are gone once a streamed attention has failed (attention of streamed.py).
TracebackKeepsNoWorkspace ==
  phase = "failed" /\ plan.attention = "streamed" => carriers = NoCarriers
=============================================================================
