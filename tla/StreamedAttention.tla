-------------------------- MODULE StreamedAttention --------------------------
(***************************************************************************)
(* The attention of a block: computed at once under the override, or       *)
(* streamed (streamed.py), when K and V are projected chunk by chunk into  *)
(* carriers, and every chunk of queries is projected again and attends to  *)
(* all of them.  Sparse attention loads its kernel, prepares K and V, and  *)
(* compares the kernel with dense attention before it runs (sparse.py).    *)
(***************************************************************************)
EXTENDS BlockState

CONSTANTS
  GateRows,     \* GATE_QUERY_CHUNK_SIZE
  MetricRows    \* the rows of METRIC_CHUNK_ELEMENTS elements

\* No stream is none.
ASSUME StreamAssumption ==
  /\ {GateRows, MetricRows} \subseteq Nat \ {0}
  /\ None \notin [start : Nat, prepared : {None} \union [k : SUBSET Nat, v : SUBSET Nat]]

VARIABLES
  carriers,    \* the rows written in the tensors for Q (VDN), K and V
  views,       \* the projected chunk each local name keeps alive
  cursor,      \* the first row of the chunk
  stream,      \* _STREAM: the origin of the queries and the prepared K/V
  gate,        \* a gate in progress: its next row and its statistics
  result,      \* what the chunk's attention computed in every row
  output,      \* what the rows of the block's attention are made of
  kernel,      \* Request.kernel and kernel_failure
  verified,    \* Request.sparse_verified
  qualified    \* history: <<queries, keys, row>> compared by a gate that passed

kernelVars == <<kernel, verified, qualified>>
streamVars == <<carriers, views, cursor, stream, gate, result, output, kernelVars>>

Names == {"q", "qc", "kc", "vc", "packed"}
NoViews == [n \in Names |-> None]
NoCarriers == [q |-> {}, k |-> {}, v |-> {}]

\* The names drop what they hold; a projected chunk lives as long as a view.
Keep(names) == views' = views
Drop(names) == views' = [n \in Names |-> IF n \in names THEN None ELSE views[n]]
Bind(names) == views' = [n \in Names |-> IF n \in names THEN cursor ELSE views[n]]

AtRest ==
  /\ carriers = NoCarriers /\ views = NoViews /\ cursor = 0
  /\ stream = None /\ gate = None /\ result = <<>> /\ output = <<>>

StartRequest == kernel' = "none" /\ verified' = {} /\ qualified' = {}

-----------------------------------------------------------------------------
\* A chunk of a projection is copied to the carriers before the next one.
Project(from, names, to) ==
  /\ phase = from /\ Goto(to)
  /\ Bind(names)
  /\ UNCHANGED <<carriers, cursor, stream, gate, result, output, kernelVars>>

Copy(from, fields, names, again, done) ==
  /\ phase = from
  /\ carriers' = [f \in DOMAIN carriers |->
                   IF f \in fields THEN carriers[f] \union Chunk(cursor) ELSE carriers[f]]
  /\ Drop(names)
  /\ IF cursor + ChunkSize < block.rows
     THEN cursor' = cursor + ChunkSize /\ Goto(again)
     ELSE cursor' = 0 /\ Goto(done)
  /\ UNCHANGED <<stream, gate, result, output, kernelVars>>

\* The names a projection binds its chunk to.
ChunkNames == [projectKV |-> {"qc", "kc", "vc"}, projectVDN |-> {"packed"}, projectQ |-> {"q"}]

ProjectKV == Project("projectKV", ChunkNames.projectKV, "copyKV")
CopyKV == Copy("copyKV", {"k", "v"}, {"qc", "kc", "vc"}, "projectKV", "queries")

\* VDN goes on with the carriers itself.
ProjectVDN == Project("projectVDN", ChunkNames.projectVDN, "copyVDN")
CopyVDN == Copy("copyVDN", {"q", "k", "v"}, {"packed"}, "projectVDN", "vdn")

StartQueries ==
  /\ phase = "queries" /\ Goto("projectQ")
  /\ stream' = [start |-> 0, prepared |-> None]
  /\ UNCHANGED <<carriers, views, cursor, gate, result, output, kernelVars>>

ProjectQ ==
  /\ phase = "projectQ" /\ Goto("attend")
  /\ Bind(ChunkNames.projectQ)
  /\ stream' = [stream EXCEPT !.start = cursor]
  /\ UNCHANGED <<carriers, cursor, gate, result, output, kernelVars>>

-----------------------------------------------------------------------------
\* The gate's statistics (ErrorAccumulator): an output is added in parts, the
\* sets of rows they cover, some of them reduced by one Triton launch and the
\* others tile by tile by PyTorch, and the means are over all their elements.
NoMetrics == [elements |-> 0, tiles |-> <<>>, fused |-> <<>>]

\* Tiles of at most MetricRows of the rows, which are consecutive, sliced before
\* they are converted.
MetricTiles(rows) ==
  LET first == CHOOSE r \in rows : \A x \in rows : r <= x
  IN [i \in 1 .. (Cardinality(rows) + MetricRows - 1) \div MetricRows |->
        {r \in rows : (r - first) \div MetricRows = i - 1}]

\* Triton's reduction takes large outputs only, and not if it cannot compile.
Fusible(rows) == Cardinality(rows) > MetricRows

AddFused(m, rows) ==
  [m EXCEPT !.elements = @ + Cardinality(rows), !.fused = Append(@, rows)]

AddTiles(m, rows) ==
  [m EXCEPT !.elements = @ + Cardinality(rows), !.tiles = @ \o MetricTiles(rows)]

\* One of the two, for every output.
Added(m, rows) == {AddTiles(m, rows)} \union (IF Fusible(rows) THEN {AddFused(m, rows)} ELSE {})

\* The statistics join both kinds of parts.
Parts(m) == m.tiles \o m.fused

\* The rows every statistic is about, if each of them counts once.
Measured(m) ==
  LET rows == UNION {Parts(m)[i] : i \in DOMAIN Parts(m)}
      once(r) == Cardinality({i \in DOMAIN Parts(m) : r \in Parts(m)[i]}) = 1
  IN IF m.elements = Cardinality(rows) /\ \A r \in rows : once(r) THEN rows ELSE {}

-----------------------------------------------------------------------------
\* The queries of the call, and the call of the kernel.
QueryRows == IF stream = None THEN Rows ELSE Chunk(cursor)
Origin == IF stream = None THEN 0 ELSE stream.start

Square ==
  [device |-> <<12, 0>>, cute |-> TRUE, queries |-> block.rows, keys |-> block.rows,
   threshold |-> "diag", sinkStart |-> 0, sinkTokens |-> block.prefix, splits |-> 1,
   bucket |-> None, origin |-> 0, prepared |-> FALSE, bias |-> FALSE, intervals |-> None]

CallFromStart == [Square EXCEPT !.queries = Cardinality(QueryRows), !.prepared = stream # None]
Call ==
  [Square EXCEPT !.queries = Cardinality(QueryRows), !.origin = Origin, !.prepared = stream # None]

KV == [k |-> carriers.k, v |-> carriers.v]

DenseRow == [dense |-> TRUE, kv |-> KV]

\* A row is in a tile of the call's queries, which are routed together.
SparseRow(c, rows, summaries, r) ==
  LET first == CHOOSE x \in rows : \A y \in rows : x <= y
      tile == (r - first) \div BlockLen
  IN [dense |-> FALSE, kv |-> KV, summaries |-> summaries, job |-> Job(c, tile, 0),
      tile |-> {x \in rows : (x - first) \div BlockLen = tile}]

Computed(rows) ==
  /\ result' = rows
  /\ Goto("copyOut")

\* The attention override: dense in the warmup and if the spans do not fit;
\* a stream's K and V are checked.
Attend ==
  /\ phase = "attend"
  /\ stream # None => plan.attention = "streamed"
  /\ IF block.warmup \/ ~Representable(block)
     THEN Computed([r \in QueryRows |-> DenseRow])
     ELSE Goto("load") /\ UNCHANGED result
  /\ UNCHANGED <<carriers, views, cursor, stream, gate, output, kernelVars>>

\* The kernel is loaded once in a request; a failure is remembered.
LoadKernel ==
  /\ phase = "load"
  /\ kernel' \in IF kernel # "none" THEN {kernel}
                 ELSE IF "platform" \in block.obstacles THEN {"failed"} ELSE {"ready", "failed"}
  /\ IF kernel' = "ready"
     THEN Goto("prepare") /\ UNCHANGED result
     ELSE Computed([r \in QueryRows |-> DenseRow])
  /\ UNCHANGED <<carriers, views, cursor, stream, gate, output, verified, qualified>>

\* The layout of the tensors, and where the queries come from.
LayoutKey == <<Cardinality(QueryRows), block.rows, 0>>
GateKey == <<Cardinality(QueryRows), block.rows, Origin>>

PrepareKV ==
  /\ phase = "prepare"
  /\ stream' = IF stream # None /\ stream.prepared = None THEN [stream EXCEPT !.prepared = KV]
               ELSE stream
  /\ IF GateKey \in verified
     THEN Goto("run") /\ UNCHANGED gate
     ELSE Goto("gate") /\ gate' = [next |-> 0, metrics |-> NoMetrics]
  /\ UNCHANGED <<carriers, views, cursor, result, output, kernelVars>>

\* All queries are compared, with every block selected, GateRows at a time.
Qualify ==
  LET rows == {r \in QueryRows : r - Origin \in gate.next .. gate.next + GateRows - 1} IN
  /\ phase = "gate" /\ rows # {} /\ Goto("gate")
  /\ \E metrics \in Added(gate.metrics, rows) :
       gate' = [next |-> gate.next + GateRows, metrics |-> metrics]
  /\ UNCHANGED <<carriers, views, cursor, stream, result, output, kernelVars>>

\* The gate passes; if it fails, the block fails.
Judge ==
  /\ phase = "gate" /\ gate.next >= Cardinality(QueryRows)
  /\ verified' = verified \union {GateKey}
  /\ qualified' = qualified \union
       {<<Cardinality(QueryRows), block.rows, r>> : r \in Measured(gate.metrics)}
  /\ gate' = None
  /\ Goto("run")
  /\ UNCHANGED <<carriers, views, cursor, stream, result, output, kernel>>

\* The kernel runs, and the rows of the prefix are computed again densely.
PrefixRows ==
  Origin .. Origin + Least(Cardinality(QueryRows),
                           IF block.prefix > Origin THEN block.prefix - Origin ELSE 0) - 1

RunSparse ==
  /\ phase = "run"
  /\ Computed([r \in QueryRows |->
       IF r \in PrefixRows THEN DenseRow
       ELSE SparseRow(Call, QueryRows, IF stream = None THEN KV ELSE stream.prepared, r)])
  /\ UNCHANGED <<carriers, views, cursor, stream, gate, output, kernelVars>>

\* The result is copied to its rows of the output.
CopyOut ==
  /\ phase = "copyOut"
  /\ output' = [r \in DOMAIN output \union DOMAIN result |->
                 IF r \in DOMAIN result THEN result[r] ELSE output[r]]
  /\ result' = <<>>
  /\ Drop({"q"})
  /\ IF stream # None /\ cursor + ChunkSize < block.rows
     THEN cursor' = cursor + ChunkSize /\ Goto("projectQ")
     ELSE cursor' = 0 /\ Goto("release")
  /\ UNCHANGED <<carriers, stream, gate, kernelVars>>

-----------------------------------------------------------------------------
\* However it ends, the invocation gives up what its own names and its stream
\* hold; what the frames of an exception hold stays.
Released ==
  /\ carriers' = [f \in DOMAIN carriers |-> IF f \in traceback THEN carriers[f] ELSE {}]
  /\ views' = [n \in Names |-> IF n \in traceback THEN views[n] ELSE None]
  /\ stream' = None /\ gate' = None /\ result' = <<>>

Release ==
  /\ phase \in {"release", "vdn"} /\ Goto("out")
  /\ Released
  /\ UNCHANGED <<cursor, output, kernelVars>>

\* An allocation, a projection, a kernel or a provider raises, or a gate fails.
Fallible ==
  {"projectKV", "copyKV", "projectVDN", "copyVDN", "vdn", "queries", "projectQ", "attend",
   "prepare", "gate", "run", "copyOut"}

\* What the frames below the invocation hold of it.  The attention's have its
\* queries, K and V for arguments; VDN's carriers are the names of frames that
\* never give them up; and a projection may have made its chunk.
Frames(projected) ==
  (IF phase \in {"attend", "prepare", "gate", "run", "projectVDN", "copyVDN", "vdn"}
   THEN {"q", "k", "v"} ELSE {}) \union
  (IF phase \in DOMAIN ChunkNames /\ projected THEN ChunkNames[phase] ELSE {})

Raise(projected) ==
  /\ phase \in Fallible /\ phase' = "raised"
  /\ traceback' = Frames(projected)
  /\ IF phase \in DOMAIN ChunkNames /\ projected THEN Bind(ChunkNames[phase]) ELSE UNCHANGED views
  /\ UNCHANGED <<block, plan, calls, carriers, cursor, stream, gate, result, output, kernelVars>>

\* The clauses "finally": the output goes as well, since it is not complete.
Unwind ==
  /\ phase = "raised" /\ Goto("failed")
  /\ Released
  /\ output' = <<>>
  /\ UNCHANGED <<cursor, kernelVars>>

Streaming ==
  \/ ProjectKV \/ CopyKV \/ ProjectVDN \/ CopyVDN \/ StartQueries \/ ProjectQ
  \/ Attend \/ LoadKernel \/ PrepareKV \/ Qualify \/ Judge \/ RunSparse
  \/ CopyOut \/ Release \/ Unwind
  \/ \E projected \in BOOLEAN : Raise(projected)
=============================================================================
