------------------------ MODULE PartitionedRequest -------------------------
(***************************************************************************)
(* The attention calls that VDN and Flow make within one sampling request: *)
(* partitioned_request_attention (api "flow"), the provider-v4 callback    *)
(* for mapped local calls (api "vdn"), and the grouped K/V producer around *)
(* them.  A call takes its key measure and its block intervals from caches *)
(* of device tensors that outlive it, checks its kernel against dense      *)
(* attention once per identity, and publishes a receipt.  The host runs    *)
(* ahead of the device streams; it waits for one only to read a check.     *)
(***************************************************************************)
EXTENDS MappedNeighbors, CudaStreams

CONSTANTS
  Calls,              \* the calls the model makes (see PartitionedCall)
  Pairs,              \* VDN's scratch pairs for grouped K/V
  DenseEvaluations,   \* Config.dense_evaluations
  MaxBias,            \* MAX_BIAS_CACHE_ENTRIES and _BYTES
  MaxMapped,          \* MAX_CACHE_ENTRIES and MAX_DEVICE_CACHE_BYTES
  MaxPlans,           \* MAX_CPU_PLAN_CACHE_ENTRIES
  MaxWeighted,        \* MAX_WEIGHTED_DENSE_GATE_ENTRIES
  MaxEvaluations, MaxDepth,   \* bounds of the model, and
  Lengths             \* how many <<calls, groups>> a request may have

\* A call's arguments, as its entry checks them; digest is Flow's semantic
\* digest of a contract that has one measure for the prefix.
Arguments ==
  [kv : Nat, q : Nat, sink : Nat, wire : {None} \union Wires, forced : BOOLEAN,
   prefix : {None} \union (Nat \X Nat), measure : Int, local : BOOLEAN,
   api : {"flow", "vdn"}, digest : STRING]

ASSUME CallsAssumption ==
  /\ Calls \subseteq Arguments
  /\ \A c \in Calls :
       IF c.prefix = None THEN c.measure = 0 ELSE c.prefix[1] < c.prefix[2]

ASSUME DigestAssumption ==
  \A c, d \in Calls : <<c.digest, c.prefix>> = <<d.digest, d.prefix>> => c.measure = d.measure

ASSUME LimitsAssumption ==
  /\ {MaxBias, MaxMapped} \subseteq [entries : Nat, bytes : Nat]
  /\ {MaxPlans, DenseEvaluations, MaxDepth} \subseteq Nat
  /\ {MaxWeighted, MaxEvaluations} \subseteq Nat \ {0}

\* A call in progress, with its stream and K/V, and a group in progress.
CallOn(c, s, kv) ==
  [x \in DOMAIN c \union {"stream", "pair"} |->
     IF x = "stream" THEN s ELSE IF x = "pair" THEN kv ELSE c[x]]
Scopes ==
  [pair : Pairs, group : Nat, version : Nat, stream : Streams, fused : BOOLEAN, overtaken : BOOLEAN]

ASSUME NoneAssumption ==
  /\ None \notin Pairs \union Scopes
  /\ \A c \in Calls, s \in Streams, kv \in Pairs \union {None} : CallOn(c, s, kv) # None

VARIABLES
  inference,    \* sampling runs in inference mode: tensors carry no versions
  evaluation,   \* evaluations finished, the index of the current forward
  pc,           \* where the host is in a call
  call,         \* the call, with its stream and the K/V pair it is given
  held,         \* the cached tensors the call references
  bias, mapped, \* the two caches of device tensors, oldest entry first
  plans,        \* the cache of validated maps, oldest first
  events,       \* events recorded so far
  verified,     \* identities whose arithmetic check passed, per route
  scopes,       \* the grouped K/V invocations in progress, outermost first
  scratch,      \* per pair, the group its rows come from and their tensors' version
  compared,     \* history: what was compared with dense attention
  published,    \* history: the receipts
  consumed,     \* history: the groups of the last launch's rows and summaries, and
                \* whether a group further in had taken the pair of the summaries
  made          \* history: how many calls were made and groups produced

caches == <<bias, mapped, plans, events>>
grouping == <<scopes, scratch, consumed>>
history == <<compared, published, made>>
vars == <<inference, evaluation, pc, call, held, caches, verified, grouping, history, device>>

-----------------------------------------------------------------------------
\* The routes of a call.
Warmup == evaluation < DenseEvaluations
DenseExecution == call.api = "flow" /\ (call.forced \/ Warmup)
Weighted == call.api = "flow" /\ call.measure # 0

\* The measure of a call, which its bias tensor holds.
KeyMeasure(c) == <<"measure", c.kv, c.prefix, c.measure>>
BiasKey(c) == <<c.digest, KeyMeasure(c)>>

\* A dense call may weigh the sink, from its start; a sparse one may not.
SinkMeasure(c) == DenseExecution /\ c.prefix[1] = 0 /\ c.prefix[2] > c.sink
PrefixAccepted(c) ==
  c.prefix # None =>
    /\ c.prefix[1] >= c.sink \/ SinkMeasure(c)
    /\ DenseExecution \/ c.prefix[1] = c.sink
ExactEnd(c) == IF c.prefix = None THEN c.sink ELSE Max({c.sink, c.prefix[2]})

-----------------------------------------------------------------------------
\* A bounded LRU cache of tensors with their creation events.
At(entries, key) == {i \in DOMAIN entries : entries[i].key = key}
Without(s, places) == IF places = {} THEN s ELSE RemoveAt(s, CHOOSE i \in places : TRUE)

EmptyCache == [entries |-> <<>>, bytes |-> 0]
Hit(c, key) == At(c.entries, key) # {}
EntryOf(c, key) == c.entries[CHOOSE i \in At(c.entries, key) : TRUE]
Touched(c, key) == [c EXCEPT !.entries = Append(Without(@, At(@, key)), EntryOf(c, key))]
Sizes(entries) ==
  LET total[n \in 0 .. Len(entries)] == IF n = 0 THEN 0 ELSE total[n - 1] + entries[n].size
  IN total[Len(entries)]
BlocksOf(c) == {c.entries[i].block : i \in DOMAIN c.entries}

Stored(c, e) == [entries |-> Append(c.entries, e), bytes |-> c.bytes + e.size]

\* A trim that forgets to give back the bytes of what it evicts.
TrimmedEntries(c, limit) ==
  LET without(n) == [entries |-> SubSeq(c.entries, n + 1, Len(c.entries)), bytes |-> c.bytes]
      fits(n) == Len(c.entries) - n <= limit.entries
  IN without(Min({n \in 0 .. Len(c.entries) : fits(n)}))

Trimmed(c, limit) ==
  LET without(n) ==
        [entries |-> SubSeq(c.entries, n + 1, Len(c.entries)),
         bytes |-> c.bytes - Sizes(SubSeq(c.entries, 1, n))]
      fits(n) == Len(without(n).entries) <= limit.entries /\ without(n).bytes <= limit.bytes
  IN without(Min({n \in 0 .. Len(c.entries) : fits(n)}))

\* A hit makes the call's stream wait for the tensor's creation and tells the
\* allocator that this stream uses it.
TakeNoWait(e) ==
  /\ block' = [block EXCEPT ![e.block] = Recorded(@, call.stream)]
  /\ UNCHANGED <<queue, mem, fired>>

Take(e) ==
  /\ queue' = [queue EXCEPT ![call.stream] = Append(@, WaitEvent(e.event))]
  /\ block' = [block EXCEPT ![e.block] = Recorded(@, call.stream)]
  /\ UNCHANGED <<mem, fired>>

\* A miss creates the tensor on the call's stream; evicted tensors lose their
\* last reference.
CanCreate == \E b \in Blocks : Available(b, call.stream)
NewBlock == Allocation(call.stream)

Create(content, evicted) ==
  /\ events' = events + 1
  /\ queue' = [s \in Streams |->
       (IF s = call.stream THEN Append(queue[s], Write(NewBlock, content, events + 1)) ELSE queue[s])
       \o Aftermath(evicted, s)]
  /\ block' = [x \in Blocks |->
       IF x = NewBlock THEN Allocated(x, call.stream)
       ELSE IF x \in evicted THEN Dropped(block[x]) ELSE block[x]]
  /\ UNCHANGED <<mem, fired>>

-----------------------------------------------------------------------------
NoTensor == [bias |-> Nothing, mapped |-> Nothing]
HeldBlocks == {held.bias, held.mapped} \ {Nothing}

Init ==
  /\ inference \in BOOLEAN
  /\ evaluation = 0
  /\ pc = "idle" /\ call = None /\ held = NoTensor
  /\ bias = EmptyCache /\ mapped = EmptyCache /\ plans = <<>> /\ events = 0
  /\ verified = [flow |-> {}, weighted |-> <<>>, vdn |-> {}]
  /\ scopes = <<>> /\ scratch = [p \in Pairs |-> [rows |-> 0, version |-> 0]]
  /\ consumed = [rows |-> 0, summary |-> 0, overtaken |-> FALSE]
  /\ compared = {} /\ published = None
  /\ made = [calls |-> 0, groups |-> 0]
  /\ DeviceInit

Bounded(calls, groups) == \E l \in Lengths : calls <= l[1] /\ groups <= l[2]

\* The caller's stream and its K/V: rows of its own or those of a scratch pair.
Call(c, s, kv) ==
  /\ pc = "idle" /\ Bounded(made.calls + 1, made.groups)
  /\ kv # None => c.local /\ \E i \in DOMAIN scopes : scopes[i].pair = kv
  /\ call' = CallOn(c, s, kv)
  /\ pc' = IF c.api = "flow" THEN "bias" ELSE "map"
  /\ made' = [made EXCEPT !.calls = @ + 1]
  /\ UNCHANGED <<inference, evaluation, held, caches, verified, grouping, compared, published, device>>

\* The end of a call, with a result or an error: its references go.
Leave ==
  /\ pc = "leave"
  /\ pc' = "idle" /\ call' = None /\ held' = NoTensor
  /\ Drop(HeldBlocks \ (BlocksOf(bias) \union BlocksOf(mapped)))
  /\ UNCHANGED <<inference, evaluation, caches, verified, grouping, history>>

-----------------------------------------------------------------------------
\* The key measure: it is made or found before the prefix is checked against
\* the sink.
AfterBias == IF PrefixAccepted(call) THEN "map" ELSE "leave"

UnitMeasure ==
  /\ pc = "bias" /\ ~Weighted
  /\ pc' = AfterBias
  /\ UNCHANGED <<inference, evaluation, call, held, caches, verified, grouping, history, device>>

MeasureHit ==
  /\ pc = "bias" /\ Weighted /\ Hit(bias, BiasKey(call))
  /\ LET e == EntryOf(bias, BiasKey(call))
     IN Take(e) /\ held' = [held EXCEPT !.bias = e.block]
  /\ bias' = Touched(bias, BiasKey(call))
  /\ pc' = AfterBias
  /\ UNCHANGED <<inference, evaluation, call, mapped, plans, events, verified, grouping, history>>

MeasureMiss ==
  LET e == [key |-> BiasKey(call), block |-> NewBlock, event |-> events + 1, size |-> call.kv]
      after == Trimmed(Stored(bias, e), MaxBias)
  IN /\ pc = "bias" /\ Weighted /\ ~Hit(bias, BiasKey(call)) /\ CanCreate
     /\ Create(KeyMeasure(call), BlocksOf(bias) \ BlocksOf(after))
     /\ bias' = after
     /\ held' = [held EXCEPT !.bias = NewBlock]
     /\ pc' = AfterBias
     /\ UNCHANGED <<inference, evaluation, call, mapped, plans, verified, grouping, history>>

-----------------------------------------------------------------------------
\* The query map: validated and compiled through the cache of plans, which
\* also keeps maps that were validated but refused by the compiler.
PlanKey == <<call.wire, call.q, call.kv, call.sink>>
Planned == {i \in DOMAIN plans : plans[i].key = PlanKey /\ plans[i].descriptor # Unavailable}
Usable == Planned # {} \/ ValidWire(call.wire, call.q, call.kv, call.sink)
Descriptor ==
  CASE call.wire = None -> None
    [] call.wire # None /\ Planned # {} -> plans[CHOOSE i \in Planned : TRUE].descriptor
    [] call.wire # None /\ Planned = {} /\ Usable -> CompileDescriptor(call.wire)
    [] OTHER -> Unavailable

RememberPlan ==
  plans' =
    IF call.wire # None /\ Usable
    THEN LET all == Append(Without(plans, At(plans, PlanKey)),
                           [key |-> PlanKey, descriptor |-> Descriptor])
         IN IF Len(all) > MaxPlans THEN Tail(all) ELSE all
    ELSE plans

\* The content of the tensor of intervals: what they select, tile by tile.
Selected(d) == <<"blocks", [t \in DOMAIN d |-> d[t].start .. d[t].end - 1]>>
MapKey == <<call.wire, call.q, call.kv, call.sink>>

Materialize == Descriptor \notin {None, Unavailable} /\ ~DenseExecution
               /\ (call.api = "vdn" => ~Warmup)
Route == IF DenseExecution THEN "dense" ELSE "sparse"
DescriptorSize == 2 * Cardinality(QTiles(call.wire))

\* Without a usable map flow's call raises, vdn's is answered natively, as it
\* is during warmup, for a map the current plan does not own (owned), and,
\* by the legacy route, for rows that are aligned.
MapRefused(owned) ==
  /\ pc = "map"
  /\ \/ Descriptor = Unavailable
     \/ call.api = "vdn" /\ (Descriptor = None \/ ~owned \/ Warmup)
     \/ Materialize /\ ~Hit(mapped, MapKey) /\ DescriptorSize > MaxMapped.bytes
  /\ RememberPlan
  /\ pc' = "leave"
  /\ UNCHANGED <<inference, evaluation, call, held, bias, mapped, events, verified, grouping, history, device>>

MapUnneeded ==
  /\ pc = "map" /\ call.api = "flow"
  /\ Descriptor # Unavailable /\ ~Materialize
  /\ RememberPlan
  /\ pc' = Route
  /\ UNCHANGED <<inference, evaluation, call, held, bias, mapped, events, verified, grouping, history, device>>

MapHit ==
  /\ pc = "map" /\ Materialize /\ Hit(mapped, MapKey)
  /\ LET e == EntryOf(mapped, MapKey)
     IN Take(e) /\ held' = [held EXCEPT !.mapped = e.block]
  /\ mapped' = Touched(mapped, MapKey)
  /\ RememberPlan
  /\ pc' = Route
  /\ UNCHANGED <<inference, evaluation, call, bias, events, verified, grouping, history>>

MapMiss ==
  LET e == [key |-> MapKey, block |-> NewBlock, event |-> events + 1, size |-> DescriptorSize]
      after == Trimmed(Stored(mapped, e), MaxMapped)
  IN /\ pc = "map" /\ Materialize /\ ~Hit(mapped, MapKey)
     /\ DescriptorSize <= MaxMapped.bytes /\ CanCreate
     /\ Create(Selected(Descriptor), BlocksOf(mapped) \ BlocksOf(after))
     /\ mapped' = after
     /\ held' = [held EXCEPT !.mapped = NewBlock]
     /\ RememberPlan
     /\ pc' = Route
     /\ UNCHANGED <<inference, evaluation, call, bias, verified, grouping, history>>

-----------------------------------------------------------------------------
\* The launch of the sparse kernel, with the summaries of the innermost fused
\* group when the call is given its very rows.
Fused == {i \in DOMAIN scopes : scopes[i].fused}
Active == IF Fused = {} THEN None ELSE scopes[Max(Fused)]
Prepared == IF Active # None /\ Active.pair = call.pair THEN Active ELSE None

\* PreparedKV.check: the stream, and the version of the tensors.
SummariesUsable ==
  Prepared # None =>
    Prepared.stream = call.stream /\ Prepared.version = scratch[call.pair].version

RowsOf(kv) == IF kv = None THEN 0 ELSE scratch[kv].rows

Reads ==
  {[block |-> held.bias, content |-> KeyMeasure(call)] : x \in {held.bias} \ {Nothing}} \union
  {[block |-> held.mapped,
    content |-> <<"blocks", [t \in QTiles(call.wire) |-> NeighbourBlocks(call.wire, t)]>>] :
     x \in {held.mapped} \ {Nothing}}

Launch ==
  /\ SummariesUsable
  /\ queue' = IF Reads = {} THEN queue
              ELSE [queue EXCEPT ![call.stream] = Append(@, Kernel(Reads))]
  /\ consumed' = [rows |-> RowsOf(call.pair),
                  summary |-> IF Prepared = None THEN RowsOf(call.pair) ELSE Prepared.group,
                  overtaken |-> Prepared # None /\ Prepared.overtaken]
  /\ UNCHANGED <<mem, fired, block, scopes, scratch>>

\* Which check a call is under, what the check is remembered by, and what it
\* compares with dense attention: the kernel's operands, all keys selected.
Path == CASE call.api = "vdn" -> "vdn" [] DenseExecution -> "weighted" [] OTHER -> "flow"

\* The identity of a weighted dense layout without its measure.
LayoutIdentity ==
  CASE Path = "weighted" -> <<call.q, call.kv, call.digest>>
    [] Path = "flow" -> <<call.q, call.kv, call.digest, call.sink, ExactEnd(call), call.wire>>
    [] Path = "vdn" -> <<call.q, call.kv>>

Identity ==
  CASE Path = "weighted" -> <<call.q, call.kv, call.digest, KeyMeasure(call)>>
    [] Path = "flow" -> <<call.q, call.kv, call.digest, call.sink, ExactEnd(call), call.wire>>
    [] Path = "vdn" -> <<call.q, call.kv>>

Operands ==
  CASE Path = "weighted" -> <<Path, call.q, KeyMeasure(call)>>
    [] Path = "flow" -> <<Path, call.q, KeyMeasure(call), call.wire>>
    [] Path = "vdn" -> <<Path, call.q, call.kv>>

Verified ==
  IF Path = "weighted" THEN Contains(verified.weighted, Identity) ELSE Identity \in verified[Path]

Remembered ==
  IF Path = "weighted"
  THEN LET all == Append(verified.weighted, Identity)
       IN [verified EXCEPT !.weighted = IF Len(all) > MaxWeighted THEN Tail(all) ELSE all]
  ELSE [verified EXCEPT ![Path] = @ \union {Identity}]

Publish(route) == published' = [route |-> route, operands |-> Operands]

\* Another call may not use summaries that are not its own: it raises.
SummariesRefused ==
  /\ pc = "sparse" \/ (pc = "dense" /\ Weighted)
  /\ ~SummariesUsable
  /\ pc' = "leave"
  /\ UNCHANGED <<inference, evaluation, call, held, caches, verified, grouping, history, device>>

\* The first call of an identity launches with every key selected, next to
\* dense attention; a weighted dense call is that launch.
Check ==
  /\ pc = "sparse" /\ ~Verified
  /\ Launch
  /\ pc' = "judge"
  /\ UNCHANGED <<inference, evaluation, call, held, caches, verified, history>>

WeightedDense ==
  /\ pc = "dense" /\ Weighted
  /\ Launch
  /\ pc' = IF Verified THEN "complete" ELSE "judge"
  /\ UNCHANGED <<inference, evaluation, call, held, caches, verified, history>>

\* Reading the statistics waits for the stream; a failed check raises.
Judge(passes) ==
  /\ pc = "judge" /\ queue[call.stream] = <<>>
  /\ pc' = CASE ~passes -> "leave" [] passes /\ Path = "weighted" -> "complete" [] OTHER -> "sparse"
  /\ verified' = IF passes THEN Remembered ELSE verified
  /\ compared' = IF passes THEN compared \union {Operands} ELSE compared
  /\ UNCHANGED <<inference, evaluation, call, held, caches, grouping, published, made, device>>

Sparse ==
  /\ pc = "sparse" /\ Verified
  /\ Launch
  /\ Publish("sparse")
  /\ pc' = "leave"
  /\ UNCHANGED <<inference, evaluation, call, held, caches, verified, compared, made>>

CompleteWeighted ==
  /\ pc = "complete"
  /\ verified' = [verified EXCEPT !.weighted = Append(Without(@, {i \in DOMAIN @ : @[i] = Identity}), Identity)]
  /\ Publish("weighted")
  /\ pc' = "leave"
  /\ UNCHANGED <<inference, evaluation, call, held, caches, grouping, compared, made, device>>

Dense ==
  /\ pc = "dense" /\ ~Weighted
  /\ Publish("dense")
  /\ pc' = "leave"
  /\ UNCHANGED <<inference, evaluation, call, held, caches, verified, grouping, compared, made, device>>

-----------------------------------------------------------------------------
\* A version counts the writes that torch sees: none in inference mode, and
\* never those of the Triton kernel that produces a fused group.
Silent(fused) == inference \/ fused
NewVersion(p, fused) == scratch[p].version + IF Silent(fused) THEN 0 ELSE 1

\* An outer group's pair is taken, and no version shows it.
Taken(i, p, fused) ==
  Silent(fused) /\ scopes[i].fused /\ scopes[i].pair = p /\ \E j \in Fused : i < j

\* A group's rows are written into a scratch pair and its consumer runs.
Produce(p, s, fused) ==
  LET g == made.groups + 1
      outer == [i \in 1 .. Len(scopes) |-> [scopes[i] EXCEPT !.overtaken = @ \/ Taken(i, p, fused)]]
  IN /\ scratch' = [scratch EXCEPT ![p] = [rows |-> g, version |-> NewVersion(p, fused)]]
     /\ scopes' = Append(outer, [pair |-> p, group |-> g, version |-> NewVersion(p, fused),
                                 stream |-> s, fused |-> fused, overtaken |-> FALSE])
     /\ made' = [made EXCEPT !.groups = g]

\* A second group in the pair of the innermost fused one.
GroupUnrefused(p, s, eligible) ==
  /\ pc = "idle" /\ Bounded(made.calls, made.groups + 1) /\ Len(scopes) < MaxDepth
  /\ Produce(p, s, eligible /\ ~Warmup)
  /\ UNCHANGED <<inference, evaluation, pc, call, held, caches, verified, consumed, compared, published, device>>

\* grouped_kv.execute: the consumer of a group may start another group.  Only
\* the pair of the innermost fused group is refused.  Warmup and what the
\* device lacks keep a group from being fused.
Group(p, s, eligible) ==
  /\ pc = "idle" /\ Bounded(made.calls, made.groups + 1) /\ Len(scopes) < MaxDepth
  /\ Active # None => Active.pair # p
  /\ Produce(p, s, eligible /\ ~Warmup)
  /\ UNCHANGED <<inference, evaluation, pc, call, held, caches, verified, consumed, compared, published, device>>

\* The consumer returns or raises.
EndGroup ==
  /\ pc = "idle" /\ scopes # <<>>
  /\ scopes' = Front(scopes)
  /\ UNCHANGED <<inference, evaluation, pc, call, held, caches, verified, scratch, consumed, history, device>>

NextEvaluation ==
  /\ pc = "idle" /\ scopes = <<>> /\ evaluation + 1 < MaxEvaluations
  /\ evaluation' = evaluation + 1
  /\ UNCHANGED <<inference, pc, call, held, caches, verified, grouping, history, device>>

-----------------------------------------------------------------------------
Host ==
  \/ Leave \/ UnitMeasure \/ MeasureHit \/ MeasureMiss \/ MapUnneeded \/ MapHit \/ MapMiss
  \/ \E owned \in BOOLEAN : MapRefused(owned)
  \/ SummariesRefused \/ Check \/ WeightedDense \/ Sparse \/ CompleteWeighted \/ Dense
  \/ \E passes \in BOOLEAN : Judge(passes)

Caller ==
  \/ \E c \in Calls, s \in Streams, kv \in Pairs \union {None} : Call(c, s, kv)
  \/ \E p \in Pairs, s \in Streams, eligible \in BOOLEAN : Group(p, s, eligible)
  \/ EndGroup \/ NextEvaluation

Device ==
  /\ \E s \in Streams : Execute(s)
  /\ UNCHANGED <<inference, evaluation, pc, call, held, caches, verified, grouping, history>>

Next == Host \/ Caller \/ Device

Spec == Init /\ [][Next]_vars

-----------------------------------------------------------------------------
\* Every cache knows the bytes of its entries, keeps within its limits, and
\* has one entry for a key.
CacheOK(c, limit) ==
  /\ c.bytes = Sizes(c.entries)
  /\ Len(c.entries) <= limit.entries /\ c.bytes <= limit.bytes
  /\ \A i, j \in DOMAIN c.entries : i # j =>
       c.entries[i].key # c.entries[j].key /\ c.entries[i].block # c.entries[j].block

TypeOK ==
  /\ evaluation \in 0 .. MaxEvaluations - 1
  /\ pc \in {"idle", "bias", "map", "dense", "sparse", "judge", "complete", "leave"}
  /\ (call = None) = (pc = "idle")
  /\ HeldBlocks \subseteq Blocks
  /\ CacheOK(bias, MaxBias) /\ CacheOK(mapped, MaxMapped)
  /\ Len(plans) <= MaxPlans /\ Len(verified.weighted) <= MaxWeighted
  /\ {b \in Blocks : block[b].live} = HeldBlocks \union BlocksOf(bias) \union BlocksOf(mapped)

\* A kernel reads the key measure of its call and, for every query tile, the
\* blocks next to the positions its query map gives, on whatever stream the
\* call runs, on whatever stream and for whatever call the tensors were made,
\* and although the entries were evicted and their memory is used again
\* (_key_bias, compile_descriptor, device_descriptor).
KernelsReadTheirMetadata == ReadsIntended

\* Summaries that a launch takes from a group are those of the rows it reads,
\* at any depth and in either mode, unless a group at least two fused levels
\* further in took the pair where no version shows it
\* (grouped_kv.current and execute, PreparedKV.check).
SummariesMatch == consumed.rows = consumed.summary \/ consumed.overtaken

\* The scratch of a fused group keeps the group's rows as long as the group is
\* in progress (docs/GROUPED_ATTENTION.md: "recursive reuse of active scratch is
\* rejected before writing"; grouped_kv.execute compares with one group only).
ActiveScratchKept ==
  \A i \in DOMAIN scopes : scopes[i].fused => scopes[i].group = scratch[scopes[i].pair].rows

\* A receipt of a kernel is only written when these operands were compared
\* with dense attention in this request: the identities under which checks
\* are remembered tell apart whatever changes the kernel's input.
ReceiptsCompared ==
  published # None =>
    published.route = "dense" \/ published.operands \in compared
=============================================================================
