# A TLA+ verification of Sol-H3

Sol-H3 is a ComfyUI custom node that replaces the attention of the MiniMax H3
video transformer by a sparse kernel. Two things make it hard. On the host it is
who owns what: it installs itself into a model other nodes also patch, keeps
state for one sampling request, one forward and one call, falls back when a
kernel or another provider is missing, caches device tensors across CUDA streams,
and must tell a forecasting node truthfully what ran. On the device it is
synchronisation: the kernels are warps, asynchronous copies and tensor cores that
share a few tiles of memory. This directory models both in TLA+, checks the
models with TLC on small instances and proves the central invariants with TLAPS
for every value of the constants.

## The system

| part | source | state | operations | what makes it correct |
|---|---|---|---|---|
| request runtime | `runtime.py` | `_REQUEST`, `_FORWARD`; per request the evaluation counter, kernel, demoted providers; per forward the seen blocks and routes | sampling, diffusion and block wrappers, the attention override, the VDN callbacks | scopes nest under exceptions; warmup counts actual evaluations; preprocessing is applied exactly once on every path; receipts tell the truth |
| sparse attention | `sparse.py` | the loaded kernel, its sticky failure, the qualified domains | load, arithmetic gate, run, dense prefix | one backend per request; no result before its comparison; a failed gate is fatal |
| installation | `runtime.py` (`merge_config`, `install`), `contracts.py`, `nodes.py` | the options, wrappers and block replacements of a model | apply, clone, wrap by other nodes, sample | policies merge in every order; branches do not disturb each other; no model refuses to run |
| history policy | `interop.py` | none of its own; reads the request | preflight identity, acceptance of receipts | a forecast is made only from an anchor computed the same way |
| weighted measure | `weighted_measure.py` | `_OWNER_GENERATIONS` and its lock; `Request.measure_plans` | identity of a provider, weak reference callback, plan cache, capability | a replacement never inherits a plan; one generation per provider |
| partitioned requests | `partitioned_request.py`, `partitioned.py`, `provenance.py` | source trust and compile cache with their locks; bias, layout and map caches; completion receipts | verify, compile, launch, dispatch, compare | nothing runs unverified; a kernel reads the metadata made for its call; caches stay bounded |
| partitioned history | `partitioned_history.py` | the evaluation's completion proofs | recognise Flow's contract, accept receipts | a proof authorizes its own evaluation only |
| mapped neighbours | `mapped_neighbors.py` | descriptor caches | compile a query map to block intervals | the intervals cover every neighbour |
| grouped K/V | `grouped_kv.py`, `grouped_kv_triton.py` | the scratch pair of each nested group | enter, project, prepare, leave | prepared summaries belong to the rows they are used for |
| mixed measure | `mixed_measure.py` | none | validate and gather K/V | exactly the contract's rows remain |
| streamed blocks | `streamed.py` | one invocation's carriers, views and output | project, attend, release | streaming changes no row; nothing outlives its invocation |
| exact fusion | `exact.py`, `kernels.py`, `native_contract.py` | the qualified layouts, the verified native source | modulate segments, compare, fall back | a segment is modulated once, by code that was compared |
| gate metrics | `gate_metrics_triton.py`, `sparse.py` | sums over parts of an output | add a tile, finish | every row counts once |
| attention entry and preparation | `_vendor/sol_attn/interface.py`, `preprocess.py`, `triton_ref/preprocess.py` | summaries and thresholds of one call | choose a kernel, pad, reduce, pool, threshold | whatever the kernel loads was written, from the right rows |
| sm120, sm90, sm100, Triton kernels | `_vendor/sol_attn/*/mainloop.py`, `triton_ref/fwd.py`, `sm90/split_combine.py`, `flash_attn/cute/pipeline.py` | shared memory, barriers, registers of a thread block | copy, score, route, add, combine, store | every tile is handed over once; every row gets every block once |
| diagnostics, tools | `history_diagnostics.py`, `memory_profile.py`, `tools/` | logs | none that routes | - |

Interaction: a node calls `install` on a clone of a model. ComfyUI then calls
`SamplingWrapper` (sets `_REQUEST`), which calls the sampler, which calls
`DiffusionWrapper` once or several times per step (sets `_FORWARD`), whose
transformer calls a `BlockPatch` for each block, which puts callbacks into the
block's options, fuses its modulation and streams its attention where both are
eligible; the block's attention, VDN and Untwist call these, and they call the
sparse kernel, the inherited provider or ComfyUI's own attention. Flow and VDN call
the partitioned entry points instead, which look up cached metadata and launch
the same kernels. A forecasting node (Spectrum, outside `src`) asks the history
policy before a forward and hands it the receipts after it.

## Modules

### Host: requests, installation, history

`SolRuntime` is the core. `request` and `forward` are the two ContextVars,
`outer` and `saved` what their tokens restore, `pc[r]` and `err[r]` the frame a
request's code is in and whether an exception unwinds it. Each action is one
stretch of code between two points where other code runs: `SampleEnter`,
`SampleReturns`, `SampleUnwinds` (`SamplingWrapper`), `ForwardEnter`,
`ForwardReturns`, `ForwardUnwinds`, `ForwardRefused` (`DiffusionWrapper`),
`BlockEnter`, `BlockReturns`, `BlockUnwinds` (`BlockPatch`), then one action for
each way `override` and the VDN callbacks can begin (`Call...`, `Vdn...`), for
each outcome of the kernel and the gate (`KernelLoads`, `KernelFails`,
`GatePasses`, `GateFails`, `SparseRuns`) and for each consumer (`Provider...`,
`OriginalReturns`, `WeightedReturns`, `NativeReturns`, `ComputeRaises`). A tensor
is how often it was preprocessed and whether the mixed-grid measure removed its
rows. `SamplerRecovers` and `BlockRecovers` are third-party code that catches an
exception. Samplings may nest: any external frame may start another request.

`SolInstall` models a tree of models as `ModelPatcher.clone` makes them, with a
heap for the dictionaries that clones share, `Install` as one action with
everything `install` does, other nodes' wraps around the block replacements, and
a sampling of any model (`Sample`, `Forward`, `EnterPatch`, `LeavePatch`).

`SolHistory` models the steps of a sampler under a forecasting node: `Preflight`
asks for the identity of the coming forward, then the node either skips the
forward (`Forecast`) or runs it (`ForwardEnter`, one action for each way a block
can be computed, `ForwardReturns`, `ForwardRaises`) and offers its receipts. The
identity is read before the forward and the receipts after it, while demotion,
kernel failure and the charge of the evaluation happen in between. The
forecaster is external: it keeps an accepted evaluation as anchor and skips only
under the same identity. Both modules and `SolCall` take Python's `None` from
`PythonNone`, so that `MCSolHost` can extend them together.

### Host: threads and locks

`KernelLaunch` models threads in `_verify_partitioned_source` and
`_sm120_union`, both double-checked under a lock, with failing verifications,
failing compilations and a changing source identity. `SourceTrust` is the
abstract specification: a call is decided at once. `DecidesAtOnce` is the
refinement; its mapping gives the trust an attempt has taken away back to the
request until the attempt ends (`before`), because no other call can be decided
meanwhile.

`OwnerGenerations` models `_owner_identity`, the weak reference callback and the
plan cache of `prepare`. Objects, addresses and the collector are Python's and
are marked external in the map: an object keeps its address until its callbacks
have run; a callback runs in whatever thread drops the last reference or runs
the collector; an exception in a callback is dropped.

### Host: one block

`BlockExecution` composes what `original_block` does in one request:
`BlockState` is the call and how far it has come; `ExactAffine` the fused
modulation, segment by segment and in place, each layout compared on its first
rows before it is trusted; `StreamedAttention` the attention, in one call or
streamed (`projectKV`, `projectQ`, `attend`, `copyOut` per chunk), or projected into
carriers for VDN, with the kernel's load, the arithmetic gate over chunks of the
queries and which of its rows each statistic is about, the prefix that is computed
again densely, and `Released`, which is what every way out leaves behind. An exception
may end any step (`Raise`, `Unwind`, `AffineFails`). It carries a traceback: `Frames` says
which tensors the frames below the invocation hold where it is raised (the arguments of
the attention, VDN's carriers, a projected chunk), and `Released` leaves those alive
until the exception is dropped with the request. What a row's attention was computed
from is part of the row, so that a streamed block can be compared with the same block
in one call.

### Host and device: partitioned calls

`MappedNeighbors` is the compilation of a wire map (affine runs of query rows to
key rows) to one interval of key blocks per query tile, with
`NeighbourBlocks` as what the kernel needs of it. `CudaStreams` is the device as the host
uses it: streams executing in order, events, and the caching allocator that hands
a freed block out again. `PartitionedRequest` is the calls of Flow and VDN over
both: the evaluation's route and counter, the bias, layout and map caches with
their entry and byte bounds, the metadata made on one stream and used on another
with `record_stream` and events, the group scratch of `grouped_kv.py` with its
prepared summaries, the comparison with dense attention once per identity, and
the receipts. Groups nest to any depth, with tensor versions (`inference` is false) or
without: a version counts the writes that torch sees (`NewVersion`), which those of the
Triton producer are not (`Silent`).

### Device: the attention kernels

`SolCall` is the entry: which calls are accepted, which kernel they get, what the
work of a thread block is. `SolPrepare` is a call up to its kernel: padding to a
bucket, then the grids of `DescriptorGrids` (`preprocess.py`) or `PointerGrids`
(`triton_ref/preprocess.py`), which share `Summaries`; the programs of a grid run
in any order, and a summary records the rows it was made of. `PreparedCall` is that
preparation beside the state of a thread block, with the property both must meet.

`RoutedAttention` is the abstract specification of a kernel: a thread block decides
a route for each group, adds the rest of the group and the exact blocks to the
rows of each warp once and in order, and stores when all have. `TileSlot` is the
abstract specification of a pipeline: a slot is filled, read once by every
reader, and filled again. `TmaBarriers` has the full and empty mbarriers of a
pipeline with the parity bits both sides wait on, `TmaPipeline` their protocol.
`SolTile` is the state of a thread block and the properties every kernel must
have (`KeepsPromise` and `TilesHandedOver` are the two refinements). The kernels:

* `Sm120Kernel`: one producer among the warps; scratch and output overlay Q;
* `Sm90Kernel`: one warpgroup, one pipeline state for K and V, named barriers,
  split groups;
* `Sm100Kernel`: warps specialised for loading, issuing to the tensor core and
  softmax; the tensor core executes in order and signals completion; two route
  tiles are joined;
* `TritonKernel`: one agent; `SplitCombine`: the sum of split results with
  `cp.async` groups, in which each warp leaves its scales and its last valid splits in
  shared memory and, behind a second barrier, takes those of all warps (`ReadValid`).

`MC...` modules give constants their values; `MCSolHost`, `MCThreads` and `MCSolKernels`
also compose. `MCSolHost` runs one of three scenes that have no state in common,
installation, history or a request's blocks, `MCThreads` one of two, kernel calls or owner
generations, each with the properties of all. `MCSolKernels` prepares one of
eight calls and follows one thread block of the kernel that `SolCall` chooses.
The theorems are in `SolRuntimeProofs` (types, scopes, charging, attention calls and
the warmup), `SolInstallProofs`, `SolHistoryProofs`, `BlockExecutionProofs`,
`PartitionedRequestProofs`, `ThreadsProofs` (kernel launches, owner generations, and
the process with both of its scenes), `TmaPipelineProofs` and `SolKernelProofs`.

## Runs

| run | instance | shows |
|---|---|---|
| `core` | two requests that may nest, two blocks (one kept dense), one warmup evaluation, one provider that can fail; the first request makes every kind of call over two forwards, the second one ordinary call | scopes, charging, warmup, receipts, preprocessing, measure, gate failures, isolation, stickiness of failures |
| `host`, scene `install` | four configurations (Exact, a SOL policy with and without fusion, another SOL policy), up to five models | policies merge, no model refuses to run or holds two patches for a block, the owner names its installation, branches isolated |
| `threads` | three threads, two requests and standalone calls, two identities with one change, one kernel, three calls; or two threads, three providers at two addresses, four identity calls, one raising callback | source trust, shared verification and compilation, termination of every call, refinement of `SourceTrust`; one generation per provider, no inherited plan, a bounded registry, and only a collection inside the lock can hang a call |
| `host`, scene `history` | one request of up to five steps over two blocks, with and without a provider, in Flow's later stage, partitioned or opaque, in any order | a skipped forward would have computed every block as its anchor did; completion proofs stay in their evaluation |
| `host`, scene `block` | nine block calls that differ in length, owner, obstacles, layout and segments, up to three in a request, two requests | streaming changes no row's attention; no kernel's result is used without its comparison; no workspace outlives its invocation, except in the frames of an exception; the run also finds no deadlock |
| `partitioned` | five calls (weighted, shifted, unmapped, torn, VDN) on two streams, within up to three nested groups of K/V over two scratch pairs, two evaluations, a bias cache of two entries and a map cache of one | kernels read the metadata made for their call, prepared summaries belong to their rows unless a group two fused levels further in took them over, every receipt was compared |
| `kernels` | eight calls on sm120, sm90 (with and without splits), sm100 and Triton; nine tokens in blocks of two, three groups; three warps; every route, every order of warps, copies and tensor core operations | preparation complete; the promise of `RoutedAttention` kept; tiles handed over as by `TileSlot`; races only of the kind in the findings; every thread block finishes |
| `core_measure`, `install_callbacks`, `install_identity`, `owners_collect`, `block_traceback`, `partitioned_scratch`, `kernel_scratch` | those of `core`, scene `install`, one thread with two providers, `host`, `partitioned` and `kernels` | violations, see findings |

### Bounds

`core`: `MaxForwards` (2, 1) lets an evaluation pass the warmup and a nested
request run while the outer one is in any frame; `MaxReceipts` (2, 1) lets a
block call attention twice (a demotion or kernel failure in one call, its effect
in the next). Two blocks are the boundary of `DenseLayers = 1`. Scene `install`:
`MaxModels = 5` is a base and four applications, clones or wraps, enough for two
applications on each of two branches. Scene `history`: five steps are an anchor in the
dense phase, one after it, a demotion or failure and a forecast on each side.

`threads`: three calls put one thread in each of the places verify, wait and
check, with one change of identity between; three providers at two addresses
make one a replacement of another while a third lives. The identity the process
starts with is fixed: identities are interchangeable. The scenes share no
variable, so a behaviour of either is a behaviour of the product with the other
at rest.

Scene `block`: with `ChunkSize = 4` and `StreamFactor = 2` (8 in the code, which only
says from where streaming is worth it) nine rows are two full chunks and a last
one of a single row, and a prefix of five ends inside the second; `GateRows = 2`,
`MetricRows = 1` and `ProbeRows = 1` make the gate of a chunk take two steps, a
step's sum two launches, and the affine comparison cover a part of a segment.

`partitioned`: `Lengths` bounds a behaviour to three calls without a group, two
with one, or one within up to three (`MaxDepth = 3` nested: the depth from which an
outer group's pair can be taken); three calls on two
streams are the shortest way to fill, evict and reuse a cached tensor. Its blocks
are handed out first fit, the earliest reuse. Symmetry over streams and scratch
pairs is sound: the run has no liveness property and no definition tells them
apart.

`kernels`: nine tokens of `BlockLen = 2` are five blocks, the last one partial,
in groups of `GroupSize = 2`, the last one of one block, so a route may be empty,
full or cut by the end; sinks lie inside, across and at the end of a group; 14
queries over nine keys give tiles without neighbours. `Stages = 2` of the combine
kernel (4 in the code) reuses a stage within the four splits. Of each call the
first and a later query tile are followed; thread blocks share no memory they
write.

The runs that set `CHECK_DEADLOCK FALSE` stop when these bounds are used up, when
a thread block is done, and in `threads` when a thread waits for itself. `host` checks
deadlock: its scenes `install` and `history` may stop anywhere, a block may not.

### Fairness

`SolRuntime`, `SolInstall`, `SolHistory`, `BlockExecution` and
`PartitionedRequest` are checked for safety only: they have one host thread and
call third-party code that may do nothing. `KernelLaunch` and
`OwnerGenerations` assume weak fairness of each thread's steps inside a call: the
operating system runs a thread that can run, and the code between two steps
ends. Starting a call, changing the identity, dropping references and collecting
are never assumed. Weak fairness is enough for the locks because calls are
bounded and a lock is competed for finitely often. `kernels` assumes that the
device runs every grid and every resident warp, completes every copy that was
started, and that the tensor core executes what it was given in order. That a
warp gets past a barrier is not assumed: `Finishes` shows it.

## Findings

* `core_measure`: when the kernel is unavailable, a call under Flow's legacy
  measure falls back to the tensors from before the gather
  (`runtime.py:591`), so the measure is dropped; `docs/RECTANGULAR.md` says the
  gathered domain is attended or the call fails.
* `install_callbacks`: `BlockPatch.__call__` cleans up under its own
  configuration (`runtime.py:337`), but installs under the active one. After
  Exact and then SOL the callbacks stay, and the reference cycle that
  `docs/MEMORY.md` says is gone remains.
* `install_identity`: after a second application that changes the merged
  configuration the old patches no longer equal the policy's configuration
  (`interop.py:386`), so the model is opaque to forecasting.
* `owners_collect`: `_owner_identity` allocates under a non-reentrant lock that
  the weak reference callback also takes (`weighted_measure.py:249`). A
  collection started by one of these allocations that finds a registered
  provider in a dead cycle leaves the thread waiting for itself. The schedule was
  reproduced with the real function under CPython 3.11 by setting the collector's
  threshold.
* `block_traceback`: the comment at `streamed.py:226` says that a retained exception
  traceback must not keep the workspace alive. The clause `finally` gives up the
  invocation's own names and clears its stream, but when attention raises, the frames
  below, whose arguments are K and V, are part of the traceback and keep both.
* `partitioned_scratch`: `docs/GROUPED_ATTENTION.md:26` says that "recursive reuse of
  active scratch is rejected before writing", but `execute` compares with the pair of
  the innermost fused group only (`grouped_kv.py:87`). A third nested group may take
  the pair of the first, which is in progress. `PreparedKV.check` does not notice, since
  a Triton launch changes no version and inference tensors have none.
  `SummariesMatch` and its theorem say that this is the only way summaries and rows come
  apart.
* `kernel_scratch`: in the sm120 kernel warp 0 writes its part of the output over
  the routing scratch (`sm120/mainloop.py:706`), and no barrier separates this
  from the last reads of the scratch by slower warps, although the comment at line
  197 claims it. `RacesOnlyWithOutput` shows that this is the only race of the
  four kernels. Nothing is claimed of an sm120 behaviour after it.

Met while modelling, with no run: an error text of the interface says each split
must contain a group, but five groups over four splits leave one empty; it is
harmless, because its LSE is minus infinity and the combine kernel skips it.

## Proofs

TLAPS proves, for every set of requests, every model size, warmup, set of
providers, options and inputs (`ConstantsAssumption` only), over
`SolRuntime!Spec`:

* `TypeInvariance`: `TypeOK`. It is not inductive alone, because actions use the
  forward and the block of the current call: `Typed` adds that the owner of an
  open block is a request and that a call in progress has been preprocessed as
  its place says.
* `ScopesNestInvariance`, `RequestIsolationTheorem`: samplings nest to any depth,
  so what the tokens hold must be described for a whole stack. `Scoped` does so
  by two witnesses: what `_FORWARD` held when each request was entered, and a
  nesting depth that `outer` decreases (`Nested`). Entering pushes, leaving
  restores the witness of the frame below.
* `EvaluationChargedInvariance`: from `ScopeCorrect`, since only the request
  whose forward is open can charge it.
* `PreprocessedOnceInvariance`, `ReceiptTruthfulInvariance`,
  `WeightedKeepsMeasureInvariance`, `GateFailureIsFatalInvariance`: from
  `CallsCorrect`, an invariant that says for each place of a call what its
  tensors, its receipts and its consumers so far are (`CallOK`), preserved by one
  step lemma for each group of actions.
* `FailuresStayTheorem`: by `ScopesNest` a step changes the failures of the
  current request only, and adds a consumer only where the provider or the kernel
  was asked first.
* `SparseOnlyPastWarmupInvariance`: from `IWarm`. The property speaks of receipts and
  the charged evaluations, the code decides on the forward's own number before
  the kernel runs, so the invariant says that an open block's forward has been
  charged (`BlocksSeen`), that a call bound for a sparse receipt is past the warmup
  (`CallsLate`), and that receipts are gone when the counter is reset (`RoutesClosed`).

Over `InstallSpec`, for any configurations, any number of models and any chain of
other nodes' wraps (`ConfigsAssumption`):

* `InstallTypes`, `PolicyMergedTheorem`, `NeverRefusedTheorem`: from `IInv`, which says of
  every model that it holds one wrapper of each kind and one block patch, or none,
  however often it was cloned and applied (`WrappedOnce`), that its configuration is
  what the applications on its branch ask for together (`MergesApplied`), and that its
  history and registry are two dictionaries its last application made together
  (`RefersTo`); and of a sampling that it runs with its model's configuration
  (`RequestFits`).
* `OwnerNamesTheorem`, `BranchesIsolatedTheorem`: the heap of dictionaries only grows
  (`Extends`), and an application refers to what it has just allocated, so no model
  that exists sees it, and two models share an owner only by cloning.

Over `ForecastSpec`, for any number of steps, blocks, providers and phases
(`HistoryAssumption`):

* `HistoryTypes`, `ForecastSoundTheorem`, `ProofsScopedTheorem`: from `IInv`. The identity is
  taken before the forward, what ran is known after it, and demotion, kernel failure
  and the charge come in between. The invariant says that an identity is that of the
  situation until a block runs (`AskedNow`), when an evaluation is charged (`Charged`), that the
  identity of the running forward and what its blocks did tell the same story
  of provider, phase and demotion (`ForwardFits`), that those of the anchor still do
  (`AnchorFits`), and that completion proofs are of charged evaluations (`ProofsPast`).

Over `BlockExecution!Spec`, for any block calls, any `BlockLen`, `ChunkSize` (a multiple
of it, `ChunkAligned`), `GateRows`, `MetricRows` and `ProbeRows`, and any set of faulty
layouts:

* `StreamedAsWholeTheorem`: the invariant says that the rows before the current chunk are
  those of one call for the whole sequence (`OutputFits`), that K and V are complete when
  the first query is asked (`Loads`, `Attends`), and that no chunk can make the kernel
  ready after another was computed without it (`KernelKnown`). That a chunk starts at a
  tile (`CursorFits`) makes its tiles those of the whole sequence: the lemmas
  `DivUnique`, `DivShift`, `DivBelow`, `TileShifts` and `JobShifts`.
* `KernelsQualifiedTheorem`: the gate adds its rows in steps and through two reducers in
  any mixture. `Counted` says that every row so far is in exactly one part, preserved
  by `AddsOnce` (`TilesPartition`, `PartsJoin`, `OnePart`), so that what was
  measured is the whole call (`CountedMeasured`) and what is remembered as verified was
  compared row by row (`Qualified`). The modulation is right because `HiddenFits` says
  which rows are done, and the first row of a segment is always compared.
* `WorkspaceBoundedTheorem`, `BlockTypes`: from `Rests`, `Loads`, `Attends` and `ViewsFit`, which
  say at each place what the carriers, the stream and the local names hold; after an
  exception, what they may hold (`Raised`). What a failed invocation leaves is what the
  frames of its exception hold and no more: that this can be K and V is the finding
  `block_traceback`.

Over `PartitionedRequest!Spec`, for any calls, caches and their limits, streams, blocks of
device memory, scratch pairs and depths of nesting:

* `PartitionedTypes`, `KernelsReadMetadata`: the host runs ahead of the device, so a kernel
  that is launched now reads its measure and its intervals after operations that are
  still queued on two streams, from a block that a cache may meanwhile evict and the
  allocator give to the next tensor. The invariant is `TensorsOK`. Of the device it says
  that a block is written by its home stream only and an event is that of one write
  (`WritesPending`), that the allocator's own events are those of blocks it waits for
  (`PassesPending`), and that every queued kernel will find its content when its turn comes:
  by the order of the home stream, or because its own stream waits for the event of
  the last write there (`KernelsReady`; `Leaves`, `Settled` and `Coming` say where that write
  is). Of the host it says the same of the tensors that a call holds (`HeldOK`) and
  those that a cache remembers with their events (`CachedOK`), that a block belongs to
  one cache at most and that exactly the live blocks are referred to (`Owned`). The
  proof first establishes the device part for each operation on streams (append,
  execute, allocate, drop, take), then for each action. Dropping `record_stream` breaks
  `Owned` and `KernelsReady` together; dropping the wait breaks `HeldOK`.
  `TensorsInvariant` states that `TensorsOK` is an invariant.
* `PartitionedTypes` includes that a cache's byte count is the sum of its entries and
  within its limit. The sum is a recursive function, and what it needs (that it is
  natural, that a suffix and a prefix add up, that removing an entry removes its size)
  is proved from a least counterexample (`WFMin` over the naturals).
* `CompileSound`: the intervals that `compile_descriptor` makes of a valid map are, tile
  by tile, the blocks next to the positions of the tile's rows and no others, for any
  `BlockSize`, width and number of runs. `KernelsReadMetadata` rests on it, because what
  a kernel must read is stated by `NeighbourBlocks`.
* `SummariesMatched`: by `SummariesCurrent`, for any depth of nesting and both modes. The pair
  of the innermost fused group is refused, and a write that torch sees into the pair of
  another one shows in the version. What remains is a write no version shows into the
  pair of a group that is not the innermost, which is recorded (`overtaken`): the rows
  and summaries of a launch differ only there (the finding `partitioned_scratch`).
* `ReceiptsWereCompared`: by `ChecksRemembered`, which says of every identity that a route
  remembers that its operands were compared. The identity of a Flow call does not contain
  the measure, only the digest (`DigestAssumption`): that a call with the same identity
  has the same operands is the step where it is used (`PathFacts` gives the prefix).

Over `TmaPipeline!Spec`, for every non-empty set of warps and of tiles:

* `PipelineSafe`: no copy overwrites a tile a warp has yet to read or is reading.
  Each side sees one parity bit of a barrier, so the invariant relates the bits to
  how far each warp has come: while the stage is the producer's every warp has
  left it (`Free`), while a copy is in flight every warp waits for it (`Flying`),
  and a warp that has yet to read the tile is one whose parity differs from the
  full barrier's phase (`Shared`).
* `PipelineIsSlot`: the pipeline implements `TileSlot`, by the same invariant. The
  `kernels` run checks the same refinement inside the kernels.

Over `KernelLaunch!Spec`, for any number of threads, requests, identities and
kernels (`LaunchAssumption`):

* `LaunchesVerifiedTheorem`, `WorkSharedTheorem`: from `IInv`, whose parts say
  what the call of a thread is at each place (`CallsFit`), that a thread past the
  lock holds it and that the request has no trust while it verifies (`Holding`),
  that trust was earned (`TrustEarned`), and that while the identity does not
  change every attempt is in progress, successful or among the failures
  (`Counted`).
* `DecidesLikeSourceTrust`: the double-checked locking implements `SourceTrust`. The
  decisive step is the success or failure of an attempt: by `Holding` the trust it
  took away was in another identity and nobody else can have decided meanwhile.

Over `MCThreads!ThreadsSpec`, the process of the run `threads`, whose scenes touch none
of each other's state, for any number of threads, providers and addresses
(`OwnersAssumption`: `None` is none of them, and the bounds are numbers):

* `ThreadsKeepGenerations`, `ThreadsInheritNoPlan`: from `OwnersIInv`, which says that
  living objects have different addresses until their callbacks have run
  (`ObjectsApart`), that a call keeps its provider alive and its thread holds the
  lock past the wait (`QuestionsFit`), that an entry is at its owner's address
  (`EntriesFit`), that a token belongs to one provider and its entry stays while
  the provider lives (`TokensApart`), that plans are kept under such tokens
  (`PlansFit`), and that the entries left behind are finitely many, no more than
  the callbacks that raised (`FewRemain`).
* `ThreadsLaunch`, `ThreadsTypes`: what is proved of `KernelLaunch`, and the types of
  both scenes, of the whole process.

Over `SolPrepare!Spec`, for any positive sizes and any calls with integer lengths
(`SizesAssumption`, `CallsNumbered`):

* `PreparationComplete`: from `Prepared`, whose parts say that the summary tensors have
  room for every block that is loaded (`Rooms`, with `RoomsFit` on the two paddings),
  that each summary is unset or that of its own block, and of no row beyond the last
  (`Summed`), that the moments are those of all blocks (`Measured`), and that a centroid
  and a threshold are unset or made of the tile's own rows (`Centred`, `Thresholds`).
  The divisions are those of `DivUnique` and `RoundsUp`: a token belongs to one block,
  and the blocks and groups cover the tokens.

Over `Sm120Kernel!Spec`, for any sizes, any set of warps with its producer, any query
tiles and every route (`SizesAssumption`, `TilesAssumption`):

* `Sm120Types`, `Sm120Races`, `Sm120HandsOver`: from `IInv`. Its first part, `Pipes`, is
  the invariant of `TmaPipeline` of both pipelines (`KP` and `VP` instantiate
  `TmaPipelineProofs`): every step of the kernel is a step of at most one of them
  (`PipesMove`), so that part needs nothing else and holds after a race as well, and
  the hand-over follows from it. The rest, `Control`, is where the warps are before a
  race: in a place that fits their registers (`Placed`), on the same side of every
  barrier and told of the same number of decisions (`Together`), with the sums of the
  group in the scratch when it is decided and its decision there until the next
  (`Decided`, `Counted`), with Q, the scratch and the output in turn in the same memory
  (`Overlaid`), with nobody past the first wait for K before the first copy (`Fresh`),
  and reading a stage only between its wait and its release (`Reading`). `Fresh` is why
  the means of the first group find the stage empty and Q was read before the scratch
  replaced it; `Together` and `Overlaid` leave the output tile as the only thing that
  can overwrite what a warp still reads. `Listed` says what `InOrder` is: an index
  below the count has a block.
* `Sm120KeepsPromise`: the kernel implements `RoutedAttention`, when its thread blocks
  are those of accepted sm120 calls on these tokens (`Jobs120 \subseteq JobsBy("sm120")`,
  as in the `kernels` run). The call's preparation is where two facts about a thread block
  come from: it walks over all groups, one at a time (`Alone`), and the block range of
  the sink has every token that is to be kept exact (`Sunk`); `JobsFit` derives both from
  `Prepare!Accepted` and the rounding of `SinkBlockRange`. The invariant is `IInv` and,
  before a race, `Follows`: the scratch has the last decision in order (`Routed`), what
  a warp has added is a function of its place and its ordinal (`Added`), its score
  register has the tile it needs next (`Holds`), and the K and the V pipeline are
  streams of tiles - the means of the decided group, its exact blocks, the means of the
  next group - of which the Producer has started to copy so many and a warp has begun
  to read so many, one less if it has yet to read the newest (`KReads`, `VReads`). That
  relates a warp's registers to the tile it meets in shared memory, which is what the
  promise is about: the copy of the next group's means that the Producer starts early
  (`NextK`) or late (`RouteK`) is the same one of the stream, and a barrier only moves
  where the counting starts (`Shift`). An addition is then the next part of the plan
  (`SumGoesOn`, `Exactly`), with the right mass (`RouteMassIs`, `BlockMassIs`), and a
  tile is stored when all have added the whole plan (`PlanIs`). `FlattenSeq` is a
  recursive function; `FlattenAppend` says what it makes of one sequence more, by least
  counterexample (`LeastNat`), for which the library's `WFMin` needs no operator
  parameter.

Over the steps of `TritonKernel` (`Triton!Init /\ [][Triton!Next]_vars`), for any sizes and
any routes:

* `TritonKeepsPromise`: the Triton kernels implement `RoutedAttention`, when their programs
  are those of accepted calls on these tokens (`JobsTriton \subseteq JobsBy("triton")`).
  The invariant is `ProgramInv`: where the one program is, how many groups it has
  decided, which exact blocks of the group are still to be taken (`From`, the end of
  the group in order), and that every row has added what stands before them (`SumAt`,
  the same sums as of the sm120 kernel). The least of the remaining blocks is the next
  in order (`Rest`), so what it adds is the next part of the plan.

Over the steps of `SplitCombine`, for any number of splits, stages and warps. The
hypotheses say what the launch gives it: at least one stage and a second warp
(`CombineSizes`), and thread blocks that add up partial results and walk over no group
themselves (`Joinable`); how the blocks are divided among the splits is arbitrary:

* `CombineReadsItsCopies`: no warp reads an LSE or a stage before the copy into it has
  landed, or the last valid splits before every warp has stored its own. From `JoinInv`:
  before every addition a warp has exactly `Stages - 1` commit
  groups in flight, one for each of the splits it adds next, empty ones included
  (`Fetched`), so waiting for all but the last `Stages - 1` waits for the split's own
  copy (`FetchesAhead`, `OldestLands`); and behind the barrier all LSEs are there, since
  every split has a warp that fetched its LSE (`Loaders`) and waited for it.
* `CombineKeepsPromise`: the kernel implements `RoutedAttention`. What a warp has added is
  what the partial results before its split leave (`Shares`); the empty ones add
  nothing and none but empty ones come behind the last with any mass (`LastFullIs`,
  `SharesStay`), where a warp stops.

The assumptions that declare what a module's constants are (`ConstantsAssumption`,
`LaunchAssumption`, `ConfigsAssumption`, `ChunkAligned`, `CallsDescribed`, `CallsAssumption`,
`DeviceAssumption`, `OwnersAssumption` and the like) are evaluated by TLC in the runs. One
assumption is a fact about a party outside the code: `DigestAssumption`, that calls with the
same digest and prefix have the same measure, is Flow's contract (a semantic digest names one measure); `partitioned_request.py` relies on
it in the sparse identity and cannot check it. Every inductive invariant was checked by TLC
on its run's instance before it was proved.

Only model-checked: `KeepsPromise`, `TypeOK`, `RacesOnlyWithOutput` and `TilesHandedOver` of
the sm90 and sm100 kernels, which need invariants over every place of their warps and of
the tensor core's queue, as the sm120 kernel's over its warps; and `TypeOK` of the Triton
and combine kernels, in which no pipeline is used, and so no tile handed over. Liveness (`CallsEnd`,
`OnlyCollectionBlocks`, `Finishes`) stays with TLC: the prover has no ENABLED and no
fairness.

## Abstractions

Host. Left out because nothing routes on it: telemetry counters, `last_routes` and
`backend_transitions`, log lines, memory marks. A fallback reason is one flag,
because every reason leads to the same code. The arithmetic gates, kernel
outcomes and threshold comparisons are nondeterministic. In `OwnerGenerations` a
chain of preprocessing owners is its one stateful owner and the plan cache lives
as long as the run; a request's cache is a part of that. Identities of stateless
functions are digests of their content and are not modelled. In `KernelLaunch`
the identity tuple is one value; a change of it stands for a replaced module
attribute. In `SolHistory` a block makes one attention call, and the layout, dtype
and fingerprint of the identity are constant; "would have run" (`WouldRun`)
supposes that the skipped forward meets no new failure and no fallback reason,
since no forecaster can know one.

Block. A row carries what it was computed from, not numbers. Whether the affine
kernel is right depends on the layout alone (`Faulty`), which is what its
comparison relies on. VDN's own attention is external. A Triton failure in the
middle of the gate makes it go on with the other reducer, so any mixture of both
is possible (`Added`). Which frames a traceback has is where the exception was raised; the
names of ComfyUI's and VDN's frames are merged with those of Sol's that hold the same
tensors.

Partitioned calls. A freed block is reused at once, the worst case. One request
is followed. The sparse gate's identity relies on the digest to fix the measure; the gate
of a provider-v4 call is keyed by layout only, as in the code. The bias of a
weighted dense call is a temporary on the call's own stream. A descriptor that is
too large is created and then refused (`MapRefused`). The compile cache is left to
`KernelLaunch`.

Kernels. Fences and proxies are not modelled: a write is visible when the barrier
after it is passed. The warps of an sm90 warpgroup run independently, which gives
more interleavings than the hardware. In sm100, issuing an operation and waiting
for its predecessors are one step, completion signals of one operation are merged, the
rows of tensor memory belong to the warp that owns them, reading an index belongs
to acquiring its stage, the rescaling of the output by its owner is the flag
`rescaled`, and the pipe of the output is a flag set once. Prefetching is on, as
everywhere in the repository. In sm120, Q and the scratch stand for the rows that
belong to warp 0, the only ones that overlap. In the combine kernel a copy is
readable only after its own warp waited for it, and LSEs are read row by row.
Layouts, swizzles, addresses and floating-point arithmetic are left out; the
contribution of a block to a row is the set of keys it stands for. The Triton
kernels with and without descriptors are one program, and their `GROUP` of 32 is
`GroupSize`.

Preparation. The programs of one grid run in any order, grids in stream order.
Junk thresholds beyond the last tile exist and are never read. Rounding to
bfloat16 is left out. Summaries prepared by the caller come from the same
reduction.

## Not modelled

* Diagnostics, the memory profile and `tools/`: they measure and log.
* Floating-point arithmetic: softmax, rescaling, the softmax merge of
  `partitioned.py`, reductions, thresholds. What can be said without numbers, from
  which rows a result is made, is in the models.
* The rest of `flash_attn` (`flash_fwd.py`, `tile_scheduler.py`, `mask.py`,
  `softmax.py`, `utils.py`): a library of layouts and arithmetic of which the Sol
  kernels use helpers without state.
* Validation of malformed arguments, in `sparse.py`, `mapped_neighbors.py`,
  `mixed_measure.py` and the v4 callback: each refuses before any state changes.
* The VDN part of the history identity and the mapped and weighted receipts in
  `SolHistory`, which has Flow's.
* Nested sampling from inside a streamed chunk's provider: the inner call sees the
  outer `_STREAM` and fails closed in its check; no code of the repository does it.

## Plan

All of the plan is done: the core and its proofs, the installation, the threads,
the history, the block, the partitioned calls, the kernels. What a next step could
take up: inductive invariants of the other kernels (`SolTile`); the VDN receipts in `SolHistory`.
