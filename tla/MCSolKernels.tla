---------------------------- MODULE MCSolKernels ----------------------------
EXTENDS PreparedCall

CONSTANTS Mma, Tma, Stages

SomeBlocks == {S \in SUBSET (0 .. NumBlocks - 1) : Cardinality(S) \in 1 .. 2}

MCTiles ==
  {Promise!KMeans(g) : g \in 0 .. NumGroups - 1} \union
  {Promise!VMeans(g) : g \in 0 .. NumGroups - 1} \union
  {Promise!KBlocks(blocks) : blocks \in SomeBlocks} \union
  {Promise!VBlocks(blocks) : blocks \in SomeBlocks}

\* A square call without sinks, by each kind of device.
Plain(device) ==
  [device |-> device, cute |-> TRUE, queries |-> Tokens, keys |-> Tokens,
   threshold |-> "diag", sinkStart |-> None, sinkTokens |-> 0, splits |-> 1, bucket |-> None,
   origin |-> 0, prepared |-> FALSE, bias |-> FALSE, intervals |-> None]

Sm90 == Plain(<<9, 0>>)
Sm100 == Plain(<<10, 3>>)
Sm120 == Plain(<<12, 0>>)

\* More queries than keys, so that a query tile may have no neighbours; a sink
\* over two blocks; the suffix as a sink; two splits; a compile bucket with an
\* empty block; the kernels of devices without CuTe.
MCCalls ==
  {[Sm120 EXCEPT !.queries = 14],
   [Sm120 EXCEPT !.queries = 14, !.sinkStart = 0, !.sinkTokens = 1, !.prepared = TRUE,
                 !.intervals = [i \in 1 .. 7 |-> <<2, 3>>]],
   [Sm90 EXCEPT !.splits = 2],
   [Sm90 EXCEPT !.threshold = "exact", !.sinkStart = 1, !.sinkTokens = 2],
   [Sm100 EXCEPT !.bucket = 4],
   [Sm100 EXCEPT !.threshold = "exact", !.sinkTokens = 1],
   [Sm90 EXCEPT !.cute = FALSE],
   [Plain(<<8, 9>>) EXCEPT !.threshold = "exact", !.sinkStart = 3, !.sinkTokens = 1]}

VARIABLE arch   \* the kernel that runs

\* The thread blocks that are followed: the query tiles with the most freedom.
Followed(c) == {j \in Prepare!Jobs(c) : j.q \in IF c.queries > c.keys THEN {6} ELSE {0, 4}}

JobsOf(a) == UNION {Followed(c) : c \in {x \in Calls : Prepare!Backend(x) = a}}

\* What two splits leave of these blocks, and what four splits may leave: the
\* last one has no group.
MCJobsCombine ==
  {[Prepare!Job(Sm90, 0, 0) EXCEPT !.last = 0, !.partials = p] :
     p \in {<<{0, 1, 2, 3}, {4}>>, <<{0, 1}, {2}, {3, 4}, {}>>}}

S120 == INSTANCE Sm120Kernel WITH Jobs120 <- JobsOf("sm120")
S90 == INSTANCE Sm90Kernel WITH Jobs90 <- JobsOf("sm90")
S100 == INSTANCE Sm100Kernel WITH Jobs100 <- JobsOf("sm100")
Triton == INSTANCE TritonKernel WITH JobsTriton <- JobsOf("triton")
Combine == INSTANCE SplitCombine WITH JobsCombine <- MCJobsCombine

\* A call is made, and one thread block of its kernel followed.
Init ==
  \/ /\ Prepare!Init
     /\ arch = Prepare!Backend(call)
     /\ job \in Followed(call)
     /\ \/ arch = "sm120" /\ S120!Init
        \/ arch = "sm90" /\ S90!Init
        \/ arch = "sm100" /\ S100!Init
        \/ arch = "triton" /\ Triton!Init
  \/ /\ arch = "combine" /\ Combine!Init
     /\ call = None /\ step = "running"
     /\ tail = {} /\ kc = <<>> /\ vc = <<>> /\ stats = Junk /\ bar = <<>> /\ threshold = <<>>

preparing == <<call, step, tail, kc, vc, stats, bar, threshold>>
callVars == <<vars, arch, preparing>>

Prepares == step # "running" /\ Prepare!Next /\ UNCHANGED <<vars, arch>>

Runs(a) == step = "running" /\ arch = a /\ UNCHANGED <<arch, preparing>>

Next ==
  \/ Prepares
  \/ Runs("sm120") /\ S120!Next
  \/ Runs("sm90") /\ S90!Next
  \/ Runs("sm100") /\ S100!Next
  \/ Runs("triton") /\ Triton!Next
  \/ Runs("combine") /\ Combine!Next

Produces ==
  \/ Runs("sm120") /\ S120!Produces
  \/ Runs("sm90") /\ S90!Produces
  \/ Runs("sm100") /\ S100!Produces

Consumes(w) ==
  \/ Runs("sm120") /\ S120!Consumes(w)
  \/ Runs("sm90") /\ S90!Consumes(w)
  \/ Runs("sm100") /\ S100!Consumes(w)
  \/ Runs("triton") /\ Triton!Consumes
  \/ Runs("combine") /\ Combine!Consumes(w)

Synchronises ==
  \/ Runs("sm120") /\ S120!Synchronises
  \/ Runs("sm90") /\ S90!Synchronises
  \/ Runs("sm100") /\ S100!Synchronises
  \/ Runs("combine") /\ Combine!Synchronises

Lands == step = "running" /\ UNCHANGED <<arch, preparing>> /\ (LandQ \/ LandK \/ LandV)

\* The device runs every grid and every warp and completes every copy.
Fairness ==
  /\ WF_callVars(Prepares)
  /\ WF_callVars(Produces)
  /\ \A w \in Warps : WF_callVars(Consumes(w))
  /\ WF_callVars(Synchronises)
  /\ WF_callVars(Runs("sm100") /\ S100!Multiplies)
  /\ WF_callVars(Runs("sm100") /\ S100!Executes)
  /\ WF_callVars(Lands)

\* The scratch uses Q's memory "until the same allocation becomes sO in the
\* epilogue ... without changing any route reduction or synchronization"
\* (sm120/mainloop.py:197): no warp still reads it when the output is written.
ScratchUntilEpilogue == ~raced

Spec == Init /\ [][Next]_callVars /\ Fairness
=============================================================================
