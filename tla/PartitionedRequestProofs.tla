------------------- MODULE PartitionedRequestProofs -------------------
(***************************************************************************)
(* Theorems about PartitionedRequest, for any calls, caches, limits,       *)
(* streams and blocks of device memory: kernels read the metadata of their *)
(* call, summaries are those of the rows, receipts were compared, and      *)
(* intervals stand for the neighbours of a tile's positions.               *)
(***************************************************************************)
EXTENDS PartitionedRequest, SequenceTheorems, FiniteSetTheorems, WellFoundedInduction, TLAPS

-----------------------------------------------------------------------------
(***************************************************************************)
(* The inductive invariant: what the host's state looks like (HostTypes)   *)
(* and what it has established at each point of a call (PathFacts), which  *)
(* groups summaries are of (SummariesCurrent), what remembered checks      *)
(* compared (ChecksRemembered), and why every kernel finds its metadata    *)
(* (TensorsOK).                                                            *)
(***************************************************************************)
CallsInProgress ==
  {CallOn(c, s, kv) : c \in Calls, s \in Streams, kv \in Pairs \union {None}}

\* A prefix that a sparse call accepts, and what checks are remembered by.
SparsePrefix(c) == c.prefix = None \/ c.prefix[1] = c.sink
FlowIdentity(c) == <<c.q, c.kv, c.digest, c.sink, ExactEnd(c), c.wire>>
WeightedIdentities == Nat \X Nat \X {c.digest : c \in Calls} \X {KeyMeasure(c) : c \in Calls}

\* A plan is what a valid map compiles to.
PlanEntries ==
  {[key |-> <<c.wire, c.q, c.kv, c.sink>>, descriptor |-> CompileDescriptor(c.wire)] :
     c \in {d \in Calls : d.wire # None /\ ValidWire(d.wire, d.q, d.kv, d.sink)}}

HostTypes ==
  /\ inference \in BOOLEAN
  /\ evaluation \in 0 .. MaxEvaluations - 1
  /\ pc \in {"idle", "bias", "map", "dense", "sparse", "judge", "complete", "leave"}
  /\ call \in CallsInProgress \union {None}
  /\ call = None <=> pc = "idle"
  /\ plans \in Seq(PlanEntries) /\ Len(plans) <= MaxPlans
  /\ scopes \in Seq(Scopes) /\ scratch \in [Pairs -> [rows : Nat, version : Nat]]
  /\ verified \in [flow : SUBSET {FlowIdentity(c) : c \in Calls}, weighted : Seq(WeightedIdentities), vdn : SUBSET (Nat \X Nat)]
  /\ Len(verified.weighted) <= MaxWeighted
  /\ made.groups \in Nat

\* What the host has established at each point of a call.
PathFacts ==
  /\ pc = "bias" => call.api = "flow"
  /\ pc \in {"map", "dense", "sparse", "judge", "complete"} =>
       (call.api = "flow" => PrefixAccepted(call))
  /\ pc \in {"dense", "complete"} => DenseExecution
  /\ pc = "sparse" => ~DenseExecution
  /\ pc = "complete" => Verified
  /\ pc \in {"idle", "bias"} => held = NoTensor
  /\ pc = "map" => held.mapped = Nothing

\* What a scope knows of its pair: with the version it was made at, the rows
\* are the group's own unless it was overtaken.
ScopeCurrent(scope) ==
  LET kv == scratch[scope.pair]
  IN /\ scope.version <= kv.version
     /\ scope.version = kv.version /\ ~scope.overtaken => scope.group = kv.rows

SummariesCurrent ==
  /\ \A i \in DOMAIN scopes : scopes[i].fused => ScopeCurrent(scopes[i])
  /\ consumed.rows = consumed.summary \/ consumed.overtaken

\* What a remembered identity stands for was compared.
ChecksRemembered ==
  /\ \A i \in DOMAIN verified.weighted :
       <<"weighted", verified.weighted[i][1], verified.weighted[i][4]>> \in compared
  /\ \A id \in verified.vdn : <<"vdn", id[1], id[2]>> \in compared
  /\ \A id \in verified.flow : \E c \in Calls :
       /\ FlowIdentity(c) = id /\ SparsePrefix(c)
       /\ <<"flow", c.q, KeyMeasure(c), c.wire>> \in compared
  /\ published # None => published.route = "dense" \/ published.operands \in compared

-----------------------------------------------------------------------------
\* The content of a tensor of intervals, and what tensors may hold.
Intended(w) == <<"blocks", [t \in QTiles(w) |-> NeighbourBlocks(w, t)]>>
Mappable == {c \in Calls : c.wire # None /\ CompileDescriptor(c.wire) \notin {None, Unavailable} /\ ValidWire(c.wire, c.q, c.kv, c.sink)}
Measures == {KeyMeasure(c) : c \in Calls}
Selections == {Intended(c.wire) : c \in Mappable}
Contents == {Junk} \union Measures \union Selections

\* The entries of the caches.
BiasEntries == [key : {BiasKey(c) : c \in Calls}, block : Blocks, event : Nat, size : Nat]
MappedEntries == [key : {<<c.wire, c.q, c.kv, c.sink>> : c \in Mappable}, block : Blocks, event : Nat, size : Nat]

CachesOK ==
  /\ bias = [entries |-> bias.entries, bytes |-> bias.bytes] /\ bias.entries \in Seq(BiasEntries)
  /\ mapped = [entries |-> mapped.entries, bytes |-> mapped.bytes] /\ mapped.entries \in Seq(MappedEntries)
  /\ CacheOK(bias, MaxBias) /\ CacheOK(mapped, MaxMapped)
  /\ events \in Nat

\* The device: operations, records and the types of its state, here of any
\* queues Q, memory M, completed events F, records B and N events so far.
Writes == [op : {"write"}, block : Blocks, content : Contents, event : Nat]
Waits == [op : {"wait"}, event : Nat]
Reading == [block : Blocks, content : Contents]
Kernels == [op : {"kernel"}, reads : SUBSET Reading]
Passes == [op : {"passed"}, block : Blocks]
Operations == Writes \union Waits \union Kernels \union Passes
Records == [live : BOOLEAN, home : Streams \union {Nothing}, users : SUBSET Streams, waiting : SUBSET Streams]

DeviceTypes(Q, M, F, B, N) ==
  /\ Q \in [Streams -> Seq(Operations)]
  /\ M \in [Blocks -> Contents]
  /\ N \in Nat /\ F \subseteq 0 .. N
  /\ B \in [Blocks -> Records]

IsWrite(o, b) == o.op = "write" /\ o.block = b

\* A stream that used a block is not its home, and a block with users is live.
BlocksFit(B) ==
  \A b \in Blocks :
    /\ B[b].live => B[b].home \in Streams /\ B[b].waiting = {}
    /\ ~B[b].live => B[b].users = {}
    /\ B[b].home \notin B[b].users \union B[b].waiting
    /\ B[b].waiting # {} => B[b].home \in Streams

\* Only its home stream writes to a block, and an event is that of one write.
WritesPending(Q, F, B, N) ==
  \A s \in Streams : \A k \in 1 .. Len(Q[s]) :
    Q[s][k].op = "write" =>
      /\ B[Q[s][k].block].home = s
      /\ Q[s][k].event # 0 =>
           /\ Q[s][k].event \in 1 .. N /\ Q[s][k].event \notin F
           /\ \A t \in Streams : \A j \in 1 .. Len(Q[t]) :
                Q[t][j].op = "write" /\ Q[t][j].event = Q[s][k].event => t = s /\ j = k

\* The allocator's own events are those of blocks it waits for.
PassesPending(Q, B) ==
  \A s \in Streams : \A k \in 1 .. Len(Q[s]) :
    Q[s][k].op = "passed" =>
      /\ ~B[Q[s][k].block].live /\ s \in B[Q[s][k].block].waiting
      /\ \A j \in 1 .. Len(Q[s]) : Q[s][j] = Q[s][k] => j = k

\* On the queue q, whose block b holds v before: after n operations the block
\* holds c (Leaves), it holds c already and goes on to (Settled), or it will
\* when event e is recorded (Coming).
Unwritten(q, m, n, b) == \A j \in m .. n : ~IsWrite(q[j], b)
Leaves(q, n, b, v, c) ==
  \/ v = c /\ Unwritten(q, 1, n, b)
  \/ \E k \in 1 .. n : IsWrite(q[k], b) /\ q[k].content = c /\ Unwritten(q, k + 1, n, b)
Settled(q, b, v, c) == v = c /\ Unwritten(q, 1, Len(q), b)
Coming(q, b, c, e) ==
  \E k \in 1 .. Len(q) : q[k] = Write(b, c, e) /\ Unwritten(q, k + 1, Len(q), b)

\* After n operations stream s finds c in block b: it is the home stream, or
\* one that waits for the home stream's write.
Readable(Q, M, B, N, s, n, b, c) ==
  IF s = B[b].home THEN Leaves(Q[s], n, b, M[b], c)
  ELSE \/ Settled(Q[B[b].home], b, M[b], c)
       \/ \E e \in 1 .. N : Coming(Q[B[b].home], b, c, e) /\ \E j \in 1 .. n : Q[s][j] = WaitEvent(e)

\* Every kernel will find what it was launched for, and the block it reads is
\* not given out before this stream has passed.
KernelsReady(Q, M, B, N) ==
  \A s \in Streams : \A k \in 1 .. Len(Q[s]) :
    Q[s][k].op = "kernel" =>
      \A r \in Q[s][k].reads :
        /\ B[r.block].home \in Streams
        /\ Readable(Q, M, B, N, s, k - 1, r.block, r.content)
        /\ s # B[r.block].home =>
             /\ s \in B[r.block].users \union B[r.block].waiting
             /\ \A j \in 1 .. k : Q[s][j] # Passed(r.block)

DeviceOK(Q, M, F, B, N) ==
  /\ DeviceTypes(Q, M, F, B, N) /\ BlocksFit(B)
  /\ WritesPending(Q, F, B, N) /\ PassesPending(Q, B) /\ KernelsReady(Q, M, B, N)

\* A tensor that a call holds, and one that a cache remembers with its event.
HeldReady(Q, M, B, N, s, b, c) ==
  /\ b \in Blocks /\ B[b].live
  /\ s = B[b].home \/ s \in B[b].users
  /\ Readable(Q, M, B, N, s, Len(Q[s]), b, c)

CachedReady(Q, M, B, N, b, e, c) ==
  /\ b \in Blocks /\ B[b].live
  /\ e \in 1 .. N
  /\ Settled(Q[B[b].home], b, M[b], c) \/ Coming(Q[B[b].home], b, c, e)

MeasureHeld ==
  held.bias # Nothing =>
    /\ pc # "idle"
    /\ HeldReady(queue, mem, block, events, call.stream, held.bias, KeyMeasure(call))
MapHeld ==
  held.mapped # Nothing =>
    /\ pc # "idle" /\ \E c \in Mappable : call.wire = c.wire
    /\ HeldReady(queue, mem, block, events, call.stream, held.mapped, Intended(call.wire))
HeldOK ==
  /\ held \in [bias : Blocks \union {Nothing}, mapped : Blocks \union {Nothing}]
  /\ MeasureHeld /\ MapHeld

MeasureCached(e) == CachedReady(queue, mem, block, events, e.block, e.event, e.key[2])
MapCached(e) == CachedReady(queue, mem, block, events, e.block, e.event, Intended(e.key[1]))
CachedOK ==
  /\ \A i \in DOMAIN bias.entries : MeasureCached(bias.entries[i])
  /\ \A i \in DOMAIN mapped.entries : MapCached(mapped.entries[i])

\* Live blocks are those that a call or a cache refers to, each by one cache.
Owned ==
  /\ BlocksOf(bias) \intersect BlocksOf(mapped) = {}
  /\ held.bias \notin BlocksOf(mapped) \union ({held.mapped} \ {Nothing})
  /\ held.mapped \notin BlocksOf(bias)
  /\ {b \in Blocks : block[b].live} = HeldBlocks \union BlocksOf(bias) \union BlocksOf(mapped)

DeviceReady == DeviceOK(queue, mem, fired, block, events)

\* Every tensor that a call holds or a cache remembers is live, belongs to one
\* cache, and will hold what it was made for when a stream that was told to
\* wait for it reads it; no block is given out that a kernel still has to read
\* (_key_bias and device_descriptor over events and record_stream).
TensorsOK == CachesOK /\ DeviceReady /\ HeldOK /\ CachedOK /\ Owned

-----------------------------------------------------------------------------
(***************************************************************************)
(* Natural numbers, and the sizes that a cache counts.                     *)
(***************************************************************************)

\* The least-number principle.
LEMMA LeastNatural ==
  ASSUME NEW T, T \subseteq Nat, T # {}
  PROVE  \E n \in T : \A m \in T : n <= m
<1> DEFINE R == {ss \in Nat \X Nat : ss[1] < ss[2]}
<1>1. IsWellFoundedOn(R, Nat)
  BY NatLessThanWellFounded DEF OpToRel
<1>2. PICK x \in T : \A y \in T : ~ (<<y, x>> \in R)
  BY <1>1, WFMin
<1>3. \A y \in T : ~ (y < x)
  BY <1>2
<1> QED BY <1>3

\* The least of some natural numbers.
LEMMA MinNat ==
  ASSUME NEW T, T \subseteq Nat, T # {}
  PROVE  Min(T) \in T /\ \A m \in T : Min(T) <= m
BY LeastNatural, Zenon DEF Min

\* Natural numbers up to a bound have a greatest one.
LEMMA GreatestNatural ==
  ASSUME NEW T, NEW N \in Nat, T \subseteq 0 .. N, T # {}
  PROVE  \E n \in T : \A m \in T : m <= n
<1> DEFINE D == {d \in 0 .. N : N - d \in T}
<1>1. D \subseteq Nat
  OBVIOUS
<1>2. D # {}
  <2>1. PICK x \in T : TRUE
    OBVIOUS
  <2>2. N - x \in D
    BY <2>1
  <2> QED BY <2>2
<1> HIDE DEF D
<1>3. PICK d \in D : \A e \in D : d <= e
  BY <1>1, <1>2, LeastNatural
<1> USE DEF D
<1>4. N - d \in T
  BY <1>3
<1>5. ASSUME NEW m \in T PROVE m <= N - d
  <2>1. N - m \in D
    OBVIOUS
  <2>2. d <= N - m
    BY <1>3, <2>1
  <2> QED BY <2>2
<1> QED BY <1>4, <1>5

\* The greatest of some bounded natural numbers.
LEMMA MaxNat ==
  ASSUME NEW T, NEW N \in Nat, T \subseteq 0 .. N, T # {}
  PROVE  Max(T) \in T /\ \A m \in T : m <= Max(T)
<1>1. PICK n \in T : \A m \in T : n >= m
  BY GreatestNatural
<1>2. Max(T) \in T /\ \A m \in T : Max(T) >= m
  BY <1>1, Zenon DEF Max
<1> QED BY <1>2

-----------------------------------------------------------------------------
Sums(t, entries) ==
  /\ t \in [0 .. Len(entries) -> Nat]
  /\ t[0] = 0
  /\ \A i \in 1 .. Len(entries) : t[i] = t[i - 1] + entries[i].size

Sized(entries) ==
  /\ Len(entries) \in Nat /\ DOMAIN entries = 1 .. Len(entries)
  /\ \A i \in 1 .. Len(entries) : entries[i].size \in Nat

\* The running totals exist ...
LEMMA SumsExist ==
  ASSUME NEW entries, Sized(entries)
  PROVE  \E t : Sums(t, entries)
<1> DEFINE L == Len(entries)
           Upto(t, n) == /\ t \in [0 .. n -> Nat] /\ t[0] = 0
                         /\ \A i \in 1 .. n : t[i] = t[i - 1] + entries[i].size
           Bad == {n \in 0 .. L : ~ \E t : Upto(t, n)}
<1>0. L \in Nat /\ \A i \in 1 .. L : entries[i].size \in Nat
  BY DEF Sized
<1>1. SUFFICES Bad = {}
  <2>1. L \in 0 .. L
    BY <1>0
  <2>2. \E t : Upto(t, L)
    BY <1>1, <2>1
  <2> QED BY <2>2 DEF Sums
<1>2. SUFFICES ASSUME Bad # {} PROVE FALSE
  OBVIOUS
<1>3. PICK n \in Bad : \A m \in Bad : n <= m
  <2>1. Bad \subseteq Nat
    BY <1>0
  <2> QED BY <1>2, <2>1, LeastNatural
<1>4. n # 0
  <2>1. Upto([i \in 0 .. 0 |-> 0], 0)
    OBVIOUS
  <2> QED BY <2>1, <1>3
<1>5. n \in 1 .. L /\ n - 1 \in 0 .. L
  BY <1>0, <1>3, <1>4
<1>6. n - 1 \notin Bad
  <2>1. \A m \in Bad : n <= m
    BY <1>3
  <2> HIDE DEF Bad
  <2> QED BY <1>5, <2>1
<1>7. PICK t : Upto(t, n - 1)
  BY <1>5, <1>6
<1> DEFINE u == [i \in 0 .. n |-> IF i = n THEN t[n - 1] + entries[n].size ELSE t[i]]
<1>8. t[n - 1] \in Nat /\ entries[n].size \in Nat
  BY <1>0, <1>5, <1>7
<1>9. u \in [0 .. n -> Nat] /\ u[0] = 0
  BY <1>5, <1>7, <1>8
<1>10. ASSUME NEW i \in 1 .. n PROVE u[i] = u[i - 1] + entries[i].size
  BY <1>5, <1>7
<1>11. Upto(u, n)
  BY <1>9, <1>10
<1> QED BY <1>3, <1>11

\* ... and are what the recursive function computes.
LEMMA SizesIs ==
  ASSUME NEW entries, Sized(entries), NEW t, Sums(t, entries)
  PROVE  Sizes(entries) = t[Len(entries)]
<1> DEFINE L == Len(entries)
           Eq(f) == f = [n \in 0 .. L |-> IF n = 0 THEN 0 ELSE f[n - 1] + entries[n].size]
           g == CHOOSE f : Eq(f)
<1>0. L \in Nat
  BY DEF Sized
<1>1. Eq(t)
  BY <1>0 DEF Sums
<1>2. Eq(g)
  BY <1>1, Zenon
<1>3. Sizes(entries) = g[L]
  BY Zenon DEF Sizes
<1> HIDE DEF g
<1> DEFINE Bad == {n \in 0 .. L : g[n] # t[n]}
<1>4. SUFFICES ASSUME Bad # {} PROVE FALSE
  BY <1>0, <1>3
<1>5. PICK n \in Bad : \A m \in Bad : n <= m
  <2>1. Bad \subseteq Nat
    BY <1>0
  <2> QED BY <1>4, <2>1, LeastNatural
<1>6. n # 0
  BY <1>0, <1>1, <1>2, <1>5
<1>7. n - 1 \in 0 .. L /\ n - 1 \notin Bad
  BY <1>0, <1>5, <1>6
<1>8. g[n] = g[n - 1] + entries[n].size /\ t[n] = t[n - 1] + entries[n].size
  BY <1>0, <1>1, <1>2, <1>5, <1>6
<1> QED BY <1>5, <1>7, <1>8

\* The total of natural sizes is a natural number.
LEMMA SizesNat ==
  ASSUME NEW entries, Sized(entries)
  PROVE  Sizes(entries) \in Nat
<1>1. PICK t : Sums(t, entries)
  BY SumsExist
<1>2. Len(entries) \in Nat
  BY DEF Sized
<1> QED BY <1>1, <1>2, SizesIs DEF Sums

\* Every partial sum is one.
LEMMA SumsBounds ==
  ASSUME NEW entries, Sized(entries), NEW t, Sums(t, entries)
  PROVE  \A i \in 0 .. Len(entries) : t[i] \in Nat
BY DEF Sums

\* No entries have no bytes.
LEMMA SizesEmpty == Sizes(<<>>) = 0
<1> DEFINE t == [n \in 0 .. 0 |-> 0]
<1>1. Sized(<<>>)
  BY DEF Sized
<1>2. Sums(t, <<>>)
  BY DEF Sums
<1> HIDE DEF t
<1>3. Sizes(<<>>) = t[Len(<<>>)]
  BY <1>1, <1>2, SizesIs
<1> QED BY <1>3 DEF t

\* One entry has its own.
LEMMA SizesSingle ==
  ASSUME NEW e, e.size \in Nat
  PROVE  Sized(<<e>>) /\ Sizes(<<e>>) = e.size
<1> DEFINE t == [n \in 0 .. 1 |-> IF n = 0 THEN 0 ELSE e.size]
<1>1. Sized(<<e>>)
  BY DEF Sized
<1>2. Sums(t, <<e>>)
  BY DEF Sums
<1> HIDE DEF t
<1>3. Sizes(<<e>>) = t[Len(<<e>>)]
  BY <1>1, <1>2, SizesIs
<1> QED BY <1>1, <1>3 DEF t

\* Entries of natural sizes can be summed.
LEMMA SizedSeq ==
  ASSUME NEW S, \A e \in S : e.size \in Nat, NEW s \in Seq(S)
  PROVE  Sized(s)
BY ElementOfSeq, LenProperties DEF Sized

\* The sizes of two sequences of entries add up.
LEMMA SizesConcat ==
  ASSUME NEW S, \A e \in S : e.size \in Nat, NEW a \in Seq(S), NEW b \in Seq(S)
  PROVE  Sizes(a \o b) = Sizes(a) + Sizes(b)
<1> DEFINE A == Len(a)
           B == Len(b)
<1>0. A \in Nat /\ B \in Nat /\ Sized(a) /\ Sized(b)
  BY SizedSeq, LenProperties
<1>1. a \o b \in Seq(S) /\ Len(a \o b) = A + B
      /\ \A i \in 1 .. A + B : (a \o b)[i] = IF i <= A THEN a[i] ELSE b[i - A]
  BY ConcatProperties
<1>2. Sized(a \o b)
  BY <1>1, SizedSeq
<1>3. PICK t : Sums(t, a)
  BY <1>0, SumsExist
<1>4. PICK u : Sums(u, b)
  BY <1>0, SumsExist
<1> DEFINE v == [i \in 0 .. A + B |-> IF i <= A THEN t[i] ELSE t[A] + u[i - A]]
<1>5. Sums(v, a \o b)
  <2>1. t[A] \in Nat /\ \A i \in 0 .. B : u[i] \in Nat
    <3>1. A \in 0 .. A
      BY <1>0
    <3>2. t[A] \in Nat
      BY <1>3, <3>1 DEF Sums
    <3>3. \A i \in 0 .. B : u[i] \in Nat
      BY <1>4 DEF Sums
    <3> QED BY <3>2, <3>3
  <2>2. v \in [0 .. A + B -> Nat]
    <3> SUFFICES ASSUME NEW i \in 0 .. A + B PROVE v[i] \in Nat
      OBVIOUS
    <3>1. CASE i <= A
      <4>1. i \in 0 .. A /\ v[i] = t[i]
        BY <1>0, <3>1
      <4> QED BY <1>3, <4>1 DEF Sums
    <3>2. CASE i > A
      <4>1. i - A \in 0 .. B
        BY <1>0, <3>2
      <4>2. u[i - A] \in Nat /\ v[i] = t[A] + u[i - A]
        BY <1>0, <2>1, <3>2, <4>1
      <4> QED BY <2>1, <4>2
    <3>3. i <= A \/ i > A
      BY <1>0
    <3> HIDE DEF v
    <3> QED BY <3>1, <3>2, <3>3
  <2>3. v[0] = 0
    BY <1>0, <1>3 DEF Sums
  <2>4. ASSUME NEW i \in 1 .. A + B PROVE v[i] = v[i - 1] + (a \o b)[i].size
    <3>1. CASE i <= A
      BY <1>0, <1>1, <1>3, <3>1 DEF Sums
    <3>2. CASE i > A
      <4>1. i - A \in 1 .. B
        BY <1>0, <3>2
      <4>2. u[i - A] = u[i - A - 1] + b[i - A].size
        BY <1>4, <4>1 DEF Sums
      <4>3. (a \o b)[i] = b[i - A]
        BY <1>0, <1>1, <3>2
      <4>4. CASE i - 1 = A
        <5>1. u[i - A - 1] = 0
          BY <1>0, <1>4, <4>4 DEF Sums
        <5>2. v[i - 1] = t[A]
          BY <1>0, <4>4
        <5>3. v[i] = t[A] + u[i - A]
          BY <1>0, <3>2
        <5>4. i - A = 1 /\ u[0] = 0 /\ u[1] \in Nat /\ b[1].size \in Nat
          BY <1>0, <1>4, <2>1, <4>1, <4>4 DEF Sums, Sized
        <5> QED BY <2>1, <4>2, <4>3, <5>1, <5>2, <5>3, <5>4
      <4>5. CASE i - 1 > A
        <5>0. i - 1 - A = i - A - 1 /\ i - A - 1 \in 0 .. B /\ i - A \in 0 .. B
          BY <1>0, <4>1
        <5>1. v[i - 1] = t[A] + u[i - 1 - A]
          BY <1>0, <4>5
        <5>2. v[i] = t[A] + u[i - A]
          BY <1>0, <3>2
        <5>3. v[i - 1] = t[A] + u[i - A - 1] /\ u[i - A - 1] \in Nat /\ u[i - A] \in Nat
          <6> HIDE DEF v
          <6> QED BY <2>1, <5>0, <5>1
        <5>4. b[i - A].size \in Nat
          BY <1>0, <4>1 DEF Sized
        <5> HIDE DEF v
        <5> QED BY <2>1, <4>2, <4>3, <5>2, <5>3, <5>4
      <4>6. i - 1 = A \/ i - 1 > A
        BY <1>0, <3>2
      <4> HIDE DEF v
      <4> QED BY <4>4, <4>5, <4>6
    <3>3. i <= A \/ i > A
      BY <1>0
    <3> HIDE DEF v
    <3> QED BY <3>1, <3>2, <3>3
  <2> HIDE DEF v
  <2> QED BY <1>1, <2>2, <2>3, <2>4 DEF Sums
<1>6. Sizes(a \o b) = v[A + B] /\ Sizes(a) = t[A] /\ Sizes(b) = u[B]
  <2> HIDE DEF v
  <2> QED BY <1>0, <1>1, <1>2, <1>3, <1>4, <1>5, SizesIs
<1>7. CASE B = 0
  BY <1>0, <1>3, <1>4, <1>6, <1>7 DEF Sums
<1>8. CASE B > 0
  <2>1. v[A + B] = t[A] + u[A + B - A]
    BY <1>0, <1>8
  <2>2. A + B - A = B
    BY <1>0
  <2> QED BY <1>6, <2>1, <2>2
<1> QED BY <1>0, <1>7, <1>8

-----------------------------------------------------------------------------
(***************************************************************************)
(* Sequences, and what the caches do to them.                              *)
(***************************************************************************)

\* A part of a sequence.
LEMMA Part ==
  ASSUME NEW S, NEW s \in Seq(S), NEW m \in Nat \ {0}, NEW n \in 0 .. Len(s)
  PROVE  /\ SubSeq(s, m, n) \in Seq(S)
         /\ Len(SubSeq(s, m, n)) = IF m <= n THEN n - m + 1 ELSE 0
         /\ \A i \in 1 .. n - m + 1 : SubSeq(s, m, n)[i] = s[m + i - 1]
<1>1. Len(s) \in Nat /\ \A k \in 1 .. Len(s) : s[k] \in S
  BY LenProperties, ElementOfSeq
<1>2. m \in Int /\ n \in Int /\ \A k \in m .. n : s[k] \in S
  BY <1>1
<1> QED BY <1>2, SubSeqProperties

\* A sequence without its i-th element.
LEMMA Removal ==
  ASSUME NEW S, NEW s \in Seq(S), NEW i \in 1 .. Len(s)
  PROVE  /\ RemoveAt(s, i) \in Seq(S) /\ Len(RemoveAt(s, i)) = Len(s) - 1
         /\ \A k \in 1 .. Len(s) - 1 :
              RemoveAt(s, i)[k] = IF k < i THEN s[k] ELSE s[k + 1]
<1> DEFINE a == SubSeq(s, 1, i - 1)
           b == SubSeq(s, i + 1, Len(s))
<1>0. Len(s) \in Nat /\ \A k \in 1 .. Len(s) : s[k] \in S
  BY LenProperties, ElementOfSeq
<1>1. a \in Seq(S) /\ Len(a) = i - 1 /\ \A k \in 1 .. i - 1 : a[k] = s[k]
  <2>1. 1 \in Int /\ i - 1 \in Int /\ \A k \in 1 .. i - 1 : s[k] \in S
    BY <1>0
  <2>2. /\ a \in Seq(S) /\ Len(a) = (IF 1 <= i - 1 THEN i - 1 - 1 + 1 ELSE 0)
        /\ \A k \in 1 .. i - 1 - 1 + 1 : a[k] = s[1 + k - 1]
    BY <2>1, SubSeqProperties
  <2> HIDE DEF a
  <2> QED BY <1>0, <2>2
<1>2. b \in Seq(S) /\ Len(b) = Len(s) - i /\ \A k \in 1 .. Len(s) - i : b[k] = s[i + k]
  <2>1. i + 1 \in Int /\ Len(s) \in Int /\ \A k \in i + 1 .. Len(s) : s[k] \in S
    BY <1>0
  <2>2. /\ b \in Seq(S) /\ Len(b) = (IF i + 1 <= Len(s) THEN Len(s) - (i + 1) + 1 ELSE 0)
        /\ \A k \in 1 .. Len(s) - (i + 1) + 1 : b[k] = s[i + 1 + k - 1]
    BY <2>1, SubSeqProperties
  <2> HIDE DEF b
  <2>3. \A k \in 1 .. Len(s) - i : k \in 1 .. Len(s) - (i + 1) + 1 /\ i + 1 + k - 1 = i + k
    BY <1>0
  <2> QED BY <1>0, <2>2, <2>3
<1>3. RemoveAt(s, i) = a \o b
  BY DEF RemoveAt
<1> HIDE DEF a, b
<1>4. /\ a \o b \in Seq(S) /\ Len(a \o b) = Len(a) + Len(b)
      /\ \A k \in 1 .. Len(a) + Len(b) : (a \o b)[k] = IF k <= Len(a) THEN a[k] ELSE b[k - Len(a)]
  BY <1>1, <1>2, ConcatProperties
<1>5. ASSUME NEW k \in 1 .. Len(s) - 1
      PROVE (a \o b)[k] = IF k < i THEN s[k] ELSE s[k + 1]
  <2>1. CASE k < i
    BY <1>0, <1>1, <1>2, <1>4, <2>1
  <2>2. CASE ~(k < i)
    <3>1. k - (i - 1) \in 1 .. Len(s) - i /\ i + (k - (i - 1)) = k + 1 /\ ~(k <= i - 1)
      BY <1>0, <2>2
    <3>2. (a \o b)[k] = b[k - (i - 1)]
      BY <1>0, <1>1, <1>2, <1>4, <3>1
    <3> QED BY <1>2, <2>2, <3>1, <3>2
  <2> QED BY <2>1, <2>2
<1> QED BY <1>0, <1>1, <1>2, <1>3, <1>4, <1>5

\* Without removes at most one element.
LEMMA WithoutSeq ==
  ASSUME NEW S, NEW s \in Seq(S), NEW places, places \subseteq DOMAIN s
  PROVE  /\ Without(s, places) \in Seq(S)
         /\ Len(Without(s, places)) = IF places = {} THEN Len(s) ELSE Len(s) - 1
<1>0. Len(s) \in Nat /\ DOMAIN s = 1 .. Len(s)
  BY LenProperties
<1>1. CASE places = {}
  BY <1>1 DEF Without
<1>2. CASE places # {}
  <2> DEFINE i == CHOOSE i \in places : TRUE
  <2>1. i \in places
    BY <1>2, Zenon
  <2>2. Without(s, places) = RemoveAt(s, i)
    BY <1>2 DEF Without
  <2> HIDE DEF i
  <2>3. i \in 1 .. Len(s)
    BY <1>0, <2>1
  <2> QED BY <1>2, <2>2, <2>3, Removal
<1> QED BY <1>1, <1>2

\* Moving an entry to the end permutes the entries.
Moved(p, L, i) ==
  p = [k \in 1 .. L |-> IF k < i THEN k ELSE IF k < L THEN k + 1 ELSE i]

\* Moving an element to the end is a permutation.
LEMMA MovedOnce ==
  ASSUME NEW L \in Nat, NEW i \in 1 .. L, NEW p, Moved(p, L, i)
  PROVE  /\ p \in [1 .. L -> 1 .. L]
         /\ \A j, k \in 1 .. L : j # k => p[j] # p[k]
         /\ \A k \in 1 .. L : \E j \in 1 .. L : p[j] = k
<1>1. p \in [1 .. L -> 1 .. L] /\ \A j, k \in 1 .. L : j # k => p[j] # p[k]
  BY DEF Moved
<1>2. ASSUME NEW k \in 1 .. L PROVE \E j \in 1 .. L : p[j] = k
  <2>1. CASE k < i
    BY <2>1 DEF Moved
  <2>2. CASE k = i
    <3>1. L \in 1 .. L /\ p[L] = k
      BY <2>2 DEF Moved
    <3> QED BY <3>1
  <2>3. CASE k > i
    <3>1. k - 1 \in 1 .. L /\ p[k - 1] = k
      BY <2>3 DEF Moved
    <3> QED BY <3>1
  <2> QED BY <2>1, <2>2, <2>3
<1> QED BY <1>1, <1>2

\* The places of a key hold it.
LEMMA AtSubset ==
  ASSUME NEW s, NEW key
  PROVE  /\ At(s, key) \subseteq DOMAIN s
         /\ \A i \in At(s, key) : s[i].key = key
BY DEF At

\* A hit moves its entry to the end: entries and bytes stay.
LEMMA TouchedEntries ==
  ASSUME NEW S, \A e \in S : e.size \in Nat, NEW c, c = [entries |-> c.entries, bytes |-> c.bytes],
         c.entries \in Seq(S), NEW key, Hit(c, key)
  PROVE  /\ EntryOf(c, key) \in S /\ EntryOf(c, key).key = key
         /\ \E i \in 1 .. Len(c.entries) : EntryOf(c, key) = c.entries[i]
         /\ Touched(c, key) = [entries |-> Touched(c, key).entries, bytes |-> c.bytes]
         /\ Touched(c, key).entries \in Seq(S)
         /\ Len(Touched(c, key).entries) = Len(c.entries)
         /\ Sizes(Touched(c, key).entries) = Sizes(c.entries)
         /\ \E i \in 1 .. Len(c.entries) : \E p :
              /\ Moved(p, Len(c.entries), i)
              /\ \A k \in 1 .. Len(c.entries) : Touched(c, key).entries[k] = c.entries[p[k]]
<1> DEFINE s == c.entries
           L == Len(s)
           i == CHOOSE i \in At(s, key) : TRUE
           r == RemoveAt(s, i)
           t == Touched(c, key).entries
<1>0. L \in Nat /\ DOMAIN s = 1 .. L /\ \A k \in 1 .. L : s[k] \in S
  BY LenProperties, ElementOfSeq
<1>1. i \in At(s, key)
  BY Zenon DEF Hit
<1>2. EntryOf(c, key) = s[i]
  BY DEF EntryOf
<1>3. Touched(c, key) = [entries |-> Append(r, s[i]), bytes |-> c.bytes]
  <2>1. Without(s, At(s, key)) = r
    BY DEF Hit, Without
  <2> HIDE DEF r, i
  <2>2. Touched(c, key) = [c EXCEPT !.entries = Append(r, s[i])]
    BY <1>2, <2>1 DEF Touched
  <2> QED BY <2>2
<1> HIDE DEF i
<1>4. i \in 1 .. L /\ s[i] \in S /\ s[i].key = key
  BY <1>0, <1>1, AtSubset
<1>5. /\ r \in Seq(S) /\ Len(r) = L - 1
      /\ \A k \in 1 .. L - 1 : r[k] = IF k < i THEN s[k] ELSE s[k + 1]
  BY <1>4, Removal
<1> HIDE DEF r
<1>6. t = Append(r, s[i])
  BY <1>3
<1>7. /\ t \in Seq(S) /\ Len(t) = L
      /\ \A k \in 1 .. L - 1 : t[k] = r[k]
      /\ t[L] = s[i]
  <2> HIDE DEF t
  <2> QED BY <1>0, <1>4, <1>5, <1>6, AppendProperties
<1>8. Sizes(t) = Sizes(s)
  <2> DEFINE a == SubSeq(s, 1, i - 1)
             b == SubSeq(s, i + 1, L)
  <2>1. a \in Seq(S) /\ b \in Seq(S)
    <3>1. 1 \in Nat \ {0} /\ i - 1 \in 0 .. L /\ i + 1 \in Nat \ {0} /\ L \in 0 .. L
      BY <1>0, <1>4
    <3> QED BY <3>1, Part
  <2>2. r = a \o b
    BY DEF r, RemoveAt
  <2>3. <<s[i]>> \in Seq(S) /\ Sizes(<<s[i]>>) = s[i].size
    <3>1. s[i].size \in Nat
      BY <1>4
    <3>2. <<s[i]>> \in Seq(S)
      BY <1>4
    <3> QED BY <3>1, <3>2, SizesSingle
  <2>4. t = r \o <<s[i]>>
    BY <1>4, <1>5, <1>6, AppendIsConcat
  <2>5. Sizes(t) = Sizes(a) + Sizes(b) + s[i].size
    <3>1. Sizes(t) = Sizes(r) + Sizes(<<s[i]>>)
      BY <1>5, <2>3, <2>4, SizesConcat
    <3>2. Sizes(r) = Sizes(a) + Sizes(b)
      BY <2>1, <2>2, SizesConcat
    <3> QED BY <2>3, <3>1, <3>2
  <2>6. SubSeq(s, 1, i) = a \o <<s[i]>>
    <3>1. i \in 1 .. L /\ i \in i .. L /\ 1 \in 1 .. L /\ i \in 1 .. L
      BY <1>0, <1>4
    <3> HIDE DEF L
    <3>2. SubSeq(s, 1, i) = SubSeq(s, 1, i - 1) \o <<s[i]>>
      BY <3>1, SubSeqRecursiveSecond DEF L
    <3> QED BY <3>2
  <2>7. s = SubSeq(s, 1, i) \o b
    <3>1. SubSeq(s, 1, i) \o SubSeq(s, i + 1, L) = SubSeq(s, 1, L)
      <4>1. 1 \in 1 .. L + 1 /\ i \in 1 - 1 .. L /\ L \in i .. L
        BY <1>0, <1>4
      <4> QED BY <4>1, ConcatAdjacentSubSeq
    <3>2. SubSeq(s, 1, L) = s
      BY SubSeqFull
    <3> QED BY <3>1, <3>2
  <2>8. Sizes(s) = Sizes(a) + s[i].size + Sizes(b)
    <3>1. a \o <<s[i]>> \in Seq(S)
      BY <2>1, <2>3, ConcatProperties
    <3>2. Sizes((a \o <<s[i]>>) \o b) = Sizes(a \o <<s[i]>>) + Sizes(b)
      BY <2>1, <3>1, SizesConcat
    <3>3. Sizes(a \o <<s[i]>>) = Sizes(a) + Sizes(<<s[i]>>)
      BY <2>1, <2>3, SizesConcat
    <3> QED BY <2>3, <2>6, <2>7, <3>2, <3>3
  <2>9. Sizes(a) \in Nat /\ Sizes(b) \in Nat /\ s[i].size \in Nat
    BY <1>4, <2>1, SizedSeq, SizesNat
  <2> HIDE DEF a, b, t
  <2> QED BY <2>5, <2>8, <2>9
<1>9. \E p : Moved(p, L, i) /\ \A k \in 1 .. L : t[k] = s[p[k]]
  <2> DEFINE p == [k \in 1 .. L |-> IF k < i THEN k ELSE IF k < L THEN k + 1 ELSE i]
  <2>1. Moved(p, L, i)
    BY DEF Moved
  <2>2. ASSUME NEW k \in 1 .. L PROVE t[k] = s[p[k]]
    <3> HIDE DEF t
    <3>1. CASE k = L
      BY <1>0, <1>4, <1>7, <3>1
    <3>2. CASE k < L
      <4>1. k \in 1 .. L - 1 /\ p[k] = IF k < i THEN k ELSE k + 1
        BY <1>0, <3>2
      <4> HIDE DEF p
      <4>2. t[k] = r[k] /\ r[k] = IF k < i THEN s[k] ELSE s[k + 1]
        BY <1>5, <1>7, <4>1
      <4> QED BY <4>1, <4>2
    <3> QED BY <1>0, <3>1, <3>2
  <2> HIDE DEF p
  <2> QED BY <2>1, <2>2
<1>10. Touched(c, key) = [entries |-> t, bytes |-> c.bytes]
  BY <1>3, <1>6
<1> HIDE DEF t
<1>11. EntryOf(c, key) \in S /\ EntryOf(c, key).key = key /\ \E k \in 1 .. L : EntryOf(c, key) = s[k]
  BY <1>2, <1>4
<1>12. \E k \in 1 .. L : \E p : Moved(p, L, k) /\ \A j \in 1 .. L : t[j] = s[p[j]]
  BY <1>4, <1>9
<1> QED BY <1>7, <1>8, <1>10, <1>11, <1>12 DEF t

-----------------------------------------------------------------------------
\* Eviction keeps the newest entries that fit, and the bytes of those.
LEMMA TrimmedEntriesFit ==
  ASSUME NEW S, \A e \in S : e.size \in Nat, NEW s \in Seq(S),
         NEW limit \in [entries : Nat, bytes : Nat]
  PROVE  LET t == Trimmed([entries |-> s, bytes |-> Sizes(s)], limit)
         IN  \E n \in 0 .. Len(s) :
               /\ t = [entries |-> SubSeq(s, n + 1, Len(s)), bytes |-> Sizes(SubSeq(s, n + 1, Len(s)))]
               /\ Len(t.entries) <= limit.entries /\ t.bytes <= limit.bytes
<1> DEFINE L == Len(s)
           c == [entries |-> s, bytes |-> Sizes(s)]
           without(n) == [entries |-> SubSeq(s, n + 1, L), bytes |-> Sizes(s) - Sizes(SubSeq(s, 1, n))]
           fits(n) == Len(without(n).entries) <= limit.entries /\ without(n).bytes <= limit.bytes
           T == {n \in 0 .. L : fits(n)}
<1>0. L \in Nat /\ \A k \in 1 .. L : s[k] \in S
  BY LenProperties, ElementOfSeq
<1>1. ASSUME NEW n \in 0 .. L
      PROVE Sizes(s) - Sizes(SubSeq(s, 1, n)) = Sizes(SubSeq(s, n + 1, L))
  <2> DEFINE a == SubSeq(s, 1, n)
             b == SubSeq(s, n + 1, L)
  <2>1. a \in Seq(S) /\ b \in Seq(S)
    <3>1. 1 \in Nat \ {0} /\ n + 1 \in Nat \ {0} /\ L \in 0 .. L
      BY <1>0
    <3> QED BY <3>1, Part
  <2>2. a \o b = s
    <3>1. a \o b = SubSeq(s, 1, L)
      <4>1. 1 \in 1 .. L + 1 /\ n \in 1 - 1 .. L /\ L \in n .. L
        BY <1>0
      <4> QED BY <4>1, ConcatAdjacentSubSeq
    <3> QED BY <3>1, SubSeqFull
  <2>3. Sizes(s) = Sizes(a) + Sizes(b)
    BY <2>1, <2>2, SizesConcat
  <2>4. Sizes(a) \in Nat /\ Sizes(b) \in Nat
    BY <2>1, SizedSeq, SizesNat
  <2> HIDE DEF a, b
  <2>5. Sizes(s) - Sizes(a) = Sizes(b)
    BY <2>3, <2>4
  <2> QED BY <2>5 DEF a, b
<1>2. L \in T
  <2>1. SubSeq(s, L + 1, L) = <<>>
    BY <1>0, SubSeqEmpty
  <2>2. without(L) = [entries |-> <<>>, bytes |-> 0]
    <3>1. L \in 0 .. L
      BY <1>0
    <3>2. Sizes(s) - Sizes(SubSeq(s, 1, L)) = Sizes(SubSeq(s, L + 1, L))
      BY <1>1, <3>1
    <3> QED BY <2>1, <3>2, SizesEmpty
  <2> HIDE DEF without
  <2>3. fits(L)
    BY <2>2
  <2> QED BY <1>0, <2>3
<1>3. Min(T) \in T
  <2>1. T \subseteq Nat
    BY <1>0
  <2> HIDE DEF T
  <2> QED BY <1>2, <2>1, MinNat
<1>4. Trimmed(c, limit) = without(Min(T))
  BY DEF Trimmed
<1> DEFINE n == Min(T)
<1>5. n \in 0 .. L /\ fits(n)
  BY <1>3
<1>6. Sizes(s) - Sizes(SubSeq(s, 1, n)) = Sizes(SubSeq(s, n + 1, L))
  <2> HIDE DEF n
  <2> QED BY <1>1, <1>5
<1>7. Trimmed(c, limit) = [entries |-> SubSeq(s, n + 1, L), bytes |-> Sizes(SubSeq(s, n + 1, L))]
  BY <1>4, <1>6
<1>8. Len(Trimmed(c, limit).entries) <= limit.entries /\ Trimmed(c, limit).bytes <= limit.bytes
  <2> HIDE DEF n
  <2> QED BY <1>5, <1>6, <1>7
<1> HIDE DEF n
<1> QED BY <1>5, <1>7, <1>8

-----------------------------------------------------------------------------
(***************************************************************************)
(* The host: its calls, plans and checks.                                  *)
(***************************************************************************)

\* A call in progress has the arguments of its call.
LEMMA CallFields ==
  ASSUME NEW c \in Calls, NEW s, NEW kv
  PROVE  LET d == CallOn(c, s, kv)
         IN  /\ d.kv = c.kv /\ d.q = c.q /\ d.sink = c.sink /\ d.wire = c.wire
             /\ d.forced = c.forced /\ d.prefix = c.prefix /\ d.measure = c.measure
             /\ d.local = c.local /\ d.api = c.api /\ d.digest = c.digest
             /\ d.stream = s /\ d.pair = kv
<1>1. c \in Arguments
  BY CallsAssumption
<1>2. DOMAIN c = {"kv", "q", "sink", "wire", "forced", "prefix", "measure", "local", "api", "digest"}
  BY <1>1 DEF Arguments
<1> QED BY <1>2 DEF CallOn, Arguments

\* A call in progress is a call of the model on a stream.
LEMMA CallOf ==
  ASSUME NEW d \in CallsInProgress
  PROVE  /\ d.stream \in Streams /\ d.pair \in Pairs \union {None} /\ d # None
         /\ \E c \in Calls :
              /\ d.kv = c.kv /\ d.q = c.q /\ d.sink = c.sink /\ d.wire = c.wire
              /\ d.prefix = c.prefix /\ d.measure = c.measure
              /\ d.api = c.api /\ d.digest = c.digest
              /\ KeyMeasure(d) = KeyMeasure(c) /\ BiasKey(d) = BiasKey(c)
              /\ ExactEnd(d) = ExactEnd(c) /\ FlowIdentity(d) = FlowIdentity(c)
<1>1. PICK c \in Calls, s \in Streams, kv \in Pairs \union {None} : d = CallOn(c, s, kv)
  BY DEF CallsInProgress
<1>2. d # None
  BY <1>1, NoneAssumption
<1>3. /\ d.kv = c.kv /\ d.q = c.q /\ d.sink = c.sink /\ d.wire = c.wire
      /\ d.prefix = c.prefix /\ d.measure = c.measure
      /\ d.api = c.api /\ d.digest = c.digest
      /\ d.stream = s /\ d.pair = kv
  BY <1>1, CallFields
<1>4. KeyMeasure(d) = KeyMeasure(c) /\ BiasKey(d) = BiasKey(c) /\ ExactEnd(d) = ExactEnd(c)
  BY <1>3 DEF KeyMeasure, BiasKey, ExactEnd
<1>5. FlowIdentity(d) = FlowIdentity(c)
  BY <1>3, <1>4 DEF FlowIdentity
<1> QED BY <1>2, <1>3, <1>4, <1>5

\* The types of a call's arguments.
LEMMA CallTypes ==
  ASSUME NEW d \in CallsInProgress
  PROVE  /\ d.kv \in Nat /\ d.q \in Nat /\ d.sink \in Nat /\ d.api \in {"flow", "vdn"}
         /\ d.wire = None \/ d.wire \in Wires
         /\ d.prefix = None \/ d.prefix \in Nat \X Nat
         /\ d.measure \in Int /\ d.digest \in STRING
<1>1. PICK c \in Calls : /\ d.kv = c.kv /\ d.q = c.q /\ d.sink = c.sink /\ d.wire = c.wire
              /\ d.prefix = c.prefix /\ d.measure = c.measure
              /\ d.api = c.api /\ d.digest = c.digest
  BY CallOf
<1>2. c \in Arguments
  BY CallsAssumption
<1> QED BY <1>1, <1>2 DEF Arguments

\* Which check a call is under.
LEMMA PathIs ==
  ASSUME NEW d \in CallsInProgress, call = d
  PROVE  /\ Path \in {"vdn", "weighted", "flow"}
         /\ Path = "vdn" <=> call.api = "vdn"
         /\ Path = "weighted" <=> DenseExecution
         /\ Path = "flow" <=> call.api = "flow" /\ ~DenseExecution
BY CallTypes DEF Path, DenseExecution

-----------------------------------------------------------------------------
\* The plan a call uses is the compiled form of its valid wire map.
LEMMA DescriptorIs ==
  ASSUME HostTypes, pc # "idle"
  PROVE  /\ call.wire = None => Descriptor = None
         /\ call.wire # None /\ ~Usable => Descriptor = Unavailable
         /\ call.wire # None /\ Usable =>
              Descriptor = CompileDescriptor(call.wire) /\ ValidWire(call.wire, call.q, call.kv, call.sink)
<1>1. ASSUME call.wire # None, Planned # {}
      PROVE  Descriptor = CompileDescriptor(call.wire) /\ ValidWire(call.wire, call.q, call.kv, call.sink)
  <2> DEFINE i == CHOOSE i \in Planned : TRUE
  <2>1. i \in Planned
    BY <1>1, Zenon
  <2>2. Descriptor = plans[i].descriptor
    BY <1>1 DEF Descriptor
  <2> HIDE DEF i
  <2>3. i \in DOMAIN plans /\ plans[i].key = PlanKey
    BY <2>1 DEF Planned
  <2>4. plans[i] \in PlanEntries
    BY <2>3, LenProperties, ElementOfSeq DEF HostTypes
  <2>5. PICK c \in {d \in Calls : d.wire # None /\ ValidWire(d.wire, d.q, d.kv, d.sink)} :
           plans[i] = [key |-> <<c.wire, c.q, c.kv, c.sink>>, descriptor |-> CompileDescriptor(c.wire)]
    BY <2>4 DEF PlanEntries
  <2>6. c.wire = call.wire /\ c.q = call.q /\ c.kv = call.kv /\ c.sink = call.sink
    BY <2>3, <2>5 DEF PlanKey
  <2> QED BY <2>2, <2>5, <2>6
<1>2. ASSUME call.wire # None, Planned = {}, Usable
      PROVE  Descriptor = CompileDescriptor(call.wire) /\ ValidWire(call.wire, call.q, call.kv, call.sink)
  BY <1>2 DEF Descriptor, Usable
<1>3. call.wire = None => Descriptor = None
  BY DEF Descriptor
<1>4. call.wire # None /\ ~Usable => Descriptor = Unavailable
  BY DEF Descriptor, Usable
<1> QED BY <1>1, <1>2, <1>3, <1>4

\* The cache of plans holds compiled maps, within its limit.
LEMMA PlansRemembered ==
  ASSUME HostTypes, pc # "idle", RememberPlan
  PROVE  plans' \in Seq(PlanEntries) /\ Len(plans') <= MaxPlans
<1>0. MaxPlans \in Nat
  BY LimitsAssumption
<1>1. CASE ~(call.wire # None /\ Usable)
  BY <1>1 DEF RememberPlan, HostTypes
<1>2. CASE call.wire # None /\ Usable
  <2> DEFINE e == [key |-> PlanKey, descriptor |-> Descriptor]
             w == Without(plans, At(plans, PlanKey))
             all == Append(w, e)
  <2>1. e \in PlanEntries
    <3>1. call \in CallsInProgress
      BY DEF HostTypes
    <3>2. PICK c \in Calls : call.kv = c.kv /\ call.q = c.q /\ call.sink = c.sink /\ call.wire = c.wire
      BY <3>1, CallOf
    <3>3. e = [key |-> <<c.wire, c.q, c.kv, c.sink>>, descriptor |-> CompileDescriptor(c.wire)]
      BY <1>2, <3>2, DescriptorIs DEF PlanKey
    <3>4. c.wire # None /\ ValidWire(c.wire, c.q, c.kv, c.sink)
      BY <1>2, <3>2, DescriptorIs
    <3> QED BY <3>3, <3>4 DEF PlanEntries
  <2>2. plans \in Seq(PlanEntries) /\ Len(plans) <= MaxPlans /\ Len(plans) \in Nat
    BY LenProperties DEF HostTypes
  <2>3. w \in Seq(PlanEntries) /\ Len(w) <= MaxPlans /\ Len(w) \in Nat
    <3>1. At(plans, PlanKey) \subseteq DOMAIN plans
      BY AtSubset
    <3>2. w \in Seq(PlanEntries) /\ Len(w) = IF At(plans, PlanKey) = {} THEN Len(plans) ELSE Len(plans) - 1
      BY <2>2, <3>1, WithoutSeq
    <3>3. Len(w) \in Nat
      BY <3>2, LenProperties
    <3> HIDE DEF w
    <3> QED BY <1>0, <2>2, <3>2, <3>3
  <2> HIDE DEF e, w
  <2>4. all \in Seq(PlanEntries) /\ all # <<>> /\ Len(all) = Len(w) + 1
    BY <2>1, <2>3, AppendProperties
  <2>5. Tail(all) \in Seq(PlanEntries) /\ Len(Tail(all)) = Len(all) - 1
    BY <2>4, HeadTailProperties
  <2>6. plans' = IF Len(all) > MaxPlans THEN Tail(all) ELSE all
    BY <1>2 DEF RememberPlan, e, w
  <2> HIDE DEF all
  <2> QED BY <1>0, <2>3, <2>4, <2>5, <2>6
<1> QED BY <1>1, <1>2

\* What a call is follows from the call and the evaluation alone.
LEMMA SameCall ==
  ASSUME call' = call, evaluation' = evaluation
  PROVE  /\ DenseExecution' = DenseExecution /\ Path' = Path
         /\ Identity' = Identity /\ Operands' = Operands
         /\ PrefixAccepted(call)' <=> PrefixAccepted(call)
<1>1. DenseExecution' = DenseExecution
  BY DEF DenseExecution, Warmup
<1>2. Path' = Path
  BY <1>1 DEF Path
<1>3. Identity' = Identity /\ Operands' = Operands
  BY <1>2 DEF Identity, Operands, KeyMeasure, ExactEnd
<1>4. SinkMeasure(call)' = SinkMeasure(call)
  BY <1>1 DEF SinkMeasure
<1>5. PrefixAccepted(call)' <=> PrefixAccepted(call)
  BY <1>1, <1>4 DEF PrefixAccepted
<1> QED BY <1>1, <1>2, <1>3, <1>5

Verifications ==
  [flow : SUBSET {FlowIdentity(c) : c \in Calls}, weighted : Seq(WeightedIdentities),
   vdn : SUBSET (Nat \X Nat)]

\* The type of the identity that a check is remembered by.
LEMMA IdentityTypes ==
  ASSUME HostTypes, pc # "idle"
  PROVE  /\ Path = "weighted" => Identity \in WeightedIdentities
         /\ Path = "flow" => Identity \in {FlowIdentity(c) : c \in Calls} /\ Identity = FlowIdentity(call)
         /\ Path = "vdn" => Identity \in Nat \X Nat
<1>1. call \in CallsInProgress
  BY DEF HostTypes
<1>2. PICK c \in Calls : /\ call.digest = c.digest /\ KeyMeasure(call) = KeyMeasure(c)
                         /\ FlowIdentity(call) = FlowIdentity(c)
  BY <1>1, CallOf
<1>3. call.q \in Nat /\ call.kv \in Nat
  BY <1>1, CallTypes
<1>4. Path = "weighted" => Identity = <<call.q, call.kv, call.digest, KeyMeasure(call)>>
  BY DEF Identity
<1>5. Path = "flow" => Identity = FlowIdentity(call)
  BY DEF Identity, FlowIdentity
<1>6. Path = "vdn" => Identity = <<call.q, call.kv>>
  BY DEF Identity
<1> QED BY <1>2, <1>3, <1>4, <1>5, <1>6 DEF WeightedIdentities

\* What remembering a check keeps of the checks before it.
LEMMA RememberedTypes ==
  ASSUME HostTypes, pc # "idle"
  PROVE  /\ Remembered \in Verifications /\ Len(Remembered.weighted) <= MaxWeighted
         /\ Path = "weighted" =>
              /\ Contains(Remembered.weighted, Identity)
              /\ Remembered.flow = verified.flow /\ Remembered.vdn = verified.vdn
              /\ \A i \in 1 .. Len(Remembered.weighted) :
                   \/ Remembered.weighted[i] = Identity
                   \/ \E j \in 1 .. Len(verified.weighted) : Remembered.weighted[i] = verified.weighted[j]
         /\ Path # "weighted" =>
              /\ Remembered.weighted = verified.weighted
              /\ Remembered = [verified EXCEPT ![Path] = @ \union {Identity}]
<1>0. MaxWeighted \in Nat \ {0}
  BY LimitsAssumption
<1>1. verified \in Verifications /\ Len(verified.weighted) <= MaxWeighted
  BY DEF HostTypes, Verifications
<1>2. call \in CallsInProgress
  BY DEF HostTypes
<1>3. CASE Path # "weighted"
  <2>1. Remembered = [verified EXCEPT ![Path] = @ \union {Identity}]
    BY <1>3 DEF Remembered
  <2>2. Path \in {"flow", "vdn"}
    BY <1>2, <1>3, PathIs
  <2>3. CASE Path = "flow"
    <3>1. Remembered = [verified EXCEPT !.flow = @ \union {Identity}]
      BY <2>1, <2>3
    <3>2. Identity \in {FlowIdentity(c) : c \in Calls}
      BY <2>3, IdentityTypes
    <3> QED BY <1>1, <1>3, <2>1, <3>1, <3>2 DEF Verifications
  <2>4. CASE Path = "vdn"
    <3>1. Remembered = [verified EXCEPT !.vdn = @ \union {Identity}]
      BY <2>1, <2>4
    <3>2. Identity \in Nat \X Nat
      BY <2>4, IdentityTypes
    <3> QED BY <1>1, <1>3, <2>1, <3>1, <3>2 DEF Verifications
  <2> QED BY <2>2, <2>3, <2>4
<1>4. CASE Path = "weighted"
  <2> DEFINE w == verified.weighted
             all == Append(w, Identity)
             new == IF Len(all) > MaxWeighted THEN Tail(all) ELSE all
  <2>1. w \in Seq(WeightedIdentities) /\ Identity \in WeightedIdentities /\ Len(w) \in Nat
    BY <1>1, <1>4, IdentityTypes, LenProperties DEF Verifications
  <2>2. Remembered = [verified EXCEPT !.weighted = new]
    BY <1>4 DEF Remembered
  <2> HIDE DEF w
  <2>3. /\ all \in Seq(WeightedIdentities) /\ all # <<>> /\ Len(all) = Len(w) + 1
        /\ \A i \in 1 .. Len(w) : all[i] = w[i]
        /\ all[Len(w) + 1] = Identity
    BY <2>1, AppendProperties
  <2>4. /\ Tail(all) \in Seq(WeightedIdentities) /\ Len(Tail(all)) = Len(w)
        /\ \A i \in 1 .. Len(w) : Tail(all)[i] = all[i + 1]
    <3>1. /\ Tail(all) \in Seq(WeightedIdentities) /\ Len(Tail(all)) = Len(all) - 1
          /\ \A i \in 1 .. Len(Tail(all)) : Tail(all)[i] = all[i + 1]
      BY <2>3, HeadTailProperties
    <3> HIDE DEF all
    <3> QED BY <2>1, <2>3, <3>1
  <2> HIDE DEF all
  <2>5. Len(w) <= MaxWeighted
    BY <1>1 DEF w
  <2>6. new \in Seq(WeightedIdentities) /\ Len(new) <= MaxWeighted /\ Len(new) \in Nat
    BY <1>0, <2>1, <2>3, <2>4, <2>5
  <2>7. /\ Contains(new, Identity)
        /\ \A i \in 1 .. Len(new) : new[i] = Identity \/ \E j \in 1 .. Len(w) : new[i] = w[j]
    <3>1. CASE Len(all) > MaxWeighted
      <4>1. new = Tail(all) /\ Len(w) \in 1 .. Len(w)
        BY <1>0, <2>1, <2>3, <2>5, <3>1
      <4>2. Tail(all)[Len(w)] = Identity
        BY <2>3, <2>4, <4>1
      <4>3. Contains(new, Identity)
        BY <2>4, <4>1, <4>2 DEF Contains
      <4>4. ASSUME NEW i \in 1 .. Len(new)
            PROVE  new[i] = Identity \/ \E j \in 1 .. Len(w) : new[i] = w[j]
        <5>1. i \in 1 .. Len(w) /\ new[i] = all[i + 1]
          BY <2>4, <4>1
        <5>2. i + 1 \in 1 .. Len(w) \/ i + 1 = Len(w) + 1
          BY <2>1, <5>1
        <5> HIDE DEF new
        <5> QED BY <2>3, <5>1, <5>2
      <4> QED BY <4>3, <4>4
    <3>2. CASE ~(Len(all) > MaxWeighted)
      <4>1. new = all /\ Len(w) + 1 \in 1 .. Len(all)
        BY <2>1, <2>3, <3>2
      <4>2. Contains(new, Identity)
        BY <2>3, <4>1 DEF Contains
      <4>3. ASSUME NEW i \in 1 .. Len(new)
            PROVE  new[i] = Identity \/ \E j \in 1 .. Len(w) : new[i] = w[j]
        <5>1. i \in 1 .. Len(w) \/ i = Len(w) + 1
          BY <2>1, <2>3, <4>1
        <5> HIDE DEF new
        <5> QED BY <2>3, <4>1, <5>1
      <4> QED BY <4>2, <4>3
    <3> QED BY <3>1, <3>2
  <2> HIDE DEF new
  <2>8. Remembered.weighted = new /\ Remembered.flow = verified.flow /\ Remembered.vdn = verified.vdn
        /\ Remembered \in Verifications
    BY <1>1, <2>2, <2>6 DEF Verifications
  <2> QED BY <1>4, <2>6, <2>7, <2>8 DEF w
<1> QED BY <1>3, <1>4

\* Completing a weighted call only reorders what is remembered.
LEMMA CompletedTypes ==
  ASSUME HostTypes, pc # "idle", Path = "weighted", Verified,
         verified' = [verified EXCEPT !.weighted =
                        Append(Without(@, {i \in DOMAIN @ : @[i] = Identity}), Identity)]
  PROVE  /\ verified' \in Verifications /\ Len(verified'.weighted) <= MaxWeighted
         /\ verified'.flow = verified.flow /\ verified'.vdn = verified.vdn
         /\ \A i \in 1 .. Len(verified'.weighted) :
              \E j \in 1 .. Len(verified.weighted) : verified'.weighted[i] = verified.weighted[j]
<1> DEFINE w == verified.weighted
           places == {i \in DOMAIN w : w[i] = Identity}
           r == Without(w, places)
           new == Append(r, Identity)
           k == CHOOSE i \in places : TRUE
<1>1. verified \in Verifications /\ Len(verified.weighted) <= MaxWeighted
  BY DEF HostTypes, Verifications
<1>2. w \in Seq(WeightedIdentities) /\ Identity \in WeightedIdentities /\ Len(w) \in Nat
      /\ DOMAIN w = 1 .. Len(w)
  BY <1>1, IdentityTypes, LenProperties DEF Verifications
<1>3. places # {}
  <2>1. Contains(w, Identity)
    BY DEF Verified
  <2>2. PICK i \in 1 .. Len(w) : w[i] = Identity
    BY <2>1 DEF Contains
  <2> QED BY <1>2, <2>2
<1>4. k \in places
  BY <1>3, Zenon
<1>5. r = RemoveAt(w, k)
  BY <1>3 DEF Without
<1>6. verified' = [verified EXCEPT !.weighted = new]
  OBVIOUS
<1>7. k \in 1 .. Len(w) /\ w[k] = Identity
  <2> HIDE DEF k
  <2> QED BY <1>2, <1>4
<1> HIDE DEF k, places, r, w
<1>8. /\ r \in Seq(WeightedIdentities) /\ Len(r) = Len(w) - 1
      /\ \A i \in 1 .. Len(w) - 1 : r[i] = IF i < k THEN w[i] ELSE w[i + 1]
  BY <1>2, <1>5, <1>7, Removal
<1>9. /\ new \in Seq(WeightedIdentities) /\ Len(new) = Len(w)
      /\ \A i \in 1 .. Len(w) - 1 : new[i] = r[i]
      /\ new[Len(w)] = Identity
  <2>1. /\ new \in Seq(WeightedIdentities) /\ Len(new) = Len(r) + 1
        /\ \A i \in 1 .. Len(r) : new[i] = r[i]
        /\ new[Len(r) + 1] = Identity
    <3>1. r \in Seq(WeightedIdentities) /\ Identity \in WeightedIdentities
      BY <1>2, <1>8
    <3> QED BY <3>1, AppendProperties
  <2>2. Len(r) + 1 = Len(w)
    BY <1>2, <1>8
  <2> HIDE DEF new
  <2> QED BY <1>2, <1>8, <2>1, <2>2
<1> HIDE DEF new
<1>10. ASSUME NEW i \in 1 .. Len(new) PROVE \E j \in 1 .. Len(w) : new[i] = w[j]
  <2>1. i \in 1 .. Len(w)
    BY <1>9
  <2>2. CASE i = Len(w)
    BY <1>7, <1>9, <2>2
  <2>3. CASE i # Len(w)
    <3>1. i \in 1 .. Len(w) - 1 /\ i + 1 \in 1 .. Len(w)
      BY <1>2, <2>1, <2>3
    <3> QED BY <1>8, <1>9, <2>1, <3>1
  <2> QED BY <2>2, <2>3
<1>11. verified'.weighted = new /\ verified'.flow = verified.flow /\ verified'.vdn = verified.vdn
       /\ verified' \in Verifications
  BY <1>1, <1>6, <1>9 DEF Verifications
<1> QED BY <1>1, <1>9, <1>10, <1>11 DEF w

\* A group's rows are produced: the pair has them, the groups in progress stay
\* but for what they are overtaken by, and the new one is the innermost.
LEMMA Produced ==
  ASSUME HostTypes, NEW p \in Pairs, NEW s \in Streams, NEW fused \in BOOLEAN, Produce(p, s, fused)
  PROVE  /\ scopes' \in Seq(Scopes) /\ Len(scopes) \in Nat
         /\ DOMAIN scopes = 1 .. Len(scopes) /\ DOMAIN scopes' = 1 .. Len(scopes) + 1
         /\ \A i \in 1 .. Len(scopes) :
              scopes'[i] = [scopes[i] EXCEPT !.overtaken = @ \/ Taken(i, p, fused)] /\ scopes[i] \in Scopes
         /\ scopes'[Len(scopes) + 1] =
              [pair |-> p, group |-> made.groups + 1, version |-> NewVersion(p, fused), stream |-> s,
               fused |-> fused, overtaken |-> FALSE]
         /\ scratch' = [scratch EXCEPT ![p] = [rows |-> made.groups + 1, version |-> NewVersion(p, fused)]]
         /\ scratch' \in [Pairs -> [rows : Nat, version : Nat]]
         /\ made'.groups \in Nat
<1> DEFINE n == NewVersion(p, fused)
           g == made.groups + 1
           x == [pair |-> p, group |-> g, version |-> n, stream |-> s, fused |-> fused, overtaken |-> FALSE]
           outer == [i \in 1 .. Len(scopes) |-> [scopes[i] EXCEPT !.overtaken = @ \/ Taken(i, p, fused)]]
<1>1. /\ scratch' = [scratch EXCEPT ![p] = [rows |-> g, version |-> n]]
      /\ scopes' = Append(outer, x)
      /\ made' = [made EXCEPT !.groups = g]
  BY DEF Produce
<1>2. n \in Nat /\ g \in Nat
  BY DEF HostTypes, NewVersion
<1>3. x \in Scopes
  BY <1>2 DEF Scopes
<1>4. Len(scopes) \in Nat /\ DOMAIN scopes = 1 .. Len(scopes) /\ \A i \in 1 .. Len(scopes) : scopes[i] \in Scopes
  BY LenProperties, ElementOfSeq DEF HostTypes
<1>5. \A i \in 1 .. Len(scopes) : outer[i] \in Scopes
  <2> SUFFICES ASSUME NEW i \in 1 .. Len(scopes) PROVE outer[i] \in Scopes
    OBVIOUS
  <2>1. outer[i] = [scopes[i] EXCEPT !.overtaken = @ \/ Taken(i, p, fused)] /\ scopes[i] \in Scopes
    BY <1>4
  <2> QED BY <2>1 DEF Scopes
<1>6. outer \in Seq(Scopes) /\ Len(outer) = Len(scopes)
  <2>1. outer \in [1 .. Len(scopes) -> Scopes]
    BY <1>5
  <2> HIDE DEF outer
  <2> QED BY <1>4, <2>1, SeqDef, LenProperties
<1>7. \A i \in 1 .. Len(scopes) : outer[i] = [scopes[i] EXCEPT !.overtaken = @ \/ Taken(i, p, fused)]
  OBVIOUS
<1>8. made'.groups \in Nat /\ scratch' \in [Pairs -> [rows : Nat, version : Nat]]
  BY <1>1, <1>2 DEF HostTypes
<1> HIDE DEF outer, x
<1>9. /\ scopes' \in Seq(Scopes) /\ DOMAIN scopes' = 1 .. Len(scopes) + 1
       /\ \A i \in 1 .. Len(scopes) : scopes'[i] = outer[i]
       /\ scopes'[Len(scopes) + 1] = x
  BY <1>1, <1>3, <1>4, <1>6, AppendProperties, LenProperties
<1> QED BY <1>1, <1>4, <1>7, <1>8, <1>9 DEF x

\* The types of the host's state are inductive.
LEMMA HostTyped ==
  ASSUME HostTypes, PathFacts, [Next]_vars
  PROVE  HostTypes'
<1> USE DEF HostTypes
<1>0. /\ MaxPlans \in Nat /\ MaxWeighted \in Nat \ {0} /\ MaxEvaluations \in Nat \ {0}
      /\ \A d \in CallsInProgress : d # None
  BY LimitsAssumption, CallOf
<1>1. CASE Leave
  BY <1>1 DEF Leave, Drop, caches, grouping, history
<1>2. CASE UnitMeasure
  BY <1>2 DEF UnitMeasure, AfterBias, caches, grouping, history
<1>3. CASE MeasureHit
  BY <1>3 DEF MeasureHit, AfterBias, grouping, history
<1>4. CASE MeasureMiss
  BY <1>4 DEF MeasureMiss, AfterBias, grouping, history
<1>5. CASE MapUnneeded
  <2>1. plans' \in Seq(PlanEntries) /\ Len(plans') <= MaxPlans
    BY <1>5, PlansRemembered DEF MapUnneeded
  <2> QED BY <1>5, <2>1 DEF MapUnneeded, Route, grouping, history
<1>6. CASE MapHit
  <2>1. plans' \in Seq(PlanEntries) /\ Len(plans') <= MaxPlans
    BY <1>6, PlansRemembered DEF MapHit
  <2> QED BY <1>6, <2>1 DEF MapHit, Route, grouping, history
<1>7. CASE MapMiss
  <2>1. plans' \in Seq(PlanEntries) /\ Len(plans') <= MaxPlans
    BY <1>7, PlansRemembered DEF MapMiss
  <2> QED BY <1>7, <2>1 DEF MapMiss, Route, grouping, history
<1>8. ASSUME NEW owned \in BOOLEAN, MapRefused(owned) PROVE HostTypes'
  <2>1. plans' \in Seq(PlanEntries) /\ Len(plans') <= MaxPlans
    BY <1>8, PlansRemembered DEF MapRefused
  <2> QED BY <1>8, <2>1 DEF MapRefused, grouping, history
<1>9. CASE SummariesRefused
  BY <1>9 DEF SummariesRefused, caches, grouping, history
<1>10. CASE Check
  BY <1>10 DEF Check, Launch, caches, history
<1>11. CASE WeightedDense
  BY <1>11 DEF WeightedDense, Launch, caches, history
<1>12. CASE Sparse
  BY <1>12 DEF Sparse, Launch, caches
<1>13. CASE CompleteWeighted
  <2>1. verified' \in Verifications /\ Len(verified'.weighted) <= MaxWeighted
    <3>1. pc = "complete" /\ Verified /\ DenseExecution /\ call \in CallsInProgress
      BY <1>13 DEF CompleteWeighted, PathFacts
    <3>2. Path = "weighted"
      BY <3>1, PathIs
    <3>3. verified' = [verified EXCEPT !.weighted =
                        Append(Without(@, {i \in DOMAIN @ : @[i] = Identity}), Identity)]
      BY <1>13 DEF CompleteWeighted
    <3> QED BY <3>1, <3>2, <3>3, CompletedTypes
  <2> QED BY <1>13, <2>1 DEF CompleteWeighted, Verifications, caches, grouping
<1>14. CASE Dense
  BY <1>14 DEF Dense, caches, grouping
<1>15. ASSUME NEW passes \in BOOLEAN, Judge(passes) PROVE HostTypes'
  <2>1. verified' \in Verifications /\ Len(verified'.weighted) <= MaxWeighted
    BY <1>15, RememberedTypes DEF Judge, Verifications
  <2>2. pc' \in {"leave", "complete", "sparse"}
    BY <1>15 DEF Judge
  <2> QED BY <1>15, <2>1, <2>2 DEF Judge, Verifications, caches, grouping
<1>16. ASSUME NEW c \in Calls, NEW s \in Streams, NEW kv \in Pairs \union {None}, Call(c, s, kv)
       PROVE  HostTypes'
  <2>1. call' \in CallsInProgress
    BY <1>16 DEF Call, CallsInProgress
  <2>2. pc' \in {"bias", "map"}
    BY <1>16 DEF Call
  <2>3. made'.groups \in Nat
    BY <1>16 DEF Call
  <2> QED BY <1>0, <1>16, <2>1, <2>2, <2>3 DEF Call, caches, grouping
<1>17. ASSUME NEW p \in Pairs, NEW s \in Streams, NEW eligible \in BOOLEAN, Group(p, s, eligible)
       PROVE  HostTypes'
  <2>1. (eligible /\ ~Warmup) \in BOOLEAN /\ Produce(p, s, eligible /\ ~Warmup)
    BY <1>17 DEF Group, Warmup
  <2>2. scopes' \in Seq(Scopes) /\ scratch' \in [Pairs -> [rows : Nat, version : Nat]] /\ made'.groups \in Nat
    BY <2>1, Produced
  <2> QED BY <1>17, <2>2 DEF Group, caches
<1>18. CASE EndGroup
  <2>1. scopes' \in Seq(Scopes)
    <3>1. Len(scopes) \in Nat \ {0}
      BY <1>18, EmptySeq DEF EndGroup
    <3>2. 1 \in Nat \ {0} /\ Len(scopes) - 1 \in 0 .. Len(scopes)
      BY <3>1
    <3>3. SubSeq(scopes, 1, Len(scopes) - 1) \in Seq(Scopes)
      BY <3>2, Part
    <3> QED BY <1>18, <3>3 DEF EndGroup, Front
  <2> QED BY <1>18, <2>1 DEF EndGroup, caches, history
<1>19. CASE NextEvaluation
  BY <1>0, <1>19 DEF NextEvaluation, caches, grouping, history
<1>20. CASE Device
  BY <1>20 DEF Device, caches, grouping, history
<1>21. CASE UNCHANGED vars
  BY <1>21 DEF vars, caches, grouping, history
<1> QED BY <1>1, <1>2, <1>3, <1>4, <1>5, <1>6, <1>7, <1>8, <1>9, <1>10, <1>11, <1>12, <1>13,
           <1>14, <1>15, <1>16, <1>17, <1>18, <1>19, <1>20, <1>21 DEF Next, Host, Caller

\* What the host has established is inductive.
LEMMA PathFollowed ==
  ASSUME HostTypes, HostTypes', PathFacts, [Next]_vars
  PROVE  PathFacts'
<1>1. ASSUME call' = call, evaluation' = evaluation
      PROVE  /\ DenseExecution' = DenseExecution /\ (Path = "weighted")' = (Path = "weighted")
             /\ PrefixAccepted(call)' <=> PrefixAccepted(call)
             /\ verified' = verified => (Verified' <=> Verified)
  BY <1>1, SameCall DEF Verified
<1>2. pc # "idle" => (Path = "weighted" <=> DenseExecution)
  BY PathIs DEF HostTypes
<1>3. CASE Leave
  BY <1>3 DEF Leave, PathFacts
<1>4. CASE UnitMeasure
  <2>1. call' = call /\ evaluation' = evaluation
    BY <1>4 DEF UnitMeasure
  <2> QED BY <1>1, <1>4, <2>1 DEF UnitMeasure, AfterBias, PathFacts, NoTensor
<1>5. CASE MeasureHit
  <2>1. call' = call /\ evaluation' = evaluation
    BY <1>5 DEF MeasureHit
  <2>2. held = NoTensor /\ held'.mapped = Nothing
    BY <1>5 DEF MeasureHit, PathFacts, NoTensor
  <2>3. pc' = AfterBias
    BY <1>5 DEF MeasureHit
  <2> QED BY <1>1, <2>1, <2>2, <2>3 DEF AfterBias, PathFacts
<1>6. CASE MeasureMiss
  <2>1. call' = call /\ evaluation' = evaluation
    BY <1>6 DEF MeasureMiss
  <2>2. held = NoTensor /\ held'.mapped = Nothing
    BY <1>6 DEF MeasureMiss, PathFacts, NoTensor
  <2>3. pc' = AfterBias
    BY <1>6 DEF MeasureMiss
  <2> QED BY <1>1, <2>1, <2>2, <2>3 DEF AfterBias, PathFacts
<1>7. CASE MapUnneeded \/ MapHit \/ MapMiss
  <2>1. call' = call /\ evaluation' = evaluation /\ pc = "map" /\ pc' = Route
    BY <1>7 DEF MapUnneeded, MapHit, MapMiss
  <2> QED BY <1>1, <2>1 DEF Route, PathFacts
<1>8. ASSUME NEW owned \in BOOLEAN, MapRefused(owned) PROVE PathFacts'
  BY <1>8 DEF MapRefused, PathFacts
<1>9. CASE SummariesRefused
  BY <1>9 DEF SummariesRefused, PathFacts
<1>10. CASE Check
  <2>1. call' = call /\ evaluation' = evaluation /\ pc = "sparse" /\ pc' = "judge"
    BY <1>10 DEF Check
  <2> QED BY <1>1, <2>1 DEF PathFacts
<1>11. CASE WeightedDense
  <2>1. call' = call /\ evaluation' = evaluation /\ verified' = verified /\ pc = "dense"
        /\ pc' = IF Verified THEN "complete" ELSE "judge"
    BY <1>11 DEF WeightedDense
  <2> QED BY <1>1, <2>1 DEF PathFacts
<1>12. CASE Sparse \/ CompleteWeighted \/ Dense
  <2>1. pc' = "leave"
    BY <1>12 DEF Sparse, CompleteWeighted, Dense
  <2> QED BY <2>1 DEF PathFacts
<1>13. ASSUME NEW passes \in BOOLEAN, Judge(passes) PROVE PathFacts'
  <2>1. /\ call' = call /\ evaluation' = evaluation /\ pc = "judge"
        /\ passes => verified' = Remembered
    BY <1>13 DEF Judge
  <2>0. /\ ~passes => pc' = "leave"
        /\ passes /\ Path = "weighted" => pc' = "complete"
        /\ passes /\ Path # "weighted" => pc' = "sparse"
    <3>1. pc' = CASE ~passes -> "leave" [] passes /\ Path = "weighted" -> "complete" [] OTHER -> "sparse"
      BY <1>13 DEF Judge
    <3> HIDE DEF Path
    <3> QED BY <3>1
  <2>2. CASE pc' = "complete"
    <3>1. passes /\ Path = "weighted"
      BY <2>0, <2>2
    <3>2. Contains(verified'.weighted, Identity)
      BY <2>1, <3>1, RememberedTypes
    <3>3. Verified'
      BY <2>1, <3>1, <3>2, SameCall DEF Verified
    <3> QED BY <1>1, <1>2, <2>1, <2>2, <3>1, <3>3 DEF PathFacts
  <2>3. CASE pc' = "sparse"
    <3>1. Path # "weighted"
      BY <2>0, <2>3
    <3> QED BY <1>1, <1>2, <2>1, <2>3, <3>1 DEF PathFacts
  <2>4. CASE pc' = "leave"
    BY <2>4 DEF PathFacts
  <2> QED BY <2>0, <2>2, <2>3, <2>4
<1>14. ASSUME NEW c \in Calls, NEW s \in Streams, NEW kv \in Pairs \union {None}, Call(c, s, kv)
       PROVE  PathFacts'
  <2>1. /\ pc = "idle" /\ held' = held /\ call' = CallOn(c, s, kv)
        /\ pc' = IF c.api = "flow" THEN "bias" ELSE "map"
    BY <1>14 DEF Call
  <2>2. call'.api = c.api
    BY <2>1, CallFields
  <2>3. held' = NoTensor
    BY <2>1 DEF PathFacts
  <2> QED BY <2>1, <2>2, <2>3 DEF PathFacts, NoTensor
<1>15. ASSUME NEW p \in Pairs, NEW s \in Streams, NEW eligible \in BOOLEAN, Group(p, s, eligible)
       PROVE  PathFacts'
  BY <1>15 DEF Group, PathFacts
<1>16. CASE EndGroup \/ NextEvaluation
  BY <1>16 DEF EndGroup, NextEvaluation, PathFacts
<1>17. CASE Device \/ UNCHANGED vars
  <2>1. call' = call /\ evaluation' = evaluation /\ verified' = verified /\ pc' = pc /\ held' = held
    BY <1>17 DEF Device, vars
  <2> QED BY <1>1, <2>1 DEF PathFacts
<1> QED BY <1>3, <1>4, <1>5, <1>6, <1>7, <1>8, <1>9, <1>10, <1>11, <1>12, <1>13,
           <1>14, <1>15, <1>16, <1>17 DEF Next, Host, Caller

\* Both hold in every state of a behaviour.
LEMMA HostInvariant == Spec => [](HostTypes /\ PathFacts)
<1>1. Init => HostTypes /\ PathFacts
  <2> SUFFICES ASSUME Init PROVE HostTypes /\ PathFacts
    OBVIOUS
  <2>1. <<>> \in Seq(PlanEntries) /\ <<>> \in Seq(Scopes) /\ <<>> \in Seq(WeightedIdentities)
        /\ Len(<<>>) = 0
    BY EmptySeq
  <2>2. HostTypes
    BY <2>1, LimitsAssumption DEF Init, HostTypes
  <2>3. PathFacts
    BY DEF Init, PathFacts
  <2> QED BY <2>2, <2>3
<1>2. HostTypes /\ PathFacts /\ [Next]_vars => (HostTypes /\ PathFacts)'
  BY HostTyped, PathFollowed
<1> QED BY <1>1, <1>2, PTL DEF Spec

-----------------------------------------------------------------------------
(***************************************************************************)
(* Grouped K/V and its summaries.                                          *)
(***************************************************************************)

\* A fused group that is the innermost is one of the groups in progress.
LEMMA ActiveScope ==
  ASSUME HostTypes, Fused # {}
  PROVE  /\ Max(Fused) \in 1 .. Len(scopes) /\ scopes[Max(Fused)].fused
         /\ Active = scopes[Max(Fused)] /\ Active \in Scopes /\ Active # None
<1>1. Len(scopes) \in Nat /\ DOMAIN scopes = 1 .. Len(scopes) /\ \A i \in 1 .. Len(scopes) : scopes[i] \in Scopes
  BY LenProperties, ElementOfSeq DEF HostTypes
<1>2. Fused \subseteq 0 .. Len(scopes)
  BY <1>1 DEF Fused
<1>3. Max(Fused) \in Fused
  BY <1>1, <1>2, MaxNat
<1>4. Max(Fused) \in 1 .. Len(scopes) /\ scopes[Max(Fused)].fused
  BY <1>1, <1>3 DEF Fused
<1>5. Active = scopes[Max(Fused)]
  BY DEF Active
<1> HIDE DEF Fused
<1> QED BY <1>1, <1>4, <1>5, NoneAssumption

\* A launch takes the rows and the summaries of one group, or of a group that
\* was overtaken.
LEMMA LaunchMatches ==
  ASSUME HostTypes, SummariesCurrent, Launch
  PROVE  consumed'.rows = consumed'.summary \/ consumed'.overtaken
<1>1. CASE Prepared = None
  BY <1>1 DEF Launch
<1>2. CASE Prepared # None
  <2>1. Active # None /\ Active.pair = call.pair /\ Prepared = Active
    BY <1>2 DEF Prepared
  <2>2. Fused # {}
    BY <2>1 DEF Active
  <2>3. /\ Max(Fused) \in 1 .. Len(scopes) /\ scopes[Max(Fused)].fused
        /\ Active = scopes[Max(Fused)] /\ Active \in Scopes
    BY <2>2, ActiveScope
  <2>4. call.pair \in Pairs /\ call.pair # None
    BY <2>1, <2>3, NoneAssumption DEF Scopes
  <2>5. Active.version = scratch[call.pair].version
    BY <1>2, <2>1 DEF Launch, SummariesUsable
  <2>6. ~Active.overtaken => Active.group = scratch[call.pair].rows
    <3>1. Max(Fused) \in DOMAIN scopes
      BY <2>3, LenProperties DEF HostTypes
    <3>2. ScopeCurrent(Active)
      BY <2>3, <3>1 DEF SummariesCurrent
    <3> QED BY <2>1, <2>5, <3>2 DEF ScopeCurrent
  <2>7. consumed' = [rows |-> scratch[call.pair].rows, summary |-> Active.group, overtaken |-> Active.overtaken]
    BY <1>2, <2>1, <2>3, <2>4 DEF Launch, RowsOf, Scopes
  <2> QED BY <2>6, <2>7
<1> QED BY <1>1, <1>2

\* A group in a pair that is not the innermost's leaves the others current.
LEMMA ProducedCurrent ==
  ASSUME HostTypes, SummariesCurrent, NEW p \in Pairs, NEW s \in Streams, NEW fused \in BOOLEAN,
         Produce(p, s, fused), consumed' = consumed, Active # None => Active.pair # p
  PROVE  SummariesCurrent'
<1> DEFINE n == NewVersion(p, fused)
           g == made.groups + 1
<1>1. /\ Len(scopes) \in Nat /\ DOMAIN scopes = 1 .. Len(scopes) /\ DOMAIN scopes' = 1 .. Len(scopes) + 1
      /\ \A i \in 1 .. Len(scopes) :
           scopes'[i] = [scopes[i] EXCEPT !.overtaken = @ \/ Taken(i, p, fused)] /\ scopes[i] \in Scopes
      /\ scopes'[Len(scopes) + 1] = [pair |-> p, group |-> g, version |-> n, stream |-> s,
                                      fused |-> fused, overtaken |-> FALSE]
      /\ scratch' = [scratch EXCEPT ![p] = [rows |-> g, version |-> n]]
  BY Produced
<1>2. n \in Nat /\ g \in Nat /\ scratch \in [Pairs -> [rows : Nat, version : Nat]]
  BY DEF HostTypes, NewVersion
<1>3. /\ scratch'[p].rows = g /\ scratch'[p].version = n
      /\ \A q \in Pairs \ {p} : scratch'[q] = scratch[q]
  BY <1>1, <1>2
<1>4. ASSUME NEW i \in 1 .. Len(scopes), scopes'[i].fused PROVE ScopeCurrent(scopes[i])'
  <2>1. /\ scopes[i] \in Scopes /\ scopes'[i].pair = scopes[i].pair /\ scopes'[i].version = scopes[i].version
        /\ scopes'[i].group = scopes[i].group /\ scopes[i].fused
        /\ scopes'[i].overtaken = (scopes[i].overtaken \/ Taken(i, p, fused))
    BY <1>1, <1>4 DEF Scopes
  <2>2. ScopeCurrent(scopes[i])
    BY <1>1, <2>1 DEF SummariesCurrent
  <2>3. CASE scopes[i].pair # p
    <3>1. scratch'[scopes[i].pair] = scratch[scopes[i].pair]
      BY <1>3, <2>1, <2>3 DEF Scopes
    <3> QED BY <2>1, <2>2, <3>1 DEF ScopeCurrent
  <2>4. CASE scopes[i].pair = p
    <3>1. i \in Fused
      BY <1>1, <2>1 DEF Fused
    <3>2. /\ Max(Fused) \in 1 .. Len(scopes) /\ scopes[Max(Fused)].fused
          /\ Active = scopes[Max(Fused)] /\ Active # None
      BY <3>1, ActiveScope
    <3>3. i # Max(Fused) /\ Max(Fused) \in Fused
      BY <1>1, <2>4, <3>2 DEF Fused
    <3>4. i < Max(Fused)
      <4>1. Fused \subseteq 0 .. Len(scopes)
        BY <1>1 DEF Fused
      <4>2. i <= Max(Fused)
        BY <1>1, <3>1, <4>1, MaxNat
      <4> QED BY <3>2, <3>3, <4>2
    <3>5. \E j \in Fused : i < j
      BY <3>3, <3>4
    <3>6. CASE Silent(fused)
      <4>1. Taken(i, p, fused)
        BY <2>1, <2>4, <3>5, <3>6 DEF Taken
      <4>2. n = scratch[p].version
        BY <1>2, <3>6 DEF NewVersion
      <4> QED BY <1>3, <2>1, <2>2, <2>4, <4>1, <4>2 DEF ScopeCurrent
    <3>7. CASE ~Silent(fused)
      <4>1. n = scratch[p].version + 1 /\ scratch[p].version \in Nat /\ scopes[i].version \in Nat
        BY <1>2, <2>1, <3>7 DEF Scopes, NewVersion
      <4>2. scopes[i].version <= scratch[p].version
        BY <2>2, <2>4 DEF ScopeCurrent
      <4>3. scopes[i].version <= n /\ scopes[i].version # n
        BY <4>1, <4>2
      <4> QED BY <1>3, <2>1, <2>4, <4>3 DEF ScopeCurrent
    <3> QED BY <3>6, <3>7
  <2> QED BY <2>3, <2>4
<1>5. ASSUME NEW i \in DOMAIN scopes', i = Len(scopes) + 1 PROVE ScopeCurrent(scopes[i])'
  <2>1. scopes'[i].pair = p /\ scopes'[i].version = n /\ scopes'[i].group = g
    BY <1>1, <1>5
  <2>2. scratch'[scopes'[i].pair].version = n /\ scratch'[scopes'[i].pair].rows = g
    BY <1>3, <2>1
  <2> HIDE DEF n, g
  <2>3. n <= n
    BY <1>2
  <2> QED BY <2>1, <2>2, <2>3 DEF ScopeCurrent
<1>6. \A i \in DOMAIN scopes' : i \in 1 .. Len(scopes) \/ i = Len(scopes) + 1
  BY <1>1
<1>7. consumed'.rows = consumed'.summary \/ consumed'.overtaken
  BY DEF SummariesCurrent
<1> QED BY <1>4, <1>5, <1>6, <1>7 DEF SummariesCurrent

\* SummariesCurrent is inductive.
LEMMA SummariesStep ==
  ASSUME HostTypes, HostTypes', SummariesCurrent, [Next]_vars
  PROVE  SummariesCurrent'
<1>1. ASSUME scopes' = scopes, scratch' = scratch,
             consumed'.rows = consumed'.summary \/ consumed'.overtaken
      PROVE  SummariesCurrent'
  BY <1>1 DEF SummariesCurrent, ScopeCurrent
<1>2. CASE Check \/ WeightedDense \/ Sparse
  <2>1. Launch
    BY <1>2 DEF Check, WeightedDense, Sparse
  <2>2. scopes' = scopes /\ scratch' = scratch
    BY <2>1 DEF Launch
  <2> QED BY <1>1, <2>1, <2>2, LaunchMatches
<1>3. ASSUME NEW p \in Pairs, NEW s \in Streams, NEW eligible \in BOOLEAN, Group(p, s, eligible)
      PROVE  SummariesCurrent'
  <2>1. (eligible /\ ~Warmup) \in BOOLEAN
    BY DEF Warmup
  <2>2. Produce(p, s, eligible /\ ~Warmup) /\ consumed' = consumed /\ (Active # None => Active.pair # p)
    BY <1>3 DEF Group
  <2> QED BY <2>1, <2>2, ProducedCurrent
<1>4. CASE EndGroup
  <2>1. /\ Len(scopes) \in Nat \ {0} /\ scopes' = SubSeq(scopes, 1, Len(scopes) - 1)
        /\ scratch' = scratch /\ consumed' = consumed
    BY <1>4, EmptySeq DEF EndGroup, Front, HostTypes
  <2>2. 1 \in Nat \ {0} /\ Len(scopes) - 1 \in 0 .. Len(scopes)
    BY <2>1
  <2>3. /\ scopes' \in Seq(Scopes)
        /\ Len(scopes') = IF 1 <= Len(scopes) - 1 THEN Len(scopes) - 1 - 1 + 1 ELSE 0
        /\ \A i \in 1 .. Len(scopes) - 1 - 1 + 1 : scopes'[i] = scopes[1 + i - 1]
    BY <2>1, <2>2, Part DEF HostTypes
  <2>4. Len(scopes') = Len(scopes) - 1 /\ DOMAIN scopes' = 1 .. Len(scopes) - 1 /\ DOMAIN scopes = 1 .. Len(scopes)
    <3>1. scopes \in Seq(Scopes)
      BY DEF HostTypes
    <3>2. Len(scopes') = Len(scopes) - 1
      <4>1. Len(scopes') = IF 1 <= Len(scopes) - 1 THEN Len(scopes) - 1 - 1 + 1 ELSE 0
        BY <2>3
      <4>2. Len(scopes) \in Nat \ {0}
        BY <2>1
      <4> QED BY <4>1, <4>2
    <3> QED BY <2>3, <3>1, <3>2, LenProperties
  <2>5. ASSUME NEW i \in DOMAIN scopes' PROVE scopes'[i] = scopes[i] /\ i \in DOMAIN scopes
    BY <2>1, <2>3, <2>4
  <2> QED BY <2>1, <2>5 DEF SummariesCurrent, ScopeCurrent
<1>5. CASE Leave \/ UnitMeasure \/ MeasureHit \/ MeasureMiss \/ MapUnneeded \/ MapHit \/ MapMiss
           \/ SummariesRefused \/ CompleteWeighted \/ Dense \/ NextEvaluation \/ Device \/ UNCHANGED vars
  <2>1. scopes' = scopes /\ scratch' = scratch /\ consumed' = consumed
    BY <1>5 DEF Leave, UnitMeasure, MeasureHit, MeasureMiss, MapUnneeded, MapHit, MapMiss,
       SummariesRefused, CompleteWeighted, Dense, NextEvaluation, Device, vars, grouping
  <2> QED BY <1>1, <2>1 DEF SummariesCurrent
<1>6. ASSUME NEW owned \in BOOLEAN, MapRefused(owned) PROVE SummariesCurrent'
  BY <1>1, <1>6 DEF MapRefused, grouping, SummariesCurrent
<1>7. ASSUME NEW passes \in BOOLEAN, Judge(passes) PROVE SummariesCurrent'
  BY <1>1, <1>7 DEF Judge, grouping, SummariesCurrent
<1>8. ASSUME NEW c \in Calls, NEW s \in Streams, NEW kv \in Pairs \union {None}, Call(c, s, kv)
      PROVE  SummariesCurrent'
  BY <1>1, <1>8 DEF Call, grouping, SummariesCurrent
<1> QED BY <1>2, <1>3, <1>4, <1>5, <1>6, <1>7, <1>8 DEF Next, Host, Caller

\* SummariesMatch (grouped_kv.current and execute, PreparedKV.check): a launch
\* that takes a group's summaries reads that group's rows, however deep groups
\* nest and with versions or without, unless a group at least two fused levels
\* further in took its pair unnoticed.  It follows from SummariesCurrent: the
\* innermost group's pair is refused, and a write that torch sees shows in the
\* version.
THEOREM SummariesMatched == Spec => []SummariesMatch
<1>1. Init => SummariesCurrent
  <2> SUFFICES ASSUME Init PROVE SummariesCurrent
    OBVIOUS
  <2>1. Len(<<>>) = 0 /\ DOMAIN <<>> = {}
    OBVIOUS
  <2> QED BY <2>1 DEF Init, SummariesCurrent
<1>2. HostTypes /\ HostTypes' /\ SummariesCurrent /\ [Next]_vars => SummariesCurrent'
  BY SummariesStep
<1>3. SummariesCurrent => SummariesMatch
  BY DEF SummariesCurrent, SummariesMatch
<1> QED BY <1>1, <1>2, <1>3, HostInvariant, PTL DEF Spec

-----------------------------------------------------------------------------
(***************************************************************************)
(* Checks and receipts.                                                    *)
(***************************************************************************)

\* A prefix that starts at the sink is known by the end of the exact region.
LEMMA ExactEndIs ==
  ASSUME NEW c \in Calls, SparsePrefix(c)
  PROVE  /\ c.sink \in Nat
         /\ c.prefix = None => ExactEnd(c) = c.sink
         /\ c.prefix # None => c.prefix = <<c.sink, ExactEnd(c)>> /\ ExactEnd(c) \in Nat /\ ExactEnd(c) > c.sink
<1>1. c.sink \in Nat /\ (c.prefix = None \/ c.prefix \in Nat \X Nat)
  BY CallsAssumption DEF Arguments
<1>2. ASSUME c.prefix # None
      PROVE  c.prefix = <<c.sink, ExactEnd(c)>> /\ ExactEnd(c) \in Nat /\ ExactEnd(c) > c.sink
  <2> DEFINE e == c.prefix[2]
  <2>1. c.prefix \in Nat \X Nat /\ c.prefix[1] = c.sink /\ c.prefix[1] < c.prefix[2]
    BY <1>1, <1>2, CallsAssumption DEF SparsePrefix
  <2>2. e \in Nat /\ c.sink < e /\ c.prefix = <<c.sink, e>>
    BY <2>1
  <2> HIDE DEF e
  <2>3. {c.sink, e} \subseteq 0 .. e /\ {c.sink, e} # {}
    BY <1>1, <2>2
  <2>4. Max({c.sink, e}) \in {c.sink, e} /\ \A m \in {c.sink, e} : m <= Max({c.sink, e})
    BY <2>2, <2>3, MaxNat
  <2>5. Max({c.sink, e}) = e
    BY <1>1, <2>2, <2>4
  <2>6. ExactEnd(c) = e
    BY <1>2, <2>5 DEF ExactEnd, e
  <2> QED BY <2>2, <2>6
<1>3. c.prefix = None => ExactEnd(c) = c.sink
  BY DEF ExactEnd
<1> QED BY <1>1, <1>2, <1>3

\* The identity of a sparse layout determines what its check compares.
LEMMA FlowDetermines ==
  ASSUME NEW c \in Calls, NEW d \in Calls, FlowIdentity(c) = FlowIdentity(d),
         SparsePrefix(c), SparsePrefix(d)
  PROVE  c.q = d.q /\ KeyMeasure(c) = KeyMeasure(d) /\ c.wire = d.wire
<1>1. /\ c.q = d.q /\ c.kv = d.kv /\ c.digest = d.digest /\ c.sink = d.sink
      /\ ExactEnd(c) = ExactEnd(d) /\ c.wire = d.wire
  BY DEF FlowIdentity
<1>2. c.prefix = d.prefix
  <2>1. CASE c.prefix = None
    BY <1>1, <2>1, ExactEndIs
  <2>2. CASE c.prefix # None
    <3>1. c.prefix = <<c.sink, ExactEnd(c)>> /\ ExactEnd(c) \in Nat /\ ExactEnd(c) > c.sink /\ c.sink \in Nat
      BY <2>2, ExactEndIs
    <3>2. d.prefix # None
      <4>1. d.prefix = None => ExactEnd(d) = d.sink
        BY ExactEndIs
      <4> QED BY <1>1, <3>1, <4>1
    <3>3. d.prefix = <<d.sink, ExactEnd(d)>>
      BY <3>2, ExactEndIs
    <3> QED BY <1>1, <3>1, <3>3
  <2> QED BY <2>1, <2>2
<1>3. c.measure = d.measure
  <2>1. <<c.digest, c.prefix>> = <<d.digest, d.prefix>>
    BY <1>1, <1>2
  <2> QED BY <2>1, DigestAssumption
<1> QED BY <1>1, <1>2, <1>3 DEF KeyMeasure

\* A call of Flow on a sparse path has a prefix that starts at its sink.
LEMMA SparseCall ==
  ASSUME HostTypes, PathFacts, pc \in {"judge", "sparse"}, Path = "flow"
  PROVE  \E c \in Calls :
           /\ FlowIdentity(c) = Identity /\ SparsePrefix(c)
           /\ Operands = <<"flow", c.q, KeyMeasure(c), c.wire>>
<1>1. call \in CallsInProgress
  BY DEF HostTypes
<1>2. call.api = "flow" /\ ~DenseExecution
  BY <1>1, PathIs
<1>3. SparsePrefix(call)
  BY <1>2 DEF PathFacts, PrefixAccepted, SparsePrefix
<1>4. PICK c \in Calls :
         /\ call.q = c.q /\ call.sink = c.sink /\ call.wire = c.wire /\ call.prefix = c.prefix
         /\ KeyMeasure(call) = KeyMeasure(c) /\ FlowIdentity(call) = FlowIdentity(c)
  BY <1>1, CallOf
<1>5. SparsePrefix(c)
  BY <1>3, <1>4 DEF SparsePrefix
<1>6. Identity = FlowIdentity(call)
  BY IdentityTypes
<1>7. Operands = <<"flow", call.q, KeyMeasure(call), call.wire>>
  BY DEF Operands
<1> QED BY <1>4, <1>5, <1>6, <1>7

\* What is remembered of a check are the operands it compared.
LEMMA VerifiedCompared ==
  ASSUME HostTypes, PathFacts, ChecksRemembered, pc \in {"sparse", "complete"}, Verified
  PROVE  Operands \in compared
<1>1. call \in CallsInProgress
  BY DEF HostTypes
<1>2. CASE Path = "weighted"
  <2>1. PICK i \in 1 .. Len(verified.weighted) : verified.weighted[i] = Identity
    BY <1>2 DEF Verified, Contains
  <2>2. i \in DOMAIN verified.weighted
    BY <2>1, LenProperties DEF HostTypes
  <2>3. Identity = <<call.q, call.kv, call.digest, KeyMeasure(call)>>
    BY <1>2 DEF Identity
  <2>4. Operands = <<"weighted", call.q, KeyMeasure(call)>>
    BY <1>2 DEF Operands
  <2>5. <<"weighted", Identity[1], Identity[4]>> \in compared
    BY <2>1, <2>2 DEF ChecksRemembered
  <2> QED BY <2>3, <2>4, <2>5
<1>3. CASE Path = "vdn"
  <2>1. Identity \in verified.vdn
    BY <1>3 DEF Verified
  <2>2. Identity = <<call.q, call.kv>>
    BY <1>3 DEF Identity
  <2>3. Operands = <<"vdn", call.q, call.kv>>
    BY <1>3 DEF Operands
  <2>4. <<"vdn", Identity[1], Identity[2]>> \in compared
    BY <2>1 DEF ChecksRemembered
  <2> QED BY <2>2, <2>3, <2>4
<1>4. CASE Path = "flow"
  <2>0. pc = "sparse"
    BY <1>1, <1>4, PathIs DEF PathFacts
  <2>1. Identity \in verified.flow
    BY <1>4 DEF Verified
  <2>2. PICK c \in Calls :
           /\ FlowIdentity(c) = Identity /\ SparsePrefix(c)
           /\ <<"flow", c.q, KeyMeasure(c), c.wire>> \in compared
    BY <2>1 DEF ChecksRemembered
  <2>3. PICK d \in Calls :
           /\ FlowIdentity(d) = Identity /\ SparsePrefix(d)
           /\ Operands = <<"flow", d.q, KeyMeasure(d), d.wire>>
    BY <1>4, <2>0, SparseCall
  <2>4. c.q = d.q /\ KeyMeasure(c) = KeyMeasure(d) /\ c.wire = d.wire
    BY <2>2, <2>3, FlowDetermines
  <2> QED BY <2>2, <2>3, <2>4
<1> QED BY <1>1, <1>2, <1>3, <1>4, PathIs

\* ChecksRemembered is inductive.
LEMMA ChecksStep ==
  ASSUME HostTypes, PathFacts, HostTypes', ChecksRemembered, [Next]_vars
  PROVE  ChecksRemembered'
<1>1. ASSUME verified' = verified, compared' = compared,
             published' = published \/ published'.route = "dense" \/ published'.operands \in compared
      PROVE  ChecksRemembered'
  BY <1>1 DEF ChecksRemembered
<1>2. ASSUME NEW passes \in BOOLEAN, Judge(passes) PROVE ChecksRemembered'
  <2>1. CASE ~passes
    BY <1>1, <1>2, <2>1 DEF Judge
  <2>2. CASE passes
    <3>1. /\ verified' = Remembered /\ compared' = compared \union {Operands}
          /\ published' = published /\ pc = "judge"
      BY <1>2, <2>2 DEF Judge
    <3>2. call \in CallsInProgress
      BY <3>1 DEF HostTypes
    <3>3. published' # None => published'.route = "dense" \/ published'.operands \in compared'
      BY <3>1 DEF ChecksRemembered
    <3>4. verified.weighted \in Seq(WeightedIdentities) /\ DOMAIN verified.weighted = 1 .. Len(verified.weighted)
          /\ DOMAIN verified'.weighted = 1 .. Len(verified'.weighted)
      BY LenProperties DEF HostTypes
    <3>5. CASE Path = "weighted"
      <4>1. Operands = <<"weighted", Identity[1], Identity[4]>>
        BY <3>5 DEF Operands, Identity
      <4>2. /\ verified'.flow = verified.flow /\ verified'.vdn = verified.vdn
            /\ \A i \in 1 .. Len(verified'.weighted) :
                 \/ verified'.weighted[i] = Identity
                 \/ \E j \in 1 .. Len(verified.weighted) : verified'.weighted[i] = verified.weighted[j]
        BY <3>1, <3>5, RememberedTypes
      <4>3. ASSUME NEW i \in DOMAIN verified'.weighted
            PROVE <<"weighted", verified'.weighted[i][1], verified'.weighted[i][4]>> \in compared'
        <5>1. CASE verified'.weighted[i] = Identity
          BY <3>1, <4>1, <5>1
        <5>2. ASSUME NEW j \in 1 .. Len(verified.weighted), verified'.weighted[i] = verified.weighted[j]
              PROVE  <<"weighted", verified'.weighted[i][1], verified'.weighted[i][4]>> \in compared'
          BY <3>1, <3>4, <5>2 DEF ChecksRemembered
        <5> QED BY <3>4, <4>2, <5>1, <5>2
      <4> QED BY <3>1, <3>3, <4>2, <4>3 DEF ChecksRemembered
    <3>6. CASE Path = "vdn"
      <4>1. Operands = <<"vdn", Identity[1], Identity[2]>>
        BY <3>6 DEF Operands, Identity
      <4>2. verified' = [verified EXCEPT !.vdn = @ \union {Identity}]
        BY <3>1, <3>6, RememberedTypes
      <4>3. verified'.flow = verified.flow /\ verified'.weighted = verified.weighted
            /\ verified'.vdn = verified.vdn \union {Identity}
        BY <4>2 DEF HostTypes
      <4> QED BY <3>1, <3>3, <4>1, <4>3 DEF ChecksRemembered
    <3>7. CASE Path = "flow"
      <4>1. PICK c \in Calls :
               /\ FlowIdentity(c) = Identity /\ SparsePrefix(c)
               /\ Operands = <<"flow", c.q, KeyMeasure(c), c.wire>>
        BY <3>1, <3>7, SparseCall
      <4>2. verified' = [verified EXCEPT !.flow = @ \union {Identity}]
        BY <3>1, <3>7, RememberedTypes
      <4>3. verified'.vdn = verified.vdn /\ verified'.weighted = verified.weighted
            /\ verified'.flow = verified.flow \union {Identity}
        BY <4>2 DEF HostTypes
      <4>4. ASSUME NEW id \in verified'.flow
            PROVE  \E d \in Calls : /\ FlowIdentity(d) = id /\ SparsePrefix(d)
                                    /\ <<"flow", d.q, KeyMeasure(d), d.wire>> \in compared'
        <5>1. CASE id = Identity
          BY <3>1, <4>1, <5>1
        <5>2. CASE id \in verified.flow
          BY <3>1, <5>2 DEF ChecksRemembered
        <5> QED BY <4>3, <5>1, <5>2
      <4> QED BY <3>1, <3>3, <4>3, <4>4 DEF ChecksRemembered
    <3> QED BY <3>2, <3>5, <3>6, <3>7, PathIs
  <2> QED BY <2>1, <2>2
<1>3. CASE Sparse
  <2>1. pc = "sparse" /\ Verified /\ published'.operands = Operands /\ verified' = verified /\ compared' = compared
    BY <1>3 DEF Sparse, Publish
  <2> QED BY <1>1, <2>1, VerifiedCompared
<1>4. CASE CompleteWeighted
  <2>1. /\ pc = "complete" /\ published'.operands = Operands /\ compared' = compared
        /\ verified' = [verified EXCEPT !.weighted =
                          Append(Without(@, {i \in DOMAIN @ : @[i] = Identity}), Identity)]
    BY <1>4 DEF CompleteWeighted, Publish
  <2>2. Verified /\ Path = "weighted"
    BY <2>1, PathIs DEF PathFacts, HostTypes
  <2>3. /\ verified'.flow = verified.flow /\ verified'.vdn = verified.vdn
        /\ \A i \in 1 .. Len(verified'.weighted) :
             \E j \in 1 .. Len(verified.weighted) : verified'.weighted[i] = verified.weighted[j]
    BY <2>1, <2>2, CompletedTypes
  <2>4. DOMAIN verified.weighted = 1 .. Len(verified.weighted)
        /\ DOMAIN verified'.weighted = 1 .. Len(verified'.weighted)
    BY LenProperties DEF HostTypes
  <2>5. Operands \in compared
    BY <2>1, <2>2, VerifiedCompared
  <2>6. ASSUME NEW i \in DOMAIN verified'.weighted
        PROVE  <<"weighted", verified'.weighted[i][1], verified'.weighted[i][4]>> \in compared'
    <3>1. PICK j \in 1 .. Len(verified.weighted) : verified'.weighted[i] = verified.weighted[j]
      BY <2>3, <2>4
    <3>2. <<"weighted", verified.weighted[j][1], verified.weighted[j][4]>> \in compared
      BY <2>4 DEF ChecksRemembered
    <3> QED BY <2>1, <3>1, <3>2
  <2>7. published'.operands \in compared'
    BY <2>1, <2>5
  <2> QED BY <2>1, <2>3, <2>6, <2>7 DEF ChecksRemembered
<1>5. CASE Dense
  <2>1. published'.route = "dense" /\ verified' = verified /\ compared' = compared
    BY <1>5 DEF Dense, Publish
  <2> QED BY <1>1, <2>1
<1>6. CASE Leave \/ UnitMeasure \/ MeasureHit \/ MeasureMiss \/ MapUnneeded \/ MapHit \/ MapMiss
           \/ SummariesRefused \/ Check \/ WeightedDense \/ EndGroup \/ NextEvaluation \/ Device \/ UNCHANGED vars
  <2>1. verified' = verified /\ compared' = compared /\ published' = published
    BY <1>6 DEF Leave, UnitMeasure, MeasureHit, MeasureMiss, MapUnneeded, MapHit, MapMiss,
       SummariesRefused, Check, WeightedDense, EndGroup, NextEvaluation, Device, vars, history
  <2> QED BY <1>1, <2>1
<1>7. ASSUME NEW owned \in BOOLEAN, MapRefused(owned) PROVE ChecksRemembered'
  BY <1>1, <1>7 DEF MapRefused, history
<1>8. ASSUME NEW c \in Calls, NEW s \in Streams, NEW kv \in Pairs \union {None}, Call(c, s, kv)
      PROVE  ChecksRemembered'
  BY <1>1, <1>8 DEF Call
<1>9. ASSUME NEW p \in Pairs, NEW s \in Streams, NEW eligible \in BOOLEAN, Group(p, s, eligible)
      PROVE  ChecksRemembered'
  BY <1>1, <1>9 DEF Group
<1> QED BY <1>2, <1>3, <1>4, <1>5, <1>6, <1>7, <1>8, <1>9 DEF Next, Host, Caller

\* ReceiptsCompared (the _ATTENTION_VERIFIED, _PARTITIONED_VERIFIED and weighted
\* dense sets of identities): a receipt of a kernel is written only when these
\* operands were compared with dense attention.
THEOREM ReceiptsWereCompared == Spec => []ReceiptsCompared
<1>1. Init => ChecksRemembered
  <2> SUFFICES ASSUME Init PROVE ChecksRemembered
    OBVIOUS
  <2>1. DOMAIN <<>> = {}
    OBVIOUS
  <2> QED BY <2>1 DEF Init, ChecksRemembered
<1>2. HostTypes /\ PathFacts /\ HostTypes' /\ ChecksRemembered /\ [Next]_vars => ChecksRemembered'
  BY ChecksStep
<1>3. ChecksRemembered => ReceiptsCompared
  BY DEF ChecksRemembered, ReceiptsCompared
<1> QED BY <1>1, <1>2, <1>3, HostInvariant, PTL DEF Spec

-----------------------------------------------------------------------------
(***************************************************************************)
(* Query maps: the blocks of rows and the intervals of tiles.              *)
(***************************************************************************)

\* The greater of two numbers.
LEMMA MaxTwo ==
  ASSUME NEW a \in Int, NEW b \in Int
  PROVE  Max({a, b}) = IF a >= b THEN a ELSE b
<1>1. \E x \in {a, b} : \A y \in {a, b} : x >= y
  <2>1. CASE a >= b
    BY <2>1
  <2>2. CASE b >= a
    BY <2>2
  <2> QED BY <2>1, <2>2
<1>2. Max({a, b}) \in {a, b} /\ \A y \in {a, b} : Max({a, b}) >= y
  BY <1>1, Zenon DEF Max
<1> HIDE DEF Max
<1> QED BY <1>2

\* The smaller of two numbers.
LEMMA MinTwo ==
  ASSUME NEW a \in Int, NEW b \in Int
  PROVE  Min({a, b}) = IF a <= b THEN a ELSE b
<1>1. \E x \in {a, b} : \A y \in {a, b} : x <= y
  <2>1. CASE a >= b
    BY <2>1
  <2>2. CASE b >= a
    BY <2>2
  <2> QED BY <2>1, <2>2
<1>2. Min({a, b}) \in {a, b} /\ \A y \in {a, b} : Min({a, b}) <= y
  BY <1>1, Zenon DEF Min
<1> QED BY <1>2

\* The least of three numbers.
LEMMA MinThree ==
  ASSUME NEW a \in Nat, NEW b \in Nat, NEW c \in Nat
  PROVE  /\ Min({a, b, c}) \in {a, b, c}
         /\ Min({a, b, c}) <= a /\ Min({a, b, c}) <= b /\ Min({a, b, c}) <= c
<1>1. {a, b, c} \subseteq Nat /\ {a, b, c} # {}
  OBVIOUS
<1>2. Min({a, b, c}) \in {a, b, c} /\ \A m \in {a, b, c} : Min({a, b, c}) <= m
  BY <1>1, MinNat
<1> QED BY <1>2

-----------------------------------------------------------------------------
\* Division by the block size.
LEMMA Quotient ==
  ASSUME NEW x \in Nat
  PROVE  /\ x \div BlockSize \in Nat
         /\ BlockSize * (x \div BlockSize) <= x
         /\ x < BlockSize * (x \div BlockSize) + BlockSize
<1>1. BlockSize \in Nat \ {0}
  BY BlockSizeAssumption
<1>2. x \div BlockSize \in Nat
  BY <1>1, Z3
<1>3. (x \div BlockSize) * BlockSize <= x /\ x < (x \div BlockSize) * BlockSize + BlockSize
  BY <1>1, Z3
<1>4. (x \div BlockSize) * BlockSize = BlockSize * (x \div BlockSize)
  BY <1>1, <1>2, Z3
<1> QED BY <1>2, <1>3, <1>4

\* A later row is in no earlier block.
LEMMA QuotientMonotonic ==
  ASSUME NEW x \in Nat, NEW y \in Nat, x <= y
  PROVE  x \div BlockSize <= y \div BlockSize
<1>1. BlockSize \in Nat \ {0}
  BY BlockSizeAssumption
<1> DEFINE a == x \div BlockSize
           b == y \div BlockSize
<1>2. a \in Nat /\ b \in Nat /\ BlockSize * a <= x /\ y < BlockSize * b + BlockSize
  BY Quotient
<1> HIDE DEF a, b
<1>3. CASE b + 1 <= a
  <2>1. BlockSize * (b + 1) <= BlockSize * a
    BY <1>1, <1>2, <1>3
  <2>2. BlockSize * (b + 1) = BlockSize * b + BlockSize
    BY <1>1, <1>2
  <2>3. BlockSize * a \in Nat /\ BlockSize * b \in Nat
    BY <1>1, <1>2
  <2> QED BY <1>1, <1>2, <2>1, <2>2, <2>3
<1>4. CASE a <= b
  BY <1>4 DEF a, b
<1> QED BY <1>2, <1>3, <1>4

\* A block's first row is in it.
LEMMA QuotientOf ==
  ASSUME NEW b \in Nat
  PROVE  (BlockSize * b) \div BlockSize = b
BY BlockSizeAssumption

\* A block between those of two rows begins between them.
LEMMA BlockBetween ==
  ASSUME NEW x \in Nat, NEW y \in Nat, NEW b \in Nat,
         x \div BlockSize < b, b < y \div BlockSize
  PROVE  BlockSize * b \in Nat /\ x < BlockSize * b /\ BlockSize * b <= y
<1>1. BlockSize \in Nat \ {0}
  BY BlockSizeAssumption
<1> DEFINE a == x \div BlockSize
           c == y \div BlockSize
<1>2. a \in Nat /\ c \in Nat /\ x < BlockSize * a + BlockSize /\ BlockSize * c <= y
  BY Quotient
<1>3. a < b /\ b < c
  OBVIOUS
<1> HIDE DEF a, c
<1>4. BlockSize * (a + 1) <= BlockSize * b /\ BlockSize * b <= BlockSize * c
  BY <1>1, <1>2, <1>3
<1>5. BlockSize * (a + 1) = BlockSize * a + BlockSize
  BY <1>1, <1>2
<1>6. BlockSize * a \in Nat /\ BlockSize * b \in Nat /\ BlockSize * c \in Nat
  BY <1>1, <1>2
<1> QED BY <1>1, <1>2, <1>4, <1>5, <1>6

\* A block range holds the blocks of the positions and their neighbours.
LEMMA RangeIs ==
  ASSUME NEW w, w.kv \in Nat, NEW first \in Nat, NEW last \in Nat, first <= last
  PROVE  LET r == BlockRange(w, first, last)
         IN  /\ r.start \in Nat /\ r.end \in Int
             /\ r.start = Max({0, first \div BlockSize - 1})
             /\ r.end = Min({CeilDiv(w.kv), last \div BlockSize + 2})
             /\ \A b \in Int :
                  b \in r.start .. r.end - 1 <=>
                    /\ b \in 0 .. CeilDiv(w.kv) - 1
                    /\ \E x \in first .. last : b - (x \div BlockSize) \in -1 .. 1
<1> DEFINE r == BlockRange(w, first, last)
           C == CeilDiv(w.kv)
           p == first \div BlockSize
           q == last \div BlockSize
<1>1. BlockSize \in Nat \ {0}
  BY BlockSizeAssumption
<1>2. C \in Nat
  <2>1. w.kv + BlockSize - 1 \in Nat
    BY <1>1
  <2> QED BY <2>1, Quotient DEF CeilDiv
<1>3. p \in Nat /\ q \in Nat /\ p <= q
  BY Quotient, QuotientMonotonic
<1>4. r.start = Max({0, p - 1}) /\ r.end = Min({C, q + 2})
  BY DEF BlockRange
<1>5. r.start = (IF 0 >= p - 1 THEN 0 ELSE p - 1) /\ r.end = (IF C <= q + 2 THEN C ELSE q + 2)
  <2> HIDE DEF p, q, C, r
  <2>1. p - 1 \in Int /\ 0 \in Int /\ q + 2 \in Int /\ C \in Int
    BY <1>2, <1>3
  <2> QED BY <1>4, <2>1, MaxTwo, MinTwo
<1> DEFINE near(b) == \E x \in first .. last : b - (x \div BlockSize) \in -1 .. 1
<1>6. ASSUME NEW b \in 0 .. C - 1, near(b)
      PROVE  p - 1 <= b /\ b <= q + 1
  <2>1. PICK x \in first .. last : b - (x \div BlockSize) \in -1 .. 1
    BY <1>6
  <2>2. x \in Nat /\ first <= x /\ x <= last
    BY <2>1
  <2> DEFINE y == x \div BlockSize
  <2>3. y \in Nat /\ p <= y /\ y <= q
    BY <2>2, Quotient, QuotientMonotonic
  <2>4. b - y \in -1 .. 1
    BY <2>1
  <2> HIDE DEF y, p, q, C, near
  <2> QED BY <1>2, <1>3, <2>3, <2>4
<1>7. ASSUME NEW b \in 0 .. C - 1, p - 1 <= b, b <= q + 1
      PROVE  near(b)
  <2>1. first \in first .. last /\ last \in first .. last
    OBVIOUS
  <2>2. CASE b <= p
    <3>1. b - p \in -1 .. 1
      <4> HIDE DEF p, q, C
      <4> QED BY <1>2, <1>3, <1>7, <2>2
    <3> QED BY <2>1, <3>1
  <2>3. CASE b >= q
    <3>1. b - q \in -1 .. 1
      <4> HIDE DEF p, q, C
      <4> QED BY <1>2, <1>3, <1>7, <2>3
    <3> QED BY <2>1, <3>1
  <2>4. CASE p < b /\ b < q
    <3> DEFINE x == BlockSize * b
    <3>0. b \in Nat
      BY <1>2
    <3>1. x \in Nat /\ first < x /\ x <= last
      BY <2>4, <3>0, BlockBetween
    <3>2. x \div BlockSize = b
      BY <3>0, QuotientOf
    <3>3. b - (x \div BlockSize) \in -1 .. 1
      <4> HIDE DEF x
      <4> QED BY <3>0, <3>2
    <3> HIDE DEF x
    <3>4. x \in first .. last
      BY <3>1
    <3> QED BY <3>3, <3>4
  <2> HIDE DEF p, q, near, C
  <2> QED BY <1>2, <1>3, <2>2, <2>3, <2>4
<1>8. ASSUME NEW b \in Int
      PROVE  b \in r.start .. r.end - 1 <=> b \in 0 .. C - 1 /\ near(b)
  <2>1. b \in r.start .. r.end - 1 <=> b \in 0 .. C - 1 /\ p - 1 <= b /\ b <= q + 1
    <3> HIDE DEF p, q, C, near, r
    <3> QED BY <1>2, <1>3, <1>5
  <2> HIDE DEF r, near, C
  <2> QED BY <1>6, <1>7, <2>1
<1>9. r.start \in Nat /\ r.end \in Int
  <2> HIDE DEF p, q, C, r
  <2> QED BY <1>2, <1>3, <1>5
<1> QED BY <1>4, <1>8, <1>9

-----------------------------------------------------------------------------
\* The runs of a valid map, taken one by one and in pairs.
LEMMA RunsOf ==
  ASSUME NEW w \in Wires, NEW q, NEW kv, NEW sink, ValidWire(w, q, kv, sink)
  PROVE  /\ w.q \in Nat /\ w.kv \in Nat
         /\ Len(w.runs) \in Nat \ {0} /\ DOMAIN w.runs = 1 .. Len(w.runs)
         /\ \A i \in 1 .. Len(w.runs) :
              /\ w.runs[i].begin \in Nat /\ w.runs[i].end \in Nat /\ w.runs[i].kv \in Nat
              /\ w.runs[i].begin < w.runs[i].end
              /\ i > 1 => /\ w.runs[i].begin = w.runs[i - 1].end
                          /\ w.runs[i].kv > w.runs[i - 1].kv + (w.runs[i - 1].end - 1) - w.runs[i - 1].begin
         /\ w.runs[1].begin = 0 /\ w.runs[Len(w.runs)].end = w.q
<1>1. /\ w.q \in Nat /\ w.kv \in Nat /\ w.runs \in Seq([begin : Nat, end : Nat, kv : Nat])
      /\ w.runs # <<>>
  BY DEF Wires, ValidWire
<1>2. Len(w.runs) \in Nat \ {0} /\ DOMAIN w.runs = 1 .. Len(w.runs)
  BY <1>1, EmptySeq, LenProperties
<1>3. \A i \in 1 .. Len(w.runs) : w.runs[i] \in [begin : Nat, end : Nat, kv : Nat]
  BY <1>1, ElementOfSeq
<1>4. w.runs[1].begin = 0 /\ w.runs[Len(w.runs)].end = w.q
  BY DEF ValidWire, Last
<1>5. ASSUME NEW i \in 1 .. Len(w.runs)
      PROVE  /\ w.runs[i].begin < w.runs[i].end
             /\ i > 1 => /\ w.runs[i].begin = w.runs[i - 1].end
                         /\ w.runs[i].kv > w.runs[i - 1].kv + (w.runs[i - 1].end - 1) - w.runs[i - 1].begin
  BY <1>2 DEF ValidWire, Position
<1> QED BY <1>1, <1>2, <1>3, <1>4, <1>5

\* A later run has later rows and later positions.
LEMMA RunsIncrease ==
  ASSUME NEW w \in Wires, NEW q, NEW kv, NEW sink, ValidWire(w, q, kv, sink),
         NEW i \in 1 .. Len(w.runs), NEW j \in 1 .. Len(w.runs), i < j
  PROVE  /\ w.runs[i].end <= w.runs[j].begin
         /\ w.runs[i].kv + (w.runs[i].end - 1) - w.runs[i].begin < w.runs[j].kv
<1> DEFINE r == w.runs
           n == Len(r)
           Good(k) == r[i].end <= r[k].begin /\ r[i].kv + (r[i].end - 1) - r[i].begin < r[k].kv
           Bad == {k \in i + 1 .. n : ~Good(k)}
<1>1. /\ n \in Nat
      /\ \A k \in 1 .. n :
           /\ r[k].begin \in Nat /\ r[k].end \in Nat /\ r[k].kv \in Nat /\ r[k].begin < r[k].end
           /\ k > 1 => /\ r[k].begin = r[k - 1].end
                       /\ r[k].kv > r[k - 1].kv + (r[k - 1].end - 1) - r[k - 1].begin
  BY RunsOf
<1> HIDE DEF r, n
<1>2. SUFFICES ASSUME Bad # {} PROVE FALSE
  <2>1. j \in i + 1 .. n
    BY <1>1 DEF r, n
  <2>2. Good(j)
    BY <1>2, <2>1
  <2> QED BY <2>2 DEF r
<1>3. Bad \subseteq Nat
  BY <1>1 DEF r, n
<1>4. PICK k \in Bad : \A m \in Bad : k <= m
  BY <1>2, <1>3, LeastNatural
<1>5. k \in i + 1 .. n /\ ~Good(k) /\ i \in 1 .. n /\ k \in 1 .. n /\ k > 1 /\ k - 1 \in 1 .. n
  BY <1>1, <1>4 DEF r, n
<1>6. CASE k = i + 1
  BY <1>1, <1>5, <1>6
<1>7. CASE k # i + 1
  <2>1. k - 1 \in i + 1 .. n /\ k - 1 \notin Bad
    <3>1. k - 1 \in i + 1 .. n /\ ~(k <= k - 1)
      BY <1>1, <1>5, <1>7
    <3> HIDE DEF Bad
    <3> QED BY <1>4, <3>1
  <2>2. Good(k - 1)
    BY <2>1
  <2>3. r[k].begin >= r[i].end /\ r[k].kv > r[i].kv + (r[i].end - 1) - r[i].begin
    <3>1. /\ r[i].end \in Nat /\ r[i].kv \in Nat /\ r[i].begin \in Nat
          /\ r[k - 1].begin \in Nat /\ r[k - 1].end \in Nat /\ r[k - 1].kv \in Nat
          /\ r[k - 1].begin < r[k - 1].end
      BY <1>1, <1>5
    <3>2. /\ r[k].begin \in Nat /\ r[k].kv \in Nat /\ r[k].begin = r[k - 1].end
          /\ r[k].kv > r[k - 1].kv + (r[k - 1].end - 1) - r[k - 1].begin
      BY <1>1, <1>5
    <3>3. r[i].end <= r[k - 1].begin /\ r[i].kv + (r[i].end - 1) - r[i].begin < r[k - 1].kv
      BY <2>2
    <3> DEFINE ie == r[i].end
               ik == r[i].kv
               ib == r[i].begin
               pb == r[k - 1].begin
               pe == r[k - 1].end
               pk == r[k - 1].kv
               kb == r[k].begin
               kk == r[k].kv
    <3>4. ie \in Nat /\ ik \in Nat /\ ib \in Nat /\ pb \in Nat /\ pe \in Nat /\ pk \in Nat /\ kb \in Nat /\ kk \in Nat
      BY <3>1, <3>2
    <3>5. pb < pe /\ kb = pe /\ kk > pk + (pe - 1) - pb /\ ie <= pb /\ ik + (ie - 1) - ib < pk
      BY <3>1, <3>2, <3>3
    <3> HIDE DEF ie, ik, ib, pb, pe, pk, kb, kk
    <3>6. kb >= ie /\ kk > ik + (ie - 1) - ib
      BY <3>4, <3>5
    <3> QED BY <3>6 DEF kb, kk, ie, ik, ib
  <2> QED BY <1>1, <1>5, <2>3
<1> QED BY <1>6, <1>7

\* The rows of a run in a tile.
LEMMA PartOfTile ==
  ASSUME NEW w \in Wires, NEW q, NEW kv, NEW sink, ValidWire(w, q, kv, sink),
         NEW t \in QTiles(w), NEW i \in 1 .. Len(w.runs)
  PROVE  /\ First(w, t, i) \in Nat /\ End(w, t, i) \in Nat
         /\ t * BlockSize \in Nat /\ (t + 1) * BlockSize \in Nat
         /\ First(w, t, i) = IF t * BlockSize >= w.runs[i].begin THEN t * BlockSize ELSE w.runs[i].begin
         /\ End(w, t, i) \in {w.q, (t + 1) * BlockSize, w.runs[i].end}
         /\ End(w, t, i) <= w.q /\ End(w, t, i) <= (t + 1) * BlockSize /\ End(w, t, i) <= w.runs[i].end
         /\ \A row \in Int : row \in First(w, t, i) .. End(w, t, i) - 1 <=>
              row \in TileRows(w, t) /\ row \in w.runs[i].begin .. w.runs[i].end - 1
<1>1. w.q \in Nat /\ w.runs[i].begin \in Nat /\ w.runs[i].end \in Nat
  BY RunsOf
<1>2. t \in Nat
  BY DEF QTiles
<1> DEFINE a == t * BlockSize
           z == (t + 1) * BlockSize
           b == w.runs[i].begin
           e == w.runs[i].end
           m == w.q
<1>3. a \in Nat /\ z \in Nat
  BY <1>2, BlockSizeAssumption
<1>4. b \in Nat /\ e \in Nat /\ m \in Nat
  BY <1>1
<1>5. First(w, t, i) = Max({a, b}) /\ End(w, t, i) = Min({m, z, e})
  BY DEF First, End
<1>6. TileRows(w, t) = a .. Min({m, z}) - 1
  BY DEF TileRows
<1>7. w.runs[i].begin = b /\ w.runs[i].end = e /\ t * BlockSize = a /\ (t + 1) * BlockSize = z /\ w.q = m
  OBVIOUS
<1> HIDE DEF a, z, b, e, m
<1>8. Max({a, b}) = (IF a >= b THEN a ELSE b) /\ Min({m, z}) = (IF m <= z THEN m ELSE z)
  BY <1>3, <1>4, MaxTwo, MinTwo
<1>9. /\ Min({m, z, e}) \in {m, z, e}
      /\ Min({m, z, e}) <= m /\ Min({m, z, e}) <= z /\ Min({m, z, e}) <= e
  BY <1>3, <1>4, MinThree
<1>10. ASSUME NEW row \in Int
       PROVE  row \in First(w, t, i) .. End(w, t, i) - 1 <=>
                row \in TileRows(w, t) /\ row \in b .. e - 1
  BY <1>3, <1>4, <1>5, <1>6, <1>8, <1>9
<1> QED BY <1>3, <1>4, <1>5, <1>7, <1>8, <1>9, <1>10

\* The blocks selected for a run are the neighbours of its rows in the tile.
LEMMA RangeOfRun ==
  ASSUME NEW w \in Wires, NEW q, NEW kv, NEW sink, ValidWire(w, q, kv, sink),
         NEW t \in QTiles(w), NEW i \in Met(w, t)
  PROVE  /\ i \in 1 .. Len(w.runs)
         /\ SelectedRange(w, t, i).start \in Nat /\ SelectedRange(w, t, i).end \in Int
         /\ \A b \in Int :
              b \in SelectedRange(w, t, i).start .. SelectedRange(w, t, i).end - 1 <=>
                /\ b \in 0 .. CeilDiv(w.kv) - 1
                /\ \E row \in TileRows(w, t) :
                     /\ row \in w.runs[i].begin .. w.runs[i].end - 1
                     /\ b - (Position(w.runs[i], row) \div BlockSize) \in -1 .. 1
<1>1. i \in 1 .. Len(w.runs)
  BY RunsOf DEF Met
<1>2. /\ w.kv \in Nat /\ w.runs[i].begin \in Nat /\ w.runs[i].end \in Nat /\ w.runs[i].kv \in Nat
  BY <1>1, RunsOf
<1> DEFINE f == First(w, t, i)
           e == End(w, t, i)
           k == w.runs[i].kv
           b0 == w.runs[i].begin
<1>3. f \in Nat /\ e \in Nat /\ f < e /\ b0 <= f
  <2>1. f \in Nat /\ e \in Nat
    BY <1>1, PartOfTile
  <2>2. f < e
    BY DEF Met
  <2>3. f = IF t * BlockSize >= b0 THEN t * BlockSize ELSE b0
    BY <1>1, PartOfTile
  <2>4. t * BlockSize \in Nat
    BY <1>1, PartOfTile
  <2> HIDE DEF f, e, b0
  <2>5. b0 \in Nat
    BY <1>2 DEF b0
  <2> QED BY <2>1, <2>2, <2>3, <2>4, <2>5
<1>4. \A row \in Int : row \in f .. e - 1 <=>
              row \in TileRows(w, t) /\ row \in w.runs[i].begin .. w.runs[i].end - 1
  BY <1>1, PartOfTile
<1> DEFINE p1 == k + f - b0
           p2 == k + (e - 1) - b0
<1>5. SelectedRange(w, t, i) = BlockRange(w, p1, p2)
  BY DEF SelectedRange, Position
<1>6. k \in Nat /\ b0 \in Nat
  BY <1>2
<1>7. \A row \in Int : Position(w.runs[i], row) = k + row - b0
  BY DEF Position
<1>8. \A row \in TileRows(w, t) : row \in Int
  BY DEF TileRows
<1> HIDE DEF f, e, k, b0
<1>9. p1 \in Nat /\ p2 \in Nat /\ p1 <= p2
  BY <1>3, <1>6
<1>10. /\ SelectedRange(w, t, i).start \in Nat /\ SelectedRange(w, t, i).end \in Int
       /\ \A b \in Int :
            b \in SelectedRange(w, t, i).start .. SelectedRange(w, t, i).end - 1 <=>
              /\ b \in 0 .. CeilDiv(w.kv) - 1
              /\ \E x \in p1 .. p2 : b - (x \div BlockSize) \in -1 .. 1
  <2> HIDE DEF p1, p2
  <2>1. /\ BlockRange(w, p1, p2).start \in Nat /\ BlockRange(w, p1, p2).end \in Int
        /\ \A b \in Int :
             b \in BlockRange(w, p1, p2).start .. BlockRange(w, p1, p2).end - 1 <=>
               /\ b \in 0 .. CeilDiv(w.kv) - 1
               /\ \E x \in p1 .. p2 : b - (x \div BlockSize) \in -1 .. 1
    <3>1. w.kv \in Nat
      BY <1>2
    <3> QED BY <3>1, <1>9, RangeIs
  <2> QED BY <1>5, <2>1
<1>11. ASSUME NEW b \in Int
       PROVE  (\E x \in p1 .. p2 : b - (x \div BlockSize) \in -1 .. 1) <=>
              (\E row \in TileRows(w, t) :
                     /\ row \in w.runs[i].begin .. w.runs[i].end - 1
                     /\ b - (Position(w.runs[i], row) \div BlockSize) \in -1 .. 1)
  <2>1. ASSUME NEW x \in p1 .. p2, b - (x \div BlockSize) \in -1 .. 1
        PROVE  \E row \in TileRows(w, t) :
                     /\ row \in w.runs[i].begin .. w.runs[i].end - 1
                     /\ b - (Position(w.runs[i], row) \div BlockSize) \in -1 .. 1
    <3> DEFINE row == x - k + b0
    <3>1. row \in f .. e - 1 /\ row \in Int /\ k + row - b0 = x
      BY <1>3, <1>6, <1>9
    <3> HIDE DEF row
    <3>2. Position(w.runs[i], row) = x
      BY <1>7, <3>1
    <3> QED BY <1>4, <2>1, <3>1, <3>2
  <2>2. ASSUME NEW row \in TileRows(w, t), row \in w.runs[i].begin .. w.runs[i].end - 1,
               b - (Position(w.runs[i], row) \div BlockSize) \in -1 .. 1
        PROVE  \E x \in p1 .. p2 : b - (x \div BlockSize) \in -1 .. 1
    <3>1. row \in Int /\ row \in f .. e - 1
      BY <1>4, <1>8, <2>2
    <3>2. k + row - b0 \in p1 .. p2
      BY <1>3, <1>6, <3>1
    <3>3. b - ((k + row - b0) \div BlockSize) \in -1 .. 1
      BY <1>7, <2>2, <3>1
    <3> QED BY <3>2, <3>3
  <2> QED BY <2>1, <2>2
<1> HIDE DEF p1, p2
<1> QED BY <1>1, <1>10, <1>11

\* A later run of a tile has a later range, and runs of a tile are consecutive.
LEMMA RangesIncrease ==
  ASSUME NEW w \in Wires, NEW q, NEW kv, NEW sink, ValidWire(w, q, kv, sink),
         NEW t \in QTiles(w), NEW i \in Met(w, t), NEW j \in Met(w, t), i < j
  PROVE  /\ SelectedRange(w, t, i).start <= SelectedRange(w, t, j).start
         /\ SelectedRange(w, t, i).end <= SelectedRange(w, t, j).end
         /\ i + 1 \in Met(w, t)
<1>1. i \in 1 .. Len(w.runs) /\ j \in 1 .. Len(w.runs) /\ Len(w.runs) \in Nat
      /\ DOMAIN w.runs = 1 .. Len(w.runs) /\ i + 1 \in 1 .. Len(w.runs)
  BY RunsOf DEF Met
<1>2. w.kv \in Nat /\ w.q \in Nat
  BY RunsOf
<1> DEFINE r == w.runs
           fi == First(w, t, i)
           ei == End(w, t, i)
           fj == First(w, t, j)
           ej == End(w, t, j)
           a == t * BlockSize
           z == (t + 1) * BlockSize
<1>3. /\ r[i].begin \in Nat /\ r[i].end \in Nat /\ r[i].kv \in Nat
      /\ r[j].begin \in Nat /\ r[j].end \in Nat /\ r[j].kv \in Nat
      /\ r[i].end <= r[j].begin
      /\ r[i].kv + (r[i].end - 1) - r[i].begin < r[j].kv
  BY <1>1, RunsOf, RunsIncrease
<1>4. /\ fi \in Nat /\ ei \in Nat /\ a \in Nat /\ z \in Nat
      /\ fi = (IF a >= r[i].begin THEN a ELSE r[i].begin)
      /\ ei <= r[i].end
  BY <1>1, PartOfTile
<1>5. /\ fj \in Nat /\ ej \in Nat
      /\ fj = (IF a >= r[j].begin THEN a ELSE r[j].begin)
      /\ ej <= w.q /\ ej <= z
  BY <1>1, PartOfTile
<1>6. fi < ei /\ fj < ej
  BY DEF Met
<1> DEFINE p1 == r[i].kv + fi - r[i].begin
           p2 == r[i].kv + (ei - 1) - r[i].begin
           q1 == r[j].kv + fj - r[j].begin
           q2 == r[j].kv + (ej - 1) - r[j].begin
<1>7. SelectedRange(w, t, i) = BlockRange(w, p1, p2) /\ SelectedRange(w, t, j) = BlockRange(w, q1, q2)
  BY DEF SelectedRange, Position
<1>8. p1 \in Nat /\ p2 \in Nat /\ q1 \in Nat /\ q2 \in Nat /\ p1 <= p2 /\ p2 <= q1 /\ q1 <= q2
  <2> DEFINE ib == r[i].begin
             ie == r[i].end
             ik == r[i].kv
             jb == r[j].begin
             jk == r[j].kv
  <2>1. ib \in Nat /\ ie \in Nat /\ ik \in Nat /\ jb \in Nat /\ jk \in Nat
        /\ ik + (ie - 1) - ib < jk
    BY <1>3
  <2>2. ib <= fi /\ ei <= ie /\ jb <= fj
    BY <1>3, <1>4, <1>5
  <2> HIDE DEF ib, ie, ik, jb, jk, fi, ei, fj, ej
  <2>3. /\ ik + fi - ib \in Nat /\ ik + (ei - 1) - ib \in Nat /\ jk + fj - jb \in Nat
        /\ jk + (ej - 1) - jb \in Nat
        /\ ik + fi - ib <= ik + (ei - 1) - ib /\ ik + (ei - 1) - ib <= jk + fj - jb
        /\ jk + fj - jb <= jk + (ej - 1) - jb
    BY <1>4, <1>5, <1>6, <2>1, <2>2
  <2> QED BY <2>3 DEF ib, ik, jb, jk
<1>9. i + 1 \in Met(w, t)
  <2>1. CASE i + 1 = j
    BY <2>1
  <2>2. CASE i + 1 # j
    <3> DEFINE k == i + 1
               fk == First(w, t, k)
               ek == End(w, t, k)
    <3>1. k \in 1 .. Len(r) /\ i < k /\ k < j
      BY <1>1, <2>2
    <3>2. /\ r[k].begin \in Nat /\ r[k].end \in Nat /\ r[k].begin < r[k].end
          /\ r[i].end <= r[k].begin /\ r[k].end <= r[j].begin
      BY <1>1, <3>1, RunsOf, RunsIncrease
    <3>3. /\ fk \in Nat /\ ek \in Nat
          /\ fk = (IF a >= r[k].begin THEN a ELSE r[k].begin)
          /\ ek \in {w.q, z, r[k].end}
      BY <3>1, PartOfTile
    <3>4. fk < ek
      <4> HIDE DEF r, fi, ei, fj, ej, fk, ek, a, z, k
      <4>1. a < r[k].begin
        BY <1>3, <1>4, <1>6, <3>2
      <4>2. fk = r[k].begin
        BY <1>4, <3>2, <3>3, <4>1
      <4>3. r[k].end < ej
        BY <1>3, <1>4, <1>5, <1>6, <3>2
      <4> QED BY <1>2, <1>4, <1>5, <3>2, <3>3, <4>2, <4>3
    <3>5. k \in DOMAIN w.runs
      BY <1>1
    <3> QED BY <3>4, <3>5 DEF Met
  <2> QED BY <2>1, <2>2
<1> HIDE DEF p1, p2, q1, q2
<1>10. p1 <= q1 /\ p2 <= q2 /\ p1 <= p2 /\ q1 <= q2
  BY <1>8
<1> DEFINE P1 == p1 \div BlockSize
           P2 == p2 \div BlockSize
           Q1 == q1 \div BlockSize
           Q2 == q2 \div BlockSize
           C == CeilDiv(w.kv)
<1>11. P1 \in Nat /\ P2 \in Nat /\ Q1 \in Nat /\ Q2 \in Nat /\ P1 <= Q1 /\ P2 <= Q2 /\ C \in Nat
  <2>1. w.kv + BlockSize - 1 \in Nat
    BY <1>2, BlockSizeAssumption
  <2> QED BY <1>8, <1>10, <2>1, Quotient, QuotientMonotonic DEF CeilDiv
<1>12. /\ SelectedRange(w, t, i).start = Max({0, P1 - 1}) /\ SelectedRange(w, t, i).end = Min({C, P2 + 2})
       /\ SelectedRange(w, t, j).start = Max({0, Q1 - 1}) /\ SelectedRange(w, t, j).end = Min({C, Q2 + 2})
  BY <1>7 DEF BlockRange
<1> HIDE DEF P1, P2, Q1, Q2, C
<1>13. /\ Max({0, P1 - 1}) = (IF 0 >= P1 - 1 THEN 0 ELSE P1 - 1)
       /\ Max({0, Q1 - 1}) = (IF 0 >= Q1 - 1 THEN 0 ELSE Q1 - 1)
       /\ Min({C, P2 + 2}) = (IF C <= P2 + 2 THEN C ELSE P2 + 2)
       /\ Min({C, Q2 + 2}) = (IF C <= Q2 + 2 THEN C ELSE Q2 + 2)
  <2>1. 0 \in Int /\ P1 - 1 \in Int /\ Q1 - 1 \in Int /\ C \in Int /\ P2 + 2 \in Int /\ Q2 + 2 \in Int
    BY <1>11
  <2> QED BY <2>1, MaxTwo, MinTwo
<1>14. Max({0, P1 - 1}) <= Max({0, Q1 - 1}) /\ Min({C, P2 + 2}) <= Min({C, Q2 + 2})
  BY <1>11, <1>13
<1> QED BY <1>9, <1>12, <1>14

\* Ranges that merge leave no gap.
LEMMA RangesJoin ==
  ASSUME NEW w \in Wires, NEW q, NEW kv, NEW sink, ValidWire(w, q, kv, sink),
         NEW t \in QTiles(w), Met(w, t) # {}, Merging(w, t), NEW b \in Int
  PROVE  b \in MergedInterval(w, t).start .. MergedInterval(w, t).end - 1 <=>
           \E i \in Met(w, t) : b \in SelectedRange(w, t, i).start .. SelectedRange(w, t, i).end - 1
<1> DEFINE M == Met(w, t)
           n == Len(w.runs)
           S(i) == SelectedRange(w, t, i).start
           E(i) == SelectedRange(w, t, i).end
           a == Min(M)
           z == Max(M)
<1>1. n \in Nat /\ M \subseteq 1 .. n /\ M \subseteq Nat /\ M \subseteq 0 .. n
  BY RunsOf DEF Met
<1>2. a \in M /\ \A i \in M : a <= i
  BY <1>1, MinNat
<1>3. z \in M /\ \A i \in M : i <= z
  BY <1>1, MaxNat
<1>4. \A i \in M : S(i) \in Nat /\ E(i) \in Int
  BY RangeOfRun
<1>5. \A i, j \in M : i < j => S(i) <= S(j) /\ E(i) <= E(j) /\ i + 1 \in M
  BY RangesIncrease
<1>6. \A i \in M : i + 1 \in M => S(i + 1) <= E(i)
  BY DEF Merging
<1>7. MergedInterval(w, t) = [start |-> S(a), end |-> E(z)]
  BY DEF MergedInterval
<1>8. MergedInterval(w, t).start = S(a) /\ MergedInterval(w, t).end = E(z)
  BY <1>7
<1> HIDE DEF M, n, S, E, a, z
<1>9. ASSUME NEW i \in M, b \in S(i) .. E(i) - 1
      PROVE  b \in S(a) .. E(z) - 1
  <2>1. S(a) <= S(i)
    <3>1. CASE a = i
      BY <1>4, <3>1
    <3>2. CASE a # i
      <4>1. a < i
        BY <1>1, <1>2, <3>2
      <4> QED BY <1>2, <1>5, <4>1
    <3> QED BY <3>1, <3>2
  <2>2. E(i) <= E(z)
    <3>1. CASE z = i
      BY <1>4, <3>1
    <3>2. CASE z # i
      <4>1. i < z
        BY <1>1, <1>3, <3>2
      <4> QED BY <1>3, <1>5, <4>1
    <3> QED BY <3>1, <3>2
  <2>3. S(a) \in Nat /\ S(i) \in Nat /\ E(i) \in Int /\ E(z) \in Int
    BY <1>2, <1>3, <1>4
  <2> QED BY <1>9, <2>1, <2>2, <2>3
<1>10. ASSUME b \in S(a) .. E(z) - 1
       PROVE  \E i \in M : b \in S(i) .. E(i) - 1
  <2> DEFINE G == {i \in M : S(i) <= b}
  <2>0. S(a) \in Nat /\ E(z) \in Int
    BY <1>2, <1>3, <1>4
  <2>1. a \in G /\ G \subseteq 0 .. n
    <3>1. S(a) <= b
      BY <1>10, <2>0
    <3> QED BY <1>1, <1>2, <3>1
  <2>2. PICK i \in G : \A m \in G : m <= i
    <3> HIDE DEF G
    <3> QED BY <1>1, <2>1, GreatestNatural
  <2>3. i \in M /\ S(i) <= b
    BY <2>2
  <2>4. S(i) \in Nat /\ E(i) \in Int
    BY <1>4, <2>3
  <2>5. CASE i = z
    BY <1>10, <2>0, <2>3, <2>4, <2>5
  <2>6. CASE i # z
    <3>1. i < z
      BY <1>1, <1>3, <2>3, <2>6
    <3>2. i + 1 \in M
      BY <1>3, <1>5, <2>3, <3>1
    <3>3. i + 1 \notin G
      <4>1. i \in Nat
        BY <1>1, <2>3
      <4>2. ~(i + 1 <= i)
        BY <4>1
      <4> HIDE DEF G
      <4> QED BY <2>2, <4>2
    <3>4. ~(S(i + 1) <= b) /\ S(i + 1) \in Nat /\ S(i + 1) <= E(i)
      BY <1>4, <1>6, <2>3, <3>2, <3>3
    <3>5. b \in S(i) .. E(i) - 1
      BY <2>3, <2>4, <3>4
    <3> QED BY <2>3, <3>5
  <2> QED BY <2>5, <2>6
<1> QED BY <1>8, <1>9, <1>10 DEF M, S, E

\* A row of a tile that a run covers puts the run into the tile.
LEMMA MetBy ==
  ASSUME NEW w \in Wires, NEW q, NEW kv, NEW sink, ValidWire(w, q, kv, sink),
         NEW t \in QTiles(w), NEW i \in DOMAIN w.runs, NEW row \in TileRows(w, t),
         row \in w.runs[i].begin .. w.runs[i].end - 1
  PROVE  i \in Met(w, t)
<1>1. i \in 1 .. Len(w.runs)
  BY RunsOf
<1>2. row \in Int
  BY DEF TileRows
<1>3. row \in First(w, t, i) .. End(w, t, i) - 1 /\ First(w, t, i) \in Nat /\ End(w, t, i) \in Nat
  BY <1>1, <1>2, PartOfTile
<1>4. First(w, t, i) < End(w, t, i)
  <2> DEFINE f == First(w, t, i)
             e == End(w, t, i)
  <2>1. row \in f .. e - 1 /\ f \in Nat /\ e \in Nat
    BY <1>3
  <2> HIDE DEF f, e
  <2>2. f < e
    BY <2>1
  <2> QED BY <2>2 DEF f, e
<1> QED BY <1>4 DEF Met

\* The interval of an accepted tile is its rows' neighbouring blocks.
LEMMA NeighboursAre ==
  ASSUME NEW w \in Wires, NEW q, NEW kv, NEW sink, ValidWire(w, q, kv, sink),
         NEW t \in QTiles(w), Accepted(w, t)
  PROVE  MergedInterval(w, t).start .. MergedInterval(w, t).end - 1 = NeighbourBlocks(w, t)
<1> DEFINE s == MergedInterval(w, t).start
           e == MergedInterval(w, t).end
           near(i, b) == \E row \in TileRows(w, t) :
                            /\ row \in w.runs[i].begin .. w.runs[i].end - 1
                            /\ b - (Position(w.runs[i], row) \div BlockSize) \in -1 .. 1
<1>1. Met(w, t) # {} /\ Merging(w, t)
  BY DEF Accepted
<1>2. ASSUME NEW b \in s .. e - 1, b \in Int PROVE b \in NeighbourBlocks(w, t)
  <2>1. PICK i \in Met(w, t) : b \in SelectedRange(w, t, i).start .. SelectedRange(w, t, i).end - 1
    BY <1>1, <1>2, RangesJoin
  <2>2. b \in 0 .. CeilDiv(w.kv) - 1 /\ near(i, b)
    BY <1>2, <2>1, RangeOfRun
  <2>3. i \in DOMAIN w.runs
    BY DEF Met
  <2> QED BY <2>2, <2>3 DEF NeighbourBlocks
<1>3. ASSUME NEW b \in NeighbourBlocks(w, t) PROVE b \in s .. e - 1
  <2>1. b \in 0 .. CeilDiv(w.kv) - 1
    BY DEF NeighbourBlocks
  <2>2. PICK row \in TileRows(w, t), i \in DOMAIN w.runs :
           /\ row \in w.runs[i].begin .. w.runs[i].end - 1
           /\ b - (Position(w.runs[i], row) \div BlockSize) \in -1 .. 1
    BY DEF NeighbourBlocks
  <2>3. i \in Met(w, t)
    BY <2>2, MetBy
  <2>4. b \in Int
    BY <2>1
  <2>5. b \in SelectedRange(w, t, i).start .. SelectedRange(w, t, i).end - 1
    BY <2>1, <2>2, <2>3, <2>4, RangeOfRun
  <2> QED BY <1>1, <2>3, <2>4, <2>5, RangesJoin
<1>4. \A b \in s .. e - 1 : b \in Int
  OBVIOUS
<1> HIDE DEF s, e
<1>5. s .. e - 1 = NeighbourBlocks(w, t)
  BY <1>2, <1>3, <1>4
<1> QED BY <1>5 DEF s, e

\* The intervals that compile_descriptor makes of a valid map select, for every
\* query tile, the blocks next to the positions of its rows and no others.
THEOREM CompileSound ==
  ASSUME NEW w \in Wires, NEW q, NEW kv, NEW sink, ValidWire(w, q, kv, sink),
         CompileDescriptor(w) \notin {None, Unavailable}
  PROVE  Selected(CompileDescriptor(w)) = Intended(w)
<1>1. ~IdentityAligned(w) /\ \A t \in QTiles(w) : Accepted(w, t)
  BY DEF CompileDescriptor
<1>2. CompileDescriptor(w) = [t \in QTiles(w) |-> MergedInterval(w, t)]
  BY <1>1 DEF CompileDescriptor
<1>3. \A t \in QTiles(w) :
        MergedInterval(w, t).start .. MergedInterval(w, t).end - 1 = NeighbourBlocks(w, t)
  BY <1>1, NeighboursAre
<1> DEFINE d == [t \in QTiles(w) |-> MergedInterval(w, t)]
<1>4. [t \in DOMAIN d |-> d[t].start .. d[t].end - 1] = [t \in QTiles(w) |-> NeighbourBlocks(w, t)]
  BY <1>3
<1> QED BY <1>2, <1>4 DEF Selected, Intended

-----------------------------------------------------------------------------
(***************************************************************************)
(* The caches of device tensors.                                           *)
(***************************************************************************)

\* A hit keeps the cache within its limits, with the same blocks.
LEMMA TouchedOK ==
  ASSUME NEW S, \A e \in S : e.size \in Nat, NEW c, c = [entries |-> c.entries, bytes |-> c.bytes],
         c.entries \in Seq(S), NEW limit, CacheOK(c, limit), NEW key, Hit(c, key)
  PROVE  LET t == Touched(c, key)
         IN  /\ t = [entries |-> t.entries, bytes |-> t.bytes] /\ t.entries \in Seq(S)
             /\ CacheOK(t, limit) /\ BlocksOf(t) = BlocksOf(c)
             /\ EntryOf(c, key) \in S /\ EntryOf(c, key).key = key
             /\ \E i \in DOMAIN c.entries : EntryOf(c, key) = c.entries[i]
             /\ \A k \in DOMAIN t.entries : \E j \in DOMAIN c.entries : t.entries[k] = c.entries[j]
<1> DEFINE t == Touched(c, key)
           L == Len(c.entries)
<1>1. /\ EntryOf(c, key) \in S /\ EntryOf(c, key).key = key
      /\ \E i \in 1 .. L : EntryOf(c, key) = c.entries[i]
      /\ t = [entries |-> t.entries, bytes |-> c.bytes]
      /\ t.entries \in Seq(S) /\ Len(t.entries) = L /\ Sizes(t.entries) = Sizes(c.entries)
  BY TouchedEntries
<1>2. PICK i, p : i \in 1 .. L /\ Moved(p, L, i) /\ \A k \in 1 .. L : t.entries[k] = c.entries[p[k]]
  BY TouchedEntries
<1> HIDE DEF t
<1>3. L \in Nat /\ DOMAIN c.entries = 1 .. L /\ DOMAIN t.entries = 1 .. L
  BY <1>1, LenProperties
<1>4. /\ p \in [1 .. L -> 1 .. L]
      /\ \A j, k \in 1 .. L : j # k => p[j] # p[k]
      /\ \A k \in 1 .. L : \E j \in 1 .. L : p[j] = k
  BY <1>2, <1>3, MovedOnce
<1>5. t.bytes = c.bytes
  BY <1>1
<1>6. CacheOK(t, limit)
  <2>1. \A j, k \in 1 .. L : j # k => c.entries[j].key # c.entries[k].key /\ c.entries[j].block # c.entries[k].block
    BY <1>3 DEF CacheOK
  <2>2. \A j, k \in 1 .. L : j # k => t.entries[j].key # t.entries[k].key /\ t.entries[j].block # t.entries[k].block
    <3> SUFFICES ASSUME NEW j \in 1 .. L, NEW k \in 1 .. L, j # k
                 PROVE  t.entries[j].key # t.entries[k].key /\ t.entries[j].block # t.entries[k].block
      OBVIOUS
    <3>1. p[j] \in 1 .. L /\ p[k] \in 1 .. L /\ p[j] # p[k]
      BY <1>4
    <3>2. t.entries[j] = c.entries[p[j]] /\ t.entries[k] = c.entries[p[k]]
      BY <1>2
    <3> QED BY <2>1, <3>1, <3>2
  <2>3. t.bytes = Sizes(t.entries) /\ Len(t.entries) <= limit.entries /\ t.bytes <= limit.bytes
    BY <1>1, <1>5 DEF CacheOK
  <2> QED BY <1>3, <2>2, <2>3 DEF CacheOK
<1>7. BlocksOf(t) = BlocksOf(c)
  <2>1. ASSUME NEW k \in 1 .. L PROVE t.entries[k].block \in BlocksOf(c)
    <3>1. p[k] \in 1 .. L /\ t.entries[k] = c.entries[p[k]]
      BY <1>2, <1>4
    <3> QED BY <1>3, <3>1 DEF BlocksOf
  <2>2. ASSUME NEW k \in 1 .. L PROVE c.entries[k].block \in BlocksOf(t)
    <3>1. PICK j \in 1 .. L : p[j] = k
      BY <1>4
    <3>2. t.entries[j] = c.entries[k]
      BY <1>2, <3>1
    <3> QED BY <1>3, <3>2 DEF BlocksOf
  <2> QED BY <1>3, <2>1, <2>2 DEF BlocksOf
<1>8. \A k \in 1 .. L : p[k] \in DOMAIN c.entries /\ t.entries[k] = c.entries[p[k]]
  BY <1>2, <1>3, <1>4
<1>9. \A k \in DOMAIN t.entries : \E j \in DOMAIN c.entries : t.entries[k] = c.entries[j]
  BY <1>3, <1>8
<1>10. t = [entries |-> t.entries, bytes |-> t.bytes]
  BY <1>1, <1>5
<1> QED BY <1>1, <1>3, <1>6, <1>7, <1>9, <1>10 DEF t

\* A miss, and the trim after it, keeps the cache within its limits: it holds
\* old entries and perhaps the new one.
LEMMA StoredOK ==
  ASSUME NEW S, \A e \in S : e.size \in Nat, NEW c, c = [entries |-> c.entries, bytes |-> c.bytes],
         c.entries \in Seq(S), NEW limit \in [entries : Nat, bytes : Nat], CacheOK(c, limit),
         NEW e \in S, ~Hit(c, e.key), e.block \notin BlocksOf(c)
  PROVE  LET t == Trimmed(Stored(c, e), limit)
         IN  /\ t = [entries |-> t.entries, bytes |-> t.bytes] /\ t.entries \in Seq(S)
             /\ CacheOK(t, limit) /\ BlocksOf(t) \subseteq BlocksOf(c) \union {e.block}
             /\ \A k \in DOMAIN t.entries :
                  t.entries[k] = e \/ \E j \in DOMAIN c.entries : t.entries[k] = c.entries[j]
<1> DEFINE s == Append(c.entries, e)
           t == Trimmed(Stored(c, e), limit)
           L == Len(c.entries)
<1>1. L \in Nat /\ DOMAIN c.entries = 1 .. L
  BY LenProperties
<1>2. /\ s \in Seq(S) /\ Len(s) = L + 1
      /\ \A i \in 1 .. L : s[i] = c.entries[i]
      /\ s[L + 1] = e
  BY AppendProperties
<1>3. Sizes(s) = Sizes(c.entries) + e.size
  <2>1. <<e>> \in Seq(S) /\ Sizes(<<e>>) = e.size
    <3>1. e.size \in Nat
      OBVIOUS
    <3>2. <<e>> \in Seq(S)
      OBVIOUS
    <3> QED BY <3>1, <3>2, SizesSingle
  <2>2. s = c.entries \o <<e>>
    BY AppendIsConcat
  <2>3. Sizes(c.entries \o <<e>>) = Sizes(c.entries) + Sizes(<<e>>)
    BY <2>1, SizesConcat
  <2> QED BY <2>1, <2>2, <2>3
<1>4. Stored(c, e) = [entries |-> s, bytes |-> Sizes(s)]
  BY <1>3 DEF Stored, CacheOK
<1> HIDE DEF s
<1>5. PICK n \in 0 .. Len(s) :
         /\ t = [entries |-> SubSeq(s, n + 1, Len(s)), bytes |-> Sizes(SubSeq(s, n + 1, Len(s)))]
         /\ Len(t.entries) <= limit.entries /\ t.bytes <= limit.bytes
  BY <1>2, <1>4, TrimmedEntriesFit
<1> DEFINE u == SubSeq(s, n + 1, Len(s))
<1>6. /\ u \in Seq(S)
      /\ Len(u) = IF n + 1 <= Len(s) THEN Len(s) - (n + 1) + 1 ELSE 0
      /\ \A i \in 1 .. Len(s) - (n + 1) + 1 : u[i] = s[n + 1 + i - 1]
  <2>1. n + 1 \in Nat \ {0} /\ Len(s) \in 0 .. Len(s)
    BY <1>1, <1>2
  <2>2. \A q \in Nat \ {0}, m \in 0 .. Len(s) :
           /\ SubSeq(s, q, m) \in Seq(S)
           /\ Len(SubSeq(s, q, m)) = IF q <= m THEN m - q + 1 ELSE 0
           /\ \A i \in 1 .. m - q + 1 : SubSeq(s, q, m)[i] = s[q + i - 1]
    BY <1>2, Part
  <2> QED BY <2>1, <2>2
<1> HIDE DEF t
<1>0. t = [entries |-> u, bytes |-> Sizes(u)]
  BY <1>5
<1> HIDE DEF u
<1>7. t.entries = u /\ t.bytes = Sizes(u)
  BY <1>0
<1>8. /\ Len(u) = L + 1 - n /\ DOMAIN u = 1 .. L + 1 - n
      /\ \A i \in 1 .. L + 1 - n : n + i \in 1 .. L + 1 /\ u[i] = s[n + i]
  <2>1. Len(u) = L + 1 - n
    <3>1. Len(u) = IF n + 1 <= L + 1 THEN L + 1 - (n + 1) + 1 ELSE 0
      BY <1>2, <1>6
    <3>2. L \in Nat /\ n \in 0 .. L + 1
      BY <1>1, <1>2
    <3> QED BY <3>1, <3>2
  <2>2. DOMAIN u = 1 .. Len(u)
    BY <1>6, LenProperties
  <2>3. ASSUME NEW i \in 1 .. L + 1 - n PROVE n + i \in 1 .. L + 1 /\ u[i] = s[n + i]
    <3>1. i \in 1 .. Len(s) - (n + 1) + 1 /\ n + 1 + i - 1 = n + i /\ n + i \in 1 .. L + 1
      BY <1>1, <1>2
    <3> QED BY <1>6, <3>1
  <2> QED BY <2>1, <2>2, <2>3
<1>9. \A i, j \in 1 .. L + 1 : i # j => s[i].key # s[j].key /\ s[i].block # s[j].block
  <2>1. \A i, j \in 1 .. L : i # j => c.entries[i].key # c.entries[j].key /\ c.entries[i].block # c.entries[j].block
    BY <1>1 DEF CacheOK
  <2>2. \A i \in 1 .. L : c.entries[i].key # e.key /\ c.entries[i].block # e.block
    BY <1>1 DEF Hit, At, BlocksOf
  <2>3. \A i \in 1 .. L + 1 : i \in 1 .. L \/ i = L + 1
    BY <1>1
  <2> QED BY <1>2, <2>1, <2>2, <2>3
<1>10. CacheOK(t, limit)
  <2>1. ASSUME NEW i \in DOMAIN u, NEW j \in DOMAIN u, i # j
        PROVE  u[i].key # u[j].key /\ u[i].block # u[j].block
    <3>1. n + i \in 1 .. L + 1 /\ n + j \in 1 .. L + 1 /\ u[i] = s[n + i] /\ u[j] = s[n + j]
      BY <1>8
    <3>2. n + i # n + j
      BY <1>1, <1>2, <1>8, <2>1
    <3> QED BY <1>9, <3>1, <3>2
  <2>2. Len(u) <= limit.entries /\ Sizes(u) <= limit.bytes
    BY <1>5, <1>7
  <2> QED BY <1>7, <2>1, <2>2 DEF CacheOK
<1>11. ASSUME NEW k \in DOMAIN u
       PROVE  u[k] = e \/ \E j \in DOMAIN c.entries : u[k] = c.entries[j]
  <2>1. n + k \in 1 .. L + 1 /\ u[k] = s[n + k]
    BY <1>8
  <2>2. n + k \in 1 .. L \/ n + k = L + 1
    BY <1>1, <2>1
  <2> QED BY <1>1, <1>2, <2>1, <2>2
<1>12. BlocksOf(t) \subseteq BlocksOf(c) \union {e.block}
  BY <1>7, <1>11 DEF BlocksOf
<1>13. t = [entries |-> t.entries, bytes |-> t.bytes]
  BY <1>0
<1> QED BY <1>6, <1>7, <1>10, <1>11, <1>12, <1>13 DEF t

-----------------------------------------------------------------------------
(***************************************************************************)
(* The device: what a queue leaves in a block.                             *)
(***************************************************************************)

\* A queue that others were enqueued on.
Extended(q, r) == Len(q) <= Len(r) /\ \A k \in 1 .. Len(q) : r[k] = q[k]

\* What earlier operations leave in a block stays what it was.
LEMMA ExtendedLeaves ==
  ASSUME NEW q \in Seq(Operations), NEW r \in Seq(Operations), Extended(q, r),
         NEW n \in 0 .. Len(q), NEW b, NEW v, NEW c, Leaves(q, n, b, v, c)
  PROVE  Leaves(r, n, b, v, c)
<1>1. Len(q) \in Nat /\ \A k \in 1 .. n : r[k] = q[k]
  BY LenProperties DEF Extended
<1>2. CASE v = c /\ Unwritten(q, 1, n, b)
  BY <1>1, <1>2 DEF Leaves, Unwritten
<1>3. ASSUME NEW k \in 1 .. n, IsWrite(q[k], b), q[k].content = c, Unwritten(q, k + 1, n, b)
      PROVE  Leaves(r, n, b, v, c)
  <2>1. Unwritten(r, k + 1, n, b)
    BY <1>1, <1>3 DEF Unwritten
  <2>2. r[k] = q[k]
    BY <1>1
  <2> QED BY <1>3, <2>1, <2>2 DEF Leaves
<1> QED BY <1>2, <1>3 DEF Leaves

\* What lies in a block, or will, stays if nobody writes to it.
LEMMA ExtendedKeeps ==
  ASSUME NEW q \in Seq(Operations), NEW r \in Seq(Operations), Extended(q, r),
         NEW b, Unwritten(r, Len(q) + 1, Len(r), b), NEW v, NEW c
  PROVE  /\ Settled(q, b, v, c) => Settled(r, b, v, c)
         /\ \A e : Coming(q, b, c, e) => Coming(r, b, c, e)
         /\ Leaves(q, Len(q), b, v, c) => Leaves(r, Len(r), b, v, c)
<1>1. Len(q) \in Nat /\ Len(r) \in Nat /\ Len(q) <= Len(r) /\ \A k \in 1 .. Len(q) : r[k] = q[k]
  BY LenProperties DEF Extended
<1>2. ASSUME NEW m \in 1 .. Len(q) + 1, Unwritten(q, m, Len(q), b)
      PROVE  Unwritten(r, m, Len(r), b)
  <2> SUFFICES ASSUME NEW j \in m .. Len(r) PROVE ~IsWrite(r[j], b)
    BY DEF Unwritten
  <2>1. CASE j <= Len(q)
    BY <1>1, <1>2, <2>1 DEF Unwritten
  <2>2. CASE j > Len(q)
    BY <1>1, <2>2 DEF Unwritten
  <2> QED BY <1>1, <2>1, <2>2
<1>3. 1 \in 1 .. Len(q) + 1 /\ \A k \in 1 .. Len(q) : k + 1 \in 1 .. Len(q) + 1 /\ k \in 1 .. Len(r)
  BY <1>1
<1>4. Settled(q, b, v, c) => Settled(r, b, v, c)
  BY <1>2, <1>3 DEF Settled
<1>5. ASSUME NEW e, Coming(q, b, c, e) PROVE Coming(r, b, c, e)
  <2>1. PICK k \in 1 .. Len(q) : q[k] = Write(b, c, e) /\ Unwritten(q, k + 1, Len(q), b)
    BY <1>5 DEF Coming
  <2>2. Unwritten(r, k + 1, Len(r), b)
    BY <1>2, <1>3, <2>1
  <2> QED BY <1>1, <1>3, <2>1, <2>2 DEF Coming
<1>6. ASSUME Leaves(q, Len(q), b, v, c) PROVE Leaves(r, Len(r), b, v, c)
  <2>1. CASE v = c /\ Unwritten(q, 1, Len(q), b)
    BY <1>2, <1>3, <2>1 DEF Leaves
  <2>2. ASSUME NEW k \in 1 .. Len(q), IsWrite(q[k], b), q[k].content = c, Unwritten(q, k + 1, Len(q), b)
        PROVE  Leaves(r, Len(r), b, v, c)
    <3>1. Unwritten(r, k + 1, Len(r), b)
      BY <1>2, <1>3, <2>2
    <3> QED BY <1>1, <1>3, <2>2, <3>1 DEF Leaves
  <2> QED BY <1>6, <2>1, <2>2 DEF Leaves
<1> QED BY <1>4, <1>5, <1>6

\* The first operation is executed.
LEMMA TailIs ==
  ASSUME NEW q \in Seq(Operations), q # <<>>
  PROVE  /\ Len(q) \in Nat \ {0} /\ Head(q) = q[1] /\ Head(q) \in Operations
         /\ Tail(q) \in Seq(Operations) /\ Len(Tail(q)) = Len(q) - 1
         /\ \A k \in 1 .. Len(q) - 1 : Tail(q)[k] = q[k + 1] /\ k + 1 \in 1 .. Len(q)
<1>1. Len(q) \in Nat \ {0}
  BY EmptySeq
<1>2. Head(q) \in Operations /\ Tail(q) \in Seq(Operations) /\ Len(Tail(q)) = Len(q) - 1
      /\ \A k \in 1 .. Len(Tail(q)) : Tail(q)[k] = q[k + 1]
  BY HeadTailProperties
<1>3. Head(q) = q[1]
  OBVIOUS
<1> QED BY <1>1, <1>2, <1>3

\* The same operations, counted without the first one.
LEMMA TailUnwritten ==
  ASSUME NEW q \in Seq(Operations), q # <<>>, NEW b, NEW m \in Nat, NEW n \in 0 .. Len(q) - 1,
         Unwritten(q, m + 1, n + 1, b), m >= 1
  PROVE  Unwritten(Tail(q), m, n, b)
<1> SUFFICES ASSUME NEW j \in m .. n PROVE ~IsWrite(Tail(q)[j], b)
  BY DEF Unwritten
<1>1. Len(q) \in Nat \ {0} /\ \A k \in 1 .. Len(q) - 1 : Tail(q)[k] = q[k + 1]
  BY TailIs
<1>2. j \in 1 .. Len(q) - 1 /\ j + 1 \in m + 1 .. n + 1
  BY <1>1
<1>3. ~IsWrite(q[j + 1], b)
  BY <1>2 DEF Unwritten
<1> QED BY <1>1, <1>2, <1>3

\* What operations leave in a block, once the first one is executed.
LEMMA TailLeaves ==
  ASSUME NEW q \in Seq(Operations), q # <<>>, NEW b, NEW v, NEW c, NEW n \in 1 .. Len(q),
         Leaves(q, n, b, v, c)
  PROVE  Leaves(Tail(q), n - 1, b, IF IsWrite(q[1], b) THEN q[1].content ELSE v, c)
<1> DEFINE r == Tail(q)
           u == IF IsWrite(q[1], b) THEN q[1].content ELSE v
<1>1. Len(q) \in Nat \ {0} /\ \A k \in 1 .. Len(q) - 1 : r[k] = q[k + 1]
  BY TailIs
<1>2. n - 1 \in 0 .. Len(q) - 1 /\ n - 1 + 1 = n /\ 1 \in 1 .. n /\ 1 \in Nat /\ 1 >= 1
  BY <1>1
<1>3. ASSUME v = c, Unwritten(q, 1, n, b)
      PROVE  Leaves(r, n - 1, b, u, c)
  <2>1. ~IsWrite(q[1], b) /\ Unwritten(q, 1 + 1, n, b)
    BY <1>2, <1>3 DEF Unwritten
  <2>2. Unwritten(r, 1, n - 1, b)
    BY <1>2, <2>1, TailUnwritten
  <2> QED BY <1>3, <2>1, <2>2 DEF Leaves
<1>4. ASSUME NEW k \in 1 .. n, IsWrite(q[k], b), q[k].content = c, Unwritten(q, k + 1, n, b)
      PROVE  Leaves(r, n - 1, b, u, c)
  <2>1. CASE k = 1
    <3>1. u = c
      BY <1>4, <2>1
    <3>2. Unwritten(r, 1, n - 1, b)
      BY <1>2, <1>4, <2>1, TailUnwritten
    <3> HIDE DEF u, r
    <3> QED BY <3>1, <3>2 DEF Leaves
  <2>2. CASE k > 1
    <3>1. k - 1 \in 1 .. n - 1 /\ k - 1 \in 1 .. Len(q) - 1 /\ k - 1 + 1 = k /\ k \in Nat /\ k >= 1
      BY <1>1, <2>2
    <3>2. r[k - 1] = q[k]
      BY <1>1, <3>1
    <3>3. Unwritten(r, k, n - 1, b)
      BY <1>2, <1>4, <3>1, TailUnwritten
    <3>4. Unwritten(r, k - 1 + 1, n - 1, b)
      BY <3>1, <3>3
    <3> HIDE DEF u, r
    <3> QED BY <1>4, <3>1, <3>2, <3>4 DEF Leaves
  <2>3. k = 1 \/ k > 1
    BY <1>1
  <2> HIDE DEF u, r
  <2> QED BY <2>1, <2>2, <2>3
<1> HIDE DEF u, r
<1>5. Leaves(r, n - 1, b, u, c)
  BY <1>3, <1>4 DEF Leaves
<1> QED BY <1>5 DEF u, r

\* What is settled stays so, and what comes has come or still comes.
LEMMA TailSettled ==
  ASSUME NEW q \in Seq(Operations), q # <<>>, NEW b, NEW v, NEW c
  PROVE  /\ Settled(q, b, v, c) => ~IsWrite(q[1], b) /\ Settled(Tail(q), b, v, c)
         /\ \A e : Coming(q, b, c, e) =>
              \/ q[1] = Write(b, c, e) /\ Settled(Tail(q), b, c, c)
              \/ Coming(Tail(q), b, c, e)
<1> DEFINE r == Tail(q)
<1>1. /\ Len(q) \in Nat \ {0} /\ Len(r) = Len(q) - 1
      /\ \A k \in 1 .. Len(q) - 1 : r[k] = q[k + 1]
  BY TailIs
<1>2. /\ Len(q) - 1 \in 0 .. Len(q) - 1 /\ Len(q) - 1 + 1 = Len(q)
      /\ 1 \in 1 .. Len(q) /\ 1 \in Nat /\ 1 >= 1
  BY <1>1
<1>3. ASSUME Settled(q, b, v, c)
      PROVE  ~IsWrite(q[1], b) /\ Settled(r, b, v, c)
  <2>1. v = c /\ ~IsWrite(q[1], b) /\ Unwritten(q, 1 + 1, Len(q), b)
    BY <1>2, <1>3 DEF Settled, Unwritten
  <2>2. Unwritten(r, 1, Len(q) - 1, b)
    BY <1>2, <2>1, TailUnwritten
  <2> QED BY <1>1, <2>1, <2>2 DEF Settled
<1>4. ASSUME NEW e, Coming(q, b, c, e)
      PROVE  (q[1] = Write(b, c, e) /\ Settled(r, b, c, c)) \/ Coming(r, b, c, e)
  <2>1. PICK k \in 1 .. Len(q) : q[k] = Write(b, c, e) /\ Unwritten(q, k + 1, Len(q), b)
    BY <1>4 DEF Coming
  <2>2. CASE k = 1
    <3>1. Unwritten(r, 1, Len(q) - 1, b)
      BY <1>2, <2>1, <2>2, TailUnwritten
    <3> QED BY <1>1, <2>1, <2>2, <3>1 DEF Settled
  <2>3. CASE k > 1
    <3>1. k - 1 \in 1 .. Len(q) - 1 /\ k - 1 + 1 = k /\ k \in Nat /\ k >= 1
      BY <1>1, <2>3
    <3>2. Unwritten(r, k, Len(q) - 1, b)
      BY <1>2, <2>1, <3>1, TailUnwritten
    <3>3. r[k - 1] = Write(b, c, e) /\ Unwritten(r, k - 1 + 1, Len(r), b)
      BY <1>1, <2>1, <3>1, <3>2
    <3> QED BY <1>1, <3>1, <3>3 DEF Coming
  <2>4. k = 1 \/ k > 1
    BY <1>1
  <2> QED BY <2>2, <2>3, <2>4
<1> QED BY <1>3, <1>4

-----------------------------------------------------------------------------
(***************************************************************************)
(* The host enqueues operations.                                           *)
(***************************************************************************)

\* What the host does to the device: it enqueues operations and changes the
\* allocator's records.
Fresh(Q, R, s) == Len(Q[s]) + 1 .. Len(R[s])

BlocksKept(B, A) ==
  \A b \in Blocks :
    /\ B[b].home \in Streams => A[b].home = B[b].home
    /\ B[b].users \union B[b].waiting \subseteq A[b].users \union A[b].waiting
    /\ B[b].waiting # {} => A[b] = B[b]

FreshWrites(Q, R, B, A, N, P) ==
  \A s \in Streams : \A k \in Fresh(Q, R, s) :
    R[s][k].op = "write" =>
      /\ A[R[s][k].block].home = s
      /\ B[R[s][k].block].users \union B[R[s][k].block].waiting = {}
      /\ R[s][k].event # 0 =>
           /\ R[s][k].event = N + 1 /\ P = N + 1
           /\ \A t \in Streams : \A j \in Fresh(Q, R, t) :
                R[t][j].op = "write" /\ R[t][j].event = R[s][k].event => t = s /\ j = k

FreshPasses(Q, R, B, A) ==
  \A s \in Streams : \A k \in Fresh(Q, R, s) :
    R[s][k].op = "passed" =>
      /\ B[R[s][k].block].live /\ ~A[R[s][k].block].live /\ s \in A[R[s][k].block].waiting
      /\ \A j \in Fresh(Q, R, s) : R[s][j] = R[s][k] => j = k

FreshKernels(Q, R, M, A, P) ==
  \A s \in Streams : \A k \in Fresh(Q, R, s) :
    R[s][k].op = "kernel" =>
      \A r \in R[s][k].reads :
        /\ A[r.block].home \in Streams
        /\ Readable(R, M, A, P, s, k - 1, r.block, r.content)
        /\ s # A[r.block].home =>
             /\ s \in A[r.block].users \union A[r.block].waiting
             /\ \A j \in 1 .. k : R[s][j] # Passed(r.block)

Enqueued(Q, R, M, F, B, A, N, P) ==
  /\ DeviceTypes(R, M, F, A, P) /\ N \in Nat /\ N <= P
  /\ Q \in [Streams -> Seq(Operations)]
  /\ \A s \in Streams : Extended(Q[s], R[s])
  /\ BlocksKept(B, A)

\* An operation of an extended queue is a new one or an old one.
LEMMA FreshOrOld ==
  ASSUME NEW Q \in [Streams -> Seq(Operations)], NEW R \in [Streams -> Seq(Operations)],
         NEW s \in Streams, Extended(Q[s], R[s]), NEW k \in 1 .. Len(R[s])
  PROVE  /\ Len(Q[s]) \in Nat /\ Len(R[s]) \in Nat /\ Len(Q[s]) <= Len(R[s])
         /\ R[s][k] \in Operations
         /\ k \in Fresh(Q, R, s) \/ (k \in 1 .. Len(Q[s]) /\ R[s][k] = Q[s][k])
<1>1. Q[s] \in Seq(Operations) /\ R[s] \in Seq(Operations)
  OBVIOUS
<1>2. Len(Q[s]) \in Nat /\ Len(R[s]) \in Nat
  BY <1>1, LenProperties
<1>3. R[s][k] \in Operations
  BY <1>1, ElementOfSeq
<1> QED BY <1>2, <1>3 DEF Fresh, Extended

\* The four kinds of operations.
LEMMA OperationTypes ==
  ASSUME NEW o \in Operations
  PROVE  /\ o.op \in {"write", "wait", "kernel", "passed"}
         /\ o.op = "write" => o \in Writes
         /\ o.op = "wait" => o \in Waits
         /\ o.op = "kernel" => o \in Kernels
         /\ o.op = "passed" => o \in Passes
BY DEF Operations, Writes, Waits, Kernels, Passes

\* What a stream can read of a block nobody writes to, it still can.
LEMMA Kept ==
  ASSUME NEW Q, NEW R, NEW M, NEW F, NEW B, NEW A, NEW N, NEW P,
         Enqueued(Q, R, M, F, B, A, N, P),
         NEW b \in Blocks, B[b].home \in Streams,
         \A k \in Fresh(Q, R, B[b].home) : ~IsWrite(R[B[b].home][k], b)
  PROVE  /\ A[b].home = B[b].home
         /\ \A v, c : Settled(Q[B[b].home], b, v, c) => Settled(R[A[b].home], b, v, c)
         /\ \A c, e : Coming(Q[B[b].home], b, c, e) => Coming(R[A[b].home], b, c, e)
         /\ \A s \in Streams : \A n, m, c :
              /\ n \in Nat /\ m \in Nat /\ n <= m /\ n <= Len(Q[s])
              /\ s = B[b].home => n = Len(Q[s]) /\ m = Len(R[s])
              /\ Readable(Q, M, B, N, s, n, b, c)
              => Readable(R, M, A, P, s, m, b, c)
<1> DEFINE h == B[b].home
<1>1. /\ Q \in [Streams -> Seq(Operations)] /\ R \in [Streams -> Seq(Operations)]
      /\ \A s \in Streams : Extended(Q[s], R[s])
      /\ BlocksKept(B, A) /\ N \in Nat /\ P \in Nat /\ N <= P
  BY DEF Enqueued, DeviceTypes
<1>2. A[b].home = h
  BY <1>1 DEF BlocksKept
<1>3. Q[h] \in Seq(Operations) /\ R[h] \in Seq(Operations) /\ Extended(Q[h], R[h])
      /\ Unwritten(R[h], Len(Q[h]) + 1, Len(R[h]), b)
  BY <1>1 DEF Fresh, Unwritten
<1>4. \A v, c : /\ Settled(Q[h], b, v, c) => Settled(R[h], b, v, c)
                /\ \A e : Coming(Q[h], b, c, e) => Coming(R[h], b, c, e)
                /\ Leaves(Q[h], Len(Q[h]), b, v, c) => Leaves(R[h], Len(R[h]), b, v, c)
  BY <1>3, ExtendedKeeps
<1>5. ASSUME NEW s \in Streams, NEW n \in Nat, NEW m \in Nat, NEW c, n <= m, n <= Len(Q[s]),
             s = h => n = Len(Q[s]) /\ m = Len(R[s]),
             Readable(Q, M, B, N, s, n, b, c)
      PROVE  Readable(R, M, A, P, s, m, b, c)
  <2>1. CASE s = h
    BY <1>2, <1>4, <1>5, <2>1 DEF Readable
  <2>2. CASE s # h /\ Settled(Q[h], b, M[b], c)
    BY <1>2, <1>4, <2>2 DEF Readable
  <2>3. ASSUME s # h, NEW e \in 1 .. N, Coming(Q[h], b, c, e), NEW j \in 1 .. n, Q[s][j] = WaitEvent(e)
        PROVE  Readable(R, M, A, P, s, m, b, c)
    <3>0. e \in 1 .. P
      BY <1>1, <2>3
    <3>1. Coming(R[h], b, c, e)
      BY <1>4, <2>3
    <3>2. Len(Q[s]) \in Nat
      BY <1>1, LenProperties
    <3>3. j \in 1 .. m /\ j \in 1 .. Len(Q[s])
      BY <1>5, <3>2
    <3>4. R[s][j] = WaitEvent(e)
      BY <1>1, <2>3, <3>3 DEF Extended
    <3> QED BY <1>2, <2>3, <3>0, <3>1, <3>3, <3>4 DEF Readable
  <2> QED BY <1>5, <2>1, <2>2, <2>3 DEF Readable
<1> QED BY <1>2, <1>4, <1>5

\* Kernels go on finding what they read when others are enqueued,
LEMMA KernelsKept ==
  ASSUME NEW Q, NEW R, NEW M, NEW F, NEW B, NEW A, NEW N, NEW P,
         DeviceOK(Q, M, F, B, N), Enqueued(Q, R, M, F, B, A, N, P),
         FreshWrites(Q, R, B, A, N, P), FreshKernels(Q, R, M, A, P)
  PROVE  KernelsReady(R, M, A, P)
<1>1. /\ Q \in [Streams -> Seq(Operations)] /\ R \in [Streams -> Seq(Operations)]
      /\ \A s \in Streams : Extended(Q[s], R[s])
      /\ BlocksKept(B, A)
  BY DEF Enqueued, DeviceTypes
<1> SUFFICES ASSUME NEW s \in Streams, NEW k \in 1 .. Len(R[s]), R[s][k].op = "kernel",
                    NEW r \in R[s][k].reads
             PROVE  /\ A[r.block].home \in Streams
                    /\ Readable(R, M, A, P, s, k - 1, r.block, r.content)
                    /\ s # A[r.block].home =>
                         /\ s \in A[r.block].users \union A[r.block].waiting
                         /\ \A j \in 1 .. k : R[s][j] # Passed(r.block)
  BY DEF KernelsReady
<1>2. /\ Len(Q[s]) \in Nat /\ Len(R[s]) \in Nat /\ R[s][k] \in Operations
      /\ k \in Fresh(Q, R, s) \/ (k \in 1 .. Len(Q[s]) /\ R[s][k] = Q[s][k])
  BY <1>1, FreshOrOld
<1>3. CASE k \in Fresh(Q, R, s)
  BY <1>3 DEF FreshKernels
<1>4. CASE k \in 1 .. Len(Q[s]) /\ R[s][k] = Q[s][k]
  <2> DEFINE b == r.block
             c == r.content
  <2>1. b \in Blocks
    <3>1. R[s][k] \in Kernels
      BY <1>2, OperationTypes
    <3> QED BY <3>1 DEF Kernels, Reading
  <2>2. /\ B[b].home \in Streams
        /\ Readable(Q, M, B, N, s, k - 1, b, c)
        /\ s # B[b].home =>
             /\ s \in B[b].users \union B[b].waiting
             /\ \A j \in 1 .. k : Q[s][j] # Passed(b)
    BY <1>4 DEF DeviceOK, KernelsReady
  <2> HIDE DEF b, c
  <2>3. A[b].home = B[b].home /\ B[b].users \union B[b].waiting \subseteq A[b].users \union A[b].waiting
    BY <1>1, <2>1, <2>2 DEF BlocksKept
  <2>4. \A j \in 1 .. k : j \in 1 .. Len(Q[s]) /\ R[s][j] = Q[s][j]
    BY <1>1, <1>2, <1>4 DEF Extended
  <2>5. k - 1 \in Nat /\ k - 1 <= Len(Q[s]) /\ k - 1 \in 0 .. Len(Q[s])
    BY <1>2, <1>4
  <2>6. CASE s = B[b].home
    <3>1. Leaves(Q[s], k - 1, b, M[b], c)
      BY <2>2, <2>6 DEF Readable
    <3>2. Q[s] \in Seq(Operations) /\ R[s] \in Seq(Operations) /\ Extended(Q[s], R[s])
      BY <1>1
    <3>3. Leaves(R[s], k - 1, b, M[b], c)
      BY <2>5, <3>1, <3>2, ExtendedLeaves
    <3>4. Readable(R, M, A, P, s, k - 1, b, c)
      BY <2>3, <2>6, <3>3 DEF Readable
    <3> QED BY <2>2, <2>3, <2>6, <3>4 DEF b, c
  <2>7. CASE s # B[b].home
    <3>1. B[b].users \union B[b].waiting # {}
      BY <2>2, <2>7
    <3>2. ASSUME NEW j \in Fresh(Q, R, B[b].home) PROVE ~IsWrite(R[B[b].home][j], b)
      BY <2>2, <3>1 DEF FreshWrites, IsWrite
    <3>3. Readable(R, M, A, P, s, k - 1, b, c)
      <4>1. /\ k - 1 \in Nat /\ k - 1 <= k - 1 /\ k - 1 <= Len(Q[s])
            /\ s = B[b].home => k - 1 = Len(Q[s]) /\ k - 1 = Len(R[s])
            /\ Readable(Q, M, B, N, s, k - 1, b, c)
        BY <2>2, <2>5, <2>7
      <4>2. \A t \in Streams : \A n, m, d :
              /\ n \in Nat /\ m \in Nat /\ n <= m /\ n <= Len(Q[t])
              /\ t = B[b].home => n = Len(Q[t]) /\ m = Len(R[t])
              /\ Readable(Q, M, B, N, t, n, b, d)
              => Readable(R, M, A, P, t, m, b, d)
        BY <2>1, <2>2, <3>2, Kept
      <4> QED BY <4>1, <4>2
    <3>4. \A j \in 1 .. k : R[s][j] # Passed(b)
      BY <2>2, <2>4, <2>7
    <3> QED BY <2>2, <2>3, <2>7, <3>3, <3>4 DEF b, c
  <2> QED BY <2>6, <2>7
<1> QED BY <1>2, <1>3, <1>4

\* pending writes stay those of their block's home stream,
LEMMA WritesKept ==
  ASSUME NEW Q, NEW R, NEW M, NEW F, NEW B, NEW A, NEW N, NEW P,
         DeviceOK(Q, M, F, B, N), Enqueued(Q, R, M, F, B, A, N, P),
         FreshWrites(Q, R, B, A, N, P)
  PROVE  WritesPending(R, F, A, P)
<1>1. /\ Q \in [Streams -> Seq(Operations)] /\ R \in [Streams -> Seq(Operations)]
      /\ \A s \in Streams : Extended(Q[s], R[s])
      /\ BlocksKept(B, A) /\ N \in Nat /\ P \in Nat /\ N <= P /\ F \subseteq 0 .. N
  BY DEF Enqueued, DeviceTypes, DeviceOK
<1>2. ASSUME NEW s \in Streams, NEW k \in 1 .. Len(R[s])
      PROVE  /\ R[s][k] \in Operations
             /\ k \in Fresh(Q, R, s) \/ (k \in 1 .. Len(Q[s]) /\ R[s][k] = Q[s][k])
  <2>1. Extended(Q[s], R[s])
    BY <1>1
  <2> QED BY <1>1, <2>1, FreshOrOld
<1> SUFFICES ASSUME NEW s \in Streams, NEW k \in 1 .. Len(R[s]), R[s][k].op = "write"
             PROVE  /\ A[R[s][k].block].home = s
                    /\ R[s][k].event # 0 =>
                         /\ R[s][k].event \in 1 .. P /\ R[s][k].event \notin F
                         /\ \A t \in Streams : \A j \in 1 .. Len(R[t]) :
                              R[t][j].op = "write" /\ R[t][j].event = R[s][k].event => t = s /\ j = k
  BY DEF WritesPending
<1>3. CASE k \in Fresh(Q, R, s)
  <2>1. A[R[s][k].block].home = s
    BY <1>3 DEF FreshWrites
  <2>2. ASSUME R[s][k].event # 0
        PROVE  /\ R[s][k].event \in 1 .. P /\ R[s][k].event \notin F
               /\ \A t \in Streams : \A j \in 1 .. Len(R[t]) :
                    R[t][j].op = "write" /\ R[t][j].event = R[s][k].event => t = s /\ j = k
    <3>1. /\ R[s][k].event = N + 1 /\ P = N + 1
          /\ \A t \in Streams : \A j \in Fresh(Q, R, t) :
               R[t][j].op = "write" /\ R[t][j].event = R[s][k].event => t = s /\ j = k
      BY <1>3, <2>2 DEF FreshWrites
    <3>2. R[s][k].event \in 1 .. P /\ R[s][k].event \notin F
      BY <1>1, <3>1
    <3>3. ASSUME NEW t \in Streams, NEW j \in 1 .. Len(R[t]), R[t][j].op = "write",
                 R[t][j].event = R[s][k].event
          PROVE  t = s /\ j = k
      <4>1. CASE j \in Fresh(Q, R, t)
        BY <3>1, <3>3, <4>1
      <4>2. CASE j \in 1 .. Len(Q[t]) /\ R[t][j] = Q[t][j]
        <5>1. Q[t][j].op = "write" /\ Q[t][j].event = N + 1 /\ N + 1 # 0
          BY <1>1, <3>1, <3>3, <4>2
        <5>2. N + 1 \in 1 .. N
          BY <4>2, <5>1 DEF DeviceOK, WritesPending
        <5> QED BY <1>1, <5>2
      <4> QED BY <1>2, <4>1, <4>2
    <3> QED BY <3>2, <3>3
  <2> QED BY <2>1, <2>2
<1>4. CASE k \in 1 .. Len(Q[s]) /\ R[s][k] = Q[s][k]
  <2>0. R[s][k].block \in Blocks
    BY <1>2, OperationTypes DEF Writes
  <2>1. B[R[s][k].block].home = s
    BY <1>4 DEF DeviceOK, WritesPending
  <2>2. A[R[s][k].block].home = s
    BY <1>1, <2>0, <2>1 DEF BlocksKept
  <2>3. ASSUME R[s][k].event # 0
        PROVE  /\ R[s][k].event \in 1 .. P /\ R[s][k].event \notin F
               /\ \A t \in Streams : \A j \in 1 .. Len(R[t]) :
                    R[t][j].op = "write" /\ R[t][j].event = R[s][k].event => t = s /\ j = k
    <3>1. /\ R[s][k].event \in 1 .. N /\ R[s][k].event \notin F
          /\ \A t \in Streams : \A j \in 1 .. Len(Q[t]) :
               Q[t][j].op = "write" /\ Q[t][j].event = R[s][k].event => t = s /\ j = k
      BY <1>4, <2>3 DEF DeviceOK, WritesPending
    <3>2. R[s][k].event \in 1 .. P /\ R[s][k].event # N + 1
      BY <1>1, <3>1
    <3>3. ASSUME NEW t \in Streams, NEW j \in 1 .. Len(R[t]), R[t][j].op = "write",
                 R[t][j].event = R[s][k].event
          PROVE  t = s /\ j = k
      <4>1. CASE j \in Fresh(Q, R, t)
        <5>1. R[t][j].event = N + 1
          BY <2>3, <3>3, <4>1 DEF FreshWrites
        <5> QED BY <3>2, <3>3, <5>1
      <4>2. CASE j \in 1 .. Len(Q[t]) /\ R[t][j] = Q[t][j]
        BY <3>1, <3>3, <4>2
      <4> QED BY <1>2, <4>1, <4>2
    <3> QED BY <3>1, <3>2, <3>3
  <2> QED BY <2>2, <2>3
<1> QED BY <1>2, <1>3, <1>4

\* and the allocator's events stay those of blocks it waits for.
LEMMA PassesKept ==
  ASSUME NEW Q, NEW R, NEW M, NEW F, NEW B, NEW A, NEW N, NEW P,
         DeviceOK(Q, M, F, B, N), Enqueued(Q, R, M, F, B, A, N, P),
         FreshPasses(Q, R, B, A)
  PROVE  PassesPending(R, A)
<1>1. /\ Q \in [Streams -> Seq(Operations)] /\ R \in [Streams -> Seq(Operations)]
      /\ \A s \in Streams : Extended(Q[s], R[s])
      /\ BlocksKept(B, A)
  BY DEF Enqueued, DeviceTypes, DeviceOK
<1>2. ASSUME NEW s \in Streams, NEW k \in 1 .. Len(R[s])
      PROVE  /\ R[s][k] \in Operations
             /\ k \in Fresh(Q, R, s) \/ (k \in 1 .. Len(Q[s]) /\ R[s][k] = Q[s][k])
  <2>1. Extended(Q[s], R[s])
    BY <1>1
  <2> QED BY <1>1, <2>1, FreshOrOld
<1> SUFFICES ASSUME NEW s \in Streams, NEW k \in 1 .. Len(R[s]), R[s][k].op = "passed"
             PROVE  /\ ~A[R[s][k].block].live /\ s \in A[R[s][k].block].waiting
                    /\ \A j \in 1 .. Len(R[s]) : R[s][j] = R[s][k] => j = k
  BY DEF PassesPending
<1>3. CASE k \in Fresh(Q, R, s)
  <2>1. /\ B[R[s][k].block].live /\ ~A[R[s][k].block].live /\ s \in A[R[s][k].block].waiting
        /\ \A j \in Fresh(Q, R, s) : R[s][j] = R[s][k] => j = k
    BY <1>3 DEF FreshPasses
  <2>2. ASSUME NEW j \in 1 .. Len(R[s]), R[s][j] = R[s][k] PROVE j = k
    <3>1. CASE j \in 1 .. Len(Q[s]) /\ R[s][j] = Q[s][j]
      BY <2>1, <2>2, <3>1 DEF DeviceOK, PassesPending
    <3> QED BY <1>2, <2>1, <2>2, <3>1
  <2> QED BY <2>1, <2>2
<1>4. CASE k \in 1 .. Len(Q[s]) /\ R[s][k] = Q[s][k]
  <2>0. R[s][k].block \in Blocks
    BY <1>2, OperationTypes DEF Passes
  <2>1. /\ ~B[R[s][k].block].live /\ s \in B[R[s][k].block].waiting
        /\ \A j \in 1 .. Len(Q[s]) : Q[s][j] = Q[s][k] => j = k
    BY <1>4 DEF DeviceOK, PassesPending
  <2>2. A[R[s][k].block] = B[R[s][k].block]
    BY <1>1, <2>0, <2>1 DEF BlocksKept
  <2>3. ASSUME NEW j \in 1 .. Len(R[s]), R[s][j] = R[s][k] PROVE j = k
    <3>1. CASE j \in Fresh(Q, R, s)
      BY <2>1, <2>3, <3>1 DEF FreshPasses
    <3> QED BY <1>2, <1>4, <2>1, <2>3, <3>1
  <2> QED BY <2>1, <2>2, <2>3
<1> QED BY <1>2, <1>3, <1>4

\* Enqueueing keeps the device's invariant.
LEMMA DeviceGrows ==
  ASSUME NEW Q, NEW R, NEW M, NEW F, NEW B, NEW A, NEW N, NEW P,
         DeviceOK(Q, M, F, B, N), Enqueued(Q, R, M, F, B, A, N, P), BlocksFit(A),
         FreshWrites(Q, R, B, A, N, P), FreshPasses(Q, R, B, A), FreshKernels(Q, R, M, A, P)
  PROVE  DeviceOK(R, M, F, A, P)
<1>1. DeviceTypes(R, M, F, A, P)
  BY DEF Enqueued
<1> QED BY <1>1, KernelsKept, WritesKept, PassesKept DEF DeviceOK

-----------------------------------------------------------------------------
(***************************************************************************)
(* The device executes an operation.                                       *)
(***************************************************************************)

\* What the device does on stream s: the first operation goes.
Popped(Q, M, F, B, s, R, W, G, A) ==
  /\ s \in Streams /\ Q[s] # <<>>
  /\ Q[s][1].op = "wait" => Q[s][1].event \in F
  /\ R = [Q EXCEPT ![s] = Tail(Q[s])]
  /\ W = IF Q[s][1].op = "write" THEN [M EXCEPT ![Q[s][1].block] = Q[s][1].content] ELSE M
  /\ G = IF Q[s][1].op = "write" THEN F \union {Q[s][1].event} ELSE F
  /\ A = IF Q[s][1].op = "passed" THEN [B EXCEPT ![Q[s][1].block].waiting = @ \ {s}] ELSE B

Before(s, t, k) == IF t = s THEN k + 1 ELSE k

\* What operation o of stream s leaves in the blocks.
Left(M, W, B, A, o, s) ==
  \A b \in Blocks :
    /\ A[b].live = B[b].live /\ A[b].home = B[b].home /\ A[b].users = B[b].users
    /\ A[b].waiting = IF o = Passed(b) THEN B[b].waiting \ {s} ELSE B[b].waiting
    /\ W[b] = IF IsWrite(o, b) THEN o.content ELSE M[b]
    /\ IsWrite(o, b) => B[b].home = s

\* The queues after the first operation of one is executed.
LEMMA PoppedQueues ==
  ASSUME NEW Q, NEW R, NEW M, NEW W, NEW F, NEW G, NEW B, NEW A, NEW N, NEW s,
         DeviceOK(Q, M, F, B, N), Popped(Q, M, F, B, s, R, W, G, A)
  PROVE  /\ R \in [Streams -> Seq(Operations)]
         /\ 1 \in 1 .. Len(Q[s]) /\ Q[s][1] \in Operations
         /\ R[s] = Tail(Q[s]) /\ Len(R[s]) = Len(Q[s]) - 1
         /\ \A t \in Streams : t # s => R[t] = Q[t]
         /\ \A t \in Streams : \A k \in 1 .. Len(R[t]) :
              /\ Before(s, t, k) \in 1 .. Len(Q[t]) /\ Before(s, t, k) # 0 /\ k \in Nat
              /\ R[t][k] = Q[t][Before(s, t, k)] /\ R[t][k] \in Operations
              /\ t = s => Before(s, t, k) # 1
<1>1. Q \in [Streams -> Seq(Operations)] /\ s \in Streams /\ Q[s] # <<>>
      /\ R = [Q EXCEPT ![s] = Tail(Q[s])]
  BY DEF DeviceOK, DeviceTypes, Popped
<1>2. /\ Q[s] \in Seq(Operations) /\ Len(Q[s]) \in Nat \ {0} /\ Q[s][1] \in Operations
      /\ Tail(Q[s]) \in Seq(Operations) /\ Len(Tail(Q[s])) = Len(Q[s]) - 1
      /\ \A k \in 1 .. Len(Q[s]) - 1 : Tail(Q[s])[k] = Q[s][k + 1] /\ k + 1 \in 1 .. Len(Q[s])
  BY <1>1, TailIs
<1>3. R \in [Streams -> Seq(Operations)] /\ R[s] = Tail(Q[s]) /\ \A t \in Streams : t # s => R[t] = Q[t]
  BY <1>1, <1>2
<1>4. ASSUME NEW t \in Streams, NEW k \in 1 .. Len(R[t])
      PROVE  /\ Before(s, t, k) \in 1 .. Len(Q[t]) /\ Before(s, t, k) # 0 /\ k \in Nat
             /\ R[t][k] = Q[t][Before(s, t, k)] /\ R[t][k] \in Operations
             /\ t = s => Before(s, t, k) # 1
  <2>1. R[t] \in Seq(Operations) /\ Len(R[t]) \in Nat /\ R[t][k] \in Operations
    BY <1>3, ElementOfSeq, LenProperties
  <2>2. CASE t = s
    <3>1. Before(s, t, k) = k + 1 /\ k \in 1 .. Len(Q[s]) - 1
      BY <1>2, <1>3, <2>2 DEF Before
    <3>2. R[t][k] = Q[t][k + 1] /\ k + 1 \in 1 .. Len(Q[t])
      BY <1>2, <1>3, <2>2, <3>1
    <3> QED BY <2>1, <3>1, <3>2
  <2>3. CASE t # s
    BY <1>3, <2>1, <2>3 DEF Before
  <2> QED BY <2>2, <2>3
<1>5. 1 \in 1 .. Len(Q[s])
  BY <1>2
<1> QED BY <1>2, <1>3, <1>4, <1>5

\* The memory and the allocator's records after it.
LEMMA PoppedBlocks ==
  ASSUME NEW Q, NEW R, NEW M, NEW W, NEW F, NEW G, NEW B, NEW A, NEW N, NEW s,
         DeviceOK(Q, M, F, B, N), Popped(Q, M, F, B, s, R, W, G, A)
  PROVE  /\ DeviceTypes(R, W, G, A, N) /\ BlocksFit(A)
         /\ Left(M, W, B, A, Q[s][1], s)
<1> DEFINE o == Q[s][1]
<1>1. /\ R \in [Streams -> Seq(Operations)] /\ o \in Operations /\ 1 \in 1 .. Len(Q[s])
  BY PoppedQueues
<1>2. /\ s \in Streams /\ M \in [Blocks -> Contents] /\ N \in Nat /\ F \subseteq 0 .. N
      /\ B \in [Blocks -> Records] /\ BlocksFit(B) /\ WritesPending(Q, F, B, N)
      /\ W = IF o.op = "write" THEN [M EXCEPT ![o.block] = o.content] ELSE M
      /\ G = IF o.op = "write" THEN F \union {o.event} ELSE F
      /\ A = IF o.op = "passed" THEN [B EXCEPT ![o.block].waiting = @ \ {s}] ELSE B
  BY DEF DeviceOK, DeviceTypes, Popped
<1>3. o.op = "write" => o.block \in Blocks /\ o.content \in Contents /\ o.event \in Nat
  <2>1. o.op = "write" => o \in Writes
    BY <1>1, OperationTypes
  <2> QED BY <2>1 DEF Writes
<1>4. o.op = "passed" => o.block \in Blocks /\ o = Passed(o.block)
  <2>1. o.op = "passed" => o \in Passes
    BY <1>1, OperationTypes
  <2> HIDE DEF o
  <2> QED BY <2>1 DEF Passes, Passed
<1>5. \A b \in Blocks : o = Passed(b) => o.op = "passed" /\ o.block = b
  BY DEF Passed
<1>6. o.op = "write" => B[o.block].home = s /\ o.event \in 0 .. N
  <2>1. o.op = "write" => B[o.block].home = s /\ (o.event # 0 => o.event \in 1 .. N)
    BY <1>1, <1>2 DEF WritesPending
  <2> HIDE DEF o
  <2> QED BY <1>2, <1>3, <2>1
<1> HIDE DEF o
<1>7. W \in [Blocks -> Contents] /\ G \subseteq 0 .. N
  BY <1>2, <1>3, <1>6
<1>8. \A b \in Blocks : /\ W[b] = IF IsWrite(o, b) THEN o.content ELSE M[b]
                        /\ IsWrite(o, b) => B[b].home = s
  BY <1>2, <1>3, <1>6 DEF IsWrite
<1>9. ASSUME NEW b \in Blocks
      PROVE  A[b] = IF o = Passed(b) THEN [B[b] EXCEPT !.waiting = @ \ {s}] ELSE B[b]
  <2>1. CASE o.op = "passed"
    BY <1>2, <1>4, <1>5, <2>1
  <2>2. CASE o.op # "passed"
    BY <1>2, <1>5, <2>2
  <2> QED BY <2>1, <2>2
<1>10. \A b \in Blocks : B[b] \in Records
  BY <1>2
<1>11. A \in [Blocks -> Records]
  <2>1. DOMAIN A = Blocks /\ A = [b \in Blocks |-> A[b]]
    BY <1>2
  <2>2. ASSUME NEW b \in Blocks PROVE A[b] \in Records
    BY <1>2, <1>9, <1>10 DEF Records
  <2> QED BY <2>1, <2>2
<1>12. ASSUME NEW b \in Blocks
       PROVE  /\ A[b].live = B[b].live /\ A[b].home = B[b].home /\ A[b].users = B[b].users
              /\ A[b].waiting = IF o = Passed(b) THEN B[b].waiting \ {s} ELSE B[b].waiting
  BY <1>9, <1>10 DEF Records
<1>13. BlocksFit(A)
  <2> SUFFICES ASSUME NEW b \in Blocks
               PROVE  /\ A[b].live => A[b].home \in Streams /\ A[b].waiting = {}
                      /\ ~A[b].live => A[b].users = {}
                      /\ A[b].home \notin A[b].users \union A[b].waiting
                      /\ A[b].waiting # {} => A[b].home \in Streams
    BY DEF BlocksFit
  <2>1. /\ B[b].live => B[b].home \in Streams /\ B[b].waiting = {}
        /\ ~B[b].live => B[b].users = {}
        /\ B[b].home \notin B[b].users \union B[b].waiting
        /\ B[b].waiting # {} => B[b].home \in Streams
    BY <1>2 DEF BlocksFit
  <2>2. A[b].waiting \subseteq B[b].waiting
    BY <1>12
  <2> QED BY <1>12, <2>1, <2>2
<1>14. DeviceTypes(R, W, G, A, N)
  BY <1>1, <1>2, <1>7, <1>11 DEF DeviceTypes
<1>15. Left(M, W, B, A, o, s)
  BY <1>8, <1>12 DEF Left
<1> QED BY <1>13, <1>14, <1>15 DEF o

\* What lies in a block, or will, still does or has come.
LEMMA PoppedArrives ==
  ASSUME NEW Q, NEW R, NEW M, NEW W, NEW F, NEW G, NEW B, NEW A, NEW N, NEW s,
         DeviceOK(Q, M, F, B, N), Popped(Q, M, F, B, s, R, W, G, A),
         NEW b \in Blocks, B[b].home \in Streams, NEW c
  PROVE  /\ Settled(Q[B[b].home], b, M[b], c) => Settled(R[A[b].home], b, W[b], c)
         /\ \A e : Coming(Q[B[b].home], b, c, e) =>
              Settled(R[A[b].home], b, W[b], c) \/ Coming(R[A[b].home], b, c, e)
<1> DEFINE h == B[b].home
<1>1. /\ R[s] = Tail(Q[s]) /\ \A t \in Streams : t # s => R[t] = Q[t]
  BY PoppedQueues
<1>2. /\ A[b].home = h
      /\ W[b] = IF IsWrite(Q[s][1], b) THEN Q[s][1].content ELSE M[b]
      /\ IsWrite(Q[s][1], b) => h = s
  <2>1. Left(M, W, B, A, Q[s][1], s)
    BY PoppedBlocks
  <2> QED BY <2>1 DEF Left
<1>3. Q[s] \in Seq(Operations) /\ Q[s] # <<>>
  BY DEF DeviceOK, DeviceTypes, Popped
<1>4. CASE h = s
  <2>1. /\ Settled(Q[s], b, M[b], c) => ~IsWrite(Q[s][1], b) /\ Settled(R[s], b, M[b], c)
        /\ \A e : Coming(Q[s], b, c, e) =>
             \/ Q[s][1] = Write(b, c, e) /\ Settled(R[s], b, c, c)
             \/ Coming(R[s], b, c, e)
    BY <1>1, <1>3, TailSettled
  <2>2. \A e : Q[s][1] = Write(b, c, e) => IsWrite(Q[s][1], b) /\ Q[s][1].content = c
    BY DEF Write, IsWrite
  <2> QED BY <1>2, <1>4, <2>1, <2>2
<1>5. CASE h # s
  BY <1>1, <1>2, <1>5
<1> QED BY <1>4, <1>5

\* What a stream will find in a block it still will.
LEMMA PoppedReadable ==
  ASSUME NEW Q, NEW R, NEW M, NEW W, NEW F, NEW G, NEW B, NEW A, NEW N, NEW s,
         DeviceOK(Q, M, F, B, N), Popped(Q, M, F, B, s, R, W, G, A),
         NEW b \in Blocks, B[b].home \in Streams, NEW c,
         NEW t \in Streams, NEW n \in Nat, Before(s, t, n) \in 0 .. Len(Q[t]),
         Readable(Q, M, B, N, t, Before(s, t, n), b, c)
  PROVE  Readable(R, W, A, N, t, n, b, c)
<1> DEFINE h == B[b].home
<1>1. /\ R[s] = Tail(Q[s]) /\ \A u \in Streams : u # s => R[u] = Q[u]
  BY PoppedQueues
<1>2. /\ A[b].home = h
      /\ W[b] = IF IsWrite(Q[s][1], b) THEN Q[s][1].content ELSE M[b]
      /\ IsWrite(Q[s][1], b) => h = s
  <2>1. Left(M, W, B, A, Q[s][1], s)
    BY PoppedBlocks
  <2> QED BY <2>1 DEF Left
<1>3. Q[s] \in Seq(Operations) /\ Q[s] # <<>> /\ s \in Streams /\ N \in Nat
      /\ (Q[s][1].op = "wait" => Q[s][1].event \in F)
  BY DEF DeviceOK, DeviceTypes, Popped
<1>4. CASE t = h
  <2>1. Leaves(Q[t], Before(s, t, n), b, M[b], c)
    BY <1>4 DEF Readable
  <2>2. CASE t = s
    <3>1. Before(s, t, n) = n + 1 /\ n + 1 \in 1 .. Len(Q[s]) /\ n + 1 - 1 = n
      BY <2>2 DEF Before
    <3>2. Leaves(Tail(Q[s]), n + 1 - 1, b, IF IsWrite(Q[s][1], b) THEN Q[s][1].content ELSE M[b], c)
      BY <1>3, <2>1, <2>2, <3>1, TailLeaves
    <3>3. Leaves(R[t], n, b, W[b], c)
      BY <1>1, <1>2, <2>2, <3>1, <3>2
    <3> QED BY <1>2, <1>4, <3>3 DEF Readable
  <2>3. CASE t # s
    <3>1. Leaves(R[t], n, b, W[b], c)
      BY <1>1, <1>2, <1>4, <2>1, <2>3 DEF Before
    <3> QED BY <1>2, <1>4, <3>1 DEF Readable
  <2> QED BY <2>2, <2>3
<1>5. CASE t # h /\ Settled(Q[h], b, M[b], c)
  <2>1. Settled(R[A[b].home], b, W[b], c)
    BY <1>5, PoppedArrives
  <2> QED BY <1>2, <1>5, <2>1 DEF Readable
<1>6. ASSUME t # h, NEW e \in 1 .. N, Coming(Q[h], b, c, e),
             NEW j \in 1 .. Before(s, t, n), Q[t][j] = WaitEvent(e)
      PROVE  Readable(R, W, A, N, t, n, b, c)
  <2>1. Settled(R[A[b].home], b, W[b], c) \/ Coming(R[A[b].home], b, c, e)
    BY <1>6, PoppedArrives
  <2>2. CASE Settled(R[A[b].home], b, W[b], c)
    BY <1>2, <1>6, <2>2 DEF Readable
  <2>3. CASE Coming(R[A[b].home], b, c, e)
    <3>1. \E i \in 1 .. n : R[t][i] = WaitEvent(e)
      <4>1. CASE t # s
        BY <1>1, <1>6, <4>1 DEF Before
      <4>2. CASE t = s
        <5>1. PICK k \in 1 .. Len(Q[h]) : Q[h][k] = Write(b, c, e)
          BY <1>6 DEF Coming
        <5>2. Q[h][k].op = "write" /\ Q[h][k].event = e /\ e # 0
          BY <5>1 DEF Write
        <5>3. e \notin F
          BY <5>2 DEF DeviceOK, WritesPending
        <5>4. j # 1
          BY <1>3, <1>6, <4>2, <5>3 DEF WaitEvent
        <5>5. j - 1 \in 1 .. n /\ j - 1 \in 1 .. Len(Q[s]) - 1 /\ j - 1 + 1 = j
          BY <1>3, <1>6, <4>2, <5>4, LenProperties DEF Before
        <5>6. R[t][j - 1] = Q[t][j]
          BY <1>1, <1>3, <4>2, <5>5, TailIs
        <5> QED BY <1>6, <5>5, <5>6
      <4> QED BY <4>1, <4>2
    <3> QED BY <1>2, <1>6, <2>3, <3>1 DEF Readable
  <2> QED BY <2>1, <2>2, <2>3
<1> QED BY <1>4, <1>5, <1>6 DEF Readable

\* The kernels behind the executed operation find what they read.
LEMMA KernelsPopped ==
  ASSUME NEW Q, NEW R, NEW M, NEW W, NEW F, NEW G, NEW B, NEW A, NEW N, NEW s,
         DeviceOK(Q, M, F, B, N), Popped(Q, M, F, B, s, R, W, G, A)
  PROVE  KernelsReady(R, W, A, N)
<1>1. Left(M, W, B, A, Q[s][1], s)
  BY PoppedBlocks
<1>2. /\ 1 \in 1 .. Len(Q[s]) /\ Q[s][1] \in Operations
      /\ \A t \in Streams : \A k \in 1 .. Len(R[t]) :
           /\ Before(s, t, k) \in 1 .. Len(Q[t]) /\ Before(s, t, k) # 0 /\ k \in Nat
           /\ R[t][k] = Q[t][Before(s, t, k)] /\ R[t][k] \in Operations
           /\ t = s => Before(s, t, k) # 1
  BY PoppedQueues
<1>3. Q \in [Streams -> Seq(Operations)] /\ s \in Streams
  BY DEF DeviceOK, DeviceTypes, Popped
<1> SUFFICES ASSUME NEW t \in Streams, NEW k \in 1 .. Len(R[t]), R[t][k].op = "kernel",
                    NEW r \in R[t][k].reads
             PROVE  /\ A[r.block].home \in Streams
                    /\ Readable(R, W, A, N, t, k - 1, r.block, r.content)
                    /\ t # A[r.block].home =>
                         /\ t \in A[r.block].users \union A[r.block].waiting
                         /\ \A j \in 1 .. k : R[t][j] # Passed(r.block)
  BY DEF KernelsReady
<1> DEFINE i == Before(s, t, k)
           b == r.block
           c == r.content
<1>4. i \in 1 .. Len(Q[t]) /\ i # 0 /\ k \in Nat /\ R[t][k] = Q[t][i] /\ R[t][k] \in Operations
      /\ Len(Q[t]) \in Nat
  BY <1>2, <1>3, LenProperties
<1>5. b \in Blocks
  <2>1. R[t][k] \in Kernels
    BY <1>4, OperationTypes
  <2> QED BY <2>1 DEF Kernels, Reading
<1>6. /\ B[b].home \in Streams
      /\ Readable(Q, M, B, N, t, i - 1, b, c)
      /\ t # B[b].home =>
           /\ t \in B[b].users \union B[b].waiting
           /\ \A j \in 1 .. i : Q[t][j] # Passed(b)
  BY <1>4 DEF DeviceOK, KernelsReady
<1>7. k \in 1 .. Len(R[t]) /\ k - 1 \in Nat /\ i - 1 = Before(s, t, k - 1) /\ i - 1 \in 0 .. Len(Q[t])
  <2>1. R \in [Streams -> Seq(Operations)]
    BY PoppedQueues
  <2>2. Len(R[t]) \in Nat
    BY <2>1, LenProperties
  <2>3. k - 1 \in Nat
    BY <1>4, <2>2
  <2> QED BY <1>4, <2>3 DEF Before
<1> HIDE DEF b, c, i
<1>8. A[b].home = B[b].home /\ A[b].users = B[b].users
      /\ A[b].waiting = IF Q[s][1] = Passed(b) THEN B[b].waiting \ {s} ELSE B[b].waiting
  BY <1>1, <1>5 DEF Left
<1>9. Readable(R, W, A, N, t, k - 1, b, c)
  BY <1>5, <1>6, <1>7, PoppedReadable
<1>10. ASSUME t # B[b].home
       PROVE  /\ t \in A[b].users \union A[b].waiting
              /\ \A j \in 1 .. k : R[t][j] # Passed(b)
  <2>1. t \in B[b].users \union B[b].waiting /\ \A j \in 1 .. i : Q[t][j] # Passed(b)
    BY <1>6, <1>10
  <2>2. t = s => Q[s][1] # Passed(b)
    BY <1>4, <2>1
  <2>3. t \in A[b].users \union A[b].waiting
    BY <1>8, <2>1, <2>2
  <2>4. ASSUME NEW j \in 1 .. k PROVE R[t][j] # Passed(b)
    <3>1. j \in 1 .. Len(R[t])
      BY <1>4, LenProperties, PoppedQueues
    <3>2. R[t][j] = Q[t][Before(s, t, j)] /\ Before(s, t, j) \in 1 .. Len(Q[t])
      BY <1>2, <3>1
    <3>3. Before(s, t, j) \in 1 .. i
      BY <1>4, <3>2 DEF Before, i
    <3> QED BY <2>1, <3>2, <3>3
  <2> QED BY <2>3, <2>4
<1> QED BY <1>6, <1>8, <1>9, <1>10 DEF b, c

\* The writes behind it are those of their block's home stream.
LEMMA WritesPopped ==
  ASSUME NEW Q, NEW R, NEW M, NEW W, NEW F, NEW G, NEW B, NEW A, NEW N, NEW s,
         DeviceOK(Q, M, F, B, N), Popped(Q, M, F, B, s, R, W, G, A)
  PROVE  WritesPending(R, G, A, N)
<1>1. Left(M, W, B, A, Q[s][1], s)
  BY PoppedBlocks
<1>2. /\ 1 \in 1 .. Len(Q[s]) /\ Q[s][1] \in Operations
      /\ \A t \in Streams : \A k \in 1 .. Len(R[t]) :
           /\ Before(s, t, k) \in 1 .. Len(Q[t]) /\ Before(s, t, k) # 0 /\ k \in Nat
           /\ R[t][k] = Q[t][Before(s, t, k)] /\ R[t][k] \in Operations
           /\ t = s => Before(s, t, k) # 1
  BY PoppedQueues
<1>3. s \in Streams /\ WritesPending(Q, F, B, N)
      /\ G = IF Q[s][1].op = "write" THEN F \union {Q[s][1].event} ELSE F
  BY DEF DeviceOK, Popped
<1> SUFFICES ASSUME NEW t \in Streams, NEW k \in 1 .. Len(R[t]), R[t][k].op = "write"
             PROVE  /\ A[R[t][k].block].home = t
                    /\ R[t][k].event # 0 =>
                         /\ R[t][k].event \in 1 .. N /\ R[t][k].event \notin G
                         /\ \A u \in Streams : \A j \in 1 .. Len(R[u]) :
                              R[u][j].op = "write" /\ R[u][j].event = R[t][k].event => u = t /\ j = k
  BY DEF WritesPending
<1> DEFINE i == Before(s, t, k)
           o == R[t][k]
<1>4. i \in 1 .. Len(Q[t]) /\ o = Q[t][i] /\ o \in Operations /\ (t = s => i # 1)
  BY <1>2
<1>5. o.block \in Blocks
  <2>1. o \in Writes
    BY <1>4, OperationTypes
  <2> HIDE DEF o
  <2> QED BY <2>1 DEF Writes
<1>6. /\ B[o.block].home = t
      /\ o.event # 0 =>
           /\ o.event \in 1 .. N /\ o.event \notin F
           /\ \A u \in Streams : \A j \in 1 .. Len(Q[u]) :
                Q[u][j].op = "write" /\ Q[u][j].event = o.event => u = t /\ j = i
  BY <1>3, <1>4 DEF WritesPending
<1>7. A[o.block].home = t
  BY <1>1, <1>5, <1>6 DEF Left
<1>8. ASSUME o.event # 0
      PROVE  /\ o.event \in 1 .. N /\ o.event \notin G
             /\ \A u \in Streams : \A j \in 1 .. Len(R[u]) :
                  R[u][j].op = "write" /\ R[u][j].event = o.event => u = t /\ j = k
  <2>1. ~(Q[s][1].op = "write" /\ Q[s][1].event = o.event)
    BY <1>2, <1>3, <1>4, <1>6, <1>8
  <2>2. ASSUME NEW u \in Streams, NEW j \in 1 .. Len(R[u]), R[u][j].op = "write", R[u][j].event = o.event
        PROVE  u = t /\ j = k
    <3>1. Before(s, u, j) \in 1 .. Len(Q[u]) /\ R[u][j] = Q[u][Before(s, u, j)] /\ j \in Nat /\ k \in Nat
      BY <1>2
    <3>2. u = t /\ Before(s, u, j) = i
      BY <1>6, <1>8, <2>2, <3>1
    <3>3. j = k
      BY <3>1, <3>2 DEF Before
    <3> QED BY <3>2, <3>3
  <2>3. o.event \in 1 .. N /\ o.event \notin G
    BY <1>3, <1>6, <1>8, <2>1
  <2> QED BY <2>2, <2>3
<1> HIDE DEF i, o
<1> QED BY <1>7, <1>8 DEF o

\* The allocator waits for the events behind it and for this one.
LEMMA PassesPopped ==
  ASSUME NEW Q, NEW R, NEW M, NEW W, NEW F, NEW G, NEW B, NEW A, NEW N, NEW s,
         DeviceOK(Q, M, F, B, N), Popped(Q, M, F, B, s, R, W, G, A)
  PROVE  /\ PassesPending(R, A)
         /\ \A b \in Blocks : Q[s][1] = Passed(b) =>
              ~B[b].live /\ s \in B[b].waiting /\ s # B[b].home
<1>1. Left(M, W, B, A, Q[s][1], s)
  BY PoppedBlocks
<1>2. /\ 1 \in 1 .. Len(Q[s]) /\ Q[s][1] \in Operations
      /\ \A t \in Streams : \A k \in 1 .. Len(R[t]) :
           /\ Before(s, t, k) \in 1 .. Len(Q[t]) /\ Before(s, t, k) # 0 /\ k \in Nat
           /\ R[t][k] = Q[t][Before(s, t, k)] /\ R[t][k] \in Operations
           /\ t = s => Before(s, t, k) # 1
  BY PoppedQueues
<1>3. s \in Streams /\ PassesPending(Q, B) /\ BlocksFit(B)
  BY DEF DeviceOK, Popped
<1>4. ASSUME NEW b \in Blocks, Q[s][1] = Passed(b)
      PROVE  ~B[b].live /\ s \in B[b].waiting /\ s # B[b].home
  <2>1. Q[s][1].op = "passed" /\ Q[s][1].block = b
    BY <1>4 DEF Passed
  <2>2. ~B[b].live /\ s \in B[b].waiting
    BY <1>2, <1>3, <2>1 DEF PassesPending
  <2> QED BY <1>3, <2>2 DEF BlocksFit
<1>5. ASSUME NEW t \in Streams, NEW k \in 1 .. Len(R[t]), R[t][k].op = "passed"
      PROVE  /\ ~A[R[t][k].block].live /\ t \in A[R[t][k].block].waiting
             /\ \A j \in 1 .. Len(R[t]) : R[t][j] = R[t][k] => j = k
  <2> DEFINE i == Before(s, t, k)
             o == R[t][k]
  <2>1. i \in 1 .. Len(Q[t]) /\ o = Q[t][i] /\ o \in Operations /\ (t = s => i # 1)
    BY <1>2
  <2>2. o.block \in Blocks /\ o = Passed(o.block)
    <3>1. o \in Passes
      BY <1>5, <2>1, OperationTypes
    <3> HIDE DEF o
    <3> QED BY <3>1 DEF Passes, Passed
  <2>3. /\ ~B[o.block].live /\ t \in B[o.block].waiting
        /\ \A j \in 1 .. Len(Q[t]) : Q[t][j] = o => j = i
    BY <1>3, <1>5, <2>1 DEF PassesPending
  <2>4. t = s => Q[s][1] # o
    BY <1>2, <2>1, <2>3
  <2>5. ~A[o.block].live /\ t \in A[o.block].waiting
    BY <1>1, <2>2, <2>3, <2>4 DEF Left
  <2>6. ASSUME NEW j \in 1 .. Len(R[t]), R[t][j] = o PROVE j = k
    <3>1. Before(s, t, j) \in 1 .. Len(Q[t]) /\ R[t][j] = Q[t][Before(s, t, j)] /\ j \in Nat /\ k \in Nat
      BY <1>2
    <3>2. Before(s, t, j) = i
      BY <2>3, <2>6, <3>1
    <3> QED BY <3>1, <3>2 DEF Before
  <2> QED BY <2>5, <2>6
<1> QED BY <1>4, <1>5 DEF PassesPending

\* Executing an operation keeps the device's invariant.
LEMMA DevicePops ==
  ASSUME NEW Q, NEW R, NEW M, NEW W, NEW F, NEW G, NEW B, NEW A, NEW N, NEW s,
         DeviceOK(Q, M, F, B, N), Popped(Q, M, F, B, s, R, W, G, A)
  PROVE  DeviceOK(R, W, G, A, N)
<1>1. DeviceTypes(R, W, G, A, N) /\ BlocksFit(A)
  BY PoppedBlocks
<1> QED BY <1>1, KernelsPopped, WritesPopped, PassesPopped DEF DeviceOK

-----------------------------------------------------------------------------
(***************************************************************************)
(* Blocks are dropped.                                                     *)
(***************************************************************************)

\* The elements of a finite set in some order, each once.
LEMMA SetToSeqIs ==
  ASSUME NEW S, IsFiniteSet(S)
  PROVE  /\ SetToSeq(S) \in Seq(S)
         /\ \A j, k \in 1 .. Len(SetToSeq(S)) : SetToSeq(S)[j] = SetToSeq(S)[k] => j = k
<1> DEFINE n == Cardinality(S)
<1>1. n \in Nat /\ ExistsBijection(1 .. n, S)
  BY FS_CardinalityType
<1>2. PICK f \in Bijection(1 .. n, S) : TRUE
  BY <1>1 DEF ExistsBijection
<1>3. f \in [1 .. n -> S] /\ IsInjective(f)
  BY <1>2 DEF Bijection, Injection
<1>4. SetToSeq(S) \in [1 .. n -> S] /\ IsInjective(SetToSeq(S))
  BY <1>3 DEF SetToSeq
<1> DEFINE q == SetToSeq(S)
<1> HIDE DEF n, q
<1>5. q \in [1 .. n -> S] /\ IsInjective(q)
  BY <1>4 DEF n, q
<1>6. q \in Seq(S) /\ Len(q) = n
  BY <1>1, <1>5, SeqDef, LenProperties
<1>7. \A j, k \in 1 .. Len(q) : q[j] = q[k] => j = k
  BY <1>5, <1>6 DEF IsInjective
<1> QED BY <1>6, <1>7 DEF q

\* What dropping the blocks D leaves to do on stream s, from the records B.
Notes(B, D, s) ==
  {Passed(b) : b \in {x \in D : s \in B[x].users}} \union
  {Write(b, Junk, 0) : b \in {x \in D : B[x].users = {} /\ B[x].home = s}}

\* What is left to do on a stream is finite,
LEMMA NotesFinite ==
  ASSUME NEW B, NEW D \in SUBSET Blocks, NEW s
  PROVE  IsFiniteSet(Notes(B, D, s))
<1> DEFINE E == {x \in D : s \in B[x].users}
           F == {x \in D : B[x].users = {} /\ B[x].home = s}
<1>1. IsFiniteSet(Blocks)
  BY DeviceAssumption
<1>2. E \in SUBSET Blocks /\ F \in SUBSET Blocks
  OBVIOUS
<1>3. IsFiniteSet(E) /\ IsFiniteSet(F)
  BY <1>1, <1>2, FS_Subset
<1> HIDE DEF E, F
<1>4. IsFiniteSet({Passed(b) : b \in E})
  <2>1. [b \in E |-> Passed(b)] \in Surjection(E, {Passed(b) : b \in E})
    BY DEF Surjection
  <2> QED BY <1>3, <2>1, FS_Surjection
<1>5. IsFiniteSet({Write(b, Junk, 0) : b \in F})
  <2>1. [b \in F |-> Write(b, Junk, 0)] \in Surjection(F, {Write(b, Junk, 0) : b \in F})
    BY DEF Surjection
  <2> QED BY <1>3, <2>1, FS_Surjection
<1> QED BY <1>4, <1>5, FS_Union DEF Notes, E, F

\* What they leave to do on stream s.
Noted(B, D, s, o) ==
  \E b \in D : \/ o = Passed(b) /\ s \in B[b].users
               \/ o = Write(b, Junk, 0) /\ B[b].users = {} /\ B[b].home = s

Wipes(B, D, s, o) == o.block \in D /\ o.event = 0 /\ B[o.block].users = {} /\ B[o.block].home = s

\* concerns the dropped blocks only and reads none,
LEMMA NotedIs ==
  ASSUME NEW B, NEW D \in SUBSET Blocks, NEW s, NEW o, Noted(B, D, s, o)
  PROVE  /\ o.op = "write" => Wipes(B, D, s, o)
         /\ o.op = "passed" => o.block \in D /\ s \in B[o.block].users
         /\ o.op # "kernel"
         /\ \A b \in Blocks \ D : ~IsWrite(o, b)
<1>1. ASSUME NEW b \in D, o = Passed(b), s \in B[b].users
      PROVE  o.op = "passed" /\ o.block = b
  BY <1>1 DEF Passed
<1>2. ASSUME NEW b \in D, o = Write(b, Junk, 0), B[b].users = {}, B[b].home = s
      PROVE  o.op = "write" /\ o.block = b /\ o.event = 0
  BY <1>2 DEF Write
<1> QED BY <1>1, <1>2 DEF Noted, IsWrite, Wipes

\* and is enqueued once, in some order.
LEMMA NotesAre ==
  ASSUME NEW B, NEW D \in SUBSET Blocks, NEW s
  PROVE  LET q == SetToSeq(Notes(B, D, s))
         IN  /\ q \in Seq(Operations) /\ Len(q) \in Nat
             /\ \A k \in 1 .. Len(q) : Noted(B, D, s, q[k])
             /\ \A j, k \in 1 .. Len(q) : q[j] = q[k] => j = k
<1> DEFINE S == Notes(B, D, s)
           q == SetToSeq(S)
<1>1. q \in Seq(S) /\ \A j, k \in 1 .. Len(q) : q[j] = q[k] => j = k
  BY NotesFinite, SetToSeqIs
<1>2. \A o \in S : Noted(B, D, s, o)
  BY DEF Notes, Noted
<1>3. S \subseteq Operations
  <2>1. \A b \in Blocks : Passed(b) \in Operations /\ Write(b, Junk, 0) \in Operations
    BY DEF Operations, Passes, Writes, Passed, Write, Contents
  <2> QED BY <1>2, <2>1 DEF Noted
<1> HIDE DEF S, q
<1>4. q \in Seq(Operations) /\ Len(q) \in Nat /\ \A k \in 1 .. Len(q) : q[k] \in S
  BY <1>1, <1>3, LenProperties, ElementOfSeq
<1> QED BY <1>1, <1>2, <1>4 DEF q, S

FreshNotes(Q, R, B, D) ==
  \A s \in Streams : \A k \in Fresh(Q, R, s) :
    /\ Noted(B, D, s, R[s][k])
    /\ \A j \in Fresh(Q, R, s) : R[s][j] = R[s][k] => j = k

Gone(B, A, D) ==
  /\ \A b \in Blocks \ D : A[b] = B[b]
  /\ \A b \in D : ~A[b].live /\ A[b].home = B[b].home /\ A[b].users = {} /\ A[b].waiting = B[b].users

\* The blocks D are dropped.
Dropping(Q, B, D, R, A) ==
  /\ R = [s \in Streams |-> Q[s] \o SetToSeq(Notes(B, D, s))]
  /\ A = [b \in Blocks |-> IF b \in D THEN Dropped(B[b]) ELSE B[b]]

\* The queues after blocks are dropped.
LEMMA DroppedQueues ==
  ASSUME NEW Q \in [Streams -> Seq(Operations)], NEW B, NEW D \in SUBSET Blocks, NEW R, NEW A,
         Dropping(Q, B, D, R, A)
  PROVE  /\ R \in [Streams -> Seq(Operations)]
         /\ \A s \in Streams : Extended(Q[s], R[s])
         /\ FreshNotes(Q, R, B, D)
<1>1. ASSUME NEW s \in Streams
      PROVE  /\ R[s] \in Seq(Operations)
             /\ Extended(Q[s], R[s])
             /\ \A k \in Fresh(Q, R, s) :
                  /\ Noted(B, D, s, R[s][k])
                  /\ \A j \in Fresh(Q, R, s) : R[s][j] = R[s][k] => j = k
  <2> DEFINE q == SetToSeq(Notes(B, D, s))
  <2>1. /\ q \in Seq(Operations) /\ Len(q) \in Nat
        /\ \A k \in 1 .. Len(q) : Noted(B, D, s, q[k])
        /\ \A j, k \in 1 .. Len(q) : q[j] = q[k] => j = k
    BY NotesAre
  <2>2. R[s] = Q[s] \o q
    BY DEF Dropping
  <2> HIDE DEF q
  <2>3. Q[s] \in Seq(Operations) /\ Len(Q[s]) \in Nat
    BY LenProperties
  <2>4. /\ R[s] \in Seq(Operations) /\ Len(R[s]) = Len(Q[s]) + Len(q)
        /\ \A i \in 1 .. Len(Q[s]) + Len(q) : R[s][i] = IF i <= Len(Q[s]) THEN Q[s][i] ELSE q[i - Len(Q[s])]
    BY <2>1, <2>2, <2>3, ConcatProperties
  <2>5. Extended(Q[s], R[s])
    <3>1. Len(Q[s]) <= Len(R[s])
      BY <2>1, <2>3, <2>4
    <3>2. \A i \in 1 .. Len(Q[s]) : i \in 1 .. Len(Q[s]) + Len(q) /\ i <= Len(Q[s])
      BY <2>1, <2>3
    <3> QED BY <2>4, <3>1, <3>2 DEF Extended
  <2>6. \A k \in Fresh(Q, R, s) : k - Len(Q[s]) \in 1 .. Len(q) /\ k \in Int /\ R[s][k] = q[k - Len(Q[s])]
    BY <2>1, <2>3, <2>4 DEF Fresh
  <2>7. ASSUME NEW k \in Fresh(Q, R, s), NEW j \in Fresh(Q, R, s), R[s][j] = R[s][k] PROVE j = k
    <3>1. k - Len(Q[s]) \in 1 .. Len(q) /\ j - Len(Q[s]) \in 1 .. Len(q) /\ k \in Int /\ j \in Int
          /\ R[s][k] = q[k - Len(Q[s])] /\ R[s][j] = q[j - Len(Q[s])]
      BY <2>6
    <3>2. j - Len(Q[s]) = k - Len(Q[s])
      BY <2>1, <2>7, <3>1
    <3> QED BY <2>3, <3>1, <3>2
  <2>8. \A k \in Fresh(Q, R, s) : Noted(B, D, s, R[s][k])
    BY <2>1, <2>6
  <2> QED BY <2>4, <2>5, <2>7, <2>8
<1>2. R \in [Streams -> Seq(Operations)]
  <2>1. R = [s \in Streams |-> R[s]]
    BY DEF Dropping
  <2> QED BY <1>1, <2>1
<1> QED BY <1>1, <1>2 DEF FreshNotes

\* The allocator's records after it.
LEMMA DroppedRecords ==
  ASSUME NEW B \in [Blocks -> Records], BlocksFit(B), NEW D \in SUBSET Blocks, NEW Q, NEW R, NEW A,
         Dropping(Q, B, D, R, A), \A b \in D : B[b].live
  PROVE  /\ A \in [Blocks -> Records] /\ BlocksFit(A) /\ BlocksKept(B, A)
         /\ Gone(B, A, D)
<1>1. \A b \in Blocks : B[b] \in Records /\ A[b] = IF b \in D THEN Dropped(B[b]) ELSE B[b]
  BY DEF Dropping
<1>2. ASSUME NEW b \in D
      PROVE  /\ A[b] \in Records /\ ~A[b].live /\ A[b].home = B[b].home /\ A[b].users = {}
             /\ A[b].waiting = B[b].users
  <2>1. A[b] = [B[b] EXCEPT !.live = FALSE, !.waiting = B[b].users, !.users = {}] /\ B[b] \in Records
    BY <1>1 DEF Dropped
  <2> QED BY <2>1 DEF Records
<1>3. \A b \in Blocks \ D : A[b] = B[b]
  BY <1>1
<1>4. A \in [Blocks -> Records]
  <2>1. A = [b \in Blocks |-> A[b]]
    BY DEF Dropping
  <2>2. \A b \in Blocks : A[b] \in Records
    BY <1>1, <1>2, <1>3
  <2> QED BY <2>1, <2>2
<1>5. BlocksFit(A)
  <2> SUFFICES ASSUME NEW b \in Blocks
               PROVE  /\ A[b].live => A[b].home \in Streams /\ A[b].waiting = {}
                      /\ ~A[b].live => A[b].users = {}
                      /\ A[b].home \notin A[b].users \union A[b].waiting
                      /\ A[b].waiting # {} => A[b].home \in Streams
    BY DEF BlocksFit
  <2>1. /\ B[b].live => B[b].home \in Streams /\ B[b].waiting = {}
        /\ ~B[b].live => B[b].users = {}
        /\ B[b].home \notin B[b].users \union B[b].waiting
        /\ B[b].waiting # {} => B[b].home \in Streams
    BY DEF BlocksFit
  <2> QED BY <1>2, <1>3, <2>1
<1>6. BlocksKept(B, A)
  <2> SUFFICES ASSUME NEW b \in Blocks
               PROVE  /\ B[b].home \in Streams => A[b].home = B[b].home
                      /\ B[b].users \union B[b].waiting \subseteq A[b].users \union A[b].waiting
                      /\ B[b].waiting # {} => A[b] = B[b]
    BY DEF BlocksKept
  <2>1. B[b].live => B[b].waiting = {}
    BY DEF BlocksFit
  <2> QED BY <1>2, <1>3, <2>1
<1> QED BY <1>2, <1>3, <1>4, <1>5, <1>6 DEF Gone

\* Dropping blocks keeps the device's part of the invariant.
LEMMA DeviceDrops ==
  ASSUME NEW Q, NEW R, NEW M, NEW F, NEW B, NEW A, NEW N, NEW D \in SUBSET Blocks,
         DeviceOK(Q, M, F, B, N), Dropping(Q, B, D, R, A), \A b \in D : B[b].live
  PROVE  /\ DeviceOK(R, M, F, A, N) /\ Enqueued(Q, R, M, F, B, A, N, N)
         /\ Gone(B, A, D) /\ FreshNotes(Q, R, B, D)
<1>1. /\ Q \in [Streams -> Seq(Operations)] /\ B \in [Blocks -> Records] /\ BlocksFit(B)
      /\ M \in [Blocks -> Contents] /\ N \in Nat /\ F \subseteq 0 .. N /\ N <= N
  BY DEF DeviceOK, DeviceTypes
<1>2. /\ R \in [Streams -> Seq(Operations)]
      /\ \A s \in Streams : Extended(Q[s], R[s])
      /\ FreshNotes(Q, R, B, D)
  BY <1>1, DroppedQueues
<1>3. A \in [Blocks -> Records] /\ BlocksFit(A) /\ BlocksKept(B, A) /\ Gone(B, A, D)
  BY <1>1, DroppedRecords
<1>4. Enqueued(Q, R, M, F, B, A, N, N)
  BY <1>1, <1>2, <1>3 DEF Enqueued, DeviceTypes
<1>5. FreshWrites(Q, R, B, A, N, N)
  <2> SUFFICES ASSUME NEW s \in Streams, NEW k \in Fresh(Q, R, s), R[s][k].op = "write"
               PROVE  /\ A[R[s][k].block].home = s
                      /\ B[R[s][k].block].users \union B[R[s][k].block].waiting = {}
                      /\ R[s][k].event = 0
    BY DEF FreshWrites
  <2>1. Noted(B, D, s, R[s][k])
    BY <1>2 DEF FreshNotes
  <2>2. Wipes(B, D, s, R[s][k])
    BY <2>1, NotedIs
  <2>3. \A b \in D : B[b].waiting = {} /\ A[b].home = B[b].home
    BY <1>1, <1>3 DEF BlocksFit, Gone
  <2> QED BY <2>2, <2>3 DEF Wipes
<1>6. FreshPasses(Q, R, B, A)
  <2> SUFFICES ASSUME NEW s \in Streams, NEW k \in Fresh(Q, R, s), R[s][k].op = "passed"
               PROVE  /\ B[R[s][k].block].live /\ ~A[R[s][k].block].live /\ s \in A[R[s][k].block].waiting
                      /\ \A j \in Fresh(Q, R, s) : R[s][j] = R[s][k] => j = k
    BY DEF FreshPasses
  <2>1. Noted(B, D, s, R[s][k]) /\ \A j \in Fresh(Q, R, s) : R[s][j] = R[s][k] => j = k
    BY <1>2 DEF FreshNotes
  <2>2. R[s][k].block \in D /\ s \in B[R[s][k].block].users
    BY <2>1, NotedIs
  <2> QED BY <1>3, <2>1, <2>2 DEF Gone
<1>7. FreshKernels(Q, R, M, A, N)
  <2>1. \A s \in Streams : \A k \in Fresh(Q, R, s) : R[s][k].op # "kernel"
    BY <1>2, NotedIs DEF FreshNotes
  <2> QED BY <2>1 DEF FreshKernels
<1>8. DeviceOK(R, M, F, A, N)
  BY <1>3, <1>4, <1>5, <1>6, <1>7, DeviceGrows
<1> QED BY <1>2, <1>3, <1>4, <1>8

-----------------------------------------------------------------------------
(***************************************************************************)
(* What stays of a block, step by step.                                    *)
(***************************************************************************)

\* Whoever could read block b still can, and so will who takes it later.
Stays(Q, R, M, W, B, A, N, P, b) ==
  /\ \A s \in Streams : \A c : HeldReady(Q, M, B, N, s, b, c) => HeldReady(R, W, A, P, s, b, c)
  /\ \A e : \A c : CachedReady(Q, M, B, N, b, e, c) => CachedReady(R, W, A, P, b, e, c)

\* A live block stays as it is if nobody is told to write to it,
LEMMA StaysKept ==
  ASSUME NEW Q, NEW R, NEW M, NEW F, NEW B, NEW A, NEW N, NEW P,
         Enqueued(Q, R, M, F, B, A, N, P), BlocksFit(B), BlocksFit(A),
         NEW b \in Blocks, B[b].live => A[b].live,
         \A s \in Streams : \A k \in Fresh(Q, R, s) : ~IsWrite(R[s][k], b)
  PROVE  Stays(Q, R, M, M, B, A, N, P, b)
<1>1. /\ Q \in [Streams -> Seq(Operations)] /\ R \in [Streams -> Seq(Operations)]
      /\ \A s \in Streams : Extended(Q[s], R[s])
      /\ BlocksKept(B, A) /\ N \in Nat /\ P \in Nat /\ N <= P
  BY DEF Enqueued, DeviceTypes
<1>2. ASSUME B[b].live
      PROVE  /\ A[b].live /\ B[b].home \in Streams /\ A[b].home = B[b].home
             /\ B[b].users \subseteq A[b].users
  <2>1. A[b].live /\ B[b].home \in Streams /\ A[b].waiting = {}
    BY <1>2 DEF BlocksFit
  <2>2. A[b].home = B[b].home /\ B[b].users \union B[b].waiting \subseteq A[b].users \union A[b].waiting
    BY <1>1, <2>1 DEF BlocksKept
  <2> QED BY <2>1, <2>2
<1>3. ASSUME NEW s \in Streams, NEW c, HeldReady(Q, M, B, N, s, b, c)
      PROVE  HeldReady(R, M, A, P, s, b, c)
  <2>1. /\ B[b].live /\ (s = B[b].home \/ s \in B[b].users)
        /\ Readable(Q, M, B, N, s, Len(Q[s]), b, c)
    BY <1>3 DEF HeldReady
  <2>2. A[b].live /\ B[b].home \in Streams /\ (s = A[b].home \/ s \in A[b].users)
    BY <1>2, <2>1
  <2>3. Len(Q[s]) \in Nat /\ Len(R[s]) \in Nat /\ Len(Q[s]) <= Len(R[s]) /\ Len(Q[s]) <= Len(Q[s])
    BY <1>1, LenProperties DEF Extended
  <2>4. \A t \in Streams : \A n, m, d :
          /\ n \in Nat /\ m \in Nat /\ n <= m /\ n <= Len(Q[t])
          /\ t = B[b].home => n = Len(Q[t]) /\ m = Len(R[t])
          /\ Readable(Q, M, B, N, t, n, b, d)
          => Readable(R, M, A, P, t, m, b, d)
    BY <2>2, Kept
  <2>5. Readable(R, M, A, P, s, Len(R[s]), b, c)
    BY <2>1, <2>3, <2>4
  <2> QED BY <2>2, <2>5 DEF HeldReady
<1>4. ASSUME NEW e, NEW c, CachedReady(Q, M, B, N, b, e, c)
      PROVE  CachedReady(R, M, A, P, b, e, c)
  <2>1. /\ B[b].live /\ e \in 1 .. N
        /\ Settled(Q[B[b].home], b, M[b], c) \/ Coming(Q[B[b].home], b, c, e)
    BY <1>4 DEF CachedReady
  <2>2. A[b].live /\ B[b].home \in Streams
    BY <1>2, <2>1
  <2>3. e \in 1 .. P
    BY <1>1, <2>1
  <2>4. /\ \A v, d : Settled(Q[B[b].home], b, v, d) => Settled(R[A[b].home], b, v, d)
        /\ \A d, f : Coming(Q[B[b].home], b, d, f) => Coming(R[A[b].home], b, d, f)
    BY <2>2, Kept
  <2> QED BY <2>1, <2>2, <2>3, <2>4 DEF CachedReady
<1> QED BY <1>3, <1>4 DEF Stays

\* whatever the device executes,
LEMMA StaysPopped ==
  ASSUME NEW Q, NEW R, NEW M, NEW W, NEW F, NEW G, NEW B, NEW A, NEW N, NEW s,
         DeviceOK(Q, M, F, B, N), Popped(Q, M, F, B, s, R, W, G, A), NEW b \in Blocks
  PROVE  Stays(Q, R, M, W, B, A, N, N, b)
<1>1. Left(M, W, B, A, Q[s][1], s)
  BY PoppedBlocks
<1>2. A[b].live = B[b].live /\ A[b].home = B[b].home /\ A[b].users = B[b].users
  BY <1>1 DEF Left
<1>3. BlocksFit(B) /\ Q \in [Streams -> Seq(Operations)] /\ s \in Streams
  BY DEF DeviceOK, DeviceTypes, Popped
<1>4. B[b].live => B[b].home \in Streams
  BY <1>3 DEF BlocksFit
<1>5. /\ R \in [Streams -> Seq(Operations)] /\ 1 \in 1 .. Len(Q[s])
      /\ Len(R[s]) = Len(Q[s]) - 1 /\ \A t \in Streams : t # s => R[t] = Q[t]
  BY PoppedQueues
<1>6. ASSUME NEW t \in Streams, NEW c, HeldReady(Q, M, B, N, t, b, c)
      PROVE  HeldReady(R, W, A, N, t, b, c)
  <2>1. /\ B[b].live /\ (t = B[b].home \/ t \in B[b].users)
        /\ Readable(Q, M, B, N, t, Len(Q[t]), b, c)
    BY <1>6 DEF HeldReady
  <2>2. Len(R[t]) \in Nat /\ Len(Q[t]) \in Nat /\ Len(Q[s]) \in Nat
    BY <1>3, <1>5, LenProperties
  <2>3. Before(s, t, Len(R[t])) = Len(Q[t]) /\ Len(Q[t]) \in 0 .. Len(Q[t])
    BY <1>5, <2>2 DEF Before
  <2>4. Before(s, t, Len(R[t])) \in 0 .. Len(Q[t]) /\ Readable(Q, M, B, N, t, Before(s, t, Len(R[t])), b, c)
    BY <2>1, <2>3
  <2>5. Readable(R, W, A, N, t, Len(R[t]), b, c)
    BY <1>4, <2>1, <2>2, <2>4, PoppedReadable
  <2> QED BY <1>2, <2>1, <2>5 DEF HeldReady
<1>7. ASSUME NEW e, NEW c, CachedReady(Q, M, B, N, b, e, c)
      PROVE  CachedReady(R, W, A, N, b, e, c)
  <2>1. /\ B[b].live /\ e \in 1 .. N
        /\ Settled(Q[B[b].home], b, M[b], c) \/ Coming(Q[B[b].home], b, c, e)
    BY <1>7 DEF CachedReady
  <2>2. /\ Settled(Q[B[b].home], b, M[b], c) => Settled(R[A[b].home], b, W[b], c)
        /\ \A f : Coming(Q[B[b].home], b, c, f) =>
             Settled(R[A[b].home], b, W[b], c) \/ Coming(R[A[b].home], b, c, f)
    BY <1>4, <2>1, PoppedArrives
  <2> QED BY <1>2, <2>1, <2>2 DEF CachedReady
<1> QED BY <1>6, <1>7 DEF Stays

\* through several steps
LEMMA StaysTransitive ==
  ASSUME NEW Q, NEW R, NEW T, NEW M, NEW W, NEW X, NEW B, NEW A, NEW C, NEW N, NEW P, NEW O, NEW b,
         Stays(Q, R, M, W, B, A, N, P, b), Stays(R, T, W, X, A, C, P, O, b)
  PROVE  Stays(Q, T, M, X, B, C, N, O, b)
BY DEF Stays

\* and through none.
LEMMA StaysSame ==
  ASSUME NEW Q, NEW M, NEW B, NEW N, NEW b
  PROVE  Stays(Q, Q, M, M, B, B, N, N, b)
BY DEF Stays

\* One operation is enqueued.
Appends(Q, R, S, o) == R = [Q EXCEPT ![S] = Append(Q[S], o)]
OneFresh(Q, R, S, o) ==
  \A s \in Streams : \A k \in Fresh(Q, R, s) : s = S /\ k = Len(R[S]) /\ R[s][k] = o

\* One operation is enqueued on one stream.
LEMMA AppendedQueues ==
  ASSUME NEW Q \in [Streams -> Seq(Operations)], NEW S \in Streams, NEW o \in Operations,
         NEW R, Appends(Q, R, S, o)
  PROVE  /\ R \in [Streams -> Seq(Operations)]
         /\ \A s \in Streams : Extended(Q[s], R[s])
         /\ OneFresh(Q, R, S, o)
         /\ Len(R[S]) \in Nat \ {0} /\ R[S][Len(R[S])] = o /\ Len(R[S]) = Len(Q[S]) + 1
<1>1. Q[S] \in Seq(Operations) /\ Len(Q[S]) \in Nat
  BY LenProperties
<1> DEFINE q == Append(Q[S], o)
<1>2. /\ q \in Seq(Operations) /\ Len(q) = Len(Q[S]) + 1 /\ q[Len(Q[S]) + 1] = o
      /\ \A i \in 1 .. Len(Q[S]) : q[i] = Q[S][i]
  BY <1>1, AppendProperties
<1>3. R = [Q EXCEPT ![S] = q]
  BY DEF Appends
<1> HIDE DEF q
<1>4. R \in [Streams -> Seq(Operations)] /\ R[S] = q /\ \A s \in Streams : s # S => R[s] = Q[s]
  BY <1>2, <1>3
<1>5. ASSUME NEW s \in Streams
      PROVE  Extended(Q[s], R[s]) /\ \A k \in Fresh(Q, R, s) : s = S /\ k = Len(R[S]) /\ R[s][k] = o
  <2>1. CASE s = S
    <3>1. Len(Q[S]) <= Len(q)
      BY <1>1, <1>2
    <3>2. \A k \in Len(Q[S]) + 1 .. Len(q) : k = Len(q)
      BY <1>1, <1>2
    <3> QED BY <1>2, <1>4, <2>1, <3>1, <3>2 DEF Extended, Fresh
  <2>2. CASE s # S
    <3>1. R[s] = Q[s] /\ Len(Q[s]) \in Nat
      BY <1>4, <2>2, LenProperties
    <3> QED BY <3>1 DEF Extended, Fresh
  <2> QED BY <2>1, <2>2
<1>6. OneFresh(Q, R, S, o) /\ \A s \in Streams : Extended(Q[s], R[s])
  BY <1>5 DEF OneFresh
<1>7. Len(R[S]) \in Nat \ {0} /\ R[S][Len(R[S])] = o /\ Len(R[S]) = Len(Q[S]) + 1
  BY <1>1, <1>2, <1>4
<1> QED BY <1>4, <1>6, <1>7

\* Somebody else writes to a block that nobody uses.
LEMMA DeviceReused ==
  ASSUME NEW Q, NEW R, NEW M, NEW F, NEW B, NEW N, NEW b \in Blocks,
         DeviceOK(Q, M, F, B, N), ~B[b].live, B[b].waiting = {}, B[b].home \in Streams,
         Appends(Q, R, B[b].home, Write(b, Junk, 0))
  PROVE  DeviceOK(R, M, F, B, N) /\ \A d \in Blocks : B[d].live => Stays(Q, R, M, M, B, B, N, N, d)
<1> DEFINE o == Write(b, Junk, 0)
           S == B[b].home
<1>1. o \in Operations /\ o.op = "write" /\ o.block = b /\ o.event = 0
  BY DEF Write, Operations, Writes, Contents
<1>2. /\ Q \in [Streams -> Seq(Operations)] /\ B \in [Blocks -> Records] /\ BlocksFit(B)
      /\ M \in [Blocks -> Contents] /\ N \in Nat /\ F \subseteq 0 .. N /\ N <= N
  BY DEF DeviceOK, DeviceTypes
<1>3. Appends(Q, R, S, o) /\ S \in Streams
  OBVIOUS
<1> HIDE DEF o, S
<1>4. /\ R \in [Streams -> Seq(Operations)]
      /\ \A s \in Streams : Extended(Q[s], R[s])
      /\ OneFresh(Q, R, S, o)
  BY <1>1, <1>2, <1>3, AppendedQueues
<1>5. Enqueued(Q, R, M, F, B, B, N, N)
  BY <1>2, <1>4 DEF Enqueued, DeviceTypes, BlocksKept
<1>6. FreshWrites(Q, R, B, B, N, N)
  <2>1. B[b].users = {} /\ S = B[b].home
    BY <1>2 DEF BlocksFit, S
  <2>2. ASSUME NEW s \in Streams, NEW k \in Fresh(Q, R, s)
        PROVE  /\ B[R[s][k].block].home = s /\ R[s][k].event = 0
               /\ B[R[s][k].block].users \union B[R[s][k].block].waiting = {}
    <3>1. R[s][k] = o /\ s = S
      BY <1>4 DEF OneFresh
    <3> QED BY <1>1, <2>1, <3>1
  <2> QED BY <2>2 DEF FreshWrites
<1>7. FreshPasses(Q, R, B, B)
  <2>1. \A s \in Streams : \A k \in Fresh(Q, R, s) : R[s][k].op # "passed"
    BY <1>1, <1>4 DEF OneFresh
  <2> QED BY <2>1 DEF FreshPasses
<1>8. FreshKernels(Q, R, M, B, N)
  <2>1. \A s \in Streams : \A k \in Fresh(Q, R, s) : R[s][k].op # "kernel"
    BY <1>1, <1>4 DEF OneFresh
  <2> QED BY <2>1 DEF FreshKernels
<1>9. DeviceOK(R, M, F, B, N)
  BY <1>2, <1>5, <1>6, <1>7, <1>8, DeviceGrows
<1>10. ASSUME NEW d \in Blocks, B[d].live PROVE Stays(Q, R, M, M, B, B, N, N, d)
  <2>1. \A s \in Streams : \A k \in Fresh(Q, R, s) : ~IsWrite(R[s][k], d)
    BY <1>1, <1>4, <1>10 DEF OneFresh, IsWrite
  <2> QED BY <1>2, <1>5, <2>1, StaysKept
<1> QED BY <1>9, <1>10

\* The device executes an operation.
LEMMA ExecuteStep ==
  ASSUME DeviceReady, NEW s \in Streams, Execute(s)
  PROVE  /\ DeviceOK(queue', mem', fired', block', events)
         /\ \A b \in Blocks : /\ block'[b].live = block[b].live
                              /\ block[b].live => Stays(queue, queue', mem, mem', block, block', events, events, b)
<1> DEFINE o == Head(queue[s])
           R == [queue EXCEPT ![s] = Tail(queue[s])]
<1>1. /\ queue \in [Streams -> Seq(Operations)] /\ block \in [Blocks -> Records] /\ BlocksFit(block)
      /\ DeviceOK(queue, mem, fired, block, events)
  BY DEF DeviceReady, DeviceOK, DeviceTypes
<1>2. queue[s] # <<>> /\ (o.op = "wait" => o.event \in fired) /\ o = queue[s][1]
  <2>1. queue[s] # <<>> /\ (o.op = "wait" => o.event \in fired)
    BY DEF Execute, Ready
  <2> QED BY <1>1, <2>1, TailIs
<1>3. Popped(queue, mem, fired, block, s, R, mem', fired', block')
  <2>1. /\ mem' = IF o.op = "write" THEN [mem EXCEPT ![o.block] = o.content] ELSE mem
        /\ fired' = IF o.op = "write" THEN fired \union {o.event} ELSE fired
        /\ block' = IF o.op = "passed" THEN [block EXCEPT ![o.block].waiting = @ \ {s}] ELSE block
    BY DEF Execute
  <2> QED BY <1>2, <2>1 DEF Popped
<1>4. DeviceOK(R, mem', fired', block', events)
  BY <1>1, <1>3, DevicePops
<1>5. Left(mem, mem', block, block', queue[s][1], s)
  BY <1>1, <1>3, PoppedBlocks
<1>6. \A b \in Blocks : Stays(queue, R, mem, mem', block, block', events, events, b)
  BY <1>1, <1>3, StaysPopped
<1>7. CASE ~(o.op = "passed" /\ block[o.block].waiting = {s})
  <2>1. queue' = R
    BY <1>7 DEF Execute
  <2> HIDE DEF R
  <2> QED BY <1>4, <1>5, <1>6, <2>1 DEF Left
<1>8. CASE o.op = "passed" /\ block[o.block].waiting = {s}
  <2> DEFINE b == o.block
  <2>1. queue' = [R EXCEPT ![block[b].home] = Append(@, Write(b, Junk, 0))]
    BY <1>8 DEF Execute
  <2>2. b \in Blocks /\ o = Passed(b)
    <3>1. o \in Operations
      BY <1>1, <1>2, TailIs
    <3>2. o \in Passes
      BY <1>8, <3>1, OperationTypes
    <3> HIDE DEF o
    <3> QED BY <3>2 DEF Passes, Passed
  <2> HIDE DEF R, o, b
  <2>3. ~block[b].live /\ block[b].home \in Streams
    <3>1. \A d \in Blocks : queue[s][1] = Passed(d) => ~block[d].live /\ s \in block[d].waiting /\ s # block[d].home
      BY <1>1, <1>3, PassesPopped
    <3> QED BY <1>1, <1>2, <2>2, <3>1 DEF BlocksFit
  <2>4. ~block'[b].live /\ block'[b].waiting = {} /\ block'[b].home = block[b].home
    BY <1>2, <1>5, <1>8, <2>2, <2>3 DEF Left, b
  <2>5. R \in [Streams -> Seq(Operations)]
    BY <1>4 DEF DeviceOK, DeviceTypes
  <2>6. Appends(R, queue', block'[b].home, Write(b, Junk, 0))
    BY <2>1, <2>3, <2>4, <2>5 DEF Appends
  <2>7. /\ DeviceOK(queue', mem', fired', block', events)
        /\ \A d \in Blocks : block'[d].live => Stays(R, queue', mem', mem', block', block', events, events, d)
    BY <1>4, <2>2, <2>3, <2>4, <2>6, DeviceReused
  <2>8. \A d \in Blocks : block'[d].live = block[d].live
    BY <1>5 DEF Left
  <2>9. ASSUME NEW d \in Blocks, block[d].live
        PROVE  Stays(queue, queue', mem, mem', block, block', events, events, d)
    BY <1>6, <2>7, <2>8, <2>9, StaysTransitive
  <2> QED BY <2>7, <2>8, <2>9
<1> QED BY <1>7, <1>8

-----------------------------------------------------------------------------
(***************************************************************************)
(* Kernels, hits and misses on the device.                                 *)
(***************************************************************************)

\* The host launches a kernel on stream S.
LEMMA DeviceLaunches ==
  ASSUME NEW Q, NEW R, NEW M, NEW F, NEW B, NEW N, NEW S \in Streams, NEW reads \in SUBSET Reading,
         DeviceOK(Q, M, F, B, N), Appends(Q, R, S, Kernel(reads)),
         \A r \in reads : HeldReady(Q, M, B, N, S, r.block, r.content)
  PROVE  DeviceOK(R, M, F, B, N) /\ \A d \in Blocks : Stays(Q, R, M, M, B, B, N, N, d)
<1> DEFINE o == Kernel(reads)
<1>1. o \in Operations /\ o.op = "kernel" /\ o.reads = reads /\ \A b : o # Passed(b)
  BY DEF Kernel, Operations, Kernels, Passed
<1>2. /\ Q \in [Streams -> Seq(Operations)] /\ B \in [Blocks -> Records] /\ BlocksFit(B)
      /\ M \in [Blocks -> Contents] /\ N \in Nat /\ F \subseteq 0 .. N /\ N <= N
      /\ PassesPending(Q, B)
  BY DEF DeviceOK, DeviceTypes
<1>3. Appends(Q, R, S, o)
  OBVIOUS
<1> HIDE DEF o
<1>4. /\ R \in [Streams -> Seq(Operations)]
      /\ \A s \in Streams : Extended(Q[s], R[s])
      /\ OneFresh(Q, R, S, o)
      /\ Len(R[S]) \in Nat \ {0} /\ R[S][Len(R[S])] = o /\ Len(R[S]) = Len(Q[S]) + 1
  BY <1>1, <1>2, <1>3, AppendedQueues
<1>5. Enqueued(Q, R, M, F, B, B, N, N)
  BY <1>2, <1>4 DEF Enqueued, DeviceTypes, BlocksKept
<1>6. \A s \in Streams : \A k \in Fresh(Q, R, s) :
        R[s][k].op = "kernel" /\ s = S /\ k = Len(R[S]) /\ R[s][k].reads = reads
  BY <1>1, <1>4 DEF OneFresh
<1>7. FreshWrites(Q, R, B, B, N, N)
  BY <1>6 DEF FreshWrites
<1>8. FreshPasses(Q, R, B, B)
  BY <1>6 DEF FreshPasses
<1>9. FreshKernels(Q, R, M, B, N)
  <2>1. ASSUME NEW r \in reads
        PROVE  /\ B[r.block].home \in Streams
               /\ Readable(R, M, B, N, S, Len(Q[S]), r.block, r.content)
               /\ S # B[r.block].home =>
                    /\ S \in B[r.block].users \union B[r.block].waiting
                    /\ \A j \in 1 .. Len(R[S]) : R[S][j] # Passed(r.block)
    <3> DEFINE b == r.block
               c == r.content
    <3>1. /\ b \in Blocks /\ B[b].live /\ (S = B[b].home \/ S \in B[b].users)
          /\ Readable(Q, M, B, N, S, Len(Q[S]), b, c)
      BY DEF HeldReady
    <3> HIDE DEF b, c
    <3>2. B[b].home \in Streams
      BY <1>2, <3>1 DEF BlocksFit
    <3>3. Q[S] \in Seq(Operations) /\ R[S] \in Seq(Operations) /\ Len(Q[S]) \in Nat
          /\ Len(Q[S]) \in 0 .. Len(Q[S]) /\ Len(Q[S]) <= Len(Q[S])
      BY <1>2, <1>4, LenProperties
    <3>4. CASE S = B[b].home
      <4>1. Leaves(Q[S], Len(Q[S]), b, M[b], c) /\ Extended(Q[S], R[S])
        BY <1>4, <3>1, <3>4 DEF Readable
      <4>2. Leaves(R[S], Len(Q[S]), b, M[b], c)
        BY <3>3, <4>1, ExtendedLeaves
      <4>3. Readable(R, M, B, N, S, Len(Q[S]), b, c)
        BY <3>4, <4>2 DEF Readable
      <4> QED BY <3>2, <3>4, <4>3 DEF b, c
    <3>5. CASE S # B[b].home
      <4>1. \A k \in Fresh(Q, R, B[b].home) : ~IsWrite(R[B[b].home][k], b)
        BY <1>6, <3>2 DEF IsWrite
      <4>2. \A t \in Streams : \A n, m, d :
              /\ n \in Nat /\ m \in Nat /\ n <= m /\ n <= Len(Q[t])
              /\ t = B[b].home => n = Len(Q[t]) /\ m = Len(R[t])
              /\ Readable(Q, M, B, N, t, n, b, d)
              => Readable(R, M, B, N, t, m, b, d)
        BY <1>5, <3>1, <3>2, <4>1, Kept
      <4>3. Readable(R, M, B, N, S, Len(Q[S]), b, c)
        BY <3>1, <3>3, <3>5, <4>2
      <4>4. ASSUME NEW j \in 1 .. Len(R[S]) PROVE R[S][j] # Passed(b)
        <5>1. CASE j = Len(R[S])
          BY <1>1, <1>4, <5>1
        <5>2. CASE j # Len(R[S])
          <6>1. j \in 1 .. Len(Q[S])
            BY <1>4, <3>3, <5>2
          <6>2. R[S][j] = Q[S][j]
            BY <1>4, <6>1 DEF Extended
          <6>3. Q[S][j] # Passed(b)
            <7>1. Passed(b).op = "passed" /\ Passed(b).block = b
              BY DEF Passed
            <7> QED BY <1>2, <3>1, <6>1, <7>1 DEF PassesPending
          <6> QED BY <6>2, <6>3
        <5> QED BY <5>1, <5>2
      <4> QED BY <3>1, <3>2, <3>5, <4>3, <4>4 DEF b, c
    <3> QED BY <3>4, <3>5
  <2>2. Len(R[S]) - 1 = Len(Q[S]) /\ 1 .. Len(R[S]) = 1 .. Len(R[S])
    BY <1>2, <1>4, LenProperties
  <2> SUFFICES ASSUME NEW s \in Streams, NEW k \in Fresh(Q, R, s), NEW r \in R[s][k].reads
               PROVE  /\ B[r.block].home \in Streams
                      /\ Readable(R, M, B, N, s, k - 1, r.block, r.content)
                      /\ s # B[r.block].home =>
                           /\ s \in B[r.block].users \union B[r.block].waiting
                           /\ \A j \in 1 .. k : R[s][j] # Passed(r.block)
    BY DEF FreshKernels
  <2>3. s = S /\ k = Len(R[S]) /\ k - 1 = Len(Q[S]) /\ r \in reads
    BY <1>6, <2>2
  <2> QED BY <2>1, <2>3
<1>10. DeviceOK(R, M, F, B, N)
  BY <1>2, <1>5, <1>7, <1>8, <1>9, DeviceGrows
<1>11. ASSUME NEW d \in Blocks PROVE Stays(Q, R, M, M, B, B, N, N, d)
  <2>1. \A s \in Streams : \A k \in Fresh(Q, R, s) : ~IsWrite(R[s][k], d)
    BY <1>6 DEF IsWrite
  <2> QED BY <1>2, <1>5, <2>1, StaysKept
<1> QED BY <1>10, <1>11

\* What lies in a block or will is what its own stream leaves there.
LEMMA ArrivesLeaves ==
  ASSUME NEW q \in Seq(Operations), NEW b, NEW v, NEW c, NEW e,
         Settled(q, b, v, c) \/ Coming(q, b, c, e)
  PROVE  Leaves(q, Len(q), b, v, c)
<1>1. CASE Settled(q, b, v, c)
  BY <1>1 DEF Settled, Leaves
<1>2. ASSUME NEW k \in 1 .. Len(q), q[k] = Write(b, c, e), Unwritten(q, k + 1, Len(q), b)
      PROVE  Leaves(q, Len(q), b, v, c)
  <2>1. IsWrite(q[k], b) /\ q[k].content = c
    BY <1>2 DEF Write, IsWrite
  <2> QED BY <1>2, <2>1 DEF Leaves
<1> QED BY <1>1, <1>2 DEF Coming

\* A block as seen by the allocator after its tensor was used on stream S.
Uses(B, A, b, S) == A = [B EXCEPT ![b] = Recorded(B[b], S)]

\* The records after a stream's use of a block is recorded.
LEMMA UsedRecords ==
  ASSUME NEW B \in [Blocks -> Records], BlocksFit(B), NEW b \in Blocks, B[b].live,
         NEW S \in Streams, NEW A, Uses(B, A, b, S)
  PROVE  /\ A \in [Blocks -> Records] /\ BlocksFit(A) /\ BlocksKept(B, A)
         /\ \A d \in Blocks : A[d].live = B[d].live
         /\ A[b].home = B[b].home /\ (S = B[b].home \/ S \in A[b].users)
<1>1. B[b] \in Records /\ Recorded(B[b], S) \in Records
      /\ Recorded(B[b], S).live = B[b].live /\ Recorded(B[b], S).home = B[b].home
      /\ Recorded(B[b], S).waiting = B[b].waiting
      /\ B[b].users \subseteq Recorded(B[b], S).users
      /\ Recorded(B[b], S).users \subseteq B[b].users \union {S}
      /\ (S = B[b].home => Recorded(B[b], S).users = B[b].users)
      /\ (S = B[b].home \/ S \in Recorded(B[b], S).users)
  BY DEF Recorded, Records
<1>2. A[b] = Recorded(B[b], S) /\ \A d \in Blocks : d # b => A[d] = B[d]
  BY DEF Uses
<1>3. A \in [Blocks -> Records]
  BY <1>1 DEF Uses
<1>4. /\ B[b].home \in Streams /\ B[b].waiting = {}
      /\ B[b].home \notin B[b].users \union B[b].waiting
  BY DEF BlocksFit
<1>5. BlocksFit(A)
  <2> SUFFICES ASSUME NEW d \in Blocks
               PROVE  /\ A[d].live => A[d].home \in Streams /\ A[d].waiting = {}
                      /\ ~A[d].live => A[d].users = {}
                      /\ A[d].home \notin A[d].users \union A[d].waiting
                      /\ A[d].waiting # {} => A[d].home \in Streams
    BY DEF BlocksFit
  <2>1. CASE d = b
    BY <1>1, <1>2, <1>4, <2>1
  <2>2. CASE d # b
    BY <1>2, <2>2 DEF BlocksFit
  <2> QED BY <2>1, <2>2
<1>6. BlocksKept(B, A)
  <2> SUFFICES ASSUME NEW d \in Blocks
               PROVE  /\ B[d].home \in Streams => A[d].home = B[d].home
                      /\ B[d].users \union B[d].waiting \subseteq A[d].users \union A[d].waiting
                      /\ B[d].waiting # {} => A[d] = B[d]
    BY DEF BlocksKept
  <2>1. CASE d = b
    BY <1>1, <1>2, <1>4, <2>1
  <2>2. CASE d # b
    BY <1>2, <2>2
  <2> QED BY <2>1, <2>2
<1> QED BY <1>1, <1>2, <1>3, <1>5, <1>6

\* The host takes a tensor from a cache on stream S.
LEMMA DeviceTakes ==
  ASSUME NEW Q, NEW R, NEW M, NEW F, NEW B, NEW A, NEW N, NEW S \in Streams, NEW b, NEW e, NEW c,
         DeviceOK(Q, M, F, B, N), CachedReady(Q, M, B, N, b, e, c),
         Appends(Q, R, S, WaitEvent(e)), Uses(B, A, b, S)
  PROVE  /\ DeviceOK(R, M, F, A, N)
         /\ \A d \in Blocks : A[d].live = B[d].live /\ Stays(Q, R, M, M, B, A, N, N, d)
         /\ HeldReady(R, M, A, N, S, b, c)
<1> DEFINE o == WaitEvent(e)
<1>0. /\ b \in Blocks /\ B[b].live /\ e \in 1 .. N
      /\ Settled(Q[B[b].home], b, M[b], c) \/ Coming(Q[B[b].home], b, c, e)
  BY DEF CachedReady
<1>2. /\ Q \in [Streams -> Seq(Operations)] /\ B \in [Blocks -> Records] /\ BlocksFit(B)
      /\ M \in [Blocks -> Contents] /\ N \in Nat /\ F \subseteq 0 .. N /\ N <= N
  BY DEF DeviceOK, DeviceTypes
<1>1. o \in Operations /\ o.op = "wait"
  BY <1>0, <1>2 DEF WaitEvent, Operations, Waits
<1>3. Appends(Q, R, S, o)
  OBVIOUS
<1> HIDE DEF o
<1>4. /\ R \in [Streams -> Seq(Operations)]
      /\ \A s \in Streams : Extended(Q[s], R[s])
      /\ OneFresh(Q, R, S, o)
      /\ Len(R[S]) \in Nat \ {0} /\ R[S][Len(R[S])] = o /\ Len(R[S]) = Len(Q[S]) + 1
  BY <1>1, <1>2, <1>3, AppendedQueues
<1>5. /\ A \in [Blocks -> Records] /\ BlocksFit(A) /\ BlocksKept(B, A)
      /\ \A d \in Blocks : A[d].live = B[d].live
      /\ A[b].home = B[b].home /\ (S = B[b].home \/ S \in A[b].users)
  BY <1>0, <1>2, UsedRecords
<1>6. Enqueued(Q, R, M, F, B, A, N, N)
  BY <1>2, <1>4, <1>5 DEF Enqueued, DeviceTypes
<1>7. \A s \in Streams : \A k \in Fresh(Q, R, s) : R[s][k].op = "wait"
  BY <1>1, <1>4 DEF OneFresh
<1>8. FreshWrites(Q, R, B, A, N, N) /\ FreshPasses(Q, R, B, A) /\ FreshKernels(Q, R, M, A, N)
  BY <1>7 DEF FreshWrites, FreshPasses, FreshKernels
<1>9. DeviceOK(R, M, F, A, N)
  BY <1>5, <1>6, <1>8, DeviceGrows
<1>10. ASSUME NEW d \in Blocks PROVE Stays(Q, R, M, M, B, A, N, N, d)
  <2>1. \A s \in Streams : \A k \in Fresh(Q, R, s) : ~IsWrite(R[s][k], d)
    BY <1>7 DEF IsWrite
  <2> QED BY <1>2, <1>5, <1>6, <2>1, StaysKept
<1>11. CachedReady(R, M, A, N, b, e, c)
  BY <1>0, <1>10 DEF Stays
<1>12. Settled(R[A[b].home], b, M[b], c) \/ Coming(R[A[b].home], b, c, e)
  BY <1>11 DEF CachedReady
<1>13. Readable(R, M, A, N, S, Len(R[S]), b, c)
  <2>1. CASE S = A[b].home
    <3>1. Leaves(R[S], Len(R[S]), b, M[b], c)
      <4>1. R[S] \in Seq(Operations) /\ (Settled(R[S], b, M[b], c) \/ Coming(R[S], b, c, e))
        BY <1>4, <1>12, <2>1
      <4> QED BY <4>1, ArrivesLeaves
    <3> QED BY <2>1, <3>1 DEF Readable
  <2>2. CASE S # A[b].home
    <3>1. Len(R[S]) \in 1 .. Len(R[S]) /\ R[S][Len(R[S])] = WaitEvent(e)
      BY <1>4 DEF o
    <3> QED BY <1>0, <1>12, <2>2, <3>1 DEF Readable
  <2> QED BY <2>1, <2>2
<1>14. HeldReady(R, M, A, N, S, b, c)
  BY <1>0, <1>5, <1>13 DEF HeldReady
<1> QED BY <1>5, <1>9, <1>10, <1>14

\* The allocator hands out block b on stream S.
FreeFor(B, b, S) == ~B[b].live /\ B[b].waiting = {} /\ B[b].home \in {S, Nothing}
HandsOut(B, A, b, S) == A = [B EXCEPT ![b] = Allocated(b, S)]

\* The records after a block is handed out.
LEMMA AllocatedRecords ==
  ASSUME NEW B \in [Blocks -> Records], BlocksFit(B), NEW S \in Streams,
         NEW b \in Blocks, FreeFor(B, b, S),
         NEW A, HandsOut(B, A, b, S)
  PROVE  /\ A \in [Blocks -> Records] /\ BlocksFit(A) /\ BlocksKept(B, A)
         /\ \A d \in Blocks : d # b => A[d] = B[d]
         /\ A[b].live /\ A[b].home = S
<1>1. /\ Allocated(b, S) \in Records /\ Allocated(b, S).live /\ Allocated(b, S).home = S
      /\ Allocated(b, S).users = {} /\ Allocated(b, S).waiting = {}
  BY DEF Allocated, Records
<1>2. A[b] = Allocated(b, S) /\ \A d \in Blocks : d # b => A[d] = B[d]
  BY DEF HandsOut
<1>3. A \in [Blocks -> Records]
  BY <1>1 DEF HandsOut
<1>4. B[b].users = {} /\ B[b].waiting = {} /\ (B[b].home \in Streams => B[b].home = S)
  BY DeviceAssumption DEF BlocksFit, FreeFor
<1>5. BlocksFit(A)
  <2> SUFFICES ASSUME NEW d \in Blocks
               PROVE  /\ A[d].live => A[d].home \in Streams /\ A[d].waiting = {}
                      /\ ~A[d].live => A[d].users = {}
                      /\ A[d].home \notin A[d].users \union A[d].waiting
                      /\ A[d].waiting # {} => A[d].home \in Streams
    BY DEF BlocksFit
  <2>1. CASE d = b
    BY <1>1, <1>2, <2>1
  <2>2. CASE d # b
    BY <1>2, <2>2 DEF BlocksFit
  <2> QED BY <2>1, <2>2
<1>6. BlocksKept(B, A)
  <2> SUFFICES ASSUME NEW d \in Blocks
               PROVE  /\ B[d].home \in Streams => A[d].home = B[d].home
                      /\ B[d].users \union B[d].waiting \subseteq A[d].users \union A[d].waiting
                      /\ B[d].waiting # {} => A[d] = B[d]
    BY DEF BlocksKept
  <2>1. CASE d = b
    BY <1>1, <1>2, <1>4, <2>1
  <2>2. CASE d # b
    BY <1>2, <2>2
  <2> QED BY <2>1, <2>2
<1> QED BY <1>1, <1>2, <1>3, <1>5, <1>6

\* The host creates a tensor with content c in block b on stream S.
LEMMA DeviceWrites ==
  ASSUME NEW Q, NEW R, NEW M, NEW F, NEW B, NEW A, NEW N, NEW S \in Streams,
         NEW b \in Blocks, NEW c \in Contents,
         DeviceOK(Q, M, F, B, N), FreeFor(B, b, S),
         Appends(Q, R, S, Write(b, c, N + 1)), HandsOut(B, A, b, S)
  PROVE  /\ DeviceOK(R, M, F, A, N + 1)
         /\ \A d \in Blocks : d # b => A[d] = B[d]
         /\ \A d \in Blocks : B[d].live => Stays(Q, R, M, M, B, A, N, N + 1, d)
         /\ CachedReady(R, M, A, N + 1, b, N + 1, c)
         /\ HeldReady(R, M, A, N + 1, S, b, c)
<1> DEFINE o == Write(b, c, N + 1)
           P == N + 1
<1>2. /\ Q \in [Streams -> Seq(Operations)] /\ B \in [Blocks -> Records] /\ BlocksFit(B)
      /\ M \in [Blocks -> Contents] /\ N \in Nat /\ F \subseteq 0 .. N /\ N <= P /\ P \in Nat
      /\ P # 0 /\ P \in 1 .. P
  BY DEF DeviceOK, DeviceTypes
<1>0. F \subseteq 0 .. P
  BY <1>2
<1>1. o \in Operations /\ o.op = "write" /\ o.block = b /\ o.event = P
  BY <1>2 DEF Write, Operations, Writes
<1>3. Appends(Q, R, S, o)
  OBVIOUS
<1> HIDE DEF o
<1>4. /\ R \in [Streams -> Seq(Operations)]
      /\ \A s \in Streams : Extended(Q[s], R[s])
      /\ OneFresh(Q, R, S, o)
      /\ Len(R[S]) \in Nat \ {0} /\ R[S][Len(R[S])] = o /\ Len(R[S]) = Len(Q[S]) + 1
  BY <1>1, <1>2, <1>3, AppendedQueues
<1>5. /\ A \in [Blocks -> Records] /\ BlocksFit(A) /\ BlocksKept(B, A)
      /\ \A d \in Blocks : d # b => A[d] = B[d]
      /\ A[b].live /\ A[b].home = S
  BY <1>2, AllocatedRecords
<1> HIDE DEF P
<1>6. Enqueued(Q, R, M, F, B, A, N, P)
  BY <1>0, <1>2, <1>4, <1>5 DEF Enqueued, DeviceTypes
<1>7. \A s \in Streams : \A k \in Fresh(Q, R, s) :
        /\ s = S /\ k = Len(R[S]) /\ R[s][k].op = "write" /\ R[s][k].block = b /\ R[s][k].event = P
  BY <1>1, <1>4 DEF OneFresh
<1>8. FreshWrites(Q, R, B, A, N, P)
  <2>1. B[b].users \union B[b].waiting = {}
    BY <1>2 DEF BlocksFit, FreeFor
  <2> SUFFICES ASSUME NEW s \in Streams, NEW k \in Fresh(Q, R, s)
               PROVE  /\ A[R[s][k].block].home = s
                      /\ B[R[s][k].block].users \union B[R[s][k].block].waiting = {}
                      /\ R[s][k].event = N + 1 /\ P = N + 1
                      /\ \A t \in Streams : \A j \in Fresh(Q, R, t) : t = s /\ j = k
    BY DEF FreshWrites
  <2>2. s = S /\ k = Len(R[S]) /\ R[s][k].block = b /\ R[s][k].event = P
    BY <1>7
  <2>3. \A t \in Streams : \A j \in Fresh(Q, R, t) : t = s /\ j = k
    BY <1>7, <2>2
  <2> QED BY <1>5, <2>1, <2>2, <2>3 DEF P
<1>9. FreshPasses(Q, R, B, A) /\ FreshKernels(Q, R, M, A, P)
  BY <1>7 DEF FreshPasses, FreshKernels
<1>10. DeviceOK(R, M, F, A, P)
  BY <1>5, <1>6, <1>8, <1>9, DeviceGrows
<1>11. ASSUME NEW d \in Blocks, B[d].live PROVE Stays(Q, R, M, M, B, A, N, P, d)
  <2>1. d # b
    BY <1>11 DEF FreeFor
  <2>2. \A s \in Streams : \A k \in Fresh(Q, R, s) : ~IsWrite(R[s][k], d)
    BY <1>7, <2>1 DEF IsWrite
  <2>3. B[d].live => A[d].live
    BY <1>5, <2>1
  <2> QED BY <1>2, <1>5, <1>6, <2>2, <2>3, StaysKept
<1>12. Coming(R[S], b, c, P)
  <2>1. Len(R[S]) \in 1 .. Len(R[S]) /\ R[S][Len(R[S])] = Write(b, c, P)
    BY <1>4 DEF o, P
  <2>2. Unwritten(R[S], Len(R[S]) + 1, Len(R[S]), b)
    BY <1>4 DEF Unwritten
  <2> QED BY <2>1, <2>2 DEF Coming
<1>13. CachedReady(R, M, A, P, b, P, c)
  BY <1>2, <1>5, <1>12 DEF CachedReady
<1>14. HeldReady(R, M, A, P, S, b, c)
  <2>1. R[S] \in Seq(Operations)
    BY <1>4
  <2>2. Leaves(R[S], Len(R[S]), b, M[b], c)
    BY <1>12, <2>1, ArrivesLeaves
  <2> QED BY <1>5, <2>2 DEF HeldReady, Readable
<1> QED BY <1>5, <1>10, <1>11, <1>13, <1>14 DEF P

-----------------------------------------------------------------------------
\* The allocator hands out a block that is free for the caller's stream.
LEMMA NewBlockIs ==
  ASSUME CanCreate
  PROVE  NewBlock \in Blocks /\ FreeFor(block, NewBlock, call.stream)
<1> DEFINE S == {b \in Blocks : Available(b, call.stream)}
<1>1. S \subseteq Nat /\ S # {}
  BY DeviceAssumption DEF CanCreate
<1>2. NewBlock = Min(S)
  BY DEF NewBlock, Allocation
<1> HIDE DEF S
<1>3. NewBlock \in S
  BY <1>1, <1>2, MinNat
<1> QED BY <1>3 DEF S, Available, FreeFor

\* Aftermath enqueues what is left to do on a stream.
LEMMA AftermathIs ==
  ASSUME NEW B, NEW D, \A b \in D : B[b] = block[b], NEW s
  PROVE  Aftermath(D, s) = SetToSeq(Notes(B, D, s))
<1>1. /\ {x \in D : s \in block[x].users} = {x \in D : s \in B[x].users}
      /\ {x \in D : block[x].users = {} /\ block[x].home = s} = {x \in D : B[x].users = {} /\ B[x].home = s}
  OBVIOUS
<1> QED BY <1>1 DEF Aftermath, Notes

\* A miss, on the caller's stream: the blocks in evicted go.
LEMMA CreateStep ==
  ASSUME DeviceReady, call.stream \in Streams, CanCreate,
         NEW content \in Contents, NEW evicted \in SUBSET Blocks, \A b \in evicted : block[b].live,
         Create(content, evicted)
  PROVE  /\ DeviceReady'
         /\ NewBlock \in Blocks /\ ~block[NewBlock].live
         /\ {b \in Blocks : block'[b].live} = ({b \in Blocks : block[b].live} \ evicted) \union {NewBlock}
         /\ \A d \in Blocks \ evicted : block[d].live =>
              Stays(queue, queue', mem, mem', block, block', events, events', d)
         /\ CachedReady(queue', mem', block', events', NewBlock, events + 1, content)
         /\ HeldReady(queue', mem', block', events', call.stream, NewBlock, content)
<1> DEFINE S == call.stream
           n == NewBlock
           o == Write(n, content, events + 1)
           R == [queue EXCEPT ![S] = Append(queue[S], o)]
           A == [block EXCEPT ![n] = Allocated(n, S)]
<1>1. /\ DeviceOK(queue, mem, fired, block, events) /\ queue \in [Streams -> Seq(Operations)]
      /\ block \in [Blocks -> Records]
  BY DEF DeviceReady, DeviceOK, DeviceTypes
<1>2. n \in Blocks /\ FreeFor(block, n, S) /\ ~block[n].live
  BY NewBlockIs DEF FreeFor
<1>3. /\ events' = events + 1 /\ mem' = mem /\ fired' = fired
      /\ queue' = [s \in Streams |->
           (IF s = S THEN Append(queue[s], o) ELSE queue[s]) \o Aftermath(evicted, s)]
      /\ block' = [x \in Blocks |->
           IF x = n THEN Allocated(x, S) ELSE IF x \in evicted THEN Dropped(block[x]) ELSE block[x]]
  BY DEF Create
<1> HIDE DEF n
<1>4. Appends(queue, R, S, Write(n, content, events + 1)) /\ HandsOut(block, A, n, S)
  BY DEF Appends, HandsOut
<1> HIDE DEF o
<1>5. /\ R = [s \in Streams |-> IF s = S THEN Append(queue[s], o) ELSE queue[s]]
      /\ A = [x \in Blocks |-> IF x = n THEN Allocated(x, S) ELSE block[x]]
  BY <1>1
<1> HIDE DEF R, A
<1>6. /\ DeviceOK(R, mem, fired, A, events + 1)
      /\ \A d \in Blocks : d # n => A[d] = block[d]
      /\ \A d \in Blocks : block[d].live => Stays(queue, R, mem, mem, block, A, events, events + 1, d)
      /\ CachedReady(R, mem, A, events + 1, n, events + 1, content)
      /\ HeldReady(R, mem, A, events + 1, S, n, content)
  BY <1>1, <1>2, <1>4, DeviceWrites
<1>7. \A b \in evicted : b # n /\ A[b] = block[b] /\ A[b].live
  BY <1>2, <1>6
<1>8. Dropping(R, A, evicted, queue', block')
  <2>1. queue' = [s \in Streams |-> R[s] \o SetToSeq(Notes(A, evicted, s))]
    <3>1. \A s \in Streams : Aftermath(evicted, s) = SetToSeq(Notes(A, evicted, s))
      BY <1>7, AftermathIs
    <3> QED BY <1>3, <1>5, <3>1
  <2>2. block' = [b \in Blocks |-> IF b \in evicted THEN Dropped(A[b]) ELSE A[b]]
    BY <1>3, <1>5, <1>7
  <2> QED BY <2>1, <2>2 DEF Dropping
<1>9. /\ DeviceOK(queue', mem, fired, block', events + 1)
      /\ Enqueued(R, queue', mem, fired, A, block', events + 1, events + 1)
      /\ Gone(A, block', evicted) /\ FreshNotes(R, queue', A, evicted)
  BY <1>6, <1>7, <1>8, DeviceDrops
<1>10. DeviceReady'
  BY <1>3, <1>9 DEF DeviceReady
<1>11. ASSUME NEW d \in Blocks \ evicted
       PROVE  Stays(R, queue', mem, mem, A, block', events + 1, events + 1, d)
  <2>1. BlocksFit(A) /\ BlocksFit(block')
    BY <1>6, <1>9 DEF DeviceOK
  <2>2. A[d].live => block'[d].live
    BY <1>9 DEF Gone
  <2>3. \A s \in Streams : \A k \in Fresh(R, queue', s) : ~IsWrite(queue'[s][k], d)
    BY <1>9, NotedIs DEF FreshNotes
  <2> QED BY <1>9, <2>1, <2>2, <2>3, StaysKept
<1>12. n \in Blocks \ evicted
  BY <1>2, <1>7
<1>13. /\ CachedReady(queue', mem', block', events', n, events + 1, content)
       /\ HeldReady(queue', mem', block', events', S, n, content)
  <2>1. Stays(R, queue', mem, mem, A, block', events + 1, events + 1, n)
    BY <1>11, <1>12
  <2> QED BY <1>3, <1>6, <2>1 DEF Stays
<1>14. ASSUME NEW d \in Blocks \ evicted, block[d].live
       PROVE  Stays(queue, queue', mem, mem', block, block', events, events', d)
  <2>1. /\ Stays(queue, R, mem, mem, block, A, events, events + 1, d)
        /\ Stays(R, queue', mem, mem, A, block', events + 1, events + 1, d)
    BY <1>6, <1>11, <1>14
  <2> QED BY <1>3, <2>1, StaysTransitive
<1>15. {b \in Blocks : block'[b].live} = ({b \in Blocks : block[b].live} \ evicted) \union {n}
  <2>1. A[n].live
    BY <1>6 DEF CachedReady
  <2>2. ASSUME NEW b \in Blocks
        PROVE  block'[b].live <=> (block[b].live /\ b \notin evicted) \/ b = n
    BY <1>6, <1>9, <1>12, <2>1 DEF Gone
  <2> QED BY <1>2, <2>2
<1> QED BY <1>2, <1>10, <1>13, <1>14, <1>15 DEF n

\* References to the blocks D go.
LEMMA DropStep ==
  ASSUME DeviceReady, NEW D \in SUBSET Blocks, \A b \in D : block[b].live, Drop(D), events' = events
  PROVE  /\ DeviceReady'
         /\ {b \in Blocks : block'[b].live} = {b \in Blocks : block[b].live} \ D
         /\ \A d \in Blocks \ D : block[d].live =>
              Stays(queue, queue', mem, mem', block, block', events, events', d)
<1>1. DeviceOK(queue, mem, fired, block, events) /\ block \in [Blocks -> Records] /\ BlocksFit(block)
  BY DEF DeviceReady, DeviceOK, DeviceTypes
<1>2. mem' = mem /\ fired' = fired
  BY DEF Drop
<1>3. Dropping(queue, block, D, queue', block')
  <2>1. \A s \in Streams : Aftermath(D, s) = SetToSeq(Notes(block, D, s))
    BY AftermathIs
  <2> QED BY <2>1 DEF Drop, Dropping
<1>4. /\ DeviceOK(queue', mem, fired, block', events)
      /\ Enqueued(queue, queue', mem, fired, block, block', events, events)
      /\ Gone(block, block', D) /\ FreshNotes(queue, queue', block, D)
  BY <1>1, <1>3, DeviceDrops
<1>5. DeviceReady'
  BY <1>2, <1>4 DEF DeviceReady
<1>6. {b \in Blocks : block'[b].live} = {b \in Blocks : block[b].live} \ D
  BY <1>4 DEF Gone
<1>7. ASSUME NEW d \in Blocks \ D
      PROVE  Stays(queue, queue', mem, mem', block, block', events, events', d)
  <2>1. BlocksFit(block')
    BY <1>4 DEF DeviceOK
  <2>2. block[d].live => block'[d].live
    BY <1>4 DEF Gone
  <2>3. \A s \in Streams : \A k \in Fresh(queue, queue', s) : ~IsWrite(queue'[s][k], d)
    BY <1>4, NotedIs DEF FreshNotes
  <2>4. Stays(queue, queue', mem, mem, block, block', events, events, d)
    BY <1>1, <1>4, <2>1, <2>2, <2>3, StaysKept
  <2> QED BY <1>2, <2>4
<1> QED BY <1>5, <1>6, <1>7

\* A hit: the call's stream waits for the entry's event and may then read it.
LEMMA TakeStep ==
  ASSUME DeviceReady, call.stream \in Streams, NEW e, NEW c,
         CachedReady(queue, mem, block, events, e.block, e.event, c), Take(e), events' = events
  PROVE  /\ DeviceReady'
         /\ \A d \in Blocks : /\ block'[d].live = block[d].live
                              /\ Stays(queue, queue', mem, mem', block, block', events, events', d)
         /\ HeldReady(queue', mem', block', events', call.stream, e.block, c)
<1> DEFINE S == call.stream
<1>1. DeviceOK(queue, mem, fired, block, events) /\ queue \in [Streams -> Seq(Operations)]
      /\ block \in [Blocks -> Records]
  BY DEF DeviceReady, DeviceOK, DeviceTypes
<1>2. mem' = mem /\ fired' = fired
  BY DEF Take
<1>3. Appends(queue, queue', S, WaitEvent(e.event)) /\ Uses(block, block', e.block, S)
  <2>1. e.block \in Blocks
    BY DEF CachedReady
  <2>2. queue' = [queue EXCEPT ![S] = Append(queue[S], WaitEvent(e.event))]
    BY <1>1 DEF Take
  <2>3. block' = [block EXCEPT ![e.block] = Recorded(block[e.block], S)]
    BY <1>1, <2>1 DEF Take
  <2> QED BY <2>2, <2>3 DEF Appends, Uses
<1>4. /\ DeviceOK(queue', mem, fired, block', events)
      /\ \A d \in Blocks : /\ block'[d].live = block[d].live
                           /\ Stays(queue, queue', mem, mem, block, block', events, events, d)
      /\ HeldReady(queue', mem, block', events, S, e.block, c)
  BY <1>1, <1>3, DeviceTakes
<1> QED BY <1>2, <1>4 DEF DeviceReady

\* The metadata a kernel of this call reads.
LEMMA ReadsAre ==
  ASSUME HostTypes, HeldOK, pc # "idle"
  PROVE  /\ Reads \in SUBSET Reading
         /\ \A r \in Reads : HeldReady(queue, mem, block, events, call.stream, r.block, r.content)
<1>1. call \in CallsInProgress
  BY DEF HostTypes
<1>2. KeyMeasure(call) \in Contents
  BY <1>1, CallOf DEF Contents, Measures
<1>3. held.mapped # Nothing => Intended(call.wire) \in Contents
  BY DEF HeldOK, MapHeld, Contents, Selections
<1> SUFFICES ASSUME NEW r \in Reads
             PROVE  r \in Reading /\ HeldReady(queue, mem, block, events, call.stream, r.block, r.content)
  OBVIOUS
<1>4. \/ held.bias # Nothing /\ r = [block |-> held.bias, content |-> KeyMeasure(call)]
      \/ held.mapped # Nothing /\ r = [block |-> held.mapped, content |-> Intended(call.wire)]
  BY DEF Reads, Intended
<1>5. CASE held.bias # Nothing /\ r = [block |-> held.bias, content |-> KeyMeasure(call)]
  <2>1. held.bias \in Blocks
    BY <1>5 DEF HeldOK
  <2>2. r \in Reading /\ r.block = held.bias /\ r.content = KeyMeasure(call)
    BY <1>2, <1>5, <2>1 DEF Reading
  <2> QED BY <1>5, <2>2 DEF HeldOK, MeasureHeld
<1>6. CASE held.mapped # Nothing /\ r = [block |-> held.mapped, content |-> Intended(call.wire)]
  <2>1. held.mapped \in Blocks
    BY <1>6 DEF HeldOK
  <2>2. r \in Reading /\ r.block = held.mapped /\ r.content = Intended(call.wire)
    BY <1>3, <1>6, <2>1 DEF Reading
  <2> QED BY <1>6, <2>2 DEF HeldOK, MapHeld
<1> QED BY <1>4, <1>5, <1>6

\* A launch keeps the device's part of the invariant and every block.
LEMMA LaunchStep ==
  ASSUME HostTypes, DeviceReady, HeldOK, pc # "idle", Launch, events' = events
  PROVE  /\ DeviceReady' /\ block' = block
         /\ \A d \in Blocks : Stays(queue, queue', mem, mem', block, block', events, events', d)
<1>1. DeviceOK(queue, mem, fired, block, events) /\ queue \in [Streams -> Seq(Operations)]
  BY DEF DeviceReady, DeviceOK, DeviceTypes
<1>2. mem' = mem /\ fired' = fired /\ block' = block
  BY DEF Launch
<1>3. CASE Reads = {}
  <2>1. queue' = queue
    BY <1>3 DEF Launch
  <2> QED BY <1>1, <1>2, <2>1, StaysSame DEF DeviceReady
<1>4. CASE Reads # {}
  <2>1. Appends(queue, queue', call.stream, Kernel(Reads))
    BY <1>1, <1>4 DEF Launch, Appends
  <2>2. call.stream \in Streams
    BY CallOf DEF HostTypes
  <2>3. /\ Reads \in SUBSET Reading
        /\ \A r \in Reads : HeldReady(queue, mem, block, events, call.stream, r.block, r.content)
    BY ReadsAre
  <2> HIDE DEF Reads
  <2>4. /\ DeviceOK(queue', mem, fired, block, events)
        /\ \A d \in Blocks : Stays(queue, queue', mem, mem, block, block, events, events, d)
    BY <1>1, <2>1, <2>2, <2>3, DeviceLaunches
  <2> QED BY <1>2, <2>4 DEF DeviceReady
<1> QED BY <1>3, <1>4

-----------------------------------------------------------------------------
(***************************************************************************)
(* The tensors that calls hold and caches remember.                        *)
(***************************************************************************)

BlockStays(b) == Stays(queue, queue', mem, mem', block, block', events, events', b)

\* What a call holds, it goes on holding.
LEMMA HeldStays ==
  ASSUME HeldOK, call.stream \in Streams, call' = call, pc' # "idle",
         held' \in [bias : Blocks \union {Nothing}, mapped : Blocks \union {Nothing}]
  PROVE  /\ held'.bias = held.bias /\ (held.bias # Nothing => BlockStays(held.bias)) => MeasureHeld'
         /\ held'.mapped = held.mapped /\ (held.mapped # Nothing => BlockStays(held.mapped)) => MapHeld'
<1>1. ASSUME held'.bias = held.bias, held.bias # Nothing, BlockStays(held.bias)
      PROVE  HeldReady(queue', mem', block', events', call'.stream, held'.bias, KeyMeasure(call'))
  <2>1. HeldReady(queue, mem, block, events, call.stream, held.bias, KeyMeasure(call))
    BY <1>1 DEF HeldOK, MeasureHeld
  <2> QED BY <1>1, <2>1 DEF BlockStays, Stays
<1>2. ASSUME held'.mapped = held.mapped, held.mapped # Nothing, BlockStays(held.mapped)
      PROVE  /\ \E c \in Mappable : call'.wire = c.wire
             /\ HeldReady(queue', mem', block', events', call'.stream, held'.mapped, Intended(call'.wire))
  <2>1. /\ \E c \in Mappable : call.wire = c.wire
        /\ HeldReady(queue, mem, block, events, call.stream, held.mapped, Intended(call.wire))
    BY <1>2 DEF HeldOK, MapHeld
  <2> QED BY <1>2, <2>1 DEF BlockStays, Stays
<1>3. ASSUME held'.bias = held.bias, held.bias # Nothing => BlockStays(held.bias)
      PROVE  MeasureHeld'
  BY <1>1, <1>3 DEF MeasureHeld
<1>4. ASSUME held'.mapped = held.mapped, held.mapped # Nothing => BlockStays(held.mapped)
      PROVE  MapHeld'
  BY <1>2, <1>4 DEF MapHeld
<1> QED BY <1>3, <1>4

\* What a cache remembers it remembered before, and it is not in the blocks E
\* that go, or it is new.
MeasuresKept(E) ==
  \A k \in DOMAIN bias'.entries :
    \/ \E j \in DOMAIN bias.entries : bias'.entries[k] = bias.entries[j] /\ bias.entries[j].block \notin E
    \/ CachedReady(queue', mem', block', events', bias'.entries[k].block, bias'.entries[k].event,
                   bias'.entries[k].key[2])
MapsKept(E) ==
  \A k \in DOMAIN mapped'.entries :
    \/ \E j \in DOMAIN mapped.entries : mapped'.entries[k] = mapped.entries[j] /\ mapped.entries[j].block \notin E
    \/ CachedReady(queue', mem', block', events', mapped'.entries[k].block, mapped'.entries[k].event,
                   Intended(mapped'.entries[k].key[1]))

\* Cached tensors stay ready if their blocks stay as they are.
LEMMA CachesStay ==
  ASSUME CachedOK, NEW E, \A d \in Blocks \ E : block[d].live => BlockStays(d),
         MeasuresKept(E), MapsKept(E)
  PROVE  CachedOK'
<1>1. ASSUME NEW b, NEW e, NEW c, b \notin E, CachedReady(queue, mem, block, events, b, e, c)
      PROVE  CachedReady(queue', mem', block', events', b, e, c)
  <2>1. b \in Blocks /\ block[b].live
    BY <1>1 DEF CachedReady
  <2>2. BlockStays(b)
    BY <1>1, <2>1
  <2> QED BY <1>1, <2>2 DEF BlockStays, Stays
<1>2. ASSUME NEW k \in DOMAIN bias'.entries
      PROVE  CachedReady(queue', mem', block', events', bias'.entries[k].block, bias'.entries[k].event,
                         bias'.entries[k].key[2])
  <2>1. ASSUME NEW j \in DOMAIN bias.entries, bias'.entries[k] = bias.entries[j], bias.entries[j].block \notin E
        PROVE  CachedReady(queue', mem', block', events', bias'.entries[k].block, bias'.entries[k].event,
                           bias'.entries[k].key[2])
    <3>1. CachedReady(queue, mem, block, events, bias.entries[j].block, bias.entries[j].event, bias.entries[j].key[2])
      BY DEF CachedOK, MeasureCached
    <3>2. CachedReady(queue', mem', block', events', bias.entries[j].block, bias.entries[j].event,
                      bias.entries[j].key[2])
      BY <1>1, <2>1, <3>1
    <3> QED BY <2>1, <3>2
  <2> QED BY <2>1 DEF MeasuresKept
<1>3. ASSUME NEW k \in DOMAIN mapped'.entries
      PROVE  CachedReady(queue', mem', block', events', mapped'.entries[k].block, mapped'.entries[k].event,
                         Intended(mapped'.entries[k].key[1]))
  <2>1. ASSUME NEW j \in DOMAIN mapped.entries, mapped'.entries[k] = mapped.entries[j], mapped.entries[j].block \notin E
        PROVE  CachedReady(queue', mem', block', events', mapped'.entries[k].block, mapped'.entries[k].event,
                           Intended(mapped'.entries[k].key[1]))
    <3>1. CachedReady(queue, mem, block, events, mapped.entries[j].block, mapped.entries[j].event,
                      Intended(mapped.entries[j].key[1]))
      BY DEF CachedOK, MapCached
    <3>2. CachedReady(queue', mem', block', events', mapped.entries[j].block, mapped.entries[j].event,
                      Intended(mapped.entries[j].key[1]))
      BY <1>1, <2>1, <3>1
    <3> QED BY <2>1, <3>2
  <2> QED BY <2>1 DEF MapsKept
<1> QED BY <1>2, <1>3 DEF CachedOK, MeasureCached, MapCached

\* An entry's block is live, and the blocks of the entries are the cache's.
LEMMA EntriesLive ==
  ASSUME CachedOK
  PROVE  /\ \A i \in DOMAIN bias.entries :
              /\ bias.entries[i].block \in Blocks /\ block[bias.entries[i].block].live
              /\ bias.entries[i].block \in BlocksOf(bias)
         /\ \A i \in DOMAIN mapped.entries :
              /\ mapped.entries[i].block \in Blocks /\ block[mapped.entries[i].block].live
              /\ mapped.entries[i].block \in BlocksOf(mapped)
         /\ BlocksOf(bias) \subseteq Blocks /\ BlocksOf(mapped) \subseteq Blocks
BY DEF CachedOK, MeasureCached, MapCached, CachedReady, BlocksOf

\* Steps that leave the tensors and the device alone.
LEMMA TensorsUntouched ==
  ASSUME HostTypes, PathFacts, HostTypes', TensorsOK, UNCHANGED device,
         events' = events, bias' = bias, mapped' = mapped, held' = held,
         call' = call \/ pc = "idle"
  PROVE  TensorsOK'
<1>1. /\ queue' = queue /\ mem' = mem /\ fired' = fired /\ block' = block
  BY DEF device
<1>2. DeviceReady' /\ CachesOK' /\ CachedOK' /\ Owned'
  BY <1>1 DEF TensorsOK, DeviceReady, CachesOK, CachedOK, MeasureCached, MapCached, Owned, HeldBlocks
<1>3. HeldOK'
  <2>1. CASE pc = "idle"
    <3>1. held.bias = Nothing /\ held.mapped = Nothing
      BY <2>1 DEF PathFacts, NoTensor
    <3> QED BY <3>1 DEF TensorsOK, HeldOK, MeasureHeld, MapHeld
  <2>2. CASE pc # "idle"
    <3>1. call' = call /\ pc' # "idle"
      BY <2>2 DEF HostTypes
    <3> QED BY <1>1, <2>2, <3>1 DEF TensorsOK, HeldOK, MeasureHeld, MapHeld
  <2> QED BY <2>1, <2>2
<1> QED BY <1>2, <1>3 DEF TensorsOK

\* Steps that change the device's queues but no reference to a tensor.
LEMMA TensorsStay ==
  ASSUME TensorsOK, HostTypes, HostTypes', DeviceReady', call' = call,
         \A b \in Blocks : block'[b].live = block[b].live /\ (block[b].live => BlockStays(b)),
         events' = events, bias' = bias, mapped' = mapped, held' = held
  PROVE  TensorsOK'
<1>1. CachesOK' /\ Owned'
  <2>1. {b \in Blocks : block'[b].live} = {b \in Blocks : block[b].live}
    OBVIOUS
  <2> QED BY <2>1 DEF TensorsOK, CachesOK, Owned, HeldBlocks
<1>2. CachedOK'
  <2>1. MeasuresKept({})
    BY DEF MeasuresKept
  <2>2. MapsKept({})
    BY DEF MapsKept
  <2>3. \A d \in Blocks \ {} : block[d].live => BlockStays(d)
    OBVIOUS
  <2> QED BY <2>1, <2>2, <2>3, CachesStay DEF TensorsOK
<1>3. HeldOK'
  <2>1. CASE pc = "idle"
    <3>1. held.bias = Nothing /\ held.mapped = Nothing
      BY <2>1 DEF TensorsOK, HeldOK, MeasureHeld, MapHeld
    <3> QED BY <3>1 DEF TensorsOK, HeldOK, MeasureHeld, MapHeld
  <2>2. CASE pc # "idle"
    <3>1. call.stream \in Streams /\ pc' # "idle"
      BY <2>2, CallOf DEF HostTypes
    <3>2. held.bias # Nothing => BlockStays(held.bias)
      BY DEF TensorsOK, HeldOK, MeasureHeld, HeldReady
    <3>3. held.mapped # Nothing => BlockStays(held.mapped)
      BY DEF TensorsOK, HeldOK, MapHeld, HeldReady
    <3>4. held' \in [bias : Blocks \union {Nothing}, mapped : Blocks \union {Nothing}]
      BY DEF TensorsOK, HeldOK
    <3>5. MeasureHeld' /\ MapHeld'
      BY <3>1, <3>2, <3>3, <3>4, HeldStays DEF TensorsOK
    <3> QED BY <3>4, <3>5 DEF HeldOK
  <2> QED BY <2>1, <2>2
<1> QED BY <1>1, <1>2, <1>3 DEF TensorsOK

\* A call ends: what no cache refers to is dropped.
LEMMA TensorsLeave ==
  ASSUME TensorsOK, HostTypes, Leave
  PROVE  TensorsOK'
<1> DEFINE D == HeldBlocks \ (BlocksOf(bias) \union BlocksOf(mapped))
<1>1. /\ held' = NoTensor /\ bias' = bias /\ mapped' = mapped /\ events' = events /\ Drop(D)
  BY DEF Leave, caches
<1>2. D \in SUBSET Blocks /\ \A b \in D : block[b].live
  BY DEF TensorsOK, Owned, HeldOK, HeldBlocks
<1>3. D \intersect BlocksOf(bias) = {} /\ D \intersect BlocksOf(mapped) = {}
  OBVIOUS
<1>4. {b \in Blocks : block[b].live} = HeldBlocks \union BlocksOf(bias) \union BlocksOf(mapped)
      /\ BlocksOf(bias) \intersect BlocksOf(mapped) = {} /\ D \subseteq HeldBlocks
      /\ HeldBlocks \subseteq D \union BlocksOf(bias) \union BlocksOf(mapped)
  BY DEF TensorsOK, Owned
<1>5. /\ \A i \in DOMAIN bias.entries : bias.entries[i].block \in BlocksOf(bias)
      /\ \A i \in DOMAIN mapped.entries : mapped.entries[i].block \in BlocksOf(mapped)
      /\ BlocksOf(bias) \subseteq Blocks /\ BlocksOf(mapped) \subseteq Blocks
  BY EntriesLive DEF TensorsOK
<1> HIDE DEF D
<1>6. /\ DeviceReady'
      /\ {b \in Blocks : block'[b].live} = {b \in Blocks : block[b].live} \ D
      /\ \A d \in Blocks \ D : block[d].live => BlockStays(d)
  BY <1>1, <1>2, DropStep DEF TensorsOK, BlockStays
<1>7. MeasuresKept(D)
  BY <1>1, <1>3, <1>5 DEF MeasuresKept
<1>8. MapsKept(D)
  BY <1>1, <1>3, <1>5 DEF MapsKept
<1>9. CachedOK'
  BY <1>6, <1>7, <1>8, CachesStay DEF TensorsOK
<1>10. held'.bias = Nothing /\ held'.mapped = Nothing
       /\ held' \in [bias : Blocks \union {Nothing}, mapped : Blocks \union {Nothing}]
  BY <1>1 DEF NoTensor
<1>11. HeldOK'
  BY <1>10 DEF HeldOK, MeasureHeld, MapHeld
<1>12. Owned'
  <2>1. HeldBlocks' = {}
    BY <1>10 DEF HeldBlocks
  <2>2. Nothing \notin BlocksOf(bias) /\ Nothing \notin BlocksOf(mapped)
    BY <1>5, DeviceAssumption
  <2>3. BlocksOf(bias)' = BlocksOf(bias) /\ BlocksOf(mapped)' = BlocksOf(mapped)
    BY <1>1 DEF BlocksOf
  <2>4. {b \in Blocks : block'[b].live} = BlocksOf(bias) \union BlocksOf(mapped)
    BY <1>3, <1>4, <1>6
  <2> QED BY <1>4, <1>10, <2>1, <2>2, <2>3, <2>4 DEF Owned
<1>13. CachesOK'
  BY <1>1 DEF TensorsOK, CachesOK
<1> QED BY <1>6, <1>9, <1>11, <1>12, <1>13 DEF TensorsOK

\* The sizes that the caches count are natural numbers.
LEMMA EntrySizes ==
  /\ \A e \in BiasEntries : e.size \in Nat
  /\ \A e \in MappedEntries : e.size \in Nat
  /\ MaxBias \in [entries : Nat, bytes : Nat] /\ MaxMapped \in [entries : Nat, bytes : Nat]
BY LimitsAssumption DEF BiasEntries, MappedEntries

\* The key measure is found in its cache.
LEMMA TensorsMeasureHit ==
  ASSUME TensorsOK, HostTypes, PathFacts, HostTypes', MeasureHit
  PROVE  TensorsOK'
<1> DEFINE key == BiasKey(call)
           e == EntryOf(bias, key)
<1>1. /\ pc = "bias" /\ Hit(bias, key) /\ Take(e) /\ held' = [held EXCEPT !.bias = e.block]
      /\ bias' = Touched(bias, key) /\ mapped' = mapped /\ events' = events /\ call' = call
  BY DEF MeasureHit
<1>2. call.stream \in Streams /\ pc' # "idle" /\ held = NoTensor
  BY <1>1, CallOf DEF HostTypes, PathFacts
<1>3. /\ bias' = [entries |-> bias'.entries, bytes |-> bias'.bytes] /\ bias'.entries \in Seq(BiasEntries)
      /\ CacheOK(bias', MaxBias) /\ BlocksOf(bias') = BlocksOf(bias)
      /\ e \in BiasEntries /\ e.key = key
      /\ \E i \in DOMAIN bias.entries : e = bias.entries[i]
      /\ \A k \in DOMAIN bias'.entries : \E j \in DOMAIN bias.entries : bias'.entries[k] = bias.entries[j]
  <2>1. /\ bias = [entries |-> bias.entries, bytes |-> bias.bytes] /\ bias.entries \in Seq(BiasEntries)
        /\ CacheOK(bias, MaxBias)
    BY DEF TensorsOK, CachesOK
  <2> QED BY <1>1, <2>1, EntrySizes, TouchedOK
<1> HIDE DEF e, key
<1>4. PICK i \in DOMAIN bias.entries : e = bias.entries[i]
  BY <1>3
<1>5. CachedReady(queue, mem, block, events, e.block, e.event, e.key[2])
  BY <1>4 DEF TensorsOK, CachedOK, MeasureCached
<1>6. e.key[2] = KeyMeasure(call)
  BY <1>3 DEF key, BiasKey
<1>7. /\ DeviceReady'
      /\ \A d \in Blocks : block'[d].live = block[d].live /\ BlockStays(d)
      /\ HeldReady(queue', mem', block', events', call.stream, e.block, KeyMeasure(call))
  BY <1>1, <1>2, <1>5, <1>6, TakeStep DEF TensorsOK, BlockStays
<1>8. e.block \in Blocks /\ e.block \in BlocksOf(bias) /\ BlocksOf(bias) \subseteq Blocks
      /\ BlocksOf(mapped) \subseteq Blocks
  BY <1>4, EntriesLive DEF TensorsOK
<1>9. held' = [bias |-> e.block, mapped |-> Nothing] /\ held'.bias = e.block /\ held'.mapped = Nothing
      /\ held.bias = Nothing /\ held.mapped = Nothing
      /\ held' \in [bias : Blocks \union {Nothing}, mapped : Blocks \union {Nothing}]
  BY <1>1, <1>2, <1>8 DEF NoTensor
<1>10. HeldOK'
  <2>1. MeasureHeld'
    BY <1>1, <1>2, <1>7, <1>9 DEF MeasureHeld
  <2> QED BY <1>9, <2>1 DEF HeldOK, MapHeld
<1>11. CachedOK'
  <2>1. MeasuresKept({}) /\ MapsKept({})
    BY <1>1, <1>3 DEF MeasuresKept, MapsKept
  <2>2. \A d \in Blocks \ {} : block[d].live => BlockStays(d)
    BY <1>7
  <2> QED BY <2>1, <2>2, CachesStay DEF TensorsOK
<1>12. CachesOK'
  BY <1>1, <1>3 DEF TensorsOK, CachesOK
<1>13. Owned'
  <2>1. {b \in Blocks : block'[b].live} = {b \in Blocks : block[b].live}
    BY <1>7
  <2>2. HeldBlocks = {} /\ HeldBlocks' = {e.block} \ {Nothing}
    BY <1>9 DEF HeldBlocks
  <2>3. BlocksOf(bias)' = BlocksOf(bias) /\ BlocksOf(mapped)' = BlocksOf(mapped)
    BY <1>1, <1>3 DEF BlocksOf
  <2>4. BlocksOf(bias) \intersect BlocksOf(mapped) = {} /\ Nothing \notin BlocksOf(bias)
        /\ {b \in Blocks : block[b].live} = HeldBlocks \union BlocksOf(bias) \union BlocksOf(mapped)
    BY <1>8, DeviceAssumption DEF TensorsOK, Owned
  <2> QED BY <1>8, <1>9, <2>1, <2>2, <2>3, <2>4 DEF Owned
<1> QED BY <1>7, <1>10, <1>11, <1>12, <1>13 DEF TensorsOK

\* The intervals are found in their cache.
LEMMA TensorsMapHit ==
  ASSUME TensorsOK, HostTypes, PathFacts, HostTypes', MapHit
  PROVE  TensorsOK'
<1> DEFINE key == MapKey
           e == EntryOf(mapped, key)
<1>1. /\ pc = "map" /\ Hit(mapped, key) /\ Take(e) /\ held' = [held EXCEPT !.mapped = e.block]
      /\ mapped' = Touched(mapped, key) /\ bias' = bias /\ events' = events /\ call' = call
  BY DEF MapHit
<1>2. call.stream \in Streams /\ pc' # "idle" /\ held.mapped = Nothing
  BY <1>1, CallOf DEF HostTypes, PathFacts
<1>3. /\ mapped' = [entries |-> mapped'.entries, bytes |-> mapped'.bytes] /\ mapped'.entries \in Seq(MappedEntries)
      /\ CacheOK(mapped', MaxMapped) /\ BlocksOf(mapped') = BlocksOf(mapped)
      /\ e \in MappedEntries /\ e.key = key
      /\ \E i \in DOMAIN mapped.entries : e = mapped.entries[i]
      /\ \A k \in DOMAIN mapped'.entries : \E j \in DOMAIN mapped.entries : mapped'.entries[k] = mapped.entries[j]
  <2>1. /\ mapped = [entries |-> mapped.entries, bytes |-> mapped.bytes] /\ mapped.entries \in Seq(MappedEntries)
        /\ CacheOK(mapped, MaxMapped)
    BY DEF TensorsOK, CachesOK
  <2> QED BY <1>1, <2>1, EntrySizes, TouchedOK
<1> HIDE DEF e, key
<1>4. PICK i \in DOMAIN mapped.entries : e = mapped.entries[i]
  BY <1>3
<1>5. CachedReady(queue, mem, block, events, e.block, e.event, Intended(e.key[1]))
  BY <1>4 DEF TensorsOK, CachedOK, MapCached
<1>6. e.key[1] = call.wire /\ \E c \in Mappable : call.wire = c.wire
  <2>1. PICK c \in Mappable : e.key = <<c.wire, c.q, c.kv, c.sink>>
    BY <1>3 DEF MappedEntries
  <2> QED BY <1>3, <2>1 DEF key, MapKey
<1>7. /\ DeviceReady'
      /\ \A d \in Blocks : block'[d].live = block[d].live /\ BlockStays(d)
      /\ HeldReady(queue', mem', block', events', call.stream, e.block, Intended(call.wire))
  BY <1>1, <1>2, <1>5, <1>6, TakeStep DEF TensorsOK, BlockStays
<1>8. e.block \in Blocks /\ e.block \in BlocksOf(mapped) /\ BlocksOf(bias) \subseteq Blocks
      /\ BlocksOf(mapped) \subseteq Blocks
  BY <1>4, EntriesLive DEF TensorsOK
<1>9. held'.bias = held.bias /\ held'.mapped = e.block
      /\ held.bias \in Blocks \union {Nothing}
      /\ held' \in [bias : Blocks \union {Nothing}, mapped : Blocks \union {Nothing}]
  BY <1>1, <1>2, <1>8 DEF TensorsOK, HeldOK
<1>10. HeldOK'
  <2>1. MapHeld'
    BY <1>1, <1>2, <1>6, <1>7, <1>9 DEF MapHeld
  <2>2. held.bias # Nothing => BlockStays(held.bias)
    BY <1>7, <1>9
  <2>3. MeasureHeld'
    BY <1>1, <1>2, <1>9, <2>2, HeldStays DEF TensorsOK
  <2> QED BY <1>9, <2>1, <2>3 DEF HeldOK
<1>11. CachedOK'
  <2>1. MeasuresKept({}) /\ MapsKept({})
    BY <1>1, <1>3 DEF MeasuresKept, MapsKept
  <2>2. \A d \in Blocks \ {} : block[d].live => BlockStays(d)
    BY <1>7
  <2> QED BY <2>1, <2>2, CachesStay DEF TensorsOK
<1>12. CachesOK'
  BY <1>1, <1>3 DEF TensorsOK, CachesOK
<1>13. Owned'
  <2>1. {b \in Blocks : block'[b].live} = {b \in Blocks : block[b].live}
    BY <1>7
  <2>2. HeldBlocks = {held.bias} \ {Nothing} /\ HeldBlocks' = {held.bias, e.block} \ {Nothing}
    BY <1>2, <1>9 DEF HeldBlocks
  <2>3. BlocksOf(bias)' = BlocksOf(bias) /\ BlocksOf(mapped)' = BlocksOf(mapped)
    BY <1>1, <1>3 DEF BlocksOf
  <2>4. BlocksOf(bias) \intersect BlocksOf(mapped) = {} /\ Nothing \notin BlocksOf(mapped)
        /\ held.bias \notin BlocksOf(mapped)
        /\ {b \in Blocks : block[b].live} = HeldBlocks \union BlocksOf(bias) \union BlocksOf(mapped)
    BY <1>8, DeviceAssumption DEF TensorsOK, Owned
  <2> QED BY <1>8, <1>9, <2>1, <2>2, <2>3, <2>4 DEF Owned
<1> QED BY <1>7, <1>10, <1>11, <1>12, <1>13 DEF TensorsOK

-----------------------------------------------------------------------------
(***************************************************************************)
(* Misses.                                                                 *)
(***************************************************************************)

\* A miss in a cache c whose blocks are C, next to a cache whose blocks are O.
LEMMA MissOwned ==
  ASSUME NEW C, NEW O, NEW A, NEW n, NEW h, NEW L, NEW K,
         A \subseteq C \union {n}, C \intersect O = {}, n \notin C \union O \union h,
         L = h \union C \union O, K = (L \ (C \ A)) \union {n}, h \intersect C = {}
  PROVE  K = h \union {n} \union A \union O /\ A \intersect O = {}
OBVIOUS

\* The key measure is made, and what is too much evicted.
LEMMA TensorsMeasureMiss ==
  ASSUME TensorsOK, HostTypes, PathFacts, HostTypes', MeasureMiss
  PROVE  TensorsOK'
<1> DEFINE n == NewBlock
           e == [key |-> BiasKey(call), block |-> n, event |-> events + 1, size |-> call.kv]
           E == BlocksOf(bias) \ BlocksOf(bias')
<1>1. /\ pc = "bias" /\ ~Hit(bias, BiasKey(call)) /\ CanCreate
      /\ bias' = Trimmed(Stored(bias, e), MaxBias) /\ Create(KeyMeasure(call), E)
      /\ held' = [held EXCEPT !.bias = n] /\ mapped' = mapped /\ call' = call
  BY DEF MeasureMiss
<1>2. call \in CallsInProgress /\ call.stream \in Streams /\ pc' # "idle" /\ held = NoTensor
      /\ events' = events + 1 /\ events \in Nat
  BY <1>1, CallOf DEF HostTypes, PathFacts, Create, TensorsOK, CachesOK
<1>3. BiasKey(call) \in {BiasKey(c) : c \in Calls} /\ KeyMeasure(call) \in Contents /\ call.kv \in Nat
  BY <1>2, CallOf, CallTypes DEF Contents, Measures
<1>4. n \in Blocks /\ ~block[n].live
  BY <1>1, NewBlockIs DEF FreeFor
<1>5. /\ BlocksOf(bias) \subseteq Blocks /\ BlocksOf(mapped) \subseteq Blocks
      /\ \A b \in BlocksOf(bias) \union BlocksOf(mapped) : block[b].live
      /\ \A i \in DOMAIN bias.entries : bias.entries[i].block \in BlocksOf(bias)
      /\ \A i \in DOMAIN mapped.entries : mapped.entries[i].block \in BlocksOf(mapped)
  BY EntriesLive DEF TensorsOK, BlocksOf
<1>6. /\ bias' = [entries |-> bias'.entries, bytes |-> bias'.bytes] /\ bias'.entries \in Seq(BiasEntries)
      /\ CacheOK(bias', MaxBias) /\ BlocksOf(bias') \subseteq BlocksOf(bias) \union {n}
      /\ \A k \in DOMAIN bias'.entries :
           bias'.entries[k] = e \/ \E j \in DOMAIN bias.entries : bias'.entries[k] = bias.entries[j]
  <2>1. /\ bias = [entries |-> bias.entries, bytes |-> bias.bytes] /\ bias.entries \in Seq(BiasEntries)
        /\ CacheOK(bias, MaxBias)
    BY DEF TensorsOK, CachesOK
  <2>2. e \in BiasEntries /\ e.key = BiasKey(call) /\ e.block = n
    BY <1>2, <1>3, <1>4 DEF BiasEntries
  <2>3. e.block \notin BlocksOf(bias)
    BY <1>4, <1>5, <2>2
  <2> HIDE DEF e
  <2> QED BY <1>1, <2>1, <2>2, <2>3, EntrySizes, StoredOK
<1>7. e.block = n /\ e.event = events + 1 /\ e.key[2] = KeyMeasure(call)
  BY DEF BiasKey
<1> HIDE DEF e, n
<1>8. E \in SUBSET Blocks /\ \A b \in E : block[b].live
  BY <1>5
<1>9. /\ DeviceReady'
      /\ {b \in Blocks : block'[b].live} = ({b \in Blocks : block[b].live} \ E) \union {n}
      /\ \A d \in Blocks \ E : block[d].live => BlockStays(d)
      /\ CachedReady(queue', mem', block', events', n, events + 1, KeyMeasure(call))
      /\ HeldReady(queue', mem', block', events', call.stream, n, KeyMeasure(call))
  <2> HIDE DEF E
  <2> QED BY <1>1, <1>2, <1>3, <1>8, CreateStep DEF TensorsOK, BlockStays, n
<1>10. held' = [bias |-> n, mapped |-> Nothing] /\ held'.bias = n /\ held'.mapped = Nothing
       /\ held.bias = Nothing /\ held.mapped = Nothing
       /\ held' \in [bias : Blocks \union {Nothing}, mapped : Blocks \union {Nothing}]
  BY <1>1, <1>2, <1>4 DEF NoTensor
<1>11. HeldOK'
  <2>1. MeasureHeld'
    BY <1>1, <1>2, <1>9, <1>10 DEF MeasureHeld
  <2> QED BY <1>10, <2>1 DEF HeldOK, MapHeld
<1>12. CachedOK'
  <2>1. MeasuresKept(E)
    <3> SUFFICES ASSUME NEW k \in DOMAIN bias'.entries
                 PROVE  \/ \E j \in DOMAIN bias.entries :
                             bias'.entries[k] = bias.entries[j] /\ bias.entries[j].block \notin E
                        \/ CachedReady(queue', mem', block', events', bias'.entries[k].block, bias'.entries[k].event,
                                       bias'.entries[k].key[2])
      BY DEF MeasuresKept
    <3>1. CASE bias'.entries[k] = e
      BY <1>7, <1>9, <3>1
    <3>2. ASSUME NEW j \in DOMAIN bias.entries, bias'.entries[k] = bias.entries[j]
          PROVE  bias.entries[j].block \notin E
      <4>1. bias'.entries[k].block \in BlocksOf(bias')
        BY DEF BlocksOf
      <4> QED BY <3>2, <4>1
    <3> QED BY <1>6, <3>1, <3>2
  <2>2. MapsKept(E)
    BY <1>1, <1>5 DEF MapsKept, TensorsOK, Owned
  <2> QED BY <1>9, <2>1, <2>2, CachesStay DEF TensorsOK
<1>13. CachesOK'
  BY <1>1, <1>2, <1>6 DEF TensorsOK, CachesOK
<1>14. Owned'
  <2>1. HeldBlocks = {} /\ HeldBlocks' = {n}
    BY <1>4, <1>10, DeviceAssumption DEF HeldBlocks
  <2>2. /\ BlocksOf(mapped)' = BlocksOf(mapped) /\ BlocksOf(bias)' = BlocksOf(bias')
    BY <1>1 DEF BlocksOf
  <2>3. /\ BlocksOf(bias) \intersect BlocksOf(mapped) = {}
        /\ {b \in Blocks : block[b].live} = {} \union BlocksOf(bias) \union BlocksOf(mapped)
    BY <2>1 DEF TensorsOK, Owned
  <2>4. n \notin BlocksOf(bias) \union BlocksOf(mapped) \union {}
    BY <1>4, <1>5
  <2>5. /\ {b \in Blocks : block'[b].live} = {} \union {n} \union BlocksOf(bias') \union BlocksOf(mapped)
        /\ BlocksOf(bias') \intersect BlocksOf(mapped) = {}
    BY <1>6, <1>9, <2>3, <2>4, MissOwned
  <2>6. Nothing \notin BlocksOf(bias')
    BY <1>4, <1>5, <1>6, DeviceAssumption
  <2> QED BY <1>10, <2>1, <2>2, <2>4, <2>5, <2>6 DEF Owned
<1> QED BY <1>9, <1>11, <1>12, <1>13, <1>14 DEF TensorsOK

\* The map of a call whose plan is usable.
LEMMA MaterializeIs ==
  ASSUME HostTypes, pc = "map", Materialize
  PROVE  /\ \E c \in Mappable : call.wire = c.wire /\ MapKey = <<c.wire, c.q, c.kv, c.sink>>
         /\ Selected(Descriptor) = Intended(call.wire)
         /\ Intended(call.wire) \in Contents
         /\ DescriptorSize \in Nat
<1>1. call \in CallsInProgress /\ Descriptor \notin {None, Unavailable}
  BY DEF HostTypes, Materialize
<1>2. /\ call.wire # None /\ Descriptor = CompileDescriptor(call.wire)
      /\ ValidWire(call.wire, call.q, call.kv, call.sink)
  BY <1>1, DescriptorIs
<1>3. call.wire \in Wires
  BY <1>1, <1>2, CallTypes
<1>4. PICK c \in Calls : c.wire = call.wire /\ c.q = call.q /\ c.kv = call.kv /\ c.sink = call.sink
  BY <1>1, CallOf
<1>5. c \in Mappable
  BY <1>1, <1>2, <1>4 DEF Mappable
<1>6. MapKey = <<c.wire, c.q, c.kv, c.sink>>
  BY <1>4 DEF MapKey
<1>7. Selected(Descriptor) = Intended(call.wire)
  BY <1>1, <1>2, <1>3, CompileSound
<1>8. Intended(call.wire) \in Contents
  BY <1>4, <1>5 DEF Contents, Selections
<1>9. DescriptorSize \in Nat
  <2>1. call.wire.q \in Nat
    BY <1>3 DEF Wires
  <2>2. CeilDiv(call.wire.q) \in Int
    BY <2>1, BlockSizeAssumption DEF CeilDiv
  <2>3. IsFiniteSet(QTiles(call.wire))
    BY <2>2, FS_Interval DEF QTiles
  <2>4. Cardinality(QTiles(call.wire)) \in Nat
    BY <2>3, FS_CardinalityType
  <2> QED BY <2>4 DEF DescriptorSize
<1> QED BY <1>4, <1>5, <1>6, <1>7, <1>8, <1>9

\* The intervals are made: they select the call's neighbour blocks.
LEMMA TensorsMapMiss ==
  ASSUME TensorsOK, HostTypes, PathFacts, HostTypes', MapMiss
  PROVE  TensorsOK'
<1> DEFINE n == NewBlock
           e == [key |-> MapKey, block |-> n, event |-> events + 1, size |-> DescriptorSize]
           E == BlocksOf(mapped) \ BlocksOf(mapped')
<1>1. /\ pc = "map" /\ Materialize /\ ~Hit(mapped, MapKey) /\ CanCreate
      /\ mapped' = Trimmed(Stored(mapped, e), MaxMapped) /\ Create(Selected(Descriptor), E)
      /\ held' = [held EXCEPT !.mapped = n] /\ bias' = bias /\ call' = call
  BY DEF MapMiss
<1>2. call \in CallsInProgress /\ call.stream \in Streams /\ pc' # "idle" /\ held.mapped = Nothing
      /\ events' = events + 1 /\ events \in Nat
  BY <1>1, CallOf DEF HostTypes, PathFacts, Create, TensorsOK, CachesOK
<1>3. PICK c \in Mappable : call.wire = c.wire /\ MapKey = <<c.wire, c.q, c.kv, c.sink>>
  BY <1>1, MaterializeIs
<1>0. /\ Selected(Descriptor) = Intended(call.wire) /\ Intended(call.wire) \in Contents
      /\ DescriptorSize \in Nat
  BY <1>1, MaterializeIs
<1>4. n \in Blocks /\ ~block[n].live
  BY <1>1, NewBlockIs DEF FreeFor
<1>5. /\ BlocksOf(bias) \subseteq Blocks /\ BlocksOf(mapped) \subseteq Blocks
      /\ \A b \in BlocksOf(bias) \union BlocksOf(mapped) : block[b].live
      /\ \A i \in DOMAIN bias.entries : bias.entries[i].block \in BlocksOf(bias)
      /\ \A i \in DOMAIN mapped.entries : mapped.entries[i].block \in BlocksOf(mapped)
  BY EntriesLive DEF TensorsOK, BlocksOf
<1>6. /\ mapped' = [entries |-> mapped'.entries, bytes |-> mapped'.bytes] /\ mapped'.entries \in Seq(MappedEntries)
      /\ CacheOK(mapped', MaxMapped) /\ BlocksOf(mapped') \subseteq BlocksOf(mapped) \union {n}
      /\ \A k \in DOMAIN mapped'.entries :
           mapped'.entries[k] = e \/ \E j \in DOMAIN mapped.entries : mapped'.entries[k] = mapped.entries[j]
  <2>1. /\ mapped = [entries |-> mapped.entries, bytes |-> mapped.bytes] /\ mapped.entries \in Seq(MappedEntries)
        /\ CacheOK(mapped, MaxMapped)
    BY DEF TensorsOK, CachesOK
  <2>2. e \in MappedEntries /\ e.key = MapKey /\ e.block = n
    BY <1>0, <1>2, <1>3, <1>4 DEF MappedEntries
  <2>3. e.block \notin BlocksOf(mapped)
    BY <1>4, <1>5, <2>2
  <2> HIDE DEF e
  <2> QED BY <1>1, <2>1, <2>2, <2>3, EntrySizes, StoredOK
<1>7. e.block = n /\ e.event = events + 1 /\ e.key[1] = call.wire
  BY DEF MapKey
<1> HIDE DEF e, n
<1>8. E \in SUBSET Blocks /\ \A b \in E : block[b].live
  BY <1>5
<1>9. /\ DeviceReady'
      /\ {b \in Blocks : block'[b].live} = ({b \in Blocks : block[b].live} \ E) \union {n}
      /\ \A d \in Blocks \ E : block[d].live => BlockStays(d)
      /\ CachedReady(queue', mem', block', events', n, events + 1, Intended(call.wire))
      /\ HeldReady(queue', mem', block', events', call.stream, n, Intended(call.wire))
  <2> HIDE DEF E
  <2> QED BY <1>0, <1>1, <1>2, <1>8, CreateStep DEF TensorsOK, BlockStays, n
<1>10. /\ held'.bias = held.bias /\ held'.mapped = n /\ held.bias \in Blocks \union {Nothing}
       /\ held' \in [bias : Blocks \union {Nothing}, mapped : Blocks \union {Nothing}]
       /\ held.bias \notin BlocksOf(mapped)
  BY <1>1, <1>4 DEF TensorsOK, HeldOK, Owned
<1>11. HeldOK'
  <2>1. MapHeld'
    BY <1>1, <1>2, <1>3, <1>9, <1>10 DEF MapHeld
  <2>2. held.bias # Nothing => BlockStays(held.bias)
    <3> SUFFICES ASSUME held.bias # Nothing PROVE BlockStays(held.bias)
      OBVIOUS
    <3>1. block[held.bias].live /\ held.bias \in Blocks
      BY DEF TensorsOK, HeldOK, MeasureHeld, HeldReady
    <3> QED BY <1>9, <1>10, <3>1
  <2>3. MeasureHeld'
    BY <1>1, <1>2, <1>10, <2>2, HeldStays DEF TensorsOK
  <2> QED BY <1>10, <2>1, <2>3 DEF HeldOK
<1>12. CachedOK'
  <2>1. MapsKept(E)
    <3> SUFFICES ASSUME NEW k \in DOMAIN mapped'.entries
                 PROVE  \/ \E j \in DOMAIN mapped.entries :
                             mapped'.entries[k] = mapped.entries[j] /\ mapped.entries[j].block \notin E
                        \/ CachedReady(queue', mem', block', events', mapped'.entries[k].block,
                                       mapped'.entries[k].event, Intended(mapped'.entries[k].key[1]))
      BY DEF MapsKept
    <3>1. CASE mapped'.entries[k] = e
      <4>1. /\ mapped'.entries[k].key[1] = call.wire
            /\ mapped'.entries[k].block = n /\ mapped'.entries[k].event = events + 1
        BY <1>7, <3>1
      <4> QED BY <1>9, <4>1
    <3>2. ASSUME NEW j \in DOMAIN mapped.entries, mapped'.entries[k] = mapped.entries[j]
          PROVE  mapped.entries[j].block \notin E
      <4>1. mapped'.entries[k].block \in BlocksOf(mapped')
        BY DEF BlocksOf
      <4> QED BY <3>2, <4>1
    <3> QED BY <1>6, <3>1, <3>2
  <2>2. MeasuresKept(E)
    BY <1>1, <1>5 DEF MeasuresKept, TensorsOK, Owned
  <2> QED BY <1>9, <2>1, <2>2, CachesStay DEF TensorsOK
<1>13. CachesOK'
  BY <1>1, <1>2, <1>6 DEF TensorsOK, CachesOK
<1>14. Owned'
  <2> DEFINE h == {held.bias} \ {Nothing}
  <2>1. HeldBlocks = h /\ HeldBlocks' = h \union {n}
    BY <1>2, <1>4, <1>10, DeviceAssumption DEF HeldBlocks
  <2>2. /\ BlocksOf(mapped)' = BlocksOf(mapped') /\ BlocksOf(bias)' = BlocksOf(bias)
    BY <1>1 DEF BlocksOf
  <2>3. /\ BlocksOf(mapped) \intersect BlocksOf(bias) = {}
        /\ {b \in Blocks : block[b].live} = h \union BlocksOf(mapped) \union BlocksOf(bias)
    BY <2>1 DEF TensorsOK, Owned
  <2>4. h \intersect BlocksOf(mapped) = {} /\ n \notin BlocksOf(mapped) \union BlocksOf(bias) \union h
    BY <1>4, <1>5, <1>10, <2>3
  <2> HIDE DEF h
  <2>5. /\ {b \in Blocks : block'[b].live} = h \union {n} \union BlocksOf(mapped') \union BlocksOf(bias)
        /\ BlocksOf(mapped') \intersect BlocksOf(bias) = {}
    BY <1>6, <1>9, <2>3, <2>4, MissOwned
  <2>6. Nothing \notin BlocksOf(mapped') /\ n # held.bias
    BY <1>4, <1>5, <1>6, <1>10, <2>4, DeviceAssumption DEF h
  <2> QED BY <1>6, <1>10, <2>1, <2>2, <2>4, <2>5, <2>6 DEF Owned
<1> QED BY <1>9, <1>11, <1>12, <1>13, <1>14 DEF TensorsOK

-----------------------------------------------------------------------------
(***************************************************************************)
(* The invariant and the last two theorems.                                *)
(***************************************************************************)

\* A launch leaves every tensor as it was.
LEMMA TensorsLaunch ==
  ASSUME TensorsOK, HostTypes, HostTypes', pc # "idle", Launch, call' = call, held' = held,
         UNCHANGED caches
  PROVE  TensorsOK'
<1>1. events' = events /\ bias' = bias /\ mapped' = mapped
  BY DEF caches
<1>2. /\ DeviceReady' /\ block' = block
      /\ \A d \in Blocks : Stays(queue, queue', mem, mem', block, block', events, events', d)
  BY <1>1, LaunchStep DEF TensorsOK
<1>3. \A b \in Blocks : block'[b].live = block[b].live /\ (block[b].live => BlockStays(b))
  BY <1>2 DEF BlockStays
<1> QED BY <1>1, <1>2, <1>3, TensorsStay

\* TensorsOK is inductive: every action keeps it,
LEMMA TensorsStep ==
  ASSUME HostTypes, PathFacts, HostTypes', TensorsOK, [Next]_vars
  PROVE  TensorsOK'
<1>1. CASE Leave
  BY <1>1, TensorsLeave
<1>2. CASE MeasureHit
  BY <1>2, TensorsMeasureHit
<1>3. CASE MeasureMiss
  BY <1>3, TensorsMeasureMiss
<1>4. CASE MapHit
  BY <1>4, TensorsMapHit
<1>5. CASE MapMiss
  BY <1>5, TensorsMapMiss
<1>6. CASE Check
  BY <1>6, TensorsLaunch DEF Check
<1>7. CASE WeightedDense
  BY <1>7, TensorsLaunch DEF WeightedDense
<1>8. CASE Sparse
  BY <1>8, TensorsLaunch DEF Sparse
<1>9. CASE Device
  <2>1. PICK s \in Streams : Execute(s)
    BY <1>9 DEF Device
  <2>2. call' = call /\ held' = held /\ events' = events /\ bias' = bias /\ mapped' = mapped
    BY <1>9 DEF Device, caches
  <2>3. /\ DeviceOK(queue', mem', fired', block', events)
        /\ \A b \in Blocks : /\ block'[b].live = block[b].live
                             /\ block[b].live => Stays(queue, queue', mem, mem', block, block', events, events, b)
    BY <2>1, ExecuteStep DEF TensorsOK
  <2>4. DeviceReady' /\ \A b \in Blocks : block'[b].live = block[b].live /\ (block[b].live => BlockStays(b))
    BY <2>2, <2>3 DEF DeviceReady, BlockStays
  <2> QED BY <2>2, <2>4, TensorsStay
<1>10. CASE UnitMeasure \/ MapUnneeded \/ SummariesRefused \/ CompleteWeighted \/ Dense
  <2>1. UNCHANGED device /\ events' = events /\ bias' = bias /\ mapped' = mapped /\ held' = held /\ call' = call
    BY <1>10 DEF UnitMeasure, MapUnneeded, SummariesRefused, CompleteWeighted, Dense, caches
  <2> QED BY <2>1, TensorsUntouched
<1>11. CASE EndGroup \/ NextEvaluation \/ UNCHANGED vars
  <2>1. UNCHANGED device /\ events' = events /\ bias' = bias /\ mapped' = mapped /\ held' = held /\ call' = call
    BY <1>11 DEF EndGroup, NextEvaluation, vars, caches
  <2> QED BY <2>1, TensorsUntouched
<1>12. ASSUME NEW owned \in BOOLEAN, MapRefused(owned) PROVE TensorsOK'
  <2>1. UNCHANGED device /\ events' = events /\ bias' = bias /\ mapped' = mapped /\ held' = held /\ call' = call
    BY <1>12 DEF MapRefused
  <2> QED BY <2>1, TensorsUntouched
<1>13. ASSUME NEW passes \in BOOLEAN, Judge(passes) PROVE TensorsOK'
  <2>1. UNCHANGED device /\ events' = events /\ bias' = bias /\ mapped' = mapped /\ held' = held /\ call' = call
    BY <1>13 DEF Judge, caches
  <2> QED BY <2>1, TensorsUntouched
<1>14. ASSUME NEW p \in Pairs, NEW s \in Streams, NEW eligible \in BOOLEAN, Group(p, s, eligible)
       PROVE  TensorsOK'
  <2>1. UNCHANGED device /\ events' = events /\ bias' = bias /\ mapped' = mapped /\ held' = held /\ call' = call
    BY <1>14 DEF Group, caches
  <2> QED BY <2>1, TensorsUntouched
<1>15. ASSUME NEW c \in Calls, NEW s \in Streams, NEW kv \in Pairs \union {None}, Call(c, s, kv)
       PROVE  TensorsOK'
  <2>1. UNCHANGED device /\ events' = events /\ bias' = bias /\ mapped' = mapped /\ held' = held /\ pc = "idle"
    BY <1>15 DEF Call, caches
  <2> QED BY <2>1, TensorsUntouched
<1> QED BY <1>1, <1>2, <1>3, <1>4, <1>5, <1>6, <1>7, <1>8, <1>9, <1>10, <1>11, <1>12, <1>13,
           <1>14, <1>15 DEF Next, Host, Caller

\* and it holds when a request begins.
LEMMA TensorsInit == Init => TensorsOK
<1> SUFFICES ASSUME Init PROVE TensorsOK
  OBVIOUS
<1>1. /\ held = NoTensor /\ held.bias = Nothing /\ held.mapped = Nothing
      /\ bias = EmptyCache /\ mapped = EmptyCache /\ events = 0
      /\ queue = [s \in Streams |-> <<>>] /\ mem = [b \in Blocks |-> Junk] /\ fired = {}
      /\ block = [b \in Blocks |-> [live |-> FALSE, home |-> Nothing, users |-> {}, waiting |-> {}]]
  BY DEF Init, DeviceInit, NoTensor
<1>2. /\ EmptyCache = [entries |-> EmptyCache.entries, bytes |-> EmptyCache.bytes]
      /\ EmptyCache.entries = <<>> /\ EmptyCache.bytes = 0 /\ DOMAIN EmptyCache.entries = {}
      /\ BlocksOf(EmptyCache) = {}
  BY DEF EmptyCache, BlocksOf
<1>3. CachesOK
  <2>1. <<>> \in Seq(BiasEntries) /\ <<>> \in Seq(MappedEntries) /\ Len(<<>>) = 0
    BY EmptySeq
  <2>2. CacheOK(EmptyCache, MaxBias) /\ CacheOK(EmptyCache, MaxMapped)
    BY <1>2, <2>1, SizesEmpty, LimitsAssumption DEF CacheOK
  <2> QED BY <1>1, <1>2, <2>1, <2>2 DEF CachesOK
<1>4. DeviceReady
  <2>1. <<>> \in Seq(Operations) /\ Len(<<>>) = 0
    BY EmptySeq
  <2>2. /\ \A s \in Streams : queue[s] = <<>> /\ Len(queue[s]) = 0
        /\ \A b \in Blocks : /\ ~block[b].live /\ block[b].home = Nothing
                             /\ block[b].users = {} /\ block[b].waiting = {}
    BY <1>1, <2>1
  <2>3. DeviceTypes(queue, mem, fired, block, events)
    BY <1>1, <2>1 DEF DeviceTypes, Contents, Records
  <2>4. BlocksFit(block)
    BY <2>2 DEF BlocksFit
  <2>5. WritesPending(queue, fired, block, events) /\ PassesPending(queue, block)
        /\ KernelsReady(queue, mem, block, events)
    BY <2>2 DEF WritesPending, PassesPending, KernelsReady
  <2> QED BY <2>3, <2>4, <2>5 DEF DeviceReady, DeviceOK
<1>5. HeldOK
  <2>1. held \in [bias : Blocks \union {Nothing}, mapped : Blocks \union {Nothing}]
    BY <1>1 DEF NoTensor
  <2> QED BY <1>1, <2>1 DEF HeldOK, MeasureHeld, MapHeld
<1>6. CachedOK
  BY <1>1, <1>2 DEF CachedOK
<1>7. Owned
  <2>1. HeldBlocks = {} /\ {b \in Blocks : block[b].live} = {}
    BY <1>1 DEF HeldBlocks
  <2> QED BY <1>1, <1>2, <2>1 DEF Owned
<1> QED BY <1>3, <1>4, <1>5, <1>6, <1>7 DEF TensorsOK

\* TensorsOK (_key_bias, device_descriptor and the allocator under them): it is
\* inductive by TensorsStep, so every tensor that a call or a cache refers to
\* holds what it was made for when it is read, in every state.
THEOREM TensorsInvariant == Spec => []TensorsOK
<1>1. HostTypes /\ PathFacts /\ HostTypes' /\ TensorsOK /\ [Next]_vars => TensorsOK'
  BY TensorsStep
<1> QED BY <1>1, TensorsInit, HostInvariant, PTL DEF Spec

\* PartitionedRequest.TypeOK: the host's program counter, every cache's limits
\* and bytes, and no block of device memory is live that nothing refers to.
THEOREM PartitionedTypes == Spec => []TypeOK
<1>1. HostTypes /\ TensorsOK => TypeOK
  <2> SUFFICES ASSUME HostTypes, TensorsOK PROVE TypeOK
    OBVIOUS
  <2>1. (call = None) = (pc = "idle")
    BY DEF HostTypes
  <2>2. HeldBlocks \subseteq Blocks
    BY DEF TensorsOK, HeldOK, HeldBlocks
  <2>3. CacheOK(bias, MaxBias) /\ CacheOK(mapped, MaxMapped)
    BY DEF TensorsOK, CachesOK
  <2>4. {b \in Blocks : block[b].live} = HeldBlocks \union BlocksOf(bias) \union BlocksOf(mapped)
    BY DEF TensorsOK, Owned
  <2> QED BY <2>1, <2>2, <2>3, <2>4 DEF HostTypes, TypeOK
<1> QED BY <1>1, HostInvariant, TensorsInvariant, PTL

\* KernelsReadTheirMetadata (_key_bias, compile_descriptor, device_descriptor):
\* the next kernel of every stream finds the measure and the intervals it was
\* launched for, because no write of its block's home stream stands before it.
THEOREM KernelsReadMetadata == Spec => []KernelsReadTheirMetadata
<1>1. TensorsOK => KernelsReadTheirMetadata
  <2> SUFFICES ASSUME TensorsOK, NEW s \in Streams, queue[s] # <<>>, Head(queue[s]).op = "kernel",
                      NEW r \in Head(queue[s]).reads
               PROVE  mem[r.block] = r.content
    BY DEF KernelsReadTheirMetadata, ReadsIntended
  <2>1. queue \in [Streams -> Seq(Operations)] /\ KernelsReady(queue, mem, block, events)
    BY DEF TensorsOK, DeviceReady, DeviceOK, DeviceTypes
  <2>2. Len(queue[s]) \in Nat \ {0} /\ Head(queue[s]) = queue[s][1] /\ 1 \in 1 .. Len(queue[s])
    <3>1. Len(queue[s]) \in Nat \ {0} /\ Head(queue[s]) = queue[s][1]
      BY <2>1, TailIs
    <3> QED BY <3>1
  <2>3. Readable(queue, mem, block, events, s, 1 - 1, r.block, r.content)
    BY <2>1, <2>2 DEF KernelsReady
  <2>4. 1 .. 1 - 1 = {} /\ \A j \in 1 .. 1 - 1 : FALSE
    OBVIOUS
  <2> QED BY <2>3, <2>4 DEF Readable, Leaves, Settled
<1> QED BY <1>1, TensorsInvariant, PTL
=============================================================================
