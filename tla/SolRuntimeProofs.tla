-------------------------- MODULE SolRuntimeProofs --------------------------
(***************************************************************************)
(* Theorems about SolRuntime, for every number of requests, blocks,        *)
(* providers and forwards, and every set of options and calls.             *)
(***************************************************************************)
EXTENDS SolRuntime, SequenceTheorems, TLAPS

InBlock == {"block"} \cup InCall
Places == {"new", "over"} \cup External \cup InCall

\* What typing needs beside itself: a block call knows its owner, and an
\* attention call in progress its qualification key and its route.
Started(c) == c.domain \in Domains /\ c.label \in Routes
Owned ==
  \A r \in Requests :
    /\ pc[r] \in InBlock => Owner(r) \in Requests
    /\ pc[r] \in InCall => Started(call[r])
Typed == TypeOK /\ Owned

----
(***************************************************************************)
(* The record operators stay inside their types.                           *)
(***************************************************************************)
\* A call that has not begun is well typed.
LEMMA NoCallType == NoCall \in Calls /\ NoBlock \in BlockCalls /\ NoForward \in Forwards
<1>1. NoProvider \in Providers
  BY DEF NoProvider, Providers
<1>2. NoCall \in Calls
  BY <1>1 DEF NoCall, Calls
<1>3. 0 \in Blocks
  BY ConstantsAssumption DEF Blocks
<1>4. NoBlock \in BlockCalls
  BY <1>3 DEF NoBlock, BlockCalls
<1>5. <<>> \in Seq(Blocks \X Routes)
  BY EmptySeq
<1>6. NoForward \in Forwards
  BY <1>1, <1>5 DEF NoForward, Forwards
<1> QED
  BY <1>2, <1>4, <1>6

\* A call that has just begun is well typed, and nothing has touched it.
LEMMA NewCallFields ==
  ASSUME NEW r, NEW in
  PROVE  /\ NewCall(r, in).pre = 0
         /\ NewCall(r, in).provider = Previous(r)
         /\ NewCall(r, in).kind = in.kind
         /\ NewCall(r, in).domain = in.domain
         /\ NewCall(r, in).measure = in.measure
         /\ NewCall(r, in).ran = {}
         /\ NewCall(r, in).receipts = 0
         /\ NewCall(r, in).reduced = FALSE
         /\ NewCall(r, in).gateFailed = FALSE
         /\ NewCall(r, in).done = FALSE
         /\ NewCall(r, in).stage = "answer"
BY DEF NewCall, NoCall

\* A call that has just begun is well typed.
LEMMA NewCallType ==
  ASSUME NEW r \in Requests, NEW in \in CallInputs, Previous(r) \in Providers
  PROVE  NewCall(r, in) \in Calls
<1>1. /\ in.kind \in {"override", "vdn"}
      /\ in.measure \in {"none", "legacy", "generic", "both"}
      /\ in.domain \in Domains
      /\ in.prefix \in BOOLEAN
  BY DEF CallInputs
<1> QED
  BY <1>1, NoCallType DEF NewCall, Calls

\* The fields of a provider and of its leaf.
LEMMA ProviderFields ==
  ASSUME NEW x \in Providers
  PROVE  /\ x.leaf \in Leaves \cup {None}
         /\ x.chain \in BOOLEAN
         /\ LeafOf(x) \in Providers
         /\ LeafOf(x).leaf = x.leaf
         /\ ChainDepth(x) \in 0..1
         /\ ChainDepth(LeafOf(x)) = 0
BY DEF Providers, LeafOf, ChainDepth

\* The fields of a call.
LEMMA CallFields ==
  ASSUME NEW c \in Calls
  PROVE  /\ c.provider \in Providers
         /\ c.pre \in 0..1
         /\ c.label \in Routes \cup {"none"}
         /\ c.domain \in Domains \cup {None}
         /\ c.ran \in SUBSET Consumers
         /\ c.receipts \in Nat
         /\ c.reduced \in BOOLEAN
BY DEF Calls

\* Preprocessing a call once keeps it well typed and leaves only the leaf.
LEMMA PreprocessedType ==
  ASSUME NEW c \in Calls, c.pre = 0
  PROVE  Preprocessed(c) \in Calls
<1>1. LeafOf(c.provider) \in Providers /\ ChainDepth(c.provider) \in 0..1
  BY CallFields, ProviderFields
<1>2. 0 + ChainDepth(c.provider) \in 0..1
  BY <1>1
<1> QED
  BY <1>1, <1>2 DEF Preprocessed, Calls

\* Reducing its K/V, labelling it, and ending it keep a call well typed.
LEMMA ReducedType ==
  ASSUME NEW c \in Calls
  PROVE  Reduced(c) \in Calls
BY DEF Reduced, Calls

\* Labelling a call with a route keeps it well typed.
LEMMA LabelledType ==
  ASSUME NEW c \in Calls, NEW route \in Routes
  PROVE  [c EXCEPT !.label = route] \in Calls
BY DEF Calls

\* One more receipt keeps a call well typed.
LEMMA RecordedType ==
  ASSUME NEW c \in Calls, NEW route \in Routes
  PROVE  Recorded(c, route) \in Calls
<1>1. c.receipts + 1 \in Nat
  BY CallFields
<1> QED
  BY <1>1 DEF Recorded, Calls

\* Ending a call keeps it well typed.
LEMMA FinishedType ==
  ASSUME NEW c \in Calls
  PROVE  Finished(c) \in Calls
BY DEF Finished, Calls

\* So does going back to the caller's tensors.
LEMMA CallerTensorsType ==
  ASSUME NEW r \in Requests, NEW c \in Calls, Previous(r) \in Providers
  PROVE  CallerTensors(r, c) \in Calls
<1>1. 0 \in 0..1 /\ FALSE \in BOOLEAN
  OBVIOUS
<1> QED
  BY <1>1 DEF CallerTensors, Calls

\* A consumer of a call's tensors leaves the call well typed.
LEMMA ConsumeType ==
  ASSUME NEW c \in Calls,
         NEW op \in {"sparse", "provider", "original", "weighted", "native"}
  PROVE  Consume(c, op) \in Calls
<1> DEFINE leaf == IF op = "provider" THEN c.provider.leaf ELSE None
           times == c.pre + (IF op \in {"provider", "original"}
                             THEN ChainDepth(c.provider) ELSE 0)
<1>1. ChainDepth(c.provider) \in 0..1 /\ c.pre \in 0..1
  BY CallFields, ProviderFields
<1>2. leaf \in Leaves \cup {None}
  BY CallFields, ProviderFields
<1>3. times \in 0..2
  BY <1>1
<1>4. c.reduced \in BOOLEAN
  BY CallFields
<1> HIDE DEF leaf, times
<1>5. Ran(op, leaf, times, c.reduced) \in Consumers
  BY <1>2, <1>3, <1>4 DEF Ran, Consumers
<1>6. c.ran \cup {Ran(op, leaf, times, c.reduced)} \in SUBSET Consumers
  BY <1>5, CallFields
<1>7. Consume(c, op) = [c EXCEPT !.ran = c.ran \cup {Ran(op, leaf, times, c.reduced)}]
  BY DEF Consume, leaf, times
<1> QED
  BY <1>6, <1>7 DEF Calls

\* None of these changes what a started call has.
LEMMA StartedFields ==
  ASSUME NEW r \in Requests, NEW c \in Calls, NEW route, NEW op
  PROVE  /\ Recorded(c, route).domain = c.domain
         /\ Recorded(c, route).label = route
         /\ Preprocessed(c).domain = c.domain
         /\ Reduced(c).domain = c.domain
         /\ CallerTensors(r, c).domain = c.domain
         /\ Consume(c, op).domain = c.domain
         /\ Consume(c, op).label = c.label
BY DEF Recorded, Preprocessed, Reduced, CallerTensors, Consume, Calls

\* One more receipt keeps the forwards well typed.
LEMMA RecordType ==
  ASSUME TypeOK, NEW r \in Requests, Owner(r) \in Requests, NEW route \in Routes,
         Record(r, route)
  PROVE  fwd' \in [Requests -> Forwards]
<1>1. blk[r].index \in Blocks
  BY DEF TypeOK, BlockCalls
<1>2. fwd[Owner(r)].routes \in Seq(Blocks \X Routes)
  BY DEF TypeOK, Forwards
<1>3. Append(fwd[Owner(r)].routes, <<blk[r].index, route>>) \in Seq(Blocks \X Routes)
  <2>1. <<blk[r].index, route>> \in Blocks \X Routes
    BY <1>1
  <2> QED
    BY <1>2, <2>1, AppendProperties
<1>4. [fwd[Owner(r)] EXCEPT !.routes = Append(@, <<blk[r].index, route>>)] \in Forwards
  <2>1. fwd[Owner(r)] \in Forwards
    BY DEF TypeOK
  <2> QED
    BY <1>3, <2>1 DEF Forwards
<1>5. fwd' = [fwd EXCEPT ![Owner(r)] =
                 [fwd[Owner(r)] EXCEPT !.routes = Append(@, <<blk[r].index, route>>)]]
  BY DEF Record, WithRecord
<1> QED
  BY <1>4, <1>5 DEF TypeOK

\* A block that enters keeps the forwards well typed.
LEMMA SeenType ==
  ASSUME TypeOK, NEW o \in Requests, NEW i \in Blocks
  PROVE  [fwd EXCEPT ![o].seen = @ \cup {i}] \in [Requests -> Forwards]
<1>1. fwd[o].seen \cup {i} \in SUBSET Blocks
  BY DEF TypeOK, Forwards
<1>2. fwd[o] \in Forwards
  BY DEF TypeOK
<1>3. [fwd[o] EXCEPT !.seen = @ \cup {i}] \in Forwards
  BY <1>1, <1>2 DEF Forwards
<1> QED
  BY <1>3 DEF TypeOK
----
(***************************************************************************)
(* Type correctness.                                                       *)
(***************************************************************************)
\* The initial state is well typed.
LEMMA TypedInit == Init => Typed
<1> SUFFICES ASSUME Init PROVE Typed
  OBVIOUS
<1>1. TypeOK
  BY NoCallType DEF Init, TypeOK, External, InCall
<1>2. Owned
  BY DEF Init, Owned, InBlock, InCall
<1> QED
  BY <1>1, <1>2 DEF Typed

\* What the frame of a sampling or of a forward does.
LEMMA TypedScopes ==
  ASSUME Typed, NEW r \in Requests, Sampling(r) \/ Diffusion(r)
  PROVE  Typed'
<1> USE DEF Typed, TypeOK, Owned, Owner, Started, InBlock, InCall, External, scopeVars, stateVars, At, Goto
<1>1. CASE SampleEnter(r)
  BY <1>1 DEF SampleEnter
<1>2. ASSUME SampleOver(r), err' \in [Requests -> BOOLEAN] PROVE Typed'
  BY <1>2 DEF SampleOver, ResetRequest
<1>3. CASE SampleReturns(r)
  BY <1>2, <1>3 DEF SampleReturns
<1>4. CASE SampleUnwinds(r)
  <2>1. err' \in [Requests -> BOOLEAN]
    BY <1>4 DEF SampleUnwinds
  <2> QED
    BY <1>2, <1>4, <2>1 DEF SampleUnwinds
<1>5. CASE SamplerRecovers(r)
  BY <1>5 DEF SamplerRecovers
<1>6. CASE ForwardRefused(r)
  BY <1>6 DEF ForwardRefused
<1>7. CASE ForwardEnter(r)
  <2> PICK o \in Options[r] :
        fwd' = [fwd EXCEPT ![r] =
                  [evaluation |-> EvaluationAtEntry(r), high |-> o.high,
                   provider |-> o.provider, seen |-> {}, routes |-> <<>>]]
    BY <1>7 DEF ForwardEnter
  <2>0. o \in ForwardOptions
    BY ConstantsAssumption
  <2>1. o.high \in BOOLEAN /\ o.provider \in Providers
    BY <2>0 DEF ForwardOptions
  <2>2. <<>> \in Seq(Blocks \X Routes)
    BY EmptySeq
  <2>3. fwd' \in [Requests -> Forwards]
    BY <2>1, <2>2 DEF Forwards, EvaluationAtEntry
  <2> QED
    BY <1>7, <2>3 DEF ForwardEnter
<1>8. ASSUME LeaveForward(r), UNCHANGED <<request, outer, saved, stateVars, err, forwards, blk, call>>
      PROVE  Typed'
  BY <1>8, NoCallType DEF LeaveForward
<1>9. CASE ForwardReturns(r)
  BY <1>8, <1>9 DEF ForwardReturns
<1>10. CASE ForwardUnwinds(r)
  BY <1>8, <1>10 DEF ForwardUnwinds
<1> QED
  BY <1>1, <1>3, <1>4, <1>5, <1>6, <1>7, <1>9, <1>10 DEF Sampling, Diffusion

\* What a block call does.
LEMMA TypedBlock ==
  ASSUME Typed, NEW r \in Requests, Block(r)
  PROVE  Typed'
<1> USE DEF Typed, TypeOK, Owned, Owner, Started, InBlock, InCall, External, scopeVars, stateVars, At, Goto
<1>1. CASE BlockEnter(r)
  <2>1. forward \in Requests
    BY <1>1 DEF BlockEnter
  <2> PICK i \in Blocks :
        /\ blk' = [blk EXCEPT ![r] = [index |-> i, owner |-> forward,
                                      start |-> Len(fwd[forward].routes)]]
        /\ fwd' = [fwd EXCEPT ![forward].seen = @ \cup {i}]
    BY <1>1 DEF BlockEnter
  <2>2. fwd' \in [Requests -> Forwards]
    BY <2>1, SeenType
  <2>3. fwd[forward].routes \in Seq(Blocks \X Routes)
    BY <2>1 DEF Forwards
  <2>4. Len(fwd[forward].routes) \in Nat
    BY <2>3, LenProperties
  <2>5. blk' \in [Requests -> BlockCalls] /\ blk'[r].owner \in Requests
    BY <2>1, <2>4 DEF BlockCalls
  <2>6. \A q \in Requests : q # r => blk'[q] = blk[q]
    OBVIOUS
  <2>7. evaluations' \in [Requests -> Nat]
    BY <1>1 DEF BlockEnter
  <2>8. TypeOK'
    BY <1>1, <2>2, <2>5, <2>7 DEF BlockEnter
  <2>9. Owned'
    BY <1>1, <2>5, <2>6 DEF BlockEnter
  <2> QED
    BY <2>8, <2>9
<1>2. ASSUME LeaveBlock(r), fwd' \in [Requests -> Forwards],
             UNCHANGED <<scopeVars, stateVars, err, forwards>>
      PROVE  Typed'
  BY <1>2, NoCallType DEF LeaveBlock
<1>3. CASE BlockReturns(r)
  <2>1. "inherited_owner" \in Routes
    BY DEF Routes, DenseRoutes
  <2>2. fwd' \in [Requests -> Forwards]
    BY <1>3, <2>1, RecordType DEF BlockReturns
  <2> QED
    BY <1>2, <1>3, <2>2 DEF BlockReturns
<1>4. CASE BlockUnwinds(r)
  BY <1>2, <1>4 DEF BlockUnwinds
<1>5. CASE BlockRecovers(r)
  BY <1>5 DEF BlockRecovers
<1> QED
  BY <1>1, <1>3, <1>4, <1>5 DEF Block

\* What any step inside an attention call leaves alone, and where it goes.
LEMMA TypedMove ==
  ASSUME Typed, NEW r \in Requests, pc[r] \in InBlock,
         NEW place \in InBlock, pc' = [pc EXCEPT ![r] = place],
         NEW c \in Calls, place \in InCall => Started(c),
         call' = [call EXCEPT ![r] = c], fwd' \in [Requests -> Forwards],
         err' \in [Requests -> BOOLEAN],
         kernel' \in [Requests -> {"unloaded", "ready", "failed"}],
         verified' \in [Requests -> SUBSET Domains],
         disabled' \in [Requests -> SUBSET Leaves],
         UNCHANGED <<scopeVars, evaluations, forwards, blk>>
  PROVE  Typed'
BY DEF Typed, TypeOK, Owned, Owner, Started, InBlock, InCall, External, scopeVars

\* What an attention call does before it computes anything.
LEMMA TypedBegin ==
  ASSUME Typed, NEW r \in Requests, NEW in \in Inputs[r], Begin(r, in)
  PROVE  Typed'
<1>1. TypeOK /\ Owned
  BY DEF Typed
<1>2. /\ pc[r] = "block"
      /\ in \in CallInputs
  BY ConstantsAssumption DEF Begin, CanCall, At, CallRefused, CallIneligible, CallWarm,
     CallWarmReduced, CallWarmWeighted, CallSparse, VdnIneligible, VdnWarm, VdnSparse
<1>3. pc[r] \in InBlock /\ Owner(r) \in Requests
  BY <1>1, <1>2 DEF Owned, InBlock
<1>4. Previous(r) \in Providers
  BY <1>1, <1>3 DEF TypeOK, Forwards, Previous
<1>5. /\ NewCall(r, in) \in Calls
      /\ NewCall(r, in).pre = 0
      /\ NewCall(r, in).domain \in Domains
  <2>1. in.domain \in Domains
    BY <1>2 DEF CallInputs
  <2>2. NewCall(r, in) \in Calls
    BY <1>2, <1>4, NewCallType
  <2>3. NewCall(r, in).pre = 0 /\ NewCall(r, in).domain = in.domain
    BY Zenon, NewCallFields
  <2> QED
    BY <2>1, <2>2, <2>3
<1>6. /\ Preprocessed(NewCall(r, in)) \in Calls
      /\ Preprocessed(NewCall(r, in)).domain \in Domains
  BY <1>5, PreprocessedType, StartedFields
<1>7. /\ {"fallback", "dense_warmup", "vdn_native", "vdn_dense_warmup"} \subseteq Routes
      /\ "vdn_local_sol" \in Routes
      /\ \A c, e : SparseRoute(c, e) \in Routes
  BY DEF Routes, DenseRoutes, SparseRoutes, SparseRoute
<1>8. ASSUME NEW c \in Calls, Started(c), NEW place \in InCall, Start(r, c, place),
             fwd' \in [Requests -> Forwards]
      PROVE  Typed'
  <2>1. call' = [call EXCEPT ![r] = c]
    BY <1>8 DEF Start
  <2>2. place \in InBlock
    BY DEF InBlock
  <2> QED
    BY <1>1, <1>3, <1>8, <2>1, <2>2, TypedMove DEF Start, Goto, stateVars, TypeOK
<1>9. ASSUME NEW route \in Routes, Record(r, route)
      PROVE  fwd' \in [Requests -> Forwards]
  BY <1>1, <1>3, <1>9, RecordType
<1>10. ASSUME UNCHANGED fwd PROVE fwd' \in [Requests -> Forwards]
  BY <1>1, <1>10 DEF TypeOK
<1>11. CASE CallRefused(r, in)
  <2>1. err' \in [Requests -> BOOLEAN]
    BY <1>1, <1>11 DEF CallRefused, Raise, TypeOK
  <2>2. "block" \in InBlock /\ "block" \notin InCall
    BY DEF InBlock, InCall
  <2> QED
    BY <1>1, NoCallType, <1>3, <1>10, <1>11, <2>1, <2>2, TypedMove
    DEF CallRefused, Raise, Goto, stateVars, TypeOK
<1>12. CASE CallIneligible(r, in)
  <2>1. Recorded(NewCall(r, in), "fallback") \in Calls
    BY <1>5, <1>7, RecordedType
  <2>2. Started(Recorded(NewCall(r, in), "fallback"))
    BY <1>5, <1>7, StartedFields DEF Started
  <2> QED
    BY <1>7, <1>8, <1>9, <1>12, <2>1, <2>2 DEF CallIneligible, InCall
<1>13. CASE CallWarm(r, in)
  <2>1. Recorded(NewCall(r, in), "dense_warmup") \in Calls
    BY <1>5, <1>7, RecordedType
  <2>2. Started(Recorded(NewCall(r, in), "dense_warmup"))
    BY <1>5, <1>7, StartedFields DEF Started
  <2> QED
    BY <1>7, <1>8, <1>9, <1>13, <2>1, <2>2 DEF CallWarm, InCall
<1>14. CASE CallWarmReduced(r, in)
  <2>1. Recorded(Reduced(Preprocessed(NewCall(r, in))), "dense_warmup") \in Calls
    BY <1>6, <1>7, ReducedType, RecordedType
  <2>2. Started(Recorded(Reduced(Preprocessed(NewCall(r, in))), "dense_warmup"))
    BY <1>6, <1>7, ReducedType, StartedFields DEF Started
  <2> QED
    BY <1>7, <1>8, <1>9, <1>14, <2>1, <2>2 DEF CallWarmReduced, InCall
<1>15. CASE CallWarmWeighted(r, in)
  <2>1. [Preprocessed(NewCall(r, in)) EXCEPT !.label = "dense_warmup"] \in Calls
    BY <1>6, <1>7, LabelledType
  <2>2. Started([Preprocessed(NewCall(r, in)) EXCEPT !.label = "dense_warmup"])
    BY <1>6, <1>7 DEF Started, Calls
  <2> QED
    BY <1>8, <1>10, <1>15, <2>1, <2>2 DEF CallWarmWeighted, InCall
<1>16. CASE CallSparse(r, in)
  <2> DEFINE c == Reduced(Preprocessed(NewCall(r, in)))
  <2>1. [c EXCEPT !.label = SparseRoute(c, in.external)] \in Calls
    BY <1>6, <1>7, ReducedType, LabelledType
  <2>2. c \in Calls /\ c.domain \in Domains
    BY <1>6, ReducedType, StartedFields
  <2> HIDE DEF c
  <2>3. Started([c EXCEPT !.label = SparseRoute(c, in.external)])
    BY <1>7, <2>2 DEF Started, Calls
  <2> USE DEF c
  <2> QED
    BY <1>8, <1>10, <1>16, <2>1, <2>3 DEF CallSparse, InCall
<1>17. CASE VdnIneligible(r, in)
  <2>1. Recorded(NewCall(r, in), "vdn_native") \in Calls
    BY <1>5, <1>7, RecordedType
  <2>2. Started(Recorded(NewCall(r, in), "vdn_native"))
    BY <1>5, <1>7, StartedFields DEF Started
  <2> QED
    BY <1>7, <1>8, <1>9, <1>17, <2>1, <2>2 DEF VdnIneligible, InCall
<1>18. CASE VdnWarm(r, in)
  <2>1. Recorded(NewCall(r, in), "vdn_dense_warmup") \in Calls
    BY <1>5, <1>7, RecordedType
  <2>2. Started(Recorded(NewCall(r, in), "vdn_dense_warmup"))
    BY <1>5, <1>7, StartedFields DEF Started
  <2> QED
    BY <1>7, <1>8, <1>9, <1>18, <2>1, <2>2 DEF VdnWarm, InCall
<1>19. CASE VdnSparse(r, in)
  <2>1. [NewCall(r, in) EXCEPT !.prefix = FALSE, !.label = "vdn_local_sol"] \in Calls
    BY <1>5, <1>7 DEF Calls
  <2>2. Started([NewCall(r, in) EXCEPT !.prefix = FALSE, !.label = "vdn_local_sol"])
    BY <1>5, <1>7 DEF Started, Calls
  <2> QED
    BY <1>8, <1>10, <1>19, <2>1, <2>2 DEF VdnSparse, InCall
<1> QED
  BY <1>11, <1>12, <1>13, <1>14, <1>15, <1>16, <1>17, <1>18, <1>19 DEF Begin

\* What the steps of a call in progress share: the call is well typed, and a
\* step that keeps it and the forwards well typed keeps everything.
LEMMA TypedInCall ==
  ASSUME Typed, NEW r \in Requests, pc[r] \in InCall
  PROVE  /\ TypeOK
         /\ Owner(r) \in Requests
         /\ call[r] \in Calls
         /\ Started(call[r])
         /\ Previous(r) \in Providers
         /\ pc[r] \in InBlock
<1>1. TypeOK /\ Owned /\ pc[r] \in InBlock
  BY DEF Typed, InBlock
<1>2. Owner(r) \in Requests /\ Started(call[r])
  BY <1>1 DEF Owned
<1> QED
  BY <1>1, <1>2 DEF TypeOK, Forwards, Previous

\* A step of a call in progress that moves only that call and the forwards
\* keeps everything well typed.
LEMMA TypedStep ==
  ASSUME Typed, NEW r \in Requests, pc[r] \in InCall,
         NEW place \in InBlock, Goto(r, place),
         NEW c \in Calls, place \in InCall => Started(c),
         call' = [call EXCEPT ![r] = c],
         \/ UNCHANGED fwd
         \/ \E route \in Routes : Record(r, route),
         UNCHANGED err \/ err' = [err EXCEPT ![r] = TRUE],
         kernel' \in [Requests -> {"unloaded", "ready", "failed"}],
         verified' \in [Requests -> SUBSET Domains],
         disabled' \in [Requests -> SUBSET Leaves],
         UNCHANGED <<scopeVars, evaluations, forwards, blk>>
  PROVE  Typed'
<1>1. TypeOK /\ Owner(r) \in Requests /\ pc[r] \in InBlock
  BY TypedInCall
<1>2. fwd' \in [Requests -> Forwards]
  BY <1>1, RecordType DEF TypeOK
<1>3. err' \in [Requests -> BOOLEAN]
  BY <1>1 DEF TypeOK
<1> QED
  BY <1>1, <1>2, <1>3, TypedMove DEF Goto

\* The steps that use the sparse kernel.
LEMMA TypedSparse ==
  ASSUME Typed, NEW r \in Requests, Sparse(r)
  PROVE  Typed'
<1> DEFINE c == call[r]
<1>1. pc[r] = "sparse"
  BY DEF Sparse, At, KernelLoads, KernelFails, GatePasses, GateFails, SparseRuns
<1>2. /\ pc[r] \in InCall
      /\ {"sparse", "dense", "original", "weighted", "native", "block"} \subseteq InBlock
      /\ "block" \notin InCall
  BY <1>1 DEF InCall, InBlock
<1>3. /\ TypeOK
      /\ Owner(r) \in Requests
      /\ c \in Calls
      /\ Started(c)
      /\ Previous(r) \in Providers
      /\ pc[r] \in InBlock
  BY <1>2, TypedInCall
<1>4. /\ kernel \in [Requests -> {"unloaded", "ready", "failed"}]
      /\ verified \in [Requests -> SUBSET Domains]
      /\ disabled \in [Requests -> SUBSET Leaves]
      /\ pc = [pc EXCEPT ![r] = "sparse"]
      /\ call = [call EXCEPT ![r] = c]
  BY <1>1, <1>3 DEF TypeOK
<1>5. CASE KernelLoads(r)
  <2>1. kernel' \in [Requests -> {"unloaded", "ready", "failed"}]
    BY <1>4, <1>5 DEF KernelLoads
  <2> QED
    BY <1>2, <1>3, <1>4, <1>5, <2>1, TypedStep DEF KernelLoads, Goto
<1>6. CASE KernelFails(r)
  <2>1. kernel' \in [Requests -> {"unloaded", "ready", "failed"}]
    BY <1>4, <1>6 DEF KernelFails
  <2>2. "kernel_unavailable" \in Routes
    BY DEF Routes, DenseRoutes
  <2>3. /\ Recorded(c, "kernel_unavailable") \in Calls
        /\ [c EXCEPT !.label = "kernel_unavailable"] \in Calls
        /\ Recorded(CallerTensors(r, c), "kernel_unavailable") \in Calls
    BY <1>3, <2>2, RecordedType, LabelledType, CallerTensorsType
  <2>3a. /\ Started(Recorded(c, "kernel_unavailable"))
         /\ Started([c EXCEPT !.label = "kernel_unavailable"])
         /\ Started(Recorded(CallerTensors(r, c), "kernel_unavailable"))
    BY <1>3, <2>2, CallerTensorsType, StartedFields DEF Started, Calls
  <2>4. \E d \in Calls, place \in {"native", "weighted", "dense"} :
          /\ Started(d)
          /\ call' = [call EXCEPT ![r] = d]
          /\ Goto(r, place)
          /\ UNCHANGED fwd \/ Record(r, "kernel_unavailable")
    BY <1>6, <2>3, <2>3a DEF KernelFails, AfterUnavailable, UnavailableRoute
  <2>5. verified' = verified /\ disabled' = disabled
    BY <1>6 DEF KernelFails
  <2>6. UNCHANGED <<scopeVars, evaluations, forwards, blk, err>>
    BY <1>6 DEF KernelFails
  <2> QED
    BY <1>2, <1>4, <2>1, <2>2, <2>4, <2>5, <2>6, TypedStep
<1>7. CASE GatePasses(r)
  <2>1. verified' \in [Requests -> SUBSET Domains]
    BY <1>3, <1>4, <1>7 DEF GatePasses, Started
  <2> QED
    BY <1>2, <1>3, <1>4, <1>7, <2>1, TypedStep DEF GatePasses, Goto
<1>8. CASE GateFails(r)
  <2>1. [c EXCEPT !.gateFailed = TRUE] \in Calls
    BY <1>3 DEF Calls
  <2>2. call' = [call EXCEPT ![r] = [c EXCEPT !.gateFailed = TRUE]]
    BY <1>3, <1>8 DEF GateFails, AfterGateFailure, TypeOK
  <2>3. /\ Goto(r, "block")
        /\ err' = [err EXCEPT ![r] = TRUE]
        /\ UNCHANGED fwd
    BY <1>8 DEF GateFails, AfterGateFailure, Raise
  <2>4. UNCHANGED <<scopeVars, stateVars, forwards, blk>>
    BY <1>8 DEF GateFails
  <2> QED
    BY <1>2, <1>4, <2>1, <2>2, <2>3, <2>4, TypedStep DEF stateVars
<1>9. CASE SparseRuns(r)
  <2> DEFINE d == Consume(c, "sparse")
  <2>1. d \in Calls /\ Started(d)
    BY <1>3, ConsumeType, StartedFields DEF Started
  <2>2. CASE d.prefix
    <3>1. /\ [d EXCEPT !.stage = "prefix"] \in Calls
          /\ Started([d EXCEPT !.stage = "prefix"])
      <4> HIDE DEF d
      <4> QED
        BY <2>1 DEF Calls, Started
    <3> QED
      BY <1>2, <1>4, <1>9, <2>2, <3>1, TypedStep DEF SparseRuns, PrefixPlace, stateVars
  <2>3. CASE ~d.prefix
    <3>1. d.label \in Routes /\ Finished(Recorded(d, d.label)) \in Calls
      BY <2>1, RecordedType, FinishedType DEF Started
    <3>2. /\ call' = [call EXCEPT ![r] = Finished(Recorded(d, d.label))]
          /\ Record(r, d.label)
          /\ Goto(r, "block")
      BY <1>9, <2>3 DEF SparseRuns, RecordAndReturn
    <3>3. UNCHANGED <<scopeVars, stateVars, err, forwards, blk>>
      BY <1>9 DEF SparseRuns
    <3> QED
      BY <1>2, <1>4, <3>1, <3>2, <3>3, TypedStep DEF stateVars
  <2> QED
    BY <2>2, <2>3
<1> QED
  BY <1>5, <1>6, <1>7, <1>8, <1>9 DEF Sparse

\* The steps that compute densely.
LEMMA TypedDense ==
  ASSUME Typed, NEW r \in Requests, Dense(r)
  PROVE  Typed'
<1> DEFINE c == call[r]
<1>1. pc[r] \in InCall /\ InCall \subseteq InBlock /\ "block" \in InBlock \ InCall
  BY DEF Dense, At, ProviderReturns, ProviderUnavailable, ProviderSkipped, OriginalReturns,
     WeightedReturns, NativeReturns, ComputeRaises, InCall, InBlock
<1>2. TypeOK /\ c \in Calls /\ Started(c)
  BY <1>1, TypedInCall
<1>3. /\ kernel \in [Requests -> {"unloaded", "ready", "failed"}]
      /\ verified \in [Requests -> SUBSET Domains]
      /\ disabled \in [Requests -> SUBSET Leaves]
      /\ call = [call EXCEPT ![r] = c]
  BY <1>2 DEF TypeOK
<1>4. ASSUME NEW d \in Calls, Started(d), RecordAndReturn(r, d) \/ Answer(r, d),
             UNCHANGED <<scopeVars, stateVars, err, forwards, blk>>
      PROVE  Typed'
  <2>1. /\ d.label \in Routes
        /\ Finished(Recorded(d, d.label)) \in Calls
        /\ Finished(d) \in Calls
    BY <1>4, RecordedType, FinishedType DEF Started
  <2>2. /\ Goto(r, "block")
        /\ \/ Record(r, d.label) /\ call' = [call EXCEPT ![r] = Finished(Recorded(d, d.label))]
           \/ UNCHANGED fwd /\ call' = [call EXCEPT ![r] = Finished(d)]
    BY <1>4 DEF RecordAndReturn, Answer
  <2>3. /\ UNCHANGED <<scopeVars, evaluations, forwards, blk, err>>
        /\ kernel' = kernel /\ verified' = verified /\ disabled' = disabled
    BY <1>4 DEF stateVars
  <2> QED
    BY <1>1, <1>3, <2>1, <2>2, <2>3, TypedStep
<1>5. \A op \in {"provider", "original", "weighted", "native"} :
        Consume(c, op) \in Calls /\ Started(Consume(c, op))
  BY <1>2, ConsumeType, StartedFields DEF Started
<1>6. CASE ProviderReturns(r)
  BY <1>4, <1>5, <1>6 DEF ProviderReturns
<1>7. CASE ProviderUnavailable(r)
  <2>1. c.provider.leaf \in Leaves
    BY <1>2, <1>7, CallFields, ProviderFields DEF ProviderUnavailable, ProviderUsable
  <2>2. disabled' \in [Requests -> SUBSET Leaves]
    BY <1>3, <1>7, <2>1 DEF ProviderUnavailable
  <2>3. /\ call' = [call EXCEPT ![r] = Consume(c, "provider")]
        /\ Goto(r, "original")
        /\ UNCHANGED <<scopeVars, evaluations, forwards, blk, err, fwd>>
        /\ kernel' = kernel /\ verified' = verified
    BY <1>2, <1>7 DEF ProviderUnavailable, TypeOK
  <2>4. "original" \in InBlock
    BY DEF InBlock, InCall
  <2> QED
    BY <1>1, <1>3, <1>5, <2>2, <2>3, <2>4, TypedStep
<1>8. CASE ProviderSkipped(r)
  <2>1. "original" \in InBlock
    BY DEF InBlock, InCall
  <2> QED
    BY <1>1, <1>2, <1>3, <1>8, <2>1, TypedStep DEF ProviderSkipped, stateVars
<1>9. CASE OriginalReturns(r)
  BY <1>4, <1>5, <1>9 DEF OriginalReturns
<1>10. CASE WeightedReturns(r)
  BY <1>4, <1>5, <1>10 DEF WeightedReturns
<1>11. CASE NativeReturns(r)
  BY <1>4, <1>5, <1>11 DEF NativeReturns
<1>12. CASE ComputeRaises(r)
  BY <1>1, <1>3, <1>12, NoCallType, TypedStep DEF ComputeRaises, Raise, stateVars
<1> QED
  BY <1>6, <1>7, <1>8, <1>9, <1>10, <1>11, <1>12 DEF Dense

\* Every step keeps the state well typed.
LEMMA TypedNext == Typed /\ [Next]_vars => Typed'
<1> SUFFICES ASSUME Typed, [Next]_vars PROVE Typed'
  OBVIOUS
<1>1. CASE Next
  <2> PICK r \in Requests :
        \/ Sampling(r) \/ Diffusion(r) \/ Block(r) \/ Sparse(r) \/ Dense(r)
        \/ \E in \in Inputs[r] : Begin(r, in)
    BY <1>1 DEF Next
  <2> QED
    BY TypedScopes, TypedBlock, TypedSparse, TypedDense, TypedBegin
<1>2. CASE UNCHANGED vars
  BY <1>2 DEF Typed, TypeOK, Owned, Owner, Started, vars, scopeVars, stateVars
<1> QED
  BY <1>1, <1>2

\* Every reachable state is well typed (TypeOK), and every block call in
\* progress has an owner, for every number of requests, blocks and providers.
THEOREM TypeCorrect == Spec => []Typed
BY TypedInit, TypedNext, PTL DEF Spec

\* Every variable always holds a value of its kind (TypeOK); in particular no
\* path of BlockPatch._call preprocesses the tensors of a call twice.
THEOREM TypeInvariance == Spec => []TypeOK
<1>1. Typed => TypeOK
  BY DEF Typed
<1> QED
  BY <1>1, TypeCorrect, PTL

----
(***************************************************************************)
(* Scopes.  The invariant exhibits, for every sampling in progress, what   *)
(* _FORWARD held when it was entered (b) and how deeply it is nested (d):  *)
(* the two ContextVars and their tokens are the two halves of a stack.     *)
(***************************************************************************)
Active == {r \in Requests : pc[r] \notin {"new", "over"}}
Open == {r \in Requests : pc[r] \in InForward}
Bases == [Requests -> Requests \cup {None}]
Depths == [Requests -> Nat]

Nested(act, opn, rq, fw, out, sv, b, d) ==
  /\ \A r \in act :
       /\ out[r] = None => b[r] = None /\ d[r] = 0
       /\ out[r] # None => /\ out[r] \in act
                           /\ b[r] = IF out[r] \in opn THEN out[r] ELSE b[out[r]]
                           /\ d[r] = d[out[r]] + 1
       /\ r \in opn => sv[r] = b[r]
       /\ b[r] # None => b[r] \in opn /\ d[b[r]] < d[r]
       /\ rq \in act
       /\ r # rq => d[r] < d[rq]
       /\ \A q \in act : d[q] = d[r] => q = r
  /\ rq # None => rq \in act /\ fw = IF rq \in opn THEN rq ELSE b[rq]
  /\ rq = None => fw = None

Scoped ==
  \E b \in Bases, d \in Depths : Nested(Active, Open, request, forward, outer, saved, b, d)

\* A block call works for the forward of its own request.
OwnBlock == \A r \in Requests : pc[r] \in InBlock => Owner(r) = r
IScopes == Typed /\ Scoped /\ OwnBlock

\* Entering a sampling, leaving it, entering a forward and leaving it keep the
\* nesting.
LEMMA NestedPush ==
  ASSUME NEW act \in SUBSET Requests, NEW opn \in SUBSET act, NEW rq \in Requests \cup {None},
         NEW fw, NEW out \in Bases, NEW sv \in Bases, NEW b \in Bases, NEW d \in Depths,
         Nested(act, opn, rq, fw, out, sv, b, d), NEW r \in Requests \ act
  PROVE  \E bb \in Bases, dd \in Depths :
           Nested(act \cup {r}, opn, r, fw, [out EXCEPT ![r] = rq], sv, bb, dd)
<1> DEFINE n == IF rq = None THEN 0 ELSE d[rq] + 1
           bb == [b EXCEPT ![r] = fw]
           dd == [d EXCEPT ![r] = n]
           oo == [out EXCEPT ![r] = rq]
<1>1. rq # None => rq \in act /\ fw = IF rq \in opn THEN rq ELSE b[rq]
  BY DEF Nested
<1>2. n \in Nat /\ (fw # None => fw \in opn)
  BY <1>1 DEF Nested, Depths
<1>3. bb \in Bases /\ dd \in Depths
  BY <1>2 DEF Bases, Depths
<1>4. /\ bb[r] = fw /\ dd[r] = n /\ oo[r] = rq
      /\ \A q \in act : bb[q] = b[q] /\ dd[q] = d[q] /\ oo[q] = out[q] /\ d[q] \in Nat /\ q # r
  BY DEF Bases, Depths
<1>5. r \notin opn /\ r # None
  BY ConstantsAssumption
<1> HIDE DEF bb, dd, oo
<1>6. \A q \in act : dd[q] < dd[r]
  <2> TAKE q \in act
  <2>1. rq # None /\ (q = rq \/ d[q] < d[rq]) /\ d[rq] \in Nat /\ d[q] \in Nat
    BY ConstantsAssumption, <1>4 DEF Nested
  <2> QED
    BY <1>4, <2>1
<1>7. fw # None => dd[fw] < dd[r]
  BY <1>2, <1>6
<1>8. ASSUME NEW q \in act
      PROVE  /\ oo[q] = None => bb[q] = None /\ dd[q] = 0
             /\ oo[q] # None => /\ oo[q] \in act \cup {r}
                                /\ bb[q] = IF oo[q] \in opn THEN oo[q] ELSE bb[oo[q]]
                                /\ dd[q] = dd[oo[q]] + 1
             /\ q \in opn => sv[q] = bb[q]
             /\ bb[q] # None => bb[q] \in opn /\ dd[bb[q]] < dd[q]
  BY <1>4 DEF Nested
<1>9. /\ oo[r] = None => bb[r] = None /\ dd[r] = 0
      /\ oo[r] # None => /\ oo[r] \in act \cup {r}
                         /\ bb[r] = IF oo[r] \in opn THEN oo[r] ELSE bb[oo[r]]
                         /\ dd[r] = dd[oo[r]] + 1
      /\ bb[r] # None => bb[r] \in opn /\ dd[bb[r]] < dd[r]
  <2>1. rq = None => fw = None /\ n = 0
    BY DEF Nested
  <2>2. rq # None => n = d[rq] + 1
    OBVIOUS
  <2> HIDE DEF n
  <2> QED
    BY <1>1, <1>2, <1>4, <1>7, <2>1, <2>2
<1>10. \A p, q \in act \cup {r} : dd[p] = dd[q] => p = q
  <2> TAKE p, q \in act \cup {r}
  <2>1. CASE p \in act /\ q \in act
    BY <1>4, <2>1 DEF Nested
  <2>2. CASE p = r \/ q = r
    BY <1>3, <1>6, <2>2 DEF Depths
  <2> QED
    BY <2>1, <2>2
<1> SUFFICES Nested(act \cup {r}, opn, r, fw, oo, sv, bb, dd)
  BY <1>3 DEF oo
<1> QED
  BY <1>4, <1>5, <1>6, <1>8, <1>9, <1>10 DEF Nested

\* A sampling that ends is the innermost one, and leaves the others nested.
LEMMA NestedPop ==
  ASSUME NEW act \in SUBSET Requests, NEW opn \in SUBSET act, NEW r \in act \ opn,
         NEW fw, NEW out \in Bases, NEW sv \in Bases, NEW b \in Bases, NEW d \in Depths,
         Nested(act, opn, r, fw, out, sv, b, d)
  PROVE  Nested(act \ {r}, opn, out[r], fw, out, sv, b, d)
<1>1. r # None /\ fw = b[r]
  BY ConstantsAssumption DEF Nested
<1>2. \A q \in act : d[q] \in Nat
  BY DEF Depths
<1>3. \A q \in act \ {r} : out[q] # r
  BY <1>1, <1>2 DEF Nested
<1>4. \A q \in act \ {r} : /\ out[r] \in act \ {r}
                           /\ q # out[r] => d[q] < d[out[r]]
  <2> TAKE q \in act \ {r}
  <2>1. d[q] < d[r]
    BY DEF Nested
  <2>2. out[r] # None
    BY <1>2, <2>1 DEF Nested
  <2>3. out[r] \in act /\ d[r] = d[out[r]] + 1
    BY <2>2 DEF Nested
  <2>4. d[q] \in Nat /\ d[out[r]] \in Nat
    BY <1>2, <2>3
  <2>5. d[q] = d[out[r]] => q = out[r]
    BY <2>3 DEF Nested
  <2> QED
    BY <2>1, <2>3, <2>4, <2>5
<1>5. out[r] # None => out[r] \in act \ {r} /\ fw = IF out[r] \in opn THEN out[r] ELSE b[out[r]]
  BY <1>1, <1>2 DEF Nested
<1>6. out[r] = None => fw = None
  BY <1>1 DEF Nested
<1>7. ASSUME NEW q \in act \ {r}
      PROVE  /\ out[q] = None => b[q] = None /\ d[q] = 0
             /\ out[q] # None => /\ out[q] \in act \ {r}
                                 /\ b[q] = IF out[q] \in opn THEN out[q] ELSE b[out[q]]
                                 /\ d[q] = d[out[q]] + 1
             /\ q \in opn => sv[q] = b[q]
             /\ b[q] # None => b[q] \in opn /\ d[b[q]] < d[q]
             /\ \A p \in act \ {r} : d[p] = d[q] => p = q
  BY <1>3 DEF Nested
<1> QED
  BY <1>4, <1>5, <1>6, <1>7 DEF Nested

\* A forward that is entered becomes the innermost open one.
LEMMA NestedOpen ==
  ASSUME NEW act \in SUBSET Requests, NEW opn \in SUBSET act, NEW r \in act \ opn,
         NEW fw, NEW out \in Bases, NEW sv \in Bases, NEW b \in Bases, NEW d \in Depths,
         Nested(act, opn, r, fw, out, sv, b, d)
  PROVE  Nested(act, opn \cup {r}, r, r, out, [sv EXCEPT ![r] = fw], b, d)
<1> DEFINE ss == [sv EXCEPT ![r] = fw]
<1>1. r # None /\ fw = b[r] /\ (\A q \in act : d[q] \in Nat)
  BY ConstantsAssumption DEF Nested, Depths
<1>2. ss[r] = fw /\ \A q \in act : q # r => ss[q] = sv[q]
  BY DEF Bases
<1>3. \A q \in act : out[q] # r
  BY <1>1 DEF Nested
<1> HIDE DEF ss
<1> SUFFICES Nested(act, opn \cup {r}, r, r, out, ss, b, d)
  BY DEF ss
<1> QED
  BY <1>1, <1>2, <1>3 DEF Nested

\* A forward that ends gives back what _FORWARD held at its entry.
LEMMA NestedClose ==
  ASSUME NEW act \in SUBSET Requests, NEW opn \in SUBSET act, NEW r \in opn,
         NEW out \in Bases, NEW sv \in Bases, NEW b \in Bases, NEW d \in Depths,
         Nested(act, opn, r, r, out, sv, b, d)
  PROVE  Nested(act, opn \ {r}, r, sv[r], out, sv, b, d)
<1>1. r # None /\ (\A q \in act : d[q] \in Nat)
  BY ConstantsAssumption DEF Depths
<1>2. \A q \in act : out[q] # r /\ b[q] # r
  BY <1>1 DEF Nested
<1>3. sv[r] = b[r]
  BY DEF Nested
<1> QED
  BY <1>1, <1>2, <1>3 DEF Nested

\* Nothing is nested at first.
LEMMA ScopesInit == Init => Scoped /\ OwnBlock
<1> SUFFICES ASSUME Init PROVE Scoped /\ OwnBlock
  OBVIOUS
<1> DEFINE b == [r \in Requests |-> None]
           d == [r \in Requests |-> 0]
<1>1. b \in Bases /\ d \in Depths
  BY DEF Bases, Depths
<1>2. Active = {}
  BY DEF Init, Active
<1>3. Nested(Active, Open, request, forward, outer, saved, b, d)
  BY <1>2 DEF Nested, Init
<1>4. OwnBlock
  BY DEF Init, OwnBlock, InBlock, InCall
<1> QED
  BY <1>1, <1>3, <1>4 DEF Scoped

\* The places of a request that is inside a forward.
LEMMA OpenPlaces ==
  /\ InForward = InBlock \cup {"forward"}
  /\ {"new", "over", "sampling"} \cap InForward = {}
  /\ "forward" \notin InBlock
  /\ "block" \in InBlock
BY DEF InForward, InBlock, InCall

\* What scopes are made of, in any state the typing and nesting hold in.
LEMMA ScopeTypes ==
  ASSUME Typed
  PROVE  /\ request \in Requests \cup {None}
         /\ forward \in Requests \cup {None}
         /\ outer \in Bases
         /\ saved \in Bases
         /\ pc \in [Requests -> Places]
         /\ Active \in SUBSET Requests
         /\ Open \in SUBSET Active
BY OpenPlaces DEF Typed, TypeOK, Bases, Places, Active, Open

\* How a step that goes from one place to another moves the two sets.
LEMMA ScopeMoves ==
  ASSUME Typed, NEW r \in Requests, NEW place \in Places, Goto(r, place)
  PROVE  /\ Active' = IF place \in {"new", "over"} THEN Active \ {r} ELSE Active \cup {r}
         /\ Open' = IF place \in InForward THEN Open \cup {r} ELSE Open \ {r}
<1>1. \A q \in Requests : pc'[q] = IF q = r THEN place ELSE pc[q]
  BY ScopeTypes DEF Goto
<1> QED
  BY <1>1 DEF Active, Open

\* Steps inside a forward leave the scopes alone.
LEMMA ScopesStay ==
  ASSUME Typed, Scoped, NEW r \in Requests, UNCHANGED scopeVars,
         \/ UNCHANGED pc
         \/ \E place \in InForward : pc[r] \in InForward /\ Goto(r, place)
  PROVE  Scoped'
<1>1. Active' = Active /\ Open' = Open
  <2>1. CASE UNCHANGED pc
    BY <2>1 DEF Active, Open
  <2>2. CASE \E place \in InForward : pc[r] \in InForward /\ Goto(r, place)
    <3> PICK place \in InForward : pc[r] \in InForward /\ Goto(r, place)
      BY <2>2
    <3>1. place \in Places /\ place \notin {"new", "over"} /\ r \in Active /\ r \in Open
      BY OpenPlaces DEF Places, InForward, External, Active, Open
    <3> QED
      BY <3>1, ScopeMoves
  <2> QED
    BY <2>1, <2>2
<1>2. PICK b \in Bases, d \in Depths : Nested(Active, Open, request, forward, outer, saved, b, d)
  BY DEF Scoped
<1>3. Nested(Active, Open, request, forward, outer, saved, b, d)'
  BY <1>1, <1>2 DEF scopeVars, Nested
<1> QED
  BY <1>3 DEF Scoped, Bases, Depths

\* The current request is in progress, and is the innermost one.
LEMMA CurrentScope ==
  ASSUME IScopes, NEW r \in Requests, request = r
  PROVE  /\ r \in Active
         /\ r \in Open => forward = r
         /\ forward # None => forward \in Open
<1>1. PICK b \in Bases, d \in Depths : Nested(Active, Open, request, forward, outer, saved, b, d)
  BY DEF IScopes, Scoped
<1>2. r # None
  BY ConstantsAssumption
<1> QED
  BY <1>1, <1>2 DEF Nested

\* The steps of the sampling and diffusion wrappers keep the nesting.
LEMMA ScopesSampling ==
  ASSUME IScopes, NEW r \in Requests, Sampling(r) \/ Diffusion(r)
  PROVE  Scoped' /\ OwnBlock'
<1> USE DEF IScopes
<1>1. PICK b \in Bases, d \in Depths : Nested(Active, Open, request, forward, outer, saved, b, d)
  BY DEF Scoped
<1>2. /\ UNCHANGED blk
      /\ \/ UNCHANGED pc
         \/ \E place \in {"sampling", "over", "forward"} : Goto(r, place)
  BY DEF Sampling, Diffusion, SampleEnter, SampleReturns, SampleUnwinds, SamplerRecovers, SampleOver,
     ForwardRefused, ForwardEnter, ForwardReturns, ForwardUnwinds, LeaveForward
<1>3. OwnBlock'
  BY <1>2, ScopeTypes, OpenPlaces DEF OwnBlock, Owner, Goto
<1>4. CASE SampleEnter(r)
  <2>1. r \in Requests \ Active /\ r \notin Open
    BY <1>4, OpenPlaces DEF SampleEnter, Active, Open
  <2>2. Active' = Active \cup {r} /\ Open' = Open
    <3>1. /\ "sampling" \in Places /\ "sampling" \notin InForward
          /\ "sampling" \notin {"new", "over"}
          /\ Goto(r, "sampling")
      BY <1>4, OpenPlaces DEF SampleEnter, Places, External
    <3> QED
      BY <2>1, <3>1, ScopeMoves
  <2>3. /\ request' = r /\ forward' = forward /\ saved' = saved
        /\ outer' = [outer EXCEPT ![r] = request]
    BY <1>4 DEF SampleEnter
  <2>4. PICK bb \in Bases, dd \in Depths :
          Nested(Active \cup {r}, Open, r, forward, [outer EXCEPT ![r] = request], saved, bb, dd)
    BY <1>1, <2>1, ScopeTypes, NestedPush
  <2>5. Nested(Active, Open, request, forward, outer, saved, bb, dd)'
    BY <2>2, <2>3, <2>4 DEF Nested
  <2> QED
    BY <1>3, <2>5 DEF Scoped, Bases, Depths
<1>5. ASSUME request = r, pc[r] = "sampling", SampleOver(r)
      PROVE  Scoped' /\ OwnBlock'
  <2>1. r \in Active \ Open
    BY <1>5, OpenPlaces DEF Active, Open
  <2>2. Active' = Active \ {r} /\ Open' = Open
    <3>1. /\ "over" \in Places /\ "over" \notin InForward /\ "over" \in {"new", "over"}
          /\ Goto(r, "over")
      BY <1>5, OpenPlaces DEF SampleOver, Places
    <3> QED
      BY <2>1, <3>1, ScopeMoves
  <2>3. request' = outer[r] /\ forward' = forward /\ saved' = saved /\ outer' = outer
    BY <1>5 DEF SampleOver, ResetRequest
  <2>4. Nested(Active \ {r}, Open, outer[r], forward, outer, saved, b, d)
    BY <1>1, <1>5, <2>1, ScopeTypes, NestedPop
  <2>5. Nested(Active, Open, request, forward, outer, saved, b, d)'
    BY <2>2, <2>3, <2>4 DEF Nested
  <2> QED
    BY <1>3, <2>5 DEF Scoped, Bases, Depths
<1>6. CASE SampleReturns(r)
  BY <1>5, <1>6 DEF SampleReturns, At
<1>7. CASE SampleUnwinds(r)
  BY <1>5, <1>7 DEF SampleUnwinds
<1>8. CASE SamplerRecovers(r) \/ ForwardRefused(r)
  <2>1. UNCHANGED <<scopeVars, pc>>
    BY <1>8 DEF SamplerRecovers, ForwardRefused
  <2> QED
    BY <1>3, <2>1, ScopesStay
<1>9. CASE ForwardEnter(r)
  <2>1. request = r /\ r \in Active \ Open
    BY <1>9, OpenPlaces DEF ForwardEnter, At, Active, Open
  <2>2. Active' = Active /\ Open' = Open \cup {r}
    <3>1. /\ "forward" \in Places
          /\ "forward" \in InForward
          /\ "forward" \notin {"new", "over"}
          /\ Goto(r, "forward")
      BY <1>9, OpenPlaces DEF ForwardEnter, Places, External
    <3> QED
      BY <2>1, <3>1, ScopeMoves
  <2>3. request' = r /\ forward' = r /\ outer' = outer /\ saved' = [saved EXCEPT ![r] = forward]
    BY <1>9, <2>1 DEF ForwardEnter
  <2>4. Nested(Active, Open \cup {r}, r, r, outer, [saved EXCEPT ![r] = forward], b, d)
    BY <1>1, <2>1, ScopeTypes, NestedOpen
  <2>5. Nested(Active, Open, request, forward, outer, saved, b, d)'
    BY <2>2, <2>3, <2>4 DEF Nested
  <2> QED
    BY <1>3, <2>5 DEF Scoped, Bases, Depths
<1>10. CASE ForwardReturns(r) \/ ForwardUnwinds(r)
  <2>1. request = r /\ r \in Open /\ r \in Active
    BY <1>10, OpenPlaces DEF ForwardReturns, ForwardUnwinds, At, Active, Open
  <2>2. Goto(r, "sampling") /\ forward' = saved[r] /\ UNCHANGED <<request, outer, saved>>
    BY <1>10 DEF ForwardReturns, ForwardUnwinds, LeaveForward
  <2>3. Active' = Active /\ Open' = Open \ {r}
    BY <2>1, <2>2, ScopeMoves, OpenPlaces DEF Places, External
  <2>4. forward = r
    BY <2>1, CurrentScope
  <2>5. Nested(Active, Open \ {r}, r, saved[r], outer, saved, b, d)
    BY <1>1, <2>1, <2>4, ScopeTypes, NestedClose
  <2>6. Nested(Active, Open, request, forward, outer, saved, b, d)'
    BY <2>1, <2>2, <2>3, <2>5 DEF Nested
  <2> QED
    BY <1>3, <2>6 DEF Scoped, Bases, Depths
<1> QED
  BY <1>4, <1>6, <1>7, <1>8, <1>9, <1>10 DEF Sampling, Diffusion

\* A step inside a call stays inside its block.
LEMMA MovesInCall ==
  ASSUME NEW r \in Requests,
         \/ Sparse(r) \/ Dense(r)
         \/ \E in \in Inputs[r] : Begin(r, in)
  PROVE  /\ request = r /\ pc[r] \in InBlock
         /\ UNCHANGED <<scopeVars, blk, evaluations>>
         /\ \/ UNCHANGED pc
            \/ \E place \in InBlock : Goto(r, place)
<1> USE DEF At, InBlock, InCall
<1>1. CASE Sparse(r)
  BY <1>1 DEF Sparse, KernelLoads, KernelFails, GatePasses, GateFails, SparseRuns, AfterUnavailable,
     AfterGateFailure, RecordAndReturn, PrefixPlace, Raise, stateVars
<1>2. CASE Dense(r)
  BY <1>2 DEF Dense, ProviderReturns, ProviderUnavailable, ProviderSkipped, OriginalReturns,
     WeightedReturns, NativeReturns, ComputeRaises, Answer, RecordAndReturn, Raise, stateVars
<1>3. CASE \E in \in Inputs[r] : Begin(r, in)
  BY <1>3 DEF Begin, CallRefused, CallIneligible, CallWarm, CallWarmReduced, CallWarmWeighted,
     CallSparse, VdnIneligible, VdnWarm, VdnSparse, CanCall, Start, Raise, stateVars
<1> QED
  BY <1>1, <1>2, <1>3

\* The steps of a block, and of the calls in it, keep the nesting.
LEMMA ScopesBlock ==
  ASSUME IScopes, NEW r \in Requests,
         \/ Block(r) \/ Sparse(r) \/ Dense(r)
         \/ \E in \in Inputs[r] : Begin(r, in)
  PROVE  Scoped' /\ OwnBlock'
<1> USE DEF IScopes
<1>1. CASE \/ Sparse(r) \/ Dense(r)
           \/ \E in \in Inputs[r] : Begin(r, in)
  <2>1. /\ pc[r] \in InBlock
        /\ UNCHANGED <<scopeVars, blk>>
        /\ \/ UNCHANGED pc
           \/ \E place \in InBlock : Goto(r, place)
    BY <1>1, MovesInCall
  <2>2. Scoped'
    BY <2>1, ScopesStay, OpenPlaces
  <2>3. OwnBlock'
    BY <2>1, ScopeTypes DEF OwnBlock, Owner, Goto
  <2> QED
    BY <2>2, <2>3
<1>2. CASE BlockEnter(r)
  <2>1. request = r /\ pc[r] = "forward" /\ Goto(r, "block") /\ UNCHANGED scopeVars
    BY <1>2 DEF BlockEnter, At
  <2>2. Scoped'
    BY <2>1, ScopesStay, OpenPlaces
  <2>3. forward = r
    BY <2>1, CurrentScope, OpenPlaces DEF Open
  <2>4. \A q \in Requests : blk'[q].owner = IF q = r THEN r ELSE blk[q].owner
    BY <1>2, <2>3 DEF BlockEnter, Typed, TypeOK
  <2>5. OwnBlock'
    BY <2>1, <2>4, ScopeTypes DEF OwnBlock, Owner, Goto
  <2> QED
    BY <2>2, <2>5
<1>3. CASE BlockReturns(r) \/ BlockUnwinds(r)
  <2>1. pc[r] = "block" /\ LeaveBlock(r) /\ UNCHANGED scopeVars
    BY <1>3 DEF BlockReturns, BlockUnwinds, At
  <2>2. Goto(r, "forward") /\ blk' = [blk EXCEPT ![r] = NoBlock]
    BY <2>1 DEF LeaveBlock
  <2>3. Scoped'
    BY <2>1, <2>2, ScopesStay, OpenPlaces
  <2>4. OwnBlock'
    BY <2>2, ScopeTypes, OpenPlaces DEF OwnBlock, Owner, Goto, Typed, TypeOK
  <2> QED
    BY <2>3, <2>4
<1>4. CASE BlockRecovers(r)
  <2>1. UNCHANGED <<scopeVars, pc, blk>>
    BY <1>4 DEF BlockRecovers
  <2> QED
    BY <2>1, ScopesStay DEF OwnBlock, Owner
<1> QED
  BY <1>1, <1>2, <1>3, <1>4 DEF Block

\* Every step keeps the nesting.
LEMMA ScopesNext == IScopes /\ [Next]_vars => IScopes'
<1> SUFFICES ASSUME IScopes, [Next]_vars PROVE IScopes'
  OBVIOUS
<1>1. Typed'
  BY TypedNext DEF IScopes
<1>2. CASE Next
  <2> PICK r \in Requests :
        \/ Sampling(r) \/ Diffusion(r) \/ Block(r) \/ Sparse(r) \/ Dense(r)
        \/ \E in \in Inputs[r] : Begin(r, in)
    BY <1>2 DEF Next
  <2> QED
    BY <1>1, ScopesSampling, ScopesBlock DEF IScopes
<1>3. CASE UNCHANGED vars
  <2>1. UNCHANGED <<request, forward, outer, saved, pc, blk>>
    BY <1>3 DEF vars, scopeVars
  <2>2. Active' = Active /\ Open' = Open /\ OwnBlock'
    BY <2>1 DEF Active, Open, OwnBlock, Owner, IScopes
  <2>3. PICK b \in Bases, d \in Depths : Nested(Active, Open, request, forward, outer, saved, b, d)
    BY DEF Scoped, IScopes
  <2>4. Nested(Active, Open, request, forward, outer, saved, b, d)'
    BY <2>1, <2>2, <2>3 DEF Nested
  <2> QED
    BY <1>1, <2>2, <2>4 DEF Scoped, Bases, Depths, IScopes
<1> QED
  BY <1>2, <1>3

\* What SamplingWrapper and DiffusionWrapper saved in their tokens is always
\* the enclosing request and forward, at every nesting depth.
THEOREM ScopeCorrect == Spec => []IScopes
<1>1. Init => IScopes
  BY TypedInit, ScopesInit DEF IScopes
<1> QED
  BY <1>1, ScopesNext, PTL DEF Spec

\* The inductive scope invariant implies ScopesNest.
LEMMA ScopesImply == IScopes => ScopesNest
<1> SUFFICES ASSUME IScopes PROVE ScopesNest
  OBVIOUS
<1>1. PICK b \in Bases, d \in Depths : Nested(Active, Open, request, forward, outer, saved, b, d)
  BY DEF IScopes, Scoped
<1>2. Typed
  BY DEF IScopes
<1>3. request = None => forward = None
  BY <1>1 DEF Nested
<1>4. forward # None => pc[forward] \in InForward
  BY <1>2, <1>3, CurrentScope, ScopeTypes DEF Open
<1>5. ASSUME NEW r \in Requests
      PROVE  /\ pc[r] \in InForward /\ request = r => forward = r
             /\ pc[r] \in {"block"} \cup InCall => Owner(r) = r
             /\ request = r => pc[r] \in {"sampling"} \cup InForward
  <2>1. pc[r] \in Places
    BY <1>2, ScopeTypes
  <2> QED
    BY <2>1, CurrentScope DEF IScopes, OwnBlock, InBlock, Open, Active, Places, External, InForward, InCall
<1> QED
  BY <1>3, <1>4, <1>5 DEF ScopesNest

\* The two ContextVars are a stack (ScopesNest): however samplings nest and
\* wherever exceptions are raised, caught or let through, a forward is visible
\* exactly while its own code or a sampling nested in it runs.
THEOREM ScopesNestInvariance == Spec => []ScopesNest
BY ScopeCorrect, ScopesImply, PTL

----
(***************************************************************************)
(* Warmup accounting and request-local state.                              *)
(***************************************************************************)
\* What one step does to the state of a request and to its forward.
LEMMA RequestStep ==
  ASSUME IScopes, NEW r \in Requests,
         \/ Sampling(r) \/ Diffusion(r) \/ Block(r) \/ Sparse(r) \/ Dense(r)
         \/ \E in \in Inputs[r] : Begin(r, in)
  PROVE  \A q \in Requests : q # request => RequestState(q)' = RequestState(q)
<1> USE DEF IScopes, RequestState
<1>1. /\ evaluations \in [Requests -> Nat]
      /\ DOMAIN kernel = Requests /\ DOMAIN verified = Requests /\ DOMAIN disabled = Requests
  BY DEF Typed, TypeOK
<1>2. pc[r] \in InBlock => Owner(r) = r
  BY DEF OwnBlock
<1>3. CASE Sampling(r)
  <2>1. CASE SampleReturns(r) \/ SampleUnwinds(r)
    <3>1. request = r /\ SampleOver(r)
      BY <2>1 DEF SampleReturns, SampleUnwinds, At
    <3> QED
      BY <3>1 DEF SampleOver
  <2>2. CASE SampleEnter(r) \/ SamplerRecovers(r)
    BY <2>2 DEF SampleEnter, SamplerRecovers, stateVars
  <2> QED
    BY <1>3, <2>1, <2>2 DEF Sampling
<1>4. CASE Diffusion(r)
  BY <1>4 DEF Diffusion, ForwardRefused, ForwardEnter, ForwardReturns, ForwardUnwinds, stateVars
<1>5. CASE Block(r)
  <2>1. CASE BlockEnter(r)
    <3>1. request = r /\ forward = r
      BY <2>1, CurrentScope, OpenPlaces DEF BlockEnter, At, Open
    <3>2. \A q \in Requests : q # r => evaluations'[q] = evaluations[q]
      BY <1>1, <2>1, <3>1 DEF BlockEnter
    <3> QED
      BY <2>1, <3>1, <3>2 DEF BlockEnter
  <2>2. CASE BlockReturns(r) \/ BlockUnwinds(r) \/ BlockRecovers(r)
    BY <2>2 DEF BlockReturns, BlockUnwinds, BlockRecovers, stateVars
  <2> QED
    BY <1>5, <2>1, <2>2 DEF Block
<1>6. CASE Sparse(r)
  <2>1. request = r /\ Owner(r) = r
    BY <1>2, <1>6, MovesInCall
  <2> QED
    BY <1>1, <1>6, <2>1 DEF Sparse, KernelLoads, KernelFails, GatePasses, GateFails, SparseRuns, stateVars
<1>7. CASE Dense(r)
  <2>1. request = r /\ Owner(r) = r
    BY <1>2, <1>7, MovesInCall
  <2> QED
    BY <1>1, <1>7, <2>1 DEF Dense, ProviderReturns, ProviderUnavailable, ProviderSkipped,
       OriginalReturns, WeightedReturns, NativeReturns, ComputeRaises, stateVars
<1>8. CASE \E in \in Inputs[r] : Begin(r, in)
  BY <1>8 DEF Begin, CallRefused, CallIneligible, CallWarm, CallWarmReduced, CallWarmWeighted,
     CallSparse, VdnIneligible, VdnWarm, VdnSparse, Start, stateVars
<1> QED
  BY <1>3, <1>4, <1>5, <1>6, <1>7, <1>8

\* Code running under one sampling request never changes the state of another
\* (RequestIsolation), for every number of requests and every nesting.
THEOREM RequestIsolationTheorem == Spec => RequestIsolation
<1> DEFINE Isolated == \A r \in Requests : r # request => RequestState(r)' = RequestState(r)
<1>1. IScopes /\ [Next]_vars => [Isolated]_vars
  BY RequestStep DEF Next
<1> QED
  BY <1>1, ScopeCorrect, PTL DEF Spec, RequestIsolation

\* A step inside a block touches a forward only by giving it receipts: not its
\* number, nor its options, nor the blocks it has seen.
SameForwards ==
  \A q \in Requests : /\ fwd'[q].evaluation = fwd[q].evaluation
                      /\ fwd'[q].provider = fwd[q].provider
                      /\ fwd'[q].seen = fwd[q].seen

\* A receipt changes only the routes of a forward.
LEMMA RecordKeeps ==
  ASSUME Typed, NEW r \in Requests, NEW route, Record(r, route)
  PROVE  SameForwards
<1>1. fwd \in [Requests -> Forwards]
  BY DEF Typed, TypeOK
<1> QED
  BY <1>1 DEF Record, WithRecord, Forwards, SameForwards

\* The steps of a call change only the routes of forwards.
LEMMA CallKeepsForwards ==
  ASSUME Typed, NEW r \in Requests,
         \/ Sparse(r) \/ Dense(r) \/ BlockReturns(r) \/ BlockUnwinds(r) \/ BlockRecovers(r)
         \/ \E in \in Inputs[r] : Begin(r, in)
  PROVE  SameForwards
<1>1. UNCHANGED fwd \/ \E route \in {"kernel_unavailable", "fallback", "dense_warmup", "vdn_native",
                                     "vdn_dense_warmup", "inherited_owner"} \cup
                                    {call[r].label, Consume(call[r], "sparse").label,
                                     Consume(call[r], "provider").label,
                                     Consume(call[r], "original").label,
                                     Consume(call[r], "weighted").label,
                                     Consume(call[r], "native").label} : Record(r, route)
  <2>1. CASE Sparse(r)
    BY <2>1 DEF Sparse, KernelLoads, KernelFails, GatePasses, GateFails, SparseRuns, AfterUnavailable,
       UnavailableRoute, AfterGateFailure, RecordAndReturn
  <2>2. CASE Dense(r)
    BY <2>2 DEF Dense, ProviderReturns, ProviderUnavailable, ProviderSkipped, OriginalReturns,
       WeightedReturns, NativeReturns, ComputeRaises, Answer, RecordAndReturn
  <2>3. CASE BlockReturns(r) \/ BlockUnwinds(r) \/ BlockRecovers(r)
    BY <2>3 DEF BlockReturns, BlockUnwinds, BlockRecovers
  <2>4. CASE \E in \in Inputs[r] : Begin(r, in)
    BY <2>4 DEF Begin, CallRefused, CallIneligible, CallWarm, CallWarmReduced, CallWarmWeighted,
       CallSparse, VdnIneligible, VdnWarm, VdnSparse
  <2> QED
    BY <2>1, <2>2, <2>3, <2>4
<1> QED
  BY <1>1, RecordKeeps DEF SameForwards

\* Every step keeps the evaluation count right.
LEMMA ChargedNext == IScopes /\ EvaluationCharged /\ [Next]_vars => EvaluationCharged'
<1> SUFFICES ASSUME IScopes, EvaluationCharged, [Next]_vars PROVE EvaluationCharged'
  OBVIOUS
<1> USE DEF EvaluationCharged
<1>1. /\ pc \in [Requests -> Places] /\ Typed
      /\ evaluations \in [Requests -> Nat]
      /\ fwd \in [Requests -> Forwards]
  BY ScopeTypes DEF IScopes, Typed, TypeOK
<1>2. ASSUME NEW r \in Requests, Sampling(r)
      PROVE  EvaluationCharged'
  <2>1. UNCHANGED fwd
    BY <1>2 DEF Sampling, SampleEnter, SampleReturns, SampleUnwinds, SamplerRecovers, SampleOver
  <2>2. \A q \in Requests : pc'[q] \in InForward =>
          pc[q] \in InForward /\ evaluations'[q] = evaluations[q]
    BY <1>1, <1>2, OpenPlaces DEF Sampling, SampleEnter, SampleReturns, SampleUnwinds,
       SamplerRecovers, SampleOver, Goto, stateVars
  <2> QED
    BY <2>1, <2>2
<1>3. ASSUME NEW r \in Requests, Diffusion(r)
      PROVE  EvaluationCharged'
  <2>1. UNCHANGED evaluations
    BY <1>3 DEF Diffusion, ForwardRefused, ForwardEnter, ForwardReturns, ForwardUnwinds, stateVars
  <2>2. CASE ForwardEnter(r)
    <3>1. \A q \in Requests : q # r => pc'[q] = pc[q] /\ fwd'[q] = fwd[q]
      BY <1>1, <2>2 DEF ForwardEnter, Goto
    <3>2. fwd'[r].evaluation = evaluations[r] /\ fwd'[r].seen = {}
      BY <1>1, <2>2 DEF ForwardEnter, EvaluationAtEntry
    <3> QED
      BY <1>1, <2>1, <3>1, <3>2
  <2>3. CASE ForwardReturns(r) \/ ForwardUnwinds(r)
    <3>1. \A q \in Requests : q # r => pc'[q] = pc[q] /\ fwd'[q] = fwd[q]
      BY <1>1, <2>3 DEF ForwardReturns, ForwardUnwinds, LeaveForward, Goto
    <3>2. pc'[r] \notin InForward
      BY <1>1, <2>3, OpenPlaces DEF ForwardReturns, ForwardUnwinds, LeaveForward, Goto
    <3> QED
      BY <2>1, <3>1, <3>2
  <2>4. CASE ForwardRefused(r)
    BY <2>4 DEF ForwardRefused, stateVars
  <2> QED
    BY <1>3, <2>2, <2>3, <2>4 DEF Diffusion
<1>4. ASSUME NEW r \in Requests, BlockEnter(r)
      PROVE  EvaluationCharged'
  <2>1. request = r /\ forward = r /\ pc[r] \in InForward
    BY <1>4, CurrentScope, OpenPlaces DEF BlockEnter, At, Open
  <2>2. PICK i \in Blocks : fwd' = [fwd EXCEPT ![r].seen = @ \cup {i}]
    BY <1>4, <2>1 DEF BlockEnter
  <2>3. \A q \in Requests : q # r =>
          pc'[q] = pc[q] /\ fwd'[q] = fwd[q] /\ evaluations'[q] = evaluations[q]
    BY <1>1, <1>4, <2>1, <2>2 DEF BlockEnter, Goto
  <2>4. fwd'[r].evaluation = fwd[r].evaluation /\ fwd'[r].seen # {}
    BY <1>1, <2>2 DEF Forwards
  <2>5. evaluations'[r] = IF fwd[r].seen = {} THEN evaluations[r] + 1 ELSE evaluations[r]
    BY <1>1, <1>4, <2>1 DEF BlockEnter, FirstBlock
  <2>6. fwd[r].evaluation \in Nat
    BY <1>1 DEF Forwards
  <2> QED
    BY <1>1, <2>1, <2>3, <2>4, <2>5, <2>6
<1>5. ASSUME NEW r \in Requests,
             \/ Sparse(r) \/ Dense(r) \/ BlockReturns(r) \/ BlockUnwinds(r) \/ BlockRecovers(r)
             \/ \E in \in Inputs[r] : Begin(r, in)
      PROVE  EvaluationCharged'
  <2>1. SameForwards /\ UNCHANGED evaluations
    <3>1. SameForwards
      BY <1>1, <1>5, CallKeepsForwards
    <3>2. UNCHANGED evaluations
      BY <1>5, MovesInCall DEF BlockReturns, BlockUnwinds, BlockRecovers, stateVars
    <3> QED
      BY <3>1, <3>2
  <2>2. \A q \in Requests : pc'[q] \in InForward => pc[q] \in InForward
    <3>1. pc[r] \in InForward
      BY <1>5, MovesInCall, OpenPlaces DEF BlockReturns, BlockUnwinds, BlockRecovers, At
    <3>2. UNCHANGED pc \/ \E place : Goto(r, place)
      BY <1>5, MovesInCall DEF BlockReturns, BlockUnwinds, BlockRecovers, LeaveBlock
    <3> QED
      BY <1>1, <3>1, <3>2 DEF Goto
  <2> QED
    BY <2>1, <2>2 DEF SameForwards
<1>6. CASE UNCHANGED vars
  BY <1>6 DEF vars, stateVars
<1> QED
  BY <1>2, <1>3, <1>4, <1>5, <1>6 DEF Next, Block

\* Warmup is counted in actual evaluations, exactly one for every forward that
\* runs a block (EvaluationCharged), whatever is nested in the forward and
\* however often a block fails or is retried.
THEOREM EvaluationChargedInvariance == Spec => []EvaluationCharged
<1>1. Init => EvaluationCharged
  BY DEF Init, EvaluationCharged, InForward, InCall
<1> QED
  BY <1>1, ScopeCorrect, ChargedNext, PTL DEF Spec

-----------------------------------------------------------------------------
(***************************************************************************)
(* Theorems about the attention calls of SolRuntime: what their tensors    *)
(* have been through at every consumer, what their receipts say, what a    *)
(* failed arithmetic gate leaves behind, that what failed is not tried     *)
(* again, and that no receipt is sparse during the warmup.                 *)
(*                                                                         *)
(* The invariant CallOK says, for every place a call can be in, what has   *)
(* been done to the tensors it holds; n is the depth of the preprocessing  *)
(* chain the caller's options announce.                                    *)
(***************************************************************************)

RanSparse(c) == \E x \in c.ran : x.op = "sparse"

CallOK(c, place, n) ==
  /\ c.gateFailed => ~c.done /\ c.ran = {} /\ place = "block"
  /\ c.done => /\ place = "block" /\ c.receipts = 1 /\ c.ran # {}
               /\ (c.label \in SparseRoutes) <=> RanSparse(c)
  /\ c.kind = "override" => \A x \in c.ran : x.pre = n
  /\ c.measure = "generic" => \A x \in c.ran : x.op \in {"sparse", "weighted"}
  /\ place = "sparse" =>
       /\ c.ran = {} /\ c.receipts = 0 /\ c.label \in SparseRoutes /\ c.stage = "answer"
       /\ c.kind = "override" => c.pre = n /\ ChainDepth(c.provider) = 0
       /\ c.kind = "vdn" => c.measure = "none" /\ ~c.prefix
  /\ place \in {"dense", "original"} =>
       /\ c.kind = "override" /\ c.measure # "generic" /\ c.pre + ChainDepth(c.provider) = n
       /\ c.stage = "answer" => c.receipts = 1 /\ c.label \notin SparseRoutes /\ ~RanSparse(c)
       /\ c.stage = "prefix" => c.receipts = 0 /\ c.label \in SparseRoutes /\ RanSparse(c)
  /\ place = "weighted" =>
       /\ c.kind = "override" /\ c.pre = n /\ c.receipts = 0
       /\ (c.label \in SparseRoutes) <=> RanSparse(c)
  /\ place = "native" =>
       /\ c.kind = "vdn" /\ c.measure = "none" /\ c.stage = "answer"
       /\ c.receipts = 1 /\ c.label \notin SparseRoutes /\ ~RanSparse(c)
  /\ place \notin InBlock => c.ran = {}

CallsOK == \A r \in Requests : CallOK(call[r], pc[r], ChainDepth(Previous(r)))
ICalls == IScopes /\ CallsOK

\* A call that does not exist is in order anywhere outside its computations.
LEMMA NoCallOK ==
  ASSUME NEW n, NEW place, place \notin InCall
  PROVE  CallOK(NoCall, place, n)
BY DEF NoCall, CallOK, InCall, RanSparse

\* A step of one call leaves the calls of other requests in order.
LEMMA CallStep ==
  ASSUME ICalls, NEW r \in Requests, pc[r] \in InBlock, NEW place, NEW c,
         Goto(r, place), call' = [call EXCEPT ![r] = c],
         UNCHANGED blk, SameForwards, CallOK(c, place, ChainDepth(Previous(r)))
  PROVE  CallsOK'
<1>1. /\ call \in [Requests -> Calls]
      /\ pc \in [Requests -> Places]
      /\ blk \in [Requests -> BlockCalls]
  BY ScopeTypes DEF ICalls, IScopes, Typed, TypeOK
<1>2. ASSUME NEW q \in Requests, pc[q] \in InBlock
      PROVE  Previous(q)' = Previous(q)
  <2>1. Owner(q) = q /\ Owner(q)' = q
    BY <1>2 DEF ICalls, IScopes, OwnBlock, Owner
  <2> QED
    BY <2>1 DEF Previous, SameForwards
<1>3. ASSUME NEW q \in Requests, q # r
      PROVE  CallOK(call'[q], pc'[q], ChainDepth(Previous(q)'))
  <2>1. call'[q] = call[q] /\ pc'[q] = pc[q] /\ CallOK(call[q], pc[q], ChainDepth(Previous(q)))
    BY <1>1, <1>3 DEF Goto, ICalls, CallsOK
  <2>2. CASE pc[q] \in InBlock
    BY <1>2, <2>1, <2>2
  <2>3. CASE pc[q] \notin InBlock
    BY <2>1, <2>3 DEF CallOK, InBlock, InCall
  <2> QED
    BY <2>2, <2>3
<1>4. call'[r] = c /\ pc'[r] = place
  BY <1>1 DEF Goto
<1>5. CallOK(call'[r], pc'[r], ChainDepth(Previous(r)'))
  BY <1>2, <1>4
<1>6. \A q \in Requests : CallOK(call'[q], pc'[q], ChainDepth(Previous(q)'))
  BY <1>3, <1>5
<1>7. \A q \in Requests : ChainDepth(Previous(q))' = ChainDepth(Previous(q)')
  BY DEF ChainDepth
<1> QED
  BY <1>6, <1>7 DEF CallsOK, CallOK, RanSparse, ChainDepth
\* Outside a block nothing depends on the options of the forward, and a call
\* that has just become possible is in order.
LEMMA OutsideOK ==
  ASSUME NEW c, NEW p, NEW n, CallOK(c, p, n), p \notin InBlock,
         NEW pp, pp \notin InCall, NEW nn
  PROVE  CallOK(c, pp, nn)
BY DEF CallOK, InBlock, InCall, RanSparse

\* A step of r that leaves r's call in order whatever the options are.
LEMMA CallOutside ==
  ASSUME ICalls, NEW r \in Requests,
         \A q \in Requests : q # r =>
           /\ call'[q] = call[q] /\ pc'[q] = pc[q] /\ blk'[q] = blk[q]
           /\ fwd'[q].provider = fwd[q].provider,
         \A n : CallOK(call'[r], pc'[r], n)
  PROVE  CallsOK'
<1>1. ASSUME NEW q \in Requests, q # r
      PROVE  CallOK(call'[q], pc'[q], ChainDepth(Previous(q)'))
  <2>1. call'[q] = call[q] /\ pc'[q] = pc[q] /\ CallOK(call[q], pc[q], ChainDepth(Previous(q)))
    BY <1>1 DEF ICalls, CallsOK
  <2>2. CASE pc[q] \in InBlock
    <3>1. Owner(q) = q /\ Owner(q)' = q
      BY <1>1, <2>2 DEF ICalls, IScopes, OwnBlock, Owner
    <3>2. Previous(q)' = Previous(q)
      BY <1>1, <3>1 DEF Previous
    <3> QED
      BY <2>1, <3>2
  <2>3. CASE pc[q] \notin InBlock
    BY <2>1, <2>3 DEF CallOK, InBlock, InCall
  <2> QED
    BY <2>2, <2>3
<1>2. \A q \in Requests : CallOK(call'[q], pc'[q], ChainDepth(Previous(q)'))
  BY <1>1
<1> QED
  BY <1>2 DEF CallsOK, CallOK, RanSparse, ChainDepth

\* The wrappers leave every call in order.
LEMMA CallsScopes ==
  ASSUME ICalls, NEW r \in Requests, Sampling(r) \/ Diffusion(r)
  PROVE  CallsOK'
<1>1. /\ pc \in [Requests -> Places] /\ fwd \in [Requests -> Forwards]
  BY ScopeTypes DEF ICalls, IScopes, Typed, TypeOK
<1>2. /\ UNCHANGED <<call, blk>>
      /\ pc[r] \in {"new", "sampling", "forward"}
      /\ UNCHANGED pc \/ \E place \in {"sampling", "over", "forward"} : Goto(r, place)
      /\ \A q \in Requests : q # r => fwd'[q] = fwd[q]
  BY <1>1 DEF Sampling, Diffusion, SampleEnter, SampleReturns, SampleUnwinds, SamplerRecovers, SampleOver,
     ForwardRefused, ForwardEnter, ForwardReturns, ForwardUnwinds, LeaveForward, At
<1>3. pc[r] \notin InBlock /\ pc'[r] \notin InCall
  BY <1>1, <1>2 DEF InBlock, InCall, Goto
<1>4. CallOK(call[r], pc[r], ChainDepth(Previous(r)))
  BY DEF ICalls, CallsOK
<1>5. \A n : CallOK(call'[r], pc'[r], n)
  BY <1>2, <1>3, <1>4, OutsideOK
<1>6. \A q \in Requests : q # r => pc'[q] = pc[q]
  BY <1>1, <1>2 DEF Goto
<1> QED
  BY <1>2, <1>5, <1>6, CallOutside

\* Entering, leaving and recovering in a block leave every call in order.
LEMMA CallsBlock ==
  ASSUME ICalls, NEW r \in Requests, Block(r)
  PROVE  CallsOK'
<1>1. /\ pc \in [Requests -> Places]
      /\ fwd \in [Requests -> Forwards]
      /\ call \in [Requests -> Calls]
      /\ blk \in [Requests -> BlockCalls]
      /\ CallOK(call[r], pc[r], ChainDepth(Previous(r)))
  BY ScopeTypes DEF ICalls, IScopes, Typed, TypeOK, CallsOK
<1>2. CASE BlockEnter(r)
  <2>1. request = r /\ forward = r
    BY <1>2, CurrentScope, OpenPlaces DEF ICalls, BlockEnter, At, Open
  <2>2. PICK i \in Blocks :
          /\ blk' = [blk EXCEPT ![r] = [index |-> i, owner |-> r, start |-> Len(fwd[r].routes)]]
          /\ fwd' = [fwd EXCEPT ![r].seen = @ \cup {i}]
    BY <1>2, <2>1 DEF BlockEnter
  <2>3. \A q \in Requests : q # r => blk'[q] = blk[q] /\ fwd'[q] = fwd[q] /\ pc'[q] = pc[q]
    BY <1>1, <1>2, <2>2 DEF BlockEnter, Goto
  <2>4. pc[r] \notin InBlock /\ pc'[r] \notin InCall /\ call' = call
    BY <1>1, <1>2 DEF BlockEnter, At, Goto, InBlock, InCall
  <2>5. \A n : CallOK(call'[r], pc'[r], n)
    BY <1>1, <2>4, OutsideOK
  <2> QED
    BY <2>3, <2>4, <2>5, CallOutside
<1>3. CASE BlockReturns(r) \/ BlockUnwinds(r)
  <2>1. LeaveBlock(r) /\ SameForwards
    BY <1>3, CallKeepsForwards DEF ICalls, IScopes, BlockReturns, BlockUnwinds
  <2>2. \A q \in Requests : q # r => call'[q] = call[q] /\ blk'[q] = blk[q] /\ pc'[q] = pc[q]
    BY <1>1, <2>1 DEF LeaveBlock, Goto
  <2>3. call'[r] = NoCall /\ pc'[r] \notin InCall
    BY <1>1, <2>1 DEF LeaveBlock, Goto, InCall
  <2> QED
    BY <2>1, <2>2, <2>3, NoCallOK, CallOutside DEF SameForwards
<1>4. CASE BlockRecovers(r)
  BY <1>4 DEF BlockRecovers, ICalls, CallsOK, Previous, Owner
<1> QED
  BY <1>2, <1>3, <1>4 DEF Block

----
(***************************************************************************)
(* What each operator on calls changes.                                    *)
(***************************************************************************)
Same(c, e) == c.kind = e.kind /\ c.measure = e.measure /\ c.prefix = e.prefix

\* Reading the tensors of a call adds one consumer and changes nothing else.
LEMMA ConsumeFields ==
  ASSUME NEW c \in Calls, NEW op
  PROVE  /\ Same(Consume(c, op), c)
         /\ Consume(c, op).label = c.label
         /\ Consume(c, op).receipts = c.receipts
         /\ Consume(c, op).stage = c.stage
         /\ Consume(c, op).pre = c.pre
         /\ Consume(c, op).provider = c.provider
         /\ Consume(c, op).done = c.done
         /\ Consume(c, op).gateFailed = c.gateFailed
         /\ \E x : /\ Consume(c, op).ran = c.ran \cup {x}
                   /\ x.op = op
                   /\ x.pre = c.pre + (IF op \in {"provider", "original"}
                                       THEN ChainDepth(c.provider) ELSE 0)
<1> DEFINE x == Ran(op, IF op = "provider" THEN c.provider.leaf ELSE None,
                    c.pre + (IF op \in {"provider", "original"}
                             THEN ChainDepth(c.provider) ELSE 0), c.reduced)
<1>1. /\ x.op = op
      /\ x.pre = c.pre + (IF op \in {"provider", "original"}
                          THEN ChainDepth(c.provider) ELSE 0)
  BY DEF Ran
<1>2. Consume(c, op) = [c EXCEPT !.ran = c.ran \cup {x}]
  BY DEF Consume, Calls
<1> HIDE DEF x
<1>3. Consume(c, op).ran = c.ran \cup {x}
  BY <1>2 DEF Calls
<1> QED
  BY <1>1, <1>2, <1>3 DEF Calls, Same

\* A receipt labels a call and counts.
LEMMA RecordedFields ==
  ASSUME NEW c \in Calls, NEW route
  PROVE  /\ Same(Recorded(c, route), c)
         /\ Recorded(c, route).label = route
         /\ Recorded(c, route).receipts = c.receipts + 1
         /\ Recorded(c, route).stage = c.stage
         /\ Recorded(c, route).pre = c.pre
         /\ Recorded(c, route).provider = c.provider
         /\ Recorded(c, route).done = c.done
         /\ Recorded(c, route).gateFailed = c.gateFailed
         /\ Recorded(c, route).ran = c.ran
BY DEF Recorded, Calls, Same

\* Ending a call changes nothing else.
LEMMA FinishedFields ==
  ASSUME NEW c \in Calls
  PROVE  /\ Same(Finished(c), c)
         /\ Finished(c).label = c.label
         /\ Finished(c).receipts = c.receipts
         /\ Finished(c).done
         /\ Finished(c).gateFailed = c.gateFailed
         /\ Finished(c).ran = c.ran
BY DEF Finished, Calls, Same

\* Preprocessing changes the tensors and the provider only.
LEMMA PreprocessedFields ==
  ASSUME NEW c \in Calls
  PROVE  /\ Same(Preprocessed(c), c)
         /\ Preprocessed(c).pre = c.pre + ChainDepth(c.provider)
         /\ ChainDepth(Preprocessed(c).provider) = 0
         /\ Preprocessed(c).receipts = c.receipts
         /\ Preprocessed(c).stage = c.stage
         /\ Preprocessed(c).done = c.done
         /\ Preprocessed(c).gateFailed = c.gateFailed
         /\ Preprocessed(c).ran = c.ran
BY DEF Preprocessed, Calls, Same, LeafOf, ChainDepth

\* The gather changes the K/V domain only.
LEMMA ReducedFields ==
  ASSUME NEW c \in Calls
  PROVE  /\ Same(Reduced(c), c)
         /\ Reduced(c).pre = c.pre
         /\ Reduced(c).provider = c.provider
         /\ Reduced(c).receipts = c.receipts
         /\ Reduced(c).stage = c.stage
         /\ Reduced(c).done = c.done
         /\ Reduced(c).gateFailed = c.gateFailed
         /\ Reduced(c).ran = c.ran
BY DEF Reduced, Calls, Same

\* Going back to the tensors of the caller changes nothing else.
LEMMA CallerTensorsFields ==
  ASSUME NEW c \in Calls, NEW r
  PROVE  /\ Same(CallerTensors(r, c), c)
         /\ CallerTensors(r, c).pre = 0
         /\ CallerTensors(r, c).provider = Previous(r)
         /\ CallerTensors(r, c).receipts = c.receipts
         /\ CallerTensors(r, c).stage = c.stage
         /\ CallerTensors(r, c).done = c.done
         /\ CallerTensors(r, c).gateFailed = c.gateFailed
         /\ CallerTensors(r, c).ran = c.ran
BY DEF CallerTensors, Calls, Same

\* Labelling a call changes nothing else.
LEMMA LabelledFields ==
  ASSUME NEW c \in Calls, NEW route
  PROVE  /\ Same([c EXCEPT !.label = route], c)
         /\ [c EXCEPT !.label = route].label = route
         /\ [c EXCEPT !.label = route].pre = c.pre
         /\ [c EXCEPT !.label = route].provider = c.provider
         /\ [c EXCEPT !.label = route].receipts = c.receipts
         /\ [c EXCEPT !.label = route].stage = c.stage
         /\ [c EXCEPT !.label = route].done = c.done
         /\ [c EXCEPT !.label = route].gateFailed = c.gateFailed
         /\ [c EXCEPT !.label = route].ran = c.ran
BY DEF Calls, Same

----
(***************************************************************************)
(* Every step of a call keeps it in order.                                 *)
(***************************************************************************)
\* Dense routes are not sparse ones, and a call meant for the kernel has a
\* sparse route.
LEMMA RouteKinds ==
  /\ {"dense_warmup", "vdn_dense_warmup", "kernel_unavailable", "fallback", "vdn_native"}
       \cap SparseRoutes = {}
  /\ \A c, e : SparseRoute(c, e) \in SparseRoutes
BY DEF SparseRoutes, SparseRoute

\* A call that begins is in order at the place it goes to.
LEMMA CallsBegin ==
  ASSUME ICalls, NEW r \in Requests, NEW in \in Inputs[r], Begin(r, in)
  PROVE  CallsOK'
<1> DEFINE n == ChainDepth(Previous(r))
           c0 == NewCall(r, in)
<1>1. /\ pc[r] = "block" /\ pc[r] \in InBlock
      /\ in \in CallInputs
      /\ SameForwards
      /\ UNCHANGED blk
      /\ Typed
  <2>1. pc[r] = "block" /\ UNCHANGED blk
    BY DEF Begin, CanCall, At, CallRefused, CallIneligible, CallWarm, CallWarmReduced,
       CallWarmWeighted, CallSparse, VdnIneligible, VdnWarm, VdnSparse, Start
  <2>2. Typed /\ in \in CallInputs
    BY ConstantsAssumption DEF ICalls, IScopes
  <2> QED
    BY <2>1, <2>2, CallKeepsForwards, OpenPlaces
<1>2. Previous(r) \in Providers /\ c0 \in Calls
  <2>1. Owner(r) \in Requests
    BY <1>1 DEF Typed, Owned
  <2>2. Previous(r) \in Providers
    BY <1>1, <2>1 DEF Typed, TypeOK, Forwards, Previous
  <2> QED
    BY <1>1, <2>2, NewCallType
<1>3. /\ c0.pre = 0 /\ c0.provider = Previous(r) /\ c0.ran = {} /\ c0.receipts = 0
      /\ ~c0.gateFailed /\ ~c0.done /\ c0.stage = "answer"
      /\ c0.kind = in.kind /\ c0.measure = in.measure
  BY DEF NewCall, NoCall
<1>4. n \in 0..1
  BY <1>2, ProviderFields
<1> DEFINE c1 == Preprocessed(c0)
<1>5. c1 \in Calls
  BY <1>2, <1>3, PreprocessedType
<1>6. /\ Same(c1, c0) /\ c1.pre = n /\ ChainDepth(c1.provider) = 0 /\ c1.ran = {} /\ c1.receipts = 0
      /\ ~c1.gateFailed /\ ~c1.done /\ c1.stage = "answer"
  BY <1>2, <1>3, <1>4, PreprocessedFields
<1> DEFINE c2 == Reduced(c1)
<1>7. c2 \in Calls
  BY <1>5, ReducedType
<1>8. /\ Same(c2, c0) /\ c2.pre = n /\ ChainDepth(c2.provider) = 0 /\ c2.ran = {} /\ c2.receipts = 0
      /\ ~c2.gateFailed /\ ~c2.done /\ c2.stage = "answer"
  BY <1>5, <1>6, ReducedFields DEF Same
<1> HIDE DEF c0, c1, c2, n
<1>9. ASSUME NEW c, NEW place, Start(r, c, place), CallOK(c, place, n)
      PROVE  CallsOK'
  BY <1>1, <1>9, CallStep DEF Start, n
<1> USE DEF CallOK, RanSparse, Same
<1>10. CASE CallRefused(r, in)
  <2>1. Goto(r, "block") /\ call' = [call EXCEPT ![r] = NoCall]
    BY <1>10 DEF CallRefused, Raise
  <2>2. "block" \notin InCall
    BY DEF InCall
  <2> HIDE DEF CallOK
  <2>3. CallOK(NoCall, "block", n)
    BY <2>2, NoCallOK
  <2> QED
    BY <1>1, <2>1, <2>3, CallStep DEF n
<1>11. CASE CallIneligible(r, in) \/ CallWarm(r, in)
  <2>1. PICK route \in {"fallback", "dense_warmup"} : Start(r, Recorded(c0, route), "dense")
    BY <1>11 DEF CallIneligible, CallWarm, c0
  <2>2. in.kind = "override" /\ in.measure = "none"
    BY <1>11 DEF CallIneligible, CallWarm, CanCall
  <2>3. 0 + n = n
    BY <1>4
  <2>4. CallOK(Recorded(c0, route), "dense", n)
    BY <1>2, <1>3, <2>2, <2>3, RecordedFields, RouteKinds DEF InBlock, InCall, n
  <2> QED
    BY <1>9, <2>1, <2>4
<1>12. CASE CallWarmReduced(r, in)
  <2>1. Start(r, Recorded(c2, "dense_warmup"), "dense")
    BY <1>12 DEF CallWarmReduced, c0, c1, c2
  <2>2. in.kind = "override" /\ in.measure = "legacy"
    BY <1>12 DEF CallWarmReduced, CanCall
  <2>3. n + 0 = n
    BY <1>4
  <2>4. CallOK(Recorded(c2, "dense_warmup"), "dense", n)
    BY <1>3, <1>7, <1>8, <2>2, <2>3, RecordedFields, RouteKinds DEF InBlock, InCall
  <2> QED
    BY <1>9, <2>1, <2>4
<1>13. CASE CallWarmWeighted(r, in)
  <2>1. Start(r, [c1 EXCEPT !.label = "dense_warmup"], "weighted")
    BY <1>13 DEF CallWarmWeighted, c0, c1
  <2>2. in.kind = "override"
    BY <1>13 DEF CallWarmWeighted, CanCall
  <2>3. CallOK([c1 EXCEPT !.label = "dense_warmup"], "weighted", n)
    BY <1>3, <1>5, <1>6, <2>2, LabelledFields, RouteKinds DEF InBlock, InCall
  <2> QED
    BY <1>9, <2>1, <2>3
<1>14. CASE CallSparse(r, in)
  <2> DEFINE route == SparseRoute(c2, in.external)
  <2>1. Start(r, [c2 EXCEPT !.label = route], "sparse")
    BY <1>14 DEF CallSparse, c0, c1, c2
  <2>2. in.kind = "override"
    BY <1>14 DEF CallSparse, CanCall
  <2>3. route \in SparseRoutes
    BY RouteKinds
  <2> HIDE DEF route
  <2>4. CallOK([c2 EXCEPT !.label = route], "sparse", n)
    BY <1>3, <1>7, <1>8, <2>2, <2>3, LabelledFields DEF InBlock, InCall
  <2> QED
    BY <1>9, <2>1, <2>4
<1>15. CASE VdnIneligible(r, in) \/ VdnWarm(r, in)
  <2>1. PICK route \in {"vdn_native", "vdn_dense_warmup"} : Start(r, Recorded(c0, route), "native")
    BY <1>15 DEF VdnIneligible, VdnWarm, c0
  <2>2. in.kind = "vdn" /\ in.measure = "none"
    BY <1>1, <1>15 DEF VdnIneligible, VdnWarm, CanCall, CallInputs
  <2>3. CallOK(Recorded(c0, route), "native", n)
    BY <1>2, <1>3, <2>2, RecordedFields, RouteKinds DEF InBlock, InCall
  <2> QED
    BY <1>9, <2>1, <2>3
<1>16. CASE VdnSparse(r, in)
  <2> DEFINE e == [c0 EXCEPT !.prefix = FALSE, !.label = "vdn_local_sol"]
  <2>1. Start(r, e, "sparse")
    BY <1>16 DEF VdnSparse, c0
  <2>2. in.kind = "vdn" /\ in.measure = "none"
    BY <1>1, <1>16 DEF VdnSparse, CanCall, CallInputs
  <2>3. /\ ~e.prefix /\ e.label = "vdn_local_sol" /\ e.kind = c0.kind /\ e.measure = c0.measure
        /\ e.ran = c0.ran /\ e.receipts = c0.receipts /\ e.stage = c0.stage
        /\ e.gateFailed = c0.gateFailed /\ e.done = c0.done
    BY <1>2 DEF Calls
  <2> HIDE DEF e
  <2>4. CallOK(e, "sparse", n)
    BY <1>3, <2>2, <2>3 DEF InBlock, InCall, SparseRoutes
  <2> QED
    BY <1>9, <2>1, <2>4
<1> QED
  BY <1>10, <1>11, <1>12, <1>13, <1>14, <1>15, <1>16 DEF Begin

\* What the steps of a call in progress share.
LEMMA CallInProgress ==
  ASSUME ICalls, NEW r \in Requests, Sparse(r) \/ Dense(r)
  PROVE  /\ pc[r] \in InBlock
         /\ UNCHANGED blk
         /\ SameForwards
         /\ call[r] \in Calls
         /\ Previous(r) \in Providers
         /\ ChainDepth(Previous(r)) \in 0..1
         /\ CallOK(call[r], pc[r], ChainDepth(Previous(r)))
         /\ pc = [pc EXCEPT ![r] = pc[r]]
         /\ call = [call EXCEPT ![r] = call[r]]
<1>1. Typed /\ pc[r] \in InBlock /\ UNCHANGED blk
  BY MovesInCall DEF ICalls, IScopes
<1>2. SameForwards
  BY <1>1, CallKeepsForwards
<1>3. Owner(r) \in Requests
  BY <1>1 DEF Typed, Owned
<1>4. Previous(r) \in Providers
  BY <1>1, <1>3 DEF Typed, TypeOK, Forwards, Previous
<1>5. call \in [Requests -> Calls] /\ pc \in [Requests -> Places]
  BY <1>1, ScopeTypes DEF Typed, TypeOK
<1> QED
  BY <1>1, <1>2, <1>4, <1>5, ProviderFields DEF ICalls, CallsOK

\* A call that ends with its receipt after its result, or with its result.
LEMMA CallEnds ==
  ASSUME NEW c \in Calls, NEW n, ~c.gateFailed, c.ran # {},
         c.kind = "override" => \A x \in c.ran : x.pre = n,
         c.measure = "generic" => \A x \in c.ran : x.op \in {"sparse", "weighted"},
         (c.label \in SparseRoutes) <=> RanSparse(c)
  PROVE  /\ c.receipts = 0 => CallOK(Finished(Recorded(c, c.label)), "block", n)
         /\ c.receipts = 1 => CallOK(Finished(c), "block", n)
<1>1. ASSUME NEW d \in Calls, Same(d, c), d.label = c.label, d.ran = c.ran, ~d.gateFailed, d.receipts = 1
      PROVE  CallOK(Finished(d), "block", n)
  BY <1>1, FinishedFields DEF CallOK, RanSparse, Same, InBlock
<1>2. CASE c.receipts = 0
  <2>1. c.receipts + 1 \in Nat
    BY CallFields
  <2>2. Recorded(c, c.label) = [c EXCEPT !.receipts = @ + 1]
    BY DEF Recorded, Calls
  <2>3. Recorded(c, c.label) \in Calls
    BY <2>1, <2>2 DEF Calls
  <2> QED
    BY <1>1, <1>2, <2>3, RecordedFields
<1>3. CASE c.receipts = 1
  BY <1>1, <1>3 DEF Same
<1> QED
  BY <1>2, <1>3

\* The steps of sparse.attention keep a call in order.
LEMMA CallsSparse ==
  ASSUME ICalls, NEW r \in Requests, Sparse(r)
  PROVE  CallsOK'
<1> DEFINE n == ChainDepth(Previous(r))
           c == call[r]
<1>1. /\ pc[r] = "sparse" /\ c \in Calls /\ n \in 0..1 /\ CallOK(c, "sparse", n)
      /\ Previous(r) \in Providers
  BY CallInProgress DEF Sparse, At, KernelLoads, KernelFails, GatePasses, GateFails, SparseRuns
<1>2. ASSUME NEW d, NEW place, Goto(r, place), call' = [call EXCEPT ![r] = d], CallOK(d, place, n)
      PROVE  CallsOK'
  BY <1>2, CallInProgress, CallStep
<1>3. /\ c.ran = {} /\ c.receipts = 0 /\ c.label \in SparseRoutes /\ c.stage = "answer"
      /\ ~c.gateFailed /\ ~c.done
      /\ c.kind = "override" => c.pre = n /\ ChainDepth(c.provider) = 0
      /\ c.kind = "vdn" => c.measure = "none" /\ ~c.prefix
      /\ c.kind \in {"override", "vdn"}
  BY <1>1 DEF CallOK, Calls
<1>4. CASE KernelLoads(r) \/ GatePasses(r)
  <2>1. UNCHANGED <<pc, call>>
    BY <1>4 DEF KernelLoads, GatePasses
  <2> QED
    BY <1>1, <1>2, <2>1, CallInProgress DEF Goto
<1>5. CASE KernelFails(r)
  <2> DEFINE route == "kernel_unavailable"
  <2>1. \/ /\ c.kind = "vdn"
           /\ call' = [call EXCEPT ![r] = Recorded(c, route)] /\ Goto(r, "native")
        \/ /\ c.kind = "override" /\ c.measure = "generic"
           /\ call' = [call EXCEPT ![r] = [c EXCEPT !.label = route]] /\ Goto(r, "weighted")
        \/ /\ c.kind = "override" /\ c.measure # "generic"
           /\ call' = [call EXCEPT ![r] = Recorded(CallerTensors(r, c), route)] /\ Goto(r, "dense")
    BY <1>5 DEF KernelFails, AfterUnavailable, UnavailableRoute
  <2>2. route \notin SparseRoutes
    BY RouteKinds
  <2> HIDE DEF route, n, c
  <2>3. c.kind = "vdn" => CallOK(Recorded(c, route), "native", n)
    BY <1>1, <1>3, <2>2, RecordedFields DEF CallOK, RanSparse, Same, InBlock, InCall
  <2>4. c.kind = "override" => CallOK([c EXCEPT !.label = route], "weighted", n)
    BY <1>1, <1>3, <2>2, LabelledFields DEF CallOK, RanSparse, Same, InBlock, InCall
  <2>5. c.kind = "override" /\ c.measure # "generic" =>
          CallOK(Recorded(CallerTensors(r, c), route), "dense", n)
    <3>1. CallerTensors(r, c) \in Calls
      BY <1>1, CallerTensorsType
    <3>2. 0 + n = n
      BY <1>1
    <3> QED
      BY <1>1, <1>3, <2>2, <3>1, <3>2, CallerTensorsFields, RecordedFields
      DEF CallOK, RanSparse, Same, InBlock, InCall, n
  <2> QED
    BY <1>2, <2>1, <2>3, <2>4, <2>5 DEF c
<1>6. CASE GateFails(r)
  <2> DEFINE d == [c EXCEPT !.gateFailed = TRUE]
  <2>1. call' = [call EXCEPT ![r] = d] /\ Goto(r, "block")
    BY <1>6, CallInProgress DEF GateFails, AfterGateFailure, Raise
  <2>2. d.ran = {} /\ ~d.done
    BY <1>1, <1>3 DEF Calls
  <2> HIDE DEF d
  <2>3. CallOK(d, "block", n)
    BY <2>2 DEF CallOK, InBlock, InCall
  <2> QED
    BY <1>2, <2>1, <2>3
<1>7. CASE SparseRuns(r)
  <2> DEFINE d == Consume(c, "sparse")
  <2>1. d \in Calls
    BY <1>1, ConsumeType
  <2>2. PICK x : d.ran = c.ran \cup {x} /\ x.op = "sparse" /\ x.pre = c.pre + 0
    BY <1>1, ConsumeFields
  <2>3. /\ d.ran = {x} /\ d.receipts = 0 /\ d.label \in SparseRoutes /\ ~d.gateFailed /\ ~d.done
        /\ d.pre = c.pre /\ d.provider = c.provider /\ Same(d, c)
    BY <1>1, <1>3, <2>2, ConsumeFields
  <2>4. /\ RanSparse(d)
        /\ d.kind = "override" => x.pre = n /\ d.pre = n /\ d.pre + ChainDepth(d.provider) = n
    BY <1>1, <1>3, <2>2, <2>3 DEF RanSparse, Same
  <2>5. CASE d.prefix
    <3> DEFINE e == [d EXCEPT !.stage = "prefix"]
    <3>1. call' = [call EXCEPT ![r] = e] /\ Goto(r, IF d.measure = "generic" THEN "weighted" ELSE "dense")
      BY <1>7, <2>5 DEF SparseRuns, PrefixPlace
    <3> HIDE DEF d
    <3>2. /\ Same(e, d) /\ e.ran = d.ran /\ e.receipts = d.receipts /\ e.label = d.label
          /\ e.gateFailed = d.gateFailed /\ e.done = d.done /\ e.pre = d.pre
          /\ e.provider = d.provider /\ e.stage = "prefix"
      BY <2>1 DEF Calls, Same
    <3> HIDE DEF e, c, n
    <3>3. d.kind = "override"
      BY <1>3, <2>3, <2>5 DEF Same
    <3>4. CallOK(e, IF d.measure = "generic" THEN "weighted" ELSE "dense", n)
      BY <2>2, <2>3, <2>4, <3>2, <3>3 DEF CallOK, RanSparse, Same, InBlock, InCall
    <3> QED
      BY <1>2, <3>1, <3>4
  <2>6. CASE ~d.prefix
    <3>1. call' = [call EXCEPT ![r] = Finished(Recorded(d, d.label))] /\ Goto(r, "block")
      BY <1>7, <2>6 DEF SparseRuns, RecordAndReturn
    <3> HIDE DEF d, n
    <3>2. CallOK(Finished(Recorded(d, d.label)), "block", n)
      BY <2>1, <2>2, <2>3, <2>4, CallEnds
    <3> QED
      BY <1>2, <3>1, <3>2
  <2> QED
    BY <2>5, <2>6
<1> QED
  BY <1>4, <1>5, <1>6, <1>7 DEF Sparse

\* The steps of dense(), of the weighted dense result and of VDN native
\* attention keep a call in order.
LEMMA CallsDense ==
  ASSUME ICalls, NEW r \in Requests, Dense(r)
  PROVE  CallsOK'
<1> DEFINE n == ChainDepth(Previous(r))
           c == call[r]
<1>1. c \in Calls /\ n \in 0..1 /\ CallOK(c, pc[r], n)
  BY CallInProgress
<1>2. ASSUME NEW d, NEW place, Goto(r, place), call' = [call EXCEPT ![r] = d], CallOK(d, place, n)
      PROVE  CallsOK'
  BY <1>2, CallInProgress, CallStep
<1>3. ASSUME pc[r] \in InCall PROVE ~c.gateFailed /\ ~c.done
  BY <1>1, <1>3 DEF CallOK, InCall
<1>4. ASSUME NEW op \in {"provider", "original"}, pc[r] \in {"dense", "original"}
      PROVE  /\ Consume(c, op) \in Calls
             /\ CallOK(Consume(c, op), "original", n)
             /\ Answer(r, Consume(c, op)) => CallsOK'
  <2> DEFINE d == Consume(c, op)
  <2>1. d \in Calls /\ pc[r] \in InCall
    BY <1>1, <1>4, ConsumeType DEF InCall
  <2>2. PICK x : d.ran = c.ran \cup {x} /\ x.op = op /\ x.pre = c.pre + ChainDepth(c.provider)
    BY <1>1, <1>4, ConsumeFields
  <2>3. /\ d.receipts = c.receipts /\ d.label = c.label /\ d.stage = c.stage /\ d.pre = c.pre
        /\ d.provider = c.provider /\ d.gateFailed = c.gateFailed /\ d.done = c.done /\ Same(d, c)
    BY <1>1, ConsumeFields
  <2>4. d.stage \in {"answer", "prefix"}
    BY <2>1 DEF Calls
  <2> HIDE DEF d, c, n
  <2>5. RanSparse(d) <=> RanSparse(c)
    BY <1>4, <2>2 DEF RanSparse
  <2>6. CallOK(d, "original", n)
    BY <1>1, <1>3, <1>4, <2>1, <2>2, <2>3, <2>5 DEF CallOK, Same, InBlock, InCall
  <2>7. ASSUME d.stage = "prefix", RecordAndReturn(r, d) PROVE CallsOK'
    <3>1. d.receipts = 0 /\ d.kind = "override" /\ d.measure # "generic" /\ d.ran # {} /\ ~d.gateFailed
      BY <2>2, <2>6, <2>7, <1>3, <2>1, <2>3 DEF CallOK
    <3>2. CallOK(Finished(Recorded(d, d.label)), "block", n)
      BY <2>1, <2>6, <2>7, <3>1, CallEnds DEF CallOK
    <3> QED
      BY <1>2, <2>7, <3>2 DEF RecordAndReturn
  <2>8. ASSUME d.stage # "prefix", call' = [call EXCEPT ![r] = Finished(d)], Goto(r, "block")
        PROVE  CallsOK'
    <3>1. /\ d.receipts = 1 /\ d.kind = "override" /\ d.measure # "generic" /\ d.ran # {} /\ ~d.gateFailed
          /\ (d.label \in SparseRoutes) <=> RanSparse(d)
      BY <2>2, <2>4, <2>6, <2>8, <1>3, <2>1, <2>3 DEF CallOK
    <3>2. CallOK(Finished(d), "block", n)
      BY <2>1, <2>6, <3>1, CallEnds DEF CallOK
    <3> QED
      BY <1>2, <2>8, <3>2
  <2> QED
    BY <2>1, <2>6, <2>7, <2>8 DEF Answer, d
<1>5. CASE ProviderReturns(r)
  BY <1>4, <1>5 DEF ProviderReturns, At
<1>6. CASE ProviderUnavailable(r)
  <2>1. call' = [call EXCEPT ![r] = Consume(c, "provider")] /\ Goto(r, "original") /\ pc[r] = "dense"
    BY <1>6, CallInProgress DEF ProviderUnavailable, At
  <2> QED
    BY <1>2, <1>4, <2>1
<1>7. CASE ProviderSkipped(r)
  <2>1. UNCHANGED call /\ Goto(r, "original") /\ pc[r] = "dense"
    BY <1>7 DEF ProviderSkipped, At
  <2>2. CallOK(c, "original", n)
    BY <1>1, <2>1 DEF CallOK, InBlock, InCall
  <2> QED
    BY <1>2, <2>1, <2>2, CallInProgress
<1>8. CASE OriginalReturns(r)
  BY <1>4, <1>8 DEF OriginalReturns, At
<1>9. CASE WeightedReturns(r) \/ NativeReturns(r)
  <2> PICK op \in {"weighted", "native"} :
        /\ pc[r] = op
        /\ op = "weighted" => RecordAndReturn(r, Consume(c, op))
        /\ op = "native" => Answer(r, Consume(c, op))
    BY <1>9 DEF WeightedReturns, NativeReturns, At
  <2> DEFINE d == Consume(c, op)
  <2>1. d \in Calls /\ pc[r] \in InCall
    BY <1>1, ConsumeType DEF InCall
  <2>2. PICK x : d.ran = c.ran \cup {x} /\ x.op = op /\ x.pre = c.pre + 0
    BY <1>1, ConsumeFields
  <2>3. /\ d.receipts = c.receipts /\ d.label = c.label /\ d.stage = c.stage /\ d.pre = c.pre
        /\ d.gateFailed = c.gateFailed /\ d.done = c.done /\ Same(d, c) /\ c.pre + 0 = c.pre
    BY <1>1, CallFields, ConsumeFields
  <2>4. \/ call' = [call EXCEPT ![r] = Finished(Recorded(d, d.label))] /\ op = "weighted"
        \/ call' = [call EXCEPT ![r] = Finished(d)] /\ op = "native" /\ d.stage # "prefix"
    <3>1. op = "native" => d.stage = "answer"
      BY <1>1, <2>3 DEF CallOK
    <3> QED
      BY <3>1 DEF RecordAndReturn, Answer
  <2>5. Goto(r, "block")
    BY DEF RecordAndReturn, Answer
  <2> HIDE DEF d, c, n
  <2>6. RanSparse(d) <=> RanSparse(c)
    BY <2>2 DEF RanSparse
  <2>7. /\ d.ran # {} /\ ~d.gateFailed
        /\ (d.label \in SparseRoutes) <=> RanSparse(d)
        /\ op = "weighted" => d.receipts = 0
        /\ op = "native" => d.receipts = 1
    BY <1>1, <1>3, <2>1, <2>2, <2>3, <2>6 DEF CallOK
  <2>8. d.kind = "override" => \A y \in d.ran : y.pre = n
    BY <1>1, <2>2, <2>3 DEF CallOK, Same
  <2>9. d.measure = "generic" => \A y \in d.ran : y.op \in {"sparse", "weighted"}
    BY <1>1, <2>2, <2>3 DEF CallOK, Same
  <2>10. /\ op = "weighted" => CallOK(Finished(Recorded(d, d.label)), "block", n)
         /\ op = "native" => CallOK(Finished(d), "block", n)
    BY <2>1, <2>7, <2>8, <2>9, CallEnds
  <2> QED
    BY <1>2, <2>4, <2>5, <2>10
<1>10. CASE ComputeRaises(r)
  <2>1. call' = [call EXCEPT ![r] = NoCall] /\ Goto(r, "block")
    BY <1>10 DEF ComputeRaises, Raise
  <2>2. "block" \notin InCall
    BY DEF InCall
  <2> QED
    BY <1>2, <2>1, <2>2, NoCallOK
<1> QED
  BY <1>5, <1>6, <1>7, <1>8, <1>9, <1>10 DEF Dense
----
\* Every step keeps every call in order.
LEMMA CallsNext == ICalls /\ [Next]_vars => ICalls'
<1> SUFFICES ASSUME ICalls, [Next]_vars PROVE ICalls'
  OBVIOUS
<1>1. IScopes'
  BY ScopesNext DEF ICalls
<1>2. CASE Next
  <2> PICK r \in Requests :
        \/ Sampling(r) \/ Diffusion(r) \/ Block(r) \/ Sparse(r) \/ Dense(r)
        \/ \E in \in Inputs[r] : Begin(r, in)
    BY <1>2 DEF Next
  <2> QED
    BY <1>1, CallsScopes, CallsBlock, CallsSparse, CallsDense, CallsBegin DEF ICalls
<1>3. CASE UNCHANGED vars
  BY <1>1, <1>3 DEF vars, ICalls, CallsOK, Previous, Owner
<1> QED
  BY <1>2, <1>3

\* In every reachable state each attention call in progress satisfies what its
\* place in the override or in sparse.attention requires of it (CallOK).
THEOREM CallsCorrect == Spec => []ICalls
<1>1. Init => CallsOK
  <2> SUFFICES ASSUME Init, NEW r \in Requests
               PROVE  CallOK(call[r], pc[r], ChainDepth(Previous(r)))
    BY DEF CallsOK
  <2>1. call[r] = NoCall /\ pc[r] = "new" /\ pc[r] \notin InCall
    BY DEF Init, InCall
  <2> QED
    BY <2>1, NoCallOK
<1>2. Init => IScopes
  BY TypedInit, ScopesInit DEF IScopes
<1> QED
  BY <1>1, <1>2, CallsNext, PTL DEF Spec, ICalls

\* Whatever path a call takes, every consumer of its tensors gets them with the
\* inherited preprocessing chain applied exactly once (PreprocessedOnce).
THEOREM PreprocessedOnceInvariance == Spec => []PreprocessedOnce
<1>1. ICalls => PreprocessedOnce
  BY DEF ICalls, CallsOK, CallOK, PreprocessedOnce
<1> QED
  BY <1>1, CallsCorrect, PTL

\* A call that returned has exactly one receipt, and it tells whether the sparse
\* kernel ran (ReceiptTruthful).
THEOREM ReceiptTruthfulInvariance == Spec => []ReceiptTruthful
<1>1. ICalls => ReceiptTruthful
  BY DEF ICalls, CallsOK, CallOK, RanSparse, ReceiptTruthful
<1> QED
  BY <1>1, CallsCorrect, PTL

\* A call under the generic attention measure is never answered, in whole or in
\* part, by code that ignores the measure (WeightedKeepsMeasure).
THEOREM WeightedKeepsMeasureInvariance == Spec => []WeightedKeepsMeasure
<1>1. ICalls => WeightedKeepsMeasure
  BY DEF ICalls, CallsOK, CallOK, WeightedKeepsMeasure
<1> QED
  BY <1>1, CallsCorrect, PTL

\* A failed arithmetic gate is fatal to its call: nothing answers it
\* (GateFailureIsFatal).
THEOREM GateFailureIsFatalInvariance == Spec => []GateFailureIsFatal
<1>1. ICalls => GateFailureIsFatal
  BY DEF ICalls, CallsOK, CallOK, GateFailureIsFatal
<1> QED
  BY <1>1, CallsCorrect, PTL

----
(***************************************************************************)
(* What failed stays failed.                                               *)
(***************************************************************************)
\* What one step does to the failures of a request that goes on.
LEMMA FailuresKept ==
  ASSUME IScopes, NEW r \in Requests,
         \/ Sampling(r) \/ Diffusion(r) \/ Block(r) \/ Sparse(r) \/ Dense(r)
         \/ \E in \in Inputs[r] : Begin(r, in),
         NEW q \in Requests, pc'[q] # "over"
  PROVE  /\ disabled[q] \subseteq disabled'[q]
         /\ kernel[q] = "failed" => kernel'[q] = "failed"
<1>1. /\ kernel \in [Requests -> {"unloaded", "ready", "failed"}]
      /\ disabled \in [Requests -> SUBSET Leaves]
      /\ pc \in [Requests -> Places]
  BY ScopeTypes DEF IScopes, Typed, TypeOK
<1>2. CASE SampleReturns(r) \/ SampleUnwinds(r)
  <2>1. SampleOver(r)
    BY <1>2 DEF SampleReturns, SampleUnwinds
  <2>2. pc'[r] = "over"
    BY <1>1, <2>1 DEF SampleOver, Goto
  <2>3. q # r
    BY <2>2
  <2> QED
    BY <1>1, <2>1, <2>3 DEF SampleOver
<1>3. CASE KernelLoads(r) \/ KernelFails(r)
  BY <1>1, <1>3 DEF KernelLoads, KernelFails, Loadable
<1>4. CASE ProviderUnavailable(r)
  BY <1>1, <1>4 DEF ProviderUnavailable
<1>5. CASE UNCHANGED <<kernel, disabled>>
  BY <1>5
<1>6. CASE SampleEnter(r) \/ SamplerRecovers(r) \/ Diffusion(r) \/ Block(r)
  BY <1>5, <1>6 DEF SampleEnter, SamplerRecovers, Diffusion, ForwardRefused, ForwardEnter, ForwardReturns,
     ForwardUnwinds, Block, BlockEnter, BlockReturns, BlockUnwinds, BlockRecovers, stateVars
<1>7. CASE GatePasses(r) \/ GateFails(r) \/ SparseRuns(r)
  BY <1>5, <1>7 DEF GatePasses, GateFails, SparseRuns, stateVars
<1>8. CASE \/ ProviderReturns(r) \/ ProviderSkipped(r) \/ OriginalReturns(r) \/ WeightedReturns(r)
           \/ NativeReturns(r) \/ ComputeRaises(r)
  BY <1>5, <1>8 DEF ProviderReturns, ProviderSkipped, OriginalReturns, WeightedReturns, NativeReturns,
     ComputeRaises, stateVars
<1>9. CASE \E in \in Inputs[r] : Begin(r, in)
  BY <1>5, <1>9 DEF Begin, CallRefused, CallIneligible, CallWarm, CallWarmReduced, CallWarmWeighted,
     CallSparse, VdnIneligible, VdnWarm, VdnSparse, Start, stateVars
<1> QED
  BY <1>2, <1>3, <1>4, <1>6, <1>7, <1>8, <1>9 DEF Sampling, Sparse, Dense

\* A consumer that a step adds to a call is no demoted provider, and it is the
\* sparse kernel only if that is loaded.
Usable(q, x) == x.leaf \notin disabled[q] /\ (kernel[q] = "failed" => x.op # "sparse")

\* The consumer Consume adds.
LEMMA ConsumeAdds ==
  ASSUME NEW c \in Calls, NEW op
  PROVE  \E x : /\ Consume(c, op).ran = c.ran \cup {x}
                /\ x.op = op
                /\ x.leaf = (IF op = "provider" THEN c.provider.leaf ELSE None)
<1> DEFINE x == Ran(op, IF op = "provider" THEN c.provider.leaf ELSE None,
                    c.pre + (IF op \in {"provider", "original"}
                             THEN ChainDepth(c.provider) ELSE 0), c.reduced)
<1>1. /\ x.op = op
      /\ x.leaf = (IF op = "provider" THEN c.provider.leaf ELSE None)
  BY DEF Ran
<1>2. Consume(c, op) = [c EXCEPT !.ran = c.ran \cup {x}]
  BY DEF Consume, Calls
<1> HIDE DEF x
<1> QED
  BY <1>1, <1>2 DEF Calls

\* What a step of one call adds to its consumers.
LEMMA CallAdds ==
  ASSUME IScopes, NEW r \in Requests, Sparse(r) \/ Dense(r), NEW x \in call'[r].ran \ call[r].ran
  PROVE  Usable(r, x)
<1> DEFINE c == call[r]
<1>1. /\ c \in Calls /\ call \in [Requests -> Calls] /\ Owner(r) = r
      /\ None \notin disabled[r]
  BY MovesInCall, ConstantsAssumption DEF IScopes, Typed, TypeOK, OwnBlock
<1>2. ASSUME NEW op, NEW d, call' = [call EXCEPT ![r] = d], d.ran = Consume(c, op).ran,
             op = "provider" => ProviderUsable(r),
             op = "sparse" => kernel[r] = "ready"
      PROVE  Usable(r, x)
  <2> PICK y : /\ Consume(c, op).ran = c.ran \cup {y}
               /\ y.op = op
               /\ y.leaf = (IF op = "provider" THEN c.provider.leaf ELSE None)
    BY <1>1, ConsumeAdds
  <2>1. x = y
    BY <1>1, <1>2
  <2> QED
    BY <1>1, <1>2, <2>1 DEF Usable, ProviderUsable
<1>3. ASSUME NEW d, call' = [call EXCEPT ![r] = d], d.ran \in {c.ran, {}}
      PROVE  FALSE
  BY <1>1, <1>3
<1>4. CASE UNCHANGED call
  BY <1>4
<1>5. CASE KernelLoads(r) \/ GatePasses(r) \/ ProviderSkipped(r)
  BY <1>4, <1>5 DEF KernelLoads, GatePasses, ProviderSkipped
<1>6. CASE KernelFails(r)
  <2>1. \A route : /\ Recorded(c, route).ran = c.ran
                   /\ [c EXCEPT !.label = route].ran = c.ran
                   /\ Recorded(CallerTensors(r, c), route).ran = c.ran
    BY <1>1 DEF Recorded, CallerTensors, Calls
  <2> QED
    BY <1>3, <1>6, <2>1 DEF KernelFails, AfterUnavailable, UnavailableRoute
<1>7. CASE GateFails(r) \/ ComputeRaises(r)
  <2>1. [c EXCEPT !.gateFailed = TRUE].ran = c.ran /\ NoCall.ran = {}
    BY <1>1 DEF Calls, NoCall
  <2> QED
    BY <1>1, <1>3, <1>7, <2>1 DEF GateFails, AfterGateFailure, ComputeRaises
<1>8. CASE SparseRuns(r)
  <2> PICK op \in {"sparse"} : TRUE
    OBVIOUS
  <2> DEFINE d == Consume(c, op)
  <2>1. d \in Calls /\ kernel[r] = "ready"
    BY <1>1, <1>8, ConsumeType DEF SparseRuns
  <2>2. /\ [d EXCEPT !.stage = "prefix"].ran = d.ran
        /\ Finished(Recorded(d, d.label)).ran = d.ran
    BY <2>1 DEF Calls, Finished, Recorded
  <2>3. \/ call' = [call EXCEPT ![r] = [d EXCEPT !.stage = "prefix"]]
        \/ call' = [call EXCEPT ![r] = Finished(Recorded(d, d.label))]
    BY <1>8 DEF SparseRuns, RecordAndReturn
  <2> QED
    BY <1>2, <2>1, <2>2, <2>3
<1>9. CASE ProviderUnavailable(r)
  <2> PICK op \in {"provider"} : TRUE
    OBVIOUS
  <2>1. call' = [call EXCEPT ![r] = Consume(c, op)] /\ ProviderUsable(r)
    BY <1>1, <1>9 DEF ProviderUnavailable
  <2> QED
    BY <1>2, <2>1
<1>10. CASE ProviderReturns(r) \/ OriginalReturns(r) \/ WeightedReturns(r) \/ NativeReturns(r)
  <2> PICK op \in {"provider", "original", "weighted", "native"} :
        /\ op = "provider" => ProviderUsable(r)
        /\ Answer(r, Consume(c, op)) \/ RecordAndReturn(r, Consume(c, op))
    BY <1>10 DEF ProviderReturns, OriginalReturns, WeightedReturns, NativeReturns
  <2> DEFINE d == Consume(c, op)
  <2>1. d \in Calls
    BY <1>1, ConsumeType
  <2>2. Finished(d).ran = d.ran /\ Finished(Recorded(d, d.label)).ran = d.ran
    BY <2>1 DEF Calls, Finished, Recorded
  <2>3. \/ call' = [call EXCEPT ![r] = Finished(d)]
        \/ call' = [call EXCEPT ![r] = Finished(Recorded(d, d.label))]
    BY DEF Answer, RecordAndReturn
  <2> QED
    BY <1>2, <2>2, <2>3
<1> QED
  BY <1>5, <1>6, <1>7, <1>8, <1>9, <1>10 DEF Sparse, Dense

\* No other step adds a consumer to a call.
LEMMA NothingAdds ==
  ASSUME IScopes, NEW r \in Requests, NEW q \in Requests,
         \/ Sampling(r) \/ Diffusion(r) \/ Block(r)
         \/ (Sparse(r) \/ Dense(r)) /\ q # r
         \/ \E in \in Inputs[r] : Begin(r, in)
  PROVE  call'[q].ran \subseteq call[q].ran
<1>1. call \in [Requests -> Calls] /\ NoCall.ran = {}
  BY DEF IScopes, Typed, TypeOK, NoCall
<1>2. ASSUME NEW c, call' = [call EXCEPT ![r] = c], q # r \/ c.ran = {}
      PROVE  call'[q].ran \subseteq call[q].ran
  BY <1>1, <1>2
<1>3. CASE UNCHANGED call
  BY <1>3
<1>4. CASE Sampling(r) \/ Diffusion(r)
  BY <1>3, <1>4 DEF Sampling, Diffusion, SampleEnter, SampleReturns, SampleUnwinds, SamplerRecovers,
     SampleOver, ForwardRefused, ForwardEnter, ForwardReturns, ForwardUnwinds
<1>5. CASE Block(r)
  BY <1>1, <1>2, <1>3, <1>5 DEF Block, BlockEnter, BlockReturns, BlockUnwinds, BlockRecovers, LeaveBlock
<1>6. CASE (Sparse(r) \/ Dense(r)) /\ q # r
  <2>1. UNCHANGED call \/ \E c : call' = [call EXCEPT ![r] = c]
    BY <1>6 DEF Sparse, KernelLoads, KernelFails, AfterUnavailable, GatePasses, GateFails, AfterGateFailure,
       SparseRuns, Dense, ProviderReturns, ProviderUnavailable, ProviderSkipped, OriginalReturns,
       WeightedReturns, NativeReturns, ComputeRaises, Answer, RecordAndReturn
  <2> QED
    BY <1>2, <1>3, <1>6, <2>1
<1>7. ASSUME NEW in \in Inputs[r], Begin(r, in)
      PROVE  call'[q].ran \subseteq call[q].ran
  <2>1. in \in CallInputs /\ Previous(r) \in Providers
    BY <1>7, MovesInCall, ConstantsAssumption DEF IScopes, Typed, TypeOK, Owned, Previous, Forwards
  <2> DEFINE n == NewCall(r, in)
  <2>2. n \in Calls /\ n.ran = {} /\ n.pre = 0
    BY <2>1, NewCallType, NewCallFields
  <2>3. Preprocessed(n) \in Calls /\ Reduced(Preprocessed(n)) \in Calls
    BY <2>2, PreprocessedType, ReducedType
  <2>4. Preprocessed(n).ran = {} /\ Reduced(Preprocessed(n)).ran = {}
    BY <2>2, <2>3, PreprocessedFields, ReducedFields
  <2>5. ASSUME NEW c \in Calls, c.ran = {}, NEW route
        PROVE  /\ Recorded(c, route).ran = {}
               /\ [c EXCEPT !.label = route].ran = {}
               /\ [c EXCEPT !.prefix = FALSE, !.label = route].ran = {}
    BY <2>5 DEF Calls, Recorded
  <2>6. \E c : call' = [call EXCEPT ![r] = c] /\ c.ran = {}
    <3> HIDE DEF n
    <3>1. CASE CallRefused(r, in)
      BY <1>1, <3>1 DEF CallRefused
    <3>2. CASE CallIneligible(r, in) \/ CallWarm(r, in) \/ VdnIneligible(r, in) \/ VdnWarm(r, in) \/ VdnSparse(r, in)
      BY <2>2, <2>5, <3>2 DEF CallIneligible, CallWarm, VdnIneligible, VdnWarm, VdnSparse, Start, n
    <3>3. CASE CallWarmReduced(r, in) \/ CallWarmWeighted(r, in) \/ CallSparse(r, in)
      BY <2>3, <2>4, <2>5, <3>3 DEF CallWarmReduced, CallWarmWeighted, CallSparse, Start, n
    <3> QED
      BY <1>7, <3>1, <3>2, <3>3 DEF Begin
  <2> QED
    BY <1>2, <2>6
<1> QED
  BY <1>4, <1>5, <1>6, <1>7

\* What failed for a request is not tried again by it (FailuresStay): neither a
\* demoted provider nor a kernel that did not load, in any forward or call.
THEOREM FailuresStayTheorem == Spec => FailuresStay
<1> DEFINE Stay ==
      \A r \in Requests :
        /\ pc'[r] # "over" =>
             /\ disabled[r] \subseteq disabled'[r]
             /\ kernel[r] = "failed" => kernel'[r] = "failed"
        /\ \A x \in call'[r].ran \ call[r].ran :
             x.leaf \notin disabled[r] /\ (kernel[r] = "failed" => x.op # "sparse")
<1>1. IScopes /\ [Next]_vars => [Stay]_vars
  <2> SUFFICES ASSUME IScopes, NEW r \in Requests,
                      \/ Sampling(r) \/ Diffusion(r) \/ Block(r) \/ Sparse(r) \/ Dense(r)
                      \/ \E in \in Inputs[r] : Begin(r, in)
               PROVE  Stay
    BY DEF Next
  <2>1. ASSUME NEW q \in Requests, NEW x \in call'[q].ran \ call[q].ran
        PROVE  Usable(q, x)
    BY <2>1, NothingAdds, CallAdds
  <2> QED
    BY <2>1, FailuresKept DEF Usable
<1> QED
  BY <1>1, ScopeCorrect, PTL DEF Spec, FailuresStay
-----------------------------------------------------------------------------
(***************************************************************************)
(* The warmup theorem: no receipt of an open forward names a sparse route  *)
(* unless the warmup, in blocks and in actual evaluations, is over.        *)
(***************************************************************************)
\* A forward with an open block has seen a block.
BlocksSeen == \A r \in Requests : pc[r] \in InBlock => fwd[r].seen # {}

\* A call bound for a sparse receipt is past the warmup.
CallsLate ==
  \A r \in Requests : pc[r] \in InCall /\ call[r].label \in SparseRoutes => ~Warm(r)

\* There are no receipts outside a forward.
RoutesClosed == \A r \in Requests : pc[r] \notin InForward => fwd[r].routes = <<>>

WarmParts == BlocksSeen /\ CallsLate /\ RoutesClosed /\ SparseOnlyPastWarmup

\* The inductive invariant.
IWarm == IScopes /\ EvaluationCharged /\ WarmParts

\* What a receipt in slot x of r's forward may say.
Allowed(r, x) ==
  x[2] \in SparseRoutes =>
    x[1] >= DenseLayers /\ (evaluations[r] > DenseEvaluations \/ (DenseEvaluations = 1 /\ fwd[r].high))

\* Being past the warmup in a block means that the evaluations charged so far
\* exceed the dense ones, because the open forward has been charged.
LEMMA PastWarmup ==
  ASSUME IWarm, NEW r \in Requests, pc[r] \in InBlock, ~Warm(r), NEW route
  PROVE  Allowed(r, <<blk[r].index, route>>)
<1>1. Owner(r) = r /\ pc[r] \in InForward
  BY DEF IWarm, IScopes, OwnBlock, InBlock, InForward
<1>2. /\ fwd[r].evaluation \in Nat /\ blk[r].index \in Nat
      /\ DenseEvaluations \in Nat /\ DenseLayers \in Nat
  <2>1. fwd[r] \in Forwards /\ blk[r] \in BlockCalls
    BY DEF IWarm, IScopes, Typed, TypeOK
  <2> QED
    BY <2>1, ConstantsAssumption DEF Forwards, BlockCalls, Blocks
<1>3. evaluations[r] = fwd[r].evaluation + 1
  BY <1>1 DEF IWarm, WarmParts, BlocksSeen, EvaluationCharged
<1>4. /\ ~EvaluationWarmup(fwd[r].evaluation, fwd[r].high)
      /\ blk[r].index >= DenseLayers
  BY <1>1, <1>2 DEF Warm
<1>5. evaluations[r] > DenseEvaluations \/ (DenseEvaluations = 1 /\ fwd[r].high)
  BY <1>2, <1>3, <1>4 DEF EvaluationWarmup
<1> QED
  BY <1>4, <1>5 DEF Allowed

\* A receipt adds one entry to the routes of one forward.
LEMMA RecordRoutes ==
  ASSUME Typed, NEW r \in Requests, Owner(r) = r, NEW route, Record(r, route)
  PROVE  /\ \A q \in Requests :
              /\ fwd'[q].evaluation = fwd[q].evaluation /\ fwd'[q].high = fwd[q].high
              /\ fwd'[q].seen = fwd[q].seen
              /\ q # r => fwd'[q].routes = fwd[q].routes
         /\ fwd'[r].routes = Append(fwd[r].routes, <<blk[r].index, route>>)
<1>1. fwd \in [Requests -> Forwards]
  BY DEF Typed, TypeOK
<1> QED
  BY <1>1 DEF Record, WithRecord, Forwards

\* A step in a block that charges nothing, gives at most one receipt, sparse
\* only past the warmup, and binds a call for a sparse receipt only there.
LEMMA WarmStep ==
  ASSUME IWarm, NEW r \in Requests, pc[r] \in InBlock, UNCHANGED evaluations,
         UNCHANGED pc \/ \E place \in {"forward"} \cup InBlock : Goto(r, place),
         \A q \in Requests : q # r => call'[q] = call[q],
         \A q \in Requests : pc'[q] \in InBlock => blk'[q] = blk[q],
         UNCHANGED fwd \/ \E route : Record(r, route) /\ (route \in SparseRoutes => ~Warm(r)),
         pc'[r] \in InCall /\ call'[r].label \in SparseRoutes => ~Warm(r)
  PROVE  WarmParts'
<1>1. /\ pc \in [Requests -> Places] /\ fwd \in [Requests -> Forwards]
      /\ pc[r] \in InForward /\ Owner(r) = r
  BY ScopeTypes DEF IWarm, IScopes, Typed, TypeOK, OwnBlock, InBlock, InForward
<1>2. /\ \A q \in Requests : q # r => pc'[q] = pc[q]
      /\ pc'[r] \in InForward
  BY <1>1 DEF Goto, InBlock, InForward
<1>3. /\ \A q \in Requests :
           /\ fwd'[q].evaluation = fwd[q].evaluation /\ fwd'[q].high = fwd[q].high
           /\ fwd'[q].seen = fwd[q].seen
           /\ q # r => fwd'[q].routes = fwd[q].routes
      /\ \/ fwd'[r].routes = fwd[r].routes
         \/ \E route : /\ fwd'[r].routes = Append(fwd[r].routes, <<blk[r].index, route>>)
                       /\ route \in SparseRoutes => ~Warm(r)
  BY <1>1, RecordRoutes DEF IWarm, IScopes
<1>4. \A q \in Requests : pc[q] \in InBlock /\ pc'[q] \in InBlock => Warm(q)' = Warm(q)
  <2> SUFFICES ASSUME NEW q \in Requests, pc[q] \in InBlock, pc'[q] \in InBlock
               PROVE  Warm(q)' = Warm(q)
    OBVIOUS
  <2>1. Owner(q) = q /\ blk'[q] = blk[q] /\ Owner(q)' = q
    BY DEF IWarm, IScopes, OwnBlock, Owner
  <2> QED
    BY <1>3, <2>1 DEF Warm, EvaluationWarmup
<1>5. BlocksSeen'
  BY <1>2, <1>3 DEF IWarm, WarmParts, BlocksSeen
<1>6. CallsLate'
  <2> SUFFICES ASSUME NEW q \in Requests, pc'[q] \in InCall, call'[q].label \in SparseRoutes
               PROVE  ~Warm(q)'
    BY DEF CallsLate
  <2>1. pc'[q] \in InBlock /\ pc[q] \in InBlock
    BY <1>2 DEF InBlock
  <2>2. ~Warm(q)
    BY <1>2 DEF IWarm, WarmParts, CallsLate
  <2> QED
    BY <1>4, <2>1, <2>2
<1>7. RoutesClosed'
  BY <1>1, <1>2, <1>3 DEF IWarm, WarmParts, RoutesClosed
<1>8. \A q \in Requests : \A k \in DOMAIN fwd[q].routes : Allowed(q, fwd[q].routes[k])
  BY DEF IWarm, WarmParts, SparseOnlyPastWarmup, Allowed
<1>9. \A k \in DOMAIN fwd'[r].routes : Allowed(r, fwd'[r].routes[k])
  <2>1. CASE fwd'[r].routes = fwd[r].routes
    BY <1>8, <2>1
  <2>2. ASSUME NEW route, route \in SparseRoutes => ~Warm(r),
               fwd'[r].routes = Append(fwd[r].routes, <<blk[r].index, route>>)
        PROVE  \A k \in DOMAIN fwd'[r].routes : Allowed(r, fwd'[r].routes[k])
    <3> DEFINE s == fwd[r].routes
               x == <<blk[r].index, route>>
    <3>1. s \in Seq(Blocks \X Routes)
      BY <1>1 DEF Forwards
    <3>2. Allowed(r, x)
      <4>1. CASE route \in SparseRoutes
        BY <2>2, <4>1, PastWarmup
      <4>2. CASE route \notin SparseRoutes
        BY <4>2 DEF Allowed
      <4> QED
        BY <4>1, <4>2
    <3>3. \A k \in DOMAIN s : Allowed(r, s[k])
      BY <1>8
    <3> HIDE DEF s, x
    <3>4. \A k \in DOMAIN Append(s, x) : (k \in DOMAIN s /\ Append(s, x)[k] = s[k]) \/ Append(s, x)[k] = x
      BY <3>1
    <3> QED
      BY <2>2, <3>2, <3>3, <3>4 DEF s, x
  <2> QED
    BY <1>3, <2>1, <2>2
<1>10. SparseOnlyPastWarmup'
  <2>1. ASSUME NEW q \in Requests, NEW k \in DOMAIN fwd'[q].routes
        PROVE  Allowed(q, fwd'[q].routes[k])
    BY <1>3, <1>8, <1>9
  <2>2. \A q \in Requests : evaluations'[q] = evaluations[q] /\ fwd'[q].high = fwd[q].high
    BY <1>3
  <2> QED
    BY <2>1, <2>2 DEF SparseOnlyPastWarmup, Allowed
<1> QED
  BY <1>5, <1>6, <1>7, <1>10 DEF WarmParts

\* The steps of the wrappers keep the receipts right: receipts exist in open
\* forwards only, and the charge goes with the request.
LEMMA WarmScopes ==
  ASSUME IWarm, NEW r \in Requests, Sampling(r) \/ Diffusion(r)
  PROVE  WarmParts'
<1> USE DEF WarmParts
<1>1. /\ pc \in [Requests -> Places] /\ fwd \in [Requests -> Forwards]
      /\ evaluations \in [Requests -> Nat]
  BY ScopeTypes DEF IWarm, IScopes, Typed, TypeOK
<1>2. /\ UNCHANGED <<call, blk>>
      /\ pc[r] \in {"new", "sampling", "forward"}
      /\ UNCHANGED pc \/ \E place \in {"sampling", "over", "forward"} : Goto(r, place)
      /\ \A q \in Requests : q # r => fwd'[q] = fwd[q] /\ evaluations'[q] = evaluations[q]
  BY <1>1 DEF Sampling, Diffusion, SampleEnter, SampleReturns, SampleUnwinds, SamplerRecovers, SampleOver,
     ForwardRefused, ForwardEnter, ForwardReturns, ForwardUnwinds, LeaveForward, At, stateVars
<1>3. /\ pc'[r] \notin InBlock
      /\ \A q \in Requests : q # r => pc'[q] = pc[q]
  BY <1>1, <1>2 DEF InBlock, InCall, Goto
<1>4. \/ fwd'[r].routes = <<>>
      \/ UNCHANGED <<fwd, evaluations>> /\ (pc'[r] \in InForward \/ pc[r] \notin InForward)
  <2>1. CASE SampleReturns(r) \/ SampleUnwinds(r)
    <3>1. pc[r] = "sampling" /\ UNCHANGED fwd
      BY <2>1 DEF SampleReturns, SampleUnwinds, SampleOver, At
    <3> QED
      BY <3>1, OpenPlaces DEF IWarm, RoutesClosed
  <2>2. CASE SampleEnter(r) \/ SamplerRecovers(r) \/ ForwardRefused(r)
    <3>1. pc[r] \in {"new", "sampling"} /\ UNCHANGED <<fwd, evaluations>>
      BY <2>2 DEF SampleEnter, SamplerRecovers, ForwardRefused, At, stateVars
    <3> QED
      BY <3>1, OpenPlaces
  <2>3. CASE ForwardEnter(r) \/ ForwardReturns(r) \/ ForwardUnwinds(r)
    BY <1>1, <2>3 DEF ForwardEnter, ForwardReturns, ForwardUnwinds, LeaveForward, NoForward
  <2> QED
    BY <2>1, <2>2, <2>3 DEF Sampling, Diffusion
<1>5. BlocksSeen'
  BY <1>2, <1>3 DEF IWarm, BlocksSeen
<1>6. CallsLate'
  <2> SUFFICES ASSUME NEW q \in Requests, pc'[q] \in InCall, call'[q].label \in SparseRoutes
               PROVE  ~Warm(q)'
    BY DEF CallsLate
  <2>1. q # r /\ pc[q] \in InCall /\ ~Warm(q)
    BY <1>2, <1>3 DEF IWarm, CallsLate, InBlock
  <2>2. Owner(q) = q /\ Owner(q)' = q /\ fwd'[q] = fwd[q] /\ blk'[q] = blk[q]
    BY <1>2, <2>1 DEF IWarm, IScopes, OwnBlock, InBlock, Owner
  <2> QED
    BY <2>1, <2>2 DEF Warm, EvaluationWarmup
<1>7. RoutesClosed'
  BY <1>2, <1>3, <1>4 DEF IWarm, RoutesClosed
<1>8. SparseOnlyPastWarmup'
  BY <1>2, <1>4 DEF IWarm, SparseOnlyPastWarmup
<1> QED
  BY <1>5, <1>6, <1>7, <1>8

\* Entering a block charges the forward at most once more and gives no receipt.
LEMMA WarmEnter ==
  ASSUME IWarm, NEW r \in Requests, BlockEnter(r)
  PROVE  WarmParts'
<1> USE DEF WarmParts
<1>1. /\ pc \in [Requests -> Places] /\ fwd \in [Requests -> Forwards]
      /\ blk \in [Requests -> BlockCalls] /\ evaluations \in [Requests -> Nat]
  BY ScopeTypes DEF IWarm, IScopes, Typed, TypeOK
<1>2. request = r /\ forward = r /\ pc[r] \in InForward
  BY CurrentScope, OpenPlaces DEF IWarm, BlockEnter, At, Open
<1>3. PICK i \in Blocks : fwd' = [fwd EXCEPT ![r].seen = @ \cup {i}]
  BY <1>2 DEF BlockEnter
<1>4. /\ \A q \in Requests : q # r => pc'[q] = pc[q] /\ fwd'[q] = fwd[q] /\ blk'[q] = blk[q]
                                   /\ evaluations'[q] = evaluations[q]
      /\ UNCHANGED call /\ pc'[r] = "block"
  BY <1>1, <1>2, <1>3 DEF BlockEnter, Goto
<1>5. /\ fwd'[r].routes = fwd[r].routes /\ fwd'[r].high = fwd[r].high /\ fwd'[r].seen # {}
      /\ evaluations'[r] >= evaluations[r]
  BY <1>1, <1>2, <1>3 DEF BlockEnter, Forwards
<1>6. BlocksSeen'
  BY <1>4, <1>5 DEF IWarm, BlocksSeen
<1>7. CallsLate'
  <2> SUFFICES ASSUME NEW q \in Requests, pc'[q] \in InCall, call'[q].label \in SparseRoutes
               PROVE  ~Warm(q)'
    BY DEF CallsLate
  <2>1. q # r /\ pc[q] \in InCall /\ ~Warm(q)
    BY <1>4 DEF IWarm, CallsLate, InCall
  <2>2. Owner(q) = q /\ Owner(q)' = q /\ fwd'[q] = fwd[q] /\ blk'[q] = blk[q]
    BY <1>4, <2>1 DEF IWarm, IScopes, OwnBlock, InBlock, Owner
  <2> QED
    BY <2>1, <2>2 DEF Warm, EvaluationWarmup
<1>8. RoutesClosed'
  BY <1>4, OpenPlaces DEF IWarm, RoutesClosed, InForward
<1>9. SparseOnlyPastWarmup'
  <2>1. DenseEvaluations \in Nat /\ evaluations[r] \in Nat /\ evaluations'[r] \in Nat
    BY <1>1, <1>2, ConstantsAssumption DEF BlockEnter
  <2> QED
    BY <1>4, <1>5, <2>1 DEF IWarm, SparseOnlyPastWarmup
<1> QED
  BY <1>6, <1>7, <1>8, <1>9

\* Leaving a block, or recovering in it, gives no sparse receipt.
LEMMA WarmLeave ==
  ASSUME IWarm, NEW r \in Requests, BlockReturns(r) \/ BlockUnwinds(r) \/ BlockRecovers(r)
  PROVE  WarmParts'
<1>1. /\ pc \in [Requests -> Places] /\ blk \in [Requests -> BlockCalls]
      /\ call \in [Requests -> Calls]
  BY ScopeTypes DEF IWarm, IScopes, Typed, TypeOK
<1>2. /\ pc[r] = "block" /\ UNCHANGED evaluations
      /\ UNCHANGED <<pc, blk, call>> \/ LeaveBlock(r)
      /\ UNCHANGED fwd \/ Record(r, "inherited_owner")
  BY DEF BlockReturns, BlockUnwinds, BlockRecovers, At, stateVars
<1>3. /\ UNCHANGED pc \/ Goto(r, "forward")
      /\ \A q \in Requests : q # r => call'[q] = call[q] /\ blk'[q] = blk[q]
      /\ pc'[r] \notin InCall
      /\ pc'[r] \in InBlock => blk'[r] = blk[r]
  BY <1>1, <1>2 DEF LeaveBlock, Goto, InBlock, InCall
<1>4. "inherited_owner" \notin SparseRoutes
  BY DEF SparseRoutes
<1> QED
  BY <1>2, <1>3, <1>4, WarmStep DEF InBlock

\* A call is bound for a sparse receipt only past the warmup.
LEMMA WarmBegin ==
  ASSUME IWarm, NEW r \in Requests, NEW in \in Inputs[r], Begin(r, in)
  PROVE  WarmParts'
<1>1. /\ pc \in [Requests -> Places] /\ call \in [Requests -> Calls]
      /\ in \in CallInputs /\ pc[r] \in InBlock /\ Previous(r) \in Providers
  BY ScopeTypes, MovesInCall, ConstantsAssumption
  DEF IWarm, IScopes, Typed, TypeOK, Owned, Previous, Forwards
<1>2. UNCHANGED fwd \/ \E route : Record(r, route) /\ route \notin SparseRoutes
  BY RouteKinds DEF Begin, CallRefused, CallIneligible, CallWarm, CallWarmReduced, CallWarmWeighted,
     CallSparse, VdnIneligible, VdnWarm, VdnSparse
<1>3. \E c : call' = [call EXCEPT ![r] = c]
  BY DEF Begin, CallRefused, CallIneligible, CallWarm, CallWarmReduced, CallWarmWeighted,
     CallSparse, VdnIneligible, VdnWarm, VdnSparse, Start
<1>4. /\ \A q \in Requests : q # r => call'[q] = call[q]
      /\ \A q \in Requests : blk'[q] = blk[q]
      /\ UNCHANGED pc \/ \E place \in {"forward"} \cup InBlock : Goto(r, place)
      /\ UNCHANGED evaluations
  BY <1>1, <1>3, MovesInCall
<1>5. pc'[r] \in InCall /\ call'[r].label \in SparseRoutes => ~Warm(r)
  <2>1. CASE CallSparse(r, in) \/ VdnSparse(r, in)
    BY <2>1 DEF CallSparse, VdnSparse
  <2>2. CASE CallRefused(r, in)
    BY <1>1, <2>2 DEF CallRefused, Raise, Goto, InCall
  <2>3. ASSUME NEW c \in Calls, NEW route \in DenseRoutes, call' = [call EXCEPT ![r] = Recorded(c, route)]
        PROVE  call'[r].label \notin SparseRoutes
    BY <1>1, <2>3, RecordedFields DEF DenseRoutes, SparseRoutes
  <2>4. NewCall(r, in) \in Calls /\ NewCall(r, in).pre = 0
    BY <1>1, NewCallType, NewCallFields
  <2>5. /\ Preprocessed(NewCall(r, in)) \in Calls
        /\ Reduced(Preprocessed(NewCall(r, in))) \in Calls
    BY <2>4, PreprocessedType, ReducedType
  <2>6. CASE CallIneligible(r, in) \/ CallWarm(r, in) \/ VdnIneligible(r, in) \/ VdnWarm(r, in)
    BY <2>3, <2>4, <2>6 DEF CallIneligible, CallWarm, VdnIneligible, VdnWarm, Start, DenseRoutes
  <2>7. CASE CallWarmReduced(r, in)
    BY <2>3, <2>5, <2>7 DEF CallWarmReduced, Start, DenseRoutes
  <2>8. CASE CallWarmWeighted(r, in)
    <3> DEFINE d == Preprocessed(NewCall(r, in))
    <3>1. call'[r] = [d EXCEPT !.label = "dense_warmup"]
      BY <1>1, <2>8 DEF CallWarmWeighted, Start
    <3> HIDE DEF d
    <3>2. call'[r].label = "dense_warmup"
      BY <2>5, <3>1, LabelledFields DEF d
    <3> QED
      BY <3>2 DEF SparseRoutes
  <2> QED
    BY <2>1, <2>2, <2>6, <2>7, <2>8 DEF Begin
<1> QED
  BY <1>1, <1>2, <1>4, <1>5, WarmStep

\* A call in progress gives a receipt after its result with the label it has,
\* or that the kernel is unavailable.
LEMMA WarmCall ==
  ASSUME IWarm, NEW r \in Requests, Sparse(r) \/ Dense(r)
  PROVE  WarmParts'
<1> DEFINE c == call[r]
<1>1. /\ pc \in [Requests -> Places] /\ call \in [Requests -> Calls]
      /\ pc[r] \in InCall /\ UNCHANGED <<blk, evaluations>>
      /\ UNCHANGED pc \/ \E place \in InBlock : Goto(r, place)
  <2>1. pc[r] \in InCall
    BY DEF Sparse, KernelLoads, KernelFails, GatePasses, GateFails, SparseRuns, Dense, ProviderReturns,
       ProviderUnavailable, ProviderSkipped, OriginalReturns, WeightedReturns, NativeReturns,
       ComputeRaises, At, InCall
  <2> QED
    BY <2>1, MovesInCall, ScopeTypes DEF IWarm, IScopes, Typed, TypeOK
<1>2. c \in Calls /\ (c.label \in SparseRoutes => ~Warm(r))
  BY <1>1 DEF IWarm, WarmParts, CallsLate
<1>3. \A op : /\ Consume(c, op).label = c.label
              /\ op \in {"sparse", "provider", "original", "weighted", "native"} =>
                   Consume(c, op) \in Calls
  BY <1>2, ConsumeFields, ConsumeType
<1>4. /\ UNCHANGED fwd \/ \E route \in {c.label, "kernel_unavailable"} : Record(r, route)
      /\ \/ UNCHANGED call
         \/ \E d : /\ call' = [call EXCEPT ![r] = d]
                   /\ Goto(r, "block") \/ d.label \in {c.label, "kernel_unavailable"}
  <2>1. CASE KernelLoads(r) \/ GatePasses(r) \/ ProviderSkipped(r)
    BY <2>1 DEF KernelLoads, GatePasses, ProviderSkipped
  <2>2. CASE KernelFails(r)
    <3>1. \A route : /\ Recorded(c, route).label = route
                     /\ [c EXCEPT !.label = route].label = route
      BY <1>2, RecordedFields, LabelledFields
    <3>2. \A route : Recorded(CallerTensors(r, c), route).label = route
      BY <1>2 DEF Recorded, CallerTensors, Calls
    <3> QED
      BY <2>2, <3>1, <3>2 DEF KernelFails, AfterUnavailable, UnavailableRoute
  <2>3. CASE GateFails(r) \/ ComputeRaises(r)
    BY <2>3 DEF GateFails, AfterGateFailure, ComputeRaises, Raise
  <2>4. CASE SparseRuns(r)
    <3> DEFINE d == Consume(c, "sparse")
    <3>1. d \in Calls /\ d.label = c.label
      BY <1>3
    <3>2. [d EXCEPT !.stage = "prefix"].label = d.label
      BY <3>1 DEF Calls
    <3> HIDE DEF d
    <3> QED
      BY <2>4, <3>1, <3>2 DEF SparseRuns, RecordAndReturn, d
  <2>5. CASE ProviderUnavailable(r)
    <3>1. call' = [call EXCEPT ![r] = Consume(c, "provider")] /\ UNCHANGED fwd
      BY <1>1, <2>5 DEF ProviderUnavailable
    <3> QED
      BY <1>3, <3>1
  <2>6. CASE ProviderReturns(r) \/ OriginalReturns(r) \/ WeightedReturns(r) \/ NativeReturns(r)
    BY <1>3, <2>6 DEF ProviderReturns, OriginalReturns, WeightedReturns, NativeReturns, Answer,
       RecordAndReturn
  <2> QED
    BY <2>1, <2>2, <2>3, <2>4, <2>5, <2>6 DEF Sparse, Dense
<1>5. "kernel_unavailable" \notin SparseRoutes /\ "block" \notin InCall
  BY RouteKinds DEF InCall
<1>6. /\ \A q \in Requests : q # r => call'[q] = call[q]
      /\ pc'[r] \in InCall /\ call'[r].label \in SparseRoutes => ~Warm(r)
  BY <1>1, <1>2, <1>4, <1>5 DEF Goto
<1>7. UNCHANGED fwd \/ \E route : Record(r, route) /\ (route \in SparseRoutes => ~Warm(r))
  BY <1>2, <1>4, <1>5
<1> QED
  BY <1>1, <1>6, <1>7, WarmStep DEF InBlock

\* Every step keeps the invariant.
LEMMA WarmNext == IWarm /\ [Next]_vars => IWarm'
<1> SUFFICES ASSUME IWarm, [Next]_vars PROVE IWarm'
  OBVIOUS
<1>1. IScopes' /\ EvaluationCharged'
  BY ScopesNext, ChargedNext DEF IWarm
<1>2. CASE Next
  <2> PICK r \in Requests :
        \/ Sampling(r) \/ Diffusion(r) \/ Block(r) \/ Sparse(r) \/ Dense(r)
        \/ \E in \in Inputs[r] : Begin(r, in)
    BY <1>2 DEF Next
  <2> QED
    BY <1>1, WarmScopes, WarmEnter, WarmLeave, WarmCall, WarmBegin DEF IWarm, Block
<1>3. CASE UNCHANGED vars
  <2>1. \A r \in Requests : Warm(r)' = Warm(r)
    BY <1>3 DEF vars, Warm, EvaluationWarmup, Owner
  <2> QED
    BY <1>1, <1>3, <2>1 DEF vars, stateVars, IWarm, WarmParts, BlocksSeen, CallsLate, RoutesClosed,
                            SparseOnlyPastWarmup
<1> QED
  BY <1>2, <1>3

\* The first dense_evaluations actual evaluations and the first dense_layers
\* blocks of every evaluation get no sparse receipt (SparseOnlyPastWarmup),
\* whatever fails, recovers or is nested in between.
THEOREM SparseOnlyPastWarmupInvariance == Spec => []SparseOnlyPastWarmup
<1>1. Init => IWarm
  <2>1. Init => IScopes
    BY TypedInit, ScopesInit DEF IScopes
  <2>2. Init => EvaluationCharged
    BY DEF Init, EvaluationCharged, InForward, InCall
  <2>3. Init => WarmParts
    BY DEF Init, WarmParts, BlocksSeen, CallsLate, RoutesClosed, SparseOnlyPastWarmup, NoForward,
       InBlock, InCall
  <2> QED
    BY <2>1, <2>2, <2>3 DEF IWarm
<1>2. IWarm => SparseOnlyPastWarmup
  BY DEF IWarm, WarmParts
<1> QED
  BY <1>1, <1>2, WarmNext, PTL DEF Spec
=============================================================================
