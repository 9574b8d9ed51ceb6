-------------------------- MODULE SolHistoryProofs --------------------------
(***************************************************************************)
(* Theorems about SolHistory, for any number of blocks, any warmup, any    *)
(* inherited providers and any situations: a forecast stands for what the  *)
(* skipped forward would have computed, and a completion proof for its own *)
(* evaluation.                                                             *)
(***************************************************************************)
EXTENDS SolHistory, SequenceTheorems, TLAPS

(***************************************************************************)
(* What an identity says: whether the evaluation is dense, the             *)
(* replacements, the provider, and whether it was demoted already.         *)
(***************************************************************************)
Identity(dense, chain, provider, demoted) ==
  <<IF dense THEN "dense" ELSE "sol", chain,
    IF demoted THEN <<provider, "unavailable_fallback">> ELSE <<provider>>>>

\* The way block k of such an evaluation is computed, and by whom.
Way(dense, chain, k) ==
  IF chain = "partitioned" THEN IF dense THEN "partitioned_dense" ELSE "partitioned_sol"
  ELSE IF dense \/ k - 1 < DenseLayers THEN "dense" ELSE "sparse"
By(chain, provider, demoted) ==
  IF chain = "partitioned" THEN "torch"
  ELSE IF demoted \/ provider = None THEN "original" ELSE provider

\* The provider was demoted after the identity was asked for.
Lost(provider, demoted) == ~demoted /\ provider \in disabled

\* Block k was computed as the identity says, up to a demotion since.
Fits(how, k, dense, chain, provider, demoted) ==
  /\ how[1] = Way(dense, chain, k)
  /\ how[2] = By(chain, provider, demoted) \/ Lost(provider, demoted)

\* What was computed sparsely was computed by a kernel that stays loaded.
KernelStays(ran) == \A k \in 1..Len(ran) : ran[k][1] = "sparse" => loading = "ready"

(***************************************************************************)
(* The inductive invariant.                                                *)
(***************************************************************************)
Chains == {"declared", "partitioned"}

\* Between preflight and forecast no block has run, and the identity is that
\* of the situation now.
AskedNow ==
  fw.place = "asked" => Len(fw.ran) = 0 /\ fw.identity = HistoryIdentity(fw.situation)

\* An evaluation is charged once its first block has ended.
Charged ==
  fw.place = "running" => evaluations = fw.evaluation + (IF Len(fw.ran) = 0 THEN 0 ELSE 1)

\* The identity of the forward in progress, and the blocks it has ended whose
\* receipts could be accepted, tell the same story.
ForwardFits ==
  fw.place = "running" =>
    /\ KernelStays(fw.ran)
    /\ fw.situation.chain = "opaque" => fw.identity = None
    /\ fw.situation.chain # "opaque" =>
         LET dense == Warmup(fw.evaluation, fw.situation)
             chain == fw.situation.chain
             provider == fw.situation.provider
         IN \E demoted \in BOOLEAN :
              /\ fw.identity = Identity(dense, chain, provider, demoted)
              /\ demoted => provider \in disabled
              /\ \A k \in 1..Len(fw.ran) :
                   fw.receipts[k][2] \in Plain \cup PartitionedRoutes =>
                     Fits(fw.ran[k], k, dense, chain, provider, demoted)

\* So do those of the anchor.
AnchorFits ==
  anchor # None =>
    /\ Len(anchor.ran) = NBlocks
    /\ KernelStays(anchor.ran)
    /\ \E dense \in BOOLEAN, chain \in Chains, provider \in Providers \cup {None},
          demoted \in BOOLEAN :
         /\ anchor.identity = Identity(dense, chain, provider, demoted)
         /\ \A k \in 1..NBlocks : Fits(anchor.ran[k], k, dense, chain, provider, demoted)

\* Proofs are of charged evaluations.
ProofsPast == owned.proofs # {} => owned.evaluation \in 0..(evaluations - 1)

IInv ==
  /\ ForecastTypeOK /\ AskedNow /\ Charged /\ ForwardFits /\ AnchorFits
  /\ ProofsPast /\ ProofsScoped /\ ForecastSound
-----------------------------------------------------------------------------
(***************************************************************************)
(* Lemmas about identities and about one block.                            *)
(***************************************************************************)
\* An identity says all it is made of.
LEMMA IdentityInjective ==
  ASSUME NEW d1 \in BOOLEAN, NEW d2 \in BOOLEAN, NEW c1, NEW c2, NEW p1, NEW p2,
         NEW b1 \in BOOLEAN, NEW b2 \in BOOLEAN,
         Identity(d1, c1, p1, b1) = Identity(d2, c2, p2, b2)
  PROVE  d1 = d2 /\ c1 = c2 /\ p1 = p2 /\ b1 = b2
<1>1. /\ (IF d1 THEN "dense" ELSE "sol") = (IF d2 THEN "dense" ELSE "sol")
      /\ c1 = c2
      /\ (IF b1 THEN <<p1, "unavailable_fallback">> ELSE <<p1>>) =
         (IF b2 THEN <<p2, "unavailable_fallback">> ELSE <<p2>>)
  BY DEF Identity
<1>2. d1 = d2
  BY <1>1
<1>3. Len(<<p1, "unavailable_fallback">>) = 2 /\ Len(<<p1>>) = 1
      /\ Len(<<p2, "unavailable_fallback">>) = 2 /\ Len(<<p2>>) = 1
  OBVIOUS
<1>4. b1 = b2
  BY <1>1, <1>3
<1>5. p1 = p2
  BY <1>1, <1>4
<1> QED BY <1>1, <1>2, <1>4, <1>5

\* The parts of a situation.
LEMMA SituationFields ==
  ASSUME NEW s \in Situations
  PROVE  /\ s.provider \in Providers \cup {None}
         /\ s.high \in BOOLEAN
         /\ s.chain \in Chains \cup {"opaque"}
         /\ \A e : Warmup(e, s) \in BOOLEAN
<1>1. s \in AllSituations
  BY HistoryAssumption
<1> QED BY <1>1 DEF AllSituations, Chains, Warmup

\* Unless a replacement is opaque, the identity names the situation.
LEMMA IdentityNow ==
  ASSUME NEW s \in Situations, disabled \subseteq Providers
  PROVE  /\ s.chain = "opaque" => HistoryIdentity(s) = None
         /\ s.chain # "opaque" =>
              HistoryIdentity(s) =
                Identity(Warmup(evaluations, s), s.chain, s.provider, s.provider \in disabled)
         /\ HistoryIdentity(s) \in Identities
<1>1. /\ s.provider \in Providers \cup {None}
      /\ s.chain \in Chains \cup {"opaque"}
      /\ Warmup(evaluations, s) \in BOOLEAN
  BY SituationFields
<1>2. s.chain # "opaque" =>
        HistoryIdentity(s) =
          Identity(Warmup(evaluations, s), s.chain, s.provider, s.provider \in disabled)
  BY DEF HistoryIdentity, Phase, ProviderIdentity, Identity
<1>3. s.chain = "opaque" => HistoryIdentity(s) = None
  BY DEF HistoryIdentity
<1>4. HistoryIdentity(s) \in Identities
  <2>1. CASE s.chain = "opaque"
    BY <1>3, <2>1 DEF Identities
  <2>2. CASE s.chain # "opaque"
    <3>1. Phase(s) \in {"dense", "sol"} /\ s.chain \in {"declared", "partitioned"}
      BY <1>1, <2>2 DEF Phase, Chains
    <3>2. ProviderIdentity(s) \in {<<p>> : p \in Providers \cup {None}} \cup
                                  {<<p, "unavailable_fallback">> : p \in Providers}
      BY <1>1 DEF ProviderIdentity
    <3> QED BY <2>2, <3>1, <3>2 DEF HistoryIdentity, Identities
  <2> QED BY <2>1, <2>2
<1> QED BY <1>2, <1>3, <1>4

\* What a block that ends does to the forward in progress.
LEMMA RanEffect ==
  ASSUME ForecastTypeOK, fw.place = "running", Len(fw.ran) < NBlocks,
         NEW route \in Routes, NEW how \in Ways, Ran(route, how)
  PROVE  /\ fw' \in Forwards
         /\ fw'.place = "running" /\ fw'.situation = fw.situation
         /\ fw'.identity = fw.identity /\ fw'.evaluation = fw.evaluation
         /\ Len(fw'.ran) = Len(fw.ran) + 1 /\ Len(fw'.receipts) = Len(fw.ran) + 1
         /\ \A k \in 1..Len(fw.ran) :
              fw'.ran[k] = fw.ran[k] /\ fw'.receipts[k] = fw.receipts[k]
         /\ fw'.ran[Len(fw.ran) + 1] = how
         /\ fw'.receipts[Len(fw.ran) + 1] = <<Len(fw.ran), route>>
<1> DEFINE n == Len(fw.ran)
<1>1. /\ fw \in Forwards /\ fw.receipts \in Seq(Layers \X Routes) /\ fw.ran \in Seq(Ways)
      /\ Len(fw.receipts) = n /\ n \in Nat
  BY DEF ForecastTypeOK, Forwards
<1>2. <<n, route>> \in Layers \X Routes
  BY <1>1, HistoryAssumption DEF Layers
<1>3. /\ Append(fw.receipts, <<n, route>>) \in Seq(Layers \X Routes)
      /\ Len(Append(fw.receipts, <<n, route>>)) = n + 1
      /\ \A k \in 1..n : Append(fw.receipts, <<n, route>>)[k] = fw.receipts[k]
      /\ Append(fw.receipts, <<n, route>>)[n + 1] = <<n, route>>
  BY <1>1, <1>2, AppendProperties
<1>4. /\ Append(fw.ran, how) \in Seq(Ways)
      /\ Len(Append(fw.ran, how)) = n + 1
      /\ \A k \in 1..n : Append(fw.ran, how)[k] = fw.ran[k]
      /\ Append(fw.ran, how)[n + 1] = how
  BY <1>1, AppendProperties
<1>5. fw' = [fw EXCEPT !.receipts = Append(@, <<n, route>>), !.ran = Append(@, how)]
  BY DEF Ran, Block
<1>6. /\ fw'.receipts = Append(fw.receipts, <<n, route>>) /\ fw'.ran = Append(fw.ran, how)
      /\ fw' \in Forwards
      /\ fw'.place = fw.place /\ fw'.situation = fw.situation
      /\ fw'.identity = fw.identity /\ fw'.evaluation = fw.evaluation
  BY <1>1, <1>3, <1>4, <1>5 DEF Forwards
<1> QED BY <1>3, <1>4, <1>6

\* The dense part of an ordinary block is computed by whom the identity says,
\* or the provider is demoted now, or was since the identity was asked for.
LEMMA DenseByFits ==
  ASSUME ForecastTypeOK, fw.situation \in Situations, fw.situation.chain # "partitioned",
         NEW by \in Providers \cup {"original"}, DenseOutcome(by),
         NEW demoted \in BOOLEAN, demoted => fw.situation.provider \in disabled
  PROVE  \/ by = By(fw.situation.chain, fw.situation.provider, demoted)
         \/ ~demoted /\ fw.situation.provider \in disabled'
<1>1. fw.situation.provider \in Providers \cup {None}
  BY SituationFields
<1> QED BY <1>1, HistoryAssumption DEF ForecastTypeOK, DenseOutcome, DenseBy, Usable, By

\* Demotions last.
LEMMA Demotes ==
  ASSUME ForecastTypeOK, fw.situation \in Situations,
         NEW by \in Providers \cup {"original"}, DenseOutcome(by)
  PROVE  disabled \subseteq disabled' /\ disabled' \subseteq Providers
<1>1. fw.situation.provider \in Providers \cup {None}
  BY SituationFields
<1> QED BY <1>1 DEF ForecastTypeOK, DenseOutcome, Usable
-----------------------------------------------------------------------------
(***************************************************************************)
(* The steps.                                                              *)
(***************************************************************************)
\* A loaded kernel stays, and so do demotions.
Progress ==
  /\ disabled \subseteq disabled' /\ disabled' \subseteq Providers
  /\ loading' \in {"unloaded", "ready", "failed"}
  /\ loading = "ready" => loading' = "ready"

\* The anchor still fits.
LEMMA AnchorKept ==
  ASSUME AnchorFits, Progress, UNCHANGED anchor
  PROVE  AnchorFits'
<1> SUFFICES ASSUME anchor # None PROVE AnchorFits'
  BY DEF AnchorFits
<1>1. KernelStays(anchor.ran)'
  BY DEF AnchorFits, KernelStays, Progress
<1>2. PICK dense \in BOOLEAN, chain \in Chains, provider \in Providers \cup {None},
           demoted \in BOOLEAN :
        /\ anchor.identity = Identity(dense, chain, provider, demoted)
        /\ \A k \in 1..NBlocks : Fits(anchor.ran[k], k, dense, chain, provider, demoted)
  BY DEF AnchorFits
<1>3. \A k \in 1..NBlocks : Fits(anchor.ran[k], k, dense, chain, provider, demoted)'
  BY <1>2 DEF Fits, Lost, Progress
<1> QED BY <1>1, <1>2, <1>3 DEF AnchorFits

\* A block that ends, whichever way, keeps all but what is about proofs.
LEMMA BlockFits ==
  ASSUME IInv, fw.place = "running", NEW n \in Nat, n = Len(fw.ran), n < NBlocks,
         NEW route \in Routes, NEW how \in Ways, Ran(route, how), Progress,
         how[1] = "sparse" => loading' = "ready",
         NEW dense, dense = Warmup(fw.evaluation, fw.situation),
         NEW chain, chain = fw.situation.chain,
         NEW provider, provider = fw.situation.provider,
         \A demoted \in BOOLEAN :
           /\ chain # "opaque"
           /\ demoted => provider \in disabled
           /\ route \in Plain \cup PartitionedRoutes
           => Fits(how, n + 1, dense, chain, provider, demoted)'
  PROVE  /\ fw' \in Forwards /\ fw'.situation \in Situations
         /\ fw'.place = "running"
         /\ Len(fw'.receipts) = Len(fw'.ran)
         /\ evaluations' = fw'.evaluation + 1
         /\ AskedNow' /\ Charged' /\ ForwardFits' /\ AnchorFits' /\ ForecastSound'
<1>1. /\ fw' \in Forwards
      /\ fw'.place = "running" /\ fw'.situation = fw.situation
      /\ fw'.identity = fw.identity /\ fw'.evaluation = fw.evaluation
      /\ Len(fw'.ran) = n + 1 /\ Len(fw'.receipts) = n + 1
      /\ \A k \in 1..n : fw'.ran[k] = fw.ran[k] /\ fw'.receipts[k] = fw.receipts[k]
      /\ fw'.ran[n + 1] = how
      /\ fw'.receipts[n + 1] = <<n, route>>
  BY RanEffect DEF IInv
<1>2. evaluations \in Nat /\ fw.evaluation \in Nat /\ fw.situation \in Situations
  BY DEF IInv, ForecastTypeOK, Forwards
<1>3. evaluations' = fw.evaluation + 1
  BY <1>2 DEF Ran, FirstBlock, Block, IInv, Charged
<1>4. AskedNow' /\ Charged'
  BY <1>1, <1>2, <1>3 DEF AskedNow, Charged
<1>5. \A k \in 1..n + 1 : k \in 1..n \/ k = n + 1
  OBVIOUS
<1>6. KernelStays(fw.ran)'
  <2>1. \A k \in 1..n : fw.ran[k][1] = "sparse" => loading' = "ready"
    BY DEF IInv, ForwardFits, KernelStays, Progress
  <2> QED BY <1>1, <1>5, <2>1 DEF KernelStays
<1>7. dense = Warmup(fw'.evaluation, fw'.situation)
  BY <1>1 DEF Warmup
<1>8. chain = "opaque" => fw'.identity = None
  BY <1>1 DEF IInv, ForwardFits
<1>9. ASSUME chain # "opaque"
      PROVE  \E demoted \in BOOLEAN :
               /\ fw'.identity = Identity(dense, chain, provider, demoted)
               /\ demoted => provider \in disabled'
               /\ \A k \in 1..n + 1 :
                    fw'.receipts[k][2] \in Plain \cup PartitionedRoutes =>
                      Fits(fw.ran[k], k, dense, chain, provider, demoted)'
  <2>1. PICK demoted \in BOOLEAN :
          /\ fw.identity = Identity(dense, chain, provider, demoted)
          /\ demoted => provider \in disabled
          /\ \A k \in 1..n :
               fw.receipts[k][2] \in Plain \cup PartitionedRoutes =>
                 Fits(fw.ran[k], k, dense, chain, provider, demoted)
    BY <1>9 DEF IInv, ForwardFits
  <2>2. ASSUME NEW k \in 1..n, fw'.receipts[k][2] \in Plain \cup PartitionedRoutes
        PROVE  Fits(fw.ran[k], k, dense, chain, provider, demoted)'
    <3>1. Fits(fw.ran[k], k, dense, chain, provider, demoted)
      BY <1>1, <2>1, <2>2
    <3>2. fw'.ran[k] = fw.ran[k]
      BY <1>1
    <3> QED BY <3>1, <3>2 DEF Fits, Lost, Progress
  <2>3. ASSUME fw'.receipts[n + 1][2] \in Plain \cup PartitionedRoutes
        PROVE  Fits(fw.ran[n + 1], n + 1, dense, chain, provider, demoted)'
    <3>1. fw'.receipts[n + 1][2] = route
      BY <1>1
    <3>2. Fits(how, n + 1, dense, chain, provider, demoted)'
      BY <1>9, <2>1, <2>3, <3>1
    <3>3. fw'.ran[n + 1] = how
      BY <1>1
    <3> QED BY <3>2, <3>3 DEF Fits
  <2>4. demoted => provider \in disabled'
    BY <2>1 DEF Progress
  <2> QED BY <1>1, <1>5, <2>1, <2>2, <2>3, <2>4
<1>10. ForwardFits'
  BY <1>1, <1>6, <1>7, <1>8, <1>9 DEF ForwardFits
<1>11. AnchorFits' /\ ForecastSound'
  BY AnchorKept DEF IInv, ForecastSound, Ran
<1> QED BY <1>1, <1>2, <1>3, <1>4, <1>10, <1>11

\* The proofs of the evaluation, when the block adds none.
LEMMA ProofsStay ==
  ASSUME IInv, fw.place = "running", Len(fw.ran) < NBlocks,
         NEW route \in Routes, NEW how \in Ways, Ran(route, how), UNCHANGED owned
  PROVE  ProofsPast' /\ ProofsScoped'
<1> DEFINE n == Len(fw.ran)
<1>1. /\ fw'.place = "running" /\ fw'.evaluation = fw.evaluation
      /\ Len(fw'.receipts) = n + 1
      /\ \A k \in 1..n : fw'.receipts[k] = fw.receipts[k]
      /\ fw' \in Forwards
  BY RanEffect DEF IInv
<1>2. /\ n \in Nat /\ evaluations \in Nat
      /\ Len(fw.receipts) = n /\ fw.receipts \in Seq(Layers \X Routes)
      /\ fw'.receipts \in Seq(Layers \X Routes)
  BY <1>1 DEF IInv, ForecastTypeOK, Forwards
<1>3. DOMAIN fw.receipts = 1..n /\ DOMAIN fw'.receipts = 1..n + 1
  BY <1>1, <1>2
<1>4. {fw.receipts[k] : k \in DOMAIN fw.receipts} \subseteq
      {fw'.receipts[k] : k \in DOMAIN fw'.receipts}
  <2>1. \A k \in 1..n : k \in 1..n + 1 /\ fw'.receipts[k] = fw.receipts[k]
    BY <1>1, <1>2
  <2> QED BY <1>3, <2>1
<1>5. ProofsScoped'
  BY <1>1, <1>4 DEF IInv, ProofsScoped
<1>6. evaluations' \in Nat /\ evaluations' >= evaluations
  BY <1>2 DEF Ran
<1>7. ProofsPast'
  BY <1>2, <1>6 DEF IInv, ProofsPast
<1> QED BY <1>5, <1>7

\* A block of ordinary attention, whatever it ends with.
LEMMA OrdinaryBlock ==
  ASSUME IInv, Ordinary, NEW by \in Providers \cup {"original"}, DenseOutcome(by),
         NEW kind \in {"dense", "sparse"},
         NEW route \in Plain \cup {"fallback", "kernel_unavailable"},
         Ran(route, <<kind, by>>), UNCHANGED owned,
         loading' \in {"unloaded", "ready", "failed"}, loading = "ready" => loading' = "ready",
         kind = "sparse" => loading' = "ready",
         route \in Plain => kind = IF Warm THEN "dense" ELSE "sparse"
  PROVE  IInv'
<1>1. /\ fw.place = "running" /\ Len(fw.ran) \in Nat /\ Len(fw.ran) < NBlocks
      /\ fw.situation.chain # "partitioned" /\ fw.situation \in Situations
      /\ ForecastTypeOK
  BY DEF Ordinary, Calls, Block, IInv, ForecastTypeOK, Forwards
<1>2. PICK n \in Nat : n = Len(fw.ran)
  BY <1>1
<1>3. PICK dense, chain, provider :
        /\ dense = Warmup(fw.evaluation, fw.situation)
        /\ chain = fw.situation.chain /\ provider = fw.situation.provider
  OBVIOUS
<1>4. route \in Routes /\ <<kind, by>> \in Ways
  BY DEF Routes, Ways
<1>5. Progress
  BY <1>1, Demotes DEF Progress
<1>6. Warm <=> dense \/ n < DenseLayers
  BY <1>2, <1>3 DEF Warm, WarmBlock, Block
<1>7. ASSUME NEW demoted \in BOOLEAN, demoted => provider \in disabled,
             route \in Plain \cup PartitionedRoutes
      PROVE  Fits(<<kind, by>>, n + 1, dense, chain, provider, demoted)'
  <2>1. route \in Plain
    BY <1>7 DEF Plain, PartitionedRoutes
  <2>2. kind = Way(dense, chain, n + 1)
    <3>1. n + 1 - 1 = n
      BY <1>2
    <3> QED BY <1>1, <1>3, <1>6, <2>1, <3>1 DEF Way
  <2>3. \/ by = By(chain, provider, demoted)
        \/ ~demoted /\ provider \in disabled'
    BY <1>1, <1>3, <1>7, DenseByFits
  <2> QED BY <2>2, <2>3 DEF Fits, Lost
<1>8. /\ fw' \in Forwards /\ fw'.situation \in Situations
      /\ fw'.place = "running"
      /\ Len(fw'.receipts) = Len(fw'.ran)
      /\ evaluations' = fw'.evaluation + 1
      /\ AskedNow' /\ Charged' /\ ForwardFits' /\ AnchorFits' /\ ForecastSound'
  BY <1>1, <1>2, <1>3, <1>4, <1>5, <1>7, BlockFits
<1>9. ForecastTypeOK'
  <2>1. evaluations' \in Nat
    BY <1>8 DEF Forwards
  <2> QED BY <1>1, <1>5, <1>8, <2>1 DEF ForecastTypeOK, Progress, Ran
<1>10. ProofsPast' /\ ProofsScoped'
  BY <1>1, <1>4, ProofsStay
<1> QED BY <1>8, <1>9, <1>10 DEF IInv

\* The kinds of blocks of ordinary attention.
LEMMA OrdinaryIInv ==
  ASSUME IInv, NEW by \in Providers \cup {"original"},
         Fallback(by) \/ DenseWarmup(by) \/ Sparse(by) \/ KernelUnavailable(by)
  PROVE  IInv'
<1>1. loading \in {"unloaded", "ready", "failed"}
  BY DEF IInv, ForecastTypeOK
<1>2. CASE Fallback(by)
  BY <1>1, <1>2, OrdinaryBlock DEF Fallback, Plain
<1>3. CASE DenseWarmup(by)
  BY <1>1, <1>3, OrdinaryBlock DEF DenseWarmup, Plain
<1>4. CASE Sparse(by)
  BY <1>1, <1>4, OrdinaryBlock DEF Sparse, Plain
<1>5. CASE KernelUnavailable(by)
  BY <1>1, <1>5, OrdinaryBlock DEF KernelUnavailable, Plain
<1> QED BY <1>2, <1>3, <1>4, <1>5

\* A block of a partitioned forward, and its completion proof.
LEMMA PartitionedIInv == ASSUME IInv, PartitionedCall PROVE IInv'
<1>1. /\ fw.place = "running" /\ Len(fw.ran) \in Nat /\ Len(fw.ran) < NBlocks
      /\ fw.situation.chain = "partitioned" /\ fw.situation \in Situations
      /\ ForecastTypeOK
  BY DEF PartitionedCall, Calls, Block, IInv, ForecastTypeOK, Forwards
<1>2. PICK n \in Nat : n = Len(fw.ran)
  BY <1>1
<1>3. PICK dense, chain, provider :
        /\ dense = Warmup(fw.evaluation, fw.situation)
        /\ chain = fw.situation.chain /\ provider = fw.situation.provider
  OBVIOUS
<1>4. PICK route \in PartitionedRoutes : route = PartitionedRoute(fw.evaluation, fw.situation)
  BY DEF PartitionedRoute, PartitionedRoutes
<1>5. /\ Ran(route, <<route, "torch">>)
      /\ owned' = [evaluation |-> fw.evaluation,
                   proofs |-> ProofsOfEvaluation \cup {<<n, route>>}]
      /\ UNCHANGED <<loading, disabled>>
  BY <1>2, <1>4 DEF PartitionedCall, Block
<1>6. route \in Routes /\ <<route, "torch">> \in Ways
  BY DEF Routes, Ways
<1>7. Progress
  BY <1>1, <1>5 DEF Progress, ForecastTypeOK
<1>8. route = Way(dense, chain, n + 1) /\ route # "sparse"
  BY <1>1, <1>3, <1>4 DEF Way, PartitionedRoute, PartitionedRoutes
<1>9. \A demoted \in BOOLEAN : Fits(<<route, "torch">>, n + 1, dense, chain, provider, demoted)'
  BY <1>1, <1>3, <1>8 DEF Fits, By
<1>10. /\ fw' \in Forwards /\ fw'.situation \in Situations
       /\ fw'.place = "running"
       /\ Len(fw'.receipts) = Len(fw'.ran)
       /\ evaluations' = fw'.evaluation + 1
       /\ AskedNow' /\ Charged' /\ ForwardFits' /\ AnchorFits' /\ ForecastSound'
  BY <1>1, <1>2, <1>3, <1>5, <1>6, <1>7, <1>8, <1>9, BlockFits
<1>11. /\ fw'.evaluation = fw.evaluation /\ fw.evaluation \in Nat
       /\ Len(fw'.receipts) = n + 1
       /\ \A k \in 1..n : fw'.receipts[k] = fw.receipts[k]
       /\ fw'.receipts[n + 1] = <<n, route>>
       /\ DOMAIN fw.receipts = 1..n /\ DOMAIN fw'.receipts = 1..n + 1
  <2>1. /\ fw'.evaluation = fw.evaluation
        /\ Len(fw'.receipts) = n + 1
        /\ \A k \in 1..n : fw'.receipts[k] = fw.receipts[k]
        /\ fw'.receipts[n + 1] = <<n, route>>
    BY <1>1, <1>2, <1>5, <1>6, RanEffect
  <2>2. fw.receipts \in Seq(Layers \X Routes) /\ fw'.receipts \in Seq(Layers \X Routes)
    BY <1>1, <1>10 DEF ForecastTypeOK, Forwards
  <2>3. Len(fw.receipts) = n /\ fw.evaluation \in Nat
    BY <1>1, <1>2 DEF ForecastTypeOK, Forwards
  <2> QED BY <2>1, <2>2, <2>3
<1>12. owned'.evaluation = fw.evaluation
       /\ owned'.proofs = ProofsOfEvaluation \cup {<<n, route>>}
  BY <1>5
<1>13. ForecastTypeOK'
  <2>1. evaluations' \in Nat
    BY <1>10 DEF Forwards
  <2>2. <<n, route>> \in Layers \X PartitionedRoutes
    BY <1>1, <1>2, HistoryAssumption DEF Layers
  <2>3. owned'.evaluation \in Nat \cup {None} /\ owned'.proofs \subseteq Layers \X PartitionedRoutes
    BY <1>1, <1>11, <1>12, <2>2 DEF ForecastTypeOK, ProofsOfEvaluation
  <2> QED BY <1>1, <1>5, <1>10, <2>1, <2>3 DEF ForecastTypeOK, Ran
<1>14. ProofsPast'
  BY <1>10, <1>11, <1>12 DEF ProofsPast
<1>15. ProofsScoped'
  <2>1. ProofsOfEvaluation \subseteq {fw.receipts[k] : k \in DOMAIN fw.receipts}
    BY <1>1 DEF IInv, ProofsScoped, ProofsOfEvaluation
  <2>2. {fw.receipts[k] : k \in DOMAIN fw.receipts} \subseteq
        {fw'.receipts[k] : k \in DOMAIN fw'.receipts}
    <3>1. \A k \in 1..n : k \in 1..n + 1 /\ fw'.receipts[k] = fw.receipts[k]
      BY <1>2, <1>11
    <3> QED BY <1>11, <3>1
  <2>3. <<n, route>> \in {fw'.receipts[k] : k \in DOMAIN fw'.receipts}
    BY <1>2, <1>11
  <2>4. owned'.proofs \subseteq {fw'.receipts[k] : k \in DOMAIN fw'.receipts}
    BY <1>12, <2>1, <2>2, <2>3
  <2> QED BY <2>4 DEF ProofsScoped
<1> QED BY <1>10, <1>13, <1>14, <1>15 DEF IInv

\* The identity is asked for.
LEMMA PreflightIInv == ASSUME IInv, NEW s \in Situations, Preflight(s) PROVE IInv'
<1>1. /\ UNCHANGED <<evaluations, loading, disabled, owned, anchor, skipped>>
      /\ steps < MaxSteps /\ steps' = steps + 1 /\ steps \in 0..MaxSteps
      /\ disabled \subseteq Providers
      /\ loading \in {"unloaded", "ready", "failed"}
  BY DEF Preflight, evaluationVars, IInv, ForecastTypeOK
<1>2. HistoryIdentity(s) \in Identities
  BY <1>1, IdentityNow
<1>3. /\ NoForward.place = "idle" /\ NoForward.receipts = <<>> /\ NoForward.ran = <<>>
      /\ NoForward \in Forwards
  BY DEF NoForward, Forwards, Identities
<1>4. /\ fw' \in Forwards /\ fw'.place = "asked" /\ fw'.situation = s
      /\ fw'.identity = HistoryIdentity(s)
      /\ fw'.receipts = <<>> /\ fw'.ran = <<>>
  BY <1>2, <1>3 DEF Preflight, Forwards, NoForward
<1>5. HistoryIdentity(s)' = HistoryIdentity(s)
  BY <1>1 DEF HistoryIdentity, Phase, ProviderIdentity, Warmup
<1>6. ForecastTypeOK'
  <2>1. steps' \in 0..MaxSteps
    BY <1>1, HistoryAssumption
  <2> QED BY <1>1, <1>4, <2>1 DEF IInv, ForecastTypeOK
<1>7. AskedNow' /\ Charged' /\ ForwardFits' /\ ProofsScoped'
  BY <1>4, <1>5 DEF AskedNow, Charged, ForwardFits, ProofsScoped
<1>8. AnchorFits'
  BY <1>1, AnchorKept DEF IInv, Progress
<1>9. ProofsPast' /\ ForecastSound'
  BY <1>1 DEF IInv, ProofsPast, ForecastSound
<1> QED BY <1>6, <1>7, <1>8, <1>9 DEF IInv

\* What an idle sampler knows.
LEMMA IdleFits ==
  ASSUME fw' = NoForward
  PROVE  /\ fw' \in Forwards /\ fw'.place = "idle" /\ Len(fw'.receipts) = Len(fw'.ran)
         /\ AskedNow' /\ Charged' /\ ForwardFits' /\ ProofsScoped'
<1>1. /\ NoForward.place = "idle" /\ NoForward.receipts = <<>> /\ NoForward.ran = <<>>
      /\ NoForward \in Forwards
  BY DEF NoForward, Forwards, Identities
<1> QED BY <1>1 DEF AskedNow, Charged, ForwardFits, ProofsScoped

\* The forecast stands for the skipped forward: the anchor's identity is the
\* one of the situation now, so nobody it names was demoted, and the kernel
\* its sparse blocks ran on is there.
LEMMA ForecastIInv == ASSUME IInv, Forecast PROVE IInv'
<1>1. /\ UNCHANGED <<evaluations, loading, disabled, owned, anchor, steps>>
      /\ fw' = NoForward
      /\ skipped' = [anchor |-> anchor.ran, skipped |-> WouldRun(fw.situation)]
      /\ fw.place = "asked" /\ fw.identity # None /\ anchor # None
      /\ anchor.identity = fw.identity
  BY DEF Forecast, evaluationVars
<1>2. PICK s \in Situations : s = fw.situation
  BY <1>1 DEF IInv, ForecastTypeOK
<1>3. PICK dense \in BOOLEAN, chain \in Chains, provider \in Providers \cup {None},
           demoted \in BOOLEAN :
        /\ anchor.identity = Identity(dense, chain, provider, demoted)
        /\ \A k \in 1..NBlocks : Fits(anchor.ran[k], k, dense, chain, provider, demoted)
  BY <1>1 DEF IInv, AnchorFits
<1>4. /\ s.chain # "opaque"
      /\ fw.identity = Identity(Warmup(evaluations, s), s.chain, s.provider, s.provider \in disabled)
      /\ Warmup(evaluations, s) \in BOOLEAN
  BY <1>1, <1>2, IdentityNow, SituationFields DEF IInv, ForecastTypeOK, AskedNow
<1>5. /\ dense = Warmup(evaluations, s) /\ chain = s.chain /\ provider = s.provider
      /\ (demoted <=> provider \in disabled)
  <2>0. PICK gone \in BOOLEAN : gone <=> s.provider \in disabled
    <3>1. CASE s.provider \in disabled
      BY <3>1
    <3>2. CASE s.provider \notin disabled
      BY <3>2
    <3> QED BY <3>1, <3>2
  <2>1. PICK now \in BOOLEAN : now = Warmup(evaluations, s)
    BY <1>4
  <2>2. Identity(dense, chain, provider, demoted) = Identity(now, s.chain, s.provider, gone)
    BY <1>1, <1>3, <1>4, <2>0, <2>1 DEF Identity
  <2>3. dense = now /\ chain = s.chain /\ provider = s.provider /\ demoted = gone
    BY <2>2, IdentityInjective
  <2> QED BY <2>0, <2>1, <2>3
<1>6. ~Lost(provider, demoted)
  BY <1>5 DEF Lost
<1>7. /\ Len(anchor.ran) = NBlocks /\ anchor.ran \in Seq(Ways)
      /\ \A k \in 1..NBlocks : anchor.ran[k][1] = "sparse" => loading = "ready"
  BY <1>1 DEF IInv, AnchorFits, KernelStays, ForecastTypeOK
<1>8. ASSUME NEW k \in 1..NBlocks PROVE anchor.ran[k] = WouldRun(s)[k]
  <2>1. /\ anchor.ran[k] \in Ways
        /\ anchor.ran[k][1] = Way(dense, chain, k)
        /\ anchor.ran[k][2] = By(chain, provider, demoted)
    BY <1>3, <1>6, <1>7, <1>8 DEF Fits
  <2>2. anchor.ran[k] = <<Way(dense, chain, k), By(chain, provider, demoted)>>
    BY <2>1 DEF Ways
  <2>3. CASE chain = "partitioned"
    BY <1>5, <2>2, <2>3 DEF WouldRun, Way, By, PartitionedRoute
  <2>4. CASE chain = "declared"
    <3>1. By(chain, provider, demoted) = DenseBy(s)
      BY <1>5, <2>4 DEF By, DenseBy, Usable
    <3>2. Way(dense, chain, k) =
            IF WarmBlock(s, evaluations, k - 1) \/ loading = "failed" THEN "dense" ELSE "sparse"
      <4>1. CASE dense \/ k - 1 < DenseLayers
        BY <1>5, <2>4, <4>1 DEF Way, WarmBlock
      <4>2. CASE ~(dense \/ k - 1 < DenseLayers)
        <5>1. Way(dense, chain, k) = "sparse"
          BY <2>4, <4>2 DEF Way
        <5>2. loading = "ready"
          BY <1>7, <2>1, <5>1
        <5> QED BY <1>5, <4>2, <5>1, <5>2 DEF WarmBlock
      <4> QED BY <4>1, <4>2
    <3>3. WouldRun(s)[k] =
            <<IF WarmBlock(s, evaluations, k - 1) \/ loading = "failed" THEN "dense" ELSE "sparse",
              DenseBy(s)>>
      BY <1>5, <2>4 DEF WouldRun
    <3> QED BY <2>2, <3>1, <3>2, <3>3
  <2> QED BY <2>3, <2>4 DEF Chains
<1>9. anchor.ran = WouldRun(s)
  <2>1. anchor.ran = [k \in 1..NBlocks |-> anchor.ran[k]]
    BY <1>7
  <2>2. WouldRun(s) = [k \in 1..NBlocks |-> WouldRun(s)[k]]
    BY DEF WouldRun
  <2> QED BY <1>8, <2>1, <2>2
<1>10. ForecastSound'
  BY <1>1, <1>2, <1>9 DEF ForecastSound
<1>11. /\ fw' \in Forwards /\ fw'.place = "idle" /\ Len(fw'.receipts) = Len(fw'.ran)
       /\ AskedNow' /\ Charged' /\ ForwardFits' /\ ProofsScoped'
  BY <1>1, IdleFits
<1>12. ForecastTypeOK'
  BY <1>1, <1>11 DEF IInv, ForecastTypeOK
<1>13. AnchorFits' /\ ProofsPast'
  BY <1>1, AnchorKept DEF IInv, ProofsPast, Progress, ForecastTypeOK
<1> QED BY <1>10, <1>11, <1>12, <1>13 DEF IInv

\* A forward begins with the identity it was asked for.
LEMMA ForwardEnterIInv == ASSUME IInv, ForwardEnter PROVE IInv'
<1>1. /\ UNCHANGED <<evaluations, loading, disabled, owned, anchor, steps, skipped>>
      /\ fw.place = "asked" /\ fw \in Forwards /\ evaluations \in Nat
      /\ fw' = [fw EXCEPT !.place = "running", !.evaluation = evaluations]
      /\ disabled \subseteq Providers /\ loading \in {"unloaded", "ready", "failed"}
  BY DEF ForwardEnter, evaluationVars, IInv, ForecastTypeOK
<1>2. /\ fw' \in Forwards /\ fw'.place = "running" /\ fw'.evaluation = evaluations
      /\ fw'.situation = fw.situation /\ fw'.identity = fw.identity
      /\ fw'.receipts = fw.receipts /\ fw'.ran = fw.ran
  BY <1>1 DEF Forwards
<1>3. fw.situation \in Situations
  BY <1>1 DEF IInv, ForecastTypeOK
<1>4. ForecastTypeOK'
  BY <1>1, <1>2, <1>3 DEF IInv, ForecastTypeOK
<1>5. Len(fw.ran) = 0
  BY <1>1 DEF IInv, AskedNow
<1>6. AskedNow' /\ Charged'
  BY <1>1, <1>2, <1>5 DEF AskedNow, Charged
<1>7. ForwardFits'
  <2>0. PICK gone \in BOOLEAN : gone <=> fw.situation.provider \in disabled
    <3>1. CASE fw.situation.provider \in disabled
      BY <3>1
    <3>2. CASE fw.situation.provider \notin disabled
      BY <3>2
    <3> QED BY <3>1, <3>2
  <2>1. PICK now \in BOOLEAN : now = Warmup(evaluations, fw.situation)
    BY <1>3, SituationFields
  <2>2. /\ fw.situation.chain = "opaque" => fw.identity = None
        /\ fw.situation.chain # "opaque" =>
             fw.identity = Identity(now, fw.situation.chain, fw.situation.provider, gone)
    BY <1>1, <1>3, <2>0, <2>1, IdentityNow DEF IInv, AskedNow, Identity
  <2>3. KernelStays(fw.ran)'
    BY <1>2, <1>5 DEF KernelStays
  <2>4. Warmup(fw.evaluation, fw.situation)' = now
    BY <1>2, <2>1 DEF Warmup
  <2>5. gone => fw.situation.provider \in disabled'
    BY <1>1, <2>0
  <2> QED BY <1>2, <1>5, <2>2, <2>3, <2>4, <2>5 DEF ForwardFits
<1>8. AnchorFits'
  BY <1>1, AnchorKept DEF IInv, Progress
<1>9. ProofsPast' /\ ForecastSound'
  BY <1>1 DEF IInv, ProofsPast, ForecastSound
<1>10. ProofsScoped'
  BY <1>1, <1>2 DEF IInv, ProofsPast, ProofsScoped
<1> QED BY <1>4, <1>6, <1>7, <1>8, <1>9, <1>10 DEF IInv

\* A forward that raises leaves no receipts, and its charge if it was made.
LEMMA ForwardRaisesIInv == ASSUME IInv, ForwardRaises PROVE IInv'
<1>1. /\ UNCHANGED <<loading, disabled, owned, anchor, steps, skipped>>
      /\ fw' = NoForward
      /\ evaluations \in Nat /\ evaluations' \in {evaluations, evaluations + 1}
      /\ disabled \subseteq Providers /\ loading \in {"unloaded", "ready", "failed"}
  BY DEF ForwardRaises, IInv, ForecastTypeOK
<1>2. /\ fw' \in Forwards /\ fw'.place = "idle" /\ Len(fw'.receipts) = Len(fw'.ran)
      /\ AskedNow' /\ Charged' /\ ForwardFits' /\ ProofsScoped'
  BY <1>1, IdleFits
<1>3. ForecastTypeOK'
  BY <1>1, <1>2 DEF IInv, ForecastTypeOK
<1>4. AnchorFits' /\ ForecastSound'
  BY <1>1, AnchorKept DEF IInv, Progress, ForecastSound
<1>5. ProofsPast'
  BY <1>1 DEF IInv, ProofsPast
<1> QED BY <1>2, <1>3, <1>4, <1>5 DEF IInv

\* An accepted forward becomes the anchor: all its receipts are such that its
\* blocks were computed as its identity says.
LEMMA ForwardReturnsIInv == ASSUME IInv, ForwardReturns PROVE IInv'
<1>1. /\ UNCHANGED <<evaluations, loading, disabled, owned, steps, skipped>>
      /\ fw' = NoForward /\ fw.place = "running" /\ Len(fw.ran) = NBlocks
      /\ disabled \subseteq Providers /\ loading \in {"unloaded", "ready", "failed"}
  BY DEF ForwardReturns, evaluationVars, Block, IInv, ForecastTypeOK
<1>2. /\ fw' \in Forwards /\ fw'.place = "idle" /\ Len(fw'.receipts) = Len(fw'.ran)
      /\ AskedNow' /\ Charged' /\ ForwardFits' /\ ProofsScoped'
  BY <1>1, IdleFits
<1>3. ProofsPast' /\ ForecastSound'
  BY <1>1 DEF IInv, ProofsPast, ForecastSound
<1>4. CASE fw.identity # None /\ AcceptReceipts(fw.receipts)
  <2>1. anchor' = [identity |-> fw.identity, ran |-> fw.ran]
    BY <1>4 DEF ForwardReturns
  <2>2. /\ fw.identity \in Identities /\ fw.ran \in Seq(Ways)
        /\ fw.receipts \in Seq(Layers \X Routes) /\ Len(fw.receipts) = NBlocks
        /\ fw.situation \in Situations
    BY <1>1 DEF IInv, ForecastTypeOK, Forwards
  <2>3. \A k \in 1..NBlocks : fw.receipts[k][2] \in Plain \cup PartitionedRoutes
    <3>1. DOMAIN fw.receipts = 1..NBlocks
      BY <2>2
    <3> QED BY <1>4, <3>1 DEF AcceptReceipts
  <2>4. PICK dense, chain, provider :
          /\ dense = Warmup(fw.evaluation, fw.situation)
          /\ chain = fw.situation.chain /\ provider = fw.situation.provider
    OBVIOUS
  <2>5. /\ dense \in BOOLEAN /\ provider \in Providers \cup {None}
        /\ chain \in Chains \cup {"opaque"} /\ chain # "opaque"
    BY <1>1, <1>4, <2>2, <2>4, SituationFields DEF IInv, ForwardFits
  <2>6. PICK demoted \in BOOLEAN :
          /\ fw.identity = Identity(dense, chain, provider, demoted)
          /\ \A k \in 1..NBlocks : Fits(fw.ran[k], k, dense, chain, provider, demoted)
    BY <1>1, <2>3, <2>4, <2>5 DEF IInv, ForwardFits
  <2>7. \A k \in 1..NBlocks : Fits(anchor.ran[k], k, dense, chain, provider, demoted)'
    BY <1>1, <2>1, <2>6 DEF Fits, Lost
  <2>8. KernelStays(fw.ran) /\ KernelStays(anchor.ran)'
    BY <1>1, <2>1 DEF IInv, ForwardFits, KernelStays
  <2>9. AnchorFits'
    BY <1>1, <2>1, <2>5, <2>6, <2>7, <2>8 DEF AnchorFits
  <2>10. ForecastTypeOK'
    BY <1>1, <1>2, <1>4, <2>1, <2>2 DEF IInv, ForecastTypeOK
  <2> QED BY <1>2, <1>3, <2>9, <2>10 DEF IInv
<1>5. CASE anchor' = anchor \/ anchor' = None
  <2>1. ForecastTypeOK'
    BY <1>1, <1>2, <1>5 DEF IInv, ForecastTypeOK
  <2>2. AnchorFits'
    <3>1. CASE anchor' = anchor
      BY <1>1, <3>1, AnchorKept DEF IInv, Progress
    <3>2. CASE anchor' = None
      BY <3>2 DEF AnchorFits
    <3> QED BY <1>5, <3>1, <3>2
  <2> QED BY <1>2, <1>3, <2>1, <2>2 DEF IInv
<1> QED BY <1>4, <1>5 DEF ForwardReturns

\* Nothing has been sampled.
LEMMA InitIInv == ForecastInit => IInv
<1> SUFFICES ASSUME ForecastInit PROVE IInv
  OBVIOUS
<1>1. /\ NoForward.place = "idle" /\ NoForward.receipts = <<>> /\ NoForward.ran = <<>>
      /\ NoForward \in Forwards
  BY DEF NoForward, Forwards, Identities
<1>2. ForecastTypeOK
  BY <1>1, HistoryAssumption DEF ForecastInit, ForecastTypeOK, NoProof
<1>3. AskedNow /\ Charged /\ ForwardFits /\ AnchorFits /\ ProofsScoped /\ ForecastSound
  BY <1>1 DEF ForecastInit, AskedNow, Charged, ForwardFits, AnchorFits, ProofsScoped, ForecastSound
<1>4. ProofsPast
  BY DEF ForecastInit, NoProof, ProofsPast
<1> QED BY <1>2, <1>3, <1>4 DEF IInv

\* A stuttering step changes nothing.
LEMMA StutterIInv == IInv /\ UNCHANGED forecastVars => IInv'
<1> SUFFICES ASSUME IInv, UNCHANGED forecastVars PROVE IInv'
  OBVIOUS
<1>1. UNCHANGED <<evaluations, loading, disabled, owned, fw, anchor, steps, skipped>>
  BY DEF forecastVars, evaluationVars
<1>2. ForecastTypeOK' /\ Charged' /\ ProofsPast' /\ ProofsScoped' /\ ForecastSound'
  BY <1>1 DEF IInv, ForecastTypeOK, Charged, ProofsPast, ProofsScoped, ForecastSound
<1>3. AskedNow'
  BY <1>1 DEF IInv, AskedNow, HistoryIdentity, Phase, ProviderIdentity, Warmup
<1>4. ForwardFits'
  BY <1>1 DEF IInv, ForwardFits, KernelStays, Warmup, Fits, Lost
<1>5. AnchorFits'
  BY <1>1, AnchorKept DEF IInv, ForecastTypeOK, Progress
<1> QED BY <1>2, <1>3, <1>4, <1>5 DEF IInv

\* Every reachable state satisfies the inductive invariant.
THEOREM HistoryCorrect == ForecastSpec => []IInv
<1>1. IInv /\ ForecastNext => IInv'
  <2> SUFFICES ASSUME IInv, ForecastNext PROVE IInv'
    OBVIOUS
  <2>1. ASSUME NEW s \in Situations, Preflight(s) PROVE IInv'
    BY <2>1, PreflightIInv
  <2>2. ASSUME NEW by \in Providers \cup {"original"},
               Fallback(by) \/ DenseWarmup(by) \/ Sparse(by) \/ KernelUnavailable(by)
        PROVE  IInv'
    BY <2>2, OrdinaryIInv
  <2>3. CASE Forecast
    BY <2>3, ForecastIInv
  <2>4. CASE ForwardEnter
    BY <2>4, ForwardEnterIInv
  <2>5. CASE PartitionedCall
    BY <2>5, PartitionedIInv
  <2>6. CASE ForwardRaises
    BY <2>6, ForwardRaisesIInv
  <2>7. CASE ForwardReturns
    BY <2>7, ForwardReturnsIInv
  <2> QED BY <2>1, <2>2, <2>3, <2>4, <2>5, <2>6, <2>7 DEF ForecastNext
<1> QED BY <1>1, InitIInv, StutterIInv, PTL DEF ForecastSpec

\* A forward is skipped only if it would have computed every block the way the
\* anchor's forward did (HistoryPolicy.__call__, accept_receipts).
THEOREM ForecastSoundTheorem == ForecastSpec => []ForecastSound
<1>1. IInv => ForecastSound
  BY DEF IInv
<1> QED BY <1>1, HistoryCorrect, PTL

\* A completion proof authorizes only what its own evaluation has completed
\* (_record_completion, _accept_partitioned_receipt).
THEOREM ProofsScopedTheorem == ForecastSpec => []ProofsScoped
<1>1. IInv => ProofsScoped
  BY DEF IInv
<1> QED BY <1>1, HistoryCorrect, PTL

\* Every variable holds a value of its kind.
THEOREM HistoryTypes == ForecastSpec => []ForecastTypeOK
<1>1. IInv => ForecastTypeOK
  BY DEF IInv
<1> QED BY <1>1, HistoryCorrect, PTL
=============================================================================
