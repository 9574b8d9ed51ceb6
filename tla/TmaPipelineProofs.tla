------------------------- MODULE TmaPipelineProofs -------------------------
(***************************************************************************)
(* The parity barriers of a one-stage pipeline hand every tile to every    *)
(* warp exactly once and never overwrite a tile that is still wanted, for  *)
(* any number of warps.                                                    *)
(***************************************************************************)
EXTENDS TmaPipeline, Integers, TLAPS

TypeOK ==
  /\ pipe \in [readers : {Warps}, full : Bit, empty : Bit, arrived : SUBSET Warps,
               filling : Tiles \union {None}, content : Tiles \union {None},
               due : SUBSET Warps, reading : SUBSET Warps]
  /\ produce \in Bit
  /\ consume \in [Warps -> Bit]

Quiet ==
  /\ pipe.due = {} /\ pipe.reading = {} /\ pipe.arrived = {}
  /\ \A w \in Warps : consume[w] = pipe.full

\* The producer's parity differs from the empty phase exactly while the stage
\* is its own: nothing is in flight and nobody reads.
Free == pipe.empty # produce => pipe.filling = None /\ Quiet

\* While a copy is in flight every consumer waits for the phase it completes.
Flying == pipe.filling # None => Quiet

\* Once it has landed, a warp that has not arrived at the empty barrier is one
\* whose parity differs from the full phase; it reads or has yet to start.
Shared ==
  pipe.empty = produce /\ pipe.filling = None =>
    /\ \A w \in Warps : w \in pipe.due \union pipe.reading <=> consume[w] # pipe.full
    /\ \A w \in Warps : w \in pipe.arrived <=> consume[w] = pipe.full
    /\ pipe.due \intersect pipe.reading = {}
    /\ pipe.arrived # Warps

IInv == TypeOK /\ Free /\ Flying /\ Shared

\* Flip stays a bit and changes it.
LEMMA FlipBit == \A b \in Bit : Flip(b) \in Bit /\ Flip(b) # b
  BY DEF Flip, Bit

\* The initial state of the barriers satisfies the inductive invariant.
LEMMA InitIInv == Init => IInv
  BY WarpsAssumption
  DEF Init, IInv, TypeOK, Free, Flying, Shared, Quiet, EmptyPipe, Bit

\* An acquired stage is filled while every consumer is a phase behind it.
LEMMA IssueIInv == IInv /\ (\E t \in Tiles : Issue(t)) => IInv'
  BY NoneAssumption
  DEF IInv, TypeOK, Free, Flying, Shared, Quiet, Issue, Acquirable, Filled, Flip, Bit

\* The completed copy flips the full phase under every consumer at once.
LEMMA ArriveIInv == IInv /\ Arrive => IInv'
<1> SUFFICES ASSUME IInv, Arrive PROVE IInv'
  OBVIOUS
<1>1. Quiet /\ pipe.empty = produce /\ pipe.filling # None
  BY DEF IInv, Free, Flying, Arrive
<1>2. /\ pipe'.full = Flip(pipe.full) /\ pipe'.empty = pipe.empty
      /\ pipe'.arrived = {} /\ pipe'.filling = None
      /\ pipe'.due = Warps /\ pipe'.reading = {}
      /\ produce' = produce /\ consume' = consume
  BY <1>1 DEF IInv, TypeOK, Arrive, Landed, Quiet
<1>3. TypeOK'
  BY FlipBit DEF IInv, TypeOK, Arrive, Landed
<1>4. Free' /\ Flying'
  BY <1>1, <1>2 DEF Free, Flying
<1>5. Shared'
  BY <1>1, <1>2, WarpsAssumption DEF IInv, TypeOK, Shared, Quiet, Flip, Bit
<1> QED
  BY <1>3, <1>4, <1>5 DEF IInv

\* A wait that passes by parity is the wait of a warp that is due the content.
LEMMA WaitDue == ASSUME IInv, NEW w \in Warps, Wait(w) PROVE
  w \in pipe.due /\ pipe.filling = None /\ pipe.empty = produce
  BY DEF IInv, TypeOK, Free, Flying, Shared, Quiet, Wait, Ready, Bit

\* A warp that starts to read keeps the stage shared.
LEMMA WaitIInv == ASSUME IInv, NEW w \in Warps, Wait(w) PROVE IInv'
<1>1. w \in pipe.due /\ pipe.filling = None /\ pipe.empty = produce
  BY WaitDue
<1>2. /\ pipe'.full = pipe.full /\ pipe'.empty = pipe.empty
      /\ pipe'.arrived = pipe.arrived /\ pipe'.filling = pipe.filling
      /\ pipe'.due = pipe.due \ {w} /\ pipe'.reading = pipe.reading \union {w}
      /\ produce' = produce /\ consume' = consume
  BY DEF IInv, TypeOK, Wait, Begun
<1>3. TypeOK'
  BY DEF IInv, TypeOK, Wait, Begun
<1>4. Free' /\ Flying'
  BY <1>1, <1>2 DEF Free, Flying
<1>5. Shared'
  BY <1>1, <1>2 DEF IInv, Shared
<1> QED
  BY <1>3, <1>4, <1>5 DEF IInv

\* The arrival that is not the last leaves the stage shared.
LEMMA EarlyReleaseIInv ==
  ASSUME IInv, NEW w \in Warps, Release(w), pipe.arrived \union {w} # Warps
  PROVE  IInv'
<1>1. pipe.filling = None /\ pipe.empty = produce
  BY DEF IInv, Free, Flying, Quiet, Release
<1>2. /\ pipe'.full = pipe.full /\ pipe'.empty = pipe.empty
      /\ pipe'.arrived = pipe.arrived \union {w} /\ pipe'.filling = pipe.filling
      /\ pipe'.due = pipe.due /\ pipe'.reading = pipe.reading \ {w}
      /\ produce' = produce /\ consume' = [consume EXCEPT ![w] = Flip(consume[w])]
  BY DEF IInv, TypeOK, Release, Released
<1>3. TypeOK'
  BY FlipBit DEF IInv, TypeOK, Release, Released
<1>4. Free' /\ Flying'
  BY <1>1, <1>2 DEF Free, Flying
<1>5. Shared'
  BY <1>1, <1>2 DEF IInv, TypeOK, Shared, Release, Flip, Bit
<1> QED
  BY <1>3, <1>4, <1>5 DEF IInv

\* The last arrival completes the empty phase and gives the stage back.
LEMMA LastReleaseIInv ==
  ASSUME IInv, NEW w \in Warps, Release(w), pipe.arrived \union {w} = Warps
  PROVE  IInv'
<1>1. pipe.filling = None /\ pipe.empty = produce
  BY DEF IInv, Free, Flying, Quiet, Release
<1>2. /\ pipe'.full = pipe.full /\ pipe'.empty = Flip(pipe.empty)
      /\ pipe'.arrived = {} /\ pipe'.filling = pipe.filling
      /\ pipe'.due = pipe.due /\ pipe'.reading = pipe.reading \ {w}
      /\ produce' = produce /\ consume' = [consume EXCEPT ![w] = Flip(consume[w])]
  BY DEF IInv, TypeOK, Release, Released
<1>3. TypeOK'
  BY FlipBit DEF IInv, TypeOK, Release, Released
<1>4. \A v \in Warps \ {w} : consume[v] = pipe.full
  BY <1>1 DEF IInv, Shared
<1>5. consume[w] # pipe.full
  BY <1>1 DEF IInv, Shared, Release
<1>6. \A v \in Warps : consume'[v] = pipe'.full
  BY <1>2, <1>4, <1>5 DEF IInv, TypeOK, Flip, Bit
<1>7. pipe'.due = {} /\ pipe'.reading = {}
  BY <1>1, <1>2, <1>4 DEF IInv, TypeOK, Shared, Release
<1>8. Free' /\ Flying'
  BY <1>1, <1>2, <1>6, <1>7 DEF Free, Flying, Quiet
<1>9. Shared'
  BY <1>1, <1>2 DEF IInv, TypeOK, Shared, Flip, Bit
<1> QED
  BY <1>3, <1>8, <1>9 DEF IInv

\* Every step of the pipeline preserves the inductive invariant.
LEMMA NextIInv == IInv /\ [Next]_pipeVars => IInv'
<1> SUFFICES ASSUME IInv, [Next]_pipeVars PROVE IInv'
  OBVIOUS
<1>1. CASE \E t \in Tiles : Issue(t)
  BY <1>1, IssueIInv
<1>2. CASE Arrive
  BY <1>2, ArriveIInv
<1>3. ASSUME NEW w \in Warps, Wait(w) PROVE IInv'
  BY <1>3, WaitIInv
<1>4. ASSUME NEW w \in Warps, Release(w) PROVE IInv'
  BY <1>4, EarlyReleaseIInv, LastReleaseIInv
<1>5. CASE UNCHANGED pipeVars
  BY <1>5 DEF pipeVars, IInv, TypeOK, Free, Flying, Shared, Quiet
<1> QED
  BY <1>1, <1>2, <1>3, <1>4, <1>5 DEF Next

\* The inductive invariant holds in every behaviour of the pipeline.
LEMMA Inductive == Spec => []IInv
  BY InitIInv, NextIInv, PTL DEF Spec

\* For any number of warps the copy of a tile never starts while a warp of the
\* thread block still has to read the tile it replaces.
THEOREM PipelineSafe == Spec => []NoOverwrite
<1>1. IInv => NoOverwrite
  BY DEF IInv, Flying, Quiet, NoOverwrite
<1> QED
  BY <1>1, Inductive, PTL

\* Every step of the pipeline is a step of the slot, or changes nothing of it.
LEMMA StepsOfSlot == IInv /\ IInv' /\ [Next]_pipeVars => [Slot!Next]_(Slot!slotVars)
<1> SUFFICES ASSUME IInv, IInv', [Next]_pipeVars PROVE [Slot!Next]_(Slot!slotVars)
  OBVIOUS
<1>1. ASSUME NEW t \in Tiles, Issue(t) PROVE Slot!Fill(t)
  BY <1>1 DEF IInv, TypeOK, Free, Quiet, Issue, Acquirable, Filled, Slot!Fill
<1>2. CASE Arrive
  <2>1. Slot!Land
    BY <1>2 DEF IInv, TypeOK, Arrive, Landed, Slot!Land
  <2> QED
    BY <2>1 DEF Slot!Next
<1>3. ASSUME NEW w \in Warps, Wait(w) PROVE Slot!Begin(w)
  BY <1>3, WaitDue DEF IInv, TypeOK, Wait, Begun, Slot!Begin
<1>4. ASSUME NEW w \in Warps, Release(w) PROVE Slot!End(w)
  BY <1>4 DEF IInv, TypeOK, Release, Released, Slot!End
<1>5. CASE UNCHANGED pipeVars
  BY <1>5 DEF pipeVars, Slot!slotVars
<1>6. pipe.readers = Warps
  BY DEF IInv, TypeOK
<1> QED
  BY <1>1, <1>2, <1>3, <1>4, <1>5, <1>6 DEF Next, Slot!Next

\* The two parity barriers implement the one-tile slot: a wait passes only for
\* a warp that has not read the current tile, and a copy starts only when all
\* warps have.
THEOREM PipelineIsSlot == Spec => Slot!Spec
<1>1. Init => Slot!Init
  BY WarpsAssumption DEF Init, EmptyPipe, Slot!Init
<1> QED
  BY <1>1, StepsOfSlot, Inductive, PTL DEF Spec, Slot!Spec
=============================================================================
