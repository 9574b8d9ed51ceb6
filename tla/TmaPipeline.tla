---------------------------- MODULE TmaPipeline ----------------------------
(***************************************************************************)
(* The protocol of one pipeline whose users advance their parity with      *)
(* every tile, as the sm120 kernel's K and V pipelines do.                 *)
(***************************************************************************)
EXTENDS TmaBarriers

VARIABLES
  pipe,      \* the barriers and the stage, a record
  produce,   \* the parity of the producer's pipeline state
  consume    \* the parity of every consumer's pipeline state

pipeVars == <<pipe, produce, consume>>

Init ==
  /\ pipe = EmptyPipe(Warps)
  /\ produce = 1
  /\ consume = [w \in Warps |-> 0]

Issue(t) ==
  /\ Acquirable(pipe, produce)
  /\ pipe' = Filled(pipe, t)
  /\ produce' = Flip(produce)
  /\ UNCHANGED consume

Arrive ==
  /\ pipe.filling # None
  /\ pipe' = Landed(pipe)
  /\ UNCHANGED <<produce, consume>>

Wait(w) ==
  /\ w \notin pipe.reading
  /\ Ready(pipe, consume[w])
  /\ pipe' = Begun(pipe, w)
  /\ UNCHANGED <<produce, consume>>

Release(w) ==
  /\ w \in pipe.reading
  /\ pipe' = Released(pipe, w)
  /\ consume' = [consume EXCEPT ![w] = Flip(@)]
  /\ UNCHANGED produce

Next ==
  \/ \E t \in Tiles : Issue(t)
  \/ Arrive
  \/ \E w \in Warps : Wait(w) \/ Release(w)

Spec == Init /\ [][Next]_pipeVars

Slot == INSTANCE TileSlot WITH
  readers <- pipe.readers, content <- pipe.content, filling <- pipe.filling,
  unread <- pipe.due, reading <- pipe.reading

\* A tile is never written while a warp still has to read the one before it.
NoOverwrite == pipe.filling # None => pipe.due = {} /\ pipe.reading = {}
=============================================================================
