---------------------------- MODULE TmaBarriers ----------------------------
(***************************************************************************)
(* The pipelines of the attention kernels (PipelineTmaAsync with a single  *)
(* stage).  The producer starts an asynchronous tensor copy into the       *)
(* stage, the consumers wait for it, read it and release it.  Both sides   *)
(* synchronise on two mbarriers of which they only see the parity of the   *)
(* current phase: a wait for parity f passes when the barrier's phase is   *)
(* no longer f.  A kernel has one pipeline for K and one for V, hence the  *)
(* operators on a pipeline p.                                              *)
(***************************************************************************)
EXTENDS Integers

CONSTANTS
  Warps,   \* the consumer warps of a thread block
  Tiles,   \* the tiles a copy can bring
  None     \* no tile

ASSUME WarpsAssumption == Warps # {}
ASSUME NoneAssumption == None \notin Tiles

Bit == {0, 1}

\* A phase that counts instead of wrapping.
Count(b) == b + 1
Flip(b) == 1 - b

\* readers: the consumer group the pipeline is created for.  full, empty: the
\* phase bits of the barriers.  arrived: who has arrived at the empty barrier
\* in its phase.  filling: the copy in flight.  due and reading are history:
\* who has yet to read the content and who is at it.
EmptyPipe(readers) ==
  [readers |-> readers, full |-> 0, empty |-> 0, arrived |-> {},
   filling |-> None, content |-> None, due |-> {}, reading |-> {}]

\* producer_acquire waits on the empty barrier with the producer's parity.
Acquirable(p, parity) == p.empty # parity

\* The copy is started with the full barrier as its completion barrier.
Filled(p, t) == [p EXCEPT !.filling = t]

\* The copy completes the transaction count and with it the full phase.
Landed(p) ==
  [p EXCEPT !.content = p.filling, !.filling = None, !.full = Flip(@), !.due = p.readers]

\* consumer_wait waits on the full barrier with the consumer's parity.
Ready(p, parity) == p.full # parity

Begun(p, w) == [p EXCEPT !.due = @ \ {w}, !.reading = @ \union {w}]

\* A release of which the first arrival completes the phase.
ReleasedByFirst(p, w) ==
  [p EXCEPT !.reading = @ \ {w}, !.empty = IF p.arrived = {} THEN Flip(@) ELSE @,
            !.arrived = IF @ \union {w} = p.readers THEN {} ELSE @ \union {w}]

\* consumer_release: one arrival of each reader completes the empty phase.
Released(p, w) ==
  IF p.arrived \union {w} = p.readers
  THEN [p EXCEPT !.reading = @ \ {w}, !.arrived = {}, !.empty = Flip(@)]
  ELSE [p EXCEPT !.reading = @ \ {w}, !.arrived = @ \union {w}]
=============================================================================
