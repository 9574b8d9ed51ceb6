------------------------------ MODULE TileSlot ------------------------------
(***************************************************************************)
(* What a one-stage tile pipeline promises to a thread block.  One slot of *)
(* shared memory is filled with a tile, every reader reads each tile       *)
(* exactly once, and the slot is filled again only when all have.          *)
(***************************************************************************)
CONSTANTS
  Tiles,     \* what can be put into the slot
  None       \* no tile

VARIABLES
  readers,   \* who consumes every tile, fixed when the slot is made
  content,   \* the tile in the slot
  filling,   \* the tile an asynchronous copy is writing into the slot
  unread,    \* the readers that have not started on the content
  reading    \* the readers that have started and not finished

slotVars == <<readers, content, filling, unread, reading>>

Init ==
  /\ readers # {}
  /\ content = None
  /\ filling = None
  /\ unread = {}
  /\ reading = {}

Fill(t) ==
  /\ filling = None
  /\ unread = {}
  /\ reading = {}
  /\ filling' = t
  /\ UNCHANGED <<readers, content, unread, reading>>

Land ==
  /\ filling # None
  /\ content' = filling
  /\ filling' = None
  /\ unread' = readers
  /\ UNCHANGED <<readers, reading>>

Begin(w) ==
  /\ w \in unread
  /\ unread' = unread \ {w}
  /\ reading' = reading \union {w}
  /\ UNCHANGED <<readers, content, filling>>

End(w) ==
  /\ w \in reading
  /\ reading' = reading \ {w}
  /\ UNCHANGED <<readers, content, filling, unread>>

Next ==
  \/ \E t \in Tiles : Fill(t)
  \/ Land
  \/ \E w \in readers : Begin(w) \/ End(w)

Spec == Init /\ [][Next]_slotVars
=============================================================================
