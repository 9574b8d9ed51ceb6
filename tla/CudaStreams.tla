---------------------------- MODULE CudaStreams ----------------------------
(***************************************************************************)
(* The device as the host code uses it: streams that execute what was      *)
(* enqueued in order but independently of each other, events, and the      *)
(* caching allocator, which takes a block back as soon as the host drops   *)
(* it and hands it out again on the stream it belongs to, except that      *)
(* streams the block was recorded on must first get past this moment.  It  *)
(* is taken to do so at once, to somebody who writes to it.                *)
(***************************************************************************)
EXTENDS Integers, Sequences, SequencesExt

CONSTANTS
  Streams,
  Blocks,     \* blocks of device memory, in the order they are first used
  Nothing,    \* no stream
  Junk        \* what anybody else writes

ASSUME DeviceAssumption ==
  /\ Blocks \subseteq Nat /\ IsFiniteSet(Blocks)
  /\ Nothing \notin Streams \union Blocks

VARIABLES
  queue,   \* per stream, the operations still to execute
  mem,     \* per block, what is written in it
  fired,   \* the events that have completed
  block    \* per block, the allocator's record

device == <<queue, mem, fired, block>>

DeviceInit ==
  /\ queue = [s \in Streams |-> <<>>]
  /\ mem = [b \in Blocks |-> Junk]
  /\ fired = {}
  /\ block = [b \in Blocks |-> [live |-> FALSE, home |-> Nothing, users |-> {}, waiting |-> {}]]

\* A write and the event recorded right after it.
Write(b, content, event) == [op |-> "write", block |-> b, content |-> content, event |-> event]
WaitEvent(event) == [op |-> "wait", event |-> event]
\* A kernel with the contents it was launched for.
Kernel(reads) == [op |-> "kernel", reads |-> reads]
\* The allocator's own event on a stream that used a block.
Passed(b) == [op |-> "passed", block |-> b]

\* The allocator has the block and may give it out on stream s.
Available(b, s) ==
  /\ ~block[b].live /\ block[b].waiting = {}
  /\ block[b].home \in {s, Nothing}

\* A block that was given back is preferred to one that was never used.
Allocation(s) == Min({b \in Blocks : Available(b, s)})

Allocated(b, s) == [live |-> TRUE, home |-> s, users |-> {}, waiting |-> {}]

\* Tensor.record_stream: the allocator learns that another stream uses it.
Recorded(r, s) == IF s = r.home THEN r ELSE [r EXCEPT !.users = @ \union {s}]

\* The last reference is gone: the allocator notes where the streams that
\* used the block stand.
Dropped(r) == [r EXCEPT !.live = FALSE, !.waiting = r.users, !.users = {}]

\* What dropping the blocks D leaves to do on stream s.
Aftermath(D, s) ==
  SetToSeq({Passed(b) : b \in {x \in D : s \in block[x].users}} \union
           {Write(b, Junk, 0) : b \in {x \in D : block[x].users = {} /\ block[x].home = s}})

Drop(D) ==
  /\ block' = [b \in Blocks |-> IF b \in D THEN Dropped(block[b]) ELSE block[b]]
  /\ queue' = [s \in Streams |-> queue[s] \o Aftermath(D, s)]
  /\ UNCHANGED <<mem, fired>>

Ready(s) == queue[s] # <<>> /\ (Head(queue[s]).op = "wait" => Head(queue[s]).event \in fired)

\* A stream executes its next operation.
Execute(s) ==
  /\ Ready(s)
  /\ LET o == Head(queue[s])
         reused == o.op = "passed" /\ block[o.block].waiting = {s}
         rest == [queue EXCEPT ![s] = Tail(@)]
     IN /\ queue' = IF reused
                    THEN [rest EXCEPT ![block[o.block].home] = Append(@, Write(o.block, Junk, 0))]
                    ELSE rest
        /\ mem' = IF o.op = "write" THEN [mem EXCEPT ![o.block] = o.content] ELSE mem
        /\ fired' = IF o.op = "write" THEN fired \union {o.event} ELSE fired
        /\ block' = IF o.op = "passed" THEN [block EXCEPT ![o.block].waiting = @ \ {s}] ELSE block

\* The next kernel of every stream finds in memory what it was launched for.
ReadsIntended ==
  \A s \in Streams :
    (queue[s] # <<>> /\ Head(queue[s]).op = "kernel") =>
      \A r \in Head(queue[s]).reads : mem[r.block] = r.content
=============================================================================
