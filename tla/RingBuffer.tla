----------------------------- MODULE RingBuffer -----------------------------
(***************************************************************************)
(* The ring buffer of buffer.rs: a bounded FIFO whose push overwrites the  *)
(* oldest message when there is no room.  RingBuffer::new picks an         *)
(* AtomicOption cell (atomic.rs) for capacity 1 and a crossbeam ArrayQueue *)
(* otherwise.  Both make push (swap, force_push) and pop (take, pop) a     *)
(* single atomic operation, which is how the module models them.           *)
(***************************************************************************)
EXTENDS Naturals, Sequences

CONSTANTS
  Capacity,   \* the capacity given to ring_channel
  Messages,   \* the messages the clients of the channel may send
  None        \* Option::None, of whatever type

\* RingBuffer::new asserts that the capacity is not zero.
ASSUME RingBufferAssumption ==
  /\ Capacity \in Nat \ {0}
  /\ None \notin Messages

VARIABLE buffer   \* the pending messages, the oldest first

BufferTypeOK ==
  /\ buffer \in Seq(Messages)
  /\ Len(buffer) <= Capacity

BufferInit == buffer = <<>>

\* Mutant: a buffer one smaller than asked for.
HasRoomButOne == Len(buffer) < Capacity - 1

HasRoom == Len(buffer) < Capacity

\* Mutant: what a full buffer overwrites is dropped, not returned.
NothingReturned == None

\* What push returns: the message it overwrites, if there is no room.
Overwritten == IF HasRoom THEN None ELSE Head(buffer)

\* Mutant: a push that overwrites nothing.
PushWithoutBound(m) == buffer' = Append(buffer, m)

BufferPush(m) ==
  buffer' = Append(IF HasRoom THEN buffer ELSE Tail(buffer), m)

BufferPop ==
  /\ buffer # <<>>
  /\ buffer' = Tail(buffer)

=============================================================================
