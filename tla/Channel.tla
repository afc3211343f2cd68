------------------------------- MODULE Channel -------------------------------
(***************************************************************************)
(* What the channel promises its clients, whatever it is built from.       *)
(*                                                                         *)
(* A bounded queue shared by sender and receiver handles.  A send takes    *)
(* effect in two steps: it is accepted or refused, by what receivers there *)
(* are, and then it enters the queue, which overwrites the oldest message  *)
(* when it is full.  A receive takes effect in the one step that decides   *)
(* its answer.  Handles come from handles of their side, so a side that    *)
(* has none never has one again.  There are no wakers here, no counters    *)
(* and no memory to free: only the queue outlives its last handle, until   *)
(* it is destroyed once.                                                   *)
(***************************************************************************)
EXTENDS Naturals, Sequences, Results

CONSTANTS Capacity, Messages, None, Clients, Senders, Receivers

VARIABLES
  queue,     \* the pending messages, the oldest first
  tx, rx,    \* the handles that exist
  sending,   \* the message each client has had accepted and not yet queued
  answer,    \* what the latest call of each client answers; None if undecided
  alive      \* whether the queue still exists

vars == <<queue, tx, rx, sending, answer, alive>>

Init ==
  /\ queue = <<>> /\ alive = TRUE
  /\ tx \in (SUBSET Senders) \ {{}}
  /\ rx \in (SUBSET Receivers) \ {{}}
  /\ sending = [c \in Clients |-> None]
  /\ answer = [c \in Clients |-> None]

NobodySends == \A c \in Clients : sending[c] = None

-----------------------------------------------------------------------------

Answer(c, a) == answer' = [answer EXCEPT ![c] = a]

\* A call whose answer is not decided yet.
Ask(c) ==
  /\ Answer(c, None)
  /\ UNCHANGED <<queue, tx, rx, sending, alive>>

Accept(c, m) ==
  /\ tx # {} /\ rx # {} /\ sending[c] = None
  /\ sending' = [sending EXCEPT ![c] = m]
  /\ Answer(c, None)
  /\ UNCHANGED <<queue, tx, rx, alive>>

Refuse(c, m) ==
  /\ tx # {} /\ rx = {}
  /\ Answer(c, Refused(m))
  /\ UNCHANGED <<queue, tx, rx, sending, alive>>

Enqueue(c) ==
  /\ sending[c] # None /\ alive
  /\ IF Len(queue) < Capacity
       THEN /\ queue' = Append(queue, sending[c])
            /\ Answer(c, Sent(None))
       ELSE /\ queue' = Append(Tail(queue), sending[c])
            /\ Answer(c, Sent(Head(queue)))
  /\ sending' = [sending EXCEPT ![c] = None]
  /\ UNCHANGED <<tx, rx, alive>>

Deliver(c) ==
  /\ rx # {} /\ queue # <<>>
  /\ queue' = Tail(queue)
  /\ Answer(c, Received(Head(queue)))
  /\ UNCHANGED <<tx, rx, sending, alive>>

\* The queue is empty; it may also be disconnected.
FindNothing(c) ==
  /\ rx # {} /\ queue = <<>>
  /\ Answer(c, NothingYet)
  /\ UNCHANGED <<queue, tx, rx, sending, alive>>

\* The queue is empty and will stay so.
FindClosed(c) ==
  /\ rx # {} /\ queue = <<>> /\ tx = {} /\ NobodySends
  /\ Answer(c, Closed)
  /\ UNCHANGED <<queue, tx, rx, sending, alive>>

OpenTx(s) == tx # {} /\ tx' = tx \cup {s} /\ UNCHANGED rx
OpenRx(r) == rx # {} /\ rx' = rx \cup {r} /\ UNCHANGED tx
CloseTx(s) == tx' = tx \ {s} /\ UNCHANGED rx /\ (tx = {s} => NobodySends)
CloseRx(r) == rx' = rx \ {r} /\ UNCHANGED tx

Handle ==
  /\ \/ \E s \in Senders : OpenTx(s) \/ CloseTx(s)
     \/ \E r \in Receivers : OpenRx(r) \/ CloseRx(r)
  /\ UNCHANGED <<queue, sending, answer, alive>>

Destroy ==
  /\ alive /\ tx = {} /\ rx = {}
  /\ alive' = FALSE
  /\ queue' = <<>>
  /\ UNCHANGED <<tx, rx, sending, answer>>

Next ==
  \/ \E c \in Clients :
       \/ Ask(c) \/ Enqueue(c) \/ Deliver(c) \/ FindNothing(c) \/ FindClosed(c)
       \/ \E m \in Messages : Accept(c, m) \/ Refuse(c, m)
  \/ Handle \/ Destroy

Spec == Init /\ [][Next]_vars

=============================================================================
