---------------------------- MODULE RingChannel ----------------------------
(***************************************************************************)
(* The channel of channel.rs and its control block (control.rs), on top of *)
(* the ring buffer and the waitlist, with the futures_api feature on.      *)
(*                                                                         *)
(* Any number of threads call the API on shared endpoints.  A call is a    *)
(* sequence of steps, one for each atomic access to the control block, in  *)
(* the order of the code; the steps of different calls interleave freely   *)
(* (sequentially consistent memory).  Which call a thread makes next, and  *)
(* on which endpoint, is the client's choice, within what the borrow       *)
(* checker accepts.                                                        *)
(***************************************************************************)
EXTENDS RingBuffer, Waitlist, FiniteSets

CONSTANTS
  Senders,      \* names for RingSender handles
  Receivers,    \* names for RingReceiver handles
  TxAtStart,    \* the senders the client has when the threads start
  RxAtStart,    \* the receivers the client has when the threads start
  Calls,        \* Calls[t]: the API calls thread t may make
  SharedRecv    \* may two threads be inside recv on the same receiver?

TxCalls == {"send", "clone_tx", "drop_tx"}
RxCalls == {"try_recv", "recv", "poll_next", "clone_rx", "drop_rx"}

\* try_recv, recv, send and clone borrow the endpoint (&self); poll_next
\* (&mut self) and drop need it for themselves.
ExclusiveCalls == {"poll_next", "drop_tx", "drop_rx"}

ASSUME RingChannelAssumption ==
  /\ IsFiniteSet(Senders) /\ IsFiniteSet(Receivers)
  /\ Senders \cap Receivers = {}
  /\ None \notin Senders \cup Receivers \cup Slots \cup Threads
  /\ None \notin TxCalls \cup RxCalls
  /\ TxAtStart \subseteq Senders /\ TxAtStart # {}
  /\ RxAtStart \subseteq Receivers /\ RxAtStart # {}
  /\ Calls \in [Threads -> SUBSET (TxCalls \cup RxCalls)]
  /\ SharedRecv \in BOOLEAN

VARIABLES
  senders,     \* ControlBlock::senders
  receivers,   \* ControlBlock::receivers
  connected,   \* ControlBlock::connected
  freed,       \* whether the control block has been deallocated
  tx,          \* the sender handles that exist
  rx,          \* the receiver handles that exist
  slot,        \* RingReceiver::slot; None while the handle is being made
  pc,          \* the next step of each thread
  call,        \* the API call each thread is in
  end,         \* the endpoint that call is made on
  hand,        \* the message the call holds, on its way in or out
  waker,       \* the waker the call has popped and not yet woken
  woken,       \* the notification flag behind each thread's waker
  unsent,      \* history: the messages no client has sent yet
  settled      \* history: the messages given back to a client, or destroyed

block  == <<senders, receivers, connected, freed>>
ends   == <<tx, rx, slot>>
thread == <<pc, call, end>>
notes  == <<waker, woken>>
msgs   == <<buffer, hand, unsent, settled>>
vars   == <<block, ends, thread, notes, msgs, waitlist>>

Steps == {"idle", "push", "pop", "scan", "wake", "load", "take", "drain",
          "insert", "reload", "retake", "redrain", "remove", "parked",
          "register", "release", "swap", "free"}

\* The buffer never exceeds its capacity, no count goes below zero, and every
\* call is at a step of its code.
TypeOK ==
  /\ BufferTypeOK
  /\ WaitlistTypeOK
  /\ senders \in Nat /\ receivers \in Nat
  /\ connected \in BOOLEAN /\ freed \in BOOLEAN
  /\ tx \subseteq Senders /\ rx \subseteq Receivers
  /\ slot \in [Receivers -> Slots \cup {None}]
  /\ pc \in [Threads -> Steps]
  /\ call \in [Threads -> TxCalls \cup RxCalls \cup {None}]
  /\ end \in [Threads -> Senders \cup Receivers \cup {None}]
  /\ hand \in [Threads -> Messages \cup {None}]
  /\ waker \in [Threads -> Threads \cup {None}]
  /\ woken \in [Threads -> BOOLEAN]
  /\ unsent \subseteq Messages /\ settled \subseteq Messages

\* The channel as ring_channel() makes it, plus the handles the client has
\* cloned before the threads start.
Init ==
  /\ senders = Cardinality(TxAtStart) /\ receivers = Cardinality(RxAtStart)
  /\ connected = TRUE /\ freed = FALSE
  /\ tx = TxAtStart /\ rx = RxAtStart
  /\ slot \in [Receivers -> Slots \cup {None}]
  /\ \A r \in Receivers : slot[r] = None <=> r \notin rx
  /\ \A r, q \in rx : slot[r] = slot[q] => r = q
  /\ BufferInit
  /\ WaitlistInit({slot[r] : r \in rx})
  /\ pc = [t \in Threads |-> "idle"]
  /\ call = [t \in Threads |-> None]
  /\ end = [t \in Threads |-> None]
  /\ hand = [t \in Threads |-> None]
  /\ waker = [t \in Threads |-> None]
  /\ woken = [t \in Threads |-> FALSE]
  /\ unsent = Messages /\ settled = {}

-----------------------------------------------------------------------------
\* Control flow of a thread.

Goto(t, step) ==
  /\ pc' = [pc EXCEPT ![t] = step]
  /\ UNCHANGED <<call, end>>

Return(t) ==
  /\ pc' = [pc EXCEPT ![t] = "idle"]
  /\ call' = [call EXCEPT ![t] = None]
  /\ end' = [end EXCEPT ![t] = None]

Uses(t, e) == pc[t] # "idle" /\ end[t] = e

\* Whether the borrow checker lets a thread make call c on endpoint e.
MayBorrow(c, e) ==
  \A u \in Threads : Uses(u, e) =>
    /\ c \notin ExclusiveCalls /\ call[u] \notin ExclusiveCalls
    /\ c = "recv" /\ call[u] = "recv" => SharedRecv

\* Thread t starts call c on endpoint e; its next step is "step".
Enter(t, c, e, step) ==
  /\ pc' = [pc EXCEPT ![t] = step]
  /\ call' = [call EXCEPT ![t] = c]
  /\ end' = [end EXCEPT ![t] = e]

MayEnter(t, c, e) == pc[t] = "idle" /\ c \in Calls[t] /\ MayBorrow(c, e)

Usable(r) == r \in rx /\ slot[r] # None

MySlot(t) == slot[end[t]]

-----------------------------------------------------------------------------
\* RingSender::send.  A message is refused only if no receiver was counted.
Send(t, s, m) ==
  /\ s \in tx /\ m \in unsent /\ MayEnter(t, "send", s)
  /\ unsent' = unsent \ {m}
  /\ \/ /\ receivers > 0
        /\ hand' = [hand EXCEPT ![t] = m]
        /\ Enter(t, "send", s, "push")
        /\ UNCHANGED settled
     \/ /\ receivers = 0
        /\ settled' = settled \cup {m}
        /\ UNCHANGED <<thread, hand>>
  /\ UNCHANGED <<block, ends, notes, buffer, waitlist>>

\* Only a push that overwrites nothing wakes a receiver.
WakesOnlyIfFull == Overwritten # None   \* mutant: is_some for is_none
WakesReceiver == Overwritten = None

Push(t) ==
  /\ pc[t] = "push"
  /\ BufferPush(hand[t])
  /\ hand' = [hand EXCEPT ![t] = None]
  /\ settled' = settled \cup ({Overwritten} \ {None})
  /\ IF WakesReceiver THEN Goto(t, "pop") ELSE Return(t)
  /\ UNCHANGED <<block, ends, notes, unsent, waitlist>>

-----------------------------------------------------------------------------
\* Waitlist::pop and waker.wake(), as send and the two drops call them.  A
\* sender that hangs up pops until nobody waits; the others pop once.

StopThere(t) == Return(t)               \* mutant: the last sender stops here
AfterNone(t) ==
  \/ call[t] = "send"    /\ Return(t)
  \/ call[t] = "drop_tx" /\ Goto(t, "swap")
  \/ call[t] = "drop_rx" /\ Goto(t, "release")

AfterWakeOnce(t) == AfterNone(t)        \* mutant: if let for while let
AfterWake(t) == IF call[t] = "drop_tx" THEN Goto(t, "pop") ELSE AfterNone(t)

LockWaitlist(t) ==
  /\ pc[t] = "pop"
  /\ PopBegin(t)
  /\ Goto(t, "scan")
  /\ UNCHANGED <<block, ends, notes, msgs>>

PassSlot(t) ==
  /\ pc[t] = "scan"
  /\ \E k \in Slots : PopMiss(t, k)
  /\ UNCHANGED <<block, ends, thread, notes, msgs>>

TakeWaker(t) ==
  /\ pc[t] = "scan"
  /\ \E k \in Slots : PopTake(t, k) /\ waker' = [waker EXCEPT ![t] = items[k]]
  /\ Goto(t, "wake")
  /\ UNCHANGED <<block, ends, woken, msgs>>

FindNoWaker(t) ==
  /\ pc[t] = "scan"
  /\ PopNone(t)
  /\ AfterNone(t)
  /\ UNCHANGED <<block, ends, notes, msgs>>

\* Mutant: the waker is dropped instead of being woken.
NoteNobody(w) == UNCHANGED woken
Note(w) == woken' = [woken EXCEPT ![w] = TRUE]

Wake(t) ==
  /\ pc[t] = "wake"
  /\ Note(waker[t])
  /\ waker' = [waker EXCEPT ![t] = None]
  /\ AfterWake(t)
  /\ UNCHANGED <<block, ends, msgs, waitlist>>

-----------------------------------------------------------------------------
\* try_recv, recv and poll_next.  The last two look at the buffer a second
\* time (reload, retake, redrain) after they leave their waker in the slot.

Receive(t, r, c) ==
  /\ Usable(r) /\ c \in {"try_recv", "recv", "poll_next"} /\ MayEnter(t, c, r)
  /\ Enter(t, c, r, "load")
  /\ UNCHANGED <<block, ends, notes, msgs, waitlist>>

NeverHungUp == FALSE                     \* mutant: senders >= 0
HungUpEarly == senders <= 1              \* mutant: off by one
HungUp == senders = 0

\* Whether an empty buffer will mean Empty (take) or Disconnected (drain).
Load(t) ==
  /\ \/ pc[t] = "load"   /\ Goto(t, IF HungUp THEN "drain" ELSE "take")
     \/ pc[t] = "reload" /\ Goto(t, IF HungUp THEN "redrain" ELSE "retake")
  /\ UNCHANGED <<block, ends, notes, msgs, waitlist>>

Looking(t) == pc[t] \in {"take", "drain", "retake", "redrain"}

TakeMessage(t) ==
  /\ Looking(t)
  /\ BufferPop
  /\ IF call[t] = "try_recv"
       THEN settled' = settled \cup {Head(buffer)} /\ UNCHANGED hand /\ Return(t)
       ELSE hand' = [hand EXCEPT ![t] = Head(buffer)] /\ UNCHANGED settled
                                                      /\ Goto(t, "remove")
  /\ UNCHANGED <<block, ends, notes, unsent, waitlist>>

\* Mutant: a poll that treats Disconnected like Empty.
AfterEmptyOrHangup(t) == IF pc[t] \in {"take", "drain"} THEN "insert" ELSE "parked"
AfterEmpty(t) ==
  IF pc[t] = "take" THEN "insert" ELSE IF pc[t] = "retake" THEN "parked" ELSE "remove"

FindEmpty(t) ==
  /\ Looking(t)
  /\ buffer = <<>>
  /\ IF call[t] = "try_recv" THEN Return(t) ELSE Goto(t, AfterEmpty(t))
  /\ UNCHANGED <<block, ends, notes, msgs, waitlist>>

\* Mutant: no second look at the buffer once the waker is in its slot.
InsertAndPark(t) ==
  /\ pc[t] = "insert"
  /\ WaitlistInsert(MySlot(t), t)
  /\ Goto(t, "parked")
  /\ UNCHANGED <<block, ends, notes, msgs>>

Insert(t) ==
  /\ pc[t] = "insert"
  /\ WaitlistInsert(MySlot(t), t)
  /\ Goto(t, "reload")
  /\ UNCHANGED <<block, ends, notes, msgs>>

\* Poll::Ready, with a message or with the end of the stream.
Remove(t) ==
  /\ pc[t] = "remove"
  /\ WaitlistRemove(MySlot(t))
  /\ hand' = [hand EXCEPT ![t] = None]
  /\ settled' = settled \cup ({hand[t]} \ {None})
  /\ Return(t)
  /\ UNCHANGED <<block, ends, notes, buffer, unsent>>

\* Poll::Pending.  The executor (block_on, for recv) polls again once the
\* waker has been woken.
Resume(t) ==
  /\ pc[t] = "parked" /\ woken[t]
  /\ woken' = [woken EXCEPT ![t] = FALSE]
  /\ Goto(t, "load")
  /\ UNCHANGED <<block, ends, waker, msgs, waitlist>>

\* A task may stop waiting for the stream; its waker stays in the slot.
Abandon(t) ==
  /\ pc[t] = "parked" /\ call[t] = "poll_next"
  /\ Return(t)
  /\ UNCHANGED <<block, ends, notes, msgs, waitlist>>

-----------------------------------------------------------------------------
\* Clone and Drop of the endpoints, and of the control block with the last.

\* Mutant: a clone of the pointer that forgets the counter.
CloneTxUncounted(t, s, new) ==
  /\ s \in tx /\ new \in Senders \ tx /\ MayEnter(t, "clone_tx", s)
  /\ tx' = tx \cup {new}
  /\ UNCHANGED <<block, rx, slot, thread, notes, msgs, waitlist>>

CloneTx(t, s, new) ==
  /\ s \in tx /\ new \in Senders \ tx /\ MayEnter(t, "clone_tx", s)
  /\ senders' = senders + 1
  /\ tx' = tx \cup {new}
  /\ UNCHANGED <<receivers, connected, freed, rx, slot, thread, notes, msgs, waitlist>>

CloneRx(t, r, new) ==
  /\ Usable(r) /\ new \in Receivers \ rx /\ MayEnter(t, "clone_rx", r)
  /\ receivers' = receivers + 1
  /\ rx' = rx \cup {new}
  /\ Enter(t, "clone_rx", r, "register")
  /\ UNCHANGED <<senders, connected, freed, tx, slot, notes, msgs, waitlist>>

\* Mutant: a derived Clone, which copies the slot of the original.
RegisterNothing(t) ==
  /\ pc[t] = "register"
  /\ \E new \in rx : slot[new] = None /\ slot' = [slot EXCEPT ![new] = MySlot(t)]
  /\ Return(t)
  /\ UNCHANGED <<block, tx, rx, notes, msgs, waitlist>>

\* RingReceiver::new: the handle under construction gets its slot.
Register(t) ==
  /\ pc[t] = "register"
  /\ \E new \in rx, k \in Slots :
       /\ slot[new] = None
       /\ WaitlistRegister(k)
       /\ slot' = [slot EXCEPT ![new] = k]
  /\ Return(t)
  /\ UNCHANGED <<block, tx, rx, notes, msgs>>

LastSender == senders = 1

DropTx(t, s) ==
  /\ s \in tx /\ MayEnter(t, "drop_tx", s)
  /\ senders' = senders - 1
  /\ tx' = tx \ {s}
  /\ IF LastSender THEN Enter(t, "drop_tx", s, "pop") ELSE UNCHANGED thread
  /\ UNCHANGED <<receivers, connected, freed, rx, slot, notes, msgs, waitlist>>

\* A receiver whose waker is gone has been woken: it passes the wake on.
KeepsTheWake(r) == FALSE                 \* mutant: deregister's result ignored
PassesWakeOn(r) == items[slot[r]] = Empty

DropRx(t, r) ==
  /\ Usable(r) /\ MayEnter(t, "drop_rx", r)
  /\ WaitlistDeregister(slot[r])
  /\ Enter(t, "drop_rx", r, IF PassesWakeOn(r) THEN "pop" ELSE "release")
  /\ UNCHANGED <<block, ends, notes, msgs>>

AnyReceiver == TRUE                      \* mutant: == 1 forgotten
LastReceiver == receivers = 1

Release(t) ==
  /\ pc[t] = "release"
  /\ receivers' = receivers - 1
  /\ rx' = rx \ {end[t]}
  /\ slot' = [slot EXCEPT ![end[t]] = None]
  /\ IF LastReceiver THEN Goto(t, "swap") ELSE Return(t)
  /\ UNCHANGED <<senders, connected, freed, tx, notes, msgs, waitlist>>

\* connected.swap(false): the second side to get here owns the control block.
FirstFrees == connected                  \* mutant: the negation forgotten
OwnsBlock == ~connected

Swap(t) ==
  /\ pc[t] = "swap"
  /\ connected' = FALSE
  /\ IF OwnsBlock THEN Goto(t, "free") ELSE Return(t)
  /\ UNCHANGED <<senders, receivers, freed, ends, notes, msgs, waitlist>>

\* The box goes, and with it the messages nobody has received.
Free(t) ==
  /\ pc[t] = "free"
  /\ freed' = TRUE
  /\ buffer' = <<>>
  /\ settled' = settled \cup {buffer[i] : i \in DOMAIN buffer}
  /\ Return(t)
  /\ UNCHANGED <<senders, receivers, connected, ends, notes, hand, unsent, waitlist>>

-----------------------------------------------------------------------------

\* The calls a client may start, and the one it may give up.
Client(t) ==
  \/ \E s \in Senders, m \in Messages : Send(t, s, m)
  \/ \E r \in Receivers, c \in RxCalls : Receive(t, r, c)
  \/ \E s, new \in Senders : CloneTx(t, s, new)
  \/ \E r, new \in Receivers : CloneRx(t, r, new)
  \/ \E s \in Senders : DropTx(t, s)
  \/ \E r \in Receivers : DropRx(t, r)
  \/ Abandon(t)

\* The steps of a call in progress.
Step(t) ==
  \/ Push(t) \/ LockWaitlist(t) \/ PassSlot(t) \/ TakeWaker(t) \/ FindNoWaker(t)
  \/ Wake(t) \/ Load(t) \/ TakeMessage(t) \/ FindEmpty(t) \/ Insert(t) \/ Remove(t)
  \/ Resume(t) \/ Register(t) \/ Release(t) \/ Swap(t) \/ Free(t)

Next == \E t \in Threads : Client(t) \/ Step(t)

Spec == Init /\ [][Next]_vars

\* The scheduler runs every thread: a call that can take a step takes one.
Fairness == \A t \in Threads : WF_vars(Step(t))

FairSpec == Spec /\ Fairness

\* Clients whose idle threads call recv whenever they can, as a consumer that
\* loops on recv does.
Consuming(t) == \E r \in Receivers : Receive(t, r, "recv")

PatientSpec == FairSpec /\ \A t \in Threads : WF_vars(Consuming(t))

-----------------------------------------------------------------------------
\* Who holds the control block.

Borrowing == {"try_recv", "recv", "poll_next", "clone_rx"}

PollSteps == {"load", "take", "drain", "insert", "reload", "retake", "redrain",
              "remove", "parked", "register"}

\* Each call in progress is at one of its steps and the endpoint it is made on
\* exists; a drop has the endpoint to itself until the endpoint is gone.
CallsHoldEnds ==
  \A t \in Threads :
    /\ pc[t] = "idle" <=> call[t] = None
    /\ call[t] = None => end[t] = None
    /\ call[t] = "send" => pc[t] \in {"push", "pop", "scan", "wake"} /\ end[t] \in tx
    /\ pc[t] = "push" => hand[t] # None
    /\ call[t] \in Borrowing => pc[t] \in PollSteps /\ end[t] \in rx
    /\ call[t] = "drop_tx" => pc[t] \in {"pop", "scan", "wake", "swap", "free"} /\ tx = {}
    /\ call[t] = "drop_rx" =>
         \/ /\ pc[t] \in {"pop", "scan", "wake", "release"} /\ end[t] \in rx
            /\ \A u \in Threads \ {t} : end[u] # end[t]
         \/ pc[t] \in {"swap", "free"} /\ rx = {}
    /\ call[t] # "clone_tx"

HangingUp(t) == call[t] = "drop_tx" /\ pc[t] # "free"
Leaving(t)   == call[t] = "drop_rx" /\ pc[t] = "swap"
Freeing(t)   == pc[t] = "free"

\* A side is done with the control block once its last endpoint has swapped
\* the connected flag.
TxDone == tx = {} /\ \A t \in Threads : ~HangingUp(t)
RxDone == rx = {} /\ \A t \in Threads : ~Leaving(t)
Doomed == freed \/ \E t \in Threads : Freeing(t)

AtMostOne(P(_)) == \A t, u \in Threads : P(t) /\ P(u) => t = u

\* The life of the control block: the counters count the endpoints, one call
\* per side swaps the flag, the flag tells whether a side is done, and the side
\* that finds the other one done frees the block, once.
LifetimeInv ==
  /\ senders = Cardinality(tx) /\ receivers = Cardinality(rx)
  /\ CallsHoldEnds
  /\ AtMostOne(HangingUp) /\ AtMostOne(Leaving) /\ AtMostOne(Freeing)
  /\ connected <=> ~TxDone /\ ~RxDone
  /\ Doomed <=> TxDone /\ RxDone
  /\ freed => \A t \in Threads : ~Freeing(t)

-----------------------------------------------------------------------------
\* Properties.

AllIdle == \A t \in Threads : pc[t] = "idle"

\* Once the control block is deallocated nothing can reach it any more: there
\* is no endpoint left and no call is between two of its steps.
NoUseAfterFree == freed => tx = {} /\ rx = {} /\ AllIdle

\* The assertions of ControlBlockRef::drop, and that it runs only once.
FreeAssertions ==
  \A t \in Threads : pc[t] = "free" =>
    /\ ~connected /\ senders = 0 /\ receivers = 0
    /\ ~freed /\ \A u \in Threads : pc[u] = "free" => u = t

\* When every endpoint has been dropped, so has the control block.
NoLeak == tx = {} /\ rx = {} /\ AllIdle => freed

\* Receiver r may still index its slot.
Owns(r) ==
  /\ r \in rx /\ slot[r] # None
  /\ \A t \in Threads : ~(call[t] = "drop_rx" /\ end[t] = r)

\* No two receivers ever share a slot, and a slot a receiver may still index
\* is registered: indexing the slot map never panics.
SlotsAreOwned ==
  /\ \A r \in Receivers : Owns(r) => items[slot[r]] # Vacant
  /\ \A r, q \in Receivers : Owns(r) /\ Owns(q) /\ slot[r] = slot[q] => r = q
  /\ \A r \in Receivers \ rx : slot[r] = None

\* No message is lost or duplicated: each is with its sender, in the hands of
\* one call, pending in the buffer once, or settled.
EachMessageInOnePlace ==
  \A m \in Messages :
    Cardinality({t \in Threads : hand[t] = m})
      + Cardinality({i \in DOMAIN buffer : buffer[i] = m})
      + (IF m \in unsent THEN 1 ELSE 0) + (IF m \in settled THEN 1 ELSE 0) = 1

\* A receiver that has read a zero sender count can trust it: no push is in
\* flight or will ever come, so an empty buffer stays empty once it answers
\* Disconnected (a poll answers with empty hands).
HangupIsFinal ==
  \A t \in Threads :
    /\ pc[t] \in {"drain", "redrain"} =>
         tx = {} /\ \A u \in Threads : pc[u] # "push"
    /\ pc[t] = "remove" /\ hand[t] = None =>
         buffer = <<>> /\ tx = {} /\ \A u \in Threads : pc[u] # "push"

Asleep(t) == pc[t] = "parked" /\ ~woken[t]

\* A receiver asleep can be woken: its waker is in its slot, or has been
\* popped by a call that is about to wake it.
SleeperIsReachable ==
  \A t \in Threads : Asleep(t) =>
    items[MySlot(t)] = t \/ \E u \in Threads : waker[u] = t

\* Thread t pops a waker, or has popped one, on behalf of others.
Notifying(t) == pc[t] \in {"pop", "scan", "wake"}

\* Thread t is in the middle of a poll: it will look at the buffer again or
\* leave the slot of its receiver empty.
Polling(t) ==
  /\ call[t] \in {"recv", "poll_next"}
  /\ ~Asleep(t)

\* While a message is pending and a receiver is asleep, somebody owes a wake:
\* a call that notifies, a poll that is not asleep, or an endpoint out of use
\* whose slot is empty, so that its drop passes the wake on.
WakeIsOwed ==
  buffer # <<>> /\ (\E t \in Threads : Asleep(t)) =>
    \/ \E t \in Threads : Notifying(t) \/ Polling(t)
    \/ \E r \in rx : slot[r] # None /\ items[slot[r]] = Empty

Resting == \A t \in Threads : pc[t] = "idle" \/ Asleep(t)

\* The documentation of recv: it blocks until a message is sent ...
SendReachesSleepers ==
  Resting /\ (\E t \in Threads : Asleep(t)) => buffer = <<>>

\* ... or the channel disconnects.
HangupReachesSleepers ==
  Resting /\ (\E t \in Threads : Asleep(t)) => senders > 0

\* The same as a liveness property: once the last sender is gone, no call to
\* recv stays in progress.
HangupEndsRecv ==
  \A t \in Threads : senders = 0 /\ call[t] = "recv" ~> call[t] # "recv"

\* Sending and try_recv never block, and neither do the drops, whatever the
\* other threads do: the last sender does not wake receivers for ever, for a
\* receiver that sees the hang-up does not come back to the waitlist.
CallsEnd ==
  \A t \in Threads :
    LET Busy == call[t] \in {"send", "try_recv", "drop_tx", "drop_rx"}
    IN  Busy ~> ~Busy

\* As long as receivers come back, no message is stranded in the buffer while
\* they sleep: the wakes that sends, polls and drops owe one another suffice.
PendingIsReceived == buffer # <<>> ~> buffer = <<>>

=============================================================================
