----------------------------- MODULE SinkProofs -----------------------------
(***************************************************************************)
(* Theorems about channels with sinks, for any capacity, any set of        *)
(* threads, any finite sets of endpoints and any assignment of calls to    *)
(* threads: every client of Sink sees a Channel, a sink overwrites one     *)
(* message before it yields, what holds of RingChannel holds although      *)
(* tasks that yield are woken by themselves, and the client programs of    *)
(* Programs are clients in this sense.                                     *)
(***************************************************************************)
EXTENDS Programs, MessagesProofs, WakesProofs

-----------------------------------------------------------------------------
\* Refinement.  An answer of Disconnected needs Drained; the others need
\* CallsHoldEnds and the life of the control block.

RInv == IndInv /\ Drained

\* What the refinement mapping makes of the messages in flight.
Way == [t \in Threads |-> OnItsWay(t)]

LEMMA WayOf == \A t \in Threads : Way[t] = OnItsWay(t)
BY DEF Way

\* Two values of Way that agree everywhere are the same.
LEMMA WaySame ==
  ASSUME \A u \in Threads : OnItsWay(u)' = OnItsWay(u)
  PROVE  Way' = Way
BY DEF Way

\* A step of a call that neither is about to push nor comes to be.
LEMMA NotPushing ==
  ASSUME TypeOK, NEW t \in Threads, pc[t] # "push",
         \/ \E step \in Steps \ {"push"} : Goto(t, step)
         \/ Return(t)
         \/ \E c, e : \E step \in Steps \ {"push"} : Enter(t, c, e, step)
         \/ UNCHANGED pc,
         \A u \in Threads \ {t} : hand'[u] = hand[u]
  PROVE  Way' = Way
<1>1. pc'[t] # "push" /\ \A u \in Threads \ {t} : pc'[u] = pc[u]
  BY DEF Goto, Return, Enter, TypeOK
<1>2. \A u \in Threads : OnItsWay(u)' = OnItsWay(u)
  BY <1>1 DEF OnItsWay
<1> QED
  BY <1>2, WaySame

\* A message is on its way only from a sender that exists, to a channel that does.
LEMMA PushIsHeld ==
  ASSUME IndInv, NEW t \in Threads, pc[t] = "push"
  PROVE  /\ end[t] \in tx /\ call[t] = "send" /\ ~freed
         /\ hand[t] \in Messages /\ OnItsWay(t) = hand[t]
<1>0. TypeOK /\ LifetimeInv /\ CallsHoldEnds
  BY DEF IndInv, LifetimeInv
<1>1. call[t] = "send" /\ end[t] \in tx
  BY <1>0 DEF CallsHoldEnds, TypeOK, TxCalls, RxCalls, PollSteps, Borrowing
<1>2. ~freed
  BY <1>0, <1>1 DEF LifetimeInv, Doomed, TxDone
<1>3. hand[t] \in Messages
  BY <1>0 DEF CallsHoldEnds, TypeOK
<1> QED
  BY <1>1, <1>2, <1>3 DEF OnItsWay

LEMMA NobodyPushes ==
  ASSUME IndInv, tx = {}
  PROVE  \A t \in Threads : OnItsWay(t) = None
BY PushIsHeld DEF OnItsWay

\* A call that polls has a receiver.
LEMMA LookingIsHeld ==
  ASSUME IndInv, NEW t \in Threads, Looking(t)
  PROVE  rx # {} /\ pc[t] # "push"
BY DEF IndInv, LifetimeInv, CallsHoldEnds, TypeOK, Looking, TxCalls, RxCalls, Borrowing

-----------------------------------------------------------------------------
\* One lemma for each of the steps that the clients can tell from a stutter.

\* The step of Channel, with the refinement mapping spelled out.
Promised ==
  \/ Promise!Next
  \/ UNCHANGED <<buffer, tx, rx, Way, answer, freed>>

LEMMA SendRefines ==
  ASSUME RInv, NEW t \in Threads, NEW s \in Senders, NEW m \in Messages, ASend(t, s, m)
  PROVE  Promise!Next
<1>0. TypeOK /\ receivers = Cardinality(rx) /\ receivers \in Nat
  BY DEF RInv, IndInv, TypeOK, LifetimeInv
<1>1. /\ tx # {} /\ pc[t] = "idle"
      /\ UNCHANGED <<buffer, tx, rx, freed>>
  BY DEF ASend, Send, MayEnter, block, ends
<1>2. OnItsWay(t) = None
  BY <1>1 DEF OnItsWay
<1>3. CASE receivers > 0
  <2>1. rx # {}
    BY <1>0, <1>3, FS_EmptySet
  <2>2. hand' = [hand EXCEPT ![t] = m] /\ Enter(t, "send", s, "push") /\ Answer(t, None)
    BY <1>3 DEF ASend, Send
  <2>3. OnItsWay(t)' = m /\ \A u \in Threads \ {t} : OnItsWay(u)' = OnItsWay(u)
    BY <1>0, <2>2 DEF Enter, OnItsWay, TypeOK
  <2>4. Way' = [Way EXCEPT ![t] = m]
    BY <2>3 DEF Way
  <2>5. Promise!Accept(t, m)
    BY <1>1, <1>2, <2>1, <2>2, <2>4, WayOf DEF Promise!Accept, Promise!Answer, Answer, Way
  <2> QED
    BY <2>5 DEF Promise!Next
<1>4. CASE ~(receivers > 0)
  <2>1. rx = {}
    BY <1>0, <1>4, EndsAreFinite, FS_EmptySet
  <2>2. UNCHANGED <<pc, hand>> /\ Answer(t, Refused(m))
    BY <1>4 DEF ASend, Send, thread
  <2>3. Way' = Way
    BY <2>2, WaySame DEF OnItsWay
  <2>4. Promise!Refuse(t, m)
    BY <1>1, <2>1, <2>2, <2>3 DEF Promise!Refuse, Promise!Answer, Promise!Refused, Refused, Answer, Way
  <2> QED
    BY <2>4 DEF Promise!Next
<1> QED
  BY <1>3, <1>4

LEMMA PushRefines ==
  ASSUME RInv, NEW t \in Threads, APush(t)
  PROVE  Promise!Next
<1>0. TypeOK /\ IndInv /\ pc[t] = "push"
  BY DEF RInv, IndInv, APush, Push
<1>1. hand[t] \in Messages /\ OnItsWay(t) = hand[t] /\ ~freed /\ hand[t] # None
  BY <1>0, PushIsHeld, RingBufferAssumption
<1>2. /\ BufferPush(hand[t]) /\ hand' = [hand EXCEPT ![t] = None]
      /\ Goto(t, "pop") \/ Return(t)
      /\ Answer(t, Sent(Overwritten)) /\ UNCHANGED <<tx, rx, freed>>
  BY DEF APush, Push, block, ends
<1>3. OnItsWay(t)' = None /\ \A u \in Threads \ {t} : OnItsWay(u)' = OnItsWay(u)
  BY <1>0, <1>2 DEF Goto, Return, OnItsWay, TypeOK
<1>4. Way' = [Way EXCEPT ![t] = None]
  BY <1>3 DEF Way
<1>5. Way[t] = hand[t]
  BY <1>1, WayOf
<1>6. Promise!Enqueue(t)
  BY <1>1, <1>2, <1>4, <1>5
  DEF Promise!Enqueue, Promise!Answer, Promise!Sent, Sent, Answer, Way, BufferPush, Overwritten,
      HasRoom
<1> QED
  BY <1>6 DEF Promise!Next

LEMMA ReceiveRefines ==
  ASSUME RInv, NEW t \in Threads, NEW r \in Receivers, NEW c \in RxCalls, AReceive(t, r, c)
  PROVE  Promise!Next
<1>1. /\ pc[t] = "idle" /\ Enter(t, c, r, "load") /\ Answer(t, None)
      /\ UNCHANGED <<buffer, tx, rx, hand, freed>>
  BY DEF AReceive, Receive, MayEnter, block, ends, msgs
<1>2. Way' = Way
  BY <1>1, NotPushing DEF RInv, IndInv, Steps
<1>3. Promise!Ask(t)
  BY <1>1, <1>2 DEF Promise!Ask, Promise!Answer, Answer, Way
<1> QED
  BY <1>3 DEF Promise!Next

LEMMA TakeRefines ==
  ASSUME RInv, NEW t \in Threads, ATakeMessage(t)
  PROVE  Promise!Next
<1>1. /\ BufferPop
      /\ Goto(t, "remove") \/ Return(t)
      /\ \A u \in Threads \ {t} : hand'[u] = hand[u]
      /\ Answer(t, Received(Head(buffer))) /\ UNCHANGED <<tx, rx, freed>>
  BY DEF ATakeMessage, TakeMessage, block, ends, RInv, IndInv, TypeOK
<1>2. rx # {} /\ pc[t] # "push"
  BY LookingIsHeld DEF ATakeMessage, TakeMessage, RInv
<1>3. Way' = Way
  BY <1>1, <1>2, NotPushing DEF RInv, IndInv, Steps
<1>4. Promise!Deliver(t)
  BY <1>1, <1>2, <1>3
  DEF Promise!Deliver, Promise!Answer, Promise!Received, Received, Answer, Way, BufferPop
<1> QED
  BY <1>4 DEF Promise!Next

LEMMA EmptyRefines ==
  ASSUME RInv, NEW t \in Threads, AFindEmpty(t)
  PROVE  Promise!Next
<1>0. IndInv /\ TypeOK /\ Looking(t)
  BY DEF RInv, IndInv, AFindEmpty, FindEmpty
<1>1. /\ buffer = <<>> /\ UNCHANGED <<buffer, tx, rx, hand, freed>>
      /\ (\E step \in {"insert", "parked", "remove"} : Goto(t, step)) \/ Return(t)
  BY DEF AFindEmpty, FindEmpty, AfterEmpty, block, ends, msgs
<1>2. rx # {} /\ pc[t] # "push"
  BY <1>0, LookingIsHeld
<1>3. Way' = Way
  BY <1>0, <1>1, <1>2, NotPushing DEF Steps
<1>4. CASE AnswersClosed(t)
  <2>1. tx = {}
    BY <1>4 DEF RInv, Drained, AnswersClosed
  <2>2. \A u \in Threads : Way[u] = None
    BY <1>0, <2>1, NobodyPushes, WayOf
  <2>3. Answer(t, Closed)
    BY <1>4 DEF AFindEmpty
  <2>4. Promise!FindClosed(t)
    BY <1>1, <1>2, <1>3, <2>1, <2>2, <2>3
    DEF Promise!FindClosed, Promise!NobodySends, Promise!Answer, Promise!Closed, Closed, Answer,
        Way
  <2> QED
    BY <2>4 DEF Promise!Next
<1>5. CASE ~AnswersClosed(t) /\ LooksAgain(t)
  <2>1. Answer(t, None)
    BY <1>5 DEF AFindEmpty
  <2>2. Promise!Ask(t)
    BY <1>1, <1>3, <2>1 DEF Promise!Ask, Promise!Answer, Answer, Way
  <2> QED
    BY <2>2 DEF Promise!Next
<1>6. CASE ~AnswersClosed(t) /\ ~LooksAgain(t)
  <2>1. Answer(t, NothingYet)
    BY <1>6 DEF AFindEmpty
  <2>2. Promise!FindNothing(t)
    BY <1>1, <1>2, <1>3, <2>1
    DEF Promise!FindNothing, Promise!Answer, Promise!NothingYet, NothingYet, Answer, Way
  <2> QED
    BY <2>2 DEF Promise!Next
<1> QED
  BY <1>4, <1>5, <1>6

LEMMA ResumeRefines ==
  ASSUME RInv, NEW t \in Threads, AResume(t)
  PROVE  Promise!Next
<1>1. /\ pc[t] = "parked" /\ Goto(t, "load") /\ Answer(t, None)
      /\ UNCHANGED <<buffer, tx, rx, hand, freed>>
  BY DEF AResume, Resume, block, ends, msgs
<1>2. Way' = Way
  BY <1>1, NotPushing DEF RInv, IndInv, Steps
<1>3. Promise!Ask(t)
  BY <1>1, <1>2 DEF Promise!Ask, Promise!Answer, Answer, Way
<1> QED
  BY <1>3 DEF Promise!Next

-----------------------------------------------------------------------------
\* The calls and steps that decide no answer.

LEMMA CloneTxRefines ==
  ASSUME RInv, NEW t \in Threads, NEW s \in Senders, NEW new \in Senders,
         CloneTx(t, s, new), UNCHANGED answer
  PROVE  Promise!Next
<1>1. /\ s \in tx /\ tx' = tx \cup {new}
      /\ UNCHANGED <<buffer, rx, pc, hand, freed>>
  BY DEF CloneTx, thread, msgs
<1>2. Way' = Way
  BY <1>1, WaySame DEF OnItsWay
<1>3. Promise!Handle
  BY <1>1, <1>2 DEF Promise!Handle, Promise!OpenTx, Way
<1> QED
  BY <1>3 DEF Promise!Next

LEMMA SilentCallRefines ==
  ASSUME RInv, NEW t \in Threads, SilentCall(t), UNCHANGED answer
  PROVE  Promised
<1>0. TypeOK /\ IndInv /\ CallsHoldEnds
  BY DEF RInv, IndInv, LifetimeInv
<1>1. ASSUME NEW r \in Receivers, NEW new \in Receivers, CloneRx(t, r, new)
      PROVE  Promised
  <2>1. /\ r \in rx /\ rx' = rx \cup {new} /\ pc[t] = "idle"
        /\ Enter(t, "clone_rx", r, "register")
        /\ UNCHANGED <<buffer, tx, hand, freed>>
    BY <1>1 DEF CloneRx, Usable, MayEnter, msgs
  <2>2. Way' = Way
    BY <1>0, <2>1, NotPushing DEF Steps
  <2>3. Promise!Handle
    BY <2>1, <2>2 DEF Promise!Handle, Promise!OpenRx, Way
  <2> QED
    BY <2>3 DEF Promise!Next, Promised
<1>2. ASSUME NEW s \in Senders, DropTx(t, s)
      PROVE  Promised
  <2>1. /\ tx' = tx \ {s} /\ MayBorrow("drop_tx", s) /\ pc[t] = "idle"
        /\ Enter(t, "drop_tx", s, "pop") \/ UNCHANGED pc
        /\ UNCHANGED <<buffer, rx, hand, freed>>
    BY <1>2 DEF DropTx, MayEnter, thread, msgs
  <2>2. Way' = Way
    BY <1>0, <2>1, NotPushing DEF Steps
  <2>3. ASSUME tx = {s}
        PROVE  \A u \in Threads : Way[u] = None
    <3>1. \A u \in Threads : pc[u] # "push"
      BY <1>0, <2>1, <2>3, PushIsHeld DEF MayBorrow, Uses, ExclusiveCalls
    <3> QED
      BY <3>1, WayOf DEF OnItsWay
  <2>4. Promise!Handle
    BY <2>1, <2>2, <2>3 DEF Promise!Handle, Promise!CloseTx, Promise!NobodySends, Way
  <2> QED
    BY <2>4 DEF Promise!Next, Promised
<1>3. ASSUME NEW r \in Receivers, DropRx(t, r)
      PROVE  Promised
  <2>1. /\ pc[t] = "idle" /\ \E step \in {"pop", "release"} : Enter(t, "drop_rx", r, step)
        /\ UNCHANGED <<buffer, tx, rx, hand, freed>>
    BY <1>3 DEF DropRx, MayEnter, block, ends, msgs
  <2>2. Way' = Way
    BY <1>0, <2>1, NotPushing DEF Steps
  <2> QED
    BY <2>1, <2>2 DEF Promised
<1>4. CASE Abandon(t)
  <2>1. /\ pc[t] = "parked" /\ Return(t) /\ UNCHANGED <<buffer, tx, rx, hand, freed>>
    BY <1>4 DEF Abandon, block, ends, msgs
  <2>2. Way' = Way
    BY <1>0, <2>1, NotPushing
  <2> QED
    BY <2>1, <2>2 DEF Promised
<1> QED
  BY <1>1, <1>2, <1>3, <1>4 DEF SilentCall

LEMMA SilentStepRefines ==
  ASSUME RInv, NEW t \in Threads, SilentStep(t), UNCHANGED answer
  PROVE  Promised
<1>0. TypeOK /\ IndInv /\ LifetimeInv
  BY DEF RInv, IndInv
<1>1. CASE LockWaitlist(t) \/ PassSlot(t) \/ TakeWaker(t) \/ FindNoWaker(t) \/ Wake(t)
           \/ Load(t) \/ Insert(t) \/ Register(t) \/ Swap(t)
  <2>1. /\ pc[t] # "push" /\ UNCHANGED <<buffer, tx, rx, hand, freed>>
        /\ \/ \E step \in Steps \ {"push"} : Goto(t, step)
           \/ Return(t)
           \/ UNCHANGED pc
    BY <1>1
    DEF LockWaitlist, PassSlot, TakeWaker, FindNoWaker, Wake, Load, Insert, Register, Swap,
        AfterNone, AfterWake, block, ends, msgs, thread, Steps
  <2>2. Way' = Way
    BY <1>0, <2>1, NotPushing
  <2> QED
    BY <2>1, <2>2 DEF Promised
<1>2. CASE Remove(t)
  <2>1. /\ pc[t] = "remove" /\ Return(t) /\ UNCHANGED <<buffer, tx, rx, freed>>
        /\ \A u \in Threads \ {t} : hand'[u] = hand[u]
    BY <1>0, <1>2 DEF Remove, block, ends, TypeOK
  <2>2. Way' = Way
    BY <1>0, <2>1, NotPushing
  <2> QED
    BY <2>1, <2>2 DEF Promised
<1>3. CASE Release(t)
  <2>1. /\ pc[t] = "release" /\ rx' = rx \ {end[t]}
        /\ Goto(t, "swap") \/ Return(t)
        /\ UNCHANGED <<buffer, tx, hand, freed>>
    BY <1>3 DEF Release, msgs
  <2>2. Way' = Way
    BY <1>0, <2>1, NotPushing DEF Steps
  <2>3. end[t] \in Receivers \/ rx' = rx
    BY <1>0, <2>1 DEF TypeOK
  <2>4. CASE end[t] \in Receivers
    <3>1. Promise!Handle
      BY <2>1, <2>2, <2>4 DEF Promise!Handle, Promise!CloseRx, Way
    <3> QED
      BY <3>1 DEF Promise!Next, Promised
  <2> QED
    BY <2>1, <2>2, <2>3, <2>4 DEF Promised
<1>4. CASE Free(t)
  <2>1. /\ pc[t] = "free" /\ freed' = TRUE /\ buffer' = <<>> /\ Return(t)
        /\ UNCHANGED <<tx, rx, hand>>
    BY <1>4 DEF Free, ends
  <2>2. Way' = Way
    BY <1>0, <2>1, NotPushing
  <2>3. tx = {} /\ rx = {} /\ ~freed
    BY <1>0, <2>1 DEF LifetimeInv, Doomed, Freeing, TxDone, RxDone
  <2>4. Promise!Destroy
    BY <2>1, <2>2, <2>3 DEF Promise!Destroy, Way
  <2> QED
    BY <2>4 DEF Promise!Next, Promised
<1> QED
  BY <1>1, <1>2, <1>3, <1>4 DEF SilentStep

-----------------------------------------------------------------------------
\* A client of Sink takes the steps of RingChannel, but for those in which a task
\* that yields wakes itself or is polled again: these touch its notification
\* flag and nothing else, while it is in no call.

Nudge(t) ==
  /\ pc[t] = "idle"
  /\ \A u \in Threads \ {t} : woken'[u] = woken[u]
  /\ woken' \in [Threads -> BOOLEAN]
  /\ UNCHANGED <<block, ends, thread, waker, msgs, waitlist>>

YieldersIdle == yielding \subseteq Threads /\ \A t \in yielding : pc[t] = "idle"

LEMMA ClientMoves ==
  ASSUME TypeOK, YieldersIdle, NEW t \in Threads, SClient(t)
  PROVE  \/ Nudge(t) /\ yielding' \subseteq yielding \cup {t}
         \/ Client(t) /\ t \notin yielding /\ UNCHANGED yielding
<1>1. CASE Repoll(t)
  BY <1>1 DEF Repoll, Nudge, YieldersIdle, TypeOK
<1>2. ASSUME NEW s \in Senders, SinkPending(t, s)
      PROVE  Nudge(t) /\ yielding' \subseteq yielding \cup {t}
  BY <1>2 DEF SinkPending, Exclusive, Nudge, TypeOK
<1>3. ASSUME NEW s \in Senders, NEW m \in Messages,
             (ASend(t, s, m) /\ UNCHANGED sinks) \/ StartSend(t, s, m)
      PROVE  Client(t) /\ UNCHANGED yielding
  BY <1>3 DEF StartSend, ASend, Client, sinks
<1>4. ASSUME NEW s \in Senders, NEW new \in Senders, SCloneTx(t, s, new)
      PROVE  Client(t) /\ UNCHANGED yielding
  BY <1>4 DEF SCloneTx, Client
<1>5. ASSUME NEW r \in Receivers, NEW c \in RxCalls, AReceive(t, r, c), UNCHANGED sinks
      PROVE  Client(t) /\ UNCHANGED yielding
  BY <1>5 DEF AReceive, Client, sinks
<1>6. CASE SilentCall(t) /\ UNCHANGED <<answer, sinks>> /\ t \notin yielding
  <2>1. Client(t)
    BY <1>6 DEF SilentCall, Client
  <2>2. UNCHANGED yielding
    BY <1>6 DEF sinks
  <2> QED
    BY <1>6, <2>1, <2>2
<1>7. CASE ~Repoll(t)
  <2>1. t \notin yielding
    BY <1>7 DEF SClient
  <2> QED
    BY <1>2, <1>3, <1>4, <1>5, <1>6, <1>7, <2>1 DEF SClient
<1> QED
  BY <1>1, <1>7

LEMMA StepMoves ==
  ASSUME NEW t \in Threads, SStep(t)
  PROVE  Step(t) /\ UNCHANGED yielding
BY DEF SStep, SPush, APush, ATakeMessage, AFindEmpty, AResume, SilentStep, Step, sinks

LEMMA SinkMoves ==
  ASSUME TypeOK, YieldersIdle, [SNext]_svars
  PROVE  [Next]_vars \/ \E t \in Threads : Nudge(t)
BY ClientMoves, StepMoves DEF SNext, Next, svars, avars

LEMMA KeepsYieldersIdle ==
  ASSUME IndInv, YieldersIdle, [SNext]_svars
  PROVE  YieldersIdle'
<1>0. TypeOK
  BY DEF IndInv
<1>1. CASE UNCHANGED svars
  BY <1>1 DEF svars, avars, vars, thread, sinks, YieldersIdle
<1>2. ASSUME NEW t \in Threads, Nudge(t), yielding' \subseteq yielding \cup {t}
      PROVE  YieldersIdle'
  BY <1>2 DEF Nudge, thread, YieldersIdle
<1>3. ASSUME NEW t \in Threads, Client(t) \/ Step(t), t \notin yielding, UNCHANGED yielding
      PROVE  YieldersIdle'
  BY <1>0, <1>3, OthersStay DEF YieldersIdle
<1>4. ASSUME NEW t \in Threads, Step(t)
      PROVE  pc[t] # "idle"
  BY <1>4
  DEF Step, Push, LockWaitlist, PassSlot, TakeWaker, FindNoWaker, Wake, Load, TakeMessage,
      FindEmpty, Looking, Insert, Remove, Resume, Register, Release, Swap, Free
<1>5. ASSUME NEW t \in Threads, SStep(t)
      PROVE  YieldersIdle'
  BY <1>3, <1>4, <1>5, StepMoves DEF YieldersIdle
<1> QED
  BY <1>0, <1>1, <1>2, <1>3, <1>5, ClientMoves DEF SNext

-----------------------------------------------------------------------------
\* What the proofs about RingChannel have shown of its steps holds of a nudge
\* too: only a receiver that sleeps is told anything by its flag.

LEMMA NudgeKeepsIndInv ==
  ASSUME IndInv, NEW t \in Threads, Nudge(t)
  PROVE  IndInv'
<1>1. TypeOK'
  BY DEF IndInv, TypeOK, Nudge, block, ends, thread, msgs, waitlist, BufferTypeOK, WaitlistTypeOK
<1>2. LifetimeInv'
  BY DEF IndInv, LifetimeInv, CallsHoldEnds, AtMostOne, HangingUp, Leaving, Freeing, TxDone,
         RxDone, Doomed, Nudge, block, ends, thread, msgs
<1> QED
  BY <1>1, <1>2 DEF IndInv

LEMMA NudgeKeepsSlotInv ==
  ASSUME SlotInv, NEW t \in Threads, Nudge(t)
  PROVE  SlotInv'
BY DEF SlotInv, SlotsAreOwned, UsersHaveSlots, SlotsHaveOwners, StepsOfWaits, Owns, Waits,
       Nudge, block, ends, thread, waitlist

LEMMA NudgeKeepsMessages ==
  ASSUME Drained, PlacesInv, NEW t \in Threads, Nudge(t)
  PROVE  Drained' /\ PlacesInv'
<1>1. Drained'
  BY DEF Drained, Nudge, ends, thread, msgs
<1>2. PlacesInv'
  BY DEF PlacesInv, Partition, OneHandEach, Injective, Held, Pending, Nudge, thread, msgs
<1> QED
  BY <1>1, <1>2

LEMMA NudgeKeepsOwed ==
  ASSUME Owed, NEW t \in Threads, Nudge(t)
  PROVE  Owed'
BY DEF Owed, Owing, WillLook, WillFind, Spare, Owns, Waits, Asleep, Nudge, ends, thread, msgs,
       waitlist

LEMMA NudgeKeepsSleepers ==
  ASSUME SleepInv, Covered, NEW t \in Threads, Nudge(t)
  PROVE  SleepInv' /\ Covered'
<1> USE DEF Nudge, ends, thread, waitlist
<1>1. \A u \in Threads : pc[u] # "idle" => (Called(u)' <=> Called(u))
  BY DEF Called
<1>2. SleepInv'
  BY <1>1 DEF SleepInv, OnePoll, WakersInHand, Reachable, Enlisted, Waits, MySlot
<1>3. Covered'
  BY <1>1 DEF Covered, Sleepy, HangsUp, MySlot
<1> QED
  BY <1>2, <1>3

\* The inductive invariant of a channel with sinks.
ChannelInv == IndInv /\ SlotInv /\ Drained /\ PlacesInv /\ Owed
SinkInv == ChannelInv /\ YieldersIdle

LEMMA InitChannelInv ==
  ASSUME Init
  PROVE  ChannelInv
<1>1. SlotInv
  BY WaitlistAssumption, RingChannelAssumption
  DEF Init, WaitlistInit, SlotInv, SlotsAreOwned, Owns, UsersHaveSlots, SlotsHaveOwners,
      StepsOfWaits, RxCalls, Waits
<1>2. Drained /\ Owed
  BY DEF Init, BufferInit, Drained, Owed
<1>3. PlacesInv
  BY RingBufferAssumption
  DEF Init, BufferInit, PlacesInv, Partition, OneHandEach, Injective, Held, Pending
<1> QED
  BY <1>1, <1>2, <1>3, InitIndInv DEF ChannelInv

LEMMA SinksKeepChannelInv ==
  ASSUME SinkInv, [SNext]_svars
  PROVE  SinkInv'
<1>1. ASSUME NEW t \in Threads, Nudge(t)
      PROVE  ChannelInv'
  BY <1>1, NudgeKeepsIndInv, NudgeKeepsSlotInv, NudgeKeepsMessages, NudgeKeepsOwed
  DEF SinkInv, ChannelInv
<1>2. ASSUME [Next]_vars
      PROVE  ChannelInv'
  BY <1>2, NextIndInv, NextSlotInv, NextDrained, NextPlaces, NextOwed DEF SinkInv, ChannelInv
<1>3. YieldersIdle'
  BY KeepsYieldersIdle DEF SinkInv, ChannelInv
<1> QED
  BY <1>1, <1>2, <1>3, SinkMoves DEF SinkInv, ChannelInv, IndInv

LEMMA AlwaysSinkInv == SSpec => []SinkInv
<1>1. SInit => SinkInv
  BY InitChannelInv DEF SInit, AInit, SinkInv, YieldersIdle
<1> QED
  BY <1>1, SinksKeepChannelInv, PTL DEF SSpec

-----------------------------------------------------------------------------
\* Every property of RingChannel holds of a channel whose senders are sinks: no
\* yield loses a wake or a message, or outlives the channel's memory.
THEOREM SinksAreSafe ==
  SSpec => [](/\ TypeOK /\ LifetimeInv /\ NoUseAfterFree /\ FreeAssertions /\ NoLeak
              /\ SlotsAreOwned /\ EachMessageInOnePlace /\ HangupIsFinal /\ WakeIsOwed)
<1>1. SinkInv => /\ TypeOK /\ LifetimeInv /\ NoUseAfterFree /\ FreeAssertions /\ NoLeak
                 /\ SlotsAreOwned /\ EachMessageInOnePlace /\ HangupIsFinal /\ WakeIsOwed
  BY UnusedAfterFree, FreesOnce, LeaksNothing, PlacesCounted, HangupStands, OwedToSleepers
  DEF SinkInv, ChannelInv, IndInv, SlotInv
<1> QED
  BY <1>1, AlwaysSinkInv, PTL

LEMMA SinksKeepSleepers ==
  ASSUME SharedRecv = FALSE, SinkInv, SleepInv, Covered, [SNext]_svars
  PROVE  SleepInv' /\ Covered'
<1>1. IndInv /\ SlotInv /\ TypeOK /\ YieldersIdle
  BY DEF SinkInv, ChannelInv, IndInv
<1>2. CASE [Next]_vars
  <2>1. SleepInv'
    BY <1>1, <1>2, NextSleepInv
  <2>2. Covered'
    BY <1>1, <1>2, NextCovered
  <2> QED
    BY <2>1, <2>2
<1> QED
  BY <1>1, <1>2, NudgeKeepsSleepers, SinkMoves

LEMMA AlwaysSleepers ==
  ASSUME SharedRecv = FALSE
  PROVE  SSpec => [](SinkInv /\ SleepInv /\ Covered)
<1>1. SInit => SleepInv /\ Covered
  BY RingChannelAssumption
  DEF SInit, AInit, Init, SleepInv, OnePoll, WakersInHand, Reachable, Enlisted, Waits, RxCalls,
      Covered, Sleepy
<1>2. SinkInv /\ SleepInv /\ Covered /\ [SNext]_svars => (SleepInv /\ Covered)'
  BY SinksKeepSleepers
<1> QED
  BY <1>1, <1>2, AlwaysSinkInv, PTL DEF SSpec

\* Nor does a yield take a wake that a receiver asleep is waiting for: a receiver
\* that sleeps can be woken, and does not sleep on after the last sender is gone.
THEOREM SinksWakeSleepers ==
  ASSUME SharedRecv = FALSE
  PROVE  SSpec => [](SleeperIsReachable /\ HangupReachesSleepers)
<1>1. SinkInv /\ SleepInv /\ Covered => SleeperIsReachable /\ HangupReachesSleepers
  BY SleepersReached, HangupReached DEF SinkInv, ChannelInv
<1> QED
  BY <1>1, AlwaysSleepers, PTL

\* With one receiver, a message that a sink has sent does not wait while the
\* receiver sleeps.
THEOREM SinksReachTheSleeper ==
  ASSUME SharedRecv = FALSE, \A r, q \in Receivers : r = q
  PROVE  SSpec => []SendReachesSleepers
<1>1. SinkInv /\ SleepInv => SendReachesSleepers
  BY SendsReach DEF SinkInv, ChannelInv
<1> QED
  BY <1>1, AlwaysSleepers, PTL

-----------------------------------------------------------------------------
\* The refinement of Channel.

LEMMA InitRefines == SInit => Promise!Init
<1> SUFFICES ASSUME SInit
             PROVE  Promise!Init
  OBVIOUS
<1>1. [t \in Threads |-> OnItsWay(t)] = [t \in Threads |-> None]
  BY DEF SInit, AInit, Init, OnItsWay
<1>2. /\ buffer = <<>> /\ ~freed
      /\ tx \in (SUBSET Senders) \ {{}} /\ rx \in (SUBSET Receivers) \ {{}}
      /\ answer = [t \in Threads |-> None]
  BY RingChannelAssumption DEF SInit, AInit, Init, BufferInit
<1> QED
  BY <1>1, <1>2 DEF Promise!Init

\* A yield is a stutter: the clients of the channel cannot tell it from nothing.
LEMMA NudgeRefines ==
  ASSUME NEW t \in Threads, Nudge(t), UNCHANGED answer
  PROVE  Promised
<1>1. UNCHANGED <<buffer, tx, rx, pc, hand, freed>>
  BY DEF Nudge, block, ends, thread, msgs
<1>2. Way' = Way
  BY <1>1, WaySame DEF OnItsWay
<1> QED
  BY <1>1, <1>2 DEF Promised

LEMMA ClientRefines ==
  ASSUME RInv, YieldersIdle, NEW t \in Threads, SClient(t)
  PROVE  Promised
<1>1. CASE Repoll(t)
  <2>1. Nudge(t) /\ UNCHANGED answer
    BY <1>1 DEF Repoll, Nudge, YieldersIdle, RInv, IndInv, TypeOK
  <2> QED
    BY <2>1, NudgeRefines
<1>2. ASSUME NEW s \in Senders, SinkPending(t, s)
      PROVE  Promised
  <2>1. Nudge(t) /\ UNCHANGED answer
    BY <1>2 DEF SinkPending, Exclusive, Nudge, RInv, IndInv, TypeOK
  <2> QED
    BY <2>1, NudgeRefines
<1>3. ASSUME NEW s \in Senders, NEW m \in Messages, ASend(t, s, m) \/ StartSend(t, s, m)
      PROVE  Promised
  BY <1>3, SendRefines DEF StartSend, Promised
<1>4. ASSUME NEW s \in Senders, NEW new \in Senders, SCloneTx(t, s, new)
      PROVE  Promised
  BY <1>4, CloneTxRefines DEF SCloneTx, Promised
<1>5. ASSUME NEW r \in Receivers, NEW c \in RxCalls, AReceive(t, r, c)
      PROVE  Promised
  BY <1>5, ReceiveRefines DEF Promised
<1>6. CASE SilentCall(t) /\ UNCHANGED <<answer, sinks>>
  BY <1>6, SilentCallRefines
<1> QED
  BY <1>1, <1>2, <1>3, <1>4, <1>5, <1>6 DEF SClient

LEMMA StepRefines ==
  ASSUME RInv, NEW t \in Threads, SStep(t)
  PROVE  Promised
BY PushRefines, TakeRefines, EmptyRefines, ResumeRefines, SilentStepRefines
DEF SStep, SPush, Promised

LEMMA NextRefines == SinkInv /\ [SNext]_svars => [Promise!Next]_Promise!vars
<1> SUFFICES ASSUME SinkInv, [SNext]_svars
             PROVE  [Promise!Next]_Promise!vars
  OBVIOUS
<1>1. Promised => [Promise!Next]_Promise!vars
  BY DEF Promised, Promise!vars, Way
<1>2. RInv /\ YieldersIdle
  BY DEF SinkInv, ChannelInv, RInv
<1>3. CASE UNCHANGED svars
  <2>1. UNCHANGED <<buffer, tx, rx, pc, hand, freed, answer>>
    BY <1>3 DEF svars, avars, vars, block, ends, thread, msgs
  <2>2. Way' = Way
    BY <2>1, WaySame DEF OnItsWay
  <2> QED
    BY <1>1, <2>1, <2>2 DEF Promised
<1> QED
  BY <1>1, <1>2, <1>3, ClientRefines, StepRefines DEF SNext

\* The calls of a ring channel cannot be told from those of a bounded queue on
\* which each takes effect at once, whatever its clients do, sinks included.
THEOREM Refinement == SSpec => ImplementsChannel
BY InitRefines, NextRefines, AlwaysSinkInv, PTL DEF SSpec, ImplementsChannel, Promise!Spec

-----------------------------------------------------------------------------
\* One message is overwritten before the task yields.  Until then the flag
\* remembers it, and a start_send in progress has found the flag down and is
\* alone on its sender, so what it is about to count is the first.

SinksAlone ==
  /\ sinking \subseteq Threads
  /\ \A t \in sinking : call[t] = "send" /\ pc[t] = "push" /\ hurry[end[t]] = 0
  /\ \A t, u \in sinking : end[t] = end[u] => t = u

FlagRemembers ==
  /\ backoff \in [Senders -> BOOLEAN] /\ hurry \in [Senders -> {0, 1}]
  /\ \A s \in Senders : hurry[s] = 1 => backoff[s]

HurryInv == SinksAlone /\ FlagRemembers

\* A step of a thread that leaves the sinks as they are.
LEMMA OtherSteps ==
  ASSUME IndInv, HurryInv, NEW t \in Threads, t \notin sinking,
         Client(t) \/ Step(t), UNCHANGED <<sinking, hurry, backoff>>
  PROVE  HurryInv'
<1>1. \A u \in sinking : pc'[u] = pc[u] /\ call'[u] = call[u] /\ end'[u] = end[u]
  BY OthersStay DEF IndInv, HurryInv, SinksAlone
<1> QED
  BY <1>1 DEF HurryInv, SinksAlone, FlagRemembers

LEMMA StartSendHurry ==
  ASSUME IndInv, HurryInv, NEW t \in Threads, NEW s \in Senders, NEW m \in Messages,
         SinkReady(s), StartSend(t, s, m)
  PROVE  HurryInv'
<1>1. /\ pc[t] = "idle" /\ \A u \in Threads : ~Uses(u, s)
      /\ UNCHANGED <<backoff, hurry>>
  BY DEF StartSend, Exclusive
<1>2. t \notin sinking /\ Client(t)
  BY <1>1 DEF StartSend, ASend, Client, HurryInv, SinksAlone
<1>3. hurry[s] = 0
  BY DEF SinkReady, HurryInv, FlagRemembers
<1>4. CASE receivers > 0
  <2>1. sinking' = sinking \cup {t} /\ Enter(t, "send", s, "push")
    BY <1>4 DEF StartSend, ASend, Send
  <2>2. \A u \in sinking : pc'[u] = pc[u] /\ call'[u] = call[u] /\ end'[u] = end[u]
    BY <1>2, OthersStay DEF IndInv, HurryInv, SinksAlone
  <2>3. pc'[t] = "push" /\ call'[t] = "send" /\ end'[t] = s
    BY <2>1 DEF Enter, IndInv, TypeOK
  <2>4. \A u \in sinking : end[u] # s
    BY <1>1 DEF Uses, HurryInv, SinksAlone
  <2> QED
    BY <1>1, <1>3, <2>1, <2>2, <2>3, <2>4 DEF HurryInv, SinksAlone, FlagRemembers
<1>5. CASE ~(receivers > 0)
  BY <1>1, <1>2, <1>5, OtherSteps DEF StartSend
<1> QED
  BY <1>4, <1>5

LEMMA PushHurry ==
  ASSUME IndInv, HurryInv, NEW t \in Threads, SPush(t)
  PROVE  HurryInv'
<1>0. Step(t) /\ sinking' = sinking \ {t}
  BY DEF SPush, APush, Step
<1>1. \A u \in sinking \ {t} : pc'[u] = pc[u] /\ call'[u] = call[u] /\ end'[u] = end[u]
  BY <1>0, OthersStay DEF IndInv, HurryInv, SinksAlone
<1>2. CASE t \in sinking
  <2>1. end[t] \in Senders
    BY <1>2 DEF IndInv, TypeOK, LifetimeInv, CallsHoldEnds, HurryInv, SinksAlone
  <2>2. PICK n \in {0, 1} :
          /\ hurry' = [hurry EXCEPT ![end[t]] = n]
          /\ backoff' = [backoff EXCEPT ![end[t]] = n = 1]
    BY <1>2, <2>1 DEF SPush, BacksOff, HurryInv, SinksAlone, FlagRemembers
  <2>3. \A u \in sinking \ {t} : end[u] # end[t]
    BY <1>2 DEF HurryInv, SinksAlone
  <2>4. SinksAlone'
    BY <1>0, <1>1, <2>1, <2>2, <2>3 DEF HurryInv, SinksAlone, FlagRemembers
  <2>5. FlagRemembers'
    BY <2>1, <2>2 DEF HurryInv, FlagRemembers
  <2> QED
    BY <2>4, <2>5 DEF HurryInv
<1>3. CASE t \notin sinking
  <2>1. UNCHANGED <<sinking, hurry, backoff>>
    BY <1>0, <1>3 DEF SPush
  <2> QED
    BY <1>0, <1>3, <2>1, OtherSteps
<1> QED
  BY <1>2, <1>3

LEMMA PendingHurry ==
  ASSUME HurryInv, NEW t \in Threads, NEW s \in Senders, SinkPending(t, s)
  PROVE  HurryInv'
<1>1. /\ UNCHANGED <<sinking, pc, call, end>>
      /\ hurry' = [hurry EXCEPT ![s] = 0] /\ backoff' = [backoff EXCEPT ![s] = FALSE]
  BY DEF SinkPending, thread
<1>2. SinksAlone'
  BY <1>1 DEF HurryInv, SinksAlone, FlagRemembers
<1>3. FlagRemembers'
  BY <1>1 DEF HurryInv, FlagRemembers
<1> QED
  BY <1>2, <1>3 DEF HurryInv

\* A clone has a name of its own, so no flag of another sender goes down with it.
LEMMA CloneHurry ==
  ASSUME HurryInv, NEW t \in Threads, NEW s \in Senders, NEW new \in Senders,
         SCloneTx(t, s, new)
  PROVE  HurryInv'
<1>1. /\ UNCHANGED <<sinking, pc, call, end>>
      /\ hurry' = [hurry EXCEPT ![new] = 0] /\ backoff' = [backoff EXCEPT ![new] = FALSE]
  BY DEF SCloneTx, CloneTx, thread
<1>2. SinksAlone'
  BY <1>1 DEF HurryInv, SinksAlone, FlagRemembers
<1>3. FlagRemembers'
  BY <1>1 DEF HurryInv, FlagRemembers
<1> QED
  BY <1>2, <1>3 DEF HurryInv

LEMMA ClientHurry ==
  ASSUME IndInv, HurryInv, NEW t \in Threads, SClient(t)
  PROVE  HurryInv'
<1>1. CASE Repoll(t)
  BY <1>1 DEF Repoll, thread, HurryInv, SinksAlone, FlagRemembers
<1>2. ASSUME NEW s \in Senders, NEW m \in Messages, ASend(t, s, m), UNCHANGED sinks
      PROVE  HurryInv'
  <2>1. t \notin sinking /\ Client(t)
    BY <1>2 DEF ASend, Send, MayEnter, Client, HurryInv, SinksAlone
  <2> QED
    BY <1>2, <2>1, OtherSteps DEF sinks
<1>3. ASSUME NEW r \in Receivers, NEW c \in RxCalls, AReceive(t, r, c), UNCHANGED sinks
      PROVE  HurryInv'
  <2>1. t \notin sinking /\ Client(t)
    BY <1>3 DEF AReceive, Receive, MayEnter, Client, HurryInv, SinksAlone
  <2> QED
    BY <1>3, <2>1, OtherSteps DEF sinks
<1>4. CASE SilentCall(t) /\ UNCHANGED <<answer, sinks>>
  <2>1. Client(t)
    BY <1>4 DEF SilentCall, Client
  <2>2. t \notin sinking
    BY <1>4 DEF SilentCall, CloneRx, DropTx, DropRx, Abandon, MayEnter, HurryInv, SinksAlone
  <2>3. UNCHANGED <<sinking, hurry, backoff>>
    BY <1>4 DEF sinks
  <2> QED
    BY <2>1, <2>2, <2>3, OtherSteps
<1> QED
  BY <1>1, <1>2, <1>3, <1>4, StartSendHurry, PendingHurry, CloneHurry DEF SClient

LEMMA StepHurry ==
  ASSUME IndInv, HurryInv, NEW t \in Threads, SStep(t)
  PROVE  HurryInv'
<1>1. CASE UNCHANGED sinks /\ pc[t] # "push"
  <2>1. t \notin sinking /\ UNCHANGED <<sinking, hurry, backoff>>
    BY <1>1 DEF HurryInv, SinksAlone, sinks
  <2> QED
    BY <2>1, StepMoves, OtherSteps
<1>2. ATakeMessage(t) \/ AFindEmpty(t) \/ AResume(t) \/ SilentStep(t) => pc[t] # "push"
  BY DEF ATakeMessage, TakeMessage, AFindEmpty, FindEmpty, Looking, AResume, Resume, SilentStep,
         LockWaitlist, PassSlot, TakeWaker, FindNoWaker, Wake, Load, Insert, Remove, Register,
         Release, Swap, Free
<1> QED
  BY <1>1, <1>2, PushHurry DEF SStep

\* A sink whose client asks it before each message costs the receivers at most
\* one message before its task yields to them, on however many tasks the
\* clones of the sender are.
THEOREM OneMessagePerYield == SSpec => []OneOverwritePerYield
<1>1. SInit => HurryInv
  BY DEF SInit, HurryInv, SinksAlone, FlagRemembers
<1>2. SinkInv /\ HurryInv /\ [SNext]_svars => HurryInv'
  <2> SUFFICES ASSUME SinkInv, HurryInv, [SNext]_svars
               PROVE  HurryInv'
    OBVIOUS
  <2>1. CASE UNCHANGED svars
    BY <2>1 DEF svars, avars, vars, thread, sinks, HurryInv, SinksAlone, FlagRemembers
  <2> QED
    BY <2>1, ClientHurry, StepHurry DEF SNext, SinkInv, ChannelInv
<1>3. HurryInv => OneOverwritePerYield
  BY DEF HurryInv, FlagRemembers, OneOverwritePerYield
<1> QED
  BY <1>1, <1>2, <1>3, AlwaysSinkInv, PTL DEF SSpec

-----------------------------------------------------------------------------
\* Programs.  A program whose instructions are calls of the API, each start_send
\* of them one of a forward, drives the channel as a client of Sink does.  What
\* a test does behind the API, and a start_send or poll_ready by hand, is not.

ByHand == {"start_send", "set_backoff", "poll_ready", "push", "pop"}

IsCall(i) == i = Instruction(i.op, i.on, i.msgs, i.ok, i.again) /\ i.op \notin ByHand

OnlyCalls(script) == script \in Seq(Range(script)) /\ \A i \in Range(script) : IsCall(i)

SuiteOnlyCalls ==
  \A i \in DOMAIN Suite :
    /\ Suite[i] = [t \in Threads |-> Suite[i][t]]
    /\ \A t \in Threads : OnlyCalls(Suite[i][t])

Scripts == todo = [t \in Threads |-> todo[t]] /\ \A t \in Threads : OnlyCalls(todo[t])

\* What is left of a script once its first instruction has been executed, or
\* has become another.
LEMMA ScriptTail ==
  ASSUME NEW script, OnlyCalls(script), script # <<>>
  PROVE  IsCall(Head(script)) /\ OnlyCalls(Tail(script))
<1>1. Head(script) \in Range(script) /\ Tail(script) \in Seq(Range(script))
  BY HeadTailProperties, RangeOfSeq DEF OnlyCalls, Range
<1>2. Tail(script) \in Seq(Range(Tail(script)))
  BY <1>1, SeqOfRange
<1>3. Range(Tail(script)) \subseteq Range(script)
  BY <1>1, RangeOfSeq
<1> QED
  BY <1>1, <1>2, <1>3 DEF OnlyCalls

LEMMA ScriptCons ==
  ASSUME NEW script, OnlyCalls(script), NEW i, IsCall(i)
  PROVE  OnlyCalls(<<i>> \o script)
<1> DEFINE S == Range(script) \cup {i}
<1>1. script \in Seq(S) /\ <<i>> \in Seq(S)
  BY SeqMonotonic DEF OnlyCalls
<1>2. <<i>> \o script \in Seq(S)
  BY <1>1
<1>3. <<i>> \o script \in Seq(Range(<<i>> \o script))
  BY <1>2, SeqOfRange
<1>4. Range(<<i>> \o script) \subseteq S
  BY <1>2, RangeOfSeq
<1> QED
  BY <1>3, <1>4 DEF OnlyCalls

LEMMA StartsCall ==
  ASSUME Scripts, NEW t \in Threads, NEW op, Starts(t, op)
  PROVE  op \notin ByHand /\ t \notin yielding /\ pc[t] = "idle"
BY ScriptTail DEF Scripts, Starts, CurrentOf, IsCall

\* The instruction that runs is made again, with one message less, or is over.
LEMMA SettleKeepsScripts ==
  ASSUME Scripts, NEW t \in Threads, todo[t] # <<>>, Settle(t) \/ Done(t)
  PROVE  Scripts'
<1> DEFINE i == CurrentOf(t)
           rest == IF i.msgs = <<>> THEN i ELSE [i EXCEPT !.msgs = Tail(@)]
<1>1. IsCall(i) /\ OnlyCalls(Tail(todo[t])) /\ OnlyCalls(todo[t])
  BY ScriptTail DEF Scripts, CurrentOf
<1>2. IsCall(rest)
  BY <1>1 DEF IsCall, Instruction
<1>3. PICK script \in {todo[t], Tail(todo[t]), <<rest>> \o Tail(todo[t])} :
        todo' = [todo EXCEPT ![t] = script]
  BY DEF Settle, Done, programs, Scripts
<1>4. OnlyCalls(script)
  BY <1>1, <1>2, ScriptCons
<1> QED
  BY <1>3, <1>4 DEF Scripts

\* A thread in a call has the instruction that made it.
Driven == \A t \in Threads : pc[t] # "idle" => todo[t] # <<>>

PInv == SinkInv /\ Scripts /\ Driven

LEMMA CallIsClient ==
  ASSUME PInv, NEW t \in Threads, Call(t)
  PROVE  SClient(t) /\ pc[t] = "idle" /\ todo[t] # <<>>
<1> DEFINE i == CurrentOf(t)
<1>0. tx \subseteq Senders /\ rx \subseteq Receivers /\ unsent \subseteq Messages
  BY DEF PInv, SinkInv, ChannelInv, IndInv, TypeOK
<1>1. PICK op : Starts(t, op)
  BY DEF Call
<1>2. t \notin yielding /\ pc[t] = "idle" /\ todo[t] # <<>>
  BY <1>1, StartsCall DEF PInv, Starts
<1>3. \A o \in ByHand : ~Starts(t, o)
  BY StartsCall DEF PInv
<1>4. CASE ASend(t, i.on, Head(i.msgs)) /\ UNCHANGED sinks
  BY <1>0, <1>2, <1>4 DEF SClient, ASend, Send
<1>5. CASE SinkReady(i.on) /\ StartSend(t, i.on, Head(i.msgs))
  BY <1>0, <1>2, <1>5 DEF SClient, StartSend, ASend, Send
<1>6. ASSUME NEW c \in RxCalls, AReceive(t, i.on, c), UNCHANGED sinks
      PROVE  SClient(t)
  BY <1>0, <1>2, <1>6 DEF SClient, AReceive, Receive, Usable
<1>7. CASE SCloneTx(t, Tx(0), i.on)
  BY <1>0, <1>2, <1>7 DEF SClient, SCloneTx, CloneTx
<1>8. ASSUME \/ CloneRx(t, Rx(0), i.on)
             \/ DropTx(t, i.on) \/ DropRx(t, i.on)
             \/ (\E s \in Senders : DropTx(t, s)) \/ (\E r \in Receivers : DropRx(t, r)),
             UNCHANGED <<answer, sinks>>
      PROVE  SClient(t)
  <2>1. SilentCall(t)
    BY <1>0, <1>8 DEF SilentCall, CloneRx, DropTx, DropRx, Usable
  <2> QED
    BY <1>2, <1>8, <2>1 DEF SClient
<1>9. {"try_recv", "recv", "poll_next"} \subseteq RxCalls
  BY DEF RxCalls
<1> QED
  BY <1>2, <1>3, <1>4, <1>5, <1>6, <1>7, <1>8, <1>9 DEF Call, ByHand

LEMMA RunIsClient ==
  ASSUME PInv, NEW t \in Threads, Run(t)
  PROVE  SClient(t) \/ SStep(t) \/ UNCHANGED svars
<1>1. CASE Continue(t)
  <2>1. CASE Abandon(t) /\ UNCHANGED <<answer, sinks>>
    <3>1. SilentCall(t) /\ t \notin yielding
      BY <1>1, <2>1 DEF SilentCall, Continue, PInv, SinkInv, YieldersIdle
    <3> QED
      BY <2>1, <3>1 DEF SClient
  <2> QED
    BY <1>1, <2>1 DEF Continue
<1>2. CASE Yield(t)
  <2>1. CASE Starts(t, "forward") /\ SinkPending(t, CurrentOf(t).on)
    <3>1. t \notin yielding /\ CurrentOf(t).on \in Senders
      BY <2>1 DEF SinkPending, Exclusive, PInv, SinkInv, ChannelInv, IndInv, TypeOK
    <3> QED
      BY <2>1, <3>1 DEF SClient
  <2> QED
    BY <1>2, <2>1 DEF Yield, SClient
<1>3. CASE Control(t)
  BY <1>3 DEF Control
<1> QED
  BY <1>1, <1>2, <1>3, CallIsClient DEF Run

LEMMA RunKeepsScripts ==
  ASSUME PInv, NEW t \in Threads, Run(t)
  PROVE  Scripts' /\ Driven'
<1>0. Scripts /\ TypeOK /\ YieldersIdle
  BY DEF PInv, SinkInv, ChannelInv, IndInv
<1>1. \A u \in Threads \ {t} : pc'[u] = pc[u]
  <2>1. CASE UNCHANGED svars
    BY <2>1 DEF svars, avars, vars, thread
  <2>2. CASE Nudge(t)
    BY <2>2 DEF Nudge, thread
  <2> QED
    BY <1>0, <2>1, <2>2, RunIsClient, ClientMoves, StepMoves, OthersStay
<1>2. CASE Settle(t) /\ todo[t] # <<>>
  <2>1. Scripts' /\ \A u \in Threads \ {t} : todo'[u] = todo[u]
    BY <1>0, <1>2, SettleKeepsScripts DEF Settle, Scripts, programs
  <2>2. pc'[t] # "idle" => todo'[t] = todo[t]
    BY <1>2 DEF Settle, programs
  <2> QED
    BY <1>1, <1>2, <2>1, <2>2 DEF PInv, Driven
<1>3. Continue(t) => todo[t] # <<>>
  BY DEF Continue, PInv, Driven
<1>4. CASE Yield(t)
  <2>1. UNCHANGED <<todo, pc>>
    BY <1>4 DEF Yield, SinkPending, Repoll, thread, programs
  <2> QED
    BY <2>1 DEF PInv, Scripts, Driven
<1>5. CASE Control(t)
  <2>1. todo[t] # <<>> /\ Done(t) /\ pc[t] = "idle" /\ UNCHANGED pc
    BY <1>5 DEF Control, Starts, svars, avars, vars, thread
  <2>2. Scripts' /\ \A u \in Threads \ {t} : todo'[u] = todo[u]
    BY <1>0, <2>1, SettleKeepsScripts DEF Done, Scripts
  <2> QED
    BY <2>1, <2>2 DEF PInv, Driven
<1> QED
  BY <1>2, <1>3, <1>4, <1>5, CallIsClient DEF Run

\* Every program that only makes calls of the API, whatever the calls and however
\* many tasks it spawns, is a client of Sink: Programs adds what it asserts, and
\* takes no step of the channel that Sink does not.
THEOREM ProgramsAreClients ==
  ASSUME SuiteOnlyCalls
  PROVE  PSpec => SSpec
<1>1. PInit => SInit
  BY DEF PInit
<1>2. PInit => Scripts /\ Driven
  BY DEF SuiteOnlyCalls, PInit, SInit, AInit, Init, Scripts, Driven
<1>3. PInv /\ [PNext]_pvars => [SNext]_svars
  BY RunIsClient DEF PNext, SNext, pvars
<1>4. PInv /\ [PNext]_pvars => (Scripts /\ Driven)'
  <2>1. PInv /\ UNCHANGED pvars => (Scripts /\ Driven)'
    BY DEF pvars, svars, avars, vars, thread, programs, PInv, Scripts, Driven
  <2> QED
    BY <2>1, RunKeepsScripts DEF PNext
<1>5. SInit => SinkInv
  BY InitChannelInv DEF SInit, AInit, SinkInv, YieldersIdle
<1>6. SinkInv /\ [SNext]_svars => SinkInv'
  BY SinksKeepChannelInv
<1>7. PSpec => []PInv
  BY <1>1, <1>2, <1>3, <1>4, <1>5, <1>6, PTL DEF PSpec, PInv
<1> QED
  BY <1>1, <1>3, <1>7, PTL DEF PSpec, SSpec

\* So the run of such a program never costs more than a message per yield, and
\* sees nothing but a bounded queue.
THEOREM ProgramsSeeAChannel ==
  ASSUME SuiteOnlyCalls
  PROVE  PSpec => []OneOverwritePerYield /\ ImplementsChannel
BY ProgramsAreClients, OneMessagePerYield, Refinement, PTL

=============================================================================
