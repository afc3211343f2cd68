---------------------------- MODULE WakesProofs ----------------------------
(***************************************************************************)
(* Theorems about the wakes that sends, polls, drops and the hang-up owe   *)
(* the receivers, for any capacity, threads, messages and endpoints.       *)
(***************************************************************************)
EXTENDS RingChannelProofs

Waits(t) == call[t] \in {"recv", "poll_next"}

-----------------------------------------------------------------------------
\* The slots and who may touch them.  SlotsAreOwned says that an owner has a
\* slot to itself; the proofs below also need that a slot in use has an owner,
\* and that a call on a receiver works on the slot of an owner.

UsersHaveSlots ==
  \A t \in Threads : call[t] \in RxCalls /\ end[t] \in rx => slot[end[t]] # None

SlotsHaveOwners ==
  \A k \in Slots : items[k] # Vacant => \E r \in Receivers : Owns(r) /\ slot[r] = k

\* Only recv and poll_next have the steps that touch a slot, and a scan has the
\* read lock.
StepsOfWaits ==
  \A t \in Threads :
    /\ call[t] = "clone_rx" <=> pc[t] = "register"
    /\ pc[t] \in {"insert", "reload", "retake", "redrain", "remove", "parked"} => Waits(t)
    /\ pc[t] = "scan" => cursor[t] # 0

SlotInv == SlotsAreOwned /\ UsersHaveSlots /\ SlotsHaveOwners /\ StepsOfWaits

\* A call that borrows a receiver borrows one that owns its slot.
LEMMA UsersOwn ==
  ASSUME IndInv, SlotInv, NEW t \in Threads, call[t] \in Borrowing
  PROVE  Owns(end[t]) /\ end[t] \in Receivers /\ MySlot(t) \in Slots
BY RingChannelAssumption
DEF IndInv, TypeOK, LifetimeInv, CallsHoldEnds, SlotInv, UsersHaveSlots, Owns, MySlot,
    Borrowing, RxCalls

\* What a step makes of the call of its thread.
LEMMA OwnCall ==
  ASSUME TypeOK, NEW t \in Threads, Client(t) \/ Step(t)
  PROVE  \/ call'[t] = call[t] /\ end'[t] = end[t]
         \/ call'[t] = None
         \/ call'[t] \in {"send", "drop_tx"}
         \/ \E r \in Receivers : call'[t] \in Borrowing /\ end'[t] = r /\ Usable(r)
                                   /\ pc[t] = "idle"
         \/ \E r \in Receivers : DropRx(t, r) /\ call'[t] = "drop_rx" /\ end'[t] = r
<1> USE DEF TypeOK, Goto, Return, Enter, thread
<1>1. CASE Client(t)
  BY <1>1
  DEF Client, Send, Receive, CloneTx, CloneRx, DropTx, DropRx, Abandon, MayEnter, Borrowing
<1>2. CASE Step(t)
  <2>1. CASE \/ Push(t) \/ LockWaitlist(t) \/ PassSlot(t) \/ TakeWaker(t) \/ FindNoWaker(t)
             \/ Wake(t)
    BY <2>1
    DEF Push, LockWaitlist, PassSlot, TakeWaker, FindNoWaker, Wake, AfterWake, AfterNone
  <2>2. CASE \/ Load(t) \/ TakeMessage(t) \/ FindEmpty(t) \/ Insert(t) \/ Remove(t)
             \/ Resume(t)
    BY <2>2 DEF Load, TakeMessage, FindEmpty, Insert, Remove, Resume
  <2>3. CASE Register(t) \/ Release(t) \/ Swap(t) \/ Free(t)
    BY <2>3 DEF Register, Release, Swap, Free
  <2> QED
    BY <1>2, <2>1, <2>2, <2>3 DEF Step
<1> QED
  BY <1>1, <1>2

\* What a step does to the handles of receivers.
LEMMA HandleChange ==
  ASSUME IndInv, NEW t \in Threads, Client(t) \/ Step(t)
  PROVE  \/ UNCHANGED <<rx, slot>>
         \/ \E new \in Receivers \ rx : rx # {} /\ rx' = rx \cup {new} /\ slot' = slot
         \/ \E new \in rx, k \in Slots : /\ Register(t) /\ slot[new] = None /\ items[k] = Vacant
                                         /\ rx' = rx /\ slot' = [slot EXCEPT ![new] = k]
                                         /\ items' = [items EXCEPT ![k] = Empty]
         \/ /\ Release(t) /\ call[t] = "drop_rx" /\ end[t] \in rx
            /\ rx' = rx \ {end[t]} /\ slot' = [slot EXCEPT ![end[t]] = None]
<1> USE DEF ends
<1>1. CASE Client(t)
  BY <1>1
  DEF Client, Send, Receive, CloneTx, CloneRx, DropTx, DropRx, Abandon, Usable
<1>2. CASE Step(t) /\ ~Register(t) /\ ~Release(t)
  BY <1>2
  DEF Step, Push, LockWaitlist, PassSlot, TakeWaker, FindNoWaker, Wake, Load, TakeMessage,
      FindEmpty, Insert, Remove, Resume, Swap, Free
<1>3. CASE Register(t)
  BY <1>3 DEF Register, WaitlistRegister
<1>4. CASE Release(t)
  BY <1>4
  DEF Release, IndInv, LifetimeInv, CallsHoldEnds, TypeOK, TxCalls, RxCalls, PollSteps,
      Borrowing
<1> QED
  BY <1>1, <1>2, <1>3, <1>4

\* What a step does to a slot of the waitlist.
LEMMA ItemChange ==
  ASSUME IndInv, NEW t \in Threads, Client(t) \/ Step(t), NEW k \in Slots
  PROVE  \/ items'[k] = items[k]
         \/ Insert(t) /\ k = MySlot(t) /\ items'[k] = t
         \/ Remove(t) /\ k = MySlot(t) /\ items'[k] = Empty
         \/ /\ TakeWaker(t) /\ IsNext(t, k) /\ items[k] \in Threads
            /\ waker' = [waker EXCEPT ![t] = items[k]] /\ items'[k] = Empty
         \/ Register(t) /\ items[k] = Vacant /\ items'[k] = Empty
         \/ \E r \in Receivers : DropRx(t, r) /\ k = slot[r] /\ items'[k] = Vacant
<1> USE DEF waitlist, IndInv, TypeOK, WaitlistTypeOK
<1>1. CASE Client(t)
  BY <1>1
  DEF Client, Send, Receive, CloneTx, CloneRx, DropTx, DropRx, Abandon, WaitlistDeregister
<1>2. CASE Step(t) /\ ~Register(t) /\ ~Insert(t) /\ ~Remove(t) /\ ~TakeWaker(t)
  BY <1>2
  DEF Step, Push, LockWaitlist, PopBegin, PassSlot, PopMiss, FindNoWaker, PopNone, Wake, Load,
      TakeMessage, FindEmpty, Resume, Release, Swap, Free
<1>3. CASE Register(t)
  BY <1>3 DEF Register, WaitlistRegister
<1>4. CASE Insert(t)
  BY <1>4 DEF Insert, WaitlistInsert
<1>5. CASE Remove(t)
  BY <1>5 DEF Remove, WaitlistRemove
<1>6. CASE TakeWaker(t)
  <2>1. PICK j \in Slots : PopTake(t, j) /\ waker' = [waker EXCEPT ![t] = items[j]]
    BY <1>6 DEF TakeWaker
  <2>2. items[j] \in Threads
    BY <2>1 DEF PopTake, IsNext, Ahead
  <2> QED
    BY <1>6, <2>1, <2>2 DEF PopTake
<1> QED
  BY <1>1, <1>2, <1>3, <1>4, <1>5, <1>6

\* Who owns a slot keeps it until its own drop.
LEMMA KeepsOwning ==
  ASSUME IndInv, NEW t \in Threads, Client(t) \/ Step(t),
         NEW r \in Receivers, Owns(r), ~DropRx(t, r)
  PROVE  Owns(r)' /\ slot'[r] = slot[r]
<1>0. TypeOK
  BY DEF IndInv
<1>1. r \in rx' /\ slot'[r] = slot[r] /\ slot'[r] # None
  BY <1>0, HandleChange, RingChannelAssumption DEF Owns, TypeOK
<1>2. ASSUME NEW u \in Threads, call'[u] = "drop_rx", end'[u] = r
      PROVE  FALSE
  <2>1. CASE u # t
    BY <1>0, <1>2, <2>1, OthersStay DEF Owns
  <2>2. CASE u = t
    BY <1>0, <1>2, <2>2, OwnCall, RingChannelAssumption DEF Owns, RxCalls, Borrowing
  <2> QED
    BY <2>1, <2>2
<1> QED
  BY <1>1, <1>2 DEF Owns

LEMMA UsersHaveSlotsStep ==
  ASSUME IndInv, SlotInv, NEW t \in Threads, Client(t) \/ Step(t)
  PROVE  UsersHaveSlots'
<1>0. TypeOK /\ CallsHoldEnds /\ UsersHaveSlots
  BY DEF IndInv, LifetimeInv, SlotInv
<1> SUFFICES ASSUME NEW u \in Threads, call'[u] \in RxCalls, end'[u] \in rx'
             PROVE  slot'[end'[u]] # None
  BY DEF UsersHaveSlots
<1>1. (call[u] \in RxCalls /\ end'[u] = end[u]) \/ Usable(end'[u])
  <2>1. CASE u # t
    BY <1>0, <2>1, OthersStay
  <2>2. CASE u = t
    BY <1>0, <2>2, OwnCall, RingChannelAssumption DEF RxCalls, DropRx
  <2> QED
    BY <2>1, <2>2
<1>2. end'[u] \in rx
  <2> SUFFICES ASSUME call[u] \in RxCalls, end'[u] = end[u]
               PROVE  end[u] \in rx
    BY <1>1 DEF Usable
  <2>1. end[u] \in rx \/ rx = {}
    BY <1>0 DEF CallsHoldEnds, RxCalls, Borrowing
  <2> QED
    BY <2>1, HandleChange
<1>3. slot[end'[u]] # None
  BY <1>0, <1>1, <1>2 DEF UsersHaveSlots, Usable
<1> QED
  BY <1>0, <1>2, <1>3, HandleChange, RingChannelAssumption DEF TypeOK

LEMMA SlotsHaveOwnersStep ==
  ASSUME IndInv, SlotInv, NEW t \in Threads, Client(t) \/ Step(t)
  PROVE  SlotsHaveOwners'
<1>0. TypeOK /\ CallsHoldEnds /\ SlotsHaveOwners
  BY DEF IndInv, LifetimeInv, SlotInv
<1> SUFFICES ASSUME NEW k \in Slots, items'[k] # Vacant
             PROVE  \E r \in Receivers : Owns(r)' /\ slot'[r] = k
  BY DEF SlotsHaveOwners
<1>1. CASE items[k] # Vacant
  <2>1. PICK r \in Receivers : Owns(r) /\ slot[r] = k
    BY <1>0, <1>1 DEF SlotsHaveOwners
  <2>2. ~DropRx(t, r)
    BY <1>0, <2>1 DEF DropRx, WaitlistDeregister, TypeOK, WaitlistTypeOK
  <2> QED
    BY <2>1, <2>2, KeepsOwning
<1>2. CASE items[k] = Vacant
  <2>1. \A u \in Threads : Insert(u) \/ Remove(u) => items[MySlot(u)] # Vacant
    <3> SUFFICES ASSUME NEW u \in Threads, Insert(u) \/ Remove(u)
                 PROVE  items[MySlot(u)] # Vacant
      OBVIOUS
    <3>1. call[u] \in Borrowing
      BY DEF SlotInv, StepsOfWaits, Waits, Borrowing, Insert, Remove
    <3> QED
      BY <3>1, UsersOwn DEF SlotInv, SlotsAreOwned, MySlot
  <2>2. Register(t)
    BY <1>0, <1>2, <2>1, ItemChange, WaitlistAssumption
  <2>3. PICK new \in rx, j \in Slots :
          /\ slot[new] = None /\ items[j] = Vacant /\ rx' = rx
          /\ slot' = [slot EXCEPT ![new] = j] /\ items' = [items EXCEPT ![j] = Empty]
    <3>1. call[t] # "drop_rx"
      BY <1>0, <2>2 DEF CallsHoldEnds, Register
    <3>2. PICK new \in rx, j \in Slots :
            slot[new] = None /\ WaitlistRegister(j) /\ slot' = [slot EXCEPT ![new] = j]
      BY <2>2 DEF Register
    <3> QED
      BY <2>2, <3>2 DEF Register, WaitlistRegister
  <2>4. j = k
    BY <1>0, <1>2, <2>3 DEF TypeOK, WaitlistTypeOK
  <2>5. /\ new \in Receivers /\ new \in rx' /\ slot'[new] = k /\ k # None
    BY <1>0, <2>3, <2>4, RingChannelAssumption DEF TypeOK
  <2>6. ASSUME NEW u \in Threads, call'[u] = "drop_rx", end'[u] = new
        PROVE  FALSE
    <3>1. call[u] = "drop_rx" /\ end[u] = new
      <4>1. CASE u # t
        BY <1>0, <2>6, <4>1, OthersStay
      <4>2. CASE u = t
        BY <1>0, <2>2, <2>6, <4>2, RingChannelAssumption
        DEF Register, Return, TypeOK, RxCalls
      <4> QED
        BY <4>1, <4>2
    <3> QED
      BY <2>3, <3>1 DEF SlotInv, UsersHaveSlots, RxCalls
  <2> QED
    BY <2>5, <2>6 DEF Owns
<1> QED
  BY <1>1, <1>2

LEMMA StepsOfWaitsStep ==
  ASSUME IndInv, SlotInv, NEW t \in Threads, Client(t) \/ Step(t)
  PROVE  StepsOfWaits'
<1>0. /\ TypeOK /\ WaitlistTypeOK /\ CallsHoldEnds
      /\ StepsOfWaits
  BY DEF IndInv, LifetimeInv, SlotInv, TypeOK
<1> SUFFICES ASSUME NEW u \in Threads
             PROVE  StepsOfWaits!(u)'
  BY DEF StepsOfWaits
<1> USE DEF StepsOfWaits, Waits
<1>1. CASE u # t
  <2>1. pc'[u] = pc[u] /\ call'[u] = call[u]
    BY <1>0, <1>1, OthersStay
  <2>2. cursor'[u] = cursor[u]
    BY <1>0, <1>1
    DEF WaitlistTypeOK, waitlist, Client, Step, Send, Receive, CloneTx, CloneRx, DropTx, DropRx,
        WaitlistDeregister, Abandon, Push, LockWaitlist, PopBegin, PassSlot, PopMiss, TakeWaker,
        PopTake, FindNoWaker, PopNone, Wake, Load, TakeMessage, FindEmpty, Insert,
        WaitlistInsert, Remove, WaitlistRemove, Resume, Register, WaitlistRegister, Release,
        Swap, Free
  <2> QED
    BY <1>0, <2>1, <2>2
<1>2. CASE u = t
  <2>0. None # "clone_rx"
    BY RingChannelAssumption DEF RxCalls
  <2> USE <2>0 DEF TypeOK, Goto, Return, Enter, thread
  <2>1. CASE Client(t)
    BY <1>0, <1>2, <2>1
    DEF Client, Send, Receive, CloneTx, CloneRx, DropTx, DropRx, Abandon, MayEnter
  <2>2. CASE Push(t) \/ FindNoWaker(t) \/ Wake(t)
    BY <1>0, <1>2, <2>2 DEF Push, FindNoWaker, Wake, AfterWake, AfterNone
  <2>3. CASE LockWaitlist(t)
    BY <1>0, <1>2, <2>3 DEF LockWaitlist, PopBegin, WaitlistTypeOK
  <2>4. CASE PassSlot(t)
    BY <1>0, <1>2, <2>4, WaitlistAssumption DEF PassSlot, PopMiss, WaitlistTypeOK
  <2>5. CASE TakeWaker(t)
    BY <1>0, <1>2, <2>5 DEF TakeWaker
  <2>6. CASE Load(t)
    BY <1>0, <1>2, <2>6 DEF Load
  <2>7. CASE TakeMessage(t) \/ FindEmpty(t)
    <3>1. call[t] = "try_recv" \/ Waits(t)
      BY <1>0, <2>7
      DEF CallsHoldEnds, TakeMessage, FindEmpty, Looking, TxCalls, RxCalls, Borrowing
    <3>2. CASE TakeMessage(t)
      BY <1>0, <1>2, <3>1, <3>2 DEF TakeMessage
    <3>3. CASE FindEmpty(t)
      BY <1>0, <1>2, <3>1, <3>3 DEF FindEmpty, AfterEmpty
    <3> QED
      BY <2>7, <3>2, <3>3
  <2>8. CASE Insert(t) \/ Remove(t) \/ Resume(t)
    BY <1>0, <1>2, <2>8 DEF Insert, Remove, Resume
  <2>9. CASE Register(t) \/ Release(t) \/ Swap(t) \/ Free(t)
    BY <1>0, <1>2, <2>9 DEF Register, Release, Swap, Free
  <2> QED
    BY <2>1, <2>2, <2>3, <2>4, <2>5, <2>6, <2>7, <2>8, <2>9 DEF Step
<1> QED
  BY <1>1, <1>2

LEMMA NextSlotInv == IndInv /\ SlotInv /\ [Next]_vars => SlotInv'
<1> SUFFICES ASSUME IndInv, SlotInv, [Next]_vars
             PROVE  SlotInv'
  OBVIOUS
<1>1. CASE UNCHANGED vars
  BY <1>1
  DEF vars, ends, thread, waitlist, SlotInv, SlotsAreOwned, Owns, UsersHaveSlots,
      SlotsHaveOwners, StepsOfWaits, Waits
<1>2. ASSUME NEW t \in Threads, Client(t) \/ Step(t)
      PROVE  SlotInv'
  <2>1. SlotsAreOwned'
    BY <1>2, SlotsOfClient, SlotsOfStep DEF SlotInv
  <2> QED
    BY <1>2, <2>1, UsersHaveSlotsStep, SlotsHaveOwnersStep, StepsOfWaitsStep DEF SlotInv
<1> QED
  BY <1>1, <1>2 DEF Next

LEMMA SlotsInUse == Spec => []SlotInv
<1>1. Init => SlotInv
  BY WaitlistAssumption, RingChannelAssumption
  DEF Init, WaitlistInit, SlotInv, SlotsAreOwned, Owns, UsersHaveSlots, SlotsHaveOwners,
      StepsOfWaits, RxCalls, Waits
<1> QED
  BY <1>1, NextSlotInv, Induction, PTL DEF Spec

-----------------------------------------------------------------------------
\* The wakes that are owed.  WakeIsOwed lists everybody who may be on the way to
\* a pending message, which is more than it takes: a scan that has passed every
\* waker, or a waker popped from a slot whose receiver has been polled since,
\* comes to nothing.  The inductive invariant names those who cannot fail: a
\* call that is about to pop, a poll that will still look at the buffer or leave
\* its slot empty, a scan with a waker ahead of it, and an owned slot that is
\* empty, so that its owner polls before it sleeps, or passes the wake on.

WillLook(u) == Waits(u) /\ pc[u] # "parked"

WillFind(u) ==
  pc[u] = "scan" /\ \E k \in Slots : k >= cursor[u] /\ items[k] \notin {Empty, Vacant}

Spare(r) == Owns(r) /\ items[slot[r]] = Empty

Owing ==
  \/ \E u \in Threads : pc[u] = "pop" \/ WillLook(u) \/ WillFind(u)
  \/ \E r \in Receivers : Spare(r)

Owed == buffer # <<>> /\ (\E u \in Threads : Asleep(u)) => Owing

\* A poll goes to sleep only after it has found the buffer empty.
LEMMA FallsAsleep ==
  ASSUME TypeOK, NEW t \in Threads, Client(t) \/ Step(t),
         NEW u \in Threads, Asleep(u)', ~Asleep(u)
  PROVE  FindEmpty(t) /\ u = t /\ pc[t] = "retake" /\ buffer' = <<>>
<1> USE DEF TypeOK, Asleep, Goto, Return, Enter, thread, notes, msgs
<1>1. CASE Client(t)
  BY <1>1 DEF Client, Send, Receive, CloneTx, CloneRx, DropTx, DropRx, Abandon
<1>2. CASE Step(t)
  <2>1. CASE \/ Push(t) \/ LockWaitlist(t) \/ PassSlot(t) \/ TakeWaker(t) \/ FindNoWaker(t)
    BY <2>1 DEF Push, LockWaitlist, PassSlot, TakeWaker, FindNoWaker, AfterNone
  <2>2. CASE Wake(t)
    BY <2>2 DEF Wake, Note, AfterWake, AfterNone
  <2>3. CASE Load(t) \/ TakeMessage(t) \/ Insert(t) \/ Remove(t) \/ Resume(t)
    BY <2>3 DEF Load, TakeMessage, Insert, Remove, Resume
  <2>4. CASE Register(t) \/ Release(t) \/ Swap(t) \/ Free(t)
    BY <2>4 DEF Register, Release, Swap, Free
  <2>5. CASE FindEmpty(t)
    BY <2>5 DEF FindEmpty, AfterEmpty, Looking
  <2> QED
    BY <1>2, <2>1, <2>2, <2>3, <2>4, <2>5 DEF Step
<1> QED
  BY <1>1, <1>2

\* A message that is pushed into an empty buffer is announced.
LEMMA FillsBuffer ==
  ASSUME IndInv, NEW t \in Threads, Client(t) \/ Step(t), buffer = <<>>, buffer' # <<>>
  PROVE  pc'[t] = "pop"
<1>0. TypeOK
  BY DEF IndInv
<1>1. Push(t)
  BY DEF msgs, Client, Step, Send, Receive, CloneTx, CloneRx, DropTx, DropRx, Abandon,
         LockWaitlist, PassSlot, TakeWaker, FindNoWaker, Wake, Load, TakeMessage, BufferPop,
         FindEmpty, Insert, Remove, Resume, Register, Release, Swap, Free
<1>2. HasRoom
  BY RingBufferAssumption DEF HasRoom
<1> QED
  BY <1>0, <1>1, <1>2 DEF Push, WakesReceiver, Overwritten, Goto, TypeOK

LEMMA KeepsSpare ==
  ASSUME IndInv, SlotInv, NEW t \in Threads, Client(t) \/ Step(t),
         NEW r \in Receivers, Spare(r)
  PROVE  Owing'
<1>0. TypeOK /\ slot[r] \in Slots
  BY DEF IndInv, Spare, Owns, TypeOK
<1>1. CASE DropRx(t, r)
  BY <1>0, <1>1 DEF DropRx, PassesWakeOn, Spare, Enter, TypeOK, Owing
<1>2. CASE Insert(t)
  <2>1. WillLook(t)'
    BY <1>0, <1>2 DEF SlotInv, StepsOfWaits, Insert, Goto, WillLook, Waits, TypeOK
  <2> QED
    BY <2>1 DEF Owing
<1>3. CASE ~DropRx(t, r) /\ ~Insert(t)
  <2>1. Owns(r)' /\ slot'[r] = slot[r]
    BY <1>3, KeepsOwning DEF Spare
  <2>2. ASSUME NEW q \in Receivers, DropRx(t, q), slot[q] = slot[r]
        PROVE  q = r
    <3>1. Owns(q)
      BY <2>2, RingChannelAssumption
      DEF DropRx, MayEnter, MayBorrow, Uses, ExclusiveCalls, Owns, Usable, IndInv, LifetimeInv,
          CallsHoldEnds, RxCalls
    <3> QED
      BY <2>2, <3>1 DEF Spare, SlotInv, SlotsAreOwned
  <2>3. items'[slot[r]] = Empty
    BY <1>0, <1>3, <2>2, ItemChange, WaitlistAssumption DEF Spare
  <2> QED
    BY <2>1, <2>3 DEF Spare, Owing
<1> QED
  BY <1>1, <1>2, <1>3

\* A waker that is taken, and a poll that ends, leave an owner's slot empty.
LEMMA MakesSpare ==
  ASSUME IndInv, SlotInv, NEW t \in Threads, Client(t) \/ Step(t), Remove(t) \/ TakeWaker(t)
  PROVE  Owing'
<1>0. TypeOK /\ WaitlistTypeOK
  BY DEF IndInv, TypeOK
<1>1. CASE Remove(t)
  <2>1. call[t] \in Borrowing
    BY <1>1 DEF SlotInv, StepsOfWaits, Remove, Waits, Borrowing
  <2>2. /\ Owns(end[t]) /\ end[t] \in Receivers /\ MySlot(t) \in Slots
    BY <2>1, UsersOwn
  <2>3. ~DropRx(t, end[t])
    BY <1>1 DEF Remove, DropRx, MayEnter
  <2>4. items'[MySlot(t)] = Empty
    BY <1>0, <1>1, <2>2 DEF Remove, WaitlistRemove, WaitlistTypeOK
  <2> QED
    BY <2>2, <2>3, <2>4, KeepsOwning DEF Spare, Owing, MySlot
<1>2. CASE TakeWaker(t)
  <2>1. PICK k \in Slots : items[k] # Vacant /\ items' = [items EXCEPT ![k] = Empty]
    BY <1>2 DEF TakeWaker, PopTake, IsNext, Ahead
  <2>2. PICK r \in Receivers : Owns(r) /\ slot[r] = k
    BY <2>1 DEF SlotInv, SlotsHaveOwners
  <2>3. ~DropRx(t, r)
    BY <1>2 DEF TakeWaker, DropRx, MayEnter
  <2>4. items'[k] = Empty
    BY <1>0, <2>1 DEF WaitlistTypeOK
  <2> QED
    BY <2>2, <2>3, <2>4, KeepsOwning DEF Spare, Owing
<1> QED
  BY <1>1, <1>2

\* No thread keeps another from what it owes, except by emptying a slot.
LEMMA OthersOwe ==
  ASSUME IndInv, SlotInv, NEW t \in Threads, Client(t) \/ Step(t),
         NEW u \in Threads, u # t, pc[u] = "pop" \/ WillLook(u) \/ WillFind(u)
  PROVE  Owing'
<1>0. TypeOK /\ WaitlistTypeOK
  BY DEF IndInv, TypeOK
<1>1. pc'[u] = pc[u] /\ call'[u] = call[u]
  BY <1>0, OthersStay
<1>2. CASE pc[u] = "pop" \/ WillLook(u)
  BY <1>1, <1>2 DEF WillLook, Waits, Owing
<1>3. CASE WillFind(u) /\ ~(Remove(t) \/ TakeWaker(t))
  <2>1. PICK k \in Slots : k >= cursor[u] /\ items[k] \notin {Empty, Vacant}
    BY <1>3 DEF WillFind
  <2>2. pc[u] = "scan" /\ cursor[u] # 0
    BY <1>3 DEF WillFind, SlotInv, StepsOfWaits
  <2>3. \A r \in Receivers : ~DropRx(t, r)
    BY <2>2 DEF DropRx, WaitlistDeregister, WriteLockFree
  <2>4. items'[k] \notin {Empty, Vacant}
    BY <1>3, <2>1, <2>3, ItemChange, WaitlistAssumption
  <2>5. cursor'[u] = cursor[u]
    BY <1>0
    DEF WaitlistTypeOK, waitlist, Client, Step, Send, Receive, CloneTx, CloneRx, DropTx, DropRx,
        WaitlistDeregister, Abandon, Push, LockWaitlist, PopBegin, PassSlot, PopMiss, TakeWaker,
        PopTake, FindNoWaker, PopNone, Wake, Load, TakeMessage, FindEmpty, Insert,
        WaitlistInsert, Remove, WaitlistRemove, Resume, Register, WaitlistRegister, Release,
        Swap, Free
  <2> QED
    BY <1>1, <2>1, <2>2, <2>4, <2>5 DEF WillFind, Owing
<1> QED
  BY <1>2, <1>3, MakesSpare

\* A thread that owes a wake, or a look at the buffer, does not forget it.
LEMMA KeepsOwing ==
  ASSUME IndInv, SlotInv, NEW t \in Threads, Client(t) \/ Step(t),
         pc[t] = "pop" \/ WillLook(t) \/ WillFind(t),
         \E u \in Threads : Asleep(u), buffer' # <<>>
  PROVE  Owing'
<1>0. TypeOK /\ WaitlistTypeOK /\ CallsHoldEnds
  BY DEF IndInv, LifetimeInv, TypeOK
<1>1. CASE pc[t] = "pop"
  <2>1. LockWaitlist(t)
    BY <1>1
    DEF Client, Step, Send, Receive, CloneTx, CloneRx, DropTx, DropRx, Abandon, MayEnter, Push,
        PassSlot, TakeWaker, FindNoWaker, Wake, Load, TakeMessage, FindEmpty, Looking, Insert,
        Remove, Resume, Register, Release, Swap, Free
  <2>2. /\ pc'[t] = "scan" /\ cursor'[t] = 1 /\ items' = items
    BY <1>0, <2>1 DEF LockWaitlist, PopBegin, Goto, TypeOK, WaitlistTypeOK
  <2>3. PICK u \in Threads : Asleep(u)
    OBVIOUS
  <2>4. call[u] \in Borrowing
    BY <2>3 DEF Asleep, SlotInv, StepsOfWaits, Waits, Borrowing
  <2>5. /\ Owns(end[u]) /\ end[u] \in Receivers /\ MySlot(u) \in Slots
        /\ items[MySlot(u)] # Vacant
    BY <2>4, UsersOwn DEF SlotInv, SlotsAreOwned, MySlot
  <2>6. CASE items[MySlot(u)] = Empty
    BY <2>5, <2>6, KeepsSpare DEF Spare, MySlot
  <2>7. CASE items[MySlot(u)] # Empty
    <3>1. PICK k \in Slots : k = MySlot(u)
      BY <2>5
    <3>2. k >= 1
      BY WaitlistAssumption
    <3> QED
      BY <2>2, <2>5, <2>7, <3>1, <3>2 DEF WillFind, Owing
  <2> QED
    BY <2>6, <2>7
<1>2. CASE WillFind(t)
  <2>1. PICK k \in Slots : k >= cursor[t] /\ items[k] \notin {Empty, Vacant}
    BY <1>2 DEF WillFind
  <2>2. PassSlot(t) \/ TakeWaker(t) \/ FindNoWaker(t)
    BY <1>2
    DEF WillFind, Client, Step, Send, Receive, CloneTx, CloneRx, DropTx, DropRx, Abandon,
        MayEnter, Push, LockWaitlist, Wake, Load, TakeMessage, FindEmpty, Looking, Insert,
        Remove, Resume, Register, Release, Swap, Free
  <2>3. ~FindNoWaker(t)
    BY <2>1 DEF FindNoWaker, PopNone, Ahead
  <2>4. ASSUME PassSlot(t)
        PROVE  WillFind(t)'
    <3>1. PICK j \in Slots : PopMiss(t, j)
      BY <2>4 DEF PassSlot
    <3>2. j <= k /\ j # k /\ j \in Nat /\ k \in Nat
      BY <2>1, <3>1, WaitlistAssumption DEF PopMiss, IsNext, Ahead
    <3>3. cursor'[t] = j + 1 /\ items' = items /\ pc' = pc
      BY <1>0, <2>4, <3>1 DEF PassSlot, PopMiss, WaitlistTypeOK, thread
    <3> QED
      BY <1>2, <2>1, <3>2, <3>3 DEF WillFind
  <2> QED
    BY <2>2, <2>3, <2>4, MakesSpare DEF Owing
<1>3. CASE WillLook(t)
  <2>1. pc[t] \in PollSteps \ {"register", "parked"} /\ pc[t] # "idle"
    BY <1>0, <1>3, RingChannelAssumption
    DEF WillLook, Waits, CallsHoldEnds, Borrowing, PollSteps, SlotInv, StepsOfWaits, RxCalls
  <2>2. \/ Load(t) \/ TakeMessage(t) \/ FindEmpty(t) \/ Insert(t) \/ Remove(t)
    BY <2>1
    DEF PollSteps, Client, Step, Send, Receive, CloneTx, CloneRx, DropTx, DropRx, Abandon,
        MayEnter, Push, LockWaitlist, PassSlot, TakeWaker, FindNoWaker, Wake, Resume, Register,
        Release, Swap, Free
  <2>3. CASE Load(t) \/ TakeMessage(t) \/ FindEmpty(t) \/ Insert(t)
    <3>1. WillLook(t)'
      BY <1>0, <1>3, <2>3
      DEF WillLook, Waits, Load, TakeMessage, FindEmpty, AfterEmpty, Looking, Insert, Goto,
          TypeOK, msgs
    <3> QED
      BY <3>1 DEF Owing
  <2> QED
    BY <2>2, <2>3, MakesSpare
<1> QED
  BY <1>1, <1>2, <1>3

LEMMA NextOwed == IndInv /\ SlotInv /\ Owed /\ [Next]_vars => Owed'
<1> SUFFICES ASSUME IndInv, SlotInv, Owed, [Next]_vars,
                    buffer' # <<>>, NEW u \in Threads, Asleep(u)'
             PROVE  Owing'
  BY DEF Owed
<1>1. CASE UNCHANGED vars
  BY <1>1
  DEF vars, ends, thread, notes, msgs, waitlist, Owed, Owing, Asleep, WillLook, Waits,
      WillFind, Spare, Owns
<1>2. ASSUME NEW t \in Threads, Client(t) \/ Step(t)
      PROVE  Owing'
  <2>1. Asleep(u)
    BY <1>2, FallsAsleep DEF IndInv
  <2>2. CASE buffer = <<>>
    BY <1>2, <2>2, FillsBuffer DEF Owing
  <2>3. CASE buffer # <<>>
    <3>1. Owing
      BY <2>1, <2>3 DEF Owed
    <3> QED
      BY <1>2, <2>1, <3>1, KeepsSpare, OthersOwe, KeepsOwing DEF Owing
  <2> QED
    BY <2>2, <2>3
<1> QED
  BY <1>1, <1>2 DEF Next

LEMMA AlwaysOwed == Spec => []Owed
<1>1. Init => Owed
  BY DEF Init, BufferInit, Owed
<1> QED
  BY <1>1, NextOwed, Induction, SlotsInUse, PTL DEF Spec

LEMMA OwedToSleepers == Owed => WakeIsOwed
BY DEF Owed, Owing, WakeIsOwed, Notifying, Polling, WillLook, Waits, WillFind, Spare, Owns,
       Asleep

\* While a message is pending and a receiver sleeps, somebody is on the way to
\* the message or to the receiver, or an idle receiver will pass the wake on.
THEOREM NoWakeForgotten == Spec => []WakeIsOwed
BY OwedToSleepers, AlwaysOwed, PTL

-----------------------------------------------------------------------------
\* A receiver that sleeps can be woken, as long as no two threads are inside recv
\* on the same receiver: the second would displace the waker of the first.  The
\* inductive invariant covers a poll from the moment it enlists its waker.

OnePoll ==
  \A t, u \in Threads : Waits(t) /\ Waits(u) /\ end[t] = end[u] => t = u

WakersInHand == \A t \in Threads : waker[t] # None => pc[t] = "wake"

Enlisted(t) == pc[t] \in {"reload", "retake", "redrain", "parked"}

\* The waker of t has been woken, or popped by a call that is about to wake it.
Called(t) == woken[t] \/ \E u \in Threads : waker[u] = t

Reachable ==
  \A t \in Threads : Enlisted(t) =>
    /\ items[MySlot(t)] \in {t, Empty}
    /\ items[MySlot(t)] = t \/ Called(t)

SleepInv == OnePoll /\ WakersInHand /\ Reachable

LEMMA OnePollStep ==
  ASSUME SharedRecv = FALSE, IndInv, OnePoll, NEW t \in Threads, Client(t) \/ Step(t)
  PROVE  OnePoll'
<1>0. TypeOK /\ CallsHoldEnds
  BY DEF IndInv, LifetimeInv
<1>1. ASSUME NEW u \in Threads, u # t, Waits(u)', Waits(t)', end'[u] = end'[t]
      PROVE  FALSE
  <2>1. Waits(u) /\ end[u] = end'[t] /\ Uses(u, end[u])
    BY <1>0, <1>1, OthersStay, RingChannelAssumption
    DEF Waits, Uses, CallsHoldEnds, RxCalls
  <2>2. CASE Waits(t) /\ end'[t] = end[t]
    BY <1>1, <2>1, <2>2 DEF OnePoll
  <2>3. CASE ~(Waits(t) /\ end'[t] = end[t])
    <3>1. PICK r \in Receivers, c \in RxCalls : Receive(t, r, c)
      <4>1. CASE Client(t)
        BY <1>0, <1>1, <2>3, <4>1, RingChannelAssumption
        DEF Client, Send, CloneTx, CloneRx, DropTx, DropRx, Abandon, Enter, Return, Waits,
            TypeOK, thread, RxCalls
      <4>2. CASE Step(t)
        <5>1. (call'[t] = call[t] /\ end'[t] = end[t]) \/ call'[t] = None
          BY <1>0, <4>2
          DEF TypeOK, Goto, Return, thread, Step, Push, LockWaitlist, PassSlot, TakeWaker,
              FindNoWaker, Wake, AfterWake, AfterNone, Load, TakeMessage, FindEmpty, Insert,
              Remove, Resume, Register, Release, Swap, Free
        <5> QED
          BY <1>1, <2>3, <5>1, RingChannelAssumption DEF Waits, RxCalls
      <4> QED
        BY <4>1, <4>2
    <3>2. call'[t] = c /\ end'[t] = r /\ MayBorrow(c, r)
      BY <1>0, <3>1 DEF Receive, Enter, MayEnter, TypeOK
    <3> QED
      BY <1>1, <2>1, <3>2 DEF MayBorrow, ExclusiveCalls, Waits
  <2> QED
    BY <2>2, <2>3
<1>2. ASSUME NEW u \in Threads, NEW v \in Threads, u # v, Waits(u)', Waits(v)',
             end'[u] = end'[v]
      PROVE  FALSE
  <2>1. CASE u = t \/ v = t
    BY <1>1, <1>2, <2>1
  <2>2. CASE u # t /\ v # t
    BY <1>0, <1>2, <2>2, OthersStay DEF OnePoll, Waits
  <2> QED
    BY <2>1, <2>2
<1> QED
  BY <1>2 DEF OnePoll

\* What a step does to the wakers that have been popped.
LEMMA WakersStep ==
  ASSUME TypeOK, WakersInHand, NEW t \in Threads, Client(t) \/ Step(t)
  PROVE  /\ WakersInHand'
         /\ \A u \in Threads : Called(u) => Called(u)' \/ (Resume(t) /\ u = t)
<1> USE DEF TypeOK, WakersInHand, Called, notes
<1>1. CASE TakeWaker(t)
  <2>1. PICK k \in Slots : waker' = [waker EXCEPT ![t] = items[k]]
    BY <1>1 DEF TakeWaker
  <2>2. waker[t] = None
    BY <1>1 DEF TakeWaker
  <2>3. /\ woken' = woken /\ pc' = [pc EXCEPT ![t] = "wake"]
    BY <1>1 DEF TakeWaker, Goto
  <2> QED
    BY <2>1, <2>2, <2>3, RingChannelAssumption
<1>2. CASE Wake(t)
  <2>1. /\ waker' = [waker EXCEPT ![t] = None] /\ woken' = [woken EXCEPT ![waker[t]] = TRUE]
    BY <1>2 DEF Wake, Note
  <2>2. \A u \in Threads \ {t} : pc'[u] = pc[u]
    BY <1>2, OthersStay
  <2> QED
    BY <2>1, <2>2, RingChannelAssumption
<1>3. CASE Resume(t)
  BY <1>3 DEF Resume, Goto
<1>4. CASE ~TakeWaker(t) /\ ~Wake(t) /\ ~Resume(t)
  <2>1. waker' = waker /\ woken' = woken
    BY <1>4
    DEF Client, Step, Send, Receive, CloneTx, CloneRx, DropTx, DropRx, Abandon, Push,
        LockWaitlist, PassSlot, FindNoWaker, Load, TakeMessage, FindEmpty, Insert, Remove,
        Register, Release, Swap, Free
  <2>2. pc[t] # "wake"
    BY <1>4
    DEF Client, Step, Send, Receive, CloneTx, CloneRx, DropTx, DropRx, Abandon, MayEnter, Push,
        LockWaitlist, PassSlot, FindNoWaker, Load, TakeMessage, FindEmpty, Looking, Insert,
        Remove, Register, Release, Swap, Free
  <2>3. \A u \in Threads \ {t} : pc'[u] = pc[u]
    BY OthersStay
  <2> QED
    BY <2>1, <2>2, <2>3
<1> QED
  BY <1>1, <1>2, <1>3, <1>4

\* While a thread waits on a receiver no other thread touches its slot, except to
\* take its waker.
LEMMA SlotsOfWaits ==
  ASSUME IndInv, SlotInv, OnePoll, NEW t \in Threads, Client(t) \/ Step(t),
         NEW u \in Threads, Waits(u), u # t
  PROVE  /\ MySlot(u)' = MySlot(u)
         /\ \/ items'[MySlot(u)] = items[MySlot(u)]
            \/ /\ TakeWaker(t) /\ waker' = [waker EXCEPT ![t] = items[MySlot(u)]]
               /\ items[MySlot(u)] \in Threads /\ items'[MySlot(u)] = Empty
<1>0. TypeOK /\ CallsHoldEnds /\ SlotsAreOwned
  BY DEF IndInv, LifetimeInv, SlotInv
<1> DEFINE r == end[u]
           k == MySlot(u)
<1>1. Owns(r) /\ r \in Receivers /\ k \in Slots /\ k = slot[r] /\ items[k] # Vacant
  BY <1>0, UsersOwn DEF Waits, Borrowing, SlotsAreOwned, MySlot
<1>2. ASSUME NEW q \in Receivers, DropRx(t, q), slot[q] = k
      PROVE  FALSE
  <2>1. Owns(q)
    BY <1>0, <1>2, RingChannelAssumption
    DEF DropRx, MayEnter, MayBorrow, Uses, ExclusiveCalls, Owns, Usable, CallsHoldEnds, RxCalls
  <2>2. q = r
    BY <1>0, <1>1, <1>2, <2>1 DEF SlotsAreOwned
  <2>3. Uses(u, q)
    BY <1>0, <2>2, RingChannelAssumption DEF Uses, CallsHoldEnds, Waits, RxCalls
  <2> QED
    BY <1>2, <2>3 DEF DropRx, MayEnter, MayBorrow, ExclusiveCalls
<1>3. ASSUME Insert(t) \/ Remove(t), MySlot(t) = k
      PROVE  FALSE
  <2>1. Waits(t)
    BY <1>3 DEF SlotInv, StepsOfWaits, Insert, Remove
  <2>2. Owns(end[t]) /\ end[t] \in Receivers
    BY <2>1, UsersOwn DEF Waits, Borrowing
  <2>3. end[t] = r
    BY <1>0, <1>1, <1>3, <2>2 DEF SlotsAreOwned, MySlot
  <2> QED
    BY <2>1, <2>3 DEF OnePoll
<1>4. MySlot(u)' = k
  <2>1. end'[u] = r
    BY <1>0, OthersStay
  <2>2. slot'[r] = slot[r]
    BY <1>1, <1>2, KeepsOwning
  <2> QED
    BY <1>1, <2>1, <2>2 DEF MySlot
<1> HIDE DEF k
<1>5. \/ items'[k] = items[k]
      \/ /\ TakeWaker(t) /\ waker' = [waker EXCEPT ![t] = items[k]]
         /\ items[k] \in Threads /\ items'[k] = Empty
  BY <1>1, <1>2, <1>3, ItemChange
<1> QED
  BY <1>4, <1>5 DEF k

\* How a thread comes to be enlisted, and what it does while it is.
LEMMA OwnEnlist ==
  ASSUME TypeOK, NEW t \in Threads, Client(t) \/ Step(t), Enlisted(t)'
  PROVE  \/ Insert(t)
         \/ /\ Enlisted(t) /\ ~Resume(t) /\ UNCHANGED <<end, slot, items, waker, woken>>
            /\ pc'[t] = "retake" => pc[t] = "retake" \/ (pc[t] = "reload" /\ senders # 0)
            /\ pc'[t] = "parked" => pc[t] \in {"retake", "parked"}
<1> USE DEF TypeOK, Enlisted, Goto, Return, Enter, thread, notes, ends, waitlist
<1>1. CASE Client(t)
  <2>1. \/ pc'[t] = pc[t] /\ pc[t] = "idle"
        \/ pc'[t] \in {"idle", "push", "load", "register", "pop", "release"}
    BY <1>1
    DEF Client, Send, Receive, CloneTx, CloneRx, DropTx, DropRx, Abandon, MayEnter
  <2> QED
    BY <2>1
<1>2. CASE Step(t) /\ ~Insert(t)
  <2>1. CASE Load(t)
    BY <2>1 DEF Load, HungUp, Resume
  <2>2. CASE FindEmpty(t)
    BY <2>2 DEF FindEmpty, AfterEmpty, Looking, Resume
  <2>3. CASE ~Load(t) /\ ~FindEmpty(t)
    BY <1>2, <2>3
    DEF Step, Push, LockWaitlist, PassSlot, TakeWaker, FindNoWaker, Wake, AfterWake, AfterNone,
        TakeMessage, Remove, Resume, Register, Release, Swap, Free
  <2> QED
    BY <2>1, <2>2, <2>3
<1> QED
  BY <1>1, <1>2

LEMMA ReachableStep ==
  ASSUME IndInv, SlotInv, SleepInv, NEW t \in Threads, Client(t) \/ Step(t)
  PROVE  Reachable'
<1>0. TypeOK /\ WaitlistTypeOK
  BY DEF IndInv, TypeOK
<1> SUFFICES ASSUME NEW u \in Threads, Enlisted(u)'
             PROVE  /\ items'[MySlot(u)'] \in {u, Empty}
                    /\ items'[MySlot(u)'] = u \/ Called(u)'
  BY DEF Reachable
<1> USE DEF SleepInv
<1>1. CASE u # t
  <2>1. Enlisted(u) /\ Waits(u)
    BY <1>0, <1>1, OthersStay DEF Enlisted, SlotInv, StepsOfWaits
  <2>2. Called(u) => Called(u)'
    BY <1>0, <1>1, WakersStep
  <2>3. CASE items'[MySlot(u)] = items[MySlot(u)]
    BY <1>1, <2>1, <2>2, <2>3, SlotsOfWaits DEF Reachable
  <2>4. CASE /\ waker' = [waker EXCEPT ![t] = items[MySlot(u)]]
             /\ items[MySlot(u)] \in Threads /\ items'[MySlot(u)] = Empty
    <3>1. items[MySlot(u)] = u
      BY <2>1, <2>4, WaitlistAssumption DEF Reachable
    <3>2. waker'[t] = u
      BY <1>0, <2>4, <3>1 DEF TypeOK
    <3>3. Called(u)'
      BY <3>2 DEF Called
    <3> QED
      BY <1>1, <2>1, <2>4, <3>3, SlotsOfWaits
  <2> QED
    BY <1>1, <2>1, <2>3, <2>4, SlotsOfWaits
<1>2. CASE u = t
  <2>1. CASE Insert(t)
    <3>1. call[t] \in Borrowing
      BY <2>1 DEF Insert, SlotInv, StepsOfWaits, Waits, Borrowing
    <3>2. MySlot(t) \in Slots /\ MySlot(t)' = MySlot(t)
      BY <2>1, <3>1, UsersOwn DEF Insert, Goto, ends, MySlot
    <3>3. items'[MySlot(t)] = t
      BY <1>0, <2>1, <3>2 DEF Insert, WaitlistInsert, WaitlistTypeOK
    <3> QED
      BY <1>2, <3>2, <3>3
  <2>2. CASE ~Insert(t)
    <3>1. Enlisted(t) /\ UNCHANGED <<end, slot, items, waker, woken>>
      BY <1>0, <1>2, <2>2, OwnEnlist
    <3>2. MySlot(t)' = MySlot(t) /\ (Called(t)' <=> Called(t))
      BY <3>1 DEF MySlot, Called
    <3> QED
      BY <1>2, <3>1, <3>2 DEF Reachable
  <2> QED
    BY <2>1, <2>2
<1> QED
  BY <1>1, <1>2

LEMMA NextSleepInv ==
  ASSUME SharedRecv = FALSE
  PROVE  IndInv /\ SlotInv /\ SleepInv /\ [Next]_vars => SleepInv'
<1> SUFFICES ASSUME IndInv, SlotInv, SleepInv, [Next]_vars
             PROVE  SleepInv'
  OBVIOUS
<1>1. CASE UNCHANGED vars
  BY <1>1
  DEF vars, ends, thread, notes, waitlist, SleepInv, OnePoll, WakersInHand, Reachable,
      Enlisted, Waits, MySlot, Called
<1>2. ASSUME NEW t \in Threads, Client(t) \/ Step(t)
      PROVE  SleepInv'
  <2>1. TypeOK /\ OnePoll /\ WakersInHand
    BY DEF IndInv, SleepInv
  <2> QED
    BY <1>2, <2>1, OnePollStep, WakersStep, ReachableStep DEF SleepInv
<1> QED
  BY <1>1, <1>2 DEF Next

LEMMA AlwaysSleepInv ==
  ASSUME SharedRecv = FALSE
  PROVE  Spec => []SleepInv
<1>1. Init => SleepInv
  BY RingChannelAssumption
  DEF Init, SleepInv, OnePoll, WakersInHand, Reachable, Enlisted, Waits, RxCalls
<1> QED
  BY <1>1, NextSleepInv, Induction, SlotsInUse, PTL DEF Spec

LEMMA SleepersReached == SleepInv => SleeperIsReachable
BY DEF SleepInv, Reachable, Enlisted, Called, SleeperIsReachable, Asleep

\* A receiver asleep has its waker in its slot, or the waker is in the hands of a
\* call that is about to wake it.
THEOREM SleepersStayReachable ==
  ASSUME SharedRecv = FALSE
  PROVE  Spec => []SleeperIsReachable
BY SleepersReached, AlwaysSleepInv, PTL

LEMMA SendsReach ==
  ASSUME \A r, q \in Receivers : r = q
  PROVE  IndInv /\ SlotInv /\ SleepInv /\ Owed => SendReachesSleepers
<1> SUFFICES ASSUME IndInv, SlotInv, SleepInv, Owed, Resting,
                    NEW t \in Threads, Asleep(t), buffer # <<>>
             PROVE  FALSE
  BY DEF SendReachesSleepers
<1>1. \A u \in Threads : pc[u] \in {"idle", "parked"}
  BY DEF Resting, Asleep
<1>2. \A u \in Threads : ~(pc[u] = "pop" \/ WillLook(u) \/ WillFind(u))
  BY <1>1, RingChannelAssumption
  DEF WillLook, Waits, WillFind, IndInv, LifetimeInv, CallsHoldEnds, RxCalls
<1>3. PICK r \in Receivers : Spare(r)
  BY <1>2 DEF Owed, Owing
<1>4. call[t] \in Borrowing
  BY DEF Asleep, SlotInv, StepsOfWaits, Waits, Borrowing
<1>5. end[t] = r
  BY <1>4, UsersOwn
<1>6. items[MySlot(t)] = Empty
  BY <1>3, <1>5 DEF Spare, MySlot
<1>7. \E u \in Threads : waker[u] = t
  BY <1>6, WaitlistAssumption DEF SleepInv, Reachable, Enlisted, Called, Asleep
<1> QED
  BY <1>1, <1>7, RingChannelAssumption DEF SleepInv, WakersInHand

\* The documentation of recv, with one receiver: whenever no call is in the middle
\* of anything and the receiver sleeps, no message is pending.  (With more than
\* one receiver this fails: the run stolen_wake.)
THEOREM SendsReachTheSleeper ==
  ASSUME SharedRecv = FALSE, \A r, q \in Receivers : r = q
  PROVE  Spec => []SendReachesSleepers
BY SendsReach, Induction, SlotsInUse, AlwaysSleepInv, AlwaysOwed, PTL

-----------------------------------------------------------------------------
\* The hang-up.  The last sender pops until nobody waits; what makes this enough
\* is that a receiver that has missed it is still ahead of the scan.

HangsUp(u, k) ==
  /\ call[u] = "drop_tx"
  /\ pc[u] \in {"pop", "wake"} \/ (pc[u] = "scan" /\ cursor[u] <= k)

\* A poll that has seen a sender, and will sleep or sleeps.
Sleepy(t) == pc[t] \in {"retake", "parked"}

Covered ==
  \A t \in Threads : tx = {} /\ Sleepy(t) =>
    Called(t) \/ \E u \in Threads : HangsUp(u, MySlot(t))

\* The sender that hangs up does not leave out slot k if the waker of a receiver
\* stays there.
LEMMA KeepsHangingUp ==
  ASSUME TypeOK, NEW t \in Threads, Client(t) \/ Step(t),
         NEW u \in Threads, NEW k \in Slots, HangsUp(u, k), items[k] \in Threads
  PROVE  HangsUp(u, k)'
<1>0. WaitlistTypeOK
  BY DEF TypeOK
<1>1. CASE u # t
  <2>1. pc'[u] = pc[u] /\ call'[u] = call[u]
    BY <1>1, OthersStay
  <2>2. cursor'[u] = cursor[u]
    BY <1>0, <1>1
    DEF WaitlistTypeOK, waitlist, Client, Step, Send, Receive, CloneTx, CloneRx, DropTx, DropRx,
        WaitlistDeregister, Abandon, Push, LockWaitlist, PopBegin, PassSlot, PopMiss, TakeWaker,
        PopTake, FindNoWaker, PopNone, Wake, Load, TakeMessage, FindEmpty, Insert,
        WaitlistInsert, Remove, WaitlistRemove, Resume, Register, WaitlistRegister, Release,
        Swap, Free
  <2> QED
    BY <2>1, <2>2 DEF HangsUp
<1>2. CASE u = t
  <2>1. pc[t] \in {"pop", "scan", "wake"} /\ call[t] = "drop_tx"
    BY <1>2 DEF HangsUp
  <2>2. LockWaitlist(t) \/ PassSlot(t) \/ TakeWaker(t) \/ FindNoWaker(t) \/ Wake(t)
    BY <2>1
    DEF Client, Step, Send, Receive, CloneTx, CloneRx, DropTx, DropRx, Abandon, MayEnter, Push,
        Load, TakeMessage, FindEmpty, Looking, Insert, Remove, Resume, Register, Release, Swap,
        Free
  <2>3. k \in Nat /\ k >= 1
    BY WaitlistAssumption
  <2>4. CASE LockWaitlist(t)
    BY <1>0, <1>2, <2>1, <2>3, <2>4
    DEF LockWaitlist, PopBegin, Goto, TypeOK, WaitlistTypeOK, HangsUp
  <2>5. CASE PassSlot(t)
    <3>1. PICK j \in Slots : PopMiss(t, j)
      BY <2>5 DEF PassSlot
    <3>2. k >= cursor[t]
      BY <1>2, <2>5 DEF HangsUp, PassSlot
    <3>3. j <= k /\ j # k /\ j \in Nat
      BY <3>1, <3>2, WaitlistAssumption DEF PopMiss, IsNext, Ahead
    <3>4. cursor'[t] = j + 1 /\ pc' = pc /\ call' = call
      BY <1>0, <2>5, <3>1 DEF PassSlot, PopMiss, WaitlistTypeOK, thread
    <3> QED
      BY <1>2, <2>1, <2>3, <2>5, <3>3, <3>4 DEF HangsUp, PassSlot
  <2>6. CASE TakeWaker(t)
    BY <1>2, <2>1, <2>6 DEF TakeWaker, Goto, TypeOK, HangsUp
  <2>7. CASE FindNoWaker(t)
    <3>1. k >= cursor[t]
      BY <1>2, <2>7 DEF HangsUp, FindNoWaker
    <3>2. k \in Ahead(t)
      BY <3>1, WaitlistAssumption DEF Ahead
    <3> QED
      BY <2>7, <3>2 DEF FindNoWaker, PopNone
  <2>8. CASE Wake(t)
    BY <1>2, <2>1, <2>8 DEF Wake, AfterWake, Goto, TypeOK, HangsUp
  <2> QED
    BY <2>2, <2>4, <2>5, <2>6, <2>7, <2>8
<1> QED
  BY <1>1, <1>2

LEMMA CoveredStep ==
  ASSUME IndInv, SlotInv, SleepInv, Covered, NEW t \in Threads, Client(t) \/ Step(t)
  PROVE  Covered'
<1>0. TypeOK /\ WakersInHand /\ OnePoll
  BY DEF IndInv, SleepInv
<1> SUFFICES ASSUME NEW v \in Threads, tx' = {}, Sleepy(v)'
             PROVE  Called(v)' \/ \E u \in Threads : HangsUp(u, MySlot(v))'
  BY DEF Covered
<1>1. CASE tx # {}
  <2>1. PICK s \in Senders : DropTx(t, s)
    BY <1>1
    DEF ends, Client, Step, Send, Receive, CloneTx, CloneRx, DropRx, Abandon, Push,
        LockWaitlist, PassSlot, TakeWaker, FindNoWaker, Wake, Load, TakeMessage, FindEmpty,
        Insert, Remove, Resume, Register, Release, Swap, Free
  <2>2. tx = {s}
    BY <2>1 DEF DropTx
  <2>3. LastSender
    BY <2>2, FS_Singleton DEF IndInv, LifetimeInv, LastSender
  <2>4. pc'[t] = "pop" /\ call'[t] = "drop_tx"
    BY <1>0, <2>1, <2>3 DEF DropTx, Enter, TypeOK
  <2> QED
    BY <2>4 DEF HangsUp
<1>2. CASE tx = {}
  <2>1. senders = 0
    BY <1>2, FS_EmptySet DEF IndInv, LifetimeInv
  <2>2. Sleepy(v) /\ ~(Resume(t) /\ v = t) /\ MySlot(v)' = MySlot(v)
    <3>1. CASE v # t
      <4>1. Sleepy(v)
        BY <1>0, <3>1, OthersStay DEF Sleepy
      <4>2. Waits(v)
        BY <4>1 DEF Sleepy, SlotInv, StepsOfWaits
      <4> QED
        BY <1>0, <3>1, <4>1, <4>2, SlotsOfWaits
    <3>2. CASE v = t
      <4>1. ~Insert(t)
        BY <1>0, <3>2 DEF Insert, Goto, TypeOK, Sleepy
      <4>2. Enlisted(t)'
        BY <3>2 DEF Sleepy, Enlisted
      <4> QED
        BY <1>0, <2>1, <3>2, <4>1, <4>2, OwnEnlist DEF Sleepy, MySlot
    <3> QED
      BY <3>1, <3>2
  <2>3. Called(v) => Called(v)'
    BY <1>0, <2>2, WakersStep
  <2>4. Waits(v) /\ MySlot(v) \in Slots
    <3>1. Waits(v)
      BY <2>2 DEF Sleepy, SlotInv, StepsOfWaits
    <3> QED
      BY <3>1, UsersOwn DEF Waits, Borrowing
  <2>5. ASSUME ~Called(v)
        PROVE  \E u \in Threads : HangsUp(u, MySlot(v))'
    <3>1. PICK u \in Threads : HangsUp(u, MySlot(v))
      BY <1>2, <2>2, <2>5 DEF Covered
    <3>2. items[MySlot(v)] = v
      BY <2>2, <2>5 DEF SleepInv, Reachable, Enlisted, Sleepy
    <3>3. PICK k \in Slots : k = MySlot(v)
      BY <2>4
    <3>4. HangsUp(u, k)'
      BY <1>0, <3>1, <3>2, <3>3, KeepsHangingUp
    <3>5. k = MySlot(v)'
      BY <2>2, <3>3
    <3> QED
      BY <3>4, <3>5 DEF HangsUp
  <2> QED
    BY <2>3, <2>5
<1> QED
  BY <1>1, <1>2

LEMMA HangupReached == IndInv /\ SleepInv /\ Covered => HangupReachesSleepers
<1> SUFFICES ASSUME IndInv, SleepInv, Covered, Resting, NEW t \in Threads, Asleep(t)
             PROVE  senders > 0
  BY DEF HangupReachesSleepers
<1>1. \A u \in Threads : pc[u] \in {"idle", "parked"}
  BY DEF Resting, Asleep
<1>2. ~Called(t)
  BY <1>1, RingChannelAssumption DEF Called, Asleep, SleepInv, WakersInHand
<1>3. tx # {}
  BY <1>1, <1>2 DEF Covered, Sleepy, Asleep, HangsUp
<1>4. senders = Cardinality(tx) /\ senders \in Nat
  BY DEF IndInv, LifetimeInv, TypeOK
<1> QED
  BY <1>3, <1>4, EndsAreFinite, FS_EmptySet DEF IndInv

LEMMA NextCovered == IndInv /\ SlotInv /\ SleepInv /\ Covered /\ [Next]_vars => Covered'
<1> SUFFICES ASSUME IndInv, SlotInv, SleepInv, Covered, [Next]_vars
             PROVE  Covered'
  OBVIOUS
<1>1. CASE UNCHANGED vars
  BY <1>1
  DEF vars, ends, thread, notes, waitlist, Covered, Sleepy, Called, HangsUp, MySlot
<1> QED
  BY <1>1, CoveredStep DEF Next

\* The documentation of recv: it blocks until the channel disconnects.  Whenever
\* no call is in the middle of anything and a receiver sleeps, a sender exists.
THEOREM HangupReachesTheSleepers ==
  ASSUME SharedRecv = FALSE
  PROVE  Spec => []HangupReachesSleepers
<1>1. Init => Covered
  BY DEF Init, Covered, Sleepy
<1> QED
  BY <1>1, NextCovered, HangupReached, Induction, SlotsInUse, AlwaysSleepInv, PTL DEF Spec

=============================================================================
