-------------------------- MODULE RingChannelProofs --------------------------
(***************************************************************************)
(* Theorems about RingChannel, for any capacity, any set of threads, any   *)
(* finite sets of endpoints and any assignment of calls to threads.        *)
(*                                                                         *)
(* TypeOK alone is not inductive: the counters stay natural numbers only   *)
(* because they count the endpoints.  The proofs therefore carry TypeOK    *)
(* and LifetimeInv together.                                               *)
(***************************************************************************)
EXTENDS RingChannel, TLAPS, FiniteSetTheorems, SequenceTheorems

IndInv == TypeOK /\ LifetimeInv

-----------------------------------------------------------------------------
\* Control flow.

LEMMA EndsAreFinite ==
  ASSUME TypeOK
  PROVE  IsFiniteSet(tx) /\ IsFiniteSet(rx)
BY FS_Subset, RingChannelAssumption DEF TypeOK

LEMMA GotoType ==
  ASSUME TypeOK, NEW t \in Threads, NEW step \in Steps, Goto(t, step)
  PROVE  /\ pc' \in [Threads -> Steps]
         /\ call' \in [Threads -> TxCalls \cup RxCalls \cup {None}]
         /\ end' \in [Threads -> Senders \cup Receivers \cup {None}]
BY DEF TypeOK, Goto

LEMMA ReturnType ==
  ASSUME TypeOK, NEW t \in Threads, Return(t)
  PROVE  /\ pc' \in [Threads -> Steps]
         /\ call' \in [Threads -> TxCalls \cup RxCalls \cup {None}]
         /\ end' \in [Threads -> Senders \cup Receivers \cup {None}]
BY DEF TypeOK, Return, Steps

LEMMA EnterType ==
  ASSUME TypeOK, NEW t \in Threads, NEW c \in TxCalls \cup RxCalls,
         NEW e \in Senders \cup Receivers, NEW step \in Steps, Enter(t, c, e, step)
  PROVE  /\ pc' \in [Threads -> Steps]
         /\ call' \in [Threads -> TxCalls \cup RxCalls \cup {None}]
         /\ end' \in [Threads -> Senders \cup Receivers \cup {None}]
BY DEF TypeOK, Enter

LEMMA AfterNoneType ==
  ASSUME TypeOK, NEW t \in Threads, AfterNone(t)
  PROVE  /\ pc' \in [Threads -> Steps]
         /\ call' \in [Threads -> TxCalls \cup RxCalls \cup {None}]
         /\ end' \in [Threads -> Senders \cup Receivers \cup {None}]
BY GotoType, ReturnType DEF AfterNone, Steps

\* A thread moves no other thread.
LEMMA OthersStay ==
  ASSUME TypeOK, NEW t \in Threads, Client(t) \/ Step(t), NEW u \in Threads, u # t
  PROVE  pc'[u] = pc[u] /\ call'[u] = call[u] /\ end'[u] = end[u]
<1> USE DEF TypeOK, Goto, Return, Enter, thread
<1>1. CASE Client(t)
  BY <1>1 DEF Client, Send, Receive, CloneTx, CloneRx, DropTx, DropRx, Abandon
<1>2. CASE Step(t)
  <2>1. CASE \/ Push(t) \/ LockWaitlist(t) \/ PassSlot(t) \/ TakeWaker(t) \/ FindNoWaker(t)
             \/ Wake(t)
    BY <2>1
    DEF Push, LockWaitlist, PassSlot, TakeWaker, FindNoWaker, Wake, AfterWake, AfterNone
  <2>2. CASE \/ Load(t) \/ TakeMessage(t) \/ FindEmpty(t) \/ Insert(t) \/ Remove(t)
             \/ Resume(t)
    BY <2>2 DEF Load, TakeMessage, FindEmpty, Insert, Remove, Resume
  <2>3. CASE Register(t) \/ Release(t) \/ Swap(t) \/ Free(t)
    BY <2>3 DEF Register, Release, Swap, Free
  <2> QED
    BY <1>2, <2>1, <2>2, <2>3 DEF Step
<1> QED
  BY <1>1, <1>2

LEMMA PushType ==
  ASSUME BufferTypeOK, NEW m \in Messages, BufferPush(m)
  PROVE  BufferTypeOK' /\ Overwritten \in Messages \cup {None}
<1>1. CASE HasRoom
  <2>1. buffer' = Append(buffer, m)
    BY <1>1 DEF BufferPush
  <2> QED
    BY <2>1, <1>1, RingBufferAssumption, AppendProperties
    DEF BufferTypeOK, HasRoom, Overwritten
<1>2. CASE ~HasRoom
  <2>1. buffer # <<>> /\ buffer' = Append(Tail(buffer), m)
    BY <1>2, RingBufferAssumption DEF BufferPush, BufferTypeOK, HasRoom
  <2>2. /\ Head(buffer) \in Messages
        /\ Tail(buffer) \in Seq(Messages) /\ Len(Tail(buffer)) = Len(buffer) - 1
    BY <2>1, HeadTailProperties DEF BufferTypeOK
  <2> QED
    BY <2>1, <2>2, <1>2, RingBufferAssumption, AppendProperties
    DEF BufferTypeOK, HasRoom, Overwritten
<1> QED
  BY <1>1, <1>2

LEMMA PopType ==
  ASSUME BufferTypeOK, BufferPop
  PROVE  BufferTypeOK' /\ Head(buffer) \in Messages
<1>1. buffer # <<>> /\ buffer' = Tail(buffer)
  BY DEF BufferPop
<1> QED
  BY <1>1, HeadTailProperties, RingBufferAssumption DEF BufferTypeOK

-----------------------------------------------------------------------------
\* Type correctness of each step.

LEMMA TypeOfClient ==
  ASSUME IndInv, NEW t \in Threads, Client(t)
  PROVE  TypeOK'
<1> USE DEF TypeOK, WaitlistTypeOK, BufferTypeOK, block, ends, thread, notes, msgs,
            waitlist
<1>0. TypeOK /\ WaitlistTypeOK /\ BufferTypeOK
  BY DEF IndInv
<1>1. ASSUME NEW s \in Senders, NEW m \in Messages, Send(t, s, m)
      PROVE  TypeOK'
  <2>1. CASE receivers > 0
    BY <1>0, <1>1, <2>1, EnterType DEF Send, TxCalls, Steps
  <2>2. CASE receivers = 0
    BY <1>0, <1>1, <2>2 DEF Send
  <2> QED
    BY <1>0, <1>1, <2>1, <2>2 DEF Send
<1>2. ASSUME NEW r \in Receivers, NEW c \in RxCalls, Receive(t, r, c)
      PROVE  TypeOK'
  BY <1>0, <1>2, EnterType DEF Receive, Steps
<1>3. ASSUME NEW s \in Senders, NEW new \in Senders, CloneTx(t, s, new)
      PROVE  TypeOK'
  BY <1>0, <1>3 DEF CloneTx
<1>4. ASSUME NEW r \in Receivers, NEW new \in Receivers, CloneRx(t, r, new)
      PROVE  TypeOK'
  <2>1. /\ receivers' = receivers + 1 /\ rx' = rx \cup {new}
        /\ Enter(t, "clone_rx", r, "register")
        /\ UNCHANGED <<senders, connected, freed, tx, slot, notes, msgs, waitlist>>
    BY <1>4 DEF CloneRx
  <2>2. /\ pc' \in [Threads -> Steps]
        /\ call' \in [Threads -> TxCalls \cup RxCalls \cup {None}]
        /\ end' \in [Threads -> Senders \cup Receivers \cup {None}]
    BY <1>0, <2>1, EnterType DEF RxCalls, Steps
  <2> QED
    BY <1>0, <2>1, <2>2
<1>5. ASSUME NEW s \in Senders, DropTx(t, s)
      PROVE  TypeOK'
  <2>1. senders - 1 \in Nat
    BY <1>0, <1>5, EndsAreFinite, FS_EmptySet DEF IndInv, LifetimeInv, DropTx
  <2> QED
    BY <1>0, <1>5, <2>1, EnterType DEF DropTx, TxCalls, Steps
<1>6. ASSUME NEW r \in Receivers, DropRx(t, r)
      PROVE  TypeOK'
  <2>1. Enter(t, "drop_rx", r, "pop") \/ Enter(t, "drop_rx", r, "release")
    BY <1>6 DEF DropRx
  <2> QED
    BY <1>0, <1>6, <2>1, EnterType DEF DropRx, WaitlistDeregister, RxCalls, Steps
<1>7. CASE Abandon(t)
  BY <1>0, <1>7, ReturnType DEF Abandon
<1> QED
  BY <1>1, <1>2, <1>3, <1>4, <1>5, <1>6, <1>7 DEF Client

LEMMA TypeOfStep ==
  ASSUME IndInv, NEW t \in Threads, Step(t)
  PROVE  TypeOK'
<1> USE DEF TypeOK, WaitlistTypeOK, BufferTypeOK, block, ends, thread, notes, msgs,
            waitlist
<1>0. TypeOK /\ WaitlistTypeOK /\ BufferTypeOK
  BY DEF IndInv
<1>1. CASE Push(t)
  <2>1. hand[t] \in Messages
    BY <1>0, <1>1 DEF Push, IndInv, LifetimeInv, CallsHoldEnds
  <2> QED
    BY <1>0, <1>1, <2>1, PushType, GotoType, ReturnType DEF Push, Steps
<1>2. CASE LockWaitlist(t)
  BY <1>0, <1>2, GotoType DEF LockWaitlist, PopBegin, Steps
<1>3. CASE PassSlot(t)
  BY <1>0, <1>3, WaitlistAssumption DEF PassSlot, PopMiss
<1>4. CASE TakeWaker(t)
  BY <1>0, <1>4, GotoType DEF TakeWaker, PopTake, IsNext, Ahead, Steps
<1>5. CASE FindNoWaker(t)
  BY <1>0, <1>5, AfterNoneType DEF FindNoWaker, PopNone
<1>6. CASE Wake(t)
  BY <1>0, <1>6, AfterNoneType, GotoType DEF Wake, Note, AfterWake, Steps
<1>7. CASE Load(t)
  BY <1>0, <1>7, GotoType DEF Load, Steps
<1>8. CASE TakeMessage(t)
  BY <1>0, <1>8, PopType, GotoType, ReturnType DEF TakeMessage, Steps
<1>9. CASE FindEmpty(t)
  BY <1>0, <1>9, GotoType, ReturnType DEF FindEmpty, AfterEmpty, Steps
<1>10. CASE Insert(t)
  BY <1>0, <1>10, GotoType DEF Insert, WaitlistInsert, Steps
<1>11. CASE Remove(t)
  BY <1>0, <1>11, ReturnType DEF Remove, WaitlistRemove
<1>12. CASE Resume(t)
  BY <1>0, <1>12, GotoType DEF Resume, Steps
<1>13. CASE Register(t)
  BY <1>0, <1>13, ReturnType DEF Register, WaitlistRegister
<1>14. CASE Release(t)
  <2>1. CallsHoldEnds /\ receivers = Cardinality(rx)
    BY DEF IndInv, LifetimeInv
  <2>2. end[t] \in rx
    BY <1>0, <1>14, <2>1 DEF Release, CallsHoldEnds, PollSteps, Borrowing, TxCalls, RxCalls
  <2>3. receivers - 1 \in Nat
    BY <1>0, <2>1, <2>2, EndsAreFinite, FS_EmptySet
  <2> QED
    BY <1>0, <1>14, <2>3, GotoType, ReturnType DEF Release, Steps
<1>15. CASE Swap(t)
  BY <1>0, <1>15, GotoType, ReturnType DEF Swap, Steps
<1>16. CASE Free(t)
  <2>1. {buffer[i] : i \in DOMAIN buffer} \subseteq Messages
    BY <1>0, ElementOfSeq
  <2>2. <<>> \in Seq(Messages) /\ Len(<<>>) <= Capacity
    BY RingBufferAssumption
  <2> QED
    BY <1>0, <1>16, <2>1, <2>2, ReturnType DEF Free
<1> QED
  BY <1>1, <1>2, <1>3, <1>4, <1>5, <1>6, <1>7, <1>8, <1>9, <1>10, <1>11, <1>12,
     <1>13, <1>14, <1>15, <1>16 DEF Step

-----------------------------------------------------------------------------
\* The life of the control block.

\* A step that leaves the endpoints and the block alone, and every thread as
\* hanging up, leaving or freeing as it was, preserves the invariant as soon as
\* the calls still hold their endpoints.
LEMMA QuietStep ==
  ASSUME LifetimeInv, CallsHoldEnds', UNCHANGED <<block, tx, rx>>,
         \A u \in Threads : /\ HangingUp(u)' <=> HangingUp(u)
                            /\ Leaving(u)' <=> Leaving(u)
                            /\ Freeing(u)' <=> Freeing(u)
  PROVE  LifetimeInv'
<1>1. TxDone' <=> TxDone
  BY DEF TxDone
<1>2. RxDone' <=> RxDone
  BY DEF RxDone
<1>3. Doomed' <=> Doomed
  BY DEF Doomed, block
<1> QED
  BY <1>1, <1>2, <1>3 DEF LifetimeInv, AtMostOne, block

\* A poll that goes on to its next step.
LEMMA QuietPoll ==
  ASSUME IndInv, NEW t \in Threads, NEW step \in PollSteps, Goto(t, step),
         call[t] \in Borrowing, UNCHANGED <<block, tx, rx, hand>>
  PROVE  LifetimeInv'
<1> USE DEF IndInv, LifetimeInv, TypeOK, CallsHoldEnds, Goto, PollSteps, Borrowing
<1>1. CallsHoldEnds'
  BY RingChannelAssumption
<1>2. \A u \in Threads : /\ HangingUp(u)' <=> HangingUp(u)
                         /\ Leaving(u)' <=> Leaving(u)
                         /\ Freeing(u)' <=> Freeing(u)
  BY DEF HangingUp, Leaving, Freeing
<1> QED
  BY <1>1, <1>2, QuietStep

\* A call that is about to pop, or pops, the waitlist and goes on.
LEMMA QuietNotify ==
  ASSUME IndInv, NEW t \in Threads, NEW step \in Steps, Goto(t, step),
         pc[t] \in {"push", "pop", "scan", "wake"},
         \/ step \in {"pop", "scan", "wake"}
         \/ call[t] = "drop_tx" /\ step = "swap"
         \/ call[t] = "drop_rx" /\ step = "release",
         UNCHANGED <<block, tx, rx>>,
         \A u \in Threads \ {t} : hand'[u] = hand[u]
  PROVE  LifetimeInv'
<1> USE DEF IndInv, LifetimeInv, TypeOK, Goto
<1>1. call[t] \in {"send", "drop_tx", "drop_rx"}
  BY DEF CallsHoldEnds, PollSteps, Borrowing, TxCalls, RxCalls
<1>2. CallsHoldEnds'
  <2> SUFFICES ASSUME NEW u \in Threads PROVE CallsHoldEnds!(u)'
    BY DEF CallsHoldEnds
  <2>1. CASE u = t
    BY <1>1, <2>1, RingChannelAssumption DEF CallsHoldEnds, TxCalls, RxCalls, Borrowing
  <2>2. CASE u # t
    BY <2>2 DEF CallsHoldEnds
  <2> QED
    BY <2>1, <2>2
<1>3. \A u \in Threads : /\ HangingUp(u)' <=> HangingUp(u)
                         /\ Leaving(u)' <=> Leaving(u)
                         /\ Freeing(u)' <=> Freeing(u)
  BY <1>1 DEF CallsHoldEnds, HangingUp, Leaving, Freeing
<1> QED
  BY <1>2, <1>3, QuietStep

\* A send or a poll that returns.
LEMMA QuietReturn ==
  ASSUME IndInv, NEW t \in Threads, Return(t), call[t] \in Borrowing \cup {"send"},
         UNCHANGED <<block, tx, rx>>,
         \A u \in Threads \ {t} : hand'[u] = hand[u]
  PROVE  LifetimeInv'
<1> USE DEF IndInv, LifetimeInv, TypeOK, CallsHoldEnds, Return, PollSteps, Borrowing
<1>1. CallsHoldEnds'
  BY RingChannelAssumption DEF TxCalls, RxCalls
<1>2. \A u \in Threads : /\ HangingUp(u)' <=> HangingUp(u)
                         /\ Leaving(u)' <=> Leaving(u)
                         /\ Freeing(u)' <=> Freeing(u)
  BY RingChannelAssumption DEF HangingUp, Leaving, Freeing, TxCalls, RxCalls
<1> QED
  BY <1>1, <1>2, QuietStep

LEMMA AfterNoneQuiet ==
  ASSUME IndInv, NEW t \in Threads, AfterNone(t), pc[t] \in {"scan", "wake"},
         UNCHANGED <<block, tx, rx, hand>>
  PROVE  LifetimeInv'
BY QuietNotify, QuietReturn DEF AfterNone, Steps

LEMMA QuietSteps ==
  ASSUME IndInv, NEW t \in Threads,
         \/ Push(t) \/ LockWaitlist(t) \/ PassSlot(t) \/ TakeWaker(t) \/ FindNoWaker(t)
         \/ Wake(t) \/ Load(t) \/ TakeMessage(t) \/ FindEmpty(t) \/ Insert(t)
         \/ Remove(t) \/ Resume(t) \/ Register(t) \/ Abandon(t)
  PROVE  LifetimeInv'
<1> USE DEF block, ends, msgs
<1>0. TypeOK /\ CallsHoldEnds
  BY DEF IndInv, LifetimeInv
<1>a. \A u \in Threads \ {t} : \A v : [hand EXCEPT ![t] = v][u] = hand[u]
  BY <1>0 DEF TypeOK
<1>1. CASE Push(t)
  <2>1. call[t] = "send"
    BY <1>0, <1>1 DEF Push, CallsHoldEnds, TypeOK, TxCalls, RxCalls, PollSteps, Borrowing
  <2>2. /\ UNCHANGED <<block, tx, rx>>
        /\ \A u \in Threads \ {t} : hand'[u] = hand[u]
    BY <1>1, <1>a DEF Push
  <2>3. Goto(t, "pop") \/ Return(t)
    BY <1>1 DEF Push
  <2> QED
    BY <1>1, <2>1, <2>2, <2>3, QuietNotify, QuietReturn DEF Push, Steps
<1>2. CASE LockWaitlist(t)
  BY <1>2, QuietNotify DEF LockWaitlist, Steps
<1>3. CASE PassSlot(t)
  <2>1. UNCHANGED <<block, tx, rx, thread, hand>>
    BY <1>3 DEF PassSlot
  <2> QED
    BY <2>1, <1>0, QuietStep
    DEF IndInv, thread, CallsHoldEnds, HangingUp, Leaving, Freeing
<1>4. CASE TakeWaker(t)
  BY <1>4, QuietNotify DEF TakeWaker, Steps
<1>5. CASE FindNoWaker(t)
  BY <1>5, AfterNoneQuiet DEF FindNoWaker
<1>6. CASE Wake(t)
  BY <1>6, AfterNoneQuiet, QuietNotify DEF Wake, AfterWake, Steps
<1>p. ASSUME pc[t] \in PollSteps
      PROVE  call[t] \in Borrowing
  BY <1>0, <1>p DEF CallsHoldEnds, TypeOK, TxCalls, RxCalls, PollSteps, Borrowing
<1>7. CASE Load(t)
  BY <1>7, <1>p, QuietPoll DEF Load, PollSteps
<1>8. CASE TakeMessage(t)
  <2>1. /\ call[t] \in Borrowing
        /\ UNCHANGED <<block, tx, rx>>
        /\ \A u \in Threads \ {t} : hand'[u] = hand[u]
    BY <1>8, <1>a, <1>p DEF TakeMessage, Looking, PollSteps
  <2>2. CASE Return(t)
    BY <2>1, <2>2, QuietReturn
  <2>3. CASE Goto(t, "remove")
    <3>1. CallsHoldEnds'
      BY <1>0, <2>1, <2>3, RingChannelAssumption
      DEF CallsHoldEnds, TypeOK, Goto, PollSteps, Borrowing
    <3>2. \A u \in Threads : /\ HangingUp(u)' <=> HangingUp(u)
                             /\ Leaving(u)' <=> Leaving(u)
                             /\ Freeing(u)' <=> Freeing(u)
      BY <1>0, <2>1, <2>3
      DEF CallsHoldEnds, TypeOK, Goto, PollSteps, Borrowing, HangingUp, Leaving, Freeing
    <3> QED
      BY <2>1, <3>1, <3>2, QuietStep DEF IndInv
  <2> QED
    BY <1>8, <2>2, <2>3 DEF TakeMessage
<1>9. CASE FindEmpty(t)
  BY <1>9, <1>p, QuietPoll, QuietReturn DEF FindEmpty, AfterEmpty, Looking, PollSteps
<1>10. CASE Insert(t)
  BY <1>10, <1>p, QuietPoll DEF Insert, PollSteps
<1>11. CASE Remove(t)
  BY <1>11, <1>a, <1>p, QuietReturn DEF Remove, PollSteps
<1>12. CASE Resume(t)
  BY <1>12, <1>p, QuietPoll DEF Resume, PollSteps
<1>13. CASE Register(t)
  BY <1>13, <1>p, QuietReturn DEF Register, PollSteps
<1>14. CASE Abandon(t)
  BY <1>14, <1>p, QuietReturn DEF Abandon, PollSteps
<1> QED
  BY <1>1, <1>2, <1>3, <1>4, <1>5, <1>6, <1>7, <1>8, <1>9, <1>10, <1>11, <1>12,
     <1>13, <1>14

\* A call that starts on an endpoint it may borrow.
LEMMA QuietEnter ==
  ASSUME IndInv, NEW t \in Threads, NEW c, NEW e, NEW step, Enter(t, c, e, step),
         pc[t] = "idle", MayBorrow(c, e), UNCHANGED <<block, tx, rx>>,
         \A u \in Threads \ {t} : hand'[u] = hand[u],
         \/ c = "send" /\ step = "push" /\ e \in tx /\ hand'[t] # None
         \/ c \in Borrowing /\ step \in PollSteps /\ e \in rx
         \/ c = "drop_rx" /\ step \in {"pop", "release"} /\ e \in rx
  PROVE  LifetimeInv'
<1> USE RingChannelAssumption DEF IndInv, LifetimeInv, TypeOK, Enter, TxCalls, RxCalls
<1>1. CallsHoldEnds'
  <2> SUFFICES ASSUME NEW u \in Threads PROVE CallsHoldEnds!(u)'
    BY DEF CallsHoldEnds
  <2>1. CASE u = t
    BY <2>1 DEF CallsHoldEnds, PollSteps, Borrowing, MayBorrow, Uses, ExclusiveCalls
  <2>2. CASE u # t
    BY <2>2 DEF CallsHoldEnds, PollSteps, Borrowing, MayBorrow, Uses, ExclusiveCalls
  <2> QED
    BY <2>1, <2>2
<1>2. \A u \in Threads : /\ HangingUp(u)' <=> HangingUp(u)
                         /\ Leaving(u)' <=> Leaving(u)
                         /\ Freeing(u)' <=> Freeing(u)
  BY DEF CallsHoldEnds, PollSteps, Borrowing, HangingUp, Leaving, Freeing
<1> QED
  BY <1>1, <1>2, QuietStep

LEMMA SendLifetime ==
  ASSUME IndInv, NEW t \in Threads, NEW s \in Senders, NEW m \in Messages, Send(t, s, m)
  PROVE  LifetimeInv'
<1> USE DEF block, ends, msgs
<1>1. CASE receivers > 0
  <2>1. /\ Enter(t, "send", s, "push") /\ hand' = [hand EXCEPT ![t] = m] /\ s \in tx
        /\ UNCHANGED <<block, tx, rx>> /\ pc[t] = "idle" /\ MayBorrow("send", s)
    BY <1>1 DEF Send, MayEnter
  <2>2. hand'[t] # None /\ \A u \in Threads \ {t} : hand'[u] = hand[u]
    BY <2>1, RingBufferAssumption DEF IndInv, TypeOK
  <2> QED
    BY <2>1, <2>2, QuietEnter
<1>2. CASE receivers = 0
  <2>1. UNCHANGED <<block, tx, rx, thread, hand>>
    BY <1>2 DEF Send
  <2> QED
    BY <2>1, QuietStep
    DEF IndInv, LifetimeInv, thread, CallsHoldEnds, HangingUp, Leaving, Freeing
<1> QED
  BY <1>1, <1>2 DEF Send, IndInv, TypeOK

LEMMA ReceiveLifetime ==
  ASSUME IndInv, NEW t \in Threads, NEW r \in Receivers, NEW c \in RxCalls,
         Receive(t, r, c)
  PROVE  LifetimeInv'
BY QuietEnter DEF Receive, MayEnter, Usable, Borrowing, PollSteps, block, ends, msgs

LEMMA DropRxLifetime ==
  ASSUME IndInv, NEW t \in Threads, NEW r \in Receivers, DropRx(t, r)
  PROVE  LifetimeInv'
<1>1. Enter(t, "drop_rx", r, "pop") \/ Enter(t, "drop_rx", r, "release")
  BY DEF DropRx
<1> QED
  BY <1>1, QuietEnter DEF DropRx, MayEnter, Usable, block, ends, msgs

LEMMA CloneTxLifetime ==
  ASSUME IndInv, NEW t \in Threads, NEW s \in Senders, NEW new \in Senders,
         CloneTx(t, s, new)
  PROVE  LifetimeInv'
<1> USE DEF thread, msgs
<1>1. /\ s \in tx /\ new \notin tx /\ tx' = tx \cup {new} /\ senders' = senders + 1
      /\ UNCHANGED <<receivers, connected, freed, rx, thread, hand>>
  BY DEF CloneTx
<1>2. LifetimeInv /\ TypeOK
  BY DEF IndInv
<1>3. senders' = Cardinality(tx')
  BY <1>1, <1>2, EndsAreFinite, FS_AddElement DEF LifetimeInv
<1>4. CallsHoldEnds'
  BY <1>1, <1>2 DEF LifetimeInv, CallsHoldEnds
<1>5. \A u \in Threads : /\ HangingUp(u)' <=> HangingUp(u)
                         /\ Leaving(u)' <=> Leaving(u)
                         /\ Freeing(u)' <=> Freeing(u)
  BY <1>1 DEF HangingUp, Leaving, Freeing
<1>6. ~TxDone /\ ~TxDone' /\ (RxDone' <=> RxDone) /\ (Doomed' <=> Doomed)
  BY <1>1, <1>5 DEF TxDone, RxDone, Doomed
<1> QED
  BY <1>1, <1>2, <1>3, <1>4, <1>5, <1>6 DEF LifetimeInv, AtMostOne

LEMMA CloneRxLifetime ==
  ASSUME IndInv, NEW t \in Threads, NEW r \in Receivers, NEW new \in Receivers,
         CloneRx(t, r, new)
  PROVE  LifetimeInv'
<1> USE DEF msgs
<1>1. /\ r \in rx /\ new \notin rx /\ rx' = rx \cup {new} /\ receivers' = receivers + 1
      /\ UNCHANGED <<senders, connected, freed, tx, hand>>
      /\ pc[t] = "idle" /\ MayBorrow("clone_rx", r)
      /\ Enter(t, "clone_rx", r, "register")
  BY DEF CloneRx, Usable, MayEnter
<1>2. LifetimeInv /\ TypeOK /\ CallsHoldEnds
  BY DEF IndInv, LifetimeInv
<1>3. receivers' = Cardinality(rx')
  BY <1>1, <1>2, EndsAreFinite, FS_AddElement DEF LifetimeInv
<1>4. CallsHoldEnds'
  <2> SUFFICES ASSUME NEW u \in Threads PROVE CallsHoldEnds!(u)'
    BY DEF CallsHoldEnds
  <2>1. CASE u = t
    BY <1>1, <1>2, <2>1, RingChannelAssumption
    DEF CallsHoldEnds, Enter, TypeOK, TxCalls, RxCalls, PollSteps, Borrowing
  <2>2. CASE u # t
    BY <1>1, <1>2, <2>2
    DEF CallsHoldEnds, Enter, TypeOK, MayBorrow, Uses, ExclusiveCalls
  <2> QED
    BY <2>1, <2>2
<1>5. \A u \in Threads : /\ HangingUp(u)' <=> HangingUp(u)
                         /\ Leaving(u)' <=> Leaving(u)
                         /\ Freeing(u)' <=> Freeing(u)
  BY <1>1, <1>2, RingChannelAssumption
  DEF CallsHoldEnds, Enter, TypeOK, HangingUp, Leaving, Freeing, TxCalls, RxCalls
<1>6. ~RxDone /\ ~RxDone' /\ (TxDone' <=> TxDone) /\ (Doomed' <=> Doomed)
  BY <1>1, <1>5 DEF TxDone, RxDone, Doomed
<1> QED
  BY <1>1, <1>2, <1>3, <1>4, <1>5, <1>6 DEF LifetimeInv, AtMostOne

\* The last sender starts to hang up; any other just goes.
LEMMA DropTxLifetime ==
  ASSUME IndInv, NEW t \in Threads, NEW s \in Senders, DropTx(t, s)
  PROVE  LifetimeInv'
<1> USE DEF msgs
<1>1. /\ s \in tx /\ tx' = tx \ {s} /\ senders' = senders - 1
      /\ UNCHANGED <<receivers, connected, freed, rx, hand>>
      /\ pc[t] = "idle" /\ MayBorrow("drop_tx", s)
      /\ IF LastSender THEN Enter(t, "drop_tx", s, "pop") ELSE UNCHANGED thread
  BY DEF DropTx, MayEnter
<1>2. LifetimeInv /\ TypeOK /\ CallsHoldEnds
  BY DEF IndInv, LifetimeInv
<1>3. senders' = Cardinality(tx') /\ IsFiniteSet(tx')
  BY <1>1, <1>2, EndsAreFinite, FS_RemoveElement DEF LifetimeInv
<1>4. LastSender <=> tx' = {}
  BY <1>1, <1>2, <1>3, FS_EmptySet DEF LastSender, TypeOK
<1>5. \A u \in Threads : call[u] = "send" => end[u] \in tx'
  BY <1>1, <1>2, RingChannelAssumption
  DEF CallsHoldEnds, MayBorrow, Uses, ExclusiveCalls, TxCalls
<1>6. ~TxDone /\ \A u \in Threads : ~HangingUp(u)
  BY <1>1, <1>2 DEF CallsHoldEnds, TxDone, HangingUp
<1>7. CASE LastSender
  <2>1. Enter(t, "drop_tx", s, "pop") /\ tx' = {}
    BY <1>1, <1>4, <1>7
  <2>2. CallsHoldEnds'
    <3> SUFFICES ASSUME NEW u \in Threads PROVE CallsHoldEnds!(u)'
      BY DEF CallsHoldEnds
    <3>1. CASE u = t
      BY <1>1, <1>2, <2>1, <3>1, RingChannelAssumption
      DEF CallsHoldEnds, Enter, TypeOK, TxCalls, RxCalls, PollSteps, Borrowing
    <3>2. CASE u # t
      BY <1>1, <1>2, <1>5, <2>1, <3>2, RingChannelAssumption
      DEF CallsHoldEnds, Enter, TypeOK
    <3> QED
      BY <3>1, <3>2
  <2>3. \A u \in Threads : /\ HangingUp(u)' <=> u = t
                           /\ Leaving(u)' <=> Leaving(u)
                           /\ Freeing(u)' <=> Freeing(u)
    BY <1>1, <1>2, <1>6, <2>1, RingChannelAssumption
    DEF CallsHoldEnds, Enter, TypeOK, HangingUp, Leaving, Freeing, TxCalls, RxCalls
  <2>4. ~TxDone' /\ (RxDone' <=> RxDone) /\ (Doomed' <=> Doomed)
    BY <1>1, <2>3 DEF TxDone, RxDone, Doomed
  <2> QED
    BY <1>1, <1>2, <1>3, <1>6, <2>2, <2>3, <2>4 DEF LifetimeInv, AtMostOne
<1>8. CASE ~LastSender
  <2>1. UNCHANGED thread /\ tx' # {}
    BY <1>1, <1>4, <1>8
  <2>2. CallsHoldEnds'
    BY <1>1, <1>2, <1>5, <2>1 DEF CallsHoldEnds, thread
  <2>3. \A u \in Threads : /\ HangingUp(u)' <=> HangingUp(u)
                           /\ Leaving(u)' <=> Leaving(u)
                           /\ Freeing(u)' <=> Freeing(u)
    BY <2>1 DEF HangingUp, Leaving, Freeing, thread
  <2>4. ~TxDone' /\ (RxDone' <=> RxDone) /\ (Doomed' <=> Doomed)
    BY <1>1, <2>1, <2>3 DEF TxDone, RxDone, Doomed
  <2> QED
    BY <1>1, <1>2, <1>3, <1>6, <2>2, <2>3, <2>4 DEF LifetimeInv, AtMostOne
<1> QED
  BY <1>7, <1>8

\* The last receiver goes on to swap the flag; any other just goes.
LEMMA ReleaseLifetime ==
  ASSUME IndInv, NEW t \in Threads, Release(t)
  PROVE  LifetimeInv'
<1> USE DEF msgs
<1>1. /\ rx' = rx \ {end[t]} /\ receivers' = receivers - 1
      /\ UNCHANGED <<senders, connected, freed, tx, hand>>
      /\ pc[t] = "release"
      /\ IF LastReceiver THEN Goto(t, "swap") ELSE Return(t)
  BY DEF Release
<1>2. LifetimeInv /\ TypeOK /\ CallsHoldEnds
  BY DEF IndInv, LifetimeInv
<1>3. /\ call[t] = "drop_rx" /\ end[t] \in rx
      /\ \A u \in Threads \ {t} : end[u] # end[t]
  BY <1>1, <1>2 DEF CallsHoldEnds, TypeOK, TxCalls, RxCalls, PollSteps, Borrowing
<1>4. receivers' = Cardinality(rx') /\ IsFiniteSet(rx')
  BY <1>1, <1>2, <1>3, EndsAreFinite, FS_RemoveElement DEF LifetimeInv
<1>5. LastReceiver <=> rx' = {}
  BY <1>1, <1>2, <1>4, FS_EmptySet DEF LastReceiver, TypeOK
<1>6. ~RxDone /\ \A u \in Threads : ~Leaving(u)
  BY <1>2, <1>3 DEF CallsHoldEnds, RxDone, Leaving
<1>7. CallsHoldEnds'
  <2> SUFFICES ASSUME NEW u \in Threads PROVE CallsHoldEnds!(u)'
    BY DEF CallsHoldEnds
  <2>1. CASE u = t
    <3>1. CASE LastReceiver
      BY <1>1, <1>2, <1>3, <1>5, <2>1, <3>1, RingChannelAssumption
      DEF CallsHoldEnds, Goto, TypeOK, TxCalls, RxCalls, PollSteps, Borrowing
    <3>2. CASE ~LastReceiver
      BY <1>1, <1>2, <2>1, <3>2, RingChannelAssumption
      DEF CallsHoldEnds, Return, TypeOK, TxCalls, RxCalls, PollSteps, Borrowing
    <3> QED
      BY <3>1, <3>2
  <2>2. CASE u # t
    <3>1. /\ pc'[u] = pc[u] /\ call'[u] = call[u] /\ end'[u] = end[u]
          /\ end[u] \in rx => end[u] \in rx'
          /\ end'[t] \in {end[t], None} /\ None \notin rx
      BY <1>1, <1>2, <1>3, <2>2, RingChannelAssumption DEF Goto, Return, TypeOK
    <3>2. call[u] = "drop_rx" => end[u] \in rx
      BY <1>2, <1>3, <2>2 DEF CallsHoldEnds
    <3>3. \A v \in Threads \ {u} : end[u] \in rx /\ end[v] # end[u] => end'[v] # end[u]
      BY <1>1, <1>2, <3>1 DEF Goto, Return, TypeOK
    <3>4. CallsHoldEnds!(u)
      BY <1>2 DEF CallsHoldEnds
    <3> QED
      BY <1>1, <1>3, <3>1, <3>2, <3>3, <3>4
  <2> QED
    BY <2>1, <2>2
<1>8. \A u \in Threads : /\ HangingUp(u)' <=> HangingUp(u)
                         /\ Freeing(u)' <=> Freeing(u)
  BY <1>1, <1>2, <1>3, RingChannelAssumption
  DEF Goto, Return, TypeOK, HangingUp, Freeing, TxCalls, RxCalls
<1>9. \A u \in Threads : Leaving(u)' <=> u = t /\ LastReceiver
  BY <1>1, <1>2, <1>3, <1>6, RingChannelAssumption
  DEF Goto, Return, TypeOK, Leaving, TxCalls, RxCalls
<1>10. ~RxDone' /\ (TxDone' <=> TxDone) /\ (Doomed' <=> Doomed)
  BY <1>1, <1>5, <1>8, <1>9 DEF TxDone, RxDone, Doomed
<1> QED
  BY <1>1, <1>2, <1>4, <1>6, <1>7, <1>8, <1>9, <1>10 DEF LifetimeInv, AtMostOne

\* The flag tells the call that swaps it whether the other side is done.
LEMMA SwapLifetime ==
  ASSUME IndInv, NEW t \in Threads, Swap(t)
  PROVE  LifetimeInv'
<1> USE DEF ends, msgs
<1>1. /\ UNCHANGED <<senders, receivers, freed, tx, rx, hand>>
      /\ pc[t] = "swap" /\ connected' = FALSE
      /\ IF OwnsBlock THEN Goto(t, "free") ELSE Return(t)
  BY DEF Swap
<1>2. LifetimeInv /\ TypeOK /\ CallsHoldEnds
  BY DEF IndInv, LifetimeInv
<1>3. \/ call[t] = "drop_tx" /\ tx = {} /\ HangingUp(t) /\ ~Leaving(t)
      \/ call[t] = "drop_rx" /\ rx = {} /\ Leaving(t) /\ ~HangingUp(t)
  BY <1>1, <1>2
  DEF CallsHoldEnds, TypeOK, HangingUp, Leaving, TxCalls, RxCalls, PollSteps, Borrowing
<1>4. ~Doomed
  BY <1>2, <1>3 DEF LifetimeInv, TxDone, RxDone
<1>5. CallsHoldEnds'
  <2> SUFFICES ASSUME NEW u \in Threads PROVE CallsHoldEnds!(u)'
    BY DEF CallsHoldEnds
  <2>1. CASE u = t
    BY <1>1, <1>2, <1>3, <2>1, RingChannelAssumption
    DEF CallsHoldEnds, Goto, Return, TypeOK, TxCalls, RxCalls, Borrowing
  <2>2. CASE u # t
    <3>1. /\ pc'[u] = pc[u] /\ call'[u] = call[u] /\ end'[u] = end[u]
          /\ end'[t] \in {end[t], None} /\ None \notin rx
      BY <1>1, <1>2, <2>2, RingChannelAssumption DEF Goto, Return, TypeOK
    <3>2. \A v \in Threads \ {u} : end[u] \in rx /\ end[v] # end[u] => end'[v] # end[u]
      BY <1>1, <1>2, <3>1 DEF Goto, Return, TypeOK
    <3>3. CallsHoldEnds!(u)
      BY <1>2 DEF CallsHoldEnds
    <3> QED
      BY <1>1, <3>1, <3>2, <3>3
  <2> QED
    BY <2>1, <2>2
<1>6. \A u \in Threads : /\ HangingUp(u)' <=> HangingUp(u) /\ u # t
                         /\ Leaving(u)' <=> Leaving(u) /\ u # t
                         /\ Freeing(u)' <=> u = t /\ ~connected
  BY <1>1, <1>2, <1>4, RingChannelAssumption
  DEF Goto, Return, TypeOK, HangingUp, Leaving, Freeing, Doomed, OwnsBlock, TxCalls, RxCalls
<1>7. CASE HangingUp(t)
  <2>1. ~TxDone /\ TxDone' /\ (RxDone' <=> RxDone)
    BY <1>1, <1>2, <1>3, <1>6, <1>7 DEF TxDone, RxDone, LifetimeInv, AtMostOne
  <2>2. Doomed' <=> ~connected
    BY <1>1, <1>4, <1>6 DEF Doomed
  <2> QED
    BY <1>1, <1>2, <1>4, <1>5, <1>6, <2>1, <2>2 DEF LifetimeInv, AtMostOne, Doomed
<1>8. CASE Leaving(t)
  <2>1. ~RxDone /\ RxDone' /\ (TxDone' <=> TxDone)
    BY <1>1, <1>2, <1>3, <1>6, <1>8 DEF TxDone, RxDone, LifetimeInv, AtMostOne
  <2>2. Doomed' <=> ~connected
    BY <1>1, <1>4, <1>6 DEF Doomed
  <2> QED
    BY <1>1, <1>2, <1>4, <1>5, <1>6, <2>1, <2>2 DEF LifetimeInv, AtMostOne, Doomed
<1> QED
  BY <1>3, <1>7, <1>8

\* Only the call that owns the block is left when it frees it.
LEMMA FreeLifetime ==
  ASSUME IndInv, NEW t \in Threads, Free(t)
  PROVE  LifetimeInv'
<1> USE DEF ends
<1>1. /\ UNCHANGED <<senders, receivers, connected, tx, rx, hand>>
      /\ pc[t] = "free" /\ freed' /\ Return(t)
  BY DEF Free
<1>2. LifetimeInv /\ TypeOK /\ CallsHoldEnds
  BY DEF IndInv, LifetimeInv
<1>3. TxDone /\ RxDone /\ ~connected /\ Freeing(t)
  BY <1>1, <1>2 DEF LifetimeInv, Doomed, Freeing
<1>4. CallsHoldEnds'
  <2> SUFFICES ASSUME NEW u \in Threads PROVE CallsHoldEnds!(u)'
    BY DEF CallsHoldEnds
  <2>1. CASE u = t
    BY <1>1, <1>2, <2>1, RingChannelAssumption
    DEF CallsHoldEnds, Return, TypeOK, TxCalls, RxCalls, Borrowing
  <2>2. CASE u # t
    <3>1. /\ pc'[u] = pc[u] /\ call'[u] = call[u] /\ end'[u] = end[u]
          /\ CallsHoldEnds!(u)
      BY <1>1, <1>2, <2>2 DEF Return, TypeOK, CallsHoldEnds
    <3> QED
      BY <1>1, <1>3, <3>1 DEF RxDone
  <2> QED
    BY <2>1, <2>2
<1>5. \A u \in Threads : /\ ~HangingUp(u)' /\ ~Leaving(u)' /\ ~Freeing(u)'
  BY <1>1, <1>2, <1>3, RingChannelAssumption
  DEF Return, TypeOK, TxDone, RxDone, HangingUp, Leaving, Freeing, LifetimeInv, AtMostOne,
      TxCalls, RxCalls
<1>6. TxDone' /\ RxDone' /\ Doomed'
  BY <1>1, <1>3, <1>5 DEF TxDone, RxDone, Doomed
<1> QED
  BY <1>1, <1>2, <1>3, <1>4, <1>5, <1>6 DEF LifetimeInv, AtMostOne

-----------------------------------------------------------------------------
\* The inductive invariant.

LEMMA InitIndInv ==
  ASSUME Init
  PROVE  IndInv
<1>1. TypeOK
  <2>1. senders \in Nat /\ receivers \in Nat
    BY FS_Subset, FS_CardinalityType, RingChannelAssumption DEF Init
  <2>2. BufferTypeOK
    BY RingBufferAssumption DEF Init, BufferInit, BufferTypeOK
  <2>3. WaitlistTypeOK
    BY DEF Init, WaitlistInit, WaitlistTypeOK
  <2> QED
    BY <2>1, <2>2, <2>3, RingChannelAssumption DEF Init, TypeOK, Steps
<1>2. CallsHoldEnds
  BY RingChannelAssumption DEF Init, CallsHoldEnds, TxCalls, RxCalls, Borrowing
<1>3. \A u \in Threads : ~HangingUp(u) /\ ~Leaving(u) /\ ~Freeing(u)
  BY RingChannelAssumption DEF Init, HangingUp, Leaving, Freeing, TxCalls, RxCalls
<1>4. ~TxDone /\ ~RxDone /\ ~Doomed /\ connected /\ ~freed
  BY <1>3, RingChannelAssumption DEF Init, TxDone, RxDone, Doomed
<1> QED
  BY <1>1, <1>2, <1>3, <1>4 DEF Init, IndInv, LifetimeInv, AtMostOne

LEMMA NextIndInv ==
  ASSUME IndInv, [Next]_vars
  PROVE  IndInv'
<1>1. ASSUME NEW t \in Threads, Client(t)
      PROVE  IndInv'
  <2>1. TypeOK'
    BY <1>1, TypeOfClient
  <2>2. LifetimeInv'
    BY <1>1, SendLifetime, ReceiveLifetime, CloneTxLifetime, CloneRxLifetime,
       DropTxLifetime, DropRxLifetime, QuietSteps DEF Client
  <2> QED
    BY <2>1, <2>2 DEF IndInv
<1>2. ASSUME NEW t \in Threads, Step(t)
      PROVE  IndInv'
  <2>1. TypeOK'
    BY <1>2, TypeOfStep
  <2>2. LifetimeInv'
    BY <1>2, QuietSteps, ReleaseLifetime, SwapLifetime, FreeLifetime DEF Step
  <2> QED
    BY <2>1, <2>2 DEF IndInv
<1>3. CASE UNCHANGED vars
  <2> USE <1>3 DEF vars, block, ends, thread, notes, msgs, waitlist
  <2>1. TypeOK'
    BY DEF IndInv, TypeOK, BufferTypeOK, WaitlistTypeOK
  <2>2. CallsHoldEnds'
    BY DEF IndInv, LifetimeInv, CallsHoldEnds
  <2>3. LifetimeInv'
    BY <2>2, QuietStep DEF IndInv, HangingUp, Leaving, Freeing
  <2> QED
    BY <2>1, <2>3 DEF IndInv
<1> QED
  BY <1>1, <1>2, <1>3 DEF Next

LEMMA Induction == Spec => []IndInv
<1>1. Init => IndInv
  BY InitIndInv
<1>2. IndInv /\ [Next]_vars => IndInv'
  BY NextIndInv
<1> QED
  BY <1>1, <1>2, PTL DEF Spec

-----------------------------------------------------------------------------
\* Every variable keeps its type: in particular the buffer never exceeds its
\* capacity and no counter ever goes below zero.
THEOREM TypeCorrect == Spec => []TypeOK
<1>1. IndInv => TypeOK
  BY DEF IndInv
<1> QED
  BY <1>1, Induction, PTL

\* The counters of the control block count the endpoints, and the connected
\* flag tells the last endpoint of each side whether the other side is done.
THEOREM Lifetime == Spec => []LifetimeInv
<1>1. IndInv => LifetimeInv
  BY DEF IndInv
<1> QED
  BY <1>1, Induction, PTL

LEMMA UnusedAfterFree == IndInv => NoUseAfterFree
<1> SUFFICES ASSUME IndInv, freed
             PROVE  tx = {} /\ rx = {} /\ AllIdle
  BY DEF NoUseAfterFree
<1>1. /\ TypeOK /\ CallsHoldEnds /\ TxDone /\ RxDone
      /\ \A t \in Threads : ~Freeing(t)
  BY DEF IndInv, LifetimeInv, Doomed
<1>2. tx = {} /\ rx = {}
  BY <1>1 DEF TxDone, RxDone
<1>3. ASSUME NEW t \in Threads
      PROVE  pc[t] = "idle"
  BY <1>1, <1>2
  DEF CallsHoldEnds, TypeOK, TxDone, RxDone, HangingUp, Leaving, Freeing, TxCalls, RxCalls,
      Borrowing
<1> QED
  BY <1>2, <1>3 DEF AllIdle

\* The control block is never used after ControlBlockRef::drop deallocates it.
THEOREM NeverUsedAfterFree == Spec => []NoUseAfterFree
BY UnusedAfterFree, Induction, PTL

LEMMA FreesOnce == IndInv => FreeAssertions
<1> SUFFICES ASSUME IndInv, NEW t \in Threads, pc[t] = "free"
             PROVE  /\ ~connected /\ senders = 0 /\ receivers = 0
                    /\ ~freed /\ \A u \in Threads : pc[u] = "free" => u = t
  BY DEF FreeAssertions
<1>1. TxDone /\ RxDone /\ LifetimeInv
  BY DEF IndInv, LifetimeInv, Doomed, Freeing
<1>2. senders = 0 /\ receivers = 0
  BY <1>1, FS_EmptySet DEF LifetimeInv, TxDone, RxDone
<1> QED
  BY <1>1, <1>2 DEF LifetimeInv, AtMostOne, Freeing

\* ControlBlockRef::drop runs at most once, and its assertions hold when it does.
THEOREM FreedOnce == Spec => []FreeAssertions
BY FreesOnce, Induction, PTL

LEMMA LeaksNothing == IndInv => NoLeak
BY RingChannelAssumption
DEF IndInv, TypeOK, LifetimeInv, NoLeak, AllIdle, Doomed, TxDone, RxDone, HangingUp, Leaving,
    Freeing, CallsHoldEnds, TxCalls, RxCalls

\* Once every endpoint has been dropped, so has the control block.
THEOREM NeverLeaked == Spec => []NoLeak
BY LeaksNothing, Induction, PTL

-----------------------------------------------------------------------------
\* The slots of the receivers.

\* A step that keeps the slots of the receivers, makes nobody an owner and
\* deregisters nothing preserves the ownership of slots.
LEMMA SlotsQuiet ==
  ASSUME TypeOK, SlotsAreOwned, UNCHANGED <<rx, slot>>,
         \A r \in Receivers : Owns(r)' => Owns(r),
         \A k \in Slots : items[k] # Vacant => items'[k] # Vacant
  PROVE  SlotsAreOwned'
<1>1. \A r \in Receivers : Owns(r) => slot[r] \in Slots
  BY DEF Owns, TypeOK
<1> QED
  BY <1>1 DEF SlotsAreOwned

\* A thread that stays in its call, starts one, or returns from one that does
\* not drop a receiver, makes nobody an owner.
LEMMA NoNewOwner ==
  ASSUME TypeOK, NEW t \in Threads, UNCHANGED <<rx, slot>>,
         \/ \E step : Goto(t, step)
         \/ UNCHANGED <<call, end>>
         \/ call[t] # "drop_rx" /\ \E c, e, step : Enter(t, c, e, step)
         \/ (call[t] # "drop_rx" \/ rx = {}) /\ Return(t)
  PROVE  \A r \in Receivers : Owns(r)' => Owns(r)
BY DEF TypeOK, Goto, Enter, Return, Owns

\* The steps that touch the waitlist only through insert, remove and pop.
LEMMA ItemsQuiet ==
  ASSUME TypeOK, NEW t \in Threads,
         \/ UNCHANGED items
         \/ \E k : WaitlistInsert(k, t) \/ WaitlistRemove(k) \/ PopTake(t, k)
  PROVE  \A k \in Slots : items[k] # Vacant => items'[k] # Vacant
BY WaitlistAssumption
DEF TypeOK, WaitlistTypeOK, WaitlistInsert, WaitlistRemove, PopTake

LEMMA SlotsOfClient ==
  ASSUME IndInv, SlotsAreOwned, NEW t \in Threads, Client(t)
  PROVE  SlotsAreOwned'
<1> USE DEF ends, thread, waitlist
<1>0. TypeOK /\ WaitlistTypeOK /\ CallsHoldEnds
  BY DEF IndInv, LifetimeInv, TypeOK
<1>i. pc[t] = "idle" => call[t] # "drop_rx"
  BY <1>0, RingChannelAssumption DEF CallsHoldEnds, RxCalls
<1>1. ASSUME NEW s \in Senders, NEW m \in Messages, Send(t, s, m)
      PROVE  SlotsAreOwned'
  <2>1. UNCHANGED <<rx, slot, items>>
    BY <1>1 DEF Send
  <2>2. Enter(t, "send", s, "push") \/ UNCHANGED <<call, end>>
    BY <1>1 DEF Send
  <2>3. pc[t] = "idle"
    BY <1>1 DEF Send, MayEnter
  <2> QED
    BY <1>0, <1>i, <2>1, <2>2, <2>3, NoNewOwner, SlotsQuiet
<1>2. ASSUME NEW r \in Receivers, NEW c \in RxCalls, Receive(t, r, c)
      PROVE  SlotsAreOwned'
  <2>1. UNCHANGED <<rx, slot, items>> /\ Enter(t, c, r, "load") /\ pc[t] = "idle"
    BY <1>2 DEF Receive, MayEnter
  <2> QED
    BY <1>0, <1>i, <2>1, NoNewOwner, SlotsQuiet
<1>3. ASSUME NEW s \in Senders, NEW new \in Senders, CloneTx(t, s, new)
      PROVE  SlotsAreOwned'
  BY <1>0, <1>3, NoNewOwner, SlotsQuiet DEF CloneTx
<1>4. ASSUME NEW r \in Receivers, NEW new \in Receivers, CloneRx(t, r, new)
      PROVE  SlotsAreOwned'
  <2>1. /\ rx' = rx \cup {new} /\ new \notin rx /\ pc[t] = "idle"
        /\ Enter(t, "clone_rx", r, "register") /\ UNCHANGED <<slot, items>>
    BY <1>4 DEF CloneRx, MayEnter
  <2>2. slot[new] = None
    BY <2>1 DEF SlotsAreOwned
  <2>3. \A q \in Receivers : Owns(q)' => Owns(q)
    BY <1>0, <1>i, <2>1, <2>2 DEF Owns, Enter, TypeOK
  <2> QED
    BY <2>1, <2>3 DEF SlotsAreOwned
<1>5. ASSUME NEW s \in Senders, DropTx(t, s)
      PROVE  SlotsAreOwned'
  <2>1. UNCHANGED <<rx, slot, items>> /\ pc[t] = "idle"
    BY <1>5 DEF DropTx, MayEnter
  <2>2. Enter(t, "drop_tx", s, "pop") \/ UNCHANGED <<call, end>>
    BY <1>5 DEF DropTx
  <2> QED
    BY <1>0, <1>i, <2>1, <2>2, NoNewOwner, SlotsQuiet
<1>6. ASSUME NEW r \in Receivers, DropRx(t, r)
      PROVE  SlotsAreOwned'
  <2>1. /\ items' = [items EXCEPT ![slot[r]] = Vacant]
        /\ UNCHANGED <<rx, slot>> /\ pc[t] = "idle" /\ Usable(r)
        /\ \E step : Enter(t, "drop_rx", r, step)
    BY <1>6 DEF DropRx, WaitlistDeregister, MayEnter
  <2>2. \A q \in Receivers : Owns(q)' => Owns(q) /\ q # r
    BY <1>0, <1>i, <2>1 DEF Owns, Enter, TypeOK
  <2>3. Owns(r)
    BY <1>0, <1>6, <2>1, RingChannelAssumption
    DEF Owns, Usable, DropRx, MayEnter, MayBorrow, Uses, ExclusiveCalls, CallsHoldEnds, RxCalls
  <2>4. \A q \in Receivers : Owns(q)' => slot[q] # slot[r] /\ slot[q] \in Slots
    BY <1>0, <2>2, <2>3 DEF SlotsAreOwned, TypeOK, Owns
  <2> QED
    BY <1>0, <2>1, <2>2, <2>4 DEF SlotsAreOwned, WaitlistTypeOK
<1>7. CASE Abandon(t)
  BY <1>0, <1>7, NoNewOwner, SlotsQuiet DEF Abandon
<1> QED
  BY <1>1, <1>2, <1>3, <1>4, <1>5, <1>6, <1>7 DEF Client

LEMMA SlotsOfStep ==
  ASSUME IndInv, SlotsAreOwned, NEW t \in Threads, Step(t)
  PROVE  SlotsAreOwned'
<1> USE DEF ends, thread, waitlist
<1>0. TypeOK /\ WaitlistTypeOK /\ CallsHoldEnds
  BY DEF IndInv, LifetimeInv, TypeOK
<1>p. ASSUME pc[t] \in PollSteps \cup {"push"}
      PROVE  call[t] # "drop_rx"
  BY <1>0, <1>p DEF CallsHoldEnds, PollSteps
<1>1. CASE Push(t)
  BY <1>0, <1>1, <1>p, NoNewOwner, SlotsQuiet DEF Push
<1>2. CASE LockWaitlist(t)
  BY <1>0, <1>2, NoNewOwner, SlotsQuiet DEF LockWaitlist, PopBegin
<1>3. CASE PassSlot(t)
  BY <1>0, <1>3, NoNewOwner, SlotsQuiet DEF PassSlot, PopMiss
<1>4. CASE TakeWaker(t)
  BY <1>0, <1>4, NoNewOwner, ItemsQuiet, SlotsQuiet DEF TakeWaker
<1>n. ASSUME AfterNone(t)
      PROVE  (\E step : Goto(t, step)) \/ (call[t] # "drop_rx" /\ Return(t))
  BY <1>n DEF AfterNone
<1>5. CASE FindNoWaker(t)
  BY <1>0, <1>5, <1>n, NoNewOwner, SlotsQuiet DEF FindNoWaker, PopNone
<1>6. CASE Wake(t)
  BY <1>0, <1>6, <1>n, NoNewOwner, SlotsQuiet DEF Wake, AfterWake
<1>7. CASE Load(t)
  BY <1>0, <1>7, NoNewOwner, SlotsQuiet DEF Load
<1>8. CASE TakeMessage(t)
  BY <1>0, <1>8, <1>p, NoNewOwner, SlotsQuiet DEF TakeMessage, Looking, PollSteps
<1>9. CASE FindEmpty(t)
  BY <1>0, <1>9, <1>p, NoNewOwner, SlotsQuiet DEF FindEmpty, Looking, PollSteps
<1>10. CASE Insert(t)
  BY <1>0, <1>10, NoNewOwner, ItemsQuiet, SlotsQuiet DEF Insert
<1>11. CASE Remove(t)
  BY <1>0, <1>11, <1>p, NoNewOwner, ItemsQuiet, SlotsQuiet DEF Remove, PollSteps
<1>12. CASE Resume(t)
  BY <1>0, <1>12, NoNewOwner, SlotsQuiet DEF Resume
<1>13. CASE Register(t)
  <2>1. PICK new \in rx, k \in Slots :
          /\ slot[new] = None /\ items[k] = Vacant
          /\ items' = [items EXCEPT ![k] = Empty] /\ slot' = [slot EXCEPT ![new] = k]
    BY <1>13 DEF Register, WaitlistRegister
  <2>2. UNCHANGED rx /\ Return(t) /\ call[t] # "drop_rx"
    BY <1>13, <1>p DEF Register, PollSteps
  <2>3. /\ new \in Receivers /\ slot'[new] = k /\ items'[k] # Vacant
        /\ \A q \in Receivers \ {new} : slot'[q] = slot[q]
        /\ \A j \in Slots \ {k} : items'[j] = items[j]
    BY <1>0, <2>1, WaitlistAssumption DEF TypeOK, WaitlistTypeOK
  <2>4. \A q \in Receivers \ {new} : Owns(q)' => Owns(q)
    BY <1>0, <2>2, <2>3 DEF Owns, Return, TypeOK
  <2>5. \A q \in Receivers \ {new} : Owns(q)' => slot[q] \in Slots \ {k}
    BY <1>0, <2>1, <2>4 DEF SlotsAreOwned, TypeOK, Owns
  <2> QED
    BY <2>2, <2>3, <2>4, <2>5 DEF SlotsAreOwned
<1>14. CASE Release(t)
  <2>1. /\ rx' = rx \ {end[t]} /\ slot' = [slot EXCEPT ![end[t]] = None]
        /\ Goto(t, "swap") \/ Return(t)
    BY <1>14 DEF Release
  <2>2. UNCHANGED items
    BY <1>14 DEF Release
  <2>3. \A q \in Receivers : Owns(q)' => Owns(q) /\ q # end[t]
    BY <1>0, <2>1 DEF Owns, Goto, Return, TypeOK
  <2> QED
    BY <1>0, <2>1, <2>2, <2>3 DEF SlotsAreOwned, TypeOK
<1>15. CASE Swap(t)
  <2>1. call[t] # "drop_rx" \/ rx = {}
    BY <1>0, <1>15 DEF Swap, CallsHoldEnds
  <2> QED
    BY <1>0, <1>15, <2>1, NoNewOwner, SlotsQuiet DEF Swap
<1>16. CASE Free(t)
  <2>1. call[t] # "drop_rx" \/ rx = {}
    BY <1>0, <1>16 DEF Free, CallsHoldEnds
  <2> QED
    BY <1>0, <1>16, <2>1, NoNewOwner, SlotsQuiet DEF Free
<1> QED
  BY <1>1, <1>2, <1>3, <1>4, <1>5, <1>6, <1>7, <1>8, <1>9, <1>10, <1>11, <1>12,
     <1>13, <1>14, <1>15, <1>16 DEF Step

\* No receiver ever indexes a slot that is another's or that is vacant.
THEOREM SlotOwnership == Spec => []SlotsAreOwned
<1>1. Init => SlotsAreOwned
  BY WaitlistAssumption, RingChannelAssumption
  DEF Init, WaitlistInit, SlotsAreOwned, Owns
<1>2. IndInv /\ SlotsAreOwned /\ [Next]_vars => SlotsAreOwned'
  <2> SUFFICES ASSUME IndInv, SlotsAreOwned, [Next]_vars
               PROVE  SlotsAreOwned'
    OBVIOUS
  <2>1. CASE UNCHANGED vars
    BY <2>1 DEF vars, ends, thread, waitlist, SlotsAreOwned, Owns
  <2> QED
    BY <2>1, SlotsOfClient, SlotsOfStep DEF Next
<1> QED
  BY <1>1, <1>2, Induction, PTL DEF Spec

-----------------------------------------------------------------------------
\* The hang-up.

\* The part of HangupIsFinal that is about the receivers; that no push is in
\* flight follows, for a push has a sender.
Drained ==
  \A t \in Threads :
    /\ pc[t] \in {"drain", "redrain"} => tx = {}
    /\ pc[t] = "remove" /\ hand[t] = None => tx = {} /\ buffer = <<>>

\* No sender comes back, and without one nobody pushes.
LEMMA HangupIsStable ==
  ASSUME IndInv, tx = {}, [Next]_vars
  PROVE  tx' = {} /\ (buffer = <<>> => buffer' = <<>>)
<1>0. TypeOK /\ CallsHoldEnds
  BY DEF IndInv, LifetimeInv
<1>1. \A t \in Threads : pc[t] # "push"
  BY <1>0 DEF CallsHoldEnds, TypeOK, TxCalls, RxCalls, PollSteps, Borrowing
<1> USE DEF block, ends, msgs
<1>2. ASSUME NEW t \in Threads, Client(t)
      PROVE  tx' = {} /\ buffer' = buffer
  BY <1>2 DEF Client, Send, Receive, CloneTx, CloneRx, DropTx, DropRx, Abandon
<1>3. ASSUME NEW t \in Threads, Step(t)
      PROVE  tx' = {} /\ (buffer = <<>> => buffer' = <<>>)
  BY <1>1, <1>3
  DEF Step, Push, LockWaitlist, PassSlot, TakeWaker, FindNoWaker, Wake, Load, TakeMessage,
      FindEmpty, Insert, Remove, Resume, Register, Release, Swap, Free, BufferPop
<1>4. CASE UNCHANGED vars
  BY <1>4 DEF vars
<1> QED
  BY <1>2, <1>3, <1>4 DEF Next

\* What a step can do to the pc and the hand of any thread.
LEMMA DrainSteps ==
  ASSUME IndInv, [Next]_vars, NEW u \in Threads
  PROVE  /\ pc'[u] \in {"drain", "redrain"} =>
              pc[u] \in {"drain", "redrain"} \/ senders = 0
         /\ pc'[u] = "remove" /\ hand'[u] = None =>
              \/ pc[u] = "remove" /\ hand[u] = None
              \/ pc[u] \in {"drain", "redrain"} /\ buffer = <<>>
<1>0. TypeOK /\ CallsHoldEnds /\ BufferTypeOK
  BY DEF IndInv, LifetimeInv, TypeOK
<1> USE DEF msgs, thread
<1>1. ASSUME NEW t \in Threads, Client(t)
      PROVE  \/ pc'[u] = pc[u] /\ hand'[u] = hand[u]
             \/ pc'[u] \notin {"drain", "redrain", "remove"}
  BY <1>0, <1>1
  DEF Client, Send, Receive, CloneTx, CloneRx, DropTx, DropRx, Abandon, Enter, Return, TypeOK
<1>2. ASSUME NEW t \in Threads, Step(t)
      PROVE  \/ pc'[u] = pc[u] /\ hand'[u] = hand[u]
             \/ pc'[u] \notin {"drain", "redrain", "remove"}
             \/ pc'[u] \in {"drain", "redrain"} /\ senders = 0
             \/ pc'[u] = "remove" /\ hand'[u] # None
             \/ pc'[u] = "remove" /\ pc[u] \in {"drain", "redrain"} /\ buffer = <<>>
  <2>1. CASE Push(t)
    BY <1>0, <2>1 DEF Push, Goto, Return, TypeOK
  <2>2. CASE LockWaitlist(t) \/ PassSlot(t) \/ TakeWaker(t)
    BY <1>0, <2>2 DEF LockWaitlist, PassSlot, TakeWaker, Goto, TypeOK
  <2>3. CASE FindNoWaker(t) \/ Wake(t)
    BY <1>0, <2>3 DEF FindNoWaker, Wake, AfterWake, AfterNone, Goto, Return, TypeOK
  <2>4. CASE Load(t)
    BY <1>0, <2>4 DEF Load, HungUp, Goto, TypeOK
  <2>5. CASE TakeMessage(t)
    <3>1. Head(buffer) # None
      BY <1>0, <2>5, PopType, RingBufferAssumption DEF TakeMessage
    <3> QED
      BY <1>0, <2>5, <3>1 DEF TakeMessage, Goto, Return, TypeOK
  <2>6. CASE FindEmpty(t)
    BY <1>0, <2>6 DEF FindEmpty, Looking, AfterEmpty, Goto, Return, TypeOK
  <2>7. CASE Insert(t) \/ Remove(t) \/ Resume(t) \/ Register(t)
    BY <1>0, <2>7 DEF Insert, Remove, Resume, Register, Goto, Return, TypeOK
  <2>8. CASE Release(t) \/ Swap(t) \/ Free(t)
    BY <1>0, <2>8 DEF Release, Swap, Free, Goto, Return, TypeOK
  <2> QED
    BY <1>2, <2>1, <2>2, <2>3, <2>4, <2>5, <2>6, <2>7, <2>8 DEF Step
<1>3. CASE UNCHANGED vars
  BY <1>3 DEF vars
<1> QED
  BY <1>1, <1>2, <1>3 DEF Next

LEMMA NextDrained == IndInv /\ Drained /\ [Next]_vars => Drained'
<1> SUFFICES ASSUME IndInv, Drained, [Next]_vars, NEW u \in Threads
             PROVE  Drained!(u)'
  BY DEF Drained
<1>1. senders = 0 => tx = {}
  BY EndsAreFinite, FS_EmptySet DEF IndInv, LifetimeInv
<1> QED
  BY <1>1, HangupIsStable, DrainSteps DEF Drained

LEMMA AlwaysDrained == Spec => []Drained
<1>1. Init => Drained
  BY DEF Init, Drained
<1> QED
  BY <1>1, NextDrained, Induction, PTL DEF Spec

LEMMA HangupStands == IndInv /\ Drained => HangupIsFinal
<1> SUFFICES ASSUME IndInv, Drained
             PROVE  HangupIsFinal
  OBVIOUS
<1>1. ASSUME NEW u \in Threads, pc[u] = "push"
      PROVE  tx # {}
  BY <1>1
  DEF IndInv, LifetimeInv, CallsHoldEnds, TypeOK, TxCalls, RxCalls, PollSteps, Borrowing
<1> QED
  BY <1>1 DEF Drained, HangupIsFinal

\* A receiver that answers Disconnected has left nothing behind: no message is
\* pending and none will ever be.
THEOREM FinalHangup == Spec => []HangupIsFinal
BY HangupStands, Induction, AlwaysDrained, PTL

=============================================================================
