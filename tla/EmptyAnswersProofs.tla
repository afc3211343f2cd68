------------------------- MODULE EmptyAnswersProofs -------------------------
(***************************************************************************)
(* With one consumer, the Empty of try_recv is true at some moment of the  *)
(* call, for any capacity and any number of senders.                       *)
(***************************************************************************)
EXTENDS EmptyAnswers, RingChannelProofs

\* A call that takes messages is made by the thread that may make it.
OwnCalls == \A t \in Threads : call[t] \in TakingCalls => call[t] \in Calls[t]

\* Of the calls that borrow a receiver, clone is the one that does not poll.
CloneRegisters == \A t \in Threads : call[t] = "clone_rx" => pc[t] = "register"

EmptyInv == OwnCalls /\ CloneRegisters /\ EmptyIsTrue

LEMMA StepsKeepCalls ==
  ASSUME TypeOK, [Next]_vars, NEW u \in Threads, call'[u] \in TakingCalls
  PROVE  call'[u] = call[u] \/ call'[u] \in Calls[u]
<1> USE RingChannelAssumption DEF TakingCalls, RxCalls, TypeOK, thread
<1>1. ASSUME NEW t \in Threads, Client(t)
      PROVE  call'[u] = call[u] \/ call'[u] \in Calls[u]
  <2>1. \/ UNCHANGED call
        \/ Return(t)
        \/ \E c \in Calls[t] : \E e, step : Enter(t, c, e, step)
    BY <1>1 DEF Client, Send, Receive, CloneTx, CloneRx, DropTx, DropRx, Abandon, MayEnter
  <2> QED
    BY <2>1 DEF Return, Enter
<1>2. ASSUME NEW t \in Threads, Step(t)
      PROVE  call'[u] = call[u]
  <2>1. UNCHANGED call \/ Return(t)
    BY <1>2
    DEF Step, Push, LockWaitlist, PassSlot, TakeWaker, FindNoWaker, Wake, Load, TakeMessage,
        FindEmpty, Insert, Remove, Resume, Register, Release, Swap, Free, Goto, AfterNone,
        AfterWake
  <2> QED
    BY <2>1 DEF Return
<1>3. CASE UNCHANGED vars
  BY <1>3 DEF vars
<1> QED
  BY <1>1, <1>2, <1>3 DEF Next

LEMMA ClonesKeepRegistering ==
  ASSUME IndInv, CloneRegisters, [Next]_vars
  PROVE  CloneRegisters'
<1> SUFFICES ASSUME NEW u \in Threads, call'[u] = "clone_rx"
             PROVE  pc'[u] = "register"
  BY DEF CloneRegisters
<1>0. TypeOK
  BY DEF IndInv
<1> USE RingChannelAssumption DEF TypeOK, thread, RxCalls, CloneRegisters
<1>1. ASSUME NEW t \in Threads, Client(t)
      PROVE  pc'[u] = "register"
  <2>1. \/ UNCHANGED <<pc, call>>
        \/ Return(t)
        \/ \E c, e, step : Enter(t, c, e, step) /\ (c = "clone_rx" => step = "register")
    BY <1>1 DEF Client, Send, Receive, CloneTx, CloneRx, DropTx, DropRx, Abandon
  <2> QED
    BY <1>0, <2>1 DEF Return, Enter
<1>2. ASSUME NEW t \in Threads, Step(t)
      PROVE  pc'[u] = "register"
  <2>1. \/ UNCHANGED <<pc, call>>
        \/ Return(t)
        \/ pc[t] # "register" /\ \E step : Goto(t, step)
    BY <1>2
    DEF Step, Push, LockWaitlist, PassSlot, TakeWaker, FindNoWaker, Wake, Load, TakeMessage,
        FindEmpty, Insert, Remove, Resume, Register, Release, Swap, Free, AfterNone,
        AfterWake, Looking
  <2> QED
    BY <1>0, <2>1 DEF Return, Goto
<1>3. CASE UNCHANGED vars
  BY <1>3 DEF vars
<1> QED
  BY <1>1, <1>2, <1>3 DEF Next

\* Only a call that takes messages, or the end of the channel, empties it.
LEMMA WhoEmpties ==
  ASSUME IndInv, CloneRegisters, [Next]_vars, buffer # <<>>, buffer' = <<>>
  PROVE  \E t \in Threads : \/ call[t] \in TakingCalls /\ pc'[t] # pc[t]
                            \/ Freeing(t)
<1>0. TypeOK /\ BufferTypeOK /\ CallsHoldEnds
  BY DEF IndInv, LifetimeInv, TypeOK
<1> USE DEF msgs
<1>1. ASSUME NEW t \in Threads, Client(t)
      PROVE  FALSE
  BY <1>1 DEF Client, Send, Receive, CloneTx, CloneRx, DropTx, DropRx, Abandon
<1>2. ASSUME NEW t \in Threads, Step(t)
      PROVE  (call[t] \in TakingCalls /\ pc'[t] # pc[t]) \/ Freeing(t)
  <2>1. CASE Push(t)
    <3> DEFINE kept == IF HasRoom THEN buffer ELSE Tail(buffer)
    <3>1. hand[t] \in Messages /\ buffer' = Append(kept, hand[t])
      BY <1>0, <2>1 DEF Push, BufferPush, TypeOK, CallsHoldEnds
    <3>2. kept \in Seq(Messages)
      BY <1>0, HeadTailProperties DEF BufferTypeOK
    <3>3. Len(buffer') = Len(kept) + 1 /\ Len(kept) \in Nat
      BY <3>1, <3>2, AppendProperties, LenProperties
    <3> QED
      BY <3>3
  <2>2. CASE TakeMessage(t)
    <3>1. pc[t] \in {"take", "drain", "retake", "redrain"}
      BY <2>2 DEF TakeMessage, Looking
    <3>2. call[t] \in TakingCalls
      BY <1>0, <3>1
      DEF CallsHoldEnds, TypeOK, TakingCalls, Borrowing, TxCalls, RxCalls, CloneRegisters
    <3>3. pc'[t] \in {"idle", "remove"}
      BY <1>0, <2>2 DEF TakeMessage, Goto, Return, TypeOK
    <3> QED
      BY <2>2, <3>2, <3>3 DEF TakeMessage, Looking
  <2>3. CASE Free(t)
    BY <2>3 DEF Free, Freeing
  <2>4. CASE ~Push(t) /\ ~TakeMessage(t) /\ ~Free(t)
    BY <1>2, <2>4
    DEF Step, LockWaitlist, PassSlot, TakeWaker, FindNoWaker, Wake, Load,
        FindEmpty, Insert, Remove, Resume, Register, Release, Swap
  <2> QED
    BY <2>1, <2>2, <2>3, <2>4
<1>3. CASE UNCHANGED vars
  BY <1>3 DEF vars
<1> QED
  BY <1>1, <1>2, <1>3 DEF Next

\* How a call comes to answer Empty if there is nothing to take.
LEMMA WhoLooks ==
  ASSUME IndInv, [Next]_vars, NEW u \in Threads, pc'[u] = "take"
  PROVE  \/ pc[u] = "take" /\ call'[u] = call[u]
         \/ senders' > 0
<1>0. TypeOK
  BY DEF IndInv
<1> USE DEF thread, block
<1>1. ASSUME NEW t \in Threads, Client(t)
      PROVE  pc[u] = "take" /\ call'[u] = call[u]
  BY <1>0, <1>1
  DEF Client, Send, Receive, CloneTx, CloneRx, DropTx, DropRx, Abandon, Enter, Return, TypeOK
<1>2. ASSUME NEW t \in Threads, Step(t)
      PROVE  (pc[u] = "take" /\ call'[u] = call[u]) \/ senders' > 0
  <2>1. CASE Load(t)
    BY <1>0, <2>1 DEF Load, HungUp, Goto, TypeOK
  <2>2. CASE ~Load(t)
    BY <1>0, <1>2, <2>2
    DEF Step, Push, LockWaitlist, PassSlot, TakeWaker, FindNoWaker, Wake, TakeMessage,
        FindEmpty, Insert, Remove, Resume, Register, Release, Swap, Free, Goto, AfterNone,
        AfterWake, AfterEmpty, Return, TypeOK
  <2> QED
    BY <2>1, <2>2
<1>3. CASE UNCHANGED vars
  BY <1>3 DEF vars
<1> QED
  BY <1>1, <1>2, <1>3 DEF Next

LEMMA NextEmptyInv == IndInv /\ EmptyInv /\ [ENext]_evars => EmptyInv'
<1> SUFFICES ASSUME IndInv, EmptyInv, [ENext]_evars
             PROVE  EmptyInv'
  OBVIOUS
<1> USE DEF EmptyInv
<1>0. TypeOK /\ CallsHoldEnds /\ [Next]_vars
  BY DEF IndInv, LifetimeInv, ENext, evars
<1>1. OwnCalls' /\ CloneRegisters'
  BY <1>0, StepsKeepCalls, ClonesKeepRegistering DEF OwnCalls
<1>2. CASE Remember
  <2> SUFFICES ASSUME NEW t \in Threads, call'[t] = "try_recv", pc'[t] = "take", buffer' = <<>>
               PROVE  t \in sawEmpty'
    BY <1>1 DEF EmptyIsTrue, Trying
  <2>1. CASE senders' > 0
    BY <1>2, <2>1 DEF Remember, EmptyNow, Trying
  <2>2. CASE ~(senders' > 0)
    <3>1. pc[t] = "take" /\ call[t] = "try_recv"
      BY <1>0, <2>2, WhoLooks
    <3>2. CASE buffer = <<>>
      BY <1>2, <3>1, <3>2 DEF EmptyIsTrue, Trying, Remember
    <3>3. CASE buffer # <<>>
      <4>1. PICK u \in Threads : (call[u] \in TakingCalls /\ pc'[u] # pc[u]) \/ Freeing(u)
        BY <1>0, <3>3, WhoEmpties
      <4>2. rx # {}
        BY <1>0, <3>1 DEF CallsHoldEnds, Borrowing
      <4>3. ~Freeing(u)
        BY <4>2 DEF IndInv, LifetimeInv, Doomed, RxDone
      <4>4. u = t
        BY <4>1, <4>3, <3>1, EmptyAnswersAssumption DEF OwnCalls, TakingCalls
      <4> QED
        BY <3>1, <4>1, <4>3, <4>4
    <3> QED
      BY <3>2, <3>3
  <2> QED
    BY <1>1, <2>1, <2>2
<1>3. CASE UNCHANGED evars
  <2>1. UNCHANGED <<pc, call, buffer, sawEmpty>>
    BY <1>3 DEF evars, vars, thread, msgs
  <2>2. EmptyIsTrue'
    BY <2>1 DEF EmptyIsTrue, Trying
  <2> QED
    BY <1>1, <2>2
<1> QED
  BY <1>1, <1>2, <1>3 DEF ENext

\* An Empty of the only consumer is never stale from the start: at some moment
\* of the try_recv that answers it the channel was empty and connected.
THEOREM EmptyWasTrue == ESpec => []EmptyIsTrue
<1>1. ESpec => Spec
  <2>1. EInit => Init
    BY DEF EInit
  <2>2. [ENext]_evars => [Next]_vars
    BY DEF ENext, evars
  <2> QED
    BY <2>1, <2>2, PTL DEF ESpec, Spec
<1>2. EInit => EmptyInv
  BY RingChannelAssumption DEF EInit, Init, EmptyInv, OwnCalls, CloneRegisters, EmptyIsTrue,
                                Trying, TakingCalls, RxCalls, TxCalls
<1>3. EmptyInv => EmptyIsTrue
  BY DEF EmptyInv
<1> QED
  BY <1>1, <1>2, <1>3, NextEmptyInv, Induction, PTL DEF ESpec

=============================================================================
