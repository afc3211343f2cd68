------------------------------- MODULE Answers -------------------------------
(***************************************************************************)
(* RingChannel with what its calls answer, as a history variable, and the  *)
(* proof obligation that this makes it a Channel: each answer is decided   *)
(* in one step of the call, the one that touches the buffer or, for a send *)
(* that is refused, that loads the receiver count.                         *)
(***************************************************************************)
EXTENDS RingChannel, Results

VARIABLE answer   \* what the latest call of each thread answers, once decided

avars == <<vars, answer>>

AInit == Init /\ answer = [t \in Threads |-> None]

Answer(t, a) == answer' = [answer EXCEPT ![t] = a]

-----------------------------------------------------------------------------
\* The steps that decide an answer, or start a call that will have one.

\* Mutant: a refused message is dropped without an error.
ASendSilently(t, s, m) ==
  Send(t, s, m) /\ Answer(t, IF receivers > 0 THEN None ELSE Sent(None))

\* Result of send: Err(Disconnected(m)) without receivers.
ASend(t, s, m) ==
  /\ Send(t, s, m)
  /\ Answer(t, IF receivers > 0 THEN None ELSE Refused(m))

APush(t) == Push(t) /\ Answer(t, Sent(Overwritten))

AReceive(t, r, c) == Receive(t, r, c) /\ Answer(t, None)

ATakeMessage(t) == TakeMessage(t) /\ Answer(t, Received(Head(buffer)))

\* Mutant: every empty buffer reported as Disconnected.
AlwaysClosed(t) == TRUE

\* try_recv: an empty buffer means Disconnected if no sender was counted.
AnswersClosed(t) == pc[t] \in {"drain", "redrain"}

\* The first look of recv and poll_next decides nothing if it finds Empty.
LooksAgain(t) == pc[t] = "take" /\ call[t] # "try_recv"

AFindEmpty(t) ==
  /\ FindEmpty(t)
  /\ Answer(t, IF AnswersClosed(t) THEN Closed
               ELSE IF LooksAgain(t) THEN None ELSE NothingYet)

AResume(t) == Resume(t) /\ Answer(t, None)

\* The calls and steps that decide nothing, but CloneTx.
SilentCall(t) ==
  \/ \E r, new \in Receivers : CloneRx(t, r, new)
  \/ \E s \in Senders : DropTx(t, s)
  \/ \E r \in Receivers : DropRx(t, r)
  \/ Abandon(t)

SilentStep(t) ==
  \/ LockWaitlist(t) \/ PassSlot(t) \/ TakeWaker(t) \/ FindNoWaker(t) \/ Wake(t)
  \/ Load(t) \/ Insert(t) \/ Remove(t) \/ Register(t) \/ Release(t) \/ Swap(t)
  \/ Free(t)

-----------------------------------------------------------------------------
\* Properties.

\* A message that a send has had accepted is in its hand until it is pushed.
OnItsWay(t) == IF pc[t] = "push" THEN hand[t] ELSE None

Promise ==
  INSTANCE Channel WITH Clients <- Threads, queue <- buffer, alive <- ~freed,
                        sending <- [t \in Threads |-> OnItsWay(t)]

\* Clients cannot tell the ring channel from a bounded queue whose calls take
\* effect in one step each: messages come out in the order they were pushed,
\* only the oldest is ever overwritten and it goes to the sender that overwrote
\* it, a send is refused only without receivers, and Disconnected is answered
\* only when nothing is pending, in flight, or can still be sent.
ImplementsChannel == Promise!Spec

=============================================================================
