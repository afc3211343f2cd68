------------------------------ MODULE Programs ------------------------------
(***************************************************************************)
(* Client programs of the channel: how the tests of channel.rs, the        *)
(* fuzzer and the examples of lib.rs drive it from a main thread and the   *)
(* tasks that it spawns, and what they assert.                             *)
(*                                                                         *)
(* A program is a sequence of instructions for each thread.  Most are a    *)
(* call of the API, repeated or not, with the answers its caller asserts.  *)
(***************************************************************************)
EXTENDS Sink

Seqs == INSTANCE SequencesExt

CONSTANTS
  N,            \* the producers and the consumers a program spawns, of each
  Main,         \* the main thread
  TxTask,       \* the tasks, by number
  RxTask,
  TxName,       \* TxName[1] is tx, TxName[i + 1] the clone of it for task i
  RxName,
  Data,         \* the messages a program sends, in order
  Suite         \* the programs, of which one runs

Producer(i) == TxTask[i]
Consumer(i) == RxTask[i]
Tx(i)       == TxName[i + 1]
Rx(i)       == RxName[i + 1]

ASSUME ProgramsAssumption ==
  /\ N \in Nat \ {0}
  /\ Threads = {Main} \cup {Producer(i) : i \in 1..N} \cup {Consumer(i) : i \in 1..N}
  /\ Senders = {Tx(i) : i \in 0..N + 1} /\ TxAtStart = {Tx(0)}
  /\ Receivers = {Rx(i) : i \in 0..N} /\ RxAtStart = {Rx(0)}
  /\ Data \in Seq(Messages) /\ Seqs!IsInjective(Data)

VARIABLES
  todo,       \* the instructions each thread has still to execute
  spawned,    \* the threads that run
  received,   \* the messages received, in the order they were
  failed      \* whether an assertion has failed

programs == <<todo, spawned, received, failed>>
pvars == <<svars, programs>>

\* A new slot map hands out its first slot first.
PInit ==
  /\ SInit
  /\ \A k \in Slots : slot[Rx(0)] <= k
  /\ \E i \in DOMAIN Suite : todo = Suite[i]
  /\ spawned = {Main}
  /\ received = <<>> /\ failed = FALSE

-----------------------------------------------------------------------------
\* Instructions.  "on" is the endpoint (or thread, or observation), "ok" the
\* answers the client asserts, none if it does not look, and "again" the kinds
\* of answer after which the call is made again.

Instruction(op, on, ms, ok, again) ==
  [op |-> op, on |-> on, msgs |-> ms, ok |-> ok, again |-> again]

AnySent    == {Sent(m) : m \in Messages \cup {None}}
AnyMessage == {Received(m) : m \in Messages}

ToSend(s, m, ok)     == Instruction("send", s, <<m>>, ok, {})
ToSendAll(s, ms, ok) == Instruction("send", s, ms, ok, {"sent"})
ToStartSend(s, m)    == Instruction("start_send", s, <<m>>, AnySent, {})
ToSetBackoff(s)      == Instruction("set_backoff", s, <<>>, {}, {})
ToPollReady(s, ok)   == Instruction("poll_ready", s, <<>>, ok, {})
ToForward(s, ms, ok) == Instruction("forward", s, ms, ok, {"sent"})
ToPush(m)            == Instruction("push", None, <<m>>, {}, {})
ToTake(op, r, ok)    == Instruction(op, r, <<>>, ok, {})
ToTryRecv(r, ok)     == ToTake("try_recv", r, ok)
ToRecv(r, ok)        == ToTake("recv", r, ok)
ToPoll(r, ok)        == ToTake("poll", r, ok)
ToNext(r, ok)        == ToTake("poll_next", r, ok)
ToCollect(r)         == Instruction("poll_next", r, <<>>, {}, {"received"})
ToDrain(r)           == Instruction("try_recv", r, <<>>, {}, {"received"})
ToSpin(r)            == Instruction("try_recv", r, <<>>, {}, {"received", "empty"})
ToPopAll             == Instruction("pop", None, <<>>, {}, {"received"})
ToCloneTx(i)         == Instruction("clone_tx", Tx(i), <<>>, {}, {})
ToCloneRx(i)         == Instruction("clone_rx", Rx(i), <<>>, {}, {})
ToDropTx(i)          == Instruction("drop_tx", Tx(i), <<>>, {}, {})
ToDropRx(i)          == Instruction("drop_rx", Rx(i), <<>>, {}, {})
ToSpawn(t)           == Instruction("spawn", t, <<>>, {}, {})
ToJoin               == Instruction("join", None, <<>>, {}, {})
Expect(what, values) == Instruction("expect", what, <<>>, values, {})
ToLeave              == Instruction("leave", None, <<>>, {}, {})

Receives == {"try_recv", "recv", "poll", "poll_next", "pop"}

\* What the assertions of the tests look at.
Observed(what) ==
  CASE what = "senders"   -> senders
    [] what = "receivers" -> receivers
    [] what = "connected" -> connected
    [] what = "slots"     -> Cardinality({k \in Slots : items[k] # Vacant})
    [] what = "waker"     -> items[slot[Rx(0)]]
    [] what = "backoff"   -> backoff[Tx(0)]
    [] what = "backoff of clone" -> backoff[Tx(1)]
    [] what = "received"  -> received

-----------------------------------------------------------------------------
\* Execution.

CurrentOf(t) == Head(todo[t])

\* The client has the answer to its call, if it has one.
Settle(t) ==
  LET i == CurrentOf(t)
      a == answer'[t]
      answers == i.op \in Receives \/ i.msgs # <<>>
      again == IF i.op = "leave" THEN tx' \cup rx' # {}
               ELSE answers /\ a.is \in i.again /\ (i.msgs # <<>> => Len(i.msgs) > 1)
      rest == IF i.msgs = <<>> THEN i ELSE [i EXCEPT !.msgs = Tail(@)]
  IN  IF pc'[t] # "idle" THEN UNCHANGED programs
      ELSE /\ todo' = [todo EXCEPT ![t] = IF again THEN <<rest>> \o Tail(@) ELSE Tail(@)]
           /\ failed' = (failed \/ (i.ok # {} /\ a \notin i.ok))
           /\ received' = IF i.op \in Receives /\ a.is = "received"
                            THEN Append(received, a.msg) ELSE received
           /\ UNCHANGED spawned

Starts(t, op) ==
  /\ todo[t] # <<>> /\ CurrentOf(t).op = op
  /\ t \in spawned \ yielding /\ pc[t] = "idle"

\* The tests that reach behind the API, to the buffer itself.
PushBehind(t, m) ==
  /\ BufferPush(m)
  /\ unsent' = unsent \ {m}
  /\ settled' = settled \cup ({Overwritten} \ {None})
  /\ Answer(t, Sent(Overwritten))
  /\ UNCHANGED <<block, ends, thread, notes, hand, waitlist>>

PopBehind(t) ==
  /\ IF buffer = <<>>
       THEN UNCHANGED <<buffer, settled>> /\ Answer(t, NothingYet)
       ELSE /\ BufferPop
            /\ settled' = settled \cup {Head(buffer)}
            /\ Answer(t, Received(Head(buffer)))
  /\ UNCHANGED <<block, ends, thread, notes, hand, unsent, waitlist>>

\* ... and to the backoff flag.
SetBackoff(s) ==
  /\ backoff' = [backoff EXCEPT ![s] = TRUE]
  /\ UNCHANGED <<avars, sinking, yielding, hurry>>

\* A poll by hand, with a waker that does nothing.
PollReady(t, s) ==
  /\ Exclusive(t, s)
  /\ Answer(t, IF SinkReady(s) THEN Ready ELSE NothingYet)
  /\ backoff' = [backoff EXCEPT ![s] = FALSE] /\ hurry' = [hurry EXCEPT ![s] = 0]
  /\ UNCHANGED <<vars, sinking, yielding>>

\* A clone gets the name of the worker it is made for.  The end of main drops
\* the endpoints that are still its own, in any order.
Call(t) ==
  LET i == CurrentOf(t) IN
  \/ Starts(t, "send") /\ ASend(t, i.on, Head(i.msgs)) /\ UNCHANGED sinks
  \/ Starts(t, "start_send") /\ StartSend(t, i.on, Head(i.msgs))
  \/ Starts(t, "forward") /\ SinkReady(i.on) /\ StartSend(t, i.on, Head(i.msgs))
  \/ Starts(t, "set_backoff") /\ SetBackoff(i.on)
  \/ Starts(t, "poll_ready") /\ PollReady(t, i.on)
  \/ Starts(t, "push") /\ PushBehind(t, Head(i.msgs)) /\ UNCHANGED sinks
  \/ Starts(t, "pop") /\ PopBehind(t) /\ UNCHANGED sinks
  \/ \E c \in {"try_recv", "recv", "poll_next"} :
       Starts(t, c) /\ AReceive(t, i.on, c) /\ UNCHANGED sinks
  \/ Starts(t, "poll") /\ AReceive(t, i.on, "poll_next") /\ UNCHANGED sinks
  \/ Starts(t, "clone_tx") /\ SCloneTx(t, Tx(0), i.on)
  \/ Starts(t, "clone_rx") /\ CloneRx(t, Rx(0), i.on) /\ UNCHANGED <<answer, sinks>>
  \/ Starts(t, "drop_tx") /\ DropTx(t, i.on) /\ UNCHANGED <<answer, sinks>>
  \/ Starts(t, "drop_rx") /\ DropRx(t, i.on) /\ UNCHANGED <<answer, sinks>>
  \/ /\ Starts(t, "leave")
     /\ (\E s \in Senders : DropTx(t, s)) \/ (\E r \in Receivers : DropRx(t, r))
     /\ UNCHANGED <<answer, sinks>>

\* A test that polls by hand lets go of a poll that is Pending.
Continue(t) ==
  /\ pc[t] # "idle"
  /\ IF pc[t] = "parked" /\ CurrentOf(t).op = "poll"
       THEN Abandon(t) /\ UNCHANGED <<answer, sinks>>
       ELSE SStep(t)

\* forward: poll_ready before each start_send, in the same poll if it is Ready.
\* poll_close, once there is nothing left to send, is always Ready.
Yield(t) ==
  /\ \/ Starts(t, "forward") /\ SinkPending(t, CurrentOf(t).on)
     \/ Repoll(t)
  /\ UNCHANGED programs

Finished(t) == pc[t] = "idle" /\ todo[t] = <<>>

Done(t) == todo' = [todo EXCEPT ![t] = Tail(@)]

Control(t) ==
  LET i == CurrentOf(t) IN
  /\ \/ Starts(t, "spawn") /\ spawned' = spawned \cup {i.on} /\ UNCHANGED failed
     \/ /\ Starts(t, "join")
        /\ \A u \in spawned \ {t} : Finished(u)
        /\ UNCHANGED <<spawned, failed>>
     \/ /\ Starts(t, "expect")
        /\ failed' = (failed \/ Observed(i.on) \notin i.ok)
        /\ UNCHANGED spawned
     \/ Starts(t, "leave") /\ tx \cup rx = {} /\ UNCHANGED <<spawned, failed>>
  /\ Done(t)
  /\ UNCHANGED <<svars, received>>

Run(t) ==
  \/ Call(t) /\ Settle(t)
  \/ Continue(t) /\ Settle(t)
  \/ Yield(t) \/ Control(t)

Over == \A t \in spawned : Finished(t)

PNext == (\E t \in Threads : Run(t)) \/ (Over /\ UNCHANGED pvars)

PSpec == PInit /\ [][PNext]_pvars

PFairSpec == PSpec /\ \A t \in Threads : WF_pvars(Run(t))

-----------------------------------------------------------------------------
\* Properties.

\* Whatever the interleaving of the tasks, no assertion of a test, of the
\* fuzzer or of an example fails.
AssertionsHold == ~failed

\* Every program ends, within the minute the tests give it, and releases the
\* memory of its channel: a wake that gets lost, or a sink that is Pending and
\* never woken, leaves a task waiting.
ProgramsEnd == <>(Over /\ freed)

=============================================================================
