------------------------------- MODULE Tests -------------------------------
(***************************************************************************)
(* The tests of channel.rs, the fuzzer and the examples of the crate's     *)
(* documentation as client programs.  Sizes that the tests draw at random  *)
(* are N tasks a side, the capacity, and the messages of Data; a test that *)
(* opens a channel as large as its messages or its tasks belongs in a      *)
(* suite whose Capacity is N.                                              *)
(***************************************************************************)
EXTENDS Programs

Program(main, P, C) ==
  [t \in Threads |->
     IF t = Main THEN main \o <<ToLeave>>
     ELSE LET i == CHOOSE i \in 1..N : t \in {Producer(i), Consumer(i)}
          IN  IF t = Producer(i) THEN P[i] ELSE C[i]]

Workers == 1..N
Nobody  == [i \in Workers |-> <<>>]

Alone(main) == Program(main, Nobody, Nobody)

\* Tasks drop the endpoint that they own when they end.
Producers(P) == [i \in Workers |-> P[i] \o <<ToDropTx(i)>>]
Consumers(C) == [i \in Workers |-> C[i] \o <<ToDropRx(i)>>]
EachSends(ok) == Producers([i \in Workers |-> <<ToSend(Tx(i), Data[i], ok)>>])
EachDoes(does(_, _), ok) == Consumers([i \in Workers |-> <<does(Rx(i), ok)>>])

\* repeat(tx).take(n) clones for one task after the other; each task starts as
\* it is made, and the original goes when the iterator is exhausted.
StartProducers == Seqs!FlattenSeq([i \in Workers |-> <<ToCloneTx(i), ToSpawn(Producer(i))>>])
StartConsumers == Seqs!FlattenSeq([i \in Workers |-> <<ToCloneRx(i), ToSpawn(Consumer(i))>>])
ProducersOnly == StartProducers \o <<ToDropTx(0)>>
ConsumersOnly == StartConsumers \o <<ToDropRx(0)>>

FillBehind == [i \in 1..Capacity |-> ToPush(Data[i])]
AnyOrder(s) == Seqs!SetToSeqs(Seqs!ToSet(s))
Filled == SubSeq(Data, 1, Capacity)

\* The messages that fit, once all of Data has been sent.
Latest == SubSeq(Data, Len(Data) - Capacity + 1, Len(Data))

-----------------------------------------------------------------------------
\* One thread.

cloning_sender_increments_senders ==
  Alone(<<ToCloneTx(1), Expect("senders", {2}), Expect("receivers", {1})>>)

cloning_sender_resets_backoff_flag ==
  Alone(<<ToDropRx(0), ToSetBackoff(Tx(0)), ToCloneTx(1),
          Expect("backoff", {TRUE}), Expect("backoff of clone", {FALSE})>>)

cloning_receiver_increments_receivers_counter ==
  Alone(<<ToCloneRx(1), Expect("senders", {1}), Expect("receivers", {2})>>)

cloning_receiver_registers_waitlist_slot ==
  Alone(<<ToDropTx(0), ToCloneRx(1), Expect("slots", {2})>>)

dropping_sender_decrements_senders_counter ==
  Alone(<<ToDropTx(0), Expect("senders", {0}), Expect("receivers", {1})>>)

dropping_receiver_decrements_receivers_counter ==
  Alone(<<ToDropRx(0), Expect("senders", {1}), Expect("receivers", {0})>>)

dropping_receiver_deregisters_waitlist_slot ==
  Alone(<<Expect("slots", {1}), ToDropRx(0), Expect("slots", {0})>>)

channel_is_disconnected_if_there_are_no_senders ==
  Alone(<<ToDropTx(0), Expect("senders", {0}), Expect("connected", {FALSE})>>)

channel_is_disconnected_if_there_are_no_receivers ==
  Alone(<<ToDropRx(0), Expect("receivers", {0}), Expect("connected", {FALSE})>>)

send_overwrites_old_messages ==
  Alone([i \in 1..Len(Data) |->
           ToSend(Tx(0), Data[i], {Sent(IF i <= Capacity THEN None ELSE Data[i - Capacity])})]
        \o <<ToPopAll, Expect("received", {Latest})>>)

sender_implements_sink ==
  Alone(<<ToForward(Tx(0), Data, AnySent), ToDropTx(0),
          ToDrain(Rx(0)), Expect("received", {Latest})>>)

\* For a channel of capacity 1.
sender_sets_backoff_to_true_if_sink_overwrites_on_send ==
  Alone(<<Expect("backoff", {FALSE}),
          ToStartSend(Tx(0), Data[1]), Expect("backoff", {FALSE}),
          ToStartSend(Tx(0), Data[2]), Expect("backoff", {TRUE})>>)

sender_yields_once_on_poll_ready_if_backoff_is_true ==
  Alone(<<ToDropRx(0), ToSetBackoff(Tx(0)),
          ToPollReady(Tx(0), {NothingYet}), Expect("backoff", {FALSE}),
          ToPollReady(Tx(0), {Ready})>>)

receiver_implements_stream ==
  Alone(<<ToSendAll(Tx(0), Data, AnySent), ToDropTx(0),
          ToCollect(Rx(0)), Expect("received", {Latest})>>)

\* A waker is that of a thread, so a second thread polls with the second one.
receiver_stores_most_recent_waker_if_channel_is_empty ==
  Program(<<ToPoll(Rx(0), {NothingYet}), Expect("waker", {Main}),
            ToSpawn(Consumer(1)), ToJoin, Expect("waker", {Consumer(1)})>>,
          Nobody, [Nobody EXCEPT ![1] = <<ToPoll(Rx(0), {NothingYet})>>])

receiver_withdraws_waker_if_channel_not_empty ==
  Alone(<<ToPoll(Rx(0), {NothingYet}), Expect("waker", {Main}),
          ToSend(Tx(0), Data[1], {Sent(None)}),
          ToPoll(Rx(0), {Received(Data[1])}), Expect("waker", {Empty})>>)

-----------------------------------------------------------------------------
\* Main and the tasks it spawns.

send_succeeds_on_connected_channel ==
  Program(StartProducers \o <<ToJoin>>, EachSends(AnySent), Nobody)

send_fails_on_disconnected_channel ==
  Program(<<ToDropRx(0)>> \o StartProducers \o <<ToJoin>>,
          Producers([i \in Workers |-> <<ToSend(Tx(i), Data[i], {Refused(Data[i])})>>]),
          Nobody)

\* Each message is received once, by some task.
Succeeds(disconnect, does(_, _)) ==
  Program(disconnect \o FillBehind \o ConsumersOnly
            \o <<ToJoin, Expect("received", AnyOrder(Filled))>>,
          Nobody, EachDoes(does, AnyMessage))

try_recv_succeeds_on_non_empty_connected_channel == Succeeds(<<>>, ToTryRecv)
try_recv_succeeds_on_non_empty_disconnected_channel == Succeeds(<<ToDropTx(0)>>, ToTryRecv)
recv_succeeds_on_non_empty_connected_channel == Succeeds(<<>>, ToRecv)
recv_succeeds_on_non_empty_disconnected_channel == Succeeds(<<ToDropTx(0)>>, ToRecv)

Fails(disconnect, does(_, _), error) ==
  Program(disconnect \o ConsumersOnly \o <<ToJoin>>, Nobody, EachDoes(does, {error}))

try_recv_fails_on_empty_connected_channel == Fails(<<>>, ToTryRecv, NothingYet)
try_recv_fails_on_empty_disconnected_channel == Fails(<<ToDropTx(0)>>, ToTryRecv, Closed)
recv_fails_on_empty_disconnected_channel == Fails(<<ToDropTx(0)>>, ToRecv, Closed)

\* try_join polls the consumers' side first.
Both(first, P, C) ==
  Program(first \o ConsumersOnly \o ProducersOnly \o <<ToJoin>>, P, C)

recv_wakes_on_disconnect == Both(<<>>, Producers(Nobody), EachDoes(ToRecv, {Closed}))

stream_wakes_on_disconnect == Both(<<>>, Producers(Nobody), EachDoes(ToNext, {Closed}))

\* _prevent_disconnection is the last sender's clone.
PreventDisconnection == <<ToCloneTx(N + 1)>>

recv_wakes_on_send ==
  Both(PreventDisconnection, EachSends({Sent(None)}), EachDoes(ToRecv, AnyMessage))

stream_wakes_on_sink ==
  Both(PreventDisconnection,
       Producers([i \in Workers |-> <<ToForward(Tx(i), <<Data[i]>>, AnySent)>>]),
       EachDoes(ToNext, AnyMessage))

-----------------------------------------------------------------------------
\* The fuzzer: ns senders forward chunks of the data, nr receivers collect
\* them.  vec![tx; ns] holds the original too, here one clone more for it.

ChunkSize(ns) == IF ns > 0 THEN (Len(Data) + ns - 1) \div ns ELSE 1
Chunk(ns, i) ==
  SubSeq(Data, (i - 1) * ChunkSize(ns) + 1,
         IF i * ChunkSize(ns) > Len(Data) THEN Len(Data) ELSE i * ChunkSize(ns))

ForwardResult(ns, nr, i) == IF nr > 0 THEN AnySent ELSE {Refused(Chunk(ns, i)[1])}

Forwarded(ns, nr) ==
  [i \in Workers |-> IF Chunk(ns, i) = <<>> THEN <<>>
                     ELSE <<ToForward(Tx(i), Chunk(ns, i), ForwardResult(ns, nr, i))>>]

DataReceived(ns, nr) ==
  CASE ns = 0 -> {<<>>}
    [] Capacity >= Len(Data) -> AnyOrder(Data)
    [] OTHER -> Seqs!SetToAllKPermutations(Seqs!ToSet(Data))

fuzzer(ns, nr) ==
  Program([i \in 1..ns |-> ToCloneTx(i)] \o <<ToDropTx(0)>>
            \o [i \in 1..nr |-> ToCloneRx(i)] \o <<ToDropRx(0)>>
            \o [i \in 1..nr |-> ToSpawn(Consumer(i))]
            \o [i \in 1..ns |-> ToSpawn(Producer(i))] \o <<ToJoin>>
            \o IF ns > 0 /\ nr = 0 THEN <<>>
               ELSE <<Expect("received", DataReceived(ns, nr))>>,
          Producers(Forwarded(ns, nr)),
          Consumers([i \in Workers |-> <<ToCollect(Rx(i))>>]))

-----------------------------------------------------------------------------
\* Examples of the documentation.

hello_world ==
  Alone(<<ToSend(Tx(0), Data[1], AnySent), ToRecv(Rx(0), {Received(Data[1])})>>)

\* For a channel of capacity 1.
overflowing_the_buffer ==
  Alone(<<ToSend(Tx(0), Data[1], AnySent), ToSend(Tx(0), Data[2], AnySent),
          ToRecv(Rx(0), {Received(Data[2])})>>)

disconnection ==
  Alone([i \in 1..N |-> ToCloneTx(i)]
        \o [i \in 1..Capacity |-> ToSend(Tx(i - 1), Data[i], AnySent)]
        \o [i \in 1..N + 1 |-> ToDropTx(i - 1)]
        \o [i \in 1..Capacity |-> ToTryRecv(Rx(0), {Received(Data[i])})]
        \o <<ToTryRecv(Rx(0), {Closed})>>)

\* For a channel with room for all of Data.
futures_api ==
  Alone(<<ToForward(Tx(0), Data, AnySent), ToDropTx(0),
          ToCollect(Rx(0)), Expect("received", {Data})>>)

\* The countdown of ring_channel: a thread updates the channel for as long as
\* it is connected, main reads the latest value until the channel disconnects.
countdown ==
  Program(<<ToSpawn(Producer(1)), ToSpin(Rx(0))>>,
          [Nobody EXCEPT ![1] = <<ToSendAll(Tx(0), Data, {}), ToDropTx(0)>>], Nobody)

=============================================================================
