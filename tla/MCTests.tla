------------------------------ MODULE MCTests ------------------------------
(***************************************************************************)
(* Suites of programs for TLC, two tasks a side.                           *)
(***************************************************************************)
EXTENDS Tests, TLC

CONSTANTS m1, m2, m3, p1, p2, c1, c2, tx0, tx1, tx2, tx3, rx0, rx1, rx2

TxTasks == <<p1, p2>>
RxTasks == <<c1, c2>>
TxNames == <<tx0, tx1, tx2, tx3>>
RxNames == <<rx0, rx1, rx2>>
TwoMessages == <<m1, m2>>
ThreeMessages == <<m1, m2, m3>>
AnyCall == [t \in Threads |-> TxCalls \cup RxCalls]

\* Programs for capacity 1.
SmallBuffer ==
  <<cloning_sender_increments_senders, cloning_sender_resets_backoff_flag,
    cloning_receiver_increments_receivers_counter,
    cloning_receiver_registers_waitlist_slot,
    dropping_sender_decrements_senders_counter,
    dropping_receiver_decrements_receivers_counter,
    dropping_receiver_deregisters_waitlist_slot,
    channel_is_disconnected_if_there_are_no_senders,
    channel_is_disconnected_if_there_are_no_receivers,
    send_overwrites_old_messages, sender_implements_sink,
    sender_sets_backoff_to_true_if_sink_overwrites_on_send,
    sender_yields_once_on_poll_ready_if_backoff_is_true,
    receiver_implements_stream,
    receiver_stores_most_recent_waker_if_channel_is_empty,
    receiver_withdraws_waker_if_channel_not_empty,
    hello_world, overflowing_the_buffer, countdown,
    recv_wakes_on_disconnect, stream_wakes_on_disconnect,
    recv_fails_on_empty_disconnected_channel,
    try_recv_fails_on_empty_connected_channel,
    try_recv_fails_on_empty_disconnected_channel,
    send_fails_on_disconnected_channel,
    fuzzer(0, 0), fuzzer(0, 1), fuzzer(0, 2), fuzzer(1, 0), fuzzer(2, 0),
    fuzzer(1, 1), fuzzer(2, 1)>>

\* Programs for capacity 2.
Deliveries ==
  <<send_succeeds_on_connected_channel,
    try_recv_succeeds_on_non_empty_connected_channel,
    try_recv_succeeds_on_non_empty_disconnected_channel,
    recv_succeeds_on_non_empty_connected_channel,
    recv_succeeds_on_non_empty_disconnected_channel,
    recv_wakes_on_send, stream_wakes_on_sink, disconnection, futures_api>>
  \o [i \in 1..9 |-> fuzzer((i - 1) \div 3, (i - 1) % 3)]

=============================================================================
