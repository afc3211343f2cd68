--------------------------- MODULE MCRingChannel ---------------------------
(***************************************************************************)
(* Small instances of RingChannel for TLC.                                 *)
(***************************************************************************)
EXTENDS RingChannel, TLC

CONSTANTS t1, t2, t3

\* Every thread may make every call.
AllCalls == [t \in Threads |-> TxCalls \cup RxCalls]

\* Every thread may make the calls that wait for wakes or owe them.
WakeCalls == [t \in Threads |-> {"send", "recv", "poll_next", "drop_tx", "drop_rx"}]

\* The same with poll_next for recv: it only adds the polls that are abandoned.
PollCalls == [t \in Threads |-> {"send", "poll_next", "drop_tx", "drop_rx"}]

\* Every thread may send, receive blocking, and drop its endpoints.
RecvCalls == [t \in Threads |-> {"send", "recv", "drop_tx", "drop_rx"}]

\* One thread sends and hangs up, the others receive; one of them leaves too.
HangupCalls ==
  [t \in Threads |-> CASE t = t1 -> {"send", "drop_tx"}
                       [] t = t2 -> {"recv", "drop_rx"}
                       [] OTHER  -> {"recv", "try_recv"}]

\* One thread sends, the others receive for as long as the channel exists.
ConsumerCalls == [t \in Threads |-> IF t = t1 THEN {"send"} ELSE {"recv"}]

\* Sound with Spec, whose definition treats the members of each set alike.
Symmetry == Permutations(Threads) \cup Permutations(Senders)
              \cup Permutations(Receivers) \cup Permutations(Messages)

=============================================================================
