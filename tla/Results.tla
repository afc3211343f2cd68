------------------------------- MODULE Results -------------------------------
(***************************************************************************)
(* What the calls of the channel answer: the results of send, try_recv,    *)
(* recv and poll_next with the errors of error.rs.  RecvError::Disconnected *)
(* and the end of a stream are the same answer, Closed; Poll::Pending is   *)
(* the same as TryRecvError::Empty; Ready is that of a sink.               *)
(***************************************************************************)

Sent(overwritten) == [is |-> "sent", msg |-> overwritten]
Refused(m)        == [is |-> "refused", msg |-> m]
Received(m)       == [is |-> "received", msg |-> m]
NothingYet        == [is |-> "empty"]
Closed            == [is |-> "closed"]
Ready             == [is |-> "ready"]

=============================================================================
