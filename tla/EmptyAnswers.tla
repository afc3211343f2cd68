---------------------------- MODULE EmptyAnswers ----------------------------
(***************************************************************************)
(* When the Empty of try_recv is true.  try_recv reads the sender count    *)
(* first and pops second, so what it answers may be about no single state  *)
(* of the channel.  The history variable remembers which of the calls in   *)
(* progress have been in a state where Empty was the right answer.         *)
(***************************************************************************)
EXTENDS RingChannel

\* The calls that take messages out of the buffer.
TakingCalls == {"try_recv", "recv", "poll_next"}

\* One thread receives.
ASSUME EmptyAnswersAssumption ==
  \A t, u \in Threads :
    Calls[t] \cap TakingCalls # {} /\ Calls[u] \cap TakingCalls # {} => t = u

VARIABLE sawEmpty   \* history: the try_recv calls that Empty has been true for

evars == <<vars, sawEmpty>>

EInit == Init /\ sawEmpty = {}

\* The buffer is empty and the channel connected.
EmptyNow == buffer = <<>> /\ senders > 0

Trying == {t \in Threads : call[t] = "try_recv"}

Remember ==
  sawEmpty' = {t \in Trying' : t \in sawEmpty \/ EmptyNow'}

ENext == Next /\ Remember

ESpec == EInit /\ [][ENext]_evars

-----------------------------------------------------------------------------
\* Properties.

\* The documentation of try_recv tells Empty from Disconnected.  If one thread
\* receives, an Empty is true at some moment of the call that answers it: the
\* last sender may have sent and hung up since the count was read, but then
\* there is something to pop.
EmptyIsTrue ==
  \A t \in Trying : pc[t] = "take" /\ buffer = <<>> => t \in sawEmpty

=============================================================================
