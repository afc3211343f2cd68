-------------------------------- MODULE Sink --------------------------------
(***************************************************************************)
(* The Sink that a RingSender is: start_send is send, and a sender that    *)
(* has overwritten a message in start_send makes its task yield once, at   *)
(* the next poll_ready or poll_flush, to let the receivers catch up.       *)
(***************************************************************************)
EXTENDS Answers

VARIABLES
  backoff,    \* RingSender::backoff
  sinking,    \* the threads whose send is that of a start_send
  yielding,   \* the tasks that poll_flush has told Pending
  hurry       \* history: messages overwritten by each sink since it last yielded

sinks == <<backoff, sinking, yielding, hurry>>
svars == <<avars, sinks>>

SInit ==
  /\ AInit
  /\ backoff = [s \in Senders |-> FALSE] /\ hurry = [s \in Senders |-> 0]
  /\ sinking = {} /\ yielding = {}

-----------------------------------------------------------------------------

\* The sender is borrowed mutably (Pin<&mut Self>).
Exclusive(t, s) == s \in tx /\ pc[t] = "idle" /\ \A u \in Threads : ~Uses(u, s)

\* A refused message leaves the flag as it is.
StartSend(t, s, m) ==
  /\ t \notin yielding /\ Exclusive(t, s)
  /\ ASend(t, s, m)
  /\ sinking' = IF receivers > 0 THEN sinking \cup {t} ELSE sinking
  /\ UNCHANGED <<backoff, yielding, hurry>>

BacksOffNever == FALSE   \* mutant: start_send forgets what send returned
BacksOff == Overwritten # None

SPush(t) ==
  /\ APush(t)
  /\ IF t \in sinking
       THEN /\ backoff' = [backoff EXCEPT ![end[t]] = BacksOff]
            /\ hurry' = [hurry EXCEPT ![end[t]] = @ + (IF Overwritten # None THEN 1 ELSE 0)]
       ELSE UNCHANGED <<backoff, hurry>>
  /\ sinking' = sinking \ {t}
  /\ UNCHANGED yielding

\* poll_ready and poll_flush: Ready leaves everything as it is ...
SinkReady(s) == ~backoff[s]

\* Mutant: Pending without a wake.
PendingUnwoken(t, s) ==
  /\ t \notin yielding /\ Exclusive(t, s) /\ ~SinkReady(s)
  /\ backoff' = [backoff EXCEPT ![s] = FALSE] /\ hurry' = [hurry EXCEPT ![s] = 0]
  /\ yielding' = yielding \cup {t}
  /\ UNCHANGED <<avars, sinking>>

\* ... and Pending takes the flag and wakes its own task.
SinkPending(t, s) ==
  /\ t \notin yielding /\ Exclusive(t, s) /\ ~SinkReady(s)
  /\ backoff' = [backoff EXCEPT ![s] = FALSE] /\ hurry' = [hurry EXCEPT ![s] = 0]
  /\ woken' = [woken EXCEPT ![t] = TRUE]
  /\ yielding' = yielding \cup {t}
  /\ UNCHANGED <<block, ends, thread, waker, msgs, waitlist, answer, sinking>>

\* The executor polls the task again.
Repoll(t) ==
  /\ t \in yielding /\ woken[t]
  /\ woken' = [woken EXCEPT ![t] = FALSE]
  /\ yielding' = yielding \ {t}
  /\ UNCHANGED <<block, ends, thread, waker, msgs, waitlist, answer, backoff, sinking, hurry>>

\* RingSender::new: a cloned sender does not inherit the flag.
SCloneTx(t, s, new) ==
  /\ CloneTx(t, s, new)
  /\ backoff' = [backoff EXCEPT ![new] = FALSE] /\ hurry' = [hurry EXCEPT ![new] = 0]
  /\ UNCHANGED <<answer, sinking, yielding>>

\* The steps of a call in progress.
SStep(t) ==
  \/ SPush(t)
  \/ /\ UNCHANGED sinks
     /\ \/ ATakeMessage(t) \/ AFindEmpty(t) \/ AResume(t)
        \/ SilentStep(t) /\ UNCHANGED answer

-----------------------------------------------------------------------------
\* Any client.  As Sink demands, it asks a sink before each start_send, and a
\* task that was told Pending is polled again before it does anything else.
\* (That start_send borrows the sender from others until it returns is only
\* checked at its start.)
SClient(t) ==
  \/ Repoll(t)
  \/ /\ t \notin yielding
     /\ \/ \E s \in Senders, m \in Messages :
             \/ ASend(t, s, m) /\ UNCHANGED sinks
             \/ SinkReady(s) /\ StartSend(t, s, m)
        \/ \E s \in Senders : SinkPending(t, s)
        \/ \E s, new \in Senders : SCloneTx(t, s, new)
        \/ (\E r \in Receivers, c \in RxCalls : AReceive(t, r, c)) /\ UNCHANGED sinks
        \/ SilentCall(t) /\ UNCHANGED <<answer, sinks>>

SNext == \E t \in Threads : SClient(t) \/ SStep(t)

SSpec == SInit /\ [][SNext]_svars

-----------------------------------------------------------------------------
\* Properties.

\* A sink whose client polls it ready before each message overwrites at most
\* one message before its task yields, so a producer that outruns the receivers
\* gives them a chance to run after each message that it costs them.
OneOverwritePerYield == \A s \in Senders : hurry[s] <= 1

=============================================================================
