--------------------------- MODULE MCEmptyAnswers ---------------------------
(***************************************************************************)
(* One thread that receives and any number that send, for TLC.             *)
(***************************************************************************)
EXTENDS EmptyAnswers, TLC

CONSTANTS t1, t2, t3

OneConsumer ==
  [t \in Threads |-> IF t = t1 THEN {"try_recv", "recv", "poll_next", "drop_rx"}
                               ELSE {"send", "clone_tx", "drop_tx"}]

\* Sound with ESpec, whose definition treats the senders, and the threads that
\* send, alike.
Symmetry == Permutations(Threads \ {t1}) \cup Permutations(Senders)
              \cup Permutations(Messages)

=============================================================================
