------------------------------- MODULE MCSink -------------------------------
(***************************************************************************)
(* Small instances of Sink for TLC.                                        *)
(***************************************************************************)
EXTENDS Sink, TLC

EveryCall == [t \in Threads |-> TxCalls \cup RxCalls]

\* Sound with SSpec, whose definition treats the members of each set alike.
Symmetry == Permutations(Threads) \cup Permutations(Senders)
              \cup Permutations(Receivers) \cup Permutations(Messages)

=============================================================================
