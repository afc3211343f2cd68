--------------------------- MODULE MCWaitlistTest ---------------------------
(***************************************************************************)
(* A small instance of WaitlistTest for TLC.                               *)
(***************************************************************************)
EXTENDS WaitlistTest, TLC

Symmetry == Permutations(Threads)

=============================================================================
