---------------------------- MODULE MCOrderings ----------------------------
(***************************************************************************)
(* Small instances of Orderings for TLC: two messages from one sender to   *)
(* one receiver; one message with a sender that may be cloned; no message, *)
(* but a hang-up, with a receiver that may be cloned.                      *)
(***************************************************************************)
EXTENDS Orderings, TLC

CONSTANTS s1, s2, r1, r2

SmallStarts ==
  {[here |-> {s1, r1}, unborn |-> {},   sends |-> 2],
   [here |-> {s1, r1}, unborn |-> {s2}, sends |-> 1],
   [here |-> {s1, r1}, unborn |-> {r2}, sends |-> 0]}

=============================================================================
