------------------------------- MODULE MCLink -------------------------------
(***************************************************************************)
(* Five sequence numbers, a ring of two, one restart of the Director, and  *)
(* enough frames for the numbers to come round.                            *)
(***************************************************************************)
EXTENDS Link

CONSTANT D

MCKeys == 0 .. SEQ_MAX

=============================================================================
