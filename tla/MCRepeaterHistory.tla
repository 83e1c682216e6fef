------------------------- MODULE MCRepeaterHistory -------------------------
(***************************************************************************)
(* One repeater with its history, on the copies of two frames.             *)
(***************************************************************************)
EXTENDS RepeaterHistory

CONSTANTS k1, k2

MCCandidateFrames == {2}
MCCooldownFrames == {5}
KeySymmetry == Permutations({k1, k2})

=============================================================================
