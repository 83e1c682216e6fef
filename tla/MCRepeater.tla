----------------------------- MODULE MCRepeater -----------------------------
(***************************************************************************)
(* One repeater on small rings and short timeouts.  The windows keep the   *)
(* order they have in the code: a peer counts as gone (3 frames) before    *)
(* the shortest cooldown (5) runs out.                                     *)
(***************************************************************************)
EXTENDS Repeater

CONSTANTS k1, k0

MCCandidateFrames == {2, 3}
MCCooldownFrames == {5}

=============================================================================
