--------------------------- MODULE MCReceivePath ---------------------------
(***************************************************************************)
(* One badge with two Directors in earshot, a handful of frames on the air *)
(* and room for two of them on their way in.                               *)
(***************************************************************************)
EXTENDS ReceivePath

CONSTANTS k1, x1, us, them

MCSourceOf == [k \in Keys |-> IF k = x1 THEN them ELSE us]
MCCandidateFrames == {2}
MCCooldownFrames == {4}

Heard(k, h) == [key |-> k, hop |-> h]

(***************************************************************************)
(* A pulse of either Director, one of them relayed by a peer as well.      *)
(***************************************************************************)
TwoDirectors == {Heard(k1, 0), Heard(k1, 1), Heard(x1, 0)}

=============================================================================
