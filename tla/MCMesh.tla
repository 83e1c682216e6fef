------------------------------- MODULE MCMesh -------------------------------
(***************************************************************************)
(* Two badges and a Director: all in range of each other, in a line, or    *)
(* with one of the badges switched off.                                    *)
(***************************************************************************)
EXTENDS Mesh

CONSTANTS a, b, d

MCKeys == 0 .. 2
MCCandidateFrames == {2}
MCCooldownFrames == {5, 8}
MCShortCooldown == {5}

Triangle == {{d, a}, {d, b}, {a, b}}
Line == {{d, a}, {a, b}}
Alone == {{d, b}}

MCTopologies == {Triangle, Line, Alone}
MCSameEdge == {Triangle}

=============================================================================
