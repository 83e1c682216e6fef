----------------------------- MODULE MCPairing -----------------------------
(***************************************************************************)
(* Two groups of the menu and one that only a phone can write; a window of *)
(* zero, which only a phone can write, the shortest one and the default.   *)
(***************************************************************************)
EXTENDS Pairing

MCGroupCycle == <<0, 1>>

=============================================================================
