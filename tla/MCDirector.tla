----------------------------- MODULE MCDirector -----------------------------
(***************************************************************************)
(* Two Shows, one of them Conductor, over two groups of Lumes, with a      *)
(* button of either kind.                                                  *)
(***************************************************************************)
EXTENDS Director

CONSTANTS conductor, simple_tap

=============================================================================
