------------------------------- MODULE MCTofu -------------------------------
(***************************************************************************)
(* Two performance Directors, a community one and an anonymous sender on   *)
(* the performance channel and a hobby channel.                            *)
(***************************************************************************)
EXTENDS Tofu

CONSTANTS perf1, perf2, community

=============================================================================
