------------------------------ MODULE MCLight -------------------------------
(***************************************************************************)
(* A Director that sends two pulses, an overlay, a wash that swallows      *)
(* pulses and has no time to live, one that has, its end, and heartbeats.  *)
(***************************************************************************)
EXTENDS Light

CONSTANTS p1, p2

Lasting == [synthetic |-> FALSE, attack |-> 0, ttl |-> 0, release |-> 1, response |-> FALSE]
Timed == [synthetic |-> FALSE, attack |-> 1, ttl |-> 1, release |-> 0, response |-> TRUE]

MCOnAir == {Pulse(p1), Pulse(p2), Overlay, Heartbeat, WashFrame(Lasting), WashFrame(Timed), WashEnd(1)}

=============================================================================
