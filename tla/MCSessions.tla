----------------------------- MODULE MCSessions -----------------------------
(***************************************************************************)
(* Two channels, a Director that may be followed on either of them and one *)
(* that may not be followed on channel 11.                                 *)
(***************************************************************************)
EXTENDS Sessions

CONSTANTS show, hobby

MCOnAir == {[source |-> show, on |-> 11], [source |-> show, on |-> 1],
            [source |-> hobby, on |-> 1]}

MCScanOrder == <<11, 1>>

=============================================================================
