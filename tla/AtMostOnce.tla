----------------------------- MODULE AtMostOnce -----------------------------
(***************************************************************************)
(* What the broadcast promises the LEDs of a badge, without numbers,       *)
(* copies or rings: an effect the Director sends is shown once or not at   *)
(* all, while it is live, and nothing else is shown.  Effects may be lost  *)
(* and overtake each other.  Pulses that are found unguarded are the       *)
(* exception the badge makes: those, and no effect of another kind, may be *)
(* shown again.                                                            *)
(***************************************************************************)
EXTENDS Naturals

CONSTANT Ids   \* of the effects, in the order in which they are sent

VARIABLES
  last,       \* the latest id in use, so that none is used again
  live,       \* the effects that were sent and are not over
  pulses,     \* those of them that are pulses
  unguarded,  \* those of these that may be shown again
  shown       \* for every live effect 0 until it is shown, then 1 and 2 in turn

vars == <<last, live, pulses, unguarded, shown>>

Init ==
  /\ last = 0 /\ live = {} /\ pulses = {} /\ unguarded = {}
  /\ shown = [e \in Ids |-> 0]

Send(e) ==
  /\ e > last
  /\ last' = e
  /\ live' = live \cup {e}
  /\ pulses' \in {pulses, pulses \cup {e}}
  /\ UNCHANGED <<unguarded, shown>>

(***************************************************************************)
(* Any pulses may be found unguarded at any time, and no other effects.    *)
(***************************************************************************)
Reguard == unguarded' \subseteq pulses'

Show(e) ==
  /\ e \in live
  /\ shown[e] = 0 \/ e \in unguarded
  /\ shown' = [shown EXCEPT ![e] = IF @ = 1 THEN 2 ELSE 1]
  /\ Reguard
  /\ UNCHANGED <<last, live, pulses>>

(***************************************************************************)
(* Effects are over; ids may be left out.                                  *)
(***************************************************************************)
Expire ==
  /\ last' >= last
  /\ live' \subseteq live /\ pulses' = pulses \cap live'
  /\ shown' = [e \in Ids |-> IF e \in live' THEN shown[e] ELSE 0]
  /\ Reguard

Next == (\E e \in Ids : Send(e) \/ Show(e)) \/ Expire

Spec == Init /\ [][Next]_vars

=============================================================================
