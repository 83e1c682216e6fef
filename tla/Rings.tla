------------------------------- MODULE Rings -------------------------------
(***************************************************************************)
(* The bounded lists the receive path keeps: plain Python lists that are   *)
(* appended to at the end and trimmed from the front.  A ring is a         *)
(* sequence whose head is its oldest entry.                                *)
(***************************************************************************)
EXTENDS Integers, SequencesExt

(***************************************************************************)
(* Append an entry; over capacity the oldest one is popped.                *)
(***************************************************************************)
Push(ring, entry, capacity) ==
  LET longer == Append(ring, entry)
  IN  IF Len(longer) > capacity THEN Tail(longer) ELSE longer

(***************************************************************************)
(* `entry in ring`.                                                        *)
(***************************************************************************)
Holds(ring, entry) == \E i \in DOMAIN ring : ring[i] = entry

(***************************************************************************)
(* The entries of a ring that belong to K, in their order.  It is          *)
(* SelectSeq with the set K as its test, written as a recursive function   *)
(* because the prover gives SelectSeq no meaning.                          *)
(***************************************************************************)
Keep(ring, K) ==
  LET kept[i \in 0 .. Len(ring)] ==
        IF i = 0 THEN <<>>
        ELSE IF ring[i] \in K THEN Append(kept[i - 1], ring[i])
        ELSE kept[i - 1]
  IN  kept[Len(ring)]

=============================================================================
