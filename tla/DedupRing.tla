----------------------------- MODULE DedupRing -----------------------------
(***************************************************************************)
(* Class DedupRing (nocturnation/protocol/dedup.py): a FIFO of the last    *)
(* CAPACITY distinct pairs let through.  Every Director frame arrives      *)
(* several times, from the Director's own redundancy and through relays;   *)
(* the ring decides which copy is rendered.                                *)
(***************************************************************************)
EXTENDS Rings, Wire

CONSTANT CAPACITY   \* DEFAULT_CAPACITY, 16 in the code

ASSUME CapacityAssumption == CAPACITY \in Nat \ {0}

(***************************************************************************)
(* seen(): test-and-add.  A pair without a sequence number is never a      *)
(* duplicate and never remembered.                                         *)
(***************************************************************************)
IsSeen(ring, key) == key \notin Unsequenced /\ Holds(ring, key)

(***************************************************************************)
(* Variants to test the properties with: a duplicate moves its pair to the *)
(* young end, as in an LRU cache; the ring has a place less.               *)
(***************************************************************************)
RememberLatest(ring, key) ==
  IF key \in Unsequenced THEN ring
  ELSE Push(SelectSeq(ring, LAMBDA k : k # key), key, CAPACITY)

RememberTooFew(ring, key) ==
  IF key \in Unsequenced \/ Holds(ring, key) THEN ring
  ELSE Push(ring, key, CAPACITY - 1)

Remember(ring, key) ==
  IF key \in Unsequenced \/ Holds(ring, key) THEN ring
  ELSE Push(ring, key, CAPACITY)

=============================================================================
