-------------------------------- MODULE Dedup --------------------------------
(***************************************************************************)
(* One deduplication ring, given copies of frames in any order; fresh is   *)
(* the history of the sequenced pairs it let through.                      *)
(***************************************************************************)
EXTENDS DedupRing

CONSTANT MaxFresh   \* bound on the history; not part of the code

ASSUME BoundAssumption == MaxFresh \in Nat

VARIABLES ring, fresh

ringVars == <<ring, fresh>>

RingInit == ring = <<>> /\ fresh = <<>>

Seen(key) ==
  /\ Len(fresh) < MaxFresh \/ IsSeen(ring, key)
  /\ ring' = Remember(ring, key)
  /\ fresh' = IF key \in Unsequenced \/ IsSeen(ring, key) THEN fresh ELSE Append(fresh, key)

RingNext == \E key \in Keys : Seen(key)

RingSpec == RingInit /\ [][RingNext]_ringVars

-----------------------------------------------------------------------------
RingTypeOK == ring \in Seq(Keys \ Unsequenced) /\ fresh \in Seq(Keys \ Unsequenced)

Least(a, b) == IF a <= b THEN a ELSE b

(***************************************************************************)
(* The ring is a faithful window: it holds exactly the last CAPACITY pairs *)
(* that were let through, in order.  Nothing is forgotten early, nothing   *)
(* is kept that was not rendered, and duplicates do not reorder it.        *)
(***************************************************************************)
RingIsWindow ==
  /\ Len(ring) = Least(CAPACITY, Len(fresh))
  /\ \A i \in 1 .. Len(ring) : ring[i] = fresh[Len(fresh) - Len(ring) + i]

(***************************************************************************)
(* "Rendered exactly once": the same pair gets through twice only with at  *)
(* least CAPACITY other pairs let through in between, which takes a        *)
(* sequence number that wrapped or more sources than the ring has room     *)
(* for.  Any interleaving of redundant copies and relays is absorbed.      *)
(***************************************************************************)
RepeatsAreFarApart ==
  \A i, j \in DOMAIN fresh : i < j /\ fresh[i] = fresh[j] => j - i > CAPACITY

=============================================================================
