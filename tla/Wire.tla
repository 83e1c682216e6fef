-------------------------------- MODULE Wire --------------------------------
(***************************************************************************)
(* What distinguishes the frames on the air.  A frame is told from another *)
(* by its source id and its sequence number together, never by one alone,  *)
(* so a pair is one value of Keys.  Sequence number 0 means "not           *)
(* numbered": all unnumbered frames of a source share one pair.            *)
(***************************************************************************)
CONSTANTS
  Keys,         \* (source_id, sequence_number) pairs on the air
  Unsequenced   \* those whose sequence_number is 0

ASSUME KeyAssumption == Unsequenced \subseteq Keys

=============================================================================
