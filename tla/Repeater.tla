------------------------------ MODULE Repeater ------------------------------
(***************************************************************************)
(* One dynamic repeater, given every frame it could be given at any time.  *)
(***************************************************************************)
EXTENDS DynamicRepeater

VARIABLE repeater

RepeaterInit == repeater = NewRepeater(Closed)

AdmitFrame(f) ==
  \E duplicate \in BOOLEAN, sent \in BOOLEAN,
     candidacy \in CANDIDATE_FRAMES, cooldown \in COOLDOWN_FRAMES :
       /\ duplicate => f.key \notin Unsequenced
       /\ repeater' =
            OnAdmittedFrame(repeater, f, duplicate, sent, candidacy, cooldown)

RepeaterTick ==
  \E candidacy \in CANDIDATE_FRAMES : repeater' = TickRepeater(repeater, candidacy)

RepeaterElapse == repeater' = Age(repeater)

RepeaterNext ==
  (\E f \in Frames : AdmitFrame(f)) \/ RepeaterTick \/ RepeaterElapse

(***************************************************************************)
(* The poll loop calls tick on every pass and time does not stand still;   *)
(* nothing obliges anybody to send.                                        *)
(***************************************************************************)
RepeaterFairness == WF_repeater(RepeaterTick) /\ WF_repeater(RepeaterElapse)

RepeaterSpec == RepeaterInit /\ [][RepeaterNext]_repeater /\ RepeaterFairness

-----------------------------------------------------------------------------
(***************************************************************************)
(* Type and capacity: the rings never outgrow their limits, and nothing in *)
(* them or in the elected role is beyond the hop limit of the wire.        *)
(***************************************************************************)
RepeaterTypeOK ==
  /\ repeater \in Repeaters
  /\ Len(repeater.watches) <= WATCH_RING_SIZE
  /\ Len(repeater.recent) <= RECENT_HOP_MEMORY_SIZE
  /\ Len(repeater.tx_ring) <= TX_RING_SIZE

(***************************************************************************)
(* The interrupt handler relays exactly while the repeater is in a         *)
(* relaying state, and then at the elected hop, which is never hop 0; a    *)
(* badge that is not standing for a role has none.                         *)
(***************************************************************************)
GateFollowsRole ==
  /\ repeater.gate = IF repeater.state \in Relaying
                     THEN [enabled |-> TRUE, hop |-> repeater.output_hop] ELSE Closed
  /\ repeater.output_hop = 0 <=> repeater.state = LISTENING

(***************************************************************************)
(* A window that is open has been drawn from its range and is not used up: *)
(* no path, whatever call closes it, leaves a badge in CANDIDATE or        *)
(* COOLDOWN past the frame that should have ended it.                      *)
(***************************************************************************)
WindowStillOpen ==
  /\ repeater.state = CANDIDATE =>
       /\ repeater.target_frames \in CANDIDATE_FRAMES
       /\ repeater.frames_in_state < repeater.target_frames
  /\ repeater.state = COOLDOWN =>
       /\ repeater.target_frames \in COOLDOWN_FRAMES
       /\ repeater.frames_in_state < repeater.target_frames
       /\ repeater.frames_since_peer < COOLDOWN_PEER_STOPPED_FRAMES
  /\ repeater.state \in {LISTENING, ACTIVE} =>
       repeater.target_frames = 0 /\ repeater.frames_in_state = 0

(***************************************************************************)
(* A badge whose upstream has gone quiet, and which recognises no peer     *)
(* either, does not stay in its role for ever, whatever else it hears (a   *)
(* hop 2 badge still hearing the Director, for instance).                  *)
(***************************************************************************)
RoleTraffic ==
  \E f \in Frames : /\ f.hop + 1 = repeater.output_hop \/ PeerHit(repeater, f)
                    /\ AdmitFrame(f)

IdleRoleStepsDown ==
  <>[][~RoleTraffic]_repeater => []<>(repeater.state \notin Relaying)

(***************************************************************************)
(* As long as frames keep coming, an election or a cooldown comes to an    *)
(* end: neither state can absorb frames for ever.                          *)
(***************************************************************************)
WindowsClose ==
  []<><<\E f \in Frames : AdmitFrame(f)>>_repeater =>
    []<>(repeater.state \notin {CANDIDATE, COOLDOWN})

=============================================================================
