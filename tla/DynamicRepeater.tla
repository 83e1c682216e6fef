-------------------------- MODULE DynamicRepeater --------------------------
(***************************************************************************)
(* Class DynamicRepeater (nocturnation/repeater.py): every operation is an *)
(* operator from the repeater's record before the call to its record after *)
(* it, for the modules that run a repeater alone (Repeater) or in its      *)
(* badge (ReceivePath).                                                    *)
(*                                                                         *)
(* Abstractions.  Instants are only compared with one another, so a watch  *)
(* keeps the time LEFT before its deadline and the repeater the time it    *)
(* has been IDLE since its last relay, both saturating where the code      *)
(* stops telling values apart.  The session counters feed the overlay only *)
(* and are left out.                                                       *)
(***************************************************************************)
EXTENDS Rings, Wire

CONSTANTS
  MAX_HOP_COUNT,         \* 3 in the code
  PEER_WATCH,            \* PEER_WATCH_MS, in units of time
  CANDIDATE_FRAMES,      \* CANDIDATE_MIN_FRAMES .. CANDIDATE_MAX_FRAMES
  COOLDOWN_FRAMES,       \* COOLDOWN_MIN_FRAMES .. COOLDOWN_MAX_FRAMES
  COOLDOWN_PEER_STOPPED_FRAMES,
  TX_RING_SIZE,
  WATCH_RING_SIZE,
  RECENT_HOP_MEMORY_SIZE,
  ACTIVE_IDLE_TIMEOUT    \* ACTIVE_IDLE_TIMEOUT_MS, in units of time

ASSUME HopAssumption == MAX_HOP_COUNT \in Nat \ {0}
ASSUME TimeAssumption == PEER_WATCH \in Nat \ {0} /\ ACTIVE_IDLE_TIMEOUT \in Nat \ {0}
ASSUME WindowAssumption ==
  /\ CANDIDATE_FRAMES \subseteq Nat \ {0} /\ CANDIDATE_FRAMES # {}
  /\ COOLDOWN_FRAMES \subseteq Nat \ {0} /\ COOLDOWN_FRAMES # {}
  /\ COOLDOWN_PEER_STOPPED_FRAMES \in Nat \ {0}
ASSUME RingAssumption ==
  /\ TX_RING_SIZE \in Nat \ {0}
  /\ WATCH_RING_SIZE \in Nat \ {0}
  /\ RECENT_HOP_MEMORY_SIZE \in Nat \ {0}

LISTENING == "LISTENING"
CANDIDATE == "CANDIDATE"
ACTIVE    == "ACTIVE"
COOLDOWN  == "COOLDOWN"
Relaying  == {ACTIVE, COOLDOWN}

Frames == [key : Keys, hop : 0 .. MAX_HOP_COUNT]
Watches == [key : Keys, hop : 0 .. MAX_HOP_COUNT - 1, left : 0 .. PEER_WATCH]
Relays == [key : Keys, hop : 1 .. MAX_HOP_COUNT]
Gates == [enabled : BOOLEAN, hop : 0 .. MAX_HOP_COUNT]

Closed == [enabled |-> FALSE, hop |-> 0]

(***************************************************************************)
(* A repeater.  recent lists the keys of _recent_lo_order, each with its   *)
(* _recent_lo hop; gate is what the last on_relay_state_change call passed *)
(* on, and stays what it was before the first call.                        *)
(***************************************************************************)
Repeaters ==
  [state : {LISTENING, CANDIDATE, ACTIVE, COOLDOWN},
   target_frames : Nat, frames_in_state : Nat, frames_since_peer : Nat,
   output_hop : 0 .. MAX_HOP_COUNT, idle : 0 .. ACTIVE_IDLE_TIMEOUT,
   watches : Seq(Watches), recent : Seq(Frames), tx_ring : Seq(Relays),
   gate : Gates]

NewRepeater(gate) ==
  [state |-> LISTENING,
   target_frames |-> 0, frames_in_state |-> 0, frames_since_peer |-> 0,
   output_hop |-> 0, idle |-> ACTIVE_IDLE_TIMEOUT,
   watches |-> <<>>, recent |-> <<>>, tx_ring |-> <<>>,
   gate |-> gate]

-----------------------------------------------------------------------------
(***************************************************************************)
(* State transitions.  Leaving LISTENING for CANDIDATE calls nobody back;  *)
(* the others tell the interrupt handler whether, and at which hop, to     *)
(* relay.                                                                  *)
(***************************************************************************)
ToCandidate(r, hop, frames) ==
  [r EXCEPT !.state = CANDIDATE, !.target_frames = frames,
            !.frames_in_state = 0, !.output_hop = hop]

ToActive(r) ==
  [r EXCEPT !.state = ACTIVE, !.target_frames = 0, !.frames_in_state = 0,
            !.frames_since_peer = 0, !.idle = 0,
            !.gate = [enabled |-> TRUE, hop |-> r.output_hop]]

ToCooldown(r, frames) ==
  [r EXCEPT !.state = COOLDOWN, !.target_frames = frames,
            !.frames_in_state = 0, !.frames_since_peer = 0,
            !.gate = [enabled |-> TRUE, hop |-> r.output_hop]]

(***************************************************************************)
(* A variant to test the properties with: the handler is not told that the *)
(* role was given up.                                                      *)
(***************************************************************************)
ToListeningUnannounced(r) ==
  [r EXCEPT !.state = LISTENING, !.target_frames = 0, !.frames_in_state = 0,
            !.output_hop = 0]

ToListening(r) ==
  [r EXCEPT !.state = LISTENING, !.target_frames = 0, !.frames_in_state = 0,
            !.output_hop = 0, !.gate = Closed]

-----------------------------------------------------------------------------
(***************************************************************************)
(* Peer watches.                                                           *)
(***************************************************************************)
ExpiredHops(r) == {r.watches[i].hop : i \in {j \in DOMAIN r.watches : r.watches[j].left = 0}}

(***************************************************************************)
(* Drop every watch past its deadline; a LISTENING badge stands for the    *)
(* lowest hop left vacant, for a random number of frames.                  *)
(***************************************************************************)
ExpireWatches(r, frames) ==
  LET swept == [r EXCEPT !.watches = Keep(@, {w \in Watches : w.left > 0})]
  IN  IF ExpiredHops(r) # {} /\ r.state = LISTENING
      THEN ToCandidate(swept, Min(ExpiredHops(r)) + 1, frames)
      ELSE swept

Covered(r, f) ==
  {i \in DOMAIN r.watches : r.watches[i].key = f.key /\ r.watches[i].hop + 1 = f.hop}

(***************************************************************************)
(* A variant to test the properties with: a cover takes the oldest watch   *)
(* away, whichever frame it is for.                                        *)
(***************************************************************************)
ResolveAnyCover(r, f) ==
  IF Covered(r, f) = {} THEN r
  ELSE [r EXCEPT !.watches = RemoveAt(@, 1)]

(***************************************************************************)
(* A copy of a watched frame one hop further out covers the oldest watch   *)
(* for it.                                                                 *)
(***************************************************************************)
ResolveWatchCover(r, f) ==
  IF Covered(r, f) = {} THEN r
  ELSE [r EXCEPT !.watches = RemoveAt(@, Min(Covered(r, f)))]

(***************************************************************************)
(* A variant to test the properties with: a watch at the last hop too,     *)
(* beyond which no relay can go.                                           *)
(***************************************************************************)
AddWatchAtAnyHop(r, f) ==
  [r EXCEPT !.watches = Push(@, [key |-> f.key, hop |-> f.hop, left |-> PEER_WATCH],
                             WATCH_RING_SIZE)]

AddWatch(r, f) ==
  IF f.hop < MAX_HOP_COUNT
  THEN [r EXCEPT !.watches = Push(@, [key |-> f.key, hop |-> f.hop, left |-> PEER_WATCH],
                                  WATCH_RING_SIZE)]
  ELSE r

(***************************************************************************)
(* A variant to test the properties with: the watch at an outer hop stays  *)
(* when the frame is heard closer in.                                      *)
(***************************************************************************)
KeepWatchesAbove(r, f) == r

CancelWatchesAbove(r, f) ==
  [r EXCEPT !.watches = Keep(@, {w \in Watches : ~(w.key = f.key /\ w.hop > f.hop)})]

(***************************************************************************)
(* Only the lowest hop a frame is heard at deserves a watch; a frame       *)
(* without a sequence number is always watched.                            *)
(***************************************************************************)
NoteHop(r, f) ==
  LET places == {i \in DOMAIN r.recent : r.recent[i].key = f.key}
  IN  IF f.key \in Unsequenced
        THEN AddWatch(r, f)
      ELSE IF places = {}
        THEN AddWatch([r EXCEPT !.recent = Push(@, f, RECENT_HOP_MEMORY_SIZE)], f)
      ELSE IF \E i \in places : f.hop < r.recent[i].hop
        THEN AddWatch(CancelWatchesAbove([r EXCEPT !.recent[Min(places)] = f], f), f)
      ELSE r

-----------------------------------------------------------------------------
(***************************************************************************)
(* Frames.  A peer hit is a frame that one of our own transmissions        *)
(* matches in source, sequence number and hop.                             *)
(***************************************************************************)
PeerHit(r, f) == Holds(r.tx_ring, f)

CountPeer(r, f) ==
  IF PeerHit(r, f) THEN [r EXCEPT !.frames_since_peer = 0]
  ELSE IF r.state = COOLDOWN THEN [r EXCEPT !.frames_since_peer = @ + 1]
  ELSE r

(***************************************************************************)
(* The relay of a fresh frame one hop short of the elected one.  sent is   *)
(* FALSE when send_fn raised: the relay leaves no trace then.              *)
(***************************************************************************)
TransmitRelay(r, f, duplicate, sent) ==
  IF ~duplicate /\ f.hop + 1 = r.output_hop /\ sent
  THEN [r EXCEPT !.idle = 0,
                 !.tx_ring = Push(@, [key |-> f.key, hop |-> f.hop + 1], TX_RING_SIZE)]
  ELSE r

CountFrame(r) == [r EXCEPT !.frames_in_state = @ + 1]

(***************************************************************************)
(* A variant to test the properties with: the frame is compared before it  *)
(* is counted.                                                             *)
(***************************************************************************)
OnFrameCandidateLate(r, f) ==
  IF f.hop = r.output_hop THEN ToListening(r)
  ELSE IF r.frames_in_state >= r.target_frames THEN ToActive(r)
  ELSE CountFrame(r)

OnFrameCandidate(r, f) ==
  IF f.hop = r.output_hop THEN ToListening(r)
  ELSE IF r.frames_in_state + 1 >= r.target_frames THEN ToActive(r)
  ELSE CountFrame(r)

OnFrameActive(r, f, duplicate, sent, hit, frames) ==
  LET relayed == TransmitRelay(r, f, duplicate, sent)
  IN  IF hit THEN ToCooldown(relayed, frames) ELSE relayed

(***************************************************************************)
(* A variant to test the properties with: a cooldown has no end of its     *)
(* own.                                                                    *)
(***************************************************************************)
OnFrameCooldownForever(r, f, duplicate, sent) ==
  LET relayed == TransmitRelay(r, f, duplicate, sent)
  IN  IF r.frames_since_peer >= COOLDOWN_PEER_STOPPED_FRAMES THEN ToActive(relayed)
      ELSE relayed

OnFrameCooldown(r, f, duplicate, sent) ==
  LET relayed == TransmitRelay(r, f, duplicate, sent)
  IN  IF r.frames_since_peer >= COOLDOWN_PEER_STOPPED_FRAMES THEN ToActive(relayed)
      ELSE IF r.frames_in_state + 1 >= r.target_frames THEN ToListening(relayed)
      ELSE CountFrame(relayed)

OnFrame(r, f, duplicate, sent, hit, frames) ==
  CASE r.state = LISTENING -> r
    [] r.state = CANDIDATE -> OnFrameCandidate(r, f)
    [] r.state = ACTIVE    -> OnFrameActive(r, f, duplicate, sent, hit, frames)
    [] r.state = COOLDOWN  -> OnFrameCooldown(r, f, duplicate, sent)

(***************************************************************************)
(* The two entry points: every admitted frame, duplicates included, and    *)
(* the sweep of the poll loop.  candidacy and cooldown are the random      *)
(* windows drawn if the call opens one.                                    *)
(***************************************************************************)
OnAdmittedFrame(r, f, duplicate, sent, candidacy, cooldown) ==
  LET swept   == ExpireWatches(r, candidacy)
      counted == CountPeer(swept, f)
      covered == ResolveWatchCover(counted, f)
      handled == OnFrame(covered, f, duplicate, sent, PeerHit(r, f), cooldown)
  IN  NoteHop(handled, f)

(***************************************************************************)
(* A variant to test the properties with: the idle time-out is looked at   *)
(* in ACTIVE alone.                                                        *)
(***************************************************************************)
TickActiveOnly(r, candidacy) ==
  LET swept == ExpireWatches(r, candidacy)
  IN  IF swept.state = ACTIVE /\ swept.idle >= ACTIVE_IDLE_TIMEOUT
      THEN ToListening(swept)
      ELSE swept

TickRepeater(r, candidacy) ==
  LET swept == ExpireWatches(r, candidacy)
  IN  IF swept.state \in Relaying /\ swept.idle >= ACTIVE_IDLE_TIMEOUT
      THEN ToListening(swept)
      ELSE swept

(***************************************************************************)
(* One unit of time goes by.                                               *)
(***************************************************************************)
Countdown(w) == [w EXCEPT !.left = IF @ > 0 THEN @ - 1 ELSE 0]

Age(r) ==
  [r EXCEPT !.watches = [i \in DOMAIN @ |-> Countdown(@[i])],
            !.idle = IF @ < ACTIVE_IDLE_TIMEOUT THEN @ + 1 ELSE @]

=============================================================================
