----------------------------- MODULE Dispatcher -----------------------------
(***************************************************************************)
(* Class RenderDispatcher (nocturnation/director/render_dispatch.py): the  *)
(* Director's way out.  It numbers every frame, sends an effect REDUNDANCY *)
(* times over a radio that may refuse, and fills the gaps with heartbeats. *)
(*                                                                         *)
(* The instant of the last frame sent is only compared with the present:   *)
(* since is what that comparison yields, held at INTERVAL from where on a  *)
(* heartbeat is due.                                                       *)
(***************************************************************************)
EXTENDS Integers

CONSTANTS
  SEQ_MAX,      \* the last sequence number, 255 in the code
  REDUNDANCY,   \* how often an effect is sent, 3 in the code
  INTERVAL      \* interval_ms of heartbeat_tick, in units of time

ASSUME DispatcherAssumption ==
  /\ SEQ_MAX \in Nat \ {0}
  /\ REDUNDANCY \in Nat \ {0}
  /\ INTERVAL \in Nat \ {0}

Dispatchers == [sequence : 1 .. SEQ_MAX, since : 0 .. INTERVAL]

(***************************************************************************)
(* __init__(): numbering starts at 1, and a heartbeat is due at once.      *)
(***************************************************************************)
NewDispatcher == [sequence |-> 1, since |-> INTERVAL]

(***************************************************************************)
(* A variant to test the properties with: the number wraps as a byte does. *)
(***************************************************************************)
AdvanceThroughZero(n) == (n + 1) % (SEQ_MAX + 1)

(***************************************************************************)
(* _advance_sequence(): after the last number comes 1, as receivers take 0 *)
(* for "not numbered".                                                     *)
(***************************************************************************)
AdvanceSequence(n) == IF n = SEQ_MAX THEN 1 ELSE n + 1

(***************************************************************************)
(* A variant to test the properties with: the attempt counts as a sign of  *)
(* life, whether or not the radio took the frame.                          *)
(***************************************************************************)
DispatchedAnyway(d, sent) ==
  [sequence |-> AdvanceSequence(d.sequence), since |-> 0]

(***************************************************************************)
(* dispatch(), dispatch_wash(), dispatch_wash_end(), dispatch_wash_pulse() *)
(* towards the radio: the number is spent before the first of the sends,   *)
(* of which sent did not raise; a single one that got through makes the    *)
(* frame a sign of life.                                                   *)
(***************************************************************************)
Dispatched(d, sent) ==
  [sequence |-> AdvanceSequence(d.sequence),
   since    |-> IF sent > 0 THEN 0 ELSE d.since]

(***************************************************************************)
(* A beacon is due when nothing was sent for an interval.                  *)
(***************************************************************************)
HeartbeatDue(d) == d.since >= INTERVAL

(***************************************************************************)
(* A variant to test the properties with: a beacon does not take a number. *)
(***************************************************************************)
HeartbeatUnnumbered(d, sent) ==
  [d EXCEPT !.since = IF sent > 0 THEN 0 ELSE @]

(***************************************************************************)
(* heartbeat_tick() when one is due: a single send, which may fail; it is  *)
(* tried again, under another number, at the next pass of the loop.        *)
(***************************************************************************)
HeartbeatSent(d, sent) == Dispatched(d, sent)

AgeDispatcher(d) ==
  [d EXCEPT !.since = IF @ < INTERVAL THEN @ + 1 ELSE @]

=============================================================================
