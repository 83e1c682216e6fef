-------------------------------- MODULE Link --------------------------------
(***************************************************************************)
(* One Director and one badge that follows it, with the air between them:  *)
(* the Director's dispatcher numbers and repeats its frames, copies of     *)
(* them (its own and the relays') are lost, repeated and overtake each     *)
(* other.  On the badge two contexts render: the interrupt handler paints  *)
(* a pulse for its LEDs as it comes in, asking only whether it was the     *)
(* last it painted; the receive loop, which has the frame later or takes a *)
(* copy itself, asks the lock, the deduplication ring and what the handler *)
(* painted.  The loop admits a frame by its source before it asks the      *)
(* ring, so the ring only ever holds this Director's numbers, and a pair   *)
(* is told by its number.                                                  *)
(*                                                                         *)
(* A copy is on its way until the loop has it in its hands: the handler's  *)
(* queue and the driver's buffer are part of the way, and that they keep   *)
(* the order in which copies come in is not relied upon.                   *)
(*                                                                         *)
(* A unit of time is as long as a copy can be on its way.  The Director's  *)
(* loop passes in every unit it is in session, and emits BURST frames at   *)
(* most.  Between two frames that reach the badge, LOSSES at most do not.  *)
(***************************************************************************)
EXTENDS Dispatcher, Dedup, TofuLock, FiniteSets

CONSTANTS
  Director,     \* the source id
  CHANNEL,
  BURST,        \* frames emitted in one unit of time
  LOSSES,       \* frames in a row that do not reach the badge
  MaxFrames,    \* bound on the frames of a run; not part of the code
  MaxRestarts   \* bound on the Director's restarts; not part of the code

ASSUME LinkAssumption ==
  /\ Keys = 0 .. SEQ_MAX /\ Unsequenced = {0}
  /\ Director \in Sources /\ CHANNEL \in Channels /\ Eligible(Director, CHANNEL)
  /\ BURST \in 1 .. CAPACITY
  /\ LOSSES \in Nat /\ MaxFrames \in Nat /\ MaxRestarts \in Nat

VARIABLES
  director,   \* the dispatcher, which outlives a session
  session,    \* the Director is in session
  passed,     \* its loop has passed in this unit of time
  air,        \* the frames of which copies are on their way
  lock,       \* the badge's TOFU lock
  paint_key,  \* _fast_paint_last_key: its number, 0 if not this Director's
  (* History. *)
  emitted,    \* how many frames there were, which gives each its id
  burst,      \* how many of them in this unit of time
  shown,      \* for every id on the air 0 until it is rendered, then 1 and 2
              \* in turn
  unguarded,  \* pulses on the air that nothing keeps from being repeated
  heard,      \* the frames on the air that reached it
  lost,       \* how many did not since the last that did
  failed,     \* how often the radio refused since then
  off,        \* there was a unit of time without a session since then
  restarts,   \* how often the Director was restarted
  swallowed   \* effects that reached it without having been rendered by then

directorVars == <<director, session, passed>>
lightVars == <<paint_key, shown, unguarded>>
badgeVars == <<lock, ringVars, lightVars, swallowed>>
countVars == <<emitted, burst, restarts>>
missVars == <<lost, failed, off>>
vars == <<directorVars, air, badgeVars, countVars, heard, missVars>>

Ids == 1 .. MaxFrames

(***************************************************************************)
(* Of the contents of a frame all that matters on the way is whether it is *)
(* a heartbeat, a LIGHT_PULSE for the badge's LEDs, or another effect.     *)
(***************************************************************************)
Kinds == {"heartbeat", "pulse", "other"}

Frames == [id : Ids, number : 1 .. SEQ_MAX, kind : Kinds]

Effects == {f.id : f \in {g \in air : g.kind # "heartbeat"}}

Pulses == {f.id : f \in {g \in air : g.kind = "pulse"}}

Init ==
  /\ director = NewDispatcher /\ session = FALSE /\ passed = FALSE
  /\ air = {}
  /\ lock = Unlocked /\ RingInit
  /\ emitted = 0 /\ burst = 0 /\ restarts = 0
  /\ paint_key = 0 /\ shown = [i \in Ids |-> 0] /\ unguarded = {} /\ swallowed = 0
  /\ heard = {} /\ lost = 0 /\ failed = 0 /\ off = FALSE

-----------------------------------------------------------------------------
(***************************************************************************)
(* A frame leaves the dispatcher, or is refused by the radio every time it *)
(* is tried; either way its number is spent.                               *)
(***************************************************************************)
Emit(sent, kind) ==
  /\ session
  /\ emitted < MaxFrames /\ burst < BURST
  /\ emitted' = emitted + 1 /\ burst' = burst + 1
  /\ IF sent > 0
     THEN /\ air' = air \cup
                   {[id |-> emitted', number |-> director.sequence, kind |-> kind]}
          /\ UNCHANGED failed
     ELSE /\ lost + failed < LOSSES
          /\ failed' = failed + 1
          /\ UNCHANGED air
  /\ UNCHANGED <<session, badgeVars, heard, lost, off, restarts>>

(***************************************************************************)
(* The show fires an effect of any of the four kinds.                      *)
(***************************************************************************)
Fire ==
  \E sent \in {0, REDUNDANCY}, kind \in {"pulse", "other"} :
    /\ Emit(sent, kind)
    /\ director' = Dispatched(director, sent)
    /\ UNCHANGED passed

(***************************************************************************)
(* A pass of the Director's loop, with or without a heartbeat.             *)
(***************************************************************************)
LoopPasses ==
  /\ passed' = TRUE
  /\ \/ /\ HeartbeatDue(director)
        /\ \E sent \in {0, 1} :
             /\ Emit(sent, "heartbeat")
             /\ director' = HeartbeatSent(director, sent)
     \/ /\ session /\ ~HeartbeatDue(director)
        /\ UNCHANGED <<director, session, air, badgeVars, countVars, heard, missVars>>

EnterSession ==
  /\ ~session
  /\ session' = TRUE /\ passed' = FALSE
  /\ UNCHANGED <<director, air, badgeVars, countVars, heard, missVars>>

LeaveSession ==
  /\ session
  /\ session' = FALSE /\ passed' = FALSE
  /\ UNCHANGED <<director, air, badgeVars, countVars, heard, missVars>>

(***************************************************************************)
(* The Director's badge is switched off and on, which takes longer than a  *)
(* copy can be on its way: a new dispatcher.                               *)
(***************************************************************************)
Restart ==
  /\ air = {}
  /\ restarts < MaxRestarts
  /\ restarts' = restarts + 1
  /\ director' = NewDispatcher /\ session' = FALSE /\ passed' = FALSE
  /\ UNCHANGED <<air, badgeVars, emitted, burst, heard, missVars>>

-----------------------------------------------------------------------------
(***************************************************************************)
(* A frame is given to the renderer.  The pulse the handler remembers, as  *)
(* long as copies of it may come; it is what another pulse dislodges.      *)
(***************************************************************************)
Shows(f) == shown' = [shown EXCEPT ![f.id] = IF @ = 1 THEN 2 ELSE 1]

Remembered == {f.id : f \in {g \in air : g.kind = "pulse" /\ g.number = paint_key}}

(***************************************************************************)
(* A variant to test the properties with: the handler does not ask what it *)
(* painted last.                                                           *)
(***************************************************************************)
FastPaintsAll(f) == f.kind = "pulse"

FastPaints(f) == f.kind = "pulse" /\ f.number # paint_key

(***************************************************************************)
(* The interrupt handler is given a copy of a pulse.  It asks neither the  *)
(* lock nor the ring.                                                      *)
(***************************************************************************)
Paint(f) ==
  /\ f \in air
  /\ FastPaints(f)
  /\ Shows(f)
  /\ paint_key' = f.number
  /\ unguarded' = (unguarded \cup Remembered) \ {f.id}
  /\ UNCHANGED <<directorVars, air, lock, ringVars, swallowed, countVars, heard, missVars>>

(***************************************************************************)
(* So it does for a pulse of some other Director, which the badge does not *)
(* follow.                                                                 *)
(***************************************************************************)
PaintOther ==
  /\ paint_key' = 0
  /\ unguarded' = unguarded \cup Remembered
  /\ UNCHANGED <<directorVars, air, lock, ringVars, shown, swallowed, countVars,
                 heard, missVars>>

(***************************************************************************)
(* What the receive loop renders: what is neither a duplicate to the ring  *)
(* nor the pulse that the handler painted last.                            *)
(***************************************************************************)
Renders(f) ==
  /\ f.kind # "heartbeat"
  /\ ~IsSeen(ring, f.number)
  /\ ~(f.kind = "pulse" /\ f.number = paint_key)

(***************************************************************************)
(* The receive loop has a copy of a frame in its hands: the lock, the      *)
(* ring, and the rendering.  A pulse that it renders itself is not what    *)
(* the handler remembers, which may paint it once more.                    *)
(***************************************************************************)
Hear(f) ==
  /\ f \in air
  /\ Admits(lock, Director, CHANNEL)
  /\ lock' = AfterAdmit(lock, Director, CHANNEL)
  /\ Seen(f.number)
  /\ IF Renders(f)
     THEN Shows(f) /\ unguarded' = unguarded \cup ({f.id} \cap Pulses)
     ELSE UNCHANGED <<shown, unguarded>>
  /\ swallowed' = IF f.kind # "heartbeat" /\ f \notin heard /\ shown'[f.id] = 0
                  THEN swallowed + 1 ELSE swallowed
  /\ heard' = heard \cup {f}
  /\ IF f \in heard THEN UNCHANGED missVars
     ELSE lost' = 0 /\ failed' = 0 /\ off' = FALSE
  /\ UNCHANGED <<directorVars, air, paint_key, countVars>>

(***************************************************************************)
(* No copy of the frame is on its way any more, and what is recorded of    *)
(* its rendering is forgotten.                                             *)
(***************************************************************************)
Fade(f) ==
  /\ f \in air
  /\ IF f \in heard THEN UNCHANGED lost
     ELSE lost + failed < LOSSES /\ lost' = lost + 1
  /\ air' = air \ {f}
  /\ heard' = heard \ {f}
  /\ unguarded' = unguarded \ {f.id} /\ shown' = [shown EXCEPT ![f.id] = 0]
  /\ UNCHANGED <<directorVars, lock, ringVars, paint_key, swallowed, countVars, failed,
                 off>>

(***************************************************************************)
(* The badge's receive loop looks after the lock.                          *)
(***************************************************************************)
TickBadge ==
  /\ lock' = TickLock(lock)
  /\ UNCHANGED <<directorVars, air, ringVars, lightVars, swallowed, countVars, heard,
                 missVars>>

Elapse ==
  /\ air = {}
  /\ session => passed
  /\ passed' = FALSE
  /\ director' = AgeDispatcher(director)
  /\ lock' = AgeLock(lock)
  /\ burst' = 0
  /\ off' = (off \/ ~session)
  /\ UNCHANGED <<session, air, ringVars, lightVars, swallowed, emitted, restarts,
                 heard, lost, failed>>

Next ==
  \/ Fire \/ LoopPasses \/ EnterSession \/ LeaveSession \/ Restart
  \/ \E f \in air : Paint(f) \/ Hear(f) \/ Fade(f)
  \/ PaintOther \/ TickBadge \/ Elapse

Spec == Init /\ [][Next]_vars

-----------------------------------------------------------------------------
TypeOK ==
  /\ director \in Dispatchers /\ session \in BOOLEAN /\ passed \in BOOLEAN
  /\ air \subseteq Frames /\ heard \subseteq air
  /\ lock \in Locks /\ RingTypeOK
  /\ emitted \in 0 .. MaxFrames /\ burst \in 0 .. BURST
  /\ paint_key \in 0 .. SEQ_MAX
  /\ shown \in [Ids -> 0 .. 2] /\ unguarded \subseteq Pulses
  /\ swallowed \in Nat
  /\ lost \in 0 .. LOSSES /\ failed \in 0 .. LOSSES /\ off \in BOOLEAN
  /\ restarts \in 0 .. MaxRestarts

(***************************************************************************)
(* Numbers, ring and the handler's one-place memory together give what     *)
(* AtMostOnce promises, across the wrap of the sequence number, losses,    *)
(* duplicates, reordering and restarts of the Director: an effect that is  *)
(* no pulse is rendered once or not at all, and so is a pulse, unless      *)
(* another pulse took its place in the handler's memory while copies of it *)
(* were about, or the loop rendered it without the handler's knowledge.    *)
(***************************************************************************)
Promise == INSTANCE AtMostOnce WITH last <- emitted, live <- Effects, pulses <- Pulses

EffectsAtMostOnce == Promise!Spec

(***************************************************************************)
(* Until the numbers come round, an effect is taken for one already shown  *)
(* only on account of a restart, after which they start anew while the     *)
(* ring still holds those from before and the handler the one it painted   *)
(* last: a restart costs a ringful of effects and one more at most.        *)
(***************************************************************************)
RestartLosesFew ==
  emitted <= SEQ_MAX => swallowed <= restarts * (CAPACITY + 1)

(***************************************************************************)
(* Effects and heartbeats together keep the lock fresh: while the Director *)
(* is in session the badge hears nothing of it for no longer than an       *)
(* interval, another for every frame that was lost on the way, and a unit  *)
(* for every time the radio refused.                                       *)
(***************************************************************************)
HeardOften ==
  lock.locked = Director /\ ~off => lock.silent <= INTERVAL * (1 + lost) + failed

=============================================================================
