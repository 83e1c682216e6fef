---------------------------- MODULE ReceivePath ----------------------------
(***************************************************************************)
(* What becomes of a frame once the radio of a badge in Lume mode has it   *)
(* (app.py).  Two contexts share the work.  The interrupt handler, which   *)
(* the interpreter may run between any two bytecodes of the rest, queues   *)
(* the frame, paints a pulse straight to the LED ring and relays a copy if *)
(* the repeater's gate is open.  The receive loop later takes the frame    *)
(* off the queue and does everything else: the TOFU lock, deduplication,   *)
(* the repeater, and the rendering the handler did not do.                 *)
(*                                                                         *)
(* The session runs on a channel already chosen, with the handler          *)
(* installed.  A frame stands for one that parses.  Of the renderer only   *)
(* which pulse it was last given is kept; Pulses are the pairs that belong *)
(* to a LIGHT_PULSE for the perimeter and for this badge's group.          *)
(***************************************************************************)
EXTENDS Repeater, DedupRing, TofuLock, FiniteSets

CONSTANTS
  OnAir,           \* the frames that may come in
  SourceOf,        \* the source id of a pair
  Pulses,          \* the pairs that are pulses for the LED ring
  RECEIVE_CHANNEL,
  REPEAT,          \* the Repeat setting: "AUTO" or "OFF"
  DRAIN_LIMIT,     \* frames handled in one pass of the loop, 16 in the code
  MaxInFlight      \* bound on the frames and interrupts waiting; not part of the code

ASSUME AirAssumption ==
  /\ OnAir \subseteq Frames
  /\ SourceOf \in [Keys -> Sources] /\ None \notin Keys
  /\ Pulses \subseteq Keys
  /\ RECEIVE_CHANNEL \in Channels
  /\ REPEAT \in {"AUTO", "OFF"}
  /\ DRAIN_LIMIT \in Nat \ {0} /\ MaxInFlight \in Nat

(***************************************************************************)
(* PEER_WATCH_MS is 100, the lock's time-out 10000.                        *)
(***************************************************************************)
ASSUME WatchAssumption == PEER_WATCH <= TIMEOUT

VARIABLES
  rxbuf,      \* frames the driver holds
  callbacks,  \* interrupts scheduled for them
  pending,    \* _pending_msgs
  stage,      \* where the receive loop is with the frame in its hand
  frame,      \* that frame
  duplicate,  \* what the deduplication ring said of it
  drained,    \* frames handled in this pass
  tofu, seen,
  paint_key,  \* _fast_paint_last_key
  (* History. *)
  rescanned,  \* watches from before an operator's rescan may be left
  given_up,   \* the operator rescanned since the lock last took a Director
  painted     \* for each pulse, whether the handler and how often the loop
              \* gave it to the renderer

radio == <<rxbuf, callbacks>>
loop == <<stage, frame, duplicate, drained>>
books == <<tofu, seen, repeater, rescanned, given_up>>
vars == <<rxbuf, callbacks, pending, stage, frame, duplicate, drained,
          tofu, seen, repeater, paint_key, rescanned, given_up, painted>>

NoFrame == [key |-> None, hop |-> 0]
NoKey == None

Init ==
  /\ rxbuf = <<>> /\ callbacks = 0 /\ pending = <<>>
  /\ stage = "poll" /\ frame = NoFrame /\ duplicate = FALSE /\ drained = 0
  /\ tofu = Unlocked /\ seen = <<>> /\ repeater = NewRepeater(Closed)
  /\ paint_key = NoKey
  /\ rescanned = FALSE /\ given_up = FALSE
  /\ painted = [k \in Pulses |-> [handler |-> FALSE, loop |-> 0]]

(***************************************************************************)
(* The count of the loop's renderings stops at 2, which is enough to tell  *)
(* "once" from "more than once".                                           *)
(***************************************************************************)
OneMore(n) == IF n < 2 THEN n + 1 ELSE n

-----------------------------------------------------------------------------
(***************************************************************************)
(* The radio: a frame is put in the driver's buffer and an interrupt is    *)
(* scheduled.                                                              *)
(***************************************************************************)
Arrive(f) ==
  /\ Len(rxbuf) + Len(pending) < MaxInFlight /\ callbacks < MaxInFlight
  /\ rxbuf' = Append(rxbuf, f)
  /\ callbacks' = callbacks + 1
  /\ UNCHANGED <<pending, loop, books, paint_key, painted>>

(***************************************************************************)
(* The interrupt handler.  Its paint is filtered by a cache of one pair.   *)
(* What it relays depends on the gate alone, whatever the sender and       *)
(* however often the frame was heard, and changes no state of the badge;   *)
(* module Repeater is about the gate.                                      *)
(***************************************************************************)
FastPaints(f) == f.key \in Pulses /\ f.key # paint_key

Interrupt ==
  /\ callbacks > 0
  /\ rxbuf # <<>>
  /\ LET f == Head(rxbuf)
     IN  /\ pending' = Append(pending, f)
         /\ paint_key' = IF FastPaints(f) THEN f.key ELSE paint_key
         /\ painted' = IF FastPaints(f)
                       THEN [painted EXCEPT ![f.key].handler = TRUE] ELSE painted
  /\ rxbuf' = Tail(rxbuf)
  /\ callbacks' = callbacks - 1
  /\ UNCHANGED <<loop, books>>

(***************************************************************************)
(* The loop was faster and took the frame itself.                          *)
(***************************************************************************)
LateInterrupt ==
  /\ callbacks > 0
  /\ rxbuf = <<>>
  /\ callbacks' = callbacks - 1
  /\ UNCHANGED <<rxbuf, pending, loop, books, paint_key, painted>>

-----------------------------------------------------------------------------
(***************************************************************************)
(* A variant to test the properties with: a pass takes one frame too many. *)
(***************************************************************************)
TakeOneMore ==
  /\ stage = "poll" /\ drained <= DRAIN_LIMIT
  /\ pending # <<>>
  /\ frame' = Head(pending) /\ pending' = Tail(pending)
  /\ stage' = "taken"
  /\ drained' = drained + 1
  /\ UNCHANGED <<radio, duplicate, books, paint_key, painted>>

(***************************************************************************)
(* The receive loop takes a frame from the handler's queue or, finding     *)
(* that empty, from the driver.                                            *)
(***************************************************************************)
Take ==
  /\ stage = "poll"
  /\ drained < DRAIN_LIMIT
  /\ \/ /\ pending # <<>>
        /\ frame' = Head(pending) /\ pending' = Tail(pending)
        /\ UNCHANGED rxbuf
     \/ /\ pending = <<>> /\ rxbuf # <<>>
        /\ frame' = Head(rxbuf) /\ rxbuf' = Tail(rxbuf)
        /\ UNCHANGED pending
  /\ stage' = "taken"
  /\ drained' = drained + 1
  /\ UNCHANGED <<callbacks, duplicate, books, paint_key, painted>>

(***************************************************************************)
(* The frame in hand has been dealt with.                                  *)
(***************************************************************************)
PutDown == stage' = "poll" /\ frame' = NoFrame /\ duplicate' = FALSE

Reject ==
  /\ stage = "taken"
  /\ ~Admits(tofu, SourceOf[frame.key], RECEIVE_CHANNEL)
  /\ PutDown
  /\ UNCHANGED <<radio, pending, drained, books, paint_key, painted>>

StillRescanned == rescanned /\ repeater'.watches # <<>>

(***************************************************************************)
(* Deduplication, and the repeater, which is shown duplicates as well.     *)
(* The handler has relayed already, so the repeater's own sending is       *)
(* skipped and cannot fail.                                                *)
(***************************************************************************)
Observe ==
  /\ stage = "taken"
  /\ Admits(tofu, SourceOf[frame.key], RECEIVE_CHANNEL)
  /\ tofu' = AfterAdmit(tofu, SourceOf[frame.key], RECEIVE_CHANNEL)
  /\ duplicate' = IsSeen(seen, frame.key)
  /\ seen' = Remember(seen, frame.key)
  /\ IF REPEAT = "AUTO"
     THEN \E candidacy \in CANDIDATE_FRAMES, cooldown \in COOLDOWN_FRAMES :
            repeater' =
              OnAdmittedFrame(repeater, frame, duplicate', TRUE, candidacy, cooldown)
     ELSE UNCHANGED repeater
  /\ rescanned' = StillRescanned /\ given_up' = FALSE
  /\ stage' = "observed"
  /\ UNCHANGED <<radio, pending, frame, drained, paint_key, painted>>

(***************************************************************************)
(* Variants to test the properties with: once the handler paints, the loop *)
(* leaves every pulse to it; the loop does not ask the deduplication ring. *)
(***************************************************************************)
LoopPaintsUnlessHandlerDoes ==
  ~duplicate /\ frame.key \in Pulses /\ paint_key = NoKey

LoopPaintsDuplicates == frame.key \in Pulses /\ frame.key # paint_key

(***************************************************************************)
(* Rendering, unless the frame is a duplicate or the pulse the handler     *)
(* painted last.                                                           *)
(***************************************************************************)
LoopPaints == ~duplicate /\ frame.key \in Pulses /\ frame.key # paint_key

Render ==
  /\ stage = "observed"
  /\ painted' = IF LoopPaints THEN [painted EXCEPT ![frame.key].loop = OneMore(@)]
                ELSE painted
  /\ PutDown
  /\ UNCHANGED <<radio, pending, drained, books, paint_key>>

(***************************************************************************)
(* The end of a pass: the time-outs of the lock and of the repeater.       *)
(***************************************************************************)
Sweep ==
  /\ stage = "poll"
  /\ drained = DRAIN_LIMIT \/ (pending = <<>> /\ rxbuf = <<>>)
  /\ tofu' = TickLock(tofu)
  /\ IF REPEAT = "AUTO"
     THEN RepeaterTick
     ELSE UNCHANGED repeater
  /\ rescanned' = StillRescanned
  /\ drained' = 0
  /\ UNCHANGED <<radio, pending, stage, frame, duplicate, seen, paint_key,
                 given_up, painted>>

(***************************************************************************)
(* The operator's Rescan gives up the lock and nothing else.               *)
(***************************************************************************)
Rescan ==
  /\ stage = "poll" /\ drained = 0
  /\ tofu' = Unlocked
  /\ rescanned' = (repeater.watches # <<>>) /\ given_up' = TRUE
  /\ UNCHANGED <<radio, pending, loop, seen, repeater, paint_key, painted>>

Elapse ==
  /\ tofu' = AgeLock(tofu)
  /\ repeater' = IF REPEAT = "AUTO" THEN Age(repeater) ELSE repeater
  /\ UNCHANGED <<radio, pending, loop, seen, paint_key, rescanned, given_up, painted>>

LoopStep == Take \/ Reject \/ Observe \/ Render \/ Sweep

Next ==
  \/ \E f \in OnAir : Arrive(f)
  \/ Interrupt \/ LateInterrupt
  \/ LoopStep
  \/ Rescan
  \/ Elapse

Spec == Init /\ [][Next]_vars

-----------------------------------------------------------------------------
TypeOK ==
  /\ rxbuf \in Seq(OnAir) /\ pending \in Seq(OnAir)
  /\ Len(rxbuf) + Len(pending) <= MaxInFlight
  /\ callbacks \in Len(rxbuf) .. MaxInFlight
  /\ stage \in {"poll", "taken", "observed"}
  /\ frame \in OnAir \cup {NoFrame} /\ (frame = NoFrame <=> stage = "poll")
  /\ duplicate \in BOOLEAN
  /\ drained \in 0 .. DRAIN_LIMIT
  /\ tofu \in Locks /\ repeater \in Repeaters
  /\ seen \in Seq(Keys \ Unsequenced) /\ Len(seen) <= CAPACITY
  /\ paint_key \in Pulses \cup {NoKey}
  /\ rescanned \in BOOLEAN /\ given_up \in BOOLEAN
  /\ painted \in [Pulses -> [handler : BOOLEAN, loop : 0 .. 2]]

(***************************************************************************)
(* No pulse falls between the two contexts: one that the deduplication     *)
(* ring has let through has been given to the renderer by the handler or   *)
(* by the loop, even when the handler painted another pulse in between.    *)
(***************************************************************************)
InHand(k) == stage = "observed" /\ ~duplicate /\ frame.key = k

EveryFreshPulseIsPainted ==
  \A k \in Pulses :
    Holds(seen, k) /\ ~InHand(k) => painted[k].handler \/ painted[k].loop >= 1

(***************************************************************************)
(* The deduplication ring has room for every pair there is, so that it     *)
(* forgets none.                                                           *)
(***************************************************************************)
RingHoldsAll ==
  IsFiniteSet(Keys \ Unsequenced) /\ Cardinality(Keys \ Unsequenced) <= CAPACITY

(***************************************************************************)
(* The loop renders a numbered pulse once at most, in whatever order and   *)
(* number its copies are taken, as long as the ring has room for all.      *)
(***************************************************************************)
LoopRendersOnce ==
  RingHoldsAll =>
    \A k \in Pulses \ Unsequenced : painted[k].loop <= 1

(***************************************************************************)
(* The repeater watches for the relays of one Director at a time: when the *)
(* lock has passed to another, no watch is left of the one before, so the  *)
(* badge never stands for a hop on account of a Director it has let go.    *)
(* A rescan by the operator does leave watches behind, for as long as a    *)
(* watch lasts.                                                            *)
(***************************************************************************)
WatchesFollowLock ==
  ~rescanned =>
    \A i \in DOMAIN repeater.watches : SourceOf[repeater.watches[i].key] = tofu.locked

=============================================================================
