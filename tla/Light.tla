------------------------------- MODULE Light --------------------------------
(***************************************************************************)
(* The LED ring of a badge between its Director, its own fall-back and its *)
(* operator (app.py, signal_tracker.py).  When the Director falls silent   *)
(* the receive loop shows a wash of its own, fades it out after a while    *)
(* and ends it when the Director is back.  The interrupt handler paints    *)
(* pulses without asking the loop, and goes on doing so while the operator *)
(* has the settings open or has just stopped the badge.                    *)
(*                                                                         *)
(* Whether a frame is admitted and whether it is a duplicate are left      *)
(* open: module ReceivePath is about them.  So is the moment of the next   *)
(* regular repaint.  The session runs on a channel already chosen, frames  *)
(* are for the ring and for this badge's group, and a call of the renderer *)
(* is taken to be one step.                                                *)
(***************************************************************************)
EXTENDS Wash, Sequences

CONSTANTS
  Keys,                 \* (source id, sequence number) of the pulses
  OnAir,                \* the frames that may come in
  None,
  FALLBACK_ENTER,       \* the silence after which the fall-back wash is shown
  FALLBACK_FADE_START,  \* and after which it is faded out
  FALLBACK_ATTACK, FALLBACK_RELEASE, FALLBACK_FADE, FALLBACK_RECOVERY,
                        \* durations of its phases
  DRAIN_LIMIT,          \* frames handled in one pass of the loop, 16 in the code
  MaxPending            \* bound on the frames queued; not part of the code

Pulse(key) == [kind |-> "pulse", key |-> key]
Overlay == [kind |-> "overlay"]
Heartbeat == [kind |-> "heartbeat"]
WashFrame(f) == [kind |-> "wash", of |-> f]
WashEnd(time) == [kind |-> "end", release |-> time]

LightFrames ==
  {Pulse(k) : k \in Keys} \cup {Overlay, Heartbeat}
    \cup {WashFrame(w) : w \in {v \in WashFrames : ~v.synthetic}}
    \cup {WashEnd(t) : t \in WashTimes}

Synthetic == [synthetic |-> TRUE, attack |-> FALLBACK_ATTACK, ttl |-> 0,
              release |-> FALLBACK_RELEASE, response |-> FALSE]

ASSUME FallbackAssumption ==
  /\ FALLBACK_ENTER \in Nat
  /\ FALLBACK_FADE_START \in Nat /\ FALLBACK_FADE_START >= FALLBACK_ENTER
  /\ Synthetic \in WashFrames
  /\ {FALLBACK_FADE, FALLBACK_RECOVERY} \subseteq WashTimes

ASSUME OnAirAssumption ==
  /\ None \notin Nat
  /\ DRAIN_LIMIT \in Nat \ {0} /\ MaxPending \in Nat
  /\ None \notin Keys
  /\ OnAir \subseteq LightFrames

VARIABLES
  mode,       \* _mode: "idle" or "lume"
  radio,      \* _radio_held: frames can come in
  menu,       \* _settings_open
  pending,    \* _pending_msgs
  stage,      \* where the receive loop is
  frame,      \* the frame in its hand
  duplicate,  \* whether that is a copy of an earlier one
  drained,    \* frames handled in this pass
  since,      \* time since the last admitted frame, None when there is none
  fallback,   \* _fallback_active and _fallback_faded
  wash,
  pulse,      \* time left of the pulses laid on the ring
  force,      \* _render_force_paint
  leds,       \* whether the ring was last written with a LED lit
  paint_key,  \* _fast_paint_last_key
  (* History. *)
  accepted    \* whether the renderer took the pulse the handler gave it last

queue == <<pending, radio>>
loop == <<stage, frame, duplicate, drained>>
silence == <<since, fallback>>
ring == <<wash, pulse, force, leds>>
handler == <<paint_key, accepted>>
operator == <<mode, menu>>
vars == <<operator, queue, loop, silence, ring, handler>>

NoFrame == [kind |-> "none"]

Init ==
  /\ mode = "lume" /\ radio = FALSE /\ menu = FALSE
  /\ pending = <<>>
  /\ stage = "asleep" /\ frame = NoFrame /\ duplicate = FALSE /\ drained = 0
  /\ since = None /\ fallback = "none"
  /\ wash = Off /\ pulse = 0 /\ force = FALSE /\ leds = FALSE
  /\ paint_key = None /\ accepted = TRUE

-----------------------------------------------------------------------------
(***************************************************************************)
(* The interrupt handler: every frame is queued, and a pulse is given to   *)
(* the renderer and painted at once, whatever the badge is doing.          *)
(***************************************************************************)
Queue(f) ==
  /\ radio
  /\ Len(pending) < MaxPending
  /\ pending' = Append(pending, f)

Interrupt(f) ==
  /\ Queue(f)
  /\ ~(f.kind = "pulse" /\ f.key # paint_key)
  /\ UNCHANGED <<radio, operator, loop, silence, ring, handler>>

FastPaint(f) ==
  /\ Queue(f)
  /\ f.kind = "pulse" /\ f.key # paint_key
  /\ pulse' \in Dispatched(wash, pulse)
  /\ wash' = Advance(wash)
  /\ leds' = Lit(wash', pulse')
  /\ paint_key' = f.key
  /\ accepted' = ~Swallows(wash)
  /\ UNCHANGED <<radio, operator, loop, silence, force>>

-----------------------------------------------------------------------------
(***************************************************************************)
(* A pass of the receive loop.                                             *)
(***************************************************************************)
Wake ==
  /\ stage = "asleep" /\ mode = "lume" /\ radio
  /\ stage' = "draining"
  /\ UNCHANGED <<operator, queue, frame, duplicate, drained, silence, ring, handler>>

(***************************************************************************)
(* A variant to test the properties with: a pass takes one frame too many. *)
(***************************************************************************)
TakeOneMore ==
  /\ stage = "draining" /\ pending # <<>> /\ drained <= DRAIN_LIMIT
  /\ pending' = Tail(pending)
  /\ drained' = drained + 1

Take ==
  /\ stage = "draining" /\ pending # <<>> /\ drained < DRAIN_LIMIT
  /\ pending' = Tail(pending)
  /\ drained' = drained + 1

Reject == Take /\ UNCHANGED <<operator, radio, stage, frame, duplicate, silence, ring, handler>>

(***************************************************************************)
(* Variants to test the properties with: the flags are lowered and the     *)
(* wash is left on; every frame that ends a silence ends a wash.           *)
(***************************************************************************)
RecoverNothing == UNCHANGED wash

RecoverAlways == wash' = End(wash, FALLBACK_RECOVERY)

(***************************************************************************)
(* The first half of _observe_frame(): any admitted frame, copies          *)
(* included, shows that the Director is there and ends the fall-back wash. *)
(***************************************************************************)
Recover == wash' = IF fallback # "none" THEN End(wash, FALLBACK_RECOVERY) ELSE wash

Observe ==
  /\ Take
  /\ stage' = "observed"
  /\ frame' = Head(pending)
  /\ duplicate' \in BOOLEAN
  /\ since' = 0
  /\ fallback' = "none"
  /\ Recover
  /\ UNCHANGED <<operator, radio, pulse, force, leds, handler>>

(***************************************************************************)
(* The second half: what is not a copy goes to the renderer, except the    *)
(* pulse the handler painted last.                                         *)
(***************************************************************************)
Handled(f) == f.kind = "pulse" /\ f.key = paint_key

PutDown ==
  /\ stage = "observed"
  /\ stage' = "draining" /\ frame' = NoFrame /\ duplicate' = FALSE
  /\ UNCHANGED <<operator, queue, drained, silence, leds, handler>>

Skip ==
  /\ PutDown
  /\ duplicate \/ Handled(frame) \/ frame = Heartbeat
  /\ UNCHANGED <<wash, pulse, force>>

RenderPulse ==
  /\ PutDown
  /\ ~duplicate
  /\ \/ frame.kind = "pulse" /\ ~Handled(frame) /\ pulse' \in Dispatched(wash, pulse)
     \/ frame = Overlay /\ pulse' \in Overlaid(wash, pulse)
  /\ force' = TRUE
  /\ UNCHANGED wash

RenderWash ==
  /\ PutDown
  /\ ~duplicate
  /\ \/ frame.kind = "wash" /\ wash' = Begin(frame.of)
     \/ frame.kind = "end" /\ wash' = End(wash, frame.release)
  /\ UNCHANGED <<pulse, force>>

(***************************************************************************)
(* _evaluate_fallback(), once no frame is left or the pass is over.        *)
(***************************************************************************)
Enters == fallback = "none" /\ since # None /\ since > FALLBACK_ENTER

Fades ==
  /\ fallback = "shown" \/ Enters
  /\ since # None /\ since > FALLBACK_FADE_START

(***************************************************************************)
(* A variant to test the properties with: fading resets the fall-back.     *)
(***************************************************************************)
FlagsForgotten == CASE Fades -> "none" [] Enters -> "shown" [] OTHER -> fallback

FallbackFlags == CASE Fades -> "faded" [] Enters -> "shown" [] OTHER -> fallback

EvaluateFallback ==
  /\ stage = "draining"
  /\ pending = <<>> \/ drained = DRAIN_LIMIT
  /\ LET shown == IF Enters THEN Begin(Synthetic) ELSE wash
     IN  wash' = IF Fades THEN End(shown, FALLBACK_FADE) ELSE shown
  /\ fallback' = FallbackFlags
  /\ stage' = "evaluated" /\ drained' = 0
  /\ UNCHANGED <<operator, queue, frame, duplicate, since, pulse, force, leds, handler>>

(***************************************************************************)
(* The repaint at the end of a pass: when a pulse asks for it, or when it  *)
(* is due; never under the settings menu.                                  *)
(***************************************************************************)
Paint ==
  /\ stage = "evaluated" /\ ~menu
  /\ wash' = Advance(wash)
  /\ leds' = Lit(wash', pulse)
  /\ force' = FALSE
  /\ stage' = "asleep"
  /\ UNCHANGED <<operator, queue, frame, duplicate, drained, silence, pulse, handler>>

NotDue ==
  /\ stage = "evaluated"
  /\ menu \/ ~force
  /\ stage' = "asleep"
  /\ UNCHANGED <<operator, queue, frame, duplicate, drained, silence, ring, handler>>

-----------------------------------------------------------------------------
(***************************************************************************)
(* The operator, whose turn comes when the loop sleeps.  Both clear the    *)
(* renderer and darken the ring; only stopping forgets the fall-back.      *)
(***************************************************************************)
Darken == wash' = Off /\ pulse' = 0 /\ leds' = FALSE

OpenSettings ==
  /\ stage = "asleep" /\ ~menu
  /\ menu' = TRUE
  /\ Darken
  /\ UNCHANGED <<mode, queue, loop, silence, force, handler>>

CloseSettings ==
  /\ stage = "asleep" /\ menu
  /\ menu' = FALSE
  /\ UNCHANGED <<mode, queue, loop, silence, ring, handler>>

StopToIdle ==
  /\ stage = "asleep" /\ ~menu /\ mode = "lume"
  /\ mode' = "idle"
  /\ fallback' = "none"
  /\ Darken
  /\ UNCHANGED <<menu, queue, loop, since, force, handler>>

StartLume ==
  /\ stage = "asleep" /\ ~menu /\ mode = "idle"
  /\ mode' = "lume"
  /\ UNCHANGED <<menu, queue, loop, silence, ring, handler>>

(***************************************************************************)
(* The radio follows the mode (module Sessions).                           *)
(***************************************************************************)
AcquireRadio ==
  /\ mode = "lume" /\ ~radio
  /\ radio' = TRUE
  /\ since' = None
  /\ UNCHANGED <<operator, pending, loop, fallback, ring, handler>>

ReleaseRadio ==
  /\ mode = "idle" /\ radio
  /\ radio' = FALSE
  /\ UNCHANGED <<operator, pending, loop, silence, ring, handler>>

(***************************************************************************)
(* A unit of time.  Silence is not told apart beyond the last edge.        *)
(***************************************************************************)
Elapse ==
  /\ since' = IF since = None \/ since > FALLBACK_FADE_START THEN since ELSE since + 1
  /\ wash' = AgeWash(wash)
  /\ pulse' = Less(pulse)
  /\ UNCHANGED <<operator, queue, loop, fallback, force, leds, handler>>

Next ==
  \/ \E f \in OnAir : Interrupt(f) \/ FastPaint(f)
  \/ Wake \/ Reject \/ Observe \/ Skip \/ RenderPulse \/ RenderWash
  \/ EvaluateFallback \/ Paint \/ NotDue
  \/ OpenSettings \/ CloseSettings \/ StopToIdle \/ StartLume
  \/ AcquireRadio \/ ReleaseRadio
  \/ Elapse

(***************************************************************************)
(* The loop only ever awaits a sleep of 5 ms; of its passes one in ten is  *)
(* due to repaint.  Nobody is obliged to send or to press a button.        *)
(***************************************************************************)
Pass == Wake \/ Reject \/ Observe \/ Skip \/ RenderPulse \/ RenderWash \/ EvaluateFallback \/ NotDue \/ Paint

Fairness == WF_vars(Pass) /\ SF_vars(Paint) /\ WF_vars(AcquireRadio) /\ WF_vars(Elapse)

Spec == Init /\ [][Next]_vars /\ Fairness

-----------------------------------------------------------------------------
TypeOK ==
  /\ mode \in {"idle", "lume"} /\ radio \in BOOLEAN /\ menu \in BOOLEAN
  /\ pending \in Seq(OnAir) /\ Len(pending) <= MaxPending
  /\ stage \in {"asleep", "draining", "observed", "evaluated"}
  /\ frame \in OnAir \cup {NoFrame} /\ (frame = NoFrame <=> stage # "observed")
  /\ duplicate \in BOOLEAN /\ drained \in 0 .. DRAIN_LIMIT
  /\ since \in {None} \cup 0 .. FALLBACK_FADE_START + 1
  /\ fallback \in {"none", "shown", "faded"}
  /\ wash \in Washes /\ wash.age <= AgeLimit(wash)
  /\ pulse \in 0 .. PULSE /\ force \in BOOLEAN /\ leds \in BOOLEAN
  /\ paint_key \in Keys \cup {None}
  /\ accepted \in BOOLEAN

(***************************************************************************)
(* The fall-back wash, which swallows pulses, is held only while it is due *)
(* and not yet fading: through any order of frames, passes and operator's  *)
(* calls it never stands in the way of a Director that is back.            *)
(***************************************************************************)
Silent == since # None /\ since > FALLBACK_ENTER

SyntheticOnlyInSilence ==
  Washing(wash) /\ wash.of.synthetic => Silent /\ fallback = "shown"

(***************************************************************************)
(* The badge takes a Director's wash off only for a reason: its end was    *)
(* heard, it has expired, its Director has gone silent, or the operator    *)
(* cleared the ring.  No remnant of a fall-back ends it.                   *)
(***************************************************************************)
FromDirector(w) == Washing(w) /\ ~w.of.synthetic

DirectorsWashIsKept ==
  [][FromDirector(wash) /\ ~FromDirector(wash') =>
       \/ stage = "observed" /\ frame.kind = "end"
       \/ Expired(wash)
       \/ Silent
       \/ <<mode, menu>>' # <<mode, menu>>]_vars

(***************************************************************************)
(* A venue without a Director is dark in the end: whatever washes, pulses  *)
(* and fall-back were on the ring when the last frame came in, they fade   *)
(* and do not come back.                                                   *)
(***************************************************************************)
Followed == mode = "lume" /\ ~menu

SilenceGoesDark ==
  <>[](Followed /\ pending = <<>>) => <>[](~leds)

(***************************************************************************)
(* A wash whose end was lost does not stay for ever, although the Director *)
(* goes on sending pulses and heartbeats and so is never missed.           *)
(***************************************************************************)
NoWashComing ==
  \A f \in {frame} \cup {pending[i] : i \in DOMAIN pending} : f.kind \notin {"wash", "end"}

LostEndIsSurvived ==
  <>[](Followed /\ fallback = "none" /\ NoWashComing) => <>[](wash = Off)

(***************************************************************************)
(* "Skip perimeter dispatch + force_paint if the IRQ fast path has already *)
(* put this exact pulse on the LEDs.  Renderer state is already correct"   *)
(* (app.py:2610-2612): a pulse the loop skips, and could show, is shown.   *)
(***************************************************************************)
SkippedIsShown ==
  stage = "observed" /\ ~duplicate /\ Handled(frame) /\ ~menu /\ ~Swallows(wash) => accepted

(***************************************************************************)
(* "Clear in-flight envelopes so the LEDs don't hold a stale brightness    *)
(* while _render_perimeter() stops ticking" (app.py:943-944): nothing is   *)
(* left on the ring under the settings menu.                               *)
(***************************************************************************)
DarkUnderMenu == menu => ~leds

=============================================================================
