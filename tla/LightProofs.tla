---------------------------- MODULE LightProofs -----------------------------
(***************************************************************************)
(* The fall-back wash is held only in silence, and a Director's wash is    *)
(* taken off only for a reason, for all durations, edges and frames.       *)
(*                                                                         *)
(* Neither can be shown of a step without knowing that the flags of the    *)
(* fall-back are up only in silence (FlagsOnlyInSilence) and only while    *)
(* the badge has its radio and follows (AtWork): it is the operator's stop *)
(* that lowers them, long before a new session resets the silence.         *)
(***************************************************************************)
EXTENDS Light, TLAPS

FlagsOnlyInSilence == fallback # "none" => Silent

AtWork ==
  /\ stage # "asleep" => mode = "lume" /\ radio
  /\ mode = "idle" \/ ~radio =>
       fallback = "none" /\ ~(Washing(wash) /\ wash.of.synthetic)

IInv == TypeOK /\ SyntheticOnlyInSilence /\ FlagsOnlyInSilence /\ AtWork

-----------------------------------------------------------------------------
(***************************************************************************)
(* What the frames on the air carry.                                       *)
(***************************************************************************)
LEMMA FrameKinds ==
  ASSUME NEW f \in OnAir
  PROVE  /\ f # NoFrame /\ f.kind # "none"
         /\ f.kind = "pulse" => f.key \in Keys
         /\ f.kind = "wash" => f.of \in WashFrames /\ ~f.of.synthetic
         /\ f.kind = "end" => f.release \in WashTimes
<1>1. f \in LightFrames
  BY OnAirAssumption
<1>2. CASE \E k \in Keys : f = Pulse(k)
  BY <1>2 DEF Pulse, NoFrame
<1>3. CASE f \in {Overlay, Heartbeat}
  BY <1>3 DEF Overlay, Heartbeat, NoFrame
<1>4. CASE \E w \in {v \in WashFrames : ~v.synthetic} : f = WashFrame(w)
  BY <1>4 DEF WashFrame, NoFrame
<1>5. CASE \E t \in WashTimes : f = WashEnd(t)
  BY <1>5 DEF WashEnd, NoFrame
<1> QED
  BY <1>1, <1>2, <1>3, <1>4, <1>5 DEF LightFrames

(***************************************************************************)
(* The operators on a wash keep its type and its age within its limit, and *)
(* none of them but Begin makes a wash that is held out of one that is not.*)
(***************************************************************************)
GoodWash(w) == w \in Washes /\ w.age <= AgeLimit(w)

LEMMA WashFields ==
  ASSUME NEW w \in Washes
  PROVE  /\ w.of \in WashFrames /\ w.age \in Nat /\ w.left \in Nat
         /\ w.of.ttl \in Nat /\ w.of.attack \in Nat /\ w.of.release \in Nat
         /\ AgeLimit(w) \in Nat
BY WashAssumption DEF Washes, WashFrames, AgeLimit

LEMMA OffIsGood == GoodWash(Off) /\ ~Washing(Off)
<1>1. NoWash \in WashFrames
  BY WashAssumption DEF NoWash, WashFrames
<1>2. Off \in Washes
  BY <1>1 DEF Off, Washes
<1>3. AgeLimit(Off) \in Nat /\ Off.age = 0 /\ Off.phase = "off"
  BY <1>2, WashFields DEF Off
<1> QED BY <1>2, <1>3 DEF GoodWash, Washing

LEMMA BeginIsGood ==
  ASSUME NEW f \in WashFrames
  PROVE  GoodWash(Begin(f)) /\ Begin(f).of = f /\ Washing(Begin(f))
<1>1. f.attack \in Nat
  BY WashAssumption DEF WashFrames
<1>2. Begin(f) \in Washes
  BY <1>1 DEF Begin, Washes
<1>3. Begin(f).age = 0 /\ Begin(f).phase = "attack" /\ Begin(f).of = f
  BY DEF Begin
<1> QED BY <1>2, <1>3, WashFields DEF GoodWash, Washing

LEMMA FadingIsGood ==
  ASSUME NEW w, GoodWash(w), NEW t \in Nat
  PROVE  GoodWash(Fading(w, t)) /\ ~Washing(Fading(w, t))
<1>1. Fading(w, t) \in Washes
  BY DEF GoodWash, Fading, Washes
<1>2. Fading(w, t).age = 0 /\ Fading(w, t).phase = "release"
  BY DEF GoodWash, Fading, Washes
<1> QED BY <1>1, <1>2, WashFields DEF GoodWash, Washing

LEMMA EndIsGood ==
  ASSUME NEW w, GoodWash(w), NEW t \in WashTimes
  PROVE  GoodWash(End(w, t)) /\ ~Washing(End(w, t))
<1>1. t \in Nat
  BY WashAssumption
<1> QED BY <1>1, FadingIsGood DEF End, Washing

LEMMA AdvanceIsGood ==
  ASSUME NEW w, GoodWash(w)
  PROVE  /\ GoodWash(Advance(w))
         /\ Washing(Advance(w)) => Washing(w) /\ Advance(w).of = w.of
         /\ Washing(w) /\ ~Expired(w) => Washing(Advance(w)) /\ Advance(w).of = w.of
<1>1. CASE w.phase = "attack" /\ w.left = 0
  <2>1. Advance(w) = [w EXCEPT !.phase = "hold"]
    BY <1>1 DEF Advance
  <2>2. Advance(w) \in Washes /\ Advance(w).of = w.of /\ Advance(w).age = w.age
        /\ Advance(w).phase = "hold"
    BY <2>1 DEF GoodWash, Washes
  <2> QED BY <1>1, <2>2 DEF GoodWash, AgeLimit, Washing
<1>2. CASE w.phase = "hold" /\ Expired(w)
  <2>1. Advance(w) = Fading(w, w.of.release)
    BY <1>2 DEF Advance
  <2>2. w.of.release \in Nat
    BY WashFields DEF GoodWash
  <2> QED BY <1>2, <2>1, <2>2, FadingIsGood
<1>3. CASE w.phase = "release" /\ w.left = 0
  BY <1>3, OffIsGood DEF Advance, Washing
<1>4. CASE ~(w.phase = "attack" /\ w.left = 0) /\ ~(w.phase = "hold" /\ Expired(w))
           /\ ~(w.phase = "release" /\ w.left = 0)
  BY <1>4 DEF Advance
<1> QED BY <1>1, <1>2, <1>3, <1>4

LEMMA AgeIsGood ==
  ASSUME NEW w, GoodWash(w)
  PROVE  /\ GoodWash(AgeWash(w))
         /\ Washing(AgeWash(w)) <=> Washing(w)
         /\ AgeWash(w).of = w.of
<1> DEFINE older == IF Washing(w) /\ w.age < AgeLimit(w) THEN w.age + 1 ELSE w.age
<1>1. Less(w.left) \in Nat /\ older \in Nat /\ older <= AgeLimit(w)
  BY WashFields DEF Less, GoodWash
<1>2. AgeWash(w) = [w EXCEPT !.left = Less(w.left), !.age = older]
  BY DEF AgeWash
<1>3. AgeWash(w) \in Washes /\ AgeWash(w).of = w.of /\ AgeWash(w).age = older
      /\ AgeWash(w).phase = w.phase
  BY <1>1, <1>2 DEF GoodWash, Washes
<1> HIDE DEF older
<1> QED BY <1>1, <1>3 DEF GoodWash, AgeLimit, Washing

-----------------------------------------------------------------------------
(***************************************************************************)
(* Steps that leave the wash, the silence and the fall-back alone.         *)
(***************************************************************************)
LEMMA InitiallyGood == Init => IInv
<1> SUFFICES ASSUME Init PROVE IInv
  OBVIOUS
<1>1. GoodWash(wash) /\ ~Washing(wash)
  BY OffIsGood DEF Init
<1>2. pulse \in 0 .. PULSE /\ drained \in 0 .. DRAIN_LIMIT /\ pending \in Seq(OnAir)
      /\ Len(pending) <= MaxPending
  BY WashAssumption, OnAirAssumption DEF Init
<1>3. TypeOK
  BY <1>1, <1>2 DEF Init, TypeOK, GoodWash
<1> QED
  BY <1>1, <1>3 DEF Init, IInv, SyntheticOnlyInSilence, FlagsOnlyInSilence, AtWork

LEMMA QueueKeepsType ==
  ASSUME IInv, NEW f \in OnAir, Queue(f)
  PROVE  pending' \in Seq(OnAir) /\ Len(pending') <= MaxPending
BY OnAirAssumption DEF Queue, IInv, TypeOK

LEMMA InterruptKeeps ==
  ASSUME IInv, NEW f \in OnAir, Interrupt(f)
  PROVE  IInv'
BY QueueKeepsType
DEF Interrupt, operator, loop, silence, ring, handler, IInv, TypeOK, Silent,
    SyntheticOnlyInSilence, FlagsOnlyInSilence, AtWork, Washing, AgeLimit

LEMMA FastPaintKeeps ==
  ASSUME IInv, NEW f \in OnAir, FastPaint(f)
  PROVE  IInv'
<1>1. Queue(f) /\ UNCHANGED <<radio, operator, loop, silence, force>>
      /\ wash' = Advance(wash) /\ pulse' \in Dispatched(wash, pulse)
      /\ leds' = Lit(wash', pulse') /\ paint_key' = f.key /\ accepted' = ~Swallows(wash)
      /\ f.kind = "pulse"
  BY DEF FastPaint
<1>2. GoodWash(wash)' /\ (Washing(wash') => Washing(wash) /\ wash'.of = wash.of)
  BY <1>1, AdvanceIsGood DEF IInv, TypeOK, GoodWash
<1>3. pulse' \in 0 .. PULSE
  BY <1>1, WashAssumption DEF Dispatched, IInv, TypeOK
<1>4. leds' \in BOOLEAN /\ accepted' \in BOOLEAN
  BY <1>1 DEF Lit, Swallows, Washing
<1>5. paint_key' \in Keys \cup {None}
  BY <1>1, FrameKinds
<1>6. TypeOK'
  BY <1>1, <1>2, <1>3, <1>4, <1>5, QueueKeepsType
  DEF operator, loop, silence, IInv, TypeOK, GoodWash
<1> QED
  BY <1>1, <1>2, <1>6
  DEF operator, loop, silence, IInv, Silent, SyntheticOnlyInSilence, FlagsOnlyInSilence, AtWork

LEMMA WakeKeeps == ASSUME IInv, Wake PROVE IInv'
BY DEF Wake, operator, queue, silence, ring, handler, IInv, TypeOK, Silent,
       SyntheticOnlyInSilence, FlagsOnlyInSilence, AtWork, Washing, AgeLimit

LEMMA TakeKeepsType ==
  ASSUME IInv, Take
  PROVE  /\ pending' \in Seq(OnAir) /\ Len(pending') <= MaxPending
         /\ drained' \in 0 .. DRAIN_LIMIT
         /\ Head(pending) \in OnAir
BY OnAirAssumption DEF Take, IInv, TypeOK

LEMMA RejectKeeps == ASSUME IInv, Reject PROVE IInv'
BY TakeKeepsType
DEF Reject, operator, silence, ring, handler, IInv, TypeOK, Silent,
    SyntheticOnlyInSilence, FlagsOnlyInSilence, AtWork, Washing, AgeLimit

(***************************************************************************)
(* A frame of the Director: the flags are lowered, and a synthetic wash    *)
(* can be on only if they were up.                                         *)
(***************************************************************************)
LEMMA ObserveKeeps == ASSUME IInv, Observe PROVE IInv'
<1>1. Take /\ stage = "draining" /\ stage' = "observed" /\ frame' = Head(pending)
      /\ duplicate' \in BOOLEAN /\ since' = 0 /\ fallback' = "none"
      /\ wash' = (IF fallback # "none" THEN End(wash, FALLBACK_RECOVERY) ELSE wash)
      /\ UNCHANGED <<operator, radio, pulse, force, leds, handler>>
  BY DEF Observe, Recover, Take
<1>2. GoodWash(wash)'
  BY <1>1, EndIsGood, FallbackAssumption DEF IInv, TypeOK, GoodWash
<1>3. ~(Washing(wash') /\ wash'.of.synthetic)
  BY <1>1, EndIsGood, FallbackAssumption DEF IInv, TypeOK, GoodWash, SyntheticOnlyInSilence
<1>4. frame' \in OnAir /\ frame' # NoFrame
  BY <1>1, TakeKeepsType, FrameKinds
<1>5. since' \in {None} \cup 0 .. FALLBACK_FADE_START + 1
  BY <1>1, FallbackAssumption
<1>6. TypeOK'
  BY <1>1, <1>2, <1>4, <1>5, TakeKeepsType DEF operator, handler, IInv, TypeOK, GoodWash
<1> QED
  BY <1>1, <1>3, <1>6
  DEF operator, IInv, SyntheticOnlyInSilence, FlagsOnlyInSilence, AtWork

LEMMA PutDownFacts ==
  ASSUME IInv, PutDown
  PROVE  /\ stage' = "draining" /\ frame' = NoFrame /\ duplicate' = FALSE
         /\ frame \in OnAir /\ mode = "lume" /\ radio
         /\ UNCHANGED <<operator, queue, drained, silence, leds, handler>>
BY DEF PutDown, IInv, TypeOK, AtWork

LEMMA SkipKeeps == ASSUME IInv, Skip PROVE IInv'
BY PutDownFacts
DEF Skip, operator, queue, silence, handler, IInv, TypeOK, Silent,
    SyntheticOnlyInSilence, FlagsOnlyInSilence, AtWork, Washing, AgeLimit

LEMMA RenderPulseKeeps == ASSUME IInv, RenderPulse PROVE IInv'
<1>1. pulse' \in 0 .. PULSE /\ force' \in BOOLEAN
  BY WashAssumption DEF RenderPulse, Dispatched, Overlaid, IInv, TypeOK
<1>2. wash' = wash /\ PutDown
  BY DEF RenderPulse
<1> QED
  BY <1>1, <1>2, PutDownFacts
  DEF operator, queue, silence, handler, IInv, TypeOK, Silent,
      SyntheticOnlyInSilence, FlagsOnlyInSilence, AtWork, Washing, AgeLimit

LEMMA RenderWashKeeps == ASSUME IInv, RenderWash PROVE IInv'
<1>1. PutDown /\ pulse' = pulse /\ force' = force
  BY DEF RenderWash
<1>2. frame \in OnAir
  BY <1>1, PutDownFacts
<1>3. GoodWash(wash)' /\ ~(Washing(wash') /\ wash'.of.synthetic)
  <2>1. CASE frame.kind = "wash" /\ wash' = Begin(frame.of)
    BY <1>2, <2>1, FrameKinds, BeginIsGood
  <2>2. CASE frame.kind = "end" /\ wash' = End(wash, frame.release)
    BY <1>2, <2>2, FrameKinds, EndIsGood DEF IInv, TypeOK, GoodWash
  <2> QED BY <2>1, <2>2 DEF RenderWash
<1>4. TypeOK'
  BY <1>1, <1>3, PutDownFacts DEF operator, queue, silence, handler, IInv, TypeOK, GoodWash
<1> QED
  BY <1>1, <1>3, <1>4, PutDownFacts
  DEF operator, queue, silence, IInv, Silent, SyntheticOnlyInSilence, FlagsOnlyInSilence, AtWork

(***************************************************************************)
(* The flags go up, and the synthetic wash on, only in silence.            *)
(***************************************************************************)
LEMMA EvaluateKeeps == ASSUME IInv, EvaluateFallback PROVE IInv'
<1> DEFINE shown == IF Enters THEN Begin(Synthetic) ELSE wash
<1>1. /\ stage = "draining" /\ stage' = "evaluated" /\ drained' = 0
      /\ wash' = (IF Fades THEN End(shown, FALLBACK_FADE) ELSE shown)
      /\ fallback' = FallbackFlags
      /\ UNCHANGED <<operator, queue, frame, duplicate, since, pulse, force, leds, handler>>
  BY DEF EvaluateFallback
<1>2. GoodWash(shown)
  BY BeginIsGood, FallbackAssumption DEF IInv, TypeOK, GoodWash
<1>3. Enters \/ Fades => Silent
  <2>1. since # None => since \in Int
    BY FallbackAssumption DEF IInv, TypeOK
  <2> QED BY <2>1, FallbackAssumption DEF Enters, Fades, Silent
<1>4. GoodWash(wash)'
  BY <1>1, <1>2, EndIsGood, FallbackAssumption
<1>5. SyntheticOnlyInSilence'
  <2>1. CASE Fades
    BY <1>1, <1>2, <2>1, EndIsGood, FallbackAssumption DEF SyntheticOnlyInSilence
  <2>2. CASE ~Fades /\ Enters
    BY <1>1, <1>3, <2>2 DEF FallbackFlags, SyntheticOnlyInSilence, Silent
  <2>3. CASE ~Fades /\ ~Enters
    BY <1>1, <2>3 DEF FallbackFlags, IInv, SyntheticOnlyInSilence, Silent
  <2> QED BY <2>1, <2>2, <2>3
<1>6. FlagsOnlyInSilence'
  BY <1>1, <1>3 DEF FallbackFlags, IInv, FlagsOnlyInSilence, Silent
<1>7. fallback' \in {"none", "shown", "faded"}
  BY <1>1 DEF FallbackFlags, IInv, TypeOK
<1>8. TypeOK'
  BY <1>1, <1>4, <1>7, OnAirAssumption DEF operator, queue, handler, IInv, TypeOK, GoodWash
<1> QED
  BY <1>1, <1>5, <1>6, <1>8 DEF operator, queue, IInv, AtWork

LEMMA PaintKeeps == ASSUME IInv, Paint PROVE IInv'
<1>1. /\ wash' = Advance(wash) /\ leds' = Lit(wash', pulse) /\ force' = FALSE
      /\ stage = "evaluated" /\ stage' = "asleep"
      /\ UNCHANGED <<operator, queue, frame, duplicate, drained, silence, pulse, handler>>
  BY DEF Paint
<1>2. GoodWash(wash)' /\ (Washing(wash') => Washing(wash) /\ wash'.of = wash.of)
  BY <1>1, AdvanceIsGood DEF IInv, TypeOK, GoodWash
<1>3. leds' \in BOOLEAN
  BY <1>1 DEF Lit, Washing
<1>4. TypeOK'
  BY <1>1, <1>2, <1>3 DEF operator, queue, silence, handler, IInv, TypeOK, GoodWash
<1> QED
  BY <1>1, <1>2, <1>4
  DEF operator, queue, silence, IInv, Silent, SyntheticOnlyInSilence, FlagsOnlyInSilence, AtWork

LEMMA NotDueKeeps == ASSUME IInv, NotDue PROVE IInv'
BY DEF NotDue, operator, queue, silence, ring, handler, IInv, TypeOK, Silent,
       SyntheticOnlyInSilence, FlagsOnlyInSilence, AtWork, Washing, AgeLimit

-----------------------------------------------------------------------------
(***************************************************************************)
(* The operator, the radio and the clock.                                  *)
(***************************************************************************)
LEMMA DarkenIsGood ==
  ASSUME Darken
  PROVE  GoodWash(wash)' /\ ~Washing(wash)' /\ pulse' \in 0 .. PULSE /\ leds' \in BOOLEAN
<1>1. wash' = Off /\ pulse' = 0 /\ leds' = FALSE
  BY DEF Darken
<1>2. GoodWash(wash)' /\ ~Washing(wash)'
  BY <1>1, OffIsGood DEF GoodWash, Washing
<1>3. pulse' \in 0 .. PULSE
  BY <1>1, WashAssumption
<1> QED BY <1>1, <1>2, <1>3

LEMMA OpenSettingsKeeps == ASSUME IInv, OpenSettings PROVE IInv'
BY DarkenIsGood
DEF OpenSettings, queue, loop, silence, handler, IInv, TypeOK, Silent,
    SyntheticOnlyInSilence, FlagsOnlyInSilence, AtWork, GoodWash

LEMMA CloseSettingsKeeps == ASSUME IInv, CloseSettings PROVE IInv'
BY DEF CloseSettings, queue, loop, silence, ring, handler, IInv, TypeOK, Silent,
       SyntheticOnlyInSilence, FlagsOnlyInSilence, AtWork, Washing, AgeLimit

LEMMA StopKeeps == ASSUME IInv, StopToIdle PROVE IInv'
BY DarkenIsGood
DEF StopToIdle, queue, loop, handler, IInv, TypeOK, Silent,
    SyntheticOnlyInSilence, FlagsOnlyInSilence, AtWork, GoodWash

LEMMA StartKeeps == ASSUME IInv, StartLume PROVE IInv'
BY DEF StartLume, queue, loop, silence, ring, handler, IInv, TypeOK, Silent,
       SyntheticOnlyInSilence, FlagsOnlyInSilence, AtWork, Washing, AgeLimit

LEMMA RadioKeeps == ASSUME IInv, AcquireRadio \/ ReleaseRadio PROVE IInv'
BY DEF AcquireRadio, ReleaseRadio, operator, loop, silence, ring, handler, IInv, TypeOK,
       Silent, SyntheticOnlyInSilence, FlagsOnlyInSilence, AtWork, Washing, AgeLimit

LEMMA ElapseKeeps == ASSUME IInv, Elapse PROVE IInv'
<1>1. /\ since' = (IF since = None \/ since > FALLBACK_FADE_START THEN since ELSE since + 1)
      /\ wash' = AgeWash(wash) /\ pulse' = Less(pulse)
      /\ UNCHANGED <<operator, queue, loop, fallback, force, leds, handler>>
  BY DEF Elapse
<1>2. GoodWash(wash)' /\ (Washing(wash') <=> Washing(wash)) /\ wash'.of = wash.of
  BY <1>1, AgeIsGood DEF IInv, TypeOK, GoodWash
<1>3. pulse' \in 0 .. PULSE
  BY <1>1, WashAssumption DEF Less, IInv, TypeOK
<1>4. since' \in {None} \cup 0 .. FALLBACK_FADE_START + 1 /\ (Silent => Silent')
  BY <1>1, FallbackAssumption, OnAirAssumption DEF Silent, IInv, TypeOK
<1>5. TypeOK'
  BY <1>1, <1>2, <1>3, <1>4 DEF operator, queue, loop, handler, IInv, TypeOK, GoodWash
<1> QED
  BY <1>1, <1>2, <1>4, <1>5
  DEF operator, queue, loop, IInv, SyntheticOnlyInSilence, FlagsOnlyInSilence, AtWork

LEMMA StutterKeeps == ASSUME IInv, UNCHANGED vars PROVE IInv'
BY DEF vars, operator, queue, loop, silence, ring, handler, IInv, TypeOK, Silent,
       SyntheticOnlyInSilence, FlagsOnlyInSilence, AtWork, Washing, AgeLimit

LEMMA NextKeeps == IInv /\ [Next]_vars => IInv'
BY InterruptKeeps, FastPaintKeeps, WakeKeeps, RejectKeeps, ObserveKeeps, SkipKeeps,
   RenderPulseKeeps, RenderWashKeeps, EvaluateKeeps, PaintKeeps, NotDueKeeps,
   OpenSettingsKeeps, CloseSettingsKeeps, StopKeeps, StartKeeps, RadioKeeps, ElapseKeeps,
   StutterKeeps
DEF Next

LEMMA AlwaysGood == Spec => []IInv
BY InitiallyGood, NextKeeps, PTL DEF Spec

-----------------------------------------------------------------------------
(***************************************************************************)
(* The fields keep their types, and a pass its bound.                      *)
(***************************************************************************)
THEOREM TypeCorrect == Spec => []TypeOK
BY AlwaysGood, PTL DEF IInv

(***************************************************************************)
(* The badge's own wash never holds the ring once the Director is back.    *)
(***************************************************************************)
THEOREM SyntheticGivesWay == Spec => []SyntheticOnlyInSilence
BY AlwaysGood, PTL DEF IInv

(***************************************************************************)
(* The steps that may take a Director's wash off.  A frame that ends a     *)
(* fall-back would, but then the badge was still Silent.                   *)
(***************************************************************************)
LEMMA RingStepHasReason ==
  ASSUME IInv, FromDirector(wash), wash' = Advance(wash)
  PROVE  FromDirector(wash') \/ Expired(wash)
BY AdvanceIsGood DEF IInv, TypeOK, GoodWash, FromDirector

LEMMA StepHasReason ==
  ASSUME IInv, [Next]_vars, FromDirector(wash), ~FromDirector(wash')
  PROVE  \/ stage = "observed" /\ frame.kind = "end"
         \/ Expired(wash)
         \/ Silent
         \/ <<mode, menu>>' # <<mode, menu>>
<1>1. CASE wash' = wash
  BY <1>1
<1>2. ASSUME NEW f \in OnAir, FastPaint(f) PROVE Expired(wash)
  BY <1>2, RingStepHasReason DEF FastPaint
<1>3. CASE Paint
  BY <1>3, RingStepHasReason DEF Paint
<1>4. CASE Observe
  <2>1. fallback # "none" \/ wash' = wash
    BY <1>4 DEF Observe, Recover
  <2> QED BY <1>1, <2>1 DEF IInv, FlagsOnlyInSilence
<1>5. CASE RenderWash
  <2>1. frame \in OnAir /\ stage = "observed"
    BY <1>5, PutDownFacts DEF RenderWash, PutDown
  <2>2. CASE frame.kind = "wash" /\ wash' = Begin(frame.of)
    BY <2>1, <2>2, FrameKinds, BeginIsGood DEF FromDirector
  <2> QED BY <1>5, <2>1, <2>2 DEF RenderWash
<1>6. CASE EvaluateFallback
  <2>1. since # None => since \in Int
    BY FallbackAssumption DEF IInv, TypeOK
  <2>2. Enters \/ Fades \/ wash' = wash
    BY <1>6 DEF EvaluateFallback
  <2> QED BY <1>1, <2>1, <2>2, FallbackAssumption DEF Enters, Fades, Silent
<1>7. CASE OpenSettings \/ StopToIdle
  BY <1>7 DEF OpenSettings, StopToIdle, IInv, TypeOK
<1>8. CASE Elapse
  BY <1>8, AgeIsGood DEF Elapse, IInv, TypeOK, GoodWash, FromDirector
<1> QED
  BY <1>1, <1>2, <1>3, <1>4, <1>5, <1>6, <1>7, <1>8
  DEF Next, Interrupt, Wake, Reject, Skip, RenderPulse, NotDue, CloseSettings, StartLume,
      AcquireRadio, ReleaseRadio, ring, vars

(***************************************************************************)
(* A Director's wash is taken off only because its end was heard, it has   *)
(* expired, its Director is silent or the operator cleared the ring.       *)
(***************************************************************************)
THEOREM WashIsKept == Spec => DirectorsWashIsKept
<1>1. IInv /\ [Next]_vars =>
        [FromDirector(wash) /\ ~FromDirector(wash') =>
           \/ stage = "observed" /\ frame.kind = "end"
           \/ Expired(wash)
           \/ Silent
           \/ <<mode, menu>>' # <<mode, menu>>]_vars
  BY StepHasReason
<1> QED BY <1>1, AlwaysGood, PTL DEF Spec, DirectorsWashIsKept

=============================================================================
