-------------------------------- MODULE Wash --------------------------------
(***************************************************************************)
(* The LED ring (class PerimeterRenderer, nocturnation/render/perimeter.py *)
(* and the durations of envelope.py): a wash under all twelve LEDs, and    *)
(* pulses over it.  Colour is left out: of a wash its phase and times are  *)
(* kept, of the pulses how long the last of them goes on.                  *)
(*                                                                         *)
(* Instants are only compared with the present, so a phase keeps the time  *)
(* left of it, and a wash its age, up to the age at which it expires.      *)
(* Time that has run out changes nothing until the next tick looks at it.  *)
(***************************************************************************)
EXTENDS Integers

CONSTANTS
  WashTimes,      \* durations an attack or a release may have
  HoldTimes,      \* ttl_seconds a wash may come with, 0 for none
  WASH_MAX_HOLD,  \* the age limit of a wash without, 30 minutes in the code
  PULSE           \* how long a pulse lasts

ASSUME WashAssumption ==
  /\ WashTimes \subseteq Nat /\ 0 \in WashTimes
  /\ HoldTimes \subseteq Nat /\ 0 \in HoldTimes
  /\ WASH_MAX_HOLD \in Nat \ {0}
  /\ PULSE \in Nat \ {0}

(***************************************************************************)
(* What LIGHT_WASH asks for.  synthetic marks the badge's own fall-back    *)
(* wash, response whether pulses may be seen over it.                      *)
(***************************************************************************)
WashFrames == [synthetic : BOOLEAN, attack : WashTimes, ttl : HoldTimes,
               release : WashTimes, response : BOOLEAN]

Washes == [phase : {"off", "attack", "hold", "release"}, left : Nat,
           age : Nat, of : WashFrames]

NoWash == [synthetic |-> FALSE, attack |-> 0, ttl |-> 0, release |-> 0, response |-> TRUE]

Off == [phase |-> "off", left |-> 0, age |-> 0, of |-> NoWash]

Washing(w) == w.phase \in {"attack", "hold"}

(***************************************************************************)
(* on_light_wash(): the new wash takes the place of the old.               *)
(***************************************************************************)
Begin(f) == [phase |-> "attack", left |-> f.attack, age |-> 0, of |-> f]

(***************************************************************************)
(* on_light_wash_end(): the wash fades out over the given time, from now,  *)
(* even when it was fading already.                                        *)
(***************************************************************************)
Fading(w, time) == [w EXCEPT !.phase = "release", !.left = time, !.age = 0]

End(w, time) == IF w.phase = "off" THEN w ELSE Fading(w, time)

(***************************************************************************)
(* A variant to test the properties with: a wash that comes without a time *)
(* to live is held until its end is heard.                                 *)
(***************************************************************************)
ExpiredByTtl(w) == w.of.ttl # 0 /\ w.age >= w.of.ttl

(***************************************************************************)
(* _advance_wash_phase(), called by every tick: one phase at most.         *)
(***************************************************************************)
AgeLimit(w) == IF w.of.ttl = 0 THEN WASH_MAX_HOLD ELSE w.of.ttl

Expired(w) == w.age >= AgeLimit(w)

Advance(w) ==
  CASE w.phase = "attack" /\ w.left = 0 -> [w EXCEPT !.phase = "hold"]
    [] w.phase = "hold" /\ Expired(w) -> Fading(w, w.of.release)
    [] w.phase = "release" /\ w.left = 0 -> Off
    [] OTHER -> w

(***************************************************************************)
(* dispatch(): a wash that does not respond to pulses swallows them.  One  *)
(* that gets through is laid on the LEDs its chance selects, which may be  *)
(* none.                                                                   *)
(***************************************************************************)
Swallows(w) == Washing(w) /\ ~w.of.response

Dispatched(w, pulse) == IF Swallows(w) THEN {pulse} ELSE {pulse, PULSE}

(***************************************************************************)
(* on_light_wash_pulse(): seen over any wash, and over nothing else.       *)
(***************************************************************************)
Overlaid(w, pulse) == IF Washing(w) THEN {pulse, PULSE} ELSE {pulse}

(***************************************************************************)
(* What tick() puts on the LEDs: whether any of them may be lit.           *)
(***************************************************************************)
Lit(w, pulse) == pulse > 0 \/ Washing(w) \/ (w.phase = "release" /\ w.left > 0)

(***************************************************************************)
(* A unit of time passes.                                                  *)
(***************************************************************************)
Less(n) == IF n > 0 THEN n - 1 ELSE 0

AgeWash(w) ==
  [w EXCEPT !.left = Less(@),
            !.age = IF Washing(w) /\ @ < AgeLimit(w) THEN @ + 1 ELSE @]

=============================================================================
