------------------------------ MODULE Buttons ------------------------------
(***************************************************************************)
(* A Director's buttons: DirectorButtonMapper                              *)
(* (nocturnation/director/button_map.py) turns what is held down into      *)
(* actions, ButtonTapSource (button_tap.py) into taps.  Up and down act    *)
(* when pressed; right and left act when released, or once they were held  *)
(* for LONG_PRESS.                                                         *)
(*                                                                         *)
(* The mapper keeps for every button whether it was held at the last poll, *)
(* for how long (NotHeld where no time is kept), and whether its long      *)
(* press has acted already.                                                *)
(***************************************************************************)
EXTENDS Integers

CONSTANTS
  NavButtons,   \* those of the four that the operator uses
  LONG_PRESS    \* LONG_PRESS_MS, in units of time

ASSUME ButtonAssumption ==
  /\ NavButtons \subseteq {"up", "down", "right", "left"}
  /\ LONG_PRESS \in Nat \ {0}

NotHeld == -1

Mappers == [NavButtons -> [prev : BOOLEAN, held : NotHeld .. LONG_PRESS, long : BOOLEAN]]

Instant(b) == b \in {"up", "down"}

NewMapper == [b \in NavButtons |-> [prev |-> FALSE, held |-> NotHeld, long |-> FALSE]]

(***************************************************************************)
(* A variant to test the properties with: the release that follows a reset *)
(* is not told from another.                                               *)
(***************************************************************************)
ResetForgetsLong(m) == [b \in NavButtons |-> [prev |-> TRUE, held |-> NotHeld, long |-> FALSE]]

(***************************************************************************)
(* reset(): every button is taken for held, so that none acts before it    *)
(* was seen released.                                                      *)
(***************************************************************************)
ResetMapper(m) ==
  [b \in NavButtons |-> [prev |-> TRUE, held |-> NotHeld, long |-> ~Instant(b)]]

(***************************************************************************)
(* The buttons that act in poll(), given which are down.                   *)
(***************************************************************************)
Pressed(m, down) == {b \in NavButtons : Instant(b) /\ b \in down /\ ~m[b].prev}

HeldLong(m, down) ==
  {b \in NavButtons : /\ ~Instant(b) /\ b \in down /\ m[b].prev
                      /\ ~m[b].long /\ m[b].held >= LONG_PRESS}

Released(m, down) ==
  {b \in NavButtons : ~Instant(b) /\ b \notin down /\ m[b].prev /\ ~m[b].long}

Acting(m, down) == Pressed(m, down) \cup HeldLong(m, down) \cup Released(m, down)

(***************************************************************************)
(* The mapper after poll().                                                *)
(***************************************************************************)
Polled(m, down) ==
  [b \in NavButtons |->
     CASE b \in down /\ ~m[b].prev ->
            [prev |-> TRUE, held |-> IF Instant(b) THEN m[b].held ELSE 0, long |-> FALSE]
       [] b \in down /\ m[b].prev  -> [m[b] EXCEPT !.long = @ \/ b \in HeldLong(m, down)]
       [] b \notin down /\ m[b].prev -> [prev |-> FALSE, held |-> NotHeld, long |-> FALSE]
       [] OTHER -> m[b]]

AgeMapper(m) ==
  [b \in NavButtons |->
     [m[b] EXCEPT !.held = IF @ \in 0 .. LONG_PRESS - 1 THEN @ + 1 ELSE @]]

(***************************************************************************)
(* ButtonTapSource: one tap when the button goes down.                     *)
(***************************************************************************)
Taps(was_pressed, down) == "confirm" \in down /\ ~was_pressed

=============================================================================
