------------------------------ MODULE Director ------------------------------
(***************************************************************************)
(* A badge in Director mode: the foreground that polls the buttons and     *)
(* shows the overlays, the session of the background task (app.py), the    *)
(* controller that runs one Show (nocturnation/director/controller.py),    *)
(* and what the Shows leave on the Lumes.                                  *)
(*                                                                         *)
(* Of the Shows only Conductor lays a wash, without an end of its own, on  *)
(* the Lumes of its target group; it is kept for every group whether its   *)
(* Lumes are washing.  While the session has the radio, what is sent       *)
(* reaches them (module Link is about frames that do not).  Pulses leave   *)
(* nothing behind and are not kept; which presses make them is.            *)
(***************************************************************************)
EXTENDS Buttons, FiniteSets, TLC

CONSTANTS
  Shows, Conductor,
  FirstShow,     \* the one the registry lists first
  NoShow,        \* "" in the settings, None in the controller
  MAX_GROUP,     \* max_value of Conductor's target_group, 255 in the code
  GROUP_STEP,    \* by which the settings overlay moves it, 31 in the code
  MaxHeld        \* bound on the buttons held together; not part of the code

ASSUME ShowAssumption ==
  /\ Conductor \in Shows /\ FirstShow \in Shows /\ NoShow \notin Shows
  /\ MAX_GROUP \in Nat \ {0} /\ GROUP_STEP \in 1 .. MAX_GROUP

Groups == 1 .. MAX_GROUP        \* groups of Lumes
Targets == 0 .. MAX_GROUP       \* 0 addresses all of them
NoFile == -1                    \* no value for target_group in the file

VARIABLES
  mode,       \* "idle" or "director"
  session,    \* the background task is in _director_session
  built,      \* _ensure_director was here
  initial,    \* the controller's _initial_show_id
  active,     \* its _active_show
  group,      \* target_group, as that Show's property bag has it
  file,       \* as nocturnation_plugins.json has it
  chosen,     \* settings.active_show, which the badge keeps when switched off
  overlay,    \* "none", "picker" or "settings"
  down,       \* the app's button_states
  mapper,     \* the DirectorButtonMapper
  tap,        \* the ButtonTapSource's _was_pressed
  lit,        \* the groups whose Lumes are washing
  (* History. *)
  credit,     \* the buttons pressed since they last acted
  rearmed,    \* those that may act again for a press that is over
  orphaned    \* groups Conductor was moved off, or that lost their Director

uiVars == <<overlay, down, mapper, tap, credit, rearmed>>
showVars == <<initial, active, group, lit, orphaned>>
diskVars == <<file, chosen>>
vars == <<mode, session, built, uiVars, showVars, diskVars>>

AllButtons == NavButtons \cup {"confirm", "cancel"}

Init ==
  /\ mode = "idle" /\ session = FALSE /\ built = FALSE
  /\ initial = NoShow /\ active = NoShow /\ group = 0 /\ file = NoFile
  /\ chosen = NoShow
  /\ overlay = "none" /\ down = {} /\ mapper = NewMapper /\ tap = FALSE
  /\ lit = {} /\ credit = {} /\ rearmed = {} /\ orphaned = {}

-----------------------------------------------------------------------------
(***************************************************************************)
(* A wash, and the end of one, sent to a target by the dispatcher.         *)
(***************************************************************************)
Covered(target) == IF target = 0 THEN Groups ELSE {target}

Washed(l, target) == IF session THEN l \cup Covered(target) ELSE l

Ended(l, target) == IF session THEN l \ Covered(target) ELSE l

(***************************************************************************)
(* A Show is entered, or left: only Conductor sends anything.              *)
(***************************************************************************)
EnteredShow(l, show, target) == IF show = Conductor THEN Washed(l, target) ELSE l

(***************************************************************************)
(* A variant to test the properties with: Conductor relies on its washes   *)
(* to end by themselves.                                                   *)
(***************************************************************************)
LeftUnended(l) == l

LeftShow(l) == IF active = Conductor THEN Ended(l, group) ELSE l

(***************************************************************************)
(* PropertyBag: loading, with the default for what is not there, and       *)
(* writing through to the file (a write that fails is left out).           *)
(***************************************************************************)
Loaded == IF file = NoFile THEN 0 ELSE file

Flush(value) == file' = value

(***************************************************************************)
(* _activate(): the Show before is left, the new one gets a bag of its own *)
(* and is entered.                                                         *)
(***************************************************************************)
Activate(show) ==
  /\ active' = show
  /\ group' = IF show = Conductor THEN Loaded ELSE 0
  /\ lit' = EnteredShow(LeftShow(lit), show, group')
  /\ orphaned' = orphaned \cap lit'

(***************************************************************************)
(* set_property() on a property other than target_group: Conductor lays    *)
(* its wash again when the property is one the wash shows.                 *)
(***************************************************************************)
ChangeProperty ==
  /\ IF active = Conductor THEN Flush(group) ELSE UNCHANGED file
  /\ lit' \in {lit, EnteredShow(lit, active, group)}
  /\ UNCHANGED <<initial, active, group, chosen, orphaned>>

(***************************************************************************)
(* A variant to test the properties with: the next value is not bounded.   *)
(***************************************************************************)
CycleGroupOn(g) == g + GROUP_STEP

(***************************************************************************)
(* set_property("target_group") from the overlay: the wash is laid on the  *)
(* new group, and the one on the old group stays.                          *)
(***************************************************************************)
CycleGroup(g) == IF g + GROUP_STEP > MAX_GROUP THEN 0 ELSE g + GROUP_STEP

ChangeGroup ==
  /\ active = Conductor
  /\ group' = CycleGroup(group)
  /\ Flush(group')
  /\ lit' = Washed(lit, group')
  /\ orphaned' = (orphaned \cup (Covered(group) \cap lit)) \ Washed({}, group')
  /\ UNCHANGED <<initial, active, chosen>>

-----------------------------------------------------------------------------
(***************************************************************************)
(* The buttons: the app is told of presses and releases by events.  What   *)
(* it is told while a menu has the buttons is forgotten when that closes.  *)
(***************************************************************************)
OutsideMenus == mode = "director" /\ overlay = "none"

Press(b) ==
  /\ OutsideMenus /\ b \notin down /\ Cardinality(down) < MaxHeld
  /\ down' = down \cup {b}
  /\ credit' = credit \cup ({b} \ {"cancel"})
  /\ UNCHANGED <<mode, session, built, overlay, mapper, tap, rearmed, showVars,
                 diskVars>>

Release(b) ==
  /\ OutsideMenus /\ b \in down
  /\ down' = down \ {b}
  /\ UNCHANGED <<mode, session, built, overlay, mapper, tap, credit, rearmed,
                 showVars, diskVars>>

(***************************************************************************)
(* button_states.clear(): what is held is no longer known to be.           *)
(***************************************************************************)
ClearButtons == down' = {} /\ credit' = {}

(***************************************************************************)
(* What closing an overlay does to the buttons.  Nothing reads them while  *)
(* it is open, and here it is done when the overlay opens.                 *)
(***************************************************************************)
ForgetButtons ==
  /\ ClearButtons
  /\ mapper' = ResetMapper(mapper)
  /\ rearmed' = {}

(***************************************************************************)
(* _start_mode() and _stop_to_idle().                                      *)
(***************************************************************************)
StartDirector ==
  /\ mode = "idle"
  /\ mode' = "director"
  /\ ClearButtons
  /\ UNCHANGED <<session, built, overlay, mapper, tap, rearmed, showVars, diskVars>>

(***************************************************************************)
(* The buttons the mapper last saw held act when the next session finds    *)
(* them up: nothing resets it in between.                                  *)
(***************************************************************************)
SeenHeld(m) == {b \in NavButtons : m[b].prev}

PollTap ==
  /\ tap' = ("confirm" \in down)

(***************************************************************************)
(* _update_director(): the tap button, then cancel, which leaves the mode. *)
(***************************************************************************)
UpdateCancel ==
  /\ OutsideMenus /\ built
  /\ "cancel" \in down
  /\ PollTap
  /\ mode' = "idle"
  /\ ClearButtons
  /\ rearmed' = SeenHeld(mapper)
  /\ UNCHANGED <<session, built, overlay, mapper, showVars, diskVars>>

(***************************************************************************)
(* _update_director(): the navigation buttons.  Right and left reach the   *)
(* Show, unless an overlay opens first.                                    *)
(***************************************************************************)
Opens(acting) ==
  CASE "up" \in acting -> "picker"
    [] "up" \notin acting /\ "down" \in acting /\ active # NoShow -> "settings"
    [] OTHER -> "none"

UpdatePoll ==
  /\ OutsideMenus /\ built
  /\ "cancel" \notin down
  /\ PollTap
  /\ LET acting == Acting(mapper, down)
         taps   == IF Taps(tap, down) THEN {"confirm"} ELSE {}
     IN  /\ overlay' = Opens(acting)
         /\ IF overlay' # "none"
            THEN ForgetButtons /\ UNCHANGED <<showVars, diskVars>>
            ELSE /\ down' = down
                 /\ mapper' = Polled(mapper, down)
                 /\ credit' = (credit \ (acting \cup taps)) \cap down
                 /\ rearmed' = (rearmed \ (acting \cup taps)) \cap down
                 /\ IF acting \cap {"right", "left"} # {} THEN ChangeProperty
                    ELSE UNCHANGED <<showVars, diskVars>>
  /\ UNCHANGED <<mode, session, built>>

(***************************************************************************)
(* _close_overlay().                                                       *)
(***************************************************************************)
CloseOverlay ==
  /\ overlay' = "none"
  /\ UNCHANGED <<mode, session, built, down, mapper, tap, credit, rearmed>>

PickerSelect(show) ==
  /\ overlay = "picker"
  /\ CloseOverlay
  /\ IF show = active
     THEN UNCHANGED <<showVars, diskVars>>
     ELSE /\ Activate(show)
          /\ chosen' = show
          /\ UNCHANGED <<initial, file>>

SettingsSelect ==
  /\ overlay = "settings"
  /\ ChangeProperty \/ ChangeGroup
  /\ UNCHANGED <<mode, session, built, uiVars>>

OverlayBack ==
  /\ overlay # "none"
  /\ CloseOverlay
  /\ UNCHANGED <<showVars, diskVars>>

-----------------------------------------------------------------------------
(***************************************************************************)
(* _director_session() up to its loop: without a break, _ensure_director() *)
(* the first time, the radio, and the controller's enter().                *)
(***************************************************************************)
Restored(wanted) == IF wanted \in Shows THEN wanted ELSE FirstShow

SessionStarts ==
  /\ mode = "director" /\ ~session
  /\ session' = TRUE /\ built' = TRUE
  /\ initial' = IF built THEN initial ELSE chosen
  /\ LET show == Restored(initial')
     IN  /\ active' = show
         /\ group' = IF show = Conductor THEN Loaded ELSE 0
         /\ lit' = LET left == IF active = Conductor THEN lit \ Covered(group) ELSE lit
                   IN  IF show = Conductor THEN left \cup Covered(group') ELSE left
         /\ orphaned' = orphaned \cap lit'
  /\ tap' = FALSE
  /\ rearmed' = rearmed \cup (IF tap THEN {"confirm"} ELSE {})
  /\ UNCHANGED <<mode, overlay, down, mapper, credit, diskVars>>

(***************************************************************************)
(* The radio refuses its channel: back to idle, with nothing entered.      *)
(***************************************************************************)
SessionFails ==
  /\ mode = "director" /\ ~session
  /\ mode' = "idle" /\ built' = TRUE
  /\ initial' = IF built THEN initial ELSE chosen
  /\ rearmed' = rearmed \cup SeenHeld(mapper)
  /\ UNCHANGED <<session, active, group, lit, orphaned, overlay, down, mapper,
                 tap, credit, diskVars>>

(***************************************************************************)
(* The session's loop finds the mode changed: the controller's exit().     *)
(***************************************************************************)
SessionEnds ==
  /\ session /\ mode # "director"
  /\ session' = FALSE
  /\ lit' = LeftShow(lit)
  /\ orphaned' = orphaned \cap lit'
  /\ UNCHANGED <<mode, built, uiVars, initial, active, group, diskVars>>

Elapse ==
  /\ mapper' = AgeMapper(mapper)
  /\ UNCHANGED <<mode, session, built, overlay, down, tap, credit, rearmed,
                 showVars, diskVars>>

Reboot ==
  /\ mode' = "idle" /\ session' = FALSE /\ built' = FALSE
  /\ initial' = NoShow /\ active' = NoShow /\ group' = 0
  /\ overlay' = "none" /\ down' = {} /\ mapper' = NewMapper /\ tap' = FALSE
  /\ credit' = {} /\ rearmed' = {}
  /\ orphaned' = lit
  /\ UNCHANGED <<lit, diskVars>>

Foreground ==
  \/ \E b \in AllButtons : Press(b) \/ Release(b)
  \/ StartDirector \/ UpdateCancel \/ UpdatePoll
  \/ \E s \in Shows : PickerSelect(s)
  \/ SettingsSelect \/ OverlayBack

Background == SessionStarts \/ SessionFails \/ SessionEnds

Next == Foreground \/ Background \/ Elapse \/ Reboot

Spec == Init /\ [][Next]_vars

-----------------------------------------------------------------------------
TypeOK ==
  /\ mode \in {"idle", "director"} /\ session \in BOOLEAN /\ built \in BOOLEAN
  /\ {initial, active, chosen} \subseteq Shows \cup {NoShow}
  /\ group \in Targets /\ file \in Targets \cup {NoFile}
  /\ overlay \in {"none", "picker", "settings"}
  /\ down \subseteq AllButtons /\ mapper \in Mappers /\ tap \in BOOLEAN
  /\ lit \subseteq Groups /\ orphaned \subseteq Groups
  /\ credit \subseteq AllButtons /\ rearmed \subseteq AllButtons

(***************************************************************************)
(* The Lumes follow the Show, whichever way the operator goes through      *)
(* Shows, groups and sessions: in session Conductor's group is washing,    *)
(* and a group no Show addresses is washing only if Conductor was moved    *)
(* off it, or its Director switched off, in the middle of the wash.        *)
(***************************************************************************)
WashFollowsShow ==
  /\ session /\ active = Conductor => Covered(group) \subseteq lit
  /\ lit \subseteq orphaned \cup (IF session /\ active = Conductor THEN Covered(group) ELSE {})

(***************************************************************************)
(* A press acts once at most, as a long or as a short one, and not for an  *)
(* overlay it was made in.  Only two can act without being made for it:    *)
(* one the mapper saw held when the mode was left, and confirm, held while *)
(* the session starts.                                                     *)
(***************************************************************************)
PressActsOnce ==
  [][/\ UpdatePoll => Acting(mapper, down) \subseteq credit \cup rearmed
     /\ (UpdatePoll \/ UpdateCancel) =>
          (Taps(tap, down) => "confirm" \in credit \cup rearmed)]_vars

(***************************************************************************)
(* A session starts with the Show the operator chose last.                 *)
(***************************************************************************)
ChosenShowIsRestored ==
  [][SessionStarts /\ chosen \in Shows => active' = chosen]_vars

=============================================================================
