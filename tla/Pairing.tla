------------------------------ MODULE Pairing ------------------------------
(***************************************************************************)
(* Pairing a badge with a phone: the pairing screen (app.py), the BLE      *)
(* service behind it (nocturnation/ble_service.py), the settings the phone *)
(* writes into and the file they are kept in (Stored).                     *)
(*                                                                         *)
(* Two tasks share the service.  The service's own task advertises, then   *)
(* waits in turn for a write of the config and of the pairing control,     *)
(* which it applies whenever they come; it looks at the window between two *)
(* rounds only.  The app polls the service from update(), which is called  *)
(* only while the app is in front, and shows how the pairing ended for     *)
(* FLASH.                                                                  *)
(*                                                                         *)
(* Abstractions.  A property bag is the group and the window it names, if  *)
(* any.  Lume mode stands for both modes: the settings menu is not open in *)
(* Director mode, which has menus of its own (Director).  A menu that      *)
(* is open gets the buttons, whatever screen is drawn over it.             *)
(***************************************************************************)
EXTENDS Stored

CONSTANTS
  FLASH,      \* how long the end of a pairing is shown, 1500 ms in the code
  MAX_AGE,    \* bound on the clock of the window; not part of the code
  None        \* no task, no menu, nothing to show, no such entry

Ended == {"committed", "sleeping", "aborted"}

Kept == {"committed", "sleeping"}

ASSUME PairingAssumption ==
  /\ FLASH \in Nat \ {0}
  /\ MAX_AGE \in Nat /\ \A w \in Windows : w <= MAX_AGE
  /\ None \notin Groups \cup Windows /\ None \notin Ended
  /\ None \notin {"advertising", "config", "control", "done"}

VARIABLES
  mode, menu, inFront,   \* the operator's side
  screen,                \* the pairing screen: open, what it shows, time left
  ble,                   \* the service: _active, _state, _window_ms, time since _start_ms
  serve,                 \* where the service's task is
  memory,                \* the settings
  file,                  \* nocturnation_settings.json
  unsaved,               \* the last save failed
  owed                   \* the phone has committed, and nothing was saved since

desk == <<mode, menu, inFront>>
store == <<memory, file, unsaved>>
vars == <<desk, screen, ble, serve, store, owed>>

(***************************************************************************)
(* ticks_ms wraps, and deadlines are compared as plain numbers: a timer    *)
(* that the wrap catches running never ends.                               *)
(***************************************************************************)
Stuck == -1

ScreenClosed == [open |-> FALSE, shows |-> None, left |-> 0]

BleClosed == [active |-> FALSE, state |-> "closed", window |-> 0, age |-> 0]

Booted ==
  /\ mode = "lume" /\ menu = None /\ inFront = TRUE
  /\ screen = ScreenClosed /\ ble = BleClosed /\ serve = None
  /\ owed = FALSE

Init ==
  /\ Booted
  /\ \E load \in Loads(Unreadable) :
       memory = load.memory /\ file = load.file /\ unsaved = load.failed

(***************************************************************************)
(* The settings are saved, which may fail.                                 *)
(***************************************************************************)
SaveSettings(contents) ==
  \E save \in Saves(file, contents) : file' = save.file /\ unsaved' = save.failed

-----------------------------------------------------------------------------
(***************************************************************************)
(* The operator.  The idle menu starts a mode, opens the settings, or      *)
(* leaves the app running behind the launcher.                             *)
(***************************************************************************)
StartMode ==
  /\ inFront /\ menu = "idle"
  /\ mode' = "lume" /\ menu' = None
  /\ SaveSettings(memory)
  /\ UNCHANGED <<inFront, screen, ble, serve, memory, owed>>

StopToIdle ==
  /\ inFront /\ ~screen.open /\ menu = None
  /\ mode' = "idle" /\ menu' = "idle"
  /\ UNCHANGED <<inFront, screen, ble, serve, store, owed>>

OpenSettings ==
  /\ inFront
  /\ menu = "idle" \/ (menu = None /\ ~screen.open)
  /\ menu' = "settings"
  /\ UNCHANGED <<mode, inFront, screen, ble, serve, store, owed>>

Minimise ==
  /\ inFront /\ menu = "idle"
  /\ inFront' = FALSE
  /\ UNCHANGED <<mode, menu, screen, ble, serve, store, owed>>

Resume ==
  /\ ~inFront
  /\ inFront' = TRUE
  /\ UNCHANGED <<mode, menu, screen, ble, serve, store, owed>>

UnderSettings == IF mode = "idle" THEN "idle" ELSE None

ChangeGroup ==
  /\ inFront /\ menu = "settings"
  /\ memory' = [memory EXCEPT !.group = NextGroup(@)]
  /\ SaveSettings(memory')
  /\ UNCHANGED <<desk, screen, ble, serve, owed>>

CloseSettings ==
  /\ inFront /\ menu = "settings"
  /\ menu' = UnderSettings
  /\ UNCHANGED <<mode, inFront, screen, ble, serve, store, owed>>

(***************************************************************************)
(* start() has nothing to do when the service is active, as it is when the *)
(* settings were opened from the idle menu under the pairing screen.       *)
(* Otherwise it may fail, and then the screen shows a time-out at once.    *)
(***************************************************************************)
OpenPairing ==
  /\ inFront /\ menu = "settings"
  /\ menu' = UnderSettings
  /\ \/ /\ ble.active
        /\ screen' = [open |-> TRUE, shows |-> None, left |-> 0]
        /\ UNCHANGED <<ble, serve>>
     \/ /\ ~ble.active
        /\ screen' = [open |-> TRUE, shows |-> None, left |-> 0]
        /\ ble' = [active |-> TRUE, state |-> "open",
                   window |-> memory.window, age |-> 0]
        /\ serve' = "advertising"
     \/ /\ ~ble.active
        /\ screen' = [open |-> TRUE, shows |-> "aborted", left |-> FLASH]
        /\ ble' = [ble EXCEPT !.state = "closed"]
        /\ UNCHANGED serve
  /\ UNCHANGED <<mode, inFront, store, owed>>

-----------------------------------------------------------------------------
(***************************************************************************)
(* The service's task.  A phone that connects is served while the window   *)
(* is open.                                                                *)
(***************************************************************************)
WindowOpen(b) == b.active /\ b.state = "open"

Connect ==
  /\ serve = "advertising"
  /\ serve' = IF WindowOpen(ble) THEN "config" ELSE "done"
  /\ UNCHANGED <<desk, screen, ble, store, owed>>

(***************************************************************************)
(* Advertising fails, which ends the task.                                 *)
(***************************************************************************)
AdvertisingFails ==
  /\ serve = "advertising"
  /\ serve' = "done"
  /\ UNCHANGED <<desk, screen, ble, store, owed>>

Bags == [group : PhoneGroups \cup {None}, window : PhoneWindows \cup {None}]

(***************************************************************************)
(* A variant to test the properties with: an entry that is not in the bag  *)
(* is taken from it all the same.                                          *)
(***************************************************************************)
AppliedWhole(bag, contents) == bag

(***************************************************************************)
(* A write of the config is applied to the settings in use, entry by       *)
(* entry; a bag that is cut short, or no write, changes nothing.  Whether  *)
(* the window is still open is not asked.                                  *)
(***************************************************************************)
Applied(bag, contents) ==
  [group |-> IF bag.group = None THEN contents.group ELSE bag.group,
   window |-> IF bag.window = None THEN contents.window ELSE bag.window]

ConfigWritten(bag) ==
  /\ serve = "config"
  /\ memory' = Applied(bag, memory)
  /\ serve' = "control"
  /\ UNCHANGED <<desk, screen, ble, file, unsaved, owed>>

(***************************************************************************)
(* A key that is not ASCII, or a failure of the radio, ends the round: the *)
(* badge advertises again while the window is open.                        *)
(***************************************************************************)
ClientFails ==
  /\ serve \in {"config", "control"}
  /\ serve' = IF WindowOpen(ble) THEN "advertising" ELSE "done"
  /\ UNCHANGED <<desk, screen, ble, store, owed>>

(***************************************************************************)
(* A variant to test the properties with: a commit counts whenever it      *)
(* comes.                                                                  *)
(***************************************************************************)
NotifiedLate(b, action) == IF action \in Ended THEN [b EXCEPT !.state = action] ELSE b

(***************************************************************************)
(* notify_pairing_control(): the first word on the window counts.          *)
(***************************************************************************)
Notified(b, action) ==
  IF b.state = "open" /\ action \in Ended THEN [b EXCEPT !.state = action] ELSE b

(***************************************************************************)
(* A write of the pairing control, or none in time, and the next round.    *)
(***************************************************************************)
ControlWritten(action) ==
  /\ serve = "control"
  /\ ble' = Notified(ble, action)
  /\ serve' = IF WindowOpen(ble') THEN "config" ELSE "done"
  /\ owed' = (owed \/ (ble' # ble /\ action \in Kept))
  /\ UNCHANGED <<desk, screen, store>>

-----------------------------------------------------------------------------
(***************************************************************************)
(* tick() of the service: the window closes in time.                       *)
(***************************************************************************)
Ticked(b) ==
  IF WindowOpen(b) /\ b.age >= b.window THEN [b EXCEPT !.state = "aborted"] ELSE b

(***************************************************************************)
(* A variant to test the properties with: only a time-out is shown for a   *)
(* while, a success until CANCEL is pressed.                               *)
(***************************************************************************)
DueAfterTimeout == screen.shows = "aborted" /\ screen.left = 0

Due == screen.shows # None /\ screen.left = 0

(***************************************************************************)
(* update() while the pairing screen is open: the end of a pairing is      *)
(* noticed and, after a commit, the settings are saved.  The screen is     *)
(* closed, and the service stopped, when the end was shown for long enough *)
(* or CANCEL is down.                                                      *)
(***************************************************************************)
Update(cancel) ==
  /\ inFront /\ screen.open
  /\ LET watching == ~Due /\ screen.shows = None
         now == IF watching THEN Ticked(ble) ELSE ble
         over == watching /\ now.state \in Ended
     IN  /\ IF Due \/ cancel
            THEN screen' = ScreenClosed /\ ble' = BleClosed /\ serve' = None
            ELSE /\ screen' = IF over THEN [screen EXCEPT !.shows = now.state, !.left = FLASH]
                              ELSE screen
                 /\ ble' = now
                 /\ UNCHANGED serve
         /\ IF over /\ now.state \in Kept
            THEN SaveSettings(memory) /\ owed' = FALSE
            ELSE UNCHANGED <<file, unsaved, owed>>
  /\ UNCHANGED <<desk, memory>>

-----------------------------------------------------------------------------
Elapse ==
  /\ ble' = IF ble.active /\ ble.age \in 0 .. MAX_AGE - 1
            THEN [ble EXCEPT !.age = @ + 1] ELSE ble
  /\ screen' = IF screen.left > 0 THEN [screen EXCEPT !.left = @ - 1] ELSE screen
  /\ UNCHANGED <<desk, serve, store, owed>>

ClockWraps ==
  /\ ble' = IF ble.active THEN [ble EXCEPT !.age = Stuck] ELSE ble
  /\ screen' = IF screen.shows # None THEN [screen EXCEPT !.left = Stuck] ELSE screen
  /\ UNCHANGED <<desk, serve, store, owed>>

(***************************************************************************)
(* The badge is switched off and on, or its battery is flat, also in the   *)
(* middle of a save.                                                       *)
(***************************************************************************)
Reboot ==
  /\ \E before \in {file, Unreadable} : \E load \in Loads(before) :
       memory' = load.memory /\ file' = load.file /\ unsaved' = load.failed
  /\ mode' = "lume" /\ menu' = None /\ inFront' = TRUE
  /\ screen' = ScreenClosed /\ ble' = BleClosed /\ serve' = None
  /\ owed' = FALSE

-----------------------------------------------------------------------------
Operator ==
  \/ StartMode \/ StopToIdle \/ OpenSettings \/ Minimise \/ Resume
  \/ ChangeGroup \/ CloseSettings \/ OpenPairing

Task ==
  \/ Connect \/ AdvertisingFails \/ ClientFails
  \/ \E bag \in Bags : ConfigWritten(bag)
  \/ \E action \in Ended \cup {None} : ControlWritten(action)

Next ==
  \/ Operator \/ Task \/ (\E cancel \in BOOLEAN : Update(cancel))
  \/ Elapse \/ ClockWraps \/ Reboot

(***************************************************************************)
(* update() is called again and again while the app is in front, and time  *)
(* goes on.  No phone ever has to come, no operator to press anything.     *)
(***************************************************************************)
Spec ==
  /\ Init /\ [][Next]_vars
  /\ WF_vars(Update(FALSE)) /\ WF_vars(Elapse)

-----------------------------------------------------------------------------
TypeOK ==
  /\ mode \in {"idle", "lume"} /\ menu \in {None, "idle", "settings"}
  /\ inFront \in BOOLEAN
  /\ screen \in [open : BOOLEAN, shows : Ended \cup {None}, left : Stuck .. FLASH]
  /\ ble \in [active : BOOLEAN, state : Ended \cup {"closed", "open"},
              window : Windows \cup {0}, age : Stuck .. MAX_AGE]
  /\ serve \in {None, "advertising", "config", "control", "done"}
  /\ memory \in Contents /\ file \in Files
  /\ unsaved \in BOOLEAN /\ owed \in BOOLEAN

(***************************************************************************)
(* What a phone commits is not passed over.  However it falls between two  *)
(* updates, with the time running out or CANCEL pressed at the same        *)
(* moment, it is followed by a save before the service is stopped; and     *)
(* while the screen shows a success, what the badge runs with is what the  *)
(* file holds, unless writing it failed.  A crash before that save or in   *)
(* the middle of it loses the commit, and is no breach of this.            *)
(***************************************************************************)
CommitIsKept ==
  /\ owed => ble.active /\ ble.state \in Kept
  /\ screen.shows \in Kept /\ ~unsaved => file = memory

(***************************************************************************)
(* The pairing screen closes by itself, whether a phone came, committed or *)
(* was lost in the middle, and the radio is then left to ESP-NOW, if the   *)
(* operator stops pressing buttons and leaves the app in front and the     *)
(* clock does not wrap meanwhile.                                          *)
(***************************************************************************)
Caught == ble.age = Stuck \/ screen.left = Stuck

ScreenCloses ==
  <>[][~Operator]_vars /\ <>[]inFront
    => <>[]((~screen.open /\ ~ble.active) \/ Caught)

=============================================================================
