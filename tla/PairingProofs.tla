--------------------------- MODULE PairingProofs ---------------------------
(***************************************************************************)
(* What a phone commits is kept, for any settings, windows and numbers of  *)
(* pairings.  Two facts make it inductive: once a pairing was committed    *)
(* the service's task is over, so nothing changes the settings any more    *)
(* behind the screen; and while the window is open the screen shows no     *)
(* end, so the first update after a commit notices it.                     *)
(***************************************************************************)
EXTENDS Pairing, TLAPS

CommitEndsTask == ble.state \in Kept => ble.active /\ serve = "done"

EndsAgree ==
  /\ ble.state = "open" => ble.active /\ screen.shows = None
  /\ screen.shows \in Kept => ble.state = screen.shows

OwedIsUnseen == owed => ble.active /\ ble.state \in Kept /\ screen.shows = None

CommitInv == TypeOK /\ CommitEndsTask /\ EndsAgree /\ OwedIsUnseen /\ CommitIsKept

-----------------------------------------------------------------------------
(***************************************************************************)
(* What is saved and loaded is of the types the file and the settings      *)
(* have.                                                                   *)
(***************************************************************************)
LEMMA SavedFile ==
  ASSUME NEW f \in Files, NEW c \in Contents, NEW s \in Saves(f, c)
  PROVE  s.file \in Files /\ s.failed \in BOOLEAN /\ (~s.failed => s.file = c)
<1>1. \/ s = [file |-> c, failed |-> FALSE]
      \/ s = [file |-> f, failed |-> TRUE]
      \/ s = [file |-> Unreadable, failed |-> TRUE]
  BY DEF Saves
<1>2. c \in Files /\ Unreadable \in Files BY DEF Files
<1>3. CASE s = [file |-> c, failed |-> FALSE] BY <1>2, <1>3
<1>4. CASE s = [file |-> f, failed |-> TRUE] BY <1>2, <1>4
<1>5. CASE s = [file |-> Unreadable, failed |-> TRUE] BY <1>2, <1>5
<1> QED BY <1>1, <1>3, <1>4, <1>5

LEMMA CoercedContents == ASSUME NEW c \in Contents PROVE Coerced(c) \in Contents
BY StoredAssumption DEF Contents, Coerced, Windows

LEMMA FactoryContents == Factory \subseteq Contents
BY StoredAssumption DEF Factory, Contents, Groups, Windows

LEMMA LoadedSettings ==
  ASSUME NEW f \in Files, NEW load \in Loads(f)
  PROVE  load.memory \in Contents /\ load.file \in Files /\ load.failed \in BOOLEAN
<1>1. CASE f # Unreadable
  <2>1. f \in Contents /\ load = [memory |-> Coerced(f), file |-> f, failed |-> FALSE]
    BY <1>1 DEF Loads, Files
  <2> QED BY <2>1, CoercedContents DEF Files
<1>2. CASE f = Unreadable
  <2>1. PICK c \in Factory : \E s \in Saves(f, c) :
          load = [memory |-> c, file |-> s.file, failed |-> s.failed]
    BY <1>2 DEF Loads
  <2>2. PICK s \in Saves(f, c) : load = [memory |-> c, file |-> s.file, failed |-> s.failed]
    BY <2>1
  <2>3. c \in Contents BY FactoryContents
  <2> QED BY <2>2, <2>3, SavedFile
<1> QED BY <1>1, <1>2

LEMMA NextGroupIsGroup == ASSUME NEW g PROVE NextGroup(g) \in Groups
<1> DEFINE n == Len(GROUP_CYCLE)
           after == {GROUP_CYCLE[(i % n) + 1] :
                       i \in {j \in DOMAIN GROUP_CYCLE : GROUP_CYCLE[j] = g}}
<1>1. /\ n \in Nat \ {0} /\ DOMAIN GROUP_CYCLE = 1 .. n
  BY StoredAssumption
<1>2. \A i \in 1 .. n : (i % n) + 1 \in 1 .. n
  BY <1>1
<1>3. \A i \in 1 .. n : GROUP_CYCLE[i] \in Groups
  BY <1>1 DEF Groups
<1>6. GROUP_CYCLE[1] \in Groups
  BY <1>1, <1>3
<1>7. after \subseteq Groups
  BY <1>1, <1>2, <1>3
<1>4. NextGroup(g) = IF after = {} THEN GROUP_CYCLE[1] ELSE CHOOSE h \in after : TRUE
  BY DEF NextGroup
<1>5. after # {} => (CHOOSE h \in after : TRUE) \in after
  OBVIOUS
<1> HIDE DEF after
<1> QED BY <1>4, <1>5, <1>6, <1>7

LEMMA AppliedContents ==
  ASSUME NEW bag \in Bags, NEW c \in Contents PROVE Applied(bag, c) \in Contents
BY DEF Bags, Applied, Contents, Groups, Windows

-----------------------------------------------------------------------------
(***************************************************************************)
(* A badge that was just switched on.                                      *)
(***************************************************************************)
LEMMA CommitInvInit == Init => CommitInv
<1> SUFFICES ASSUME Init PROVE CommitInv OBVIOUS
<1>1. Unreadable \in Files BY DEF Files
<1>2. memory \in Contents /\ file \in Files /\ unsaved \in BOOLEAN
  BY <1>1, LoadedSettings DEF Init
<1>3. TypeOK
  <2>1. screen \in [open : BOOLEAN, shows : Ended \cup {None}, left : Stuck .. FLASH]
    BY PairingAssumption DEF Init, Booted, ScreenClosed, Stuck
  <2>2. ble \in [active : BOOLEAN, state : Ended \cup {"closed", "open"},
                window : Windows \cup {0}, age : Stuck .. MAX_AGE]
    BY PairingAssumption DEF Init, Booted, BleClosed, Stuck
  <2> QED BY <1>2, <2>1, <2>2 DEF Init, Booted, TypeOK
<1>4. ble.state = "closed" /\ screen.shows = None /\ owed = FALSE
  BY DEF Init, Booted, ScreenClosed, BleClosed
<1>5. None \notin Kept /\ "closed" \notin Kept
  BY PairingAssumption DEF Kept, Ended
<1> QED
  BY <1>3, <1>4, <1>5
  DEF CommitInv, CommitEndsTask, EndsAgree, OwedIsUnseen, CommitIsKept

-----------------------------------------------------------------------------
(***************************************************************************)
(* The types of the screen and of the service, which every step keeps or   *)
(* replaces by one of these.                                               *)
(***************************************************************************)
ScreenType == [open : BOOLEAN, shows : Ended \cup {None}, left : Stuck .. FLASH]

BleType == [active : BOOLEAN, state : Ended \cup {"closed", "open"},
            window : Windows \cup {0}, age : Stuck .. MAX_AGE]

LEMMA ClosedTypes == ScreenClosed \in ScreenType /\ BleClosed \in BleType
BY PairingAssumption DEF ScreenClosed, BleClosed, ScreenType, BleType, Stuck

LEMMA SavedSettings ==
  ASSUME TypeOK, NEW c \in Contents, SaveSettings(c)
  PROVE  file' \in Files /\ unsaved' \in BOOLEAN /\ (~unsaved' => file' = c)
BY SavedFile DEF TypeOK, SaveSettings

(***************************************************************************)
(* The operator's steps that leave the pairing alone.                      *)
(***************************************************************************)
LEMMA DeskStep ==
  ASSUME CommitInv,
         StartMode \/ StopToIdle \/ OpenSettings \/ Minimise \/ Resume \/ CloseSettings
  PROVE  CommitInv'
<1>1. /\ mode' \in {"idle", "lume"} /\ menu' \in {None, "idle", "settings"}
      /\ inFront' \in BOOLEAN
  BY DEF CommitInv, TypeOK, UnderSettings, StartMode, StopToIdle, OpenSettings, Minimise,
         Resume, CloseSettings
<1>2. UNCHANGED <<screen, ble, serve, memory, owed>>
  BY DEF StartMode, StopToIdle, OpenSettings, Minimise, Resume, CloseSettings, store
<1>3. /\ file' \in Files /\ unsaved' \in BOOLEAN
      /\ UNCHANGED <<file, unsaved>> \/ (~unsaved' => file' = memory)
  <2>1. CASE StartMode
    BY <2>1, SavedSettings DEF StartMode, CommitInv, TypeOK
  <2>2. CASE ~StartMode
    BY <2>2 DEF CommitInv, TypeOK, StopToIdle, OpenSettings, Minimise, Resume,
                CloseSettings, store
  <2> QED BY <2>1, <2>2
<1> QED
  BY <1>1, <1>2, <1>3
  DEF CommitInv, TypeOK, CommitEndsTask, EndsAgree, OwedIsUnseen, CommitIsKept

LEMMA ChangeGroupStep == ASSUME CommitInv, ChangeGroup PROVE CommitInv'
<1>1. memory' \in Contents
  BY NextGroupIsGroup DEF ChangeGroup, CommitInv, TypeOK, Contents
<1>2. file' \in Files /\ unsaved' \in BOOLEAN /\ (~unsaved' => file' = memory')
  BY <1>1, SavedSettings DEF ChangeGroup, CommitInv
<1>3. UNCHANGED <<mode, menu, inFront, screen, ble, serve, owed>>
  BY DEF ChangeGroup, desk
<1> QED
  BY <1>1, <1>2, <1>3
  DEF CommitInv, TypeOK, CommitEndsTask, EndsAgree, OwedIsUnseen, CommitIsKept

LEMMA OpenPairingStep == ASSUME CommitInv, OpenPairing PROVE CommitInv'
<1>1. /\ UNCHANGED <<mode, inFront, memory, file, unsaved, owed>>
      /\ menu' \in {None, "idle", "settings"}
  BY DEF OpenPairing, store, UnderSettings
<1>2. /\ screen' \in ScreenType
      /\ \/ /\ screen'.shows = None
            /\ UNCHANGED <<ble, serve>>
         \/ /\ screen'.shows = None /\ ~ble.active
            /\ ble' \in BleType /\ ble'.state = "open" /\ ble'.active
            /\ serve' = "advertising"
         \/ /\ screen'.shows = "aborted" /\ ~ble.active
            /\ ble' \in BleType /\ ble'.state = "closed" /\ UNCHANGED serve
  <2>1. [open |-> TRUE, shows |-> None, left |-> 0] \in ScreenType
    BY PairingAssumption DEF ScreenType, Stuck
  <2>2. [open |-> TRUE, shows |-> "aborted", left |-> FLASH] \in ScreenType
    BY PairingAssumption DEF ScreenType, Stuck, Ended
  <2>3. [active |-> TRUE, state |-> "open", window |-> memory.window, age |-> 0] \in BleType
    BY PairingAssumption DEF BleType, Stuck, CommitInv, TypeOK, Contents
  <2>4. [ble EXCEPT !.state = "closed"] \in BleType
    BY DEF BleType, CommitInv, TypeOK
  <2>5. [ble EXCEPT !.state = "closed"].state = "closed"
    BY DEF CommitInv, TypeOK
  <2>6. CASE /\ ble.active
             /\ screen' = [open |-> TRUE, shows |-> None, left |-> 0]
             /\ UNCHANGED <<ble, serve>>
    BY <2>1, <2>6
  <2>7. CASE /\ ~ble.active
             /\ screen' = [open |-> TRUE, shows |-> None, left |-> 0]
             /\ ble' = [active |-> TRUE, state |-> "open",
                        window |-> memory.window, age |-> 0]
             /\ serve' = "advertising"
    BY <2>1, <2>3, <2>7
  <2>8. CASE /\ ~ble.active
             /\ screen' = [open |-> TRUE, shows |-> "aborted", left |-> FLASH]
             /\ ble' = [ble EXCEPT !.state = "closed"]
             /\ UNCHANGED serve
    BY <2>2, <2>4, <2>5, <2>8
  <2> QED
    BY <2>6, <2>7, <2>8 DEF OpenPairing
<1>3. None \notin Kept /\ "open" \notin Kept /\ "closed" \notin Kept /\ "aborted" \notin Kept
  BY PairingAssumption DEF Kept, Ended
<1>4. TypeOK'
  BY <1>1, <1>2 DEF CommitInv, TypeOK, ScreenType, BleType
<1> QED
  BY <1>1, <1>2, <1>3, <1>4
  DEF CommitInv, TypeOK, CommitEndsTask, EndsAgree, OwedIsUnseen, CommitIsKept

(***************************************************************************)
(* The service's task.                                                     *)
(***************************************************************************)
LEMMA ConfigStep ==
  ASSUME CommitInv, NEW bag \in Bags, ConfigWritten(bag) PROVE CommitInv'
<1>1. memory' \in Contents
  BY AppliedContents DEF ConfigWritten, CommitInv, TypeOK
<1>2. serve = "config" /\ serve' = "control"
  BY DEF ConfigWritten
<1>3. UNCHANGED <<mode, menu, inFront, screen, ble, file, unsaved, owed>>
  BY DEF ConfigWritten, desk
<1>4. ble.state \notin Kept /\ screen.shows \notin Kept
  BY <1>2 DEF CommitInv, CommitEndsTask, EndsAgree
<1> QED
  BY <1>1, <1>2, <1>3, <1>4
  DEF CommitInv, TypeOK, CommitEndsTask, EndsAgree, OwedIsUnseen, CommitIsKept

LEMMA ClientStep ==
  ASSUME CommitInv, Connect \/ AdvertisingFails \/ ClientFails PROVE CommitInv'
<1>1. UNCHANGED <<mode, menu, inFront, screen, ble, memory, file, unsaved, owed>>
  BY DEF Connect, AdvertisingFails, ClientFails, desk, store
<1>2. serve # "done" /\ serve' \in {"advertising", "config", "done"}
  BY DEF Connect, AdvertisingFails, ClientFails
<1> QED
  BY <1>1, <1>2
  DEF CommitInv, TypeOK, CommitEndsTask, EndsAgree, OwedIsUnseen, CommitIsKept

LEMMA ControlStep ==
  ASSUME CommitInv, NEW action \in Ended \cup {None}, ControlWritten(action)
  PROVE  CommitInv'
<1>1. UNCHANGED <<mode, menu, inFront, screen, memory, file, unsaved>>
  BY DEF ControlWritten, desk, store
<1>2. ble.state \notin Kept /\ ~owed
  BY DEF ControlWritten, CommitInv, CommitEndsTask, OwedIsUnseen
<1>3. CASE ble.state = "open" /\ action \in Ended
  <2>1. /\ ble' \in BleType /\ ble'.state = action /\ ble'.active = ble.active
        /\ ble' # ble
    BY <1>3 DEF ControlWritten, Notified, CommitInv, TypeOK, BleType, Ended
  <2>2. serve' = "done"
    BY <1>3, <2>1 DEF ControlWritten, WindowOpen, Ended
  <2>3. owed' = (action \in Kept)
    BY <1>2, <2>1 DEF ControlWritten
  <2>4. screen.shows = None /\ None \notin Kept
    BY <1>3, PairingAssumption DEF CommitInv, EndsAgree, Kept, Ended
  <2>5. ble.active
    BY <1>3 DEF CommitInv, EndsAgree
  <2> QED
    BY <1>1, <1>2, <1>3, <2>1, <2>2, <2>3, <2>4, <2>5
    DEF CommitInv, TypeOK, CommitEndsTask, EndsAgree, OwedIsUnseen, CommitIsKept, BleType, Ended
<1>4. CASE ~(ble.state = "open" /\ action \in Ended)
  <2>1. ble' = ble /\ owed' = owed /\ serve' \in {"config", "done"}
    BY <1>2, <1>4 DEF ControlWritten, Notified, CommitInv, TypeOK
  <2> QED
    BY <1>1, <1>2, <2>1
    DEF CommitInv, TypeOK, CommitEndsTask, EndsAgree, OwedIsUnseen, CommitIsKept
<1> QED BY <1>3, <1>4

(***************************************************************************)
(* update(), which may notice a commit, show it, and close the screen.     *)
(***************************************************************************)
LEMMA TickedType ==
  ASSUME NEW b \in BleType
  PROVE  /\ Ticked(b) \in BleType
         /\ Ticked(b).active = b.active
         /\ Ticked(b) = b \/ (b.state = "open" /\ Ticked(b).state = "aborted")
BY DEF Ticked, WindowOpen, BleType, Ended

LEMMA UpdateStep ==
  ASSUME CommitInv, NEW cancel \in BOOLEAN, Update(cancel) PROVE CommitInv'
<1> DEFINE watching == ~Due /\ screen.shows = None
           now == IF watching THEN Ticked(ble) ELSE ble
           over == watching /\ now.state \in Ended
<1>1. UNCHANGED <<mode, menu, inFront, memory>>
  BY DEF Update, desk
<1>2. /\ now \in BleType /\ now.active = ble.active
      /\ now = ble \/ (watching /\ ble.state = "open" /\ now.state = "aborted")
  BY TickedType DEF CommitInv, TypeOK, BleType
<1>3. None \notin Kept /\ Kept \subseteq Ended /\ "aborted" \notin Kept /\ "open" \notin Ended
  BY PairingAssumption DEF Kept, Ended
<1>4. \/ /\ over /\ now.state \in Kept /\ owed' = FALSE
         /\ file' \in Files /\ unsaved' \in BOOLEAN /\ (~unsaved' => file' = memory)
      \/ ~(over /\ now.state \in Kept) /\ UNCHANGED <<file, unsaved, owed>>
  <2>1. IF over /\ now.state \in Kept THEN SaveSettings(memory) /\ owed' = FALSE
        ELSE UNCHANGED <<file, unsaved, owed>>
    BY DEF Update
  <2> QED BY <2>1, SavedSettings DEF CommitInv, TypeOK
<1>5. file' \in Files /\ unsaved' \in BOOLEAN /\ owed' \in BOOLEAN
  BY <1>4 DEF CommitInv, TypeOK
<1>6. CASE Due \/ cancel
  <2>1. screen' = ScreenClosed /\ ble' = BleClosed /\ serve' = None
    BY <1>6 DEF Update
  <2>2. /\ ble'.state = "closed" /\ screen'.shows = None
    BY <2>1 DEF ScreenClosed, BleClosed
  <2>3. owed' = FALSE
    <3>1. CASE owed
      <4>1. watching /\ ble.state \in Kept
        BY <3>1 DEF CommitInv, OwedIsUnseen, Due
      <4>2. now = ble
        BY <1>2, <1>3, <4>1
      <4> QED BY <1>3, <1>4, <4>1, <4>2
    <3>2. CASE ~owed
      BY <1>4, <3>2 DEF CommitInv, TypeOK
    <3> QED BY <3>1, <3>2
  <2>4. "closed" \notin Kept
    BY DEF Kept
  <2> QED
    BY <1>1, <1>3, <1>5, <2>1, <2>2, <2>3, <2>4, ClosedTypes
    DEF CommitInv, TypeOK, CommitEndsTask, EndsAgree, OwedIsUnseen, CommitIsKept,
        ScreenType, BleType
<1>7. CASE ~(Due \/ cancel)
  <2>1. /\ screen' = IF over THEN [screen EXCEPT !.shows = now.state, !.left = FLASH]
                     ELSE screen
        /\ ble' = now /\ serve' = serve
    BY <1>7 DEF Update
  <2>2. screen \in ScreenType
    BY DEF CommitInv, TypeOK, ScreenType
  <2>3. /\ screen' \in ScreenType
        /\ screen'.shows = IF over THEN now.state ELSE screen.shows
    <3>1. CASE over
      <4>1. now.state \in Ended /\ FLASH \in Stuck .. FLASH
        BY <3>1, PairingAssumption DEF Stuck
      <4> QED BY <2>1, <2>2, <3>1, <4>1 DEF ScreenType
    <3>2. CASE ~over
      BY <2>1, <2>2, <3>2
    <3> QED BY <3>1, <3>2
  <2>4. TypeOK'
    BY <1>1, <1>2, <1>5, <2>1, <2>3 DEF CommitInv, TypeOK, ScreenType, BleType
  <2>5. CommitEndsTask' /\ EndsAgree'
    BY <1>2, <1>3, <2>1, <2>3 DEF CommitInv, CommitEndsTask, EndsAgree
  <2>6. OwedIsUnseen'
    <3>1. CASE over /\ now.state \in Kept
      BY <1>4, <3>1 DEF OwedIsUnseen
    <3>2. CASE ~(over /\ now.state \in Kept)
      <4>1. owed' = owed
        BY <1>4, <3>2
      <4>2. ~owed
        BY <1>2, <1>3, <1>7, <3>2 DEF CommitInv, OwedIsUnseen
      <4> QED BY <4>1, <4>2 DEF OwedIsUnseen
    <3> QED BY <3>1, <3>2
  <2>7. CommitIsKept'
    <3>1. owed' => ble'.active /\ ble'.state \in Kept
      BY <2>6 DEF OwedIsUnseen
    <3>2. screen'.shows \in Kept /\ ~unsaved' => file' = memory'
      BY <1>1, <1>3, <1>4, <2>3 DEF CommitInv, CommitIsKept
    <3> QED BY <3>1, <3>2 DEF CommitIsKept
  <2> QED BY <2>4, <2>5, <2>6, <2>7 DEF CommitInv
<1> QED BY <1>6, <1>7

(***************************************************************************)
(* Time, and a restart.                                                    *)
(***************************************************************************)
LEMMA ClockStep == ASSUME CommitInv, Elapse \/ ClockWraps PROVE CommitInv'
<1>1. UNCHANGED <<mode, menu, inFront, serve, memory, file, unsaved, owed>>
  BY DEF Elapse, ClockWraps, desk, store
<1>2. ble \in BleType /\ screen \in ScreenType
  BY DEF CommitInv, TypeOK, BleType, ScreenType
<1>3. ble' \in BleType /\ ble'.state = ble.state /\ ble'.active = ble.active
  <2>1. CASE Elapse
    BY <1>2, <2>1, PairingAssumption DEF Elapse, BleType, Stuck
  <2>2. CASE ClockWraps
    BY <1>2, <2>2, PairingAssumption DEF ClockWraps, BleType, Stuck
  <2> QED BY <2>1, <2>2
<1>4. screen' \in ScreenType /\ screen'.shows = screen.shows
  <2>1. CASE Elapse
    BY <1>2, <2>1, PairingAssumption DEF Elapse, ScreenType, Stuck
  <2>2. CASE ClockWraps
    BY <1>2, <2>2, PairingAssumption DEF ClockWraps, ScreenType, Stuck
  <2> QED BY <2>1, <2>2
<1> QED
  BY <1>1, <1>3, <1>4
  DEF CommitInv, TypeOK, CommitEndsTask, EndsAgree, OwedIsUnseen, CommitIsKept,
      ScreenType, BleType

LEMMA RebootStep == ASSUME CommitInv, Reboot PROVE CommitInv'
<1>1. \A before \in {file, Unreadable} : before \in Files
  BY DEF CommitInv, TypeOK, Files
<1>2. memory' \in Contents /\ file' \in Files /\ unsaved' \in BOOLEAN
  BY <1>1, LoadedSettings DEF Reboot
<1>3. /\ mode' = "lume" /\ menu' = None /\ inFront' = TRUE
      /\ screen' = ScreenClosed /\ ble' = BleClosed /\ serve' = None /\ owed' = FALSE
  BY DEF Reboot
<1>4. ble'.state = "closed" /\ screen'.shows = None
  BY <1>3 DEF ScreenClosed, BleClosed
<1>5. None \notin Kept /\ "closed" \notin Kept
  BY PairingAssumption DEF Kept, Ended
<1> QED
  BY <1>2, <1>3, <1>4, <1>5, ClosedTypes
  DEF CommitInv, TypeOK, CommitEndsTask, EndsAgree, OwedIsUnseen, CommitIsKept,
      ScreenType, BleType

-----------------------------------------------------------------------------
LEMMA CommitInvStep == CommitInv /\ [Next]_vars => CommitInv'
<1> SUFFICES ASSUME CommitInv, [Next]_vars PROVE CommitInv' OBVIOUS
<1>1. CASE Operator
  BY <1>1, DeskStep, ChangeGroupStep, OpenPairingStep DEF Operator
<1>2. CASE Task
  BY <1>2, ConfigStep, ClientStep, ControlStep DEF Task
<1>3. CASE \E cancel \in BOOLEAN : Update(cancel)
  BY <1>3, UpdateStep
<1>4. CASE Elapse \/ ClockWraps
  BY <1>4, ClockStep
<1>5. CASE Reboot
  BY <1>5, RebootStep
<1>6. CASE UNCHANGED vars
  BY <1>6
  DEF vars, desk, store, CommitInv, TypeOK, CommitEndsTask, EndsAgree, OwedIsUnseen,
      CommitIsKept
<1> QED BY <1>1, <1>2, <1>3, <1>4, <1>5, <1>6 DEF Next

(***************************************************************************)
(* A save of what a phone commits is tried before the service stops, and   *)
(* what the badge runs with is what the file holds while a success is      *)
(* shown, unless the file could not be written.  A crash in between may    *)
(* lose the commit.                                                        *)
(***************************************************************************)
THEOREM CommitKept == Spec => []CommitIsKept
<1>1. CommitInv => CommitIsKept BY DEF CommitInv
<1> QED BY <1>1, CommitInvInit, CommitInvStep, PTL DEF Spec

(***************************************************************************)
(* Every part of a pairing is of its type, whatever the phone writes and   *)
(* whatever the file held.                                                 *)
(***************************************************************************)
THEOREM PairingTypeCorrect == Spec => []TypeOK
<1>1. CommitInv => TypeOK BY DEF CommitInv
<1> QED BY <1>1, CommitInvInit, CommitInvStep, PTL DEF Spec

=============================================================================
