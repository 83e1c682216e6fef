--------------------------- MODULE DirectorProofs ---------------------------
(***************************************************************************)
(* A Director's badge for any Shows, any number of groups, any buttons and *)
(* any long press: its types, that the Lumes follow the Show, and that a   *)
(* press acts once at most.                                                *)
(***************************************************************************)
EXTENDS Director, TLAPS

LEMMA CoveredGroups ==
  ASSUME NEW t \in Targets
  PROVE  Covered(t) \subseteq Groups
  BY ShowAssumption DEF Covered, Targets, Groups

LEMMA CycleStays ==
  ASSUME NEW g \in Targets
  PROVE  CycleGroup(g) \in Targets
  BY ShowAssumption DEF CycleGroup, Targets

(***************************************************************************)
(* The types, in two halves that hardly touch each other: what the         *)
(* operator sees, and what the Shows do.                                   *)
(***************************************************************************)
ButtonTypes ==
  /\ overlay \in {"none", "picker", "settings"}
  /\ down \subseteq AllButtons /\ mapper \in Mappers /\ tap \in BOOLEAN
  /\ credit \subseteq AllButtons /\ rearmed \subseteq AllButtons

ShowTypes ==
  /\ mode \in {"idle", "director"} /\ session \in BOOLEAN /\ built \in BOOLEAN
  /\ {initial, active, chosen} \subseteq Shows \cup {NoShow}
  /\ group \in Targets /\ file \in Targets \cup {NoFile}
  /\ lit \subseteq Groups /\ orphaned \subseteq Groups

(***************************************************************************)
(* The mapper's operations return mappers.                                 *)
(***************************************************************************)
LEMMA MapperTypes ==
  ASSUME NEW m \in Mappers, NEW d
  PROVE  /\ NewMapper \in Mappers
         /\ ResetMapper(m) \in Mappers
         /\ AgeMapper(m) \in Mappers
         /\ Polled(m, d) \in Mappers
<1> DEFINE R == [prev : BOOLEAN, held : NotHeld .. LONG_PRESS, long : BOOLEAN]
<1>0. /\ NotHeld \in NotHeld .. LONG_PRESS /\ 0 \in NotHeld .. LONG_PRESS
      /\ \A h \in 0 .. LONG_PRESS - 1 : h + 1 \in NotHeld .. LONG_PRESS
      /\ \A b \in NavButtons : m[b] \in R
  BY ButtonAssumption DEF NotHeld, Mappers
<1>1. NewMapper \in Mappers
  BY <1>0 DEF NewMapper, Mappers
<1>2. ResetMapper(m) \in Mappers
  <2>1. \A b \in NavButtons : (~Instant(b)) \in BOOLEAN
    BY DEF Instant
  <2> QED BY <1>0, <2>1 DEF ResetMapper, Mappers
<1>3. AgeMapper(m) \in Mappers
  <2>1. ASSUME NEW b \in NavButtons
        PROVE  [m[b] EXCEPT !.held = IF @ \in 0 .. LONG_PRESS - 1 THEN @ + 1 ELSE @] \in R
    BY <1>0
  <2> QED BY <2>1 DEF AgeMapper, Mappers
<1>4. Polled(m, d) \in Mappers
  <2>1. ASSUME NEW b \in NavButtons PROVE Polled(m, d)[b] \in R
    <3>1. CASE b \in d /\ ~m[b].prev
      <4>1. Polled(m, d)[b] =
              [prev |-> TRUE, held |-> IF Instant(b) THEN m[b].held ELSE 0, long |-> FALSE]
        BY <3>1 DEF Polled
      <4> QED BY <1>0, <4>1
    <3>2. CASE b \in d /\ m[b].prev
      <4>1. Polled(m, d)[b] = [m[b] EXCEPT !.long = @ \/ b \in HeldLong(m, d)]
        BY <3>2 DEF Polled
      <4>2. (m[b].long \/ b \in HeldLong(m, d)) \in BOOLEAN
        OBVIOUS
      <4> QED BY <1>0, <4>1, <4>2
    <3>3. CASE b \notin d /\ m[b].prev
      <4>1. Polled(m, d)[b] = [prev |-> FALSE, held |-> NotHeld, long |-> FALSE]
        BY <3>3 DEF Polled
      <4> QED BY <1>0, <4>1
    <3>4. CASE b \notin d /\ ~m[b].prev
      <4>1. Polled(m, d)[b] = m[b]
        BY <3>4 DEF Polled
      <4> QED BY <1>0, <4>1
    <3> QED BY <3>1, <3>2, <3>3, <3>4
  <2>2. DOMAIN Polled(m, d) = NavButtons /\ Polled(m, d) = [b \in NavButtons |-> Polled(m, d)[b]]
    BY DEF Polled
  <2> QED BY <2>1, <2>2 DEF Mappers
<1> QED BY <1>1, <1>2, <1>3, <1>4

(***************************************************************************)
(* Which step moves the buttons: most leave them alone.                    *)
(***************************************************************************)
LEMMA StepButtonTypes == ButtonTypes /\ [Next]_vars => ButtonTypes'
<1> SUFFICES ASSUME ButtonTypes, [Next]_vars PROVE ButtonTypes'
  OBVIOUS
<1>0. /\ mapper \in Mappers /\ down \subseteq AllButtons /\ credit \subseteq AllButtons
      /\ rearmed \subseteq AllButtons /\ "confirm" \in AllButtons
      /\ SeenHeld(mapper) \subseteq AllButtons
  BY DEF ButtonTypes, AllButtons, SeenHeld
<1>1. CASE UNCHANGED uiVars
  BY <1>1 DEF uiVars, ButtonTypes
<1>2. ASSUME NEW b \in AllButtons, Press(b) \/ Release(b) PROVE ButtonTypes'
  BY <1>2 DEF Press, Release, ButtonTypes
<1>3. CASE StartDirector
  BY <1>3 DEF StartDirector, ClearButtons, ButtonTypes
<1>4. CASE UpdateCancel
  <2>1. tap' \in BOOLEAN
    BY <1>4 DEF UpdateCancel, PollTap
  <2> QED BY <1>0, <1>4, <2>1 DEF UpdateCancel, ClearButtons, ButtonTypes
<1>5. CASE UpdatePoll
  <2>1. tap' \in BOOLEAN
    BY <1>5 DEF UpdatePoll, PollTap
  <2>2. overlay' \in {"none", "picker", "settings"}
    <3>1. overlay' = Opens(Acting(mapper, down))
      BY <1>5 DEF UpdatePoll
    <3> QED BY <3>1 DEF Opens
  <2>3. /\ down' \subseteq AllButtons /\ credit' \subseteq AllButtons
        /\ rearmed' \subseteq AllButtons /\ mapper' \in Mappers
    BY <1>0, <1>5, MapperTypes DEF UpdatePoll, ForgetButtons, ClearButtons
  <2> QED BY <2>1, <2>2, <2>3 DEF ButtonTypes
<1>6. ASSUME NEW s \in Shows, PickerSelect(s) PROVE ButtonTypes'
  BY <1>6 DEF PickerSelect, CloseOverlay, ButtonTypes
<1>7. CASE SettingsSelect
  BY <1>1, <1>7 DEF SettingsSelect
<1>8. CASE OverlayBack
  BY <1>8 DEF OverlayBack, CloseOverlay, ButtonTypes
<1>9. CASE SessionStarts
  BY <1>0, <1>9 DEF SessionStarts, ButtonTypes
<1>10. CASE SessionFails
  BY <1>0, <1>10 DEF SessionFails, ButtonTypes
<1>11. CASE SessionEnds
  BY <1>1, <1>11 DEF SessionEnds
<1>12. CASE Elapse
  BY <1>0, <1>12, MapperTypes DEF Elapse, ButtonTypes
<1>13. CASE Reboot
  BY <1>0, <1>13, MapperTypes DEF Reboot, ButtonTypes
<1>14. CASE UNCHANGED vars
  BY <1>1, <1>14 DEF vars
<1> QED BY <1>2, <1>3, <1>4, <1>5, <1>6, <1>7, <1>8, <1>9, <1>10, <1>11, <1>12, <1>13, <1>14
        DEF Next, Foreground, Background

-----------------------------------------------------------------------------
(***************************************************************************)
(* What a Show being left, entered or changed can do to the Lumes.         *)
(***************************************************************************)
LEMMA LitTypes ==
  ASSUME ShowTypes, NEW l \in SUBSET Groups, NEW t \in Targets, NEW show
  PROVE  /\ EnteredShow(l, show, t) \in SUBSET Groups
         /\ LeftShow(l) \in SUBSET Groups
         /\ Washed(l, t) \in SUBSET Groups
  BY CoveredGroups DEF EnteredShow, LeftShow, Washed, Ended, ShowTypes

LEMMA LoadedType ==
  ASSUME ShowTypes
  PROVE  Loaded \in Targets /\ 0 \in Targets
  BY ShowAssumption DEF Loaded, ShowTypes, Targets

LEMMA ChangePropertyTypes ==
  ASSUME ShowTypes, ChangeProperty
  PROVE  /\ UNCHANGED <<initial, active, group, chosen, orphaned>>
         /\ file' \in Targets \cup {NoFile} /\ lit' \in SUBSET Groups
<1>1. lit \in SUBSET Groups /\ group \in Targets
  BY DEF ShowTypes
<1>2. lit' \in SUBSET Groups
  BY <1>1, LitTypes DEF ChangeProperty
<1> QED BY <1>1, <1>2 DEF ChangeProperty, Flush, ShowTypes

LEMMA StepShowTypes == ShowTypes /\ [Next]_vars => ShowTypes'
<1> SUFFICES ASSUME ShowTypes, [Next]_vars PROVE ShowTypes'
  OBVIOUS
<1>0. /\ group \in Targets /\ lit \in SUBSET Groups /\ orphaned \in SUBSET Groups
      /\ Loaded \in Targets /\ 0 \in Targets
      /\ {initial, active, chosen} \subseteq Shows \cup {NoShow}
  BY LoadedType DEF ShowTypes
<1>1. CASE UNCHANGED <<showVars, diskVars>> /\ UNCHANGED <<session, built>> /\ mode' \in {mode, "idle", "director"}
  BY <1>1 DEF showVars, diskVars, ShowTypes
<1>2. ASSUME ChangeProperty, UNCHANGED <<mode, session, built>> PROVE ShowTypes'
  BY <1>2, ChangePropertyTypes DEF ShowTypes
<1>3. ASSUME ChangeGroup, UNCHANGED <<mode, session, built>> PROVE ShowTypes'
  <2>1. group' \in Targets
    BY <1>0, <1>3, CycleStays DEF ChangeGroup
  <2>2. lit' \in SUBSET Groups /\ orphaned' \in SUBSET Groups
    <3>1. lit' = Washed(lit, group')
      BY <1>3 DEF ChangeGroup
    <3>2. orphaned' = (orphaned \cup (Covered(group) \cap lit)) \ Washed({}, group')
      BY <1>3 DEF ChangeGroup
    <3> QED BY <1>0, <2>1, <3>1, <3>2, LitTypes
  <2> QED BY <1>3, <2>1, <2>2 DEF ChangeGroup, Flush, ShowTypes
<1>4. ASSUME NEW s \in Shows, PickerSelect(s) PROVE ShowTypes'
  <2>1. UNCHANGED <<mode, session, built>>
    BY <1>4 DEF PickerSelect, CloseOverlay
  <2>2. CASE s = active
    BY <1>1, <1>4, <2>1, <2>2 DEF PickerSelect
  <2>3. CASE s # active
    <3>1. Activate(s) /\ chosen' = s /\ UNCHANGED <<initial, file>>
      BY <1>4, <2>3 DEF PickerSelect
    <3>2. group' \in Targets
      BY <1>0, <3>1 DEF Activate
    <3>3. lit' \in SUBSET Groups
      <4>1. LeftShow(lit) \in SUBSET Groups
        BY <1>0, LitTypes
      <4>2. EnteredShow(LeftShow(lit), s, group') \in SUBSET Groups
        BY <3>2, <4>1, LitTypes
      <4> QED BY <3>1, <4>2 DEF Activate
    <3> QED BY <1>0, <2>1, <3>1, <3>2, <3>3 DEF Activate, ShowTypes
  <2> QED BY <2>2, <2>3
<1>5. CASE SettingsSelect
  BY <1>2, <1>3, <1>5 DEF SettingsSelect
<1>6. CASE UpdatePoll
  <2>1. UNCHANGED <<mode, session, built>> /\ (ChangeProperty \/ UNCHANGED <<showVars, diskVars>>)
    BY <1>6 DEF UpdatePoll
  <2> QED BY <1>1, <1>2, <2>1
<1>7. CASE SessionStarts
  <2>1. initial' \in Shows \cup {NoShow} /\ Restored(initial') \in Shows
    BY <1>0, <1>7, ShowAssumption DEF SessionStarts, Restored
  <2>2. group' \in Targets /\ active' \in Shows
    BY <1>0, <1>7, <2>1 DEF SessionStarts
  <2>3. lit' \in SUBSET Groups
    <3>1. Covered(group') \subseteq Groups
      BY <2>2, CoveredGroups
    <3>2. lit' \subseteq lit \cup Covered(group')
      BY <1>7 DEF SessionStarts
    <3> QED BY <1>0, <3>1, <3>2
  <2> QED BY <1>0, <1>7, <2>1, <2>2, <2>3 DEF SessionStarts, diskVars, ShowTypes
<1>8. CASE SessionFails
  BY <1>0, <1>8 DEF SessionFails, diskVars, ShowTypes
<1>9. CASE SessionEnds
  <2>1. lit' \in SUBSET Groups
    BY <1>0, <1>9, LitTypes DEF SessionEnds
  <2> QED BY <1>0, <1>9, <2>1 DEF SessionEnds, diskVars, ShowTypes
<1>10. CASE Reboot
  BY <1>0, <1>10 DEF Reboot, diskVars, ShowTypes
<1>11. ASSUME NEW b \in AllButtons, Press(b) \/ Release(b) PROVE ShowTypes'
  BY <1>1, <1>11 DEF Press, Release
<1>12. CASE StartDirector \/ UpdateCancel \/ OverlayBack \/ Elapse
  BY <1>1, <1>12 DEF StartDirector, UpdateCancel, OverlayBack, CloseOverlay, Elapse
<1>13. CASE UNCHANGED vars
  BY <1>1, <1>13 DEF vars
<1> QED BY <1>4, <1>5, <1>6, <1>7, <1>8, <1>9, <1>10, <1>11, <1>12, <1>13
        DEF Next, Foreground, Background

LEMMA AlwaysTyped == Spec => []ButtonTypes /\ []ShowTypes
<1>1. Init => ButtonTypes
  <2>1. NewMapper \in Mappers
    BY ButtonAssumption DEF NewMapper, Mappers, NotHeld
  <2> QED BY <2>1 DEF Init, ButtonTypes
<1>2. Init => ShowTypes
  <2>1. 0 \in Targets
    BY ShowAssumption DEF Targets
  <2> QED BY <2>1 DEF Init, ShowTypes
<1> QED BY <1>1, <1>2, StepButtonTypes, StepShowTypes, PTL DEF Spec

(***************************************************************************)
(* The Director's types, for any Shows and groups: in particular its group *)
(* is always one that the property may have, however the operator moves it *)
(* and whatever is read back from the file.                                *)
(***************************************************************************)
THEOREM TypeCorrect == Spec => []TypeOK
<1>1. ButtonTypes /\ ShowTypes => TypeOK
  BY DEF ButtonTypes, ShowTypes, TypeOK
<1> QED BY <1>1, AlwaysTyped, PTL

-----------------------------------------------------------------------------
(***************************************************************************)
(* Another Show is activated, in session or out of it.                     *)
(***************************************************************************)
LEMMA ActivateKeepsWash ==
  ASSUME WashFollowsShow, NEW s, Activate(s), UNCHANGED session
  PROVE  WashFollowsShow'
<1>1. lit' = EnteredShow(LeftShow(lit), s, group') /\ active' = s /\ orphaned' = orphaned \cap lit'
  BY DEF Activate
<1>2. CASE ~session
  <2>1. lit' = lit
    BY <1>1, <1>2 DEF EnteredShow, LeftShow, Washed, Ended
  <2> QED BY <1>1, <1>2, <2>1 DEF WashFollowsShow
<1>3. CASE session
  <2>1. LeftShow(lit) \subseteq orphaned
    BY <1>3 DEF LeftShow, Ended, WashFollowsShow
  <2>2. lit' = LeftShow(lit) \cup (IF s = Conductor THEN Covered(group') ELSE {})
    BY <1>1, <1>3 DEF EnteredShow, Washed
  <2> QED BY <1>1, <1>3, <2>1, <2>2 DEF WashFollowsShow
<1> QED BY <1>2, <1>3

LEMMA ChangeKeepsWash ==
  ASSUME WashFollowsShow, ChangeProperty \/ ChangeGroup, UNCHANGED session
  PROVE  WashFollowsShow'
<1>1. CASE ChangeProperty
  <2>1. lit' \in {lit, EnteredShow(lit, active, group)} /\ UNCHANGED <<active, group, orphaned>>
    BY <1>1 DEF ChangeProperty
  <2>2. lit' = lit
    BY <2>1 DEF EnteredShow, Washed, WashFollowsShow
  <2> QED BY <2>1, <2>2 DEF WashFollowsShow, Covered
<1>2. CASE ChangeGroup
  <2>1. /\ active = Conductor /\ active' = active /\ lit' = Washed(lit, group')
        /\ orphaned' = (orphaned \cup (Covered(group) \cap lit)) \ Washed({}, group')
    BY <1>2 DEF ChangeGroup
  <2> QED BY <2>1 DEF WashFollowsShow, Washed
<1> QED BY <1>1, <1>2

(***************************************************************************)
(* WashFollowsShow is inductive by itself: orphaned takes up exactly what  *)
(* a step leaves washing that no Show addresses any more.                  *)
(***************************************************************************)
LEMMA StepKeepsWash == ShowTypes /\ WashFollowsShow /\ [Next]_vars => WashFollowsShow'
<1> SUFFICES ASSUME ShowTypes, WashFollowsShow, [Next]_vars PROVE WashFollowsShow'
  OBVIOUS
<1>1. CASE UNCHANGED <<session, showVars>>
  BY <1>1 DEF showVars, WashFollowsShow, Covered
<1>2. ASSUME NEW s \in Shows, PickerSelect(s) PROVE WashFollowsShow'
  <2>1. session' = session /\ (Activate(s) \/ UNCHANGED showVars)
    BY <1>2 DEF PickerSelect, CloseOverlay
  <2> QED BY <1>1, <2>1, ActivateKeepsWash
<1>3. CASE SettingsSelect
  BY <1>3, ChangeKeepsWash DEF SettingsSelect
<1>4. CASE UpdatePoll
  <2>1. session' = session /\ (ChangeProperty \/ UNCHANGED showVars)
    BY <1>4 DEF UpdatePoll
  <2> QED BY <1>1, <2>1, ChangeKeepsWash
<1>5. CASE SessionStarts
  <2> DEFINE left == IF active = Conductor THEN lit \ Covered(group) ELSE lit
  <2>1. /\ ~session /\ session' /\ orphaned' = orphaned \cap lit'
        /\ lit' = IF active' = Conductor THEN left \cup Covered(group') ELSE left
    BY <1>5 DEF SessionStarts
  <2>2. left \subseteq orphaned
    BY <2>1 DEF WashFollowsShow
  <2> HIDE DEF left
  <2> QED BY <2>1, <2>2 DEF WashFollowsShow
<1>6. CASE SessionEnds
  <2>1. /\ session /\ ~session' /\ lit' = LeftShow(lit) /\ orphaned' = orphaned \cap lit'
    BY <1>6 DEF SessionEnds
  <2>2. lit' \subseteq orphaned
    BY <2>1 DEF LeftShow, Ended, WashFollowsShow
  <2> QED BY <2>1, <2>2 DEF WashFollowsShow
<1>7. CASE Reboot
  BY <1>7 DEF Reboot, WashFollowsShow
<1>8. CASE SessionFails
  BY <1>8 DEF SessionFails, WashFollowsShow, Covered
<1>9. ASSUME NEW b \in AllButtons, Press(b) \/ Release(b) PROVE WashFollowsShow'
  BY <1>1, <1>9 DEF Press, Release
<1>10. CASE StartDirector \/ UpdateCancel \/ OverlayBack \/ Elapse \/ UNCHANGED vars
  BY <1>1, <1>10 DEF StartDirector, UpdateCancel, OverlayBack, CloseOverlay, Elapse, vars
<1> QED BY <1>2, <1>3, <1>4, <1>5, <1>6, <1>7, <1>8, <1>9, <1>10
        DEF Next, Foreground, Background

(***************************************************************************)
(* The Lumes follow the Show, for any Shows and groups and in every order  *)
(* of sessions, Shows and moves of the target group: what is left washing  *)
(* without a Show is only what the operator moved Conductor off, or what   *)
(* lost its Director.                                                      *)
(***************************************************************************)
THEOREM LumesFollowShow == Spec => []WashFollowsShow
<1>1. Init => WashFollowsShow
  BY DEF Init, WashFollowsShow
<1> QED BY <1>1, StepKeepsWash, AlwaysTyped, PTL DEF Spec

-----------------------------------------------------------------------------
(***************************************************************************)
(* Why a press acts once.  A button the mapper has not seen yet was just   *)
(* pressed; one it still holds for, and has not acted for, has its press   *)
(* to its credit, or is one it was left holding when the mode was left; a  *)
(* confirm that is new to the tap source was just pressed, or was held     *)
(* when the session that forgot it started.                                *)
(***************************************************************************)
NewIsPressed == \A b \in NavButtons : b \in down /\ ~mapper[b].prev => b \in credit

HeldIsOwed ==
  \A b \in NavButtons :
    ~Instant(b) /\ mapper[b].prev /\ ~mapper[b].long => b \in credit \cup rearmed

LeftIsRearmed == mode = "idle" => SeenHeld(mapper) \subseteq rearmed

TapIsOwed == "confirm" \in down /\ ~tap => "confirm" \in credit \cup rearmed

PressInv == NewIsPressed /\ HeldIsOwed /\ LeftIsRearmed /\ TapIsOwed

(***************************************************************************)
(* What the operators on mappers make of a button.                         *)
(***************************************************************************)
LEMMA ButtonAfter ==
  ASSUME NEW m \in Mappers, NEW d, NEW b \in NavButtons
  PROVE  /\ ResetMapper(m)[b].prev /\ (~Instant(b) => ResetMapper(m)[b].long)
         /\ ~NewMapper[b].prev
         /\ AgeMapper(m)[b].prev = m[b].prev /\ AgeMapper(m)[b].long = m[b].long
         /\ Polled(m, d)[b].prev <=> b \in d
         /\ Polled(m, d)[b].prev /\ ~Polled(m, d)[b].long /\ ~Instant(b)
              => b \notin Acting(m, d) /\ (m[b].prev => ~m[b].long)
<1>0. m[b] \in [prev : BOOLEAN, held : NotHeld .. LONG_PRESS, long : BOOLEAN]
  BY DEF Mappers
<1>1. /\ ResetMapper(m)[b].prev /\ (~Instant(b) => ResetMapper(m)[b].long)
      /\ ~NewMapper[b].prev
  BY DEF ResetMapper, NewMapper
<1>2. AgeMapper(m)[b].prev = m[b].prev /\ AgeMapper(m)[b].long = m[b].long
  <2>1. AgeMapper(m)[b] = [m[b] EXCEPT !.held = IF @ \in 0 .. LONG_PRESS - 1 THEN @ + 1 ELSE @]
    BY DEF AgeMapper
  <2> QED BY <1>0, <2>1
<1>3. CASE b \in d /\ ~m[b].prev
  <2>1. Polled(m, d)[b].prev
    BY <1>3 DEF Polled
  <2>2. ~Instant(b) => b \notin Acting(m, d)
    BY <1>3 DEF Acting, Pressed, HeldLong, Released
  <2> QED BY <1>1, <1>2, <1>3, <2>1, <2>2
<1>4. CASE b \in d /\ m[b].prev
  <2>1. Polled(m, d)[b] = [m[b] EXCEPT !.long = @ \/ b \in HeldLong(m, d)]
    BY <1>4 DEF Polled
  <2>2. /\ Polled(m, d)[b].prev = m[b].prev
        /\ Polled(m, d)[b].long = (m[b].long \/ b \in HeldLong(m, d))
    BY <1>0, <2>1
  <2>3. ~Instant(b) /\ b \notin HeldLong(m, d) => b \notin Acting(m, d)
    BY <1>4 DEF Acting, Pressed, Released
  <2> QED BY <1>1, <1>2, <1>4, <2>2, <2>3
<1>5. CASE b \notin d
  <2>1. ~Polled(m, d)[b].prev
    BY <1>5 DEF Polled
  <2> QED BY <1>1, <1>2, <1>5, <2>1
<1> QED BY <1>3, <1>4, <1>5

LEMMA PressKept ==
  ASSUME PressInv, UNCHANGED <<down, credit, rearmed, tap>>,
         mode' = mode,
         \A b \in NavButtons : mapper'[b].prev = mapper[b].prev /\ mapper'[b].long = mapper[b].long
  PROVE  PressInv'
<1>1. NewIsPressed' /\ HeldIsOwed'
  BY DEF PressInv, NewIsPressed, HeldIsOwed
<1>2. LeftIsRearmed' /\ TapIsOwed'
  BY DEF PressInv, LeftIsRearmed, TapIsOwed, SeenHeld
<1> QED BY <1>1, <1>2 DEF PressInv

(***************************************************************************)
(* A poll that opens no overlay.                                           *)
(***************************************************************************)
LEMMA PollKeepsPress ==
  ASSUME ButtonTypes, PressInv, mode' = "director",
         NEW acting, acting = Acting(mapper, down), NEW taps \in SUBSET {"confirm"},
         down' = down, mapper' = Polled(mapper, down), tap' = ("confirm" \in down),
         credit' = (credit \ (acting \cup taps)) \cap down,
         rearmed' = (rearmed \ (acting \cup taps)) \cap down
  PROVE  PressInv'
<1>0. mapper \in Mappers
  BY DEF ButtonTypes
<1>1. NewIsPressed'
  BY <1>0, ButtonAfter DEF NewIsPressed
<1>2. HeldIsOwed'
  <2> SUFFICES ASSUME NEW b \in NavButtons, ~Instant(b), mapper'[b].prev, ~mapper'[b].long
               PROVE  b \in credit' \cup rearmed'
    BY DEF HeldIsOwed
  <2>1. b \in down /\ b \notin acting /\ (mapper[b].prev => ~mapper[b].long)
    BY <1>0, ButtonAfter
  <2>2. b \notin taps
    BY ButtonAssumption
  <2>3. b \in credit \cup rearmed
    BY <2>1 DEF PressInv, NewIsPressed, HeldIsOwed
  <2> QED BY <2>1, <2>2, <2>3
<1>3. LeftIsRearmed' /\ TapIsOwed'
  BY DEF LeftIsRearmed, TapIsOwed
<1> QED BY <1>1, <1>2, <1>3 DEF PressInv

LEMMA StepPress == ButtonTypes /\ ShowTypes /\ PressInv /\ [Next]_vars => PressInv'
<1> SUFFICES ASSUME ButtonTypes, ShowTypes, PressInv, [Next]_vars PROVE PressInv'
  OBVIOUS
<1>0. mapper \in Mappers /\ mode \in {"idle", "director"}
  BY DEF ButtonTypes, ShowTypes
<1>1. CASE UNCHANGED <<mode, down, mapper, tap, credit, rearmed>>
  BY <1>1, PressKept
<1>2. ASSUME NEW b \in AllButtons, Press(b) PROVE PressInv'
  <2>1. /\ down' = down \cup {b} /\ credit' = credit \cup ({b} \ {"cancel"})
        /\ UNCHANGED <<mode, mapper, tap, rearmed>> /\ mode = "director"
    BY <1>2 DEF Press, OutsideMenus
  <2>2. "cancel" \notin NavButtons
    BY ButtonAssumption
  <2> QED BY <2>1, <2>2 DEF PressInv, NewIsPressed, HeldIsOwed, LeftIsRearmed, TapIsOwed
<1>3. ASSUME NEW b \in AllButtons, Release(b) PROVE PressInv'
  <2>1. down' = down \ {b} /\ UNCHANGED <<mode, credit, mapper, tap, rearmed>>
    BY <1>3 DEF Release
  <2> QED BY <2>1 DEF PressInv, NewIsPressed, HeldIsOwed, LeftIsRearmed, TapIsOwed, SeenHeld
<1>4. CASE StartDirector
  <2>1. /\ mode = "idle" /\ mode' = "director" /\ down' = {} /\ credit' = {}
        /\ UNCHANGED <<mapper, tap, rearmed>>
    BY <1>4 DEF StartDirector, ClearButtons
  <2>2. HeldIsOwed'
    BY <2>1 DEF PressInv, LeftIsRearmed, SeenHeld, HeldIsOwed
  <2> QED BY <2>1, <2>2 DEF PressInv, NewIsPressed, LeftIsRearmed, TapIsOwed
<1>5. CASE UpdateCancel
  <2>1. /\ mode' = "idle" /\ down' = {} /\ credit' = {}
        /\ mapper' = mapper /\ rearmed' = SeenHeld(mapper)
    BY <1>5 DEF UpdateCancel, ClearButtons
  <2> QED BY <2>1 DEF PressInv, NewIsPressed, HeldIsOwed, LeftIsRearmed, TapIsOwed, SeenHeld
<1>6. CASE UpdatePoll
  <2>1. mode = "director" /\ mode' = "director" /\ tap' = ("confirm" \in down)
    BY <1>6 DEF UpdatePoll, OutsideMenus, PollTap
  <2>2. CASE overlay' # "none"
    <3>1. down' = {} /\ mapper' = ResetMapper(mapper)
      BY <1>6, <2>2 DEF UpdatePoll, ForgetButtons, ClearButtons
    <3> QED BY <1>0, <2>1, <3>1, ButtonAfter
            DEF PressInv, NewIsPressed, HeldIsOwed, LeftIsRearmed, TapIsOwed
  <2>3. CASE overlay' = "none"
    <3> DEFINE taps == IF Taps(tap, down) THEN {"confirm"} ELSE {}
    <3>1. /\ down' = down /\ mapper' = Polled(mapper, down)
          /\ credit' = (credit \ (Acting(mapper, down) \cup taps)) \cap down
          /\ rearmed' = (rearmed \ (Acting(mapper, down) \cup taps)) \cap down
      BY <1>6, <2>3 DEF UpdatePoll
    <3>2. taps \in SUBSET {"confirm"}
      OBVIOUS
    <3> HIDE DEF taps
    <3> QED BY <2>1, <3>1, <3>2, PollKeepsPress
  <2> QED BY <2>2, <2>3
<1>7. CASE SessionStarts
  <2>1. /\ tap' = FALSE /\ rearmed' = rearmed \cup (IF tap THEN {"confirm"} ELSE {})
        /\ UNCHANGED <<mode, down, mapper, credit>>
    BY <1>7 DEF SessionStarts
  <2> QED BY <2>1 DEF PressInv, NewIsPressed, HeldIsOwed, LeftIsRearmed, TapIsOwed
<1>8. CASE SessionFails
  <2>1. /\ mode' = "idle" /\ rearmed' = rearmed \cup SeenHeld(mapper)
        /\ UNCHANGED <<down, mapper, tap, credit>>
    BY <1>8 DEF SessionFails
  <2> QED BY <2>1 DEF PressInv, NewIsPressed, HeldIsOwed, LeftIsRearmed, TapIsOwed
<1>9. CASE Elapse
  <2>1. mapper' = AgeMapper(mapper) /\ UNCHANGED <<mode, down, tap, credit, rearmed>>
    BY <1>9 DEF Elapse
  <2> QED BY <1>0, <2>1, ButtonAfter, PressKept
<1>10. CASE Reboot
  <2>1. /\ mode' = "idle" /\ down' = {} /\ mapper' = NewMapper
    BY <1>10 DEF Reboot
  <2> QED BY <1>0, <2>1, ButtonAfter
          DEF PressInv, NewIsPressed, HeldIsOwed, LeftIsRearmed, TapIsOwed, SeenHeld
<1>11. ASSUME NEW s \in Shows, PickerSelect(s) PROVE PressInv'
  BY <1>1, <1>11 DEF PickerSelect, CloseOverlay
<1>12. CASE SettingsSelect \/ OverlayBack \/ SessionEnds \/ UNCHANGED vars
  BY <1>1, <1>12 DEF SettingsSelect, OverlayBack, CloseOverlay, SessionEnds, uiVars, vars
<1> QED BY <1>2, <1>3, <1>4, <1>5, <1>6, <1>7, <1>8, <1>9, <1>10, <1>11, <1>12
        DEF Next, Foreground, Background

(***************************************************************************)
(* A press of a button acts once at most, as a short or a long one, for    *)
(* any buttons and any length of the long press, and through every overlay *)
(* and session that begins or ends while it is held; the exceptions are    *)
(* the two that PressActsOnce names.                                       *)
(***************************************************************************)
THEOREM PressesActOnce == Spec => PressActsOnce
<1>1. Init => PressInv
  <2>1. \A b \in NavButtons : ~NewMapper[b].prev
    BY DEF NewMapper
  <2> QED BY <2>1 DEF Init, PressInv, NewIsPressed, HeldIsOwed, LeftIsRearmed, TapIsOwed, SeenHeld
<1>2. PressInv => Acting(mapper, down) \subseteq credit \cup rearmed
  BY DEF PressInv, NewIsPressed, HeldIsOwed, Acting, Pressed, HeldLong, Released
<1>3. PressInv => (Taps(tap, down) => "confirm" \in credit \cup rearmed)
  BY DEF PressInv, TapIsOwed, Taps
<1>4. PressInv /\ [Next]_vars =>
        [/\ UpdatePoll => Acting(mapper, down) \subseteq credit \cup rearmed
         /\ (UpdatePoll \/ UpdateCancel) =>
              (Taps(tap, down) => "confirm" \in credit \cup rearmed)]_vars
  BY <1>2, <1>3
<1> QED BY <1>1, <1>4, StepPress, AlwaysTyped, PTL DEF Spec, PressActsOnce

=============================================================================
