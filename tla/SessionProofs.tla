---------------------------- MODULE SessionProofs ----------------------------
(***************************************************************************)
(* What holds of the hand-over between modes for every choice of channels, *)
(* scan order and frames.                                                  *)
(***************************************************************************)
EXTENDS Sessions, SequenceTheorems, TLAPS

(***************************************************************************)
(* The inductive invariant.  A session started just when a scan has ended  *)
(* finds the radio still held, and the scanner of the session before; that *)
(* one was scanning, so its scanner knows every channel.  After any other  *)
(* session the radio is given back first, and the next session makes its   *)
(* own scanner.                                                            *)
(***************************************************************************)
IdleIsNoticed ==
  /\ mode # "idle" => ~unseen
  /\ stage = "receive" => mode = "lume" \/ (mode = "idle" /\ unseen)
  /\ stage = "director" => mode = "director" \/ (mode = "idle" /\ unseen)

ScannerFitsPin ==
  /\ stage = "scan" => scanner.order = SCAN_ORDER
  /\ stage = "top" /\ held => unseen \/ scanner.order = SCAN_ORDER
  /\ stage = "held" =>
       \/ scanner.order = SCAN_ORDER
       \/ pin # None /\ scanner.order = <<pin>>

Typed ==
  /\ pin \in Pins \cup {None} /\ mode \in {"idle", "lume", "director"}
  /\ scanner = [order |-> scanner.order, index |-> scanner.index,
                locked |-> scanner.locked]

Inductive ==
  Typed /\ IdleIsNoticed /\ ScannerFitsPin /\ TaskSurvives /\ DirectorOnItsChannel

-----------------------------------------------------------------------------
(***************************************************************************)
(* A scanner made for the present Channel setting, or one that scans all,  *)
(* knows a pinned channel.                                                 *)
(***************************************************************************)
LEMMA PinIsKnown ==
  ASSUME Inductive, stage = "held", pin # None
  PROVE  Knows(scanner, pin)
<1>1. CASE scanner.order = SCAN_ORDER
  BY <1>1, SessionAssumption DEF Inductive, Typed, Knows
<1>2. CASE scanner.order = <<pin>>
  <2>1. 1 \in DOMAIN <<pin>> /\ <<pin>>[1] = pin
    OBVIOUS
  <2> QED BY <1>2, <2>1 DEF Knows
<1> QED BY <1>1, <1>2 DEF Inductive, ScannerFitsPin

LEMMA InitiallyInductive == Init => Inductive
BY SessionAssumption
DEF Init, Scanner, Inductive, Typed, IdleIsNoticed, ScannerFitsPin, TaskSurvives,
    DirectorOnItsChannel

-----------------------------------------------------------------------------
(***************************************************************************)
(* The operator's steps and the interrupt handler's.                       *)
(***************************************************************************)
LEMMA OperatorStep == Inductive /\ Operator => Inductive'
<1> SUFFICES ASSUME Inductive, Operator PROVE Inductive'
  OBVIOUS
<1> USE DEF Inductive, Typed, IdleIsNoticed, ScannerFitsPin, TaskSurvives,
            DirectorOnItsChannel
<1>1. CASE \E m \in {"lume", "director"} : StartMode(m)
  BY <1>1 DEF StartMode, radio
<1>2. CASE StopToIdle
  BY <1>2 DEF StopToIdle, radio
<1>3. CASE ChangeSettings
  BY <1>3 DEF ChangeSettings, radio
<1> QED BY <1>1, <1>2, <1>3 DEF Operator

LEMMA InterruptStep ==
  ASSUME Inductive, NEW f \in OnAir, Interrupt(f)
  PROVE  Inductive'
BY DEF Interrupt, radio, operator, Inductive, Typed, IdleIsNoticed, ScannerFitsPin,
       TaskSurvives, DirectorOnItsChannel

-----------------------------------------------------------------------------
(***************************************************************************)
(* The background task's steps.                                            *)
(***************************************************************************)
LEMMA RadioStep == Inductive /\ (ReleaseRadio \/ AcquireRadio) => Inductive'
<1> SUFFICES ASSUME Inductive, ReleaseRadio \/ AcquireRadio PROVE Inductive'
  OBVIOUS
<1> USE DEF Inductive, Typed, IdleIsNoticed, ScannerFitsPin, TaskSurvives,
            DirectorOnItsChannel
<1>1. CASE ReleaseRadio
  BY <1>1 DEF ReleaseRadio
<1>2. CASE AcquireRadio
  BY <1>2 DEF AcquireRadio, MakeScanner, Scanner, radio
<1> QED BY <1>1, <1>2

LEMMA PinnedStep == Inductive /\ EnterPinned => Inductive'
<1> SUFFICES ASSUME Inductive, EnterPinned PROVE Inductive'
  OBVIOUS
<1>1. Knows(scanner, pin)
  BY PinIsKnown DEF EnterPinned
<1>2. /\ stage' = "receive" /\ mode = "lume" /\ UNCHANGED operator
      /\ scanner' = [scanner EXCEPT !.locked = pin]
  BY <1>1 DEF EnterPinned, GoReceive
<1> QED
  BY <1>2 DEF operator, Inductive, Typed, IdleIsNoticed, ScannerFitsPin, TaskSurvives,
              DirectorOnItsChannel

LEMMA AutoStep == Inductive /\ EnterAuto => Inductive'
<1> SUFFICES ASSUME Inductive, EnterAuto PROVE Inductive'
  OBVIOUS
<1>1. /\ stage' \in {"receive", "scan"} /\ mode = "lume"
      /\ scanner.order = SCAN_ORDER /\ UNCHANGED <<operator, scanner>>
  BY DEF EnterAuto, ListenOn, GoReceive, Inductive, ScannerFitsPin
<1> QED
  BY <1>1 DEF operator, Inductive, Typed, IdleIsNoticed, ScannerFitsPin, TaskSurvives,
              DirectorOnItsChannel

LEMMA ScanStep == Inductive /\ (ScanFrame \/ DwellEnds) => Inductive'
<1> SUFFICES ASSUME Inductive, ScanFrame \/ DwellEnds PROVE Inductive'
  OBVIOUS
<1>1. /\ stage' \in {"scan", "top"} \/ (stage' = "receive" /\ mode = "lume")
      /\ UNCHANGED operator
  BY DEF ScanFrame, DwellEnds, ListenOn, GoReceive
<1>2. /\ scanner'.order = SCAN_ORDER
      /\ scanner' = [order |-> scanner'.order, index |-> scanner'.index,
                     locked |-> scanner'.locked]
  BY DEF ScanFrame, DwellEnds, Advance, Inductive, Typed, ScannerFitsPin
<1> QED
  BY <1>1, <1>2 DEF operator, Inductive, Typed, IdleIsNoticed, ScannerFitsPin,
                    TaskSurvives, DirectorOnItsChannel

LEMMA ReceiveStep ==
  Inductive /\ (ReceiveFrame \/ ReceiveTick \/ EndLume) => Inductive'
BY DEF ReceiveFrame, ReceiveTick, EndLume, operator, radio, Inductive, Typed,
       IdleIsNoticed, ScannerFitsPin, TaskSurvives, DirectorOnItsChannel

LEMMA DirectorStep ==
  Inductive /\ (EnterDirector \/ DirectorFails \/ EndDirector) => Inductive'
<1> SUFFICES ASSUME Inductive, EnterDirector \/ DirectorFails \/ EndDirector
             PROVE  Inductive'
  OBVIOUS
<1> USE DEF operator, radio, Inductive, Typed, IdleIsNoticed, ScannerFitsPin,
            TaskSurvives, DirectorOnItsChannel
<1>1. CASE EnterDirector
  BY <1>1 DEF EnterDirector, Settings, Bounced
<1>2. CASE DirectorFails
  BY <1>2 DEF DirectorFails
<1>3. CASE EndDirector
  BY <1>3 DEF EndDirector
<1> QED BY <1>1, <1>2, <1>3

-----------------------------------------------------------------------------
LEMMA AlwaysInductive == Spec => []Inductive
<1>1. Inductive /\ [Next]_vars => Inductive'
  <2>1. Inductive /\ Next => Inductive'
    BY OperatorStep, InterruptStep, RadioStep, PinnedStep, AutoStep, ScanStep,
       ReceiveStep, DirectorStep
    DEF Next, Task
  <2>2. Inductive /\ UNCHANGED vars => Inductive'
    BY DEF vars, operator, radio, Inductive, Typed, IdleIsNoticed, ScannerFitsPin,
           TaskSurvives, DirectorOnItsChannel
  <2> QED BY <2>1, <2>2
<1> QED BY <1>1, InitiallyInductive, PTL DEF Spec

(***************************************************************************)
(* No order of mode changes and Channel settings ends the background task: *)
(* a session that pins a channel has a scanner that knows it.              *)
(***************************************************************************)
THEOREM TaskAlwaysSurvives == Spec => []TaskSurvives
<1>1. Inductive => TaskSurvives
  BY DEF Inductive
<1> QED BY <1>1, AlwaysInductive, PTL

(***************************************************************************)
(* A Director transmits on its own channel only, on a radio that obeys the *)
(* first setting of its channel after coming up and may silently ignore    *)
(* any other.                                                              *)
(***************************************************************************)
THEOREM DirectorAlwaysOnItsChannel == Spec => []DirectorOnItsChannel
<1>1. Inductive => DirectorOnItsChannel
  BY DEF Inductive
<1> QED BY <1>1, AlwaysInductive, PTL

-----------------------------------------------------------------------------
(***************************************************************************)
(* Types.  A scanner always points at one of its channels, and what it has *)
(* locked is a channel or nothing.                                         *)
(***************************************************************************)
Pointed(s) ==
  /\ s = [order |-> s.order, index |-> s.index, locked |-> s.locked]
  /\ s.order \in Seq(Channels) /\ s.index \in DOMAIN s.order
  /\ s.locked \in Channels \cup {None}

TypeInv == TypeOK /\ Pointed(scanner)

LEMMA NewScannerPointed ==
  ASSUME NEW order \in Seq(Channels), order # <<>>
  PROVE  Pointed(Scanner(order))
<1>1. 1 \in DOMAIN order
  <2>1. Len(order) \in Nat /\ DOMAIN order = 1 .. Len(order)
    BY LenProperties
  <2>2. Len(order) # 0
    BY EmptySeq
  <2> QED BY <2>1, <2>2
<1> QED BY <1>1 DEF Scanner, Pointed

LEMMA MakeScannerPointed ==
  ASSUME pin \in Pins \cup {None}
  PROVE  Pointed(MakeScanner)
<1>1. CASE pin = None
  BY <1>1, SessionAssumption, NewScannerPointed DEF MakeScanner
<1>2. CASE pin # None
  <2>1. pin \in Channels
    BY <1>2, SessionAssumption
  <2>2. <<pin>> \in Seq(Channels) /\ <<pin>> # <<>>
    BY <2>1
  <2> QED BY <1>2, <2>2, NewScannerPointed DEF MakeScanner
<1> QED BY <1>1, <1>2

LEMMA CurrentIsChannel ==
  ASSUME NEW s, Pointed(s)
  PROVE  Current(s) \in Channels
<1>1. s.order[s.index] \in Channels
  BY LenProperties, ElementOfSeq DEF Pointed
<1> QED BY <1>1 DEF Current, Pointed

LEMMA AdvancePointed ==
  ASSUME NEW s, Pointed(s)
  PROVE  Pointed(Advance(s))
<1> DEFINE i == (s.index % Len(s.order)) + 1
<1>1. Len(s.order) \in Nat /\ DOMAIN s.order = 1 .. Len(s.order) /\ s.index \in 1 .. Len(s.order)
  BY LenProperties DEF Pointed
<1>2. i \in DOMAIN s.order
  BY <1>1
<1>3. Advance(s) = [order |-> s.order, index |-> i, locked |-> s.locked]
  BY DEF Advance, Pointed
<1> HIDE DEF i
<1> QED BY <1>2, <1>3 DEF Pointed

LEMMA LockedPointed ==
  ASSUME NEW s, Pointed(s), NEW channel \in Channels
  PROVE  Pointed([s EXCEPT !.locked = channel])
<1>1. [s EXCEPT !.locked = channel] = [order |-> s.order, index |-> s.index, locked |-> channel]
  BY DEF Pointed
<1> QED BY <1>1 DEF Pointed

(***************************************************************************)
(* The first frame waiting, and what is left without it.                   *)
(***************************************************************************)
LEMMA FrameTaken ==
  ASSUME TypeOK, pending # <<>>
  PROVE  /\ Head(pending).source \in Sources
         /\ Tail(pending) \in Seq(OnAir) /\ Len(Tail(pending)) <= MaxPending
<1>1. /\ Head(pending) \in OnAir /\ Tail(pending) \in Seq(OnAir)
      /\ Len(Tail(pending)) = Len(pending) - 1
  BY HeadTailProperties DEF TypeOK
<1>2. Head(pending).source \in Sources
  BY <1>1, SessionAssumption
<1>3. Len(pending) \in Nat /\ Len(pending) <= MaxPending /\ MaxPending \in Nat
  BY SessionAssumption, LenProperties DEF TypeOK
<1> QED BY <1>1, <1>2, <1>3

LEMMA AdmitTyped ==
  ASSUME NEW lock \in Locks, NEW source \in Sources, NEW channel
  PROVE  AfterAdmit(lock, source, channel) \in Locks
  BY TimeoutAssumption DEF AfterAdmit, Locks

LEMMA UnlockedTyped == Unlocked \in Locks
  BY TimeoutAssumption DEF Unlocked, Locks

LEMMA InitiallyTyped == Init => TypeInv
<1> SUFFICES ASSUME Init PROVE TypeInv
  OBVIOUS
<1>1. Pointed(scanner)
  BY SessionAssumption, NewScannerPointed DEF Init
<1>2. pending \in Seq(OnAir) /\ Len(pending) <= MaxPending
  BY SessionAssumption, EmptySeq DEF Init
<1> QED BY <1>1, <1>2, UnlockedTyped DEF Init, TypeInv, TypeOK, Pointed

LEMMA OperatorTyped == TypeInv /\ Operator => TypeInv'
<1> SUFFICES ASSUME TypeInv, Operator PROVE TypeInv'
  OBVIOUS
<1> USE DEF TypeInv, TypeOK, Pointed, radio
<1>1. CASE \E m \in {"lume", "director"} : StartMode(m)
  BY <1>1 DEF StartMode
<1>2. CASE StopToIdle
  BY <1>2 DEF StopToIdle
<1>3. CASE ChangeSettings
  BY <1>3, UnlockedTyped DEF ChangeSettings
<1> QED BY <1>1, <1>2, <1>3 DEF Operator

LEMMA InterruptTyped ==
  ASSUME TypeInv, NEW f \in OnAir, Interrupt(f)
  PROVE  TypeInv'
<1>1. pending' \in Seq(OnAir) /\ Len(pending') <= MaxPending
  <2>1. Len(pending) \in Nat /\ Len(pending) < MaxPending /\ MaxPending \in Nat
    BY SessionAssumption, LenProperties DEF TypeInv, TypeOK, Interrupt
  <2>2. pending' \in Seq(OnAir) /\ Len(pending') = Len(pending) + 1
    BY AppendProperties DEF TypeInv, TypeOK, Interrupt
  <2> QED BY <2>1, <2>2
<1>2. /\ UNCHANGED <<mode, pin, repeat, unseen, stage, held, wifi, esp, fresh, tuned>>
      /\ UNCHANGED <<receive_channel, scanner, tofu, fsm, gate>>
  BY DEF Interrupt, operator, radio
<1> QED BY <1>1, <1>2 DEF TypeInv, TypeOK, Pointed

LEMMA RadioTyped == TypeInv /\ (ReleaseRadio \/ AcquireRadio) => TypeInv'
<1> SUFFICES ASSUME TypeInv, ReleaseRadio \/ AcquireRadio PROVE TypeInv'
  OBVIOUS
<1>1. CASE ReleaseRadio
  BY <1>1, ZenonT(60) DEF ReleaseRadio, TypeInv, TypeOK, Pointed
<1>2. CASE AcquireRadio
  <2>1. Pointed(scanner')
    <3>1. Pointed(scanner) /\ pin \in Pins \cup {None}
      BY DEF TypeInv, TypeOK
    <3>2. scanner' \in {scanner, MakeScanner}
      BY <1>2 DEF AcquireRadio
    <3> QED BY <3>1, <3>2, MakeScannerPointed
  <2>2. /\ UNCHANGED <<pin, repeat, unseen, receive_channel, pending, fsm, gate>>
        /\ held' \in BOOLEAN /\ wifi' \in BOOLEAN /\ esp' \in BOOLEAN /\ fresh' \in BOOLEAN
        /\ mode' \in {mode, "idle"} /\ stage' \in {stage, "held"}
        /\ tuned' \in {tuned, None} /\ tofu' \in {tofu, Unlocked}
    BY <1>2 DEF AcquireRadio, radio, TypeInv, TypeOK
  <2> QED BY <2>1, <2>2, UnlockedTyped DEF TypeInv, TypeOK, Pointed
<1> QED BY <1>1, <1>2

(***************************************************************************)
(* Whatever the radio answers, it is on a channel or on none that was set. *)
(***************************************************************************)
LEMMA SettingsTyped ==
  ASSUME TypeInv, NEW channel \in Channels, NEW first, NEW outcome \in Settings(channel, first)
  PROVE  outcome.tuned \in Channels \cup {None}
  BY DEF Settings, TypeInv, TypeOK

LEMMA GoReceiveTyped ==
  ASSUME GoReceive
  PROVE  stage' \in {"top", "receive"} /\ fsm' \in {None, "quiet"}
  BY DEF GoReceive, StartRepeater

LEMMA ListenOnTyped ==
  ASSUME TypeInv, NEW channel \in Channels, NEW first,
         NEW outcome \in Settings(channel, first), ListenOn(channel, outcome)
  PROVE  /\ tuned' \in Channels \cup {None} /\ receive_channel' \in Channels \cup {None}
         /\ fresh' \in BOOLEAN /\ stage' \in {"top", "receive", "scan"}
         /\ fsm' \in {None, "quiet", "relaying"}
<1>1. tuned' \in Channels \cup {None} /\ fresh' \in BOOLEAN
  BY SettingsTyped DEF ListenOn
<1>2. CASE outcome.raised
  BY <1>1, <1>2, GoReceiveTyped DEF ListenOn, TypeInv, TypeOK
<1>3. CASE ~outcome.raised
  BY <1>1, <1>3 DEF ListenOn, TypeInv, TypeOK
<1> QED BY <1>2, <1>3

LEMMA PinnedTyped == TypeInv /\ EnterPinned => TypeInv'
<1> SUFFICES ASSUME TypeInv, EnterPinned PROVE TypeInv'
  OBVIOUS
<1>1. pin \in Channels
  BY SessionAssumption DEF EnterPinned, TypeInv, TypeOK
<1>2. tuned' \in Channels \cup {None}
  BY <1>1, SettingsTyped DEF EnterPinned
<1>3. Pointed(scanner')
  BY <1>1, LockedPointed DEF EnterPinned, TypeInv
<1>4. stage' \in {"top", "receive", "crashed"} /\ fsm' \in {None, "quiet", "relaying"}
  BY GoReceiveTyped DEF EnterPinned, TypeInv, TypeOK
<1> QED BY <1>1, <1>2, <1>3, <1>4 DEF EnterPinned, operator, TypeInv, TypeOK, Pointed

LEMMA AutoTyped == TypeInv /\ EnterAuto => TypeInv'
<1> SUFFICES ASSUME TypeInv, EnterAuto PROVE TypeInv'
  OBVIOUS
<1>1. Current(scanner) \in Channels
  BY CurrentIsChannel DEF TypeInv
<1>2. /\ tuned' \in Channels \cup {None} /\ receive_channel' \in Channels \cup {None}
      /\ fresh' \in BOOLEAN /\ stage' \in {"top", "receive", "scan"}
      /\ fsm' \in {None, "quiet", "relaying"}
  <2>1. CASE scanner.locked # None
    BY <2>1, GoReceiveTyped DEF EnterAuto, TypeInv, TypeOK
  <2>2. CASE scanner.locked = None
    BY <1>1, <2>2, ListenOnTyped DEF EnterAuto
  <2> QED BY <2>1, <2>2
<1> QED BY <1>2 DEF EnterAuto, operator, TypeInv, TypeOK, Pointed

LEMMA ScanFrameTyped == TypeInv /\ ScanFrame => TypeInv'
<1> SUFFICES ASSUME TypeInv, ScanFrame PROVE TypeInv'
  OBVIOUS
<1>1. Head(pending).source \in Sources /\ pending' \in Seq(OnAir) /\ Len(pending') <= MaxPending
  BY FrameTaken DEF ScanFrame, TypeInv
<1>2. tofu' \in Locks
  BY <1>1, AdmitTyped DEF ScanFrame, TypeInv, TypeOK
<1>3. Pointed(scanner')
  BY CurrentIsChannel, LockedPointed DEF ScanFrame, TypeInv
<1>4. stage' \in {"top", "receive", "scan"} /\ fsm' \in {None, "quiet", "relaying"}
  BY GoReceiveTyped DEF ScanFrame, TypeInv, TypeOK
<1> QED BY <1>1, <1>2, <1>3, <1>4 DEF ScanFrame, operator, radio, TypeInv, TypeOK, Pointed

LEMMA DwellEndsTyped == TypeInv /\ DwellEnds => TypeInv'
<1> SUFFICES ASSUME TypeInv, DwellEnds PROVE TypeInv'
  OBVIOUS
<1>1. Pointed(scanner')
  BY AdvancePointed DEF DwellEnds, TypeInv
<1>2. Current(scanner') \in Channels
  BY <1>1, CurrentIsChannel
<1>3. /\ tuned' \in Channels \cup {None} /\ receive_channel' \in Channels \cup {None}
      /\ fresh' \in BOOLEAN /\ stage' \in {"top", "receive", "scan"}
      /\ fsm' \in {None, "quiet", "relaying"} /\ esp' \in BOOLEAN
  <2>1. CASE GoReceive /\ esp' \in {esp, FALSE} /\ UNCHANGED <<fresh, tuned, receive_channel>>
    BY <2>1, GoReceiveTyped DEF TypeInv, TypeOK
  <2>2. CASE \E outcome \in Settings(Current(scanner'), Bounced(fresh)) :
               ListenOn(Current(scanner'), outcome) /\ UNCHANGED esp
    BY <1>2, <2>2, ListenOnTyped DEF TypeInv, TypeOK
  <2> QED BY <2>1, <2>2 DEF DwellEnds
<1> QED BY <1>1, <1>3 DEF DwellEnds, operator, TypeInv, TypeOK, Pointed

LEMMA RoleTyped ==
  ASSUME TypeInv, NEW role \in {"quiet", "relaying"}, RoleBecomes(role)
  PROVE  fsm' \in {None, "quiet", "relaying"} /\ gate' \in BOOLEAN
  BY DEF RoleBecomes, TypeInv, TypeOK

LEMMA ReceiveTyped == TypeInv /\ (ReceiveFrame \/ ReceiveTick \/ EndLume) => TypeInv'
<1> SUFFICES ASSUME TypeInv, ReceiveFrame \/ ReceiveTick \/ EndLume PROVE TypeInv'
  OBVIOUS
<1>1. CASE ReceiveFrame
  <2>1. Head(pending).source \in Sources /\ pending' \in Seq(OnAir) /\ Len(pending') <= MaxPending
    BY <1>1, FrameTaken DEF ReceiveFrame, TypeInv
  <2>2. tofu' \in Locks
    BY <1>1, <2>1, AdmitTyped DEF ReceiveFrame, TypeInv, TypeOK
  <2>3. fsm' \in {None, "quiet", "relaying"} /\ gate' \in BOOLEAN
    BY <1>1, RoleTyped DEF ReceiveFrame, TypeInv, TypeOK
  <2> QED BY <1>1, <2>1, <2>2, <2>3 DEF ReceiveFrame, operator, radio, TypeInv, TypeOK, Pointed
<1>2. CASE ReceiveTick
  <2>1. fsm' \in {None, "quiet", "relaying"} /\ gate' \in BOOLEAN
    BY <1>2, RoleTyped DEF ReceiveTick, TypeInv, TypeOK
  <2> QED BY <1>2, <2>1, UnlockedTyped DEF ReceiveTick, operator, radio, TypeInv, TypeOK, Pointed
<1>3. CASE EndLume
  BY <1>3 DEF EndLume, operator, radio, TypeInv, TypeOK, Pointed
<1> QED BY <1>1, <1>2, <1>3

LEMMA DirectorTyped == TypeInv /\ (EnterDirector \/ DirectorFails \/ EndDirector) => TypeInv'
<1> SUFFICES ASSUME TypeInv, EnterDirector \/ DirectorFails \/ EndDirector PROVE TypeInv'
  OBVIOUS
<1> USE DEF operator, radio, TypeInv, TypeOK, Pointed
<1>1. CASE EnterDirector
  <2>1. tuned' \in Channels \cup {None}
    BY <1>1, SessionAssumption, SettingsTyped DEF EnterDirector
  <2>2. receive_channel' \in Channels
    <3>1. DIRECTOR_CHANNEL \in Channels
      BY SessionAssumption
    <3> QED BY <1>1, <3>1 DEF EnterDirector
  <2>3. /\ fresh' = FALSE /\ stage' = "director"
        /\ UNCHANGED <<mode, pin, repeat, unseen, held, wifi, esp>>
        /\ UNCHANGED <<scanner, tofu, pending, fsm, gate>>
    BY <1>1 DEF EnterDirector
  <2> QED BY <2>1, <2>2, <2>3, ZenonT(60)
<1>2. CASE DirectorFails
  <2>1. receive_channel' \in Channels \cup {None} /\ esp' \in BOOLEAN
    <3>1. DIRECTOR_CHANNEL \in Channels
      BY SessionAssumption
    <3> QED BY <1>2, <3>1 DEF DirectorFails
  <2> QED BY <1>2, <2>1 DEF DirectorFails
<1>3. CASE EndDirector
  BY <1>3 DEF EndDirector
<1> QED BY <1>1, <1>2, <1>3

(***************************************************************************)
(* The scanner never leaves its order, and whatever the radio, the         *)
(* operator and the frames do, every variable stays within its type.       *)
(***************************************************************************)
THEOREM TypeCorrect == Spec => []TypeOK
<1>1. TypeInv /\ [Next]_vars => TypeInv'
  <2>1. TypeInv /\ Next => TypeInv'
    BY OperatorTyped, InterruptTyped, RadioTyped, PinnedTyped, AutoTyped, ScanFrameTyped,
       DwellEndsTyped, ReceiveTyped, DirectorTyped
    DEF Next, Task
  <2>2. TypeInv /\ UNCHANGED vars => TypeInv'
    BY DEF vars, operator, radio, TypeInv, TypeOK, Pointed
  <2> QED BY <2>1, <2>2
<1>2. TypeInv => TypeOK
  BY DEF TypeInv
<1> QED BY <1>1, <1>2, InitiallyTyped, PTL DEF Spec

=============================================================================
