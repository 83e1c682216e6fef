------------------------------ MODULE Sessions ------------------------------
(***************************************************************************)
(* The life of a badge from mode to mode (app.py).  The operator's buttons *)
(* set the mode; the background task follows: it takes the radio from the  *)
(* badge's WiFi, runs a Lume session (scan, then receive) or a Director    *)
(* session until it sees that the mode has changed, and gives the radio    *)
(* back once idle.  The interrupt handler, once installed, is there        *)
(* whatever the session.                                                   *)
(*                                                                         *)
(* The task gives way to the operator's side only where it awaits: at the  *)
(* top of its loop, in a scan, in the receive loop and in the Director's   *)
(* loop.  Between taking the radio and the session's first await, which    *)
(* is stage "held", only the handler can run.                              *)
(*                                                                         *)
(* Abstractions.  A frame is its source and the channel it was heard on,   *)
(* which the badge itself does not keep.  The repeater (DynamicRepeater)   *)
(* relays or does not.  How long a TOFU lock has been silent is left out:  *)
(* it may expire in any pass.  The driver's buffer is merged with the      *)
(* handler's queue.                                                        *)
(***************************************************************************)
EXTENDS TofuLock, Sequences

CONSTANTS
  OnAir,             \* frames that may be heard: their source and channel
  SCAN_ORDER,        \* the channels of a scan, <<11, 1, 6>> in the code
  Pins,              \* the channels the operator may pin
  DIRECTOR_CHANNEL,
  MaxPending         \* bound on the frames waiting; not part of the code

ASSUME SessionAssumption ==
  /\ OnAir \subseteq [source : Sources, on : Channels]
  /\ SCAN_ORDER \in Seq(Channels) /\ SCAN_ORDER # <<>>
  /\ Pins \subseteq Channels /\ None \notin Channels
  /\ \A channel \in Pins : \E i \in DOMAIN SCAN_ORDER : SCAN_ORDER[i] = channel
  /\ DIRECTOR_CHANNEL \in Channels
  /\ MaxPending \in Nat

VARIABLES
  mode,             \* what the operator wants
  pin, repeat,      \* the Channel setting, None for "auto", and the Repeat setting
  unseen,           \* the loop has yet to notice that the mode became idle
  stage,            \* where the background task is
  held,             \* _radio_held
  wifi,             \* the badge's WiFi manager is up
  esp,              \* ESP-NOW is active, so the handler gets frames
  fresh,            \* no channel has been set since the station came up
  tuned,            \* the channel the radio is on, None if nobody set it
  receive_channel,
  scanner,
  tofu,
  pending,          \* _pending_msgs
  fsm,              \* the repeater: None, "quiet" or "relaying"
  gate              \* _relay_send_enabled

operator == <<mode, pin, repeat, unseen>>
radio == <<wifi, esp, fresh, tuned>>
vars == <<operator, stage, held, radio, receive_channel, scanner, tofu, pending, fsm, gate>>

Scanner(order) == [order |-> order, index |-> 1, locked |-> None]

Current(s) == IF s.locked # None THEN s.locked ELSE s.order[s.index]

Knows(s, channel) == \E i \in DOMAIN s.order : s.order[i] = channel

Advance(s) == [s EXCEPT !.index = (@ % Len(s.order)) + 1]

(***************************************************************************)
(* A variant to test the properties with: auto is taken for one more       *)
(* channel.                                                                *)
(***************************************************************************)
MakePinnedScanner == Scanner(<<pin>>)

MakeScanner == Scanner(IF pin = None THEN SCAN_ORDER ELSE <<pin>>)

Init ==
  /\ mode = "lume" /\ pin \in Pins \cup {None} /\ repeat \in {"AUTO", "OFF"}
  /\ unseen = FALSE
  /\ stage = "top" /\ held = FALSE
  /\ wifi = TRUE /\ esp = FALSE /\ fresh = FALSE /\ tuned = None
  /\ receive_channel = None
  /\ scanner = Scanner(SCAN_ORDER)
  /\ tofu = Unlocked /\ pending = <<>> /\ fsm = None /\ gate = FALSE

-----------------------------------------------------------------------------
(***************************************************************************)
(* The radio (outside the repository).  A station obeys the first setting  *)
(* of its channel after coming up and rejects or ignores any further one;  *)
(* it may reject the first as well.                                        *)
(***************************************************************************)
Settings(channel, first) ==
  {[raised |-> TRUE, tuned |-> tuned],
   [raised |-> FALSE, tuned |-> IF first THEN channel ELSE tuned]}

(***************************************************************************)
(* A variant to test the properties with: the station is left up.          *)
(***************************************************************************)
NotBounced(first) == first

(***************************************************************************)
(* A station that was taken down and up obeys again, whatever it was asked *)
(* before.                                                                 *)
(***************************************************************************)
Bounced(first) == TRUE

(***************************************************************************)
(* The handler queues whatever is heard, in every mode.                    *)
(***************************************************************************)
Interrupt(f) ==
  /\ esp /\ f.on = tuned
  /\ Len(pending) < MaxPending
  /\ pending' = Append(pending, f)
  /\ UNCHANGED <<operator, stage, held, radio, receive_channel, scanner, tofu, fsm, gate>>

-----------------------------------------------------------------------------
(***************************************************************************)
(* The operator.  The loop polls the mode every 20 ms or less unless it is *)
(* listening on a channel of a scan, so outside a scan it has seen "idle"  *)
(* before the operator can have picked another entry of the menu.          *)
(***************************************************************************)
StartMode(m) ==
  /\ mode = "idle" /\ ~unseen /\ stage # "held"
  /\ mode' = m
  /\ UNCHANGED <<pin, repeat, unseen, stage, held, radio, receive_channel,
                 scanner, tofu, pending, fsm, gate>>

StopToIdle ==
  /\ mode # "idle" /\ stage # "held"
  /\ mode' = "idle"
  /\ unseen' = (stage # "scan")
  /\ UNCHANGED <<pin, repeat, stage, held, radio, receive_channel,
                 scanner, tofu, pending, fsm, gate>>

(***************************************************************************)
(* The settings menu: Channel, Repeat, Rescan.                             *)
(***************************************************************************)
ChangeSettings ==
  /\ mode # "director" /\ stage # "held"
  /\ \/ pin' \in (Pins \cup {None}) \ {pin} /\ UNCHANGED <<repeat, tofu>>
     \/ repeat' \in {"AUTO", "OFF"} \ {repeat} /\ UNCHANGED <<pin, tofu>>
     \/ tofu' = Unlocked /\ UNCHANGED <<pin, repeat>>
  /\ UNCHANGED <<mode, unseen, stage, held, radio, receive_channel,
                 scanner, pending, fsm, gate>>

-----------------------------------------------------------------------------
(***************************************************************************)
(* A variant to test the properties with: the radio is handed over but     *)
(* still marked as held.                                                   *)
(***************************************************************************)
ReleaseWifiOnly ==
  /\ stage = "top" /\ mode = "idle"
  /\ unseen' = FALSE
  /\ IF held THEN esp' = FALSE /\ wifi' = TRUE ELSE UNCHANGED <<esp, wifi>>
  /\ UNCHANGED <<mode, pin, repeat, stage, held, fresh, tuned, receive_channel,
                 scanner, tofu, pending, fsm, gate>>

(***************************************************************************)
(* The background task: the top of its loop.                               *)
(***************************************************************************)
ReleaseRadio ==
  /\ stage = "top" /\ mode = "idle"
  /\ unseen' = FALSE
  /\ IF held THEN esp' = FALSE /\ wifi' = TRUE ELSE UNCHANGED <<esp, wifi>>
  /\ held' = FALSE
  /\ UNCHANGED <<mode, pin, repeat, stage, fresh, tuned, receive_channel,
                 scanner, tofu, pending, fsm, gate>>

(***************************************************************************)
(* Nothing is done while the radio is held already.  Otherwise WiFi is     *)
(* stopped, and what comes after that may fail.                            *)
(***************************************************************************)
AcquireRadio ==
  /\ stage = "top" /\ mode # "idle"
  /\ \/ /\ held
        /\ stage' = "held"
        /\ UNCHANGED <<mode, held, radio, scanner, tofu>>
     \/ /\ ~held
        /\ wifi' = FALSE /\ esp' = TRUE /\ fresh' = TRUE /\ tuned' = None
        /\ scanner' = MakeScanner /\ tofu' = Unlocked
        /\ held' = TRUE /\ stage' = "held"
        /\ UNCHANGED mode
     \/ /\ ~held
        /\ wifi' = FALSE /\ mode' = "idle"
        /\ UNCHANGED <<stage, held, esp, fresh, tuned, scanner, tofu>>
  /\ UNCHANGED <<pin, repeat, unseen, receive_channel, pending, fsm, gate>>

-----------------------------------------------------------------------------
(***************************************************************************)
(* A Lume session.  It goes on to receive, with a new repeater, on the     *)
(* pinned channel, on the one its scan locked, or on whichever the radio   *)
(* is on when setting a channel failed; the receive loop ends at once when *)
(* the mode has changed meanwhile, and the repeater is dropped.  Neither   *)
(* making nor dropping a repeater tells the handler.                       *)
(***************************************************************************)
StartRepeater == fsm' = IF repeat = "AUTO" THEN "quiet" ELSE None

GoReceive ==
  IF mode = "lume" THEN stage' = "receive" /\ StartRepeater
  ELSE stage' = "top" /\ fsm' = None

(***************************************************************************)
(* A pinned channel that the scanner does not know is an uncaught          *)
(* ValueError, the end of the background task.                             *)
(***************************************************************************)
EnterPinned ==
  /\ stage = "held" /\ mode = "lume" /\ pin # None
  /\ \E outcome \in Settings(pin, fresh) : tuned' = outcome.tuned
  /\ fresh' = FALSE
  /\ receive_channel' = pin
  /\ IF Knows(scanner, pin)
     THEN scanner' = [scanner EXCEPT !.locked = pin] /\ GoReceive
     ELSE stage' = "crashed" /\ UNCHANGED <<scanner, fsm>>
  /\ UNCHANGED <<operator, held, wifi, esp, tofu, pending, gate>>

(***************************************************************************)
(* One channel of a scan: listen there, or give the scan up.               *)
(***************************************************************************)
ListenOn(channel, outcome) ==
  /\ tuned' = outcome.tuned
  /\ fresh' = FALSE
  /\ IF outcome.raised THEN GoReceive /\ UNCHANGED receive_channel
     ELSE stage' = "scan" /\ receive_channel' = channel /\ UNCHANGED fsm

EnterAuto ==
  /\ stage = "held" /\ mode = "lume" /\ pin = None
  /\ IF scanner.locked # None
     THEN GoReceive /\ UNCHANGED <<fresh, tuned, receive_channel>>
     ELSE \E outcome \in Settings(Current(scanner), fresh) :
            ListenOn(Current(scanner), outcome)
  /\ UNCHANGED <<operator, held, wifi, esp, scanner, tofu, pending, gate>>

(***************************************************************************)
(* A frame is taken from the queue in a scan.  The first one admitted      *)
(* locks the channel the scan is on.                                       *)
(***************************************************************************)
ScanFrame ==
  /\ stage = "scan" /\ pending # <<>>
  /\ pending' = Tail(pending)
  /\ LET source == Head(pending).source
         channel == Current(scanner)
     IN  /\ tofu' = AfterAdmit(tofu, source, channel)
         /\ IF Admits(tofu, source, channel)
            THEN scanner' = [scanner EXCEPT !.locked = channel] /\ GoReceive
            ELSE UNCHANGED <<scanner, stage, fsm>>
  /\ UNCHANGED <<operator, held, radio, receive_channel, gate>>

(***************************************************************************)
(* A variant to test the properties with: a scan goes on whatever the mode *)
(* has become.                                                             *)
(***************************************************************************)
DwellEndsUnasked ==
  /\ stage = "scan"
  /\ scanner' = Advance(scanner)
  /\ \E outcome \in Settings(Current(scanner'), TRUE) :
       ListenOn(Current(scanner'), outcome)
  /\ UNCHANGED <<operator, held, wifi, esp, tofu, pending, gate>>

(***************************************************************************)
(* The listening time of a channel is over: the station is taken down and  *)
(* up again, which may fail and leave ESP-NOW off, for the next channel.   *)
(***************************************************************************)
DwellEnds ==
  /\ stage = "scan"
  /\ scanner' = Advance(scanner)
  /\ IF mode # "lume"
     THEN GoReceive /\ UNCHANGED <<esp, fresh, tuned, receive_channel>>
     ELSE \/ \E outcome \in Settings(Current(scanner'), Bounced(fresh)) :
               ListenOn(Current(scanner'), outcome) /\ UNCHANGED esp
          \/ GoReceive /\ esp' = FALSE /\ UNCHANGED <<fresh, tuned, receive_channel>>
  /\ UNCHANGED <<operator, held, wifi, tofu, pending, gate>>

(***************************************************************************)
(* The receive loop.  An admitted frame may make the repeater take up or   *)
(* give up its role, a tick may make it give it up, and the handler is     *)
(* told of either; the lock may time out.  Giving up a candidacy is told   *)
(* to the handler too, although it was not relaying.                       *)
(***************************************************************************)
RoleBecomes(role) ==
  /\ fsm' = role
  /\ gate' \in {role = "relaying"} \cup (IF role = fsm THEN {gate} ELSE {})

ReceiveFrame ==
  /\ stage = "receive" /\ mode = "lume" /\ pending # <<>>
  /\ pending' = Tail(pending)
  /\ LET source == Head(pending).source
     IN  /\ tofu' = AfterAdmit(tofu, source, receive_channel)
         /\ IF fsm # None /\ Admits(tofu, source, receive_channel)
            THEN \E role \in {"quiet", "relaying"} : RoleBecomes(role)
            ELSE UNCHANGED <<fsm, gate>>
  /\ UNCHANGED <<operator, stage, held, radio, receive_channel, scanner>>

ReceiveTick ==
  /\ stage = "receive" /\ mode = "lume"
  /\ tofu' \in {tofu, Unlocked}
  /\ \/ fsm = "relaying" /\ RoleBecomes("quiet")
     \/ UNCHANGED <<fsm, gate>>
  /\ UNCHANGED <<operator, stage, held, radio, receive_channel, scanner, pending>>

(***************************************************************************)
(* A variant to test the properties with: only the other mode ends the     *)
(* receive loop.                                                           *)
(***************************************************************************)
EndLumeForDirector ==
  /\ stage = "receive" /\ mode = "director"
  /\ stage' = "top" /\ fsm' = None
  /\ UNCHANGED <<operator, held, radio, receive_channel, scanner, tofu, pending, gate>>

EndLume ==
  /\ stage = "receive" /\ mode # "lume"
  /\ stage' = "top" /\ fsm' = None
  /\ UNCHANGED <<operator, held, radio, receive_channel, scanner, tofu, pending, gate>>

-----------------------------------------------------------------------------
(***************************************************************************)
(* A Director session: the station is taken down and up so that it obeys   *)
(* the setting of the Director's channel.  Whatever fails on the way there *)
(* makes the badge idle.                                                   *)
(***************************************************************************)
EnterDirector ==
  /\ stage = "held" /\ mode = "director"
  /\ \E outcome \in Settings(DIRECTOR_CHANNEL, Bounced(fresh)) :
       /\ ~outcome.raised
       /\ tuned' = outcome.tuned
  /\ fresh' = FALSE
  /\ receive_channel' = DIRECTOR_CHANNEL
  /\ stage' = "director"
  /\ UNCHANGED <<operator, held, wifi, esp, scanner, tofu, pending, fsm, gate>>

DirectorFails ==
  /\ stage = "held" /\ mode = "director"
  /\ mode' = "idle"
  /\ stage' = "top"
  /\ esp' \in {esp, FALSE}
  /\ receive_channel' \in {receive_channel, DIRECTOR_CHANNEL}
  /\ unseen' = TRUE
  /\ UNCHANGED <<pin, repeat, held, wifi, fresh, tuned,
                 scanner, tofu, pending, fsm, gate>>

EndDirector ==
  /\ stage = "director" /\ mode # "director"
  /\ stage' = "top"
  /\ UNCHANGED <<operator, held, radio, receive_channel, scanner, tofu, pending, fsm, gate>>

-----------------------------------------------------------------------------
Operator == (\E m \in {"lume", "director"} : StartMode(m)) \/ StopToIdle \/ ChangeSettings

Task ==
  \/ ReleaseRadio \/ AcquireRadio
  \/ EnterPinned \/ EnterAuto \/ ScanFrame \/ DwellEnds
  \/ ReceiveFrame \/ ReceiveTick \/ EndLume
  \/ EnterDirector \/ DirectorFails \/ EndDirector

Next == (\E f \in OnAir : Interrupt(f)) \/ Operator \/ Task

(***************************************************************************)
(* Every await of the task is a sleep of bounded length, and the listening *)
(* time of a channel is counted in such sleeps.                            *)
(***************************************************************************)
Fairness == WF_vars(Task) /\ WF_vars(DwellEnds)

Spec == Init /\ [][Next]_vars /\ Fairness

-----------------------------------------------------------------------------
TypeOK ==
  /\ mode \in {"idle", "lume", "director"}
  /\ pin \in Pins \cup {None} /\ repeat \in {"AUTO", "OFF"} /\ unseen \in BOOLEAN
  /\ stage \in {"top", "held", "scan", "receive", "director", "crashed"}
  /\ held \in BOOLEAN /\ wifi \in BOOLEAN /\ esp \in BOOLEAN /\ fresh \in BOOLEAN
  /\ tuned \in Channels \cup {None} /\ receive_channel \in Channels \cup {None}
  /\ scanner.order \in Seq(Channels) /\ scanner.index \in DOMAIN scanner.order
  /\ scanner.locked \in Channels \cup {None}
  /\ tofu \in Locks
  /\ pending \in Seq(OnAir) /\ Len(pending) <= MaxPending
  /\ fsm \in {None, "quiet", "relaying"} /\ gate \in BOOLEAN

(***************************************************************************)
(* A Director transmits on its channel and on no other, wherever the Lume  *)
(* session before it left the radio and although the radio would not say   *)
(* that it ignored a setting.                                              *)
(***************************************************************************)
DirectorOnItsChannel == stage = "director" => tuned = DIRECTOR_CHANNEL

(***************************************************************************)
(* The background task survives: whenever the operator changes the Channel *)
(* setting, in a session or between two, the session that pins a channel   *)
(* has a scanner that knows it.                                            *)
(***************************************************************************)
TaskSurvives == stage # "crashed"

(***************************************************************************)
(* A badge that stays idle gives the radio back, from any session and from *)
(* any point of a scan.                                                    *)
(***************************************************************************)
RadioGivenBack == (held /\ mode = "idle") ~> (~held \/ mode # "idle")

(***************************************************************************)
(* The mode the operator settles on is the one that runs, whatever session *)
(* was under way and wherever it was, unless taking the radio fails and    *)
(* makes the badge idle.                                                   *)
(***************************************************************************)
ModeServed ==
  /\ (mode = "director") ~> (stage = "director" \/ mode # "director")
  /\ (mode = "lume") ~> (stage \in {"scan", "receive"} \/ mode # "lume")

-----------------------------------------------------------------------------
(***************************************************************************)
(* What the documents and comments say of the hand-over between modes.     *)
(***************************************************************************)

(***************************************************************************)
(* In a session, a badge relays only as a repeater that is ACTIVE or in    *)
(* COOLDOWN: not as a Director, and not with Repeat set to OFF.  The       *)
(* handler relays whenever ESP-NOW is active and its gate is open.         *)
(***************************************************************************)
RelaysOnlyAsRepeater ==
  stage \in {"scan", "receive", "director"} /\ esp /\ gate => fsm = "relaying"

(***************************************************************************)
(* WiFi is up while the badge is idle and does not hold the radio.         *)
(***************************************************************************)
IdleHasWifi == mode = "idle" /\ ~held => wifi

(***************************************************************************)
(* The channel a scan locks is one that a frame was heard on: the frame    *)
(* that locks it.                                                          *)
(***************************************************************************)
ScanLocksWhereHeard ==
  [][ScanFrame /\ scanner.locked = None /\ scanner'.locked # None
      => Head(pending).on = scanner'.locked]_vars

=============================================================================
