# NocturNation for Tildagon: a verification project

TLA+ models of the badge application in `src/`, TLC runs that check them on small
instances, and TLAPS proofs of the properties that matter most for every value of
the constants. `PROJECT.json` holds the machine-readable index: components, runs,
the mutants that show each property can fail, the source lines every definition
translates, findings, hazards and theorems.

## The system

A badge is either a **Lume** (it follows a Director's ESP-NOW broadcasts and lights
its LEDs, and may relay what it hears) or a **Director** (it runs a Show and
broadcasts). Everything runs in one MicroPython interpreter: a foreground `update`
for the buttons, one `background_task` coroutine, a task of the BLE service while a phone
is being paired, and the ESP-NOW interrupt handler, which the interpreter may run between
any two bytecodes of the rest.

| component | state | operations | what makes it correct |
|---|---|---|---|
| Dynamic Repeater, `repeater.py` | role, elected hop, watches, hop memory, send record, window counters | `on_admitted_frame`, `tick`, gate callback | relays only at a hop nobody else covers; steps down for peers and on silence; the handler's gate always agrees with the role; several of them cover a venue |
| Dedup ring, `protocol/dedup.py` | the last pairs (source, sequence) | `seen` | a frame is let through once in any interleaving of copies |
| TOFU lock, `tofu.py` | locked source, last-heard time | `admit`, `tick`, `clear` | one Director at a time, no take-over, a silent one is let go |
| Interrupt handler and receive loop, `app.py` | `_pending_msgs`, fast-paint cache, gate, the above | handler; drain, admit, dedup, observe, time-outs | no pulse lost or rendered twice between two contexts; time-outs under load |
| Mode life cycle, `app.py`, `channel_scan.py` | mode, radio, scanner, session | buttons, acquire, bounce, scan, receive, direct, release | right channel, radio given back, the mode asked for is served, the task never dies |
| Signal tracker and fall-back wash, `app.py` | last-frame time, fall-back flags | record, evaluate | a dark venue gets a synthetic wash, and a returning signal ends it |
| Renderers, `render/` | wash phase, LED envelopes | pulse, wash, wash end, tick | a wash always ends; a pulse gives way to the base colour |
| Render dispatcher, `director/render_dispatch.py` | sequence, last send time | dispatch (4 kinds), heartbeat | the copies of an effect are told for copies; a quiet Director is still heard |
| Director controller and inputs, `director/` | active show, gesture detectors | enter, exit, select, tick, poll | shows are entered and left in pairs; a press acts once |
| Shows, `shows/` | a wash's life cycle, palettes | hooks of a Show | a wash is ended for whom it was begun |
| Settings, `settings.py` | persisted fields, config numonce | load, save, next numonce | the file is what the badge runs with, or can be told unreadable |
| BLE pairing, `ble_service.py`, the pairing screen of `app.py` | window, pairing state, screen | GATT writes, commit, abort, time-out | no commit is passed over; the screen closes and gives the radio back |
| Codec, `protocol/frame.py`, `protocol/config_frames.py` | none | encode, parse, relay | a frame arrives as it was sent, or not at all |
| Numonce table, HMAC, display, images, HAL, QR, tools | none that a step could disturb, or no caller | | |

How they interact: the handler appends frames to `_pending_msgs`, paints pulses at
once and relays by a *copy* of the repeater's role (`_relay_send_enabled` and
`_relay_send_output_hop`). The receive loop takes frames off that queue, asks the TOFU
lock, then the dedup ring, then shows every admitted copy to the repeater, and renders
what is neither a duplicate nor painted already. The operator's buttons set `mode`; the
background task notices at its next await. In a Director's session the controller runs a
Show, which sends by way of the dispatcher. The pairing screen polls the BLE service,
whose task writes into the settings that are in use.

The hard behaviours are: two contexts sharing the queue, the renderer and the gate;
copies of a frame at several hops in any order; repeaters that must agree without talking
to each other; time-outs that must fire *because* nothing comes in; state that outlives
the session it was meant for; numbers that wrap or start anew; a radio that obeys a
channel setting only once after its station came up; failures half way through the
hand-over of the radio; and a phone whose commit falls together with the time-out.
`PROJECT.json` lists every hazard at its line.

## Modules

| module | models | state and actions against the code |
|---|---|---|
| `Wire` | the fields of a frame the models read | `Keys` are (source, sequence) pairs, `Unsequenced` those with sequence 0 |
| `Rings` | the bounded lists used everywhere | append and drop the oldest, list filter, membership |
| `DynamicRepeater` | `repeater.py` as operators on the repeater's record | one operator per method; `OnAdmittedFrame` and `TickRepeater` are whole calls |
| `Repeater` | one repeater given anything | `AdmitFrame`, `RepeaterTick`, `RepeaterElapse` (the clock) |
| `RepeaterHistory` | `Repeater` and what it has heard | states the edge rule |
| `Mesh` | several badges' repeaters around one Director | `Send` (Director), `Deliver` (a handler queues and relays), `LoopTakes`, `LoopSweeps`, `Elapse`, `Move` |
| `DedupRing`, `Dedup` | `DedupRing.seen`; one ring given copies | `Seen` |
| `TofuLock`, `Tofu` | `tofu.py` as operators; one lock among sources | `LockFrame`, `LockTick`, `LockClear`, `LockScan`, `LockElapse`; `quiet` and `cleared` record each source's silence and the operator's rescan |
| `Dispatcher` | `RenderDispatcher` as operators on a record | numbering, redundant sends, heartbeat |
| `AtMostOnce` | what the broadcast promises a badge's LEDs | `Send`, `Show`, `Expire` of an effect |
| `Link` | dispatcher, air, and the handler's memory, lock and ring of one badge, composing `Dispatcher`, `TofuLock` and `Dedup` | `Fire`, `LoopPasses` (heartbeat), `EnterSession`, `LeaveSession`, `Restart`; `Paint` and `PaintOther` are the handler, `Hear` and `TickBadge` the loop; `Fade`, `Elapse`. It implements `AtMostOnce` |
| `ReceivePath` | handler and receive loop, composing `TofuLock`, `DedupRing` and `Repeater` | `Interrupt` is the handler; `Take`, `Reject`, `Observe`, `Render`, `Sweep` are the loop between the points where the handler can come in between |
| `Sessions` | modes, radio, scan and sessions | the operator's actions; `ReleaseRadio` to `EndDirector` are the background task between its awaits |
| `Wash` | the phase machine of a wash in `render/perimeter.py` | operators on a record; age, attack, hold, release, expiry |
| `Light` | the LED ring between Director, fall-back and operator, composing `Wash` | `Interrupt` and `FastPaint` are the handler; `Observe`, `RenderPulse`, `RenderWash`, `EvaluateFallback`, `Paint` the loop; `OpenSettings` to `StartLume` the operator |
| `Buttons` | `button_map.py` and `button_tap.py` as operators on the mapper's record | `Polled`, `Acting`, `ResetMapper`, `Taps` |
| `Director` | a badge in Director mode, composing `Buttons` | `Press` to `OverlayBack` are the foreground, `SessionStarts`, `SessionFails`, `SessionEnds` the background task; `Activate` and what follows it the controller and the Shows |
| `Stored` | `settings.py` for what a pairing can touch | `Loads`, `Saves` with their failures, `NextGroup` of the menu |
| `Pairing` | BLE service, pairing screen, settings, composing `Stored` | `StartMode` to `OpenPairing` are the operator, `Connect` to `ControlWritten` the service's task, `Update` the foreground's poll |
| `FrameCodec`, `ConfigCodec` | the messages' layouts, admission, relay; the configuration messages and their bag | one `*Payload` per encoder, one `*Fields` per parser; `Admittable`, `Relayed`, `Bag`, `Entries` |
| `Frames` | one frame on its way, composing both | `Relay`, `Cut`, `Pad`, `Change` |
| `RepeaterProofs`, `ReceivePathProofs`, `LinkProofs`, `DirectorProofs`, `SessionProofs`, `LightProofs`, `PairingProofs`, `FramesProofs` | the theorems, each about the modules it extends (`ReceivePathProofs` has `Tofu`'s, `LinkProofs` `Dedup`'s) | |
| `MC*` | values of the constants for TLC | |

Components are written as operators on records (`DynamicRepeater`, `TofuLock`,
`Dispatcher`, `Wash`, `Buttons`, `Stored`) so that one translation is run alone and inside
the modules that compose it. Operators described as "a variant to test the properties
with" are the mutated forms that `PROJECT.json` names under `mutants`; no behaviour uses
them.

### Abstractions

- Instants are only ever compared, so a watch keeps the time *left*, a lock the time
  it has been *silent*, a repeater the time *idle*, each saturating where the code
  stops telling values apart. All times are in units chosen per run. The wrap of
  `ticks_ms` is modelled in `Pairing` only, where it catches a running timer.
- A watch or an election window draws its length at random: `\E` over the range.
- `ReceivePath`: rendering is reduced to which pulse was given to the renderer by
  whom, and a relay by the handler, which changes no state, to nothing at all.
  Frames parse; the settings menu is shut.
- `Mesh`: a unit of time is a second. In it the Director emits one frame, all copies of it
  come out of the air and of the queues, in any order between the badges, and every loop
  sweeps. Nothing is lost on the way; badges move or are switched off between the
  topologies. The record of what was relayed is kept by the loop, as in the code, while
  the relay itself is the handler's.
- `Link`: the lock asks for the source before the ring is asked, so one Director's pairs
  are told apart by their numbers. A unit of time is as long as a copy can be on its way;
  between two frames that reach the badge, `LOSSES` at most do not. A failure of the radio
  and a loss on the air share that bound. A copy is on its way until the loop has it: the
  handler's queue is part of the way, so a copy that the handler painted may come to the
  loop early, late, or not at all, in more orders than the queue allows. A frame is a
  heartbeat, a pulse for the LED ring, or another effect; only the LED ring is meant by
  "shown", and rendering does not fail. The loop's questions and its rendering are one
  step: of the handler coming in between them `ReceivePath` has the steps, and what it
  then paints a second time it paints before or after that step here. The painted pulses
  of Directors the badge does not follow are one action, as all they do here is take the
  place in `_fast_paint_last_key`.
- `Sessions`: the repeater is "quiet" or "relaying", the lock may time out in any
  pass, and the driver's buffer is one with the handler's queue. An operator is assumed to
  need longer to find another menu entry than the 20 ms the background task takes to
  notice that the mode became idle (`unseen`); in a scan, where it may take a whole dwell,
  no such assumption is made.
- `Light`: whether a frame is admitted and whether it is a copy are left open, since
  `ReceivePath` is about them; a call of the renderer is one step (the code's check and
  use of `self._wash` can be parted by the handler: see the hazards); the channel is
  already chosen, and every frame is for the ring and for this badge's group. When the
  regular repaint is due is left open. A pulse's envelope is its time left, a wash's
  colour is not told apart. The handler's painting in a Director session is left out.
- `Director`: a wash reaches the Lumes of its group while the session has the radio (a
  lost one is `Link`'s and `Light`'s matter); pulses leave nothing behind, so only which
  presses make them is kept. A property bag whose file cannot be written is left out.
  Events for a button are forgotten while a menu has the buttons, since the app clears its
  states when the menu closes.
- `Pairing`: a property bag is the group and the window it names, if any; a name or a
  secret would be one more such entry. Lume mode stands for both modes, as the settings
  menu is not to be had in Director mode. A phone that drops in the middle of a round holds
  the service up until the window ends, as in the code, unless its round raises. Quitting
  the app with the pairing screen open is not modelled.
- `Frames`: the bytes on the air are the code's. A field of one or two bytes is a number; a
  wider one, an identity or a digest is the bytes it stands in, of any value. Of a text only
  its bytes are kept and whether they are UTF-8, which is left to a constant: any set of byte
  strings with the empty one in it. A bag is what `Bag` makes of any entries it has room for.

## Runs

| run | question | instance |
|---|---|---|
| `MCRepeaterHistory` | is the hop a badge stands for vacant where it is, are watches at the lowest hop, gate and role in agreement, windows never overrun? | two numbered frames at hops 0..3 (symmetric), two watches, a send record of 1 |
| `MCRepeaterLive` | does an idle repeater step down, do elections and cooldowns end? | one numbered and one unnumbered frame, hops 0..2, hop memory of 1 |
| `MCMesh` | is a vacancy filled, and a double duty given up, within the frames the windows allow? | two badges and a Director, all in range, in a line, or one badge off, with one move between them |
| `ContentionIsSettled` (expected to be violated) | do two badges at the same edge always settle it? | the same two badges, three copies of an effect |
| `MCTofu` | no take-over, no release before its time, the right silence, release of a Director that has gone? | four sources: performance range, community range, broadcast |
| `MCReceivePath` | is every fresh pulse painted, by the loop at most once, and do watches follow the lock? | pulses of two Directors, one of them relayed as well, two frames in flight, passes of 2 |
| `MCSessions` | right channel, no crash, radio given back, mode served? | two channels, both pins and auto, two Directors, two queued frames |
| `MCLight` | does the badge's own wash give way, is a Director's wash kept, is a silent venue dark in the end, is a lost wash end survived? | two pulses, an overlay, heartbeats, a wash that swallows pulses and lasts, a timed one, an end; one frame queued, passes of 2 |
| `MCLink` | what can be shown twice, is the ring the window of the last pairs, what does a restart cost, is the Director heard often enough? | numbers 1..5, six frames (heartbeats, pulses and other effects), a ring of two, one restart, one loss between two frames, pulses of other Directors at any time |
| `MCDirector` | do washes follow the Show and group on the screen, does a press act once? | two Shows, two groups, two instant buttons and one of the slow ones, confirm and cancel, two held at a time |
| `MCPairing` | is a save of every commit tried, does a success on the screen speak the truth, does the screen close? | two groups of the menu and one only a phone writes; windows of zero, the least and the default; a flash of 1 |
| `MCFrames` | does a frame arrive as it was sent, and is one that was cut, extended or changed told? | two frames of every type, their fields different from each other and near both ends of their ranges, texts of up to two bytes, relays up to the hop limit, every byte changed to four values |

The bounds are enough for the interesting cases.

- Repeaters: two frames are the least that can overtake each other; a hop limit of 3 gives
  an inner, a middle and an outer role; a COOLDOWN window (5) exceeds the number of frames
  after which a peer counts as gone (3) as in the code, so both ends of a cooldown are
  reached. In `MCMesh` an effect is sent in two copies instead of three and windows are
  {2} and {5, 8}, for size; `ContentionIsSettled` has the three. One move leaves a vacancy,
  a double duty or a badge in a role that has gone. `VACANCY` and `CONTENTION` are computed
  from the windows, so that they say what the windows promise whatever their values.
- Rings and queues: a ring of two overflows; a pass of two frames ends both because the
  queue is empty and because the limit is hit.
- `MCLink`: a sixth frame takes the first number again; a restart after two frames finds
  both in the ring; BURST is the ring's size, the most the code's properties allow. With
  one number more, TLC finds a restart that costs a whole ringful and one more, so the bound
  of `RestartLosesFew` cannot be made smaller.
- `MCLight`: the fall-back enters after 1 unit of silence and fades after 2, and a wash is
  held for 3 at most, so that silence, expiry and a returning signal come in every order.
- `MCDirector`: of the three navigation buttons up and down act at once and right when
  released or held long; left is another of right's kind.
- `MCPairing`: a window of zero ends at once; a group no menu has is followed by the first.
- `MCFrames` has an end by its nature, as a frame is relayed up to a limit and damaged
  once; it is the one run that does not ask for freedom from deadlock.

`MaxFresh`, `MaxFrames`, `MaxRestarts`, `MaxMoves`, `MaxInFlight`, `MaxPending` and
`MaxHeld` bound histories, queues and inputs that the code does not bound; each is a guard
of an input only, so it never stops the badge. `MAX_AGE` holds a clock where no window
tells its values apart.

### Fairness

- `Repeater`: weak fairness of `RepeaterTick` (the poll loop calls `tick` every 5 ms) and of
  the clock. Nothing obliges anyone to send: `WindowsClose` therefore has "frames keep
  coming" as its premise, and `IdleRoleStepsDown` that traffic for the role stops.
- `Tofu`: weak fairness of `LockTick` and of the clock, for the same reason.
- `Light`: weak fairness of the loop's pass, whose only await is a sleep of 5 ms, of the
  clock, and of taking the radio while a badge follows. Strong fairness of `Paint`: a
  repaint is due every 50 ms whatever comes in, so of the passes that could paint, which
  keep coming, some do. Nobody is obliged to send or to press a button.
- `Sessions`: weak fairness of the background task (each await is a sleep of bounded
  length) and of `DwellEnds` by itself, since a dwell is counted in such sleeps and ends
  however many frames come in. The operator is never obliged to do anything.
- `Pairing`: weak fairness of `Update` (without CANCEL), which the operating system calls
  all the time while the app is in front, and of the clock. No phone has to come, to
  write or to commit; the service's task owes nothing either.
- `ReceivePath`, `Link`, `Mesh`, `Director`, `Frames`: none; only safety is stated. That
  something happens soon enough is there a bound on counts of frames or of time
  (`HeardOften`, `VacancyIsShort`, `DoubleDutyIsShort`).

## Proofs

All theorems hold for every value of the constants that satisfies the named assumptions:
positive sizes and time-outs, non-empty windows, a scan order that is not empty and that
contains every channel the operator may pin, a clock bound no smaller than a window, a watch
no longer than the lock's time-out (0.1 s against 10 s), and in `Link` no more frames in the
time a copy can be on its way than the deduplication ring has entries.

- **`RepeaterProofs`** — first the rings, then the repeater's record, one lemma per method:
  what every call keeps is `Sound`, the types and capacities joined with the agreement of
  gate and role and with no window being overrun. None of these is inductive alone: that a
  window is not overrun needs that the state handlers leave it in the frame that fills it,
  and a handler may call two transitions in one frame. What filtering a list returns is
  proved by the least length at which it would fail, since the library's induction theorems
  cannot be instantiated here. The types, `GateFollowsRole` and `WindowStillOpen` are parts of
  `Sound`. `WatchAtLowestHop` and `EdgeRuleInOrder` need to know what hop memory and watches
  remember of everything heard (`Informed`): the memory has each numbered frame once, at the
  lowest hop any copy of it came in at; a watch is the only one for its frame and agrees with
  the memory; and no watch is left whose cover was heard, but for frames that had a late copy.
  That the memory forgets nothing is a pigeonhole argument on `MemoryHoldsAll`, the premise
  of both properties; without it the properties are false.
- **`ReceivePathProofs`** — of the lock alone: `SilenceIsTheDirectors` is inductive with the
  types and with no rescan being on record while a lock is held. `NoHijack` is an action
  property proved from it: a lock is given up by a step that records the operator's rescan,
  or by `Expired`, which asks for the lock's silence, and the invariant turns that into the
  Director's. Of handler and loop:
  - `EveryFreshPulseIsPainted` needs that the handler's cache names a pulse the handler did
    paint (`PaintKeyIsTrue`), as that is all the loop goes by when it leaves a pulse out.
  - `LoopRendersOnce` needs that a pulse the loop has rendered is in the ring and is not the
    one in its hands, and, between dedup and renderer, that the frame in its hands is in the
    ring already: a copy queued meanwhile is then a duplicate. The ring keeps a pair as long
    as it has room for all.
  - `WatchesFollowLock` needs that a watch runs out before the lock it was made under does:
    its time left and the lock's silence make a watch's length at most (`Outlived`), so a lock
    that expires leaves none behind. Only the operator's rescan gives the lock up early.
  - The badge's repeater and lock are those of `Repeater` and `Tofu`: each step of handler
    and loop is one of theirs or leaves them alone (`PathUsesRepeater`, `PathUsesLock`).
    So what is proved of a component given anything holds on the badge too, the edge rule
    and `NoHijack` among it; `given_up` is the badge's `cleared`, raised by `Rescan`
    alone. Two of these theorems speak of what the code does not record, the copies heard
    and each source's silence: `Memory` and `Timed` say that variables of the components
    follow the badge's steps and record them. They are given a next value in every step,
    so they hinder none.
- **`LinkProofs`** — `RingIsWindow` is inductive together with the types: appending to
  the history and trimming the ring keep the ring equal to the history's suffix.
  `RepeatsAreFarApart` then follows: a pair let through again is not in the ring, hence not
  among the last `CAPACITY` of the history. `LinkUsesRing`: every step of the composed
  system, Director, air and badge, is a step of `Dedup` or leaves the ring alone, so the
  component's theorems hold of the composition. What has to be shown for it is that the
  dispatcher never numbers a frame 0, which the ring would let through every time
  (`Numbered`). On these rest three theorems about the whole link:
  - `EffectsAtMostOnce`, the refinement: each step of `Link` is a `Send`, a `Show`, an
    `Expire` or a stutter of `AtMostOnce`. What keeps an effect from being shown twice is
    another thing for each kind. A wash, which the loop alone renders, has the ring. A number
    may be forgotten and come round, so it matters how many frames go out together: what was
    pushed in this unit of time are the youngest entries of the ring, and with the frames
    still to be pushed they are no more than the ring holds (`Fresh`), so none of them falls
    out while copies of it are on their way. A pulse may have been painted by the handler
    when the ring knows nothing of it, and has the handler's memory of one: whatever pulse
    was shown and is not `unguarded` is the one in it (`Guarded`). A pulse is unguarded from
    the step in which another takes that place, or in which the loop renders it itself, and
    only such a pulse may be shown again. That the code repeats those is no oversight of the
    model: see under "Known not to hold".
  - `RestartLosesFew` counts the numbers that may yet be taken for old by mistake
    (`Exposed`): those in the ring, and the one in the handler's memory. Only a restart makes
    any, a ringful and one at most, and every effect that is swallowed uses one up.
  - `HeardOften` accounts for each unit of the badge's silence: the Director's clock counts
    it towards its next beacon, or it belongs to the interval before a frame that was lost or
    is on its way, or to a send the radio refused (`HeardInv`).
- **`DirectorProofs`** — `WashFollowsShow` is inductive with the types, one step per
  action. `PressActsOnce` is an action property proved from `PressInv`, which says what the
  mapper's and the tap source's memory owes to which press: a button not seen yet was just
  pressed; one held for and not acted for has its press to its credit, or was left held when
  the mode was left; a confirm new to the tap source was just pressed, or was held when the
  session that forgot it began.
- **`SessionProofs`** — the types include that the scanner points into its scan order, so
  that there is a channel to tune to however dwells, pins and new sessions follow each
  other. That no session makes `lock` raise needs `ScannerFitsPin`. A
  session started just when a scan has ended finds the radio still held and the scanner
  of the session before; that one was scanning, so its scanner knows every channel. After
  any other session the radio is given back first (`IdleIsNoticed`, which rests on the
  operator's pace), and the next session makes a scanner for the present setting.
  `DirectorOnItsChannel` is inductive with it.
- **`LightProofs`** — that the badge's own wash is on only in silence
  (`SyntheticOnlyInSilence`) needs the flags: they are raised in silence alone
  (`FlagsOnlyInSilence`), and the flags and the wash are lowered by the same frame. It
  needs too that they are up only while the badge follows and has its radio (`AtWork`):
  acquiring the radio resets the silence, and it is the operator's stop, before it, that
  has lowered them. `DirectorsWashIsKept` is an action property proved from it: a `Recover`
  that finds a flag raised finds silence, so ending a Director's wash there has its
  reason, and the fall-back begins and fades only in silence.
- **`PairingProofs`** — `CommitIsKept` says that a commit is not passed over: a save of it
  is tried before the service stops. A commit that a crash overtakes is lost in the code and
  breaks nothing here. It is proved with three facts that make it inductive.
  Once a pairing was committed the service's task is over (`CommitEndsTask`), so nothing
  changes the settings behind the screen; while the window is open the screen shows no end,
  and a success it shows is the service's (`EndsAgree`); and a commit nobody has saved yet
  is one the screen has not noticed yet (`OwedIsUnseen`), so that the next `Update` saves.
  CANCEL in that same `Update` is the case that needs it.
- **`FramesProofs`** — `ArrivesAsSent` and `DamageIsSeen` for every value of every field,
  every text and bag, every origin, and every byte a change may leave; the caps on texts are
  any no larger than the code's 64 and 128. Per type there is a lemma
  in each direction: what was written is read (`*IsRead`), and whatever is read, were it
  written again, is the same bytes (`*IsWritten`). The second is what tells damage. The
  inductive invariant (`IInv`) speaks of all bytes on the air, not only of what is read: an
  undamaged frame is the one its sender would have built at the hop it has reached. A relay
  that changed another byte than the hop count, or counted twice, would break it.
  A bag and where its entries start are recursive functions: that the tables exist, and that
  what holds of each entry holds of all, is shown on least counterexamples.

Only model-checked:

- every liveness property (`IdleRoleStepsDown`, `WindowsClose`, `SilentDirectorIsReleased`,
  `RadioGivenBack`, `ModeServed`, `SilenceGoesDark`, `LostEndIsSurvived`, `ScreenCloses`),
  which the prover does not reach;
- `VacancyIsShort` and `DoubleDutyIsShort` of `Mesh`. Their bounds are for two badges, and
  are nothing to go by with more of them or more copies of a frame: with the three copies of
  an effect, even two badges need not settle a double duty (`ContentionIsSettled`). A theorem
  about them would have to assume the run's sizes, and would say no more than the run.

## Findings

`ContentionIsSettled` — two badges elected at the same edge need not settle who goes on. A
cooldown counts admitted *copies* (`repeater.py:279`), while the threshold after which a
peer counts as gone, and `README.md:75` and `docs/tildagon-history.md:356`, speak of
frames: the three copies of an effect that come in before the peer's relays of them already
make `COOLDOWN_PEER_STOPPED_FRAMES`, and the badge goes back to ACTIVE beside a peer that
relays every frame. `MCMesh` shows the other half: unless a badge takes its peer for gone
in this way, the double duty ends within the cooldown's window.

## Known not to hold

Six more statements of the documentation and of comments were found not to be met by the
code. They stay in their modules as definitions, each with the line it quotes. To see the
counterexample, name one as an `INVARIANT` (the last as a `PROPERTY`) in the `.cfg` of
the run given.

- `RelaysOnlyAsRepeater` (`MCSessions`) — `_stop_repeater` (`app.py:1227`) leaves the
  handler's gate open, so a badge that stops while relaying goes on relaying as a Director,
  with Repeat set to OFF, and beside a new repeater that is still listening.
- `IdleHasWifi` (`MCSessions`) — when ESP-NOW cannot be activated (`app.py:1786`), WiFi has
  been stopped but the radio is not marked as held, so going idle does not bring WiFi back.
- `ScanLocksWhereHeard` (`MCSessions`) — queued frames carry no channel and survive retuning
  (`app.py:2281`), so a scan can lock a channel nothing was heard on.
- `SkippedIsShown` (`MCLight`) — the handler notes a pulse as painted whether or not the
  renderer took it (`app.py:1288`). A pulse that came in while a wash swallowed it is skipped
  by the loop too, although a frame before it in the queue has ended that wash by then.
- `DarkUnderMenu` (`MCLight`) — the handler paints pulses without regard to the settings
  menu (`app.py:1276`), and `_render_perimeter` does not run there to fade them: the ring
  keeps the brightness that opening the menu was meant to clear.
- `ChosenShowIsRestored` (`MCDirector`) — the controller is built once, with the Show that
  was chosen at that time (`app.py:2054`); choosing another saves it, but the next session
  of the same boot enters the first one again (`controller.py:55`).

Related disagreements that no property is kept for:

- `protocol/dedup.py:4-6` has it that a frame is rendered exactly once. The fast path's cache
  of one pair (`app.py:1273`) lets redundant copies through when pulses interleave; the
  loop's `fp_handled` test (`app.py:2616`) uses the same single slot, so a pulse painted by
  the handler is painted again by the loop once another came in between; and a pulse that
  the loop got to first, by a `recv` of its own, is painted again by the handler when the
  next copy comes in. `unguarded` in `Link` stands for these, and `AtMostOnce` allows them
  and nothing else. After a restart of the Director the stale pair also keeps one pulse from
  being painted, which `RestartLosesFew` counts.
- Frames queued before the gate opened, or taken by the loop's own `recv`, enter the send
  record although the handler never relayed them (`repeater.py:460`), and redundant copies
  are relayed unrecorded.
- The README's "edge rule" does not extend to copies that come in after one from further
  out, as `tests/test_repeater.py:190-205` itself expects.
- `Director`'s `orphaned` stands for the exception to `WashFollowsShow` that the code has: a
  Conductor moved to another group lays its wash, which has no end of its own, there, and
  sends no end to the group before (`shows/conductor/__init__.py:229-235`).
- `rearmed` stands for the exceptions to `PressActsOnce`: `_dir_buttons.reset()` is called
  when an overlay closes only (`app.py:2200`), not on entering the Director as
  `button_map.py:88` says, and `ButtonTapSource.reset` takes the button for released.
- `_settings_back` (`app.py:1054-1059`) closes the settings before it uses a name it does
  not define.
- A window of less than the minimum that a phone writes is in force until the next boot,
  as only loading clamps it; and what a phone wrote without committing stays in force and
  is saved by the next save for any other reason.
- A deadline of the pairing that the wrap of `ticks_ms` catches running never comes
  (`ble_service.py`, `app.py`); `ScreenCloses` excepts it.
- `heartbeat_tick` (`render_dispatch.py:432`) subtracts plain tick values too: the first
  wrap of the clock silences the beacon of a Director that sends no effects.
- The digest of a configuration write covers the hop count, so that a relayed copy would
  not verify; nothing verifies one yet.

## Not modelled, and why

HMAC, drawing, images, the QR encoder and hardware probing have no state that steps
disturb. The numonce table, the numonce and the identity of the settings, `Settings.mode`,
`ChannelScanner.unlock` and the signal-strength parameter of the lock have no caller or no
reader in the app. What a text on the LCD shows, and for how long, is state of its own and
is left to the plan. The motion detector (`imu.py`) and Motion Wave compute on samples of a
sensor; Conductor's sections, beats and colours and a pulse's envelope are arithmetic on
colours. Quitting the app, lazy loading at boot and the help screen are not in `Sessions`
or `Pairing`. Tools and tests were read as documentation.

## Plan

The definitions map about a third of the implementation's lines. What is left, in the order
of its use:

1. `Light`, further: the renderer's calls split where the handler can come in between
   (`render/perimeter.py:221` tests `self._wash` and then uses it), and the handler's
   painting in the idle window and in a Director's session.
2. Ticks modulo a period for the plain subtractions of `repeater.py`, `perimeter.py`,
   `render_dispatch.py` and `imu.py`, as `Pairing` has them.
3. The hop memory of the repeater at its limit, and the send record across the wrap of the
   sequence number, in `Mesh` with more numbers than the memory holds.
4. The time-outs of texts on the LCD, and texts that are lost on a change of foreground.
5. A bound for `Mesh` in terms of the number of badges and of copies, to be found with TLC
   on three badges, before anything about how long a hop is vacant or served twice can be
   proved. The lemmas of `RepeaterProofs` on each badge's repeater are there for it.
