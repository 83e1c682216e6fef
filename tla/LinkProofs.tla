----------------------------- MODULE LinkProofs -----------------------------
(***************************************************************************)
(* The link for every number of frames and restarts, every ring and any    *)
(* losses, bottom up: the deduplication ring by itself, for every capacity *)
(* and every set of pairs; that all a badge does to its ring on behalf of  *)
(* a Director is what module Dedup allows, so that the ring's theorems     *)
(* hold of the link; and what the numbers of the frames, the ring and the  *)
(* lock achieve together.                                                  *)
(***************************************************************************)
EXTENDS Link, SequenceTheorems, FiniteSetTheorems, TLAPS

(***************************************************************************)
(* What Push does to a ring that is within its capacity: the new entry is  *)
(* last, and the others move up by one place only if the oldest fell out.  *)
(***************************************************************************)
LEMMA PushProperties ==
  ASSUME NEW S, NEW r \in Seq(S), NEW e \in S, NEW c \in Nat \ {0}, Len(r) <= c
  PROVE  /\ Push(r, e, c) \in Seq(S)
         /\ Len(Push(r, e, c)) = IF Len(r) = c THEN c ELSE Len(r) + 1
         /\ \A i \in 1 .. Len(Push(r, e, c)) :
              Push(r, e, c)[i] = IF i = Len(Push(r, e, c)) THEN e
                                 ELSE IF Len(r) = c THEN r[i + 1] ELSE r[i]
<1> DEFINE longer == Append(r, e)
<1>1. /\ longer \in Seq(S)
      /\ Len(longer) = Len(r) + 1
      /\ \A i \in 1 .. Len(r) : longer[i] = r[i]
      /\ longer[Len(r) + 1] = e
  BY AppendProperties
<1>2. CASE Len(r) = c
  <2>1. /\ Push(r, e, c) = Tail(longer)
        /\ longer # <<>>
    BY <1>1, <1>2 DEF Push
  <2>2. /\ Tail(longer) \in Seq(S)
        /\ Len(Tail(longer)) = Len(longer) - 1
        /\ \A i \in 1 .. Len(Tail(longer)) : Tail(longer)[i] = longer[i + 1]
    BY <1>1, <2>1, HeadTailProperties
  <2> QED BY <1>1, <1>2, <2>1, <2>2
<1>3. CASE Len(r) # c
  BY <1>1, <1>3 DEF Push
<1> QED BY <1>2, <1>3

(***************************************************************************)
(* The inductive invariant: a pair that is let through again is not in the *)
(* ring, the ring is the window, so its last occurrence is outside it.     *)
(***************************************************************************)
RingInv == RingTypeOK /\ RingIsWindow /\ RepeatsAreFarApart

(***************************************************************************)
(* A copy that is dropped, or that is not numbered, changes nothing.       *)
(***************************************************************************)
LEMMA OldStep ==
  ASSUME NEW key \in Keys, Seen(key), key \in Unsequenced \/ Holds(ring, key)
  PROVE  UNCHANGED ringVars
  BY DEF Seen, Remember, IsSeen, ringVars

(***************************************************************************)
(* A fresh copy shifts ring and history together.                          *)
(***************************************************************************)
LEMMA FreshStep ==
  ASSUME RingInv, NEW key \in Keys, Seen(key), key \notin Unsequenced, ~Holds(ring, key)
  PROVE  RingInv'
<1> DEFINE n == Len(fresh)
           m == Len(ring)
<1>0. /\ CAPACITY \in Nat \ {0}
      /\ ring \in Seq(Keys \ Unsequenced)
      /\ fresh \in Seq(Keys \ Unsequenced)
      /\ RingIsWindow
      /\ \A i, j \in 1 .. n : i < j /\ fresh[i] = fresh[j] => j - i > CAPACITY
  BY CapacityAssumption, LenProperties DEF RingInv, RingTypeOK, RepeatsAreFarApart
<1>1. ring' = Push(ring, key, CAPACITY) /\ fresh' = Append(fresh, key)
  BY DEF Seen, Remember, IsSeen
<1>2. n \in Nat /\ m \in Nat /\ m <= CAPACITY /\ m <= n
  BY <1>0, LenProperties DEF RingIsWindow, Least
<1>3. /\ ring' \in Seq(Keys \ Unsequenced)
      /\ Len(ring') = IF m = CAPACITY THEN CAPACITY ELSE m + 1
      /\ \A i \in 1 .. Len(ring') :
           ring'[i] = IF i = Len(ring') THEN key
                      ELSE IF m = CAPACITY THEN ring[i + 1] ELSE ring[i]
  <2> DEFINE S == Keys \ Unsequenced
  <2>1. ring \in Seq(S) /\ key \in S /\ CAPACITY \in Nat \ {0} /\ Len(ring) <= CAPACITY
    BY <1>0, <1>2
  <2> HIDE DEF S
  <2>2. /\ Push(ring, key, CAPACITY) \in Seq(S)
        /\ Len(Push(ring, key, CAPACITY)) =
             IF Len(ring) = CAPACITY THEN CAPACITY ELSE Len(ring) + 1
        /\ \A i \in 1 .. Len(Push(ring, key, CAPACITY)) :
             Push(ring, key, CAPACITY)[i] =
               IF i = Len(Push(ring, key, CAPACITY)) THEN key
               ELSE IF Len(ring) = CAPACITY THEN ring[i + 1] ELSE ring[i]
    <3> HIDE DEF n, m
    <3> DEFINE pushed == Push(ring, key, CAPACITY)
    <3>1. pushed \in Seq(S)
      BY <2>1, PushProperties
    <3>2. Len(pushed) = IF Len(ring) = CAPACITY THEN CAPACITY ELSE Len(ring) + 1
      BY <2>1, PushProperties
    <3>3. ASSUME NEW i \in 1 .. Len(pushed)
          PROVE  pushed[i] = IF i = Len(pushed) THEN key
                             ELSE IF Len(ring) = CAPACITY THEN ring[i + 1] ELSE ring[i]
      BY <2>1, PushProperties
    <3> HIDE DEF pushed
    <3> QED BY <3>1, <3>2, <3>3 DEF pushed
  <2> QED BY <1>1, <2>2 DEF S
<1>4. /\ fresh' \in Seq(Keys \ Unsequenced)
      /\ Len(fresh') = n + 1
      /\ \A i \in 1 .. n : fresh'[i] = fresh[i]
      /\ fresh'[n + 1] = key
      /\ DOMAIN fresh' = 1 .. n + 1
  <2>1. key \in Keys \ Unsequenced
    OBVIOUS
  <2> QED BY <1>0, <1>1, <2>1, AppendProperties, LenProperties
<1>5. RingIsWindow'
  <2>1. Len(ring') = Least(CAPACITY, n + 1)
    BY <1>0, <1>2, <1>3 DEF RingIsWindow, Least
  <2>2. ASSUME NEW i \in 1 .. Len(ring')
        PROVE  ring'[i] = fresh'[n + 1 - Len(ring') + i]
    <3>1. CASE i = Len(ring')
      <4>1. ring'[i] = key
        BY <1>3, <3>1
      <4>2. n + 1 - Len(ring') + i = n + 1
        BY <1>2, <1>3, <3>1
      <4> QED BY <1>4, <4>1, <4>2
    <3>2. CASE i # Len(ring') /\ m = CAPACITY
      <4>1. ring'[i] = ring[i + 1] /\ i + 1 \in 1 .. m
        BY <1>2, <1>3, <3>2
      <4>2. ring[i + 1] = fresh[n - m + i + 1] /\ n - m + i + 1 \in 1 .. n
        BY <1>0, <1>2, <4>1 DEF RingIsWindow
      <4>3. n + 1 - Len(ring') + i = n - m + i + 1
        BY <1>2, <1>3, <3>2
      <4>4. fresh'[n - m + i + 1] = fresh[n - m + i + 1]
        BY <1>4, <4>2
      <4> QED BY <4>1, <4>2, <4>3, <4>4
    <3>3. CASE i # Len(ring') /\ m # CAPACITY
      <4>1. ring'[i] = ring[i] /\ i \in 1 .. m
        BY <1>2, <1>3, <3>3
      <4>2. ring[i] = fresh[n - m + i] /\ n - m + i \in 1 .. n
        BY <1>0, <1>2, <4>1 DEF RingIsWindow
      <4>3. n + 1 - Len(ring') + i = n - m + i
        <5>1. Len(ring') = m + 1
          BY <1>3, <3>3
        <5> QED BY <1>2, <5>1
      <4>4. fresh'[n - m + i] = fresh[n - m + i]
        BY <1>4, <4>2
      <4> QED BY <4>1, <4>2, <4>3, <4>4
    <3> QED BY <3>1, <3>2, <3>3
  <2> QED BY <1>4, <2>1, <2>2, SMTT(20) DEF RingIsWindow
<1>6. RepeatsAreFarApart'
  <2> SUFFICES ASSUME NEW i \in 1 .. n + 1, NEW j \in 1 .. n + 1,
                      i < j, fresh'[i] = fresh'[j]
               PROVE  j - i > CAPACITY
    BY <1>4 DEF RepeatsAreFarApart
  <2>1. CASE j <= n
    <3>1. i \in 1 .. n /\ j \in 1 .. n
      BY <1>2, <2>1
    <3>2. fresh[i] = fresh[j]
      BY <1>4, <3>1
    <3> QED BY <1>0, <3>1, <3>2
  <2>2. CASE j = n + 1
    <3>1. fresh[i] = key /\ i \in 1 .. n
      BY <1>2, <1>4, <2>2
    <3>2. i <= n - m
      <4> SUFFICES ASSUME i > n - m PROVE FALSE
        BY <1>2
      <4>1. i - (n - m) \in 1 .. m
        BY <1>2, <3>1
      <4>2. ring[i - (n - m)] = fresh[i]
        BY <1>0, <1>2, <4>1 DEF RingIsWindow
      <4> QED BY <1>0, <3>1, <4>1, <4>2, LenProperties DEF Holds
    <3>3. m = CAPACITY
      BY <1>0, <1>2, <3>1, <3>2 DEF RingIsWindow, Least
    <3> QED BY <1>2, <2>2, <3>2, <3>3
  <2> QED BY <1>2, <2>1, <2>2
<1> QED BY <1>3, <1>4, <1>5, <1>6 DEF RingInv, RingTypeOK

LEMMA RingInductive == RingSpec => []RingInv
<1>1. RingInit => RingInv
  <2> SUFFICES ASSUME RingInit PROVE RingInv
    OBVIOUS
  <2>1. /\ ring \in Seq(Keys \ Unsequenced) /\ fresh \in Seq(Keys \ Unsequenced)
        /\ Len(ring) = 0 /\ Len(fresh) = 0
        /\ DOMAIN fresh = {}
    BY EmptySeq DEF RingInit
  <2> QED BY <2>1, CapacityAssumption DEF RingInv, RingTypeOK, RingIsWindow, RepeatsAreFarApart, Least
<1>2. RingInv /\ [RingNext]_ringVars => RingInv'
  <2> SUFFICES ASSUME RingInv, [RingNext]_ringVars PROVE RingInv'
    OBVIOUS
  <2>1. CASE UNCHANGED ringVars
    BY <2>1 DEF ringVars, RingInv, RingTypeOK, RingIsWindow, RepeatsAreFarApart
  <2>2. ASSUME NEW key \in Keys, Seen(key) PROVE RingInv'
    BY <2>1, <2>2, OldStep, FreshStep
  <2> QED BY <2>1, <2>2 DEF RingNext
<1> QED BY <1>1, <1>2, PTL DEF RingSpec

(***************************************************************************)
(* Ring and history only ever hold sequenced pairs.                        *)
(***************************************************************************)
THEOREM RingTypeCorrect == RingSpec => []RingTypeOK
<1>1. RingInv => RingTypeOK
  BY DEF RingInv
<1> QED BY <1>1, RingInductive, PTL

(***************************************************************************)
(* The ring is always the window of the last CAPACITY pairs let through.   *)
(***************************************************************************)
THEOREM RingIsAlwaysWindow == RingSpec => []RingIsWindow
<1>1. RingInv => RingIsWindow
  BY DEF RingInv
<1> QED BY <1>1, RingInductive, PTL

(***************************************************************************)
(* No pair is rendered twice within CAPACITY other pairs, whatever the     *)
(* order in which redundant and relayed copies come in.                    *)
(***************************************************************************)
THEOREM RenderedOnceInWindow == RingSpec => []RepeatsAreFarApart
<1>1. RingInv => RepeatsAreFarApart
  BY DEF RingInv
<1> QED BY <1>1, RingInductive, PTL

-----------------------------------------------------------------------------
LEMMA NumbersAreKeys ==
  ASSUME NEW n \in 0 .. SEQ_MAX
  PROVE  n \in Keys
  BY LinkAssumption

LEMMA Advances ==
  ASSUME NEW n \in 1 .. SEQ_MAX
  PROVE  AdvanceSequence(n) \in 1 .. SEQ_MAX
  BY DispatcherAssumption DEF AdvanceSequence

(***************************************************************************)
(* The dispatcher never gives a frame the number 0, and what is in the air *)
(* carries its numbers.                                                    *)
(***************************************************************************)
Numbered ==
  /\ director \in [sequence : 1 .. SEQ_MAX, since : 0 .. INTERVAL]
  /\ air \subseteq Frames
  /\ emitted \in 0 .. MaxFrames

LEMMA DispatchKeeps ==
  ASSUME NEW d \in [sequence : 1 .. SEQ_MAX, since : 0 .. INTERVAL], NEW sent \in Nat
  PROVE  /\ Dispatched(d, sent) \in [sequence : 1 .. SEQ_MAX, since : 0 .. INTERVAL]
         /\ HeartbeatSent(d, sent) \in [sequence : 1 .. SEQ_MAX, since : 0 .. INTERVAL]
  BY Advances, DispatcherAssumption DEF Dispatched, HeartbeatSent

LEMMA EmitKeeps ==
  ASSUME Numbered, NEW sent \in Nat, NEW kind \in Kinds, Emit(sent, kind)
  PROVE  air' \subseteq Frames /\ emitted' \in 0 .. MaxFrames
<1>1. emitted' = emitted + 1 /\ emitted < MaxFrames /\ emitted' \in Ids
  BY LinkAssumption DEF Emit, Numbered, Ids
<1>2. [id |-> emitted', number |-> director.sequence, kind |-> kind] \in Frames
  BY <1>1 DEF Numbered, Frames
<1> QED BY <1>1, <1>2 DEF Emit, Numbered, Ids

(***************************************************************************)
(* What a step of the Director's does to the link: a frame is emitted, or  *)
(* its loop passes idly.                                                   *)
(***************************************************************************)
Emits ==
  \E sent \in Nat, kind \in Kinds :
    Emit(sent, kind) /\ director' = Dispatched(director, sent)

LEMMA DirectorEmits ==
  ASSUME Fire \/ LoopPasses
  PROVE  \/ Emits
         \/ /\ ~HeartbeatDue(director)
            /\ UNCHANGED <<director, session, air, badgeVars, countVars, heard, missVars>>
<1>1. CASE Fire
  <2>1. PICK sent \in {0, REDUNDANCY}, kind \in {"pulse", "other"} :
          Emit(sent, kind) /\ director' = Dispatched(director, sent)
    BY <1>1 DEF Fire
  <2>2. sent \in Nat /\ kind \in Kinds
    BY DispatcherAssumption DEF Kinds
  <2> QED BY <2>1, <2>2 DEF Emits
<1>2. CASE LoopPasses
  <2>1. \/ \E sent \in {0, 1} :
             Emit(sent, "heartbeat") /\ director' = HeartbeatSent(director, sent)
        \/ /\ ~HeartbeatDue(director)
           /\ UNCHANGED <<director, session, air, badgeVars, countVars, heard, missVars>>
    BY <1>2, Zenon DEF LoopPasses
  <2>2. ASSUME NEW sent \in {0, 1}, Emit(sent, "heartbeat"),
               director' = HeartbeatSent(director, sent)
        PROVE  Emits
    <3>1. sent \in Nat /\ "heartbeat" \in Kinds
      BY DEF Kinds
    <3> QED BY <2>2, <3>1 DEF HeartbeatSent, Emits
  <2> QED BY <2>1, <2>2
<1> QED BY <1>1, <1>2

LEMMA StepNumbered == Numbered /\ [Next]_vars => Numbered'
<1> SUFFICES ASSUME Numbered, [Next]_vars PROVE Numbered'
  OBVIOUS
<1>1. CASE UNCHANGED vars
  BY <1>1 DEF Numbered, vars, directorVars, countVars
<1>2. CASE Emits
  <2>1. PICK sent \in Nat, kind \in Kinds :
          Emit(sent, kind) /\ director' = Dispatched(director, sent)
    BY <1>2 DEF Emits
  <2>2. director' \in [sequence : 1 .. SEQ_MAX, since : 0 .. INTERVAL]
    BY <2>1, DispatchKeeps DEF Numbered
  <2> QED BY <2>1, <2>2, EmitKeeps DEF Numbered
<1>3. CASE UNCHANGED <<director, session, air, badgeVars, countVars, heard, missVars>>
  BY <1>3 DEF Numbered, countVars
<1>4. CASE EnterSession \/ LeaveSession \/ TickBadge
  BY <1>4 DEF EnterSession, LeaveSession, TickBadge, Numbered, directorVars, countVars
<1>5. CASE Restart
  BY <1>5, DispatcherAssumption DEF Restart, NewDispatcher, Numbered
<1>6. ASSUME NEW f \in air, Paint(f) \/ Hear(f) \/ Fade(f) PROVE Numbered'
  BY <1>6 DEF Paint, Hear, Fade, Numbered, directorVars, countVars
<1>7. CASE PaintOther
  BY <1>7 DEF PaintOther, Numbered, directorVars, countVars
<1>8. CASE Elapse
  BY <1>8, DispatcherAssumption DEF Elapse, AgeDispatcher, Numbered
<1> QED BY <1>1, <1>2, <1>3, <1>4, <1>5, <1>6, <1>7, <1>8, DirectorEmits DEF Next

LEMMA AlwaysNumbered == Spec => []Numbered
<1>1. Init => Numbered
  BY DispatcherAssumption, LinkAssumption DEF Init, NewDispatcher, Numbered, Ids
<1> QED BY <1>1, StepNumbered, PTL DEF Spec

(***************************************************************************)
(* Only a frame that is heard touches the ring, and it does so the way     *)
(* Dedup says.                                                             *)
(***************************************************************************)
LEMMA RingStep == Numbered /\ [Next]_vars => [RingNext]_ringVars
<1> SUFFICES ASSUME Numbered, [Next]_vars PROVE [RingNext]_ringVars
  OBVIOUS
<1>1. CASE UNCHANGED vars
  BY <1>1 DEF vars, badgeVars
<1>2. CASE \/ Fire \/ LoopPasses \/ EnterSession \/ LeaveSession \/ Restart
            \/ PaintOther \/ TickBadge \/ Elapse
  BY <1>2 DEF Fire, LoopPasses, Emit, EnterSession, LeaveSession, Restart, PaintOther,
              TickBadge, Elapse, badgeVars
<1>3. ASSUME NEW f \in air, Hear(f) PROVE RingNext
  <2>1. f.number \in Keys
    BY NumbersAreKeys DEF Numbered, Frames
  <2> QED BY <1>3, <2>1 DEF Hear, RingNext
<1>4. ASSUME NEW f \in air, Paint(f) \/ Fade(f) PROVE UNCHANGED ringVars
  BY <1>4 DEF Paint, Fade
<1> QED BY <1>1, <1>2, <1>3, <1>4 DEF Next

(***************************************************************************)
(* Composition: the link's badge is a deduplication ring in the sense of   *)
(* Dedup, whatever Director and air do.                                    *)
(***************************************************************************)
THEOREM LinkUsesRing == Spec => RingSpec
<1>1. Init => RingInit
  BY DEF Init
<1> QED BY <1>1, RingStep, AlwaysNumbered, PTL DEF Spec, RingSpec

(***************************************************************************)
(* On the link, too, the ring is the window of the last pairs let through. *)
(***************************************************************************)
THEOREM LinkRingIsWindow == Spec => []RingIsWindow
BY LinkUsesRing, RingIsAlwaysWindow, PTL

(***************************************************************************)
(* On the link, too, a number gets through twice only with a ringful of    *)
(* others in between.                                                      *)
(***************************************************************************)
THEOREM LinkRepeatsAreFarApart == Spec => []RepeatsAreFarApart
BY LinkUsesRing, RenderedOnceInWindow, PTL

-----------------------------------------------------------------------------
(***************************************************************************)
(* The types: the part of TypeOK that Numbered and the ring do not give.   *)
(***************************************************************************)
Typed ==
  /\ session \in BOOLEAN /\ passed \in BOOLEAN
  /\ heard \subseteq air
  /\ lock \in Locks
  /\ burst \in 0 .. BURST
  /\ paint_key \in 0 .. SEQ_MAX
  /\ shown \in [Ids -> 0 .. 2] /\ unguarded \subseteq Pulses
  /\ swallowed \in Nat
  /\ lost \in 0 .. LOSSES /\ failed \in 0 .. LOSSES /\ off \in BOOLEAN
  /\ restarts \in 0 .. MaxRestarts

(***************************************************************************)
(* Whatever is done to a lock on behalf of the Director leaves a lock.     *)
(***************************************************************************)
LEMMA LockKeeps ==
  ASSUME NEW l \in Locks
  PROVE  /\ AfterAdmit(l, Director, CHANNEL) \in Locks
         /\ TickLock(l) \in Locks
         /\ AgeLock(l) \in Locks
<1>1. AfterAdmit(l, Director, CHANNEL) \in Locks
  BY LinkAssumption, TimeoutAssumption DEF AfterAdmit, Locks
<1>2. TickLock(l) \in Locks
  BY TimeoutAssumption DEF TickLock, Unlocked, Locks
<1>3. AgeLock(l) \in Locks
  BY TimeoutAssumption DEF AgeLock, Locks
<1> QED BY <1>1, <1>2, <1>3

LEMMA EmitTyped ==
  ASSUME Numbered, Typed, NEW sent \in Nat, NEW kind \in Kinds, Emit(sent, kind),
         passed' \in BOOLEAN
  PROVE  Typed'
<1>1. /\ burst' = burst + 1 /\ burst < BURST
      /\ air \subseteq air' /\ heard' = heard
      /\ failed' = failed \/ (lost + failed < LOSSES /\ failed' = failed + 1)
      /\ UNCHANGED <<session, lock, paint_key, shown, unguarded, swallowed, lost, off,
                    restarts>>
  BY DEF Emit, badgeVars, lightVars
<1>2. burst' \in 0 .. BURST /\ failed' \in 0 .. LOSSES
  BY <1>1, LinkAssumption DEF Typed
<1>3. Pulses \subseteq Pulses'
  BY <1>1 DEF Pulses
<1> QED BY <1>1, <1>2, <1>3 DEF Typed

(***************************************************************************)
(* What is rendered is counted.                                            *)
(***************************************************************************)
LEMMA ShowsTyped ==
  ASSUME Numbered, Typed, NEW f \in air, Shows(f)
  PROVE  shown' \in [Ids -> 0 .. 2] /\ shown'[f.id] # 0 /\ f.id \in Ids
         /\ \A i \in Ids \ {f.id} : shown'[i] = shown[i]
<1>1. f.id \in Ids
  BY DEF Numbered, Frames
<1> QED BY <1>1 DEF Shows, Typed

LEMMA RememberedArePulses == Remembered \subseteq Pulses
  BY DEF Remembered, Pulses

LEMMA PaintTyped ==
  ASSUME Numbered, Typed, NEW f \in air, Paint(f)
  PROVE  Typed'
<1>1. /\ Shows(f) /\ paint_key' = f.number
      /\ unguarded' = (unguarded \cup Remembered) \ {f.id}
      /\ UNCHANGED <<directorVars, air, lock, swallowed, countVars, heard, missVars>>
  BY DEF Paint
<1>2. f.number \in 0 .. SEQ_MAX
  BY DEF Numbered, Frames
<1>3. unguarded' \subseteq Pulses'
  BY <1>1, RememberedArePulses DEF Typed, Pulses
<1> QED BY <1>1, <1>2, <1>3, ShowsTyped DEF Typed, directorVars, countVars, missVars

LEMMA HearTyped ==
  ASSUME Numbered, Typed, NEW f \in air, Hear(f)
  PROVE  Typed'
<1>1. /\ lock' \in Locks /\ heard' \subseteq air'
      /\ UNCHANGED <<session, passed, air, paint_key, burst, emitted, restarts>>
  BY LockKeeps DEF Hear, Typed, directorVars, countVars
<1>2. shown' \in [Ids -> 0 .. 2] /\ unguarded' \subseteq Pulses'
  <2>1. CASE Renders(f)
    <3>1. Shows(f) /\ unguarded' = unguarded \cup ({f.id} \cap Pulses)
      BY <2>1 DEF Hear
    <3> QED BY <1>1, <3>1, ShowsTyped DEF Typed, Pulses
  <2>2. CASE ~Renders(f)
    BY <1>1, <2>2 DEF Hear, Typed, Pulses
  <2> QED BY <2>1, <2>2
<1>3. swallowed' \in Nat
  BY DEF Hear, Typed
<1>4. lost' \in 0 .. LOSSES /\ failed' \in 0 .. LOSSES /\ off' \in BOOLEAN
  <2>1. \/ lost' = lost /\ failed' = failed /\ off' = off
        \/ lost' = 0 /\ failed' = 0 /\ off' = FALSE
    BY DEF Hear, missVars
  <2>2. lost' \in 0 .. LOSSES /\ failed' \in 0 .. LOSSES
    BY <2>1, LinkAssumption DEF Typed
  <2>3. off' \in BOOLEAN
    BY <2>1 DEF Typed
  <2> QED BY <2>2, <2>3
<1> QED BY <1>1, <1>2, <1>3, <1>4 DEF Typed

LEMMA FadeTyped ==
  ASSUME Numbered, Typed, NEW f \in air, Fade(f)
  PROVE  Typed'
<1>1. lost' \in 0 .. LOSSES
  <2>1. lost' = lost \/ (lost + failed < LOSSES /\ lost' = lost + 1)
    BY DEF Fade
  <2> QED BY <2>1, LinkAssumption DEF Typed
<1>2. heard' \subseteq air'
  BY DEF Fade, Typed
<1>3. shown' \in [Ids -> 0 .. 2]
  <2>1. /\ shown \in [Ids -> 0 .. 2] /\ shown' = [shown EXCEPT ![f.id] = 0]
        /\ f.id \in Ids /\ 0 \in 0 .. 2
    BY DEF Fade, Typed, Numbered, Frames
  <2> QED BY <2>1
<1>4. unguarded' \subseteq Pulses'
  <2> SUFFICES ASSUME NEW i \in unguarded, i # f.id PROVE i \in Pulses'
    BY DEF Fade
  <2>1. PICK g \in air : g.kind = "pulse" /\ g.id = i
    BY DEF Typed, Pulses
  <2>2. g \in air'
    BY <2>1 DEF Fade
  <2> QED BY <2>1, <2>2 DEF Pulses
<1> QED BY <1>1, <1>2, <1>3, <1>4 DEF Fade, Typed, directorVars, countVars

LEMMA StepTyped == Numbered /\ Typed /\ [Next]_vars => Typed'
<1> SUFFICES ASSUME Numbered, Typed, [Next]_vars PROVE Typed'
  OBVIOUS
<1>0. UNCHANGED air => Pulses' = Pulses
  BY DEF Pulses
<1>1. CASE UNCHANGED vars
  BY <1>0, <1>1 DEF Typed, vars, directorVars, badgeVars, lightVars, countVars, missVars
<1>2. CASE Fire \/ LoopPasses
  <2>1. passed' \in BOOLEAN
    BY <1>2 DEF Fire, LoopPasses, Typed
  <2>2. CASE Emits
    BY <2>1, <2>2, EmitTyped DEF Emits
  <2>3. CASE UNCHANGED <<director, session, air, badgeVars, countVars, heard, missVars>>
    BY <1>0, <2>1, <2>3 DEF Typed, badgeVars, lightVars, countVars, missVars
  <2> QED BY <1>2, <2>2, <2>3, DirectorEmits
<1>3. CASE EnterSession \/ LeaveSession \/ TickBadge
  BY <1>0, <1>3, LockKeeps DEF EnterSession, LeaveSession, TickBadge, Typed, directorVars,
                              badgeVars, lightVars, countVars, missVars
<1>4. CASE Restart
  <2>1. restarts' \in 0 .. MaxRestarts
    BY <1>4, LinkAssumption DEF Restart, Typed
  <2> QED BY <1>0, <1>4, <2>1 DEF Restart, Typed, badgeVars, lightVars, missVars
<1>5. ASSUME NEW f \in air, Paint(f) \/ Hear(f) \/ Fade(f) PROVE Typed'
  BY <1>5, PaintTyped, HearTyped, FadeTyped
<1>6. CASE PaintOther
  <2>1. paint_key' \in 0 .. SEQ_MAX /\ unguarded' \subseteq Pulses'
    BY <1>0, <1>6, RememberedArePulses, DispatcherAssumption DEF PaintOther, Typed
  <2> QED BY <1>6, <2>1 DEF PaintOther, Typed, directorVars, countVars, missVars
<1>7. CASE Elapse
  <2>1. burst' \in 0 .. BURST /\ lock' \in Locks
    BY <1>7, LockKeeps, LinkAssumption DEF Elapse, Typed
  <2>2. UNCHANGED <<air, lightVars>>
    BY <1>7, Zenon DEF Elapse
  <2> QED BY <1>0, <1>7, <2>1, <2>2 DEF Elapse, Typed, lightVars
<1> QED BY <1>1, <1>2, <1>3, <1>4, <1>5, <1>6, <1>7 DEF Next

(***************************************************************************)
(* All that is known of the types of a reachable state.                    *)
(***************************************************************************)
Sound == Numbered /\ Typed /\ RingTypeOK /\ RingIsWindow

LEMMA AlwaysSound == Spec => []Sound
<1>1. Init => Typed
  <2> SUFFICES ASSUME Init PROVE Typed
    OBVIOUS
  <2>1. lock \in Locks /\ shown \in [Ids -> 0 .. 2] /\ paint_key \in 0 .. SEQ_MAX
    BY TimeoutAssumption, DispatcherAssumption DEF Init, Unlocked, Locks
  <2>2. BURST \in Nat /\ LOSSES \in Nat /\ MaxRestarts \in Nat
    BY LinkAssumption, CapacityAssumption
  <2>3. heard \subseteq air /\ unguarded \subseteq Pulses /\ swallowed \in Nat
    BY DEF Init
  <2>4. /\ burst \in 0 .. BURST /\ lost \in 0 .. LOSSES /\ failed \in 0 .. LOSSES
        /\ restarts \in 0 .. MaxRestarts
    BY <2>2 DEF Init
  <2>5. session \in BOOLEAN /\ passed \in BOOLEAN /\ off \in BOOLEAN
    BY DEF Init
  <2> QED BY <2>1, <2>3, <2>4, <2>5 DEF Typed
<1>2. Spec => []Typed
  BY <1>1, StepTyped, AlwaysNumbered, PTL DEF Spec
<1> QED BY <1>2, AlwaysNumbered, LinkUsesRing, RingTypeCorrect, RingIsAlwaysWindow, PTL DEF Sound

(***************************************************************************)
(* The link's types: above all, no frame is numbered 0, which receivers    *)
(* take for "not numbered", only pulses are ever found unguarded, and a    *)
(* frame counts as heard no longer than copies of it are on their way.     *)
(***************************************************************************)
THEOREM TypeCorrect == Spec => []TypeOK
<1>1. Sound => TypeOK
  BY DEF Sound, Numbered, Typed, TypeOK, Dispatchers
<1> QED BY <1>1, AlwaysSound, PTL

-----------------------------------------------------------------------------
(***************************************************************************)
(* The k youngest entries of a ring.                                       *)
(***************************************************************************)
Youngest(r, k) == {r[i] : i \in Len(r) - k + 1 .. Len(r)}

(***************************************************************************)
(* An entry that is pushed joins the youngest, and none of them falls out  *)
(* as long as they are fewer than the ring has places.                     *)
(***************************************************************************)
LEMMA PushYoungest ==
  ASSUME NEW S, NEW r \in Seq(S), NEW e \in S, NEW c \in Nat \ {0}, Len(r) <= c,
         NEW k \in 0 .. Len(r), k < c
  PROVE  /\ k + 1 \in 0 .. Len(Push(r, e, c))
         /\ Youngest(Push(r, e, c), k + 1) = Youngest(r, k) \cup {e}
<1> DEFINE p == Push(r, e, c)
<1>1. Len(r) \in Nat
  BY LenProperties
<1>2. Len(p) = IF Len(r) = c THEN c ELSE Len(r) + 1
  BY PushProperties
<1>3. ASSUME NEW i \in 1 .. Len(p)
      PROVE  p[i] = IF i = Len(p) THEN e ELSE IF Len(r) = c THEN r[i + 1] ELSE r[i]
  BY PushProperties, SMTT(60)
<1> HIDE DEF p
<1>4. Len(p) \in Nat /\ k + 1 <= Len(p) /\ Len(p) >= 1
  BY <1>1, <1>2
<1>5. ASSUME NEW x \in Youngest(p, k + 1) PROVE x \in Youngest(r, k) \cup {e}
  <2>1. PICK i \in Len(p) - k .. Len(p) : x = p[i]
    BY <1>4 DEF Youngest
  <2>2. i \in 1 .. Len(p)
    BY <1>4, <2>1
  <2>3. CASE i = Len(p)
    BY <1>3, <2>1, <2>2, <2>3
  <2>4. CASE i # Len(p) /\ Len(r) = c
    <3>1. x = r[i + 1] /\ i + 1 \in Len(r) - k + 1 .. Len(r)
      BY <1>1, <1>2, <1>3, <2>1, <2>2, <2>4
    <3> QED BY <3>1 DEF Youngest
  <2>5. CASE i # Len(p) /\ Len(r) # c
    <3>1. x = r[i] /\ i \in Len(r) - k + 1 .. Len(r)
      BY <1>1, <1>2, <1>3, <2>1, <2>2, <2>5
    <3> QED BY <3>1 DEF Youngest
  <2> QED BY <2>3, <2>4, <2>5
<1>6. ASSUME NEW x \in Youngest(r, k) PROVE x \in Youngest(p, k + 1)
  <2>1. PICK i \in Len(r) - k + 1 .. Len(r) : x = r[i]
    BY DEF Youngest
  <2>2. CASE Len(r) = c
    <3>1. i - 1 \in 1 .. Len(p) /\ i - 1 # Len(p) /\ i - 1 \in Len(p) - (k + 1) + 1 .. Len(p)
      BY <1>1, <1>2, <2>1, <2>2
    <3>2. p[i - 1] = r[i]
      <4>1. (i - 1) + 1 = i
        OBVIOUS
      <4>2. p[i - 1] = r[(i - 1) + 1]
        BY <1>3, <2>2, <3>1
      <4> QED BY <4>1, <4>2
    <3> QED BY <2>1, <3>1, <3>2 DEF Youngest
  <2>3. CASE Len(r) # c
    <3>1. i \in 1 .. Len(p) /\ i # Len(p) /\ i \in Len(p) - (k + 1) + 1 .. Len(p)
      BY <1>1, <1>2, <2>1, <2>3
    <3>2. p[i] = r[i]
      BY <1>3, <2>1, <2>3, <3>1
    <3> QED BY <2>1, <3>1, <3>2 DEF Youngest
  <2> QED BY <2>2, <2>3
<1>7. e \in Youngest(p, k + 1)
  <2>1. p[Len(p)] = e /\ Len(p) \in Len(p) - (k + 1) + 1 .. Len(p)
    BY <1>3, <1>4
  <2> QED BY <2>1 DEF Youngest
<1>8. Youngest(p, k + 1) = Youngest(r, k) \cup {e}
  BY <1>5, <1>6, <1>7
<1> QED BY <1>4, <1>8 DEF p

(***************************************************************************)
(* A ring within its capacity, as every reachable state has it.            *)
(***************************************************************************)
LEMMA RingFits ==
  ASSUME Sound
  PROVE  /\ ring \in Seq(Keys \ Unsequenced) /\ Len(ring) \in Nat
         /\ Len(ring) <= CAPACITY /\ DOMAIN ring = 1 .. Len(ring)
<1>1. ring \in Seq(Keys \ Unsequenced) /\ fresh \in Seq(Keys \ Unsequenced)
  BY DEF Sound, RingTypeOK
<1> QED BY <1>1, LenProperties, CapacityAssumption DEF Sound, RingIsWindow, Least

-----------------------------------------------------------------------------
(***************************************************************************)
(* Why no effect is shown twice although its number may be forgotten: what *)
(* was pushed in this unit of time are the k youngest entries, those and   *)
(* the frames still to be pushed are no more than were emitted in it, and  *)
(* that is no more than the ring holds.  So none of the k falls out while  *)
(* copies are on their way, and a frame that was shown is among them,      *)
(* unless it is a pulse: that is the one the handler painted last.         *)
(***************************************************************************)
Unpushed(k) == {f \in air : f.number \notin Youngest(ring, k)}

Fresh(k) ==
  /\ k + Cardinality(Unpushed(k)) <= burst
  /\ \A f \in air :
       f.kind # "pulse" /\ shown[f.id] # 0 => f.number \in Youngest(ring, k)

ToldApart ==
  /\ IsFiniteSet(air)
  /\ \A f \in air : f.id \in 1 .. emitted
  /\ \A f, g \in air : f.id = g.id => f = g

Guarded ==
  /\ \A i \in Ids \ Effects : shown[i] = 0
  /\ \A f \in air :
       f.kind = "pulse" /\ shown[f.id] # 0 /\ f.id \notin unguarded => f.number = paint_key

OnceInv == ToldApart /\ Guarded /\ \E k \in 0 .. Len(ring) : Fresh(k)

(***************************************************************************)
(* Whatever leaves the ring alone, takes frames off the air and renders    *)
(* pulses only.                                                            *)
(***************************************************************************)
LEMMA OnceFewer ==
  ASSUME OnceInv, Guarded', air' \subseteq air, UNCHANGED <<ring, emitted, burst>>,
         \A f \in air' : f.kind # "pulse" => shown'[f.id] = shown[f.id],
         burst \in Nat, Len(ring) \in Nat
  PROVE  OnceInv'
<1>1. PICK k \in 0 .. Len(ring) : Fresh(k)
  BY DEF OnceInv
<1>2. IsFiniteSet(air') /\ IsFiniteSet(Unpushed(k))
  BY FS_Subset DEF OnceInv, ToldApart, Unpushed
<1>3. Unpushed(k)' \subseteq Unpushed(k)
  BY DEF Unpushed
<1>4. Cardinality(Unpushed(k)') <= Cardinality(Unpushed(k))
  BY <1>2, <1>3, FS_Subset
<1>5. Cardinality(Unpushed(k)') \in Nat /\ Cardinality(Unpushed(k)) \in Nat
  BY <1>2, <1>3, FS_Subset, FS_CardinalityType
<1>6. k + Cardinality(Unpushed(k)') <= burst'
  BY <1>1, <1>4, <1>5 DEF Fresh
<1>7. Fresh(k)'
  BY <1>1, <1>6 DEF Fresh
<1>8. ToldApart'
  BY <1>2 DEF OnceInv, ToldApart
<1> QED BY <1>1, <1>7, <1>8 DEF OnceInv

LEMMA OnceEmit ==
  ASSUME Sound, OnceInv, NEW sent \in Nat, NEW kind \in Kinds, Emit(sent, kind)
  PROVE  OnceInv'
<1> DEFINE f == [id |-> emitted', number |-> director.sequence, kind |-> kind]
<1>1. /\ emitted \in Nat /\ emitted' = emitted + 1 /\ burst \in Nat /\ burst' = burst + 1
      /\ air' \in {air, air \cup {f}} /\ UNCHANGED <<ring, shown, unguarded, paint_key>>
  BY DEF Emit, Sound, Numbered, Typed, badgeVars, ringVars, lightVars
<1>2. f.id = emitted + 1 /\ f.id \in Ids
  BY <1>1, LinkAssumption DEF Emit, Ids
<1> HIDE DEF f
<1>3. ToldApart'
  <2>1. IsFiniteSet(air')
    BY <1>1, FS_AddElement DEF OnceInv, ToldApart
  <2>2. \A g \in air' : g.id \in 1 .. emitted'
    BY <1>1, <1>2 DEF OnceInv, ToldApart
  <2>3. \A g, h \in air' : g.id = h.id => g = h
    BY <1>1, <1>2 DEF OnceInv, ToldApart
  <2> QED BY <2>1, <2>2, <2>3 DEF ToldApart
<1>4. shown[f.id] = 0
  <2>1. f.id \notin Effects
    BY <1>1, <1>2 DEF Effects, OnceInv, ToldApart
  <2> QED BY <1>2, <2>1 DEF OnceInv, Guarded
<1>5. Guarded'
  <2>1. Effects \subseteq Effects'
    BY <1>1 DEF Effects
  <2> QED BY <1>1, <1>4, <2>1 DEF OnceInv, Guarded
<1>6. PICK k \in 0 .. Len(ring) : Fresh(k)
  BY DEF OnceInv
<1>7. IsFiniteSet(Unpushed(k)) /\ Cardinality(Unpushed(k)) \in Nat
  <2>1. IsFiniteSet(air) /\ Unpushed(k) \subseteq air
    BY DEF OnceInv, ToldApart, Unpushed
  <2>2. IsFiniteSet(Unpushed(k))
    BY <2>1, FS_Subset
  <2> QED BY <2>2, FS_CardinalityType
<1>8. /\ IsFiniteSet(Unpushed(k) \cup {f})
      /\ Cardinality(Unpushed(k) \cup {f}) <= Cardinality(Unpushed(k)) + 1
      /\ Cardinality(Unpushed(k) \cup {f}) \in Nat
  <2>1. /\ IsFiniteSet(Unpushed(k) \cup {f})
        /\ \/ Cardinality(Unpushed(k) \cup {f}) = Cardinality(Unpushed(k))
           \/ Cardinality(Unpushed(k) \cup {f}) = Cardinality(Unpushed(k)) + 1
    BY <1>7, FS_AddElement
  <2> QED BY <1>7, <2>1
<1>9. Unpushed(k)' \subseteq Unpushed(k) \cup {f}
  BY <1>1 DEF Unpushed
<1>10. /\ Cardinality(Unpushed(k)') <= Cardinality(Unpushed(k) \cup {f})
       /\ Cardinality(Unpushed(k)') \in Nat
  BY <1>8, <1>9, FS_Subset, FS_CardinalityType
<1>11. k + Cardinality(Unpushed(k)') <= burst'
  BY <1>1, <1>6, <1>7, <1>8, <1>10 DEF Fresh
<1>12. \A g \in air' : g.kind # "pulse" /\ shown'[g.id] # 0 => g.number \in Youngest(ring', k)
  BY <1>1, <1>4, <1>6 DEF Fresh
<1>13. Fresh(k)' /\ k \in 0 .. Len(ring')
  BY <1>1, <1>6, <1>11, <1>12 DEF Fresh
<1> QED BY <1>3, <1>5, <1>13 DEF OnceInv

(***************************************************************************)
(* The handler: another pulse comes to be the last it painted, and those   *)
(* that were are found unguarded.                                          *)
(***************************************************************************)
LEMMA OncePaint ==
  ASSUME Sound, OnceInv, NEW f \in air, Paint(f)
  PROVE  OnceInv'
<1>1. /\ Shows(f) /\ paint_key' = f.number /\ f.kind = "pulse"
      /\ unguarded' = (unguarded \cup Remembered) \ {f.id}
      /\ UNCHANGED <<air, ring, emitted, burst>>
  BY DEF Paint, FastPaints, ringVars, countVars
<1>2. \A i \in Ids \ {f.id} : shown'[i] = shown[i]
  BY <1>1, ShowsTyped DEF Sound
<1>3. \A g \in air : g # f => g.id \in Ids \ {f.id}
  BY DEF OnceInv, ToldApart, Sound, Numbered, Frames
<1>4. Guarded'
  <2>1. f.id \in Effects /\ Effects' = Effects
    BY <1>1 DEF Effects
  <2>2. \A i \in Ids \ Effects' : shown'[i] = 0
    BY <1>2, <2>1 DEF OnceInv, Guarded
  <2>3. ASSUME NEW g \in air, g.kind = "pulse", shown'[g.id] # 0, g.id \notin unguarded'
        PROVE  g.number = paint_key'
    <3> SUFFICES ASSUME g # f PROVE FALSE
      BY <1>1
    <3>1. shown[g.id] # 0 /\ g.id \notin unguarded /\ g.id \notin Remembered
      BY <1>1, <1>2, <1>3, <2>3
    <3>2. g.number = paint_key
      BY <2>3, <3>1 DEF OnceInv, Guarded
    <3> QED BY <2>3, <3>1, <3>2 DEF Remembered
  <2> QED BY <1>1, <2>2, <2>3 DEF Guarded
<1>5. \A g \in air' : g.kind # "pulse" => shown'[g.id] = shown[g.id]
  BY <1>1, <1>2, <1>3
<1>6. burst \in Nat
  BY LinkAssumption DEF Sound, Typed
<1> QED BY <1>1, <1>4, <1>5, <1>6, OnceFewer, RingFits

LEMMA OncePaintOther ==
  ASSUME Sound, OnceInv, PaintOther
  PROVE  OnceInv'
<1>1. /\ unguarded' = unguarded \cup Remembered
      /\ UNCHANGED <<air, ring, shown, emitted, burst>>
  BY DEF PaintOther, ringVars, countVars
<1>2. Guarded'
  <2>1. Effects' = Effects
    BY <1>1 DEF Effects
  <2>2. ASSUME NEW g \in air, g.kind = "pulse", shown[g.id] # 0
        PROVE  g.id \in unguarded'
    BY <1>1, <2>2 DEF OnceInv, Guarded, Remembered
  <2> QED BY <1>1, <2>1, <2>2 DEF OnceInv, Guarded
<1>3. burst \in Nat
  BY LinkAssumption DEF Sound, Typed
<1> QED BY <1>1, <1>2, <1>3, OnceFewer, RingFits

(***************************************************************************)
(* A frame that the loop has in its hands: the ring knows its number, or   *)
(* it is pushed, and then it is one less to be.                            *)
(***************************************************************************)
LEMMA SeenStep ==
  ASSUME Sound, NEW f \in air, Hear(f)
  PROVE  /\ f.number \in Keys \ Unsequenced /\ f.number \in 1 .. SEQ_MAX
         /\ IsSeen(ring, f.number) <=> Holds(ring, f.number)
         /\ ring' = IF Holds(ring, f.number) THEN ring ELSE Push(ring, f.number, CAPACITY)
<1>1. f.number \in 1 .. SEQ_MAX
  BY DEF Sound, Numbered, Frames
<1>2. f.number \in Keys /\ f.number \notin Unsequenced
  BY <1>1, LinkAssumption
<1> QED BY <1>1, <1>2 DEF Hear, Seen, Remember, IsSeen

(***************************************************************************)
(* What is rendered in the loop, if anything, is this frame; a pulse is    *)
(* then found unguarded.                                                   *)
(***************************************************************************)
LEMMA HearShows ==
  ASSUME Sound, OnceInv, NEW f \in air, Hear(f)
  PROVE  /\ Guarded'
         /\ \A g \in air : g # f => shown'[g.id] = shown[g.id]
         /\ ~Renders(f) => shown' = shown
<1>1. /\ IF Renders(f) THEN Shows(f) /\ unguarded' = unguarded \cup ({f.id} \cap Pulses)
                       ELSE UNCHANGED <<shown, unguarded>>
      /\ UNCHANGED <<air, paint_key>>
  BY DEF Hear
<1>2. Effects' = Effects
  BY <1>1 DEF Effects
<1>3. CASE Renders(f)
  <2>1. \A i \in Ids \ {f.id} : shown'[i] = shown[i]
    BY <1>1, <1>3, ShowsTyped DEF Sound
  <2>2. \A g \in air : g # f => g.id \in Ids \ {f.id}
    BY DEF OnceInv, ToldApart, Sound, Numbered, Frames
  <2>3. f.id \in Effects
    BY <1>3 DEF Renders, Effects
  <2>4. f.kind = "pulse" => f.id \in unguarded'
    BY <1>1, <1>3 DEF Pulses
  <2>5. Guarded'
    BY <1>1, <1>2, <1>3, <2>1, <2>2, <2>3, <2>4 DEF OnceInv, Guarded
  <2> QED BY <1>3, <2>1, <2>2, <2>5
<1>4. CASE ~Renders(f)
  BY <1>1, <1>2, <1>4 DEF OnceInv, Guarded
<1> QED BY <1>3, <1>4

LEMMA OnceHear ==
  ASSUME Sound, OnceInv, NEW f \in air, Hear(f)
  PROVE  OnceInv'
<1>1. UNCHANGED <<air, emitted, burst>> /\ burst \in Nat /\ burst <= CAPACITY
  <2>1. burst \in Nat /\ burst <= CAPACITY
    BY LinkAssumption, CapacityAssumption DEF Sound, Typed
  <2> QED BY <2>1 DEF Hear, countVars
<1>2. CASE Holds(ring, f.number)
  <2>1. UNCHANGED <<ring, shown>>
    BY <1>2, SeenStep, HearShows DEF Renders
  <2> QED BY <1>1, <2>1, OnceFewer, RingFits, HearShows
<1>3. CASE ~ Holds(ring, f.number)
  <2>1. PICK k \in 0 .. Len(ring) : Fresh(k)
    BY DEF OnceInv
  <2>2. f.number \notin Youngest(ring, k)
    BY <1>3, <2>1, RingFits DEF Youngest, Holds
  <2>3. IsFiniteSet(Unpushed(k)) /\ f \in Unpushed(k)
    BY <2>2, FS_Subset DEF OnceInv, ToldApart, Unpushed
  <2>4. /\ Cardinality(Unpushed(k)) \in Nat /\ IsFiniteSet(Unpushed(k) \ {f})
        /\ Cardinality(Unpushed(k) \ {f}) \in Nat
        /\ Cardinality(Unpushed(k) \ {f}) = Cardinality(Unpushed(k)) - 1
    BY <2>3, FS_RemoveElement, FS_CardinalityType
  <2>5. k < CAPACITY
    BY <1>1, <2>1, <2>4, CapacityAssumption DEF Fresh
  <2>6. k + 1 \in 0 .. Len(ring') /\ Youngest(ring', k + 1) = Youngest(ring, k) \cup {f.number}
    <3>1. ring' = Push(ring, f.number, CAPACITY) /\ f.number \in Keys \ Unsequenced
      BY <1>3, SeenStep
    <3> DEFINE S == Keys \ Unsequenced
    <3>2. f.number \in S /\ ring \in Seq(S) /\ Len(ring) <= CAPACITY
      BY <3>1, RingFits
    <3> HIDE DEF S
    <3> DEFINE p == Push(ring, f.number, CAPACITY)
    <3>3. k + 1 \in 0 .. Len(p)
      BY <2>1, <2>5, <3>2, PushYoungest, CapacityAssumption
    <3>4. Youngest(p, k + 1) = Youngest(ring, k) \cup {f.number}
      BY <2>1, <2>5, <3>2, PushYoungest, CapacityAssumption
    <3> HIDE DEF p
    <3> QED BY <3>1, <3>3, <3>4 DEF p
  <2>7. Unpushed(k + 1)' \subseteq Unpushed(k) \ {f}
    BY <1>1, <2>6 DEF Unpushed
  <2>8. /\ Cardinality(Unpushed(k + 1)') \in Nat
        /\ Cardinality(Unpushed(k + 1)') <= Cardinality(Unpushed(k)) - 1
    BY <2>4, <2>7, FS_Subset, FS_CardinalityType
  <2>9. (k + 1) + Cardinality(Unpushed(k + 1)') <= burst'
    BY <1>1, <2>1, <2>4, <2>8 DEF Fresh
  <2>10. ASSUME NEW g \in air', g.kind # "pulse", shown'[g.id] # 0
         PROVE  g.number \in Youngest(ring', k + 1)
    <3>1. CASE g = f
      BY <2>6, <3>1
    <3>2. CASE g # f
      <4>1. shown[g.id] # 0
        BY <1>1, <2>10, <3>2, HearShows
      <4> QED BY <1>1, <2>1, <2>6, <2>10, <4>1 DEF Fresh
    <3> QED BY <3>1, <3>2
  <2>11. Fresh(k + 1)'
    BY <2>9, <2>10 DEF Fresh
  <2>12. ToldApart'
    BY <1>1 DEF OnceInv, ToldApart
  <2> QED BY <2>6, <2>11, <2>12, HearShows DEF OnceInv
<1> QED BY <1>2, <1>3

(***************************************************************************)
(* A frame whose copies are gone is no longer marked as shown.             *)
(***************************************************************************)
LEMMA FadeForgets ==
  ASSUME Sound, OnceInv, NEW f \in air, Fade(f)
  PROVE  /\ Guarded'
         /\ Effects' \subseteq Effects /\ Pulses' = Pulses \cap Effects'
         /\ \A i \in Ids : shown'[i] = IF i \in Effects' THEN shown[i] ELSE 0
<1>1. /\ air' = air \ {f} /\ UNCHANGED paint_key /\ unguarded' = unguarded \ {f.id}
      /\ shown' = [shown EXCEPT ![f.id] = 0] /\ DOMAIN shown = Ids
  BY DEF Fade, Sound, Typed
<1>2. \A g, h \in air : g.id = h.id => g = h
  BY DEF OnceInv, ToldApart
<1>3. Effects' = Effects \ {f.id}
  BY <1>1, <1>2 DEF Effects
<1>4. Pulses' = Pulses \cap Effects'
  BY <1>1, <1>2 DEF Effects, Pulses
<1>5. \A i \in Ids \ Effects : shown[i] = 0
  BY DEF OnceInv, Guarded
<1>6. \A i \in Ids : shown'[i] = IF i \in Effects' THEN shown[i] ELSE 0
  BY <1>1, <1>3, <1>5
<1>7. ASSUME NEW g \in air', g.kind = "pulse", shown'[g.id] # 0, g.id \notin unguarded'
      PROVE  g.number = paint_key'
  <2>1. g \in air /\ g.id # f.id /\ g.id \in Ids
    BY <1>1, <1>2 DEF Sound, Numbered, Frames
  <2>2. shown[g.id] # 0 /\ g.id \notin unguarded
    BY <1>1, <1>7, <2>1
  <2> QED BY <1>1, <1>7, <2>1, <2>2 DEF OnceInv, Guarded
<1>8. Guarded'
  BY <1>6, <1>7 DEF Guarded
<1> QED BY <1>3, <1>4, <1>6, <1>8

LEMMA OnceFade ==
  ASSUME Sound, OnceInv, NEW f \in air, Fade(f)
  PROVE  OnceInv'
<1>1. air' \subseteq air /\ UNCHANGED <<ring, emitted, burst>>
  BY DEF Fade, ringVars, countVars
<1>2. \A g \in air' : shown'[g.id] = shown[g.id]
  <2>1. air' = air \ {f} /\ shown' = [shown EXCEPT ![f.id] = 0]
    BY DEF Fade
  <2>2. \A g \in air' : g.id # f.id /\ g.id \in Ids
    BY <2>1 DEF OnceInv, ToldApart, Sound, Numbered, Frames
  <2> QED BY <2>1, <2>2 DEF Sound, Typed
<1>3. burst \in Nat
  BY LinkAssumption DEF Sound, Typed
<1> QED BY <1>1, <1>2, <1>3, OnceFewer, RingFits, FadeForgets

LEMMA StepOnce == Sound /\ OnceInv /\ [Next]_vars => OnceInv'
<1> SUFFICES ASSUME Sound, OnceInv, [Next]_vars PROVE OnceInv'
  OBVIOUS
<1>0. burst \in Nat /\ Len(ring) \in Nat
  BY RingFits DEF Sound, Typed
<1>1. CASE UNCHANGED <<air, ring, lightVars, emitted, burst>>
  <2>1. Guarded'
    BY <1>1 DEF OnceInv, Guarded, Effects, lightVars
  <2> QED BY <1>0, <1>1, <2>1, OnceFewer DEF lightVars
<1>2. CASE Fire \/ LoopPasses
  <2>1. Emits => OnceInv'
    BY OnceEmit DEF Emits
  <2>2. UNCHANGED <<director, session, air, badgeVars, countVars, heard, missVars>>
          => UNCHANGED <<air, ring, lightVars, emitted, burst>>
    BY DEF badgeVars, ringVars, countVars
  <2> QED BY <1>1, <1>2, <2>1, <2>2, DirectorEmits
<1>3. ASSUME NEW f \in air, Paint(f) \/ Hear(f) \/ Fade(f) PROVE OnceInv'
  BY <1>3, OncePaint, OnceHear, OnceFade
<1>4. CASE PaintOther
  BY <1>4, OncePaintOther
<1>5. CASE Elapse
  <2>1. air' = {} /\ air = {} /\ burst' = 0 /\ UNCHANGED <<ring, shown, unguarded, paint_key, emitted>>
    BY <1>5 DEF Elapse, ringVars, lightVars
  <2>2. 0 \in 0 .. Len(ring') /\ Unpushed(0)' = {}
    BY <1>0, <2>1 DEF Unpushed
  <2>3. Fresh(0)'
    BY <2>1, <2>2, FS_EmptySet DEF Fresh
  <2>4. ToldApart' /\ Guarded'
    BY <2>1, FS_EmptySet DEF OnceInv, ToldApart, Guarded, Effects
  <2> QED BY <2>2, <2>3, <2>4 DEF OnceInv
<1>6. EnterSession \/ LeaveSession \/ Restart \/ TickBadge \/ UNCHANGED vars
        => UNCHANGED <<air, ring, lightVars, emitted, burst>>
  BY DEF EnterSession, LeaveSession, Restart, TickBadge, vars, badgeVars, ringVars, countVars
<1> QED BY <1>1, <1>2, <1>3, <1>4, <1>5, <1>6 DEF Next

LEMMA AlwaysOnce == Spec => []OnceInv
<1>1. Init => OnceInv
  <2> SUFFICES ASSUME Init PROVE OnceInv
    OBVIOUS
  <2>1. air = {} /\ burst = 0 /\ Len(ring) = 0 /\ \A i \in Ids : shown[i] = 0
    BY DEF Init, RingInit
  <2>2. 0 \in 0 .. Len(ring) /\ Unpushed(0) = {}
    BY <2>1 DEF Unpushed
  <2>3. Fresh(0)
    BY <2>1, <2>2, FS_EmptySet DEF Fresh
  <2>4. ToldApart /\ Guarded
    BY <2>1, FS_EmptySet DEF ToldApart, Guarded
  <2> QED BY <2>2, <2>3, <2>4 DEF OnceInv
<1> QED BY <1>1, StepOnce, AlwaysSound, PTL DEF Spec

(***************************************************************************)
(* To the promise it is the same whether a frame is refused, is no effect, *)
(* or is over.                                                             *)
(***************************************************************************)
LEMMA PromiseExpires ==
  ASSUME Sound, Sound', emitted' >= emitted,
         Effects' \subseteq Effects, Pulses' = Pulses \cap Effects',
         \A i \in Ids : shown'[i] = IF i \in Effects' THEN shown[i] ELSE 0
  PROVE  Promise!Next
<1>1. unguarded' \subseteq Pulses' /\ shown' \in [Ids -> 0 .. 2]
  BY DEF Sound, Typed
<1>2. shown' = [e \in Ids |-> IF e \in Effects' THEN shown[e] ELSE 0]
  BY <1>1
<1>3. Promise!Expire
  BY <1>1, <1>2 DEF Promise!Expire, Promise!Reguard
<1> QED BY <1>3 DEF Promise!Next

LEMMA PromiseEmit ==
  ASSUME Sound, OnceInv, Sound', NEW sent \in Nat, NEW kind \in Kinds, Emit(sent, kind)
  PROVE  Promise!Next
<1> DEFINE f == [id |-> emitted', number |-> director.sequence, kind |-> kind]
<1>1. /\ emitted' = emitted + 1 /\ emitted' > emitted /\ emitted' \in Ids
      /\ UNCHANGED <<shown, unguarded>>
  BY LinkAssumption DEF Emit, Sound, Numbered, Ids, badgeVars, lightVars
<1>2. Pulses \subseteq Effects
  BY DEF Pulses, Effects
<1>3. f.id = emitted' /\ f.kind = kind
  OBVIOUS
<1> HIDE DEF f
<1>4. CASE sent > 0 /\ kind # "heartbeat"
  <2>1. air' = air \cup {f}
    BY <1>4 DEF Emit, f
  <2>2. Effects' = Effects \cup {emitted'}
    BY <1>3, <1>4, <2>1 DEF Effects
  <2>3. Pulses' \in {Pulses, Pulses \cup {emitted'}}
    BY <1>3, <2>1 DEF Pulses
  <2>4. Promise!Send(emitted')
    BY <1>1, <2>2, <2>3 DEF Promise!Send
  <2> QED BY <1>1, <2>4 DEF Promise!Next
<1>5. CASE ~(sent > 0 /\ kind # "heartbeat")
  <2>1. air' = air \/ (air' = air \cup {f} /\ kind = "heartbeat")
    BY <1>5 DEF Emit, f
  <2>2. Effects' = Effects /\ Pulses' = Pulses
    BY <1>3, <2>1 DEF Effects, Pulses
  <2>3. \A i \in Ids : shown'[i] = IF i \in Effects' THEN shown[i] ELSE 0
    BY <1>1, <2>2 DEF OnceInv, Guarded
  <2> QED BY <1>1, <1>2, <2>2, <2>3, PromiseExpires DEF Sound, Numbered
<1> QED BY <1>4, <1>5

(***************************************************************************)
(* An effect is rendered that was not before, or a pulse that is found     *)
(* unguarded.                                                              *)
(***************************************************************************)
LEMMA PromiseShow ==
  ASSUME Sound, Sound', NEW f \in air, f.kind # "heartbeat", Shows(f),
         shown[f.id] = 0 \/ f.id \in unguarded, UNCHANGED <<air, emitted>>
  PROVE  Promise!Next
<1>1. f.id \in Effects /\ Effects' = Effects /\ Pulses' = Pulses /\ f.id \in Ids
  BY DEF Effects, Pulses, Sound, Numbered, Frames
<1>2. unguarded' \subseteq Pulses'
  BY DEF Sound, Typed
<1>3. Promise!Show(f.id)
  BY <1>1, <1>2 DEF Shows, Promise!Show, Promise!Reguard
<1> QED BY <1>1, <1>3 DEF Promise!Next

(***************************************************************************)
(* Every step of the link is one of the promise, or leaves what the        *)
(* promise is about alone.                                                 *)
(***************************************************************************)
LEMMA StepKeepsPromise ==
  Sound /\ OnceInv /\ Sound' /\ [Next]_vars => [Promise!Next]_(Promise!vars)
<1> DEFINE Idle == UNCHANGED <<emitted, air, unguarded, shown>>
<1> SUFFICES ASSUME Sound, OnceInv, Sound', [Next]_vars
             PROVE  Promise!Next \/ Idle
  BY DEF Promise!vars, Effects, Pulses
<1>1. CASE Fire \/ LoopPasses
  <2>1. Emits => Promise!Next
    BY PromiseEmit DEF Emits
  <2>2. UNCHANGED <<director, session, air, badgeVars, countVars, heard, missVars>> => Idle
    BY DEF badgeVars, lightVars, countVars
  <2> QED BY <1>1, <2>1, <2>2, DirectorEmits
<1>2. ASSUME NEW f \in air, Paint(f) PROVE Promise!Next
  <2>1. /\ Shows(f) /\ f.kind = "pulse" /\ f.number # paint_key /\ UNCHANGED <<air, emitted>>
    BY <1>2 DEF Paint, FastPaints, countVars
  <2>2. shown[f.id] = 0 \/ f.id \in unguarded
    BY <2>1 DEF OnceInv, Guarded
  <2> QED BY <2>1, <2>2, PromiseShow
<1>3. CASE PaintOther
  <2>1. UNCHANGED <<air, emitted, shown>> /\ emitted \in Nat
    BY <1>3 DEF PaintOther, countVars, Sound, Numbered
  <2>2. Effects' = Effects /\ Pulses' = Pulses /\ Pulses \subseteq Effects
    BY <2>1 DEF Effects, Pulses
  <2>3. \A i \in Ids : shown'[i] = IF i \in Effects' THEN shown[i] ELSE 0
    BY <2>1, <2>2 DEF OnceInv, Guarded
  <2> QED BY <2>1, <2>2, <2>3, PromiseExpires
<1>4. ASSUME NEW f \in air, Hear(f) PROVE Promise!Next \/ Idle
  <2>1. UNCHANGED <<air, emitted>>
    BY <1>4 DEF Hear, countVars
  <2>2. CASE Renders(f)
    <3>1. /\ Shows(f) /\ f.kind # "heartbeat" /\ ~Holds(ring, f.number)
          /\ ~(f.kind = "pulse" /\ f.number = paint_key)
      BY <1>4, <2>2, SeenStep DEF Hear, Renders
    <3>2. shown[f.id] = 0 \/ f.id \in unguarded
      <4>1. CASE f.kind = "pulse"
        BY <3>1, <4>1 DEF OnceInv, Guarded
      <4>2. CASE f.kind # "pulse"
        <5>1. PICK k \in 0 .. Len(ring) : Fresh(k)
          BY DEF OnceInv
        <5>2. f.number \notin Youngest(ring, k)
          BY <3>1, <5>1, RingFits DEF Youngest, Holds
        <5> QED BY <4>2, <5>1, <5>2 DEF Fresh
      <4> QED BY <4>1, <4>2
    <3> QED BY <2>1, <3>1, <3>2, PromiseShow
  <2>3. CASE ~Renders(f)
    BY <1>4, <2>1, <2>3 DEF Hear
  <2> QED BY <2>2, <2>3
<1>5. ASSUME NEW f \in air, Fade(f) PROVE Promise!Next
  <2>1. emitted' = emitted /\ emitted \in Nat
    BY <1>5 DEF Fade, countVars, Sound, Numbered
  <2> QED BY <1>5, <2>1, FadeForgets, PromiseExpires
<1>6. EnterSession \/ LeaveSession \/ Restart \/ TickBadge \/ Elapse \/ UNCHANGED vars => Idle
  BY DEF EnterSession, LeaveSession, Restart, TickBadge, Elapse, vars, badgeVars, lightVars,
         countVars
<1> QED BY <1>1, <1>2, <1>3, <1>4, <1>5, <1>6 DEF Next

(***************************************************************************)
(* Refinement: the link keeps the promise of module AtMostOnce.  Whatever  *)
(* is lost, repeated or overtaken, however the numbers wrap and however    *)
(* often the Director is restarted, and however interrupt handler and loop *)
(* take turns at the copies, an effect is shown once at most, as long as   *)
(* no more frames are on their way together than the ring holds.  For a    *)
(* pulse that goes only until another pulse takes its place in the         *)
(* handler's memory, or if the handler never saw it before the loop did.   *)
(***************************************************************************)
THEOREM KeepsThePromise == Spec => EffectsAtMostOnce
<1>1. Init => Promise!Init
  BY DEF Init, Promise!Init, Effects, Pulses
<1> QED BY <1>1, StepKeepsPromise, AlwaysSound, AlwaysOnce, PTL
        DEF Spec, EffectsAtMostOnce, Promise!Spec

-----------------------------------------------------------------------------
(***************************************************************************)
(* A product grows by one factor when the other grows by one.              *)
(***************************************************************************)
LEMMA OneMore ==
  ASSUME NEW m \in Nat, NEW n \in Nat
  PROVE  m * n \in Nat /\ (m + 1) * n = m * n + n /\ m * (n + 1) = m * n + m
  OBVIOUS

(***************************************************************************)
(* A ring has no more distinct entries than its length.                    *)
(***************************************************************************)
LEMMA FewEntries ==
  ASSUME NEW S, NEW r \in Seq(S), NEW T, \A n \in T : Holds(r, n)
  PROVE  IsFiniteSet(T) /\ Cardinality(T) <= Len(r) /\ Cardinality(T) \in Nat
<1> DEFINE E == {r[i] : i \in 1 .. Len(r)}
<1>1. Len(r) \in Nat /\ DOMAIN r = 1 .. Len(r) /\ r \in [1 .. Len(r) -> S]
  BY LenProperties
<1>2. IsFiniteSet(1 .. Len(r)) /\ Cardinality(1 .. Len(r)) = Len(r)
  BY <1>1, FS_Interval
<1>3. [i \in 1 .. Len(r) |-> r[i]] \in Surjection(1 .. Len(r), E)
  BY DEF Surjection
<1>4. T \subseteq E
  BY <1>1 DEF Holds
<1> HIDE DEF E
<1>5. IsFiniteSet(E) /\ Cardinality(E) <= Len(r)
  <2> DEFINE I == 1 .. Len(r)
             f == [i \in I |-> r[i]]
  <2>1. IsFiniteSet(I) /\ f \in Surjection(I, E)
    BY <1>2, <1>3
  <2> HIDE DEF I, f
  <2>2. IsFiniteSet(E) /\ Cardinality(E) <= Cardinality(I)
    BY <2>1, FS_Surjection
  <2> QED BY <1>2, <2>2 DEF I
<1>6. IsFiniteSet(T) /\ Cardinality(T) <= Cardinality(E)
  BY <1>4, <1>5, FS_Subset
<1> QED BY <1>1, <1>5, <1>6, FS_CardinalityType

(***************************************************************************)
(* What a push leaves in the ring was there, or was pushed.                *)
(***************************************************************************)
LEMMA PushHolds ==
  ASSUME NEW S, NEW r \in Seq(S), NEW e \in S, NEW c \in Nat \ {0}, Len(r) <= c,
         NEW n, Holds(Push(r, e, c), n)
  PROVE  n = e \/ Holds(r, n)
<1> DEFINE p == Push(r, e, c)
<1>1. Len(r) \in Nat /\ DOMAIN r = 1 .. Len(r)
  BY LenProperties
<1>2. p \in Seq(S) /\ Len(p) = IF Len(r) = c THEN c ELSE Len(r) + 1
  BY PushProperties
<1>3. ASSUME NEW i \in 1 .. Len(p)
      PROVE  p[i] = IF i = Len(p) THEN e ELSE IF Len(r) = c THEN r[i + 1] ELSE r[i]
  BY PushProperties
<1>4. Holds(p, n)
  OBVIOUS
<1> HIDE DEF p
<1>5. PICK i \in 1 .. Len(p) : p[i] = n
  BY <1>2, <1>4, LenProperties DEF Holds
<1>6. CASE i # Len(p)
  <2>1. /\ Len(p) = IF Len(r) = c THEN c ELSE Len(r) + 1
        /\ Len(r) \in Nat /\ i \in 1 .. Len(p) /\ i # Len(p)
    BY <1>1, <1>2, <1>5, <1>6
  <2>2. n = IF Len(r) = c THEN r[i + 1] ELSE r[i]
    BY <1>3, <1>5, <1>6
  <2>3. CASE Len(r) = c
    <3>1. i + 1 \in 1 .. Len(r)
      BY <2>1, <2>3
    <3> QED BY <1>1, <2>2, <2>3, <3>1 DEF Holds
  <2>4. CASE Len(r) # c
    <3>1. i \in 1 .. Len(r)
      BY <2>1, <2>4
    <3> QED BY <1>1, <2>2, <2>4, <3>1 DEF Holds
  <2> QED BY <2>3, <2>4
<1> QED BY <1>3, <1>5, <1>6

-----------------------------------------------------------------------------
(***************************************************************************)
(* What may still be taken for one already shown while the numbers have    *)
(* not come round: what the ring holds or the handler painted last, if a   *)
(* frame will carry it, or one on the air carries it which neither was     *)
(* rendered nor has been in the loop's hands.  Only a restart makes any;   *)
(* each effect that is swallowed uses one up.                              *)
(***************************************************************************)
Lingering == {n \in 1 .. SEQ_MAX : Holds(ring, n) \/ n = paint_key}

Exposed ==
  {n \in Lingering :
     \/ n >= director.sequence /\ emitted < SEQ_MAX
     \/ \E f \in air \ heard : f.number = n /\ shown[f.id] = 0}

LoseInv ==
  emitted <= SEQ_MAX =>
    /\ \A f, g \in air : f.number = g.number => f = g
    /\ emitted < SEQ_MAX => /\ director.sequence <= emitted + 1
                            /\ \A f \in air : f.number < director.sequence
    /\ swallowed + Cardinality(Exposed) <= restarts * (CAPACITY + 1)

LEMMA LingeringAreFew ==
  ASSUME Sound
  PROVE  /\ IsFiniteSet(Lingering) /\ Cardinality(Lingering) \in Nat
         /\ Cardinality(Lingering) <= CAPACITY + 1
<1> DEFINE held == {n \in 1 .. SEQ_MAX : Holds(ring, n)}
<1>1. Cardinality(held) <= CAPACITY /\ IsFiniteSet(held) /\ Cardinality(held) \in Nat
  <2>1. \A n \in held : Holds(ring, n)
    OBVIOUS
  <2>2. Cardinality(held) <= Len(ring) /\ IsFiniteSet(held) /\ Cardinality(held) \in Nat
    <3> HIDE DEF held
    <3> QED BY <2>1, RingFits, FewEntries
  <2> QED BY <2>2, RingFits, CapacityAssumption
<1>2. Lingering \subseteq held \cup {paint_key}
  BY DEF Lingering
<1> HIDE DEF held
<1>3. /\ IsFiniteSet(held \cup {paint_key})
      /\ \/ Cardinality(held \cup {paint_key}) = Cardinality(held)
         \/ Cardinality(held \cup {paint_key}) = Cardinality(held) + 1
  BY <1>1, FS_AddElement
<1>4. /\ Cardinality(held \cup {paint_key}) <= CAPACITY + 1
      /\ Cardinality(held \cup {paint_key}) \in Nat
  BY <1>1, <1>3, CapacityAssumption
<1>5. IsFiniteSet(Lingering) /\ Cardinality(Lingering) <= Cardinality(held \cup {paint_key})
  BY <1>2, <1>3, FS_Subset
<1>6. Cardinality(Lingering) \in Nat
  BY <1>5, FS_CardinalityType
<1> QED BY <1>4, <1>5, <1>6, CapacityAssumption

LEMMA ExposedIsFinite ==
  ASSUME Sound
  PROVE  IsFiniteSet(Exposed) /\ Cardinality(Exposed) \in Nat
<1>1. Exposed \subseteq Lingering
  BY DEF Exposed
<1>2. IsFiniteSet(Exposed)
  BY <1>1, LingeringAreFew, FS_Subset
<1> QED BY <1>2, FS_CardinalityType

(***************************************************************************)
(* A step that exposes nothing, swallows nothing and is no restart keeps   *)
(* the count.                                                              *)
(***************************************************************************)
LEMMA CountKeeps ==
  ASSUME Sound, Exposed' \subseteq Exposed,
         UNCHANGED <<swallowed, restarts>>,
         swallowed + Cardinality(Exposed) <= restarts * (CAPACITY + 1)
  PROVE  swallowed' + Cardinality(Exposed') <= restarts' * (CAPACITY + 1)
<1>1. swallowed \in Nat /\ restarts * (CAPACITY + 1) \in Nat
  BY CapacityAssumption, OneMore DEF Sound, Typed
<1>2. Cardinality(Exposed') \in Nat /\ Cardinality(Exposed') <= Cardinality(Exposed)
  BY ExposedIsFinite, FS_Subset, FS_CardinalityType
<1> HIDE DEF Exposed
<1> QED BY <1>1, <1>2, ExposedIsFinite

(***************************************************************************)
(* Nothing is exposed by taking frames off the air, nor by another pulse   *)
(* that the handler paints.                                                *)
(***************************************************************************)
LEMMA LoseFewer ==
  ASSUME Sound, LoseInv, air' \subseteq air, air' \ heard' \subseteq air \ heard,
         paint_key' \in {paint_key, 0},
         \A f \in air' \ heard' : shown'[f.id] = shown[f.id],
         UNCHANGED <<ring, emitted, director.sequence, swallowed, restarts>>
  PROVE  LoseInv'
<1> SUFFICES ASSUME emitted <= SEQ_MAX PROVE LoseInv'
  BY DEF LoseInv
<1>1. Exposed' \subseteq Exposed
  <2>1. Lingering' \subseteq Lingering
    BY DEF Lingering
  <2> QED BY <2>1 DEF Exposed
<1>2. swallowed' + Cardinality(Exposed') <= restarts' * (CAPACITY + 1)
  BY <1>1, CountKeeps DEF LoseInv
<1> QED BY <1>2 DEF LoseInv

LEMMA LoseEmit ==
  ASSUME Sound, LoseInv, NEW sent \in Nat, NEW kind \in Kinds, Emit(sent, kind),
         director'.sequence = AdvanceSequence(director.sequence)
  PROVE  LoseInv'
<1> DEFINE f == [id |-> emitted', number |-> director.sequence, kind |-> kind]
<1>1. /\ emitted \in Nat /\ emitted' = emitted + 1 /\ director.sequence \in 1 .. SEQ_MAX
      /\ air' \in {air, air \cup {f}}
      /\ UNCHANGED <<ring, heard, swallowed, restarts, shown, paint_key>>
  BY DEF Emit, Sound, Numbered, badgeVars, lightVars, ringVars
<1>2. f.number = director.sequence
  OBVIOUS
<1> HIDE DEF f
<1> SUFFICES ASSUME emitted' <= SEQ_MAX PROVE LoseInv'
  BY DEF LoseInv
<1>3. /\ emitted < SEQ_MAX /\ emitted <= SEQ_MAX
      /\ director.sequence <= emitted + 1
      /\ \A g \in air : g.number < director.sequence
      /\ \A g, h \in air : g.number = h.number => g = h
  BY <1>1, DispatcherAssumption DEF LoseInv
<1>4. \A g \in air : g.number \in 1 .. SEQ_MAX
  BY DEF Sound, Numbered, Frames
<1>5. emitted' < SEQ_MAX => director'.sequence = director.sequence + 1
  BY <1>1, <1>3, DispatcherAssumption DEF AdvanceSequence
<1>6. \A g, h \in air' : g.number = h.number => g = h
  BY <1>1, <1>2, <1>3, <1>4
<1>7. emitted' < SEQ_MAX => /\ director'.sequence <= emitted' + 1
                           /\ \A g \in air' : g.number < director'.sequence
  BY <1>1, <1>2, <1>3, <1>4, <1>5, DispatcherAssumption
<1>8. ASSUME NEW n \in Exposed' PROVE n \in Exposed
  <2>1. n \in Lingering /\ n \in 1 .. SEQ_MAX
    BY <1>1 DEF Exposed, Lingering
  <2>2. CASE n >= director'.sequence /\ emitted' < SEQ_MAX
    BY <1>1, <1>3, <1>5, <2>1, <2>2 DEF Exposed
  <2>3. CASE \E g \in air' \ heard' : g.number = n /\ shown'[g.id] = 0
    <3>1. PICK g \in air' \ heard' : g.number = n /\ shown'[g.id] = 0
      BY <2>3
    <3>2. CASE g = f
      <4>1. n >= director.sequence
        BY <1>1, <1>2, <3>1, <3>2
      <4> QED BY <1>3, <2>1, <4>1 DEF Exposed
    <3>3. CASE g # f
      <4>1. g \in air \ heard /\ shown[g.id] = 0
        BY <1>1, <3>1, <3>3
      <4> QED BY <2>1, <3>1, <4>1 DEF Exposed
    <3> QED BY <3>2, <3>3
  <2> QED BY <2>2, <2>3 DEF Exposed
<1>9. swallowed' + Cardinality(Exposed') <= restarts' * (CAPACITY + 1)
  BY <1>1, <1>3, <1>8, CountKeeps DEF LoseInv
<1> QED BY <1>6, <1>7, <1>9 DEF LoseInv

(***************************************************************************)
(* A number that a frame on the air carries is none that frames to come    *)
(* will, and only that frame's.                                            *)
(***************************************************************************)
LEMMA NumberIsTaken ==
  ASSUME Sound, LoseInv, emitted <= SEQ_MAX, NEW f \in air,
         UNCHANGED <<air, emitted, director>>, f \in heard' \/ shown'[f.id] # 0
  PROVE  f.number \notin Exposed'
<1>1. f.number \in 1 .. SEQ_MAX /\ director.sequence \in 1 .. SEQ_MAX
  BY DEF Sound, Numbered, Frames
<1>2. ~ (f.number >= director.sequence /\ emitted < SEQ_MAX)
  BY <1>1 DEF LoseInv
<1>3. ~ \E g \in air \ heard' : g.number = f.number /\ shown'[g.id] = 0
  BY DEF LoseInv
<1> QED BY <1>2, <1>3 DEF Exposed

LEMMA LosePaint ==
  ASSUME Sound, LoseInv, NEW f \in air, Paint(f)
  PROVE  LoseInv'
<1>1. /\ Shows(f) /\ paint_key' = f.number
      /\ UNCHANGED <<air, ring, heard, emitted, director, swallowed, restarts>>
  BY DEF Paint, directorVars, countVars, ringVars
<1> SUFFICES ASSUME emitted <= SEQ_MAX PROVE LoseInv'
  BY <1>1 DEF LoseInv
<1>2. shown'[f.id] # 0 /\ \A i \in Ids \ {f.id} : shown'[i] = shown[i]
  BY <1>1, ShowsTyped DEF Sound
<1>3. f.number \notin Exposed'
  BY <1>1, <1>2, NumberIsTaken
<1>4. ASSUME NEW n \in Exposed' PROVE n \in Exposed
  <2>1. n # f.number /\ n \in Lingering
    BY <1>1, <1>3 DEF Exposed, Lingering
  <2>2. \A g \in air : shown'[g.id] = 0 => shown[g.id] = 0
    BY <1>2 DEF Sound, Numbered, Frames
  <2> QED BY <1>1, <2>1, <2>2 DEF Exposed
<1>5. swallowed' + Cardinality(Exposed') <= restarts' * (CAPACITY + 1)
  BY <1>1, <1>4, CountKeeps DEF LoseInv
<1> QED BY <1>1, <1>5 DEF LoseInv

LEMMA LoseHear ==
  ASSUME Sound, LoseInv, NEW f \in air, Hear(f)
  PROVE  LoseInv'
<1> SUFFICES ASSUME emitted <= SEQ_MAX PROVE LoseInv'
  BY DEF Hear, countVars, LoseInv
<1>1. /\ UNCHANGED <<air, emitted, director, restarts, paint_key>> /\ heard' = heard \cup {f}
      /\ IF Renders(f) THEN Shows(f) ELSE shown' = shown
      /\ \/ swallowed' = swallowed
         \/ /\ swallowed' = swallowed + 1
            /\ f.kind # "heartbeat" /\ f \notin heard /\ shown'[f.id] = 0
  BY DEF Hear, directorVars, countVars
<1>2. /\ \A g, h \in air : g.number = h.number => g = h
      /\ emitted < SEQ_MAX => /\ director.sequence <= emitted + 1
                              /\ \A g \in air : g.number < director.sequence
      /\ swallowed + Cardinality(Exposed) <= restarts * (CAPACITY + 1)
  BY DEF LoseInv
<1>3. f.number \notin Exposed'
  BY <1>1, NumberIsTaken
<1>4. \A g \in air : shown'[g.id] = 0 => shown[g.id] = 0
  <2>1. CASE Renders(f)
    <3>1. shown'[f.id] # 0 /\ \A i \in Ids \ {f.id} : shown'[i] = shown[i]
      BY <1>1, <2>1, ShowsTyped DEF Sound
    <3> QED BY <3>1 DEF Sound, Numbered, Frames
  <2>2. CASE ~Renders(f)
    BY <1>1, <2>2
  <2> QED BY <2>1, <2>2
<1>5. ASSUME NEW n \in Exposed' PROVE n \in Exposed \ {f.number}
  <2>1. (Holds(ring', n) \/ n = paint_key) /\ n \in 1 .. SEQ_MAX /\ n # f.number
    BY <1>1, <1>3 DEF Exposed, Lingering
  <2>2. n \in Lingering
    <3>1. CASE n = paint_key
      BY <2>1, <3>1 DEF Lingering
    <3>2. CASE n # paint_key /\ Holds(ring, f.number)
      BY <2>1, <3>2, SeenStep DEF Lingering
    <3>3. CASE n # paint_key /\ ~ Holds(ring, f.number)
      <4> DEFINE S == Keys \ Unsequenced
      <4>1. ring' = Push(ring, f.number, CAPACITY)
        BY <3>3, SeenStep
      <4>2. f.number \in S /\ ring \in Seq(S) /\ Len(ring) <= CAPACITY
        BY RingFits, SeenStep
      <4> HIDE DEF S
      <4>3. Holds(ring, n)
        BY <2>1, <3>3, <4>1, <4>2, PushHolds, CapacityAssumption
      <4> QED BY <2>1, <4>3 DEF Lingering
    <3> QED BY <3>1, <3>2, <3>3
  <2>3. \/ n >= director.sequence /\ emitted < SEQ_MAX
        \/ \E g \in air \ heard : g.number = n /\ shown[g.id] = 0
    BY <1>1, <1>4 DEF Exposed
  <2> QED BY <2>1, <2>2, <2>3 DEF Exposed
<1>6. swallowed' + Cardinality(Exposed') <= restarts' * (CAPACITY + 1)
  <2>1. CASE swallowed' = swallowed
    BY <1>1, <1>2, <1>5, <2>1, CountKeeps
  <2>2. CASE swallowed' # swallowed
    <3>1. f.number \in Exposed
      <4>1. ~Renders(f)
        BY <1>1, <2>2, ShowsTyped DEF Sound
      <4>2. f.number \in Lingering
        BY <1>1, <2>2, <4>1, SeenStep DEF Renders, Lingering
      <4> QED BY <1>1, <2>2, <4>1, <4>2 DEF Exposed
    <3>2. /\ IsFiniteSet(Exposed \ {f.number})
          /\ Cardinality(Exposed \ {f.number}) = Cardinality(Exposed) - 1
          /\ Cardinality(Exposed) \in Nat
      BY <3>1, ExposedIsFinite, FS_RemoveElement
    <3>3. /\ Cardinality(Exposed') <= Cardinality(Exposed) - 1
          /\ Cardinality(Exposed') \in Nat
      BY <1>5, <3>2, FS_Subset, FS_CardinalityType
    <3>4. swallowed' = swallowed + 1 /\ swallowed \in Nat
      BY <1>1, <2>2 DEF Sound, Typed
    <3>5. restarts * (CAPACITY + 1) \in Nat
      BY OneMore, CapacityAssumption DEF Sound, Typed
    <3> HIDE DEF Exposed
    <3> QED BY <1>1, <1>2, <3>2, <3>3, <3>4, <3>5
  <2> QED BY <2>1, <2>2
<1> QED BY <1>1, <1>2, <1>6 DEF LoseInv

LEMMA LoseFade ==
  ASSUME Sound, OnceInv, LoseInv, NEW f \in air, Fade(f)
  PROVE  LoseInv'
<1>1. /\ air' = air \ {f} /\ heard' = heard \ {f} /\ shown' = [shown EXCEPT ![f.id] = 0]
      /\ UNCHANGED <<ring, emitted, director, swallowed, restarts, paint_key>>
  BY DEF Fade, directorVars, countVars, ringVars
<1>2. \A g \in air' : g.id # f.id /\ g.id \in Ids
  BY <1>1 DEF OnceInv, ToldApart, Sound, Numbered, Frames
<1>3. \A g \in air' : shown'[g.id] = shown[g.id]
  BY <1>1, <1>2 DEF Sound, Typed
<1> QED BY <1>1, <1>3, LoseFewer

LEMMA LoseRestart ==
  ASSUME Sound, LoseInv, Restart
  PROVE  LoseInv'
<1> SUFFICES ASSUME emitted <= SEQ_MAX PROVE LoseInv'
  BY DEF Restart, LoseInv
<1>1. /\ air' = {} /\ air = {} /\ UNCHANGED <<ring, emitted, swallowed, paint_key>>
      /\ director'.sequence = 1 /\ restarts' = restarts + 1 /\ emitted \in Nat
      /\ restarts \in Nat
  BY DEF Restart, NewDispatcher, badgeVars, lightVars, ringVars, Sound, Numbered, Typed
<1>2. swallowed <= restarts * (CAPACITY + 1) /\ swallowed \in Nat
  <2>1. swallowed + Cardinality(Exposed) <= restarts * (CAPACITY + 1)
    BY DEF LoseInv
  <2>2. swallowed \in Nat /\ restarts * (CAPACITY + 1) \in Nat
    BY <1>1, OneMore, CapacityAssumption DEF Sound, Typed
  <2>3. Cardinality(Exposed) \in Nat
    BY ExposedIsFinite
  <2> HIDE DEF Exposed
  <2> QED BY <2>1, <2>2, <2>3
<1>3. Cardinality(Exposed') <= CAPACITY + 1 /\ Cardinality(Exposed') \in Nat
  <2>1. Exposed' \subseteq Lingering
    BY <1>1 DEF Exposed, Lingering
  <2>2. IsFiniteSet(Exposed') /\ Cardinality(Exposed') <= Cardinality(Lingering)
    BY <2>1, LingeringAreFew, FS_Subset
  <2>3. Cardinality(Exposed') \in Nat
    BY <2>2, FS_CardinalityType
  <2> HIDE DEF Exposed, Lingering
  <2> QED BY <2>2, <2>3, LingeringAreFew, CapacityAssumption
<1>4. /\ restarts' * (CAPACITY + 1) = restarts * (CAPACITY + 1) + (CAPACITY + 1)
      /\ restarts * (CAPACITY + 1) \in Nat
  BY <1>1, OneMore, CapacityAssumption
<1>5. swallowed' + Cardinality(Exposed') <= restarts' * (CAPACITY + 1)
  <2> HIDE DEF Exposed
  <2> QED BY <1>1, <1>2, <1>3, <1>4, CapacityAssumption
<1> QED BY <1>1, <1>5 DEF LoseInv

LEMMA StepLoses == Sound /\ OnceInv /\ LoseInv /\ [Next]_vars => LoseInv'
<1> SUFFICES ASSUME Sound, OnceInv, LoseInv, [Next]_vars PROVE LoseInv'
  OBVIOUS
<1>1. CASE UNCHANGED <<air, heard, ring, shown, paint_key, emitted, director, swallowed, restarts>>
  BY <1>1, LoseFewer
<1>2. CASE Fire \/ LoopPasses
  <2>1. Emits => LoseInv'
    BY LoseEmit DEF Emits, Dispatched
  <2>2. UNCHANGED <<director, session, air, badgeVars, countVars, heard, missVars>>
          => UNCHANGED <<air, heard, ring, shown, paint_key, emitted, director, swallowed, restarts>>
    BY DEF badgeVars, lightVars, ringVars, countVars
  <2> QED BY <1>1, <1>2, <2>1, <2>2, DirectorEmits
<1>3. ASSUME NEW f \in air, Paint(f) \/ Hear(f) \/ Fade(f) PROVE LoseInv'
  BY <1>3, LosePaint, LoseHear, LoseFade
<1>4. CASE PaintOther
  <2>1. /\ paint_key' = 0
        /\ UNCHANGED <<air, heard, ring, shown, emitted, director, swallowed, restarts>>
    BY <1>4 DEF PaintOther, directorVars, ringVars, countVars
  <2> QED BY <2>1, LoseFewer
<1>5. CASE Elapse
  <2>1. UNCHANGED <<air, heard, ring, shown, paint_key, emitted, director.sequence, swallowed,
                   restarts>>
    BY <1>5, DispatcherAssumption
       DEF Elapse, AgeDispatcher, ringVars, lightVars, Sound, Numbered
  <2> QED BY <2>1, LoseFewer
<1>6. CASE Restart
  BY <1>6, LoseRestart
<1>7. EnterSession \/ LeaveSession \/ TickBadge \/ UNCHANGED vars
        => UNCHANGED <<air, heard, ring, shown, paint_key, emitted, director, swallowed, restarts>>
  BY DEF EnterSession, LeaveSession, TickBadge, vars, directorVars, badgeVars, lightVars,
         ringVars, countVars
<1> QED BY <1>1, <1>2, <1>3, <1>4, <1>5, <1>6, <1>7 DEF Next

(***************************************************************************)
(* Until the numbers come round, a badge takes no more of the Director's   *)
(* effects for ones it has shown, without having shown them, than a        *)
(* ringful and one more per restart, and none without one.                 *)
(***************************************************************************)
THEOREM RestartsCostARingful == Spec => []RestartLosesFew
<1>1. Init => LoseInv
  <2> SUFFICES ASSUME Init PROVE LoseInv
    OBVIOUS
  <2>1. /\ air = {} /\ swallowed = 0 /\ emitted = 0 /\ director.sequence = 1 /\ restarts = 0
        /\ DOMAIN ring = {} /\ paint_key = 0
    BY DEF Init, RingInit, NewDispatcher
  <2>2. Exposed = {}
    BY <2>1 DEF Exposed, Lingering, Holds
  <2>3. swallowed + Cardinality(Exposed) <= restarts * (CAPACITY + 1)
    BY <2>1, <2>2, FS_EmptySet, CapacityAssumption
  <2> QED BY <2>1, <2>3 DEF LoseInv
<1>2. Sound /\ LoseInv => RestartLosesFew
  <2> SUFFICES ASSUME Sound, LoseInv, emitted <= SEQ_MAX
               PROVE  swallowed <= restarts * (CAPACITY + 1)
    BY DEF RestartLosesFew
  <2>1. /\ swallowed + Cardinality(Exposed) <= restarts * (CAPACITY + 1)
        /\ restarts \in Nat /\ swallowed \in Nat
    BY DEF LoseInv, Sound, Typed
  <2>2. restarts * (CAPACITY + 1) \in Nat
    BY <2>1, OneMore, CapacityAssumption
  <2>3. Cardinality(Exposed) \in Nat
    BY ExposedIsFinite
  <2> HIDE DEF Exposed
  <2> QED BY <2>1, <2>2, <2>3
<1> QED BY <1>1, <1>2, StepLoses, AlwaysSound, AlwaysOnce, PTL DEF Spec

-----------------------------------------------------------------------------
(***************************************************************************)
(* Why the badge is never left in silence for long: every unit of silence  *)
(* is one the Director's clock counts towards its next beacon, or belongs  *)
(* to the interval before a frame that was lost or is still on its way, or *)
(* to a refusal of the radio.  Ahead is the refusal of this very unit,     *)
(* which the badge has yet to live through.                                *)
(***************************************************************************)
Missed == lost + Cardinality(air \ heard)

Ahead == IF passed /\ director.since = INTERVAL THEN 1 ELSE 0

HeardInv ==
  lock.locked = Director /\ ~off =>
    /\ lock.silent <= INTERVAL * (lost + 1) + failed
    /\ lock.silent + Ahead <= director.since + INTERVAL * Missed + failed

HeardFacts ==
  /\ IsFiniteSet(air \ heard) /\ Cardinality(air \ heard) \in Nat
  /\ Missed \in Nat /\ lost \in Nat /\ failed \in Nat /\ lock.silent \in Nat
  /\ director.since \in 0 .. INTERVAL /\ INTERVAL \in Nat \ {0}
  /\ INTERVAL * Missed \in Nat
  /\ INTERVAL * (lost + 1) = INTERVAL * lost + INTERVAL
  /\ INTERVAL * lost \in Nat

LEMMA HeardTypes == Sound /\ OnceInv => HeardFacts
<1> SUFFICES ASSUME Sound, OnceInv PROVE HeardFacts
  OBVIOUS
<1>1. IsFiniteSet(air \ heard) /\ Cardinality(air \ heard) \in Nat
  BY FS_Subset, FS_CardinalityType DEF OnceInv, ToldApart
<1>2. lost \in Nat /\ failed \in Nat /\ lock.silent \in Nat
  BY LinkAssumption DEF Sound, Typed, Locks
<1>3. director.since \in 0 .. INTERVAL /\ INTERVAL \in Nat \ {0}
  BY DispatcherAssumption DEF Sound, Numbered
<1>4. Missed \in Nat
  BY <1>1, <1>2 DEF Missed
<1> QED BY <1>1, <1>2, <1>3, <1>4, OneMore DEF HeardFacts

LEMMA HeardTypesAfter == Sound' /\ OnceInv' => HeardFacts'
BY HeardTypes, PTL

(***************************************************************************)
(* A step the badge notices nothing of.                                    *)
(***************************************************************************)
LEMMA HeardIdle ==
  ASSUME Sound, OnceInv, HeardInv, Sound', OnceInv', UNCHANGED <<lock, off>>,
         lost' \in {lost, lost + 1}, failed <= failed',
         Ahead' + director.since + INTERVAL * Missed + failed
           <= Ahead + director'.since + INTERVAL * Missed' + failed'
  PROVE  HeardInv'
<1> SUFFICES ASSUME lock.locked = Director, ~off PROVE HeardInv'
  BY DEF HeardInv
<1>1. /\ lock.silent <= INTERVAL * (lost + 1) + failed
      /\ lock.silent + Ahead <= director.since + INTERVAL * Missed + failed
  BY DEF HeardInv
<1>2. Ahead \in {0, 1} /\ Ahead' \in {0, 1}
  BY DEF Ahead
<1>3. /\ Missed \in Nat /\ Missed' \in Nat /\ INTERVAL * Missed \in Nat
      /\ INTERVAL * Missed' \in Nat /\ failed \in Nat /\ failed' \in Nat
      /\ director.since \in Nat /\ director'.since \in Nat /\ lock.silent \in Nat
      /\ lost \in Nat /\ INTERVAL \in Nat
      /\ INTERVAL * (lost + 1) = INTERVAL * lost + INTERVAL
      /\ INTERVAL * (lost' + 1) = INTERVAL * lost' + INTERVAL
      /\ INTERVAL * lost \in Nat /\ INTERVAL * lost' \in Nat
  <2> HIDE DEF Missed
  <2> QED BY HeardTypes, HeardTypesAfter DEF HeardFacts
<1>4. lock.silent + Ahead' <= director'.since + INTERVAL * Missed' + failed'
  <2> HIDE DEF Ahead, Missed
  <2> QED BY <1>1, <1>2, <1>3
<1>5. INTERVAL * lost <= INTERVAL * lost'
  <2>1. CASE lost' = lost
    BY <1>3, <2>1
  <2>2. CASE lost' = lost + 1
    BY <1>3, <2>2
  <2> QED BY <2>1, <2>2
<1>6. lock.silent <= INTERVAL * (lost' + 1) + failed'
  <2> HIDE DEF Ahead, Missed
  <2> QED BY <1>1, <1>3, <1>5
<1> QED BY <1>4, <1>6 DEF HeardInv

(***************************************************************************)
(* A frame that reaches the badge ends the silence.                        *)
(***************************************************************************)
LEMMA HeardHear ==
  ASSUME Sound', OnceInv', NEW f \in air, Hear(f)
  PROVE  HeardInv'
<1>1. lock'.silent = 0
  BY DEF Hear, AfterAdmit
<1>2. /\ INTERVAL * Missed' \in Nat /\ failed' \in Nat /\ director'.since \in 0 .. INTERVAL
      /\ INTERVAL \in Nat \ {0} /\ INTERVAL * (lost' + 1) = INTERVAL * lost' + INTERVAL
      /\ INTERVAL * lost' \in Nat
  BY HeardTypesAfter DEF HeardFacts
<1>3. Ahead' <= director'.since /\ Ahead' \in {0, 1}
  BY <1>2 DEF Ahead
<1> HIDE DEF Missed, Ahead
<1> QED BY <1>1, <1>2, <1>3 DEF HeardInv

LEMMA HeardEmit ==
  ASSUME Sound, OnceInv, HeardInv, Sound', OnceInv', NEW sent \in Nat, NEW kind \in Kinds,
         Emit(sent, kind), director' = Dispatched(director, sent)
  PROVE  HeardInv'
<1> DEFINE f == [id |-> emitted', number |-> director.sequence, kind |-> kind]
<1>0. /\ UNCHANGED <<lock, off, lost, heard>> /\ emitted' = emitted + 1 /\ emitted \in Nat
  BY DEF Emit, badgeVars, Sound, Numbered
<1>1. /\ Missed \in Nat /\ INTERVAL * Missed \in Nat /\ failed \in Nat /\ lost \in Nat
      /\ director.since \in 0 .. INTERVAL /\ INTERVAL \in Nat \ {0}
      /\ IsFiniteSet(air \ heard) /\ Cardinality(air \ heard) \in Nat
  BY HeardTypes DEF HeardFacts
<1>2. Ahead \in {0, 1} /\ Ahead' \in {0, 1}
  BY DEF Ahead
<1>3. CASE sent > 0
  <2>1. air' = air \cup {f} /\ failed' = failed /\ director'.since = 0
    BY <1>3 DEF Emit, Dispatched
  <2>2. f \notin air /\ f \notin heard
    <3>1. f.id = emitted + 1
      BY <1>0
    <3>2. \A g \in air : g.id \in 1 .. emitted
      BY DEF OnceInv, ToldApart
    <3>3. \A g \in heard : g.id \in 1 .. emitted
      BY <3>2 DEF Sound, Typed
    <3> HIDE DEF f
    <3> QED BY <1>0, <3>1, <3>2, <3>3
  <2> HIDE DEF f
  <2>3. air' \ heard' = (air \ heard) \cup {f} /\ f \notin air \ heard
    BY <1>0, <2>1, <2>2
  <2>4. Cardinality(air' \ heard') = Cardinality(air \ heard) + 1
    BY <1>1, <2>3, FS_AddElement
  <2>5. Missed' = Missed + 1
    BY <1>0, <1>1, <2>4 DEF Missed
  <2>6. INTERVAL * Missed' = INTERVAL * Missed + INTERVAL
    BY <1>1, <2>5, OneMore
  <2>7. Ahead' = 0
    BY <1>1, <2>1 DEF Ahead
  <2>8. Ahead' + director.since + INTERVAL * Missed + failed
          <= Ahead + director'.since + INTERVAL * Missed' + failed'
    <3> HIDE DEF Ahead, Missed
    <3> QED BY <1>1, <1>2, <2>1, <2>6, <2>7
  <2> QED BY <1>0, <1>1, <2>1, <2>8, HeardIdle
<1>4. CASE ~ (sent > 0)
  <2>1. air' = air /\ failed' = failed + 1 /\ director'.since = director.since
    BY <1>4 DEF Emit, Dispatched
  <2>2. Missed' = Missed
    BY <1>0, <2>1 DEF Missed
  <2>3. Ahead' + director.since + INTERVAL * Missed + failed
          <= Ahead + director'.since + INTERVAL * Missed' + failed'
    <3> HIDE DEF Ahead, Missed
    <3> QED BY <1>1, <1>2, <2>1, <2>2
  <2> QED BY <1>0, <1>1, <2>1, <2>3, HeardIdle
<1> QED BY <1>3, <1>4

LEMMA HeardFade ==
  ASSUME Sound, OnceInv, HeardInv, Sound', OnceInv', NEW f \in air, Fade(f)
  PROVE  HeardInv'
<1>0. /\ UNCHANGED <<lock, off, director, passed, failed>>
      /\ air' = air \ {f} /\ heard' = heard \ {f} /\ lost' = IF f \in heard THEN lost ELSE lost + 1
  BY DEF Fade, directorVars
<1>1. /\ IsFiniteSet(air \ heard) /\ Cardinality(air \ heard) \in Nat /\ lost \in Nat
      /\ INTERVAL * Missed \in Nat /\ failed \in Nat /\ director.since \in Nat
  BY HeardTypes DEF HeardFacts
<1>2. Missed' = Missed
  <2>1. CASE f \in heard
    <3>1. air' \ heard' = air \ heard
      BY <1>0, <2>1
    <3> QED BY <1>0, <2>1, <3>1 DEF Missed
  <2>2. CASE f \notin heard
    <3>1. air' \ heard' = (air \ heard) \ {f} /\ f \in air \ heard
      BY <1>0, <2>2
    <3>2. Cardinality(air' \ heard') = Cardinality(air \ heard) - 1
      BY <1>1, <3>1, FS_RemoveElement
    <3> QED BY <1>0, <1>1, <2>2, <3>2 DEF Missed
  <2> QED BY <2>1, <2>2
<1>3. Ahead' = Ahead /\ Ahead \in {0, 1}
  BY <1>0 DEF Ahead
<1>4. Ahead' + director.since + INTERVAL * Missed + failed
        <= Ahead + director'.since + INTERVAL * Missed' + failed'
  <2> HIDE DEF Ahead, Missed
  <2> QED BY <1>0, <1>1, <1>2, <1>3
<1> QED BY <1>0, <1>1, <1>4, HeardIdle

(***************************************************************************)
(* A unit of time: in session the Director's loop has passed, so a beacon  *)
(* that was due has been tried.                                            *)
(***************************************************************************)
LEMMA HeardElapse ==
  ASSUME Sound, OnceInv, HeardInv, Sound', OnceInv', Elapse
  PROVE  HeardInv'
<1> SUFFICES ASSUME lock'.locked = Director, ~off' PROVE HeardInv'
  BY DEF HeardInv
<1>1. /\ session /\ passed /\ ~off /\ air = {} /\ air' = {} /\ ~passed'
      /\ UNCHANGED <<lost, failed, heard>>
      /\ lock' = AgeLock(lock) /\ director' = AgeDispatcher(director)
  BY DEF Elapse
<1>2. /\ Missed \in Nat /\ INTERVAL * Missed \in Nat /\ failed \in Nat /\ lost \in Nat
      /\ director.since \in 0 .. INTERVAL /\ INTERVAL \in Nat \ {0} /\ lock.silent \in Nat
      /\ INTERVAL * lost \in Nat /\ INTERVAL * (lost + 1) = INTERVAL * lost + INTERVAL
  BY HeardTypes DEF HeardFacts
<1>3. lock.locked = Director /\ lock'.silent \in {lock.silent, lock.silent + 1}
  BY <1>1, LinkAssumption, SourceAssumption DEF AgeLock, Sound, Typed, Locks
<1>4. director'.since = IF director.since < INTERVAL THEN director.since + 1 ELSE director.since
  BY <1>1 DEF AgeDispatcher, Sound, Numbered
<1>5. Missed = lost /\ Missed' = lost
  BY <1>1, <1>2, FS_EmptySet DEF Missed
<1>6. lock.silent + Ahead <= director.since + INTERVAL * lost + failed
  BY <1>1, <1>3, <1>5 DEF HeardInv
<1>7. Ahead = (IF director.since = INTERVAL THEN 1 ELSE 0) /\ Ahead' = 0
  BY <1>1 DEF Ahead
<1>8. lock'.silent <= director'.since + INTERVAL * lost + failed
  <2> HIDE DEF Ahead, Missed
  <2> QED BY <1>2, <1>3, <1>4, <1>6, <1>7
<1>9. lock'.silent <= INTERVAL * (lost + 1) + failed
  <2> HIDE DEF Ahead, Missed
  <2> QED BY <1>2, <1>3, <1>4, <1>8
<1>10. lock'.silent + Ahead' <= director'.since + INTERVAL * Missed' + failed'
  <2> HIDE DEF Ahead, Missed
  <2> QED BY <1>1, <1>2, <1>3, <1>5, <1>7, <1>8
<1> QED BY <1>1, <1>9, <1>10 DEF HeardInv

LEMMA StepHeard ==
  Sound /\ OnceInv /\ HeardInv /\ Sound' /\ OnceInv' /\ [Next]_vars => HeardInv'
<1> SUFFICES ASSUME Sound, OnceInv, HeardInv, Sound', OnceInv', [Next]_vars PROVE HeardInv'
  OBVIOUS
<1>0. /\ lost \in Nat /\ failed \in Nat /\ INTERVAL * Missed \in Nat
      /\ director.since \in 0 .. INTERVAL /\ INTERVAL \in Nat \ {0} /\ Ahead \in {0, 1}
  BY HeardTypes DEF HeardFacts, Ahead
<1>1. ASSUME UNCHANGED <<air, heard, lost, failed>>, lock' \in {lock, Unlocked}, off' = off,
             Ahead' <= Ahead, Ahead' \in {0, 1},
             director'.since \in director.since .. INTERVAL
      PROVE  HeardInv'
  <2>1. CASE lock' = Unlocked
    <3>1. lock'.locked # Director
      BY <2>1, LinkAssumption, SourceAssumption DEF Unlocked
    <3> QED BY <3>1 DEF HeardInv
  <2>2. CASE lock' = lock
    <3>1. Missed' = Missed
      BY <1>1 DEF Missed
    <3>2. Ahead' + director.since + INTERVAL * Missed + failed
            <= Ahead + director'.since + INTERVAL * Missed' + failed'
      <4> HIDE DEF Ahead, Missed
      <4> QED BY <1>0, <1>1, <3>1
    <3> QED BY <1>0, <1>1, <2>2, <3>2, HeardIdle
  <2> QED BY <1>1, <2>1, <2>2
<1>2. CASE UNCHANGED vars
  BY <1>0, <1>1, <1>2 DEF vars, directorVars, badgeVars, missVars, Ahead
<1>3. CASE Fire \/ LoopPasses
  <2>1. Emits => HeardInv'
    BY HeardEmit DEF Emits
  <2>2. CASE /\ ~HeartbeatDue(director)
             /\ UNCHANGED <<director, session, air, badgeVars, countVars, heard, missVars>>
    <3>1. Ahead' = 0
      BY <1>0, <2>2 DEF HeartbeatDue, Ahead
    <3> QED BY <1>0, <1>1, <2>2, <3>1 DEF badgeVars, missVars
  <2> QED BY <1>3, <2>1, <2>2, DirectorEmits
<1>4. CASE PaintOther \/ \E f \in air : Paint(f)
  <2>1. UNCHANGED <<director, passed, air, heard, lock, lost, failed, off>>
    BY <1>4 DEF PaintOther, Paint, directorVars, missVars
  <2> QED BY <1>0, <1>1, <2>1 DEF Ahead
<1>5. CASE EnterSession \/ LeaveSession \/ Restart
  <2>1. Ahead' = 0
    BY <1>5 DEF EnterSession, LeaveSession, Restart, Ahead
  <2>2. /\ UNCHANGED <<air, heard, lost, failed, lock, off>>
        /\ director' = director \/ director'.since = INTERVAL
    BY <1>5 DEF EnterSession, LeaveSession, Restart, NewDispatcher, badgeVars, missVars
  <2> QED BY <1>0, <1>1, <2>1, <2>2
<1>6. ASSUME NEW f \in air, Hear(f) PROVE HeardInv'
  BY <1>6, HeardHear
<1>7. ASSUME NEW f \in air, Fade(f) PROVE HeardInv'
  BY <1>7, HeardFade
<1>8. CASE TickBadge
  <2>1. lock' \in {lock, Unlocked} /\ UNCHANGED <<director, passed, air, heard, lost, failed, off>>
    BY <1>8 DEF TickBadge, TickLock, directorVars, missVars
  <2> QED BY <1>0, <1>1, <2>1 DEF Ahead
<1>9. CASE Elapse
  BY <1>9, HeardElapse
<1> QED BY <1>2, <1>3, <1>4, <1>5, <1>6, <1>7, <1>8, <1>9 DEF Next

(***************************************************************************)
(* While its Director is in session, the badge hears of it at least once   *)
(* per interval, but for the frames that were lost and the sends that were *)
(* refused; so a badge keeps its Director as long as few enough are.       *)
(***************************************************************************)
THEOREM SilenceIsBounded == Spec => []HeardOften
<1>1. Init => HeardInv
  BY LinkAssumption, SourceAssumption DEF Init, Unlocked, HeardInv
<1>2. Sound /\ HeardInv => HeardOften
  <2>1. Sound => lost + 1 = 1 + lost
    BY LinkAssumption DEF Sound, Typed
  <2> QED BY <2>1 DEF HeardInv, HeardOften
<1> QED BY <1>1, <1>2, StepHeard, AlwaysSound, AlwaysOnce, PTL DEF Spec

=============================================================================
