------------------------- MODULE ReceivePathProofs --------------------------
(***************************************************************************)
(* The receive path, bottom up: the TOFU lock by itself, which never       *)
(* abandons a Director that is still talking, for any number of Directors, *)
(* any channels and any timeout; then the handler and the loop that share  *)
(* the badge's queue, with the lock, the ring and the repeater between     *)
(* them; and last, that the badge's repeater and lock are those of         *)
(* Repeater and Tofu, so that what is proved of one given anything holds   *)
(* on the badge.                                                           *)
(***************************************************************************)
EXTENDS ReceivePath, Tofu, RepeaterProofs

(***************************************************************************)
(* The invariant of the lock by itself: its clock is inductive with the    *)
(* types, and no rescan is on record while a Director is locked.           *)
(***************************************************************************)
LockInv ==
  LockTypeOK /\ SilenceIsTheDirectors /\ (lock.locked # None => ~cleared)

LEMMA FrameKeeps ==
  ASSUME LockInv, NEW s \in Sources, LockFrame(s)
  PROVE  LockInv'
<1>1. /\ lock' = AfterAdmit(lock, s, channel) /\ channel' = channel
      /\ quiet' = [quiet EXCEPT ![s] = 0]
      /\ cleared' = (cleared /\ ~Admits(lock, s, channel)) /\ cleared \in BOOLEAN
  BY DEF LockFrame, LockInv, LockTypeOK
<1>2. quiet' \in [Sources -> 0 .. TIMEOUT] /\ quiet'[s] = 0
      /\ \A t \in Sources : t # s => quiet'[t] = quiet[t]
  BY <1>1, TimeoutAssumption DEF LockInv, LockTypeOK
<1>3. CASE Admits(lock, s, channel)
  <2>1. lock' = [locked |-> s, silent |-> 0] /\ Eligible(s, channel)
    BY <1>1, <1>3 DEF AfterAdmit, Admits
  <2>2. LockTypeOK'
    BY <1>1, <1>2, <2>1, TimeoutAssumption DEF LockInv, LockTypeOK, Locks
  <2>3. SilenceIsTheDirectors'
    BY <1>1, <1>2, <2>1 DEF SilenceIsTheDirectors, Eligible
  <2> QED BY <1>1, <1>3, <2>2, <2>3 DEF LockInv
<1>4. CASE ~ Admits(lock, s, channel)
  <2>1. lock' = lock
    BY <1>1, <1>4 DEF AfterAdmit
  <2>2. lock.locked # None => lock.locked # s
    BY <1>4 DEF Admits, LockInv, SilenceIsTheDirectors, Eligible
  <2>3. lock.locked # None => lock.locked \in Sources
    BY DEF LockInv, LockTypeOK, Locks
  <2>4. LockTypeOK'
    BY <1>1, <1>2, <2>1 DEF LockInv, LockTypeOK
  <2>5. SilenceIsTheDirectors'
    BY <1>1, <1>2, <2>1, <2>2, <2>3 DEF LockInv, SilenceIsTheDirectors, Eligible
  <2> QED BY <1>1, <1>4, <2>1, <2>4, <2>5 DEF LockInv
<1> QED BY <1>3, <1>4

LEMMA ElapseKeeps ==
  ASSUME LockInv, LockElapse
  PROVE  LockInv'
<1>1. /\ lock' = AgeLock(lock) /\ UNCHANGED <<channel, cleared>>
      /\ quiet' = [s \in Sources |-> IF quiet[s] < TIMEOUT THEN quiet[s] + 1 ELSE TIMEOUT]
  BY DEF LockElapse
<1>2. quiet \in [Sources -> 0 .. TIMEOUT] /\ lock.silent \in 0 .. TIMEOUT
  BY DEF LockInv, LockTypeOK, Locks
<1>3. quiet' \in [Sources -> 0 .. TIMEOUT]
  BY <1>1, <1>2, TimeoutAssumption
<1>4. CASE lock.locked = None
  <2>1. lock' = lock
    BY <1>1, <1>4 DEF AgeLock
  <2> QED BY <1>1, <1>3, <1>4, <2>1 DEF LockInv, LockTypeOK, SilenceIsTheDirectors
<1>5. CASE lock.locked # None
  <2>1. lock.locked \in Sources /\ lock.silent = quiet[lock.locked]
    BY <1>5 DEF LockInv, LockTypeOK, Locks, SilenceIsTheDirectors
  <2>2. /\ lock'.locked = lock.locked
        /\ lock'.silent = IF lock.silent < TIMEOUT THEN lock.silent + 1 ELSE lock.silent
        /\ lock' \in Locks
    BY <1>1, <1>2, <1>5, TimeoutAssumption DEF AgeLock, LockInv, LockTypeOK, Locks
  <2>3. lock'.silent = quiet'[lock.locked]
    BY <1>1, <1>2, <2>1, <2>2, TimeoutAssumption
  <2> QED BY <1>1, <1>3, <1>5, <2>2, <2>3
          DEF LockInv, LockTypeOK, SilenceIsTheDirectors, Eligible
<1> QED BY <1>4, <1>5

LEMMA OthersKeep ==
  ASSUME LockInv, LockTick \/ LockClear \/ LockScan
  PROVE  LockInv'
<1>1. Unlocked \in Locks /\ Unlocked.locked = None
  BY TimeoutAssumption DEF Unlocked, Locks
<1>2. CASE LockTick \/ LockClear
  <2>1. /\ lock' \in {lock, Unlocked} /\ UNCHANGED <<channel, quiet>>
        /\ cleared' \in BOOLEAN /\ (cleared' # cleared => lock' = Unlocked)
    BY <1>2 DEF LockTick, TickLock, LockClear, LockInv, LockTypeOK
  <2> QED BY <1>1, <2>1 DEF LockInv, LockTypeOK, SilenceIsTheDirectors, Eligible
<1>3. CASE LockScan
  BY <1>3 DEF LockScan, LockInv, LockTypeOK, SilenceIsTheDirectors
<1> QED BY <1>2, <1>3

LEMMA LockInductive == LockInit /\ [][LockNext]_lockVars => []LockInv
<1>1. LockInit => LockInv
  <2> SUFFICES ASSUME LockInit PROVE LockInv
    OBVIOUS
  <2>1. lock \in Locks /\ lock.locked = None
    BY TimeoutAssumption DEF LockInit, Unlocked, Locks
  <2>2. quiet \in [Sources -> 0 .. TIMEOUT] /\ channel \in Channels /\ cleared = FALSE
    BY TimeoutAssumption DEF LockInit
  <2> QED BY <2>1, <2>2 DEF LockInv, LockTypeOK, SilenceIsTheDirectors
<1>2. LockInv /\ [LockNext]_lockVars => LockInv'
  <2> SUFFICES ASSUME LockInv, [LockNext]_lockVars PROVE LockInv'
    OBVIOUS
  <2>1. CASE UNCHANGED lockVars
    BY <2>1 DEF lockVars, LockInv, LockTypeOK, SilenceIsTheDirectors, Eligible
  <2> QED BY <2>1, FrameKeeps, ElapseKeeps, OthersKeep DEF LockNext
<1> QED BY <1>1, <1>2, PTL

(***************************************************************************)
(* The lock's clock measures the locked Director's own silence.            *)
(***************************************************************************)
THEOREM SilenceIsAlwaysTheDirectors == LockSpec => []SilenceIsTheDirectors
<1>1. LockInv => SilenceIsTheDirectors
  BY DEF LockInv
<1> QED BY <1>1, LockInductive, PTL DEF LockSpec

(***************************************************************************)
(* Whatever other senders do, a lock is given up only after a whole        *)
(* timeout of its own Director's silence, or by the operator, and never    *)
(* passes straight from one Director to another.                           *)
(***************************************************************************)
LEMMA LockChangesHands == LockInit /\ [][LockNext]_lockVars => NoHijack
<1> DEFINE Kept == lock.locked # None =>
                     /\ ~cleared
                     /\ lock'.locked # lock.locked =>
                          /\ lock'.locked = None
                          /\ cleared' \/ quiet[lock.locked] = TIMEOUT
<1>1. LockInv /\ [LockNext]_lockVars => [Kept]_lockVars
  <2> SUFFICES ASSUME LockInv, LockNext, lock.locked # None, lock'.locked # lock.locked
               PROVE  /\ lock'.locked = None
                      /\ cleared' \/ quiet[lock.locked] = TIMEOUT
    BY DEF LockInv
  <2>1. ASSUME NEW s \in Sources, LockFrame(s) PROVE FALSE
    BY <2>1 DEF LockFrame, AfterAdmit, Admits
  <2>2. CASE LockTick
    <3>1. Expired(lock) /\ lock' = Unlocked
      BY <2>2 DEF LockTick, TickLock
    <3>2. quiet[lock.locked] = lock.silent /\ lock.silent \in 0 .. TIMEOUT
      BY DEF LockInv, LockTypeOK, Locks, SilenceIsTheDirectors
    <3> QED BY <3>1, <3>2, TimeoutAssumption DEF Expired, Unlocked
  <2>3. CASE LockClear
    BY <2>3 DEF LockClear, Unlocked
  <2>4. CASE LockScan
    BY <2>4 DEF LockScan
  <2>5. CASE LockElapse
    BY <2>5 DEF LockElapse, AgeLock, LockInv, LockTypeOK, Locks
  <2> QED BY <2>1, <2>2, <2>3, <2>4, <2>5 DEF LockNext
<1> QED BY <1>1, LockInductive, PTL DEF NoHijack

(***************************************************************************)
(* So it is under the specification, whatever its fairness.                *)
(***************************************************************************)
THEOREM NeverHijacked == LockSpec => NoHijack
BY LockChangesHands, PTL DEF LockSpec

-----------------------------------------------------------------------------
(***************************************************************************)
(* The receive path.  A frame on the air is not the sign for none.         *)
(***************************************************************************)
LEMMA FramesOnAir ==
  ASSUME NEW f \in OnAir
  PROVE  /\ f \in Frames /\ f.key \in Keys /\ f # NoFrame
         /\ SourceOf[f.key] \in Sources
<1>1. f \in Frames /\ f.key \in Keys
  BY AirAssumption DEF Frames
<1> QED BY <1>1, AirAssumption DEF NoFrame

LEMMA LockKeepsType ==
  ASSUME NEW t \in Locks
  PROVE  /\ \A s \in Sources : AfterAdmit(t, s, RECEIVE_CHANNEL) \in Locks
         /\ TickLock(t) \in Locks /\ AgeLock(t) \in Locks /\ Unlocked \in Locks
<1>1. t.silent \in 0 .. TIMEOUT /\ t.locked \in Sources \cup {None}
  BY DEF Locks
<1>2. Unlocked \in Locks
  BY TimeoutAssumption DEF Locks, Unlocked
<1>3. \A s \in Sources : AfterAdmit(t, s, RECEIVE_CHANNEL) \in Locks
  BY TimeoutAssumption DEF Locks, AfterAdmit
<1>4. AgeLock(t) \in Locks
  BY <1>1, TimeoutAssumption DEF AgeLock, Locks
<1> QED BY <1>2, <1>3, <1>4 DEF TickLock

(***************************************************************************)
(* What Remember does to a ring: the pair is in it then, and nothing else  *)
(* that was not.                                                           *)
(***************************************************************************)
LEMMA RememberProperties ==
  ASSUME NEW s \in Seq(Keys \ Unsequenced), Len(s) <= CAPACITY, NEW k \in Keys
  PROVE  /\ Remember(s, k) \in Seq(Keys \ Unsequenced)
         /\ Len(Remember(s, k)) <= CAPACITY
         /\ k \notin Unsequenced => Holds(Remember(s, k), k)
         /\ \A j : Holds(Remember(s, k), j) => Holds(s, j) \/ (j = k /\ ~IsSeen(s, k))
<1> DEFINE t == Remember(s, k)
           S == Keys \ Unsequenced
<1>1. CASE k \in Unsequenced \/ Holds(s, k)
  <2>1. Remember(s, k) = s
    BY <1>1 DEF Remember
  <2>2. k \notin Unsequenced => Holds(s, k)
    BY <1>1
  <2> QED BY <2>1, <2>2
<1>2. CASE ~ (k \in Unsequenced \/ Holds(s, k))
  <2>1. t = Push(s, k, CAPACITY)
    BY <1>2 DEF Remember
  <2>2. Len(s) \in Nat /\ s \in Seq(S) /\ Len(s) <= CAPACITY /\ k \in S
    BY <1>2, LenProperties
  <2>d. DOMAIN s = 1 .. Len(s)
    BY LenProperties
  <2> HIDE DEF S
  <2>3. /\ Push(s, k, CAPACITY) \in Seq(S)
        /\ Len(Push(s, k, CAPACITY)) = IF Len(s) = CAPACITY THEN CAPACITY ELSE Len(s) + 1
    BY <2>2, CapacityAssumption, PushProperties
  <2>4. \A i \in 1 .. Len(Push(s, k, CAPACITY)) :
          Push(s, k, CAPACITY)[i] = IF i = Len(Push(s, k, CAPACITY)) THEN k
                                    ELSE IF Len(s) = CAPACITY THEN s[i + 1] ELSE s[i]
    BY <2>2, CapacityAssumption, PushProperties
  <2> HIDE DEF t
  <2>5. /\ t \in Seq(S) /\ Len(t) \in Nat
        /\ Len(t) = IF Len(s) = CAPACITY THEN CAPACITY ELSE Len(s) + 1
    BY <2>1, <2>3, LenProperties
  <2>e. DOMAIN t = 1 .. Len(t)
    BY <2>5, LenProperties
  <2>6. Len(t) <= CAPACITY /\ Len(t) \in 1 .. Len(t)
    BY <2>2, <2>5, CapacityAssumption
  <2>7. t[Len(t)] = k
    BY <2>1, <2>4, <2>6
  <2>8. Holds(t, k)
    BY <2>e, <2>6, <2>7 DEF Holds
  <2>9. ASSUME NEW i \in 1 .. Len(t), i # Len(t)
        PROVE  \E j \in DOMAIN s : t[i] = s[j]
    <3>1. t[i] = IF Len(s) = CAPACITY THEN s[i + 1] ELSE s[i]
      BY <2>1, <2>4, <2>9
    <3>2. CASE Len(s) = CAPACITY
      <4>1. i + 1 \in 1 .. Len(s)
        BY <2>2, <2>5, <2>9, <3>2
      <4> QED BY <2>d, <3>1, <3>2, <4>1
    <3>3. CASE Len(s) # CAPACITY
      <4>1. i \in 1 .. Len(s)
        <5>1. Len(s) \in Nat /\ i \in 1 .. Len(s) + 1 /\ i # Len(s) + 1
          BY <2>2, <2>5, <2>9, <3>3
        <5> QED BY <5>1
      <4> QED BY <2>d, <3>1, <3>3, <4>1
    <3> QED BY <3>2, <3>3
  <2>10. \A j : Holds(t, j) => Holds(s, j) \/ j = k
    BY <2>e, <2>7, <2>9 DEF Holds
  <2> QED BY <1>2, <2>5, <2>6, <2>8, <2>10 DEF t, S, IsSeen
<1> QED BY <1>1, <1>2
-----------------------------------------------------------------------------
(***************************************************************************)
(* The types are inductive together with the soundness of the repeater     *)
(* that the badge runs.                                                    *)
(***************************************************************************)
PathTyped == TypeOK /\ Sound(repeater) /\ (REPEAT = "OFF" => repeater.watches = <<>>)

(***************************************************************************)
(* The frame that is taken off the front of a queue.                       *)
(***************************************************************************)
LEMMA FrontOfQueue ==
  ASSUME NEW q \in Seq(OnAir), q # <<>>
  PROVE  /\ Head(q) \in OnAir /\ Tail(q) \in Seq(OnAir)
         /\ Len(Tail(q)) = Len(q) - 1 /\ Len(q) \in Nat /\ Len(q) >= 1
<1>1. Head(q) \in OnAir /\ Tail(q) \in Seq(OnAir) /\ Len(Tail(q)) = Len(q) - 1
  BY HeadTailProperties
<1>2. Len(q) \in Nat /\ Len(q) # 0
  BY LenProperties, EmptySeq
<1> QED BY <1>1, <1>2

LEMMA BackOfQueue ==
  ASSUME NEW q \in Seq(OnAir), NEW f \in OnAir
  PROVE  Append(q, f) \in Seq(OnAir) /\ Len(Append(q, f)) = Len(q) + 1 /\ Len(q) \in Nat
BY AppendProperties, LenProperties

(***************************************************************************)
(* The handler and the radio.                                              *)
(***************************************************************************)
LEMMA HandlerKeepsTypes ==
  ASSUME PathTyped, (\E f \in OnAir : Arrive(f)) \/ Interrupt \/ LateInterrupt
  PROVE  TypeOK' /\ UNCHANGED <<loop, books>>
<1> USE DEF PathTyped
<1>1. Len(rxbuf) \in Nat /\ Len(pending) \in Nat /\ MaxInFlight \in Nat
      /\ rxbuf \in Seq(OnAir) /\ pending \in Seq(OnAir) /\ callbacks \in Nat
  BY AirAssumption, LenProperties DEF TypeOK
<1>2. ASSUME NEW f \in OnAir, Arrive(f) PROVE TypeOK' /\ UNCHANGED <<loop, books>>
  <2>1. rxbuf' \in Seq(OnAir) /\ Len(rxbuf') = Len(rxbuf) + 1
    BY <1>1, <1>2, BackOfQueue DEF Arrive
  <2>2. /\ Len(rxbuf') + Len(pending) <= MaxInFlight
        /\ callbacks' \in Len(rxbuf') .. MaxInFlight
    BY <1>1, <1>2, <2>1 DEF Arrive, TypeOK
  <2> QED BY <1>2, <2>1, <2>2 DEF Arrive, TypeOK, loop, books
<1>3. CASE Interrupt
  <2> DEFINE f == Head(rxbuf)
  <2>1. f \in OnAir /\ rxbuf' \in Seq(OnAir) /\ Len(rxbuf') = Len(rxbuf) - 1
    BY <1>1, <1>3, FrontOfQueue DEF Interrupt
  <2>2. pending' = Append(pending, f)
    BY <1>3 DEF Interrupt
  <2>3. pending' \in Seq(OnAir) /\ Len(pending') = Len(pending) + 1
    BY <1>1, <2>1, <2>2, BackOfQueue
  <2>4. /\ paint_key' \in Pulses \cup {NoKey}
        /\ painted' \in [Pulses -> [handler : BOOLEAN, loop : 0 .. 2]]
    <3>1. CASE FastPaints(f)
      <4>1. f.key \in Pulses
        BY <3>1 DEF FastPaints
      <4>2. paint_key' = f.key /\ painted' = [painted EXCEPT ![f.key].handler = TRUE]
        BY <1>3, <3>1 DEF Interrupt
      <4> HIDE DEF f
      <4> QED BY <4>1, <4>2 DEF TypeOK
    <3>2. CASE ~FastPaints(f)
      <4>1. paint_key' = paint_key /\ painted' = painted
        BY <1>3, <3>2 DEF Interrupt
      <4> QED BY <4>1 DEF TypeOK
    <3> QED BY <3>1, <3>2
  <2>5. UNCHANGED <<loop, books>> /\ callbacks' = callbacks - 1
    BY <1>3 DEF Interrupt
  <2> HIDE DEF f
  <2>6. /\ Len(rxbuf') + Len(pending') <= MaxInFlight
        /\ callbacks' \in Len(rxbuf') .. MaxInFlight
    BY <1>1, <2>1, <2>3, <2>5 DEF TypeOK
  <2> QED BY <2>1, <2>3, <2>4, <2>5, <2>6 DEF TypeOK, loop, books
<1>4. CASE LateInterrupt
  <2>1. Len(rxbuf) = 0
    BY <1>4, EmptySeq DEF LateInterrupt
  <2> QED BY <1>1, <1>4, <2>1 DEF LateInterrupt, TypeOK, loop, books
<1> QED BY <1>2, <1>3, <1>4
(***************************************************************************)
(* The loop's steps that leave the repeater alone.                         *)
(***************************************************************************)
LEMMA LoopKeepsTypes ==
  ASSUME PathTyped, Take \/ Reject \/ Render
  PROVE  TypeOK' /\ UNCHANGED books
<1> USE DEF PathTyped
<1>1. /\ rxbuf \in Seq(OnAir) /\ pending \in Seq(OnAir)
      /\ Len(rxbuf) \in Nat /\ Len(pending) \in Nat
      /\ drained \in 0 .. DRAIN_LIMIT /\ DRAIN_LIMIT \in Nat
  BY AirAssumption, LenProperties DEF TypeOK
<1>2. CASE Take
  <2>1. /\ frame' \in OnAir /\ rxbuf' \in Seq(OnAir) /\ pending' \in Seq(OnAir)
        /\ Len(rxbuf') + Len(pending') <= MaxInFlight /\ Len(rxbuf') <= Len(rxbuf)
        /\ Len(rxbuf') \in Nat
    <3>1. CASE /\ pending # <<>>
               /\ frame' = Head(pending) /\ pending' = Tail(pending)
               /\ UNCHANGED rxbuf
      BY <1>1, <3>1, AirAssumption, FrontOfQueue DEF TypeOK
    <3>2. CASE /\ pending = <<>> /\ rxbuf # <<>>
               /\ frame' = Head(rxbuf) /\ rxbuf' = Tail(rxbuf)
               /\ UNCHANGED pending
      BY <1>1, <3>2, AirAssumption, FrontOfQueue DEF TypeOK
    <3> QED BY <1>2, <3>1, <3>2 DEF Take
  <2>2. frame' # NoFrame
    BY <2>1, FramesOnAir
  <2>3. drained' \in 0 .. DRAIN_LIMIT
    BY <1>1, <1>2 DEF Take
  <2>4. callbacks' \in Len(rxbuf') .. MaxInFlight
    BY <1>1, <1>2, <2>1, AirAssumption DEF Take, TypeOK
  <2> QED BY <1>2, <2>1, <2>2, <2>3, <2>4 DEF Take, TypeOK, books
<1>3. CASE Reject
  BY <1>3 DEF Reject, PutDown, TypeOK, radio, books
<1>4. CASE Render
  <2>1. painted' \in [Pulses -> [handler : BOOLEAN, loop : 0 .. 2]]
    <3>1. \A n \in 0 .. 2 : OneMore(n) \in 0 .. 2
      BY DEF OneMore
    <3>2. CASE LoopPaints
      <4>1. painted' = [painted EXCEPT ![frame.key].loop = OneMore(painted[frame.key].loop)]
        BY <1>4, <3>2 DEF Render
      <4>2. frame.key \in Pulses
        BY <3>2 DEF LoopPaints
      <4> QED BY <3>1, <4>1, <4>2 DEF TypeOK
    <3>3. CASE ~LoopPaints
      BY <1>4, <3>3 DEF Render, TypeOK
    <3> QED BY <3>2, <3>3
  <2> QED BY <1>4, <2>1 DEF Render, PutDown, TypeOK, radio, books
<1> QED BY <1>2, <1>3, <1>4

(***************************************************************************)
(* What the repeater is given when a frame is observed, and at the end of  *)
(* a pass.                                                                 *)
(***************************************************************************)
LEMMA ObserveGives ==
  ASSUME PathTyped, Observe
  PROVE  /\ frame \in OnAir /\ duplicate' \in BOOLEAN /\ Sound(repeater')
         /\ Watched(repeater') \subseteq Watched(repeater) \cup {NewWatch(frame)}
         /\ REPEAT = "OFF" => repeater' = repeater
<1> USE DEF PathTyped
<1>1. frame \in OnAir /\ duplicate' \in BOOLEAN
  BY DEF Observe, TypeOK, IsSeen, Holds
<1>2. frame \in Frames
  BY <1>1, FramesOnAir
<1>3. CASE REPEAT = "AUTO"
  <2>1. PICK b \in CANDIDATE_FRAMES, c \in COOLDOWN_FRAMES :
          repeater' = OnAdmittedFrame(repeater, frame, duplicate', TRUE, b, c)
    BY <1>3 DEF Observe
  <2>2. Sound(OnAdmittedFrame(repeater, frame, duplicate', TRUE, b, c))
    BY <1>1, <1>2, OnAdmittedFrameSound
  <2>3. Watched(OnAdmittedFrame(repeater, frame, duplicate', TRUE, b, c))
          \subseteq Watched(repeater) \cup {NewWatch(frame)}
    BY <1>1, <1>2, OnAdmittedFrameWatched
  <2> QED BY <1>1, <1>3, <2>1, <2>2, <2>3
<1>4. CASE REPEAT = "OFF"
  BY <1>1, <1>4 DEF Observe
<1> QED BY <1>3, <1>4, AirAssumption

LEMMA SweepGives ==
  ASSUME PathTyped, Sweep
  PROVE  /\ Sound(repeater')
         /\ Watched(repeater') \subseteq {w \in Watched(repeater) : w.left > 0}
         /\ REPEAT = "OFF" => repeater' = repeater
<1> USE DEF PathTyped
<1>1. CASE REPEAT = "AUTO"
  <2>1. PICK b \in CANDIDATE_FRAMES : repeater' = TickRepeater(repeater, b)
    BY <1>1 DEF Sweep, RepeaterTick
  <2>2. Sound(TickRepeater(repeater, b))
    BY TickRepeaterSound
  <2>3. Watched(TickRepeater(repeater, b)) \subseteq {w \in Watched(repeater) : w.left > 0}
    BY TickRepeaterWatched
  <2> QED BY <1>1, <2>1, <2>2, <2>3
<1>2. CASE REPEAT = "OFF"
  <2>1. repeater' = repeater
    BY <1>2 DEF Sweep
  <2>2. Watched(repeater) = {}
    BY <1>2, EmptySeq DEF Watched
  <2>3. Watched(repeater') = {}
    BY <2>1, <2>2
  <2> QED BY <2>1, <2>3
<1> QED BY <1>1, <1>2, AirAssumption

LEMMA BooksKeepTypes ==
  ASSUME PathTyped, Observe \/ Sweep \/ Rescan \/ Elapse
  PROVE  PathTyped'
<1> USE DEF PathTyped
<1>0. ASSUME Sound(repeater'), TypeOK', REPEAT = "OFF" => repeater'.watches = <<>>
      PROVE  PathTyped'
  BY <1>0 DEF Sound, Steady, Typed, Gated, Counting, PeerRecent
<1>1. tofu \in Locks /\ seen \in Seq(Keys \ Unsequenced) /\ Len(seen) <= CAPACITY
  BY DEF TypeOK
<1>2. \A r : Sound(r) => r \in Repeaters
  BY DEF Sound, Steady, Typed
<1>3. CASE Observe
  <2>1. frame \in OnAir /\ duplicate' \in BOOLEAN /\ Sound(repeater')
        /\ (REPEAT = "OFF" => repeater' = repeater)
    BY <1>3, ObserveGives
  <2>2. tofu' \in Locks
    BY <1>1, <1>3, <2>1, FramesOnAir, LockKeepsType DEF Observe
  <2>3. seen' \in Seq(Keys \ Unsequenced) /\ Len(seen') <= CAPACITY
    BY <1>1, <1>3, <2>1, FramesOnAir, RememberProperties DEF Observe
  <2>4. rescanned' \in BOOLEAN /\ given_up' \in BOOLEAN
    BY <1>3 DEF Observe, StillRescanned, TypeOK
  <2>5. /\ rxbuf' = rxbuf /\ callbacks' = callbacks /\ pending' = pending /\ frame' = frame
        /\ drained' = drained /\ paint_key' = paint_key /\ painted' = painted
        /\ stage = "taken" /\ stage' = "observed"
    BY <1>3 DEF Observe, radio
  <2>6. TypeOK'
    BY <1>2, <2>1, <2>2, <2>3, <2>4, <2>5 DEF TypeOK
  <2> QED BY <1>0, <2>1, <2>6
<1>4. CASE Sweep
  <2>1. Sound(repeater') /\ (REPEAT = "OFF" => repeater' = repeater)
    BY <1>4, SweepGives
  <2>2. tofu' \in Locks
    BY <1>1, <1>4, LockKeepsType DEF Sweep
  <2>3. rescanned' \in BOOLEAN /\ given_up' \in BOOLEAN
    BY <1>4 DEF Sweep, StillRescanned, TypeOK
  <2>4. drained' \in 0 .. DRAIN_LIMIT
    BY <1>4, AirAssumption DEF Sweep
  <2>5. /\ rxbuf' = rxbuf /\ callbacks' = callbacks /\ pending' = pending /\ frame' = frame
        /\ duplicate' = duplicate /\ seen' = seen /\ paint_key' = paint_key
        /\ painted' = painted /\ stage' = stage
    BY <1>4 DEF Sweep, radio
  <2>6. TypeOK'
    BY <1>2, <2>1, <2>2, <2>3, <2>4, <2>5 DEF TypeOK
  <2> QED BY <1>0, <2>1, <2>6
<1>5. CASE Rescan
  <2>1. tofu' \in Locks /\ rescanned' \in BOOLEAN /\ given_up' \in BOOLEAN
    BY <1>1, <1>5, LockKeepsType DEF Rescan
  <2>2. repeater' = repeater
    BY <1>5 DEF Rescan
  <2>3. TypeOK'
    BY <1>5, <2>1 DEF Rescan, TypeOK, radio, loop
  <2> QED BY <1>0, <2>2, <2>3
<1>6. CASE Elapse
  <2>1. tofu' \in Locks
    BY <1>1, <1>6, LockKeepsType DEF Elapse
  <2>2. Sound(repeater') /\ (REPEAT = "OFF" => repeater' = repeater)
    BY <1>6, AgeSound DEF Elapse
  <2>3. TypeOK'
    BY <1>2, <1>6, <2>1, <2>2 DEF Elapse, TypeOK, radio, loop
  <2> QED BY <1>0, <2>2, <2>3
<1> QED BY <1>3, <1>4, <1>5, <1>6

LEMMA PathTypesKept ==
  ASSUME PathTyped, [Next]_vars
  PROVE  PathTyped'
<1> USE DEF PathTyped
<1>1. ASSUME TypeOK', UNCHANGED books PROVE PathTyped'
  BY <1>1 DEF books, Sound, Steady, Typed, Gated, Counting, PeerRecent
<1>2. CASE (\E f \in OnAir : Arrive(f)) \/ Interrupt \/ LateInterrupt
  BY <1>1, <1>2, HandlerKeepsTypes
<1>3. CASE Take \/ Reject \/ Render
  BY <1>1, <1>3, LoopKeepsTypes
<1>4. CASE Observe \/ Sweep \/ Rescan \/ Elapse
  BY <1>4, BooksKeepTypes
<1>5. CASE UNCHANGED vars
  <2>1. TypeOK' /\ UNCHANGED books
    BY <1>5 DEF vars, TypeOK, books
  <2> QED BY <1>1, <2>1
<1> QED BY <1>2, <1>3, <1>4, <1>5 DEF Next, LoopStep

LEMMA PathTypedInit ==
  ASSUME Init
  PROVE  PathTyped
<1>1. Sound(repeater) /\ repeater.watches = <<>>
  BY NewRepeaterSound DEF Init, NewRepeater
<1>2. repeater \in Repeaters
  BY <1>1 DEF Sound, Steady, Typed
<1>3. tofu \in Locks
  BY TimeoutAssumption DEF Init, Unlocked, Locks
<1>4. /\ rxbuf \in Seq(OnAir) /\ pending \in Seq(OnAir) /\ seen \in Seq(Keys \ Unsequenced)
      /\ Len(rxbuf) = 0 /\ Len(pending) = 0 /\ Len(seen) = 0
  BY EmptySeq DEF Init
<1>5. /\ callbacks \in Len(rxbuf) .. MaxInFlight /\ drained \in 0 .. DRAIN_LIMIT
      /\ Len(rxbuf) + Len(pending) <= MaxInFlight /\ Len(seen) <= CAPACITY
  BY <1>4, AirAssumption, CapacityAssumption DEF Init
<1>6. painted \in [Pulses -> [handler : BOOLEAN, loop : 0 .. 2]]
  BY DEF Init
<1> QED BY <1>1, <1>2, <1>3, <1>4, <1>5, <1>6 DEF Init, TypeOK, PathTyped

LEMMA PathInductive == Spec => []PathTyped
BY PathTypedInit, PathTypesKept, PTL DEF Spec

(***************************************************************************)
(* The badge's types, with its queues within their bound and an interrupt  *)
(* waiting for every frame the driver holds.                               *)
(***************************************************************************)
THEOREM TypeCorrect == Spec => []TypeOK
<1>1. PathTyped => TypeOK
  BY DEF PathTyped
<1> QED BY <1>1, PathInductive, PTL

-----------------------------------------------------------------------------
(***************************************************************************)
(* No pulse falls between handler and loop.  The loop leaves a pulse to    *)
(* the handler by the handler's cache alone, so that has to be the name of *)
(* a pulse that the handler did paint.                                     *)
(***************************************************************************)
PaintKeyIsTrue == paint_key # NoKey => painted[paint_key].handler

PaintInv == PaintKeyIsTrue /\ EveryFreshPulseIsPainted

LEMMA HandlerKeepsPaint ==
  ASSUME PathTyped, PaintInv, Interrupt
  PROVE  PaintInv'
<1> DEFINE f == Head(rxbuf)
<1>1. /\ painted \in [Pulses -> [handler : BOOLEAN, loop : 0 .. 2]]
      /\ None \notin Pulses
  BY AirAssumption DEF PathTyped, TypeOK
<1>2. UNCHANGED <<stage, frame, duplicate, seen>>
  BY DEF Interrupt, loop, books
<1>3. CASE FastPaints(f)
  <2>1. f.key \in Pulses
    BY <1>3 DEF FastPaints
  <2>2. paint_key' = f.key /\ painted' = [painted EXCEPT ![f.key].handler = TRUE]
    BY <1>3 DEF Interrupt
  <2> HIDE DEF f
  <2>3. painted'[f.key].handler
    BY <1>1, <2>1, <2>2
  <2>4. \A k \in Pulses : /\ painted[k].handler => painted'[k].handler
                          /\ painted'[k].loop = painted[k].loop
    BY <1>1, <2>1, <2>2
  <2> QED BY <1>2, <2>2, <2>3, <2>4
          DEF PaintInv, PaintKeyIsTrue, EveryFreshPulseIsPainted, InHand
<1>4. CASE ~FastPaints(f)
  <2>1. paint_key' = paint_key /\ painted' = painted
    BY <1>4 DEF Interrupt
  <2> HIDE DEF f
  <2> QED BY <1>2, <2>1 DEF PaintInv, PaintKeyIsTrue, EveryFreshPulseIsPainted, InHand
<1> QED BY <1>3, <1>4

(***************************************************************************)
(* A pulse that the ring lets through is in the loop's hand first.         *)
(***************************************************************************)
LEMMA ObserveKeepsPaint ==
  ASSUME PathTyped, PaintInv, Observe
  PROVE  PaintInv'
<1>1. /\ frame \in OnAir /\ seen \in Seq(Keys \ Unsequenced) /\ Len(seen) <= CAPACITY
      /\ stage = "taken" /\ stage' = "observed" /\ seen' = Remember(seen, frame.key)
      /\ duplicate' = IsSeen(seen, frame.key)
      /\ UNCHANGED <<frame, paint_key, painted>>
  BY DEF Observe, PathTyped, TypeOK
<1>2. \A k : Holds(seen', k) => Holds(seen, k) \/ (k = frame.key /\ ~duplicate')
  BY <1>1, FramesOnAir, RememberProperties
<1>3. ASSUME NEW k \in Pulses, Holds(seen', k), ~InHand(k)'
      PROVE  painted[k].handler \/ painted[k].loop >= 1
  <2>1. Holds(seen, k)
    BY <1>1, <1>2, <1>3 DEF InHand
  <2>2. ~InHand(k)
    BY <1>1 DEF InHand
  <2> QED BY <2>1, <2>2 DEF PaintInv, EveryFreshPulseIsPainted
<1> QED BY <1>1, <1>3 DEF PaintInv, PaintKeyIsTrue, EveryFreshPulseIsPainted

LEMMA RenderKeepsPaint ==
  ASSUME PathTyped, PaintInv, Render
  PROVE  PaintInv'
<1>1. /\ painted \in [Pulses -> [handler : BOOLEAN, loop : 0 .. 2]]
      /\ stage = "observed" /\ stage' = "poll"
      /\ seen' = seen /\ paint_key' = paint_key
      /\ paint_key \in Pulses \cup {NoKey}
  BY DEF Render, PutDown, books, PathTyped, TypeOK
<1>2. CASE LoopPaints
  <2>1. frame.key \in Pulses
    BY <1>2 DEF LoopPaints
  <2>2. painted' = [painted EXCEPT ![frame.key].loop = OneMore(painted[frame.key].loop)]
    BY <1>2 DEF Render
  <2>3. painted'[frame.key].loop >= 1
    BY <1>1, <2>1, <2>2 DEF OneMore
  <2>4. \A k \in Pulses : /\ painted'[k].handler = painted[k].handler
                          /\ k # frame.key => painted'[k].loop = painted[k].loop
    BY <1>1, <2>1, <2>2
  <2>5. PaintKeyIsTrue'
    BY <1>1, <2>4 DEF PaintInv, PaintKeyIsTrue
  <2>6. ASSUME NEW k \in Pulses, Holds(seen, k)
        PROVE  painted'[k].handler \/ painted'[k].loop >= 1
    <3>1. CASE k = frame.key
      BY <2>3, <3>1
    <3>2. CASE k # frame.key
      BY <2>4, <2>6, <3>2 DEF PaintInv, EveryFreshPulseIsPainted, InHand
    <3> QED BY <3>1, <3>2
  <2> QED BY <1>1, <2>5, <2>6 DEF PaintInv, EveryFreshPulseIsPainted
<1>3. CASE ~LoopPaints
  <2>1. painted' = painted
    BY <1>3 DEF Render
  <2>2. ASSUME NEW k \in Pulses, Holds(seen, k)
        PROVE  painted[k].handler \/ painted[k].loop >= 1
    <3>1. CASE InHand(k)
      <4>1. frame.key = paint_key /\ frame.key = k
        BY <1>3, <3>1 DEF LoopPaints, InHand
      <4>2. paint_key # NoKey
        BY <4>1, AirAssumption DEF NoKey
      <4> QED BY <4>1, <4>2 DEF PaintInv, PaintKeyIsTrue
    <3>2. CASE ~InHand(k)
      BY <2>2, <3>2 DEF PaintInv, EveryFreshPulseIsPainted
    <3> QED BY <3>1, <3>2
  <2> QED BY <1>1, <2>1, <2>2 DEF PaintInv, PaintKeyIsTrue, EveryFreshPulseIsPainted
<1> QED BY <1>2, <1>3

LEMMA OthersKeepPaint ==
  ASSUME PathTyped, PaintInv,
         \/ \E f \in OnAir : Arrive(f)
         \/ LateInterrupt \/ Take \/ Reject \/ Sweep \/ Rescan \/ Elapse
         \/ UNCHANGED vars
  PROVE  PaintInv'
<1>1. UNCHANGED <<seen, paint_key, painted>>
  BY DEF Arrive, LateInterrupt, Take, Reject, Sweep, Rescan, Elapse, books, vars
<1>2. (stage' = stage /\ frame' = frame /\ duplicate' = duplicate) \/ stage # "observed"
  BY DEF Arrive, LateInterrupt, Take, Reject, Sweep, Rescan, Elapse, loop, vars
<1>3. \A k \in Pulses : InHand(k) => InHand(k)'
  BY <1>2 DEF InHand
<1> QED BY <1>1, <1>3 DEF PaintInv, PaintKeyIsTrue, EveryFreshPulseIsPainted

(***************************************************************************)
(* Whatever the handler paints in between, no pulse that the ring has let  *)
(* through goes unpainted.                                                 *)
(***************************************************************************)
THEOREM NoPulseIsLost == Spec => []EveryFreshPulseIsPainted
<1>1. Init => PaintInv
  <2>1. ~ \E k : Holds(<<>>, k)
    BY DEF Holds
  <2> QED BY <2>1 DEF Init, PaintInv, PaintKeyIsTrue, EveryFreshPulseIsPainted
<1>2. PathTyped /\ PaintInv /\ [Next]_vars => PaintInv'
  BY HandlerKeepsPaint, ObserveKeepsPaint, RenderKeepsPaint, OthersKeepPaint
     DEF Next, LoopStep
<1>3. PaintInv => EveryFreshPulseIsPainted
  BY DEF PaintInv
<1> QED BY <1>1, <1>2, <1>3, PathInductive, PTL DEF Spec
-----------------------------------------------------------------------------
(***************************************************************************)
(* The loop renders no numbered pulse twice.  With room for all pairs the  *)
(* ring forgets none: it holds every pair the loop has rendered, and the   *)
(* one it is about to render, none of them twice.                          *)
(***************************************************************************)
Distinct == \A i, j \in DOMAIN seen : seen[i] = seen[j] => i = j

ObservedIsHeld ==
  stage = "observed" /\ frame.key \notin Unsequenced => Holds(seen, frame.key)

RenderedIsHeld ==
  \A k \in Pulses \ Unsequenced :
    /\ painted[k].loop <= 1
    /\ painted[k].loop >= 1 => Holds(seen, k) /\ ~InHand(k)

OnceInv == ObservedIsHeld /\ (RingHoldsAll => Distinct /\ RenderedIsHeld)

LEMMA RememberForgetsNone ==
  ASSUME NEW s \in Seq(Keys \ Unsequenced), Len(s) <= CAPACITY, NEW k \in Keys,
         RingHoldsAll, \A i, j \in DOMAIN s : s[i] = s[j] => i = j
  PROVE  LET t == Remember(s, k)
         IN  /\ \A i, j \in DOMAIN t : t[i] = t[j] => i = j
             /\ \A j : Holds(s, j) => Holds(t, j)
<1> DEFINE S == Keys \ Unsequenced
           t == Push(s, k, CAPACITY)
<1>1. CASE k \in Unsequenced \/ Holds(s, k)
  <2>1. Remember(s, k) = s
    BY <1>1 DEF Remember
  <2> QED BY <2>1
<1>2. CASE k \notin Unsequenced /\ ~Holds(s, k)
  <2>1. Remember(s, k) = t
    BY <1>2 DEF Remember
  <2>2. k \in S /\ s \in Seq(S) /\ Len(s) <= CAPACITY /\ Len(s) \in Nat
    BY <1>2, LenProperties
  <2>3. DOMAIN s = 1 .. Len(s)
    BY LenProperties
  <2>4. IsFiniteSet(S) /\ Cardinality(S) <= CAPACITY /\ Cardinality(S) \in Nat
    BY FS_CardinalityType DEF RingHoldsAll
  <2> HIDE DEF S
  <2>5. Len(s) < CAPACITY
    <3>1. Len(s) < Cardinality(S)
      BY <1>2, <2>2, <2>4, RoomInRing
    <3> QED BY <2>2, <2>4, <3>1, CapacityAssumption
  <2>6. CAPACITY \in Nat \ {0}
    BY CapacityAssumption
  <2>7. /\ DOMAIN t = 1 .. Len(s) + 1 /\ t[Len(s) + 1] = k
        /\ \A i \in 1 .. Len(s) : t[i] = s[i]
    BY <2>2, <2>5, <2>6, PushWithRoom
  <2> HIDE DEF t
  <2>8. \A i \in DOMAIN t : i \in 1 .. Len(s) \/ i = Len(s) + 1
    BY <2>2, <2>7
  <2>9. \A i \in 1 .. Len(s) : i \in DOMAIN t
    BY <2>2, <2>7
  <2>10. \A i \in 1 .. Len(s) : s[i] # k
    BY <1>2, <2>3 DEF Holds
  <2>11. ASSUME NEW i \in DOMAIN t, NEW j \in DOMAIN t, t[i] = t[j] PROVE i = j
    <3>1. i \in 1 .. Len(s) \/ i = Len(s) + 1
      BY <2>8
    <3>2. j \in 1 .. Len(s) \/ j = Len(s) + 1
      BY <2>8
    <3> QED BY <2>3, <2>7, <2>10, <2>11, <3>1, <3>2
  <2>12. ASSUME NEW j, Holds(s, j) PROVE Holds(t, j)
    <3>1. PICK i \in 1 .. Len(s) : s[i] = j
      BY <2>3, <2>12 DEF Holds
    <3>2. i \in DOMAIN t /\ t[i] = j
      BY <2>7, <2>9, <3>1
    <3> QED BY <3>2 DEF Holds
  <2> QED BY <2>1, <2>11, <2>12
<1> QED BY <1>1, <1>2

LEMMA ObserveKeepsOnce ==
  ASSUME PathTyped, OnceInv, Observe
  PROVE  OnceInv'
<1>1. /\ frame \in OnAir /\ seen \in Seq(Keys \ Unsequenced) /\ Len(seen) <= CAPACITY
      /\ stage = "taken" /\ stage' = "observed" /\ seen' = Remember(seen, frame.key)
      /\ duplicate' = IsSeen(seen, frame.key)
      /\ UNCHANGED <<frame, paint_key, painted>>
  BY DEF Observe, PathTyped, TypeOK
<1>2. ObservedIsHeld'
  BY <1>1, FramesOnAir, RememberProperties DEF ObservedIsHeld
<1>3. ASSUME RingHoldsAll PROVE Distinct' /\ RenderedIsHeld'
  <2>1. Distinct /\ RenderedIsHeld
    BY <1>3 DEF OnceInv
  <2>2. Distinct' /\ \A k : Holds(seen, k) => Holds(seen', k)
    BY <1>1, <1>3, <2>1, FramesOnAir, RememberForgetsNone DEF Distinct
  <2>3. ASSUME NEW k \in Pulses \ Unsequenced, painted[k].loop >= 1
        PROVE  Holds(seen', k) /\ ~InHand(k)'
    <3>1. Holds(seen, k)
      BY <2>1, <2>3 DEF RenderedIsHeld
    <3>2. frame.key = k => duplicate'
      BY <1>1, <3>1 DEF IsSeen
    <3> QED BY <1>1, <2>2, <3>1, <3>2 DEF InHand
  <2> QED BY <1>1, <2>1, <2>2, <2>3 DEF RenderedIsHeld
<1> QED BY <1>2, <1>3 DEF OnceInv, RingHoldsAll

LEMMA RenderKeepsOnce ==
  ASSUME PathTyped, OnceInv, Render
  PROVE  OnceInv'
<1>1. /\ painted \in [Pulses -> [handler : BOOLEAN, loop : 0 .. 2]]
      /\ stage = "observed" /\ stage' = "poll" /\ seen' = seen
  BY DEF Render, PutDown, books, PathTyped, TypeOK
<1>2. ObservedIsHeld'
  BY <1>1 DEF ObservedIsHeld
<1>3. ASSUME RingHoldsAll PROVE Distinct' /\ RenderedIsHeld'
  <2>1. Distinct /\ RenderedIsHeld
    BY <1>3 DEF OnceInv
  <2>2. Distinct'
    BY <1>1, <2>1 DEF Distinct
  <2>3. CASE LoopPaints
    <3>1. /\ painted' = [painted EXCEPT ![frame.key].loop = OneMore(painted[frame.key].loop)]
          /\ frame.key \in Pulses /\ InHand(frame.key)
      BY <1>1, <2>3 DEF Render, LoopPaints, InHand
    <3>2. ASSUME NEW k \in Pulses \ Unsequenced
          PROVE  /\ painted'[k].loop <= 1
                 /\ painted'[k].loop >= 1 => Holds(seen, k)
      <4>1. CASE k = frame.key
        <5>1. painted[k].loop = 0
          BY <1>1, <2>1, <3>1, <4>1 DEF RenderedIsHeld
        <5>2. painted'[k].loop = 1
          BY <1>1, <3>1, <4>1, <5>1 DEF OneMore
        <5>3. Holds(seen, k)
          BY <1>1, <4>1 DEF OnceInv, ObservedIsHeld
        <5> QED BY <5>2, <5>3
      <4>2. CASE k # frame.key
        <5>1. painted'[k].loop = painted[k].loop
          BY <1>1, <3>1, <4>2
        <5> QED BY <2>1, <5>1 DEF RenderedIsHeld
      <4> QED BY <4>1, <4>2
    <3> QED BY <1>1, <2>2, <3>2 DEF RenderedIsHeld, InHand
  <2>4. CASE ~LoopPaints
    <3>1. painted' = painted
      BY <2>4 DEF Render
    <3> QED BY <1>1, <2>1, <2>2, <3>1 DEF RenderedIsHeld, InHand
  <2> QED BY <2>3, <2>4
<1> QED BY <1>2, <1>3 DEF OnceInv, RingHoldsAll

LEMMA OthersKeepOnce ==
  ASSUME PathTyped, OnceInv,
         \/ \E f \in OnAir : Arrive(f)
         \/ Interrupt \/ LateInterrupt \/ Take \/ Reject \/ Sweep \/ Rescan \/ Elapse
         \/ UNCHANGED vars
  PROVE  OnceInv'
<1>1. seen' = seen
  BY DEF Arrive, Interrupt, LateInterrupt, Take, Reject, Sweep, Rescan, Elapse, books, vars
<1>2. (stage' = stage /\ frame' = frame /\ duplicate' = duplicate) \/ stage' # "observed"
  BY DEF Arrive, Interrupt, LateInterrupt, Take, Reject, PutDown, Sweep, Rescan, Elapse,
         loop, vars
<1>3. \A k \in Pulses : painted'[k].loop = painted[k].loop
  <2>1. painted \in [Pulses -> [handler : BOOLEAN, loop : 0 .. 2]]
    BY DEF PathTyped, TypeOK
  <2>2. CASE Interrupt
    <3> DEFINE f == Head(rxbuf)
    <3>1. CASE FastPaints(f)
      <4>1. f.key \in Pulses /\ painted' = [painted EXCEPT ![f.key].handler = TRUE]
        BY <2>2, <3>1 DEF Interrupt, FastPaints
      <4> HIDE DEF f
      <4> QED BY <2>1, <4>1
    <3>2. CASE ~FastPaints(f)
      BY <2>2, <3>2 DEF Interrupt
    <3> QED BY <3>1, <3>2
  <2>3. CASE ~Interrupt
    <3>1. painted' = painted
      BY <2>3 DEF Arrive, LateInterrupt, Take, Reject, Sweep, Rescan, Elapse, vars
    <3> QED BY <3>1
  <2> QED BY <2>2, <2>3
<1>4. \A k \in Pulses : InHand(k)' => InHand(k)
  BY <1>2 DEF InHand
<1>5. ObservedIsHeld'
  BY <1>1, <1>2 DEF OnceInv, ObservedIsHeld
<1>6. RingHoldsAll => Distinct' /\ RenderedIsHeld'
  BY <1>1, <1>3, <1>4 DEF OnceInv, Distinct, RenderedIsHeld
<1> QED BY <1>5, <1>6 DEF OnceInv, RingHoldsAll

(***************************************************************************)
(* In whatever order and number its copies are taken, the loop renders a   *)
(* numbered pulse once at most.                                            *)
(***************************************************************************)
THEOREM LoopNeverRepeats == Spec => []LoopRendersOnce
<1>1. Init => OnceInv
  <2>1. ASSUME Init PROVE DOMAIN seen = {} /\ \A k \in Pulses : painted[k].loop = 0
    BY <2>1, EmptySeq DEF Init
  <2> QED BY <2>1 DEF Init, OnceInv, ObservedIsHeld, Distinct, RenderedIsHeld
<1>2. PathTyped /\ OnceInv /\ [Next]_vars => OnceInv'
  BY ObserveKeepsOnce, RenderKeepsOnce, OthersKeepOnce DEF Next, LoopStep
<1>3. OnceInv => LoopRendersOnce
  BY DEF OnceInv, RenderedIsHeld, LoopRendersOnce
<1> QED BY <1>1, <1>2, <1>3, PathInductive, PTL DEF Spec

-----------------------------------------------------------------------------
(***************************************************************************)
(* A lock outlives the watches that were made while it was held: a watch   *)
(* counts down from the frame that renewed the lock, or a later one.       *)
(***************************************************************************)
OfTheLocked == \A w \in Watched(repeater) : SourceOf[w.key] = tofu.locked

Outlived == \A w \in Watched(repeater) : w.left = 0 \/ w.left + tofu.silent <= PEER_WATCH

WatchInv == ~rescanned => OfTheLocked /\ Outlived

LEMMA WatchedTypes ==
  ASSUME PathTyped
  PROVE  /\ Watched(repeater) \subseteq Watches
         /\ \A w \in Watched(repeater) : w.key \in Keys /\ w.left \in 0 .. PEER_WATCH
         /\ PEER_WATCH \in Nat /\ TIMEOUT \in Nat /\ PEER_WATCH <= TIMEOUT
         /\ tofu.silent \in 0 .. TIMEOUT /\ tofu.locked \in Sources \cup {None}
<1>1. repeater.watches \in Seq(Watches) /\ tofu \in Locks
  BY DEF PathTyped, TypeOK, Repeaters
<1>2. \A i \in DOMAIN repeater.watches : repeater.watches[i] \in Watches
  BY <1>1, LenProperties, ElementOfSeq
<1>3. Watched(repeater) \subseteq Watches
  BY <1>2 DEF Watched
<1> QED BY <1>1, <1>3, TimeAssumption, TimeoutAssumption, WatchAssumption DEF Watches, Locks

LEMMA NoneIsWatched ==
  ASSUME NEW r, r.watches \in Seq(Watches)
  PROVE  r.watches = <<>> <=> Watched(r) = {}
<1>1. DOMAIN r.watches = 1 .. Len(r.watches) /\ Len(r.watches) \in Nat
  BY LenProperties
<1>2. r.watches = <<>> <=> Len(r.watches) = 0
  BY EmptySeq
<1>3. Len(r.watches) # 0 => 1 \in DOMAIN r.watches
  BY <1>1
<1>4. Len(r.watches) = 0 => DOMAIN r.watches = {}
  BY <1>1
<1> QED BY <1>2, <1>3, <1>4 DEF Watched

LEMMA ObserveKeepsWatches ==
  ASSUME PathTyped, WatchInv, Observe
  PROVE  WatchInv'
<1> DEFINE s == SourceOf[frame.key]
<1>1. /\ frame \in OnAir /\ Watched(repeater') \subseteq Watched(repeater) \cup {NewWatch(frame)}
      /\ Sound(repeater')
  BY ObserveGives
<1>2. repeater'.watches \in Seq(Watches) /\ repeater.watches \in Seq(Watches)
  BY <1>1 DEF Sound, Steady, Typed, Repeaters, PathTyped
<1>3. tofu.locked \in {None, s} /\ tofu' = [locked |-> s, silent |-> 0] /\ s \in Sources
  BY <1>1, FramesOnAir DEF Observe, Admits, AfterAdmit
<1>4. SUFFICES ASSUME ~rescanned' PROVE OfTheLocked' /\ Outlived'
  BY DEF WatchInv
<1>5. CASE rescanned
  <2>1. repeater'.watches = <<>>
    BY <1>4, <1>5 DEF Observe, StillRescanned
  <2>2. Watched(repeater') = {}
    BY <1>2, <2>1, NoneIsWatched
  <2> QED BY <2>2 DEF OfTheLocked, Outlived, Watched
<1>6. CASE ~rescanned
  <2>1. OfTheLocked /\ Outlived
    BY <1>6 DEF WatchInv
  <2>2. \A w \in Watched(repeater) : SourceOf[w.key] = s
    <3>1. \A w \in Watched(repeater) : SourceOf[w.key] \in Sources
      BY WatchedTypes, AirAssumption
    <3> QED BY <1>3, <2>1, <3>1, SourceAssumption DEF OfTheLocked
  <2>3. NewWatch(frame).key = frame.key /\ NewWatch(frame).left = PEER_WATCH
    BY DEF NewWatch
  <2> HIDE DEF s
  <2>4. \A w \in Watched(repeater') : SourceOf[w.key] = s
    BY <1>1, <2>2, <2>3 DEF s
  <2>5. \A w \in Watched(repeater') : w.left \in 0 .. PEER_WATCH
    BY <1>1, <2>3, WatchedTypes
  <2>6. tofu'.locked = s /\ tofu'.silent = 0
    BY <1>3
  <2>7. OfTheLocked'
    BY <2>4, <2>6 DEF OfTheLocked, Watched
  <2>8. \A w \in Watched(repeater') : w.left + tofu'.silent <= PEER_WATCH
    BY <2>5, <2>6, WatchedTypes
  <2> QED BY <2>7, <2>8 DEF Outlived, Watched
<1> QED BY <1>5, <1>6

(***************************************************************************)
(* A lock that has run out has no watch with time left.                    *)
(***************************************************************************)
LEMMA SweepKeepsWatches ==
  ASSUME PathTyped, WatchInv, Sweep
  PROVE  WatchInv'
<1>1. /\ Sound(repeater') /\ Watched(repeater') \subseteq {w \in Watched(repeater) : w.left > 0}
  BY SweepGives
<1>2. repeater'.watches \in Seq(Watches)
  BY <1>1 DEF Sound, Steady, Typed, Repeaters
<1>3. tofu' = TickLock(tofu)
  BY DEF Sweep
<1>4. SUFFICES ASSUME ~rescanned' PROVE OfTheLocked' /\ Outlived'
  BY DEF WatchInv
<1>5. CASE repeater'.watches = <<>>
  <2>1. Watched(repeater') = {}
    BY <1>2, <1>5, NoneIsWatched
  <2> QED BY <2>1 DEF OfTheLocked, Outlived, Watched
<1>6. CASE repeater'.watches # <<>>
  <2>1. ~rescanned
    BY <1>4, <1>6 DEF Sweep, StillRescanned
  <2>2. OfTheLocked /\ Outlived
    BY <2>1 DEF WatchInv
  <2>3. PICK w \in Watched(repeater) : w.left > 0
    BY <1>1, <1>2, <1>6, NoneIsWatched
  <2>4. ~Expired(tofu)
    BY <2>2, <2>3, WatchedTypes DEF Outlived, Expired
  <2>5. tofu' = tofu
    BY <1>3, <2>4 DEF TickLock
  <2>6. \A v \in Watched(repeater') :
          /\ SourceOf[v.key] = tofu'.locked
          /\ v.left = 0 \/ v.left + tofu'.silent <= PEER_WATCH
    BY <1>1, <2>2, <2>5 DEF OfTheLocked, Outlived
  <2> QED BY <2>6 DEF OfTheLocked, Outlived, Watched
<1> QED BY <1>5, <1>6

LEMMA ElapseKeepsWatches ==
  ASSUME PathTyped, WatchInv, Elapse
  PROVE  WatchInv'
<1>1. rescanned' = rescanned /\ tofu' = AgeLock(tofu)
  BY DEF Elapse
<1>2. SUFFICES ASSUME ~rescanned PROVE OfTheLocked' /\ Outlived'
  BY <1>1 DEF WatchInv
<1>3. OfTheLocked /\ Outlived
  BY <1>2 DEF WatchInv
<1>4. /\ tofu'.locked = tofu.locked
      /\ tofu'.silent \in {tofu.silent, tofu.silent + 1}
      /\ tofu'.silent # tofu.silent + 1 => tofu.locked = None \/ tofu.silent = TIMEOUT
  BY <1>1, WatchedTypes DEF AgeLock, PathTyped, TypeOK, Locks
<1>5. \A w \in Watched(repeater) : tofu.locked # None
  BY <1>3, WatchedTypes, AirAssumption, SourceAssumption DEF OfTheLocked
<1>6. CASE REPEAT = "AUTO"
  <2>1. Watched(repeater') = {Countdown(w) : w \in Watched(repeater)}
    BY <1>6, AgeWatched DEF Elapse, PathTyped
  <2>2. ASSUME NEW w \in Watched(repeater)
        PROVE  /\ SourceOf[Countdown(w).key] = tofu'.locked
               /\ Countdown(w).left = 0 \/ Countdown(w).left + tofu'.silent <= PEER_WATCH
    <3>1. w \in Watches /\ w.left \in 0 .. PEER_WATCH
      BY WatchedTypes
    <3>2. /\ Countdown(w).key = w.key
          /\ Countdown(w).left = IF w.left > 0 THEN w.left - 1 ELSE 0
      BY <3>1 DEF Countdown, Watches
    <3>3. w.left = 0 \/ w.left + tofu.silent <= PEER_WATCH
      BY <1>3 DEF Outlived
    <3>4. Countdown(w).left = 0 \/ Countdown(w).left + tofu'.silent <= PEER_WATCH
      BY <1>4, <3>1, <3>2, <3>3, WatchedTypes
    <3> QED BY <1>3, <1>4, <3>2, <3>4 DEF OfTheLocked
  <2> QED BY <2>1, <2>2 DEF OfTheLocked, Outlived, Watched
<1>7. CASE REPEAT = "OFF"
  <2>1. repeater' = repeater /\ Watched(repeater) = {}
    BY <1>7, EmptySeq DEF Elapse, PathTyped, Watched
  <2>2. Watched(repeater') = {}
    BY <2>1
  <2> QED BY <2>2 DEF OfTheLocked, Outlived, Watched
<1> QED BY <1>6, <1>7, AirAssumption

LEMMA RescanKeepsWatches ==
  ASSUME PathTyped, WatchInv, Rescan
  PROVE  WatchInv'
<1>1. repeater' = repeater /\ rescanned' = (repeater.watches # <<>>)
  BY DEF Rescan
<1>2. ASSUME ~rescanned' PROVE Watched(repeater') = {}
  <2>1. repeater.watches = <<>> /\ repeater.watches \in Seq(Watches)
    BY <1>1, <1>2 DEF PathTyped, TypeOK, Repeaters
  <2>2. Watched(repeater) = {}
    BY <2>1, NoneIsWatched
  <2> QED BY <1>1, <2>2
<1> QED BY <1>2 DEF WatchInv, OfTheLocked, Outlived, Watched

(***************************************************************************)
(* Without the operator's rescan, all watches belong to the Director that  *)
(* is locked, and none is left when the lock runs out.                     *)
(***************************************************************************)
THEOREM WatchesOfLockOnly == Spec => []WatchesFollowLock
<1>1. Init => WatchInv
  <2>1. ASSUME Init PROVE Watched(repeater) = {}
    BY <2>1, EmptySeq DEF Init, NewRepeater, Watched
  <2> QED BY <2>1 DEF WatchInv, OfTheLocked, Outlived
<1>2. PathTyped /\ WatchInv /\ [Next]_vars => WatchInv'
  <2> SUFFICES ASSUME PathTyped, WatchInv, [Next]_vars PROVE WatchInv'
    OBVIOUS
  <2>1. ASSUME UNCHANGED books PROVE WatchInv'
    BY <2>1 DEF books, WatchInv, OfTheLocked, Outlived, Watched
  <2>2. (\E f \in OnAir : Arrive(f)) \/ Interrupt \/ LateInterrupt => UNCHANGED books
    BY HandlerKeepsTypes
  <2>3. Take \/ Reject \/ Render => UNCHANGED books
    BY LoopKeepsTypes
  <2>4. UNCHANGED vars => UNCHANGED books
    BY DEF vars, books
  <2> QED BY <2>1, <2>2, <2>3, <2>4, ObserveKeepsWatches, SweepKeepsWatches,
             ElapseKeepsWatches, RescanKeepsWatches DEF Next, LoopStep
<1>3. WatchInv => WatchesFollowLock
  BY DEF WatchInv, OfTheLocked, Watched, WatchesFollowLock
<1> QED BY <1>1, <1>2, <1>3, PathInductive, PTL DEF Spec

-----------------------------------------------------------------------------
(***************************************************************************)
(* What the loop does to the badge's repeater is what Repeater says, and   *)
(* the frame it is shown, if any, is the one in the loop's hands.  A       *)
(* duplicate is never unnumbered, as the deduplication ring lets these     *)
(* through.                                                                *)
(***************************************************************************)
LEMMA ObserveIsRepeaters ==
  ASSUME PathTyped, Observe
  PROVE  IF REPEAT = "AUTO" THEN frame \in Frames /\ AdmitFrame(frame)
         ELSE UNCHANGED repeater
<1>1. frame \in OnAir /\ frame \in Frames
  BY ObserveGives, FramesOnAir
<1>2. duplicate' \in BOOLEAN /\ (duplicate' => frame.key \notin Unsequenced)
  BY ObserveGives DEF Observe, IsSeen
<1>3. CASE REPEAT = "AUTO"
  <2>1. PICK b \in CANDIDATE_FRAMES, c \in COOLDOWN_FRAMES :
          repeater' = OnAdmittedFrame(repeater, frame, duplicate', TRUE, b, c)
    BY <1>3 DEF Observe
  <2> QED BY <1>1, <1>2, <1>3, <2>1 DEF AdmitFrame
<1>4. CASE REPEAT # "AUTO"
  BY <1>4 DEF Observe
<1> QED BY <1>3, <1>4

(***************************************************************************)
(* Every other step passes time for the repeater, sweeps it or leaves it   *)
(* alone.                                                                  *)
(***************************************************************************)
LEMMA OthersAreRepeaters ==
  ASSUME [Next]_vars, ~Observe
  PROVE  RepeaterTick \/ RepeaterElapse \/ UNCHANGED repeater
<1>1. CASE Sweep
  BY <1>1 DEF Sweep
<1>2. CASE Elapse
  BY <1>2 DEF Elapse, RepeaterElapse
<1>3. CASE Rescan
  BY <1>3 DEF Rescan
<1>4. CASE (\E f \in OnAir : Arrive(f)) \/ Interrupt \/ LateInterrupt
  BY <1>4 DEF Arrive, Interrupt, LateInterrupt, books
<1>5. CASE Take \/ Reject \/ Render
  BY <1>5 DEF Take, Reject, Render, books
<1>6. CASE UNCHANGED vars
  BY <1>6 DEF vars
<1> QED BY <1>1, <1>2, <1>3, <1>4, <1>5, <1>6 DEF Next, LoopStep

(***************************************************************************)
(* Composition: whatever the handler does in between, and whatever comes   *)
(* over the air, the badge's repeater is one in the sense of Repeater.     *)
(***************************************************************************)
THEOREM PathUsesRepeater == Spec => RepeaterInit /\ [][RepeaterNext]_repeater
<1>1. Init => RepeaterInit
  BY DEF Init, RepeaterInit
<1>2. PathTyped /\ [Next]_vars => [RepeaterNext]_repeater
  <2> SUFFICES ASSUME PathTyped, [Next]_vars PROVE [RepeaterNext]_repeater
    OBVIOUS
  <2>1. CASE Observe
    BY <2>1, ObserveIsRepeaters DEF RepeaterNext
  <2>2. CASE ~Observe
    BY <2>2, OthersAreRepeaters DEF RepeaterNext
  <2> QED BY <2>1, <2>2
<1> QED BY <1>1, <1>2, PathInductive, PTL DEF Spec

(***************************************************************************)
(* On the badge, too, the handler's gate agrees with the role, and no      *)
(* window is overrun.                                                      *)
(***************************************************************************)
THEOREM GateFollowsRoleOnBadge == Spec => [](GateFollowsRole /\ WindowStillOpen)
<1>1. PathTyped => GateFollowsRole /\ WindowStillOpen
  BY DEF PathTyped, Sound, Steady, Gated, Counting, PeerRecent, GateFollowsRole,
         WindowStillOpen
<1> QED BY <1>1, PathInductive, PTL

(***************************************************************************)
(* What a badge has heard, for the edge rule: the frames its loop has      *)
(* shown to its repeater, and those of which a copy came in after one from *)
(* further out.                                                            *)
(***************************************************************************)
Remembers ==
  IF Observe /\ REPEAT = "AUTO"
  THEN heard' = heard \cup {frame} /\ inverted' = inverted \cup Late(frame, heard)
  ELSE UNCHANGED <<heard, inverted>>

Memory == heard = {} /\ inverted = {} /\ [][Remembers]_<<vars, heard, inverted>>

(***************************************************************************)
(* With its memory the badge's repeater is one in the sense of             *)
(* RepeaterHistory.                                                        *)
(***************************************************************************)
THEOREM PathHasHistory == Spec /\ Memory => HSpec
<1>1. Init /\ heard = {} /\ inverted = {} => HInit
  BY DEF Init, HInit, RepeaterInit
<1>2. PathTyped /\ [Next]_vars /\ [Remembers]_<<vars, heard, inverted>> =>
        [HNext]_historyVars
  <2> SUFFICES ASSUME PathTyped, [Next]_vars, [Remembers]_<<vars, heard, inverted>>
               PROVE  [HNext]_historyVars
    OBVIOUS
  <2>1. CASE Observe /\ REPEAT = "AUTO"
    <3>1. frame \in Frames /\ AdmitFrame(frame)
      BY <2>1, ObserveIsRepeaters
    <3>2. Remembers
      <4>1. stage' # stage
        BY <2>1 DEF Observe
      <4> QED BY <4>1 DEF vars
    <3>3. heard' = heard \cup {frame} /\ inverted' = inverted \cup Late(frame, heard)
      BY <2>1, <3>2 DEF Remembers
    <3>4. HearFrame(frame)
      BY <3>1, <3>3 DEF HearFrame, Late
    <3> QED BY <3>1, <3>4 DEF HNext
  <2>2. CASE ~(Observe /\ REPEAT = "AUTO")
    <3>1. UNCHANGED <<heard, inverted>>
      BY <2>2 DEF Remembers
    <3>2. RepeaterTick \/ RepeaterElapse \/ UNCHANGED repeater
      BY <2>2, ObserveIsRepeaters, OthersAreRepeaters
    <3> QED BY <3>1, <3>2 DEF HNext, historyVars
  <2> QED BY <2>1, <2>2
<1> QED BY <1>1, <1>2, PathInductive, PTL DEF Spec, Memory, HSpec

(***************************************************************************)
(* On the badge, too, a frame is watched at the lowest hop it was heard    *)
(* at.                                                                     *)
(***************************************************************************)
THEOREM WatchedAtLowestHopOnBadge == Spec /\ Memory => []WatchAtLowestHop
BY PathHasHistory, WatchedAtLowestHop, PTL

(***************************************************************************)
(* The edge rule on the badge, under the premises EdgeRuleInOrder names:   *)
(* in whatever order the handler queues and the loop takes what comes in,  *)
(* the badge stands for a hop only on account of a frame it has not heard  *)
(* there, nor closer to the source.                                        *)
(***************************************************************************)
THEOREM EdgeRuleHoldsOnBadge == Spec /\ Memory => EdgeRuleInOrder
BY PathHasHistory, EdgeRuleHolds, PTL

-----------------------------------------------------------------------------
(***************************************************************************)
(* The lock of the badge as Tofu has it: for every source the time since   *)
(* a frame of it was last in the loop's hands.                             *)
(***************************************************************************)
Times ==
  quiet' = IF Observe \/ Reject THEN [quiet EXCEPT ![SourceOf[frame.key]] = 0]
           ELSE IF Elapse
           THEN [s \in Sources |-> IF quiet[s] < TIMEOUT THEN quiet[s] + 1 ELSE TIMEOUT]
           ELSE quiet

LockOfBadge == lock = tofu /\ channel = RECEIVE_CHANNEL /\ cleared = given_up

(***************************************************************************)
(* Tofu's variables on this badge: its lock, the channel of the session,   *)
(* the operator's rescans, and how long each source has been quiet.        *)
(***************************************************************************)
Timed ==
  /\ []LockOfBadge
  /\ quiet = [s \in Sources |-> TIMEOUT]
  /\ [][Times]_<<vars, quiet>>

(***************************************************************************)
(* Composition: whatever handler and loop do, the badge's lock is one in   *)
(* the sense of Tofu, on the one channel of the session.                   *)
(***************************************************************************)
THEOREM PathUsesLock == Spec /\ Timed => LockInit /\ [][LockNext]_lockVars
<1>1. Init /\ LockOfBadge /\ quiet = [s \in Sources |-> TIMEOUT] => LockInit
  BY AirAssumption DEF Init, LockInit, LockOfBadge
<1>2. /\ PathTyped /\ LockOfBadge /\ LockOfBadge'
      /\ [Next]_vars /\ [Times]_<<vars, quiet>>
      => [LockNext]_lockVars
  <2>0. SUFFICES ASSUME PathTyped, LockOfBadge, LockOfBadge', [Next]_vars,
                        [Times]_<<vars, quiet>>
                 PROVE  [LockNext]_lockVars
    OBVIOUS
  <2>1. CASE Observe \/ Reject
    <3>1. frame \in OnAir
      BY <2>0, <2>1 DEF PathTyped, TypeOK, Observe, Reject
    <3>2. SourceOf[frame.key] \in Sources
      BY <3>1, FramesOnAir
    <3>3. stage' # stage
      BY <2>1 DEF Observe, Reject, PutDown
    <3>4. quiet' = [quiet EXCEPT ![SourceOf[frame.key]] = 0]
      BY <2>0, <2>1, <3>3 DEF Times, vars
    <3>5. /\ tofu' = AfterAdmit(tofu, SourceOf[frame.key], RECEIVE_CHANNEL)
          /\ given_up' = (given_up /\ ~Admits(tofu, SourceOf[frame.key], RECEIVE_CHANNEL))
      BY <2>0, <2>1 DEF Observe, Reject, AfterAdmit, books, PathTyped, TypeOK
    <3>6. LockFrame(SourceOf[frame.key])
      BY <2>0, <3>4, <3>5 DEF LockFrame, LockOfBadge
    <3> QED BY <3>2, <3>6 DEF LockNext
  <2>2. CASE ~(Observe \/ Reject) /\ Elapse
    <3>1. tofu' = AgeLock(tofu) /\ given_up' = given_up
      BY <2>2 DEF Elapse
    <3>2. CASE Times
      <4>1. LockElapse
        BY <2>0, <2>2, <3>1, <3>2 DEF Times, LockElapse, LockOfBadge
      <4> QED BY <4>1 DEF LockNext
    <3>3. CASE UNCHANGED <<vars, quiet>>
      BY <2>0, <3>3 DEF vars, lockVars, LockOfBadge
    <3> QED BY <2>0, <3>2, <3>3
  <2>3. CASE ~(Observe \/ Reject \/ Elapse)
    <3>1. quiet' = quiet
      BY <2>0, <2>3 DEF Times
    <3>2. \/ tofu' \in {TickLock(tofu), tofu} /\ given_up' = given_up
          \/ tofu' = Unlocked /\ given_up' = TRUE
      <4>1. CASE Sweep
        BY <4>1 DEF Sweep
      <4>2. CASE Rescan
        BY <4>2 DEF Rescan
      <4>3. CASE (\E f \in OnAir : Arrive(f)) \/ Interrupt \/ LateInterrupt \/ Take \/ Render
        BY <4>3 DEF Arrive, Interrupt, LateInterrupt, Take, Render, books
      <4>4. CASE UNCHANGED vars
        BY <4>4 DEF vars
      <4> QED BY <2>0, <2>3, <4>1, <4>2, <4>3, <4>4 DEF Next, LoopStep
    <3> QED BY <2>0, <3>1, <3>2 DEF LockTick, LockClear, LockNext, lockVars, LockOfBadge
  <2> QED BY <2>1, <2>2, <2>3
<1> QED BY <1>1, <1>2, PathInductive, PTL DEF Spec, Timed

(***************************************************************************)
(* On the badge, too, the lock's clock is the locked Director's own        *)
(* silence, whatever else the loop has in its hands.                       *)
(***************************************************************************)
THEOREM SilenceIsTheDirectorsOnBadge == Spec /\ Timed => []SilenceIsTheDirectors
<1>1. LockInv => SilenceIsTheDirectors
  BY DEF LockInv
<1> QED BY <1>1, PathUsesLock, LockInductive, PTL

(***************************************************************************)
(* On the badge, too, the lock is given up only after a whole timeout of   *)
(* its Director's silence, or by the operator's rescan, and never passes   *)
(* straight from one Director to another.                                  *)
(***************************************************************************)
THEOREM NeverHijackedOnBadge == Spec /\ Timed => NoHijack
BY PathUsesLock, LockChangesHands, PTL

=============================================================================
