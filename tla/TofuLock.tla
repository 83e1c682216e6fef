------------------------------ MODULE TofuLock ------------------------------
(***************************************************************************)
(* Class TofuLock (nocturnation/tofu.py), Trust On First Use: it lets the  *)
(* first Director that is heard through, and nobody else until that        *)
(* Director has been silent for TIMEOUT or the operator asks for a rescan. *)
(*                                                                         *)
(* The instant of the last frame is only ever compared with the present,   *)
(* so the lock keeps the time it has been silent, up to TIMEOUT.           *)
(***************************************************************************)
EXTENDS Integers

CONSTANTS
  Sources,           \* source ids on the air
  BROADCAST,         \* the anonymous id, 0xFFFF
  PerformanceRange,  \* ids that may be followed on PERFORMANCE_CHANNEL
  Channels,
  PERFORMANCE_CHANNEL,  \* 11 in the code
  None,              \* no lock held
  TIMEOUT            \* DEFAULT_TIMEOUT_MS, in units of time

ASSUME SourceAssumption == BROADCAST \notin PerformanceRange /\ None \notin Sources
ASSUME TimeoutAssumption == TIMEOUT \in Nat \ {0}

Locks == [locked : Sources \cup {None}, silent : 0 .. TIMEOUT]

Unlocked == [locked |-> None, silent |-> 0]

(***************************************************************************)
(* admit(): whether a frame from source is followed, and the lock after    *)
(* it.  A frame that is turned down leaves the lock untouched.             *)
(***************************************************************************)
Eligible(source, channel) ==
  /\ source # BROADCAST
  /\ channel = PERFORMANCE_CHANNEL => source \in PerformanceRange

Admits(lock, source, channel) ==
  Eligible(source, channel) /\ lock.locked \in {None, source}

(***************************************************************************)
(* Variants to test the properties with: the frames of others refresh the  *)
(* lock; only the first frame of a Director stamps it.                     *)
(***************************************************************************)
AfterAny(lock, source, channel) ==
  IF Admits(lock, source, channel) THEN [locked |-> source, silent |-> 0]
  ELSE [lock EXCEPT !.silent = 0]

AfterFirst(lock, source, channel) ==
  IF lock.locked = None /\ Admits(lock, source, channel)
  THEN [locked |-> source, silent |-> 0] ELSE lock

AfterAdmit(lock, source, channel) ==
  IF Admits(lock, source, channel) THEN [locked |-> source, silent |-> 0] ELSE lock

(***************************************************************************)
(* A variant to test the properties with: the lock is dropped at the first *)
(* pass.                                                                   *)
(***************************************************************************)
ExpiredAtOnce(lock) == lock.locked # None

(***************************************************************************)
(* tick(), and the passing of a unit of time.                              *)
(***************************************************************************)
Expired(lock) == lock.locked # None /\ lock.silent >= TIMEOUT

TickLock(lock) == IF Expired(lock) THEN Unlocked ELSE lock

AgeLock(lock) ==
  IF lock.locked = None THEN lock
  ELSE [lock EXCEPT !.silent = IF @ < TIMEOUT THEN @ + 1 ELSE @]

=============================================================================
