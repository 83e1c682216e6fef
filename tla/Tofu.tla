-------------------------------- MODULE Tofu --------------------------------
(***************************************************************************)
(* A lock among several Directors, its badge on a channel that may change  *)
(* only by way of a scan, which clears nothing.  Two variables are history *)
(* only: quiet keeps, for every source, the time since it was last on the  *)
(* air, and cleared whether the operator has asked for a rescan since the  *)
(* lock last took a Director.                                              *)
(***************************************************************************)
EXTENDS TofuLock

VARIABLES lock, channel, quiet, cleared

lockVars == <<lock, channel, quiet, cleared>>

LockInit ==
  /\ lock = Unlocked
  /\ channel \in Channels
  /\ quiet = [s \in Sources |-> TIMEOUT]
  /\ cleared = FALSE

LockFrame(source) ==
  /\ lock' = AfterAdmit(lock, source, channel)
  /\ quiet' = [quiet EXCEPT ![source] = 0]
  /\ cleared' = (cleared /\ ~Admits(lock, source, channel))
  /\ UNCHANGED channel

LockTick == lock' = TickLock(lock) /\ UNCHANGED <<channel, quiet, cleared>>

LockClear == lock' = Unlocked /\ cleared' = TRUE /\ UNCHANGED <<channel, quiet>>

(***************************************************************************)
(* The scan moves on only while nothing is locked.                         *)
(***************************************************************************)
LockScan ==
  /\ lock.locked = None
  /\ channel' \in Channels
  /\ UNCHANGED <<lock, quiet, cleared>>

LockElapse ==
  /\ lock' = AgeLock(lock)
  /\ quiet' = [s \in Sources |-> IF quiet[s] < TIMEOUT THEN quiet[s] + 1 ELSE TIMEOUT]
  /\ UNCHANGED <<channel, cleared>>

LockNext == (\E s \in Sources : LockFrame(s)) \/ LockTick \/ LockClear \/ LockScan \/ LockElapse

(***************************************************************************)
(* The receive loop calls tick on every pass, and time goes on.            *)
(***************************************************************************)
LockSpec == LockInit /\ [][LockNext]_lockVars /\ WF_lockVars(LockTick) /\ WF_lockVars(LockElapse)

-----------------------------------------------------------------------------
LockTypeOK ==
  /\ lock \in Locks
  /\ channel \in Channels
  /\ quiet \in [Sources -> 0 .. TIMEOUT]
  /\ cleared \in BOOLEAN

(***************************************************************************)
(* The lock's clock is the locked Director's: it has been silent for       *)
(* exactly as long as nothing was heard of that Director, however busy the *)
(* air was with others, and what is locked may be followed on the channel  *)
(* in use.                                                                 *)
(***************************************************************************)
SilenceIsTheDirectors ==
  lock.locked # None => /\ lock.silent = quiet[lock.locked]
                        /\ Eligible(lock.locked, channel)

(***************************************************************************)
(* A Director that keeps talking is never abandoned but by the operator:   *)
(* the lock moves from one source to another only through an unlocked      *)
(* state, and unless the operator asked for a rescan it is given up only   *)
(* after TIMEOUT of that Director's own silence.  While it is held no      *)
(* rescan is on record, so cleared' says that this very step is one.       *)
(***************************************************************************)
NoHijack ==
  [][lock.locked # None =>
       /\ ~cleared
       /\ lock'.locked # lock.locked =>
            /\ lock'.locked = None
            /\ cleared' \/ quiet[lock.locked] = TIMEOUT]_lockVars

(***************************************************************************)
(* A Director that has left for good is let go of, whoever else is talking *)
(* in the meantime: other Directors' frames do not keep its lock alive.    *)
(***************************************************************************)
SilentDirectorIsReleased ==
  \A s \in Sources : <>[][~LockFrame(s)]_lockVars => <>[](lock.locked # s)

=============================================================================
