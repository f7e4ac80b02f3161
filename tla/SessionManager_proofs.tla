------------------------ MODULE SessionManager_proofs ------------------------
(***************************************************************************)
(* Proofs about SessionManager, for any number of serials, calls, locks    *)
(* and sessions.  The invariant is a conjunction of parts, each shown to   *)
(* be preserved from itself and the parts before it:                       *)
(*   TypeInv     types, and which calls are about a serial                 *)
(*   LockInv     the per-serial lock, created and pruned on the fly        *)
(*   StopAllInv  the gate and the flag of stop_all_sessions                *)
(*   EpochInv    the epoch a start has read against the current one        *)
(*   HandInv     what the local variables of a call can hold               *)
(*   SlotInv     what the map has for a serial whose start lock is held    *)
(*   OwnInv      which sessions are in one place only                      *)
(*   OwnInv      which sessions are in one place only                      *)
(*   OwnInv      which sessions are in one place only                      *)
(*   OwnInv      which sessions are in one place only                      *)
(* There is a step lemma for each part, with a step for each action.  At   *)
(* the end every action is mapped to a step of SessionRegistry, or none.   *)
(***************************************************************************)
EXTENDS SessionManager, TLAPS

USE DEF Goto, NoRefs, mapVars, lockVars, allVars, localVars

-----------------------------------------------------------------------------
(* Types.                                                                  *)

\* The calls of start_session and stop_session, and no others, have a serial.
CallPcs == StartPcs \cup StopPcs \cup TailPcs
SerInv == \A p \in Procs : pc[p] \in CallPcs <=> ser[p] # None
TypeInv == TypeOK /\ SerInv

\* The initial values have their types.
LEMMA TypeInit == Init => TypeInv
<1> SUFFICES ASSUME Init PROVE TypeInv
    OBVIOUS
<1>1. TypeOK
  BY DEF Init, TypeOK, Pcs
<1>2. SerInv
  BY DEF Init, SerInv, CallPcs, StartPcs, StopPcs, TailPcs
<1> QED
  BY <1>1, <1>2 DEF TypeInv

\* Every step of a call, of the environment or of a cancellation keeps them.
LEMMA TypeStep == TypeInv /\ [Next]_vars => TypeInv'
<1> USE ConstantsAssumption DEF TypeInv, SerInv, CallPcs, TypeOK, Pcs,
        StartPcs, StopPcs, StopAllPcs, LookPcs, TailPcs
<1> SUFFICES ASSUME TypeInv, [Next]_vars PROVE TypeInv'
    OBVIOUS
<1>1. ASSUME NEW p \in Procs, Begin(p) PROVE TypeInv'
  <2>1. ASSUME NEW s \in Serials, BeginStart(p, s) PROVE TypeInv'
    BY <2>1 DEF BeginStart
  <2>2. ASSUME NEW s \in Serials, BeginStop(p, s) PROVE TypeInv'
    BY <2>2 DEF BeginStop
  <2>3. ASSUME NEW S, BeginLook(p, S) PROVE TypeInv'
    BY <2>3 DEF BeginLook, Stale
  <2>4. CASE BeginStopAll(p)
    BY <2>4 DEF BeginStopAll
  <2> QED
    BY <1>1, <2>1, <2>2, <2>3, <2>4 DEF Begin
<1>2. ASSUME NEW p \in Procs, StartStep(p) PROVE TypeInv'
  <2>1. CASE LoadEpoch(p)
    BY <2>1 DEF LoadEpoch
  <2>2. CASE CloneStartLock(p)
    BY <2>2 DEF CloneStartLock, CloneLock
  <2>3. CASE Recheck(p)
    BY <2>3 DEF Recheck, StopAllOverlaps
  <2>4. CASE LookupNone(p)
    BY <2>4 DEF LookupNone
  <2>5. CASE LookupAlive(p)
    BY <2>5 DEF LookupAlive
  <2>6. CASE LookupDead(p)
    BY <2>6 DEF LookupDead
  <2>7. CASE PruneOld(p)
    BY <2>7 DEF PruneOld
  <2>8. CASE PruneOldGone(p)
    BY <2>8 DEF PruneOldGone
  <2>9. CASE CloseOld(p)
    BY <2>9 DEF CloseOld
  <2>10. ASSUME NEW x \in Sessions, ConnectOk(p, x) PROVE TypeInv'
    BY <2>10 DEF ConnectOk, Dropped
  <2>11. CASE ConnectError(p)
    BY <2>11 DEF ConnectError
  <2>12. ASSUME NEW x \in Sessions, Publish(p, x) PROVE TypeInv'
    BY <2>12 DEF Publish, StopAllOverlaps
  <2>13. CASE PublishRefused(p)
    BY <2>13 DEF PublishRefused
  <2> QED
    BY <1>2, <2>1, <2>2, <2>3, <2>4, <2>5, <2>6, <2>7, <2>8, <2>9, <2>10,
       <2>11, <2>12, <2>13 DEF StartStep
<1>3. ASSUME NEW p \in Procs, StopStep(p) PROVE TypeInv'
  <2>1. CASE CloneStopLock(p)
    BY <2>1 DEF CloneStopLock, CloneLock
  <2>2. CASE RemoveSession(p)
    BY <2>2 DEF RemoveSession
  <2>3. CASE NothingToStop(p)
    BY <2>3 DEF NothingToStop
  <2> QED
    BY <1>3, <2>1, <2>2, <2>3 DEF StopStep
<1>4. ASSUME NEW p \in Procs, TailStep(p) PROVE TypeInv'
  <2>1. CASE Shutdown(p)
    BY <2>1 DEF Shutdown
  <2>2. CASE ShutdownDone(p)
    BY <2>2 DEF ShutdownDone
  <2>3. CASE Unlock(p)
    BY <2>3 DEF Unlock
  <2>4. CASE PruneStartLock(p)
    BY <2>4 DEF PruneStartLock, PruneEntry, OnlyCallerRefers
  <2>5. CASE Return(p)
    BY <2>5 DEF Return
  <2> QED
    BY <1>4, <2>1, <2>2, <2>3, <2>4, <2>5 DEF TailStep
<1>5. ASSUME NEW p \in Procs, StopAllStep(p) PROVE TypeInv'
  <2>1. CASE BumpEpoch(p)
    BY <2>1 DEF BumpEpoch
  <2>2. CASE SetFlag(p)
    BY <2>2 DEF SetFlag
  <2>3. CASE Drain(p)
    BY <2>3 DEF Drain
  <2>4. ASSUME NEW x \in Sessions, KillOne(p, x) PROVE TypeInv'
    BY <2>4 DEF KillOne
  <2>5. CASE SnapshotLocks(p)
    BY <2>5 DEF SnapshotLocks
  <2>6. ASSUME NEW s \in Serials, PruneOne(p, s) PROVE TypeInv'
    BY <2>6 DEF PruneOne, PruneEntry, OnlyCallerRefers
  <2>7. CASE FinishStopAll(p)
    BY <2>7 DEF FinishStopAll
  <2>8. CASE UnlockGate(p)
    BY <2>8 DEF UnlockGate
  <2> QED
    BY <1>5, <2>1, <2>2, <2>3, <2>4, <2>5, <2>6, <2>7, <2>8 DEF StopAllStep
<1>6. ASSUME NEW p \in Procs, LookStep(p) PROVE TypeInv'
  <2>1. CASE LookPrune(p)
    BY <2>1 DEF LookPrune, InMap
  <2>2. CASE LookClose(p)
    BY <2>2 DEF LookClose
  <2> QED
    BY <1>6, <2>1, <2>2 DEF LookStep
<1>7. ASSUME NEW p \in Procs, Acquire(p) PROVE TypeInv'
  <2>1. CASE LockStart(p)
    BY <2>1 DEF LockStart, AcquireLock
  <2>2. CASE LockStop(p)
    BY <2>2 DEF LockStop, AcquireLock
  <2>3. CASE LockGate(p)
    BY <2>3 DEF LockGate
  <2> QED
    BY <1>7, <2>1, <2>2, <2>3 DEF Acquire
<1>8. ASSUME NEW p \in Procs, Cancel(p) PROVE TypeInv'
  <2>1. CASE CancelStartStop(p)
    BY <2>1 DEF CancelStartStop, StartStopAwaits, DropHand, InMap
  <2>2. CASE CancelStopAll(p)
    BY <2>2 DEF CancelStopAll, StopAllAwaits, DropHand, InMap
  <2>3. CASE CancelLook(p)
    BY <2>3 DEF CancelLook, LookAwaits, DropHand, InMap
  <2> QED
    BY <1>8, <2>1, <2>2, <2>3 DEF Cancel
<1>9. ASSUME Environment PROVE TypeInv'
  <2>1. ASSUME NEW x \in Sessions, Die(x) PROVE TypeInv'
    BY <2>1 DEF Die
  <2>2. ASSUME NEW x \in Sessions, Borrow(x) PROVE TypeInv'
    BY <2>2 DEF Borrow, InMap
  <2>3. ASSUME NEW x \in Sessions, GiveBack(x) PROVE TypeInv'
    BY <2>3 DEF GiveBack, Dropped
  <2> QED
    BY <1>9, <2>1, <2>2, <2>3 DEF Environment
<1>10. CASE UNCHANGED vars
  BY <1>10 DEF vars
<1> QED
  BY <1>1, <1>2, <1>3, <1>4, <1>5, <1>6, <1>7, <1>8, <1>9, <1>10 DEF Next, Run

-----------------------------------------------------------------------------
(* The start locks: start_session and stop_session of one serial exclude    *)
(* each other.                                                             *)

\* A call past the lookup of its lock has a clone of it.
RefPcs == CallPcs \ {"loadEpoch", "startLock", "stopLock"}
RefInv == \A p \in Procs : pc[p] \in RefPcs => ref[p][ser[p]] # None

\* A clone that may still be used is of the lock that is in the map: the entry
\* is pruned only when nobody else has a clone.  This is what keeps two calls
\* from waiting on two different locks of one serial.
CurrentRefs ==
    \A p \in Procs, s \in Serials :
        ref[p][s] # None /\ pc[p] # "return" => startLocks[s] = ref[p][s]

\* A call past the lock holds it.
HolderInv == \A p \in Procs : pc[p] \in LockedPcs => holder[ref[p][ser[p]]] = p

LockInv == RefInv /\ CurrentRefs /\ HolderInv

\* At the start there are no locks.
LEMMA LockInit == Init => LockInv
BY DEF Init, LockInv, RefInv, CurrentRefs, HolderInv, RefPcs, CallPcs,
   LockedPcs, StartPcs, StopPcs, TailPcs

\* Creating, cloning, taking, releasing and pruning a lock keep the discipline.
LEMMA LockStep == TypeInv /\ TypeInv' /\ LockInv /\ [Next]_vars => LockInv'
<1> USE ConstantsAssumption DEF LockInv, RefInv, CurrentRefs, HolderInv,
        RefPcs, LockedPcs, TypeInv, SerInv, CallPcs, TypeOK, Pcs, StartPcs,
        StopPcs, StopAllPcs, LookPcs, TailPcs
<1> SUFFICES ASSUME TypeInv /\ TypeInv' /\ LockInv, [Next]_vars PROVE LockInv'
    OBVIOUS
<1>1. ASSUME NEW p \in Procs, Begin(p) PROVE LockInv'
  <2>1. ASSUME NEW s \in Serials, BeginStart(p, s) PROVE LockInv'
    BY <2>1 DEF BeginStart
  <2>2. ASSUME NEW s \in Serials, BeginStop(p, s) PROVE LockInv'
    BY <2>2 DEF BeginStop
  <2>3. ASSUME NEW S, BeginLook(p, S) PROVE LockInv'
    BY <2>3 DEF BeginLook, Stale
  <2>4. CASE BeginStopAll(p)
    BY <2>4 DEF BeginStopAll
  <2> QED
    BY <1>1, <2>1, <2>2, <2>3, <2>4 DEF Begin
<1>2. ASSUME NEW p \in Procs, StartStep(p) PROVE LockInv'
  <2>1. CASE LoadEpoch(p)
    BY <2>1 DEF LoadEpoch
  <2>2. CASE CloneStartLock(p)
    BY <2>2 DEF CloneStartLock, CloneLock
  <2>3. CASE Recheck(p)
    BY <2>3 DEF Recheck, StopAllOverlaps
  <2>4. CASE LookupNone(p)
    BY <2>4 DEF LookupNone
  <2>5. CASE LookupAlive(p)
    BY <2>5 DEF LookupAlive
  <2>6. CASE LookupDead(p)
    BY <2>6 DEF LookupDead
  <2>7. CASE PruneOld(p)
    BY <2>7 DEF PruneOld
  <2>8. CASE PruneOldGone(p)
    BY <2>8 DEF PruneOldGone
  <2>9. CASE CloseOld(p)
    BY <2>9 DEF CloseOld
  <2>10. ASSUME NEW x \in Sessions, ConnectOk(p, x) PROVE LockInv'
    BY <2>10 DEF ConnectOk, Dropped
  <2>11. CASE ConnectError(p)
    BY <2>11 DEF ConnectError
  <2>12. ASSUME NEW x \in Sessions, Publish(p, x) PROVE LockInv'
    BY <2>12 DEF Publish, StopAllOverlaps
  <2>13. CASE PublishRefused(p)
    BY <2>13 DEF PublishRefused
  <2> QED
    BY <1>2, <2>1, <2>2, <2>3, <2>4, <2>5, <2>6, <2>7, <2>8, <2>9, <2>10,
       <2>11, <2>12, <2>13 DEF StartStep
<1>3. ASSUME NEW p \in Procs, StopStep(p) PROVE LockInv'
  <2>1. CASE CloneStopLock(p)
    BY <2>1 DEF CloneStopLock, CloneLock
  <2>2. CASE RemoveSession(p)
    BY <2>2 DEF RemoveSession
  <2>3. CASE NothingToStop(p)
    BY <2>3 DEF NothingToStop
  <2> QED
    BY <1>3, <2>1, <2>2, <2>3 DEF StopStep
<1>4. ASSUME NEW p \in Procs, TailStep(p) PROVE LockInv'
  <2>1. CASE Shutdown(p)
    BY <2>1 DEF Shutdown
  <2>2. CASE ShutdownDone(p)
    BY <2>2 DEF ShutdownDone
  <2>3. CASE Unlock(p)
    BY <2>3 DEF Unlock
  <2>4. CASE PruneStartLock(p)
    BY <2>4 DEF PruneStartLock, PruneEntry, OnlyCallerRefers
  <2>5. CASE Return(p)
    BY <2>5 DEF Return
  <2> QED
    BY <1>4, <2>1, <2>2, <2>3, <2>4, <2>5 DEF TailStep
<1>5. ASSUME NEW p \in Procs, StopAllStep(p) PROVE LockInv'
  <2>1. CASE BumpEpoch(p)
    BY <2>1 DEF BumpEpoch
  <2>2. CASE SetFlag(p)
    BY <2>2 DEF SetFlag
  <2>3. CASE Drain(p)
    BY <2>3 DEF Drain
  <2>4. ASSUME NEW x \in Sessions, KillOne(p, x) PROVE LockInv'
    BY <2>4 DEF KillOne
  <2>5. CASE SnapshotLocks(p)
    BY <2>5 DEF SnapshotLocks
  <2>6. ASSUME NEW s \in Serials, PruneOne(p, s) PROVE LockInv'
    BY <2>6 DEF PruneOne, PruneEntry, OnlyCallerRefers
  <2>7. CASE FinishStopAll(p)
    BY <2>7 DEF FinishStopAll
  <2>8. CASE UnlockGate(p)
    BY <2>8 DEF UnlockGate
  <2> QED
    BY <1>5, <2>1, <2>2, <2>3, <2>4, <2>5, <2>6, <2>7, <2>8 DEF StopAllStep
<1>6. ASSUME NEW p \in Procs, LookStep(p) PROVE LockInv'
  <2>1. CASE LookPrune(p)
    BY <2>1 DEF LookPrune, InMap
  <2>2. CASE LookClose(p)
    BY <2>2 DEF LookClose
  <2> QED
    BY <1>6, <2>1, <2>2 DEF LookStep
<1>7. ASSUME NEW p \in Procs, Acquire(p) PROVE LockInv'
  <2>1. CASE LockStart(p)
    BY <2>1 DEF LockStart, AcquireLock
  <2>2. CASE LockStop(p)
    BY <2>2 DEF LockStop, AcquireLock
  <2>3. CASE LockGate(p)
    BY <2>3 DEF LockGate
  <2> QED
    BY <1>7, <2>1, <2>2, <2>3 DEF Acquire
<1>8. ASSUME NEW p \in Procs, Cancel(p) PROVE LockInv'
  <2>1. CASE CancelStartStop(p)
    BY <2>1 DEF CancelStartStop, StartStopAwaits, DropHand, InMap
  <2>2. CASE CancelStopAll(p)
    BY <2>2 DEF CancelStopAll, StopAllAwaits, DropHand, InMap
  <2>3. CASE CancelLook(p)
    BY <2>3 DEF CancelLook, LookAwaits, DropHand, InMap
  <2> QED
    BY <1>8, <2>1, <2>2, <2>3 DEF Cancel
<1>9. ASSUME Environment PROVE LockInv'
  <2>1. ASSUME NEW x \in Sessions, Die(x) PROVE LockInv'
    BY <2>1 DEF Die
  <2>2. ASSUME NEW x \in Sessions, Borrow(x) PROVE LockInv'
    BY <2>2 DEF Borrow, InMap
  <2>3. ASSUME NEW x \in Sessions, GiveBack(x) PROVE LockInv'
    BY <2>3 DEF GiveBack, Dropped
  <2> QED
    BY <1>9, <2>1, <2>2, <2>3 DEF Environment
<1>10. CASE UNCHANGED vars
  BY <1>10 DEF vars
<1> QED
  BY <1>1, <1>2, <1>3, <1>4, <1>5, <1>6, <1>7, <1>8, <1>9, <1>10 DEF Next, Run

\* The discipline is enough: two calls past the lock of one serial would both be
\* the holder of the one lock in the map.
LEMMA LockExcludes == TypeInv /\ LockInv => StartStopExclusive
<1> SUFFICES ASSUME TypeInv, LockInv,
                    NEW p \in Procs, NEW q \in Procs,
                    pc[p] \in LockedPcs, pc[q] \in LockedPcs, ser[p] = ser[q]
             PROVE  p = q
    BY DEF StartStopExclusive
<1>1. ser[p] \in Serials /\ ref[p][ser[p]] # None /\ ref[q][ser[p]] # None
  BY DEF TypeInv, TypeOK, SerInv, LockInv, RefInv, LockedPcs, RefPcs, CallPcs,
         StartPcs, StopPcs, TailPcs
<1>2. ref[p][ser[p]] = ref[q][ser[p]]
  BY <1>1 DEF LockInv, CurrentRefs, LockedPcs
<1> QED
  BY <1>2 DEF LockInv, HolderInv

-----------------------------------------------------------------------------
(* stop_all_sessions.                                                      *)

\* The call inside the gate holds it, and the flag is up between its store and
\* the destructor of StopAllFlag.
GateInv ==
    \A p \in Procs :
        /\ pc[p] \in {"bump", "setFlag", "drain", "kill", "pruneAll", "openGate"}
              => stopAllGate = p
        /\ pc[p] \in {"drain", "kill", "pruneAll"} => stoppingAll

StopAllInv == GateInv /\ FlagHasOwner /\ StopAllKeepsMapEmpty

\* At the start nobody stops all sessions.
LEMMA StopAllInit == Init => StopAllInv
BY DEF Init, StopAllInv, GateInv, FlagHasOwner, StopAllKeepsMapEmpty

\* The gate, the flag and the emptied map survive every step, the publication of
\* a start that was connecting included.
LEMMA StopAllInvStep == TypeInv /\ TypeInv' /\ StopAllInv /\ [Next]_vars => StopAllInv'
<1> USE ConstantsAssumption DEF StopAllInv, GateInv, FlagHasOwner,
        StopAllKeepsMapEmpty, TypeInv, SerInv, CallPcs, TypeOK, Pcs, StartPcs,
        StopPcs, StopAllPcs, LookPcs, TailPcs
<1> SUFFICES ASSUME TypeInv /\ TypeInv' /\ StopAllInv, [Next]_vars PROVE StopAllInv'
    OBVIOUS
<1>1. ASSUME NEW p \in Procs, Begin(p) PROVE StopAllInv'
  BY <1>1 DEF Begin, BeginStart, BeginStop, BeginLook, Stale, BeginStopAll
<1>2. ASSUME NEW p \in Procs, StartStep(p) PROVE StopAllInv'
  BY <1>2 DEF StartStep, LoadEpoch, CloneStartLock, CloneLock, Recheck,
     StopAllOverlaps, LookupNone, LookupAlive, LookupDead, PruneOld,
     PruneOldGone, CloseOld, ConnectOk, Dropped, ConnectError, Publish,
     PublishRefused
<1>3. ASSUME NEW p \in Procs, StopStep(p) PROVE StopAllInv'
  BY <1>3 DEF StopStep, CloneStopLock, CloneLock, RemoveSession, NothingToStop
<1>4. ASSUME NEW p \in Procs, TailStep(p) PROVE StopAllInv'
  BY <1>4 DEF TailStep, Shutdown, ShutdownDone, Unlock, PruneStartLock,
     PruneEntry, OnlyCallerRefers, Return
<1>5. ASSUME NEW p \in Procs, StopAllStep(p) PROVE StopAllInv'
  BY <1>5 DEF StopAllStep, BumpEpoch, SetFlag, Drain, KillOne, SnapshotLocks,
     PruneOne, PruneEntry, OnlyCallerRefers, FinishStopAll, UnlockGate
<1>6. ASSUME NEW p \in Procs, LookStep(p) PROVE StopAllInv'
  BY <1>6 DEF LookStep, LookPrune, InMap, LookClose
<1>7. ASSUME NEW p \in Procs, Acquire(p) PROVE StopAllInv'
  BY <1>7 DEF Acquire, LockStart, AcquireLock, LockStop, LockGate
<1>8. ASSUME NEW p \in Procs, Cancel(p) PROVE StopAllInv'
  BY <1>8 DEF Cancel, CancelStartStop, StartStopAwaits, DropHand, InMap,
     CancelStopAll, StopAllAwaits, CancelLook, LookAwaits
<1>9. ASSUME Environment PROVE StopAllInv'
  BY <1>9 DEF Environment, Die, Borrow, InMap, GiveBack, Dropped
<1>10. CASE UNCHANGED vars
  BY <1>10 DEF vars
<1> QED
  BY <1>1, <1>2, <1>3, <1>4, <1>5, <1>6, <1>7, <1>8, <1>9, <1>10 DEF Next, Run

-----------------------------------------------------------------------------
(* The epoch.                                                              *)

\* A start overtaken by a bump has an older epoch than the current one, for ever.
EpochInv ==
    \A p \in Procs :
        /\ myEpoch[p] <= startEpoch
        /\ "bump" \in overtaken[p] => myEpoch[p] < startEpoch
        /\ pc[p] \notin (StartPcs \ {"loadEpoch"}) \cup TailPcs => overtaken[p] = {}

\* At the start no call has been overtaken.
LEMMA EpochInit == Init => EpochInv
BY DEF Init, EpochInv, StartPcs, TailPcs

\* The epoch only grows, and a call reads it before it can be overtaken.
LEMMA EpochStep == TypeInv /\ TypeInv' /\ EpochInv /\ [Next]_vars => EpochInv'
<1> USE ConstantsAssumption DEF EpochInv, TypeInv, SerInv, CallPcs, TypeOK,
        Pcs, StartPcs, StopPcs, StopAllPcs, LookPcs, TailPcs
<1> SUFFICES ASSUME TypeInv /\ TypeInv' /\ EpochInv, [Next]_vars PROVE EpochInv'
    OBVIOUS
<1>1. ASSUME NEW p \in Procs, Begin(p) PROVE EpochInv'
  <2>1. ASSUME NEW s \in Serials, BeginStart(p, s) PROVE EpochInv'
    BY <2>1 DEF BeginStart
  <2>2. ASSUME NEW s \in Serials, BeginStop(p, s) PROVE EpochInv'
    BY <2>2 DEF BeginStop
  <2>3. ASSUME NEW S, BeginLook(p, S) PROVE EpochInv'
    BY <2>3 DEF BeginLook, Stale
  <2>4. CASE BeginStopAll(p)
    BY <2>4 DEF BeginStopAll
  <2> QED
    BY <1>1, <2>1, <2>2, <2>3, <2>4 DEF Begin
<1>2. ASSUME NEW p \in Procs, StartStep(p) PROVE EpochInv'
  BY <1>2 DEF StartStep, LoadEpoch, CloneStartLock, CloneLock, Recheck,
     StopAllOverlaps, LookupNone, LookupAlive, LookupDead, PruneOld,
     PruneOldGone, CloseOld, ConnectOk, Dropped, ConnectError, Publish,
     PublishRefused
<1>3. ASSUME NEW p \in Procs, StopStep(p) PROVE EpochInv'
  <2>1. CASE CloneStopLock(p)
    BY <2>1 DEF CloneStopLock, CloneLock
  <2>2. CASE RemoveSession(p)
    BY <2>2 DEF RemoveSession
  <2>3. CASE NothingToStop(p)
    BY <2>3 DEF NothingToStop
  <2> QED
    BY <1>3, <2>1, <2>2, <2>3 DEF StopStep
<1>4. ASSUME NEW p \in Procs, TailStep(p) PROVE EpochInv'
  <2>1. CASE Shutdown(p)
    BY <2>1 DEF Shutdown
  <2>2. CASE ShutdownDone(p)
    BY <2>2 DEF ShutdownDone
  <2>3. CASE Unlock(p)
    BY <2>3 DEF Unlock
  <2>4. CASE PruneStartLock(p)
    BY <2>4 DEF PruneStartLock, PruneEntry, OnlyCallerRefers
  <2>5. CASE Return(p)
    BY <2>5 DEF Return
  <2> QED
    BY <1>4, <2>1, <2>2, <2>3, <2>4, <2>5 DEF TailStep
<1>5. ASSUME NEW p \in Procs, StopAllStep(p) PROVE EpochInv'
  BY <1>5 DEF StopAllStep, BumpEpoch, SetFlag, Drain, KillOne, SnapshotLocks,
     PruneOne, PruneEntry, OnlyCallerRefers, FinishStopAll, UnlockGate
<1>6. ASSUME NEW p \in Procs, LookStep(p) PROVE EpochInv'
  BY <1>6 DEF LookStep, LookPrune, InMap, LookClose
<1>7. ASSUME NEW p \in Procs, Acquire(p) PROVE EpochInv'
  <2>1. CASE LockStart(p)
    BY <2>1 DEF LockStart, AcquireLock
  <2>2. CASE LockStop(p)
    BY <2>2 DEF LockStop, AcquireLock
  <2>3. CASE LockGate(p)
    BY <2>3 DEF LockGate
  <2> QED
    BY <1>7, <2>1, <2>2, <2>3 DEF Acquire
<1>8. ASSUME NEW p \in Procs, Cancel(p) PROVE EpochInv'
  <2>1. CASE CancelStartStop(p)
    BY <2>1 DEF CancelStartStop, StartStopAwaits, DropHand, InMap
  <2>2. CASE CancelStopAll(p)
    BY <2>2 DEF CancelStopAll, StopAllAwaits, DropHand, InMap
  <2>3. CASE CancelLook(p)
    BY <2>3 DEF CancelLook, LookAwaits, DropHand, InMap
  <2> QED
    BY <1>8, <2>1, <2>2, <2>3 DEF Cancel
<1>9. ASSUME Environment PROVE EpochInv'
  BY <1>9 DEF Environment, Die, Borrow, InMap, GiveBack, Dropped
<1>10. CASE UNCHANGED vars
  BY <1>10 DEF vars
<1> QED
  BY <1>1, <1>2, <1>3, <1>4, <1>5, <1>6, <1>7, <1>8, <1>9, <1>10 DEF Next, Run

\* A step that publishes is Publish, which has compared the epochs.
LEMMA PublishIsFenced ==
    TypeInv /\ EpochInv /\ [Next]_vars
        => \A p \in Procs : "bump" \in overtaken[p] => ~Publishes(p)
<1> DEFINE Fenced == \A p \in Procs : "bump" \in overtaken[p] => ~Publishes(p)
<1> USE ConstantsAssumption DEF EpochInv, Publishes, TypeInv, SerInv, CallPcs,
        TypeOK, Pcs, StartPcs, StopPcs, StopAllPcs, LookPcs, TailPcs
<1> SUFFICES ASSUME TypeInv /\ EpochInv, [Next]_vars PROVE Fenced
    OBVIOUS
<1>1. ASSUME NEW p \in Procs, Begin(p) PROVE Fenced
  BY <1>1 DEF Begin, BeginStart, BeginStop, BeginLook, Stale, BeginStopAll
<1>2. ASSUME NEW p \in Procs, StartStep(p) PROVE Fenced
  BY <1>2 DEF StartStep, LoadEpoch, CloneStartLock, CloneLock, Recheck,
     StopAllOverlaps, LookupNone, LookupAlive, LookupDead, PruneOld,
     PruneOldGone, CloseOld, ConnectOk, Dropped, ConnectError, Publish,
     PublishRefused
<1>3. ASSUME NEW p \in Procs, StopStep(p) PROVE Fenced
  BY <1>3 DEF StopStep, CloneStopLock, CloneLock, RemoveSession, NothingToStop
<1>4. ASSUME NEW p \in Procs, TailStep(p) PROVE Fenced
  BY <1>4 DEF TailStep, Shutdown, ShutdownDone, Unlock, PruneStartLock,
     PruneEntry, OnlyCallerRefers, Return
<1>5. ASSUME NEW p \in Procs, StopAllStep(p) PROVE Fenced
  BY <1>5 DEF StopAllStep, BumpEpoch, SetFlag, Drain, KillOne, SnapshotLocks,
     PruneOne, PruneEntry, OnlyCallerRefers, FinishStopAll, UnlockGate
<1>6. ASSUME NEW p \in Procs, LookStep(p) PROVE Fenced
  BY <1>6 DEF LookStep, LookPrune, InMap, LookClose
<1>7. ASSUME NEW p \in Procs, Acquire(p) PROVE Fenced
  BY <1>7 DEF Acquire, LockStart, AcquireLock, LockStop, LockGate
<1>8. ASSUME NEW p \in Procs, Cancel(p) PROVE Fenced
  BY <1>8 DEF Cancel, CancelStartStop, StartStopAwaits, DropHand, InMap,
     CancelStopAll, StopAllAwaits, CancelLook, LookAwaits
<1>9. ASSUME Environment PROVE Fenced
  BY <1>9 DEF Environment, Die, Borrow, InMap, GiveBack, Dropped
<1>10. CASE UNCHANGED vars
  BY <1>10 DEF vars
<1> QED
  BY <1>1, <1>2, <1>3, <1>4, <1>5, <1>6, <1>7, <1>8, <1>9, <1>10 DEF Next, Run

-----------------------------------------------------------------------------
(* The sessions a call has in its hands, and the slot of its serial.       *)

\* Only these points of a call have sessions in local variables; a start that is
\* about to publish has exactly one; what is being closed is dead.
HandPcs == {"pruneOld", "closeOld", "publish", "discard", "shutdown", "closing",
            "kill", "lookPrune", "lookClose"}
HandInv ==
    \A p \in Procs :
        /\ pc[p] \notin HandPcs => hand[p] = {}
        /\ pc[p] = "publish" => \E x \in Sessions : hand[p] = {x}
        /\ pc[p] \in {"pruneOld", "closeOld", "closing", "lookPrune", "lookClose"}
              => hand[p] \cap alive = {}

\* While a start holds the lock and connects, its serial has no session in the map.
SlotInv ==
    \A p \in Procs :
        /\ pc[p] \in {"connect", "publish", "closeOld"} => sessions[ser[p]] = None
        /\ pc[p] = "pruneOld" => sessions[ser[p]] \in hand[p] \cup {None}

\* At the start every hand is empty.
LEMMA HandInit == Init => HandInv /\ SlotInv
BY DEF Init, HandInv, HandPcs, SlotInv

\* What a hand may hold is kept by every step.
LEMMA HandStep == TypeInv /\ TypeInv' /\ HandInv /\ [Next]_vars => HandInv'
<1> USE ConstantsAssumption DEF HandInv, HandPcs, TypeInv, SerInv, CallPcs,
        TypeOK, Pcs, StartPcs, StopPcs, StopAllPcs, LookPcs, TailPcs
<1> SUFFICES ASSUME TypeInv /\ TypeInv' /\ HandInv, [Next]_vars PROVE HandInv'
    OBVIOUS
<1>1. ASSUME NEW p \in Procs, Begin(p) PROVE HandInv'
  <2>1. ASSUME NEW s \in Serials, BeginStart(p, s) PROVE HandInv'
    BY <2>1 DEF BeginStart
  <2>2. ASSUME NEW s \in Serials, BeginStop(p, s) PROVE HandInv'
    BY <2>2 DEF BeginStop
  <2>3. ASSUME NEW S, BeginLook(p, S) PROVE HandInv'
    BY <2>3 DEF BeginLook, Stale
  <2>4. CASE BeginStopAll(p)
    BY <2>4 DEF BeginStopAll
  <2> QED
    BY <1>1, <2>1, <2>2, <2>3, <2>4 DEF Begin
<1>2. ASSUME NEW p \in Procs, StartStep(p) PROVE HandInv'
  <2>1. CASE LoadEpoch(p)
    BY <2>1 DEF LoadEpoch
  <2>2. CASE CloneStartLock(p)
    BY <2>2 DEF CloneStartLock, CloneLock
  <2>3. CASE Recheck(p)
    BY <2>3 DEF Recheck, StopAllOverlaps
  <2>4. CASE LookupNone(p)
    BY <2>4 DEF LookupNone
  <2>5. CASE LookupAlive(p)
    BY <2>5 DEF LookupAlive
  <2>6. CASE LookupDead(p)
    BY <2>6 DEF LookupDead
  <2>7. CASE PruneOld(p)
    BY <2>7 DEF PruneOld
  <2>8. CASE PruneOldGone(p)
    BY <2>8 DEF PruneOldGone
  <2>9. CASE CloseOld(p)
    BY <2>9 DEF CloseOld
  <2>10. ASSUME NEW x \in Sessions, ConnectOk(p, x) PROVE HandInv'
    BY <2>10 DEF ConnectOk, Dropped
  <2>11. CASE ConnectError(p)
    BY <2>11 DEF ConnectError
  <2>12. ASSUME NEW x \in Sessions, Publish(p, x) PROVE HandInv'
    BY <2>12 DEF Publish, StopAllOverlaps
  <2>13. CASE PublishRefused(p)
    BY <2>13 DEF PublishRefused
  <2> QED
    BY <1>2, <2>1, <2>2, <2>3, <2>4, <2>5, <2>6, <2>7, <2>8, <2>9, <2>10,
       <2>11, <2>12, <2>13 DEF StartStep
<1>3. ASSUME NEW p \in Procs, StopStep(p) PROVE HandInv'
  <2>1. CASE CloneStopLock(p)
    BY <2>1 DEF CloneStopLock, CloneLock
  <2>2. CASE RemoveSession(p)
    BY <2>2 DEF RemoveSession
  <2>3. CASE NothingToStop(p)
    BY <2>3 DEF NothingToStop
  <2> QED
    BY <1>3, <2>1, <2>2, <2>3 DEF StopStep
<1>4. ASSUME NEW p \in Procs, TailStep(p) PROVE HandInv'
  <2>1. CASE Shutdown(p)
    BY <2>1 DEF Shutdown
  <2>2. CASE ShutdownDone(p)
    BY <2>2 DEF ShutdownDone
  <2>3. CASE Unlock(p)
    BY <2>3 DEF Unlock
  <2>4. CASE PruneStartLock(p)
    BY <2>4 DEF PruneStartLock, PruneEntry, OnlyCallerRefers
  <2>5. CASE Return(p)
    BY <2>5 DEF Return
  <2> QED
    BY <1>4, <2>1, <2>2, <2>3, <2>4, <2>5 DEF TailStep
<1>5. ASSUME NEW p \in Procs, StopAllStep(p) PROVE HandInv'
  <2>1. CASE BumpEpoch(p)
    BY <2>1 DEF BumpEpoch
  <2>2. CASE SetFlag(p)
    BY <2>2 DEF SetFlag
  <2>3. CASE Drain(p)
    BY <2>3 DEF Drain
  <2>4. ASSUME NEW x \in Sessions, KillOne(p, x) PROVE HandInv'
    BY <2>4 DEF KillOne
  <2>5. CASE SnapshotLocks(p)
    BY <2>5 DEF SnapshotLocks
  <2>6. ASSUME NEW s \in Serials, PruneOne(p, s) PROVE HandInv'
    BY <2>6 DEF PruneOne, PruneEntry, OnlyCallerRefers
  <2>7. CASE FinishStopAll(p)
    BY <2>7 DEF FinishStopAll
  <2>8. CASE UnlockGate(p)
    BY <2>8 DEF UnlockGate
  <2> QED
    BY <1>5, <2>1, <2>2, <2>3, <2>4, <2>5, <2>6, <2>7, <2>8 DEF StopAllStep
<1>6. ASSUME NEW p \in Procs, LookStep(p) PROVE HandInv'
  <2>1. CASE LookPrune(p)
    BY <2>1 DEF LookPrune, InMap
  <2>2. CASE LookClose(p)
    BY <2>2 DEF LookClose
  <2> QED
    BY <1>6, <2>1, <2>2 DEF LookStep
<1>7. ASSUME NEW p \in Procs, Acquire(p) PROVE HandInv'
  <2>1. CASE LockStart(p)
    BY <2>1 DEF LockStart, AcquireLock
  <2>2. CASE LockStop(p)
    BY <2>2 DEF LockStop, AcquireLock
  <2>3. CASE LockGate(p)
    BY <2>3 DEF LockGate
  <2> QED
    BY <1>7, <2>1, <2>2, <2>3 DEF Acquire
<1>8. ASSUME NEW p \in Procs, Cancel(p) PROVE HandInv'
  <2>1. CASE CancelStartStop(p)
    BY <2>1 DEF CancelStartStop, StartStopAwaits, DropHand, InMap
  <2>2. CASE CancelStopAll(p)
    BY <2>2 DEF CancelStopAll, StopAllAwaits, DropHand, InMap
  <2>3. CASE CancelLook(p)
    BY <2>3 DEF CancelLook, LookAwaits, DropHand, InMap
  <2> QED
    BY <1>8, <2>1, <2>2, <2>3 DEF Cancel
<1>9. ASSUME Environment PROVE HandInv'
  <2>1. ASSUME NEW x \in Sessions, Die(x) PROVE HandInv'
    BY <2>1 DEF Die
  <2>2. ASSUME NEW x \in Sessions, Borrow(x) PROVE HandInv'
    BY <2>2 DEF Borrow, InMap
  <2>3. ASSUME NEW x \in Sessions, GiveBack(x) PROVE HandInv'
    BY <2>3 DEF GiveBack, Dropped
  <2> QED
    BY <1>9, <2>1, <2>2, <2>3 DEF Environment
<1>10. CASE UNCHANGED vars
  BY <1>10 DEF vars
<1> QED
  BY <1>1, <1>2, <1>3, <1>4, <1>5, <1>6, <1>7, <1>8, <1>9, <1>10 DEF Next, Run

\* Only another start of the same serial could fill the slot, and the lock keeps it
\* out.
LEMMA SlotStep == TypeInv /\ TypeInv' /\ LockInv /\ StartStopExclusive /\ HandInv /\ SlotInv /\ [Next]_vars => SlotInv'
<1> USE ConstantsAssumption DEF SlotInv, HandInv, HandPcs, StartStopExclusive,
        LockedPcs, TypeInv, SerInv, CallPcs, TypeOK, Pcs, StartPcs, StopPcs,
        StopAllPcs, LookPcs, TailPcs
<1> SUFFICES ASSUME TypeInv /\ TypeInv' /\ LockInv /\ StartStopExclusive /\ HandInv /\ SlotInv, [Next]_vars PROVE SlotInv'
    OBVIOUS
<1>1. ASSUME NEW p \in Procs, Begin(p) PROVE SlotInv'
  BY <1>1 DEF Begin, BeginStart, BeginStop, BeginLook, Stale, BeginStopAll
<1>2. ASSUME NEW p \in Procs, StartStep(p) PROVE SlotInv'
  BY <1>2 DEF StartStep, LoadEpoch, CloneStartLock, CloneLock, Recheck,
     StopAllOverlaps, LookupNone, LookupAlive, LookupDead, PruneOld,
     PruneOldGone, CloseOld, ConnectOk, Dropped, ConnectError, Publish,
     PublishRefused
<1>3. ASSUME NEW p \in Procs, StopStep(p) PROVE SlotInv'
  BY <1>3 DEF StopStep, CloneStopLock, CloneLock, RemoveSession, NothingToStop
<1>4. ASSUME NEW p \in Procs, TailStep(p) PROVE SlotInv'
  BY <1>4 DEF TailStep, Shutdown, ShutdownDone, Unlock, PruneStartLock,
     PruneEntry, OnlyCallerRefers, Return
<1>5. ASSUME NEW p \in Procs, StopAllStep(p) PROVE SlotInv'
  BY <1>5 DEF StopAllStep, BumpEpoch, SetFlag, Drain, KillOne, SnapshotLocks,
     PruneOne, PruneEntry, OnlyCallerRefers, FinishStopAll, UnlockGate
<1>6. ASSUME NEW p \in Procs, LookStep(p) PROVE SlotInv'
  BY <1>6 DEF LookStep, LookPrune, InMap, LookClose
<1>7. ASSUME NEW p \in Procs, Acquire(p) PROVE SlotInv'
  BY <1>7 DEF Acquire, LockStart, AcquireLock, LockStop, LockGate
<1>8. ASSUME NEW p \in Procs, Cancel(p) PROVE SlotInv'
  BY <1>8 DEF Cancel, CancelStartStop, StartStopAwaits, DropHand, InMap,
     CancelStopAll, StopAllAwaits, CancelLook, LookAwaits
<1>9. ASSUME Environment PROVE SlotInv'
  BY <1>9 DEF Environment, Die, Borrow, InMap, GiveBack, Dropped
<1>10. CASE UNCHANGED vars
  BY <1>10 DEF vars
<1> QED
  BY <1>1, <1>2, <1>3, <1>4, <1>5, <1>6, <1>7, <1>8, <1>9, <1>10 DEF Next, Run

\* An insertion is Publish, which finds the slot empty.
LEMMA InsertionIsFresh ==
    TypeInv /\ SlotInv /\ [Next]_vars
        => \A s \in Serials :
              sessions[s] # None /\ sessions'[s] # sessions[s] => sessions'[s] = None
<1> DEFINE Fresh == \A s \in Serials :
              sessions[s] # None /\ sessions'[s] # sessions[s] => sessions'[s] = None
<1> USE ConstantsAssumption DEF SlotInv, TypeInv, SerInv, CallPcs, TypeOK,
        Pcs, StartPcs, StopPcs, StopAllPcs, LookPcs, TailPcs
<1> SUFFICES ASSUME TypeInv /\ SlotInv, [Next]_vars PROVE Fresh
    OBVIOUS
<1>1. ASSUME NEW p \in Procs, Begin(p) PROVE Fresh
  BY <1>1 DEF Begin, BeginStart, BeginStop, BeginLook, Stale, BeginStopAll
<1>2. ASSUME NEW p \in Procs, StartStep(p) PROVE Fresh
  BY <1>2 DEF StartStep, LoadEpoch, CloneStartLock, CloneLock, Recheck,
     StopAllOverlaps, LookupNone, LookupAlive, LookupDead, PruneOld,
     PruneOldGone, CloseOld, ConnectOk, Dropped, ConnectError, Publish,
     PublishRefused
<1>3. ASSUME NEW p \in Procs, StopStep(p) PROVE Fresh
  BY <1>3 DEF StopStep, CloneStopLock, CloneLock, RemoveSession, NothingToStop
<1>4. ASSUME NEW p \in Procs, TailStep(p) PROVE Fresh
  BY <1>4 DEF TailStep, Shutdown, ShutdownDone, Unlock, PruneStartLock,
     PruneEntry, OnlyCallerRefers, Return
<1>5. ASSUME NEW p \in Procs, StopAllStep(p) PROVE Fresh
  BY <1>5 DEF StopAllStep, BumpEpoch, SetFlag, Drain, KillOne, SnapshotLocks,
     PruneOne, PruneEntry, OnlyCallerRefers, FinishStopAll, UnlockGate
<1>6. ASSUME NEW p \in Procs, LookStep(p) PROVE Fresh
  BY <1>6 DEF LookStep, LookPrune, InMap, LookClose
<1>7. ASSUME NEW p \in Procs, Acquire(p) PROVE Fresh
  BY <1>7 DEF Acquire, LockStart, AcquireLock, LockStop, LockGate
<1>8. ASSUME NEW p \in Procs, Cancel(p) PROVE Fresh
  BY <1>8 DEF Cancel, CancelStartStop, StartStopAwaits, DropHand, InMap,
     CancelStopAll, StopAllAwaits, CancelLook, LookAwaits
<1>9. ASSUME Environment PROVE Fresh
  BY <1>9 DEF Environment, Die, Borrow, InMap, GiveBack, Dropped
<1>10. CASE UNCHANGED vars
  BY <1>10 DEF vars
<1> QED
  BY <1>1, <1>2, <1>3, <1>4, <1>5, <1>6, <1>7, <1>8, <1>9, <1>10 DEF Next, Run

-----------------------------------------------------------------------------
(* No live session is lost.                                                *)

\* At the start no session is alive.
LEMMA ReachInit == Init => LiveIsReachable
BY DEF Init, LiveIsReachable

\* The step that removes a live session from the map or from a hand leaves it in
\* another place, or in use, or dead.
LEMMA ReachStep == TypeInv /\ TypeInv' /\ HandInv /\ SlotInv /\ LiveIsReachable /\ [Next]_vars => LiveIsReachable'
<1> USE ConstantsAssumption DEF LiveIsReachable, Dropped, SlotInv, HandInv,
        HandPcs, TypeInv, SerInv, CallPcs, TypeOK, Pcs, StartPcs, StopPcs,
        StopAllPcs, LookPcs, TailPcs
<1> SUFFICES ASSUME TypeInv /\ TypeInv' /\ HandInv /\ SlotInv /\ LiveIsReachable, [Next]_vars PROVE LiveIsReachable'
    OBVIOUS
<1>1. ASSUME NEW p \in Procs, Begin(p) PROVE LiveIsReachable'
  <2>1. ASSUME NEW s \in Serials, BeginStart(p, s) PROVE LiveIsReachable'
    BY <2>1 DEF BeginStart
  <2>2. ASSUME NEW s \in Serials, BeginStop(p, s) PROVE LiveIsReachable'
    BY <2>2 DEF BeginStop
  <2>3. ASSUME NEW S, BeginLook(p, S) PROVE LiveIsReachable'
    BY <2>3 DEF BeginLook, Stale
  <2>4. CASE BeginStopAll(p)
    BY <2>4 DEF BeginStopAll
  <2> QED
    BY <1>1, <2>1, <2>2, <2>3, <2>4 DEF Begin
<1>2. ASSUME NEW p \in Procs, StartStep(p) PROVE LiveIsReachable'
  <2>1. CASE LoadEpoch(p)
    BY <2>1 DEF LoadEpoch
  <2>2. CASE CloneStartLock(p)
    BY <2>2 DEF CloneStartLock, CloneLock
  <2>3. CASE Recheck(p)
    BY <2>3 DEF Recheck, StopAllOverlaps
  <2>4. CASE LookupNone(p)
    BY <2>4 DEF LookupNone
  <2>5. CASE LookupAlive(p)
    BY <2>5 DEF LookupAlive
  <2>6. CASE LookupDead(p)
    BY <2>6 DEF LookupDead
  <2>7. CASE PruneOld(p)
    BY <2>7 DEF PruneOld
  <2>8. CASE PruneOldGone(p)
    BY <2>8 DEF PruneOldGone
  <2>9. CASE CloseOld(p)
    BY <2>9 DEF CloseOld
  <2>10. ASSUME NEW x \in Sessions, ConnectOk(p, x) PROVE LiveIsReachable'
    BY <2>10 DEF ConnectOk, Dropped
  <2>11. CASE ConnectError(p)
    BY <2>11 DEF ConnectError
  <2>12. ASSUME NEW x \in Sessions, Publish(p, x) PROVE LiveIsReachable'
    BY <2>12 DEF Publish, StopAllOverlaps
  <2>13. CASE PublishRefused(p)
    BY <2>13 DEF PublishRefused
  <2> QED
    BY <1>2, <2>1, <2>2, <2>3, <2>4, <2>5, <2>6, <2>7, <2>8, <2>9, <2>10,
       <2>11, <2>12, <2>13 DEF StartStep
<1>3. ASSUME NEW p \in Procs, StopStep(p) PROVE LiveIsReachable'
  <2>1. CASE CloneStopLock(p)
    BY <2>1 DEF CloneStopLock, CloneLock
  <2>2. CASE RemoveSession(p)
    BY <2>2 DEF RemoveSession
  <2>3. CASE NothingToStop(p)
    BY <2>3 DEF NothingToStop
  <2> QED
    BY <1>3, <2>1, <2>2, <2>3 DEF StopStep
<1>4. ASSUME NEW p \in Procs, TailStep(p) PROVE LiveIsReachable'
  <2>1. CASE Shutdown(p)
    BY <2>1 DEF Shutdown
  <2>2. CASE ShutdownDone(p)
    BY <2>2 DEF ShutdownDone
  <2>3. CASE Unlock(p)
    BY <2>3 DEF Unlock
  <2>4. CASE PruneStartLock(p)
    BY <2>4 DEF PruneStartLock, PruneEntry, OnlyCallerRefers
  <2>5. CASE Return(p)
    BY <2>5 DEF Return
  <2> QED
    BY <1>4, <2>1, <2>2, <2>3, <2>4, <2>5 DEF TailStep
<1>5. ASSUME NEW p \in Procs, StopAllStep(p) PROVE LiveIsReachable'
  <2>1. CASE BumpEpoch(p)
    BY <2>1 DEF BumpEpoch
  <2>2. CASE SetFlag(p)
    BY <2>2 DEF SetFlag
  <2>3. CASE Drain(p)
    <3>1. hand[p] = {}
      BY <2>3 DEF Drain
    <3>2. ASSUME NEW x \in alive, NEW s \in Serials, sessions[s] = x
          PROVE  x \in hand'[p]
      BY <2>3, <3>2 DEF Drain
    <3>3. ASSUME NEW x \in alive, NEW q \in Procs, x \in hand[q]
          PROVE  x \in hand'[q]
      BY <2>3, <3>1, <3>3 DEF Drain
    <3>4. alive' = alive /\ borrowed' = borrowed
      BY <2>3 DEF Drain
    <3> QED
      BY <3>2, <3>3, <3>4
  <2>4. ASSUME NEW x \in Sessions, KillOne(p, x) PROVE LiveIsReachable'
    BY <2>4 DEF KillOne
  <2>5. CASE SnapshotLocks(p)
    BY <2>5 DEF SnapshotLocks
  <2>6. ASSUME NEW s \in Serials, PruneOne(p, s) PROVE LiveIsReachable'
    BY <2>6 DEF PruneOne, PruneEntry, OnlyCallerRefers
  <2>7. CASE FinishStopAll(p)
    BY <2>7 DEF FinishStopAll
  <2>8. CASE UnlockGate(p)
    BY <2>8 DEF UnlockGate
  <2> QED
    BY <1>5, <2>1, <2>2, <2>3, <2>4, <2>5, <2>6, <2>7, <2>8 DEF StopAllStep
<1>6. ASSUME NEW p \in Procs, LookStep(p) PROVE LiveIsReachable'
  <2>1. CASE LookPrune(p)
    BY <2>1 DEF LookPrune, InMap
  <2>2. CASE LookClose(p)
    BY <2>2 DEF LookClose
  <2> QED
    BY <1>6, <2>1, <2>2 DEF LookStep
<1>7. ASSUME NEW p \in Procs, Acquire(p) PROVE LiveIsReachable'
  <2>1. CASE LockStart(p)
    BY <2>1 DEF LockStart, AcquireLock
  <2>2. CASE LockStop(p)
    BY <2>2 DEF LockStop, AcquireLock
  <2>3. CASE LockGate(p)
    BY <2>3 DEF LockGate
  <2> QED
    BY <1>7, <2>1, <2>2, <2>3 DEF Acquire
<1>8. ASSUME NEW p \in Procs, Cancel(p) PROVE LiveIsReachable'
  <2>1. CASE CancelStartStop(p)
    BY <2>1 DEF CancelStartStop, StartStopAwaits, DropHand, InMap
  <2>2. CASE CancelStopAll(p)
    BY <2>2 DEF CancelStopAll, StopAllAwaits, DropHand, InMap
  <2>3. CASE CancelLook(p)
    BY <2>3 DEF CancelLook, LookAwaits, DropHand, InMap
  <2> QED
    BY <1>8, <2>1, <2>2, <2>3 DEF Cancel
<1>9. ASSUME Environment PROVE LiveIsReachable'
  <2>1. ASSUME NEW x \in Sessions, Die(x) PROVE LiveIsReachable'
    BY <2>1 DEF Die
  <2>2. ASSUME NEW x \in Sessions, Borrow(x) PROVE LiveIsReachable'
    BY <2>2 DEF Borrow, InMap
  <2>3. ASSUME NEW x \in Sessions, GiveBack(x) PROVE LiveIsReachable'
    BY <2>3 DEF GiveBack, Dropped
  <2> QED
    BY <1>9, <2>1, <2>2, <2>3 DEF Environment
<1>10. CASE UNCHANGED vars
  BY <1>10 DEF vars
<1> QED
  BY <1>1, <1>2, <1>3, <1>4, <1>5, <1>6, <1>7, <1>8, <1>9, <1>10 DEF Next, Run

-----------------------------------------------------------------------------
(* Whose a session is.                                                     *)

\* The map has a session once.  What is about to be published is in one hand only,
\* and what has been taken out to be shut down is not in the map.
OwnInv ==
    /\ \A s, t \in Serials : sessions[s] # None /\ sessions[s] = sessions[t] => s = t
    /\ \A p \in Procs :
          /\ pc[p] = "publish" => \A q \in Procs \ {p} : hand[p] \cap hand[q] = {}
          /\ pc[p] \in {"publish", "discard", "shutdown", "kill"}
                => \A x \in hand[p] : ~InMap(x)

\* At the start there are no sessions.
LEMMA OwnInit == Init => OwnInv
BY DEF Init, OwnInv

\* Sessions only move from a hand into the map when they are published, and from
\* the map into hands.
LEMMA OwnStep == TypeInv /\ TypeInv' /\ HandInv /\ OwnInv /\ [Next]_vars => OwnInv'
<1> USE ConstantsAssumption DEF OwnInv, InMap, Dropped, HandInv,
        HandPcs, TypeInv, SerInv, CallPcs, TypeOK, Pcs, StartPcs, StopPcs,
        StopAllPcs, LookPcs, TailPcs
<1> SUFFICES ASSUME TypeInv /\ TypeInv' /\ HandInv /\ OwnInv, [Next]_vars PROVE OwnInv'
    OBVIOUS
<1>1. ASSUME NEW p \in Procs, Begin(p) PROVE OwnInv'
  <2>1. ASSUME NEW s \in Serials, BeginStart(p, s) PROVE OwnInv'
    BY <2>1 DEF BeginStart
  <2>2. ASSUME NEW s \in Serials, BeginStop(p, s) PROVE OwnInv'
    BY <2>2 DEF BeginStop
  <2>3. ASSUME NEW S \in SUBSET Serials, BeginLook(p, S) PROVE OwnInv'
    BY <2>3 DEF BeginLook, Stale
  <2>4. CASE BeginStopAll(p)
    BY <2>4 DEF BeginStopAll
  <2>5. ASSUME NEW s \in Serials, BeginLook(p, {s}) PROVE OwnInv'
    <3>1. {s} \in SUBSET Serials
      OBVIOUS
    <3> QED
      BY <2>3, <2>5, <3>1
  <2>6. CASE BeginLook(p, Serials)
    BY <2>3, <2>6
  <2> QED
    BY <1>1, <2>1, <2>2, <2>4, <2>5, <2>6 DEF Begin
<1>2. ASSUME NEW p \in Procs, StartStep(p) PROVE OwnInv'
  <2>1. CASE LoadEpoch(p)
    BY <2>1 DEF LoadEpoch
  <2>2. CASE CloneStartLock(p)
    BY <2>2 DEF CloneStartLock, CloneLock
  <2>3. CASE Recheck(p)
    BY <2>3 DEF Recheck, StopAllOverlaps
  <2>4. CASE LookupNone(p)
    BY <2>4 DEF LookupNone
  <2>5. CASE LookupAlive(p)
    BY <2>5 DEF LookupAlive
  <2>6. CASE LookupDead(p)
    BY <2>6 DEF LookupDead
  <2>7. CASE PruneOld(p)
    BY <2>7 DEF PruneOld
  <2>8. CASE PruneOldGone(p)
    BY <2>8 DEF PruneOldGone
  <2>9. CASE CloseOld(p)
    BY <2>9 DEF CloseOld
  <2>10. ASSUME NEW x \in Sessions, ConnectOk(p, x) PROVE OwnInv'
    BY <2>10 DEF ConnectOk, Dropped
  <2>11. CASE ConnectError(p)
    BY <2>11 DEF ConnectError
  <2>12. ASSUME NEW x \in Sessions, Publish(p, x) PROVE OwnInv'
    BY <2>12 DEF Publish, StopAllOverlaps
  <2>13. CASE PublishRefused(p)
    BY <2>13 DEF PublishRefused
  <2> QED
    BY <1>2, <2>1, <2>2, <2>3, <2>4, <2>5, <2>6, <2>7, <2>8, <2>9, <2>10,
       <2>11, <2>12, <2>13 DEF StartStep
<1>3. ASSUME NEW p \in Procs, StopStep(p) PROVE OwnInv'
  <2>1. CASE CloneStopLock(p)
    BY <2>1 DEF CloneStopLock, CloneLock
  <2>2. CASE RemoveSession(p)
    BY <2>2 DEF RemoveSession
  <2>3. CASE NothingToStop(p)
    BY <2>3 DEF NothingToStop
  <2> QED
    BY <1>3, <2>1, <2>2, <2>3 DEF StopStep
<1>4. ASSUME NEW p \in Procs, TailStep(p) PROVE OwnInv'
  <2>1. CASE Shutdown(p)
    BY <2>1 DEF Shutdown
  <2>2. CASE ShutdownDone(p)
    BY <2>2 DEF ShutdownDone
  <2>3. CASE Unlock(p)
    BY <2>3 DEF Unlock
  <2>4. CASE PruneStartLock(p)
    BY <2>4 DEF PruneStartLock, PruneEntry, OnlyCallerRefers
  <2>5. CASE Return(p)
    BY <2>5 DEF Return
  <2> QED
    BY <1>4, <2>1, <2>2, <2>3, <2>4, <2>5 DEF TailStep
<1>5. ASSUME NEW p \in Procs, StopAllStep(p) PROVE OwnInv'
  <2>1. CASE BumpEpoch(p)
    BY <2>1 DEF BumpEpoch
  <2>2. CASE SetFlag(p)
    BY <2>2 DEF SetFlag
  <2>3. CASE Drain(p)
    BY <2>3 DEF Drain
  <2>4. ASSUME NEW x \in Sessions, KillOne(p, x) PROVE OwnInv'
    BY <2>4 DEF KillOne
  <2>5. CASE SnapshotLocks(p)
    BY <2>5 DEF SnapshotLocks
  <2>6. ASSUME NEW s \in Serials, PruneOne(p, s) PROVE OwnInv'
    BY <2>6 DEF PruneOne, PruneEntry, OnlyCallerRefers
  <2>7. CASE FinishStopAll(p)
    BY <2>7 DEF FinishStopAll
  <2>8. CASE UnlockGate(p)
    BY <2>8 DEF UnlockGate
  <2> QED
    BY <1>5, <2>1, <2>2, <2>3, <2>4, <2>5, <2>6, <2>7, <2>8 DEF StopAllStep
<1>6. ASSUME NEW p \in Procs, LookStep(p) PROVE OwnInv'
  <2>1. CASE LookPrune(p)
    BY <2>1 DEF LookPrune, InMap
  <2>2. CASE LookClose(p)
    BY <2>2 DEF LookClose
  <2> QED
    BY <1>6, <2>1, <2>2 DEF LookStep
<1>7. ASSUME NEW p \in Procs, Acquire(p) PROVE OwnInv'
  <2>1. CASE LockStart(p)
    BY <2>1 DEF LockStart, AcquireLock
  <2>2. CASE LockStop(p)
    BY <2>2 DEF LockStop, AcquireLock
  <2>3. CASE LockGate(p)
    BY <2>3 DEF LockGate
  <2> QED
    BY <1>7, <2>1, <2>2, <2>3 DEF Acquire
<1>8. ASSUME NEW p \in Procs, Cancel(p) PROVE OwnInv'
  <2>1. CASE CancelStartStop(p)
    BY <2>1 DEF CancelStartStop, StartStopAwaits, DropHand, InMap
  <2>2. CASE CancelStopAll(p)
    BY <2>2 DEF CancelStopAll, StopAllAwaits, DropHand, InMap
  <2>3. CASE CancelLook(p)
    BY <2>3 DEF CancelLook, LookAwaits, DropHand, InMap
  <2> QED
    BY <1>8, <2>1, <2>2, <2>3 DEF Cancel
<1>9. ASSUME Environment PROVE OwnInv'
  <2>1. ASSUME NEW x \in Sessions, Die(x) PROVE OwnInv'
    BY <2>1 DEF Die
  <2>2. ASSUME NEW x \in Sessions, Borrow(x) PROVE OwnInv'
    BY <2>2 DEF Borrow, InMap
  <2>3. ASSUME NEW x \in Sessions, GiveBack(x) PROVE OwnInv'
    BY <2>3 DEF GiveBack, Dropped
  <2> QED
    BY <1>9, <2>1, <2>2, <2>3 DEF Environment
<1>10. CASE UNCHANGED vars
  BY <1>10 DEF vars
<1> QED
  BY <1>1, <1>2, <1>3, <1>4, <1>5, <1>6, <1>7, <1>8, <1>9, <1>10 DEF Next, Run

-----------------------------------------------------------------------------
(* The theorems.                                                           *)

\* The inductive invariant.
IInv == /\ TypeInv /\ LockInv /\ StopAllInv /\ EpochInv
        /\ HandInv /\ SlotInv /\ LiveIsReachable /\ OwnInv

\* The parts put together: every reachable state satisfies the invariant.
THEOREM Invariance == Spec => []IInv
<1>1. Init => IInv
  BY TypeInit, LockInit, StopAllInit, EpochInit, HandInit, ReachInit, OwnInit
     DEF IInv
<1>2. IInv /\ [Next]_vars => IInv'
  <2> SUFFICES ASSUME IInv, [Next]_vars PROVE IInv'
      OBVIOUS
  <2>1. TypeInv'
    BY TypeStep DEF IInv
  <2>2. LockInv' /\ StopAllInv' /\ EpochInv' /\ HandInv'
    BY <2>1, LockStep, StopAllInvStep, EpochStep, HandStep DEF IInv
  <2>3. SlotInv'
    BY <2>1, LockExcludes, SlotStep DEF IInv
  <2>4. LiveIsReachable' /\ OwnInv'
    BY <2>1, ReachStep, OwnStep DEF IInv
  <2> QED
    BY <2>1, <2>2, <2>3, <2>4 DEF IInv
<1> QED
  BY <1>1, <1>2, PTL DEF Spec

\* The variables have their types in every reachable state.
THEOREM TypeCorrect == Spec => []TypeOK
<1>1. IInv => TypeOK
  BY DEF IInv, TypeInv
<1> QED
  BY <1>1, Invariance, PTL

\* Two calls of start_session or stop_session are never past the lock of one
\* serial together, although that lock is created and pruned on the fly.
THEOREM Exclusion == Spec => []StartStopExclusive
<1>1. IInv => StartStopExclusive
  BY LockExcludes DEF IInv
<1> QED
  BY <1>1, Invariance, PTL

\* A live session is in the map, in the hands of a call or in use.
THEOREM NoLeak == Spec => []LiveIsReachable
<1>1. IInv => LiveIsReachable
  BY DEF IInv
<1> QED
  BY <1>1, Invariance, PTL

\* The flag of stop_all_sessions is up only while a call is inside, so a
\* cancelled stop-all does not leave starts refused.
THEOREM FlagIsReset == Spec => []FlagHasOwner
<1>1. IInv => FlagHasOwner
  BY DEF IInv, StopAllInv
<1> QED
  BY <1>1, Invariance, PTL

\* Nothing is inserted between the drain of the map and the end of the stop-all.
THEOREM NothingComesBack == Spec => []StopAllKeepsMapEmpty
<1>1. IInv => StopAllKeepsMapEmpty
  BY DEF IInv, StopAllInv
<1> QED
  BY <1>1, Invariance, PTL

\* A start overtaken by the beginning of a stop-all never publishes.
THEOREM StopAllFences == Spec => StopAllWins
<1>1. IInv /\ [Next]_vars
        => [\A p \in Procs : "bump" \in overtaken[p] => ~Publishes(p)]_vars
  BY PublishIsFenced DEF IInv
<1> QED
  BY <1>1, Invariance, PTL DEF Spec, StopAllWins

\* An insertion into the map never overwrites a session.
THEOREM NoOverwrite == Spec => NeverOverwritten
<1>1. IInv /\ [Next]_vars
        => [\A s \in Serials : sessions[s] # None /\ sessions'[s] # sessions[s]
               => sessions'[s] = None]_vars
  BY InsertionIsFresh DEF IInv
<1> QED
  BY <1>1, Invariance, PTL DEF Spec, NeverOverwritten




-----------------------------------------------------------------------------
(* The registry that is promised.                                          *)

\* What SessionRegistry sees of a state, beside the map.
Live == {x \in alive : InMap(x)}
RoleMap == [p \in Procs |-> Role(p)]

\* A step of SessionRegistry, or none.
RegistryStep == [Registry!Next]_(Registry!registryVars)

Kept == sessions' = sessions /\ Live' = Live

\* The registry takes any step that only ends what a call may do,
LEMMA EndsRole ==
    ASSUME NEW p \in Procs, Kept, RoleMap' = [RoleMap EXCEPT ![p] = "none"]
    PROVE  RegistryStep
<1>1. Registry!End(p)
  BY DEF Registry!End, Kept, Live, RoleMap
<1> QED
  BY <1>1 DEF RegistryStep, Registry!Next

\* or nothing,
LEMMA KeepsAll == ASSUME Kept, RoleMap' = RoleMap PROVE RegistryStep
BY DEF RegistryStep, Registry!registryVars, Kept, Live, RoleMap

\* or begins a call,
LEMMA BeginsRole ==
    ASSUME NEW p \in Procs, NEW what \in {"start", "stop"}, Kept, Role(p) = "none",
           RoleMap' = [RoleMap EXCEPT ![p] = what]
    PROVE  RegistryStep
<1>1. RoleMap[p] = "none"
  BY DEF RoleMap
<1>2. Registry!Begin(p, what)
  BY <1>1 DEF Registry!Begin, Kept, Live, RoleMap
<1> QED
  BY <1>2 DEF RegistryStep, Registry!Next

\* or one more session dead,
LEMMA KillsOne ==
    ASSUME NEW x \in Sessions, sessions' = sessions, Live' = Live \ {x}, RoleMap' = RoleMap
    PROVE  RegistryStep
<1>1. Registry!Die(x)
  BY DEF Registry!Die, Live, RoleMap
<1> QED
  BY <1>1 DEF RegistryStep, Registry!Next

\* or dead sessions removed.
LEMMA PrunesDead ==
    ASSUME NEW S \in SUBSET Serials, \A s \in S : sessions[s] # None /\ sessions[s] \notin Live,
           sessions' = [s \in Serials |-> IF s \in S THEN None ELSE sessions[s]],
           Live' = Live, RoleMap' = RoleMap
    PROVE  RegistryStep
<1>1. Registry!Prune(S)
  BY DEF Registry!Prune, Registry!Running, Live, RoleMap
<1> QED
  BY <1>1 DEF RegistryStep, Registry!Next

\* A step of one call that leaves the current epoch alone changes that call's role.
LEMMA OwnRole ==
    ASSUME TypeInv, NEW p \in Procs, NEW label, pc' = [pc EXCEPT ![p] = label],
           startEpoch' = startEpoch, \A q \in Procs \ {p} : myEpoch'[q] = myEpoch[q]
    PROVE  RoleMap' = [RoleMap EXCEPT ![p] = Role(p)']
<1>1. ASSUME NEW q \in Procs \ {p} PROVE Role(q)' = Role(q)
  <2>1. pc'[q] = pc[q] /\ myEpoch'[q] = myEpoch[q]
    BY DEF TypeInv, TypeOK
  <2> QED
    BY <2>1 DEF Role
<1> QED
  BY <1>1 DEF RoleMap

\* The map and what is live in it stay, if only sessions outside of it live or die.
LEMMA KeptOutside ==
    ASSUME sessions' = sessions, \A x : InMap(x) => (x \in alive' <=> x \in alive)
    PROVE  Kept
<1>1. \A x : InMap(x)' = InMap(x)
  BY DEF InMap
<1>2. \A x : x \in Live' <=> x \in Live
  BY <1>1 DEF Live
<1> QED
  BY <1>2 DEF Kept

\* A step of one call that keeps the map, and what the call may do or ends it.
LEMMA CallStep ==
    ASSUME TypeInv, NEW p \in Procs, NEW label, pc' = [pc EXCEPT ![p] = label],
           startEpoch' = startEpoch, \A q \in Procs \ {p} : myEpoch'[q] = myEpoch[q],
           Kept, Role(p)' \in {"none", Role(p)}
    PROVE  RegistryStep
<1>1. RoleMap' = [RoleMap EXCEPT ![p] = Role(p)']
  BY OwnRole
<1>2. CASE Role(p)' = "none"
  BY <1>1, <1>2, EndsRole
<1>3. CASE Role(p)' = Role(p)
  <2>1. RoleMap' = RoleMap
    BY <1>1, <1>3 DEF RoleMap
  <2> QED
    BY <2>1, KeepsAll
<1> QED
  BY <1>2, <1>3

\* No call moves and the epoch stays.
LEMMA SameRoles == ASSUME pc' = pc, myEpoch' = myEpoch, startEpoch' = startEpoch
                   PROVE  RoleMap' = RoleMap
BY DEF RoleMap, Role

\* The beginning of a call, and the load of the epoch by a start.
LEMMA BeginRefines == ASSUME IInv, NEW p \in Procs, Begin(p) PROVE RegistryStep
<1> USE DEF IInv, TypeInv, TypeOK, StartPcs
<1>0. TypeInv
  OBVIOUS
<1>1. ASSUME NEW s \in Serials, BeginStart(p, s) PROVE RegistryStep
  <2>1. Kept
    BY <1>1, KeptOutside DEF BeginStart
  <2>2. Role(p)' = "none"
    BY <1>1 DEF BeginStart, Role
  <2> QED
    BY <1>0, <1>1, <2>1, <2>2, CallStep DEF BeginStart
<1>2. ASSUME NEW s \in Serials, BeginStop(p, s) PROVE RegistryStep
  <2>1. Kept
    BY <1>2, KeptOutside DEF BeginStop
  <2>2. Role(p)' = "stop" /\ Role(p) = "none"
    BY <1>2 DEF BeginStop, Role
  <2>3. RoleMap' = [RoleMap EXCEPT ![p] = Role(p)']
    BY <1>0, <1>2, OwnRole DEF BeginStop
  <2> QED
    BY <2>1, <2>2, <2>3, BeginsRole
<1>3. ASSUME NEW S, BeginLook(p, S) PROVE RegistryStep
  <2>1. Kept
    BY <1>3, KeptOutside DEF BeginLook
  <2>2. Role(p)' = "none"
    BY <1>3 DEF BeginLook, Role
  <2> QED
    BY <1>0, <1>3, <2>1, <2>2, CallStep DEF BeginLook
<1>4. CASE BeginStopAll(p)
  <2>1. Kept
    BY <1>4, KeptOutside DEF BeginStopAll
  <2>2. Role(p)' = "none"
    BY <1>4 DEF BeginStopAll, Role
  <2> QED
    BY <1>0, <1>4, <2>1, <2>2, CallStep DEF BeginStopAll
<1> QED
  BY <1>1, <1>2, <1>3, <1>4 DEF Begin

\* A start loads its epoch, which is when it begins for the registry; Publish is
\* when it registers, with the epoch still current and the slot empty.
LEMMA StartRefines == ASSUME IInv, NEW p \in Procs, StartStep(p) PROVE RegistryStep
<1> USE ConstantsAssumption DEF IInv, TypeInv, TypeOK, StartPcs
<1>0. TypeInv
  OBVIOUS
<1>1. CASE LoadEpoch(p)
  <2>1. Kept
    BY <1>1, KeptOutside DEF LoadEpoch
  <2>2. Role(p)' = "start" /\ Role(p) = "none"
    BY <1>1 DEF LoadEpoch, Role
  <2>3. RoleMap' = [RoleMap EXCEPT ![p] = Role(p)']
    BY <1>0, <1>1, OwnRole DEF LoadEpoch
  <2> QED
    BY <2>1, <2>2, <2>3, BeginsRole
<1>2. CASE CloneStartLock(p)
  <2>1. Kept
    BY <1>2, KeptOutside DEF CloneStartLock
  <2>2. Role(p)' \in {"none", Role(p)}
    BY <1>2 DEF CloneStartLock, Role
  <2> QED
    BY <1>0, <1>2, <2>1, <2>2, CallStep DEF CloneStartLock
<1>3. CASE Recheck(p)
  <2>1. Kept
    BY <1>3, KeptOutside DEF Recheck
  <2>2. Role(p)' \in {"none", Role(p)}
    BY <1>3 DEF Recheck, Role
  <2> QED
    BY <1>0, <1>3, <2>1, <2>2, CallStep DEF Recheck
<1>4. CASE LookupNone(p)
  <2>1. Kept
    BY <1>4, KeptOutside DEF LookupNone
  <2>2. Role(p)' \in {"none", Role(p)}
    BY <1>4 DEF LookupNone, Role
  <2> QED
    BY <1>0, <1>4, <2>1, <2>2, CallStep DEF LookupNone
<1>5. CASE LookupAlive(p)
  <2>1. Kept
    BY <1>5, KeptOutside DEF LookupAlive
  <2>2. Role(p)' \in {"none", Role(p)}
    BY <1>5 DEF LookupAlive, Role
  <2> QED
    BY <1>0, <1>5, <2>1, <2>2, CallStep DEF LookupAlive
<1>6. CASE LookupDead(p)
  <2>1. Kept
    BY <1>6, KeptOutside DEF LookupDead
  <2>2. Role(p)' \in {"none", Role(p)}
    BY <1>6 DEF LookupDead, Role
  <2> QED
    BY <1>0, <1>6, <2>1, <2>2, CallStep DEF LookupDead
<1>7. CASE PruneOldGone(p)
  <2>1. Kept
    BY <1>7, KeptOutside DEF PruneOldGone
  <2>2. Role(p)' \in {"none", Role(p)}
    BY <1>7 DEF PruneOldGone, Role
  <2> QED
    BY <1>0, <1>7, <2>1, <2>2, CallStep DEF PruneOldGone
<1>8. CASE CloseOld(p)
  <2>1. Kept
    BY <1>8, KeptOutside DEF CloseOld, HandInv
  <2>2. Role(p)' \in {"none", Role(p)}
    BY <1>8 DEF CloseOld, Role
  <2> QED
    BY <1>0, <1>8, <2>1, <2>2, CallStep DEF CloseOld
<1>9. CASE ConnectError(p)
  <2>1. Kept
    BY <1>9, KeptOutside DEF ConnectError
  <2>2. Role(p)' \in {"none", Role(p)}
    BY <1>9 DEF ConnectError, Role
  <2> QED
    BY <1>0, <1>9, <2>1, <2>2, CallStep DEF ConnectError
<1>10. CASE PublishRefused(p)
  <2>1. Kept
    BY <1>10, KeptOutside DEF PublishRefused
  <2>2. Role(p)' \in {"none", Role(p)}
    BY <1>10 DEF PublishRefused, Role
  <2> QED
    BY <1>0, <1>10, <2>1, <2>2, CallStep DEF PublishRefused
<1>11. ASSUME NEW x \in Sessions, ConnectOk(p, x) PROVE RegistryStep
  <2>1. Kept
    BY <1>11, KeptOutside DEF ConnectOk, Dropped, InMap
  <2>2. Role(p)' \in {"none", Role(p)}
    BY <1>11 DEF ConnectOk, Role
  <2> QED
    BY <1>0, <1>11, <2>1, <2>2, CallStep DEF ConnectOk
<1>12. CASE PruneOld(p)
  <2>1. ser[p] \in Serials /\ sessions[ser[p]] # None /\ sessions[ser[p]] \notin alive
    BY <1>12 DEF PruneOld, HandInv, SerInv, CallPcs
  <2>2. sessions' = [s \in Serials |-> IF s \in {ser[p]} THEN None ELSE sessions[s]]
    BY <1>12 DEF PruneOld
  <2>3. Live' = Live
    <3>1. alive' = alive
      BY <1>12 DEF PruneOld
    <3>2. \A x \in alive : InMap(x)' <=> InMap(x)
      BY <2>1, <2>2 DEF InMap
    <3> QED
      BY <3>1, <3>2 DEF Live
  <2>4. RoleMap' = RoleMap
    <3>1. Role(p)' = Role(p)
      BY <1>12 DEF PruneOld, Role
    <3>2. RoleMap' = [RoleMap EXCEPT ![p] = Role(p)']
      BY <1>0, <1>12, OwnRole DEF PruneOld
    <3> QED
      BY <3>1, <3>2 DEF RoleMap
  <2>5. {ser[p]} \in SUBSET Serials
    BY <2>1
  <2>6. \A s \in {ser[p]} : sessions[s] # None /\ sessions[s] \notin Live
    BY <2>1 DEF Live
  <2> QED
    BY <2>2, <2>3, <2>4, <2>5, <2>6, PrunesDead
<1>13. ASSUME NEW x \in Sessions, Publish(p, x) PROVE RegistryStep
  <2>1. ser[p] \in Serials /\ sessions[ser[p]] = None
    BY <1>13 DEF Publish, SlotInv, SerInv, CallPcs
  <2>2. \A s \in Serials : sessions[s] # x
    BY <1>13 DEF Publish, OwnInv, InMap
  <2>3. sessions' = [sessions EXCEPT ![ser[p]] = x] /\ alive' = alive
    BY <1>13 DEF Publish
  <2>4. Live' \in {Live, Live \cup {x}}
    <3>1. \A y \in alive : InMap(y)' <=> InMap(y) \/ y = x
      BY <2>1, <2>2, <2>3 DEF InMap
    <3>2. \A y : y \in Live' <=> y \in Live \/ (y = x /\ x \in alive)
      BY <2>3, <3>1 DEF Live
    <3>3. CASE x \in alive
      <4>1. Live' = Live \cup {x}
        BY <3>2, <3>3
      <4> QED
        BY <4>1
    <3>4. CASE x \notin alive
      <4>1. Live' = Live
        BY <3>2, <3>4
      <4> QED
        BY <4>1
    <3> QED
      BY <3>3, <3>4
  <2>5. Role(p) = "start" /\ Role(p)' = "none"
    BY <1>13 DEF Publish, StopAllOverlaps, Role
  <2>6. RoleMap' = [RoleMap EXCEPT ![p] = "none"]
    BY <1>0, <1>13, <2>5, OwnRole DEF Publish
  <2>7. RoleMap[p] = "start"
    BY <2>5 DEF RoleMap
  <2>8. Registry!Register(p, ser[p], x)
    BY <2>1, <2>2, <2>3, <2>4, <2>6, <2>7
       DEF Registry!Register, Registry!Unused, Live, RoleMap
  <2> QED
    BY <2>1, <2>8 DEF RegistryStep, Registry!Next
<1> QED
  BY <1>1, <1>2, <1>3, <1>4, <1>5, <1>6, <1>7, <1>8, <1>9, <1>10, <1>11, <1>12,
     <1>13 DEF StartStep

\* RemoveSession is the stop of the registry; the map has what it removes once.
LEMMA StopRefines == ASSUME IInv, NEW p \in Procs, StopStep(p) PROVE RegistryStep
<1> USE ConstantsAssumption DEF IInv, TypeInv, TypeOK, StartPcs
<1>0. TypeInv
  OBVIOUS
<1>1. CASE CloneStopLock(p)
  <2>1. Kept
    BY <1>1, KeptOutside DEF CloneStopLock
  <2>2. Role(p)' \in {"none", Role(p)}
    BY <1>1 DEF CloneStopLock, Role
  <2> QED
    BY <1>0, <1>1, <2>1, <2>2, CallStep DEF CloneStopLock
<1>2. CASE NothingToStop(p)
  <2>1. Kept
    BY <1>2, KeptOutside DEF NothingToStop
  <2>2. Role(p)' \in {"none", Role(p)}
    BY <1>2 DEF NothingToStop, Role
  <2> QED
    BY <1>0, <1>2, <2>1, <2>2, CallStep DEF NothingToStop
<1>3. CASE RemoveSession(p)
  <2>1. ser[p] \in Serials /\ sessions[ser[p]] # None
    BY <1>3 DEF RemoveSession, SerInv, CallPcs, StopPcs
  <2>2. sessions' = [sessions EXCEPT ![ser[p]] = None] /\ alive' = alive
    BY <1>3 DEF RemoveSession
  <2>3. Live' = Live \ {sessions[ser[p]]}
    <3>1. \A y \in alive : InMap(y)' <=> InMap(y) /\ y # sessions[ser[p]]
      BY <2>1, <2>2 DEF OwnInv, InMap
    <3>2. \A y : y \in Live' <=> y \in Live /\ y # sessions[ser[p]]
      BY <2>2, <3>1 DEF Live
    <3> QED
      BY <3>2
  <2>4. Role(p) = "stop" /\ Role(p)' = "none"
    BY <1>3 DEF RemoveSession, Role
  <2>5. RoleMap' = [RoleMap EXCEPT ![p] = "none"]
    BY <1>0, <1>3, <2>4, OwnRole DEF RemoveSession
  <2>6. RoleMap[p] = "stop"
    BY <2>4 DEF RoleMap
  <2>7. Registry!Stop(p, ser[p])
    BY <2>1, <2>2, <2>3, <2>5, <2>6 DEF Registry!Stop, Live, RoleMap
  <2> QED
    BY <2>1, <2>7 DEF RegistryStep, Registry!Next
<1> QED
  BY <1>1, <1>2, <1>3 DEF StopStep

\* What a call does after it: the sessions it shuts down are not in the map.
LEMMA TailRefines == ASSUME IInv, NEW p \in Procs, TailStep(p) PROVE RegistryStep
<1> USE ConstantsAssumption DEF IInv, TypeInv, TypeOK, StartPcs
<1>0. TypeInv
  OBVIOUS
<1>1. CASE Shutdown(p)
  <2>1. Kept
    BY <1>1, KeptOutside DEF Shutdown, OwnInv
  <2>2. Role(p)' \in {"none", Role(p)}
    BY <1>1 DEF Shutdown, Role
  <2> QED
    BY <1>0, <1>1, <2>1, <2>2, CallStep DEF Shutdown
<1>2. CASE ShutdownDone(p)
  <2>1. Kept
    BY <1>2, KeptOutside DEF ShutdownDone
  <2>2. Role(p)' \in {"none", Role(p)}
    BY <1>2 DEF ShutdownDone, Role
  <2> QED
    BY <1>0, <1>2, <2>1, <2>2, CallStep DEF ShutdownDone
<1>3. CASE Unlock(p)
  <2>1. Kept
    BY <1>3, KeptOutside DEF Unlock
  <2>2. Role(p)' \in {"none", Role(p)}
    BY <1>3 DEF Unlock, Role
  <2> QED
    BY <1>0, <1>3, <2>1, <2>2, CallStep DEF Unlock
<1>4. CASE PruneStartLock(p)
  <2>1. Kept
    BY <1>4, KeptOutside DEF PruneStartLock
  <2>2. Role(p)' \in {"none", Role(p)}
    BY <1>4 DEF PruneStartLock, Role
  <2> QED
    BY <1>0, <1>4, <2>1, <2>2, CallStep DEF PruneStartLock
<1>5. CASE Return(p)
  <2>1. Kept
    BY <1>5, KeptOutside DEF Return
  <2>2. Role(p)' \in {"none", Role(p)}
    BY <1>5 DEF Return, Role
  <2> QED
    BY <1>0, <1>5, <2>1, <2>2, CallStep DEF Return
<1> QED
  BY <1>1, <1>2, <1>3, <1>4, <1>5 DEF TailStep

\* BumpEpoch is the fence: with it every start that has its epoch is overtaken.
LEMMA BumpRefines == ASSUME IInv, NEW p \in Procs, BumpEpoch(p) PROVE RegistryStep
<1> USE ConstantsAssumption DEF IInv, TypeInv, TypeOK, StartPcs
<1>1. sessions' = sessions /\ Live' = Live
  <2>1. sessions' = sessions /\ alive' = alive
    BY DEF BumpEpoch
  <2> QED
    BY <2>1, KeptOutside DEF Kept
<1>2. /\ pc[p] = "bump" /\ pc' = [pc EXCEPT ![p] = "setFlag"]
      /\ startEpoch' = startEpoch + 1 /\ myEpoch' = myEpoch
  BY DEF BumpEpoch
<1>3. Role(p) = "none" /\ Role(p)' = "clear"
  BY <1>2 DEF Role
<1>4. ASSUME NEW q \in Procs \ {p}
      PROVE  Role(q)' = IF Role(q) = "start" THEN "none" ELSE Role(q)
  <2>1. pc'[q] = pc[q] /\ myEpoch'[q] # startEpoch'
    BY <1>2 DEF EpochInv
  <2> QED
    BY <2>1 DEF Role
<1>5. RoleMap' = [q \in Procs |-> CASE q = p -> "clear"
                                    [] q # p /\ RoleMap[q] = "start" -> "none"
                                    [] OTHER -> RoleMap[q]]
  BY <1>3, <1>4 DEF RoleMap
<1>6. RoleMap[p] = "none"
  BY <1>3 DEF RoleMap
<1>7. Registry!Fence(p)
  BY <1>1, <1>5, <1>6 DEF Registry!Fence, Live, RoleMap
<1> QED
  BY <1>7 DEF RegistryStep, Registry!Next

\* Drain clears the registry.
LEMMA DrainRefines == ASSUME IInv, NEW p \in Procs, Drain(p) PROVE RegistryStep
<1> USE ConstantsAssumption DEF IInv, TypeInv, TypeOK, StartPcs
<1>0. TypeInv
  OBVIOUS
<1>1. sessions' = [s \in Serials |-> None] /\ alive' = alive
  BY DEF Drain
<1>2. Live' = {}
  <2>1. \A y \in alive : ~InMap(y)'
    BY <1>1 DEF InMap
  <2> QED
    BY <1>1, <2>1 DEF Live
<1>3. Role(p) = "clear" /\ Role(p)' = "none"
  BY DEF Drain, Role
<1>4. RoleMap' = [RoleMap EXCEPT ![p] = "none"]
  BY <1>0, <1>3, OwnRole DEF Drain
<1>5. RoleMap[p] = "clear"
  BY <1>3 DEF RoleMap
<1>6. Registry!Clear(p)
  BY <1>1, <1>2, <1>4, <1>5 DEF Registry!Clear, Live, RoleMap
<1> QED
  BY <1>6 DEF RegistryStep, Registry!Next

\* The rest of a stop-all: what it kills is no longer in the map.
LEMMA StopAllRefines == ASSUME IInv, NEW p \in Procs, StopAllStep(p) PROVE RegistryStep
<1> USE ConstantsAssumption DEF IInv, TypeInv, TypeOK, StartPcs
<1>0. TypeInv
  OBVIOUS
<1>1. CASE SetFlag(p)
  <2>1. Kept
    BY <1>1, KeptOutside DEF SetFlag
  <2>2. Role(p)' \in {"none", Role(p)}
    BY <1>1 DEF SetFlag, Role
  <2> QED
    BY <1>0, <1>1, <2>1, <2>2, CallStep DEF SetFlag
<1>2. CASE SnapshotLocks(p)
  <2>1. Kept
    BY <1>2, KeptOutside DEF SnapshotLocks
  <2>2. Role(p)' \in {"none", Role(p)}
    BY <1>2 DEF SnapshotLocks, Role
  <2> QED
    BY <1>0, <1>2, <2>1, <2>2, CallStep DEF SnapshotLocks
<1>3. CASE FinishStopAll(p)
  <2>1. Kept
    BY <1>3, KeptOutside DEF FinishStopAll
  <2>2. Role(p)' \in {"none", Role(p)}
    BY <1>3 DEF FinishStopAll, Role
  <2> QED
    BY <1>0, <1>3, <2>1, <2>2, CallStep DEF FinishStopAll
<1>4. CASE UnlockGate(p)
  <2>1. Kept
    BY <1>4, KeptOutside DEF UnlockGate
  <2>2. Role(p)' \in {"none", Role(p)}
    BY <1>4 DEF UnlockGate, Role
  <2> QED
    BY <1>0, <1>4, <2>1, <2>2, CallStep DEF UnlockGate
<1>5. ASSUME NEW x \in Sessions, KillOne(p, x) PROVE RegistryStep
  <2>1. Kept
    BY <1>5, KeptOutside DEF KillOne, OwnInv
  <2>2. RoleMap' = RoleMap
    BY <1>5, SameRoles DEF KillOne
  <2> QED
    BY <2>1, <2>2, KeepsAll
<1>6. ASSUME NEW s \in Serials, PruneOne(p, s) PROVE RegistryStep
  <2>1. Kept
    BY <1>6, KeptOutside DEF PruneOne
  <2>2. RoleMap' = RoleMap
    BY <1>6, SameRoles DEF PruneOne
  <2> QED
    BY <2>1, <2>2, KeepsAll
<1> QED
  BY <1>1, <1>2, <1>3, <1>4, <1>5, <1>6, BumpRefines, DrainRefines DEF StopAllStep

\* LookPrune removes sessions that were found dead, and are.
LEMMA LookRefines == ASSUME IInv, NEW p \in Procs, LookStep(p) PROVE RegistryStep
<1> USE ConstantsAssumption DEF IInv, TypeInv, TypeOK, StartPcs
<1>0. TypeInv
  OBVIOUS
<1>1. CASE LookClose(p)
  <2>1. Kept
    BY <1>1, KeptOutside DEF LookClose, HandInv
  <2>2. Role(p)' \in {"none", Role(p)}
    BY <1>1 DEF LookClose, Role
  <2> QED
    BY <1>0, <1>1, <2>1, <2>2, CallStep DEF LookClose
<1>2. CASE LookPrune(p)
  <2> DEFINE S == {s \in Serials : sessions[s] \in hand[p]}
  <2>1. \A s \in S : sessions[s] # None /\ sessions[s] \notin alive
    BY <1>2 DEF LookPrune, HandInv
  <2>2. sessions' = [s \in Serials |-> IF s \in S THEN None ELSE sessions[s]]
    BY <1>2 DEF LookPrune
  <2>3. alive' = alive
    BY <1>2 DEF LookPrune
  <2> HIDE DEF S
  <2>4. S \in SUBSET Serials
    BY DEF S
  <2>5. Live' = Live
    <3>1. \A x \in alive : InMap(x)' <=> InMap(x)
      BY <2>1, <2>2, <2>4 DEF InMap
    <3> QED
      BY <2>3, <3>1 DEF Live
  <2>6. RoleMap' = RoleMap
    <3>1. Role(p)' = Role(p)
      BY <1>2 DEF LookPrune, Role
    <3>2. RoleMap' = [RoleMap EXCEPT ![p] = Role(p)']
      BY <1>0, <1>2, OwnRole DEF LookPrune
    <3> QED
      BY <3>1, <3>2 DEF RoleMap
  <2>7. \A s \in S : sessions[s] # None /\ sessions[s] \notin Live
    BY <2>1 DEF Live
  <2> QED
    BY <2>2, <2>4, <2>5, <2>6, <2>7, PrunesDead
<1> QED
  BY <1>1, <1>2 DEF LookStep

\* Taking a lock changes nothing for the registry.
LEMMA AcquireRefines == ASSUME IInv, NEW p \in Procs, Acquire(p) PROVE RegistryStep
<1> USE ConstantsAssumption DEF IInv, TypeInv, TypeOK, StartPcs
<1>0. TypeInv
  OBVIOUS
<1>1. CASE LockStart(p)
  <2>1. Kept
    BY <1>1, KeptOutside DEF LockStart, AcquireLock
  <2>2. Role(p)' \in {"none", Role(p)}
    BY <1>1 DEF LockStart, Role, AcquireLock
  <2> QED
    BY <1>0, <1>1, <2>1, <2>2, CallStep DEF LockStart, AcquireLock
<1>2. CASE LockStop(p)
  <2>1. Kept
    BY <1>2, KeptOutside DEF LockStop, AcquireLock
  <2>2. Role(p)' \in {"none", Role(p)}
    BY <1>2 DEF LockStop, Role, AcquireLock
  <2> QED
    BY <1>0, <1>2, <2>1, <2>2, CallStep DEF LockStop, AcquireLock
<1>3. CASE LockGate(p)
  <2>1. Kept
    BY <1>3, KeptOutside DEF LockGate
  <2>2. Role(p)' \in {"none", Role(p)}
    BY <1>3 DEF LockGate, Role
  <2> QED
    BY <1>0, <1>3, <2>1, <2>2, CallStep DEF LockGate
<1> QED
  BY <1>1, <1>2, <1>3 DEF Acquire

\* A cancelled call has ended; what its destructors shut down is not in the map.
LEMMA CancelRefines == ASSUME IInv, NEW p \in Procs, Cancel(p) PROVE RegistryStep
<1> USE ConstantsAssumption DEF IInv, TypeInv, TypeOK, StartPcs
<1>0. TypeInv
  OBVIOUS
<1>1. DropHand(p) => Kept
  BY KeptOutside DEF DropHand
<1>2. CASE CancelStartStop(p)
  <2>1. Kept
    BY <1>1, <1>2 DEF CancelStartStop
  <2>2. Role(p)' = "none"
    BY <1>2 DEF CancelStartStop, Role, StartStopAwaits
  <2> QED
    BY <1>0, <1>2, <2>1, <2>2, CallStep DEF CancelStartStop
<1>3. CASE CancelStopAll(p)
  <2>1. Kept
    BY <1>1, <1>3 DEF CancelStopAll
  <2>2. Role(p)' = "none"
    BY <1>3 DEF CancelStopAll, Role, StopAllAwaits
  <2> QED
    BY <1>0, <1>3, <2>1, <2>2, CallStep DEF CancelStopAll
<1>4. CASE CancelLook(p)
  <2>1. Kept
    BY <1>1, <1>4 DEF CancelLook
  <2>2. Role(p)' = "none"
    BY <1>4 DEF CancelLook, Role, LookAwaits
  <2> QED
    BY <1>0, <1>4, <2>1, <2>2, CallStep DEF CancelLook
<1> QED
  BY <1>2, <1>3, <1>4 DEF Cancel

\* A session dies by itself, is borrowed, or is given back: outside of the map that
\* may be its end.
LEMMA EnvironmentRefines == ASSUME IInv, Environment PROVE RegistryStep
<1>1. ASSUME NEW x \in Sessions, Die(x) PROVE RegistryStep
  <2>1. sessions' = sessions /\ alive' = alive \ {x}
    BY <1>1 DEF Die
  <2>2. Live' = Live \ {x}
    <3>1. \A y : InMap(y)' = InMap(y)
      BY <2>1 DEF InMap
    <3> QED
      BY <2>1, <3>1 DEF Live
  <2>3. RoleMap' = RoleMap
    BY <1>1, SameRoles DEF Die
  <2> QED
    BY <2>1, <2>2, <2>3, KillsOne
<1>2. ASSUME NEW x \in Sessions, Borrow(x) PROVE RegistryStep
  <2>1. Kept
    BY <1>2, KeptOutside DEF Borrow
  <2>2. RoleMap' = RoleMap
    BY <1>2, SameRoles DEF Borrow
  <2> QED
    BY <2>1, <2>2, KeepsAll
<1>3. ASSUME NEW x \in Sessions, GiveBack(x) PROVE RegistryStep
  <2>1. Kept
    BY <1>3, KeptOutside DEF GiveBack, Dropped, InMap
  <2>2. RoleMap' = RoleMap
    BY <1>3, SameRoles DEF GiveBack
  <2> QED
    BY <2>1, <2>2, KeepsAll
<1> QED
  BY <1>1, <1>2, <1>3 DEF Environment

\* Every step of the locks, the flag and the epoch is one step of the registry that
\* is promised, or none: the calls look atomic.
THEOREM Refinement == Spec => ImplementsRegistry
<1>1. Init => Registry!Init
  <2> SUFFICES ASSUME Init PROVE Registry!Init
    OBVIOUS
  <2>1. {x \in alive : InMap(x)} = {}
    BY DEF Init
  <2>2. \A p \in Procs : Role(p) = "none"
    BY DEF Init, Role, StartPcs
  <2> QED
    BY <2>1, <2>2 DEF Init, Registry!Init
<1>2. IInv /\ [Next]_vars => [Registry!Next]_(Registry!registryVars)
  <2> SUFFICES ASSUME IInv, [Next]_vars PROVE RegistryStep
    BY DEF RegistryStep
  <2>1. CASE UNCHANGED vars
    <3>1. Kept
      BY <2>1, KeptOutside DEF vars
    <3>2. RoleMap' = RoleMap
      BY <2>1, SameRoles DEF vars
    <3> QED
      BY <3>1, <3>2, KeepsAll
  <2> QED
    BY <2>1, BeginRefines, StartRefines, StopRefines, TailRefines, StopAllRefines,
       LookRefines, AcquireRefines, CancelRefines, EnvironmentRefines DEF Next, Run
<1> QED
  BY <1>1, <1>2, Invariance, PTL DEF Spec, ImplementsRegistry, Registry!Spec
=============================================================================
