--------------------------- MODULE SessionManager ---------------------------
(***************************************************************************)
(* DeviceManager (crates/forge-core/src/manager.rs): the map of running    *)
(* scrcpy sessions, and the calls of the daemon that race on it:           *)
(* start_session, stop_session, stop_all_sessions, session and sessions.   *)
(*                                                                         *)
(* A process is one call in flight.  Its steps are the stretches between   *)
(* the points where another task can intervene: an await, a lock, an       *)
(* atomic load or store.  A call that waits may also be cancelled, for the *)
(* HTTP server drops the future of a request whose client went away; then  *)
(* only the destructors of its locals run.                                 *)
(*                                                                         *)
(* A lock and a session are Arcs: they have an identity, and their slot is *)
(* used again only when nothing refers to it any more.                     *)
(***************************************************************************)
EXTENDS Naturals, FiniteSets

CONSTANTS Serials,    \* device serials
          Procs,      \* calls that can be in flight at once
          Poller,     \* the daemon's polling task: only calls sessions()
          Locks,      \* identities of per-serial start locks
          Sessions,   \* identities of sessions
          MaxEpoch,   \* bound: the number of stop-all calls
          None        \* no lock, no session, no process, no serial

ASSUME ConstantsAssumption ==
    /\ Poller \in Procs
    /\ MaxEpoch \in Nat
    /\ None \notin Procs \cup Locks \cup Sessions \cup Serials

VARIABLES
    sessions,     \* the map serial -> session
    startLocks,   \* the map serial -> start lock
    holder,       \* who holds each start lock
    stoppingAll,  \* flag raised while stop_all_sessions runs
    startEpoch,   \* counter bumped when stop_all_sessions begins
    stopAllGate,  \* who holds the mutex that serialises stop_all_sessions
    alive,        \* the sessions whose `alive` flag is set
    borrowed,     \* the sessions a handler or a script still has an Arc of
    pc,           \* where each call is
    ser,          \* the serial each call is about
    ref,          \* the start locks each call has a clone of, by serial
    myEpoch,      \* the epoch a start_session call read
    hand,         \* the sessions each call has in a local variable
    overtaken     \* history: what each start_session call was overtaken by

vars == <<sessions, startLocks, holder, stoppingAll, startEpoch, stopAllGate,
          alive, borrowed, pc, ser, ref, myEpoch, hand, overtaken>>

mapVars   == <<sessions, alive, borrowed>>
lockVars  == <<startLocks, holder, ref>>
allVars   == <<stoppingAll, startEpoch, stopAllGate>>
localVars == <<ser, myEpoch, hand, overtaken>>

StartPcs == {"loadEpoch", "startLock", "startWait", "recheck", "lookup",
             "pruneOld", "closeOld", "connect", "publish", "discard"}
StopPcs == {"stopLock", "stopWait", "remove", "shutdown"}
StopAllPcs == {"gateWait", "bump", "setFlag", "drain", "kill", "pruneAll",
               "openGate"}
LookPcs == {"lookPrune", "lookClose"}
TailPcs == {"closing", "unlock", "prune", "return"}
Pcs == {"idle"} \cup StartPcs \cup StopPcs \cup StopAllPcs \cup LookPcs \cup TailPcs

\* The calls that hold the start lock of their serial.
LockedPcs == {"recheck", "lookup", "pruneOld", "closeOld", "connect", "publish",
              "discard", "remove", "shutdown", "closing", "unlock"}

NoRefs == [s \in Serials |-> None]

Goto(p, label) == pc' = [pc EXCEPT ![p] = label]

\* The session is in neither a local variable nor the map.
Dropped(x) == /\ \A s \in Serials : sessions[s] # x
              /\ \A p \in Procs : x \notin hand[p]

InMap(x) == \E s \in Serials : sessions[s] = x

Init ==
    /\ sessions = [s \in Serials |-> None]
    /\ startLocks = [s \in Serials |-> None]
    /\ holder = [l \in Locks |-> None]
    /\ stoppingAll = FALSE
    /\ startEpoch = 0
    /\ stopAllGate = None
    /\ alive = {}
    /\ borrowed = {}
    /\ pc = [p \in Procs |-> "idle"]
    /\ ser = [p \in Procs |-> None]
    /\ ref = [p \in Procs |-> NoRefs]
    /\ myEpoch = [p \in Procs |-> 0]
    /\ hand = [p \in Procs |-> {}]
    /\ overtaken = [p \in Procs |-> {}]

-----------------------------------------------------------------------------
(* The start locks.                                                        *)

\* start_locks.lock().entry(serial).or_default().clone()
CloneLock(p, s) ==
    \E l \in Locks :
        /\ \/ startLocks[s] = l
           \/ /\ startLocks[s] = None
              /\ \A t \in Serials : startLocks[t] # l
              /\ \A q \in Procs, t \in Serials : ref[q][t] # l
        /\ startLocks' = [startLocks EXCEPT ![s] = l]
        /\ ref' = [ref EXCEPT ![p][s] = l]
        /\ UNCHANGED holder

\* lock.lock().await
AcquireLock(p, next) ==
    LET l == ref[p][ser[p]]
    IN  /\ holder[l] = None
        /\ holder' = [holder EXCEPT ![l] = p]
        /\ Goto(p, next)
        /\ UNCHANGED <<startLocks, ref>>

\* Mutant: the strong count is not looked at.
SameLock(p, s) == startLocks[s] # None /\ startLocks[s] = ref[p][s]

\* The entry of s is this very lock, and its strong count is two: the map's
\* reference and the caller's.
OnlyCallerRefers(p, s) ==
    /\ startLocks[s] # None
    /\ startLocks[s] = ref[p][s]
    /\ \A q \in Procs, t \in Serials :
           ref[q][t] = startLocks[s] => q = p /\ t = s

PruneEntry(p, s) ==
    startLocks' = IF OnlyCallerRefers(p, s)
                  THEN [startLocks EXCEPT ![s] = None]
                  ELSE startLocks

-----------------------------------------------------------------------------
(* start_session                                                           *)

\* The first check of the flag; a call that finds it set returns at once.
BeginStart(p, s) ==
    /\ p # Poller
    /\ pc[p] = "idle"
    /\ ~stoppingAll
    /\ Goto(p, "loadEpoch")
    /\ ser' = [ser EXCEPT ![p] = s]
    /\ UNCHANGED <<mapVars, lockVars, allVars, myEpoch, hand, overtaken>>

LoadEpoch(p) ==
    /\ pc[p] = "loadEpoch"
    /\ myEpoch' = [myEpoch EXCEPT ![p] = startEpoch]
    /\ Goto(p, "startLock")
    /\ UNCHANGED <<mapVars, lockVars, allVars, ser, hand, overtaken>>

CloneStartLock(p) ==
    /\ pc[p] = "startLock"
    /\ CloneLock(p, ser[p])
    /\ Goto(p, "startWait")
    /\ UNCHANGED <<mapVars, allVars, localVars>>

LockStart(p) ==
    /\ pc[p] = "startWait"
    /\ AcquireLock(p, "recheck")
    /\ UNCHANGED <<mapVars, allVars, localVars>>

\* Mutants: only the flag, or only the epoch, is compared.
FlagIsSet(p) == stoppingAll
EpochMoved(p) == startEpoch # myEpoch[p]

\* The flag and the epoch are two loads.  The flag is stored after the epoch
\* is bumped, so what the pair decides is what it would decide at the instant
\* of one of them: one step.
StopAllOverlaps(p) == stoppingAll \/ startEpoch # myEpoch[p]

Recheck(p) ==
    /\ pc[p] = "recheck"
    /\ Goto(p, IF StopAllOverlaps(p) THEN "unlock" ELSE "lookup")
    /\ UNCHANGED <<mapVars, lockVars, allVars, localVars>>

\* session(serial): no session is in the map, or a live one is returned, or a
\* dead one is cloned to be pruned.
LookupNone(p) ==
    /\ pc[p] = "lookup"
    /\ sessions[ser[p]] = None
    /\ Goto(p, "connect")
    /\ UNCHANGED <<mapVars, lockVars, allVars, localVars>>

LookupAlive(p) ==
    /\ pc[p] = "lookup"
    /\ sessions[ser[p]] \in alive
    /\ Goto(p, "unlock")
    /\ UNCHANGED <<mapVars, lockVars, allVars, localVars>>

LookupDead(p) ==
    /\ pc[p] = "lookup"
    /\ sessions[ser[p]] \in Sessions \ alive
    /\ hand' = [hand EXCEPT ![p] = {sessions[ser[p]]}]
    /\ Goto(p, "pruneOld")
    /\ UNCHANGED <<mapVars, lockVars, allVars, ser, myEpoch, overtaken>>

\* Mutant: the dead session is left in the map.
PruneOldForgotten(p) ==
    /\ pc[p] = "pruneOld"
    /\ sessions[ser[p]] \in hand[p]
    /\ Goto(p, "closeOld")
    /\ UNCHANGED <<mapVars, lockVars, allVars, localVars>>

\* The map is changed only if it still has the very session that was read.
PruneOld(p) ==
    /\ pc[p] = "pruneOld"
    /\ sessions[ser[p]] \in hand[p]
    /\ sessions' = [sessions EXCEPT ![ser[p]] = None]
    /\ Goto(p, "closeOld")
    /\ UNCHANGED <<alive, borrowed, lockVars, allVars, localVars>>

PruneOldGone(p) ==
    /\ pc[p] = "pruneOld"
    /\ sessions[ser[p]] \notin hand[p]
    /\ hand' = [hand EXCEPT ![p] = {}]
    /\ Goto(p, "connect")
    /\ UNCHANGED <<mapVars, lockVars, allVars, ser, myEpoch, overtaken>>

CloseOld(p) ==
    /\ pc[p] = "closeOld"
    /\ alive' = alive \ hand[p]
    /\ hand' = [hand EXCEPT ![p] = {}]
    /\ Goto(p, "connect")
    /\ UNCHANGED <<sessions, borrowed, lockVars, allVars, ser, myEpoch, overtaken>>

\* ScrcpySession::connect returns a running session, or an error.
ConnectOk(p, x) ==
    /\ pc[p] = "connect"
    /\ Dropped(x) /\ x \notin alive /\ x \notin borrowed
    /\ alive' = alive \cup {x}
    /\ hand' = [hand EXCEPT ![p] = {x}]
    /\ Goto(p, "publish")
    /\ UNCHANGED <<sessions, borrowed, lockVars, allVars, ser, myEpoch, overtaken>>

ConnectError(p) ==
    /\ pc[p] = "connect"
    /\ Goto(p, "unlock")
    /\ UNCHANGED <<mapVars, lockVars, allVars, localVars>>

\* Under the write lock of the map: the second check, then the insertion.
Publish(p, x) ==
    /\ pc[p] = "publish"
    /\ x \in hand[p]
    /\ ~StopAllOverlaps(p)
    /\ sessions' = [sessions EXCEPT ![ser[p]] = x]
    /\ hand' = [hand EXCEPT ![p] = {}]
    /\ Goto(p, "unlock")
    /\ UNCHANGED <<alive, borrowed, lockVars, allVars, ser, myEpoch, overtaken>>

PublishRefused(p) ==
    /\ pc[p] = "publish"
    /\ StopAllOverlaps(p)
    /\ Goto(p, "discard")
    /\ UNCHANGED <<mapVars, lockVars, allVars, localVars>>

-----------------------------------------------------------------------------
(* stop_session                                                            *)

BeginStop(p, s) ==
    /\ p # Poller
    /\ pc[p] = "idle"
    /\ Goto(p, "stopLock")
    /\ ser' = [ser EXCEPT ![p] = s]
    /\ UNCHANGED <<mapVars, lockVars, allVars, myEpoch, hand, overtaken>>

CloneStopLock(p) ==
    /\ pc[p] = "stopLock"
    /\ CloneLock(p, ser[p])
    /\ Goto(p, "stopWait")
    /\ UNCHANGED <<mapVars, allVars, localVars>>

LockStop(p) ==
    /\ pc[p] = "stopWait"
    /\ AcquireLock(p, "remove")
    /\ UNCHANGED <<mapVars, allVars, localVars>>

\* Mutant: what the map had is not looked at.
RemoveUnchecked(p) ==
    /\ pc[p] = "remove"
    /\ sessions' = [sessions EXCEPT ![ser[p]] = None]
    /\ hand' = [hand EXCEPT ![p] = {sessions[ser[p]]}]
    /\ Goto(p, "shutdown")
    /\ UNCHANGED <<alive, borrowed, lockVars, allVars, ser, myEpoch, overtaken>>

RemoveSession(p) ==
    /\ pc[p] = "remove"
    /\ sessions[ser[p]] # None
    /\ sessions' = [sessions EXCEPT ![ser[p]] = None]
    /\ hand' = [hand EXCEPT ![p] = {sessions[ser[p]]}]
    /\ Goto(p, "shutdown")
    /\ UNCHANGED <<alive, borrowed, lockVars, allVars, ser, myEpoch, overtaken>>

NothingToStop(p) ==
    /\ pc[p] = "remove"
    /\ sessions[ser[p]] = None
    /\ Goto(p, "unlock")
    /\ UNCHANGED <<mapVars, lockVars, allVars, localVars>>

-----------------------------------------------------------------------------
(* What start_session and stop_session have in common.                     *)

\* session.shutdown() clears `alive` before it first waits.
Shutdown(p) ==
    /\ pc[p] \in {"discard", "shutdown"}
    /\ alive' = alive \ hand[p]
    /\ Goto(p, "closing")
    /\ UNCHANGED <<sessions, borrowed, lockVars, allVars, localVars>>

\* The cleanup it waits for is over.
ShutdownDone(p) ==
    /\ pc[p] = "closing"
    /\ hand' = [hand EXCEPT ![p] = {}]
    /\ Goto(p, "unlock")
    /\ UNCHANGED <<mapVars, lockVars, allVars, ser, myEpoch, overtaken>>

\* drop(_guard)
Unlock(p) ==
    /\ pc[p] = "unlock"
    /\ holder' = [holder EXCEPT ![ref[p][ser[p]]] = None]
    /\ Goto(p, "prune")
    /\ UNCHANGED <<mapVars, startLocks, ref, allVars, localVars>>

PruneStartLock(p) ==
    /\ pc[p] = "prune"
    /\ PruneEntry(p, ser[p])
    /\ Goto(p, "return")
    /\ UNCHANGED <<mapVars, holder, ref, allVars, localVars>>

\* The caller's clone of the lock goes when the function returns.
Return(p) ==
    /\ pc[p] = "return"
    /\ ref' = [ref EXCEPT ![p] = NoRefs]
    /\ ser' = [ser EXCEPT ![p] = None]
    /\ myEpoch' = [myEpoch EXCEPT ![p] = 0]
    /\ Goto(p, "idle")
    /\ overtaken' = [overtaken EXCEPT ![p] = {}]
    /\ UNCHANGED <<mapVars, startLocks, holder, allVars, hand>>

-----------------------------------------------------------------------------
(* stop_all_sessions                                                       *)

BeginStopAll(p) ==
    /\ p # Poller
    /\ pc[p] = "idle"
    /\ startEpoch + Cardinality({q \in Procs : pc[q] \in {"gateWait", "bump"}})
           < MaxEpoch
    /\ Goto(p, "gateWait")
    /\ UNCHANGED <<mapVars, lockVars, allVars, localVars>>

LockGate(p) ==
    /\ pc[p] = "gateWait"
    /\ stopAllGate = None
    /\ stopAllGate' = p
    /\ Goto(p, "bump")
    /\ UNCHANGED <<mapVars, lockVars, stoppingAll, startEpoch, localVars>>

BumpEpoch(p) ==
    /\ pc[p] = "bump"
    /\ startEpoch' = startEpoch + 1
    /\ Goto(p, "setFlag")
    /\ overtaken' = [q \in Procs |->
                        IF pc[q] \in StartPcs \ {"loadEpoch"}
                        THEN overtaken[q] \cup {"bump"} ELSE overtaken[q]]
    /\ UNCHANGED <<mapVars, lockVars, stoppingAll, stopAllGate, ser, myEpoch, hand>>

SetFlag(p) ==
    /\ pc[p] = "setFlag"
    /\ stoppingAll' = TRUE
    /\ Goto(p, "drain")
    /\ UNCHANGED <<mapVars, lockVars, startEpoch, stopAllGate, localVars>>

Drain(p) ==
    /\ pc[p] = "drain"
    /\ hand' = [hand EXCEPT ![p] = {sessions[s] : s \in Serials} \ {None}]
    /\ sessions' = [s \in Serials |-> None]
    /\ Goto(p, "kill")
    /\ overtaken' = [q \in Procs |->
                        IF pc[q] \in {"connect", "publish"}
                        THEN overtaken[q] \cup {"drain"} ELSE overtaken[q]]
    /\ UNCHANGED <<alive, borrowed, lockVars, allVars, ser, myEpoch>>

\* The spawned tasks shut the drained sessions down in any order.
KillOne(p, x) ==
    /\ pc[p] = "kill"
    /\ x \in hand[p]
    /\ alive' = alive \ {x}
    /\ hand' = [hand EXCEPT ![p] = @ \ {x}]
    /\ UNCHANGED <<sessions, borrowed, lockVars, allVars, pc, ser, myEpoch, overtaken>>

\* tasks.join_next() has none left; the lock map is cloned.
SnapshotLocks(p) ==
    /\ pc[p] = "kill"
    /\ hand[p] = {}
    /\ ref' = [ref EXCEPT ![p] = startLocks]
    /\ Goto(p, "pruneAll")
    /\ UNCHANGED <<mapVars, startLocks, holder, allVars, localVars>>

PruneOne(p, s) ==
    /\ pc[p] = "pruneAll"
    /\ ref[p][s] # None
    /\ PruneEntry(p, s)
    /\ ref' = [ref EXCEPT ![p][s] = None]
    /\ UNCHANGED <<mapVars, holder, allVars, pc, localVars>>

\* The guard of the flag is dropped before the gate.
FinishStopAll(p) ==
    /\ pc[p] = "pruneAll"
    /\ ref[p] = NoRefs
    /\ stoppingAll' = FALSE
    /\ Goto(p, "openGate")
    /\ UNCHANGED <<mapVars, lockVars, startEpoch, stopAllGate, localVars>>

UnlockGate(p) ==
    /\ pc[p] = "openGate"
    /\ stopAllGate' = None
    /\ Goto(p, "idle")
    /\ UNCHANGED <<mapVars, lockVars, stoppingAll, startEpoch, localVars>>

-----------------------------------------------------------------------------
(* session(serial) for one serial, sessions() for all of them.             *)

Stale(S) == {x \in Sessions \ alive : \E s \in S : sessions[s] = x}

\* Read lock: the dead sessions are cloned.  Live ones are only returned.
BeginLook(p, S) ==
    /\ pc[p] = "idle"
    /\ Stale(S) # {}
    /\ hand' = [hand EXCEPT ![p] = Stale(S)]
    /\ Goto(p, "lookPrune")
    /\ UNCHANGED <<mapVars, lockVars, allVars, ser, myEpoch, overtaken>>

\* Mutant: the dead session is left in the map.
LookPruneForgotten(p) ==
    /\ pc[p] = "lookPrune"
    /\ Goto(p, "lookClose")
    /\ UNCHANGED <<mapVars, lockVars, allVars, localVars>>

\* Mutant: whatever the map has for the serial by now is removed.
LookPruneBySerial(p) ==
    /\ pc[p] = "lookPrune"
    /\ sessions' = [s \in Serials |-> None]
    /\ hand' = [hand EXCEPT ![p] = {x \in @ : InMap(x)}]
    /\ Goto(p, "lookClose")
    /\ UNCHANGED <<alive, borrowed, lockVars, allVars, ser, myEpoch, overtaken>>

\* Write lock: those still in the map are removed, by identity.
LookPrune(p) ==
    /\ pc[p] = "lookPrune"
    /\ sessions' = [s \in Serials |->
                       IF sessions[s] \in hand[p] THEN None ELSE sessions[s]]
    /\ hand' = [hand EXCEPT ![p] = {x \in @ : InMap(x)}]
    /\ Goto(p, "lookClose")
    /\ UNCHANGED <<alive, borrowed, lockVars, allVars, ser, myEpoch, overtaken>>

LookClose(p) ==
    /\ pc[p] = "lookClose"
    /\ alive' = alive \ hand[p]
    /\ hand' = [hand EXCEPT ![p] = {}]
    /\ Goto(p, "idle")
    /\ UNCHANGED <<sessions, borrowed, lockVars, allVars, ser, myEpoch, overtaken>>

-----------------------------------------------------------------------------
(* The environment.                                                        *)

\* The video socket fails, or the deep-idle hook runs.
Die(x) ==
    /\ x \in alive
    /\ alive' = alive \ {x}
    /\ UNCHANGED <<sessions, borrowed, lockVars, allVars, pc, localVars>>

\* A handler or a script that looked a live session up keeps an Arc of it.
Borrow(x) ==
    /\ x \in alive /\ InMap(x) /\ x \notin borrowed
    /\ borrowed' = borrowed \cup {x}
    /\ UNCHANGED <<sessions, alive, lockVars, allVars, pc, localVars>>

\* Mutant: ScrcpySession without a Drop.
GiveBackNoDrop(x) ==
    /\ x \in borrowed
    /\ borrowed' = borrowed \ {x}
    /\ UNCHANGED <<sessions, alive, lockVars, allVars, pc, localVars>>

\* The last Arc to go runs Drop for ScrcpySession.
GiveBack(x) ==
    /\ x \in borrowed
    /\ borrowed' = borrowed \ {x}
    /\ alive' = IF Dropped(x) THEN alive \ {x} ELSE alive
    /\ UNCHANGED <<sessions, lockVars, allVars, pc, localVars>>

\* The awaits at which a call can be suspended, hence cancelled.
StartStopAwaits == {"startWait", "lookup", "pruneOld", "closeOld", "connect",
                    "publish", "stopWait", "remove", "closing"}
StopAllAwaits == {"gateWait", "drain", "kill"}
LookAwaits == {"lookPrune", "lookClose"}

\* The locals that hold sessions go; a session of which that was the last Arc
\* is shut down by its Drop.
DropHand(p) ==
    /\ alive' = alive \ {x \in hand[p] \ borrowed : ~InMap(x)
                             /\ \A q \in Procs \ {p} : x \notin hand[q]}
    /\ hand' = [hand EXCEPT ![p] = {}]
    /\ UNCHANGED <<sessions, borrowed>>

\* Mutant: the start lock is not released by a guard.
CancelKeepsLock(p) ==
    /\ pc[p] \in StartStopAwaits
    /\ DropHand(p)
    /\ Goto(p, "return")
    /\ UNCHANGED <<lockVars, allVars, ser, myEpoch, overtaken>>

\* The guard of the start lock goes with them, then the clone of the lock,
\* which nobody prunes.
CancelStartStop(p) ==
    /\ pc[p] \in StartStopAwaits
    /\ DropHand(p)
    /\ holder' = [l \in Locks |-> IF holder[l] = p THEN None ELSE holder[l]]
    /\ Goto(p, "return")
    /\ UNCHANGED <<startLocks, ref, allVars, ser, myEpoch, overtaken>>

\* Mutant: the flag is reset at the end of stop_all_sessions only.
CancelKeepsFlag(p) ==
    /\ pc[p] \in StopAllAwaits
    /\ DropHand(p)
    /\ Goto(p, IF stopAllGate = p THEN "openGate" ELSE "idle")
    /\ UNCHANGED <<lockVars, allVars, ser, myEpoch, overtaken>>

\* StopAllFlag's destructor resets the flag, then the gate is opened.
CancelStopAll(p) ==
    /\ pc[p] \in StopAllAwaits
    /\ DropHand(p)
    /\ stoppingAll' = (stoppingAll /\ stopAllGate # p)
    /\ Goto(p, IF stopAllGate = p THEN "openGate" ELSE "idle")
    /\ UNCHANGED <<lockVars, startEpoch, stopAllGate, ser, myEpoch, overtaken>>

CancelLook(p) ==
    /\ p # Poller
    /\ pc[p] \in LookAwaits
    /\ DropHand(p)
    /\ Goto(p, "idle")
    /\ UNCHANGED <<lockVars, allVars, ser, myEpoch, overtaken>>

Cancel(p) == CancelStartStop(p) \/ CancelStopAll(p) \/ CancelLook(p)

-----------------------------------------------------------------------------
\* The steps of each kind of call, the ones that wait for a mutex apart.
StartStep(p) ==
    \/ LoadEpoch(p) \/ CloneStartLock(p) \/ Recheck(p)
    \/ LookupNone(p) \/ LookupAlive(p) \/ LookupDead(p)
    \/ PruneOld(p) \/ PruneOldGone(p) \/ CloseOld(p)
    \/ (\E x \in Sessions : ConnectOk(p, x) \/ Publish(p, x))
    \/ ConnectError(p) \/ PublishRefused(p)

StopStep(p) == CloneStopLock(p) \/ RemoveSession(p) \/ NothingToStop(p)

TailStep(p) ==
    \/ Shutdown(p) \/ ShutdownDone(p) \/ Unlock(p) \/ PruneStartLock(p) \/ Return(p)

StopAllStep(p) ==
    \/ BumpEpoch(p) \/ SetFlag(p) \/ Drain(p) \/ (\E x \in Sessions : KillOne(p, x))
    \/ SnapshotLocks(p) \/ (\E s \in Serials : PruneOne(p, s))
    \/ FinishStopAll(p) \/ UnlockGate(p)

LookStep(p) == LookPrune(p) \/ LookClose(p)

Run(p) == StartStep(p) \/ StopStep(p) \/ TailStep(p) \/ StopAllStep(p) \/ LookStep(p)

Acquire(p) == LockStart(p) \/ LockStop(p) \/ LockGate(p)

Begin(p) ==
    \/ \E s \in Serials : BeginStart(p, s) \/ BeginStop(p, s) \/ BeginLook(p, {s})
    \/ BeginStopAll(p)
    \/ BeginLook(p, Serials)

Environment == \E x \in Sessions : Die(x) \/ Borrow(x) \/ GiveBack(x)

Next ==
    \/ \E p \in Procs : Begin(p) \/ Run(p) \/ Acquire(p) \/ Cancel(p)
    \/ Environment

\* The steps that are sure to come.  A connection need never be made nor fail:
\* connect() reads the device's name, its codec and the first header without a
\* timeout (session.rs:1101-1112), so a server that accepts and stays silent
\* keeps it waiting until the call is cancelled.  Every other wait of a call is
\* for a lock or has its timeout.
Progress(p) == pc[p] # "connect" /\ Run(p)

\* A task that can run is eventually polled; tokio's Mutex serves its waiters
\* in the order they came; the daemon polls for ever.
Fairness ==
    /\ \A p \in Procs : WF_vars(Progress(p)) /\ SF_vars(Acquire(p))
    /\ WF_vars(BeginLook(Poller, Serials))

Spec == Init /\ [][Next]_vars
FairSpec == Spec /\ Fairness

-----------------------------------------------------------------------------
(* Properties.                                                             *)

\* What a call may still do to the map.  A start may insert as long as the epoch
\* it has read is current.
Role(p) ==
    CASE pc[p] \in StartPcs \ {"loadEpoch"} /\ myEpoch[p] = startEpoch -> "start"
      [] pc[p] \in {"stopLock", "stopWait", "remove"} -> "stop"
      [] pc[p] \in {"setFlag", "drain"} -> "clear"
      [] OTHER -> "none"

Registry == INSTANCE SessionRegistry
                WITH registry <- sessions, live <- {x \in alive : InMap(x)},
                     role <- [p \in Procs |-> Role(p)], Calls <- Procs

\* The locks, the flag and the epoch together make the calls look atomic: every
\* step of the detailed registry is one step of SessionRegistry, or none.  So a
\* session is pruned only when it is dead (the lookups compare identities
\* before they remove), a stop takes exactly one out, and a start that a
\* stop-all overtook registers nothing.
ImplementsRegistry == Registry!Spec

\* Types of the variables.
TypeOK ==
    /\ sessions \in [Serials -> Sessions \cup {None}]
    /\ startLocks \in [Serials -> Locks \cup {None}]
    /\ holder \in [Locks -> Procs \cup {None}]
    /\ stoppingAll \in BOOLEAN
    /\ startEpoch \in Nat
    /\ stopAllGate \in Procs \cup {None}
    /\ alive \subseteq Sessions
    /\ borrowed \subseteq Sessions
    /\ pc \in [Procs -> Pcs]
    /\ ser \in [Procs -> Serials \cup {None}]
    /\ ref \in [Procs -> [Serials -> Locks \cup {None}]]
    /\ myEpoch \in [Procs -> Nat]
    /\ hand \in [Procs -> SUBSET Sessions]
    /\ overtaken \in [Procs -> SUBSET {"bump", "drain"}]

\* start_session and stop_session of one serial exclude each other, although
\* the mutex that serialises them is itself created and pruned on the fly: two
\* calls are never past the lock together.
StartStopExclusive ==
    \A p, q \in Procs :
        /\ pc[p] \in LockedPcs /\ pc[q] \in LockedPcs
        /\ ser[p] = ser[q]
        => p = q

\* A live session can be found: it is in the map, in the hands of the call
\* that will publish it or shut it down, or in use by whoever keeps it from
\* being dropped.  A session in none of these would stream for ever with
\* nobody able to stop it.
LiveIsReachable ==
    \A x \in alive : ~Dropped(x) \/ x \in borrowed

\* Whatever happens to stop_all_sessions, its flag does not outlive it: when it
\* is set, some call is inside, so starts are not refused for ever.
FlagHasOwner ==
    stoppingAll => /\ stopAllGate # None
                   /\ pc[stopAllGate] \in {"drain", "kill", "pruneAll"}

\* While a stop-all that has drained the map is at work, the map stays empty:
\* a start that was connecting meanwhile finds the flag when it publishes.
StopAllKeepsMapEmpty ==
    \A p \in Procs :
        pc[p] \in {"kill", "pruneAll"} => \A s \in Serials : sessions[s] = None

\* The call publishes the session it has connected.
Publishes(p) == pc[p] = "publish" /\ pc'[p] = "unlock"

\* A start that had read its epoch when a stop-all began never publishes,
\* even when the whole stop-all went by while it was connecting.
StopAllWins == [][\A p \in Procs : "bump" \in overtaken[p] => ~Publishes(p)]_vars

\* manager.rs:31-33: a start that was already in the connection phase must not
\* insert its result after that stop operation has drained the session map.
ConnectingStartIsFenced ==
    [][\A p \in Procs : "drain" \in overtaken[p] => ~Publishes(p)]_vars

\* A published session is taken out before another of the same serial is put
\* in: an insertion never overwrites, and so never loses, a session.
NeverOverwritten ==
    [][\A s \in Serials :
          sessions[s] # None /\ sessions'[s] # sessions[s] => sessions'[s] = None]_vars

\* The call waits for a silent server.
Hangs(p) == pc[p] = "connect"

\* Only a silent server keeps a call from returning, and only the calls of its own
\* serial: a start or a stop that does not return is, or is behind, one start of
\* that serial that connects for ever.  Starts and stops of other serials, lookups
\* and stop-alls return, whatever connects and whatever is cancelled.
CallsReturn ==
    \A p \in Procs : \/ []<>(pc[p] = "idle")
                     \/ \E q \in Procs : <>[](Hangs(q) /\ ser[q] = ser[p])

\* A session that died leaves the map, so its serial can be started again.
DeadArePruned ==
    \A s \in Serials, x \in Sessions :
        sessions[s] = x /\ x \notin alive ~> sessions[s] # x
=============================================================================
