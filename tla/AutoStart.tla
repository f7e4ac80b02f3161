----------------------------- MODULE AutoStart -----------------------------
(***************************************************************************)
(* Which sessions the daemon keeps running without being asked             *)
(* (crates/forge-daemon/src/main.rs): the polling task scans for devices   *)
(* and starts a session on every ready one; a serial that was stopped by   *)
(* hand is blocked until it is started by hand or disappears.  The HTTP    *)
(* handlers that scan, start and stop run at the same time.                *)
(*                                                                         *)
(* The sessions themselves are those of SessionRegistry, which             *)
(* SessionManager implements.  A worker is the poller or a handler in      *)
(* flight; it has at most one task for each serial.                        *)
(***************************************************************************)
EXTENDS Naturals, FiniteSets

CONSTANTS Serials, Sessions, None,
          Poller,     \* the polling task
          Handlers,   \* HTTP handlers that can be in flight at once
          Permits     \* SCRCPYFORGE_SESSION_START_CONCURRENCY, from 1 to 8

ASSUME AutoStartAssumption ==
    /\ Permits \in Nat \ {0}
    /\ Poller \notin Handlers
    /\ None \notin Sessions

VARIABLES
    registry, live, role,   \* the registry of sessions
    attached,   \* the serials that adb reports as ready
    devices,    \* the ready serials of the manager's last snapshot
    scanGate,   \* the worker that holds scan_gate
    blocked,    \* session_autostart_blocked
    pc,         \* where each worker is
    seen,       \* the ready serials each worker's scan returned
    targets,    \* the serials a worker has still to spawn a task for
    task,       \* where each task is
    stopped,    \* history: blocked serials whose manual stop has returned
    sealed      \* history: those that nothing was about to start at that time

registryVars == <<registry, live, role>>
history == <<stopped, sealed>>
scanVars == <<attached, devices, scanGate>>
workVars == <<pc, seen, targets, task>>
vars == <<registryVars, scanVars, blocked, workVars, history>>

Workers == Handlers \cup {Poller}
Calls == Workers \cup (Workers \X Serials)

Registry == INSTANCE SessionRegistry

Pcs == {"idle", "gate", "read", "snapshot", "retain", "sweep", "supervise",
        "list", "startAll", "stop", "fence", "clear"}
TaskPcs == {"none", "check", "look", "start", "lookup", "connect"}

Goto(w, label) == pc' = [pc EXCEPT ![w] = label]
TaskTo(w, s, label) == task' = [task EXCEPT ![w][s] = label]

\* A poll ends with the supervision of the sessions, a request with its answer.
AfterSweep(w) == IF w = Poller THEN "supervise" ELSE "idle"

Init ==
    /\ Registry!Init
    /\ attached \in SUBSET Serials
    /\ devices = {}
    /\ scanGate = None
    /\ blocked = {}
    /\ pc = [w \in Workers |-> "idle"]
    /\ seen = [w \in Workers |-> {}]
    /\ targets = [w \in Workers |-> {}]
    /\ task = [w \in Workers |-> [s \in Serials |-> "none"]]
    /\ stopped = {}
    /\ sealed = {}

-----------------------------------------------------------------------------
(* DeviceManager::scan                                                     *)

\* The poller's sleep is over; or a request to scan.
BeginScan(w) ==
    /\ pc[w] = "idle"
    /\ Goto(w, "gate")
    /\ UNCHANGED <<registryVars, scanVars, blocked, seen, targets, task, history>>

\* `adb connect` has been tried on the devices of S.
AdbConnect(S) == attached' = attached \cup S

\* What mDNS shows: any of the devices that adb has not got.
Discovered == SUBSET (Serials \ attached)

\* A request to connect an endpoint, and a scan after it.
Connect(h, s) ==
    /\ pc[h] = "idle"
    /\ AdbConnect({s})
    /\ Goto(h, "gate")
    /\ UNCHANGED <<registryVars, devices, scanGate, blocked, seen, targets, task, history>>

\* `adb pair`: adb connects the device by itself, or by its mDNS service, or not
\* in time.
AdbPair == \E S \in Discovered : Cardinality(S) <= 1 /\ AdbConnect(S)

\* A request to pair a device, and a scan after it.
Pair(h) ==
    /\ pc[h] = "idle"
    /\ AdbPair
    /\ Goto(h, "gate")
    /\ UNCHANGED <<registryVars, devices, scanGate, blocked, seen, targets, task, history>>

LockScan(w) ==
    /\ pc[w] = "gate"
    /\ scanGate = None
    /\ scanGate' = w
    /\ Goto(w, "read")
    /\ UNCHANGED <<registryVars, attached, devices, blocked, seen, targets, task, history>>

\* The endpoints that mDNS shows are tried, ten seconds or more after the last
\* time, and the devices are read again.
Probe(w) ==
    /\ pc[w] = "read"
    /\ \E S \in Discovered : AdbConnect(S)
    /\ UNCHANGED <<registryVars, devices, scanGate, blocked, workVars, history>>

\* adb devices; of two addresses of one device only one is kept.
ReadDevices(w) ==
    /\ pc[w] = "read"
    /\ seen' = [seen EXCEPT ![w] = attached]
    /\ Goto(w, "snapshot")
    /\ UNCHANGED <<registryVars, scanVars, blocked, targets, task, history>>

ScanFails(w) ==
    /\ pc[w] = "read"
    /\ scanGate' = None
    /\ Goto(w, AfterSweep(w))
    /\ UNCHANGED <<registryVars, attached, devices, blocked, seen, targets, task, history>>

TakeSnapshot(w) ==
    /\ pc[w] = "snapshot"
    /\ devices' = seen[w]
    /\ scanGate' = None
    /\ Goto(w, "retain")
    /\ UNCHANGED <<registryVars, attached, blocked, seen, targets, task, history>>

-----------------------------------------------------------------------------
(* ensure_sessions_for_devices                                             *)

\* The history of the serials of S ends: they are no longer stopped by hand.
Unseal(S) ==
    /\ stopped' = stopped \ S
    /\ sealed' = sealed \ S

\* Blocks of devices that the scan did not see are dropped; the rest is cloned.
Retain(w) ==
    /\ pc[w] = "retain"
    /\ blocked' = blocked \cap seen[w]
    /\ Unseal(Serials \ seen[w])
    /\ targets' = [targets EXCEPT ![w] = seen[w] \ blocked]
    /\ seen' = [seen EXCEPT ![w] = {}]
    /\ Goto(w, "sweep")
    /\ UNCHANGED <<registryVars, scanVars, task>>

Busy(w) == {s \in Serials : task[w][s] # "none"}

PermitFree(w) == Cardinality(Busy(w)) < Permits

\* An auto-start task begins with the re-check, a start-all task does not.
Spawn(w, s) ==
    /\ pc[w] \in {"sweep", "startAll"}
    /\ s \in targets[w]
    /\ PermitFree(w)
    /\ targets' = [targets EXCEPT ![w] = @ \ {s}]
    /\ TaskTo(w, s, IF pc[w] = "sweep" THEN "check" ELSE "start")
    /\ Unseal(IF pc[w] = "sweep" THEN {} ELSE {s})
    /\ UNCHANGED <<registryVars, scanVars, blocked, pc, seen>>

\* Mutant: the set as it was when the tasks were spawned is believed.
NoCheck(w, s) ==
    /\ task[w][s] = "check"
    /\ TaskTo(w, s, "look")
    /\ UNCHANGED <<registryVars, scanVars, blocked, pc, seen, targets, history>>

Check(w, s) ==
    /\ task[w][s] = "check"
    /\ TaskTo(w, s, IF s \in blocked THEN "none" ELSE "look")
    /\ UNCHANGED <<registryVars, scanVars, blocked, pc, seen, targets, history>>

\* manager.session(): a dead session is pruned and not returned.
Look(w, s) ==
    /\ task[w][s] = "look"
    /\ Registry!Prune({t \in {s} : registry[s] # None /\ ~Registry!Running(s)})
    /\ TaskTo(w, s, IF Registry!Running(s) THEN "none" ELSE "start")
    /\ UNCHANGED <<scanVars, blocked, pc, seen, targets, history>>

\* manager.start_session() is called, ...
Start(w, s) ==
    /\ task[w][s] = "start"
    /\ Registry!Begin(<<w, s>>, "start")
    /\ TaskTo(w, s, "lookup")
    /\ UNCHANGED <<scanVars, blocked, pc, seen, targets, history>>

\* The start lock of the serial is held.
Locked(s) == \E w \in Workers : task[w][s] = "connect"

\* ... takes the start lock, prunes a dead session, ...
Replace(w, s) ==
    /\ task[w][s] = "lookup" /\ ~Locked(s)
    /\ ~Registry!Running(s)
    /\ Registry!Prune({t \in {s} : registry[t] # None})
    /\ TaskTo(w, s, "connect")
    /\ UNCHANGED <<scanVars, blocked, pc, seen, targets, history>>

\* ... connects and registers a new one, ...
Open(w, s) ==
    /\ task[w][s] = "connect"
    /\ s \in attached
    /\ \E x \in Sessions : Registry!Register(<<w, s>>, s, x)
    /\ TaskTo(w, s, "none")
    /\ UNCHANGED <<scanVars, blocked, pc, seen, targets, history>>

\* ... or returns: a session is running, the connection failed, a stop-all
\* overtook it.
Abandon(w, s) ==
    /\ \/ task[w][s] = "connect"
       \/ task[w][s] = "lookup" /\ ~Locked(s) /\ Registry!Running(s)
    /\ Registry!End(<<w, s>>)
    /\ TaskTo(w, s, "none")
    /\ UNCHANGED <<scanVars, blocked, pc, seen, targets, history>>

\* tasks.join_next() has none left.
Join(w) ==
    /\ pc[w] \in {"sweep", "startAll"}
    /\ targets[w] = {} /\ Busy(w) = {}
    /\ Goto(w, AfterSweep(w))
    /\ UNCHANGED <<registryVars, scanVars, blocked, seen, targets, task, history>>

\* manager.sessions()
PruneDead == Registry!Prune({s \in Serials : registry[s] # None /\ ~Registry!Running(s)})

\* At the end of a poll.
Supervise ==
    /\ pc[Poller] = "supervise"
    /\ PruneDead
    /\ Goto(Poller, "idle")
    /\ UNCHANGED <<scanVars, blocked, seen, targets, task, history>>

-----------------------------------------------------------------------------
(* The handlers that list, start and stop sessions.                        *)

ListSessions(h) ==
    /\ pc[h] = "idle"
    /\ PruneDead
    /\ UNCHANGED <<scanVars, blocked, workVars, history>>

StartSession(h, s) ==
    /\ pc[h] = "idle"
    /\ blocked' = blocked \ {s}
    /\ Unseal({s})
    /\ TaskTo(h, s, "start")
    /\ Goto(h, "startAll")
    /\ UNCHANGED <<registryVars, scanVars, seen, targets>>

\* Mutant: every block is removed, also that of a device the snapshot lacks.
StartAllUnblocksAll(h) ==
    /\ pc[h] = "idle"
    /\ blocked' = {}
    /\ Unseal(devices)
    /\ Goto(h, "list")
    /\ UNCHANGED <<registryVars, scanVars, seen, targets, task>>

\* The blocks of the ready devices are removed; then the snapshot is read again.
StartAll(h) ==
    /\ pc[h] = "idle"
    /\ blocked' = blocked \ devices
    /\ Unseal(devices)
    /\ Goto(h, "list")
    /\ UNCHANGED <<registryVars, scanVars, seen, targets, task>>

ListDevices(h) ==
    /\ pc[h] = "list"
    /\ targets' = [targets EXCEPT ![h] = devices]
    /\ Goto(h, "startAll")
    /\ UNCHANGED <<registryVars, scanVars, blocked, seen, task, history>>

\* The serial is blocked before its session is stopped.
StopSession(h, s) ==
    /\ pc[h] = "idle"
    /\ blocked' = blocked \cup {s}
    /\ targets' = [targets EXCEPT ![h] = {s}]
    /\ Registry!Begin(<<h, s>>, "stop")
    /\ Goto(h, "stop")
    /\ UNCHANGED <<scanVars, seen, task, history>>

\* Past the re-check of the blocked set, or a start by hand.
Starting(s) == \E w \in Workers : task[w][s] \in {"look", "start", "lookup", "connect"}

\* The manual stop of the serials of S is over.
Seal(S) ==
    /\ stopped' = stopped \cup (S \cap blocked)
    /\ sealed' = sealed \cup {s \in S \cap blocked : ~Starting(s)}

Stopped(h, s) ==
    /\ pc[h] = "stop" /\ s \in targets[h] /\ ~Locked(s)
    /\ \/ Registry!Stop(<<h, s>>, s)
       \/ registry[s] = None /\ Registry!End(<<h, s>>)
    /\ targets' = [targets EXCEPT ![h] = {}]
    /\ Seal({s})
    /\ Goto(h, "idle")
    /\ UNCHANGED <<scanVars, blocked, seen, task>>

StopAll(h) ==
    /\ pc[h] = "idle"
    /\ blocked' = blocked \cup devices
    /\ Goto(h, "fence")
    /\ UNCHANGED <<registryVars, scanVars, seen, targets, task, history>>

FenceStarts(h) ==
    /\ pc[h] = "fence"
    /\ Registry!Fence(h)
    /\ Goto(h, "clear")
    /\ UNCHANGED <<scanVars, blocked, seen, targets, task, history>>

ClearSessions(h) ==
    /\ pc[h] = "clear"
    /\ Registry!Clear(h)
    /\ Seal(Serials)
    /\ Goto(h, "idle")
    /\ UNCHANGED <<scanVars, blocked, seen, targets, task>>

\* Mutant: the scan gate is not released by a guard.
CancelKeepsGate(h) ==
    /\ pc[h] # "idle"
    /\ Goto(h, "idle")
    /\ seen' = [seen EXCEPT ![h] = {}]
    /\ targets' = [targets EXCEPT ![h] = {}]
    /\ task' = [task EXCEPT ![h] = [s \in Serials |-> "none"]]
    /\ UNCHANGED <<registryVars, scanVars, blocked, history>>

\* The client goes away: the handler's future is dropped, and with it the guard
\* of the scan gate and the JoinSet, which aborts the tasks.
Cancel(h) ==
    /\ pc[h] # "idle"
    /\ Goto(h, "idle")
    /\ scanGate' = IF scanGate = h THEN None ELSE scanGate
    /\ seen' = [seen EXCEPT ![h] = {}]
    /\ targets' = [targets EXCEPT ![h] = {}]
    /\ task' = [task EXCEPT ![h] = [s \in Serials |-> "none"]]
    /\ role' = [c \in Calls |-> IF c = h \/ c \in {h} \X Serials THEN "none"
                                                                ELSE role[c]]
    /\ UNCHANGED <<registry, live, attached, devices, blocked, history>>

-----------------------------------------------------------------------------
(* The environment.                                                        *)

Plug(s) ==
    /\ s \notin attached
    /\ attached' = attached \cup {s}
    /\ UNCHANGED <<registryVars, devices, scanGate, blocked, workVars, history>>

Unplug(s) ==
    /\ s \in attached
    /\ attached' = attached \ {s}
    /\ Registry!Die(registry[s])
    /\ UNCHANGED <<devices, scanGate, blocked, workVars, history>>

\* The stream fails, or the deep-idle hook stops the session.
SessionDies(s) ==
    /\ Registry!Running(s)
    /\ Registry!Die(registry[s])
    /\ UNCHANGED <<scanVars, blocked, workVars, history>>

-----------------------------------------------------------------------------
TaskStep(w) ==
    \E s \in Serials : \/ Spawn(w, s) \/ Check(w, s) \/ Look(w, s) \/ Start(w, s)
                       \/ Replace(w, s) \/ Open(w, s) \/ Abandon(w, s)

ScanStep(w) == ReadDevices(w) \/ ScanFails(w) \/ TakeSnapshot(w) \/ Retain(w)

WorkStep(w) == ScanStep(w) \/ TaskStep(w) \/ Join(w)

HandlerStep(h) ==
    \/ ListDevices(h) \/ FenceStarts(h) \/ ClearSessions(h)
    \/ \E s \in Serials : Stopped(h, s)

Request(h) ==
    \/ StartAll(h) \/ StopAll(h)
    \/ ListSessions(h) \/ Pair(h)
    \/ \E s \in Serials : StartSession(h, s) \/ StopSession(h, s) \/ Connect(h, s)

Environment == \E s \in Serials : Plug(s) \/ Unplug(s) \/ SessionDies(s)

Next ==
    \/ \E w \in Workers : BeginScan(w) \/ LockScan(w) \/ Probe(w) \/ WorkStep(w)
    \/ Supervise
    \/ \E h \in Handlers : Request(h) \/ HandlerStep(h) \/ Cancel(h)
    \/ Environment

\* The steps of a task that are sure to come.  A connection need never be made nor
\* fail: the reads of ScrcpySession::connect have no timeout (session.rs:1101-1112).
Progress(w, s) ==
    task[w][s] # "connect" /\ (Check(w, s) \/ Look(w, s) \/ Start(w, s))

\* What a start does as soon as it has the start lock.
LockStart(w, s) == task[w][s] = "lookup" /\ (Replace(w, s) \/ Abandon(w, s))

Fill(w) == \E s \in Serials : Spawn(w, s)

\* The poller polls for ever; a worker or a task that can run is run; tokio's Mutex
\* serves its waiters in order.  A scan succeeds at last if it is tried again and
\* again.  Of starts nothing is assumed: they may fail, or connect for ever.
Fairness ==
    /\ WF_vars(BeginScan(Poller)) /\ WF_vars(Supervise)
    /\ SF_vars(LockScan(Poller)) /\ SF_vars(ReadDevices(Poller))
    /\ \A w \in Workers : WF_vars(ScanStep(w))
    /\ WF_vars(Fill(Poller) \/ Join(Poller))
    /\ \A s \in Serials : /\ WF_vars(Progress(Poller, s))
                         /\ SF_vars(LockStart(Poller, s))

Spec == Init /\ [][Next]_vars
FairSpec == Spec /\ Fairness

-----------------------------------------------------------------------------
(* Properties.                                                             *)

\* Types of the variables.
TypeOK ==
    /\ registry \in [Serials -> Sessions \cup {None}]
    /\ live \subseteq Sessions
    /\ role \in [Calls -> Registry!Roles]
    /\ attached \subseteq Serials /\ devices \subseteq Serials
    /\ scanGate \in Workers \cup {None}
    /\ blocked \subseteq Serials
    /\ pc \in [Workers -> Pcs]
    /\ seen \in [Workers -> SUBSET Serials]
    /\ targets \in [Workers -> SUBSET Serials]
    /\ task \in [Workers -> [Serials -> TaskPcs]]
    /\ sealed \subseteq stopped /\ stopped \subseteq blocked

\* A session that was stopped by hand stays stopped: once the stop has returned
\* and no start that passed the re-check before it is left, the serial has no
\* session until somebody starts it or its block is dropped, however many
\* auto-starts of it were queued.
StoppedStaysStopped == \A s \in sealed : registry[s] = None

\* main.rs:429-430, "Re-check after waiting for a start slot so a simultaneous
\* manual stop wins over an auto-start that was queued earlier": no auto-start
\* opens a session on a serial whose manual stop is over and still in force.
ManualStopWins ==
    [][\A w \in Workers, s \in Serials :
          pc[w] = "sweep" /\ Open(w, s) => s \notin stopped]_vars

\* A start of s is under way and connects.
Connecting(s) == \E w \in Workers : task[w][s] = "connect"

\* README.md:65, "The daemon automatically starts a scrcpy session for every
\* connected device": a device that stays there and is not blocked has a session,
\* or is connected to once more, again and again, though its sessions die and scans
\* and starts fail.  Only one thing ends this: the poller waits for all the starts
\* of a scan (main.rs:449), and one of them connects for ever, or waits behind a
\* start that does.  So a server that accepts and stays silent ends the service of
\* every device.
DevicesAreServed ==
    \A s \in Serials :
        <>[](s \in attached /\ s \notin blocked) =>
            \/ []<>(Registry!Running(s) \/ Connecting(s))
            \/ \E w \in Workers, t \in Serials :
                   <>[](task[w][t] = "connect" /\ task[Poller][t] # "none")
=============================================================================
