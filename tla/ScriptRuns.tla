----------------------------- MODULE ScriptRuns -----------------------------
(***************************************************************************)
(* The Lua runs of one device: the daemon's registry of runs and the       *)
(* handlers that start, stop and reap them (crates/forge-daemon/src/       *)
(* main.rs), the worker thread of each run (crates/forge-core/src/lua.rs), *)
(* and the script slot of each session, through which the decoder hands    *)
(* frames to the worker (FrameHub in crates/forge-core/src/session.rs).    *)
(*                                                                         *)
(* Sessions of the device die, are stopped and are replaced meanwhile; who *)
(* has looked one up goes on using it.  A run is known to its session by a *)
(* generation, which is counted in each session anew.                      *)
(***************************************************************************)
EXTENDS Naturals, FiniteSets

CONSTANTS Sessions,   \* identities of sessions, each used once
          Runs,       \* identities of runs, each used once
          Handlers,   \* HTTP handlers that can be in flight at once
          MaxFrame,   \* bound: frames that a session decodes
          None        \* no session, no run

ASSUME ScriptRunsAssumption ==
    /\ MaxFrame \in Nat
    /\ None \notin Sessions \cup Runs

VARIABLES
    current,    \* the manager's session of the device
    status,     \* the life of each session
    gen,        \* slot.generation
    sender,     \* slot.sender: the run whose channel it feeds
    active,     \* slot.active, and with it the script demand
    decoded,    \* how many frames the session has decoded
    latest,     \* the newest frame, 0 for none
    stats,      \* the runs whose callbacks the script metrics count
    scripts,    \* the registry of runs
    sess, rgen, \* the session and the generation of each run
    cancelled,  \* the runs whose token is set
    wpc,        \* where each worker is
    box,        \* the value in the channel of each run
    unseen,     \* the runs whose channel has a value not yet seen
    got,        \* last_frame of each worker
    pc,         \* where each handler is
    hs, hr,     \* the session and the run a start handler has in hand
    taken       \* the runs a handler has taken out of the registry

managerVars == <<current, status>>
slotVars == <<gen, sender, active, stats>>
frameVars == <<decoded, latest>>
channelVars == <<box, unseen>>
runVars == <<sess, rgen>>
handlerVars == <<pc, hs, hr, taken>>
vars == <<managerVars, slotVars, frameVars, scripts, runVars, cancelled, wpc,
          channelVars, got, handlerVars>>

Pcs == {"idle", "clear", "detach", "begin", "attach", "register",
        "stopDetach"}
WorkerPcs == {"new", "load", "wait", "call", "detach", "done"}

Init ==
    /\ current = None
    /\ status = [x \in Sessions |-> "new"]
    /\ gen = [x \in Sessions |-> 0]
    /\ sender = [x \in Sessions |-> None]
    /\ active = [x \in Sessions |-> FALSE]
    /\ decoded = [x \in Sessions |-> 0]
    /\ latest = [x \in Sessions |-> 0]
    /\ stats = [x \in Sessions |-> {}]
    /\ scripts = {}
    /\ sess = [r \in Runs |-> None]
    /\ rgen = [r \in Runs |-> 0]
    /\ cancelled = {}
    /\ wpc = [r \in Runs |-> "new"]
    /\ box = [r \in Runs |-> 0]
    /\ unseen = {}
    /\ got = [r \in Runs |-> 0]
    /\ pc = [h \in Handlers |-> "idle"]
    /\ hs = [h \in Handlers |-> None]
    /\ hr = [h \in Handlers |-> None]
    /\ taken = [h \in Handlers |-> {}]

Goto(h, label) == pc' = [pc EXCEPT ![h] = label]
WorkerTo(r, label) == wpc' = [wpc EXCEPT ![r] = label]

-----------------------------------------------------------------------------
(* The script slot of a session, under its mutex.                          *)

\* The generation of the session still is the one the run was given.
Mine(r) == gen[sess[r]] = rgen[r]

\* LuaRun::cancel: the token is set and the worker is notified.
CancelRuns(S) == cancelled' = cancelled \cup S

\* detach_script_now
DetachNow(x) ==
    /\ gen' = [gen EXCEPT ![x] = @ + 1]
    /\ sender' = [sender EXCEPT ![x] = None]
    /\ active' = [active EXCEPT ![x] = FALSE]
    /\ UNCHANGED stats

\* Mutant: the sender stays in the slot.
DetachKeepsSender(x, g) ==
    IF gen[x] = g
    THEN /\ gen' = [gen EXCEPT ![x] = @ + 1]
         /\ active' = [active EXCEPT ![x] = FALSE]
         /\ UNCHANGED <<sender, stats>>
    ELSE UNCHANGED slotVars

\* detach_script_if
DetachIf(x, g) == IF gen[x] = g THEN DetachNow(x) ELSE UNCHANGED slotVars

\* send_replace into the channel of a run, whose worker may have ended.
Put(r, n) ==
    IF wpc[r] = "done" THEN UNCHANGED channelVars
    ELSE /\ box' = [box EXCEPT ![r] = n]
         /\ unseen' = unseen \cup {r}

\* publish: the newest frame goes into `latest` and, unless the throttle of the
\* profile holds it back, into the channel.  The decoder does not look whether the
\* session is still alive.
Publish(x) ==
    /\ status[x] # "new"
    /\ decoded[x] < MaxFrame
    /\ decoded' = [decoded EXCEPT ![x] = @ + 1]
    /\ latest' = [latest EXCEPT ![x] = decoded'[x]]
    /\ \/ sender[x] # None /\ Put(sender[x], decoded'[x])
       \/ UNCHANGED channelVars
    /\ UNCHANGED <<managerVars, slotVars, scripts, runVars, cancelled, wpc, got, handlerVars>>

\* A session that was suspended, with no script on it, is resumed by another
\* consumer or by the begin_script to come: the picture it had is dropped.
Resume(x) ==
    /\ ~active[x] /\ latest[x] # 0
    /\ latest' = [latest EXCEPT ![x] = 0]
    /\ UNCHANGED <<managerVars, slotVars, decoded, scripts, runVars, cancelled,
                   wpc, channelVars, got, handlerVars>>

-----------------------------------------------------------------------------
(* The sessions of the device.                                             *)

SessionStarts(x) ==
    /\ current = None /\ status[x] = "new"
    /\ current' = x
    /\ status' = [status EXCEPT ![x] = "up"]
    /\ UNCHANGED <<slotVars, frameVars, scripts, runVars, cancelled, wpc,
                   channelVars, got, handlerVars>>

\* It is stopped; or its stream or codec fails, and whoever looks it up next, as
\* the handlers here do, removes it.
SessionEnds(x) ==
    /\ current = x
    /\ current' = None
    /\ status' = [status EXCEPT ![x] = "closing"]
    /\ UNCHANGED <<slotVars, frameVars, scripts, runVars, cancelled, wpc,
                   channelVars, got, handlerVars>>

\* ScrcpySession::shutdown detaches whatever script there is.
SessionShutdown(x) ==
    /\ status[x] = "closing"
    /\ status' = [status EXCEPT ![x] = "shut"]
    /\ DetachNow(x)
    /\ UNCHANGED <<current, frameVars, scripts, runVars, cancelled, wpc,
                   channelVars, got, handlerVars>>

-----------------------------------------------------------------------------
(* start_script                                                            *)

\* Validation is over; manager.session() returns a live session.
StartScript(h) ==
    /\ pc[h] = "idle"
    /\ \E r \in Runs : wpc[r] = "new"
    /\ current # None
    /\ hs' = [hs EXCEPT ![h] = current]
    /\ Goto(h, "clear")
    /\ UNCHANGED <<managerVars, slotVars, frameVars, scripts, runVars, cancelled, wpc,
                   channelVars, got, hr, taken>>

\* The runs of the device leave the registry and are cancelled.
TakeOut(h) ==
    /\ taken' = [taken EXCEPT ![h] = scripts]
    /\ scripts' = {}
    /\ CancelRuns(scripts)

\* stop_script_for_serial
ClearOld(h) ==
    /\ pc[h] = "clear"
    /\ TakeOut(h)
    /\ Goto(h, IF scripts = {} THEN "begin" ELSE "detach")
    /\ UNCHANGED <<managerVars, slotVars, frameVars, runVars, wpc, channelVars,
                   got, hs, hr>>

\* Their generations are detached from the session the device has by now.
Detach(h) ==
    /\ pc[h] \in {"detach", "stopDetach"}
    /\ IF current # None
       THEN \E r \in taken[h] : DetachIf(current, rgen[r])
       ELSE UNCHANGED slotVars
    /\ taken' = [taken EXCEPT ![h] = {}]
    /\ Goto(h, IF pc[h] = "detach" THEN "begin" ELSE "idle")
    /\ UNCHANGED <<managerVars, frameVars, scripts, runVars, cancelled, wpc,
                   channelVars, got, hs, hr>>

\* Mutant: the generation of the run before is used again.
BeginSameGeneration(h, r) ==
    LET x == hs[h]
    IN  /\ pc[h] = "begin"
        /\ wpc[r] = "new"
        /\ sender' = [sender EXCEPT ![x] = None]
        /\ active' = [active EXCEPT ![x] = TRUE]
        /\ sess' = [sess EXCEPT ![r] = x]
        /\ rgen' = [rgen EXCEPT ![r] = gen[x]]
        /\ WorkerTo(r, "load")
        /\ hr' = [hr EXCEPT ![h] = r]
        /\ Goto(h, "attach")
        /\ UNCHANGED <<managerVars, gen, stats, frameVars, scripts, cancelled,
                       channelVars, got, hs, taken>>

\* begin_script, then run_frames_for_generation spawns the worker.
BeginScript(h, r) ==
    LET x == hs[h]
    IN  /\ pc[h] = "begin"
        /\ wpc[r] = "new"
        /\ gen' = [gen EXCEPT ![x] = @ + 1]
        /\ sender' = [sender EXCEPT ![x] = None]
        /\ active' = [active EXCEPT ![x] = TRUE]
        /\ sess' = [sess EXCEPT ![r] = x]
        /\ rgen' = [rgen EXCEPT ![r] = gen[x] + 1]
        /\ WorkerTo(r, "load")
        /\ hr' = [hr EXCEPT ![h] = r]
        /\ Goto(h, "attach")
        /\ UNCHANGED <<managerVars, stats, frameVars, scripts, cancelled, channelVars,
                       got, hs, taken>>

\* The handler's locals are dropped; a LuaRun among them cancels its run.
Drop(h) ==
    /\ hs' = [hs EXCEPT ![h] = None]
    /\ hr' = [hr EXCEPT ![h] = None]
    /\ taken' = [taken EXCEPT ![h] = {}]
    /\ Goto(h, "idle")

\* attach_script_for_generation: metrics are reset, the newest frame injected.
Attach(h) ==
    LET r == hr[h]  x == hs[h]
    IN  /\ pc[h] = "attach" /\ Mine(r)
        /\ stats' = [stats EXCEPT ![x] = {}]
        /\ sender' = [sender EXCEPT ![x] = r]
        /\ active' = [active EXCEPT ![x] = TRUE]
        /\ IF latest[x] # 0 THEN Put(r, latest[x]) ELSE UNCHANGED channelVars
        /\ Goto(h, "register")
        /\ UNCHANGED <<managerVars, gen, decoded, latest, scripts, runVars, cancelled,
                       wpc, got, hs, hr, taken>>

\* The generation has moved: the run is cancelled, the caller told of a conflict.
Superseded(h) ==
    /\ pc[h] \in {"attach", "register"}
    /\ ~Mine(hr[h])
    /\ CancelRuns({hr[h]})
    /\ Drop(h)
    /\ UNCHANGED <<managerVars, slotVars, frameVars, scripts, runVars, wpc,
                   channelVars, got>>

\* Under the registry's lock: the last of the checks, then the runs that another
\* start has registered meanwhile are replaced.
Register(h) ==
    /\ pc[h] = "register" /\ Mine(hr[h])
    /\ scripts' = {hr[h]}
    /\ CancelRuns(scripts)
    /\ Drop(h)
    /\ UNCHANGED <<managerVars, slotVars, frameVars, runVars, wpc, channelVars, got>>

-----------------------------------------------------------------------------
(* The other handlers, and the reaper.                                     *)

\* stop_script, stop_device_script and stop_all_scripts.
StopScript(h) ==
    /\ pc[h] = "idle"
    /\ scripts # {}
    /\ TakeOut(h)
    /\ Goto(h, "stopDetach")
    /\ UNCHANGED <<managerVars, slotVars, frameVars, runVars, wpc, channelVars,
                   got, hs, hr>>

\* Mutant: LuaRun without a Drop.
AbortHandlerNoDrop(h) ==
    /\ pc[h] \in {"clear", "detach", "stopDetach", "register"}
    /\ Drop(h)
    /\ UNCHANGED <<managerVars, slotVars, frameVars, scripts, runVars, cancelled, wpc,
                   channelVars, got>>

\* Mutant: the handler that has no run yet is not told apart.
AbortHandlerUnchecked(h) ==
    /\ pc[h] \in {"clear", "detach", "stopDetach", "register"}
    /\ CancelRuns({hr[h]})
    /\ Drop(h)
    /\ UNCHANGED <<managerVars, slotVars, frameVars, scripts, runVars, wpc,
                   channelVars, got>>

\* The client goes away while the handler waits.
AbortHandler(h) ==
    /\ pc[h] \in {"clear", "detach", "stopDetach", "register"}
    /\ CancelRuns({hr[h]} \ {None})
    /\ Drop(h)
    /\ UNCHANGED <<managerVars, slotVars, frameVars, scripts, runVars, wpc,
                   channelVars, got>>

\* retain_script_runs: a run that finished a minute ago is forgotten.
Reap(r) ==
    /\ r \in scripts /\ wpc[r] = "done"
    /\ scripts' = scripts \ {r}
    /\ UNCHANGED <<managerVars, slotVars, frameVars, runVars, cancelled, wpc,
                   channelVars, got, handlerVars>>

-----------------------------------------------------------------------------
(* The worker thread of a run.  What it does between two steps that others  *)
(* can see is one step here: the wake-up, ensure_running and the look into  *)
(* the channel; the end of a callback and its record.                       *)

unchangedByWorker == <<managerVars, frameVars, scripts, runVars, cancelled, handlerVars>>

\* Nobody has the sender of the run's channel any more.
SenderGone(r) ==
    /\ sender[sess[r]] # r
    /\ \A h \in Handlers : ~(pc[h] = "attach" /\ hr[h] = r)

\* The first look at the channel follows the execution of the source; the later
\* ones a changed(), or the timer of the rescans a script may ask for.  The frame
\* there is taken, else the last one; with neither, the worker waits.
TakeFrame(r) ==
    LET n == IF box[r] # 0 THEN box[r] ELSE got[r]
    IN  /\ wpc[r] \in {"load", "wait"}
        /\ r \notin cancelled
        /\ unseen' = unseen \ {r}
        /\ got' = [got EXCEPT ![r] = n]
        /\ WorkerTo(r, IF n = 0 THEN "wait" ELSE "call")
        /\ UNCHANGED <<unchangedByWorker, slotVars, box>>

\* Mutant: only the token is looked at, not the end of the channel.
StopByCancel(r) ==
    /\ wpc[r] \in {"load", "wait"}
    /\ r \in cancelled
    /\ WorkerTo(r, "detach")
    /\ UNCHANGED <<unchangedByWorker, slotVars, channelVars, got>>

\* cancel() has set the token and notified, or the channel is closed and empty.
Stop(r) ==
    /\ \/ wpc[r] \in {"load", "wait"} /\ r \in cancelled
       \/ wpc[r] = "wait" /\ SenderGone(r) /\ r \notin unseen
    /\ WorkerTo(r, "detach")
    /\ UNCHANGED <<unchangedByWorker, slotVars, channelVars, got>>

\* The source fails or defines no on_frame.
FailToLoad(r) ==
    /\ wpc[r] = "load"
    /\ WorkerTo(r, "detach")
    /\ UNCHANGED <<unchangedByWorker, slotVars, channelVars, got>>

\* on_frame fails, sees that it is cancelled, or exceeds its five seconds.
FailCall(r) ==
    /\ wpc[r] = "call"
    /\ WorkerTo(r, "detach")
    /\ UNCHANGED <<unchangedByWorker, slotVars, channelVars, got>>

\* Mutant: a callback is counted, whoever's turn it is.
RecordAnyway(r) ==
    /\ wpc[r] = "call"
    /\ stats' = [stats EXCEPT ![sess[r]] = @ \cup {r}]
    /\ WorkerTo(r, "wait")
    /\ UNCHANGED <<unchangedByWorker, gen, sender, active, channelVars, got>>

\* on_frame returns: record_script_for_generation.
Record(r) ==
    /\ wpc[r] = "call"
    /\ stats' = IF Mine(r) THEN [stats EXCEPT ![sess[r]] = @ \cup {r}] ELSE stats
    /\ WorkerTo(r, "wait")
    /\ UNCHANGED <<unchangedByWorker, gen, sender, active, channelVars, got>>

\* The receiver and the last frame are dropped.
Hangup(r) ==
    /\ box' = [box EXCEPT ![r] = 0]
    /\ unseen' = unseen \ {r}
    /\ got' = [got EXCEPT ![r] = 0]

\* Mutant: a run that fails does not detach itself.
FinishAttached(r) ==
    /\ wpc[r] = "detach"
    /\ Hangup(r)
    /\ WorkerTo(r, "done")
    /\ UNCHANGED <<unchangedByWorker, slotVars>>

\* The worker detaches its own generation, whatever ended it; its locals go.
Finish(r) ==
    /\ wpc[r] = "detach"
    /\ DetachIf(sess[r], rgen[r])
    /\ Hangup(r)
    /\ WorkerTo(r, "done")
    /\ UNCHANGED unchangedByWorker

-----------------------------------------------------------------------------
WorkerStep(r) ==
    TakeFrame(r) \/ Stop(r) \/ FailToLoad(r) \/ FailCall(r) \/ Record(r) \/ Finish(r)

HandlerStep(h) ==
    \/ ClearOld(h) \/ Detach(h) \/ (\E r \in Runs : BeginScript(h, r))
    \/ Attach(h) \/ Superseded(h) \/ Register(h)

Session(x) ==
    \/ Publish(x) \/ Resume(x)
    \/ SessionStarts(x) \/ SessionEnds(x) \/ SessionShutdown(x)

Next ==
    \/ \E r \in Runs : WorkerStep(r) \/ Reap(r)
    \/ \E h \in Handlers : StartScript(h) \/ HandlerStep(h) \/ StopScript(h)
                           \/ AbortHandler(h)
    \/ \E x \in Sessions : Session(x)

\* The steps of a worker that are sure to come.  A callback has its five seconds,
\* but the source is run without a deadline (lua.rs:281; it is set at lua.rs:344): a
\* source that loops ends only when the hook sees its token (lua.rs:826-828).
Progress(r) == (wpc[r] = "load" => r \in cancelled) /\ WorkerStep(r)

\* Threads and tasks that can run are run; a worker that is woken to end, again
\* and again, ends, though its timer fires too.  A script does not catch the errors
\* of the hook for ever.
Fairness ==
    /\ \A r \in Runs : WF_vars(Progress(r)) /\ SF_vars(Stop(r))
    /\ \A h \in Handlers : WF_vars(HandlerStep(h))
    /\ \A x \in Sessions : WF_vars(SessionShutdown(x))

Spec == Init /\ [][Next]_vars
FairSpec == Spec /\ Fairness

-----------------------------------------------------------------------------
(* Properties.                                                             *)

\* Types of the variables.
TypeOK ==
    /\ current \in Sessions \cup {None}
    /\ status \in [Sessions -> {"new", "up", "closing", "shut"}]
    /\ gen \in [Sessions -> Nat]
    /\ sender \in [Sessions -> Runs \cup {None}]
    /\ active \in [Sessions -> BOOLEAN]
    /\ decoded \in [Sessions -> 0..MaxFrame] /\ latest \in [Sessions -> 0..MaxFrame]
    /\ stats \in [Sessions -> SUBSET Runs]
    /\ scripts \subseteq Runs /\ cancelled \subseteq Runs /\ unseen \subseteq Runs
    /\ sess \in [Runs -> Sessions \cup {None}]
    /\ rgen \in [Runs -> Nat]
    /\ wpc \in [Runs -> WorkerPcs]
    /\ box \in [Runs -> 0..MaxFrame] /\ got \in [Runs -> 0..MaxFrame]
    /\ pc \in [Handlers -> Pcs]
    /\ hs \in [Handlers -> Sessions \cup {None}]
    /\ hr \in [Handlers -> Runs \cup {None}]
    /\ taken \in [Handlers -> SUBSET Runs]

\* A run that is listed, and was not detached or superseded, is the one its session
\* feeds, and keeps it decoding: no start, stop or late end of another run starves it
\* behind its back.
RegisteredIsFed ==
    \A r \in scripts : Mine(r) => sender[sess[r]] = r /\ active[sess[r]]

\* The script demand of a session, which keeps it decoding, has a run that will
\* withdraw it: the worker of the current generation has not finished.  Neither
\* a failing script nor an aborted start leaves the demand behind.
DemandHasRun ==
    \A x \in Sessions :
        active[x] => \E r \in Runs : /\ sess[r] = x /\ rgen[r] = gen[x]
                                     /\ wpc[r] \notin {"new", "done"}

\* The script metrics of a session are those of one run, and while a run is
\* attached they are its own: a callback that ends late is not counted.
MetricsOfOneRun ==
    \A x \in Sessions : /\ Cardinality(stats[x]) <= 1
                        /\ sender[x] # None => stats[x] \subseteq {sender[x]}

\* A run that was detached or superseded gets no further frame.
NoLateFrame ==
    [][\A r \in Runs : box'[r] \notin {0, box[r]} => Mine(r)]_vars

\* A run that was cancelled, by a stop, a replacement or the end of the handler
\* that started it, ends, whatever it is at; and so does one whose generation is
\* over, once its source has been run.  A source that loops outlives its session
\* until somebody stops it, which NoOrphanRuns leaves possible.
RunsEnd ==
    \A r \in Runs :
        \/ wpc[r] # "new" /\ r \in cancelled
        \/ wpc[r] \notin {"new", "load"} /\ ~Mine(r)
        ~> wpc[r] = "done"

\* A run is always either registered, so that it can be stopped, or being
\* started, or on its way to its end.
NoOrphanRuns ==
    \A r \in Runs :
        wpc[r] \in {"load", "wait", "call"} =>
            r \in scripts \cup cancelled \/ \E h \in Handlers : hr[h] = r
=============================================================================
