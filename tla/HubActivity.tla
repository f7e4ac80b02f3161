----------------------------- MODULE HubActivity -----------------------------
(***************************************************************************)
(* The demand side of FrameHub (crates/forge-core/src/session.rs): who     *)
(* wants frames of a session, and the active / idle-grace / suspended      *)
(* state computed from it, down to the hook that stops a session which     *)
(* nobody has used for long.                                               *)
(*                                                                         *)
(* Demand lives in separate atomics, read one after the other under the    *)
(* activity lock; a thread that changes one of them takes that lock only   *)
(* afterwards.  Hence a thread here is between its change of the demand    *)
(* and the refresh that follows it for as long as others please.           *)
(***************************************************************************)
EXTENDS Naturals

CONSTANTS Previewers,   \* holders of a PreviewLease: WebSocket clients
          Requesters,   \* holders of a FrameRequestLease: one-shot requests
          Runs,         \* script runs
          Setter,       \* the thread that changes the preview mode
          Stopper,      \* the thread that shuts the session down
          Pollers,      \* threads that call activity(): ticker, reader, metrics
          None

Consumers == Previewers \cup Requesters
Threads == Consumers \cup Runs \cup {Setter, Stopper} \cup Pollers

ASSUME ThreadsAreDistinct ==
    /\ Previewers \cap Requesters = {} /\ Consumers \cap Runs = {}
    /\ (Consumers \cup Runs) \cap ({Setter, Stopper} \cup Pollers) = {}
    /\ Pollers \cap {Setter, Stopper} = {} /\ Setter # Stopper
    /\ None \notin Threads

VARIABLES
    leases,       \* preview_leases, as the set of their holders
    requests,     \* frame_requests, as the set of their holders
    mode,         \* preview mode: "off" or not
    scriptRun,    \* the run whose generation is in the slot while it is active
    state,        \* activity.state
    idleFor,      \* activity.idle_since: 1 IDLE_GRACE is over, 2 DEEP_IDLE is
    deepIdleRequested,
    alive,        \* the session's flag, cleared by the hook and by shutdown
    locked,       \* who holds the activity lock for a refresh
    loading,      \* the demand that refresh loads next
    pc            \* where each thread is

vars == <<leases, requests, mode, scriptRun, state, idleFor, deepIdleRequested,
          alive, locked, loading, pc>>
demandVars == <<leases, requests, mode, scriptRun>>
activityVars == <<state, idleFor>>
lockVars == <<locked, loading>>

\* idle: nothing to do with the hub.  announce and withdraw: the demand is
\* changed, refresh_activity() is to come.  clear, mark: inside mark_active().
\* in: served.  detach: shutdown() has cleared alive.  poll, decide, hook: inside
\* activity().
Pcs == {"idle", "announce", "clear", "mark", "in", "withdraw", "detach",
        "poll", "decide", "hook"}

Refreshing == {"announce", "withdraw", "poll"}

Goto(t, label) == pc' = [pc EXCEPT ![t] = label]

Init ==
    /\ leases = {} /\ requests = {}
    /\ mode = "on"
    /\ scriptRun = None
    /\ state = "suspended" /\ idleFor = 0
    /\ deepIdleRequested = FALSE
    /\ alive = TRUE
    /\ locked = None /\ loading = "script"
    /\ pc = [t \in Threads |-> "idle"]

-----------------------------------------------------------------------------
(* refresh_activity()                                                      *)

LockActivity(t) ==
    /\ pc[t] \in Refreshing
    /\ locked = None
    /\ locked' = t
    /\ loading' = "script"
    /\ UNCHANGED <<demandVars, activityVars, deepIdleRequested, alive, pc>>

\* Where the thread goes on when the lock is released: an activity() call has
\* its decision to take, a consumer has its lease, the others are done.
Resume(t) ==
    Goto(t, IF pc[t] = "poll" THEN "decide"
            ELSE IF pc[t] = "announce" /\ t \in Consumers THEN "in" ELSE "idle")

\* script_active() || preview_active() || frame_request_active(): an operand is
\* loaded when those before it were false.
LoadNext(t) ==
    /\ locked = t
    /\ \/ loading = "script" /\ scriptRun = None /\ loading' = "leases"
       \/ loading = "leases" /\ leases # {} /\ loading' = "mode"
       \/ loading = "leases" /\ leases = {} /\ loading' = "requests"
       \/ loading = "mode" /\ mode = "off" /\ loading' = "requests"
    /\ UNCHANGED <<demandVars, activityVars, deepIdleRequested, alive, locked, pc>>

FoundDemand ==
    \/ loading = "script" /\ scriptRun # None
    \/ loading = "mode" /\ mode # "off"
    \/ loading = "requests" /\ requests # {}

\* Some demand was found.
Activate(t) ==
    /\ locked = t
    /\ FoundDemand
    /\ state' = "active"
    /\ idleFor' = 0
    /\ locked' = None
    /\ Resume(t)
    /\ UNCHANGED <<demandVars, deepIdleRequested, alive, loading>>

FoundNone == loading = "requests" /\ ~FoundDemand

\* None was: an active session becomes idle, and an idle one is suspended if its
\* grace is over.
Deactivate(t) ==
    /\ locked = t
    /\ FoundNone
    /\ \/ state = "active" /\ state' = "idleGrace"
       \/ state = "idleGrace" /\ idleFor >= 1 /\ state' = "suspended"
       \/ state = "idleGrace" /\ idleFor = 0 /\ UNCHANGED state
       \/ state = "suspended" /\ UNCHANGED state
    /\ locked' = None
    /\ Resume(t)
    /\ UNCHANGED <<demandVars, idleFor, deepIdleRequested, alive, loading>>

HoldsLock(t) == LoadNext(t) \/ Activate(t) \/ Deactivate(t)

Refresh(t) == LockActivity(t) \/ HoldsLock(t)

-----------------------------------------------------------------------------
(* Consumers: acquire_preview, acquire_frame_request and the drop of their *)
(* leases; set_preview_mode_now.                                           *)

\* Mutant: a request is counted as a preview lease.
AcquireAsPreview(c) ==
    /\ pc[c] = "idle"
    /\ leases' = leases \cup {c}
    /\ Goto(c, "announce")
    /\ UNCHANGED <<requests, mode, scriptRun, activityVars, deepIdleRequested, alive,
                   lockVars>>

Acquire(c) ==
    /\ pc[c] = "idle"
    /\ leases' = IF c \in Previewers THEN leases \cup {c} ELSE leases
    /\ requests' = IF c \in Requesters THEN requests \cup {c} ELSE requests
    /\ Goto(c, "announce")
    /\ UNCHANGED <<mode, scriptRun, activityVars, deepIdleRequested, alive, lockVars>>

Release(c) ==
    /\ pc[c] = "in"
    /\ leases' = leases \ {c}
    /\ requests' = requests \ {c}
    /\ Goto(c, "withdraw")
    /\ UNCHANGED <<mode, scriptRun, activityVars, deepIdleRequested, alive, lockVars>>

SetMode(m) ==
    /\ pc[Setter] = "idle"
    /\ m # mode
    /\ mode' = m
    /\ Goto(Setter, "announce")
    /\ UNCHANGED <<leases, requests, scriptRun, activityVars, deepIdleRequested,
                   alive, lockVars>>

-----------------------------------------------------------------------------
(* Scripts.                                                                *)

\* begin_script(): the slot gets a generation of this run.
BeginScript(r) ==
    /\ pc[r] = "idle"
    /\ scriptRun' = r
    /\ Goto(r, "clear")
    /\ UNCHANGED <<leases, requests, mode, activityVars, deepIdleRequested, alive,
                   lockVars>>

\* attach_script_for_generation(), when the generation is still this run's.
AttachScript(r) ==
    /\ pc[r] = "in"
    /\ scriptRun = r
    /\ Goto(r, "clear")
    /\ UNCHANGED <<demandVars, activityVars, deepIdleRequested, alive, lockVars>>

\* mark_active(), up to its lock.
ClearDeepIdle(r) ==
    /\ pc[r] = "clear"
    /\ deepIdleRequested' = FALSE
    /\ Goto(r, "mark")
    /\ UNCHANGED <<demandVars, activityVars, alive, lockVars>>

\* Mutant: the state is stored without the lock.
MarkActiveUnlocked(r) ==
    /\ pc[r] = "mark"
    /\ state' = "active"
    /\ idleFor' = 0
    /\ Goto(r, "in")
    /\ UNCHANGED <<demandVars, deepIdleRequested, alive, lockVars>>

\* The rest of it does not look at the demand.
MarkActive(r) ==
    /\ pc[r] = "mark"
    /\ locked = None
    /\ state' = "active"
    /\ idleFor' = 0
    /\ Goto(r, "in")
    /\ UNCHANGED <<demandVars, deepIdleRequested, alive, lockVars>>

\* detach_script_if(generation): nothing happens when the slot has moved on.
DetachScriptIf(r) ==
    /\ pc[r] = "in"
    /\ scriptRun' = IF scriptRun = r THEN None ELSE scriptRun
    /\ Goto(r, IF scriptRun = r THEN "withdraw" ELSE "idle")
    /\ UNCHANGED <<leases, requests, mode, activityVars, deepIdleRequested, alive,
                   lockVars>>

-----------------------------------------------------------------------------
(* ScrcpySession::shutdown() clears alive, then detaches the script.       *)

Shutdown ==
    /\ pc[Stopper] = "idle"
    /\ alive
    /\ alive' = FALSE
    /\ Goto(Stopper, "detach")
    /\ UNCHANGED <<demandVars, activityVars, deepIdleRequested, lockVars>>

DetachScriptNow ==
    /\ pc[Stopper] = "detach"
    /\ scriptRun' = None
    /\ Goto(Stopper, "withdraw")
    /\ UNCHANGED <<leases, requests, mode, activityVars, deepIdleRequested, alive,
                   lockVars>>

\* A stop handler detaches the generation its registry entry has, whatever the
\* run is doing then.
StopScript ==
    /\ pc[Stopper] = "idle"
    /\ scriptRun # None
    /\ scriptRun' = None
    /\ Goto(Stopper, "withdraw")
    /\ UNCHANGED <<leases, requests, mode, activityVars, deepIdleRequested, alive,
                   lockVars>>

-----------------------------------------------------------------------------
(* activity() and the passing of time.                                     *)

\* Mutant: the ticker leaves an active session alone.
BeginActivityIfIdle(t) ==
    /\ pc[t] = "idle"
    /\ alive /\ state # "active"
    /\ Goto(t, "poll")
    /\ UNCHANGED <<demandVars, activityVars, deepIdleRequested, alive, lockVars>>

BeginActivity(t) ==
    /\ pc[t] = "idle"
    /\ alive
    /\ Goto(t, "poll")
    /\ UNCHANGED <<demandVars, activityVars, deepIdleRequested, alive, lockVars>>

DeepIdle == state = "suspended" /\ idleFor = 2

\* Mutant: the flag is swapped before the other conditions are looked at.
DecideSwapFirst(t) ==
    /\ pc[t] = "decide"
    /\ locked = None
    /\ deepIdleRequested' = TRUE
    /\ Goto(t, IF DeepIdle /\ ~deepIdleRequested THEN "hook" ELSE "idle")
    /\ UNCHANGED <<demandVars, activityVars, alive, lockVars>>

\* The lock is taken again.  The first to find the session deep idle will run the
\* hook, after it has released the lock.
Decide(t) ==
    /\ pc[t] = "decide"
    /\ locked = None
    /\ deepIdleRequested' = (deepIdleRequested \/ DeepIdle)
    /\ Goto(t, IF DeepIdle /\ ~deepIdleRequested THEN "hook" ELSE "idle")
    /\ UNCHANGED <<demandVars, activityVars, alive, lockVars>>

RunHook(t) ==
    /\ pc[t] = "hook"
    /\ alive' = FALSE
    /\ Goto(t, "idle")
    /\ UNCHANGED <<demandVars, activityVars, deepIdleRequested, lockVars>>

\* IDLE_GRACE, then DEEP_IDLE, have passed since the session became idle.
Elapse ==
    /\ state # "active"
    /\ idleFor < 2
    /\ idleFor' = idleFor + 1
    /\ UNCHANGED <<demandVars, state, deepIdleRequested, alive, lockVars, pc>>

-----------------------------------------------------------------------------
Script(r) ==
    BeginScript(r) \/ AttachScript(r) \/ ClearDeepIdle(r) \/ MarkActive(r)
    \/ DetachScriptIf(r)

Poll(t) == BeginActivity(t) \/ Decide(t) \/ RunHook(t)

Next ==
    \/ \E t \in Threads : Refresh(t)
    \/ \E c \in Consumers : Acquire(c) \/ Release(c)
    \/ \E m \in {"off", "on"} : SetMode(m)
    \/ \E r \in Runs : Script(r)
    \/ Shutdown \/ DetachScriptNow \/ StopScript
    \/ \E t \in Pollers : Poll(t)
    \/ Elapse

Spec == Init /\ [][Next]_vars

\* The steps that wait for the activity lock, and those that do not.
Wait(t) ==
    \/ LockActivity(t)
    \/ t \in Runs /\ MarkActive(t)
    \/ t \in Pollers /\ Decide(t)

GoOn(t) ==
    \/ HoldsLock(t)
    \/ t \in Runs /\ ClearDeepIdle(t)
    \/ t \in Pollers /\ (BeginActivity(t) \/ RunHook(t))
    \/ t = Stopper /\ DetachScriptNow

\* Time passes, the ticker polls every second, a thread that has begun an
\* operation finishes it; the activity lock is held for a few instructions, so
\* none waits for it for ever.
Fairness ==
    /\ \A t \in Threads : SF_vars(Wait(t)) /\ WF_vars(GoOn(t))
    /\ WF_vars(Elapse)

FairSpec == Spec /\ Fairness

-----------------------------------------------------------------------------
(* Properties.                                                             *)

\* Types of the variables: a lease is counted where its kind belongs.
TypeOK ==
    /\ leases \subseteq Previewers
    /\ requests \subseteq Requesters
    /\ mode \in {"off", "on"}
    /\ scriptRun \in Runs \cup {None}
    /\ state \in {"active", "idleGrace", "suspended"}
    /\ idleFor \in 0..2
    /\ deepIdleRequested \in BOOLEAN
    /\ alive \in BOOLEAN
    /\ locked \in Threads \cup {None}
    /\ loading \in {"script", "leases", "mode", "requests"}
    /\ pc \in [Threads -> Pcs]

\* Somebody wants frames.
Demand == scriptRun # None \/ (leases # {} /\ mode # "off") \/ requests # {}

\* Somebody wants frames whose call to the hub has returned.
Served ==
    \/ scriptRun # None /\ pc[scriptRun] = "in"
    \/ mode # "off" /\ pc[Setter] = "idle" /\ \E c \in leases : pc[c] = "in"
    \/ \E c \in requests : pc[c] = "in"

\* session.rs:410-412: a concurrent lease or script generation is not overwritten
\* by a stale transition to idle: once its call has returned, and for as long as
\* it is wanted, the session is active.
ServedIsActive == Served => state = "active"

\* The decision to stop the session for idleness is never taken while somebody
\* is served: it follows from ServedIsActive and is proved, not checked.
StopDecidedWhenUnused ==
    [][\A t \in Pollers : pc[t] = "decide" /\ pc'[t] = "hook" => ~Served]_vars

\* A session that is no longer used, or only by previewers while the preview is
\* off, does get stopped.
UnusedIsStopped ==
    <>[](scriptRun = None /\ requests = {} /\ leases = {})
        \/ <>[](scriptRun = None /\ requests = {} /\ mode = "off")
    => <>~alive

\* Activity without demand, which mark_active() can leave behind a concurrent
\* detach, is corrected while the session lives.
SpuriousActivityEnds == state = "active" /\ ~Demand ~> state # "active" \/ Demand \/ ~alive
=============================================================================
