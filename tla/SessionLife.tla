---------------------------- MODULE SessionLife ----------------------------
(***************************************************************************)
(* The life of one session (ScrcpySession and SessionStartupGuard in       *)
(* crates/forge-core/src/session.rs): the attempts to start it, each with  *)
(* a server process and two adb forwards that a guard rolls back, and the  *)
(* three ways to end it, a shutdown, the hook of a deep-idle session and   *)
(* the drop of the last reference, of which one cleans up.  Its input is   *)
(* InputWriter.                                                            *)
(*                                                                         *)
(* Futures are dropped at their awaits when a client goes away; adb may    *)
(* fail or time out in every call.                                         *)
(***************************************************************************)
EXTENDS InputWriter

CONSTANTS Attempts,   \* 3 in the code
          Ports,      \* the video and the control port of an attempt
          Stoppers    \* calls of shutdown

ASSUME LifeAssumption == Attempts \in Nat \ {0}

VARIABLES
    pc,              \* where connect() is
    attempt,
    guard,           \* what the startup guard has to roll back
    loose,           \* the ports connect() has in hand: forwarded and not yet
                     \* tracked, or drained from the guard
    servers,         \* the attempts whose server process runs
    forwards,        \* the forwards that adb has, <<attempt, port>>, without
                     \* those that were lost
    child,           \* whether the session has its Child
    cleanupStarted,  \* cleanup_started
    stop,            \* where each call of shutdown is
    hook,            \* where the deep-idle hook is
    dropped,
    cleaner,         \* what cleanup_process_and_forwards has still to do
    held,            \* whether the registry refers to the session
    borrowed         \* whether a script that runs on the session keeps it

startVars == <<pc, attempt, guard, loose>>
hostVars == <<servers, forwards>>
endVars == <<child, cleanupStarted, stop, hook, dropped, cleaner, held, borrowed>>
lifeVars == <<startVars, hostVars, endVars>>
vars == <<alive, input, inputVars, lifeVars>>

NoWork == [server |-> FALSE, ports |-> {}]
AllWork == [server |-> TRUE, ports |-> Ports]
Work == [server : BOOLEAN, ports : SUBSET Ports]

StartPcs == {"push", "forward", "forwarded", "spawn", "video", "control", "header",
             "up", "kill", "killed", "drain", "remove", "pause", "failed", "cancelled"}
\* Where connect() waits, and may be dropped.
Awaits == {"push", "forward", "forwarded", "video", "control", "header", "killed",
           "remove", "pause"}
StopPcs == {"idle", "input", "claim", "clean", "done", "gone"}
HookPcs == {"idle", "claim", "input", "take", "done"}

Init ==
    /\ InputInit
    /\ alive = FALSE /\ input = FALSE
    /\ pc = "push" /\ attempt = 1
    /\ guard = NoWork /\ loose = {}
    /\ servers = {} /\ forwards = {}
    /\ child = FALSE /\ cleanupStarted = FALSE
    /\ stop = [k \in Stoppers |-> "idle"]
    /\ hook = "idle" /\ dropped = FALSE
    /\ cleaner = NoWork
    /\ held = FALSE /\ borrowed = FALSE

Goto(label) == pc' = label
StopTo(k, label) == stop' = [stop EXCEPT ![k] = label]

\* The forwards of the current attempt, which is that of the session.
Mine(P) == {attempt} \X P

Kill == servers' = servers \ {attempt}

\* `forward --remove`.  If it fails or times out the forward is lost, since the
\* port is not tried again.
RemoveForward(p) == forwards' = forwards \ Mine({p})

\* The forwards that whoever had them in hand will not remove stay behind.
Lose(P) == forwards' = forwards \ Mine(P)

-----------------------------------------------------------------------------
(* connect_inner(): an attempt.                                            *)

unchangedByStart == <<alive, input, inputVars, attempt, endVars>>

\* rollback() begins with the child, if there is one.
RollBack == Goto(IF guard.server THEN "kill" ELSE "drain")

\* The server is pushed to the device, two local ports are chosen.
Push ==
    /\ pc = "push"
    /\ Goto("forward")
    /\ UNCHANGED <<unchangedByStart, guard, loose, hostVars>>

\* The push fails, or there are no two ports.
PushFails ==
    /\ pc = "push"
    /\ RollBack
    /\ UNCHANGED <<unchangedByStart, guard, loose, hostVars>>

\* adb makes the forward; its client has not ended yet.
Forward(p) ==
    /\ pc = "forward"
    /\ p \notin guard.ports
    /\ forwards' = forwards \cup Mine({p})
    /\ loose' = {p}
    /\ Goto("forwarded")
    /\ UNCHANGED <<unchangedByStart, guard, servers>>

\* Its client has ended well: the port is tracked.
Track ==
    /\ pc = "forwarded"
    /\ guard' = [guard EXCEPT !.ports = @ \cup loose]
    /\ loose' = {}
    /\ Goto(IF guard'.ports = Ports THEN "spawn" ELSE "forward")
    /\ UNCHANGED <<unchangedByStart, hostVars>>

\* Its client fails or is killed by the timeout, before or after the effect.
ForwardFails ==
    /\ pc \in {"forward", "forwarded"}
    /\ Lose(loose)
    /\ loose' = {}
    /\ RollBack
    /\ UNCHANGED <<unchangedByStart, guard, servers>>

Spawn ==
    /\ pc = "spawn"
    /\ servers' = servers \cup {attempt}
    /\ guard' = [guard EXCEPT !.server = TRUE]
    /\ Goto("video")
    /\ UNCHANGED <<unchangedByStart, loose, forwards>>

SpawnFails ==
    /\ pc = "spawn"
    /\ RollBack
    /\ UNCHANGED <<unchangedByStart, guard, loose, hostVars>>

\* The port accepts and the server sends its dummy byte, within eight seconds; ...
ConnectVideo ==
    /\ pc = "video"
    /\ Goto("control")
    /\ UNCHANGED <<unchangedByStart, guard, loose, hostVars>>

\* ... so does the other port.
ConnectControl ==
    /\ pc = "control"
    /\ Goto("header")
    /\ UNCHANGED <<unchangedByStart, guard, loose, hostVars>>

\* The header is read and valid; from there to commit() nothing waits.
Commit ==
    /\ pc = "header"
    /\ alive' = TRUE /\ input' = TRUE
    /\ child' = TRUE
    /\ held' = TRUE
    /\ guard' = NoWork
    /\ Goto("up")
    /\ UNCHANGED <<inputVars, attempt, loose, hostVars, cleanupStarted, stop, hook,
                   dropped, cleaner, borrowed>>

LinkFails ==
    /\ pc \in {"video", "control", "header"}
    /\ RollBack
    /\ UNCHANGED <<unchangedByStart, guard, loose, hostVars>>

-----------------------------------------------------------------------------
(* rollback(), the next attempt, and the drop of the guard.                *)

\* The child is taken and told to die; rollback waits for it.
RollbackKill ==
    /\ pc = "kill"
    /\ guard' = [guard EXCEPT !.server = FALSE]
    /\ Kill
    /\ Goto("killed")
    /\ UNCHANGED <<unchangedByStart, loose, forwards>>

Waited ==
    /\ pc = "killed"
    /\ Goto("drain")
    /\ UNCHANGED <<unchangedByStart, guard, loose, hostVars>>

Drain ==
    /\ pc = "drain"
    /\ loose' = guard.ports
    /\ guard' = [guard EXCEPT !.ports = {}]
    /\ Goto("remove")
    /\ UNCHANGED <<unchangedByStart, hostVars>>

RollbackRemove(p) ==
    /\ pc = "remove"
    /\ p \in loose
    /\ RemoveForward(p)
    /\ loose' = loose \ {p}
    /\ UNCHANGED <<unchangedByStart, pc, guard, servers>>

RolledBack ==
    /\ pc = "remove" /\ loose = {}
    /\ Goto(IF attempt < Attempts THEN "pause" ELSE "failed")
    /\ UNCHANGED <<unchangedByStart, guard, loose, hostVars>>

Retry ==
    /\ pc = "pause"
    /\ attempt' = attempt + 1
    /\ Goto("push")
    /\ UNCHANGED <<alive, input, inputVars, guard, loose, hostVars, endVars>>

\* Mutant: the guard has no Drop.
CancelWithoutGuard ==
    /\ pc \in Awaits
    /\ Lose(loose)
    /\ loose' = {}
    /\ guard' = NoWork
    /\ Goto("cancelled")
    /\ UNCHANGED <<unchangedByStart, servers>>

\* The future of connect() is dropped at an await: the guard leaves to a task
\* what it still has.
CancelStart ==
    /\ pc \in Awaits
    /\ Lose(loose)
    /\ loose' = {}
    /\ cleaner' = guard
    /\ guard' = NoWork
    /\ Goto("cancelled")
    /\ UNCHANGED <<alive, input, inputVars, attempt, servers, child,
                   cleanupStarted, stop, hook, dropped, held, borrowed>>

-----------------------------------------------------------------------------
(* The session ends.                                                       *)

unchangedByEnd == <<inputVars, startVars>>

\* The reader or the decoder fails.
StreamFails ==
    /\ alive
    /\ alive' = FALSE
    /\ UNCHANGED <<unchangedByEnd, input, hostVars, endVars>>

\* The registry forgets the session without a shutdown: whoever had removed it
\* was cancelled.
LetGo ==
    /\ held
    /\ held' = FALSE
    /\ UNCHANGED <<alive, input, unchangedByEnd, hostVars, child, cleanupStarted, stop,
                   hook, dropped, cleaner, borrowed>>

\* A run of a script looks the session up and keeps it to its end, ...
Borrow ==
    /\ held /\ alive
    /\ borrowed' = TRUE
    /\ UNCHANGED <<alive, input, unchangedByEnd, hostVars, child, cleanupStarted, stop,
                   hook, dropped, cleaner, held>>

\* ... which nothing in the session brings about.
GiveBack ==
    /\ borrowed
    /\ borrowed' = FALSE
    /\ UNCHANGED <<alive, input, unchangedByEnd, hostVars, child, cleanupStarted, stop,
                   hook, dropped, cleaner, held>>

\* shutdown()
BeginShutdown(k) ==
    /\ pc = "up" /\ ~dropped
    /\ stop[k] = "idle"
    /\ alive' = FALSE
    /\ held' = FALSE
    /\ StopTo(k, "input")
    /\ UNCHANGED <<input, unchangedByEnd, hostVars, child, cleanupStarted, hook,
                   dropped, cleaner, borrowed>>

TakeInput(k) ==
    /\ stop[k] = "input"
    /\ input' = FALSE
    /\ StopTo(k, "claim")
    /\ UNCHANGED <<alive, unchangedByEnd, hostVars, child, cleanupStarted, hook,
                   dropped, cleaner, held, borrowed>>

\* cleanup_started.swap(): the first claimant takes the child, which it kills at
\* once, and the ports.
Claim(k) ==
    /\ stop[k] = "claim"
    /\ ~cleanupStarted
    /\ cleanupStarted' = TRUE
    /\ child' = FALSE
    /\ Kill
    /\ cleaner' = [NoWork EXCEPT !.ports = Ports]
    /\ StopTo(k, "clean")
    /\ UNCHANGED <<alive, input, unchangedByEnd, forwards, hook, dropped, held, borrowed>>

ClaimedBefore(k) ==
    /\ stop[k] = "claim"
    /\ cleanupStarted
    /\ StopTo(k, "done")
    /\ UNCHANGED <<alive, input, unchangedByEnd, hostVars, child, cleanupStarted, hook,
                   dropped, cleaner, held, borrowed>>

ShutdownReturns(k) ==
    /\ stop[k] = "clean"
    /\ cleaner = NoWork
    /\ StopTo(k, "done")
    /\ UNCHANGED <<alive, input, unchangedByEnd, hostVars, child, cleanupStarted, hook,
                   dropped, cleaner, held, borrowed>>

\* The future of the shutdown is dropped at an await.
CancelShutdown(k) ==
    /\ stop[k] \in {"input", "clean"}
    /\ IF stop[k] = "clean" THEN Lose(cleaner.ports) /\ cleaner' = NoWork
                            ELSE UNCHANGED <<forwards, cleaner>>
    /\ StopTo(k, "gone")
    /\ UNCHANGED <<alive, input, unchangedByEnd, servers, child, cleanupStarted, hook,
                   dropped, held, borrowed>>

\* The deep-idle hook gives up when the session is dead already, ...
HookSwap ==
    /\ hook = "idle"
    /\ alive
    /\ alive' = FALSE
    /\ hook' = "claim"
    /\ UNCHANGED <<input, unchangedByEnd, hostVars, child, cleanupStarted, stop,
                   dropped, cleaner, held, borrowed>>

\* Mutant: the second swap is a store.
HookClaimAnyway ==
    /\ hook = "claim"
    /\ cleanupStarted' = TRUE
    /\ hook' = "input"
    /\ UNCHANGED <<alive, input, unchangedByEnd, hostVars, child, stop, dropped,
                   cleaner, held, borrowed>>

\* ... or when another has claimed the cleanup; else it spawns a task.
HookClaim ==
    /\ hook = "claim"
    /\ cleanupStarted' = TRUE
    /\ hook' = IF cleanupStarted THEN "done" ELSE "input"
    /\ UNCHANGED <<alive, input, unchangedByEnd, hostVars, child, stop, dropped,
                   cleaner, held, borrowed>>

HookTakesInput ==
    /\ hook = "input"
    /\ input' = FALSE
    /\ hook' = "take"
    /\ UNCHANGED <<alive, unchangedByEnd, hostVars, child, cleanupStarted, stop,
                   dropped, cleaner, held, borrowed>>

HookTakesChild ==
    /\ hook = "take"
    /\ child' = FALSE
    /\ cleaner' = AllWork
    /\ hook' = "done"
    /\ UNCHANGED <<alive, input, unchangedByEnd, hostVars, cleanupStarted, stop,
                   dropped, held, borrowed>>

\* Who has an Arc of the session: the registry, a script, the calls in flight.
Referred ==
    \/ held \/ borrowed
    \/ \E b \in Batches : Calling(b)
    \/ \E k \in Stoppers : stop[k] \in {"input", "claim", "clean"}

\* Mutant: the sender stays with the hook, and so in a cycle.
DropKeepsInput ==
    /\ pc = "up" /\ ~dropped
    /\ ~Referred
    /\ dropped' = TRUE
    /\ alive' = FALSE
    /\ cleanupStarted' = TRUE
    /\ child' = (child /\ cleanupStarted)
    /\ cleaner' = IF cleanupStarted THEN cleaner ELSE AllWork
    /\ UNCHANGED <<input, unchangedByEnd, hostVars, stop, hook, held, borrowed>>

\* The last reference is dropped; if nobody has, a task cleans up.
Drop ==
    /\ pc = "up" /\ ~dropped
    /\ ~Referred
    /\ dropped' = TRUE
    /\ alive' = FALSE
    /\ cleanupStarted' = TRUE
    /\ input' = (input /\ cleanupStarted)
    /\ child' = (child /\ cleanupStarted)
    /\ cleaner' = IF cleanupStarted THEN cleaner ELSE AllWork
    /\ UNCHANGED <<unchangedByEnd, hostVars, stop, hook, held, borrowed>>

\* cleanup_process_and_forwards, and the task of the guard.
CleanerKills ==
    /\ cleaner.server
    /\ Kill
    /\ cleaner' = [cleaner EXCEPT !.server = FALSE]
    /\ UNCHANGED <<alive, input, unchangedByEnd, forwards, child,
                   cleanupStarted, stop, hook, dropped, held, borrowed>>

CleanerRemoves(p) ==
    /\ ~cleaner.server
    /\ p \in cleaner.ports
    /\ RemoveForward(p)
    /\ cleaner' = [cleaner EXCEPT !.ports = @ \ {p}]
    /\ UNCHANGED <<alive, input, unchangedByEnd, servers, child, cleanupStarted, stop,
                   hook, dropped, held, borrowed>>

-----------------------------------------------------------------------------
StartStep ==
    \/ Push \/ PushFails \/ Track \/ ForwardFails \/ Spawn \/ SpawnFails
    \/ ConnectVideo \/ ConnectControl \/ Commit \/ LinkFails
    \/ RollbackKill \/ Waited \/ Drain \/ RolledBack \/ Retry
    \/ \E p \in Ports : Forward(p) \/ RollbackRemove(p)

ShutdownStep(k) ==
    TakeInput(k) \/ Claim(k) \/ ClaimedBefore(k) \/ ShutdownReturns(k)

HookStep == HookClaim \/ HookTakesInput \/ HookTakesChild

CleanerStep == CleanerKills \/ \E p \in Ports : CleanerRemoves(p)

\* A tap, a swipe, a key, ... of whoever refers to the session.
Gesture(b) ==
    /\ pc = "up" /\ ~dropped
    /\ Submit(b)
    /\ UNCHANGED lifeVars

Input == pc = "up" /\ InputStep /\ UNCHANGED lifeVars

Next ==
    \/ StartStep \/ CancelStart
    \/ StreamFails \/ LetGo \/ Borrow \/ GiveBack
    \/ \E k \in Stoppers : BeginShutdown(k) \/ ShutdownStep(k) \/ CancelShutdown(k)
    \/ HookSwap \/ HookStep
    \/ Drop \/ CleanerStep
    \/ Input \/ \E b \in Batches : Gesture(b)

\* The socket gives an answer at last when the server has been killed.
SocketCloses == pc = "up" /\ servers = {} /\ SocketStep /\ UNCHANGED lifeVars

\* Futures and tasks are polled, adb commands and attempts to connect have their
\* timeouts, what nobody refers to is dropped.  The header need never come: it is
\* read without a timeout (session.rs:1101-1112), until the start is cancelled.  Nor
\* does a script have to end.
Fairness ==
    /\ WF_vars(pc # "header" /\ StartStep)
    /\ \A k \in Stoppers : WF_vars(ShutdownStep(k))
    /\ WF_vars(HookStep) /\ WF_vars(Drop) /\ WF_vars(CleanerStep)
    /\ \A b \in Batches : WF_vars(pc = "up" /\ CallStep(b) /\ UNCHANGED lifeVars)
    /\ WF_vars(pc = "up" /\ WriterStep /\ UNCHANGED lifeVars)
    /\ WF_vars(SocketCloses)

Spec == Init /\ [][Next]_vars
FairSpec == Spec /\ Fairness

-----------------------------------------------------------------------------
(* Properties.                                                             *)

\* Types of the variables.
TypeOK ==
    /\ alive \in BOOLEAN /\ input \in BOOLEAN
    /\ InputTypeOK
    /\ pc \in StartPcs
    /\ attempt \in 1..Attempts
    /\ guard \in Work
    /\ loose \subseteq Ports
    /\ servers \subseteq 1..Attempts
    /\ forwards \subseteq (1..Attempts) \X Ports
    /\ child \in BOOLEAN /\ cleanupStarted \in BOOLEAN /\ dropped \in BOOLEAN
    /\ stop \in [Stoppers -> StopPcs]
    /\ hook \in HookPcs
    /\ cleaner \in Work
    /\ held \in BOOLEAN /\ borrowed \in BOOLEAN

\* What the session itself, or the hook that has claimed it, has to clean up.
Unclaimed == pc = "up" /\ (~cleanupStarted \/ hook \in {"input", "take"})
SessionPorts == IF Unclaimed THEN Ports ELSE {}

\* However the ends of a session overlap, one of them removes its forwards, and
\* only while they are there: a port that is free again may belong to another
\* session, whose forward a second removal would take away.
RemovedOnce ==
    /\ guard.ports \cap loose = {}
    /\ SessionPorts \cap cleaner.ports = {}
    /\ Mine(guard.ports \cup loose \cup SessionPorts \cup cleaner.ports) \subseteq forwards

\* session.rs:921-923, "Every fallible startup stage can therefore be rolled back
\* without leaking an adb forward or a server process": a server that runs and a
\* forward that adb has are somebody's to clean up, in a start, a retry, a
\* session or after them.  Only forwards can be lost, and only to an adb command
\* that failed or to a future dropped while it had them in hand.
NothingForgotten ==
    /\ servers \subseteq
          IF guard.server \/ cleaner.server \/ child THEN {attempt} ELSE {}
    /\ forwards \subseteq
          Mine(guard.ports \cup loose \cup SessionPorts \cup cleaner.ports)

\* Nobody uses the session, or what was to become one, any more.
Over == \/ pc \in {"failed", "cancelled"}
        \/ pc = "up" /\ ~alive /\ ~held /\ ~borrowed

\* A start that failed or was cancelled, and a session that ended and that no
\* script keeps, leave no server, and only the forwards that were lost; and the
\* control socket of a session that ended is closed.
EverythingReleased ==
    Over ~> /\ servers = {} /\ forwards = {}
            /\ pc = "up" => writer.pc = "ended"
=============================================================================
