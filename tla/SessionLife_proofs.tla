------------------------- MODULE SessionLife_proofs -------------------------
(***************************************************************************)
(* Proofs about SessionLife with its input, for any number of attempts,    *)
(* ports, batches and calls of shutdown.  The invariant adds to RemovedOnce *)
(* and NothingForgotten what makes them inductive:                         *)
(*   BeforeUp   until the session is up nothing has used or ended it       *)
(*   StartInv   what the guard and connect() have in hand at each point    *)
(*   EndInv     who has claimed the cleanup, and with what                 *)
(* and to the input what InputWriter_proofs shows of every step there.     *)
(***************************************************************************)
EXTENDS SessionLife, InputWriter_proofs

\* Until the start has committed, no gesture was submitted and nobody has ended
\* the session.
BeforeUp ==
    pc # "up" =>
        /\ ~alive /\ ~held /\ ~cleanupStarted /\ ~dropped /\ hook = "idle"
        /\ \A k \in Stoppers : stop[k] = "idle"
        /\ \A b \in Batches : sent[b] = 0

\* The guard has a server from the spawn until the rollback takes it, and both
\* ports once the server may be spawned; connect() has ports in hand only between
\* adb's forward and its tracking, and in the removals of a rollback.  A pause is
\* followed by another attempt.
StartInv ==
    /\ pc \in {"push", "remove", "pause", "up", "failed", "cancelled"} => guard = NoWork
    /\ pc \in {"forward", "forwarded", "spawn", "killed", "drain"} => ~guard.server
    /\ pc = "spawn" => guard.ports = Ports
    /\ pc \in {"video", "control", "header"} => guard = AllWork
    /\ pc \notin {"forwarded", "remove"} => loose = {}
    /\ pc = "pause" => attempt < Attempts

\* The child is there until the cleanup is claimed, or the hook that has claimed
\* it has got that far; a shutdown that cleans up has killed it already.
EndInv ==
    /\ child <=> Unclaimed
    /\ pc \notin {"up", "cancelled"} \/ Unclaimed => cleaner = NoWork
    /\ hook \in {"input", "take"} => cleanupStarted
    /\ \A k \in Stoppers :
          stop[k] = "clean" => /\ cleanupStarted /\ hook \notin {"input", "take"}
                               /\ ~cleaner.server

\* The part about the life of the session.
LifeInv == BeforeUp /\ StartInv /\ EndInv /\ RemovedOnce /\ NothingForgotten

\* Types of the variables that are not those of the input.
LifeTypeOK ==
    /\ alive \in BOOLEAN /\ input \in BOOLEAN
    /\ pc \in StartPcs
    /\ attempt \in 1..Attempts
    /\ guard \in Work
    /\ loose \subseteq Ports
    /\ servers \subseteq 1..Attempts
    /\ forwards \subseteq (1..Attempts) \X Ports
    /\ child \in BOOLEAN /\ cleanupStarted \in BOOLEAN /\ dropped \in BOOLEAN
    /\ stop \in [Stoppers -> StopPcs]
    /\ hook \in HookPcs
    /\ cleaner \in Work
    /\ held \in BOOLEAN /\ borrowed \in BOOLEAN

IInv == LifeTypeOK /\ LifeInv /\ InputInv

-----------------------------------------------------------------------------
(* The input does not disturb the session, and the other way round.        *)

\* A step of the input leaves the session alone, but for its end.
LEMMA InputTouches == InputNext => input' = input /\ alive' \in {alive, FALSE}
BY DEF InputNext, InputStep, Submit, CallStep, Enqueue, Refuse, Receive, Timeout,
       Abandon, WriterStep, TakeBatch, QueueClosed, CheckAlive, EndDelay,
       AnswerError, Break, EndWriter, SocketStep, Write, AnswerOk, WriteFails

\* A step that leaves the input alone and does not bring the session up once a
\* gesture was begun.
LEMMA InputKept ==
    ASSUME InputInv, UNCHANGED inputVars, alive' => alive \/ \A b \in Batches : sent[b] = 0
    PROVE  InputInv'
<1>1. InputTypeOK' /\ QueueInv' /\ WriterInv' /\ AnswerInv'
  BY DEF InputInv, inputVars, InputTypeOK, QueueInv, WriterInv, AnswerInv, Unsent
<1>2. GesturesAreWhole'
  BY InputAssumption DEF InputInv, inputVars, GesturesAreWhole
<1> QED
  BY <1>1, <1>2 DEF InputInv

\* At the start there is nothing.
LEMMA LifeInit == Init => IInv
<1> SUFFICES ASSUME Init PROVE IInv
    OBVIOUS
<1>1. LifeTypeOK
  <2>1. attempt \in 1..Attempts
    BY LifeAssumption DEF Init
  <2>2. guard \in Work /\ cleaner \in Work
    BY DEF Init, Work, NoWork
  <2>3. stop \in [Stoppers -> StopPcs] /\ hook \in HookPcs
    BY DEF Init, StopPcs, HookPcs
  <2> QED
    BY <2>1, <2>2, <2>3 DEF Init, LifeTypeOK, StartPcs
<1>2. LifeInv
  BY DEF Init, InputInit, LifeInv, BeforeUp, StartInv, EndInv, RemovedOnce,
         NothingForgotten, Mine, Unclaimed, SessionPorts, NoWork, AllWork
<1>3. InputInv
  BY InputInitInv DEF Init
<1> QED
  BY <1>1, <1>2, <1>3 DEF IInv

-----------------------------------------------------------------------------
(* connect(), and what undoes it.                                          *)

\* The types, in a step of the start.
LEMMA StartTypes ==
    ASSUME IInv, StartStep \/ CancelStart PROVE LifeTypeOK'
<1> USE LifeAssumption DEF IInv, LifeTypeOK, StartPcs, Work, NoWork, Goto, RollBack, Lose,
        Mine, Kill, RemoveForward, unchangedByStart, hostVars, endVars
<1>1. CASE Push
  BY <1>1 DEF Push
<1>2. CASE PushFails
  BY <1>2 DEF PushFails
<1>3. CASE Track
  BY <1>3 DEF Track
<1>4. CASE ForwardFails
  BY <1>4 DEF ForwardFails
<1>5. CASE Spawn
  BY <1>5 DEF Spawn
<1>6. CASE SpawnFails
  BY <1>6 DEF SpawnFails
<1>7. CASE ConnectVideo
  BY <1>7 DEF ConnectVideo
<1>8. CASE ConnectControl
  BY <1>8 DEF ConnectControl
<1>9. CASE Commit
  BY <1>9 DEF Commit
<1>10. CASE LinkFails
  BY <1>10 DEF LinkFails
<1>11. CASE RollbackKill
  BY <1>11 DEF RollbackKill
<1>12. CASE Waited
  BY <1>12 DEF Waited
<1>13. CASE Drain
  BY <1>13 DEF Drain
<1>14. CASE RolledBack
  BY <1>14 DEF RolledBack
<1>15. CASE Retry
  BY <1>15 DEF Retry, LifeInv, StartInv
<1>16. CASE CancelStart
  BY <1>16 DEF CancelStart
<1>17. ASSUME NEW p \in Ports, Forward(p) PROVE LifeTypeOK'
  BY <1>17 DEF Forward
<1>18. ASSUME NEW p \in Ports, RollbackRemove(p) PROVE LifeTypeOK'
  BY <1>18 DEF RollbackRemove
<1> QED
  BY <1>1, <1>2, <1>3, <1>4, <1>5, <1>6, <1>7, <1>8, <1>9, <1>10, <1>11, <1>12, <1>13, <1>14, <1>15, <1>16, <1>17, <1>18 DEF StartStep

\* The invariant, in a step of the start.
LEMMA StartSteps ==
    ASSUME IInv, StartStep \/ CancelStart PROVE LifeInv'
<1> USE LifeAssumption DEF IInv, LifeTypeOK, StartPcs, Work, NoWork, Goto, RollBack, Lose,
        Mine, Kill, RemoveForward, unchangedByStart, inputVars, hostVars, endVars, AllWork,
        LifeInv, BeforeUp, StartInv, EndInv, RemovedOnce, NothingForgotten, Unclaimed,
        SessionPorts
<1>1. CASE Push
  BY <1>1 DEF Push
<1>2. CASE PushFails
  BY <1>2 DEF PushFails
<1>3. CASE Track
  BY <1>3 DEF Track
<1>4. CASE ForwardFails
  BY <1>4 DEF ForwardFails
<1>5. CASE Spawn
  BY <1>5 DEF Spawn
<1>6. CASE SpawnFails
  BY <1>6 DEF SpawnFails
<1>7. CASE ConnectVideo
  BY <1>7 DEF ConnectVideo
<1>8. CASE ConnectControl
  BY <1>8 DEF ConnectControl
<1>9. CASE Commit
  BY <1>9 DEF Commit
<1>10. CASE LinkFails
  BY <1>10 DEF LinkFails
<1>11. CASE RollbackKill
  BY <1>11 DEF RollbackKill
<1>12. CASE Waited
  BY <1>12 DEF Waited
<1>13. CASE Drain
  <2>1. /\ pc = "drain" /\ pc' = "remove" /\ loose = {} /\ ~guard.server
        /\ loose' = guard.ports /\ guard'.ports = {} /\ guard'.server = guard.server
        /\ UNCHANGED <<unchangedByStart, hostVars>>
    BY <1>13 DEF Drain
  <2>2. BeforeUp'
    BY <2>1
  <2>3. guard' = NoWork
    BY <1>13, <2>1 DEF Drain
  <2>4. StartInv'
    BY <2>1, <2>3
  <2>5. EndInv'
    BY <2>1
  <2>6. RemovedOnce'
    BY <2>1
  <2>7. NothingForgotten'
    BY <2>1
  <2> QED
    BY <2>2, <2>4, <2>5, <2>6, <2>7
<1>14. CASE RolledBack
  BY <1>14 DEF RolledBack
<1>15. CASE Retry
  <2>1. guard = NoWork /\ loose = {} /\ cleaner = NoWork /\ ~child
    BY <1>15 DEF Retry
  <2>2. servers = {} /\ forwards = {}
    BY <1>15, <2>1 DEF Retry
  <2> QED
    BY <1>15, <2>1, <2>2 DEF Retry
<1>16. CASE CancelStart
  <2>1. /\ pc \notin {"up", "cancelled"} /\ ~Unclaimed /\ ~Unclaimed'
        /\ cleaner = NoWork /\ ~child /\ SessionPorts = {} /\ SessionPorts' = {}
    BY <1>16 DEF CancelStart, Awaits
  <2>2. BeforeUp' /\ StartInv' /\ EndInv'
    BY <1>16, <2>1 DEF CancelStart
  <2>3. RemovedOnce'
    BY <1>16, <2>1 DEF CancelStart
  <2>4. NothingForgotten'
    BY <1>16, <2>1 DEF CancelStart
  <2> QED
    BY <2>2, <2>3, <2>4
<1>17. ASSUME NEW p \in Ports, Forward(p) PROVE LifeInv'
  BY <1>17 DEF Forward
<1>18. ASSUME NEW p \in Ports, RollbackRemove(p) PROVE LifeInv'
  BY <1>18 DEF RollbackRemove
<1> QED
  BY <1>1, <1>2, <1>3, <1>4, <1>5, <1>6, <1>7, <1>8, <1>9, <1>10, <1>11, <1>12, <1>13, <1>14, <1>15, <1>16, <1>17, <1>18 DEF StartStep

-----------------------------------------------------------------------------
(* The ends of the session.                                                *)

\* A step that ends the session, or cleans up after it.
EndStep ==
    \/ StreamFails \/ LetGo \/ Borrow \/ GiveBack
    \/ \E k \in Stoppers : BeginShutdown(k) \/ ShutdownStep(k) \/ CancelShutdown(k)
    \/ HookSwap \/ HookStep
    \/ Drop \/ CleanerStep

\* The types, in a step of the end.
LEMMA EndTypes ==
    ASSUME IInv, EndStep PROVE LifeTypeOK'
<1> USE DEF IInv, LifeTypeOK, StopPcs, HookPcs, Work, NoWork, AllWork, StopTo, Lose,
        Mine, Kill, RemoveForward, unchangedByEnd, startVars, hostVars, endVars
<1>1. CASE StreamFails
  BY <1>1 DEF StreamFails
<1>2. CASE LetGo
  BY <1>2 DEF LetGo
<1>3. CASE HookSwap
  BY <1>3 DEF HookSwap
<1>4. CASE HookClaim
  BY <1>4 DEF HookClaim
<1>5. CASE HookTakesInput
  BY <1>5 DEF HookTakesInput
<1>6. CASE HookTakesChild
  BY <1>6 DEF HookTakesChild
<1>7. CASE Drop
  BY <1>7 DEF Drop
<1>8. CASE CleanerKills
  BY <1>8 DEF CleanerKills
<1>9. ASSUME NEW k \in Stoppers, BeginShutdown(k) PROVE LifeTypeOK'
  BY <1>9 DEF BeginShutdown
<1>10. ASSUME NEW k \in Stoppers, TakeInput(k) PROVE LifeTypeOK'
  BY <1>10 DEF TakeInput
<1>11. ASSUME NEW k \in Stoppers, Claim(k) PROVE LifeTypeOK'
  BY <1>11 DEF Claim
<1>12. ASSUME NEW k \in Stoppers, ClaimedBefore(k) PROVE LifeTypeOK'
  BY <1>12 DEF ClaimedBefore
<1>13. ASSUME NEW k \in Stoppers, ShutdownReturns(k) PROVE LifeTypeOK'
  BY <1>13 DEF ShutdownReturns
<1>14. ASSUME NEW k \in Stoppers, CancelShutdown(k) PROVE LifeTypeOK'
  <2>1. forwards' \subseteq forwards /\ cleaner' \in Work
    <3>1. CASE stop[k] = "clean"
      <4>1. cleaner' = [server |-> FALSE, ports |-> {}]
        BY <1>14, <3>1 DEF CancelShutdown
      <4>2. forwards' = forwards \ ({attempt} \X cleaner.ports)
        BY <1>14, <3>1 DEF CancelShutdown
      <4> HIDE DEF Work
      <4> QED
        BY <4>1, <4>2 DEF Work
    <3>2. CASE stop[k] = "input"
      BY <1>14, <3>2 DEF CancelShutdown
    <3> QED
      BY <1>14, <3>1, <3>2 DEF CancelShutdown
  <2>2. stop' \in [Stoppers -> StopPcs]
    BY <1>14 DEF CancelShutdown
  <2> QED
    BY <1>14, <2>1, <2>2 DEF CancelShutdown
<1>15. ASSUME NEW p \in Ports, CleanerRemoves(p) PROVE LifeTypeOK'
  BY <1>15 DEF CleanerRemoves
<1>16. CASE Borrow
  BY <1>16 DEF Borrow
<1>17. CASE GiveBack
  BY <1>17 DEF GiveBack
<1> QED
  BY <1>1, <1>2, <1>3, <1>4, <1>5, <1>6, <1>7, <1>8, <1>9,
     <1>10, <1>11, <1>12, <1>13, <1>14, <1>15, <1>16, <1>17
  DEF EndStep, ShutdownStep, HookStep, CleanerStep

\* The invariant, in a step of the end.
LEMMA EndSteps ==
    ASSUME IInv, EndStep PROVE LifeInv'
<1> USE DEF IInv, LifeTypeOK, StopPcs, HookPcs, Work, NoWork, AllWork, StopTo, Lose,
        Mine, Kill, RemoveForward, unchangedByEnd, startVars, inputVars, hostVars, endVars,
        LifeInv, BeforeUp, StartInv, EndInv, RemovedOnce, NothingForgotten, Unclaimed,
        SessionPorts
<1>1. CASE StreamFails
  BY <1>1 DEF StreamFails
<1>2. CASE LetGo
  BY <1>2 DEF LetGo
<1>3. CASE HookSwap
  BY <1>3 DEF HookSwap
<1>4. CASE HookClaim
  BY <1>4 DEF HookClaim
<1>5. CASE HookTakesInput
  BY <1>5 DEF HookTakesInput
<1>6. CASE HookTakesChild
  BY <1>6 DEF HookTakesChild
<1>7. CASE Drop
  BY <1>7 DEF Drop
<1>8. CASE CleanerKills
  BY <1>8 DEF CleanerKills
<1>9. ASSUME NEW k \in Stoppers, BeginShutdown(k) PROVE LifeInv'
  BY <1>9 DEF BeginShutdown
<1>10. ASSUME NEW k \in Stoppers, TakeInput(k) PROVE LifeInv'
  BY <1>10 DEF TakeInput
<1>11. ASSUME NEW k \in Stoppers, Claim(k) PROVE LifeInv'
  BY <1>11 DEF Claim
<1>12. ASSUME NEW k \in Stoppers, ClaimedBefore(k) PROVE LifeInv'
  BY <1>12 DEF ClaimedBefore
<1>13. ASSUME NEW k \in Stoppers, ShutdownReturns(k) PROVE LifeInv'
  BY <1>13 DEF ShutdownReturns
<1>14. ASSUME NEW k \in Stoppers, CancelShutdown(k) PROVE LifeInv'
  BY <1>14 DEF CancelShutdown
<1>15. ASSUME NEW p \in Ports, CleanerRemoves(p) PROVE LifeInv'
  BY <1>15 DEF CleanerRemoves
<1>16. CASE Borrow
  BY <1>16 DEF Borrow
<1>17. CASE GiveBack
  BY <1>17 DEF GiveBack
<1> QED
  BY <1>1, <1>2, <1>3, <1>4, <1>5, <1>6, <1>7, <1>8, <1>9,
     <1>10, <1>11, <1>12, <1>13, <1>14, <1>15, <1>16, <1>17
  DEF EndStep, ShutdownStep, HookStep, CleanerStep

\* The session ends once: no step of the start or of the end touches the input,
\* and only the commit, before which nothing was sent, brings the session up.
LEMMA LifeKeepsInput ==
    ASSUME IInv, StartStep \/ CancelStart \/ EndStep
    PROVE  UNCHANGED inputVars /\ (alive' => alive \/ \A b \in Batches : sent[b] = 0)
<1> USE DEF unchangedByStart, unchangedByEnd
<1>1. CASE StartStep \/ CancelStart
  <2>1. CASE Commit
    BY <2>1 DEF Commit, IInv, LifeInv, BeforeUp
  <2>2. CASE CancelStart
    BY <2>2 DEF CancelStart
  <2>3. CASE Retry
    BY <2>3 DEF Retry
  <2>4. ASSUME NEW p \in Ports, Forward(p) \/ RollbackRemove(p)
        PROVE  UNCHANGED <<alive, inputVars>>
    BY <2>4 DEF Forward, RollbackRemove
  <2>5. CASE Push \/ PushFails \/ Track \/ ForwardFails \/ Spawn \/ SpawnFails
    BY <2>5 DEF Push, PushFails, Track, ForwardFails, Spawn, SpawnFails
  <2>6. CASE ConnectVideo \/ ConnectControl \/ LinkFails
    BY <2>6 DEF ConnectVideo, ConnectControl, LinkFails
  <2>7. CASE RollbackKill \/ Waited \/ Drain \/ RolledBack
    BY <2>7 DEF RollbackKill, Waited, Drain, RolledBack
  <2> QED
    BY <1>1, <2>1, <2>2, <2>3, <2>4, <2>5, <2>6, <2>7 DEF StartStep
<1>2. CASE EndStep
  BY <1>2 DEF EndStep, StreamFails, LetGo, Borrow, GiveBack, BeginShutdown, ShutdownStep, TakeInput, Claim,
     ClaimedBefore, ShutdownReturns, CancelShutdown, HookSwap, HookStep, HookClaim,
     HookTakesInput, HookTakesChild, Drop, CleanerStep, CleanerKills, CleanerRemoves
<1> QED
  BY <1>1, <1>2

\* A step of the input leaves the rest of the session as it is.
LEMMA InputKeepsLife ==
    ASSUME IInv, pc = "up", InputNext, UNCHANGED lifeVars
    PROVE  LifeTypeOK' /\ LifeInv'
<1>1. input' = input /\ alive' \in {alive, FALSE}
  BY InputTouches
<1>2. UNCHANGED <<pc, attempt, guard, loose, servers, forwards, child, cleanupStarted,
                  stop, hook, dropped, cleaner, held, borrowed>>
  BY DEF lifeVars, startVars, hostVars, endVars
<1>3. LifeTypeOK'
  BY <1>1, <1>2 DEF IInv, LifeTypeOK
<1>4. BeforeUp' /\ StartInv'
  BY <1>2 DEF IInv, LifeInv, BeforeUp, StartInv
<1>5. EndInv' /\ RemovedOnce' /\ NothingForgotten'
  BY <1>2 DEF IInv, LifeInv, EndInv, RemovedOnce, NothingForgotten, Unclaimed,
              SessionPorts, Mine
<1> QED
  BY <1>3, <1>4, <1>5 DEF LifeInv

-----------------------------------------------------------------------------
(* The theorems.                                                           *)

\* The invariant holds in every reachable state.
THEOREM Invariance == Spec => []IInv
<1>1. Init => IInv
  BY LifeInit
<1>2. IInv /\ [Next]_vars => IInv'
  <2> SUFFICES ASSUME IInv, [Next]_vars PROVE IInv'
    OBVIOUS
  <2>1. CASE StartStep \/ CancelStart
    BY <2>1, StartTypes, StartSteps, LifeKeepsInput, InputKept DEF IInv
  <2>2. CASE EndStep
    BY <2>2, EndTypes, EndSteps, LifeKeepsInput, InputKept DEF IInv
  <2>3. CASE Input \/ \E b \in Batches : Gesture(b)
    <3>1. pc = "up" /\ InputNext /\ UNCHANGED lifeVars
      BY <2>3 DEF Input, Gesture, InputNext
    <3>2. InputInv'
      BY <3>1, InputNextInv DEF IInv, LifeTypeOK
    <3> QED
      BY <3>1, <3>2, InputKeepsLife DEF IInv
  <2>4. CASE UNCHANGED vars
    <3>1. InputInv'
      BY <2>4, InputKept DEF vars, IInv
    <3>2. LifeTypeOK'
      BY <2>4 DEF vars, lifeVars, startVars, hostVars, endVars, IInv, LifeTypeOK
    <3>3. LifeInv'
      BY <2>4 DEF vars, inputVars, lifeVars, startVars, hostVars, endVars, IInv, LifeInv,
         BeforeUp, StartInv, EndInv, RemovedOnce, NothingForgotten, Unclaimed,
         SessionPorts, Mine
    <3> QED
      BY <3>1, <3>2, <3>3 DEF IInv
  <2> QED
    BY <2>1, <2>2, <2>3, <2>4 DEF Next, EndStep
<1> QED
  BY <1>1, <1>2, PTL DEF Spec

\* The variables of the session and of its input have their types; the queue of
\* the input never holds more batches than its capacity.
THEOREM TypeCorrect == Spec => []TypeOK
<1>1. IInv => TypeOK
  BY DEF IInv, LifeTypeOK, InputInv, TypeOK
<1> QED
  BY <1>1, Invariance, PTL

\* Whichever of the shutdowns, the deep-idle hook and the drop ends a session, and
\* however they overlap, its forwards are removed by one of them, while they are there.
THEOREM OneRemoval == Spec => []RemovedOnce
<1>1. IInv => RemovedOnce
  BY DEF IInv, LifeInv
<1> QED
  BY <1>1, Invariance, PTL

\* A server that runs and a forward that adb has are always somebody's to clean up,
\* however many attempts fail or are cancelled.
THEOREM NothingLeaks == Spec => []NothingForgotten
<1>1. IInv => NothingForgotten
  BY DEF IInv, LifeInv
<1> QED
  BY <1>1, Invariance, PTL

\* A gesture that is reported as done was written to its last message.
THEOREM SuccessIsTrue == Spec => []OkMeansWritten
<1>1. IInv => OkMeansWritten
  BY DEF IInv, InputInv, AnswerInv, OkMeansWritten
<1> QED
  BY <1>1, Invariance, PTL

\* A gesture that was refused, because the session was dead, the queue full or the
\* writer gone, has had no effect and will have none.
THEOREM RefusalIsTrue == Spec => []RefusedIsNotSent
<1>1. IInv => RefusedIsNotSent
  BY DEF IInv, InputInv, AnswerInv, Unsent, RefusedIsNotSent
<1> QED
  BY <1>1, Invariance, PTL

\* A gesture that was cut short has ended its session: no other follows it.
THEOREM NoHalfGesture == Spec => []GesturesAreWhole
<1>1. IInv => GesturesAreWhole
  BY DEF IInv, InputInv
<1> QED
  BY <1>1, Invariance, PTL
=============================================================================
