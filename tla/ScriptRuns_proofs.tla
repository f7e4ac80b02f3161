-------------------------- MODULE ScriptRuns_proofs --------------------------
(***************************************************************************)
(* Proofs about ScriptRuns, for any number of sessions, runs and handlers  *)
(* and any bound on the frames.  All of them rest on the generations: a    *)
(* session never gives the same one twice, and a run that has finished is  *)
(* behind.  The invariant:                                                 *)
(*   HandInv      what a start handler has in hand                         *)
(*   GenInv       the generations of the runs                              *)
(*   SlotInv      who can be in the slot of a session                      *)
(*   MetricsInv   whose callbacks the metrics can count                    *)
(*   FedInv       what the slot of a listed run looks like                 *)
(*   and DemandHasRun and NoOrphanRuns themselves                          *)
(***************************************************************************)
EXTENDS ScriptRuns, FiniteSetTheorems, TLAPS

\* The worker of the run was spawned.
Begun(r) == wpc[r] # "new"

\* A start handler has a session from the lookup on, and a run of that session
\* from the spawn to the registration.
HandInv ==
    \A h \in Handlers :
        /\ pc[h] \in {"clear", "detach", "begin", "attach", "register"} => hs[h] # None
        /\ pc[h] \in {"attach", "register"} <=> hr[h] # None
        /\ hr[h] # None => Begun(hr[h]) /\ sess[hr[h]] = hs[h]

\* A run that was begun has a generation its session has given, and no other run
\* has it; when the run is done the session has moved on.
GenInv ==
    /\ \A r \in Runs :
          /\ Begun(r) => sess[r] # None /\ rgen[r] <= gen[sess[r]]
          /\ wpc[r] = "done" => rgen[r] < gen[sess[r]]
    /\ \A r, q \in Runs :
          Begun(r) /\ Begun(q) /\ sess[r] = sess[q] /\ rgen[r] = rgen[q] => r = q

\* The run in the slot is of the session's current generation.
SlotInv ==
    \A x \in Sessions :
        sender[x] # None => /\ Begun(sender[x])
                            /\ sess[sender[x]] = x /\ rgen[sender[x]] = gen[x]

\* The run is attached, or was fed a frame when it was.
Fed(r) == box[r] # 0 \/ got[r] # 0 \/ sender[sess[r]] = r

\* No callback without a frame, and no frame before the metrics were reset: while a
\* generation is current and its run was fed, the metrics count no other run.
MetricsInv ==
    /\ \A r \in Runs : /\ ~Begun(r) => box[r] = 0 /\ got[r] = 0
                       /\ wpc[r] = "call" => got[r] # 0
                       /\ Begun(r) /\ Mine(r) /\ Fed(r) => stats[sess[r]] \subseteq {r}
    /\ \A x \in Sessions : stats[x] = {} \/ \E r \in Runs : stats[x] = {r}

\* The run is registered, or is about to be.
Listed(r) == r \in scripts \/ \E h \in Handlers : pc[h] = "register" /\ hr[h] = r

\* A listed run of the current generation is in the slot of its session.
FedInv ==
    \A r \in Runs :
        Listed(r) => /\ Begun(r)
                     /\ Mine(r) => sender[sess[r]] = r /\ active[sess[r]]

\* The inductive invariant.
IInv == /\ TypeOK /\ HandInv /\ GenInv /\ SlotInv /\ MetricsInv
        /\ FedInv /\ DemandHasRun /\ NoOrphanRuns

-----------------------------------------------------------------------------
(* Types.                                                                  *)

\* The types of a slot.
SlotTypes ==
    /\ gen \in [Sessions -> Nat]
    /\ sender \in [Sessions -> Runs \cup {None}]
    /\ active \in [Sessions -> BOOLEAN]
    /\ stats \in [Sessions -> SUBSET Runs]

\* A detachment keeps them.
LEMMA DetachTypes ==
    ASSUME SlotTypes, NEW x \in Sessions, NEW g, DetachIf(x, g) PROVE SlotTypes'
<1>1. CASE gen[x] # g
  BY <1>1 DEF SlotTypes, DetachIf, slotVars
<1>2. CASE DetachNow(x)
  <2>1. gen' \in [Sessions -> Nat]
    BY <1>2 DEF SlotTypes, DetachNow
  <2>2. /\ sender' \in [Sessions -> Runs \cup {None}]
        /\ active' \in [Sessions -> BOOLEAN] /\ stats' \in [Sessions -> SUBSET Runs]
    BY <1>2 DEF SlotTypes, DetachNow
  <2> QED
    BY <2>1, <2>2 DEF SlotTypes
<1> QED
  BY <1>1, <1>2 DEF DetachIf

\* The types of what a handler drops.
HandTypes ==
    /\ pc \in [Handlers -> Pcs]
    /\ hs \in [Handlers -> Sessions \cup {None}]
    /\ hr \in [Handlers -> Runs \cup {None}]
    /\ taken \in [Handlers -> SUBSET Runs]

\* The drop keeps them.
LEMMA DropTypes ==
    ASSUME HandTypes, NEW h \in Handlers, Drop(h) PROVE HandTypes'
BY DEF HandTypes, Drop, Goto, Pcs

\* Every step keeps the types.
LEMMA TypeStep ==
    ASSUME TypeOK, HandInv, GenInv, [Next]_vars PROVE TypeOK'
<1> USE ScriptRunsAssumption DEF TypeOK, Pcs, WorkerPcs, Goto, WorkerTo, CancelRuns,
        managerVars, slotVars, frameVars, channelVars, runVars, handlerVars, unchangedByWorker
<1>1. ASSUME NEW r \in Runs, TakeFrame(r) PROVE TypeOK'
  BY <1>1 DEF TakeFrame
<1>2. ASSUME NEW r \in Runs, Stop(r) PROVE TypeOK'
  BY <1>2 DEF Stop
<1>3. ASSUME NEW r \in Runs, FailToLoad(r) PROVE TypeOK'
  BY <1>3 DEF FailToLoad
<1>4. ASSUME NEW r \in Runs, FailCall(r) PROVE TypeOK'
  BY <1>4 DEF FailCall
<1>5. ASSUME NEW r \in Runs, Record(r) PROVE TypeOK'
  <2>1. stats' \in [Sessions -> SUBSET Runs]
    BY <1>5 DEF Record
  <2>2. wpc' \in [Runs -> WorkerPcs]
    BY <1>5 DEF Record
  <2> QED
    BY <1>5, <2>1, <2>2 DEF Record
<1>6. ASSUME NEW r \in Runs, Finish(r) PROVE TypeOK'
  <2>1. SlotTypes'
    BY <1>6, DetachTypes DEF Finish, GenInv, Begun, SlotTypes
  <2> QED
    BY <1>6, <2>1 DEF Finish, Hangup, SlotTypes
<1>7. ASSUME NEW r \in Runs, Reap(r) PROVE TypeOK'
  BY <1>7 DEF Reap
<1>8. ASSUME NEW h \in Handlers, StartScript(h) PROVE TypeOK'
  BY <1>8 DEF StartScript
<1>9. ASSUME NEW h \in Handlers, ClearOld(h) PROVE TypeOK'
  BY <1>9 DEF ClearOld, TakeOut
<1>10. ASSUME NEW h \in Handlers, Detach(h) PROVE TypeOK'
  <2>1. SlotTypes'
    <3>1. CASE current # None
      BY <1>10, <3>1, DetachTypes DEF Detach, SlotTypes
    <3>2. CASE current = None
      BY <1>10, <3>2 DEF Detach, SlotTypes
    <3> QED
      BY <3>1, <3>2
  <2> QED
    BY <1>10, <2>1 DEF Detach, SlotTypes
<1>11. ASSUME NEW h \in Handlers, Attach(h) PROVE TypeOK'
  <2>1. hs[h] \in Sessions /\ hr[h] \in Runs
    BY <1>11 DEF Attach, HandInv
  <2>2. SlotTypes'
    BY <1>11, <2>1 DEF Attach, SlotTypes
  <2>3. box' \in [Runs -> 0..MaxFrame] /\ unseen' \subseteq Runs
    BY <1>11, <2>1 DEF Attach, Put
  <2> QED
    BY <1>11, <2>2, <2>3 DEF Attach, SlotTypes
<1>12. ASSUME NEW h \in Handlers, Superseded(h) PROVE TypeOK'
  <2>1. hr[h] \in Runs
    BY <1>12 DEF Superseded, HandInv
  <2>2. HandTypes'
    BY <1>12, DropTypes DEF Superseded, HandTypes
  <2> QED
    BY <1>12, <2>1, <2>2 DEF Superseded, HandTypes
<1>13. ASSUME NEW h \in Handlers, Register(h) PROVE TypeOK'
  <2>1. hr[h] \in Runs
    BY <1>13 DEF Register, HandInv
  <2>2. HandTypes'
    BY <1>13, DropTypes DEF Register, HandTypes
  <2> QED
    BY <1>13, <2>1, <2>2 DEF Register, HandTypes
<1>14. ASSUME NEW h \in Handlers, StopScript(h) PROVE TypeOK'
  BY <1>14 DEF StopScript, TakeOut
<1>15. ASSUME NEW h \in Handlers, AbortHandler(h) PROVE TypeOK'
  BY <1>15 DEF AbortHandler, Drop
<1>16. ASSUME NEW h \in Handlers, NEW r \in Runs, BeginScript(h, r) PROVE TypeOK'
  <2>1. hs[h] \in Sessions
    BY <1>16 DEF BeginScript, HandInv
  <2>2. SlotTypes'
    BY <1>16, <2>1 DEF BeginScript, SlotTypes
  <2>3. HandTypes'
    BY <1>16 DEF BeginScript, HandTypes
  <2>4. sess' \in [Runs -> Sessions \cup {None}] /\ rgen' \in [Runs -> Nat]
    BY <1>16, <2>1 DEF BeginScript
  <2>5. wpc' \in [Runs -> WorkerPcs]
    BY <1>16 DEF BeginScript
  <2> HIDE DEF Pcs, WorkerPcs
  <2> QED
    BY <1>16, <2>1, <2>2, <2>3, <2>4, <2>5 DEF BeginScript, SlotTypes, HandTypes
<1>17. ASSUME NEW x \in Sessions, Publish(x) PROVE TypeOK'
  BY <1>17 DEF Publish, Put
<1>18. ASSUME NEW x \in Sessions, Resume(x) PROVE TypeOK'
  BY <1>18 DEF Resume
<1>19. ASSUME NEW x \in Sessions, SessionStarts(x) PROVE TypeOK'
  BY <1>19 DEF SessionStarts
<1>20. ASSUME NEW x \in Sessions, SessionEnds(x) PROVE TypeOK'
  BY <1>20 DEF SessionEnds
<1>21. ASSUME NEW x \in Sessions, SessionShutdown(x) PROVE TypeOK'
  BY <1>21 DEF SessionShutdown, DetachNow
<1>22. CASE UNCHANGED vars
  BY <1>22 DEF vars
<1> QED
  BY <1>1, <1>2, <1>3, <1>4, <1>5, <1>6, <1>7, <1>8, <1>9, <1>10, <1>11,
     <1>12, <1>13, <1>14, <1>15, <1>16, <1>17, <1>18, <1>19, <1>20, <1>21, <1>22
  DEF Next, WorkerStep, HandlerStep, Session


-----------------------------------------------------------------------------
(* The generations.                                                        *)

\* What a start handler has in hand.
LEMMA HandStep ==
    ASSUME TypeOK, HandInv, [Next]_vars PROVE HandInv'
<1> USE ScriptRunsAssumption DEF HandInv, TypeOK, Goto, WorkerTo, CancelRuns, Begun,
        managerVars, slotVars, frameVars, channelVars, runVars, handlerVars, unchangedByWorker
<1>1. ASSUME NEW r \in Runs, TakeFrame(r) PROVE HandInv'
  BY <1>1 DEF TakeFrame
<1>2. ASSUME NEW r \in Runs, Stop(r) PROVE HandInv'
  BY <1>2 DEF Stop
<1>3. ASSUME NEW r \in Runs, FailToLoad(r) PROVE HandInv'
  BY <1>3 DEF FailToLoad
<1>4. ASSUME NEW r \in Runs, FailCall(r) PROVE HandInv'
  BY <1>4 DEF FailCall
<1>5. ASSUME NEW r \in Runs, Record(r) PROVE HandInv'
  BY <1>5 DEF Record, Mine
<1>6. ASSUME NEW r \in Runs, Finish(r) PROVE HandInv'
  BY <1>6 DEF Finish, DetachIf, DetachNow, Hangup
<1>7. ASSUME NEW r \in Runs, Reap(r) PROVE HandInv'
  BY <1>7 DEF Reap
<1>8. ASSUME NEW h \in Handlers, StartScript(h) PROVE HandInv'
  BY <1>8 DEF StartScript
<1>9. ASSUME NEW h \in Handlers, ClearOld(h) PROVE HandInv'
  BY <1>9 DEF ClearOld, TakeOut
<1>10. ASSUME NEW h \in Handlers, Detach(h) PROVE HandInv'
  BY <1>10 DEF Detach, DetachIf, DetachNow
<1>11. ASSUME NEW h \in Handlers, Attach(h) PROVE HandInv'
  BY <1>11 DEF Attach, Put, Mine
<1>12. ASSUME NEW h \in Handlers, Superseded(h) PROVE HandInv'
  BY <1>12 DEF Superseded, Drop, Mine
<1>13. ASSUME NEW h \in Handlers, Register(h) PROVE HandInv'
  BY <1>13 DEF Register, Drop, Mine
<1>14. ASSUME NEW h \in Handlers, StopScript(h) PROVE HandInv'
  BY <1>14 DEF StopScript, TakeOut
<1>15. ASSUME NEW h \in Handlers, AbortHandler(h) PROVE HandInv'
  BY <1>15 DEF AbortHandler, Drop
<1>16. ASSUME NEW h \in Handlers, NEW r \in Runs, BeginScript(h, r) PROVE HandInv'
  BY <1>16 DEF BeginScript
<1>17. ASSUME NEW x \in Sessions, Publish(x) PROVE HandInv'
  BY <1>17 DEF Publish, Put
<1>18. ASSUME NEW x \in Sessions, Resume(x) PROVE HandInv'
  BY <1>18 DEF Resume
<1>19. ASSUME NEW x \in Sessions, SessionStarts(x) PROVE HandInv'
  BY <1>19 DEF SessionStarts
<1>20. ASSUME NEW x \in Sessions, SessionEnds(x) PROVE HandInv'
  BY <1>20 DEF SessionEnds
<1>21. ASSUME NEW x \in Sessions, SessionShutdown(x) PROVE HandInv'
  BY <1>21 DEF SessionShutdown, DetachNow
<1>22. CASE UNCHANGED vars
  BY <1>22 DEF vars
<1> QED
  BY <1>1, <1>2, <1>3, <1>4, <1>5, <1>6, <1>7, <1>8, <1>9, <1>10, <1>11,
     <1>12, <1>13, <1>14, <1>15, <1>16, <1>17, <1>18, <1>19, <1>20, <1>21, <1>22
  DEF Next, WorkerStep, HandlerStep, Session

\* Generations are given once, and a run that is done is behind.
LEMMA GenStep ==
    ASSUME TypeOK, TypeOK', HandInv, GenInv, [Next]_vars PROVE GenInv'
<1> USE ScriptRunsAssumption DEF HandInv, GenInv, TypeOK, Goto, WorkerTo, CancelRuns, Begun,
        managerVars, slotVars, frameVars, channelVars, runVars, handlerVars, unchangedByWorker
<1>1. ASSUME NEW r \in Runs, TakeFrame(r) PROVE GenInv'
  BY <1>1 DEF TakeFrame
<1>2. ASSUME NEW r \in Runs, Stop(r) PROVE GenInv'
  BY <1>2 DEF Stop
<1>3. ASSUME NEW r \in Runs, FailToLoad(r) PROVE GenInv'
  BY <1>3 DEF FailToLoad
<1>4. ASSUME NEW r \in Runs, FailCall(r) PROVE GenInv'
  BY <1>4 DEF FailCall
<1>5. ASSUME NEW r \in Runs, Record(r) PROVE GenInv'
  BY <1>5 DEF Record, Mine
<1>6. ASSUME NEW r \in Runs, Finish(r) PROVE GenInv'
  <2>0. /\ sess[r] \in Sessions /\ rgen[r] \in Nat /\ gen[sess[r]] \in Nat
        /\ rgen[r] <= gen[sess[r]]
    BY <1>6 DEF Finish
  <2>1. CASE gen[sess[r]] = rgen[r]
    <3>1. gen' = [gen EXCEPT ![sess[r]] = @ + 1]
      BY <1>6, <2>1 DEF Finish, DetachIf, DetachNow
    <3>2. \A x \in Sessions : gen[x] <= gen'[x]
      BY <3>1, <2>0
    <3>3. rgen[r] < gen'[sess[r]]
      BY <3>1, <2>0, <2>1
    <3> QED
      BY <1>6, <3>2, <3>3 DEF Finish
  <2>2. CASE gen[sess[r]] # rgen[r]
    <3>1. UNCHANGED gen
      BY <1>6, <2>2 DEF Finish, DetachIf
    <3>2. rgen[r] < gen[sess[r]]
      <4>1. \A m, n \in Nat : m <= n /\ n # m => m < n
        OBVIOUS
      <4> QED
        BY ONLY <2>0, <2>2, <4>1
    <3> QED
      BY <1>6, <3>1, <3>2 DEF Finish
  <2> QED
    BY <2>1, <2>2
<1>7. ASSUME NEW r \in Runs, Reap(r) PROVE GenInv'
  BY <1>7 DEF Reap
<1>8. ASSUME NEW h \in Handlers, StartScript(h) PROVE GenInv'
  BY <1>8 DEF StartScript
<1>9. ASSUME NEW h \in Handlers, ClearOld(h) PROVE GenInv'
  BY <1>9 DEF ClearOld, TakeOut
<1>10. ASSUME NEW h \in Handlers, Detach(h) PROVE GenInv'
  BY <1>10 DEF Detach, DetachIf, DetachNow
<1>11. ASSUME NEW h \in Handlers, Attach(h) PROVE GenInv'
  BY <1>11 DEF Attach, Put, Mine
<1>12. ASSUME NEW h \in Handlers, Superseded(h) PROVE GenInv'
  BY <1>12 DEF Superseded, Drop, Mine
<1>13. ASSUME NEW h \in Handlers, Register(h) PROVE GenInv'
  BY <1>13 DEF Register, Drop, Mine
<1>14. ASSUME NEW h \in Handlers, StopScript(h) PROVE GenInv'
  BY <1>14 DEF StopScript, TakeOut
<1>15. ASSUME NEW h \in Handlers, AbortHandler(h) PROVE GenInv'
  BY <1>15 DEF AbortHandler, Drop
<1>16. ASSUME NEW h \in Handlers, NEW r \in Runs, BeginScript(h, r) PROVE GenInv'
  BY <1>16 DEF BeginScript
<1>17. ASSUME NEW x \in Sessions, Publish(x) PROVE GenInv'
  BY <1>17 DEF Publish, Put
<1>18. ASSUME NEW x \in Sessions, Resume(x) PROVE GenInv'
  BY <1>18 DEF Resume
<1>19. ASSUME NEW x \in Sessions, SessionStarts(x) PROVE GenInv'
  BY <1>19 DEF SessionStarts
<1>20. ASSUME NEW x \in Sessions, SessionEnds(x) PROVE GenInv'
  BY <1>20 DEF SessionEnds
<1>21. ASSUME NEW x \in Sessions, SessionShutdown(x) PROVE GenInv'
  BY <1>21 DEF SessionShutdown, DetachNow
<1>22. CASE UNCHANGED vars
  BY <1>22 DEF vars
<1> QED
  BY <1>1, <1>2, <1>3, <1>4, <1>5, <1>6, <1>7, <1>8, <1>9, <1>10, <1>11,
     <1>12, <1>13, <1>14, <1>15, <1>16, <1>17, <1>18, <1>19, <1>20, <1>21, <1>22
  DEF Next, WorkerStep, HandlerStep, Session

\* A slot is fed by its own generation.
LEMMA SlotStep ==
    ASSUME TypeOK, HandInv, GenInv, SlotInv, [Next]_vars PROVE SlotInv'
<1> USE ScriptRunsAssumption DEF HandInv, GenInv, SlotInv, TypeOK, Goto, WorkerTo, CancelRuns, Begun,
        managerVars, slotVars, frameVars, channelVars, runVars, handlerVars, unchangedByWorker
<1>1. ASSUME NEW r \in Runs, TakeFrame(r) PROVE SlotInv'
  BY <1>1 DEF TakeFrame
<1>2. ASSUME NEW r \in Runs, Stop(r) PROVE SlotInv'
  BY <1>2 DEF Stop
<1>3. ASSUME NEW r \in Runs, FailToLoad(r) PROVE SlotInv'
  BY <1>3 DEF FailToLoad
<1>4. ASSUME NEW r \in Runs, FailCall(r) PROVE SlotInv'
  BY <1>4 DEF FailCall
<1>5. ASSUME NEW r \in Runs, Record(r) PROVE SlotInv'
  BY <1>5 DEF Record, Mine
<1>6. ASSUME NEW r \in Runs, Finish(r) PROVE SlotInv'
  BY <1>6 DEF Finish, DetachIf, DetachNow, Hangup
<1>7. ASSUME NEW r \in Runs, Reap(r) PROVE SlotInv'
  BY <1>7 DEF Reap
<1>8. ASSUME NEW h \in Handlers, StartScript(h) PROVE SlotInv'
  BY <1>8 DEF StartScript
<1>9. ASSUME NEW h \in Handlers, ClearOld(h) PROVE SlotInv'
  BY <1>9 DEF ClearOld, TakeOut
<1>10. ASSUME NEW h \in Handlers, Detach(h) PROVE SlotInv'
  BY <1>10 DEF Detach, DetachIf, DetachNow
<1>11. ASSUME NEW h \in Handlers, Attach(h) PROVE SlotInv'
  BY <1>11 DEF Attach, Put, Mine
<1>12. ASSUME NEW h \in Handlers, Superseded(h) PROVE SlotInv'
  BY <1>12 DEF Superseded, Drop, Mine
<1>13. ASSUME NEW h \in Handlers, Register(h) PROVE SlotInv'
  BY <1>13 DEF Register, Drop, Mine
<1>14. ASSUME NEW h \in Handlers, StopScript(h) PROVE SlotInv'
  BY <1>14 DEF StopScript, TakeOut
<1>15. ASSUME NEW h \in Handlers, AbortHandler(h) PROVE SlotInv'
  BY <1>15 DEF AbortHandler, Drop
<1>16. ASSUME NEW h \in Handlers, NEW r \in Runs, BeginScript(h, r) PROVE SlotInv'
  BY <1>16 DEF BeginScript
<1>17. ASSUME NEW x \in Sessions, Publish(x) PROVE SlotInv'
  BY <1>17 DEF Publish, Put
<1>18. ASSUME NEW x \in Sessions, Resume(x) PROVE SlotInv'
  BY <1>18 DEF Resume
<1>19. ASSUME NEW x \in Sessions, SessionStarts(x) PROVE SlotInv'
  BY <1>19 DEF SessionStarts
<1>20. ASSUME NEW x \in Sessions, SessionEnds(x) PROVE SlotInv'
  BY <1>20 DEF SessionEnds
<1>21. ASSUME NEW x \in Sessions, SessionShutdown(x) PROVE SlotInv'
  BY <1>21 DEF SessionShutdown, DetachNow
<1>22. CASE UNCHANGED vars
  BY <1>22 DEF vars
<1> QED
  BY <1>1, <1>2, <1>3, <1>4, <1>5, <1>6, <1>7, <1>8, <1>9, <1>10, <1>11,
     <1>12, <1>13, <1>14, <1>15, <1>16, <1>17, <1>18, <1>19, <1>20, <1>21, <1>22
  DEF Next, WorkerStep, HandlerStep, Session

\* What takes a listed run out of its slot moves the generation on.
LEMMA FedStep ==
    ASSUME TypeOK, HandInv, GenInv, FedInv, [Next]_vars PROVE FedInv'
<1> USE ScriptRunsAssumption DEF HandInv, GenInv, FedInv, Listed, Mine, TypeOK, Goto, WorkerTo, CancelRuns, Begun,
        managerVars, slotVars, frameVars, channelVars, runVars, handlerVars, unchangedByWorker
<1>1. ASSUME NEW r \in Runs, TakeFrame(r) PROVE FedInv'
  BY <1>1 DEF TakeFrame
<1>2. ASSUME NEW r \in Runs, Stop(r) PROVE FedInv'
  BY <1>2 DEF Stop
<1>3. ASSUME NEW r \in Runs, FailToLoad(r) PROVE FedInv'
  BY <1>3 DEF FailToLoad
<1>4. ASSUME NEW r \in Runs, FailCall(r) PROVE FedInv'
  BY <1>4 DEF FailCall
<1>5. ASSUME NEW r \in Runs, Record(r) PROVE FedInv'
  BY <1>5 DEF Record, Mine
<1>6. ASSUME NEW r \in Runs, Finish(r) PROVE FedInv'
  BY <1>6 DEF Finish, DetachIf, DetachNow, Hangup
<1>7. ASSUME NEW r \in Runs, Reap(r) PROVE FedInv'
  BY <1>7 DEF Reap
<1>8. ASSUME NEW h \in Handlers, StartScript(h) PROVE FedInv'
  BY <1>8 DEF StartScript
<1>9. ASSUME NEW h \in Handlers, ClearOld(h) PROVE FedInv'
  BY <1>9 DEF ClearOld, TakeOut
<1>10. ASSUME NEW h \in Handlers, Detach(h) PROVE FedInv'
  BY <1>10 DEF Detach, DetachIf, DetachNow
<1>11. ASSUME NEW h \in Handlers, Attach(h) PROVE FedInv'
  BY <1>11 DEF Attach, Put, Mine
<1>12. ASSUME NEW h \in Handlers, Superseded(h) PROVE FedInv'
  BY <1>12 DEF Superseded, Drop, Mine
<1>13. ASSUME NEW h \in Handlers, Register(h) PROVE FedInv'
  BY <1>13 DEF Register, Drop, Mine
<1>14. ASSUME NEW h \in Handlers, StopScript(h) PROVE FedInv'
  BY <1>14 DEF StopScript, TakeOut
<1>15. ASSUME NEW h \in Handlers, AbortHandler(h) PROVE FedInv'
  BY <1>15 DEF AbortHandler, Drop
<1>16. ASSUME NEW h \in Handlers, NEW r \in Runs, BeginScript(h, r) PROVE FedInv'
  BY <1>16 DEF BeginScript
<1>17. ASSUME NEW x \in Sessions, Publish(x) PROVE FedInv'
  BY <1>17 DEF Publish, Put
<1>18. ASSUME NEW x \in Sessions, Resume(x) PROVE FedInv'
  BY <1>18 DEF Resume
<1>19. ASSUME NEW x \in Sessions, SessionStarts(x) PROVE FedInv'
  BY <1>19 DEF SessionStarts
<1>20. ASSUME NEW x \in Sessions, SessionEnds(x) PROVE FedInv'
  BY <1>20 DEF SessionEnds
<1>21. ASSUME NEW x \in Sessions, SessionShutdown(x) PROVE FedInv'
  BY <1>21 DEF SessionShutdown, DetachNow
<1>22. CASE UNCHANGED vars
  BY <1>22 DEF vars
<1> QED
  BY <1>1, <1>2, <1>3, <1>4, <1>5, <1>6, <1>7, <1>8, <1>9, <1>10, <1>11,
     <1>12, <1>13, <1>14, <1>15, <1>16, <1>17, <1>18, <1>19, <1>20, <1>21, <1>22
  DEF Next, WorkerStep, HandlerStep, Session

\* A run leaves the registry, or the hands of its handler, cancelled or done.
LEMMA OrphanStep ==
    ASSUME TypeOK, HandInv, NoOrphanRuns, [Next]_vars PROVE NoOrphanRuns'
<1> USE ScriptRunsAssumption DEF HandInv, NoOrphanRuns, TypeOK, Goto, WorkerTo, CancelRuns, Begun,
        managerVars, slotVars, frameVars, channelVars, runVars, handlerVars, unchangedByWorker
<1>1. ASSUME NEW r \in Runs, TakeFrame(r) PROVE NoOrphanRuns'
  BY <1>1 DEF TakeFrame
<1>2. ASSUME NEW r \in Runs, Stop(r) PROVE NoOrphanRuns'
  BY <1>2 DEF Stop
<1>3. ASSUME NEW r \in Runs, FailToLoad(r) PROVE NoOrphanRuns'
  BY <1>3 DEF FailToLoad
<1>4. ASSUME NEW r \in Runs, FailCall(r) PROVE NoOrphanRuns'
  BY <1>4 DEF FailCall
<1>5. ASSUME NEW r \in Runs, Record(r) PROVE NoOrphanRuns'
  BY <1>5 DEF Record, Mine
<1>6. ASSUME NEW r \in Runs, Finish(r) PROVE NoOrphanRuns'
  BY <1>6 DEF Finish, DetachIf, DetachNow, Hangup
<1>7. ASSUME NEW r \in Runs, Reap(r) PROVE NoOrphanRuns'
  BY <1>7 DEF Reap
<1>8. ASSUME NEW h \in Handlers, StartScript(h) PROVE NoOrphanRuns'
  BY <1>8 DEF StartScript
<1>9. ASSUME NEW h \in Handlers, ClearOld(h) PROVE NoOrphanRuns'
  BY <1>9 DEF ClearOld, TakeOut
<1>10. ASSUME NEW h \in Handlers, Detach(h) PROVE NoOrphanRuns'
  BY <1>10 DEF Detach, DetachIf, DetachNow
<1>11. ASSUME NEW h \in Handlers, Attach(h) PROVE NoOrphanRuns'
  BY <1>11 DEF Attach, Put, Mine
<1>12. ASSUME NEW h \in Handlers, Superseded(h) PROVE NoOrphanRuns'
  BY <1>12 DEF Superseded, Drop, Mine
<1>13. ASSUME NEW h \in Handlers, Register(h) PROVE NoOrphanRuns'
  BY <1>13 DEF Register, Drop, Mine
<1>14. ASSUME NEW h \in Handlers, StopScript(h) PROVE NoOrphanRuns'
  BY <1>14 DEF StopScript, TakeOut
<1>15. ASSUME NEW h \in Handlers, AbortHandler(h) PROVE NoOrphanRuns'
  BY <1>15 DEF AbortHandler, Drop
<1>16. ASSUME NEW h \in Handlers, NEW r \in Runs, BeginScript(h, r) PROVE NoOrphanRuns'
  BY <1>16 DEF BeginScript
<1>17. ASSUME NEW x \in Sessions, Publish(x) PROVE NoOrphanRuns'
  BY <1>17 DEF Publish, Put
<1>18. ASSUME NEW x \in Sessions, Resume(x) PROVE NoOrphanRuns'
  BY <1>18 DEF Resume
<1>19. ASSUME NEW x \in Sessions, SessionStarts(x) PROVE NoOrphanRuns'
  BY <1>19 DEF SessionStarts
<1>20. ASSUME NEW x \in Sessions, SessionEnds(x) PROVE NoOrphanRuns'
  BY <1>20 DEF SessionEnds
<1>21. ASSUME NEW x \in Sessions, SessionShutdown(x) PROVE NoOrphanRuns'
  BY <1>21 DEF SessionShutdown, DetachNow
<1>22. CASE UNCHANGED vars
  BY <1>22 DEF vars
<1> QED
  BY <1>1, <1>2, <1>3, <1>4, <1>5, <1>6, <1>7, <1>8, <1>9, <1>10, <1>11,
     <1>12, <1>13, <1>14, <1>15, <1>16, <1>17, <1>18, <1>19, <1>20, <1>21, <1>22
  DEF Next, WorkerStep, HandlerStep, Session

\* A step that leaves the metrics alone keeps what they count, if every run that is
\* current and fed after it was so before.
LEMMA MetricsKept ==
    ASSUME MetricsInv, stats' = stats,
           \A q \in Runs :
               /\ ~Begun(q)' => box'[q] = 0 /\ got'[q] = 0
               /\ wpc'[q] = "call" => got'[q] # 0
               /\ Begun(q)' /\ Mine(q)' /\ Fed(q)'
                      => Begun(q) /\ Mine(q) /\ Fed(q) /\ sess'[q] = sess[q]
    PROVE  MetricsInv'
BY DEF MetricsInv

\* In particular a step of a worker that only goes on to another place.
LEMMA WorkerMoves ==
    ASSUME TypeOK, MetricsInv, NEW r \in Runs, NEW label, label \notin {"new", "call"},
           Begun(r), WorkerTo(r, label), UNCHANGED <<gen, sender, stats, sess, rgen, box, got>>
    PROVE  MetricsInv'
<1>1. wpc'[r] = label /\ \A q \in Runs \ {r} : wpc'[q] = wpc[q]
  BY DEF TypeOK, WorkerTo
<1>2. ASSUME NEW q \in Runs
      PROVE  /\ (Begun(q)' <=> Begun(q)) /\ (Mine(q)' <=> Mine(q)) /\ (Fed(q)' <=> Fed(q))
             /\ wpc'[q] = "call" => wpc[q] = "call"
  BY <1>1 DEF Begun, Mine, Fed
<1>3. \A q \in Runs : /\ ~Begun(q) => box[q] = 0 /\ got[q] = 0
                      /\ wpc[q] = "call" => got[q] # 0
  BY DEF MetricsInv
<1> QED
  BY <1>2, <1>3, MetricsKept

\* The metrics are reset before the first frame of a generation.
LEMMA MetricsStep ==
    ASSUME TypeOK, HandInv, GenInv, SlotInv, MetricsInv, [Next]_vars PROVE MetricsInv'
<1> USE DEF Goto, CancelRuns, managerVars, slotVars, frameVars, channelVars, runVars,
        handlerVars, unchangedByWorker
<1>a. ASSUME UNCHANGED <<gen, sender, stats, sess, rgen, wpc, box, got>> PROVE MetricsInv'
  BY <1>a DEF MetricsInv, Begun, Mine, Fed
<1>b. \A q \in Runs : /\ ~Begun(q) => box[q] = 0 /\ got[q] = 0
                      /\ wpc[q] = "call" => got[q] # 0
                      /\ Begun(q) => sess[q] \in Sessions /\ rgen[q] <= gen[sess[q]]
                      /\ rgen[q] \in Nat
  BY DEF MetricsInv, GenInv, TypeOK, Begun
<1>c. \A x \in Sessions : gen[x] \in Nat
  BY DEF TypeOK
\* A session that goes on to its next generation leaves nobody current there.
<1>d. ASSUME NEW x \in Sessions, DetachNow(x), NEW q \in Runs, Begun(q), UNCHANGED runVars
      PROVE  (Mine(q)' => Mine(q) /\ sess[q] # x) /\ (sender'[sess[q]] = q => sender[sess[q]] = q)
  <2>1. /\ gen'[x] = gen[x] + 1 /\ sender'[x] = None
        /\ \A y \in Sessions \ {x} : gen'[y] = gen[y] /\ sender'[y] = sender[y]
    BY <1>d DEF DetachNow, TypeOK
  <2>2. q # None
    BY ScriptRunsAssumption
  <2>3. CASE sess[q] = x
    BY <2>1, <2>2, <2>3, <1>b, <1>c, <1>d DEF Mine
  <2>4. CASE sess[q] # x
    BY <2>1, <2>4, <1>b, <1>d DEF Mine
  <2> QED
    BY <2>3, <2>4
<1>e. ASSUME NEW x \in Sessions, DetachNow(x), UNCHANGED <<runVars, wpc, box, got>>
      PROVE  MetricsInv'
  <2>1. stats' = stats
    BY <1>e DEF DetachNow
  <2>2. ASSUME NEW q \in Runs, Begun(q)', Mine(q)', Fed(q)'
        PROVE  Begun(q) /\ Mine(q) /\ Fed(q) /\ sess'[q] = sess[q]
    BY <2>2, <1>d, <1>e DEF Begun, Fed
  <2> QED
    BY <2>1, <2>2, <1>b, <1>e, MetricsKept DEF Begun
<1>1. ASSUME NEW r \in Runs, TakeFrame(r) PROVE MetricsInv'
  <2>1. /\ Begun(r) /\ wpc'[r] # "new"
        /\ got'[r] # 0 => box[r] # 0 \/ got[r] # 0
        /\ wpc'[r] = "call" => got'[r] # 0
    BY <1>1 DEF TakeFrame, TypeOK, WorkerTo, Begun
  <2>2. \A q \in Runs \ {r} : got'[q] = got[q] /\ wpc'[q] = wpc[q]
    BY <1>1 DEF TakeFrame, TypeOK, WorkerTo
  <2>3. UNCHANGED <<gen, sender, stats, sess, rgen, box>>
    BY <1>1 DEF TakeFrame
  <2>4. ASSUME NEW q \in Runs, Begun(q)', Mine(q)', Fed(q)'
        PROVE  Begun(q) /\ Mine(q) /\ Fed(q) /\ sess'[q] = sess[q]
    BY <2>1, <2>2, <2>3, <2>4 DEF Begun, Mine, Fed
  <2> QED
    BY <2>1, <2>2, <2>3, <2>4, <1>b, MetricsKept DEF Begun
<1>2. ASSUME NEW r \in Runs, Stop(r) PROVE MetricsInv'
  <2>1. Begun(r) /\ WorkerTo(r, "detach")
    BY <1>2 DEF Stop, Begun
  <2>2. UNCHANGED <<gen, sender, stats, sess, rgen, box, got>>
    BY <1>2 DEF Stop
  <2> QED
    BY <2>1, <2>2, WorkerMoves
<1>3. ASSUME NEW r \in Runs, FailToLoad(r) PROVE MetricsInv'
  BY <1>3, WorkerMoves DEF FailToLoad, Begun
<1>4. ASSUME NEW r \in Runs, FailCall(r) PROVE MetricsInv'
  BY <1>4, WorkerMoves DEF FailCall, Begun
<1>5. ASSUME NEW r \in Runs, Record(r) PROVE MetricsInv'
  <2>1. /\ Begun(r) /\ got[r] # 0 /\ WorkerTo(r, "wait") /\ sess[r] \in Sessions
        /\ UNCHANGED <<gen, sender, sess, rgen, box, got>>
    BY <1>5, <1>b DEF Record, Begun
  <2>2. CASE ~Mine(r)
    BY <2>1, <2>2, <1>5, WorkerMoves DEF Record
  <2>3. CASE Mine(r)
    <3>1. stats[sess[r]] \subseteq {r}
      BY <2>1, <2>3 DEF MetricsInv, Fed
    <3>2. /\ stats'[sess[r]] = {r}
          /\ \A x \in Sessions \ {sess[r]} : stats'[x] = stats[x]
      BY <2>1, <2>3, <3>1, <1>5 DEF Record, TypeOK
    <3>3. wpc'[r] = "wait" /\ \A q \in Runs \ {r} : wpc'[q] = wpc[q]
      BY <2>1 DEF TypeOK, WorkerTo
    <3>4. ASSUME NEW q \in Runs, Begun(q)', Mine(q)', Fed(q)'
          PROVE  stats'[sess'[q]] \subseteq {q}
      <4>1. Begun(q) /\ Mine(q) /\ Fed(q) /\ sess'[q] = sess[q] /\ sess[q] \in Sessions
        BY <2>1, <3>3, <3>4, <1>b DEF Begun, Mine, Fed
      <4>2. CASE sess[q] = sess[r]
        <5>1. rgen[q] = rgen[r]
          BY <4>1, <4>2, <2>3 DEF Mine
        <5>2. q = r
          BY <5>1, <4>1, <4>2, <2>1 DEF GenInv
        <5> QED
          BY <5>2, <4>1, <3>2
      <4>3. CASE sess[q] # sess[r]
        BY <4>1, <4>3, <3>2 DEF MetricsInv
      <4> QED
        BY <4>2, <4>3
    <3>5. \A x \in Sessions : stats'[x] = {} \/ \E q \in Runs : stats'[x] = {q}
      BY <3>2 DEF MetricsInv
    <3>6. \A q \in Runs : /\ ~Begun(q)' => box'[q] = 0 /\ got'[q] = 0
                          /\ wpc'[q] = "call" => got'[q] # 0
      BY <2>1, <3>3, <1>b DEF Begun
    <3> QED
      BY <3>4, <3>5, <3>6 DEF MetricsInv
  <2> QED
    BY <2>2, <2>3
<1>6. ASSUME NEW r \in Runs, Finish(r) PROVE MetricsInv'
  <2>1. /\ Begun(r) /\ sess[r] \in Sessions /\ UNCHANGED runVars
        /\ DetachIf(sess[r], rgen[r])
    BY <1>6, <1>b DEF Finish, Begun
  <2>2. /\ wpc'[r] = "done" /\ box'[r] = 0 /\ got'[r] = 0
        /\ \A q \in Runs \ {r} : wpc'[q] = wpc[q] /\ box'[q] = box[q] /\ got'[q] = got[q]
    BY <1>6 DEF Finish, TypeOK, WorkerTo, Hangup
  <2>3. stats' = stats
    BY <2>1 DEF DetachIf, DetachNow
  <2>4. ASSUME NEW q \in Runs, Begun(q)', Mine(q)', Fed(q)'
        PROVE  Begun(q) /\ Mine(q) /\ Fed(q) /\ sess'[q] = sess[q]
    <3>1. Begun(q)
      BY <2>1, <2>2, <2>4 DEF Begun
    <3>2. CASE Mine(r)
      <4>1. DetachNow(sess[r])
        BY <2>1, <3>2 DEF DetachIf, Mine
      <4>2. Mine(q) /\ q # r /\ (sender'[sess[q]] = q => sender[sess[q]] = q)
        BY <2>1, <2>4, <3>1, <4>1, <1>d
      <4> QED
        BY <2>1, <2>2, <2>4, <3>1, <4>2 DEF Fed
    <3>3. CASE ~Mine(r)
      <4>1. UNCHANGED slotVars
        BY <2>1, <3>3 DEF DetachIf, Mine
      <4>2. Mine(q) /\ q # r
        BY <2>1, <2>4, <3>3, <4>1 DEF Mine
      <4> QED
        BY <2>1, <2>2, <2>4, <3>1, <4>1, <4>2 DEF Fed
    <3> QED
      BY <3>2, <3>3
  <2> QED
    BY <2>1, <2>2, <2>3, <2>4, <1>b, MetricsKept DEF Begun
<1>7. ASSUME NEW r \in Runs, Reap(r) PROVE MetricsInv'
  <2>1. UNCHANGED <<gen, sender, stats, sess, rgen, wpc, box, got>>
    BY <1>7 DEF Reap
  <2> QED
    BY <2>1, <1>a
<1>8. ASSUME NEW h \in Handlers, StartScript(h) PROVE MetricsInv'
  <2>1. UNCHANGED <<gen, sender, stats, sess, rgen, wpc, box, got>>
    BY <1>8 DEF StartScript
  <2> QED
    BY <2>1, <1>a
<1>9. ASSUME NEW h \in Handlers, ClearOld(h) PROVE MetricsInv'
  <2>1. UNCHANGED <<gen, sender, stats, sess, rgen, wpc, box, got>>
    BY <1>9 DEF ClearOld, TakeOut
  <2> QED
    BY <2>1, <1>a
<1>10. ASSUME NEW h \in Handlers, Detach(h) PROVE MetricsInv'
  <2>1. UNCHANGED <<runVars, wpc, box, got>>
    BY <1>10 DEF Detach
  <2>2. UNCHANGED slotVars \/ (current \in Sessions /\ DetachNow(current))
    BY <1>10 DEF Detach, DetachIf, TypeOK
  <2>3. CASE UNCHANGED slotVars
    BY <2>1, <2>3, <1>a
  <2> QED
    BY <2>1, <2>2, <2>3, <1>e
<1>11. ASSUME NEW h \in Handlers, Attach(h) PROVE MetricsInv'
  <2>1. /\ hs[h] \in Sessions /\ hr[h] \in Runs /\ hr[h] # None
        /\ Begun(hr[h]) /\ sess[hr[h]] = hs[h]
    BY <1>11 DEF Attach, HandInv, TypeOK
  <2>2. /\ stats' = [stats EXCEPT ![hs[h]] = {}]
        /\ sender' = [sender EXCEPT ![hs[h]] = hr[h]]
        /\ UNCHANGED <<gen, sess, rgen, wpc, got>>
    BY <1>11 DEF Attach
  <2>3. \A q \in Runs \ {hr[h]} : box'[q] = box[q]
    BY <1>11, <2>1 DEF Attach, Put, TypeOK
  <2>4. /\ stats'[hs[h]] = {} /\ sender'[hs[h]] = hr[h]
        /\ \A x \in Sessions \ {hs[h]} : stats'[x] = stats[x] /\ sender'[x] = sender[x]
    BY <2>1, <2>2 DEF TypeOK
  <2>5. ASSUME NEW q \in Runs, Begun(q)', Mine(q)', Fed(q)'
        PROVE  stats'[sess'[q]] \subseteq {q}
    <3>1. CASE sess[q] = hs[h]
      BY <2>2, <2>4, <3>1
    <3>2. CASE sess[q] # hs[h]
      <4>1. Begun(q) /\ Mine(q) /\ sess[q] \in Sessions /\ q # hr[h]
        BY <2>1, <2>2, <2>5, <3>2, <1>b DEF Begun, Mine
      <4>2. Fed(q)
        BY <2>2, <2>3, <2>4, <2>5, <3>2, <4>1 DEF Fed
      <4> QED
        BY <2>2, <2>4, <3>2, <4>1, <4>2 DEF MetricsInv
    <3> QED
      BY <3>1, <3>2
  <2>6. \A x \in Sessions : stats'[x] = {} \/ \E q \in Runs : stats'[x] = {q}
    BY <2>4 DEF MetricsInv
  <2>7. \A q \in Runs : /\ ~Begun(q)' => box'[q] = 0 /\ got'[q] = 0
                        /\ wpc'[q] = "call" => got'[q] # 0
    BY <2>1, <2>2, <2>3, <1>b DEF Begun
  <2> QED
    BY <2>5, <2>6, <2>7 DEF MetricsInv
<1>12. ASSUME NEW h \in Handlers, Superseded(h) PROVE MetricsInv'
  <2>1. UNCHANGED <<gen, sender, stats, sess, rgen, wpc, box, got>>
    BY <1>12 DEF Superseded, Drop
  <2> QED
    BY <2>1, <1>a
<1>13. ASSUME NEW h \in Handlers, Register(h) PROVE MetricsInv'
  <2>1. UNCHANGED <<gen, sender, stats, sess, rgen, wpc, box, got>>
    BY <1>13 DEF Register, Drop
  <2> QED
    BY <2>1, <1>a
<1>14. ASSUME NEW h \in Handlers, StopScript(h) PROVE MetricsInv'
  <2>1. UNCHANGED <<gen, sender, stats, sess, rgen, wpc, box, got>>
    BY <1>14 DEF StopScript, TakeOut
  <2> QED
    BY <2>1, <1>a
<1>15. ASSUME NEW h \in Handlers, AbortHandler(h) PROVE MetricsInv'
  <2>1. UNCHANGED <<gen, sender, stats, sess, rgen, wpc, box, got>>
    BY <1>15 DEF AbortHandler, Drop
  <2> QED
    BY <2>1, <1>a
<1>16. ASSUME NEW h \in Handlers, NEW r \in Runs, BeginScript(h, r) PROVE MetricsInv'
  <2>1. hs[h] \in Sessions /\ ~Begun(r) /\ r # None
    BY <1>16, ScriptRunsAssumption DEF BeginScript, HandInv, TypeOK, Begun
  <2>2. /\ stats' = stats /\ box' = box /\ got' = got
        /\ gen'[hs[h]] = gen[hs[h]] + 1 /\ sender'[hs[h]] = None
        /\ \A x \in Sessions \ {hs[h]} : gen'[x] = gen[x] /\ sender'[x] = sender[x]
    BY <1>16, <2>1 DEF BeginScript, TypeOK
  <2>3. /\ sess'[r] = hs[h] /\ wpc'[r] = "load"
        /\ \A q \in Runs \ {r} : sess'[q] = sess[q] /\ rgen'[q] = rgen[q] /\ wpc'[q] = wpc[q]
    BY <1>16 DEF BeginScript, TypeOK, WorkerTo
  <2>4. ~Fed(r)'
    BY <2>1, <2>2, <2>3, <1>b DEF Fed
  <2>5. ASSUME NEW q \in Runs, Begun(q)', Mine(q)', Fed(q)'
        PROVE  Begun(q) /\ Mine(q) /\ Fed(q) /\ sess'[q] = sess[q]
    <3>1. q # r
      BY <2>4, <2>5
    <3>2. Begun(q) /\ sess'[q] = sess[q] /\ rgen'[q] = rgen[q] /\ sess[q] \in Sessions
      BY <2>3, <2>5, <3>1, <1>b DEF Begun
    <3>3. sess[q] # hs[h]
      BY <2>2, <2>5, <3>2, <1>b, <1>c DEF Mine
    <3> QED
      BY <2>2, <2>5, <3>2, <3>3 DEF Mine, Fed
  <2>6. \A q \in Runs : wpc'[q] = "call" => wpc[q] = "call"
    BY <2>3
  <2> QED
    BY <2>2, <2>3, <2>5, <2>6, <1>b, MetricsKept DEF Begun
<1>17. ASSUME NEW x \in Sessions, Publish(x) PROVE MetricsInv'
  <2>1. UNCHANGED <<gen, sender, stats, sess, rgen, wpc, got>>
    BY <1>17 DEF Publish
  <2>2. \A q \in Runs : box'[q] = box[q] \/ q = sender[x]
    BY <1>17 DEF Publish, Put, TypeOK
  <2>3. sender[x] # None => /\ sender[x] \in Runs /\ Begun(sender[x])
                           /\ sess[sender[x]] = x
    BY <1>17 DEF SlotInv, TypeOK
  <2>4. ASSUME NEW q \in Runs
        PROVE  (Begun(q)' <=> Begun(q)) /\ (Mine(q)' <=> Mine(q)) /\ (Fed(q)' => Fed(q))
               /\ (~Begun(q) => box'[q] = box[q])
    <3>1. q # None
      BY ScriptRunsAssumption
    <3> QED
      BY <3>1, <2>1, <2>2, <2>3 DEF Begun, Mine, Fed
  <2> QED
    BY <2>1, <2>4, <1>b, MetricsKept DEF Begun
<1>18. ASSUME NEW x \in Sessions, Resume(x) PROVE MetricsInv'
  <2>1. UNCHANGED <<gen, sender, stats, sess, rgen, wpc, box, got>>
    BY <1>18 DEF Resume
  <2> QED
    BY <2>1, <1>a
<1>19. ASSUME NEW x \in Sessions, SessionStarts(x) PROVE MetricsInv'
  <2>1. UNCHANGED <<gen, sender, stats, sess, rgen, wpc, box, got>>
    BY <1>19 DEF SessionStarts
  <2> QED
    BY <2>1, <1>a
<1>20. ASSUME NEW x \in Sessions, SessionEnds(x) PROVE MetricsInv'
  <2>1. UNCHANGED <<gen, sender, stats, sess, rgen, wpc, box, got>>
    BY <1>20 DEF SessionEnds
  <2> QED
    BY <2>1, <1>a
<1>21. ASSUME NEW x \in Sessions, SessionShutdown(x) PROVE MetricsInv'
  BY <1>21, <1>e DEF SessionShutdown
<1>22. CASE UNCHANGED vars
  BY <1>22, <1>a DEF vars
<1> QED
  BY <1>1, <1>2, <1>3, <1>4, <1>5, <1>6, <1>7, <1>8, <1>9, <1>10, <1>11,
     <1>12, <1>13, <1>14, <1>15, <1>16, <1>17, <1>18, <1>19, <1>20, <1>21, <1>22
  DEF Next, WorkerStep, HandlerStep, Session

\* The run of the current generation takes the demand with it.
LEMMA DemandStep ==
    ASSUME TypeOK, TypeOK', HandInv, GenInv, SlotInv, DemandHasRun, [Next]_vars PROVE DemandHasRun'
<1> USE ScriptRunsAssumption DEF HandInv, GenInv, DemandHasRun, Mine, TypeOK, Goto, WorkerTo, CancelRuns, Begun,
        managerVars, slotVars, frameVars, channelVars, runVars, handlerVars, unchangedByWorker
<1>1. ASSUME NEW r \in Runs, TakeFrame(r) PROVE DemandHasRun'
  BY <1>1 DEF TakeFrame
<1>2. ASSUME NEW r \in Runs, Stop(r) PROVE DemandHasRun'
  BY <1>2 DEF Stop
<1>3. ASSUME NEW r \in Runs, FailToLoad(r) PROVE DemandHasRun'
  BY <1>3 DEF FailToLoad
<1>4. ASSUME NEW r \in Runs, FailCall(r) PROVE DemandHasRun'
  BY <1>4 DEF FailCall
<1>5. ASSUME NEW r \in Runs, Record(r) PROVE DemandHasRun'
  BY <1>5 DEF Record, Mine
<1>6. ASSUME NEW r \in Runs, Finish(r) PROVE DemandHasRun'
  BY <1>6 DEF Finish, DetachIf, DetachNow, Hangup
<1>7. ASSUME NEW r \in Runs, Reap(r) PROVE DemandHasRun'
  BY <1>7 DEF Reap
<1>8. ASSUME NEW h \in Handlers, StartScript(h) PROVE DemandHasRun'
  BY <1>8 DEF StartScript
<1>9. ASSUME NEW h \in Handlers, ClearOld(h) PROVE DemandHasRun'
  BY <1>9 DEF ClearOld, TakeOut
<1>10. ASSUME NEW h \in Handlers, Detach(h) PROVE DemandHasRun'
  BY <1>10 DEF Detach, DetachIf, DetachNow
<1>11. ASSUME NEW h \in Handlers, Attach(h) PROVE DemandHasRun'
  BY <1>11 DEF Attach, Put, Mine
<1>12. ASSUME NEW h \in Handlers, Superseded(h) PROVE DemandHasRun'
  BY <1>12 DEF Superseded, Drop, Mine
<1>13. ASSUME NEW h \in Handlers, Register(h) PROVE DemandHasRun'
  BY <1>13 DEF Register, Drop, Mine
<1>14. ASSUME NEW h \in Handlers, StopScript(h) PROVE DemandHasRun'
  BY <1>14 DEF StopScript, TakeOut
<1>15. ASSUME NEW h \in Handlers, AbortHandler(h) PROVE DemandHasRun'
  BY <1>15 DEF AbortHandler, Drop
<1>16. ASSUME NEW h \in Handlers, NEW r \in Runs, BeginScript(h, r) PROVE DemandHasRun'
  BY <1>16 DEF BeginScript
<1>17. ASSUME NEW x \in Sessions, Publish(x) PROVE DemandHasRun'
  BY <1>17 DEF Publish, Put
<1>18. ASSUME NEW x \in Sessions, Resume(x) PROVE DemandHasRun'
  BY <1>18 DEF Resume
<1>19. ASSUME NEW x \in Sessions, SessionStarts(x) PROVE DemandHasRun'
  BY <1>19 DEF SessionStarts
<1>20. ASSUME NEW x \in Sessions, SessionEnds(x) PROVE DemandHasRun'
  BY <1>20 DEF SessionEnds
<1>21. ASSUME NEW x \in Sessions, SessionShutdown(x) PROVE DemandHasRun'
  BY <1>21 DEF SessionShutdown, DetachNow
<1>22. CASE UNCHANGED vars
  BY <1>22 DEF vars
<1> QED
  BY <1>1, <1>2, <1>3, <1>4, <1>5, <1>6, <1>7, <1>8, <1>9, <1>10, <1>11,
     <1>12, <1>13, <1>14, <1>15, <1>16, <1>17, <1>18, <1>19, <1>20, <1>21, <1>22
  DEF Next, WorkerStep, HandlerStep, Session


-----------------------------------------------------------------------------
(* The theorems.                                                           *)

\* There is nothing at first.
LEMMA InitInv == Init => IInv
<1> SUFFICES ASSUME Init PROVE IInv
    OBVIOUS
<1> USE ScriptRunsAssumption DEF Init
<1>1. TypeOK
  BY DEF TypeOK, Pcs, WorkerPcs
<1>2. HandInv /\ GenInv /\ SlotInv
  BY DEF HandInv, GenInv, SlotInv, Begun
<1>3. MetricsInv /\ FedInv /\ DemandHasRun /\ NoOrphanRuns
  BY DEF MetricsInv, FedInv, Listed, DemandHasRun, NoOrphanRuns, Begun
<1> QED
  BY <1>1, <1>2, <1>3 DEF IInv

\* The invariant holds in every reachable state.
THEOREM Invariance == Spec => []IInv
<1>1. IInv /\ [Next]_vars => IInv'
  <2> SUFFICES ASSUME IInv, [Next]_vars PROVE IInv'
    OBVIOUS
  <2>1. TypeOK'
    BY TypeStep DEF IInv
  <2>2. HandInv' /\ GenInv' /\ SlotInv'
    BY <2>1, HandStep, GenStep, SlotStep DEF IInv
  <2>3. MetricsInv' /\ DemandHasRun'
    BY <2>1, MetricsStep, DemandStep DEF IInv
  <2>4. FedInv' /\ NoOrphanRuns'
    BY FedStep, OrphanStep DEF IInv
  <2> QED
    BY <2>1, <2>2, <2>3, <2>4 DEF IInv
<1> QED
  BY <1>1, InitInv, PTL DEF Spec

\* The variables have their types in every reachable state.
THEOREM TypeCorrect == Spec => []TypeOK
<1>1. IInv => TypeOK
  BY DEF IInv
<1> QED
  BY <1>1, Invariance, PTL

\* However starts, stops, failures and ends of sessions overlap, a run that is listed
\* and was not detached is the one its session feeds and stays awake for.
THEOREM ListedIsFed == Spec => []RegisteredIsFed
<1>1. IInv => RegisteredIsFed
  BY DEF IInv, TypeOK, FedInv, Listed, RegisteredIsFed
<1> QED
  BY <1>1, Invariance, PTL

\* The script demand of a session has a run that will withdraw it.
THEOREM DemandEnds == Spec => []DemandHasRun
<1>1. IInv => DemandHasRun
  BY DEF IInv
<1> QED
  BY <1>1, Invariance, PTL

\* The metrics of a session are those of one run, of the attached one if there is one.
THEOREM OwnMetrics == Spec => []MetricsOfOneRun
<1>1. IInv => MetricsOfOneRun
  <2> SUFFICES ASSUME IInv, NEW x \in Sessions
               PROVE  /\ Cardinality(stats[x]) <= 1
                      /\ sender[x] # None => stats[x] \subseteq {sender[x]}
    BY DEF MetricsOfOneRun
  <2>1. Cardinality(stats[x]) <= 1
    <3>1. CASE stats[x] = {}
      BY <3>1, FS_EmptySet
    <3>2. ASSUME NEW r \in Runs, stats[x] = {r} PROVE Cardinality(stats[x]) <= 1
      <4>1. Cardinality(stats[x]) = 1
        BY <3>2, FS_Singleton
      <4> QED
        BY <4>1
    <3> QED
      BY <3>1, <3>2 DEF IInv, MetricsInv
  <2>2. sender[x] # None => stats[x] \subseteq {sender[x]}
    BY DEF IInv, TypeOK, SlotInv, MetricsInv, Fed, Mine
  <2> QED
    BY <2>1, <2>2
<1> QED
  BY <1>1, Invariance, PTL

\* A run that nobody can stop any more is being started or on its way to its end.
THEOREM NoOrphans == Spec => []NoOrphanRuns
<1>1. IInv => NoOrphanRuns
  BY DEF IInv
<1> QED
  BY <1>1, Invariance, PTL

\* Only the run of the current generation gets a frame.
LEMMA FramesAreMine ==
    ASSUME IInv, [Next]_vars, NEW q \in Runs, box'[q] \notin {0, box[q]} PROVE Mine(q)
<1> USE DEF vars, managerVars, slotVars, frameVars, channelVars, runVars, handlerVars,
        unchangedByWorker
<1>1. ASSUME NEW r \in Runs, WorkerStep(r) \/ Reap(r) PROVE Mine(q)
  BY <1>1 DEF WorkerStep, TakeFrame, Stop, FailToLoad, FailCall, Record, Finish, Hangup, Reap,
     IInv, TypeOK
<1>2. ASSUME NEW h \in Handlers, Attach(h) PROVE Mine(q)
  BY <1>2 DEF Attach, Put, IInv, TypeOK
<1>3. ASSUME NEW h \in Handlers, HandlerStep(h), ~Attach(h) PROVE Mine(q)
  BY <1>3 DEF HandlerStep, ClearOld, Detach, BeginScript, Superseded, Register
<1>4. ASSUME NEW h \in Handlers, StartScript(h) \/ StopScript(h) \/ AbortHandler(h)
      PROVE  Mine(q)
  BY <1>4 DEF StartScript, StopScript, AbortHandler
<1>5. ASSUME NEW x \in Sessions, Publish(x) PROVE Mine(q)
  <2>1. q = sender[x]
    BY <1>5 DEF Publish, Put, IInv, TypeOK
  <2> QED
    BY <2>1, ScriptRunsAssumption DEF IInv, SlotInv, Mine
<1>6. ASSUME NEW x \in Sessions, Session(x), ~Publish(x) PROVE Mine(q)
  BY <1>6 DEF Session, Resume, SessionStarts, SessionEnds, SessionShutdown
<1>7. CASE UNCHANGED vars
  BY <1>7
<1> QED
  BY <1>1, <1>2, <1>3, <1>4, <1>5, <1>6, <1>7 DEF Next

\* A run that was detached or superseded gets no further frame.
THEOREM NoFrameAfter == Spec => NoLateFrame
<1>1. IInv /\ [Next]_vars => [\A r \in Runs : box'[r] \notin {0, box[r]} => Mine(r)]_vars
  BY FramesAreMine
<1> QED
  BY <1>1, Invariance, PTL DEF Spec, NoLateFrame
=============================================================================
