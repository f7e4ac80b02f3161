-------------------------- MODULE HubActivity_proofs --------------------------
(***************************************************************************)
(* Proofs about HubActivity, for any number of consumers, runs and pollers:*)
(* whoever has been served finds the session active until he lets go,      *)
(* although the demand is read in pieces and changed without the lock.     *)
(***************************************************************************)
EXTENDS HubActivity, TLAPS

USE DEF Goto, demandVars, activityVars, lockVars, Threads, Consumers

\* Where the threads of each kind can be, and the demand that they account for:
\* what is counted is what a lease or a run that has not ended stands for.
PcInv ==
    /\ \A c \in Consumers : pc[c] \in {"idle", "announce", "in", "withdraw"}
    /\ \A r \in Runs : pc[r] \in {"idle", "clear", "mark", "in", "withdraw"}
    /\ pc[Setter] \in {"idle", "announce"}
    /\ pc[Stopper] \in {"idle", "detach", "withdraw"}
    /\ \A t \in Pollers : pc[t] \in {"idle", "poll", "decide", "hook"}

DemandInv ==
    /\ leases = {c \in Previewers : pc[c] \in {"announce", "in"}}
    /\ requests = {c \in Requesters : pc[c] \in {"announce", "in"}}
    /\ scriptRun # None => pc[scriptRun] \in {"clear", "mark", "in"}

\* The holder of the activity lock is refreshing.
HolderInv == locked # None => pc[locked] \in Refreshing

TypeInv == TypeOK /\ PcInv /\ DemandInv /\ HolderInv

\* What the holder of the activity lock has seen stays true of the consumers that
\* are served, for one that comes later needs the lock before it is.
LoadInv ==
    locked # None =>
        /\ loading # "script" => ~(scriptRun # None /\ pc[scriptRun] = "in")
        /\ loading = "requests" =>
              \/ mode = "off"
              \/ pc[Setter] = "announce" /\ locked # Setter
              \/ \A c \in Previewers :
                     pc[c] # "in" /\ ~(locked = c /\ pc[c] = "announce")

\* Types hold at the start.
LEMMA TypeInit == Init => TypeInv
<1> SUFFICES ASSUME Init PROVE TypeInv
    OBVIOUS
<1>1. TypeOK
  <2>1. alive \in BOOLEAN /\ deepIdleRequested \in BOOLEAN
    BY DEF Init
  <2>2. pc \in [Threads -> Pcs]
    BY DEF Init, Pcs
  <2>3. idleFor \in 0..2
    BY DEF Init
  <2> QED
    BY <2>1, <2>2, <2>3 DEF Init, TypeOK
<1>2. PcInv
  BY DEF Init, PcInv
<1>3. DemandInv
  BY DEF Init, DemandInv
<1>4. HolderInv
  BY DEF Init, HolderInv
<1> QED
  BY <1>1, <1>2, <1>3, <1>4 DEF TypeInv

\* Every step keeps the types and the accounts.
LEMMA TypeStep ==
    TypeInv /\ [Next]_vars => TypeInv'
<1> USE ThreadsAreDistinct DEF TypeInv, TypeOK, PcInv, DemandInv,
        HolderInv, Refreshing, Pcs
<1> SUFFICES ASSUME TypeInv,
                    [Next]_vars
             PROVE  TypeInv'
    OBVIOUS
<1>1. ASSUME NEW t \in Threads, LockActivity(t) PROVE TypeInv'
  BY <1>1 DEF LockActivity
<1>2. ASSUME NEW t \in Threads, LoadNext(t) PROVE TypeInv'
  BY <1>2 DEF LoadNext
<1>3. ASSUME NEW t \in Threads, Activate(t) PROVE TypeInv'
  <2>1. TypeOK'
    BY <1>3 DEF Activate, FoundDemand, Resume
  <2>2. PcInv'
    BY <1>3 DEF Activate, FoundDemand, Resume
  <2>3. DemandInv'
    BY <1>3 DEF Activate, FoundDemand, Resume
  <2> QED
    BY <2>1, <2>2, <2>3, <1>3 DEF Activate, FoundDemand, Resume
<1>4. ASSUME NEW t \in Threads, Deactivate(t) PROVE TypeInv'
  <2>1. TypeOK'
    BY <1>4 DEF Deactivate, FoundNone, FoundDemand, Resume
  <2>2. PcInv'
    BY <1>4 DEF Deactivate, FoundNone, FoundDemand, Resume
  <2>3. DemandInv'
    BY <1>4 DEF Deactivate, FoundNone, FoundDemand, Resume
  <2> QED
    BY <2>1, <2>2, <2>3, <1>4 DEF Deactivate, FoundNone, FoundDemand, Resume
<1>5. ASSUME NEW c \in Consumers, Acquire(c) PROVE TypeInv'
  BY <1>5 DEF Acquire
<1>6. ASSUME NEW c \in Consumers, Release(c) PROVE TypeInv'
  BY <1>6 DEF Release
<1>7. ASSUME NEW m \in {"off", "on"}, SetMode(m) PROVE TypeInv'
  BY <1>7 DEF SetMode
<1>8. ASSUME NEW r \in Runs, BeginScript(r) PROVE TypeInv'
  BY <1>8 DEF BeginScript
<1>9. ASSUME NEW r \in Runs, AttachScript(r) PROVE TypeInv'
  BY <1>9 DEF AttachScript
<1>10. ASSUME NEW r \in Runs, ClearDeepIdle(r) PROVE TypeInv'
  <2>1. TypeOK'
    <3>1. pc' \in [Threads -> Pcs]
      BY <1>10 DEF ClearDeepIdle, Goto, Threads
    <3> QED
      BY <1>10, <3>1 DEF ClearDeepIdle
  <2>2. PcInv'
    BY <1>10 DEF ClearDeepIdle
  <2>3. DemandInv'
    BY <1>10 DEF ClearDeepIdle
  <2> QED
    BY <2>1, <2>2, <2>3, <1>10 DEF ClearDeepIdle
<1>11. ASSUME NEW r \in Runs, MarkActive(r) PROVE TypeInv'
  BY <1>11 DEF MarkActive
<1>12. ASSUME NEW r \in Runs, DetachScriptIf(r) PROVE TypeInv'
  BY <1>12 DEF DetachScriptIf
<1>13. CASE Shutdown
  <2>1. TypeOK'
    <3>1. pc' \in [Threads -> Pcs]
      BY <1>13 DEF Shutdown, Goto, Threads
    <3> QED
      BY <1>13, <3>1 DEF Shutdown
  <2>2. PcInv' /\ HolderInv'
    BY <1>13 DEF Shutdown
  <2>3. DemandInv'
    BY <1>13 DEF Shutdown
  <2> QED
    BY <2>1, <2>2, <2>3
<1>14. CASE DetachScriptNow
  BY <1>14 DEF DetachScriptNow
<1>15. CASE StopScript
  BY <1>15 DEF StopScript
<1>16. ASSUME NEW t \in Pollers, BeginActivity(t) PROVE TypeInv'
  BY <1>16 DEF BeginActivity
<1>17. ASSUME NEW t \in Pollers, Decide(t) PROVE TypeInv'
  BY <1>17 DEF Decide, DeepIdle
<1>18. ASSUME NEW t \in Pollers, RunHook(t) PROVE TypeInv'
  <2>1. TypeOK'
    <3>1. pc' \in [Threads -> Pcs]
      BY <1>18 DEF RunHook, Goto, Threads
    <3> QED
      BY <1>18, <3>1 DEF RunHook
  <2>2. PcInv'
    BY <1>18 DEF RunHook
  <2>3. DemandInv'
    BY <1>18 DEF RunHook
  <2> QED
    BY <2>1, <2>2, <2>3, <1>18 DEF RunHook
<1>19. CASE Elapse
  BY <1>19 DEF Elapse
<1>20. CASE UNCHANGED vars
  BY <1>20 DEF vars
<1> QED
  BY <1>1, <1>2, <1>3, <1>4, <1>5, <1>6, <1>7, <1>8, <1>9, <1>10, <1>11,
     <1>12, <1>13, <1>14, <1>15, <1>16, <1>17, <1>18, <1>19, <1>20
     DEF Next, Refresh, HoldsLock, Script, Poll

\* Every step keeps what the holder of the lock has seen.
LEMMA LoadStep ==
    TypeInv /\ TypeInv' /\ LoadInv /\ [Next]_vars => LoadInv'
<1> USE ThreadsAreDistinct DEF TypeInv, TypeOK, PcInv, DemandInv, HolderInv, Pcs, LoadInv,
        Refreshing
<1> SUFFICES ASSUME TypeInv /\ TypeInv' /\ LoadInv,
                    [Next]_vars
             PROVE  LoadInv'
    OBVIOUS
<1>1. ASSUME NEW t \in Threads, LockActivity(t) PROVE LoadInv'
  BY <1>1 DEF LockActivity
<1>2. ASSUME NEW t \in Threads, LoadNext(t) PROVE LoadInv'
  BY <1>2 DEF LoadNext
<1>3. ASSUME NEW t \in Threads, Activate(t) PROVE LoadInv'
  BY <1>3 DEF Activate, FoundDemand, Resume
<1>4. ASSUME NEW t \in Threads, Deactivate(t) PROVE LoadInv'
  BY <1>4 DEF Deactivate, FoundNone, FoundDemand, Resume
<1>5. ASSUME NEW c \in Consumers, Acquire(c) PROVE LoadInv'
  BY <1>5 DEF Acquire
<1>6. ASSUME NEW c \in Consumers, Release(c) PROVE LoadInv'
  BY <1>6 DEF Release
<1>7. ASSUME NEW m \in {"off", "on"}, SetMode(m) PROVE LoadInv'
  BY <1>7 DEF SetMode
<1>8. ASSUME NEW r \in Runs, BeginScript(r) PROVE LoadInv'
  BY <1>8 DEF BeginScript
<1>9. ASSUME NEW r \in Runs, AttachScript(r) PROVE LoadInv'
  BY <1>9 DEF AttachScript
<1>10. ASSUME NEW r \in Runs, ClearDeepIdle(r) PROVE LoadInv'
  BY <1>10 DEF ClearDeepIdle
<1>11. ASSUME NEW r \in Runs, MarkActive(r) PROVE LoadInv'
  BY <1>11 DEF MarkActive
<1>12. ASSUME NEW r \in Runs, DetachScriptIf(r) PROVE LoadInv'
  BY <1>12 DEF DetachScriptIf
<1>13. CASE Shutdown
  BY <1>13 DEF Shutdown
<1>14. CASE DetachScriptNow
  BY <1>14 DEF DetachScriptNow
<1>15. CASE StopScript
  BY <1>15 DEF StopScript
<1>16. ASSUME NEW t \in Pollers, BeginActivity(t) PROVE LoadInv'
  BY <1>16 DEF BeginActivity
<1>17. ASSUME NEW t \in Pollers, Decide(t) PROVE LoadInv'
  BY <1>17 DEF Decide, DeepIdle
<1>18. ASSUME NEW t \in Pollers, RunHook(t) PROVE LoadInv'
  BY <1>18 DEF RunHook
<1>19. CASE Elapse
  BY <1>19 DEF Elapse
<1>20. CASE UNCHANGED vars
  BY <1>20 DEF vars
<1> QED
  BY <1>1, <1>2, <1>3, <1>4, <1>5, <1>6, <1>7, <1>8, <1>9, <1>10, <1>11,
     <1>12, <1>13, <1>14, <1>15, <1>16, <1>17, <1>18, <1>19, <1>20
     DEF Next, Refresh, HoldsLock, Script, Poll

\* A step that ends the activity finds nobody served, and one that serves somebody
\* has made the session active.
LEMMA ServedStep ==
    TypeInv /\ TypeInv' /\ LoadInv /\ ServedIsActive /\ [Next]_vars => ServedIsActive'
<1> USE ThreadsAreDistinct DEF TypeInv, TypeOK, PcInv, DemandInv, HolderInv, Pcs,
        ServedIsActive, Served, Refreshing
<1> SUFFICES ASSUME TypeInv /\ TypeInv' /\ LoadInv /\ ServedIsActive,
                    [Next]_vars
             PROVE  ServedIsActive'
    OBVIOUS
<1>1. ASSUME NEW t \in Threads, LockActivity(t) PROVE ServedIsActive'
  BY <1>1 DEF LockActivity
<1>2. ASSUME NEW t \in Threads, LoadNext(t) PROVE ServedIsActive'
  BY <1>2 DEF LoadNext
<1>3. ASSUME NEW t \in Threads, Activate(t) PROVE ServedIsActive'
  BY <1>3 DEF Activate
<1>4. ASSUME NEW t \in Threads, Deactivate(t) PROVE ServedIsActive'
  BY <1>4 DEF Deactivate, FoundNone, FoundDemand, Resume, LoadInv
<1>5. ASSUME NEW c \in Consumers, Acquire(c) PROVE ServedIsActive'
  BY <1>5 DEF Acquire
<1>6. ASSUME NEW c \in Consumers, Release(c) PROVE ServedIsActive'
  BY <1>6 DEF Release
<1>7. ASSUME NEW m \in {"off", "on"}, SetMode(m) PROVE ServedIsActive'
  BY <1>7 DEF SetMode
<1>8. ASSUME NEW r \in Runs, BeginScript(r) PROVE ServedIsActive'
  BY <1>8 DEF BeginScript
<1>9. ASSUME NEW r \in Runs, AttachScript(r) PROVE ServedIsActive'
  BY <1>9 DEF AttachScript
<1>10. ASSUME NEW r \in Runs, ClearDeepIdle(r) PROVE ServedIsActive'
  BY <1>10 DEF ClearDeepIdle
<1>11. ASSUME NEW r \in Runs, MarkActive(r) PROVE ServedIsActive'
  BY <1>11 DEF MarkActive
<1>12. ASSUME NEW r \in Runs, DetachScriptIf(r) PROVE ServedIsActive'
  BY <1>12 DEF DetachScriptIf
<1>13. CASE Shutdown
  BY <1>13 DEF Shutdown
<1>14. CASE DetachScriptNow
  BY <1>14 DEF DetachScriptNow
<1>15. CASE StopScript
  BY <1>15 DEF StopScript
<1>16. ASSUME NEW t \in Pollers, BeginActivity(t) PROVE ServedIsActive'
  BY <1>16 DEF BeginActivity
<1>17. ASSUME NEW t \in Pollers, Decide(t) PROVE ServedIsActive'
  BY <1>17 DEF Decide, DeepIdle
<1>18. ASSUME NEW t \in Pollers, RunHook(t) PROVE ServedIsActive'
  BY <1>18 DEF RunHook
<1>19. CASE Elapse
  BY <1>19 DEF Elapse
<1>20. CASE UNCHANGED vars
  BY <1>20 DEF vars
<1> QED
  BY <1>1, <1>2, <1>3, <1>4, <1>5, <1>6, <1>7, <1>8, <1>9, <1>10, <1>11,
     <1>12, <1>13, <1>14, <1>15, <1>16, <1>17, <1>18, <1>19, <1>20
     DEF Next, Refresh, HoldsLock, Script, Poll

\* The inductive invariant.
IInv == TypeInv /\ LoadInv /\ ServedIsActive

\* The parts put together: every reachable state satisfies the invariant.
THEOREM Invariance == Spec => []IInv
<1>1. Init => IInv
  <2> SUFFICES ASSUME Init PROVE IInv
      OBVIOUS
  <2>1. LoadInv
    BY DEF Init, LoadInv
  <2>2. ServedIsActive
    BY DEF Init, ServedIsActive, Served
  <2> QED
    BY <2>1, <2>2, TypeInit DEF IInv
<1>2. IInv /\ [Next]_vars => IInv'
  BY TypeStep, LoadStep, ServedStep DEF IInv
<1> QED
  BY <1>1, <1>2, PTL DEF Spec

\* The variables have their types in every reachable state.
THEOREM TypeCorrect == Spec => []TypeOK
<1>1. IInv => TypeOK
  BY DEF IInv, TypeInv
<1> QED
  BY <1>1, Invariance, PTL

\* Once the call of a consumer has returned, the session is active for as long
\* as it is wanted: no stale transition to idle overwrites it.
THEOREM NobodyServedIsForgotten == Spec => []ServedIsActive
<1>1. IInv => ServedIsActive
  BY DEF IInv
<1> QED
  BY <1>1, Invariance, PTL

\* The decision to stop the session for idleness is never taken while somebody
\* is served.
THEOREM DecidedWhenUnused == Spec => StopDecidedWhenUnused
<1>1. IInv /\ [Next]_vars
        => [\A t \in Pollers : pc[t] = "decide" /\ pc'[t] = "hook" => ~Served]_vars
  <2> SUFFICES ASSUME IInv, [Next]_vars, NEW t \in Pollers,
                      pc[t] = "decide", pc'[t] = "hook"
               PROVE  ~Served
      OBVIOUS
  <2>1. state # "active"
    <3> USE ThreadsAreDistinct DEF IInv, TypeInv, TypeOK, PcInv
    <3>1. ASSUME NEW u \in Threads, Refresh(u) PROVE FALSE
      BY <3>1 DEF Refresh, HoldsLock, LockActivity, LoadNext, Activate, Deactivate,
         Resume
    <3>2. ASSUME NEW c \in Consumers, Acquire(c) \/ Release(c) PROVE FALSE
      BY <3>2 DEF Acquire, Release
    <3>3. ASSUME NEW m \in {"off", "on"}, SetMode(m) PROVE FALSE
      BY <3>3 DEF SetMode
    <3>4. ASSUME NEW r \in Runs, Script(r) PROVE FALSE
      BY <3>4 DEF Script, BeginScript, AttachScript, ClearDeepIdle, MarkActive,
         DetachScriptIf
    <3>5. ASSUME Shutdown \/ DetachScriptNow \/ StopScript PROVE FALSE
      BY <3>5 DEF Shutdown, DetachScriptNow, StopScript
    <3>6. ASSUME NEW u \in Pollers, Poll(u) PROVE state # "active"
      BY <3>6 DEF Poll, BeginActivity, Decide, RunHook, DeepIdle
    <3>7. ASSUME Elapse \/ UNCHANGED vars PROVE FALSE
      BY <3>7 DEF Elapse, vars
    <3> QED
      BY <3>1, <3>2, <3>3, <3>4, <3>5, <3>6, <3>7 DEF Next
  <2> QED
    BY <2>1 DEF IInv, ServedIsActive
<1> QED
  BY <1>1, Invariance, PTL DEF Spec, StopDecidedWhenUnused
=============================================================================
