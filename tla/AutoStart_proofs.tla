-------------------------- MODULE AutoStart_proofs --------------------------
(***************************************************************************)
(* Proofs about AutoStart, for any number of serials, sessions and         *)
(* handlers and any number of permits: what a manual stop promises.  The   *)
(* invariant is short, for StoppedStaysStopped is about the serials that   *)
(* nothing was about to start when their stop returned; what has to be     *)
(* shown is that no step of the poller or of a handler takes one of these  *)
(* past the re-check while it is blocked.                                  *)
(***************************************************************************)
EXTENDS AutoStart, TLAPS

\* A sealed serial has no task that is past the re-check, and no session.
SealInv == \A s \in sealed : ~Starting(s) /\ registry[s] = None

\* The inductive invariant.
IInv == TypeOK /\ SealInv

USE DEF registryVars, history, scanVars, workVars, Workers, Calls

-----------------------------------------------------------------------------
(* The registry.                                                           *)

\* The types of the registry.
RegistryTypes ==
    /\ registry \in [Serials -> Sessions \cup {None}]
    /\ live \subseteq Sessions
    /\ role \in [Calls -> Registry!Roles]

\* Its operations keep them.
LEMMA RegistryKeepsTypes ==
    ASSUME RegistryTypes,
           \/ \E c \in Calls :
                 \/ \E what \in Registry!Roles : Registry!Begin(c, what)
                 \/ Registry!End(c) \/ Registry!Fence(c) \/ Registry!Clear(c)
                 \/ \E s \in Serials : \/ Registry!Stop(c, s)
                                       \/ \E x \in Sessions : Registry!Register(c, s, x)
           \/ \E S : Registry!Prune(S)
           \/ \E x : Registry!Die(x)
    PROVE  RegistryTypes'
<1> USE DEF RegistryTypes, Registry!Roles
<1>1. ASSUME NEW c \in Calls, NEW what \in Registry!Roles, Registry!Begin(c, what)
      PROVE  RegistryTypes'
  BY <1>1 DEF Registry!Begin
<1>2. ASSUME NEW c \in Calls, Registry!End(c) PROVE RegistryTypes'
  BY <1>2 DEF Registry!End
<1>3. ASSUME NEW c \in Calls, Registry!Fence(c) PROVE RegistryTypes'
  BY <1>3 DEF Registry!Fence
<1>4. ASSUME NEW c \in Calls, Registry!Clear(c) PROVE RegistryTypes'
  BY <1>4 DEF Registry!Clear
<1>5. ASSUME NEW c \in Calls, NEW s \in Serials, Registry!Stop(c, s) PROVE RegistryTypes'
  BY <1>5 DEF Registry!Stop
<1>6. ASSUME NEW c \in Calls, NEW s \in Serials, NEW x \in Sessions, Registry!Register(c, s, x)
      PROVE  RegistryTypes'
  BY <1>6 DEF Registry!Register
<1>7. ASSUME NEW S, Registry!Prune(S) PROVE RegistryTypes'
  BY <1>7 DEF Registry!Prune
<1>8. ASSUME NEW x, Registry!Die(x) PROVE RegistryTypes'
  BY <1>8 DEF Registry!Die
<1> QED
  BY <1>1, <1>2, <1>3, <1>4, <1>5, <1>6, <1>7, <1>8

-----------------------------------------------------------------------------
(* Types.                                                                  *)

\* At the start no serial is blocked and nothing runs.
LEMMA InitInv == Init => IInv
BY AutoStartAssumption DEF Init, Registry!Init, Registry!Roles, IInv, TypeOK, SealInv, Pcs,
   TaskPcs

\* Every step keeps the types.
LEMMA TypeStep ==
    ASSUME TypeOK, [Next]_vars PROVE TypeOK'
<1> USE AutoStartAssumption DEF TypeOK, Pcs, TaskPcs, Goto, TaskTo
<1>1. ASSUME NEW w \in Workers, BeginScan(w) PROVE TypeOK'
  BY <1>1 DEF BeginScan
<1>2. ASSUME NEW w \in Workers, LockScan(w) PROVE TypeOK'
  BY <1>2 DEF LockScan
<1>3. ASSUME NEW w \in Workers, Probe(w) PROVE TypeOK'
  BY <1>3 DEF Probe, AdbConnect, Discovered
<1>4. ASSUME NEW w \in Workers, ReadDevices(w) PROVE TypeOK'
  BY <1>4 DEF ReadDevices
<1>5. ASSUME NEW w \in Workers, ScanFails(w) PROVE TypeOK'
  BY <1>5 DEF ScanFails, AfterSweep
<1>6. ASSUME NEW w \in Workers, TakeSnapshot(w) PROVE TypeOK'
  BY <1>6 DEF TakeSnapshot
<1>7. ASSUME NEW w \in Workers, Retain(w) PROVE TypeOK'
  BY <1>7 DEF Retain, Unseal
<1>8. ASSUME NEW w \in Workers, Join(w) PROVE TypeOK'
  BY <1>8 DEF Join, AfterSweep
<1>9. ASSUME NEW w \in Workers, NEW s \in Serials, Spawn(w, s) PROVE TypeOK'
  BY <1>9 DEF Spawn, Unseal
<1>10. ASSUME NEW w \in Workers, NEW s \in Serials, Check(w, s) PROVE TypeOK'
  BY <1>10 DEF Check
<1>11. ASSUME NEW w \in Workers, NEW s \in Serials, Look(w, s) PROVE TypeOK'
  <2>1. RegistryTypes'
    BY <1>11, RegistryKeepsTypes DEF Look, RegistryTypes, Registry!Roles
  <2> QED
    BY <1>11, <2>1 DEF Look, RegistryTypes
<1>12. ASSUME NEW w \in Workers, NEW s \in Serials, Start(w, s) PROVE TypeOK'
  <2>1. RegistryTypes'
    BY <1>12, RegistryKeepsTypes DEF Start, RegistryTypes, Registry!Roles
  <2> QED
    BY <1>12, <2>1 DEF Start, RegistryTypes
<1>13. ASSUME NEW w \in Workers, NEW s \in Serials, Replace(w, s) PROVE TypeOK'
  <2>1. RegistryTypes'
    BY <1>13, RegistryKeepsTypes DEF Replace, RegistryTypes, Registry!Roles
  <2> QED
    BY <1>13, <2>1 DEF Replace, RegistryTypes
<1>14. ASSUME NEW w \in Workers, NEW s \in Serials, Open(w, s) PROVE TypeOK'
  <2>1. RegistryTypes'
    BY <1>14, RegistryKeepsTypes DEF Open, RegistryTypes, Registry!Roles
  <2> QED
    BY <1>14, <2>1 DEF Open, RegistryTypes
<1>15. ASSUME NEW w \in Workers, NEW s \in Serials, Abandon(w, s) PROVE TypeOK'
  <2>1. RegistryTypes'
    BY <1>15, RegistryKeepsTypes DEF Abandon, RegistryTypes, Registry!Roles
  <2> QED
    BY <1>15, <2>1 DEF Abandon, RegistryTypes
<1>16. CASE Supervise
  <2>1. RegistryTypes'
    BY <1>16, RegistryKeepsTypes DEF Supervise, PruneDead, RegistryTypes, Registry!Roles
  <2> QED
    BY <1>16, <2>1 DEF Supervise, PruneDead, RegistryTypes
<1>17. ASSUME NEW h \in Handlers, StartAll(h) PROVE TypeOK'
  BY <1>17 DEF StartAll, Unseal
<1>18. ASSUME NEW h \in Handlers, StopAll(h) PROVE TypeOK'
  BY <1>18 DEF StopAll
<1>19. ASSUME NEW h \in Handlers, ListSessions(h) PROVE TypeOK'
  <2>1. RegistryTypes'
    BY <1>19, RegistryKeepsTypes DEF ListSessions, PruneDead, RegistryTypes, Registry!Roles
  <2> QED
    BY <1>19, <2>1 DEF ListSessions, PruneDead, RegistryTypes
<1>20. ASSUME NEW h \in Handlers, Pair(h) PROVE TypeOK'
  BY <1>20 DEF Pair, AdbPair, AdbConnect, Discovered
<1>21. ASSUME NEW h \in Handlers, ListDevices(h) PROVE TypeOK'
  BY <1>21 DEF ListDevices
<1>22. ASSUME NEW h \in Handlers, FenceStarts(h) PROVE TypeOK'
  <2>1. RegistryTypes'
    BY <1>22, RegistryKeepsTypes DEF FenceStarts, RegistryTypes, Registry!Roles
  <2> QED
    BY <1>22, <2>1 DEF FenceStarts, RegistryTypes
<1>23. ASSUME NEW h \in Handlers, ClearSessions(h) PROVE TypeOK'
  <2>1. RegistryTypes'
    BY <1>23, RegistryKeepsTypes DEF ClearSessions, RegistryTypes, Registry!Roles
  <2> QED
    BY <1>23, <2>1 DEF ClearSessions, Seal, RegistryTypes
<1>24. ASSUME NEW h \in Handlers, Cancel(h) PROVE TypeOK'
  <2>1. pc' \in [Workers -> Pcs]
    BY <1>24 DEF Cancel
  <2>2. seen' \in [Workers -> SUBSET Serials] /\ targets' \in [Workers -> SUBSET Serials]
    BY <1>24 DEF Cancel
  <2>3. task' \in [Workers -> [Serials -> TaskPcs]]
    BY <1>24 DEF Cancel
  <2>4. role' \in [Calls -> Registry!Roles]
    BY <1>24 DEF Cancel, Registry!Roles
  <2>5. scanGate' \in Workers \cup {None}
    BY <1>24 DEF Cancel
  <2> QED
    BY <1>24, <2>1, <2>2, <2>3, <2>4, <2>5 DEF Cancel
<1>25. ASSUME NEW h \in Handlers, NEW s \in Serials, StartSession(h, s) PROVE TypeOK'
  BY <1>25 DEF StartSession, Unseal
<1>26. ASSUME NEW h \in Handlers, NEW s \in Serials, StopSession(h, s) PROVE TypeOK'
  <2>1. RegistryTypes'
    BY <1>26, RegistryKeepsTypes DEF StopSession, RegistryTypes, Registry!Roles
  <2> QED
    BY <1>26, <2>1 DEF StopSession, RegistryTypes
<1>27. ASSUME NEW h \in Handlers, NEW s \in Serials, Connect(h, s) PROVE TypeOK'
  BY <1>27 DEF Connect, AdbConnect
<1>28. ASSUME NEW h \in Handlers, NEW s \in Serials, Stopped(h, s) PROVE TypeOK'
  <2>1. RegistryTypes'
    BY <1>28, RegistryKeepsTypes DEF Stopped, RegistryTypes, Registry!Roles
  <2> QED
    BY <1>28, <2>1 DEF Stopped, Seal, RegistryTypes
<1>29. ASSUME NEW s \in Serials, Plug(s) PROVE TypeOK'
  BY <1>29 DEF Plug
<1>30. ASSUME NEW s \in Serials, Unplug(s) PROVE TypeOK'
  <2>1. RegistryTypes'
    BY <1>30, RegistryKeepsTypes DEF Unplug, RegistryTypes, Registry!Roles
  <2> QED
    BY <1>30, <2>1 DEF Unplug, RegistryTypes
<1>31. ASSUME NEW s \in Serials, SessionDies(s) PROVE TypeOK'
  <2>1. RegistryTypes'
    BY <1>31, RegistryKeepsTypes DEF SessionDies, RegistryTypes, Registry!Roles
  <2> QED
    BY <1>31, <2>1 DEF SessionDies, RegistryTypes
<1>32. CASE UNCHANGED vars
  BY <1>32 DEF vars
<1> QED
  BY <1>1, <1>2, <1>3, <1>4, <1>5, <1>6, <1>7, <1>8, <1>9, <1>10,
     <1>11, <1>12, <1>13, <1>14, <1>15, <1>16, <1>17, <1>18, <1>19, <1>20,
     <1>21, <1>22, <1>23, <1>24, <1>25, <1>26, <1>27, <1>28, <1>29, <1>30,
     <1>31, <1>32
  DEF Next, WorkStep, ScanStep, TaskStep, Request, HandlerStep, Environment


-----------------------------------------------------------------------------
(* The stopped serials.                                                    *)

\* No step starts a session on a sealed serial.
LEMMA SealStep ==
    ASSUME TypeOK, SealInv, [Next]_vars PROVE SealInv'
<1> USE AutoStartAssumption DEF TypeOK, SealInv, Starting, Goto, TaskTo
<1>1. ASSUME NEW w \in Workers, BeginScan(w) PROVE SealInv'
  BY <1>1 DEF BeginScan
<1>2. ASSUME NEW w \in Workers, LockScan(w) PROVE SealInv'
  BY <1>2 DEF LockScan
<1>3. ASSUME NEW w \in Workers, Probe(w) PROVE SealInv'
  BY <1>3 DEF Probe, AdbConnect, Discovered
<1>4. ASSUME NEW w \in Workers, ReadDevices(w) PROVE SealInv'
  BY <1>4 DEF ReadDevices
<1>5. ASSUME NEW w \in Workers, ScanFails(w) PROVE SealInv'
  BY <1>5 DEF ScanFails, AfterSweep
<1>6. ASSUME NEW w \in Workers, TakeSnapshot(w) PROVE SealInv'
  BY <1>6 DEF TakeSnapshot
<1>7. ASSUME NEW w \in Workers, Retain(w) PROVE SealInv'
  BY <1>7 DEF Retain, Unseal
<1>8. ASSUME NEW w \in Workers, Join(w) PROVE SealInv'
  BY <1>8 DEF Join, AfterSweep
<1>9. ASSUME NEW w \in Workers, NEW s \in Serials, Spawn(w, s) PROVE SealInv'
  BY <1>9 DEF Spawn, Unseal
<1>10. ASSUME NEW w \in Workers, NEW s \in Serials, Check(w, s) PROVE SealInv'
  BY <1>10 DEF Check
<1>11. ASSUME NEW w \in Workers, NEW s \in Serials, Look(w, s) PROVE SealInv'
  BY <1>11 DEF Look, Registry!Prune
<1>12. ASSUME NEW w \in Workers, NEW s \in Serials, Start(w, s) PROVE SealInv'
  BY <1>12 DEF Start, Registry!Begin
<1>13. ASSUME NEW w \in Workers, NEW s \in Serials, Replace(w, s) PROVE SealInv'
  BY <1>13 DEF Replace, Registry!Prune
<1>14. ASSUME NEW w \in Workers, NEW s \in Serials, Open(w, s) PROVE SealInv'
  BY <1>14 DEF Open, Registry!Register
<1>15. ASSUME NEW w \in Workers, NEW s \in Serials, Abandon(w, s) PROVE SealInv'
  BY <1>15 DEF Abandon, Registry!End
<1>16. CASE Supervise
  BY <1>16 DEF Supervise, PruneDead, Registry!Prune
<1>17. ASSUME NEW h \in Handlers, StartAll(h) PROVE SealInv'
  BY <1>17 DEF StartAll, Unseal
<1>18. ASSUME NEW h \in Handlers, StopAll(h) PROVE SealInv'
  BY <1>18 DEF StopAll
<1>19. ASSUME NEW h \in Handlers, ListSessions(h) PROVE SealInv'
  BY <1>19 DEF ListSessions, PruneDead, Registry!Prune
<1>20. ASSUME NEW h \in Handlers, Pair(h) PROVE SealInv'
  BY <1>20 DEF Pair, AdbPair, AdbConnect, Discovered
<1>21. ASSUME NEW h \in Handlers, ListDevices(h) PROVE SealInv'
  BY <1>21 DEF ListDevices
<1>22. ASSUME NEW h \in Handlers, FenceStarts(h) PROVE SealInv'
  BY <1>22 DEF FenceStarts, Registry!Fence
<1>23. ASSUME NEW h \in Handlers, ClearSessions(h) PROVE SealInv'
  BY <1>23 DEF ClearSessions, Seal, Registry!Clear
<1>24. ASSUME NEW h \in Handlers, Cancel(h) PROVE SealInv'
  BY <1>24 DEF Cancel
<1>25. ASSUME NEW h \in Handlers, NEW s \in Serials, StartSession(h, s) PROVE SealInv'
  BY <1>25 DEF StartSession, Unseal
<1>26. ASSUME NEW h \in Handlers, NEW s \in Serials, StopSession(h, s) PROVE SealInv'
  BY <1>26 DEF StopSession, Registry!Begin
<1>27. ASSUME NEW h \in Handlers, NEW s \in Serials, Connect(h, s) PROVE SealInv'
  BY <1>27 DEF Connect, AdbConnect
<1>28. ASSUME NEW h \in Handlers, NEW s \in Serials, Stopped(h, s) PROVE SealInv'
  BY <1>28 DEF Stopped, Seal, Registry!Stop, Registry!End
<1>29. ASSUME NEW s \in Serials, Plug(s) PROVE SealInv'
  BY <1>29 DEF Plug
<1>30. ASSUME NEW s \in Serials, Unplug(s) PROVE SealInv'
  BY <1>30 DEF Unplug, Registry!Die
<1>31. ASSUME NEW s \in Serials, SessionDies(s) PROVE SealInv'
  BY <1>31 DEF SessionDies, Registry!Die
<1>32. CASE UNCHANGED vars
  BY <1>32 DEF vars
<1> QED
  BY <1>1, <1>2, <1>3, <1>4, <1>5, <1>6, <1>7, <1>8, <1>9, <1>10,
     <1>11, <1>12, <1>13, <1>14, <1>15, <1>16, <1>17, <1>18, <1>19, <1>20,
     <1>21, <1>22, <1>23, <1>24, <1>25, <1>26, <1>27, <1>28, <1>29, <1>30,
     <1>31, <1>32
  DEF Next, WorkStep, ScanStep, TaskStep, Request, HandlerStep, Environment

-----------------------------------------------------------------------------
(* The theorems.                                                           *)

\* The invariant holds in every reachable state.
THEOREM Invariance == Spec => []IInv
<1>1. IInv /\ [Next]_vars => IInv'
  BY TypeStep, SealStep DEF IInv
<1> QED
  BY <1>1, InitInv, PTL DEF Spec

\* The variables have their types in every reachable state.
THEOREM TypeCorrect == Spec => []TypeOK
<1>1. IInv => TypeOK
  BY DEF IInv
<1> QED
  BY <1>1, Invariance, PTL

\* A session that was stopped by hand stays stopped, once no start is left that
\* had passed the re-check before the stop returned.
THEOREM StopHolds == Spec => []StoppedStaysStopped
<1>1. IInv => StoppedStaysStopped
  BY DEF IInv, SealInv, StoppedStaysStopped
<1> QED
  BY <1>1, Invariance, PTL
=============================================================================
