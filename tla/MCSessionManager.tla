--------------------------- MODULE MCSessionManager ---------------------------
(* SessionManager on small instances.                                        *)
EXTENDS SessionManager, TLC

\* Locks and sessions are identities that are only compared.
IdSymmetry == Permutations(Locks) \cup Permutations(Sessions)
              \cup Permutations(Procs \ {Poller})

-----------------------------------------------------------------------------
(* Bounds of the liveness run.  Both leave out only calls that nobody has to *)
(* make, never a step of a call.                                             *)

\* Where symmetry would not be sound, locks are numbers and a new lock is the first
\* that nothing refers to: another choice is the same with the locks renamed.
InUse == {startLocks[s] : s \in Serials}
         \cup {ref[p][s] : p \in Procs, s \in Serials}
FirstFreeLock ==
    \A s \in Serials :
        LET l == startLocks'[s]
        IN  l \notin InUse \cup {None} => \A k \in Locks \ InUse : l <= k

\* No handler keeps a session, only the poller looks; a stop-all is made while one
\* serial is in use, and calls of two serials meet before it.
SerialsInUse ==
    {s \in Serials : sessions[s] # None \/ startLocks[s] # None
                     \/ \E p \in Procs : ser[p] = s}
FewCalls ==
    /\ borrowed = {}
    /\ \A p \in Procs \ {Poller} : pc[p] \notin LookPcs
    /\ \/ startEpoch = 0 /\ (\A p \in Procs : pc[p] \notin StopAllPcs)
       \/ Cardinality(SerialsInUse) <= 1

SmallStep == FirstFreeLock /\ FewCalls'
=============================================================================
