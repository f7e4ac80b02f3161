-------------------------- MODULE SessionRegistry --------------------------
(***************************************************************************)
(* What DeviceManager (crates/forge-core/src/manager.rs) promises the      *)
(* handlers and the poller that call it: a serial has one session or none; *)
(* a call registers, stops, clears away or prunes in one step, and only    *)
(* what it was called for; a start that a stop-all overtook registers      *)
(* nothing; without a stop, only a dead session leaves.  SessionManager    *)
(* has the locks, the flag, the epoch and the awaits that this takes, and  *)
(* implements it (ImplementsRegistry).                                     *)
(***************************************************************************)
CONSTANTS Serials,   \* device serials
          Calls,     \* calls in flight
          Sessions,  \* identities of sessions
          None       \* no session

VARIABLES registry,  \* the session of each serial
          live,      \* the registered sessions that still stream
          role       \* what each call may still do to the registry

registryVars == <<registry, live, role>>

Roles == {"none", "start", "stop", "clear"}

Unused(x) == \A s \in Serials : registry[s] # x

Running(s) == registry[s] \in live

Init ==
    /\ registry = [s \in Serials |-> None]
    /\ live = {}
    /\ role = [c \in Calls |-> "none"]

Begin(c, what) ==
    /\ role[c] = "none"
    /\ role' = [role EXCEPT ![c] = what]
    /\ UNCHANGED <<registry, live>>

\* The call finds nothing to do, fails, is refused or is cancelled.
End(c) ==
    /\ role' = [role EXCEPT ![c] = "none"]
    /\ UNCHANGED <<registry, live>>

\* A new session may have died before it is found in the registry.
Register(c, s, x) ==
    /\ role[c] = "start"
    /\ registry[s] = None
    /\ Unused(x)
    /\ registry' = [registry EXCEPT ![s] = x]
    /\ live' \in {live, live \cup {x}}
    /\ role' = [role EXCEPT ![c] = "none"]

Stop(c, s) ==
    /\ role[c] = "stop"
    /\ registry[s] # None
    /\ registry' = [registry EXCEPT ![s] = None]
    /\ live' = live \ {registry[s]}
    /\ role' = [role EXCEPT ![c] = "none"]

\* The two steps of stop_all_sessions that others can see.
Fence(c) ==
    /\ role[c] = "none"
    /\ role' = [d \in Calls |-> CASE d = c -> "clear"
                                  [] d # c /\ role[d] = "start" -> "none"
                                  [] OTHER -> role[d]]
    /\ UNCHANGED <<registry, live>>

Clear(c) ==
    /\ role[c] = "clear"
    /\ registry' = [s \in Serials |-> None]
    /\ live' = {}
    /\ role' = [role EXCEPT ![c] = "none"]

\* Any of the dead sessions leave.
Prune(S) ==
    /\ \A s \in S : registry[s] # None /\ ~Running(s)
    /\ registry' = [s \in Serials |-> IF s \in S THEN None ELSE registry[s]]
    /\ UNCHANGED <<live, role>>

Die(x) ==
    /\ live' = live \ {x}
    /\ UNCHANGED <<registry, role>>

Next ==
    \/ \E c \in Calls :
          \/ Begin(c, "start") \/ Begin(c, "stop") \/ End(c)
          \/ Fence(c) \/ Clear(c)
          \/ \E s \in Serials : Stop(c, s) \/ \E x \in Sessions : Register(c, s, x)
    \/ \E S \in SUBSET Serials : Prune(S)
    \/ \E x \in Sessions : Die(x)

Spec == Init /\ [][Next]_registryVars
=============================================================================
