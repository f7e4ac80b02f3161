--------------------------- MODULE MCHubActivity ---------------------------
(* HubActivity for TLC: of the clients, the script run, the setter, the       *)
(* stopper and the ticker, three may be inside the hub at once.               *)
EXTENDS HubActivity, FiniteSets

CONSTANT MaxBusy    \* bound: threads that are in the hub at once

Busy == {t \in Threads : pc[t] \notin {"idle", "in"}}

FewBusy == Cardinality(Busy') <= MaxBusy
=============================================================================
