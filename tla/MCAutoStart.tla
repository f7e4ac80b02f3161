------------------------------ MODULE MCAutoStart ------------------------------
(* AutoStart on small instances.                                             *)
EXTENDS AutoStart

CONSTANT Steady    \* bound: a device that stays attached and is not stopped by hand

SteadyStays == Steady \in attached' /\ Steady \notin blocked'
=============================================================================
