----------------------------- MODULE MCInstances -----------------------------
(***************************************************************************)
(* What the daemon keeps of instances, for TLC: rows and directories in    *)
(* the workspace, and histories and subscribers in memory. They share no   *)
(* state in the model: a behaviour is one of the two, with the other at    *)
(* rest.                                                                   *)
(***************************************************************************)
EXTENDS Store, EventHub

VARIABLE part       \* the part that moves

InstancesInit ==
    /\ part \in {"store", "events"}
    /\ IF part = "store" THEN TRUE ELSE dirs = [i \in Instances |-> Absent]
    /\ Init /\ EventsInit

InstancesNext ==
    \/ part = "store" /\ Next /\ UNCHANGED <<part, eventsVars>>
    \/ part = "events" /\ EventsNext /\ UNCHANGED <<part, vars>>

InstancesSpec == InstancesInit /\ [][InstancesNext]_<<part, vars, eventsVars>>

Symmetry == Permutations(VMs) \union Permutations(Clients)
=============================================================================
