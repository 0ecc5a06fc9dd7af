------------------------------ MODULE MCDetach ------------------------------
(***************************************************************************)
(* Devices for TLC: a network card that is attached and detached more than *)
(* once on one connection, with nothing else on it and no frame cut.       *)
(***************************************************************************)
EXTENDS Devices

MCMaxId == [k \in DeviceKinds |-> 8]

DetachNext ==
    /\ DevicesNext
    /\ task'.op \in {"idle", "attach", "detach"}
    /\ Garbage \notin Range(unread')

DetachSpec == DevicesInit /\ [][DetachNext]_deviceVars
=============================================================================
