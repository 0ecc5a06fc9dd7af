------------------------------ MODULE MCRunning ------------------------------
(***************************************************************************)
(* What a running VM exchanges with the daemon and with its viewer, for    *)
(* TLC: the monitor with live devices, the guest agent, the streamer's     *)
(* pictures, its input and clipboard, and the native viewer. They share no *)
(* state in the model: a behaviour is one of them, with the others at rest. *)
(***************************************************************************)
EXTENDS Devices, GuestAgent, DisplayStream, DisplayInput, Viewer

VARIABLE part       \* the part that moves

\* Fewer commands for the disc: with its controller and medium it has more states.
MCMaxId == [k \in DeviceKinds |-> CASE k = "iso" -> 3 [] OTHER -> 5]

Init ==
    /\ part \in {"devices", "agent", "pictures", "input", "viewer"}
    /\ IF part = "devices" THEN TRUE ELSE kind = CHOOSE k \in DeviceKinds : TRUE
    /\ DevicesInit /\ GuestAgentInit /\ DisplayInit /\ DisplayInputInit /\ ViewerInit
    /\ part # "viewer" => pipe.hardware

Next ==
    \/ part = "devices" /\ DevicesNext
                        /\ UNCHANGED <<part, agentVars, displayVars, displayInputVars, viewerVars>>
    \/ part = "agent" /\ GuestAgentNext
                      /\ UNCHANGED <<part, deviceVars, displayVars, displayInputVars, viewerVars>>
    \/ part = "pictures" /\ DisplayNext
                         /\ UNCHANGED <<part, deviceVars, agentVars, displayInputVars, viewerVars>>
    \/ part = "input" /\ DisplayInputNext
                      /\ UNCHANGED <<part, deviceVars, agentVars, displayVars, viewerVars>>
    \/ part = "viewer" /\ ViewerNext
                       /\ UNCHANGED <<part, deviceVars, agentVars, displayVars, displayInputVars>>

Spec == Init /\ [][Next]_<<part, deviceVars, agentVars, displayVars, displayInputVars, viewerVars>>
=============================================================================
