---------------------------- MODULE DisplayInput ----------------------------
(***************************************************************************)
(* What viewers send to the guest through the display streamer             *)
(* (display-stream/src/bin/stream.rs, listener.rs). All viewers push into  *)
(* one queue; a worker forwards it to QEMU, one message at a time. The     *)
(* clipboard is owned by the side that grabbed it last: grabs of the       *)
(* streamer and of the guest cross on their way and are ordered by serial. *)
(***************************************************************************)
EXTENDS Naturals, Sequences, SequencesExt

CONSTANTS
    Positions,      \* pointer positions
    InputLimit,     \* inputs the queue holds: 256 in the code
    MaxInputs,      \* bound: inputs of a behaviour
    MaxSerial       \* bound: grabs of the guest (2^32 in the protocol)

ASSUME DisplayInputAssumption ==
    /\ Positions \subseteq Nat /\ 0 \in Positions
    /\ InputLimit \in Nat \ {0}
    /\ {MaxInputs, MaxSerial} \subseteq Nat

VARIABLES
    pushed,         \* inputs so far
    inputs,         \* Inputs::queue
    pointer,        \* where QEMU has the pointer
    lostInput,      \* QEMU did not take an input in time
    clip,           \* ClipboardData: serial, and whether it has text of the host
    qemuClip,       \* QEMU's serial and owner
    toQemu,         \* grabs on their way to QEMU
    toStreamer      \* grabs of the guest on their way to the streamer

pointerVars == <<pushed, inputs, pointer, lostInput>>
clipVars == <<clip, qemuClip, toQemu, toStreamer>>
displayInputVars == <<pointerVars, clipVars>>

DisplayInputInit ==
    /\ pushed = 0 /\ inputs = <<>> /\ pointer = 0 /\ lostInput = FALSE
    /\ clip = [serial |-> 0, text |-> FALSE]
    /\ qemuClip = [serial |-> 0, owner |-> "guest"]
    /\ toQemu = <<>> /\ toStreamer = <<>>

-----------------------------------------------------------------------------
(* The queue *)

(* Mutant: any absolute motion in the queue is replaced. *)
CoalescedAnywhere(input) ==
    IF input.type = "abs" THEN SelectSeq(inputs, LAMBDA i : i.type # "abs") ELSE inputs

(* Only the last input of the queue may be replaced, and only by its like. *)
Coalesced(input) ==
    IF input.type = "abs" /\ inputs # <<>> /\ Last(inputs).type = "abs" THEN Front(inputs) ELSE inputs

(* Where the viewers have moved the pointer to. *)
Aimed ==
    LET motions == {n \in DOMAIN inputs : inputs[n].type = "abs"}
    IN IF motions # {} THEN inputs[Max(motions)].at ELSE pointer

(* Inputs::push; a full queue ends the connection of the viewer instead. *)
PushInput(input) ==
    /\ pushed < MaxInputs
    /\ Len(Coalesced(input)) < InputLimit
    /\ inputs' = Append(Coalesced(input), input)
    /\ pushed' = pushed + 1
    /\ UNCHANGED <<pointer, lostInput, clipVars>>

(* The worker hands an input to QEMU, which has two seconds for it. *)
Forward(taken) ==
    /\ inputs # <<>>
    /\ Head(inputs).type # "clipboard_set"
    /\ pointer' = IF taken /\ Head(inputs).type = "abs" THEN Head(inputs).at ELSE pointer
    /\ lostInput' = (lostInput \/ ~taken)
    /\ inputs' = Tail(inputs)
    /\ UNCHANGED <<pushed, clipVars>>

-----------------------------------------------------------------------------
(* The clipboard *)

(* set_clipboard: the next serial, the text, and a grab sent to QEMU. *)
SetClipboard ==
    /\ inputs # <<>>
    /\ Head(inputs).type = "clipboard_set"
    /\ clip' = [serial |-> clip.serial + 1, text |-> TRUE]
    /\ toQemu' = Append(toQemu, clip.serial + 1)
    /\ inputs' = Tail(inputs)
    /\ UNCHANGED <<pushed, pointer, lostInput, qemuClip, toStreamer>>

(* Mutant: the newest grab of the guest wins a tie. *)
NewerTie(serial) == serial >= clip.serial

(* The streamer wins a tie. *)
Newer(serial) == serial > clip.serial

(* ClipboardPeer::grab, accept_guest_serial *)
GuestGrab ==
    /\ toStreamer # <<>>
    /\ clip' = IF Newer(Head(toStreamer)) THEN [serial |-> Head(toStreamer), text |-> FALSE] ELSE clip
    /\ toStreamer' = Tail(toStreamer)
    /\ UNCHANGED <<pointerVars, qemuClip, toQemu>>

(* The guest copies something: QEMU's next serial. *)
GuestCopies ==
    /\ qemuClip.serial < MaxSerial
    /\ qemuClip' = [serial |-> qemuClip.serial + 1, owner |-> "guest"]
    /\ toStreamer' = Append(toStreamer, qemuClip.serial + 1)
    /\ UNCHANGED <<pointerVars, clip, toQemu>>

(* QEMU takes a grab of its client that is not older than its own. *)
QemuGrabs ==
    /\ toQemu # <<>>
    /\ qemuClip' = IF Head(toQemu) >= qemuClip.serial THEN [serial |-> Head(toQemu), owner |-> "host"]
                   ELSE qemuClip
    /\ toQemu' = Tail(toQemu)
    /\ UNCHANGED <<pointerVars, clip, toStreamer>>

DisplayInputNext ==
    \/ \E at \in Positions : PushInput([type |-> "abs", at |-> at])
    \/ PushInput([type |-> "click", at |-> Aimed])
    \/ PushInput([type |-> "clipboard_set", at |-> 0])
    \/ \E taken \in BOOLEAN : Forward(taken)
    \/ SetClipboard \/ GuestGrab \/ GuestCopies \/ QemuGrabs

DisplayInputSpec == DisplayInputInit /\ [][DisplayInputNext]_displayInputVars

-----------------------------------------------------------------------------
(* A click hits what its viewer pointed at: no motion before it is dropped and
   none after it overtakes it, unless QEMU did not take an input
   (Inputs::push). *)
ClickLands ==
    (inputs # <<>> /\ Head(inputs).type = "click" /\ ~lostInput) => Head(inputs).at = pointer

(* Once no grab is on its way, streamer and QEMU agree who owns the clipboard,
   however the grabs of both sides crossed (accept_guest_serial). *)
ClipboardAgreed ==
    (toQemu = <<>> /\ toStreamer = <<>>) => (clip.text <=> qemuClip.owner = "host")
=============================================================================
