------------------------------ MODULE Devices ------------------------------
(***************************************************************************)
(* The QMP connection of a run and the live devices behind it              *)
(* (core/protocols/async_qmp.rs, core/runtime/devices.rs, api/devices.rs,  *)
(* the QMP reader of api/run_events.rs). One session at a time holds the   *)
(* gate of the instance and the connection: a device route, a list, or a   *)
(* poll of the reader. QEMU answers in order, when it likes; events come   *)
(* between the answers; a command that times out is answered later.        *)
(***************************************************************************)
EXTENDS Naturals, Sequences, SequencesExt

CONSTANTS
    DeviceKinds,    \* kinds of live device: the id of a device tells its kind
    MaxId,          \* bound: commands of one connection
    MaxFrames,      \* bound: frames in flight from QEMU
    EventLimit      \* events the client keeps: 256 in the code

ASSUME DevicesAssumption ==
    /\ DeviceKinds \subseteq {"usb-host", "usb-image", "network", "iso"}
    /\ MaxId \in [DeviceKinds -> Nat] /\ MaxFrames \in Nat /\ EventLimit \in Nat \ {0}

VARIABLES
    kind,           \* the kind of the one device modelled (managed_id)
    present,        \* objects QEMU has
    leaving,        \* devices whose removal waits for the guest
    medium,         \* [in, open]: the medium and the tray of the drive
    wire,           \* commands QEMU has not executed
    unread,         \* frames the client has not read
    linked,         \* the connection is installed
    nextId,         \* id of the next command
    queued,         \* AsyncQmp::events
    task            \* the session that holds the gate

qemuVars == <<kind, present, leaving, medium>>
clientVars == <<linked, nextId, queued, task>>
deviceVars == <<qemuVars, wire, unread, clientVars>>

(* What an attach creates, in order: a backend ("node") before the device on it,
   a controller before both. A USB redirection has the shape of "usb-image". *)
Parts ==
    CASE kind = "usb-host" -> <<"dev">>
      [] kind \in {"usb-image", "network"} -> <<"node", "dev">>
      [] kind = "iso" -> <<"ctl", "node", "dev">>

(* Devices on PCI leave when the guest lets them go, others at once. *)
OnPci(obj) == obj = "ctl" \/ (obj = "dev" /\ kind = "network")

(* A session: its steps to come, the commands it has done, the id it waits for.
   Two fields are for the properties. `clean`: no command of an attach was given
   up, no command was in flight when it or a detach began, and no earlier
   DEVICE_DELETED had come when the detach began; `before`: what QEMU had. *)
NoTask == [op |-> "idle", todo |-> <<>>, done |-> <<>>, wait |-> 0,
           undo |-> FALSE, clean |-> TRUE, before |-> {}, answer |-> "none"]

(* The daemon has just found the run, with or without the device. *)
DevicesInit ==
    /\ kind \in DeviceKinds
    /\ present \in {{}, Range(Parts)}
    /\ leaving = {}
    /\ medium = [in |-> TRUE, open |-> FALSE]
    /\ wire = <<>> /\ unread = <<>> /\ queued = <<>>
    /\ linked = FALSE
    /\ nextId = 1
    /\ task = NoTask

Event(name, obj) == [event |-> name, obj |-> obj]
IsEvent(frame) == "event" \in DOMAIN frame
Garbage == [garbage |-> TRUE]
IsGarbage(frame) == "garbage" \in DOMAIN frame

-----------------------------------------------------------------------------
(* QEMU *)

(* Frames for a connection that is gone are lost. *)
Emit(emitted) == unread' = IF linked THEN unread \o emitted ELSE unread

Deleted(objs) == [i \in 1..Len(objs) |-> Event("DEVICE_DELETED", objs[i])]

(* Whether a command can succeed. *)
Allowed(cmd) ==
    CASE cmd[1] = "add" -> cmd[2] \notin present
      [] cmd = <<"del", "node">> -> "node" \in present /\ (kind = "network" \/ "dev" \notin present)
      [] cmd[1] = "del" /\ cmd[2] # "node" -> cmd[2] \in present
      [] cmd[1] \in {"open", "change"} -> "dev" \in present
      [] cmd[1] = "remove" -> medium.open
      [] OTHER -> TRUE

(* A command that could succeed may fail for reasons of the host or the guest. *)
MayFail(cmd) == cmd[1] \in {"add", "open"} \/ (cmd[1] = "del" /\ cmd[2] \in leaving)

(* What a command that succeeds does. *)
Effect(cmd) ==
    LET pending == cmd[1] = "del" /\ OnPci(cmd[2])
    IN /\ present' = CASE cmd[1] = "add" -> present \union {cmd[2]}
                       [] cmd[1] = "del" /\ ~pending -> present \ {cmd[2]}
                       [] OTHER -> present
       /\ UNCHANGED kind
       /\ leaving' = IF pending THEN leaving \union {cmd[2]} ELSE leaving
       /\ medium' = CASE cmd[1] \in {"add", "change"} -> [in |-> TRUE, open |-> FALSE]
                      [] cmd[1] = "open" -> [medium EXCEPT !.open = TRUE]
                      [] cmd[1] = "remove" -> [medium EXCEPT !.in = FALSE]
                      [] cmd[1] = "close" -> [medium EXCEPT !.open = FALSE]
                      [] OTHER -> medium

(* QEMU executes the next command and answers it. *)
QemuExecutes(ok) ==
    /\ wire # <<>>
    /\ Len(unread) < MaxFrames
    /\ LET cmd == Head(wire).cmd
           done == ok /\ Allowed(cmd)
           gone == done /\ cmd = <<"del", "dev">> /\ ~OnPci("dev")
       IN /\ ok \/ MayFail(cmd)
          /\ IF done THEN Effect(cmd) ELSE UNCHANGED qemuVars
          /\ Emit((IF gone THEN Deleted(<<"dev">>) ELSE <<>>) \o <<[id |-> Head(wire).id, ok |-> done]>>)
          /\ wire' = Tail(wire)
    /\ UNCHANGED clientVars

(* The guest lets a device go, with what is plugged into it, *)
GuestReleases(obj) ==
    /\ obj \in leaving
    /\ Len(unread) < MaxFrames
    /\ LET gone == IF obj = "ctl" /\ "dev" \in present THEN <<"dev", "ctl">> ELSE <<obj>>
       IN /\ present' = present \ Range(gone)
          /\ leaving' = leaving \ Range(gone)
          /\ Emit(Deleted(gone))
    /\ UNCHANGED <<kind, medium, wire, clientVars>>

(* or refuses to. *)
GuestRefuses(obj) ==
    /\ obj \in leaving
    /\ Len(unread) < MaxFrames
    /\ leaving' = leaving \ {obj}
    /\ Emit(<<Event("DEVICE_UNPLUG_GUEST_ERROR", obj)>>)
    /\ UNCHANGED <<kind, present, medium, wire, clientVars>>

(* Any other event; bound: one at a time. *)
OtherEvent ==
    /\ linked
    /\ Event("BLOCK_IO_ERROR", "none") \notin Range(unread \o queued)
    /\ Len(unread) < MaxFrames
    /\ Emit(<<Event("BLOCK_IO_ERROR", "none")>>)
    /\ UNCHANGED <<qemuVars, wire, clientVars>>

-----------------------------------------------------------------------------
(* Sessions *)

Adds(objs) == [i \in 1..Len(objs) |-> <<"add", objs[i]>>]
Dels(objs) == [i \in 1..Len(objs) |-> <<"del", objs[i]>>]

(* The steps of each route. *)
Program(op) ==
    CASE op = "attach" -> Adds(Parts)
      [] op = "detach" ->
            <<<<"del", "dev">>, <<"wait", "dev">>>>
            \o (IF kind = "usb-host" THEN <<>> ELSE <<<<"del", "node">>>>)
            \o (IF kind = "iso" THEN <<<<"del", "ctl">>, <<"wait", "ctl">>>> ELSE <<>>)
      [] op = "eject" -> <<<<"open", "dev">>, <<"remove", "dev">>, <<"close", "dev">>>>
      [] op = "change" -> <<<<"change", "dev">>>>
      [] op = "display" -> <<<<"getfd", "none">>, <<"add_client", "none">>>>
      [] OTHER -> <<<<"query", "none">>>>   \* a list, a key, a screenshot, a poll

(* What `clean` is when a session begins. *)
NothingLeft(op) ==
    /\ op \in {"attach", "detach"} => wire = <<>>
    /\ op = "detach" => Event("DEVICE_DELETED", "dev") \notin Range(unread \o queued)

(* session: the gate, the live run, and a connection, made again when the reader
   has dropped it. Greeting and qmp_capabilities are the first command. *)
BeginSession(op) ==
    /\ task.op = "idle"
    /\ task' = [NoTask EXCEPT !.op = op, !.todo = Program(op),
                              !.clean = NothingLeft(op),
                              !.before = IF op = "attach" THEN present ELSE {}]
    /\ linked' = TRUE
    /\ UNCHANGED <<qemuVars, wire, unread, nextId, queued>>

Finish(answer, clean) ==
    task' = [NoTask EXCEPT !.answer = answer, !.clean = task.op = "attach" => task.clean /\ clean]

(* execute writes the next command under a new id. *)
Send ==
    /\ task.op # "idle" /\ task.todo # <<>> /\ task.wait = 0
    /\ Head(task.todo)[1] # "wait"
    /\ nextId <= MaxId[kind]
    /\ wire' = Append(wire, [id |-> nextId, cmd |-> Head(task.todo)])
    /\ task' = [task EXCEPT !.wait = nextId]
    /\ nextId' = nextId + 1
    /\ UNCHANGED <<qemuVars, unread, linked, queued>>

(* The step is done: the next one, or the answer of the session. The reader
   takes the queued events with the answer. *)
Advance ==
    /\ IF Len(task.todo) = 1
         THEN Finish(IF task.undo THEN "error" ELSE "ok", TRUE)
         ELSE task' = [task EXCEPT !.todo = Tail(@), !.done = Append(@, Head(task.todo)[2]), !.wait = 0]
    /\ queued' = IF task.op = "poll" THEN <<>> ELSE queued
    /\ UNCHANGED <<linked, nextId>>

(* Mutant: an attach that fails leaves what it has made. *)
FailedUndone(clean) ==
    /\ Finish("error", clean)
    /\ UNCHANGED <<linked, nextId, queued>>

(* The step fails. An attach removes what it has made, in reverse, and ignores
   errors of that; the removal of a controller is not needed; the reader drops
   the connection. *)
Failed(clean) ==
    LET undo == Dels(Reverse(task.done))
        left == Tail(task.todo)
        optional == task.op = "detach" /\ Head(task.todo) = <<"del", "ctl">>
    IN CASE task.op = "poll" ->
              /\ Finish("error", TRUE)
              /\ linked' = FALSE /\ nextId' = 1 /\ queued' = <<>>
         [] task.op = "attach" /\ ~task.undo /\ undo # <<>> ->
              /\ task' = [task EXCEPT !.todo = undo, !.done = <<>>, !.wait = 0, !.undo = TRUE,
                                      !.clean = @ /\ clean]
              /\ UNCHANGED <<linked, nextId, queued>>
         [] task.undo /\ left # <<>> ->
              /\ task' = [task EXCEPT !.todo = left, !.wait = 0, !.clean = @ /\ clean]
              /\ UNCHANGED <<linked, nextId, queued>>
         [] OTHER ->
              /\ Finish(IF optional THEN "ok" ELSE "error", clean)
              /\ UNCHANGED <<linked, nextId, queued>>

(* The socket of a dropped connection is closed with what is in it. *)
Frames(rest) ==
    IF linked' THEN unread' = rest /\ UNCHANGED wire ELSE unread' = <<>> /\ wire' = <<>>

Keep(frame, limit) ==
    queued' = Append(IF Len(queued) >= limit THEN Tail(queued) ELSE queued, frame)

(* Mutant: any answer is taken for the one awaited. *)
MatchesAny(frame) == TRUE

(* The answer to the command in hand. *)
Matches(frame) == frame.id = task.wait

(* read_reply: events are kept, the oldest dropped at the limit; answers to
   other commands are skipped. *)
ReadReply ==
    /\ task.wait # 0
    /\ unread # <<>>
    /\ LET frame == Head(unread)
       IN CASE IsGarbage(frame) -> Failed(FALSE)
            [] IsEvent(frame) -> Keep(frame, EventLimit) /\ UNCHANGED <<linked, nextId, task>>
            [] ~IsEvent(frame) /\ ~IsGarbage(frame) ->
                 IF Matches(frame)
                   THEN IF frame.ok THEN Advance ELSE Failed(TRUE)
                   ELSE UNCHANGED clientVars
    /\ Frames(Tail(unread))
    /\ UNCHANGED qemuVars

Waiting == task.op # "idle" /\ task.todo # <<>> /\ Head(task.todo)[1] = "wait"

(* wait_device_deleted: the events that are queued, *)
PopEvent ==
    /\ Waiting
    /\ queued # <<>>
    /\ LET event == Head(queued)
           mine == event.obj = Head(task.todo)[2]
       IN CASE mine /\ event.event = "DEVICE_DELETED" ->
                 /\ IF Len(task.todo) = 1 THEN Finish("ok", TRUE)
                                          ELSE task' = [task EXCEPT !.todo = Tail(@)]
                 /\ queued' = Tail(queued)
            [] mine /\ event.event = "DEVICE_UNPLUG_GUEST_ERROR" ->
                 Finish("error", TRUE) /\ queued' = Tail(queued)
            [] OTHER -> queued' = Tail(queued) /\ UNCHANGED task
    /\ UNCHANGED <<qemuVars, wire, unread, linked, nextId>>

(* then the frames that come. *)
ReadEvent ==
    /\ Waiting
    /\ queued = <<>> /\ unread # <<>>
    /\ LET frame == Head(unread)
       IN CASE IsGarbage(frame) -> Failed(FALSE)
            [] IsEvent(frame) -> queued' = <<frame>> /\ UNCHANGED <<linked, nextId, task>>
            [] OTHER -> UNCHANGED clientVars
    /\ Frames(Tail(unread))
    /\ UNCHANGED qemuVars

(* Five seconds are over. A frame that had come in part is cut: read_frame has
   its bytes on the stack, and the rest of the line is no JSON. *)
Timeout(cut) ==
    /\ task.wait # 0 \/ (Waiting /\ queued = <<>>)
    /\ cut => unread # <<>> /\ ~IsGarbage(Head(unread))
    /\ IF Waiting
         THEN /\ Finish(IF Head(task.todo)[2] = "dev" THEN "pending" ELSE "ok", FALSE)
              /\ UNCHANGED <<linked, nextId, queued>>
         ELSE Failed(FALSE)
    /\ Frames(IF cut THEN <<Garbage>> \o Tail(unread) ELSE unread)
    /\ UNCHANGED qemuVars

(* The client of send_key or screenshot goes away and the handler is dropped
   where it waits; the device routes run in a task of their own. *)
Cancel(cut) ==
    /\ task.op = "query" /\ task.wait # 0
    /\ cut => unread # <<>> /\ ~IsGarbage(Head(unread))
    /\ Finish("error", TRUE)
    /\ UNCHANGED <<qemuVars, wire, linked, nextId, queued>>
    /\ unread' = IF cut THEN <<Garbage>> \o Tail(unread) ELSE unread

DevicesNext ==
    \/ \E op \in {"attach", "detach", "query", "display", "poll"} : BeginSession(op)
    \/ kind = "iso" /\ \E op \in {"eject", "change"} : BeginSession(op)
    \/ Send \/ ReadReply \/ PopEvent \/ ReadEvent
    \/ \E cut \in BOOLEAN : Timeout(cut) \/ Cancel(cut)
    \/ \E ok \in BOOLEAN : QemuExecutes(ok)
    \/ \E obj \in {"dev", "ctl"} : GuestReleases(obj) \/ GuestRefuses(obj)
    \/ OtherEvent

DevicesSpec == DevicesInit /\ [][DevicesNext]_deviceVars

-----------------------------------------------------------------------------
(* A session that answers "ok" tells the truth about QEMU, whatever timed out
   before it on the same connection: an attached device is there with its
   backend, a detached one is gone with it, an ejected drive is closed and
   empty (read_reply, wait_device_deleted, attach, detach, eject_iso). A device
   that waits for its guest is the exception: what an earlier detach left in
   flight is taken for the answer to this one (DetachedIsGone). *)
AnswersTrue ==
    [][(task.op # "idle" /\ task'.op = "idle" /\ task'.answer = "ok") =>
        CASE task.op = "attach" -> Range(Parts) \subseteq present
          [] task.op = "detach" ->
                (OnPci("dev") => task.clean) => {"dev", "node"} \intersect Range(Parts) \intersect present = {}
          [] task.op = "eject" -> ~medium.open /\ ~medium.in
          [] OTHER -> TRUE]_deviceVars

(* "Detaching waits up to five seconds for QEMU's DEVICE_DELETED event before
   deleting the associated block, network, or character backend": a detach that
   answers "detached": true has waited for its own event
   (docs/operations/api-v2-streams-devices.md:127). It takes an event of an
   earlier detach for its own (wait_device_deleted, detach). *)
DetachedIsGone ==
    [][(task.op = "detach" /\ task'.op = "idle" /\ task'.answer = "ok") =>
        "dev" \notin present]_deviceVars

(* An attach that fails leaves nothing behind but a controller the guest was
   asked to let go, unless a command was given up on the way (attach). *)
RolledBack ==
    [][(task.op = "attach" /\ task'.op = "idle" /\ task'.answer = "error" /\ task'.clean) =>
        present \subseteq task.before \union {"ctl"}]_deviceVars
=============================================================================
