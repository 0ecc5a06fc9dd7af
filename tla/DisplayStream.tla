--------------------------- MODULE DisplayStream ---------------------------
(***************************************************************************)
(* The display streamer of a run (display-stream/src/listener.rs and       *)
(* bin/stream.rs). QEMU draws into inline scanouts or shared GPU buffers;  *)
(* a loop takes snapshots, keeps an encoder that fits them and publishes   *)
(* what it encodes; a hub replays the current group of pictures to viewers *)
(* that join, lag or ask for it.                                           *)
(***************************************************************************)
EXTENDS Naturals, Sequences, SequencesExt

CONSTANTS
    Viewers,        \* connections of viewers
    Sizes,          \* sizes of the screen
    MaxKeys,        \* bound: keyframes
    MaxDeltas,      \* bound: frames after a keyframe
    GopLimit,       \* MAX_GOP_BYTES, in packets
    ViewerQueue,    \* MAX_VIEWER_QUEUE: 64 in the code
    NoScreen        \* nothing

ASSUME DisplayAssumption ==
    /\ {MaxKeys, MaxDeltas} \subseteq Nat
    /\ {GopLimit, ViewerQueue} \subseteq Nat \ {0}
    /\ NoScreen \notin Sizes

VARIABLES
    screen,         \* what the guest shows: how it is scanned out, size, picture
    cap,            \* CaptureState
    enc,            \* the encoder
    nativeFailed,   \* the buffer format the GPU path has failed for
    behind,         \* the GPU path failed and nothing was drawn since
    bootstrap,      \* Hub::bootstrap
    frames,         \* number of the last keyframe and of the last frame after it
    viewer          \* viewer -> its connection

captureVars == <<screen, cap, behind>>
encoderVars == <<enc, nativeFailed>>
hubVars == <<bootstrap, frames, viewer>>
displayVars == <<captureVars, encoderVars, hubVars>>

NoEncoder == [mode |-> "none", size |-> NoScreen, picture |-> 0, fresh |-> TRUE]
NoViewer == [on |-> FALSE, ready |-> FALSE, initial |-> <<>>, queue |-> <<>>, lagged |-> FALSE,
             last |-> [key |-> 0, delta |-> 0]]

DisplayInit ==
    /\ screen = [kind |-> "inline", size |-> NoScreen, picture |-> 0]
    /\ cap = [size |-> NoScreen, picture |-> 0, dma |-> NoScreen, native |-> FALSE, refresh |-> FALSE]
    /\ behind = FALSE
    /\ enc = NoEncoder
    /\ nativeFailed = {}
    /\ bootstrap = <<>>
    /\ frames = [key |-> 0, delta |-> 0]
    /\ viewer = [v \in Viewers |-> NoViewer]

-----------------------------------------------------------------------------
(* Capture: calls of QEMU on the listener. A picture is a bit: another one is
   the other bit. *)

Redrawn == 1 - screen.picture

(* Scanout: the picture is in the message. What is known of a GPU buffer stays. *)
Scanout(size) ==
    /\ screen' = [kind |-> "inline", size |-> size, picture |-> Redrawn]
    /\ cap' = [cap EXCEPT !.size = size, !.picture = Redrawn, !.refresh = TRUE]
    /\ behind' = FALSE
    /\ UNCHANGED <<encoderVars, hubVars>>

(* Update of an inline scanout. *)
Update ==
    /\ screen.kind = "inline" /\ screen.size # NoScreen
    /\ screen' = [screen EXCEPT !.picture = Redrawn]
    /\ cap' = [cap EXCEPT !.picture = Redrawn, !.refresh = TRUE]
    /\ behind' = FALSE
    /\ UNCHANGED <<encoderVars, hubVars>>

(* ScanoutDMABUF, ScanoutDMABUF2: a shared buffer, copied once. *)
ScanoutDmabuf(size) ==
    /\ screen' = [kind |-> "dma", size |-> size, picture |-> Redrawn]
    /\ cap' = [cap EXCEPT !.size = size, !.picture = Redrawn, !.dma = size, !.refresh = TRUE]
    /\ behind' = FALSE
    /\ UNCHANGED <<encoderVars, hubVars>>

(* Mutant: the GPU path does not care for damage at all. *)
UpdateDmabufSilent ==
    /\ screen.kind = "dma"
    /\ screen' = [screen EXCEPT !.picture = Redrawn]
    /\ cap' = IF cap.native \/ enc.mode = "cpu" THEN cap
              ELSE [cap EXCEPT !.picture = Redrawn, !.refresh = TRUE]
    /\ behind' = FALSE
    /\ UNCHANGED <<encoderVars, hubVars>>

(* UpdateDMABUF: the buffer is copied again, unless the encoder reads it. *)
UpdateDmabuf ==
    /\ screen.kind = "dma"
    /\ screen' = [screen EXCEPT !.picture = Redrawn]
    /\ cap' = [cap EXCEPT !.picture = IF cap.native THEN @ ELSE Redrawn, !.refresh = TRUE]
    /\ behind' = FALSE
    /\ UNCHANGED <<encoderVars, hubVars>>

-----------------------------------------------------------------------------
(* The loop *)

(* Encoder::start_dmabuf with its fallback, Encoder::start_cpu. *)
Started(native) ==
    [mode |-> IF native THEN "dma" ELSE "cpu", size |-> IF native THEN cap.dma ELSE cap.size,
     picture |-> cap.picture, fresh |-> TRUE]

(* A tick: take a snapshot if anything was drawn; stop an encoder that does not
   fit and start another, or hand the frame over. `works`: the GPU path starts. *)
Snapshot(works) ==
    /\ cap.refresh
    /\ LET candidate == cap.dma # NoScreen /\ cap.dma \notin nativeFailed
           mode == IF candidate THEN "dma" ELSE "cpu"
           restart == \/ enc.mode # mode
                      \/ enc.size # cap.size
                      \/ candidate /\ enc.size # cap.dma
           native == candidate /\ works
       IN /\ ~works => restart /\ candidate
          /\ IF restart
               THEN /\ bootstrap' = <<>>
                    /\ enc' = Started(native)
                    /\ nativeFailed' = IF candidate /\ ~works THEN {cap.dma} ELSE nativeFailed
                    /\ cap' = [cap EXCEPT !.native = native, !.refresh = ~native]
                    /\ behind' = (behind \/ (cap.native /\ ~native))
               ELSE /\ enc' = [enc EXCEPT !.picture = cap.picture]
                    /\ cap' = [cap EXCEPT !.refresh = FALSE]
                    /\ UNCHANGED <<bootstrap, nativeFailed, behind>>
    /\ UNCHANGED <<screen, frames, viewer>>

(* The pipeline on the GPU path reports an error: back to copies. *)
EncoderFails ==
    /\ enc.mode = "dma"
    /\ nativeFailed' = {enc.size}
    /\ enc' = NoEncoder
    /\ bootstrap' = <<>>
    /\ cap' = [cap EXCEPT !.native = FALSE, !.refresh = TRUE]
    /\ behind' = TRUE
    /\ UNCHANGED <<screen, frames, viewer>>

-----------------------------------------------------------------------------
(* The hub *)

(* broadcast::Sender::send: a full queue loses its oldest packet. *)
Broadcast(packet) ==
    viewer' = [v \in Viewers |->
        IF ~viewer[v].on THEN viewer[v]
        ELSE IF Len(viewer[v].queue) < ViewerQueue
               THEN [viewer[v] EXCEPT !.queue = Append(@, packet)]
               ELSE [viewer[v] EXCEPT !.queue = Append(Tail(@), packet), !.lagged = TRUE]]

(* Hub::publish: the current group, as long as it is small enough. *)
Publish(packet) ==
    LET key == packet.delta = 0
        kept == IF key THEN <<packet>> ELSE Append(bootstrap, packet)
    IN /\ bootstrap' = IF ~key /\ bootstrap = <<>> THEN <<>>
                       ELSE IF Len(kept) > GopLimit THEN <<>> ELSE kept
       /\ Broadcast(packet)

(* The encoder's next frame; the first one is a keyframe. *)
EncoderEmits(key) ==
    /\ enc.mode # "none"
    /\ enc.fresh => key
    /\ IF key THEN frames.key < MaxKeys ELSE frames.delta < MaxDeltas
    /\ frames' = IF key THEN [key |-> frames.key + 1, delta |-> 0] ELSE [frames EXCEPT !.delta = @ + 1]
    /\ Publish(frames')
    /\ enc' = [enc EXCEPT !.fresh = FALSE]
    /\ UNCHANGED <<captureVars, nativeFailed>>

(* Cursor, clipboard, audio: records that any viewer can take at any time. *)
Independent == [key |-> 0, delta |-> 0]

PublishIndependent ==
    /\ \A v \in Viewers : Independent \notin Range(viewer[v].queue)     \* bound
    /\ Broadcast(Independent)
    /\ UNCHANGED <<captureVars, encoderVars, bootstrap, frames>>

(* Mutant: a viewer that joins again is as ready as it was. *)
SubscribedReady(v) ==
    [viewer[v] EXCEPT !.on = TRUE, !.initial = bootstrap, !.queue = <<>>, !.lagged = FALSE,
                      !.ready = @ \/ bootstrap # <<>>]

(* Hub::subscribe, under its lock: the group so far and what comes after it. *)
Subscribed(v) ==
    [viewer[v] EXCEPT !.on = TRUE, !.initial = bootstrap, !.queue = <<>>, !.lagged = FALSE,
                      !.ready = bootstrap # <<>>]

(* serve_viewer *)
ConnectViewer(v) ==
    /\ ~viewer[v].on
    /\ viewer' = [viewer EXCEPT ![v] = Subscribed(v)]
    /\ UNCHANGED <<captureVars, encoderVars, bootstrap, frames>>

(* request_idr, read between two packets. *)
RequestIdr(v) ==
    /\ viewer[v].on /\ viewer[v].initial = <<>>
    /\ viewer' = [viewer EXCEPT ![v] = Subscribed(v)]
    /\ UNCHANGED <<captureVars, encoderVars, bootstrap, frames>>

(* The packets of the group, one after the other. *)
WriteInitial(v) ==
    /\ viewer[v].initial # <<>>
    /\ viewer' = [viewer EXCEPT ![v].initial = Tail(@), ![v].last = Head(viewer[v].initial)]
    /\ UNCHANGED <<captureVars, encoderVars, bootstrap, frames>>

(* A live packet: a keyframe makes a viewer ready, frames before it are skipped. *)
WriteLive(v) ==
    /\ viewer[v].on /\ viewer[v].initial = <<>> /\ ~viewer[v].lagged
    /\ viewer[v].queue # <<>>
    /\ LET packet == Head(viewer[v].queue)
           ready == viewer[v].ready \/ (packet # Independent /\ packet.delta = 0)
       IN viewer' = [viewer EXCEPT ![v].queue = Tail(@), ![v].ready = ready,
                        ![v].last = IF ready /\ packet # Independent THEN packet ELSE @]
    /\ UNCHANGED <<captureVars, encoderVars, bootstrap, frames>>

(* RecvError::Lagged *)
Resynchronise(v) ==
    /\ viewer[v].on /\ viewer[v].initial = <<>> /\ viewer[v].lagged
    /\ viewer' = [viewer EXCEPT ![v] = Subscribed(v)]
    /\ UNCHANGED <<captureVars, encoderVars, bootstrap, frames>>

(* A write that takes three seconds, a message too long, or a closed socket. *)
Leave(v) ==
    /\ viewer[v].on
    /\ viewer' = [viewer EXCEPT ![v] = NoViewer]
    /\ UNCHANGED <<captureVars, encoderVars, bootstrap, frames>>

DisplayNext ==
    \/ \E s \in Sizes : Scanout(s) \/ ScanoutDmabuf(s)
    \/ Update \/ UpdateDmabuf
    \/ \E works \in BOOLEAN : Snapshot(works)
    \/ EncoderFails
    \/ \E key \in BOOLEAN : EncoderEmits(key)
    \/ PublishIndependent
    \/ \E v \in Viewers :
        \/ ConnectViewer(v) \/ RequestIdr(v) \/ WriteInitial(v) \/ WriteLive(v) \/ Resynchronise(v)
        \/ Leave(v)

DisplaySpec == DisplayInit /\ [][DisplayNext]_displayVars

-----------------------------------------------------------------------------
(* Every frame a viewer is sent can be decoded from what it was sent before: a
   keyframe, or the next frame after the last one, through joins, lags, group
   overflow and encoder restarts (Hub, serve_viewer). *)
Decodable ==
    [][\A v \in Viewers :
        LET last == viewer[v].last
            next == viewer'[v].last
        IN (next # last /\ next # Independent) =>
            (next.delta = 0 \/ next = [last EXCEPT !.delta = @ + 1])]_displayVars

(* What the encoder reads when nothing is left to take over. *)
Shown == IF enc.mode = "dma" THEN screen.picture ELSE enc.picture

(* Viewers see the screen as it is once the last drawing has been taken over,
   but for two gaps: an inline scanout after a GPU buffer, which is still
   preferred, and a copy left behind when the GPU path fails, until the guest
   draws again (CaptureState, run). *)
CurrentPicture ==
    (enc.mode # "none" /\ ~cap.refresh) =>
        \/ Shown = screen.picture /\ enc.size = screen.size
        \/ screen.kind = "inline" /\ cap.dma # NoScreen
        \/ behind
=============================================================================
