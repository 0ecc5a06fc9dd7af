------------------------------- MODULE Viewer -------------------------------
(***************************************************************************)
(* The native viewer (machineemu-viewer). Three threads share it: the net  *)
(* task reads records, feeds the decoder and forwards input; the decoder   *)
(* leaves its newest frame in a slot and wakes the window; the window      *)
(* draws the slot and turns what the user does into messages. A hardware   *)
(* decoder that fails is replaced by one in software.                      *)
(***************************************************************************)
EXTENDS Naturals, Sequences, SequencesExt

CONSTANTS
    HeldKeys,       \* keys and buttons the user can hold
    FrameKeys,      \* bound: keyframes of the stream
    FrameDeltas,    \* bound: frames after a keyframe
    WireLimit,      \* bound: records on their way
    InputBound      \* bound: messages the window has queued

ASSUME ViewerAssumption == {FrameKeys, FrameDeltas, WireLimit, InputBound} \subseteq Nat

VARIABLES
    published,      \* the last frame the streamer has published
    records,        \* records on their way to the viewer
    idrs,           \* request_idr messages on their way to the streamer
    session,        \* net::run: none, open, or how it ended
    awaiting,       \* awaiting_keyframe
    pipe,           \* VideoPipeline: generation, hardware, alive, last frame fed
    decodeErrors,   \* generations of the errors in the channel
    slot,           \* `latest`: whether a frame waits
    pendingWake,    \* `pending`
    decoderAt,      \* the decoder thread, inside its callback
    windowEvents,   \* UiEvent::Frame in the queue of the window
    windowAt,       \* the window thread, inside user_event
    grabbed,        \* App::grabbed
    held,           \* App::keys and App::buttons
    outbound,       \* messages for the net task
    windowOpen,     \* the window still holds the sender
    guestHeld       \* what the guest believes to be held

streamVars == <<published, records, idrs>>
netVars == <<session, awaiting, pipe, decodeErrors>>
frameVars == <<slot, pendingWake, decoderAt, windowEvents, windowAt>>
userVars == <<grabbed, held, outbound, windowOpen, guestHeld>>
viewerVars == <<streamVars, netVars, frameVars, userVars>>

Blank == [key |-> 0, delta |-> 0]

ViewerInit ==
    /\ published = Blank /\ records = <<>> /\ idrs = 0
    /\ session = "none" /\ awaiting = TRUE
    /\ pipe \in {[generation |-> 0, hardware |-> h, alive |-> TRUE, last |-> Blank] : h \in BOOLEAN}
    /\ decodeErrors = <<>>
    /\ slot = FALSE /\ pendingWake = FALSE /\ decoderAt = "idle"
    /\ windowEvents = 0 /\ windowAt = "idle"
    /\ grabbed = FALSE /\ held = {} /\ outbound = <<>> /\ windowOpen = TRUE
    /\ guestHeld = {}

-----------------------------------------------------------------------------
(* The streamer: what it publishes, and the group it replays. *)

Group ==
    [i \in 1..(IF published.key = 0 THEN 0 ELSE published.delta + 1) |->
        [key |-> published.key, delta |-> i - 1]]

StreamerPublishes(key) ==
    /\ Len(records) < WireLimit
    /\ IF key THEN published.key < FrameKeys ELSE published.key > 0 /\ published.delta < FrameDeltas
    /\ published' = IF key THEN [key |-> published.key + 1, delta |-> 0]
                    ELSE [published EXCEPT !.delta = @ + 1]
    /\ records' = IF session = "open" THEN Append(records, published') ELSE records
    /\ UNCHANGED <<idrs, netVars, frameVars, userVars>>

(* request_idr arrives: the group, or nothing when it had grown too large. *)
StreamerReplays(kept) ==
    /\ idrs > 0 /\ session = "open"
    /\ Len(records) < WireLimit
    /\ records' = IF kept THEN records \o Group ELSE records
    /\ idrs' = idrs - 1
    /\ UNCHANGED <<published, netVars, frameVars, userVars>>

-----------------------------------------------------------------------------
(* net::run *)

Over(how) == session' = how /\ records' = <<>> /\ idrs' = 0

(* Ticket, handshake and the first request_idr; the streamer greets a viewer
   with its group. *)
StartSession(works) ==
    /\ session = "none"
    /\ IF works THEN session' = "open" /\ idrs' = 1 /\ records' = Group
                ELSE Over("refused")
    /\ UNCHANGED <<published, awaiting, pipe, decodeErrors, frameVars, userVars>>

(* Frames are skipped up to the next keyframe, then fed. *)
ReadRecord ==
    /\ session = "open"
    /\ records # <<>>
    /\ LET frame == Head(records)
           feed == frame.delta = 0 \/ ~awaiting
       IN /\ pipe' = IF feed THEN [pipe EXCEPT !.last = frame] ELSE pipe
          /\ awaiting' = (awaiting /\ ~feed)
    /\ records' = Tail(records)
    /\ UNCHANGED <<published, idrs, session, decodeErrors, frameVars, userVars>>

(* Elements of one pipeline may report an error each. *)
DecoderErrs ==
    /\ Len(decodeErrors) < 2
    /\ decodeErrors' = Append(decodeErrors, pipe.generation)
    /\ pipe' = [pipe EXCEPT !.alive = FALSE]
    /\ UNCHANGED <<streamVars, session, awaiting, frameVars, userVars>>

(* An error of a pipeline that was replaced is ignored. *)
OfPipeline(generation) == generation = pipe.generation

(* Mutant: the next delta goes to the new decoder. *)
FallBackAtOnce ==
    /\ pipe' = [generation |-> pipe.generation + 1, hardware |-> FALSE, alive |-> TRUE, last |-> Blank]
    /\ idrs' = idrs + 1
    /\ UNCHANGED <<published, records, session, awaiting>>

(* Video::rebuild with the software decoder, which needs a keyframe. *)
FallBack ==
    /\ pipe' = [generation |-> pipe.generation + 1, hardware |-> FALSE, alive |-> TRUE, last |-> Blank]
    /\ awaiting' = TRUE
    /\ idrs' = idrs + 1
    /\ UNCHANGED <<published, records, session>>

HandleDecoderError ==
    /\ session = "open"
    /\ decodeErrors # <<>>
    /\ decodeErrors' = Tail(decodeErrors)
    /\ IF ~OfPipeline(Head(decodeErrors)) THEN UNCHANGED <<streamVars, session, awaiting, pipe>>
       ELSE IF pipe.hardware THEN FallBack
       ELSE Over("failed") /\ UNCHANGED <<published, awaiting, pipe>>
    /\ UNCHANGED <<frameVars, userVars>>

(* A message of the window goes out; a window that is gone ends the session. *)
ForwardInput ==
    /\ session = "open"
    /\ IF outbound # <<>>
         THEN LET m == Head(outbound)
              IN /\ guestHeld' = IF m.down THEN guestHeld \union {m.key} ELSE guestHeld \ {m.key}
                 /\ outbound' = Tail(outbound)
                 /\ UNCHANGED <<records, idrs, session>>
         ELSE ~windowOpen /\ Over("left") /\ UNCHANGED <<outbound, guestHeld>>
    /\ UNCHANGED <<published, awaiting, pipe, decodeErrors, frameVars, grabbed, held, windowOpen>>

(* The daemon closes the stream. *)
StreamEnds ==
    /\ session = "open"
    /\ Over("closed")
    /\ UNCHANGED <<published, awaiting, pipe, decodeErrors, frameVars, userVars>>

(* The process ends: shutdown_timeout waits for no async task. *)
ProcessEnds ==
    /\ ~windowOpen
    /\ session = "open"
    /\ Over("killed")
    /\ UNCHANGED <<published, awaiting, pipe, decodeErrors, frameVars, userVars>>

-----------------------------------------------------------------------------
(* Frames *)

(* The callback of the decoder: the newest frame replaces the one in the slot, *)
LeaveFrame ==
    /\ decoderAt = "idle"
    /\ pipe.last # Blank /\ pipe.alive
    /\ slot' = TRUE
    /\ decoderAt' = "wake"
    /\ UNCHANGED <<streamVars, netVars, pendingWake, windowEvents, windowAt, userVars>>

(* and wakes the window unless that is under way. *)
WakeWindow ==
    /\ decoderAt = "wake"
    /\ decoderAt' = "idle"
    /\ pendingWake' = TRUE
    /\ windowEvents' = IF pendingWake THEN windowEvents ELSE windowEvents + 1
    /\ UNCHANGED <<streamVars, netVars, slot, windowAt, userVars>>

(* Mutant: the flag stays. *)
WindowWakesPending ==
    /\ windowOpen
    /\ windowAt = "idle" /\ windowEvents > 0
    /\ windowEvents' = windowEvents - 1
    /\ windowAt' = "take"
    /\ UNCHANGED <<streamVars, netVars, slot, pendingWake, decoderAt, userVars>>

(* UiEvent::Frame: the flag goes down first, *)
WindowWakes ==
    /\ windowOpen
    /\ windowAt = "idle" /\ windowEvents > 0
    /\ windowEvents' = windowEvents - 1
    /\ pendingWake' = FALSE
    /\ windowAt' = "take"
    /\ UNCHANGED <<streamVars, netVars, slot, decoderAt, userVars>>

(* then the frame is taken. *)
WindowTakes ==
    /\ windowAt = "take"
    /\ slot' = FALSE
    /\ windowAt' = "idle"
    /\ UNCHANGED <<streamVars, netVars, pendingWake, decoderAt, windowEvents, userVars>>

-----------------------------------------------------------------------------
(* Input *)

Says(key, down) == [key |-> key, down |-> down]

(* release_inputs, in no order. *)
Releases == [i \in 1..Len(SetToSeq(held)) |-> Says(SetToSeq(held)[i], FALSE)]

(* A press into the display grabs the input; a key needs the grab. *)
PressButton(key) ==
    /\ windowOpen /\ Len(outbound) < InputBound
    /\ grabbed' = TRUE
    /\ held' = held \union {key}
    /\ outbound' = Append(outbound, Says(key, TRUE))
    /\ UNCHANGED <<streamVars, netVars, frameVars, windowOpen, guestHeld>>

PressKey(key) == grabbed /\ PressButton(key)

ReleaseKey(key) ==
    /\ windowOpen /\ grabbed
    /\ key \in held
    /\ held' = held \ {key}
    /\ outbound' = Append(outbound, Says(key, FALSE))
    /\ UNCHANGED <<streamVars, netVars, frameVars, grabbed, windowOpen, guestHeld>>

(* Mutant: what is held is forgotten with the grab. *)
LoseGrabHeld ==
    /\ windowOpen /\ grabbed
    /\ grabbed' = FALSE
    /\ held' = {}
    /\ UNCHANGED <<streamVars, netVars, frameVars, outbound, windowOpen, guestHeld>>

(* set_grabbed(false): focus lost, Ctrl+Alt+G, the button of the toolbar. *)
LoseGrab ==
    /\ windowOpen /\ grabbed
    /\ grabbed' = FALSE
    /\ outbound' = outbound \o Releases
    /\ held' = {}
    /\ UNCHANGED <<streamVars, netVars, frameVars, windowOpen, guestHeld>>

(* The user closes the window, or the session is over. *)
CloseWindow ==
    /\ windowOpen
    /\ grabbed' = FALSE
    /\ outbound' = IF session \in {"none", "open"} THEN outbound \o Releases ELSE outbound
    /\ held' = {}
    /\ windowOpen' = FALSE
    /\ UNCHANGED <<streamVars, netVars, frameVars, guestHeld>>

ViewerNext ==
    \/ \E b \in BOOLEAN : StreamerPublishes(b) \/ StreamerReplays(b) \/ StartSession(b)
    \/ ReadRecord \/ DecoderErrs \/ HandleDecoderError \/ ForwardInput \/ StreamEnds \/ ProcessEnds
    \/ LeaveFrame \/ WakeWindow \/ WindowWakes \/ WindowTakes
    \/ \E k \in HeldKeys : PressButton(k) \/ PressKey(k) \/ ReleaseKey(k)
    \/ LoseGrab \/ CloseWindow

ViewerSpec == ViewerInit /\ [][ViewerNext]_viewerVars

-----------------------------------------------------------------------------
(* No frame is left in the slot without a wake-up on its way, though decoder
   and window touch slot and flag in two steps each (main.rs callback,
   user_event). *)
WakeUpComes ==
    slot => \/ decoderAt = "wake"
            \/ windowEvents > 0
            \/ windowAt = "take"

(* Every decoder, the one after a fallback too, is fed a keyframe first and
   then what follows it, whatever was on its way (net::run). *)
FedInOrder ==
    [][pipe'.last \notin {pipe.last, Blank} =>
        \/ pipe'.last.delta = 0
        \/ pipe'.last = [pipe.last EXCEPT !.delta = @ + 1]]_viewerVars

(* The guest holds nothing down that the user has let go, once the messages
   are out: without the grab, and after a session that the window has ended
   (set_grabbed, release_inputs, CloseRequested). *)
NothingStuck ==
    /\ (session = "open" /\ ~grabbed /\ outbound = <<>>) => guestHeld = {}
    /\ session = "left" => guestHeld = {}
=============================================================================
