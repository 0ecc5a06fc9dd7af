--------------------------- MODULE RunningProofs ---------------------------
(***************************************************************************)
(* What a running VM exchanges, for any number of clients, grabs and       *)
(* frames: jobs in the guest follow their own process, the streamer shows  *)
(* the screen as it is, clipboard and pointer end up where they were meant *)
(* to, and the viewer draws what it decodes, feeds its decoders in order   *)
(* and lets nothing stay held in the guest.                                *)
(***************************************************************************)
EXTENDS GuestAgent, DisplayStream, DisplayInput, Viewer, SequenceTheorems, FunctionTheorems,
        FiniteSetTheorems, TLAPS

-----------------------------------------------------------------------------
(* The picture of the screen (listener.rs CaptureState, bin/stream.rs run) *)

Pictures == {0, 1}
Screens == [kind : {"inline", "dma"}, size : Sizes \cup {NoScreen}, picture : Pictures]
Captures == [size : Sizes \cup {NoScreen}, picture : Pictures, dma : Sizes \cup {NoScreen},
             native : BOOLEAN, refresh : BOOLEAN]
Encoders == [mode : {"none", "cpu", "dma"}, size : Sizes \cup {NoScreen}, picture : Pictures,
             fresh : BOOLEAN]

PictureTypes == screen \in Screens /\ cap \in Captures /\ enc \in Encoders /\ behind \in BOOLEAN

(* What was captured is what is scanned out; the last GPU buffer is remembered. *)
Captured ==
    /\ cap.size = screen.size
    /\ screen.kind = "dma" => cap.dma = screen.size
    /\ cap.native <=> enc.mode = "dma"
    /\ enc.mode = "dma" => cap.dma # NoScreen

(* The copy is current, unless an encoder reads the buffer itself or did. *)
CopyCurrent == cap.picture = screen.picture \/ behind \/ cap.native

(* With nothing left to take over, the encoder has what was captured last. *)
TakenOver ==
    ~cap.refresh =>
        /\ enc.mode = "cpu" => enc.size = cap.size /\ enc.picture = cap.picture
        /\ enc.mode = "dma" => enc.size = cap.dma

PInv == PictureTypes /\ Captured /\ CopyCurrent /\ TakenOver

LEMMA PictureInit == DisplayInit => PInv
<1> SUFFICES ASSUME DisplayInit PROVE PInv
  OBVIOUS
<1>1. PictureTypes
  BY DEF DisplayInit, PictureTypes, Screens, Captures, Encoders, Pictures, NoEncoder
<1>2. Captured /\ CopyCurrent /\ TakenOver
  BY DEF DisplayInit, Captured, CopyCurrent, TakenOver, NoEncoder
<1> QED BY <1>1, <1>2 DEF PInv

LEMMA RedrawnType == screen \in Screens => Redrawn \in Pictures
BY DEF Screens, Pictures, Redrawn

(* A drawing reaches the capture, or the encoder that reads the buffer. *)
LEMMA DrawingKept ==
    ASSUME PInv, NEW s \in Screens, NEW c \in Captures, screen' = s, cap' = c, behind' = FALSE,
           UNCHANGED enc, c.refresh, c.native = cap.native, c.size = s.size,
           c.picture = s.picture \/ c.native, s.kind = "dma" => c.dma = s.size,
           cap.dma # NoScreen => c.dma # NoScreen
    PROVE  PInv'
<1>1. PictureTypes'
  BY DEF PInv, PictureTypes
<1>2. Captured' /\ CopyCurrent' /\ TakenOver'
  BY DEF PInv, Captured, CopyCurrent, TakenOver
<1> QED BY <1>1, <1>2 DEF PInv

LEMMA SnapshotKeeps == ASSUME PInv, NEW works \in BOOLEAN, Snapshot(works) PROVE PInv'
<1> DEFINE candidate == cap.dma # NoScreen /\ cap.dma \notin nativeFailed
           native == candidate /\ works
<1>1. /\ screen \in Screens /\ cap \in Captures /\ enc \in Encoders /\ behind \in BOOLEAN
      /\ UNCHANGED screen
  BY DEF PInv, PictureTypes, Snapshot
<1>2. CASE /\ enc' = Started(native)
           /\ cap' = [cap EXCEPT !.native = native, !.refresh = ~native]
           /\ behind' = (behind \/ (cap.native /\ ~native))
  <2>1. /\ cap' \in Captures /\ cap'.native = native /\ cap'.refresh = ~native
        /\ cap'.size = cap.size /\ cap'.picture = cap.picture /\ cap'.dma = cap.dma
    BY <1>1, <1>2 DEF Captures
  <2>2. /\ enc' \in Encoders /\ enc'.mode = (IF native THEN "dma" ELSE "cpu")
        /\ enc'.size = (IF native THEN cap.dma ELSE cap.size)
    BY <1>1, <1>2 DEF Captures, Encoders, Started
  <2>3. Captured'
    BY <1>1, <2>1, <2>2 DEF PInv, Captured
  <2>4. CopyCurrent' /\ behind' \in BOOLEAN
    BY <1>1, <1>2, <2>1 DEF PInv, CopyCurrent
  <2>5. TakenOver'
    BY <2>1, <2>2 DEF TakenOver
  <2> QED BY <1>1, <2>1, <2>2, <2>3, <2>4, <2>5 DEF PInv, PictureTypes
<1>3. CASE /\ ~(enc.mode # (IF candidate THEN "dma" ELSE "cpu"))
           /\ ~(enc.size # cap.size) /\ ~(candidate /\ enc.size # cap.dma)
           /\ enc' = [enc EXCEPT !.picture = cap.picture]
           /\ cap' = [cap EXCEPT !.refresh = FALSE]
           /\ UNCHANGED behind
  <2>1. /\ cap' \in Captures /\ cap'.native = cap.native /\ cap'.size = cap.size
        /\ cap'.picture = cap.picture /\ cap'.dma = cap.dma
    BY <1>1, <1>3 DEF Captures
  <2>2. /\ enc' \in Encoders /\ enc'.mode = enc.mode /\ enc'.size = enc.size
        /\ enc'.picture = cap.picture
    BY <1>1, <1>3 DEF Captures, Encoders
  <2>3. Captured' /\ CopyCurrent'
    BY <1>1, <1>3, <2>1, <2>2 DEF PInv, Captured, CopyCurrent
  <2>4. TakenOver'
    BY <1>3, <2>1, <2>2 DEF TakenOver
  <2> QED BY <1>1, <1>3, <2>1, <2>2, <2>3, <2>4 DEF PInv, PictureTypes
<1> QED BY <1>2, <1>3 DEF Snapshot

LEMMA PictureNext == PInv /\ [DisplayNext]_displayVars => PInv'
<1> SUFFICES ASSUME PInv, [DisplayNext]_displayVars PROVE PInv'
  OBVIOUS
<1>0. screen \in Screens /\ cap \in Captures /\ enc \in Encoders /\ Redrawn \in Pictures
  BY RedrawnType DEF PInv, PictureTypes
<1>1. ASSUME NEW s \in Sizes, Scanout(s) PROVE PInv'
  <2> DEFINE sc == [kind |-> "inline", size |-> s, picture |-> Redrawn]
             c == [cap EXCEPT !.size = s, !.picture = Redrawn, !.refresh = TRUE]
  <2>1. /\ sc \in Screens /\ c \in Captures /\ c.refresh /\ c.native = cap.native
        /\ c.size = sc.size /\ c.picture = sc.picture /\ c.dma = cap.dma /\ sc.kind = "inline"
    BY <1>0 DEF Screens, Captures
  <2>2. screen' = sc /\ cap' = c /\ behind' = FALSE /\ UNCHANGED enc
    BY <1>1 DEF Scanout, encoderVars
  <2> HIDE DEF sc, c
  <2> QED BY <2>1, <2>2, DrawingKept
<1>2. ASSUME NEW s \in Sizes, ScanoutDmabuf(s) PROVE PInv'
  <2> DEFINE sc == [kind |-> "dma", size |-> s, picture |-> Redrawn]
             c == [cap EXCEPT !.size = s, !.picture = Redrawn, !.dma = s, !.refresh = TRUE]
  <2>1. /\ sc \in Screens /\ c \in Captures /\ c.refresh /\ c.native = cap.native
        /\ c.size = sc.size /\ c.picture = sc.picture /\ c.dma = s /\ sc.size = s
    BY <1>0 DEF Screens, Captures
  <2>2. screen' = sc /\ cap' = c /\ behind' = FALSE /\ UNCHANGED enc
    BY <1>2 DEF ScanoutDmabuf, encoderVars
  <2> HIDE DEF sc, c
  <2> QED BY <2>1, <2>2, DrawingKept, DisplayAssumption
<1>3. CASE Update
  <2> DEFINE sc == [screen EXCEPT !.picture = Redrawn]
             c == [cap EXCEPT !.picture = Redrawn, !.refresh = TRUE]
  <2>1. /\ sc \in Screens /\ c \in Captures /\ c.refresh /\ c.native = cap.native
        /\ sc.size = screen.size /\ c.size = cap.size /\ c.picture = sc.picture
        /\ c.dma = cap.dma /\ sc.kind = screen.kind
    BY <1>0 DEF Screens, Captures
  <2>2. screen' = sc /\ cap' = c /\ behind' = FALSE /\ UNCHANGED enc
    BY <1>3 DEF Update, encoderVars
  <2> HIDE DEF sc, c
  <2> QED BY <2>1, <2>2, DrawingKept DEF PInv, Captured
<1>4. CASE UpdateDmabuf
  <2> DEFINE sc == [screen EXCEPT !.picture = Redrawn]
             c == [cap EXCEPT !.picture = IF cap.native THEN @ ELSE Redrawn, !.refresh = TRUE]
  <2>1. /\ sc \in Screens /\ c \in Captures /\ c.refresh /\ c.native = cap.native
        /\ sc.size = screen.size /\ c.size = cap.size /\ (c.native \/ c.picture = sc.picture)
        /\ c.dma = cap.dma /\ sc.kind = screen.kind
    BY <1>0 DEF Screens, Captures
  <2>2. screen' = sc /\ cap' = c /\ behind' = FALSE /\ UNCHANGED enc
    BY <1>4 DEF UpdateDmabuf, encoderVars
  <2> HIDE DEF sc, c
  <2> QED BY <2>1, <2>2, DrawingKept DEF PInv, Captured
<1>5. CASE EncoderFails
  <2>1. /\ cap' \in Captures /\ cap'.native = FALSE /\ cap'.refresh /\ cap'.size = cap.size
        /\ cap'.dma = cap.dma /\ UNCHANGED screen /\ behind' = TRUE
    BY <1>0, <1>5 DEF EncoderFails, Captures
  <2>2. enc' \in Encoders /\ enc'.mode = "none"
    BY <1>5 DEF EncoderFails, NoEncoder, Encoders, Pictures
  <2> QED BY <1>0, <2>1, <2>2 DEF PInv, PictureTypes, Captured, CopyCurrent, TakenOver
<1>6. ASSUME NEW key \in BOOLEAN, EncoderEmits(key) PROVE PInv'
  <2>1. /\ enc' \in Encoders /\ enc'.mode = enc.mode /\ enc'.size = enc.size
        /\ enc'.picture = enc.picture /\ UNCHANGED <<screen, cap, behind>>
    BY <1>0, <1>6 DEF EncoderEmits, Encoders, captureVars
  <2> QED BY <2>1 DEF PInv, PictureTypes, Captured, CopyCurrent, TakenOver
<1>7. ASSUME UNCHANGED <<captureVars, enc>> PROVE PInv'
  BY <1>7 DEF captureVars, PInv, PictureTypes, Captured, CopyCurrent, TakenOver
<1>8. CASE PublishIndependent
  BY <1>7, <1>8 DEF PublishIndependent, encoderVars
<1>9. ASSUME NEW v \in Viewers,
             \/ ConnectViewer(v) \/ RequestIdr(v) \/ WriteInitial(v) \/ WriteLive(v)
             \/ Resynchronise(v) \/ Leave(v)
      PROVE  PInv'
  BY <1>7, <1>9 DEF ConnectViewer, RequestIdr, WriteInitial, WriteLive, Resynchronise, Leave,
                    encoderVars
<1>10. CASE UNCHANGED displayVars
  BY <1>7, <1>10 DEF displayVars, encoderVars
<1> QED BY <1>1, <1>2, <1>3, <1>4, <1>5, <1>6, <1>8, <1>9, <1>10, SnapshotKeeps DEF DisplayNext

(* Viewers see the screen as it is once the last drawing has been taken over, for any
   sequence of scanouts, encoder restarts and failures of the GPU path; the two gaps are
   those CurrentPicture names. *)
THEOREM ScreenShown == DisplaySpec => []CurrentPicture
<1>1. PInv => CurrentPicture
  BY DEF PInv, PictureTypes, Screens, Encoders, Captured, CopyCurrent, TakenOver, CurrentPicture,
         Shown
<1> QED BY <1>1, PictureInit, PictureNext, PTL DEF DisplaySpec

-----------------------------------------------------------------------------
(* The clipboard (bin/stream.rs set_clipboard, accept_guest_serial) *)

In(x, seq) == \E n \in 1..Len(seq) : seq[n] = x

ClipTypes ==
    /\ clip \in [serial : Nat, text : BOOLEAN]
    /\ qemuClip \in [serial : Nat, owner : {"guest", "host"}]
    /\ toQemu \in Seq(Nat) /\ toStreamer \in Seq(Nat)

(* Serials on their way are not ahead of who sent them; QEMU's own newer serial is on its
   way, and it has the serial of the host only if that was the newest. *)
SerialsKnown ==
    /\ \A x \in Nat : In(x, toQemu) => x <= clip.serial
    /\ \A x \in Nat : In(x, toStreamer) => x <= qemuClip.serial
    /\ qemuClip.owner = "host" => qemuClip.serial <= clip.serial
    /\ qemuClip.serial > clip.serial => In(qemuClip.serial, toStreamer)

(* Text of the host has reached QEMU, is on its way to it, or was overtaken; *)
HostOwns ==
    clip.text => \/ In(clip.serial, toQemu)
                 \/ qemuClip.owner = "host" /\ qemuClip.serial = clip.serial
                 \/ qemuClip.serial > clip.serial

(* and what the guest took back no older grab of the host takes again. *)
GuestOwns ==
    ~clip.text => /\ qemuClip.owner = "guest" /\ clip.serial <= qemuClip.serial
                  /\ \A x \in Nat : In(x, toQemu) => x < clip.serial

CInv == ClipTypes /\ SerialsKnown /\ HostOwns /\ GuestOwns

LEMMA ClipInit == DisplayInputInit => CInv
BY DEF DisplayInputInit, CInv, ClipTypes, SerialsKnown, HostOwns, GuestOwns, In

LEMMA TailIn ==
    ASSUME NEW S, NEW seq \in Seq(S), seq # <<>>
    PROVE  /\ Head(seq) \in S /\ Tail(seq) \in Seq(S) /\ In(Head(seq), seq)
           /\ \A x : In(x, Tail(seq)) => In(x, seq)
           /\ \A x : In(x, seq) => x = Head(seq) \/ In(x, Tail(seq))
<1>1. /\ Head(seq) \in S /\ Tail(seq) \in Seq(S) /\ Len(Tail(seq)) = Len(seq) - 1
      /\ Len(seq) \in Nat /\ Len(seq) > 0 /\ Head(seq) = seq[1]
      /\ \A n \in 1..Len(Tail(seq)) : Tail(seq)[n] = seq[n + 1]
  OBVIOUS
<1>2. In(Head(seq), seq)
  <2>1. 1 \in 1..Len(seq)
    BY <1>1
  <2> QED BY <1>1, <2>1 DEF In
<1>3. ASSUME NEW x, In(x, Tail(seq)) PROVE In(x, seq)
  <2>1. PICK n \in 1..Len(Tail(seq)) : Tail(seq)[n] = x
    BY <1>3 DEF In
  <2>2. n + 1 \in 1..Len(seq) /\ seq[n + 1] = x
    BY <1>1, <2>1
  <2> QED BY <2>2 DEF In
<1>4. ASSUME NEW x, In(x, seq), x # Head(seq) PROVE In(x, Tail(seq))
  <2>1. PICK n \in 1..Len(seq) : seq[n] = x
    BY <1>4 DEF In
  <2>2. n - 1 \in 1..Len(Tail(seq)) /\ Tail(seq)[n - 1] = x
    BY <1>1, <1>4, <2>1
  <2> QED BY <2>2 DEF In
<1> QED BY <1>1, <1>2, <1>3, <1>4

LEMMA AppendIn ==
    ASSUME NEW S, NEW seq \in Seq(S), NEW x \in S
    PROVE  /\ Append(seq, x) \in Seq(S) /\ In(x, Append(seq, x))
           /\ \A y : In(y, seq) => In(y, Append(seq, x))
           /\ \A y : In(y, Append(seq, x)) => y = x \/ In(y, seq)
<1>1. /\ Append(seq, x) \in Seq(S) /\ Len(Append(seq, x)) = Len(seq) + 1 /\ Len(seq) \in Nat
      /\ \A n \in 1..Len(seq) : Append(seq, x)[n] = seq[n]
      /\ Append(seq, x)[Len(seq) + 1] = x
  OBVIOUS
<1>2. In(x, Append(seq, x))
  <2>1. Len(seq) + 1 \in 1..Len(Append(seq, x))
    BY <1>1
  <2> QED BY <1>1, <2>1 DEF In
<1>3. ASSUME NEW y, In(y, seq) PROVE In(y, Append(seq, x))
  <2>1. PICK n \in 1..Len(seq) : seq[n] = y
    BY <1>3 DEF In
  <2>2. n \in 1..Len(Append(seq, x)) /\ Append(seq, x)[n] = y
    BY <1>1, <2>1
  <2> QED BY <2>2 DEF In
<1>4. ASSUME NEW y, In(y, Append(seq, x)) PROVE y = x \/ In(y, seq)
  <2>1. PICK n \in 1..Len(Append(seq, x)) : Append(seq, x)[n] = y
    BY <1>4 DEF In
  <2>2. n \in 1..Len(seq) \/ n = Len(seq) + 1
    BY <1>1, <2>1
  <2> QED BY <1>1, <2>1, <2>2 DEF In
<1> QED BY <1>1, <1>2, <1>3, <1>4

LEMMA ClipNext == CInv /\ [DisplayInputNext]_displayInputVars => CInv'
<1> SUFFICES ASSUME CInv, [DisplayInputNext]_displayInputVars PROVE CInv'
  OBVIOUS
<1> USE DEF CInv, ClipTypes, SerialsKnown, HostOwns, GuestOwns
<1>0. clip.serial \in Nat /\ qemuClip.serial \in Nat
  OBVIOUS
<1>1. CASE SetClipboard
  <2>1. /\ clip' = [serial |-> clip.serial + 1, text |-> TRUE]
        /\ toQemu' = Append(toQemu, clip.serial + 1) /\ UNCHANGED <<qemuClip, toStreamer>>
    BY <1>1 DEF SetClipboard
  <2>2. /\ toQemu' \in Seq(Nat) /\ In(clip.serial + 1, toQemu')
        /\ \A y : In(y, toQemu') => y = clip.serial + 1 \/ In(y, toQemu)
    BY <1>0, <2>1, AppendIn
  <2>3. clip' \in [serial : Nat, text : BOOLEAN] /\ clip'.serial = clip.serial + 1 /\ clip'.text
    BY <1>0, <2>1
  <2>4. ClipTypes'
    BY <2>1, <2>2, <2>3
  <2>5. SerialsKnown'
    <3>1. \A y \in Nat : In(y, toQemu') => y <= clip'.serial
      <4> SUFFICES ASSUME NEW y \in Nat, In(y, toQemu') PROVE y <= clip.serial + 1
        BY <2>3
      <4>1. y = clip.serial + 1 \/ In(y, toQemu)
        BY <2>2
      <4>2. In(y, toQemu) => y <= clip.serial
        OBVIOUS
      <4> QED BY <1>0, <4>1, <4>2
    <3>2. UNCHANGED <<qemuClip, toStreamer>> /\ clip'.serial > clip.serial
      BY <1>0, <2>1, <2>3
    <3>3. qemuClip'.owner = "host" => qemuClip'.serial <= clip'.serial
      BY <1>0, <2>3, <3>2
    <3>4. qemuClip'.serial > clip'.serial => In(qemuClip'.serial, toStreamer')
      BY <1>0, <2>3, <3>2
    <3> QED BY <3>1, <3>2, <3>3, <3>4
  <2>6. HostOwns'
    <3>1. clip'.text /\ In(clip'.serial, toQemu')
      BY <2>2, <2>3
    <3> QED BY <3>1
  <2>7. GuestOwns'
    BY <2>3
  <2> QED BY <2>4, <2>5, <2>6, <2>7
<1>2. CASE GuestGrab
  <2> DEFINE x == Head(toStreamer)
  <2>1. /\ toStreamer' \in Seq(Nat) /\ x \in Nat /\ x <= qemuClip.serial
        /\ \A y : In(y, toStreamer') => In(y, toStreamer)
        /\ \A y : In(y, toStreamer) => y = x \/ In(y, toStreamer')
    BY <1>2, TailIn DEF GuestGrab
  <2>2. UNCHANGED <<qemuClip, toQemu>>
    BY <1>2 DEF GuestGrab
  <2> HIDE DEF x
  <2>3. CASE clip' = [serial |-> x, text |-> FALSE] /\ x > clip.serial
    \* a newer grab: QEMU's serial is at least that, and so its own
    BY <1>0, <2>1, <2>2, <2>3
  <2>4. CASE clip' = clip /\ ~(x > clip.serial)
    BY <1>0, <2>1, <2>2, <2>4
  <2> QED BY <1>2, <2>3, <2>4 DEF GuestGrab, Newer, x
<1>3. CASE GuestCopies
  <2>1. /\ qemuClip' = [serial |-> qemuClip.serial + 1, owner |-> "guest"]
        /\ toStreamer' = Append(toStreamer, qemuClip.serial + 1) /\ UNCHANGED <<clip, toQemu>>
    BY <1>3 DEF GuestCopies
  <2>2. /\ toStreamer' \in Seq(Nat) /\ In(qemuClip.serial + 1, toStreamer')
        /\ \A y : In(y, toStreamer) => In(y, toStreamer')
        /\ \A y : In(y, toStreamer') => y = qemuClip.serial + 1 \/ In(y, toStreamer)
    BY <1>0, <2>1, AppendIn
  <2>3. /\ qemuClip' \in [serial : Nat, owner : {"guest", "host"}]
        /\ qemuClip'.serial = qemuClip.serial + 1 /\ qemuClip'.owner = "guest"
    BY <1>0, <2>1
  <2>4. ClipTypes'
    BY <2>1, <2>2, <2>3
  <2>5. SerialsKnown'
    BY <1>0, <2>1, <2>2, <2>3
  <2>6. HostOwns' /\ GuestOwns'
    BY <1>0, <2>1, <2>2, <2>3
  <2> QED BY <2>4, <2>5, <2>6
<1>4. CASE QemuGrabs
  <2> DEFINE x == Head(toQemu)
  <2>1. /\ toQemu' \in Seq(Nat) /\ x \in Nat /\ x <= clip.serial /\ In(x, toQemu)
        /\ \A y : In(y, toQemu') => In(y, toQemu)
        /\ \A y : In(y, toQemu) => y = x \/ In(y, toQemu')
    BY <1>4, TailIn DEF QemuGrabs
  <2>2. UNCHANGED <<clip, toStreamer>>
    BY <1>4 DEF QemuGrabs
  <2> HIDE DEF x
  <2>3. CASE qemuClip' = [serial |-> x, owner |-> "host"] /\ x >= qemuClip.serial
    BY <1>0, <2>1, <2>2, <2>3
  <2>4. CASE qemuClip' = qemuClip /\ ~(x >= qemuClip.serial)
    BY <1>0, <2>1, <2>2, <2>4
  <2> QED BY <1>4, <2>3, <2>4 DEF QemuGrabs, x
<1>5. ASSUME UNCHANGED clipVars PROVE CInv'
  BY <1>5 DEF clipVars
<1> QED BY <1>1, <1>2, <1>3, <1>4, <1>5 DEF DisplayInputNext, PushInput, Forward, displayInputVars

(* Once no grab is on its way, streamer and QEMU agree who owns the clipboard: for any
   number of grabs of both sides, however they crossed. *)
THEOREM ClipboardSettles == DisplayInputSpec => []ClipboardAgreed
<1>1. CInv => ClipboardAgreed
  BY DEF CInv, ClipTypes, SerialsKnown, HostOwns, GuestOwns, In, ClipboardAgreed
<1> QED BY <1>1, ClipInit, ClipNext, PTL DEF DisplayInputSpec

-----------------------------------------------------------------------------
(* The pointer (bin/stream.rs Inputs::push) *)

Inputs == [type : {"abs", "click", "clipboard_set"}, at : Nat]

Moves(n) == inputs[n].type = "abs"

(* The pointer is at x when input n is handed over: by the last motion before it. *)
AtBefore(n, x) ==
    \/ \E k \in 1..(n - 1) : Moves(k) /\ inputs[k].at = x /\ \A l \in (k + 1)..(n - 1) : ~Moves(l)
    \/ (\A k \in 1..(n - 1) : ~Moves(k)) /\ x = pointer

InputTypes == inputs \in Seq(Inputs) /\ pointer \in Nat /\ lostInput \in BOOLEAN

(* Some motion is the last one, if there is any. *)
LastMotion ==
    \/ \A k \in 1..Len(inputs) : ~Moves(k)
    \/ \E k \in 1..Len(inputs) : Moves(k) /\ \A l \in (k + 1)..Len(inputs) : ~Moves(l)

ClicksAim ==
    ~lostInput => \A n \in 1..Len(inputs) : inputs[n].type = "click" => AtBefore(n, inputs[n].at)

IInv == InputTypes /\ LastMotion /\ ClicksAim

LEMMA InputInit == DisplayInputInit => IInv
<1> SUFFICES ASSUME DisplayInputInit PROVE IInv
  OBVIOUS
<1>1. inputs = <<>> /\ pointer = 0 /\ lostInput = FALSE
  BY DEF DisplayInputInit
<1>2. inputs \in Seq(Inputs) /\ 1..Len(inputs) = {}
  BY <1>1
<1>3. InputTypes
  BY <1>1, <1>2 DEF InputTypes
<1>4. LastMotion /\ ClicksAim
  BY <1>2 DEF LastMotion, ClicksAim
<1> QED BY <1>3, <1>4 DEF IInv

(* A click is aimed with what is in the queue then. *)
LEMMA AimedBefore ==
    ASSUME InputTypes, LastMotion
    PROVE  AtBefore(Len(inputs) + 1, Aimed)
<1> DEFINE motions == {n \in DOMAIN inputs : inputs[n].type = "abs"}
<1>1. Len(inputs) \in Nat /\ DOMAIN inputs = 1..Len(inputs) /\ Len(inputs) + 1 - 1 = Len(inputs)
  BY DEF InputTypes
<1>2. CASE motions = {}
  BY <1>1, <1>2 DEF Aimed, AtBefore, Moves
<1>3. CASE motions # {}
  <2>1. PICK m \in motions : \A l \in motions : m >= l
    <3>1. PICK k \in 1..Len(inputs) : Moves(k) /\ \A l \in (k + 1)..Len(inputs) : ~Moves(l)
      BY <1>1, <1>3 DEF LastMotion, Moves
    <3>2. ASSUME NEW l \in motions PROVE k >= l
      BY <1>1, <3>1 DEF Moves
    <3> QED BY <1>1, <3>1, <3>2 DEF Moves
  <2>2. Max(motions) \in motions /\ \A l \in motions : Max(motions) >= l
    BY <2>1 DEF Max
  <2>3. Aimed = inputs[Max(motions)].at
    BY <1>3 DEF Aimed
  <2> DEFINE k == Max(motions)
  <2>4. k \in 1..Len(inputs) /\ Moves(k) /\ inputs[k].at = Aimed
    BY <1>1, <2>2, <2>3 DEF Moves
  <2>5. ASSUME NEW l \in (k + 1)..Len(inputs), Moves(l) PROVE FALSE
    <3>1. l \in motions
      BY <1>1, <2>4, <2>5 DEF Moves
    <3>2. k >= l
      BY <2>2, <3>1
    <3>3. k \in Nat /\ l \in Nat /\ l >= k + 1
      BY <1>1, <2>4, <2>5
    <3> HIDE DEF k
    <3> QED BY <3>2, <3>3
  <2> HIDE DEF k
  <2> QED BY <1>1, <2>4, <2>5 DEF AtBefore
<1> QED BY <1>2, <1>3

(* What coalescing leaves of the queue: at most its last motion is taken out. *)
LEMMA CoalescedIs ==
    ASSUME InputTypes, NEW input \in Inputs
    PROVE  LET base == Coalesced(input)
           IN  /\ base \in Seq(Inputs) /\ Len(base) \in Nat
               /\ \A n \in 1..Len(base) : n \in 1..Len(inputs) /\ base[n] = inputs[n]
               /\ base = inputs \/ (input.type = "abs" /\ Len(base) = Len(inputs) - 1)
<1>1. inputs \in Seq(Inputs) /\ Len(inputs) \in Nat
  BY DEF InputTypes
<1>2. CASE input.type = "abs" /\ inputs # <<>> /\ Last(inputs).type = "abs"
  <2>1. Coalesced(input) = SubSeq(inputs, 1, Len(inputs) - 1)
    BY <1>2 DEF Coalesced, Front
  <2>2. Len(inputs) > 0
    BY <1>1, <1>2
  <2> DEFINE base == SubSeq(inputs, 1, Len(inputs) - 1)
  <2>3. \A k \in 1..(Len(inputs) - 1) : inputs[k] \in Inputs
    BY <1>1, <2>2
  <2>4. /\ base \in Seq(Inputs)
        /\ Len(base) = IF 1 <= Len(inputs) - 1 THEN Len(inputs) - 1 - 1 + 1 ELSE 0
        /\ \A k \in 1..(Len(inputs) - 1 - 1 + 1) : base[k] = inputs[1 + k - 1]
    <3> HIDE DEF base
    <3>1. 1 \in Int /\ Len(inputs) - 1 \in Int
      BY <1>1
    <3> QED BY <2>3, <3>1, SubSeqProperties DEF base
  <2> HIDE DEF base
  <2>5. /\ Len(base) = Len(inputs) - 1
        /\ \A n \in 1..Len(base) : n \in 1..Len(inputs) /\ base[n] = inputs[n]
    <3>1. Len(base) = Len(inputs) - 1
      <4>1. Len(inputs) \in Nat /\ Len(inputs) > 0
        BY <1>1, <2>2
      <4>2. Len(base) = IF 1 <= Len(inputs) - 1 THEN Len(inputs) - 1 - 1 + 1 ELSE 0
        BY <2>4
      <4>3. ASSUME NEW l \in Nat, l > 0 PROVE (IF 1 <= l - 1 THEN l - 1 - 1 + 1 ELSE 0) = l - 1
        BY <4>3
      <4> QED BY <4>1, <4>2, <4>3
    <3>2. ASSUME NEW n \in 1..Len(base) PROVE n \in 1..Len(inputs) /\ base[n] = inputs[n]
      <4>1. n \in 1..Len(inputs) /\ 1 + n - 1 = n /\ n \in 1..(Len(inputs) - 1 - 1 + 1)
        BY <1>1, <3>1
      <4> QED BY <2>4, <4>1
    <3> QED BY <3>1, <3>2
  <2>6. Coalesced(input) = base
    BY <2>1 DEF base
  <2> QED BY <1>1, <1>2, <2>2, <2>4, <2>5, <2>6
<1>3. CASE ~(input.type = "abs" /\ inputs # <<>> /\ Last(inputs).type = "abs")
  <2>1. Coalesced(input) = inputs
    BY <1>3 DEF Coalesced
  <2> QED BY <1>1, <2>1
<1> QED BY <1>2, <1>3

LEMMA PushKeeps ==
    ASSUME IInv, NEW input \in Inputs, PushInput(input), input.type = "click" => input.at = Aimed
    PROVE  IInv'
<1> DEFINE base == Coalesced(input)
           m == Len(base)
<1>1. /\ base \in Seq(Inputs) /\ m \in Nat
      /\ \A n \in 1..m : n \in 1..Len(inputs) /\ base[n] = inputs[n]
      /\ base = inputs \/ (input.type = "abs" /\ m = Len(inputs) - 1)
  BY CoalescedIs DEF IInv
<1>2. inputs' = Append(base, input) /\ UNCHANGED <<pointer, lostInput>>
  BY DEF PushInput
<1>3. /\ inputs' \in Seq(Inputs) /\ Len(inputs') = m + 1
      /\ \A n \in 1..m : inputs'[n] = inputs[n]
      /\ inputs'[m + 1] = input
  <2> HIDE DEF base
  <2> QED BY <1>1, <1>2
<1> HIDE DEF base, m
<1>4. InputTypes'
  BY <1>2, <1>3 DEF IInv, InputTypes
<1>5. LastMotion'
  <2>1. CASE input.type = "abs"
    BY <1>1, <1>3, <2>1 DEF LastMotion, Moves
  <2>2. CASE input.type # "abs"
    <3>1. m = Len(inputs)
      BY <1>1, <2>2 DEF m
    <3> QED BY <1>1, <1>3, <2>2, <3>1 DEF IInv, LastMotion, Moves
  <2> QED BY <2>1, <2>2
<1>6. ClicksAim'
  <2> SUFFICES ASSUME ~lostInput, NEW n \in 1..(m + 1), inputs'[n].type = "click",
                      NEW x, x = inputs'[n].at
               PROVE  AtBefore(n, x)'
    BY <1>2, <1>3 DEF ClicksAim
  <2>0. AtBefore(n, x) => AtBefore(n, x)'
    <3>1. \A k \in 1..(n - 1) : k \in 1..m /\ inputs'[k] = inputs[k]
      BY <1>1, <1>3
    <3>2. ASSUME NEW k \in 1..(n - 1), Moves(k), inputs[k].at = x, \A l \in (k + 1)..(n - 1) : ~Moves(l)
          PROVE  AtBefore(n, x)'
      <4>1. Moves(k)' /\ inputs'[k].at = x
        BY <3>1, <3>2 DEF Moves
      <4>2. \A l \in (k + 1)..(n - 1) : ~Moves(l)'
        <5>1. \A l \in (k + 1)..(n - 1) : l \in 1..(n - 1)
          BY <3>2, <1>1
        <5> QED BY <5>1, <3>1, <3>2 DEF Moves
      <4> QED BY <4>1, <4>2 DEF AtBefore
    <3>3. CASE (\A k \in 1..(n - 1) : ~Moves(k)) /\ x = pointer
      <4>1. (\A k \in 1..(n - 1) : ~Moves(k)') /\ x = pointer'
        BY <3>1, <3>3, <1>2 DEF Moves
      <4> QED BY <4>1 DEF AtBefore
    <3> QED BY <3>2, <3>3 DEF AtBefore
  <2>1. CASE n \in 1..m
    <3>1. AtBefore(n, x)
      BY <1>1, <1>3, <2>1 DEF IInv, ClicksAim
    <3> QED BY <2>0, <3>1
  <2>2. CASE n = m + 1
    <3>1. m = Len(inputs) /\ input.at = Aimed
      BY <1>1, <1>3, <2>2 DEF m
    <3>2. AtBefore(Len(inputs) + 1, input.at)
      BY <3>1, AimedBefore DEF IInv
    <3> QED BY <1>3, <2>0, <2>2, <3>1, <3>2
  <2> QED BY <1>1, <2>1, <2>2
<1> QED BY <1>4, <1>5, <1>6 DEF IInv

(* The worker hands over the first input; a motion moves the pointer. *)
LEMMA TakeKeeps ==
    ASSUME IInv, inputs # <<>>, inputs' = Tail(inputs),
           lostInput' \/ (~lostInput /\ pointer' = IF Moves(1) THEN inputs[1].at ELSE pointer),
           pointer' \in Nat, lostInput' \in BOOLEAN
    PROVE  IInv'
<1>1. /\ inputs \in Seq(Inputs) /\ Len(inputs) \in Nat /\ Len(inputs) > 0
      /\ inputs' \in Seq(Inputs) /\ Len(inputs') = Len(inputs) - 1
      /\ \A n \in 1..Len(inputs') : inputs'[n] = inputs[n + 1]
  BY DEF IInv, InputTypes
<1>2. \A n \in 1..Len(inputs') : Moves(n)' <=> Moves(n + 1)
  BY <1>1 DEF Moves
<1>3. LastMotion'
  <2>1. CASE \A k \in 1..Len(inputs) : ~Moves(k)
    BY <1>1, <1>2, <2>1 DEF LastMotion
  <2>2. ASSUME NEW k \in 1..Len(inputs), Moves(k), \A l \in (k + 1)..Len(inputs) : ~Moves(l)
        PROVE  LastMotion'
    <3>1. CASE k = 1
      BY <1>1, <1>2, <2>2, <3>1 DEF LastMotion
    <3>2. CASE k # 1
      <4>1. k - 1 \in 1..Len(inputs') /\ Moves(k - 1)'
        BY <1>1, <1>2, <2>2, <3>2
      <4>2. \A l \in ((k - 1) + 1)..Len(inputs') : ~Moves(l)'
        BY <1>1, <1>2, <2>2, <3>2
      <4> QED BY <4>1, <4>2 DEF LastMotion
    <3> QED BY <3>1, <3>2
  <2> QED BY <2>1, <2>2 DEF IInv, LastMotion
<1>4. ClicksAim'
  <2> SUFFICES ASSUME ~lostInput', NEW n \in 1..Len(inputs'), inputs'[n].type = "click",
                      NEW x, x = inputs'[n].at
               PROVE  AtBefore(n, x)'
    BY DEF ClicksAim
  <2>1. AtBefore(n + 1, x) /\ n + 1 - 1 = n /\ n \in Nat
    BY <1>1 DEF IInv, ClicksAim
  <2>2. pointer' = IF Moves(1) THEN inputs[1].at ELSE pointer
    OBVIOUS
  <2>3. CASE (\A k \in 1..n : ~Moves(k)) /\ x = pointer
    BY <1>1, <1>2, <2>1, <2>2, <2>3 DEF AtBefore
  <2>4. ASSUME NEW k \in 1..n, Moves(k), inputs[k].at = x, \A l \in (k + 1)..n : ~Moves(l)
        PROVE  AtBefore(n, x)'
    <3>1. CASE k = 1
      <4>1. \A l \in 1..(n - 1) : ~Moves(l)'
        BY <1>1, <1>2, <2>1, <2>4, <3>1
      <4> QED BY <2>2, <2>4, <3>1, <4>1 DEF AtBefore
    <3>2. CASE k # 1
      <4>1. k - 1 \in 1..(n - 1) /\ Moves(k - 1)' /\ inputs'[k - 1].at = x
        BY <1>1, <1>2, <2>1, <2>4, <3>2
      <4>2. \A l \in ((k - 1) + 1)..(n - 1) : ~Moves(l)'
        BY <1>1, <1>2, <2>1, <2>4, <3>2
      <4> QED BY <4>1, <4>2 DEF AtBefore
    <3> QED BY <3>1, <3>2
  <2> QED BY <2>1, <2>3, <2>4 DEF AtBefore
<1> QED BY <1>1, <1>3, <1>4 DEF IInv, InputTypes

LEMMA InputNext == IInv /\ [DisplayInputNext]_displayInputVars => IInv'
<1> SUFFICES ASSUME IInv, [DisplayInputNext]_displayInputVars PROVE IInv'
  OBVIOUS
<1>1. ASSUME NEW at \in Positions, PushInput([type |-> "abs", at |-> at]) PROVE IInv'
  BY <1>1, PushKeeps, DisplayInputAssumption DEF Inputs
<1>2. CASE PushInput([type |-> "click", at |-> Aimed])
  <2>1. Aimed \in Nat
    <3>1. AtBefore(Len(inputs) + 1, Aimed) /\ Len(inputs) + 1 - 1 = Len(inputs)
      BY AimedBefore DEF IInv, InputTypes
    <3>2. pointer \in Nat /\ \A k \in 1..Len(inputs) : inputs[k].at \in Nat
      <4>1. pointer \in Nat /\ \A k \in 1..Len(inputs) : inputs[k] \in Inputs
        BY DEF IInv, InputTypes
      <4> QED BY <4>1 DEF Inputs
    <3> QED BY <3>1, <3>2 DEF AtBefore
  <2> QED BY <1>2, <2>1, PushKeeps DEF Inputs
<1>3. CASE PushInput([type |-> "clipboard_set", at |-> 0])
  BY <1>3, PushKeeps DEF Inputs
<1>4. ASSUME NEW taken \in BOOLEAN, Forward(taken) PROVE IInv'
  <2>1. /\ inputs # <<>> /\ inputs' = Tail(inputs) /\ Head(inputs) = inputs[1]
        /\ Head(inputs) \in Inputs /\ pointer \in Nat /\ lostInput \in BOOLEAN
    BY <1>4 DEF Forward, IInv, InputTypes
  <2> QED BY <1>4, <2>1, TakeKeeps DEF Forward, Moves, Inputs
<1>5. CASE SetClipboard
  <2>1. /\ inputs # <<>> /\ inputs' = Tail(inputs) /\ Head(inputs) = inputs[1] /\ ~Moves(1)
        /\ UNCHANGED <<pointer, lostInput>> /\ pointer \in Nat /\ lostInput \in BOOLEAN
    BY <1>5 DEF SetClipboard, IInv, InputTypes, Moves
  <2> QED BY <2>1, TakeKeeps
<1>6. CASE UNCHANGED pointerVars
  BY <1>6 DEF pointerVars, IInv, InputTypes, LastMotion, ClicksAim, AtBefore, Moves
<1> QED BY <1>1, <1>2, <1>3, <1>4, <1>5, <1>6 DEF DisplayInputNext, GuestGrab, GuestCopies, QemuGrabs,
        displayInputVars

(* A click hits what its viewer pointed at, for any number of inputs and any queue. *)
THEOREM ClicksLand == DisplayInputSpec => []ClickLands
<1>1. IInv => ClickLands
  <2> SUFFICES ASSUME IInv, inputs # <<>>, Head(inputs).type = "click", ~lostInput
               PROVE  Head(inputs).at = pointer
    BY DEF ClickLands
  <2>1. Head(inputs) = inputs[1] /\ 1 \in 1..Len(inputs)
    BY DEF IInv, InputTypes
  <2>2. AtBefore(1, inputs[1].at)
    BY <2>1 DEF IInv, ClicksAim
  <2> QED BY <2>1, <2>2 DEF AtBefore
<1> QED BY <1>1, InputInit, InputNext, PTL DEF DisplayInputSpec

-----------------------------------------------------------------------------
(* The guest agent (Client::connect, run_execution_inner) *)

Gated == {"connect", "sync", "osinfo", "answer"}
Progress == [pc : {"none", "queued", "sleep", "check", "done"} \cup Gated,
             run : Nat, pid : Nat, sync : Nat, tries : Nat,
             result : {"none", "run_changed", "failed", "completed", "execution_timeout",
                       "available", "not_responding"},
             from : Nat \cup Execs]
Commands == [name : {"sync", "exec", "status", "osinfo", "info"}, arg : Nat \cup Execs]
Answers == [name : {"sync", "pid", "exited", "runs", "osinfo", "info"}, of : Nat \cup Execs]
Processes == [job : Nat \cup Execs, run : Nat]

AgentTypes ==
    /\ live \in Nat /\ runs \in Nat /\ stamp \in Nat
    /\ asked \in Seq(Commands) /\ replies \in Seq(Answers) /\ procs \in Seq(Processes)
    /\ conn \in AgentClients \cup {Nobody}
    /\ agentGate \in Execs \cup {Nobody}
    /\ cl \in [AgentClients -> Progress]

(* A job talks to the agent under the gate, and only of its own run. *)
GateHeld ==
    /\ \A j \in Execs : cl[j].pc \in Gated <=> agentGate = j
    /\ \A j \in Execs : agentGate = j => live \in {0, cl[j].run}

(* The client that is connected is between its number and its answer; only a
   job asks for the shell. *)
Talking ==
    conn # Nobody =>
        /\ cl[conn].pc \in {"sync", "osinfo", "answer"} /\ live # 0
        /\ cl[conn].pc = "osinfo" => conn \in Execs

NumbersGiven ==
    /\ \A n \in 1..Len(asked) : asked[n].name = "sync" => asked[n].arg \in 0..stamp
    /\ \A n \in 1..Len(replies) : replies[n].name = "sync" => replies[n].of \in 0..stamp

Asks(n) == asked[n] = [name |-> "sync", arg |-> stamp]
Returns(n) == replies[n] = [name |-> "sync", of |-> stamp]

(* The number of the client is the last thing in the channel, and there once. *)
OwnNumber ==
    \/ /\ asked # <<>> /\ Asks(Len(asked))
       /\ \A n \in 1..(Len(asked) - 1) : ~Asks(n)
       /\ \A n \in 1..Len(replies) : ~Returns(n)
    \/ /\ asked = <<>> /\ replies # <<>> /\ Returns(Len(replies))
       /\ \A n \in 1..(Len(replies) - 1) : ~Returns(n)

Synchronising ==
    (conn # Nobody /\ cl[conn].pc = "sync") => cl[conn].sync = stamp /\ OwnNumber

Owned(pid, j, run) == pid \in 1..Len(procs) /\ procs[pid].job = j /\ procs[pid].run = run

(* Past its number, a job finds no command and no process but its own. *)
Synchronised ==
    (conn \in Execs /\ cl[conn].pc # "sync" /\ cl[conn].pid = 0) =>
        /\ \A n \in 1..Len(asked) : asked[n].name = "exec" => asked[n].arg = conn
        /\ \A n \in 1..Len(replies) :
              replies[n].name = "pid" => Owned(replies[n].of, conn, cl[conn].run)

Followed ==
    \A j \in Execs :
        /\ cl[j].pid # 0 => Owned(cl[j].pid, j, cl[j].run)
        /\ cl[j].pc = "none" => cl[j].pid = 0

AInv == AgentTypes /\ GateHeld /\ Talking /\ NumbersGiven /\ Synchronising /\ Synchronised /\ Followed

LEMMA AgentInit == GuestAgentInit => AInv
<1> SUFFICES ASSUME GuestAgentInit PROVE AInv
  OBVIOUS
<1>1. /\ live = 1 /\ runs = 1 /\ stamp = 0 /\ conn = Nobody /\ agentGate = Nobody
      /\ asked = <<>> /\ replies = <<>> /\ procs = <<>>
      /\ cl = [c \in AgentClients |-> NoClient]
  BY DEF GuestAgentInit
<1>2. NoClient \in Progress /\ NoClient.pc = "none" /\ NoClient.pid = 0
  BY DEF NoClient, Progress
<1>3. AgentTypes
  BY <1>1, <1>2 DEF AgentTypes
<1>4. 1..Len(asked) = {} /\ 1..Len(replies) = {}
  BY <1>1
<1>5. \A j \in Execs : cl[j] = NoClient
  BY <1>1 DEF AgentClients
<1>6. GateHeld /\ Followed
  BY <1>2, <1>5, <1>1, GuestAgentAssumption DEF GateHeld, Followed, Gated
<1>7. Talking /\ NumbersGiven /\ Synchronising /\ Synchronised
  BY <1>1, <1>4, GuestAgentAssumption DEF Talking, NumbersGiven, Synchronising, Synchronised
<1> QED BY <1>3, <1>6, <1>7 DEF AInv

(* A client goes on while QEMU serves another one, or none any more. *)
LEMMA ClientStep ==
    ASSUME AInv, NEW c \in AgentClients, NEW r \in Progress,
           cl' = [cl EXCEPT ![c] = r],
           UNCHANGED <<live, runs, stamp, procs, asked>>,
           conn' # c, (conn' = conn /\ replies' = replies) \/ conn' = Nobody,
           replies' \in Seq(Answers),
           \A n \in 1..Len(replies') : \E k \in 1..Len(replies) : replies'[n] = replies[k],
           \/ agentGate' = agentGate
           \/ agentGate = Nobody /\ agentGate' = c /\ c \in Execs
           \/ agentGate = c /\ agentGate' = Nobody,
           c \in Execs => /\ r.pc \in Gated <=> agentGate' = c
                          /\ agentGate' = c => live \in {0, r.run}
                          /\ r.pid # 0 => Owned(r.pid, c, r.run)
                          /\ r.pc = "none" => r.pid = 0
    PROVE  AInv'
<1>1. AgentTypes'
  BY GuestAgentAssumption DEF AInv, AgentTypes, AgentClients
<1>2. cl'[c] = r /\ \A d \in AgentClients : d # c => cl'[d] = cl[d]
  BY DEF AInv, AgentTypes
<1>3. Execs \subseteq AgentClients /\ Nobody \notin AgentClients
  BY GuestAgentAssumption DEF AgentClients
<1>4. GateHeld'
  <2> SUFFICES ASSUME NEW j \in Execs
               PROVE  (cl'[j].pc \in Gated <=> agentGate' = j)
                      /\ (agentGate' = j => live' \in {0, cl'[j].run})
    BY DEF GateHeld
  <2>1. CASE j = c
    BY <1>2, <2>1
  <2>2. CASE j # c
    BY <1>2, <1>3, <2>2 DEF AInv, GateHeld
  <2> QED BY <2>1, <2>2
<1>5. Talking'
  BY <1>2 DEF AInv, AgentTypes, Talking
<1>6. NumbersGiven'
  BY DEF AInv, NumbersGiven
<1>7. Synchronising'
  <2> SUFFICES ASSUME conn' # Nobody, cl'[conn'].pc = "sync"
               PROVE  cl'[conn'].sync = stamp' /\ OwnNumber'
    BY DEF Synchronising
  <2>1. conn' = conn /\ replies' = replies /\ cl'[conn'] = cl[conn]
    BY <1>2 DEF AInv, AgentTypes
  <2> QED BY <2>1 DEF AInv, Synchronising, OwnNumber, Asks, Returns
<1>8. Synchronised'
  <2>1. CASE conn' \notin Execs
    BY <2>1 DEF Synchronised
  <2>2. CASE conn' \in Execs
    <3>1. conn' = conn /\ replies' = replies /\ cl'[conn'] = cl[conn] /\ procs' = procs
      BY <1>2, <1>3, <2>2 DEF AInv, AgentTypes
    <3> QED BY <3>1 DEF AInv, Synchronised, Owned
  <2> QED BY <2>1, <2>2
<1>9. Followed'
  <2> SUFFICES ASSUME NEW j \in Execs
               PROVE  ((cl[j].pid # 0 => Owned(cl[j].pid, j, cl[j].run))
                       /\ (cl[j].pc = "none" => cl[j].pid = 0))'
    BY DEF Followed
  <2>1. CASE j = c
    BY <1>2, <2>1 DEF Owned
  <2>2. CASE j # c
    BY <1>2, <1>3, <2>2 DEF AInv, Followed, Owned
  <2> QED BY <2>1, <2>2
<1> QED BY <1>1, <1>4, <1>5, <1>6, <1>7, <1>8, <1>9 DEF AInv

(* A client that QEMU does not serve moves; the channel does not. *)
LEMMA QuietStep ==
    ASSUME AInv, NEW c \in AgentClients, NEW r \in Progress,
           cl' = [cl EXCEPT ![c] = r],
           UNCHANGED <<live, runs, channelVars, stamp, procs>>,
           cl[c].pc \notin {"sync", "osinfo", "answer"},
           \/ agentGate' = agentGate
           \/ agentGate = Nobody /\ agentGate' = c /\ c \in Execs,
           c \in Execs => /\ r.pc \in Gated <=> agentGate' = c
                          /\ agentGate' = c => live \in {0, r.run}
                          /\ r.pid # 0 => Owned(r.pid, c, r.run)
                          /\ r.pc = "none" => r.pid = 0
    PROVE  AInv'
<1>1. conn' # c
  BY GuestAgentAssumption DEF AInv, Talking, channelVars, AgentClients
<1>2. replies' \in Seq(Answers) /\ \A n \in 1..Len(replies') : \E k \in 1..Len(replies) : replies'[n] = replies[k]
  BY DEF AInv, AgentTypes, channelVars
<1>3. conn' = conn /\ replies' = replies /\ UNCHANGED <<live, runs, stamp, procs, asked>>
  BY DEF channelVars
<1> QED BY <1>1, <1>2, <1>3, ClientStep

(* The client is done with the agent. *)
LEMMA EndStep ==
    ASSUME AInv, NEW c \in AgentClients, NEW pc \in {"check", "done"}, Ends(c, pc, "failed"),
           UNCHANGED <<live, runs, asked, stamp, procs>>
    PROVE  AInv'
<1> DEFINE r == [NoClient EXCEPT !.pc = pc, !.run = cl[c].run, !.pid = cl[c].pid,
                                 !.from = cl[c].from, !.result = "failed"]
<1>1. cl[c] \in Progress
  BY DEF AInv, AgentTypes
<1>2. r \in Progress /\ r.pc = pc /\ r.pid = cl[c].pid /\ r.run = cl[c].run
  BY <1>1 DEF Progress, NoClient
<1>3. cl' = [cl EXCEPT ![c] = r]
  BY DEF Ends
<1> HIDE DEF r
<1>4. conn' # c /\ ((conn' = conn /\ replies' = replies) \/ conn' = Nobody)
  BY GuestAgentAssumption DEF Ends, Hangs, AgentClients
<1>5. replies' \in Seq(Answers) /\ \A n \in 1..Len(replies') : \E k \in 1..Len(replies) : replies'[n] = replies[k]
  <2>1. CASE replies' = replies
    BY <2>1 DEF AInv, AgentTypes
  <2>2. CASE replies' = <<>>
    <3>1. 1..Len(replies') = {} /\ replies' \in Seq(Answers)
      BY <2>2
    <3> QED BY <3>1
  <2> QED BY <2>1, <2>2 DEF Ends, Hangs
<1>6. agentGate' = agentGate \/ (agentGate = c /\ agentGate' = Nobody)
  BY DEF Ends, GateAfter
<1>7. agentGate' # c
  BY GuestAgentAssumption DEF Ends, GateAfter, AgentClients
<1>8. c \in Execs => (r.pid # 0 => Owned(r.pid, c, r.run))
  BY <1>2 DEF AInv, Followed
<1> QED BY <1>2, <1>3, <1>4, <1>5, <1>6, <1>7, <1>8, ClientStep DEF Gated

(* The elements of a queue that was shortened or extended. *)
LEMMA TailIs ==
    ASSUME NEW S, NEW seq \in Seq(S), seq # <<>>
    PROVE  /\ Head(seq) = seq[1] /\ Head(seq) \in S /\ Tail(seq) \in Seq(S)
           /\ Len(seq) \in Nat /\ Len(seq) > 0 /\ Len(Tail(seq)) = Len(seq) - 1
           /\ \A n \in 1..Len(Tail(seq)) : n + 1 \in 1..Len(seq) /\ Tail(seq)[n] = seq[n + 1]
OBVIOUS

LEMMA AppendIs ==
    ASSUME NEW S, NEW seq \in Seq(S), NEW x \in S
    PROVE  /\ Append(seq, x) \in Seq(S) /\ Append(seq, x) # <<>>
           /\ Len(seq) \in Nat /\ Len(Append(seq, x)) = Len(seq) + 1
           /\ Append(seq, x)[Len(seq) + 1] = x
           /\ \A n \in 1..Len(Append(seq, x)) :
                 \/ n \in 1..Len(seq) /\ Append(seq, x)[n] = seq[n]
                 \/ n = Len(seq) + 1 /\ Append(seq, x)[n] = x
OBVIOUS

LEMMA ReadAnswerKeeps == ASSUME AInv, NEW c \in AgentClients, ReadAnswer(c) PROVE AInv'
<1> DEFINE answer == Head(replies)
           next == [NoClient EXCEPT !.pc = "sleep", !.run = cl[c].run]
<1>1. cl[c] \in Progress /\ cl \in [AgentClients -> Progress] /\ conn = c /\ cl[c].pc = "answer"
  BY DEF AInv, AgentTypes, ReadAnswer
<1>2. /\ answer = replies[1] /\ answer \in Answers /\ replies' \in Seq(Answers) /\ 1 \in 1..Len(replies)
      /\ \A n \in 1..Len(replies') : \E k \in 1..Len(replies) : replies'[n] = replies[k]
  <2>1. replies \in Seq(Answers) /\ replies # <<>> /\ replies' = Tail(replies)
    BY DEF AInv, AgentTypes, ReadAnswer
  <2> QED BY <2>1, TailIs
<1>3. (answer.name = "pid" /\ c \in Execs /\ cl[c].pid = 0) => Owned(answer.of, c, cl[c].run)
  BY <1>1, <1>2 DEF AInv, Synchronised
<1>4. next \in Progress /\ next.run = cl[c].run /\ next.pid = 0 /\ next.pc = "sleep"
  BY <1>1 DEF Progress, NoClient
<1>5. /\ conn' = Nobody /\ agentGate' = GateAfter(c)
      /\ UNCHANGED <<live, runs, asked, stamp, procs>>
      /\ CASE answer.name = "pid" /\ c \in Execs /\ cl[c].pid = 0 ->
                 cl' = [cl EXCEPT ![c] = [next EXCEPT !.pid = answer.of]]
            [] answer.name = "runs" /\ c \in Execs /\ cl[c].pid # 0 ->
                 cl' = [cl EXCEPT ![c] = [next EXCEPT !.pid = cl[c].pid]]
            [] answer.name = "exited" /\ c \in Execs /\ cl[c].pid # 0 ->
                 cl' = [cl EXCEPT ![c] = [next EXCEPT !.pc = "done", !.pid = cl[c].pid, !.result = "completed"]]
            [] answer.name = "info" /\ c \in Readers ->
                 cl' = [cl EXCEPT ![c] = [next EXCEPT !.pc = "check", !.from = answer.of]]
            [] OTHER -> cl' = [cl EXCEPT ![c] = [next EXCEPT !.pc = IF c \in Readers THEN "check" ELSE "done",
                                                             !.pid = cl[c].pid, !.result = "failed"]]
  BY DEF ReadAnswer
<1> HIDE DEF answer, next
<1>6. \E r \in Progress : /\ cl' = [cl EXCEPT ![c] = r] /\ r.run = cl[c].run
                          /\ r.pc \in {"sleep", "done", "check"}
                          /\ c \in Execs /\ r.pid # 0 => Owned(r.pid, c, r.run)
  <2>0. cl[c].pid \in Nat /\ answer.of \in Nat \cup Execs
    BY <1>1, <1>2 DEF Progress, Answers
  <2>1. CASE answer.name = "pid" /\ c \in Execs /\ cl[c].pid = 0
    <3> DEFINE r == [next EXCEPT !.pid = answer.of]
    <3>1. Owned(answer.of, c, cl[c].run) /\ answer.of \in Nat
      BY <1>3, <2>1 DEF Owned
    <3>2. r \in Progress /\ r.run = cl[c].run /\ r.pc = "sleep" /\ r.pid = answer.of
      BY <1>4, <3>1 DEF Progress
    <3>3. cl' = [cl EXCEPT ![c] = r]
      BY <1>5, <2>1
    <3> QED BY <3>1, <3>2, <3>3
  <2>2. ASSUME NEW r \in Progress, cl' = [cl EXCEPT ![c] = r], r.run = cl[c].run,
               r.pc \in {"sleep", "done", "check"}, r.pid \in {0, cl[c].pid}
        PROVE  \E s \in Progress : /\ cl' = [cl EXCEPT ![c] = s] /\ s.run = cl[c].run
                                   /\ s.pc \in {"sleep", "done", "check"}
                                   /\ c \in Execs /\ s.pid # 0 => Owned(s.pid, c, s.run)
    BY <2>2 DEF AInv, Followed
  <2>3. CASE answer.name = "runs" /\ c \in Execs /\ cl[c].pid # 0
    <3> DEFINE r == [next EXCEPT !.pid = cl[c].pid]
    <3>1. r \in Progress /\ r.run = cl[c].run /\ r.pc \in {"sleep", "done", "check"} /\ r.pid \in {0, cl[c].pid}
      BY <1>4, <2>0 DEF Progress
    <3>2. cl' = [cl EXCEPT ![c] = r]
      BY <1>5, <2>3
    <3> HIDE DEF r
    <3> QED BY <2>2, <3>1, <3>2
  <2>4. CASE answer.name = "exited" /\ c \in Execs /\ cl[c].pid # 0
    <3> DEFINE r == [next EXCEPT !.pc = "done", !.pid = cl[c].pid, !.result = "completed"]
    <3>1. r \in Progress /\ r.run = cl[c].run /\ r.pc \in {"sleep", "done", "check"} /\ r.pid \in {0, cl[c].pid}
      BY <1>4, <2>0 DEF Progress
    <3>2. cl' = [cl EXCEPT ![c] = r]
      BY <1>5, <2>4
    <3> HIDE DEF r
    <3> QED BY <2>2, <3>1, <3>2
  <2>5. CASE answer.name = "info" /\ c \in Readers
    <3> DEFINE r == [next EXCEPT !.pc = "check", !.from = answer.of]
    <3>1. r \in Progress /\ r.run = cl[c].run /\ r.pc \in {"sleep", "done", "check"} /\ r.pid \in {0, cl[c].pid}
      BY <1>4, <2>0 DEF Progress
    <3>2. cl' = [cl EXCEPT ![c] = r]
      BY <1>5, <2>5, GuestAgentAssumption
    <3> HIDE DEF r
    <3> QED BY <2>2, <3>1, <3>2
  <2>6. CASE /\ ~(answer.name = "pid" /\ c \in Execs /\ cl[c].pid = 0)
             /\ ~(answer.name = "runs" /\ c \in Execs /\ cl[c].pid # 0)
             /\ ~(answer.name = "exited" /\ c \in Execs /\ cl[c].pid # 0)
             /\ ~(answer.name = "info" /\ c \in Readers)
    <3> DEFINE r == [next EXCEPT !.pc = IF c \in Readers THEN "check" ELSE "done",
                                !.pid = cl[c].pid, !.result = "failed"]
    <3>1. r \in Progress /\ r.run = cl[c].run /\ r.pc \in {"sleep", "done", "check"} /\ r.pid \in {0, cl[c].pid}
      BY <1>4, <2>0 DEF Progress
    <3>2. cl' = [cl EXCEPT ![c] = r]
      BY <1>5, <2>6
    <3> HIDE DEF r
    <3> QED BY <2>2, <3>1, <3>2
  <2> QED BY <2>1, <2>3, <2>4, <2>5, <2>6
<1>7. PICK r \in Progress : /\ cl' = [cl EXCEPT ![c] = r] /\ r.run = cl[c].run
                            /\ r.pc \in {"sleep", "done", "check"}
                            /\ c \in Execs /\ r.pid # 0 => Owned(r.pid, c, r.run)
  BY <1>6
<1>8. conn' # c /\ agentGate' # c /\ (agentGate' = agentGate \/ (agentGate = c /\ agentGate' = Nobody))
  BY <1>5, GuestAgentAssumption DEF GateAfter, AgentClients
<1> QED BY <1>2, <1>5, <1>7, <1>8, ClientStep DEF Gated

(* The socket is that of the run the job belongs to: it has the gate. *)
LEMMA ConnectKeeps == ASSUME AInv, NEW c \in AgentClients, ConnectAgent(c) PROVE AInv'
<1> DEFINE own == [name |-> "sync", arg |-> stamp + 1]
           r == [cl[c] EXCEPT !.pc = "sync", !.sync = stamp + 1, !.tries = 0]
<1>1. /\ cl[c] \in Progress /\ cl \in [AgentClients -> Progress] /\ cl[c].pc = "connect" /\ live # 0
      /\ conn' = c /\ stamp' = stamp + 1 /\ stamp \in Nat /\ asked' = Append(asked, own)
      /\ UNCHANGED <<live, runs, replies, agentGate, procs>>
  BY DEF AInv, AgentTypes, ConnectAgent, Ask
<1>2. r \in Progress /\ r.pc = "sync" /\ r.sync = stamp + 1 /\ r.run = cl[c].run /\ r.pid = cl[c].pid
  <2>1. ASSUME NEW m \in Nat
        PROVE  LET p == [cl[c] EXCEPT !.pc = "sync", !.sync = m, !.tries = 0]
               IN  p \in Progress /\ p.pc = "sync" /\ p.sync = m /\ p.run = cl[c].run /\ p.pid = cl[c].pid
    BY <1>1 DEF Progress, Gated
  <2>2. stamp + 1 \in Nat
    BY <1>1
  <2> QED BY <2>1, <2>2
<1>3. cl' = [cl EXCEPT ![c] = r]
  BY DEF ConnectAgent
<1> HIDE DEF r
<1>4. own \in Commands /\ own.name = "sync" /\ own.arg = stamp + 1
  BY <1>1 DEF Commands
<1>5. /\ asked \in Seq(Commands) /\ asked' \in Seq(Commands) /\ asked' # <<>> /\ Len(asked) \in Nat
      /\ Len(asked') = Len(asked) + 1 /\ asked'[Len(asked) + 1] = own
      /\ \A n \in 1..Len(asked') : \/ n \in 1..Len(asked) /\ asked'[n] = asked[n]
                                   \/ n = Len(asked) + 1 /\ asked'[n] = own
  <2> HIDE DEF own
  <2> QED BY <1>1, <1>4, AppendIs DEF AInv, AgentTypes
<1>6. cl'[c] = r /\ \A d \in AgentClients : d # c => cl'[d] = cl[d]
  BY <1>1, <1>3
<1>7. AgentTypes'
  BY <1>1, <1>2, <1>3, <1>5 DEF AInv, AgentTypes
<1>8. GateHeld'
  <2> SUFFICES ASSUME NEW j \in Execs
               PROVE  ((cl[j].pc \in Gated <=> agentGate = j) /\ (agentGate = j => live \in {0, cl[j].run}))'
    BY DEF GateHeld
  <2>1. j \in AgentClients
    BY DEF AgentClients
  <2>2. cl'[j].run = cl[j].run /\ (cl'[j].pc \in Gated <=> cl[j].pc \in Gated)
    BY <1>1, <1>2, <1>6, <2>1 DEF Gated
  <2> QED BY <1>1, <2>2 DEF AInv, GateHeld
<1>9. Talking'
  BY <1>1, <1>2, <1>6 DEF Talking
<1>10. NumbersGiven'
  <2>1. ASSUME NEW n \in 1..Len(asked'), asked'[n].name = "sync" PROVE asked'[n].arg \in 0..stamp'
    <3>1. CASE n \in 1..Len(asked) /\ asked'[n] = asked[n]
      <4>1. asked[n].arg \in 0..stamp
        BY <2>1, <3>1 DEF AInv, NumbersGiven
      <4> QED BY <1>1, <3>1, <4>1
    <3>2. CASE asked'[n] = own
      BY <1>1, <1>4, <3>2
    <3> QED BY <1>5, <3>1, <3>2
  <2>2. ASSUME NEW n \in 1..Len(replies), replies[n].name = "sync" PROVE replies[n].of \in 0..stamp'
    <3>1. replies[n].of \in 0..stamp
      BY <2>2 DEF AInv, NumbersGiven
    <3> QED BY <1>1, <3>1
  <2> QED BY <1>1, <2>1, <2>2 DEF NumbersGiven
<1>11. Synchronising'
  <2>1. Asks(Len(asked))'
    <3>1. asked'[Len(asked')] = own
      BY <1>5
    <3> QED BY <1>1, <3>1 DEF Asks
  <2>2. ASSUME NEW n \in 1..(Len(asked') - 1) PROVE ~Asks(n)'
    <3>1. n \in 1..Len(asked) /\ asked'[n] = asked[n]
      BY <1>5
    <3>2. asked[n].name = "sync" => asked[n].arg \in 0..stamp
      BY <3>1 DEF AInv, NumbersGiven
    <3>3. asked[n] # own
      BY <1>1, <1>4, <3>2
    <3> QED BY <1>1, <3>1, <3>3 DEF Asks
  <2>3. ASSUME NEW n \in 1..Len(replies') PROVE ~Returns(n)'
    <3>1. replies[n].name = "sync" => replies[n].of \in 0..stamp
      BY <1>1 DEF AInv, NumbersGiven
    <3>2. replies[n] # [name |-> "sync", of |-> stamp + 1]
      BY <1>1, <3>1
    <3> QED BY <1>1, <3>2 DEF Returns
  <2>4. OwnNumber'
    BY <1>5, <2>1, <2>2, <2>3 DEF OwnNumber
  <2> QED BY <1>1, <1>2, <1>6, <2>4 DEF Synchronising
<1>12. Synchronised'
  BY <1>1, <1>2, <1>6 DEF Synchronised
<1>13. Followed'
  <2> SUFFICES ASSUME NEW j \in Execs
               PROVE  ((cl[j].pid # 0 => Owned(cl[j].pid, j, cl[j].run))
                       /\ (cl[j].pc = "none" => cl[j].pid = 0))'
    BY DEF Followed
  <2>1. j \in AgentClients
    BY DEF AgentClients
  <2>2. cl'[j].run = cl[j].run /\ cl'[j].pid = cl[j].pid /\ (cl'[j].pc = "none" => cl[j].pc = "none")
    BY <1>2, <1>6, <2>1
  <2> QED BY <1>1, <2>2 DEF AInv, Followed, Owned
<1> QED BY <1>7, <1>8, <1>9, <1>10, <1>11, <1>12, <1>13 DEF AInv

(* What stays of the invariant when the client that is served goes on with it. *)
LEMMA ServedStep ==
    ASSUME AInv, NEW c \in AgentClients, NEW r \in Progress, conn = c,
           cl' = [cl EXCEPT ![c] = r], UNCHANGED <<live, runs, conn, agentGate, stamp, procs>>,
           r.pc \in {"sync", "osinfo", "answer"}, r.pc = "osinfo" => c \in Execs,
           r.run = cl[c].run, r.pid = cl[c].pid,
           asked' \in Seq(Commands), replies' \in Seq(Answers)
    PROVE  AgentTypes' /\ GateHeld' /\ Talking' /\ Followed' /\ cl'[conn'] = r
<1>1. cl[c].pc \in {"sync", "osinfo", "answer"} /\ live # 0 /\ Nobody # c
  BY GuestAgentAssumption DEF AInv, Talking, AgentClients
<1>2. cl'[c] = r /\ \A d \in AgentClients : d # c => cl'[d] = cl[d]
  BY DEF AInv, AgentTypes
<1>3. AgentTypes'
  BY DEF AInv, AgentTypes
<1>4. GateHeld'
  <2> SUFFICES ASSUME NEW j \in Execs
               PROVE  ((cl[j].pc \in Gated <=> agentGate = j) /\ (agentGate = j => live \in {0, cl[j].run}))'
    BY DEF GateHeld
  <2>1. j \in AgentClients
    BY DEF AgentClients
  <2>2. cl'[j].run = cl[j].run /\ (cl'[j].pc \in Gated <=> cl[j].pc \in Gated)
    BY <1>1, <1>2, <2>1 DEF Gated
  <2> QED BY <2>2 DEF AInv, GateHeld
<1>5. Talking'
  BY <1>1, <1>2 DEF Talking
<1>6. Followed'
  <2> SUFFICES ASSUME NEW j \in Execs
               PROVE  ((cl[j].pid # 0 => Owned(cl[j].pid, j, cl[j].run))
                       /\ (cl[j].pc = "none" => cl[j].pid = 0))'
    BY DEF Followed
  <2>1. j \in AgentClients
    BY DEF AgentClients
  <2>2. cl'[j].run = cl[j].run /\ cl'[j].pid = cl[j].pid /\ (cl'[j].pc = "none" => cl[j].pc = "none")
    BY <1>2, <2>1
  <2> QED BY <2>2 DEF AInv, Followed, Owned
<1> QED BY <1>2, <1>3, <1>4, <1>5, <1>6

LEMMA SyncMatched ==
    ASSUME AInv, NEW c \in AgentClients, NEW auto \in BOOLEAN, ReadSync(c, auto), InSync(c)
    PROVE  AInv'
<1> DEFINE r == [cl[c] EXCEPT !.pc = IF auto THEN "osinfo" ELSE "answer"]
           q == Question(c, auto)
<1>1. /\ cl[c] \in Progress /\ cl \in [AgentClients -> Progress] /\ conn = c /\ cl[c].pc = "sync"
      /\ replies # <<>> /\ replies \in Seq(Answers) /\ asked \in Seq(Commands)
      /\ (auto => c \in Execs /\ cl[c].pid = 0)
      /\ asked' = Append(asked, q) /\ replies' = Tail(replies) /\ cl' = [cl EXCEPT ![c] = r]
      /\ UNCHANGED <<live, runs, conn, agentGate, stamp, procs>>
      /\ Nobody # c
  BY GuestAgentAssumption DEF AInv, AgentTypes, ReadSync, AgentClients
<1>2. r \in Progress /\ r.pc = (IF auto THEN "osinfo" ELSE "answer") /\ r.run = cl[c].run /\ r.pid = cl[c].pid
  BY <1>1 DEF Progress, Gated
<1> HIDE DEF r
<1>3. /\ replies[1] = [name |-> "sync", of |-> stamp]
      /\ OwnNumber
  <2>1. cl[c].sync = stamp /\ OwnNumber
    BY <1>1 DEF AInv, Synchronising
  <2> QED BY <1>1, <2>1, TailIs DEF InSync
<1>4. asked = <<>> /\ Len(replies) = 1
  <2>1. Len(replies) \in Nat /\ Len(replies) > 0
    BY <1>1, TailIs
  <2>2. Returns(1)
    BY <1>3 DEF Returns
  <2>3. ~ \A n \in 1..Len(replies) : ~Returns(n)
    BY <2>1, <2>2
  <2>4. asked = <<>> /\ \A n \in 1..(Len(replies) - 1) : ~Returns(n)
    BY <1>3, <2>3 DEF OwnNumber
  <2>5. ~(1 \in 1..(Len(replies) - 1))
    BY <2>2, <2>4
  <2> QED BY <2>1, <2>4, <2>5
<1>5. q \in Commands /\ q.name # "sync" /\ (c \in Execs /\ cl[c].pid = 0 => q.arg = c)
  <2>1. cl[c].pid \in Nat
    BY <1>1 DEF Progress
  <2>2. c \in Readers => c \notin Execs
    BY GuestAgentAssumption
  <2>3. CASE c \in Readers
    <3>1. q = [name |-> "info", arg |-> 0]
      BY <2>2, <2>3 DEF Question
    <3> QED BY <2>2, <2>3, <3>1 DEF Commands
  <2>4. CASE c \in Execs /\ cl[c].pid # 0
    <3>1. q = [name |-> "status", arg |-> cl[c].pid]
      BY <2>2, <2>4 DEF Question
    <3> QED BY <2>1, <2>4, <3>1 DEF Commands
  <2>5. CASE c \in Execs /\ cl[c].pid = 0
    <3>1. q = [name |-> IF auto THEN "osinfo" ELSE "exec", arg |-> c]
      BY <2>2, <2>5 DEF Question
    <3> QED BY <2>5, <3>1 DEF Commands
  <2> QED BY <2>3, <2>4, <2>5 DEF AgentClients
<1> HIDE DEF q
<1>6. /\ asked' \in Seq(Commands) /\ replies' \in Seq(Answers)
      /\ 1..Len(replies') = {}
      /\ \A n \in 1..Len(asked') : asked'[n] = q
  <2>1. replies' \in Seq(Answers) /\ Len(replies') = 0
    BY <1>1, <1>4, TailIs
  <2>2. /\ asked' \in Seq(Commands)
        /\ \A n \in 1..Len(asked') : n \in 1..Len(asked) \/ asked'[n] = q
    BY <1>1, <1>5, AppendIs
  <2>3. 1..Len(asked) = {}
    BY <1>4
  <2> QED BY <2>1, <2>2, <2>3
<1>7. AgentTypes' /\ GateHeld' /\ Talking' /\ Followed' /\ cl'[conn'] = r
  BY <1>1, <1>2, <1>6, ServedStep
<1>8. NumbersGiven'
  BY <1>5, <1>6 DEF NumbersGiven
<1>9. Synchronising'
  BY <1>2, <1>7 DEF Synchronising
<1>10. Synchronised'
  BY <1>1, <1>2, <1>5, <1>6, <1>7 DEF Synchronised
<1> QED BY <1>7, <1>8, <1>9, <1>10 DEF AInv

(* What comes before the number is skipped. *)
LEMMA SyncSkipped ==
    ASSUME AInv, NEW c \in AgentClients, conn = c, cl[c].pc = "sync",
           cl' = [cl EXCEPT ![c].tries = @ + 1], replies # <<>>, replies' = Tail(replies),
           UNCHANGED <<live, runs, asked, conn, agentGate, stamp, procs>>, ~InSync(c)
    PROVE  AInv'
<1> DEFINE r == [cl[c] EXCEPT !.tries = @ + 1]
<1>1. /\ cl[c] \in Progress /\ cl \in [AgentClients -> Progress] /\ replies \in Seq(Answers)
      /\ asked \in Seq(Commands) /\ cl' = [cl EXCEPT ![c] = r] /\ Nobody # c
  BY GuestAgentAssumption DEF AInv, AgentTypes, AgentClients
<1>2. r \in Progress /\ r.pc = "sync" /\ r.run = cl[c].run /\ r.pid = cl[c].pid /\ r.sync = cl[c].sync
  <2>1. ASSUME NEW m \in Nat
        PROVE  LET p == [cl[c] EXCEPT !.tries = m]
               IN  /\ p \in Progress /\ p.pc = cl[c].pc /\ p.sync = cl[c].sync
                   /\ p.run = cl[c].run /\ p.pid = cl[c].pid
    BY <1>1 DEF Progress
  <2>2. cl[c].tries + 1 \in Nat
    BY <1>1 DEF Progress
  <2> QED BY <2>1, <2>2
<1> HIDE DEF r
<1>3. /\ replies' \in Seq(Answers) /\ Len(replies) \in Nat /\ Len(replies) > 0
      /\ Len(replies') = Len(replies) - 1 /\ Head(replies) = replies[1]
      /\ \A n \in 1..Len(replies') : n + 1 \in 1..Len(replies) /\ replies'[n] = replies[n + 1]
  BY <1>1, TailIs
<1>4. AgentTypes' /\ GateHeld' /\ Talking' /\ Followed' /\ cl'[conn'] = r
  BY <1>1, <1>2, <1>3, ServedStep
<1>5. NumbersGiven'
  BY <1>3 DEF AInv, NumbersGiven
<1>6. cl[c].sync = stamp /\ OwnNumber /\ ~Returns(1)
  <2>1. cl[c].sync = stamp /\ OwnNumber
    BY <1>1 DEF AInv, Synchronising
  <2> QED BY <1>3, <2>1 DEF InSync, Returns
<1>7. OwnNumber'
  <2>1. CASE /\ asked # <<>> /\ Asks(Len(asked))
             /\ \A n \in 1..(Len(asked) - 1) : ~Asks(n)
             /\ \A n \in 1..Len(replies) : ~Returns(n)
    <3>1. \A n \in 1..Len(replies') : ~Returns(n)'
      BY <1>3, <2>1 DEF Returns
    <3> QED BY <2>1, <3>1 DEF OwnNumber, Asks
  <2>2. CASE /\ asked = <<>> /\ replies # <<>> /\ Returns(Len(replies))
             /\ \A n \in 1..(Len(replies) - 1) : ~Returns(n)
    <3>1. Len(replies) # 1
      BY <1>6, <2>2
    <3>2. Len(replies') \in 1..Len(replies') /\ Len(replies') + 1 = Len(replies) /\ replies' # <<>>
      <4>1. ASSUME NEW l \in Nat, l > 0, l # 1 PROVE l - 1 \in 1..(l - 1) /\ (l - 1) + 1 = l /\ l - 1 # 0
        BY <4>1
      <4>2. Len(replies') # 0
        BY <1>3, <3>1, <4>1
      <4> QED BY <1>3, <3>1, <4>1, <4>2
    <3>3. Returns(Len(replies))'
      BY <1>3, <2>2, <3>2 DEF Returns
    <3>4. ASSUME NEW n \in 1..(Len(replies') - 1) PROVE ~Returns(n)'
      <4>1. n \in 1..Len(replies') /\ n + 1 \in 1..(Len(replies) - 1)
        BY <1>3
      <4> QED BY <1>3, <2>2, <4>1 DEF Returns
    <3> QED BY <2>2, <3>2, <3>3, <3>4 DEF OwnNumber
  <2> QED BY <1>6, <2>1, <2>2 DEF OwnNumber
<1>8. Synchronising'
  BY <1>2, <1>4, <1>6, <1>7 DEF Synchronising
<1>9. Synchronised'
  BY <1>2, <1>4 DEF Synchronised
<1> QED BY <1>4, <1>5, <1>8, <1>9 DEF AInv

LEMMA ChooseShellKeeps ==
    ASSUME AInv, NEW c \in AgentClients, NEW late \in BOOLEAN, ChooseShell(c, late)
    PROVE  AInv'
<1> DEFINE r == [cl[c] EXCEPT !.pc = "answer"]
           q == [name |-> "exec", arg |-> c]
<1>1. /\ cl[c] \in Progress /\ cl \in [AgentClients -> Progress] /\ replies \in Seq(Answers)
      /\ asked \in Seq(Commands) /\ cl' = [cl EXCEPT ![c] = r] /\ Nobody # c
      /\ conn = c /\ cl[c].pc = "osinfo" /\ asked' = Append(asked, q)
      /\ replies' = IF late THEN replies ELSE Tail(replies)
      /\ (~late => replies # <<>>)
      /\ UNCHANGED <<live, runs, conn, agentGate, stamp, procs>>
  BY GuestAgentAssumption DEF AInv, AgentTypes, AgentClients, ChooseShell, Ask
<1>2. r \in Progress /\ r.pc = "answer" /\ r.run = cl[c].run /\ r.pid = cl[c].pid
  BY <1>1 DEF Progress, Gated
<1> HIDE DEF r
<1>3. /\ replies' \in Seq(Answers)
      /\ \A n \in 1..Len(replies') : \E k \in 1..Len(replies) : replies'[n] = replies[k]
  <2>1. CASE late
    BY <1>1, <2>1
  <2>2. CASE ~late
    BY <1>1, <2>2, TailIs
  <2> QED BY <2>1, <2>2
<1>4. c \in Execs
  BY <1>1 DEF AInv, Talking
<1>5. q \in Commands /\ q.name = "exec" /\ q.arg = c
  BY <1>4 DEF Commands
<1> HIDE DEF q
<1>6. /\ asked' \in Seq(Commands)
      /\ \A n \in 1..Len(asked') : (n \in 1..Len(asked) /\ asked'[n] = asked[n]) \/ asked'[n] = q
  BY <1>1, <1>5, AppendIs
<1>7. AgentTypes' /\ GateHeld' /\ Talking' /\ Followed' /\ cl'[conn'] = r
  BY <1>1, <1>2, <1>3, <1>6, ServedStep
<1>8. NumbersGiven'
  <2>1. \A n \in 1..Len(asked') : asked'[n].name = "sync" => asked'[n].arg \in 0..stamp'
    BY <1>1, <1>5, <1>6 DEF AInv, NumbersGiven
  <2>2. \A n \in 1..Len(replies') : replies'[n].name = "sync" => replies'[n].of \in 0..stamp'
    BY <1>1, <1>3 DEF AInv, NumbersGiven
  <2> QED BY <2>1, <2>2 DEF NumbersGiven
<1>9. Synchronising'
  BY <1>2, <1>7 DEF Synchronising
<1>10. Synchronised'
  <2> SUFFICES ASSUME cl[c].pid = 0
               PROVE  /\ \A n \in 1..Len(asked') : asked'[n].name = "exec" => asked'[n].arg = c
                      /\ \A n \in 1..Len(replies') :
                            replies'[n].name = "pid" => Owned(replies[n].of, c, cl[c].run)'
    BY <1>1, <1>2, <1>7 DEF Synchronised
  <2>1. /\ \A n \in 1..Len(asked) : asked[n].name = "exec" => asked[n].arg = c
        /\ \A n \in 1..Len(replies) : replies[n].name = "pid" => Owned(replies[n].of, c, cl[c].run)
    BY <1>1, <1>4 DEF AInv, Synchronised
  <2>2. cl'[c].run = cl[c].run /\ procs' = procs
    BY <1>1, <1>2
  <2>3. \A n \in 1..Len(asked') : asked'[n].name = "exec" => asked'[n].arg = c
    BY <1>5, <1>6, <2>1
  <2>4. \A n \in 1..Len(replies') : replies'[n].name = "pid" => Owned(replies[n].of, c, cl[c].run)'
    BY <1>3, <2>1, <2>2 DEF Owned
  <2> QED BY <2>3, <2>4
<1> QED BY <1>7, <1>8, <1>9, <1>10 DEF AInv

(* The agent's answer to what it is asked. *)
LEMMA AnswersKeep == ASSUME AInv, NEW exited \in BOOLEAN, AgentAnswers(exited) PROVE AInv'
<1> DEFINE cmd == Head(asked)
<1>1. /\ asked \in Seq(Commands) /\ replies \in Seq(Answers) /\ procs \in Seq(Processes)
      /\ asked # <<>> /\ asked' = Tail(asked)
      /\ UNCHANGED <<live, runs, conn, agentGate, stamp, cl>>
      /\ live \in Nat /\ (exited => cmd.name = "status")
  BY DEF AInv, AgentTypes, AgentAnswers
<1>2. /\ cmd = asked[1] /\ cmd \in Commands /\ asked' \in Seq(Commands)
      /\ Len(asked) \in Nat /\ Len(asked) > 0 /\ Len(asked') = Len(asked) - 1
      /\ \A n \in 1..Len(asked') : n + 1 \in 1..Len(asked) /\ asked'[n] = asked[n + 1]
  BY <1>1, TailIs
<1>3. PICK answer :
         /\ answer = CASE cmd.name = "sync" -> [name |-> "sync", of |-> cmd.arg]
                       [] cmd.name = "exec" -> [name |-> "pid", of |-> Len(procs) + 1]
                       [] cmd.name = "status" -> [name |-> IF exited THEN "exited" ELSE "runs", of |-> cmd.arg]
                       [] OTHER -> [name |-> cmd.name, of |-> live]
         /\ replies' = Append(replies, answer)
         /\ procs' = IF cmd.name = "exec" THEN Append(procs, [job |-> cmd.arg, run |-> live]) ELSE procs
  BY DEF AgentAnswers
<1> HIDE DEF cmd
<1>4. cmd.name \in {"sync", "exec", "status", "osinfo", "info"} /\ cmd.arg \in Nat \cup Execs
  BY <1>2 DEF Commands
<1>5. /\ answer \in Answers
      /\ cmd.name = "sync" => answer = [name |-> "sync", of |-> cmd.arg]
      /\ answer.name = "sync" => cmd.name = "sync" /\ answer.of = cmd.arg
      /\ answer.name = "pid" => cmd.name = "exec" /\ answer.of = Len(procs) + 1
  <2>1. CASE cmd.name = "sync"
    <3>1. answer = [name |-> "sync", of |-> cmd.arg]
      BY <1>3, <2>1
    <3> QED BY <1>4, <2>1, <3>1 DEF Answers
  <2>2. CASE cmd.name = "exec"
    <3>1. answer = [name |-> "pid", of |-> Len(procs) + 1]
      BY <1>3, <2>2
    <3>2. Len(procs) + 1 \in Nat
      BY <1>1
    <3> QED BY <2>2, <3>1, <3>2 DEF Answers
  <2>3. CASE cmd.name = "status"
    <3>1. answer = [name |-> IF exited THEN "exited" ELSE "runs", of |-> cmd.arg]
      BY <1>3, <2>3
    <3> QED BY <1>4, <2>3, <3>1 DEF Answers
  <2>4. CASE cmd.name \in {"osinfo", "info"}
    <3>1. answer = [name |-> cmd.name, of |-> live]
      BY <1>3, <2>4
    <3> QED BY <1>1, <2>4, <3>1 DEF Answers
  <2> QED BY <1>4, <2>1, <2>2, <2>3, <2>4
<1>6. /\ replies' \in Seq(Answers) /\ replies' # <<>> /\ Len(replies) \in Nat
      /\ Len(replies') = Len(replies) + 1 /\ replies'[Len(replies) + 1] = answer
      /\ \A n \in 1..Len(replies') : \/ n \in 1..Len(replies) /\ replies'[n] = replies[n]
                                     \/ n = Len(replies) + 1 /\ replies'[n] = answer
  BY <1>1, <1>3, <1>5, AppendIs
<1>7. /\ procs' \in Seq(Processes)
      /\ \A p, j, run : Owned(p, j, run) => Owned(p, j, run)'
      /\ cmd.name = "exec" => /\ Len(procs) + 1 \in 1..Len(procs')
                              /\ procs'[Len(procs) + 1] = [job |-> cmd.arg, run |-> live]
  <2>1. CASE cmd.name = "exec"
    <3> DEFINE p == [job |-> cmd.arg, run |-> live]
    <3>1. p \in Processes
      BY <1>1, <1>4 DEF Processes
    <3>2. procs' = Append(procs, p)
      BY <1>3, <2>1
    <3> HIDE DEF p
    <3>3. /\ procs' \in Seq(Processes) /\ Len(procs) \in Nat /\ Len(procs') = Len(procs) + 1
          /\ procs'[Len(procs) + 1] = p
          /\ \A n \in 1..Len(procs) : n \in 1..Len(procs') /\ procs'[n] = procs[n]
      BY <1>1, <3>1, <3>2
    <3> QED BY <3>3 DEF Owned, p
  <2>2. CASE cmd.name # "exec"
    BY <1>1, <1>3, <2>2 DEF Owned
  <2> QED BY <2>1, <2>2
<1>8. AgentTypes'
  BY <1>1, <1>2, <1>6, <1>7 DEF AInv, AgentTypes
<1>9. GateHeld' /\ Talking'
  BY <1>1 DEF AInv, GateHeld, Talking
<1>10. Followed'
  BY <1>1, <1>7 DEF AInv, Followed
<1>11. NumbersGiven'
  <2>1. \A n \in 1..Len(asked') : asked'[n].name = "sync" => asked'[n].arg \in 0..stamp'
    BY <1>1, <1>2 DEF AInv, NumbersGiven
  <2>2. answer.name = "sync" => answer.of \in 0..stamp
    <3>1. 1 \in 1..Len(asked)
      BY <1>2
    <3> QED BY <1>2, <1>5, <3>1 DEF AInv, NumbersGiven
  <2>3. ASSUME NEW n \in 1..Len(replies'), replies'[n].name = "sync" PROVE replies'[n].of \in 0..stamp'
    BY <1>1, <1>6, <2>2, <2>3 DEF AInv, NumbersGiven
  <2> QED BY <2>1, <2>3 DEF NumbersGiven
<1>12. Synchronising'
  <2> SUFFICES ASSUME conn # Nobody, cl[conn].pc = "sync" PROVE OwnNumber'
    BY <1>1 DEF AInv, Synchronising
  <2>1. /\ asked # <<>> /\ Asks(Len(asked))
        /\ \A n \in 1..(Len(asked) - 1) : ~Asks(n)
        /\ \A n \in 1..Len(replies) : ~Returns(n)
    BY <1>1 DEF AInv, Synchronising, OwnNumber
  <2>2. CASE Len(asked) = 1
    <3>1. asked' = <<>>
      BY <1>2, <2>2
    <3>2. answer = [name |-> "sync", of |-> stamp]
      BY <1>2, <1>5, <2>1, <2>2 DEF Asks
    <3>3. Returns(Len(replies))'
      BY <1>1, <1>6, <3>2 DEF Returns
    <3>4. ASSUME NEW n \in 1..(Len(replies') - 1) PROVE ~Returns(n)'
      <4>1. n \in 1..Len(replies) /\ n \in 1..Len(replies') /\ n # Len(replies) + 1
        BY <1>6
      <4> QED BY <1>1, <1>6, <2>1, <4>1 DEF Returns
    <3> QED BY <1>6, <3>1, <3>3, <3>4 DEF OwnNumber
  <2>3. CASE Len(asked) # 1
    <3>1. Len(asked') \in 1..Len(asked') /\ Len(asked') + 1 = Len(asked) /\ asked' # <<>>
      <4>1. ASSUME NEW l \in Nat, l > 0, l # 1 PROVE l - 1 \in 1..(l - 1) /\ (l - 1) + 1 = l /\ l - 1 # 0
        BY <4>1
      <4>2. Len(asked') # 0
        BY <1>2, <2>3, <4>1
      <4> QED BY <1>2, <2>3, <4>1, <4>2
    <3>2. Asks(Len(asked))'
      BY <1>1, <1>2, <2>1, <3>1 DEF Asks
    <3>3. ASSUME NEW n \in 1..(Len(asked') - 1) PROVE ~Asks(n)'
      <4>1. n \in 1..Len(asked') /\ n + 1 \in 1..(Len(asked) - 1)
        BY <1>2
      <4> QED BY <1>1, <1>2, <2>1, <4>1 DEF Asks
    <3>4. answer # [name |-> "sync", of |-> stamp]
      <4>1. ~Asks(1)
        <5>1. ASSUME NEW l \in Nat, l > 0, l # 1 PROVE 1 \in 1..(l - 1)
          BY <5>1
        <5>2. 1 \in 1..(Len(asked) - 1)
          BY <1>2, <2>3, <5>1
        <5> QED BY <2>1, <5>2
      <4>2. cmd # [name |-> "sync", arg |-> stamp]
        BY <1>2, <4>1 DEF Asks
      <4>3. cmd = [name |-> cmd.name, arg |-> cmd.arg]
        BY <1>2 DEF Commands
      <4>4. ASSUME answer = [name |-> "sync", of |-> stamp] PROVE FALSE
        <5>1. cmd.name = "sync" /\ cmd.arg = stamp
          BY <1>5, <4>4
        <5> QED BY <4>2, <4>3, <5>1
      <4> QED BY <4>4
    <3>5. ASSUME NEW n \in 1..Len(replies') PROVE ~Returns(n)'
      BY <1>1, <1>6, <2>1, <3>4 DEF Returns
    <3> QED BY <3>1, <3>2, <3>3, <3>5 DEF OwnNumber
  <2> QED BY <2>2, <2>3
<1>13. Synchronised'
  <2> SUFFICES ASSUME conn \in Execs, cl[conn].pc # "sync", cl[conn].pid = 0
               PROVE  (/\ \A n \in 1..Len(asked) : asked[n].name = "exec" => asked[n].arg = conn
                       /\ \A n \in 1..Len(replies) :
                             replies[n].name = "pid" => Owned(replies[n].of, conn, cl[conn].run))'
    BY <1>1 DEF Synchronised
  <2>1. /\ \A n \in 1..Len(asked) : asked[n].name = "exec" => asked[n].arg = conn
        /\ \A n \in 1..Len(replies) :
              replies[n].name = "pid" => Owned(replies[n].of, conn, cl[conn].run)
    BY DEF AInv, Synchronised
  <2>2. live = cl[conn].run
    <3>1. cl[conn].pc \in Gated /\ live # 0
      BY GuestAgentAssumption DEF AInv, Talking, Gated
    <3> QED BY <3>1 DEF AInv, GateHeld
  <2>3. \A n \in 1..Len(asked') : asked'[n].name = "exec" => asked'[n].arg = conn'
    BY <1>1, <1>2, <2>1
  <2>4. answer.name = "pid" => Owned(answer.of, conn, cl[conn].run)'
    <3> SUFFICES ASSUME answer.name = "pid" PROVE Owned(answer.of, conn, cl[conn].run)'
      OBVIOUS
    <3>1. cmd.name = "exec" /\ answer.of = Len(procs) + 1 /\ 1 \in 1..Len(asked)
      BY <1>2, <1>5
    <3>2. cmd.arg = conn
      BY <1>2, <2>1, <3>1
    <3> QED BY <1>1, <1>7, <2>2, <3>1, <3>2 DEF Owned
  <2>5. ASSUME NEW n \in 1..Len(replies'), replies'[n].name = "pid"
        PROVE  Owned(replies[n].of, conn, cl[conn].run)'
    <3>1. CASE n \in 1..Len(replies) /\ replies'[n] = replies[n]
      <4>1. Owned(replies[n].of, conn, cl[conn].run)
        BY <2>1, <2>5, <3>1
      <4> QED BY <1>1, <1>7, <3>1, <4>1
    <3>2. CASE replies'[n] = answer
      BY <2>4, <2>5, <3>2
    <3> QED BY <1>6, <3>1, <3>2
  <2> QED BY <2>3, <2>5
<1> QED BY <1>8, <1>9, <1>10, <1>11, <1>12, <1>13 DEF AInv

(* The end of a run empties the channel; the next run waits for the gate. *)
LEMMA RunStep ==
    ASSUME AInv, conn' = Nobody, live' \in Nat, runs' \in Nat,
           live' = 0 \/ agentGate = Nobody, UNCHANGED <<agentGate, stamp, procs, cl>>,
           asked' \in Seq(Commands), replies' \in Seq(Answers), NumbersGiven'
    PROVE  AInv'
<1>1. AgentTypes'
  BY DEF AInv, AgentTypes
<1>2. GateHeld'
  BY GuestAgentAssumption DEF AInv, GateHeld
<1>3. Talking' /\ Synchronising' /\ Synchronised'
  BY GuestAgentAssumption DEF Talking, Synchronising, Synchronised
<1>4. Followed'
  BY DEF AInv, Followed, Owned
<1> QED BY <1>1, <1>2, <1>3, <1>4 DEF AInv

LEMMA AgentNext == AInv /\ [GuestAgentNext]_agentVars => AInv'
<1> SUFFICES ASSUME AInv, [GuestAgentNext]_agentVars PROVE AInv'
  OBVIOUS
<1>0. /\ \A c \in AgentClients : cl[c] \in Progress
      /\ Execs \subseteq AgentClients /\ Readers \subseteq AgentClients
      /\ live \in Nat /\ runs \in Nat /\ agentGate \in Execs \cup {Nobody}
      /\ \A j \in Execs : j # Nobody /\ j \notin Readers
  BY GuestAgentAssumption DEF AInv, AgentTypes, AgentClients
<1>13. live \in Nat
  BY <1>0
<1>1. CASE RunEnds
  <2>1. asked' = <<>> /\ replies' = <<>> /\ 1..Len(asked') = {} /\ 1..Len(replies') = {}
    BY <1>1 DEF RunEnds
  <2>2. NumbersGiven'
    BY <2>1 DEF NumbersGiven
  <2>3. asked' \in Seq(Commands) /\ replies' \in Seq(Answers)
    BY <2>1
  <2> QED BY <1>0, <1>1, <2>2, <2>3, RunStep DEF RunEnds
<1>2. CASE RunStarts
  <2>1. conn = Nobody /\ asked \in Seq(Commands) /\ replies \in Seq(Answers)
    BY <1>2 DEF RunStarts, AInv, AgentTypes, Talking
  <2>2. NumbersGiven'
    BY <1>2 DEF RunStarts, channelVars, AInv, NumbersGiven
  <2> QED BY <1>0, <1>2, <2>1, <2>2, RunStep DEF RunStarts, channelVars
<1>3. ASSUME NEW exited \in BOOLEAN, AgentAnswers(exited) PROVE AInv'
  BY <1>3, AnswersKeep
<1>4. ASSUME NEW j \in Execs, StartExecution(j) PROVE AInv'
  <2>0. cl[j] \in Progress
    BY <1>0
  <2> DEFINE r == [cl[j] EXCEPT !.pc = "queued", !.run = live]
  <2>1. r \in Progress /\ r.pc = "queued" /\ r.pid = cl[j].pid
    BY <1>13, <2>0 DEF Progress
  <2>2. cl' = [cl EXCEPT ![j] = r] /\ agentGate = Nobody /\ cl[j].pc = "none"
    BY <1>4 DEF StartExecution
  <2> HIDE DEF r
  <2>3. r.pid = 0
    BY <2>1, <2>2 DEF AInv, Followed
  <2> QED BY <1>0, <1>4, <2>1, <2>2, <2>3, QuietStep DEF StartExecution, Gated
<1>5. ASSUME NEW j \in Execs, TakeGate(j) PROVE AInv'
  <2>0. cl[j] \in Progress
    BY <1>0
  <2>1. /\ cl[j].pc \in {"queued", "sleep"} /\ agentGate = Nobody
        /\ cl[j].pid # 0 => Owned(cl[j].pid, j, cl[j].run)
    BY <1>5 DEF TakeGate, AInv, Followed
  <2>2. CASE live = cl[j].run
    <3> DEFINE r == [cl[j] EXCEPT !.pc = "connect"]
    <3>1. r \in Progress /\ r.pc = "connect" /\ r.pid = cl[j].pid /\ r.run = cl[j].run
      BY <1>13, <2>0 DEF Progress, Gated
    <3>2. cl' = [cl EXCEPT ![j] = r] /\ agentGate' = j
      BY <1>5, <2>2 DEF TakeGate
    <3> HIDE DEF r
    <3>3. r.pc \in Gated
      BY <3>1 DEF Gated
    <3>4. UNCHANGED <<live, runs, channelVars, stamp, procs>> /\ j \in AgentClients /\ r.pc # "none"
      BY <1>0, <1>5, <3>1 DEF TakeGate
    <3>5. cl[j].pc \notin {"sync", "osinfo", "answer"}
      BY <2>1
    <3> QED BY <2>1, <2>2, <3>1, <3>2, <3>3, <3>4, <3>5, QuietStep
  <2>3. CASE live # cl[j].run
    <3> DEFINE r == [cl[j] EXCEPT !.pc = "done", !.result = "run_changed"]
    <3>1. r \in Progress /\ r.pc = "done" /\ r.pid = cl[j].pid /\ r.run = cl[j].run
      BY <1>13, <2>0 DEF Progress
    <3>2. cl' = [cl EXCEPT ![j] = r] /\ agentGate' = agentGate
      BY <1>5, <2>3 DEF TakeGate
    <3> HIDE DEF r
    <3> QED BY <1>0, <1>5, <2>1, <3>1, <3>2, QuietStep DEF TakeGate, Gated
  <2> QED BY <2>2, <2>3
<1>6. ASSUME NEW j \in Execs, ExecutionTimeout(j) PROVE AInv'
  <2>0. cl[j] \in Progress
    BY <1>0
  <2> DEFINE r == [cl[j] EXCEPT !.pc = "done", !.result = "execution_timeout"]
  <2>1. r \in Progress /\ r.pc = "done" /\ r.pid = cl[j].pid /\ r.run = cl[j].run
    BY <1>13, <2>0 DEF Progress
  <2>2. cl' = [cl EXCEPT ![j] = r] /\ cl[j].pc = "sleep"
    BY <1>6 DEF ExecutionTimeout
  <2> HIDE DEF r
  <2>3. /\ cl[j].pid # 0 => Owned(cl[j].pid, j, cl[j].run)
        /\ agentGate # j
    BY <2>2 DEF AInv, Followed, GateHeld, Gated
  <2> QED BY <1>0, <1>6, <2>1, <2>2, <2>3, QuietStep DEF ExecutionTimeout, Gated
<1>7. ASSUME NEW j \in Execs, EvictJob(j) PROVE AInv'
  <2>0. agentGate # j
    BY <1>7 DEF EvictJob, AInv, GateHeld, Gated
  <2>1. NoClient \in Progress /\ NoClient.pc = "none" /\ NoClient.pid = 0
    BY DEF NoClient, Progress
  <2> QED BY <1>0, <1>7, <2>0, <2>1, QuietStep DEF EvictJob, Gated
<1>8. ASSUME NEW r \in Readers, StartInformation(r) PROVE AInv'
  <2>0. cl[r] \in Progress
    BY <1>0
  <2> DEFINE s == [cl[r] EXCEPT !.pc = "connect", !.run = live]
  <2>1. s \in Progress
    BY <1>13, <2>0 DEF Progress, Gated
  <2>2. cl' = [cl EXCEPT ![r] = s]
    BY <1>8 DEF StartInformation
  <2> HIDE DEF s
  <2> QED BY <1>0, <1>8, <2>1, <2>2, QuietStep DEF StartInformation
<1>9. ASSUME NEW r \in Readers, CheckRun(r) PROVE AInv'
  <2>0. cl[r] \in Progress
    BY <1>0
  <2> DEFINE result == IF live # cl[r].run THEN "run_changed"
                       ELSE IF cl[r].from # 0 THEN "available" ELSE "not_responding"
             s == [cl[r] EXCEPT !.pc = "done", !.result = result]
  <2>1. s \in Progress
    BY <1>13, <2>0 DEF Progress
  <2>2. cl' = [cl EXCEPT ![r] = s]
    BY <1>9 DEF CheckRun
  <2> HIDE DEF s
  <2> QED BY <1>0, <1>9, <2>1, <2>2, QuietStep DEF CheckRun
<1>10. ASSUME NEW c \in AgentClients, AgentTimeout(c) PROVE AInv'
  BY <1>10, EndStep DEF AgentTimeout
<1>11. ASSUME NEW c \in AgentClients, NEW auto \in BOOLEAN, ReadSync(c, auto) PROVE AInv'
  <2>1. CASE InSync(c)
    BY <1>11, <2>1, SyncMatched
  <2>2. CASE ~InSync(c) /\ cl[c].tries + 1 < SyncReplies
    BY <1>11, <2>2, SyncSkipped DEF ReadSync
  <2>3. CASE ~InSync(c) /\ ~(cl[c].tries + 1 < SyncReplies)
    BY <1>11, <2>3, EndStep DEF ReadSync
  <2> QED BY <2>1, <2>2, <2>3
<1>12. CASE UNCHANGED agentVars
  BY <1>12 DEF agentVars, channelVars, AInv, AgentTypes, GateHeld, Talking, NumbersGiven, Synchronising,
               Synchronised, Followed, OwnNumber, Asks, Returns, Owned
<1> QED BY <1>1, <1>2, <1>3, <1>4, <1>5, <1>6, <1>7, <1>8, <1>9, <1>10, <1>11, <1>12, ConnectKeeps,
        ReadAnswerKeeps, ChooseShellKeeps DEF GuestAgentNext

(* A job follows the process of its own command in its own run, for any number
   of jobs, readers and runs, whatever answers an earlier client has left in
   the channel (Client::connect, run_execution_inner). *)
THEOREM JobsFollowTheirOwn == GuestAgentSpec => []OwnProcess
<1>1. AInv => OwnProcess
  BY DEF AInv, Followed, Owned, OwnProcess
<1> QED BY <1>1, AgentInit, AgentNext, PTL DEF GuestAgentSpec

-----------------------------------------------------------------------------
(* The frames that viewers are sent (bin/stream.rs Hub, serve_viewer) *)

Packets == [key : Nat, delta : Nat]
Framed(p) == p # Independent
Continues(a, b) == b.delta = 0 \/ b = [a EXCEPT !.delta = @ + 1]

Connections == [on : BOOLEAN, ready : BOOLEAN, initial : Seq(Packets), queue : Seq(Packets),
                lagged : BOOLEAN, last : Packets]

StreamTypes ==
    /\ frames \in Packets /\ bootstrap \in Seq(Packets)
    /\ viewer \in [Viewers -> Connections]

(* A group of pictures: frames, each decodable after the one before. *)
Chained(s) ==
    \A i \in 1..Len(s) : Framed(s[i]) /\ (i # 1 => Continues(s[i - 1], s[i]))

Grouped ==
    bootstrap # <<>> =>
        Chained(bootstrap) /\ bootstrap[1].delta = 0 /\ bootstrap[Len(bootstrap)] = frames

(* What a connection will have been sent before its queue: no frame at all, if
   it still waits for a keyframe. *)
Anchor(c) ==
    IF c.initial # <<>> THEN c.initial[Len(c.initial)]
    ELSE IF c.ready THEN c.last ELSE Independent

At(a, q, i) == IF i = 0 THEN a ELSE q[i]

(* Every frame of the queue is decodable after the frame before it, and the
   last one is the last that was published. *)
Quiet(q, i, j) == \A k \in 1..Len(q) : i < k /\ k < j => ~Framed(q[k])

Linked(a, q, f) ==
    /\ \A i \in 0..Len(q), j \in 1..Len(q) :
        i < j /\ Framed(At(a, q, i)) /\ Framed(q[j]) /\ Quiet(q, i, j) => Continues(At(a, q, i), q[j])
    /\ \A i \in 0..Len(q) :
        Framed(At(a, q, i)) /\ Quiet(q, i, Len(q) + 1) => At(a, q, i) = f

Streamed(c) ==
    /\ ~c.on => c = NoViewer
    /\ c.initial # <<>> => c.ready /\ Chained(c.initial) /\ Continues(c.last, c.initial[1])
    /\ c.ready /\ c.initial = <<>> => Framed(c.last)
    /\ ~c.lagged => Linked(Anchor(c), c.queue, frames)

StreamInv == StreamTypes /\ Grouped /\ \A v \in Viewers : Streamed(viewer[v])

LEMMA LinkedNone ==
    ASSUME NEW a, NEW f, Framed(a) => a = f
    PROVE  Linked(a, <<>>, f)
<1>1. Len(<<>>) = 0 /\ 1..0 = {} /\ 0..0 = {0}
  OBVIOUS
<1> QED BY <1>1 DEF Linked, At

LEMMA LinkedFirst ==
    ASSUME NEW q \in Seq(Packets), q # <<>>, NEW a, NEW f, Linked(a, q, f), Framed(a), Framed(q[1])
    PROVE  Continues(a, q[1])
<1>1. Len(q) \in Nat /\ Len(q) > 0
  OBVIOUS
<1>2. 0 \in 0..Len(q) /\ 1 \in 1..Len(q) /\ 0 < 1 /\ \A k \in 1..Len(q) : ~(0 < k /\ k < 1)
  BY <1>1
<1>3. At(a, q, 0) = a
  BY DEF At
<1> QED BY <1>2, <1>3 DEF Linked, Quiet

LEMMA LinkedTail ==
    ASSUME NEW q \in Seq(Packets), q # <<>>, NEW a, NEW f, Linked(a, q, f), NEW b,
           b = q[1] \/ (b = a /\ (~Framed(q[1]) \/ ~Framed(a)))
    PROVE  Linked(b, Tail(q), f)
<1> DEFINE t == Tail(q)
           n == Len(q)
           m == Len(t)
<1>1. /\ n \in Nat /\ n > 0 /\ m = n - 1
      /\ \A k \in 1..m : k + 1 \in 1..n /\ t[k] = q[k + 1]
  BY TailIs
<1> HIDE DEF t, n, m
(* The place in q of what is at i in the tail. *)
<1> DEFINE Was(i) == IF i = 0 /\ b # q[1] THEN 0 ELSE i + 1
<1>2. ASSUME NEW i \in 0..m, Framed(At(b, t, i))
      PROVE  /\ Was(i) \in 0..n /\ Was(i) <= i + 1 /\ At(a, q, Was(i)) = At(b, t, i)
             /\ Was(i) = i + 1 \/ (i = 0 /\ Was(i) = 0 /\ ~Framed(q[1]))
  <2>1. CASE i = 0 /\ b # q[1]
    BY <1>1, <1>2, <2>1 DEF At
  <2>2. CASE i = 0 /\ b = q[1]
    BY <1>1, <2>2 DEF At
  <2>3. CASE i # 0
    <3>1. i \in 1..m /\ i + 1 # 0
      BY <1>1, <2>3
    <3> QED BY <1>1, <2>3, <3>1 DEF At
  <2> QED BY <2>1, <2>2, <2>3
<1>3. ASSUME NEW i \in 0..m, Framed(At(b, t, i)), NEW j \in 1..(m + 1), i < j, Quiet(t, i, j)
      PROVE  Quiet(q, Was(i), j + 1) /\ Was(i) < j + 1
  <2>1. Was(i) < j + 1
    BY <1>1, <1>2, <1>3
  <2>2. ASSUME NEW k \in 1..n, Was(i) < k, k < j + 1, Framed(q[k]) PROVE FALSE
    <3>1. CASE k = 1
      BY <1>1, <1>2, <1>3, <2>2, <3>1
    <3>2. CASE k # 1
      <4>1. k - 1 \in 1..m /\ (k - 1) + 1 = k
        BY <1>1, <3>2
      <4>2. t[k - 1] = q[k]
        BY <1>1, <4>1
      <4>3. i < k - 1
        BY <1>1, <1>2, <1>3, <2>2, <3>2
      <4>4. k - 1 < j
        BY <1>1, <1>3, <2>2
      <4> QED BY <1>3, <2>2, <4>1, <4>2, <4>3, <4>4 DEF Quiet, m
    <3> QED BY <3>1, <3>2
  <2> QED BY <2>1, <2>2 DEF Quiet, n
<1>4. ASSUME NEW i \in 0..m, NEW j \in 1..m, i < j, Framed(At(b, t, i)), Framed(t[j]), Quiet(t, i, j)
      PROVE  Continues(At(b, t, i), t[j])
  <2>1. j \in 1..(m + 1) /\ j + 1 \in 1..n /\ t[j] = q[j + 1]
    BY <1>1
  <2>2. Quiet(q, Was(i), j + 1) /\ Was(i) < j + 1
    BY <1>3, <1>4, <2>1
  <2>3. Was(i) \in 0..n /\ At(a, q, Was(i)) = At(b, t, i)
    BY <1>2, <1>4
  <2> HIDE DEF Was
  <2> QED BY <1>4, <2>1, <2>2, <2>3 DEF Linked, n
<1>5. ASSUME NEW i \in 0..m, Framed(At(b, t, i)), Quiet(t, i, m + 1)
      PROVE  At(b, t, i) = f
  <2>1. m + 1 \in 1..(m + 1) /\ i < m + 1 /\ (m + 1) + 1 = n + 1
    BY <1>1
  <2>2. Quiet(q, Was(i), n + 1)
    BY <1>3, <1>5, <2>1
  <2>3. Was(i) \in 0..n /\ At(a, q, Was(i)) = At(b, t, i)
    BY <1>2, <1>5
  <2> HIDE DEF Was
  <2> QED BY <1>5, <2>2, <2>3 DEF Linked, n
<1> QED BY <1>4, <1>5 DEF Linked, t, m

LEMMA LinkedAppend ==
    ASSUME NEW q \in Seq(Packets), NEW p \in Packets, NEW a, NEW f, NEW g, Linked(a, q, f),
           Framed(p) => g = p /\ Continues(f, p), ~Framed(p) => g = f
    PROVE  Linked(a, Append(q, p), g)
<1> DEFINE t == Append(q, p)
           n == Len(q)
           m == Len(t)
<1>1. /\ n \in Nat /\ m = n + 1 /\ t[n + 1] = p
      /\ \A k \in 1..m : (k \in 1..n /\ t[k] = q[k]) \/ (k = n + 1 /\ t[k] = p)
  BY AppendIs
<1> HIDE DEF t, n, m
<1>2. \A k \in 1..n : k \in 1..m /\ t[k] = q[k]
  BY <1>1
<1>3. \A i \in 0..n : At(a, t, i) = At(a, q, i)
  <2>1. \A i \in 0..n : i = 0 \/ i \in 1..n
    BY <1>1
  <2> QED BY <1>2, <2>1 DEF At
<1>4. \A i, j : Quiet(t, i, j) => Quiet(q, i, j)
  BY <1>2 DEF Quiet, n, m
<1>5. ASSUME NEW i \in 0..m, NEW j \in 1..m, i < j, Framed(At(a, t, i)), Framed(t[j]), Quiet(t, i, j)
      PROVE  Continues(At(a, t, i), t[j])
  <2>1. i \in 0..n
    BY <1>1, <1>5
  <2>2. At(a, t, i) = At(a, q, i) /\ Quiet(q, i, j)
    BY <1>3, <1>4, <1>5, <2>1
  <2>3. CASE j \in 1..n
    BY <1>2, <1>5, <2>1, <2>2, <2>3 DEF Linked, n
  <2>4. CASE j = n + 1 /\ t[j] = p
    <3>1. At(a, q, i) = f
      BY <1>5, <2>1, <2>2, <2>4 DEF Linked, n
    <3> QED BY <1>5, <2>2, <2>4, <3>1
  <2> QED BY <1>1, <2>3, <2>4
<1>6. ASSUME NEW i \in 0..m, Framed(At(a, t, i)), Quiet(t, i, m + 1)
      PROVE  At(a, t, i) = g
  <2>1. CASE i = n + 1
    <3>1. At(a, t, i) = p
      BY <1>1, <2>1 DEF At
    <3> QED BY <1>6, <3>1
  <2>2. CASE i \in 0..n
    <3>1. n + 1 \in 1..m /\ i < n + 1 /\ n + 1 < m + 1
      BY <1>1, <2>2
    <3>2. ~Framed(p)
      BY <1>1, <1>6, <3>1 DEF Quiet, m
    <3>3. Quiet(q, i, n + 1)
      <4> SUFFICES ASSUME NEW k \in 1..n, i < k, k < n + 1 PROVE ~Framed(q[k])
        BY DEF Quiet, n
      <4>1. k \in 1..m /\ k < m + 1 /\ t[k] = q[k]
        BY <1>1, <1>2
      <4> QED BY <1>6, <4>1 DEF Quiet, m
    <3>4. At(a, t, i) = At(a, q, i)
      BY <1>3, <2>2
    <3> QED BY <1>6, <2>2, <3>2, <3>3, <3>4 DEF Linked, n
  <2> QED BY <1>1, <2>1, <2>2
<1> QED BY <1>5, <1>6 DEF Linked, t, m

LEMMA ConnectionStep ==
    ASSUME StreamInv, NEW v \in Viewers, NEW c \in Connections, viewer' = [viewer EXCEPT ![v] = c],
           UNCHANGED <<bootstrap, frames>>, Streamed(c)
    PROVE  StreamInv'
<1>1. StreamTypes'
  BY DEF StreamInv, StreamTypes
<1>2. Grouped'
  BY DEF StreamInv, Grouped
<1>3. ASSUME NEW u \in Viewers PROVE Streamed(viewer[u])'
  <2>1. CASE u = v
    <3>1. viewer'[u] = c
      BY <2>1 DEF StreamInv, StreamTypes
    <3> QED BY <3>1 DEF Streamed
  <2>2. CASE u # v
    <3>1. viewer'[u] = viewer[u] /\ Streamed(viewer[u])
      BY <2>2 DEF StreamInv, StreamTypes
    <3> QED BY <3>1 DEF Streamed
  <2> QED BY <2>1, <2>2
<1> QED BY <1>1, <1>2, <1>3 DEF StreamInv

LEMMA NoneSent == <<>> \in Seq(Packets)
OBVIOUS

LEMMA NobodySent == NoViewer \in Connections /\ Streamed(NoViewer)
<1>1. NoViewer \in Connections
  <2> DEFINE none == <<>>
             last == [key |-> 0, delta |-> 0]
  <2>1. none \in Seq(Packets) /\ last \in Packets
    BY DEF Packets
  <2>2. NoViewer = [on |-> FALSE, ready |-> FALSE, initial |-> none, queue |-> none,
                    lagged |-> FALSE, last |-> last]
    BY DEF NoViewer
  <2> HIDE DEF none, last
  <2> QED BY <2>1, <2>2 DEF Connections
<1>2. /\ Anchor(NoViewer) = Independent /\ NoViewer.queue = <<>> /\ NoViewer.initial = <<>>
      /\ ~NoViewer.ready
  BY DEF Anchor, NoViewer
<1>3. Linked(Anchor(NoViewer), NoViewer.queue, frames)
  BY <1>2, LinkedNone DEF Framed
<1> QED BY <1>1, <1>2, <1>3 DEF Streamed

(* A viewer that joins gets the group so far; the next frame continues it. *)
LEMMA JoiningStreams ==
    ASSUME StreamInv, NEW v \in Viewers
    PROVE  Subscribed(v) \in Connections /\ Streamed(Subscribed(v))
<1> DEFINE c == Subscribed(v)
<1>1. viewer[v] \in Connections /\ bootstrap \in Seq(Packets) /\ frames \in Packets
  BY DEF StreamInv, StreamTypes
<1>2. /\ c \in Connections /\ c.on /\ ~c.lagged /\ c.initial = bootstrap /\ c.queue = <<>>
      /\ (c.ready <=> bootstrap # <<>>) /\ c.last = viewer[v].last
  <2> DEFINE ready == bootstrap # <<>>
             old == viewer[v]
             none == <<>>
  <2>1. ready \in BOOLEAN /\ none \in Seq(Packets)
    OBVIOUS
  <2>2. c = [old EXCEPT !.on = TRUE, !.initial = bootstrap, !.queue = none, !.lagged = FALSE,
                        !.ready = ready]
    BY DEF Subscribed
  <2> HIDE DEF c, ready, none, old
  <2>3. /\ c \in Connections /\ c.on /\ ~c.lagged /\ c.initial = bootstrap /\ c.queue = none
        /\ c.ready = ready /\ c.last = old.last
    BY <1>1, <2>1, <2>2 DEF Connections, old
  <2> QED BY <2>3 DEF ready, none, old
<1> HIDE DEF c
<1>3. CASE bootstrap = <<>>
  <2>1. Anchor(c) = Independent
    BY <1>2, <1>3 DEF Anchor
  <2>2. Linked(Anchor(c), c.queue, frames)
    BY <1>2, <2>1, LinkedNone DEF Framed
  <2> QED BY <1>2, <1>3, <2>2 DEF Streamed, c
<1>4. CASE bootstrap # <<>>
  <2>1. Chained(bootstrap) /\ bootstrap[1].delta = 0 /\ bootstrap[Len(bootstrap)] = frames
    BY <1>4 DEF StreamInv, Grouped
  <2>2. Anchor(c) = frames
    BY <1>2, <1>4, <2>1 DEF Anchor
  <2>3. Linked(Anchor(c), c.queue, frames)
    BY <1>2, <2>2, LinkedNone
  <2>4. Continues(c.last, c.initial[1])
    BY <1>2, <2>1 DEF Continues
  <2> QED BY <1>2, <1>4, <2>1, <2>3, <2>4 DEF Streamed, c
<1> QED BY <1>3, <1>4

LEMMA WriteInitialStreams == ASSUME StreamInv, NEW v \in Viewers, WriteInitial(v) PROVE StreamInv'
<1> DEFINE old == viewer[v]
           s == old.initial
           t == Tail(s)
           c == [old EXCEPT !.initial = t, !.last = Head(s)]
<1>1. old \in Connections /\ Streamed(old) /\ viewer \in [Viewers -> Connections]
  BY DEF StreamInv, StreamTypes
<1>2. /\ s # <<>> /\ viewer' = [viewer EXCEPT ![v] = c] /\ UNCHANGED <<bootstrap, frames>>
  BY <1>1 DEF WriteInitial
<1>3. s \in Seq(Packets)
  BY <1>1 DEF Connections
<1>4. old.on /\ old.ready /\ Chained(s)
  <2>1. NoViewer.initial = <<>>
    BY DEF NoViewer
  <2> QED BY <1>1, <1>2, <2>1 DEF Streamed
<1>5. /\ Head(s) = s[1] /\ Head(s) \in Packets /\ t \in Seq(Packets)
      /\ Len(s) \in Nat /\ Len(s) > 0 /\ Len(t) = Len(s) - 1
      /\ \A n \in 1..Len(t) : n + 1 \in 1..Len(s) /\ t[n] = s[n + 1]
  BY <1>2, <1>3, TailIs
<1>6. /\ c \in Connections /\ c.on = old.on /\ c.ready = old.ready /\ c.initial = t
      /\ c.queue = old.queue /\ c.lagged = old.lagged /\ c.last = s[1]
  BY <1>1, <1>5 DEF Connections
<1> HIDE DEF c, t
<1>7. Framed(s[1])
  <2>1. 1 \in 1..Len(s)
    BY <1>5
  <2> QED BY <1>4, <2>1 DEF Chained
<1>8. Chained(t)
  <2> SUFFICES ASSUME NEW i \in 1..Len(t)
               PROVE  Framed(t[i]) /\ (i # 1 => Continues(t[i - 1], t[i]))
    BY DEF Chained
  <2>1. i + 1 \in 1..Len(s) /\ t[i] = s[i + 1] /\ i + 1 # 1 /\ (i + 1) - 1 = i
    BY <1>5
  <2>2. Framed(s[i + 1]) /\ Continues(s[i], s[i + 1])
    BY <1>4, <2>1 DEF Chained
  <2>3. i # 1 => i - 1 \in 1..Len(t) /\ (i - 1) + 1 = i
    BY <1>5
  <2>4. i # 1 => t[i - 1] = s[i]
    BY <1>5, <2>3
  <2> QED BY <2>1, <2>2, <2>4
<1>9. t # <<>> => Continues(s[1], t[1]) /\ t[Len(t)] = s[Len(s)]
  <2> SUFFICES ASSUME t # <<>> PROVE Continues(s[1], t[1]) /\ t[Len(t)] = s[Len(s)]
    OBVIOUS
  <2>1. Len(t) \in Nat /\ Len(t) > 0
    BY <1>5
  <2>2. 1 \in 1..Len(t) /\ 1 + 1 = 2 /\ 2 # 1 /\ 2 - 1 = 1 /\ Len(t) \in 1..Len(t) /\ Len(t) + 1 = Len(s)
    BY <1>5, <2>1
  <2>3. t[1] = s[2] /\ 2 \in 1..Len(s) /\ t[Len(t)] = s[Len(s)]
    BY <1>5, <2>2
  <2>4. Continues(s[1], s[2])
    BY <1>4, <2>2, <2>3 DEF Chained
  <2> QED BY <2>3, <2>4
<1>10. t = <<>> => s[Len(s)] = s[1]
  <2> SUFFICES ASSUME t = <<>> PROVE Len(s) = 1
    OBVIOUS
  <2>1. Len(t) = 0
    OBVIOUS
  <2> QED BY <1>5, <2>1
<1>11. Anchor(c) = Anchor(old)
  BY <1>2, <1>4, <1>6, <1>9, <1>10 DEF Anchor
<1>12. Streamed(c)
  BY <1>1, <1>4, <1>6, <1>7, <1>8, <1>9, <1>11 DEF Streamed
<1> QED BY <1>2, <1>6, <1>12, ConnectionStep

LEMMA WriteLiveStreams == ASSUME StreamInv, NEW v \in Viewers, WriteLive(v) PROVE StreamInv'
<1> DEFINE old == viewer[v]
           q == old.queue
           p == Head(q)
           ready == old.ready \/ (p # Independent /\ p.delta = 0)
           last == IF ready /\ p # Independent THEN p ELSE old.last
           c == [old EXCEPT !.queue = Tail(q), !.ready = ready, !.last = last]
<1>1. old \in Connections /\ Streamed(old) /\ viewer \in [Viewers -> Connections]
  BY DEF StreamInv, StreamTypes
<1>2. /\ old.on /\ old.initial = <<>> /\ ~old.lagged /\ q # <<>>
      /\ viewer' = [viewer EXCEPT ![v] = c] /\ UNCHANGED <<bootstrap, frames>>
  BY <1>1 DEF WriteLive
<1>3. q \in Seq(Packets) /\ old.ready \in BOOLEAN /\ old.last \in Packets
  BY <1>1 DEF Connections
<1>4. p = q[1] /\ p \in Packets /\ Tail(q) \in Seq(Packets)
  BY <1>2, <1>3, TailIs
<1> HIDE DEF p
<1>5. ready \in BOOLEAN /\ last \in Packets
  BY <1>3, <1>4
<1> HIDE DEF ready, last
<1>6. /\ c \in Connections /\ c.on /\ c.ready = ready /\ c.initial = <<>>
      /\ c.queue = Tail(q) /\ ~c.lagged /\ c.last = last
  BY <1>1, <1>2, <1>4, <1>5 DEF Connections
<1> HIDE DEF c
<1>7. Linked(Anchor(old), q, frames)
  BY <1>1, <1>2 DEF Streamed
<1>8. Anchor(old) = IF old.ready THEN old.last ELSE Independent
  BY <1>2 DEF Anchor
<1>9. Anchor(c) = IF ready THEN last ELSE Independent
  BY <1>6 DEF Anchor
<1>10. Anchor(c) = q[1] \/ (Anchor(c) = Anchor(old) /\ (~Framed(q[1]) \/ ~Framed(Anchor(old))))
  BY <1>4, <1>8, <1>9 DEF ready, last, Framed
<1>11. Linked(Anchor(c), Tail(q), frames)
  BY <1>2, <1>3, <1>7, <1>10, LinkedTail
<1>12. ready => Framed(last)
  BY <1>1, <1>2 DEF ready, last, Streamed, Framed
<1>13. Streamed(c)
  BY <1>6, <1>11, <1>12 DEF Streamed
<1> QED BY <1>2, <1>6, <1>13, ConnectionStep

(* A packet for everybody: the connections whose queue overflows have lagged. *)
LEMMA BroadcastStreams ==
    ASSUME StreamInv, NEW p \in Packets, Broadcast(p), frames' \in Packets,
           Framed(p) => frames' = p /\ Continues(frames, p), ~Framed(p) => frames' = frames,
           bootstrap' \in Seq(Packets), Grouped'
    PROVE  StreamInv'
<1>1. ASSUME NEW v \in Viewers PROVE viewer'[v] \in Connections /\ Streamed(viewer[v])'
  <2> DEFINE old == viewer[v]
             c == viewer'[v]
             q == old.queue
  <2>0. old \in Connections /\ Streamed(old)
    BY DEF StreamInv, StreamTypes
  <2>1. q \in Seq(Packets)
    BY <2>0 DEF Connections
  <2>2. CASE ~old.on
    <3>1. c = NoViewer /\ old = NoViewer
      BY <2>0, <2>2 DEF Broadcast, Streamed
    <3>2. /\ Anchor(NoViewer) = Independent /\ NoViewer.queue = <<>> /\ NoViewer.initial = <<>>
          /\ ~NoViewer.ready
      BY DEF Anchor, NoViewer
    <3>3. Linked(Anchor(c), c.queue, frames')
      BY <3>1, <3>2, LinkedNone DEF Framed
    <3> QED BY <2>0, <3>1, <3>2, <3>3 DEF Streamed
  <2>3. CASE old.on /\ Len(q) < ViewerQueue
    <3>1. c = [old EXCEPT !.queue = Append(q, p)]
      BY <2>3 DEF Broadcast
    <3>2. Append(q, p) \in Seq(Packets)
      BY <2>1, AppendIs
    <3>3. /\ c \in Connections /\ c.on /\ c.ready = old.ready /\ c.initial = old.initial
          /\ c.queue = Append(q, p) /\ c.lagged = old.lagged /\ c.last = old.last
      BY <2>0, <2>3, <3>1, <3>2 DEF Connections
    <3>4. Anchor(c) = Anchor(old)
      BY <3>3 DEF Anchor
    <3>5. ~c.lagged => Linked(Anchor(c), c.queue, frames')
      <4> SUFFICES ASSUME ~c.lagged PROVE Linked(Anchor(c), c.queue, frames')
        OBVIOUS
      <4>1. Linked(Anchor(old), q, frames)
        BY <2>0, <3>3 DEF Streamed
      <4>2. Linked(Anchor(old), Append(q, p), frames')
        BY <2>1, <4>1, LinkedAppend
      <4> QED BY <3>3, <3>4, <4>2
    <3> HIDE DEF c, q
    <3> QED BY <2>0, <3>3, <3>5 DEF Streamed, c
  <2>4. CASE old.on /\ ~(Len(q) < ViewerQueue)
    <3>1. c = [old EXCEPT !.queue = Append(Tail(q), p), !.lagged = TRUE]
      BY <2>4 DEF Broadcast
    <3>2. q # <<>>
      <4>1. Len(q) # 0
        BY <2>1, <2>4, DisplayAssumption
      <4>2. Len(<<>>) = 0
        OBVIOUS
      <4> QED BY <4>1, <4>2
    <3>3. Append(Tail(q), p) \in Seq(Packets)
      BY <2>1, <3>2, TailIs, AppendIs
    <3>4. /\ c \in Connections /\ c.on /\ c.ready = old.ready /\ c.initial = old.initial
          /\ c.lagged /\ c.last = old.last
      BY <2>0, <2>4, <3>1, <3>3 DEF Connections
    <3> HIDE DEF c, q
    <3> QED BY <2>0, <3>4 DEF Streamed, c
  <2> QED BY <2>2, <2>3, <2>4
<1>2. viewer' = [v \in Viewers |-> viewer'[v]]
  BY DEF Broadcast
<1>3. viewer' \in [Viewers -> Connections]
  BY <1>1, <1>2
<1> QED BY <1>1, <1>3 DEF StreamInv, StreamTypes

(* The encoder's frame continues the last one, and the group with it. *)
LEMMA EmittedStreams ==
    ASSUME StreamInv, NEW key \in BOOLEAN, EncoderEmits(key)
    PROVE  StreamInv'
<1> DEFINE p == frames'
           kept == IF p.delta = 0 THEN <<p>> ELSE Append(bootstrap, p)
<1>0. frames \in Packets /\ bootstrap \in Seq(Packets)
  BY DEF StreamInv, StreamTypes
<1>1. p \in Packets /\ Framed(p) /\ Continues(frames, p)
  <2>1. CASE key
    <3>1. p = [key |-> frames.key + 1, delta |-> 0]
      BY <2>1 DEF EncoderEmits
    <3>2. frames.key + 1 \in Nat /\ frames.key + 1 # 0
      BY <1>0 DEF Packets
    <3> QED BY <3>1, <3>2 DEF Packets, Framed, Independent, Continues
  <2>2. CASE ~key
    <3>1. p = [frames EXCEPT !.delta = @ + 1]
      BY <2>2 DEF EncoderEmits
    <3>2. frames.delta + 1 \in Nat /\ frames.delta + 1 # 0
      BY <1>0 DEF Packets
    <3>3. p \in Packets /\ p.delta = frames.delta + 1
      BY <1>0, <3>1, <3>2 DEF Packets
    <3> QED BY <3>1, <3>2, <3>3 DEF Framed, Independent, Continues
  <2> QED BY <2>1, <2>2
<1>2. /\ Broadcast(p)
      /\ bootstrap' = IF p.delta # 0 /\ bootstrap = <<>> THEN <<>>
                      ELSE IF Len(kept) > GopLimit THEN <<>> ELSE kept
  BY DEF EncoderEmits, Publish
<1>3. (p.delta # 0 /\ bootstrap = <<>>)
      \/ /\ kept \in Seq(Packets) /\ kept # <<>> /\ Chained(kept)
         /\ kept[1].delta = 0 /\ kept[Len(kept)] = p
  <2>1. CASE p.delta = 0
    <3> DEFINE one == <<p>>
    <3>1. one \in Seq(Packets) /\ Len(one) = 1 /\ one[1] = p /\ one # <<>>
      BY <1>1
    <3>2. kept = one
      BY <2>1
    <3> HIDE DEF one, kept, p
    <3>3. \A i \in 1..1 : i = 1
      OBVIOUS
    <3>4. Chained(one)
      BY <1>1, <3>1, <3>3 DEF Chained
    <3> QED BY <2>1, <3>1, <3>2, <3>4
  <2>2. CASE p.delta # 0 /\ bootstrap # <<>>
    <3> DEFINE b == bootstrap
               n == Len(b)
    <3>1. Chained(b) /\ b[1].delta = 0 /\ b[n] = frames
      BY <2>2 DEF StreamInv, Grouped
    <3>2. kept = Append(b, p)
      BY <2>2
    <3> HIDE DEF p
    <3>3. /\ kept \in Seq(Packets) /\ kept # <<>> /\ Len(kept) = n + 1 /\ kept[n + 1] = p
          /\ n \in Nat /\ n > 0
          /\ \A i \in 1..Len(kept) : (i \in 1..n /\ kept[i] = b[i]) \/ (i = n + 1 /\ kept[i] = p)
      BY <1>0, <1>1, <2>2, <3>2, AppendIs, TailIs
    <3> HIDE DEF kept, n, b
    <3>4. \A i \in 1..n : kept[i] = b[i]
      BY <3>3
    <3>5. kept[1] = b[1]
      BY <3>3, <3>4
    <3>6. Chained(kept)
      <4> SUFFICES ASSUME NEW i \in 1..Len(kept)
                   PROVE  Framed(kept[i]) /\ (i # 1 => Continues(kept[i - 1], kept[i]))
        BY DEF Chained
      <4>1. CASE i \in 1..n /\ kept[i] = b[i]
        <5>1. i # 1 => i - 1 \in 1..n
          BY <3>3, <4>1
        <5>2. i # 1 => kept[i - 1] = b[i - 1]
          BY <3>4, <5>1
        <5> QED BY <3>1, <4>1, <5>2 DEF Chained, n
      <4>2. CASE i = n + 1 /\ kept[i] = p
        <5>1. i - 1 = n /\ n \in 1..n
          BY <3>3, <4>2
        <5>2. kept[i - 1] = frames
          BY <3>1, <3>4, <5>1
        <5> QED BY <1>1, <4>2, <5>2
      <4> QED BY <3>3, <4>1, <4>2
    <3> QED BY <3>1, <3>3, <3>5, <3>6
  <2> QED BY <2>1, <2>2
<1>4. bootstrap' \in Seq(Packets) /\ Grouped'
  <2>1. CASE bootstrap' = <<>>
    BY <2>1 DEF Grouped
  <2>2. CASE bootstrap' = kept /\ ~(p.delta # 0 /\ bootstrap = <<>>)
    <3> HIDE DEF kept
    <3> QED BY <1>3, <2>2 DEF Grouped
  <2> QED BY <1>2, <2>1, <2>2
<1> QED BY <1>1, <1>2, <1>4, BroadcastStreams

LEMMA StreamNext == StreamInv /\ [DisplayNext]_displayVars => StreamInv'
<1> SUFFICES ASSUME StreamInv, [DisplayNext]_displayVars PROVE StreamInv'
  OBVIOUS
<1>1. ASSUME bootstrap' \in {<<>>, bootstrap}, UNCHANGED <<frames, viewer>> PROVE StreamInv'
  <2>1. StreamTypes'
    BY <1>1, NoneSent DEF StreamInv, StreamTypes
  <2>2. Grouped'
    BY <1>1 DEF StreamInv, Grouped
  <2>3. \A v \in Viewers : Streamed(viewer[v])'
    BY <1>1 DEF StreamInv, Streamed
  <2> QED BY <2>1, <2>2, <2>3 DEF StreamInv
<1>2. ASSUME UNCHANGED hubVars PROVE StreamInv'
  BY <1>1, <1>2 DEF hubVars
<1>3. ASSUME NEW s \in Sizes, Scanout(s) \/ ScanoutDmabuf(s) PROVE StreamInv'
  BY <1>2, <1>3 DEF Scanout, ScanoutDmabuf
<1>4. CASE Update \/ UpdateDmabuf
  BY <1>2, <1>4 DEF Update, UpdateDmabuf
<1>5. ASSUME NEW works \in BOOLEAN, Snapshot(works) PROVE StreamInv'
  BY <1>1, <1>5 DEF Snapshot
<1>6. CASE EncoderFails
  BY <1>1, <1>6 DEF EncoderFails
<1>7. ASSUME NEW key \in BOOLEAN, EncoderEmits(key) PROVE StreamInv'
  BY <1>7, EmittedStreams
<1>8. CASE PublishIndependent
  <2>1. Independent \in Packets /\ ~Framed(Independent)
    BY DEF Independent, Packets, Framed
  <2>2. Broadcast(Independent) /\ UNCHANGED <<bootstrap, frames>>
    BY <1>8 DEF PublishIndependent
  <2>3. frames' \in Packets /\ bootstrap' \in Seq(Packets) /\ Grouped'
    BY <2>2 DEF StreamInv, StreamTypes, Grouped
  <2> QED BY <2>1, <2>2, <2>3, BroadcastStreams
<1>9. ASSUME NEW v \in Viewers, ConnectViewer(v) \/ RequestIdr(v) \/ Resynchronise(v)
      PROVE  StreamInv'
  <2>1. viewer' = [viewer EXCEPT ![v] = Subscribed(v)] /\ UNCHANGED <<bootstrap, frames>>
    BY <1>9 DEF ConnectViewer, RequestIdr, Resynchronise
  <2> DEFINE c == Subscribed(v)
  <2>2. c \in Connections /\ Streamed(c) /\ viewer' = [viewer EXCEPT ![v] = c]
    BY <2>1, JoiningStreams
  <2> HIDE DEF c
  <2> QED BY <2>1, <2>2, ConnectionStep
<1>10. ASSUME NEW v \in Viewers, Leave(v) PROVE StreamInv'
  <2>1. viewer' = [viewer EXCEPT ![v] = NoViewer] /\ UNCHANGED <<bootstrap, frames>>
    BY <1>10 DEF Leave
  <2> QED BY <2>1, NobodySent, ConnectionStep
<1>11. CASE UNCHANGED displayVars
  BY <1>2, <1>11 DEF displayVars
<1> QED BY <1>3, <1>4, <1>5, <1>6, <1>7, <1>8, <1>9, <1>10, <1>11, WriteInitialStreams,
        WriteLiveStreams DEF DisplayNext

LEMMA StreamStart == DisplayInit => StreamInv
<1> SUFFICES ASSUME DisplayInit PROVE StreamInv
  OBVIOUS
<1>1. /\ frames = [key |-> 0, delta |-> 0] /\ bootstrap = <<>>
      /\ viewer = [v \in Viewers |-> NoViewer]
  BY DEF DisplayInit
<1>2. frames \in Packets /\ bootstrap \in Seq(Packets)
  BY <1>1, NoneSent DEF Packets
<1> QED BY <1>1, <1>2, NobodySent DEF StreamInv, StreamTypes, Grouped

(* Whatever viewers join, lag, leave or ask again, and however the encoder is
   restarted, each frame sent continues the one before it (Hub, serve_viewer). *)
THEOREM FramesDecodable == DisplaySpec => Decodable
<1> DEFINE Sent(v) == LET last == viewer[v].last
                          next == viewer'[v].last
                      IN  (next # last /\ next # Independent) =>
                            (next.delta = 0 \/ next = [last EXCEPT !.delta = @ + 1])
           Next == \A v \in Viewers : Sent(v)
<1>1. StreamInv /\ [DisplayNext]_displayVars => [Next]_displayVars
  <2> SUFFICES ASSUME StreamInv, DisplayNext, NEW v \in Viewers PROVE Sent(v)
    OBVIOUS
  <2>0. viewer \in [Viewers -> Connections] /\ viewer[v] \in Connections /\ Streamed(viewer[v])
    BY DEF StreamInv, StreamTypes
  <2>1. ASSUME viewer'[v].last = viewer[v].last PROVE Sent(v)
    BY <2>1
  <2>2. CASE viewer' = viewer
    BY <2>1, <2>2
  <2>3. ASSUME NEW packet, Broadcast(packet) PROVE Sent(v)
    <3>1. viewer'[v].last = viewer[v].last
      BY <2>0, <2>3 DEF Broadcast, Connections
    <3> QED BY <2>1, <3>1
  <2>4. ASSUME NEW u \in Viewers, NEW c, viewer' = [viewer EXCEPT ![u] = c],
               u = v => (c.last = viewer[v].last \/ c.last = Independent
                           \/ Continues(viewer[v].last, c.last))
        PROVE  Sent(v)
    <3>1. CASE u = v
      <4>1. viewer'[v] = c
        BY <2>0, <2>4, <3>1
      <4> QED BY <2>4, <3>1, <4>1 DEF Continues
    <3>2. CASE u # v
      BY <2>0, <2>1, <2>4, <3>2
    <3> QED BY <3>1, <3>2
  <2>5. ASSUME NEW u \in Viewers, ConnectViewer(u) \/ RequestIdr(u) \/ Resynchronise(u)
        PROVE  Sent(v)
    <3>1. viewer' = [viewer EXCEPT ![u] = Subscribed(u)]
      BY <2>5 DEF ConnectViewer, RequestIdr, Resynchronise
    <3>2. Subscribed(v).last = viewer[v].last
      BY <2>0 DEF Subscribed, Connections
    <3> DEFINE c == Subscribed(u)
    <3>3. viewer' = [viewer EXCEPT ![u] = c] /\ (u = v => c.last = viewer[v].last)
      BY <3>1, <3>2
    <3> HIDE DEF c, Sent
    <3> QED BY <2>4, <3>3
  <2>6. ASSUME NEW u \in Viewers, Leave(u) PROVE Sent(v)
    <3>1. viewer' = [viewer EXCEPT ![u] = NoViewer] /\ NoViewer.last = Independent
      BY <2>6 DEF Leave, NoViewer, Independent
    <3> HIDE DEF Sent
    <3> QED BY <2>4, <3>1
  <2>7. ASSUME NEW u \in Viewers, WriteInitial(u) PROVE Sent(v)
    <3> DEFINE s == viewer[u].initial
               c == [viewer[u] EXCEPT !.initial = Tail(s), !.last = Head(s)]
    <3>1. viewer' = [viewer EXCEPT ![u] = c] /\ s # <<>>
      BY <2>0, <2>7 DEF WriteInitial
    <3>2. viewer[u] \in Connections /\ Streamed(viewer[u])
      BY DEF StreamInv, StreamTypes
    <3>3. s \in Seq(Packets)
      BY <3>2 DEF Connections
    <3>4. Head(s) = s[1] /\ Continues(viewer[u].last, s[1])
      BY <3>1, <3>2, <3>3 DEF Streamed
    <3>5. c.last = Head(s)
      BY <3>2 DEF Connections
    <3> HIDE DEF c, s, Sent
    <3> QED BY <2>4, <3>1, <3>4, <3>5
  <2>8. ASSUME NEW u \in Viewers, WriteLive(u) PROVE Sent(v)
    <3> DEFINE old == viewer[u]
               q == old.queue
               p == Head(q)
               ready == old.ready \/ (p # Independent /\ p.delta = 0)
               last == IF ready /\ p # Independent THEN p ELSE old.last
               c == [old EXCEPT !.queue = Tail(q), !.ready = ready, !.last = last]
    <3>1. /\ viewer' = [viewer EXCEPT ![u] = c]
          /\ old.on /\ old.initial = <<>> /\ ~old.lagged /\ q # <<>>
      BY <2>0, <2>8 DEF WriteLive
    <3>2. old \in Connections /\ Streamed(old)
      BY DEF StreamInv, StreamTypes
    <3>3. q \in Seq(Packets)
      BY <3>2 DEF Connections
    <3>4. p = q[1]
      BY <3>1, <3>3
    <3>5. c.last = last
      <4> HIDE DEF last, ready
      <4> QED BY <3>2 DEF Connections
    <3>6. old.ready /\ p # Independent => Continues(old.last, p)
      <4> SUFFICES ASSUME old.ready, p # Independent PROVE Continues(old.last, p)
        OBVIOUS
      <4>1. Framed(old.last) /\ Linked(Anchor(old), q, frames) /\ Anchor(old) = old.last
        BY <3>1, <3>2 DEF Streamed, Anchor
      <4>2. Framed(q[1])
        BY <3>4 DEF Framed
      <4> HIDE DEF old, q, p
      <4> QED BY <3>1, <3>3, <3>4, <4>1, <4>2, LinkedFirst
    <3>7. last = old.last \/ Continues(old.last, last)
      BY <3>6 DEF Continues
    <3> HIDE DEF c, last, Sent
    <3> QED BY <2>4, <3>1, <3>5, <3>7
  <2>9. ASSUME NEW s \in Sizes, Scanout(s) \/ ScanoutDmabuf(s) PROVE Sent(v)
    BY <2>2, <2>9 DEF Scanout, ScanoutDmabuf, hubVars
  <2>10. CASE Update \/ UpdateDmabuf
    BY <2>2, <2>10 DEF Update, UpdateDmabuf, hubVars
  <2>11. ASSUME NEW works \in BOOLEAN, Snapshot(works) PROVE Sent(v)
    BY <2>2, <2>11 DEF Snapshot
  <2>12. CASE EncoderFails
    BY <2>2, <2>12 DEF EncoderFails
  <2>13. ASSUME NEW key \in BOOLEAN, EncoderEmits(key) PROVE Sent(v)
    BY <2>3, <2>13 DEF EncoderEmits, Publish
  <2>14. CASE PublishIndependent
    BY <2>3, <2>14 DEF PublishIndependent
  <2> HIDE DEF Sent
  <2> QED BY <2>5, <2>6, <2>7, <2>8, <2>9, <2>10, <2>11, <2>12, <2>13, <2>14 DEF DisplayNext
<1>2. Decodable <=> [][Next]_displayVars
  BY DEF Decodable
<1> HIDE DEF Next
<1> QED BY <1>1, <1>2, StreamStart, StreamNext, PTL DEF DisplaySpec

-----------------------------------------------------------------------------
(* The native viewer (main.rs, app.rs) *)

(* The flag is up only while an event is queued: so a decoder that finds it
   up may leave the wake-up to that event (main.rs callback, user_event). *)
FlagMeansEvent == pendingWake => windowEvents > 0

FrameTypes == windowEvents \in Nat /\ pendingWake \in BOOLEAN /\ slot \in BOOLEAN

FInv == FrameTypes /\ FlagMeansEvent /\ WakeUpComes

(* Nothing is in the slot when the viewer starts. *)
LEMMA InitFInv == ViewerInit => FInv
<1>1. ViewerInit => slot = FALSE /\ pendingWake = FALSE /\ windowEvents = 0
  BY Zenon DEF ViewerInit
<1>2. 0 \in Nat
  OBVIOUS
<1> QED BY <1>1, <1>2, Zenon DEF FInv, FrameTypes, FlagMeansEvent, WakeUpComes

(* A step that is not of the decoder's callback or the window's event leaves
   slot, flag and queue as they are. *)
LEMMA OtherSteps ==
    ASSUME ViewerNext
    PROVE  UNCHANGED frameVars \/ LeaveFrame \/ WakeWindow \/ WindowWakes \/ WindowTakes
<1>1. ASSUME NEW b \in BOOLEAN,
             StreamerPublishes(b) \/ StreamerReplays(b) \/ StartSession(b)
      PROVE  UNCHANGED frameVars
  BY <1>1 DEF StreamerPublishes, StreamerReplays, StartSession
<1>2. CASE ReadRecord \/ DecoderErrs \/ HandleDecoderError
  BY <1>2 DEF ReadRecord, DecoderErrs, HandleDecoderError
<1>3. CASE ForwardInput \/ StreamEnds \/ ProcessEnds
  BY <1>3 DEF ForwardInput, StreamEnds, ProcessEnds
<1>4. ASSUME NEW k \in HeldKeys, PressButton(k) \/ PressKey(k) \/ ReleaseKey(k)
      PROVE  UNCHANGED frameVars
  BY <1>4 DEF PressButton, PressKey, ReleaseKey
<1>5. CASE LoseGrab \/ CloseWindow
  BY <1>5 DEF LoseGrab, CloseWindow
<1>6. CASE LeaveFrame \/ WakeWindow \/ WindowWakes \/ WindowTakes
  BY <1>6
<1> QED BY <1>1, <1>2, <1>3, <1>4, <1>5, <1>6 DEF ViewerNext

(* The two steps of the decoder and the two of the window, in any order. *)
LEMMA NextFInv == FInv /\ [ViewerNext]_viewerVars => FInv'
<1> SUFFICES ASSUME FInv, [ViewerNext]_viewerVars PROVE FInv'
  OBVIOUS
<1> USE DEF FInv, FrameTypes, FlagMeansEvent, WakeUpComes
<1>1. CASE UNCHANGED frameVars
  BY <1>1 DEF frameVars
<1>2. CASE LeaveFrame
  BY <1>2 DEF LeaveFrame
<1>3. CASE WakeWindow
  \* the flag goes up with an event, or was up with one already
  <2>1. windowEvents' > 0 /\ windowEvents' \in Nat
    BY <1>3 DEF WakeWindow
  <2> QED BY <1>3, <2>1 DEF WakeWindow
<1>4. CASE WindowWakes
  \* the flag goes down with the event, and the slot is taken next
  <2>1. windowEvents' \in Nat
    BY <1>4 DEF WindowWakes
  <2> QED BY <1>4, <2>1 DEF WindowWakes
<1>5. CASE WindowTakes
  BY <1>5 DEF WindowTakes
<1>6. CASE UNCHANGED viewerVars
  BY <1>1, <1>6 DEF viewerVars
<1> QED BY <1>1, <1>2, <1>3, <1>4, <1>5, <1>6, OtherSteps

(* No frame is left in the slot without a wake-up on its way, for every stream,
   any number of queued events and whatever else the viewer does meanwhile. *)
THEOREM NoFrameStays == ViewerSpec => []WakeUpComes
<1>1. FInv => WakeUpComes
  BY DEF FInv
<1> QED BY InitFInv, NextFInv, <1>1, PTL DEF ViewerSpec

-----------------------------------------------------------------------------
(* The order of the frames. *)

Frame == [key : Nat, delta : Nat]

(* y may be fed to a decoder that was fed x. *)
Follows(x, y) == y.delta = 0 \/ y = [x EXCEPT !.delta = @ + 1]

FeedTypes ==
    /\ published \in Frame
    /\ records \in Seq(Frame)
    /\ pipe \in [generation : Nat, hardware : BOOLEAN, alive : BOOLEAN, last : Frame]
    /\ awaiting \in BOOLEAN

(* What is on its way is in order and ends with the newest frame, so the next
   frame follows it whatever was replayed (the streamer's group starts with
   its keyframe). *)
OnTheWay ==
    /\ session # "open" => records = <<>>
    /\ \A i \in 1..Len(records) : i < Len(records) => Follows(records[i], records[i + 1])
    /\ records # <<>> => records[Len(records)] = published

(* A decoder that no longer awaits a keyframe was fed what precedes that. *)
FedUpTo ==
    /\ session = "none" => awaiting
    /\ session = "open" /\ ~awaiting =>
         IF records = <<>> THEN pipe.last = published ELSE Follows(pipe.last, records[1])

FeedInv == FeedTypes /\ OnTheWay /\ FedUpTo

(* A group is empty or runs from its keyframe to the newest frame. *)
LEMMA GroupInOrder ==
    ASSUME published \in Frame
    PROVE  /\ Group \in Seq(Frame)
           /\ Group # <<>> => /\ Group[1].delta = 0
                              /\ Group[Len(Group)] = published
           /\ \A i \in 1..Len(Group) : i < Len(Group) => Follows(Group[i], Group[i + 1])
<1> DEFINE n == IF published.key = 0 THEN 0 ELSE published.delta + 1
           g == [i \in 1..n |-> [key |-> published.key, delta |-> i - 1]]
<1>1. published.key \in Nat /\ published.delta \in Nat /\ n \in Nat
  BY DEF Frame
<1>2. Group = g
  BY DEF Group
<1>3. \A i \in 1..n : g[i] = [key |-> published.key, delta |-> i - 1]
  OBVIOUS
<1>4. g \in Seq(Frame) /\ Len(g) = n
  <2>1. \A i \in 1..n : [key |-> published.key, delta |-> i - 1] \in Frame
    BY <1>1 DEF Frame
  <2>2. g \in [1..n -> Frame]
    BY <2>1
  <2> HIDE DEF g, n
  <2>3. Len(g) = n
    BY <1>1, <2>2
  <2> QED BY <1>1, <2>2, <2>3
<1>5. ASSUME g # <<>>
      PROVE  g[1].delta = 0 /\ g[Len(g)] = published
  <2>1. n # 0
    BY <1>4, <1>5, EmptySeq
  <2>2. 1 \in 1..n /\ n \in 1..n /\ n = published.delta + 1
    BY <1>1, <2>1
  <2>3. g[1].delta = 0
    BY <1>3, <2>2
  <2>4. g[n] = [key |-> published.key, delta |-> published.delta]
    BY <1>1, <1>3, <2>2
  <2> QED BY <1>4, <2>3, <2>4 DEF Frame
<1>6. ASSUME NEW i \in 1..Len(g), i < Len(g)
      PROVE  Follows(g[i], g[i + 1])
  <2>1. i \in 1..n /\ i + 1 \in 1..n
    BY <1>1, <1>4, <1>6
  <2>2. /\ g[i] = [key |-> published.key, delta |-> i - 1]
        /\ g[i + 1] = [key |-> published.key, delta |-> (i + 1) - 1]
    BY <1>3, <2>1
  <2> QED BY <2>1, <2>2 DEF Follows
<1> QED BY <1>2, <1>4, <1>5, <1>6

(* Nothing is on its way and every decoder awaits a keyframe at the start. *)
LEMMA InitFeedInv == ViewerInit => FeedInv
<1> SUFFICES ASSUME ViewerInit PROVE FeedInv
  OBVIOUS
<1>1. Blank \in Frame
  BY DEF Blank, Frame
<1>2. records = <<>> /\ <<>> \in Seq(Frame) /\ Len(records) = 0
  BY DEF ViewerInit
<1>3. pipe \in [generation : Nat, hardware : BOOLEAN, alive : BOOLEAN, last : Frame]
  <2>1. PICK h \in BOOLEAN : pipe = [generation |-> 0, hardware |-> h, alive |-> TRUE, last |-> Blank]
    BY Zenon DEF ViewerInit
  <2>2. 0 \in Nat /\ TRUE \in BOOLEAN
    OBVIOUS
  <2> QED BY <1>1, <2>1, <2>2, Zenon
<1> QED BY <1>1, <1>2, <1>3 DEF ViewerInit, FeedInv, FeedTypes, OnTheWay, FedUpTo

(* The streamer publishes the frame that follows the newest. *)
LEMMA PublishesFeedInv ==
    ASSUME FeedInv, NEW key \in BOOLEAN, StreamerPublishes(key)
    PROVE  FeedInv'
<1> USE DEF FeedInv
<1>1. published' \in Frame /\ Follows(published, published')
  <2>1. published.key \in Nat /\ published.delta \in Nat
    BY DEF FeedTypes, Frame
  <2>2. CASE key
    <3>1. published' = [key |-> published.key + 1, delta |-> 0]
      BY <2>2 DEF StreamerPublishes
    <3> QED BY <2>1, <3>1 DEF Frame, Follows
  <2>3. CASE ~key
    <3>1. published' = [published EXCEPT !.delta = @ + 1]
      BY <2>3 DEF StreamerPublishes
    <3>2. [published EXCEPT !.delta = @ + 1] \in Frame
      BY DEF FeedTypes, Frame
    <3> QED BY <3>1, <3>2 DEF Follows
  <2> QED BY <2>2, <2>3
<1>2. UNCHANGED <<session, awaiting, pipe>>
  BY DEF StreamerPublishes, netVars
<1>3. CASE session # "open"
  <2>1. records = <<>> /\ records' = <<>> /\ Len(records') = 0
    BY <1>3 DEF StreamerPublishes, OnTheWay
  <2> QED BY <1>1, <1>2, <1>3, <2>1 DEF FeedTypes, OnTheWay, FedUpTo
<1>4. CASE session = "open"
  <2>1. records' = Append(records, published')
    BY <1>4 DEF StreamerPublishes
  <2> DEFINE n == Len(records)
  <2>2. n \in Nat
    BY DEF FeedTypes
  <2>3. /\ records' \in Seq(Frame) /\ records' # <<>>
        /\ Len(records') = n + 1
        /\ \A i \in 1..n : records'[i] = records[i]
        /\ records'[n + 1] = published'
    BY <1>1, <2>1, AppendProperties DEF FeedTypes
  <2>4. ASSUME NEW i \in 1..(n + 1), i < n + 1
        PROVE  Follows(records'[i], records'[i + 1])
    <3>1. CASE i < n
      <4>1. i \in 1..n /\ i + 1 \in 1..n
        BY <2>2, <3>1
      <4>2. Follows(records[i], records[i + 1])
        BY <3>1, <4>1 DEF OnTheWay
      <4> QED BY <2>3, <4>1, <4>2
    <3>2. CASE i = n
      <4>1. n # 0 /\ n \in 1..n
        BY <2>2, <3>2
      <4>2. records # <<>>
        BY <4>1, EmptySeq
      <4>3. records[n] = published
        BY <4>2 DEF OnTheWay
      <4> QED BY <1>1, <2>3, <3>2, <4>1, <4>3
    <3> QED BY <2>2, <2>4, <3>1, <3>2
  <2>5. OnTheWay'
    BY <1>2, <1>4, <2>3, <2>4 DEF OnTheWay
  <2>6. ASSUME ~awaiting PROVE Follows(pipe.last, records'[1])
    <3>1. CASE records = <<>>
      BY <1>1, <1>4, <2>3, <2>6, <3>1, EmptySeq DEF FedUpTo
    <3>2. CASE records # <<>>
      <4>1. 1 \in 1..n
        BY <2>2, <3>2, EmptySeq DEF FeedTypes
      <4> QED BY <1>4, <2>3, <2>6, <3>2, <4>1 DEF FedUpTo
    <3> QED BY <3>1, <3>2
  <2> QED BY <1>1, <1>2, <1>4, <2>3, <2>5, <2>6 DEF FeedTypes, FedUpTo
<1> QED BY <1>3, <1>4

(* A replay appends a group, which starts with a keyframe. *)
LEMMA ReplaysFeedInv ==
    ASSUME FeedInv, NEW kept \in BOOLEAN, StreamerReplays(kept)
    PROVE  FeedInv'
<1> USE DEF FeedInv
<1> DEFINE n == Len(records)
           m == Len(Group)
<1>1. UNCHANGED <<published, session, awaiting, pipe>> /\ session = "open"
  BY DEF StreamerReplays, netVars
<1>2. CASE records' = records
  BY <1>1, <1>2 DEF FeedTypes, OnTheWay, FedUpTo
<1>3. CASE records' = records \o Group
  <2>1. /\ Group \in Seq(Frame)
        /\ Group # <<>> => Group[1].delta = 0 /\ Group[Len(Group)] = published
        /\ \A i \in 1..Len(Group) : i < Len(Group) => Follows(Group[i], Group[i + 1])
    BY GroupInOrder DEF FeedTypes
  <2>2. n \in Nat /\ m \in Nat
    BY <2>1 DEF FeedTypes
  <2>3. CASE Group = <<>>
    BY <1>2, <1>3, <2>3, ConcatEmptySeq DEF FeedTypes
  <2>4. CASE Group # <<>>
    <3>1. m > 0
      BY <2>1, <2>2, <2>4, EmptySeq
    <3>2. /\ records' \in Seq(Frame)
          /\ Len(records') = n + m
          /\ \A i \in 1..(n + m) : records'[i] = IF i <= n THEN records[i] ELSE Group[i - n]
      BY <1>3, <2>1, ConcatProperties DEF FeedTypes
    <3>3. records' # <<>> /\ records'[n + m] = published'
      BY <1>1, <2>1, <2>2, <2>4, <3>1, <3>2, EmptySeq
    <3>4. ASSUME NEW i \in 1..(n + m), i < n + m
          PROVE  Follows(records'[i], records'[i + 1])
      <4>1. CASE i < n
        BY <2>2, <3>2, <3>4, <4>1 DEF OnTheWay
      <4>2. CASE i = n
        <5>1. records'[i + 1] = Group[1]
          BY <2>2, <3>1, <3>2, <4>2
        <5> QED BY <2>1, <2>4, <5>1 DEF Follows
      <4>3. CASE i > n
        <5>1. i - n \in 1..m /\ i - n < m /\ (i + 1) - n = (i - n) + 1
          BY <2>2, <3>4, <4>3
        <5>2. records'[i] = Group[i - n] /\ records'[i + 1] = Group[(i - n) + 1]
          BY <2>2, <3>2, <3>4, <4>3, <5>1
        <5> QED BY <2>1, <5>1, <5>2
      <4> QED BY <2>2, <3>4, <4>1, <4>2, <4>3
    <3>5. ASSUME ~awaiting PROVE Follows(pipe.last, records'[1])
      <4>1. CASE records = <<>>
        <5>1. n = 0 /\ 1 \in 1..(n + m)
          BY <2>2, <3>1, <4>1, EmptySeq
        <5>2. records'[1] = Group[1]
          BY <2>2, <3>2, <5>1
        <5> QED BY <2>1, <2>4, <5>2 DEF Follows
      <4>2. CASE records # <<>>
        <5>1. n > 0 /\ 1 \in 1..(n + m)
          BY <2>2, <3>1, <4>2, EmptySeq DEF FeedTypes
        <5>2. records'[1] = records[1]
          BY <2>2, <3>2, <5>1
        <5> QED BY <1>1, <3>5, <4>2, <5>2 DEF FedUpTo
      <4> QED BY <4>1, <4>2
    <3>6. OnTheWay'
      BY <1>1, <3>2, <3>3, <3>4 DEF OnTheWay
    <3> QED BY <1>1, <3>2, <3>3, <3>5, <3>6 DEF FeedTypes, FedUpTo
  <2> QED BY <2>3, <2>4
<1> QED BY <1>2, <1>3 DEF StreamerReplays

(* A session starts with a group, and its first decoder awaits a keyframe. *)
LEMMA StartFeedInv ==
    ASSUME FeedInv, NEW works \in BOOLEAN, StartSession(works)
    PROVE  FeedInv'
<1> USE DEF FeedInv
<1>1. UNCHANGED <<published, awaiting, pipe>> /\ awaiting
  BY DEF StartSession, FedUpTo
<1>2. CASE works
  <2>1. session' = "open" /\ records' = Group
    BY <1>2 DEF StartSession
  <2>2. /\ Group \in Seq(Frame)
        /\ Group # <<>> => Group[Len(Group)] = published
        /\ \A i \in 1..Len(Group) : i < Len(Group) => Follows(Group[i], Group[i + 1])
    BY GroupInOrder DEF FeedTypes
  <2> QED BY <1>1, <2>1, <2>2 DEF FeedTypes, OnTheWay, FedUpTo
<1>3. CASE ~works
  <2>1. session' = "refused" /\ records' = <<>> /\ Len(records') = 0
    BY <1>3 DEF StartSession, Over
  <2> QED BY <1>1, <2>1 DEF FeedTypes, OnTheWay, FedUpTo
<1> QED BY <1>2, <1>3

(* A session that is over has nothing on its way. *)
LEMMA OverFeedInv ==
    ASSUME FeedInv, NEW how, Over(how), how \notin {"none", "open"},
           UNCHANGED <<published, awaiting, pipe>>
    PROVE  FeedInv'
<1>1. session' \notin {"none", "open"} /\ records' = <<>> /\ Len(records') = 0
  BY DEF Over
<1> QED BY <1>1 DEF FeedInv, FeedTypes, OnTheWay, FedUpTo

(* What is read is fed from a keyframe on. *)
LEMMA ReadFeedInv ==
    ASSUME FeedInv, ReadRecord
    PROVE  FeedInv' /\ (pipe'.last # pipe.last => Follows(pipe.last, pipe'.last))
<1> USE DEF FeedInv
<1> DEFINE n == Len(records)
           frame == records[1]
<1>1. /\ UNCHANGED <<published, session>> /\ session = "open"
      /\ records # <<>> /\ records' = Tail(records) /\ Head(records) = frame
  BY DEF ReadRecord, FeedTypes
<1>2. n \in Nat /\ n > 0
  BY <1>1, EmptySeq DEF FeedTypes
<1>3. /\ frame \in Frame
      /\ records' \in Seq(Frame)
      /\ Len(records') = n - 1
      /\ \A i \in 1..Len(records') : records'[i] = records[i + 1]
  BY <1>1, HeadTailProperties DEF FeedTypes
<1>4. ASSUME NEW i \in 1..(n - 1), i < n - 1
      PROVE  Follows(records'[i], records'[i + 1])
  <2>1. i + 1 \in 1..(n - 1) /\ i + 1 \in 1..n /\ i + 1 < n
    BY <1>2, <1>4
  <2>2. records'[i] = records[i + 1] /\ records'[i + 1] = records[(i + 1) + 1]
    BY <1>3, <1>4, <2>1
  <2> QED BY <2>1, <2>2 DEF OnTheWay
<1>5. ASSUME records' # <<>> PROVE records'[n - 1] = published /\ Follows(frame, records'[1])
  <2>1. n - 1 > 0
    BY <1>2, <1>3, <1>5, EmptySeq
  <2>2. records'[n - 1] = records[n] /\ records'[1] = records[1 + 1]
    BY <1>2, <1>3, <2>1
  <2>3. 1 \in 1..n /\ 1 < n
    BY <1>2, <2>1
  <2> QED BY <1>1, <2>2, <2>3 DEF OnTheWay
<1>6. ASSUME records' = <<>> PROVE frame = published
  <2>1. n = 1
    BY <1>2, <1>3, <1>6, EmptySeq
  <2> QED BY <1>1, <2>1 DEF OnTheWay
<1>7. OnTheWay'
  BY <1>1, <1>3, <1>4, <1>5 DEF OnTheWay
<1>8. CASE frame.delta = 0 \/ ~awaiting
  <2>1. pipe' = [pipe EXCEPT !.last = frame] /\ awaiting' = FALSE
    BY <1>1, <1>8 DEF ReadRecord
  <2>2. pipe'.last = frame /\ FeedTypes'
    BY <1>1, <1>3, <2>1 DEF FeedTypes
  <2>3. Follows(pipe.last, frame)
    BY <1>1, <1>8 DEF FedUpTo, Follows
  <2> QED BY <1>1, <1>5, <1>6, <1>7, <2>1, <2>2, <2>3 DEF FedUpTo
<1>9. CASE ~(frame.delta = 0 \/ ~awaiting)
  <2>1. pipe' = pipe /\ awaiting' = awaiting /\ awaiting
    BY <1>1, <1>9 DEF ReadRecord, FeedTypes
  <2> QED BY <1>1, <1>3, <1>7, <2>1 DEF FeedTypes, FedUpTo
<1> QED BY <1>8, <1>9

(* One step under FedInOrder. *)
FedStep ==
    pipe'.last \notin {pipe.last, Blank} =>
        \/ pipe'.last.delta = 0
        \/ pipe'.last = [pipe.last EXCEPT !.delta = @ + 1]

(* Every other step leaves the decoder what it was fed, or makes a new one
   that awaits a keyframe. *)
LEMMA NextFeedInv == FeedInv /\ [ViewerNext]_viewerVars => FeedInv' /\ FedStep
<1> SUFFICES ASSUME FeedInv, [ViewerNext]_viewerVars PROVE FeedInv' /\ FedStep
  OBVIOUS
<1>1. ASSUME NEW b \in BOOLEAN, StreamerPublishes(b) PROVE FeedInv' /\ FedStep
  <2>1. pipe' = pipe
    BY <1>1 DEF StreamerPublishes, netVars
  <2> QED BY <1>1, <2>1, PublishesFeedInv DEF FedStep
<1>2. ASSUME NEW b \in BOOLEAN, StreamerReplays(b) PROVE FeedInv' /\ FedStep
  <2>1. pipe' = pipe
    BY <1>2 DEF StreamerReplays, netVars
  <2> QED BY <1>2, <2>1, ReplaysFeedInv DEF FedStep
<1>3. ASSUME NEW b \in BOOLEAN, StartSession(b) PROVE FeedInv' /\ FedStep
  <2>1. pipe' = pipe
    BY <1>3 DEF StartSession
  <2> QED BY <1>3, <2>1, StartFeedInv DEF FedStep
<1>4. CASE ReadRecord
  BY <1>4, ReadFeedInv DEF FedStep, Follows
<1>5. CASE DecoderErrs
  BY <1>5 DEF DecoderErrs, streamVars, FeedInv, FeedTypes, OnTheWay, FedUpTo, FedStep
<1>6. CASE HandleDecoderError
  <2>1. CASE UNCHANGED <<streamVars, session, awaiting, pipe>>
    BY <2>1 DEF streamVars, FeedInv, FeedTypes, OnTheWay, FedUpTo, FedStep
  <2>2. CASE FallBack
    <3>1. pipe'.last = Blank /\ Blank \in Frame /\ awaiting' = TRUE
      BY <2>2 DEF FallBack, Blank, Frame
    <3> QED BY <2>2, <3>1 DEF FallBack, FeedInv, FeedTypes, OnTheWay, FedUpTo, FedStep
  <2>3. CASE Over("failed") /\ UNCHANGED <<published, awaiting, pipe>>
    BY <2>3, OverFeedInv DEF FedStep
  <2> QED BY <1>6, <2>1, <2>2, <2>3 DEF HandleDecoderError
<1>7. CASE ForwardInput
  <2>1. CASE UNCHANGED <<records, idrs, session>>
    BY <1>7, <2>1 DEF ForwardInput, FeedInv, FeedTypes, OnTheWay, FedUpTo, FedStep
  <2>2. CASE Over("left")
    BY <1>7, <2>2, OverFeedInv DEF ForwardInput, FedStep
  <2> QED BY <1>7, <2>1, <2>2 DEF ForwardInput
<1>8. CASE StreamEnds \/ ProcessEnds
  BY <1>8, OverFeedInv DEF StreamEnds, ProcessEnds, FedStep
<1>9. CASE UNCHANGED <<streamVars, netVars>>
  BY <1>9 DEF streamVars, netVars, FeedInv, FeedTypes, OnTheWay, FedUpTo, FedStep
<1>10. CASE LeaveFrame \/ WakeWindow \/ WindowWakes \/ WindowTakes \/ LoseGrab \/ CloseWindow
  BY <1>9, <1>10 DEF LeaveFrame, WakeWindow, WindowWakes, WindowTakes, LoseGrab, CloseWindow
<1>11. ASSUME NEW k \in HeldKeys, PressButton(k) \/ PressKey(k) \/ ReleaseKey(k)
       PROVE  FeedInv' /\ FedStep
  BY <1>9, <1>11 DEF PressButton, PressKey, ReleaseKey
<1>12. CASE UNCHANGED viewerVars
  BY <1>9, <1>12 DEF viewerVars
<1> QED
  BY <1>1, <1>2, <1>3, <1>4, <1>5, <1>6, <1>7, <1>8, <1>10, <1>11, <1>12 DEF ViewerNext

(* Every decoder is fed a keyframe first and then what follows it, for every
   stream, wherever decoders fail and groups are replayed. *)
THEOREM DecodersFedInOrder == ViewerSpec => FedInOrder
<1>1. ViewerSpec => [][FedStep]_viewerVars
  BY InitFeedInv, NextFeedInv, PTL DEF ViewerSpec
<1>2. FedInOrder <=> [][FedStep]_viewerVars
  BY DEF FedInOrder, FedStep
<1> QED BY <1>1, <1>2

-----------------------------------------------------------------------------
(* What is held. *)

Message == [key : HeldKeys, down : BOOLEAN]

Press(k) == Says(k, TRUE)
Release(k) == Says(k, FALSE)

(* The messages s let go of k in a guest that holds the keys of guest: a press
   among them is followed by a release. *)
LetsGo(s, k, guest) ==
    /\ k \in guest => \E j \in 1..Len(s) : s[j] = Release(k)
    /\ \A i \in 1..Len(s) :
          s[i] = Press(k) => \E j \in 1..Len(s) : j > i /\ s[j] = Release(k)

HeldTypes ==
    /\ outbound \in Seq(Message)
    /\ held \subseteq HeldKeys /\ IsFiniteSet(held)
    /\ guestHeld \subseteq HeldKeys
    /\ grabbed \in BOOLEAN /\ windowOpen \in BOOLEAN

(* Only a window with the grab holds keys. *)
HoldsWithGrab == /\ ~grabbed => held = {}
                 /\ ~windowOpen => ~grabbed

(* A key that the user does not hold is let go of by what is on its way. *)
LetGoOnTheWay ==
    session \in {"none", "open"} =>
        \A k \in HeldKeys \ held : LetsGo(outbound, k, guestHeld)

HeldInv == HeldTypes /\ HoldsWithGrab /\ LetGoOnTheWay /\ (session = "left" => guestHeld = {})

(* Messages without a press of k keep what s lets go; with a release of k they
   let it go whatever s does. *)
LEMMA ConcatLetsGo ==
    ASSUME NEW s \in Seq(Message), NEW t \in Seq(Message), NEW k, NEW guest,
           \A i \in 1..Len(t) : t[i] # Press(k),
           LetsGo(s, k, guest) \/ \E i \in 1..Len(t) : t[i] = Release(k)
    PROVE  LetsGo(s \o t, k, guest)
<1> DEFINE n == Len(s)
           m == Len(t)
           u == s \o t
<1>1. n \in Nat /\ m \in Nat /\ Len(s) = n /\ Len(t) = m
  OBVIOUS
<1>2. Len(u) = n + m /\ \A i \in 1..(n + m) : u[i] = IF i <= n THEN s[i] ELSE t[i - n]
  BY ConcatProperties
<1> HIDE DEF u, n, m
<1>3. ASSUME NEW i \in 1..(n + m), u[i] = Press(k)
      PROVE  i \in 1..n /\ s[i] = Press(k)
  <2>1. CASE i <= n
    BY <1>1, <1>2, <1>3, <2>1
  <2>2. CASE i > n
    <3>1. i - n \in 1..m /\ u[i] = t[i - n]
      BY <1>1, <1>2, <2>2
    <3> QED BY <1>1, <1>3, <3>1
  <2> QED BY <1>1, <2>1, <2>2
<1>4. CASE \E i \in 1..m : t[i] = Release(k)
  <2>1. PICK i \in 1..m : t[i] = Release(k)
    BY <1>4
  <2>2. n + i \in 1..(n + m) /\ n + i > n /\ (n + i) - n = i
    BY <1>1
  <2>3. u[n + i] = Release(k)
    BY <1>1, <1>2, <2>1, <2>2
  <2>4. \A l \in 1..n : n + i > l
    BY <1>1
  <2> QED BY <1>2, <1>3, <2>2, <2>3, <2>4 DEF LetsGo, u
<1>5. CASE LetsGo(s, k, guest)
  <2>1. \A j \in 1..n : j \in 1..(n + m) /\ u[j] = s[j]
    BY <1>1, <1>2
  <2>2. k \in guest => \E j \in 1..n : s[j] = Release(k)
    BY <1>1, <1>5 DEF LetsGo
  <2>3. \A i \in 1..n : s[i] = Press(k) => \E j \in 1..n : j > i /\ s[j] = Release(k)
    BY <1>1, <1>5 DEF LetsGo
  <2> QED BY <1>2, <1>3, <2>1, <2>2, <2>3 DEF LetsGo, u
<1> QED BY <1>1, <1>4, <1>5

(* The first message has arrived. *)
LEMMA TailLetsGo ==
    ASSUME NEW s \in Seq(Message), s # <<>>, NEW k, NEW guest, NEW after,
           LetsGo(s, k, guest),
           k \in after => Head(s) = Press(k) \/ (k \in guest /\ Head(s) # Release(k))
    PROVE  LetsGo(Tail(s), k, after)
<1> DEFINE n == Len(s)
           u == Tail(s)
<1>1. n \in Nat /\ n > 0 /\ Len(s) = n /\ Head(s) = s[1]
  BY EmptySeq
<1>2. Len(u) = n - 1 /\ \A i \in 1..(n - 1) : u[i] = s[i + 1]
  BY HeadTailProperties
<1> HIDE DEF u, n
<1>3. ASSUME NEW j \in 1..n, j > 1
      PROVE  j - 1 \in 1..(n - 1) /\ u[j - 1] = s[j]
  <2>1. j - 1 \in 1..(n - 1) /\ (j - 1) + 1 = j
    BY <1>1, <1>3
  <2> QED BY <1>2, <2>1
<1>4. ASSUME k \in after PROVE \E j \in 1..(n - 1) : u[j] = Release(k)
  <2>1. PICK j \in 1..n : j > 1 /\ s[j] = Release(k)
    <3>1. CASE Head(s) = Press(k)
      <4>1. 1 \in 1..n
        BY <1>1
      <4> QED BY <1>1, <3>1, <4>1 DEF LetsGo
    <3>2. CASE k \in guest /\ Head(s) # Release(k)
      <4>1. PICK j \in 1..n : s[j] = Release(k)
        BY <1>1, <3>2 DEF LetsGo
      <4>2. j # 1
        BY <1>1, <3>2, <4>1
      <4> QED BY <1>1, <4>1, <4>2
    <3> QED BY <1>4, <3>1, <3>2
  <2> QED BY <1>3, <2>1
<1>5. ASSUME NEW i \in 1..(n - 1), u[i] = Press(k)
      PROVE  \E j \in 1..(n - 1) : j > i /\ u[j] = Release(k)
  <2>1. i + 1 \in 1..n /\ s[i + 1] = Press(k)
    BY <1>1, <1>2, <1>5
  <2>2. PICK j \in 1..n : j > i + 1 /\ s[j] = Release(k)
    BY <1>1, <2>1 DEF LetsGo
  <2>3. j > 1 /\ j - 1 > i
    BY <1>1, <2>2
  <2> QED BY <1>3, <2>2, <2>3
<1> QED BY <1>2, <1>4, <1>5 DEF LetsGo, u

(* release_inputs lets go of every key that is held, and presses none. *)
LEMMA ReleasesEachHeld ==
    ASSUME held \subseteq HeldKeys, IsFiniteSet(held)
    PROVE  /\ Releases \in Seq(Message)
           /\ \A k : \A i \in 1..Len(Releases) : Releases[i] # Press(k)
           /\ \A k \in held : \E i \in 1..Len(Releases) : Releases[i] = Release(k)
<1> DEFINE n == Cardinality(held)
           q == SetToSeq(held)
<1>1. n \in Nat /\ ExistsBijection(1..n, held)
  BY FS_CardinalityType
<1>2. PICK f : f \in Bijection(1..n, held)
  BY <1>1 DEF ExistsBijection
<1>3. f \in [1..n -> held] /\ IsInjective(f)
  BY <1>2 DEF Bijection, Injection
<1>4. q \in [1..n -> held] /\ IsInjective(q)
  BY <1>3 DEF SetToSeq
<1> HIDE DEF q
<1>5. q \in Injection(1..n, held)
  BY <1>4 DEF Injection
<1>6. IsFiniteSet(1..n) /\ Cardinality(1..n) = n
  BY <1>1, FS_Interval
<1>7. q \in Surjection(1..n, held)
  BY <1>5, <1>6, FS_Injection
<1>8. \A k \in held : \E i \in 1..n : q[i] = k
  BY <1>7 DEF Surjection
<1> HIDE DEF n
<1>9. Len(q) = n
  BY <1>1, <1>4
<1>10. Releases = [i \in 1..n |-> Release(q[i])]
  BY <1>9 DEF Releases, Release, q
<1> DEFINE r == [i \in 1..n |-> Release(q[i])]
<1>11. \A i \in 1..n : r[i] = Release(q[i]) /\ r[i] \in Message
  BY <1>4 DEF Press, Release, Says, Message
<1>12. r \in [1..n -> Message]
  BY <1>11
<1>13. \A i \in 1..n : \A k : r[i] # Press(k)
  BY <1>11 DEF Press, Release, Says
<1> HIDE DEF r
<1>14. r \in Seq(Message) /\ Len(r) = n
  BY <1>1, <1>12
<1> QED BY <1>8, <1>10, <1>11, <1>13, <1>14 DEF r

(* Nothing is held when the viewer starts. *)
LEMMA InitHeldInv == ViewerInit => HeldInv
<1> SUFFICES ASSUME ViewerInit PROVE HeldInv
  OBVIOUS
<1>1. outbound = <<>> /\ Len(outbound) = 0 /\ <<>> \in Seq(Message) /\ IsFiniteSet({})
  BY FS_EmptySet DEF ViewerInit
<1>2. \A k \in HeldKeys : LetsGo(outbound, k, {})
  BY <1>1 DEF LetsGo
<1>3. guestHeld = {}
  BY DEF ViewerInit
<1>4. LetGoOnTheWay
  BY <1>2, <1>3 DEF LetGoOnTheWay
<1> QED BY <1>1, <1>4 DEF ViewerInit, HeldInv, HeldTypes, HoldsWithGrab

(* A key that is pressed is held. *)
LEMMA PressHeldInv ==
    ASSUME HeldInv, NEW key \in HeldKeys, PressButton(key)
    PROVE  HeldInv'
<1> USE DEF HeldInv
<1> DEFINE t == <<Press(key)>>
<1>1. t \in Seq(Message) /\ Len(t) = 1 /\ t[1] = Press(key)
  BY DEF Press, Release, Says, Message
<1>2. outbound' = outbound \o t /\ outbound' \in Seq(Message)
  <2>1. outbound' = Append(outbound, Press(key)) /\ outbound \in Seq(Message)
    BY DEF PressButton, HeldTypes, Press
  <2>2. Press(key) \in Message
    BY DEF Press, Release, Says, Message
  <2> QED BY <1>1, <2>1, <2>2, AppendIsConcat, AppendProperties
<1>3. held' = held \union {key} /\ IsFiniteSet(held') /\ held' \subseteq HeldKeys
  BY FS_AddElement DEF PressButton, HeldTypes
<1>4. UNCHANGED <<session, guestHeld, windowOpen>> /\ grabbed' = TRUE /\ windowOpen
  BY DEF PressButton, netVars
<1> HIDE DEF t
<1>5. ASSUME NEW k \in HeldKeys \ held', session \in {"none", "open"}
      PROVE  LetsGo(outbound', k, guestHeld)
  <2>1. LetsGo(outbound, k, guestHeld)
    BY <1>3, <1>5 DEF LetGoOnTheWay
  <2>2. \A i \in 1..Len(t) : t[i] # Press(k)
    BY <1>1, <1>3 DEF Press, Release, Says
  <2> QED BY <1>1, <1>2, <2>1, <2>2, ConcatLetsGo DEF HeldTypes
<1>6. LetGoOnTheWay'
  BY <1>4, <1>5 DEF LetGoOnTheWay
<1> QED BY <1>2, <1>3, <1>4, <1>6 DEF HeldTypes, HoldsWithGrab

(* A key that is let go of has its release behind all that is on its way. *)
LEMMA ReleaseHeldInv ==
    ASSUME HeldInv, NEW key \in HeldKeys, ReleaseKey(key)
    PROVE  HeldInv'
<1> USE DEF HeldInv
<1> DEFINE t == <<Release(key)>>
<1>1. t \in Seq(Message) /\ Len(t) = 1 /\ t[1] = Release(key)
  BY DEF Press, Release, Says, Message
<1>2. outbound' = outbound \o t /\ outbound' \in Seq(Message)
  <2>1. outbound' = Append(outbound, Release(key)) /\ outbound \in Seq(Message)
    BY DEF ReleaseKey, HeldTypes, Release
  <2>2. Release(key) \in Message
    BY DEF Press, Release, Says, Message
  <2> QED BY <1>1, <2>1, <2>2, AppendIsConcat, AppendProperties
<1>3. held' = held \ {key} /\ IsFiniteSet(held') /\ held' \subseteq HeldKeys
  BY FS_RemoveElement DEF ReleaseKey, HeldTypes
<1>4. UNCHANGED <<session, guestHeld, windowOpen, grabbed>> /\ grabbed
  BY DEF ReleaseKey, netVars
<1> HIDE DEF t
<1>5. ASSUME NEW k \in HeldKeys \ held', session \in {"none", "open"}
      PROVE  LetsGo(outbound', k, guestHeld)
  <2>1. \A i \in 1..Len(t) : t[i] # Press(k)
    BY <1>1 DEF Press, Release, Says
  <2>2. CASE k = key
    <3>1. \E i \in 1..Len(t) : t[i] = Release(k)
      BY <1>1, <2>2
    <3> QED BY <1>1, <1>2, <2>1, <3>1, ConcatLetsGo DEF HeldTypes
  <2>3. CASE k # key
    <3>1. LetsGo(outbound, k, guestHeld)
      BY <1>3, <1>5, <2>3 DEF LetGoOnTheWay
    <3> QED BY <1>1, <1>2, <2>1, <3>1, ConcatLetsGo DEF HeldTypes
  <2> QED BY <2>2, <2>3
<1>6. LetGoOnTheWay'
  BY <1>4, <1>5 DEF LetGoOnTheWay
<1> QED BY <1>2, <1>3, <1>4, <1>6 DEF HeldTypes, HoldsWithGrab

(* release_inputs behind all that is on its way lets go of everything. *)
LEMMA ReleasesLetGo ==
    ASSUME HeldInv, session \in {"none", "open"}, NEW k \in HeldKeys
    PROVE  LetsGo(outbound \o Releases, k, guestHeld)
<1>1. /\ Releases \in Seq(Message)
      /\ \A i \in 1..Len(Releases) : Releases[i] # Press(k)
      /\ k \in held => \E i \in 1..Len(Releases) : Releases[i] = Release(k)
  BY ReleasesEachHeld DEF HeldInv, HeldTypes
<1>2. k \notin held => LetsGo(outbound, k, guestHeld)
  BY DEF HeldInv, LetGoOnTheWay
<1> QED BY <1>1, <1>2, ConcatLetsGo DEF HeldInv, HeldTypes

(* Without the grab nothing is held, and its releases are on their way. *)
LEMMA UngrabHeldInv ==
    ASSUME HeldInv, LoseGrab \/ CloseWindow
    PROVE  HeldInv'
<1> USE DEF HeldInv
<1>1. /\ UNCHANGED <<session, guestHeld>>
      /\ held' = {} /\ grabbed' = FALSE /\ windowOpen' \in BOOLEAN
  BY DEF LoseGrab, CloseWindow, netVars, HeldTypes
<1>2. outbound \o Releases \in Seq(Message)
  BY ReleasesEachHeld, ConcatProperties DEF HeldTypes
<1>3. outbound' \in Seq(Message)
  BY <1>2 DEF LoseGrab, CloseWindow, HeldTypes
<1>4. session \in {"none", "open"} => outbound' = outbound \o Releases
  BY DEF LoseGrab, CloseWindow
<1>5. session \in {"none", "open"} =>
        \A k \in HeldKeys : LetsGo(outbound', k, guestHeld)
  BY <1>4, ReleasesLetGo
<1>6. LetGoOnTheWay'
  BY <1>1, <1>5 DEF LetGoOnTheWay
<1> QED BY <1>1, <1>3, <1>6, FS_EmptySet DEF HeldTypes, HoldsWithGrab

(* A message arrives in the guest; a session that the window ends has sent all. *)
LEMMA ForwardHeldInv ==
    ASSUME HeldInv, ForwardInput
    PROVE  HeldInv'
<1> USE DEF HeldInv
<1>1. UNCHANGED <<grabbed, held, windowOpen>> /\ session = "open"
  BY DEF ForwardInput
<1>2. CASE outbound # <<>>
  <2> DEFINE m == Head(outbound)
  <2>1. /\ guestHeld' = IF m.down THEN guestHeld \union {m.key} ELSE guestHeld \ {m.key}
        /\ outbound' = Tail(outbound) /\ session' = session
    BY <1>2 DEF ForwardInput
  <2>2. m \in Message /\ outbound' \in Seq(Message)
    BY <1>2, <2>1, HeadTailProperties DEF HeldTypes
  <2>3. m = [key |-> m.key, down |-> m.down] /\ m.key \in HeldKeys /\ m.down \in BOOLEAN
    BY <2>2 DEF Message
  <2> HIDE DEF m
  <2>4. guestHeld' \subseteq HeldKeys
    BY <2>1, <2>3 DEF HeldTypes
  <2>5. ASSUME NEW k \in HeldKeys \ held
        PROVE  LetsGo(outbound', k, guestHeld')
    <3>1. LetsGo(outbound, k, guestHeld)
      BY <1>1, <2>5 DEF LetGoOnTheWay
    <3>2. k \in guestHeld' => m = Press(k) \/ (k \in guestHeld /\ m # Release(k))
      BY <2>1, <2>3 DEF Press, Release, Says
    <3> QED BY <1>2, <2>1, <3>1, <3>2, TailLetsGo DEF HeldTypes, m
  <2>6. LetGoOnTheWay'
    BY <1>1, <2>5 DEF LetGoOnTheWay
  <2> QED BY <1>1, <2>1, <2>2, <2>4, <2>6 DEF HeldTypes, HoldsWithGrab
<1>3. CASE outbound = <<>>
  <2>1. ~windowOpen /\ session' = "left" /\ UNCHANGED <<outbound, guestHeld>>
    BY <1>3 DEF ForwardInput, Over
  <2>2. held = {} /\ Len(outbound) = 0
    BY <1>3, <2>1 DEF HoldsWithGrab
  <2>3. \A k \in HeldKeys : k \notin guestHeld
    BY <1>1, <2>2 DEF LetGoOnTheWay, LetsGo
  <2>4. guestHeld = {}
    BY <2>3 DEF HeldTypes
  <2> QED BY <1>1, <2>1, <2>4 DEF HeldTypes, HoldsWithGrab, LetGoOnTheWay
<1> QED BY <1>2, <1>3

(* Every other step leaves what is held and what is on its way, and ends a
   session by no more than starting it or ending it otherwise. *)
LEMMA NextHeldInv == HeldInv /\ [ViewerNext]_viewerVars => HeldInv'
<1> SUFFICES ASSUME HeldInv, [ViewerNext]_viewerVars PROVE HeldInv'
  OBVIOUS
<1>1. ASSUME UNCHANGED userVars, UNCHANGED session \/ session' \notin {"none", "open", "left"}
             \/ (session = "none" /\ session' = "open")
      PROVE  HeldInv'
  BY <1>1 DEF userVars, HeldInv, HeldTypes, HoldsWithGrab, LetGoOnTheWay
<1>2. ASSUME NEW b \in BOOLEAN, StreamerPublishes(b) \/ StreamerReplays(b) PROVE HeldInv'
  BY <1>1, <1>2 DEF StreamerPublishes, StreamerReplays, netVars
<1>3. ASSUME NEW b \in BOOLEAN, StartSession(b) PROVE HeldInv'
  BY <1>1, <1>3 DEF StartSession, Over
<1>4. CASE ReadRecord \/ DecoderErrs
  BY <1>1, <1>4 DEF ReadRecord, DecoderErrs
<1>5. CASE HandleDecoderError
  BY <1>1, <1>5 DEF HandleDecoderError, FallBack, Over
<1>6. CASE StreamEnds \/ ProcessEnds
  BY <1>1, <1>6 DEF StreamEnds, ProcessEnds, Over
<1>7. CASE LeaveFrame \/ WakeWindow \/ WindowWakes \/ WindowTakes
  BY <1>1, <1>7 DEF LeaveFrame, WakeWindow, WindowWakes, WindowTakes, netVars
<1>8. CASE UNCHANGED viewerVars
  BY <1>1, <1>8 DEF viewerVars, netVars
<1>9. ASSUME NEW k \in HeldKeys, PressButton(k) \/ PressKey(k) PROVE HeldInv'
  BY <1>9, PressHeldInv DEF PressKey
<1> QED
  BY <1>2, <1>3, <1>4, <1>5, <1>6, <1>7, <1>8, <1>9, ReleaseHeldInv, UngrabHeldInv, ForwardHeldInv
     DEF ViewerNext

(* Nothing that the user has let go stays down in the guest, for every set of
   keys and any order of presses, releases, grabs and messages. *)
THEOREM NothingStaysHeld == ViewerSpec => []NothingStuck
<1>1. HeldInv => NothingStuck
  <2> SUFFICES ASSUME HeldInv, session = "open", ~grabbed, outbound = <<>>
               PROVE  guestHeld = {}
    BY DEF NothingStuck, HeldInv
  <2>1. held = {} /\ Len(outbound) = 0
    BY DEF HeldInv, HoldsWithGrab
  <2>2. \A k \in HeldKeys : k \notin guestHeld
    BY <2>1 DEF HeldInv, LetGoOnTheWay, LetsGo
  <2> QED BY <2>2 DEF HeldInv, HeldTypes
<1> QED BY InitHeldInv, NextHeldInv, <1>1, PTL DEF ViewerSpec

=============================================================================
