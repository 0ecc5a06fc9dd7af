--------------------------- MODULE DevicesProofs ---------------------------
(***************************************************************************)
(* A session that changes a running machine tells the truth: what it says  *)
(* was attached, detached or ejected is so in QEMU, and a failed attach is *)
(* rolled back, for any number of sessions, events and frames and whatever *)
(* timed out before on the same connection.                                *)
(*                                                                         *)
(* Neither is inductive.  The invariant says that commands are executed    *)
(* and answered in the order of their ids and that the one awaited is the  *)
(* last that was sent: so its answer means that QEMU has nothing left to   *)
(* execute, and how far the session has come is how far QEMU has.          *)
(***************************************************************************)
EXTENDS Devices, SequenceTheorems, TLAPS

LEMMA TailIs ==
    ASSUME NEW S, NEW seq \in Seq(S), seq # <<>>
    PROVE  /\ Head(seq) = seq[1] /\ Head(seq) \in S /\ Tail(seq) \in Seq(S)
           /\ Len(seq) \in Nat /\ Len(seq) > 0 /\ Len(Tail(seq)) = Len(seq) - 1
           /\ \A n \in 1..Len(Tail(seq)) : n + 1 \in 1..Len(seq) /\ Tail(seq)[n] = seq[n + 1]
OBVIOUS

LEMMA AppendIs ==
    ASSUME NEW S, NEW seq \in Seq(S), NEW x \in S
    PROVE  /\ Append(seq, x) \in Seq(S) /\ Append(seq, x) # <<>>
           /\ Len(seq) \in Nat /\ Len(Append(seq, x)) = Len(seq) + 1
           /\ Append(seq, x)[Len(seq) + 1] = x
           /\ \A n \in 1..Len(Append(seq, x)) :
                 \/ n \in 1..Len(seq) /\ Append(seq, x)[n] = seq[n]
                 \/ n = Len(seq) + 1 /\ Append(seq, x)[n] = x
OBVIOUS

-----------------------------------------------------------------------------
(* Live devices (async_qmp.rs, devices.rs) *)

Verbs == {"add", "del", "wait", "open", "remove", "close", "change", "getfd", "add_client", "query"}
Objects == {"dev", "node", "ctl", "none"}
Steps == Verbs \X Objects
Orders == [id : Nat \ {0}, cmd : Steps]
Replies == [id : Nat, ok : BOOLEAN]
Notices == [event : {"DEVICE_DELETED", "DEVICE_UNPLUG_GUEST_ERROR", "BLOCK_IO_ERROR"}, obj : Objects]
Routes == {"idle", "attach", "detach", "eject", "change", "display", "query", "poll"}
Tasks == [op : Routes, todo : Seq(Steps), done : Seq(Objects), wait : Nat, undo : BOOLEAN,
          clean : BOOLEAN, before : SUBSET Objects,
          answer : {"none", "ok", "error", "pending"}]

DeviceTypes ==
    /\ kind \in DeviceKinds /\ present \in SUBSET Objects
    /\ leaving \subseteq present /\ \A o \in leaving : OnPci(o)
    /\ medium \in [in : BOOLEAN, open : BOOLEAN]
    /\ wire \in Seq(Orders) /\ unread \in Seq(Replies \cup Notices \cup {Garbage})
    /\ linked \in BOOLEAN /\ nextId \in Nat \ {0} /\ queued \in Seq(Notices) /\ task \in Tasks

(* Commands are executed in the order of their ids and answered before the next
   one is executed; the one awaited is the last. *)
Fifo ==
    /\ \A k, l \in 1..Len(wire) : k < l => wire[k].id < wire[l].id
    /\ \A c \in Range(wire) : c.id < nextId
    /\ \A f \in Range(unread) \cap Replies : f.id < nextId /\ \A c \in Range(wire) : f.id < c.id
    /\ wire # <<>> => linked

Awaited ==
    /\ task.op # "idle" => linked /\ task.todo # <<>>
    /\ task.wait # 0 => /\ task.op # "idle" /\ task.wait = nextId - 1 /\ task.todo[1][1] # "wait"
                        /\ \A c \in Range(wire) : c.id = task.wait => c.cmd = task.todo[1]

(* The answer to the command in hand is on its way. *)
Told(ok) == task.wait # 0 /\ [id |-> task.wait, ok |-> ok] \in Range(unread)
ToldOnce == ~(Told(TRUE) /\ Told(FALSE))

(* QEMU has nothing to execute but the command in hand. *)
Mine == \A c \in Range(wire) : c.id = task.wait

Settled(o) == o \in present /\ o \notin leaving
Just == IF Told(TRUE) THEN {task.todo[1][2]} ELSE {}

(* What an attach has made stays, and if no command was given up there is
   nothing else that was not there before. *)
Attaching ==
    task.op = "attach" /\ ~task.undo =>
        /\ Len(task.done) + Len(task.todo) = Len(Parts)
        /\ \A j \in 1..Len(task.done) : task.done[j] = Parts[j] /\ Settled(task.done[j])
        /\ \A j \in 1..Len(task.todo) : task.todo[j] = <<"add", Parts[Len(task.done) + j]>>
        /\ task.done # <<>> \/ task.clean => Mine
        /\ \A o \in Just : Settled(o)
        /\ task.clean =>
              /\ present \subseteq task.before \cup Range(task.done) \cup Just
              /\ kind # "network" /\ "node" \in Range(task.done) \cup Just => "dev" \notin present \ Just

(* A clean roll-back has the backend to remove, and can. *)
Undoing ==
    task.op = "attach" /\ task.undo =>
        /\ \A j \in 1..Len(task.todo) :
              /\ task.todo[j][1] = "del" /\ task.todo[j][2] \in {"node", "ctl"}
              /\ j > 1 => task.todo[j][2] = "ctl"
        /\ task.clean =>
              /\ Mine
              /\ present \subseteq task.before \cup {"ctl", task.todo[1][2]}
              /\ task.todo[1][2] = "node" =>
                    /\ ~Told(FALSE)
                    /\ IF Told(TRUE) THEN "node" \notin present
                                     ELSE "node" \in present /\ (kind # "network" => "dev" \notin present)

DetachSteps == <<<<"del", "dev">>, <<"wait", "dev">>, <<"del", "node">>, <<"del", "ctl">>, <<"wait", "ctl">>>>
DetachLength == CASE kind = "usb-host" -> 2 [] kind = "iso" -> 5 [] OTHER -> 3
Detached == DetachLength - Len(task.todo)

(* What a detach has removed stays away, ... *)
Detaching ==
    task.op = "detach" =>
        /\ Len(task.todo) <= DetachLength /\ ~task.undo
        /\ \A j \in 1..Len(task.todo) : task.todo[j] = DetachSteps[Detached + j]
        /\ Detached >= 1 => Mine
        /\ ~OnPci("dev") /\ (Detached >= 1 \/ Told(TRUE)) => "dev" \notin present
        /\ Detached >= 3 \/ (Detached = 2 /\ Told(TRUE)) => "node" \notin present

(* ... and nothing but the removal it waits for tells of one. *)
Awaiting ==
    task.op = "detach" /\ OnPci("dev") /\ task.clean =>
        /\ Mine
        /\ Detached >= 2 => "dev" \notin present
        /\ Event("DEVICE_DELETED", "dev") \in Range(unread) \cup Range(queued) => "dev" \notin present

EjectSteps == <<<<"open", "dev">>, <<"remove", "dev">>, <<"close", "dev">>>>
Ejected == 3 - Len(task.todo)

Ejecting ==
    task.op = "eject" =>
        /\ Len(task.todo) <= 3 /\ ~task.undo
        /\ \A j \in 1..Len(task.todo) : task.todo[j] = EjectSteps[Ejected + j]
        /\ Ejected >= 1 => Mine
        /\ Ejected >= 2 \/ (Ejected = 1 /\ Told(TRUE)) => ~medium.in
        /\ Ejected = 2 /\ Told(TRUE) => ~medium.open

Plain ==
    task.op \in {"change", "display", "query", "poll"} =>
        ~task.undo /\ \A j \in 1..Len(task.todo) : task.todo[j][1] \notin {"wait", "add"}

(* Only a disc has a controller. *)
Controllers == kind # "iso" => "ctl" \notin present /\ \A c \in Range(wire) : c.cmd # <<"add", "ctl">>

(* A device does not outlive its backend, whatever is left to execute. *)
Backed ==
    kind \notin {"network", "usb-host"} =>
        /\ "dev" \in present => "node" \in present
        /\ \A c \in Range(wire) : c.cmd = <<"add", "dev">> =>
              /\ "node" \in present
              /\ \A d \in Range(wire) : d.id < c.id => d.cmd # <<"del", "node">>

DeviceInv ==
    /\ DeviceTypes /\ Fifo /\ Awaited /\ ToldOnce
    /\ Attaching /\ Undoing /\ Detaching /\ Awaiting /\ Ejecting /\ Plain
    /\ Controllers /\ Backed

-----------------------------------------------------------------------------
LEMMA RangeTail ==
    ASSUME NEW S, NEW seq \in Seq(S), seq # <<>>
    PROVE  Head(seq) \in Range(seq) /\ Range(seq) = {Head(seq)} \cup Range(Tail(seq))
<1>1. /\ DOMAIN seq = 1..Len(seq) /\ DOMAIN Tail(seq) = 1..Len(Tail(seq)) /\ Head(seq) = seq[1]
      /\ Len(seq) \in Nat /\ Len(seq) > 0 /\ Len(Tail(seq)) = Len(seq) - 1
      /\ \A n \in 1..Len(Tail(seq)) : n + 1 \in 1..Len(seq) /\ Tail(seq)[n] = seq[n + 1]
  BY TailIs, LenProperties
<1>2. Head(seq) \in Range(seq)
  BY <1>1 DEF Range
<1>3. ASSUME NEW x \in Range(Tail(seq)) PROVE x \in Range(seq)
  BY <1>1, <1>3 DEF Range
<1>4. ASSUME NEW x \in Range(seq), x # Head(seq) PROVE x \in Range(Tail(seq))
  <2>1. PICK n \in 1..Len(seq) : x = seq[n]
    BY <1>1, <1>4 DEF Range
  <2>2. n - 1 \in 1..Len(Tail(seq)) /\ Tail(seq)[n - 1] = x
    BY <1>1, <1>4, <2>1
  <2> QED BY <1>1, <2>2 DEF Range
<1> QED BY <1>2, <1>3, <1>4

LEMMA RangeConcat ==
    ASSUME NEW S, NEW s \in Seq(S), NEW t \in Seq(S)
    PROVE  s \o t \in Seq(S) /\ Range(s \o t) = Range(s) \cup Range(t)
<1> DEFINE st == s \o t
           n == Len(s)
           m == Len(t)
<1>1. /\ st \in Seq(S) /\ DOMAIN st = 1..(n + m) /\ DOMAIN s = 1..n /\ DOMAIN t = 1..m
      /\ n \in Nat /\ m \in Nat /\ \A i \in 1..(n + m) : st[i] = IF i <= n THEN s[i] ELSE t[i - n]
  BY ConcatProperties, LenProperties
<1> HIDE DEF st, n, m
<1>2. ASSUME NEW x \in Range(st) PROVE x \in Range(s) \cup Range(t)
  <2>1. PICK i \in 1..(n + m) : x = st[i]
    BY <1>1, <1>2 DEF Range
  <2>2. CASE i <= n
    <3>1. i \in DOMAIN s /\ x = s[i]
      BY <1>1, <2>1, <2>2
    <3> QED BY <3>1 DEF Range
  <2>3. CASE ~(i <= n)
    <3>1. i - n \in DOMAIN t /\ x = t[i - n]
      BY <1>1, <2>1, <2>3
    <3> QED BY <3>1 DEF Range
  <2> QED BY <2>2, <2>3
<1>3. ASSUME NEW x \in Range(s) PROVE x \in Range(st)
  <2>1. PICK i \in 1..n : x = s[i]
    BY <1>1, <1>3 DEF Range
  <2>2. i \in 1..(n + m) /\ i <= n
    BY <1>1
  <2> QED BY <1>1, <2>1, <2>2 DEF Range
<1>4. ASSUME NEW x \in Range(t) PROVE x \in Range(st)
  <2>1. PICK i \in 1..m : x = t[i]
    BY <1>1, <1>4 DEF Range
  <2>2. i + n \in 1..(n + m) /\ ~(i + n <= n) /\ (i + n) - n = i
    BY <1>1
  <2> QED BY <1>1, <2>1, <2>2 DEF Range
<1> QED BY <1>1, <1>2, <1>3, <1>4 DEF st

LEMMA RangeAppend ==
    ASSUME NEW S, NEW seq \in Seq(S), NEW x \in S
    PROVE  Append(seq, x) \in Seq(S) /\ Range(Append(seq, x)) = Range(seq) \cup {x}
<1> DEFINE one == <<x>>
<1>1. Append(seq, x) = seq \o one /\ one \in Seq(S)
  OBVIOUS
<1>2. Range(one) = {x}
  BY DEF Range
<1> HIDE DEF one
<1> QED BY <1>1, <1>2, RangeConcat

LEMMA RangeEmpty == ASSUME NEW S, NEW seq \in Seq(S) PROVE seq = <<>> <=> Range(seq) = {}
<1>1. DOMAIN seq = 1..Len(seq) /\ Len(seq) \in Nat /\ (seq # <<>> => Len(seq) > 0)
  BY LenProperties, EmptySeq
<1>2. seq # <<>> => seq[1] \in Range(seq)
  BY <1>1 DEF Range
<1>3. Range(<<>>) = {}
  BY DEF Range
<1> QED BY <1>2, <1>3

LEMMA RangeIn == ASSUME NEW S, NEW seq \in Seq(S) PROVE Range(seq) \subseteq S
<1>1. \A k \in 1..Len(seq) : seq[k] \in S
  BY ElementOfSeq
<1> QED BY <1>1, LenProperties DEF Range

LEMMA FrameKinds ==
    ASSUME NEW f \in Replies \cup Notices \cup {Garbage}
    PROVE  /\ IsEvent(f) <=> f \in Notices
           /\ IsGarbage(f) <=> f = Garbage
           /\ ~IsEvent(f) /\ ~IsGarbage(f) <=> f \in Replies
           /\ f \in Replies => f = [id |-> f.id, ok |-> f.ok] /\ f.id \in Nat /\ f.ok \in BOOLEAN
           /\ f \in Notices => f = Event(f.event, f.obj)
<1>1. ASSUME f \in Replies PROVE DOMAIN f = {"id", "ok"} /\ f = [id |-> f.id, ok |-> f.ok] /\ f.id \in Nat /\ f.ok \in BOOLEAN
  BY <1>1 DEF Replies
<1>2. ASSUME f \in Notices PROVE DOMAIN f = {"event", "obj"} /\ f = Event(f.event, f.obj)
  BY <1>2 DEF Notices, Event
<1>3. DOMAIN Garbage = {"garbage"}
  BY DEF Garbage
<1> QED BY <1>1, <1>2, <1>3 DEF IsEvent, IsGarbage

LEMMA GarbageIs == Garbage \notin Replies /\ Garbage \notin Notices
BY DEF Garbage, Replies, Notices

LEMMA OneOf ==
    ASSUME NEW T, NEW a \in T
    PROVE  <<a>> \in Seq(T) /\ Len(<<a>>) = 1 /\ <<a>>[1] = a /\ <<a>> # <<>>
OBVIOUS

LEMMA TwoOf ==
    ASSUME NEW T, NEW a \in T, NEW b \in T
    PROVE  <<a, b>> \in Seq(T) /\ Len(<<a, b>>) = 2 /\ <<a, b>>[1] = a /\ <<a, b>>[2] = b /\ <<a, b>> # <<>>
OBVIOUS

LEMMA ThreeOf ==
    ASSUME NEW T, NEW a \in T, NEW b \in T, NEW c \in T
    PROVE  /\ <<a, b, c>> \in Seq(T) /\ Len(<<a, b, c>>) = 3 /\ <<a, b, c>> # <<>>
           /\ <<a, b, c>>[1] = a /\ <<a, b, c>>[2] = b /\ <<a, b, c>>[3] = c
OBVIOUS

LEMMA PartsAre ==
    ASSUME kind \in DeviceKinds
    PROVE  /\ Len(Parts) \in 1..3 /\ Parts \in Seq(Objects) /\ Parts # <<>>
           /\ Parts[Len(Parts)] = "dev"
           /\ \A j \in 1..Len(Parts) : /\ j < Len(Parts) => Parts[j] \in {"ctl", "node"}
                                       /\ j + 1 < Len(Parts) => Parts[j] = "ctl"
                                       /\ Parts[j] = "ctl" => kind = "iso"
           /\ kind = "iso" => Len(Parts) = 3 /\ Parts[1] = "ctl" /\ Parts[2] = "node"
           /\ kind = "usb-host" <=> Len(Parts) = 1
           /\ kind \notin {"iso", "usb-host"} => Len(Parts) = 2 /\ Parts[1] = "node"
           /\ Range(Parts) = {Parts[j] : j \in 1..Len(Parts)}
<1> DEFINE p == Parts
<1>1. CASE kind = "usb-host"
  <2>1. p = <<"dev">>
    BY <1>1 DEF Parts
  <2>2. p \in Seq(Objects) /\ Len(p) = 1 /\ p[1] = "dev" /\ DOMAIN p = 1..1 /\ p # <<>>
    BY <2>1, OneOf, LenProperties DEF Objects
  <2> HIDE DEF p
  <2> QED BY <1>1, <2>2 DEF p, Range
<1>2. CASE kind \in {"usb-image", "network"}
  <2>1. p = <<"node", "dev">>
    BY <1>2 DEF Parts
  <2>2. p \in Seq(Objects) /\ Len(p) = 2 /\ p[1] = "node" /\ p[2] = "dev" /\ DOMAIN p = 1..2 /\ p # <<>>
    BY <2>1, TwoOf, LenProperties DEF Objects
  <2> HIDE DEF p
  <2> QED BY <1>2, <2>2 DEF p, Range
<1>3. CASE kind = "iso"
  <2>1. p = <<"ctl", "node", "dev">>
    BY <1>3 DEF Parts
  <2>2. p \in Seq(Objects) /\ Len(p) = 3 /\ p[1] = "ctl" /\ p[2] = "node" /\ p[3] = "dev" /\ DOMAIN p = 1..3 /\ p # <<>>
    BY <2>1, ThreeOf, LenProperties DEF Objects
  <2> HIDE DEF p
  <2> QED BY <1>3, <2>2 DEF p, Range
<1> QED BY <1>1, <1>2, <1>3, DevicesAssumption

LEMMA StepsAre ==
    \A verb \in Verbs, obj \in Objects : <<verb, obj>> \in Steps /\ <<verb, obj>>[1] = verb /\ <<verb, obj>>[2] = obj
BY DEF Steps, Verbs, Objects

LEMMA DetachStepsAre ==
    /\ DetachSteps[1] = <<"del", "dev">> /\ DetachSteps[2] = <<"wait", "dev">>
    /\ DetachSteps[3] = <<"del", "node">> /\ DetachSteps[4] = <<"del", "ctl">>
    /\ DetachSteps[5] = <<"wait", "ctl">>
BY DEF DetachSteps

LEMMA EjectStepsAre ==
    EjectSteps[1] = <<"open", "dev">> /\ EjectSteps[2] = <<"remove", "dev">> /\ EjectSteps[3] = <<"close", "dev">>
BY DEF EjectSteps

LEMMA ProgramIs ==
    ASSUME kind \in DeviceKinds, NEW op \in Routes \ {"idle"}
    PROVE  /\ Program(op) \in Seq(Steps) /\ Program(op) # <<>>
           /\ op = "attach" => /\ Len(Program(op)) = Len(Parts)
                               /\ \A j \in 1..Len(Parts) : Program(op)[j] = <<"add", Parts[j]>>
           /\ op = "detach" => /\ Len(Program(op)) = DetachLength
                               /\ \A j \in 1..DetachLength : Program(op)[j] = DetachSteps[j]
           /\ op = "eject" => Len(Program(op)) = 3 /\ \A j \in 1..3 : Program(op)[j] = EjectSteps[j]
           /\ op \in {"change", "display", "query", "poll"} =>
                 \A j \in 1..Len(Program(op)) : Program(op)[j][1] \notin {"wait", "add"}
<1> DEFINE p == Program(op)
<1>1. CASE op = "attach"
  <2>1. p = Adds(Parts)
    BY <1>1 DEF Program
  <2>2. Len(Parts) \in 1..3 /\ Parts \in Seq(Objects) /\ \A j \in 1..Len(Parts) : Parts[j] \in Objects
    BY PartsAre, ElementOfSeq
  <2>3. \A j \in 1..Len(Parts) : <<"add", Parts[j]>> \in Steps
    BY <2>2 DEF Steps, Verbs
  <2>5. Len(Parts) \in Nat /\ p = [j \in 1..Len(Parts) |-> <<"add", Parts[j]>>]
    BY <2>1, <2>2 DEF Adds
  <2>6. p \in Seq(Steps) /\ Len(p) = Len(Parts) /\ \A j \in 1..Len(Parts) : p[j] = <<"add", Parts[j]>>
    <3> HIDE DEF p
    <3> QED BY <2>3, <2>5
  <2>4. p # <<>>
    BY <2>2, <2>6, EmptySeq
  <2> QED BY <1>1, <2>6, <2>4
<1>2. CASE op = "detach"
  <2> DEFINE a == <<<<"del", "dev">>, <<"wait", "dev">>>>
             b == IF kind = "usb-host" THEN <<>> ELSE <<<<"del", "node">>>>
             c == IF kind = "iso" THEN <<<<"del", "ctl">>, <<"wait", "ctl">>>> ELSE <<>>
             n == IF kind = "usb-host" THEN 0 ELSE 1
             m == IF kind = "iso" THEN 2 ELSE 0
  <2>1. p = (a \o b) \o c
    BY <1>2 DEF Program
  <2>2. a \in Seq(Steps) /\ Len(a) = 2 /\ a[1] = DetachSteps[1] /\ a[2] = DetachSteps[2]
    BY TwoOf, StepsAre, DetachStepsAre DEF Verbs, Objects
  <2>3. b \in Seq(Steps) /\ Len(b) = n /\ (n = 1 => b[1] = DetachSteps[3])
    BY OneOf, StepsAre, DetachStepsAre, EmptySeq DEF Verbs, Objects
  <2>4. c \in Seq(Steps) /\ Len(c) = m /\ (m = 2 => c[1] = DetachSteps[4] /\ c[2] = DetachSteps[5])
    BY TwoOf, StepsAre, DetachStepsAre, EmptySeq DEF Verbs, Objects
  <2>5. n \in 0..1 /\ m \in {0, 2} /\ (m = 2 => n = 1) /\ DetachLength = (2 + n) + m
    BY DevicesAssumption DEF DetachLength
  <2> HIDE DEF a, b, c, n, m
  <2>10. /\ a \o b \in Seq(Steps) /\ Len(a \o b) = Len(a) + Len(b)
         /\ \A i \in 1..(Len(a) + Len(b)) : (a \o b)[i] = IF i <= Len(a) THEN a[i] ELSE b[i - Len(a)]
    BY <2>2, <2>3, ConcatProperties
  <2>6. /\ a \o b \in Seq(Steps) /\ Len(a \o b) = 2 + n
        /\ \A i \in 1..(2 + n) : (a \o b)[i] = IF i <= 2 THEN a[i] ELSE b[i - 2]
    BY <2>2, <2>3, <2>5, <2>10
  <2>7. /\ p \in Seq(Steps) /\ Len(p) = (2 + n) + m
        /\ \A i \in 1..((2 + n) + m) : p[i] = IF i <= 2 + n THEN (a \o b)[i] ELSE c[i - (2 + n)]
    BY <2>1, <2>4, <2>5, <2>6, ConcatProperties
  <2> HIDE DEF p
  <2>8. ASSUME NEW j \in 1..((2 + n) + m) PROVE p[j] = DetachSteps[j]
    <3>1. CASE j <= 2
      BY <2>2, <2>5, <2>6, <2>7, <3>1
    <3>2. CASE j = 3
      BY <2>3, <2>5, <2>6, <2>7, <3>2
    <3>3. CASE j > 3
      BY <2>4, <2>5, <2>7, <3>3
    <3> QED BY <2>5, <3>1, <3>2, <3>3
  <2>9. p # <<>>
    BY <2>5, <2>7, EmptySeq
  <2> QED BY <1>2, <2>5, <2>7, <2>8, <2>9 DEF p
<1>3. CASE op = "eject"
  <2>1. p = EjectSteps
    BY <1>3 DEF Program, EjectSteps
  <2>2. p \in Seq(Steps) /\ Len(p) = 3 /\ p # <<>>
    BY <2>1, ThreeOf, StepsAre DEF EjectSteps, Verbs, Objects
  <2> HIDE DEF p
  <2> QED BY <1>3, <2>1, <2>2 DEF p
<1>4. CASE op \in {"change", "query", "poll"}
  <2> DEFINE a == IF op = "change" THEN <<"change", "dev">> ELSE <<"query", "none">>
  <2>1. p = <<a>>
    BY <1>4 DEF Program
  <2>2. a \in Steps /\ a[1] \in {"change", "query"}
    BY StepsAre DEF Verbs, Objects
  <2> HIDE DEF a
  <2>3. p \in Seq(Steps) /\ Len(p) = 1 /\ p # <<>> /\ p[1] = a
    BY <2>1, <2>2, OneOf
  <2> HIDE DEF p
  <2> QED BY <1>4, <2>2, <2>3 DEF p
<1>5. CASE op = "display"
  <2>1. p = <<<<"getfd", "none">>, <<"add_client", "none">>>>
    BY <1>5 DEF Program
  <2>2. /\ p \in Seq(Steps) /\ Len(p) = 2 /\ p # <<>>
        /\ p[1] = <<"getfd", "none">> /\ p[2] = <<"add_client", "none">>
    BY <2>1, TwoOf, StepsAre DEF Verbs, Objects
  <2>3. p[1][1] = "getfd" /\ p[2][1] = "add_client"
    BY <2>2, StepsAre DEF Verbs, Objects
  <2> HIDE DEF p
  <2> QED BY <1>5, <2>2, <2>3 DEF p
<1> QED BY <1>1, <1>2, <1>3, <1>4, <1>5 DEF Routes

LEMMA DeviceStart == DevicesInit => DeviceInv
<1> SUFFICES ASSUME DevicesInit PROVE DeviceInv
  OBVIOUS
<1>1. /\ task = NoTask /\ wire = <<>> /\ unread = <<>> /\ queued = <<>> /\ leaving = {}
      /\ kind \in DeviceKinds /\ present \in {{}, Range(Parts)}
  BY DEF DevicesInit
<1>2. Range(<<>>) = {}
  BY DEF Range
<1>3. Range(Parts) \subseteq Objects
  BY <1>1, PartsAre, RangeIn
<1>4. DeviceTypes
  <2>1. task \in Tasks
    <3>1. <<>> \in Seq(Steps) /\ <<>> \in Seq(Objects)
      BY EmptySeq
    <3> QED BY <1>1, <3>1 DEF NoTask, Tasks, Routes
  <2>2. wire \in Seq(Orders) /\ unread \in Seq(Replies \cup Notices \cup {Garbage}) /\ queued \in Seq(Notices)
    BY <1>1, EmptySeq
  <2>3. kind \in DeviceKinds /\ present \in SUBSET Objects /\ leaving \subseteq present /\ \A o \in leaving : OnPci(o)
    BY <1>1, <1>3
  <2>4. linked \in BOOLEAN /\ nextId \in Nat \ {0}
    <3>1. linked \in BOOLEAN
      BY Zenon DEF DevicesInit
    <3> QED BY <3>1 DEF DevicesInit
  <2>5. medium \in [in : BOOLEAN, open : BOOLEAN]
    <3>1. medium = [in |-> TRUE, open |-> FALSE]
      BY DEF DevicesInit
    <3> QED BY <3>1
  <2> QED BY <2>1, <2>2, <2>3, <2>4, <2>5 DEF DeviceTypes
<1>5. Fifo /\ Awaited
  BY <1>1, <1>2, EmptySeq DEF Fifo, Awaited, NoTask
<1>6. ToldOnce /\ Attaching /\ Undoing /\ Detaching /\ Awaiting /\ Ejecting /\ Plain
  BY <1>1 DEF ToldOnce, Told, Attaching, Undoing, Detaching, Awaiting, Ejecting, Plain, NoTask
<1>7. Controllers
  <2>1. kind # "iso" => "ctl" \notin Range(Parts)
    BY <1>1, PartsAre
  <2> QED BY <1>1, <1>2, <2>1 DEF Controllers
<1>8. Backed
  <2>1. kind \notin {"network", "usb-host"} => "node" \in Range(Parts)
    <3>1. CASE kind = "iso"
      BY <1>1, <3>1, PartsAre
    <3>2. CASE kind # "iso"
      BY <1>1, <3>2, PartsAre
    <3> QED BY <3>1, <3>2
  <2> QED BY <1>1, <1>2, <2>1 DEF Backed
<1> QED BY <1>4, <1>5, <1>6, <1>7, <1>8 DEF DeviceInv

Frame == Replies \cup Notices \cup {Garbage}

LEMMA TaskIs ==
    ASSUME DeviceTypes
    PROVE  /\ task.op \in Routes /\ task.todo \in Seq(Steps) /\ task.done \in Seq(Objects) /\ task.wait \in Nat
           /\ task.undo \in BOOLEAN /\ task.clean \in BOOLEAN /\ task.before \in SUBSET Objects
           /\ Len(task.todo) \in Nat /\ Len(task.done) \in Nat
           /\ task.todo # <<>> => 1 \in 1..Len(task.todo)
           /\ Range(task.done) = {task.done[j] : j \in 1..Len(task.done)}
<1>1. /\ task.op \in Routes /\ task.todo \in Seq(Steps) /\ task.done \in Seq(Objects) /\ task.wait \in Nat
      /\ task.undo \in BOOLEAN /\ task.clean \in BOOLEAN /\ task.before \in SUBSET Objects
  BY DEF DeviceTypes, Tasks
<1> QED BY <1>1, EmptySeq, LenProperties DEF Range

LEMMA AttachIs ==
    ASSUME DeviceTypes, Awaited, Attaching, task.op = "attach", ~task.undo
    PROVE  /\ Len(task.todo) > 0 /\ task.todo # <<>> /\ Len(Parts) \in 1..3
           /\ Len(task.done) + Len(task.todo) = Len(Parts) /\ Len(task.done) + 1 \in 1..Len(Parts)
           /\ \A j \in 1..Len(task.done) : /\ j \in 1..Len(Parts) /\ j < Len(Parts)
                                           /\ task.done[j] = Parts[j] /\ Settled(task.done[j])
           /\ task.todo[1] = <<"add", Parts[Len(task.done) + 1]>>
           /\ task.todo[1][1] = "add" /\ task.todo[1][2] = Parts[Len(task.done) + 1]
           /\ \A j \in 1..Len(task.todo) : task.todo[j] = <<"add", Parts[Len(task.done) + j]>>
<1>1. /\ Len(task.todo) \in Nat /\ Len(task.done) \in Nat /\ task.todo # <<>> /\ 1 \in 1..Len(task.todo)
  BY TaskIs DEF Awaited
<1>2. /\ Len(task.done) + Len(task.todo) = Len(Parts)
      /\ \A j \in 1..Len(task.done) : task.done[j] = Parts[j] /\ Settled(task.done[j])
      /\ \A j \in 1..Len(task.todo) : task.todo[j] = <<"add", Parts[Len(task.done) + j]>>
  BY DEF Attaching
<1>3. Len(Parts) \in 1..3
  BY PartsAre DEF DeviceTypes
<1>4. Len(task.todo) > 0 /\ Len(task.done) + 1 \in 1..Len(Parts)
  <2>1. Len(task.done) + Len(task.todo) = Len(Parts)
    BY <1>2
  <2> DEFINE n == Len(task.todo)
             d == Len(task.done)
             p == Len(Parts)
  <2>4. n \in Nat /\ d \in Nat /\ 1 \in 1..n
    BY <1>1
  <2>5. p \in Nat
    BY <1>3
  <2>6. d + n = p
    BY <2>1
  <2>2. n \in Nat /\ d \in Nat /\ p \in Nat /\ 1 \in 1..n /\ d + n = p
    BY <2>4, <2>5, <2>6
  <2> HIDE DEF n, d, p
  <2>3. n > 0 /\ d + 1 \in 1..p
    BY <2>2
  <2> QED BY <2>3 DEF n, d, p
<1>5. ASSUME NEW j \in 1..Len(task.done) PROVE j \in 1..Len(Parts) /\ j < Len(Parts)
  BY <1>1, <1>2, <1>3, <1>4
<1>6. task.todo[1] = <<"add", Parts[Len(task.done) + 1]>>
  BY <1>1, <1>2
<1>7. task.todo[1][1] = "add" /\ task.todo[1][2] = Parts[Len(task.done) + 1]
  BY <1>6
<1> QED BY <1>1, <1>2, <1>3, <1>4, <1>5, <1>6, <1>7

LEMMA NotReplies == \A f \in Notices \cup {Garbage} : f \notin Replies
<1>1. \A f \in Notices \cup {Garbage} : IsEvent(f) \/ IsGarbage(f)
  BY FrameKinds
<1>2. \A f \in Replies : ~IsEvent(f) /\ ~IsGarbage(f)
  BY FrameKinds
<1> QED BY <1>1, <1>2

LEMMA ToldLast ==
    ASSUME DeviceTypes, Fifo, Awaited, NEW ok \in BOOLEAN, Told(ok)
    PROVE  wire = <<>> /\ Mine /\ Range(wire) = {}
<1> DEFINE f == [id |-> task.wait, ok |-> ok]
<1>1. task.wait # 0 /\ task.wait \in Nat /\ f \in Range(unread) /\ wire \in Seq(Orders) /\ nextId \in Nat
  BY DEF Told, DeviceTypes, Tasks
<1>2. f \in Replies /\ f.id = task.wait
  BY <1>1 DEF Replies
<1>3. Range(wire) \subseteq Orders
  BY <1>1, RangeIn
<1>4. \A c \in Range(wire) : c.id \in Nat /\ task.wait < c.id /\ c.id < nextId
  <2> HIDE DEF f
  <2> QED BY <1>1, <1>2, <1>3 DEF Fifo, Orders
<1>5. task.wait = nextId - 1
  BY <1>1 DEF Awaited
<1>6. Range(wire) = {}
  BY <1>1, <1>4, <1>5
<1> QED BY <1>1, <1>6, RangeEmpty DEF Mine

LEMMA MineEmpty ==
    ASSUME DeviceTypes, Mine, task.wait = 0
    PROVE  wire = <<>> /\ Range(wire) = {}
<1>1. wire \in Seq(Orders)
  BY DEF DeviceTypes
<1>2. Range(wire) \subseteq Orders
  BY <1>1, RangeIn
<1>3. Range(wire) = {}
  BY <1>2 DEF Mine, Orders
<1> QED BY <1>1, <1>3, RangeEmpty

(* What the guest does: devices that were to leave leave, and events come. *)
LEMMA GuestStep ==
    ASSUME DeviceInv, UNCHANGED <<kind, medium, wire, linked, nextId, queued, task>>,
           present' \subseteq present, leaving' \subseteq leaving \cap present',
           \A o \in present \ present' : o \in leaving \/ (o = "dev" /\ "ctl" \in leaving),
           NEW E \in SUBSET Notices, unread' \in Seq(Frame), Range(unread') = Range(unread) \cup E,
           Event("DEVICE_DELETED", "dev") \in E => "dev" \notin present'
    PROVE  DeviceInv'
<1>1. /\ kind' = kind /\ wire' = wire /\ nextId' = nextId /\ task' = task /\ linked' = linked
      /\ medium' = medium /\ queued' = queued /\ kind \in DeviceKinds
      /\ DeviceTypes /\ Fifo /\ Awaited /\ ToldOnce /\ Attaching /\ Undoing /\ Detaching /\ Awaiting
      /\ Ejecting /\ Plain /\ Controllers /\ Backed
  BY DEF DeviceInv, DeviceTypes
<1>2. Parts' = Parts /\ DetachLength' = DetachLength /\ Detached' = Detached /\ Ejected' = Ejected
      /\ (Mine' <=> Mine) /\ (OnPci("dev")' <=> OnPci("dev"))
  BY <1>1 DEF Parts, DetachLength, Detached, Ejected, Mine, OnPci
<1>3. \A r \in Replies : r \in Range(unread') <=> r \in Range(unread)
  BY NotReplies
<1>4. (Told(TRUE)' <=> Told(TRUE)) /\ (Told(FALSE)' <=> Told(FALSE)) /\ Just' = Just
  <2>1. task.wait \in Nat
    BY <1>1 DEF DeviceTypes, Tasks
  <2>2. [id |-> task.wait, ok |-> TRUE] \in Replies /\ [id |-> task.wait, ok |-> FALSE] \in Replies
    BY <2>1 DEF Replies
  <2> QED BY <1>1, <1>3, <2>2 DEF Told, Just
<1>5. "node" \in present => "node" \in present'
  BY <1>1 DEF DeviceTypes, OnPci
<1>6. DeviceTypes'
  BY <1>1 DEF DeviceTypes, Frame, OnPci
<1>7. /\ Fifo' /\ Awaited' /\ ToldOnce' /\ Plain' /\ Ejecting' /\ Controllers' /\ Backed'
  <2>1. Fifo'
    BY <1>1, <1>3 DEF Fifo
  <2>2. Awaited'
    BY <1>1 DEF Awaited
  <2>5. ToldOnce' /\ Plain'
    BY <1>1, <1>4 DEF ToldOnce, Plain
  <2>3. Ejecting'
    BY <1>1, <1>2, <1>4 DEF Ejecting
  <2>4. Controllers' /\ Backed'
    BY <1>1, <1>5 DEF Controllers, Backed
  <2> QED BY <2>1, <2>2, <2>3, <2>4, <2>5
<1>8. Attaching'
  <2> SUFFICES ASSUME task.op = "attach", ~task.undo PROVE Attaching'
    BY <1>1 DEF Attaching
  <2>1. /\ Len(task.done) \in Nat /\ Len(Parts) \in 1..3 /\ Len(task.done) + 1 \in 1..Len(Parts)
        /\ \A j \in 1..Len(task.done) : /\ j \in 1..Len(Parts) /\ j < Len(Parts)
                                        /\ task.done[j] = Parts[j] /\ Settled(task.done[j])
        /\ task.todo[1][2] = Parts[Len(task.done) + 1]
    BY <1>1, AttachIs, TaskIs
  <2>2. ASSUME NEW o \in Range(task.done) \cup Just, NEW j \in 1..Len(Parts), o = Parts[j],
               Settled(o), j = Len(Parts) => Len(task.done) = Len(Parts) - 1
        PROVE  Settled(o)'
    <3>1. CASE o \in present'
      BY <2>2, <3>1 DEF Settled
    <3>2. CASE o \notin present'
      <4>1. o = "dev" /\ "ctl" \in leaving
        BY <2>2, <3>2 DEF Settled
      <4>2. kind = "iso" /\ "ctl" \in present
        BY <1>1, <4>1 DEF Controllers, DeviceTypes
      <4>3. Len(Parts) = 3 /\ Parts[1] = "ctl" /\ Parts[2] = "node"
        BY <1>1, <4>2, PartsAre
      <4>4. j = 3
        <5>1. j \in 1..3
          BY <2>2, <4>3
        <5>2. j = 1 \/ j = 2 \/ j = 3
          BY <5>1
        <5> QED BY <2>2, <4>1, <4>3, <5>2
      <4>5. 1 \in 1..Len(task.done) /\ task.done[1] = "ctl"
        BY <2>1, <2>2, <4>3, <4>4
      <4> QED BY <2>1, <4>1, <4>5 DEF Settled
    <3> QED BY <3>1, <3>2
  <2>3. ASSUME NEW k \in 1..Len(task.done) PROVE Settled(task.done[k])'
    <3>1. task.done[k] = Parts[k] /\ k \in 1..Len(Parts) /\ k < Len(Parts) /\ Settled(task.done[k])
      BY <2>1
    <3>2. task.done[k] \in Range(task.done)
      BY <1>1, TaskIs
    <3>3. k # Len(Parts)
      BY <2>1, <3>1
    <3> QED BY <2>2, <3>1, <3>2, <3>3
  <2>4. ASSUME NEW o \in Just PROVE Settled(o)'
    <3>1. o = task.todo[1][2]
      BY <2>4 DEF Just
    <3>2. Settled(o)
      BY <1>1, <2>4 DEF Attaching
    <3>3. Len(task.done) + 1 = Len(Parts) => Len(task.done) = Len(Parts) - 1
      BY <2>1
    <3> QED BY <2>1, <2>2, <3>1, <3>2, <3>3
  <2> QED BY <1>1, <1>2, <1>4, <2>3, <2>4 DEF Attaching
<1>9. Undoing' /\ Detaching'
  BY <1>1, <1>2, <1>4, <1>5 DEF Undoing, Detaching
<1>10. Awaiting'
  BY <1>1, <1>2 DEF Awaiting
<1> QED BY <1>6, <1>7, <1>8, <1>9, <1>10 DEF DeviceInv

(* What QEMU does with the next command. *)
LEMMA EffectIs ==
    ASSUME DeviceTypes, NEW cmd \in Steps, NEW done \in BOOLEAN, done => Allowed(cmd),
           IF done THEN Effect(cmd) ELSE UNCHANGED qemuVars
    PROVE  /\ kind' = kind /\ medium' \in [in : BOOLEAN, open : BOOLEAN]
           /\ present' \in SUBSET Objects /\ leaving' \subseteq present' /\ \A o \in leaving' : OnPci(o)'
           /\ done /\ cmd[1] = "add" => /\ present' = present \cup {cmd[2]} /\ leaving' = leaving
                                        /\ cmd[2] \notin present
           /\ done /\ cmd[1] = "del" /\ ~OnPci(cmd[2]) => present' = present \ {cmd[2]}
           /\ ~done \/ cmd[1] # "add" => present' \subseteq present
           /\ "node" \in present /\ "node" \notin present' =>
                 cmd = <<"del", "node">> /\ (kind = "network" \/ "dev" \notin present)
           /\ cmd[1] \notin {"add", "change", "remove"} => medium'.in = medium.in
           /\ done /\ cmd[1] = "remove" => ~medium'.in
           /\ done /\ cmd[1] = "close" => ~medium'.open
           /\ cmd[1] = "remove" => (medium'.in => medium.in)
<1>1. cmd[1] \in Verbs /\ cmd[2] \in Objects /\ cmd = <<cmd[1], cmd[2]>>
  BY DEF Steps
<1>2. CASE ~done
  BY <1>2 DEF qemuVars, DeviceTypes, OnPci
<1>3. CASE done
  <2>1. kind' = kind /\ Allowed(cmd)
    BY <1>3 DEF Effect
  <2>2. CASE cmd[1] = "add"
    <3>1. present' = present \cup {cmd[2]} /\ leaving' = leaving /\ cmd[2] \notin present
          /\ medium' = [in |-> TRUE, open |-> FALSE]
      BY <1>3, <2>1, <2>2 DEF Effect, Allowed
    <3>2. \A o \in leaving' : OnPci(o)'
      BY <2>1, <3>1 DEF DeviceTypes, OnPci
    <3>3. medium' \in [in : BOOLEAN, open : BOOLEAN]
      BY <3>1
    <3>4. present' \in SUBSET Objects /\ leaving' \subseteq present'
      BY <1>1, <3>1 DEF DeviceTypes
    <3> QED BY <1>3, <2>1, <2>2, <3>1, <3>2, <3>3, <3>4
  <2>3. CASE cmd[1] = "del"
    <3>1. medium' = medium /\ cmd[2] \in present
      BY <1>1, <1>3, <2>1, <2>3 DEF Effect, Allowed
    <3>2. CASE OnPci(cmd[2])
      <4>1. present' = present /\ leaving' = leaving \cup {cmd[2]}
        BY <1>3, <2>3, <3>2 DEF Effect
      <4>2. \A o \in leaving' : OnPci(o)'
        BY <2>1, <3>2, <4>1 DEF DeviceTypes, OnPci
      <4> QED BY <1>1, <1>3, <2>1, <2>3, <3>1, <3>2, <4>1, <4>2 DEF DeviceTypes
    <3>3. CASE ~OnPci(cmd[2])
      <4>1. present' = present \ {cmd[2]} /\ leaving' = leaving
        BY <1>3, <2>3, <3>3 DEF Effect
      <4>2. \A o \in leaving' : OnPci(o)'
        BY <2>1, <4>1 DEF DeviceTypes, OnPci
      <4>3. leaving' \subseteq present'
        BY <3>3, <4>1 DEF DeviceTypes
      <4>4. cmd[2] = "node" => cmd = <<"del", "node">> /\ (kind = "network" \/ "dev" \notin present)
        <5> SUFFICES ASSUME cmd[2] = "node" PROVE cmd = <<"del", "node">> /\ (kind = "network" \/ "dev" \notin present)
          OBVIOUS
        <5>1. cmd = <<"del", "node">>
          BY <1>1, <2>3
        <5>2. Allowed(<<"del", "node">>) => kind = "network" \/ "dev" \notin present
          BY DEF Allowed
        <5> QED BY <2>1, <5>1, <5>2
      <4> QED BY <1>1, <1>3, <2>1, <2>3, <3>1, <3>3, <4>1, <4>2, <4>3, <4>4 DEF DeviceTypes
    <3> QED BY <3>2, <3>3
  <2>4. CASE cmd[1] \notin {"add", "del"}
    <3>1. present' = present /\ leaving' = leaving
      BY <1>3, <2>4 DEF Effect
    <3>2. \A o \in leaving' : OnPci(o)'
      BY <2>1, <3>1 DEF DeviceTypes, OnPci
    <3>3. medium' \in [in : BOOLEAN, open : BOOLEAN]
          /\ (cmd[1] \notin {"change", "remove"} => medium'.in = medium.in)
          /\ (cmd[1] = "remove" => ~medium'.in) /\ (cmd[1] = "close" => ~medium'.open)
      <4>1. medium \in [in : BOOLEAN, open : BOOLEAN]
        BY DEF DeviceTypes
      <4>2. medium' = CASE cmd[1] = "change" -> [in |-> TRUE, open |-> FALSE]
                        [] cmd[1] = "open" -> [medium EXCEPT !.open = TRUE]
                        [] cmd[1] = "remove" -> [medium EXCEPT !.in = FALSE]
                        [] cmd[1] = "close" -> [medium EXCEPT !.open = FALSE]
                        [] OTHER -> medium
        BY <1>3, <2>4 DEF Effect
      <4> QED BY <2>4, <4>1, <4>2
    <3> QED BY <1>1, <2>1, <2>4, <3>1, <3>2, <3>3 DEF DeviceTypes
  <2> QED BY <2>2, <2>3, <2>4
<1> QED BY <1>2, <1>3

LEMMA OnPciIs == /\ ~OnPci("node") /\ OnPci("ctl") /\ (OnPci("dev") <=> kind = "network") /\ ~OnPci("none")
                 /\ (kind' = kind => (OnPci("dev")' <=> OnPci("dev")))
BY DEF OnPci

LEMMA DetachIs ==
    ASSUME DeviceTypes, Awaited, Detaching, task.op = "detach"
    PROVE  /\ Detached \in 0..4 /\ Detached < DetachLength /\ DetachLength \in {2, 3, 5}
           /\ Len(task.todo) = DetachLength - Detached
           /\ task.todo[1] = DetachSteps[Detached + 1]
           /\ task.todo[1][1] \in {"del", "wait"}
           /\ Detached = 0 => task.todo[1] = <<"del", "dev">>
           /\ Detached = 1 => task.todo[1] = <<"wait", "dev">>
           /\ Detached = 2 => task.todo[1] = <<"del", "node">>
           /\ Detached = 3 => task.todo[1] = <<"del", "ctl">>
           /\ Detached = 4 => task.todo[1] = <<"wait", "ctl">>
<1> DEFINE n == Len(task.todo)
           l == DetachLength
           d == Detached
<1>1. n \in Nat /\ 1 \in 1..n
  BY TaskIs DEF Awaited
<1>2. l \in {2, 3, 5} /\ n <= l /\ d = l - n
  BY DEF DetachLength, Detaching, Detached
<1>3. task.todo[1] = DetachSteps[d + 1]
  BY <1>1 DEF Detaching
<1> HIDE DEF n, l, d
<1>4. d \in 0..4 /\ d < l /\ n = l - d
  BY <1>1, <1>2
<1>5. d = 0 \/ d = 1 \/ d = 2 \/ d = 3 \/ d = 4
  BY <1>4
<1>6. /\ d = 0 => task.todo[1] = <<"del", "dev">>
      /\ d = 1 => task.todo[1] = <<"wait", "dev">>
      /\ d = 2 => task.todo[1] = <<"del", "node">>
      /\ d = 3 => task.todo[1] = <<"del", "ctl">>
      /\ d = 4 => task.todo[1] = <<"wait", "ctl">>
  BY <1>3, DetachStepsAre
<1>7. task.todo[1][1] \in {"del", "wait"}
  BY <1>5, <1>6
<1> QED BY <1>2, <1>3, <1>4, <1>6, <1>7 DEF n, l, d

LEMMA EjectIs ==
    ASSUME DeviceTypes, Awaited, Ejecting, task.op = "eject"
    PROVE  /\ Ejected \in 0..2 /\ Len(task.todo) = 3 - Ejected
           /\ task.todo[1] = EjectSteps[Ejected + 1]
           /\ Ejected = 0 => task.todo[1] = <<"open", "dev">>
           /\ Ejected = 1 => task.todo[1] = <<"remove", "dev">>
           /\ Ejected = 2 => task.todo[1] = <<"close", "dev">>
           /\ task.todo[1][1] \in {"open", "remove", "close"}
<1> DEFINE n == Len(task.todo)
           d == Ejected
<1>1. n \in Nat /\ 1 \in 1..n
  BY TaskIs DEF Awaited
<1>2. n <= 3 /\ d = 3 - n
  BY DEF Ejecting, Ejected
<1>3. task.todo[1] = EjectSteps[d + 1]
  BY <1>1 DEF Ejecting
<1> HIDE DEF n, d
<1>4. d \in 0..2 /\ n = 3 - d /\ (d = 0 \/ d = 1 \/ d = 2)
  BY <1>1, <1>2
<1>5. /\ d = 0 => task.todo[1] = <<"open", "dev">>
      /\ d = 1 => task.todo[1] = <<"remove", "dev">>
      /\ d = 2 => task.todo[1] = <<"close", "dev">>
  BY <1>3, EjectStepsAre
<1>6. task.todo[1][1] \in {"open", "remove", "close"}
  BY <1>4, <1>5
<1> QED BY <1>3, <1>4, <1>5, <1>6 DEF n, d

(* A command at the head of what QEMU has to execute. *)
LEMMA ExecuteFacts ==
    ASSUME DeviceInv, NEW ok \in BOOLEAN, QemuExecutes(ok)
    PROVE  \E h \in Range(wire) : \E done \in BOOLEAN :
           /\ h \in Orders /\ h.id # 0 /\ h.cmd \in Steps /\ wire' \in Seq(Orders)
           /\ Range(wire) = {h} \cup Range(wire')
           /\ \A c \in Range(wire') : h.id < c.id
           /\ \A k, l \in 1..Len(wire') : k < l => wire'[k].id < wire'[l].id
           /\ unread' \in Seq(Frame) /\ [id |-> h.id, ok |-> done] \in Replies
           /\ \A f \in Replies : f \in Range(unread') <=> f \in Range(unread) \/ f = [id |-> h.id, ok |-> done]
           /\ OnPci("dev") => \A f \in Notices : f \in Range(unread') => f \in Range(unread)
           /\ done <=> ok /\ Allowed(h.cmd)
           /\ ok \/ MayFail(h.cmd)
           /\ IF done THEN Effect(h.cmd) ELSE UNCHANGED qemuVars
           /\ linked /\ UNCHANGED clientVars
           /\ ~Told(TRUE) /\ ~Told(FALSE)
           /\ h.id = task.wait => h.cmd = task.todo[1] /\ wire' = <<>> /\ Range(wire') = {} /\ task.wait # 0
           /\ Mine => h.id = task.wait
<1> DEFINE h == Head(wire)
           done == ok /\ Allowed(h.cmd)
           gone == done /\ h.cmd = <<"del", "dev">> /\ ~OnPci("dev")
           first == IF gone THEN Deleted(<<"dev">>) ELSE <<>>
           r == [id |-> h.id, ok |-> done]
           last == <<r>>
<1>1. /\ DeviceTypes /\ Fifo /\ Awaited /\ wire # <<>> /\ wire \in Seq(Orders)
      /\ unread \in Seq(Frame)
  BY DEF DeviceInv, DeviceTypes, QemuExecutes, Frame
<1>2. /\ wire' = Tail(wire) /\ (ok \/ MayFail(h.cmd))
      /\ (IF done THEN Effect(h.cmd) ELSE UNCHANGED qemuVars) /\ UNCHANGED clientVars
      /\ unread' = IF linked THEN unread \o (first \o last) ELSE unread
  BY Zenon DEF QemuExecutes, Emit
<1>3. linked
  BY <1>1 DEF Fifo
<1>4. /\ h = wire[1] /\ h \in Orders /\ Tail(wire) \in Seq(Orders) /\ Len(wire) \in Nat /\ Len(wire) > 0
      /\ Len(Tail(wire)) = Len(wire) - 1
      /\ \A n \in 1..Len(Tail(wire)) : n + 1 \in 1..Len(wire) /\ Tail(wire)[n] = wire[n + 1]
  BY <1>1, TailIs
<1>5. h \in Range(wire) /\ Range(wire) = {h} \cup Range(wire')
  BY <1>1, <1>2, RangeTail
<1>6. h.id \in Nat /\ h.id # 0 /\ h.cmd \in Steps
  BY <1>4 DEF Orders
<1>7. wire' \in Seq(Orders) /\ DOMAIN wire' = 1..Len(wire')
  BY <1>2, <1>4, LenProperties
<1>8. \A c \in Range(wire') : h.id < c.id
  <2> TAKE c \in Range(wire')
  <2>1. PICK n \in 1..Len(wire') : c = wire'[n]
    BY <1>7 DEF Range
  <2>2. n + 1 \in 1..Len(wire) /\ c = wire[n + 1] /\ n \in Nat /\ 1 < n + 1 /\ 1 \in 1..Len(wire)
    BY <1>2, <1>4, <2>1
  <2> HIDE DEF h
  <2> QED BY <1>1, <1>4, <2>2 DEF Fifo
<1>9. \A k, l \in 1..Len(wire') : k < l => wire'[k].id < wire'[l].id
  <2> TAKE k, l \in 1..Len(wire')
  <2>1. /\ k + 1 \in 1..Len(wire) /\ wire'[k] = wire[k + 1]
        /\ l + 1 \in 1..Len(wire) /\ wire'[l] = wire[l + 1]
        /\ (k < l => k + 1 < l + 1)
    BY <1>2, <1>4
  <2> QED BY <1>1, <2>1 DEF Fifo
<1>10. done \in BOOLEAN /\ r \in Replies
  <2>1. done \in BOOLEAN
    BY Zenon DEF Allowed
  <2> HIDE DEF done
  <2> QED BY <1>6, <2>1 DEF Replies
<1>11. first \in Seq(Frame) /\ Range(first) \subseteq {Event("DEVICE_DELETED", "dev")} /\ (~gone => Range(first) = {})
  <2>1. CASE ~gone
    <3>1. first = <<>>
      BY <2>1
    <3> HIDE DEF first
    <3>2. first \in Seq(Frame) /\ Range(first) = {}
      BY <3>1, EmptySeq, RangeEmpty
    <3> QED BY <2>1, <3>2
  <2>2. CASE gone
    <3> DEFINE e == Event("DEVICE_DELETED", "dev")
    <3>1. e \in Frame
      BY DEF Event, Frame, Notices, Objects
    <3>2. first = [i \in 1..Len(<<"dev">>) |-> Event("DEVICE_DELETED", <<"dev">>[i])]
      BY <2>2 DEF Deleted
    <3>3. Len(<<"dev">>) = 1 /\ <<"dev">>[1] = "dev"
      OBVIOUS
    <3>4. first = [i \in 1..1 |-> e]
      BY <3>2, <3>3
    <3>5. first \in Seq(Frame) /\ Range(first) \subseteq {e}
      <4> HIDE DEF e, first
      <4> QED BY <3>1, <3>4 DEF Range
    <3> QED BY <2>2, <3>5
  <2> QED BY <2>1, <2>2
<1>12. last \in Seq(Frame) /\ Range(last) = {r}
  <2> HIDE DEF r
  <2>1. last \in Seq(Frame)
    BY <1>10 DEF Frame
  <2> QED BY <2>1 DEF Range
<1>13. unread' \in Seq(Frame) /\ Range(unread') = Range(unread) \cup (Range(first) \cup {r})
  <2> HIDE DEF first, last, r
  <2>1. first \o last \in Seq(Frame) /\ Range(first \o last) = Range(first) \cup Range(last)
    BY <1>11, <1>12, RangeConcat
  <2>2. unread' = unread \o (first \o last)
    BY <1>2, <1>3
  <2> DEFINE new == first \o last
  <2>3. new \in Seq(Frame) /\ Range(new) = Range(first) \cup {r}
    BY <1>12, <2>1
  <2>4. unread' = unread \o new
    BY <2>2
  <2> HIDE DEF new
  <2>5. unread \o new \in Seq(Frame) /\ Range(unread \o new) = Range(unread) \cup Range(new)
    BY <1>1, <2>3, RangeConcat
  <2> QED BY <2>3, <2>4, <2>5
<1>14. \A f \in Replies : f \in Range(unread') <=> f \in Range(unread) \/ f = r
  <2>1. Event("DEVICE_DELETED", "dev") \in Notices
    BY DEF Event, Notices, Objects
  <2>2. \A f \in Range(first) : f \notin Replies
    <3> HIDE DEF first
    <3> QED BY <1>11, <2>1, NotReplies
  <2> HIDE DEF first, r
  <2> QED BY <1>13, <2>2
<1>15. OnPci("dev") => \A f \in Notices : f \in Range(unread') => f \in Range(unread)
  <2> SUFFICES ASSUME OnPci("dev") PROVE \A f \in Notices : f \in Range(unread') => f \in Range(unread)
    OBVIOUS
  <2>1. Range(first) = {}
    BY <1>11
  <2>2. r \notin Notices
    BY <1>10, NotReplies
  <2> HIDE DEF first, r
  <2> QED BY <1>13, <2>1, <2>2
<1>16. ~Told(TRUE) /\ ~Told(FALSE)
  BY <1>1, ToldLast
<1>17. h.id = task.wait => h.cmd = task.todo[1] /\ wire' = <<>> /\ Range(wire') = {} /\ task.wait # 0
  <2> SUFFICES ASSUME h.id = task.wait PROVE h.cmd = task.todo[1] /\ wire' = <<>> /\ Range(wire') = {} /\ task.wait # 0
    OBVIOUS
  <2>1. task.wait # 0 /\ task.wait \in Nat
    BY <1>1, <1>6, TaskIs
  <2>2. task.wait = nextId - 1 /\ h.cmd = task.todo[1]
    <3> HIDE DEF h
    <3> QED BY <1>1, <1>5, <2>1 DEF Awaited
  <2>3. nextId \in Nat
    BY <1>1 DEF DeviceTypes
  <2>4. Range(wire') = {}
    <3> SUFFICES ASSUME NEW c \in Range(wire') PROVE FALSE
      OBVIOUS
    <3>1. c \in Range(wire) /\ h.id < c.id
      BY <1>5, <1>8
    <3>2. c.id < nextId /\ c.id \in Nat
      <4>1. c \in Orders
        BY <1>7, RangeIn
      <4> QED BY <1>1, <3>1, <4>1 DEF Fifo, Orders
    <3> HIDE DEF h
    <3> QED BY <2>1, <2>2, <2>3, <3>1, <3>2
  <2>5. wire' = <<>>
    BY <1>7, <2>4, RangeEmpty
  <2> QED BY <2>1, <2>2, <2>4, <2>5
<1>18. Mine => h.id = task.wait
  <2> HIDE DEF h
  <2> QED BY <1>5 DEF Mine
<1> WITNESS h \in Range(wire)
<1>19. done <=> ok /\ Allowed(h.cmd)
  OBVIOUS
<1> WITNESS done \in BOOLEAN
<1> HIDE DEF h, done, first, last, r
<1>20. h \in Orders /\ h.id # 0 /\ h.cmd \in Steps /\ wire' \in Seq(Orders)
  BY <1>4, <1>6, <1>7
<1> QED BY <1>2, <1>3, <1>5, <1>8, <1>9, <1>10, <1>13, <1>14, <1>15, <1>16, <1>17, <1>18, <1>19, <1>20 DEF r

LEMMA ExecuteStep == ASSUME DeviceInv, NEW ok \in BOOLEAN, QemuExecutes(ok) PROVE DeviceInv'
<1>1. PICK h \in Range(wire), done \in BOOLEAN :
           /\ h \in Orders /\ h.id # 0 /\ h.cmd \in Steps /\ wire' \in Seq(Orders)
           /\ Range(wire) = {h} \cup Range(wire')
           /\ \A c \in Range(wire') : h.id < c.id
           /\ \A k, l \in 1..Len(wire') : k < l => wire'[k].id < wire'[l].id
           /\ unread' \in Seq(Frame) /\ [id |-> h.id, ok |-> done] \in Replies
           /\ \A f \in Replies : f \in Range(unread') <=> f \in Range(unread) \/ f = [id |-> h.id, ok |-> done]
           /\ OnPci("dev") => \A f \in Notices : f \in Range(unread') => f \in Range(unread)
           /\ done <=> ok /\ Allowed(h.cmd)
           /\ ok \/ MayFail(h.cmd)
           /\ IF done THEN Effect(h.cmd) ELSE UNCHANGED qemuVars
           /\ linked /\ UNCHANGED clientVars
           /\ ~Told(TRUE) /\ ~Told(FALSE)
           /\ h.id = task.wait => h.cmd = task.todo[1] /\ wire' = <<>> /\ Range(wire') = {} /\ task.wait # 0
           /\ Mine => h.id = task.wait
  BY ExecuteFacts
<1> DEFINE cmd == h.cmd
<1>2. /\ DeviceTypes /\ Fifo /\ Awaited /\ ToldOnce /\ Attaching /\ Undoing /\ Detaching /\ Awaiting
      /\ Ejecting /\ Plain /\ Controllers /\ Backed
  BY DEF DeviceInv
<1>3. linked' = linked /\ nextId' = nextId /\ queued' = queued /\ task' = task
  BY <1>1 DEF clientVars
<1>4. /\ kind' = kind /\ medium' \in [in : BOOLEAN, open : BOOLEAN]
      /\ present' \in SUBSET Objects /\ leaving' \subseteq present' /\ \A o \in leaving' : OnPci(o)'
      /\ done /\ cmd[1] = "add" => /\ present' = present \cup {cmd[2]} /\ leaving' = leaving
                                   /\ cmd[2] \notin present
      /\ done /\ cmd[1] = "del" /\ ~OnPci(cmd[2]) => present' = present \ {cmd[2]}
      /\ ~done \/ cmd[1] # "add" => present' \subseteq present
      /\ "node" \in present /\ "node" \notin present' =>
            cmd = <<"del", "node">> /\ (kind = "network" \/ "dev" \notin present)
      /\ cmd[1] \notin {"add", "change", "remove"} => medium'.in = medium.in
      /\ done /\ cmd[1] = "remove" => ~medium'.in
      /\ done /\ cmd[1] = "close" => ~medium'.open
      /\ cmd[1] = "remove" => (medium'.in => medium.in)
  BY <1>1, <1>2, EffectIs
<1>5. ~done => UNCHANGED qemuVars
  BY <1>1
<1>6. Parts' = Parts /\ DetachLength' = DetachLength /\ Detached' = Detached /\ Ejected' = Ejected
  BY <1>3, <1>4 DEF Parts, DetachLength, Detached, Ejected
<1>7. (Mine => Mine') /\ Range(wire') \subseteq Range(wire)
  BY <1>1, <1>3 DEF Mine
<1>8. /\ Told(TRUE)' <=> h.id = task.wait /\ done
      /\ Told(FALSE)' <=> h.id = task.wait /\ ~done
  <2>1. task.wait \in Nat /\ h.id \in Nat
    BY <1>1, <1>2, TaskIs DEF Orders
  <2>2. ASSUME NEW b \in BOOLEAN
        PROVE  [id |-> task.wait, ok |-> b] \in Replies /\
               ([id |-> task.wait, ok |-> b] = [id |-> h.id, ok |-> done] <=> task.wait = h.id /\ (b <=> done))
    BY <2>1 DEF Replies
  <2>3. /\ [id |-> task.wait, ok |-> TRUE] \in Replies
        /\ ([id |-> task.wait, ok |-> TRUE] = [id |-> h.id, ok |-> done] <=> task.wait = h.id /\ done)
    BY <2>2
  <2>4. /\ [id |-> task.wait, ok |-> FALSE] \in Replies
        /\ ([id |-> task.wait, ok |-> FALSE] = [id |-> h.id, ok |-> done] <=> task.wait = h.id /\ ~done)
    BY <2>2
  <2>5. Told(TRUE)' <=> task.wait # 0 /\ [id |-> task.wait, ok |-> TRUE] \in Range(unread')
    BY <1>3 DEF Told
  <2>6. Told(FALSE)' <=> task.wait # 0 /\ [id |-> task.wait, ok |-> FALSE] \in Range(unread')
    BY <1>3 DEF Told
  <2>7. task.wait # 0 => /\ [id |-> task.wait, ok |-> TRUE] \notin Range(unread)
                         /\ [id |-> task.wait, ok |-> FALSE] \notin Range(unread)
    BY <1>1 DEF Told
  <2> QED BY <1>1, <2>3, <2>4, <2>5, <2>6, <2>7
<1>9. Just = {} /\ (Just' = IF h.id = task.wait /\ done THEN {task.todo[1][2]} ELSE {})
  BY <1>1, <1>3, <1>8 DEF Just
<1>10. Mine => cmd = task.todo[1] /\ h.id = task.wait
  BY <1>1
<1>11. DeviceTypes'
  <2>1. kind' \in DeviceKinds
    BY <1>2, <1>4 DEF DeviceTypes
  <2>2. linked' \in BOOLEAN /\ nextId' \in Nat \ {0} /\ queued' \in Seq(Notices) /\ task' \in Tasks
    BY <1>2, <1>3 DEF DeviceTypes
  <2>3. unread' \in Seq(Replies \cup Notices \cup {Garbage})
    BY <1>1 DEF Frame
  <2> QED BY <1>1, <1>4, <2>1, <2>2, <2>3 DEF DeviceTypes
<1>12. Fifo'
  <2>1. \A c \in Range(wire') : c.id < nextId'
    BY <1>2, <1>3, <1>7 DEF Fifo
  <2>2. ASSUME NEW f \in Range(unread') \cap Replies
        PROVE  f.id < nextId' /\ \A c \in Range(wire') : f.id < c.id
    <3>1. CASE f \in Range(unread)
      BY <1>2, <1>3, <1>7, <3>1 DEF Fifo
    <3>2. CASE f = [id |-> h.id, ok |-> done]
      <4>1. f.id = h.id
        BY <3>2
      <4>2. h.id < nextId
        BY <1>1, <1>2 DEF Fifo
      <4> QED BY <1>1, <1>3, <4>1, <4>2
    <3> QED BY <1>1, <2>2, <3>1, <3>2
  <2>3. linked'
    BY <1>1, <1>3
  <2> QED BY <1>1, <2>1, <2>2, <2>3 DEF Fifo
<1>13. Awaited' /\ ToldOnce' /\ Plain'
  BY <1>2, <1>3, <1>7, <1>8 DEF Awaited, ToldOnce, Plain
<1>14. Attaching'
  <2> SUFFICES ASSUME task.op = "attach", ~task.undo PROVE Attaching'
    BY <1>3 DEF Attaching
  <2>1. /\ Len(task.done) + Len(task.todo) = Len(Parts)
        /\ \A j \in 1..Len(task.done) : task.done[j] = Parts[j] /\ Settled(task.done[j])
        /\ \A j \in 1..Len(task.todo) : task.todo[j] = <<"add", Parts[Len(task.done) + j]>>
        /\ task.done # <<>> \/ task.clean => Mine
        /\ task.clean => present \subseteq task.before \cup Range(task.done)
        /\ task.clean => (kind # "network" /\ "node" \in Range(task.done) => "dev" \notin present)
    BY <1>2, <1>9 DEF Attaching
  <2>2. task.todo[1][1] = "add" /\ task.todo[1][2] \in Objects
    <3>1. task.todo[1][1] = "add" /\ task.todo[1][2] = Parts[Len(task.done) + 1] /\ Len(task.done) + 1 \in 1..Len(Parts)
      BY <1>2, AttachIs
    <3>2. \A j \in 1..Len(Parts) : Parts[j] \in Objects
      BY <1>2, PartsAre, ElementOfSeq DEF DeviceTypes
    <3> QED BY <3>1, <3>2
  <2>3. h.id = task.wait => cmd = task.todo[1] /\ cmd[1] = "add" /\ cmd[2] = task.todo[1][2]
    BY <1>1, <2>2
  <2>4. h.id = task.wait /\ done => /\ present' = present \cup {task.todo[1][2]} /\ leaving' = leaving
                                    /\ task.todo[1][2] \notin present
    BY <1>4, <2>3
  <2>5. ~done => present' = present /\ leaving' = leaving
    BY <1>5 DEF qemuVars
  <2>6. ASSUME NEW j \in 1..Len(task.done) PROVE Settled(task.done[j])'
    <3>1. task.done # <<>>
      BY <2>6, EmptySeq
    <3>2. h.id = task.wait /\ task.done[j] \in present /\ task.done[j] \notin leaving
      BY <1>10, <2>1, <3>1 DEF Settled
    <3>3. task.done[j] \in present' /\ task.done[j] \notin leaving'
      BY <2>4, <2>5, <3>2
    <3> QED BY <1>3, <3>3 DEF Settled
  <2>7. ASSUME NEW o \in Just' PROVE Settled(o)'
    <3>1. h.id = task.wait /\ done /\ o = task.todo[1][2]
      BY <1>9, <2>7
    <3>2. o \in present' /\ o \notin leaving'
      BY <1>2, <2>4, <3>1 DEF DeviceTypes
    <3> QED BY <3>2 DEF Settled
  <2>8. task.clean => present' \subseteq task.before \cup Range(task.done) \cup Just'
    BY <1>9, <1>10, <2>1, <2>4, <2>5
  <2>9. task.clean /\ kind # "network" /\ "node" \in Range(task.done) \cup Just' => "dev" \notin present' \ Just'
    <3> SUFFICES ASSUME task.clean, kind # "network", "node" \in Range(task.done) \cup Just',
                        "dev" \in present' \ Just' PROVE FALSE
      OBVIOUS
    <3>1. h.id = task.wait
      BY <1>10, <2>1
    <3>2. "dev" \in present
      BY <1>9, <2>4, <2>5, <3>1
    <3>3. "node" \in Just' /\ "node" \notin present
      BY <1>9, <2>1, <2>4, <3>1, <3>2
    <3>4. kind # "usb-host"
      <4>1. task.todo[1][2] = "node"
        BY <1>9, <3>3
      <4>2. task.todo[1][2] = Parts[Len(task.done) + 1] /\ Len(task.done) + 1 \in 1..Len(Parts)
        BY <1>2, AttachIs
      <4>3. kind = "usb-host" => Len(Parts) = 1
        BY <1>2, PartsAre DEF DeviceTypes
      <4>4. Parts[Len(Parts)] = "dev"
        BY <1>2, PartsAre DEF DeviceTypes
      <4> DEFINE i == Len(task.done) + 1
      <4>6. i \in 1..Len(Parts) /\ Parts[i] = "node"
        BY <4>1, <4>2
      <4> HIDE DEF i
      <4> SUFFICES ASSUME kind = "usb-host" PROVE FALSE
        OBVIOUS
      <4>5. Len(Parts) = 1
        BY <4>3
      <4>7. i \in 1..1
        BY <4>5, <4>6
      <4>8. i = 1
        BY <4>7
      <4> QED BY <4>4, <4>5, <4>6, <4>8
    <3> QED BY <1>2, <3>2, <3>3, <3>4 DEF Backed
  <2> QED BY <1>3, <1>4, <1>6, <1>7, <2>1, <2>6, <2>7, <2>8, <2>9 DEF Attaching
<1>15. Undoing'
  <2> SUFFICES ASSUME task.op = "attach", task.undo PROVE Undoing'
    BY <1>3 DEF Undoing
  <2>1. \A j \in 1..Len(task.todo) :
              /\ task.todo[j][1] = "del" /\ task.todo[j][2] \in {"node", "ctl"}
              /\ j > 1 => task.todo[j][2] = "ctl"
    BY <1>2 DEF Undoing
  <2> SUFFICES ASSUME task.clean
               PROVE  /\ Mine'
                      /\ present' \subseteq task.before \cup {"ctl", task.todo[1][2]}
                      /\ task.todo[1][2] = "node" => ~Told(FALSE)' /\ Told(TRUE)' /\ "node" \notin present'
    BY <1>3, <1>4, <2>1 DEF Undoing
  <2>2. /\ Mine /\ present \subseteq task.before \cup {"ctl", task.todo[1][2]}
        /\ task.todo[1][2] = "node" => "node" \in present /\ (kind # "network" => "dev" \notin present)
    BY <1>1, <1>2 DEF Undoing
  <2>3. task.todo[1][1] = "del" /\ cmd = task.todo[1] /\ h.id = task.wait
    <3>1. 1 \in 1..Len(task.todo)
      BY <1>2, TaskIs DEF Awaited
    <3> QED BY <1>10, <2>1, <2>2, <3>1
  <2>4. present' \subseteq present
    BY <1>4, <2>3
  <2>5. ASSUME task.todo[1][2] = "node" PROVE done /\ "node" \notin present'
    <3>1. cmd = <<"del", "node">> /\ cmd[1] = "del" /\ cmd[2] = "node"
      BY <1>1, <2>3, <2>5 DEF Steps
    <3>2. ~MayFail(cmd)
      BY <1>2, <3>1, OnPciIs DEF MayFail, DeviceTypes
    <3>3. Allowed(<<"del", "node">>)
      BY <2>2, <2>5 DEF Allowed
    <3>4. done
      BY <1>1, <3>1, <3>2, <3>3
    <3>5. present' = present \ {"node"}
      BY <1>4, <3>1, <3>4, OnPciIs
    <3> QED BY <3>4, <3>5
  <2> QED BY <1>7, <1>8, <2>2, <2>3, <2>4, <2>5
<1>16. ASSUME task.op = "detach" PROVE Detaching' /\ Awaiting'
  <2>1. /\ Detached \in 0..4 /\ task.todo[1][1] \in {"del", "wait"}
        /\ Detached = 0 => task.todo[1] = <<"del", "dev">>
        /\ Detached = 2 => task.todo[1] = <<"del", "node">>
    BY <1>2, <1>16, DetachIs
  <2>2. h.id = task.wait => cmd = task.todo[1] /\ present' \subseteq present
    <3>1. h.id = task.wait => cmd = task.todo[1] /\ cmd[1] # "add"
      BY <1>1, <2>1
    <3> QED BY <1>4, <3>1
  <2>3. /\ Len(task.todo) <= DetachLength /\ ~task.undo
        /\ \A j \in 1..Len(task.todo) : task.todo[j] = DetachSteps[Detached + j]
        /\ Detached >= 1 => Mine
        /\ ~OnPci("dev") /\ Detached >= 1 => "dev" \notin present
        /\ Detached >= 3 => "node" \notin present
    BY <1>2, <1>16 DEF Detaching
  <2>4. ~OnPci("dev") /\ (Detached >= 1 \/ Told(TRUE)') => "dev" \notin present'
    <3>1. ~OnPci("dev") /\ Detached >= 1 => "dev" \notin present'
      BY <1>10, <2>2, <2>3
    <3>2. ASSUME ~OnPci("dev"), ~(Detached >= 1), Told(TRUE)' PROVE "dev" \notin present'
      <4>4. Detached = 0
        <5> HIDE DEF cmd
        <5> QED BY <2>1, <3>2
      <4>5. h.id = task.wait /\ done
        BY <1>8, <3>2
      <4>1. Detached = 0 /\ h.id = task.wait /\ done
        BY <4>4, <4>5
      <4>2. cmd = <<"del", "dev">> /\ cmd[1] = "del" /\ cmd[2] = "dev"
        BY <2>1, <2>2, <4>1
      <4>3. present' = present \ {"dev"}
        BY <1>4, <3>2, <4>1, <4>2
      <4> QED BY <4>3
    <3> QED BY <3>1, <3>2
  <2>5. Detached >= 3 \/ (Detached = 2 /\ Told(TRUE)') => "node" \notin present'
    <3>1. Detached >= 3 => "node" \notin present'
      BY <1>10, <2>1, <2>2, <2>3
    <3>2. ASSUME Detached = 2, Told(TRUE)' PROVE "node" \notin present'
      <4>1. h.id = task.wait /\ done
        BY <1>8, <3>2
      <4>2. cmd = <<"del", "node">> /\ cmd[1] = "del" /\ cmd[2] = "node"
        BY <2>1, <2>2, <3>2, <4>1
      <4>3. present' = present \ {"node"}
        BY <1>4, <4>1, <4>2, OnPciIs
      <4> QED BY <4>3
    <3> QED BY <3>1, <3>2
  <2>6. OnPci("dev")' <=> OnPci("dev")
    BY <1>4, OnPciIs
  <2>7. Detaching'
    BY <1>3, <1>6, <1>7, <2>3, <2>4, <2>5, <2>6 DEF Detaching
  <2>8. Awaiting'
    <3> SUFFICES ASSUME OnPci("dev"), task.clean PROVE Awaiting'
      BY <1>3, <2>6 DEF Awaiting
    <3> DEFINE e == Event("DEVICE_DELETED", "dev")
    <3>1. Mine /\ (Detached >= 2 => "dev" \notin present)
          /\ (e \in Range(unread) \cup Range(queued) => "dev" \notin present)
      BY <1>2, <1>16 DEF Awaiting
    <3>2. present' \subseteq present
      BY <1>10, <2>2, <3>1
    <3>3. e \in Range(unread') => e \in Range(unread)
      <4>1. e \in Notices
        BY DEF Event, Notices, Objects
      <4> HIDE DEF e
      <4> QED BY <1>1, <4>1
    <3>4. e \in Range(unread') \cup Range(queued') => "dev" \notin present'
      <4> HIDE DEF e
      <4> QED BY <1>3, <3>1, <3>2, <3>3
    <3> QED BY <1>3, <1>6, <1>7, <3>1, <3>2, <3>4 DEF Awaiting
  <2> QED BY <2>7, <2>8
<1>17. task.op # "detach" => Detaching' /\ Awaiting'
  BY <1>3 DEF Detaching, Awaiting
<1>18. Ejecting'
  <2> SUFFICES ASSUME task.op = "eject" PROVE Ejecting'
    BY <1>3 DEF Ejecting
  <2>1. /\ Ejected \in 0..2
        /\ Ejected = 1 => task.todo[1] = <<"remove", "dev">>
        /\ Ejected = 2 => task.todo[1] = <<"close", "dev">>
    BY <1>2, EjectIs
  <2>2. /\ Len(task.todo) <= 3 /\ ~task.undo
        /\ \A j \in 1..Len(task.todo) : task.todo[j] = EjectSteps[Ejected + j]
        /\ Ejected >= 1 => Mine
        /\ Ejected >= 2 => ~medium.in
    BY <1>2 DEF Ejecting
  <2>3. Ejected >= 2 => cmd[1] = "close" /\ h.id = task.wait
    <3> SUFFICES ASSUME Ejected >= 2 PROVE cmd[1] = "close" /\ h.id = task.wait
      OBVIOUS
    <3>1. Ejected = 2 /\ Ejected >= 1
      BY <2>1
    <3> QED BY <1>10, <2>1, <2>2, <3>1
  <2>4. Ejected >= 2 => ~medium'.in
    BY <1>4, <2>2, <2>3
  <2>5. Ejected = 1 /\ Told(TRUE)' => ~medium'.in
    <3> SUFFICES ASSUME Ejected = 1, Told(TRUE)' PROVE ~medium'.in
      OBVIOUS
    <3>1. h.id = task.wait /\ done
      BY <1>8
    <3>2. cmd[1] = "remove"
      BY <1>1, <2>1, <3>1
    <3> QED BY <1>4, <3>1, <3>2
  <2>6. Ejected = 2 /\ Told(TRUE)' => ~medium'.open
    <3> SUFFICES ASSUME Ejected = 2, Told(TRUE)' PROVE ~medium'.open
      OBVIOUS
    <3>1. h.id = task.wait /\ done
      BY <1>8
    <3>2. cmd[1] = "close"
      BY <1>1, <2>1, <3>1
    <3> QED BY <1>4, <3>1, <3>2
  <2> QED BY <1>3, <1>6, <1>7, <2>2, <2>4, <2>5, <2>6 DEF Ejecting
<1>19. Controllers'
  <2> SUFFICES ASSUME kind # "iso" PROVE Controllers'
    BY <1>4 DEF Controllers
  <2>1. "ctl" \notin present /\ \A c \in Range(wire) : c.cmd # <<"add", "ctl">>
    BY <1>2 DEF Controllers
  <2>2. "ctl" \notin present'
    <3>1. CASE done /\ cmd[1] = "add"
      <4>1. cmd = <<"add", cmd[2]>> /\ cmd # <<"add", "ctl">>
        BY <1>1, <2>1, <3>1 DEF Steps
      <4>2. cmd[2] # "ctl"
        BY <4>1
      <4> QED BY <1>4, <2>1, <3>1, <4>2
    <3>2. CASE ~(done /\ cmd[1] = "add")
      BY <1>4, <2>1, <3>2
    <3> QED BY <3>1, <3>2
  <2> QED BY <1>7, <2>1, <2>2 DEF Controllers
<1>20. Backed'
  <2> SUFFICES ASSUME kind \notin {"network", "usb-host"} PROVE Backed'
    BY <1>4 DEF Backed
  <2>1. /\ "dev" \in present => "node" \in present
        /\ \A c \in Range(wire) : c.cmd = <<"add", "dev">> =>
              /\ "node" \in present
              /\ \A d \in Range(wire) : d.id < c.id => d.cmd # <<"del", "node">>
    BY <1>2 DEF Backed
  <2>2. "dev" \in present' => "node" \in present'
    <3> SUFFICES ASSUME "dev" \in present' PROVE "node" \in present'
      OBVIOUS
    <3>1. CASE "dev" \in present
      BY <1>4, <2>1, <3>1
    <3>2. CASE "dev" \notin present
      <4>1. done /\ cmd[1] = "add" /\ cmd[2] = "dev"
        BY <1>4, <3>2
      <4>2. cmd = <<"add", "dev">>
        BY <1>1, <4>1 DEF Steps
      <4>3. "node" \in present
        BY <1>1, <2>1, <4>2
      <4> QED BY <1>4, <4>1, <4>3
    <3> QED BY <3>1, <3>2
  <2>3. ASSUME NEW c \in Range(wire'), c.cmd = <<"add", "dev">>
        PROVE  "node" \in present' /\ \A d \in Range(wire') : d.id < c.id => d.cmd # <<"del", "node">>
    <3>1. c \in Range(wire) /\ h.id < c.id
      BY <1>1, <1>7
    <3>2. "node" \in present /\ cmd # <<"del", "node">>
      BY <1>1, <2>1, <2>3, <3>1
    <3> QED BY <1>4, <1>7, <2>1, <2>3, <3>1, <3>2
  <2> QED BY <2>2, <2>3 DEF Backed
<1> QED BY <1>11, <1>12, <1>13, <1>14, <1>15, <1>16, <1>17, <1>18, <1>19, <1>20 DEF DeviceInv

(* Frames come for a connection that is there. *)
LEMMA EmitIs ==
    ASSUME DeviceTypes, NEW s \in Seq(Notices), Emit(s)
    PROVE  \E E \in SUBSET Range(s) : unread' \in Seq(Frame) /\ Range(unread') = Range(unread) \cup E
<1>1. unread \in Seq(Frame) /\ unread' = IF linked THEN unread \o s ELSE unread
  BY DEF DeviceTypes, Frame, Emit
<1>2. s \in Seq(Frame)
  <2>1. \A k \in 1..Len(s) : s[k] \in Notices
    BY ElementOfSeq
  <2>2. \A k \in 1..Len(s) : s[k] \in Frame
    BY <2>1 DEF Frame
  <2> QED BY <2>2
<1>3. CASE linked
  <2>1. unread \o s \in Seq(Frame) /\ Range(unread \o s) = Range(unread) \cup Range(s)
    BY <1>1, <1>2, RangeConcat
  <2> QED BY <1>1, <1>3, <2>1
<1>4. CASE ~linked
  <2>1. unread' \in Seq(Frame) /\ Range(unread') = Range(unread) \cup {}
    BY <1>1, <1>4
  <2>2. {} \in SUBSET Range(s)
    OBVIOUS
  <2> QED BY <2>1, <2>2
<1> QED BY <1>3, <1>4

LEMMA DeletedIs ==
    /\ \A obj \in Objects : /\ Deleted(<<obj>>) \in Seq(Notices)
                            /\ Range(Deleted(<<obj>>)) = {Event("DEVICE_DELETED", obj)}
                            /\ Range(<<obj>>) = {obj}
    /\ Deleted(<<"dev", "ctl">>) \in Seq(Notices)
    /\ Range(Deleted(<<"dev", "ctl">>)) = {Event("DEVICE_DELETED", "dev"), Event("DEVICE_DELETED", "ctl")}
    /\ Range(<<"dev", "ctl">>) = {"dev", "ctl"}
<1>1. \A obj \in Objects : Event("DEVICE_DELETED", obj) \in Notices
  BY DEF Event, Notices
<1>2. ASSUME NEW obj \in Objects
      PROVE  /\ Deleted(<<obj>>) \in Seq(Notices)
             /\ Range(Deleted(<<obj>>)) = {Event("DEVICE_DELETED", obj)}
             /\ Range(<<obj>>) = {obj}
  <2> DEFINE e == Event("DEVICE_DELETED", obj)
             s == Deleted(<<obj>>)
  <2>1. e \in Notices
    BY <1>1
  <2>2. s = [i \in 1..Len(<<obj>>) |-> Event("DEVICE_DELETED", <<obj>>[i])]
    BY DEF Deleted
  <2>3. Len(<<obj>>) = 1 /\ <<obj>>[1] = obj
    OBVIOUS
  <2>4. s = [i \in 1..1 |-> e]
    BY <2>2, <2>3
  <2>5. s \in Seq(Notices) /\ Range(s) = {e}
    <3> HIDE DEF e, s
    <3> QED BY <2>1, <2>4 DEF Range
  <2>6. Range(<<obj>>) = {obj}
    BY DEF Range
  <2> QED BY <2>5, <2>6
<1>3. /\ Deleted(<<"dev", "ctl">>) \in Seq(Notices)
      /\ Range(Deleted(<<"dev", "ctl">>)) = {Event("DEVICE_DELETED", "dev"), Event("DEVICE_DELETED", "ctl")}
  <2> DEFINE e == Event("DEVICE_DELETED", "dev")
             f == Event("DEVICE_DELETED", "ctl")
             s == Deleted(<<"dev", "ctl">>)
  <2>1. e \in Notices /\ f \in Notices
    BY <1>1 DEF Objects
  <2>2. s = [i \in 1..Len(<<"dev", "ctl">>) |-> Event("DEVICE_DELETED", <<"dev", "ctl">>[i])]
    BY DEF Deleted
  <2>3. Len(<<"dev", "ctl">>) = 2 /\ <<"dev", "ctl">>[1] = "dev" /\ <<"dev", "ctl">>[2] = "ctl"
    OBVIOUS
  <2>4. s = [i \in 1..2 |-> IF i = 1 THEN e ELSE f]
    <3>1. \A i \in 1..2 : Event("DEVICE_DELETED", <<"dev", "ctl">>[i]) = IF i = 1 THEN e ELSE f
      <4>1. \A i \in 1..2 : i = 1 \/ i = 2
        OBVIOUS
      <4> QED BY <2>3, <4>1
    <3> QED BY <2>2, <2>3, <3>1
  <2>5. s \in Seq(Notices) /\ Range(s) = {e, f}
    <3> HIDE DEF e, f, s
    <3>1. DOMAIN s = 1..2 /\ s[1] = e /\ s[2] = f /\ s \in Seq(Notices)
      BY <2>1, <2>4
    <3> QED BY <3>1 DEF Range
  <2> QED BY <2>5
<1>4. Range(<<"dev", "ctl">>) = {"dev", "ctl"}
  BY DEF Range
<1> QED BY <1>2, <1>3, <1>4

LEMMA GuestSteps ==
    ASSUME DeviceInv,
           (\E obj \in {"dev", "ctl"} : GuestReleases(obj) \/ GuestRefuses(obj)) \/ OtherEvent
    PROVE  DeviceInv'
<1>1. DeviceTypes /\ leaving \subseteq present
  BY DEF DeviceInv, DeviceTypes
<1>2. ASSUME NEW obj \in {"dev", "ctl"}, GuestReleases(obj) PROVE DeviceInv'
  <2> DEFINE gone == IF obj = "ctl" /\ "dev" \in present THEN <<"dev", "ctl">> ELSE <<obj>>
  <2>1. /\ UNCHANGED <<kind, medium, wire, linked, nextId, queued, task>> /\ obj \in leaving
        /\ present' = present \ Range(gone) /\ leaving' = leaving \ Range(gone) /\ Emit(Deleted(gone))
    BY <1>2 DEF GuestReleases, clientVars
  <2>2. /\ Deleted(gone) \in Seq(Notices) /\ Range(Deleted(gone)) \subseteq Notices
        /\ obj \in Range(gone) /\ Range(gone) \subseteq {obj} \cup {"dev"}
        /\ ("dev" \in Range(gone) /\ obj # "dev" => obj = "ctl")
        /\ Event("DEVICE_DELETED", "dev") \in Range(Deleted(gone)) => "dev" \in Range(gone)
    <3>1. CASE obj = "ctl" /\ "dev" \in present
      <4>1. gone = <<"dev", "ctl">>
        BY <3>1
      <4> HIDE DEF gone
      <4> QED BY <3>1, <4>1, DeletedIs, RangeIn
    <3>2. CASE ~(obj = "ctl" /\ "dev" \in present)
      <4>1. gone = <<obj>>
        BY <3>2
      <4>2. obj \in Objects /\ (Event("DEVICE_DELETED", "dev") = Event("DEVICE_DELETED", obj) => obj = "dev")
        BY <1>2 DEF Objects, Event
      <4> HIDE DEF gone
      <4> QED BY <1>2, <4>1, <4>2, DeletedIs, RangeIn
    <3> QED BY <3>1, <3>2
  <2> HIDE DEF gone
  <2>3. PICK E \in SUBSET Range(Deleted(gone)) : unread' \in Seq(Frame) /\ Range(unread') = Range(unread) \cup E
    BY <1>1, <2>1, <2>2, EmitIs
  <2>4. E \in SUBSET Notices /\ (Event("DEVICE_DELETED", "dev") \in E => "dev" \notin present')
    BY <2>1, <2>2, <2>3
  <2>5. present' \subseteq present /\ leaving' \subseteq leaving \cap present'
        /\ \A o \in present \ present' : o \in leaving \/ (o = "dev" /\ "ctl" \in leaving)
    BY <1>1, <2>1, <2>2
  <2> QED BY <2>1, <2>3, <2>4, <2>5, GuestStep
<1>3. ASSUME NEW s \in Seq(Notices), Emit(s), Event("DEVICE_DELETED", "dev") \notin Range(s),
             UNCHANGED <<kind, present, medium, wire, linked, nextId, queued, task>>,
             leaving' \subseteq leaving
      PROVE  DeviceInv'
  <2>1. PICK E \in SUBSET Range(s) : unread' \in Seq(Frame) /\ Range(unread') = Range(unread) \cup E
    BY <1>1, <1>3, EmitIs
  <2>2. E \in SUBSET Notices /\ Event("DEVICE_DELETED", "dev") \notin E
    BY <1>3, <2>1, RangeIn
  <2>3. present' \subseteq present /\ leaving' \subseteq leaving \cap present'
        /\ \A o \in present \ present' : o \in leaving \/ (o = "dev" /\ "ctl" \in leaving)
    BY <1>1, <1>3
  <2> QED BY <1>3, <2>1, <2>2, <2>3, GuestStep
<1>4. ASSUME NEW name \in {"DEVICE_UNPLUG_GUEST_ERROR", "BLOCK_IO_ERROR"}, NEW obj \in Objects
      PROVE  <<Event(name, obj)>> \in Seq(Notices) /\ Event("DEVICE_DELETED", "dev") \notin Range(<<Event(name, obj)>>)
  <2> DEFINE e == Event(name, obj)
  <2>1. e \in Notices /\ e # Event("DEVICE_DELETED", "dev")
    BY DEF Event, Notices
  <2> HIDE DEF e
  <2>2. <<e>> \in Seq(Notices) /\ Range(<<e>>) = {e}
    BY <2>1 DEF Range
  <2> QED BY <2>1, <2>2 DEF e
<1>5. ASSUME NEW obj \in {"dev", "ctl"}, GuestRefuses(obj) PROVE DeviceInv'
  <2> DEFINE s == <<Event("DEVICE_UNPLUG_GUEST_ERROR", obj)>>
  <2>1. Emit(s) /\ leaving' = leaving \ {obj} /\ UNCHANGED <<kind, present, medium, wire, linked, nextId, queued, task>>
    BY <1>5 DEF GuestRefuses, clientVars
  <2>2. s \in Seq(Notices) /\ Event("DEVICE_DELETED", "dev") \notin Range(s)
    BY <1>4 DEF Objects
  <2> HIDE DEF s
  <2> QED BY <1>3, <2>1, <2>2
<1>6. ASSUME OtherEvent PROVE DeviceInv'
  <2> DEFINE s == <<Event("BLOCK_IO_ERROR", "none")>>
  <2>1. Emit(s) /\ leaving' = leaving /\ UNCHANGED <<kind, present, medium, wire, linked, nextId, queued, task>>
    BY <1>6 DEF OtherEvent, clientVars, qemuVars
  <2>2. s \in Seq(Notices) /\ Event("DEVICE_DELETED", "dev") \notin Range(s)
    BY <1>4 DEF Objects
  <2> HIDE DEF s
  <2> QED BY <1>3, <2>1, <2>2
<1> QED BY <1>2, <1>5, <1>6

(* What the client does: QEMU and its devices are as they were, and frames
   are read, cut or thrown away with the connection. *)
LEMMA DeviceClientStep ==
    ASSUME DeviceInv, UNCHANGED qemuVars, task' \in Tasks, linked' \in BOOLEAN,
           nextId' \in Nat \ {0}, queued' \in Seq(Notices), unread' \in Seq(Frame),
           Range(unread') \subseteq Range(unread) \cup {Garbage},
           \/ linked' /\ wire' = wire /\ nextId' = nextId
           \/ wire' = <<>> /\ unread' = <<>>
    PROVE  /\ DeviceTypes' /\ Fifo' /\ Controllers' /\ Backed'
           /\ Range(wire') \subseteq Range(wire)
           /\ kind' = kind /\ present' = present /\ leaving' = leaving /\ medium' = medium
           /\ Parts' = Parts /\ DetachLength' = DetachLength
           /\ (OnPci("dev")' <=> OnPci("dev")) /\ \A o : Settled(o) => Settled(o)'
<1>1. /\ kind' = kind /\ present' = present /\ leaving' = leaving /\ medium' = medium
      /\ DeviceTypes /\ Fifo /\ Controllers /\ Backed
  BY DEF DeviceInv, qemuVars
<1>2. Range(<<>>) = {} /\ <<>> \in Seq(Orders)
  BY EmptySeq DEF Range
<1>3. wire' \in Seq(Orders) /\ Range(wire') \subseteq Range(wire)
  BY <1>1, <1>2 DEF DeviceTypes
<1>4. DeviceTypes'
  BY <1>1, <1>3 DEF DeviceTypes, OnPci, Frame
<1>5. Fifo'
  <2>1. Garbage \notin Replies
    BY GarbageIs
  <2>2. CASE linked' /\ wire' = wire /\ nextId' = nextId
    BY <1>1, <2>1, <2>2 DEF Fifo
  <2>3. CASE wire' = <<>> /\ unread' = <<>>
    <3>1. Len(wire') = 0 /\ Range(wire') = {} /\ Range(unread') = {}
      BY <1>2, <2>3
    <3> QED BY <2>3, <3>1 DEF Fifo
  <2> QED BY <2>2, <2>3
<1>6. Controllers' /\ Backed'
  BY <1>1, <1>3 DEF Controllers, Backed
<1>7. Parts' = Parts /\ DetachLength' = DetachLength /\ (OnPci("dev")' <=> OnPci("dev"))
  BY <1>1 DEF Parts, DetachLength, OnPci
<1>8. \A o : Settled(o) => Settled(o)'
  BY <1>1 DEF Settled
<1> QED BY <1>1, <1>3, <1>4, <1>5, <1>6, <1>7, <1>8

(* A session that answers leaves nothing to promise. *)
LEMMA FinishStep ==
    ASSUME DeviceInv, UNCHANGED qemuVars, NEW answer \in {"ok", "error", "pending"}, NEW clean \in BOOLEAN,
           Finish(answer, clean), linked' \in BOOLEAN,
           nextId' \in Nat \ {0}, queued' \in Seq(Notices), unread' \in Seq(Frame),
           Range(unread') \subseteq Range(unread) \cup {Garbage},
           \/ linked' /\ wire' = wire /\ nextId' = nextId
           \/ wire' = <<>> /\ unread' = <<>>
    PROVE  DeviceInv'
<1>1. task' = [NoTask EXCEPT !.answer = answer, !.clean = task.op = "attach" => task.clean /\ clean]
  BY DEF Finish
<1>2. (task.op = "attach" => task.clean /\ clean) \in BOOLEAN
  BY Zenon
<1>3. task' \in Tasks /\ task'.op = "idle" /\ task'.wait = 0
  <2> DEFINE c == task.op = "attach" => task.clean /\ clean
  <2>1. c \in BOOLEAN /\ task' = [NoTask EXCEPT !.answer = answer, !.clean = c]
    BY <1>1, <1>2
  <2>2. <<>> \in Seq(Steps) /\ <<>> \in Seq(Objects)
    BY EmptySeq
  <2> HIDE DEF c
  <2> QED BY <2>1, <2>2 DEF NoTask, Tasks, Routes
<1>4. DeviceTypes' /\ Fifo' /\ Controllers' /\ Backed'
  BY <1>3, DeviceClientStep
<1>5. /\ Awaited' /\ ToldOnce' /\ Attaching' /\ Undoing' /\ Detaching' /\ Awaiting' /\ Ejecting' /\ Plain'
  BY <1>3 DEF Awaited, ToldOnce, Told, Attaching, Undoing, Detaching, Awaiting, Ejecting, Plain
<1> QED BY <1>4, <1>5 DEF DeviceInv

LEMMA BeginStep == ASSUME DeviceInv, NEW op \in Routes \ {"idle"}, BeginSession(op) PROVE DeviceInv'
<1>1. /\ DeviceTypes /\ Fifo /\ Awaited /\ task.op = "idle" /\ UNCHANGED qemuVars
      /\ linked' = TRUE /\ wire' = wire /\ unread' = unread /\ nextId' = nextId /\ queued' = queued
  BY DEF DeviceInv, BeginSession
<1> DEFINE clean == NothingLeft(op)
           before == IF op = "attach" THEN present ELSE {}
           t == [op |-> op, todo |-> Program(op), done |-> <<>>, wait |-> 0, undo |-> FALSE,
                 clean |-> clean, before |-> before, answer |-> "none"]
<1>2. task' = t
  BY DEF BeginSession, NoTask
<1>3. clean \in BOOLEAN /\ before \in SUBSET Objects
  BY <1>1, Zenon DEF NothingLeft, DeviceTypes
<1>4. kind \in DeviceKinds
  BY <1>1 DEF DeviceTypes
<1>5. /\ Program(op) \in Seq(Steps) /\ Program(op) # <<>>
      /\ op = "attach" => /\ Len(Program(op)) = Len(Parts)
                          /\ \A j \in 1..Len(Parts) : Program(op)[j] = <<"add", Parts[j]>>
      /\ op = "detach" => /\ Len(Program(op)) = DetachLength
                          /\ \A j \in 1..DetachLength : Program(op)[j] = DetachSteps[j]
      /\ op = "eject" => Len(Program(op)) = 3 /\ \A j \in 1..3 : Program(op)[j] = EjectSteps[j]
      /\ op \in {"change", "display", "query", "poll"} =>
            \A j \in 1..Len(Program(op)) : Program(op)[j][1] \notin {"wait", "add"}
  BY <1>4, ProgramIs
<1>6. (clean /\ op \in {"attach", "detach"} => wire = <<>>)
      /\ (clean /\ op = "detach" => Event("DEVICE_DELETED", "dev") \notin Range(unread) \cup Range(queued))
  <2>1. clean /\ op \in {"attach", "detach"} => wire = <<>>
    BY DEF NothingLeft
  <2>2. clean /\ op = "detach" => Event("DEVICE_DELETED", "dev") \notin Range(unread \o queued)
    BY DEF NothingLeft
  <2>3. Range(unread \o queued) = Range(unread) \cup Range(queued)
    <3>1. unread \in Seq(Frame) /\ queued \in Seq(Notices)
      BY <1>1 DEF DeviceTypes, Frame
    <3>2. queued \in Seq(Frame)
      <4>1. \A k \in 1..Len(queued) : queued[k] \in Notices
        BY <3>1, ElementOfSeq
      <4>2. \A k \in 1..Len(queued) : queued[k] \in Frame
        BY <4>1 DEF Frame
      <4> QED BY <3>1, <4>2
    <3> QED BY <3>1, <3>2, RangeConcat
  <2> QED BY <2>1, <2>2, <2>3
<1> HIDE DEF clean, before
<1>7. t \in Tasks
  <2>1. <<>> \in Seq(Objects)
    BY EmptySeq
  <2> QED BY <1>3, <1>5, <2>1 DEF Tasks, Routes
<1>8. /\ task'.op = op /\ task'.todo = Program(op) /\ task'.done = <<>> /\ task'.wait = 0 /\ task'.undo = FALSE
      /\ (task'.clean <=> clean) /\ task'.before = before /\ task' \in Tasks
  BY <1>2, <1>7
<1> HIDE DEF t
<1>9. /\ DeviceTypes' /\ Fifo' /\ Controllers' /\ Backed'
      /\ kind' = kind /\ present' = present /\ Parts' = Parts /\ DetachLength' = DetachLength
      /\ (OnPci("dev")' <=> OnPci("dev"))
  <2>1. /\ unread' \in Seq(Frame) /\ queued' \in Seq(Notices) /\ nextId' \in Nat \ {0}
    BY <1>1 DEF DeviceTypes, Frame
  <2>2. linked' \in BOOLEAN /\ linked'
    BY <1>1, Zenon
  <2> QED BY <1>1, <1>8, <2>1, <2>2, DeviceClientStep
<1>10. Awaited' /\ ~Told(TRUE)' /\ ~Told(FALSE)' /\ ToldOnce' /\ Just' = {}
  BY <1>1, <1>5, <1>8 DEF Awaited, Told, ToldOnce, Just
<1>11. Range(<<>>) = {} /\ Len(<<>>) = 0
  BY DEF Range
<1>19. ~task'.undo
  <2>1. task'.undo = FALSE
    BY <1>8
  <2> QED BY <2>1, Zenon
<1>12. wire = <<>> => Mine'
  BY <1>1, <1>11 DEF Mine
<1>13. Attaching'
  <2> SUFFICES ASSUME op = "attach" PROVE Attaching'
    BY <1>8 DEF Attaching
  <2>1. Len(Parts) \in Nat /\ Len(task'.done) = 0 /\ Range(task'.done) = {} /\ before = present
    BY <1>4, <1>8, <1>11, PartsAre DEF before
  <2>2. /\ Len(task'.done) + Len(task'.todo) = Len(Parts)
        /\ \A j \in 1..Len(task'.todo) : task'.todo[j] = <<"add", Parts[Len(task'.done) + j]>>
    BY <1>5, <1>8, <2>1
  <2>3. task'.clean => Mine'
    BY <1>6, <1>8, <1>12
  <2> QED BY <1>8, <1>9, <1>10, <2>1, <2>2, <2>3 DEF Attaching
<1>14. Undoing'
  BY <1>8 DEF Undoing
<1>15. op = "detach" => Detached' = 0
  BY <1>5, <1>8, <1>9 DEF Detached, DetachLength
<1>16. Detaching' /\ Awaiting'
  <2> SUFFICES ASSUME op = "detach" PROVE Detaching' /\ Awaiting'
    BY <1>8 DEF Detaching, Awaiting
  <2>1. DetachLength \in Nat /\ Detached' = 0 /\ Len(task'.todo) = DetachLength
    BY <1>5, <1>8, <1>15 DEF DetachLength
  <2>2. \A j \in 1..DetachLength : task'.todo[j] = DetachSteps[0 + j]
    BY <1>5, <1>8, <2>1
  <2>5. /\ Len(task'.todo) <= DetachLength' /\ Detached' = 0
        /\ \A j \in 1..Len(task'.todo) : task'.todo[j] = DetachSteps[Detached' + j]
    BY <1>9, <2>1, <2>2
  <2>6. ~(Detached' >= 1) /\ ~(Detached' >= 3) /\ ~(Detached' = 2)
    BY <2>5
  <2>7. /\ Detached' >= 1 => Mine'
        /\ ~OnPci("dev")' /\ (Detached' >= 1 \/ Told(TRUE)') => "dev" \notin present'
        /\ Detached' >= 3 \/ (Detached' = 2 /\ Told(TRUE)') => "node" \notin present'
    BY <1>10, <2>6
  <2>3. Detaching'
    BY <1>19, <2>5, <2>7 DEF Detaching
  <2>4. Awaiting'
    BY <1>1, <1>6, <1>8, <1>9, <1>12, <2>1 DEF Awaiting
  <2> QED BY <2>3, <2>4
<1>17. Ejecting'
  <2> SUFFICES ASSUME op = "eject" PROVE Ejecting'
    BY <1>8 DEF Ejecting
  <2>1. Ejected' = 0 /\ Len(task'.todo) = 3
    BY <1>5, <1>8 DEF Ejected
  <2>2. \A j \in 1..3 : task'.todo[j] = EjectSteps[0 + j]
    BY <1>5, <1>8
  <2>3. /\ Len(task'.todo) <= 3 /\ Ejected' = 0
        /\ \A j \in 1..Len(task'.todo) : task'.todo[j] = EjectSteps[Ejected' + j]
    BY <2>1, <2>2
  <2> QED BY <1>10, <1>19, <2>3 DEF Ejecting
<1>18. Plain'
  BY <1>5, <1>8 DEF Plain
<1> QED BY <1>9, <1>10, <1>13, <1>14, <1>16, <1>17, <1>18 DEF DeviceInv

LEMMA SendStep == ASSUME DeviceInv, Send PROVE DeviceInv'
<1> DEFINE c == [id |-> nextId, cmd |-> task.todo[1]]
<1>1. /\ DeviceTypes /\ Fifo /\ Awaited /\ ToldOnce /\ Attaching /\ Undoing /\ Detaching /\ Awaiting
      /\ Ejecting /\ Plain /\ Controllers /\ Backed
  BY DEF DeviceInv
<1>2. /\ task.todo \in Seq(Steps) /\ task.todo # <<>> /\ 1 \in 1..Len(task.todo)
      /\ Head(task.todo) = task.todo[1] /\ task.todo[1] \in Steps
  <2>1. task.todo \in Seq(Steps) /\ task.todo # <<>> /\ 1 \in 1..Len(task.todo)
    BY <1>1, TaskIs DEF Send
  <2> QED BY <2>1, TailIs
<1>3. /\ task.op # "idle" /\ task.wait = 0 /\ task.todo[1][1] # "wait" /\ wire' = Append(wire, c)
      /\ task' = [task EXCEPT !.wait = nextId] /\ nextId' = nextId + 1
      /\ kind' = kind /\ present' = present /\ leaving' = leaving /\ medium' = medium
      /\ unread' = unread /\ linked' = linked /\ queued' = queued
  BY <1>2 DEF Send, qemuVars
<1>4. nextId \in Nat \ {0} /\ c \in Orders /\ c.id = nextId /\ c.cmd = task.todo[1] /\ wire \in Seq(Orders)
      /\ unread \in Seq(Replies \cup Notices \cup {Garbage})
  BY <1>1, <1>2 DEF DeviceTypes, Orders
<1>5. /\ task' \in Tasks /\ task'.op = task.op /\ task'.todo = task.todo /\ task'.done = task.done
      /\ task'.wait = nextId /\ task'.undo = task.undo /\ task'.clean = task.clean /\ task'.before = task.before
  BY <1>1, <1>3, <1>4 DEF DeviceTypes, Tasks
<1> HIDE DEF c
<1>6. wire' \in Seq(Orders) /\ Range(wire') = Range(wire) \cup {c}
  BY <1>3, <1>4, RangeAppend
<1>7. /\ Parts' = Parts /\ DetachLength' = DetachLength /\ Detached' = Detached /\ Ejected' = Ejected
      /\ (OnPci("dev")' <=> OnPci("dev"))
  BY <1>3, <1>5 DEF Parts, DetachLength, Detached, Ejected, OnPci
<1>8. DeviceTypes'
  BY <1>1, <1>3, <1>4, <1>5, <1>6 DEF DeviceTypes, OnPci
<1>9. linked
  BY <1>1, <1>3 DEF Awaited
<1>10. \A f \in Range(unread) \cap Replies : f.id \in Nat /\ f.id < nextId
  BY <1>1 DEF Fifo, Replies
<1>11. \A d \in Range(wire) : d.id \in Nat /\ d.id < nextId
  <2>1. Range(wire) \subseteq Orders
    BY <1>4, RangeIn
  <2> QED BY <1>1, <2>1 DEF Fifo, Orders
<1>12. Fifo'
  <2>1. \A k, l \in 1..Len(wire') : k < l => wire'[k].id < wire'[l].id
    <3>1. /\ Len(wire) \in Nat /\ Len(wire') = Len(wire) + 1
          /\ \A n \in 1..Len(wire') : \/ n \in 1..Len(wire) /\ wire'[n] = wire[n]
                                      \/ n = Len(wire) + 1 /\ wire'[n] = c
      BY <1>3, <1>4, AppendIs
    <3>2. \A n \in 1..Len(wire) : wire[n] \in Range(wire)
      BY <1>4, LenProperties DEF Range
    <3> SUFFICES ASSUME NEW k \in 1..Len(wire'), NEW l \in 1..Len(wire'), k < l
                 PROVE  wire'[k].id < wire'[l].id
      OBVIOUS
    <3>3. k \in 1..Len(wire) /\ wire'[k] = wire[k]
      BY <3>1
    <3>4. CASE l \in 1..Len(wire) /\ wire'[l] = wire[l]
      BY <1>1, <3>3, <3>4 DEF Fifo
    <3>5. CASE l = Len(wire) + 1 /\ wire'[l] = c
      BY <1>4, <1>11, <3>2, <3>3, <3>5
    <3> QED BY <3>1, <3>4, <3>5
  <2>2. \A d \in Range(wire') : d.id < nextId'
    BY <1>3, <1>4, <1>6, <1>11
  <2>3. ASSUME NEW f \in Range(unread') \cap Replies PROVE f.id < nextId' /\ \A d \in Range(wire') : f.id < d.id
    <3>1. f \in Range(unread) /\ f.id \in Nat /\ f.id < nextId
      BY <1>3, <1>10, <2>3
    <3>2. \A d \in Range(wire) : f.id < d.id
      BY <1>1, <2>3, <3>1 DEF Fifo
    <3> QED BY <1>3, <1>4, <1>6, <3>1, <3>2
  <2> QED BY <1>3, <1>9, <2>1, <2>2, <2>3 DEF Fifo
<1>13. Awaited'
  <2>1. nextId' - 1 = nextId
    BY <1>3, <1>4
  <2>2. \A d \in Range(wire') : d.id = nextId => d.cmd = task.todo[1]
    <3>1. \A d \in Range(wire) : d.id # nextId
      BY <1>4, <1>11
    <3> QED BY <1>4, <1>6, <3>1
  <2> QED BY <1>2, <1>3, <1>5, <1>9, <2>1, <2>2 DEF Awaited
<1>14. ~Told(TRUE) /\ ~Told(FALSE) /\ Just = {}
  BY <1>3 DEF Told, Just
<1>15. ~Told(TRUE)' /\ ~Told(FALSE)' /\ Just' = {}
  <2>1. ASSUME NEW b \in BOOLEAN PROVE [id |-> nextId, ok |-> b] \notin Range(unread)
    <3> DEFINE f == [id |-> nextId, ok |-> b]
    <3>1. f \in Replies /\ f.id = nextId
      BY <1>4 DEF Replies
    <3> HIDE DEF f
    <3>2. f \notin Range(unread)
      BY <1>4, <1>10, <3>1
    <3> QED BY <3>2 DEF f
  <2>2. ~Told(TRUE)' /\ ~Told(FALSE)'
    BY <1>3, <1>5, <2>1 DEF Told
  <2> QED BY <2>2 DEF Just
<1>16. Mine => Mine' /\ wire = <<>> /\ Range(wire') = {c}
  <2> SUFFICES ASSUME Mine PROVE Mine' /\ wire = <<>> /\ Range(wire') = {c}
    OBVIOUS
  <2>1. wire = <<>> /\ Range(wire) = {}
    BY <1>1, <1>3, MineEmpty
  <2>2. Range(wire') = {c}
    BY <1>6, <2>1
  <2> QED BY <1>4, <1>5, <2>1, <2>2 DEF Mine
<1>17. ToldOnce' /\ Plain'
  BY <1>1, <1>5, <1>15 DEF ToldOnce, Plain
<1>18. Attaching'
  <2> SUFFICES ASSUME task.op = "attach", ~task.undo PROVE Attaching'
    BY <1>5 DEF Attaching
  <2>1. /\ Len(task.done) + Len(task.todo) = Len(Parts)
        /\ \A j \in 1..Len(task.done) : task.done[j] = Parts[j] /\ Settled(task.done[j])
        /\ \A j \in 1..Len(task.todo) : task.todo[j] = <<"add", Parts[Len(task.done) + j]>>
        /\ task.done # <<>> \/ task.clean => Mine
        /\ task.clean => present \subseteq task.before \cup Range(task.done)
        /\ task.clean => (kind # "network" /\ "node" \in Range(task.done) => "dev" \notin present)
    BY <1>1, <1>14 DEF Attaching
  <2>2. ASSUME NEW j \in 1..Len(task.done) PROVE Settled(task.done[j])'
    <3>1. Settled(task.done[j])
      BY <2>1
    <3> QED BY <1>3, <1>5, <3>1 DEF Settled
  <2> QED BY <1>3, <1>5, <1>7, <1>15, <1>16, <2>1, <2>2 DEF Attaching
<1>19. Undoing'
  <2> SUFFICES ASSUME task.op = "attach", task.undo PROVE Undoing'
    BY <1>5 DEF Undoing
  <2>1. /\ \A j \in 1..Len(task.todo) :
              /\ task.todo[j][1] = "del" /\ task.todo[j][2] \in {"node", "ctl"}
              /\ j > 1 => task.todo[j][2] = "ctl"
        /\ task.clean =>
              /\ Mine
              /\ present \subseteq task.before \cup {"ctl", task.todo[1][2]}
              /\ task.todo[1][2] = "node" => "node" \in present /\ (kind # "network" => "dev" \notin present)
    BY <1>1, <1>14 DEF Undoing
  <2>2. task.clean => /\ Mine' /\ present' \subseteq task.before \cup {"ctl", task.todo[1][2]}
                      /\ task.todo[1][2] = "node" => "node" \in present' /\ (kind' # "network" => "dev" \notin present')
    BY <1>3, <1>16, <2>1
  <2>3. \A j \in 1..Len(task'.todo) :
              /\ task'.todo[j][1] = "del" /\ task'.todo[j][2] \in {"node", "ctl"}
              /\ j > 1 => task'.todo[j][2] = "ctl"
    BY <1>5, <2>1
  <2>4. task'.clean =>
              /\ Mine' /\ present' \subseteq task'.before \cup {"ctl", task'.todo[1][2]}
              /\ task'.todo[1][2] = "node" => "node" \in present' /\ (kind' # "network" => "dev" \notin present')
    BY <1>5, <2>2
  <2> QED BY <1>15, <2>3, <2>4 DEF Undoing
<1>20. Detaching'
  BY <1>1, <1>3, <1>5, <1>7, <1>14, <1>15, <1>16 DEF Detaching
<1>21. Awaiting'
  BY <1>1, <1>3, <1>5, <1>7, <1>16 DEF Awaiting
<1>22. Ejecting'
  BY <1>1, <1>3, <1>5, <1>7, <1>14, <1>15, <1>16 DEF Ejecting
<1>23. c.cmd[1] = "add" =>
          /\ task.op = "attach" /\ ~task.undo /\ Len(task.done) + 1 \in 1..Len(Parts) /\ Len(task.done) \in Nat
          /\ c.cmd = <<"add", Parts[Len(task.done) + 1]>> /\ c.cmd[2] = Parts[Len(task.done) + 1]
          /\ \A j \in 1..Len(task.done) : task.done[j] = Parts[j] /\ Settled(task.done[j])
  <2> SUFFICES ASSUME task.todo[1][1] = "add"
               PROVE  task.op = "attach" /\ ~task.undo
    BY <1>1, <1>4, AttachIs, TaskIs
  <2>1. task.op \in Routes
    BY <1>1, TaskIs
  <2>2. task.op = "attach" => ~task.undo
    BY <1>1, <1>2 DEF Undoing
  <2>3. task.op # "detach"
    BY <1>1, DetachIs
  <2>4. task.op # "eject"
    BY <1>1, EjectIs
  <2>5. task.op \notin {"change", "display", "query", "poll"}
    BY <1>1, <1>2 DEF Plain
  <2> QED BY <1>3, <2>1, <2>2, <2>3, <2>4, <2>5 DEF Routes
<1>24. Controllers'
  <2> SUFFICES ASSUME kind # "iso" PROVE c.cmd # <<"add", "ctl">>
    BY <1>1, <1>3, <1>6 DEF Controllers
  <2> SUFFICES ASSUME c.cmd = <<"add", "ctl">> PROVE FALSE
    OBVIOUS
  <2>1. c.cmd[1] = "add" /\ c.cmd[2] = "ctl"
    OBVIOUS
  <2>2. Len(task.done) + 1 \in 1..Len(Parts) /\ Parts[Len(task.done) + 1] = "ctl"
    BY <1>23, <2>1
  <2>3. \A j \in 1..Len(Parts) : Parts[j] = "ctl" => kind = "iso"
    BY <1>1, PartsAre DEF DeviceTypes
  <2> QED BY <2>2, <2>3
<1>25. Backed'
  <2> SUFFICES ASSUME kind \notin {"network", "usb-host"} PROVE Backed'
    BY <1>3 DEF Backed
  <2>1. /\ "dev" \in present => "node" \in present
        /\ \A d \in Range(wire) : d.cmd = <<"add", "dev">> =>
              /\ "node" \in present
              /\ \A e \in Range(wire) : e.id < d.id => e.cmd # <<"del", "node">>
    BY <1>1 DEF Backed
  <2>2. ASSUME NEW d \in Range(wire'), d.cmd = <<"add", "dev">>
        PROVE  "node" \in present /\ \A e \in Range(wire') : e.id < d.id => e.cmd # <<"del", "node">>
    <3>1. CASE d \in Range(wire)
      <4>1. d.id \in Nat /\ ~(nextId < d.id)
        BY <1>4, <1>11, <3>1
      <4> QED BY <1>4, <1>6, <2>1, <2>2, <3>1, <4>1
    <3>2. CASE d = c
      <4>1. c.cmd[1] = "add" /\ c.cmd[2] = "dev"
        BY <2>2, <3>2
      <4>2. /\ task.op = "attach" /\ ~task.undo /\ Len(task.done) + 1 \in 1..Len(Parts) /\ Len(task.done) \in Nat
            /\ Parts[Len(task.done) + 1] = "dev"
            /\ \A j \in 1..Len(task.done) : task.done[j] = Parts[j] /\ Settled(task.done[j])
        BY <1>23, <4>1
      <4>3. \E i \in 1..Len(task.done) : Parts[i] = "node"
        <5> DEFINE n == Len(task.done)
                   p == Len(Parts)
        <5>1. p \in 1..3 /\ n \in Nat /\ n + 1 \in 1..p
          BY <1>1, <4>2, PartsAre DEF DeviceTypes
        <5>2. n + 1 = p
          <6>1. \A j \in 1..p : j < p => Parts[j] \in {"ctl", "node"}
            BY <1>1, PartsAre DEF DeviceTypes
          <6>2. Parts[n + 1] = "dev"
            BY <4>2
          <6> HIDE DEF n, p
          <6> QED BY <5>1, <6>1, <6>2
        <5>3. CASE kind = "iso"
          <6>1. p = 3 /\ Parts[2] = "node"
            BY <1>1, <5>3, PartsAre DEF DeviceTypes
          <6> HIDE DEF p, n
          <6>2. 2 \in 1..n
            BY <5>1, <5>2, <6>1
          <6> QED BY <6>1, <6>2 DEF n
        <5>4. CASE kind # "iso"
          <6>1. p = 2 /\ Parts[1] = "node"
            BY <1>1, <5>4, PartsAre DEF DeviceTypes
          <6> HIDE DEF p, n
          <6>2. 1 \in 1..n
            BY <5>1, <5>2, <6>1
          <6> QED BY <6>1, <6>2 DEF n
        <5> QED BY <5>3, <5>4
      <4>4. "node" \in present
        BY <4>2, <4>3 DEF Settled
      <4>5. task.done # <<>>
        BY <4>3, EmptySeq
      <4>6. Mine
        BY <1>1, <4>2, <4>5 DEF Attaching
      <4>7. Range(wire') = {c}
        BY <1>16, <4>6
      <4> QED BY <1>4, <3>2, <4>4, <4>7
    <3> QED BY <1>6, <3>1, <3>2
  <2> QED BY <1>3, <2>1, <2>2 DEF Backed
<1> QED BY <1>8, <1>12, <1>13, <1>17, <1>18, <1>19, <1>20, <1>21, <1>22, <1>24, <1>25 DEF DeviceInv

(* A frame that is not the answer awaited changes nothing of the session. *)
LEMMA SkipStep ==
    ASSUME DeviceInv, UNCHANGED <<qemuVars, wire, linked, nextId, task>>, task.op # "idle",
           queued' \in Seq(Notices), unread' \in Seq(Frame), Range(unread') \subseteq Range(unread),
           Range(queued') \subseteq Range(queued) \cup Range(unread),
           Told(TRUE)' <=> Told(TRUE), Told(FALSE)' <=> Told(FALSE)
    PROVE  DeviceInv'
<1>1. /\ DeviceTypes /\ Fifo /\ Awaited /\ ToldOnce /\ Attaching /\ Undoing /\ Detaching /\ Awaiting
      /\ Ejecting /\ Plain /\ Controllers /\ Backed
  BY DEF DeviceInv
<1>2. wire' = wire /\ linked' = linked /\ nextId' = nextId /\ task' = task /\ linked
      /\ task \in Tasks /\ linked \in BOOLEAN /\ nextId \in Nat \ {0} /\ UNCHANGED qemuVars
  BY <1>1 DEF Awaited, DeviceTypes, qemuVars
<1>3. /\ DeviceTypes' /\ Fifo' /\ Controllers' /\ Backed'
      /\ kind' = kind /\ present' = present /\ leaving' = leaving /\ medium' = medium
      /\ Parts' = Parts /\ DetachLength' = DetachLength
      /\ (OnPci("dev")' <=> OnPci("dev"))
  BY <1>2, DeviceClientStep
<1>4. /\ Detached' = Detached /\ Ejected' = Ejected /\ (Mine' <=> Mine) /\ Just' = Just
  BY <1>2, <1>3 DEF Detached, Ejected, Mine, Just
<1>5. Awaited' /\ ToldOnce' /\ Plain'
  <2>1. Awaited'
    BY <1>1, <1>2 DEF Awaited
  <2>2. ToldOnce'
    BY <1>1 DEF ToldOnce
  <2>3. Plain'
    BY <1>1, <1>2 DEF Plain
  <2> QED BY <2>1, <2>2, <2>3
<1>6. Attaching'
  <2> SUFFICES ASSUME task.op = "attach", ~task.undo PROVE Attaching'
    BY <1>2 DEF Attaching
  <2>1. \A o : Settled(o)' <=> Settled(o)
    BY <1>3 DEF Settled
  <2>2. /\ \A j \in 1..Len(task.done) : Settled(task.done[j])'
        /\ \A o \in Just : Settled(o)'
    BY <1>1, <1>2, <2>1 DEF Attaching
  <2> QED BY <1>1, <1>2, <1>3, <1>4, <2>2 DEF Attaching
<1>7. Undoing' /\ Detaching' /\ Ejecting'
  BY <1>1, <1>2, <1>3, <1>4 DEF Undoing, Detaching, Ejecting
<1>8. Awaiting'
  <2>1. Event("DEVICE_DELETED", "dev") \in Range(unread') \cup Range(queued')
           => Event("DEVICE_DELETED", "dev") \in Range(unread) \cup Range(queued)
    OBVIOUS
  <2> QED BY <1>1, <1>2, <1>3, <1>4, <2>1 DEF Awaiting
<1> QED BY <1>3, <1>5, <1>6, <1>7, <1>8 DEF DeviceInv

(* The command in hand was executed: the session takes its next step. *)
Advanced(next, done) == task' = [task EXCEPT !.todo = next, !.done = done, !.wait = 0]

LEMMA TaskAdvanced ==
    ASSUME task \in Tasks, NEW next \in Seq(Steps), NEW done \in Seq(Objects), Advanced(next, done)
    PROVE  /\ task'.op = task.op /\ task'.todo = next /\ task'.done = done /\ task'.wait = 0
           /\ task'.undo = task.undo /\ task'.clean = task.clean /\ task'.before = task.before
           /\ task' \in Tasks
BY DEF Advanced, Tasks

LEMMA AdvanceStep ==
    ASSUME DeviceInv, UNCHANGED <<qemuVars, wire, linked, nextId>>, Told(TRUE), Len(task.todo) > 1,
           Advanced(Tail(task.todo), Append(task.done, task.todo[1][2])),
           queued' \in Seq(Notices), unread' \in Seq(Frame), Range(unread') \subseteq Range(unread),
           Range(queued') \subseteq Range(queued)
    PROVE  DeviceInv'
<1>1. /\ DeviceTypes /\ Fifo /\ Awaited /\ ToldOnce /\ Attaching /\ Undoing /\ Detaching /\ Awaiting
      /\ Ejecting /\ Plain /\ Controllers /\ Backed
  BY DEF DeviceInv
<1>2. wire = <<>> /\ Range(wire) = {} /\ ~Told(FALSE) /\ task.wait # 0 /\ task.op # "idle" /\ task.todo[1][1] # "wait"
  <2>1. wire = <<>> /\ Range(wire) = {}
    BY <1>1, ToldLast
  <2>2. task.wait # 0 /\ ~Told(FALSE)
    BY <1>1 DEF Told, ToldOnce
  <2> QED BY <1>1, <2>1, <2>2 DEF Awaited
<1>3. /\ task.todo \in Seq(Steps) /\ task.todo # <<>> /\ task.done \in Seq(Objects) /\ Len(task.done) \in Nat
  BY <1>1, <1>2, TaskIs DEF Awaited
<1>4. /\ Head(task.todo) = task.todo[1] /\ task.todo[1] \in Steps /\ Tail(task.todo) \in Seq(Steps)
      /\ Len(task.todo) \in Nat /\ Len(task.todo) > 1 /\ Len(Tail(task.todo)) = Len(task.todo) - 1
      /\ \A n \in 1..Len(Tail(task.todo)) : n + 1 \in 1..Len(task.todo) /\ Tail(task.todo)[n] = task.todo[n + 1]
  <2>1. /\ Head(task.todo) = task.todo[1] /\ Head(task.todo) \in Steps /\ Tail(task.todo) \in Seq(Steps)
        /\ Len(task.todo) \in Nat /\ Len(task.todo) > 0 /\ Len(Tail(task.todo)) = Len(task.todo) - 1
        /\ \A n \in 1..Len(Tail(task.todo)) : n + 1 \in 1..Len(task.todo) /\ Tail(task.todo)[n] = task.todo[n + 1]
    BY <1>3, TailIs
  <2> QED BY <2>1
<1> DEFINE x == task.todo[1][2]
<1>5. x \in Objects
  BY <1>4 DEF Steps
<1>6. /\ task'.op = task.op /\ task'.todo = Tail(task.todo) /\ task'.done = Append(task.done, x) /\ task'.wait = 0
      /\ task'.undo = task.undo /\ task'.clean = task.clean /\ task'.before = task.before
      /\ task' \in Tasks
  <2>1. Append(task.done, x) \in Seq(Objects)
    BY <1>3, <1>5, AppendIs
  <2>3. task \in Tasks
    BY <1>1 DEF DeviceTypes
  <2> DEFINE t == Tail(task.todo)
             d == Append(task.done, x)
  <2>4. t \in Seq(Steps) /\ d \in Seq(Objects) /\ Advanced(t, d)
    BY <1>4, <2>1
  <2> HIDE DEF t, d, x
  <2>5. /\ task'.op = task.op /\ task'.todo = t /\ task'.done = d /\ task'.wait = 0
        /\ task'.undo = task.undo /\ task'.clean = task.clean /\ task'.before = task.before
        /\ task' \in Tasks
    BY <2>3, <2>4, TaskAdvanced
  <2> QED BY <2>5 DEF t, d
<1>7. Tail(task.todo) # <<>>
  <2> DEFINE t == Tail(task.todo)
  <2>1. Len(t) > 0
    BY <1>4
  <2> HIDE DEF t
  <2>2. t # <<>>
    BY <2>1, EmptySeq
  <2> QED BY <2>2 DEF t
<1>8. wire' = wire /\ linked' = linked /\ nextId' = nextId /\ linked
      /\ linked \in BOOLEAN /\ nextId \in Nat \ {0} /\ UNCHANGED qemuVars
  BY <1>1, <1>2 DEF Awaited, DeviceTypes
<1>9. /\ DeviceTypes' /\ Fifo' /\ Controllers' /\ Backed'
      /\ kind' = kind /\ present' = present /\ leaving' = leaving /\ medium' = medium
      /\ Parts' = Parts /\ DetachLength' = DetachLength
      /\ (OnPci("dev")' <=> OnPci("dev")) /\ \A o : Settled(o) => Settled(o)'
  BY <1>6, <1>8, DeviceClientStep
<1>10. ~Told(TRUE)' /\ ~Told(FALSE)' /\ Just' = {} /\ Mine' /\ Just = {x} /\ Mine
  <2>1. ~Told(TRUE)' /\ ~Told(FALSE)'
    BY <1>6 DEF Told
  <2>2. Mine' /\ Mine
    BY <1>2, <1>8 DEF Mine
  <2> QED BY <2>1, <2>2 DEF Just
<1>11. Awaited' /\ ToldOnce'
  <2>1. Awaited'
    <3> DEFINE t == Tail(task.todo)
    <3>1. task'.wait = 0 /\ task'.todo = t /\ t # <<>> /\ linked'
      BY <1>6, <1>7, <1>8
    <3> HIDE DEF t
    <3> QED BY <3>1 DEF Awaited
  <2>2. ToldOnce'
    BY <1>10 DEF ToldOnce
  <2> QED BY <2>1, <2>2
<1>12. Attaching'
  <2> SUFFICES ASSUME task.op = "attach", ~task.undo PROVE Attaching'
    BY <1>6 DEF Attaching
  <2> DEFINE n == Len(task.done)
             d == Append(task.done, x)
  <2>1. /\ n + Len(task.todo) = Len(Parts)
        /\ \A j \in 1..n : task.done[j] = Parts[j] /\ Settled(task.done[j])
        /\ \A j \in 1..Len(task.todo) : task.todo[j] = <<"add", Parts[n + j]>>
        /\ Settled(x)
        /\ task.clean => /\ present \subseteq task.before \cup Range(task.done) \cup {x}
                         /\ kind # "network" /\ "node" \in Range(task.done) \cup {x} => "dev" \notin present \ {x}
    BY <1>1, <1>10 DEF Attaching
  <2>2. x = Parts[n + 1] /\ n + 1 \in 1..Len(Parts) /\ Len(Parts) \in 1..3
    BY <1>1, AttachIs
  <2>3. /\ Len(d) = n + 1 /\ Range(d) = Range(task.done) \cup {x}
        /\ \A k \in 1..Len(d) : \/ k \in 1..n /\ d[k] = task.done[k]
                                \/ k = n + 1 /\ d[k] = x
    BY <1>3, <1>5, AppendIs, RangeAppend
  <2>4. x # "dev"
    <3>1. n \in Nat /\ n + 1 < Len(Parts)
      <4> DEFINE p == Len(Parts)
                 m == Len(task.todo)
      <4>1. n \in Nat /\ m \in Nat /\ m > 1 /\ p \in 1..3
        BY <1>3, <1>4, <2>2
      <4>2. n + m = p
        BY <2>1
      <4> HIDE DEF n, m, p
      <4>3. n \in Nat /\ n + 1 < p
        BY <4>1, <4>2
      <4> QED BY <4>3 DEF p
    <3>2. \A j \in 1..Len(Parts) : j < Len(Parts) => Parts[j] \in {"ctl", "node"}
      BY <1>1, PartsAre DEF DeviceTypes
    <3> HIDE DEF n, x
    <3> QED BY <2>2, <3>1, <3>2
  <2>5. Len(d) + Len(Tail(task.todo)) = Len(Parts)
    <3> DEFINE p == Len(Parts)
               m == Len(task.todo)
               t == Len(Tail(task.todo))
               l == Len(d)
    <3>1. n \in Nat /\ m \in Nat /\ p \in Nat
      BY <1>3, <1>4, <2>2
    <3>2. t = m - 1
      BY <1>4
    <3>3. l = n + 1 /\ n + m = p
      BY <2>1, <2>3
    <3> HIDE DEF n, m, p, t, l
    <3>4. l + t = p
      BY <3>1, <3>2, <3>3
    <3> QED BY <3>4 DEF l, t, p
  <2>6. ASSUME NEW j \in 1..Len(d) PROVE d[j] = Parts[j] /\ d[j] \in present /\ d[j] \notin leaving
    <3> HIDE DEF d, n, x
    <3> QED BY <2>1, <2>2, <2>3 DEF Settled
  <2>7. ASSUME NEW j \in 1..Len(Tail(task.todo)) PROVE Tail(task.todo)[j] = <<"add", Parts[Len(d) + j]>>
    <3>1. j + 1 \in 1..Len(task.todo) /\ Tail(task.todo)[j] = task.todo[j + 1]
      BY <1>4
    <3>2. task.todo[j + 1] = <<"add", Parts[n + (j + 1)]>>
      BY <2>1, <3>1
    <3>3. n + (j + 1) = Len(d) + j
      <4>1. n \in Nat /\ j \in Nat /\ Len(d) = n + 1
        BY <1>3, <1>4, <2>3
      <4> HIDE DEF d, n
      <4> QED BY <4>1
    <3> QED BY <3>1, <3>2, <3>3
  <2>8. task.clean => /\ present \subseteq task.before \cup Range(d)
                      /\ kind # "network" /\ "node" \in Range(d) => "dev" \notin present
    <3> HIDE DEF d, n, x
    <3> QED BY <2>1, <2>3, <2>4
  <2> HIDE DEF d, n, x
  <2>9. /\ Len(task'.done) + Len(task'.todo) = Len(Parts')
        /\ \A j \in 1..Len(task'.todo) : task'.todo[j] = <<"add", Parts'[Len(task'.done) + j]>>
    BY <1>6, <1>9, <2>5, <2>7 DEF d
  <2>10. \A j \in 1..Len(d) : d[j] = Parts'[j] /\ d[j] \in present' /\ d[j] \notin leaving'
    BY <1>9, <2>6
  <2>11. task'.done = d
    BY <1>6 DEF d
  <2>12. \A j \in 1..Len(task'.done) :
            task'.done[j] = Parts'[j] /\ task'.done[j] \in present' /\ task'.done[j] \notin leaving'
    BY <2>10, <2>11
  <2>13. task'.clean => /\ present' \subseteq task'.before \cup Range(task'.done)
                        /\ kind' # "network" /\ "node" \in Range(task'.done) => "dev" \notin present'
    BY <1>6, <1>9, <2>8, <2>11
  <2> QED BY <1>10, <2>9, <2>12, <2>13 DEF Attaching, Settled
<1>13. Undoing'
  <2> SUFFICES ASSUME task.op = "attach", task.undo PROVE Undoing'
    BY <1>6 DEF Undoing
  <2>1. /\ \A j \in 1..Len(task.todo) :
              /\ task.todo[j][1] = "del" /\ task.todo[j][2] \in {"node", "ctl"}
              /\ j > 1 => task.todo[j][2] = "ctl"
        /\ task.clean => present \subseteq task.before \cup {"ctl", x}
        /\ task.clean /\ x = "node" => "node" \notin present
    BY <1>1 DEF Undoing
  <2>2. \A j \in 1..Len(Tail(task.todo)) :
              Tail(task.todo)[j][1] = "del" /\ Tail(task.todo)[j][2] = "ctl"
    <3> TAKE j \in 1..Len(Tail(task.todo))
    <3>1. j + 1 \in 1..Len(task.todo) /\ j + 1 > 1 /\ Tail(task.todo)[j] = task.todo[j + 1]
      BY <1>4
    <3> QED BY <2>1, <3>1
  <2>3. 1 \in 1..Len(Tail(task.todo)) /\ x \in {"node", "ctl"}
    <3>1. 1 \in 1..Len(task.todo) /\ 1 \in 1..Len(Tail(task.todo))
      BY <1>4
    <3> QED BY <2>1, <3>1
  <2>4. Tail(task.todo)[1][2] = "ctl"
    BY <2>2, <2>3
  <2>5. task.clean => present \subseteq task.before \cup {"ctl"}
    <3> HIDE DEF x
    <3> QED BY <2>1, <2>3
  <2>6. \A j \in 1..Len(task'.todo) :
              /\ task'.todo[j][1] = "del" /\ task'.todo[j][2] \in {"node", "ctl"}
              /\ j > 1 => task'.todo[j][2] = "ctl"
    BY <1>6, <2>2
  <2>7. task'.todo[1][2] = "ctl" /\ (task'.clean => present' \subseteq task'.before \cup {"ctl"})
    BY <1>6, <1>9, <2>4, <2>5
  <2> QED BY <1>10, <2>6, <2>7 DEF Undoing
<1>14. ASSUME task.op = "detach" PROVE Detaching' /\ Awaiting'
  <2>1. /\ Detached \in 0..4 /\ DetachLength \in {2, 3, 5} /\ Len(task.todo) = DetachLength - Detached
        /\ Detached = 1 => task.todo[1] = <<"wait", "dev">>
    BY <1>1, <1>14, DetachIs
  <2>2. /\ Len(task.todo) <= DetachLength /\ ~task.undo
        /\ \A j \in 1..Len(task.todo) : task.todo[j] = DetachSteps[Detached + j]
        /\ ~OnPci("dev") => "dev" \notin present
        /\ Detached >= 3 \/ Detached = 2 => "node" \notin present
    BY <1>1, <1>14 DEF Detaching
  <2>3. Len(task'.todo) = Len(task.todo) - 1
    BY <1>4, <1>6
  <2>4. Detached' = Detached + 1
    <3>1. Detached' = DetachLength - Len(task'.todo)
      BY <1>9 DEF Detached
    <3> DEFINE d == Detached
               l == DetachLength
               n == Len(task.todo)
               e == Detached'
               m == Len(task'.todo)
    <3>2. d \in 0..4 /\ l \in {2, 3, 5} /\ n = l - d /\ m = n - 1 /\ e = l - m
      BY <2>1, <2>3, <3>1
    <3> HIDE DEF d, l, n, e, m
    <3>3. e = d + 1
      BY <3>2
    <3> QED BY <3>3 DEF d, e
  <2>5. Detached # 1
    BY <1>2, <2>1
  <2>6. \A j \in 1..Len(task'.todo) : task'.todo[j] = DetachSteps[Detached' + j]
    <3> TAKE j \in 1..Len(task'.todo)
    <3>1. j + 1 \in 1..Len(task.todo) /\ task'.todo[j] = task.todo[j + 1]
      BY <1>4, <1>6
    <3>2. task.todo[j + 1] = DetachSteps[Detached + (j + 1)]
      BY <2>2, <3>1
    <3>3. Detached + (j + 1) = Detached' + j
      BY <2>1, <2>4
    <3> QED BY <3>1, <3>2, <3>3
  <2>7. Len(task'.todo) <= DetachLength'
    BY <1>4, <1>9, <2>1, <2>2, <2>3
  <2>8. Detached' >= 3 => "node" \notin present'
    BY <1>9, <2>1, <2>2, <2>4
  <2>9. Detaching'
    BY <1>6, <1>9, <1>10, <2>2, <2>6, <2>7, <2>8 DEF Detaching
  <2>10. Awaiting'
    <3> SUFFICES ASSUME OnPci("dev"), task.clean PROVE Awaiting'
      BY <1>6, <1>9 DEF Awaiting
    <3>1. /\ Detached >= 2 => "dev" \notin present
          /\ Event("DEVICE_DELETED", "dev") \in Range(unread) \cup Range(queued) => "dev" \notin present
      BY <1>1, <1>14 DEF Awaiting
    <3>2. Detached' >= 2 => "dev" \notin present'
      BY <1>9, <2>1, <2>4, <2>5, <3>1
    <3>3. Event("DEVICE_DELETED", "dev") \in Range(unread') \cup Range(queued') => "dev" \notin present'
      BY <1>9, <3>1
    <3> QED BY <1>6, <1>9, <1>10, <3>2, <3>3 DEF Awaiting
  <2> QED BY <2>9, <2>10
<1>15. task.op # "detach" => Detaching' /\ Awaiting'
  BY <1>6 DEF Detaching, Awaiting
<1>16. Ejecting'
  <2> SUFFICES ASSUME task.op = "eject" PROVE Ejecting'
    BY <1>6 DEF Ejecting
  <2>1. Ejected \in 0..2 /\ Len(task.todo) = 3 - Ejected
    BY <1>1, EjectIs
  <2>2. /\ Len(task.todo) <= 3 /\ ~task.undo
        /\ \A j \in 1..Len(task.todo) : task.todo[j] = EjectSteps[Ejected + j]
        /\ Ejected >= 2 \/ Ejected = 1 => ~medium.in
    BY <1>1 DEF Ejecting
  <2>3. Len(task'.todo) = Len(task.todo) - 1
    BY <1>4, <1>6
  <2>4. Ejected' = Ejected + 1
    <3>1. Ejected' = 3 - Len(task'.todo)
      BY DEF Ejected
    <3> QED BY <2>1, <2>3, <3>1
  <2>6. \A j \in 1..Len(task'.todo) : task'.todo[j] = EjectSteps[Ejected' + j]
    <3> TAKE j \in 1..Len(task'.todo)
    <3>1. j + 1 \in 1..Len(task.todo) /\ task'.todo[j] = task.todo[j + 1]
      BY <1>4, <1>6
    <3>2. task.todo[j + 1] = EjectSteps[Ejected + (j + 1)]
      BY <2>2, <3>1
    <3>3. Ejected + (j + 1) = Ejected' + j
      BY <2>1, <2>4
    <3> QED BY <3>1, <3>2, <3>3
  <2>7. Len(task'.todo) <= 3
    BY <2>1, <2>3
  <2>8. Ejected' >= 2 => ~medium'.in
    BY <1>9, <2>1, <2>2, <2>4
  <2> QED BY <1>6, <1>10, <2>2, <2>6, <2>7, <2>8 DEF Ejecting
<1>17. Plain'
  <2> SUFFICES ASSUME task.op \in {"change", "display", "query", "poll"} PROVE Plain'
    BY <1>6 DEF Plain
  <2>1. ~task.undo /\ \A j \in 1..Len(task.todo) : task.todo[j][1] \notin {"wait", "add"}
    BY <1>1 DEF Plain
  <2>2. \A j \in 1..Len(task'.todo) : task'.todo[j][1] \notin {"wait", "add"}
    BY <1>4, <1>6, <2>1
  <2> QED BY <1>6, <2>1, <2>2 DEF Plain
<1> QED BY <1>9, <1>11, <1>12, <1>13, <1>14, <1>15, <1>16, <1>17 DEF DeviceInv

LEMMA WaitingIs ==
    ASSUME DeviceInv, Waiting
    PROVE  /\ task.op = "detach" /\ task.wait = 0 /\ linked /\ task.todo \in Seq(Steps) /\ Head(task.todo) = task.todo[1]
           /\ \/ Detached = 1 /\ task.todo[1][2] = "dev"
              \/ Detached = 4 /\ task.todo[1][2] = "ctl" /\ Len(task.todo) = 1
           /\ Mine /\ ~Told(TRUE) /\ ~Told(FALSE)
<1>1. /\ DeviceTypes /\ Awaited /\ Attaching /\ Undoing /\ Detaching /\ Ejecting /\ Plain
  BY DEF DeviceInv
<1>2. /\ task.op # "idle" /\ task.todo # <<>> /\ Head(task.todo)[1] = "wait"
  BY DEF Waiting
<1>3. /\ task.todo \in Seq(Steps) /\ 1 \in 1..Len(task.todo) /\ Head(task.todo) = task.todo[1] /\ task.op \in Routes
      /\ task.undo \in BOOLEAN /\ task.wait \in Nat
  BY <1>1, <1>2, TaskIs, TailIs
<1>4. task.op = "detach"
  <2>1. ~(task.op = "attach" /\ ~task.undo)
    BY <1>1, <1>2, <1>3, AttachIs
  <2>2. ~(task.op = "attach" /\ task.undo)
    BY <1>1, <1>2, <1>3 DEF Undoing
  <2>3. task.op # "eject"
    BY <1>1, <1>2, <1>3, EjectIs
  <2>4. task.op \notin {"change", "display", "query", "poll"}
    BY <1>1, <1>2, <1>3 DEF Plain
  <2> QED BY <1>2, <1>3, <2>1, <2>2, <2>3, <2>4 DEF Routes
<1>5. task.wait = 0
  BY <1>1, <1>2, <1>3 DEF Awaited
<1> DEFINE d == Detached
           l == DetachLength
           n == Len(task.todo)
<1>6. /\ d \in 0..4 /\ d < l /\ l \in {2, 3, 5} /\ n = l - d
      /\ d = 0 => task.todo[1] = <<"del", "dev">>
      /\ d = 1 => task.todo[1] = <<"wait", "dev">>
      /\ d = 2 => task.todo[1] = <<"del", "node">>
      /\ d = 3 => task.todo[1] = <<"del", "ctl">>
      /\ d = 4 => task.todo[1] = <<"wait", "ctl">>
  BY <1>1, <1>4, DetachIs
<1>7. (d = 1 /\ task.todo[1][2] = "dev") \/ (d = 4 /\ task.todo[1][2] = "ctl")
  <2>1. task.todo[1][1] = "wait"
    BY <1>2, <1>3
  <2>2. d = 0 \/ d = 1 \/ d = 2 \/ d = 3 \/ d = 4
    <3> HIDE DEF d
    <3> QED BY <1>6
  <2> QED BY <1>6, <2>1, <2>2
<1>8. d = 4 => n = 1
  <2> HIDE DEF d, n, l
  <2> QED BY <1>6
<1>9. Mine
  <2>1. d >= 1
    BY <1>6, <1>7
  <2> QED BY <1>1, <1>4, <2>1 DEF Detaching
<1>10. linked /\ ~Told(TRUE) /\ ~Told(FALSE)
  BY <1>1, <1>2, <1>5 DEF Awaited, Told
<1> QED BY <1>3, <1>4, <1>5, <1>7, <1>8, <1>9, <1>10

LEMMA TailMore == ASSUME NEW S, NEW seq \in Seq(S), Len(seq) > 1 PROVE Tail(seq) # <<>>
<1>1. seq # <<>> /\ Len(seq) \in Nat
  BY EmptySeq
<1> DEFINE t == Tail(seq)
<1>2. t \in Seq(S) /\ Len(t) = Len(seq) - 1
  BY <1>1, HeadTailProperties
<1>3. Len(t) # 0
  BY <1>1, <1>2
<1> HIDE DEF t
<1>4. t # <<>>
  BY <1>3, EmptySeq
<1> QED BY <1>4 DEF t

LEMMA TaskWaited ==
    ASSUME task \in Tasks, NEW next \in Seq(Steps), task' = [task EXCEPT !.todo = next]
    PROVE  /\ task'.op = task.op /\ task'.todo = next /\ task'.done = task.done /\ task'.wait = task.wait
           /\ task'.undo = task.undo /\ task'.clean = task.clean /\ task'.before = task.before
           /\ task' \in Tasks
BY DEF Tasks

(* The event a detach waits for is there: it takes its next step. *)
LEMMA WaitStep ==
    ASSUME DeviceInv, Waiting, Event("DEVICE_DELETED", task.todo[1][2]) \in Range(queued),
           Len(task.todo) # 1, Len(task.todo) > 1, NEW next, next = Tail(task.todo), task' = [task EXCEPT !.todo = next],
           UNCHANGED <<qemuVars, wire, unread, linked, nextId>>,
           queued' \in Seq(Notices), Range(queued') \subseteq Range(queued)
    PROVE  DeviceInv'
<1>1. /\ DeviceTypes /\ Fifo /\ Awaited /\ ToldOnce /\ Attaching /\ Undoing /\ Detaching /\ Awaiting
      /\ Ejecting /\ Plain /\ Controllers /\ Backed
  BY DEF DeviceInv
<1>2. /\ task.op = "detach" /\ task.wait = 0 /\ linked /\ task.todo \in Seq(Steps)
      /\ Detached = 1 /\ task.todo[1][2] = "dev" /\ Mine /\ ~Told(TRUE) /\ ~Told(FALSE)
  <2>1. /\ task.op = "detach" /\ task.wait = 0 /\ linked /\ task.todo \in Seq(Steps)
        /\ Mine /\ ~Told(TRUE) /\ ~Told(FALSE)
    BY WaitingIs
  <2>2. \/ Detached = 1 /\ task.todo[1][2] = "dev"
        \/ Detached = 4 /\ task.todo[1][2] = "ctl" /\ Len(task.todo) = 1
    BY WaitingIs
  <2> QED BY <2>1, <2>2
<1>3. /\ next \in Seq(Steps) /\ Len(task.todo) \in Nat /\ Len(next) = Len(task.todo) - 1
      /\ \A n \in 1..Len(next) : n + 1 \in 1..Len(task.todo) /\ next[n] = task.todo[n + 1]
  <2>1. task.todo # <<>>
    BY DEF Waiting
  <2> QED BY <1>2, <2>1, TailIs
<1>4. next # <<>>
  BY <1>2, TailMore
<1>5. /\ task'.op = task.op /\ task'.todo = next /\ task'.done = task.done /\ task'.wait = task.wait
      /\ task'.undo = task.undo /\ task'.clean = task.clean /\ task'.before = task.before
      /\ task' \in Tasks
  <2>1. task \in Tasks
    BY <1>1 DEF DeviceTypes
  <2> QED BY <1>3, <2>1, TaskWaited
<1>6. wire' = wire /\ linked' = linked /\ nextId' = nextId /\ unread' = unread
      /\ linked' \in BOOLEAN /\ nextId' \in Nat \ {0} /\ UNCHANGED qemuVars /\ unread' \in Seq(Frame)
  BY <1>1 DEF DeviceTypes, Frame
<1>7. /\ DeviceTypes' /\ Fifo' /\ Controllers' /\ Backed'
      /\ kind' = kind /\ present' = present /\ leaving' = leaving /\ medium' = medium
      /\ DetachLength' = DetachLength /\ (OnPci("dev")' <=> OnPci("dev"))
  BY <1>2, <1>5, <1>6, DeviceClientStep
<1>8. Awaited'
  BY <1>2, <1>4, <1>5, <1>6 DEF Awaited
<1>9. ~Told(TRUE)' /\ ~Told(FALSE)' /\ Mine'
  BY <1>2, <1>5, <1>6 DEF Told, Mine
<1>10. ToldOnce' /\ Attaching' /\ Undoing' /\ Ejecting' /\ Plain'
  BY <1>2, <1>5, <1>9 DEF ToldOnce, Attaching, Undoing, Ejecting, Plain
<1>11. Detached' = 2
  <2>1. Detached' = DetachLength - Len(next) /\ DetachLength - Len(task.todo) = 1
    BY <1>2, <1>5, <1>7 DEF Detached
  <2> DEFINE l == DetachLength
             n == Len(task.todo)
             m == Len(next)
             e == Detached'
  <2>2. l \in Nat /\ n \in Nat /\ m = n - 1 /\ e = l - m /\ l - n = 1
    BY <1>3, <2>1 DEF DetachLength
  <2> HIDE DEF l, n, m, e
  <2>3. e = 2
    BY <2>2
  <2> QED BY <2>3 DEF e
<1>12. Detaching'
  <2>1. /\ Len(task.todo) <= DetachLength /\ ~task.undo
        /\ \A j \in 1..Len(task.todo) : task.todo[j] = DetachSteps[1 + j]
        /\ ~OnPci("dev") => "dev" \notin present
    BY <1>1, <1>2 DEF Detaching
  <2>2. \A j \in 1..Len(next) : next[j] = DetachSteps[2 + j]
    <3> TAKE j \in 1..Len(next)
    <3>1. j + 1 \in 1..Len(task.todo) /\ next[j] = task.todo[j + 1] /\ j \in Nat
      BY <1>3
    <3>2. 1 + (j + 1) = 2 + j
      BY <3>1
    <3> QED BY <2>1, <3>1, <3>2
  <2>3. Len(next) <= DetachLength'
    <3>1. DetachLength \in Nat
      BY DEF DetachLength
    <3> QED BY <1>3, <1>7, <2>1, <3>1
  <2>4. ~(Detached' >= 3)
    BY <1>11
  <2> QED BY <1>5, <1>7, <1>9, <1>11, <2>1, <2>2, <2>3, <2>4 DEF Detaching
<1>13. Awaiting'
  <2> SUFFICES ASSUME OnPci("dev"), task.clean PROVE Awaiting'
    BY <1>5, <1>7 DEF Awaiting
  <2>1. "dev" \notin present
    BY <1>1, <1>2 DEF Awaiting
  <2> QED BY <1>7, <1>9, <2>1 DEF Awaiting
<1> QED BY <1>7, <1>8, <1>10, <1>12, <1>13 DEF DeviceInv

LEMMA TaskUndoing ==
    ASSUME task \in Tasks, NEW next \in Seq(Steps), NEW clean \in BOOLEAN, <<>> \in Seq(Objects),
           \/ task' = [task EXCEPT !.todo = next, !.done = <<>>, !.wait = 0, !.undo = TRUE, !.clean = @ /\ clean]
           \/ task.undo /\ task' = [task EXCEPT !.todo = next, !.wait = 0, !.clean = @ /\ clean]
    PROVE  /\ task'.op = task.op /\ task'.todo = next /\ task'.wait = 0 /\ task'.before = task.before
           /\ task'.undo /\ (task'.clean <=> task.clean /\ clean)
           /\ task' \in Tasks
<1> DEFINE c == task.clean /\ clean
<1>1. c \in BOOLEAN /\ (c <=> task.clean /\ clean)
  BY Zenon DEF Tasks
<1>2. CASE task' = [task EXCEPT !.todo = next, !.done = <<>>, !.wait = 0, !.undo = TRUE, !.clean = @ /\ clean]
  <2>1. task' = [task EXCEPT !.todo = next, !.done = <<>>, !.wait = 0, !.undo = TRUE, !.clean = c]
    BY <1>2
  <2> HIDE DEF c
  <2>2. /\ task'.op = task.op /\ task'.todo = next /\ task'.wait = 0 /\ task'.before = task.before
        /\ task'.undo = TRUE /\ task'.clean = c /\ task' \in Tasks
    BY <1>1, <2>1 DEF Tasks
  <2>3. task'.undo /\ (task'.clean <=> c)
    BY <2>2, Zenon
  <2> QED BY <1>1, <2>2, <2>3
<1>3. CASE task.undo /\ task' = [task EXCEPT !.todo = next, !.wait = 0, !.clean = @ /\ clean]
  <2>1. task' = [task EXCEPT !.todo = next, !.wait = 0, !.clean = c]
    BY <1>3
  <2> HIDE DEF c
  <2>2. /\ task'.op = task.op /\ task'.todo = next /\ task'.wait = 0 /\ task'.before = task.before
        /\ task'.undo = task.undo /\ task'.clean = c /\ task' \in Tasks
    BY <1>1, <2>1 DEF Tasks
  <2>3. task'.undo /\ (task'.clean <=> c)
    BY <1>3, <2>2, Zenon
  <2> QED BY <1>1, <2>2, <2>3
<1> QED BY <1>2, <1>3

(* A roll-back begins, or goes on after a step that failed. *)
LEMMA UndoStep ==
    ASSUME DeviceInv, UNCHANGED <<qemuVars, wire, linked, nextId, queued>>, task.op = "attach",
           NEW next \in Seq(Steps), next # <<>>, NEW clean \in BOOLEAN, clean => Told(FALSE),
           \/ task' = [task EXCEPT !.todo = next, !.done = <<>>, !.wait = 0, !.undo = TRUE, !.clean = @ /\ clean]
           \/ task.undo /\ task' = [task EXCEPT !.todo = next, !.wait = 0, !.clean = @ /\ clean],
           unread' \in Seq(Frame), Range(unread') \subseteq Range(unread) \cup {Garbage},
           \A j \in 1..Len(next) : /\ next[j][1] = "del" /\ next[j][2] \in {"node", "ctl"}
                                   /\ j > 1 => next[j][2] = "ctl",
           clean /\ task.clean =>
              /\ present \subseteq task.before \cup {"ctl", next[1][2]}
              /\ next[1][2] = "node" => "node" \in present /\ (kind # "network" => "dev" \notin present)
    PROVE  DeviceInv'
<1>1. DeviceTypes /\ Fifo /\ Awaited
  BY DEF DeviceInv
<1>2. /\ task'.op = "attach" /\ task'.todo = next /\ task'.wait = 0 /\ task'.before = task.before
      /\ task'.undo /\ (task'.clean <=> task.clean /\ clean) /\ task' \in Tasks
  <2>1. task \in Tasks /\ <<>> \in Seq(Objects)
    BY <1>1, EmptySeq DEF DeviceTypes
  <2> QED BY <2>1, TaskUndoing
<1>3. wire' = wire /\ linked' = linked /\ nextId' = nextId /\ linked /\ linked' \in BOOLEAN
      /\ nextId' \in Nat \ {0} /\ queued' \in Seq(Notices) /\ UNCHANGED qemuVars
  BY <1>1 DEF DeviceTypes, Awaited
<1>4. /\ DeviceTypes' /\ Fifo' /\ Controllers' /\ Backed' /\ kind' = kind /\ present' = present
  BY <1>2, <1>3, DeviceClientStep
<1>5. Awaited'
  BY <1>2, <1>3 DEF Awaited
<1>6. ~Told(TRUE)' /\ ~Told(FALSE)'
  BY <1>2 DEF Told
<1>7. ToldOnce' /\ Attaching' /\ Detaching' /\ Awaiting' /\ Ejecting' /\ Plain'
  BY <1>2, <1>6 DEF ToldOnce, Attaching, Detaching, Awaiting, Ejecting, Plain
<1>8. task'.clean => Mine'
  <2> SUFFICES ASSUME clean PROVE Mine'
    BY <1>2
  <2>1. Range(wire) = {}
    BY <1>1, ToldLast
  <2> QED BY <1>3, <2>1 DEF Mine
<1>9. Undoing'
  <2>1. \A j \in 1..Len(task'.todo) :
              /\ task'.todo[j][1] = "del" /\ task'.todo[j][2] \in {"node", "ctl"}
              /\ j > 1 => task'.todo[j][2] = "ctl"
    BY <1>2
  <2>2. task'.clean => /\ present' \subseteq task'.before \cup {"ctl", task'.todo[1][2]}
                       /\ task'.todo[1][2] = "node" => "node" \in present' /\ (kind' # "network" => "dev" \notin present')
    BY <1>2, <1>4
  <2> QED BY <1>6, <1>8, <2>1, <2>2 DEF Undoing
<1> QED BY <1>4, <1>5, <1>7, <1>9 DEF DeviceInv

LEMMA UndoIs ==
    ASSUME DeviceInv, task.op = "attach", ~task.undo, NEW undo, undo = Dels(Reverse(task.done)), undo # <<>>
    PROVE  /\ undo \in Seq(Steps)
           /\ \A j \in 1..Len(undo) : /\ undo[j][1] = "del" /\ undo[j][2] \in {"node", "ctl"}
                                      /\ j > 1 => undo[j][2] = "ctl"
           /\ Range(task.done) \subseteq {"ctl", undo[1][2]}
           /\ undo[1][2] \in Range(task.done) /\ Settled(undo[1][2])
<1>1. /\ DeviceTypes /\ Awaited /\ Attaching /\ task.done \in Seq(Objects) /\ Len(task.done) \in Nat
      /\ Range(task.done) = {task.done[j] : j \in 1..Len(task.done)}
  BY TaskIs DEF DeviceInv
<1> DEFINE n == Len(task.done)
           p == Len(Parts)
           r == Reverse(task.done)
<1>2. /\ p \in 1..3 /\ n + 1 \in 1..p
      /\ \A j \in 1..n : j \in 1..p /\ j < p /\ task.done[j] = Parts[j] /\ Settled(task.done[j])
  BY <1>1, AttachIs
<1>3. \A j \in 1..p : (j < p => Parts[j] \in {"ctl", "node"}) /\ (j + 1 < p => Parts[j] = "ctl")
  BY <1>1, PartsAre DEF DeviceTypes
<1>4. ASSUME NEW j \in 1..n PROVE task.done[j] \in {"ctl", "node"} /\ (j < n => task.done[j] = "ctl")
  <2> HIDE DEF n, p
  <2>1. j \in 1..p /\ j < p /\ task.done[j] = Parts[j]
    BY <1>2
  <2>2. n \in Nat /\ p \in Nat /\ n + 1 <= p /\ j \in Nat
    BY <1>1, <1>2 DEF n
  <2>3. j < n => j + 1 < p
    BY <2>2
  <2> QED BY <1>3, <2>1, <2>3
<1>5. r \in Seq(Objects) /\ Len(r) = n /\ \A j \in 1..n : (n - j) + 1 \in 1..n /\ r[j] = task.done[(n - j) + 1]
  <2>1. r = [j \in 1..n |-> task.done[(n - j) + 1]]
    BY DEF Reverse
  <2>2. \A j \in 1..n : (n - j) + 1 \in 1..n
    BY <1>1
  <2>3. \A j \in 1..n : task.done[j] \in Objects
    BY <1>1, ElementOfSeq
  <2> HIDE DEF n, r
  <2>4. n \in Nat
    BY <1>1 DEF n
  <2>5. \A j \in 1..n : task.done[(n - j) + 1] \in Objects
    BY <2>2, <2>3
  <2> QED BY <2>1, <2>2, <2>4, <2>5
<1>6. undo = [j \in 1..n |-> <<"del", r[j]>>]
  BY <1>5 DEF Dels
<1>7. \A j \in 1..n : <<"del", r[j]>> \in Steps /\ <<"del", r[j]>>[1] = "del" /\ <<"del", r[j]>>[2] = r[j]
  <2>1. \A j \in 1..n : r[j] \in Objects
    BY <1>5, ElementOfSeq
  <2> QED BY <2>1, StepsAre DEF Verbs
<1>8. undo \in Seq(Steps) /\ Len(undo) = n /\ \A j \in 1..n : undo[j][1] = "del" /\ undo[j][2] = r[j]
  <2> HIDE DEF n, r
  <2>1. n \in Nat
    BY <1>1 DEF n
  <2> QED BY <1>6, <1>7, <2>1
<1>9. n > 0
  <2>1. Len(undo) > 0
    BY <1>8, EmptySeq
  <2> QED BY <1>8, <2>1
<1>10. r[1] = task.done[n] /\ 1 \in 1..n /\ n \in 1..n
  <2>1. 1 \in 1..n /\ n \in 1..n /\ (n - 1) + 1 = n
    <3> HIDE DEF n
    <3> QED BY <1>1, <1>9 DEF n
  <2> QED BY <1>5, <2>1
<1>11. \A j \in 1..n : r[j] \in {"ctl", "node"} /\ (j > 1 => r[j] = "ctl")
  <2> TAKE j \in 1..n
  <2>1. (n - j) + 1 \in 1..n /\ r[j] = task.done[(n - j) + 1]
    BY <1>5
  <2>2. j > 1 => (n - j) + 1 < n
    <3> HIDE DEF n
    <3>1. n \in Nat
      BY <1>1 DEF n
    <3> QED BY <3>1
  <2> QED BY <1>4, <2>1, <2>2
<1>12. undo[1][2] = task.done[n]
  BY <1>8, <1>10
<1>13. Range(task.done) \subseteq {"ctl", task.done[n]}
  <2>1. \A j \in 1..n : task.done[j] = "ctl" \/ j = n
    <3> HIDE DEF n
    <3>1. n \in Nat
      BY <1>1 DEF n
    <3> QED BY <1>4, <3>1
  <2> QED BY <1>1, <2>1
<1>14. task.done[n] \in Range(task.done) /\ Settled(task.done[n])
  BY <1>1, <1>2, <1>10
<1> QED BY <1>8, <1>11, <1>12, <1>13, <1>14

LEMMA FramesAre ==
    ASSUME DeviceInv, UNCHANGED nextId, linked' \in BOOLEAN, linked', NEW rest \in Seq(Frame),
           Range(rest) \subseteq Range(unread) \cup {Garbage}, Frames(rest)
    PROVE  /\ unread' \in Seq(Frame) /\ Range(unread') \subseteq Range(unread) \cup {Garbage}
           /\ wire' = wire /\ nextId' = nextId /\ unread' = rest
BY DEF Frames

(* The step in hand fails, ... *)
LEMMA FailedStep ==
    ASSUME DeviceInv, task.op # "idle", NEW clean \in BOOLEAN, Failed(clean), clean => Told(FALSE),
           UNCHANGED qemuVars, NEW rest \in Seq(Frame), Range(rest) \subseteq Range(unread) \cup {Garbage},
           Frames(rest)
    PROVE  DeviceInv'
<1> DEFINE undo == Dels(Reverse(task.done))
           left == Tail(task.todo)
           optional == task.op = "detach" /\ Head(task.todo) = <<"del", "ctl">>
           answer == IF optional THEN "ok" ELSE "error"
<1>1. /\ DeviceTypes /\ Fifo /\ Awaited /\ Attaching /\ Undoing /\ Detaching /\ Ejecting /\ Plain
  BY DEF DeviceInv
<1>2. /\ task.op \in Routes /\ task.todo \in Seq(Steps) /\ task.todo # <<>> /\ linked /\ linked \in BOOLEAN
      /\ nextId \in Nat \ {0} /\ queued \in Seq(Notices) /\ task.undo \in BOOLEAN /\ task.clean \in BOOLEAN
  BY <1>1, TaskIs DEF Awaited, DeviceTypes
<1>3. task.undo => task.op = "attach"
  <2>1. task.op = "detach" => ~task.undo
    BY <1>1 DEF Detaching
  <2>2. task.op = "eject" => ~task.undo
    BY <1>1 DEF Ejecting
  <2>3. task.op \in {"change", "display", "query", "poll"} => ~task.undo
    BY <1>1 DEF Plain
  <2> QED BY <1>2, <2>1, <2>2, <2>3 DEF Routes
<1>4. answer \in {"ok", "error", "pending"}
  OBVIOUS
<1>5. CASE task.op = "poll"
  <2>1. Finish("error", TRUE) /\ linked' = FALSE /\ nextId' = 1 /\ queued' = <<>>
    BY <1>3, <1>5 DEF Failed
  <2>2. linked' \in BOOLEAN /\ ~linked'
    BY <2>1, Zenon
  <2>3. wire' = <<>> /\ unread' = <<>>
    BY <2>2 DEF Frames
  <2>4. unread' \in Seq(Frame) /\ Range(unread') \subseteq Range(unread) \cup {Garbage}
        /\ nextId' \in Nat \ {0} /\ queued' \in Seq(Notices)
    <3>1. unread' \in Seq(Frame) /\ queued' \in Seq(Notices) /\ nextId' \in Nat \ {0}
      BY <2>1, <2>3, EmptySeq
    <3>2. Range(<<>>) = {}
      BY DEF Range
    <3> QED BY <2>3, <3>1, <3>2
  <2> QED BY <2>1, <2>2, <2>3, <2>4, FinishStep
<1>6. CASE task.op = "attach" /\ ~task.undo /\ undo # <<>>
  <2>1. /\ task' = [task EXCEPT !.todo = undo, !.done = <<>>, !.wait = 0, !.undo = TRUE, !.clean = @ /\ clean]
        /\ UNCHANGED <<linked, nextId, queued>>
    BY <1>6 DEF Failed
  <2>2. unread' \in Seq(Frame) /\ Range(unread') \subseteq Range(unread) \cup {Garbage} /\ wire' = wire
    <3>1. linked' \in BOOLEAN /\ linked' /\ nextId' = nextId
      BY <1>2, <2>1
    <3> QED BY <3>1, FramesAre
  <2> HIDE DEF undo
  <2>3. /\ undo \in Seq(Steps)
        /\ \A j \in 1..Len(undo) : /\ undo[j][1] = "del" /\ undo[j][2] \in {"node", "ctl"}
                                   /\ j > 1 => undo[j][2] = "ctl"
        /\ Range(task.done) \subseteq {"ctl", undo[1][2]}
        /\ undo[1][2] \in Range(task.done) /\ Settled(undo[1][2])
    BY <1>6, UndoIs DEF undo
  <2>4. clean /\ task.clean =>
              /\ present \subseteq task.before \cup {"ctl", undo[1][2]}
              /\ undo[1][2] = "node" => "node" \in present /\ (kind # "network" => "dev" \notin present)
    <3> SUFFICES ASSUME clean, task.clean
                 PROVE  /\ present \subseteq task.before \cup {"ctl", undo[1][2]}
                        /\ undo[1][2] = "node" => "node" \in present /\ (kind # "network" => "dev" \notin present)
      OBVIOUS
    <3>1. Told(FALSE) /\ ~Told(TRUE)
      BY DEF DeviceInv, ToldOnce
    <3>2. Just = {}
      BY <3>1 DEF Just
    <3>3. /\ present \subseteq task.before \cup Range(task.done)
          /\ kind # "network" /\ "node" \in Range(task.done) => "dev" \notin present
      BY <1>1, <1>6, <3>2 DEF Attaching
    <3> QED BY <2>3, <3>3 DEF Settled
  <2> QED BY <1>6, <2>1, <2>2, <2>3, <2>4, UndoStep
<1>7. CASE task.undo /\ left # <<>>
  <2>1. /\ task' = [task EXCEPT !.todo = left, !.wait = 0, !.clean = @ /\ clean]
        /\ UNCHANGED <<linked, nextId, queued>>
    BY <1>3, <1>7 DEF Failed
  <2>2. unread' \in Seq(Frame) /\ Range(unread') \subseteq Range(unread) \cup {Garbage} /\ wire' = wire
    <3>1. linked' \in BOOLEAN /\ linked' /\ nextId' = nextId
      BY <1>2, <2>1
    <3> QED BY <3>1, FramesAre
  <2>3. left \in Seq(Steps) /\ \A n \in 1..Len(left) : n + 1 \in 1..Len(task.todo) /\ left[n] = task.todo[n + 1]
        /\ n + 1 > 1
    BY <1>2, TailIs
  <2>4. 1 \in 1..Len(left) /\ 1 \in 1..Len(task.todo)
    <3>1. Len(left) \in Nat /\ Len(left) # 0
      <4> HIDE DEF left
      <4> QED BY <1>7, <2>3, EmptySeq
    <3>2. 1 \in 1..Len(task.todo)
      BY <1>1, <1>2, TaskIs
    <3> HIDE DEF left
    <3> QED BY <3>1, <3>2
  <2> HIDE DEF left
  <2>5. /\ \A j \in 1..Len(task.todo) :
              /\ task.todo[j][1] = "del" /\ task.todo[j][2] \in {"node", "ctl"}
              /\ j > 1 => task.todo[j][2] = "ctl"
        /\ task.clean => present \subseteq task.before \cup {"ctl", task.todo[1][2]}
        /\ task.clean /\ task.todo[1][2] = "node" => ~Told(FALSE)
    BY <1>1, <1>3, <1>7 DEF Undoing
  <2>6. \A j \in 1..Len(left) : left[j][1] = "del" /\ left[j][2] = "ctl"
    BY <2>3, <2>5
  <2>7. left[1][2] = "ctl" /\ (clean /\ task.clean => present \subseteq task.before \cup {"ctl"})
    BY <2>4, <2>5, <2>6
  <2>8. \A j \in 1..Len(left) : /\ left[j][1] = "del" /\ left[j][2] \in {"node", "ctl"}
                                /\ j > 1 => left[j][2] = "ctl"
    BY <2>6
  <2>9. clean /\ task.clean =>
              /\ present \subseteq task.before \cup {"ctl", left[1][2]}
              /\ left[1][2] = "node" => "node" \in present /\ (kind # "network" => "dev" \notin present)
    BY <2>7
  <2> QED BY <1>3, <1>7, <2>1, <2>2, <2>3, <2>8, <2>9, UndoStep
<1>8. CASE task.op # "poll" /\ ~(task.op = "attach" /\ ~task.undo /\ undo # <<>>) /\ ~(task.undo /\ left # <<>>)
  <2>1. Finish(answer, clean) /\ UNCHANGED <<linked, nextId, queued>>
    BY <1>8, Zenon DEF Failed
  <2>2. linked' \in BOOLEAN /\ linked' /\ nextId' = nextId /\ nextId' \in Nat \ {0} /\ queued' \in Seq(Notices)
    BY <1>2, <2>1
  <2>3. unread' \in Seq(Frame) /\ Range(unread') \subseteq Range(unread) \cup {Garbage} /\ wire' = wire
    BY <2>2, FramesAre
  <2> HIDE DEF answer
  <2> QED BY <1>4, <2>1, <2>2, <2>3, FinishStep
<1> QED BY <1>5, <1>6, <1>7, <1>8

LEMMA CutIs ==
    ASSUME DeviceInv, NEW cut \in BOOLEAN, cut => unread # <<>>
    PROVE  LET rest == IF cut THEN <<Garbage>> \o Tail(unread) ELSE unread
           IN  rest \in Seq(Frame) /\ Range(rest) \subseteq Range(unread) \cup {Garbage}
<1> DEFINE one == <<Garbage>>
           t == Tail(unread)
<1>1. unread \in Seq(Frame)
  BY DEF DeviceInv, DeviceTypes, Frame
<1>2. CASE cut
  <2>1. t \in Seq(Frame) /\ Range(t) \subseteq Range(unread)
    BY <1>1, <1>2, RangeTail, TailIs
  <2>2. one \in Seq(Frame) /\ Range(one) = {Garbage}
    <3>1. Garbage \in Frame
      BY DEF Frame
    <3> QED BY <3>1 DEF Range
  <2> HIDE DEF one, t
  <2>3. one \o t \in Seq(Frame) /\ Range(one \o t) = Range(one) \cup Range(t)
    BY <2>1, <2>2, RangeConcat
  <2> QED BY <1>2, <2>1, <2>2, <2>3 DEF one, t
<1> QED BY <1>1, <1>2

LEMMA KeepIs ==
    ASSUME DeviceInv, NEW frame \in Notices, Keep(frame, EventLimit)
    PROVE  queued' \in Seq(Notices) /\ Range(queued') \subseteq Range(queued) \cup {frame}
<1> DEFINE q == IF Len(queued) >= EventLimit THEN Tail(queued) ELSE queued
<1>1. queued \in Seq(Notices) /\ Len(queued) \in Nat /\ EventLimit \in Nat \ {0} /\ queued' = Append(q, frame)
  BY DevicesAssumption DEF DeviceInv, DeviceTypes, Keep
<1>2. q \in Seq(Notices) /\ Range(q) \subseteq Range(queued)
  <2>1. CASE Len(queued) >= EventLimit
    <3>1. queued # <<>>
      <4>1. Len(queued) # 0
        BY <1>1, <2>1
      <4> QED BY <1>1, <4>1, EmptySeq
    <3>2. q = Tail(queued)
      BY <2>1
    <3> QED BY <1>1, <3>1, <3>2, RangeTail, TailIs
  <2>2. CASE ~(Len(queued) >= EventLimit)
    BY <1>1, <2>2
  <2> QED BY <2>1, <2>2
<1> HIDE DEF q
<1>3. queued' \in Seq(Notices) /\ Range(queued') = Range(q) \cup {frame}
  BY <1>1, <1>2, RangeAppend
<1> QED BY <1>2, <1>3

(* The first of the frames that have come is read. *)
LEMMA ReadIs ==
    ASSUME DeviceInv, unread # <<>>
    PROVE  /\ Head(unread) \in Frame /\ Head(unread) \in Range(unread) /\ Tail(unread) \in Seq(Frame)
           /\ Range(unread) = {Head(unread)} \cup Range(Tail(unread))
           /\ Range(Tail(unread)) \subseteq Range(unread) \cup {Garbage}
<1>1. unread \in Seq(Frame)
  BY DEF DeviceInv, DeviceTypes, Frame
<1>2. Head(unread) \in Frame /\ Tail(unread) \in Seq(Frame)
  BY <1>1, TailIs
<1>3. Head(unread) \in Range(unread) /\ Range(unread) = {Head(unread)} \cup Range(Tail(unread))
  BY <1>1, RangeTail
<1> QED BY <1>2, <1>3

LEMMA AdvanceAny ==
    ASSUME DeviceInv, task.wait # 0, Told(TRUE), Advance, UNCHANGED qemuVars,
           unread # <<>>, Frames(Tail(unread))
    PROVE  DeviceInv'
<1>1. /\ DeviceTypes /\ Awaited /\ task.op # "idle" /\ linked /\ linked \in BOOLEAN /\ nextId \in Nat \ {0}
      /\ queued \in Seq(Notices) /\ task.todo \in Seq(Steps) /\ task.todo # <<>> /\ Len(task.todo) \in Nat
  <2>1. DeviceTypes /\ Awaited
    BY DEF DeviceInv
  <2>2. task.op # "idle"
    BY <2>1 DEF Awaited
  <2> QED BY <2>1, <2>2, TaskIs DEF Awaited, DeviceTypes
<1>2. linked' = linked /\ nextId' = nextId /\ queued' = IF task.op = "poll" THEN <<>> ELSE queued
  BY DEF Advance
<1>3. /\ Tail(unread) \in Seq(Frame) /\ Range(Tail(unread)) \subseteq Range(unread)
      /\ Range(Tail(unread)) \subseteq Range(unread) \cup {Garbage}
  BY ReadIs
<1>4. wire' = wire /\ unread' = Tail(unread) /\ linked' \in BOOLEAN /\ linked'
  BY <1>1, <1>2, <1>3, FramesAre
<1>5. queued' \in Seq(Notices) /\ Range(queued') \subseteq Range(queued)
  <2>1. CASE task.op = "poll"
    <3>1. queued' = <<>> /\ Range(<<>>) = {}
      BY <1>2, <2>1 DEF Range
    <3> QED BY <3>1, EmptySeq
  <2>2. CASE task.op # "poll"
    BY <1>1, <1>2, <2>2
  <2> QED BY <2>1, <2>2
<1>6. CASE Len(task.todo) = 1
  <2> DEFINE answer == IF task.undo THEN "error" ELSE "ok"
  <2>1. Finish(answer, TRUE)
    BY <1>6 DEF Advance
  <2>2. answer \in {"ok", "error", "pending"}
    OBVIOUS
  <2> HIDE DEF answer
  <2>3. UNCHANGED qemuVars /\ nextId' \in Nat \ {0} /\ unread' \in Seq(Frame)
        /\ Range(unread') \subseteq Range(unread) \cup {Garbage}
    BY <1>1, <1>2, <1>3, <1>4
  <2> QED BY <1>2, <1>4, <1>5, <2>1, <2>2, <2>3, FinishStep
<1>7. CASE Len(task.todo) # 1
  <2>1. task' = [task EXCEPT !.todo = Tail(@), !.done = Append(@, Head(task.todo)[2]), !.wait = 0]
    BY <1>7 DEF Advance
  <2>2. Head(task.todo) = task.todo[1]
    BY <1>1, TailIs
  <2>3. Advanced(Tail(task.todo), Append(task.done, task.todo[1][2]))
    BY <2>1, <2>2 DEF Advanced
  <2>4. Len(task.todo) > 1
    <3>1. Len(task.todo) # 0
      BY <1>1, EmptySeq
    <3> DEFINE n == Len(task.todo)
    <3>2. n \in Nat /\ n # 0 /\ n # 1
      BY <1>1, <1>7, <3>1
    <3> HIDE DEF n
    <3>3. n > 1
      BY <3>2
    <3> QED BY <3>3 DEF n
  <2>5. unread' \in Seq(Frame) /\ Range(unread') \subseteq Range(unread)
    BY <1>3, <1>4
  <2> QED BY <1>2, <1>4, <1>5, <2>3, <2>4, <2>5, AdvanceStep
<1> QED BY <1>6, <1>7

LEMMA ReadStep == ASSUME DeviceInv, ReadReply PROVE DeviceInv'
<1> DEFINE frame == Head(unread)
           rest == Tail(unread)
<1>1. /\ DeviceTypes /\ Awaited /\ task.wait # 0 /\ task.wait \in Nat /\ unread # <<>> /\ UNCHANGED qemuVars
      /\ Frames(rest) /\ nextId \in Nat /\ linked \in BOOLEAN
  BY TaskIs DEF DeviceInv, ReadReply, DeviceTypes
<1>2. task.op # "idle" /\ linked
  BY <1>1 DEF Awaited
<1>3. /\ frame \in Frame /\ frame \in Range(unread) /\ rest \in Seq(Frame)
      /\ Range(unread) = {frame} \cup Range(rest)
      /\ Range(rest) \subseteq Range(unread) \cup {Garbage}
  BY <1>1, ReadIs
<1> HIDE DEF frame, rest
<1>4. CASE IsGarbage(frame)
  <2>2. ~IsEvent(frame)
    BY <1>3, <1>4, FrameKinds, GarbageIs DEF Frame
  <2>1. Failed(FALSE)
    BY <1>4, <2>2, Zenon DEF ReadReply, frame
  <2> QED BY <1>1, <1>2, <1>3, <2>1, FailedStep
<1>5. ASSUME ~IsGarbage(frame), UNCHANGED <<linked, nextId, task>>, queued' \in Seq(Notices),
             Range(queued') \subseteq Range(queued) \cup Range(unread),
             frame \in Replies => frame.id # task.wait
      PROVE  DeviceInv'
  <2>1. linked' = linked /\ linked' \in BOOLEAN /\ linked' /\ nextId' = nextId /\ task' = task
    BY <1>1, <1>2, <1>5
  <2>2. wire' = wire /\ unread' = rest
    BY <1>1, <1>3, <2>1, FramesAre
  <2>3. Range(unread') \subseteq Range(unread) /\ unread' \in Seq(Frame)
    BY <1>3, <2>2
  <2>4. ASSUME NEW b \in BOOLEAN
        PROVE  [id |-> task.wait, ok |-> b] \in Range(unread') <=> [id |-> task.wait, ok |-> b] \in Range(unread)
    <3> DEFINE f == [id |-> task.wait, ok |-> b]
    <3>1. f \in Replies /\ f.id = task.wait
      BY <1>1 DEF Replies
    <3>2. frame # f
      BY <1>5, <3>1
    <3> HIDE DEF f
    <3>3. f \in Range(unread') <=> f \in Range(unread)
      BY <1>3, <2>2, <3>2
    <3> QED BY <3>3 DEF f
  <2>5. Told(TRUE)' <=> Told(TRUE)
    BY <2>1, <2>4 DEF Told
  <2>6. Told(FALSE)' <=> Told(FALSE)
    BY <2>1, <2>4 DEF Told
  <2> QED BY <1>1, <1>2, <1>5, <2>1, <2>2, <2>3, <2>5, <2>6, SkipStep
<1>6. CASE IsEvent(frame) /\ ~IsGarbage(frame)
  <2>1. Keep(frame, EventLimit) /\ UNCHANGED <<linked, nextId, task>>
    BY <1>6, Zenon DEF ReadReply, frame
  <2>2. frame \in Notices /\ frame \notin Replies
    BY <1>3, <1>6, FrameKinds, NotReplies DEF Frame
  <2>3. queued' \in Seq(Notices) /\ Range(queued') \subseteq Range(queued) \cup {frame}
    BY <2>1, <2>2, KeepIs
  <2> QED BY <1>3, <1>5, <1>6, <2>1, <2>2, <2>3
<1>7. CASE ~IsEvent(frame) /\ ~IsGarbage(frame)
  <2>1. frame \in Replies /\ frame = [id |-> frame.id, ok |-> frame.ok] /\ frame.id \in Nat /\ frame.ok \in BOOLEAN
    BY <1>3, <1>7, FrameKinds DEF Frame
  <2>2. IF frame.id = task.wait THEN (IF frame.ok THEN Advance ELSE Failed(TRUE)) ELSE UNCHANGED clientVars
    BY <1>7, Zenon DEF ReadReply, Matches, frame
  <2>3. CASE frame.id # task.wait
    <3>1. UNCHANGED <<linked, nextId, task>> /\ queued' = queued /\ queued \in Seq(Notices)
      BY <1>1, <2>2, <2>3 DEF clientVars, DeviceTypes
    <3> QED BY <1>5, <1>7, <2>3, <3>1
  <2>4. CASE frame.id = task.wait /\ frame.ok
    <3>1. frame = [id |-> task.wait, ok |-> TRUE]
      <4>1. frame.ok = TRUE
        BY <2>1, <2>4, Zenon
      <4> QED BY <2>1, <2>4, <4>1
    <3>2. Told(TRUE)
      BY <1>1, <1>3, <3>1 DEF Told
    <3>3. Advance /\ Frames(Tail(unread))
      BY <1>1, <2>2, <2>4 DEF rest
    <3> QED BY <1>1, <3>2, <3>3, AdvanceAny
  <2>5. CASE frame.id = task.wait /\ ~frame.ok
    <3>1. frame = [id |-> task.wait, ok |-> FALSE]
      <4>1. frame.ok = FALSE
        BY <2>1, <2>5, Zenon
      <4> QED BY <2>1, <2>5, <4>1
    <3>2. Told(FALSE)
      BY <1>1, <1>3, <3>1 DEF Told
    <3>3. Failed(TRUE)
      BY <2>2, <2>5
    <3> QED BY <1>1, <1>2, <1>3, <3>2, <3>3, FailedStep
  <2> QED BY <2>3, <2>4, <2>5
<1> QED BY <1>4, <1>6, <1>7

LEMMA FinishHere ==
    ASSUME DeviceInv, task.op # "idle", UNCHANGED <<qemuVars, wire, linked, nextId>>,
           NEW answer \in {"ok", "error", "pending"}, NEW clean \in BOOLEAN, Finish(answer, clean),
           queued' \in Seq(Notices), unread' \in Seq(Frame), Range(unread') \subseteq Range(unread) \cup {Garbage}
    PROVE  DeviceInv'
<1>1. linked' \in BOOLEAN /\ linked' /\ wire' = wire /\ nextId' = nextId /\ nextId' \in Nat \ {0} /\ UNCHANGED qemuVars
  BY DEF DeviceInv, DeviceTypes, Awaited
<1> QED BY <1>1, FinishStep

LEMMA PopStep == ASSUME DeviceInv, PopEvent PROVE DeviceInv'
<1> DEFINE event == Head(queued)
           mine == event.obj = Head(task.todo)[2]
<1>1. /\ Waiting /\ queued # <<>> /\ queued \in Seq(Notices) /\ unread \in Seq(Frame)
      /\ UNCHANGED <<qemuVars, wire, unread, linked, nextId>>
  BY DEF PopEvent, DeviceInv, DeviceTypes, Frame
<1>2. /\ task.op = "detach" /\ task.wait = 0 /\ linked /\ task.todo \in Seq(Steps) /\ Head(task.todo) = task.todo[1]
      /\ Mine /\ ~Told(TRUE) /\ ~Told(FALSE)
  BY <1>1, WaitingIs
<1>3. event \in Notices /\ event = Event(event.event, event.obj) /\ event \in Range(queued)
      /\ Tail(queued) \in Seq(Notices) /\ Range(Tail(queued)) \subseteq Range(queued)
  <2>1. event \in Notices /\ event \in Range(queued)
        /\ Tail(queued) \in Seq(Notices) /\ Range(Tail(queued)) \subseteq Range(queued)
    BY <1>1, TailIs, RangeTail
  <2>2. event \in Replies \cup Notices \cup {Garbage}
    BY <2>1
  <2> HIDE DEF event
  <2>3. event = Event(event.event, event.obj)
    BY <2>1, <2>2, FrameKinds
  <2> QED BY <2>1, <2>3
<1>4. unread' \in Seq(Frame) /\ Range(unread') \subseteq Range(unread) /\ Range(unread') \subseteq Range(unread) \cup {Garbage}
  BY <1>1
<1>5. queued' = Tail(queued)
  <2>1. mine /\ event.event = "DEVICE_DELETED" => queued' = Tail(queued)
    BY Zenon DEF PopEvent
  <2>2. mine /\ event.event = "DEVICE_UNPLUG_GUEST_ERROR" => queued' = Tail(queued)
    BY DEF PopEvent
  <2>3. ~(mine /\ event.event = "DEVICE_DELETED") /\ ~(mine /\ event.event = "DEVICE_UNPLUG_GUEST_ERROR")
           => queued' = Tail(queued)
    BY Zenon DEF PopEvent
  <2> QED BY <2>1, <2>2, <2>3
<1>6. CASE mine /\ event.event = "DEVICE_DELETED"
  <2>1. IF Len(task.todo) = 1 THEN Finish("ok", TRUE) ELSE task' = [task EXCEPT !.todo = Tail(@)]
    BY <1>6 DEF PopEvent
  <2>2. CASE Len(task.todo) = 1
    <3>1. Finish("ok", TRUE)
      BY <2>1, <2>2
    <3> QED BY <1>1, <1>2, <1>3, <1>4, <1>5, <3>1, FinishHere
  <2>3. CASE Len(task.todo) # 1
    <3>1. task' = [task EXCEPT !.todo = Tail(task.todo)]
      BY <2>1, <2>3
    <3>2. Event("DEVICE_DELETED", task.todo[1][2]) \in Range(queued)
      BY <1>2, <1>3, <1>6
    <3>3. Len(task.todo) > 1
      <4>1. task.todo # <<>>
        BY <1>1 DEF Waiting
      <4> DEFINE n == Len(task.todo)
      <4>2. n \in Nat \ {0}
        BY <1>2, <4>1, EmptySeq
      <4>3. n # 1
        BY <2>3
      <4> HIDE DEF n
      <4>4. n > 1
        BY <4>2, <4>3
      <4> QED BY <4>4 DEF n
    <3> QED BY <1>1, <1>3, <1>5, <2>3, <3>1, <3>2, <3>3, WaitStep
  <2> QED BY <2>2, <2>3
<1>7. CASE mine /\ event.event = "DEVICE_UNPLUG_GUEST_ERROR"
  <2>1. Finish("error", TRUE)
    BY <1>7 DEF PopEvent
  <2> QED BY <1>1, <1>2, <1>3, <1>4, <1>5, <2>1, FinishHere
<1>8. CASE ~(mine /\ event.event = "DEVICE_DELETED") /\ ~(mine /\ event.event = "DEVICE_UNPLUG_GUEST_ERROR")
  <2>1. task' = task
    BY <1>8, Zenon DEF PopEvent
  <2>2. Told(TRUE)' <=> Told(TRUE)
    BY <1>1, <2>1 DEF Told
  <2>3. Told(FALSE)' <=> Told(FALSE)
    BY <1>1, <2>1 DEF Told
  <2>4. Range(queued') \subseteq Range(queued) \cup Range(unread) /\ queued' \in Seq(Notices) /\ task.op # "idle"
    BY <1>2, <1>3, <1>5
  <2> QED BY <1>1, <1>4, <2>1, <2>2, <2>3, <2>4, SkipStep
<1> QED BY <1>6, <1>7, <1>8

LEMMA ReadEventStep == ASSUME DeviceInv, ReadEvent PROVE DeviceInv'
<1> DEFINE frame == Head(unread)
           rest == Tail(unread)
<1>1. /\ Waiting /\ queued = <<>> /\ queued \in Seq(Notices) /\ unread # <<>> /\ UNCHANGED qemuVars
      /\ Frames(rest) /\ nextId \in Nat /\ linked \in BOOLEAN
  BY DEF DeviceInv, ReadEvent, DeviceTypes
<1>2. task.op = "detach" /\ linked /\ task.wait = 0 /\ ~Told(TRUE) /\ ~Told(FALSE)
  BY <1>1, WaitingIs
<1>3. /\ frame \in Frame /\ frame \in Range(unread) /\ rest \in Seq(Frame)
      /\ Range(unread) = {frame} \cup Range(rest)
      /\ Range(rest) \subseteq Range(unread) \cup {Garbage}
  BY <1>1, ReadIs
<1> HIDE DEF frame, rest
<1>4. CASE IsGarbage(frame)
  <2>2. ~IsEvent(frame)
    BY <1>3, <1>4, FrameKinds, GarbageIs DEF Frame
  <2>1. Failed(FALSE)
    BY <1>4, <2>2, Zenon DEF ReadEvent, frame
  <2> QED BY <1>1, <1>2, <1>3, <2>1, FailedStep
<1>5. ASSUME UNCHANGED <<linked, nextId, task>>, queued' \in Seq(Notices),
             Range(queued') \subseteq Range(queued) \cup Range(unread)
      PROVE  DeviceInv'
  <2>1. linked' = linked /\ linked' \in BOOLEAN /\ linked' /\ nextId' = nextId /\ task' = task
    BY <1>1, <1>2, <1>5
  <2>2. wire' = wire /\ unread' = rest
    BY <1>1, <1>3, <2>1, FramesAre
  <2>3. Range(unread') \subseteq Range(unread) /\ unread' \in Seq(Frame)
    BY <1>3, <2>2
  <2>4. ~Told(TRUE)' /\ ~Told(FALSE)'
    BY <1>2, <2>1 DEF Told
  <2> QED BY <1>1, <1>2, <1>5, <2>1, <2>2, <2>3, <2>4, SkipStep
<1>6. CASE IsEvent(frame) /\ ~IsGarbage(frame)
  <2>1. queued' = <<frame>> /\ UNCHANGED <<linked, nextId, task>>
    BY <1>6, Zenon DEF ReadEvent, frame
  <2>2. frame \in Notices
    BY <1>3, <1>6, FrameKinds DEF Frame
  <2>3. queued' \in Seq(Notices) /\ Range(queued') = {frame}
    <3> DEFINE one == <<frame>>
    <3>1. one \in Seq(Notices) /\ Range(one) = {frame}
      BY <2>2 DEF Range
    <3> HIDE DEF one
    <3>2. queued' = one
      BY <2>1 DEF one
    <3> QED BY <3>1, <3>2
  <2> QED BY <1>3, <1>5, <2>1, <2>3
<1>7. CASE ~IsEvent(frame) /\ ~IsGarbage(frame)
  <2>1. UNCHANGED clientVars
    BY <1>7, Zenon DEF ReadEvent, frame
  <2>2. UNCHANGED <<linked, nextId, task>> /\ queued' = queued
    BY <2>1 DEF clientVars
  <2> QED BY <1>1, <1>5, <2>2
<1> QED BY <1>4, <1>6, <1>7

LEMMA TimeoutStep == ASSUME DeviceInv, NEW cut \in BOOLEAN, Timeout(cut) PROVE DeviceInv'
<1> DEFINE rest == IF cut THEN <<Garbage>> \o Tail(unread) ELSE unread
<1>1. /\ Awaited /\ UNCHANGED qemuVars /\ Frames(rest) /\ queued \in Seq(Notices) /\ linked \in BOOLEAN
  BY DEF DeviceInv, Timeout, DeviceTypes
<1>2. rest \in Seq(Frame) /\ Range(rest) \subseteq Range(unread) \cup {Garbage}
  <2>1. cut => unread # <<>>
    BY DEF Timeout
  <2> QED BY <2>1, CutIs
<1> HIDE DEF rest
<1>3. CASE Waiting
  <2> DEFINE answer == IF Head(task.todo)[2] = "dev" THEN "pending" ELSE "ok"
  <2>1. Finish(answer, FALSE) /\ UNCHANGED <<linked, nextId, queued>>
    BY <1>3 DEF Timeout
  <2>2. answer \in {"ok", "error", "pending"}
    OBVIOUS
  <2> HIDE DEF answer
  <2>5. task.op # "idle" /\ linked
    <3>1. task.op # "idle"
      BY <1>3 DEF Waiting
    <3> QED BY <1>1, <3>1 DEF Awaited
  <2>6. linked' /\ linked' \in BOOLEAN /\ nextId' = nextId /\ queued' \in Seq(Notices)
    BY <1>1, <2>1, <2>5
  <2>7. unread' \in Seq(Frame) /\ Range(unread') \subseteq Range(unread) \cup {Garbage} /\ wire' = wire
    BY <1>1, <1>2, <2>6, FramesAre
  <2> QED BY <1>1, <2>1, <2>2, <2>5, <2>6, <2>7, FinishHere
<1>4. CASE ~Waiting
  <2>1. Failed(FALSE) /\ task.wait # 0
    BY <1>4 DEF Timeout
  <2>2. task.op # "idle"
    BY <1>1, <2>1 DEF Awaited
  <2> QED BY <1>1, <1>2, <2>1, <2>2, FailedStep
<1> QED BY <1>3, <1>4

LEMMA CancelStep == ASSUME DeviceInv, NEW cut \in BOOLEAN, Cancel(cut) PROVE DeviceInv'
<1> DEFINE rest == IF cut THEN <<Garbage>> \o Tail(unread) ELSE unread
<1>1. rest \in Seq(Frame) /\ Range(rest) \subseteq Range(unread) \cup {Garbage}
  <2>1. cut => unread # <<>>
    BY DEF Cancel
  <2> QED BY <2>1, CutIs
<1>2. unread' = rest
  BY DEF Cancel
<1> HIDE DEF rest
<1>3. /\ task.op # "idle" /\ Finish("error", TRUE) /\ UNCHANGED <<qemuVars, wire, linked, nextId>>
      /\ queued' \in Seq(Notices)
  BY DEF Cancel, DeviceInv, DeviceTypes
<1> QED BY <1>1, <1>2, <1>3, FinishHere

LEMMA DeviceStep == ASSUME DeviceInv, [DevicesNext]_deviceVars PROVE DeviceInv'
<1>1. CASE UNCHANGED deviceVars
  <2>1. /\ UNCHANGED <<kind, medium, wire, linked, nextId, queued, task>>
        /\ present' = present /\ leaving' = leaving /\ unread' = unread
    BY <1>1 DEF deviceVars, clientVars, qemuVars
  <2>2. leaving \subseteq present /\ unread \in Seq(Frame)
    BY DEF DeviceInv, DeviceTypes, Frame
  <2> DEFINE E == {}
  <2>3. E \in SUBSET Notices /\ Range(unread') = Range(unread) \cup E /\ unread' \in Seq(Frame)
        /\ Event("DEVICE_DELETED", "dev") \notin E
    BY <2>1, <2>2
  <2>4. present' \subseteq present /\ leaving' \subseteq leaving \cap present'
        /\ \A o \in present \ present' : o \in leaving \/ (o = "dev" /\ "ctl" \in leaving)
    BY <2>1, <2>2
  <2> HIDE DEF E
  <2> QED BY <2>1, <2>3, <2>4, GuestStep
<1>2. CASE DevicesNext
  <2>1. ASSUME NEW op \in Routes \ {"idle"}, BeginSession(op) PROVE DeviceInv'
    BY <2>1, BeginStep
  <2>2. ASSUME NEW op \in {"attach", "detach", "query", "display", "poll", "eject", "change"}, BeginSession(op)
        PROVE  DeviceInv'
    BY <2>1, <2>2 DEF Routes
  <2>3. ASSUME Send \/ ReadReply \/ PopEvent \/ ReadEvent PROVE DeviceInv'
    BY <2>3, SendStep, ReadStep, PopStep, ReadEventStep
  <2>4. ASSUME NEW cut \in BOOLEAN, Timeout(cut) \/ Cancel(cut) PROVE DeviceInv'
    BY <2>4, TimeoutStep, CancelStep
  <2>5. ASSUME NEW ok \in BOOLEAN, QemuExecutes(ok) PROVE DeviceInv'
    BY <2>5, ExecuteStep
  <2>6. ASSUME (\E obj \in {"dev", "ctl"} : GuestReleases(obj) \/ GuestRefuses(obj)) \/ OtherEvent PROVE DeviceInv'
    BY <2>6, GuestSteps
  <2> QED BY <1>2, <2>2, <2>3, <2>4, <2>5, <2>6 DEF DevicesNext
<1> QED BY <1>1, <1>2

(* How a session comes to its answer: its last command was executed, a command
   failed and there is nothing to roll back, or it waited for an event. *)
EndedWell == Told(TRUE) /\ Len(task.todo) = 1 /\ task'.answer = (IF task.undo THEN "error" ELSE "ok")
EndedBadly ==
    /\ task'.answer = IF task.op = "detach" /\ task.todo[1] = <<"del", "ctl">> THEN "ok" ELSE "error"
    /\ task.op = "attach" /\ task'.clean => /\ Told(FALSE)
                                            /\ ~task.undo => task.done = <<>>
EndedWaiting == Waiting /\ (task'.answer = "ok" => Len(task.todo) = 1)

LEMMA FinishIs ==
    ASSUME NEW answer, NEW clean, Finish(answer, clean)
    PROVE  task'.op = "idle" /\ task'.answer = answer /\ (task.op = "attach" /\ task'.clean => task.clean /\ clean)
<1> DEFINE c == task.op = "attach" => task.clean /\ clean
<1>1. task' = [NoTask EXCEPT !.answer = answer, !.clean = c]
  BY DEF Finish
<1> HIDE DEF c
<1>2. task'.op = "idle" /\ task'.answer = answer /\ task'.clean = c
  BY <1>1 DEF NoTask
<1>3. task'.clean <=> c
  BY <1>2, Zenon
<1> QED BY <1>2, <1>3 DEF c

LEMMA FailedEnds ==
    ASSUME DeviceInv, task.op # "idle", task'.op = "idle", NEW clean \in BOOLEAN, Failed(clean), clean => Told(FALSE)
    PROVE  EndedBadly /\ (task.op = "attach" /\ task'.clean => task.clean)
<1> DEFINE undo == Dels(Reverse(task.done))
           left == Tail(task.todo)
           optional == task.op = "detach" /\ Head(task.todo) = <<"del", "ctl">>
<1>1. /\ DeviceTypes /\ Awaited /\ Detaching /\ Ejecting /\ Plain
  BY DEF DeviceInv
<1>2. /\ task \in Tasks /\ task.op \in Routes /\ task.todo \in Seq(Steps) /\ task.todo # <<>> /\ task.undo \in BOOLEAN
      /\ task.done \in Seq(Objects) /\ Len(task.done) \in Nat
  BY <1>1, TaskIs DEF Awaited, DeviceTypes
<1>3. task.undo => task.op = "attach"
  <2>1. task.op = "detach" => ~task.undo
    BY <1>1 DEF Detaching
  <2>2. task.op = "eject" => ~task.undo
    BY <1>1 DEF Ejecting
  <2>3. task.op \in {"change", "display", "query", "poll"} => ~task.undo
    BY <1>1 DEF Plain
  <2> QED BY <1>2, <2>1, <2>2, <2>3 DEF Routes
<1>4. CASE task.op = "poll"
  <2>1. Finish("error", TRUE)
    BY <1>3, <1>4 DEF Failed
  <2>2. task'.answer = "error"
    BY <2>1, FinishIs
  <2> QED BY <1>4, <2>2 DEF EndedBadly
<1>5. CASE task.op = "attach" /\ ~task.undo /\ undo # <<>>
  <2>1. task' = [task EXCEPT !.todo = undo, !.done = <<>>, !.wait = 0, !.undo = TRUE, !.clean = @ /\ clean]
    BY <1>5 DEF Failed
  <2> HIDE DEF undo
  <2>2. task'.op = task.op
    BY <1>2, <2>1 DEF Tasks
  <2> QED BY <2>2
<1>6. CASE task.undo /\ left # <<>>
  <2>1. task' = [task EXCEPT !.todo = left, !.wait = 0, !.clean = @ /\ clean]
    BY <1>3, <1>6 DEF Failed
  <2> HIDE DEF left
  <2>2. task'.op = task.op
    BY <1>2, <2>1 DEF Tasks
  <2> QED BY <2>2
<1>7. CASE task.op # "poll" /\ ~(task.op = "attach" /\ ~task.undo /\ undo # <<>>) /\ ~(task.undo /\ left # <<>>)
  <2>1. Finish(IF optional THEN "ok" ELSE "error", clean)
    BY <1>7, Zenon DEF Failed
  <2>2. task'.answer = (IF optional THEN "ok" ELSE "error") /\ (task.op = "attach" /\ task'.clean => task.clean /\ clean)
    BY <2>1, FinishIs
  <2>3. Head(task.todo) = task.todo[1]
    BY <1>2, TailIs
  <2>4. task.op = "attach" /\ ~task.undo => task.done = <<>>
    <3> SUFFICES ASSUME task.op = "attach", ~task.undo, task.done # <<>> PROVE FALSE
      OBVIOUS
    <3> DEFINE n == Len(task.done)
    <3>1. n \in Nat /\ n # 0
      BY <1>2, EmptySeq
    <3>2. undo = <<>>
      BY <1>7
    <3>3. Len(Reverse(task.done)) = n
      <4>1. Reverse(task.done) = [j \in 1..n |-> task.done[(n - j) + 1]]
        BY DEF Reverse
      <4> HIDE DEF n
      <4> QED BY <3>1, <4>1
    <3>4. DOMAIN undo = 1..n
      BY <3>3 DEF Dels
    <3>5. DOMAIN undo = {}
      BY <3>2
    <3>6. 1 \in 1..n
      <4> HIDE DEF n
      <4> QED BY <3>1
    <3> QED BY <3>4, <3>5, <3>6
  <2> QED BY <2>2, <2>3, <2>4 DEF EndedBadly
<1> QED BY <1>4, <1>5, <1>6, <1>7

LEMMA AnswerIs ==
    ASSUME DeviceInv, DevicesNext, task.op # "idle", task'.op = "idle"
    PROVE  /\ EndedWell \/ EndedBadly \/ EndedWaiting
           /\ task.op = "attach" /\ task'.clean => task.clean
<1> DEFINE Goal == /\ EndedWell \/ EndedBadly \/ EndedWaiting
                   /\ task.op = "attach" /\ task'.clean => task.clean
<1>1. DeviceTypes /\ Awaited /\ task \in Tasks /\ unread \in Seq(Frame) /\ task.wait \in Nat
      /\ task.undo \in BOOLEAN /\ task.todo \in Seq(Steps) /\ task.todo # <<>> /\ Head(task.todo) = task.todo[1]
  <2>1. DeviceTypes /\ Awaited /\ task \in Tasks /\ unread \in Seq(Frame) /\ task.wait \in Nat
        /\ task.undo \in BOOLEAN /\ task.todo \in Seq(Steps) /\ task.todo # <<>>
    BY TaskIs DEF DeviceInv, DeviceTypes, Awaited, Frame
  <2> QED BY <2>1, TailIs
<1>2. task' # task
  OBVIOUS
<1>3. ASSUME ReadReply PROVE Goal
  <2> DEFINE frame == Head(unread)
  <2>1. /\ frame \in Frame /\ frame \in Range(unread)
    BY <1>3, ReadIs DEF ReadReply
  <2> HIDE DEF frame
  <2>2. CASE IsGarbage(frame)
    <3>1. ~IsEvent(frame)
      BY <2>1, <2>2, FrameKinds, GarbageIs DEF Frame
    <3>2. Failed(FALSE)
      BY <1>3, <2>2, <3>1, Zenon DEF ReadReply, frame
    <3> QED BY <3>2, FailedEnds
  <2>3. CASE IsEvent(frame) /\ ~IsGarbage(frame)
    BY <1>2, <1>3, <2>3, Zenon DEF ReadReply, frame
  <2>4. CASE ~IsEvent(frame) /\ ~IsGarbage(frame)
    <3>1. frame \in Replies /\ frame = [id |-> frame.id, ok |-> frame.ok] /\ frame.id \in Nat /\ frame.ok \in BOOLEAN
      BY <2>1, <2>4, FrameKinds DEF Frame
    <3>2. IF frame.id = task.wait THEN (IF frame.ok THEN Advance ELSE Failed(TRUE)) ELSE UNCHANGED clientVars
      BY <1>3, <2>4, Zenon DEF ReadReply, Matches, frame
    <3>3. CASE frame.id # task.wait
      BY <1>2, <3>2, <3>3 DEF clientVars
    <3>4. CASE frame.id = task.wait /\ frame.ok
      <4>1. frame = [id |-> task.wait, ok |-> TRUE]
        <5>1. frame.ok = TRUE
          BY <3>1, <3>4, Zenon
        <5> QED BY <3>1, <3>4, <5>1
      <4>2. Told(TRUE)
        BY <1>3, <2>1, <4>1 DEF Told, ReadReply
      <4>3. CASE Len(task.todo) = 1
        <5>1. Finish(IF task.undo THEN "error" ELSE "ok", TRUE)
          BY <3>2, <3>4, <4>3 DEF Advance
        <5>2. task'.answer = (IF task.undo THEN "error" ELSE "ok") /\ (task.op = "attach" /\ task'.clean => task.clean)
          BY <5>1, FinishIs
        <5> QED BY <4>2, <4>3, <5>2 DEF EndedWell
      <4>4. CASE Len(task.todo) # 1
        <5> DEFINE t == Tail(task.todo)
                   d == Append(task.done, Head(task.todo)[2])
        <5>1. task' = [task EXCEPT !.todo = t, !.done = d, !.wait = 0]
          BY <3>2, <3>4, <4>4 DEF Advance
        <5> HIDE DEF t, d
        <5>2. task'.op = task.op
          BY <1>1, <5>1 DEF Tasks
        <5> QED BY <5>2
      <4> QED BY <4>3, <4>4
    <3>5. CASE frame.id = task.wait /\ ~frame.ok
      <4>1. frame = [id |-> task.wait, ok |-> FALSE]
        <5>1. frame.ok = FALSE
          BY <3>1, <3>5, Zenon
        <5> QED BY <3>1, <3>5, <5>1
      <4>2. Told(FALSE)
        BY <1>3, <2>1, <4>1 DEF Told, ReadReply
      <4>3. Failed(TRUE)
        BY <3>2, <3>5
      <4> QED BY <4>2, <4>3, FailedEnds
    <3> QED BY <3>3, <3>4, <3>5
  <2> QED BY <2>2, <2>3, <2>4
<1>4. ASSUME PopEvent PROVE Goal
  <2> DEFINE event == Head(queued)
             mine == event.obj = Head(task.todo)[2]
  <2>1. Waiting /\ task.op = "detach"
    BY <1>4, WaitingIs DEF PopEvent
  <2>2. CASE mine /\ event.event = "DEVICE_DELETED"
    <3>1. IF Len(task.todo) = 1 THEN Finish("ok", TRUE) ELSE task' = [task EXCEPT !.todo = Tail(@)]
      BY <1>4, <2>2 DEF PopEvent
    <3>2. CASE Len(task.todo) # 1
      <4> DEFINE t == Tail(task.todo)
      <4>1. task' = [task EXCEPT !.todo = t]
        BY <3>1, <3>2
      <4> HIDE DEF t
      <4>2. task'.op = task.op
        BY <1>1, <4>1 DEF Tasks
      <4> QED BY <4>2
    <3> QED BY <2>1, <3>2 DEF EndedWaiting
  <2>3. CASE mine /\ event.event = "DEVICE_UNPLUG_GUEST_ERROR"
    <3>1. Finish("error", TRUE)
      BY <1>4, <2>3 DEF PopEvent
    <3>2. task'.answer = "error"
      BY <3>1, FinishIs
    <3> QED BY <2>1, <3>2 DEF EndedWaiting
  <2>4. CASE ~(mine /\ event.event = "DEVICE_DELETED") /\ ~(mine /\ event.event = "DEVICE_UNPLUG_GUEST_ERROR")
    BY <1>2, <1>4, <2>4, Zenon DEF PopEvent
  <2> QED BY <2>2, <2>3, <2>4
<1>5. ASSUME ReadEvent PROVE Goal
  <2> DEFINE frame == Head(unread)
  <2>1. frame \in Frame
    BY <1>5, ReadIs DEF ReadEvent
  <2> HIDE DEF frame
  <2>2. CASE IsGarbage(frame)
    <3>1. ~IsEvent(frame)
      BY <2>1, <2>2, FrameKinds, GarbageIs DEF Frame
    <3>2. Failed(FALSE)
      BY <1>5, <2>2, <3>1, Zenon DEF ReadEvent, frame
    <3> QED BY <3>2, FailedEnds
  <2>3. CASE IsEvent(frame) /\ ~IsGarbage(frame)
    BY <1>2, <1>5, <2>3, Zenon DEF ReadEvent, frame
  <2>4. CASE ~IsEvent(frame) /\ ~IsGarbage(frame)
    <3>1. UNCHANGED clientVars
      BY <1>5, <2>4, Zenon DEF ReadEvent, frame
    <3> QED BY <1>2, <3>1 DEF clientVars
  <2> QED BY <2>2, <2>3, <2>4
<1>6. ASSUME NEW cut \in BOOLEAN, Timeout(cut) PROVE Goal
  <2>1. CASE Waiting
    <3>1. task.op = "detach" /\ Head(task.todo) = task.todo[1]
          /\ \/ Detached = 1 /\ task.todo[1][2] = "dev"
             \/ Detached = 4 /\ task.todo[1][2] = "ctl" /\ Len(task.todo) = 1
      BY <2>1, WaitingIs
    <3>2. Finish(IF Head(task.todo)[2] = "dev" THEN "pending" ELSE "ok", FALSE)
      BY <1>6, <2>1 DEF Timeout
    <3>3. task'.answer = IF Head(task.todo)[2] = "dev" THEN "pending" ELSE "ok"
      BY <3>2, FinishIs
    <3>4. task'.answer = "ok" => Len(task.todo) = 1
      BY <3>1, <3>3
    <3> QED BY <2>1, <3>1, <3>4 DEF EndedWaiting
  <2>2. CASE ~Waiting
    <3>1. Failed(FALSE)
      BY <1>6, <2>2 DEF Timeout
    <3> QED BY <3>1, FailedEnds
  <2> QED BY <2>1, <2>2
<1>7. ASSUME NEW cut \in BOOLEAN, Cancel(cut) PROVE Goal
  <2>1. task.op = "query" /\ Finish("error", TRUE)
    BY <1>7 DEF Cancel
  <2>2. task'.answer = "error"
    BY <2>1, FinishIs
  <2> QED BY <2>1, <2>2 DEF EndedBadly
<1>8. ASSUME Send PROVE FALSE
  <2>1. task' = [task EXCEPT !.wait = nextId]
    BY <1>8 DEF Send
  <2>2. task'.op = task.op
    BY <1>1, <2>1 DEF Tasks
  <2> QED BY <2>2
<1>9. ASSUME NEW op, BeginSession(op) PROVE FALSE
  BY <1>9 DEF BeginSession
<1>10. ASSUME (\E ok \in BOOLEAN : QemuExecutes(ok)) \/ OtherEvent
              \/ \E obj \in {"dev", "ctl"} : GuestReleases(obj) \/ GuestRefuses(obj)
       PROVE  FALSE
  BY <1>2, <1>10 DEF QemuExecutes, OtherEvent, GuestReleases, GuestRefuses, clientVars
<1> HIDE DEF Goal
<1>11. Goal
  BY <1>3, <1>4, <1>5, <1>6, <1>7, <1>8, <1>9, <1>10 DEF DevicesNext
<1> QED BY <1>11 DEF Goal

(* An attach that answers has everything it was to make. *)
LEMMA AttachedIs ==
    ASSUME DeviceInv, task.op = "attach", EndedWell, ~task.undo
    PROVE  Range(Parts) \subseteq present
<1>1. /\ DeviceTypes /\ Awaited /\ Attaching /\ Told(TRUE) /\ Len(task.todo) = 1 /\ Len(task.done) \in Nat
  BY TaskIs DEF DeviceInv, EndedWell
<1> DEFINE n == Len(task.done)
           p == Len(Parts)
<1>2. /\ p \in 1..3 /\ n + 1 \in 1..p /\ n + Len(task.todo) = p
      /\ \A j \in 1..n : task.done[j] = Parts[j] /\ Settled(task.done[j])
      /\ task.todo[1][2] = Parts[n + 1]
  BY <1>1, AttachIs
<1>3. Settled(task.todo[1][2])
  BY <1>1 DEF Attaching, Just
<1>4. Range(Parts) = {Parts[j] : j \in 1..p}
  BY <1>1, PartsAre DEF DeviceTypes
<1>5. n + 1 = p /\ n \in Nat
  BY <1>1, <1>2
<1>6. ASSUME NEW j \in 1..p PROVE Parts[j] \in present
  <2> HIDE DEF n, p
  <2>1. CASE j = n + 1
    BY <1>2, <1>3, <2>1 DEF Settled
  <2>2. CASE j # n + 1
    <3>1. j \in 1..n
      BY <1>2, <1>5, <2>2
    <3> QED BY <1>2, <3>1 DEF Settled
  <2> QED BY <2>1, <2>2
<1> QED BY <1>4, <1>6

(* Where a detach stands, once some of its progress is ruled out. *)
LEMMA FromThree ==
    ASSUME NEW d \in 0..4, d # 0, d # 1, d # 2
    PROVE  d >= 3
OBVIOUS

LEMMA FourIsLate ==
    ASSUME NEW d, d = 4
    PROVE  d >= 3
OBVIOUS

LEMMA DeviceGone ==
    ASSUME NEW d \in 0..4, d >= 3 \/ d = 2 \/ d = 1
    PROVE  d >= 1
OBVIOUS

LEMMA WaitOver ==
    ASSUME NEW d \in 0..4, NEW l, d >= 3 \/ d = 2 \/ (d = 1 /\ l = 2), l # 2
    PROVE  d >= 2
OBVIOUS

LEMMA LastOfThree ==
    ASSUME NEW d \in 0..2, NEW n, n = 3 - d, n = 1
    PROVE  d = 2
OBVIOUS

(* A detach that answers has removed the device and its backend. *)
LEMMA DetachedIs ==
    ASSUME DeviceInv, task.op = "detach", EndedWell \/ EndedBadly \/ EndedWaiting, task'.answer = "ok",
           OnPci("dev") => task.clean
    PROVE  {"dev", "node"} \cap Range(Parts) \cap present = {}
<1> DEFINE d == Detached
           l == DetachLength
           n == Len(task.todo)
<1>1. /\ DeviceTypes /\ Awaited /\ Detaching /\ Awaiting /\ kind \in DeviceKinds /\ task.wait \in Nat
  BY TaskIs DEF DeviceInv, DeviceTypes
<1>2. /\ d \in 0..4 /\ d < l /\ l \in {2, 3, 5} /\ n = l - d
      /\ d = 0 => task.todo[1] = <<"del", "dev">>
      /\ d = 1 => task.todo[1] = <<"wait", "dev">>
      /\ d = 2 => task.todo[1] = <<"del", "node">>
      /\ d = 3 => task.todo[1] = <<"del", "ctl">>
      /\ d = 4 => task.todo[1] = <<"wait", "ctl">>
  BY <1>1, DetachIs
<1>3. /\ l = 2 <=> kind = "usb-host"
      /\ l = 5 <=> kind = "iso"
  BY DEF DetachLength
<1>4. d >= 3 \/ (d = 2 /\ Told(TRUE)) \/ (d = 1 /\ l = 2)
  <2> HIDE DEF d, l, n
  <2>1. CASE EndedWell
    <3>1. Told(TRUE) /\ n = 1 /\ task.todo[1][1] # "wait"
      BY <1>1, <2>1 DEF EndedWell, Told, Awaited, n
    <3>2. (d = 1 /\ l = 2) \/ (d = 2 /\ l = 3) \/ (d = 4 /\ l = 5)
      BY <1>2, <3>1
    <3>3. d # 1 /\ d # 4
      BY <1>2, <3>1
    <3> QED BY <3>1, <3>2, <3>3
  <2>2. CASE EndedBadly
    <3>1. task.todo[1] = <<"del", "ctl">>
      BY <2>2 DEF EndedBadly
    <3>2. d \in 0..4
      BY <1>2
    <3>3. d # 0 /\ d # 1 /\ d # 2
      BY <1>2, <3>1
    <3>4. d >= 3
      BY <3>2, <3>3, FromThree
    <3> QED BY <3>4
  <2>3. CASE EndedWaiting
    <3>1. n = 1
      BY <2>3 DEF EndedWaiting, n
    <3>2. (d = 1 /\ l = 2) \/ (d = 2 /\ l = 3) \/ (d = 4 /\ l = 5)
      BY <1>2, <3>1
    <3>3. d = 1 \/ d = 4
      BY <2>3, WaitingIs DEF EndedWaiting, d
    <3>4. d = 4 => d >= 3
      BY FourIsLate
    <3> QED BY <3>2, <3>3, <3>4
  <2> QED BY <2>1, <2>2, <2>3
<1>5. "dev" \notin present
  <2>1. d >= 1
    <3> HIDE DEF d, l, n
    <3>1. d >= 3 \/ d = 2 \/ d = 1
      BY <1>4
    <3>2. d \in 0..4
      BY <1>2
    <3> QED BY <3>1, <3>2, DeviceGone
  <2>2. CASE ~OnPci("dev")
    BY <1>1, <2>1, <2>2 DEF Detaching
  <2>3. CASE OnPci("dev")
    <3>1. kind = "network"
      BY <2>3, OnPciIs
    <3>2. d >= 2
      <4> HIDE DEF d, l, n
      <4>1. l # 2
        BY <1>3, <3>1
      <4>2. d >= 3 \/ d = 2 \/ (d = 1 /\ l = 2)
        BY <1>4
      <4>3. d \in 0..4
        BY <1>2
      <4> QED BY <4>1, <4>2, <4>3, WaitOver
    <3> QED BY <1>1, <2>3, <3>2 DEF Awaiting
  <2> QED BY <2>2, <2>3
<1>6. "node" \in Range(Parts) => "node" \notin present
  <2>1. CASE d >= 3 \/ (d = 2 /\ Told(TRUE))
    BY <1>1, <2>1 DEF Detaching
  <2>2. CASE d = 1 /\ l = 2
    <3>1. Len(Parts) = 1 /\ Parts[Len(Parts)] = "dev" /\ Range(Parts) = {Parts[j] : j \in 1..Len(Parts)}
      BY <1>1, <1>3, <2>2, PartsAre
    <3>2. \A j \in 1..Len(Parts) : j = Len(Parts)
      BY <3>1
    <3>3. "node" \notin Range(Parts)
      BY <3>1, <3>2
    <3> QED BY <3>3
  <2> QED BY <1>4, <2>1, <2>2
<1> QED BY <1>5, <1>6

(* An eject that answers has closed an empty drive. *)
LEMMA EjectedIs ==
    ASSUME DeviceInv, task.op = "eject", EndedWell
    PROVE  ~medium.open /\ ~medium.in
<1>1. DeviceTypes /\ Awaited /\ Ejecting /\ Told(TRUE) /\ Len(task.todo) = 1
  BY DEF DeviceInv, EndedWell
<1>2. Ejected \in 0..2 /\ Len(task.todo) = 3 - Ejected
  BY <1>1, EjectIs
<1>3. Ejected = 2
  BY <1>1, <1>2, LastOfThree
<1>4. 2 >= 2
  OBVIOUS
<1>5. Ejected >= 2
  BY <1>3, <1>4
<1>6. ~medium.in
  BY <1>1, <1>5 DEF Ejecting
<1>7. ~medium.open
  BY <1>1, <1>3, Zenon DEF Ejecting
<1> QED BY <1>6, <1>7

(* A session that answers "ok" tells the truth about QEMU, whatever timed out
   before it on the same connection. *)
THEOREM AnswersAreTrue == DevicesSpec => AnswersTrue
<1> DEFINE Next == (task.op # "idle" /\ task'.op = "idle" /\ task'.answer = "ok") =>
                      CASE task.op = "attach" -> Range(Parts) \subseteq present
                        [] task.op = "detach" ->
                              (OnPci("dev") => task.clean) => {"dev", "node"} \intersect Range(Parts) \intersect present = {}
                        [] task.op = "eject" -> ~medium.open /\ ~medium.in
                        [] OTHER -> TRUE
<1>1. DeviceInv /\ [DevicesNext]_deviceVars => [Next]_deviceVars
  <2> SUFFICES ASSUME DeviceInv, DevicesNext, task.op # "idle", task'.op = "idle", task'.answer = "ok"
               PROVE  CASE task.op = "attach" -> Range(Parts) \subseteq present
                        [] task.op = "detach" ->
                              (OnPci("dev") => task.clean) => {"dev", "node"} \intersect Range(Parts) \intersect present = {}
                        [] task.op = "eject" -> ~medium.open /\ ~medium.in
                        [] OTHER -> TRUE
    OBVIOUS
  <2>1. EndedWell \/ EndedBadly \/ EndedWaiting
    BY AnswerIs
  <2>2. task.op # "detach" => EndedWell /\ ~task.undo
    <3> SUFFICES ASSUME task.op # "detach" PROVE EndedWell /\ ~task.undo
      OBVIOUS
    <3>1. ~EndedBadly
      BY DEF EndedBadly
    <3>2. ~EndedWaiting
      BY WaitingIs DEF EndedWaiting
    <3> QED BY <2>1, <3>1, <3>2 DEF EndedWell
  <2>3. task.op = "attach" => Range(Parts) \subseteq present
    BY <2>2, AttachedIs
  <2>4. task.op = "detach" /\ (OnPci("dev") => task.clean) => {"dev", "node"} \intersect Range(Parts) \intersect present = {}
    BY <2>1, DetachedIs
  <2>5. task.op = "eject" => ~medium.open /\ ~medium.in
    BY <2>2, EjectedIs
  <2> QED BY <2>3, <2>4, <2>5
<1>2. AnswersTrue <=> [][Next]_deviceVars
  BY DEF AnswersTrue
<1> HIDE DEF Next
<1> QED BY <1>1, <1>2, DeviceStart, DeviceStep, PTL DEF DevicesSpec

(* An attach that fails leaves nothing behind but a controller the guest was
   asked to let go, unless a command was given up on the way. *)
THEOREM AttachRollsBack == DevicesSpec => RolledBack
<1> DEFINE Next == (task.op = "attach" /\ task'.op = "idle" /\ task'.answer = "error" /\ task'.clean) =>
                      present \subseteq task.before \union {"ctl"}
<1>1. DeviceInv /\ [DevicesNext]_deviceVars => [Next]_deviceVars
  <2> SUFFICES ASSUME DeviceInv, DevicesNext, task.op = "attach", task'.op = "idle", task'.answer = "error", task'.clean
               PROVE  present \subseteq task.before \union {"ctl"}
    OBVIOUS
  <2>1. (EndedWell \/ EndedBadly \/ EndedWaiting) /\ task.clean
    BY AnswerIs
  <2>2. DeviceTypes /\ Awaited /\ Attaching /\ Undoing /\ ToldOnce /\ 1 \in 1..Len(task.todo)
    BY TaskIs DEF DeviceInv, Awaited
  <2>3. ~EndedWaiting
    BY WaitingIs DEF EndedWaiting
  <2>4. CASE EndedWell
    <3>1. Told(TRUE) /\ task.undo
      BY <2>4 DEF EndedWell
    <3>2. /\ task.todo[1][2] \in {"node", "ctl"}
          /\ present \subseteq task.before \cup {"ctl", task.todo[1][2]}
          /\ task.todo[1][2] = "node" => "node" \notin present
      BY <2>1, <2>2, <3>1 DEF Undoing
    <3> QED BY <3>2
  <2>5. CASE EndedBadly
    <3>1. Told(FALSE) /\ ~Told(TRUE) /\ (~task.undo => task.done = <<>>)
      BY <2>2, <2>5 DEF EndedBadly, ToldOnce
    <3>2. CASE task.undo
      <4>1. /\ task.todo[1][2] \in {"node", "ctl"}
            /\ present \subseteq task.before \cup {"ctl", task.todo[1][2]}
            /\ task.todo[1][2] # "node"
        BY <2>1, <2>2, <3>1, <3>2 DEF Undoing
      <4> QED BY <4>1
    <3>3. CASE ~task.undo
      <4>1. Just = {} /\ Range(task.done) = {}
        BY <3>1, <3>3 DEF Just, Range
      <4>2. present \subseteq task.before
        BY <2>1, <2>2, <3>3, <4>1 DEF Attaching
      <4> QED BY <4>2
    <3> QED BY <3>2, <3>3
  <2> QED BY <2>1, <2>3, <2>4, <2>5
<1>2. RolledBack <=> [][Next]_deviceVars
  BY DEF RolledBack
<1> HIDE DEF Next
<1> QED BY <1>1, <1>2, DeviceStart, DeviceStep, PTL DEF DevicesSpec
=============================================================================
