----------------------------- MODULE EventHub -----------------------------
(***************************************************************************)
(* The live event streams of the daemon: a bounded history per instance,   *)
(* cursors that replay it after a reconnection, and bounded queues of the  *)
(* subscribers.  Every publisher and stream_events hold the instance gate, *)
(* so a change of an instance and its event are one step.                  *)
(*                                                                         *)
(* log and life are not in the code: log[i] is the kind of every record    *)
(* published since the history of i was opened, and life[i] counts the     *)
(* histories of i.  The properties compare with them what clients get.     *)
(***************************************************************************)
EXTENDS Naturals, Sequences, FiniteSets, FiniteSetsExt, SequencesExt

CONSTANTS
    VMs, Clients,         \* the instances and the clients of their streams
    NoStream,             \* a client without a connection
    NoCursor,             \* a client that has not received an id yet
    HistoryEvents,        \* records kept per instance
    InstanceBytes,        \* bytes kept per instance
    GlobalBytes,          \* bytes kept in all
    Sizes,                \* sizes of a record
    QueueLimit,           \* capacity of the channel of a subscriber
    InstanceSubscribers, GlobalSubscribers,
    MaxRecords, MaxLives  \* bounds of the exploration

ASSUME HubAssumption ==
    /\ IsFiniteSet(VMs)
    /\ HistoryEvents \in Nat \ {0} /\ QueueLimit \in Nat \ {0}
    /\ InstanceBytes \in Nat /\ GlobalBytes \in Nat
    /\ Sizes # {}
    /\ \A size \in Sizes : size \in Nat \ {0} /\ size <= InstanceBytes /\ size <= GlobalBytes
    /\ InstanceSubscribers \in Nat /\ GlobalSubscribers \in Nat
    /\ MaxRecords \in Nat /\ MaxLives \in Nat

VARIABLES
    generation,  \* EventHub.generation
    nextOrder,   \* EventHub.next_order
    total,       \* EventHub.bytes
    next,        \* History.next_sequence, 0 without a history
    bytes,       \* History.bytes
    records,     \* History.records
    subs,        \* History.subscribers
    exists,      \* is there an instance row?
    log, life,   \* what was really published
    stream,      \* the history a client is connected to
    backlog,     \* the replay and the channel of its subscription
    fill,        \* how much of the backlog is in the channel
    cursor       \* the last id it received

hub == <<generation, nextOrder, total, next, bytes, records, subs>>
truth == <<exists, log, life>>
clients == <<stream, backlog, fill, cursor>>
eventsVars == <<hub, truth, clients>>

Kinds == {"event", "snapshot"}
Record == [seq : Nat, order : Nat, kind : Kinds, size : Sizes]
Stream == [inst : VMs, life : Nat]
Cursor == [inst : VMs, generation : Nat, seq : Nat, life : Nat]

\* What stands for no connection and for no id is neither.
ASSUME NoneAssumption == NoStream \notin Stream /\ NoCursor \notin Cursor

-----------------------------------------------------------------------------
(* EventHub::publish                                                       *)

Bytes(s) == SumFunction([k \in DOMAIN s |-> s[k].size])

Dropping(s, m) == SubSeq(s, m + 1, Len(s))

\* The records after the last one whose field is at most t.
Beyond(s, field, t) ==
    Dropping(s, Min({m \in 0..Len(s) : \A k \in (m + 1)..Len(s) : s[k][field] > t}))

\* The limits of one history pop its oldest records ...
Retained(s) ==
    Dropping(s, Min({m \in 0..Len(s) : /\ Len(s) - m <= HistoryEvents
                                       /\ Bytes(Dropping(s, m)) <= InstanceBytes} \cup {Len(s)}))

\* ... and the global limit pops the oldest record of all histories.
Trimmed(all, last) ==
    LET left(t) == [j \in VMs |-> Beyond(all[j], "order", t)]
        size(t) == SumFunction([j \in VMs |-> Bytes(left(t)[j])])
    IN  left(Min({t \in 0..last : size(t) <= GlobalBytes} \cup {last}))

\* Every popped record is subtracted from the bytes of its history and of the hub.
Count(i, size, grown) ==
    LET dropped == [j \in VMs |-> Bytes(grown[j]) - Bytes(records'[j])]
    IN  /\ bytes' = [j \in VMs |-> (IF j = i THEN bytes[j] + size ELSE bytes[j]) - dropped[j]]
        /\ total' = total + size - SumFunction(dropped)

Push(i, kind, size) ==
    LET record == [seq |-> next[i] + 1, order |-> nextOrder + 1, kind |-> kind, size |-> size]
        grown == [records EXCEPT ![i] = Append(@, record)]
    IN  /\ nextOrder' = nextOrder + 1
        /\ next' = [next EXCEPT ![i] = @ + 1]
        /\ records' = Trimmed([grown EXCEPT ![i] = Retained(@)], nextOrder + 1)
        /\ Count(i, size, grown)
        /\ log' = [log EXCEPT ![i] = Append(@, kind)]

\* Mutant: a full queue skips the record and keeps the subscriber.
BroadcastSkipping(i, record) ==
    /\ backlog' = [c \in Clients |-> IF c \in subs[i] /\ fill[c] < QueueLimit
                                     THEN Append(backlog[c], record) ELSE backlog[c]]
    /\ fill' = [c \in Clients |-> IF c \in subs[i] /\ fill[c] < QueueLimit
                                  THEN fill[c] + 1 ELSE fill[c]]
    /\ UNCHANGED subs

\* A subscriber whose channel is full is dropped.
Broadcast(i, record) ==
    LET ready == {c \in subs[i] : fill[c] < QueueLimit}
    IN  /\ subs' = [subs EXCEPT ![i] = ready]
        /\ backlog' = [c \in Clients |-> IF c \in ready THEN Append(backlog[c], record)
                                         ELSE backlog[c]]
        /\ fill' = [c \in Clients |-> IF c \in ready THEN fill[c] + 1 ELSE fill[c]]

\* A change of the instance and its state, operation or qmp event.
PublishRecord(i) ==
    /\ exists[i] /\ nextOrder < MaxRecords
    /\ \E size \in Sizes :
          /\ Push(i, "event", size)
          /\ Broadcast(i, [seq |-> next[i] + 1, order |-> nextOrder + 1,
                           kind |-> "event", size |-> size])
    /\ UNCHANGED <<generation, exists, life, stream, cursor>>

-----------------------------------------------------------------------------
(* EventHub::subscribe and the stream of a client                          *)

Subscribers == MapThenSumSet(LAMBDA i : Cardinality(subs[i]), VMs)

MayJoin(i) == Subscribers < GlobalSubscribers /\ Cardinality(subs[i]) < InstanceSubscribers

First(i) == IF records[i] = <<>> THEN next[i] + 1 ELSE records[i][1].seq

Replayable(c, i) ==
    /\ cursor[c] # NoCursor /\ cursor[c].inst = i
    /\ cursor[c].generation = generation /\ next[i] > 0
    /\ First(i) - 1 <= cursor[c].seq /\ cursor[c].seq <= next[i]

Join(c, i, initial) ==
    /\ subs' = [subs EXCEPT ![i] = @ \cup {c}]
    /\ stream' = [stream EXCEPT ![c] = [inst |-> i, life |-> life[i]]]
    /\ backlog' = [backlog EXCEPT ![c] = initial]
    /\ fill' = [fill EXCEPT ![c] = 0]
    /\ UNCHANGED <<cursor, generation, exists, life>>

Replay(c, i) ==
    /\ exists[i] /\ stream[c] = NoStream /\ MayJoin(i) /\ Replayable(c, i)
    /\ Join(c, i, Beyond(records[i], "seq", cursor[c].seq))
    /\ UNCHANGED <<nextOrder, total, next, bytes, records, log>>

\* Without a usable cursor, or without Last-Event-ID at all, a snapshot is
\* published for this subscriber only.
Resync(c, i) ==
    /\ exists[i] /\ stream[c] = NoStream /\ MayJoin(i) /\ nextOrder < MaxRecords
    /\ \E size \in Sizes : Push(i, "snapshot", size)
    /\ Join(c, i, IF records'[i] = <<>> THEN <<>> ELSE <<Last(records'[i])>>)

Receive(c) ==
    /\ stream[c] # NoStream /\ backlog[c] # <<>>
    /\ cursor' = [cursor EXCEPT ![c] = [inst |-> stream[c].inst, generation |-> generation,
                                        seq |-> backlog[c][1].seq, life |-> stream[c].life]]
    /\ backlog' = [backlog EXCEPT ![c] = Tail(@)]
    /\ fill' = [fill EXCEPT ![c] = IF @ < Len(backlog[c]) THEN @ ELSE @ - 1]
    /\ UNCHANGED <<hub, truth, stream>>

Leave(c) ==
    /\ stream' = [stream EXCEPT ![c] = NoStream]
    /\ backlog' = [backlog EXCEPT ![c] = <<>>]
    /\ fill' = [fill EXCEPT ![c] = 0]
    /\ UNCHANGED cursor

\* The hub dropped the sender and everything it sent is received.
EndOfStream(c) ==
    /\ stream[c] # NoStream /\ backlog[c] = <<>> /\ c \notin subs[stream[c].inst]
    /\ Leave(c)
    /\ UNCHANGED <<hub, truth>>

\* The connection breaks: the dropped Subscription unsubscribes.
Disconnect(c) ==
    /\ stream[c] # NoStream
    /\ Leave(c)
    /\ subs' = [subs EXCEPT ![stream[c].inst] = @ \ {c}]
    /\ UNCHANGED <<generation, nextOrder, total, next, bytes, records, truth>>

-----------------------------------------------------------------------------
(* The life of an instance and of the daemon                               *)

CreateInstance(i) ==
    /\ ~exists[i]
    /\ exists' = [exists EXCEPT ![i] = TRUE]
    /\ UNCHANGED <<hub, log, life, clients>>

\* Mutant: the bytes of a closed history stay in the global counter.
CloseUncounted(i) ==
    /\ bytes' = [bytes EXCEPT ![i] = 0]
    /\ next' = [next EXCEPT ![i] = 0]
    /\ records' = [records EXCEPT ![i] = <<>>]
    /\ subs' = [subs EXCEPT ![i] = {}]
    /\ UNCHANGED <<generation, nextOrder, total>>

\* close_instance
Close(i) ==
    /\ total' = total - bytes[i]
    /\ bytes' = [bytes EXCEPT ![i] = 0]
    /\ next' = [next EXCEPT ![i] = 0]
    /\ records' = [records EXCEPT ![i] = <<>>]
    /\ subs' = [subs EXCEPT ![i] = {}]
    /\ UNCHANGED <<generation, nextOrder>>

RemoveInstance(i) ==
    /\ exists[i] /\ life[i] < MaxLives
    /\ Close(i)
    /\ exists' = [exists EXCEPT ![i] = FALSE]
    /\ log' = [log EXCEPT ![i] = <<>>]
    /\ life' = [life EXCEPT ![i] = @ + 1]
    /\ UNCHANGED clients

\* A new daemon has a new generation and no history; all connections break.
Restart ==
    /\ \A i \in VMs : life[i] < MaxLives
    /\ generation' = generation + 1
    /\ nextOrder' = 0 /\ total' = 0
    /\ next' = [i \in VMs |-> 0] /\ bytes' = [i \in VMs |-> 0]
    /\ records' = [i \in VMs |-> <<>>] /\ subs' = [i \in VMs |-> {}]
    /\ log' = [i \in VMs |-> <<>>]
    /\ life' = [i \in VMs |-> life[i] + 1]
    /\ stream' = [c \in Clients |-> NoStream]
    /\ backlog' = [c \in Clients |-> <<>>]
    /\ fill' = [c \in Clients |-> 0]
    /\ UNCHANGED <<exists, cursor>>

-----------------------------------------------------------------------------
EventsInit ==
    /\ generation = 0 /\ nextOrder = 0 /\ total = 0
    /\ next = [i \in VMs |-> 0] /\ bytes = [i \in VMs |-> 0]
    /\ records = [i \in VMs |-> <<>>] /\ subs = [i \in VMs |-> {}]
    /\ exists = [i \in VMs |-> TRUE]
    /\ log = [i \in VMs |-> <<>>] /\ life = [i \in VMs |-> 0]
    /\ stream = [c \in Clients |-> NoStream] /\ backlog = [c \in Clients |-> <<>>]
    /\ fill = [c \in Clients |-> 0] /\ cursor = [c \in Clients |-> NoCursor]

EventsNext ==
    \/ Restart
    \/ \E i \in VMs : PublishRecord(i) \/ CreateInstance(i) \/ RemoveInstance(i)
    \/ \E c \in Clients : \/ Receive(c) \/ EndOfStream(c) \/ Disconnect(c)
                          \/ \E i \in VMs : Replay(c, i) \/ Resync(c, i)

EventsSpec == EventsInit /\ [][EventsNext]_eventsVars

-----------------------------------------------------------------------------
(* Properties                                                              *)

\* The records strictly between two sequence numbers are all snapshots, which
\* carry no change.
Quiet(i, s, t) == \A k \in (s + 1)..(t - 1) : log[i][k] = "snapshot"

\* How far the client has followed the history it is connected to.
Known(c) ==
    IF cursor[c] # NoCursor /\ cursor[c].inst = stream[c].inst /\ cursor[c].life = stream[c].life
    THEN cursor[c].seq ELSE 0

Previous(c, k) == IF k = 1 THEN Known(c) ELSE backlog[c][k - 1].seq
Latest(c) == IF backlog[c] = <<>> THEN Known(c) ELSE Last(backlog[c]).seq

Current(c) == stream[c] # NoStream /\ stream[c].life = life[stream[c].inst]

\* The next record of the stream is either a snapshot of everything before it or
\* follows what the client has received with no event in between, and a subscriber
\* that is still attached has every event received or pending.
Follows(c) ==
    LET i == stream[c].inst
    IN  /\ \A k \in 1..Len(backlog[c]) :
              \/ k = 1 /\ backlog[c][1].kind = "snapshot"
              \/ /\ Previous(c, k) > 0 /\ Previous(c, k) < backlog[c][k].seq
                 /\ Quiet(i, Previous(c, k), backlog[c][k].seq)
        /\ c \in subs[i] => Latest(c) > 0 /\ Quiet(i, Latest(c), next[i] + 1)

\* The cursor of the client is of a deleted history of the instance it asks for.
Outlived(c) ==
    /\ cursor[c] # NoCursor /\ cursor[c].inst = stream[c].inst
    /\ cursor[c].generation = generation /\ cursor[c].life # stream[c].life

\* No client misses a change without being told, whatever is evicted, however slow
\* it is and wherever it lost its connection, unless it comes back with the cursor
\* of an instance that was deleted.  (docs/operations/api-v2-live-vm-events.md:28-34)
Complete == \A c \in Clients : Current(c) /\ ~Outlived(c) => Follows(c)

\* The retention limits hold, and the byte counters that enforce them are exact,
\* so their unsigned subtractions never underflow.
Retention ==
    /\ \A i \in VMs : /\ Len(records[i]) <= HistoryEvents
                            /\ bytes[i] = Bytes(records[i]) /\ bytes[i] <= InstanceBytes
    /\ total = SumFunction(bytes) /\ total <= GlobalBytes

=============================================================================
