--------------------------- MODULE StreamControl ---------------------------
(***************************************************************************)
(* Display, serial, USB and audio streams of one instance: tickets, the    *)
(* leases that make one stream the owner of an input, audio sessions, the  *)
(* relays, and the teardown of a run.  An attempt is a ticket and the      *)
(* WebSocket that redeems it; its name is free again when it has ended.    *)
(* Issuing a ticket, admission to an audio session and the relays do not   *)
(* hold the instance gate; the claim of a lease and the teardown do.       *)
(***************************************************************************)
EXTENDS Naturals, FiniteSets

CONSTANTS
    Attempts, Groups, Runs,
    NoRun, NoGroup, NoSession, NoTicket,
    Kinds,                   \* the kinds of stream that clients ask for
    MaxTickets, MaxSessions  \* outstanding tickets and audio sessions

Channels == {"spice-main", "spice-playback", "spice-record"}
DisplayKinds == {"vnc", "video"}
ControlKinds == DisplayKinds \cup {"usbredir", "serial", "spice-record"}

ASSUME StreamAssumption ==
    /\ NoRun \notin Runs /\ NoGroup \notin Groups
    /\ Kinds \subseteq DisplayKinds \cup {"audio-dbus", "usbredir", "serial", "lcm", "frontpanel", "spice"}
    /\ MaxTickets \in Nat /\ MaxSessions \in Nat

VARIABLES
    run,       \* the supervised run
    alive,     \* is its QEMU alive?
    tearing,   \* the next step of supervisor::teardown
    ticket,    \* the StreamTicket of an attempt
    stored,    \* stream_tickets
    expired,   \* the tickets whose time is over
    pc,        \* the progress of an attempt
    gone,      \* the clients that have closed their end
    owners,    \* the attempts whose flag is in control_streams
    revoked,   \* the attempts whose flag is set
    late,      \* the messages forwarded after revocation
    sessions   \* audio_sessions

supervised == <<run, alive, tearing>>
tickets == <<ticket, stored, expired>>
leases == <<owners, revoked, late>>
vars == <<supervised, tickets, pc, gone, leases, sessions>>

Ticket == [kind : (Kinds \ {"spice"}) \cup Channels, control : BOOLEAN, takeover : BOOLEAN,
           run : Runs \cup {NoRun}, group : Groups \cup {NoGroup}]
Session == [run : Runs, connected : BOOLEAN, active : SUBSET Channels,
            microphone : BOOLEAN, expired : BOOLEAN]

LiveRun == IF alive THEN run ELSE NoRun

Step(a, next) == pc' = [pc EXCEPT ![a] = next]

-----------------------------------------------------------------------------
(* Tickets                                                                 *)

Fresh(a) == pc[a] = "idle"

\* The run is read, and the endpoint looked up, without the gate.
IssueRead(a) ==
    /\ Fresh(a)
    /\ \E kind \in Kinds \ {"spice"}, control, takeover \in BOOLEAN :
          /\ kind \in {"usbredir", "serial"} => control
          /\ control => kind \in ControlKinds
          /\ takeover => control /\ kind \in DisplayKinds
          /\ kind # "serial" => LiveRun # NoRun
          /\ ticket' = [ticket EXCEPT ![a] =
                [kind |-> kind, control |-> control, takeover |-> takeover,
                 run |-> LiveRun, group |-> NoGroup]]
    /\ Step(a, "insert")
    /\ UNCHANGED <<supervised, stored, expired, gone, leases, sessions>>

Outstanding == stored \ expired

IssueInsert(a) ==
    /\ pc[a] = "insert"
    /\ IF Cardinality(Outstanding) < MaxTickets
       THEN /\ stored' = Outstanding \cup {a}
            /\ Step(a, "ticket")
            /\ UNCHANGED <<ticket, expired, gone, leases>>
       ELSE /\ stored' = Outstanding
            /\ Step(a, "idle") /\ ticket' = [ticket EXCEPT ![a] = NoTicket]
            /\ UNCHANGED <<expired, gone, leases>>
    /\ UNCHANGED <<supervised, sessions>>

\* The session and the tickets of its channels are inserted under both locks.
IssueSpice(g, at) ==
    LET channels == DOMAIN at
        kept == [h \in Groups |-> IF sessions[h] # NoSession /\ sessions[h].expired /\ sessions[h].active = {}
                                  THEN NoSession ELSE sessions[h]]
    IN  /\ "spice" \in Kinds /\ LiveRun # NoRun
        /\ \A c \in channels : Fresh(at[c])
        /\ \A c, d \in channels : c # d => at[c] # at[d]
        /\ \A a \in Attempts : ticket[a] # NoTicket => ticket[a].group # g
        /\ Cardinality(Outstanding) + Cardinality(channels) <= MaxTickets
        /\ Cardinality({h \in Groups : kept[h] # NoSession}) < MaxSessions
        /\ sessions' = [kept EXCEPT ![g] =
              [run |-> run, connected |-> FALSE, active |-> {},
               microphone |-> "spice-record" \in channels, expired |-> FALSE]]
        /\ ticket' = [a \in Attempts |->
              IF \E c \in channels : at[c] = a
              THEN [kind |-> CHOOSE c \in channels : at[c] = a,
                    control |-> \E c \in channels : at[c] = a /\ c = "spice-record",
                    takeover |-> FALSE, run |-> run, group |-> g]
              ELSE ticket[a]]
        /\ stored' = Outstanding \cup {at[c] : c \in channels}
        /\ pc' = [a \in Attempts |-> IF \E c \in channels : at[c] = a THEN "ticket" ELSE pc[a]]
        /\ UNCHANGED <<supervised, expired, gone, leases>>

\* Time passes: 30 seconds for a ticket, 120 for a session.
Expire(a) ==
    /\ a \in stored /\ expired' = expired \cup {a}
    /\ UNCHANGED <<supervised, ticket, stored, pc, gone, leases, sessions>>

ExpireSession(g) ==
    /\ sessions[g] # NoSession
    /\ sessions' = [sessions EXCEPT ![g].expired = TRUE]
    /\ UNCHANGED <<supervised, tickets, pc, gone, leases>>

-----------------------------------------------------------------------------
(* Leases                                                                  *)

\* What a controlling stream owns: a serial line whatever the run, or an input of a run.
Key(t) ==
    IF t.kind = "serial" THEN <<NoRun, "serial">>
    ELSE <<t.run, IF t.kind \in DisplayKinds THEN "display" ELSE t.kind>>

Holders(a) == {b \in owners : Key(ticket[b]) = Key(ticket[a])}

\* claim_control
Claimable(a) == ticket[a].control => ticket[a].takeover \/ Holders(a) = {}

\* Mutant: a takeover does not set the flag of the stream it replaces.
ClaimedSilently(a) ==
    /\ owners' = IF ticket[a].control THEN (owners \ Holders(a)) \cup {a} ELSE owners
    /\ UNCHANGED revoked

Claimed(a) ==
    IF ticket[a].control
    THEN owners' = (owners \ Holders(a)) \cup {a} /\ revoked' = revoked \cup Holders(a)
    ELSE UNCHANGED <<owners, revoked>>

\* Nothing of an attempt is left but what it put into the shared maps.
Forget(a) ==
    /\ pc' = [pc EXCEPT ![a] = "idle"]
    /\ ticket' = [ticket EXCEPT ![a] = NoTicket]
    /\ stored' = stored \ {a} /\ expired' = expired \ {a} /\ gone' = gone \ {a}
    /\ revoked' = revoked \ {a} /\ late' = [late EXCEPT ![a] = 0]
    /\ UNCHANGED supervised

\* ControlLease::drop removes the entry if it is its own.
Release(a) == owners' = owners \ {a}

\* AudioLease::drop
ReleaseAudio(a) ==
    LET g == ticket[a].group
    IN  sessions' = IF g = NoGroup \/ sessions[g] = NoSession THEN sessions
                    ELSE [sessions EXCEPT ![g] =
                             IF ticket[a].kind = "spice-main" THEN NoSession
                             ELSE [@ EXCEPT !.active = @ \ {ticket[a].kind}]]

Refuse(a) == Forget(a) /\ Release(a) /\ UNCHANGED sessions

-----------------------------------------------------------------------------
(* connect_stream                                                          *)

\* The ticket is taken whether it is of use or not.
Open(a) ==
    /\ pc[a] = "ticket"
    /\ IF a \in Outstanding
       THEN /\ stored' = stored \ {a}
            /\ Step(a, "claim")
            /\ UNCHANGED <<supervised, ticket, expired, gone, leases, sessions>>
       ELSE Refuse(a)

\* Mutant: the run of the ticket is not compared with the live run.
ValidAnyRun(a) == Claimable(a)

Valid(a) == (ticket[a].kind = "serial" \/ LiveRun = ticket[a].run) /\ Claimable(a)

\* Under the gate.
Claim(a) ==
    /\ pc[a] = "claim" /\ tearing = "no"
    /\ \/ /\ Valid(a) /\ Claimed(a)
          /\ Step(a, CASE ticket[a].group # NoGroup -> "admit"
                       [] ticket[a].kind = "serial" -> "wait"
                       [] OTHER -> "relay")
          /\ UNCHANGED <<supervised, tickets, gone, late, sessions>>
       \/ ~Valid(a) /\ Refuse(a)

Admissible(a) ==
    LET s == sessions[ticket[a].group]
        channel == ticket[a].kind
    IN  /\ s # NoSession
        /\ s.run = ticket[a].run /\ ~s.expired /\ channel \notin s.active
        /\ channel = "spice-record" => s.microphone
        /\ IF channel = "spice-main" THEN s.active = {} /\ ~s.connected
           ELSE "spice-main" \in s.active /\ s.connected

Admit(a) ==
    /\ pc[a] = "admit"
    /\ \/ /\ Admissible(a)
          /\ sessions' = [sessions EXCEPT ![ticket[a].group].active = @ \cup {ticket[a].kind}]
          /\ Step(a, "relay")
          /\ UNCHANGED <<supervised, tickets, gone, leases>>
       \/ ~Admissible(a) /\ Refuse(a)

-----------------------------------------------------------------------------
(* relay                                                                   *)

\* connect_pending_serial: the socket appears with the next QEMU.
ConnectSerial(a) ==
    /\ pc[a] = "wait" /\ LiveRun # NoRun
    /\ ticket' = [ticket EXCEPT ![a].run = run]
    /\ Step(a, "relay")
    /\ UNCHANGED <<supervised, stored, expired, gone, leases, sessions>>

\* Mutant: the flag is not looked at before a message.
MessageUnchecked(a) ==
    /\ pc[a] = "relay" /\ a \notin gone
    /\ ticket[a].control
    /\ Step(a, "write")
    /\ UNCHANGED <<supervised, tickets, gone, leases, sessions>>

\* A message of a controlling client: the flag is read, then the bytes are written.
Message(a) ==
    /\ pc[a] = "relay" /\ a \notin gone
    /\ ticket[a].control /\ a \notin revoked
    /\ Step(a, "write")
    /\ UNCHANGED <<supervised, tickets, gone, leases, sessions>>

Write(a) ==
    /\ pc[a] = "write"
    /\ late' = [late EXCEPT ![a] = IF a \in revoked THEN (@ + 1) % 3 ELSE @]
    /\ Step(a, "relay")
    /\ UNCHANGED <<supervised, tickets, gone, owners, revoked, sessions>>

\* The server of a main channel assigns the connection id.
MainInit(a) ==
    /\ pc[a] = "relay" /\ ticket[a].kind = "spice-main"
    /\ sessions[ticket[a].group] # NoSession
    /\ sessions' = [sessions EXCEPT ![ticket[a].group].connected = TRUE]
    /\ UNCHANGED <<supervised, tickets, pc, gone, leases>>

CloseClient(a) ==
    /\ pc[a] \in {"wait", "relay", "write"} /\ a \notin gone
    /\ gone' = gone \cup {a}
    /\ UNCHANGED <<supervised, tickets, pc, leases, sessions>>

\* A relay sees that its client has closed.
SeesClose(a) == pc[a] = "relay" /\ a \in gone

\* The wait for the flag, or the next message of the client.
SeesRevoked(a) == pc[a] \in {"relay", "write"} /\ a \in revoked

\* The socket of the run is closed.
SeesEof(a) == pc[a] \in {"relay", "write"} /\ LiveRun # ticket[a].run

\* The watchdog of an audio channel.
SeesMainClosed(a) ==
    /\ pc[a] \in {"relay", "write"} /\ ticket[a].group # NoGroup
    /\ LET s == sessions[ticket[a].group] IN s # NoSession => "spice-main" \notin s.active

\* Mutant: no watchdog.
EndUnwatched(a) ==
    /\ SeesClose(a) \/ SeesRevoked(a) \/ SeesEof(a)
    /\ Forget(a) /\ Release(a) /\ ReleaseAudio(a)

End(a) ==
    /\ SeesClose(a) \/ SeesRevoked(a) \/ SeesEof(a) \/ SeesMainClosed(a)
    /\ Forget(a) /\ Release(a) /\ ReleaseAudio(a)

-----------------------------------------------------------------------------
(* The run                                                                 *)

\* A run has a new name: nothing that is left of an earlier one has it.
StartRun(r) ==
    /\ run = NoRun
    /\ \A a \in Attempts : ticket[a] # NoTicket => ticket[a].run # r
    /\ run' = r /\ alive' = TRUE
    /\ UNCHANGED <<tearing, tickets, pc, gone, leases, sessions>>

Exit ==
    /\ alive /\ alive' = FALSE
    /\ UNCHANGED <<run, tearing, tickets, pc, gone, leases, sessions>>

TeardownBegin ==
    /\ run # NoRun /\ ~alive /\ tearing = "no"
    /\ tearing' = "display"
    /\ UNCHANGED <<run, alive, tickets, pc, gone, leases, sessions>>

\* revoke_display
RevokeDisplay ==
    /\ tearing = "display" /\ tearing' = "audio"
    /\ LET holders == {a \in owners : Key(ticket[a]) = <<run, "display">>}
       IN  owners' = owners \ holders /\ revoked' = revoked \cup holders
    /\ UNCHANGED <<run, alive, tickets, pc, gone, late, sessions>>

TeardownAudio ==
    /\ tearing = "audio" /\ tearing' = "tickets"
    /\ sessions' = [g \in Groups |-> NoSession]
    /\ UNCHANGED <<run, alive, tickets, pc, gone, leases>>

TeardownTickets ==
    /\ tearing = "tickets" /\ tearing' = "no"
    /\ run' = NoRun
    /\ stored' = {}
    /\ UNCHANGED <<alive, ticket, expired, pc, gone, leases, sessions>>

-----------------------------------------------------------------------------
Init ==
    /\ run = NoRun /\ alive = FALSE /\ tearing = "no"
    /\ ticket = [a \in Attempts |-> NoTicket] /\ stored = {} /\ expired = {}
    /\ pc = [a \in Attempts |-> "idle"] /\ gone = {}
    /\ owners = {} /\ revoked = {} /\ late = [a \in Attempts |-> 0]
    /\ sessions = [g \in Groups |-> NoSession]

ChannelSets == {{"spice-main", "spice-playback"}, Channels}

Teardown == TeardownBegin \/ RevokeDisplay \/ TeardownAudio \/ TeardownTickets

Connect(a) == Open(a) \/ Claim(a) \/ Admit(a) \/ ConnectSerial(a)
Relay(a) == Message(a) \/ Write(a) \/ MainInit(a) \/ CloseClient(a) \/ End(a)

Next ==
    \/ Exit \/ Teardown \/ \E r \in Runs : StartRun(r)
    \/ \E g \in Groups : \/ ExpireSession(g)
                         \/ \E channels \in ChannelSets : \E at \in [channels -> Attempts] : IssueSpice(g, at)
    \/ \E a \in Attempts : \/ IssueRead(a) \/ IssueInsert(a) \/ Expire(a)
                           \/ Connect(a) \/ Relay(a)

Spec == Init /\ [][Next]_vars

\* A dead run is torn down, the gate is fair, a task that can go on does, and select!
\* polls each of its branches.
StreamFairness ==
    /\ WF_vars(Teardown)
    /\ \A a \in Attempts : /\ WF_vars(Claim(a)) /\ WF_vars(Admit(a)) /\ WF_vars(ConnectSerial(a))
                           /\ WF_vars(Write(a)) /\ WF_vars(End(a))

FairSpec == Spec /\ StreamFairness

-----------------------------------------------------------------------------
(* Properties                                                              *)

Phases == {"idle", "insert", "ticket", "claim", "admit", "wait", "relay", "write"}

Holding(a) == pc[a] \in {"admit", "wait", "relay", "write"} /\ ticket[a].control

\* An input has one owner: of two streams that hold a lease of one display, serial line,
\* USB port or microphone, one is revoked, whatever order claims, takeovers, closes and
\* teardowns come in.  (docs/operations/api-v2-streams-devices.md:13, 76)
OneController ==
    \A a, b \in Attempts : /\ a # b /\ Holding(a) /\ Holding(b)
                           /\ Key(ticket[a]) = Key(ticket[b])
                           => a \in revoked \/ b \in revoked

\* An unrevoked display controller belongs to the supervised run: no ticket or lease of
\* an earlier run outlives its teardown.
ControlsCurrentRun ==
    \A a \in Attempts : Holding(a) /\ ticket[a].kind \in DisplayKinds /\ a \notin revoked
                        => ticket[a].run = run /\ tearing \in {"no", "display"}

\* A revoked controller gets at most the message through whose flag was read before the
\* revocation.
LastMessage == \A a \in Attempts : late[a] <= 1

\* A client that closes a stream, or whose run or main channel ends, gives back what the
\* stream held; a serial stream that waits for its socket is excepted.
StreamsEnd ==
    \A a \in Attempts : SeesClose(a) \/ SeesRevoked(a) \/ SeesEof(a) \/ SeesMainClosed(a)
                        ~> pc[a] = "idle"

=============================================================================
