------------------------ MODULE StreamControlProofs ------------------------
(***************************************************************************)
(* Every input has one owner, and a display has one of its own run, for    *)
(* any number of attempts, groups and runs.                                *)
(*                                                                         *)
(* OneController is not inductive: a third stream could claim a key whose  *)
(* holder is missing in control_streams.  The invariant therefore says     *)
(* that every unrevoked lease is in the map, that every entry of the map   *)
(* is a lease, and that no key has two entries.                            *)
(***************************************************************************)
EXTENDS StreamControl, TLAPS

\* The tickets that the proof needs: what an attempt past "idle" carries.
Tickets ==
    /\ pc \in [Attempts -> Phases] /\ ticket \in [Attempts -> Ticket \cup {NoTicket}]
    /\ owners \subseteq Attempts /\ revoked \subseteq Attempts
    /\ tearing \in {"no", "display", "audio", "tickets"} /\ run \in Runs \cup {NoRun}
    /\ \A a \in Attempts : pc[a] # "idle" => /\ ticket[a] \in Ticket
                                             /\ ticket[a].kind # "serial" => ticket[a].run \in Runs

\* A run is alive only between its start and its teardown, and only a run is torn down.
Supervision ==
    /\ alive => run # NoRun /\ tearing = "no"
    /\ tearing # "no" => run # NoRun

\* The entries of control_streams are leases, one for each key ...
OwnersHold == \A a \in owners : Holding(a)
OwnersUnique == \A a, b \in owners : Key(ticket[a]) = Key(ticket[b]) => a = b

\* ... and hold every lease that is not revoked.
HoldingOwned == \A a \in Attempts : Holding(a) /\ a \notin revoked => a \in owners

IInv == Tickets /\ Supervision /\ OwnersHold /\ OwnersUnique /\ HoldingOwned /\ ControlsCurrentRun

-----------------------------------------------------------------------------
\* The empty maps of serve satisfy the invariant.
LEMMA InitIInv == Init => IInv
BY DEF Init, IInv, Tickets, Supervision, OwnersHold, OwnersUnique, HoldingOwned,
       ControlsCurrentRun, Holding, Phases

\* The invariant gives every input one owner: two unrevoked leases of a key would be
\* two entries of it.
LEMMA IInvOneController == IInv => OneController
BY DEF IInv, Tickets, OwnersUnique, HoldingOwned, OneController

\* A step that leaves tickets, leases and the run alone, and takes no attempt into or
\* out of the phases that hold a lease, keeps the invariant.
LEMMA Quiet ==
    ASSUME IInv, UNCHANGED <<owners, revoked, run, tearing>>,
           pc' \in [Attempts -> Phases], ticket' \in [Attempts -> Ticket \cup {NoTicket}],
           alive' => alive,
           \A a \in Attempts : pc'[a] # "idle" =>
              ticket'[a] \in Ticket /\ (ticket'[a].kind # "serial" => ticket'[a].run \in Runs),
           \A a \in Attempts : Holding(a) \/ Holding(a)' =>
              /\ Holding(a) /\ Holding(a)'
              /\ ticket'[a].kind = ticket[a].kind
              /\ ticket[a].kind # "serial" => ticket'[a] = ticket[a]
    PROVE  IInv'
<1>1. ASSUME NEW a \in Attempts, Holding(a)
      PROVE  Key(ticket[a])' = Key(ticket[a])
  BY <1>1 DEF Key, DisplayKinds
<1>2. Tickets' /\ Supervision'
  BY DEF IInv, Tickets, Supervision
<1>3. OwnersHold' /\ HoldingOwned'
  BY DEF IInv, Tickets, OwnersHold, HoldingOwned
<1>4. OwnersUnique'
  <2>1. SUFFICES ASSUME NEW a \in owners, NEW b \in owners, Key(ticket[a])' = Key(ticket[b])'
                 PROVE  a = b
    BY DEF OwnersUnique
  <2>2. a \in Attempts /\ b \in Attempts /\ Holding(a) /\ Holding(b)
    BY DEF IInv, Tickets, OwnersHold
  <2>3. Key(ticket[a]) = Key(ticket[b])
    BY <1>1, <2>1, <2>2
  <2>4. QED
    BY <2>3 DEF IInv, OwnersUnique
<1>5. ControlsCurrentRun'
  BY DEF IInv, ControlsCurrentRun, DisplayKinds
<1>6. QED
  BY <1>2, <1>3, <1>4, <1>5 DEF IInv

\* An attempt that ends takes its own entry with it, and nothing else.
LEMMA Dropped ==
    ASSUME IInv, NEW a \in Attempts, Forget(a), Release(a)
    PROVE  IInv'
<1>1. /\ \A b \in Attempts : b # a => pc'[b] = pc[b] /\ ticket'[b] = ticket[b]
      /\ pc'[a] = "idle" /\ owners' = owners \ {a} /\ revoked' = revoked \ {a}
      /\ UNCHANGED <<run, alive, tearing>>
  BY DEF Forget, Release, IInv, Tickets, supervised
<1>2. Tickets' /\ Supervision'
  <2>1. pc' \in [Attempts -> Phases] /\ ticket' \in [Attempts -> Ticket \cup {NoTicket}]
    BY DEF Forget, IInv, Tickets, Phases
  <2>2. QED
    BY <1>1, <2>1 DEF IInv, Tickets, Supervision
<1>3. ~Holding(a)' /\ \A b \in Attempts : b # a => Holding(b)' = Holding(b)
  BY <1>1 DEF Holding
<1>4. \A b \in Attempts : b # a => Key(ticket[b])' = Key(ticket[b])
  BY <1>1 DEF Key
<1>5. OwnersHold' /\ HoldingOwned'
  BY <1>1, <1>3 DEF IInv, Tickets, OwnersHold, HoldingOwned
<1>6. OwnersUnique'
  BY <1>1, <1>4 DEF IInv, Tickets, OwnersUnique
<1>7. ControlsCurrentRun'
  BY <1>1, <1>3 DEF IInv, ControlsCurrentRun
<1>8. QED
  BY <1>2, <1>5, <1>6, <1>7 DEF IInv

LEMMA RefuseStep ==
    ASSUME IInv, NEW a \in Attempts, Refuse(a)
    PROVE  IInv'
BY Dropped DEF Refuse

\* claim_control: the entry of the key becomes the new stream's, and whoever had it is
\* revoked.
LEMMA ClaimStep ==
    ASSUME IInv, NEW a \in Attempts, Claim(a)
    PROVE  IInv'
<1>1. CASE ~Valid(a) /\ Refuse(a)
  BY <1>1, RefuseStep
<1>2. CASE /\ Valid(a) /\ Claimed(a) /\ pc[a] = "claim"
           /\ \E next \in {"admit", "wait", "relay"} : Step(a, next)
           /\ UNCHANGED <<supervised, tickets, gone, late, sessions>>
  <2>1. /\ pc' \in [Attempts -> Phases] /\ ticket' = ticket
        /\ pc'[a] \in {"admit", "wait", "relay"} /\ \A b \in Attempts : b # a => pc'[b] = pc[b]
        /\ UNCHANGED <<run, alive, tearing>>
    BY <1>2 DEF Step, tickets, supervised, IInv, Tickets, Phases
  <2>2. ~Holding(a) /\ Holding(a)' = ticket[a].control /\ ticket[a] \in Ticket
    BY <1>2, <2>1 DEF Holding, IInv, Tickets, Ticket
  <2>3. \A b \in Attempts : b # a => Holding(b)' = Holding(b)
    BY <2>1 DEF Holding
  <2>4. \A b \in Attempts : Key(ticket[b])' = Key(ticket[b])
    BY <2>1 DEF Key
  <2>5. ticket[a].kind # "serial" => ticket[a].run = run /\ tearing = "no"
    BY <1>2, StreamAssumption DEF Valid, LiveRun, IInv, Tickets, Supervision
  <2>6. a \notin owners
    BY <2>2 DEF IInv, OwnersHold
  <2>7. Tickets' /\ Supervision'
    BY <1>2, <2>1 DEF IInv, Tickets, Supervision, Claimed, Holders
  <2>8. CASE ticket[a].control
    <3>1. /\ owners' = (owners \ Holders(a)) \cup {a} /\ revoked' = revoked \cup Holders(a)
          /\ Holders(a) = {b \in owners : Key(ticket[b]) = Key(ticket[a])}
      BY <1>2, <2>8 DEF Claimed, Holders
    <3>2. OwnersHold'
      BY <2>2, <2>3, <2>8, <3>1 DEF IInv, Tickets, OwnersHold
    <3>3. HoldingOwned'
      BY <2>3, <3>1 DEF IInv, Tickets, HoldingOwned
    <3>4. OwnersUnique'
      BY <2>4, <3>1 DEF IInv, Tickets, OwnersUnique
    <3>5. ControlsCurrentRun'
      BY <2>1, <2>3, <2>5, <3>1 DEF IInv, ControlsCurrentRun, DisplayKinds
    <3>6. QED
      BY <2>7, <3>2, <3>3, <3>4, <3>5 DEF IInv
  <2>9. CASE ~ticket[a].control
    <3>1. UNCHANGED <<owners, revoked>> /\ ~Holding(a)'
      BY <1>2, <2>2, <2>9 DEF Claimed
    <3>2. OwnersHold' /\ HoldingOwned'
      BY <2>2, <2>3, <2>6, <3>1 DEF IInv, Tickets, OwnersHold, HoldingOwned
    <3>3. OwnersUnique'
      BY <2>4, <3>1 DEF IInv, Tickets, OwnersUnique
    <3>4. ControlsCurrentRun'
      BY <2>1, <2>3, <3>1 DEF IInv, ControlsCurrentRun
    <3>5. QED
      BY <2>7, <3>2, <3>3, <3>4 DEF IInv
  <2>10. QED
    BY <2>8, <2>9
<1>3. QED
  BY <1>1, <1>2 DEF Claim

-----------------------------------------------------------------------------
\* A run starts where none is supervised: no unrevoked display controller is left.
LEMMA StartRunStep ==
    ASSUME IInv, NEW r \in Runs, StartRun(r)
    PROVE  IInv'
<1>1. /\ UNCHANGED <<tearing, ticket, pc, owners, revoked>>
      /\ run = NoRun /\ run' = r
  BY DEF StartRun, tickets, leases
<1>2. \A a \in Attempts : /\ Holding(a)' = Holding(a)
                          /\ Key(ticket[a])' = Key(ticket[a])
  BY <1>1 DEF Holding, Key
<1>3. ASSUME NEW a \in Attempts, Holding(a), ticket[a].kind \in DisplayKinds
      PROVE  a \in revoked
  BY <1>1, <1>3, StreamAssumption DEF IInv, Tickets, Holding, ControlsCurrentRun, DisplayKinds
<1>4. Tickets' /\ Supervision'
  BY <1>1, StreamAssumption DEF IInv, Tickets, Supervision
<1>5. OwnersHold' /\ HoldingOwned' /\ OwnersUnique'
  BY <1>1, <1>2 DEF IInv, Tickets, OwnersHold, HoldingOwned, OwnersUnique
<1>6. ControlsCurrentRun'
  BY <1>1, <1>2, <1>3 DEF ControlsCurrentRun
<1>7. QED
  BY <1>4, <1>5, <1>6 DEF IInv

\* The first step of a teardown: the run is dead, and its controllers still hold.
LEMMA TeardownBeginStep ==
    ASSUME IInv, TeardownBegin
    PROVE  IInv'
<1>1. /\ UNCHANGED <<run, alive, ticket, pc, owners, revoked>>
      /\ run # NoRun /\ ~alive /\ tearing' = "display"
  BY DEF TeardownBegin, tickets, leases
<1>2. \A a \in Attempts : /\ Holding(a)' = Holding(a)
                          /\ Key(ticket[a])' = Key(ticket[a])
  BY <1>1 DEF Holding, Key
<1>3. Tickets' /\ Supervision'
  BY <1>1 DEF IInv, Tickets, Supervision
<1>4. OwnersHold' /\ HoldingOwned' /\ OwnersUnique' /\ ControlsCurrentRun'
  BY <1>1, <1>2 DEF IInv, Tickets, OwnersHold, HoldingOwned, OwnersUnique, ControlsCurrentRun
<1>5. QED
  BY <1>3, <1>4 DEF IInv

\* revoke_display: the one entry of the display of the run is the one that unrevoked
\* controllers of the run have.
LEMMA RevokeDisplayStep ==
    ASSUME IInv, RevokeDisplay
    PROVE  IInv'
<1> DEFINE holders == {a \in owners : Key(ticket[a]) = <<run, "display">>}
<1>1. /\ UNCHANGED <<run, alive, ticket, pc>>
      /\ tearing = "display" /\ tearing' = "audio"
      /\ owners' = owners \ holders /\ revoked' = revoked \cup holders
  BY DEF RevokeDisplay, tickets
<1> HIDE DEF holders
<1>2. \A a \in Attempts : /\ Holding(a)' = Holding(a)
                          /\ Key(ticket[a])' = Key(ticket[a])
  BY <1>1 DEF Holding, Key
<1>3. Tickets' /\ Supervision'
  BY <1>1 DEF IInv, Tickets, Supervision, holders
<1>4. OwnersHold' /\ HoldingOwned' /\ OwnersUnique'
  BY <1>1, <1>2 DEF IInv, Tickets, OwnersHold, HoldingOwned, OwnersUnique
<1>5. ASSUME NEW a \in Attempts, Holding(a), ticket[a].kind \in DisplayKinds
      PROVE  a \in revoked'
  <2>1. SUFFICES ASSUME a \notin revoked
                 PROVE  a \in holders
    BY <1>1
  <2>2. a \in owners /\ ticket[a].run = run
    BY <1>5, <2>1 DEF IInv, HoldingOwned, ControlsCurrentRun
  <2>3. Key(ticket[a]) = <<run, "display">>
    BY <1>5, <2>2 DEF Key, DisplayKinds
  <2>4. QED
    BY <2>2, <2>3 DEF holders
<1>6. ControlsCurrentRun'
  BY <1>1, <1>2, <1>5 DEF ControlsCurrentRun
<1>7. QED
  BY <1>3, <1>4, <1>6 DEF IInv

\* The rest of a teardown: no unrevoked display controller is left to outlive it.
LEMMA TeardownRestStep ==
    ASSUME IInv, TeardownAudio \/ TeardownTickets
    PROVE  IInv'
<1>1. /\ UNCHANGED <<alive, ticket, pc, owners, revoked>>
      /\ tearing \in {"audio", "tickets"} /\ tearing' \in {"no", "tickets"}
      /\ run' = run \/ (run' = NoRun /\ tearing' = "no")
      /\ tearing' # "no" => run' = run
  BY DEF TeardownAudio, TeardownTickets, tickets, leases
<1>2. \A a \in Attempts : /\ Holding(a)' = Holding(a)
                          /\ Key(ticket[a])' = Key(ticket[a])
  BY <1>1 DEF Holding, Key
<1>3. Tickets' /\ Supervision'
  BY <1>1 DEF IInv, Tickets, Supervision
<1>4. OwnersHold' /\ HoldingOwned' /\ OwnersUnique' /\ ControlsCurrentRun'
  BY <1>1, <1>2 DEF IInv, Tickets, OwnersHold, HoldingOwned, OwnersUnique, ControlsCurrentRun
<1>5. QED
  BY <1>3, <1>4 DEF IInv

-----------------------------------------------------------------------------
\* The steps before a claim: the attempt holds nothing yet.
LEMMA IssueStep ==
    ASSUME IInv, NEW a \in Attempts, IssueRead(a) \/ IssueInsert(a)
    PROVE  IInv'
<1>1. /\ UNCHANGED <<owners, revoked, run, tearing, alive>>
      /\ pc[a] \in {"idle", "insert"} /\ pc' = [pc EXCEPT ![a] = pc'[a]]
      /\ pc'[a] \in {"idle", "insert", "ticket"}
  BY DEF IssueRead, IssueInsert, Fresh, Step, leases, supervised, IInv, Tickets
<1>2. /\ ticket' \in [Attempts -> Ticket \cup {NoTicket}]
      /\ \A b \in Attempts : b # a => ticket'[b] = ticket[b]
      /\ pc'[a] # "idle" => /\ ticket'[a] \in Ticket
                            /\ ticket'[a].kind # "serial" => ticket'[a].run \in Runs
  <2>1. CASE IssueRead(a)
    <3>1. PICK kind \in Kinds \ {"spice"}, control \in BOOLEAN, takeover \in BOOLEAN :
             /\ kind # "serial" => LiveRun # NoRun
             /\ ticket' = [ticket EXCEPT ![a] =
                   [kind |-> kind, control |-> control, takeover |-> takeover,
                    run |-> LiveRun, group |-> NoGroup]]
      BY <2>1 DEF IssueRead
    <3>2. LiveRun \in Runs \cup {NoRun}
      BY DEF LiveRun, IInv, Tickets
    <3>3. QED
      BY <3>1, <3>2 DEF Ticket, IInv, Tickets
  <2>2. CASE IssueInsert(a)
    BY <2>2 DEF IssueInsert, Step, IInv, Tickets
  <2>3. QED
    BY <2>1, <2>2
<1>3. \A b \in Attempts : Holding(b) \/ Holding(b)' => /\ b # a
                                                       /\ pc'[b] = pc[b] /\ ticket'[b] = ticket[b]
  BY <1>1, <1>2 DEF Holding, IInv, Tickets
<1>4. \A b \in Attempts : Holding(b) \/ Holding(b)' => Holding(b) /\ Holding(b)'
  BY <1>3 DEF Holding
<1>5. pc' \in [Attempts -> Phases]
  BY <1>1 DEF IInv, Tickets, Phases
<1>6. \A b \in Attempts : pc'[b] # "idle" =>
         ticket'[b] \in Ticket /\ (ticket'[b].kind # "serial" => ticket'[b].run \in Runs)
  BY <1>1, <1>2 DEF IInv, Tickets
<1>7. QED
  BY <1>1, <1>2, <1>3, <1>4, <1>5, <1>6, Quiet

\* The channels of an audio session get their tickets in one step.
LEMMA IssueSpiceStep ==
    ASSUME IInv, NEW g \in Groups, NEW channels \in ChannelSets,
           NEW at \in [channels -> Attempts], IssueSpice(g, at)
    PROVE  IInv'
<1> DEFINE chosen == {at[c] : c \in channels}
<1>1. /\ UNCHANGED <<owners, revoked, run, tearing, alive>>
      /\ LiveRun # NoRun /\ \A c \in channels : pc[at[c]] = "idle"
      /\ pc' = [a \in Attempts |-> IF \E c \in channels : at[c] = a THEN "ticket" ELSE pc[a]]
      /\ ticket' = [a \in Attempts |->
              IF \E c \in channels : at[c] = a
              THEN [kind |-> CHOOSE c \in channels : at[c] = a,
                    control |-> \E c \in channels : at[c] = a /\ c = "spice-record",
                    takeover |-> FALSE, run |-> run, group |-> g]
              ELSE ticket[a]]
  BY DEF IssueSpice, Fresh, leases, supervised
<1>2. run \in Runs
  BY <1>1 DEF LiveRun, IInv, Tickets
<1>3. ASSUME NEW a \in chosen
      PROVE  /\ a \in Attempts /\ pc[a] = "idle" /\ pc'[a] = "ticket"
             /\ ticket'[a] \in Ticket /\ ticket'[a].run \in Runs
  <2>1. a \in Attempts /\ (\E c \in channels : at[c] = a) /\ pc[a] = "idle"
    BY <1>1
  <2>2. (CHOOSE c \in channels : at[c] = a) \in Channels
    BY <2>1 DEF ChannelSets, Channels
  <2>3. (\E c \in channels : at[c] = a /\ c = "spice-record") \in BOOLEAN
    OBVIOUS
  <2>4. QED
    BY <1>1, <1>2, <2>1, <2>2, <2>3 DEF Ticket
<1>4. ASSUME NEW a \in Attempts, a \notin chosen
      PROVE  pc'[a] = pc[a] /\ ticket'[a] = ticket[a]
  BY <1>1, <1>4
<1> HIDE DEF chosen
<1>5. pc' \in [Attempts -> Phases] /\ ticket' \in [Attempts -> Ticket \cup {NoTicket}]
  <2>1. \A a \in Attempts : pc'[a] \in Phases /\ ticket'[a] \in Ticket \cup {NoTicket}
    BY <1>3, <1>4 DEF IInv, Tickets, Phases
  <2>2. QED
    BY <1>1, <2>1
<1>6. \A a \in Attempts : Holding(a) \/ Holding(a)' => a \notin chosen
  BY <1>3 DEF Holding
<1>7. \A a \in Attempts : Holding(a) \/ Holding(a)' => /\ Holding(a) /\ Holding(a)'
                                                       /\ ticket'[a] = ticket[a]
  BY <1>4, <1>6 DEF Holding
<1>8. \A a \in Attempts : pc'[a] # "idle" =>
         ticket'[a] \in Ticket /\ (ticket'[a].kind # "serial" => ticket'[a].run \in Runs)
  BY <1>3, <1>4 DEF IInv, Tickets
<1>9. QED
  BY <1>1, <1>5, <1>7, <1>8, Quiet

\* Redeeming a ticket takes it out of the map, whether it is of use or not.
LEMMA OpenStep ==
    ASSUME IInv, NEW a \in Attempts, Open(a)
    PROVE  IInv'
<1>1. CASE Refuse(a)
  BY <1>1, RefuseStep
<1>2. CASE /\ pc[a] = "ticket" /\ Step(a, "claim")
           /\ UNCHANGED <<supervised, ticket, expired, gone, leases, sessions>>
  <2>1. /\ UNCHANGED <<owners, revoked, run, tearing, alive, ticket>>
        /\ pc' \in [Attempts -> Phases] /\ pc'[a] = "claim"
        /\ \A b \in Attempts : b # a => pc'[b] = pc[b]
    BY <1>2 DEF Step, leases, supervised, IInv, Tickets, Phases
  <2>2. \A b \in Attempts : Holding(b)' = Holding(b)
    BY <1>2, <2>1 DEF Holding
  <2>3. QED
    BY <1>2, <2>1, <2>2, Quiet DEF IInv, Tickets
<1>3. QED
  BY <1>1, <1>2 DEF Open

-----------------------------------------------------------------------------
\* A step of a stream that holds what it holds before and after.
LEMMA HoldingStep ==
    ASSUME IInv, NEW a \in Attempts,
           pc[a] \in {"admit", "wait", "relay", "write"},
           \E next \in {"admit", "wait", "relay", "write"} : pc' = [pc EXCEPT ![a] = next],
           UNCHANGED <<ticket, owners, revoked, run, tearing, alive>>
    PROVE  IInv'
<1>1. /\ pc' \in [Attempts -> Phases] /\ pc'[a] \in {"admit", "wait", "relay", "write"}
      /\ \A b \in Attempts : b # a => pc'[b] = pc[b]
  BY DEF IInv, Tickets, Phases
<1>2. \A b \in Attempts : Holding(b)' = Holding(b)
  BY <1>1 DEF Holding
<1>3. QED
  BY <1>1, <1>2, Quiet DEF IInv, Tickets

\* A step that touches neither attempts nor leases.
LEMMA IdleStep ==
    ASSUME IInv, UNCHANGED <<pc, ticket, owners, revoked, run, tearing>>, alive' => alive
    PROVE  IInv'
<1>1. \A b \in Attempts : Holding(b)' = Holding(b)
  BY DEF Holding
<1>2. QED
  BY <1>1, Quiet DEF IInv, Tickets

LEMMA AdmitStep ==
    ASSUME IInv, NEW a \in Attempts, Admit(a)
    PROVE  IInv'
<1>1. CASE Refuse(a)
  BY <1>1, RefuseStep
<1>2. CASE /\ pc[a] = "admit" /\ Step(a, "relay")
           /\ UNCHANGED <<supervised, tickets, gone, leases>>
  BY <1>2, HoldingStep DEF Step, supervised, tickets, leases
<1>3. QED
  BY <1>1, <1>2 DEF Admit

\* A serial stream keeps its key whatever run it is connected to.
LEMMA ConnectSerialStep ==
    ASSUME IInv, NEW a \in Attempts, ConnectSerial(a), ticket[a].kind = "serial"
    PROVE  IInv'
<1>1. /\ UNCHANGED <<owners, revoked, run, tearing, alive>> /\ pc[a] = "wait"
      /\ pc' = [pc EXCEPT ![a] = "relay"] /\ ticket' = [ticket EXCEPT ![a].run = run]
      /\ ticket[a] \in Ticket /\ run \in Runs
  BY DEF ConnectSerial, Step, leases, supervised, IInv, Tickets, LiveRun
<1>2. /\ ticket'[a] \in Ticket /\ ticket'[a].kind = "serial"
      /\ ticket'[a].control = ticket[a].control
  BY <1>1 DEF Ticket, IInv, Tickets
<1>3. /\ pc' \in [Attempts -> Phases] /\ ticket' \in [Attempts -> Ticket \cup {NoTicket}]
      /\ pc'[a] = "relay"
      /\ \A b \in Attempts : b # a => pc'[b] = pc[b] /\ ticket'[b] = ticket[b]
  BY <1>1, <1>2 DEF IInv, Tickets, Phases
<1>4. \A b \in Attempts : Holding(b)' = Holding(b)
  BY <1>1, <1>2, <1>3 DEF Holding
<1>5. \A b \in Attempts : pc'[b] # "idle" =>
         ticket'[b] \in Ticket /\ (ticket'[b].kind # "serial" => ticket'[b].run \in Runs)
  BY <1>2, <1>3 DEF IInv, Tickets
<1>6. QED
  BY <1>1, <1>2, <1>3, <1>4, <1>5, Quiet

-----------------------------------------------------------------------------
\* Only a serial stream waits for its socket.
Waiting == \A a \in Attempts : pc[a] = "wait" => ticket[a].kind = "serial"

LEMMA WaitingStep ==
    ASSUME IInv, Waiting, [Next]_vars
    PROVE  Waiting'
<1> USE DEF Waiting
<1>1. pc \in [Attempts -> Phases] /\ ticket \in [Attempts -> Ticket \cup {NoTicket}]
  BY DEF IInv, Tickets
<1>2. ASSUME NEW a \in Attempts, Forget(a)
      PROVE  Waiting'
  BY <1>1, <1>2 DEF Forget
<1>3. ASSUME NEW a \in Attempts, IssueRead(a) \/ IssueInsert(a) \/ Expire(a)
      PROVE  Waiting'
  BY <1>1, <1>3 DEF IssueRead, IssueInsert, Expire, Step
<1>4. ASSUME NEW g \in Groups, NEW channels \in ChannelSets,
             NEW at \in [channels -> Attempts], IssueSpice(g, at)
      PROVE  Waiting'
  <2>1. \A a \in Attempts : pc'[a] = "ticket" \/ (pc'[a] = pc[a] /\ ticket'[a] = ticket[a])
    BY <1>1, <1>4 DEF IssueSpice
  <2>2. QED
    BY <2>1
<1>5. ASSUME NEW a \in Attempts, Open(a)
      PROVE  Waiting'
  BY <1>1, <1>2, <1>5 DEF Open, Refuse, Step
<1>6. ASSUME NEW a \in Attempts, Claim(a)
      PROVE  Waiting'
  BY <1>1, <1>2, <1>6 DEF Claim, Refuse, Step, tickets
<1>7. ASSUME NEW a \in Attempts, Admit(a)
      PROVE  Waiting'
  BY <1>1, <1>2, <1>7 DEF Admit, Refuse, Step, tickets
<1>8. ASSUME NEW a \in Attempts, ConnectSerial(a) \/ Relay(a)
      PROVE  Waiting'
  BY <1>1, <1>2, <1>8 DEF ConnectSerial, Relay, Message, Write, MainInit, CloseClient, End, Step, tickets
<1>9. CASE \/ Exit \/ Teardown \/ (\E r \in Runs : StartRun(r))
           \/ (\E g \in Groups : ExpireSession(g)) \/ UNCHANGED vars
  BY <1>9 DEF Exit, Teardown, TeardownBegin, RevokeDisplay, TeardownAudio, TeardownTickets,
              StartRun, ExpireSession, vars, tickets
<1>10. QED
  BY <1>3, <1>4, <1>5, <1>6, <1>7, <1>8, <1>9 DEF Next, Connect

\* Every step keeps the invariant.
LEMMA NextIInv ==
    ASSUME IInv, Waiting, [Next]_vars
    PROVE  IInv'
<1>1. ASSUME NEW a \in Attempts, IssueRead(a) \/ IssueInsert(a)
      PROVE  IInv'
  BY <1>1, IssueStep
<1>2. ASSUME NEW g \in Groups, NEW channels \in ChannelSets,
             NEW at \in [channels -> Attempts], IssueSpice(g, at)
      PROVE  IInv'
  BY <1>2, IssueSpiceStep
<1>3. ASSUME NEW a \in Attempts, Expire(a)
      PROVE  IInv'
  BY <1>3, IdleStep DEF Expire, supervised, leases
<1>4. ASSUME NEW g \in Groups, ExpireSession(g)
      PROVE  IInv'
  BY <1>4, IdleStep DEF ExpireSession, supervised, leases, tickets
<1>5. ASSUME NEW a \in Attempts, Connect(a)
      PROVE  IInv'
  <2>1. ConnectSerial(a) => ticket[a].kind = "serial"
    BY DEF ConnectSerial, Waiting
  <2>2. QED
    BY <1>5, <2>1, OpenStep, ClaimStep, AdmitStep, ConnectSerialStep DEF Connect
<1>6. ASSUME NEW a \in Attempts, Message(a) \/ Write(a)
      PROVE  IInv'
  BY <1>6, HoldingStep DEF Message, Write, Step, supervised, leases, tickets
<1>7. ASSUME NEW a \in Attempts, MainInit(a) \/ CloseClient(a)
      PROVE  IInv'
  BY <1>7, IdleStep DEF MainInit, CloseClient, supervised, leases, tickets
<1>8. ASSUME NEW a \in Attempts, End(a)
      PROVE  IInv'
  BY <1>8, Dropped DEF End
<1>9. CASE Exit
  BY <1>9, IdleStep DEF Exit, leases, tickets
<1>10. CASE Teardown
  BY <1>10, TeardownBeginStep, RevokeDisplayStep, TeardownRestStep DEF Teardown
<1>11. ASSUME NEW r \in Runs, StartRun(r)
       PROVE  IInv'
  BY <1>11, StartRunStep
<1>12. CASE UNCHANGED vars
  BY <1>12, IdleStep DEF vars, supervised, leases, tickets
<1>13. QED
  BY <1>1, <1>2, <1>3, <1>4, <1>5, <1>6, <1>7, <1>8, <1>9, <1>10, <1>11, <1>12 DEF Next, Relay

LEMMA Invariance == Spec => [](IInv /\ Waiting)
<1>1. Init => IInv /\ Waiting
  BY InitIInv DEF Init, Waiting
<1>2. IInv /\ Waiting /\ [Next]_vars => (IInv /\ Waiting)'
  BY NextIInv, WaitingStep
<1>3. QED
  BY <1>1, <1>2, PTL DEF Spec

\* Of two streams that hold a lease of one display, serial line, USB port or microphone,
\* one is revoked: claim_control, takeovers, the drop of leases and revoke_display keep
\* one owner for each input in every interleaving.
THEOREM OneOwner == Spec => []OneController
BY Invariance, IInvOneController, PTL

\* An unrevoked display controller is one of the supervised run, and none is left when
\* revoke_display has run: tickets and leases of a run do not outlive its teardown.
THEOREM ControllersOfTheRun == Spec => []ControlsCurrentRun
<1>1. IInv => ControlsCurrentRun
  BY DEF IInv
<1>2. QED
  BY <1>1, Invariance, PTL

-----------------------------------------------------------------------------
(* The message under way at a revocation                                   *)

\* A stream that has had its late message is revoked and not about to write: it cannot
\* read its flag as clear again.
Late ==
    /\ late \in [Attempts -> {0, 1}]
    /\ \A a \in Attempts : late[a] = 1 => a \in revoked /\ pc[a] # "write"

LEMMA LateStep ==
    ASSUME IInv, Late, [Next]_vars
    PROVE  Late'
<1> USE DEF Late
<1>1. pc \in [Attempts -> Phases]
  BY DEF IInv, Tickets
<1>2. ASSUME NEW a \in Attempts, Forget(a)
      PROVE  Late'
  BY <1>1, <1>2 DEF Forget
<1>3. ASSUME NEW a \in Attempts, IssueRead(a) \/ IssueInsert(a) \/ Expire(a)
      PROVE  Late'
  BY <1>1, <1>3 DEF IssueRead, IssueInsert, Expire, Step, leases
<1>4. ASSUME NEW g \in Groups, NEW channels \in ChannelSets,
             NEW at \in [channels -> Attempts], IssueSpice(g, at)
      PROVE  Late'
  <2>1. \A a \in Attempts : pc'[a] = "ticket" \/ pc'[a] = pc[a]
    BY <1>1, <1>4 DEF IssueSpice
  <2>2. QED
    BY <1>4, <2>1 DEF IssueSpice, leases
<1>5. ASSUME NEW a \in Attempts, Open(a) \/ Claim(a) \/ Admit(a) \/ ConnectSerial(a)
      PROVE  Late'
  BY <1>1, <1>2, <1>5
  DEF Open, Claim, Claimed, Admit, ConnectSerial, Refuse, Step, leases
<1>6. ASSUME NEW a \in Attempts, Message(a)
      PROVE  Late'
  BY <1>1, <1>6 DEF Message, Step, leases
<1>7. ASSUME NEW a \in Attempts, Write(a)
      PROVE  Late'
  <2>1. late[a] = 0 /\ (late[a] + 1) % 3 = 1
    BY <1>7 DEF Write
  <2>2. QED
    BY <1>1, <1>7, <2>1 DEF Write, Step
<1>8. ASSUME NEW a \in Attempts, MainInit(a) \/ CloseClient(a) \/ End(a)
      PROVE  Late'
  BY <1>1, <1>2, <1>8 DEF MainInit, CloseClient, End, leases
<1>9. CASE \/ Exit \/ Teardown \/ (\E r \in Runs : StartRun(r))
           \/ (\E g \in Groups : ExpireSession(g)) \/ UNCHANGED vars
  BY <1>9 DEF Exit, Teardown, TeardownBegin, RevokeDisplay, TeardownAudio, TeardownTickets,
              StartRun, ExpireSession, vars, leases
<1>10. QED
  BY <1>3, <1>4, <1>5, <1>6, <1>7, <1>8, <1>9 DEF Next, Connect, Relay

\* The relay reads the flag before each message and not while it writes one: a revoked
\* controller gets through the message it had read, and no other, however long it stays.
THEOREM OneLateMessage == Spec => []LastMessage
<1>1. Init => IInv /\ Waiting /\ Late
  BY InitIInv DEF Init, Waiting, Late
<1>2. IInv /\ Waiting /\ Late /\ [Next]_vars => (IInv /\ Waiting /\ Late)'
  BY NextIInv, WaitingStep, LateStep
<1>3. Late => LastMessage
  BY DEF Late, LastMessage
<1>4. QED
  BY <1>1, <1>2, <1>3, PTL DEF Spec

=============================================================================
