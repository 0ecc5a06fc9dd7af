----------------------------- MODULE GuestAgent -----------------------------
(***************************************************************************)
(* The guest agent of an instance and the jobs that run commands in it     *)
(* (api/guest_agent.rs, api/guest_exec.rs). The agent is at the other end  *)
(* of one serial channel that outlives the connections to its socket: what *)
(* an earlier client has asked for is answered to the next one. A client   *)
(* therefore asks for a fresh number first and skips what comes before it. *)
(* Jobs talk to the agent under the gate of the instance, readers of its   *)
(* information do not.                                                     *)
(***************************************************************************)
EXTENDS Naturals, Sequences, FiniteSets

CONSTANTS
    Execs,          \* executions
    Readers,        \* requests for information
    MaxRuns,        \* bound: runs of the instance
    MaxJobs,        \* MAX_JOBS: 32 in the code
    SyncReplies,    \* answers a client looks at for its number: 4 in the code
    MaxStamps,      \* bound: connections that synchronise
    Nobody          \* nobody

ASSUME GuestAgentAssumption ==
    /\ Execs \intersect Readers = {}
    /\ Nobody \notin Execs \union Readers
    /\ {MaxRuns, MaxJobs, SyncReplies, MaxStamps} \subseteq Nat

AgentClients == Execs \union Readers

VARIABLES
    live,           \* number of the live run; 0: none
    runs,           \* runs there have been
    asked,          \* commands in the channel
    replies,        \* answers in the channel
    conn,           \* the client QEMU serves
    agentGate,      \* the job that holds the gate of the instance
    stamp,          \* connections that have synchronised
    procs,          \* processes the agent started: pid -> [job, run]
    cl              \* client -> its progress

channelVars == <<asked, replies, conn>>
agentVars == <<live, runs, channelVars, agentGate, stamp, procs, cl>>

(* A job goes queued, connect, sync, [osinfo,] answer, sleep, connect, ... done;
   a reader connect, sync, answer, check, done. *)
NoClient == [pc |-> "none", run |-> 0, pid |-> 0, sync |-> 0, tries |-> 0, result |-> "none", from |-> 0]

GuestAgentInit ==
    /\ live = 1 /\ runs = 1
    /\ asked = <<>> /\ replies = <<>> /\ conn = Nobody
    /\ agentGate = Nobody
    /\ stamp = 0
    /\ procs = <<>>
    /\ cl = [c \in AgentClients |-> NoClient]

-----------------------------------------------------------------------------
(* The instance and the agent *)

(* The run ends: its socket and its channel are gone. The lifecycle needs the
   gate for a stop, QEMU needs none to exit. *)
RunEnds ==
    /\ live # 0
    /\ live' = 0
    /\ asked' = <<>> /\ replies' = <<>>
    /\ conn' = Nobody
    /\ UNCHANGED <<runs, agentGate, stamp, procs, cl>>

RunStarts ==
    /\ live = 0
    /\ agentGate = Nobody
    /\ runs < MaxRuns
    /\ runs' = runs + 1
    /\ live' = runs + 1
    /\ UNCHANGED <<channelVars, agentGate, stamp, procs, cl>>

(* The agent takes the next command and answers it. *)
AgentAnswers(exited) ==
    /\ asked # <<>>
    /\ LET cmd == Head(asked)
           answer == CASE cmd.name = "sync" -> [name |-> "sync", of |-> cmd.arg]
                       [] cmd.name = "exec" -> [name |-> "pid", of |-> Len(procs) + 1]
                       [] cmd.name = "status" -> [name |-> IF exited THEN "exited" ELSE "runs", of |-> cmd.arg]
                       [] OTHER -> [name |-> cmd.name, of |-> live]
       IN /\ exited => cmd.name = "status"
          /\ replies' = Append(replies, answer)
          /\ procs' = IF cmd.name = "exec" THEN Append(procs, [job |-> cmd.arg, run |-> live]) ELSE procs
    /\ asked' = Tail(asked)
    /\ UNCHANGED <<live, runs, conn, agentGate, stamp, cl>>

-----------------------------------------------------------------------------
(* Steps of a client *)

Ask(name, arg) == asked' = Append(asked, [name |-> name, arg |-> arg])

(* The connection is closed; answers on their way reach the next client, or are
   lost with the buffers of this one. *)
Hangs(c) ==
    /\ conn' = IF conn = c THEN Nobody ELSE conn
    /\ \/ UNCHANGED replies
       \/ conn = c /\ replies # <<>> /\ replies' = <<>>

GateAfter(c) == IF agentGate = c THEN Nobody ELSE agentGate

(* The client is done with the agent, or has failed. *)
Ends(c, pc, result) ==
    /\ Hangs(c)
    /\ agentGate' = GateAfter(c)
    /\ cl' = [cl EXCEPT ![c] = [NoClient EXCEPT !.pc = pc, !.run = cl[c].run, !.pid = cl[c].pid,
                                                !.from = cl[c].from, !.result = result]]

(* POST: a job for the live run, unless too many are kept. *)
StartExecution(j) ==
    /\ cl[j].pc = "none"
    /\ live # 0
    /\ agentGate = Nobody
    /\ Cardinality({k \in Execs : cl[k].pc # "none"}) < MaxJobs
    /\ cl' = [cl EXCEPT ![j].pc = "queued", ![j].run = live]
    /\ UNCHANGED <<live, runs, channelVars, agentGate, stamp, procs>>

(* The worker takes the gate, to launch the command or to ask for its status,
   and looks whether the run is still its own. *)
TakeGate(j) ==
    /\ cl[j].pc \in {"queued", "sleep"}
    /\ agentGate = Nobody
    /\ IF live = cl[j].run
         THEN /\ agentGate' = j
              /\ cl' = [cl EXCEPT ![j].pc = "connect"]
         ELSE /\ UNCHANGED agentGate
              /\ cl' = [cl EXCEPT ![j].pc = "done", ![j].result = "run_changed"]
    /\ UNCHANGED <<live, runs, channelVars, stamp, procs>>

(* GET: the run and the socket, then the gate is free again. *)
StartInformation(r) ==
    /\ cl[r].pc = "none"
    /\ live # 0
    /\ agentGate = Nobody
    /\ cl' = [cl EXCEPT ![r].pc = "connect", ![r].run = live]
    /\ UNCHANGED <<live, runs, channelVars, agentGate, stamp, procs>>

(* Client::connect: the socket is that of the instance, not of a run. *)
ConnectAgent(c) ==
    /\ cl[c].pc = "connect"
    /\ live # 0
    /\ conn = Nobody
    /\ stamp < MaxStamps
    /\ conn' = c
    /\ stamp' = stamp + 1
    /\ Ask("sync", stamp + 1)
    /\ cl' = [cl EXCEPT ![c].pc = "sync", ![c].sync = stamp + 1, ![c].tries = 0]
    /\ UNCHANGED <<live, runs, replies, agentGate, procs>>

(* What a synchronised client asks. *)
Question(c, auto) ==
    CASE c \in Readers -> [name |-> "info", arg |-> 0]
      [] c \in Execs /\ cl[c].pid # 0 -> [name |-> "status", arg |-> cl[c].pid]
      [] OTHER -> [name |-> IF auto THEN "osinfo" ELSE "exec", arg |-> c]

(* Mutant: the client does not wait for its number. *)
InSyncAtOnce(c) == TRUE

(* The number came back. *)
InSync(c) == Head(replies) = [name |-> "sync", of |-> cl[c].sync]

ReadSync(c, auto) ==
    /\ cl[c].pc = "sync" /\ conn = c
    /\ replies # <<>>
    /\ auto => c \in Execs /\ cl[c].pid = 0
    /\ IF InSync(c)
         THEN /\ cl' = [cl EXCEPT ![c].pc = IF auto THEN "osinfo" ELSE "answer"]
              /\ asked' = Append(asked, Question(c, auto))
              /\ replies' = Tail(replies)
              /\ UNCHANGED <<conn, agentGate>>
         ELSE IF cl[c].tries + 1 < SyncReplies
                THEN /\ cl' = [cl EXCEPT ![c].tries = @ + 1]
                     /\ replies' = Tail(replies)
                     /\ UNCHANGED <<asked, conn, agentGate>>
                ELSE Ends(c, "done", "failed") /\ UNCHANGED asked
    /\ UNCHANGED <<live, runs, stamp, procs>>

(* The shell: whatever guest-get-osinfo brings, or nothing in time, the command
   is sent on the same connection. *)
ChooseShell(c, late) ==
    /\ cl[c].pc = "osinfo" /\ conn = c
    /\ ~late => replies # <<>>
    /\ replies' = IF late THEN replies ELSE Tail(replies)
    /\ Ask("exec", c)
    /\ cl' = [cl EXCEPT ![c].pc = "answer"]
    /\ UNCHANGED <<live, runs, conn, agentGate, stamp, procs>>

(* The answer. A job that was launched publishes its pid and polls; the answer
   to a poll ends it or lets it sleep; any other answer is invalid. *)
ReadAnswer(c) ==
    /\ cl[c].pc = "answer" /\ conn = c
    /\ replies # <<>>
    /\ LET answer == Head(replies)
           next == [NoClient EXCEPT !.pc = "sleep", !.run = cl[c].run]
       IN CASE answer.name = "pid" /\ c \in Execs /\ cl[c].pid = 0 ->
                 cl' = [cl EXCEPT ![c] = [next EXCEPT !.pid = answer.of]]
            [] answer.name = "runs" /\ c \in Execs /\ cl[c].pid # 0 ->
                 cl' = [cl EXCEPT ![c] = [next EXCEPT !.pid = cl[c].pid]]
            [] answer.name = "exited" /\ c \in Execs /\ cl[c].pid # 0 ->
                 cl' = [cl EXCEPT ![c] = [next EXCEPT !.pc = "done", !.pid = cl[c].pid, !.result = "completed"]]
            [] answer.name = "info" /\ c \in Readers ->
                 cl' = [cl EXCEPT ![c] = [next EXCEPT !.pc = "check", !.from = answer.of]]
            [] OTHER -> cl' = [cl EXCEPT ![c] = [next EXCEPT !.pc = IF c \in Readers THEN "check" ELSE "done",
                                                             !.pid = cl[c].pid, !.result = "failed"]]
    /\ replies' = Tail(replies)
    /\ conn' = Nobody
    /\ agentGate' = GateAfter(c)
    /\ UNCHANGED <<live, runs, asked, stamp, procs>>

(* Two seconds without an answer, no agent, or a connection that broke. *)
AgentTimeout(c) ==
    /\ cl[c].pc \in {"connect", "sync", "answer"}
    /\ Ends(c, IF c \in Readers THEN "check" ELSE "done", "failed")
    /\ UNCHANGED <<live, runs, asked, stamp, procs>>

(* The deadline of the job. *)
ExecutionTimeout(j) ==
    /\ cl[j].pc = "sleep"
    /\ cl' = [cl EXCEPT ![j].pc = "done", ![j].result = "execution_timeout"]
    /\ UNCHANGED <<live, runs, channelVars, agentGate, stamp, procs>>

(* Ten minutes after its end a job is dropped by the next start. *)
EvictJob(j) ==
    /\ j \in Execs /\ cl[j].pc = "done"
    /\ cl' = [cl EXCEPT ![j] = NoClient]
    /\ UNCHANGED <<live, runs, channelVars, agentGate, stamp, procs>>

(* The reader looks at the run again before it answers. *)
CheckRun(r) ==
    /\ cl[r].pc = "check"
    /\ agentGate = Nobody
    /\ cl' = [cl EXCEPT ![r].pc = "done", ![r].result =
                IF live # cl[r].run THEN "run_changed"
                ELSE IF cl[r].from # 0 THEN "available" ELSE "not_responding"]
    /\ UNCHANGED <<live, runs, channelVars, agentGate, stamp, procs>>

GuestAgentNext ==
    \/ RunEnds \/ RunStarts
    \/ \E exited \in BOOLEAN : AgentAnswers(exited)
    \/ \E j \in Execs : StartExecution(j) \/ TakeGate(j) \/ ExecutionTimeout(j) \/ EvictJob(j)
    \/ \E r \in Readers : StartInformation(r) \/ CheckRun(r)
    \/ \E c \in AgentClients :
        \/ ConnectAgent(c) \/ ReadAnswer(c) \/ AgentTimeout(c)
        \/ \E auto \in BOOLEAN : ReadSync(c, auto)
        \/ \E late \in BOOLEAN : ChooseShell(c, late)

GuestAgentSpec == GuestAgentInit /\ [][GuestAgentNext]_agentVars

-----------------------------------------------------------------------------
(* A job follows the process of its own command in its own run, never that of
   a job whose client went away before the answer (Client::connect,
   run_execution_inner). *)
OwnProcess ==
    \A j \in Execs : cl[j].pid # 0 =>
        procs[cl[j].pid].job = j /\ procs[cl[j].pid].run = cl[j].run
=============================================================================
