----------------------------- MODULE Lifecycle -----------------------------
(***************************************************************************)
(* The life of one instance under the machineemu daemon: the rows of the   *)
(* workspace database, the QEMU and helper processes, the run supervisor   *)
(* and the tasks that share them.  Instance gates and rows are keyed by    *)
(* instance id, so instances do not interact here and one is enough.       *)
(*                                                                         *)
(* A client request is one task c: pc[c] is the step it takes next and     *)
(* trun[c] the run it works for.  Steps up to the next await, external     *)
(* effect or committed write are one action; every action with a pc in     *)
(* GatedPC runs while c holds the instance gate.                           *)
(***************************************************************************)
EXTENDS Naturals, FiniteSets

CONSTANTS
    Clients,    \* concurrent API requests
    Runs,       \* run ids the daemon may generate
    NoRun,      \* the absent run (None)
    Free,       \* the instance gate when nobody holds it
    Plans,      \* launch plans: where the helper is spawned relative to QEMU
    Requests,   \* the routes the clients call
    Faults,     \* which failures of the environment happen
    SameSecond  \* may two runs get the same one-second created_at?

ASSUME PlansAssumption == Plans # {} /\ Plans \subseteq {"none", "before", "after"}
ASSUME RequestsAssumption ==
    Requests \subseteq {"start", "restart", "stop", "pause", "resume", "reset",
                        "remove", "reconcile", "display"}
ASSUME FaultsAssumption ==
    Faults \subseteq {"exit", "crash", "qmp", "spawn", "database", "cleanup", "hang"}
ASSUME SameSecondAssumption == SameSecond \in BOOLEAN

VARIABLES
    lifecycle,   \* instances.lifecycle, "absent" when there is no row
    autoRemove,  \* auto_remove of the instance document
    plan,        \* the saved launch plan
    runs,        \* runs.status by run id, "none" when there is no row
    latest,      \* the run row inserted last
    op,          \* operations.status of the start operation of each run
    helperRows,  \* runs that have run_helpers rows
    proc,        \* the QEMU process of each run, with its guest state
    helper,      \* the helper process of each run
    up,          \* is a daemon running?
    owner,       \* run_id of the RunSupervisor in AppState.supervisors
    conn,        \* its QMP connection: none, owned child or recovered
    ownsHelpers, \* does it hold the helper handles of its run?
    watching,    \* its watching flag
    gate,        \* holder of the instance lock
    pc, trun, req,  \* the clients' tasks
    watcher,     \* process_watcher of each run
    reader       \* qmp_reader of each run

rows == <<lifecycle, autoRemove, plan, runs, latest, op, helperRows>>
procs == <<proc, helper>>
super == <<owner, conn, ownsHelpers, watching>>
tasks == <<gate, pc, trun, req>>
observers == <<watcher, reader>>
vars == <<rows, procs, up, super, tasks, observers>>

States == {"absent", "created", "starting", "running", "paused", "stopping",
           "stopped", "error"}
Statuses == {"none", "running", "uncertain", "exited", "failed"}
Startable == {"created", "stopped", "error"}
Busy == {"starting", "running", "paused", "stopping"}
Stoppable == {"running", "paused", "stopping"}

StartPC == {"helpers", "settle", "demote", "begin", "spawn", "record", "connect",
            "post", "publish", "install", "fail", "rollback"}
StopPC == {"ready", "quit", "conclude_exited", "conclude_failed", "teardown"}
GatedPC == StartPC \cup StopPC
PC == GatedPC \cup {"idle", "watch", "enlist", "cleanup", "stamp_running",
                    "stamp_uncertain", "video", "reconcile", "reconcile_bare"}

Reqs == {"none", "start", "restart", "stop", "pause", "resume", "reset"}

\* Who holds the gate: a client, or one of the loops of a run.
WatcherGate(r) == <<"watcher", r>>
ReaderGate(r) == <<"reader", r>>

ASSUME IdsDisjoint ==
    /\ NoRun \notin Runs /\ Free \notin Clients
    /\ \A r \in Runs : {WatcherGate(r), ReaderGate(r)} \cap (Clients \cup {Free}) = {}

-----------------------------------------------------------------------------
(* Rows and processes                                                      *)

Alive(r) == proc[r] \in {"running", "paused"}
HasRow(r) == runs[r] # "none"
LiveRow(r) == Alive(r) /\ HasRow(r)

Active(status) == {r \in Runs : status[r] \in {"running", "uncertain"}}

\* ORDER BY created_at DESC LIMIT 1: the newest row, unless created_at ties.
ActiveChoice(status) ==
    IF latest \in Active(status) /\ ~SameSecond THEN {latest} ELSE Active(status)

\* InstanceState::allows
Allows(from, to) ==
    \/ from \in Startable /\ to = "starting"
    \/ from = "starting" /\ to \in {"running", "paused", "error"}
    \/ from = "running" /\ to \in {"paused", "stopping", "error"}
    \/ from = "paused" /\ to \in {"running", "stopping", "error"}
    \/ from = "stopping" /\ to \in {"stopped", "error"}

\* reconcile_run: the status the recorded process identity justifies.
Observed(r) == IF Alive(r) THEN "running" ELSE "uncertain"
ReconcileRun(r) == runs' = [runs EXCEPT ![r] = Observed(r)]
FinishRun(r, status) == [runs EXCEPT ![r] = status]

\* The guarded demotion to error that every recovery path performs.
Demoted(state) == IF state \in Busy THEN "error" ELSE state

\* The statuses an owned child may end with: quit may succeed or need a kill.
ExitStatuses(r) ==
    CASE Alive(r) -> {"exited", "failed"}
      [] proc[r] = "exited" -> {"exited"}
      [] OTHER -> {"failed"}
\* Mutant: the run status is written to the instance row as it is.
ConcludedRaw(status) == status
Concluded(status) == IF status = "failed" THEN "error" ELSE "stopped"

Killed(r) == IF Alive(r) THEN [proc EXCEPT ![r] = "crashed"] ELSE proc
StopHelper(r) ==
    IF helper[r] = "alive" THEN [helper EXCEPT ![r] = "stopped"] ELSE helper

FailOperation(r) ==
    IF op[r] = "accepted" THEN [op EXCEPT ![r] = "failed"] ELSE op

Carried(r) == \E c \in Clients : trun[c] = r
Fresh(r) == /\ proc[r] = "none" /\ helper[r] = "none" /\ runs[r] = "none"
            /\ op[r] = "none" /\ ~Carried(r)

-----------------------------------------------------------------------------
(* Tasks                                                                   *)

Goto(c, step) == pc' = [pc EXCEPT ![c] = step]

Hold(c, step) == Goto(c, step) /\ UNCHANGED <<gate, trun, req>>

Return(c) == /\ pc' = [pc EXCEPT ![c] = "idle"]
             /\ trun' = [trun EXCEPT ![c] = NoRun]
             /\ req' = [req EXCEPT ![c] = "none"]

\* A gated handler returns and drops its guard.
Release(c) == Return(c) /\ gate' = Free

\* Mutant: the guard is kept while the error branch waits for the gate.
StartErrorHolding(c) ==
    \/ req[c] = "restart" /\ Release(c)
    \/ req[c] # "restart" /\ Goto(c, "cleanup") /\ UNCHANGED <<gate, trun, req>>

\* start_instance_with_lock returns an error: a plain start goes on to the
\* disposable cleanup, a restart still holds its own guard and returns.
StartError(c) ==
    \/ req[c] = "restart" /\ Release(c)
    \/ req[c] # "restart" /\ Goto(c, "cleanup") /\ gate' = Free /\ UNCHANGED <<trun, req>>

Acquire(c, step, run, request) ==
    /\ pc[c] = "idle" /\ gate = Free
    /\ gate' = c
    /\ pc' = [pc EXCEPT ![c] = step]
    /\ trun' = [trun EXCEPT ![c] = run]
    /\ req' = [req EXCEPT ![c] = request]

-----------------------------------------------------------------------------
(* The rows of an instance                                                 *)

\* Publication of a prepared instance; its crash points are in Store.
Create ==
    /\ up /\ gate = Free /\ lifecycle = "absent"
    /\ lifecycle' = "created"
    /\ autoRemove' \in BOOLEAN
    /\ plan' \in Plans
    /\ UNCHANGED <<runs, latest, op, helperRows, procs, up, super, tasks, observers>>

\* The transaction of remove_instance; deleting runs cascades to run_helpers.
DeleteRows ==
    /\ lifecycle' = "absent" /\ autoRemove' = FALSE /\ plan' = "none"
    /\ runs' = [r \in Runs |-> "none"]
    /\ op' = [r \in Runs |-> "none"]
    /\ latest' = NoRun /\ helperRows' = {}

\* Workspace::remove_instance: a dead active run is finished, and the state
\* forced to stopped, before the snapshot count may still refuse.
RemoveInstance(snapshots) ==
    \/ /\ Active(runs) = {}
       /\ IF lifecycle \in Startable /\ ~snapshots THEN DeleteRows ELSE UNCHANGED rows
    \/ \E a \in ActiveChoice(runs) :
          \/ /\ Alive(a) /\ ReconcileRun(a)
             /\ UNCHANGED <<lifecycle, autoRemove, plan, latest, op, helperRows>>
          \/ ~Alive(a) /\ ~snapshots /\ DeleteRows
          \/ /\ ~Alive(a) /\ snapshots
             /\ runs' = FinishRun(a, "failed") /\ lifecycle' = "stopped"
             /\ UNCHANGED <<autoRemove, plan, latest, op, helperRows>>

Remove(c) ==
    /\ up /\ "remove" \in Requests /\ pc[c] = "idle" /\ gate = Free
    /\ lifecycle # "absent"
    /\ \E snapshots \in (IF autoRemove THEN {FALSE} ELSE BOOLEAN) : RemoveInstance(snapshots)
    /\ UNCHANGED <<procs, up, super, tasks, observers>>

\* Disposable instances cannot take snapshots.
RemoveIfDisposable == IF autoRemove THEN RemoveInstance(FALSE) ELSE UNCHANGED rows

-----------------------------------------------------------------------------
(* start_instance_with_lock and Workspace::start_instance_async            *)

StartRequest(c) ==
    /\ up /\ "start" \in Requests /\ lifecycle # "absent"
    /\ \E r \in Runs : Fresh(r) /\ Acquire(c, "helpers", r, "start")
    /\ UNCHANGED <<rows, procs, up, super, observers>>

\* Files, VNC port and the helpers that run before QEMU.
StartHelpers(c) ==
    /\ pc[c] = "helpers"
    /\ \/ /\ helper' = IF plan = "before" THEN [helper EXCEPT ![trun[c]] = "alive"] ELSE helper
          /\ Hold(c, "settle")
       \/ "spawn" \in Faults /\ StartError(c) /\ UNCHANGED helper
    /\ UNCHANGED <<rows, proc, up, super, observers>>

\* Mutant: the previous active run is failed without looking at its process.
StartSettleBlind(c) ==
    /\ pc[c] = "settle"
    /\ \/ Active(runs) = {} /\ Hold(c, "begin") /\ UNCHANGED <<runs, helper>>
       \/ \E a \in ActiveChoice(runs) :
             runs' = FinishRun(a, "failed") /\ Hold(c, "demote") /\ UNCHANGED helper
    /\ UNCHANGED <<lifecycle, autoRemove, plan, latest, op, helperRows, proc, up, super, observers>>

\* The previous active run: refuse while its process lives, else fail it.
StartSettle(c) ==
    /\ pc[c] = "settle"
    /\ \/ Active(runs) = {} /\ Hold(c, "begin") /\ UNCHANGED <<runs, helper>>
       \/ \E a \in ActiveChoice(runs) :
             \/ /\ Alive(a) /\ ReconcileRun(a)
                /\ helper' = StopHelper(trun[c]) /\ StartError(c)
             \/ /\ ~Alive(a) /\ runs' = FinishRun(a, "failed")
                /\ Hold(c, "demote") /\ UNCHANGED helper
    /\ UNCHANGED <<lifecycle, autoRemove, plan, latest, op, helperRows, proc, up, super, observers>>

StartDemote(c) ==
    /\ pc[c] = "demote"
    /\ lifecycle' = Demoted(lifecycle)
    /\ Hold(c, "begin")
    /\ UNCHANGED <<autoRemove, plan, runs, latest, op, helperRows, procs, up, super, observers>>

\* begin_operation, then the transition to starting.
StartBegin(c) ==
    /\ pc[c] = "begin"
    /\ op' = [op EXCEPT ![trun[c]] = "accepted"]
    /\ \/ Allows(lifecycle, "starting") /\ lifecycle' = "starting" /\ Hold(c, "spawn")
       \/ ~Allows(lifecycle, "starting") /\ Hold(c, "fail") /\ UNCHANGED lifecycle
    /\ UNCHANGED <<autoRemove, plan, runs, latest, helperRows, procs, up, super, observers>>

\* A plan with helpers after QEMU starts the guest paused (-S).
StartSpawn(c) ==
    /\ pc[c] = "spawn"
    /\ \/ /\ proc' = [proc EXCEPT ![trun[c]] = IF plan = "after" THEN "paused" ELSE "running"]
          /\ Hold(c, "record")
       \/ "spawn" \in Faults /\ Hold(c, "fail") /\ UNCHANGED proc
    /\ UNCHANGED <<rows, helper, up, super, observers>>

\* record_run; on an error the dropped ManagedProcess kills the child.
StartRecord(c) ==
    /\ pc[c] = "record"
    /\ \/ /\ runs' = [runs EXCEPT ![trun[c]] = "running"]
          /\ latest' = trun[c]
          /\ Hold(c, "connect") /\ UNCHANGED proc
       \/ /\ "database" \in Faults /\ proc' = Killed(trun[c])
          /\ Hold(c, "fail") /\ UNCHANGED <<runs, latest>>
    /\ UNCHANGED <<lifecycle, autoRemove, plan, op, helperRows, helper, up, super, observers>>

\* QMP negotiation, query-status and the transition to the observed state.
StartConnect(c) ==
    LET r == trun[c]
        ready == Alive(r) /\ Allows(lifecycle, proc[r])
    IN  /\ pc[c] = "connect"
        /\ \/ ready /\ lifecycle' = proc[r] /\ Hold(c, "post") /\ UNCHANGED proc
           \/ /\ ~ready \/ "qmp" \in Faults
              /\ proc' = Killed(r)
              /\ Hold(c, "fail") /\ UNCHANGED lifecycle
        /\ UNCHANGED <<autoRemove, plan, runs, latest, op, helperRows, helper, up, super, observers>>

\* The error path of start_instance_async, then the caller's stop_all.
StartFail(c) ==
    LET r == trun[c]
    IN  /\ pc[c] = "fail"
        /\ op' = FailOperation(r)
        /\ runs' = IF HasRow(r) THEN FinishRun(r, "failed") ELSE runs
        /\ lifecycle' = IF lifecycle \in {"starting", "running", "paused"} THEN "error" ELSE lifecycle
        /\ helper' = StopHelper(r)
        /\ StartError(c)
        /\ UNCHANGED <<autoRemove, plan, latest, helperRows, proc, up, super, observers>>

\* Helpers after QEMU and the resume of the guest held by -S.
StartPost(c) ==
    LET r == trun[c]
    IN  /\ pc[c] = "post"
        /\ \/ plan # "after" /\ Hold(c, "publish") /\ UNCHANGED <<lifecycle, procs>>
           \/ /\ plan = "after" /\ Alive(r) /\ lifecycle = "paused"
              /\ helper' = [helper EXCEPT ![r] = "alive"]
              /\ proc' = [proc EXCEPT ![r] = "running"]
              /\ lifecycle' = "running"
              /\ Hold(c, "publish")
           \/ /\ plan = "after"
              /\ "spawn" \in Faults \/ ~Alive(r) \/ lifecycle # "paused"
              /\ Hold(c, "rollback") /\ UNCHANGED <<lifecycle, procs>>
        /\ UNCHANGED <<autoRemove, plan, runs, latest, op, helperRows, up, super, observers>>

\* rollback_failed_start: stop_instance_async where the state allows it, else
\* abort_owned_child and a failed run.
StartRollback(c) ==
    LET r == trun[c]
        stops == lifecycle \in Stoppable
    IN  /\ pc[c] = "rollback"
        /\ \E status \in IF stops THEN ExitStatuses(r) ELSE {"failed"} :
              /\ runs' = FinishRun(r, status)
              /\ lifecycle' = IF stops THEN Concluded(status) ELSE Demoted(lifecycle)
        /\ proc' = Killed(r)
        /\ helper' = StopHelper(r)
        /\ op' = FailOperation(r)
        /\ StartError(c)
        /\ UNCHANGED <<autoRemove, plan, latest, helperRows, up, super, observers>>

\* save_run_helpers and complete_operation: the publication of the run.
StartPublish(c) ==
    LET r == trun[c]
    IN  /\ pc[c] = "publish"
        /\ \/ /\ helperRows' = IF helper[r] = "alive" THEN helperRows \cup {r} ELSE helperRows
              /\ op' = [op EXCEPT ![r] = "completed"]
              /\ Hold(c, "install")
           \/ "database" \in Faults /\ Hold(c, "rollback") /\ UNCHANGED <<op, helperRows>>
        /\ UNCHANGED <<lifecycle, autoRemove, plan, runs, latest, procs, up, super, observers>>

\* supervisor::install, preserve_on_drop and the end of the gated part.  A
\* rejected install drops the connection and the helpers, which kills both.
StartInstall(c) ==
    LET r == trun[c]
    IN  /\ pc[c] = "install"
        /\ \/ /\ owner \in {NoRun, r}
              /\ owner' = r /\ conn' = "owned"
              /\ ownsHelpers' = (helper[r] = "alive" \/ (owner = r /\ ownsHelpers))
              /\ watching' = (owner = r /\ watching)
              /\ Goto(c, "watch") /\ UNCHANGED <<trun, req, procs>>
              /\ gate' = IF req[c] = "restart" THEN gate ELSE Free
           \/ /\ owner \notin {NoRun, r}
              /\ proc' = Killed(r) /\ helper' = StopHelper(r)
              /\ StartError(c) /\ UNCHANGED super
        /\ UNCHANGED <<rows, up, observers>>

\* Mutant: only the QMP reader is spawned.
ObserveReader(r) ==
    /\ reader' = [reader EXCEPT ![r] = IF @ = "off" THEN "poll" ELSE @]
    /\ UNCHANGED watcher

\* run_events::spawn starts both loops; a loop of the same run that is still
\* ending is not distinguished from the new one.
Observe(r) ==
    /\ watcher' = [watcher EXCEPT ![r] = IF @ = "off" THEN "poll" ELSE @]
    /\ reader' = [reader EXCEPT ![r] = IF @ = "off" THEN "poll" ELSE @]

\* After the guard is gone: read the active run ...
StartWatch(c) ==
    /\ pc[c] = "watch"
    /\ \/ /\ Active(runs) = {} /\ Return(c)
          /\ gate' = IF req[c] = "restart" THEN Free ELSE gate
       \/ \E a \in ActiveChoice(runs) :
             /\ trun' = [trun EXCEPT ![c] = a] /\ Goto(c, "enlist") /\ UNCHANGED <<req, gate>>
    /\ UNCHANGED <<rows, procs, up, super, observers>>

\* ... and run_events::spawn for it, which may insert a supervisor of its own.
StartEnlist(c) ==
    LET r == trun[c]
        enlists == owner = NoRun \/ (owner = r /\ ~watching)
    IN  /\ pc[c] = "enlist"
        /\ Return(c)
        /\ gate' = IF req[c] = "restart" THEN Free ELSE gate
        /\ IF enlists
           THEN /\ owner' = r /\ watching' = TRUE
                /\ Observe(r)
                /\ conn' = IF owner = NoRun THEN "none" ELSE conn
                /\ ownsHelpers' = (owner = r /\ ownsHelpers)
           ELSE UNCHANGED <<super, observers>>
        /\ UNCHANGED <<rows, procs, up>>

\* The error branch of the handler takes the gate again.
StartCleanup(c) ==
    /\ pc[c] = "cleanup" /\ gate = Free
    /\ IF Active(runs) = {} /\ lifecycle \in Startable
       THEN RemoveIfDisposable ELSE UNCHANGED rows
    /\ Return(c)
    /\ UNCHANGED <<procs, up, super, gate, observers>>

-----------------------------------------------------------------------------
(* lifecycle_action_with_lock and restart_instance                         *)

\* install of a recovered connection and the helpers its rows still name.
InstallRecovered(r) ==
    /\ owner \in {NoRun, r}
    /\ owner' = r /\ conn' = "recovered"
    /\ watching' = (owner = r /\ watching)

AdoptsHelpers(r) ==
    (r \in helperRows /\ helper[r] = "alive") \/ (owner = r /\ ownsHelpers)

\* Without a live run a stop succeeds in stopped and error, and a restart then
\* goes on to its start phase; everything else is an error.
NoLiveRun(c, state) ==
    IF req[c] = "restart" /\ state \in {"stopped", "error"}
    THEN Hold(c, "helpers") ELSE Release(c)

\* recover_instance_run_async when the supervisor has no connection, then the
\* install; every error returns at once.
Recover(c) ==
    \/ /\ Active(runs) = {} /\ NoLiveRun(c, lifecycle)
       /\ UNCHANGED <<lifecycle, runs, super>>
    \/ \E a \in ActiveChoice(runs) :
          \/ /\ ~Alive(a) /\ runs' = FinishRun(a, "failed")
             /\ lifecycle' = Demoted(lifecycle)
             /\ NoLiveRun(c, Demoted(lifecycle)) /\ UNCHANGED super
          \/ /\ Alive(a) /\ "qmp" \in Faults /\ ReconcileRun(a)
             /\ Release(c) /\ UNCHANGED <<lifecycle, super>>
          \/ /\ Alive(a) /\ ReconcileRun(a) /\ lifecycle' = proc[a]
             /\ \/ /\ InstallRecovered(a) /\ ownsHelpers' = AdoptsHelpers(a)
                   /\ Hold(c, "ready")
                \/ /\ owner \notin {NoRun, a} /\ Release(c) /\ UNCHANGED super

\* The request takes the gate and shares the supervisor's connection.
ActionRequest(c) ==
    /\ up /\ lifecycle # "absent"
    /\ \E request \in Requests \cap {"stop", "pause", "resume", "reset"} :
          Acquire(c, "ready", NoRun, request)
    /\ UNCHANGED <<rows, procs, up, super, observers>>

\* A restart of a stopped instance goes straight to the start phase.
RestartRequest(c) ==
    /\ up /\ "restart" \in Requests /\ lifecycle # "absent" /\ ~autoRemove
    /\ \E r \in Runs :
          /\ Fresh(r)
          /\ \/ lifecycle \in {"running", "paused"} /\ Acquire(c, "ready", r, "restart")
             \/ lifecycle \in Startable /\ Acquire(c, "helpers", r, "restart")
    /\ UNCHANGED <<rows, procs, up, super, observers>>

ActionRecover(c) ==
    /\ pc[c] = "ready" /\ conn = "none"
    /\ Recover(c)
    /\ UNCHANGED <<autoRemove, plan, latest, op, helperRows, procs, up, observers>>

\* An error on a recovered connection makes the daemon reconnect later.
Disconnect == conn' = (IF conn = "recovered" THEN "none" ELSE conn)
                /\ UNCHANGED <<owner, ownsHelpers, watching>>

\* pause and resume: QMP first, then the transition.
ActionPauseResume(c) ==
    LET target == IF req[c] = "pause" THEN "paused" ELSE "running"
        source == IF req[c] = "pause" THEN "running" ELSE "paused"
    IN  /\ pc[c] = "ready" /\ conn # "none" /\ req[c] \in {"pause", "resume"}
        /\ \/ /\ lifecycle = source /\ Alive(owner)
              /\ proc' = [proc EXCEPT ![owner] = target] /\ lifecycle' = target
              /\ UNCHANGED super
           \/ /\ lifecycle # source \/ ~Alive(owner) \/ "qmp" \in Faults
              /\ Disconnect /\ UNCHANGED <<proc, lifecycle>>
        /\ Release(c)
        /\ UNCHANGED <<autoRemove, plan, runs, latest, op, helperRows, helper, up, observers>>

ActionReset(c) ==
    /\ pc[c] = "ready" /\ conn # "none" /\ req[c] = "reset"
    /\ \/ lifecycle \in {"running", "paused"} /\ Alive(owner) /\ UNCHANGED super
       \/ /\ lifecycle \notin {"running", "paused"} \/ ~Alive(owner) \/ "qmp" \in Faults
          /\ Disconnect
    /\ Release(c)
    /\ UNCHANGED <<rows, procs, up, observers>>

\* stop_instance_async up to the QMP quit.
ActionStop(c) ==
    /\ pc[c] = "ready" /\ conn # "none" /\ req[c] \in {"stop", "restart"}
    /\ \/ lifecycle \in Stoppable /\ lifecycle' = "stopping" /\ Hold(c, "quit") /\ UNCHANGED super
       \/ lifecycle \notin Stoppable /\ Release(c) /\ Disconnect /\ UNCHANGED lifecycle
    /\ UNCHANGED <<autoRemove, plan, runs, latest, op, helperRows, procs, up, observers>>

ConcludePC(status) == IF status = "failed" THEN "conclude_failed" ELSE "conclude_exited"

StopError(c) == Release(c) /\ Disconnect

\* finish_run, which fails when the run was deleted with its instance.
Finish(c, r, status) ==
    IF HasRow(r)
    THEN runs' = FinishRun(r, status) /\ Hold(c, ConcludePC(status)) /\ UNCHANGED super
    ELSE StopError(c) /\ UNCHANGED runs

\* Mutant: the exit of an adopted process is not awaited after quit.
ActionQuitUnawaited(c) ==
    /\ pc[c] = "quit"
    /\ \/ /\ conn = "owned" /\ proc' = Killed(owner)
          /\ \E status \in ExitStatuses(owner) : Finish(c, owner, status)
       \/ conn = "recovered" /\ Finish(c, owner, "exited") /\ UNCHANGED proc
    /\ UNCHANGED <<lifecycle, autoRemove, plan, latest, op, helperRows, helper, up, observers>>

\* An owned child is terminated when quit fails or takes ten seconds; an
\* adopted process is left alone and the request fails in stopping.
ActionQuit(c) ==
    /\ pc[c] = "quit"
    /\ \/ /\ conn = "owned" /\ proc' = Killed(owner)
          /\ \E status \in ExitStatuses(owner) : Finish(c, owner, status)
       \/ /\ conn = "recovered" /\ Alive(owner)
          /\ proc' = [proc EXCEPT ![owner] = "exited"]
          /\ Finish(c, owner, "exited")
       \/ /\ conn = "recovered"
          /\ ~Alive(owner) \/ Faults \cap {"qmp", "hang"} # {}
          /\ StopError(c) /\ UNCHANGED <<runs, proc>>
    /\ UNCHANGED <<lifecycle, autoRemove, plan, latest, op, helperRows, helper, up, observers>>

\* finish_run is committed; now the instance row follows, unless the state was
\* changed in between.
ActionConclude(c) ==
    LET target == IF pc[c] = "conclude_failed" THEN "error" ELSE "stopped"
    IN  /\ pc[c] \in {"conclude_exited", "conclude_failed"}
        /\ \/ /\ Allows(lifecycle, target) /\ lifecycle' = target
              /\ Hold(c, "teardown") /\ UNCHANGED super
           \/ ~Allows(lifecycle, target) /\ StopError(c) /\ UNCHANGED lifecycle
        /\ UNCHANGED <<autoRemove, plan, runs, latest, op, helperRows, procs, up, observers>>

\* Mutant: the helper handles are dropped instead of stopped.
TeardownForgets(r, cleaned) ==
    IF owner \in {NoRun, r}
    THEN /\ owner' = NoRun /\ conn' = "none" /\ ownsHelpers' = FALSE /\ watching' = FALSE
         /\ cleaned /\ UNCHANGED helper
    ELSE cleaned /\ UNCHANGED <<super, helper>>

\* supervisor::teardown.  Returns whether every helper was stopped.
Teardown(r, cleaned) ==
    IF owner \in {NoRun, r}
    THEN /\ owner' = NoRun /\ conn' = "none" /\ ownsHelpers' = FALSE /\ watching' = FALSE
         /\ IF owner = r /\ ownsHelpers
            THEN /\ cleaned \/ "cleanup" \in Faults
                 /\ helper' = IF cleaned THEN StopHelper(r) ELSE helper
            ELSE cleaned /\ UNCHANGED helper
    ELSE cleaned /\ UNCHANGED <<super, helper>>

ActionTeardown(c) ==
    /\ pc[c] = "teardown"
    /\ \E cleaned \in BOOLEAN :
          /\ Teardown(owner, cleaned)
          /\ IF cleaned /\ req[c] = "stop" THEN RemoveIfDisposable ELSE UNCHANGED rows
          /\ IF cleaned /\ req[c] = "restart" THEN Hold(c, "helpers") ELSE Release(c)
    /\ UNCHANGED <<proc, up, observers>>

-----------------------------------------------------------------------------
(* run_events: the loops that observe a run                                *)

\* Both loops have ended: the supervisor of the run is no longer watched.
LoopEnds(r, other) ==
    watching' = IF owner = r /\ other = "off" THEN FALSE ELSE watching

\* One tick of process_watcher on a run it need not act on.
WatcherSkip(r) ==
    /\ watcher[r] = "poll" /\ gate = Free
    /\ \/ r \notin Active(runs)
       \/ conn # "none" /\ owner # r
    /\ watcher' = [watcher EXCEPT ![r] = "off"]
    /\ LoopEnds(r, reader[r])
    /\ UNCHANGED <<rows, procs, up, owner, conn, ownsHelpers, tasks, reader>>

\* An adopted process has no exit status: its exit counts as a failure.
WatcherExit(r) ==
    LET status == IF conn = "owned" /\ proc[r] = "exited" THEN "exited" ELSE "failed"
    IN  /\ watcher[r] = "poll" /\ gate = Free
        /\ r \in Active(runs) /\ ~Alive(r)
        /\ conn # "none" => owner = r
        /\ \/ /\ Teardown(r, TRUE)
              /\ runs' = FinishRun(r, status)
              /\ watcher' = [watcher EXCEPT ![r] = status]
              /\ gate' = WatcherGate(r) /\ UNCHANGED lifecycle
           \/ /\ Teardown(r, FALSE)
              /\ runs' = FinishRun(r, "uncertain")
              /\ lifecycle' = Demoted(lifecycle)
              /\ watcher' = [watcher EXCEPT ![r] = "off"]
              /\ UNCHANGED gate
        /\ UNCHANGED <<autoRemove, plan, latest, op, helperRows, proc, up, pc, trun, req, reader>>

\* finish_run is committed; now the instance row follows.
WatcherSettle(r) ==
    /\ watcher[r] \in {"exited", "failed"}
    /\ lifecycle' = CASE watcher[r] = "exited" /\ lifecycle \in {"running", "paused"} -> "stopped"
                      [] OTHER -> Demoted(lifecycle)
    /\ watcher' = [watcher EXCEPT ![r] = "dispose"]
    /\ UNCHANGED <<autoRemove, plan, runs, latest, op, helperRows, procs, up, super, tasks, reader>>

\* Mutant: only an operator stop deletes a disposable instance.
WatcherDisposeKeeps(r) ==
    /\ watcher[r] = "dispose"
    /\ watcher' = [watcher EXCEPT ![r] = "off"]
    /\ LoopEnds(r, reader[r])
    /\ gate' = Free
    /\ UNCHANGED <<rows, procs, up, owner, conn, ownsHelpers, pc, trun, req, reader>>

WatcherDispose(r) ==
    /\ watcher[r] = "dispose"
    /\ RemoveIfDisposable
    /\ watcher' = [watcher EXCEPT ![r] = "off"]
    /\ LoopEnds(r, reader[r])
    /\ gate' = Free
    /\ UNCHANGED <<procs, up, owner, conn, ownsHelpers, pc, trun, req, reader>>

\* is_current, without the gate.
ReaderPoll(r) ==
    /\ reader[r] = "poll"
    /\ \/ /\ r \in ActiveChoice(runs)
          /\ reader' = [reader EXCEPT ![r] = "query"] /\ UNCHANGED watching
       \/ /\ ActiveChoice(runs) # {r}
          /\ reader' = [reader EXCEPT ![r] = "off"] /\ LoopEnds(r, watcher[r])
    /\ UNCHANGED <<rows, procs, up, owner, conn, ownsHelpers, tasks, watcher>>

\* supervisor::qmp and query-status under the gate.  The gate stays held until
\* the observed status is applied.
ReaderQuery(r) ==
    /\ reader[r] = "query" /\ gate = Free
    /\ \/ /\ Alive(r) /\ owner \in (IF conn = "none" THEN {NoRun, r} ELSE {r})
          /\ IF conn = "none" THEN InstallRecovered(r) ELSE UNCHANGED <<owner, conn, watching>>
          /\ ownsHelpers' = (owner = r /\ ownsHelpers)
          /\ reader' = [reader EXCEPT ![r] = proc[r]]
          /\ gate' = ReaderGate(r)
       \/ /\ ~Alive(r) \/ owner \notin {NoRun, r} \/ "qmp" \in Faults
          /\ conn' = IF owner = r THEN "none" ELSE conn
          /\ reader' = [reader EXCEPT ![r] = "poll"]
          /\ UNCHANGED <<gate, owner, ownsHelpers, watching>>
    /\ UNCHANGED <<rows, procs, up, pc, trun, req, watcher>>

\* apply_status_locked and observe_run_status: any state may be overwritten,
\* but only for the active run and while its process identity matches.
ReaderApply(r) ==
    /\ reader[r] \in {"running", "paused"}
    /\ \/ r \in ActiveChoice(runs) /\ Alive(r) /\ lifecycle' = reader[r]
       \/ ActiveChoice(runs) # {r} /\ UNCHANGED lifecycle
       \/ ~Alive(r) /\ UNCHANGED lifecycle
    /\ reader' = [reader EXCEPT ![r] = "poll"]
    /\ gate' = Free
    /\ UNCHANGED <<autoRemove, plan, runs, latest, op, helperRows, procs, up, super, pc, trun, req,
                   watcher>>

-----------------------------------------------------------------------------
(* Routes that read a run before they take the gate                        *)

\* live_run without the gate: the active run and its process are sampled ...
DisplayRequest(c) ==
    /\ up /\ "display" \in Requests /\ pc[c] = "idle"
    /\ \E a \in ActiveChoice(runs) :
          /\ trun' = [trun EXCEPT ![c] = a]
          /\ Goto(c, IF Alive(a) THEN "stamp_running" ELSE "stamp_uncertain")
    /\ UNCHANGED <<rows, procs, up, super, gate, req, observers>>

\* ... and its status is written by a later statement.
DisplayStamp(c) ==
    LET a == trun[c]
        status == IF pc[c] = "stamp_running" THEN "running" ELSE "uncertain"
    IN  /\ pc[c] \in {"stamp_running", "stamp_uncertain"}
        /\ runs' = IF HasRow(a) THEN [runs EXCEPT ![a] = status] ELSE runs
        /\ IF status = "running" /\ HasRow(a)
           THEN Goto(c, "video") /\ UNCHANGED <<trun, req>> ELSE Return(c)
        /\ UNCHANGED <<lifecycle, autoRemove, plan, latest, op, helperRows, procs, up, super,
                       gate, observers>>

\* video_endpoint: the supervisor of the sampled run is looked up or inserted,
\* then its QMP connection is used.
DisplayVideo(c) ==
    LET a == trun[c]
        mine == owner \in {NoRun, a}
    IN  /\ pc[c] = "video" /\ gate = Free
        /\ Return(c)
        /\ owner' = IF mine THEN a ELSE owner
        /\ conn' \in IF mine /\ conn = "none" /\ Alive(a) THEN {"recovered"} \cup
                          (IF "qmp" \in Faults THEN {"none"} ELSE {}) ELSE {conn}
        /\ UNCHANGED <<rows, procs, up, ownsHelpers, watching, gate, observers>>

\* The reconcile route lists the instances, then takes the gates it listed.
ReconcileRequest(c) ==
    /\ up /\ "reconcile" \in Requests /\ pc[c] = "idle"
    /\ Goto(c, IF lifecycle = "absent" THEN "reconcile_bare" ELSE "reconcile")
    /\ UNCHANGED <<rows, procs, up, super, gate, trun, req, observers>>

\* reconcile_active_runs
Reconciled == [r \in Runs |-> IF r \in Active(runs) THEN Observed(r) ELSE runs[r]]
ReconciledState ==
    IF \E r \in Runs : Reconciled[r] = "uncertain" THEN Demoted(lifecycle) ELSE lifecycle

\* Mutant: only operations that can be completed are resolved.
ReconcileOperationsCompleted(state, status) ==
    LET completes == /\ state \in {"running", "paused"}
                     /\ \E a \in ActiveChoice(status) : status[a] = "running"
    IN  op' = [r \in Runs |-> IF op[r] = "accepted" /\ completes THEN "completed" ELSE op[r]]

\* reconcile_operations
ReconcileOperations(state, status) ==
    LET completes == /\ state \in {"running", "paused"}
                     /\ \E a \in ActiveChoice(status) : status[a] = "running"
    IN  op' = [r \in Runs |-> CASE op[r] # "accepted" -> op[r]
                                [] op[r] = "accepted" /\ completes -> "completed"
                                [] OTHER -> "failed"]

Reconcile(c) ==
    /\ pc[c] \in {"reconcile", "reconcile_bare"}
    /\ pc[c] = "reconcile" => gate = Free
    /\ runs' = Reconciled
    /\ lifecycle' = ReconciledState
    /\ ReconcileOperations(ReconciledState, Reconciled)
    /\ Return(c)
    /\ UNCHANGED <<autoRemove, plan, latest, helperRows, procs, up, super, gate, observers>>

-----------------------------------------------------------------------------
(* The environment and the daemon's own life                               *)

VmExit(r) ==
    /\ "exit" \in Faults /\ Alive(r)
    /\ \E how \in {"exited", "crashed"} : proc' = [proc EXCEPT ![r] = how]
    /\ UNCHANGED <<rows, helper, up, super, tasks, observers>>

\* The daemon is killed: nothing is dropped, processes and rows stay.
Crash ==
    /\ "crash" \in Faults /\ up
    /\ up' = FALSE
    /\ owner' = NoRun /\ conn' = "none" /\ ownsHelpers' = FALSE /\ watching' = FALSE
    /\ gate' = Free
    /\ pc' = [c \in Clients |-> "idle"]
    /\ trun' = [c \in Clients |-> NoRun]
    /\ req' = [c \in Clients |-> "none"]
    /\ watcher' = [r \in Runs |-> "off"]
    /\ reader' = [r \in Runs |-> "off"]
    /\ UNCHANGED <<rows, procs>>

\* serve: reconcile the runs, query the live one (QMP may not answer yet),
\* reconcile the operations, then own and watch what is still running.
BootRecover(a) ==
    \/ /\ Alive(a) /\ lifecycle' = proc[a] /\ runs' = Reconciled
    \/ /\ Alive(a) /\ "qmp" \in Faults /\ lifecycle' = ReconciledState /\ runs' = Reconciled
    \/ /\ ~Alive(a) /\ lifecycle' = Demoted(ReconciledState)
       /\ runs' = [Reconciled EXCEPT ![a] = "failed"]

Boot ==
    LET live == {r \in Runs : Reconciled[r] = "running"}
    IN  /\ ~up /\ up' = TRUE
        /\ \/ /\ live = {} /\ runs' = Reconciled /\ lifecycle' = ReconciledState
              /\ UNCHANGED <<super, observers>>
           \/ \E r \in live :
                 /\ \E a \in ActiveChoice(Reconciled) : BootRecover(a)
                 /\ owner' = r /\ conn' = "none" /\ watching' = TRUE
                 /\ ownsHelpers' = (r \in helperRows /\ helper[r] = "alive")
                 /\ Observe(r)
        /\ ReconcileOperations(lifecycle', runs')
        /\ UNCHANGED <<autoRemove, plan, latest, helperRows, procs, tasks>>

-----------------------------------------------------------------------------
Init ==
    /\ lifecycle = "absent" /\ autoRemove = FALSE /\ plan = "none"
    /\ runs = [r \in Runs |-> "none"] /\ latest = NoRun
    /\ op = [r \in Runs |-> "none"] /\ helperRows = {}
    /\ proc = [r \in Runs |-> "none"] /\ helper = [r \in Runs |-> "none"]
    /\ up = TRUE
    /\ owner = NoRun /\ conn = "none" /\ ownsHelpers = FALSE /\ watching = FALSE
    /\ gate = Free
    /\ pc = [c \in Clients |-> "idle"]
    /\ trun = [c \in Clients |-> NoRun]
    /\ req = [c \in Clients |-> "none"]
    /\ watcher = [r \in Runs |-> "off"]
    /\ reader = [r \in Runs |-> "off"]

StartSteps(c) ==
    \/ StartHelpers(c) \/ StartSettle(c) \/ StartDemote(c) \/ StartBegin(c) \/ StartSpawn(c)
    \/ StartRecord(c) \/ StartConnect(c) \/ StartFail(c) \/ StartPost(c) \/ StartRollback(c)
    \/ StartPublish(c) \/ StartInstall(c) \/ StartWatch(c) \/ StartEnlist(c) \/ StartCleanup(c)

ActionSteps(c) ==
    \/ ActionRecover(c) \/ ActionPauseResume(c) \/ ActionReset(c) \/ ActionStop(c)
    \/ ActionQuit(c) \/ ActionConclude(c) \/ ActionTeardown(c)

OtherSteps(c) == DisplayStamp(c) \/ DisplayVideo(c) \/ Reconcile(c)

ClientRequest(c) ==
    \/ StartRequest(c) \/ RestartRequest(c) \/ ActionRequest(c) \/ Remove(c)
    \/ DisplayRequest(c) \/ ReconcileRequest(c)

ClientStep(c) == StartSteps(c) \/ ActionSteps(c) \/ OtherSteps(c)

WatcherStep(r) == WatcherSkip(r) \/ WatcherExit(r) \/ WatcherSettle(r) \/ WatcherDispose(r)
ReaderStep(r) == ReaderPoll(r) \/ ReaderQuery(r) \/ ReaderApply(r)

Next ==
    \/ Create \/ Crash \/ Boot
    \/ \E c \in Clients : ClientRequest(c) \/ ClientStep(c)
    \/ \E r \in Runs : WatcherStep(r) \/ ReaderStep(r) \/ VmExit(r)

Spec == Init /\ [][Next]_vars

\* tokio mutexes queue their waiters in order, so a task that asks for the gate
\* again and again gets it: strong fairness for the steps that wait for it.
Fairness ==
    /\ WF_vars(Boot)
    /\ \A c \in Clients : SF_vars(ClientStep(c))
    /\ \A r \in Runs : SF_vars(WatcherStep(r)) /\ SF_vars(ReaderStep(r))

FairSpec == Spec /\ Fairness

-----------------------------------------------------------------------------
(* Properties                                                              *)

RowsOK ==
    /\ lifecycle \in States /\ autoRemove \in BOOLEAN
    /\ plan \in {"none", "before", "after"}
    /\ runs \in [Runs -> Statuses] /\ latest \in Runs \cup {NoRun}
    /\ op \in [Runs -> {"none", "accepted", "completed", "failed"}]
    /\ helperRows \subseteq Runs

ProcsOK ==
    /\ proc \in [Runs -> {"none", "running", "paused", "exited", "crashed"}]
    /\ helper \in [Runs -> {"none", "alive", "stopped"}]

SuperOK ==
    /\ owner \in Runs \cup {NoRun} /\ conn \in {"none", "owned", "recovered"}
    /\ ownsHelpers \in BOOLEAN /\ watching \in BOOLEAN

TasksOK ==
    /\ gate \in {Free} \cup Clients \cup {WatcherGate(r) : r \in Runs}
                       \cup {ReaderGate(r) : r \in Runs}
    /\ pc \in [Clients -> PC] /\ trun \in [Clients -> Runs \cup {NoRun}]
    /\ req \in [Clients -> Reqs]

ObserversOK ==
    /\ watcher \in [Runs -> {"off", "poll", "exited", "failed", "dispose"}]
    /\ reader \in [Runs -> {"off", "poll", "query", "running", "paused"}]

\* Every variable keeps its type: the rows only hold the states and statuses of
\* the schema, and every run named by a row, a supervisor or a task is a run id.
TypeOK == RowsOK /\ ProcsOK /\ up \in BOOLEAN /\ SuperOK /\ TasksOK /\ ObserversOK

\* Two recorded QEMU processes never share the disk of one instance: a start
\* refuses a live active run, and finish_run and remove_instance never hide one
\* from active_run while its process lives, whoever crashes or races.
OneVm == \A r, s \in Runs : LiveRow(r) /\ LiveRow(s) => r = s

\* A state in which snapshots, clones, edits of the document and deletion are
\* allowed (created, stopped) never has a live recorded QEMU behind it.
StoppedIsDead == lifecycle \in {"absent", "created", "stopped"} => \A r \in Runs : ~LiveRow(r)

\* No path writes a terminal status on a run whose process is alive, so recovery
\* after a restart finds every recorded process.
LiveIsActive == \A r \in Runs : LiveRow(r) => r \in Active(runs)

Starting(r) == \E c \in Clients : trun[c] = r /\ pc[c] \in StartPC

\* Outside its own start, a live recorded VM is the run its supervisor owns, so
\* stop, pause and the watcher act on it and not on a predecessor.
LiveIsSupervised == up => \A r \in Runs : LiveRow(r) /\ ~Starting(r) => owner = r

\* A live recorded VM that no start is still publishing has a process_watcher, so
\* its exit will be noticed.
LiveIsWatched ==
    up => \A r \in Runs : LiveRow(r) /\ ~Carried(r) => watcher[r] # "off"

\* An accepted start operation always has a task that will settle it: crashes
\* leave none behind once the daemon is up again (reconcile_operations).
AcceptedInFlight == up => \A r \in Runs : op[r] = "accepted" => Starting(r)

\* Without crashes of the daemon no QEMU process is ever lost: there is at most
\* one per instance, recorded or not.
OneProcess == \A r, s \in Runs : Alive(r) /\ Alive(s) => r = s

\* Once a start is completed, its helpers are only stopped after its QEMU is
\* gone: a stale watcher or a request for another run cannot take them away.
HelpersOutliveVm ==
    [][\A r \in Runs : /\ op[r] = "completed" /\ helper[r] = "alive"
                       /\ helper'[r] = "stopped"
                       => proc'[r] \in {"exited", "crashed"}]_vars

\* Every request returns: no step waits for ever on the gate or on itself.
RequestsReturn == \A c \in Clients : pc[c] # "idle" ~> pc[c] = "idle"

\* A disposable instance is deleted after its QEMU exits, whether an operator
\* stopped it, the guest shut down or the process died.
DisposableRemoved ==
    \A r \in Runs : /\ autoRemove /\ owner = r /\ r \in Active(runs)
                    /\ proc[r] \in {"exited", "crashed"}
                    ~> lifecycle = "absent"

\* The helpers a supervisor owns are stopped after their QEMU has exited.
HelpersCleanedUp ==
    \A r \in Runs : owner = r /\ ownsHelpers /\ proc[r] \in {"exited", "crashed"}
                    ~> helper[r] # "alive"

=============================================================================
