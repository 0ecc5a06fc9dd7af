-------------------------- MODULE LifecycleProofs --------------------------
(***************************************************************************)
(* Proofs about Lifecycle, for every set of clients, runs, launch plans,   *)
(* routes and faults, crashes of the daemon included.                      *)
(***************************************************************************)
EXTENDS Lifecycle, TLAPS

-----------------------------------------------------------------------------
(* The inductive invariant                                                 *)

\* The steps between the settlement of the previous run and record_run, and the
\* steps after the process of the stopped run is known to be gone.
DeadPC == {"demote", "begin", "spawn", "record", "fail", "conclude_exited",
           "conclude_failed", "teardown"}

\* A start that has not recorded its run yet; a restart carries the run it will
\* start through its stop phase.
BeforeRecord(c) ==
    \/ pc[c] \in {"helpers", "settle", "demote", "begin", "spawn", "record"}
    \/ pc[c] \in StopPC /\ req[c] = "restart"

AfterRecord(c) == pc[c] \in {"connect", "post", "publish", "install", "rollback"}

\* The gate excludes: a task between acquisition and release is its holder.
GateInv ==
    /\ \A c \in Clients : /\ \/ pc[c] \in GatedPC
                             \/ req[c] = "restart" /\ pc[c] \in {"watch", "enlist"}
                          => gate = c
    /\ \A r \in Runs : watcher[r] \in {"exited", "failed", "dispose"} => gate = WatcherGate(r)
    /\ \A r \in Runs : reader[r] \in {"running", "paused"} => gate = ReaderGate(r)

\* A daemon that is down has no task.
DownInv ==
    ~up => /\ \A c \in Clients : pc[c] = "idle"
           /\ \A r \in Runs : watcher[r] = "off" /\ reader[r] = "off"

\* The run a start carries has no row before record_run and the last one after.
CarriedInv ==
    \A c \in Clients :
       /\ BeforeRecord(c) => trun[c] \in Runs /\ runs[trun[c]] = "none"
       /\ AfterRecord(c) => trun[c] \in Runs /\ trun[c] = latest

NoLive == \A r \in Runs : ~LiveRow(r)

DeadInv ==
    /\ \A c \in Clients : pc[c] \in DeadPC => NoLive
    /\ \A r \in Runs : watcher[r] = "exited" => NoLive

\* The state a start has written stays busy or error until it records its run.
StartingInv ==
    \A c \in Clients : pc[c] \in {"spawn", "record"}
                       => lifecycle \notin {"absent", "created", "stopped"}

\* The only recorded process that may live is the newest.
LiveIsLatest == \A r \in Runs : LiveRow(r) => r = latest

IInv == /\ TypeOK /\ GateInv /\ DownInv /\ CarriedInv /\ DeadInv /\ StartingInv
        /\ LiveIsActive /\ LiveIsLatest /\ StoppedIsDead /\ LiveIsSupervised

-----------------------------------------------------------------------------
(* Type correctness                                                        *)

\* The run of a start is a run id from the request to the install.
CarriesRun ==
    \A c \in Clients : \/ pc[c] \in StartPC
                       \/ pc[c] \in StopPC /\ req[c] = "restart"
                       => trun[c] \in Runs

TInv == TypeOK /\ CarriesRun

USE DEF States, Statuses, Reqs, PC, GatedPC, StartPC, StopPC, rows, procs, super, tasks, observers

LEMMA RemoveTypes ==
    ASSUME RowsOK, NEW snapshots, RemoveInstance(snapshots) PROVE RowsOK'
<1>1. ASSUME DeleteRows PROVE RowsOK'
  BY <1>1 DEF RowsOK, DeleteRows
<1>2. ASSUME NEW a \in Active(runs), NEW status \in Statuses, runs' = [runs EXCEPT ![a] = status],
             lifecycle' \in States, UNCHANGED <<autoRemove, plan, latest, op, helperRows>>
      PROVE  RowsOK'
  BY <1>2 DEF RowsOK
<1>3. ActiveChoice(runs) \subseteq Active(runs)
  BY DEF ActiveChoice
<1>4. CASE UNCHANGED rows
  BY <1>4 DEF RowsOK
<1>5. lifecycle \in States
  BY DEF RowsOK
<1> QED
  BY <1>1, <1>2, <1>3, <1>4, <1>5 DEF RemoveInstance, ReconcileRun, Observed, FinishRun

LEMMA DisposeTypes ==
    ASSUME RowsOK, RemoveIfDisposable PROVE RowsOK'
BY RemoveTypes DEF RemoveIfDisposable, RowsOK

LEMMA TeardownTypes ==
    ASSUME SuperOK, ProcsOK, NEW r, NEW cleaned, Teardown(r, cleaned)
    PROVE  SuperOK' /\ helper' \in [Runs -> {"none", "alive", "stopped"}]
<1>1. helper' \in [Runs -> {"none", "alive", "stopped"}]
  BY DEF Teardown, ProcsOK, StopHelper
<1>2. SuperOK'
  BY Zenon DEF Teardown, SuperOK
<1> QED BY <1>1, <1>2

LEMMA LoopEndsTypes ==
    ASSUME watching \in BOOLEAN, NEW r, NEW other, LoopEnds(r, other)
    PROVE  watching' \in BOOLEAN
BY Zenon DEF LoopEnds

\* What StartError leaves of the tasks.
LEMMA StartErrorTypes ==
    ASSUME TasksOK, CarriesRun, NEW c \in Clients, StartError(c)
    PROVE  TasksOK' /\ CarriesRun'
BY DEF TasksOK, CarriesRun, StartError, Release, Return, Goto


LEMMA TypeStutter ==
    ASSUME TInv, UNCHANGED vars PROVE TInv'
BY DEF vars, TInv, TypeOK, RowsOK, ProcsOK, SuperOK, TasksOK, ObserversOK, CarriesRun

LEMMA TypeStartInstall ==
    ASSUME TInv, NEW c \in Clients, StartInstall(c)
    PROVE  TInv'
<1> USE DEF TInv, TypeOK
<1>1. CASE owner \in {NoRun, trun[c]} /\ owner' = trun[c]
  <2>1. PICK b \in BOOLEAN, d \in BOOLEAN : ownsHelpers' = b /\ watching' = d
    BY Zenon, <1>1 DEF StartInstall, SuperOK
  <2>2. SuperOK' /\ RowsOK' /\ ObserversOK' /\ up' \in BOOLEAN
    BY <1>1, <2>1 DEF StartInstall, SuperOK, RowsOK, ObserversOK, TasksOK
  <2> QED BY <1>1, <2>2 DEF StartInstall, Goto, TasksOK, ProcsOK, CarriesRun
<1>2. CASE StartError(c) /\ UNCHANGED super /\ proc' = Killed(trun[c]) /\ helper' = StopHelper(trun[c])
  <2>1. TasksOK' /\ CarriesRun'
    BY <1>2, StartErrorTypes
  <2>2. ProcsOK'
    BY <1>2 DEF ProcsOK, Killed, StopHelper
  <2> QED BY <1>2, <2>1, <2>2 DEF StartInstall, SuperOK, RowsOK, ObserversOK
<1> QED BY <1>1, <1>2 DEF StartInstall

LEMMA TypeStartEnlist ==
    ASSUME TInv, NEW c \in Clients, StartEnlist(c)
    PROVE  TInv'
<1> USE DEF TInv, TypeOK
<1>1. PICK b \in BOOLEAN, d \in BOOLEAN : ownsHelpers' = b /\ watching' = d
  BY Zenon DEF StartEnlist, SuperOK
<1>2. SuperOK'
  BY <1>1 DEF StartEnlist, SuperOK, TasksOK
<1> QED BY <1>2 DEF StartEnlist, Return, Observe, TasksOK, ProcsOK, RowsOK, ObserversOK, CarriesRun

LEMMA TypeStartCleanup ==
    ASSUME TInv, NEW c \in Clients, StartCleanup(c)
    PROVE  TInv'
<1> USE DEF TInv, TypeOK
<1>1. RowsOK'
  BY DisposeTypes DEF StartCleanup, RowsOK
<1> QED BY <1>1 DEF StartCleanup, Return, ProcsOK, SuperOK, TasksOK, ObserversOK, CarriesRun

LEMMA TypeActionRecover ==
    ASSUME TInv, NEW c \in Clients, ActionRecover(c)
    PROVE  TInv'
<1> USE DEF TInv, TypeOK
<1>1. ActiveChoice(runs) \subseteq Runs
  BY DEF ActiveChoice, Active
<1>2. RowsOK'
  BY <1>1 DEF ActionRecover, Recover, ReconcileRun, Observed, FinishRun, Demoted, Alive, RowsOK
<1>3. SuperOK'
  <2>1. CASE UNCHANGED super
    BY <2>1 DEF SuperOK
  <2>2. ASSUME NEW a \in Runs, InstallRecovered(a), ownsHelpers' = AdoptsHelpers(a) PROVE SuperOK'
    <3>1. PICK b \in BOOLEAN, d \in BOOLEAN : ownsHelpers' = b /\ watching' = d
      BY Zenon, <2>2 DEF InstallRecovered, AdoptsHelpers, SuperOK
    <3> QED BY <2>2, <3>1 DEF InstallRecovered, SuperOK
  <2> QED BY Zenon, <1>1, <2>1, <2>2 DEF ActionRecover, Recover
<1>4. TasksOK' /\ CarriesRun'
  <2>1. Release(c) \/ Hold(c, "ready") \/ (req[c] = "restart" /\ Hold(c, "helpers"))
    BY Zenon DEF ActionRecover, Recover, NoLiveRun
  <2> QED BY <2>1 DEF ActionRecover, Hold, Goto, Release, Return, TasksOK, CarriesRun
<1> QED BY <1>2, <1>3, <1>4 DEF ActionRecover, ProcsOK, ObserversOK

LEMMA TypeActionTeardown ==
    ASSUME TInv, NEW c \in Clients, ActionTeardown(c)
    PROVE  TInv'
<1> USE DEF TInv, TypeOK
<1>1. RowsOK'
  BY DisposeTypes DEF ActionTeardown, RowsOK
<1>2. SuperOK' /\ helper' \in [Runs -> {"none", "alive", "stopped"}]
  BY TeardownTypes DEF ActionTeardown
<1>3. TasksOK' /\ CarriesRun'
  <2>1. Release(c) \/ (req[c] = "restart" /\ Hold(c, "helpers"))
    BY DEF ActionTeardown
  <2> QED BY <2>1 DEF ActionTeardown, Hold, Goto, Release, Return, TasksOK, CarriesRun
<1> QED BY <1>1, <1>2, <1>3 DEF ActionTeardown, ProcsOK, ObserversOK

LEMMA TypeRemove ==
    ASSUME TInv, NEW c \in Clients, Remove(c)
    PROVE  TInv'
<1> USE DEF TInv, TypeOK
<1>1. RowsOK'
  BY RemoveTypes DEF Remove
<1> QED BY <1>1 DEF Remove, ProcsOK, SuperOK, TasksOK, ObserversOK, CarriesRun

LEMMA TypeDisplayStamp ==
    ASSUME TInv, NEW c \in Clients, DisplayStamp(c)
    PROVE  TInv'
<1> USE DEF TInv, TypeOK
<1>1. RowsOK'
  BY DEF DisplayStamp, RowsOK
<1>2. TasksOK' /\ CarriesRun'
  <2>1. (Goto(c, "video") /\ UNCHANGED <<trun, req>>) \/ Return(c)
    BY DEF DisplayStamp
  <2> QED BY <2>1 DEF DisplayStamp, Goto, Return, TasksOK, CarriesRun
<1> QED BY <1>1, <1>2 DEF DisplayStamp, ProcsOK, SuperOK, ObserversOK

LEMMA TypeWatcherSkip ==
    ASSUME TInv, NEW r \in Runs, WatcherSkip(r)
    PROVE  TInv'
BY LoopEndsTypes DEF TInv, TypeOK, WatcherSkip, RowsOK, ProcsOK, SuperOK, TasksOK, ObserversOK, CarriesRun

LEMMA TypeWatcherExit ==
    ASSUME TInv, NEW r \in Runs, WatcherExit(r)
    PROVE  TInv'
<1> USE DEF TInv, TypeOK
<1>1. SuperOK' /\ helper' \in [Runs -> {"none", "alive", "stopped"}]
  BY TeardownTypes DEF WatcherExit
<1>2. RowsOK'
  BY DEF WatcherExit, FinishRun, Demoted, RowsOK
<1>3. TasksOK' /\ CarriesRun'
  BY DEF WatcherExit, TasksOK, CarriesRun
<1>4. ObserversOK'
  BY DEF WatcherExit, ObserversOK
<1> QED BY <1>1, <1>2, <1>3, <1>4 DEF WatcherExit, ProcsOK

LEMMA TypeWatcherDispose ==
    ASSUME TInv, NEW r \in Runs, WatcherDispose(r)
    PROVE  TInv'
<1> USE DEF TInv, TypeOK
<1>1. RowsOK'
  BY DisposeTypes DEF WatcherDispose
<1>2. watching' \in BOOLEAN
  BY LoopEndsTypes DEF WatcherDispose, SuperOK
<1> QED BY <1>1, <1>2 DEF WatcherDispose, ProcsOK, SuperOK, TasksOK, ObserversOK, CarriesRun

LEMMA TypeReaderPoll ==
    ASSUME TInv, NEW r \in Runs, ReaderPoll(r)
    PROVE  TInv'
<1> USE DEF TInv, TypeOK
<1>1. watching' \in BOOLEAN
  BY LoopEndsTypes DEF ReaderPoll, SuperOK
<1> QED BY <1>1 DEF ReaderPoll, RowsOK, ProcsOK, SuperOK, TasksOK, ObserversOK, CarriesRun

LEMMA TypeReaderQuery ==
    ASSUME TInv, NEW r \in Runs, ReaderQuery(r)
    PROVE  TInv'
<1> USE DEF TInv, TypeOK
<1>1. PICK b \in BOOLEAN, d \in BOOLEAN : ownsHelpers' = b /\ watching' = d
  BY Zenon DEF ReaderQuery, InstallRecovered, SuperOK
<1>2. SuperOK'
  BY <1>1 DEF ReaderQuery, InstallRecovered, SuperOK
<1> QED BY <1>2 DEF ReaderQuery, Alive, RowsOK, ProcsOK, TasksOK, ObserversOK, CarriesRun

LEMMA TypeBoot ==
    ASSUME TInv, Boot
    PROVE  TInv'
<1> USE DEF TInv, TypeOK
<1>1. ActiveChoice(Reconciled) \subseteq Runs
  BY DEF ActiveChoice, Active
<1>2. Reconciled \in [Runs -> Statuses] /\ ReconciledState \in States
  BY DEF Reconciled, ReconciledState, Observed, Demoted, RowsOK
<1>3. lifecycle' \in States /\ runs' \in [Runs -> Statuses]
  BY <1>1, <1>2 DEF Boot, BootRecover, Demoted, Alive
<1>4. op' \in [Runs -> {"none", "accepted", "completed", "failed"}]
  <2>1. ReconcileOperations(lifecycle', runs')
    BY DEF Boot
  <2> QED BY <2>1 DEF ReconcileOperations, RowsOK
<1>5. RowsOK'
  BY <1>3, <1>4 DEF Boot, RowsOK
<1>6. SuperOK' /\ ObserversOK'
  <2>1. CASE UNCHANGED <<super, observers>>
    BY <2>1 DEF SuperOK, ObserversOK
  <2>2. ASSUME NEW r \in Runs, owner' = r, conn' = "none", watching' = TRUE,
               ownsHelpers' = (r \in helperRows /\ helper[r] = "alive"), Observe(r)
        PROVE  SuperOK' /\ ObserversOK'
    <3>1. PICK b \in BOOLEAN : ownsHelpers' = b
      BY Zenon, <2>2
    <3>2. SuperOK'
      BY <2>2, <3>1 DEF SuperOK
    <3> QED BY <2>2, <3>2 DEF Observe, ObserversOK
  <2> QED BY Zenon, <2>1, <2>2 DEF Boot
<1> QED BY <1>5, <1>6 DEF Boot, ProcsOK, TasksOK, CarriesRun

LEMMA TypeNext ==
    ASSUME TInv, [Next]_vars
    PROVE  TInv'
<1> USE DEF TInv, TypeOK, RowsOK, ProcsOK, SuperOK, TasksOK, ObserversOK, CarriesRun
<1>1. ASSUME NEW c \in Clients, StartRequest(c) PROVE TInv'
  BY <1>1 DEF StartRequest, Fresh, Acquire
<1>2. ASSUME NEW c \in Clients, StartHelpers(c) PROVE TInv'
  BY <1>2 DEF StartHelpers, Hold, Goto, StartError, Release, Return
<1>3. ASSUME NEW c \in Clients, StartSettle(c) PROVE TInv'
  BY <1>3
  DEF StartSettle, Hold, Goto, StartError, Release, Return, Active, ActiveChoice, ReconcileRun,
      Observed, FinishRun, StopHelper
<1>4. ASSUME NEW c \in Clients, StartDemote(c) PROVE TInv'
  BY <1>4 DEF StartDemote, Hold, Goto, Demoted
<1>5. ASSUME NEW c \in Clients, StartBegin(c) PROVE TInv'
  BY <1>5 DEF StartBegin, Hold, Goto
<1>6. ASSUME NEW c \in Clients, StartSpawn(c) PROVE TInv'
  BY <1>6 DEF StartSpawn, Hold, Goto
<1>7. ASSUME NEW c \in Clients, StartRecord(c) PROVE TInv'
  BY <1>7 DEF StartRecord, Hold, Goto, Killed
<1>8. ASSUME NEW c \in Clients, StartConnect(c) PROVE TInv'
  BY <1>8 DEF StartConnect, Hold, Goto, Killed, Alive
<1>9. ASSUME NEW c \in Clients, StartFail(c) PROVE TInv'
  BY <1>9 DEF StartFail, StartError, Release, Return, Goto, FailOperation, FinishRun, StopHelper
<1>10. ASSUME NEW c \in Clients, StartPost(c) PROVE TInv'
  BY <1>10 DEF StartPost, Hold, Goto
<1>11. ASSUME NEW c \in Clients, StartRollback(c) PROVE TInv'
  BY <1>11
  DEF StartRollback, StartError, Release, Return, Goto, FailOperation, FinishRun, StopHelper,
      Killed, ExitStatuses, Concluded, Demoted
<1>12. ASSUME NEW c \in Clients, StartPublish(c) PROVE TInv'
  BY <1>12 DEF StartPublish, Hold, Goto
<1>13. ASSUME NEW c \in Clients, StartWatch(c) PROVE TInv'
  BY <1>13 DEF StartWatch, Goto, Return, Active, ActiveChoice
<1>14. ASSUME NEW c \in Clients, RestartRequest(c) PROVE TInv'
  BY <1>14 DEF RestartRequest, Fresh, Acquire
<1>15. ASSUME NEW c \in Clients, ActionRequest(c) PROVE TInv'
  BY <1>15 DEF ActionRequest, Acquire
<1>16. ASSUME NEW c \in Clients, ActionPauseResume(c) PROVE TInv'
  BY <1>16 DEF ActionPauseResume, Disconnect, Release, Return
<1>17. ASSUME NEW c \in Clients, ActionReset(c) PROVE TInv'
  BY <1>17 DEF ActionReset, Disconnect, Release, Return
<1>18. ASSUME NEW c \in Clients, ActionStop(c) PROVE TInv'
  BY <1>18 DEF ActionStop, Disconnect, Release, Return, Hold, Goto
<1>19. ASSUME NEW c \in Clients, ActionQuit(c) PROVE TInv'
  BY <1>19
  DEF ActionQuit, Finish, StopError, ConcludePC, Disconnect, Release, Return, Hold, Goto,
      FinishRun, Killed, ExitStatuses
<1>20. ASSUME NEW c \in Clients, ActionConclude(c) PROVE TInv'
  BY <1>20 DEF ActionConclude, StopError, Disconnect, Release, Return, Hold, Goto
<1>21. ASSUME NEW c \in Clients, DisplayRequest(c) PROVE TInv'
  BY <1>21 DEF DisplayRequest, Goto, Active, ActiveChoice
<1>22. ASSUME NEW c \in Clients, DisplayVideo(c) PROVE TInv'
  BY <1>22 DEF DisplayVideo, Return
<1>23. ASSUME NEW c \in Clients, ReconcileRequest(c) PROVE TInv'
  BY <1>23 DEF ReconcileRequest, Goto
<1>24. ASSUME NEW c \in Clients, Reconcile(c) PROVE TInv'
  BY <1>24
  DEF Reconcile, Return, Reconciled, ReconciledState, ReconcileOperations, Observed, Demoted
<1>25. ASSUME NEW r \in Runs, WatcherSettle(r) PROVE TInv'
  BY <1>25 DEF WatcherSettle, Demoted
<1>26. ASSUME NEW r \in Runs, ReaderApply(r) PROVE TInv'
  BY <1>26 DEF ReaderApply
<1>27. ASSUME NEW r \in Runs, VmExit(r) PROVE TInv'
  BY <1>27 DEF VmExit
<1>28. ASSUME Create PROVE TInv'
  BY <1>28, PlansAssumption DEF Create
<1>29. ASSUME Crash PROVE TInv'
  BY <1>29 DEF Crash
<1> QED
  BY Zenon, <1>1, <1>2, <1>3, <1>4, <1>5, <1>6, <1>7, <1>8, <1>9, <1>10, <1>11, <1>12,
     TypeStartInstall, <1>13, TypeStartEnlist, TypeStartCleanup, <1>14, <1>15,
     TypeActionRecover, <1>16, <1>17, <1>18, <1>19, <1>20, TypeActionTeardown, TypeRemove,
     <1>21, TypeDisplayStamp, <1>22, <1>23, <1>24, TypeWatcherSkip, TypeWatcherExit, <1>25,
     TypeWatcherDispose, TypeReaderPoll, TypeReaderQuery, <1>26, <1>27, <1>28, <1>29, TypeBoot,
     TypeStutter
  DEF Next, ClientRequest, ClientStep, StartSteps, ActionSteps, OtherSteps, WatcherStep,
      ReaderStep

LEMMA TypeInit ==
    ASSUME Init PROVE TInv
<1>1. RowsOK
  BY DEF Init, RowsOK
<1>2. ProcsOK /\ ObserversOK
  BY DEF Init, ProcsOK, ObserversOK
<1>3. SuperOK /\ up \in BOOLEAN
  BY DEF Init, SuperOK
<1>4. TasksOK /\ CarriesRun
  BY DEF Init, TasksOK, CarriesRun
<1> QED BY <1>1, <1>2, <1>3, <1>4 DEF TInv, TypeOK

\* Type correctness of the rows, processes, supervisor and tasks of
\* start_instance_with_lock, lifecycle_action_with_lock, run_events and serve:
\* no step writes a state or status outside the schema, or names a run that is
\* not a run id.
THEOREM TypeCorrect == Spec => []TypeOK
<1>1. Init => TInv
  BY TypeInit
<1>2. TInv /\ [Next]_vars => TInv'
  BY TypeNext
<1>3. TInv => TypeOK
  BY DEF TInv
<1> QED BY <1>1, <1>2, <1>3, PTL DEF Spec

-----------------------------------------------------------------------------
(* The gate excludes                                                       *)

LEMMA GateReaderPoll ==
    ASSUME TInv, GateInv, DownInv, NEW r \in Runs, ReaderPoll(r)
    PROVE  GateInv' /\ DownInv'
BY IdsDisjoint DEF TInv, TypeOK, ObserversOK, GateInv, DownInv, ReaderPoll

LEMMA GateBoot ==
    ASSUME TInv, GateInv, DownInv, Boot
    PROVE  GateInv' /\ DownInv'
<1>1. /\ \A r \in Runs : watcher'[r] \in {"off", "poll"} /\ reader'[r] \in {"off", "poll"}
      /\ up' /\ UNCHANGED tasks
  BY DEF TInv, TypeOK, ObserversOK, DownInv, Boot, Observe
<1> QED BY <1>1 DEF GateInv, DownInv, Boot

LEMMA GateNext ==
    ASSUME TInv, GateInv, DownInv, Next
    PROVE  GateInv' /\ DownInv'
<1> USE DEF TInv, TypeOK, TasksOK, ObserversOK, GateInv, DownInv, WatcherGate, ReaderGate
<1>1. ASSUME NEW c \in Clients, StartRequest(c) PROVE GateInv' /\ DownInv'
  BY <1>1, IdsDisjoint DEF StartRequest, Acquire
<1>2. ASSUME NEW c \in Clients, StartHelpers(c) PROVE GateInv' /\ DownInv'
  BY <1>2, IdsDisjoint DEF StartHelpers, Hold, Goto, StartError, Release, Return
<1>3. ASSUME NEW c \in Clients, StartSettle(c) PROVE GateInv' /\ DownInv'
  BY <1>3, IdsDisjoint DEF StartSettle, Hold, Goto, StartError, Release, Return
<1>4. ASSUME NEW c \in Clients, StartDemote(c) PROVE GateInv' /\ DownInv'
  BY <1>4, IdsDisjoint DEF StartDemote, Hold, Goto
<1>5. ASSUME NEW c \in Clients, StartBegin(c) PROVE GateInv' /\ DownInv'
  BY <1>5, IdsDisjoint DEF StartBegin, Hold, Goto
<1>6. ASSUME NEW c \in Clients, StartSpawn(c) PROVE GateInv' /\ DownInv'
  BY <1>6, IdsDisjoint DEF StartSpawn, Hold, Goto
<1>7. ASSUME NEW c \in Clients, StartRecord(c) PROVE GateInv' /\ DownInv'
  BY <1>7, IdsDisjoint DEF StartRecord, Hold, Goto
<1>8. ASSUME NEW c \in Clients, StartConnect(c) PROVE GateInv' /\ DownInv'
  BY <1>8, IdsDisjoint DEF StartConnect, Hold, Goto
<1>9. ASSUME NEW c \in Clients, StartFail(c) PROVE GateInv' /\ DownInv'
  BY <1>9, IdsDisjoint DEF StartFail, StartError, Release, Return, Goto
<1>10. ASSUME NEW c \in Clients, StartPost(c) PROVE GateInv' /\ DownInv'
  BY <1>10, IdsDisjoint DEF StartPost, Hold, Goto
<1>11. ASSUME NEW c \in Clients, StartRollback(c) PROVE GateInv' /\ DownInv'
  BY <1>11, IdsDisjoint DEF StartRollback, StartError, Release, Return, Goto
<1>12. ASSUME NEW c \in Clients, StartPublish(c) PROVE GateInv' /\ DownInv'
  BY <1>12, IdsDisjoint DEF StartPublish, Hold, Goto
<1>13. ASSUME NEW c \in Clients, StartInstall(c) PROVE GateInv' /\ DownInv'
  BY <1>13, IdsDisjoint DEF StartInstall, Goto, StartError, Release, Return
<1>14. ASSUME NEW c \in Clients, StartWatch(c) PROVE GateInv' /\ DownInv'
  BY <1>14, IdsDisjoint DEF StartWatch, Goto, Return
<1>15. ASSUME NEW c \in Clients, StartEnlist(c) PROVE GateInv' /\ DownInv'
  BY <1>15, IdsDisjoint DEF StartEnlist, Return, Observe
<1>16. ASSUME NEW c \in Clients, StartCleanup(c) PROVE GateInv' /\ DownInv'
  BY <1>16, IdsDisjoint DEF StartCleanup, Return
<1>17. ASSUME NEW c \in Clients, RestartRequest(c) PROVE GateInv' /\ DownInv'
  BY <1>17, IdsDisjoint DEF RestartRequest, Acquire
<1>18. ASSUME NEW c \in Clients, ActionRequest(c) PROVE GateInv' /\ DownInv'
  BY <1>18, IdsDisjoint DEF ActionRequest, Acquire
<1>19. ASSUME NEW c \in Clients, ActionRecover(c) PROVE GateInv' /\ DownInv'
  BY <1>19, IdsDisjoint DEF ActionRecover, Recover, NoLiveRun, Hold, Goto, Release, Return
<1>20. ASSUME NEW c \in Clients, ActionPauseResume(c) PROVE GateInv' /\ DownInv'
  BY <1>20, IdsDisjoint DEF ActionPauseResume, Release, Return
<1>21. ASSUME NEW c \in Clients, ActionReset(c) PROVE GateInv' /\ DownInv'
  BY <1>21, IdsDisjoint DEF ActionReset, Release, Return
<1>22. ASSUME NEW c \in Clients, ActionStop(c) PROVE GateInv' /\ DownInv'
  BY <1>22, IdsDisjoint DEF ActionStop, Release, Return, Hold, Goto
<1>23. ASSUME NEW c \in Clients, ActionQuit(c) PROVE GateInv' /\ DownInv'
  BY <1>23, IdsDisjoint
  DEF ActionQuit, Finish, StopError, ConcludePC, Release, Return, Hold, Goto
<1>24. ASSUME NEW c \in Clients, ActionConclude(c) PROVE GateInv' /\ DownInv'
  BY <1>24, IdsDisjoint DEF ActionConclude, StopError, Release, Return, Hold, Goto
<1>25. ASSUME NEW c \in Clients, ActionTeardown(c) PROVE GateInv' /\ DownInv'
  BY <1>25, IdsDisjoint DEF ActionTeardown, Release, Return, Hold, Goto
<1>26. ASSUME NEW c \in Clients, Remove(c) PROVE GateInv' /\ DownInv'
  BY <1>26, IdsDisjoint DEF Remove
<1>27. ASSUME NEW c \in Clients, DisplayRequest(c) PROVE GateInv' /\ DownInv'
  BY <1>27, IdsDisjoint DEF DisplayRequest, Goto
<1>28. ASSUME NEW c \in Clients, DisplayStamp(c) PROVE GateInv' /\ DownInv'
  BY <1>28, IdsDisjoint DEF DisplayStamp, Goto, Return
<1>29. ASSUME NEW c \in Clients, DisplayVideo(c) PROVE GateInv' /\ DownInv'
  BY <1>29, IdsDisjoint DEF DisplayVideo, Return
<1>30. ASSUME NEW c \in Clients, ReconcileRequest(c) PROVE GateInv' /\ DownInv'
  BY <1>30, IdsDisjoint DEF ReconcileRequest, Goto
<1>31. ASSUME NEW c \in Clients, Reconcile(c) PROVE GateInv' /\ DownInv'
  BY <1>31, IdsDisjoint DEF Reconcile, Return
<1>32. ASSUME NEW r \in Runs, WatcherSkip(r) PROVE GateInv' /\ DownInv'
  BY <1>32, IdsDisjoint DEF WatcherSkip
<1>33. ASSUME NEW r \in Runs, WatcherExit(r) PROVE GateInv' /\ DownInv'
  BY <1>33, IdsDisjoint DEF WatcherExit
<1>34. ASSUME NEW r \in Runs, WatcherSettle(r) PROVE GateInv' /\ DownInv'
  BY <1>34, IdsDisjoint DEF WatcherSettle
<1>35. ASSUME NEW r \in Runs, WatcherDispose(r) PROVE GateInv' /\ DownInv'
  BY <1>35, IdsDisjoint DEF WatcherDispose
<1>36. ASSUME NEW r \in Runs, ReaderQuery(r) PROVE GateInv' /\ DownInv'
  BY <1>36, IdsDisjoint DEF ReaderQuery
<1>37. ASSUME NEW r \in Runs, ReaderApply(r) PROVE GateInv' /\ DownInv'
  BY <1>37, IdsDisjoint DEF ReaderApply
<1>38. ASSUME NEW r \in Runs, VmExit(r) PROVE GateInv' /\ DownInv'
  BY <1>38, IdsDisjoint DEF VmExit
<1>39. ASSUME Create PROVE GateInv' /\ DownInv'
  BY <1>39, IdsDisjoint DEF Create
<1>40. ASSUME Crash PROVE GateInv' /\ DownInv'
  BY <1>40, IdsDisjoint DEF Crash
<1> QED
  BY Zenon, <1>1, <1>2, <1>3, <1>4, <1>5, <1>6, <1>7, <1>8, <1>9, <1>10, <1>11, <1>12, <1>13,
     <1>14, <1>15, <1>16, <1>17, <1>18, <1>19, <1>20, <1>21, <1>22, <1>23, <1>24, <1>25, <1>26,
     <1>27, <1>28, <1>29, <1>30, <1>31, <1>32, <1>33, <1>34, <1>35, GateReaderPoll, <1>36,
     <1>37, <1>38, <1>39, <1>40, GateBoot
  DEF Next, ClientRequest, ClientStep, StartSteps, ActionSteps, OtherSteps, WatcherStep,
      ReaderStep

-----------------------------------------------------------------------------
(* The run a start carries                                                 *)

LEMMA CarriedReconcile ==
    ASSUME TInv, GateInv, DownInv, CarriedInv, NEW c \in Clients, Reconcile(c)
    PROVE  CarriedInv'
<1>1. \A r \in Runs : runs'[r] = "none" <=> runs[r] = "none"
  BY DEF TInv, TypeOK, RowsOK, Reconcile, Reconciled, Active, Observed
<1> QED BY <1>1 DEF TInv, TypeOK, TasksOK, CarriedInv, BeforeRecord, AfterRecord, Reconcile, Return

LEMMA CarriedBoot ==
    ASSUME TInv, GateInv, DownInv, CarriedInv, Boot
    PROVE  CarriedInv'
BY DEF DownInv, CarriedInv, BeforeRecord, AfterRecord, Boot

LEMMA CarriedNext ==
    ASSUME TInv, GateInv, DownInv, CarriedInv, Next
    PROVE  CarriedInv'
<1> USE DEF TInv, TypeOK, RowsOK, TasksOK, GateInv, CarriedInv, BeforeRecord, AfterRecord,
        HasRow, WatcherGate, ReaderGate
<1>1. ASSUME NEW c \in Clients, StartRequest(c) PROVE CarriedInv'
  BY <1>1, IdsDisjoint DEF StartRequest, Fresh, Acquire
<1>2. ASSUME NEW c \in Clients, StartHelpers(c) PROVE CarriedInv'
  BY <1>2, IdsDisjoint DEF StartHelpers, Hold, Goto, StartError, Release, Return
<1>3. ASSUME NEW c \in Clients, StartSettle(c) PROVE CarriedInv'
  BY <1>3, IdsDisjoint
  DEF StartSettle, Hold, Goto, StartError, Release, Return, Active, ActiveChoice, ReconcileRun,
      Observed, FinishRun, StopHelper
<1>4. ASSUME NEW c \in Clients, StartDemote(c) PROVE CarriedInv'
  BY <1>4, IdsDisjoint DEF StartDemote, Hold, Goto, Demoted
<1>5. ASSUME NEW c \in Clients, StartBegin(c) PROVE CarriedInv'
  BY <1>5, IdsDisjoint DEF StartBegin, Hold, Goto
<1>6. ASSUME NEW c \in Clients, StartSpawn(c) PROVE CarriedInv'
  BY <1>6, IdsDisjoint DEF StartSpawn, Hold, Goto
<1>7. ASSUME NEW c \in Clients, StartRecord(c) PROVE CarriedInv'
  BY <1>7, IdsDisjoint DEF StartRecord, Hold, Goto, Killed
<1>8. ASSUME NEW c \in Clients, StartConnect(c) PROVE CarriedInv'
  BY <1>8, IdsDisjoint DEF StartConnect, Hold, Goto, Killed, Alive
<1>9. ASSUME NEW c \in Clients, StartFail(c) PROVE CarriedInv'
  BY <1>9, IdsDisjoint
  DEF StartFail, StartError, Release, Return, Goto, FailOperation, FinishRun, StopHelper
<1>10. ASSUME NEW c \in Clients, StartPost(c) PROVE CarriedInv'
  BY <1>10, IdsDisjoint DEF StartPost, Hold, Goto
<1>11. ASSUME NEW c \in Clients, StartRollback(c) PROVE CarriedInv'
  BY <1>11, IdsDisjoint
  DEF StartRollback, StartError, Release, Return, Goto, FailOperation, FinishRun, StopHelper,
      Killed, ExitStatuses, Concluded, Demoted
<1>12. ASSUME NEW c \in Clients, StartPublish(c) PROVE CarriedInv'
  BY <1>12, IdsDisjoint DEF StartPublish, Hold, Goto
<1>13. ASSUME NEW c \in Clients, StartInstall(c) PROVE CarriedInv'
  BY <1>13, IdsDisjoint DEF StartInstall, Goto, StartError, Release, Return, Killed, StopHelper
<1>14. ASSUME NEW c \in Clients, StartWatch(c) PROVE CarriedInv'
  BY <1>14, IdsDisjoint DEF StartWatch, Goto, Return, Active, ActiveChoice
<1>15. ASSUME NEW c \in Clients, StartEnlist(c) PROVE CarriedInv'
  BY <1>15, IdsDisjoint DEF StartEnlist, Return, Observe
<1>16. ASSUME NEW c \in Clients, StartCleanup(c) PROVE CarriedInv'
  BY <1>16, IdsDisjoint
  DEF StartCleanup, Return, RemoveIfDisposable, RemoveInstance, DeleteRows, Active,
      ActiveChoice, ReconcileRun, Observed, FinishRun
<1>17. ASSUME NEW c \in Clients, RestartRequest(c) PROVE CarriedInv'
  BY <1>17, IdsDisjoint DEF RestartRequest, Fresh, Acquire
<1>18. ASSUME NEW c \in Clients, ActionRequest(c) PROVE CarriedInv'
  BY <1>18, IdsDisjoint DEF ActionRequest, Acquire
<1>19. ASSUME NEW c \in Clients, ActionRecover(c) PROVE CarriedInv'
  BY <1>19, IdsDisjoint
  DEF ActionRecover, Recover, NoLiveRun, Hold, Goto, Release, Return, Active, ActiveChoice,
      ReconcileRun, Observed, FinishRun, Demoted, InstallRecovered, AdoptsHelpers, Alive
<1>20. ASSUME NEW c \in Clients, ActionPauseResume(c) PROVE CarriedInv'
  BY <1>20, IdsDisjoint DEF ActionPauseResume, Disconnect, Release, Return
<1>21. ASSUME NEW c \in Clients, ActionReset(c) PROVE CarriedInv'
  BY <1>21, IdsDisjoint DEF ActionReset, Disconnect, Release, Return
<1>22. ASSUME NEW c \in Clients, ActionStop(c) PROVE CarriedInv'
  BY <1>22, IdsDisjoint DEF ActionStop, Disconnect, Release, Return, Hold, Goto
<1>23. ASSUME NEW c \in Clients, ActionQuit(c) PROVE CarriedInv'
  BY <1>23, IdsDisjoint
  DEF ActionQuit, Finish, StopError, ConcludePC, Disconnect, Release, Return, Hold, Goto,
      FinishRun, Killed, ExitStatuses
<1>24. ASSUME NEW c \in Clients, ActionConclude(c) PROVE CarriedInv'
  BY <1>24, IdsDisjoint DEF ActionConclude, StopError, Disconnect, Release, Return, Hold, Goto
<1>25. ASSUME NEW c \in Clients, ActionTeardown(c) PROVE CarriedInv'
  BY <1>25, IdsDisjoint
  DEF ActionTeardown, Teardown, Release, Return, Hold, Goto, StopHelper, RemoveIfDisposable,
      RemoveInstance, DeleteRows, Active, ActiveChoice, ReconcileRun, Observed, FinishRun
<1>26. ASSUME NEW c \in Clients, Remove(c) PROVE CarriedInv'
  BY <1>26, IdsDisjoint
  DEF Remove, RemoveInstance, DeleteRows, Active, ActiveChoice, ReconcileRun, Observed,
      FinishRun
<1>27. ASSUME NEW c \in Clients, DisplayRequest(c) PROVE CarriedInv'
  BY <1>27, IdsDisjoint DEF DisplayRequest, Goto, Active, ActiveChoice
<1>28. ASSUME NEW c \in Clients, DisplayStamp(c) PROVE CarriedInv'
  BY <1>28, IdsDisjoint DEF DisplayStamp, Goto, Return
<1>29. ASSUME NEW c \in Clients, DisplayVideo(c) PROVE CarriedInv'
  BY <1>29, IdsDisjoint DEF DisplayVideo, Return
<1>30. ASSUME NEW c \in Clients, ReconcileRequest(c) PROVE CarriedInv'
  BY <1>30, IdsDisjoint DEF ReconcileRequest, Goto
<1>31. ASSUME NEW r \in Runs, WatcherSkip(r) PROVE CarriedInv'
  BY <1>31, IdsDisjoint DEF WatcherSkip, LoopEnds
<1>32. ASSUME NEW r \in Runs, WatcherExit(r) PROVE CarriedInv'
  BY <1>32, IdsDisjoint DEF WatcherExit, Teardown, FinishRun, Demoted, StopHelper
<1>33. ASSUME NEW r \in Runs, WatcherSettle(r) PROVE CarriedInv'
  BY <1>33, IdsDisjoint DEF WatcherSettle, Demoted
<1>34. ASSUME NEW r \in Runs, WatcherDispose(r) PROVE CarriedInv'
  BY <1>34, IdsDisjoint
  DEF WatcherDispose, LoopEnds, RemoveIfDisposable, RemoveInstance, DeleteRows, Active,
      ActiveChoice, ReconcileRun, Observed, FinishRun
<1>35. ASSUME NEW r \in Runs, ReaderPoll(r) PROVE CarriedInv'
  BY <1>35, IdsDisjoint DEF ReaderPoll, LoopEnds
<1>36. ASSUME NEW r \in Runs, ReaderQuery(r) PROVE CarriedInv'
  BY <1>36, IdsDisjoint DEF ReaderQuery, Alive, InstallRecovered
<1>37. ASSUME NEW r \in Runs, ReaderApply(r) PROVE CarriedInv'
  BY <1>37, IdsDisjoint DEF ReaderApply
<1>38. ASSUME NEW r \in Runs, VmExit(r) PROVE CarriedInv'
  BY <1>38, IdsDisjoint DEF VmExit
<1>39. ASSUME Create PROVE CarriedInv'
  BY <1>39, IdsDisjoint DEF Create
<1>40. ASSUME Crash PROVE CarriedInv'
  BY <1>40, IdsDisjoint DEF Crash
<1> QED
  BY Zenon, <1>1, <1>2, <1>3, <1>4, <1>5, <1>6, <1>7, <1>8, <1>9, <1>10, <1>11, <1>12, <1>13,
     <1>14, <1>15, <1>16, <1>17, <1>18, <1>19, <1>20, <1>21, <1>22, <1>23, <1>24, <1>25, <1>26,
     <1>27, <1>28, <1>29, <1>30, CarriedReconcile, <1>31, <1>32, <1>33, <1>34, <1>35, <1>36,
     <1>37, <1>38, <1>39, <1>40, CarriedBoot
  DEF Next, ClientRequest, ClientStep, StartSteps, ActionSteps, OtherSteps, WatcherStep,
      ReaderStep

-----------------------------------------------------------------------------
(* The recorded processes                                                  *)

SafeInv == /\ DeadInv /\ StartingInv
           /\ LiveIsActive /\ LiveIsLatest /\ StoppedIsDead /\ LiveIsSupervised

LEMMA SafeStartEnlist ==
    ASSUME ~SameSecond, TInv, GateInv, DownInv, CarriedInv, SafeInv, NEW c \in Clients, StartEnlist(c)
    PROVE  SafeInv'
<1>1. \A s \in Runs : LiveRow(s)' <=> LiveRow(s)
  BY DEF StartEnlist, LiveRow, Alive, HasRow
<1>2. \A d \in Clients : pc'[d] = pc[d] \/ pc'[d] = "idle"
  BY DEF TInv, TypeOK, TasksOK, StartEnlist, Return
<1>3. \A s \in Runs : Starting(s) => Starting(s)'
  BY DEF TInv, TypeOK, TasksOK, StartEnlist, Return, Starting
<1>4. DeadInv' /\ StartingInv' /\ LiveIsActive' /\ LiveIsLatest' /\ StoppedIsDead'
  <2>1. \A s \in Runs : watcher'[s] = "exited" => watcher[s] = "exited"
    BY DEF TInv, TypeOK, ObserversOK, StartEnlist, Observe
  <2> QED BY <1>1, <1>2, <2>1 DEF StartEnlist, SafeInv, DeadInv, StartingInv, LiveIsActive,
             LiveIsLatest, StoppedIsDead, NoLive, DeadPC, Active
<1>5. ASSUME NEW s \in Runs, LiveRow(s)', ~Starting(s)', up' PROVE owner' = s
  <2>1. owner = s
    BY <1>1, <1>3, <1>5 DEF SafeInv, LiveIsSupervised, StartEnlist
  <2> QED BY <2>1, IdsDisjoint DEF StartEnlist
<1> QED BY <1>4, <1>5 DEF SafeInv, LiveIsSupervised

LEMMA SafeWatcherExit ==
    ASSUME ~SameSecond, TInv, GateInv, DownInv, CarriedInv, SafeInv, NEW r \in Runs, WatcherExit(r)
    PROVE  SafeInv'
<1> USE DEF TInv, TypeOK, TasksOK
<1>1. \A c \in Clients : pc[c] \notin GatedPC /\ pc'[c] = pc[c] /\ trun'[c] = trun[c]
  BY IdsDisjoint DEF GateInv, WatcherExit
<1>2. up /\ up' /\ ~Alive(r) /\ UNCHANGED <<proc, latest>>
  BY DEF DownInv, WatcherExit
<1>3. \A s \in Runs : LiveRow(s)' <=> LiveRow(s)
  BY <1>2 DEF RowsOK, WatcherExit, FinishRun, LiveRow, Alive, HasRow, Active
<1>4. \A s \in Runs : LiveRow(s) => owner = s
  BY <1>1, <1>2 DEF SafeInv, LiveIsSupervised, Starting
<1>5. LiveIsActive' /\ LiveIsLatest'
  <2>1. ASSUME NEW s \in Runs, LiveRow(s) PROVE runs'[s] = runs[s]
    BY <1>2, <2>1 DEF RowsOK, WatcherExit, FinishRun, LiveRow
  <2>2. \A s \in Runs : LiveRow(s) => runs[s] \in {"running", "uncertain"}
    BY DEF SafeInv, LiveIsActive, Active
  <2> QED BY <1>2, <1>3, <2>1, <2>2 DEF SafeInv, LiveIsActive, LiveIsLatest, Active
<1>6. StoppedIsDead' /\ StartingInv'
  BY <1>1, <1>3 DEF SafeInv, WatcherExit, Demoted, StoppedIsDead, StartingInv
<1>7. DeadInv'
  <2>1. ASSUME NEW s \in Runs, watcher'[s] = "exited" PROVE NoLive'
    <3>1. CASE s = r
      <4>1. conn = "owned"
        BY <2>1, <3>1 DEF ObserversOK, WatcherExit
      <4> QED BY <4>1, <1>2, <1>3, <1>4 DEF WatcherExit, NoLive, LiveRow
    <3>2. CASE s # r
      BY <2>1, <3>2, <1>3 DEF ObserversOK, WatcherExit, SafeInv, DeadInv, NoLive
    <3> QED BY <3>1, <3>2
  <2> QED BY <1>1, <2>1 DEF DeadInv, DeadPC
<1>8. LiveIsSupervised'
  <2>1. ASSUME NEW s \in Runs, LiveRow(s) PROVE owner' = s
    <3>1. owner = s /\ s # r /\ owner # NoRun
      BY <2>1, <1>2, <1>4, IdsDisjoint DEF LiveRow
    <3> QED BY <3>1 DEF WatcherExit, Teardown
  <2> QED BY <1>3, <2>1 DEF LiveIsSupervised
<1> QED BY <1>5, <1>6, <1>7, <1>8 DEF SafeInv

LEMMA SafeBoot ==
    ASSUME ~SameSecond, TInv, GateInv, DownInv, CarriedInv, SafeInv, Boot
    PROVE  SafeInv'
<1> USE DEF TInv, TypeOK
<1>1. /\ \A c \in Clients : pc[c] = "idle" /\ pc'[c] = "idle"
      /\ \A s \in Runs : watcher'[s] # "exited"
  BY DEF DownInv, Boot, Observe, ObserversOK
<1>2. \A s \in Runs : /\ runs[s] = "none" => Reconciled[s] = "none"
                      /\ LiveRow(s) => Reconciled[s] = "running"
                      /\ Reconciled[s] = "running" => LiveRow(s)
                      /\ runs[s] # "none" => Reconciled[s] # "none"
  <2>1. \A s \in Runs : LiveRow(s) => s \in Active(runs)
    BY DEF SafeInv, LiveIsActive
  <2>2. \A s \in Runs : Reconciled[s] = IF s \in Active(runs) THEN Observed(s) ELSE runs[s]
    BY DEF Reconciled
  <2> QED BY <2>1, <2>2 DEF RowsOK, Active, Observed, LiveRow, HasRow
<1>3. ActiveChoice(Reconciled) \subseteq Runs
  BY DEF ActiveChoice, Active
<1>4. \/ runs' = Reconciled
      \/ \E a \in Runs : ~Alive(a) /\ runs' = [Reconciled EXCEPT ![a] = "failed"]
  BY <1>3 DEF Boot, BootRecover
<1>5. \A s \in Runs : LiveRow(s)' <=> LiveRow(s)
  BY <1>2, <1>4 DEF Boot, LiveRow, Alive, HasRow, Reconciled
<1>6. \A s \in Runs : LiveRow(s) => runs'[s] = "running"
  BY <1>2, <1>4 DEF LiveRow, Reconciled
<1>7. LiveIsActive' /\ LiveIsLatest'
  BY <1>5, <1>6 DEF Boot, SafeInv, LiveIsActive, LiveIsLatest, Active
<1>8. DeadInv' /\ StartingInv'
  BY <1>1 DEF DeadInv, StartingInv, DeadPC
<1>9. StoppedIsDead'
  <2>1. lifecycle' \in {lifecycle, "running", "paused", "error"}
    BY <1>3 DEF Boot, BootRecover, ReconciledState, Demoted, Alive
  <2> QED BY <1>5, <2>1 DEF SafeInv, StoppedIsDead
<1>10. LiveIsSupervised'
  <2>1. ASSUME NEW s \in Runs, LiveRow(s) PROVE owner' = s
    <3>1. PICK q \in Runs : owner' = q /\ Reconciled[q] = "running"
      BY <1>2, <2>1 DEF Boot
    <3> QED BY <1>2, <2>1, <3>1 DEF SafeInv, LiveIsLatest
  <2> QED BY <1>5, <2>1 DEF LiveIsSupervised
<1> QED BY <1>7, <1>8, <1>9, <1>10 DEF SafeInv

LEMMA SafeNext ==
    ASSUME ~SameSecond, TInv, GateInv, DownInv, CarriedInv, SafeInv, Next
    PROVE  SafeInv'
<1> USE DEF TInv, TypeOK, RowsOK, ProcsOK, TasksOK, GateInv, DownInv, CarriedInv, BeforeRecord,
        AfterRecord, HasRow, WatcherGate, ReaderGate, SafeInv, DeadInv, StartingInv,
        LiveIsActive, LiveIsLatest, StoppedIsDead, LiveIsSupervised, NoLive, LiveRow, Alive,
        Starting, Active, ActiveChoice, DeadPC
<1>1. ASSUME NEW c \in Clients, StartRequest(c) PROVE SafeInv'
  BY <1>1, IdsDisjoint DEF StartRequest, Fresh, Acquire
<1>2. ASSUME NEW c \in Clients, StartHelpers(c) PROVE SafeInv'
  BY <1>2, IdsDisjoint DEF StartHelpers, Hold, Goto, StartError, Release, Return
<1>3. ASSUME NEW c \in Clients, StartSettle(c) PROVE SafeInv'
  BY <1>3, IdsDisjoint
  DEF StartSettle, Hold, Goto, StartError, Release, Return, ReconcileRun, Observed, FinishRun,
      StopHelper
<1>4. ASSUME NEW c \in Clients, StartDemote(c) PROVE SafeInv'
  BY <1>4, IdsDisjoint DEF StartDemote, Hold, Goto, Demoted
<1>5. ASSUME NEW c \in Clients, StartBegin(c) PROVE SafeInv'
  BY <1>5, IdsDisjoint DEF StartBegin, Hold, Goto
<1>6. ASSUME NEW c \in Clients, StartSpawn(c) PROVE SafeInv'
  BY <1>6, IdsDisjoint DEF StartSpawn, Hold, Goto
<1>7. ASSUME NEW c \in Clients, StartRecord(c) PROVE SafeInv'
  BY <1>7, IdsDisjoint DEF StartRecord, Hold, Goto, Killed
<1>8. ASSUME NEW c \in Clients, StartConnect(c) PROVE SafeInv'
  BY <1>8, IdsDisjoint DEF StartConnect, Hold, Goto, Killed
<1>9. ASSUME NEW c \in Clients, StartFail(c) PROVE SafeInv'
  BY <1>9, IdsDisjoint
  DEF StartFail, StartError, Release, Return, Goto, FailOperation, FinishRun, StopHelper
<1>10. ASSUME NEW c \in Clients, StartPost(c) PROVE SafeInv'
  BY <1>10, IdsDisjoint DEF StartPost, Hold, Goto
<1>11. ASSUME NEW c \in Clients, StartRollback(c) PROVE SafeInv'
  BY <1>11, IdsDisjoint
  DEF StartRollback, StartError, Release, Return, Goto, FailOperation, FinishRun, StopHelper,
      Killed, ExitStatuses, Concluded, Demoted
<1>12. ASSUME NEW c \in Clients, StartPublish(c) PROVE SafeInv'
  BY <1>12, IdsDisjoint DEF StartPublish, Hold, Goto
<1>13. ASSUME NEW c \in Clients, StartInstall(c) PROVE SafeInv'
  BY <1>13, IdsDisjoint DEF StartInstall, Goto, StartError, Release, Return, Killed, StopHelper
<1>14. ASSUME NEW c \in Clients, StartWatch(c) PROVE SafeInv'
  BY <1>14, IdsDisjoint DEF StartWatch, Goto, Return
<1>15. ASSUME NEW c \in Clients, StartCleanup(c) PROVE SafeInv'
  BY <1>15, IdsDisjoint
  DEF StartCleanup, Return, RemoveIfDisposable, RemoveInstance, DeleteRows, ReconcileRun,
      Observed, FinishRun
<1>16. ASSUME NEW c \in Clients, RestartRequest(c) PROVE SafeInv'
  BY <1>16, IdsDisjoint DEF RestartRequest, Fresh, Acquire
<1>17. ASSUME NEW c \in Clients, ActionRequest(c) PROVE SafeInv'
  BY <1>17, IdsDisjoint DEF ActionRequest, Acquire
<1>18. ASSUME NEW c \in Clients, ActionRecover(c) PROVE SafeInv'
  BY <1>18, IdsDisjoint
  DEF ActionRecover, Recover, NoLiveRun, Hold, Goto, Release, Return, ReconcileRun, Observed,
      FinishRun, Demoted, InstallRecovered, AdoptsHelpers
<1>19. ASSUME NEW c \in Clients, ActionPauseResume(c) PROVE SafeInv'
  BY <1>19, IdsDisjoint DEF ActionPauseResume, Disconnect, Release, Return
<1>20. ASSUME NEW c \in Clients, ActionReset(c) PROVE SafeInv'
  BY <1>20, IdsDisjoint DEF ActionReset, Disconnect, Release, Return
<1>21. ASSUME NEW c \in Clients, ActionStop(c) PROVE SafeInv'
  BY <1>21, IdsDisjoint DEF ActionStop, Disconnect, Release, Return, Hold, Goto
<1>22. ASSUME NEW c \in Clients, ActionQuit(c) PROVE SafeInv'
  BY <1>22, IdsDisjoint
  DEF ActionQuit, Finish, StopError, ConcludePC, Disconnect, Release, Return, Hold, Goto,
      FinishRun, Killed, ExitStatuses
<1>23. ASSUME NEW c \in Clients, ActionConclude(c) PROVE SafeInv'
  BY <1>23, IdsDisjoint DEF ActionConclude, StopError, Disconnect, Release, Return, Hold, Goto
<1>24. ASSUME NEW c \in Clients, ActionTeardown(c) PROVE SafeInv'
  BY <1>24, IdsDisjoint
  DEF ActionTeardown, Teardown, Release, Return, Hold, Goto, StopHelper, RemoveIfDisposable,
      RemoveInstance, DeleteRows, ReconcileRun, Observed, FinishRun
<1>25. ASSUME NEW c \in Clients, Remove(c) PROVE SafeInv'
  BY <1>25, IdsDisjoint
  DEF Remove, RemoveInstance, DeleteRows, ReconcileRun, Observed, FinishRun
<1>26. ASSUME NEW c \in Clients, DisplayRequest(c) PROVE SafeInv'
  BY <1>26, IdsDisjoint DEF DisplayRequest, Goto
<1>27. ASSUME NEW c \in Clients, DisplayStamp(c) PROVE SafeInv'
  BY <1>27, IdsDisjoint DEF DisplayStamp, Goto, Return
<1>28. ASSUME NEW c \in Clients, DisplayVideo(c) PROVE SafeInv'
  BY <1>28, IdsDisjoint DEF DisplayVideo, Return
<1>29. ASSUME NEW c \in Clients, ReconcileRequest(c) PROVE SafeInv'
  BY <1>29, IdsDisjoint DEF ReconcileRequest, Goto
<1>30. ASSUME NEW c \in Clients, Reconcile(c) PROVE SafeInv'
  BY <1>30, IdsDisjoint
  DEF Reconcile, Return, Reconciled, ReconciledState, ReconcileOperations, Observed, Demoted
<1>31. ASSUME NEW r \in Runs, WatcherSkip(r) PROVE SafeInv'
  BY <1>31, IdsDisjoint DEF WatcherSkip, LoopEnds
<1>32. ASSUME NEW r \in Runs, WatcherSettle(r) PROVE SafeInv'
  BY <1>32, IdsDisjoint DEF WatcherSettle, Demoted
<1>33. ASSUME NEW r \in Runs, WatcherDispose(r) PROVE SafeInv'
  BY <1>33, IdsDisjoint
  DEF WatcherDispose, LoopEnds, RemoveIfDisposable, RemoveInstance, DeleteRows, ReconcileRun,
      Observed, FinishRun
<1>34. ASSUME NEW r \in Runs, ReaderPoll(r) PROVE SafeInv'
  BY <1>34, IdsDisjoint DEF ReaderPoll, LoopEnds
<1>35. ASSUME NEW r \in Runs, ReaderQuery(r) PROVE SafeInv'
  BY <1>35, IdsDisjoint DEF ReaderQuery, InstallRecovered
<1>36. ASSUME NEW r \in Runs, ReaderApply(r) PROVE SafeInv'
  BY <1>36, IdsDisjoint DEF ReaderApply
<1>37. ASSUME NEW r \in Runs, VmExit(r) PROVE SafeInv'
  BY <1>37, IdsDisjoint DEF VmExit
<1>38. ASSUME Create PROVE SafeInv'
  BY <1>38, IdsDisjoint DEF Create
<1>39. ASSUME Crash PROVE SafeInv'
  BY <1>39, IdsDisjoint DEF Crash
<1> QED
  BY Zenon, <1>1, <1>2, <1>3, <1>4, <1>5, <1>6, <1>7, <1>8, <1>9, <1>10, <1>11, <1>12, <1>13,
     <1>14, SafeStartEnlist, <1>15, <1>16, <1>17, <1>18, <1>19, <1>20, <1>21, <1>22, <1>23,
     <1>24, <1>25, <1>26, <1>27, <1>28, <1>29, <1>30, <1>31, SafeWatcherExit, <1>32, <1>33,
     <1>34, <1>35, <1>36, <1>37, <1>38, <1>39, SafeBoot
  DEF Next, ClientRequest, ClientStep, StartSteps, ActionSteps, OtherSteps, WatcherStep,
      ReaderStep

LEMMA Inductive ==
    ASSUME ~SameSecond, IInv, CarriesRun, [Next]_vars PROVE IInv' /\ CarriesRun'
<1> USE DEF IInv, TInv
<1>1. TInv'
  BY TypeNext
<1>2. CASE Next
  <2>1. GateInv' /\ DownInv'
    BY <1>2, GateNext
  <2>2. CarriedInv'
    BY <1>2, CarriedNext
  <2>3. SafeInv'
    BY <1>2, SafeNext DEF SafeInv
  <2> QED BY <1>1, <2>1, <2>2, <2>3 DEF SafeInv
<1>3. CASE UNCHANGED vars
  <2>1. GateInv' /\ DownInv' /\ CarriedInv'
    BY <1>3 DEF vars, GateInv, DownInv, CarriedInv, BeforeRecord, AfterRecord
  <2>2. SafeInv'
    BY <1>3 DEF vars, SafeInv, DeadInv, StartingInv, LiveIsActive, LiveIsLatest, StoppedIsDead,
       LiveIsSupervised, NoLive, LiveRow, Alive, HasRow, Active, Starting
  <2> QED BY <1>1, <2>1, <2>2 DEF SafeInv
<1> QED BY <1>2, <1>3

LEMMA Initially ==
    ASSUME Init PROVE IInv /\ CarriesRun
<1>1. TInv
  BY TypeInit
<1>2. GateInv /\ DownInv /\ CarriedInv
  BY DEF Init, GateInv, DownInv, CarriedInv, BeforeRecord, AfterRecord
<1>3. \A r \in Runs : ~LiveRow(r)
  BY DEF Init, LiveRow, HasRow
<1>4. DeadInv /\ StartingInv
  BY <1>3 DEF Init, DeadInv, StartingInv, NoLive, DeadPC
<1> QED
  BY <1>1, <1>2, <1>3, <1>4 DEF TInv, IInv, LiveIsActive, LiveIsLatest, StoppedIsDead, LiveIsSupervised

\* As long as created_at orders the runs of an instance: at most one recorded
\* QEMU lives, active_run returns it, the supervisor of the instance owns it
\* unless its start is still running, and no state in which deletion, snapshots
\* or edits are allowed hides it.  Crashes of the daemon, failures of every step
\* and any number of clients and runs are included.
THEOREM RecordedProcesses ==
    ASSUME ~SameSecond
    PROVE  Spec => [](OneVm /\ LiveIsActive /\ StoppedIsDead /\ LiveIsSupervised)
<1>1. Init => IInv /\ CarriesRun
  BY Initially
<1>2. IInv /\ CarriesRun /\ [Next]_vars => (IInv /\ CarriesRun)'
  BY Inductive
<1>3. IInv => OneVm /\ LiveIsActive /\ StoppedIsDead /\ LiveIsSupervised
  BY DEF IInv, LiveIsLatest, OneVm
<1> QED BY <1>1, <1>2, <1>3, PTL DEF Spec

-----------------------------------------------------------------------------
(* Start operations, the history of a run, its watcher and its helpers     *)

\* A start that has not begun its operation, or has settled it.
Unbegun(c) ==
    \/ pc[c] \in {"helpers", "settle", "demote", "begin"}
    \/ pc[c] \in StopPC /\ req[c] = "restart"

\* An operation row exists only between begin_operation and its settlement.
OpInv == \A c \in Clients : /\ Unbegun(c) => op[trun[c]] = "none"
                            /\ pc[c] = "install" => op[trun[c]] # "accepted"

\* A start before its spawn.
Unspawned(c) == Unbegun(c) \/ pc[c] = "spawn"
Sampled == {"enlist", "stamp_running", "stamp_uncertain", "video"}

\* Whatever names a run that was ever spawned: its row, the supervisor and the
\* tasks that read the active run.  A run id is never started twice.
UsedInv ==
    /\ \A r \in Runs : runs[r] # "none" \/ owner = r => proc[r] # "none"
    /\ \A c \in Clients :
          /\ Unspawned(c) => proc[trun[c]] = "none"
          /\ AfterRecord(c) \/ pc[c] = "record" => proc[trun[c]] # "none"
          /\ pc[c] \in Sampled => trun[c] \in Runs /\ proc[trun[c]] # "none"
          /\ BeforeRecord(c) => /\ owner # trun[c]
                                /\ \A d \in Clients \ {c} : trun[d] # trun[c]
    /\ owner = NoRun => conn = "none" /\ ~watching

\* A start carries its run until it has looked at the watchers.
Enlisting(r) == \E c \in Clients : trun[c] = r /\ pc[c] \in StartPC \cup {"watch", "enlist"}

WatchInv ==
    /\ \A r \in Runs :
          /\ watcher[r] \in {"exited", "failed", "dispose"} => ~Alive(r)
          /\ owner = r /\ watching /\ LiveRow(r) => watcher[r] # "off"
          /\ up /\ LiveRow(r) /\ ~Enlisting(r) => watcher[r] # "off"

\* An unrecorded process is that of the start that is about to record it.
ProcInv ==
    \A r \in Runs : Alive(r) /\ ~HasRow(r)
                    => \E c \in Clients : pc[c] = "record" /\ trun[c] = r

HelpInv ==
    \A c \in Clients :
       /\ pc[c] = "fail" => ~Alive(trun[c])
       /\ pc[c] \in {"spawn", "fail"} /\ proc[trun[c]] = "none" => op[trun[c]] # "completed"
       /\ pc[c] \in {"conclude_exited", "conclude_failed", "teardown"}
          => owner \in Runs /\ ~Alive(owner)

-----------------------------------------------------------------------------
(* Operations are settled                                                  *)

LEMMA OpNext ==
    ASSUME TInv, GateInv, DownInv, OpInv, AcceptedInFlight, Next
    PROVE  OpInv' /\ AcceptedInFlight'
<1> USE DEF TInv, TypeOK, RowsOK, TasksOK, ObserversOK, CarriesRun, GateInv, DownInv, OpInv,
        Unbegun, AcceptedInFlight, Starting, WatcherGate, ReaderGate
<1>1. ASSUME NEW c \in Clients, StartRequest(c) PROVE OpInv' /\ AcceptedInFlight'
  BY <1>1, IdsDisjoint DEF StartRequest, Fresh, Acquire
<1>2. ASSUME NEW c \in Clients, StartHelpers(c) PROVE OpInv' /\ AcceptedInFlight'
  BY <1>2, IdsDisjoint DEF StartHelpers, Hold, Goto, StartError, Release, Return
<1>3. ASSUME NEW c \in Clients, StartSettle(c) PROVE OpInv' /\ AcceptedInFlight'
  BY <1>3, IdsDisjoint
  DEF StartSettle, Hold, Goto, StartError, Release, Return, Active, ActiveChoice, ReconcileRun,
      Observed, FinishRun, StopHelper
<1>4. ASSUME NEW c \in Clients, StartDemote(c) PROVE OpInv' /\ AcceptedInFlight'
  BY <1>4, IdsDisjoint DEF StartDemote, Hold, Goto, Demoted
<1>5. ASSUME NEW c \in Clients, StartBegin(c) PROVE OpInv' /\ AcceptedInFlight'
  BY <1>5, IdsDisjoint DEF StartBegin, Hold, Goto
<1>6. ASSUME NEW c \in Clients, StartSpawn(c) PROVE OpInv' /\ AcceptedInFlight'
  BY <1>6, IdsDisjoint DEF StartSpawn, Hold, Goto
<1>7. ASSUME NEW c \in Clients, StartRecord(c) PROVE OpInv' /\ AcceptedInFlight'
  BY <1>7, IdsDisjoint DEF StartRecord, Hold, Goto, Killed
<1>8. ASSUME NEW c \in Clients, StartConnect(c) PROVE OpInv' /\ AcceptedInFlight'
  BY <1>8, IdsDisjoint DEF StartConnect, Hold, Goto, Killed, Alive
<1>9. ASSUME NEW c \in Clients, StartFail(c) PROVE OpInv' /\ AcceptedInFlight'
  BY <1>9, IdsDisjoint
  DEF StartFail, StartError, Release, Return, Goto, FailOperation, FinishRun, StopHelper
<1>10. ASSUME NEW c \in Clients, StartPost(c) PROVE OpInv' /\ AcceptedInFlight'
  BY <1>10, IdsDisjoint DEF StartPost, Hold, Goto
<1>11. ASSUME NEW c \in Clients, StartRollback(c) PROVE OpInv' /\ AcceptedInFlight'
  BY <1>11, IdsDisjoint
  DEF StartRollback, StartError, Release, Return, Goto, FailOperation, FinishRun, StopHelper,
      Killed, ExitStatuses, Concluded, Demoted
<1>12. ASSUME NEW c \in Clients, StartPublish(c) PROVE OpInv' /\ AcceptedInFlight'
  BY <1>12, IdsDisjoint DEF StartPublish, Hold, Goto
<1>13. ASSUME NEW c \in Clients, StartInstall(c) PROVE OpInv' /\ AcceptedInFlight'
  BY <1>13, IdsDisjoint DEF StartInstall, Goto, StartError, Release, Return, Killed, StopHelper
<1>14. ASSUME NEW c \in Clients, StartWatch(c) PROVE OpInv' /\ AcceptedInFlight'
  BY <1>14, IdsDisjoint DEF StartWatch, Goto, Return, Active, ActiveChoice
<1>15. ASSUME NEW c \in Clients, StartEnlist(c) PROVE OpInv' /\ AcceptedInFlight'
  BY <1>15, IdsDisjoint DEF StartEnlist, Return, Observe
<1>16. ASSUME NEW c \in Clients, StartCleanup(c) PROVE OpInv' /\ AcceptedInFlight'
  BY <1>16, IdsDisjoint
  DEF StartCleanup, Return, RemoveIfDisposable, RemoveInstance, DeleteRows, Active, ActiveChoice,
      ReconcileRun, Observed, FinishRun
<1>17. ASSUME NEW c \in Clients, RestartRequest(c) PROVE OpInv' /\ AcceptedInFlight'
  BY <1>17, IdsDisjoint DEF RestartRequest, Fresh, Acquire
<1>18. ASSUME NEW c \in Clients, ActionRequest(c) PROVE OpInv' /\ AcceptedInFlight'
  BY <1>18, IdsDisjoint DEF ActionRequest, Acquire
<1>19. ASSUME NEW c \in Clients, ActionRecover(c) PROVE OpInv' /\ AcceptedInFlight'
  BY <1>19, IdsDisjoint
  DEF ActionRecover, Recover, NoLiveRun, Hold, Goto, Release, Return, Active, ActiveChoice,
      ReconcileRun, Observed, FinishRun, Demoted, InstallRecovered, AdoptsHelpers, Alive
<1>20. ASSUME NEW c \in Clients, ActionPauseResume(c) PROVE OpInv' /\ AcceptedInFlight'
  BY <1>20, IdsDisjoint DEF ActionPauseResume, Disconnect, Release, Return
<1>21. ASSUME NEW c \in Clients, ActionReset(c) PROVE OpInv' /\ AcceptedInFlight'
  BY <1>21, IdsDisjoint DEF ActionReset, Disconnect, Release, Return
<1>22. ASSUME NEW c \in Clients, ActionStop(c) PROVE OpInv' /\ AcceptedInFlight'
  BY <1>22, IdsDisjoint DEF ActionStop, Disconnect, Release, Return, Hold, Goto
<1>23. ASSUME NEW c \in Clients, ActionQuit(c) PROVE OpInv' /\ AcceptedInFlight'
  BY <1>23, IdsDisjoint
  DEF ActionQuit, Finish, StopError, ConcludePC, Disconnect, Release, Return, Hold, Goto,
      FinishRun, Killed, ExitStatuses
<1>24. ASSUME NEW c \in Clients, ActionConclude(c) PROVE OpInv' /\ AcceptedInFlight'
  BY <1>24, IdsDisjoint DEF ActionConclude, StopError, Disconnect, Release, Return, Hold, Goto
<1>25. ASSUME NEW c \in Clients, ActionTeardown(c) PROVE OpInv' /\ AcceptedInFlight'
  BY <1>25, IdsDisjoint
  DEF ActionTeardown, Teardown, Release, Return, Hold, Goto, StopHelper, RemoveIfDisposable,
      RemoveInstance, DeleteRows, Active, ActiveChoice, ReconcileRun, Observed, FinishRun
<1>26. ASSUME NEW c \in Clients, Remove(c) PROVE OpInv' /\ AcceptedInFlight'
  BY <1>26, IdsDisjoint
  DEF Remove, RemoveInstance, DeleteRows, Active, ActiveChoice, ReconcileRun, Observed, FinishRun
<1>27. ASSUME NEW c \in Clients, DisplayRequest(c) PROVE OpInv' /\ AcceptedInFlight'
  BY <1>27, IdsDisjoint DEF DisplayRequest, Goto, Active, ActiveChoice
<1>28. ASSUME NEW c \in Clients, DisplayStamp(c) PROVE OpInv' /\ AcceptedInFlight'
  BY <1>28, IdsDisjoint DEF DisplayStamp, Goto, Return
<1>29. ASSUME NEW c \in Clients, DisplayVideo(c) PROVE OpInv' /\ AcceptedInFlight'
  BY <1>29, IdsDisjoint DEF DisplayVideo, Return
<1>30. ASSUME NEW c \in Clients, ReconcileRequest(c) PROVE OpInv' /\ AcceptedInFlight'
  BY <1>30, IdsDisjoint DEF ReconcileRequest, Goto
<1>31. ASSUME NEW c \in Clients, Reconcile(c) PROVE OpInv' /\ AcceptedInFlight'
  BY <1>31, IdsDisjoint
  DEF Reconcile, Return, Reconciled, ReconciledState, ReconcileOperations, Observed, Demoted,
      Active, ActiveChoice
<1>32. ASSUME NEW r \in Runs, WatcherSkip(r) PROVE OpInv' /\ AcceptedInFlight'
  BY <1>32, IdsDisjoint DEF WatcherSkip, LoopEnds
<1>33. ASSUME NEW r \in Runs, WatcherExit(r) PROVE OpInv' /\ AcceptedInFlight'
  BY <1>33, IdsDisjoint DEF WatcherExit, Teardown, FinishRun, Demoted, StopHelper, Active
<1>34. ASSUME NEW r \in Runs, WatcherSettle(r) PROVE OpInv' /\ AcceptedInFlight'
  BY <1>34, IdsDisjoint DEF WatcherSettle, Demoted
<1>35. ASSUME NEW r \in Runs, WatcherDispose(r) PROVE OpInv' /\ AcceptedInFlight'
  BY <1>35, IdsDisjoint
  DEF WatcherDispose, LoopEnds, RemoveIfDisposable, RemoveInstance, DeleteRows, Active,
      ActiveChoice, ReconcileRun, Observed, FinishRun
<1>36. ASSUME NEW r \in Runs, ReaderPoll(r) PROVE OpInv' /\ AcceptedInFlight'
  BY <1>36, IdsDisjoint DEF ReaderPoll, LoopEnds
<1>37. ASSUME NEW r \in Runs, ReaderQuery(r) PROVE OpInv' /\ AcceptedInFlight'
  BY <1>37, IdsDisjoint DEF ReaderQuery, InstallRecovered, Alive
<1>38. ASSUME NEW r \in Runs, ReaderApply(r) PROVE OpInv' /\ AcceptedInFlight'
  BY <1>38, IdsDisjoint DEF ReaderApply
<1>39. ASSUME NEW r \in Runs, VmExit(r) PROVE OpInv' /\ AcceptedInFlight'
  BY <1>39, IdsDisjoint DEF VmExit
<1>40. ASSUME Create PROVE OpInv' /\ AcceptedInFlight'
  BY <1>40, IdsDisjoint DEF Create
<1>41. ASSUME Crash PROVE OpInv' /\ AcceptedInFlight'
  BY <1>41, IdsDisjoint DEF Crash
<1>42. ASSUME Boot PROVE OpInv' /\ AcceptedInFlight'
  BY <1>42, IdsDisjoint
  DEF Boot, Observe, BootRecover, Reconciled, ReconciledState, ReconcileOperations, Observed,
      Demoted, Active, ActiveChoice
<1> QED
  BY Zenon, <1>1, <1>2, <1>3, <1>4, <1>5, <1>6, <1>7, <1>8, <1>9, <1>10, <1>11, <1>12, <1>13,
     <1>14, <1>15, <1>16, <1>17, <1>18, <1>19, <1>20, <1>21, <1>22, <1>23, <1>24, <1>25, <1>26,
     <1>27, <1>28, <1>29, <1>30, <1>31, <1>32, <1>33, <1>34, <1>35, <1>36, <1>37, <1>38, <1>39,
     <1>40, <1>41, <1>42
  DEF Next, ClientRequest, ClientStep, StartSteps, ActionSteps, OtherSteps, WatcherStep,
      ReaderStep

-----------------------------------------------------------------------------
(* A run is started once                                                   *)

\* What a reconciliation leaves of the rows.
LEMMA ReconciledRows ==
    ASSUME TInv
    PROVE  /\ \A s \in Runs : Reconciled[s] # "none" <=> runs[s] # "none"
           /\ ActiveChoice(Reconciled) \subseteq Runs
<1>1. \A s \in Runs : Reconciled[s] # "none" <=> runs[s] # "none"
  BY DEF TInv, TypeOK, RowsOK, Reconciled, Active, Observed
<1> QED BY <1>1 DEF ActiveChoice, Active

LEMMA BootRows ==
    ASSUME TInv, Boot
    PROVE  \A s \in Runs : runs'[s] # "none" <=> runs[s] # "none"
<1>1. runs' = Reconciled \/ \E a \in Runs : runs' = [Reconciled EXCEPT ![a] = "failed"] /\ Reconciled[a] # "none"
  BY ReconciledRows DEF Boot, BootRecover, ActiveChoice, Active
<1> QED BY <1>1, ReconciledRows DEF Reconciled

LEMMA UsedBoot ==
    ASSUME TInv, DownInv, UsedInv, Boot
    PROVE  UsedInv'
<1>1. \A c \in Clients : pc[c] = "idle" /\ pc'[c] = "idle"
  BY DEF DownInv, Boot
<1>2. owner' = owner \/ (owner' \in Runs /\ runs[owner'] # "none")
  <2>1. owner' = owner \/ \E r \in Runs : owner' = r /\ Reconciled[r] = "running"
    BY DEF Boot
  <2> QED BY <2>1, ReconciledRows
<1>3. owner' = NoRun => conn' = "none" /\ ~watching'
  BY <1>2, IdsDisjoint DEF Boot, UsedInv
<1> QED
  BY <1>1, <1>2, <1>3, BootRows DEF Boot, UsedInv, Unspawned, Unbegun, BeforeRecord, AfterRecord, Sampled

LEMMA UsedReaderPoll ==
    ASSUME TInv, UsedInv, NEW r \in Runs, ReaderPoll(r)
    PROVE  UsedInv'
<1>1. owner = NoRun => ~watching'
  BY Zenon DEF ReaderPoll, LoopEnds, UsedInv
<1> QED
  BY <1>1 DEF ReaderPoll, UsedInv, Unspawned, Unbegun, BeforeRecord, AfterRecord, Sampled

LEMMA UsedNext ==
    ASSUME TInv, GateInv, DownInv, CarriedInv, UsedInv, Next
    PROVE  UsedInv'
<1> USE DEF TInv, TypeOK, RowsOK, ProcsOK, TasksOK, SuperOK, CarriesRun, GateInv, DownInv,
        CarriedInv, BeforeRecord, AfterRecord, HasRow, WatcherGate, ReaderGate, Alive, Active,
        ActiveChoice, UsedInv, Unspawned, Unbegun, Sampled
<1>1. ASSUME NEW c \in Clients, StartRequest(c) PROVE UsedInv'
  BY <1>1, IdsDisjoint DEF StartRequest, Fresh, Carried, Acquire
<1>2. ASSUME NEW c \in Clients, StartHelpers(c) PROVE UsedInv'
  BY <1>2, IdsDisjoint DEF StartHelpers, Hold, Goto, StartError, Release, Return
<1>3. ASSUME NEW c \in Clients, StartSettle(c) PROVE UsedInv'
  BY <1>3, IdsDisjoint
  DEF StartSettle, Hold, Goto, StartError, Release, Return, ReconcileRun, Observed, FinishRun,
      StopHelper
<1>4. ASSUME NEW c \in Clients, StartDemote(c) PROVE UsedInv'
  BY <1>4, IdsDisjoint DEF StartDemote, Hold, Goto, Demoted
<1>5. ASSUME NEW c \in Clients, StartBegin(c) PROVE UsedInv'
  BY <1>5, IdsDisjoint DEF StartBegin, Hold, Goto
<1>6. ASSUME NEW c \in Clients, StartSpawn(c) PROVE UsedInv'
  BY <1>6, IdsDisjoint DEF StartSpawn, Hold, Goto
<1>7. ASSUME NEW c \in Clients, StartRecord(c) PROVE UsedInv'
  BY <1>7, IdsDisjoint DEF StartRecord, Hold, Goto, Killed
<1>8. ASSUME NEW c \in Clients, StartConnect(c) PROVE UsedInv'
  BY <1>8, IdsDisjoint DEF StartConnect, Hold, Goto, Killed
<1>9. ASSUME NEW c \in Clients, StartFail(c) PROVE UsedInv'
  BY <1>9, IdsDisjoint
  DEF StartFail, StartError, Release, Return, Goto, FailOperation, FinishRun, StopHelper
<1>10. ASSUME NEW c \in Clients, StartPost(c) PROVE UsedInv'
  BY <1>10, IdsDisjoint DEF StartPost, Hold, Goto
<1>11. ASSUME NEW c \in Clients, StartRollback(c) PROVE UsedInv'
  BY <1>11, IdsDisjoint
  DEF StartRollback, StartError, Release, Return, Goto, FailOperation, FinishRun, StopHelper,
      Killed, ExitStatuses, Concluded, Demoted
<1>12. ASSUME NEW c \in Clients, StartPublish(c) PROVE UsedInv'
  BY <1>12, IdsDisjoint DEF StartPublish, Hold, Goto
<1>13. ASSUME NEW c \in Clients, StartInstall(c) PROVE UsedInv'
  BY <1>13, IdsDisjoint DEF StartInstall, Goto, StartError, Release, Return, Killed, StopHelper
<1>14. ASSUME NEW c \in Clients, StartWatch(c) PROVE UsedInv'
  BY <1>14, IdsDisjoint DEF StartWatch, Goto, Return
<1>15. ASSUME NEW c \in Clients, StartEnlist(c) PROVE UsedInv'
  BY <1>15, IdsDisjoint DEF StartEnlist, Return, Observe
<1>16. ASSUME NEW c \in Clients, StartCleanup(c) PROVE UsedInv'
  BY <1>16, IdsDisjoint
  DEF StartCleanup, Return, RemoveIfDisposable, RemoveInstance, DeleteRows, ReconcileRun,
      Observed, FinishRun
<1>17. ASSUME NEW c \in Clients, RestartRequest(c) PROVE UsedInv'
  BY <1>17, IdsDisjoint DEF RestartRequest, Fresh, Carried, Acquire
<1>18. ASSUME NEW c \in Clients, ActionRequest(c) PROVE UsedInv'
  BY <1>18, IdsDisjoint DEF ActionRequest, Acquire
<1>19. ASSUME NEW c \in Clients, ActionRecover(c) PROVE UsedInv'
  BY <1>19, IdsDisjoint
  DEF ActionRecover, Recover, NoLiveRun, Hold, Goto, Release, Return, ReconcileRun, Observed,
      FinishRun, Demoted, InstallRecovered, AdoptsHelpers
<1>20. ASSUME NEW c \in Clients, ActionPauseResume(c) PROVE UsedInv'
  BY <1>20, IdsDisjoint DEF ActionPauseResume, Disconnect, Release, Return
<1>21. ASSUME NEW c \in Clients, ActionReset(c) PROVE UsedInv'
  BY <1>21, IdsDisjoint DEF ActionReset, Disconnect, Release, Return
<1>22. ASSUME NEW c \in Clients, ActionStop(c) PROVE UsedInv'
  BY <1>22, IdsDisjoint DEF ActionStop, Disconnect, Release, Return, Hold, Goto
<1>23. ASSUME NEW c \in Clients, ActionQuit(c) PROVE UsedInv'
  BY <1>23, IdsDisjoint
  DEF ActionQuit, Finish, StopError, ConcludePC, Disconnect, Release, Return, Hold, Goto,
      FinishRun, Killed, ExitStatuses
<1>24. ASSUME NEW c \in Clients, ActionConclude(c) PROVE UsedInv'
  BY <1>24, IdsDisjoint DEF ActionConclude, StopError, Disconnect, Release, Return, Hold, Goto
<1>25. ASSUME NEW c \in Clients, ActionTeardown(c) PROVE UsedInv'
  BY <1>25, IdsDisjoint
  DEF ActionTeardown, Teardown, Release, Return, Hold, Goto, StopHelper, RemoveIfDisposable,
      RemoveInstance, DeleteRows, ReconcileRun, Observed, FinishRun
<1>26. ASSUME NEW c \in Clients, Remove(c) PROVE UsedInv'
  BY <1>26, IdsDisjoint DEF Remove, RemoveInstance, DeleteRows, ReconcileRun, Observed, FinishRun
<1>27. ASSUME NEW c \in Clients, DisplayRequest(c) PROVE UsedInv'
  BY <1>27, IdsDisjoint DEF DisplayRequest, Goto
<1>28. ASSUME NEW c \in Clients, DisplayStamp(c) PROVE UsedInv'
  BY <1>28, IdsDisjoint DEF DisplayStamp, Goto, Return
<1>29. ASSUME NEW c \in Clients, DisplayVideo(c) PROVE UsedInv'
  BY <1>29, IdsDisjoint DEF DisplayVideo, Return
<1>30. ASSUME NEW c \in Clients, ReconcileRequest(c) PROVE UsedInv'
  BY <1>30, IdsDisjoint DEF ReconcileRequest, Goto
<1>31. ASSUME NEW c \in Clients, Reconcile(c) PROVE UsedInv'
  BY <1>31, IdsDisjoint
  DEF Reconcile, Return, Reconciled, ReconciledState, ReconcileOperations, Observed, Demoted
<1>32. ASSUME NEW r \in Runs, WatcherSkip(r) PROVE UsedInv'
  BY <1>32, IdsDisjoint DEF WatcherSkip, LoopEnds
<1>33. ASSUME NEW r \in Runs, WatcherExit(r) PROVE UsedInv'
  BY <1>33, IdsDisjoint DEF WatcherExit, Teardown, FinishRun, Demoted, StopHelper
<1>34. ASSUME NEW r \in Runs, WatcherSettle(r) PROVE UsedInv'
  BY <1>34, IdsDisjoint DEF WatcherSettle, Demoted
<1>35. ASSUME NEW r \in Runs, WatcherDispose(r) PROVE UsedInv'
  BY <1>35, IdsDisjoint
  DEF WatcherDispose, LoopEnds, RemoveIfDisposable, RemoveInstance, DeleteRows, ReconcileRun,
      Observed, FinishRun
<1>36. ASSUME NEW r \in Runs, ReaderQuery(r) PROVE UsedInv'
  BY <1>36, IdsDisjoint DEF ReaderQuery, InstallRecovered
<1>37. ASSUME NEW r \in Runs, ReaderApply(r) PROVE UsedInv'
  BY <1>37, IdsDisjoint DEF ReaderApply
<1>38. ASSUME NEW r \in Runs, VmExit(r) PROVE UsedInv'
  BY <1>38, IdsDisjoint DEF VmExit
<1>39. ASSUME Create PROVE UsedInv'
  BY <1>39, IdsDisjoint DEF Create
<1>40. ASSUME Crash PROVE UsedInv'
  BY <1>40, IdsDisjoint DEF Crash
<1> QED
  BY Zenon, <1>1, <1>2, <1>3, <1>4, <1>5, <1>6, <1>7, <1>8, <1>9, <1>10, <1>11, <1>12, <1>13,
     <1>14, <1>15, <1>16, <1>17, <1>18, <1>19, <1>20, <1>21, <1>22, <1>23, <1>24, <1>25, <1>26,
     <1>27, <1>28, <1>29, <1>30, <1>31, <1>32, <1>33, <1>34, <1>35, UsedReaderPoll, <1>36, <1>37,
     <1>38, <1>39, <1>40, UsedBoot
  DEF Next, ClientRequest, ClientStep, StartSteps, ActionSteps, OtherSteps, WatcherStep,
      ReaderStep

-----------------------------------------------------------------------------
(* Watchers                                                                *)

LEMMA WatchBoot ==
    ASSUME TInv, DownInv, SafeInv, WatchInv, Boot
    PROVE  WatchInv'
<1> USE DEF TInv, TypeOK, ObserversOK
<1>1. \A s \in Runs : watcher'[s] \in {"off", "poll"}
  BY DEF DownInv, Boot, Observe
<1>2. \A s \in Runs : LiveRow(s)' <=> LiveRow(s)
  BY BootRows DEF Boot, LiveRow, Alive, HasRow
<1>3. \A s \in Runs : LiveRow(s) <=> Reconciled[s] = "running"
  BY DEF RowsOK, SafeInv, LiveIsActive, Reconciled, Active, Observed, LiveRow, HasRow
<1>4. ASSUME NEW s \in Runs, LiveRow(s) PROVE watcher'[s] # "off"
  <2>1. PICK r \in Runs : Reconciled[r] = "running" /\ watcher'[r] # "off"
    BY <1>3, <1>4 DEF Boot, Observe
  <2> QED BY <1>3, <1>4, <2>1 DEF SafeInv, LiveIsLatest
<1> QED BY <1>1, <1>2, <1>4 DEF WatchInv

LEMMA WatchNext ==
    ASSUME ~SameSecond, TInv, GateInv, DownInv, CarriedInv, SafeInv, UsedInv, WatchInv, Next
    PROVE  WatchInv'
<1> USE DEF TInv, TypeOK, RowsOK, ProcsOK, TasksOK, SuperOK, ObserversOK, CarriesRun, GateInv,
        DownInv, CarriedInv, BeforeRecord, AfterRecord, HasRow, WatcherGate, ReaderGate, SafeInv,
        DeadInv, LiveIsActive, LiveIsLatest, LiveIsSupervised, Starting, NoLive, LiveRow, Alive,
        Active, ActiveChoice, DeadPC, UsedInv, Unspawned, Unbegun, Sampled, WatchInv, Enlisting
<1>1. ASSUME NEW c \in Clients, StartRequest(c) PROVE WatchInv'
  BY <1>1, IdsDisjoint DEF StartRequest, Fresh, Carried, Acquire
<1>2. ASSUME NEW c \in Clients, StartHelpers(c) PROVE WatchInv'
  BY <1>2, IdsDisjoint DEF StartHelpers, Hold, Goto, StartError, Release, Return
<1>3. ASSUME NEW c \in Clients, StartSettle(c) PROVE WatchInv'
  BY <1>3, IdsDisjoint
  DEF StartSettle, Hold, Goto, StartError, Release, Return, ReconcileRun, Observed, FinishRun,
      StopHelper
<1>4. ASSUME NEW c \in Clients, StartDemote(c) PROVE WatchInv'
  BY <1>4, IdsDisjoint DEF StartDemote, Hold, Goto, Demoted
<1>5. ASSUME NEW c \in Clients, StartBegin(c) PROVE WatchInv'
  BY <1>5, IdsDisjoint DEF StartBegin, Hold, Goto
<1>6. ASSUME NEW c \in Clients, StartSpawn(c) PROVE WatchInv'
  BY <1>6, IdsDisjoint DEF StartSpawn, Hold, Goto
<1>7. ASSUME NEW c \in Clients, StartRecord(c) PROVE WatchInv'
  BY <1>7, IdsDisjoint DEF StartRecord, Hold, Goto, Killed
<1>8. ASSUME NEW c \in Clients, StartConnect(c) PROVE WatchInv'
  BY <1>8, IdsDisjoint DEF StartConnect, Hold, Goto, Killed
<1>9. ASSUME NEW c \in Clients, StartFail(c) PROVE WatchInv'
  BY <1>9, IdsDisjoint
  DEF StartFail, StartError, Release, Return, Goto, FailOperation, FinishRun, StopHelper
<1>10. ASSUME NEW c \in Clients, StartPost(c) PROVE WatchInv'
  BY <1>10, IdsDisjoint DEF StartPost, Hold, Goto
<1>11. ASSUME NEW c \in Clients, StartRollback(c) PROVE WatchInv'
  BY <1>11, IdsDisjoint
  DEF StartRollback, StartError, Release, Return, Goto, FailOperation, FinishRun, StopHelper,
      Killed, ExitStatuses, Concluded, Demoted
<1>12. ASSUME NEW c \in Clients, StartPublish(c) PROVE WatchInv'
  BY <1>12, IdsDisjoint DEF StartPublish, Hold, Goto
<1>13. ASSUME NEW c \in Clients, StartInstall(c) PROVE WatchInv'
  BY <1>13, IdsDisjoint DEF StartInstall, Goto, StartError, Release, Return, Killed, StopHelper
<1>14. ASSUME NEW c \in Clients, StartWatch(c) PROVE WatchInv'
  BY <1>14, IdsDisjoint DEF StartWatch, Goto, Return
<1>15. ASSUME NEW c \in Clients, StartEnlist(c) PROVE WatchInv'
  BY <1>15, IdsDisjoint DEF StartEnlist, Return, Observe
<1>16. ASSUME NEW c \in Clients, StartCleanup(c) PROVE WatchInv'
  BY <1>16, IdsDisjoint
  DEF StartCleanup, Return, RemoveIfDisposable, RemoveInstance, DeleteRows, ReconcileRun,
      Observed, FinishRun
<1>17. ASSUME NEW c \in Clients, RestartRequest(c) PROVE WatchInv'
  BY <1>17, IdsDisjoint DEF RestartRequest, Fresh, Carried, Acquire
<1>18. ASSUME NEW c \in Clients, ActionRequest(c) PROVE WatchInv'
  BY <1>18, IdsDisjoint DEF ActionRequest, Acquire
<1>19. ASSUME NEW c \in Clients, ActionRecover(c) PROVE WatchInv'
  BY <1>19, IdsDisjoint
  DEF ActionRecover, Recover, NoLiveRun, Hold, Goto, Release, Return, ReconcileRun, Observed,
      FinishRun, Demoted, InstallRecovered, AdoptsHelpers
<1>20. ASSUME NEW c \in Clients, ActionPauseResume(c) PROVE WatchInv'
  BY <1>20, IdsDisjoint DEF ActionPauseResume, Disconnect, Release, Return
<1>21. ASSUME NEW c \in Clients, ActionReset(c) PROVE WatchInv'
  BY <1>21, IdsDisjoint DEF ActionReset, Disconnect, Release, Return
<1>22. ASSUME NEW c \in Clients, ActionStop(c) PROVE WatchInv'
  BY <1>22, IdsDisjoint DEF ActionStop, Disconnect, Release, Return, Hold, Goto
<1>23. ASSUME NEW c \in Clients, ActionQuit(c) PROVE WatchInv'
  BY <1>23, IdsDisjoint
  DEF ActionQuit, Finish, StopError, ConcludePC, Disconnect, Release, Return, Hold, Goto,
      FinishRun, Killed, ExitStatuses
<1>24. ASSUME NEW c \in Clients, ActionConclude(c) PROVE WatchInv'
  BY <1>24, IdsDisjoint DEF ActionConclude, StopError, Disconnect, Release, Return, Hold, Goto
<1>25. ASSUME NEW c \in Clients, ActionTeardown(c) PROVE WatchInv'
  BY <1>25, IdsDisjoint
  DEF ActionTeardown, Teardown, Release, Return, Hold, Goto, StopHelper, RemoveIfDisposable,
      RemoveInstance, DeleteRows, ReconcileRun, Observed, FinishRun
<1>26. ASSUME NEW c \in Clients, Remove(c) PROVE WatchInv'
  BY <1>26, IdsDisjoint DEF Remove, RemoveInstance, DeleteRows, ReconcileRun, Observed, FinishRun
<1>27. ASSUME NEW c \in Clients, DisplayRequest(c) PROVE WatchInv'
  BY <1>27, IdsDisjoint DEF DisplayRequest, Goto
<1>28. ASSUME NEW c \in Clients, DisplayStamp(c) PROVE WatchInv'
  BY <1>28, IdsDisjoint DEF DisplayStamp, Goto, Return
<1>29. ASSUME NEW c \in Clients, DisplayVideo(c) PROVE WatchInv'
  BY <1>29, IdsDisjoint DEF DisplayVideo, Return
<1>30. ASSUME NEW c \in Clients, ReconcileRequest(c) PROVE WatchInv'
  BY <1>30, IdsDisjoint DEF ReconcileRequest, Goto
<1>31. ASSUME NEW c \in Clients, Reconcile(c) PROVE WatchInv'
  BY <1>31, IdsDisjoint
  DEF Reconcile, Return, Reconciled, ReconciledState, ReconcileOperations, Observed, Demoted
<1>32. ASSUME NEW r \in Runs, WatcherSkip(r) PROVE WatchInv'
  BY <1>32, IdsDisjoint DEF WatcherSkip, LoopEnds
<1>33. ASSUME NEW r \in Runs, WatcherExit(r) PROVE WatchInv'
  BY <1>33, IdsDisjoint DEF WatcherExit, Teardown, FinishRun, Demoted, StopHelper
<1>34. ASSUME NEW r \in Runs, WatcherSettle(r) PROVE WatchInv'
  BY <1>34, IdsDisjoint DEF WatcherSettle, Demoted
<1>35. ASSUME NEW r \in Runs, WatcherDispose(r) PROVE WatchInv'
  BY <1>35, IdsDisjoint
  DEF WatcherDispose, LoopEnds, RemoveIfDisposable, RemoveInstance, DeleteRows, ReconcileRun,
      Observed, FinishRun
<1>36. ASSUME NEW r \in Runs, ReaderPoll(r) PROVE WatchInv'
  BY <1>36, IdsDisjoint DEF ReaderPoll, LoopEnds
<1>37. ASSUME NEW r \in Runs, ReaderQuery(r) PROVE WatchInv'
  BY <1>37, IdsDisjoint DEF ReaderQuery, InstallRecovered
<1>38. ASSUME NEW r \in Runs, ReaderApply(r) PROVE WatchInv'
  BY <1>38, IdsDisjoint DEF ReaderApply
<1>39. ASSUME NEW r \in Runs, VmExit(r) PROVE WatchInv'
  BY <1>39, IdsDisjoint DEF VmExit
<1>40. ASSUME Create PROVE WatchInv'
  BY <1>40, IdsDisjoint DEF Create
<1>41. ASSUME Crash PROVE WatchInv'
  BY <1>41, IdsDisjoint DEF Crash
<1> QED
  BY Zenon, <1>1, <1>2, <1>3, <1>4, <1>5, <1>6, <1>7, <1>8, <1>9, <1>10, <1>11, <1>12, <1>13,
     <1>14, <1>15, <1>16, <1>17, <1>18, <1>19, <1>20, <1>21, <1>22, <1>23, <1>24, <1>25, <1>26,
     <1>27, <1>28, <1>29, <1>30, <1>31, <1>32, <1>33, <1>34, <1>35, <1>36, <1>37, <1>38, <1>39,
     <1>40, <1>41, WatchBoot
  DEF Next, ClientRequest, ClientStep, StartSteps, ActionSteps, OtherSteps, WatcherStep,
      ReaderStep

-----------------------------------------------------------------------------
(* Processes without a row                                                 *)

LEMMA ProcBoot ==
    ASSUME TInv, DownInv, ProcInv, Boot
    PROVE  ProcInv'
<1>1. \A c \in Clients : pc[c] = "idle"
  BY DEF DownInv, Boot
<1>2. \A s \in Runs : Alive(s) => HasRow(s)
  BY <1>1 DEF ProcInv
<1> QED BY <1>2, BootRows DEF Boot, ProcInv, Alive, HasRow

LEMMA ProcNext ==
    ASSUME ~SameSecond, "crash" \notin Faults, TInv, GateInv, DownInv, CarriedInv, SafeInv, ProcInv, Next
    PROVE  ProcInv'
<1> USE DEF TInv, TypeOK, RowsOK, ProcsOK, TasksOK, CarriesRun, GateInv, DownInv, CarriedInv,
        BeforeRecord, AfterRecord, HasRow, WatcherGate, ReaderGate, SafeInv, DeadInv,
        LiveIsActive, LiveIsLatest, NoLive, LiveRow, Alive, Active, ActiveChoice, DeadPC, ProcInv
<1>1. ASSUME NEW c \in Clients, StartRequest(c) PROVE ProcInv'
  BY <1>1, IdsDisjoint DEF StartRequest, Fresh, Carried, Acquire
<1>2. ASSUME NEW c \in Clients, StartHelpers(c) PROVE ProcInv'
  BY <1>2, IdsDisjoint DEF StartHelpers, Hold, Goto, StartError, Release, Return
<1>3. ASSUME NEW c \in Clients, StartSettle(c) PROVE ProcInv'
  BY <1>3, IdsDisjoint
  DEF StartSettle, Hold, Goto, StartError, Release, Return, ReconcileRun, Observed, FinishRun,
      StopHelper
<1>4. ASSUME NEW c \in Clients, StartDemote(c) PROVE ProcInv'
  BY <1>4, IdsDisjoint DEF StartDemote, Hold, Goto, Demoted
<1>5. ASSUME NEW c \in Clients, StartBegin(c) PROVE ProcInv'
  BY <1>5, IdsDisjoint DEF StartBegin, Hold, Goto
<1>6. ASSUME NEW c \in Clients, StartSpawn(c) PROVE ProcInv'
  BY <1>6, IdsDisjoint DEF StartSpawn, Hold, Goto
<1>7. ASSUME NEW c \in Clients, StartRecord(c) PROVE ProcInv'
  BY <1>7, IdsDisjoint DEF StartRecord, Hold, Goto, Killed
<1>8. ASSUME NEW c \in Clients, StartConnect(c) PROVE ProcInv'
  BY <1>8, IdsDisjoint DEF StartConnect, Hold, Goto, Killed
<1>9. ASSUME NEW c \in Clients, StartFail(c) PROVE ProcInv'
  BY <1>9, IdsDisjoint
  DEF StartFail, StartError, Release, Return, Goto, FailOperation, FinishRun, StopHelper
<1>10. ASSUME NEW c \in Clients, StartPost(c) PROVE ProcInv'
  BY <1>10, IdsDisjoint DEF StartPost, Hold, Goto
<1>11. ASSUME NEW c \in Clients, StartRollback(c) PROVE ProcInv'
  BY <1>11, IdsDisjoint
  DEF StartRollback, StartError, Release, Return, Goto, FailOperation, FinishRun, StopHelper,
      Killed, ExitStatuses, Concluded, Demoted
<1>12. ASSUME NEW c \in Clients, StartPublish(c) PROVE ProcInv'
  BY <1>12, IdsDisjoint DEF StartPublish, Hold, Goto
<1>13. ASSUME NEW c \in Clients, StartInstall(c) PROVE ProcInv'
  BY <1>13, IdsDisjoint DEF StartInstall, Goto, StartError, Release, Return, Killed, StopHelper
<1>14. ASSUME NEW c \in Clients, StartWatch(c) PROVE ProcInv'
  BY <1>14, IdsDisjoint DEF StartWatch, Goto, Return
<1>15. ASSUME NEW c \in Clients, StartEnlist(c) PROVE ProcInv'
  BY <1>15, IdsDisjoint DEF StartEnlist, Return, Observe
<1>16. ASSUME NEW c \in Clients, StartCleanup(c) PROVE ProcInv'
  BY <1>16, IdsDisjoint
  DEF StartCleanup, Return, RemoveIfDisposable, RemoveInstance, DeleteRows, ReconcileRun,
      Observed, FinishRun
<1>17. ASSUME NEW c \in Clients, RestartRequest(c) PROVE ProcInv'
  BY <1>17, IdsDisjoint DEF RestartRequest, Fresh, Carried, Acquire
<1>18. ASSUME NEW c \in Clients, ActionRequest(c) PROVE ProcInv'
  BY <1>18, IdsDisjoint DEF ActionRequest, Acquire
<1>19. ASSUME NEW c \in Clients, ActionRecover(c) PROVE ProcInv'
  BY <1>19, IdsDisjoint
  DEF ActionRecover, Recover, NoLiveRun, Hold, Goto, Release, Return, ReconcileRun, Observed,
      FinishRun, Demoted, InstallRecovered, AdoptsHelpers
<1>20. ASSUME NEW c \in Clients, ActionPauseResume(c) PROVE ProcInv'
  BY <1>20, IdsDisjoint DEF ActionPauseResume, Disconnect, Release, Return
<1>21. ASSUME NEW c \in Clients, ActionReset(c) PROVE ProcInv'
  BY <1>21, IdsDisjoint DEF ActionReset, Disconnect, Release, Return
<1>22. ASSUME NEW c \in Clients, ActionStop(c) PROVE ProcInv'
  BY <1>22, IdsDisjoint DEF ActionStop, Disconnect, Release, Return, Hold, Goto
<1>23. ASSUME NEW c \in Clients, ActionQuit(c) PROVE ProcInv'
  BY <1>23, IdsDisjoint
  DEF ActionQuit, Finish, StopError, ConcludePC, Disconnect, Release, Return, Hold, Goto,
      FinishRun, Killed, ExitStatuses
<1>24. ASSUME NEW c \in Clients, ActionConclude(c) PROVE ProcInv'
  BY <1>24, IdsDisjoint DEF ActionConclude, StopError, Disconnect, Release, Return, Hold, Goto
<1>25. ASSUME NEW c \in Clients, ActionTeardown(c) PROVE ProcInv'
  BY <1>25, IdsDisjoint
  DEF ActionTeardown, Teardown, Release, Return, Hold, Goto, StopHelper, RemoveIfDisposable,
      RemoveInstance, DeleteRows, ReconcileRun, Observed, FinishRun
<1>26. ASSUME NEW c \in Clients, Remove(c) PROVE ProcInv'
  BY <1>26, IdsDisjoint DEF Remove, RemoveInstance, DeleteRows, ReconcileRun, Observed, FinishRun
<1>27. ASSUME NEW c \in Clients, DisplayRequest(c) PROVE ProcInv'
  BY <1>27, IdsDisjoint DEF DisplayRequest, Goto
<1>28. ASSUME NEW c \in Clients, DisplayStamp(c) PROVE ProcInv'
  BY <1>28, IdsDisjoint DEF DisplayStamp, Goto, Return
<1>29. ASSUME NEW c \in Clients, DisplayVideo(c) PROVE ProcInv'
  BY <1>29, IdsDisjoint DEF DisplayVideo, Return
<1>30. ASSUME NEW c \in Clients, ReconcileRequest(c) PROVE ProcInv'
  BY <1>30, IdsDisjoint DEF ReconcileRequest, Goto
<1>31. ASSUME NEW c \in Clients, Reconcile(c) PROVE ProcInv'
  BY <1>31, IdsDisjoint
  DEF Reconcile, Return, Reconciled, ReconciledState, ReconcileOperations, Observed, Demoted
<1>32. ASSUME NEW r \in Runs, WatcherSkip(r) PROVE ProcInv'
  BY <1>32, IdsDisjoint DEF WatcherSkip, LoopEnds
<1>33. ASSUME NEW r \in Runs, WatcherExit(r) PROVE ProcInv'
  BY <1>33, IdsDisjoint DEF WatcherExit, Teardown, FinishRun, Demoted, StopHelper
<1>34. ASSUME NEW r \in Runs, WatcherSettle(r) PROVE ProcInv'
  BY <1>34, IdsDisjoint DEF WatcherSettle, Demoted
<1>35. ASSUME NEW r \in Runs, WatcherDispose(r) PROVE ProcInv'
  BY <1>35, IdsDisjoint
  DEF WatcherDispose, LoopEnds, RemoveIfDisposable, RemoveInstance, DeleteRows, ReconcileRun,
      Observed, FinishRun
<1>36. ASSUME NEW r \in Runs, ReaderPoll(r) PROVE ProcInv'
  BY <1>36, IdsDisjoint DEF ReaderPoll, LoopEnds
<1>37. ASSUME NEW r \in Runs, ReaderQuery(r) PROVE ProcInv'
  BY <1>37, IdsDisjoint DEF ReaderQuery, InstallRecovered
<1>38. ASSUME NEW r \in Runs, ReaderApply(r) PROVE ProcInv'
  BY <1>38, IdsDisjoint DEF ReaderApply
<1>39. ASSUME NEW r \in Runs, VmExit(r) PROVE ProcInv'
  BY <1>39, IdsDisjoint DEF VmExit
<1>40. ASSUME Create PROVE ProcInv'
  BY <1>40, IdsDisjoint DEF Create
<1>41. ASSUME Crash PROVE ProcInv'
  BY <1>41, IdsDisjoint DEF Crash
<1> QED
  BY Zenon, <1>1, <1>2, <1>3, <1>4, <1>5, <1>6, <1>7, <1>8, <1>9, <1>10, <1>11, <1>12, <1>13,
     <1>14, <1>15, <1>16, <1>17, <1>18, <1>19, <1>20, <1>21, <1>22, <1>23, <1>24, <1>25, <1>26,
     <1>27, <1>28, <1>29, <1>30, <1>31, <1>32, <1>33, <1>34, <1>35, <1>36, <1>37, <1>38, <1>39,
     <1>40, <1>41, ProcBoot
  DEF Next, ClientRequest, ClientStep, StartSteps, ActionSteps, OtherSteps, WatcherStep,
      ReaderStep

-----------------------------------------------------------------------------
(* Helpers                                                                 *)

\* A reconciliation completes operations only for a process that it sees alive.
LEMMA HelpReconcile ==
    ASSUME TInv, DeadInv, HelpInv, NEW c \in Clients, Reconcile(c)
    PROVE  HelpInv'
<1> USE DEF TInv, TypeOK, RowsOK, TasksOK, CarriesRun
<1>1. \A d \in Clients : pc'[d] = pc[d] \/ pc'[d] = "idle"
  BY DEF Reconcile, Return
<1>2. \A d \in Clients : pc'[d] # "idle" => trun'[d] = trun[d]
  BY DEF Reconcile, Return
<1>3. ASSUME NEW d \in Clients, pc[d] \in {"spawn", "fail"}, op'[trun[d]] = "completed"
      PROVE  op[trun[d]] = "completed"
  <2>1. NoLive /\ trun[d] \in Runs
    BY <1>3 DEF DeadInv, DeadPC
  <2>2. \A a \in Runs : Reconciled[a] # "running"
    BY <2>1 DEF Reconciled, Active, Observed, NoLive, LiveRow, HasRow
  <2>3. \A a \in ActiveChoice(Reconciled) : Reconciled[a] # "running"
    BY <2>2, ReconciledRows
  <2> QED BY <1>3, <2>1, <2>3 DEF Reconcile, ReconcileOperations
<1> QED BY <1>1, <1>2, <1>3 DEF Reconcile, HelpInv, Alive

LEMMA HelpNext ==
    ASSUME ~SameSecond, TInv, GateInv, DownInv, CarriedInv, SafeInv, OpInv, UsedInv, HelpInv, Next
    PROVE  HelpInv'
<1> USE DEF TInv, TypeOK, RowsOK, ProcsOK, TasksOK, SuperOK, CarriesRun, GateInv, DownInv,
        CarriedInv, BeforeRecord, AfterRecord, HasRow, WatcherGate, ReaderGate, SafeInv, DeadInv,
        LiveIsActive, LiveIsLatest, NoLive, LiveRow, Alive, Active, ActiveChoice, DeadPC, OpInv,
        UsedInv, Unspawned, Unbegun, Sampled, HelpInv
<1>1. ASSUME NEW c \in Clients, StartRequest(c) PROVE HelpInv'
  BY <1>1, IdsDisjoint DEF StartRequest, Fresh, Carried, Acquire
<1>2. ASSUME NEW c \in Clients, StartHelpers(c) PROVE HelpInv'
  BY <1>2, IdsDisjoint DEF StartHelpers, Hold, Goto, StartError, Release, Return
<1>3. ASSUME NEW c \in Clients, StartSettle(c) PROVE HelpInv'
  BY <1>3, IdsDisjoint
  DEF StartSettle, Hold, Goto, StartError, Release, Return, ReconcileRun, Observed, FinishRun,
      StopHelper
<1>4. ASSUME NEW c \in Clients, StartDemote(c) PROVE HelpInv'
  BY <1>4, IdsDisjoint DEF StartDemote, Hold, Goto, Demoted
<1>5. ASSUME NEW c \in Clients, StartBegin(c) PROVE HelpInv'
  BY <1>5, IdsDisjoint DEF StartBegin, Hold, Goto
<1>6. ASSUME NEW c \in Clients, StartSpawn(c) PROVE HelpInv'
  BY <1>6, IdsDisjoint DEF StartSpawn, Hold, Goto
<1>7. ASSUME NEW c \in Clients, StartRecord(c) PROVE HelpInv'
  BY <1>7, IdsDisjoint DEF StartRecord, Hold, Goto, Killed
<1>8. ASSUME NEW c \in Clients, StartConnect(c) PROVE HelpInv'
  BY <1>8, IdsDisjoint DEF StartConnect, Hold, Goto, Killed
<1>9. ASSUME NEW c \in Clients, StartFail(c) PROVE HelpInv'
  BY <1>9, IdsDisjoint
  DEF StartFail, StartError, Release, Return, Goto, FailOperation, FinishRun, StopHelper
<1>10. ASSUME NEW c \in Clients, StartPost(c) PROVE HelpInv'
  BY <1>10, IdsDisjoint DEF StartPost, Hold, Goto
<1>11. ASSUME NEW c \in Clients, StartRollback(c) PROVE HelpInv'
  BY <1>11, IdsDisjoint
  DEF StartRollback, StartError, Release, Return, Goto, FailOperation, FinishRun, StopHelper,
      Killed, ExitStatuses, Concluded, Demoted
<1>12. ASSUME NEW c \in Clients, StartPublish(c) PROVE HelpInv'
  BY <1>12, IdsDisjoint DEF StartPublish, Hold, Goto
<1>13. ASSUME NEW c \in Clients, StartInstall(c) PROVE HelpInv'
  BY <1>13, IdsDisjoint DEF StartInstall, Goto, StartError, Release, Return, Killed, StopHelper
<1>14. ASSUME NEW c \in Clients, StartWatch(c) PROVE HelpInv'
  BY <1>14, IdsDisjoint DEF StartWatch, Goto, Return
<1>15. ASSUME NEW c \in Clients, StartEnlist(c) PROVE HelpInv'
  BY <1>15, IdsDisjoint DEF StartEnlist, Return, Observe
<1>16. ASSUME NEW c \in Clients, StartCleanup(c) PROVE HelpInv'
  BY <1>16, IdsDisjoint
  DEF StartCleanup, Return, RemoveIfDisposable, RemoveInstance, DeleteRows, ReconcileRun,
      Observed, FinishRun
<1>17. ASSUME NEW c \in Clients, RestartRequest(c) PROVE HelpInv'
  BY <1>17, IdsDisjoint DEF RestartRequest, Fresh, Carried, Acquire
<1>18. ASSUME NEW c \in Clients, ActionRequest(c) PROVE HelpInv'
  BY <1>18, IdsDisjoint DEF ActionRequest, Acquire
<1>19. ASSUME NEW c \in Clients, ActionRecover(c) PROVE HelpInv'
  BY <1>19, IdsDisjoint
  DEF ActionRecover, Recover, NoLiveRun, Hold, Goto, Release, Return, ReconcileRun, Observed,
      FinishRun, Demoted, InstallRecovered, AdoptsHelpers
<1>20. ASSUME NEW c \in Clients, ActionPauseResume(c) PROVE HelpInv'
  BY <1>20, IdsDisjoint DEF ActionPauseResume, Disconnect, Release, Return
<1>21. ASSUME NEW c \in Clients, ActionReset(c) PROVE HelpInv'
  BY <1>21, IdsDisjoint DEF ActionReset, Disconnect, Release, Return
<1>22. ASSUME NEW c \in Clients, ActionStop(c) PROVE HelpInv'
  BY <1>22, IdsDisjoint DEF ActionStop, Disconnect, Release, Return, Hold, Goto
<1>23. ASSUME NEW c \in Clients, ActionQuit(c) PROVE HelpInv'
  BY <1>23, IdsDisjoint
  DEF ActionQuit, Finish, StopError, ConcludePC, Disconnect, Release, Return, Hold, Goto,
      FinishRun, Killed, ExitStatuses
<1>24. ASSUME NEW c \in Clients, ActionConclude(c) PROVE HelpInv'
  BY <1>24, IdsDisjoint DEF ActionConclude, StopError, Disconnect, Release, Return, Hold, Goto
<1>25. ASSUME NEW c \in Clients, ActionTeardown(c) PROVE HelpInv'
  BY <1>25, IdsDisjoint
  DEF ActionTeardown, Teardown, Release, Return, Hold, Goto, StopHelper, RemoveIfDisposable,
      RemoveInstance, DeleteRows, ReconcileRun, Observed, FinishRun
<1>26. ASSUME NEW c \in Clients, Remove(c) PROVE HelpInv'
  BY <1>26, IdsDisjoint DEF Remove, RemoveInstance, DeleteRows, ReconcileRun, Observed, FinishRun
<1>27. ASSUME NEW c \in Clients, DisplayRequest(c) PROVE HelpInv'
  BY <1>27, IdsDisjoint DEF DisplayRequest, Goto
<1>28. ASSUME NEW c \in Clients, DisplayStamp(c) PROVE HelpInv'
  BY <1>28, IdsDisjoint DEF DisplayStamp, Goto, Return
<1>29. ASSUME NEW c \in Clients, DisplayVideo(c) PROVE HelpInv'
  BY <1>29, IdsDisjoint DEF DisplayVideo, Return
<1>30. ASSUME NEW c \in Clients, ReconcileRequest(c) PROVE HelpInv'
  BY <1>30, IdsDisjoint DEF ReconcileRequest, Goto
<1>31. ASSUME NEW r \in Runs, WatcherSkip(r) PROVE HelpInv'
  BY <1>31, IdsDisjoint DEF WatcherSkip, LoopEnds
<1>32. ASSUME NEW r \in Runs, WatcherExit(r) PROVE HelpInv'
  BY <1>32, IdsDisjoint DEF WatcherExit, Teardown, FinishRun, Demoted, StopHelper
<1>33. ASSUME NEW r \in Runs, WatcherSettle(r) PROVE HelpInv'
  BY <1>33, IdsDisjoint DEF WatcherSettle, Demoted
<1>34. ASSUME NEW r \in Runs, WatcherDispose(r) PROVE HelpInv'
  BY <1>34, IdsDisjoint
  DEF WatcherDispose, LoopEnds, RemoveIfDisposable, RemoveInstance, DeleteRows, ReconcileRun,
      Observed, FinishRun
<1>35. ASSUME NEW r \in Runs, ReaderPoll(r) PROVE HelpInv'
  BY <1>35, IdsDisjoint DEF ReaderPoll, LoopEnds
<1>36. ASSUME NEW r \in Runs, ReaderQuery(r) PROVE HelpInv'
  BY <1>36, IdsDisjoint DEF ReaderQuery, InstallRecovered
<1>37. ASSUME NEW r \in Runs, ReaderApply(r) PROVE HelpInv'
  BY <1>37, IdsDisjoint DEF ReaderApply
<1>38. ASSUME NEW r \in Runs, VmExit(r) PROVE HelpInv'
  BY <1>38, IdsDisjoint DEF VmExit
<1>39. ASSUME Create PROVE HelpInv'
  BY <1>39, IdsDisjoint DEF Create
<1>40. ASSUME Crash PROVE HelpInv'
  BY <1>40, IdsDisjoint DEF Crash
<1>41. ASSUME Boot PROVE HelpInv'
  BY <1>41, IdsDisjoint
  DEF Boot, Observe, BootRecover, Reconciled, ReconciledState, ReconcileOperations, Observed,
      Demoted
<1> QED
  BY Zenon, <1>1, <1>2, <1>3, <1>4, <1>5, <1>6, <1>7, <1>8, <1>9, <1>10, <1>11, <1>12, <1>13,
     <1>14, <1>15, <1>16, <1>17, <1>18, <1>19, <1>20, <1>21, <1>22, <1>23, <1>24, <1>25, <1>26,
     <1>27, <1>28, <1>29, <1>30, HelpReconcile, <1>31, <1>32, <1>33, <1>34, <1>35, <1>36, <1>37,
     <1>38, <1>39, <1>40, <1>41
  DEF Next, ClientRequest, ClientStep, StartSteps, ActionSteps, OtherSteps, WatcherStep,
      ReaderStep

-----------------------------------------------------------------------------
(* The theorems on tasks, processes and helpers                            *)

LEMMA GateInductive ==
    ASSUME TInv, GateInv, DownInv, [Next]_vars
    PROVE  TInv' /\ GateInv' /\ DownInv'
<1>1. TInv'
  BY TypeNext
<1>2. CASE Next
  BY <1>1, <1>2, GateNext
<1>3. CASE UNCHANGED vars
  BY <1>1, <1>3 DEF vars, GateInv, DownInv
<1> QED BY <1>2, <1>3

\* begin_operation is always followed by complete_operation or fail_operation:
\* whatever fails, whoever reconciles in between and wherever the daemon is
\* killed, an accepted operation of a running daemon has the start that will
\* settle it.
THEOREM OperationsSettle == Spec => []AcceptedInFlight
<1> DEFINE Inv == TInv /\ GateInv /\ DownInv /\ OpInv /\ AcceptedInFlight
<1>1. Init => Inv
  <2> SUFFICES ASSUME Init PROVE Inv
    OBVIOUS
  <2>1. TInv /\ GateInv /\ DownInv
    BY Initially DEF IInv, TInv
  <2> QED BY <2>1 DEF Init, OpInv, Unbegun, AcceptedInFlight
<1>2. Inv /\ [Next]_vars => Inv'
  <2> SUFFICES ASSUME Inv, [Next]_vars PROVE Inv'
    OBVIOUS
  <2>1. TInv' /\ GateInv' /\ DownInv'
    BY GateInductive
  <2>2. CASE Next
    BY <2>1, <2>2, OpNext
  <2>3. CASE UNCHANGED vars
    BY <2>1, <2>3 DEF vars, OpInv, Unbegun, AcceptedInFlight, Starting
  <2> QED BY <2>2, <2>3
<1>3. Inv => AcceptedInFlight
  OBVIOUS
<1> QED BY <1>1, <1>2, <1>3, PTL DEF Spec

\* The invariant of RecordedProcesses with the history of the runs.
Full == IInv /\ CarriesRun /\ OpInv /\ AcceptedInFlight /\ UsedInv /\ WatchInv /\ HelpInv

LEMMA FullInitially ==
    ASSUME Init PROVE Full
<1>1. IInv /\ CarriesRun
  BY Initially
<1>2. OpInv /\ AcceptedInFlight /\ HelpInv
  BY DEF Init, OpInv, Unbegun, AcceptedInFlight, HelpInv
<1>3. UsedInv
  BY IdsDisjoint DEF Init, UsedInv, Unspawned, Unbegun, BeforeRecord, AfterRecord, Sampled
<1>4. WatchInv
  BY DEF Init, WatchInv, LiveRow, HasRow
<1> QED BY <1>1, <1>2, <1>3, <1>4 DEF Full

LEMMA FullInductive ==
    ASSUME ~SameSecond, Full, [Next]_vars PROVE Full'
<1>1. IInv' /\ CarriesRun'
  BY Inductive DEF Full
<1>2. TInv /\ GateInv /\ DownInv /\ CarriedInv /\ SafeInv /\ DeadInv
  BY DEF Full, IInv, TInv, SafeInv
<1>3. CASE Next
  <2>1. OpInv' /\ AcceptedInFlight' /\ UsedInv' /\ WatchInv' /\ HelpInv'
    BY <1>2, <1>3, OpNext, UsedNext, WatchNext, HelpNext DEF Full
  <2> QED BY <1>1, <2>1 DEF Full
<1>4. CASE UNCHANGED vars
  <2>1. OpInv' /\ AcceptedInFlight' /\ UsedInv'
    BY <1>4 DEF vars, Full, OpInv, AcceptedInFlight, Starting, UsedInv, Unspawned, Unbegun,
       BeforeRecord, AfterRecord, Sampled
  <2>2. WatchInv' /\ HelpInv'
    BY <1>4 DEF vars, Full, WatchInv, HelpInv, Enlisting, LiveRow, HasRow, Alive
  <2> QED BY <1>1, <2>1, <2>2 DEF Full
<1> QED BY <1>3, <1>4

\* run_events::spawn reaches every run: whoever installed or recovered the
\* supervisor first, and however display requests, observers and starts
\* interleave, a recorded QEMU that no start still carries has its watcher.
THEOREM EveryVmWatched ==
    ASSUME ~SameSecond
    PROVE  Spec => []LiveIsWatched
<1>1. Init => Full
  BY FullInitially
<1>2. Full /\ [Next]_vars => Full'
  BY FullInductive
<1>3. Full => LiveIsWatched
  BY DEF Full, WatchInv, Enlisting, Carried, LiveIsWatched
<1> QED BY <1>1, <1>2, <1>3, PTL DEF Spec

\* As long as the daemon is not killed between a spawn and its record_run, no
\* start, restart or deletion loses a process: there is one QEMU per instance,
\* recorded or not.
THEOREM NoProcessLost ==
    ASSUME ~SameSecond, "crash" \notin Faults
    PROVE  Spec => []OneProcess
<1>1. Init => Full /\ ProcInv
  <2>1. Init => ProcInv
    BY DEF Init, ProcInv, Alive
  <2> QED BY <2>1, FullInitially
<1>2. Full /\ ProcInv /\ [Next]_vars => (Full /\ ProcInv)'
  <2> SUFFICES ASSUME Full, ProcInv, [Next]_vars PROVE Full' /\ ProcInv'
    OBVIOUS
  <2>1. Full'
    BY FullInductive
  <2>2. CASE Next
    <3>1. TInv /\ GateInv /\ DownInv /\ CarriedInv /\ SafeInv
      BY DEF Full, IInv, TInv, SafeInv
    <3> QED BY <2>1, <2>2, <3>1, ProcNext
  <2>3. CASE UNCHANGED vars
    BY <2>1, <2>3 DEF vars, ProcInv, Alive, HasRow
  <2> QED BY <2>2, <2>3
<1>3. Full /\ ProcInv => OneProcess
  <2> SUFFICES ASSUME Full, ProcInv, NEW r \in Runs, NEW s \in Runs, Alive(r), Alive(s)
               PROVE  r = s
    BY DEF OneProcess
  <2>1. CASE HasRow(r) /\ HasRow(s)
    BY <2>1 DEF Full, IInv, LiveIsLatest, LiveRow
  <2>2. CASE ~HasRow(r) \/ ~HasRow(s)
    <3>1. \A c \in Clients : pc[c] = "record" => gate = c /\ NoLive
      BY DEF Full, IInv, GateInv, DeadInv, DeadPC
    <3>2. ~HasRow(r) /\ ~HasRow(s)
      BY <2>2, <3>1 DEF ProcInv, NoLive, LiveRow
    <3> QED BY <3>1, <3>2 DEF ProcInv
  <2> QED BY <2>1, <2>2
<1> QED BY <1>1, <1>2, <1>3, PTL DEF Spec

\* What one step does to the helpers of a completed start.
HelpersStep ==
    \A r \in Runs : /\ op[r] = "completed" /\ helper[r] = "alive"
                    /\ helper'[r] = "stopped"
                    => proc'[r] \in {"exited", "crashed"}

LEMMA HelpersNext ==
    ASSUME Full, Next PROVE HelpersStep
<1> USE DEF HelpersStep, Full, IInv, TypeOK, ProcsOK, CarriesRun, StopHelper, Alive
<1>1. \/ helper' = helper
      \/ \E c \in Clients : \/ StartHelpers(c) \/ StartSettle(c) \/ StartFail(c) \/ StartPost(c)
                            \/ StartRollback(c) \/ StartInstall(c) \/ ActionTeardown(c)
      \/ \E r \in Runs : WatcherExit(r)
  BY DEF Next, ClientRequest, ClientStep, StartSteps, ActionSteps, OtherSteps, WatcherStep,
         ReaderStep, StartRequest, StartDemote, StartBegin, StartSpawn, StartRecord,
         StartConnect, StartPublish, StartWatch, StartEnlist, StartCleanup, RestartRequest,
         ActionRequest, ActionRecover, ActionPauseResume, ActionReset, ActionStop, ActionQuit,
         ActionConclude, Remove, DisplayRequest, DisplayStamp, DisplayVideo, ReconcileRequest,
         Reconcile, WatcherSkip, WatcherSettle, WatcherDispose, ReaderPoll, ReaderQuery,
         ReaderApply, VmExit, Create, Crash, Boot
<1>2. ASSUME NEW c \in Clients, StartHelpers(c) PROVE HelpersStep
  BY <1>2 DEF StartHelpers
<1>3. ASSUME NEW c \in Clients, StartSettle(c) PROVE HelpersStep
  BY <1>3 DEF StartSettle, OpInv, Unbegun
<1>4. ASSUME NEW c \in Clients, StartFail(c) PROVE HelpersStep
  BY <1>4 DEF StartFail, HelpInv
<1>5. ASSUME NEW c \in Clients, StartPost(c) PROVE HelpersStep
  BY <1>5 DEF StartPost
<1>6. ASSUME NEW c \in Clients, StartRollback(c) PROVE HelpersStep
  BY <1>6 DEF StartRollback, Killed, UsedInv, AfterRecord
<1>7. ASSUME NEW c \in Clients, StartInstall(c) PROVE HelpersStep
  BY <1>7 DEF StartInstall, Killed, UsedInv, AfterRecord
<1>8. ASSUME NEW c \in Clients, ActionTeardown(c) PROVE HelpersStep
  BY <1>8 DEF ActionTeardown, Teardown, HelpInv, UsedInv
<1>9. ASSUME NEW r \in Runs, WatcherExit(r) PROVE HelpersStep
  BY <1>9 DEF WatcherExit, Teardown, UsedInv, Active
<1> QED BY <1>1, <1>2, <1>3, <1>4, <1>5, <1>6, <1>7, <1>8, <1>9

\* stop_all takes the helpers of a published run away only after its QEMU is
\* gone: not by a start that is refused because the run lives, not by the
\* teardown of a stop, and not by the watcher of another run.
THEOREM HelpersStopLast ==
    ASSUME ~SameSecond
    PROVE  Spec => HelpersOutliveVm
<1>1. Init => Full
  BY FullInitially
<1>2. Full /\ [Next]_vars => Full'
  BY FullInductive
<1>3. Full /\ [Next]_vars => [HelpersStep]_vars
  BY HelpersNext
<1>4. HelpersOutliveVm <=> [][HelpersStep]_vars
  BY DEF HelpersStep, HelpersOutliveVm
<1> QED BY <1>1, <1>2, <1>3, <1>4, PTL DEF Spec

=============================================================================
