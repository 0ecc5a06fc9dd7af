------------------------------- MODULE Store -------------------------------
(***************************************************************************)
(* Instances, their deletion, snapshots and clones as the workspace keeps  *)
(* them: rows in SQLite and directories beside it, which no transaction    *)
(* covers together.  The daemon is killed between any two steps, and calls *)
(* fail.  The workspace mutex admits one job at a time; only the           *)
(* preparation of files for a start runs beside it, under the gate of its  *)
(* instance.                                                               *)
(*                                                                         *)
(* A directory is the record of what it holds: the disk (overlay and       *)
(* firmware variables), the TPM state, the document instance.yaml, the     *)
(* marker .machineemu-create and the empty runtime directories that old    *)
(* versions left.                                                          *)
(***************************************************************************)
EXTENDS Naturals, FiniteSets

CONSTANTS
    Instances, Snapshots,
    Data,            \* contents of a disk and of a TPM state
    Image,           \* the contents a new disk shows
    None, Partial,   \* no file, and a file whose creation was cut short
    Absent, NoJob,
    Clones,          \* are snapshots cloned?
    Started,         \* the instances that are started
    Faults,          \* may calls of the file system and the database fail?
    Torn             \* may remove_dir_all stop half-way?

ASSUME StoreAssumption ==
    /\ Image \in Data /\ {None, Partial} \cap (Data \cup Instances) = {} /\ None # Partial
    /\ Started \subseteq Instances /\ {Clones, Faults, Torn} \subseteq BOOLEAN

VARIABLES
    phase,      \* "up", "down", or "boot" while the workspace is opened
    rows,       \* instances
    state,      \* instances.lifecycle: stopped (or created, or no row), running or error
    pending,    \* pending_instance_deletions
    dirs,       \* instances/<id>
    staged,     \* the staging directory of the job
    restoring,  \* instances/<id>.restore-staging
    prep,       \* the progress of prepare_instance_files
    snapRows,   \* snapshots: the instance and the files of the manifest
    snapDirs,   \* snapshots/<id>
    ops,        \* the snapshot operation of an instance and a snapshot
    job         \* the request that holds the workspace mutex

files == <<dirs, staged, restoring>>
shots == <<snapRows, snapDirs, ops>>
vars == <<phase, rows, state, pending, files, prep, shots, job>>

File == Data \cup {None, Partial}
Dir == [disk : File, tpm : File, doc : Instances \cup {None}, marker : BOOLEAN, sockets : BOOLEAN]
Job ==
    [kind : {"create", "remove", "snapshot", "clone", "boot"}, inst : Instances,
     snap : Snapshots \cup {None},
     pc : {"finish", "check", "rename", "commit", "unmark", "erase", "forget", "copy",
           "rename snapshot", "insert", "complete", "restore", "place", "strip", "stage"}]

ASSUME AbsentAssumption ==
    /\ Absent \notin File \cup Dir \cup [inst : Instances, files : Dir]
                         \cup [inst : Instances, state : File]
    /\ NoJob \notin Job

Empty == [disk |-> None, tpm |-> None, doc |-> None, marker |-> FALSE, sockets |-> FALSE]

Free(i) == phase = "up" /\ job = NoJob /\ prep[i] = "no"

AtWork(i) == job # NoJob /\ job.inst = i

Goto(pc) == job' = [job EXCEPT !.pc = pc]

\* What an interrupted remove_dir_all leaves of directory d.
Erasing(d) ==
    IF Torn /\ d # Absent
    THEN {[disk |-> k, tpm |-> t, doc |-> o, marker |-> m, sockets |-> s] :
             k \in {d.disk, None}, t \in {d.tpm, None}, o \in {d.doc, None},
             m \in {d.marker, FALSE}, s \in {d.sockets, FALSE}}
    ELSE {d}

-----------------------------------------------------------------------------
(* The failed end of a job: i's directory is d, its staging directory s.   *)

\* create_instance removes its staging directory, clone_snapshot renames it back.
Abort(d, s) ==
    LET i == job.inst
        back == job.kind = "clone" /\ s # Absent /\ d = Absent
    IN  /\ dirs' = [dirs EXCEPT ![i] = IF back THEN s ELSE d]
        /\ staged' = Absent
        /\ phase' = IF job.kind = "boot" THEN "down" ELSE phase
        /\ job' = NoJob

-----------------------------------------------------------------------------
(* Publication: publish_prepared_instance                                  *)

CreateBegin(i) ==
    /\ Free(i)
    /\ staged' = Empty
    /\ job' = [kind |-> "create", inst |-> i, snap |-> None, pc |-> "finish"]
    /\ UNCHANGED <<phase, rows, state, pending, dirs, restoring, prep, shots>>

PublishFinish ==
    /\ job # NoJob /\ job.pc = "finish"
    /\ Goto(IF job.inst \in pending THEN "erase" ELSE "check")
    /\ UNCHANGED <<phase, rows, state, pending, files, prep, shots>>

\* Mutant: a marker alone makes a directory replaceable.
ReplaceableMarked(i) ==
    dirs[i] # Absent /\ (dirs[i].marker \/ [dirs[i] EXCEPT !.sockets = FALSE] = Empty)

\* An unpublished directory that is marked or holds no file.
Replaceable(i) ==
    /\ dirs[i] # Absent /\ i \notin rows
    /\ dirs[i].marker \/ [dirs[i] EXCEPT !.sockets = FALSE] = Empty

\* The image may be unknown and the directory of somebody else in the way.
PublishCheck ==
    /\ job # NoJob /\ job.pc = "check"
    /\ LET i == job.inst
       IN  \/ Abort(dirs[i], staged)
           \/ /\ dirs[i] = Absent \/ Replaceable(i)
              /\ dirs' = [dirs EXCEPT ![i] = Absent]
              /\ Goto("rename")
              /\ UNCHANGED <<phase, staged>>
           \/ /\ Faults /\ Replaceable(i)
              /\ \E d \in Erasing(dirs[i]) : Abort(d, staged)
    /\ UNCHANGED <<rows, state, pending, restoring, prep, shots>>

Marked == [staged EXCEPT !.doc = job.inst, !.marker = TRUE]

\* Mutant: the staged directory is published without the marker.
PublishRenameUnmarked ==
    /\ job # NoJob /\ job.pc = "rename"
    /\ dirs' = [dirs EXCEPT ![job.inst] = [staged EXCEPT !.doc = job.inst]]
    /\ staged' = Absent
    /\ Goto("commit")
    /\ UNCHANGED <<phase, rows, state, pending, restoring, prep, shots>>

PublishRename ==
    /\ job # NoJob /\ job.pc = "rename"
    /\ \/ /\ dirs' = [dirs EXCEPT ![job.inst] = Marked]
          /\ staged' = Absent
          /\ Goto("commit")
          /\ UNCHANGED phase
       \/ Faults /\ \E s \in {staged, Marked} : Abort(dirs[job.inst], s)
    /\ UNCHANGED <<rows, state, pending, restoring, prep, shots>>

PublishCommit ==
    /\ job # NoJob /\ job.pc = "commit"
    /\ LET i == job.inst
       IN  \/ /\ i \notin rows
              /\ rows' = rows \cup {i}
              /\ state' = [state EXCEPT ![i] = "stopped"]
              /\ Goto("unmark")
              /\ UNCHANGED <<phase, dirs, staged>>
           \/ /\ Faults \/ i \in rows
              /\ \E d \in {Absent} \cup Erasing(dirs[i]) : Abort(d, staged)
              /\ UNCHANGED <<rows, state>>
    /\ UNCHANGED <<pending, restoring, prep, shots>>

PublishUnmark ==
    /\ job # NoJob /\ job.pc = "unmark"
    /\ \/ dirs' = [dirs EXCEPT ![job.inst].marker = FALSE]
       \/ Faults /\ UNCHANGED dirs
    /\ job' = NoJob
    /\ UNCHANGED <<phase, rows, state, pending, staged, restoring, prep, shots>>

-----------------------------------------------------------------------------
(* Deletion: remove_instance and finish_instance_deletion                  *)

Captured(i) == \E s \in Snapshots : snapRows[s] # Absent /\ snapRows[s].inst = i

RemoveBegin(i) ==
    /\ Free(i)
    /\ \/ i \in pending /\ UNCHANGED <<rows, state, pending, ops>>
       \/ /\ i \notin pending /\ i \in rows /\ state[i] # "running" /\ ~Captured(i)
          /\ pending' = pending \cup {i} /\ rows' = rows \ {i}
          /\ state' = [state EXCEPT ![i] = "stopped"]
          /\ ops' = [o \in Instances \X Snapshots |-> IF o[1] = i THEN "none" ELSE ops[o]]
    /\ job' = [kind |-> "remove", inst |-> i, snap |-> None, pc |-> "erase"]
    /\ UNCHANGED <<phase, files, prep, snapRows, snapDirs>>

Erase ==
    /\ job # NoJob /\ job.pc = "erase"
    /\ \/ /\ dirs' = [dirs EXCEPT ![job.inst] = Absent]
          /\ Goto("forget")
          /\ UNCHANGED <<phase, staged>>
       \/ Faults /\ \E d \in Erasing(dirs[job.inst]) : Abort(d, staged)
    /\ UNCHANGED <<rows, state, pending, restoring, prep, shots>>

Forget ==
    /\ job # NoJob /\ job.pc = "forget"
    /\ \/ /\ pending' = pending \ {job.inst}
          /\ IF job.kind \in {"create", "clone"} THEN Goto("check") ELSE job' = NoJob
          /\ UNCHANGED <<phase, dirs, staged>>
       \/ Faults /\ Abort(dirs[job.inst], staged) /\ UNCHANGED pending
    /\ UNCHANGED <<rows, state, restoring, prep, shots>>

-----------------------------------------------------------------------------
(* The run of an instance, which changes its files                         *)

\* The start of an instance, holding its gate and not the workspace mutex.
StartBegin(i) ==
    /\ i \in Started /\ phase = "up" /\ prep[i] = "no" /\ ~AtWork(i)
    /\ i \in rows /\ state[i] # "running"
    /\ prep' = [prep EXCEPT ![i] = "disk"]
    /\ UNCHANGED <<phase, rows, state, pending, files, shots, job>>

\* Existing files are kept; a failed qemu-img or copy may leave a part of one.
Prepared(i, field) ==
    \/ /\ dirs' = [dirs EXCEPT ![i][field] = IF @ = None THEN Image ELSE @]
       /\ prep' = [prep EXCEPT ![i] = IF field = "disk" THEN "tpm" ELSE "launch"]
    \/ /\ Faults /\ dirs[i][field] = None
       /\ \E part \in {None, Partial} : dirs' = [dirs EXCEPT ![i][field] = part]
       /\ prep' = [prep EXCEPT ![i] = "no"]

PrepareFiles(i) ==
    /\ prep[i] \in {"disk", "tpm"}
    /\ Prepared(i, prep[i])
    /\ UNCHANGED <<phase, rows, state, pending, staged, restoring, shots, job>>

Launch(i) ==
    /\ prep[i] = "launch"
    /\ \E result \in {"running", "error"} : state' = [state EXCEPT ![i] = result]
    /\ prep' = [prep EXCEPT ![i] = "no"]
    /\ UNCHANGED <<phase, rows, pending, files, shots, job>>

GuestWrite(i) ==
    /\ i \in rows /\ state[i] = "running"
    /\ \E d, t \in Data : dirs' = [dirs EXCEPT ![i].disk = d, ![i].tpm = t]
    /\ UNCHANGED <<phase, rows, state, pending, staged, restoring, prep, shots, job>>

VmStops(i) ==
    /\ i \in rows /\ state[i] = "running"
    /\ \E result \in {"stopped", "error"} : state' = [state EXCEPT ![i] = result]
    /\ UNCHANGED <<phase, rows, pending, files, prep, shots, job>>

-----------------------------------------------------------------------------
(* Snapshots                                                               *)

\* A completed operation returns its snapshot and a failed one its error.
SnapBegin(i, s) ==
    /\ Free(i) /\ i \in rows
    /\ ops[<<i, s>>] \in {"none", "accepted"}
    /\ ops' = [ops EXCEPT ![<<i, s>>] = "accepted"]
    /\ job' = [kind |-> "snapshot", inst |-> i, snap |-> s, pc |-> "copy"]
    /\ UNCHANGED <<phase, rows, state, pending, files, prep, snapRows, snapDirs>>

\* Mutant: an instance in any state is captured.
CapturableAlways == snapDirs[job.snap] = Absent

Capturable == state[job.inst] = "stopped" /\ snapDirs[job.snap] = Absent

SnapFail ==
    /\ \/ ops' = [ops EXCEPT ![<<job.inst, job.snap>>] = "failed"]
       \/ Faults /\ UNCHANGED ops
    /\ staged' = Absent
    /\ job' = NoJob

\* Only regular files are components: the tpm directory is not.
SnapCopy ==
    /\ job # NoJob /\ job.pc = "copy"
    /\ \/ /\ Capturable
          /\ staged' = [dirs[job.inst] EXCEPT !.tpm = None, !.sockets = FALSE]
          /\ Goto("rename snapshot")
          /\ UNCHANGED ops
       \/ (Faults \/ ~Capturable) /\ SnapFail
    /\ UNCHANGED <<phase, rows, state, pending, dirs, restoring, prep, snapRows, snapDirs>>

SnapRename ==
    /\ job # NoJob /\ job.pc = "rename snapshot"
    /\ \/ /\ snapDirs' = [snapDirs EXCEPT ![job.snap] = staged]
          /\ staged' = Absent
          /\ Goto("insert")
          /\ UNCHANGED ops
       \/ Faults /\ SnapFail /\ UNCHANGED snapDirs
    /\ UNCHANGED <<phase, rows, state, pending, dirs, restoring, prep, snapRows>>

SnapInsert ==
    /\ job # NoJob /\ job.pc = "insert"
    /\ \/ /\ snapRows[job.snap] = Absent
          /\ snapRows' = [snapRows EXCEPT ![job.snap] =
                             [inst |-> job.inst, files |-> snapDirs[job.snap]]]
          /\ Goto("complete")
          /\ UNCHANGED <<ops, staged>>
       \/ (Faults \/ snapRows[job.snap] # Absent) /\ SnapFail /\ UNCHANGED snapRows
    /\ UNCHANGED <<phase, rows, state, pending, dirs, restoring, prep, snapDirs>>

SnapComplete ==
    /\ job # NoJob /\ job.pc = "complete"
    /\ \/ ops' = [ops EXCEPT ![<<job.inst, job.snap>>] = "completed"]
       \/ Faults /\ UNCHANGED ops
    /\ job' = NoJob
    /\ UNCHANGED <<phase, rows, state, pending, files, prep, snapRows, snapDirs>>

-----------------------------------------------------------------------------
(* Clones: restore_snapshot and clone_snapshot                             *)

CloneBegin(i, s) ==
    /\ Clones /\ Free(i)
    /\ snapRows[s] # Absent /\ snapRows[s].inst \in rows
    /\ dirs[i] \in {Absent, Empty}
    /\ job' = [kind |-> "clone", inst |-> i, snap |-> s, pc |-> "restore"]
    /\ UNCHANGED <<phase, rows, state, pending, files, prep, shots>>

\* The files of the manifest replace those of the restore-staging directory.
Restored ==
    LET old == restoring[job.inst]
        new == snapRows[job.snap].files
    IN  [new EXCEPT !.disk = IF @ = None THEN old.disk ELSE @,
                    !.doc = IF @ = None THEN old.doc ELSE @,
                    !.marker = @ \/ old.marker]

CloneRestore ==
    /\ job # NoJob /\ job.pc = "restore"
    /\ \/ /\ snapDirs[job.snap] = snapRows[job.snap].files
          /\ restoring' = [restoring EXCEPT ![job.inst] = Restored]
          /\ Goto("place")
       \/ /\ Faults \/ snapDirs[job.snap] # snapRows[job.snap].files
          /\ restoring' = [restoring EXCEPT ![job.inst] = Empty]
          /\ job' = NoJob
    /\ UNCHANGED <<phase, rows, state, pending, dirs, staged, prep, shots>>

ClonePlace ==
    /\ job # NoJob /\ job.pc = "place"
    /\ \/ /\ dirs' = [dirs EXCEPT ![job.inst] = restoring[job.inst]]
          /\ restoring' = [restoring EXCEPT ![job.inst] = Empty]
          /\ Goto("strip")
       \/ Faults /\ job' = NoJob /\ UNCHANGED <<dirs, restoring>>
    /\ UNCHANGED <<phase, rows, state, pending, staged, prep, shots>>

\* A clone drops the documents of the source.
CloneStrip ==
    /\ job # NoJob /\ job.pc = "strip"
    /\ \/ dirs' = [dirs EXCEPT ![job.inst].doc = None] /\ Goto("stage")
       \/ Faults /\ job' = NoJob /\ UNCHANGED dirs
    /\ UNCHANGED <<phase, rows, state, pending, staged, restoring, prep, shots>>

CloneStage ==
    /\ job # NoJob /\ job.pc = "stage"
    /\ \/ /\ staged' = dirs[job.inst]
          /\ dirs' = [dirs EXCEPT ![job.inst] = Absent]
          /\ Goto("finish")
       \/ Faults /\ job' = NoJob /\ UNCHANGED <<dirs, staged>>
    /\ UNCHANGED <<phase, rows, state, pending, restoring, prep, shots>>

-----------------------------------------------------------------------------
(* The end of the daemon and the next one                                  *)

\* What the kill may make of the directory of i.
Killed(i) ==
    {dirs[i]}
    \cup (IF AtWork(i) /\ (job.pc = "erase" \/ (job.pc = "check" /\ Replaceable(i)))
          THEN Erasing(dirs[i]) ELSE {})
    \cup (IF prep[i] \in {"disk", "tpm"} /\ dirs[i][prep[i]] = None
          THEN {[dirs[i] EXCEPT ![prep[i]] = Partial]} ELSE {})

Crash ==
    /\ phase # "down" /\ phase' = "down"
    /\ \E i \in Instances : \E d \in Killed(i) : dirs' = [dirs EXCEPT ![i] = d]
    /\ restoring' = IF job # NoJob /\ job.pc = "restore"
                    THEN [restoring EXCEPT ![job.inst] = Restored] ELSE restoring
    /\ staged' = Absent /\ job' = NoJob
    /\ prep' = [i \in Instances |-> "no"]
    /\ UNCHANGED <<rows, state, pending, shots>>

Boot ==
    /\ phase = "down" /\ phase' = "boot"
    /\ UNCHANGED <<rows, state, pending, files, prep, shots, job>>

\* reconcile_instance_deletions
BootDeletion(i) ==
    /\ phase = "boot" /\ job = NoJob /\ i \in pending
    /\ job' = [kind |-> "boot", inst |-> i, snap |-> None, pc |-> "erase"]
    /\ UNCHANGED <<phase, rows, state, pending, files, prep, shots>>

\* reconcile_operations, once the workspace is open
BootReconcile ==
    /\ phase = "boot" /\ job = NoJob /\ pending = {}
    /\ ops' = [o \in Instances \X Snapshots |->
                  IF ops[o] # "accepted" THEN ops[o]
                  ELSE IF snapRows[o[2]] # Absent THEN "completed" ELSE "failed"]
    /\ phase' = "up"
    /\ UNCHANGED <<rows, state, pending, files, prep, snapRows, snapDirs, job>>

-----------------------------------------------------------------------------
Init ==
    /\ phase = "down" /\ rows = {} /\ pending = {}
    /\ state = [i \in Instances |-> "stopped"]
    /\ dirs \in [Instances -> {Absent, [Empty EXCEPT !.sockets = TRUE]}]
    /\ staged = Absent
    /\ restoring = [i \in Instances |-> Empty]
    /\ prep = [i \in Instances |-> "no"]
    /\ snapRows = [s \in Snapshots |-> Absent] /\ snapDirs = [s \in Snapshots |-> Absent]
    /\ ops = [o \in Instances \X Snapshots |-> "none"]
    /\ job = NoJob

Publish == PublishFinish \/ PublishCheck \/ PublishRename \/ PublishCommit \/ PublishUnmark
Snap == SnapCopy \/ SnapRename \/ SnapInsert \/ SnapComplete
Clone == CloneRestore \/ ClonePlace \/ CloneStrip \/ CloneStage

Next ==
    \/ Publish \/ Snap \/ Clone \/ Erase \/ Forget
    \/ Crash \/ Boot \/ BootReconcile
    \/ \E i \in Instances :
          \/ CreateBegin(i) \/ RemoveBegin(i) \/ BootDeletion(i)
          \/ StartBegin(i) \/ PrepareFiles(i) \/ Launch(i) \/ GuestWrite(i) \/ VmStops(i)
          \/ \E s \in Snapshots : SnapBegin(i, s) \/ CloneBegin(i, s)

Spec == Init /\ [][Next]_vars

-----------------------------------------------------------------------------
(* Properties                                                              *)

\* A registered instance always has its own document in its directory and is not
\* being deleted, and a registered snapshot always has the files its manifest lists:
\* neither a crash nor a failure between the directory and the row shows.
Registered ==
    /\ \A i \in rows : i \notin pending /\ dirs[i] # Absent /\ dirs[i].doc = i
    /\ \A s \in Snapshots : snapRows[s] # Absent =>
          snapDirs[s] = snapRows[s].files /\ snapRows[s].inst \in rows

\* An instance id without a row can be created: its directory is absent, marked, empty
\* or listed for deletion, whenever no request is at work on it.
\* (docs/operations/instance-lifecycle.md:6-8)
Reusable ==
    job = NoJob => \A i \in Instances \ rows :
                      i \in pending \/ dirs[i] = Absent \/ Replaceable(i)

\* The workspace implements its abstract specification.  The snapshots of an instance
\* hold its disk; its TPM state they do not.
Promise == INSTANCE AbstractStore WITH
    Gone <- Absent,
    Blank <- None,
    States <- File,
    machines <- [i \in Instances |-> IF i \in rows THEN dirs[i].disk ELSE Absent],
    busy <- {i \in Instances : prep[i] # "no" \/ (i \in rows /\ state[i] = "running")},
    shots <- [s \in Snapshots |-> IF snapRows[s] = Absent THEN Absent
                                  ELSE [inst |-> snapRows[s].inst, state |-> snapDirs[s].disk]]

\* The rows and directories, seen together, behave as one store.
Atomic == Promise!ASpec

=============================================================================
