---------------------------- MODULE StoreProofs ----------------------------
(***************************************************************************)
(* The workspace keeps rows and directories together and implements its    *)
(* abstract specification, for any number of instances and snapshots, with *)
(* crashes between any two steps, failing calls, torn deletions and clones *)
(* of interrupted restores.                                                *)
(***************************************************************************)
EXTENDS Store, TLAPS

-----------------------------------------------------------------------------
(* Types *)

MaybeDir == Dir \cup {Absent}

StoreTypes ==
    /\ rows \subseteq Instances
    /\ state \in [Instances -> {"stopped", "running", "error"}]
    /\ dirs \in [Instances -> MaybeDir]
    /\ staged \in MaybeDir
    /\ restoring \in [Instances -> Dir]
    /\ prep \in [Instances -> {"no", "disk", "tpm", "launch"}]
    /\ snapRows \in [Snapshots -> [inst : Instances, files : Dir] \cup {Absent}]
    /\ snapDirs \in [Snapshots -> MaybeDir]
    /\ job \in Job \cup {NoJob}

-----------------------------------------------------------------------------
(* What a job has made sure of when it is between two steps *)

JobAt(pcs) == job # NoJob /\ job.pc \in pcs

(* A disk that no instance owns is new, or that of a registered snapshot
   (publish_prepared_instance, restore_snapshot). *)
Known(disk) == disk = None \/ \E s \in Snapshots : snapRows[s] # Absent /\ disk = snapDirs[s].disk

RowsHaveDirs == \A i \in rows : i \notin pending /\ dirs[i] # Absent /\ dirs[i].doc = i

ShotsHaveDirs ==
    \A s \in Snapshots : snapRows[s] # Absent =>
        snapDirs[s] = snapRows[s].files /\ snapRows[s].inst \in rows

(* A start is of a registered instance no job is at (pool.rs lock_instance). *)
StartsAlone ==
    /\ \A i \in Instances : prep[i] # "no" => i \in rows /\ phase = "up" /\ ~AtWork(i)
    /\ job # NoJob /\ job.kind = "boot" => phase # "up"

(* Directories are erased only of instances listed for deletion
   (finish_instance_deletion), and none is published while listed. *)
ErasesListed ==
    /\ JobAt({"erase", "forget"}) => job.inst \in pending
    /\ JobAt({"check", "rename", "commit"}) => job.inst \notin pending

(* A directory that is made or replaced is of no row (publish_prepared_instance,
   restore_snapshot). *)
MakesUnregistered ==
    JobAt({"rename", "commit", "restore", "place", "strip", "stage"}) => job.inst \notin rows

(* What a publication holds, step by step, *)
Staging ==
    \/ JobAt({"finish", "check", "rename"})
    \/ JobAt({"erase", "forget"}) /\ job.kind \in {"create", "clone"}

Publishes ==
    /\ Staging => staged # Absent /\ Known(staged.disk)
    /\ JobAt({"rename"}) => dirs[job.inst] = Absent
    /\ JobAt({"commit"}) => dirs[job.inst] # Absent /\ dirs[job.inst].doc = job.inst
    /\ JobAt({"commit", "strip", "stage"}) => dirs[job.inst] # Absent /\ Known(dirs[job.inst].disk)
    /\ JobAt({"unmark"}) => job.inst \in rows

(* what a restore holds, and what an interrupted one has left, *)
Restores ==
    /\ JobAt({"restore"}) => job.snap \in Snapshots /\ snapRows[job.snap] # Absent
    /\ \A i \in Instances : Known(restoring[i].disk)

(* and what a capture holds: nothing runs that could change the disk
   (create_snapshot). *)
Captures ==
    /\ JobAt({"copy", "rename snapshot", "insert", "complete"}) =>
          job.inst \in rows /\ job.snap \in Snapshots
    /\ JobAt({"rename snapshot", "insert"}) => state[job.inst] = "stopped"
    /\ JobAt({"rename snapshot"}) =>
          snapDirs[job.snap] = Absent /\ staged # Absent /\ staged.disk = dirs[job.inst].disk
    /\ JobAt({"insert"}) =>
          snapDirs[job.snap] # Absent /\ snapDirs[job.snap].disk = dirs[job.inst].disk

SInv ==
    /\ StoreTypes /\ RowsHaveDirs /\ ShotsHaveDirs /\ StartsAlone /\ ErasesListed
    /\ MakesUnregistered /\ Publishes /\ Restores /\ Captures

-----------------------------------------------------------------------------
(* Lemmas: values, and how a job moves *)

LEMMA Values ==
    /\ NoJob \notin Job /\ Absent \notin Dir /\ Absent \notin File
    /\ Absent \notin [inst : Instances, files : Dir]
    /\ Absent \notin [inst : Instances, state : File]
    /\ Image \in File /\ Image # None /\ None \in File /\ Partial \in File /\ None # Partial
    /\ None \notin Instances /\ Empty \in Dir /\ Empty.disk = None
    /\ "boot" # "create"
BY StoreAssumption, AbsentAssumption DEF File, Dir, Empty

LEMMA JobMoves ==
    ASSUME StoreTypes, job # NoJob,
           NEW pc \in {"finish", "check", "rename", "commit", "unmark", "erase", "forget", "copy",
                       "rename snapshot", "insert", "complete", "restore", "place", "strip", "stage"},
           Goto(pc)
    PROVE  /\ job \in Job /\ job' \in Job /\ job' # NoJob
           /\ job'.pc = pc /\ job'.kind = job.kind /\ job'.inst = job.inst /\ job'.snap = job.snap
<1>1. job \in Job
  BY DEF StoreTypes
<1>2. job' = [job EXCEPT !.pc = pc]
  BY DEF Goto
<1>3. job' \in Job
  BY <1>1, <1>2 DEF Job
<1>4. job'.pc = pc /\ job'.kind = job.kind /\ job'.inst = job.inst /\ job'.snap = job.snap
  BY <1>1, <1>2 DEF Job
<1> QED BY <1>1, <1>3, <1>4, Values

LEMMA ErasingType ==
    ASSUME NEW d \in MaybeDir, NEW e \in Erasing(d)
    PROVE  e \in MaybeDir
<1>1. CASE Torn /\ d # Absent
  <2>1. d \in Dir
    BY <1>1 DEF MaybeDir
  <2>2. PICK k \in {d.disk, None}, t \in {d.tpm, None}, o \in {d.doc, None},
             m \in {d.marker, FALSE}, s \in {d.sockets, FALSE} :
             e = [disk |-> k, tpm |-> t, doc |-> o, marker |-> m, sockets |-> s]
    <3>1. e \in {[disk |-> k, tpm |-> t, doc |-> o, marker |-> m, sockets |-> s] :
                    k \in {d.disk, None}, t \in {d.tpm, None}, o \in {d.doc, None},
                    m \in {d.marker, FALSE}, s \in {d.sockets, FALSE}}
      BY <1>1 DEF Erasing
    <3> QED BY <3>1
  <2>3. e \in Dir
    BY <2>1, <2>2, Values DEF Dir
  <2> QED BY <2>3 DEF MaybeDir
<1>2. CASE ~(Torn /\ d # Absent)
  BY <1>2 DEF Erasing
<1> QED BY <1>1, <1>2

(* A job that fails leaves the workspace in order, if it has not touched the directory
   of a registered instance. *)
LEMMA AbortKeeps ==
    ASSUME SInv, job # NoJob, NEW d \in MaybeDir, NEW s \in MaybeDir, Abort(d, s),
           job.inst \in rows => d = dirs[job.inst],
           UNCHANGED <<rows, state, pending, restoring, prep, snapRows, snapDirs>>
    PROVE  SInv'
<1>1. job \in Job /\ job' = NoJob /\ staged' = Absent
  BY DEF SInv, StoreTypes, Abort
<1>2. PICK e \in MaybeDir :
         dirs' = [dirs EXCEPT ![job.inst] = e] /\ (job.inst \in rows => e = dirs[job.inst])
  BY <1>1 DEF Abort, SInv, RowsHaveDirs
<1>3. StoreTypes'
  BY <1>1, <1>2 DEF SInv, StoreTypes, MaybeDir, Job
<1>4. RowsHaveDirs' /\ ShotsHaveDirs'
  BY <1>2 DEF SInv, StoreTypes, RowsHaveDirs, ShotsHaveDirs
<1>5. StartsAlone'
  BY <1>1 DEF SInv, StartsAlone, AtWork, Abort
<1>6. ErasesListed' /\ MakesUnregistered' /\ Captures'
  BY <1>1 DEF ErasesListed, MakesUnregistered, Captures, JobAt
<1>7. Publishes' /\ Restores'
  BY <1>1 DEF SInv, Publishes, Staging, Restores, Known, JobAt
<1> QED BY <1>3, <1>4, <1>5, <1>6, <1>7 DEF SInv

-----------------------------------------------------------------------------
(* Publication and deletion keep the invariant *)

LEMMA PublishFinishKeeps == ASSUME SInv, PublishFinish PROVE SInv'
<1>1. /\ job \in Job /\ job' \in Job /\ job' # NoJob
      /\ job'.pc = IF job.inst \in pending THEN "erase" ELSE "check"
      /\ job'.kind = job.kind /\ job'.inst = job.inst /\ job'.snap = job.snap
  BY JobMoves DEF PublishFinish, SInv
<1>2. StoreTypes'
  BY <1>1 DEF PublishFinish, files, shots, SInv, StoreTypes, MaybeDir
<1>3. RowsHaveDirs' /\ ShotsHaveDirs'
  BY <1>1 DEF PublishFinish, files, shots, SInv, StoreTypes, RowsHaveDirs, ShotsHaveDirs
<1>4. StartsAlone' /\ ErasesListed' /\ MakesUnregistered'
  BY <1>1 DEF PublishFinish, files, shots, SInv, StartsAlone, ErasesListed,
      MakesUnregistered, AtWork, JobAt
<1>5. Publishes'
  BY <1>1 DEF PublishFinish, files, shots, SInv, StoreTypes, Publishes, Staging, Known,
      JobAt, Job
<1>6. Restores' /\ Captures'
  BY <1>1 DEF PublishFinish, files, shots, SInv, StoreTypes, Restores, Captures, Known,
      JobAt
<1> QED BY <1>2, <1>3, <1>4, <1>5, <1>6 DEF SInv

LEMMA PublishCheckKeeps == ASSUME SInv, PublishCheck PROVE SInv'
<1>1. CASE Abort(dirs[job.inst], staged)
  <2>1. /\ job # NoJob /\ dirs[job.inst] \in MaybeDir /\ staged \in MaybeDir
        /\ UNCHANGED <<rows, state, pending, restoring, prep, snapRows, snapDirs>>
    BY <1>1 DEF PublishCheck, SInv, StoreTypes, shots, Job
  <2> QED BY <1>1, <2>1, AbortKeeps
<1>2. CASE /\ dirs[job.inst] = Absent \/ Replaceable(job.inst)
           /\ dirs' = [dirs EXCEPT ![job.inst] = Absent]
           /\ Goto("rename") /\ UNCHANGED <<phase, staged>>
  <2>1. /\ job \in Job /\ job' \in Job /\ job' # NoJob /\ job'.pc = "rename"
        /\ job'.kind = job.kind /\ job'.inst = job.inst /\ job'.snap = job.snap
    BY <1>2, JobMoves DEF PublishCheck, SInv
  <2>2. StoreTypes'
    BY <1>2, <2>1 DEF PublishCheck, shots, SInv, StoreTypes, MaybeDir
  <2>3. RowsHaveDirs' /\ ShotsHaveDirs'
    BY <1>2, <2>1 DEF PublishCheck, shots, SInv, StoreTypes, RowsHaveDirs, ShotsHaveDirs,
        Replaceable
  <2>4. StartsAlone' /\ ErasesListed' /\ MakesUnregistered'
    BY <1>2, <2>1 DEF PublishCheck, shots, SInv, StartsAlone, ErasesListed,
        MakesUnregistered, AtWork, JobAt, Replaceable, RowsHaveDirs
  <2>5. Publishes'
    BY <1>2, <2>1 DEF PublishCheck, shots, SInv, StoreTypes, Publishes, Staging, Known,
        JobAt, Job
  <2>6. Restores' /\ Captures'
    BY <1>2, <2>1 DEF PublishCheck, shots, SInv, StoreTypes, Restores, Captures, Known,
        JobAt
  <2> QED BY <2>2, <2>3, <2>4, <2>5, <2>6 DEF SInv
<1>3. ASSUME NEW d \in Erasing(dirs[job.inst]), Replaceable(job.inst), Abort(d, staged)
      PROVE  SInv'
  <2>1. /\ job # NoJob /\ d \in MaybeDir /\ staged \in MaybeDir
        /\ UNCHANGED <<rows, state, pending, restoring, prep, snapRows, snapDirs>>
    BY <1>3, ErasingType DEF PublishCheck, SInv, StoreTypes, shots, Job, MaybeDir
  <2>2. job.inst \notin rows
    BY <1>3 DEF PublishCheck, SInv, Replaceable
  <2> QED BY <1>3, <2>1, <2>2, AbortKeeps
<1> QED BY <1>1, <1>2, <1>3 DEF PublishCheck

LEMMA PublishRenameKeeps == ASSUME SInv, PublishRename PROVE SInv'
<1>1. CASE /\ dirs' = [dirs EXCEPT ![job.inst] = Marked] /\ staged' = Absent
           /\ Goto("commit") /\ UNCHANGED phase
  <2>1. Known(staged.disk)
    BY <1>1 DEF PublishRename, SInv, Publishes, Staging, JobAt
  <2>2. staged \in Dir /\ job.inst \in Instances
    BY <1>1 DEF PublishRename, SInv, StoreTypes, Publishes, Staging, JobAt, MaybeDir, Job
  <2>3. Marked \in Dir /\ Marked.disk = staged.disk /\ Marked.doc = job.inst
    BY <1>1, <2>2 DEF Marked, Dir
  <2>4. Marked # Absent
    BY <1>1, <2>3, Values
  <2>5. /\ job \in Job /\ job' \in Job /\ job' # NoJob /\ job'.pc = "commit"
        /\ job'.kind = job.kind /\ job'.inst = job.inst /\ job'.snap = job.snap
    BY <1>1, JobMoves DEF PublishRename, SInv
  <2>6. StoreTypes'
    BY <1>1, <2>1, <2>2, <2>3, <2>4, <2>5 DEF PublishRename, shots, SInv, StoreTypes,
        MaybeDir, Dir
  <2>7. RowsHaveDirs' /\ ShotsHaveDirs'
    BY <1>1, <2>1, <2>2, <2>3, <2>4, <2>5 DEF PublishRename, shots, SInv, StoreTypes,
        RowsHaveDirs, ShotsHaveDirs, MakesUnregistered, JobAt
  <2>8. StartsAlone' /\ ErasesListed' /\ MakesUnregistered'
    BY <1>1, <2>1, <2>2, <2>3, <2>4, <2>5 DEF PublishRename, shots, SInv, StartsAlone,
        ErasesListed, MakesUnregistered, AtWork, JobAt
  <2>9. Publishes'
    <3>1. dirs'[job'.inst] = Marked
      BY <1>1, <2>2, <2>5 DEF PublishRename, SInv, StoreTypes
    <3>2. Known(dirs[job.inst].disk)'
      BY <2>1, <2>3, <3>1 DEF PublishRename, shots, Known
    <3> QED BY <2>3, <2>4, <2>5, <3>1, <3>2 DEF Publishes, Staging, JobAt
  <2>10. Restores' /\ Captures'
    BY <1>1, <2>1, <2>2, <2>3, <2>4, <2>5 DEF PublishRename, shots, SInv, StoreTypes,
        Restores, Captures, Known, JobAt
  <2> QED BY <2>6, <2>7, <2>8, <2>9, <2>10 DEF SInv
<1>2. ASSUME NEW s \in {staged, Marked}, Abort(dirs[job.inst], s) PROVE SInv'
  <2>1. /\ job # NoJob /\ dirs[job.inst] \in MaybeDir /\ staged \in Dir /\ job \in Job
        /\ UNCHANGED <<rows, state, pending, restoring, prep, snapRows, snapDirs>>
    BY DEF PublishRename, SInv, StoreTypes, Publishes, Staging, JobAt, MaybeDir, Job, shots
  <2>2. Marked \in Dir
    BY <2>1 DEF Marked, Dir, Job
  <2>3. s \in MaybeDir
    BY <1>2, <2>1, <2>2 DEF MaybeDir
  <2> QED BY <1>2, <2>1, <2>3, AbortKeeps
<1> QED BY <1>1, <1>2 DEF PublishRename

LEMMA PublishCommitKeeps == ASSUME SInv, PublishCommit PROVE SInv'
<1>1. CASE /\ job.inst \notin rows /\ rows' = rows \cup {job.inst}
           /\ state' = [state EXCEPT ![job.inst] = "stopped"]
           /\ Goto("unmark") /\ UNCHANGED <<phase, dirs, staged>>
  <2>1. /\ job \in Job /\ job' \in Job /\ job' # NoJob /\ job'.pc = "unmark"
        /\ job'.kind = job.kind /\ job'.inst = job.inst /\ job'.snap = job.snap
    BY <1>1, JobMoves DEF PublishCommit, SInv
  <2>2. StoreTypes'
    BY <1>1, <2>1 DEF PublishCommit, shots, SInv, StoreTypes, MaybeDir, Job
  <2>3. RowsHaveDirs' /\ ShotsHaveDirs'
    BY <1>1, <2>1 DEF PublishCommit, shots, SInv, StoreTypes, RowsHaveDirs, ShotsHaveDirs,
        Publishes, ErasesListed, JobAt
  <2>4. StartsAlone' /\ ErasesListed' /\ MakesUnregistered'
    BY <1>1, <2>1 DEF PublishCommit, shots, SInv, StartsAlone, ErasesListed,
        MakesUnregistered, AtWork, JobAt
  <2>5. Publishes'
    BY <1>1, <2>1 DEF PublishCommit, shots, SInv, StoreTypes, Publishes, Staging, Known,
        JobAt, Job
  <2>6. Restores' /\ Captures'
    BY <1>1, <2>1 DEF PublishCommit, shots, SInv, StoreTypes, Restores, Captures, Known,
        JobAt
  <2> QED BY <2>2, <2>3, <2>4, <2>5, <2>6 DEF SInv
<1>2. ASSUME NEW d \in {Absent} \cup Erasing(dirs[job.inst]), Abort(d, staged),
             UNCHANGED <<rows, state>>
      PROVE  SInv'
  <2>1. /\ job # NoJob /\ d \in MaybeDir /\ staged \in MaybeDir
        /\ UNCHANGED <<rows, state, pending, restoring, prep, snapRows, snapDirs>>
    BY <1>2, ErasingType DEF PublishCommit, SInv, StoreTypes, shots, Job, MaybeDir
  <2>2. job.inst \notin rows
    BY <1>2 DEF PublishCommit, SInv, MakesUnregistered, JobAt, MaybeDir
  <2> QED BY <1>2, <2>1, <2>2, AbortKeeps
<1> QED BY <1>1, <1>2 DEF PublishCommit

LEMMA EraseKeeps == ASSUME SInv, Erase PROVE SInv'
<1>1. CASE /\ dirs' = [dirs EXCEPT ![job.inst] = Absent]
           /\ Goto("forget") /\ UNCHANGED <<phase, staged>>
  <2>1. /\ job \in Job /\ job' \in Job /\ job' # NoJob /\ job'.pc = "forget"
        /\ job'.kind = job.kind /\ job'.inst = job.inst /\ job'.snap = job.snap
    BY <1>1, JobMoves DEF Erase, SInv
  <2>2. StoreTypes'
    BY <1>1, <2>1 DEF Erase, shots, SInv, StoreTypes, MaybeDir
  <2>3. RowsHaveDirs' /\ ShotsHaveDirs'
    BY <1>1, <2>1 DEF Erase, shots, SInv, StoreTypes, RowsHaveDirs, ShotsHaveDirs,
        ErasesListed, JobAt
  <2>4. StartsAlone' /\ ErasesListed' /\ MakesUnregistered'
    BY <1>1, <2>1 DEF Erase, shots, SInv, StartsAlone, ErasesListed, MakesUnregistered,
        AtWork, JobAt
  <2>5. Publishes'
    BY <1>1, <2>1 DEF Erase, shots, SInv, StoreTypes, Publishes, Staging, Known, JobAt, Job
  <2>6. Restores' /\ Captures'
    BY <1>1, <2>1 DEF Erase, shots, SInv, StoreTypes, Restores, Captures, Known, JobAt
  <2> QED BY <2>2, <2>3, <2>4, <2>5, <2>6 DEF SInv
<1>2. ASSUME NEW d \in Erasing(dirs[job.inst]), Abort(d, staged) PROVE SInv'
  <2>1. /\ job # NoJob /\ d \in MaybeDir /\ staged \in MaybeDir
        /\ UNCHANGED <<rows, state, pending, restoring, prep, snapRows, snapDirs>>
    BY <1>2, ErasingType DEF Erase, SInv, StoreTypes, shots, Job, MaybeDir
  <2>2. job.inst \notin rows
    BY <1>2 DEF Erase, SInv, ErasesListed, RowsHaveDirs, JobAt
  <2> QED BY <1>2, <2>1, <2>2, AbortKeeps
<1> QED BY <1>1, <1>2 DEF Erase

LEMMA ForgetKeeps == ASSUME SInv, Forget PROVE SInv'
<1>1. CASE /\ pending' = pending \ {job.inst} /\ job.kind \in {"create", "clone"}
           /\ Goto("check") /\ UNCHANGED <<phase, dirs, staged>>
  <2>1. /\ job \in Job /\ job' \in Job /\ job' # NoJob /\ job'.pc = "check"
        /\ job'.kind = job.kind /\ job'.inst = job.inst /\ job'.snap = job.snap
    BY <1>1, JobMoves DEF Forget, SInv
  <2>2. StoreTypes'
    BY <1>1, <2>1 DEF Forget, shots, SInv, StoreTypes, MaybeDir
  <2>3. RowsHaveDirs' /\ ShotsHaveDirs'
    BY <1>1, <2>1 DEF Forget, shots, SInv, StoreTypes, RowsHaveDirs, ShotsHaveDirs
  <2>4. StartsAlone' /\ ErasesListed' /\ MakesUnregistered'
    BY <1>1, <2>1 DEF Forget, shots, SInv, StartsAlone, ErasesListed, MakesUnregistered,
        AtWork, JobAt
  <2>5. Publishes'
    BY <1>1, <2>1 DEF Forget, shots, SInv, StoreTypes, Publishes, Staging, Known, JobAt, Job
  <2>6. Restores' /\ Captures'
    BY <1>1, <2>1 DEF Forget, shots, SInv, StoreTypes, Restores, Captures, Known, JobAt
  <2> QED BY <2>2, <2>3, <2>4, <2>5, <2>6 DEF SInv
<1>2. CASE /\ pending' = pending \ {job.inst} /\ job' = NoJob
           /\ UNCHANGED <<phase, dirs, staged>>
  <2>1. StoreTypes'
    BY <1>2 DEF Forget, shots, SInv, StoreTypes, MaybeDir
  <2>2. RowsHaveDirs' /\ ShotsHaveDirs'
    BY <1>2 DEF Forget, shots, SInv, StoreTypes, RowsHaveDirs, ShotsHaveDirs
  <2>3. StartsAlone' /\ ErasesListed' /\ MakesUnregistered'
    BY <1>2 DEF Forget, shots, SInv, StartsAlone, ErasesListed, MakesUnregistered, AtWork,
        JobAt
  <2>4. Publishes'
    BY <1>2 DEF Forget, shots, SInv, StoreTypes, Publishes, Staging, Known, JobAt, Job
  <2>5. Restores' /\ Captures'
    BY <1>2 DEF Forget, shots, SInv, StoreTypes, Restores, Captures, Known, JobAt
  <2> QED BY <2>1, <2>2, <2>3, <2>4, <2>5 DEF SInv
<1>3. CASE Abort(dirs[job.inst], staged) /\ UNCHANGED pending
  <2>1. /\ job # NoJob /\ dirs[job.inst] \in MaybeDir /\ staged \in MaybeDir
        /\ UNCHANGED <<rows, state, pending, restoring, prep, snapRows, snapDirs>>
    BY <1>3 DEF Forget, SInv, StoreTypes, shots, Job
  <2> QED BY <1>3, <2>1, AbortKeeps
<1> QED BY <1>1, <1>2, <1>3 DEF Forget

LEMMA PublishUnmarkKeeps == ASSUME SInv, PublishUnmark PROVE SInv'
<1>1. job \in Job /\ job.inst \in rows /\ dirs[job.inst] \in Dir
  BY Values DEF PublishUnmark, SInv, StoreTypes, Publishes, RowsHaveDirs, JobAt, MaybeDir, Job
<1>2. PICK d \in Dir : /\ dirs' = [dirs EXCEPT ![job.inst] = d]
                       /\ d.doc = dirs[job.inst].doc /\ d.disk = dirs[job.inst].disk
  <2>1. CASE dirs' = [dirs EXCEPT ![job.inst].marker = FALSE]
    <3> DEFINE d == [dirs[job.inst] EXCEPT !.marker = FALSE]
    <3>1. d \in Dir /\ d.doc = dirs[job.inst].doc /\ d.disk = dirs[job.inst].disk
      BY <1>1 DEF Dir
    <3> QED BY <2>1, <3>1
  <2>2. CASE UNCHANGED dirs
    BY <1>1, <2>2 DEF SInv, StoreTypes
  <2> QED BY <2>1, <2>2 DEF PublishUnmark
<1>3. StoreTypes'
  BY <1>1, <1>2, Values DEF PublishUnmark, shots, SInv, StoreTypes, MaybeDir
<1>4. RowsHaveDirs' /\ ShotsHaveDirs'
  BY <1>1, <1>2, Values DEF PublishUnmark, shots, SInv, StoreTypes, RowsHaveDirs,
      ShotsHaveDirs
<1>5. StartsAlone' /\ ErasesListed' /\ MakesUnregistered'
  BY <1>1, <1>2, Values DEF PublishUnmark, shots, SInv, StartsAlone, ErasesListed,
      MakesUnregistered, AtWork, JobAt
<1>6. Publishes'
  BY <1>1, <1>2, Values DEF PublishUnmark, shots, SInv, StoreTypes, Publishes, Staging,
      Known, JobAt, Job
<1>7. Restores' /\ Captures'
  BY <1>1, <1>2, Values DEF PublishUnmark, shots, SInv, StoreTypes, Restores, Captures,
      Known, JobAt
<1> QED BY <1>3, <1>4, <1>5, <1>6, <1>7 DEF SInv

-----------------------------------------------------------------------------
(* Snapshots and clones keep the invariant *)

LEMMA SnapCopyKeeps == ASSUME SInv, SnapCopy PROVE SInv'
<1>1. CASE /\ Capturable
           /\ staged' = [dirs[job.inst] EXCEPT !.tpm = None, !.sockets = FALSE]
           /\ Goto("rename snapshot") /\ UNCHANGED ops
  <2>1. job.inst \in rows /\ job.snap \in Snapshots /\ dirs[job.inst] \in Dir
    BY <1>1 DEF SnapCopy, SInv, StoreTypes, RowsHaveDirs, Captures, JobAt, MaybeDir
  <2>2. staged' \in Dir /\ staged'.disk = dirs[job.inst].disk /\ staged' # Absent
    BY <1>1, <2>1, Values DEF Dir, File
  <2>3. /\ job \in Job /\ job' \in Job /\ job' # NoJob /\ job'.pc = "rename snapshot"
        /\ job'.kind = job.kind /\ job'.inst = job.inst /\ job'.snap = job.snap
    BY <1>1, JobMoves DEF SnapCopy, SInv
  <2>4. StoreTypes'
    BY <1>1, <2>1, <2>2, <2>3 DEF SnapCopy, shots, SInv, StoreTypes, MaybeDir
  <2>5. RowsHaveDirs' /\ ShotsHaveDirs'
    BY <1>1, <2>1, <2>2, <2>3 DEF SnapCopy, shots, SInv, StoreTypes, RowsHaveDirs,
        ShotsHaveDirs
  <2>6. StartsAlone' /\ ErasesListed' /\ MakesUnregistered'
    BY <1>1, <2>1, <2>2, <2>3 DEF SnapCopy, shots, SInv, StartsAlone, ErasesListed,
        MakesUnregistered, AtWork, JobAt
  <2>7. Publishes'
    BY <1>1, <2>1, <2>2, <2>3 DEF SnapCopy, shots, SInv, StoreTypes, Publishes, Staging,
        Known, JobAt, Job
  <2>8. Restores' /\ Captures'
    BY <1>1, <2>1, <2>2, <2>3 DEF SnapCopy, shots, SInv, StoreTypes, Restores, Captures,
        Known, JobAt, Capturable
  <2> QED BY <2>4, <2>5, <2>6, <2>7, <2>8 DEF SInv
<1>2. CASE SnapFail
  <2>1. StoreTypes'
    BY <1>2 DEF SnapCopy, SnapFail, shots, files, SInv, StoreTypes, MaybeDir
  <2>2. RowsHaveDirs' /\ ShotsHaveDirs'
    BY <1>2 DEF SnapCopy, SnapFail, shots, files, SInv, StoreTypes, RowsHaveDirs,
        ShotsHaveDirs
  <2>3. StartsAlone' /\ ErasesListed' /\ MakesUnregistered'
    BY <1>2 DEF SnapCopy, SnapFail, shots, files, SInv, StartsAlone, ErasesListed,
        MakesUnregistered, AtWork, JobAt
  <2>4. Publishes'
    BY <1>2 DEF SnapCopy, SnapFail, shots, files, SInv, StoreTypes, Publishes, Staging,
        Known, JobAt, Job
  <2>5. Restores' /\ Captures'
    BY <1>2 DEF SnapCopy, SnapFail, shots, files, SInv, StoreTypes, Restores, Captures,
        Known, JobAt
  <2> QED BY <2>1, <2>2, <2>3, <2>4, <2>5 DEF SInv
<1> QED BY <1>1, <1>2 DEF SnapCopy

LEMMA SnapRenameKeeps == ASSUME SInv, SnapRename PROVE SInv'
<1>1. CASE /\ snapDirs' = [snapDirs EXCEPT ![job.snap] = staged] /\ staged' = Absent
           /\ Goto("insert") /\ UNCHANGED ops
  <2>1. /\ job.snap \in Snapshots /\ snapDirs[job.snap] = Absent
        /\ staged \in Dir /\ staged.disk = dirs[job.inst].disk
    BY <1>1, Values DEF SnapRename, SInv, StoreTypes, Captures, JobAt, MaybeDir
  <2>2. snapRows[job.snap] = Absent
    BY <1>1, <2>1, Values DEF SInv, StoreTypes, ShotsHaveDirs
  <2>3. /\ job \in Job /\ job' \in Job /\ job' # NoJob /\ job'.pc = "insert"
        /\ job'.kind = job.kind /\ job'.inst = job.inst /\ job'.snap = job.snap
    BY <1>1, JobMoves DEF SnapRename, SInv
  <2>4. StoreTypes'
    BY <1>1, <2>1, <2>2, <2>3 DEF SnapRename, shots, SInv, StoreTypes, MaybeDir
  <2>5. RowsHaveDirs' /\ ShotsHaveDirs'
    BY <1>1, <2>1, <2>2, <2>3 DEF SnapRename, shots, SInv, StoreTypes, RowsHaveDirs,
        ShotsHaveDirs
  <2>6. StartsAlone' /\ ErasesListed' /\ MakesUnregistered'
    BY <1>1, <2>1, <2>2, <2>3 DEF SnapRename, shots, SInv, StartsAlone, ErasesListed,
        MakesUnregistered, AtWork, JobAt
  <2>7. Publishes'
    BY <1>1, <2>1, <2>2, <2>3 DEF SnapRename, shots, SInv, StoreTypes, Publishes, Staging,
        Known, JobAt, Job
  <2>8. Restores' /\ Captures'
    BY <1>1, <2>1, <2>2, <2>3 DEF SnapRename, shots, SInv, StoreTypes, Restores, Captures,
        Known, JobAt
  <2> QED BY <2>4, <2>5, <2>6, <2>7, <2>8 DEF SInv
<1>2. CASE SnapFail /\ UNCHANGED snapDirs
  <2>1. StoreTypes'
    BY <1>2 DEF SnapRename, SnapFail, shots, files, SInv, StoreTypes, MaybeDir
  <2>2. RowsHaveDirs' /\ ShotsHaveDirs'
    BY <1>2 DEF SnapRename, SnapFail, shots, files, SInv, StoreTypes, RowsHaveDirs,
        ShotsHaveDirs
  <2>3. StartsAlone' /\ ErasesListed' /\ MakesUnregistered'
    BY <1>2 DEF SnapRename, SnapFail, shots, files, SInv, StartsAlone, ErasesListed,
        MakesUnregistered, AtWork, JobAt
  <2>4. Publishes'
    BY <1>2 DEF SnapRename, SnapFail, shots, files, SInv, StoreTypes, Publishes, Staging,
        Known, JobAt, Job
  <2>5. Restores' /\ Captures'
    BY <1>2 DEF SnapRename, SnapFail, shots, files, SInv, StoreTypes, Restores, Captures,
        Known, JobAt
  <2> QED BY <2>1, <2>2, <2>3, <2>4, <2>5 DEF SInv
<1> QED BY <1>1, <1>2 DEF SnapRename

LEMMA SnapInsertKeeps == ASSUME SInv, SnapInsert PROVE SInv'
<1>1. CASE /\ snapRows[job.snap] = Absent
           /\ snapRows' = [snapRows EXCEPT ![job.snap] =
                              [inst |-> job.inst, files |-> snapDirs[job.snap]]]
           /\ Goto("complete") /\ UNCHANGED <<ops, staged>>
  <2>1. /\ job.snap \in Snapshots /\ job.inst \in rows /\ job.inst \in Instances
        /\ snapDirs[job.snap] \in Dir
    BY <1>1, Values DEF SnapInsert, SInv, StoreTypes, Captures, JobAt, MaybeDir, Job
  <2>2. /\ [inst |-> job.inst, files |-> snapDirs[job.snap]] \in [inst : Instances, files : Dir]
        /\ [inst |-> job.inst, files |-> snapDirs[job.snap]] # Absent
    BY <1>1, <2>1, Values DEF SnapInsert
  <2>3. /\ job \in Job /\ job' \in Job /\ job' # NoJob /\ job'.pc = "complete"
        /\ job'.kind = job.kind /\ job'.inst = job.inst /\ job'.snap = job.snap
    BY <1>1, JobMoves DEF SnapInsert, SInv
  <2>4. StoreTypes'
    BY <1>1, <2>1, <2>2, <2>3 DEF SnapInsert, shots, SInv, StoreTypes, MaybeDir
  <2>5. RowsHaveDirs' /\ ShotsHaveDirs'
    BY <1>1, <2>1, <2>2, <2>3 DEF SnapInsert, shots, SInv, StoreTypes, RowsHaveDirs,
        ShotsHaveDirs
  <2>6. StartsAlone' /\ ErasesListed' /\ MakesUnregistered'
    BY <1>1, <2>1, <2>2, <2>3 DEF SnapInsert, shots, SInv, StartsAlone, ErasesListed,
        MakesUnregistered, AtWork, JobAt
  <2>7. Publishes'
    BY <1>1, <2>1, <2>2, <2>3 DEF SnapInsert, shots, SInv, StoreTypes, Publishes, Staging,
        Known, JobAt, Job
  <2>8. Restores' /\ Captures'
    BY <1>1, <2>1, <2>2, <2>3 DEF SnapInsert, shots, SInv, StoreTypes, Restores, Captures,
        Known, JobAt
  <2> QED BY <2>4, <2>5, <2>6, <2>7, <2>8 DEF SInv
<1>2. CASE SnapFail /\ UNCHANGED snapRows
  <2>1. StoreTypes'
    BY <1>2 DEF SnapInsert, SnapFail, shots, files, SInv, StoreTypes, MaybeDir
  <2>2. RowsHaveDirs' /\ ShotsHaveDirs'
    BY <1>2 DEF SnapInsert, SnapFail, shots, files, SInv, StoreTypes, RowsHaveDirs,
        ShotsHaveDirs
  <2>3. StartsAlone' /\ ErasesListed' /\ MakesUnregistered'
    BY <1>2 DEF SnapInsert, SnapFail, shots, files, SInv, StartsAlone, ErasesListed,
        MakesUnregistered, AtWork, JobAt
  <2>4. Publishes'
    BY <1>2 DEF SnapInsert, SnapFail, shots, files, SInv, StoreTypes, Publishes, Staging,
        Known, JobAt, Job
  <2>5. Restores' /\ Captures'
    BY <1>2 DEF SnapInsert, SnapFail, shots, files, SInv, StoreTypes, Restores, Captures,
        Known, JobAt
  <2> QED BY <2>1, <2>2, <2>3, <2>4, <2>5 DEF SInv
<1> QED BY <1>1, <1>2 DEF SnapInsert

LEMMA SnapCompleteKeeps == ASSUME SInv, SnapComplete PROVE SInv'
<1>1. StoreTypes'
  BY Values DEF SnapComplete, files, shots, SInv, StoreTypes, MaybeDir
<1>2. RowsHaveDirs' /\ ShotsHaveDirs'
  BY Values DEF SnapComplete, files, shots, SInv, StoreTypes, RowsHaveDirs, ShotsHaveDirs
<1>3. StartsAlone' /\ ErasesListed' /\ MakesUnregistered'
  BY Values DEF SnapComplete, files, shots, SInv, StartsAlone, ErasesListed,
      MakesUnregistered, AtWork, JobAt
<1>4. Publishes'
  BY Values DEF SnapComplete, files, shots, SInv, StoreTypes, Publishes, Staging, Known,
      JobAt, Job
<1>5. Restores' /\ Captures'
  BY Values DEF SnapComplete, files, shots, SInv, StoreTypes, Restores, Captures, Known,
      JobAt
<1> QED BY <1>1, <1>2, <1>3, <1>4, <1>5 DEF SInv

(* The files of the manifest over what an earlier restore has left *)
LEMMA RestoredKnown ==
    ASSUME SInv, job # NoJob, job.pc = "restore"
    PROVE  /\ job \in Job /\ job.inst \notin rows
           /\ Restored \in Dir /\ Known(Restored.disk)
           /\ [restoring EXCEPT ![job.inst] = Restored] \in [Instances -> Dir]
<1> DEFINE old == restoring[job.inst]
           new == snapRows[job.snap].files
<1>1. /\ job \in Job /\ job.inst \notin rows /\ job.snap \in Snapshots
      /\ snapRows[job.snap] # Absent /\ snapDirs[job.snap] = new
      /\ old \in Dir /\ Known(old.disk) /\ restoring \in [Instances -> Dir]
  BY DEF SInv, StoreTypes, ShotsHaveDirs, MakesUnregistered, Restores, JobAt, Job
<1>2. new \in Dir
  BY <1>1 DEF SInv, StoreTypes
<1>3. Known(new.disk)
  BY <1>1 DEF Known
<1>4. Restored = [new EXCEPT !.disk = IF new.disk = None THEN old.disk ELSE new.disk,
                             !.doc = IF new.doc = None THEN old.doc ELSE new.doc,
                             !.marker = new.marker \/ old.marker]
  BY <1>1 DEF Restored
<1>5. Restored \in Dir /\ Restored.disk \in {new.disk, old.disk}
  <2> HIDE DEF old, new
  <2> QED BY <1>1, <1>2, <1>4 DEF Dir
<1> QED BY <1>1, <1>3, <1>5 DEF Job

LEMMA CloneRestoreKeeps == ASSUME SInv, CloneRestore PROVE SInv'
<1>1. CASE /\ restoring' = [restoring EXCEPT ![job.inst] = Restored]
           /\ Goto("place")
  <2>1. /\ job \in Job /\ job' \in Job /\ job' # NoJob /\ job'.pc = "place"
        /\ job'.kind = job.kind /\ job'.inst = job.inst /\ job'.snap = job.snap
    BY <1>1, JobMoves DEF CloneRestore, SInv
  <2>2. StoreTypes'
    BY <1>1, <2>1, RestoredKnown DEF CloneRestore, shots, SInv, StoreTypes, MaybeDir
  <2>3. RowsHaveDirs' /\ ShotsHaveDirs'
    BY <1>1, <2>1 DEF CloneRestore, shots, SInv, StoreTypes, RowsHaveDirs, ShotsHaveDirs
  <2>4. StartsAlone' /\ ErasesListed' /\ MakesUnregistered'
    BY <1>1, <2>1 DEF CloneRestore, shots, SInv, StartsAlone, ErasesListed,
        MakesUnregistered, AtWork, JobAt
  <2>5. Publishes'
    BY <1>1, <2>1 DEF CloneRestore, shots, SInv, StoreTypes, Publishes, Staging, Known,
        JobAt, Job
  <2>6. Restores' /\ Captures'
    BY <1>1, <2>1, RestoredKnown DEF CloneRestore, shots, SInv, StoreTypes, Restores,
        Captures, Known, JobAt
  <2> QED BY <2>2, <2>3, <2>4, <2>5, <2>6 DEF SInv
<1>2. CASE restoring' = [restoring EXCEPT ![job.inst] = Empty] /\ job' = NoJob
  <2>1. job \in Job /\ Empty \in Dir /\ Known(Empty.disk)
    BY <1>2, Values DEF CloneRestore, SInv, StoreTypes, Known
  <2>2. StoreTypes'
    BY <1>2, <2>1 DEF CloneRestore, shots, SInv, StoreTypes, MaybeDir
  <2>3. RowsHaveDirs' /\ ShotsHaveDirs'
    BY <1>2, <2>1 DEF CloneRestore, shots, SInv, StoreTypes, RowsHaveDirs, ShotsHaveDirs
  <2>4. StartsAlone' /\ ErasesListed' /\ MakesUnregistered'
    BY <1>2, <2>1 DEF CloneRestore, shots, SInv, StartsAlone, ErasesListed,
        MakesUnregistered, AtWork, JobAt
  <2>5. Publishes'
    BY <1>2, <2>1 DEF CloneRestore, shots, SInv, StoreTypes, Publishes, Staging, Known,
        JobAt, Job
  <2>6. Restores' /\ Captures'
    BY <1>2, <2>1 DEF CloneRestore, shots, SInv, StoreTypes, Restores, Captures, Known,
        JobAt
  <2> QED BY <2>2, <2>3, <2>4, <2>5, <2>6 DEF SInv
<1> QED BY <1>1, <1>2 DEF CloneRestore

LEMMA ClonePlaceKeeps == ASSUME SInv, ClonePlace PROVE SInv'
<1>1. CASE /\ dirs' = [dirs EXCEPT ![job.inst] = restoring[job.inst]]
           /\ restoring' = [restoring EXCEPT ![job.inst] = Empty]
           /\ Goto("strip")
  <2>1. Empty \in Dir /\ Known(Empty.disk)
    BY <1>1, Values DEF Known
  <2>2. job.inst \in Instances /\ job.inst \notin rows
    BY <1>1 DEF ClonePlace, SInv, StoreTypes, MakesUnregistered, JobAt, Job
  <2>3. /\ restoring[job.inst] \in Dir /\ restoring[job.inst] # Absent
        /\ Known(restoring[job.inst].disk)
    BY <1>1, <2>2, Values DEF SInv, StoreTypes, Restores
  <2>4. /\ job \in Job /\ job' \in Job /\ job' # NoJob /\ job'.pc = "strip"
        /\ job'.kind = job.kind /\ job'.inst = job.inst /\ job'.snap = job.snap
    BY <1>1, JobMoves DEF ClonePlace, SInv
  <2>5. StoreTypes'
    BY <1>1, <2>1, <2>2, <2>3, <2>4 DEF ClonePlace, shots, SInv, StoreTypes, MaybeDir
  <2>6. RowsHaveDirs' /\ ShotsHaveDirs'
    BY <1>1, <2>1, <2>2, <2>3, <2>4 DEF ClonePlace, shots, SInv, StoreTypes, RowsHaveDirs,
        ShotsHaveDirs
  <2>7. StartsAlone' /\ ErasesListed' /\ MakesUnregistered'
    BY <1>1, <2>1, <2>2, <2>3, <2>4 DEF ClonePlace, shots, SInv, StartsAlone, ErasesListed,
        MakesUnregistered, AtWork, JobAt
  <2>8. Publishes'
    BY <1>1, <2>1, <2>2, <2>3, <2>4 DEF ClonePlace, shots, SInv, StoreTypes, Publishes,
        Staging, Known, JobAt, Job
  <2>9. Restores' /\ Captures'
    BY <1>1, <2>1, <2>2, <2>3, <2>4 DEF ClonePlace, shots, SInv, StoreTypes, Restores,
        Captures, Known, JobAt
  <2> QED BY <2>5, <2>6, <2>7, <2>8, <2>9 DEF SInv
<1>2. CASE job' = NoJob /\ UNCHANGED <<dirs, restoring>>
  <2>1. StoreTypes'
    BY <1>2 DEF ClonePlace, shots, SInv, StoreTypes, MaybeDir
  <2>2. RowsHaveDirs' /\ ShotsHaveDirs'
    BY <1>2 DEF ClonePlace, shots, SInv, StoreTypes, RowsHaveDirs, ShotsHaveDirs
  <2>3. StartsAlone' /\ ErasesListed' /\ MakesUnregistered'
    BY <1>2 DEF ClonePlace, shots, SInv, StartsAlone, ErasesListed, MakesUnregistered,
        AtWork, JobAt
  <2>4. Publishes'
    BY <1>2 DEF ClonePlace, shots, SInv, StoreTypes, Publishes, Staging, Known, JobAt, Job
  <2>5. Restores' /\ Captures'
    BY <1>2 DEF ClonePlace, shots, SInv, StoreTypes, Restores, Captures, Known, JobAt
  <2> QED BY <2>1, <2>2, <2>3, <2>4, <2>5 DEF SInv
<1> QED BY <1>1, <1>2 DEF ClonePlace

LEMMA CloneStripKeeps == ASSUME SInv, CloneStrip PROVE SInv'
<1>1. CASE dirs' = [dirs EXCEPT ![job.inst].doc = None] /\ Goto("stage")
  <2>1. /\ job.inst \in Instances /\ job.inst \notin rows /\ dirs[job.inst] \in Dir
        /\ Known(dirs[job.inst].disk)
    BY <1>1, Values DEF CloneStrip, SInv, StoreTypes, Publishes, MakesUnregistered, JobAt,
        Job, MaybeDir
  <2>2. PICK d \in Dir : dirs' = [dirs EXCEPT ![job.inst] = d] /\ d.disk = dirs[job.inst].disk
    <3> DEFINE e == [dirs[job.inst] EXCEPT !.doc = None]
    <3>1. e \in Dir /\ e.disk = dirs[job.inst].disk
      BY <2>1 DEF Dir
    <3> QED BY <1>1, <3>1
  <2>3. /\ job \in Job /\ job' \in Job /\ job' # NoJob /\ job'.pc = "stage"
        /\ job'.kind = job.kind /\ job'.inst = job.inst /\ job'.snap = job.snap
    BY <1>1, JobMoves DEF CloneStrip, SInv
  <2>4. StoreTypes'
    BY <1>1, <2>1, <2>2, <2>3 DEF CloneStrip, shots, SInv, StoreTypes, MaybeDir
  <2>5. RowsHaveDirs' /\ ShotsHaveDirs'
    BY <1>1, <2>1, <2>2, <2>3 DEF CloneStrip, shots, SInv, StoreTypes, RowsHaveDirs,
        ShotsHaveDirs
  <2>6. StartsAlone' /\ ErasesListed' /\ MakesUnregistered'
    BY <1>1, <2>1, <2>2, <2>3 DEF CloneStrip, shots, SInv, StartsAlone, ErasesListed,
        MakesUnregistered, AtWork, JobAt
  <2>7. Publishes'
    <3>1. dirs'[job'.inst] = d /\ d # Absent
      BY <2>1, <2>2, <2>3, Values DEF SInv, StoreTypes
    <3>2. Known(dirs[job.inst].disk)'
      BY <2>1, <2>2, <3>1 DEF CloneStrip, shots, Known
    <3> QED BY <2>3, <3>1, <3>2 DEF Publishes, Staging, JobAt
  <2>8. Restores' /\ Captures'
    BY <1>1, <2>1, <2>2, <2>3 DEF CloneStrip, shots, SInv, StoreTypes, Restores, Captures,
        Known, JobAt
  <2> QED BY <2>4, <2>5, <2>6, <2>7, <2>8 DEF SInv
<1>2. CASE job' = NoJob /\ UNCHANGED dirs
  <2>1. StoreTypes'
    BY <1>2 DEF CloneStrip, shots, SInv, StoreTypes, MaybeDir
  <2>2. RowsHaveDirs' /\ ShotsHaveDirs'
    BY <1>2 DEF CloneStrip, shots, SInv, StoreTypes, RowsHaveDirs, ShotsHaveDirs
  <2>3. StartsAlone' /\ ErasesListed' /\ MakesUnregistered'
    BY <1>2 DEF CloneStrip, shots, SInv, StartsAlone, ErasesListed, MakesUnregistered,
        AtWork, JobAt
  <2>4. Publishes'
    BY <1>2 DEF CloneStrip, shots, SInv, StoreTypes, Publishes, Staging, Known, JobAt, Job
  <2>5. Restores' /\ Captures'
    BY <1>2 DEF CloneStrip, shots, SInv, StoreTypes, Restores, Captures, Known, JobAt
  <2> QED BY <2>1, <2>2, <2>3, <2>4, <2>5 DEF SInv
<1> QED BY <1>1, <1>2 DEF CloneStrip

LEMMA CloneStageKeeps == ASSUME SInv, CloneStage PROVE SInv'
<1>1. CASE /\ staged' = dirs[job.inst] /\ dirs' = [dirs EXCEPT ![job.inst] = Absent]
           /\ Goto("finish")
  <2>1. /\ job.inst \in Instances /\ job.inst \notin rows /\ dirs[job.inst] \in Dir
        /\ Known(dirs[job.inst].disk)
    BY <1>1, Values DEF CloneStage, SInv, StoreTypes, Publishes, MakesUnregistered, JobAt,
        Job, MaybeDir
  <2>2. /\ job \in Job /\ job' \in Job /\ job' # NoJob /\ job'.pc = "finish"
        /\ job'.kind = job.kind /\ job'.inst = job.inst /\ job'.snap = job.snap
    BY <1>1, JobMoves DEF CloneStage, SInv
  <2>3. StoreTypes'
    BY <1>1, <2>1, <2>2 DEF CloneStage, shots, SInv, StoreTypes, MaybeDir
  <2>4. RowsHaveDirs' /\ ShotsHaveDirs'
    BY <1>1, <2>1, <2>2 DEF CloneStage, shots, SInv, StoreTypes, RowsHaveDirs, ShotsHaveDirs
  <2>5. StartsAlone' /\ ErasesListed' /\ MakesUnregistered'
    BY <1>1, <2>1, <2>2 DEF CloneStage, shots, SInv, StartsAlone, ErasesListed,
        MakesUnregistered, AtWork, JobAt
  <2>6. Publishes'
    BY <1>1, <2>1, <2>2, Values DEF CloneStage, shots, SInv, StoreTypes, Publishes, Staging,
        Known, JobAt, Job
  <2>7. Restores' /\ Captures'
    BY <1>1, <2>1, <2>2 DEF CloneStage, shots, SInv, StoreTypes, Restores, Captures, Known,
        JobAt
  <2> QED BY <2>3, <2>4, <2>5, <2>6, <2>7 DEF SInv
<1>2. CASE job' = NoJob /\ UNCHANGED <<dirs, staged>>
  <2>1. StoreTypes'
    BY <1>2 DEF CloneStage, shots, SInv, StoreTypes, MaybeDir
  <2>2. RowsHaveDirs' /\ ShotsHaveDirs'
    BY <1>2 DEF CloneStage, shots, SInv, StoreTypes, RowsHaveDirs, ShotsHaveDirs
  <2>3. StartsAlone' /\ ErasesListed' /\ MakesUnregistered'
    BY <1>2 DEF CloneStage, shots, SInv, StartsAlone, ErasesListed, MakesUnregistered,
        AtWork, JobAt
  <2>4. Publishes'
    BY <1>2 DEF CloneStage, shots, SInv, StoreTypes, Publishes, Staging, Known, JobAt, Job
  <2>5. Restores' /\ Captures'
    BY <1>2 DEF CloneStage, shots, SInv, StoreTypes, Restores, Captures, Known, JobAt
  <2> QED BY <2>1, <2>2, <2>3, <2>4, <2>5 DEF SInv
<1> QED BY <1>1, <1>2 DEF CloneStage

-----------------------------------------------------------------------------
(* Requests begin, instances run, the daemon ends *)

LEMMA CreateBeginKeeps == ASSUME SInv, NEW i \in Instances, CreateBegin(i) PROVE SInv'
<1>1. /\ job = NoJob /\ job' \in Job
      /\ job'.kind = "create" /\ job'.inst = i /\ job'.snap = None /\ job'.pc = "finish"
  BY DEF CreateBegin, Free, Job
<1>2. job' # NoJob
  BY <1>1, Values
<1>3. staged' \in Dir /\ staged' # Absent /\ staged'.disk = None
  BY Values DEF CreateBegin
<1>4. StoreTypes'
  BY <1>1, <1>2, <1>3 DEF CreateBegin, Free, shots, SInv, StoreTypes, MaybeDir
<1>5. RowsHaveDirs' /\ ShotsHaveDirs'
  BY <1>1, <1>2, <1>3 DEF CreateBegin, Free, shots, SInv, StoreTypes, RowsHaveDirs,
      ShotsHaveDirs
<1>6. StartsAlone' /\ ErasesListed' /\ MakesUnregistered'
  BY <1>1, <1>2, <1>3 DEF CreateBegin, Free, shots, SInv, StartsAlone, ErasesListed,
      MakesUnregistered, AtWork, JobAt
<1>7. Publishes'
  BY <1>1, <1>2, <1>3 DEF CreateBegin, Free, shots, SInv, StoreTypes, Publishes, Staging,
      Known, JobAt, Job
<1>8. Restores' /\ Captures'
  BY <1>1, <1>2, <1>3 DEF CreateBegin, Free, shots, SInv, StoreTypes, Restores, Captures,
      Known, JobAt
<1> QED BY <1>4, <1>5, <1>6, <1>7, <1>8 DEF SInv

LEMMA RemoveBeginKeeps == ASSUME SInv, NEW i \in Instances, RemoveBegin(i) PROVE SInv'
<1>1. /\ job = NoJob /\ job' \in Job
      /\ job'.kind = "remove" /\ job'.inst = i /\ job'.snap = None /\ job'.pc = "erase"
  BY DEF RemoveBegin, Free, Job
<1>2. job' # NoJob
  BY <1>1, Values
<1>3. StoreTypes'
  BY <1>1, <1>2 DEF RemoveBegin, Free, Captured, files, SInv, StoreTypes, MaybeDir
<1>4. RowsHaveDirs' /\ ShotsHaveDirs'
  BY <1>1, <1>2 DEF RemoveBegin, Free, Captured, files, SInv, StoreTypes, RowsHaveDirs,
      ShotsHaveDirs
<1>5. StartsAlone' /\ ErasesListed' /\ MakesUnregistered'
  BY <1>1, <1>2 DEF RemoveBegin, Free, Captured, files, SInv, StartsAlone, ErasesListed,
      MakesUnregistered, AtWork, JobAt
<1>6. Publishes'
  BY <1>1, <1>2 DEF RemoveBegin, Free, Captured, files, SInv, StoreTypes, Publishes,
      Staging, Known, JobAt, Job
<1>7. Restores' /\ Captures'
  BY <1>1, <1>2 DEF RemoveBegin, Free, Captured, files, SInv, StoreTypes, Restores,
      Captures, Known, JobAt
<1> QED BY <1>3, <1>4, <1>5, <1>6, <1>7 DEF SInv

LEMMA BootDeletionKeeps == ASSUME SInv, NEW i \in Instances, BootDeletion(i) PROVE SInv'
<1>1. /\ job = NoJob /\ job' \in Job
      /\ job'.kind = "boot" /\ job'.inst = i /\ job'.snap = None /\ job'.pc = "erase"
  BY DEF BootDeletion, Free, Job
<1>2. job' # NoJob
  BY <1>1, Values
<1>3. StoreTypes'
  BY <1>1, <1>2 DEF BootDeletion, files, shots, SInv, StoreTypes, MaybeDir
<1>4. RowsHaveDirs' /\ ShotsHaveDirs'
  BY <1>1, <1>2 DEF BootDeletion, files, shots, SInv, StoreTypes, RowsHaveDirs,
      ShotsHaveDirs
<1>5. StartsAlone' /\ ErasesListed' /\ MakesUnregistered'
  BY <1>1, <1>2 DEF BootDeletion, files, shots, SInv, StartsAlone, ErasesListed,
      MakesUnregistered, AtWork, JobAt
<1>6. Publishes'
  BY <1>1, <1>2 DEF BootDeletion, files, shots, SInv, StoreTypes, Publishes, Staging, Known,
      JobAt, Job
<1>7. Restores' /\ Captures'
  BY <1>1, <1>2 DEF BootDeletion, files, shots, SInv, StoreTypes, Restores, Captures, Known,
      JobAt
<1> QED BY <1>3, <1>4, <1>5, <1>6, <1>7 DEF SInv

LEMMA SnapBeginKeeps == ASSUME SInv, NEW i \in Instances, NEW s \in Snapshots, SnapBegin(i, s) PROVE SInv'
<1>1. /\ job = NoJob /\ job' \in Job
      /\ job'.kind = "snapshot" /\ job'.inst = i /\ job'.snap = s /\ job'.pc = "copy"
  BY DEF SnapBegin, Free, Job
<1>2. job' # NoJob
  BY <1>1, Values
<1>3. StoreTypes'
  BY <1>1, <1>2 DEF SnapBegin, Free, files, SInv, StoreTypes, MaybeDir
<1>4. RowsHaveDirs' /\ ShotsHaveDirs'
  BY <1>1, <1>2 DEF SnapBegin, Free, files, SInv, StoreTypes, RowsHaveDirs, ShotsHaveDirs
<1>5. StartsAlone' /\ ErasesListed' /\ MakesUnregistered'
  BY <1>1, <1>2 DEF SnapBegin, Free, files, SInv, StartsAlone, ErasesListed,
      MakesUnregistered, AtWork, JobAt
<1>6. Publishes'
  BY <1>1, <1>2 DEF SnapBegin, Free, files, SInv, StoreTypes, Publishes, Staging, Known,
      JobAt, Job
<1>7. Restores' /\ Captures'
  BY <1>1, <1>2 DEF SnapBegin, Free, files, SInv, StoreTypes, Restores, Captures, Known,
      JobAt
<1> QED BY <1>3, <1>4, <1>5, <1>6, <1>7 DEF SInv

LEMMA CloneBeginKeeps == ASSUME SInv, NEW i \in Instances, NEW s \in Snapshots, CloneBegin(i, s) PROVE SInv'
<1>1. /\ job = NoJob /\ job' \in Job
      /\ job'.kind = "clone" /\ job'.inst = i /\ job'.snap = s /\ job'.pc = "restore"
  BY DEF CloneBegin, Free, Job
<1>2. job' # NoJob
  BY <1>1, Values
<1>3. i \notin rows
  BY Values DEF CloneBegin, SInv, RowsHaveDirs, Empty
<1>4. StoreTypes'
  BY <1>1, <1>2, <1>3 DEF CloneBegin, Free, files, shots, SInv, StoreTypes, MaybeDir
<1>5. RowsHaveDirs' /\ ShotsHaveDirs'
  BY <1>1, <1>2, <1>3 DEF CloneBegin, Free, files, shots, SInv, StoreTypes, RowsHaveDirs,
      ShotsHaveDirs
<1>6. StartsAlone' /\ ErasesListed' /\ MakesUnregistered'
  BY <1>1, <1>2, <1>3 DEF CloneBegin, Free, files, shots, SInv, StartsAlone, ErasesListed,
      MakesUnregistered, AtWork, JobAt
<1>7. Publishes'
  BY <1>1, <1>2, <1>3 DEF CloneBegin, Free, files, shots, SInv, StoreTypes, Publishes,
      Staging, Known, JobAt, Job
<1>8. Restores' /\ Captures'
  BY <1>1, <1>2, <1>3 DEF CloneBegin, Free, files, shots, SInv, StoreTypes, Restores,
      Captures, Known, JobAt
<1> QED BY <1>4, <1>5, <1>6, <1>7, <1>8 DEF SInv

LEMMA StartBeginKeeps == ASSUME SInv, NEW i \in Instances, StartBegin(i) PROVE SInv'
<1>1. StoreTypes'
  BY DEF StartBegin, AtWork, files, shots, SInv, StoreTypes, MaybeDir
<1>2. RowsHaveDirs' /\ ShotsHaveDirs'
  BY DEF StartBegin, AtWork, files, shots, SInv, StoreTypes, RowsHaveDirs, ShotsHaveDirs
<1>3. StartsAlone' /\ ErasesListed' /\ MakesUnregistered'
  BY DEF StartBegin, AtWork, files, shots, SInv, StartsAlone, ErasesListed,
      MakesUnregistered, JobAt, StoreTypes, Job
<1>4. Publishes'
  BY DEF StartBegin, AtWork, files, shots, SInv, StoreTypes, Publishes, Staging, Known,
      JobAt, Job
<1>5. Restores' /\ Captures'
  BY DEF StartBegin, AtWork, files, shots, SInv, StoreTypes, Restores, Captures, Known,
      JobAt
<1> QED BY <1>1, <1>2, <1>3, <1>4, <1>5 DEF SInv

LEMMA LaunchKeeps == ASSUME SInv, NEW i \in Instances, Launch(i) PROVE SInv'
<1>1. StoreTypes'
  BY DEF Launch, files, shots, SInv, StoreTypes, MaybeDir
<1>2. RowsHaveDirs' /\ ShotsHaveDirs'
  BY DEF Launch, files, shots, SInv, StoreTypes, RowsHaveDirs, ShotsHaveDirs
<1>3. StartsAlone' /\ ErasesListed' /\ MakesUnregistered'
  BY DEF Launch, files, shots, SInv, StartsAlone, ErasesListed, MakesUnregistered, AtWork,
      JobAt, StoreTypes
<1>4. Publishes'
  BY DEF Launch, files, shots, SInv, StoreTypes, Publishes, Staging, Known, JobAt, Job
<1>5. Restores' /\ Captures'
  BY DEF Launch, files, shots, SInv, StoreTypes, Restores, Captures, Known, JobAt,
      StartsAlone, AtWork
<1> QED BY <1>1, <1>2, <1>3, <1>4, <1>5 DEF SInv

LEMMA VmStopsKeeps == ASSUME SInv, NEW i \in Instances, VmStops(i) PROVE SInv'
<1>1. StoreTypes'
  BY DEF VmStops, files, shots, SInv, StoreTypes, MaybeDir
<1>2. RowsHaveDirs' /\ ShotsHaveDirs'
  BY DEF VmStops, files, shots, SInv, StoreTypes, RowsHaveDirs, ShotsHaveDirs
<1>3. StartsAlone' /\ ErasesListed' /\ MakesUnregistered'
  BY DEF VmStops, files, shots, SInv, StartsAlone, ErasesListed, MakesUnregistered, AtWork,
      JobAt
<1>4. Publishes'
  BY DEF VmStops, files, shots, SInv, StoreTypes, Publishes, Staging, Known, JobAt, Job
<1>5. Restores' /\ Captures'
  BY DEF VmStops, files, shots, SInv, StoreTypes, Restores, Captures, Known, JobAt
<1> QED BY <1>1, <1>2, <1>3, <1>4, <1>5 DEF SInv

LEMMA BootKeeps == ASSUME SInv, Boot PROVE SInv'
<1>1. StoreTypes'
  BY DEF Boot, files, shots, SInv, StoreTypes, MaybeDir
<1>2. RowsHaveDirs' /\ ShotsHaveDirs'
  BY DEF Boot, files, shots, SInv, StoreTypes, RowsHaveDirs, ShotsHaveDirs
<1>3. StartsAlone' /\ ErasesListed' /\ MakesUnregistered'
  BY DEF Boot, files, shots, SInv, StartsAlone, ErasesListed, MakesUnregistered, AtWork,
      JobAt
<1>4. Publishes'
  BY DEF Boot, files, shots, SInv, StoreTypes, Publishes, Staging, Known, JobAt, Job
<1>5. Restores' /\ Captures'
  BY DEF Boot, files, shots, SInv, StoreTypes, Restores, Captures, Known, JobAt
<1> QED BY <1>1, <1>2, <1>3, <1>4, <1>5 DEF SInv

LEMMA BootReconcileKeeps == ASSUME SInv, BootReconcile PROVE SInv'
<1>1. StoreTypes'
  BY DEF BootReconcile, files, SInv, StoreTypes, MaybeDir
<1>2. RowsHaveDirs' /\ ShotsHaveDirs'
  BY DEF BootReconcile, files, SInv, StoreTypes, RowsHaveDirs, ShotsHaveDirs
<1>3. StartsAlone' /\ ErasesListed' /\ MakesUnregistered'
  BY DEF BootReconcile, files, SInv, StartsAlone, ErasesListed, MakesUnregistered, AtWork,
      JobAt
<1>4. Publishes'
  BY DEF BootReconcile, files, SInv, StoreTypes, Publishes, Staging, Known, JobAt, Job
<1>5. Restores' /\ Captures'
  BY DEF BootReconcile, files, SInv, StoreTypes, Restores, Captures, Known, JobAt
<1> QED BY <1>1, <1>2, <1>3, <1>4, <1>5 DEF SInv

(* The files of a registered instance change while it starts or runs. *)
LEMMA FilesChange ==
    ASSUME SInv, NEW i \in rows, NEW d \in Dir, d.doc = dirs[i].doc,
           dirs' = [dirs EXCEPT ![i] = d],
           prep' \in [Instances -> {"no", "disk", "tpm", "launch"}],
           \A j \in Instances : prep'[j] # "no" => prep[j] # "no",
           AtWork(i) => state[i] = "running",
           UNCHANGED <<phase, rows, state, pending, staged, restoring, snapRows, snapDirs, job>>
    PROVE  SInv'
<1>1. StoreTypes'
  BY Values DEF SInv, StoreTypes, MaybeDir
<1>2. RowsHaveDirs' /\ ShotsHaveDirs'
  BY Values DEF SInv, StoreTypes, RowsHaveDirs, ShotsHaveDirs
<1>3. StartsAlone' /\ ErasesListed' /\ MakesUnregistered'
  BY Values DEF SInv, StartsAlone, ErasesListed, MakesUnregistered, AtWork, JobAt
<1>4. Publishes'
  BY Values DEF SInv, StoreTypes, Publishes, Staging, Known, JobAt, Job, MakesUnregistered,
      AtWork
<1>5. Restores' /\ Captures'
  BY Values DEF SInv, StoreTypes, Restores, Captures, Known, JobAt, MakesUnregistered,
      AtWork, Job
<1> QED BY <1>1, <1>2, <1>3, <1>4, <1>5 DEF SInv

LEMMA PrepareFilesKeeps == ASSUME SInv, NEW i \in Instances, PrepareFiles(i) PROVE SInv'
<1>1. i \in rows /\ ~AtWork(i) /\ dirs[i] \in Dir
  BY Values DEF PrepareFiles, SInv, StoreTypes, StartsAlone, RowsHaveDirs, MaybeDir
<1>2. \A d \in {None, Partial, Image, dirs[i].disk, dirs[i].tpm} : d \in File
  BY <1>1, Values DEF Dir
<1>3. \A x \in File : /\ [dirs[i] EXCEPT !.disk = x] \in Dir
                      /\ [dirs[i] EXCEPT !.disk = x].doc = dirs[i].doc
                      /\ [dirs[i] EXCEPT !.tpm = x] \in Dir
                      /\ [dirs[i] EXCEPT !.tpm = x].doc = dirs[i].doc
  BY <1>1 DEF Dir
<1>4. PICK d \in Dir : dirs' = [dirs EXCEPT ![i] = d] /\ d.doc = dirs[i].doc
  <2>1. CASE prep[i] = "disk"
    <3>1. PICK x \in File : dirs' = [dirs EXCEPT ![i]["disk"] = x]
      BY <2>1, <1>1, <1>2 DEF PrepareFiles, Prepared
    <3> QED BY <3>1, <1>3
  <2>2. CASE prep[i] = "tpm"
    <3>1. PICK x \in File : dirs' = [dirs EXCEPT ![i]["tpm"] = x]
      BY <2>2, <1>1, <1>2 DEF PrepareFiles, Prepared
    <3> QED BY <3>1, <1>3
  <2> QED BY <2>1, <2>2 DEF PrepareFiles
<1>5. /\ prep' \in [Instances -> {"no", "disk", "tpm", "launch"}]
      /\ \A j \in Instances : prep'[j] # "no" => prep[j] # "no"
  BY DEF PrepareFiles, Prepared, SInv, StoreTypes
<1> QED BY <1>1, <1>4, <1>5, FilesChange DEF PrepareFiles, shots

LEMMA GuestWriteKeeps == ASSUME SInv, NEW i \in Instances, GuestWrite(i) PROVE SInv'
<1>1. i \in rows /\ state[i] = "running" /\ dirs[i] \in Dir
  BY Values DEF GuestWrite, SInv, StoreTypes, RowsHaveDirs, MaybeDir
<1>2. PICK d \in Data, t \in Data : dirs' = [dirs EXCEPT ![i].disk = d, ![i].tpm = t]
  BY DEF GuestWrite
<1> DEFINE e == [dirs[i] EXCEPT !.disk = d, !.tpm = t]
<1>3. e \in Dir /\ e.doc = dirs[i].doc
  BY <1>1 DEF Dir, File
<1>4. dirs' = [dirs EXCEPT ![i] = e]
  BY <1>1, <1>2 DEF SInv, StoreTypes
<1>5. prep' \in [Instances -> {"no", "disk", "tpm", "launch"}] /\ prep' = prep
  BY DEF GuestWrite, SInv, StoreTypes
<1> HIDE DEF e
<1> QED BY <1>1, <1>3, <1>4, <1>5, FilesChange DEF GuestWrite, shots

LEMMA CrashKeeps == ASSUME SInv, Crash PROVE SInv'
<1>1. PICK i \in Instances : \E d \in Killed(i) : dirs' = [dirs EXCEPT ![i] = d]
  BY DEF Crash
<1> PICK d \in Killed(i) : dirs' = [dirs EXCEPT ![i] = d]
  BY <1>1
<1>2. d \in MaybeDir /\ (i \in rows => d # Absent /\ d.doc = dirs[i].doc)
  <2>1. CASE d = dirs[i]
    BY <2>1 DEF SInv, StoreTypes, RowsHaveDirs
  <2>2. CASE /\ AtWork(i) /\ (job.pc = "erase" \/ (job.pc = "check" /\ Replaceable(i)))
             /\ d \in Erasing(dirs[i])
    <3>1. i \notin rows
      BY <2>2 DEF SInv, RowsHaveDirs, ErasesListed, JobAt, AtWork, Replaceable
    <3>2. dirs[i] \in MaybeDir
      BY DEF SInv, StoreTypes
    <3> QED BY <2>2, <3>1, <3>2, ErasingType
  <2>3. CASE prep[i] \in {"disk", "tpm"} /\ d = [dirs[i] EXCEPT ![prep[i]] = Partial]
    <3>1. dirs[i] \in Dir
      BY <2>3, Values DEF SInv, StoreTypes, StartsAlone, RowsHaveDirs, MaybeDir
    <3>2. CASE prep[i] = "disk"
      <4>1. d \in Dir /\ d.doc = dirs[i].doc
        BY <2>3, <3>1, <3>2, Values DEF Dir
      <4> QED BY <4>1, Values DEF MaybeDir
    <3>3. CASE prep[i] = "tpm"
      <4>1. d \in Dir /\ d.doc = dirs[i].doc
        BY <2>3, <3>1, <3>3, Values DEF Dir
      <4> QED BY <4>1, Values DEF MaybeDir
    <3> QED BY <2>3, <3>2, <3>3
  <2> QED BY <2>1, <2>2, <2>3 DEF Killed
<1>3. restoring' \in [Instances -> Dir] /\ \A j \in Instances : Known(restoring'[j].disk)
  <2>1. CASE job # NoJob /\ job.pc = "restore"
    <3>1. restoring' = [restoring EXCEPT ![job.inst] = Restored]
      BY <2>1 DEF Crash
    <3>2. restoring \in [Instances -> Dir] /\ \A j \in Instances : Known(restoring[j].disk)
      BY DEF SInv, StoreTypes, Restores
    <3> QED BY <2>1, <3>1, <3>2, RestoredKnown
  <2>2. CASE ~(job # NoJob /\ job.pc = "restore")
    BY <2>2 DEF Crash, SInv, StoreTypes, Restores
  <2> QED BY <2>1, <2>2
<1>4. StoreTypes'
  BY <1>2, <1>3 DEF Crash, shots, SInv, StoreTypes, MaybeDir
<1>5. RowsHaveDirs' /\ ShotsHaveDirs'
  BY <1>2 DEF Crash, shots, SInv, StoreTypes, RowsHaveDirs, ShotsHaveDirs
<1>6. StartsAlone' /\ ErasesListed' /\ MakesUnregistered' /\ Publishes' /\ Captures'
  BY DEF Crash, StartsAlone, ErasesListed, MakesUnregistered, Publishes, Staging, Captures, JobAt
<1>7. Restores'
  BY <1>3 DEF Crash, shots, Restores, Known, JobAt
<1> QED BY <1>4, <1>5, <1>6, <1>7 DEF SInv

-----------------------------------------------------------------------------
(* The invariant holds, and with it Registered *)

LEMMA SInvInit == Init => SInv
<1> SUFFICES ASSUME Init PROVE SInv
  OBVIOUS
<1>1. [Empty EXCEPT !.sockets = TRUE] \in Dir
  BY Values DEF Dir
<1>2. StoreTypes
  BY <1>1, Values DEF Init, StoreTypes, MaybeDir
<1>3. RowsHaveDirs /\ ShotsHaveDirs /\ StartsAlone /\ ErasesListed /\ MakesUnregistered
  BY DEF Init, RowsHaveDirs, ShotsHaveDirs, StartsAlone, ErasesListed, MakesUnregistered, JobAt
<1>4. Publishes /\ Restores /\ Captures
  BY Values DEF Init, Publishes, Staging, Restores, Captures, JobAt, Known
<1> QED BY <1>2, <1>3, <1>4 DEF SInv

LEMMA SInvNext == SInv /\ [Next]_vars => SInv'
<1> SUFFICES ASSUME SInv, [Next]_vars PROVE SInv'
  OBVIOUS
<1>1. CASE Publish
  BY <1>1, PublishFinishKeeps, PublishCheckKeeps, PublishRenameKeeps, PublishCommitKeeps,
     PublishUnmarkKeeps DEF Publish
<1>2. CASE Snap
  BY <1>2, SnapCopyKeeps, SnapRenameKeeps, SnapInsertKeeps, SnapCompleteKeeps DEF Snap
<1>3. CASE Clone
  BY <1>3, CloneRestoreKeeps, ClonePlaceKeeps, CloneStripKeeps, CloneStageKeeps DEF Clone
<1>4. CASE Erase \/ Forget
  BY <1>4, EraseKeeps, ForgetKeeps
<1>5. CASE Crash \/ Boot \/ BootReconcile
  BY <1>5, CrashKeeps, BootKeeps, BootReconcileKeeps
<1>6. ASSUME NEW i \in Instances,
             \/ CreateBegin(i) \/ RemoveBegin(i) \/ BootDeletion(i)
             \/ StartBegin(i) \/ PrepareFiles(i) \/ Launch(i) \/ GuestWrite(i) \/ VmStops(i)
      PROVE  SInv'
  BY <1>6, CreateBeginKeeps, RemoveBeginKeeps, BootDeletionKeeps, StartBeginKeeps,
     PrepareFilesKeeps, LaunchKeeps, GuestWriteKeeps, VmStopsKeeps
<1>7. ASSUME NEW i \in Instances, NEW s \in Snapshots, SnapBegin(i, s) \/ CloneBegin(i, s)
      PROVE  SInv'
  BY <1>7, SnapBeginKeeps, CloneBeginKeeps
<1>8. CASE UNCHANGED vars
  <2>1. UNCHANGED <<phase, rows, state, pending, dirs, staged, restoring, prep, snapRows,
                    snapDirs, ops, job>>
    BY <1>8 DEF vars, files, shots
  <2>2. StoreTypes' /\ RowsHaveDirs' /\ ShotsHaveDirs'
    BY <2>1 DEF SInv, StoreTypes, RowsHaveDirs, ShotsHaveDirs
  <2>3. StartsAlone' /\ ErasesListed' /\ MakesUnregistered'
    BY <2>1 DEF SInv, StartsAlone, AtWork, ErasesListed, MakesUnregistered, JobAt
  <2>4. Publishes' /\ Restores' /\ Captures'
    BY <2>1 DEF SInv, Publishes, Staging, Restores, Captures, JobAt, Known
  <2> QED BY <2>2, <2>3, <2>4 DEF SInv
<1> QED BY <1>1, <1>2, <1>3, <1>4, <1>5, <1>6, <1>7, <1>8 DEF Next

LEMMA Invariance == Spec => []SInv
<1>1. SInv /\ [Next]_vars => SInv'
  BY SInvNext
<1> QED BY <1>1, SInvInit, PTL DEF Spec

(* A row never points to a missing, foreign or changed directory, wherever the daemon is
   killed and whatever fails (storage/instances.rs, storage/snapshots.rs). *)
THEOREM RowsFollowDirectories == Spec => []Registered
<1>1. SInv => Registered
  BY DEF SInv, RowsHaveDirs, ShotsHaveDirs, Registered
<1> QED BY <1>1, Invariance, PTL

-----------------------------------------------------------------------------
(* The steps of the workspace, seen in the abstract store *)

Busy == {i \in Instances : prep[i] # "no" \/ (i \in rows /\ state[i] = "running")}

LEMMA RowDisk ==
    ASSUME SInv, NEW i \in rows
    PROVE  i \in Instances /\ dirs[i] \in Dir /\ dirs[i].disk \in File /\ dirs[i].disk # Absent
<1>1. i \in Instances /\ dirs[i] \in Dir
  BY DEF SInv, StoreTypes, RowsHaveDirs, MaybeDir
<1> QED BY <1>1, Values DEF Dir

LEMMA BusyRows == ASSUME SInv PROVE Busy \subseteq rows
BY DEF SInv, StartsAlone, Busy

(* A step that changes nothing the abstract store shows *)
LEMMA SameView ==
    ASSUME rows' = rows, \A i \in rows : dirs'[i].disk = dirs[i].disk, Busy' = Busy,
           snapRows' = snapRows,
           \A s \in Snapshots : snapRows[s] # Absent => snapDirs'[s].disk = snapDirs[s].disk
    PROVE  UNCHANGED Promise!avars
BY DEF Promise!avars, Busy

(* A step of runs *)
LEMMA WorkView ==
    ASSUME SInv, rows' = rows, NEW i \in Busy, Busy' \subseteq Busy, dirs'[i].disk \in File,
           \A j \in rows : j # i => dirs'[j].disk = dirs[j].disk,
           UNCHANGED <<snapRows, snapDirs>>
    PROVE  Promise!Work
<1>1. i \in rows
  BY BusyRows
<1>2. [j \in Instances |-> IF j \in rows' THEN dirs'[j].disk ELSE Absent]
       = [[j \in Instances |-> IF j \in rows THEN dirs[j].disk ELSE Absent]
             EXCEPT ![i] = dirs'[i].disk]
  BY <1>1
<1> QED BY <1>2 DEF Promise!Work, Busy

LEMMA ShotView ==
    ASSUME SInv, NEW s \in Snapshots, snapRows[s] # Absent
    PROVE  [inst |-> snapRows[s].inst, state |-> snapDirs[s].disk] # Absent
<1>1. snapRows[s].inst \in Instances /\ snapDirs[s] \in Dir
  BY DEF SInv, StoreTypes, ShotsHaveDirs
<1>2. [inst |-> snapRows[s].inst, state |-> snapDirs[s].disk] \in [inst : Instances, state : File]
  BY <1>1 DEF Dir
<1> QED BY <1>2, Values

LEMMA JobSteps ==
    ASSUME SInv,
           PublishFinish \/ PublishCheck \/ PublishRename \/ PublishUnmark \/ Erase \/ Forget
    PROVE  UNCHANGED Promise!avars
<1>1. UNCHANGED <<rows, state, prep, snapRows, snapDirs>> /\ job \in Job
  BY DEF PublishFinish, PublishCheck, PublishRename, PublishUnmark, Erase, Forget, shots, SInv,
         StoreTypes
<1>2. Busy' = Busy
  BY <1>1 DEF Busy
<1>3. \A i \in rows : dirs'[i].disk = dirs[i].disk
  <2> SUFFICES ASSUME NEW i \in rows PROVE dirs'[i].disk = dirs[i].disk
    OBVIOUS
  <2>1. i \in Instances /\ dirs[i] \in Dir /\ dirs[i] # Absent /\ i \notin pending
    BY RowDisk, Values DEF SInv, RowsHaveDirs
  <2>2. CASE PublishFinish
    BY <2>2 DEF PublishFinish, files
  <2>3. CASE PublishCheck
    <3>1. CASE Abort(dirs[job.inst], staged)
      BY <2>1, <3>1 DEF Abort, SInv, StoreTypes
    <3>2. CASE i # job.inst
      BY <2>1, <2>3, <3>2 DEF PublishCheck, Abort, SInv, StoreTypes
    <3> QED BY <2>1, <2>3, <3>1, <3>2 DEF PublishCheck, Replaceable
  <2>4. CASE PublishRename
    <3>1. i # job.inst
      BY <2>4 DEF PublishRename, SInv, MakesUnregistered, JobAt
    <3> QED BY <2>1, <2>4, <3>1 DEF PublishRename, Abort, SInv, StoreTypes
  <2>5. CASE PublishUnmark
    <3>1. CASE dirs' = [dirs EXCEPT ![job.inst].marker = FALSE]
      <4> DEFINE d == [dirs[job.inst] EXCEPT !.marker = FALSE]
      <4>1. i = job.inst => d.disk = dirs[i].disk
        BY <2>1 DEF Dir
      <4>2. dirs' = [dirs EXCEPT ![job.inst] = d]
        BY <3>1
      <4> HIDE DEF d
      <4> QED BY <2>1, <4>1, <4>2 DEF SInv, StoreTypes
    <3> QED BY <2>5, <3>1 DEF PublishUnmark
  <2>6. CASE Erase
    <3>1. i # job.inst
      BY <2>1, <2>6 DEF Erase, SInv, ErasesListed, JobAt
    <3> QED BY <2>1, <2>6, <3>1 DEF Erase, Abort, SInv, StoreTypes
  <2>7. CASE Forget
    BY <2>1, <2>7 DEF Forget, Abort, SInv, StoreTypes
  <2> QED BY <2>2, <2>3, <2>4, <2>5, <2>6, <2>7
<1> QED BY <1>1, <1>2, <1>3, SameView

(* The row of a new instance is the step at which it appears. *)
LEMMA CommitStep == ASSUME SInv, PublishCommit PROVE [Promise!ANext]_(Promise!avars)
<1>1. /\ UNCHANGED <<prep, snapRows, snapDirs>> /\ job \in Job /\ job.inst \in Instances
      /\ job.inst \notin rows /\ Known(dirs[job.inst].disk)
  BY DEF PublishCommit, shots, SInv, StoreTypes, MakesUnregistered, Publishes, JobAt, Job
<1>2. CASE /\ rows' = rows \cup {job.inst} /\ state' = [state EXCEPT ![job.inst] = "stopped"]
           /\ UNCHANGED dirs
  <2> PICK n \in Instances : n = job.inst
    BY <1>1
  <2> DEFINE m == [j \in Instances |-> IF j \in rows THEN dirs[j].disk ELSE Absent]
            sh == [s \in Snapshots |-> IF snapRows[s] = Absent THEN Absent
                              ELSE [inst |-> snapRows[s].inst, state |-> snapDirs[s].disk]]
  <2>1. /\ [j \in Instances |-> IF j \in rows' THEN dirs'[j].disk ELSE Absent]
             = [m EXCEPT ![n] = dirs[n].disk]
        /\ m[n] = Absent
    BY <1>1, <1>2
  <2>2. dirs[n].disk \in {None} \cup {sh[s].state : s \in {t \in Snapshots : sh[t] # Absent}}
    <3>1. CASE dirs[n].disk = None
      BY <3>1
    <3>2. ASSUME NEW s \in Snapshots, snapRows[s] # Absent, dirs[n].disk = snapDirs[s].disk
          PROVE  \E t \in Snapshots : sh[t] # Absent /\ dirs[n].disk = sh[t].state
      <4>1. [inst |-> snapRows[s].inst, state |-> snapDirs[s].disk] # Absent
        BY <3>2, ShotView
      <4> QED BY <3>2, <4>1
    <3> QED BY <1>1, <3>1, <3>2 DEF Known
  <2>3. Busy' = Busy
    BY <1>1, <1>2 DEF Busy, SInv, StoreTypes
  <2>4. Promise!Appear(n)
    BY <1>1, <1>2, <2>1, <2>2, <2>3 DEF Promise!Appear, Busy
  <2> QED BY <2>4 DEF Promise!ANext
<1>3. ASSUME NEW d \in {Absent} \cup Erasing(dirs[job.inst]), Abort(d, staged), UNCHANGED <<rows, state>>
      PROVE  UNCHANGED Promise!avars
  <2>1. Busy' = Busy
    BY <1>1, <1>3 DEF Busy
  <2>2. \A i \in rows : dirs'[i].disk = dirs[i].disk
    BY <1>1, <1>3 DEF Abort, SInv, StoreTypes
  <2> QED BY <1>1, <1>3, <2>1, <2>2, SameView
<1> QED BY <1>2, <1>3 DEF PublishCommit

(* Nothing is deleted while it starts or runs, and nothing of which a snapshot is kept. *)
LEMMA RemoveStep ==
    ASSUME SInv, NEW i \in Instances, RemoveBegin(i)
    PROVE  [Promise!ANext]_(Promise!avars)
<1>1. UNCHANGED <<dirs, prep, snapRows, snapDirs>>
  BY DEF RemoveBegin, files
<1>2. CASE UNCHANGED <<rows, state>>
  <2>1. UNCHANGED Promise!avars
    BY <1>1, <1>2, SameView DEF Busy
  <2> QED BY <2>1
<1>3. CASE /\ i \in rows /\ state[i] # "running" /\ ~Captured(i)
           /\ rows' = rows \ {i} /\ state' = [state EXCEPT ![i] = "stopped"]
  <2> DEFINE m == [j \in Instances |-> IF j \in rows THEN dirs[j].disk ELSE Absent]
  <2>1. /\ [j \in Instances |-> IF j \in rows' THEN dirs'[j].disk ELSE Absent]
             = [m EXCEPT ![i] = Absent]
        /\ m[i] # Absent
    BY <1>1, <1>3, RowDisk
  <2>2. i \notin Busy /\ Busy' = Busy
    <3>1. state \in [Instances -> {"stopped", "running", "error"}]
      BY DEF SInv, StoreTypes
    <3> QED BY <1>1, <1>3, <3>1 DEF Busy, RemoveBegin, Free
  <2>3. \A s \in Snapshots : snapRows[s] = Absent \/ snapRows[s].inst # i
    BY <1>3 DEF Captured
  <2>4. Promise!Vanish(i)
    BY <1>1, <2>1, <2>2, <2>3 DEF Promise!Vanish, Busy
  <2> QED BY <2>4 DEF Promise!ANext
<1> QED BY <1>2, <1>3 DEF RemoveBegin

LEMMA StartStep ==
    ASSUME SInv, NEW i \in Instances, StartBegin(i)
    PROVE  [Promise!ANext]_(Promise!avars)
<1>1. UNCHANGED <<rows, state, dirs, snapRows, snapDirs>> /\ i \in rows
  BY DEF StartBegin, files, shots
<1>2. dirs[i].disk # Absent
  BY <1>1, RowDisk
<1>3. Busy' = Busy \cup {i}
  <2>1. prep \in [Instances -> {"no", "disk", "tpm", "launch"}] /\ prep' = [prep EXCEPT ![i] = "disk"]
    BY DEF SInv, StoreTypes, StartBegin
  <2> QED BY <1>1, <2>1 DEF Busy
<1>4. Promise!Enter(i)
  BY <1>1, <1>2, <1>3 DEF Promise!Enter, Busy
<1> QED BY <1>4 DEF Promise!ANext

(* A run changes the files of no other instance. *)
LEMMA RunSteps ==
    ASSUME SInv, SInv', NEW i \in Instances,
           PrepareFiles(i) \/ Launch(i) \/ GuestWrite(i) \/ VmStops(i)
    PROVE  [Promise!ANext]_(Promise!avars)
<1>1. /\ UNCHANGED <<rows, snapRows, snapDirs>>
      /\ prep \in [Instances -> {"no", "disk", "tpm", "launch"}]
      /\ state \in [Instances -> {"stopped", "running", "error"}]
      /\ dirs \in [Instances -> MaybeDir]
  BY DEF PrepareFiles, Launch, GuestWrite, VmStops, shots, SInv, StoreTypes
<1>2. i \in Busy /\ i \in rows
  BY BusyRows DEF PrepareFiles, Launch, GuestWrite, VmStops, Busy
<1>3. Busy' \subseteq Busy
  BY <1>1, <1>2 DEF PrepareFiles, Prepared, Launch, GuestWrite, VmStops, Busy
<1>4. \A j \in rows : j # i => dirs'[j].disk = dirs[j].disk
  <2> SUFFICES ASSUME NEW j \in rows, j # i PROVE dirs'[j] = dirs[j]
    OBVIOUS
  <2>1. j \in Instances
    BY RowDisk
  <2> QED BY <1>1, <2>1 DEF PrepareFiles, Prepared, Launch, GuestWrite, VmStops, files
<1>5. dirs'[i].disk \in File
  <2>1. dirs'[i] \in MaybeDir /\ dirs'[i] # Absent
    BY <1>1, <1>2 DEF SInv, StoreTypes, RowsHaveDirs
  <2> QED BY <2>1 DEF MaybeDir, Dir
<1>6. Promise!Work
  BY <1>1, <1>2, <1>3, <1>4, <1>5, WorkView
<1> QED BY <1>6 DEF Promise!ANext

(* A kill ends all starts; an instance that ran still counts as running. *)
LEMMA CrashStep == ASSUME SInv, SInv', Crash PROVE [Promise!ANext]_(Promise!avars)
<1>1. PICK i \in Instances : \E d \in Killed(i) : dirs' = [dirs EXCEPT ![i] = d]
  BY DEF Crash
<1> PICK d \in Killed(i) : dirs' = [dirs EXCEPT ![i] = d]
  BY <1>1
<1>2. UNCHANGED <<rows, state, snapRows, snapDirs>> /\ \A j \in Instances : prep'[j] = "no"
  BY DEF Crash, shots
<1>3. Busy' \subseteq Busy
  BY <1>2 DEF Busy
<1>4. \A j \in rows : j # i => dirs'[j].disk = dirs[j].disk
  BY RowDisk DEF SInv, StoreTypes
<1>5. \A j \in rows : dirs'[j].disk \in File
  <2> SUFFICES ASSUME NEW j \in rows PROVE dirs'[j].disk \in File
    OBVIOUS
  <2>1. dirs'[j] \in MaybeDir /\ dirs'[j] # Absent
    BY <1>2 DEF SInv, StoreTypes, RowsHaveDirs
  <2> QED BY <2>1 DEF MaybeDir, Dir
<1>6. CASE i \in Busy
  <2>1. Promise!Work
    BY <1>2, <1>3, <1>4, <1>5, <1>6, BusyRows, WorkView
  <2> QED BY <2>1 DEF Promise!ANext
<1>7. CASE i \notin Busy
  <2>1. prep[i] = "no"
    BY <1>7 DEF Busy
  <2>2. i \in rows => dirs'[i].disk = dirs[i].disk
    <3> SUFFICES ASSUME i \in rows PROVE dirs'[i] = dirs[i]
      OBVIOUS
    <3>1. ~(AtWork(i) /\ (job.pc = "erase" \/ (job.pc = "check" /\ Replaceable(i))))
      BY DEF SInv, RowsHaveDirs, ErasesListed, JobAt, AtWork, Replaceable
    <3>2. Killed(i) = {dirs[i]}
      BY <2>1, <3>1 DEF Killed
    <3> QED BY <3>2 DEF SInv, StoreTypes
  <2>3. \A j \in rows : dirs'[j].disk = dirs[j].disk
    BY <1>4, <2>2
  <2>4. CASE Busy = {}
    <3>1. Busy' = Busy
      BY <1>3, <2>4
    <3>2. UNCHANGED Promise!avars
      BY <1>2, <2>3, <3>1, SameView
    <3> QED BY <3>2
  <2>5. ASSUME NEW k \in Busy PROVE Promise!Work
    BY <1>2, <1>3, <1>5, <2>3, BusyRows, WorkView
  <2> QED BY <2>4, <2>5 DEF Promise!ANext
<1> QED BY <1>6, <1>7

(* A snapshot captures what the instance holds while nothing of it starts or runs. *)
LEMMA CaptureStep == ASSUME SInv, SnapInsert PROVE [Promise!ANext]_(Promise!avars)
<1>1. /\ UNCHANGED <<rows, state, dirs, prep, snapDirs>> /\ job \in Job /\ job.inst \in rows
      /\ job.snap \in Snapshots /\ state[job.inst] = "stopped" /\ prep[job.inst] = "no"
      /\ snapDirs[job.snap].disk = dirs[job.inst].disk /\ snapDirs[job.snap] # Absent
  BY DEF SnapInsert, SInv, StoreTypes, StartsAlone, AtWork, Captures, JobAt, Job
<1>2. Busy' = Busy /\ job.inst \notin Busy
  BY <1>1 DEF Busy
<1>3. CASE /\ snapRows[job.snap] = Absent
           /\ snapRows' = [snapRows EXCEPT ![job.snap] =
                              [inst |-> job.inst, files |-> snapDirs[job.snap]]]
  <2> PICK i \in Instances, s \in Snapshots : i = job.inst /\ s = job.snap
    BY <1>1, RowDisk
  <2> DEFINE m == [j \in Instances |-> IF j \in rows THEN dirs[j].disk ELSE Absent]
             sh == [t \in Snapshots |-> IF snapRows[t] = Absent THEN Absent
                              ELSE [inst |-> snapRows[t].inst, state |-> snapDirs[t].disk]]
  <2>1. m[i] = dirs[i].disk /\ m[i] # Absent /\ sh[s] = Absent
    BY <1>1, <1>3, RowDisk
  <2>2. snapRows'[s] # Absent
    <3>1. snapDirs[s] \in Dir
      BY <1>1 DEF SInv, StoreTypes, MaybeDir
    <3>2. [inst |-> i, files |-> snapDirs[s]] \in [inst : Instances, files : Dir]
      BY <3>1
    <3> QED BY <1>3, <3>2, Values DEF SInv, StoreTypes
  <2>3. [t \in Snapshots |-> IF snapRows'[t] = Absent THEN Absent
                   ELSE [inst |-> snapRows'[t].inst, state |-> snapDirs'[t].disk]]
         = [sh EXCEPT ![s] = [inst |-> i, state |-> m[i]]]
    BY <1>1, <1>3, <2>1, <2>2 DEF SInv, StoreTypes
  <2>4. Promise!Capture(i, s)
    BY <1>1, <1>2, <2>1, <2>3 DEF Promise!Capture, Busy
  <2> QED BY <2>4 DEF Promise!ANext
<1>4. CASE UNCHANGED snapRows
  <2>1. UNCHANGED Promise!avars
    BY <1>1, <1>2, <1>4, SameView
  <2> QED BY <2>1
<1> QED BY <1>3, <1>4 DEF SnapInsert

(* Other steps of snapshots, of clones and of boot show nothing: they touch no directory
   of a registered instance and none of a registered snapshot. *)
LEMMA QuietSteps ==
    ASSUME SInv,
           \/ SnapCopy \/ SnapRename \/ SnapComplete \/ Clone \/ Boot \/ BootReconcile
           \/ \E i \in Instances : \/ CreateBegin(i) \/ BootDeletion(i)
                                   \/ \E s \in Snapshots : SnapBegin(i, s) \/ CloneBegin(i, s)
    PROVE  UNCHANGED Promise!avars
<1>1. UNCHANGED <<rows, state, prep, snapRows>>
  BY DEF SnapCopy, SnapRename, SnapComplete, Clone, CloneRestore, ClonePlace, CloneStrip,
         CloneStage, Boot, BootReconcile, CreateBegin, BootDeletion, SnapBegin, CloneBegin, shots
<1>2. Busy' = Busy
  BY <1>1 DEF Busy
<1>3. \A i \in rows : dirs'[i].disk = dirs[i].disk
  <2>1. CASE UNCHANGED dirs
    BY <2>1
  <2>2. CASE ClonePlace \/ CloneStrip \/ CloneStage
    <3>1. job.inst \notin rows /\ dirs \in [Instances -> MaybeDir]
      BY <2>2 DEF ClonePlace, CloneStrip, CloneStage, SInv, StoreTypes, MakesUnregistered, JobAt
    <3>2. \A i \in rows : i \in Instances
      BY RowDisk
    <3>3. PICK d : dirs' = [dirs EXCEPT ![job.inst] = d]
      BY <2>2, <3>1 DEF ClonePlace, CloneStrip, CloneStage
    <3> QED BY <3>1, <3>2, <3>3
  <2> QED BY <2>1, <2>2 DEF SnapCopy, SnapRename, SnapComplete, Clone, CloneRestore, Boot,
             BootReconcile, CreateBegin, BootDeletion, SnapBegin, CloneBegin, files
<1>4. \A s \in Snapshots : snapRows[s] # Absent => snapDirs'[s].disk = snapDirs[s].disk
  <2>1. CASE UNCHANGED snapDirs
    BY <2>1
  <2>2. CASE SnapRename
    <3>1. snapDirs[job.snap] = Absent /\ snapDirs \in [Snapshots -> MaybeDir]
      BY <2>2 DEF SnapRename, SInv, StoreTypes, Captures, JobAt
    <3>2. \A s \in Snapshots : snapRows[s] # Absent => snapDirs[s] \in Dir
      BY DEF SInv, StoreTypes, ShotsHaveDirs
    <3> QED BY <2>2, <3>1, <3>2, Values DEF SnapRename
  <2> QED BY <2>1, <2>2 DEF SnapCopy, SnapComplete, Clone, CloneRestore, ClonePlace, CloneStrip,
             CloneStage, Boot, BootReconcile, CreateBegin, BootDeletion, SnapBegin, CloneBegin, shots
<1> QED BY <1>1, <1>2, <1>3, <1>4, SameView

LEMMA AbstractStep == SInv /\ SInv' /\ [Next]_vars => [Promise!ANext]_(Promise!avars)
<1> SUFFICES ASSUME SInv, SInv', [Next]_vars PROVE [Promise!ANext]_(Promise!avars)
  OBVIOUS
<1>1. CASE Publish
  BY <1>1, JobSteps, CommitStep DEF Publish
<1>2. CASE Snap \/ Clone
  BY <1>2, QuietSteps, CaptureStep DEF Snap
<1>3. CASE Erase \/ Forget
  BY <1>3, JobSteps
<1>4. CASE Crash \/ Boot \/ BootReconcile
  BY <1>4, CrashStep, QuietSteps
<1>5. ASSUME NEW i \in Instances,
             \/ CreateBegin(i) \/ RemoveBegin(i) \/ BootDeletion(i)
             \/ StartBegin(i) \/ PrepareFiles(i) \/ Launch(i) \/ GuestWrite(i) \/ VmStops(i)
             \/ \E s \in Snapshots : SnapBegin(i, s) \/ CloneBegin(i, s)
      PROVE  [Promise!ANext]_(Promise!avars)
  BY <1>5, QuietSteps, RemoveStep, StartStep, RunSteps
<1>6. CASE UNCHANGED vars
  BY <1>6 DEF vars, files, shots, Promise!avars
<1> QED BY <1>1, <1>2, <1>3, <1>4, <1>5, <1>6 DEF Next

(* Rows and directories together implement the abstract store: an instance appears whole
   and new or as a snapshot had it, only its own run changes it, nothing is deleted or
   captured while it starts or runs, and a snapshot never changes. *)
THEOREM Implements == Spec => Atomic
<1>1. Init => Promise!AInit
  BY DEF Init, Promise!AInit
<1>2. SInv /\ SInv' /\ [Next]_vars => [Promise!ANext]_(Promise!avars)
  BY AbstractStep
<1> QED BY <1>1, <1>2, Invariance, PTL DEF Spec, Atomic, Promise!ASpec

-----------------------------------------------------------------------------
(* An id can be used again, if no clone is interrupted and no removal stops half-way *)

CanBeMade(i) == i \in pending \/ dirs[i] = Absent \/ Replaceable(i)

RInv ==
    /\ \A i \in Instances \ rows : CanBeMade(i)
    /\ JobAt({"forget"}) => dirs[job.inst] = Absent
    /\ JobAt({"commit"}) => dirs[job.inst].marker
    /\ job # NoJob => job.kind # "clone"
    /\ ~JobAt({"restore", "place", "strip", "stage"})

(* An aborted job leaves the directory it found, none or a marked one. *)
LEMMA AbortReusable ==
    ASSUME SInv, RInv, job # NoJob, NEW d, NEW s, Abort(d, s), d \in {Absent, dirs[job.inst]},
           job.inst \in rows => d = dirs[job.inst], UNCHANGED <<rows, pending>>
    PROVE  RInv'
<1>1. job.kind # "clone" /\ dirs' = [dirs EXCEPT ![job.inst] = d] /\ job' = NoJob
  BY DEF Abort, RInv
<1>2. \A i \in Instances \ rows : CanBeMade(i)'
  BY <1>1 DEF SInv, StoreTypes, RInv, CanBeMade, Replaceable
<1> QED BY <1>1, <1>2 DEF RInv, JobAt

LEMMA ReusableInit == Init => RInv
<1> DEFINE d == [Empty EXCEPT !.sockets = TRUE]
<1>1. [d EXCEPT !.sockets = FALSE] = Empty
  <2> DEFINE e == [d EXCEPT !.sockets = FALSE]
  <2>1. d \in Dir /\ d.disk = None /\ d.tpm = None /\ d.doc = None /\ d.marker = FALSE
    BY Values DEF Dir, Empty
  <2>2. /\ e \in Dir /\ e.disk = None /\ e.tpm = None /\ e.doc = None /\ e.marker = FALSE
        /\ e.sockets = FALSE
    <3> HIDE DEF d
    <3> QED BY <2>1 DEF Dir
  <2>3. e = [disk |-> e.disk, tpm |-> e.tpm, doc |-> e.doc, marker |-> e.marker,
             sockets |-> e.sockets]
    <3> HIDE DEF e
    <3> QED BY <2>2 DEF Dir
  <2> HIDE DEF e
  <2> QED BY <2>2, <2>3 DEF Empty
<1> HIDE DEF d
<1>2. ASSUME Init, NEW i \in Instances PROVE CanBeMade(i)
  <2>1. dirs[i] = Absent \/ dirs[i] = d
    BY <1>2 DEF Init, d
  <2> QED BY <1>1, <1>2, <2>1 DEF Init, CanBeMade, Replaceable
<1> QED BY <1>2 DEF Init, RInv, JobAt

LEMMA ReusableNext ==
    ASSUME ~Clones, ~Torn, SInv, SInv', RInv, [Next]_vars
    PROVE  RInv'
<1>1. \A d : Erasing(d) = {d}
  BY DEF Erasing
<1> USE DEF CanBeMade, Replaceable, JobAt
<1>2. CASE PublishFinish
  BY <1>2 DEF PublishFinish, Goto, RInv, SInv, StoreTypes, Job, files
<1>3. CASE PublishCheck
  <2>1. CASE Abort(dirs[job.inst], staged)
    BY <1>3, <2>1, AbortReusable DEF PublishCheck
  <2>2. CASE dirs' = [dirs EXCEPT ![job.inst] = Absent] /\ Goto("rename")
    <3>1. job' # NoJob /\ job'.pc = "rename" /\ job'.kind = job.kind
      BY <1>3, <2>2, JobMoves DEF PublishCheck, SInv
    <3> QED BY <1>3, <2>2, <3>1 DEF PublishCheck, RInv, SInv, StoreTypes
  <2> QED BY <1>1, <1>3, <2>1, <2>2 DEF PublishCheck
<1>4. CASE PublishRename
  <2>1. CASE dirs' = [dirs EXCEPT ![job.inst] = Marked] /\ Goto("commit")
    <3>1. /\ job' # NoJob /\ job'.pc = "commit" /\ job'.kind = job.kind /\ job'.inst = job.inst
          /\ job \in Job
      BY <1>4, <2>1, JobMoves DEF PublishRename, SInv
    <3>2. Marked.marker /\ Marked # Absent
      <4>1. staged \in Dir /\ job.inst \in Instances
        BY <1>4, <3>1 DEF PublishRename, SInv, StoreTypes, Publishes, Staging, MaybeDir, Job
      <4>2. Marked \in Dir /\ Marked.marker
        BY <4>1 DEF Marked, Dir
      <4> QED BY <4>2, Values
    <3>3. job.inst \notin rows /\ job.inst \in Instances
      BY <1>4, <3>1 DEF PublishRename, SInv, MakesUnregistered, Job
    <3> QED BY <1>4, <2>1, <3>1, <3>2, <3>3 DEF PublishRename, RInv, SInv, StoreTypes
  <2>2. ASSUME NEW s \in {staged, Marked}, Abort(dirs[job.inst], s) PROVE RInv'
    BY <1>4, <2>2, AbortReusable DEF PublishRename
  <2> QED BY <1>4, <2>1, <2>2 DEF PublishRename
<1>5. CASE PublishCommit
  <2>1. CASE rows' = rows \cup {job.inst} /\ Goto("unmark") /\ UNCHANGED dirs
    <3>1. job' # NoJob /\ job'.pc = "unmark" /\ job'.kind = job.kind
      BY <1>5, <2>1, JobMoves DEF PublishCommit, SInv
    <3> QED BY <1>5, <2>1, <3>1 DEF PublishCommit, RInv
  <2>2. ASSUME NEW d \in {Absent} \cup Erasing(dirs[job.inst]), Abort(d, staged), UNCHANGED rows
        PROVE  RInv'
    <3>1. job.inst \notin rows
      BY <1>5 DEF PublishCommit, SInv, MakesUnregistered
    <3> QED BY <1>1, <1>5, <2>2, <3>1, AbortReusable DEF PublishCommit
  <2> QED BY <1>5, <2>1, <2>2 DEF PublishCommit
<1>6. CASE PublishUnmark
  <2>1. job.inst \in rows /\ job \in Job
    BY <1>6 DEF PublishUnmark, SInv, StoreTypes, Publishes
  <2> QED BY <1>6, <2>1 DEF PublishUnmark, RInv, SInv, StoreTypes
<1>7. CASE Erase
  <2>1. CASE dirs' = [dirs EXCEPT ![job.inst] = Absent] /\ Goto("forget")
    <3>1. /\ job' # NoJob /\ job'.pc = "forget" /\ job'.kind = job.kind /\ job'.inst = job.inst
          /\ job \in Job
      BY <1>7, <2>1, JobMoves DEF Erase, SInv
    <3> QED BY <1>7, <2>1, <3>1 DEF Erase, RInv, SInv, StoreTypes, Job
  <2>2. CASE Abort(dirs[job.inst], staged)
    BY <1>7, <2>2, AbortReusable DEF Erase
  <2> QED BY <1>1, <1>7, <2>1, <2>2 DEF Erase
<1>8. CASE Forget
  <2>1. CASE Abort(dirs[job.inst], staged) /\ UNCHANGED pending
    BY <1>8, <2>1, AbortReusable DEF Forget
  <2>2. CASE pending' = pending \ {job.inst} /\ UNCHANGED dirs
             /\ IF job.kind \in {"create", "clone"} THEN Goto("check") ELSE job' = NoJob
    <3>1. \/ job' = NoJob
          \/ job' # NoJob /\ job'.pc = "check" /\ job'.kind = job.kind
      BY <1>8, <2>2, JobMoves DEF Forget, SInv
    <3> QED BY <1>8, <2>2, <3>1 DEF Forget, RInv
  <2> QED BY <1>8, <2>1, <2>2 DEF Forget
<1>9. CASE Snap
  <2>1. UNCHANGED <<rows, pending, dirs>>
    BY <1>9 DEF Snap, SnapCopy, SnapRename, SnapInsert, SnapComplete, files
  <2>2. \/ job' = NoJob
        \/ /\ job' # NoJob /\ job'.kind = job.kind
           /\ job'.pc \in {"rename snapshot", "insert", "complete"}
    BY <1>9, JobMoves DEF Snap, SnapCopy, SnapRename, SnapInsert, SnapComplete, SnapFail, SInv
  <2> QED BY <1>9, <2>1, <2>2 DEF RInv, Snap, SnapCopy, SnapRename, SnapInsert, SnapComplete
<1>10. CASE Clone
  BY <1>10 DEF Clone, CloneRestore, ClonePlace, CloneStrip, CloneStage, RInv
<1>11. CASE Crash
  <2>1. PICK i \in Instances : \E d \in Killed(i) : dirs' = [dirs EXCEPT ![i] = d]
    BY <1>11 DEF Crash
  <2>2. i \notin rows => Killed(i) = {dirs[i]}
    BY <1>1 DEF Killed, SInv, StartsAlone
  <2>3. \A j \in Instances \ rows : dirs'[j] = dirs[j]
    BY <2>1, <2>2 DEF SInv, StoreTypes
  <2> QED BY <1>11, <2>3 DEF Crash, RInv
<1>12. CASE Boot \/ BootReconcile
  BY <1>12 DEF Boot, BootReconcile, files, RInv
<1>13. ASSUME NEW i \in Instances, CreateBegin(i) PROVE RInv'
  <2>1. job'.kind = "create" /\ job'.pc = "finish"
    BY <1>13 DEF CreateBegin
  <2> QED BY <1>13, <2>1 DEF CreateBegin, RInv
<1>14. ASSUME NEW i \in Instances, RemoveBegin(i) PROVE RInv'
  <2>1. job'.kind = "remove" /\ job'.pc = "erase"
    BY <1>14 DEF RemoveBegin
  <2> QED BY <1>14, <2>1 DEF RemoveBegin, RInv, files
<1>15. ASSUME NEW i \in Instances, BootDeletion(i) PROVE RInv'
  <2>1. job'.kind = "boot" /\ job'.pc = "erase"
    BY <1>15 DEF BootDeletion
  <2> QED BY <1>15, <2>1 DEF BootDeletion, RInv, files
<1>16. ASSUME NEW i \in Instances, NEW s \in Snapshots, SnapBegin(i, s) PROVE RInv'
  <2>1. job'.kind = "snapshot" /\ job'.pc = "copy"
    BY <1>16 DEF SnapBegin
  <2> QED BY <1>16, <2>1 DEF SnapBegin, RInv, files
<1>17. ASSUME NEW i \in Instances, NEW s \in Snapshots, CloneBegin(i, s) PROVE RInv'
  BY <1>17 DEF CloneBegin
<1>18. ASSUME NEW i \in Instances, StartBegin(i) \/ Launch(i) \/ VmStops(i) PROVE RInv'
  BY <1>18 DEF StartBegin, Launch, VmStops, RInv, files
<1>19. ASSUME NEW i \in Instances, PrepareFiles(i) \/ GuestWrite(i) PROVE RInv'
  <2>1. i \in rows /\ UNCHANGED <<rows, pending, job>>
    BY <1>19 DEF PrepareFiles, GuestWrite, SInv, StartsAlone
  <2>2. PICK d : dirs' = [dirs EXCEPT ![i] = d]
    BY <1>19 DEF PrepareFiles, Prepared, GuestWrite
  <2>3. \A j \in Instances \ rows : dirs'[j] = dirs[j]
    BY <2>1, <2>2 DEF SInv, StoreTypes
  <2>4. (JobAt({"commit"}) => job.inst \in Instances \ rows)
    BY DEF SInv, StoreTypes, MakesUnregistered, Job
  <2>5. JobAt({"forget"}) => job.inst \in Instances \ rows
    BY DEF SInv, StoreTypes, ErasesListed, RowsHaveDirs, Job
  <2> QED BY <2>1, <2>3, <2>4, <2>5 DEF RInv
<1>20. CASE UNCHANGED vars
  BY <1>20 DEF vars, files, RInv
<1> QED BY <1>2, <1>3, <1>4, <1>5, <1>6, <1>7, <1>8, <1>9, <1>10, <1>11, <1>12, <1>13, <1>14,
        <1>15, <1>16, <1>17, <1>18, <1>19, <1>20 DEF Next, Publish

(* Whatever fails and wherever the daemon is killed, an id without a row can be created:
   its directory is gone, marked as unpublished, or listed for deletion.  A clone
   interrupted before its marker, and a removal that stops half-way, are the exceptions. *)
THEOREM IdsReusable ==
    ASSUME ~Clones, ~Torn
    PROVE  Spec => []Reusable
<1>1. SInv /\ SInv' /\ RInv /\ [Next]_vars => RInv'
  BY ReusableNext
<1>2. RInv => Reusable
  BY DEF RInv, CanBeMade, Reusable
<1> QED BY <1>1, <1>2, ReusableInit, Invariance, PTL DEF Spec

=============================================================================
