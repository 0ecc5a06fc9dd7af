------------------------------ MODULE Workspace ------------------------------
(***************************************************************************)
(* Who may write to a workspace, and how its older layouts are converted   *)
(* (core/storage/lock.rs, mod.rs, migration.rs, gc.rs). A process that     *)
(* opens the workspace takes the lock file, exports what old tables hold   *)
(* to files, drops the tables, and then serves or collects unreferenced    *)
(* objects. The offline converter machineemu-migrate takes no lock.        *)
(* Processes may be killed between any two steps.                          *)
(***************************************************************************)
EXTENDS Naturals, FiniteSets

CONSTANTS
    Procs,          \* processes that open the workspace
    Rows,           \* image or instance rows of the old tables
    Docs,           \* legacy image documents; each names one object
    Incomplete,     \* documents with fields the conversion cannot resolve
    Overlap         \* may two processes break the same stale lock?

ASSUME WorkspaceAssumption ==
    /\ Overlap \in BOOLEAN
    /\ Procs \intersect {"none", "empty", "stale"} = {}

VARIABLES
    lockFile,       \* absent, without identity, of a dead process, or whose it is
    at,             \* process -> where it is
    doomed,         \* process -> objects its collection will remove
    tables,         \* old tables still in the database
    exported,       \* <<table, row>> with a file
    object,         \* document -> state of the object it names
    legacy,         \* documents whose JSON file exists
    yaml,           \* document -> its converted file
    journal,        \* documents in migration-v1.json
    mig             \* the converter

lockVars == <<lockFile, at>>
fileVars == <<object, legacy, yaml, journal, mig>>
workspaceVars == <<lockVars, doomed, tables, exported, fileVars>>

OldTables == {"images", "instances"}
MigIdle == [pc |-> "idle", apply |-> FALSE, remove |-> FALSE, todo |-> {}, doc |-> {}, failed |-> FALSE, done |-> {}]

WorkspaceInit ==
    /\ lockFile = "none"
    /\ at = [p \in Procs |-> "out"]
    /\ doomed = [p \in Procs |-> {}]
    /\ tables = OldTables
    /\ exported = {}
    /\ object = [d \in Docs |-> "none"]
    /\ legacy = Docs
    /\ yaml = [d \in Docs |-> "none"]
    /\ journal = {}
    /\ mig = MigIdle

-----------------------------------------------------------------------------
(* The lock file *)

StepTo(p, pc) == at' = [at EXCEPT ![p] = pc]

(* create_new succeeds: the file exists, without an identity yet. *)
CreateLock(p) ==
    /\ at[p] \in {"out", "broke"}
    /\ IF lockFile = "none"
         THEN lockFile' = "empty" /\ StepTo(p, "made")
         ELSE at[p] = "broke" /\ StepTo(p, "out") /\ UNCHANGED lockFile
    /\ UNCHANGED <<doomed, tables, exported, fileVars>>

(* Mutant: a file without an identity counts as stale. *)
ReadStaleLockEmpty(p) ==
    /\ at[p] = "out"
    /\ lockFile \in {"stale", "empty"}
    /\ Overlap \/ \A q \in Procs : at[q] # "stale"
    /\ StepTo(p, "stale")
    /\ UNCHANGED <<lockFile, doomed, tables, exported, fileVars>>

(* The identity in the file matches no live process. Any other content, an
   empty file included, is WorkspaceLocked and changes nothing. *)
ReadStaleLock(p) ==
    /\ at[p] = "out"
    /\ lockFile = "stale"
    /\ Overlap \/ \A q \in Procs : at[q] # "stale"
    /\ StepTo(p, "stale")
    /\ UNCHANGED <<lockFile, doomed, tables, exported, fileVars>>

(* remove_file of whatever is there now. *)
BreakLock(p) ==
    /\ at[p] = "stale"
    /\ IF lockFile = "none"
         THEN StepTo(p, "out") /\ UNCHANGED lockFile
         ELSE StepTo(p, "broke") /\ lockFile' = "none"
    /\ UNCHANGED <<doomed, tables, exported, fileVars>>

(* The identity is written; the lease exists and the database is open. *)
WriteIdentity(p) ==
    /\ at[p] = "made"
    /\ lockFile' = IF lockFile = "empty" THEN p ELSE lockFile
    /\ StepTo(p, "images")
    /\ UNCHANGED <<doomed, tables, exported, fileVars>>

(* Drop of the lease, at the end or after an error of migrate(): the path is
   removed, whoever created the file. *)
DropLease(p) ==
    /\ at[p] \in {"images", "instances", "open", "scan", "sweep"}
    /\ StepTo(p, "out")
    /\ lockFile' = "none"
    /\ doomed' = [doomed EXCEPT ![p] = {}]
    /\ UNCHANGED <<tables, exported, fileVars>>

(* SIGKILL: what the file says is now the identity of a dead process. *)
KillProcess(p) ==
    /\ at[p] # "out"
    /\ StepTo(p, "out")
    /\ lockFile' = IF lockFile = p THEN "stale" ELSE lockFile
    /\ doomed' = [doomed EXCEPT ![p] = {}]
    /\ UNCHANGED <<tables, exported, fileVars>>

-----------------------------------------------------------------------------
(* Conversion of old tables when the workspace is opened *)

(* migrate_image_manifests, migrate_instance_documents: one row gets a file;
   a file that exists is kept. *)
ExportRow(p, r) ==
    /\ at[p] \in tables
    /\ <<at[p], r>> \notin exported
    /\ exported' = exported \union {<<at[p], r>>}
    /\ UNCHANGED <<lockVars, doomed, tables, fileVars>>

(* Mutant: the table goes as soon as one row has its file. *)
DropTableEarly(p) ==
    /\ at[p] \in OldTables
    /\ at[p] \in tables => \E r \in Rows : <<at[p], r>> \in exported
    /\ tables' = tables \ {at[p]}
    /\ StepTo(p, IF at[p] = "images" THEN "instances" ELSE "open")
    /\ UNCHANGED <<lockFile, doomed, exported, fileVars>>

(* The transaction that replaces the table, once every row has its file; a
   new schema has nothing to do. *)
DropTable(p) ==
    /\ at[p] \in OldTables
    /\ at[p] \in tables => \A r \in Rows : <<at[p], r>> \in exported
    /\ tables' = tables \ {at[p]}
    /\ StepTo(p, IF at[p] = "images" THEN "instances" ELSE "open")
    /\ UNCHANGED <<lockFile, doomed, exported, fileVars>>

-----------------------------------------------------------------------------
(* Collection *)

(* Mutant: only converted documents count. *)
ReferencedNew == {d \in Docs : yaml[d] # "none"}

(* A digest in the text of any file: the legacy document and the converted one
   both name the object. *)
Referenced == {d \in Docs : d \in legacy \/ yaml[d] # "none"}

(* gc::collect lists the objects first, *)
CollectLists(p) ==
    /\ at[p] = "open"
    /\ StepTo(p, "scan")
    /\ doomed' = [doomed EXCEPT ![p] = {d \in Docs : object[d] # "none"}]
    /\ UNCHANGED <<lockFile, tables, exported, fileVars>>

(* then reads every file, *)
CollectScans(p) ==
    /\ at[p] = "scan"
    /\ StepTo(p, "sweep")
    /\ doomed' = [doomed EXCEPT ![p] = @ \ Referenced]
    /\ UNCHANGED <<lockFile, tables, exported, fileVars>>

(* then removes what no file names. *)
CollectRemoves(p) ==
    /\ at[p] = "sweep"
    /\ StepTo(p, "open")
    /\ object' = [d \in Docs |-> IF d \in doomed[p] THEN "none" ELSE object[d]]
    /\ doomed' = [doomed EXCEPT ![p] = {}]
    /\ UNCHANGED <<lockFile, tables, exported, legacy, yaml, journal, mig>>

-----------------------------------------------------------------------------
(* machineemu-migrate *)

(* The jobs: every JSON document, and every YAML document once more. *)
MigrateJobs == {d \in Docs : d \in legacy \/ yaml[d] # "none"}

(* `todo` are the jobs left, `doc` the one in hand. *)
MigrateStarts(apply, remove) ==
    /\ mig.pc = "idle"
    /\ mig' = [MigIdle EXCEPT !.pc = "next", !.apply = apply, !.remove = remove, !.todo = MigrateJobs]
    /\ UNCHANGED <<lockVars, doomed, tables, exported, object, legacy, yaml, journal>>

(* convert_document and validate_complete_instance resolve every field. *)
Convertible(d) == d \notin Incomplete

(* A document that cannot be converted is reported and left alone. *)
ReportUnresolved(d) ==
    /\ mig.pc = "next"
    /\ d \in mig.todo
    /\ ~Convertible(d)
    /\ mig' = [mig EXCEPT !.todo = @ \ {d}, !.failed = TRUE]
    /\ UNCHANGED <<lockVars, doomed, tables, exported, object, legacy, yaml, journal>>

(* bind_image_artifacts: fs::copy of a missing object, in a dry run too; an
   object file that exists is taken for whole. *)
BindArtifact(d) ==
    /\ mig.pc = "next"
    /\ d \in mig.todo
    /\ Convertible(d)
    /\ LET copy == object[d] = "none"
       IN /\ object' = [object EXCEPT ![d] = IF copy THEN "partial" ELSE @]
          /\ mig' = [mig EXCEPT !.pc = IF copy THEN "copy" ELSE "write", !.todo = @ \ {d}, !.doc = {d}]
    /\ UNCHANGED <<lockVars, doomed, tables, exported, legacy, yaml, journal>>

CopyObject(d) ==
    /\ mig.pc = "copy"
    /\ object' = [object EXCEPT ![d] = "whole"]
    /\ mig' = [mig EXCEPT !.pc = "write"]
    /\ UNCHANGED <<lockVars, doomed, tables, exported, legacy, yaml, journal>>

(* A converted document is written with a rename; an existing one must have
   the same bytes, or the document is reported and left alone. *)
WriteConverted(d) ==
    /\ mig.pc = "write"
    /\ IF d \in legacy /\ yaml[d] = "edited"
         THEN mig' = [mig EXCEPT !.pc = "next", !.failed = TRUE] /\ UNCHANGED yaml
         ELSE /\ mig' = [mig EXCEPT !.pc = IF mig.apply /\ mig.remove THEN "remove" ELSE "next",
                                    !.done = @ \union {d}]
              /\ yaml' = [yaml EXCEPT ![d] = IF mig.apply /\ @ = "none" THEN "converted" ELSE @]
    /\ UNCHANGED <<lockVars, doomed, tables, exported, object, legacy, journal>>

RemoveLegacy(d) ==
    /\ mig.pc = "remove"
    /\ legacy' = legacy \ {d}
    /\ mig' = [mig EXCEPT !.pc = "next"]
    /\ UNCHANGED <<lockVars, doomed, tables, exported, object, yaml, journal>>

(* The journal comes last, keeps its old entries, and is written only after a
   conversion without errors. *)
WriteJournal ==
    /\ mig.pc = "next"
    /\ mig.todo = {}
    /\ journal' = IF mig.apply /\ ~mig.failed THEN journal \union mig.done ELSE journal
    /\ mig' = MigIdle
    /\ UNCHANGED <<lockVars, doomed, tables, exported, object, legacy, yaml>>

(* The converter is killed, or an error of the file system ends it. *)
KillMigrate ==
    /\ mig.pc # "idle"
    /\ mig' = MigIdle
    /\ UNCHANGED <<lockVars, doomed, tables, exported, object, legacy, yaml, journal>>

(* An operator edits a converted document. *)
EditConverted(d) ==
    /\ yaml[d] = "converted"
    /\ yaml' = [yaml EXCEPT ![d] = "edited"]
    /\ UNCHANGED <<lockVars, doomed, tables, exported, object, legacy, journal, mig>>

WorkspaceNext ==
    \/ \E p \in Procs :
        \/ CreateLock(p) \/ ReadStaleLock(p) \/ BreakLock(p) \/ WriteIdentity(p)
        \/ DropLease(p) \/ KillProcess(p)
        \/ \E r \in Rows : ExportRow(p, r)
        \/ DropTable(p)
        \/ CollectLists(p) \/ CollectScans(p) \/ CollectRemoves(p)
    \/ \E apply, remove \in BOOLEAN : MigrateStarts(apply, remove)
    \/ \E d \in Docs : ReportUnresolved(d) \/ BindArtifact(d) \/ EditConverted(d)
    \/ \E d \in mig.doc : CopyObject(d) \/ WriteConverted(d) \/ RemoveLegacy(d)
    \/ WriteJournal
    \/ KillMigrate

WorkspaceSpec == WorkspaceInit /\ [][WorkspaceNext]_workspaceVars

-----------------------------------------------------------------------------
(* A process past WriteIdentity writes to the database and the tree. *)
Holds(p) == at[p] \notin {"out", "stale", "broke", "made"}

(* One process at a time writes to the workspace, through kills, stale locks
   and half-written lock files, as long as two processes do not break the same
   stale lock (acquire_workspace_lock, Drop of WorkspaceLease). *)
OneHolder == \A p, q \in Procs : (Holds(p) /\ Holds(q)) => p = q

(* Conversion loses nothing, whenever it is killed: an old table is gone only
   when each of its rows has its file, and an old document only when its
   conversion is in place (migrate_image_manifests, migrate_instance_documents,
   convert_one). *)
NothingLost ==
    /\ \A t \in OldTables \ tables : \A r \in Rows : <<t, r>> \in exported
    /\ \A d \in Docs : d \in legacy \/ yaml[d] # "none"

(* A collection never removes the object that a converted document names,
   though the converter takes no lock: a document is named by the old file
   until the new one is in place (gc::collect, convert_one). *)
ArtifactsKept == \A d \in Docs : yaml[d] # "none" => object[d] # "none"
=============================================================================
