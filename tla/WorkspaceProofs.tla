-------------------------- MODULE WorkspaceProofs --------------------------
(***************************************************************************)
(* The workspace has one writer, its conversion loses nothing and its      *)
(* collector removes nothing that is named, for any number of processes,   *)
(* rows and documents; and no update of a configuration document is lost   *)
(* and no run's document changes under it, for any number of clients; an   *)
(* image import that completes has delivered what its manifest names, and a*)
(* client that has read all its open stream holds knows how the job ended. *)
(***************************************************************************)
EXTENDS Workspace, Documents, Imports, SequenceTheorems, WellFoundedInduction, TLAPS

-----------------------------------------------------------------------------
(* The lock *)

Places == {"out", "made", "stale", "broke", "images", "instances", "open", "scan", "sweep"}

Placed == at \in [Procs -> Places]

(* The lock file names the writer (WriteIdentity to DropLease), *)
NamesHolder == \A p \in Procs : Holds(p) => lockFile = p

(* it is empty while its maker has yet to sign it (CreateLock), *)
EmptyMeansMade == \A p \in Procs : at[p] = "made" => lockFile = "empty"

(* and nobody but one process breaks a stale one (ReadStaleLock). *)
StaleIsBroken == \A p \in Procs : at[p] = "stale" => lockFile = "stale"

Alone == \A p, q \in Procs : (at[p] = at[q] /\ at[p] \in {"made", "stale"}) => p = q

LockInv == Placed /\ NamesHolder /\ EmptyMeansMade /\ StaleIsBroken /\ Alone

(* A new workspace has no lock file and no process. *)
LEMMA InitLockInv == WorkspaceInit => LockInv
BY DEF WorkspaceInit, LockInv, Placed, Places, NamesHolder, EmptyMeansMade, StaleIsBroken,
       Alone, Holds

(* A process that goes on holding the lock, or stops trying, changes nothing. *)
LEMMA KeepsLock ==
    ASSUME LockInv, NEW p \in Procs, NEW pc \in Places, StepTo(p, pc), UNCHANGED lockFile,
           pc \in {"out", "broke"} \/ (Holds(p) /\ pc \notin {"made", "stale"})
    PROVE  LockInv'
BY DEF LockInv, Placed, Places, NamesHolder, EmptyMeansMade, StaleIsBroken, Alone, Holds, StepTo

(* Each step of each process, when no two break the same stale lock. *)
LEMMA NextLockInv == ~Overlap /\ LockInv /\ [WorkspaceNext]_workspaceVars => LockInv'
<1> SUFFICES ASSUME ~Overlap, LockInv, [WorkspaceNext]_workspaceVars PROVE LockInv'
  OBVIOUS
<1>1. ASSUME NEW p \in Procs, CreateLock(p) PROVE LockInv'
  <2>1. CASE lockFile = "none"
    <3>1. \A q \in Procs : at[q] \in {"out", "broke"}
      BY <2>1, WorkspaceAssumption
         DEF LockInv, Placed, Places, NamesHolder, EmptyMeansMade, StaleIsBroken, Holds
    <3> QED
      BY <1>1, <2>1, <3>1
         DEF CreateLock, LockInv, Placed, Places, NamesHolder, EmptyMeansMade, StaleIsBroken,
             Alone, Holds, StepTo
  <2>2. CASE lockFile # "none"
    BY <1>1, <2>2, KeepsLock DEF CreateLock, Places
  <2> QED BY <2>1, <2>2
<1>2. ASSUME NEW p \in Procs, ReadStaleLock(p) PROVE LockInv'
  BY <1>2, WorkspaceAssumption
     DEF ReadStaleLock, LockInv, Placed, Places, NamesHolder, EmptyMeansMade, StaleIsBroken,
         Alone, Holds, StepTo
<1>3. ASSUME NEW p \in Procs, BreakLock(p) PROVE LockInv'
  \* the lock is stale: nobody holds, makes or breaks it beside p
  <2>1. lockFile = "stale" /\ \A q \in Procs \ {p} : at[q] \in {"out", "broke"}
    BY <1>3, WorkspaceAssumption
       DEF BreakLock, LockInv, Placed, Places, NamesHolder, EmptyMeansMade, StaleIsBroken,
           Alone, Holds
  <2> QED
    BY <1>3, <2>1
       DEF BreakLock, LockInv, Placed, Places, NamesHolder, EmptyMeansMade, StaleIsBroken,
           Alone, Holds, StepTo
<1>4. ASSUME NEW p \in Procs, WriteIdentity(p) PROVE LockInv'
  <2>1. lockFile = "empty" /\ \A q \in Procs \ {p} : at[q] \in {"out", "broke"}
    BY <1>4, WorkspaceAssumption
       DEF WriteIdentity, LockInv, Placed, Places, NamesHolder, EmptyMeansMade, StaleIsBroken,
           Alone, Holds
  <2> QED
    BY <1>4, <2>1
       DEF WriteIdentity, LockInv, Placed, Places, NamesHolder, EmptyMeansMade, StaleIsBroken,
           Alone, Holds, StepTo
<1>5. ASSUME NEW p \in Procs, DropLease(p) PROVE LockInv'
  <2>1. lockFile = p /\ \A q \in Procs \ {p} : at[q] \in {"out", "broke"}
    BY <1>5, WorkspaceAssumption
       DEF DropLease, LockInv, Placed, Places, NamesHolder, EmptyMeansMade, StaleIsBroken,
           Alone, Holds
  <2> QED
    BY <1>5, <2>1
       DEF DropLease, LockInv, Placed, Places, NamesHolder, EmptyMeansMade, StaleIsBroken,
           Alone, Holds, StepTo
<1>6. ASSUME NEW p \in Procs, KillProcess(p) PROVE LockInv'
  \* what a dead holder leaves is stale; an empty file stays empty for ever
  <2>1. CASE lockFile = p
    BY <1>6, <2>1, WorkspaceAssumption
       DEF KillProcess, LockInv, Placed, Places, NamesHolder, EmptyMeansMade, StaleIsBroken,
           Alone, Holds, StepTo
  <2>2. CASE lockFile # p
    BY <1>6, <2>2, KeepsLock DEF KillProcess, Places
  <2> QED BY <2>1, <2>2
<1>7. ASSUME NEW p \in Procs, DropTable(p) \/ CollectLists(p) \/ CollectScans(p) \/ CollectRemoves(p)
      PROVE  LockInv'
  <2>1. Holds(p) /\ UNCHANGED lockFile
    BY <1>7 DEF DropTable, CollectLists, CollectScans, CollectRemoves, Holds, OldTables
  <2>2. \E pc \in Places \ {"made", "stale"} : StepTo(p, pc)
    BY <1>7 DEF DropTable, CollectLists, CollectScans, CollectRemoves, Places
  <2> QED BY <2>1, <2>2, KeepsLock
<1>8. ASSUME UNCHANGED lockVars PROVE LockInv'
  BY <1>8 DEF lockVars, LockInv, Placed, NamesHolder, EmptyMeansMade, StaleIsBroken, Alone, Holds
<1>9. CASE \/ \E p \in Procs, r \in Rows : ExportRow(p, r)
           \/ \E apply, remove \in BOOLEAN : MigrateStarts(apply, remove)
           \/ \E d \in Docs : ReportUnresolved(d) \/ BindArtifact(d) \/ EditConverted(d)
           \/ \E d \in mig.doc : CopyObject(d) \/ WriteConverted(d) \/ RemoveLegacy(d)
           \/ WriteJournal \/ KillMigrate \/ UNCHANGED workspaceVars
  <2>1. UNCHANGED lockVars
    BY <1>9 DEF ExportRow, MigrateStarts, ReportUnresolved, BindArtifact, EditConverted, CopyObject,
                WriteConverted, RemoveLegacy, WriteJournal, KillMigrate, workspaceVars
  <2> QED BY <2>1, <1>8
<1> QED BY <1>1, <1>2, <1>3, <1>4, <1>5, <1>6, <1>7, <1>9 DEF WorkspaceNext

(* One process at a time writes to the workspace, for any number of processes
   and any kills, as long as no two break the same stale lock. *)
THEOREM OneWriter ==
    ASSUME ~Overlap
    PROVE  WorkspaceSpec => []OneHolder
<1>1. LockInv /\ [WorkspaceNext]_workspaceVars => LockInv'
  BY NextLockInv
<1>2. LockInv => OneHolder
  BY DEF LockInv, NamesHolder, OneHolder
<1> QED BY InitLockInv, <1>1, <1>2, PTL DEF WorkspaceSpec

-----------------------------------------------------------------------------
(* Conversion and collection *)

Conversion ==
    [pc : {"idle", "next", "copy", "write", "remove"}, apply : BOOLEAN, remove : BOOLEAN,
     todo : SUBSET Docs, doc : SUBSET Docs, failed : BOOLEAN, done : SUBSET Docs]

FileTypes ==
    /\ at \in [Procs -> Places]
    /\ doomed \in [Procs -> SUBSET Docs]
    /\ object \in [Docs -> {"none", "partial", "whole"}]
    /\ yaml \in [Docs -> {"none", "converted", "edited"}]
    /\ mig \in Conversion

(* The converter has one document in hand (convert_one). *)
OneInHand == \A d, e \in mig.doc : d = e

(* Its object is there before its text is (bind_image_artifacts), *)
ObjectInHand == mig.pc \in {"copy", "write", "remove"} => \A d \in mig.doc : object[d] # "none"

(* and its text before the old document goes (convert_one). *)
TextInPlace == mig.pc = "remove" => \A d \in mig.doc : yaml[d] # "none"

(* A scan finds every object named, by the old text or the new (gc::collect). *)
NothingDoomed == \A p \in Procs : at[p] = "sweep" => doomed[p] = {}

RowsKept == \A t \in OldTables \ tables : \A r \in Rows : <<t, r>> \in exported
TextsKept == \A d \in Docs : d \in legacy \/ yaml[d] # "none"

FileInv ==
    /\ FileTypes /\ OneInHand /\ ObjectInHand /\ TextInPlace /\ NothingDoomed
    /\ RowsKept /\ TextsKept /\ ArtifactsKept

(* Before the first process every table and every old document is there. *)
LEMMA InitFileInv == WorkspaceInit => FileInv
BY DEF WorkspaceInit, FileInv, FileTypes, Places, Conversion, MigIdle, OneInHand, ObjectInHand,
       TextInPlace, NothingDoomed, RowsKept, TextsKept, ArtifactsKept

(* A process moves to a place other than the sweep, and files stay as they are. *)
LEMMA MovesOn ==
    ASSUME FileInv, NEW p \in Procs, NEW pc \in Places \ {"sweep"}, StepTo(p, pc),
           NEW ds \in SUBSET Docs, doomed' \in {doomed, [doomed EXCEPT ![p] = ds]},
           UNCHANGED <<tables, exported, object, legacy, yaml, journal, mig>>
    PROVE  FileInv'
<1>1. FileTypes'
  BY DEF FileInv, FileTypes, Places, StepTo
<1>2. NothingDoomed'
  BY DEF FileInv, FileTypes, NothingDoomed, StepTo
<1> QED BY <1>1, <1>2 DEF FileInv, OneInHand, ObjectInHand, TextInPlace, RowsKept, TextsKept, ArtifactsKept

(* Lock, tables and collections of the processes that open the workspace. *)
LEMMA ProcessKeepsFiles ==
    ASSUME FileInv, NEW p \in Procs,
           \/ CreateLock(p) \/ ReadStaleLock(p) \/ BreakLock(p) \/ WriteIdentity(p)
           \/ DropLease(p) \/ KillProcess(p)
           \/ \E r \in Rows : ExportRow(p, r)
           \/ DropTable(p)
           \/ CollectLists(p) \/ CollectScans(p) \/ CollectRemoves(p)
    PROVE  FileInv'
<1>1. CASE \/ CreateLock(p) \/ ReadStaleLock(p) \/ BreakLock(p) \/ WriteIdentity(p)
           \/ DropLease(p) \/ KillProcess(p)
  <2>1. UNCHANGED <<tables, exported, object, legacy, yaml, journal, mig>>
    BY <1>1 DEF CreateLock, ReadStaleLock, BreakLock, WriteIdentity, DropLease, KillProcess, fileVars
  <2>2. \E pc \in Places \ {"sweep"} : StepTo(p, pc)
    BY <1>1 DEF CreateLock, ReadStaleLock, BreakLock, WriteIdentity, DropLease, KillProcess, Places
  <2>3. doomed' \in {doomed, [doomed EXCEPT ![p] = {}]}
    BY <1>1 DEF CreateLock, ReadStaleLock, BreakLock, WriteIdentity, DropLease, KillProcess
  <2> QED BY <2>1, <2>2, <2>3, MovesOn
<1>2. ASSUME NEW r \in Rows, ExportRow(p, r) PROVE FileInv'
  BY <1>2 DEF ExportRow, lockVars, fileVars, FileInv, FileTypes, OneInHand, ObjectInHand, TextInPlace,
              NothingDoomed, RowsKept, TextsKept, ArtifactsKept
<1>3. CASE DropTable(p)
  \* the table of the place where p is: each of its rows has its file
  <2>1. RowsKept'
    BY <1>3 DEF DropTable, FileInv, RowsKept
  <2>2. FileTypes' /\ NothingDoomed'
    BY <1>3 DEF DropTable, fileVars, FileInv, FileTypes, Places, NothingDoomed, StepTo
  <2> QED
    BY <1>3, <2>1, <2>2 DEF DropTable, fileVars, FileInv, OneInHand, ObjectInHand, TextInPlace,
                            TextsKept, ArtifactsKept
<1>4. CASE CollectLists(p)
  BY <1>4, MovesOn DEF CollectLists, fileVars, Places
<1>5. CASE CollectScans(p)
  \* every object is named by a file
  <2>1. Docs \subseteq Referenced
    BY DEF FileInv, TextsKept, Referenced
  <2>2. doomed' = [doomed EXCEPT ![p] = {}]
    BY <1>5, <2>1 DEF CollectScans, FileInv, FileTypes
  <2>3. FileTypes' /\ NothingDoomed'
    BY <1>5, <2>2 DEF CollectScans, fileVars, FileInv, FileTypes, Places, NothingDoomed, StepTo
  <2> QED
    BY <1>5, <2>3 DEF CollectScans, fileVars, FileInv, OneInHand, ObjectInHand, TextInPlace, RowsKept,
                      TextsKept, ArtifactsKept
<1>6. CASE CollectRemoves(p)
  <2>1. object' = object
    BY <1>6 DEF CollectRemoves, FileInv, FileTypes, NothingDoomed
  <2>2. /\ \E pc \in Places \ {"sweep"} : StepTo(p, pc)
        /\ doomed' \in {doomed, [doomed EXCEPT ![p] = {}]}
        /\ UNCHANGED <<tables, exported, object, legacy, yaml, journal, mig>>
    BY <1>6, <2>1 DEF CollectRemoves, Places
  <2> QED BY <2>2, MovesOn
<1> QED BY <1>1, <1>2, <1>3, <1>4, <1>5, <1>6

(* The converter, and operators that edit what it has written. *)
LEMMA ConverterKeepsFiles ==
    ASSUME FileInv,
           \/ \E apply, remove \in BOOLEAN : MigrateStarts(apply, remove)
           \/ \E d \in Docs : ReportUnresolved(d) \/ BindArtifact(d) \/ EditConverted(d)
           \/ \E d \in mig.doc : CopyObject(d) \/ WriteConverted(d) \/ RemoveLegacy(d)
           \/ WriteJournal \/ KillMigrate
    PROVE  FileInv'
<1> USE DEF FileInv
<1>1. ASSUME NEW apply \in BOOLEAN, NEW remove \in BOOLEAN, MigrateStarts(apply, remove)
      PROVE  FileInv'
  BY <1>1 DEF MigrateStarts, MigrateJobs, MigIdle, lockVars, FileTypes, Conversion, OneInHand,
              ObjectInHand, TextInPlace, NothingDoomed, RowsKept, TextsKept, ArtifactsKept
<1>2. ASSUME NEW d \in Docs, ReportUnresolved(d) PROVE FileInv'
  BY <1>2 DEF ReportUnresolved, lockVars, FileTypes, Conversion, OneInHand,
              ObjectInHand, TextInPlace, NothingDoomed, RowsKept, TextsKept, ArtifactsKept
<1>3. ASSUME NEW d \in Docs, BindArtifact(d) PROVE FileInv'
  \* a missing object is begun
  <2>1. FileTypes' /\ OneInHand'
    BY <1>3 DEF BindArtifact, lockVars, FileTypes, Conversion, OneInHand
  <2>2. ObjectInHand' /\ TextInPlace'
    BY <1>3 DEF BindArtifact, FileTypes, Conversion, ObjectInHand, TextInPlace
  <2> QED
    BY <1>3, <2>1, <2>2 DEF BindArtifact, lockVars, FileTypes, NothingDoomed, RowsKept, TextsKept,
                            ArtifactsKept
<1>4. ASSUME NEW d \in Docs, EditConverted(d) PROVE FileInv'
  BY <1>4 DEF EditConverted, lockVars, FileTypes, OneInHand, ObjectInHand, TextInPlace,
              NothingDoomed, RowsKept, TextsKept, ArtifactsKept
<1>5. ASSUME NEW d \in mig.doc, CopyObject(d) PROVE FileInv'
  <2>1. FileTypes'
    BY <1>5 DEF CopyObject, lockVars, FileTypes, Conversion
  <2>2. mig'.pc = "write" /\ mig'.doc = mig.doc
    BY <1>5 DEF CopyObject, FileTypes, Conversion
  <2> QED
    BY <1>5, <2>1, <2>2 DEF CopyObject, lockVars, FileTypes, Conversion, OneInHand, ObjectInHand,
                            TextInPlace, NothingDoomed, RowsKept, TextsKept, ArtifactsKept
<1>6. ASSUME NEW d \in mig.doc, WriteConverted(d) PROVE FileInv'
  <2>1. d \in Docs /\ mig.doc = {d} /\ object[d] # "none"
    BY <1>6 DEF WriteConverted, FileTypes, Conversion, OneInHand, ObjectInHand
  <2>2. FileTypes'
    <3>1. mig' \in Conversion
      <4>1. CASE d \in legacy /\ yaml[d] = "edited"
        BY <1>6, <2>1, <4>1 DEF WriteConverted, FileTypes, Conversion
      <4>2. CASE ~(d \in legacy /\ yaml[d] = "edited")
        <5>1. mig.done \union {d} \in SUBSET Docs
          BY <2>1 DEF FileTypes, Conversion
        <5> QED BY <1>6, <4>2, <5>1 DEF WriteConverted, FileTypes, Conversion
      <4> QED BY <4>1, <4>2
    <3>2. yaml' \in [Docs -> {"none", "converted", "edited"}]
      BY <1>6, <2>1 DEF WriteConverted, FileTypes
    <3> QED BY <1>6, <3>1, <3>2 DEF WriteConverted, lockVars, FileTypes
  <2>3. mig'.doc = {d} /\ (mig'.pc = "remove" => yaml'[d] # "none")
    BY <1>6, <2>1 DEF WriteConverted, FileTypes, Conversion
  <2>4. mig'.pc \in {"next", "remove"} /\ \A e \in Docs : yaml[e] # "none" => yaml'[e] # "none"
    BY <1>6, <2>1 DEF WriteConverted, FileTypes, Conversion
  <2>5. \A e \in Docs : yaml'[e] # "none" => (yaml[e] # "none" \/ e = d)
    BY <1>6, <2>1 DEF WriteConverted, FileTypes
  <2> QED
    BY <1>6, <2>1, <2>2, <2>3, <2>4, <2>5
       DEF WriteConverted, lockVars, OneInHand, ObjectInHand, TextInPlace, NothingDoomed, RowsKept,
           TextsKept, ArtifactsKept
<1>7. ASSUME NEW d \in mig.doc, RemoveLegacy(d) PROVE FileInv'
  <2>1. FileTypes' /\ mig'.pc = "next" /\ mig'.doc = mig.doc
    BY <1>7 DEF RemoveLegacy, lockVars, FileTypes, Conversion
  <2> QED
    BY <1>7, <2>1 DEF RemoveLegacy, lockVars, FileTypes, Conversion, OneInHand, ObjectInHand,
                      TextInPlace, NothingDoomed, RowsKept, TextsKept, ArtifactsKept
<1>8. CASE WriteJournal \/ KillMigrate
  <2>1. /\ mig' = MigIdle
        /\ UNCHANGED <<at, doomed, tables, exported, object, legacy, yaml>>
    BY <1>8 DEF WriteJournal, KillMigrate, lockVars
  <2>2. MigIdle \in Conversion /\ MigIdle.doc = {} /\ MigIdle.pc = "idle"
    BY DEF MigIdle, Conversion
  <2> QED BY <2>1, <2>2 DEF FileTypes, OneInHand, ObjectInHand, TextInPlace, NothingDoomed,
                            RowsKept, TextsKept, ArtifactsKept
<1> QED BY <1>1, <1>2, <1>3, <1>4, <1>5, <1>6, <1>7, <1>8

LEMMA NextFileInv == FileInv /\ [WorkspaceNext]_workspaceVars => FileInv'
<1>1. ASSUME FileInv, UNCHANGED workspaceVars PROVE FileInv'
  BY <1>1 DEF workspaceVars, lockVars, fileVars, FileInv, FileTypes, OneInHand, ObjectInHand,
              TextInPlace, NothingDoomed, RowsKept, TextsKept, ArtifactsKept
<1> QED BY <1>1, ProcessKeepsFiles, ConverterKeepsFiles DEF WorkspaceNext

(* Conversion loses no row and no document, whenever and however often it is
   killed, and whoever else has the workspace open. *)
THEOREM ConversionLosesNothing == WorkspaceSpec => []NothingLost
<1>1. FileInv => NothingLost
  BY DEF FileInv, RowsKept, TextsKept, NothingLost
<1> QED BY InitFileInv, NextFileInv, <1>1, PTL DEF WorkspaceSpec

(* No collection removes the object of a converted document, for any number
   of collectors beside the converter, with or without the lock. *)
THEOREM ObjectsKept == WorkspaceSpec => []ArtifactsKept
<1>1. FileInv => ArtifactsKept
  BY DEF FileInv
<1> QED BY InitFileInv, NextFileInv, <1>1, PTL DEF WorkspaceSpec

-----------------------------------------------------------------------------
(* Configuration documents: whoever writes one holds the gate, and has compared
   the revision under it. *)

MaybeDocument == Document \union {NoDocument}

Request ==
    [pc : {"idle", "read", "replace", "rename"}, base : MaybeDocument, new : MaybeDocument]

DocTypes == doc \in Document /\ ed \in [Editors -> Request]

InSection(e) == ed[e].pc \in {"replace", "rename"}

(* What is about to be renamed is a document (replace_domain_document). *)
WritesDocument == \A e \in Editors : InSection(e) => ed[e].new \in Document

(* A client between its check and its rename is alone in the gate (pool.rs
   lock_instance, held by the routes of api/documents.rs), *)
WriterHoldsGate == \A e \in Editors : InSection(e) => docGate = {e}

(* so is a start between load and launch (api/lifecycle.rs), *)
StartHoldsGate == starting # NoDocument => docGate = {"start"}

(* a client writes to a stopped instance only, *)
WriterOfStopped == \A e \in Editors : InSection(e) => launched = NoDocument

(* and has compared what it read with what is there (replace_domain_document). *)
Compared == \A e \in Editors : ed[e].pc = "rename" => (ed[e].base = doc \/ e \in raced)

DInv ==
    /\ DocTypes /\ WritesDocument /\ WriterHoldsGate /\ StartHoldsGate
    /\ WriterOfStopped /\ Compared /\ Frozen

(* The document of a new instance is one, and nobody writes. *)
LEMMA InitDInv == DocumentsInit => DInv
<1> SUFFICES ASSUME DocumentsInit PROVE DInv
  OBVIOUS
<1>1. doc \in Document
  <2>1. (CHOOSE b \in Bodies : TRUE) \in Bodies
    BY DocumentsAssumption
  <2>2. (CHOOSE t \in Compatible : TRUE) \in Tracks
    BY DocumentsAssumption
  <2> QED BY <2>1, <2>2 DEF DocumentsInit, Document
<1>2. DocTypes
  BY <1>1 DEF DocumentsInit, DocTypes, Request, MaybeDocument, Idle
<1>3. \A e \in Editors : ed[e].pc = "idle"
  BY DEF DocumentsInit, Idle
<1>4. WritesDocument /\ WriterHoldsGate /\ WriterOfStopped /\ Compared
  BY <1>3 DEF WritesDocument, WriterHoldsGate, WriterOfStopped, Compared, InSection
<1>5. StartHoldsGate /\ Frozen
  BY DEF DocumentsInit, StartHoldsGate, Frozen
<1> QED BY <1>2, <1>4, <1>5 DEF DInv

(* What a client's step may touch: its own request, and the gate only as its
   holder. Such a step keeps the invariant when it keeps the document. *)
LEMMA Withdraws ==
    ASSUME DInv, NEW e \in Editors,
           ed' = [ed EXCEPT ![e] = Idle],
           docGate' \in {docGate, docGate \ {e}},
           InSection(e) \/ docGate' = docGate,
           raced' \in {raced, raced \ {e}},
           UNCHANGED <<doc, launched, starting, edited>>
    PROVE  DInv'
<1> USE DEF DInv, InSection
<1>1. ed'[e].pc = "idle" /\ \A f \in Editors \ {e} : ed'[f] = ed[f]
  BY DEF DocTypes, Request, Idle
<1>2. DocTypes'
  BY DEF DocTypes, Request, Idle, MaybeDocument
<1>3. InSection(e) => /\ starting = NoDocument
                      /\ \A f \in Editors \ {e} : ~InSection(f)
  BY StartAssumption DEF WriterHoldsGate, StartHoldsGate
<1>4. WriterHoldsGate'
  BY <1>1, <1>3 DEF WriterHoldsGate
<1>5. StartHoldsGate'
  BY <1>3 DEF StartHoldsGate
<1>6. WritesDocument' /\ WriterOfStopped' /\ Compared'
  BY <1>1 DEF WritesDocument, WriterOfStopped, Compared
<1>7. Frozen'
  BY DEF Frozen
<1> QED BY <1>2, <1>4, <1>5, <1>6, <1>7

(* A client enters the section, or goes from its comparison to its rename. *)
LEMMA Enters ==
    ASSUME DInv, NEW e \in Editors, NEW new \in Document,
           NEW pc \in {"replace", "rename"},
           InSection(e) \/ docGate = {},
           launched = NoDocument,
           pc = "rename" => ed[e].base = doc,
           ed' = [ed EXCEPT ![e].pc = pc, ![e].new = new],
           docGate' = {e},
           raced' \in {raced, raced \ {e}},
           UNCHANGED <<doc, launched, starting, edited>>
    PROVE  DInv'
<1> USE DEF DInv, InSection
<1>1. /\ ed'[e].pc = pc /\ ed'[e].base = ed[e].base /\ ed'[e].new = new
      /\ \A f \in Editors \ {e} : ed'[f] = ed[f]
  BY DEF DocTypes, Request
<1>2. DocTypes'
  <2>1. [ed[e] EXCEPT !.pc = pc, !.new = new] \in Request
    <3>1. ed[e] \in Request /\ new \in MaybeDocument
      BY DEF DocTypes, MaybeDocument
    <3> QED BY <3>1 DEF Request
  <2>2. ed' = [ed EXCEPT ![e] = [ed[e] EXCEPT !.pc = pc, !.new = new]]
    BY DEF DocTypes, Request
  <2> QED BY <2>1, <2>2 DEF DocTypes
<1>3. starting = NoDocument /\ \A f \in Editors \ {e} : ~InSection(f)
  BY StartAssumption DEF WriterHoldsGate, StartHoldsGate
<1>4. WriterHoldsGate' /\ StartHoldsGate'
  BY <1>1, <1>3 DEF WriterHoldsGate, StartHoldsGate
<1>5. WritesDocument' /\ WriterOfStopped' /\ Compared'
  BY <1>1, <1>3 DEF WritesDocument, WriterOfStopped, Compared
<1>6. Frozen'
  BY DEF Frozen
<1> QED BY <1>2, <1>4, <1>5, <1>6

(* A new document is one whatever part of it is new. *)
LEMMA NewEngine ==
    ASSUME doc \in Document, NEW track \in Tracks
    PROVE  [doc EXCEPT !.engine = track] \in Document
BY DEF Document

(* Each step of a client, of a start or stop, or of an operator. *)
LEMMA NextDInv == DInv /\ [DocumentsNext]_docVars => DInv'
<1> SUFFICES ASSUME DInv, [DocumentsNext]_docVars PROVE DInv'
  OBVIOUS
<1>1. ASSUME NEW e \in Editors, GetInstanceConfig(e) PROVE DInv'
  <2> USE DEF GetInstanceConfig, DInv, InSection
  <2>1. ed'[e].pc = "read" /\ \A f \in Editors \ {e} : ed'[f] = ed[f]
    BY <1>1 DEF DocTypes, Request, Idle
  <2>2. DocTypes'
    BY <1>1 DEF DocTypes, Request, Idle, MaybeDocument
  <2>3. WriterHoldsGate' /\ StartHoldsGate' /\ WriterOfStopped'
    BY <1>1, <2>1 DEF WriterHoldsGate, StartHoldsGate, WriterOfStopped
  <2>4. WritesDocument' /\ Compared' /\ Frozen'
    BY <1>1, <2>1 DEF WritesDocument, Compared, Frozen
  <2> QED BY <2>2, <2>3, <2>4
<1>2. ASSUME NEW e \in Editors, NEW new \in Document, PutInstanceConfig(e, new)
      PROVE  DInv'
  <2>1. CASE Stopped /\ ed[e].base = doc
    BY <1>2, <2>1, Enters DEF PutInstanceConfig, Stopped, MaybeDocument
  <2>2. CASE ~(Stopped /\ ed[e].base = doc)
    BY <1>2, <2>2, Withdraws DEF PutInstanceConfig, Refuse
  <2> QED BY <2>1, <2>2
<1>3. ASSUME NEW e \in Editors, NEW track \in Tracks, UpgradeInstanceEngine(e, track)
      PROVE  DInv'
  <2>1. CASE Stopped /\ ed[e].base = doc /\ track \in Compatible /\ track # doc.engine
    <3>1. [doc EXCEPT !.engine = track] \in Document
      BY NewEngine DEF DInv, DocTypes
    <3> QED BY <1>3, <2>1, <3>1, Enters DEF UpgradeInstanceEngine, Stopped
  <2>2. CASE ~(Stopped /\ ed[e].base = doc /\ track \in Compatible /\ track # doc.engine)
    BY <1>3, <2>2, Withdraws DEF UpgradeInstanceEngine, Refuse
  <2> QED BY <2>1, <2>2
<1>4. ASSUME NEW e \in Editors, ReplaceDomainDocument(e) PROVE DInv'
  <2> USE DEF ReplaceDomainDocument
  <2>1. InSection(e)
    BY <1>4 DEF InSection
  <2>2. CASE ed[e].base = doc
    <3>1. launched = NoDocument /\ docGate = {e}
      BY <2>1 DEF DInv, WriterOfStopped, WriterHoldsGate
    <3>2. ed[e].new \in Document /\ ed' = [ed EXCEPT ![e].pc = "rename", ![e].new = ed[e].new]
      BY <1>4, <2>1, <2>2 DEF DInv, DocTypes, Request, WritesDocument
    <3>3. docGate' = {e} /\ raced' = raced \ {e} /\ UNCHANGED <<doc, launched, starting, edited>>
      BY <1>4, <2>2, <3>1
    <3> HIDE DEF ReplaceDomainDocument
    <3> QED BY <2>1, <2>2, <3>1, <3>2, <3>3, Enters
  <2>3. CASE ed[e].base # doc
    BY <1>4, <2>1, <2>3, Withdraws
  <2> QED BY <2>2, <2>3
<1>5. ASSUME NEW e \in Editors, WriteInstanceDocument(e) PROVE DInv'
  \* no run and no start: nothing is frozen; and no other client writes
  <2> USE DEF DInv, InSection
  <2>1. /\ launched = NoDocument /\ starting = NoDocument
        /\ \A f \in Editors \ {e} : ~InSection(f)
    BY <1>5, StartAssumption
       DEF WriteInstanceDocument, WriterHoldsGate, StartHoldsGate, WriterOfStopped
  <2>2. ed'[e].pc = "idle" /\ \A f \in Editors \ {e} : ed'[f] = ed[f]
    BY <1>5 DEF WriteInstanceDocument, DocTypes, Request, Idle
  <2>3. DocTypes'
    BY <1>5 DEF WriteInstanceDocument, WritesDocument, DocTypes, Request, MaybeDocument, Idle
  <2>4. WritesDocument' /\ WriterHoldsGate' /\ StartHoldsGate' /\ WriterOfStopped' /\ Compared'
    BY <1>5, <2>1, <2>2
       DEF WriteInstanceDocument, WritesDocument, WriterHoldsGate, StartHoldsGate,
           WriterOfStopped, Compared
  <2>5. Frozen'
    BY <1>5, <2>1 DEF WriteInstanceDocument, Frozen
  <2> QED BY <2>3, <2>4, <2>5
<1>6. ASSUME NEW e \in Editors, WriteFails(e) PROVE DInv'
  BY <1>6, Withdraws DEF WriteFails, InSection
<1>7. CASE StartLoads
  <2> USE DEF StartLoads, DInv
  <2>1. \A e \in Editors : ~InSection(e)
    BY <1>7 DEF WriterHoldsGate
  <2>2. DocTypes' /\ StartHoldsGate' /\ Compared' /\ Frozen'
    BY <1>7 DEF DocTypes, StartHoldsGate, Compared, Frozen
  <2>3. WritesDocument' /\ WriterHoldsGate' /\ WriterOfStopped'
    BY <1>7, <2>1 DEF WritesDocument, WriterHoldsGate, WriterOfStopped, InSection
  <2> QED BY <2>2, <2>3
<1>8. CASE StartLaunches
  <2> USE DEF StartLaunches, DInv
  <2>1. \A e \in Editors : ~InSection(e)
    BY <1>8, StartAssumption DEF WriterHoldsGate, StartHoldsGate
  <2>2. DocTypes' /\ StartHoldsGate' /\ Compared' /\ Frozen'
    BY <1>8 DEF DocTypes, StartHoldsGate, Compared, Frozen
  <2>3. WritesDocument' /\ WriterHoldsGate' /\ WriterOfStopped'
    BY <1>8, <2>1 DEF WritesDocument, WriterHoldsGate, WriterOfStopped, InSection
  <2> QED BY <2>2, <2>3
<1>9. CASE StopReturns
  BY <1>9 DEF StopReturns, DInv, DocTypes, WritesDocument, WriterHoldsGate, StartHoldsGate,
              WriterOfStopped, Compared, Frozen, InSection
<1>10. ASSUME NEW new \in Document, OperatorEdits(new) PROVE DInv'
  \* the edit is remembered, and so is every client it passes
  BY <1>10 DEF OperatorEdits, DInv, DocTypes, WritesDocument, WriterHoldsGate, StartHoldsGate,
               WriterOfStopped, Compared, Frozen, InSection
<1>11. CASE UNCHANGED docVars
  BY <1>11 DEF docVars, DInv, DocTypes, WritesDocument, WriterHoldsGate, StartHoldsGate,
               WriterOfStopped, Compared, Frozen, InSection
<1> QED BY <1>1, <1>2, <1>3, <1>4, <1>5, <1>6, <1>7, <1>8, <1>9, <1>10, <1>11
        DEF DocumentsNext

(* No route changes the document of a run or of a start under way, for any
   number of clients; an operator's editor is all that can. *)
THEOREM RunsKeepTheirDocument == DocumentsSpec => []Frozen
<1>1. DInv => Frozen
  BY DEF DInv
<1> QED BY InitDInv, NextDInv, <1>1, PTL DEF DocumentsSpec

(* A client's rename replaces what the client has read, for any number of
   clients; only an operator's edit after the comparison can be lost. *)
THEOREM UpdatesKept == DocumentsSpec => NoLostUpdate
<1> DEFINE Step == \A e \in Editors :
        (ed[e].pc = "rename" /\ doc' # doc /\ ed'[e].pc = "idle")
            => (ed[e].base = doc \/ e \in raced)
<1>1. DInv => Step
  BY DEF DInv, Compared
<1>2. NoLostUpdate <=> [][Step]_docVars
  BY DEF NoLostUpdate
<1> HIDE DEF Step
<1> QED BY InitDInv, NextDInv, <1>1, <1>2, PTL DEF DocumentsSpec

-----------------------------------------------------------------------------
(* Import jobs *)

ImagePcs == {"disk", "tpm_state", "register"}
EnginePcs == {"install", "registry", "persist"}
RestPcs == {"none", "queued", "publish", "ended"}

Registries == [EngineTracks -> Payloads \cup {NoContent}]
Imported == [pc : ImagePcs \cup EnginePcs \cup RestPcs,
             status : {"none", "queued", "running", "complete", "failed"},
             kind : {"none", "image", "engine"},
             source : Sources \cup Payloads \cup {NoContent},
             track : EngineTracks \cup {NoContent},
             read : Registries \cup {NoContent}]

ImportTypes ==
    /\ comp \in Package
    /\ registry \in Registries
    /\ jobs \in [Jobs -> Imported]

(* What a job imports, and where in its own kind of import it is. *)
Asked(job) ==
    /\ job.kind = "image" => job.source \in Sources
    /\ job.kind = "engine" => job.source \in Payloads /\ job.track \in EngineTracks
    /\ job.pc \in ImagePcs => job.kind = "image"
    /\ job.pc \in EnginePcs => job.kind = "engine"
    /\ job.pc = "persist" => job.read \in Registries
    /\ job.pc = "queued" => job.kind \in {"image", "engine"}

AsAsked == \A j \in Jobs : Asked(jobs[j])

(* One import of a kind at a time. *)
OneOfAKind ==
    \A j, k \in Jobs : Working(j) /\ Working(k) /\ jobs[j].kind = jobs[k].kind => j = k

JobsPlaced(source, c) == source[c] # NoContent => comp[c] = source[c]

(* What the job has copied so far is in the package. *)
Copied ==
    \A j \in Jobs :
        /\ jobs[j].pc \in {"tpm_state", "register"} => JobsPlaced(jobs[j].source, "disk")
        /\ jobs[j].pc = "register" => JobsPlaced(jobs[j].source, "tpm_state")

IInv == ImportTypes /\ AsAsked /\ OneOfAKind /\ Copied

LEMMA ImportInit == ImportsInit => IInv
<1> SUFFICES ASSUME ImportsInit PROVE IInv
  OBVIOUS
<1>1. NoImport \in Imported /\ NoImport.pc = "none" /\ NoImport.kind = "none"
  BY DEF NoImport, Imported, RestPcs
<1>2. \A j \in Jobs : jobs[j] = NoImport
  BY DEF ImportsInit
<1>3. ImportTypes
  BY <1>1 DEF ImportsInit, ImportTypes, Package, Registries
<1>4. AsAsked
  BY <1>1, <1>2 DEF AsAsked, Asked, ImagePcs, EnginePcs
<1>5. OneOfAKind /\ Copied
  BY <1>1, <1>2 DEF OneOfAKind, Working, Copied
<1> QED BY <1>3, <1>4, <1>5 DEF IInv

(* A job goes on; the package changes only where its own work is. *)
LEMMA JobStep ==
    ASSUME IInv, NEW j \in Jobs, NEW r \in Imported, jobs' = [jobs EXCEPT ![j] = r],
           registry' \in Registries, comp' \in Package, Asked(r),
           \/ r.pc \in RestPcs
           \/ r.kind = jobs[j].kind /\ (Working(j) \/ LockFree(j)),
           comp' = comp \/ (Working(j) /\ jobs[j].kind = "image"),
           r.pc \in {"tpm_state", "register"} => JobsPlaced(r.source, "disk")',
           r.pc = "register" => JobsPlaced(r.source, "tpm_state")'
    PROVE  IInv'
<1>1. jobs'[j] = r /\ \A k \in Jobs : k # j => jobs'[k] = jobs[k]
  BY DEF IInv, ImportTypes
<1>2. ImportTypes'
  BY DEF IInv, ImportTypes
<1>3. AsAsked'
  BY <1>1 DEF IInv, AsAsked, Asked
<1>4. OneOfAKind'
  <2> SUFFICES ASSUME NEW k \in Jobs, NEW l \in Jobs, Working(k)', Working(l)',
                      jobs'[k].kind = jobs'[l].kind, k # l
               PROVE  FALSE
    BY DEF OneOfAKind
  <2>1. ASSUME NEW m \in Jobs, m # j, Working(m)', Working(j)', jobs'[m].kind = jobs'[j].kind
        PROVE  FALSE
    <3>1. Working(m) /\ jobs'[m].kind = jobs[m].kind /\ r.kind = jobs[j].kind /\ (Working(j) \/ LockFree(j))
      BY <1>1, <2>1 DEF Working, RestPcs
    <3> QED BY <1>1, <2>1, <3>1 DEF IInv, OneOfAKind, LockFree
  <2>2. CASE k # j /\ l # j
    BY <1>1, <2>2 DEF IInv, OneOfAKind, Working
  <2> QED BY <2>1, <2>2
<1>5. Copied'
  <2> SUFFICES ASSUME NEW k \in Jobs
               PROVE  (/\ jobs[k].pc \in {"tpm_state", "register"} => JobsPlaced(jobs[k].source, "disk")
                       /\ jobs[k].pc = "register" => JobsPlaced(jobs[k].source, "tpm_state"))'
    BY DEF Copied
  <2>1. CASE k = j
    BY <1>1, <2>1 DEF JobsPlaced
  <2>2. CASE k # j
    <3>1. CASE comp' = comp
      BY <1>1, <2>2, <3>1 DEF IInv, Copied, JobsPlaced
    <3>2. CASE Working(j) /\ jobs[j].kind = "image"
      <4>1. jobs[k].pc \notin {"tpm_state", "register"}
        BY <2>2, <3>2 DEF IInv, OneOfAKind, AsAsked, Asked, Working, ImagePcs
      <4> QED BY <1>1, <2>2, <4>1
    <3> QED BY <3>1, <3>2
  <2> QED BY <2>1, <2>2
<1> QED BY <1>2, <1>3, <1>4, <1>5 DEF IInv

LEMMA SourcesAre == \A s \in Sources : s \in Package /\ s["disk"] # NoContent
BY ImportsAssumption

LEMMA ImportNext == IInv /\ [ImportsNext]_importVars => IInv'
<1> SUFFICES ASSUME IInv, [ImportsNext]_importVars PROVE IInv'
  OBVIOUS
<1>0. /\ comp \in Package /\ registry \in Registries
      /\ \A j \in Jobs : jobs[j] \in Imported /\ Asked(jobs[j])
  BY DEF IInv, ImportTypes, AsAsked
<1>1. ASSUME NEW j \in Jobs, NEW kind \in {"image", "engine"}, NEW source \in Sources \cup Payloads,
             NEW track \in EngineTracks \cup {NoContent}, StartImport(j, kind, source, track),
             kind = "image" => source \in Sources,
             kind = "engine" => source \in Payloads /\ track \in EngineTracks
      PROVE  IInv'
  <2> DEFINE r == [pc |-> "queued", status |-> "queued", kind |-> kind,
                   source |-> source, track |-> track, read |-> NoContent]
  <2>1. r \in Imported /\ r.pc = "queued" /\ r.kind = kind /\ r.source = source /\ r.track = track
    BY DEF Imported, RestPcs
  <2>2. jobs' = [jobs EXCEPT ![j] = r] /\ UNCHANGED <<comp, registry>>
    BY <1>1 DEF StartImport, storeVars
  <2> HIDE DEF r
  <2>3. Asked(r) /\ r.pc \in RestPcs
    BY <1>1, <2>1 DEF Asked, ImagePcs, EnginePcs, RestPcs
  <2> QED BY <1>0, <2>1, <2>2, <2>3, JobStep
<1>2. ASSUME NEW j \in Jobs, BeginImport(j) PROVE IInv'
  <2> DEFINE pc == IF jobs[j].kind = "image" THEN "disk" ELSE "install"
             r == [jobs[j] EXCEPT !.pc = pc, !.status = "running"]
  <2>0. jobs[j] \in Imported /\ Asked(jobs[j]) /\ jobs[j].pc = "queued"
    BY <1>0, <1>2 DEF BeginImport
  <2>1. /\ r \in Imported /\ r.pc = pc /\ r.kind = jobs[j].kind /\ r.source = jobs[j].source
        /\ r.track = jobs[j].track
    BY <2>0 DEF Imported, ImagePcs, EnginePcs
  <2>2. jobs' = [jobs EXCEPT ![j] = r] /\ UNCHANGED <<comp, registry>> /\ LockFree(j)
    BY <1>2 DEF BeginImport, storeVars
  <2> HIDE DEF r
  <2>3. Asked(r) /\ r.pc \in {"disk", "install"}
    BY <2>0, <2>1 DEF Asked, ImagePcs, EnginePcs
  <2> QED BY <1>0, <2>1, <2>2, <2>3, JobStep
<1>3. ASSUME NEW j \in Jobs, NEW c \in Components, CopyComponent(j, c) PROVE IInv'
  <2> DEFINE pc == IF c = "disk" THEN "tpm_state" ELSE "register"
             r == [jobs[j] EXCEPT !.pc = pc]
             source == jobs[j].source
  <2>0. /\ jobs[j] \in Imported /\ Asked(jobs[j]) /\ jobs[j].pc = c /\ c \in ImagePcs
        /\ c \in {"disk", "tpm_state"}
    BY <1>0, <1>3 DEF CopyComponent, Components, ImagePcs
  <2>1. /\ r \in Imported /\ r.pc = pc /\ r.kind = jobs[j].kind /\ r.source = source
        /\ r.track = jobs[j].track
    BY <2>0 DEF Imported, ImagePcs
  <2>2. jobs' = [jobs EXCEPT ![j] = r] /\ registry' = registry
    BY <1>3 DEF CopyComponent, Goes
  <2> HIDE DEF r
  <2>3. Asked(r) /\ r.kind = "image" /\ Working(j) /\ source \in Sources
    BY <2>0, <2>1 DEF Asked, ImagePcs, EnginePcs, Working
  <2>4. source \in Package
    BY <2>3, SourcesAre
  <2>5. /\ comp' = [comp EXCEPT ![c] = IF source[c] = NoContent THEN @ ELSE source[c]]
        /\ comp' \in Package
    BY <1>0, <1>3, <2>4 DEF CopyComponent, Package
  <2>6. /\ source[c] # NoContent => comp'[c] = source[c]
        /\ \A d \in Components : d # c => comp'[d] = comp[d]
    BY <1>0, <2>4, <2>5 DEF Package
  <2>7. /\ r.pc \in {"tpm_state", "register"} =>
              (r.source["disk"] # NoContent => comp'["disk"] = r.source["disk"])
        /\ r.pc = "register" =>
              (r.source["tpm_state"] # NoContent => comp'["tpm_state"] = r.source["tpm_state"])
    <3>1. CASE c = "disk"
      BY <2>1, <2>6, <3>1
    <3>2. CASE c = "tpm_state"
      <4>1. JobsPlaced(source, "disk")
        BY <2>0, <3>2 DEF IInv, Copied
      <4> QED BY <2>1, <2>6, <3>2, <4>1 DEF JobsPlaced, Components
    <3> QED BY <2>0, <3>1, <3>2
  <2>8. jobs[j].kind = "image" /\ ~(r.pc \in RestPcs)
    BY <2>0, <2>1, <2>3 DEF RestPcs
  <2> HIDE DEF source
  <2> QED BY <1>0, <2>1, <2>2, <2>3, <2>5, <2>7, <2>8, JobStep DEF JobsPlaced
<1>4. ASSUME NEW j \in Jobs, NEW status \in {"complete", "failed"},
             NEW read \in Registries \cup {NoContent},
             jobs' = [jobs EXCEPT ![j].pc = "publish", ![j].status = status, ![j].read = read],
             comp' = comp, registry' \in Registries
      PROVE  IInv'
  <2> DEFINE r == [jobs[j] EXCEPT !.pc = "publish", !.status = status, !.read = read]
  <2>0. jobs[j] \in Imported /\ Asked(jobs[j])
    BY <1>0
  <2>1. /\ r \in Imported /\ r.pc = "publish" /\ r.kind = jobs[j].kind /\ r.source = jobs[j].source
        /\ r.track = jobs[j].track
    BY <2>0 DEF Imported, RestPcs
  <2>2. jobs' = [jobs EXCEPT ![j] = r]
    BY <1>4
  <2> HIDE DEF r
  <2>3. Asked(r) /\ r.pc \in RestPcs
    BY <2>0, <2>1 DEF Asked, ImagePcs, EnginePcs, RestPcs
  <2> QED BY <1>0, <1>4, <2>1, <2>2, <2>3, JobStep
<1>5. ASSUME NEW j \in Jobs, RegisterImage(j) PROVE IInv'
  <2>1. jobs[j] \in Imported /\ UNCHANGED <<comp, registry>>
    BY <1>0, <1>5 DEF RegisterImage
  <2> DEFINE status == IF manifest \in {NoContent, jobs[j].source} THEN "complete" ELSE "failed"
  <2>2. jobs' = [jobs EXCEPT ![j].pc = "publish", ![j].status = status]
    BY <1>5 DEF RegisterImage
  <2>3. jobs' = [jobs EXCEPT ![j].pc = "publish", ![j].status = status, ![j].read = jobs[j].read]
    BY <2>1, <2>2 DEF Imported
  <2>4. jobs[j].read \in Registries \cup {NoContent}
    BY <2>1 DEF Imported
  <2> QED BY <1>0, <1>4, <2>1, <2>3, <2>4
<1>6. ASSUME NEW j \in Jobs, InstallEngine(j) PROVE IInv'
  <2>0. jobs[j] \in Imported /\ Asked(jobs[j]) /\ jobs[j].pc = "install"
    BY <1>0, <1>6 DEF InstallEngine
  <2> DEFINE r == [jobs[j] EXCEPT !.pc = "registry"]
  <2>1. /\ r \in Imported /\ r.pc = "registry" /\ r.kind = jobs[j].kind /\ r.source = jobs[j].source
        /\ r.track = jobs[j].track
    BY <2>0 DEF Imported, EnginePcs
  <2>2. jobs' = [jobs EXCEPT ![j] = r] /\ UNCHANGED <<comp, registry>>
    BY <1>6 DEF InstallEngine, Goes
  <2> HIDE DEF r
  <2>3. Asked(r) /\ Working(j)
    BY <2>0, <2>1 DEF Asked, ImagePcs, EnginePcs, Working
  <2> QED BY <1>0, <2>1, <2>2, <2>3, JobStep
<1>7. ASSUME NEW j \in Jobs, ReadRegistry(j) PROVE IInv'
  <2>0. jobs[j] \in Imported /\ Asked(jobs[j]) /\ jobs[j].pc = "registry"
    BY <1>0, <1>7 DEF ReadRegistry
  <2> DEFINE r == [jobs[j] EXCEPT !.pc = "persist", !.read = registry]
  <2>1. /\ r \in Imported /\ r.pc = "persist" /\ r.kind = jobs[j].kind /\ r.source = jobs[j].source
        /\ r.track = jobs[j].track /\ r.read = registry
    BY <1>0, <2>0 DEF Imported, EnginePcs
  <2>2. jobs' = [jobs EXCEPT ![j] = r] /\ UNCHANGED <<comp, registry>>
    BY <1>7 DEF ReadRegistry, storeVars
  <2> HIDE DEF r
  <2>3. Asked(r) /\ Working(j)
    BY <1>0, <2>0, <2>1 DEF Asked, ImagePcs, EnginePcs, Working
  <2> QED BY <1>0, <2>1, <2>2, <2>3, JobStep
<1>8. ASSUME NEW j \in Jobs, WriteRegistry(j) PROVE IInv'
  <2>1. /\ jobs[j].read \in Registries /\ jobs[j].track \in EngineTracks
        /\ jobs[j].source \in Payloads
    BY <1>0, <1>8 DEF WriteRegistry, Asked, EnginePcs
  <2>2. registry' \in Registries
    BY <1>8, <2>1 DEF WriteRegistry, Registries
  <2> QED BY <1>4, <1>8, <2>2 DEF WriteRegistry
<1>9. ASSUME NEW j \in Jobs, ImportFails(j) PROVE IInv'
  BY <1>0, <1>4, <1>9 DEF ImportFails, storeVars
<1>10. ASSUME NEW j \in Jobs, PublishOutcome(j) PROVE IInv'
  <2>0. jobs[j] \in Imported /\ Asked(jobs[j])
    BY <1>0
  <2> DEFINE r == [jobs[j] EXCEPT !.pc = "ended"]
  <2>1. /\ r \in Imported /\ r.pc = "ended" /\ r.kind = jobs[j].kind /\ r.source = jobs[j].source
        /\ r.track = jobs[j].track
    BY <2>0 DEF Imported, RestPcs
  <2>2. jobs' = [jobs EXCEPT ![j] = r] /\ UNCHANGED <<comp, registry>>
    BY <1>10 DEF PublishOutcome, Goes, storeVars
  <2> HIDE DEF r
  <2>3. Asked(r) /\ r.pc \in RestPcs
    BY <2>0, <2>1 DEF Asked, ImagePcs, EnginePcs, RestPcs
  <2> QED BY <1>0, <2>1, <2>2, <2>3, JobStep
<1>11. CASE UNCHANGED <<comp, registry, jobs>>
  BY <1>11 DEF IInv, ImportTypes, AsAsked, Asked, OneOfAKind, Working, Copied, JobsPlaced
<1>12. CASE KillDaemon
  <2>1. NoImport \in Imported /\ NoImport.pc = "none" /\ NoImport.kind = "none"
    BY DEF NoImport, Imported, RestPcs
  <2>2. jobs' = [j \in Jobs |-> NoImport] /\ UNCHANGED <<comp, registry>>
    BY <1>12 DEF KillDaemon, storeVars
  <2>3. ImportTypes'
    BY <1>0, <2>1, <2>2 DEF ImportTypes
  <2>4. AsAsked' /\ OneOfAKind' /\ Copied'
    BY <2>1, <2>2 DEF AsAsked, Asked, ImagePcs, EnginePcs, OneOfAKind, Working, Copied
  <2> QED BY <2>3, <2>4 DEF IInv
<1>13. ASSUME NEW j \in Jobs, NEW s \in Sources, StartImport(j, "image", s, NoContent) PROVE IInv'
  BY <1>1, <1>13
<1>14. ASSUME NEW j \in Jobs, NEW p \in Payloads, NEW t \in EngineTracks, StartImport(j, "engine", p, t)
       PROVE  IInv'
  BY <1>1, <1>14
<1>15. ASSUME NEW w \in Watchers, NEW j \in Jobs, Subscribe(w, j) PROVE UNCHANGED <<comp, registry, jobs>>
  BY <1>15 DEF Subscribe, storeVars
<1>16. ASSUME NEW w \in Watchers, Receive(w) \/ Disconnect(w) PROVE UNCHANGED <<comp, registry, jobs>>
  BY <1>16 DEF Receive, Disconnect, storeVars
<1>17. ASSUME NEW s \in Sources, RegisterRoute(s) \/ PutImage(s) PROVE UNCHANGED <<comp, registry, jobs>>
  BY <1>17 DEF RegisterRoute, PutImage
<1>18. CASE UNCHANGED importVars
  BY <1>11, <1>18 DEF importVars, storeVars
<1> QED BY <1>2, <1>3, <1>5, <1>6, <1>7, <1>8, <1>9, <1>10, <1>11, <1>12, <1>13, <1>14, <1>15, <1>16,
        <1>17, <1>18 DEF ImportsNext

(* An import that completes has delivered its image, for any number of jobs. *)
THEOREM ImportsDeliver == ImportsSpec => Delivered
<1> DEFINE Step ==
      \A j \in Jobs :
        (jobs[j].kind = "image" /\ jobs[j].status # "complete" /\ jobs'[j].status = "complete")
            => /\ manifest' = jobs[j].source
               /\ \A c \in Components : manifest'[c] # NoContent => comp'[c] = manifest'[c]
<1>1. IInv /\ [ImportsNext]_importVars => [Step]_importVars
  <2> SUFFICES ASSUME IInv, ImportsNext, NEW j \in Jobs, jobs[j].kind = "image",
                      jobs[j].status # "complete", jobs'[j].status = "complete"
               PROVE  /\ manifest' = jobs[j].source
                      /\ \A c \in Components : manifest'[c] # NoContent => comp'[c] = manifest'[c]
    OBVIOUS
  <2>0. /\ jobs \in [Jobs -> Imported] /\ \A k \in Jobs : jobs[k] \in Imported /\ Asked(jobs[k])
    BY DEF IInv, ImportTypes, AsAsked
  <2>1. ASSUME NEW k \in Jobs, RegisterImage(k)
        PROVE  /\ manifest' = jobs[j].source
               /\ \A c \in Components : manifest'[c] # NoContent => comp'[c] = manifest'[c]
    <3>1. k = j
      BY <2>0, <2>1 DEF RegisterImage
    <3>2. manifest' = jobs[j].source /\ jobs[j].pc = "register" /\ comp' = comp
      <4>1. jobs'[j].status = "failed" \/ manifest' = jobs[j].source
        BY <2>0, <2>1, <3>1 DEF RegisterImage, Imported
      <4> QED BY <2>1, <3>1, <4>1 DEF RegisterImage
    <3>3. JobsPlaced(jobs[j].source, "disk") /\ JobsPlaced(jobs[j].source, "tpm_state")
      BY <3>2 DEF IInv, Copied
    <3> QED BY <3>2, <3>3 DEF JobsPlaced, Components
  <2>2. ASSUME NEW k \in Jobs, WriteRegistry(k) PROVE FALSE
    <3>1. jobs[k].kind = "engine"
      BY <2>0, <2>2 DEF WriteRegistry, Asked, EnginePcs
    <3> QED BY <2>0, <2>2, <3>1 DEF WriteRegistry
  <2>3. ASSUME NEW k \in Jobs, jobs'[k].status # "complete" \/ jobs'[k].status = jobs[k].status,
               \A l \in Jobs : l # k => jobs'[l] = jobs[l]
        PROVE  FALSE
    BY <2>3
  <2>4. CASE UNCHANGED jobs
    BY <2>4
  <2>5. ASSUME NEW k \in Jobs, NEW kind, NEW s, NEW t, StartImport(k, kind, s, t) PROVE FALSE
    BY <2>0, <2>3, <2>5 DEF StartImport
  <2>6. ASSUME NEW k \in Jobs,
               BeginImport(k) \/ InstallEngine(k) \/ ReadRegistry(k) \/ ImportFails(k) \/ PublishOutcome(k)
        PROVE  FALSE
    <3>1. jobs[k] \in Imported
      BY <2>0
    <3>2. \A l \in Jobs : l # k => jobs'[l] = jobs[l]
      BY <2>0, <2>6 DEF BeginImport, InstallEngine, ReadRegistry, ImportFails, PublishOutcome, Goes
    <3>3. jobs'[k].status # "complete" \/ jobs'[k].status = jobs[k].status
      BY <2>0, <2>6, <3>1 DEF BeginImport, InstallEngine, ReadRegistry, ImportFails, PublishOutcome, Goes, Imported
    <3> QED BY <2>3, <3>2, <3>3
  <2>7. ASSUME NEW k \in Jobs, NEW c \in Components, CopyComponent(k, c) PROVE FALSE
    <3>1. jobs[k] \in Imported
      BY <2>0
    <3> QED BY <2>0, <2>3, <2>7, <3>1 DEF CopyComponent, Goes, Imported
  <2>8. CASE KillDaemon
    <3>1. jobs'[j] = NoImport
      BY <2>8 DEF KillDaemon
    <3> QED BY <3>1 DEF NoImport
  <2>9. ASSUME NEW w \in Watchers, NEW k \in Jobs, Subscribe(w, k) PROVE UNCHANGED jobs
    BY <2>9 DEF Subscribe
  <2>10. ASSUME NEW w \in Watchers, Receive(w) \/ Disconnect(w) PROVE UNCHANGED jobs
    BY <2>10 DEF Receive, Disconnect
  <2>11. ASSUME NEW s \in Sources, RegisterRoute(s) \/ PutImage(s) PROVE UNCHANGED jobs
    BY <2>11 DEF RegisterRoute, PutImage
  <2> QED BY <2>1, <2>2, <2>4, <2>5, <2>6, <2>7, <2>8, <2>9, <2>10, <2>11 DEF ImportsNext
<1> QED BY <1>1, ImportInit, ImportNext, PTL DEF ImportsSpec, Delivered

-----------------------------------------------------------------------------
(* What the clients of a job learn (publish_import_event,
   stream_image_import_events) *)

EventRec == [seq : Nat \ {0},
             kind : {"none", "progress", "queued", "running", "complete", "failed"}]
Streams == [job : Jobs \cup {NoContent}, joined : BOOLEAN, initial : Seq(EventRec),
            channel : Seq(EventRec), last : Nat, outcome : BOOLEAN]

EventTypes ==
    /\ events \in [Jobs -> Seq(EventRec)] /\ sequence \in [Jobs -> Nat]
    /\ watch \in [Watchers -> Streams]

UpTo(s, n) == \A k \in 1..Len(s) : s[k].seq <= n

(* The events of s tell an outcome; from number n on all of them do. *)
Tells(s) == \E k \in 1..Len(s) : s[k].kind \in Outcomes
Telling(s, n) == \A k \in 1..Len(s) : s[k].seq >= n => s[k].kind \in Outcomes

(* An ended job has its outcome as status, and its last event tells it. *)
Concluded(s) == s # <<>> /\ Telling(s, Last(s).seq)

Ending ==
    \A j \in Jobs :
        /\ UpTo(events[j], sequence[j])
        /\ jobs[j].pc \in {"publish", "ended"} => jobs[j].status \in Outcomes
        /\ jobs[j].pc = "ended" => Concluded(events[j])

(* Nobody has read further than the job has published. Once the job has ended, a
   client that has read up to the last event knows the outcome, and one that has
   an open stream knows it or has it pending. *)
Informed(w, end) ==
    /\ w.last >= end => w.outcome
    /\ Telling(w.initial, end) /\ Telling(w.channel, end)
    /\ w.joined => w.outcome \/ Tells(w.initial) \/ Tells(w.channel)

Bounded(w, n) == w.last <= n /\ UpTo(w.initial, n) /\ UpTo(w.channel, n)

Follows(w) ==
    /\ w.job \in Jobs => Bounded(w, sequence[w.job])
    /\ w.job \in Jobs /\ jobs[w.job].pc = "ended" => Informed(w, Last(events[w.job]).seq)
    /\ w.job \notin Jobs => ~w.joined /\ w.initial = <<>> /\ w.channel = <<>> /\ w.last = 0

Watching == \A w \in Watchers : Follows(watch[w])

SeenInv == EventTypes /\ Ending /\ Watching

(* A set of numbers has a least one. *)
LEMMA Least ==
    ASSUME NEW T, T \subseteq Nat, T # {}
    PROVE  \E x \in T : \A y \in T : x <= y
<1> DEFINE R == OpToRel(<, Nat)
<1>1. IsWellFoundedOn(R, Nat)
  BY NatLessThanWellFounded
<1>2. R = {p \in Nat \X Nat : p[1] < p[2]}
  BY DEF OpToRel
<1> HIDE DEF R
<1>3. PICK x \in T : \A y \in T : ~(<<y, x>> \in R)
  BY <1>1, WFMin
<1>4. ASSUME NEW y \in T PROVE x <= y
  <2>1. ~(y < x)
    BY <1>2, <1>3
  <2> QED BY <2>1
<1> QED BY <1>4

LEMMA LastEvent ==
    ASSUME NEW s \in Seq(EventRec), s # <<>>
    PROVE  /\ Len(s) \in 1..Len(s) /\ Len(s) \in Nat /\ Last(s) = s[Len(s)]
           /\ Last(s) \in EventRec
<1>1. Len(s) \in Nat /\ Len(s) # 0
  BY LenProperties, EmptySeq
<1>2. Len(s) \in 1..Len(s)
  BY <1>1
<1> QED BY <1>1, <1>2, ElementOfSeq DEF Last

(* A replay is of events of the job, with the last one if the cursor is before it. *)
LEMMA AfterIs ==
    ASSUME NEW s \in Seq(EventRec), NEW c \in Nat
    PROVE  /\ After(s, c) \in Seq(EventRec)
           /\ \A k \in 1..Len(After(s, c)) : \E l \in 1..Len(s) : After(s, c)[k] = s[l]
           /\ (s # <<>> /\ Last(s).seq > c =>
                 \E k \in 1..Len(After(s, c)) : After(s, c)[k] = Last(s))
<1> DEFINE n == Len(s)
           T == {m \in 0..n : \A k \in (m + 1)..n : s[k].seq > c}
           a == After(s, c)
<1>1. n \in Nat
  BY LenProperties
<1>2. n \in T /\ T \subseteq Nat
  BY <1>1
<1>3. Min(T) \in T /\ \A y \in T : Min(T) <= y
  BY <1>2, Least DEF Min
<1> DEFINE m == Min(T)
<1>4. m \in 0..n /\ m \in Nat
  BY <1>1, <1>3
<1>5. a = SubSeq(s, m + 1, n)
  BY DEF After
<1>6. (n - 1 \in 0..n /\ s[n].seq > c) => m <= n - 1
  <2> SUFFICES ASSUME n - 1 \in 0..n, s[n].seq > c PROVE m <= n - 1
    OBVIOUS
  <2>1. \A k \in ((n - 1) + 1)..n : k = n
    BY <1>1
  <2>2. n - 1 \in T
    BY <2>1
  <2> QED BY <1>3, <2>2
<1> HIDE DEF m
<1>7. \A k \in (m + 1)..n : k \in 1..n /\ s[k] \in EventRec
  <2>1. \A k \in (m + 1)..n : k \in 1..n
    BY <1>1, <1>4
  <2> QED BY <2>1, ElementOfSeq
<1> HIDE DEF n, a
<1>8. /\ a \in Seq(EventRec)
      /\ Len(a) = IF m + 1 <= n THEN n - (m + 1) + 1 ELSE 0
      /\ \A k \in 1..(n - (m + 1) + 1) : a[k] = s[(m + 1) + k - 1]
  <2> DEFINE b == m + 1
  <2>1. b \in Nat /\ \A k \in b..n : s[k] \in EventRec
    BY <1>4, <1>7
  <2> HIDE DEF b
  <2>2. /\ a \in Seq(EventRec)
        /\ Len(a) = IF b <= n THEN n - b + 1 ELSE 0
        /\ \A k \in 1..(n - b + 1) : a[k] = s[b + k - 1]
    BY <1>1, <1>5, <2>1, SubSeqProperties DEF b
  <2> QED BY <2>2 DEF b
<1>9. Len(a) = n - m /\ \A k \in 1..(n - m) : a[k] = s[m + k] /\ m + k \in 1..n
  <2>1. Len(a) = n - m
    BY <1>1, <1>4, <1>8
  <2>2. ASSUME NEW k \in 1..(n - m) PROVE a[k] = s[m + k] /\ m + k \in 1..n
    <3>1. k \in 1..(n - (m + 1) + 1) /\ (m + 1) + k - 1 = m + k /\ m + k \in 1..n
      BY <1>1, <1>4
    <3> QED BY <1>8, <3>1
  <2> QED BY <2>1, <2>2
<1>10. ASSUME s # <<>>, Last(s).seq > c PROVE \E k \in 1..Len(a) : a[k] = Last(s)
  <2>1. n \in 1..n /\ Last(s) = s[n]
    BY <1>10, LastEvent DEF n
  <2>2. n - 1 \in 0..n /\ s[n].seq > c
    BY <1>1, <1>10, <2>1
  <2>3. n - m \in 1..(n - m) /\ m + (n - m) = n
    BY <1>1, <1>4, <1>6, <2>2
  <2> QED BY <1>9, <2>1, <2>3
<1>11. \A k \in 1..Len(a) : \E l \in 1..n : a[k] = s[l]
  BY <1>9
<1> QED BY <1>8, <1>10, <1>11 DEF a, n

LEMMA Tailing ==
    ASSUME NEW s \in Seq(EventRec), s # <<>>, NEW n \in Nat, NEW end \in Nat
    PROVE  /\ Tail(s) \in Seq(EventRec) /\ Head(s) \in EventRec
           /\ UpTo(s, n) => UpTo(Tail(s), n) /\ Head(s).seq <= n
           /\ Telling(s, end) =>
                 Telling(Tail(s), end) /\ (Head(s).seq >= end => Head(s).kind \in Outcomes)
           /\ Tells(s) => Tells(Tail(s)) \/ Head(s).kind \in Outcomes
<1> DEFINE t == Tail(s)
           l == Len(s)
<1>1. /\ t \in Seq(EventRec) /\ Head(s) \in EventRec
      /\ Len(t) = l - 1 /\ \A k \in 1..Len(t) : t[k] = s[k + 1]
  BY HeadTailProperties
<1>2. l \in Nat \ {0} /\ Head(s) = s[1]
  BY EmptySeq
<1> HIDE DEF t, l
<1>3. /\ \A k \in 1..Len(t) : k + 1 \in 1..l
      /\ \A k \in 1..l : k = 1 \/ (k - 1 \in 1..Len(t) /\ (k - 1) + 1 = k)
      /\ 1 \in 1..l
  BY <1>1, <1>2
<1>4. UpTo(s, n) => UpTo(t, n) /\ Head(s).seq <= n
  BY <1>1, <1>2, <1>3 DEF UpTo, l
<1>5. Telling(s, end) => Telling(t, end) /\ (Head(s).seq >= end => Head(s).kind \in Outcomes)
  BY <1>1, <1>2, <1>3 DEF Telling, l
<1>6. Tells(s) => Tells(t) \/ Head(s).kind \in Outcomes
  <2> SUFFICES ASSUME NEW k \in 1..l, s[k].kind \in Outcomes, k # 1 PROVE Tells(t)
    BY <1>2 DEF Tells, l
  <2>1. k - 1 \in 1..Len(t) /\ t[k - 1] = s[k]
    BY <1>1, <1>3
  <2> QED BY <2>1 DEF Tells
<1> QED BY <1>1, <1>4, <1>5, <1>6 DEF t

LEMMA Appending ==
    ASSUME NEW s \in Seq(EventRec), NEW e \in EventRec, NEW n \in Nat, e.seq = n + 1, UpTo(s, n)
    PROVE  /\ Append(s, e) \in Seq(EventRec) /\ Append(s, e) # <<>> /\ Last(Append(s, e)) = e
           /\ Len(Append(s, e)) = Len(s) + 1
           /\ UpTo(Append(s, e), n + 1)
           /\ e.kind \in Outcomes => Telling(Append(s, e), n + 1) /\ Tells(Append(s, e))
           /\ Telling(s, n + 1)
<1> DEFINE a == Append(s, e)
           l == Len(s)
<1>1. /\ a \in Seq(EventRec) /\ a # <<>> /\ Len(a) = l + 1
      /\ \A k \in 1..l : a[k] = s[k]
      /\ a[l + 1] = e
  BY AppendProperties
<1>2. l \in Nat /\ \A k \in 1..l : s[k] \in EventRec /\ s[k].seq \in Nat /\ s[k].seq <= n
  <2>1. l \in Nat /\ \A k \in 1..l : s[k] \in EventRec
    BY LenProperties, ElementOfSeq
  <2>2. \A k \in 1..l : s[k].seq <= n
    BY DEF UpTo
  <2> QED BY <2>1, <2>2 DEF EventRec
<1>3. Last(a) = e
  BY <1>1 DEF Last
<1> HIDE DEF a, l
<1>4. \A k \in 1..(l + 1) : k = l + 1 \/ k \in 1..l
  BY <1>2
<1>5. l + 1 \in 1..(l + 1)
  BY <1>2
<1>6. UpTo(a, n + 1)
  BY <1>1, <1>2, <1>4 DEF UpTo
<1>7. Telling(s, n + 1)
  BY <1>2 DEF Telling, l
<1>8. ASSUME e.kind \in Outcomes PROVE Telling(a, n + 1) /\ Tells(a)
  <2>1. \A k \in 1..l : ~(s[k].seq >= n + 1)
    BY <1>2
  <2>2. Telling(a, n + 1)
    BY <1>1, <1>4, <1>8, <2>1 DEF Telling
  <2>3. Tells(a)
    BY <1>1, <1>5, <1>8 DEF Tells
  <2> QED BY <2>2, <2>3
<1> QED BY <1>1, <1>3, <1>6, <1>7, <1>8 DEF a, l

(* The history that is kept ends in the new event. *)
Kept(s) == IF Len(s) > EventHistory THEN Tail(s) ELSE s

LEMMA Keeping ==
    ASSUME NEW s \in Seq(EventRec), NEW e \in EventRec, NEW n \in Nat, e.seq = n + 1, UpTo(s, n)
    PROVE  /\ Kept(Append(s, e)) \in Seq(EventRec) /\ UpTo(Kept(Append(s, e)), n + 1)
           /\ Kept(Append(s, e)) # <<>> /\ Last(Kept(Append(s, e))) = e
           /\ e.kind \in Outcomes => Concluded(Kept(Append(s, e)))
<1> DEFINE a == Append(s, e)
<1>1. /\ a \in Seq(EventRec) /\ a # <<>> /\ Last(a) = e /\ Len(a) = Len(s) + 1
      /\ UpTo(a, n + 1) /\ (e.kind \in Outcomes => Telling(a, n + 1))
      /\ Len(s) \in Nat
  BY Appending, LenProperties
<1> HIDE DEF a
<1>2. CASE Len(a) > EventHistory
  <2> DEFINE t == Tail(a)
             l == Len(a)
  <2>1. /\ t \in Seq(EventRec) /\ Len(t) = l - 1 /\ \A k \in 1..Len(t) : t[k] = a[k + 1]
    BY <1>1, HeadTailProperties
  <2>2. /\ UpTo(t, n + 1) /\ (e.kind \in Outcomes => Telling(t, n + 1))
    BY <1>1, Tailing
  <2>3. EventHistory \in Nat \ {0} /\ l > EventHistory /\ l \in Nat
    BY <1>1, <1>2, ImportsAssumption
  <2> HIDE DEF t, l
  <2>4. Len(t) \in 1..Len(t) /\ Len(t) + 1 = l /\ Len(t) # 0
    BY <2>1, <2>3
  <2>5. t # <<>>
    BY <2>4, EmptySeq
  <2>6. Last(t) = e
    BY <1>1, <2>1, <2>4 DEF Last, l
  <2> QED BY <1>2, <2>1, <2>2, <2>5, <2>6 DEF Kept, t, a, Concluded
<1>3. CASE ~(Len(a) > EventHistory)
  BY <1>1, <1>3 DEF Kept, Concluded, a
<1> QED BY <1>2, <1>3

(* What a publication leaves a client of the job: the event in its channel, or
   no stream any more. *)
Delivery(w, e) ==
    IF w.joined
      THEN IF Len(w.channel) < EventChannel THEN [w EXCEPT !.channel = Append(@, e)]
                                            ELSE [w EXCEPT !.joined = FALSE]
      ELSE w

LEMMA Widening ==
    ASSUME NEW s \in Seq(EventRec), NEW n \in Nat, UpTo(s, n)
    PROVE  UpTo(s, n + 1) /\ Telling(s, n + 1)
<1>1. \A k \in 1..Len(s) : s[k] \in EventRec
  BY ElementOfSeq
<1>2. \A k \in 1..Len(s) : s[k].seq \in Nat /\ s[k].seq <= n
  BY <1>1 DEF UpTo, EventRec
<1>3. \A m \in Nat : m <= n => m <= n + 1 /\ ~(m >= n + 1)
  OBVIOUS
<1> QED BY <1>2, <1>3 DEF UpTo, Telling

LEMMA Delivering ==
    ASSUME NEW w \in Streams, NEW e \in EventRec, NEW n \in Nat, e.seq = n + 1, Bounded(w, n)
    PROVE  /\ Delivery(w, e) \in Streams /\ Delivery(w, e).job = w.job
           /\ Bounded(Delivery(w, e), n + 1)
           /\ e.kind \in Outcomes => Informed(Delivery(w, e), n + 1)
<1>0. /\ w.initial \in Seq(EventRec) /\ w.channel \in Seq(EventRec)
      /\ w.last \in Nat /\ w.joined \in BOOLEAN
  BY DEF Streams
<1>1. /\ w.last <= n + 1 /\ ~(w.last >= n + 1)
      /\ UpTo(w.initial, n + 1) /\ Telling(w.initial, n + 1)
      /\ UpTo(w.channel, n + 1) /\ Telling(w.channel, n + 1)
  <2>1. w.last <= n /\ UpTo(w.initial, n) /\ UpTo(w.channel, n)
    BY DEF Bounded
  <2>2. /\ UpTo(w.initial, n + 1) /\ Telling(w.initial, n + 1)
        /\ UpTo(w.channel, n + 1) /\ Telling(w.channel, n + 1)
    BY <1>0, <2>1, Widening
  <2>3. \A m \in Nat : m <= n => m <= n + 1 /\ ~(m >= n + 1)
    OBVIOUS
  <2> QED BY <1>0, <2>1, <2>2, <2>3
<1>2. CASE w.joined /\ Len(w.channel) < EventChannel
  <2> DEFINE c == Append(w.channel, e)
             v == [w EXCEPT !.channel = c]
  <2>1. /\ c \in Seq(EventRec) /\ UpTo(c, n + 1)
        /\ e.kind \in Outcomes => Telling(c, n + 1) /\ Tells(c)
    BY <1>0, Appending DEF Bounded
  <2> HIDE DEF c
  <2>2. v \in Streams
    BY <2>1 DEF Streams
  <2>3. /\ v.job = w.job /\ v.initial = w.initial /\ v.channel = c /\ v.last = w.last
        /\ v.outcome = w.outcome /\ v.joined = w.joined
    BY DEF Streams
  <2>4. Delivery(w, e) = v
    BY <1>2 DEF Delivery, c
  <2> HIDE DEF v
  <2> QED BY <1>1, <2>1, <2>2, <2>3, <2>4 DEF Bounded, Informed
<1>3. CASE w.joined /\ ~(Len(w.channel) < EventChannel)
  <2> DEFINE v == [w EXCEPT !.joined = FALSE]
  <2>1. /\ v \in Streams
        /\ v.job = w.job /\ v.initial = w.initial /\ v.channel = w.channel /\ v.last = w.last
        /\ v.outcome = w.outcome /\ ~v.joined
    BY DEF Streams
  <2>2. Delivery(w, e) = v
    BY <1>3 DEF Delivery
  <2> HIDE DEF v
  <2> QED BY <1>1, <2>1, <2>2 DEF Bounded, Informed
<1>4. CASE ~w.joined
  BY <1>1, <1>4 DEF Delivery, Bounded, Informed
<1> QED BY <1>0, <1>2, <1>3, <1>4

LEMMA PublishSeen ==
    ASSUME SeenInv, NEW j \in Jobs, NEW kind \in {"progress", "complete", "failed"},
           PublishEvent(j, kind), \A k \in Jobs : k # j => jobs'[k] = jobs[k],
           jobs'[j].pc \in {"publish", "ended"} => jobs'[j].status \in Outcomes,
           jobs'[j].pc = "ended" => kind \in Outcomes
    PROVE  SeenInv'
<1> DEFINE n == sequence[j]
           e == [seq |-> n + 1, kind |-> kind]
           kept == Kept(Append(events[j], e))
<1>0. /\ events \in [Jobs -> Seq(EventRec)] /\ sequence \in [Jobs -> Nat]
      /\ watch \in [Watchers -> Streams] /\ n \in Nat /\ events[j] \in Seq(EventRec)
      /\ UpTo(events[j], n)
  BY DEF SeenInv, EventTypes, Ending
<1>1. e \in EventRec /\ e.seq = n + 1 /\ e.kind = kind
  BY <1>0 DEF EventRec
<1>2. /\ sequence' = [sequence EXCEPT ![j] = n + 1]
      /\ events' = [events EXCEPT ![j] = kept]
      /\ \A w \in Watchers : watch'[w] = IF watch[w].job = j THEN Delivery(watch[w], e) ELSE watch[w]
  BY <1>0 DEF PublishEvent, Kept, Delivery
<1>3. watch' = [w \in Watchers |-> watch'[w]]
  BY DEF PublishEvent
<1> HIDE DEF e
<1>4. /\ kept \in Seq(EventRec) /\ UpTo(kept, n + 1) /\ Last(kept) = e
      /\ kind \in Outcomes => Concluded(kept)
  BY <1>0, <1>1, Keeping
<1> HIDE DEF kept, n
<1>5. /\ sequence'[j] = n + 1 /\ events'[j] = kept
      /\ \A k \in Jobs : k # j => sequence'[k] = sequence[k] /\ events'[k] = events[k]
  BY <1>0, <1>2
<1>6. Ending'
  <2> SUFFICES ASSUME NEW k \in Jobs
               PROVE  /\ UpTo(events'[k], sequence'[k])
                      /\ jobs'[k].pc \in {"publish", "ended"} => jobs'[k].status \in Outcomes
                      /\ jobs'[k].pc = "ended" => Concluded(events'[k])
    BY DEF Ending
  <2>1. CASE k = j
    BY <1>4, <1>5, <2>1
  <2>2. CASE k # j
    BY <1>5, <2>2 DEF SeenInv, Ending
  <2> QED BY <2>1, <2>2
<1>7. ASSUME NEW w \in Watchers PROVE watch'[w] \in Streams /\ Follows(watch[w])'
  <2>0. watch[w] \in Streams /\ Follows(watch[w])
    BY <1>0 DEF SeenInv, Watching
  <2>1. CASE watch[w].job = j
    <3>1. watch'[w] = Delivery(watch[w], e)
      BY <1>2, <2>1
    <3>2. Bounded(watch[w], n)
      BY <2>0, <2>1 DEF Follows, n
    <3>3. /\ watch'[w] \in Streams /\ watch'[w].job = j /\ Bounded(watch'[w], n + 1)
          /\ kind \in Outcomes => Informed(watch'[w], n + 1)
      BY <1>0, <1>1, <2>0, <2>1, <3>1, <3>2, Delivering
    <3>4. Last(events'[j]).seq = n + 1
      BY <1>1, <1>4, <1>5
    <3> QED BY <1>5, <3>3, <3>4 DEF Follows
  <2>2. CASE watch[w].job # j
    <3>1. watch'[w] = watch[w]
      BY <1>2, <2>2
    <3> QED BY <1>5, <2>0, <2>2, <3>1 DEF Follows
  <2> QED BY <2>1, <2>2
<1>8. EventTypes'
  <2>1. events' \in [Jobs -> Seq(EventRec)]
    BY <1>0, <1>2, <1>4
  <2>2. sequence' \in [Jobs -> Nat]
    <3>1. n + 1 \in Nat
      BY <1>0
    <3> QED BY <1>0, <1>2, <3>1
  <2>3. watch' \in [Watchers -> Streams]
    BY <1>3, <1>7
  <2> QED BY <2>1, <2>2, <2>3 DEF EventTypes
<1> QED BY <1>6, <1>7, <1>8 DEF SeenInv, Watching

LEMMA IdleSeen ==
    ASSUME SeenInv, UNCHANGED eventVars,
           \A j \in Jobs : /\ jobs'[j].pc = "ended" => jobs[j].pc = "ended"
                           /\ jobs'[j].pc \in {"publish", "ended"} => jobs'[j].status \in Outcomes
    PROVE  SeenInv'
<1>1. EventTypes'
  BY DEF SeenInv, EventTypes, eventVars
<1>2. Ending'
  BY DEF SeenInv, Ending, eventVars
<1>3. Watching'
  BY DEF SeenInv, Watching, Follows, eventVars
<1> QED BY <1>1, <1>2, <1>3 DEF SeenInv

(* A replay tells the outcome of an ended job to a client that does not know it. *)
LEMMA ReplaySeen ==
    ASSUME NEW s \in Seq(EventRec), NEW n \in Nat, NEW c \in Nat, UpTo(s, n)
    PROVE  /\ After(s, c) \in Seq(EventRec) /\ UpTo(After(s, c), n)
           /\ Concluded(s) =>
                 /\ Telling(After(s, c), Last(s).seq)
                 /\ Last(s).seq \in Nat
                 /\ ~(c >= Last(s).seq) => Tells(After(s, c))
<1> DEFINE a == After(s, c)
<1>1. /\ a \in Seq(EventRec)
      /\ \A k \in 1..Len(a) : \E l \in 1..Len(s) : a[k] = s[l]
      /\ (s # <<>> /\ Last(s).seq > c => \E k \in 1..Len(a) : a[k] = Last(s))
  BY AfterIs
<1> HIDE DEF a
<1>2. UpTo(a, n)
  BY <1>1 DEF UpTo
<1>3. ASSUME Concluded(s)
      PROVE  /\ Telling(a, Last(s).seq)
             /\ Last(s).seq \in Nat
             /\ ~(c >= Last(s).seq) => Tells(a)
  <2>1. /\ Len(s) \in 1..Len(s) /\ Last(s) = s[Len(s)] /\ Last(s).seq \in Nat
        /\ s # <<>> /\ Telling(s, Last(s).seq)
    <3>1. s # <<>> /\ Telling(s, Last(s).seq)
      BY <1>3 DEF Concluded
    <3>2. Len(s) \in 1..Len(s) /\ Last(s) = s[Len(s)] /\ Last(s) \in EventRec
      BY <3>1, LastEvent
    <3> QED BY <3>1, <3>2 DEF EventRec
  <2>2. Telling(a, Last(s).seq)
    BY <1>1, <2>1 DEF Telling
  <2>3. Last(s).kind \in Outcomes
    BY <2>1 DEF Telling
  <2>4. ~(c >= Last(s).seq) => Last(s).seq > c
    BY <2>1
  <2> QED BY <1>1, <2>1, <2>2, <2>3, <2>4 DEF Tells
<1> QED BY <1>1, <1>2, <1>3 DEF a

(* One client changes its stream; the job goes at most one number further. *)
LEMMA StreamSeen ==
    ASSUME SeenInv, NEW w \in Watchers, NEW v \in Streams, watch' = [watch EXCEPT ![w] = v],
           sequence' \in [Jobs -> Nat], \A j \in Jobs : sequence[j] <= sequence'[j],
           UNCHANGED <<jobs, events>>,
           v.job \in Jobs => Bounded(v, sequence'[v.job]),
           v.job \in Jobs /\ jobs[v.job].pc = "ended" => Informed(v, Last(events[v.job]).seq),
           v.job \notin Jobs => ~v.joined /\ v.initial = <<>> /\ v.channel = <<>> /\ v.last = 0
    PROVE  SeenInv'
<1>0. /\ events \in [Jobs -> Seq(EventRec)] /\ sequence \in [Jobs -> Nat]
      /\ watch \in [Watchers -> Streams]
  BY DEF SeenInv, EventTypes
<1>1. \A a, b, c \in Nat : a <= b /\ b <= c => a <= c
  OBVIOUS
<1>2. ASSUME NEW s \in Seq(EventRec), NEW j \in Jobs, UpTo(s, sequence[j]) PROVE UpTo(s, sequence'[j])
  <2>1. \A k \in 1..Len(s) : s[k].seq \in Nat
    <3>1. \A k \in 1..Len(s) : s[k] \in EventRec
      BY ElementOfSeq
    <3> QED BY <3>1 DEF EventRec
  <2>2. sequence[j] \in Nat /\ sequence'[j] \in Nat /\ sequence[j] <= sequence'[j]
    BY <1>0
  <2> QED BY <1>1, <1>2, <2>1, <2>2 DEF UpTo
<1>3. EventTypes'
  BY <1>0 DEF EventTypes
<1>4. Ending'
  <2>1. \A j \in Jobs : UpTo(events[j], sequence[j]) /\ events[j] \in Seq(EventRec)
    BY <1>0 DEF SeenInv, Ending
  <2>2. \A j \in Jobs : UpTo(events'[j], sequence'[j])
    BY <1>2, <2>1
  <2> QED BY <2>2 DEF SeenInv, Ending
<1>5. ASSUME NEW u \in Watchers PROVE Follows(watch[u])'
  <2>1. CASE u = w
    <3>1. watch'[u] = v
      BY <1>0, <2>1
    <3> QED BY <3>1 DEF Follows
  <2>2. CASE u # w
    <3>1. watch'[u] = watch[u] /\ watch[u] \in Streams /\ Follows(watch[u])
      BY <1>0, <2>2 DEF SeenInv, Watching
    <3>2. watch[u].initial \in Seq(EventRec) /\ watch[u].channel \in Seq(EventRec) /\ watch[u].last \in Nat
      BY <3>1 DEF Streams
    <3>3. watch[u].job \in Jobs => Bounded(watch[u], sequence'[watch[u].job])
      <4> SUFFICES ASSUME watch[u].job \in Jobs PROVE Bounded(watch[u], sequence'[watch[u].job])
        OBVIOUS
      <4> DEFINE j == watch[u].job
      <4>1. Bounded(watch[u], sequence[j]) /\ j \in Jobs
        BY <3>1 DEF Follows
      <4>2. sequence[j] \in Nat /\ sequence'[j] \in Nat /\ sequence[j] <= sequence'[j]
        BY <1>0, <4>1
      <4> HIDE DEF j
      <4>3. watch[u].last <= sequence'[j]
        BY <1>1, <3>2, <4>1, <4>2 DEF Bounded
      <4>4. UpTo(watch[u].initial, sequence'[j]) /\ UpTo(watch[u].channel, sequence'[j])
        BY <1>2, <3>2, <4>1 DEF Bounded
      <4> QED BY <4>3, <4>4 DEF Bounded, j
    <3> QED BY <3>1, <3>3 DEF Follows
  <2> QED BY <2>1, <2>2
<1> QED BY <1>3, <1>4, <1>5 DEF SeenInv, Watching

LEMMA SubscribeSeen ==
    ASSUME SeenInv, jobs \in [Jobs -> Imported], NEW w \in Watchers, NEW j \in Jobs, Subscribe(w, j)
    PROVE  SeenInv'
<1> DEFINE old == watch[w]
           n == sequence[j]
           fresh == old.last = 0
           shot == [seq |-> n + 1, kind |-> jobs[j].status]
           initial == IF fresh THEN <<shot>> ELSE After(events[j], old.last)
           v == [old EXCEPT !.job = j, !.joined = TRUE, !.initial = initial]
           top == IF fresh THEN n + 1 ELSE n
           end == Last(events[j]).seq
<1>0. /\ events \in [Jobs -> Seq(EventRec)] /\ sequence \in [Jobs -> Nat]
      /\ watch \in [Watchers -> Streams] /\ old \in Streams /\ Follows(old)
      /\ n \in Nat /\ events[j] \in Seq(EventRec) /\ UpTo(events[j], n)
      /\ jobs[j].pc = "ended" => jobs[j].status \in Outcomes /\ Concluded(events[j])
  BY DEF SeenInv, EventTypes, Ending, Watching
<1>1. /\ old.initial = <<>> /\ old.channel = <<>> /\ old.job \in {NoContent, j}
      /\ sequence' = [sequence EXCEPT ![j] = top]
      /\ watch' = [watch EXCEPT ![w] = v]
      /\ UNCHANGED <<jobs, events>>
  BY <1>0 DEF Subscribe
<1>2. shot \in EventRec /\ shot.seq = n + 1 /\ shot.kind = jobs[j].status
  BY <1>0 DEF EventRec, Imported
<1> HIDE DEF shot
<1>3. old.last \in Nat /\ top \in Nat /\ n <= top /\ old.last <= top
  <2>1. old.last \in Nat
    BY <1>0 DEF Streams
  <2>2. old.last <= n
    <3>1. CASE old.job = j
      BY <1>0, <3>1 DEF Follows, Bounded
    <3>2. CASE old.job = NoContent
      BY <1>0, <3>2, ImportsAssumption DEF Follows
    <3> QED BY <1>1, <3>1, <3>2
  <2> QED BY <1>0, <2>1, <2>2
<1>4. jobs[j].pc = "ended" => end \in Nat /\ end <= n
  <2> SUFFICES ASSUME jobs[j].pc = "ended" PROVE end \in Nat /\ end <= n
    OBVIOUS
  <2>1. events[j] # <<>>
    BY <1>0 DEF Concluded
  <2>2. Len(events[j]) \in 1..Len(events[j]) /\ Last(events[j]) = events[j][Len(events[j])]
        /\ Last(events[j]) \in EventRec
    BY <1>0, <2>1, LastEvent
  <2> QED BY <1>0, <2>2 DEF UpTo, EventRec
<1>5. /\ initial \in Seq(EventRec) /\ UpTo(initial, top)
      /\ jobs[j].pc = "ended" =>
            /\ Telling(initial, end)
            /\ ~(old.last >= end) => Tells(initial)
  <2>1. CASE fresh
    <3>1. /\ <<shot>> \in Seq(EventRec) /\ Len(<<shot>>) = 1 /\ <<shot>>[1] = shot
      BY <1>2
    <3>2. 1..1 = {1}
      OBVIOUS
    <3> DEFINE one == <<shot>>
    <3> HIDE DEF one
    <3>3. Len(one) = 1 /\ one[1] = shot /\ 1..1 = {1}
      BY <3>1, <3>2 DEF one
    <3>4. UpTo(one, n + 1)
      BY <1>0, <1>2, <3>3 DEF UpTo
    <3>5. jobs[j].pc = "ended" => Telling(one, end) /\ Tells(one)
      BY <1>0, <1>2, <3>3 DEF Telling, Tells
    <3> QED BY <2>1, <3>1, <3>4, <3>5 DEF one
  <2>2. CASE ~fresh
    <3>1. /\ After(events[j], old.last) \in Seq(EventRec) /\ UpTo(After(events[j], old.last), n)
          /\ Concluded(events[j]) =>
                 /\ Telling(After(events[j], old.last), end)
                 /\ ~(old.last >= end) => Tells(After(events[j], old.last))
      BY <1>0, <1>3, ReplaySeen
    <3> QED BY <1>0, <2>2, <3>1
  <2> QED BY <2>1, <2>2
<1> HIDE DEF initial
<1>6. /\ v \in Streams /\ v.job = j /\ v.joined /\ v.initial = initial /\ v.channel = <<>>
      /\ v.last = old.last /\ v.outcome = old.outcome
  BY <1>0, <1>1, <1>5 DEF Streams
<1> HIDE DEF v
<1>7. /\ sequence'[j] = top /\ sequence' \in [Jobs -> Nat]
      /\ \A k \in Jobs : sequence[k] <= sequence'[k]
  <2>1. /\ sequence'[j] = top /\ sequence' \in [Jobs -> Nat]
        /\ \A k \in Jobs : k # j => sequence'[k] = sequence[k]
    BY <1>0, <1>1, <1>3
  <2>2. \A k \in Jobs : sequence[k] \in Nat
    BY <1>0
  <2>3. \A a \in Nat : a <= a
    OBVIOUS
  <2> QED BY <1>3, <2>1, <2>2, <2>3
<1>8. UpTo(<<>>, top) /\ Telling(<<>>, end)
  <2>1. 1..Len(<<>>) = {}
    BY EmptySeq
  <2> QED BY <2>1 DEF UpTo, Telling
<1>9. ~(old.last >= end) \/ jobs[j].pc # "ended" \/ old.outcome
  <2> SUFFICES ASSUME old.last >= end, jobs[j].pc = "ended" PROVE old.outcome
    OBVIOUS
  <2>1. CASE old.job = j
    BY <1>0, <2>1 DEF Follows, Informed
  <2>2. CASE old.job = NoContent
    <3>1. old.last = 0
      BY <1>0, <2>2, ImportsAssumption DEF Follows
    <3>2. Last(events[j]) \in EventRec
      BY <1>0, LastEvent DEF Concluded
    <3>3. Last(events[j]).seq \in Nat \ {0}
      BY <3>2 DEF EventRec
    <3> QED BY <3>1, <3>3
  <2> QED BY <1>1, <2>1, <2>2
<1>10. Bounded(v, sequence'[j])
  BY <1>3, <1>5, <1>6, <1>7, <1>8 DEF Bounded
<1>11. jobs[j].pc = "ended" => Informed(v, end)
  BY <1>5, <1>6, <1>8, <1>9 DEF Informed
<1> HIDE DEF old, n, top
<1> QED BY <1>1, <1>6, <1>7, <1>10, <1>11, StreamSeen

LEMMA HeadOfConcat ==
    ASSUME NEW s \in Seq(EventRec), NEW t \in Seq(EventRec), s # <<>>
    PROVE  Head(s \o t) = Head(s)
<1> DEFINE p == s \o t
           m == Len(s)
           n == Len(t)
<1>1. m \in Nat \ {0} /\ n \in Nat
  BY EmptySeq, LenProperties
<1>2. /\ p \in Seq(EventRec) /\ Len(p) = m + n
      /\ \A i \in 1..(m + n) : p[i] = IF i <= m THEN s[i] ELSE t[i - m]
  BY ConcatProperties
<1> HIDE DEF p, m, n
<1>3. 1 \in 1..(m + n) /\ 1 <= m /\ m + n # 0
  BY <1>1
<1>4. p[1] = s[1] /\ p # <<>>
  BY <1>2, <1>3, EmptySeq
<1> QED BY <1>2, <1>4 DEF p

LEMMA ReceiveSeen ==
    ASSUME SeenInv, NEW w \in Watchers, Receive(w)
    PROVE  SeenInv'
<1> DEFINE old == watch[w]
           j == old.job
           pending == old.initial \o old.channel
           event == Head(pending)
           initial == IF old.initial = <<>> THEN old.initial ELSE Tail(old.initial)
           channel == IF old.initial = <<>> THEN Tail(old.channel) ELSE old.channel
           outcome == old.outcome \/ event.kind \in Outcomes
           v == [old EXCEPT !.initial = initial, !.channel = channel, !.last = event.seq,
                            !.outcome = outcome]
<1>0. /\ events \in [Jobs -> Seq(EventRec)] /\ sequence \in [Jobs -> Nat]
      /\ watch \in [Watchers -> Streams] /\ old \in Streams /\ Follows(old)
  BY DEF SeenInv, EventTypes, Watching
<1>1. /\ pending # <<>>
      /\ watch' = [watch EXCEPT ![w] = v]
      /\ UNCHANGED <<jobs, events, sequence>>
  BY <1>0 DEF Receive
<1>2. old.initial \in Seq(EventRec) /\ old.channel \in Seq(EventRec) /\ old.outcome \in BOOLEAN
  BY <1>0 DEF Streams
<1>3. /\ old.initial = <<>> => event = Head(old.channel) /\ old.channel # <<>>
      /\ old.initial # <<>> => event = Head(old.initial)
  <2>1. CASE old.initial = <<>>
    BY <1>1, <1>2, <2>1, ConcatEmptySeq
  <2>2. CASE old.initial # <<>>
    <3>1. Head(pending) = Head(old.initial)
      BY <1>2, <2>2, HeadOfConcat
    <3> QED BY <2>2, <3>1
  <2> QED BY <2>1, <2>2
<1>4. j \in Jobs
  BY <1>0, <1>1, <1>2, ConcatEmptySeq DEF Follows
<1> DEFINE n == sequence[j]
           end == Last(events[j]).seq
<1>5. n \in Nat /\ Bounded(old, n) /\ (jobs[j].pc = "ended" => Informed(old, end))
  BY <1>0, <1>4 DEF Follows
<1>6. jobs[j].pc = "ended" => end \in Nat
  <2> SUFFICES ASSUME jobs[j].pc = "ended" PROVE end \in Nat
    OBVIOUS
  <2>1. events[j] # <<>> /\ events[j] \in Seq(EventRec)
    BY <1>0, <1>4 DEF SeenInv, Ending, Concluded
  <2>2. Last(events[j]) \in EventRec
    BY <2>1, LastEvent
  <2> QED BY <2>2 DEF EventRec
<1> HIDE DEF event
<1>7. /\ initial \in Seq(EventRec) /\ channel \in Seq(EventRec) /\ event \in EventRec
      /\ UpTo(initial, n) /\ UpTo(channel, n) /\ event.seq <= n
      /\ jobs[j].pc = "ended" =>
            /\ Telling(initial, end) /\ Telling(channel, end)
            /\ event.seq >= end => outcome
            /\ old.joined => outcome \/ Tells(initial) \/ Tells(channel)
  <2>1. CASE old.initial = <<>>
    <3> DEFINE s == old.channel
    <3>1. s \in Seq(EventRec) /\ s # <<>> /\ event = Head(s) /\ UpTo(s, n)
      BY <1>2, <1>3, <1>5, <2>1 DEF Bounded
    <3>2. initial = old.initial /\ channel = Tail(s)
      BY <2>1
    <3>3. UpTo(initial, n)
      BY <1>5, <3>2 DEF Bounded
    <3>4. jobs[j].pc = "ended" => /\ Telling(initial, end) /\ Telling(s, end)
                                  /\ old.joined => old.outcome \/ Tells(initial) \/ Tells(s)
      BY <1>5, <3>2 DEF Informed
    <3> HIDE DEF s, initial, channel, n, end, old
    <3>5. /\ Tail(s) \in Seq(EventRec) /\ event \in EventRec /\ UpTo(Tail(s), n) /\ event.seq <= n
          /\ Tells(s) => Tells(Tail(s)) \/ event.kind \in Outcomes
      BY <1>5, <3>1, Tailing
    <3>6. jobs[j].pc = "ended" => /\ Telling(Tail(s), end)
                                  /\ event.seq >= end => event.kind \in Outcomes
      BY <1>6, <3>1, <3>4, Tailing
    <3> QED BY <1>2, <3>2, <3>3, <3>4, <3>5, <3>6
  <2>2. CASE old.initial # <<>>
    <3> DEFINE s == old.initial
    <3>1. s \in Seq(EventRec) /\ s # <<>> /\ event = Head(s) /\ UpTo(s, n)
      BY <1>2, <1>3, <1>5, <2>2 DEF Bounded
    <3>2. initial = Tail(s) /\ channel = old.channel
      BY <2>2
    <3>3. UpTo(channel, n)
      BY <1>5, <3>2 DEF Bounded
    <3>4. jobs[j].pc = "ended" => /\ Telling(channel, end) /\ Telling(s, end)
                                  /\ old.joined => old.outcome \/ Tells(s) \/ Tells(channel)
      BY <1>5, <3>2 DEF Informed
    <3> HIDE DEF s, initial, channel, n, end, old
    <3>5. /\ Tail(s) \in Seq(EventRec) /\ event \in EventRec /\ UpTo(Tail(s), n) /\ event.seq <= n
          /\ Tells(s) => Tells(Tail(s)) \/ event.kind \in Outcomes
      BY <1>5, <3>1, Tailing
    <3>6. jobs[j].pc = "ended" => /\ Telling(Tail(s), end)
                                  /\ event.seq >= end => event.kind \in Outcomes
      BY <1>6, <3>1, <3>4, Tailing
    <3> QED BY <1>2, <3>2, <3>3, <3>4, <3>5, <3>6
  <2> QED BY <2>1, <2>2
<1> HIDE DEF initial, channel
<1>8. event.seq \in Nat /\ outcome \in BOOLEAN
  BY <1>2, <1>7 DEF EventRec
<1> HIDE DEF outcome
<1>9. v \in Streams
  BY <1>0, <1>7, <1>8 DEF Streams
<1>10. /\ v.job = j /\ v.joined = old.joined /\ v.initial = initial /\ v.channel = channel
       /\ v.last = event.seq /\ v.outcome = outcome
  BY <1>0 DEF Streams
<1> HIDE DEF v
<1>11. Bounded(v, sequence'[j])
  BY <1>1, <1>7, <1>10 DEF Bounded
<1>12. jobs[j].pc = "ended" => Informed(v, end)
  BY <1>7, <1>10 DEF Informed
<1>13. \A k \in Jobs : sequence[k] <= sequence'[k]
  <2>1. \A k \in Jobs : sequence[k] \in Nat /\ sequence'[k] = sequence[k]
    BY <1>0, <1>1
  <2>2. \A a \in Nat : a <= a
    OBVIOUS
  <2> QED BY <2>1, <2>2
<1> HIDE DEF old, j, n
<1> QED BY <1>0, <1>1, <1>4, <1>9, <1>10, <1>11, <1>12, <1>13, StreamSeen

LEMMA DisconnectSeen ==
    ASSUME SeenInv, NEW w \in Watchers, Disconnect(w)
    PROVE  SeenInv'
<1> DEFINE old == watch[w]
           j == old.job
           v == [old EXCEPT !.joined = FALSE, !.initial = <<>>, !.channel = <<>>]
<1>0. /\ sequence \in [Jobs -> Nat] /\ watch \in [Watchers -> Streams]
      /\ old \in Streams /\ Follows(old)
  BY DEF SeenInv, EventTypes, Watching
<1>1. watch' = [watch EXCEPT ![w] = v] /\ UNCHANGED <<jobs, events, sequence>>
  BY <1>0 DEF Disconnect
<1>2. /\ v \in Streams /\ v.job = j /\ ~v.joined /\ v.initial = <<>> /\ v.channel = <<>>
      /\ v.last = old.last /\ v.outcome = old.outcome
  BY <1>0, EmptySeq DEF Streams
<1> HIDE DEF v
<1>3. \A n : UpTo(<<>>, n) /\ Telling(<<>>, n)
  <2>1. 1..Len(<<>>) = {}
    BY EmptySeq
  <2> QED BY <2>1 DEF UpTo, Telling
<1>4. v.job \in Jobs => Bounded(v, sequence'[v.job])
  BY <1>0, <1>1, <1>2, <1>3 DEF Follows, Bounded
<1>5. v.job \in Jobs /\ jobs[v.job].pc = "ended" => Informed(v, Last(events[v.job]).seq)
  BY <1>0, <1>2, <1>3 DEF Follows, Informed
<1>6. v.job \notin Jobs => v.last = 0
  BY <1>0, <1>2 DEF Follows
<1>7. \A k \in Jobs : sequence[k] <= sequence'[k]
  <2>1. \A k \in Jobs : sequence[k] \in Nat /\ sequence'[k] = sequence[k]
    BY <1>0, <1>1
  <2>2. \A a \in Nat : a <= a
    OBVIOUS
  <2> QED BY <2>1, <2>2
<1> HIDE DEF old, j
<1> QED BY <1>0, <1>1, <1>2, <1>4, <1>5, <1>6, <1>7, StreamSeen

(* Nobody follows anything: at the start, and when the daemon is killed. *)
Unheard ==
    /\ jobs = [j \in Jobs |-> NoImport]
    /\ events = [j \in Jobs |-> <<>>]
    /\ sequence = [j \in Jobs |-> 0]
    /\ watch = [w \in Watchers |-> NoWatch]

LEMMA UnheardSeen == Unheard => SeenInv
<1> SUFFICES ASSUME Unheard PROVE SeenInv
  OBVIOUS
<1>1. /\ NoWatch \in Streams /\ NoWatch.job = NoContent /\ ~NoWatch.joined
      /\ NoWatch.initial = <<>> /\ NoWatch.channel = <<>> /\ NoWatch.last = 0
  BY EmptySeq DEF NoWatch, Streams
<1>2. EventTypes
  BY <1>1, EmptySeq DEF Unheard, EventTypes
<1>3. \A n : UpTo(<<>>, n)
  <2>1. 1..Len(<<>>) = {}
    BY EmptySeq
  <2> QED BY <2>1 DEF UpTo
<1>4. Ending
  BY <1>3 DEF Unheard, Ending, NoImport
<1>5. Watching
  BY <1>1, ImportsAssumption DEF Unheard, Watching, Follows
<1> QED BY <1>2, <1>4, <1>5 DEF SeenInv

LEMMA SeenNext == IInv /\ SeenInv /\ [ImportsNext]_importVars => SeenInv'
<1> SUFFICES ASSUME IInv, SeenInv, [ImportsNext]_importVars PROVE SeenInv'
  OBVIOUS
<1>0. /\ jobs \in [Jobs -> Imported] /\ \A j \in Jobs : jobs[j] \in Imported
      /\ \A j \in Jobs : jobs[j].pc \in {"publish", "ended"} => jobs[j].status \in Outcomes
  BY DEF IInv, ImportTypes, SeenInv, Ending
<1>1. ASSUME NEW j \in Jobs, UNCHANGED eventVars, \A k \in Jobs : k # j => jobs'[k] = jobs[k],
             jobs'[j].pc # "ended", jobs'[j].pc = "publish" => jobs'[j].status \in Outcomes
      PROVE  SeenInv'
  BY <1>0, <1>1, IdleSeen
<1>2. ASSUME NEW j \in Jobs, NEW kind \in {"image", "engine"}, NEW source, NEW track,
             StartImport(j, kind, source, track)
      PROVE  SeenInv'
  BY <1>0, <1>1, <1>2 DEF StartImport
<1>3. ASSUME NEW j \in Jobs, BeginImport(j) PROVE SeenInv'
  <2>1. /\ PublishEvent(j, "progress") /\ \A k \in Jobs : k # j => jobs'[k] = jobs[k]
        /\ jobs'[j].pc \in {"disk", "install"}
    BY <1>0, <1>3 DEF BeginImport, Imported
  <2> QED BY <2>1, PublishSeen
<1>4. ASSUME NEW j \in Jobs, NEW c \in Components, CopyComponent(j, c) PROVE SeenInv'
  <2>1. /\ UNCHANGED eventVars /\ \A k \in Jobs : k # j => jobs'[k] = jobs[k]
        /\ jobs'[j].pc \in {"tpm_state", "register"}
    BY <1>0, <1>4 DEF CopyComponent, Goes, Imported
  <2> QED BY <1>1, <2>1
<1>5. ASSUME NEW j \in Jobs, RegisterImage(j) PROVE SeenInv'
  <2>1. /\ UNCHANGED eventVars /\ \A k \in Jobs : k # j => jobs'[k] = jobs[k]
        /\ jobs'[j].pc = "publish" /\ jobs'[j].status \in Outcomes
    BY <1>0, <1>5 DEF RegisterImage, Imported, Outcomes
  <2> QED BY <1>1, <2>1
<1>6. ASSUME NEW j \in Jobs, InstallEngine(j) \/ ReadRegistry(j) PROVE SeenInv'
  <2>1. /\ UNCHANGED eventVars /\ \A k \in Jobs : k # j => jobs'[k] = jobs[k]
        /\ jobs'[j].pc \in {"registry", "persist"}
    BY <1>0, <1>6 DEF InstallEngine, ReadRegistry, Goes, Imported
  <2> QED BY <1>1, <2>1
<1>7. ASSUME NEW j \in Jobs, WriteRegistry(j) \/ ImportFails(j) PROVE SeenInv'
  <2>1. /\ UNCHANGED eventVars /\ \A k \in Jobs : k # j => jobs'[k] = jobs[k]
        /\ jobs'[j].pc = "publish" /\ jobs'[j].status \in Outcomes
    BY <1>0, <1>7 DEF WriteRegistry, ImportFails, Imported, Outcomes
  <2> QED BY <1>1, <2>1
<1>8. ASSUME NEW j \in Jobs, PublishOutcome(j) PROVE SeenInv'
  <2>1. /\ PublishEvent(j, jobs[j].status) /\ \A k \in Jobs : k # j => jobs'[k] = jobs[k]
        /\ jobs'[j].status = jobs[j].status
    BY <1>0, <1>8 DEF PublishOutcome, Goes, Imported
  <2>2. jobs[j].status \in Outcomes
    BY <1>0, <1>8 DEF PublishOutcome
  <2>3. jobs[j].status \in {"progress", "complete", "failed"}
    BY <2>2 DEF Outcomes
  <2> QED BY <2>1, <2>2, <2>3, PublishSeen
<1>9. CASE UNCHANGED <<jobs, eventVars>>
  BY <1>0, <1>9, IdleSeen
<1>10. ASSUME NEW s \in Sources, RegisterRoute(s) \/ PutImage(s) PROVE SeenInv'
  BY <1>9, <1>10 DEF RegisterRoute, PutImage
<1>11. CASE KillDaemon
  <2>1. Unheard'
    BY <1>11 DEF KillDaemon, Unheard
  <2>2. Unheard' => SeenInv'
    BY UnheardSeen, PTL
  <2> QED BY <2>1, <2>2
<1>12. CASE UNCHANGED importVars
  BY <1>9, <1>12 DEF importVars
<1>13. ASSUME NEW j \in Jobs, NEW w \in Watchers, Subscribe(w, j) PROVE SeenInv'
  BY <1>0, <1>13, SubscribeSeen
<1>14. ASSUME NEW w \in Watchers, Receive(w) \/ Disconnect(w) PROVE SeenInv'
  BY <1>14, ReceiveSeen, DisconnectSeen
<1> QED BY <1>2, <1>3, <1>4, <1>5, <1>6, <1>7, <1>8, <1>10, <1>11, <1>12, <1>13, <1>14
       DEF ImportsNext

(* A client that has read all its open stream holds knows how an ended job ended,
   for any sizes of the history and of a channel (publish_import_event,
   stream_image_import_events). *)
THEOREM OutcomesLearned == ImportsSpec => []OutcomeSeen
<1>1. SeenInv => OutcomeSeen
  <2> SUFFICES ASSUME SeenInv, NEW w \in Watchers, watch[w].joined,
                      watch[w].initial \o watch[w].channel = <<>>,
                      jobs[watch[w].job].pc = "ended"
               PROVE  watch[w].outcome
    BY DEF OutcomeSeen
  <2> DEFINE v == watch[w]
  <2>1. v \in Streams /\ Follows(v)
    BY DEF SeenInv, EventTypes, Watching
  <2>2. v.initial \in Seq(EventRec) /\ v.channel \in Seq(EventRec)
    BY <2>1 DEF Streams
  <2>3. v.outcome \/ Tells(v.initial) \/ Tells(v.channel)
    BY <2>1 DEF Follows, Informed
  <2>4. Len(v.initial) = 0 /\ Len(v.channel) = 0
    <3>1. Len(v.initial) \in Nat /\ Len(v.channel) \in Nat
          /\ Len(v.initial) + Len(v.channel) = Len(v.initial \o v.channel)
      BY <2>2, LenProperties, ConcatProperties
    <3>2. Len(v.initial \o v.channel) = 0
      BY EmptySeq
    <3>3. \A a, b \in Nat : a + b = 0 => a = 0 /\ b = 0
      OBVIOUS
    <3> HIDE DEF v
    <3> QED BY <3>1, <3>2, <3>3
  <2>5. ~Tells(v.initial) /\ ~Tells(v.channel)
    BY <2>4 DEF Tells
  <2> QED BY <2>3, <2>5
<1>2. ImportsInit => SeenInv
  BY UnheardSeen DEF ImportsInit, Unheard
<1> QED BY <1>1, <1>2, ImportInit, ImportNext, SeenNext, PTL DEF ImportsSpec
=============================================================================
