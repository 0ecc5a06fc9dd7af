------------------------------- MODULE Imports -------------------------------
(***************************************************************************)
(* Import jobs of images and engines (api/images.rs, api/engines.rs,       *)
(* engine_import.rs, core/storage/images.rs): a job copies the components  *)
(* of an image into the package of its id and registers a manifest with    *)
(* their digests, or installs an engine and rewrites the registry. Clients *)
(* follow a job through an event stream. One image id; contents stand for  *)
(* their digests.                                                          *)
(***************************************************************************)
EXTENDS Naturals, Sequences, SequencesExt

CONSTANTS
    Jobs,           \* import jobs
    Watchers,       \* clients of the event streams
    Contents,       \* contents of a component
    EngineTracks,   \* engine tracks
    Payloads,       \* identities of engine payloads
    NoContent,      \* absent
    EventHistory,   \* events kept for each job: 512 in the code
    EventChannel,   \* capacity of a subscriber's channel: 64 in the code
    MaxEvents,      \* bound on the events of a job
    Kinds,          \* which imports are requested
    Sources         \* base directories and manifests: a disk, perhaps a TPM state

Components == {"disk", "tpm_state"}
Package == [Components -> Contents \union {NoContent}]

ASSUME ImportsAssumption ==
    /\ {EventHistory, EventChannel} \subseteq Nat \ {0} /\ MaxEvents \in Nat
    /\ Sources \subseteq {s \in Package : s["disk"] # NoContent}
    /\ NoContent \notin Jobs

VARIABLES
    comp,           \* component -> its file in the package
    manifest,       \* the manifest of the image, if it is registered
    installed,      \* engine directories: track and identity
    registry,       \* registry.json: track -> identity
    jobs,           \* job -> its worker and its status
    events,         \* job -> the last events
    sequence,       \* job -> the last sequence number
    watch           \* client -> its stream

storeVars == <<comp, manifest, installed, registry>>
eventVars == <<events, sequence, watch>>
importVars == <<storeVars, jobs, eventVars>>

NoImport == [pc |-> "none", status |-> "none", kind |-> "none", source |-> NoContent,
             track |-> NoContent, read |-> NoContent]
NoWatch == [job |-> NoContent, joined |-> FALSE, initial |-> <<>>, channel |-> <<>>,
            last |-> 0, outcome |-> FALSE]

ImportsInit ==
    /\ comp = [c \in Components |-> NoContent]
    /\ manifest = NoContent
    /\ installed = {}
    /\ registry = [t \in EngineTracks |-> NoContent]
    /\ jobs = [j \in Jobs |-> NoImport]
    /\ events = [j \in Jobs |-> <<>>]
    /\ sequence = [j \in Jobs |-> 0]
    /\ watch = [w \in Watchers |-> NoWatch]

-----------------------------------------------------------------------------
(* Events of a job *)

Goes(j, pc) == jobs' = [jobs EXCEPT ![j].pc = pc]

(* Mutant: a full channel loses the event but keeps its subscriber. *)
PublishLossy(j, kind) ==
    LET event == [seq |-> sequence[j] + 1, kind |-> kind]
        Room(w) == Len(watch[w].channel) < EventChannel
        kept == Append(events[j], event)
    IN /\ sequence' = [sequence EXCEPT ![j] = @ + 1]
       /\ events' = [events EXCEPT ![j] = IF Len(kept) > EventHistory THEN Tail(kept) ELSE kept]
       /\ watch' = [w \in Watchers |->
            IF watch[w].joined /\ watch[w].job = j /\ Room(w)
              THEN [watch[w] EXCEPT !.channel = Append(@, event)]
              ELSE watch[w]]

(* publish_import_event: a subscriber without room is dropped. *)
PublishEvent(j, kind) ==
    LET event == [seq |-> sequence[j] + 1, kind |-> kind]
        Room(w) == Len(watch[w].channel) < EventChannel
        kept == Append(events[j], event)
    IN /\ sequence' = [sequence EXCEPT ![j] = @ + 1]
       /\ events' = [events EXCEPT ![j] = IF Len(kept) > EventHistory THEN Tail(kept) ELSE kept]
       /\ watch' = [w \in Watchers |->
            IF watch[w].joined /\ watch[w].job = j
              THEN IF Room(w) THEN [watch[w] EXCEPT !.channel = Append(@, event)]
                              ELSE [watch[w] EXCEPT !.joined = FALSE]
              ELSE watch[w]]

(* The events after a cursor: they are in the order of their numbers. *)
After(s, cursor) ==
    LET passed == {m \in 0..Len(s) : \A k \in (m + 1)..Len(s) : s[k].seq > cursor}
    IN  SubSeq(s, Min(passed) + 1, Len(s))

(* stream_image_import_events: with a cursor the events after it, without one
   a snapshot of the status under a number of its own. *)
Subscribe(w, j) ==
    /\ jobs[j].pc # "none"
    /\ watch[w].last = 0 => sequence[j] < MaxEvents
    /\ ~watch[w].joined /\ watch[w].initial = <<>> /\ watch[w].channel = <<>>
    /\ watch[w].job \in {NoContent, j}
    /\ LET fresh == watch[w].last = 0
           number == sequence[j] + 1
           replay == After(events[j], watch[w].last)
       IN /\ sequence' = [sequence EXCEPT ![j] = IF fresh THEN number ELSE @]
          /\ watch' = [watch EXCEPT ![w].job = j, ![w].joined = TRUE,
                ![w].initial = IF fresh THEN <<[seq |-> number, kind |-> jobs[j].status]>> ELSE replay]
    /\ UNCHANGED <<storeVars, jobs, events>>

Outcomes == {"complete", "failed"}

(* The stream yields the next event; the client keeps its number. *)
Receive(w) ==
    /\ LET pending == watch[w].initial \o watch[w].channel
           event == Head(pending)
       IN /\ pending # <<>>
          /\ watch' = [watch EXCEPT
                ![w].initial = IF @ = <<>> THEN @ ELSE Tail(@),
                ![w].channel = IF watch[w].initial = <<>> THEN Tail(@) ELSE @,
                ![w].last = event.seq,
                ![w].outcome = @ \/ event.kind \in Outcomes]
    /\ UNCHANGED <<storeVars, jobs, events, sequence>>

(* The client loses its connection; it may come back with its cursor. *)
Disconnect(w) ==
    /\ watch[w].joined
    /\ watch' = [watch EXCEPT ![w].joined = FALSE, ![w].initial = <<>>, ![w].channel = <<>>]
    /\ UNCHANGED <<storeVars, jobs, events, sequence>>

-----------------------------------------------------------------------------
(* Jobs *)

Working(j) == jobs[j].pc \notin {"none", "queued", "publish", "ended"}

(* Mutant: imports of a kind run side by side. *)
LockFreeShared(j) == TRUE

(* The workspace mutex for images, IMPORT_LOCK for engines. *)
LockFree(j) == \A k \in Jobs \ {j} : ~(Working(k) /\ jobs[k].kind = jobs[j].kind)

(* POST: the job is inserted and its worker spawned. *)
StartImport(j, kind, source, track) ==
    /\ jobs[j].pc = "none"
    /\ jobs' = [jobs EXCEPT ![j] = [pc |-> "queued", status |-> "queued", kind |-> kind,
                                  source |-> source, track |-> track, read |-> NoContent]]
    /\ UNCHANGED <<storeVars, eventVars>>

(* The worker gets its lock. One event stands for all it reports on the way. *)
BeginImport(j) ==
    /\ jobs[j].pc = "queued"
    /\ LockFree(j)
    /\ jobs' = [jobs EXCEPT ![j].pc = IF jobs[j].kind = "image" THEN "disk" ELSE "install",
                          ![j].status = "running"]
    /\ PublishEvent(j, "progress")
    /\ UNCHANGED storeVars

(* copy_component_with_progress: a temporary file is renamed over the component,
   without a look at what is there. A source without the file skips it. *)
CopyComponent(j, c) ==
    /\ jobs[j].pc = c
    /\ comp' = [comp EXCEPT ![c] = IF jobs[j].source[c] = NoContent THEN @ ELSE jobs[j].source[c]]
    /\ Goes(j, IF c = "disk" THEN "tpm_state" ELSE "register")
    /\ UNCHANGED <<manifest, installed, registry, eventVars>>

(* register_image: a new manifest is linked in place, an equal one is kept;
   another one is an ImageConflict. Then the row, and finish_import. *)
RegisterImage(j) ==
    /\ jobs[j].pc = "register"
    /\ IF manifest \in {NoContent, jobs[j].source}
         THEN /\ manifest' = jobs[j].source
              /\ jobs' = [jobs EXCEPT ![j].pc = "publish", ![j].status = "complete"]
         ELSE /\ jobs' = [jobs EXCEPT ![j].pc = "publish", ![j].status = "failed"]
              /\ UNCHANGED manifest
    /\ UNCHANGED <<comp, installed, registry, eventVars>>

(* engine_import::import up to the rename: the payload is extracted to a staging
   directory, verified and installed; an installed one is reused. *)
InstallEngine(j) ==
    /\ jobs[j].pc = "install"
    /\ installed' = installed \union {<<jobs[j].track, jobs[j].source>>}
    /\ Goes(j, "registry")
    /\ UNCHANGED <<comp, manifest, registry, eventVars>>

(* registered(): the registry is read, *)
ReadRegistry(j) ==
    /\ jobs[j].pc = "registry"
    /\ jobs' = [jobs EXCEPT ![j].pc = "persist", ![j].read = registry]
    /\ UNCHANGED <<storeVars, eventVars>>

(* and replaced, last of all. *)
WriteRegistry(j) ==
    /\ jobs[j].pc = "persist"
    /\ registry' = [jobs[j].read EXCEPT ![jobs[j].track] = jobs[j].source]
    /\ jobs' = [jobs EXCEPT ![j].pc = "publish", ![j].status = "complete", ![j].read = NoContent]
    /\ UNCHANGED <<comp, manifest, installed, eventVars>>

(* Any call of the worker fails: fail_import. *)
ImportFails(j) ==
    /\ Working(j)
    /\ jobs' = [jobs EXCEPT ![j].pc = "publish", ![j].status = "failed", ![j].read = NoContent]
    /\ UNCHANGED <<storeVars, eventVars>>

(* The last event of the job. *)
PublishOutcome(j) ==
    /\ jobs[j].pc = "publish"
    /\ Goes(j, "ended")
    /\ PublishEvent(j, jobs[j].status)
    /\ UNCHANGED storeVars

-----------------------------------------------------------------------------
(* Other writers of manifests, each under the workspace mutex *)

MutexFree == \A j \in Jobs : ~(Working(j) /\ jobs[j].kind = "image")

(* POST /images: the digests are what the client says. *)
RegisterRoute(claimed) ==
    /\ MutexFree
    /\ manifest = NoContent
    /\ manifest' = claimed
    /\ UNCHANGED <<comp, installed, registry, jobs, eventVars>>

(* PUT /images: replace_image_manifest. *)
PutImage(claimed) ==
    /\ MutexFree
    /\ manifest \notin {NoContent, claimed}
    /\ manifest' = claimed
    /\ UNCHANGED <<comp, installed, registry, jobs, eventVars>>

(* The daemon is killed: jobs and streams are gone, files stay as they are. *)
KillDaemon ==
    /\ \E j \in Jobs : jobs[j].pc # "none"
    /\ jobs' = [j \in Jobs |-> NoImport]
    /\ events' = [j \in Jobs |-> <<>>]
    /\ sequence' = [j \in Jobs |-> 0]
    /\ watch' = [w \in Watchers |-> NoWatch]
    /\ UNCHANGED storeVars

ImportsNext ==
    \/ \E j \in Jobs :
        \/ "image" \in Kinds /\ \E s \in Sources : StartImport(j, "image", s, NoContent)
        \/ "engine" \in Kinds /\ \E p \in Payloads, t \in EngineTracks : StartImport(j, "engine", p, t)
        \/ BeginImport(j) \/ RegisterImage(j)
        \/ \E c \in Components : CopyComponent(j, c)
        \/ InstallEngine(j) \/ ReadRegistry(j) \/ WriteRegistry(j)
        \/ ImportFails(j) \/ PublishOutcome(j)
        \/ \E w \in Watchers : Subscribe(w, j)
    \/ \E w \in Watchers : Receive(w) \/ Disconnect(w)
    \/ "image" \in Kinds /\ \E s \in Sources : RegisterRoute(s) \/ PutImage(s)
    \/ KillDaemon

ImportsSpec == ImportsInit /\ [][ImportsNext]_importVars

-----------------------------------------------------------------------------
(* An import that completes has delivered: the manifest is that of its source,
   and every component it names is the file in the package, whatever other
   imports of the same id did meanwhile (import_vmmanager_base_job). *)
Delivered ==
    [][\A j \in Jobs :
        (jobs[j].kind = "image" /\ jobs[j].status # "complete" /\ jobs'[j].status = "complete")
            => /\ manifest' = jobs[j].source
               /\ \A c \in Components : manifest'[c] # NoContent => comp'[c] = manifest'[c]]_importVars

(* A client that has read everything its open stream holds knows how an ended
   job ended, however slow it was and however often it reconnected
   (publish_import_event, stream_image_import_events). *)
OutcomeSeen ==
    \A w \in Watchers :
        (/\ watch[w].joined
         /\ watch[w].initial \o watch[w].channel = <<>>
         /\ jobs[watch[w].job].pc = "ended") => watch[w].outcome
=============================================================================
