------------------------------ MODULE Documents ------------------------------
(***************************************************************************)
(* The configuration document of one instance                              *)
(* (core/storage/configuration.rs, api/documents.rs). Clients read the     *)
(* document with a revision, a digest of its content, and replace it or    *)
(* its engine under that revision; a start reads it; an operator edits the *)
(* file beside the daemon. A write is a temporary file and a rename.       *)
(***************************************************************************)
EXTENDS Naturals, FiniteSets

CONSTANTS
    Editors,        \* clients of the configuration routes
    Bodies,         \* contents of the domain document besides its engine
    Tracks,         \* engine builds
    Compatible,     \* builds the saved image, profile and identity admit
    NoDocument      \* no document

ASSUME DocumentsAssumption == Compatible \subseteq Tracks /\ Compatible # {} /\ Bodies # {}
ASSUME StartAssumption == "start" \notin Editors

Document == [body : Bodies, engine : Tracks]

VARIABLES
    doc,            \* instance.yaml
    launched,       \* the document the active run was started from
    docGate,        \* tasks that hold the gate of the instance: at most one
    ed,             \* client -> its request
    starting,       \* the document a start has loaded
    edited,         \* an operator has edited the file since the launch
    raced           \* clients that lost a race against an operator's edit

docVars == <<doc, launched, docGate, ed, starting, edited, raced>>

(* A client: what it has read, and what its request is about to rename. *)
Idle == [pc |-> "idle", base |-> NoDocument, new |-> NoDocument]

DocumentsInit ==
    /\ doc = [body |-> CHOOSE b \in Bodies : TRUE, engine |-> CHOOSE t \in Compatible : TRUE]
    /\ launched = NoDocument
    /\ docGate = {}
    /\ ed = [e \in Editors |-> Idle]
    /\ starting = NoDocument
    /\ edited = FALSE
    /\ raced = {}

(* The state check of put_instance_config and upgrade_instance_engine. *)
Stopped == launched = NoDocument

(* GET: the document and its revision, without the gate. *)
GetInstanceConfig(e) ==
    /\ ed[e].pc \in {"idle", "read"}
    /\ ed' = [ed EXCEPT ![e] = [Idle EXCEPT !.pc = "read", !.base = doc]]
    /\ UNCHANGED <<doc, launched, docGate, starting, edited, raced>>

Refuse(e) ==
    /\ ed' = [ed EXCEPT ![e] = Idle]
    /\ UNCHANGED <<doc, launched, docGate, starting, edited, raced>>

(* Mutant: the route does not take the gate of the instance. *)
PutInstanceConfigUngated(e, new) ==
    /\ ed[e].pc = "read"
    /\ IF Stopped /\ ed[e].base = doc
         THEN /\ ed' = [ed EXCEPT ![e].pc = "replace", ![e].new = new]
              /\ UNCHANGED <<doc, launched, docGate, starting, edited, raced>>
         ELSE Refuse(e)

(* PUT: under the gate, of a stopped instance, under the current revision. *)
PutInstanceConfig(e, new) ==
    /\ ed[e].pc = "read"
    /\ docGate = {}
    /\ IF Stopped /\ ed[e].base = doc
         THEN /\ ed' = [ed EXCEPT ![e].pc = "replace", ![e].new = new]
              /\ docGate' = {e}
              /\ UNCHANGED <<doc, launched, starting, edited, raced>>
         ELSE Refuse(e)

(* Mutant: the replacement trusts the check of its caller. *)
ReplaceDomainDocumentBlind(e) ==
    /\ ed[e].pc = "replace"
    /\ ed' = [ed EXCEPT ![e].pc = "rename"]
    /\ raced' = raced \ {e}
    /\ UNCHANGED <<doc, launched, docGate, starting, edited>>

(* replace_domain_document reads the document again and compares. *)
ReplaceDomainDocument(e) ==
    /\ ed[e].pc = "replace"
    /\ IF ed[e].base = doc
         THEN /\ ed' = [ed EXCEPT ![e].pc = "rename"]
              /\ UNCHANGED docGate
         ELSE /\ ed' = [ed EXCEPT ![e] = Idle]
              /\ docGate' = docGate \ {e}
    /\ raced' = raced \ {e}
    /\ UNCHANGED <<doc, launched, starting, edited>>

(* upgrade_instance_engine: the saved compatibility lists admit the build, and
   it differs from the pinned one. *)
UpgradeInstanceEngine(e, track) ==
    /\ ed[e].pc = "read"
    /\ docGate = {}
    /\ IF Stopped /\ ed[e].base = doc /\ track \in Compatible /\ track # doc.engine
         THEN /\ ed' = [ed EXCEPT ![e].pc = "rename", ![e].new = [doc EXCEPT !.engine = track]]
              /\ docGate' = {e}
              /\ raced' = raced \ {e}
              /\ UNCHANGED <<doc, launched, starting, edited>>
         ELSE Refuse(e)

(* write_instance_document_at: temporary file, rename, new revision. *)
WriteInstanceDocument(e) ==
    /\ ed[e].pc = "rename"
    /\ doc' = ed[e].new
    /\ ed' = [ed EXCEPT ![e] = Idle]
    /\ docGate' = docGate \ {e}
    /\ UNCHANGED <<launched, starting, edited, raced>>

(* The write fails, or the daemon is killed before the rename. *)
WriteFails(e) ==
    /\ ed[e].pc \in {"replace", "rename"}
    /\ ed' = [ed EXCEPT ![e] = Idle]
    /\ docGate' = docGate \ {e}
    /\ UNCHANGED <<doc, launched, starting, edited, raced>>

(* A start takes the gate, loads the document, and launches what it loaded. *)
StartLoads ==
    /\ docGate = {}
    /\ launched = NoDocument
    /\ docGate' = {"start"}
    /\ starting' = doc
    /\ edited' = FALSE
    /\ UNCHANGED <<doc, launched, ed, raced>>

StartLaunches ==
    /\ starting # NoDocument
    /\ docGate' = docGate \ {"start"}
    /\ launched' = starting
    /\ starting' = NoDocument
    /\ UNCHANGED <<doc, ed, edited, raced>>

StopReturns ==
    /\ docGate = {}
    /\ launched # NoDocument
    /\ launched' = NoDocument
    /\ UNCHANGED <<doc, docGate, ed, starting, edited, raced>>

(* An operator saves the file with an editor, at any time. *)
OperatorEdits(new) ==
    /\ new # doc
    /\ doc' = new
    /\ edited' = TRUE
    /\ raced' = raced \union {e \in Editors : ed[e].pc = "rename"}
    /\ UNCHANGED <<launched, docGate, ed, starting>>

DocumentsNext ==
    \/ \E e \in Editors :
        \/ GetInstanceConfig(e)
        \/ \E new \in Document : PutInstanceConfig(e, new)
        \/ \E track \in Tracks : UpgradeInstanceEngine(e, track)
        \/ ReplaceDomainDocument(e)
        \/ WriteInstanceDocument(e)
        \/ WriteFails(e)
    \/ StartLoads
    \/ StartLaunches
    \/ StopReturns
    \/ \E new \in Document : OperatorEdits(new)

DocumentsSpec == DocumentsInit /\ [][DocumentsNext]_docVars

-----------------------------------------------------------------------------
(* No lost update: a client's write replaces the document the client has read,
   whoever else wrote in between, except for an operator's edit that falls
   between the comparison and the rename (replace_domain_document). *)
NoLostUpdate ==
    [][\A e \in Editors :
        (ed[e].pc = "rename" /\ doc' # doc /\ ed'[e].pc = "idle")
            => (ed[e].base = doc \/ e \in raced)]_docVars

(* While a run is active, or being launched, its document is the one it was
   started from: no route changes it, only an operator's editor does
   (put_instance_config, upgrade_instance_engine). *)
Frozen ==
    \A d \in {launched, starting} \ {NoDocument} : d = doc \/ edited
=============================================================================
