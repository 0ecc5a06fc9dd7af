----------------------------- MODULE MCWorkspace -----------------------------
(***************************************************************************)
(* The workspace for TLC. Configuration documents, lock and conversion,    *)
(* import jobs, the instances in the store and the plan of one start share *)
(* no state in the model: a behaviour is one of them, with the other parts *)
(* at rest.                                                                *)
(***************************************************************************)
EXTENDS Documents, Workspace, Imports, Store, MCPlan

CONSTANTS x, y      \* two contents

VARIABLE part       \* the part that moves

MCSources == {[disk |-> x, tpm_state |-> x], [disk |-> y, tpm_state |-> NoContent]}

AnyRequest ==
    Request([machine |-> "q35", devices |-> [with |-> {}]] @@ User, <<>>, <<>>, PcImage, {5900})

WorkspacePartsInit ==
    /\ part \in {"documents", "lock", "imports", "store", "plan"}
    /\ IF part = "store" THEN TRUE ELSE dirs = [i \in Instances |-> Absent]
    /\ IF part = "plan" THEN TRUE ELSE request = AnyRequest
    /\ DocumentsInit /\ WorkspaceInit /\ ImportsInit /\ Init /\ PlanInit

WorkspacePartsNext ==
    \/ part = "documents" /\ DocumentsNext /\ UNCHANGED <<part, workspaceVars, importVars, vars, planVars>>
    \/ part = "lock" /\ WorkspaceNext /\ UNCHANGED <<part, docVars, importVars, vars, planVars>>
    \/ part = "imports" /\ ImportsNext /\ UNCHANGED <<part, docVars, workspaceVars, vars, planVars>>
    \/ part = "store" /\ Next /\ UNCHANGED <<part, docVars, workspaceVars, importVars, planVars>>
    \/ part = "plan" /\ PlanNext /\ UNCHANGED <<part, docVars, workspaceVars, importVars, vars>>

WorkspacePartsSpec ==
    WorkspacePartsInit /\ [][WorkspacePartsNext]_<<part, docVars, workspaceVars, importVars, vars, planVars>>

Symmetry == Permutations(Jobs) \union Permutations(Instances)
=============================================================================
