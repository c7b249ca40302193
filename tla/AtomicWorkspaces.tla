-------------------------- MODULE AtomicWorkspaces --------------------------
(***************************************************************************)
(* What the repository of workspaces looks like to one client at a time:   *)
(* every request creates, changes or deletes one workspace in one step, or *)
(* does nothing. WorkspaceStore implements it when requests do not         *)
(* overlap, across crashes and failing writes.                             *)
(***************************************************************************)
EXTENDS Workspace

CONSTANTS
    WorkspaceIds,
    Absent          \* there is no such workspace

VARIABLES
    workspaces,     \* what is stored under each identity
    created         \* the workspaces there ever were

Init ==
    /\ workspaces = [id \in WorkspaceIds |-> Absent]
    /\ created = {}

Create(id) ==
    /\ id \notin created
    /\ created' = created \cup {id}
    /\ \E name \in Names, layout \in Presets :
         /\ IsValid(layout)
         /\ workspaces' = [workspaces EXCEPT ![id] = NewWorkspace(name, layout)]

Change(id) ==
    /\ workspaces[id] # Absent
    /\ \E w \in Changes(workspaces[id], PaneIds) :
         workspaces' = [workspaces EXCEPT ![id] = w]
    /\ UNCHANGED created

Delete(id) ==
    /\ workspaces[id] # Absent
    /\ workspaces' = [workspaces EXCEPT ![id] = Absent]
    /\ UNCHANGED created

Next == \E id \in WorkspaceIds : Create(id) \/ Change(id) \/ Delete(id)

Spec == Init /\ [][Next]_<<workspaces, created>>
=============================================================================
