--------------------------- MODULE WorkspaceStore ---------------------------
(***************************************************************************)
(* WorkspaceRepository (core/infrastructure/jsonstore), one JSON file for  *)
(* each workspace, and the handlers that create, change and delete         *)
(* workspaces (core/application/command): each reads the file, changes the *)
(* aggregate in memory and writes the file back.                           *)
(*                                                                         *)
(* A save writes a temporary file and renames it, holding the lock of the  *)
(* repository; between reading and saving nothing is held. The server may  *)
(* crash at every step and be started again: the files survive.            *)
(***************************************************************************)
EXTENDS Workspace

CONSTANTS
    WorkspaceIds,
    Callers,    \* goroutines that serve requests
    Nobody,     \* the lock of the repository is free
    Absent,     \* there is no such file
    Torn,       \* the file is not complete
    MayFail     \* a write, a rename or a removal may fail

ASSUME StoreAssumption ==
    /\ Nobody \notin Callers
    /\ ~IsWorkspace(Absent) /\ ~IsWorkspace(Torn)
    /\ MayFail \in BOOLEAN

VARIABLES
    files,      \* <id>.json
    temps,      \* <id>.json.tmp
    lock,       \* who holds the repository's lock for writing
    pc,         \* where a caller is
    target,     \* the workspace it works on
    local,      \* its copy of that workspace, in memory
    created,    \* history: the workspaces that were ever saved
    paneIds     \* the identities of panes generated so far

diskVars == <<files, temps>>
idVars == <<created, paneIds>>
vars == <<diskVars, lock, pc, target, local, idVars>>

EveryCaller(v) == [t \in Callers |-> v]

Init ==
    /\ files = [id \in WorkspaceIds |-> Absent]
    /\ temps = [id \in WorkspaceIds |-> Absent]
    /\ lock = Nobody
    /\ pc = EveryCaller("idle")
    /\ target = EveryCaller(Absent)
    /\ local = EveryCaller(Absent)
    /\ created = {} /\ paneIds = {}

Goto(t, place) == pc' = [pc EXCEPT ![t] = place]

\* Mutant: the copy of the workspace is kept for the next request.
ReturnHolding(t) ==
    /\ Goto(t, "idle")
    /\ target' = [target EXCEPT ![t] = Absent]
    /\ UNCHANGED local

Return(t) ==
    /\ Goto(t, "idle")
    /\ target' = [target EXCEPT ![t] = Absent]
    /\ local' = [local EXCEPT ![t] = Absent]

Loads(content) == content \notin {Absent, Torn} /\ WellFormed(content)

-----------------------------------------------------------------------------
(* The handlers.                                                           *)

\* CreateWorkspace: a new identity and an empty workspace.
CreateWorkspace(t, id, name, layout) ==
    /\ pc[t] = "idle"
    /\ id \notin created \cup {target[u] : u \in Callers}
    /\ IsValid(layout)
    /\ target' = [target EXCEPT ![t] = id]
    /\ local' = [local EXCEPT ![t] = NewWorkspace(name, layout)]
    /\ Goto(t, "save")
    /\ UNCHANGED <<diskVars, lock, idVars>>

\* FindByID, the first thing every other handler does: read the file under
\* the read lock, and fail when it is not there or does not load.
FindByID(t, id, next) ==
    /\ pc[t] = "idle"
    /\ lock = Nobody
    /\ Loads(files[id])
    /\ target' = [target EXCEPT ![t] = id]
    /\ local' = [local EXCEPT ![t] = files[id]]
    /\ Goto(t, next)
    /\ UNCHANGED <<diskVars, lock, idVars>>

\* ErrWorkspaceNotFound, or an error of toDomain.
NotFound(t, id) ==
    /\ pc[t] = "idle"
    /\ lock = Nobody
    /\ ~Loads(files[id])
    /\ UNCHANGED vars

\* The request is accepted: the aggregate is changed in memory.
ChangeLocal(t) ==
    /\ pc[t] = "change"
    /\ \E w \in Changes(local[t], PaneIds \ paneIds) :
         /\ local' = [local EXCEPT ![t] = w]
         /\ paneIds' = paneIds \cup Ids(w)
    /\ Goto(t, "save")
    /\ UNCHANGED <<diskVars, lock, target, created>>

\* ... or rejected, and nothing is saved.
Reject(t) ==
    /\ pc[t] = "change"
    /\ Return(t)
    /\ UNCHANGED <<diskVars, lock, idVars>>

-----------------------------------------------------------------------------
(* Save.                                                                   *)

\* Mutant: no lock.
OpenTempUnlocked(t) ==
    /\ pc[t] = "save"
    /\ lock' = t
    /\ temps' = [temps EXCEPT ![target[t]] = Torn]
    /\ Goto(t, "write")
    /\ UNCHANGED <<files, target, local, idVars>>

\* Take the lock, create the temporary file.
OpenTemp(t) ==
    /\ pc[t] = "save"
    /\ lock = Nobody
    /\ lock' = t
    /\ temps' = [temps EXCEPT ![target[t]] = Torn]
    /\ Goto(t, "write")
    /\ UNCHANGED <<files, target, local, idVars>>

WriteTemp(t) ==
    /\ pc[t] = "write"
    /\ temps' = [temps EXCEPT ![target[t]] = local[t]]
    /\ Goto(t, "rename")
    /\ UNCHANGED <<files, lock, target, local, idVars>>

\* Mutant: the temporary file becomes the file whatever is in it.
RenameAnyway(t) ==
    /\ pc[t] \in {"write", "rename"}
    /\ files' = [files EXCEPT ![target[t]] = temps[target[t]]]
    /\ temps' = [temps EXCEPT ![target[t]] = Absent]
    /\ lock' = Nobody
    /\ created' = created \cup {target[t]}
    /\ Return(t)
    /\ UNCHANGED paneIds

Rename(t) ==
    /\ pc[t] = "rename"
    /\ files' = [files EXCEPT ![target[t]] = temps[target[t]]]
    /\ temps' = [temps EXCEPT ![target[t]] = Absent]
    /\ lock' = Nobody
    /\ created' = created \cup {target[t]}
    /\ Return(t)
    /\ UNCHANGED paneIds

\* A write or a rename fails: try to remove the temporary file and return
\* the error.
SaveFails(t) ==
    /\ MayFail
    /\ pc[t] \in {"write", "rename"}
    /\ temps' \in {temps, [temps EXCEPT ![target[t]] = Absent]}
    /\ lock' = Nobody
    /\ Return(t)
    /\ UNCHANGED <<files, idVars>>

\* Delete, under the lock. The file may be gone since it was found, or the
\* removal may fail: an error either way, and nothing is changed.
Delete(t) ==
    /\ pc[t] = "delete"
    /\ lock = Nobody
    /\ files' \in {[files EXCEPT ![target[t]] = Absent]} \cup IF MayFail THEN {files} ELSE {}
    /\ Return(t)
    /\ UNCHANGED <<temps, lock, idVars>>

\* The server dies and is started again.
Crash ==
    /\ pc # EveryCaller("idle")
    /\ lock' = Nobody
    /\ pc' = EveryCaller("idle")
    /\ target' = EveryCaller(Absent)
    /\ local' = EveryCaller(Absent)
    /\ UNCHANGED <<diskVars, idVars>>

-----------------------------------------------------------------------------

Request(t) ==
    \/ \E id \in WorkspaceIds, name \in Names, layout \in Presets :
         CreateWorkspace(t, id, name, layout)
    \/ \E id \in WorkspaceIds, next \in {"change", "delete"} : FindByID(t, id, next)
    \/ \E id \in WorkspaceIds : NotFound(t, id)
    \/ ChangeLocal(t) \/ Reject(t)
    \/ OpenTemp(t) \/ WriteTemp(t) \/ Rename(t) \/ SaveFails(t)
    \/ Delete(t)

Next == (\E t \in Callers : Request(t)) \/ Crash

Spec == Init /\ [][Next]_vars

-----------------------------------------------------------------------------

TypeOK ==
    /\ \A id \in WorkspaceIds :
         /\ files[id] = Absent \/ IsWorkspace(files[id])
         /\ temps[id] \in {Absent, Torn} \/ IsWorkspace(temps[id])
    /\ lock \in Callers \cup {Nobody}
    /\ pc \in [Callers -> {"idle", "change", "delete", "save", "write", "rename"}]
    /\ target \in [Callers -> WorkspaceIds \cup {Absent}]
    /\ \A t \in Callers : IF pc[t] = "idle" THEN local[t] = Absent ELSE IsWorkspace(local[t])
    /\ created \subseteq WorkspaceIds
    /\ paneIds \subseteq PaneIds

\* Whatever crashes, fails or overlaps, every file that exists can be loaded:
\* one that cannot would make List fail for all workspaces.
EveryFileLoads == \A id \in WorkspaceIds : files[id] # Absent => Loads(files[id])

\* Two callers never write at the same time, and what is renamed is what the
\* caller meant to save.
RenamesItsOwn == \A t \in Callers : pc[t] = "rename" => lock = t /\ temps[target[t]] = local[t]

\* No two requests for the same workspace overlap. Requests for different
\* workspaces may.
NoOverlap ==
    \A t, u \in Callers :
        pc[t] # "idle" /\ pc[u] # "idle" /\ target[t] = target[u] => t = u

\* Then the store is atomic: every request happens entirely or not at all,
\* across crashes and failing writes.
Atomic == INSTANCE AtomicWorkspaces WITH workspaces <- files

ImplementsAtomicWorkspaces == Atomic!Spec
=============================================================================
