----------------------------- MODULE Workspace -----------------------------
(***************************************************************************)
(* The aggregate Workspace (core/domain/workspace.go): a layout, the panes *)
(* in its slots, and which pane was last active and is maximized. Every    *)
(* operation is a pure operator: a condition under which it is accepted    *)
(* and the workspace it returns.                                           *)
(*                                                                         *)
(* The title, directory, remote host and start-up commands of a pane are   *)
(* replaced independently and never inspected: one value, its settings,    *)
(* stands for them.                                                        *)
(***************************************************************************)
EXTENDS Integers, FiniteSets

CONSTANTS
    Names,      \* names of a workspace
    PaneIds,    \* identities of panes
    Settings,   \* what a pane is set to
    Slots,      \* slots a request may name
    Presets,    \* layout presets a request may name, known or not
    NoPane      \* lastActive or maximized is nil

ASSUME WorkspaceAssumption ==
    /\ Slots \subseteq Nat
    /\ NoPane \notin PaneIds

Capacity(layout) ==
    CASE layout = "single" -> 1
      [] layout \in {"split_vertical", "split_horizontal"} -> 2
      [] layout = "grid_2x2" -> 4
      [] OTHER -> 0

IsValid(layout) == Capacity(layout) > 0

Aggregate(name, layout, panes, lastActive, maximized) ==
    [name |-> name, layout |-> layout, panes |-> panes,
     lastActive |-> lastActive, maximized |-> maximized]

Pane(slot, settings) == [slot |-> slot, settings |-> settings]

Ids(w) == DOMAIN w.panes

\* What NewWorkspace, ReconstituteWorkspace and toDomain insist on. The
\* identities of the panes are distinct because panes is a function of them.
WellFormed(w) ==
    /\ IsValid(w.layout)
    /\ Cardinality(Ids(w)) <= Capacity(w.layout)
    /\ \A p \in Ids(w) : w.panes[p].slot < Capacity(w.layout)
    /\ \A p, q \in Ids(w) : w.panes[p].slot = w.panes[q].slot => p = q
    /\ w.lastActive \in Ids(w) \cup {NoPane}
    /\ w.maximized \in Ids(w) \cup {NoPane}

NewWorkspace(name, layout) == Aggregate(name, layout, <<>>, NoPane, NoPane)

Renamed(w, name) == Aggregate(name, w.layout, w.panes, w.lastActive, w.maximized)

CanChangeLayout(w, layout) ==
    /\ IsValid(layout)
    /\ Cardinality(Ids(w)) <= Capacity(layout)
    /\ \A p \in Ids(w) : w.panes[p].slot < Capacity(layout)

WithLayout(w, layout) == Aggregate(w.name, layout, w.panes, w.lastActive, w.maximized)

CanAddPane(w, id, slot) ==
    /\ Cardinality(Ids(w)) < Capacity(w.layout)
    /\ slot < Capacity(w.layout)
    /\ \A p \in Ids(w) : p # id /\ w.panes[p].slot # slot

WithPane(w, id, pane) ==
    Aggregate(w.name, w.layout,
              [p \in Ids(w) \cup {id} |-> IF p = id THEN pane ELSE w.panes[p]],
              w.lastActive, w.maximized)

Without(pointer, id) == IF pointer = id THEN NoPane ELSE pointer

\* Mutant: the pointers to the pane are left alone.
WithoutPaneDangling(w, id) ==
    Aggregate(w.name, w.layout, [p \in Ids(w) \ {id} |-> w.panes[p]],
              w.lastActive, w.maximized)

WithoutPane(w, id) ==
    Aggregate(w.name, w.layout, [p \in Ids(w) \ {id} |-> w.panes[p]],
              Without(w.lastActive, id), Without(w.maximized, id))

WithSettings(w, id, settings) ==
    Aggregate(w.name, w.layout,
              [p \in Ids(w) |-> IF p = id THEN Pane(w.panes[p].slot, settings) ELSE w.panes[p]],
              w.lastActive, w.maximized)

WithLastActive(w, id) == Aggregate(w.name, w.layout, w.panes, id, w.maximized)

Maximized(w, id) == Aggregate(w.name, w.layout, w.panes, w.lastActive, id)

Restored(w) == Aggregate(w.name, w.layout, w.panes, w.lastActive, NoPane)

-----------------------------------------------------------------------------
(* The workspaces an accepted request can make of w, one operator for each  *)
(* handler (core/application/command).                                      *)

RenameWorkspace(w) == {Renamed(w, name) : name \in Names}

ChangeLayout(w) ==
    {WithLayout(w, layout) : layout \in {l \in Presets : CanChangeLayout(w, l)}}

\* The identity of the pane is generated: newIds are the ones not yet in use.
AddPane(w, newIds) ==
    {WithPane(w, r[1], Pane(r[2], r[3])) :
        r \in {r \in newIds \X Slots \X Settings : CanAddPane(w, r[1], r[2])}}

RemovePane(w) == {WithoutPane(w, p) : p \in Ids(w)}

\* SetPaneDirectory, SetPaneTitle, SetPaneRemoteHost, SetPaneStartupCommands.
SetPane(w) == {WithSettings(w, p, settings) : p \in Ids(w), settings \in Settings}

SetLastActivePane(w) == {WithLastActive(w, p) : p \in Ids(w)}

MaximizePane(w) == {Maximized(w, p) : p \in Ids(w)}

RestoreLayout(w) == {Restored(w)}

Changes(w, newIds) ==
    RenameWorkspace(w) \cup ChangeLayout(w) \cup AddPane(w, newIds) \cup RemovePane(w)
    \cup SetPane(w) \cup SetLastActivePane(w) \cup MaximizePane(w) \cup RestoreLayout(w)

PaneRecords == {Pane(slot, settings) : slot \in Slots, settings \in Settings}

IsWorkspace(w) ==
    \E name \in Names, layout \in Presets, ids \in SUBSET PaneIds,
       lastActive, maximized \in PaneIds \cup {NoPane} :
        \E panes \in [ids -> PaneRecords] :
            w = Aggregate(name, layout, panes, lastActive, maximized)
=============================================================================
