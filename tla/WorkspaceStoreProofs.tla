------------------------ MODULE WorkspaceStoreProofs ------------------------
(***************************************************************************)
(* Proofs about Workspace and WorkspaceStore, for any number of callers,   *)
(* workspaces and panes: every operation of the aggregate keeps it well    *)
(* formed, every file the store ever holds can be loaded, and requests     *)
(* that do not overlap on a workspace are atomic.                          *)
(***************************************************************************)
EXTENDS WorkspaceStore, FiniteSetTheorems, TLAPS

\* A well-formed aggregate with finitely many panes.
Sound(w) == IsWorkspace(w) /\ WellFormed(w) /\ IsFiniteSet(Ids(w))

-----------------------------------------------------------------------------
(* The aggregate.                                                          *)

Pointers == PaneIds \cup {NoPane}

\* The fields of an aggregate.
LEMMA Fields ==
  ASSUME NEW n, NEW l, NEW panes, NEW a, NEW m
  PROVE  LET w == Aggregate(n, l, panes, a, m)
         IN  /\ w.name = n /\ w.layout = l /\ w.panes = panes
             /\ w.lastActive = a /\ w.maximized = m /\ Ids(w) = DOMAIN panes
BY DEF Aggregate, Ids

\* An aggregate of the right fields is a workspace.
LEMMA Build ==
  ASSUME NEW n \in Names, NEW l \in Presets, NEW ids \in SUBSET PaneIds,
         NEW panes \in [ids -> PaneRecords], NEW a \in Pointers, NEW m \in Pointers
  PROVE  IsWorkspace(Aggregate(n, l, panes, a, m))
BY DEF IsWorkspace, Pointers

\* The fields of a workspace.
LEMMA Parts ==
  ASSUME NEW w, IsWorkspace(w)
  PROVE  /\ w.name \in Names /\ w.layout \in Presets
         /\ Ids(w) \in SUBSET PaneIds /\ w.panes \in [Ids(w) -> PaneRecords]
         /\ w.lastActive \in Pointers /\ w.maximized \in Pointers
<1>1. PICK n \in Names, l \in Presets, ids \in SUBSET PaneIds, a \in Pointers, m \in Pointers :
             \E panes \in [ids -> PaneRecords] : w = Aggregate(n, l, panes, a, m)
  BY DEF IsWorkspace, Pointers
<1>2. PICK panes \in [ids -> PaneRecords] : w = Aggregate(n, l, panes, a, m)
  BY <1>1
<1> QED
  BY <1>2, Fields

\* The slot of a pane is what it was made with, a number.
LEMMA PaneSlots ==
  /\ \A slot, settings : Pane(slot, settings).slot = slot
  /\ \A r \in PaneRecords : r.slot \in Slots /\ r.slot \in Nat
<1>1. \A slot, settings : Pane(slot, settings).slot = slot
  BY DEF Pane
<1>2. ASSUME NEW r \in PaneRecords
      PROVE  r.slot \in Slots /\ r.slot \in Nat
  <2>1. PICK slot \in Slots, settings \in Settings : r = Pane(slot, settings)
    BY DEF PaneRecords
  <2>2. r.slot = slot
    BY <1>1, <2>1
  <2> QED
    BY <2>2, WorkspaceAssumption
<1> QED
  BY <1>1, <1>2

\* The capacity of a layout is a number.
LEMMA CapacityIsNat == \A l : Capacity(l) \in Nat
BY DEF Capacity

\* A new workspace is well formed.
LEMMA NewIsSound ==
  ASSUME NEW name \in Names, NEW layout \in Presets, IsValid(layout)
  PROVE  Sound(NewWorkspace(name, layout))
<1> DEFINE w == NewWorkspace(name, layout)
<1>1. Ids(w) = {} /\ w.layout = layout /\ w.lastActive = NoPane /\ w.maximized = NoPane
  BY DEF NewWorkspace, Aggregate, Ids
<1>2. IsFiniteSet(Ids(w)) /\ Cardinality(Ids(w)) = 0
  BY <1>1, FS_EmptySet
<1>3. IsWorkspace(w)
  <2>1. <<>> \in [{} -> PaneRecords] /\ NoPane \in Pointers
    BY DEF Pointers
  <2> QED
    BY <2>1, Build DEF NewWorkspace
<1> HIDE DEF w
<1>4. Sound(w)
  BY <1>1, <1>2, <1>3, CapacityIsNat DEF Sound, WellFormed
<1> QED
  BY <1>4 DEF w

\* A change that leaves layout and panes alone.
LEMMA PointersAreSound ==
  ASSUME NEW w, Sound(w), NEW name \in Names,
         NEW a \in Ids(w) \cup {NoPane}, NEW m \in Ids(w) \cup {NoPane}
  PROVE  Sound(Aggregate(name, w.layout, w.panes, a, m))
<1> DEFINE v == Aggregate(name, w.layout, w.panes, a, m)
<1>1. /\ v.layout = w.layout /\ v.panes = w.panes /\ v.lastActive = a /\ v.maximized = m
      /\ Ids(v) = Ids(w)
  BY Fields DEF Ids
<1>2. IsWorkspace(v)
  BY Parts, Build DEF Sound, Pointers
<1> HIDE DEF v
<1>3. Sound(v)
  BY <1>1, <1>2 DEF Sound, WellFormed
<1> QED
  BY <1>3 DEF v

\* A layout is only changed when the panes fit.
LEMMA WithLayoutIsSound ==
  ASSUME NEW w, Sound(w), NEW layout \in Presets, CanChangeLayout(w, layout)
  PROVE  Sound(WithLayout(w, layout))
<1> DEFINE v == WithLayout(w, layout)
<1>1. /\ v.layout = layout /\ v.panes = w.panes /\ v.lastActive = w.lastActive
      /\ v.maximized = w.maximized /\ Ids(v) = Ids(w)
  BY Fields DEF WithLayout, Ids
<1>2. IsWorkspace(v)
  BY Parts, Build DEF Sound, WithLayout
<1> HIDE DEF v
<1>3. Sound(v)
  BY <1>1, <1>2 DEF Sound, WellFormed, CanChangeLayout
<1> QED
  BY <1>3 DEF v

\* A pane is only added to a free slot within the capacity.
LEMMA WithPaneIsSound ==
  ASSUME NEW w, Sound(w), NEW id \in PaneIds, NEW slot \in Slots, NEW settings \in Settings,
         CanAddPane(w, id, slot)
  PROVE  Sound(WithPane(w, id, Pane(slot, settings)))
<1> DEFINE new == Pane(slot, settings)
           panes == [p \in Ids(w) \cup {id} |-> IF p = id THEN new ELSE w.panes[p]]
           v == WithPane(w, id, new)
<1>0. new.slot = slot /\ new \in PaneRecords
  BY PaneSlots DEF PaneRecords
<1>p. IsWorkspace(w) /\ Ids(w) \in SUBSET PaneIds /\ w.panes \in [Ids(w) -> PaneRecords]
  BY Parts DEF Sound
<1> HIDE DEF new
<1>1. /\ v.layout = w.layout /\ v.lastActive = w.lastActive
      /\ v.maximized = w.maximized /\ Ids(v) = Ids(w) \cup {id}
      /\ \A p \in Ids(v) : v.panes[p] = IF p = id THEN new ELSE w.panes[p]
  BY Fields DEF WithPane
<1>2. IsWorkspace(v)
  <2>1. panes \in [Ids(w) \cup {id} -> PaneRecords]
    BY <1>0, <1>p
  <2>2. v = Aggregate(w.name, w.layout, panes, w.lastActive, w.maximized)
    BY DEF WithPane
  <2> HIDE DEF panes, v
  <2> QED
    BY <1>p, <2>1, <2>2, Parts, Build
<1> HIDE DEF v
<1>3. id \notin Ids(w)
  BY DEF CanAddPane
<1>4. /\ IsFiniteSet(Ids(v)) /\ Cardinality(Ids(v)) = Cardinality(Ids(w)) + 1
      /\ Cardinality(Ids(w)) \in Nat
  BY <1>1, <1>3, FS_AddElement, FS_CardinalityType DEF Sound
<1>5. Cardinality(Ids(v)) <= Capacity(v.layout)
  BY <1>1, <1>4, CapacityIsNat DEF CanAddPane
<1>7. \A p \in Ids(v) : v.panes[p].slot < Capacity(v.layout)
  BY <1>0, <1>1 DEF Sound, WellFormed, CanAddPane
<1>8. \A p, q \in Ids(v) : v.panes[p].slot = v.panes[q].slot => p = q
  BY <1>0, <1>1 DEF Sound, WellFormed, CanAddPane
<1>9. Sound(v)
  BY <1>1, <1>2, <1>4, <1>5, <1>7, <1>8 DEF Sound, WellFormed
<1> QED
  BY <1>9 DEF v, new

\* Removing a pane clears the pointers to it.
LEMMA WithoutPaneIsSound ==
  ASSUME NEW w, Sound(w), NEW id
  PROVE  Sound(WithoutPane(w, id))
<1> DEFINE panes == [p \in Ids(w) \ {id} |-> w.panes[p]]
           v == WithoutPane(w, id)
<1>p. IsWorkspace(w) /\ Ids(w) \in SUBSET PaneIds /\ w.panes \in [Ids(w) -> PaneRecords]
  BY Parts DEF Sound
<1>1. /\ v.layout = w.layout /\ v.lastActive = Without(w.lastActive, id)
      /\ v.maximized = Without(w.maximized, id) /\ Ids(v) = Ids(w) \ {id}
      /\ \A p \in Ids(v) : v.panes[p] = w.panes[p]
  BY Fields DEF WithoutPane
<1>2. IsWorkspace(v)
  <2>1. panes \in [Ids(w) \ {id} -> PaneRecords]
    BY <1>p
  <2>2. v = Aggregate(w.name, w.layout, panes, Without(w.lastActive, id), Without(w.maximized, id))
    BY DEF WithoutPane
  <2>3. \A q \in Pointers : Without(q, id) \in Pointers
    BY DEF Without, Pointers
  <2> HIDE DEF panes, v
  <2> QED
    BY <1>p, <2>1, <2>2, <2>3, Parts, Build
<1> HIDE DEF v
<1>3. /\ IsFiniteSet(Ids(v)) /\ Cardinality(Ids(v)) <= Cardinality(Ids(w))
      /\ Cardinality(Ids(v)) \in Nat /\ Cardinality(Ids(w)) \in Nat
  BY <1>1, FS_Subset, FS_CardinalityType DEF Sound
<1>4. Cardinality(Ids(v)) <= Capacity(v.layout)
  BY <1>1, <1>3, CapacityIsNat DEF Sound, WellFormed
<1>5. v.lastActive \in Ids(v) \cup {NoPane} /\ v.maximized \in Ids(v) \cup {NoPane}
  BY <1>1 DEF Without, Sound, WellFormed
<1>6. Sound(v)
  BY <1>1, <1>2, <1>3, <1>4, <1>5 DEF Sound, WellFormed
<1> QED
  BY <1>6 DEF v

\* The settings of a pane can be anything.
LEMMA WithSettingsIsSound ==
  ASSUME NEW w, Sound(w), NEW id, NEW settings \in Settings
  PROVE  Sound(WithSettings(w, id, settings))
<1> DEFINE panes == [p \in Ids(w) |-> IF p = id THEN Pane(w.panes[p].slot, settings) ELSE w.panes[p]]
           v == WithSettings(w, id, settings)
<1>p. IsWorkspace(w) /\ Ids(w) \in SUBSET PaneIds /\ w.panes \in [Ids(w) -> PaneRecords]
  BY Parts DEF Sound
<1>1. /\ v.layout = w.layout /\ v.lastActive = w.lastActive
      /\ v.maximized = w.maximized /\ Ids(v) = Ids(w)
      /\ \A p \in Ids(v) : v.panes[p] = IF p = id THEN Pane(w.panes[p].slot, settings) ELSE w.panes[p]
  BY Fields DEF WithSettings
<1>2. IsWorkspace(v)
  <2>1. panes \in [Ids(w) -> PaneRecords]
    BY <1>p, PaneSlots DEF PaneRecords
  <2>2. v = Aggregate(w.name, w.layout, panes, w.lastActive, w.maximized)
    BY DEF WithSettings
  <2> HIDE DEF panes, v
  <2> QED
    BY <1>p, <2>1, <2>2, Parts, Build
<1> HIDE DEF v
<1>3. \A p \in Ids(v) : v.panes[p].slot = w.panes[p].slot
  BY <1>1, PaneSlots
<1>4. Sound(v)
  BY <1>1, <1>2, <1>3 DEF Sound, WellFormed
<1> QED
  BY <1>4 DEF v

\* Whatever an accepted request makes of a well-formed workspace is well
\* formed.
THEOREM ChangesAreSound ==
  ASSUME NEW w, Sound(w), NEW newIds \in SUBSET PaneIds, NEW v \in Changes(w, newIds)
  PROVE  Sound(v)
<1>p. /\ w.lastActive \in Ids(w) \cup {NoPane} /\ w.maximized \in Ids(w) \cup {NoPane}
      /\ w.name \in Names
  BY Parts DEF Sound, WellFormed
<1>1. CASE v \in RenameWorkspace(w)
  BY <1>1, <1>p, PointersAreSound DEF RenameWorkspace, Renamed
<1>2. CASE v \in ChangeLayout(w)
  BY <1>2, WithLayoutIsSound DEF ChangeLayout
<1>3. CASE v \in AddPane(w, newIds)
  <2>1. PICK r \in newIds \X Slots \X Settings :
                CanAddPane(w, r[1], r[2]) /\ v = WithPane(w, r[1], Pane(r[2], r[3]))
    BY <1>3 DEF AddPane
  <2>2. r[1] \in PaneIds /\ r[2] \in Slots /\ r[3] \in Settings
    OBVIOUS
  <2> QED
    BY <2>1, <2>2, WithPaneIsSound
<1>4. CASE v \in RemovePane(w)
  BY <1>4, WithoutPaneIsSound DEF RemovePane
<1>5. CASE v \in SetPane(w)
  BY <1>5, WithSettingsIsSound DEF SetPane
<1>6. CASE v \in SetLastActivePane(w)
  BY <1>6, <1>p, PointersAreSound DEF SetLastActivePane, WithLastActive
<1>7. CASE v \in MaximizePane(w)
  BY <1>7, <1>p, PointersAreSound DEF MaximizePane, Maximized
<1>8. CASE v \in RestoreLayout(w)
  BY <1>8, <1>p, PointersAreSound DEF RestoreLayout, Restored
<1> QED
  BY <1>1, <1>2, <1>3, <1>4, <1>5, <1>6, <1>7, <1>8 DEF Changes

-----------------------------------------------------------------------------
(* The store.                                                              *)

\* Callers that are past reading have a sound copy of their workspace.
LocalSound ==
    \A t \in Callers : pc[t] # "idle" => Sound(local[t]) /\ target[t] \in WorkspaceIds

\* One caller writes at a time, under the lock, and what it has written is
\* its copy.
Writing ==
    /\ pc \in [Callers -> {"idle", "change", "delete", "save", "write", "rename"}]
    /\ target \in [Callers -> WorkspaceIds \cup {Absent}]
    /\ local = [t \in Callers |-> local[t]]
    /\ DOMAIN files = WorkspaceIds /\ files = [id \in WorkspaceIds |-> files[id]]
    /\ temps = [id \in WorkspaceIds |-> temps[id]]
    /\ lock \in Callers \cup {Nobody}
    /\ \A t \in Callers : pc[t] \in {"write", "rename"} <=> lock = t

IInv ==
    /\ Writing
    /\ LocalSound
    /\ RenamesItsOwn
    /\ \A id \in WorkspaceIds : files[id] = Absent \/ (files[id] # Torn /\ Sound(files[id]))

\* The initial state satisfies the invariant.
LEMMA InitIInv == Init => IInv
BY StoreAssumption DEF Init, IInv, Writing, LocalSound, RenamesItsOwn, EveryCaller

\* The bookkeeping of the lock.
LEMMA WritingStep == IInv /\ [Next]_vars => Writing' /\ RenamesItsOwn'
<1> SUFFICES ASSUME IInv, [Next]_vars
             PROVE  Writing' /\ RenamesItsOwn'
  OBVIOUS
<1> USE StoreAssumption DEF IInv, Writing, LocalSound, RenamesItsOwn, Goto, diskVars, idVars
<1>1. ASSUME NEW t \in Callers, NEW id \in WorkspaceIds, NEW name \in Names, NEW layout \in Presets,
             CreateWorkspace(t, id, name, layout)
      PROVE  Writing' /\ RenamesItsOwn'
  BY <1>1 DEF CreateWorkspace
<1>2. ASSUME NEW t \in Callers, NEW id \in WorkspaceIds, NEW next \in {"change", "delete"},
             FindByID(t, id, next)
      PROVE  Writing' /\ RenamesItsOwn'
  BY <1>2 DEF FindByID
<1>3. ASSUME NEW t \in Callers, ChangeLocal(t) \/ Reject(t)
      PROVE  Writing' /\ RenamesItsOwn'
  BY <1>3 DEF ChangeLocal, Reject, Return
<1>4. ASSUME NEW t \in Callers, OpenTemp(t) \/ WriteTemp(t)
      PROVE  Writing' /\ RenamesItsOwn'
  BY <1>4 DEF OpenTemp, WriteTemp
<1>5. ASSUME NEW t \in Callers, Rename(t) \/ SaveFails(t)
      PROVE  Writing' /\ RenamesItsOwn'
  BY <1>5 DEF Rename, SaveFails, Return
<1>6. ASSUME NEW t \in Callers, Delete(t)
      PROVE  Writing' /\ RenamesItsOwn'
  BY <1>6 DEF Delete, Return
<1>7. CASE Crash
  BY <1>7 DEF Crash, EveryCaller
<1>8. CASE UNCHANGED vars
  BY <1>8 DEF vars
<1> QED
  BY <1>1, <1>2, <1>3, <1>4, <1>5, <1>6, <1>7, <1>8 DEF Next, Request, NotFound

\* What is read, changed and written is sound.
LEMMA SoundStep ==
  IInv /\ [Next]_vars =>
    /\ LocalSound'
    /\ \A id \in WorkspaceIds : files'[id] = Absent \/ (files'[id] # Torn /\ Sound(files'[id]))
<1> DEFINE FilesSound == \A id \in WorkspaceIds :
               files[id] = Absent \/ (files[id] # Torn /\ Sound(files[id]))
<1> SUFFICES ASSUME IInv, [Next]_vars
             PROVE  LocalSound' /\ FilesSound'
  OBVIOUS
<1> USE StoreAssumption DEF IInv, Writing, LocalSound, RenamesItsOwn, Goto, diskVars, idVars
<1>1. ASSUME NEW t \in Callers, NEW id \in WorkspaceIds, NEW name \in Names, NEW layout \in Presets,
             CreateWorkspace(t, id, name, layout)
      PROVE  LocalSound' /\ FilesSound'
  <2>1. Sound(NewWorkspace(name, layout))
    BY <1>1, NewIsSound DEF CreateWorkspace
  <2> QED
    BY <1>1, <2>1 DEF CreateWorkspace
<1>2. ASSUME NEW t \in Callers, NEW id \in WorkspaceIds, NEW next \in {"change", "delete"},
             FindByID(t, id, next)
      PROVE  LocalSound' /\ FilesSound'
  BY <1>2 DEF FindByID, Loads
<1>3. ASSUME NEW t \in Callers, ChangeLocal(t)
      PROVE  LocalSound' /\ FilesSound'
  <2>1. PICK w \in Changes(local[t], PaneIds \ paneIds) : local' = [local EXCEPT ![t] = w]
    BY <1>3 DEF ChangeLocal
  <2>2. Sound(w)
    <3>1. Sound(local[t]) /\ PaneIds \ paneIds \in SUBSET PaneIds
      BY <1>3 DEF ChangeLocal
    <3> QED
      BY <3>1, ChangesAreSound
  <2> QED
    BY <1>3, <2>1, <2>2 DEF ChangeLocal
<1>4. ASSUME NEW t \in Callers, OpenTemp(t) \/ WriteTemp(t)
      PROVE  LocalSound' /\ FilesSound'
  BY <1>4 DEF OpenTemp, WriteTemp
<1>5. ASSUME NEW t \in Callers, Reject(t) \/ SaveFails(t) \/ Delete(t)
      PROVE  LocalSound' /\ FilesSound'
  BY <1>5 DEF Reject, SaveFails, Delete, Return
<1>6. ASSUME NEW t \in Callers, Rename(t)
      PROVE  LocalSound' /\ FilesSound'
  <2>1. files' = [files EXCEPT ![target[t]] = local[t]] /\ Sound(local[t]) /\ target[t] \in WorkspaceIds
    BY <1>6 DEF Rename
  <2>2. local[t] # Torn
    BY <2>1, StoreAssumption DEF Sound
  <2> QED
    BY <1>6, <2>1, <2>2 DEF Rename, Return
<1>7. CASE Crash
  BY <1>7 DEF Crash, EveryCaller
<1>8. CASE UNCHANGED vars
  BY <1>8 DEF vars
<1> QED
  BY <1>1, <1>2, <1>3, <1>4, <1>5, <1>6, <1>7, <1>8 DEF Next, Request, NotFound

\* The invariant holds in every reachable state.
THEOREM Invariance == Spec => []IInv
<1>1. IInv /\ [Next]_vars => IInv'
  BY WritingStep, SoundStep DEF IInv
<1> QED
  BY <1>1, InitIInv, PTL DEF Spec

\* Every file that exists can be loaded, whatever crashed or failed before.
THEOREM EveryFileIsLoadable == Spec => []EveryFileLoads
<1>1. IInv => EveryFileLoads
  BY DEF IInv, EveryFileLoads, Loads, Sound
<1> QED
  BY <1>1, Invariance, PTL

\* A caller about to rename holds the lock, and renames what it meant to save.
THEOREM RenameCorrect == Spec => []RenamesItsOwn
<1>1. IInv => RenamesItsOwn
  BY DEF IInv
<1> QED
  BY <1>1, Invariance, PTL

\* The store keeps its types: what a step needs of IInv is that the copies,
\* and what is in the files, are workspaces.
LEMMA TypeStep == IInv /\ IInv' /\ TypeOK /\ [Next]_vars => TypeOK'
<1> DEFINE Temps == \A id \in WorkspaceIds : temps[id] \in {Absent, Torn} \/ IsWorkspace(temps[id])
           Rest == created \subseteq WorkspaceIds /\ paneIds \subseteq PaneIds
           Idle == \A t \in Callers : pc[t] = "idle" => local[t] = Absent
<1>2. ASSUME IInv, IInv', Temps, Rest, Idle, [Next]_vars
      PROVE  Temps' /\ Rest' /\ Idle'
  <2> USE <1>2 DEF IInv, Writing, LocalSound, Goto, diskVars, idVars
  <2>1. ASSUME NEW t \in Callers, NEW id \in WorkspaceIds, NEW name \in Names,
               NEW layout \in Presets, CreateWorkspace(t, id, name, layout)
        PROVE  Temps' /\ Rest' /\ Idle'
    BY <2>1 DEF CreateWorkspace
  <2>2. ASSUME NEW t \in Callers, NEW id \in WorkspaceIds, NEW next \in {"change", "delete"},
               FindByID(t, id, next)
        PROVE  Temps' /\ Rest' /\ Idle'
    BY <2>2 DEF FindByID
  <2>3. ASSUME NEW t \in Callers, ChangeLocal(t)
        PROVE  Temps' /\ Rest' /\ Idle'
    <3>1. PICK w \in Changes(local[t], PaneIds \ paneIds) :
                  /\ local' = [local EXCEPT ![t] = w]
                  /\ paneIds' = paneIds \cup Ids(w)
      BY <2>3 DEF ChangeLocal
    <3>2. Sound(w)
      <4>1. Sound(local[t]) /\ PaneIds \ paneIds \in SUBSET PaneIds
        BY <2>3 DEF ChangeLocal
      <4> QED
        BY <4>1, ChangesAreSound
    <3> QED
      BY <2>3, <3>1, <3>2, Parts DEF ChangeLocal, Sound
  <2>4. ASSUME NEW t \in Callers, OpenTemp(t)
        PROVE  Temps' /\ Rest' /\ Idle'
    BY <2>4 DEF OpenTemp
  <2>5. ASSUME NEW t \in Callers, WriteTemp(t)
        PROVE  Temps' /\ Rest' /\ Idle'
    BY <2>5 DEF WriteTemp, Sound
  <2>6. ASSUME NEW t \in Callers, Reject(t) \/ SaveFails(t) \/ Delete(t) \/ Rename(t)
        PROVE  Temps' /\ Rest' /\ Idle'
    BY <2>6 DEF Reject, SaveFails, Delete, Rename, Return
  <2>7. CASE Crash
    BY <2>7 DEF Crash, EveryCaller
  <2>8. CASE UNCHANGED vars
    BY <2>8 DEF vars
  <2> QED
    BY <2>1, <2>2, <2>3, <2>4, <2>5, <2>6, <2>7, <2>8 DEF Next, Request, NotFound
<1>3. TypeOK => Temps /\ Rest /\ Idle
  BY DEF TypeOK
<1>4. ASSUME IInv', Temps', Rest', Idle'
      PROVE  TypeOK'
  BY <1>4 DEF IInv, Writing, LocalSound, TypeOK, Sound
<1> QED
  BY <1>2, <1>3, <1>4

\* The store keeps its types.
THEOREM TypeCorrect == Spec => []TypeOK
<1>1. Init => TypeOK
  BY DEF Init, TypeOK, EveryCaller
<1> QED
  BY <1>1, TypeStep, Invariance, PTL DEF Spec

-----------------------------------------------------------------------------
(* The store implements AtomicWorkspaces as long as NoOverlap holds.        *)

\* What a caller holds in memory is still what a request could make of the
\* file, or the first version of a workspace that was never stored.
Creating(t) ==
    /\ target[t] \notin created
    /\ \E name \in Names, layout \in Presets :
         IsValid(layout) /\ local[t] = NewWorkspace(name, layout)

Changing(t) ==
    /\ files[target[t]] # Absent
    /\ local[t] \in Changes(files[target[t]], PaneIds)

UpToDate(t) ==
    /\ pc[t] = "change" => files[target[t]] # Absent /\ local[t] = files[target[t]]
    /\ pc[t] = "delete" => files[target[t]] # Absent
    /\ pc[t] \in {"save", "write", "rename"} => Creating(t) \/ Changing(t)

Current ==
    /\ \A id \in WorkspaceIds : files[id] # Absent => id \in created
    /\ \A t \in Callers : UpToDate(t)

\* Which identities are free only matters to a pane that is added.
LEMMA ChangesGrow ==
  ASSUME NEW w, NEW some \in SUBSET PaneIds
  PROVE  Changes(w, some) \subseteq Changes(w, PaneIds)
<1>1. AddPane(w, some) \subseteq AddPane(w, PaneIds)
  BY DEF AddPane
<1> QED
  BY <1>1 DEF Changes

\* The size of a set is the same in the instance.
LEMMA SameCardinality == \A S : Atomic!Cardinality(S) = Cardinality(S)
BY DEF Atomic!Cardinality, Cardinality

\* The operators of the instance are those of the module.
LEMMA SameWorkspaces ==
  /\ \A layout : Atomic!IsValid(layout) = IsValid(layout)
  /\ \A name, layout : Atomic!NewWorkspace(name, layout) = NewWorkspace(name, layout)
  /\ \A w, ids : Atomic!Changes(w, ids) = Changes(w, ids)
<1>1. \A layout : Atomic!Capacity(layout) = Capacity(layout)
  BY DEF Atomic!Capacity, Capacity
<1>2. \A layout : Atomic!IsValid(layout) = IsValid(layout)
  BY <1>1 DEF Atomic!IsValid, IsValid
<1>3. \A n, l, p, a, m : Atomic!Aggregate(n, l, p, a, m) = Aggregate(n, l, p, a, m)
  BY DEF Atomic!Aggregate, Aggregate
<1>4. \A name, layout : Atomic!NewWorkspace(name, layout) = NewWorkspace(name, layout)
  BY <1>3 DEF Atomic!NewWorkspace, NewWorkspace
<1>5. ASSUME NEW w, NEW ids
      PROVE  Atomic!Changes(w, ids) = Changes(w, ids)
  <2>1. Atomic!RenameWorkspace(w) = RenameWorkspace(w)
    BY DEF Atomic!RenameWorkspace, RenameWorkspace, Atomic!Renamed,
       Renamed, Atomic!Aggregate, Aggregate
  <2>2. Atomic!ChangeLayout(w) = ChangeLayout(w)
    <3>1. \A layout : Atomic!CanChangeLayout(w, layout) <=> CanChangeLayout(w, layout)
      BY <1>1, <1>2, SameCardinality
         DEF Atomic!CanChangeLayout, CanChangeLayout, Atomic!Ids, Ids
    <3>2. \A layout : Atomic!WithLayout(w, layout) = WithLayout(w, layout)
      BY <1>3 DEF Atomic!WithLayout, WithLayout
    <3> QED
      BY <3>1, <3>2 DEF Atomic!ChangeLayout, ChangeLayout
  <2>3. Atomic!AddPane(w, ids) = AddPane(w, ids)
    <3>1. \A id, slot : Atomic!CanAddPane(w, id, slot) <=> CanAddPane(w, id, slot)
      BY <1>1, SameCardinality DEF Atomic!CanAddPane, CanAddPane, Atomic!Ids, Ids
    <3>2. \A slot, settings : Atomic!Pane(slot, settings) = Pane(slot, settings)
      BY DEF Atomic!Pane, Pane
    <3>3. \A id, pane : Atomic!WithPane(w, id, pane) = WithPane(w, id, pane)
      BY <1>3 DEF Atomic!WithPane, WithPane, Atomic!Ids, Ids
    <3> QED
      BY <3>1, <3>2, <3>3 DEF Atomic!AddPane, AddPane
  <2>4. Atomic!RemovePane(w) = RemovePane(w)
    BY DEF Atomic!RemovePane, RemovePane, Atomic!WithoutPane, WithoutPane,
       Atomic!Without, Without, Atomic!Ids, Ids, Atomic!Aggregate,
       Aggregate
  <2>5. Atomic!SetPane(w) = SetPane(w)
    BY DEF Atomic!SetPane, SetPane, Atomic!WithSettings, WithSettings,
       Atomic!Pane, Pane, Atomic!Ids, Ids, Atomic!Aggregate, Aggregate
  <2>6. Atomic!SetLastActivePane(w) = SetLastActivePane(w)
    BY DEF Atomic!SetLastActivePane, SetLastActivePane,
       Atomic!WithLastActive, WithLastActive, Atomic!Ids, Ids,
       Atomic!Aggregate, Aggregate
  <2>7. Atomic!MaximizePane(w) = MaximizePane(w)
    BY DEF Atomic!MaximizePane, MaximizePane, Atomic!Maximized, Maximized,
       Atomic!Ids, Ids, Atomic!Aggregate, Aggregate
  <2>8. Atomic!RestoreLayout(w) = RestoreLayout(w)
    BY DEF Atomic!RestoreLayout, RestoreLayout, Atomic!Restored, Restored,
       Atomic!Aggregate, Aggregate
  <2> QED
    BY <2>1, <2>2, <2>3, <2>4, <2>5, <2>6, <2>7, <2>8 DEF Atomic!Changes, Changes
<1> QED
  BY <1>2, <1>4, <1>5

\* A caller that a step leaves alone stays up to date when the file of its
\* workspace, and whether it was created, stay the same.
LEMMA StaysUpToDate ==
  ASSUME NEW u \in Callers, UpToDate(u),
         pc'[u] = pc[u], target'[u] = target[u], local'[u] = local[u],
         pc[u] # "idle" => /\ files'[target[u]] = files[target[u]]
                           /\ target[u] \in created' <=> target[u] \in created
  PROVE  UpToDate(u)'
BY DEF UpToDate, Creating, Changing

\* Requests that do not overlap keep their copies up to date.
LEMMA CurrentStep == IInv /\ NoOverlap /\ Current /\ [Next]_vars => Current'
<1> SUFFICES ASSUME IInv, NoOverlap, Current, [Next]_vars
             PROVE  Current'
  OBVIOUS
<1> USE DEF IInv, Writing, LocalSound, Goto, diskVars, idVars
<1>1. ASSUME NEW t \in Callers, NEW id \in WorkspaceIds, NEW name \in Names,
             NEW layout \in Presets, CreateWorkspace(t, id, name, layout)
      PROVE  Current'
  <2>1. UpToDate(t)'
    BY <1>1 DEF CreateWorkspace, UpToDate, Creating
  <2>2. \A u \in Callers \ {t} : UpToDate(u)'
    BY <1>1, StaysUpToDate DEF CreateWorkspace, Current
  <2> QED
    BY <1>1, <2>1, <2>2 DEF CreateWorkspace, Current
<1>2. ASSUME NEW t \in Callers, NEW id \in WorkspaceIds, NEW next \in {"change", "delete"},
             FindByID(t, id, next)
      PROVE  Current'
  <2>1. UpToDate(t)'
    BY <1>2 DEF FindByID, UpToDate, Loads
  <2>2. \A u \in Callers \ {t} : UpToDate(u)'
    BY <1>2, StaysUpToDate DEF FindByID, Current
  <2> QED
    BY <1>2, <2>1, <2>2 DEF FindByID, Current
<1>3. ASSUME NEW t \in Callers, ChangeLocal(t)
      PROVE  Current'
  <2>1. PICK w \in Changes(local[t], PaneIds \ paneIds) : local' = [local EXCEPT ![t] = w]
    BY <1>3 DEF ChangeLocal
  <2>2. files[target[t]] # Absent /\ local[t] = files[target[t]]
    BY <1>3 DEF ChangeLocal, Current, UpToDate
  <2>3. w \in Changes(files[target[t]], PaneIds)
    <3>1. PaneIds \ paneIds \in SUBSET PaneIds
      OBVIOUS
    <3> QED
      BY <2>1, <2>2, <3>1, ChangesGrow
  <2>4. UpToDate(t)'
    BY <1>3, <2>1, <2>2, <2>3 DEF ChangeLocal, UpToDate, Changing
  <2>5. \A u \in Callers \ {t} : UpToDate(u)'
    BY <1>3, <2>1, StaysUpToDate DEF ChangeLocal, Current
  <2> QED
    BY <1>3, <2>4, <2>5 DEF ChangeLocal, Current
<1>4. ASSUME NEW t \in Callers, OpenTemp(t) \/ WriteTemp(t)
      PROVE  Current'
  <2>1. UpToDate(t)'
    BY <1>4 DEF OpenTemp, WriteTemp, Current, UpToDate, Creating, Changing
  <2>2. \A u \in Callers \ {t} : UpToDate(u)'
    BY <1>4, StaysUpToDate DEF OpenTemp, WriteTemp, Current
  <2> QED
    BY <1>4, <2>1, <2>2 DEF OpenTemp, WriteTemp, Current
<1>5. ASSUME NEW t \in Callers, Reject(t) \/ SaveFails(t)
      PROVE  Current'
  <2>1. UpToDate(t)'
    BY <1>5 DEF Reject, SaveFails, Return, UpToDate
  <2>2. \A u \in Callers \ {t} : UpToDate(u)'
    BY <1>5, StaysUpToDate DEF Reject, SaveFails, Return, Current
  <2> QED
    BY <1>5, <2>1, <2>2 DEF Reject, SaveFails, Return, Current
<1>6. ASSUME NEW t \in Callers, Rename(t) \/ Delete(t)
      PROVE  Current'
  <2>1. UpToDate(t)'
    BY <1>6 DEF Rename, Delete, Return, UpToDate
  <2>2. ASSUME NEW u \in Callers \ {t}
        PROVE  UpToDate(u)'
    <3>1. pc[u] # "idle" => target[u] \in WorkspaceIds /\ target[u] # target[t]
      BY <1>6 DEF Rename, Delete, NoOverlap
    <3>2. pc[u] # "idle" => /\ files'[target[u]] = files[target[u]]
                            /\ target[u] \in created' <=> target[u] \in created
      BY <1>6, <3>1 DEF Rename, Delete
    <3>3. pc'[u] = pc[u] /\ target'[u] = target[u] /\ local'[u] = local[u]
      BY <1>6 DEF Rename, Delete, Return
    <3> QED
      BY <3>2, <3>3, StaysUpToDate DEF Current
  <2>3. \A id \in WorkspaceIds : files'[id] # Absent => id \in created'
    BY <1>6 DEF Rename, Delete, Current
  <2> QED
    BY <2>1, <2>2, <2>3 DEF Current
<1>7. CASE Crash
  BY <1>7 DEF Crash, EveryCaller, Current, UpToDate
<1>8. CASE UNCHANGED vars
  BY <1>8 DEF vars, Current, UpToDate, Creating, Changing
<1> QED
  BY <1>1, <1>2, <1>3, <1>4, <1>5, <1>6, <1>7, <1>8 DEF Next, Request, NotFound

\* A rename creates or changes a workspace in one step.
LEMMA RenameIsAtomic ==
  ASSUME IInv, Current, NEW t \in Callers, Rename(t)
  PROVE  Atomic!Create(target[t]) \/ Atomic!Change(target[t])
<1>1. /\ files' = [files EXCEPT ![target[t]] = local[t]]
      /\ created' = created \cup {target[t]}
      /\ pc[t] = "rename"
  BY DEF Rename, IInv, RenamesItsOwn
<1>2. target[t] \in WorkspaceIds
  BY <1>1 DEF IInv, LocalSound
<1>3. CASE Creating(t)
  BY <1>1, <1>3, SameWorkspaces DEF Creating, Atomic!Create
<1>4. CASE Changing(t)
  <2>1. created' = created
    BY <1>1, <1>2, <1>4 DEF Current, Changing
  <2> QED
    BY <1>1, <1>4, <2>1, SameWorkspaces DEF Changing, Atomic!Change
<1> QED
  BY <1>1, <1>3, <1>4 DEF Current, UpToDate

\* A deletion removes a workspace that is there, or fails and changes nothing.
LEMMA DeleteIsAtomic ==
  ASSUME IInv, Current, NEW t \in Callers, Delete(t)
  PROVE  Atomic!Delete(target[t]) \/ UNCHANGED <<files, created>>
<1>1. files[target[t]] # Absent
  BY DEF Delete, Current, UpToDate
<1> QED
  BY <1>1 DEF Delete, Atomic!Delete, idVars

\* Every other step, a crash included, leaves the files alone.
LEMMA OthersStutter ==
  ASSUME [Next]_vars, \A t \in Callers : ~Rename(t) /\ ~Delete(t)
  PROVE  UNCHANGED <<files, created>>
BY DEF Next, Request, CreateWorkspace, FindByID, NotFound, ChangeLocal, Reject, OpenTemp,
    WriteTemp, SaveFails, Crash, vars, diskVars, idVars

\* As long as no two requests for the same workspace overlap, the store is
\* atomic: what is on disk is what requests that happen in one step, entirely
\* or not at all, would leave there, whatever crashes or fails.
THEOREM StoreIsAtomic == Spec /\ []NoOverlap => ImplementsAtomicWorkspaces
<1>1. Init => Current /\ Atomic!Init
  BY DEF Init, EveryCaller, Current, UpToDate, Atomic!Init
<1>2. IInv /\ NoOverlap /\ Current /\ [Next]_vars => Current'
  BY CurrentStep
<1>3. IInv /\ Current /\ [Next]_vars => [Atomic!Next]_<<files, created>>
  <2> SUFFICES ASSUME IInv, Current, [Next]_vars
               PROVE  Atomic!Next \/ UNCHANGED <<files, created>>
    OBVIOUS
  <2>1. ASSUME NEW t \in Callers, Rename(t) \/ Delete(t)
        PROVE  Atomic!Next \/ UNCHANGED <<files, created>>
    <3>1. target[t] \in WorkspaceIds
      BY <2>1 DEF Rename, Delete, IInv, LocalSound
    <3> QED
      BY <2>1, <3>1, RenameIsAtomic, DeleteIsAtomic DEF Atomic!Next
  <2> QED
    BY <2>1, OthersStutter
<1> QED
  BY <1>1, <1>2, <1>3, Invariance, PTL DEF Spec, ImplementsAtomicWorkspaces, Atomic!Spec

\* In particular when requests come one at a time.
THEOREM SerialStoreIsAtomic ==
  ASSUME NEW c, Callers = {c}
  PROVE  Spec => ImplementsAtomicWorkspaces
<1>1. NoOverlap
  BY DEF NoOverlap
<1>2. []NoOverlap
  BY <1>1, PTL
<1> QED
  BY <1>2, StoreIsAtomic, PTL
=============================================================================
