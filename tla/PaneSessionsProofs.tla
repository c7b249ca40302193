------------------------- MODULE PaneSessionsProofs -------------------------
(***************************************************************************)
(* Proofs about PaneSessions for any number of callers, panes and          *)
(* sessions: a failing OpenWorkspace spares the sessions that were there   *)
(* before it, and the registry holds no session that was reaped. As long   *)
(* as requests do not overlap, a pane has one shell, which is registered,  *)
(* and none when its workspace is deleted.                                 *)
(***************************************************************************)
EXTENDS PaneSessions, TLAPS

Elements(seq) == {seq[i] : i \in 1..Len(seq)}

-----------------------------------------------------------------------------
(* The inductive invariant.                                                *)

\* Where a caller can be, with what in hand.
Phases ==
    \A t \in Callers :
        /\ pc[t] = "idle" => opened[t] = <<>>
        /\ pc[t] \in {"start", "add"} => task[t] = "open" /\ todo[t] # <<>>
        /\ pc[t] \in {"close", "remove"} => task[t] \in Closing /\ todo[t] # <<>>
        /\ task[t] = "undo" => Elements(todo[t]) \subseteq Elements(opened[t])

\* A session that is started and not yet registered is known to its caller
\* alone.
Unshared ==
    \A t \in Callers : pc[t] = "add" =>
        /\ hand[t] \notin Registered \cup reapers
        /\ status[hand[t]] # "gone"
        /\ paneOf[hand[t]] = Head(todo[t])
        /\ \A u \in Callers : hand[t] \notin before[u] /\ (u # t => hand[u] # hand[t])

\* A registered session was started for that pane and has a reaper.
Reapable ==
    /\ \A p \in Panes : registry[p] # None =>
        /\ paneOf[registry[p]] = p
        /\ registry[p] \in reapers
    /\ \A s \in reapers : status[s] # "gone"

\* The panes a call has opened, and the one it is opening, do not hold a
\* session from before the call.
Spared ==
    \A t \in Callers :
        /\ \A p \in Elements(opened[t]) \cap Panes : registry[p] \notin before[t]
        /\ pc[t] \in {"start", "add"} => registry[Head(todo[t])] \notin before[t]
        /\ At(t, {"undo"}, "close") => hand[t] \notin before[t]

IInv == TypeOK /\ Phases /\ Unshared /\ Reapable /\ Spared

-----------------------------------------------------------------------------
(* Sequences of panes.                                                     *)

\* The elements of the rest and of an extension of a sequence.
LEMMA TailElements ==
  ASSUME NEW seq \in Seq(Panes), seq # <<>>
  PROVE  /\ Head(seq) \in Panes /\ Head(seq) \in Elements(seq)
         /\ Tail(seq) \in Seq(Panes)
         /\ Elements(Tail(seq)) \subseteq Elements(seq)
<1>1. Len(seq) \in Nat /\ Len(seq) > 0
  OBVIOUS
<1>2. Head(seq) = seq[1] /\ seq[1] \in Panes
  BY <1>1
<1>3. \A i \in 1..Len(Tail(seq)) : Tail(seq)[i] = seq[i + 1] /\ i + 1 \in 1..Len(seq)
  BY <1>1
<1>4. Tail(seq) \in Seq(Panes)
  BY <1>1
<1> QED
  BY <1>1, <1>2, <1>3, <1>4 DEF Elements

\* Appending a pane adds it to the elements.
LEMMA AppendElements ==
  ASSUME NEW seq \in Seq(Panes), NEW p \in Panes
  PROVE  /\ Append(seq, p) \in Seq(Panes)
         /\ Elements(Append(seq, p)) = Elements(seq) \cup {p}
<1> DEFINE longer == Append(seq, p)
<1>1. /\ Len(seq) \in Nat /\ Len(longer) = Len(seq) + 1
      /\ longer[Len(seq) + 1] = p
      /\ \A i \in 1..Len(seq) : longer[i] = seq[i]
  OBVIOUS
<1>2. \A i \in 1..Len(longer) : i \in 1..Len(seq) \/ i = Len(seq) + 1
  BY <1>1
<1>3. longer \in Seq(Panes)
  OBVIOUS
<1> HIDE DEF longer
<1>4. Elements(longer) = Elements(seq) \cup {p}
  BY <1>1, <1>2 DEF Elements
<1> QED
  BY <1>3, <1>4 DEF longer

\* A sequence of one pane, and of none.
LEMMA ShortSequences ==
  /\ <<>> \in Seq(Panes) /\ Elements(<<>>) = {}
  /\ \A p \in Panes : <<p>> \in Seq(Panes)
BY DEF Elements

-----------------------------------------------------------------------------

\* The initial state satisfies the invariant.
LEMMA InitIInv == Init => IInv
<1> SUFFICES ASSUME Init
             PROVE  IInv
  OBVIOUS
<1>1. /\ \A t \in Callers : task[t] = "none" /\ pc[t] = "idle" /\ hand[t] = None
      /\ \A t \in Callers : todo[t] = <<>> /\ opened[t] = <<>> /\ before[t] = {}
      /\ \A p \in Panes : registry[p] = None
  BY DEF Init, EveryCaller, NothingRegistered
<1>2. TypeOK
  BY <1>1, PaneAssumption, ShortSequences DEF Init, TypeOK, EveryCaller, NothingRegistered, Closing
<1>3. Phases /\ Unshared /\ Reapable /\ Spared
  <2>1. reapers = {}
    BY DEF Init
  <2> QED
    BY <1>1, <2>1, ShortSequences DEF Phases, Unshared, Reapable, Spared, At
<1> QED
  BY <1>2, <1>3 DEF IInv

\* Every step preserves the types.
LEMMA TypeStep == IInv /\ [Next]_vars => TypeOK'
<1> SUFFICES ASSUME IInv, [Next]_vars
             PROVE  TypeOK'
  OBVIOUS
<1>0. TypeOK /\ Phases
  BY DEF IInv
<1>n. None \notin Sessions /\ None \notin Panes /\ Slots \in Seq(Panes)
  BY PaneAssumption
<1> USE DEF sessionVars, serverVars, callVars, Closing
<1>1. ASSUME NEW t \in Callers, NEW operation \in {"open", "delete", "close"},
             NEW panes \in Seq(Panes), Begin(t, operation, panes)
      PROVE  TypeOK'
  <2>1. Registered \in SUBSET Sessions
    BY <1>0 DEF TypeOK, Registered
  <2> QED
    BY <1>0, <1>1, <2>1 DEF Begin, TypeOK
<1>2. ASSUME NEW t \in Callers, Return(t), registry' = registry, status' = status,
             paneOf' = paneOf, reapers' = reapers, stored' \in BOOLEAN,
             server' = server, victims' = victims
      PROVE  TypeOK'
  BY <1>0, <1>2, ShortSequences DEF Return, TypeOK
<1>3. ASSUME NEW t \in Callers, Open(t) \/ Close(t)
      PROVE  TypeOK'
  <2>1. CASE BeginOpen(t) \/ BeginDelete(t) \/ \E p \in Panes : BeginClose(t, p)
    BY <1>1, <1>n, <2>1, ShortSequences DEF BeginOpen, BeginDelete, BeginClose, Begin
  <2>2. CASE OpenReturns(t) \/ CloseFails(t) \/ CloseReturns(t) \/ DeleteStored(t)
    BY <1>0, <1>2, <2>2 DEF OpenReturns, CloseFails, CloseReturns, DeleteStored, TypeOK
  <2>3. CASE Resume(t) \/ NothingToClose(t)
    <3>1. Tail(todo[t]) \in Seq(Panes)
      BY <1>0, <2>3, TailElements DEF Resume, NothingToClose, TypeOK
    <3> QED
      BY <1>0, <2>3, <3>1 DEF Resume, NothingToClose, NextPane, TypeOK
  <2>4. CASE NotRegistered(t)
    BY <1>0, <2>4 DEF NotRegistered, Goto, At, TypeOK
  <2>10. CASE OpenFails(t)
    <3>1. todo' \in [Callers -> Seq(Panes)]
      BY <1>0, <2>10 DEF OpenFails, TypeOK
    <3> QED
      BY <1>0, <2>10, <3>1 DEF OpenFails, Goto, At, TypeOK
  <2>9. CASE CloseFound(t)
    <3>1. status' \in [Sessions -> {"gone", "running", "dying", "done"}]
      BY <1>0, <2>9 DEF CloseFound, Killed, TypeOK
    <3> QED
      BY <1>0, <2>9, <3>1 DEF CloseFound, Goto, At, TypeOK
  <2>5. ASSUME NEW s \in Sessions, StartPane(t, s)
        PROVE  TypeOK'
    <3>1. Head(todo[t]) \in Panes
      BY <1>0, <2>5, TailElements DEF StartPane, At, Phases, TypeOK
    <3>2. /\ status' \in [Sessions -> {"gone", "running", "dying", "done"}]
          /\ paneOf' \in [Sessions -> Panes \cup {None}]
      BY <1>0, <2>5, <3>1 DEF StartPane, TypeOK
    <3>3. /\ pc' \in [Callers -> {"idle", "find", "start", "add", "close", "remove"}]
          /\ hand' \in [Callers -> Sessions \cup {None}]
          /\ \A u \in Callers : pc'[u] \in {"add", "close", "remove"} <=> hand'[u] # None
      BY <1>0, <1>n, <2>5 DEF StartPane, Goto, At, TypeOK
    <3> QED
      BY <1>0, <2>5, <3>2, <3>3 DEF StartPane, TypeOK
  <2>6. CASE Register(t)
    <3>1. /\ Head(todo[t]) \in Panes /\ Tail(todo[t]) \in Seq(Panes)
          /\ Append(opened[t], Head(todo[t])) \in Seq(Panes)
      BY <1>0, <2>6, TailElements, AppendElements DEF Register, At, Phases, TypeOK
    <3> QED
      BY <1>0, <2>6, <3>1, <1>n DEF Register, Goto, NextPane, At, TypeOK
  <2>7. CASE FindSession(t)
    <3>1. Head(todo[t]) \in Panes
      BY <1>0, <2>7, TailElements DEF FindSession, TypeOK
    <3> QED
      BY <1>0, <2>7, <3>1, <1>n DEF FindSession, Goto, At, TypeOK
  <2>8. CASE RemoveFound(t)
    <3>1. Head(todo[t]) \in Panes /\ Tail(todo[t]) \in Seq(Panes)
      BY <1>0, <2>8, TailElements DEF RemoveFound, At, Phases, TypeOK
    <3> QED
      BY <1>0, <2>8, <3>1 DEF RemoveFound, NextPane, Goto, At, TypeOK
  <2> QED
    BY <1>3, <2>1, <2>2, <2>3, <2>4, <2>5, <2>6, <2>7, <2>8, <2>9, <2>10 DEF Open, Close
<1>4. ASSUME NEW s \in Sessions, Session(s) \/ CloseVictim(s)
      PROVE  TypeOK'
  <2>1. CASE ShellExits(s) \/ SessionDone(s)
    BY <1>0, <2>1 DEF ShellExits, SessionDone, TypeOK
  <2>2. CASE Reap(s)
    <3>1. registry' \in [Panes -> Sessions \cup {None}]
      BY <1>0, <2>2 DEF Reap, TypeOK
    <3>2. /\ status' \in [Sessions -> {"gone", "running", "dying", "done"}]
          /\ paneOf' \in [Sessions -> Panes \cup {None}]
      BY <1>0, <2>2 DEF Reap, TypeOK
    <3> QED
      BY <1>0, <2>2, <3>1, <3>2 DEF Reap, TypeOK
  <2>3. CASE CloseVictim(s)
    <3>1. status' \in [Sessions -> {"gone", "running", "dying", "done"}]
      BY <1>0, <2>3 DEF CloseVictim, Killed, TypeOK
    <3> QED
      BY <1>0, <2>3, <3>1 DEF CloseVictim, TypeOK
  <2> QED
    BY <1>4, <2>1, <2>2, <2>3 DEF Session
<1>5. CASE Signal \/ Exit \/ UNCHANGED vars
  BY <1>0, <1>5 DEF Signal, Exit, vars, NothingRegistered, Registered, TypeOK
<1>6. CASE Restart
  BY <1>0, <1>6, ShortSequences DEF Restart, EveryCaller, NothingRegistered, TypeOK
<1> QED
  BY <1>3, <1>4, <1>5, <1>6 DEF Next, Running, Shutdown

\* Every step preserves what is known of where the callers are.
LEMMA PhasesStep == IInv /\ [Next]_vars => Phases'
<1> SUFFICES ASSUME IInv, [Next]_vars
             PROVE  Phases'
  OBVIOUS
<1>0. TypeOK /\ Phases
  BY DEF IInv
<1> USE DEF sessionVars, serverVars, callVars
<1>1. ASSUME NEW t \in Callers, Open(t) \/ Close(t)
      PROVE  Phases'
  <2>1. CASE BeginOpen(t) \/ BeginDelete(t) \/ \E p \in Panes : BeginClose(t, p)
    <3>1. PICK panes : Begin(t, "open", panes) \/ Begin(t, "delete", panes) \/ Begin(t, "close", panes)
      <4>1. CASE BeginOpen(t) \/ BeginDelete(t)
        BY <4>1 DEF BeginOpen, BeginDelete
      <4>2. ASSUME NEW p \in Panes, BeginClose(t, p)
            PROVE  Begin(t, "close", <<p>>)
        BY <4>2 DEF BeginClose
      <4> QED
        BY <2>1, <4>1, <4>2
    <3>2. /\ opened' = opened /\ pc[t] = "idle" /\ pc'[t] = "find"
          /\ task'[t] \in {"open", "delete", "close"}
          /\ \A u \in Callers \ {t} :
                 pc'[u] = pc[u] /\ task'[u] = task[u] /\ todo'[u] = todo[u]
      BY <1>0, <3>1 DEF Begin, TypeOK
    <3> QED
      BY <1>0, <3>2 DEF Phases
  <2>2. CASE OpenReturns(t) \/ CloseFails(t) \/ CloseReturns(t) \/ DeleteStored(t)
    <3>1. CASE OpenReturns(t)
      BY <1>0, <3>1 DEF OpenReturns, Return, Phases, TypeOK
    <3>2. CASE CloseFails(t)
      BY <1>0, <3>2 DEF CloseFails, Return, Phases, TypeOK
    <3>3. CASE CloseReturns(t)
      BY <1>0, <3>3 DEF CloseReturns, Return, Phases, TypeOK
    <3>4. CASE DeleteStored(t)
      BY <1>0, <3>4 DEF DeleteStored, Return, Phases, TypeOK
    <3> QED
      BY <2>2, <3>1, <3>2, <3>3, <3>4
  <2>3. CASE Resume(t) \/ NothingToClose(t)
    <3>1. Elements(Tail(todo[t])) \subseteq Elements(todo[t])
      BY <1>0, <2>3, TailElements DEF Resume, NothingToClose, TypeOK
    <3> QED
      BY <1>0, <2>3, <3>1 DEF Resume, NothingToClose, NextPane, At, Phases, TypeOK
  <2>4. CASE NotRegistered(t) \/ CloseFound(t) \/ FindSession(t) \/ \E s \in Sessions : StartPane(t, s)
    BY <1>0, <2>4 DEF NotRegistered, CloseFound, FindSession, StartPane, Goto, At, Phases, TypeOK
  <2>5. CASE OpenFails(t)
    BY <1>0, <2>5 DEF OpenFails, Goto, At, Phases, TypeOK
  <2>6. CASE Register(t)
    BY <1>0, <2>6 DEF Register, Goto, NextPane, At, Phases, TypeOK
  <2>7. CASE RemoveFound(t)
    <3>1. Elements(Tail(todo[t])) \subseteq Elements(todo[t])
      BY <1>0, <2>7, TailElements DEF RemoveFound, At, Phases, TypeOK
    <3> QED
      BY <1>0, <2>7, <3>1 DEF RemoveFound, Goto, NextPane, At, Phases, TypeOK
  <2> QED
    BY <1>1, <2>1, <2>2, <2>3, <2>4, <2>5, <2>6, <2>7 DEF Open, Close
<1>2. CASE Restart
  BY <1>2 DEF Restart, EveryCaller, Phases
<1>3. CASE (\E s \in Sessions : Session(s)) \/ Shutdown \/ UNCHANGED vars
  BY <1>0, <1>3 DEF Session, ShellExits, SessionDone, Reap, Shutdown, Signal, CloseVictim,
      Exit, vars, Phases
<1> QED
  BY <1>1, <1>2, <1>3 DEF Next, Running

\* Every step preserves that a started session is known to its caller alone.
LEMMA UnsharedStep == IInv /\ [Next]_vars => Unshared'
<1> SUFFICES ASSUME IInv, [Next]_vars
             PROVE  Unshared'
  OBVIOUS
<1>0. TypeOK /\ Phases /\ Unshared /\ Reapable /\ None \notin Sessions /\ None \notin Panes
  BY PaneAssumption DEF IInv
<1> USE DEF sessionVars, serverVars, callVars
<1>1. ASSUME NEW t \in Callers, Open(t) \/ Close(t)
      PROVE  Unshared'
  <2>1. CASE BeginOpen(t) \/ BeginDelete(t) \/ \E p \in Panes : BeginClose(t, p)
    <3>1. PICK panes : Begin(t, "open", panes) \/ Begin(t, "delete", panes) \/ Begin(t, "close", panes)
      <4>1. CASE BeginOpen(t) \/ BeginDelete(t)
        BY <4>1 DEF BeginOpen, BeginDelete
      <4>2. ASSUME NEW p \in Panes, BeginClose(t, p)
            PROVE  Begin(t, "close", <<p>>)
        BY <4>2 DEF BeginClose
      <4> QED
        BY <2>1, <4>1, <4>2
    <3>2. /\ UNCHANGED <<registry, status, paneOf, reapers, hand>> /\ Registered' = Registered
          /\ pc' = [pc EXCEPT ![t] = "find"] /\ before' = [before EXCEPT ![t] = Registered]
          /\ \A u \in Callers : u # t => todo'[u] = todo[u]
      BY <1>0, <3>1 DEF Begin, Registered, TypeOK
    <3> QED
      BY <1>0, <3>2 DEF Unshared, TypeOK
  <2>2. CASE OpenReturns(t) \/ CloseFails(t) \/ CloseReturns(t) \/ DeleteStored(t)
    <3>1. /\ UNCHANGED <<registry, status, paneOf, reapers>> /\ Registered' = Registered
          /\ pc' = [pc EXCEPT ![t] = "idle"] /\ before' = [before EXCEPT ![t] = {}]
          /\ hand' = [hand EXCEPT ![t] = None]
          /\ \A u \in Callers : u # t => todo'[u] = todo[u]
      <4>1. Return(t) /\ UNCHANGED <<registry, status, paneOf, reapers>>
        BY <2>2 DEF OpenReturns, CloseFails, CloseReturns, DeleteStored
      <4> QED
        BY <1>0, <4>1 DEF Return, Registered, TypeOK
    <3> QED
      BY <1>0, <3>1 DEF Unshared, TypeOK
  <2>3. CASE Resume(t) \/ NothingToClose(t)
    <3>1. /\ UNCHANGED <<registry, status, paneOf, reapers, hand, pc, before>>
          /\ Registered' = Registered /\ pc[t] = "find"
          /\ \A u \in Callers : u # t => todo'[u] = todo[u]
      BY <1>0, <2>3 DEF Resume, NothingToClose, NextPane, At, Registered, TypeOK
    <3> QED
      BY <1>0, <3>1 DEF Unshared
  <2>4. CASE NotRegistered(t) \/ OpenFails(t)
    BY <1>0, <2>4 DEF NotRegistered, OpenFails, Goto, At, Unshared, Registered, TypeOK
  <2>5. ASSUME NEW s \in Sessions, StartPane(t, s)
        PROVE  Unshared'
    <3>1. s \notin Registered /\ s \notin reapers
      BY <1>0, <2>5 DEF StartPane, Fresh, Reapable
    <3>2. /\ \A u \in Callers : hand[u] # s /\ s \notin before[u]
          /\ UNCHANGED <<registry, reapers, before, todo>>
          /\ hand' = [hand EXCEPT ![t] = s] /\ pc' = [pc EXCEPT ![t] = "add"]
          /\ status' = [status EXCEPT ![s] = "running"]
          /\ paneOf' = [paneOf EXCEPT ![s] = Head(todo[t])]
          /\ Registered' = Registered
      BY <2>5 DEF StartPane, Fresh, Goto, Registered
    <3> QED
      BY <1>0, <3>1, <3>2 DEF Unshared, TypeOK
  <2>6. CASE Register(t)
    <3>1. Head(todo[t]) \in Panes
      BY <1>0, <2>6, TailElements DEF Register, At, Phases, TypeOK
    <3>2. /\ Registered' \subseteq Registered \cup {hand[t]}
          /\ reapers' = reapers \cup {hand[t]}
          /\ hand' = [hand EXCEPT ![t] = None] /\ pc' = [pc EXCEPT ![t] = "find"]
          /\ todo' = [todo EXCEPT ![t] = Tail(todo[t])]
          /\ UNCHANGED <<status, paneOf, before>>
          /\ pc[t] = "add"
      BY <1>0, <2>6, <3>1 DEF Register, Goto, NextPane, At, Registered, TypeOK
    <3> QED
      BY <1>0, <3>2 DEF Unshared, TypeOK
  <2>7. CASE FindSession(t)
    <3>1. Head(todo[t]) \in Panes
      BY <1>0, <2>7, TailElements DEF FindSession, TypeOK
    <3>2. /\ registry[Head(todo[t])] \in Registered
          /\ hand' = [hand EXCEPT ![t] = registry[Head(todo[t])]]
          /\ pc' = [pc EXCEPT ![t] = "close"]
          /\ UNCHANGED <<status, paneOf, before, todo, reapers>>
          /\ Registered' = Registered
      BY <2>7, <3>1 DEF FindSession, Goto, At, Registered
    <3> QED
      BY <1>0, <3>2 DEF Unshared, TypeOK
  <2>8. CASE CloseFound(t)
    BY <1>0, <2>8 DEF CloseFound, Killed, Goto, At, Unshared, Registered, TypeOK
  <2>9. CASE RemoveFound(t)
    BY <1>0, <2>9 DEF RemoveFound, Goto, NextPane, At, Unshared, Registered, TypeOK
  <2> QED
    BY <1>1, <2>1, <2>2, <2>3, <2>4, <2>5, <2>6, <2>7, <2>8, <2>9 DEF Open, Close
<1>2. ASSUME NEW s \in Sessions, Session(s) \/ CloseVictim(s)
      PROVE  Unshared'
  BY <1>0, <1>2 DEF Session, ShellExits, SessionDone, Reap, CloseVictim, Killed, Unshared,
      Registered, TypeOK
<1>3. CASE Signal \/ Exit \/ UNCHANGED vars
  BY <1>0, <1>3 DEF Signal, Exit, vars, NothingRegistered, Unshared, Registered
<1>4. CASE Restart
  BY <1>4 DEF Restart, EveryCaller, Unshared
<1> QED
  BY <1>1, <1>2, <1>3, <1>4 DEF Next, Running, Shutdown

\* Every step preserves that a registered session has a reaper.
LEMMA ReapableStep == IInv /\ [Next]_vars => Reapable'
<1> SUFFICES ASSUME IInv, [Next]_vars
             PROVE  Reapable'
  OBVIOUS
<1>0. TypeOK /\ Phases /\ Unshared /\ Reapable /\ None \notin Sessions /\ None \notin Panes
  BY PaneAssumption DEF IInv
<1> USE DEF sessionVars, serverVars, callVars
<1>1. ASSUME NEW t \in Callers, Open(t) \/ Close(t)
      PROVE  Reapable'
  <2>1. CASE \/ BeginOpen(t) \/ BeginDelete(t) \/ (\E p \in Panes : BeginClose(t, p))
             \/ OpenReturns(t) \/ CloseFails(t) \/ CloseReturns(t) \/ DeleteStored(t)
             \/ Resume(t) \/ NothingToClose(t) \/ NotRegistered(t) \/ OpenFails(t)
             \/ FindSession(t)
    <3>1. UNCHANGED <<registry, status, paneOf, reapers>>
      BY <2>1 DEF BeginOpen, BeginDelete, BeginClose, Begin, OpenReturns, CloseFails,
          CloseReturns, DeleteStored, Resume, NothingToClose, NotRegistered, OpenFails, FindSession
    <3> QED
      BY <1>0, <3>1 DEF Reapable
  <2>2. ASSUME NEW s \in Sessions, StartPane(t, s)
        PROVE  Reapable'
    BY <1>0, <2>2 DEF StartPane, Fresh, Reapable, Registered, TypeOK
  <2>3. CASE Register(t)
    <3>1. Head(todo[t]) \in Panes /\ hand[t] \in Sessions /\ pc[t] = "add"
      BY <1>0, <2>3, TailElements DEF Register, At, Phases, TypeOK
    <3>2. status[hand[t]] # "gone" /\ paneOf[hand[t]] = Head(todo[t])
      BY <1>0, <3>1 DEF Unshared
    <3> QED
      BY <1>0, <2>3, <3>1, <3>2 DEF Register, Reapable, TypeOK
  <2>4. CASE CloseFound(t)
    BY <1>0, <2>4 DEF CloseFound, Killed, Reapable, TypeOK
  <2>5. CASE RemoveFound(t)
    BY <1>0, <2>5 DEF RemoveFound, Reapable, TypeOK
  <2> QED
    BY <1>1, <2>1, <2>2, <2>3, <2>4, <2>5 DEF Open, Close
<1>2. ASSUME NEW s \in Sessions, ShellExits(s) \/ SessionDone(s) \/ CloseVictim(s)
      PROVE  Reapable'
  BY <1>0, <1>2 DEF ShellExits, SessionDone, CloseVictim, Killed, Reapable, TypeOK
<1>3. ASSUME NEW s \in Sessions, Reap(s)
      PROVE  Reapable'
  BY <1>0, <1>3 DEF Reap, Reapable, TypeOK
<1>4. CASE Signal \/ Exit \/ Restart \/ UNCHANGED vars
  BY <1>0, <1>4 DEF Signal, Exit, Restart, vars, NothingRegistered, Reapable
<1> QED
  BY <1>1, <1>2, <1>3, <1>4 DEF Next, Running, Session, Shutdown

\* Every step preserves that the panes of a call hold no earlier session.
LEMMA SparedStep == IInv /\ [Next]_vars => Spared'
<1> SUFFICES ASSUME IInv, [Next]_vars
             PROVE  Spared'
  OBVIOUS
<1>0. TypeOK /\ Phases /\ Unshared /\ Spared /\ None \notin Sessions /\ None \notin Panes
  BY PaneAssumption DEF IInv
<1> USE DEF sessionVars, serverVars, callVars
<1>1. ASSUME NEW t \in Callers, Open(t) \/ Close(t)
      PROVE  Spared'
  <2>1. CASE BeginOpen(t) \/ BeginDelete(t) \/ \E p \in Panes : BeginClose(t, p)
    <3>1. Elements(opened[t]) = {}
      BY <1>0, <2>1, ShortSequences DEF BeginOpen, BeginDelete, BeginClose, Begin, Phases
    <3> QED
      <4>1. CASE BeginOpen(t)
        BY <1>0, <3>1, <4>1 DEF BeginOpen, Begin, At, Spared, TypeOK
      <4>2. CASE BeginDelete(t)
        BY <1>0, <3>1, <4>2 DEF BeginDelete, Begin, At, Spared, TypeOK
      <4>3. CASE \E p \in Panes : BeginClose(t, p)
        BY <1>0, <3>1, <4>3 DEF BeginClose, Begin, At, Spared, TypeOK
      <4> QED
        BY <2>1, <4>1, <4>2, <4>3
  <2>2. CASE OpenReturns(t) \/ CloseFails(t) \/ CloseReturns(t) \/ DeleteStored(t)
    <3>1. CASE OpenReturns(t)
      BY <1>0, <3>1, ShortSequences DEF OpenReturns, Return, At, Spared, TypeOK
    <3>2. CASE CloseFails(t)
      BY <1>0, <3>2, ShortSequences DEF CloseFails, Return, At, Spared, TypeOK
    <3>3. CASE CloseReturns(t)
      BY <1>0, <3>3, ShortSequences DEF CloseReturns, Return, At, Spared, TypeOK
    <3>4. CASE DeleteStored(t)
      BY <1>0, <3>4, ShortSequences DEF DeleteStored, Return, At, Spared, TypeOK
    <3> QED
      BY <2>2, <3>1, <3>2, <3>3, <3>4
  <2>3. CASE Resume(t) \/ NothingToClose(t)
    BY <1>0, <2>3 DEF Resume, NothingToClose, NextPane, At, Spared, TypeOK
  <2>4. CASE NotRegistered(t)
    BY <1>0, <2>4 DEF NotRegistered, Goto, At, Spared, TypeOK
  <2>5. CASE OpenFails(t)
    BY <1>0, <2>5 DEF OpenFails, Goto, At, Spared, TypeOK
  <2>6. ASSUME NEW s \in Sessions, StartPane(t, s)
        PROVE  Spared'
    BY <1>0, <2>6 DEF StartPane, Goto, At, Spared, TypeOK
  <2>7. CASE Register(t)
    <3>1. Head(todo[t]) \in Panes /\ hand[t] \in Sessions /\ pc[t] = "add"
      BY <1>0, <2>7, TailElements DEF Register, At, Phases, TypeOK
    <3>2. \A u \in Callers : hand[t] \notin before[u]
      BY <1>0, <3>1 DEF Unshared
    <3>3. \A p \in Panes : registry'[p] = registry[p] \/ registry'[p] = hand[t]
      BY <1>0, <2>7 DEF Register, TypeOK
    <3>4. /\ registry'[Head(todo[t])] = hand[t]
          /\ Elements(opened'[t]) = Elements(opened[t]) \cup {Head(todo[t])}
      BY <1>0, <2>7, <3>1, AppendElements DEF Register, TypeOK
    <3>5. \A u \in Callers : /\ u # t => todo'[u] = todo[u] /\ opened'[u] = opened[u] /\ pc'[u] = pc[u]
                             /\ task'[u] = task[u] /\ before'[u] = before[u]
                             /\ u # t => hand'[u] = hand[u]
                             /\ pc'[t] = "find"
      BY <1>0, <2>7 DEF Register, Goto, NextPane, TypeOK
    <3>6. \A u \in Callers : pc[u] \in {"start", "add"} => Head(todo[u]) \in Panes
      BY <1>0, TailElements DEF Phases, TypeOK
    <3> QED
      BY <1>0, <3>2, <3>3, <3>4, <3>5, <3>6 DEF Spared, At
  <2>8. CASE FindSession(t)
    <3>1. /\ Head(todo[t]) \in Panes /\ Head(todo[t]) \in Elements(todo[t])
          /\ task[t] = "undo" => Elements(todo[t]) \subseteq Elements(opened[t])
      BY <1>0, <2>8, TailElements DEF FindSession, Phases, TypeOK
    <3> QED
      BY <1>0, <2>8, <3>1 DEF FindSession, Goto, At, Spared, TypeOK
  <2>9. CASE CloseFound(t)
    BY <1>0, <2>9 DEF CloseFound, Goto, At, Spared, TypeOK
  <2>10. CASE RemoveFound(t)
    <3>1. Head(todo[t]) \in Panes
      BY <1>0, <2>10, TailElements DEF RemoveFound, At, Phases, TypeOK
    <3>2. \A p \in Panes : registry'[p] \in {registry[p], None}
      BY <1>0, <2>10, <3>1 DEF RemoveFound, TypeOK
    <3>3. \A u \in Callers : pc[u] \in {"start", "add"} => Head(todo[u]) \in Panes
      BY <1>0, TailElements DEF Phases, TypeOK
    <3> QED
      BY <1>0, <2>10, <3>2, <3>3 DEF RemoveFound, Goto, NextPane, At, Spared, TypeOK
  <2> QED
    BY <1>1, <2>1, <2>2, <2>3, <2>4, <2>5, <2>6, <2>7, <2>8, <2>9, <2>10 DEF Open, Close
<1>2. CASE (\E s \in Sessions : Session(s)) \/ Shutdown \/ UNCHANGED vars
  <2>1. \A p \in Panes : registry'[p] \in {registry[p], None}
    BY <1>0, <1>2 DEF Session, ShellExits, SessionDone, Reap, Shutdown, Signal, CloseVictim,
        Exit, vars, NothingRegistered, TypeOK
  <2>2. UNCHANGED callVars
    BY <1>2 DEF Session, ShellExits, SessionDone, Reap, Shutdown, Signal, CloseVictim, Exit, vars
  <2>3. \A u \in Callers : pc[u] \in {"start", "add"} => Head(todo[u]) \in Panes
    BY <1>0, TailElements DEF Phases, TypeOK
  <2>4. \A u \in Callers : None \notin before[u]
    BY <1>0 DEF TypeOK
  <2>5. /\ task' = task /\ pc' = pc /\ todo' = todo
        /\ opened' = opened /\ hand' = hand /\ before' = before
    BY <2>2
  <2> QED
    BY <1>0, <2>1, <2>3, <2>4, <2>5 DEF Spared, At
<1>3. CASE Restart
  BY <1>3 DEF Restart, EveryCaller, At, Spared
<1> QED
  BY <1>1, <1>2, <1>3 DEF Next, Running

\* The invariant holds in every reachable state.
THEOREM Invariance == Spec => []IInv
<1>1. IInv /\ [Next]_vars => IInv'
  BY TypeStep, PhasesStep, UnsharedStep, ReapableStep, SparedStep DEF IInv
<1> QED
  BY InitIInv, <1>1, PTL DEF Spec

\* Every variable keeps its type.
THEOREM TypeCorrect == Spec => []TypeOK
<1>1. IInv => TypeOK
  BY DEF IInv
<1> QED
  BY <1>1, Invariance, PTL

\* However many calls interleave, an OpenWorkspace that fails never closes a
\* session that was registered when it began.
THEOREM RollbackCorrect == Spec => []RollbackSparesExisting
<1>1. IInv => RollbackSparesExisting
  BY DEF IInv, Spared, RollbackSparesExisting
<1> QED
  BY <1>1, Invariance, PTL

\* The registry holds no session whose reaper has run.
THEOREM ReaperCorrect == Spec => []ReapedIsGone
<1>1. IInv => ReapedIsGone
  BY DEF IInv, Reapable, ReapedIsGone, Registered
<1> QED
  BY <1>1, Invariance, PTL

-----------------------------------------------------------------------------
(* Requests that do not overlap. Each part of Orderly needs the others: a   *)
(* reaper removes its pane whatever is registered there, which is harmless  *)
(* only because no session has a rival, and there is no rival because what  *)
(* is alive is registered and therefore resumed.                            *)

\* A call opens or deletes; after a deletion there is none.
Calls ==
    /\ \A t \in Callers :
         /\ task[t] \in {"none", "open", "delete"}
         /\ pc[t] = "idle" <=> task[t] = "none"
    /\ stored \/ pc = EveryCaller("idle")

\* What is registered for the pane of a session is that session or nothing.
NoRival ==
    \A s \in Sessions : status[s] # "gone" =>
        /\ paneOf[s] \in Panes
        /\ registry[paneOf[s]] \in {s, None}

\* A session is in the registry, or in the hand of the call that started it,
\* until its reaper has run; nothing is registered for a pane being opened.
Known ==
    /\ stored /\ (\A t \in Callers : task[t] # "delete") =>
         \A s \in Sessions : status[s] # "gone" =>
             \/ registry[paneOf[s]] = s
             \/ \E t \in Callers : pc[t] = "add" /\ hand[t] = s
    /\ \A t \in Callers : pc[t] \in {"start", "add"} => registry[Head(todo[t])] = None

\* A deletion has yet to come to every pane with a running shell; when it is
\* over no shell runs.
Deleting ==
    /\ \A t \in Callers : task[t] = "delete" =>
         /\ \A s \in Sessions : status[s] = "running" =>
              registry[paneOf[s]] = s /\ paneOf[s] \in Elements(todo[t])
         /\ pc[t] \in {"close", "remove"} => registry[Head(todo[t])] \in {hand[t], None}
         /\ pc[t] = "remove" => status[hand[t]] # "running"
    /\ stored \/ \A s \in Sessions : status[s] # "running"

Quiet == NoRival /\ Known /\ Deleting

Orderly == Calls /\ (server = "up" => Quiet)

\* What Tail leaves out is the head.
LEMMA RestElements ==
  ASSUME NEW seq \in Seq(Panes), seq # <<>>
  PROVE  Elements(seq) \subseteq {Head(seq)} \cup Elements(Tail(seq))
<1>1. Len(seq) \in Nat /\ Len(seq) > 0
  OBVIOUS
<1>2. /\ Head(seq) = seq[1]
      /\ Len(Tail(seq)) = Len(seq) - 1
      /\ \A i \in 1..(Len(seq) - 1) : Tail(seq)[i] = seq[i + 1]
  BY <1>1
<1>3. ASSUME NEW i \in 1..Len(seq), i # 1
      PROVE  seq[i] \in Elements(Tail(seq))
  <2>1. i - 1 \in 1..Len(Tail(seq)) /\ Tail(seq)[i - 1] = seq[i]
    BY <1>1, <1>2, <1>3
  <2> QED
    BY <2>1 DEF Elements
<1> QED
  BY <1>2, <1>3 DEF Elements

\* Every step that is no failure keeps calls to opening and deleting, and
\* nothing is requested once the workspace is deleted.
LEMMA CallsStep ==
  ASSUME Undisturbed, IInv, OneAtATime, Calls, [Next]_vars
  PROVE  Calls'
<1>0. TypeOK /\ Phases /\ MayFail = FALSE /\ "close" \notin Operations
  BY DEF IInv, Undisturbed
<1> USE DEF sessionVars, serverVars, callVars
<1>1. ASSUME NEW t \in Callers, Open(t) \/ Close(t)
      PROVE  Calls'
  <2>1. CASE BeginOpen(t) \/ BeginDelete(t)
    BY <1>0, <2>1 DEF BeginOpen, BeginDelete, Begin, Calls, TypeOK
  <2>2. ASSUME NEW p \in Panes, BeginClose(t, p)
        PROVE  FALSE
    BY <1>0, <2>2 DEF BeginClose, Begin
  <2>3. ~OpenFails(t) /\ ~CloseFails(t)
    <3>1. ~OpenFails(t)
      BY <1>0, Zenon DEF OpenFails
    <3>2. task[t] \in {"none", "open", "delete"}
      BY DEF Calls
    <3> QED
      BY <3>1, <3>2 DEF CloseFails, At
  <2>4. CASE OpenReturns(t) \/ CloseReturns(t)
    <3>1. /\ pc[t] # "idle" /\ stored' = stored
          /\ pc' = [pc EXCEPT ![t] = "idle"] /\ task' = [task EXCEPT ![t] = "none"]
      BY <2>4 DEF OpenReturns, CloseReturns, Return, At
    <3>2. stored
      BY <3>1 DEF Calls, EveryCaller
    <3> QED
      BY <1>0, <3>1, <3>2 DEF Calls, TypeOK
  <2>5. CASE DeleteStored(t)
    <3>1. pc[t] # "idle" /\ pc' = [pc EXCEPT ![t] = "idle"] /\ task' = [task EXCEPT ![t] = "none"]
      BY <2>5 DEF DeleteStored, Return, At
    <3>2. \A u \in Callers \ {t} : pc[u] = "idle"
      BY <3>1 DEF OneAtATime
    <3>3. pc' = EveryCaller("idle")
      BY <1>0, <3>1, <3>2 DEF TypeOK, EveryCaller
    <3> QED
      BY <1>0, <3>1, <3>3 DEF Calls, TypeOK, EveryCaller
  <2>6. CASE Resume(t) \/ NothingToClose(t)
    BY <1>0, <2>6 DEF Resume, NothingToClose, Calls
  <2>7. CASE NotRegistered(t) \/ (\E s \in Sessions : StartPane(t, s)) \/ Register(t)
             \/ FindSession(t) \/ CloseFound(t) \/ RemoveFound(t)
    <3>1. /\ pc[t] # "idle"
          /\ \E place \in {"start", "add", "find", "close", "remove"} : pc' = [pc EXCEPT ![t] = place]
          /\ task' = task /\ stored' = stored
      BY <2>7 DEF NotRegistered, StartPane, Register, FindSession, CloseFound, RemoveFound, Goto, At
    <3> QED
      BY <1>0, <3>1 DEF Calls, EveryCaller, TypeOK
  <2> QED
    BY <1>1, <2>1, <2>2, <2>3, <2>4, <2>5, <2>6, <2>7 DEF Open, Close
<1>2. CASE (\E s \in Sessions : Session(s)) \/ Shutdown \/ UNCHANGED vars
  <2>1. task' = task /\ pc' = pc /\ stored' = stored
    BY <1>2 DEF Session, ShellExits, SessionDone, Reap, Shutdown, Signal, CloseVictim, Exit, vars
  <2> QED
    BY <2>1 DEF Calls, EveryCaller
<1>3. CASE Restart
  BY <1>3 DEF Restart, EveryCaller, Calls
<1> QED
  BY <1>1, <1>2, <1>3 DEF Next, Running

\* A session that ends, is reaped or is closed does not disturb the others:
\* its reaper only removes the session itself.
LEMMA QuietSessionStep ==
  ASSUME IInv, Calls, Quiet, NEW s \in Sessions, Session(s) \/ CloseVictim(s)
  PROVE  Quiet'
<1>0. TypeOK /\ Unshared /\ Reapable /\ None \notin Sessions /\ None \notin Panes
  BY PaneAssumption DEF IInv
<1>t. UNCHANGED <<stored, callVars>>
  BY DEF Session, ShellExits, SessionDone, Reap, CloseVictim
<1>u. /\ stored' = stored /\ task' = task /\ pc' = pc /\ todo' = todo /\ hand' = hand
  BY <1>t DEF callVars
<1>1. ASSUME UNCHANGED <<registry, paneOf>>,
             \A r \in Sessions : /\ status'[r] = "gone" <=> status[r] = "gone"
                                 /\ status'[r] = "running" => status[r] = "running"
      PROVE  Quiet'
  <2>1. NoRival'
    BY <1>1 DEF Quiet, NoRival
  <2>2. Known'
    BY <1>1, <1>u DEF Quiet, Known
  <2>3. Deleting'
    <3>1. \A t \in Callers : pc[t] = "remove" => hand[t] \in Sessions
      BY <1>0 DEF TypeOK
    <3> QED
      BY <1>1, <1>u, <3>1 DEF Quiet, Deleting
  <2> QED
    BY <2>1, <2>2, <2>3 DEF Quiet
<1>2. CASE ShellExits(s) \/ SessionDone(s)
  BY <1>0, <1>1, <1>2 DEF ShellExits, SessionDone, TypeOK
<1>3. CASE CloseVictim(s)
  BY <1>0, <1>1, <1>3 DEF CloseVictim, Killed, TypeOK
<1>4. CASE Reap(s)
  <2>1. /\ status[s] = "done" /\ paneOf[s] \in Panes /\ s \in reapers
        /\ registry[paneOf[s]] \in {s, None}
    BY <1>4 DEF Reap, Quiet, NoRival
  <2>2. /\ registry' = [registry EXCEPT ![paneOf[s]] = None]
        /\ status' = [status EXCEPT ![s] = "gone"]
        /\ paneOf' = [paneOf EXCEPT ![s] = None]
    BY <1>4 DEF Reap
  <2>3. /\ \A p \in Panes : registry'[p] = IF p = paneOf[s] THEN None ELSE registry[p]
        /\ \A r \in Sessions \ {s} : status'[r] = status[r] /\ paneOf'[r] = paneOf[r]
        /\ status'[s] = "gone"
    BY <1>0, <2>2 DEF TypeOK
  <2>4. \A r \in Sessions \ {s} : status[r] # "gone" /\ registry[paneOf[r]] = r =>
            registry'[paneOf[r]] = r
    BY <1>0, <2>1, <2>3 DEF Quiet, NoRival
  <2>5. NoRival'
    BY <2>3 DEF Quiet, NoRival
  <2>6. Known'
    <3>1. \A t \in Callers : pc[t] \in {"start", "add"} => Head(todo[t]) \in Panes
      BY <1>0, TailElements DEF IInv, Phases, TypeOK
    <3> QED
      BY <1>u, <2>3, <2>4, <3>1 DEF Quiet, Known
  <2>7. Deleting'
    <3>1. \A t \in Callers : pc[t] \in {"close", "remove"} =>
              Head(todo[t]) \in Panes /\ hand[t] \in Sessions
      BY <1>0, TailElements DEF IInv, Phases, TypeOK
    <3> QED
      BY <1>u, <2>3, <2>4, <3>1 DEF Quiet, Deleting
  <2> QED
    BY <2>5, <2>6, <2>7 DEF Quiet
<1> QED
  BY <1>2, <1>3, <1>4 DEF Session

\* While one call is busy the others are idle, hold nothing and do nothing.
LEMMA OthersIdle ==
  ASSUME IInv, OneAtATime, Calls, NEW t \in Callers, pc[t] # "idle"
  PROVE  /\ stored
         /\ \A u \in Callers \ {t} : pc[u] = "idle" /\ task[u] = "none"
BY DEF OneAtATime, Calls, EveryCaller

\* Opening does not disturb the sessions: a pane gets a session only when none
\* of that pane is alive.
LEMMA QuietOpenStep ==
  ASSUME Undisturbed, IInv, OneAtATime, OneAtATime', Calls, Quiet,
         NEW t \in Callers, Open(t)
  PROVE  Quiet'
<1>0. TypeOK /\ Unshared /\ Reapable /\ None \notin Sessions /\ None \notin Panes
  BY PaneAssumption DEF IInv
<1>p. \A u \in Callers : pc[u] \in {"start", "add"} => Head(todo[u]) \in Panes
  BY <1>0, TailElements DEF IInv, Phases, TypeOK
<1> USE DEF sessionVars, serverVars, callVars
<1>1. CASE BeginOpen(t)
  <2>1. /\ UNCHANGED <<registry, status, paneOf, hand, stored>> /\ stored
        /\ pc[t] = "idle" /\ pc' = [pc EXCEPT ![t] = "find"]
        /\ task' = [task EXCEPT ![t] = "open"]
    BY <1>1 DEF BeginOpen, Begin
  <2>2. \A u \in Callers \ {t} : pc[u] = "idle" /\ pc'[u] = "idle"
    BY <1>0, <2>1 DEF OneAtATime, TypeOK
  <2>3. \A u \in Callers : pc[u] = "idle" /\ task[u] = "none" /\ pc'[u] \in {"idle", "find"}
                           /\ task'[u] # "delete"
    BY <1>0, <2>1, <2>2 DEF Calls, TypeOK
  <2> QED
    BY <2>1, <2>3, Zenon DEF Quiet, NoRival, Known, Deleting
<1>2. CASE OpenReturns(t)
  <2>1. /\ UNCHANGED <<registry, status, paneOf, stored>> /\ pc[t] = "find"
        /\ pc' = [pc EXCEPT ![t] = "idle"] /\ task' = [task EXCEPT ![t] = "none"]
        /\ task[t] = "open"
    BY <1>2 DEF OpenReturns, Return, At
  <2>2. stored /\ \A u \in Callers : u # t => pc[u] = "idle" /\ task[u] = "none"
    BY <2>1, OthersIdle
  <2>3. \A u \in Callers : /\ pc[u] # "add" /\ pc'[u] = "idle"
                           /\ task[u] # "delete" /\ task'[u] # "delete"
    BY <1>0, <2>1, <2>2 DEF TypeOK
  <2> QED
    BY <2>1, <2>2, <2>3, Zenon DEF Quiet, NoRival, Known, Deleting
<1>3. CASE Resume(t)
  <2>1. /\ UNCHANGED <<registry, status, paneOf, stored, pc, task, hand>> /\ pc[t] = "find"
        /\ task[t] = "open"
    BY <1>3 DEF Resume, At
  <2>2. stored /\ \A u \in Callers : u # t => pc[u] = "idle" /\ task[u] = "none"
    BY <2>1, OthersIdle
  <2>3. \A u \in Callers : pc[u] \in {"idle", "find"} /\ task[u] # "delete"
    BY <2>1, <2>2
  <2> QED
    BY <2>1, <2>2, <2>3 DEF Quiet, NoRival, Known, Deleting
<1>4. CASE NotRegistered(t)
  <2>1. /\ UNCHANGED <<registry, status, paneOf, stored, todo, task, hand>> /\ pc[t] = "find"
        /\ task[t] = "open" /\ pc' = [pc EXCEPT ![t] = "start"]
        /\ registry[Head(todo[t])] = None
    BY <1>4 DEF NotRegistered, Goto, At
  <2>2. stored /\ \A u \in Callers : u # t => pc[u] = "idle" /\ task[u] = "none"
    BY <2>1, OthersIdle
  <2>3. \A u \in Callers : /\ task[u] # "delete" /\ pc[u] # "add"
                           /\ pc'[u] \in {"start", "add"} => u = t
    BY <1>0, <2>1, <2>2 DEF TypeOK
  <2> QED
    BY <2>1, <2>2, <2>3 DEF Quiet, NoRival, Known, Deleting
<1>5. ASSUME NEW s \in Sessions, StartPane(t, s)
      PROVE  Quiet'
  <2>1. /\ UNCHANGED <<registry, stored, todo, task>> /\ pc[t] = "start" /\ task[t] = "open"
        /\ pc' = [pc EXCEPT ![t] = "add"] /\ hand' = [hand EXCEPT ![t] = s]
        /\ status' = [status EXCEPT ![s] = "running"]
        /\ paneOf' = [paneOf EXCEPT ![s] = Head(todo[t])]
        /\ Head(todo[t]) \in Panes /\ registry[Head(todo[t])] = None
    BY <1>5, <1>p DEF StartPane, Goto, At, Quiet, Known
  <2>2. stored /\ \A u \in Callers : u # t => pc[u] = "idle" /\ task[u] = "none"
    BY <2>1, OthersIdle
  <2>3. \A u \in Callers : /\ task[u] # "delete" /\ pc[u] # "add"
                           /\ pc'[u] \in {"start", "add"} => u = t
    BY <1>0, <2>1, <2>2 DEF TypeOK
  <2>4. pc'[t] = "add" /\ hand'[t] = s
    BY <1>0, <2>1 DEF TypeOK
  <2>5. /\ status'[s] = "running" /\ paneOf'[s] = Head(todo[t])
        /\ \A r \in Sessions \ {s} : status'[r] = status[r] /\ paneOf'[r] = paneOf[r]
    BY <1>0, <2>1 DEF TypeOK
  <2>6. NoRival'
    BY <2>1, <2>5 DEF Quiet, NoRival
  <2>7. Known'
    BY <2>1, <2>2, <2>3, <2>4, <2>5 DEF Quiet, Known
  <2>8. Deleting'
    BY <2>1, <2>2, <2>3 DEF Deleting
  <2> QED
    BY <2>6, <2>7, <2>8 DEF Quiet
<1>6. CASE Register(t)
  <2> DEFINE s == hand[t]
             p == Head(todo[t])
  <2>1. /\ UNCHANGED <<status, paneOf, stored, task>> /\ pc[t] = "add" /\ task[t] = "open"
        /\ pc' = [pc EXCEPT ![t] = "find"] /\ registry' = [registry EXCEPT ![p] = s]
        /\ p \in Panes /\ registry[p] = None
    BY <1>6, <1>p DEF Register, Goto, At, Quiet, Known
  <2>2. stored /\ \A u \in Callers : u # t => pc[u] = "idle" /\ task[u] = "none"
    BY <2>1, OthersIdle
  <2>3. \A u \in Callers : /\ task[u] # "delete" /\ (pc[u] = "add" => u = t)
                           /\ pc'[u] \in {"idle", "find"}
    BY <1>0, <2>1, <2>2 DEF TypeOK
  <2>4. s \in Sessions /\ paneOf[s] = p
    BY <1>0, <2>1 DEF Unshared, TypeOK
  <2>5. \A r \in Sessions : status[r] # "gone" => registry[paneOf[r]] = r \/ r = s
    BY <2>2, <2>3 DEF Quiet, Known
  <2>6. ASSUME NEW r \in Sessions, status[r] # "gone"
        PROVE  paneOf[r] \in Panes /\ registry'[paneOf[r]] = r
    <3>1. paneOf[r] \in Panes
      BY <2>6 DEF Quiet, NoRival
    <3>2. r # s => paneOf[r] # p
      BY <1>0, <2>1, <2>5, <2>6
    <3> QED
      BY <1>0, <2>1, <2>4, <2>5, <2>6, <3>1, <3>2 DEF TypeOK
  <2>7. NoRival' /\ Known' /\ Deleting'
    BY <2>1, <2>2, <2>3, <2>6 DEF NoRival, Known, Deleting
  <2> QED
    BY <2>7 DEF Quiet
<1>7. ~OpenFails(t)
  BY Zenon DEF OpenFails, Undisturbed
<1> QED
  BY <1>1, <1>2, <1>3, <1>4, <1>5, <1>6, <1>7 DEF Open

\* A deletion closes pane after pane: what it has passed does not run.
LEMMA QuietCloseStep ==
  ASSUME Undisturbed, IInv, OneAtATime, OneAtATime', Calls, Quiet,
         NEW t \in Callers, Close(t)
  PROVE  Quiet'
<1>0. TypeOK /\ Phases /\ None \notin Sessions /\ None \notin Panes
  BY PaneAssumption DEF IInv
<1>p. /\ pc[t] \in {"close", "remove"} => Head(todo[t]) \in Panes /\ hand[t] \in Sessions
      /\ todo[t] # <<>> => Head(todo[t]) \in Panes
  BY <1>0, TailElements DEF Phases, TypeOK
<1> USE DEF sessionVars, serverVars, callVars
<1>1. CASE BeginDelete(t)
  <2>1. /\ UNCHANGED <<registry, status, paneOf, hand, stored>> /\ stored
        /\ pc[t] = "idle" /\ pc' = [pc EXCEPT ![t] = "find"]
        /\ task' = [task EXCEPT ![t] = "delete"] /\ todo' = [todo EXCEPT ![t] = Slots]
    BY <1>1 DEF BeginDelete, Begin
  <2>2. \A u \in Callers \ {t} : pc[u] = "idle"
    BY <1>0, <2>1 DEF OneAtATime, TypeOK
  <2>3. \A u \in Callers : /\ pc[u] = "idle" /\ task[u] = "none" /\ pc'[u] \in {"idle", "find"}
                           /\ task'[u] = "delete" => u = t
    BY <1>0, <2>1, <2>2 DEF Calls, TypeOK
  <2>4. \A s \in Sessions : status[s] # "gone" => registry[paneOf[s]] = s /\ paneOf[s] \in Panes
    BY <2>1, <2>3 DEF Quiet, Known, NoRival
  <2>5. todo'[t] = Slots /\ Elements(Slots) = Panes
    BY <1>0, <2>1 DEF TypeOK, Elements, Panes
  <2>6. Deleting'
    BY <2>1, <2>3, <2>4, <2>5 DEF Deleting
  <2>7. NoRival' /\ Known'
    BY <2>1, <2>3, <2>4 DEF NoRival, Known
  <2> QED
    BY <2>6, <2>7 DEF Quiet
<1>2. ASSUME NEW p \in Panes
      PROVE  ~BeginClose(t, p)
  BY DEF BeginClose, Begin, Undisturbed
<1>3. ~CloseFails(t) /\ ~CloseReturns(t)
  BY DEF CloseFails, CloseReturns, At, Calls
<1>4. ASSUME pc[t] # "idle"
      PROVE  /\ stored /\ task[t] \in {"open", "delete"}
             /\ \A u \in Callers : u # t => pc[u] = "idle" /\ task[u] = "none"
  BY <1>4, OthersIdle DEF Calls
<1>5. CASE NothingToClose(t)
  <2>1. /\ UNCHANGED <<registry, status, paneOf, stored, pc, task, hand>> /\ pc[t] = "find"
        /\ todo' = [todo EXCEPT ![t] = Tail(todo[t])] /\ todo[t] # <<>>
        /\ registry[Head(todo[t])] = None /\ task[t] \in Closing
    BY <1>5 DEF NothingToClose, NextPane, At
  <2>2. stored /\ \A u \in Callers : u # t => pc[u] = "idle" /\ task[u] = "none"
    BY <1>4, <2>1
  <2>3. \A u \in Callers : pc[u] \in {"idle", "find"} /\ (task[u] = "delete" => u = t)
    BY <2>1, <2>2
  <2>4. task[t] = "delete"
    BY <1>4, <2>1 DEF Closing
  <2>5. Elements(todo[t]) \subseteq {Head(todo[t])} \cup Elements(todo'[t])
    BY <1>0, <2>1, RestElements DEF TypeOK
  <2>6. \A s \in Sessions : status[s] = "running" =>
            registry[paneOf[s]] = s /\ paneOf[s] \in Elements(todo'[t])
    BY <1>0, <2>1, <2>4, <2>5 DEF Quiet, Deleting
  <2>7. Deleting'
    BY <2>1, <2>2, <2>3, <2>6 DEF Deleting
  <2>8. NoRival' /\ Known'
    BY <2>1, <2>3, <2>4 DEF Quiet, NoRival, Known
  <2> QED
    BY <2>7, <2>8 DEF Quiet
<1>6. CASE FindSession(t)
  <2>1. /\ UNCHANGED <<registry, status, paneOf, stored, todo, task>> /\ pc[t] = "find"
        /\ pc' = [pc EXCEPT ![t] = "close"]
        /\ hand' = [hand EXCEPT ![t] = registry[Head(todo[t])]] /\ task[t] \in Closing
    BY <1>6 DEF FindSession, Goto, At
  <2>2. stored /\ \A u \in Callers : u # t => pc[u] = "idle" /\ task[u] = "none"
    BY <1>4, <2>1
  <2>4. task[t] = "delete"
    BY <1>4, <2>1 DEF Closing
  <2>3. \A u \in Callers : /\ pc'[u] \in {"idle", "close"} /\ (task[u] = "delete" => u = t)
                           /\ hand'[t] = registry[Head(todo[t])]
    BY <1>0, <2>1, <2>2 DEF TypeOK
  <2>7. Deleting'
    BY <2>1, <2>2, <2>3, <2>4 DEF Quiet, Deleting
  <2>8. NoRival' /\ Known'
    BY <2>1, <2>3, <2>4 DEF Quiet, NoRival, Known
  <2> QED
    BY <2>7, <2>8 DEF Quiet
<1>7. CASE CloseFound(t)
  <2>1. /\ UNCHANGED <<registry, paneOf, stored, todo, task, hand>> /\ pc[t] = "close"
        /\ pc' = [pc EXCEPT ![t] = "remove"] /\ task[t] \in Closing
        /\ status' = Killed(hand[t])
    BY <1>7 DEF CloseFound, Goto, At
  <2>2. stored /\ \A u \in Callers : u # t => pc[u] = "idle" /\ task[u] = "none"
    BY <1>4, <2>1
  <2>4. task[t] = "delete" /\ hand[t] \in Sessions
    BY <1>4, <1>p, <2>1 DEF Closing
  <2>3. \A u \in Callers : pc'[u] \in {"idle", "remove"} /\ (task[u] = "delete" => u = t)
    BY <1>0, <2>1, <2>2 DEF TypeOK
  <2>5. /\ status'[hand[t]] # "running"
        /\ \A s \in Sessions : /\ status'[s] = "running" => status[s] = "running"
                               /\ status'[s] = "gone" <=> status[s] = "gone"
    BY <1>0, <2>1, <2>4 DEF Killed, TypeOK
  <2>7. Deleting'
    BY <2>1, <2>2, <2>3, <2>4, <2>5 DEF Quiet, Deleting
  <2>8. NoRival' /\ Known'
    BY <2>1, <2>3, <2>4, <2>5 DEF Quiet, NoRival, Known
  <2> QED
    BY <2>7, <2>8 DEF Quiet
<1>8. CASE RemoveFound(t)
  <2> DEFINE p == Head(todo[t])
  <2>1. /\ UNCHANGED <<status, paneOf, stored, task>> /\ pc[t] = "remove" /\ todo[t] # <<>>
        /\ pc' = [pc EXCEPT ![t] = "find"] /\ task[t] \in Closing
        /\ registry' = [registry EXCEPT ![p] = None]
        /\ todo' = [todo EXCEPT ![t] = Tail(todo[t])]
    BY <1>0, <1>8 DEF RemoveFound, Goto, NextPane, At, Phases
  <2>2. stored /\ \A u \in Callers : u # t => pc[u] = "idle" /\ task[u] = "none"
    BY <1>4, <2>1
  <2>4. task[t] = "delete" /\ hand[t] \in Sessions /\ p \in Panes
    BY <1>4, <1>p, <2>1 DEF Closing
  <2>3. \A u \in Callers : pc'[u] \in {"idle", "find"} /\ (task[u] = "delete" => u = t)
    BY <1>0, <2>1, <2>2 DEF TypeOK
  <2>5. Elements(todo[t]) \subseteq {p} \cup Elements(todo'[t])
    BY <1>0, <2>1, RestElements DEF TypeOK
  <2>6. \A q \in Panes : registry'[q] = IF q = p THEN None ELSE registry[q]
    BY <1>0, <2>1 DEF TypeOK
  <2>7. registry[p] \in {hand[t], None} /\ status[hand[t]] # "running"
    BY <2>1, <2>4 DEF Quiet, Deleting
  <2>8. ASSUME NEW s \in Sessions, status[s] = "running"
        PROVE  registry'[paneOf[s]] = s /\ paneOf[s] \in Elements(todo'[t])
    <3>1. registry[paneOf[s]] = s /\ paneOf[s] \in Elements(todo[t]) /\ paneOf[s] \in Panes
      BY <2>4, <2>8 DEF Quiet, Deleting, NoRival
    <3>2. paneOf[s] # p
      BY <1>0, <2>7, <2>8, <3>1
    <3> QED
      BY <2>5, <2>6, <3>1, <3>2
  <2>9. Deleting'
    BY <2>1, <2>2, <2>3, <2>8 DEF Deleting
  <2>10. NoRival' /\ Known'
    BY <2>1, <2>3, <2>4, <2>6 DEF Quiet, NoRival, Known
  <2> QED
    BY <2>9, <2>10 DEF Quiet
<1>9. CASE DeleteStored(t)
  <2>1. /\ UNCHANGED <<registry, status, paneOf>> /\ pc[t] = "find" /\ todo[t] = <<>>
        /\ pc' = [pc EXCEPT ![t] = "idle"] /\ task' = [task EXCEPT ![t] = "none"]
        /\ task[t] = "delete" /\ stored' = FALSE
    BY <1>9 DEF DeleteStored, Return, At, Undisturbed
  <2>2. stored /\ \A u \in Callers : u # t => pc[u] = "idle" /\ task[u] = "none"
    BY <1>4, <2>1
  <2>3. \A u \in Callers : pc'[u] = "idle" /\ task'[u] = "none"
    BY <1>0, <2>1, <2>2 DEF TypeOK
  <2>4. \A s \in Sessions : status[s] # "running"
    BY <2>1, ShortSequences DEF Quiet, Deleting
  <2>5. NoRival' /\ Known' /\ Deleting'
    BY <2>1, <2>3, <2>4 DEF Quiet, NoRival, Known, Deleting
  <2> QED
    BY <2>5 DEF Quiet
<1> QED
  BY <1>1, <1>2, <1>3, <1>5, <1>6, <1>7, <1>8, <1>9 DEF Close

\* Requests that do not overlap leave the sessions in order, also when the
\* server is stopped and started again.
LEMMA OrderlyStep ==
  Undisturbed /\ IInv /\ IInv' /\ OneAtATime /\ OneAtATime' /\ Orderly /\ [Next]_vars => Orderly'
<1> SUFFICES ASSUME Undisturbed, IInv, OneAtATime, OneAtATime', Orderly, [Next]_vars
             PROVE  Orderly'
  OBVIOUS
<1>1. Calls'
  BY CallsStep DEF Orderly
<1>2. ASSUME server' = "up"
      PROVE  Quiet'
  <2>1. CASE Restart
    <3>1. /\ \A s \in Sessions : status'[s] = "gone"
          /\ \A t \in Callers : task'[t] = "none" /\ pc'[t] = "idle"
      BY <2>1 DEF Restart, EveryCaller
    <3> QED
      BY <3>1 DEF Quiet, NoRival, Known, Deleting
  <2>2. CASE ~Restart
    <3>1. server = "up" /\ (UNCHANGED vars \/ (Running /\ ~Signal /\ ~Exit))
      BY <1>2, <2>2 DEF Next, Running, Open, Close, Session, Shutdown, vars, serverVars,
         BeginOpen, BeginDelete, BeginClose, Begin, Resume, NotRegistered, StartPane, Register,
         OpenReturns, OpenFails, NothingToClose, FindSession, CloseFound, CloseFails,
         RemoveFound, CloseReturns, DeleteStored, ShellExits, SessionDone, Reap, Signal,
         CloseVictim, Exit
    <3>2. Calls /\ Quiet
      BY <3>1 DEF Orderly
    <3>3. CASE UNCHANGED vars
      BY <3>2, <3>3 DEF vars, sessionVars, callVars, Quiet, NoRival, Known, Deleting
    <3> QED
      BY <3>1, <3>2, <3>3, QuietOpenStep, QuietCloseStep, QuietSessionStep DEF Running, Shutdown
  <2> QED
    BY <2>1, <2>2
<1> QED
  BY <1>1, <1>2 DEF Orderly

\* Sessions stay in order as long as requests do not overlap.
LEMMA SerialInvariance ==
  ASSUME Undisturbed
  PROVE  Spec /\ []OneAtATime => [](IInv /\ Orderly)
<1>1. Init => Orderly
  <2> SUFFICES ASSUME Init
               PROVE  Orderly
    OBVIOUS
  <2>1. /\ \A t \in Callers : task[t] = "none" /\ pc[t] = "idle"
        /\ \A s \in Sessions : status[s] = "gone"
        /\ stored
    BY DEF Init, EveryCaller
  <2> QED
    BY <2>1 DEF Orderly, Calls, Quiet, NoRival, Known, Deleting
<1>2. IInv /\ IInv' /\ OneAtATime /\ OneAtATime' /\ Orderly /\ [Next]_vars => Orderly'
  BY OrderlyStep
<1> QED
  BY <1>1, <1>2, Invariance, PTL DEF Spec

\* As long as requests do not overlap, a pane never has two shells: opening a
\* workspace again resumes what runs.
THEOREM OneShellCorrect ==
  ASSUME Undisturbed
  PROVE  Spec /\ []OneAtATime => []OneShellPerPane
<1>1. IInv /\ Orderly /\ OneAtATime => OneShellPerPane
  <2> SUFFICES ASSUME IInv, Orderly, OneAtATime, server = "up", NEW r \in Sessions, NEW s \in Sessions,
                      status[r] = "running", status[s] = "running", paneOf[r] = paneOf[s]
               PROVE  r = s
    BY DEF OneShellPerPane
  <2>1. stored /\ NoRival /\ Known /\ Deleting
    BY DEF Orderly, Quiet, Deleting
  <2>2. CASE \E t \in Callers : task[t] = "delete"
    BY <2>1, <2>2 DEF Deleting
  <2>3. CASE \A t \in Callers : task[t] # "delete"
    <3> DEFINE InHand(x) == \E t \in Callers : pc[t] = "add" /\ hand[t] = x
    <3>1. ASSUME NEW x \in Sessions, status[x] = "running"
          PROVE  registry[paneOf[x]] = x \/ InHand(x)
      BY <2>1, <2>3, <3>1 DEF Known
    <3>2. ASSUME NEW x \in Sessions, InHand(x)
          PROVE  registry[paneOf[x]] = None
      BY <2>1, <3>2 DEF Known, IInv, Unshared
    <3>3. CASE InHand(r) /\ InHand(s)
      BY <3>3 DEF OneAtATime
    <3>4. CASE ~InHand(r) \/ ~InHand(s)
      BY <3>1, <3>2, <3>4, PaneAssumption
    <3> QED
      BY <3>3, <3>4
  <2> QED
    BY <2>2, <2>3
<1> QED
  BY <1>1, SerialInvariance, PTL

\* As long as requests do not overlap, every running shell can be reached
\* through the registry.
THEOREM LiveCorrect ==
  ASSUME Undisturbed
  PROVE  Spec /\ []OneAtATime => []LiveIsRegistered
<1>1. IInv /\ Orderly => LiveIsRegistered
  <2> SUFFICES ASSUME IInv, Orderly, server = "up", NEW s \in Sessions,
                      status[s] = "running", s \notin Held
               PROVE  registry[paneOf[s]] = s
    BY DEF LiveIsRegistered
  <2>1. stored /\ Known /\ Deleting
    BY DEF Orderly, Quiet, Deleting
  <2>2. CASE \E t \in Callers : task[t] = "delete"
    BY <2>1, <2>2 DEF Deleting
  <2>3. CASE \A t \in Callers : task[t] # "delete"
    BY <2>1, <2>3 DEF Known, Held
  <2> QED
    BY <2>2, <2>3
<1> QED
  BY <1>1, SerialInvariance, PTL

\* As long as requests do not overlap, a deleted workspace leaves no shell
\* running.
THEOREM DeletedCorrect ==
  ASSUME Undisturbed
  PROVE  Spec /\ []OneAtATime => []DeletedIsSilent
<1>1. Orderly => DeletedIsSilent
  BY DEF Orderly, Quiet, Deleting, DeletedIsSilent
<1> QED
  BY <1>1, SerialInvariance, PTL
=============================================================================
