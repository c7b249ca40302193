---------------------------- MODULE PaneSessions ----------------------------
(***************************************************************************)
(* Who starts, registers, closes and removes the terminal sessions of the  *)
(* panes of a workspace: session.Registry, the handlers OpenWorkspace,     *)
(* ClosePane and DeleteWorkspace (core/application), the reaper goroutine  *)
(* OpenWorkspace starts for each session, and the shutdown of the server   *)
(* (apps/web/cmd/main.go).                                                 *)
(*                                                                         *)
(* Every method of the registry is atomic (its mutex), a handler is not:   *)
(* it runs in the goroutine of a request and uses the result of one call   *)
(* in the next. What happens inside a session is abstracted to whether its *)
(* shell runs and whether Done() is closed (see PtySession, SessionHub).   *)
(***************************************************************************)
EXTENDS Integers, Sequences

CONSTANTS
    Callers,    \* goroutines that serve requests
    Sessions,   \* bound: identities of the sessions that exist at one time
    Slots,      \* the panes of the workspace, in ascending order of slot
    None,       \* no session, no pane
    Operations, \* which operations are requested
    MayFail     \* starting a terminal and writing a file may fail

Panes == {Slots[i] : i \in 1..Len(Slots)}

ASSUME PaneAssumption ==
    /\ Slots \in Seq(Panes)
    /\ None \notin Panes \cup Sessions
    /\ Operations \subseteq {"open", "delete", "close"}
    /\ MayFail \in BOOLEAN

VARIABLES
    registry,   \* the session registered for a pane
    status,     \* the life of a session
    paneOf,     \* the pane a session was started for
    reapers,    \* the sessions whose reaper goroutine waits for Done()
    stored,     \* the workspace is in the repository
    server,     \* the server process
    victims,    \* the sessions CloseAll took and has yet to close
    task,       \* what a caller is doing
    pc,         \* and where it is
    todo,       \* the panes its loop has not dealt with
    opened,     \* OpenWorkspace: newlyOpened
    hand,       \* the session it has started, or found and is closing
    before      \* history: what was registered when its call began

sessionVars == <<status, paneOf>>
serverVars == <<server, victims>>
callVars == <<task, pc, todo, opened, hand, before>>
vars == <<registry, sessionVars, reapers, stored, serverVars, callVars>>

Registered == {registry[p] : p \in Panes} \ {None}

EveryCaller(v) == [t \in Callers |-> v]
NothingRegistered == [p \in Panes |-> None]

Init ==
    /\ registry = NothingRegistered
    /\ status = [s \in Sessions |-> "gone"]
    /\ paneOf = [s \in Sessions |-> None]
    /\ reapers = {}
    /\ stored = TRUE
    /\ server = "up" /\ victims = {}
    /\ task = EveryCaller("none") /\ pc = EveryCaller("idle")
    /\ todo = EveryCaller(<<>>) /\ opened = EveryCaller(<<>>)
    /\ hand = EveryCaller(None)
    /\ before = EveryCaller({})

\* The session identity is not in use.
Fresh(s) ==
    /\ status[s] = "gone"
    /\ s \notin Registered \cup victims
    /\ \A t \in Callers : s # hand[t] /\ s \notin before[t]

\* Session.Close: kill the shell if it runs. Done() is closed later.
Killed(s) == IF status[s] = "running" THEN [status EXCEPT ![s] = "dying"] ELSE status

-----------------------------------------------------------------------------
(* The steps of a call.                                                    *)

Begin(t, operation, panes) ==
    /\ operation \in Operations
    /\ pc[t] = "idle"
    /\ task' = [task EXCEPT ![t] = operation]
    /\ pc' = [pc EXCEPT ![t] = "find"]
    /\ todo' = [todo EXCEPT ![t] = panes]
    /\ before' = [before EXCEPT ![t] = Registered]
    /\ UNCHANGED <<registry, sessionVars, reapers, stored, serverVars, opened, hand>>

Return(t) ==
    /\ task' = [task EXCEPT ![t] = "none"]
    /\ pc' = [pc EXCEPT ![t] = "idle"]
    /\ todo' = [todo EXCEPT ![t] = <<>>]
    /\ opened' = [opened EXCEPT ![t] = <<>>]
    /\ hand' = [hand EXCEPT ![t] = None]
    /\ before' = [before EXCEPT ![t] = {}]

At(t, tasks, place) == task[t] \in tasks /\ pc[t] = place

NextPane(t) == todo' = [todo EXCEPT ![t] = Tail(todo[t])]

Goto(t, place) == pc' = [pc EXCEPT ![t] = place]

-----------------------------------------------------------------------------
(* OpenWorkspace.                                                          *)

\* The workspace is found, its panes are sorted by slot.
BeginOpen(t) == stored /\ Begin(t, "open", Slots)

\* Mutant: a resumed pane is recorded as newly opened.
ResumeAsOpened(t) ==
    /\ At(t, {"open"}, "find")
    /\ todo[t] # <<>>
    /\ registry[Head(todo[t])] # None
    /\ opened' = [opened EXCEPT ![t] = Append(@, Head(todo[t]))]
    /\ NextPane(t)
    /\ UNCHANGED <<registry, sessionVars, reapers, stored, serverVars, task, pc, hand, before>>

\* A session is registered for the pane: it is resumed.
Resume(t) ==
    /\ At(t, {"open"}, "find")
    /\ todo[t] # <<>>
    /\ registry[Head(todo[t])] # None
    /\ NextPane(t)
    /\ UNCHANGED <<registry, sessionVars, reapers, stored, serverVars,
                   task, pc, opened, hand, before>>

\* Mutant: start a session whatever is registered.
DoNotResume(t) ==
    /\ At(t, {"open"}, "find")
    /\ todo[t] # <<>>
    /\ Goto(t, "start")
    /\ UNCHANGED <<registry, sessionVars, reapers, stored, serverVars,
                   task, todo, opened, hand, before>>

NotRegistered(t) ==
    /\ At(t, {"open"}, "find")
    /\ todo[t] # <<>>
    /\ registry[Head(todo[t])] = None
    /\ Goto(t, "start")
    /\ UNCHANGED <<registry, sessionVars, reapers, stored, serverVars,
                   task, todo, opened, hand, before>>

\* runner.Start succeeds: the shell runs, and nobody else knows of it yet.
StartPane(t, s) ==
    /\ At(t, {"open"}, "start")
    /\ Fresh(s)
    /\ status' = [status EXCEPT ![s] = "running"]
    /\ paneOf' = [paneOf EXCEPT ![s] = Head(todo[t])]
    /\ hand' = [hand EXCEPT ![t] = s]
    /\ Goto(t, "add")
    /\ UNCHANGED <<registry, reapers, stored, serverVars, task, todo, opened, before>>

\* Mutant: nobody waits for the end of the session.
RegisterWithoutReaper(t) ==
    /\ At(t, {"open"}, "add")
    /\ registry' = [registry EXCEPT ![Head(todo[t])] = hand[t]]
    /\ opened' = [opened EXCEPT ![t] = Append(@, Head(todo[t]))]
    /\ hand' = [hand EXCEPT ![t] = None]
    /\ NextPane(t)
    /\ Goto(t, "find")
    /\ UNCHANGED <<sessionVars, reapers, stored, serverVars, task, before>>

\* Registry.Add, which replaces what is there; the reaper of the session is
\* started, and its start-up commands are written.
Register(t) ==
    /\ At(t, {"open"}, "add")
    /\ registry' = [registry EXCEPT ![Head(todo[t])] = hand[t]]
    /\ opened' = [opened EXCEPT ![t] = Append(@, Head(todo[t]))]
    /\ reapers' = reapers \cup {hand[t]}
    /\ hand' = [hand EXCEPT ![t] = None]
    /\ NextPane(t)
    /\ Goto(t, "find")
    /\ UNCHANGED <<sessionVars, stored, serverVars, task, before>>

\* All panes are open: SetLastOpened succeeds, the call returns.
OpenReturns(t) ==
    /\ At(t, {"open"}, "find")
    /\ todo[t] = <<>>
    /\ Return(t)
    /\ UNCHANGED <<registry, sessionVars, reapers, stored, serverVars>>

\* runner.Start or SetLastOpened fails: undo what this call has opened.
OpenFails(t) ==
    /\ MayFail
    /\ At(t, {"open"}, "start") \/ (At(t, {"open"}, "find") /\ todo[t] = <<>>)
    /\ task' = [task EXCEPT ![t] = "undo"]
    /\ Goto(t, "find")
    /\ todo' = [todo EXCEPT ![t] = opened[t]]
    /\ UNCHANGED <<registry, sessionVars, reapers, stored, serverVars, opened, hand, before>>

Open(t) ==
    \/ BeginOpen(t)
    \/ Resume(t) \/ NotRegistered(t)
    \/ \E s \in Sessions : StartPane(t, s)
    \/ Register(t)
    \/ OpenReturns(t) \/ OpenFails(t)

-----------------------------------------------------------------------------
(* Closing: the undo loop of OpenWorkspace, the loop of DeleteWorkspace    *)
(* and ClosePane all get a session, close it and remove the pane.          *)

Closing == {"undo", "delete", "close"}

BeginDelete(t) == stored /\ Begin(t, "delete", Slots)

BeginClose(t, p) == Begin(t, "close", <<p>>)

\* Nothing is registered for the pane.
NothingToClose(t) ==
    /\ At(t, Closing, "find")
    /\ todo[t] # <<>>
    /\ registry[Head(todo[t])] = None
    /\ NextPane(t)
    /\ UNCHANGED <<registry, sessionVars, reapers, stored, serverVars,
                   task, pc, opened, hand, before>>

FindSession(t) ==
    /\ At(t, Closing, "find")
    /\ todo[t] # <<>>
    /\ registry[Head(todo[t])] # None
    /\ hand' = [hand EXCEPT ![t] = registry[Head(todo[t])]]
    /\ Goto(t, "close")
    /\ UNCHANGED <<registry, sessionVars, reapers, stored, serverVars,
                   task, todo, opened, before>>

\* Mutant: remove without closing.
CloseFoundNot(t) ==
    /\ At(t, Closing, "close")
    /\ Goto(t, "remove")
    /\ UNCHANGED <<registry, sessionVars, reapers, stored, serverVars,
                   task, todo, opened, hand, before>>

CloseFound(t) ==
    /\ At(t, Closing, "close")
    /\ status' = Killed(hand[t])
    /\ Goto(t, "remove")
    /\ UNCHANGED <<registry, paneOf, reapers, stored, serverVars,
                   task, todo, opened, hand, before>>

\* The process has exited and may have been waited for; then killing it is an
\* error: ClosePane returns it and leaves the registry alone. The others
\* ignore the error.
CloseFails(t) ==
    /\ At(t, {"close"}, "close")
    /\ status[hand[t]] # "running"
    /\ Return(t)
    /\ UNCHANGED <<registry, sessionVars, reapers, stored, serverVars>>

\* Mutant: the session found stays in the hand of the caller.
RemoveAndHold(t) ==
    /\ At(t, Closing, "remove")
    /\ registry' = [registry EXCEPT ![Head(todo[t])] = None]
    /\ NextPane(t)
    /\ Goto(t, "find")
    /\ UNCHANGED <<sessionVars, reapers, stored, serverVars, task, opened, hand, before>>

\* Registry.Remove deletes by pane, whichever session is registered by now.
RemoveFound(t) ==
    /\ At(t, Closing, "remove")
    /\ registry' = [registry EXCEPT ![Head(todo[t])] = None]
    /\ hand' = [hand EXCEPT ![t] = None]
    /\ NextPane(t)
    /\ Goto(t, "find")
    /\ UNCHANGED <<sessionVars, reapers, stored, serverVars, task, opened, before>>

CloseReturns(t) ==
    /\ At(t, {"undo", "close"}, "find")
    /\ todo[t] = <<>>
    /\ Return(t)
    /\ UNCHANGED <<registry, sessionVars, reapers, stored, serverVars>>

\* Mutant: the sessions are left alone.
DeleteStoredAtOnce(t) ==
    /\ At(t, {"delete"}, "find")
    /\ stored' = FALSE
    /\ Return(t)
    /\ UNCHANGED <<registry, sessionVars, reapers, serverVars>>

\* The workspace is deleted from the repository, or that fails.
DeleteStored(t) ==
    /\ At(t, {"delete"}, "find")
    /\ todo[t] = <<>>
    /\ stored' \in IF MayFail THEN {stored, FALSE} ELSE {FALSE}
    /\ Return(t)
    /\ UNCHANGED <<registry, sessionVars, reapers, serverVars>>

Close(t) ==
    \/ BeginDelete(t)
    \/ \E p \in Panes : BeginClose(t, p)
    \/ NothingToClose(t) \/ FindSession(t)
    \/ CloseFound(t) \/ CloseFails(t) \/ RemoveFound(t)
    \/ CloseReturns(t) \/ DeleteStored(t)

-----------------------------------------------------------------------------
(* The sessions and their reapers.                                         *)

ShellExits(s) ==
    /\ status[s] = "running"
    /\ status' = [status EXCEPT ![s] = "dying"]
    /\ UNCHANGED <<registry, paneOf, reapers, stored, serverVars, callVars>>

SessionDone(s) ==
    /\ status[s] = "dying"
    /\ status' = [status EXCEPT ![s] = "done"]
    /\ UNCHANGED <<registry, paneOf, reapers, stored, serverVars, callVars>>

\* Mutant: the reaper does not touch the registry.
ReapSilently(s) ==
    /\ s \in reapers
    /\ status[s] = "done"
    /\ status' = [status EXCEPT ![s] = "gone"]
    /\ paneOf' = [paneOf EXCEPT ![s] = None]
    /\ reapers' = reapers \ {s}
    /\ UNCHANGED <<registry, stored, serverVars, callVars>>

\* Done() is closed: the reaper removes the pane of its session.
Reap(s) ==
    /\ s \in reapers
    /\ status[s] = "done"
    /\ registry' = [registry EXCEPT ![paneOf[s]] = None]
    /\ status' = [status EXCEPT ![s] = "gone"]
    /\ paneOf' = [paneOf EXCEPT ![s] = None]
    /\ reapers' = reapers \ {s}
    /\ UNCHANGED <<stored, serverVars, callVars>>

Session(s) == ShellExits(s) \/ SessionDone(s) \/ Reap(s)

-----------------------------------------------------------------------------
(* Shutdown.                                                               *)

\* SIGINT or SIGTERM: CloseAll takes all sessions out of the registry.
Signal ==
    /\ server = "up"
    /\ server' = "closing"
    /\ victims' = Registered
    /\ registry' = NothingRegistered
    /\ UNCHANGED <<sessionVars, reapers, stored, callVars>>

\* ... and closes them one by one.
CloseVictim(s) ==
    /\ s \in victims
    /\ victims' = victims \ {s}
    /\ status' = Killed(s)
    /\ UNCHANGED <<registry, paneOf, reapers, stored, server, callVars>>

\* srv.Shutdown makes ListenAndServe return, and main with it.
Exit ==
    /\ server = "closing"
    /\ victims = {}
    /\ server' = "exited"
    /\ UNCHANGED <<registry, sessionVars, reapers, stored, victims, callVars>>

\* Another process is started: nothing but the repository survives.
Restart ==
    /\ server = "exited"
    /\ registry' = NothingRegistered
    /\ status' = [s \in Sessions |-> "gone"]
    /\ paneOf' = [s \in Sessions |-> None]
    /\ reapers' = {}
    /\ server' = "up" /\ victims' = {}
    /\ task' = EveryCaller("none") /\ pc' = EveryCaller("idle")
    /\ todo' = EveryCaller(<<>>) /\ opened' = EveryCaller(<<>>)
    /\ hand' = EveryCaller(None)
    /\ before' = EveryCaller({})
    /\ UNCHANGED stored

Shutdown == Signal \/ (\E s \in Sessions : CloseVictim(s)) \/ Exit

-----------------------------------------------------------------------------

Running ==
    \/ \E t \in Callers : Open(t) \/ Close(t)
    \/ \E s \in Sessions : Session(s)
    \/ Shutdown

Next ==
    \/ server # "exited" /\ Running
    \/ Restart

Spec == Init /\ [][Next]_vars

\* A call goes on once it has begun, a session whose shell is gone gets done
\* (PtySession, SessionHub), its reaper runs. No shell has to exit, nobody has
\* to call anything.
Proceed(t) ==
    /\ server # "exited"
    /\ pc[t] # "idle"
    /\ Open(t) \/ Close(t)

Fairness ==
    /\ \A t \in Callers : WF_vars(Proceed(t))
    /\ \A s \in Sessions :
         /\ WF_vars(server # "exited" /\ SessionDone(s))
         /\ WF_vars(server # "exited" /\ Reap(s))

FairSpec == Spec /\ Fairness

-----------------------------------------------------------------------------

TypeOK ==
    /\ registry \in [Panes -> Sessions \cup {None}]
    /\ status \in [Sessions -> {"gone", "running", "dying", "done"}]
    /\ paneOf \in [Sessions -> Panes \cup {None}]
    /\ reapers \subseteq Sessions
    /\ stored \in BOOLEAN
    /\ server \in {"up", "closing", "exited"}
    /\ victims \subseteq Sessions
    /\ task \in [Callers -> {"none", "open"} \cup Closing]
    /\ pc \in [Callers -> {"idle", "find", "start", "add", "close", "remove"}]
    /\ todo \in [Callers -> Seq(Panes)]
    /\ opened \in [Callers -> Seq(Panes)]
    /\ hand \in [Callers -> Sessions \cup {None}]
    /\ before \in [Callers -> SUBSET Sessions]
    /\ \A t \in Callers : pc[t] \in {"add", "close", "remove"} <=> hand[t] # None

\* Whatever the calls that run at the same time do, an OpenWorkspace that
\* fails never closes a session that was registered before it began.
RollbackSparesExisting ==
    \A t \in Callers : At(t, {"undo"}, "close") => hand[t] \notin before[t]

\* A session whose reaper has run is not registered, also when it ended
\* before it was registered, and is never registered again.
ReapedIsGone == \A s \in Registered : status[s] # "gone"

\* A session that has ended does not stay in the registry.
EndedIsUnregistered ==
    \A s \in Sessions :
        (status[s] = "done" /\ s \in Registered) ~> (s \notin Registered \/ server = "exited")

\* The next properties hold when requests do not overlap, nothing fails and no
\* pane is closed on its own, for which there is no route.
OneAtATime == \A t, u \in Callers : pc[t] # "idle" /\ pc[u] # "idle" => t = u

Undisturbed == MayFail = FALSE /\ "close" \notin Operations

Held == {hand[t] : t \in Callers}

\* A pane never has two shells: what is live is resumed, not started again.
OneShellPerPane ==
    server = "up" =>
        \A r, s \in Sessions :
            status[r] = "running" /\ status[s] = "running" /\ paneOf[r] = paneOf[s] => r = s

\* A running shell can be reached through the registry, and so be resumed,
\* closed with its workspace and at shutdown.
LiveIsRegistered ==
    server = "up" =>
        \A s \in Sessions :
            status[s] = "running" /\ s \notin Held => registry[paneOf[s]] = s

\* Deleting a workspace leaves no shell behind when all calls have returned.
DeletedIsSilent ==
    server = "up" /\ ~stored /\ pc = EveryCaller("idle") =>
        \A s \in Sessions : status[s] # "running"
=============================================================================
