# multi-terminals in TLA+

multi-terminals shows several terminals in one window. Its state lives in a Go
server: shells on pseudo-terminals that go on running while browsers come and
go, and workspaces (a layout and the panes in it) kept in JSON files. This
directory models the parts of the server in which goroutines, requests and
failures meet, checks them with TLC and proves the most important results with
TLAPS.

Run `tlc -config MCSessionHub.cfg MCSessionHub` and so on for the models,
`tlapm SessionHubProofs.tla` and so on for the proofs. `PROJECT.json` lists the
runs, says which lines of the code each definition translates, and pairs every
property with a wrong version of one definition ("mutant") that violates it.

## 1. The system

Requests arrive as HTTP calls (`apps/web/server.go`), as messages on a WebSocket
(`apps/web/ws.go`) or as calls of the desktop shell (`apps/wails/app.go`). Each
runs in a goroutine of its own, and calls one of the command handlers in
`core/application/command`.

| Component | State | Operations | Hard because |
| --- | --- | --- | --- |
| PTY session, `infrastructure/terminal/pty_runner.go` | shell process, PTY, output channel (256 chunks), `closeKill`, `done`, `writeMu`, `killOnce` | Start, pump, Write, Resize, Close | Close races the pump's blocked send, a blocked Write, a Resize and the exit of the shell |
| Session hub, `application/session/session.go` | scrollback ring, live subscriptions, `ended`, `done` | drain, Subscribe, Unsubscribe, Tail, Close | clients attach while output arrives; slow ones are dropped; the end races them all |
| Registry, `application/session/registry.go` | pane id -> session | Add, Get, Remove, IDs, CloseAll | every method is atomic, what the handlers do with them is not |
| Session lifecycle, `command/open_workspace.go`, `close_pane.go`, `delete_workspace.go` | loop variables of a request, a reaper goroutine per session | OpenWorkspace with roll-back, ClosePane, DeleteWorkspace | overlapping requests, failing starts, shells that exit in between |
| Server process, `apps/web/cmd/main.go` | - | signal, CloseAll, Shutdown, exit | requests go on during shutdown |
| Workspace aggregate, `core/domain/workspace.go` | layout, panes in slots, `lastActive`, `maximized` | add, remove, edit, maximize, ... | any legal sequence must leave what can be loaded again |
| Workspace commands and repository, `command/*.go`, `infrastructure/jsonstore` | `<id>.json`, `<id>.json.tmp`, an RWMutex | Create, FindByID, Save, Delete, List | read-change-save without a lock; crashes and failing writes |
| Application state, `jsonstore/app_state.go` | last opened workspace | Load, SetLastOpened | crash between write and rename |
| Pane I/O, `apps/web/ws.go`, `command/write_to_pane.go`, `resize_pane.go` | a subscription, a `done` channel, a handler and a pump per connection | subscribe, snapshot, forward, input, disconnect | output arrives while the connection is set up; the end of the session, of the tab and of the handler race |
| Desktop bridge, `apps/wails/app.go`, `frontend/src/lib/termTransport.js` | a map of subscriptions, a pump per subscription | PaneSubscribe, PaneUnsubscribe, pump | the calls of the window run concurrently and overtake each other |
| Agent status, `application/agentstatus`, `server_agentstatus.go` | last snapshot, subscribers with a channel each | poll, Subscribe, cancel | sessions end and streams come while a snapshot is computed and published |
| Remote terminals, `infrastructure/remoteterm` (`dial.go`, `ssh.go`, `serve.go`) | a connection, a pump and an output channel per session; a handler, a pump and a shell at the far end | Start, pump, Write, Resize, Close; handshake, input loop, output pump | the connection breaks at any point and blocks when it is full |
| Keys, `remoteterm/keys.go` | identity in memory and in two files, list of authorized keys in a third | Generate, Regenerate, Delete, Add, Remove, IsAuthorized | files written in several steps, crashes, edits by hand |
| Git, "open in", queries, frontend | none or presentation only | | external programs, formatting |

How they interact: OpenWorkspace starts a PTY session, wraps it in a hub,
registers the hub, and starts a reaper that waits for the hub's `Done()`. The
hub is the only consumer of the session's output channel, which a PTY session or
a remote one fills. A connection gets the hub from the registry and holds a
subscription of it. The handler of a remote terminal starts a local session and
copies it to its connection, without a hub. The watcher reads the hubs of the
registry. The repository is shared by all handlers; nothing ties a workspace on disk to the sessions of its
panes but the pane ids.

What makes each component correct is stated in section 3; the hazards behind
those statements, with their lines, are in `PROJECT.json`.

## 2. The modules

    TerminalStream      contract of TerminalSession.Output()      <- PtySession, RemoteSession implement it
      SessionHub        session.Session                           <- uses it as its environment
        ResumableStream what a session promises to its clients    <- SessionHub implements it
    PtySession          ptySession
    RemoteSession       wsSession and sshSession, and the handler at the far end
    PaneHub             a session as those see it who show it
      PaneSocket        the WebSocket handler of a browser tab
      DesktopBridge     the desktop window's calls and pumps
        PaneIO          hub and client composed
    PaneSessions        registry, open, close, delete, reapers, shutdown
    Workspace           the aggregate, pure operators
      AtomicWorkspaces  a store of workspaces, one step per request
      WorkspaceStore    handlers and JSON files                   <- implements AtomicWorkspaces, without overlap
    AgentWatcher        the polling loop and its streams
    KeyStore            identity and authorized keys
    MC*                 instances for TLC
    *Proofs             theorems and their proofs

Three refinements meet in `TerminalStream`: the hub is checked against anything
that behaves like that contract, and the PTY session and the remote session are
shown to behave like it, so what holds of the hub holds of a hub on either.
`RemoteSession` in turn sees the shell at its far end through the same contract.

**Data.** Output is a stream of positions: the k-th byte a shell ever writes is
the number k, a chunk is an interval. Order, loss and repetition are then
visible, content is not. The settings of a pane (title, directory, host,
commands) are one opaque value; names, ids and sessions are model values. A file
that was written only in part is the value `Torn`.

**Steps.** What the code does while it holds a mutex and does nothing that can
block is one action. Everything else is as many actions as there are points at
which another goroutine can get in: Get, Start and Add of OpenWorkspace; find,
Close and Remove of a deletion; FindByID, the change, write and rename of a save.
Only the write itself is cut in two under the lock, because a crash can fall
into it.

**SessionHub.** `Take`, `Distribute`, `End` and `CloseDone` are the drain
goroutine: the receive, the critical section per chunk, the critical section at
the end and the close of `Done()` after it. `Subscribe` and `Unsubscribe` are
critical sections of the clients; `ReceiveChunk` is a receive from `C()`;
`Leave` is the return of a handler whose subscription is over. `lastOutput`, a
time in the code, is the position at which the latest chunk ended. `Tail`,
`LastOutputAt` and `Pid` only read.

**PtySession.** `pump` follows the goroutine: read, the `select` with two cases,
close of the output channel, `cmd.Wait`, close of `done`. `pc` follows each
caller through Write, Resize and Close, with `writeMu` and the `sync.Once` as
they are. The PTY and the shell are external: a read fails once the shell is gone
or the PTY closed, and a write blocks while the input queue is full and the
program does not read.

**PaneSessions.** One workspace with fixed panes. `task`, `pc` and `todo` are the
loop of a request; the roll-back of OpenWorkspace, DeleteWorkspace and ClosePane
share the steps find, close and remove, which are the same three calls in the
code. A session goes from running over dying (the shell is gone) to done
(`Done()` is closed), and its reaper then removes the *pane* from the registry,
as the code does. `Signal`, `CloseVictim` and `Exit` are the shutdown; a restart
loses everything but the repository. `before` is a history variable, and
`Fresh` lets identities be used again.

**WorkspaceStore.** A request reads the file, changes its copy with one of the
operators of `Workspace` (one for each handler) and saves. Every write and rename
may fail, and the process may crash at every step. There is no power loss that
reorders a write and a rename: the code does not call fsync, and the model, like
the code, takes the rename to be ordered after the write.

**RemoteSession.** `up` and `down` are the messages in flight, each end of the
connection is open or closed, and `cut` says that the network has failed. A
message arrives, in order, as long as both ends are there; when one is closed or
the network fails, any suffix of what is in flight is lost (`Kept`,
`AfterClose`); a full connection blocks its writer. `start` is the caller of
Start; `pump` the pump of the session it returned; `handler` and `serverPump` are
the two goroutines of `serve.go`, with the deferred Close of the shell and of the
connection as steps of their own. `transport` chooses between WebSocket and ssh:
the two pumps differ in what ends them (a failed read, or EOF) and in what they
wait for before `Done()`. An sshd is seen as the handler from the start of the
shell on, without the deadline that the WebSocket handshake has. `listed` is a
history variable, the keys that were on the list while this client was in its
handshake.

**PaneHub, PaneSocket, DesktopBridge, PaneIO.** The hub is reduced to one step per
critical section; `SessionHub` has its goroutine in full. `handler` and `pump`
are the two goroutines of `handlePaneIO`; the three cases of the `select` are
three actions, any of which may be taken when it is ready, as in Go. In
`DesktopBridge` every call of the window is a process of its own, so that
PaneUnsubscribe may overtake PaneSubscribe; `current` is the entry of the pane in
the map; every subscription has a pump. The client of a behaviour is a tab or a
window: two clients of one session meet only in the hub. One session of a pane is
followed from its registration to its end; a second session under the same pane
id is a behaviour of its own.

**AgentWatcher.** Per pane, a bit says whether the end of the scrollback shows a
prompt, and `lastOutput` when the last chunk came. Scanning, listing, Tail,
LastOutputAt, the critical section of `poll` and each non-blocking send are
separate steps. `now` is the time the poll was triggered, which is older than
what it reads.

**KeyStore.** `os.WriteFile` is two steps, truncate and write; each may fail, and
the process may die in between and leaves any part of the list, or no key in a key
file. It is a crash of the process, not a loss of power. `told` is the identity
the user was told last, `calm` whether every call since has succeeded. Of the list
the model keeps the keys it allows. `save` writes a comment as it is, and `load`
splits the file into lines, so a comment is the set of the keys that stand on its
further lines, and `Written` is what the next `load` finds. `given` are the keys put
on the list and not removed, `carried` those that came on a line of a comment,
`owed` those that nothing can have lost.

## 3. What is checked

| Run | Instance | Properties |
| --- | --- | --- |
| `hub` | 2 clients, 6 bytes in chunks of 1-2, channel and subscriptions of 2 chunks, scrollback of 3 | the buffers and what the clients are given |
| `pty` | 2 callers, 4 bytes, channel of 2 chunks | locking, channels, termination |
| `panes` | 2 overlapping requests of every kind, 1 pane, 2 sessions, starts that fail | roll-back and reapers |
| `panes_serial` | 1 request at a time, 2 panes, 4 sessions | one shell per pane, none lost |
| `store` | 2 overlapping requests, 1 workspace, 2 panes, slots 0-2, a valid, a larger and an unknown layout, failures, crashes | files load |
| `store_disjoint` | 2 requests that overlap only for different workspaces, 2 workspaces, 2 panes, 1 slot, failures, crashes | atomicity |
| `remote` | both transports, 2 keys, 3 bytes in frames of 1-2, output channel of 1, connection of 1 message each way | who gets a shell, the output, both ends let go |
| `pane_io` | a tab, or a window that makes 3 calls; 3 bytes in chunks of 1-2, scrollback of 2, subscriptions of 1 chunk | what is sent, what is left behind |
| `watcher` | 1 pane, 2 streams with a channel of 1, a threshold of 1, one tick after the start | freshness, what counts as waiting |
| `keys` | 3 own keys, 2 authorized keys, any comment, 4 calls, 3 faults | restarts and answers |

`panes_retry` and `remote_outlives` show disagreements, see section 5.

*hub.* `ScrollbackIsTail`: the ring is exactly the last bytes of the output,
also when a chunk straddles its limit. `NoGapNoRepeat`: snapshot, received and
queued chunks of a client are one stretch of the output, and a live subscription
is up to date. `DoneClosedExactlyOnce`: drop, end and Unsubscribe race, the done
channel is closed once, and no client holds a subscription that is neither live
nor done. `DoneMeansFinished`: `Done()` comes after everything was distributed.
`DroppedOnlyWhenBehind`: only a full channel costs a client its subscription.
`KeepsThePromise`: all of this is what `ResumableStream` says in one page.
`OutputIsDrained` and `EndReachesEveryone`: a client that never receives holds
up nobody. The bounds let a channel of two overflow, the scrollback of three
forget, and a chunk of two straddle its limit; six bytes are four chunks more
than any buffer holds.

*pty.* `CloseIsFinal`: no Resize of a closed PTY, which the check of `closeKill`
under the lock prevents, and a second Close waits for the first to have killed
the shell. A Write after Close does reach the closed PTY and gets an error.
`DoneIsLast`: no zombie when `Done()` is closed. `ImplementsStream`: no
chunk is lost, repeated or sent after the close. `CloseTerminates`: Close gets
the pump out of a blocked send.

*panes.* `RollbackSparesExisting`: an open that fails never closes a session that
was there before it, whatever runs at the same time. `ReapedIsGone`,
`EndedIsUnregistered`: a session that ended, also one that ended before it was
registered, leaves the registry for good. *panes_serial.* `OneShellPerPane`,
`LiveIsRegistered`, `DeletedIsSilent` hold when requests do not overlap and
nothing fails, although shells exit between any two steps: these are the
conditions under which the resume logic works, and section 5 shows that each is
needed.

*store.* `EveryFileLoads`: whatever was changed, in whatever order, and wherever
it crashed, a file that exists satisfies everything `ReconstituteWorkspace`
checks; one that does not would make `List` fail for every workspace.
`RenamesItsOwn`: no two saves share a temporary file at a time. One workspace
is enough for these: files meet in the lock only, and two callers of one workspace
contend for it as well. *store_disjoint.* `ImplementsAtomicWorkspaces`: a request
happens entirely or not at all, as long as requests that overlap are for different
workspaces. Which slot a pane has plays no part in this, so one is enough.

*remote.* `OnlyAuthorizedStarts`: a shell runs only for a client whose key was on
the list while it was in its handshake, however the list is edited between the
first look at it, the challenge and the check. `ImplementsStream`: no frame is
lost, repeated or reordered but with the connection, and then only the end of the
output. `ShellEndsWithConnection`: the shell goes when the connection does, also
when the caller has gone before the acknowledgement, and whichever of loop and
pump finds out. `SessionEndsWithConnection`: the caller's session ends as well,
and its socket is released although ssh has no Close on this path but the
teardown. A connection of one message blocks either writer at any point of the
protocol, an output channel of one blocks the pump.

*pane_io.* `TabSeesOneStretch`: snapshot and chunks adjoin, also for output between
Subscribe and the start of the pump. `BridgeSafe`: however the calls overtake each
other, a live subscription is in the map or about to be ended, so none stays
behind, and ":done" is emitted only for a subscription which the session ended or
dropped. `ClientEnds`: when the session or the tab ends, the handler returns, the
pumps end, the subscription is given back and the socket closed. Three calls are
show, hide and show again in every order; a subscription of one chunk lets the
hub drop a slow client, a scrollback of two forgets.

*watcher.* `StreamIsFresh`: a stream that was not skipped at the last change and is
not about to be sent to has the current snapshot as its latest, also one that
connected between the steps of a poll. `WaitIsReal`: when a pane is found waiting,
its last output ends with the prompt and is old enough; output between the two
reads never makes an old prompt count, because the time is older than both. One
pane is enough: panes meet only in the snapshot, which is compared as a whole.

*keys.* `IdentityIsDurable`: the server signs with the identity its user was told
last; if no call failed or was cut short since, a restart finds the same and
Generate overwrites nothing; what a call that was cut short may leave is in section
5. `AnswersAreRight`: a key that was put on the list neither itself nor on a line of
a comment, or was removed, is never let in, whatever fails; a key that was added is
let in unless a read, a write or the process failed. Comments carry any set of keys.
Four calls and three faults are enough for two calls that
fail in different steps, a crash and a restart.

**Fairness.** `hub`: the drain goroutine runs, the Go scheduler does not starve
it; clients owe nothing. `pty`: the pump runs and calls go on; a caller waiting
for `writeMu` is strongly fair, because `sync.Mutex` hands the lock over to a
waiter after 1 ms; the shell need not exit and nobody need receive, but the
program in the terminal reads its input (see section 5). `panes`: a request that
has begun goes on, a session whose shell is gone becomes done (what `pty` and
`hub` show), and its reaper runs. `remote`: the goroutines of both ends run, and a
lost connection is noticed, because Go's dialers and listeners turn TCP
keep-alive on; the output channel is drained, as `hub` shows; the program in the
terminal reads its input; nothing is assumed of the callers or the shell, and
an sshd may keep silent when it is asked for a shell. `pane_io`: the two
goroutines of a connection run, so a write to a tab returns, because the tab
reads or is gone; every call of the window returns and its pumps run. `watcher`
and `keys` state no liveness.

## 4. What is proved

The theorems hold for every value of the constants: any number of clients,
callers, panes, keys and workspaces, and any capacity. Assumed are only the named
assumptions of the modules: capacities are positive, markers such as `Nobody` are
not members of the sets they mark, slots are natural numbers. Where a theorem has a
further condition (`OneAtATime`, `Undisturbed`, `NoOverlap`), its statement names it.

- `SessionHubProofs`. The invariant adds to the properties of the run that the
  channel from the terminal is contiguous and ends at what was emitted, that the
  chunk in the hand adjoins it, that `ended` and `Done()` follow the position of
  the drain goroutine, and that what is queued for a client adjoins what it was
  given (`ClientInv`). The last is needed because `NoGapNoRepeat` alone does not
  say that queued chunks are non-empty. From it: `TypeCorrect`,
  `ScrollbackCorrect`, `ResumeCorrect`, `DoneCorrect`, `FinishedCorrect`, the action
  property `DropCorrect`, and `HubKeepsThePromise`, the step simulation of
  `ResumableStream`.
- `PtySessionProofs`. `Handed` relates the pump's chunk to what was emitted and
  the channels to its position, `Locking` relates `writeMu`, `killOnce` and the
  PTY to what the callers do. From it: `TypeCorrect`, `ResizeCorrect`,
  `CloseCorrect` and both together `CloseFinal`, `DoneCorrect`, and
  `PtyImplementsStream`.
- `PaneSessionsProofs`. `Unshared`: a session that is started and not yet added is
  known to its caller alone. `Reapable`: what is registered was started for that
  pane and has a reaper. `Spared`: the panes a call has opened hold no session
  from before the call, which is inductive because a removed session is never
  registered again. From it: `TypeCorrect`, `RollbackCorrect`, `ReaperCorrect`.
  A second invariant, `Orderly`, holds as long as requests do not overlap
  (`OneAtATime`), none fails and no pane is closed by itself (`Undisturbed`; no
  route closes one). `NoRival`: what is registered for the pane of a session is that
  session or nothing. `Known`: until its reaper has run, a session is in the registry
  or in the hand of the open that started it, and then nothing is registered for its
  pane. `Deleting`: a deletion still has every pane with a running shell before it.
  Shells exit and reapers run between any two steps, and the server may stop and
  start again: while it is down nothing is claimed, and it starts with an empty
  registry. From it: `OneShellCorrect`, `LiveCorrect`, `DeletedCorrect`. The
  condition is a conjunct of the theorems, `Spec /\ []OneAtATime => []...`, for any
  number of callers, which is what a frontend that waits for its answers guarantees.
- `WorkspaceStoreProofs`. `ChangesAreSound` proves operation by operation that the
  aggregate keeps what `ReconstituteWorkspace` checks. The invariant then says that
  copies in memory and files are such aggregates and that the lock is held from
  write to rename. From it: `EveryFileIsLoadable`, `RenameCorrect`, `TypeCorrect`.
  `StoreIsAtomic` is the refinement of `AtomicWorkspaces` as long as no two requests
  for one workspace overlap (`NoOverlap`). `UpToDate` says that the copy a request
  has read is still the file (before its change), or is what one operation of the
  aggregate makes of the file, or a first version of a workspace nobody has stored.
  The rename, and the removal of a deletion, are then the steps of
  `AtomicWorkspaces`, and every other step, a crash included, leaves the files alone.
  With one caller `NoOverlap` always holds: `SerialStoreIsAtomic`.
- `RemoteSessionProofs`. `Stages` and `Handshake` relate the two ends: who waits
  for which message, and that the key in flight is the client's. `Accepted` says
  that the list seen includes the list that is, which gives
  `AuthorizationCorrect`. `InTransit` is the heart: there is a function that says,
  for every message in flight, how far the output had come before it; it begins at
  what the client has and, while the connection lives, ends at what the far end
  has sent. Losing a suffix shortens the function, so that only the end of the
  output is ever lost. `RemoteStream` follows: every step implements
  `TerminalStream` or leaves it alone.
- `PaneIOProofs`. `Subscribed`, `Unplaced` and `Placed` follow a subscription of the
  window from its creation over the map to its end; `Telling` says that a pump
  which is about to announce the end has found its own subscription in the map.
  From them `BridgeCorrect`; `TabQueue` and `Pumping` give `StretchCorrect`.
- `AgentWatcherProofs`. `Polling` says where the snapshot under construction is the
  current one, `ReadInTime` that a prompt read by the poll is still the last output
  or was followed by output no older than the time of the poll. From them
  `FreshCorrect` and `WaitCorrect`.
- `KeyStoreProofs`. `Untouched`: memory is what the user was told, and until a call
  begins or fails so is the disk. `Listed`: what is in the file, or about to be
  written, was given or came with a comment, and what is owed is in it. From them
  `IdentityCorrect` and `AnswersCorrect`, and, if comments are of one line
  (`OneLineComments`), `OneLineCorrect`: only a key that was given itself is let in.

Only model-checked: the liveness properties (`OutputIsDrained`,
`EndReachesEveryone`, `CloseTerminates`, `EndedIsUnregistered`,
`ShellEndsWithConnection`, `SessionEndsWithConnection`, `ClientEnds`), because the
prover does not reach liveness under fairness or ENABLED. Every other property of
a passing run is a theorem; the three of `panes_serial` and the one of
`store_disjoint` under the condition of the run, which section 5
shows to be needed. No definition is recursive, so no result rests on induction
over data.

## 5. Where the code disagrees with what it says

Two end in a counterexample of a run.

- `panes_retry`: an open fails and is tried again; the reaper of the first
  attempt's session removes the second attempt's session from the registry. One
  client suffices.
- `remote_outlives`: the input loop of a remote terminal's far end writes to the
  shell itself. While a program does not read its input that write blocks, the loop
  does not notice that the connection is lost, and the shell outlives it, which a
  comment (`serve.go`, line 120) rules out.

The following were found in the same models. Where a property of a passing run
holds only under a condition, this is why.

*Sessions.* A Write to a program that does not read its input holds `writeMu`, and
Close waits for it before it kills the shell (`pty_runner.go`, line 246): without
the assumption of run `pty`, `CloseTerminates` fails. Two overlapping opens of a
workspace start two shells for a pane, one of which is forgotten; an open that
overlaps a deletion leaves a shell without a workspace: without the restriction
of `panes_serial`, `OneShellPerPane` and `DeletedIsSilent` fail. The roll-back
looks its sessions up by pane id, so after a second open has replaced one of them
it closes the session of the other call. A session registered after CloseAll
during shutdown is never closed. RemovePane removes a pane and not its session,
and no route calls ClosePane, so the shell of a removed pane runs until the
server ends. The web frontend sends its own requests one after the other, so the
overlaps need two clients or tabs.

*Workspaces.* A change that overlaps a deletion restores the deleted file; of two
overlapping changes of a workspace one is lost. Without `NoOverlap`,
`ImplementsAtomicWorkspaces` fails for both reasons, and by `StoreIsAtomic` for no
other.

*Pane I/O.* The `select` of either pump may take the end of the subscription while
chunks are queued, so the last output of a shell, or all that a slow client had
not yet got, may never be shown. `handlePaneIO` says that it waits for its pump
(`ws.go`, line 161); it waits for `done`, which it may have closed itself. The hub
drops a slow client so that "the client reconnects" (`session.go`, line 71), which
the frontend does not do. In the desktop window a PaneUnsubscribe that runs
after the PaneSubscribe which followed it removes the new subscription: the window
then shows a pane without output and without ":done". The pump of a replaced
subscription may emit a chunk after the new snapshot.

*Remote terminals.* The deadline of an ssh connection is cleared before the
channel, the PTY and the shell are requested (`ssh.go`, line 148), so an sshd that
falls silent then does hang Start, against the comment in line 139.

*Keys.* When the public key file cannot be written, the new private key is on disk
and the old one in memory; "in sync with disk" (`keys.go`, line 120) no longer
holds, and if there was none, the next Generate overwrites what a restart would
have found. A crash inside the write of the private key stops every later start
until the file is removed; one between the two files leaves the public key of the
old pair. If the list of authorized keys cannot be read, Add takes it as empty and
writes it back with one key. "Adding an already-present key only updates its
comment" (`keys.go`, line 322) holds for comments of one line: Add trims a comment
and `save` writes it as it is, so every further line is a line of the file, and the
next `load` takes one that is a key for an entry of its own, which stays when the key
the comment was added with is removed. The page sends one line, because its
input field holds one; the handler (`server.go`, line 661) takes any.
`AnswersAreRight` therefore counts such keys as put on the list.

*Agent status.* A stream whose channel was full at the last change shows the state
before it until the next change.

## 6. Not modelled, and what is left

- `AppState`: the last opened workspace, saved as a workspace is; its failure is a
  branch of OpenWorkspace. The PATCH of a workspace is two commands, each of which
  is modelled; that the pair is not atomic is visible in the code.
- Removal of a pane whose session lives, and a session registered during shutdown:
  both go wrong as described in section 5, so that there is nothing to check until
  the code changes.
- Two sessions of one pane behind one desktop window (the map outlives a session).

Left out for good: validation of single values, routing and encoding, parsing of
ssh targets and of `ps`, the choice of ssh credentials, git and "open in" (external
programs, no state), queries (read only), the state and styling of the page, build
scripts.
