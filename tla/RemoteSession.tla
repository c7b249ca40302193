---------------------------- MODULE RemoteSession ----------------------------
(***************************************************************************)
(* A terminal on another machine (core/infrastructure/remoteterm): the     *)
(* client session of dial.go (a WebSocket to another instance) or of       *)
(* ssh.go (an SSH channel to an sshd), the connection, and the far end.    *)
(*                                                                         *)
(* With transport "ws" the far end is the Handler of serve.go, which runs  *)
(* a local session: an input loop, an output pump and the shell between    *)
(* them. With transport "ssh" it is an sshd, external, modelled by the     *)
(* same loop and pump once it has started the shell: what it writes is the *)
(* channel's data, "exit" is its EOF.                                      *)
(*                                                                         *)
(* The connection keeps the order of messages. It may break at any moment, *)
(* and then loses the end of what is in flight in each direction; so does  *)
(* closing a socket that holds unread data.                                *)
(***************************************************************************)
EXTENDS Integers, Sequences

CONSTANTS
    Keys,       \* Ed25519 keys of instances
    NoKey,      \* this instance has not created its key
    NoChunk,    \* a pump holds no chunk
    MaxOutput,  \* bound: bytes the shell ever writes
    MaxChunk,   \* bytes in one frame (4096)
    OutCap,     \* capacity of the output channel (256)
    NetCap      \* bound: messages in flight in one direction (socket buffers)

ASSUME RemoteAssumption ==
    /\ MaxOutput \in Nat
    /\ MaxChunk \in Nat \ {0}
    /\ OutCap \in Nat \ {0}
    /\ NetCap \in Nat \ {0}
    /\ NoKey \notin Keys

VARIABLES
    transport,  \* the runner DispatchRunner chose
    start,      \* how far Start has come
    key,        \* the identity Start read
    pump, hand, \* the client's pump and the chunk it holds
    emitted, out, outClosed,    \* Output(), as in TerminalStream
    done,       \* Done() is closed
    up, down,   \* messages in flight to the far end, and from it
    cut,        \* the connection is broken
    clientOpen, serverOpen,     \* each end's socket
    authorized, \* the authorized keys of the listening instance
    listed,     \* history: the keys authorized at some time of the handshake
    handler,    \* the input loop at the far end
    serverPump, held,           \* the output pump there and its chunk
    produced,   \* bytes of output it has taken from the shell
    shell,      \* the shell
    stdinFull   \* the shell does not read its input and the queue is full

startVars == <<transport, start, key>>
pumpVars == <<pump, hand, done>>
streamVars == <<emitted, out, outClosed>>
netVars == <<up, down, cut, clientOpen, serverOpen>>
listVars == <<authorized, listed>>
outputVars == <<serverPump, held, produced>>
shellVars == <<shell, stdinFull>>
clientVars == <<startVars, pumpVars, streamVars>>
serverVars == <<listVars, handler, outputVars, shellVars>>
vars == <<clientVars, netVars, serverVars>>

Transports == {"ws", "ssh"}
StartStates == {"idle", "dialing", "challenge", "ack", "failed", "returned"}
PumpStates == {"none", "reading", "sending", "finishing", "waiting", "ended"}
HandlerStates == {"none", "auth", "start", "starting", "loop", "writing",
                  "returning", "leaving", "gone"}
ServerPumpStates == {"none", "reading", "writing", "killing", "announcing",
                     "closing", "ended"}

Chunk == [lo : Nat, hi : Nat]

\* Messages. An auth message carries the client's key, with the nonce signed
\* by it; an output message carries a chunk.
Control(type) == [type |-> type]
Auth(k) == [type |-> "auth", key |-> k]
Output(chunk) == [type |-> "output", chunk |-> chunk]

UpMessage ==
    [type : {"start", "input", "resize"}] \cup [type : {"auth"}, key : Keys]
DownMessage ==
    [type : {"challenge", "started", "error", "exit"}]
        \cup [type : {"output"}, chunk : Chunk]

\* What may be left of the messages q when the connection breaks.
Kept(q) == {SubSeq(q, 1, n) : n \in 0..Len(q)}

\* After closing a socket with the unread messages mine, what may be left of
\* those on their way to the other end.
AfterClose(mine, theirs) == IF mine = <<>> THEN {theirs} ELSE Kept(theirs)

Init ==
    /\ transport \in Transports
    /\ start = "idle" /\ key = NoKey
    /\ pump = "none" /\ hand = NoChunk /\ done = FALSE
    /\ emitted = 0 /\ out = <<>> /\ outClosed = FALSE
    /\ up = <<>> /\ down = <<>> /\ cut = FALSE
    /\ clientOpen = FALSE /\ serverOpen = FALSE
    /\ authorized \in SUBSET Keys /\ listed = {}
    /\ handler = "none"
    /\ serverPump = "none" /\ held = NoChunk /\ produced = 0
    /\ shell = "none" /\ stdinFull = FALSE

-----------------------------------------------------------------------------
(* The connection.                                                         *)

ClientReads(type) == clientOpen /\ down # <<>> /\ Head(down).type = type

ClientReadFails ==
    ~clientOpen \/ (down = <<>> /\ (cut \/ ~serverOpen))

ServerReads(types) == serverOpen /\ up # <<>> /\ Head(up).type \in types

ServerReadFails ==
    ~serverOpen \/ (up = <<>> /\ (cut \/ ~clientOpen))

\* What is written arrives, in order, as long as both ends are there; after
\* that a write fails or vanishes.
Connected == clientOpen /\ serverOpen /\ ~cut

CloseClientEnd ==
    /\ clientOpen' = FALSE
    /\ down' = <<>>
    /\ up' \in AfterClose(down, up)
    /\ UNCHANGED <<cut, serverOpen>>

CloseServerEnd ==
    /\ serverOpen' = FALSE
    /\ up' = <<>>
    /\ down' \in AfterClose(up, down)
    /\ UNCHANGED <<cut, clientOpen>>

\* The far end writes a message. A full connection blocks the writer.
ServerWrites(message) ==
    /\ ~Connected \/ Len(down) < NetCap
    /\ down' = IF Connected THEN Append(down, message) ELSE down
    /\ UNCHANGED <<up, cut, clientOpen, serverOpen>>

\* The network fails.
Break ==
    /\ ~cut
    /\ clientOpen \/ serverOpen
    /\ cut' = TRUE
    /\ up' \in Kept(up)
    /\ down' \in Kept(down)
    /\ UNCHANGED <<clientVars, clientOpen, serverOpen, serverVars>>

-----------------------------------------------------------------------------
(* Start, on the client.                                                   *)

\* The identity is read once. Without one there is nothing to sign with; ssh
\* does not use it.
BeginStart ==
    /\ start = "idle"
    /\ \E k \in IF transport = "ws" THEN Keys \cup {NoKey} ELSE {NoKey} :
         /\ key' = k
         /\ start' = IF transport = "ws" /\ k = NoKey THEN "failed" ELSE "dialing"
    /\ UNCHANGED <<transport, pumpVars, streamVars, netVars, serverVars>>

\* The host is malformed or unreachable, the listening side refuses with 403,
\* the SSH handshake is rejected or exceeds its deadline.
DialFails ==
    /\ start = "dialing"
    /\ start' = "failed"
    /\ UNCHANGED <<transport, key, pumpVars, streamVars, netVars, serverVars>>

\* The handler lets the client in while any key is authorized, and sends its
\* challenge.
DialWs ==
    /\ start = "dialing" /\ transport = "ws"
    /\ authorized # {}
    /\ start' = "challenge"
    /\ handler' = "auth"
    /\ listed' = authorized
    /\ clientOpen' = TRUE /\ serverOpen' = TRUE
    /\ down' = <<Control("challenge")>>
    /\ UNCHANGED <<transport, key, pumpVars, streamVars, up, cut, authorized,
                   outputVars, shellVars>>

\* Connected to the sshd; what follows (channel, PTY, shell) has no deadline.
DialSsh ==
    /\ start = "dialing" /\ transport = "ssh"
    /\ start' = "ack"
    /\ handler' = "starting"
    /\ clientOpen' = TRUE /\ serverOpen' = TRUE
    /\ UNCHANGED <<transport, key, pumpVars, streamVars, up, down, cut, listVars,
                   outputVars, shellVars>>

\* Sign the nonce with the identity read before, and ask for a shell.
AnswerChallenge ==
    /\ start = "challenge"
    /\ ClientReads("challenge")
    /\ start' = "ack"
    /\ down' = Tail(down)
    /\ up' = IF Connected THEN up \o <<Auth(key), Control("start")>> ELSE up
    /\ UNCHANGED <<transport, key, pumpVars, streamVars, cut, clientOpen,
                   serverOpen, serverVars>>

ReadAck ==
    /\ start = "ack"
    /\ ClientReads("started")
    /\ start' = "returned"
    /\ pump' = "reading"
    /\ down' = Tail(down)
    /\ UNCHANGED <<transport, key, hand, done, streamVars, up, cut, clientOpen,
                   serverOpen, serverVars>>

\* A read failed, the answer to the challenge could not be written, or the far
\* end reports an error: close the connection and return the error.
StartFails ==
    /\ start \in {"challenge", "ack"}
    /\ \/ ClientReadFails
       \/ start = "challenge" /\ ~Connected
       \/ ClientReads("error")
    /\ start' = "failed"
    /\ CloseClientEnd
    /\ UNCHANGED <<transport, key, pumpVars, streamVars, serverVars>>

Start == DialFails \/ DialWs \/ DialSsh \/ AnswerChallenge \/ ReadAck \/ StartFails

-----------------------------------------------------------------------------
(* The session Start returned: its pump, and its callers.                  *)

PumpReads ==
    /\ pump = "reading"
    /\ ClientReads("output")
    /\ hand' = Head(down).chunk
    /\ down' = Tail(down)
    /\ pump' = "sending"
    /\ UNCHANGED <<startVars, done, streamVars, up, cut, clientOpen, serverOpen,
                   serverVars>>

\* The process has ended. Over ssh this is EOF and ends the loop; over ws the
\* message is skipped, the close that follows ends the loop.
PumpReadsExit ==
    /\ pump = "reading"
    /\ ClientReads("exit")
    /\ down' = Tail(down)
    /\ pump' = IF transport = "ssh" THEN "finishing" ELSE "reading"
    /\ UNCHANGED <<startVars, hand, done, streamVars, up, cut, clientOpen,
                   serverOpen, serverVars>>

\* The connection was lost, or closed by either end; ws closes its own end.
PumpFails ==
    /\ pump = "reading"
    /\ ClientReadFails
    /\ pump' = "finishing"
    /\ IF transport = "ws" THEN CloseClientEnd ELSE UNCHANGED netVars
    /\ UNCHANGED <<startVars, hand, done, streamVars, serverVars>>

\* Mutant: the output channel has no limit.
PumpSendsAlways ==
    /\ pump = "sending"
    /\ out' = Append(out, hand)
    /\ emitted' = hand.hi
    /\ hand' = NoChunk
    /\ pump' = "reading"
    /\ UNCHANGED <<startVars, done, outClosed, netVars, serverVars>>

\* A plain send: a full channel blocks the pump until somebody receives.
PumpSends ==
    /\ pump = "sending"
    /\ Len(out) < OutCap
    /\ out' = Append(out, hand)
    /\ emitted' = hand.hi
    /\ hand' = NoChunk
    /\ pump' = "reading"
    /\ UNCHANGED <<startVars, done, outClosed, netVars, serverVars>>

PumpClosesOutput ==
    /\ pump = "finishing"
    /\ outClosed' = TRUE
    /\ pump' = "waiting"
    /\ UNCHANGED <<startVars, hand, done, emitted, out, netVars, serverVars>>

\* Mutant: no teardown when the shell exits on its own.
PumpEndsOnly ==
    /\ pump = "waiting"
    /\ done' = TRUE
    /\ pump' = "ended"
    /\ UNCHANGED <<startVars, hand, streamVars, netVars, serverVars>>

\* Over ssh: wait until the channel is closed and tear the connection down
\* first.
PumpEnds ==
    /\ pump = "waiting"
    /\ \/ transport = "ws" /\ UNCHANGED netVars
       \/ transport = "ssh" /\ ~Connected /\ CloseClientEnd
    /\ done' = TRUE
    /\ pump' = "ended"
    /\ UNCHANGED <<startVars, hand, streamVars, serverVars>>

Pump == PumpReads \/ PumpReadsExit \/ PumpFails \/ PumpSends \/ PumpClosesOutput \/ PumpEnds

\* Whoever ranges over Output().
Consume ==
    /\ out # <<>>
    /\ out' = Tail(out)
    /\ UNCHANGED <<emitted, outClosed, startVars, pumpVars, netVars, serverVars>>

\* Write or Resize; it blocks while the connection takes no more.
SendInput ==
    /\ start = "returned"
    /\ clientOpen
    /\ Len(up) < NetCap
    /\ \E type \in {"input", "resize"} :
         up' = IF Connected THEN Append(up, Control(type)) ELSE up
    /\ UNCHANGED <<clientVars, down, cut, clientOpen, serverOpen, serverVars>>

\* Close takes no lock: it closes the connection, also under a blocked Write.
Close ==
    /\ start = "returned"
    /\ clientOpen
    /\ CloseClientEnd
    /\ UNCHANGED <<clientVars, serverVars>>

-----------------------------------------------------------------------------
(* The handler of a connection, at the far end.                            *)

\* Keys are added to the list and removed from it at any time; a call or an edit
\* that changes several is several of these steps. The list is
\* read last when the client authenticates, later changes are left out.
EditAuthorized ==
    /\ handler \in {"none", "auth"}
    /\ transport = "ws" /\ start # "failed"
    /\ \E k \in Keys : authorized' \in {authorized \cup {k}, authorized \ {k}}
    /\ listed' = IF handler = "auth" THEN listed \cup authorized' ELSE listed
    /\ UNCHANGED <<clientVars, netVars, handler, outputVars, shellVars>>

\* Mutant: only ask whether any key is authorized.
AuthenticateAnyone ==
    /\ handler = "auth"
    /\ ServerReads({"auth"})
    /\ authorized # {}
    /\ handler' = "start"
    /\ up' = Tail(up)
    /\ UNCHANGED <<clientVars, down, cut, clientOpen, serverOpen, listVars,
                   outputVars, shellVars>>

\* The key must be on the list, and have signed the nonce of this connection.
Authenticate ==
    /\ handler = "auth"
    /\ ServerReads({"auth"})
    /\ IF Head(up).key \in authorized
       THEN /\ handler' = "start"
            /\ UNCHANGED down
       ELSE /\ handler' = "returning"
            /\ down' = IF Connected THEN Append(down, Control("error")) ELSE down
    /\ up' = Tail(up)
    /\ UNCHANGED <<clientVars, cut, clientOpen, serverOpen, listVars, outputVars,
                   shellVars>>

ReadStart ==
    /\ handler = "start"
    /\ ServerReads({"start"})
    /\ handler' = "starting"
    /\ up' = Tail(up)
    /\ UNCHANGED <<clientVars, down, cut, clientOpen, serverOpen, listVars,
                   outputVars, shellVars>>

\* The connection is lost, or the ten seconds for auth and start are over.
HandshakeEnds ==
    /\ handler \in {"auth", "start"}
    /\ handler' = "returning"
    /\ UNCHANGED <<clientVars, netVars, listVars, outputVars, shellVars>>

\* The session was started and "started" written; the output pump runs.
StartShell ==
    /\ handler = "starting"
    /\ shell' = "running"
    /\ serverPump' = "reading"
    /\ handler' = "loop"
    /\ ServerWrites(Control("started"))
    /\ UNCHANGED <<clientVars, listVars, held, produced, stdinFull>>

\* The session was started, but the client is gone: return, which closes it.
StartShellForNobody ==
    /\ handler = "starting"
    /\ ~Connected
    /\ shell' = "running"
    /\ handler' = "returning"
    /\ UNCHANGED <<clientVars, netVars, listVars, outputVars, stdinFull>>

\* There is no such directory or shell.
StartShellFails ==
    /\ handler = "starting"
    /\ handler' = "returning"
    /\ ServerWrites(Control("error"))
    /\ UNCHANGED <<clientVars, listVars, outputVars, shellVars>>

HandleInput ==
    /\ handler = "loop"
    /\ ServerReads({"input", "resize"})
    /\ handler' = IF Head(up).type = "input" THEN "writing" ELSE "loop"
    /\ up' = Tail(up)
    /\ UNCHANGED <<clientVars, down, cut, clientOpen, serverOpen, listVars,
                   outputVars, shellVars>>

\* The loop waits for sess.Write, which blocks while the shell leaves its
\* input unread.
WriteReturns ==
    /\ handler = "writing"
    /\ ~(shell = "running" /\ stdinFull)
    /\ handler' = "loop"
    /\ stdinFull' \in IF shell = "running" THEN BOOLEAN ELSE {stdinFull}
    /\ UNCHANGED <<clientVars, netVars, listVars, outputVars, shell>>

LoopEnds ==
    /\ handler = "loop"
    /\ ServerReadFails
    /\ handler' = "returning"
    /\ UNCHANGED <<clientVars, netVars, listVars, outputVars, shellVars>>

\* Mutant: the deferred Close is registered after the ack was written.
HandlerOnlyLeaves ==
    /\ handler = "returning"
    /\ shell' = IF shell = "running" /\ serverPump # "none" THEN "exited" ELSE shell
    /\ handler' = "leaving"
    /\ UNCHANGED <<clientVars, netVars, listVars, outputVars, stdinFull>>

\* Deferred: sess.Close, if a session was started.
HandlerClosesSession ==
    /\ handler = "returning"
    /\ shell' = IF shell = "running" THEN "exited" ELSE shell
    /\ handler' = "leaving"
    /\ UNCHANGED <<clientVars, netVars, listVars, outputVars, stdinFull>>

\* Deferred: ws.Close.
HandlerClosesConnection ==
    /\ handler = "leaving"
    /\ handler' = "gone"
    /\ CloseServerEnd
    /\ UNCHANGED <<clientVars, listVars, outputVars, shellVars>>

-----------------------------------------------------------------------------
(* The output pump and the shell, at the far end. The local session is     *)
(* seen through its contract (TerminalStream, PtySession): its output in   *)
(* order, then a closed channel; a Close that waits for a Write.           *)

\* Also what an exited shell has left in the channel.
TakeOutput(n) ==
    /\ serverPump = "reading"
    /\ produced + n <= MaxOutput
    /\ held' = [lo |-> produced, hi |-> produced + n]
    /\ produced' = produced + n
    /\ serverPump' = "writing"
    /\ UNCHANGED <<clientVars, netVars, listVars, handler, shellVars>>

\* Mutant: a full connection loses the frame.
WriteOutputOrDrop ==
    /\ serverPump = "writing"
    /\ down' = IF Connected /\ Len(down) < NetCap THEN Append(down, Output(held)) ELSE down
    /\ held' = NoChunk
    /\ serverPump' = "reading"
    /\ UNCHANGED <<clientVars, up, cut, clientOpen, serverOpen, listVars, handler,
                   produced, shellVars>>

WriteOutput ==
    /\ serverPump = "writing"
    /\ ServerWrites(Output(held))
    /\ held' = NoChunk
    /\ serverPump' = "reading"
    /\ UNCHANGED <<clientVars, listVars, handler, produced, shellVars>>

WriteOutputFails ==
    /\ serverPump = "writing"
    /\ ~Connected
    /\ held' = NoChunk
    /\ serverPump' = "killing"
    /\ UNCHANGED <<clientVars, netVars, listVars, handler, produced, shellVars>>

\* After a failed write: sess.Close, which waits for a sess.Write in progress.
ServerPumpClosesSession ==
    /\ serverPump = "killing"
    /\ handler # "writing"
    /\ shell' = "exited"
    /\ serverPump' = "ended"
    /\ UNCHANGED <<clientVars, netVars, listVars, handler, held, produced, stdinFull>>

OutputEnds ==
    /\ serverPump = "reading"
    /\ shell = "exited"
    /\ serverPump' = "announcing"
    /\ UNCHANGED <<clientVars, netVars, listVars, handler, held, produced, shellVars>>

AnnounceExit ==
    /\ serverPump = "announcing"
    /\ ServerWrites(Control("exit"))
    /\ serverPump' = "closing"
    /\ UNCHANGED <<clientVars, listVars, handler, held, produced, shellVars>>

\* The close frame and ws.Close, which make the input loop's read fail.
ServerPumpClosesConnection ==
    /\ serverPump = "closing"
    /\ serverPump' = "ended"
    /\ CloseServerEnd
    /\ UNCHANGED <<clientVars, listVars, handler, held, produced, shellVars>>

ShellExits ==
    /\ shell = "running"
    /\ shell' = "exited"
    /\ UNCHANGED <<clientVars, netVars, listVars, handler, outputVars, stdinFull>>

ShellReadsInput ==
    /\ shell = "running"
    /\ stdinFull
    /\ stdinFull' = FALSE
    /\ UNCHANGED <<clientVars, netVars, listVars, handler, outputVars, shell>>

\* What the handler does by itself once a connection is there. An sshd may
\* keep silent for ever instead of starting the shell.
Handle ==
    \/ Authenticate \/ ReadStart \/ HandshakeEnds
    \/ StartShell \/ StartShellForNobody \/ StartShellFails
    \/ HandleInput \/ WriteReturns \/ LoopEnds
    \/ HandlerClosesSession \/ HandlerClosesConnection

ServerPump ==
    \/ \E n \in 1..MaxChunk : TakeOutput(n)
    \/ WriteOutput \/ WriteOutputFails \/ ServerPumpClosesSession
    \/ OutputEnds \/ AnnounceExit \/ ServerPumpClosesConnection

-----------------------------------------------------------------------------

Next ==
    \/ BeginStart \/ Start
    \/ Pump \/ Consume \/ SendInput \/ Close
    \/ EditAuthorized \/ Handle \/ ServerPump
    \/ ShellExits \/ ShellReadsInput
    \/ Break

Spec == Init /\ [][Next]_vars

\* The goroutines run, and the session of the hub drains the output channel
\* (SessionHub). A broken connection is noticed: TCP keep-alive is on by
\* default in Go's dialers and listeners. Nothing is assumed of the callers,
\* the shell, or an sshd that is asked for a shell.
Fairness ==
    /\ WF_vars(Start) /\ WF_vars(Pump) /\ WF_vars(Consume)
    /\ WF_vars(Handle /\ (transport = "ssh" => handler # "starting"))
    /\ WF_vars(ServerPump)

FairSpec == Spec /\ Fairness

\* In addition the program in the terminal keeps reading its input.
ReadingSpec == FairSpec /\ WF_vars(ShellReadsInput)

-----------------------------------------------------------------------------

TypeOK ==
    /\ transport \in Transports
    /\ start \in StartStates
    /\ key \in Keys \cup {NoKey}
    /\ pump \in PumpStates
    /\ hand \in Chunk \cup {NoChunk}
    /\ emitted \in Nat
    /\ out \in Seq(Chunk) /\ Len(out) <= OutCap
    /\ outClosed \in BOOLEAN /\ done \in BOOLEAN
    /\ up \in Seq(UpMessage)
    /\ down \in Seq(DownMessage) /\ Len(down) <= NetCap
    /\ cut \in BOOLEAN /\ clientOpen \in BOOLEAN /\ serverOpen \in BOOLEAN
    /\ authorized \subseteq Keys /\ listed \subseteq Keys
    /\ handler \in HandlerStates
    /\ serverPump \in ServerPumpStates
    /\ held \in Chunk \cup {NoChunk}
    /\ produced \in Nat
    /\ shell \in {"none", "running", "exited"}
    /\ stdinFull \in BOOLEAN

\* What reaches the client's output channel is the remote shell's output, in
\* order and without a hole, wherever the connection breaks, and nothing is
\* sent after the channel is closed.
Stream == INSTANCE TerminalStream

ImplementsStream == Stream!StreamSpec

\* A shell is started for an instance only if its key was on the list of
\* authorized keys at some moment between its connecting and its answer to
\* the challenge, however the list is edited meanwhile.
OnlyAuthorizedStarts ==
    transport = "ws" /\ shell # "none" => key \in listed

\* The shell at the far end does not outlive the connection, whichever side
\* went away and whatever the loop and the pump were doing then.
ShellEndsWithConnection ==
    (start # "idle" /\ (cut \/ ~clientOpen)) ~> (shell # "running")

\* When the connection is lost, or closed by either end, the client's session
\* ends: Output() and Done() are closed and the socket is released.
SessionEndsWithConnection ==
    (start = "returned" /\ ~Connected) ~> (outClosed /\ done /\ ~clientOpen)
=============================================================================
