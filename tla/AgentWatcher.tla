---------------------------- MODULE AgentWatcher ----------------------------
(***************************************************************************)
(* The agent status watcher (core/application/agentstatus): a loop that    *)
(* polls the processes and the sessions, classifies every pane, and tells  *)
(* the streams of browser tabs (apps/web/server_agentstatus.go) what has   *)
(* changed.                                                                *)
(*                                                                         *)
(* A pane's output is seen as one bit, whether the end of the scrollback   *)
(* shows a permission prompt, and the time of the last chunk. An agent is  *)
(* a process below the pane's shell that DetectTools finds. Time is        *)
(* counted in ticks; a pane is opened at most once. Start is called once   *)
(* and Stop never.                                                         *)
(***************************************************************************)
EXTENDS Integers, Sequences

CONSTANTS
    Panes,
    Streams,    \* connections to /api/agent-status/stream
    QueueCap,   \* capacity of a subscriber's channel (8)
    IdleTime,   \* WaitIdleThreshold in ticks
    MaxTime     \* bound: the last tick

ASSUME WatcherAssumption ==
    /\ QueueCap \in Nat \ {0}
    /\ IdleTime \in Nat \ {0}
    /\ MaxTime \in Nat

VARIABLES
    clock,      \* the time
    session,    \* per pane: not opened yet, in the registry, or ended
    agent,      \* the panes below whose shells an agent runs
    prompt,     \* the panes whose scrollback ends with a prompt
    lastOutput, \* when the last chunk arrived
    loop,       \* where the polling loop is
    now,        \* the time this poll was triggered
    procs,      \* the panes below whose shells the scan has seen an agent
    todo,       \* sessions listed and not read yet
    tail,       \* what Tail returned for the pane being read
    result,     \* the snapshot under construction
    current,    \* the last snapshot
    subs,       \* registered subscribers
    toSend,     \* subscribers this poll has not sent to yet
    queue,      \* each subscriber's channel
    stream,     \* where each stream's handler is
    next,       \* the snapshot it is about to send
    seen,       \* the snapshot the tab received last
    behind      \* history: the streams for which the last change was not queued

paneVars == <<clock, session, agent, prompt, lastOutput>>
pollVars == <<loop, now, procs, todo, tail, result>>
subVars == <<subs, queue, behind>>
streamVars == <<stream, next, seen>>
vars == <<paneVars, pollVars, current, toSend, subVars, streamVars>>

\* A pane's part of a snapshot; "none" stands for no entry.
States == {"none", "active", "wait"}
Snapshot == [Panes -> States]
Empty == [p \in Panes |-> "none"]

NotRead == [pane |-> "none", prompt |-> "unknown"]

Init ==
    /\ clock = IdleTime
    /\ session = [p \in Panes |-> "absent"]
    /\ agent = {} /\ prompt = {}
    /\ lastOutput = [p \in Panes |-> 0]
    /\ loop = "waiting" /\ now = IdleTime
    /\ procs = {} /\ todo = {} /\ tail = NotRead
    /\ result = Empty /\ current = Empty
    /\ subs = {} /\ toSend = {}
    /\ queue = [c \in Streams |-> <<>>]
    /\ stream = [c \in Streams |-> "off"]
    /\ next = [c \in Streams |-> Empty]
    /\ seen = [c \in Streams |-> Empty]
    /\ behind = {}

-----------------------------------------------------------------------------
(* What is watched.                                                        *)

TimePasses ==
    /\ clock < MaxTime
    /\ clock' = clock + 1
    /\ UNCHANGED <<session, agent, prompt, lastOutput, pollVars, current, toSend,
                   subVars, streamVars>>

\* A pane is opened; its session ends and is unregistered, the hub can still
\* be read by who has it.
ChangeSession(p) ==
    /\ session' = [session EXCEPT ![p] = IF @ = "absent" THEN "open" ELSE "ended"]
    /\ session' # session
    /\ agent' = agent \ {p}
    /\ UNCHANGED <<clock, prompt, lastOutput, pollVars, current, toSend, subVars,
                   streamVars>>

\* An agent is started in the pane's shell, or exits.
ChangeAgent(p) ==
    /\ session[p] = "open"
    /\ agent' = IF p \in agent THEN agent \ {p} ELSE agent \cup {p}
    /\ UNCHANGED <<clock, session, prompt, lastOutput, pollVars, current, toSend,
                   subVars, streamVars>>

\* A chunk arrives, after which a prompt is in the tail or is not.
OutputArrives(p) ==
    /\ session[p] = "open"
    /\ prompt' \in {prompt \cup {p}, prompt \ {p}}
    /\ lastOutput' = [lastOutput EXCEPT ![p] = clock]
    /\ UNCHANGED <<clock, session, agent, pollVars, current, toSend, subVars,
                   streamVars>>

-----------------------------------------------------------------------------
(* The loop.                                                               *)

\* A tick triggers a poll; the ticker keeps one for a loop that is busy.
StartPoll ==
    /\ loop = "waiting"
    /\ now' \in now..clock
    /\ result' = Empty
    /\ loop' = "scanning"
    /\ UNCHANGED <<paneVars, procs, todo, tail, current, toSend, subVars, streamVars>>

Scan ==
    /\ loop = "scanning"
    /\ procs' = agent
    /\ loop' = "listing"
    /\ UNCHANGED <<paneVars, now, todo, tail, result, current, toSend, subVars,
                   streamVars>>

\* The scan failed or found nothing: the snapshot is empty.
ScanFails ==
    /\ loop = "scanning"
    /\ loop' = "reading"
    /\ UNCHANGED <<paneVars, now, procs, todo, tail, result, current, toSend,
                   subVars, streamVars>>

\* The ids in the registry.
List ==
    /\ loop = "listing"
    /\ todo' = {p \in Panes : session[p] = "open"}
    /\ loop' = "reading"
    /\ UNCHANGED <<paneVars, now, procs, tail, result, current, toSend, subVars,
                   streamVars>>

\* Get, and Tail of the session; one that is gone is skipped.
ReadTail(p) ==
    /\ loop = "reading"
    /\ tail = NotRead
    /\ p \in todo
    /\ todo' = todo \ {p}
    /\ tail' = IF session[p] = "open"
               THEN [pane |-> p, prompt |-> IF p \in prompt THEN "shown" ELSE "absent"]
               ELSE NotRead
    /\ UNCHANGED <<paneVars, loop, now, procs, result, current, toSend, subVars,
                   streamVars>>

ClassifyState(promptSeen, last, time) ==
    IF time - last >= IdleTime /\ promptSeen = "shown" THEN "wait" ELSE "active"

\* Mutant: the time is taken when the pane is classified.
ReadLastOutputNow ==
    /\ tail # NotRead
    /\ result' = [result EXCEPT ![tail.pane] =
                    IF tail.pane \in procs
                    THEN ClassifyState(tail.prompt, lastOutput[tail.pane], clock)
                    ELSE "none"]
    /\ tail' = NotRead
    /\ UNCHANGED <<paneVars, loop, now, procs, todo, current, toSend, subVars,
                   streamVars>>

\* LastOutputAt of the same session, and its classification.
ReadLastOutput ==
    /\ tail # NotRead
    /\ result' = [result EXCEPT ![tail.pane] =
                    IF tail.pane \in procs
                    THEN ClassifyState(tail.prompt, lastOutput[tail.pane], now)
                    ELSE "none"]
    /\ tail' = NotRead
    /\ UNCHANGED <<paneVars, loop, now, procs, todo, current, toSend, subVars,
                   streamVars>>

\* Under the lock: a snapshot that has not changed is forgotten; otherwise it
\* becomes the current one and the subscribers of this moment are noted.
Publish ==
    /\ loop = "reading" /\ todo = {} /\ tail = NotRead
    /\ IF result = current
       THEN /\ loop' = "waiting"
            /\ UNCHANGED <<current, toSend>>
       ELSE /\ loop' = "pushing"
            /\ current' = result
            /\ toSend' = subs
    /\ UNCHANGED <<paneVars, now, procs, todo, tail, result, subVars, streamVars>>

\* Mutant: send without looking at the room.
PushAlways(c) ==
    /\ c \in toSend
    /\ queue' = [queue EXCEPT ![c] = Append(@, result)]
    /\ behind' = behind \ {c}
    /\ toSend' = toSend \ {c}
    /\ UNCHANGED <<paneVars, pollVars, current, subs, streamVars>>

\* Without waiting: a subscriber whose channel is full is skipped.
Push(c) ==
    /\ c \in toSend
    /\ queue' = IF Len(queue[c]) < QueueCap
                THEN [queue EXCEPT ![c] = Append(@, result)]
                ELSE queue
    /\ behind' = IF Len(queue[c]) < QueueCap THEN behind \ {c} ELSE behind \cup {c}
    /\ toSend' = toSend \ {c}
    /\ UNCHANGED <<paneVars, pollVars, current, subs, streamVars>>

EndPush ==
    /\ loop = "pushing"
    /\ toSend = {}
    /\ loop' = "waiting"
    /\ UNCHANGED <<paneVars, now, procs, todo, tail, result, current, toSend,
                   subVars, streamVars>>

Poll ==
    \/ StartPoll \/ Scan \/ ScanFails \/ List
    \/ (\E p \in Panes : ReadTail(p)) \/ ReadLastOutput
    \/ Publish \/ (\E c \in Streams : Push(c)) \/ EndPush

-----------------------------------------------------------------------------
(* The streams.                                                            *)

\* Mutant: register and look at the snapshot the poll before had.
ConnectUnlocked(c) ==
    /\ stream[c] = "off"
    /\ subs' = subs \cup {c}
    /\ next' \in {[next EXCEPT ![c] = s] : s \in {current, result}}
    /\ stream' = [stream EXCEPT ![c] = "sending"]
    /\ queue' = [queue EXCEPT ![c] = <<>>]
    /\ behind' = behind \ {c}
    /\ UNCHANGED <<paneVars, pollVars, current, toSend, seen>>

\* Subscribe: register and copy the current snapshot in one critical section.
Connect(c) ==
    /\ stream[c] = "off"
    /\ subs' = subs \cup {c}
    /\ next' = [next EXCEPT ![c] = current]
    /\ stream' = [stream EXCEPT ![c] = "sending"]
    /\ queue' = [queue EXCEPT ![c] = <<>>]
    /\ behind' = behind \ {c}
    /\ UNCHANGED <<paneVars, pollVars, current, toSend, seen>>

Send(c) ==
    /\ stream[c] = "sending"
    /\ seen' = [seen EXCEPT ![c] = next[c]]
    /\ stream' = [stream EXCEPT ![c] = "listening"]
    /\ UNCHANGED <<paneVars, pollVars, current, toSend, subVars, next>>

ReceiveSnapshot(c) ==
    /\ stream[c] = "listening"
    /\ queue[c] # <<>>
    /\ next' = [next EXCEPT ![c] = Head(queue[c])]
    /\ queue' = [queue EXCEPT ![c] = Tail(@)]
    /\ stream' = [stream EXCEPT ![c] = "sending"]
    /\ UNCHANGED <<paneVars, pollVars, current, toSend, subs, behind, seen>>

\* The tab is gone, or a write to it fails: cancel. What the poll still sends
\* to its channel nobody receives.
Disconnect(c) ==
    /\ stream[c] # "off"
    /\ stream' = [stream EXCEPT ![c] = "off"]
    /\ subs' = subs \ {c}
    /\ toSend' = toSend \ {c}
    /\ queue' = [queue EXCEPT ![c] = <<>>]
    /\ next' = [next EXCEPT ![c] = Empty]
    /\ seen' = [seen EXCEPT ![c] = Empty]
    /\ behind' = behind \ {c}
    /\ UNCHANGED <<paneVars, pollVars, current>>

-----------------------------------------------------------------------------

Next ==
    \/ TimePasses
    \/ \E p \in Panes : ChangeSession(p) \/ ChangeAgent(p) \/ OutputArrives(p)
    \/ Poll
    \/ \E c \in Streams : Connect(c) \/ Send(c) \/ ReceiveSnapshot(c) \/ Disconnect(c)

Spec == Init /\ [][Next]_vars

-----------------------------------------------------------------------------

TypeOK ==
    /\ clock \in Nat /\ now \in Nat
    /\ session \in [Panes -> {"absent", "open", "ended"}]
    /\ agent \subseteq Panes /\ prompt \subseteq Panes
    /\ lastOutput \in [Panes -> Nat]
    /\ loop \in {"waiting", "scanning", "listing", "reading", "pushing"}
    /\ procs \subseteq Panes /\ todo \subseteq Panes
    /\ tail \in [pane : Panes, prompt : {"shown", "absent"}] \cup {NotRead}
    /\ result \in Snapshot /\ current \in Snapshot
    /\ subs \subseteq Streams /\ toSend \subseteq Streams
    /\ queue \in [Streams -> Seq(Snapshot)]
    /\ \A c \in Streams : Len(queue[c]) <= QueueCap
    /\ stream \in [Streams -> {"off", "sending", "listening"}]
    /\ next \in [Streams -> Snapshot] /\ seen \in [Streams -> Snapshot]
    /\ behind \subseteq Streams

\* What a stream has, is sending, or has queued last.
Latest(c) ==
    IF queue[c] # <<>> THEN queue[c][Len(queue[c])]
    ELSE IF stream[c] = "sending" THEN next[c] ELSE seen[c]

\* A stream that was not skipped at the last change, and to which the poll is
\* not about to send, shows or will show the current snapshot once it has
\* taken what is queued: also one that connected while a poll went on.
StreamIsFresh ==
    \A c \in Streams :
        stream[c] # "off" /\ c \notin toSend /\ c \notin behind => Latest(c) = current

\* A pane is found waiting only if, when it is, its last output ends with the
\* prompt and nothing was output for the threshold: output that comes between
\* the two reads never makes an old prompt count.
WaitIsReal ==
    [][\A p \in Panes :
         result'[p] = "wait" /\ result[p] # "wait" =>
            p \in prompt /\ clock - lastOutput[p] >= IdleTime]_vars
=============================================================================
