------------------------------- MODULE PaneHub -------------------------------
(***************************************************************************)
(* A registered session as those see it who show its output: one step for  *)
(* each critical section of session.Session (SessionHub has its goroutine  *)
(* and its scrollback in full).                                            *)
(*                                                                         *)
(* Subscription Tab belongs to a browser tab, the others to the calls of   *)
(* PaneSubscribe of the desktop window, the i-th of which gets number i.   *)
(***************************************************************************)
EXTENDS Integers, Sequences

CONSTANTS
    MaxOutput,      \* bound: bytes of output the session distributes
    MaxChunk,       \* bytes in one chunk
    MaxScrollback,  \* bytes the scrollback ring keeps
    SubCap,         \* capacity of a subscription's channel (1024)
    MaxCalls,       \* bound: calls the desktop window makes
    NoChunk         \* a pump holds no chunk

ASSUME PaneAssumption ==
    /\ MaxOutput \in Nat
    /\ MaxChunk \in Nat \ {0}
    /\ MaxScrollback \in Nat \ {0}
    /\ SubCap \in Nat \ {0}
    /\ MaxCalls \in Nat

VARIABLES
    drained,    \* bytes distributed so far
    over,       \* the output has ended
    registered, \* the registry knows the session
    live,       \* subscriptions that get every chunk
    closed,     \* subscriptions whose Done() is closed
    queue       \* the chunks in each subscription's channel

hubVars == <<drained, over, registered, live, closed, queue>>

Tab == 0
Calls == 1..MaxCalls
Subscriptions == {Tab} \cup Calls

Chunk == [lo : Nat, hi : Nat]

HubInit ==
    /\ drained = 0
    /\ over = FALSE
    /\ registered = TRUE
    /\ live = {} /\ closed = {}
    /\ queue = [s \in Subscriptions |-> <<>>]

\* What Subscribe returns as the scrollback.
Snapshot ==
    [lo |-> IF drained > MaxScrollback THEN drained - MaxScrollback ELSE 0,
     hi |-> drained]

Room(s) == Len(queue[s]) < SubCap

\* Mutant: send without looking at the room.
DistributeAnyway(n) ==
    /\ ~over
    /\ drained + n <= MaxOutput
    /\ drained' = drained + n
    /\ queue' = [s \in Subscriptions |->
                   IF s \in live
                   THEN Append(queue[s], [lo |-> drained, hi |-> drained + n])
                   ELSE queue[s]]
    /\ UNCHANGED <<over, registered, live, closed>>

\* The next chunk goes to every subscription with room; the others are
\* dropped.
Distribute(n) ==
    /\ ~over
    /\ drained + n <= MaxOutput
    /\ drained' = drained + n
    /\ queue' = [s \in Subscriptions |->
                   IF s \in live /\ Room(s)
                   THEN Append(queue[s], [lo |-> drained, hi |-> drained + n])
                   ELSE queue[s]]
    /\ live' = {s \in live : Room(s)}
    /\ closed' = closed \cup {s \in live : ~Room(s)}
    /\ UNCHANGED <<over, registered>>

End ==
    /\ ~over
    /\ over' = TRUE
    /\ closed' = closed \cup live
    /\ live' = {}
    /\ UNCHANGED <<drained, registered, queue>>

\* The reaper after the end, or ClosePane before it.
Unregister ==
    /\ registered
    /\ registered' = FALSE
    /\ UNCHANGED <<drained, over, live, closed, queue>>

HubNext == (\E n \in 1..MaxChunk : Distribute(n)) \/ End \/ Unregister

\* Subscribe: the subscription of an ended session is done from the start.
Join(s) ==
    /\ live' = IF over THEN live ELSE live \cup {s}
    /\ closed' = IF over THEN closed \cup {s} ELSE closed
    /\ UNCHANGED <<drained, over, registered, queue>>

\* Unsubscribe: nothing happens to a subscription that is not live.
Quit(s) ==
    /\ live' = live \ {s}
    /\ closed' = IF s \in live THEN closed \cup {s} ELSE closed
    /\ UNCHANGED <<drained, over, registered, queue>>

\* Receive from C().
Dequeue(s) ==
    /\ queue[s] # <<>>
    /\ queue' = [queue EXCEPT ![s] = Tail(@)]
    /\ UNCHANGED <<drained, over, registered, live, closed>>

HubTypeOK ==
    /\ drained \in Nat
    /\ over \in BOOLEAN /\ registered \in BOOLEAN
    /\ live \subseteq Subscriptions /\ closed \subseteq Subscriptions
    /\ queue \in [Subscriptions -> Seq(Chunk)]
    /\ \A s \in Subscriptions : Len(queue[s]) <= SubCap
=============================================================================
