----------------------------- MODULE SessionHub -----------------------------
(***************************************************************************)
(* session.Session (core/application/session/session.go): one goroutine    *)
(* drains the output of the terminal into a scrollback ring and fans every *)
(* chunk out to the live subscriptions, without ever waiting for one.      *)
(*                                                                         *)
(* A client holds at most one subscription at a time; when it has given    *)
(* one up it may subscribe again (a browser tab that reconnects).          *)
(* Everything done under s.mu is one step. lastOutput, a wall-clock time   *)
(* in the code, is the stream position at which the last chunk ended.      *)
(***************************************************************************)
EXTENDS TerminalStream

CONSTANTS
    Clients,        \* whoever may call Subscribe
    SubCap,         \* capacity of a subscription's channel (1024)
    MaxScrollback,  \* bytes the scrollback ring keeps
    NoChunk         \* the drain goroutine holds no chunk

ASSUME HubAssumption ==
    /\ SubCap \in Nat \ {0}
    /\ MaxScrollback \in Nat \ {0}
    /\ NoChunk \notin Chunk

VARIABLES
    drainer,    \* where the drain goroutine is
    hand,       \* the chunk it received and has not yet distributed
    scrollback, \* the most recent bytes of output
    lastOutput, \* when the last chunk arrived
    ended,      \* the output channel was found closed
    hubDone,    \* Done() is closed
    subs,       \* the clients whose subscription is live
    attached,   \* the clients that hold a subscription, live or not
    ch,         \* the chunks waiting in each subscription's channel
    doneCloses, \* how often each subscription's done channel was closed
    view        \* what each client was given: the snapshot and what it received

hubVars == <<drainer, hand, scrollback, lastOutput, ended, hubDone>>
subVars == <<subs, attached, ch, doneCloses, view>>
vars == <<streamVars, hubVars, subVars>>

DrainerStates == {"receiving", "distributing", "closing", "exited"}

HubInit ==
    /\ StreamInit
    /\ drainer = "receiving"
    /\ hand = NoChunk
    /\ scrollback = <<>>
    /\ lastOutput = 0
    /\ ended = FALSE
    /\ hubDone = FALSE
    /\ subs = {}
    /\ attached = {}
    /\ ch = [c \in Clients |-> <<>>]
    /\ doneCloses = [c \in Clients |-> 0]
    /\ view = [c \in Clients |-> <<>>]

(***************************************************************************)
(* Definitions marked "Mutant" are wrong on purpose and occur in no step:  *)
(* each is a bug the definition after it could have had. Put in its place, *)
(* TLC finds the property violated that PROJECT.json pairs with it.        *)
(***************************************************************************)

\* Mutant: keep the oldest bytes instead of the latest.
TrimTail(buffer) ==
    IF Len(buffer) > MaxScrollback THEN SubSeq(buffer, 1, MaxScrollback) ELSE buffer

\* The last MaxScrollback bytes of a buffer.
Trim(buffer) ==
    IF Len(buffer) > MaxScrollback
    THEN SubSeq(buffer, Len(buffer) - MaxScrollback + 1, Len(buffer))
    ELSE buffer

\* appendScrollback: append the chunk and drop the excess at the front.
AppendScrollback(chunk) == Trim(scrollback \o Bytes(chunk))

\* Mutant: send without looking at the room in the channel.
ReadyAlways == subs

\* Mutant: give up one chunk too early.
ReadyTooStrict == {c \in subs : Len(ch[c]) + 1 < SubCap}

\* The subscriptions a chunk can be sent to without waiting.
Ready == {c \in subs : Len(ch[c]) < SubCap}

\* The drain goroutine receives a chunk from the output channel.
Take ==
    /\ drainer = "receiving"
    /\ Receive
    /\ hand' = Head(out)
    /\ drainer' = "distributing"
    /\ UNCHANGED <<scrollback, lastOutput, ended, hubDone, subVars>>

\* Mutant: skip a chunk for a subscription that has no room, and keep it.
DistributeSkipping ==
    /\ drainer = "distributing"
    /\ scrollback' = AppendScrollback(hand)
    /\ lastOutput' = hand.hi
    /\ ch' = [c \in Clients |->
                IF c \in Ready THEN Append(ch[c], hand) ELSE ch[c]]
    /\ hand' = NoChunk
    /\ drainer' = "receiving"
    /\ UNCHANGED <<streamVars, ended, hubDone, attached, view, subs, doneCloses>>

\* Mutant: wait until every subscription has room.
DistributeBlocking ==
    /\ Ready = subs
    /\ drainer = "distributing"
    /\ scrollback' = AppendScrollback(hand)
    /\ lastOutput' = hand.hi
    /\ ch' = [c \in Clients |->
                IF c \in Ready THEN Append(ch[c], hand) ELSE ch[c]]
    /\ hand' = NoChunk
    /\ drainer' = "receiving"
    /\ UNCHANGED <<streamVars, ended, hubDone, attached, view, subs, doneCloses>>

\* Under the lock: remember the chunk, send it to every subscription that has
\* room, and drop the others.
Distribute ==
    /\ drainer = "distributing"
    /\ scrollback' = AppendScrollback(hand)
    /\ lastOutput' = hand.hi
    /\ ch' = [c \in Clients |->
                IF c \in Ready THEN Append(ch[c], hand) ELSE ch[c]]
    /\ doneCloses' = [c \in Clients |->
                IF c \in subs \ Ready THEN doneCloses[c] + 1 ELSE doneCloses[c]]
    /\ subs' = Ready
    /\ hand' = NoChunk
    /\ drainer' = "receiving"
    /\ UNCHANGED <<streamVars, ended, hubDone, attached, view>>

\* Mutant: stop as soon as the channel is closed, with chunks still in it.
EndEarly ==
    /\ drainer = "receiving"
    /\ outClosed
    /\ ended' = TRUE
    /\ doneCloses' = [c \in Clients |->
                IF c \in subs THEN doneCloses[c] + 1 ELSE doneCloses[c]]
    /\ subs' = {}
    /\ drainer' = "closing"
    /\ UNCHANGED <<streamVars, hand, scrollback, lastOutput, hubDone,
                   attached, ch, view>>

\* The output channel is closed and empty: end every subscription.
End ==
    /\ drainer = "receiving"
    /\ outClosed
    /\ out = <<>>
    /\ ended' = TRUE
    /\ doneCloses' = [c \in Clients |->
                IF c \in subs THEN doneCloses[c] + 1 ELSE doneCloses[c]]
    /\ subs' = {}
    /\ drainer' = "closing"
    /\ UNCHANGED <<streamVars, hand, scrollback, lastOutput, hubDone,
                   attached, ch, view>>

\* After the lock is released: close Done().
CloseDone ==
    /\ drainer = "closing"
    /\ hubDone' = TRUE
    /\ drainer' = "exited"
    /\ UNCHANGED <<streamVars, hand, scrollback, lastOutput, ended, subVars>>

Drain == Take \/ Distribute \/ End \/ CloseDone

\* Mutant: register without looking whether the session has ended.
SubscribeAlways(c) ==
    /\ c \notin attached
    /\ attached' = attached \cup {c}
    /\ view' = [view EXCEPT ![c] = scrollback]
    /\ ch' = [ch EXCEPT ![c] = <<>>]
    /\ doneCloses' = [doneCloses EXCEPT ![c] = 0]
    /\ subs' = subs \cup {c}
    /\ UNCHANGED <<streamVars, hubVars>>

\* Mutant: live output only, no replay.
SubscribeWithoutReplay(c) ==
    /\ c \notin attached
    /\ attached' = attached \cup {c}
    /\ view' = [view EXCEPT ![c] = <<>>]
    /\ ch' = [ch EXCEPT ![c] = <<>>]
    /\ doneCloses' = [doneCloses EXCEPT ![c] = IF ended THEN 1 ELSE 0]
    /\ subs' = IF ended THEN subs ELSE subs \cup {c}
    /\ UNCHANGED <<streamVars, hubVars>>

\* Copy the scrollback and register, in one critical section; the
\* subscription of an ended session is done from the start.
Subscribe(c) ==
    /\ c \notin attached
    /\ attached' = attached \cup {c}
    /\ view' = [view EXCEPT ![c] = scrollback]
    /\ ch' = [ch EXCEPT ![c] = <<>>]
    /\ doneCloses' = [doneCloses EXCEPT ![c] = IF ended THEN 1 ELSE 0]
    /\ subs' = IF ended THEN subs ELSE subs \cup {c}
    /\ UNCHANGED <<streamVars, hubVars>>

\* The client receives from C(), which is never closed: chunks that were
\* queued before the subscription ended can still be received.
ReceiveChunk(c) ==
    /\ c \in attached
    /\ ch[c] # <<>>
    /\ view' = [view EXCEPT ![c] = @ \o Bytes(Head(ch[c]))]
    /\ ch' = [ch EXCEPT ![c] = Tail(@)]
    /\ UNCHANGED <<streamVars, hubVars, subs, attached, doneCloses>>

\* Mutant: close the done channel whether or not the subscription is live.
UnsubscribeAlways(c) ==
    /\ c \in attached
    /\ subs' = subs \ {c}
    /\ doneCloses' = [doneCloses EXCEPT ![c] = @ + 1]
    /\ UNCHANGED <<streamVars, hubVars, attached, ch, view>>

\* Unsubscribe of a subscription that is still registered; for any other it
\* does nothing.
Unsubscribe(c) ==
    /\ c \in subs
    /\ subs' = subs \ {c}
    /\ doneCloses' = [doneCloses EXCEPT ![c] = @ + 1]
    /\ UNCHANGED <<streamVars, hubVars, attached, ch, view>>

\* A client whose subscription is over forgets it (its handler returned).
Leave(c) ==
    /\ c \in attached \ subs
    /\ attached' = attached \ {c}
    /\ ch' = [ch EXCEPT ![c] = <<>>]
    /\ view' = [view EXCEPT ![c] = <<>>]
    /\ doneCloses' = [doneCloses EXCEPT ![c] = 0]
    /\ UNCHANGED <<streamVars, hubVars, subs>>

Terminal ==
    /\ CloseOutput \/ \E n \in 1..MaxChunk : Emit(n)
    /\ UNCHANGED <<hubVars, subVars>>

ClientStep(c) == Subscribe(c) \/ ReceiveChunk(c) \/ Unsubscribe(c) \/ Leave(c)

HubNext ==
    \/ Terminal
    \/ Drain
    \/ \E c \in Clients : ClientStep(c)

HubSpec == HubInit /\ [][HubNext]_vars

\* Only the drain goroutine has to run: no client is required to receive, to
\* unsubscribe or to leave.
FairHubSpec == HubSpec /\ WF_vars(Drain)

-----------------------------------------------------------------------------

\* The bytes of output the hub has distributed.
Drained ==
    IF hand # NoChunk THEN hand.lo
    ELSE IF out # <<>> THEN out[1].lo
    ELSE emitted

\* Types, and the three buffers never exceed their capacities.
TypeOK ==
    /\ StreamTypeOK
    /\ Len(out) <= OutCap
    /\ drainer \in DrainerStates
    /\ hand \in Chunk \cup {NoChunk}
    /\ scrollback \in Seq(Nat)
    /\ Len(scrollback) <= MaxScrollback
    /\ lastOutput \in Nat
    /\ ended \in BOOLEAN
    /\ hubDone \in BOOLEAN
    /\ subs \subseteq Clients
    /\ attached \subseteq Clients
    /\ ch \in [Clients -> Seq(Chunk)]
    /\ \A c \in Clients : Len(ch[c]) <= SubCap
    /\ doneCloses \in [Clients -> Nat]
    /\ view \in [Clients -> Seq(Nat)]

\* s holds the bytes lo+1 .. hi of the stream, in order and once each.
Holds(s, lo, hi) ==
    /\ lo <= hi
    /\ Len(s) = hi - lo
    /\ \A i \in 1..Len(s) : s[i] = lo + i

\* The ring is the end of the output: the last MaxScrollback bytes that were
\* distributed, or all of them, in order and without a hole, whatever the
\* chunk boundaries were.
ScrollbackIsTail ==
    Holds(scrollback,
          IF Drained > MaxScrollback THEN Drained - MaxScrollback ELSE 0,
          Drained)

\* The end of what client c was given.
ViewEnd(c) == IF view[c] = <<>> THEN 0 ELSE view[c][Len(view[c])]

\* The snapshot, what was received after it and what is still queued are one
\* stretch of the output: nothing is missed or repeated at the boundary
\* between snapshot and live output, between two chunks, or when the
\* subscription is dropped; and a live subscription is up to date.
NoGapNoRepeat ==
    \A c \in attached :
        /\ Holds(view[c], ViewEnd(c) - Len(view[c]), ViewEnd(c))
        /\ ch[c] # <<>> => ch[c][1].lo = ViewEnd(c)
        /\ \A i \in 1..(Len(ch[c]) - 1) : ch[c][i].hi = ch[c][i + 1].lo
        /\ c \in subs =>
             Drained = IF ch[c] = <<>> THEN ViewEnd(c) ELSE ch[c][Len(ch[c])].hi

\* A done channel is closed when its subscription leaves the set of live ones
\* and never a second time (which would panic), whichever of drop, end of
\* session and Unsubscribe comes first; and nobody holds a subscription that
\* is neither live nor done, which would wait for ever.
DoneClosedExactlyOnce ==
    \A c \in attached : doneCloses[c] = IF c \in subs THEN 0 ELSE 1

\* Done() tells the truth: everything the terminal ever sent has been
\* distributed, no live subscription is left and none can appear.
DoneMeansFinished ==
    hubDone => /\ outClosed /\ ended
               /\ subs = {}
               /\ Drained = emitted
               /\ lastOutput = emitted

\* A subscription of a live session is only dropped by its own Unsubscribe,
\* by the end of the session, or when SubCap chunks were waiting in it.
DroppedOnlyWhenBehind ==
    [][\A c \in subs \ subs' :
          \/ Unsubscribe(c)
          \/ ended'
          \/ Len(ch[c]) = SubCap]_vars

\* The shell never stalls on a client: whatever was emitted is drained even if
\* no client ever receives.
OutputIsDrained ==
    \A p \in 1..MaxOutput : (emitted >= p) ~> (Drained >= p)

\* When the output is closed the session is reported done and every client
\* that still holds a subscription is told.
EndReachesEveryone ==
    outClosed ~> /\ hubDone
                 /\ \A c \in attached : doneCloses[c] = 1

\* The hub keeps the promise of ResumableStream.
Shown ==
    [c \in Clients |->
        IF c \in attached
        THEN [from |-> ViewEnd(c) - Len(view[c]), to |-> ViewEnd(c), attached |-> TRUE]
        ELSE [from |-> 0, to |-> 0, attached |-> FALSE]]

Promise == INSTANCE ResumableStream WITH drained <- Drained, shown <- Shown

KeepsThePromise == Promise!Spec
=============================================================================
