---------------------------- MODULE DesktopBridge ----------------------------
(***************************************************************************)
(* The desktop window's way to a pane (apps/wails/app.go and connectDesktop *)
(* of frontend/src/lib/termTransport.js): the window calls PaneSubscribe   *)
(* when it shows the pane and PaneUnsubscribe when it no longer does, and  *)
(* shows it again later. The calls run concurrently, in goroutines of      *)
(* their own, so that they may overtake each other; every subscription has *)
(* a pump. They share the map subs, of which this is the entry of one      *)
(* pane.                                                                   *)
(***************************************************************************)
EXTENDS PaneHub

CONSTANT
    NoSub       \* no entry, no subscription

ASSUME BridgeAssumption == NoSub \notin Subscriptions

VARIABLES
    shows,      \* the window shows the pane
    issued,     \* calls the window has made
    call,       \* how far each call has come
    current,    \* subs[paneID]
    taken,      \* the subscription each PaneUnsubscribe took out of the map
    bridgePump, \* the pump of each subscription ...
    bridgeHand, \* ... and the chunk it holds
    givenUp,    \* history: live subscriptions ended by the bridge's Unsubscribe
    told        \* history: subscriptions whose pump emitted ":done"

callVars == <<shows, issued, call, taken>>
bridgePumpVars == <<bridgePump, bridgeHand, told>>
bridgeVars == <<callVars, bridgePumpVars, current, givenUp>>

CallStates == {"none", "subscribing", "found", "joined", "registered",
               "unsubscribing", "removed", "returned"}
BridgePumpStates == {"none", "selecting", "emitting", "deciding", "telling", "ended"}

BridgeInit ==
    /\ shows = FALSE /\ issued = 0
    /\ call = [i \in Calls |-> "none"]
    /\ taken = [i \in Calls |-> NoSub]
    /\ current = NoSub
    /\ bridgePump = [i \in Calls |-> "none"]
    /\ bridgeHand = [i \in Calls |-> NoChunk]
    /\ givenUp = {} /\ told = {}

CallGoto(i, state) == call' = [call EXCEPT ![i] = state]
PumpGoto(i, state) == bridgePump' = [bridgePump EXCEPT ![i] = state]

\* Unsubscribe of s, which may be NoSub, and a note of it.
GiveUp(s) ==
    /\ Quit(s)
    /\ givenUp' = givenUp \cup ({s} \cap live)

-----------------------------------------------------------------------------
(* The window.                                                             *)

\* connectDesktop subscribes; close unsubscribes.
Toggle ==
    /\ issued < MaxCalls
    /\ issued' = issued + 1
    /\ shows' = ~shows
    /\ CallGoto(issued + 1, IF shows THEN "unsubscribing" ELSE "subscribing")
    /\ UNCHANGED <<hubVars, taken, bridgePumpVars, current, givenUp>>

-----------------------------------------------------------------------------
(* PaneSubscribe.                                                          *)

FindSession(i) ==
    /\ call[i] = "subscribing"
    /\ CallGoto(i, IF registered THEN "found" ELSE "returned")
    /\ UNCHANGED <<hubVars, shows, issued, taken, bridgePumpVars, current, givenUp>>

JoinSession(i) ==
    /\ call[i] = "found"
    /\ Join(i)
    /\ CallGoto(i, "joined")
    /\ UNCHANGED <<shows, issued, taken, bridgePumpVars, current, givenUp>>

\* Under mu: end the subscription that is in the map and take its place.
Replace(i) ==
    /\ call[i] = "joined"
    /\ GiveUp(current)
    /\ current' = i
    /\ CallGoto(i, "registered")
    /\ UNCHANGED <<shows, issued, taken, bridgePumpVars>>

\* Emit the snapshot and start the pump.
StartPump(i) ==
    /\ call[i] = "registered"
    /\ PumpGoto(i, "selecting")
    /\ CallGoto(i, "returned")
    /\ UNCHANGED <<hubVars, shows, issued, taken, bridgeHand, told, current, givenUp>>

-----------------------------------------------------------------------------
(* PaneUnsubscribe.                                                        *)

\* Mutant: end the subscription first, take it out of the map later.
EndThenRemove(i) ==
    /\ call[i] = "unsubscribing"
    /\ GiveUp(current)
    /\ CallGoto(i, "returned")
    /\ UNCHANGED <<shows, issued, taken, bridgePumpVars, current>>

\* Under mu: take the subscription out of the map.
RemoveEntry(i) ==
    /\ call[i] = "unsubscribing"
    /\ taken' = [taken EXCEPT ![i] = current]
    /\ current' = NoSub
    /\ CallGoto(i, IF current = NoSub THEN "returned" ELSE "removed")
    /\ UNCHANGED <<hubVars, shows, issued, bridgePumpVars, givenUp>>

\* If the session is still registered, end the subscription.
EndTaken(i) ==
    /\ call[i] = "removed"
    /\ IF registered THEN GiveUp(taken[i]) ELSE UNCHANGED <<hubVars, givenUp>>
    /\ CallGoto(i, "returned")
    /\ UNCHANGED <<shows, issued, taken, bridgePumpVars, current>>

CallStep(i) ==
    \/ FindSession(i) \/ JoinSession(i) \/ Replace(i) \/ StartPump(i)
    \/ RemoveEntry(i) \/ EndTaken(i)

-----------------------------------------------------------------------------
(* The pump of a subscription.                                             *)

BridgeSelectsChunk(i) ==
    /\ bridgePump[i] = "selecting"
    /\ Dequeue(i)
    /\ bridgeHand' = [bridgeHand EXCEPT ![i] = Head(queue[i])]
    /\ PumpGoto(i, "emitting")
    /\ UNCHANGED <<callVars, told, current, givenUp>>

EmitChunk(i) ==
    /\ bridgePump[i] = "emitting"
    /\ bridgeHand' = [bridgeHand EXCEPT ![i] = NoChunk]
    /\ PumpGoto(i, "selecting")
    /\ UNCHANGED <<hubVars, callVars, told, current, givenUp>>

BridgeSelectsEnd(i) ==
    /\ bridgePump[i] = "selecting"
    /\ i \in closed
    /\ PumpGoto(i, "deciding")
    /\ UNCHANGED <<hubVars, callVars, bridgeHand, told, current, givenUp>>

\* Under mu: the pump of the subscription in the map removes it.
Decide(i) ==
    /\ bridgePump[i] = "deciding"
    /\ PumpGoto(i, IF current = i THEN "telling" ELSE "ended")
    /\ current' = IF current = i THEN NoSub ELSE current
    /\ UNCHANGED <<hubVars, callVars, bridgeHand, told, givenUp>>

\* It emits ":done", after the lock is released.
EmitDone(i) ==
    /\ bridgePump[i] = "telling"
    /\ told' = told \cup {i}
    /\ PumpGoto(i, "ended")
    /\ UNCHANGED <<hubVars, callVars, bridgeHand, current, givenUp>>

BridgePump(i) ==
    \/ BridgeSelectsChunk(i) \/ EmitChunk(i)
    \/ BridgeSelectsEnd(i) \/ Decide(i) \/ EmitDone(i)

BridgeNext == Toggle \/ \E i \in Calls : CallStep(i) \/ BridgePump(i)

\* Every call returns and every pump runs.
BridgeFairness ==
    \A i \in Calls : /\ WF_<<hubVars, bridgeVars>>(CallStep(i))
                     /\ WF_<<hubVars, bridgeVars>>(BridgePump(i))

-----------------------------------------------------------------------------

BridgeTypeOK ==
    /\ shows \in BOOLEAN
    /\ issued \in 0..MaxCalls
    /\ call \in [Calls -> CallStates]
    /\ taken \in [Calls -> Calls \cup {NoSub}]
    /\ current \in Calls \cup {NoSub}
    /\ bridgePump \in [Calls -> BridgePumpStates]
    /\ bridgeHand \in [Calls -> Chunk \cup {NoChunk}]
    /\ givenUp \subseteq Calls /\ told \subseteq Calls

\* The window is told ":done" only for a subscription that the session ended
\* or dropped, never for one that the bridge replaced or gave up, however the
\* calls and the pumps overtake each other.
OnlyEndedIsTold == told \cap givenUp = {}

\* As long as the session is registered, a live subscription is the one in the
\* map, or a call that has not returned will put it there or end it: whatever
\* the order of the calls, no second subscription stays behind.
NothingLeaks ==
    registered => \A s \in live \cap Calls :
        \/ s = current
        \/ call[s] = "joined"
        \/ \E i \in Calls : call[i] = "removed" /\ taken[i] = s

\* Both: ":done" is neither told too often nor, for a subscription that nobody
\* knows any more, never.
BridgeSafe == OnlyEndedIsTold /\ NothingLeaks

\* When the session has ended, every pump of the bridge ends and the map's
\* entry is removed.
BridgeEnds ==
    over ~> (/\ \A i \in Calls : bridgePump[i] \in {"none", "ended"}
             /\ current = NoSub)
=============================================================================
