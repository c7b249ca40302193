---------------------------- MODULE PaneIOProofs ----------------------------
(***************************************************************************)
(* Theorems about PaneIO, for any amount of output, any scrollback, any    *)
(* capacity of a subscription's channel and any number of calls of the     *)
(* desktop window.                                                         *)
(***************************************************************************)
EXTENDS PaneIO, SequenceTheorems, TLAPS

\* A subscription is live or closed, never both, and is neither before its
\* owner has subscribed. An ended session has no live subscription.
Subscribed ==
    /\ live \cap closed = {}
    /\ over => live = {}
    /\ handler \in {"idle", "found"} => Tab \notin live \cup closed
    /\ \A i \in Calls : call[i] \in {"none", "subscribing", "found"}
                           => i \notin live \cup closed

\* A subscription that its call has not put into the map is nowhere else
\* either. The calls are numbered in the order the window makes them.
Unplaced ==
    /\ \A i \in Calls : i > issued => call[i] = "none"
    /\ \A i \in Calls : call[i] \in {"none", "subscribing", "found", "joined"}
          => /\ i # current /\ i \notin givenUp
             /\ bridgePump[i] = "none"
             /\ \A j \in Calls : taken[j] # i

\* A subscription in the map was not given up, and one that was taken out of
\* the map to be given up is no longer in it.
Placed ==
    /\ current \notin givenUp
    /\ \A i \in Calls : call[i] = "removed" => taken[i] \notin {NoSub, current}

\* A pump tells the end of a subscription that is closed, and that it found in
\* the map.
Telling ==
    \A i \in Calls :
        /\ bridgePump[i] \in {"deciding", "telling"} \/ i \in told => i \in closed
        /\ bridgePump[i] = "telling" => i \notin givenUp

\* A pump that sends holds a chunk. The tab's pump runs once the snapshot is
\* sent.
Pumping ==
    /\ pump = "sending" => hand \in Chunk
    /\ handler \in {"idle", "found", "subscribed", "upgraded"} => pump = "none"

\* What the tab has not got yet is in its queue, up to the last byte that was
\* distributed as long as its subscription lives.
TabQueue ==
    /\ Tab \notin live \cup closed => queue[Tab] = <<>>
    /\ Tab \in live /\ queue[Tab] # <<>> => queue[Tab][Len(queue[Tab])].hi = drained

IInv ==
    /\ TypeOK /\ Pumping
    /\ Subscribed /\ Unplaced /\ Placed /\ Telling /\ BridgeSafe
    /\ TabQueue /\ TabSeesOneStretch

-----------------------------------------------------------------------------
(* Lemmas about the names of subscriptions and about queues.               *)

LEMMA Names ==
    /\ Tab \in Subscriptions /\ Calls \subseteq Subscriptions
    /\ Tab \notin Calls /\ NoSub \notin Calls /\ NoSub # Tab
    /\ NoSub \notin Subscriptions
BY PaneAssumption, BridgeAssumption DEF Subscriptions, Calls, Tab

\* Receiving from a queue.
LEMMA TakenQueue ==
  ASSUME NEW q \in Seq(Chunk), q # <<>>, Len(q) <= SubCap
  PROVE  /\ Head(q) \in Chunk /\ Tail(q) \in Seq(Chunk)
         /\ Len(Tail(q)) <= SubCap
         /\ Head(q) = q[1]
         /\ FollowsOn(q, q[1].lo) => FollowsOn(Tail(q), q[1].hi)
         /\ Tail(q) # <<>> => Tail(q)[Len(Tail(q))] = q[Len(q)]
         /\ Tail(q) = <<>> => Head(q) = q[Len(q)]
<1>1. Len(q) \in Nat \ {0} /\ SubCap \in Nat
  BY PaneAssumption
<1>2. Tail(q) \in Seq(Chunk) /\ Len(Tail(q)) = Len(q) - 1 /\ Head(q) = q[1]
  OBVIOUS
<1>3. \A i \in 1..Len(Tail(q)) : Tail(q)[i] = q[i + 1]
  OBVIOUS
<1>4. Tail(q) = <<>> <=> Len(Tail(q)) = 0
  BY <1>2, EmptySeq
<1>5. Head(q) \in Chunk
  BY <1>1
<1> DEFINE t == Tail(q)
<1> HIDE DEF t
<1>6. ASSUME t = <<>>
      PROVE  q[1] = q[Len(q)]
  BY <1>1, <1>2, <1>4, <1>6 DEF t
<1>7. ASSUME t # <<>>
      PROVE  t[Len(t)] = q[Len(q)]
  <2>1. Len(t) \in 1..Len(t) /\ Len(t) + 1 = Len(q)
    BY <1>1, <1>2, <1>4, <1>7 DEF t
  <2> QED
    BY <1>3, <2>1 DEF t
<1>8. Len(t) <= SubCap
  BY <1>1, <1>2 DEF t
<1>9. ASSUME FollowsOn(q, q[1].lo)
      PROVE  FollowsOn(t, q[1].hi)
  <2>1. \A i \in 1..(Len(q) - 1) : q[i].hi = q[i + 1].lo
    BY <1>9 DEF FollowsOn
  <2>2. ASSUME t # <<>>
        PROVE  t[1].lo = q[1].hi
    <3>1. 1 \in 1..Len(t) /\ 1 \in 1..(Len(q) - 1)
      BY <1>1, <1>2, <1>4, <2>2 DEF t
    <3> QED
      BY <1>3, <2>1, <3>1 DEF t
  <2>3. ASSUME NEW i \in 1..(Len(t) - 1)
        PROVE  t[i].hi = t[i + 1].lo
    <3>1. i \in 1..Len(t) /\ i + 1 \in 1..Len(t) /\ i + 1 \in 1..(Len(q) - 1)
      BY <1>1, <1>2 DEF t
    <3> QED
      BY <1>3, <2>1, <3>1 DEF t
  <2> QED
    BY <2>2, <2>3 DEF FollowsOn
<1> QED
  BY <1>2, <1>5, <1>6, <1>7, <1>8, <1>9 DEF t

\* Sending to a queue the chunk that follows.
LEMMA SentQueue ==
  ASSUME NEW q \in Seq(Chunk), NEW c \in Chunk, NEW n,
         FollowsOn(q, n),
         q = <<>> => n = c.lo,
         q # <<>> => q[Len(q)].hi = c.lo
  PROVE  /\ FollowsOn(Append(q, c), n)
         /\ Append(q, c) # <<>>
         /\ Append(q, c)[Len(Append(q, c))] = c
<1> DEFINE a == Append(q, c)
<1>1. /\ Len(q) \in Nat
      /\ a \in Seq(Chunk) /\ Len(a) = Len(q) + 1
      /\ \A i \in 1..Len(q) : a[i] = q[i]
      /\ a[Len(q) + 1] = c
  OBVIOUS
<1>2. q = <<>> <=> Len(q) = 0
  BY EmptySeq
<1>3. a # <<>>
  OBVIOUS
<1> HIDE DEF a
<1>4. a[1].lo = n
  <2>1. CASE q = <<>>
    BY <1>1, <1>2, <2>1
  <2>2. CASE q # <<>>
    <3>1. 1 \in 1..Len(q) /\ q[1].lo = n
      BY <1>1, <1>2, <2>2 DEF FollowsOn
    <3> QED
      BY <1>1, <3>1
  <2> QED
    BY <2>1, <2>2
<1>5. ASSUME NEW i \in 1..(Len(a) - 1)
      PROVE  a[i].hi = a[i + 1].lo
  <2>1. CASE i = Len(q)
    <3>1. q # <<>> /\ i \in 1..Len(q)
      BY <1>1, <1>2, <2>1
    <3> QED
      BY <1>1, <2>1, <3>1
  <2>2. CASE i # Len(q)
    <3>1. i \in 1..Len(q) /\ i + 1 \in 1..Len(q) /\ i \in 1..(Len(q) - 1)
      BY <1>1, <2>2
    <3>2. q[i].hi = q[i + 1].lo
      BY <3>1 DEF FollowsOn
    <3> QED
      BY <1>1, <3>1, <3>2
  <2> QED
    BY <2>1, <2>2
<1>6. FollowsOn(a, n)
  BY <1>4, <1>5 DEF FollowsOn
<1> QED
  BY <1>1, <1>3, <1>6 DEF a

-----------------------------------------------------------------------------
(* Types.                                                                  *)

LEMMA InitIInv == Init => IInv
<1> SUFFICES ASSUME Init
             PROVE  IInv
  OBVIOUS
<1> USE Names DEF Init, HubInit, SocketInit, BridgeInit
<1>1. HubTypeOK
  <2>1. <<>> \in Seq(Chunk) /\ Len(<<>>) <= SubCap
    BY PaneAssumption
  <2>2. /\ queue \in [Subscriptions -> Seq(Chunk)]
        /\ \A s \in Subscriptions : Len(queue[s]) <= SubCap
    BY <2>1
  <2> QED
    BY <2>2 DEF HubTypeOK
<1>2. SocketTypeOK /\ Pumping
  BY DEF SocketTypeOK, Pumping, Nothing, Chunk, SocketHandlerStates, SocketPumpStates
<1>3. BridgeTypeOK
  <2>1. issued \in 0..MaxCalls
    BY PaneAssumption
  <2> QED
    BY <2>1 DEF BridgeTypeOK, CallStates, BridgePumpStates
<1>4. Subscribed /\ Unplaced /\ Placed /\ Telling
  BY DEF Subscribed, Unplaced, Placed, Telling
<1>5. BridgeSafe
  BY DEF BridgeSafe, OnlyEndedIsTold, NothingLeaks
<1>6. TabQueue /\ TabSeesOneStretch
  BY DEF TabQueue, TabSeesOneStretch
<1> QED
  BY <1>1, <1>2, <1>3, <1>4, <1>5, <1>6 DEF IInv, TypeOK

\* What the steps of the session do to subscriptions and queues.
LEMMA HubTypeStep ==
  ASSUME HubTypeOK, HubNext
  PROVE  HubTypeOK'
<1> USE Names DEF HubTypeOK
<1>1. ASSUME NEW n \in 1..MaxChunk, Distribute(n)
      PROVE  HubTypeOK'
  <2>1. n \in Nat /\ SubCap \in Nat
    BY PaneAssumption
  <2>2. drained' \in Nat
    BY <1>1, <2>1 DEF Distribute
  <2>3. live' \subseteq Subscriptions /\ closed' \subseteq Subscriptions
    BY <1>1 DEF Distribute
  <2> DEFINE c == [lo |-> drained, hi |-> drained + n]
  <2>4. c \in Chunk
    BY <2>1 DEF Chunk
  <2> HIDE DEF c
  <2>5. queue' = [s \in Subscriptions |-> IF s \in live /\ Room(s)
                                          THEN Append(queue[s], c) ELSE queue[s]]
    BY <1>1 DEF Distribute, c
  <2>6. ASSUME NEW s \in Subscriptions
        PROVE  queue'[s] \in Seq(Chunk) /\ Len(queue'[s]) <= SubCap
    <3>1. queue[s] \in Seq(Chunk) /\ Len(queue[s]) \in Nat /\ Len(queue[s]) <= SubCap
      OBVIOUS
    <3>2. CASE s \in live /\ Room(s)
      BY <2>1, <2>4, <2>5, <3>1, <3>2 DEF Room
    <3>3. CASE ~(s \in live /\ Room(s))
      BY <2>5, <3>1, <3>3
    <3> QED
      BY <3>2, <3>3
  <2>7. queue' \in [Subscriptions -> Seq(Chunk)]
    BY <2>5, <2>6
  <2>8. over' \in BOOLEAN /\ registered' \in BOOLEAN
    BY <1>1 DEF Distribute
  <2> QED
    BY <2>2, <2>3, <2>6, <2>7, <2>8
<1>2. CASE End
  BY <1>2 DEF End
<1>3. CASE Unregister
  BY <1>3 DEF Unregister
<1> QED
  BY <1>1, <1>2, <1>3 DEF HubNext

\* Subscribing, unsubscribing and receiving.
LEMMA SubscriberTypeStep ==
  ASSUME HubTypeOK,
         NEW s \in Subscriptions \cup {NoSub},
         \/ s \in Subscriptions /\ (Join(s) \/ Dequeue(s))
         \/ Quit(s)
  PROVE  HubTypeOK'
<1> USE Names DEF HubTypeOK
<1>1. ASSUME s \in Subscriptions, Join(s)
      PROVE  HubTypeOK'
  BY <1>1 DEF Join
<1>2. ASSUME Quit(s)
      PROVE  HubTypeOK'
  BY <1>2 DEF Quit
<1>3. ASSUME s \in Subscriptions, Dequeue(s)
      PROVE  HubTypeOK'
  <2>1. /\ Tail(queue[s]) \in Seq(Chunk)
        /\ Len(Tail(queue[s])) <= SubCap
    BY <1>3, TakenQueue DEF Dequeue
  <2>2. queue' = [queue EXCEPT ![s] = Tail(@)]
    BY <1>3 DEF Dequeue
  <2>3. queue' \in [Subscriptions -> Seq(Chunk)]
    BY <2>1, <2>2
  <2>4. \A r \in Subscriptions : Len(queue'[r]) <= SubCap
    BY <2>1, <2>2
  <2>5. UNCHANGED <<drained, over, registered, live, closed>>
    BY <1>3 DEF Dequeue
  <2> QED
    BY <2>3, <2>4, <2>5
<1> QED
  BY <1>1, <1>2, <1>3

LEMMA HubUnchanged ==
  ASSUME HubTypeOK, UNCHANGED hubVars
  PROVE  HubTypeOK'
BY DEF HubTypeOK, hubVars

LEMMA SnapshotType == HubTypeOK => Snapshot \in Chunk
<1> SUFFICES ASSUME HubTypeOK
             PROVE  Snapshot \in Chunk
  OBVIOUS
<1>1. drained \in Nat /\ MaxScrollback \in Nat
  BY PaneAssumption DEF HubTypeOK
<1> QED
  BY <1>1 DEF Snapshot, Chunk

LEMMA SocketTypeStep ==
  ASSUME HubTypeOK, SocketTypeOK, Pumping, SocketNext
  PROVE  HubTypeOK' /\ SocketTypeOK' /\ Pumping'
<1> USE DEF SocketTypeOK, Pumping, SocketHandlerStates, SocketPumpStates
<1>1. ASSUME LookUp \/ Upgrade \/ HandleMessage \/ WriteToPaneReturns
             \/ LoopEnds \/ SendSnapshotFails
      PROVE  HubTypeOK' /\ SocketTypeOK' /\ Pumping'
  <2>1. SocketTypeOK' /\ Pumping'
    BY <1>1 DEF LookUp, Upgrade, HandleMessage, WriteToPaneReturns, LoopEnds,
                SendSnapshotFails
  <2>2. UNCHANGED hubVars
    BY <1>1 DEF LookUp, Upgrade, HandleMessage, WriteToPaneReturns, LoopEnds,
                SendSnapshotFails
  <2> QED
    BY <2>1, <2>2, HubUnchanged
<1>2. CASE SubscribeTab
  <2>1. SocketTypeOK' /\ Pumping'
    BY <1>2, SnapshotType DEF SubscribeTab
  <2>2. HubTypeOK'
    BY <1>2, SubscriberTypeStep, Names DEF SubscribeTab
  <2> QED
    BY <2>1, <2>2
<1>3. CASE SendSnapshot
  BY <1>3, HubUnchanged DEF SendSnapshot
<1>4. CASE HandlerReturns
  <2>1. SocketTypeOK' /\ Pumping'
    BY <1>4 DEF HandlerReturns
  <2>2. HubTypeOK'
    BY <1>4, SubscriberTypeStep, Names DEF HandlerReturns
  <2> QED
    BY <2>1, <2>2
<1>5. CASE SelectChunk
  <2>1. Head(queue[Tab]) \in Chunk
    BY <1>5, TakenQueue, Names DEF SelectChunk, Dequeue, HubTypeOK
  <2>2. SocketTypeOK' /\ Pumping'
    BY <1>5, <2>1 DEF SelectChunk
  <2>3. HubTypeOK'
    BY <1>5, SubscriberTypeStep, Names DEF SelectChunk
  <2> QED
    BY <2>2, <2>3
<1>6. CASE SendChunk
  <2>1. shown' \in Chunk
    BY <1>6 DEF SendChunk, Chunk
  <2>2. SocketTypeOK' /\ Pumping'
    BY <1>6, <2>1 DEF SendChunk
  <2> QED
    BY <1>6, <2>2, HubUnchanged DEF SendChunk
<1>7. ASSUME SelectEnd \/ SelectDone \/ SendChunkFails \/ SendCloseFrame
             \/ PumpClosesDone \/ PumpClosesSocket
      PROVE  HubTypeOK' /\ SocketTypeOK' /\ Pumping'
  <2>1. SocketTypeOK' /\ Pumping'
    BY <1>7 DEF SelectEnd, SelectDone, SendChunkFails, SendCloseFrame,
                PumpClosesDone, PumpClosesSocket
  <2>2. UNCHANGED hubVars
    BY <1>7 DEF SelectEnd, SelectDone, SendChunkFails, SendCloseFrame,
                PumpClosesDone, PumpClosesSocket
  <2> QED
    BY <2>1, <2>2, HubUnchanged
<1>8. CASE CloseTab
  BY <1>8, HubUnchanged DEF CloseTab
<1> QED
  BY <1>1, <1>2, <1>3, <1>4, <1>5, <1>6, <1>7, <1>8
  DEF SocketNext, SocketHandler, SocketPump

LEMMA BridgeTypeStep ==
  ASSUME HubTypeOK, BridgeTypeOK, BridgeNext
  PROVE  HubTypeOK' /\ BridgeTypeOK'
<1> USE Names DEF BridgeTypeOK, callVars, bridgePumpVars, CallGoto, PumpGoto
<1>1. CASE Toggle
  <2>1. issued' \in 0..MaxCalls
    <3>1. issued \in Nat /\ MaxCalls \in Nat /\ issued < MaxCalls /\ issued' = issued + 1
      BY <1>1, PaneAssumption DEF Toggle
    <3> QED
      BY <3>1
  <2>2. UNCHANGED <<hubVars, taken, bridgePump, bridgeHand, told, current, givenUp>>
    BY <1>1 DEF Toggle
  <2>3. shows' \in BOOLEAN
    BY <1>1 DEF Toggle
  <2>4. call' \in [Calls -> CallStates]
    BY <1>1 DEF Toggle, CallStates
  <2> QED
    BY <2>1, <2>2, <2>3, <2>4, HubUnchanged
<1>2. ASSUME NEW i \in Calls, CallStep(i)
      PROVE  HubTypeOK' /\ BridgeTypeOK'
  <2> USE DEF CallStates
  <2>1. UNCHANGED <<shows, issued>>
    BY <1>2 DEF CallStep, FindSession, JoinSession, Replace, StartPump,
                RemoveEntry, EndTaken
  <2>2. ASSUME FindSession(i) \/ RemoveEntry(i)
        PROVE  HubTypeOK' /\ BridgeTypeOK'
    <3>1. UNCHANGED <<hubVars, bridgePump, bridgeHand, told, givenUp>>
      BY <2>2 DEF FindSession, RemoveEntry
    <3>2. /\ call' \in [Calls -> CallStates]
          /\ taken' \in [Calls -> Calls \cup {NoSub}]
          /\ current' \in Calls \cup {NoSub}
      BY <2>2 DEF FindSession, RemoveEntry
    <3> QED
      BY <2>1, <3>1, <3>2, HubUnchanged
  <2>3. CASE JoinSession(i)
    BY <2>1, <2>3, SubscriberTypeStep DEF JoinSession
  <2>4. CASE StartPump(i)
    BY <2>1, <2>4, HubUnchanged DEF StartPump, BridgePumpStates
  <2>5. ASSUME Replace(i) \/ EndTaken(i)
        PROVE  HubTypeOK' /\ BridgeTypeOK'
    <3>1. UNCHANGED <<taken, bridgePump, bridgeHand, told>>
      BY <2>5 DEF Replace, EndTaken
    <3>2. call' \in [Calls -> CallStates] /\ current' \in Calls \cup {NoSub}
      BY <2>5 DEF Replace, EndTaken
    <3>3. PICK s \in Calls \cup {NoSub} :
             GiveUp(s) \/ UNCHANGED <<hubVars, givenUp>>
      BY <2>5 DEF Replace, EndTaken
    <3>4. givenUp' \subseteq Calls
      BY <3>3 DEF GiveUp, HubTypeOK
    <3>5. HubTypeOK'
      BY <3>3, HubUnchanged, SubscriberTypeStep DEF GiveUp
    <3> QED
      BY <2>1, <3>1, <3>2, <3>4, <3>5
  <2> QED
    BY <1>2, <2>2, <2>3, <2>4, <2>5 DEF CallStep
<1>3. ASSUME NEW i \in Calls, BridgePump(i)
      PROVE  HubTypeOK' /\ BridgeTypeOK'
  <2> USE DEF BridgePumpStates
  <2>1. UNCHANGED <<shows, issued, call, taken, givenUp>>
    BY <1>3 DEF BridgePump, BridgeSelectsChunk, EmitChunk, BridgeSelectsEnd,
                Decide, EmitDone
  <2>2. CASE BridgeSelectsChunk(i)
    <3>1. Head(queue[i]) \in Chunk
      BY <2>2, TakenQueue DEF BridgeSelectsChunk, Dequeue, HubTypeOK
    <3>2. /\ bridgeHand' \in [Calls -> Chunk \cup {NoChunk}]
          /\ bridgePump' \in [Calls -> BridgePumpStates]
      BY <2>2, <3>1 DEF BridgeSelectsChunk
    <3>3. UNCHANGED <<told, current>>
      BY <2>2 DEF BridgeSelectsChunk
    <3>4. HubTypeOK'
      BY <2>2, SubscriberTypeStep DEF BridgeSelectsChunk
    <3> QED
      BY <2>1, <3>2, <3>3, <3>4
  <2>3. ASSUME EmitChunk(i) \/ BridgeSelectsEnd(i) \/ Decide(i) \/ EmitDone(i)
        PROVE  HubTypeOK' /\ BridgeTypeOK'
    <3>1. /\ bridgeHand' \in [Calls -> Chunk \cup {NoChunk}]
          /\ bridgePump' \in [Calls -> BridgePumpStates]
          /\ told' \subseteq Calls /\ current' \in Calls \cup {NoSub}
      BY <2>3 DEF EmitChunk, BridgeSelectsEnd, Decide, EmitDone
    <3>2. UNCHANGED hubVars
      BY <2>3 DEF EmitChunk, BridgeSelectsEnd, Decide, EmitDone
    <3> QED
      BY <2>1, <3>1, <3>2, HubUnchanged
  <2> QED
    BY <1>3, <2>2, <2>3 DEF BridgePump
<1> QED
  BY <1>1, <1>2, <1>3 DEF BridgeNext

LEMMA TypeStep ==
  ASSUME TypeOK, Pumping, [Next]_vars
  PROVE  TypeOK' /\ Pumping'
<1> USE DEF TypeOK
<1>1. ASSUME UNCHANGED socketVars
      PROVE  SocketTypeOK' /\ Pumping'
  BY <1>1 DEF SocketTypeOK, Pumping, socketVars
<1>2. ASSUME UNCHANGED bridgeVars
      PROVE  BridgeTypeOK'
  BY <1>2 DEF BridgeTypeOK, bridgeVars, callVars, bridgePumpVars
<1>3. CASE UNCHANGED vars
  BY <1>1, <1>2, <1>3, HubUnchanged DEF vars
<1>4. ASSUME HubNext, UNCHANGED <<socketVars, bridgeVars, client>>
      PROVE  TypeOK' /\ Pumping'
  BY <1>1, <1>2, <1>4, HubTypeStep
<1>5. ASSUME SocketNext, UNCHANGED <<bridgeVars, client>>
      PROVE  TypeOK' /\ Pumping'
  BY <1>2, <1>5, SocketTypeStep
<1>6. ASSUME BridgeNext, UNCHANGED <<socketVars, client>>
      PROVE  TypeOK' /\ Pumping'
  BY <1>1, <1>6, BridgeTypeStep
<1> QED
  BY <1>3, <1>4, <1>5, <1>6 DEF Next

-----------------------------------------------------------------------------
(* Subscriptions and the map of the bridge.                                *)

BridgeInv == Subscribed /\ Unplaced /\ Placed /\ Telling /\ BridgeSafe

LEMMA HubBridgeInv ==
  ASSUME TypeOK, BridgeInv, HubNext, UNCHANGED <<socketVars, bridgeVars>>
  PROVE  BridgeInv'
<1>1. /\ live' \subseteq live /\ closed' = closed \cup (live \ live')
      /\ over' => live' = {}
      /\ registered' => registered
  <2>1. ASSUME NEW n \in 1..MaxChunk, Distribute(n)
        PROVE  /\ live' \subseteq live /\ closed' = closed \cup (live \ live')
               /\ over' => live' = {}
               /\ registered' => registered
    <3>1. /\ live' = {s \in live : Room(s)}
          /\ closed' = closed \cup {s \in live : ~Room(s)}
          /\ ~over /\ UNCHANGED <<over, registered>>
      BY <2>1 DEF Distribute
    <3> QED
      BY <3>1
  <2>2. ASSUME End \/ Unregister
        PROVE  /\ live' \subseteq live /\ closed' = closed \cup (live \ live')
               /\ over' => live' = {}
               /\ registered' => registered
    BY <2>2 DEF End, Unregister, BridgeInv, Subscribed
  <2> QED
    BY <2>1, <2>2 DEF HubNext
<1>2. UNCHANGED <<handler, call, taken, issued, current, bridgePump, givenUp, told>>
  BY DEF socketVars, bridgeVars, callVars, bridgePumpVars
<1> USE <1>1, <1>2 DEF BridgeInv
<1>3. Subscribed'
  BY DEF Subscribed
<1>4. Unplaced' /\ Placed'
  BY DEF Unplaced, Placed
<1>5. Telling'
  BY DEF Telling
<1>6. BridgeSafe'
  BY DEF BridgeSafe, OnlyEndedIsTold, NothingLeaks
<1> QED
  BY <1>3, <1>4, <1>5, <1>6

LEMMA SocketBridgeInv ==
  ASSUME TypeOK, BridgeInv, SocketNext, UNCHANGED bridgeVars
  PROVE  BridgeInv'
<1>1. UNCHANGED <<call, taken, issued, current, bridgePump, givenUp, told>>
  BY DEF bridgeVars, callVars, bridgePumpVars
<1>2. UNCHANGED <<over, registered>>
  BY DEF SocketNext, SocketHandler, SocketPump, LookUp, SubscribeTab, Upgrade,
         SendSnapshot, SendSnapshotFails, HandleMessage, WriteToPaneReturns, LoopEnds,
         HandlerReturns, SelectChunk, SelectEnd, SelectDone, SendChunk, SendChunkFails,
         SendCloseFrame, PumpClosesDone, PumpClosesSocket, CloseTab,
         Join, Quit, Dequeue, hubVars
<1>3. \/ handler = "found" /\ handler' = "subscribed" /\ Join(Tab)
      \/ handler = "leaving" /\ handler' = "returned" /\ Quit(Tab)
      \/ /\ UNCHANGED <<live, closed>>
         /\ handler' \in {"idle", "found"} => handler \in {"idle", "found"}
  BY DEF SocketNext, SocketHandler, SocketPump, LookUp, SubscribeTab, Upgrade,
         SendSnapshot, SendSnapshotFails, HandleMessage, WriteToPaneReturns, LoopEnds,
         HandlerReturns, SelectChunk, SelectEnd, SelectDone, SendChunk, SendChunkFails,
         SendCloseFrame, PumpClosesDone, PumpClosesSocket, CloseTab, Dequeue, hubVars
<1>4. /\ live' \ {Tab} = live \ {Tab}
      /\ closed' \ {Tab} = closed \ {Tab}
  BY <1>3 DEF Join, Quit
<1> USE <1>1, <1>2, Names DEF BridgeInv
<1>5. Subscribed'
  <2>1. live' \cap closed' = {} /\ (over => live' = {})
    BY <1>3 DEF Subscribed, Join, Quit
  <2>2. handler' \in {"idle", "found"} => Tab \notin live' \cup closed'
    BY <1>3 DEF Subscribed
  <2> QED
    BY <1>4, <2>1, <2>2 DEF Subscribed
<1>6. Unplaced' /\ Placed'
  BY DEF Unplaced, Placed
<1>7. Telling'
  BY <1>4 DEF Telling, TypeOK, BridgeTypeOK
<1>8. BridgeSafe'
  BY <1>4 DEF BridgeSafe, OnlyEndedIsTold, NothingLeaks
<1> QED
  BY <1>5, <1>6, <1>7, <1>8

\* The window makes a call, which has a number of its own.
LEMMA ToggleBridgeInv ==
  ASSUME TypeOK, BridgeInv, Toggle, UNCHANGED socketVars
  PROVE  BridgeInv'
<1> DEFINE i == issued + 1
<1>1. i \in Calls /\ issued \in Nat /\ i > issued /\ issued' = i
  BY PaneAssumption DEF Toggle, TypeOK, BridgeTypeOK, Calls
<1>2. \A j \in Calls : j > issued' => j > issued /\ j # i
  BY <1>1 DEF Calls
<1>3. call[i] = "none"
  BY <1>1 DEF BridgeInv, Unplaced
<1>4. \E state \in {"subscribing", "unsubscribing"} : call' = [call EXCEPT ![i] = state]
  BY DEF Toggle, CallGoto
<1>5. UNCHANGED <<hubVars, handler, taken, bridgePump, bridgeHand, told, current, givenUp>>
  BY DEF Toggle, bridgePumpVars, socketVars
<1> HIDE DEF i
<1>6. /\ \A j \in Calls : j # i => call'[j] = call[j]
      /\ call'[i] \in {"subscribing", "unsubscribing"}
  BY <1>1, <1>4 DEF TypeOK, BridgeTypeOK
<1>7. UNCHANGED <<over, registered, live, closed, handler, taken, bridgePump, told,
                  current, givenUp>>
  BY <1>5 DEF hubVars
<1> USE <1>1, <1>3, <1>6, <1>7 DEF BridgeInv
<1>8. Subscribed'
  BY DEF Subscribed
<1>9. Unplaced' /\ Placed' /\ Telling'
  <2>1. \A j \in Calls : j > issued' => call'[j] = "none"
    BY <1>2 DEF Unplaced
  <2>2. \A j \in Calls : call'[j] \in {"none", "subscribing", "found", "joined"}
                           => call[j] \in {"none", "subscribing", "found", "joined"}
    OBVIOUS
  <2>3. Placed'
    BY DEF Placed
  <2>4. Telling'
    BY DEF Telling
  <2> QED
    BY <2>1, <2>2, <2>3, <2>4 DEF Unplaced
<1>10. BridgeSafe'
  BY DEF BridgeSafe, OnlyEndedIsTold, NothingLeaks
<1> QED
  BY <1>8, <1>9, <1>10

LEMMA CallBridgeInv ==
  ASSUME TypeOK, BridgeInv, NEW i \in Calls, CallStep(i), UNCHANGED socketVars
  PROVE  BridgeInv'
<1>1. UNCHANGED <<handler, issued, told>>
  BY DEF CallStep, FindSession, JoinSession, Replace, StartPump, RemoveEntry,
         EndTaken, callVars, bridgePumpVars, socketVars
<1>2. /\ \A j \in Calls : j # i => call'[j] = call[j]
      /\ call[i] # "none"
  BY DEF CallStep, FindSession, JoinSession, Replace, StartPump, RemoveEntry,
         EndTaken, CallGoto, TypeOK, BridgeTypeOK
<1> USE <1>1, <1>2, Names DEF BridgeInv, TypeOK, BridgeTypeOK
<1>3. CASE FindSession(i)
  <2>1. /\ UNCHANGED <<over, registered, live, closed, taken, bridgePump, current, givenUp>>
        /\ call[i] = "subscribing" /\ call'[i] \in {"found", "returned"}
    BY <1>3 DEF FindSession, CallGoto, hubVars, bridgePumpVars
  <2>2. Subscribed' /\ Unplaced'
    BY <2>1 DEF Subscribed, Unplaced
  <2>3. Placed' /\ Telling'
    BY <2>1 DEF Placed, Telling
  <2>4. BridgeSafe'
    BY <2>1 DEF BridgeSafe, OnlyEndedIsTold, NothingLeaks
  <2> QED
    BY <2>2, <2>3, <2>4
<1>4. CASE JoinSession(i)
  <2>1. /\ UNCHANGED <<over, registered, taken, bridgePump, current, givenUp>>
        /\ call[i] = "found" /\ call'[i] = "joined"
        /\ live' = IF over THEN live ELSE live \cup {i}
        /\ closed' = IF over THEN closed \cup {i} ELSE closed
    BY <1>4 DEF JoinSession, CallGoto, bridgePumpVars, Join
  <2>2. Subscribed'
    BY <2>1 DEF Subscribed
  <2>3. Unplaced' /\ Placed'
    BY <2>1 DEF Unplaced, Placed
  <2>4. Telling'
    BY <2>1 DEF Telling
  <2>5. BridgeSafe'
    BY <2>1 DEF BridgeSafe, OnlyEndedIsTold, NothingLeaks
  <2> QED
    BY <2>2, <2>3, <2>4, <2>5
<1>5. CASE Replace(i)
  <2>1. /\ UNCHANGED <<over, registered, taken, bridgePump>>
        /\ call[i] = "joined" /\ call'[i] = "registered"
        /\ live' = live \ {current}
        /\ closed' = IF current \in live THEN closed \cup {current} ELSE closed
        /\ givenUp' = givenUp \cup ({current} \cap live)
        /\ current' = i
    BY <1>5 DEF Replace, CallGoto, bridgePumpVars, GiveUp, Quit
  <2>2. Subscribed'
    <3>1. \A j \in Calls : call'[j] \in {"none", "subscribing", "found"} => j # current
      BY <2>1 DEF Unplaced
    <3>2. handler \in {"idle", "found"} => Tab # current
      OBVIOUS
    <3> QED
      BY <2>1, <3>1, <3>2 DEF Subscribed
  <2>3. i # current /\ i \notin givenUp
    BY <2>1 DEF Unplaced
  <2>4. Unplaced' /\ Placed'
    BY <2>1, <2>3 DEF Unplaced, Placed
  <2>5. Telling'
    BY <2>1 DEF Telling, Subscribed
  <2>6. OnlyEndedIsTold'
    BY <2>1 DEF BridgeSafe, OnlyEndedIsTold, Telling, Subscribed
  <2>7. NothingLeaks'
    BY <2>1 DEF BridgeSafe, NothingLeaks
  <2> QED
    BY <2>2, <2>4, <2>5, <2>6, <2>7 DEF BridgeSafe
<1>6. CASE StartPump(i)
  <2>1. /\ UNCHANGED <<over, registered, live, closed, taken, current, givenUp>>
        /\ call[i] = "registered" /\ call'[i] = "returned"
        /\ bridgePump' = [bridgePump EXCEPT ![i] = "selecting"]
    BY <1>6 DEF StartPump, CallGoto, PumpGoto, hubVars
  <2>2. Subscribed' /\ Unplaced' /\ Placed'
    BY <2>1 DEF Subscribed, Unplaced, Placed
  <2>3. Telling'
    BY <2>1 DEF Telling
  <2>4. BridgeSafe'
    BY <2>1 DEF BridgeSafe, OnlyEndedIsTold, NothingLeaks
  <2> QED
    BY <2>2, <2>3, <2>4
<1>7. CASE RemoveEntry(i)
  <2>1. /\ UNCHANGED <<over, registered, live, closed, bridgePump, givenUp>>
        /\ call[i] = "unsubscribing"
        /\ call'[i] = IF current = NoSub THEN "returned" ELSE "removed"
        /\ taken' = [taken EXCEPT ![i] = current]
        /\ current' = NoSub
    BY <1>7 DEF RemoveEntry, CallGoto, bridgePumpVars, hubVars
  <2>2. Subscribed' /\ Unplaced'
    BY <2>1 DEF Subscribed, Unplaced
  <2>3. Placed' /\ Telling'
    BY <2>1 DEF Placed, Telling
  <2>4. OnlyEndedIsTold'
    BY <2>1 DEF BridgeSafe, OnlyEndedIsTold
  <2>5. NothingLeaks'
    <3> SUFFICES ASSUME registered, NEW s \in live \cap Calls
                 PROVE  \/ s = current' \/ call'[s] = "joined"
                        \/ \E j \in Calls : call'[j] = "removed" /\ taken'[j] = s
      BY <2>1 DEF NothingLeaks
    <3>1. \/ s = current \/ call[s] = "joined"
          \/ \E j \in Calls : call[j] = "removed" /\ taken[j] = s
      BY DEF BridgeSafe, NothingLeaks
    <3>2. ASSUME s = current
          PROVE  call'[i] = "removed" /\ taken'[i] = s
      BY <2>1, <3>2
    <3>3. ASSUME NEW j \in Calls, call[j] = "removed", taken[j] = s
          PROVE  call'[j] = "removed" /\ taken'[j] = s
      BY <2>1, <3>3
    <3>4. ASSUME call[s] = "joined"
          PROVE  call'[s] = "joined"
      BY <2>1, <3>4
    <3> QED
      BY <3>1, <3>2, <3>3, <3>4
  <2> QED
    BY <2>2, <2>3, <2>4, <2>5 DEF BridgeSafe
<1>8. CASE EndTaken(i)
  <2>1. /\ UNCHANGED <<over, registered, taken, bridgePump, current>>
        /\ call[i] = "removed" /\ call'[i] = "returned"
        /\ registered => live' = live \ {taken[i]}
        /\ \/ UNCHANGED <<live, closed, givenUp>>
           \/ /\ live' = live \ {taken[i]}
              /\ closed' = IF taken[i] \in live THEN closed \cup {taken[i]} ELSE closed
              /\ givenUp' = givenUp \cup ({taken[i]} \cap live)
    BY <1>8 DEF EndTaken, CallGoto, bridgePumpVars, GiveUp, Quit, hubVars
  <2>2. Subscribed'
    <3>1. \A j \in Calls : call'[j] \in {"none", "subscribing", "found"} => j # taken[i]
      BY <2>1 DEF Unplaced
    <3>2. Tab # taken[i]
      OBVIOUS
    <3> QED
      BY <2>1, <3>1, <3>2 DEF Subscribed
  <2>3. Unplaced' /\ Placed'
    BY <2>1 DEF Unplaced, Placed
  <2>4. Telling'
    BY <2>1 DEF Telling, Subscribed
  <2>5. OnlyEndedIsTold'
    BY <2>1 DEF BridgeSafe, OnlyEndedIsTold, Telling, Subscribed
  <2>6. NothingLeaks'
    BY <2>1 DEF BridgeSafe, NothingLeaks
  <2> QED
    BY <2>2, <2>3, <2>4, <2>5, <2>6 DEF BridgeSafe
<1> QED
  BY <1>3, <1>4, <1>5, <1>6, <1>7, <1>8 DEF CallStep

LEMMA PumpBridgeInv ==
  ASSUME TypeOK, BridgeInv, NEW i \in Calls, BridgePump(i), UNCHANGED socketVars
  PROVE  BridgeInv'
<1>1. UNCHANGED <<handler, issued, call, taken, over, registered, live, closed, givenUp>>
  BY DEF BridgePump, BridgeSelectsChunk, EmitChunk, BridgeSelectsEnd, Decide,
         EmitDone, callVars, hubVars, Dequeue, socketVars
<1> USE <1>1, Names DEF BridgeInv, TypeOK, BridgeTypeOK
<1>2. Subscribed'
  BY DEF Subscribed
<1>3. bridgePump[i] # "none" /\ \A j \in Calls : j # i => bridgePump'[j] = bridgePump[j]
  BY DEF BridgePump, BridgeSelectsChunk, EmitChunk, BridgeSelectsEnd, Decide,
         EmitDone, PumpGoto
<1>4. ASSUME BridgeSelectsChunk(i) \/ EmitChunk(i) \/ BridgeSelectsEnd(i) \/ EmitDone(i)
      PROVE  BridgeInv'
  <2>1. /\ UNCHANGED current
        /\ \/ bridgePump'[i] \in {"emitting", "selecting"} /\ UNCHANGED told
           \/ i \in closed /\ bridgePump'[i] = "deciding" /\ UNCHANGED told
           \/ /\ bridgePump[i] = "telling" /\ told' = told \cup {i}
              /\ bridgePump'[i] = "ended"
    BY <1>4 DEF BridgeSelectsChunk, EmitChunk, BridgeSelectsEnd, EmitDone, PumpGoto
  <2>2. Unplaced' /\ Placed'
    BY <1>3, <2>1 DEF Unplaced, Placed
  <2>3. Telling'
    BY <1>3, <2>1 DEF Telling
  <2>4. BridgeSafe'
    BY <2>1 DEF BridgeSafe, OnlyEndedIsTold, NothingLeaks, Telling
  <2> QED
    BY <1>2, <2>2, <2>3, <2>4
<1>5. CASE Decide(i)
  <2>1. /\ UNCHANGED told
        /\ bridgePump[i] = "deciding"
        /\ bridgePump'[i] = IF current = i THEN "telling" ELSE "ended"
        /\ current' = IF current = i THEN NoSub ELSE current
    BY <1>5 DEF Decide, PumpGoto
  <2>2. Unplaced'
    BY <1>3, <2>1 DEF Unplaced
  <2>3. Placed'
    BY <2>1 DEF Placed
  <2>4. Telling'
    BY <1>3, <2>1 DEF Telling, Placed
  <2>5. BridgeSafe'
    BY <2>1 DEF BridgeSafe, OnlyEndedIsTold, NothingLeaks, Telling, Subscribed
  <2> QED
    BY <1>2, <2>2, <2>3, <2>4, <2>5
<1> QED
  BY <1>4, <1>5 DEF BridgePump

LEMMA BridgeInvStep ==
  ASSUME TypeOK, BridgeInv, [Next]_vars
  PROVE  BridgeInv'
<1>1. CASE UNCHANGED vars
  BY <1>1 DEF vars, hubVars, socketVars, bridgeVars, callVars, bridgePumpVars,
     BridgeInv, Subscribed, Unplaced, Placed, Telling, BridgeSafe, OnlyEndedIsTold,
     NothingLeaks
<1> QED
  BY <1>1, HubBridgeInv, SocketBridgeInv, ToggleBridgeInv, CallBridgeInv,
     PumpBridgeInv
  DEF Next, BridgeNext

-----------------------------------------------------------------------------
(* The stretch of output that the tab sees.                                *)

TabInv == TabQueue /\ TabSeesOneStretch

\* The tab's part of the state.
tabVars == <<queue[Tab], snapshot, pump, hand, shown>>

LEMMA TabKept ==
  ASSUME TabInv, UNCHANGED <<tabVars, drained, live \cap {Tab}, closed \cap {Tab}>>
  PROVE  TabInv'
<1>1. UNCHANGED <<queue[Tab], snapshot, pump, hand, shown, drained>>
  BY DEF tabVars
<1>2. (Tab \in live <=> Tab \in live') /\ (Tab \in closed <=> Tab \in closed')
  OBVIOUS
<1>3. SentTo' = SentTo
  BY <1>1 DEF SentTo
<1> QED
  BY <1>1, <1>2, <1>3 DEF TabInv, TabQueue, TabSeesOneStretch

\* A subscription that ends keeps its queue.
LEMMA TabClosed ==
  ASSUME TabInv, UNCHANGED tabVars, Tab \in live, Tab \notin live', Tab \in closed'
  PROVE  TabInv'
<1>1. UNCHANGED <<queue[Tab], snapshot, pump, hand, shown>>
  BY DEF tabVars
<1>2. SentTo' = SentTo
  BY <1>1 DEF SentTo
<1> QED
  BY <1>1, <1>2 DEF TabInv, TabQueue, TabSeesOneStretch

LEMMA DistributeTab ==
  ASSUME TypeOK, Subscribed, TabInv, UNCHANGED socketVars,
         NEW n \in 1..MaxChunk, Distribute(n)
  PROVE  TabInv'
<1>1. UNCHANGED <<snapshot, pump, hand, shown>>
  BY DEF socketVars
<1>2. CASE Tab \notin live
  <2>1. queue'[Tab] = queue[Tab] /\ Tab \notin live'
    BY <1>2, Names DEF Distribute, TypeOK, HubTypeOK
  <2>2. Tab \in closed' <=> Tab \in closed
    BY <1>2 DEF Distribute
  <2>3. SentTo' = SentTo
    BY <1>1 DEF SentTo
  <2> QED
    BY <1>1, <1>2, <2>1, <2>2, <2>3 DEF TabInv, TabQueue, TabSeesOneStretch
<1>3. CASE Tab \in live /\ ~Room(Tab)
  <2>1. queue'[Tab] = queue[Tab] /\ Tab \notin live' /\ Tab \in closed'
    BY <1>3, Names DEF Distribute, TypeOK, HubTypeOK
  <2> QED
    BY <1>1, <1>3, <2>1, TabClosed DEF tabVars
<1>4. CASE Tab \in live /\ Room(Tab)
  <2> DEFINE c == [lo |-> drained, hi |-> drained + n]
  <2>1. c \in Chunk /\ c.lo = drained /\ c.hi = drained' /\ drained' = drained + n
    BY PaneAssumption DEF Distribute, TypeOK, HubTypeOK, Chunk
  <2>2. queue'[Tab] = Append(queue[Tab], c) /\ Tab \in live' /\ Tab \notin closed'
    BY <1>4, Names DEF Distribute, Subscribed
  <2>3. queue[Tab] \in Seq(Chunk)
    BY Names DEF TypeOK, HubTypeOK
  <2>4. SentTo' = SentTo
    BY <1>1 DEF SentTo
  <2> DEFINE q == queue[Tab]
  <2>5. q # <<>> => q[Len(q)].hi = c.lo
    BY <1>4, <2>1 DEF TabInv, TabQueue
  <2> HIDE DEF c
  <2>6. Append(q, c) # <<>> /\ Append(q, c)[Len(Append(q, c))] = c
    BY <2>1, <2>3
  <2>7. ASSUME pump \in {"none", "selecting", "sending"}
        PROVE  FollowsOn(queue'[Tab], SentTo)
    <3>1. FollowsOn(q, SentTo) /\ (q = <<>> => SentTo = c.lo)
      BY <1>4, <2>1, <2>7 DEF TabInv, TabSeesOneStretch
    <3> HIDE DEF q
    <3>2. FollowsOn(Append(q, c), SentTo)
      BY <2>1, <2>3, <2>5, <3>1, SentQueue DEF q
    <3> QED
      BY <2>2, <3>2 DEF q
  <2>8. TabQueue'
    BY <2>1, <2>2, <2>6 DEF TabQueue
  <2>9. pump = "sending" => hand.lo = shown.hi
    BY <1>4 DEF TabInv, TabSeesOneStretch
  <2>10. TabSeesOneStretch'
    BY <1>1, <2>2, <2>4, <2>6, <2>7, <2>9 DEF TabSeesOneStretch
  <2> QED
    BY <2>8, <2>10 DEF TabInv
<1> QED
  BY <1>2, <1>3, <1>4

LEMMA HubTab ==
  ASSUME TypeOK, Subscribed, TabInv, UNCHANGED socketVars, HubNext
  PROVE  TabInv'
<1>1. ASSUME NEW n \in 1..MaxChunk, Distribute(n)
      PROVE  TabInv'
  BY <1>1, DistributeTab
<1>2. CASE End
  <2>1. UNCHANGED <<tabVars, drained>>
    BY <1>2 DEF End, tabVars, socketVars
  <2>2. CASE Tab \in live
    BY <1>2, <2>1, <2>2, TabClosed DEF End
  <2>3. CASE Tab \notin live
    BY <1>2, <2>1, <2>3, TabKept DEF End
  <2> QED
    BY <2>2, <2>3
<1>3. CASE Unregister
  BY <1>3, TabKept DEF Unregister, tabVars, socketVars
<1> QED
  BY <1>1, <1>2, <1>3 DEF HubNext

LEMMA SocketTab ==
  ASSUME TypeOK, Pumping, Subscribed, TabInv, SocketNext
  PROVE  TabInv'
<1>1. ASSUME LookUp \/ Upgrade \/ SendSnapshotFails \/ HandleMessage
             \/ WriteToPaneReturns \/ LoopEnds \/ CloseTab
      PROVE  TabInv'
  <2>1. UNCHANGED <<hubVars, snapshot, pump, hand, shown>>
    BY <1>1 DEF LookUp, Upgrade, SendSnapshotFails, HandleMessage, WriteToPaneReturns,
                LoopEnds, CloseTab
  <2> QED
    BY <2>1, TabKept DEF hubVars, tabVars
<1>2. CASE SubscribeTab
  <2>1. /\ pump = "none" /\ Tab \notin live \cup closed /\ queue[Tab] = <<>>
        /\ snapshot' = Snapshot
        /\ UNCHANGED <<pump, hand, shown, queue, drained>>
    BY <1>2 DEF SubscribeTab, Join, Pumping, Subscribed, TabInv, TabQueue
  <2>2. SentTo' = drained
    BY <2>1 DEF SentTo, Snapshot
  <2>3. FollowsOn(<<>>, SentTo')
    BY DEF FollowsOn
  <2> QED
    BY <1>2, <2>1, <2>2, <2>3 DEF TabInv, TabQueue, TabSeesOneStretch, SubscribeTab, Join
<1>3. CASE SendSnapshot
  <2>1. /\ pump = "none" /\ pump' = "selecting" /\ shown' = snapshot
        /\ UNCHANGED <<queue, live, closed, drained>>
    BY <1>3 DEF SendSnapshot, Pumping, hubVars
  <2>2. SentTo' = SentTo
    BY <2>1 DEF SentTo
  <2> QED
    BY <2>1, <2>2 DEF TabInv, TabQueue, TabSeesOneStretch
<1>4. CASE HandlerReturns
  <2>1. UNCHANGED <<tabVars, drained>>
    BY <1>4 DEF HandlerReturns, Quit, tabVars
  <2>2. CASE Tab \in live
    BY <1>4, <2>1, <2>2, TabClosed DEF HandlerReturns, Quit
  <2>3. CASE Tab \notin live
    BY <1>4, <2>1, <2>3, TabKept DEF HandlerReturns, Quit
  <2> QED
    BY <2>2, <2>3
<1>5. CASE SelectChunk
  <2> DEFINE q == queue[Tab]
  <2>1. /\ pump = "selecting" /\ q # <<>>
        /\ hand' = Head(q) /\ pump' = "sending"
        /\ UNCHANGED <<shown, live, closed, drained>>
    BY <1>5 DEF SelectChunk, Dequeue
  <2>2. q \in Seq(Chunk) /\ Len(q) <= SubCap /\ queue'[Tab] = Tail(q)
    BY <1>5, Names DEF SelectChunk, Dequeue, TypeOK, HubTypeOK
  <2>3. /\ Head(q) = q[1]
        /\ FollowsOn(q, q[1].lo) => FollowsOn(Tail(q), q[1].hi)
        /\ Tail(q) # <<>> => Tail(q)[Len(Tail(q))] = q[Len(q)]
        /\ Tail(q) = <<>> => Head(q) = q[Len(q)]
    BY <2>1, <2>2, TakenQueue
  <2>4. Tab \in live \cup closed
    BY <2>1 DEF TabInv, TabQueue
  <2>5. SentTo = shown.hi /\ FollowsOn(q, SentTo)
    BY <2>1, <2>4 DEF TabInv, TabSeesOneStretch, SentTo
  <2>6. q[1].lo = shown.hi
    BY <2>1, <2>5 DEF FollowsOn
  <2>7. SentTo' = q[1].hi /\ FollowsOn(Tail(q), q[1].hi)
    BY <2>1, <2>3, <2>5, <2>6 DEF SentTo
  <2>8. Tab \in live => q[Len(q)].hi = drained
    BY <2>1 DEF TabInv, TabQueue
  <2> HIDE DEF q
  <2>9. TabQueue'
    BY <2>1, <2>2, <2>3, <2>4, <2>8 DEF TabQueue
  <2>10. TabSeesOneStretch'
    BY <2>1, <2>2, <2>3, <2>6, <2>7, <2>8 DEF TabSeesOneStretch
  <2> QED
    BY <2>9, <2>10 DEF TabInv
<1>6. CASE SendChunk
  <2>1. /\ pump = "sending" /\ pump' = "selecting"
        /\ shown' = [shown EXCEPT !.hi = hand.hi]
        /\ UNCHANGED <<queue, live, closed, drained>>
    BY <1>6 DEF SendChunk, hubVars
  <2>2. shown'.hi = hand.hi
    BY <2>1 DEF TypeOK, SocketTypeOK, Chunk
  <2>3. SentTo' = SentTo
    BY <2>1, <2>2 DEF SentTo
  <2> QED
    BY <2>1, <2>3 DEF TabInv, TabQueue, TabSeesOneStretch
<1>7. ASSUME SelectEnd \/ SelectDone \/ SendChunkFails \/ SendCloseFrame
             \/ PumpClosesDone \/ PumpClosesSocket
      PROVE  TabInv'
  <2>1. UNCHANGED hubVars /\ pump' \notin {"none", "selecting", "sending"}
    BY <1>7 DEF SelectEnd, SelectDone, SendChunkFails, SendCloseFrame,
                PumpClosesDone, PumpClosesSocket
  <2> QED
    BY <2>1 DEF TabInv, TabQueue, TabSeesOneStretch, hubVars
<1> QED
  BY <1>1, <1>2, <1>3, <1>4, <1>5, <1>6, <1>7
  DEF SocketNext, SocketHandler, SocketPump

\* The window's subscriptions are not the tab's.
LEMMA BridgeTab ==
  ASSUME TypeOK, TabInv, BridgeNext, UNCHANGED socketVars
  PROVE  TabInv'
<1>1. UNCHANGED <<snapshot, pump, hand, shown>>
  BY DEF socketVars
<1>2. \/ UNCHANGED hubVars
      \/ \E s \in Calls \cup {NoSub} : Quit(s)
      \/ \E s \in Calls : Join(s) \/ Dequeue(s)
  <2>1. CASE Toggle
    BY <2>1 DEF Toggle
  <2>2. ASSUME NEW i \in Calls, CallStep(i) \/ BridgePump(i)
        PROVE  \/ UNCHANGED hubVars
               \/ \E s \in Calls \cup {NoSub} : Quit(s)
               \/ \E s \in Calls : Join(s) \/ Dequeue(s)
    BY <2>2 DEF CallStep, FindSession, JoinSession, Replace, StartPump, RemoveEntry,
       EndTaken, BridgePump, BridgeSelectsChunk, EmitChunk, BridgeSelectsEnd, Decide,
       EmitDone, GiveUp, TypeOK, BridgeTypeOK
  <2> QED
    BY <2>1, <2>2 DEF BridgeNext
<1>3. /\ queue'[Tab] = queue[Tab] /\ drained' = drained
      /\ Tab \in live' <=> Tab \in live
      /\ Tab \in closed' <=> Tab \in closed
  BY <1>2, Names DEF Quit, Join, Dequeue, hubVars, TypeOK, HubTypeOK
<1> QED
  BY <1>1, <1>3, TabKept DEF tabVars

LEMMA TabStep ==
  ASSUME TypeOK, Pumping, Subscribed, TabInv, [Next]_vars
  PROVE  TabInv'
<1>1. CASE UNCHANGED vars
  BY <1>1, TabKept DEF vars, hubVars, socketVars, tabVars
<1> QED
  BY <1>1, HubTab, SocketTab, BridgeTab DEF Next

-----------------------------------------------------------------------------
(* The theorems.                                                           *)

LEMMA NextIInv == IInv /\ [Next]_vars => IInv'
BY TypeStep, BridgeInvStep, TabStep DEF IInv, BridgeInv, TabInv

LEMMA Invariance == Spec => []IInv
BY InitIInv, NextIInv, PTL DEF Spec

\* Every variable keeps its type. In particular no subscription's channel,
\* a tab's or the window's, ever holds more chunks than its capacity: a
\* subscriber that does not keep up is dropped.
THEOREM TypeCorrect == Spec => []TypeOK
<1>1. IInv => TypeOK
  BY DEF IInv
<1> QED
  BY <1>1, Invariance, PTL

\* What a browser tab is sent is one stretch of the session's output, the
\* scrollback and what follows it, without a hole or a repetition, wherever
\* output falls between Subscribe, the snapshot and the start of the pump.
THEOREM StretchCorrect == Spec => []TabSeesOneStretch
<1>1. IInv => TabSeesOneStretch
  BY DEF IInv
<1> QED
  BY <1>1, Invariance, PTL

\* For any number of calls of PaneSubscribe and PaneUnsubscribe, in any order
\* in which they overtake each other and the pumps: ":done" is never told for
\* a subscription that the bridge gave up, and no live subscription is lost.
THEOREM BridgeCorrect == Spec => []BridgeSafe
<1>1. IInv => BridgeSafe
  BY DEF IInv
<1> QED
  BY <1>1, Invariance, PTL
=============================================================================
