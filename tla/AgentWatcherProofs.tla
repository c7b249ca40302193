------------------------- MODULE AgentWatcherProofs -------------------------
(***************************************************************************)
(* Theorems about AgentWatcher, for any number of panes and streams, any   *)
(* capacity of their channels and any threshold.                           *)
(***************************************************************************)
EXTENDS AgentWatcher, SequenceTheorems, TLAPS

\* What a poll is doing: it reads sessions only before it publishes, and sends
\* only what it has published, to streams that were registered then.
Polling ==
    /\ tail # NotRead => tail.pane \in Panes /\ loop = "reading"
    /\ loop = "pushing" => result = current
    /\ loop # "pushing" => toSend = {}
    /\ toSend \subseteq subs
    /\ \A c \in Streams : c \in subs <=> stream[c] # "off"

\* The past: a tail that has become stale was followed by output that came
\* after the poll was triggered.
ReadInTime ==
    /\ now <= clock
    /\ \A p \in Panes : lastOutput[p] <= clock
    /\ tail # NotRead =>
         \/ tail.prompt = "shown" => tail.pane \in prompt
         \/ now <= lastOutput[tail.pane]

IInv == TypeOK /\ Polling /\ ReadInTime /\ StreamIsFresh

-----------------------------------------------------------------------------

\* A snapshot stays one when a pane is classified.
LEMMA SnapshotUpdate ==
  ASSUME NEW s \in Snapshot, NEW p \in Panes, NEW v \in States
  PROVE  [s EXCEPT ![p] = v] \in Snapshot
BY DEF Snapshot

LEMMA EmptySnapshot == Empty \in Snapshot
BY DEF Empty, Snapshot, States

\* The empty channel, and a channel whose head is taken: its last element is
\* the same, or the one that was taken.
LEMMA EmptyQueue == <<>> \in Seq(Snapshot) /\ Len(<<>>) <= QueueCap
BY WatcherAssumption

LEMMA TakenQueue ==
  ASSUME NEW q \in Seq(Snapshot), q # <<>>, Len(q) <= QueueCap
  PROVE  /\ Head(q) \in Snapshot /\ Tail(q) \in Seq(Snapshot)
         /\ Len(Tail(q)) <= QueueCap
         /\ Tail(q) # <<>> => Tail(q)[Len(Tail(q))] = q[Len(q)]
         /\ Tail(q) = <<>> => Head(q) = q[Len(q)]
<1>1. Len(q) \in Nat \ {0} /\ QueueCap \in Nat
  BY WatcherAssumption
<1>2. Tail(q) \in Seq(Snapshot) /\ Len(Tail(q)) = Len(q) - 1 /\ Head(q) = q[1]
  OBVIOUS
<1>3. \A i \in 1..Len(Tail(q)) : Tail(q)[i] = q[i + 1]
  OBVIOUS
<1>4. Tail(q) = <<>> <=> Len(Tail(q)) = 0
  BY <1>2, EmptySeq
<1> DEFINE t == Tail(q)
<1> HIDE DEF t
<1>5. ASSUME t = <<>>
      PROVE  Head(q) = q[Len(q)]
  <2>1. Len(q) = 1
    BY <1>1, <1>2, <1>4, <1>5 DEF t
  <2> QED
    BY <1>2, <2>1
<1>6. ASSUME t # <<>>
      PROVE  t[Len(t)] = q[Len(q)]
  <2>1. Len(t) \in 1..Len(t) /\ Len(t) + 1 = Len(q)
    BY <1>1, <1>2, <1>4, <1>6 DEF t
  <2> QED
    BY <1>3, <2>1 DEF t
<1>7. Len(t) <= QueueCap
  BY <1>1, <1>2 DEF t
<1> QED
  BY <1>2, <1>5, <1>6, <1>7 DEF t

\* The initial state satisfies the invariant.
LEMMA InitIInv == Init => IInv
<1> SUFFICES ASSUME Init
             PROVE  IInv
  OBVIOUS
<1>1. TypeOK
  BY EmptySnapshot, EmptyQueue, WatcherAssumption DEF Init, TypeOK, NotRead
<1>2. Polling /\ ReadInTime
  BY WatcherAssumption DEF Init, Polling, ReadInTime
<1>3. StreamIsFresh
  BY DEF Init, StreamIsFresh
<1> QED
  BY <1>1, <1>2, <1>3 DEF IInv

-----------------------------------------------------------------------------
(* What is watched, and the clock.                                         *)

LEMMA PaneSteps ==
  ASSUME IInv,
         \/ TimePasses
         \/ \E p \in Panes : ChangeSession(p) \/ ChangeAgent(p) \/ OutputArrives(p)
  PROVE  IInv'
<1>0. TypeOK /\ Polling /\ ReadInTime /\ StreamIsFresh
  BY DEF IInv
<1>1. UNCHANGED <<pollVars, current, toSend, subVars, streamVars>>
  BY DEF TimePasses, ChangeSession, ChangeAgent, OutputArrives
<1>2. Polling' /\ StreamIsFresh'
  BY <1>0, <1>1 DEF Polling, StreamIsFresh, Latest, pollVars, subVars, streamVars
<1>3. TypeOK'
  <2> USE DEF TypeOK, pollVars, subVars, streamVars
  <2>1. CASE TimePasses
    BY <1>0, <1>1, <2>1 DEF TimePasses
  <2>2. ASSUME NEW p \in Panes, ChangeSession(p) \/ ChangeAgent(p)
        PROVE  TypeOK'
    BY <1>0, <1>1, <2>2 DEF ChangeSession, ChangeAgent
  <2>3. ASSUME NEW p \in Panes, OutputArrives(p)
        PROVE  TypeOK'
    BY <1>0, <1>1, <2>3 DEF OutputArrives
  <2> QED
    BY <2>1, <2>2, <2>3
<1>4. ReadInTime'
  <2> USE DEF TypeOK, Polling, ReadInTime, pollVars
  <2>1. CASE TimePasses
    BY <1>0, <1>1, <2>1 DEF TimePasses
  <2>2. ASSUME NEW p \in Panes, ChangeSession(p) \/ ChangeAgent(p)
        PROVE  ReadInTime'
    BY <1>0, <1>1, <2>2 DEF ChangeSession, ChangeAgent
  <2>3. ASSUME NEW p \in Panes, OutputArrives(p)
        PROVE  ReadInTime'
    BY <1>0, <1>1, <2>3 DEF OutputArrives
  <2> QED
    BY <2>1, <2>2, <2>3
<1> QED
  BY <1>2, <1>3, <1>4 DEF IInv

-----------------------------------------------------------------------------
(* The polling loop.                                                       *)

LEMMA ReadingSteps ==
  ASSUME IInv,
         \/ StartPoll \/ Scan \/ ScanFails \/ List
         \/ (\E p \in Panes : ReadTail(p)) \/ ReadLastOutput
  PROVE  IInv'
<1>0. TypeOK /\ Polling /\ ReadInTime /\ StreamIsFresh
  BY DEF IInv
<1>1. UNCHANGED <<paneVars, current, toSend, subVars, streamVars>>
  BY DEF StartPoll, Scan, ScanFails, List, ReadTail, ReadLastOutput
<1>2. loop # "pushing"
  BY <1>0 DEF StartPoll, Scan, ScanFails, List, ReadTail, ReadLastOutput, Polling
<1>3. StreamIsFresh'
  BY <1>0, <1>1 DEF StreamIsFresh, Latest, subVars, streamVars
<1>4. TypeOK' /\ Polling' /\ ReadInTime'
  <2> USE DEF TypeOK, Polling, ReadInTime, paneVars, subVars, streamVars
  <2>1. CASE StartPoll
    BY <1>0, <1>1, <2>1, EmptySnapshot DEF StartPoll
  <2>2. CASE Scan \/ ScanFails \/ List
    BY <1>0, <1>1, <2>2 DEF Scan, ScanFails, List
  <2>3. ASSUME NEW p \in Panes, ReadTail(p)
        PROVE  TypeOK' /\ Polling' /\ ReadInTime'
    BY <1>0, <1>1, <2>3 DEF ReadTail, NotRead
  <2>4. CASE ReadLastOutput
    <3>1. result' \in Snapshot
      BY <1>0, <2>4, SnapshotUpdate DEF ReadLastOutput, ClassifyState, States
    <3> QED
      BY <1>0, <1>1, <1>2, <2>4, <3>1 DEF ReadLastOutput
  <2> QED
    BY <2>1, <2>2, <2>3, <2>4
<1> QED
  BY <1>3, <1>4 DEF IInv

LEMMA SendingSteps ==
  ASSUME IInv,
         Publish \/ (\E c \in Streams : Push(c)) \/ EndPush
  PROVE  IInv'
<1>0. TypeOK /\ Polling /\ ReadInTime /\ StreamIsFresh
  BY DEF IInv
<1>1. UNCHANGED <<paneVars, now, procs, todo, tail, result, streamVars>>
  BY DEF Publish, Push, EndPush, pollVars
<1>2. ReadInTime'
  BY <1>0, <1>1 DEF ReadInTime, paneVars
<1>3. CASE Publish
  <2>1. TypeOK'
    BY <1>0, <1>3 DEF Publish, TypeOK, paneVars, subVars, streamVars
  <2>2. Polling'
    BY <1>0, <1>3 DEF Publish, Polling, TypeOK, paneVars, subVars, streamVars
  <2>3. StreamIsFresh'
    BY <1>0, <1>3 DEF Publish, StreamIsFresh, Latest, Polling, subVars, streamVars
  <2> QED
    BY <1>2, <2>1, <2>2, <2>3 DEF IInv
<1>4. ASSUME NEW c \in Streams, Push(c)
      PROVE  IInv'
  <2>1. UNCHANGED <<current, subs, loop>> /\ c \in toSend /\ toSend' = toSend \ {c}
    BY <1>4 DEF Push, pollVars
  <2>2. loop = "pushing" /\ result = current
    BY <1>0, <2>1 DEF Polling
  <2>3. Polling'
    BY <1>0, <1>1, <2>1, <2>2 DEF Polling, streamVars
  <2>4. CASE Len(queue[c]) < QueueCap
    <3>1. queue' = [queue EXCEPT ![c] = Append(@, result)] /\ behind' = behind \ {c}
      BY <1>4, <2>4 DEF Push
    <3>2. queue[c] \in Seq(Snapshot) /\ result \in Snapshot /\ QueueCap \in Nat
      BY <1>0, WatcherAssumption DEF TypeOK
    <3>3. /\ Append(queue[c], result) \in Seq(Snapshot)
          /\ Len(Append(queue[c], result)) <= QueueCap
          /\ Append(queue[c], result) # <<>>
          /\ Append(queue[c], result)[Len(Append(queue[c], result))] = result
      BY <2>4, <3>2
    <3>4. TypeOK'
      BY <1>0, <1>1, <2>1, <3>1, <3>3 DEF TypeOK, paneVars, streamVars
    <3>5. StreamIsFresh'
      BY <1>0, <1>1, <2>1, <2>2, <3>1, <3>3 DEF StreamIsFresh, Latest, TypeOK, streamVars
    <3> QED
      BY <1>2, <2>3, <3>4, <3>5 DEF IInv
  <2>5. CASE ~(Len(queue[c]) < QueueCap)
    <3>1. queue' = queue /\ behind' = behind \cup {c}
      BY <1>4, <2>5 DEF Push
    <3>2. TypeOK'
      BY <1>0, <1>1, <2>1, <3>1 DEF TypeOK, paneVars, streamVars
    <3>3. StreamIsFresh'
      BY <1>0, <1>1, <2>1, <3>1 DEF StreamIsFresh, Latest, streamVars
    <3> QED
      BY <1>2, <2>3, <3>2, <3>3 DEF IInv
  <2> QED
    BY <2>4, <2>5
<1>5. CASE EndPush
  BY <1>0, <1>2, <1>5 DEF EndPush, IInv, TypeOK, Polling, StreamIsFresh, Latest, paneVars,
      subVars, streamVars
<1> QED
  BY <1>3, <1>4, <1>5

-----------------------------------------------------------------------------
(* The streams.                                                            *)

LEMMA StreamSteps ==
  ASSUME IInv,
         NEW c \in Streams,
         Connect(c) \/ Send(c) \/ ReceiveSnapshot(c) \/ Disconnect(c)
  PROVE  IInv'
<1>0. TypeOK /\ Polling /\ ReadInTime /\ StreamIsFresh
  BY DEF IInv
<1>1. UNCHANGED <<paneVars, pollVars, current>>
  BY DEF Connect, Send, ReceiveSnapshot, Disconnect
<1>2. ReadInTime'
  BY <1>0, <1>1 DEF ReadInTime, paneVars, pollVars
<1>3. Polling'
  BY <1>0, <1>1 DEF Polling, TypeOK, pollVars, subVars, streamVars, Connect, Send,
      ReceiveSnapshot, Disconnect
<1>4. TypeOK' /\ StreamIsFresh'
  <2> USE DEF TypeOK, StreamIsFresh, Latest, paneVars, pollVars, subVars, streamVars
  <2>1. CASE Connect(c)
    <3>1. TypeOK'
      BY <1>0, <1>1, <2>1, EmptyQueue DEF Connect
    <3> QED
      BY <1>0, <1>1, <2>1, <3>1 DEF Connect
  <2>2. CASE Send(c)
    <3>1. TypeOK'
      BY <1>0, <1>1, <2>2 DEF Send
    <3> QED
      BY <1>0, <1>1, <2>2, <3>1 DEF Send
  <2>3. CASE ReceiveSnapshot(c)
    <3>1. queue[c] \in Seq(Snapshot) /\ queue[c] # <<>> /\ Len(queue[c]) <= QueueCap
      BY <1>0, <2>3 DEF ReceiveSnapshot
    <3>2. /\ Head(queue[c]) \in Snapshot /\ Tail(queue[c]) \in Seq(Snapshot)
          /\ Len(Tail(queue[c])) <= QueueCap
          /\ Tail(queue[c]) # <<>> =>
               Tail(queue[c])[Len(Tail(queue[c]))] = queue[c][Len(queue[c])]
          /\ Tail(queue[c]) = <<>> => Head(queue[c]) = queue[c][Len(queue[c])]
      BY <3>1, TakenQueue
    <3>3. TypeOK'
      BY <1>0, <1>1, <2>3, <3>2 DEF ReceiveSnapshot
    <3>4. StreamIsFresh'
      BY <1>0, <1>1, <2>3, <3>2 DEF ReceiveSnapshot
    <3> QED
      BY <3>3, <3>4
  <2>4. CASE Disconnect(c)
    <3>1. TypeOK'
      BY <1>0, <1>1, <2>4, EmptySnapshot, EmptyQueue DEF Disconnect
    <3> QED
      BY <1>0, <1>1, <2>4, <3>1 DEF Disconnect
  <2> QED
    BY <2>1, <2>2, <2>3, <2>4
<1> QED
  BY <1>2, <1>3, <1>4 DEF IInv

\* Every step preserves the invariant.
LEMMA NextIInv == IInv /\ [Next]_vars => IInv'
<1> SUFFICES ASSUME IInv, [Next]_vars
             PROVE  IInv'
  OBVIOUS
<1>1. CASE Next
  BY <1>1, PaneSteps, ReadingSteps, SendingSteps, StreamSteps DEF Next, Poll
<1>2. CASE UNCHANGED vars
  BY <1>2 DEF IInv, TypeOK, Polling, ReadInTime, StreamIsFresh, Latest, vars, paneVars,
      pollVars, subVars, streamVars
<1> QED
  BY <1>1, <1>2

LEMMA Invariance == Spec => []IInv
BY InitIInv, NextIInv, PTL DEF Spec

-----------------------------------------------------------------------------

\* Types; no channel of a stream exceeds its capacity.
THEOREM TypeCorrect == Spec => []TypeOK
<1>1. IInv => TypeOK
  BY DEF IInv
<1> QED
  BY <1>1, Invariance, PTL

\* A stream that was not skipped at the last change shows or will show the
\* current snapshot, also one that connects while a poll goes on.
THEOREM FreshCorrect == Spec => []StreamIsFresh
<1>1. IInv => StreamIsFresh
  BY DEF IInv
<1> QED
  BY <1>1, Invariance, PTL

\* A step that finds a pane waiting finds it so: the prompt is the last output,
\* and it is as old as the threshold.
LEMMA WaitStep ==
  ASSUME IInv, Next, NEW p \in Panes, result'[p] = "wait", result[p] # "wait"
  PROVE  p \in prompt /\ clock - lastOutput[p] >= IdleTime
<1>0. TypeOK /\ Polling /\ ReadInTime
  BY DEF IInv
<1>1. CASE UNCHANGED result
  BY <1>1
<1>2. CASE StartPoll
  BY <1>2 DEF StartPoll, Empty
<1>3. CASE ReadLastOutput
  <2>1. p = tail.pane /\ tail # NotRead
    BY <1>0, <1>3 DEF ReadLastOutput, TypeOK, Snapshot
  <2>2. ClassifyState(tail.prompt, lastOutput[p], now) = "wait"
    BY <1>0, <1>3, <2>1 DEF ReadLastOutput, TypeOK, Snapshot
  <2>3. tail.prompt = "shown" /\ now - lastOutput[p] >= IdleTime
    BY <2>2 DEF ClassifyState
  <2>4. /\ now \in Nat /\ clock \in Nat /\ lastOutput[p] \in Nat /\ IdleTime \in Nat \ {0}
        /\ now <= clock
    BY <1>0, WatcherAssumption DEF TypeOK, ReadInTime
  <2>5. ~(now <= lastOutput[p])
    BY <2>3, <2>4
  <2>6. p \in prompt
    BY <1>0, <2>1, <2>3, <2>5 DEF ReadInTime
  <2> QED
    BY <2>3, <2>4, <2>6
<1> QED
  BY <1>1, <1>2, <1>3 DEF Next, Poll, TimePasses, ChangeSession, ChangeAgent,
      OutputArrives, Scan, ScanFails, List, ReadTail, Publish, Push, EndPush, Connect,
      Send, ReceiveSnapshot, Disconnect, pollVars

\* A pane is reported waiting only when it waits: output between the two reads
\* of a session never makes an old prompt count.
THEOREM WaitCorrect == Spec => WaitIsReal
<1>1. IInv /\ [Next]_vars =>
        [\A p \in Panes :
           result'[p] = "wait" /\ result[p] # "wait" =>
              p \in prompt /\ clock - lastOutput[p] >= IdleTime]_vars
  BY WaitStep
<1> QED
  BY <1>1, Invariance, PTL DEF Spec, WaitIsReal
=============================================================================
