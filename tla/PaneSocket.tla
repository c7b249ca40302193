----------------------------- MODULE PaneSocket -----------------------------
(***************************************************************************)
(* handlePaneIO (apps/web/ws.go): one WebSocket connection of a browser    *)
(* tab to a pane, served by the handler, which becomes the input loop, and *)
(* by the output pump it starts. They share the channel done and the       *)
(* socket; the tab may go away at any moment.                              *)
(***************************************************************************)
EXTENDS PaneHub

VARIABLES
    handler,    \* where the handler is
    snapshot,   \* the scrollback Subscribe returned to it
    pump, hand, \* the output pump and the chunk it holds
    doneClosed, \* the channel done is closed
    socketOpen, \* the server's end of the connection
    tabOpen,    \* the tab is there
    shown       \* what was written to the tab: the bytes shown.lo+1 .. shown.hi

socketVars == <<handler, snapshot, pump, hand, doneClosed, socketOpen, tabOpen, shown>>

SocketHandlerStates == {"idle", "found", "subscribed", "upgraded", "looping",
                        "writing", "leaving", "returned"}
SocketPumpStates == {"none", "selecting", "sending", "announcing", "stopping",
                     "closing", "ended"}

Nothing == [lo |-> 0, hi |-> 0]

SocketInit ==
    /\ handler = "idle"
    /\ snapshot = Nothing
    /\ pump = "none" /\ hand = NoChunk
    /\ doneClosed = FALSE
    /\ socketOpen = FALSE /\ tabOpen = TRUE
    /\ shown = Nothing

-----------------------------------------------------------------------------
(* The handler.                                                            *)

\* 404 unless the pane has a session.
LookUp ==
    /\ handler = "idle"
    /\ handler' = IF registered THEN "found" ELSE "returned"
    /\ UNCHANGED <<hubVars, snapshot, pump, hand, doneClosed, socketOpen, tabOpen, shown>>

\* Before the upgrade, so that no output is missed meanwhile.
SubscribeTab ==
    /\ handler = "found"
    /\ snapshot' = Snapshot
    /\ Join(Tab)
    /\ handler' = "subscribed"
    /\ UNCHANGED <<pump, hand, doneClosed, socketOpen, tabOpen, shown>>

Upgrade ==
    /\ handler = "subscribed"
    /\ \/ handler' = "upgraded" /\ socketOpen' = TRUE
       \/ handler' = "leaving" /\ UNCHANGED socketOpen
    /\ UNCHANGED <<hubVars, snapshot, pump, hand, doneClosed, tabOpen, shown>>

\* Mutant: the pump runs before the snapshot is written, and the snapshot is
\* taken when it is written.
SendLateSnapshot ==
    /\ handler = "upgraded"
    /\ shown' = Snapshot
    /\ handler' = "looping"
    /\ pump' = "selecting"
    /\ UNCHANGED <<hubVars, snapshot, hand, doneClosed, socketOpen, tabOpen>>

\* The snapshot first, then the pump is started.
SendSnapshot ==
    /\ handler = "upgraded"
    /\ shown' = snapshot
    /\ handler' = "looping"
    /\ pump' = "selecting"
    /\ UNCHANGED <<hubVars, snapshot, hand, doneClosed, socketOpen, tabOpen>>

\* An empty snapshot is not written at all, so this needs a tab that is gone
\* and a snapshot that is not empty.
SendSnapshotFails ==
    /\ handler = "upgraded"
    /\ ~tabOpen
    /\ snapshot.lo < snapshot.hi
    /\ socketOpen' = FALSE
    /\ handler' = "leaving"
    /\ UNCHANGED <<hubVars, snapshot, pump, hand, doneClosed, tabOpen, shown>>

\* Input and resize, through the registry; a session that is no longer
\* registered is an error that is ignored.
HandleMessage ==
    /\ handler = "looping"
    /\ tabOpen /\ socketOpen
    /\ handler' = IF registered THEN "writing" ELSE "looping"
    /\ UNCHANGED <<hubVars, snapshot, pump, hand, doneClosed, socketOpen, tabOpen, shown>>

\* Write blocks while the program in the terminal leaves its input unread.
WriteToPaneReturns ==
    /\ handler = "writing"
    /\ handler' = "looping"
    /\ UNCHANGED <<hubVars, snapshot, pump, hand, doneClosed, socketOpen, tabOpen, shown>>

\* The read fails: signal the pump. The wait for done, which follows, is over
\* at once: it is this step that closes it.
LoopEnds ==
    /\ handler = "looping"
    /\ ~tabOpen \/ ~socketOpen
    /\ doneClosed' = TRUE
    /\ handler' = "leaving"
    /\ UNCHANGED <<hubVars, snapshot, pump, hand, socketOpen, tabOpen, shown>>

\* Deferred: Unsubscribe.
HandlerReturns ==
    /\ handler = "leaving"
    /\ Quit(Tab)
    /\ handler' = "returned"
    /\ UNCHANGED <<snapshot, pump, hand, doneClosed, socketOpen, tabOpen, shown>>

SocketHandler ==
    \/ LookUp \/ SubscribeTab \/ Upgrade \/ SendSnapshot \/ SendSnapshotFails
    \/ HandleMessage \/ WriteToPaneReturns \/ LoopEnds \/ HandlerReturns

-----------------------------------------------------------------------------
(* The output pump: a select over the chunks, the end of the subscription  *)
(* and the channel done, which takes any that is ready.                    *)

SelectChunk ==
    /\ pump = "selecting"
    /\ Dequeue(Tab)
    /\ hand' = Head(queue[Tab])
    /\ pump' = "sending"
    /\ UNCHANGED <<handler, snapshot, doneClosed, socketOpen, tabOpen, shown>>

SelectEnd ==
    /\ pump = "selecting"
    /\ Tab \in closed
    /\ pump' = "announcing"
    /\ UNCHANGED <<hubVars, handler, snapshot, hand, doneClosed, socketOpen, tabOpen, shown>>

SelectDone ==
    /\ pump = "selecting"
    /\ doneClosed
    /\ pump' = "stopping"
    /\ UNCHANGED <<hubVars, handler, snapshot, hand, doneClosed, socketOpen, tabOpen, shown>>

SendChunk ==
    /\ pump = "sending"
    /\ shown' = [shown EXCEPT !.hi = hand.hi]
    /\ hand' = NoChunk
    /\ pump' = "selecting"
    /\ UNCHANGED <<hubVars, handler, snapshot, doneClosed, socketOpen, tabOpen>>

SendChunkFails ==
    /\ pump = "sending"
    /\ ~tabOpen
    /\ hand' = NoChunk
    /\ pump' = "stopping"
    /\ UNCHANGED <<hubVars, handler, snapshot, doneClosed, socketOpen, tabOpen, shown>>

\* The close frame "session ended"; an error is ignored.
SendCloseFrame ==
    /\ pump = "announcing"
    /\ pump' = "stopping"
    /\ UNCHANGED <<hubVars, handler, snapshot, hand, doneClosed, socketOpen, tabOpen, shown>>

\* Deferred: close done (once), ...
PumpClosesDone ==
    /\ pump = "stopping"
    /\ doneClosed' = TRUE
    /\ pump' = "closing"
    /\ UNCHANGED <<hubVars, handler, snapshot, hand, socketOpen, tabOpen, shown>>

\* Mutant: leave the socket to the handler.
PumpKeepsSocket ==
    /\ pump = "closing"
    /\ pump' = "ended"
    /\ UNCHANGED <<hubVars, handler, snapshot, hand, doneClosed, socketOpen, tabOpen, shown>>

\* ... then the socket, which ends the input loop.
PumpClosesSocket ==
    /\ pump = "closing"
    /\ socketOpen' = FALSE
    /\ pump' = "ended"
    /\ UNCHANGED <<hubVars, handler, snapshot, hand, doneClosed, tabOpen, shown>>

SocketPump ==
    \/ SelectChunk \/ SelectEnd \/ SelectDone
    \/ SendChunk \/ SendChunkFails \/ SendCloseFrame
    \/ PumpClosesDone \/ PumpClosesSocket

\* The tab is closed or the connection breaks.
CloseTab ==
    /\ tabOpen
    /\ tabOpen' = FALSE
    /\ UNCHANGED <<hubVars, handler, snapshot, pump, hand, doneClosed, socketOpen, shown>>

SocketNext == SocketHandler \/ SocketPump \/ CloseTab

\* The two goroutines run. So a write to the tab returns: the tab reads what
\* it is sent, or is gone. The program in the terminal reads its input. The
\* pump does not choose for ever to send: the output is finite.
SocketFairness ==
    /\ WF_<<hubVars, socketVars>>(SocketHandler)
    /\ WF_<<hubVars, socketVars>>(SocketPump)

-----------------------------------------------------------------------------

SocketTypeOK ==
    /\ handler \in SocketHandlerStates
    /\ snapshot \in Chunk /\ shown \in Chunk
    /\ pump \in SocketPumpStates
    /\ hand \in Chunk \cup {NoChunk}
    /\ doneClosed \in BOOLEAN /\ socketOpen \in BOOLEAN /\ tabOpen \in BOOLEAN

\* q follows on from byte n, without a hole or a repetition.
FollowsOn(q, n) ==
    /\ q # <<>> => q[1].lo = n
    /\ \A i \in 1..(Len(q) - 1) : q[i].hi = q[i + 1].lo

\* The end of what the tab has, or is being sent.
SentTo ==
    CASE pump = "none" -> snapshot.hi
      [] pump = "sending" -> hand.hi
      [] OTHER -> shown.hi

\* The tab sees one stretch of the output, the scrollback and what follows it,
\* without a hole or a repetition at any boundary: also for output that comes
\* between Subscribe and the start of the pump. While its subscription lives
\* and the pump runs, what it has not seen yet is in its queue.
TabSeesOneStretch ==
    Tab \in live \cup closed =>
        /\ pump \in {"none", "selecting", "sending"} => FollowsOn(queue[Tab], SentTo)
        /\ pump = "sending" => hand.lo = shown.hi
        /\ Tab \in live /\ queue[Tab] = <<>> /\ pump \in {"none", "selecting", "sending"}
             => SentTo = drained

\* When the session has ended, the subscription was dropped or the tab is
\* gone, the handler returns, its pump ends, the subscription is given back
\* and the socket closed.
SocketEnds ==
    (Tab \in closed \/ (~tabOpen /\ handler # "idle"))
        ~> /\ handler = "returned"
           /\ pump \in {"none", "ended"}
           /\ Tab \notin live
           /\ ~socketOpen
=============================================================================
