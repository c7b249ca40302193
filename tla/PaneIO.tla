------------------------------- MODULE PaneIO -------------------------------
(***************************************************************************)
(* A pane's session together with the client that shows it: a browser tab  *)
(* on its WebSocket, or the desktop window through its bridge. Clients of  *)
(* one session have nothing in common but the hub, which treats each of    *)
(* them as if it were alone (SessionHub), so one kind at a time is enough. *)
(***************************************************************************)
EXTENDS PaneSocket, DesktopBridge

VARIABLE
    client      \* "tab" or "window"

vars == <<hubVars, socketVars, bridgeVars, client>>

Init == HubInit /\ SocketInit /\ BridgeInit /\ client \in {"tab", "window"}

Next ==
    /\ \/ HubNext /\ UNCHANGED <<socketVars, bridgeVars>>
       \/ client = "tab" /\ SocketNext /\ UNCHANGED bridgeVars
       \/ client = "window" /\ BridgeNext /\ UNCHANGED socketVars
    /\ UNCHANGED client

Spec == Init /\ [][Next]_vars

\* Nothing is assumed of the shell, of the registry, of the tab and of the
\* window.
FairSpec ==
    /\ Spec
    /\ client = "tab" => SocketFairness
    /\ client = "window" => BridgeFairness

TypeOK ==
    /\ HubTypeOK
    /\ SocketTypeOK
    /\ BridgeTypeOK
    /\ client \in {"tab", "window"}

\* Whichever client shows the pane, it does not outlive the session: its
\* goroutines end and what they hold is given back.
ClientEnds == SocketEnds /\ BridgeEnds
=============================================================================
