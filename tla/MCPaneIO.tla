------------------------------ MODULE MCPaneIO ------------------------------
(***************************************************************************)
(* PaneIO with three bytes of output, a subscription channel of one chunk, *)
(* so that a slow client is dropped, a scrollback shorter than the output, *)
(* and a window that shows, hides and shows the pane again.                *)
(***************************************************************************)
EXTENDS PaneIO
=============================================================================
