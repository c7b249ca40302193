--------------------------- MODULE MCPaneSessions ---------------------------
(***************************************************************************)
(* PaneSessions on a workspace of one or two panes.                        *)
(***************************************************************************)
EXTENDS PaneSessions, TLC

CONSTANTS p1, p2

OnePane == <<p1>>
TwoPanes == <<p1, p2>>

Symmetry == Permutations(Callers) \cup Permutations(Sessions)
=============================================================================
