-------------------------- MODULE MCWorkspaceStore --------------------------
(***************************************************************************)
(* WorkspaceStore with a few panes and names.                              *)
(***************************************************************************)
EXTENDS WorkspaceStore, TLC

Symmetry == Permutations(Callers) \cup Permutations(PaneIds) \cup Permutations(Names)
=============================================================================
