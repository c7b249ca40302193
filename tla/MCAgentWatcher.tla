--------------------------- MODULE MCAgentWatcher ---------------------------
(***************************************************************************)
(* AgentWatcher with one pane, two streams whose channels hold one         *)
(* snapshot, so that they are skipped, and a threshold of one tick.        *)
(***************************************************************************)
EXTENDS AgentWatcher
=============================================================================
