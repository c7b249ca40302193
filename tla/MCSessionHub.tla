---------------------------- MODULE MCSessionHub ----------------------------
(***************************************************************************)
(* SessionHub with a handful of bytes and buffers of two or three: every   *)
(* client can fall behind, and the scrollback forgets.                     *)
(***************************************************************************)
EXTENDS SessionHub
=============================================================================
