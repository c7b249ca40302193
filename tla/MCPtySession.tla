---------------------------- MODULE MCPtySession ----------------------------
(***************************************************************************)
(* PtySession with two callers, a few bytes of output and an output        *)
(* channel of two chunks, which fills up.                                  *)
(***************************************************************************)
EXTENDS PtySession
=============================================================================
