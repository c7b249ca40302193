--------------------------- MODULE MCRemoteSession ---------------------------
(***************************************************************************)
(* RemoteSession with two keys, three bytes of output in frames of one or  *)
(* two, an output channel of one chunk, and a connection that holds one    *)
(* message in each direction and blocks whoever writes a second.           *)
(***************************************************************************)
EXTENDS RemoteSession
=============================================================================
