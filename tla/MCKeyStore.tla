----------------------------- MODULE MCKeyStore -----------------------------
(***************************************************************************)
(* KeyStore with two keys that may be let in, comments with any of them on *)
(* a line of its own, three own keys, four calls and three faults.         *)
(***************************************************************************)
EXTENDS KeyStore

AnyComment == SUBSET Keys
=============================================================================
