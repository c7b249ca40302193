--------------------------- MODULE TerminalStream ---------------------------
(***************************************************************************)
(* The contract of port.TerminalSession.Output()                           *)
(* (core/application/port/terminal_runner.go): a bounded channel of output *)
(* chunks that carries the shell's output in order, is closed exactly once *)
(* and carries nothing after it is closed.                                 *)
(*                                                                         *)
(* The payload of the output is abstracted to its position in the stream:  *)
(* the k-th byte the terminal ever sends is the number k, and a chunk is   *)
(* the interval of positions it carries.                                   *)
(***************************************************************************)
EXTENDS Integers, Sequences

CONSTANTS
    MaxOutput,  \* bound: number of bytes a session ever emits
    MaxChunk,   \* bytes a single read can return (4096 for a PTY)
    OutCap      \* capacity of the output channel (256)

ASSUME StreamAssumption ==
    /\ MaxOutput \in Nat
    /\ MaxChunk \in Nat \ {0}
    /\ OutCap \in Nat \ {0}

VARIABLES
    emitted,    \* bytes sent into the output channel so far
    out,        \* the chunks in the channel
    outClosed   \* the channel has been closed

streamVars == <<emitted, out, outClosed>>

\* The chunk that carries the bytes lo+1 .. hi of the stream.
Chunk == [lo : Nat, hi : Nat]

\* The bytes of a chunk, as stream positions.
Bytes(chunk) == [i \in 1..(chunk.hi - chunk.lo) |-> chunk.lo + i]

StreamInit ==
    /\ emitted = 0
    /\ out = <<>>
    /\ outClosed = FALSE

\* The session sends the next n bytes of its output as one chunk. A full
\* channel blocks the sender.
Emit(n) ==
    /\ ~outClosed
    /\ Len(out) < OutCap
    /\ emitted + n <= MaxOutput
    /\ out' = Append(out, [lo |-> emitted, hi |-> emitted + n])
    /\ emitted' = emitted + n
    /\ UNCHANGED outClosed

\* The consumer receives the oldest chunk.
Receive ==
    /\ out # <<>>
    /\ out' = Tail(out)
    /\ UNCHANGED <<emitted, outClosed>>

\* The process exited or Close was called: the channel is closed. The chunks
\* already in it remain receivable.
CloseOutput ==
    /\ ~outClosed
    /\ outClosed' = TRUE
    /\ UNCHANGED <<emitted, out>>

StreamNext ==
    \/ \E n \in 1..MaxChunk : Emit(n)
    \/ Receive
    \/ CloseOutput

StreamSpec == StreamInit /\ [][StreamNext]_streamVars

-----------------------------------------------------------------------------

StreamTypeOK ==
    /\ emitted \in Nat
    /\ out \in Seq(Chunk)
    /\ outClosed \in BOOLEAN
=============================================================================
