----------------------------- MODULE PtySession -----------------------------
(***************************************************************************)
(* ptySession (core/infrastructure/terminal/pty_runner.go): a shell on a   *)
(* pseudo-terminal, the goroutine that pumps its output into the output    *)
(* channel, and the goroutines that call Write, Resize and Close.          *)
(*                                                                         *)
(* It implements TerminalStream: see ImplementsStream. The pseudo-terminal *)
(* and the shell are external; they are modelled as the pump and the       *)
(* callers see them: a read returns output or fails once the shell is gone *)
(* or the PTY is closed, and a write blocks while the shell does not read  *)
(* and its input queue is full.                                            *)
(***************************************************************************)
EXTENDS Integers, Sequences

CONSTANTS
    Callers,    \* goroutines that call Write, Resize and Close
    Nobody,     \* writeMu is free
    NoChunk,    \* the pump holds no chunk
    MaxOutput,  \* bound: bytes the shell ever writes
    MaxChunk,   \* size of the read buffer (4096)
    OutCap      \* capacity of the output channel (256)

ASSUME PtyAssumption ==
    /\ MaxOutput \in Nat
    /\ MaxChunk \in Nat \ {0}
    /\ OutCap \in Nat \ {0}
    /\ Nobody \notin Callers

VARIABLES
    emitted, out, outClosed,    \* the output channel, as in TerminalStream
    pump,       \* where the pump goroutine is
    hand,       \* the chunk it has read and not sent
    done,       \* Done() is closed
    shell,      \* the shell process
    stdinFull,  \* the input queue of the PTY is full
    ptyOpen,    \* the PTY has not been closed
    closeKill,  \* the channel that tells the pump to give up is closed
    killOnce,   \* the state of the sync.Once of Close
    writeMu,    \* who holds writeMu
    pc,         \* what each caller is doing
    closedFor   \* the callers to which a Close has returned

streamVars == <<emitted, out, outClosed>>
pumpVars == <<pump, hand, done>>
ptyVars == <<shell, stdinFull, ptyOpen>>
closeVars == <<closeKill, killOnce, closedFor>>
callVars == <<writeMu, pc>>
vars == <<streamVars, pumpVars, ptyVars, closeVars, callVars>>

PumpStates == {"reading", "sending", "finishing", "waiting", "ended"}
CallStates == {"idle", "wantWrite", "writing", "wantResize", "resizing",
               "killing", "joining"}

Init ==
    /\ emitted = 0 /\ out = <<>> /\ outClosed = FALSE
    /\ pump = "reading" /\ hand = NoChunk /\ done = FALSE
    /\ shell = "running" /\ stdinFull = FALSE /\ ptyOpen = TRUE
    /\ closeKill = FALSE /\ killOnce = "unused" /\ closedFor = {}
    /\ writeMu = Nobody
    /\ pc = [t \in Callers |-> "idle"]

-----------------------------------------------------------------------------
(* The shell.                                                              *)

ShellExits ==
    /\ shell = "running"
    /\ shell' = "exited"
    /\ UNCHANGED <<streamVars, pumpVars, stdinFull, ptyOpen, closeVars, callVars>>

ShellReadsInput ==
    /\ shell = "running"
    /\ stdinFull
    /\ stdinFull' = FALSE
    /\ UNCHANGED <<streamVars, pumpVars, shell, ptyOpen, closeVars, callVars>>

-----------------------------------------------------------------------------
(* The pump.                                                               *)

\* Read returns output, also what an exited shell had left behind.
PumpReads(n) ==
    /\ pump = "reading"
    /\ ptyOpen
    /\ shell # "reaped"
    /\ emitted + n <= MaxOutput
    /\ hand' = [lo |-> emitted, hi |-> emitted + n]
    /\ pump' = "sending"
    /\ UNCHANGED <<streamVars, done, ptyVars, closeVars, callVars>>

\* Read fails: the shell is gone or Close closed the PTY.
PumpFails ==
    /\ pump = "reading"
    /\ ~ptyOpen \/ shell = "exited"
    /\ pump' = "finishing"
    /\ UNCHANGED <<streamVars, hand, done, ptyVars, closeVars, callVars>>

\* Mutant: the output channel has no limit.
PumpSendsAlways ==
    /\ pump = "sending"
    /\ out' = Append(out, hand)
    /\ emitted' = hand.hi
    /\ hand' = NoChunk
    /\ pump' = "reading"
    /\ UNCHANGED <<outClosed, done, ptyVars, closeVars, callVars>>

PumpSends ==
    /\ pump = "sending"
    /\ Len(out) < OutCap
    /\ out' = Append(out, hand)
    /\ emitted' = hand.hi
    /\ hand' = NoChunk
    /\ pump' = "reading"
    /\ UNCHANGED <<outClosed, done, ptyVars, closeVars, callVars>>

\* Mutant: drop the chunk and read on.
PumpDropsAndReads ==
    /\ pump = "sending"
    /\ closeKill
    /\ hand' = NoChunk
    /\ emitted' = hand.hi
    /\ pump' = "reading"
    /\ UNCHANGED <<out, outClosed, done, ptyVars, closeVars, callVars>>

\* Mutant: a plain send, with no case for closeKill.
PumpNeverDrops == FALSE /\ UNCHANGED vars

\* The select chose closeKill: drop the chunk and stop.
PumpDrops ==
    /\ pump = "sending"
    /\ closeKill
    /\ hand' = NoChunk
    /\ pump' = "finishing"
    /\ UNCHANGED <<streamVars, done, ptyVars, closeVars, callVars>>

PumpClosesOutput ==
    /\ pump = "finishing"
    /\ outClosed' = TRUE
    /\ pump' = "waiting"
    /\ UNCHANGED <<emitted, out, hand, done, ptyVars, closeVars, callVars>>

\* Mutant: report done without waiting for the process.
PumpSkipsWait ==
    /\ pump = "waiting"
    /\ done' = TRUE
    /\ pump' = "ended"
    /\ UNCHANGED <<streamVars, hand, ptyVars, closeVars, callVars>>

\* cmd.Wait returns when the process has exited; then done is closed.
PumpWaits ==
    /\ pump = "waiting"
    /\ shell # "running"
    /\ shell' = "reaped"
    /\ done' = TRUE
    /\ pump' = "ended"
    /\ UNCHANGED <<streamVars, hand, stdinFull, ptyOpen, closeVars, callVars>>

Pump ==
    \/ \E n \in 1..MaxChunk : PumpReads(n)
    \/ PumpFails
    \/ PumpSends
    \/ PumpDrops
    \/ PumpClosesOutput
    \/ PumpWaits

\* Whoever ranges over Output().
Consume ==
    /\ out # <<>>
    /\ out' = Tail(out)
    /\ UNCHANGED <<emitted, outClosed, pumpVars, ptyVars, closeVars, callVars>>

-----------------------------------------------------------------------------
(* Write and Resize.                                                       *)

Goto(t, state) == pc' = [pc EXCEPT ![t] = state]

CallWrite(t) ==
    /\ pc[t] = "idle"
    /\ Goto(t, "wantWrite")
    /\ UNCHANGED <<streamVars, pumpVars, ptyVars, closeVars, writeMu>>

LockWrite(t) ==
    /\ pc[t] = "wantWrite"
    /\ writeMu = Nobody
    /\ writeMu' = t
    /\ Goto(t, "writing")
    /\ UNCHANGED <<streamVars, pumpVars, ptyVars, closeVars>>

\* The write to the PTY returns, holding writeMu until then. It blocks while
\* the input queue is full and the shell that should read it is alive.
FinishWrite(t) ==
    /\ pc[t] = "writing"
    /\ ~(ptyOpen /\ shell = "running" /\ stdinFull)
    /\ stdinFull' \in IF ptyOpen /\ shell = "running" THEN BOOLEAN ELSE {stdinFull}
    /\ writeMu' = Nobody
    /\ Goto(t, "idle")
    /\ UNCHANGED <<streamVars, pumpVars, shell, ptyOpen, closeVars>>

CallResize(t) ==
    /\ pc[t] = "idle"
    /\ Goto(t, "wantResize")
    /\ UNCHANGED <<streamVars, pumpVars, ptyVars, closeVars, writeMu>>

\* Mutant: resize without looking at closeKill.
LockResizeUnchecked(t) ==
    /\ pc[t] = "wantResize"
    /\ writeMu = Nobody
    /\ writeMu' = t
    /\ Goto(t, "resizing")
    /\ UNCHANGED <<streamVars, pumpVars, ptyVars, closeVars>>

\* Take the lock; if Close was called meanwhile, release it and return.
LockResize(t) ==
    /\ pc[t] = "wantResize"
    /\ writeMu = Nobody
    /\ IF closeKill
       THEN Goto(t, "idle") /\ UNCHANGED writeMu
       ELSE Goto(t, "resizing") /\ writeMu' = t
    /\ UNCHANGED <<streamVars, pumpVars, ptyVars, closeVars>>

FinishResize(t) ==
    /\ pc[t] = "resizing"
    /\ writeMu' = Nobody
    /\ Goto(t, "idle")
    /\ UNCHANGED <<streamVars, pumpVars, ptyVars, closeVars>>

-----------------------------------------------------------------------------
(* Close.                                                                  *)

\* The first caller enters the sync.Once and signals the pump; the others
\* wait for it, or return at once when it has finished.
CallClose(t) ==
    /\ pc[t] = "idle"
    /\ IF killOnce = "unused"
       THEN /\ killOnce' = "running"
            /\ closeKill' = TRUE
            /\ Goto(t, "killing")
       ELSE /\ Goto(t, "joining")
            /\ UNCHANGED <<killOnce, closeKill>>
    /\ UNCHANGED <<streamVars, pumpVars, ptyVars, closedFor, writeMu>>

\* Under writeMu: kill the process and close the PTY.
Kill(t) ==
    /\ pc[t] = "killing"
    /\ writeMu = Nobody
    /\ shell' = IF shell = "running" THEN "exited" ELSE shell
    /\ ptyOpen' = FALSE
    /\ killOnce' = "finished"
    /\ closedFor' = closedFor \cup {t}
    /\ Goto(t, "idle")
    /\ UNCHANGED <<streamVars, pumpVars, stdinFull, closeKill, writeMu>>

Join(t) ==
    /\ pc[t] = "joining"
    /\ killOnce = "finished"
    /\ closedFor' = closedFor \cup {t}
    /\ Goto(t, "idle")
    /\ UNCHANGED <<streamVars, pumpVars, ptyVars, closeKill, killOnce, writeMu>>

-----------------------------------------------------------------------------

Call(t) == CallWrite(t) \/ CallResize(t) \/ CallClose(t)

\* A call that has begun goes on.
Continue(t) ==
    \/ LockWrite(t) \/ FinishWrite(t)
    \/ LockResize(t) \/ FinishResize(t)
    \/ Kill(t) \/ Join(t)

Next ==
    \/ ShellExits
    \/ ShellReadsInput
    \/ Pump
    \/ Consume
    \/ \E t \in Callers : Call(t) \/ Continue(t)

Spec == Init /\ [][Next]_vars

\* The pump runs, and so does every call that is not blocked; a goroutine that
\* waits for writeMu is served in the end (sync.Mutex does not starve). Neither
\* the shell nor the consumer has to do anything.
Fairness ==
    /\ WF_vars(PumpFails) /\ WF_vars(PumpSends \/ PumpDrops)
    /\ WF_vars(PumpClosesOutput) /\ WF_vars(PumpWaits)
    /\ \A t \in Callers :
         /\ SF_vars(LockWrite(t)) /\ SF_vars(LockResize(t)) /\ SF_vars(Kill(t))
         /\ WF_vars(FinishWrite(t) \/ FinishResize(t) \/ Join(t))

FairSpec == Spec /\ Fairness

\* In addition the program in the terminal keeps reading its input.
ReadingSpec == FairSpec /\ WF_vars(ShellReadsInput)

-----------------------------------------------------------------------------

Chunk == [lo : Nat, hi : Nat]

TypeOK ==
    /\ emitted \in Nat
    /\ out \in Seq(Chunk)
    /\ Len(out) <= OutCap
    /\ outClosed \in BOOLEAN
    /\ pump \in PumpStates
    /\ hand \in Chunk \cup {NoChunk}
    /\ done \in BOOLEAN
    /\ shell \in {"running", "exited", "reaped"}
    /\ stdinFull \in BOOLEAN
    /\ ptyOpen \in BOOLEAN
    /\ closeKill \in BOOLEAN
    /\ killOnce \in {"unused", "running", "finished"}
    /\ writeMu \in Callers \cup {Nobody}
    /\ pc \in [Callers -> CallStates]
    /\ closedFor \subseteq Callers

\* What reaches the output channel is the shell's output in order and without
\* a hole, and nothing is sent after the channel is closed (which would
\* panic), also when Close interrupts a blocked send.
Stream == INSTANCE TerminalStream

ImplementsStream == Stream!StreamSpec

\* Resize never touches a PTY that Close has closed.
ResizeOnOpenPty == \A t \in Callers : pc[t] = "resizing" => ptyOpen

\* Whoever Close has returned to can rely on the shell being dead and the PTY
\* closed, also when another goroutine did the work.
CloseReturnsAfterKill == closedFor # {} => ~ptyOpen /\ shell # "running"

\* Both: nobody uses what Close has closed, and nobody is told too early.
CloseIsFinal == ResizeOnOpenPty /\ CloseReturnsAfterKill

\* Done() means: the output channel is closed and the process was waited for,
\* no zombie is left.
DoneIsLast == done => outClosed /\ shell = "reaped"

\* Close ends the session, whatever the pump was doing, and even if nobody
\* receives the output.
CloseTerminates == closeKill ~> done
=============================================================================
