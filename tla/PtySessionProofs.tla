-------------------------- MODULE PtySessionProofs --------------------------
(***************************************************************************)
(* Proofs about PtySession, for any number of callers and any bounds: the  *)
(* type invariant, what Resize, Close and Done promise, and that the       *)
(* session implements TerminalStream.                                      *)
(***************************************************************************)
EXTENDS PtySession, TLAPS

\* The inductive invariant.
Handed ==
    /\ pump = "sending" =>
         /\ hand \in Chunk
         /\ hand.lo = emitted /\ hand.hi > hand.lo /\ hand.hi <= emitted + MaxChunk
         /\ hand.hi <= MaxOutput
    /\ outClosed <=> pump \in {"waiting", "ended"}
    /\ done <=> pump = "ended"
    /\ shell = "reaped" <=> pump = "ended"

Locking ==
    /\ \A t \in Callers : pc[t] \in {"writing", "resizing"} <=> writeMu = t
    /\ ptyOpen <=> killOnce # "finished"
    /\ killOnce = "finished" => shell # "running"
    /\ killOnce = "unused" <=> ~closeKill
    /\ killOnce = "running" => \E t \in Callers : pc[t] = "killing"
    /\ \A t \in Callers : pc[t] = "killing" => killOnce = "running"
    /\ \A t, u \in Callers : pc[t] = "killing" /\ pc[u] = "killing" => t = u
    /\ closedFor # {} => killOnce = "finished"

IInv == TypeOK /\ Handed /\ Locking /\ ResizeOnOpenPty

-----------------------------------------------------------------------------

\* The initial state satisfies the invariant.
LEMMA InitIInv == Init => IInv
<1> SUFFICES ASSUME Init
             PROVE  IInv
  OBVIOUS
<1>1. out \in Seq(Chunk) /\ Len(out) = 0
  BY DEF Init
<1>2. TypeOK
  <2>1. pc \in [Callers -> CallStates]
    BY DEF Init, CallStates
  <2>2. emitted \in Nat /\ Len(out) <= OutCap
    BY <1>1, PtyAssumption DEF Init
  <2> QED
    BY <1>1, <2>1, <2>2 DEF Init, TypeOK, PumpStates
<1>3. Handed /\ Locking /\ ResizeOnOpenPty
  BY PtyAssumption DEF Init, Handed, Locking, ResizeOnOpenPty
<1> QED
  BY <1>2, <1>3 DEF IInv

\* Sending, receiving and the capacity of the output channel.
LEMMA ChannelTypes ==
  ASSUME TypeOK
  PROVE  /\ \A c \in Chunk : Len(out) < OutCap =>
              Append(out, c) \in Seq(Chunk) /\ Len(Append(out, c)) <= OutCap
         /\ out # <<>> => Tail(out) \in Seq(Chunk) /\ Len(Tail(out)) <= OutCap
<1>1. out \in Seq(Chunk) /\ Len(out) \in Nat /\ OutCap \in Nat /\ Len(out) <= OutCap
  BY PtyAssumption DEF TypeOK
<1> QED
  BY <1>1

\* Every step preserves the types.
LEMMA TypeStep == IInv /\ [Next]_vars => TypeOK'
<1> SUFFICES ASSUME IInv, [Next]_vars
             PROVE  TypeOK'
  OBVIOUS
<1> USE DEF Goto
<1>0. TypeOK
  BY DEF IInv
<1>1. CASE ShellExits \/ ShellReadsInput \/ UNCHANGED vars
  BY <1>0, <1>1 DEF ShellExits, ShellReadsInput, TypeOK, vars, streamVars,
      pumpVars, ptyVars, closeVars, callVars
<1>2. CASE Pump
  <2> USE DEF streamVars, pumpVars, ptyVars, closeVars, callVars, PumpStates
  <2>1. ASSUME NEW n \in 1..MaxChunk, PumpReads(n)
        PROVE  TypeOK'
    <3>1. hand' \in Chunk
      BY <1>0, <2>1, PtyAssumption DEF PumpReads, TypeOK, Chunk
    <3> QED
      BY <1>0, <2>1, <3>1 DEF PumpReads, TypeOK
  <2>2. CASE PumpSends
    <3>1. hand \in Chunk /\ hand.hi \in Nat
      BY <2>2 DEF PumpSends, IInv, Handed, Chunk
    <3>2. out' \in Seq(Chunk) /\ Len(out') <= OutCap
      BY <1>0, <2>2, <3>1, ChannelTypes DEF PumpSends
    <3> QED
      BY <1>0, <2>2, <3>1, <3>2 DEF PumpSends, TypeOK
  <2>3. CASE PumpFails \/ PumpDrops \/ PumpClosesOutput \/ PumpWaits
    BY <1>0, <2>3 DEF PumpFails, PumpDrops, PumpClosesOutput, PumpWaits, TypeOK
  <2> QED
    BY <1>2, <2>1, <2>2, <2>3 DEF Pump
<1>3. CASE Consume
  <2>1. out' \in Seq(Chunk) /\ Len(out') <= OutCap
    BY <1>0, <1>3, ChannelTypes DEF Consume
  <2> QED
    BY <1>0, <1>3, <2>1 DEF Consume, TypeOK, pumpVars, ptyVars, closeVars, callVars
<1>4. ASSUME NEW t \in Callers, Call(t) \/ Continue(t)
      PROVE  TypeOK'
  <2> USE DEF streamVars, pumpVars, ptyVars, closeVars, callVars, CallStates
  <2>1. CASE Call(t)
    BY <1>0, <2>1 DEF Call, CallWrite, CallResize, CallClose, TypeOK
  <2>2. CASE LockWrite(t) \/ FinishWrite(t)
    BY <1>0, <2>2 DEF LockWrite, FinishWrite, TypeOK
  <2>3. CASE LockResize(t) \/ FinishResize(t)
    BY <1>0, <2>3 DEF LockResize, FinishResize, TypeOK
  <2>4. CASE Kill(t) \/ Join(t)
    BY <1>0, <2>4 DEF Kill, Join, TypeOK
  <2> QED
    BY <1>4, <2>1, <2>2, <2>3, <2>4 DEF Continue
<1> QED
  BY <1>1, <1>2, <1>3, <1>4 DEF Next

\* Every step preserves what is known of the pump.
LEMMA HandedStep == IInv /\ [Next]_vars => Handed'
<1> SUFFICES ASSUME IInv, [Next]_vars
             PROVE  Handed'
  OBVIOUS
<1>0. TypeOK /\ Handed
  BY DEF IInv
<1> USE DEF Handed, streamVars, pumpVars, ptyVars, closeVars, callVars
<1>1. ASSUME NEW n \in 1..MaxChunk, PumpReads(n)
      PROVE  Handed'
  BY <1>0, <1>1, PtyAssumption DEF PumpReads, TypeOK, Chunk
<1>2. CASE PumpSends \/ PumpFails \/ PumpDrops \/ PumpClosesOutput \/ PumpWaits
  BY <1>0, <1>2 DEF PumpSends, PumpFails, PumpDrops, PumpClosesOutput, PumpWaits
<1>3. CASE ShellExits \/ ShellReadsInput \/ Consume \/ UNCHANGED vars
  BY <1>0, <1>3 DEF ShellExits, ShellReadsInput, Consume, vars
<1>4. ASSUME NEW t \in Callers, Call(t) \/ Continue(t)
      PROVE  Handed'
  BY <1>0, <1>4 DEF Call, Continue, CallWrite, CallResize, CallClose, LockWrite,
      FinishWrite, LockResize, FinishResize, Kill, Join
<1> QED
  BY <1>1, <1>2, <1>3, <1>4 DEF Next, Pump

\* Every step preserves what is known of the lock and of Close.
LEMMA LockingStep == IInv /\ [Next]_vars => Locking' /\ ResizeOnOpenPty'
<1> SUFFICES ASSUME IInv, [Next]_vars
             PROVE  Locking' /\ ResizeOnOpenPty'
  OBVIOUS
<1>0. TypeOK /\ Locking /\ ResizeOnOpenPty
  BY DEF IInv
<1> USE DEF Locking, ResizeOnOpenPty, streamVars, pumpVars, ptyVars, closeVars, callVars
<1>1. CASE ShellExits \/ ShellReadsInput \/ Consume \/ Pump \/ UNCHANGED vars
  BY <1>0, <1>1 DEF ShellExits, ShellReadsInput, Consume, Pump, PumpReads, PumpSends,
      PumpFails, PumpDrops, PumpClosesOutput, PumpWaits, vars
<1>2. ASSUME NEW t \in Callers, Call(t) \/ Continue(t)
      PROVE  Locking' /\ ResizeOnOpenPty'
  <2> USE DEF TypeOK, Goto
  <2>1. CASE CallWrite(t) \/ CallResize(t)
    BY <1>0, <2>1, PtyAssumption DEF CallWrite, CallResize
  <2>2. CASE CallClose(t)
    BY <1>0, <2>2, PtyAssumption DEF CallClose
  <2>3. CASE LockWrite(t) \/ LockResize(t)
    BY <1>0, <2>3, PtyAssumption DEF LockWrite, LockResize
  <2>4. CASE FinishWrite(t) \/ FinishResize(t)
    BY <1>0, <2>4, PtyAssumption DEF FinishWrite, FinishResize
  <2>5. CASE Kill(t)
    <3>1. \A u \in Callers : pc[u] \notin {"writing", "resizing"}
      BY <1>0, <2>5, PtyAssumption DEF Kill
    <3>2. \A u \in Callers : u # t => pc[u] # "killing"
      BY <1>0, <2>5 DEF Kill
    <3> QED
      BY <1>0, <2>5, <3>1, <3>2, PtyAssumption DEF Kill
  <2>6. CASE Join(t)
    BY <1>0, <2>6, PtyAssumption DEF Join
  <2> QED
    BY <1>2, <2>1, <2>2, <2>3, <2>4, <2>5, <2>6 DEF Call, Continue
<1> QED
  BY <1>1, <1>2 DEF Next

\* The invariant holds in every reachable state.
THEOREM Invariance == Spec => []IInv
<1>1. IInv /\ [Next]_vars => IInv'
  BY TypeStep, HandedStep, LockingStep DEF IInv
<1> QED
  BY InitIInv, <1>1, PTL DEF Spec

\* Every variable keeps its type, and the output channel its capacity.
THEOREM TypeCorrect == Spec => []TypeOK
<1>1. IInv => TypeOK
  BY DEF IInv
<1> QED
  BY <1>1, Invariance, PTL

\* Resize never touches a closed PTY, however it races with Close.
THEOREM ResizeCorrect == Spec => []ResizeOnOpenPty
<1>1. IInv => ResizeOnOpenPty
  BY DEF IInv
<1> QED
  BY <1>1, Invariance, PTL

\* When a Close has returned, to whichever of several concurrent callers, the
\* shell is dead and the PTY closed.
THEOREM CloseCorrect == Spec => []CloseReturnsAfterKill
<1>1. IInv => CloseReturnsAfterKill
  BY DEF IInv, Locking, CloseReturnsAfterKill
<1> QED
  BY <1>1, Invariance, PTL

\* The two together: what Close has closed stays closed, for everybody.
THEOREM CloseFinal == Spec => []CloseIsFinal
<1>1. ResizeOnOpenPty /\ CloseReturnsAfterKill => CloseIsFinal
  BY DEF CloseIsFinal
<1> QED
  BY <1>1, ResizeCorrect, CloseCorrect, PTL

\* Done() comes last: after the output channel and after the process.
THEOREM DoneCorrect == Spec => []DoneIsLast
<1>1. IInv => DoneIsLast
  BY DEF IInv, Handed, DoneIsLast
<1> QED
  BY <1>1, Invariance, PTL

\* A PTY session implements the contract of port.TerminalSession.Output().
THEOREM PtyImplementsStream == Spec => ImplementsStream
<1> USE DEF Stream!streamVars
<1>1. Init => Stream!StreamInit
  BY DEF Init, Stream!StreamInit
<1>2. IInv /\ [Next]_vars => [Stream!StreamNext]_(Stream!streamVars)
  <2> SUFFICES ASSUME IInv, [Next]_vars
               PROVE  Stream!StreamNext \/ UNCHANGED <<emitted, out, outClosed>>
    OBVIOUS
  <2>1. CASE PumpSends
    <3> DEFINE n == hand.hi - emitted
    <3>1. hand \in Chunk /\ hand.lo = emitted /\ hand.hi > hand.lo
          /\ hand.hi <= emitted + MaxChunk /\ hand.hi <= MaxOutput /\ ~outClosed
      BY <2>1 DEF PumpSends, IInv, Handed, TypeOK
    <3>2. n \in 1..MaxChunk /\ emitted + n = hand.hi
      BY <3>1, PtyAssumption DEF Chunk, IInv, TypeOK
    <3>3. hand = [lo |-> emitted, hi |-> emitted + n]
      BY <3>1, <3>2 DEF Chunk
    <3> HIDE DEF n
    <3>4. Stream!Emit(n)
      BY <2>1, <3>1, <3>2, <3>3 DEF PumpSends, Stream!Emit
    <3> QED
      BY <3>2, <3>4 DEF Stream!StreamNext
  <2>2. CASE Consume
    BY <2>2 DEF Consume, Stream!StreamNext, Stream!Receive
  <2>3. CASE PumpClosesOutput
    BY <2>3 DEF PumpClosesOutput, IInv, Handed, TypeOK, Stream!StreamNext, Stream!CloseOutput
  <2>4. ASSUME NEW n \in 1..MaxChunk, PumpReads(n)
        PROVE  UNCHANGED <<emitted, out, outClosed>>
    BY <2>4 DEF PumpReads, streamVars
  <2>5. CASE \/ ShellExits \/ ShellReadsInput \/ PumpFails \/ PumpDrops
             \/ PumpWaits \/ UNCHANGED vars
    BY <2>5 DEF ShellExits, ShellReadsInput, PumpFails, PumpDrops, PumpWaits, vars, streamVars
  <2>6. ASSUME NEW t \in Callers, Call(t) \/ Continue(t)
        PROVE  UNCHANGED <<emitted, out, outClosed>>
    BY <2>6 DEF Call, Continue, CallWrite, CallResize, CallClose, LockWrite,
        FinishWrite, LockResize, FinishResize, Kill, Join, streamVars
  <2> QED
    BY <2>1, <2>2, <2>3, <2>4, <2>5, <2>6 DEF Next, Pump
<1> QED
  BY <1>1, <1>2, Invariance, PTL DEF Spec, ImplementsStream, Stream!StreamSpec
=============================================================================
