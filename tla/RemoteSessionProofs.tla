------------------------ MODULE RemoteSessionProofs ------------------------
(***************************************************************************)
(* Theorems about RemoteSession, for any keys, any amount of output, any   *)
(* size of frames and any capacity of the channel and of the connection.   *)
(***************************************************************************)
EXTENDS RemoteSession, SequenceTheorems, TLAPS

\* Client and far end advance together: there is a handler once the client
\* has connected, and the pumps run once a shell was started.
Stages ==
    /\ start \in {"idle", "dialing"} => handler = "none"
    /\ start \in {"challenge", "ack", "returned"} => handler # "none"
    /\ start = "challenge" => transport = "ws"
    /\ transport = "ws" /\ start \in {"dialing", "challenge"} => key \in Keys
    /\ pump # "none" => start = "returned"
    /\ outClosed <=> pump \in {"waiting", "ended"}
    /\ handler \in {"none", "auth", "start", "starting"} => shell = "none"
    /\ shell = "none" => serverPump = "none"

\* In the handshake the client waits for each message before it sends the
\* next, and answers with its own key.
Handshake ==
    /\ handler = "none" => up = <<>> /\ down = <<>>
    /\ start = "challenge" => /\ up = <<>> /\ Len(down) <= 1
                              /\ handler \in {"auth", "returning", "leaving", "gone"}
                              /\ shell = "none"
    /\ handler = "auth" /\ start # "challenge" => down = <<>>
    /\ \A i \in 1..Len(up) : up[i].type = "auth" => up[i].key = key

\* The keys seen on the list include those that are on it, while the client's
\* key is awaited, and the client's key, once the handler accepted it.
Accepted ==
    /\ handler = "auth" => authorized \subseteq listed
    /\ transport = "ws" /\ (handler \in {"start", "starting", "loop", "writing"}
                              \/ shell # "none")
         => key \in listed

\* A chunk that one frame can carry.
Frame(chunk) ==
    /\ chunk \in Chunk
    /\ chunk.hi <= MaxOutput
    /\ \E n \in 1..MaxChunk : chunk.hi = chunk.lo + n

\* The messages q carry the bytes from + 1 .. to, in order: some function
\* says how far the output has come before each of them.
Carries(q, from, to) ==
    \E f \in [1..(Len(q) + 1) -> Nat] :
        /\ f[1] = from /\ f[Len(q) + 1] = to
        /\ \A i \in 1..Len(q) :
              IF q[i].type = "output"
              THEN f[i] = q[i].chunk.lo /\ f[i + 1] = q[i].chunk.hi
              ELSE f[i + 1] = f[i]

\* How far the output has come at the client's pump, and at the far end's.
ClientHas == IF pump = "sending" THEN hand.hi ELSE emitted
ServerSent == IF serverPump = "writing" THEN held.lo ELSE produced

\* The chunks the pumps hold are the next bytes of the output.
Holding ==
    /\ pump = "none" => emitted = 0
    /\ serverPump = "none" => produced = 0
    /\ pump = "sending" => Frame(hand) /\ hand.lo = emitted
    /\ serverPump = "writing" => Frame(held) /\ held.hi = produced

\* Only the end of the output is ever lost, and only with the connection.
InTransit ==
    /\ \A i \in 1..Len(down) : down[i].type = "output" => Frame(down[i].chunk)
    /\ \E to \in Nat : /\ Carries(down, ClientHas, to)
                       /\ Connected => to = ServerSent

IInv == TypeOK /\ Stages /\ Handshake /\ Accepted /\ Holding /\ InTransit

-----------------------------------------------------------------------------
(* Lemmas about queues of messages.                                        *)

LEMMA EmptyQueue ==
  ASSUME NEW S
  PROVE  <<>> \in Seq(S) /\ Len(<<>>) = 0
OBVIOUS

LEMMA TakenQueue ==
  ASSUME NEW S, NEW q \in Seq(S), q # <<>>
  PROVE  /\ Len(q) \in Nat \ {0} /\ 1 \in 1..Len(q)
         /\ Head(q) = q[1] /\ Head(q) \in S
         /\ Tail(q) \in Seq(S) /\ Len(Tail(q)) = Len(q) - 1
         /\ \A i \in 1..Len(Tail(q)) : i + 1 \in 1..Len(q) /\ Tail(q)[i] = q[i + 1]
<1>1. Len(q) \in Nat \ {0}
  BY EmptySeq
<1>2. Tail(q) \in Seq(S) /\ Len(Tail(q)) = Len(q) - 1 /\ Head(q) = q[1]
  OBVIOUS
<1>3. \A i \in 1..Len(Tail(q)) : Tail(q)[i] = q[i + 1]
  OBVIOUS
<1>4. 1 \in 1..Len(q) /\ q[1] \in S
  BY <1>1
<1>5. \A i \in 1..Len(Tail(q)) : i + 1 \in 1..Len(q)
  BY <1>1, <1>2
<1> QED
  BY <1>1, <1>2, <1>3, <1>4, <1>5

LEMMA SentQueue ==
  ASSUME NEW S, NEW q \in Seq(S), NEW m \in S
  PROVE  /\ Len(q) \in Nat
         /\ Append(q, m) \in Seq(S) /\ Len(Append(q, m)) = Len(q) + 1
         /\ \A i \in 1..Len(q) : Append(q, m)[i] = q[i]
         /\ Append(q, m)[Len(q) + 1] = m
OBVIOUS

LEMMA KeptQueue ==
  ASSUME NEW S, NEW q \in Seq(S), NEW r \in Kept(q)
  PROVE  /\ r \in Seq(S) /\ Len(r) \in Nat /\ Len(q) \in Nat /\ Len(r) <= Len(q)
         /\ \A i \in 1..Len(r) : i \in 1..Len(q) /\ r[i] = q[i]
<1>1. PICK n \in 0..Len(q) : r = SubSeq(q, 1, n)
  BY DEF Kept
<1>2. Len(q) \in Nat /\ n \in Nat /\ n <= Len(q)
  BY <1>1
<1>3. \A i \in 1..n : i \in 1..Len(q) /\ q[i] \in S
  BY <1>2
<1>4. r = [i \in 1..n |-> q[i]]
  BY <1>1, <1>2
<1>5. r \in Seq(S) /\ Len(r) = n
  BY <1>2, <1>3, <1>4
<1> QED
  BY <1>2, <1>3, <1>4, <1>5

\* What closing a socket leaves of the messages to the other end.
LEMMA ClosedQueue ==
  ASSUME NEW S, NEW q \in Seq(S), NEW mine, NEW r \in AfterClose(mine, q)
  PROVE  /\ r \in Seq(S) /\ Len(r) \in Nat /\ Len(q) \in Nat /\ Len(r) <= Len(q)
         /\ \A i \in 1..Len(r) : i \in 1..Len(q) /\ r[i] = q[i]
<1>1. CASE r = q
  BY <1>1
<1>2. CASE r \in Kept(q)
  BY <1>2, KeptQueue
<1> QED
  BY <1>1, <1>2 DEF AfterClose

-----------------------------------------------------------------------------
(* Lemmas about the output that messages carry.                            *)

LEMMA NoMessagesCarry ==
  ASSUME NEW n \in Nat
  PROVE  Carries(<<>>, n, n)
<1> DEFINE f == [i \in 1..1 |-> n]
<1>1. Len(<<>>) = 0 /\ f \in [1..(0 + 1) -> Nat] /\ f[1] = n /\ f[0 + 1] = n
  OBVIOUS
<1>2. \A i \in 1..0 : FALSE
  OBVIOUS
<1> HIDE DEF f
<1> QED
  BY <1>1, <1>2 DEF Carries

\* A message that was sent comes last.
LEMMA SentCarries ==
  ASSUME NEW S, NEW q \in Seq(S), NEW m \in S, NEW from, NEW to \in Nat, NEW n \in Nat,
         Carries(q, from, to),
         IF m.type = "output" THEN to = m.chunk.lo /\ n = m.chunk.hi ELSE n = to
  PROVE  Carries(Append(q, m), from, n)
<1>1. PICK f \in [1..(Len(q) + 1) -> Nat] :
        /\ f[1] = from /\ f[Len(q) + 1] = to
        /\ \A i \in 1..Len(q) : IF q[i].type = "output"
                                THEN f[i] = q[i].chunk.lo /\ f[i + 1] = q[i].chunk.hi
                                ELSE f[i + 1] = f[i]
  BY DEF Carries
<1> DEFINE a == Append(q, m)
           g == [i \in 1..(Len(a) + 1) |-> IF i = Len(a) + 1 THEN n ELSE f[i]]
<1>2. /\ Len(q) \in Nat /\ Len(a) = Len(q) + 1
      /\ \A i \in 1..Len(q) : a[i] = q[i]
      /\ a[Len(q) + 1] = m
  BY SentQueue
<1> HIDE DEF a
<1>3. g \in [1..(Len(a) + 1) -> Nat]
  BY <1>1, <1>2
<1>4. /\ \A i \in 1..Len(a) : g[i] = f[i]
      /\ g[Len(a) + 1] = n
  BY <1>2
<1> HIDE DEF g
<1>5. g[1] = from
  BY <1>1, <1>2, <1>4
<1>6. ASSUME NEW i \in 1..Len(a)
      PROVE  IF a[i].type = "output"
             THEN g[i] = a[i].chunk.lo /\ g[i + 1] = a[i].chunk.hi
             ELSE g[i + 1] = g[i]
  <2>1. CASE i = Len(a)
    <3>1. a[i] = m /\ g[i] = to /\ g[i + 1] = n
      BY <1>1, <1>2, <1>4, <2>1
    <3> QED
      BY <3>1
  <2>2. CASE i # Len(a)
    <3>1. i \in 1..Len(q) /\ i + 1 \in 1..Len(a)
      BY <1>2, <2>2
    <3>2. a[i] = q[i] /\ g[i] = f[i] /\ g[i + 1] = f[i + 1]
      BY <1>2, <1>4, <3>1
    <3> QED
      BY <1>1, <3>1, <3>2
  <2> QED
    BY <2>1, <2>2
<1> QED
  BY <1>3, <1>4, <1>5, <1>6 DEF Carries, a

\* A message that is taken leaves the rest.
LEMMA TakenCarries ==
  ASSUME NEW S, NEW q \in Seq(S), q # <<>>, NEW from, NEW to,
         Carries(q, from, to)
  PROVE  IF Head(q).type = "output"
         THEN from = Head(q).chunk.lo /\ Carries(Tail(q), Head(q).chunk.hi, to)
         ELSE Carries(Tail(q), from, to)
<1>1. PICK f \in [1..(Len(q) + 1) -> Nat] :
        /\ f[1] = from /\ f[Len(q) + 1] = to
        /\ \A i \in 1..Len(q) : IF q[i].type = "output"
                                THEN f[i] = q[i].chunk.lo /\ f[i + 1] = q[i].chunk.hi
                                ELSE f[i + 1] = f[i]
  BY DEF Carries
<1> DEFINE t == Tail(q)
           g == [i \in 1..(Len(t) + 1) |-> f[i + 1]]
<1>2. /\ Len(q) \in Nat \ {0} /\ 1 \in 1..Len(q) /\ Head(q) = q[1]
      /\ Len(t) = Len(q) - 1
      /\ \A i \in 1..Len(t) : i + 1 \in 1..Len(q) /\ t[i] = q[i + 1]
  BY TakenQueue
<1> HIDE DEF t
<1>3. g \in [1..(Len(t) + 1) -> Nat]
  BY <1>1, <1>2
<1>4. /\ \A i \in 1..(Len(t) + 1) : g[i] = f[i + 1]
      /\ g[1] = f[2] /\ g[Len(t) + 1] = to
  BY <1>1, <1>2
<1> HIDE DEF g
<1>5. ASSUME NEW i \in 1..Len(t)
      PROVE  IF t[i].type = "output"
             THEN g[i] = t[i].chunk.lo /\ g[i + 1] = t[i].chunk.hi
             ELSE g[i + 1] = g[i]
  <2>1. i \in 1..(Len(t) + 1) /\ i + 1 \in 1..(Len(t) + 1)
    BY <1>2
  <2>2. t[i] = q[i + 1] /\ g[i] = f[i + 1] /\ g[i + 1] = f[(i + 1) + 1] /\ i + 1 \in 1..Len(q)
    BY <1>2, <1>4, <2>1
  <2> QED
    BY <1>1, <2>2
<1>6. Carries(t, f[2], to)
  BY <1>3, <1>4, <1>5 DEF Carries
<1>7. IF q[1].type = "output"
      THEN f[1] = q[1].chunk.lo /\ f[2] = q[1].chunk.hi
      ELSE f[2] = f[1]
  BY <1>1, <1>2
<1> QED
  BY <1>1, <1>2, <1>6, <1>7 DEF t

\* What is left when the end is lost.
LEMMA KeptCarries ==
  ASSUME NEW S, NEW q \in Seq(S), NEW r \in Kept(q) \cup {q}, NEW from,
         \E to \in Nat : Carries(q, from, to)
  PROVE  \E to \in Nat : Carries(r, from, to)
<1>1. CASE r = q
  BY <1>1
<1>2. CASE r \in Kept(q)
  <2>1. PICK f \in [1..(Len(q) + 1) -> Nat] :
          /\ f[1] = from
          /\ \A i \in 1..Len(q) : IF q[i].type = "output"
                                  THEN f[i] = q[i].chunk.lo /\ f[i + 1] = q[i].chunk.hi
                                  ELSE f[i + 1] = f[i]
    BY DEF Carries
  <2>2. /\ Len(r) \in Nat /\ Len(q) \in Nat /\ Len(r) <= Len(q)
        /\ \A i \in 1..Len(r) : i \in 1..Len(q) /\ r[i] = q[i]
    BY <1>2, KeptQueue
  <2> DEFINE g == [i \in 1..(Len(r) + 1) |-> f[i]]
  <2>3. g \in [1..(Len(r) + 1) -> Nat] /\ g[1] = from /\ g[Len(r) + 1] \in Nat
    BY <2>1, <2>2
  <2>4. \A i \in 1..Len(r) : g[i] = f[i] /\ g[i + 1] = f[i + 1]
    BY <2>2
  <2> HIDE DEF g
  <2>5. \A i \in 1..Len(r) : IF r[i].type = "output"
                             THEN g[i] = r[i].chunk.lo /\ g[i + 1] = r[i].chunk.hi
                             ELSE g[i + 1] = g[i]
    BY <2>1, <2>2, <2>4
  <2> QED
    BY <2>3, <2>5 DEF Carries
<1> QED
  BY <1>1, <1>2

-----------------------------------------------------------------------------
(* The initial states.                                                     *)

LEMMA InitIInv == Init => IInv
<1> SUFFICES ASSUME Init
             PROVE  IInv
  OBVIOUS
<1> USE DEF Init
<1>1. TypeOK
  <2>1. 0 <= OutCap /\ 0 <= NetCap
    BY RemoteAssumption
  <2>2. /\ out \in Seq(Chunk) /\ Len(out) <= OutCap
        /\ up \in Seq(UpMessage)
        /\ down \in Seq(DownMessage) /\ Len(down) <= NetCap
    BY <2>1
  <2> QED
    BY <2>2 DEF TypeOK, StartStates, PumpStates, HandlerStates, ServerPumpStates
<1>2. Stages /\ Accepted
  BY DEF Stages, Accepted
<1>3. Handshake
  BY DEF Handshake
<1>4. Holding
  BY DEF Holding
<1>5. InTransit
  <2>1. ClientHas = 0 /\ ServerSent = 0 /\ 0 \in Nat
    BY DEF ClientHas, ServerSent
  <2>2. Carries(down, 0, 0)
    BY NoMessagesCarry
  <2>3. \A i \in 1..Len(down) : FALSE
    OBVIOUS
  <2> QED
    BY <2>1, <2>2, <2>3 DEF InTransit
<1> QED
  BY <1>1, <1>2, <1>3, <1>4, <1>5 DEF IInv

-----------------------------------------------------------------------------
(* What a step may do to the messages in flight.                           *)

LEMMA Messages ==
    /\ \A t \in {"start", "input", "resize"} :
          Control(t) \in UpMessage /\ Control(t).type = t
    /\ \A k \in Keys : Auth(k) \in UpMessage /\ Auth(k).key = k
    /\ \A t \in {"challenge", "started", "error", "exit"} :
          Control(t) \in DownMessage /\ Control(t).type = t
    /\ \A c \in Chunk : /\ Output(c) \in DownMessage
                        /\ Output(c).type = "output" /\ Output(c).chunk = c
    /\ \A m \in DownMessage : m.type = "output" => m.chunk \in Chunk
BY DEF Control, Auth, Output, UpMessage, DownMessage

UpStep ==
    \/ up' \in Kept(up) \cup {up, <<>>}
    \/ up # <<>> /\ up' = Tail(up)
    \/ start = "returned" /\ \E t \in {"input", "resize"} : up' = Append(up, Control(t))
    \/ /\ start = "challenge" /\ start' # "challenge"
       /\ up = <<>> /\ up' = up \o <<Auth(key), Control("start")>>

DownStep ==
    \/ down' \in Kept(down) \cup {down, <<>>}
    \/ down # <<>> /\ down' = Tail(down)
    \/ /\ start = "dialing" /\ handler' = "auth" /\ start' = "challenge"
       /\ down' = <<Control("challenge")>>
    \/ /\ handler \notin {"none", "auth"} /\ start # "challenge" /\ Len(down) < NetCap
       /\ \E m \in DownMessage : down' = Append(down, m)
    \/ handler = "auth" /\ handler' # "auth" /\ start # "challenge" /\ down = <<>>
       /\ down' = Append(down, Control("error"))

LEMMA CloseSteps ==
  ASSUME TypeOK, CloseClientEnd \/ CloseServerEnd
  PROVE  UpStep /\ DownStep
BY DEF CloseClientEnd, CloseServerEnd, AfterClose, UpStep, DownStep

LEMMA NetSteps ==
  ASSUME TypeOK, Stages, Handshake, Holding, Next
  PROVE  UpStep /\ DownStep
<1> USE DEF netVars
<1>1. ASSUME \/ BeginStart \/ DialFails \/ PumpSends \/ PumpClosesOutput \/ Consume
             \/ EditAuthorized \/ HandshakeEnds \/ StartShellForNobody \/ WriteReturns
             \/ LoopEnds \/ HandlerClosesSession \/ ShellExits \/ ShellReadsInput
      PROVE  UpStep /\ DownStep
  <2>1. UNCHANGED <<up, down>>
    BY <1>1 DEF BeginStart, DialFails, PumpSends, PumpClosesOutput, Consume,
       EditAuthorized, HandshakeEnds, StartShellForNobody, WriteReturns, LoopEnds,
       HandlerClosesSession, ShellExits, ShellReadsInput
  <2> QED
    BY <2>1 DEF UpStep, DownStep
<1>2. ASSUME NEW n \in 1..MaxChunk, TakeOutput(n)
      PROVE  UpStep /\ DownStep
  BY <1>2 DEF TakeOutput, UpStep, DownStep
<1>3. ASSUME WriteOutputFails \/ ServerPumpClosesSession \/ OutputEnds
      PROVE  UpStep /\ DownStep
  BY <1>3 DEF WriteOutputFails, ServerPumpClosesSession, OutputEnds, UpStep, DownStep
<1>4. ASSUME StartFails \/ Close \/ PumpFails \/ PumpEnds
             \/ HandlerClosesConnection \/ ServerPumpClosesConnection
      PROVE  UpStep /\ DownStep
  <2>1. CloseClientEnd \/ CloseServerEnd \/ UNCHANGED <<up, down>>
    BY <1>4 DEF StartFails, Close, PumpFails, PumpEnds, HandlerClosesConnection,
       ServerPumpClosesConnection
  <2> QED
    BY <2>1, CloseSteps DEF UpStep, DownStep
<1>5. CASE DialWs \/ DialSsh
  BY <1>5 DEF DialWs, DialSsh, UpStep, DownStep
<1>6. CASE AnswerChallenge
  BY <1>6 DEF AnswerChallenge, ClientReads, Handshake, UpStep, DownStep
<1>7. ASSUME ReadAck \/ PumpReads \/ PumpReadsExit
      PROVE  UpStep /\ DownStep
  BY <1>7 DEF ReadAck, PumpReads, PumpReadsExit, ClientReads, UpStep, DownStep
<1>8. CASE SendInput
  BY <1>8 DEF SendInput, UpStep, DownStep
<1>9. CASE Authenticate
  <2>1. up # <<>> /\ up' = Tail(up) /\ handler = "auth" /\ handler' # "auth"
    BY <1>9 DEF Authenticate, ServerReads
  <2>2. start # "challenge" /\ down = <<>>
    BY <2>1 DEF Handshake
  <2>3. down' = down \/ down' = Append(down, Control("error"))
    BY <1>9 DEF Authenticate
  <2> QED
    BY <2>1, <2>2, <2>3 DEF UpStep, DownStep
<1>10. ASSUME ReadStart \/ HandleInput
       PROVE  UpStep /\ DownStep
  BY <1>10 DEF ReadStart, HandleInput, ServerReads, UpStep, DownStep
<1>11. ASSUME StartShell \/ StartShellFails \/ WriteOutput \/ AnnounceExit
       PROVE  UpStep /\ DownStep
  <2>1. PICK m \in DownMessage : ServerWrites(m)
    <3>1. CASE WriteOutput
      <4>1. held \in Chunk
        BY <3>1 DEF WriteOutput, Holding, Frame
      <4> QED
        BY <1>11, <3>1, <4>1, Messages DEF WriteOutput
    <3>2. CASE StartShell \/ StartShellFails \/ AnnounceExit
      BY <1>11, <3>2, Messages DEF StartShell, StartShellFails, AnnounceExit
    <3> QED
      BY <1>11, <3>1, <3>2
  <2>2. handler \notin {"none", "auth"} /\ start # "challenge"
    BY <1>11 DEF StartShell, StartShellFails, WriteOutput, AnnounceExit, Stages, Handshake
  <2>3. up' = up /\ (down' = down \/ (Len(down) < NetCap /\ down' = Append(down, m)))
    BY <2>1 DEF ServerWrites, Connected
  <2> QED
    BY <2>2, <2>3 DEF UpStep, DownStep
<1>12. CASE Break
  BY <1>12 DEF Break, UpStep, DownStep
<1> QED
  BY <1>1, <1>2, <1>3, <1>4, <1>5, <1>6, <1>7, <1>8, <1>9, <1>10, <1>11, <1>12
  DEF Next, Start, Pump, Handle, ServerPump

-----------------------------------------------------------------------------
(* Types.                                                                  *)

NetType ==
    /\ up \in Seq(UpMessage)
    /\ down \in Seq(DownMessage) /\ Len(down) <= NetCap

OutType ==
    /\ out \in Seq(Chunk) /\ Len(out) <= OutCap
    /\ emitted \in Nat /\ produced \in Nat
    /\ hand \in Chunk \cup {NoChunk} /\ held \in Chunk \cup {NoChunk}

StateType ==
    /\ transport \in Transports
    /\ start \in StartStates
    /\ key \in Keys \cup {NoKey}
    /\ pump \in PumpStates
    /\ outClosed \in BOOLEAN /\ done \in BOOLEAN
    /\ cut \in BOOLEAN /\ clientOpen \in BOOLEAN /\ serverOpen \in BOOLEAN
    /\ authorized \subseteq Keys /\ listed \subseteq Keys
    /\ handler \in HandlerStates
    /\ serverPump \in ServerPumpStates
    /\ shell \in {"none", "running", "exited"}
    /\ stdinFull \in BOOLEAN

LEMMA TypeParts == TypeOK <=> NetType /\ OutType /\ StateType
BY DEF TypeOK, NetType, OutType, StateType

LEMMA NetTypeStep ==
  ASSUME NetType, StateType, Stages, Handshake, UpStep, DownStep
  PROVE  NetType'
<1> USE DEF NetType
<1>1. NetCap \in Nat \ {0} /\ Len(down) \in Nat
  BY RemoteAssumption
<1>2. up' \in Seq(UpMessage)
  <2>1. CASE up' \in Kept(up) \cup {up, <<>>}
    BY <2>1, KeptQueue, EmptyQueue
  <2>2. CASE up # <<>> /\ up' = Tail(up)
    BY <2>2, TakenQueue
  <2>3. ASSUME NEW t \in {"input", "resize"}, up' = Append(up, Control(t))
        PROVE  up' \in Seq(UpMessage)
    <3>1. Control(t) \in UpMessage
      BY Messages
    <3> QED
      BY <2>3, <3>1, SentQueue
  <2>4. CASE start = "challenge" /\ up = <<>> /\ up' = up \o <<Auth(key), Control("start")>>
    <3>1. Auth(key) \in UpMessage /\ Control("start") \in UpMessage
      BY <2>4, Messages DEF Stages
    <3> QED
      BY <2>4, <3>1
  <2> QED
    BY <2>1, <2>2, <2>3, <2>4 DEF UpStep
<1>3. down' \in Seq(DownMessage) /\ Len(down') <= NetCap
  <2>1. CASE down' \in Kept(down) \cup {down, <<>>}
    <3>1. \A r \in Kept(down) : r \in Seq(DownMessage) /\ Len(r) \in Nat /\ Len(r) <= Len(down)
      BY KeptQueue
    <3>2. <<>> \in Seq(DownMessage) /\ Len(<<>>) = 0
      OBVIOUS
    <3>3. CASE down' \in Kept(down)
      BY <1>1, <3>1, <3>3
    <3>4. CASE down' = <<>>
      BY <1>1, <3>2, <3>4
    <3> QED
      BY <2>1, <3>3, <3>4
  <2>2. CASE down # <<>> /\ down' = Tail(down)
    <3>1. down' \in Seq(DownMessage) /\ Len(down') = Len(down) - 1
      BY <2>2, TakenQueue
    <3> QED
      BY <1>1, <3>1
  <2>3. CASE down' = <<Control("challenge")>>
    <3>1. Control("challenge") \in DownMessage
      BY Messages
    <3> QED
      BY <1>1, <2>3, <3>1
  <2>4. ASSUME Len(down) < NetCap, NEW m \in DownMessage, down' = Append(down, m)
        PROVE  down' \in Seq(DownMessage) /\ Len(down') <= NetCap
    BY <1>1, <2>4
  <2>5. CASE down = <<>> /\ down' = Append(down, Control("error"))
    <3>1. Control("error") \in DownMessage /\ Len(down) = 0
      BY <2>5, Messages
    <3>2. down' \in Seq(DownMessage) /\ Len(down') = Len(down) + 1
      BY <2>5, <3>1, SentQueue
    <3> QED
      BY <1>1, <3>1, <3>2
  <2> QED
    BY <2>1, <2>2, <2>3, <2>4, <2>5 DEF DownStep
<1> QED
  BY <1>2, <1>3

LEMMA OutTypeStep ==
  ASSUME TypeOK, Holding, Next
  PROVE  OutType'
<1> USE DEF OutType, streamVars, outputVars, pumpVars
<1>0. OutType
  BY TypeParts
<1>1. CASE PumpReads
  <2>1. down # <<>> /\ Head(down).type = "output" /\ hand' = Head(down).chunk
        /\ UNCHANGED <<emitted, out, produced, held>>
    BY <1>1 DEF PumpReads, ClientReads, serverVars
  <2>2. Head(down) \in DownMessage
    BY <2>1, TakenQueue DEF TypeOK
  <2>3. hand' \in Chunk
    BY <2>1, <2>2, Messages
  <2> QED
    BY <1>0, <2>1, <2>3
<1>2. CASE PumpSends
  <2>1. hand \in Chunk /\ hand.hi \in Nat
    BY <1>2 DEF PumpSends, Holding, Frame, Chunk
  <2>2. /\ out' = Append(out, hand) /\ Len(out) < OutCap /\ emitted' = hand.hi
        /\ hand' = NoChunk /\ UNCHANGED <<produced, held>>
    BY <1>2 DEF PumpSends, serverVars
  <2>3. out' \in Seq(Chunk) /\ Len(out') <= OutCap
    BY <1>0, <2>1, <2>2, RemoteAssumption
  <2> QED
    BY <1>0, <2>1, <2>2, <2>3
<1>3. CASE Consume
  <2>1. out # <<>> /\ out' = Tail(out) /\ UNCHANGED <<emitted, hand, produced, held>>
    BY <1>3 DEF Consume, serverVars
  <2>2. out' \in Seq(Chunk) /\ Len(out') = Len(out) - 1 /\ Len(out) \in Nat
    BY <1>0, <2>1, TakenQueue
  <2>3. Len(out') <= OutCap
    BY <1>0, <2>2, RemoteAssumption
  <2> QED
    BY <1>0, <2>1, <2>2, <2>3
<1>4. ASSUME NEW n \in 1..MaxChunk, TakeOutput(n)
      PROVE  OutType'
  <2>1. produced + n \in Nat
    BY <1>0, RemoteAssumption
  <2>2. held' \in Chunk /\ produced' \in Nat
    BY <1>0, <1>4, <2>1 DEF TakeOutput, Chunk
  <2>3. UNCHANGED <<emitted, out, hand>>
    BY <1>4 DEF TakeOutput, clientVars
  <2> QED
    BY <1>0, <2>2, <2>3
<1>5. ASSUME \/ BeginStart \/ Start \/ PumpReadsExit \/ PumpFails \/ PumpClosesOutput
             \/ PumpEnds \/ SendInput \/ Close \/ EditAuthorized \/ ShellExits
             \/ ShellReadsInput \/ Break \/ Handle
      PROVE  OutType'
  <2>1. UNCHANGED <<emitted, out, hand, produced, held>>
    BY <1>5 DEF BeginStart, Start, DialFails, DialWs, DialSsh, AnswerChallenge,
       ReadAck, StartFails, PumpReadsExit, PumpFails, PumpClosesOutput, PumpEnds,
       SendInput, Close, EditAuthorized, ShellExits, ShellReadsInput, Break, Handle,
       Authenticate, ReadStart, HandshakeEnds, StartShell, StartShellForNobody,
       StartShellFails, HandleInput, WriteReturns, LoopEnds, HandlerClosesSession,
       HandlerClosesConnection, clientVars, serverVars
  <2> QED
    BY <1>0, <2>1
<1>6. ASSUME \/ WriteOutput \/ WriteOutputFails \/ ServerPumpClosesSession
             \/ OutputEnds \/ AnnounceExit \/ ServerPumpClosesConnection
      PROVE  OutType'
  <2>1. UNCHANGED <<emitted, out, hand, produced>> /\ held' \in {held, NoChunk}
    BY <1>6 DEF WriteOutput, WriteOutputFails, ServerPumpClosesSession, OutputEnds,
       AnnounceExit, ServerPumpClosesConnection, clientVars
  <2> QED
    BY <1>0, <2>1
<1> QED
  BY <1>1, <1>2, <1>3, <1>4, <1>5, <1>6 DEF Next, Pump, ServerPump

LEMMA StateTypeStep ==
  ASSUME StateType, Next
  PROVE  StateType'
<1> USE DEF Transports, StartStates, PumpStates, HandlerStates, ServerPumpStates,
            netVars, startVars, pumpVars, streamVars, listVars, outputVars, shellVars,
            clientVars, serverVars
<1>1. ASSUME CloseClientEnd \/ CloseServerEnd
      PROVE  cut' \in BOOLEAN /\ clientOpen' \in BOOLEAN /\ serverOpen' \in BOOLEAN
  BY <1>1 DEF CloseClientEnd, CloseServerEnd, StateType
<1>2. ASSUME BeginStart \/ DialFails \/ DialWs \/ DialSsh \/ AnswerChallenge \/ ReadAck
      PROVE  StateType'
  BY <1>2 DEF StateType, BeginStart, DialFails, DialWs, DialSsh, AnswerChallenge, ReadAck
<1>3. ASSUME StartFails \/ Close
      PROVE  StateType'
  <2>1. CloseClientEnd /\ start' \in {start, "failed"}
        /\ UNCHANGED <<transport, key, pumpVars, streamVars, serverVars>>
    BY <1>3 DEF StartFails, Close
  <2> QED
    BY <1>1, <2>1 DEF StateType
<1>4. ASSUME \/ PumpReads \/ PumpReadsExit \/ PumpSends \/ PumpClosesOutput
             \/ Consume \/ SendInput
      PROVE  StateType'
  <2>1. outClosed' \in BOOLEAN
    BY <1>4 DEF StateType, PumpReads, PumpReadsExit, PumpSends, PumpClosesOutput,
       Consume, SendInput
  <2>2. pump' \in PumpStates
    BY <1>4 DEF StateType, PumpReads, PumpReadsExit, PumpSends, PumpClosesOutput,
       Consume, SendInput
  <2>3. UNCHANGED <<startVars, done, cut, clientOpen, serverOpen, serverVars>>
    BY <1>4 DEF PumpReads, PumpReadsExit, PumpSends, PumpClosesOutput, Consume, SendInput
  <2> QED
    BY <2>1, <2>2, <2>3 DEF StateType
<1>5. ASSUME PumpFails \/ PumpEnds
      PROVE  StateType'
  <2>1. /\ CloseClientEnd \/ UNCHANGED netVars
        /\ pump' \in {"finishing", "ended"} /\ done' \in {done, TRUE}
        /\ UNCHANGED <<startVars, outClosed, serverVars>>
    BY <1>5 DEF PumpFails, PumpEnds
  <2>2. cut' \in BOOLEAN /\ clientOpen' \in BOOLEAN /\ serverOpen' \in BOOLEAN
    BY <1>1, <2>1 DEF StateType
  <2>3. done' \in BOOLEAN
    BY <2>1 DEF StateType
  <2> QED
    BY <2>1, <2>2, <2>3 DEF StateType
<1>6. ASSUME EditAuthorized \/ ShellExits \/ Break
      PROVE  StateType'
  BY <1>6 DEF StateType, EditAuthorized, ShellExits, Break
<1>7. CASE ShellReadsInput \/ WriteReturns
  <2>1. stdinFull' \in BOOLEAN
    BY <1>7 DEF ShellReadsInput, WriteReturns, StateType
  <2>2. UNCHANGED <<clientVars, netVars, listVars, serverPump, shell>>
        /\ handler' \in {handler, "loop"}
    BY <1>7 DEF ShellReadsInput, WriteReturns
  <2> QED
    BY <2>1, <2>2 DEF StateType
<1>8. ASSUME \/ Authenticate \/ ReadStart \/ HandshakeEnds \/ StartShell
             \/ StartShellForNobody \/ StartShellFails \/ HandleInput \/ LoopEnds
             \/ HandlerClosesSession
      PROVE  StateType'
  BY <1>8 DEF StateType, Authenticate, ReadStart, HandshakeEnds, StartShell,
       StartShellForNobody, StartShellFails, HandleInput, LoopEnds,
       HandlerClosesSession, ServerWrites
<1>9. CASE HandlerClosesConnection
  BY <1>1, <1>9 DEF StateType, HandlerClosesConnection
<1>10. CASE ServerPump
  <2>1. UNCHANGED <<clientVars, cut, clientOpen, listVars, handler, stdinFull>>
    BY <1>10 DEF ServerPump, TakeOutput, WriteOutput, WriteOutputFails,
       ServerPumpClosesSession, OutputEnds, AnnounceExit, ServerPumpClosesConnection,
       ServerWrites, CloseServerEnd
  <2>2. serverPump' \in ServerPumpStates
    BY <1>10 DEF ServerPump, TakeOutput, WriteOutput, WriteOutputFails,
       ServerPumpClosesSession, OutputEnds, AnnounceExit, ServerPumpClosesConnection
  <2>3. shell' \in {shell, "exited"}
    BY <1>10 DEF ServerPump, TakeOutput, WriteOutput, WriteOutputFails,
       ServerPumpClosesSession, OutputEnds, AnnounceExit, ServerPumpClosesConnection
  <2>4. ASSUME ~ServerPumpClosesConnection
        PROVE  serverOpen' = serverOpen
    BY <1>10, <2>4 DEF ServerPump, TakeOutput, WriteOutput, WriteOutputFails,
       ServerPumpClosesSession, OutputEnds, AnnounceExit, ServerWrites
  <2>5. ASSUME ServerPumpClosesConnection
        PROVE  serverOpen' = FALSE
    BY <2>5 DEF ServerPumpClosesConnection, CloseServerEnd
  <2>6. serverOpen' \in BOOLEAN
    BY <2>4, <2>5 DEF StateType
  <2> QED
    BY <2>1, <2>2, <2>3, <2>6, SMTT(20) DEF StateType
<1> QED
  BY <1>2, <1>3, <1>4, <1>5, <1>6, <1>7, <1>8, <1>9, <1>10 DEF Next, Start, Pump, Handle

LEMMA StagesStep ==
  ASSUME StateType, Stages, Next
  PROVE  Stages'
<1> USE DEF Stages, StateType,
            startVars, pumpVars, streamVars, listVars, outputVars, shellVars,
            clientVars, serverVars
<1>1. ASSUME BeginStart \/ Start
      PROVE  Stages'
  BY <1>1 DEF BeginStart, Start, DialFails, DialWs, DialSsh, AnswerChallenge, ReadAck,
              StartFails
<1>2. ASSUME Pump \/ Consume \/ SendInput \/ Close
      PROVE  Stages'
  BY <1>2 DEF Pump, PumpReads, PumpReadsExit, PumpFails, PumpSends, PumpClosesOutput,
              PumpEnds, Consume, SendInput, Close
<1>3. ASSUME EditAuthorized \/ ShellExits \/ ShellReadsInput \/ Break
      PROVE  Stages'
  BY <1>3 DEF EditAuthorized, ShellExits, ShellReadsInput, Break
<1>4. CASE Handle
  BY <1>4 DEF Handle, Authenticate, ReadStart, HandshakeEnds, StartShell,
       StartShellForNobody, StartShellFails, HandleInput, WriteReturns, LoopEnds,
       HandlerClosesSession, HandlerClosesConnection
<1>5. CASE ServerPump
  BY <1>5 DEF ServerPump, TakeOutput, WriteOutput, WriteOutputFails,
       ServerPumpClosesSession, OutputEnds, AnnounceExit, ServerPumpClosesConnection
<1> QED
  BY <1>1, <1>2, <1>3, <1>4, <1>5 DEF Next

-----------------------------------------------------------------------------
(* The handshake.                                                          *)

\* How the control state moves, for what the handshake depends on.
LEMMA ControlSteps ==
  ASSUME StateType, Stages, Next
  PROVE  /\ start' = "challenge" /\ start # "challenge" => DialWs
         /\ start = "challenge" /\ start' # "challenge" => AnswerChallenge \/ StartFails
         /\ handler' = "none" => handler = "none"
         /\ handler' = "auth" /\ handler # "auth" => DialWs
         /\ handler \in {"auth", "returning", "leaving", "gone"} =>
              \/ handler' \in {"auth", "returning", "leaving", "gone"}
              \/ Authenticate
         /\ shell = "none" /\ handler # "starting" => shell' = "none"
         /\ key' # key => start = "idle" /\ handler' = handler
<1> USE DEF startVars, outputVars, shellVars, clientVars, serverVars, StateType
<1>1. CASE BeginStart \/ Start
  BY <1>1 DEF BeginStart, Start, DialFails, DialWs, DialSsh, AnswerChallenge, ReadAck,
     StartFails, Stages
<1>2. CASE Pump \/ Consume \/ SendInput \/ Close
  BY <1>2 DEF Pump, PumpReads, PumpReadsExit, PumpFails, PumpSends, PumpClosesOutput,
     PumpEnds, Consume, SendInput, Close
<1>3. CASE EditAuthorized \/ ShellExits \/ ShellReadsInput \/ Break
  BY <1>3 DEF EditAuthorized, ShellExits, ShellReadsInput, Break
<1>4. CASE Handle
  BY <1>4 DEF Handle, Authenticate, ReadStart, HandshakeEnds, StartShell,
     StartShellForNobody, StartShellFails, HandleInput, WriteReturns, LoopEnds,
     HandlerClosesSession, HandlerClosesConnection
<1>5. CASE ServerPump
  BY <1>5 DEF ServerPump, TakeOutput, WriteOutput, WriteOutputFails,
     ServerPumpClosesSession, OutputEnds, AnnounceExit, ServerPumpClosesConnection, Stages
<1> QED
  BY <1>1, <1>2, <1>3, <1>4, <1>5 DEF Next

LEMMA KeptShort ==
  ASSUME NEW S, NEW q \in Seq(S), NEW r \in Kept(q) \cup {q, <<>>}
  PROVE  /\ q = <<>> => r = <<>>
         /\ Len(q) <= 1 => Len(r) <= 1
<1>1. CASE r \in Kept(q)
  <2>1. r \in Seq(S) /\ Len(r) \in Nat /\ Len(q) \in Nat /\ Len(r) <= Len(q)
    BY <1>1, KeptQueue
  <2>2. q = <<>> => Len(q) = 0
    OBVIOUS
  <2>3. Len(r) = 0 => r = <<>>
    BY <2>1, EmptySeq
  <2> QED
    BY <2>1, <2>2, <2>3
<1>2. CASE r = q
  BY <1>2
<1>3. CASE r = <<>>
  BY <1>3
<1> QED
  BY <1>1, <1>2, <1>3

LEMMA HandshakeStep ==
  ASSUME TypeOK, Stages, Handshake, Next, UpStep, DownStep
  PROVE  Handshake'
<1>0. StateType /\ up \in Seq(UpMessage) /\ down \in Seq(DownMessage)
  BY TypeParts DEF NetType
<1>1. ASSUME handler' = "none"
      PROVE  up' = <<>> /\ down' = <<>>
  <2>1. handler = "none" /\ up = <<>> /\ down = <<>>
    BY <1>0, <1>1, ControlSteps DEF Handshake
  <2>2. start \notin {"challenge", "ack", "returned"}
    BY <2>1 DEF Stages
  <2>3. up' \in Kept(up) \cup {up, <<>>}
    BY <2>1, <2>2 DEF UpStep
  <2>4. down' \in Kept(down) \cup {down, <<>>}
    BY <1>1, <2>1, <2>2 DEF DownStep
  <2> QED
    BY <1>0, <2>1, <2>3, <2>4, KeptShort
<1>2. ASSUME start' = "challenge", start # "challenge"
      PROVE  /\ up' = <<>> /\ Len(down') <= 1
             /\ handler' = "auth" /\ shell' = "none"
  <2>1. DialWs
    BY <1>0, <1>2, ControlSteps
  <2>2. handler = "none" /\ up = <<>> /\ shell = "none"
    BY <2>1 DEF DialWs, Stages, Handshake
  <2>3. up' = up /\ down' = <<Control("challenge")>> /\ handler' = "auth" /\ shell' = shell
    BY <2>1 DEF DialWs, shellVars
  <2> QED
    BY <2>2, <2>3
<1>3. ASSUME start' = "challenge", start = "challenge"
      PROVE  /\ up' = <<>> /\ Len(down') <= 1
             /\ handler' \in {"auth", "returning", "leaving", "gone"} /\ shell' = "none"
  <2>1. /\ up = <<>> /\ Len(down) <= 1 /\ shell = "none"
        /\ handler \in {"auth", "returning", "leaving", "gone"}
    BY <1>3 DEF Handshake
  <2>2. up' \in Kept(up) \cup {up, <<>>}
    BY <1>3, <2>1 DEF UpStep
  <2>3. up' = <<>>
    BY <1>0, <2>1, <2>2, KeptShort
  <2>4. Len(down') <= 1
    <3>1. CASE down' \in Kept(down) \cup {down, <<>>}
      BY <1>0, <2>1, <3>1, KeptShort
    <3>2. CASE down # <<>> /\ down' = Tail(down)
      <4>1. Len(down') = Len(down) - 1 /\ Len(down) \in Nat
        BY <1>0, <3>2, TakenQueue
      <4> QED
        BY <2>1, <4>1
    <3> QED
      BY <1>3, <3>1, <3>2 DEF DownStep
  <2>5. ~Authenticate
    BY <2>1 DEF Authenticate, ServerReads
  <2> QED
    BY <1>0, <2>1, <2>3, <2>4, <2>5, ControlSteps
<1>4. ASSUME handler' = "auth", start' # "challenge"
      PROVE  down' = <<>>
  <2>1. handler = "auth"
    BY <1>0, <1>4, ControlSteps DEF DialWs
  <2>2. start # "dialing"
    BY <2>1 DEF Stages
  <2>3. CASE start # "challenge"
    <3>1. down = <<>>
      BY <2>1, <2>3 DEF Handshake
    <3>2. down' \in Kept(down) \cup {down, <<>>}
      BY <1>4, <2>1, <2>2, <3>1 DEF DownStep
    <3> QED
      BY <1>0, <3>1, <3>2, KeptShort
  <2>4. CASE start = "challenge"
    <3>1. AnswerChallenge \/ StartFails
      BY <1>0, <1>4, <2>4, ControlSteps
    <3>2. CASE StartFails
      BY <3>2 DEF StartFails, CloseClientEnd
    <3>3. CASE AnswerChallenge
      <4>1. down # <<>> /\ down' = Tail(down) /\ Len(down) <= 1
        BY <2>4, <3>3 DEF AnswerChallenge, ClientReads, Handshake
      <4>2. /\ Len(down') = Len(down) - 1 /\ Len(down) \in Nat \ {0}
            /\ down' \in Seq(DownMessage)
        BY <1>0, <4>1, TakenQueue
      <4>3. Len(down') = 0
        BY <4>1, <4>2
      <4> QED
        BY <4>2, <4>3, EmptySeq
    <3> QED
      BY <3>1, <3>2, <3>3
  <2> QED
    BY <2>3, <2>4
<1>5. ASSUME NEW i \in 1..Len(up'), up'[i].type = "auth"
      PROVE  up'[i].key = key'
  <2>1. CASE key' # key
    <3>1. handler' = "none"
      BY <1>0, <2>1, ControlSteps DEF Stages
    <3>2. up' = <<>>
      BY <1>1, <3>1
    <3> QED
      BY <3>2
  <2>2. CASE key' = key
    <3>1. CASE up' \in Kept(up) \cup {up, <<>>}
      <4>1. CASE up' \in Kept(up)
        <5>1. i \in 1..Len(up) /\ up'[i] = up[i]
          BY <1>0, <4>1, KeptQueue
        <5> QED
          BY <1>5, <2>2, <5>1 DEF Handshake
      <4>2. CASE up' = up
        BY <1>5, <2>2, <4>2 DEF Handshake
      <4>3. CASE up' = <<>>
        BY <4>3
      <4> QED
        BY <3>1, <4>1, <4>2, <4>3
    <3>2. CASE up # <<>> /\ up' = Tail(up)
      <4>1. i + 1 \in 1..Len(up) /\ up'[i] = up[i + 1]
        BY <1>0, <3>2, TakenQueue
      <4> QED
        BY <1>5, <2>2, <4>1 DEF Handshake
    <3>3. ASSUME NEW t \in {"input", "resize"}, up' = Append(up, Control(t))
          PROVE  up'[i].key = key'
      <4>1. Control(t) \in UpMessage /\ Control(t).type # "auth"
        BY Messages
      <4>2. /\ Len(up) \in Nat /\ Len(up') = Len(up) + 1
            /\ \A j \in 1..Len(up) : up'[j] = up[j]
            /\ up'[Len(up) + 1] = Control(t)
        BY <1>0, <3>3, <4>1, SentQueue
      <4>3. i \in 1..Len(up)
        BY <1>5, <4>1, <4>2
      <4> QED
        BY <1>5, <2>2, <4>2, <4>3 DEF Handshake
    <3>4. CASE up = <<>> /\ up' = up \o <<Auth(key), Control("start")>>
      <4>1. up' = <<Auth(key), Control("start")>>
        BY <3>4
      <4>2. Control("start").type = "start" /\ Auth(key).key = key
        BY DEF Control, Auth
      <4>3. i = 1 \/ i = 2
        BY <4>1
      <4> QED
        BY <1>5, <2>2, <4>1, <4>2, <4>3
    <3> QED
      BY <3>1, <3>2, <3>3, <3>4 DEF UpStep
  <2> QED
    BY <2>1, <2>2
<1> QED
  BY <1>1, <1>2, <1>3, <1>4, <1>5 DEF Handshake

LEMMA AcceptedStep ==
  ASSUME TypeOK, Stages, Handshake, Accepted, Next
  PROVE  Accepted'
<1> USE DEF Accepted, Stages, TypeOK, startVars, listVars, outputVars, shellVars,
            clientVars, serverVars
<1>1. CASE BeginStart \/ Start
  BY <1>1 DEF BeginStart, Start, DialFails, DialWs, DialSsh, AnswerChallenge, ReadAck,
     StartFails
<1>2. CASE Pump \/ Consume \/ SendInput \/ Close
  BY <1>2 DEF Pump, PumpReads, PumpReadsExit, PumpFails, PumpSends, PumpClosesOutput,
     PumpEnds, Consume, SendInput, Close
<1>3. CASE EditAuthorized \/ ShellExits \/ ShellReadsInput \/ Break
  BY <1>3 DEF EditAuthorized, ShellExits, ShellReadsInput, Break
<1>4. CASE Authenticate
  <2>1. up # <<>> /\ Head(up).type = "auth" /\ handler = "auth"
    BY <1>4 DEF Authenticate, ServerReads
  <2>2. Head(up) = up[1] /\ 1 \in 1..Len(up)
    BY <2>1, TakenQueue
  <2>3. Head(up).key = key
    BY <2>1, <2>2 DEF Handshake
  <2>4. handler' = "start" => key \in authorized
    BY <1>4, <2>3 DEF Authenticate
  <2>5. UNCHANGED <<transport, key, authorized, listed, shell>>
        /\ handler' \in {"start", "returning"}
    BY <1>4 DEF Authenticate
  <2> QED
    BY <2>1, <2>4, <2>5
<1>5. ASSUME \/ ReadStart \/ HandshakeEnds \/ StartShell \/ StartShellForNobody
             \/ StartShellFails \/ HandleInput \/ WriteReturns \/ LoopEnds
             \/ HandlerClosesSession \/ HandlerClosesConnection
      PROVE  Accepted'
  BY <1>5 DEF ReadStart, HandshakeEnds, StartShell,
     StartShellForNobody, StartShellFails, HandleInput, WriteReturns, LoopEnds,
     HandlerClosesSession, HandlerClosesConnection
<1>6. CASE ServerPump
  BY <1>6 DEF ServerPump, TakeOutput, WriteOutput, WriteOutputFails,
     ServerPumpClosesSession, OutputEnds, AnnounceExit, ServerPumpClosesConnection
<1> QED
  BY <1>1, <1>2, <1>3, <1>4, <1>5, <1>6 DEF Next, Handle

-----------------------------------------------------------------------------
(* The output.                                                             *)

\* What the client's pump takes is the next chunk.
LEMMA NextChunk ==
  ASSUME TypeOK, InTransit, down # <<>>, Head(down).type = "output"
  PROVE  Frame(Head(down).chunk) /\ Head(down).chunk.lo = ClientHas
<1>1. down \in Seq(DownMessage)
  BY DEF TypeOK
<1>2. Head(down) = down[1] /\ 1 \in 1..Len(down)
  BY <1>1, TakenQueue
<1>3. PICK to \in Nat : Carries(down, ClientHas, to)
  BY DEF InTransit
<1>4. Head(down).chunk.lo = ClientHas
  BY <1>1, <1>3, TakenCarries
<1> QED
  BY <1>2, <1>4 DEF InTransit

LEMMA HoldingStep ==
  ASSUME TypeOK, Stages, Holding, InTransit, Next
  PROVE  Holding'
<1> USE DEF startVars, pumpVars, streamVars, outputVars, shellVars, clientVars, serverVars
<1>1. CASE PumpReads
  <2>1. /\ pump = "reading" /\ down # <<>> /\ Head(down).type = "output"
        /\ hand' = Head(down).chunk /\ pump' = "sending"
        /\ UNCHANGED <<emitted, serverPump, held, produced>>
    BY <1>1 DEF PumpReads, ClientReads
  <2>2. Frame(hand') /\ hand'.lo = emitted
    BY <2>1, NextChunk DEF ClientHas
  <2> QED
    BY <2>1, <2>2 DEF Holding
<1>2. ASSUME NEW n \in 1..MaxChunk, TakeOutput(n)
      PROVE  Holding'
  <2>1. produced \in Nat /\ n \in Nat /\ produced + n \in Nat
    BY RemoteAssumption DEF TypeOK
  <2>2. /\ held' = [lo |-> produced, hi |-> produced + n]
        /\ produced' = produced + n /\ produced + n <= MaxOutput
        /\ serverPump' = "writing" /\ UNCHANGED <<pump, hand, emitted>>
    BY <1>2 DEF TakeOutput
  <2>3. Frame(held') /\ held'.hi = produced'
    BY <2>1, <2>2 DEF Frame, Chunk
  <2> QED
    BY <2>2, <2>3 DEF Holding
<1>3. ASSUME \/ BeginStart \/ Start \/ Consume \/ SendInput \/ Close \/ EditAuthorized
             \/ ShellExits \/ ShellReadsInput \/ Break \/ Handle
      PROVE  Holding'
  <2>1. /\ UNCHANGED <<hand, emitted, held, produced>>
        /\ UNCHANGED pump \/ (pump' = "reading" /\ start = "ack")
        /\ UNCHANGED serverPump \/ serverPump' = "reading"
    BY <1>3 DEF BeginStart, Start, DialFails, DialWs, DialSsh, AnswerChallenge,
       ReadAck, StartFails, Consume, SendInput, Close, EditAuthorized, ShellExits,
       ShellReadsInput, Break, Handle, Authenticate, ReadStart, HandshakeEnds, StartShell,
       StartShellForNobody, StartShellFails, HandleInput, WriteReturns, LoopEnds,
       HandlerClosesSession, HandlerClosesConnection
  <2> QED
    BY <2>1 DEF Holding
<1>4. ASSUME PumpReadsExit \/ PumpFails \/ PumpSends \/ PumpClosesOutput \/ PumpEnds
      PROVE  Holding'
  BY <1>4 DEF Holding, PumpReadsExit, PumpFails, PumpSends, PumpClosesOutput, PumpEnds
<1>5. ASSUME \/ WriteOutput \/ WriteOutputFails \/ ServerPumpClosesSession
             \/ OutputEnds \/ AnnounceExit \/ ServerPumpClosesConnection
      PROVE  Holding'
  BY <1>5 DEF Holding, WriteOutput, WriteOutputFails, ServerPumpClosesSession, OutputEnds,
     AnnounceExit, ServerPumpClosesConnection
<1> QED
  BY <1>1, <1>2, <1>3, <1>4, <1>5 DEF Next, Pump, ServerPump

\* The four ways the messages to the client change.
LEMMA TransitUnchanged ==
  ASSUME InTransit, UNCHANGED <<down, ClientHas, ServerSent>>, Connected' => Connected
  PROVE  InTransit'
BY DEF InTransit

LEMMA TransitLost ==
  ASSUME TypeOK, InTransit, down' \in Kept(down) \cup {down, <<>>}, ~Connected',
         UNCHANGED ClientHas, ClientHas \in Nat
  PROVE  InTransit'
<1>1. down \in Seq(DownMessage)
  BY DEF TypeOK
<1>2. \E to \in Nat : Carries(down', ClientHas, to)
  <2>1. CASE down' = <<>>
    BY <2>1, NoMessagesCarry
  <2>2. CASE down' \in Kept(down) \cup {down}
    <3>1. \E to \in Nat : Carries(down, ClientHas, to)
      BY DEF InTransit
    <3> QED
      BY <1>1, <2>2, <3>1, KeptCarries
  <2> QED
    BY <2>1, <2>2
<1>3. ASSUME NEW i \in 1..Len(down'), down'[i].type = "output"
      PROVE  Frame(down'[i].chunk)
  <2>1. CASE down' = <<>>
    BY <2>1
  <2>2. CASE down' = down
    BY <1>3, <2>2 DEF InTransit
  <2>3. CASE down' \in Kept(down)
    <3>1. i \in 1..Len(down) /\ down'[i] = down[i]
      BY <1>1, <2>3, KeptQueue
    <3> QED
      BY <1>3, <3>1 DEF InTransit
  <2> QED
    BY <2>1, <2>2, <2>3
<1> QED
  BY <1>2, <1>3 DEF InTransit

LEMMA TransitTaken ==
  ASSUME TypeOK, InTransit, down # <<>>, down' = Tail(down),
         UNCHANGED ServerSent, Connected' => Connected,
         ClientHas' = IF Head(down).type = "output" THEN Head(down).chunk.hi ELSE ClientHas
  PROVE  InTransit'
<1>1. down \in Seq(DownMessage)
  BY DEF TypeOK
<1>2. PICK to \in Nat : Carries(down, ClientHas, to) /\ (Connected => to = ServerSent)
  BY DEF InTransit
<1>3. Carries(down', ClientHas', to)
  BY <1>1, <1>2, TakenCarries
<1>4. ASSUME NEW i \in 1..Len(down'), down'[i].type = "output"
      PROVE  Frame(down'[i].chunk)
  <2>1. i + 1 \in 1..Len(down) /\ down'[i] = down[i + 1]
    BY <1>1, TakenQueue
  <2> QED
    BY <1>4, <2>1 DEF InTransit
<1>5. Connected' => to = ServerSent'
  BY <1>2
<1> QED
  BY <1>3, <1>4, <1>5 DEF InTransit

LEMMA TransitSent ==
  ASSUME TypeOK, InTransit, NEW m \in DownMessage,
         Connected, down' = Append(down, m),
         UNCHANGED ClientHas, ServerSent \in Nat, ServerSent' \in Nat,
         IF m.type = "output"
         THEN Frame(m.chunk) /\ ServerSent = m.chunk.lo /\ ServerSent' = m.chunk.hi
         ELSE ServerSent' = ServerSent
  PROVE  InTransit'
<1>1. down \in Seq(DownMessage) /\ down' = Append(down, m)
  BY DEF TypeOK
<1>2. Carries(down, ClientHas, ServerSent)
  BY DEF InTransit
<1>3. Carries(down', ClientHas, ServerSent')
  BY <1>1, <1>2, SentCarries
<1>4. ASSUME NEW i \in 1..Len(down'), down'[i].type = "output"
      PROVE  Frame(down'[i].chunk)
  <2>1. /\ Len(down) \in Nat /\ Len(down') = Len(down) + 1
        /\ \A j \in 1..Len(down) : down'[j] = down[j]
        /\ down'[Len(down) + 1] = m
    BY <1>1, SentQueue
  <2>2. CASE i \in 1..Len(down)
    BY <1>4, <2>1, <2>2 DEF InTransit
  <2>3. CASE i \notin 1..Len(down)
    <3>1. i = Len(down) + 1
      BY <2>1, <2>3
    <3> QED
      BY <1>4, <2>1, <3>1
  <2> QED
    BY <2>2, <2>3
<1> QED
  BY <1>3, <1>4 DEF InTransit

LEMMA Counts ==
  ASSUME TypeOK, Holding
  PROVE  ClientHas \in Nat /\ ServerSent \in Nat
BY DEF TypeOK, Holding, Frame, Chunk, ClientHas, ServerSent

LEMMA ClosedConnection ==
  ASSUME CloseClientEnd \/ CloseServerEnd
  PROVE  down' \in Kept(down) \cup {down, <<>>} /\ ~Connected'
<1>1. ~Connected'
  BY DEF CloseClientEnd, CloseServerEnd, Connected
<1>2. down' \in Kept(down) \cup {down, <<>>}
  BY DEF CloseClientEnd, CloseServerEnd, AfterClose
<1> QED
  BY <1>1, <1>2

\* A message that is no output is sent, or vanishes.
LEMMA ControlSent ==
  ASSUME TypeOK, Holding, InTransit, UNCHANGED <<ClientHas, ServerSent>>,
         NEW m \in DownMessage, m.type # "output", ServerWrites(m)
  PROVE  InTransit'
<1>1. Connected' = Connected
  BY DEF ServerWrites, Connected
<1>2. CASE Connected
  <2>1. down' = Append(down, m)
    BY <1>2 DEF ServerWrites
  <2> QED
    BY <1>2, <2>1, Counts, TransitSent
<1>3. CASE ~Connected
  <2>1. down' = down
    BY <1>3 DEF ServerWrites
  <2> QED
    BY <1>1, <2>1, TransitUnchanged
<1> QED
  BY <1>2, <1>3

LEMMA TransitStep ==
  ASSUME TypeOK, Stages, Handshake, Holding, Holding', InTransit, Next
  PROVE  InTransit'
<1> USE DEF netVars, startVars, pumpVars, streamVars, outputVars, shellVars, clientVars,
            serverVars
<1>0. ClientHas \in Nat /\ ServerSent \in Nat
  BY Counts
<1>1. ASSUME \/ BeginStart \/ DialFails \/ Consume \/ SendInput \/ EditAuthorized
             \/ ReadStart \/ HandleInput \/ HandshakeEnds \/ StartShellForNobody
             \/ WriteReturns \/ LoopEnds \/ HandlerClosesSession \/ ShellExits
             \/ ShellReadsInput
      PROVE  InTransit'
  <2>1. UNCHANGED <<down, cut, clientOpen, serverOpen, pump, hand, emitted, serverPump,
                    held, produced>>
    BY <1>1 DEF BeginStart, DialFails, Consume, SendInput, EditAuthorized, ReadStart,
       HandleInput, HandshakeEnds, StartShellForNobody, WriteReturns, LoopEnds,
       HandlerClosesSession, ShellExits, ShellReadsInput
  <2> QED
    BY <2>1, TransitUnchanged DEF ClientHas, ServerSent, Connected
<1>2. ASSUME PumpSends \/ PumpClosesOutput \/ ServerPumpClosesSession \/ OutputEnds
             \/ ((PumpFails \/ PumpEnds) /\ UNCHANGED netVars)
      PROVE  InTransit'
  <2>1. UNCHANGED <<down, cut, clientOpen, serverOpen>>
    BY <1>2 DEF PumpSends, PumpClosesOutput, ServerPumpClosesSession, OutputEnds
  <2>2. UNCHANGED <<ClientHas, ServerSent>>
    BY <1>2 DEF PumpSends, PumpClosesOutput, ServerPumpClosesSession, OutputEnds,
       PumpFails, PumpEnds, ClientHas, ServerSent
  <2> QED
    BY <2>1, <2>2, TransitUnchanged DEF Connected
<1>3. ASSUME NEW n \in 1..MaxChunk, TakeOutput(n)
      PROVE  InTransit'
  <2>1. UNCHANGED <<down, cut, clientOpen, serverOpen>>
    BY <1>3 DEF TakeOutput
  <2>2. UNCHANGED <<ClientHas, ServerSent>>
    BY <1>3 DEF TakeOutput, ClientHas, ServerSent
  <2> QED
    BY <2>1, <2>2, TransitUnchanged DEF Connected
<1>4. ASSUME \/ StartFails \/ Close \/ HandlerClosesConnection
             \/ ServerPumpClosesConnection
             \/ ((PumpFails \/ PumpEnds) /\ CloseClientEnd)
      PROVE  InTransit'
  <2>1. CloseClientEnd \/ CloseServerEnd
    BY <1>4 DEF StartFails, Close, HandlerClosesConnection, ServerPumpClosesConnection
  <2>2. UNCHANGED ClientHas
    BY <1>4 DEF StartFails, Close, HandlerClosesConnection, ServerPumpClosesConnection,
       PumpFails, PumpEnds, ClientHas
  <2> QED
    BY <1>0, <2>1, <2>2, ClosedConnection, TransitLost
<1>5. CASE Break
  <2>1. down' \in Kept(down) /\ ~Connected' /\ UNCHANGED ClientHas
    BY <1>5 DEF Break, Connected, ClientHas
  <2> QED
    BY <1>0, <2>1, TransitLost
<1>6. CASE WriteOutputFails
  <2>1. down' = down /\ ~Connected' /\ UNCHANGED ClientHas
    BY <1>6 DEF WriteOutputFails, Connected, ClientHas
  <2> QED
    BY <1>0, <2>1, TransitLost
<1>7. ASSUME AnswerChallenge \/ ReadAck \/ PumpReads \/ PumpReadsExit
      PROVE  InTransit'
  <2>1. /\ down # <<>> /\ down' = Tail(down)
        /\ UNCHANGED <<cut, clientOpen, serverOpen>>
    BY <1>7 DEF AnswerChallenge, ReadAck, PumpReads, PumpReadsExit, ClientReads
  <2>2. ClientHas' = IF Head(down).type = "output" THEN Head(down).chunk.hi ELSE ClientHas
    BY <1>7 DEF AnswerChallenge, ReadAck, PumpReads, PumpReadsExit, ClientReads, ClientHas,
       Stages
  <2>3. UNCHANGED ServerSent
    BY <1>7 DEF AnswerChallenge, ReadAck, PumpReads, PumpReadsExit, ServerSent
  <2> QED
    BY <2>1, <2>2, <2>3, TransitTaken DEF Connected
<1>8. ASSUME StartShell \/ StartShellFails \/ AnnounceExit
      PROVE  InTransit'
  <2>1. \E m \in DownMessage : m.type # "output" /\ ServerWrites(m)
    BY <1>8, Messages DEF StartShell, StartShellFails, AnnounceExit
  <2>2. UNCHANGED <<ClientHas, ServerSent>>
    BY <1>8 DEF StartShell, StartShellFails, AnnounceExit, ClientHas, ServerSent, Stages
  <2> QED
    BY <2>1, <2>2, ControlSent
<1>9. CASE WriteOutput
  <2>1. held \in Chunk /\ Frame(held) /\ held.hi = produced /\ ServerSent = held.lo
    BY <1>9 DEF WriteOutput, Holding, Frame, ServerSent
  <2>2. Output(held) \in DownMessage /\ Output(held).type = "output"
        /\ Output(held).chunk = held
    BY <2>1, Messages
  <2>3. ServerSent' = produced /\ UNCHANGED ClientHas /\ ServerSent' \in Nat
    BY <1>9 DEF WriteOutput, ServerSent, ClientHas, TypeOK
  <2>4. ServerWrites(Output(held)) /\ Connected' = Connected
    BY <1>9 DEF WriteOutput, ServerWrites, Connected
  <2>5. CASE Connected
    <3>1. down' = Append(down, Output(held))
      BY <2>4, <2>5 DEF ServerWrites
    <3> QED
      BY <1>0, <2>1, <2>2, <2>3, <2>5, <3>1, TransitSent
  <2>6. CASE ~Connected
    <3>1. down' = down
      BY <2>4, <2>6 DEF ServerWrites
    <3> QED
      BY <1>0, <2>3, <2>4, <2>6, <3>1, TransitLost
  <2> QED
    BY <2>5, <2>6
<1>10. CASE Authenticate
  <2>1. UNCHANGED <<ClientHas, ServerSent>> /\ Connected' = Connected
    BY <1>10 DEF Authenticate, ClientHas, ServerSent, Connected
  <2>2. \/ down' = down
        \/ Connected /\ down' = Append(down, Control("error"))
    BY <1>10 DEF Authenticate
  <2>3. Control("error") \in DownMessage /\ Control("error").type # "output"
    BY Messages
  <2>4. CASE down' = down
    BY <2>1, <2>4, TransitUnchanged
  <2>5. CASE Connected /\ down' = Append(down, Control("error"))
    BY <1>0, <2>1, <2>3, <2>5, TransitSent
  <2> QED
    BY <2>2, <2>4, <2>5
<1>11. CASE DialWs \/ DialSsh
  <2>1. pump = "none" /\ serverPump = "none" /\ down = <<>>
    BY <1>11 DEF DialWs, DialSsh, Stages, Handshake
  <2>2. UNCHANGED <<pump, emitted, hand, serverPump, held, produced>>
    BY <1>11 DEF DialWs, DialSsh
  <2>3. ClientHas' = 0 /\ ServerSent' = 0
    BY <2>1, <2>2 DEF Holding, ClientHas, ServerSent
  <2>4. down' = <<>> \/ down' = Append(<<>>, Control("challenge"))
    BY <1>11, <2>1 DEF DialWs, DialSsh
  <2>5. Carries(<<>>, 0, 0)
    BY NoMessagesCarry
  <2>6. CASE down' = <<>>
    BY <2>3, <2>5, <2>6 DEF InTransit
  <2>7. CASE down' = Append(<<>>, Control("challenge"))
    <3>1. Control("challenge") \in DownMessage /\ Control("challenge").type # "output"
      BY Messages
    <3>2. <<>> \in Seq(DownMessage)
      OBVIOUS
    <3>3. Carries(down', 0, 0)
      BY <2>5, <2>7, <3>1, <3>2, SentCarries
    <3>4. \A i \in 1..Len(down') : down'[i].type # "output"
      BY <2>7, <3>1
    <3> QED
      BY <2>3, <3>3, <3>4 DEF InTransit
  <2> QED
    BY <2>4, <2>6, <2>7
<1>12. PumpFails \/ PumpEnds => UNCHANGED netVars \/ CloseClientEnd
  BY DEF PumpFails, PumpEnds
<1> QED
  BY <1>1, <1>2, <1>3, <1>4, <1>5, <1>6, <1>7, <1>8, <1>9, <1>10, <1>11, <1>12
  DEF Next, Start, Pump, Handle, ServerPump

LEMMA NextIInv == IInv /\ [Next]_vars => IInv'
<1> SUFFICES ASSUME IInv, [Next]_vars
             PROVE  IInv'
  OBVIOUS
<1>1. TypeOK /\ Stages /\ Handshake /\ Accepted /\ Holding /\ InTransit
  BY DEF IInv
<1>2. CASE UNCHANGED vars
  <2>1. UNCHANGED <<transport, start, key, pump, hand, emitted, out, outClosed, done>>
    BY <1>2 DEF vars, clientVars, startVars, pumpVars, streamVars
  <2>2. UNCHANGED <<up, down, cut, clientOpen, serverOpen>>
    BY <1>2 DEF vars, netVars
  <2>3. UNCHANGED <<authorized, listed, handler, serverPump, held, produced, shell, stdinFull>>
    BY <1>2 DEF vars, serverVars, listVars, outputVars, shellVars
  <2>4. TypeOK'
    BY <1>1, <2>1, <2>2, <2>3 DEF TypeOK
  <2>5. Stages' /\ Handshake' /\ Accepted'
    BY <1>1, <2>1, <2>2, <2>3 DEF Stages, Handshake, Accepted
  <2>6. Holding'
    BY <1>1, <2>1, <2>3 DEF Holding
  <2>7. InTransit'
    BY <1>1, <2>1, <2>2, <2>3, TransitUnchanged DEF ClientHas, ServerSent, Connected
  <2> QED
    BY <2>4, <2>5, <2>6, <2>7 DEF IInv
<1>3. CASE Next
  <2>1. UpStep /\ DownStep
    BY <1>1, <1>3, NetSteps
  <2>2. NetType /\ OutType /\ StateType
    BY <1>1, TypeParts
  <2>3. NetType'
    BY <1>1, <2>1, <2>2, NetTypeStep
  <2>4. OutType' /\ StateType'
    BY <1>1, <1>3, <2>2, OutTypeStep, StateTypeStep
  <2>5. TypeOK'
    BY <2>3, <2>4 DEF TypeOK, NetType, OutType, StateType
  <2>6. Stages' /\ Handshake' /\ Accepted'
    BY <1>1, <1>3, <2>1, <2>2, StagesStep, HandshakeStep, AcceptedStep
  <2>7. Holding'
    BY <1>1, <1>3, HoldingStep
  <2>8. InTransit'
    BY <1>1, <1>3, <2>7, TransitStep
  <2> QED
    BY <2>5, <2>6, <2>7, <2>8 DEF IInv
<1> QED
  BY <1>2, <1>3

LEMMA Invariance == Spec => []IInv
BY InitIInv, NextIInv, PTL DEF Spec

-----------------------------------------------------------------------------
(* The theorems.                                                           *)

\* Every variable keeps its type. In particular neither the output channel nor
\* the connection ever holds more than its capacity: whoever would exceed it
\* waits.
THEOREM TypeCorrect == Spec => []TypeOK
<1>1. IInv => TypeOK
  BY DEF IInv
<1> QED
  BY <1>1, Invariance, PTL

\* No shell is started for an instance whose key was not on the list of
\* authorized keys at some moment of the handshake, for any keys and however
\* the list is edited meanwhile.
THEOREM AuthorizationCorrect == Spec => []OnlyAuthorizedStarts
<1>1. IInv => OnlyAuthorizedStarts
  BY DEF IInv, Accepted, OnlyAuthorizedStarts
<1> QED
  BY <1>1, Invariance, PTL

\* A step of the remote session is a step of the contract of Output(), or none.
LEMMA StreamStep ==
  ASSUME IInv, [Next]_vars
  PROVE  [Stream!StreamNext]_(Stream!streamVars)
<1>1. TypeOK /\ Stages /\ Holding
  BY DEF IInv
<1>2. CASE UNCHANGED vars
  BY <1>2 DEF vars, clientVars, streamVars, Stream!streamVars
<1>3. CASE PumpSends
  <2>1. /\ pump = "sending" /\ Len(out) < OutCap
        /\ out' = Append(out, hand) /\ emitted' = hand.hi /\ UNCHANGED outClosed
    BY <1>3 DEF PumpSends
  <2>2. Frame(hand) /\ hand.lo = emitted
    BY <1>1, <2>1 DEF Holding
  <2>3. PICK n \in 1..MaxChunk : hand.hi = hand.lo + n
    BY <2>2 DEF Frame
  <2>4. hand = [lo |-> emitted, hi |-> emitted + n] /\ emitted + n <= MaxOutput
    BY <2>2, <2>3 DEF Frame, Chunk
  <2>5. emitted' = emitted + n
    BY <2>1, <2>2, <2>3
  <2>6. ~outClosed
    BY <1>1, <2>1 DEF Stages
  <2>7. Stream!Emit(n)
    BY <2>1, <2>4, <2>5, <2>6 DEF Stream!Emit
  <2> QED
    BY <2>7 DEF Stream!StreamNext
<1>4. CASE Consume
  BY <1>4 DEF Consume, Stream!StreamNext, Stream!Receive
<1>5. CASE PumpClosesOutput
  <2>1. ~outClosed
    BY <1>1, <1>5 DEF PumpClosesOutput, Stages
  <2> QED
    BY <1>5, <2>1 DEF PumpClosesOutput, Stream!StreamNext, Stream!CloseOutput
<1>6. ASSUME \/ BeginStart \/ Start \/ PumpReads \/ PumpReadsExit \/ PumpFails \/ PumpEnds
             \/ SendInput \/ Close \/ EditAuthorized \/ ShellExits \/ ShellReadsInput
             \/ Break \/ Handle \/ ServerPump
      PROVE  UNCHANGED <<emitted, out, outClosed>>
  BY <1>6 DEF BeginStart, Start, DialFails, DialWs, DialSsh, AnswerChallenge, ReadAck,
     StartFails, PumpReads, PumpReadsExit, PumpFails, PumpEnds, SendInput, Close,
     EditAuthorized, ShellExits, ShellReadsInput, Break, Handle, Authenticate, ReadStart,
     HandshakeEnds, StartShell, StartShellForNobody, StartShellFails, HandleInput,
     WriteReturns, LoopEnds, HandlerClosesSession, HandlerClosesConnection, ServerPump,
     TakeOutput, WriteOutput, WriteOutputFails, ServerPumpClosesSession, OutputEnds,
     AnnounceExit, ServerPumpClosesConnection, clientVars, streamVars
<1> QED
  BY <1>2, <1>3, <1>4, <1>5, <1>6 DEF Next, Pump, Stream!streamVars

\* The output channel of a remote session keeps the contract of every terminal
\* session: whatever is lost with the connection, what arrives is the beginning
\* of the remote shell's output, in order, and nothing follows the close.
THEOREM RemoteStream == Spec => ImplementsStream
<1>1. Init => Stream!StreamInit
  BY DEF Init, Stream!StreamInit
<1> QED
  BY <1>1, StreamStep, Invariance, PTL DEF Spec, ImplementsStream, Stream!StreamSpec
=============================================================================
