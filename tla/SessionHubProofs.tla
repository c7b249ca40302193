-------------------------- MODULE SessionHubProofs --------------------------
(***************************************************************************)
(* What SessionHub guarantees for every number of clients, every chunk     *)
(* size and every capacity.                                                *)
(*                                                                         *)
(* The inductive invariant IInv follows the output from the terminal to    *)
(* the clients: the chunks in the output channel, the chunk in the drain   *)
(* goroutine's hand, the scrollback and every client's snapshot and queue  *)
(* are adjoining intervals of the stream.                                  *)
(***************************************************************************)
EXTENDS SessionHub, SequenceTheorems, TLAPS

\* A sequence of non-empty chunks, each beginning where the one before ends.
Chained(q) ==
    /\ \A i \in 1..Len(q) : q[i].lo < q[i].hi
    /\ \A i \in 1..(Len(q) - 1) : q[i].hi = q[i + 1].lo

\* What the bytes of a buffer are drawn from.
LEMMA BytesType ==
    ASSUME NEW k \in Chunk, k.lo < k.hi
    PROVE  /\ Bytes(k) \in Seq(Nat)
           /\ Len(Bytes(k)) = k.hi - k.lo
           /\ \A i \in 1..(k.hi - k.lo) : Bytes(k)[i] = k.lo + i
<1>1. k.lo \in Nat /\ k.hi \in Nat
  BY DEF Chunk
<1>2. Bytes(k) = [i \in 1..(k.hi - k.lo) |-> k.lo + i]
  BY DEF Bytes
<1>3. \A i \in 1..(k.hi - k.lo) : k.lo + i \in Nat
  BY <1>1
<1>4. k.hi - k.lo \in Nat
  BY <1>1
<1>5. Bytes(k) \in [1..(k.hi - k.lo) -> Nat]
  BY <1>2, <1>3
<1>6. Bytes(k) \in Seq(Nat)
  BY <1>4, <1>5, IsASeq
<1>7. Len(Bytes(k)) = k.hi - k.lo
  BY <1>4, <1>5, <1>6, LenProperties
<1>8. QED
  BY <1>2, <1>6, <1>7

\* Adding the next chunk to a gap-free stretch of output gives a gap-free
\* stretch that ends with the chunk.
LEMMA AppendBytes ==
    ASSUME NEW s \in Seq(Nat), NEW lo \in Nat, NEW k \in Chunk,
           k.lo < k.hi, Holds(s, lo, k.lo)
    PROVE  /\ s \o Bytes(k) \in Seq(Nat)
           /\ Holds(s \o Bytes(k), lo, k.hi)
<1> DEFINE t == s \o Bytes(k)
<1>1. k.lo \in Nat /\ k.hi \in Nat
  BY DEF Chunk
<1>2. /\ Bytes(k) \in Seq(Nat)
      /\ Len(Bytes(k)) = k.hi - k.lo
      /\ \A i \in 1..(k.hi - k.lo) : Bytes(k)[i] = k.lo + i
  BY BytesType
<1>3. t \in Seq(Nat) /\ Len(t) = Len(s) + Len(Bytes(k))
  BY <1>2, ConcatProperties
<1>4. /\ lo <= k.lo
      /\ Len(s) = k.lo - lo
      /\ \A i \in 1..Len(s) : s[i] = lo + i
  BY DEF Holds
<1>6. lo <= k.hi /\ Len(t) = k.hi - lo
  BY <1>1, <1>2, <1>3, <1>4
<1> HIDE DEF t
<1>5. ASSUME NEW i \in 1..Len(t)
      PROVE  t[i] = lo + i
  <2>1. t[i] = IF i <= Len(s) THEN s[i] ELSE Bytes(k)[i - Len(s)]
    BY <1>2, <1>3, ConcatProperties DEF t
  <2>2. CASE i <= Len(s)
    BY <1>4, <2>1, <2>2
  <2>3. CASE ~(i <= Len(s))
    <3>1. i - Len(s) \in 1..(k.hi - k.lo)
      BY <1>1, <1>4, <1>6, <2>3
    <3>2. Bytes(k)[i - Len(s)] = k.lo + (i - Len(s))
      BY <1>2, <3>1
    <3> QED
      BY <1>1, <1>4, <2>1, <2>3, <3>2
  <2> QED
    BY <2>2, <2>3
<1> QED
  BY <1>3, <1>5, <1>6 DEF Holds, t

\* Trimming keeps the end of a gap-free stretch.
LEMMA TrimHolds ==
    ASSUME NEW s \in Seq(Nat), NEW lo \in Nat, NEW hi \in Nat, Holds(s, lo, hi)
    PROVE  /\ Trim(s) \in Seq(Nat)
           /\ Len(Trim(s)) <= MaxScrollback
           /\ Holds(Trim(s),
                    IF hi - lo > MaxScrollback THEN hi - MaxScrollback ELSE lo, hi)
<1>1. /\ lo <= hi
      /\ Len(s) = hi - lo
      /\ \A i \in 1..Len(s) : s[i] = lo + i
  BY DEF Holds
<1>2. MaxScrollback \in Nat /\ MaxScrollback > 0
  BY HubAssumption
<1>3. CASE hi - lo > MaxScrollback
  <2> DEFINE m == Len(s) - MaxScrollback + 1
             t == SubSeq(s, m, Len(s))
  <2>1. Trim(s) = t
    BY <1>1, <1>3 DEF Trim
  <2>2. m \in 1..Len(s) /\ Len(s) \in Nat
    BY <1>1, <1>2, <1>3
  <2>3. /\ t \in Seq(Nat)
        /\ Len(t) = MaxScrollback
        /\ \A i \in 1..MaxScrollback : t[i] = s[m + i - 1]
    <3>1. m \in 1..(Len(s) + 1) /\ Len(s) \in m-1 .. Len(s)
      BY <2>2
    <3>2. /\ t \in Seq(Nat)
          /\ Len(t) = Len(s) - m + 1
          /\ \A i \in 1 .. Len(s) - m + 1 : t[i] = s[m + i - 1]
      BY <3>1, SubSeqProperties, SMTT(20)
    <3>3. Len(s) - m + 1 = MaxScrollback
      BY <1>2, <2>2, SMTT(20)
    <3> QED
      BY <3>2, <3>3
  <2>4. \A i \in 1..MaxScrollback : t[i] = (hi - MaxScrollback) + i
    <3> TAKE i \in 1..MaxScrollback
    <3>1. m + i - 1 \in 1..Len(s)
      BY <1>1, <1>2, <1>3
    <3>2. s[m + i - 1] = lo + (m + i - 1)
      BY <1>1, <3>1
    <3> QED
      BY <1>1, <1>2, <2>3, <3>2
  <2> QED
    BY <1>1, <1>2, <1>3, <2>1, <2>3, <2>4 DEF Holds
<1>4. CASE ~(hi - lo > MaxScrollback)
  <2>1. Trim(s) = s
    BY <1>1, <1>4 DEF Trim
  <2> QED
    BY <1>1, <1>2, <1>4, <2>1 DEF Holds
<1> QED
  BY <1>3, <1>4

\* Adding an adjoining chunk to a queue.
LEMMA ChainAppend ==
    ASSUME NEW q \in Seq(Chunk), Chained(q), NEW k \in Chunk, k.lo < k.hi,
           q # <<>> => q[Len(q)].hi = k.lo
    PROVE  /\ Append(q, k) \in Seq(Chunk)
           /\ Append(q, k) # <<>>
           /\ Len(Append(q, k)) = Len(q) + 1
           /\ Chained(Append(q, k))
           /\ Append(q, k)[1] = IF q = <<>> THEN k ELSE q[1]
           /\ Append(q, k)[Len(Append(q, k))] = k
<1> DEFINE t == Append(q, k)
<1>1. /\ t \in Seq(Chunk)
      /\ t # <<>>
      /\ Len(t) = Len(q) + 1
      /\ \A i \in 1..Len(q) : t[i] = q[i]
      /\ t[Len(q) + 1] = k
  BY AppendProperties
<1>2. Len(q) \in Nat /\ (q # <<>> <=> Len(q) > 0)
  BY LenProperties, EmptySeq
<1> HIDE DEF t
<1>3. t[1] = IF q = <<>> THEN k ELSE q[1]
  BY <1>1, <1>2
<1>4. \A i \in 1..Len(t) : t[i].lo < t[i].hi
  BY <1>1, <1>2 DEF Chained
<1>5. ASSUME NEW i \in 1..(Len(t) - 1)
      PROVE  t[i].hi = t[i + 1].lo
  <2>1. i \in 1..Len(q) /\ t[i] = q[i]
    BY <1>1, <1>2
  <2>2. CASE i = Len(q)
    BY <1>1, <1>2, <2>1, <2>2
  <2>3. CASE i # Len(q)
    <3>1. i \in 1..(Len(q) - 1) /\ i + 1 \in 1..Len(q)
      BY <1>2, <2>1, <2>3
    <3> QED
      BY <1>1, <2>1, <3>1 DEF Chained
  <2> QED
    BY <2>2, <2>3
<1> QED
  BY <1>1, <1>3, <1>4, <1>5 DEF Chained, t

\* Taking the first chunk out of a queue.
LEMMA ChainTail ==
    ASSUME NEW q \in Seq(Chunk), Chained(q), q # <<>>
    PROVE  /\ Head(q) = q[1] /\ q[1] \in Chunk /\ q[1].lo < q[1].hi
           /\ Tail(q) \in Seq(Chunk)
           /\ Len(Tail(q)) = Len(q) - 1
           /\ Chained(Tail(q))
           /\ Tail(q) = <<>> => q[Len(q)] = q[1]
           /\ Tail(q) # <<>> => /\ Tail(q)[1].lo = q[1].hi
                               /\ Tail(q)[Len(Tail(q))] = q[Len(q)]
<1> DEFINE t == Tail(q)
<1>1. /\ t \in Seq(Chunk)
      /\ Len(t) = Len(q) - 1
      /\ \A i \in 1..Len(t) : t[i] = q[i + 1]
  BY HeadTailProperties
<1>2. Len(q) \in Nat /\ Len(q) > 0
  BY LenProperties, EmptySeq
<1>3. t = <<>> <=> Len(t) = 0
  BY <1>1, EmptySeq
<1> HIDE DEF t
<1>4. Head(q) = q[1]
  OBVIOUS
<1>5. q[1] \in Chunk /\ q[1].lo < q[1].hi
  BY <1>2, ElementOfSeq DEF Chained
<1>6. Chained(t)
  <2>1. \A i \in 1..Len(t) : t[i] = q[i + 1] /\ i + 1 \in 1..Len(q)
    BY <1>1, <1>2
  <2>2. \A i \in 1..(Len(t) - 1) :
           t[i] = q[i + 1] /\ t[i + 1] = q[(i + 1) + 1] /\ i + 1 \in 1..(Len(q) - 1)
    BY <1>1, <1>2
  <2> QED
    BY <2>1, <2>2 DEF Chained
<1>7. ASSUME t = <<>>
      PROVE  q[Len(q)] = q[1]
  <2>1. Len(q) = 1
    BY <1>1, <1>2, <1>3, <1>7
  <2> QED
    BY <2>1
<1>8. ASSUME t # <<>>
      PROVE  t[1].lo = q[1].hi /\ t[Len(t)] = q[Len(q)]
  <2>1. Len(t) \in Nat /\ Len(t) > 0
    BY <1>1, <1>2, <1>3, <1>8
  <2>2. t[1] = q[2] /\ 1 \in 1..(Len(q) - 1)
    BY <1>1, <1>2, <2>1
  <2>3. t[Len(t)] = q[Len(q)]
    BY <1>1, <1>2, <2>1
  <2> QED
    BY <2>2, <2>3 DEF Chained
<1> QED
  BY <1>1, <1>4, <1>5, <1>6, <1>7, <1>8 DEF t

-----------------------------------------------------------------------------

\* Where the output in the channel begins.
ChannelStart == IF out # <<>> THEN out[1].lo ELSE emitted

\* The channel and the chunk in hand.
StreamInv ==
    /\ Chained(out)
    /\ out # <<>> => out[Len(out)].hi = emitted
    /\ drainer = "distributing" <=> hand # NoChunk
    /\ hand # NoChunk => hand.lo < hand.hi /\ hand.hi = ChannelStart

\* How far the drain goroutine has got decides ended and Done().
EndInv ==
    /\ ended <=> drainer \in {"closing", "exited"}
    /\ hubDone <=> drainer = "exited"
    /\ ended => outClosed /\ out = <<>> /\ subs = {}
    /\ lastOutput = Drained

\* Where the output queued for c ends.
QueueEnd(c) == IF ch[c] = <<>> THEN ViewEnd(c) ELSE ch[c][Len(ch[c])].hi

\* What client c was given and what is queued for it adjoin.
ClientInv(c) ==
    /\ Len(view[c]) <= ViewEnd(c)
    /\ Holds(view[c], ViewEnd(c) - Len(view[c]), ViewEnd(c))
    /\ Chained(ch[c])
    /\ ch[c] # <<>> => ch[c][1].lo = ViewEnd(c)
    /\ ViewEnd(c) <= Drained
    /\ \A i \in 1..Len(ch[c]) : ch[c][i].hi <= Drained
    /\ c \in subs => QueueEnd(c) = Drained

SubscriptionInv ==
    /\ subs \subseteq attached
    /\ \A c \in attached : ClientInv(c)

IInv ==
    /\ TypeOK
    /\ StreamInv
    /\ EndInv
    /\ ScrollbackIsTail
    /\ SubscriptionInv
    /\ DoneClosedExactlyOnce

-----------------------------------------------------------------------------

\* Everything a client was given or is owed is a stream position.
LEMMA Positions ==
    ASSUME TypeOK
    PROVE  /\ Drained \in Nat
           /\ \A c \in Clients :
                /\ ViewEnd(c) \in Nat
                /\ \A i \in 1..Len(ch[c]) : ch[c][i].lo \in Nat /\ ch[c][i].hi \in Nat
<1>1. out # <<>> => out[1] \in Chunk
  BY EmptySeq, ElementOfSeq DEF TypeOK, StreamTypeOK
<1>2. Drained \in Nat
  BY <1>1 DEF Drained, TypeOK, StreamTypeOK, Chunk
<1>3. ASSUME NEW c \in Clients
      PROVE  ViewEnd(c) \in Nat
  <2>1. view[c] \in Seq(Nat)
    BY DEF TypeOK
  <2>2. view[c] # <<>> => view[c][Len(view[c])] \in Nat
    BY <2>1, EmptySeq, ElementOfSeq
  <2> QED
    BY <2>2 DEF ViewEnd
<1>4. ASSUME NEW c \in Clients, NEW i \in 1..Len(ch[c])
      PROVE  ch[c][i].lo \in Nat /\ ch[c][i].hi \in Nat
  <2>1. ch[c] \in Seq(Chunk)
    BY DEF TypeOK
  <2>2. ch[c][i] \in Chunk
    BY <2>1, ElementOfSeq
  <2> QED
    BY <2>2 DEF Chunk
<1> QED
  BY <1>2, <1>3, <1>4

\* The invariant of a client only depends on its view, its queue, whether it is
\* live, and on how much was drained.
LEMMA ClientUnchanged ==
    ASSUME NEW c \in Clients, TypeOK, ClientInv(c), Drained' = Drained,
           view'[c] = view[c], ch'[c] = ch[c], c \in subs' => c \in subs
    PROVE  ClientInv(c)'
<1>1. ViewEnd(c)' = ViewEnd(c) /\ QueueEnd(c)' = QueueEnd(c)
  BY DEF ViewEnd, QueueEnd
<1> QED
  BY <1>1 DEF ClientInv, Holds, Chained

\* The initial state satisfies the invariant.
LEMMA InitIInv == HubInit => IInv
<1> SUFFICES ASSUME HubInit
             PROVE  IInv
  OBVIOUS
<1>1. /\ MaxScrollback \in Nat /\ OutCap \in Nat /\ SubCap \in Nat
      /\ MaxScrollback > 0
  BY HubAssumption, StreamAssumption
<1>2. /\ emitted = 0 /\ outClosed = FALSE
      /\ drainer = "receiving" /\ hand = NoChunk
      /\ lastOutput = 0 /\ ended = FALSE /\ hubDone = FALSE
      /\ subs = {} /\ attached = {}
      /\ doneCloses = [c \in Clients |-> 0]
      /\ out = <<>> /\ out \in Seq(Chunk)
      /\ scrollback = <<>> /\ scrollback \in Seq(Nat)
      /\ ch \in [Clients -> Seq(Chunk)]
      /\ view \in [Clients -> Seq(Nat)]
      /\ \A c \in Clients : ch[c] = <<>>
  BY EmptySeq DEF HubInit, StreamInit
<1>3. /\ Len(out) = 0
      /\ Len(scrollback) = 0
      /\ \A c \in Clients : Len(ch[c]) = 0
  BY <1>2, EmptySeq
<1>4. TypeOK
  <2>1. Len(out) <= OutCap
    BY <1>1, <1>3
  <2>2. Len(scrollback) <= MaxScrollback /\ \A c \in Clients : Len(ch[c]) <= SubCap
    BY <1>1, <1>3
  <2>3. emitted \in Nat /\ lastOutput \in Nat /\ doneCloses \in [Clients -> Nat]
    BY <1>2
  <2> QED
    BY <1>2, <2>1, <2>2, <2>3 DEF TypeOK, StreamTypeOK, DrainerStates
<1>5. Drained = 0
  BY <1>2 DEF Drained
<1>6. StreamInv
  BY <1>2, <1>3 DEF StreamInv, Chained
<1>7. EndInv
  BY <1>2, <1>5 DEF EndInv
<1>8. ScrollbackIsTail
  <2>1. ~(0 > MaxScrollback)
    BY <1>1
  <2> HIDE DEF Drained
  <2> QED
    BY <1>3, <1>5, <2>1 DEF ScrollbackIsTail, Holds
<1>9. SubscriptionInv /\ DoneClosedExactlyOnce
  BY <1>2 DEF SubscriptionInv, DoneClosedExactlyOnce
<1> QED
  BY <1>4, <1>6, <1>7, <1>8, <1>9 DEF IInv

\* The terminal only touches the channel.
LEMMA TerminalStep == IInv /\ Terminal => IInv'
<1> SUFFICES ASSUME IInv, Terminal
             PROVE  IInv'
  OBVIOUS
<1> USE DEF IInv
<1>1. UNCHANGED <<hubVars, subVars>>
  BY DEF Terminal
<1>2. UNCHANGED <<drainer, hand, scrollback, lastOutput, ended, hubDone,
                  subs, attached, ch, doneCloses, view>>
  BY <1>1 DEF hubVars, subVars
<1>3. /\ emitted \in Nat /\ out \in Seq(Chunk) /\ Len(out) \in Nat
      /\ Len(out) <= OutCap
  BY LenProperties DEF TypeOK, StreamTypeOK
<1>4. /\ TypeOK'
      /\ StreamInv'
      /\ Drained' = Drained
      /\ ended => out' = out /\ outClosed'
  <2>1. CASE CloseOutput
    <3>1. out' = out /\ emitted' = emitted /\ outClosed' = TRUE
      BY <2>1 DEF CloseOutput
    <3> QED
      BY <1>2, <3>1 DEF TypeOK, StreamTypeOK, StreamInv, Chained, ChannelStart, Drained
  <2>2. ASSUME NEW n \in 1..MaxChunk, Emit(n)
        PROVE  /\ TypeOK'
               /\ StreamInv'
               /\ Drained' = Drained
               /\ ended => out' = out /\ outClosed'
    <3> DEFINE k == [lo |-> emitted, hi |-> emitted + n]
    <3>1. /\ out' = Append(out, k)
          /\ emitted' = emitted + n
          /\ outClosed' = outClosed
          /\ Len(out) < OutCap
          /\ ~outClosed
      BY <2>2 DEF Emit
    <3>2. MaxChunk \in Nat /\ OutCap \in Nat /\ n \in Nat /\ n > 0
      BY StreamAssumption
    <3>3. k \in Chunk /\ k.lo = emitted /\ k.hi = emitted + n /\ k.lo < k.hi
      BY <1>3, <3>2 DEF Chunk
    <3> HIDE DEF k
    <3>4. /\ out' \in Seq(Chunk)
          /\ out' # <<>>
          /\ Len(out') = Len(out) + 1
          /\ Chained(out)'
          /\ out'[1] = IF out = <<>> THEN k ELSE out[1]
          /\ out'[Len(out')] = k
      <4>1. Chained(out) /\ (out # <<>> => out[Len(out)].hi = k.lo)
        BY <3>3 DEF StreamInv
      <4> QED
        BY <1>3, <3>1, <3>3, <4>1, ChainAppend DEF Chained
    <3>5. TypeOK'
      BY <1>2, <1>3, <3>1, <3>2, <3>4 DEF TypeOK, StreamTypeOK
    <3>6. ChannelStart' = ChannelStart
      BY <3>1, <3>3, <3>4 DEF ChannelStart
    <3>7. StreamInv'
      BY <1>2, <3>1, <3>3, <3>4, <3>6 DEF StreamInv
    <3>8. Drained' = Drained
      BY <1>2, <3>6 DEF Drained, ChannelStart
    <3> QED
      BY <3>1, <3>5, <3>7, <3>8 DEF EndInv
  <2> QED
    BY <2>1, <2>2 DEF Terminal
<1>5. EndInv'
  BY <1>2, <1>4 DEF EndInv
<1>6. ScrollbackIsTail'
  BY <1>2, <1>4 DEF ScrollbackIsTail
<1>7. SubscriptionInv' /\ DoneClosedExactlyOnce'
  BY <1>2, <1>4, ClientUnchanged DEF SubscriptionInv, DoneClosedExactlyOnce, TypeOK
<1> QED
  BY <1>4, <1>5, <1>6, <1>7

\* Receiving a chunk moves it from the channel into the hand.
LEMMA TakeStep == IInv /\ Take => IInv'
<1> SUFFICES ASSUME IInv, Take
             PROVE  IInv'
  OBVIOUS
<1> USE DEF IInv
<1>1. /\ drainer = "receiving" /\ drainer' = "distributing"
      /\ out # <<>> /\ out' = Tail(out) /\ hand' = Head(out)
      /\ UNCHANGED <<emitted, outClosed, scrollback, lastOutput, ended, hubDone,
                     subs, attached, ch, doneCloses, view>>
  BY DEF Take, Receive, subVars
<1>2. out \in Seq(Chunk) /\ Len(out) \in Nat /\ Len(out) <= OutCap /\ OutCap \in Nat
  BY LenProperties, StreamAssumption DEF TypeOK, StreamTypeOK
<1>3. /\ hand' = out[1] /\ out[1] \in Chunk /\ out[1].lo < out[1].hi
      /\ out' \in Seq(Chunk)
      /\ Len(out') = Len(out) - 1
      /\ Chained(out)'
      /\ out' = <<>> => out[Len(out)] = out[1]
      /\ out' # <<>> => out'[1].lo = out[1].hi /\ out'[Len(out')] = out[Len(out)]
  <2>1. Chained(out)
    BY DEF StreamInv
  <2> QED
    BY <1>1, <1>2, <2>1, ChainTail DEF Chained
<1>4. hand = NoChunk /\ hand' # NoChunk
  BY <1>1, <1>3, HubAssumption DEF StreamInv
<1>5. TypeOK'
  <2>1. Len(out') <= OutCap
    BY <1>2, <1>3
  <2> QED
    BY <1>1, <1>3, <2>1 DEF TypeOK, StreamTypeOK, DrainerStates
<1>6. ChannelStart' = out[1].hi
  BY <1>1, <1>3 DEF ChannelStart, StreamInv
<1>7. StreamInv'
  BY <1>1, <1>3, <1>4, <1>6 DEF StreamInv
<1>8. Drained' = Drained
  BY <1>1, <1>3, <1>4 DEF Drained
<1>9. EndInv'
  BY <1>1, <1>8 DEF EndInv
<1>10. ScrollbackIsTail'
  BY <1>1, <1>8 DEF ScrollbackIsTail
<1>11. SubscriptionInv' /\ DoneClosedExactlyOnce'
  BY <1>1, <1>8, ClientUnchanged DEF SubscriptionInv, DoneClosedExactlyOnce, TypeOK
<1> QED
  BY <1>5, <1>7, <1>9, <1>10, <1>11

\* Distributing advances Drained over the chunk in hand; whoever gets the chunk
\* is up to date again, the others leave the live set.
LEMMA DistributeStep == IInv /\ Distribute => IInv'
<1> SUFFICES ASSUME IInv, Distribute
             PROVE  IInv'
  OBVIOUS
<1> USE DEF IInv
<1>1. /\ drainer = "distributing" /\ drainer' = "receiving"
      /\ hand' = NoChunk
      /\ scrollback' = AppendScrollback(hand)
      /\ lastOutput' = hand.hi
      /\ ch' = [c \in Clients |-> IF c \in Ready THEN Append(ch[c], hand) ELSE ch[c]]
      /\ doneCloses' = [c \in Clients |->
             IF c \in subs \ Ready THEN doneCloses[c] + 1 ELSE doneCloses[c]]
      /\ subs' = Ready
      /\ UNCHANGED <<emitted, out, outClosed, ended, hubDone, attached, view>>
  BY DEF Distribute, streamVars
<1>2. /\ hand # NoChunk /\ hand \in Chunk
      /\ hand.lo < hand.hi /\ hand.hi = ChannelStart
      /\ hand.lo \in Nat /\ hand.hi \in Nat
  BY <1>1 DEF StreamInv, TypeOK, Chunk
<1>3. Drained = hand.lo /\ Drained' = hand.hi
  BY <1>1, <1>2 DEF Drained, ChannelStart
<1>4. scrollback' \in Seq(Nat) /\ Len(scrollback') <= MaxScrollback /\ ScrollbackIsTail'
  <2> DEFINE lo == IF Drained > MaxScrollback THEN Drained - MaxScrollback ELSE 0
             s == scrollback \o Bytes(hand)
  <2>1. MaxScrollback \in Nat /\ MaxScrollback > 0
    BY HubAssumption
  <2>2. lo \in Nat /\ Holds(scrollback, lo, hand.lo) /\ scrollback \in Seq(Nat)
    BY <1>2, <1>3, <2>1 DEF ScrollbackIsTail, TypeOK
  <2>3. s \in Seq(Nat) /\ Holds(s, lo, hand.hi)
    BY <1>2, <2>2, AppendBytes
  <2>4. scrollback' = Trim(s)
    BY <1>1 DEF AppendScrollback
  <2> HIDE DEF s
  <2>5. /\ Trim(s) \in Seq(Nat)
        /\ Len(Trim(s)) <= MaxScrollback
        /\ Holds(Trim(s),
                 IF hand.hi - lo > MaxScrollback THEN hand.hi - MaxScrollback ELSE lo,
                 hand.hi)
    BY <1>2, <2>2, <2>3, TrimHolds
  <2>6. (IF hand.hi - lo > MaxScrollback THEN hand.hi - MaxScrollback ELSE lo)
          = (IF hand.hi > MaxScrollback THEN hand.hi - MaxScrollback ELSE 0)
    BY <1>2, <1>3, <2>1
  <2>7. ScrollbackIsTail'
    BY <1>3, <2>4, <2>5, <2>6 DEF ScrollbackIsTail, Holds
  <2> QED
    BY <2>4, <2>5, <2>7
<1>5. Ready \subseteq subs /\ subs \subseteq attached /\ attached \subseteq Clients
  BY DEF Ready, SubscriptionInv, TypeOK
<1>6. ASSUME NEW c \in Clients, c \in Ready
      PROVE  /\ ch'[c] \in Seq(Chunk)
             /\ Len(ch'[c]) <= SubCap
             /\ ClientInv(c)'
  <2>1. ch'[c] = Append(ch[c], hand) /\ view'[c] = view[c] /\ c \in subs
    BY <1>1, <1>5, <1>6
  <2>2. ClientInv(c) /\ ch[c] \in Seq(Chunk) /\ Len(ch[c]) \in Nat
    BY <1>5, <1>6, LenProperties DEF SubscriptionInv, TypeOK
  <2>3. QueueEnd(c) = hand.lo
    BY <1>3, <2>1, <2>2 DEF ClientInv
  <2>4. /\ ch'[c] \in Seq(Chunk)
        /\ ch'[c] # <<>>
        /\ Len(ch'[c]) = Len(ch[c]) + 1
        /\ Chained(ch'[c])
        /\ ch'[c][1] = IF ch[c] = <<>> THEN hand ELSE ch[c][1]
        /\ ch'[c][Len(ch'[c])] = hand
    <3>1. Chained(ch[c])
      BY <2>2 DEF ClientInv
    <3>2. ch[c] # <<>> => ch[c][Len(ch[c])].hi = hand.lo
      BY <2>3 DEF QueueEnd
    <3> QED
      BY <1>2, <2>1, <2>2, <3>1, <3>2, ChainAppend
  <2>5. Len(ch'[c]) <= SubCap
    BY <1>6, <2>2, <2>4, HubAssumption DEF Ready
  <2>6. ViewEnd(c)' = ViewEnd(c)
    BY <2>1 DEF ViewEnd
  <2>7. ch'[c][1].lo = ViewEnd(c)
    BY <2>2, <2>3, <2>4 DEF ClientInv, QueueEnd
  <2>8. QueueEnd(c)' = hand.hi
    BY <2>4 DEF QueueEnd
  <2>9. /\ (Len(view[c]) <= ViewEnd(c))'
        /\ Holds(view[c], ViewEnd(c) - Len(view[c]), ViewEnd(c))'
    BY <2>1, <2>2, <2>6 DEF ClientInv, Holds
  <2>10. Chained(ch[c])' /\ (ch[c] # <<>> => ch[c][1].lo = ViewEnd(c))'
    BY <2>4, <2>6, <2>7 DEF Chained
  <2>11. (QueueEnd(c) = Drained)'
    BY <1>3, <2>8
  <2>12. (ViewEnd(c) <= Drained)' /\ \A i \in 1..Len(ch'[c]) : ch'[c][i].hi <= Drained'
    <3>1. \A i \in 1..Len(ch[c]) : ch'[c][i] = ch[c][i]
      BY <1>2, <2>1, <2>2, AppendProperties
    <3>2. ViewEnd(c) \in Nat /\ \A i \in 1..Len(ch[c]) : ch[c][i].hi \in Nat
      BY Positions
    <3>3. \A i \in 1..Len(ch[c]) : ch'[c][i].hi <= hand.hi
      BY <1>2, <1>3, <2>2, <3>1, <3>2 DEF ClientInv
    <3>4. ch'[c][Len(ch[c]) + 1] = hand
      BY <2>4
    <3>5. \A i \in 1..Len(ch'[c]) : i \in 1..Len(ch[c]) \/ i = Len(ch[c]) + 1
      BY <2>2, <2>4
    <3>6. \A i \in 1..Len(ch'[c]) : ch'[c][i].hi <= hand.hi
      BY <1>2, <3>3, <3>4, <3>5
    <3>7. ViewEnd(c) <= hand.hi
      BY <1>2, <1>3, <2>2, <3>2 DEF ClientInv
    <3> QED
      BY <1>3, <2>6, <3>6, <3>7
  <2>13. ClientInv(c)'
    BY <2>9, <2>10, <2>11, <2>12 DEF ClientInv
  <2> QED
    BY <2>4, <2>5, <2>13
<1>7. ASSUME NEW c \in Clients, c \notin Ready, c \in attached
      PROVE  ClientInv(c)'
  <2>1. ch'[c] = ch[c] /\ view'[c] = view[c] /\ c \notin subs'
    BY <1>1, <1>7
  <2>2. ClientInv(c)
    BY <1>7 DEF SubscriptionInv
  <2>3. ViewEnd(c)' = ViewEnd(c) /\ QueueEnd(c)' = QueueEnd(c)
    BY <2>1 DEF ViewEnd, QueueEnd
  <2>4. /\ ViewEnd(c) \in Nat
        /\ \A i \in 1..Len(ch[c]) : ch[c][i].hi \in Nat
    BY Positions
  <2>5. (ViewEnd(c) <= Drained)' /\ \A i \in 1..Len(ch'[c]) : ch'[c][i].hi <= Drained'
    BY <1>2, <1>3, <2>1, <2>2, <2>3, <2>4 DEF ClientInv
  <2>6. Holds(view[c], ViewEnd(c) - Len(view[c]), ViewEnd(c))'
    BY <2>1, <2>2, <2>3 DEF ClientInv, Holds
  <2>7. Chained(ch[c])' /\ (ch[c] # <<>> => ch[c][1].lo = ViewEnd(c))'
    BY <2>1, <2>2, <2>3 DEF ClientInv, Chained
  <2>8. (Len(view[c]) <= ViewEnd(c))'
    BY <2>1, <2>2, <2>3 DEF ClientInv
  <2>9. (c \in subs => QueueEnd(c) = Drained)'
    BY <2>1
  <2> QED
    BY <2>5, <2>6, <2>7, <2>8, <2>9 DEF ClientInv
<1>8. TypeOK'
  <2>1. ch' \in [Clients -> Seq(Chunk)] /\ \A c \in Clients : Len(ch'[c]) <= SubCap
    <3>1. ASSUME NEW c \in Clients, c \notin Ready
          PROVE  ch'[c] = ch[c]
      BY <1>1, <3>1
    <3>2. \A c \in Clients : ch'[c] \in Seq(Chunk) /\ Len(ch'[c]) <= SubCap
      BY <1>6, <3>1 DEF TypeOK
    <3> QED
      BY <1>1, <3>2
  <2>2. doneCloses' \in [Clients -> Nat]
    BY <1>1 DEF TypeOK
  <2>3. subs' \subseteq Clients
    BY <1>1, <1>5
  <2>4. hand' \in Chunk \cup {NoChunk} /\ lastOutput' \in Nat /\ drainer' \in DrainerStates
    BY <1>1, <1>2 DEF DrainerStates
  <2> QED
    BY <1>1, <1>4, <2>1, <2>2, <2>3, <2>4 DEF TypeOK, StreamTypeOK
<1>9. StreamInv'
  BY <1>1 DEF StreamInv, Chained
<1>10. EndInv'
  BY <1>1, <1>3 DEF EndInv
<1>11. SubscriptionInv'
  BY <1>1, <1>5, <1>6, <1>7 DEF SubscriptionInv
<1>12. DoneClosedExactlyOnce'
  BY <1>1, <1>5 DEF DoneClosedExactlyOnce, TypeOK
<1> QED
  BY <1>4, <1>8, <1>9, <1>10, <1>11, <1>12

\* The end of the session: nobody is left in the live set.
LEMMA EndStep == IInv /\ End => IInv'
<1> SUFFICES ASSUME IInv, End
             PROVE  IInv'
  OBVIOUS
<1> USE DEF IInv
<1>1. /\ drainer = "receiving" /\ drainer' = "closing"
      /\ outClosed /\ out = <<>> /\ ended' = TRUE /\ subs' = {}
      /\ doneCloses' = [c \in Clients |->
             IF c \in subs THEN doneCloses[c] + 1 ELSE doneCloses[c]]
      /\ UNCHANGED <<emitted, out, outClosed, hand, scrollback, lastOutput,
                     hubDone, attached, ch, view>>
  BY DEF End, streamVars
<1>2. Drained' = Drained
  BY <1>1 DEF Drained
<1>3. TypeOK'
  <2>1. doneCloses' \in [Clients -> Nat]
    BY <1>1 DEF TypeOK
  <2> QED
    BY <1>1, <2>1 DEF TypeOK, StreamTypeOK, DrainerStates
<1>4. StreamInv'
  BY <1>1 DEF StreamInv, Chained, ChannelStart
<1>5. EndInv'
  BY <1>1, <1>2 DEF EndInv
<1>6. ScrollbackIsTail'
  BY <1>1, <1>2 DEF ScrollbackIsTail
<1>7. SubscriptionInv'
  BY <1>1, <1>2, ClientUnchanged DEF SubscriptionInv, TypeOK
<1>8. DoneClosedExactlyOnce'
  BY <1>1 DEF DoneClosedExactlyOnce, TypeOK
<1> QED
  BY <1>3, <1>4, <1>5, <1>6, <1>7, <1>8

\* The drainer closes done once, after everything is distributed.
LEMMA CloseDoneStep == IInv /\ CloseDone => IInv'
<1> SUFFICES ASSUME IInv, CloseDone
             PROVE  IInv'
  OBVIOUS
<1> USE DEF IInv
<1>1. /\ drainer = "closing" /\ drainer' = "exited" /\ hubDone' = TRUE
      /\ UNCHANGED <<emitted, out, outClosed, hand, scrollback, lastOutput,
                     ended, subs, attached, ch, doneCloses, view>>
  BY DEF CloseDone, streamVars, subVars
<1>2. Drained' = Drained
  BY <1>1 DEF Drained
<1>3. TypeOK'
  BY <1>1 DEF TypeOK, StreamTypeOK, DrainerStates
<1>4. StreamInv' /\ EndInv' /\ ScrollbackIsTail'
  BY <1>1, <1>2 DEF StreamInv, Chained, ChannelStart, EndInv, ScrollbackIsTail
<1>5. SubscriptionInv' /\ DoneClosedExactlyOnce'
  BY <1>1, <1>2, ClientUnchanged DEF SubscriptionInv, DoneClosedExactlyOnce, TypeOK
<1> QED
  BY <1>3, <1>4, <1>5

\* A new subscription begins exactly where the scrollback ends.
LEMMA SubscribeStep == \A c \in Clients : IInv /\ Subscribe(c) => IInv'
<1> SUFFICES ASSUME NEW c \in Clients, IInv, Subscribe(c)
             PROVE  IInv'
  OBVIOUS
<1> USE DEF IInv
<1>1. /\ c \notin attached /\ attached' = attached \cup {c}
      /\ view' = [view EXCEPT ![c] = scrollback]
      /\ ch' = [ch EXCEPT ![c] = <<>>]
      /\ doneCloses' = [doneCloses EXCEPT ![c] = IF ended THEN 1 ELSE 0]
      /\ subs' = IF ended THEN subs ELSE subs \cup {c}
      /\ UNCHANGED <<emitted, out, outClosed, drainer, hand, scrollback,
                     lastOutput, ended, hubDone>>
  BY DEF Subscribe, streamVars, hubVars
<1>2. Drained' = Drained
  BY <1>1 DEF Drained
<1>3. /\ view'[c] = scrollback
      /\ ch'[c] = <<>> /\ <<>> \in Seq(Chunk) /\ Len(ch'[c]) = 0
      /\ scrollback \in Seq(Nat) /\ Len(scrollback) \in Nat
  BY <1>1, EmptySeq, LenProperties DEF TypeOK
<1>4. Drained \in Nat
  <2>1. out # <<>> => out[1] \in Chunk
    BY EmptySeq, ElementOfSeq DEF TypeOK, StreamTypeOK
  <2> QED
    BY <2>1 DEF Drained, TypeOK, StreamTypeOK, Chunk
<1>5. ViewEnd(c)' = Drained
  <2>1. MaxScrollback \in Nat /\ MaxScrollback > 0
    BY HubAssumption
  <2>2. scrollback = <<>> => Drained = 0
    BY <1>3, <1>4, <2>1, EmptySeq DEF ScrollbackIsTail, Holds
  <2>3. scrollback # <<>> => scrollback[Len(scrollback)] = Drained
    <3> SUFFICES ASSUME scrollback # <<>>
                 PROVE  scrollback[Len(scrollback)] = Drained
      OBVIOUS
    <3>1. Len(scrollback) \in 1..Len(scrollback)
      BY <1>3, EmptySeq
    <3> QED
      BY <1>3, <1>4, <2>1, <3>1 DEF ScrollbackIsTail, Holds
  <2> QED
    BY <1>3, <2>2, <2>3 DEF ViewEnd
<1>6. ClientInv(c)'
  <2>1. MaxScrollback \in Nat /\ MaxScrollback > 0
    BY HubAssumption
  <2>2. /\ Len(scrollback) <= Drained
        /\ Holds(scrollback, Drained - Len(scrollback), Drained)
    BY <1>3, <1>4, <2>1 DEF ScrollbackIsTail, Holds
  <2>3. QueueEnd(c)' = Drained
    BY <1>3, <1>5 DEF QueueEnd
  <2>4. Chained(ch[c])' /\ (ch[c] # <<>> => ch[c][1].lo = ViewEnd(c))'
    BY <1>3 DEF Chained
  <2>5. (Len(view[c]) <= ViewEnd(c))' /\ Holds(view[c], ViewEnd(c) - Len(view[c]), ViewEnd(c))'
    BY <1>3, <1>5, <2>2 DEF Holds
  <2>6. /\ (ViewEnd(c) <= Drained)' /\ (QueueEnd(c) = Drained)'
        /\ \A i \in 1..Len(ch'[c]) : ch'[c][i].hi <= Drained'
    BY <1>2, <1>3, <1>4, <1>5, <2>3
  <2> QED
    BY <2>4, <2>5, <2>6 DEF ClientInv
<1>7. \A d \in attached : ClientInv(d)'
  <2> TAKE d \in attached
  <2>1. d \in Clients /\ d # c /\ view'[d] = view[d] /\ ch'[d] = ch[d]
    BY <1>1 DEF TypeOK
  <2>2. d \in subs' => d \in subs
    BY <1>1, <2>1
  <2> QED
    BY <1>2, <2>1, <2>2, ClientUnchanged DEF SubscriptionInv
<1>8. TypeOK'
  <2>1. /\ view' \in [Clients -> Seq(Nat)]
        /\ ch' \in [Clients -> Seq(Chunk)]
        /\ doneCloses' \in [Clients -> Nat]
    BY <1>1, <1>3 DEF TypeOK
  <2>2. \A d \in Clients : Len(ch'[d]) <= SubCap
    <3>1. Len(ch'[c]) <= SubCap
      BY <1>3, HubAssumption
    <3> QED
      BY <1>1, <3>1 DEF TypeOK
  <2>3. subs' \subseteq Clients /\ attached' \subseteq Clients
    BY <1>1 DEF TypeOK
  <2> QED
    BY <1>1, <2>1, <2>2, <2>3 DEF TypeOK, StreamTypeOK
<1>9. StreamInv' /\ EndInv' /\ ScrollbackIsTail'
  BY <1>1, <1>2 DEF StreamInv, Chained, ChannelStart, EndInv, ScrollbackIsTail
<1>10. SubscriptionInv'
  BY <1>1, <1>6, <1>7 DEF SubscriptionInv
<1>11. DoneClosedExactlyOnce'
  <2>1. c \notin subs /\ (ended => subs = {})
    BY <1>1 DEF SubscriptionInv, EndInv
  <2> QED
    BY <1>1, <2>1 DEF DoneClosedExactlyOnce, TypeOK
<1> QED
  BY <1>8, <1>9, <1>10, <1>11

\* Receiving moves a chunk from the queue to the end of the view.
LEMMA ReceiveChunkStep == \A c \in Clients : IInv /\ ReceiveChunk(c) => IInv'
<1> SUFFICES ASSUME NEW c \in Clients, IInv, ReceiveChunk(c)
             PROVE  IInv'
  OBVIOUS
<1> USE DEF IInv
<1>1. /\ c \in attached /\ ch[c] # <<>>
      /\ view' = [view EXCEPT ![c] = @ \o Bytes(Head(ch[c]))]
      /\ ch' = [ch EXCEPT ![c] = Tail(@)]
      /\ UNCHANGED <<emitted, out, outClosed, drainer, hand, scrollback,
                     lastOutput, ended, hubDone, subs, attached, doneCloses>>
  BY DEF ReceiveChunk, streamVars, hubVars
<1>2. Drained' = Drained
  BY <1>1 DEF Drained
<1>3. ClientInv(c) /\ ch[c] \in Seq(Chunk) /\ view[c] \in Seq(Nat)
  BY <1>1 DEF SubscriptionInv, TypeOK
<1> DEFINE k == ch[c][1]
<1>4. /\ Head(ch[c]) = k /\ k \in Chunk /\ k.lo < k.hi
      /\ Tail(ch[c]) \in Seq(Chunk)
      /\ Len(Tail(ch[c])) = Len(ch[c]) - 1
      /\ Chained(Tail(ch[c]))
      /\ Tail(ch[c]) = <<>> => ch[c][Len(ch[c])] = k
      /\ Tail(ch[c]) # <<>> => /\ Tail(ch[c])[1].lo = k.hi
                              /\ Tail(ch[c])[Len(Tail(ch[c]))] = ch[c][Len(ch[c])]
  BY <1>1, <1>3, ChainTail DEF ClientInv
<1>5. k.lo = ViewEnd(c) /\ k.lo \in Nat /\ k.hi \in Nat
  BY <1>1, <1>3, <1>4 DEF ClientInv, Chunk
<1> HIDE DEF k
<1>6. view'[c] = view[c] \o Bytes(k) /\ ch'[c] = Tail(ch[c])
  BY <1>1, <1>3, <1>4 DEF TypeOK
<1> DEFINE lo == k.lo - Len(view[c])
<1>7. /\ view'[c] \in Seq(Nat)
      /\ Holds(view'[c], lo, k.hi)
      /\ lo \in Nat
  <2>1. Len(view[c]) \in Nat /\ Len(view[c]) <= k.lo
    BY <1>3, <1>5, LenProperties DEF ClientInv
  <2>2. lo \in Nat
    BY <1>5, <2>1
  <2>3. Holds(view[c], lo, k.lo)
    BY <1>3, <1>5 DEF ClientInv
  <2> HIDE DEF lo
  <2> QED
    BY <1>3, <1>4, <1>6, <2>2, <2>3, AppendBytes
<1> HIDE DEF lo
<1>8. ViewEnd(c)' = k.hi /\ Len(view'[c]) = k.hi - lo /\ Len(view'[c]) \in Nat
  <2>1. Len(view'[c]) = k.hi - lo /\ Len(view'[c]) \in Nat
    BY <1>7, LenProperties DEF Holds
  <2>2. k.hi > lo
    BY <1>3, <1>4, <1>5, LenProperties DEF lo
  <2>3. Len(view'[c]) > 0 /\ view'[c] # <<>>
    BY <1>5, <1>7, <2>1, <2>2, EmptySeq
  <2>4. view'[c][Len(view'[c])] = lo + Len(view'[c])
    BY <1>7, <2>1, <2>3 DEF Holds
  <2>5. lo + Len(view'[c]) = k.hi
    BY <1>5, <1>7, <2>1
  <2> QED
    BY <2>1, <2>3, <2>4, <2>5 DEF ViewEnd
<1>9. QueueEnd(c)' = QueueEnd(c)
  BY <1>1, <1>4, <1>6, <1>8 DEF QueueEnd
<1>10. ClientInv(c)'
  <2>1. k.hi - Len(view'[c]) = lo
    BY <1>5, <1>7, <1>8
  <2>2. Holds(view[c], ViewEnd(c) - Len(view[c]), ViewEnd(c))'
    BY <1>7, <1>8, <2>1 DEF Holds
  <2>3. (Len(view[c]) <= ViewEnd(c))'
    BY <1>5, <1>7, <1>8
  <2>4. Chained(ch[c])' /\ (ch[c] # <<>> => ch[c][1].lo = ViewEnd(c))'
    BY <1>4, <1>6, <1>8 DEF Chained
  <2>5. (c \in subs => QueueEnd(c) = Drained)'
    BY <1>1, <1>2, <1>3, <1>9 DEF ClientInv
  <2>6. (ViewEnd(c) <= Drained)' /\ \A i \in 1..Len(ch'[c]) : ch'[c][i].hi <= Drained'
    <3>1. Len(ch[c]) \in Nat \ {0}
      BY <1>1, <1>3, EmptySeq
    <3>2. k.hi <= Drained
      BY <1>3, <3>1 DEF ClientInv, k
    <3>3. \A i \in 1..Len(ch'[c]) : ch'[c][i] = ch[c][i + 1]
      BY <1>1, <1>3, <1>6, HeadTailProperties
    <3>4. \A i \in 1..Len(ch'[c]) : i + 1 \in 1..Len(ch[c])
      BY <1>4, <1>6, <3>1
    <3> QED
      BY <1>2, <1>3, <1>8, <3>2, <3>3, <3>4 DEF ClientInv
  <2> QED
    BY <2>2, <2>3, <2>4, <2>5, <2>6 DEF ClientInv
<1>11. \A d \in attached : ClientInv(d)'
  <2> TAKE d \in attached
  <2>1. CASE d = c
    BY <1>10, <2>1
  <2>2. CASE d # c
    <3>1. d \in Clients /\ view'[d] = view[d] /\ ch'[d] = ch[d]
      BY <1>1, <2>2 DEF TypeOK
    <3> QED
      BY <1>1, <1>2, <3>1, ClientUnchanged DEF SubscriptionInv
  <2> QED
    BY <2>1, <2>2
<1>12. TypeOK'
  <2>1. view' \in [Clients -> Seq(Nat)] /\ ch' \in [Clients -> Seq(Chunk)]
    BY <1>1, <1>4, <1>6, <1>7 DEF TypeOK
  <2>2. \A d \in Clients : Len(ch'[d]) <= SubCap
    <3>1. Len(ch[c]) \in Nat /\ SubCap \in Nat /\ Len(ch[c]) <= SubCap
      BY <1>3, LenProperties, HubAssumption DEF TypeOK
    <3>2. Len(ch'[c]) <= SubCap
      BY <1>4, <1>6, <3>1
    <3> QED
      BY <1>1, <3>2 DEF TypeOK
  <2> QED
    BY <1>1, <2>1, <2>2 DEF TypeOK, StreamTypeOK
<1>13. StreamInv' /\ EndInv' /\ ScrollbackIsTail'
  BY <1>1, <1>2 DEF StreamInv, Chained, ChannelStart, EndInv, ScrollbackIsTail
<1>14. SubscriptionInv' /\ DoneClosedExactlyOnce'
  BY <1>1, <1>11 DEF SubscriptionInv, DoneClosedExactlyOnce
<1> QED
  BY <1>12, <1>13, <1>14

\* Unsubscribe closes a client's done only while it is subscribed.
LEMMA UnsubscribeStep == \A c \in Clients : IInv /\ Unsubscribe(c) => IInv'
<1> SUFFICES ASSUME NEW c \in Clients, IInv, Unsubscribe(c)
             PROVE  IInv'
  OBVIOUS
<1> USE DEF IInv
<1>1. /\ c \in subs /\ subs' = subs \ {c}
      /\ doneCloses' = [doneCloses EXCEPT ![c] = @ + 1]
      /\ UNCHANGED <<emitted, out, outClosed, drainer, hand, scrollback,
                     lastOutput, ended, hubDone, attached, ch, view>>
  BY DEF Unsubscribe, streamVars, hubVars
<1>2. Drained' = Drained
  BY <1>1 DEF Drained
<1>3. TypeOK'
  BY <1>1 DEF TypeOK, StreamTypeOK
<1>4. StreamInv' /\ EndInv' /\ ScrollbackIsTail'
  BY <1>1, <1>2 DEF StreamInv, Chained, ChannelStart, EndInv, ScrollbackIsTail
<1>5. SubscriptionInv'
  BY <1>1, <1>2, ClientUnchanged DEF SubscriptionInv, TypeOK
<1>6. DoneClosedExactlyOnce'
  BY <1>1 DEF DoneClosedExactlyOnce, TypeOK
<1> QED
  BY <1>3, <1>4, <1>5, <1>6

\* A client that leaves takes nothing with it.
LEMMA LeaveStep == \A c \in Clients : IInv /\ Leave(c) => IInv'
<1> SUFFICES ASSUME NEW c \in Clients, IInv, Leave(c)
             PROVE  IInv'
  OBVIOUS
<1> USE DEF IInv
<1>1. /\ c \in attached \ subs /\ attached' = attached \ {c}
      /\ ch' = [ch EXCEPT ![c] = <<>>]
      /\ view' = [view EXCEPT ![c] = <<>>]
      /\ doneCloses' = [doneCloses EXCEPT ![c] = 0]
      /\ UNCHANGED <<emitted, out, outClosed, drainer, hand, scrollback,
                     lastOutput, ended, hubDone, subs>>
  BY DEF Leave, streamVars, hubVars
<1>2. Drained' = Drained
  BY <1>1 DEF Drained
<1>3. TypeOK'
  <2>1. ch'[c] = <<>> /\ Len(ch'[c]) = 0 /\ ch' \in [Clients -> Seq(Chunk)]
        /\ view' \in [Clients -> Seq(Nat)]
    BY <1>1, EmptySeq DEF TypeOK
  <2>2. Len(ch'[c]) <= SubCap
    BY <2>1, HubAssumption
  <2>3. \A d \in Clients : Len(ch'[d]) <= SubCap
    BY <1>1, <2>2 DEF TypeOK
  <2> QED
    BY <1>1, <2>1, <2>3 DEF TypeOK, StreamTypeOK
<1>4. StreamInv' /\ EndInv' /\ ScrollbackIsTail'
  BY <1>1, <1>2 DEF StreamInv, Chained, ChannelStart, EndInv, ScrollbackIsTail
<1>5. SubscriptionInv'
  <2>1. \A d \in attached' : ClientInv(d)'
    <3> TAKE d \in attached'
    <3>1. d \in attached /\ d \in Clients /\ view'[d] = view[d] /\ ch'[d] = ch[d]
      BY <1>1 DEF TypeOK
    <3> QED
      BY <1>1, <1>2, <3>1, ClientUnchanged DEF SubscriptionInv
  <2> QED
    BY <1>1, <2>1 DEF SubscriptionInv
<1>6. DoneClosedExactlyOnce'
  BY <1>1 DEF DoneClosedExactlyOnce, TypeOK
<1> QED
  BY <1>3, <1>4, <1>5, <1>6

\* A step that changes nothing.
LEMMA StutterStep == IInv /\ UNCHANGED vars => IInv'
<1> SUFFICES ASSUME IInv, UNCHANGED vars
             PROVE  IInv'
  OBVIOUS
<1> USE DEF IInv
<1>1. UNCHANGED <<emitted, out, outClosed, drainer, hand, scrollback, lastOutput,
                  ended, hubDone, subs, attached, ch, doneCloses, view>>
  BY DEF vars, streamVars, hubVars, subVars
<1>2. Drained' = Drained
  BY <1>1 DEF Drained
<1> QED
  BY <1>1, <1>2, ClientUnchanged
     DEF TypeOK, StreamTypeOK, StreamInv, Chained, ChannelStart, EndInv,
         ScrollbackIsTail, SubscriptionInv, DoneClosedExactlyOnce

-----------------------------------------------------------------------------

\* IInv is an invariant of the hub.
LEMMA Invariance == HubSpec => []IInv
<1>1. IInv /\ [HubNext]_vars => IInv'
  BY TerminalStep, TakeStep, DistributeStep, EndStep, CloseDoneStep, SubscribeStep,
     ReceiveChunkStep, UnsubscribeStep, LeaveStep, StutterStep
     DEF HubNext, Drain, ClientStep
<1> QED
  BY <1>1, InitIInv, PTL DEF HubSpec

\* Every variable keeps its type, and the channel, the scrollback and the
\* queues never exceed their capacities.
THEOREM TypeCorrect == HubSpec => []TypeOK
BY Invariance, PTL DEF IInv

\* The scrollback is the latest MaxScrollback bytes of the output.
THEOREM ScrollbackCorrect == HubSpec => []ScrollbackIsTail
BY Invariance, PTL DEF IInv

\* A client is shown a stretch of the output without a hole or a repetition,
\* from its snapshot to the last chunk queued for it.
THEOREM ResumeCorrect == HubSpec => []NoGapNoRepeat
<1>1. IInv => NoGapNoRepeat
  BY DEF IInv, SubscriptionInv, ClientInv, NoGapNoRepeat, Chained, QueueEnd
<1> QED
  BY <1>1, Invariance, PTL

\* No done channel is closed twice and no subscription is left undecided.
THEOREM DoneCorrect == HubSpec => []DoneClosedExactlyOnce
BY Invariance, PTL DEF IInv

\* Done() is closed only when all of the output has been distributed.
THEOREM FinishedCorrect == HubSpec => []DoneMeansFinished
<1>1. IInv => DoneMeansFinished
  <2> SUFFICES ASSUME IInv, hubDone
               PROVE  /\ outClosed /\ ended
                      /\ subs = {}
                      /\ Drained = emitted
                      /\ lastOutput = emitted
    BY DEF DoneMeansFinished
  <2>1. drainer = "exited" /\ ended /\ outClosed /\ out = <<>> /\ subs = {}
    BY DEF IInv, EndInv
  <2>2. hand = NoChunk
    BY <2>1 DEF IInv, StreamInv
  <2>3. Drained = emitted
    BY <2>1, <2>2 DEF Drained
  <2> QED
    BY <2>1, <2>3 DEF IInv, EndInv
<1> QED
  BY <1>1, Invariance, PTL

\* A subscription only ends by its own Unsubscribe, with the session, or when
\* its channel was full: no client loses its output because another is slow.
THEOREM DropCorrect == HubSpec => DroppedOnlyWhenBehind
<1> DEFINE Excused(c) ==
             \/ Unsubscribe(c)
             \/ ended'
             \/ Len(ch[c]) = SubCap
<1>1. ASSUME IInv, [HubNext]_vars
      PROVE  [\A c \in subs \ subs' : Excused(c)]_vars
  <2>1. ASSUME Distribute, NEW c \in subs \ subs'
        PROVE  Len(ch[c]) = SubCap
    <3>1. c \in subs \ Ready /\ ch[c] \in Seq(Chunk) /\ Len(ch[c]) <= SubCap
      BY <1>1, <2>1 DEF Distribute, IInv, TypeOK
    <3>2. ~(Len(ch[c]) < SubCap) /\ Len(ch[c]) \in Nat /\ SubCap \in Nat
      BY <3>1, HubAssumption, LenProperties DEF Ready
    <3> QED
      BY <3>1, <3>2
  <2>2. CASE End
    BY <2>2 DEF End
  <2>3. ASSUME NEW c \in Clients, Unsubscribe(c)
        PROVE  \A d \in subs \ subs' : Excused(d)
    BY <2>3 DEF Unsubscribe
  <2>4. CASE \/ Terminal \/ Take \/ CloseDone
             \/ \E c \in Clients : Subscribe(c) \/ ReceiveChunk(c) \/ Leave(c)
    <3>1. subs \subseteq subs'
      BY <2>4 DEF Terminal, Take, CloseDone, Subscribe, ReceiveChunk, Leave, subVars
    <3> QED
      BY <3>1
  <2>5. CASE UNCHANGED vars
    BY <2>5
  <2> QED
    BY <1>1, <2>1, <2>2, <2>3, <2>4, <2>5 DEF HubNext, Drain, ClientStep
<1>2. IInv /\ [HubNext]_vars => [\A c \in subs \ subs' : Excused(c)]_vars
  BY <1>1
<1> QED
  BY <1>2, Invariance, PTL DEF HubSpec, DroppedOnlyWhenBehind

-----------------------------------------------------------------------------

(***************************************************************************)
(* SessionHub implements ResumableStream: Distribute is TakeIn, Subscribe  *)
(* is Attach, ReceiveChunk is Show, Leave is Detach, and every other step  *)
(* leaves the abstract state alone.                                        *)
(***************************************************************************)

AbstractVars == <<Drained, Shown>>

\* The window of a client is determined by what it was given.
LEMMA ShownUnchanged ==
    ASSUME view' = view, attached' = attached
    PROVE  Shown' = Shown
BY DEF Shown, ViewEnd

\* What a client has been shown, in the terms of the promise.
LEMMA ShownOf ==
    \A c \in Clients :
        Shown[c] = IF c \in attached
                   THEN [from |-> ViewEnd(c) - Len(view[c]), to |-> ViewEnd(c),
                         attached |-> TRUE]
                   ELSE [from |-> 0, to |-> 0, attached |-> FALSE]
BY DEF Shown

\* Only the entry of the client that acts changes.
LEMMA ShownExcept ==
    ASSUME NEW c \in Clients, NEW w, Shown'[c] = w,
           \A d \in Clients \ {c} : view'[d] = view[d],
           \A d \in Clients \ {c} : d \in attached' <=> d \in attached
    PROVE  Shown' = [Shown EXCEPT ![c] = w]
<1>1. \A d \in Clients \ {c} : Shown'[d] = Shown[d]
  BY ShownOf DEF Shown, ViewEnd
<1>2. /\ Shown = [d \in Clients |-> Shown[d]]
      /\ Shown' = [d \in Clients |-> Shown'[d]]
  BY DEF Shown
<1> QED
  BY <1>1, <1>2

\* Distributing a chunk is the promise's taking in of output.
LEMMA DistributeIsTakeIn == IInv /\ Distribute => Promise!TakeIn
<1> SUFFICES ASSUME IInv, Distribute
             PROVE  Promise!TakeIn
  OBVIOUS
<1>1. /\ drainer = "distributing" /\ hand' = NoChunk
      /\ UNCHANGED <<emitted, out, view, attached>>
  BY DEF Distribute, streamVars
<1>2. /\ hand # NoChunk /\ hand.lo < hand.hi /\ hand.hi = ChannelStart
      /\ hand.lo \in Nat /\ hand.hi \in Nat
  BY <1>1 DEF IInv, StreamInv, TypeOK, Chunk
<1>3. Drained = hand.lo /\ Drained' = hand.hi
  BY <1>1, <1>2 DEF Drained, ChannelStart
<1>4. Shown' = Shown
  BY <1>1, ShownUnchanged
<1> QED
  BY <1>2, <1>3, <1>4 DEF Promise!TakeIn

\* Subscribing, with the replay, is attaching.
LEMMA SubscribeIsAttach == \A c \in Clients : IInv /\ Subscribe(c) => Promise!Attach(c)
<1> SUFFICES ASSUME NEW c \in Clients, IInv, Subscribe(c)
             PROVE  Promise!Attach(c)
  OBVIOUS
<1>1. /\ c \notin attached /\ attached' = attached \cup {c}
      /\ view' = [view EXCEPT ![c] = scrollback]
      /\ UNCHANGED <<emitted, out, hand>>
  BY DEF Subscribe, streamVars, hubVars
<1>2. Drained' = Drained
  BY <1>1 DEF Drained
<1>3. view'[c] = scrollback /\ scrollback \in Seq(Nat) /\ Len(scrollback) \in Nat
  BY <1>1, LenProperties DEF IInv, TypeOK
<1>4. Drained \in Nat /\ MaxScrollback \in Nat /\ MaxScrollback > 0
  BY Positions, HubAssumption DEF IInv
<1> DEFINE first == IF Drained > MaxScrollback THEN Drained - MaxScrollback ELSE 0
<1>5. Holds(scrollback, first, Drained)
  BY DEF IInv, ScrollbackIsTail
<1>6. ViewEnd(c)' = Drained
  <2>1. scrollback = <<>> => Drained = 0
    BY <1>3, <1>4, <1>5, EmptySeq DEF Holds
  <2>2. ASSUME scrollback # <<>>
        PROVE  scrollback[Len(scrollback)] = Drained
    <3>1. Len(scrollback) \in 1..Len(scrollback)
      BY <1>3, <2>2, EmptySeq
    <3> QED
      BY <1>3, <1>4, <1>5, <3>1 DEF Holds
  <2> QED
    BY <1>3, <2>1, <2>2 DEF ViewEnd
<1>7. Drained - Len(scrollback) = first
  BY <1>3, <1>4, <1>5 DEF Holds
<1>8. Shown'[c] = [from |-> first, to |-> Drained, attached |-> TRUE]
  BY <1>1, <1>3, <1>6, <1>7 DEF Shown, ViewEnd
<1>9. Shown' = [Shown EXCEPT ![c] = [from |-> first, to |-> Drained, attached |-> TRUE]]
  <2>1. /\ \A d \in Clients \ {c} : view'[d] = view[d]
        /\ \A d \in Clients \ {c} : d \in attached' <=> d \in attached
    BY <1>1 DEF IInv, TypeOK
  <2> HIDE DEF first
  <2> QED
    BY <1>8, <2>1, ShownExcept
<1>10. ~Shown[c].attached
  <2>1. Shown[c] = [from |-> 0, to |-> 0, attached |-> FALSE]
    BY <1>1 DEF Shown
  <2> QED
    BY <2>1
<1> QED
  BY <1>2, <1>9, <1>10 DEF Promise!Attach, Promise!Window, Promise!Forgotten

\* Receiving a chunk is showing more of the output.
LEMMA ReceiveChunkIsShow == \A c \in Clients : IInv /\ ReceiveChunk(c) => Promise!Show(c)
<1> SUFFICES ASSUME NEW c \in Clients, IInv, ReceiveChunk(c)
             PROVE  Promise!Show(c)
  OBVIOUS
<1>1. /\ c \in attached /\ ch[c] # <<>>
      /\ view' = [view EXCEPT ![c] = @ \o Bytes(Head(ch[c]))]
      /\ UNCHANGED <<emitted, out, hand, attached>>
  BY DEF ReceiveChunk, streamVars, hubVars
<1>2. Drained' = Drained
  BY <1>1 DEF Drained
<1>3. ClientInv(c) /\ ch[c] \in Seq(Chunk) /\ view[c] \in Seq(Nat)
  BY <1>1 DEF IInv, SubscriptionInv, TypeOK
<1> DEFINE k == ch[c][1]
<1>4. Head(ch[c]) = k /\ k \in Chunk /\ k.lo < k.hi
  BY <1>1, <1>3, ChainTail DEF ClientInv
<1>5. 1 \in 1..Len(ch[c])
  BY <1>1, <1>3, EmptySeq
<1>6. k.lo = ViewEnd(c) /\ k.lo \in Nat /\ k.hi \in Nat /\ k.hi <= Drained
  BY <1>1, <1>3, <1>4, <1>5 DEF ClientInv, Chunk
<1>7. Len(view[c]) \in Nat /\ Drained \in Nat
  BY <1>3, LenProperties, Positions DEF IInv
<1> HIDE DEF k
<1>8. view'[c] = view[c] \o Bytes(k)
  BY <1>1, <1>3, <1>4 DEF IInv, TypeOK
<1> DEFINE lo == k.lo - Len(view[c])
<1>9. lo \in Nat /\ lo < k.hi
  BY <1>3, <1>4, <1>6, <1>7 DEF ClientInv
<1>10. view'[c] \in Seq(Nat) /\ Holds(view'[c], lo, k.hi)
  <2>1. Holds(view[c], lo, k.lo)
    BY <1>3, <1>6 DEF ClientInv
  <2> HIDE DEF lo
  <2> QED
    BY <1>3, <1>4, <1>8, <1>9, <2>1, AppendBytes
<1> HIDE DEF lo
<1>11. Len(view'[c]) = k.hi - lo /\ view'[c] # <<>>
  <2>1. Len(view'[c]) = k.hi - lo
    BY <1>10 DEF Holds
  <2> QED
    BY <1>6, <1>9, <1>10, <2>1, EmptySeq
<1>12. ViewEnd(c)' = k.hi
  <2>1. Len(view'[c]) \in 1..Len(view'[c])
    BY <1>6, <1>9, <1>11
  <2>2. view'[c][Len(view'[c])] = lo + Len(view'[c])
    BY <1>10, <2>1 DEF Holds
  <2> QED
    BY <1>6, <1>9, <1>11, <2>2 DEF ViewEnd
<1>13. /\ Shown[c] = [from |-> lo, to |-> ViewEnd(c), attached |-> TRUE]
       /\ Shown'[c] = [from |-> lo, to |-> k.hi, attached |-> TRUE]
  <2>1. Shown[c] = [from |-> lo, to |-> ViewEnd(c), attached |-> TRUE]
    BY <1>1, <1>6, ShownOf DEF lo
  <2>2. k.hi - Len(view'[c]) = lo
    BY <1>6, <1>9, <1>11
  <2>3. Shown'[c] = [from |-> ViewEnd(c)' - Len(view'[c]), to |-> ViewEnd(c)',
                     attached |-> TRUE]
    BY <1>1 DEF Shown, ViewEnd
  <2> QED
    BY <1>12, <2>1, <2>2, <2>3
<1>14. Shown' = [Shown EXCEPT ![c] = [from |-> lo, to |-> k.hi, attached |-> TRUE]]
  <2>1. /\ \A d \in Clients \ {c} : view'[d] = view[d]
        /\ \A d \in Clients \ {c} : d \in attached' <=> d \in attached
    BY <1>1 DEF IInv, TypeOK
  <2> QED
    BY <1>13, <2>1, ShownExcept
<1>15. k.hi \in (Shown[c].to + 1)..Drained
  BY <1>4, <1>6, <1>7, <1>13
<1>16. Shown[c].attached /\ Shown[c].from = lo
  BY <1>13
<1>17. Shown' = [Shown EXCEPT ![c] = Promise!Window(Shown[c].from, k.hi)]
  BY <1>14, <1>16 DEF Promise!Window
<1> QED
  BY <1>2, <1>15, <1>16, <1>17 DEF Promise!Show

\* Leaving is detaching.
LEMMA LeaveIsDetach == \A c \in Clients : IInv /\ Leave(c) => Promise!Detach(c)
<1> SUFFICES ASSUME NEW c \in Clients, IInv, Leave(c)
             PROVE  Promise!Detach(c)
  OBVIOUS
<1>1. /\ c \in attached /\ attached' = attached \ {c}
      /\ view' = [view EXCEPT ![c] = <<>>]
      /\ UNCHANGED <<emitted, out, hand>>
  BY DEF Leave, streamVars, hubVars
<1>2. Drained' = Drained
  BY <1>1 DEF Drained
<1>3. Shown[c].attached
  <2>1. Shown[c] = [from |-> ViewEnd(c) - Len(view[c]), to |-> ViewEnd(c),
                    attached |-> TRUE]
    BY <1>1 DEF Shown
  <2> QED
    BY <2>1
<1>4. Shown'[c] = [from |-> 0, to |-> 0, attached |-> FALSE]
  BY <1>1 DEF Shown
<1>5. /\ \A d \in Clients \ {c} : view'[d] = view[d]
      /\ \A d \in Clients \ {c} : d \in attached' <=> d \in attached
  BY <1>1 DEF IInv, TypeOK
<1>6. Shown' = [Shown EXCEPT ![c] = [from |-> 0, to |-> 0, attached |-> FALSE]]
  BY <1>4, <1>5, ShownExcept
<1> QED
  BY <1>2, <1>3, <1>6 DEF Promise!Detach, Promise!Detached

\* The steps a client cannot see.
LEMMA OtherStepsStutter ==
    IInv /\ (\/ Terminal \/ Take \/ End \/ CloseDone \/ UNCHANGED vars
             \/ \E c \in Clients : Unsubscribe(c))
      => UNCHANGED AbstractVars
<1> SUFFICES ASSUME IInv,
                    \/ Terminal \/ Take \/ End \/ CloseDone \/ UNCHANGED vars
                    \/ \E c \in Clients : Unsubscribe(c)
             PROVE  UNCHANGED AbstractVars
  OBVIOUS
<1>1. view' = view /\ attached' = attached
  BY DEF Terminal, Take, End, CloseDone, Unsubscribe, vars, subVars
<1>2. Shown' = Shown
  BY <1>1, ShownUnchanged
<1>3. Drained' = Drained
  <2>1. CASE Terminal
    <3>1. hand' = hand
      BY <2>1 DEF Terminal, hubVars
    <3>2. CASE CloseOutput
      BY <3>1, <3>2 DEF CloseOutput, Drained
    <3>3. ASSUME NEW n \in 1..MaxChunk, Emit(n)
          PROVE  Drained' = Drained
      <4> DEFINE k == [lo |-> emitted, hi |-> emitted + n]
      <4>1. out' = Append(out, k) /\ out \in Seq(Chunk) /\ k \in Chunk /\ k.lo = emitted
        BY <3>3, StreamAssumption DEF Emit, IInv, TypeOK, StreamTypeOK, Chunk
      <4> HIDE DEF k
      <4>2. out' # <<>> /\ (out # <<>> => out'[1] = out[1]) /\ (out = <<>> => out'[1] = k)
        <5>1. Len(out) \in Nat /\ (out # <<>> <=> Len(out) > 0)
          BY <4>1, LenProperties, EmptySeq
        <5> QED
          BY <4>1, <5>1, AppendProperties
      <4> QED
        BY <3>1, <4>1, <4>2 DEF Drained
    <3> QED
      BY <2>1, <3>2, <3>3 DEF Terminal
  <2>2. CASE Take
    <3>1. drainer = "receiving" /\ out # <<>> /\ hand' = Head(out)
      BY <2>2 DEF Take, Receive
    <3>2. Head(out) = out[1] /\ out[1] \in Chunk
      BY <3>1, ChainTail DEF IInv, StreamInv, TypeOK, StreamTypeOK
    <3> QED
      BY <3>1, <3>2, HubAssumption DEF Drained, IInv, StreamInv
  <2>3. CASE End \/ CloseDone \/ UNCHANGED vars \/ \E c \in Clients : Unsubscribe(c)
    <3>1. UNCHANGED <<emitted, out, hand>>
      BY <2>3 DEF End, CloseDone, Unsubscribe, vars, streamVars, hubVars
    <3> QED
      BY <3>1 DEF Drained
  <2> QED
    BY <2>1, <2>2, <2>3
<1> QED
  BY <1>2, <1>3 DEF AbstractVars

\* The hub keeps its promise: what the clients see of a session, over all
\* behaviours, is what ResumableStream allows.
THEOREM HubKeepsThePromise == HubSpec => KeepsThePromise
<1>1. HubInit => Promise!Init
  BY DEF HubInit, StreamInit, Promise!Init, Promise!Detached, Drained, Shown
<1>2. IInv /\ [HubNext]_vars => [Promise!Next]_AbstractVars
  <2> SUFFICES ASSUME IInv, [HubNext]_vars
               PROVE  Promise!Next \/ UNCHANGED AbstractVars
    OBVIOUS
  <2>1. CASE Distribute
    BY <2>1, DistributeIsTakeIn DEF Promise!Next
  <2>2. ASSUME NEW c \in Clients, Subscribe(c) \/ ReceiveChunk(c) \/ Leave(c)
        PROVE  Promise!Next
    BY <2>2, SubscribeIsAttach, ReceiveChunkIsShow, LeaveIsDetach DEF Promise!Next
  <2>3. CASE \/ Terminal \/ Take \/ End \/ CloseDone \/ UNCHANGED vars
             \/ \E c \in Clients : Unsubscribe(c)
    BY <2>3, OtherStepsStutter
  <2> QED
    BY <2>1, <2>2, <2>3 DEF HubNext, Drain, ClientStep
<1> QED
  BY <1>1, <1>2, Invariance, PTL DEF HubSpec, KeepsThePromise, Promise!Spec, AbstractVars
=============================================================================
