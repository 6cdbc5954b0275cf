---------------------------- MODULE ResumeProofs ----------------------------
(***************************************************************************)
(* Proofs about Resume, for any ring, tail, queue and chunk size, a stream *)
(* of any length and any number of connections.                            *)
(***************************************************************************)
EXTENDS Resume, SequenceTheorems, TLAPS

(***************************************************************************)
(* The inductive invariant.                                                *)
(***************************************************************************)

\* The client has one connection at a time, the newest; how far the read loop,
\* the listener, its queue and its delivery of a connection can be apart.
OrderInv ==
    /\ cur \in {NoConn, opened}
    /\ up \subseteq {cur}
    /\ \A c \in Conns :
        /\ c > opened <=> handler[c] = "none"
        /\ c \in up => handler[c] \notin {"none", "closed"}
        /\ handler[c] \in {"none", "hello"} => writer[c] = "none" /\ qState[c] = "running"
        /\ handler[c] = "closed" => qState[c] = "stopped"
        /\ writer[c] = "none" =>
            /\ handler[c] \in {"none", "hello", "closed"}
            /\ c \notin listeners /\ c \notin targets
            /\ queue[c] = NoBytes /\ batch[c] = NoBytes
        /\ writer[c] # "none" /\ qState[c] = "running" =>
            c \in listeners /\ writer[c] \in {"drain", "write"}

\* The pump's chunk is the last that was appended to the ring.
PumpInv ==
    /\ pumpPc = "read" => chunk = NoBytes
    /\ pumpPc # "read" => chunk.from < chunk.to /\ chunk.to = end
    /\ pumpPc = "enqueue" <=> targets # {}

IsInterval(s) == s = NoBytes \/ s.from < s.to

\* What a running delivery was given is consecutive, up to the next chunk.
QueueInv ==
    \A c \in Conns :
        /\ IsInterval(queue[c]) /\ queue[c].to <= end
        /\ IsInterval(batch[c]) /\ batch[c].to <= end
        /\ writer[c] = "write" => batch[c] # NoBytes
        /\ queue[c] # NoBytes /\ batch[c] # NoBytes => queue[c].from = batch[c].to
        /\ qState[c] = "running" /\ LiveEnd(c) # 0 => NextOffered(c) = LiveEnd(c)

\* A replay was read after its listener was registered.
ReplayInv ==
    \A c \in Conns :
        /\ hello[c].offset <= end
        /\ replay[c].from <= replay[c].to /\ replay[c].to <= end
        /\ Replayed(c) /\ qState[c] = "running" =>
            NextOffered(c) <= replay[c].to \/ NextOffered(c) <= LiveEnd(c)

\* Frames are under way to the current connection only; a close is the last,
\* and there is one when the server took the connection down.
NetInv ==
    \A c \in Conns :
        /\ c # cur => net[c] = << >>
        /\ c = cur /\ c \notin up => net[c] # << >> /\ net[c][Len(net[c])].t = "close"
        /\ \A i \in 1..Len(net[c]) :
            /\ net[c][i].from <= net[c][i].to /\ net[c][i].to <= end
            /\ net[c][i].t # "output" => net[c][i].to = net[c][i].from
            /\ net[c][i].t = "close" => i = Len(net[c]) /\ c \notin up

\* The client is not ahead of the stream.
StreamInv == offset <= end /\ shownEnd <= end

\* The screen ends at the offset, except between a repaint's welcome and reset.
ClientInv ==
    Judged =>
        /\ fault = "none"
        /\ repaint = "none" => shownEnd \in {-1, offset}
        /\ repaint = "due" => cur # NoConn

\* g may come behind f on the wire: output leaves no hole, and nothing but the
\* reset (or the end of the connection) follows the welcome of a repaint.
Follows(f, g) ==
    /\ f.t # "close" /\ g.t \notin {"welcome", "welcomeRepaint"}
    /\ f.t = "welcomeRepaint" => g.t \in {"reset", "close"}
    /\ g.t = "output" => g.from <= f.to

\* f may be the next frame the client receives.
Fits(f) ==
    /\ f.t = "welcome" => repaint = "none" /\ f.from = offset
    /\ f.t = "welcomeRepaint" => repaint = "none"
    /\ f.t = "output" => f.from <= offset
    /\ repaint = "due" => f.t \in {"reset", "close"}

\* What is under way fits the client's state, and each frame the one before it.
WireInv ==
    Judged /\ cur # NoConn =>
        /\ \A i, j \in 1..Len(net[cur]) : j = i + 1 => Follows(net[cur][i], net[cur][j])
        /\ net[cur] # << >> => Fits(net[cur][1])

\* The handshake has sent nothing yet.
Early == {"hello", "slice", "tail", "welcome", "welcomeTail"}

\* The offset the client will have when all that is under way has arrived.
WireEnd == IF net[cur] = << >> THEN offset ELSE net[cur][Len(net[cur])].to

\* A live frame of c may still be written, and where the next one starts.
MayWrite(c) == writer[c] = "write" \/ (writer[c] = "drain" /\ qState[c] = "running")

NextLive(c) ==
    IF writer[c] = "write" THEN batch[c].from
    ELSE IF queue[c] # NoBytes THEN queue[c].from ELSE NextOffered(c)

\* The handshake on the current connection, step by step: what it has to send
\* starts within what was sent, and live output within what it has to send.
HandshakeInv ==
    Judged /\ cur \in up =>
        LET w == net[cur]
            last == w[Len(w)]
        IN  /\ handler[cur] \in Early => w = << >> /\ repaint = "none"
            /\ handler[cur] \in {"hello", "slice"} => hello[cur].offset = offset
            /\ handler[cur] = "welcome" => replay[cur].from = offset
            /\ handler[cur] = "reset" =>
                IF w = << >> THEN repaint = "due" ELSE last.t = "welcomeRepaint"
            /\ handler[cur] \in {"output", "reading"} =>
                IF w = << >> THEN repaint = "none" ELSE last.t # "welcomeRepaint"
            /\ handler[cur] = "output" => replay[cur].from <= WireEnd
            /\ handler[cur] \in {"welcome", "welcomeTail", "reset", "output"} /\
                  MayWrite(cur)
                => NextLive(cur) <= replay[cur].to
            /\ handler[cur] = "reading" /\ MayWrite(cur) => NextLive(cur) <= WireEnd

ResumeInv ==
    /\ TypeOK
    /\ OrderInv
    /\ PumpInv
    /\ QueueInv
    /\ ReplayInv
    /\ NetInv
    /\ StreamInv
    /\ ClientInv
    /\ WireInv
    /\ HandshakeInv

-----------------------------------------------------------------------------
(* Lemmas.                                                                 *)

\* Spans and their bounds.
LEMMA SpanFacts ==
    /\ NoBytes \in Spans /\ NoBytes.from = 0 /\ NoBytes.to = 0
    /\ \A a, b \in 0 .. MaxEnd : Span(a, b) \in Spans
    /\ \A a, b \in Int : Span(a, b).from = a /\ Span(a, b).to = b
    /\ \A s \in Spans : s.from \in 0 .. MaxEnd /\ s.to \in 0 .. MaxEnd /\
          s = Span(s.from, s.to)
BY ResumeAssumption DEF NoBytes, Span, Spans

\* The frames the handshake and the pump send.
LEMMA FrameFacts ==
    /\ \A o \in 0 .. MaxEnd : /\ Welcome(o) \in Frames /\ WelcomeRepaint(o) \in Frames
                              /\ Reset(o) \in Frames
    /\ \A s \in Spans : Output(s) \in Frames
    /\ CloseFrame \in Frames
    /\ \A f \in Frames : f.from \in 0 .. MaxEnd /\ f.to \in 0 .. MaxEnd
BY ResumeAssumption DEF Welcome, WelcomeRepaint, Reset, Output, CloseFrame, Frames, Spans

\* What a write to a connection does to the frames under way.
LEMMA SentEffect ==
    ASSUME TypeOK, NEW c \in Conns, NEW f \in Frames, Sent(c, f)
    PROVE  /\ net' \in [Conns -> Seq(Frames)]
           /\ \A d \in Conns : d # c \/ c \notin up => net'[d] = net[d]
           /\ c \in up => /\ Len(net'[c]) = Len(net[c]) + 1
                          /\ net'[c] # << >>
                          /\ net'[c][Len(net[c]) + 1] = f
                          /\ \A i \in 1 .. Len(net[c]) : net'[c][i] = net[c][i]
<1>1. net \in [Conns -> Seq(Frames)] /\ net[c] \in Seq(Frames)
    BY DEF TypeOK
<1>2. Append(net[c], f) \in Seq(Frames)
    BY <1>1
<1>3. CASE c \in up
    <2>1. net' = [net EXCEPT ![c] = Append(net[c], f)]
        BY <1>3 DEF Sent
    <2>2. /\ Len(Append(net[c], f)) = Len(net[c]) + 1
          /\ Append(net[c], f) # << >>
          /\ Append(net[c], f)[Len(net[c]) + 1] = f
          /\ \A i \in 1 .. Len(net[c]) : Append(net[c], f)[i] = net[c][i]
        BY <1>1
    <2> QED
        <3>1. net'[c] = Append(net[c], f) /\ \A d \in Conns : d # c => net'[d] = net[d]
            BY <1>1, <2>1
        <3>2. net' \in [Conns -> Seq(Frames)]
            BY <1>1, <1>2, <2>1
        <3> QED
            BY <1>3, <2>2, <3>1, <3>2
<1>4. CASE c \notin up
    BY <1>1, <1>4 DEF Sent
<1> QED
    BY <1>3, <1>4

\* Which spans a connection's queue and batch are.
LEMMA QueueTypes ==
    ASSUME TypeOK, NEW c \in Conns
    PROVE  /\ queue[c] \in Spans /\ batch[c] \in Spans /\ replay[c] \in Spans /\
                 chunk \in Spans
           /\ end \in 0 .. MaxEnd /\ offset \in 0 .. MaxEnd /\
                 hello[c].offset \in 0 .. MaxEnd
           /\ LiveEnd(c) \in 0 .. MaxEnd /\ NextOffered(c) \in 0 .. MaxEnd
BY SpanFacts DEF TypeOK, LiveEnd, NextOffered

\* A live frame still to be written starts within the stream.
LEMMA NextLiveBound ==
    ASSUME TypeOK, QueueInv, NEW c \in Conns, NextOffered(c) <= end
    PROVE  NextLive(c) <= end
<1>1. ASSUME NEW s \in Spans, IsInterval(s), s.to <= end
      PROVE  s.from <= end
    BY <1>1, QueueTypes, SpanFacts DEF IsInterval
<1>2. queue[c].from <= end /\ batch[c].from <= end
    BY <1>1, QueueTypes DEF QueueInv
<1> QED
    BY <1>2 DEF NextLive

\* A frame other than a close keeps the network's invariant.
LEMMA SentNet ==
    ASSUME TypeOK, OrderInv, NetInv, NEW c \in Conns, NEW f \in Frames, Sent(c, f),
           f.from <= f.to, f.to <= end, f.t # "close", f.t # "output" => f.from = f.to,
           UNCHANGED <<cur, up, end>>
    PROVE  NetInv'
<1> SUFFICES ASSUME NEW d \in Conns
             PROVE  NetInv!(d)'
    BY DEF NetInv
<1>1. net[d] \in Seq(Frames) /\ Len(net[d]) \in Nat
    BY DEF TypeOK
<1>2. CASE d # c \/ d \notin up
    BY <1>2, SentEffect DEF NetInv
<1>3. CASE d = c /\ d \in up
    <2>1. d = cur
        BY <1>3 DEF OrderInv
    <2>2. /\ Len(net'[d]) = Len(net[d]) + 1
          /\ net'[d][Len(net[d]) + 1] = f
          /\ \A i \in 1 .. Len(net[d]) : net'[d][i] = net[d][i]
        BY <1>3, SentEffect
    <2>3. ASSUME NEW i \in 1 .. Len(net'[d])
          PROVE  NetInv!(d)!3!(i)'
        <3>1. CASE i \in 1 .. Len(net[d])
            <4>1. net[d][i].t # "close"
                BY <1>3, <3>1 DEF NetInv
            <4> QED
                BY <2>2, <3>1, <4>1 DEF NetInv
        <3>2. CASE i = Len(net[d]) + 1
            BY <2>2, <3>2
        <3> QED
            BY <1>1, <2>2, <3>1, <3>2
    <2> QED
        BY <1>3, <2>1, <2>3
<1> QED
    BY <1>2, <1>3

\* A frame that fits what is under way keeps the order on the wire.
LEMMA SentWire ==
    ASSUME TypeOK, OrderInv, NetInv, WireInv, NEW c \in Conns, NEW f \in Frames, Sent(c, f),
           Judged, UNCHANGED <<cur, offset, repaint>>,
           c = cur /\ c \in up => IF net[c] = << >> THEN Fits(f)
              ELSE Follows(net[c][Len(net[c])], f)
    PROVE  WireInv'
<1> SUFFICES ASSUME cur # NoConn
             PROVE  /\ \A i, j \in 1 .. Len(net'[cur]) : j = i + 1 =>
                          Follows(net'[cur][i], net'[cur][j])
                    /\ net'[cur] # << >> => Fits(net'[cur][1])
    BY DEF WireInv, Fits
<1>1. cur \in Conns /\ net[cur] \in Seq(Frames) /\ Len(net[cur]) \in Nat
    BY DEF TypeOK
<1>2. CASE c # cur \/ c \notin up
    BY <1>1, <1>2, SentEffect DEF WireInv
<1>3. CASE c = cur /\ c \in up
    <2>1. /\ Len(net'[cur]) = Len(net[cur]) + 1
          /\ net'[cur][Len(net[cur]) + 1] = f
          /\ \A i \in 1 .. Len(net[cur]) : net'[cur][i] = net[cur][i]
        BY <1>3, SentEffect
    <2>2. CASE net[cur] = << >>
        BY <1>1, <1>3, <2>1, <2>2
    <2>3. CASE net[cur] # << >>
        <3>1. Len(net[cur]) >= 1
            BY <1>1, <2>3
        <3>2. Fits(net'[cur][1])
            BY <1>1, <2>1, <2>3, <3>1 DEF WireInv
        <3>3. ASSUME NEW i \in 1 .. Len(net'[cur]), NEW j \in 1 .. Len(net'[cur]), j = i + 1
              PROVE  Follows(net'[cur][i], net'[cur][j])
            <4>1. CASE j <= Len(net[cur])
                BY <1>1, <2>1, <3>3, <4>1 DEF WireInv
            <4>2. CASE j = Len(net[cur]) + 1
                BY <1>1, <1>3, <2>1, <2>3, <3>3, <4>2
            <4> QED
                BY <1>1, <2>1, <3>3, <4>1, <4>2
        <3> QED
            BY <3>2, <3>3
    <2> QED
        BY <2>2, <2>3
<1> QED
    BY <1>2, <1>3

\* The last frame under way ends where the wire ends.
LEMMA SentWireEnd ==
    ASSUME TypeOK, NEW f \in Frames, cur \in up, cur \in Conns, Sent(cur, f), cur' = cur
    PROVE  /\ net'[cur] # << >> /\ net'[cur][Len(net'[cur])] = f
           /\ WireEnd' = f.to
BY SentEffect DEF WireEnd

-----------------------------------------------------------------------------
(* Every action preserves the invariant.                                   *)

\* The pump appends what it read.
LEMMA PumpAppendStep ==
    ASSUME ResumeInv, PumpAppend
    PROVE  ResumeInv'
<1>1. /\ TypeOK /\ OrderInv /\ PumpInv /\ QueueInv /\ ReplayInv
      /\ NetInv /\ StreamInv /\ ClientInv /\ WireInv /\ HandshakeInv
    BY DEF ResumeInv
<1>2. PICK n \in 1 .. MaxChunk : end + n <= MaxEnd /\ chunk' = Span(end, end + n) /\
              end' = end + n
    BY DEF PumpAppend
<1>3. end \in 0 .. MaxEnd /\ end' \in 0 .. MaxEnd /\ end < end'
    BY <1>1, <1>2, ResumeAssumption DEF TypeOK
<1>4. chunk' \in Spans /\ chunk'.from = end /\ chunk'.to = end' /\ end < end' /\
         end' \in 0 .. MaxEnd /\ end \in 0 .. MaxEnd
    BY <1>2, <1>3, SpanFacts
<1>5. \A c \in Conns : NextOffered(c)' = end /\ NextOffered(c) = end /\
         LiveEnd(c)' = LiveEnd(c)
    BY <1>1, <1>4 DEF PumpAppend, PumpInv, NextOffered, LiveEnd, queueVars
<1>6. TypeOK'
    BY <1>1, <1>4 DEF PumpAppend, TypeOK, queueVars, clientVars, seenVars
<1>7. PumpInv'
    BY <1>1 DEF PumpAppend, Span, TypeOK, PumpInv
<1>8. QueueInv'
    <2> SUFFICES ASSUME NEW c \in Conns
                 PROVE  QueueInv!(c)'
        BY DEF QueueInv
    <2>1. queue[c].to \in 0 .. MaxEnd /\ batch[c].to \in 0 .. MaxEnd
        BY <1>1, QueueTypes, SpanFacts
    <2>2. UNCHANGED <<queue, batch, writer, qState>>
        BY DEF PumpAppend, queueVars
    <2> QED
        BY <1>1, <1>4, <1>5, <2>1, <2>2 DEF QueueInv, IsInterval
<1>9. ReplayInv'
    <2> SUFFICES ASSUME NEW c \in Conns
                 PROVE  ReplayInv!(c)'
        BY DEF ReplayInv
    <2>1. hello[c].offset \in 0 .. MaxEnd /\ replay[c].to \in 0 .. MaxEnd
        BY <1>1, QueueTypes, SpanFacts
    <2>2. UNCHANGED <<hello, replay, handler, qState>>
        BY DEF PumpAppend, queueVars
    <2> QED
        BY <1>1, <1>4, <1>5, <2>1, <2>2 DEF ReplayInv, Replayed
<1>10. NetInv'
    <2>1. \A c \in Conns : \A i \in 1 .. Len(net[c]) : net[c][i].to \in 0 .. MaxEnd
        BY <1>1, FrameFacts DEF TypeOK
    <2>2. UNCHANGED <<net, up, cur>>
        BY DEF PumpAppend, clientVars
    <2> QED
        BY <1>1, <1>4, <2>1, <2>2 DEF NetInv
<1>11. StreamInv'
    BY <1>1 DEF PumpAppend, clientVars, seenVars, TypeOK, StreamInv
<1>12. HandshakeInv'
    BY <1>1
       DEF PumpAppend, Span, queueVars, clientVars, HandshakeInv, Judged, MayWrite,
           NextLive, NextOffered, WireEnd
<1>13. OrderInv' /\ ClientInv' /\ WireInv'
    BY <1>1
       DEF PumpAppend, queueVars, clientVars, OrderInv, seenVars, ClientInv, Judged,
           WireInv, Fits
<1> QED
    BY <1>6, <1>7, <1>8, <1>9, <1>10, <1>11, <1>12, <1>13 DEF ResumeInv

\* The pump chooses the listeners that get the chunk.
LEMMA PumpFanoutStep ==
    ASSUME ResumeInv, PumpFanout
    PROVE  ResumeInv'
<1>1. /\ TypeOK /\ OrderInv /\ PumpInv /\ QueueInv /\ ReplayInv
      /\ NetInv /\ StreamInv /\ ClientInv /\ WireInv /\ HandshakeInv
    BY DEF ResumeInv
<1>2. /\ pumpPc = "fanout" /\ targets' = listeners
      /\ IF listeners = {} THEN pumpPc' = "read" /\ chunk' = NoBytes
            ELSE pumpPc' = "enqueue" /\ chunk' = chunk
      /\ UNCHANGED <<end, listeners, handler, hello, replay, queue, qState, writer, batch,
                     cur, up, net, offset>>
    BY DEF PumpFanout, PumpDone, queueVars, clientVars
<1>3. \A c \in Conns : /\ LiveEnd(c)' = LiveEnd(c)
                       /\ NextOffered(c) = chunk.from
                       /\ NextOffered(c)' = IF c \in listeners THEN chunk.from ELSE end
    BY <1>2 DEF NextOffered, LiveEnd
<1>4. TypeOK'
    BY <1>1, SpanFacts DEF PumpFanout, PumpDone, queueVars, clientVars, seenVars, TypeOK
<1>5. OrderInv'
    BY <1>1 DEF PumpFanout, queueVars, clientVars, OrderInv
<1>6. PumpInv'
    BY <1>1 DEF PumpFanout, PumpDone, PumpInv
<1>7. QueueInv'
    <2> SUFFICES ASSUME NEW c \in Conns
                 PROVE  QueueInv!(c)'
        BY DEF QueueInv
    <2>1. c \notin listeners => (qState[c] # "running" \/ LiveEnd(c) = 0)
        BY <1>1, SpanFacts DEF OrderInv, LiveEnd, IsEmpty
    <2> QED
        BY <1>1, <1>2, <1>3, <2>1 DEF QueueInv, IsInterval
<1>8. ReplayInv'
    <2> SUFFICES ASSUME NEW c \in Conns
                 PROVE  ReplayInv!(c)'
        BY DEF ReplayInv
    <2>1. c \notin listeners => (qState[c] # "running" \/ ~Replayed(c))
        BY <1>1 DEF OrderInv, Replayed
    <2> QED
        BY <1>1, <1>2, <1>3, <2>1 DEF ReplayInv, Replayed
<1>9. HandshakeInv'
    <2> SUFFICES ASSUME Judged', cur' \in up'
                 PROVE  HandshakeInv!2'
        BY DEF HandshakeInv
    <2>1. Judged /\ cur \in up /\ cur \in Conns
        BY <1>1, <1>2 DEF Judged, PumpFanout, OrderInv, TypeOK
    <2>2. MayWrite(cur) => (cur \in listeners \/ writer[cur] = "write")
        BY <1>1, <2>1 DEF OrderInv, MayWrite
    <2>3. MayWrite(cur)' = MayWrite(cur) /\ (MayWrite(cur) =>
             NextLive(cur)' = NextLive(cur)) /\ WireEnd' = WireEnd
        BY <1>2, <1>3, <2>1, <2>2 DEF MayWrite, NextLive, WireEnd
    <2> QED
        BY <1>1, <1>2, <2>1, <2>3 DEF HandshakeInv, Judged, PumpFanout
<1>10. NetInv' /\ StreamInv' /\ ClientInv' /\ WireInv'
    BY <1>1
       DEF PumpFanout, clientVars, NetInv, seenVars, StreamInv, ClientInv, Judged,
           WireInv, Fits
<1> QED
    BY <1>4, <1>5, <1>6, <1>7, <1>8, <1>9, <1>10 DEF ResumeInv

\* The pump queues the chunk for one listener.
LEMMA PumpEnqueueStep ==
    ASSUME ResumeInv, NEW c \in Conns, PumpEnqueue(c)
    PROVE  ResumeInv'
<1>1. /\ TypeOK /\ OrderInv /\ PumpInv /\ QueueInv /\ ReplayInv
      /\ NetInv /\ StreamInv /\ ClientInv /\ WireInv /\ HandshakeInv
    BY DEF ResumeInv
<1>2. /\ pumpPc = "enqueue" /\ c \in targets /\ targets' = targets \ {c}
      /\ IF targets' = {} THEN pumpPc' = "read" /\ chunk' = NoBytes
            ELSE pumpPc' = pumpPc /\ chunk' = chunk
      /\ UNCHANGED <<end, listeners, handler, hello, replay, writer, batch, cur, up, net,
                     offset>>
    BY DEF PumpEnqueue, PumpDone, clientVars
<1>3. /\ chunk.from < chunk.to /\ chunk.to = end /\ chunk \in Spans /\
            queue[c] \in Spans /\ batch[c] \in Spans
      /\ end \in 0 .. MaxEnd /\ 0 < end
    BY <1>1, <1>2, QueueTypes, SpanFacts DEF PumpInv
<1>4. \A d \in Conns : d # c => queue'[d] = queue[d] /\ qState'[d] = qState[d]
    BY <1>1 DEF PumpEnqueue, TypeOK
<1>5. NextOffered(c) = chunk.from /\ NextOffered(c)' = end
    BY <1>2 DEF NextOffered
<1>6. \A d \in Conns : d # c => NextOffered(d)' = NextOffered(d) /\ LiveEnd(d)' = LiveEnd(d)
    BY <1>2, <1>4 DEF NextOffered, LiveEnd, IsEmpty
<1>7. qState[c] # "running" => UNCHANGED <<queue, qState>>
    BY DEF PumpEnqueue
<1>8. ASSUME qState[c] = "running"
      PROVE  /\ queue' = [queue EXCEPT ![c] = queue'[c]]
             /\ queue'[c].to = end /\ queue'[c].from < end /\ queue'[c] \in Spans
             /\ queue[c] = NoBytes => queue'[c].from = chunk.from
             /\ queue[c] # NoBytes => queue'[c].from = queue[c].from
             /\ qState' \in [Conns -> {"running", "overflowed", "stopped"}]
    <2> DEFINE q == IF IsEmpty(queue[c]) THEN chunk
                    ELSE Span(queue[c].from, queue[c].to + Size(chunk))
    <2>1. queue' = [queue EXCEPT ![c] = q]
        BY <1>8 DEF PumpEnqueue
    <2>2. queue'[c] = q /\ queue' = [queue EXCEPT ![c] = queue'[c]]
        BY <1>1, <2>1 DEF TypeOK
    <2>3. /\ IsEmpty(queue[c]) <=> queue[c] = NoBytes
          /\ ~IsEmpty(queue[c]) => queue[c].from < queue[c].to /\ LiveEnd(c) = queue[c].to
        BY <1>1, <1>3, SpanFacts DEF QueueInv, IsInterval, IsEmpty, LiveEnd
    <2>4. ~IsEmpty(queue[c]) => queue[c].to = chunk.from
        BY <1>1, <1>3, <1>5, <1>8, <2>3, SpanFacts DEF QueueInv
    <2>5. ~IsEmpty(queue[c]) => q = Span(queue[c].from, end)
        BY <1>3, <2>4, SpanFacts DEF Size
    <2>6. /\ q.to = end /\ q.from < end /\ q \in Spans
          /\ queue[c] = NoBytes => q.from = chunk.from
          /\ queue[c] # NoBytes => q.from = queue[c].from
        BY <1>3, <2>3, <2>4, <2>5, SpanFacts
    <2>7. qState' \in [Conns -> {"running", "overflowed", "stopped"}]
        <3>1. qState \in [Conns -> {"running", "overflowed", "stopped"}]
            BY <1>1 DEF TypeOK
        <3>2. \/ qState' = [qState EXCEPT ![c] = "overflowed"]
              \/ qState' = [qState EXCEPT ![c] = qState[c]]
            BY <1>8 DEF PumpEnqueue
        <3> QED
            BY <3>1, <3>2
    <2> QED
        BY <2>2, <2>6, <2>7
<1>9. qState[c] = "running" => LiveEnd(c)' = end
    BY <1>3, <1>8, SpanFacts DEF LiveEnd, IsEmpty
<1>10. qState'[c] = "running" => qState[c] = "running"
    BY <1>7
<1>11. TypeOK'
    <2>1. queue' \in [Conns -> Spans] /\ qState' \in [Conns -> {"running", "overflowed",
             "stopped"}]
        BY <1>1, <1>7, <1>8 DEF TypeOK
    <2>2. /\ chunk' \in Spans /\ targets' \subseteq Conns /\ pumpPc' \in {"read",
                "fanout", "enqueue"}
          /\ UNCHANGED <<end, listeners, handler, hello, replay, writer, batch, net, up,
                         clientVars, seenVars, raced, repaint>>
        BY <1>1, <1>2, SpanFacts DEF TypeOK, PumpEnqueue
    <2> QED
        BY <1>1, <2>1, <2>2 DEF TypeOK, clientVars, seenVars
<1>12. OrderInv'
    BY <1>1 DEF PumpEnqueue, clientVars, TypeOK, OrderInv
<1>13. PumpInv'
    BY <1>1 DEF PumpEnqueue, PumpDone, PumpInv
<1>14. QueueInv'
    <2> SUFFICES ASSUME NEW d \in Conns
                 PROVE  QueueInv!(d)'
        BY DEF QueueInv
    <2>1. CASE d # c
        BY <1>1, <1>2, <1>4, <1>6, <2>1 DEF QueueInv, IsInterval
    <2>2. CASE d = c /\ qState[c] # "running"
        BY <1>1, <1>2, <1>7, <1>10, <2>2 DEF QueueInv, IsInterval
    <2>3. CASE d = c /\ qState[c] = "running"
        <3>1. batch[c] # NoBytes /\ queue[c] = NoBytes => chunk.from = batch[c].to
            <4>1. batch[c] # NoBytes /\ queue[c] = NoBytes => LiveEnd(c) = batch[c].to /\
                     batch[c].to # 0
                BY <1>1, <1>3, SpanFacts DEF QueueInv, IsInterval, LiveEnd, IsEmpty
            <4> QED
                BY <1>1, <1>5, <2>3, <4>1 DEF QueueInv
        <3>2. /\ IsInterval(queue[c])' /\ queue'[c].to <= end /\ IsInterval(batch[c])' /\
                    batch[c]'.to <= end'
              /\ writer'[c] = "write" => batch'[c] # NoBytes
            BY <1>1, <1>2, <1>3, <1>8, <2>3 DEF QueueInv, IsInterval
        <3>3. queue'[c] # NoBytes /\ batch'[c] # NoBytes => queue'[c].from = batch'[c].to
            BY <1>1, <1>2, <1>8, <2>3, <3>1 DEF QueueInv
        <3> QED
            BY <1>2, <1>5, <1>9, <2>3, <3>2, <3>3
    <2> QED
        BY <2>1, <2>2, <2>3
<1>15. ReplayInv'
    <2> SUFFICES ASSUME NEW d \in Conns
                 PROVE  ReplayInv!(d)'
        BY DEF ReplayInv
    <2>1. CASE d # c
        BY <1>1, <1>2, <1>4, <1>6, <2>1 DEF ReplayInv, Replayed
    <2>2. CASE d = c
        BY <1>1, <1>2, <1>3, <1>5, <1>7, <1>9, <1>10, <2>2 DEF ReplayInv, Replayed
    <2> QED
        BY <2>1, <2>2
<1>16. HandshakeInv'
    <2> SUFFICES ASSUME Judged', cur' \in up'
                 PROVE  HandshakeInv!2'
        BY DEF HandshakeInv
    <2>1. Judged /\ cur \in up /\ cur \in Conns
        BY <1>1, <1>2 DEF Judged, PumpEnqueue, OrderInv, TypeOK
    <2>2. WireEnd' = WireEnd
        BY <1>2 DEF WireEnd
    <2>3. CASE cur # c
        <3>1. MayWrite(cur)' = MayWrite(cur) /\ NextLive(cur)' = NextLive(cur)
            BY <1>2, <1>4, <1>6, <2>1, <2>3 DEF MayWrite, NextLive
        <3> QED
            BY <1>1, <1>2, <2>1, <2>2, <3>1 DEF HandshakeInv, PumpEnqueue, Judged
    <2>4. CASE cur = c
        <3>1. MayWrite(cur)' => MayWrite(cur) /\ NextLive(cur)' = NextLive(cur)
            BY <1>2, <1>3, <1>5, <1>7, <1>8, <1>10, <2>1, <2>4, SpanFacts DEF MayWrite,
               NextLive
        <3> QED
            BY <1>1, <1>2, <2>1, <2>2, <3>1 DEF HandshakeInv, PumpEnqueue, Judged
    <2> QED
        BY <2>3, <2>4
<1>17. NetInv' /\ StreamInv' /\ ClientInv' /\ WireInv'
    BY <1>1
       DEF PumpEnqueue, clientVars, NetInv, seenVars, StreamInv, ClientInv, Judged,
           WireInv, Fits
<1> QED
    BY <1>11, <1>12, <1>13, <1>14, <1>15, <1>16, <1>17 DEF ResumeInv

\* A delivery takes what is queued.
LEMMA WriterTakeStep ==
    ASSUME ResumeInv, NEW c \in Conns, WriterTake(c)
    PROVE  ResumeInv'
<1>1. /\ TypeOK /\ OrderInv /\ PumpInv /\ QueueInv /\ ReplayInv
      /\ NetInv /\ StreamInv /\ ClientInv /\ WireInv /\ HandshakeInv
    BY DEF ResumeInv
<1>2. TypeOK'
    BY <1>1, SpanFacts DEF WriterTake, sessionVars, clientVars, seenVars, TypeOK
<1>3. OrderInv'
    BY <1>1 DEF WriterTake, sessionVars, clientVars, OrderInv
<1>4. QueueInv'
    BY <1>1
       DEF WriterTake, IsEmpty, NoBytes, sessionVars, TypeOK, QueueInv, IsInterval,
           NextOffered, LiveEnd, Conns, Span
<1>5. ReplayInv'
    BY <1>1
       DEF WriterTake, IsEmpty, NoBytes, sessionVars, TypeOK, ReplayInv, Replayed,
           NextOffered, LiveEnd, Span
<1>6. HandshakeInv'
    BY <1>1
       DEF WriterTake, IsEmpty, NoBytes, sessionVars, clientVars, TypeOK, HandshakeInv,
           Judged, MayWrite, NextLive, NextOffered, WireEnd, Conns, Span
<1>7. PumpInv' /\ NetInv' /\ StreamInv' /\ ClientInv' /\ WireInv'
    BY <1>1
       DEF WriterTake, sessionVars, PumpInv, clientVars, NetInv, seenVars, StreamInv,
           ClientInv, Judged, WireInv, Fits
<1> QED
    BY <1>2, <1>3, <1>4, <1>5, <1>6, <1>7 DEF ResumeInv

\* A delivery writes its batch.
LEMMA WriterSendStep ==
    ASSUME ResumeInv, NEW c \in Conns, WriterSend(c)
    PROVE  ResumeInv'
<1>1. /\ TypeOK /\ OrderInv /\ PumpInv /\ QueueInv /\ ReplayInv
      /\ NetInv /\ StreamInv /\ ClientInv /\ WireInv /\ HandshakeInv
    BY DEF ResumeInv
<1>2. /\ writer[c] = "write" /\ Sent(c, Output(batch[c]))
      /\ raced' = (raced \/ handler[c] # "reading")
      /\ writer' = [writer EXCEPT ![c] = "drain"]
      /\ UNCHANGED <<end, pumpPc, chunk, targets, handler, hello, replay, queue, qState,
                     batch, up, cur, offset, repaint>>
    BY DEF WriterSend, sessionVars, clientVars
<1>3. batch[c] \in Spans /\ Output(batch[c]) \in Frames
    BY <1>1, QueueTypes, FrameFacts
<1>4. batch[c].from < batch[c].to /\ batch[c].to <= end
    BY <1>1, <1>2 DEF QueueInv, IsInterval
<1>5. TypeOK'
    BY <1>1, FrameFacts, SentEffect DEF WriterSend, sessionVars, clientVars, seenVars,
       TypeOK
<1>6. OrderInv'
    BY <1>1 DEF WriterSend, sessionVars, clientVars, OrderInv
<1>7. QueueInv'
    BY <1>1 DEF WriterSend, sessionVars, QueueInv, NextOffered, LiveEnd
<1>8. NetInv'
    <2>1. LET f == Output(batch[c]) IN f.t = "output" /\ f.from = batch[c].from /\
             f.to = batch[c].to
        BY DEF Output
    <2>2. batch[c].from <= batch[c].to
        BY <1>3, <1>4, SpanFacts
    <2> QED
        BY <1>1, <1>2, <1>3, <1>4, <2>1, <2>2, SentNet
<1>9. ClientInv'
    BY <1>1 DEF WriterSend, clientVars, seenVars, ClientInv, Judged
<1>10. WireInv'
    <2> SUFFICES ASSUME Judged'
                 PROVE  WireInv'
        BY DEF WireInv
    <2>1. Judged /\ handler[c] = "reading"
        BY <1>2 DEF Judged
    <2>2. ASSUME c = cur, c \in up
          PROVE  IF net[c] = << >> THEN Fits(Output(batch[c]))
                    ELSE Follows(net[c][Len(net[c])], Output(batch[c]))
        <3>1. batch[c].from <= WireEnd
            BY <1>1, <1>2, <2>1, <2>2 DEF HandshakeInv, MayWrite, NextLive
        <3>2. net[c] # << >> => net[c][Len(net[c])].t # "welcomeRepaint" /\
                 net[c][Len(net[c])].t # "close"
            <4>1. net[c] # << >> => Len(net[c]) \in 1 .. Len(net[c])
                BY <1>1 DEF TypeOK
            <4> QED
                BY <1>1, <2>1, <2>2, <4>1 DEF HandshakeInv, NetInv
        <3>3. net[c] = << >> => repaint = "none"
            BY <1>1, <2>1, <2>2 DEF HandshakeInv
        <3> QED
            BY <2>2, <3>1, <3>2, <3>3 DEF Fits, Follows, Output, WireEnd
    <2> QED
        BY <1>1, <1>2, <1>3, <2>1, <2>2, SentWire
<1>11. HandshakeInv'
    <2> SUFFICES ASSUME Judged', cur' \in up'
                 PROVE  HandshakeInv!2'
        BY DEF HandshakeInv
    <2>1. Judged /\ handler[c] = "reading" /\ cur \in up /\ cur \in Conns
        BY <1>1, <1>2 DEF Judged, TypeOK
    <2>2. CASE cur # c
        <3>1. net'[cur] = net[cur] /\ writer'[cur] = writer[cur]
            BY <1>1, <1>2, <1>3, <2>1, <2>2, SentEffect DEF TypeOK
        <3>2. MayWrite(cur)' = MayWrite(cur) /\ NextLive(cur)' = NextLive(cur) /\
                 WireEnd' = WireEnd
            BY <1>2, <3>1 DEF MayWrite, NextLive, NextOffered, WireEnd
        <3> QED
            BY <1>1, <1>2, <2>1, <3>1, <3>2 DEF HandshakeInv
    <2>3. CASE cur = c
        <3>1. net'[cur] # << >> /\ net'[cur][Len(net'[cur])].t = "output" /\
                 WireEnd' = batch[c].to
            BY <1>1, <1>2, <1>3, <2>1, <2>3, SentWireEnd DEF Output
        <3>2. MayWrite(cur)' => NextLive(cur)' <= batch[c].to
            <4>1. batch[c] # NoBytes /\ (queue[c] # NoBytes => queue[c].from = batch[c].to)
                BY <1>1, <1>2 DEF QueueInv
            <4>2. queue[c] = NoBytes => LiveEnd(c) = batch[c].to /\ LiveEnd(c) # 0
                BY <1>3, <1>4, SpanFacts DEF LiveEnd, IsEmpty
            <4>3. qState[c] = "running" /\ queue[c] = NoBytes =>
                     NextOffered(c) = batch[c].to
                BY <1>1, <4>2 DEF QueueInv
            <4>4. writer'[c] = "drain" /\ NextOffered(c)' = NextOffered(c)
                BY <1>1, <1>2 DEF TypeOK, NextOffered
            <4> QED
                BY <1>1, <1>2, <1>3, <2>3, <4>1, <4>3, <4>4, SpanFacts DEF MayWrite,
                   NextLive
        <3> QED
            BY <1>2, <2>1, <2>3, <3>1, <3>2 DEF Early
    <2> QED
        BY <2>2, <2>3
<1>12. PumpInv' /\ ReplayInv' /\ StreamInv'
    BY <1>1
       DEF WriterSend, sessionVars, PumpInv, ReplayInv, Replayed, NextOffered, LiveEnd,
           clientVars, seenVars, StreamInv
<1> QED
    BY <1>5, <1>6, <1>7, <1>8, <1>9, <1>10, <1>11, <1>12 DEF ResumeInv

\* A delivery fails.
LEMMA WriterFailStep ==
    ASSUME ResumeInv, NEW c \in Conns, WriterFail(c)
    PROVE  ResumeInv'
<1>1. /\ TypeOK /\ OrderInv /\ PumpInv /\ QueueInv /\ ReplayInv
      /\ NetInv /\ StreamInv /\ ClientInv /\ WireInv /\ HandshakeInv
    BY DEF ResumeInv
<1>2. TypeOK'
    BY <1>1, SpanFacts DEF WriterFail, sessionVars, clientVars, seenVars, TypeOK
<1>3. OrderInv'
    BY <1>1 DEF WriterFail, sessionVars, clientVars, TypeOK, OrderInv
<1>4. QueueInv'
    BY <1>1
       DEF WriterFail, NoBytes, sessionVars, TypeOK, QueueInv, IsInterval, NextOffered,
           LiveEnd, Conns, Span
<1>5. ReplayInv'
    BY <1>1 DEF WriterFail, sessionVars, TypeOK, ReplayInv, Replayed, NextOffered, LiveEnd
<1>6. HandshakeInv'
    BY <1>1
       DEF WriterFail, sessionVars, clientVars, TypeOK, HandshakeInv, Judged, MayWrite,
           NextLive, NextOffered, WireEnd
<1>7. PumpInv' /\ NetInv' /\ StreamInv' /\ ClientInv' /\ WireInv'
    BY <1>1
       DEF WriterFail, sessionVars, PumpInv, clientVars, NetInv, seenVars, StreamInv,
           ClientInv, Judged, WireInv, Fits
<1> QED
    BY <1>2, <1>3, <1>4, <1>5, <1>6, <1>7 DEF ResumeInv

\* A failed delivery removes its listener and closes the connection.
LEMMA WriterCloseStep ==
    ASSUME ResumeInv, NEW c \in Conns, WriterClose(c)
    PROVE  ResumeInv'
<1>1. /\ TypeOK /\ OrderInv /\ PumpInv /\ QueueInv /\ ReplayInv
      /\ NetInv /\ StreamInv /\ ClientInv /\ WireInv /\ HandshakeInv
    BY DEF ResumeInv
<1>2. /\ writer[c] = "onerror" /\ Sent(c, CloseFrame) /\ CloseFrame \in Frames
      /\ up' = up \ {c}
      /\ UNCHANGED <<end, cur, offset, raced, repaint>>
    BY FrameFacts DEF WriterClose, sessionVars, clientVars
<1>3. TypeOK'
    <2>1. net' \in [Conns -> Seq(Frames)]
        BY <1>1, <1>2, SentEffect
    <2> QED
        BY <1>1, <2>1 DEF WriterClose, sessionVars, clientVars, seenVars, TypeOK
<1>4. OrderInv'
    BY <1>1 DEF WriterClose, sessionVars, clientVars, OrderInv
<1>5. QueueInv'
    BY <1>1 DEF WriterClose, sessionVars, QueueInv, NextOffered, LiveEnd
<1>6. NetInv'
    <2> SUFFICES ASSUME NEW d \in Conns
                 PROVE  NetInv!(d)'
        BY DEF NetInv
    <2>1. net[d] \in Seq(Frames) /\ Len(net[d]) \in Nat
        BY <1>1 DEF TypeOK
    <2>2. CASE d # c \/ d \notin up
        BY <1>1, <1>2, <2>2, SentEffect DEF NetInv
    <2>3. CASE d = c /\ d \in up
        <3>1. d = cur
            BY <1>1, <2>3 DEF OrderInv
        <3>2. /\ Len(net'[d]) = Len(net[d]) + 1 /\ net'[d] # << >>
              /\ net'[d][Len(net[d]) + 1] = CloseFrame
              /\ \A i \in 1 .. Len(net[d]) : net'[d][i] = net[d][i]
            BY <1>1, <1>2, <2>3, SentEffect
        <3>3. CloseFrame.t = "close" /\ CloseFrame.from = 0 /\ CloseFrame.to = 0 /\
                 end \in Nat
            BY <1>1, ResumeAssumption DEF CloseFrame, TypeOK
        <3>4. ASSUME NEW i \in 1 .. Len(net'[d])
              PROVE  NetInv!(d)!3!(i)'
            <4>1. CASE i \in 1 .. Len(net[d])
                <5>1. net[d][i].t # "close"
                    BY <1>1, <2>3, <4>1 DEF NetInv
                <5> QED
                    BY <1>1, <1>2, <3>2, <4>1, <5>1 DEF NetInv
            <4>2. CASE i = Len(net[d]) + 1
                BY <1>2, <2>3, <3>2, <3>3, <4>2
            <4> QED
                BY <2>1, <3>2, <4>1, <4>2
        <3> QED
            BY <1>2, <2>1, <2>3, <3>1, <3>2, <3>3, <3>4
    <2> QED
        BY <2>2, <2>3
<1>7. WireInv'
    <2> SUFFICES ASSUME Judged
                 PROVE  WireInv'
        BY <1>2 DEF WireInv, Judged
    <2>1. ASSUME c = cur, c \in up
          PROVE  IF net[c] = << >> THEN Fits(CloseFrame)
                    ELSE Follows(net[c][Len(net[c])], CloseFrame)
        <3>1. net[c] # << >> => net[c][Len(net[c])].t # "close"
            <4>1. net[c] # << >> => Len(net[c]) \in 1 .. Len(net[c])
                BY <1>1 DEF TypeOK
            <4> QED
                BY <1>1, <2>1, <4>1 DEF NetInv
        <3> QED
            BY <2>1, <3>1 DEF Fits, Follows, CloseFrame
    <2> QED
        BY <1>1, <1>2, <2>1, SentWire
<1>8. HandshakeInv'
    BY <1>1
       DEF WriterClose, sessionVars, clientVars, HandshakeInv, Judged, MayWrite,
           NextLive, NextOffered, WireEnd, Sent
<1>9. PumpInv' /\ ReplayInv' /\ StreamInv' /\ ClientInv'
    BY <1>1
       DEF WriterClose, sessionVars, PumpInv, ReplayInv, Replayed, NextOffered,
           LiveEnd, clientVars, seenVars, StreamInv, ClientInv, Judged
<1> QED
    BY <1>3, <1>4, <1>5, <1>6, <1>7, <1>8, <1>9 DEF ResumeInv

\* A stopped delivery ends.
LEMMA WriterStoppedStep ==
    ASSUME ResumeInv, NEW c \in Conns, WriterStopped(c)
    PROVE  ResumeInv'
<1>1. /\ TypeOK /\ OrderInv /\ PumpInv /\ QueueInv /\ ReplayInv
      /\ NetInv /\ StreamInv /\ ClientInv /\ WireInv /\ HandshakeInv
    BY DEF ResumeInv
<1>2. TypeOK'
    BY <1>1, SpanFacts DEF WriterStopped, sessionVars, clientVars, seenVars, TypeOK
<1>3. OrderInv'
    BY <1>1 DEF WriterStopped, sessionVars, clientVars, OrderInv
<1>4. QueueInv'
    BY <1>1
       DEF WriterStopped, NoBytes, sessionVars, TypeOK, QueueInv, IsInterval,
           NextOffered, LiveEnd, Conns, Span
<1>5. ReplayInv'
    BY <1>1 DEF WriterStopped, sessionVars, ReplayInv, Replayed, NextOffered, LiveEnd
<1>6. HandshakeInv'
    BY <1>1
       DEF WriterStopped, sessionVars, clientVars, HandshakeInv, Judged, MayWrite,
           NextLive, NextOffered, WireEnd
<1>7. PumpInv' /\ NetInv' /\ StreamInv' /\ ClientInv' /\ WireInv'
    BY <1>1
       DEF WriterStopped, sessionVars, PumpInv, clientVars, NetInv, seenVars,
           StreamInv, ClientInv, Judged, WireInv, Fits
<1> QED
    BY <1>2, <1>3, <1>4, <1>5, <1>6, <1>7 DEF ResumeInv

\* A hello registers its listener.
LEMMA HelloAttachStep ==
    ASSUME ResumeInv, NEW c \in Conns, HelloAttach(c)
    PROVE  ResumeInv'
<1>1. /\ TypeOK /\ OrderInv /\ PumpInv /\ QueueInv /\ ReplayInv
      /\ NetInv /\ StreamInv /\ ClientInv /\ WireInv /\ HandshakeInv
    BY DEF ResumeInv
<1>2. TypeOK'
    BY <1>1 DEF HelloAttach, sessionVars, clientVars, seenVars, TypeOK
<1>3. OrderInv'
    BY <1>1 DEF HelloAttach, sessionVars, clientVars, TypeOK, OrderInv
<1>4. QueueInv'
    BY <1>1 DEF HelloAttach, sessionVars, QueueInv, NextOffered, LiveEnd
<1>5. ReplayInv'
    BY <1>1 DEF HelloAttach, sessionVars, ReplayInv, Replayed, NextOffered, LiveEnd
<1>6. HandshakeInv'
    BY <1>1
       DEF HelloAttach, sessionVars, clientVars, HandshakeInv, Judged, Early, MayWrite,
           NextLive, NextOffered, WireEnd
<1>7. PumpInv' /\ NetInv' /\ StreamInv' /\ ClientInv' /\ WireInv'
    BY <1>1
       DEF HelloAttach, sessionVars, PumpInv, clientVars, NetInv, seenVars, StreamInv,
           ClientInv, Judged, WireInv, Fits
<1> QED
    BY <1>2, <1>3, <1>4, <1>5, <1>6, <1>7 DEF ResumeInv

\* A hello asks the ring for what the client missed.
LEMMA HelloSliceStep ==
    ASSUME ResumeInv, NEW c \in Conns, HelloSlice(c)
    PROVE  ResumeInv'
<1>1. /\ TypeOK /\ OrderInv /\ PumpInv /\ QueueInv /\ ReplayInv
      /\ NetInv /\ StreamInv /\ ClientInv /\ WireInv /\ HandshakeInv
    BY DEF ResumeInv
<1>2. /\ handler[c] = "slice"
      /\ UNCHANGED <<end, pumpPc, chunk, targets, listeners, hello, queue, qState, writer,
                     batch, net, up, cur, opened, known, offset, shownEnd, fault, raced,
                     repaint>>
    BY DEF HelloSlice, sessionVars, queueVars, clientVars, seenVars
<1>3. \/ /\ hello[c].offset <= end
         /\ replay' = [replay EXCEPT ![c] = Span(hello[c].offset, end)]
         /\ handler' = [handler EXCEPT ![c] = "welcome"]
      \/ /\ replay' = replay
         /\ handler' = [handler EXCEPT ![c] = "tail"]
    BY <1>1 DEF HelloSlice, ReplayInv
<1>4. hello[c].offset \in 0 .. MaxEnd /\ end \in 0 .. MaxEnd
    BY <1>1, QueueTypes
<1>5. /\ replay' \in [Conns -> Spans]
      /\ handler' \in [Conns -> {"none", "hello", "slice", "tail", "welcome",
            "welcomeTail", "reset", "output", "reading", "closed"}]
      /\ \A d \in Conns : d # c => replay'[d] = replay[d] /\ handler'[d] = handler[d]
      /\ handler'[c] \in {"welcome", "tail"}
      /\ handler'[c] = "welcome" => replay'[c].from = hello[c].offset /\ replay'[c].to = end
      /\ handler'[c] = "tail" => replay'[c] = replay[c]
      /\ replay'[c].from <= replay'[c].to /\ replay'[c].to <= end
    <2>1. /\ replay \in [Conns -> Spans]
          /\ handler \in [Conns -> {"none", "hello", "slice", "tail", "welcome",
                "welcomeTail", "reset", "output", "reading", "closed"}]
          /\ replay[c].from <= replay[c].to /\ replay[c].to <= end
        BY <1>1 DEF TypeOK, ReplayInv
    <2>2. Span(hello[c].offset, end) \in Spans /\ Span(hello[c].offset,
             end).from = hello[c].offset /\ Span(hello[c].offset, end).to = end
        BY <1>4, SpanFacts
    <2> QED
        BY <1>3, <1>4, <2>1, <2>2
<1>6. TypeOK'
    BY <1>1, <1>2, <1>5 DEF TypeOK
<1>7. OrderInv'
    BY <1>1 DEF HelloSlice, sessionVars, queueVars, clientVars, TypeOK, OrderInv
<1>8. ReplayInv'
    <2> SUFFICES ASSUME NEW d \in Conns
                 PROVE  ReplayInv!(d)'
        BY DEF ReplayInv
    <2>1. NextOffered(d)' = NextOffered(d) /\ LiveEnd(d)' = LiveEnd(d)
        BY <1>2 DEF NextOffered, LiveEnd
    <2>2. NextOffered(d) <= end
        BY <1>1, <1>4, QueueTypes, SpanFacts DEF NextOffered, PumpInv
    <2> QED
        BY <1>1, <1>2, <1>5, <2>1, <2>2 DEF ReplayInv, Replayed
<1>9. HandshakeInv'
    <2> SUFFICES ASSUME Judged', cur' \in up'
                 PROVE  HandshakeInv!2'
        BY DEF HandshakeInv
    <2>1. Judged /\ cur \in up /\ cur \in Conns
        BY <1>1, <1>2 DEF Judged, TypeOK
    <2>2. MayWrite(cur)' = MayWrite(cur) /\ NextLive(cur)' = NextLive(cur) /\
             WireEnd' = WireEnd
        BY <1>2 DEF MayWrite, NextLive, NextOffered, WireEnd
    <2>3. CASE cur # c
        BY <1>1, <1>2, <1>5, <2>1, <2>2, <2>3 DEF HandshakeInv, Early
    <2>4. CASE cur = c
        <3>1. NextOffered(c) <= end
            BY <1>1, <1>4, QueueTypes, SpanFacts DEF NextOffered, PumpInv
        <3>2. NextLive(c) <= end
            BY <1>1, <3>1, NextLiveBound
        <3> QED
            BY <1>1, <1>2, <1>5, <2>1, <2>2, <2>4, <3>2 DEF HandshakeInv, Early
    <2> QED
        BY <2>3, <2>4
<1>10. PumpInv' /\ QueueInv' /\ NetInv' /\ StreamInv' /\ ClientInv' /\ WireInv'
    BY <1>1
       DEF HelloSlice, sessionVars, PumpInv, queueVars, QueueInv, NextOffered, LiveEnd,
           clientVars, NetInv, seenVars, StreamInv, ClientInv, Judged, WireInv, Fits
<1> QED
    BY <1>6, <1>7, <1>8, <1>9, <1>10 DEF ResumeInv

\* A hello takes the tail of the ring.
LEMMA HelloTailStep ==
    ASSUME ResumeInv, NEW c \in Conns, HelloTail(c)
    PROVE  ResumeInv'
<1>1. /\ TypeOK /\ OrderInv /\ PumpInv /\ QueueInv /\ ReplayInv
      /\ NetInv /\ StreamInv /\ ClientInv /\ WireInv /\ HandshakeInv
    BY DEF ResumeInv
<1>2. /\ handler[c] = "tail"
      /\ UNCHANGED <<end, pumpPc, chunk, targets, listeners, hello, queue, qState, writer,
                     batch, net, up, cur, opened, known, offset, shownEnd, fault, raced,
                     repaint>>
    BY DEF HelloTail, sessionVars, queueVars, clientVars, seenVars
<1>3. end \in 0 .. MaxEnd
    BY <1>1, QueueTypes
<1>4. PICK from \in 0 .. end : replay' = [replay EXCEPT ![c] = Span(from, end)]
    <2>1. PICK from \in StartOffset .. end : replay' = [replay EXCEPT ![c] = Span(from,
                  end)]
        BY DEF HelloTail
    <2>2. StartOffset \in Nat
        BY <1>3, ResumeAssumption DEF StartOffset
    <2>3. from \in 0 .. end
        BY <1>3, <2>1, <2>2
    <2> QED
        BY <2>1, <2>3
<1>5. /\ replay' \in [Conns -> Spans]
      /\ handler' \in [Conns -> {"none", "hello", "slice", "tail", "welcome",
            "welcomeTail", "reset", "output", "reading", "closed"}]
      /\ \A d \in Conns : d # c => replay'[d] = replay[d] /\ handler'[d] = handler[d]
      /\ handler'[c] = "welcomeTail"
      /\ replay'[c].to = end /\ replay'[c].from <= replay'[c].to /\ replay'[c].to <= end
    <2>1. /\ replay \in [Conns -> Spans]
          /\ handler \in [Conns -> {"none", "hello", "slice", "tail", "welcome",
                "welcomeTail", "reset", "output", "reading", "closed"}]
        BY <1>1 DEF TypeOK
    <2>2. Span(from, end) \in Spans /\ Span(from, end).from = from /\ Span(from,
             end).to = end
        BY <1>4, <1>3, SpanFacts, ResumeAssumption
    <2>3. handler' = [handler EXCEPT ![c] = "welcomeTail"]
        BY DEF HelloTail
    <2> QED
        BY <1>4, <1>3, <2>1, <2>2, <2>3
<1>6. TypeOK'
    BY <1>1, <1>2, <1>5 DEF TypeOK
<1>7. OrderInv'
    BY <1>1 DEF HelloTail, sessionVars, queueVars, clientVars, OrderInv
<1>8. ReplayInv'
    <2> SUFFICES ASSUME NEW d \in Conns
                 PROVE  ReplayInv!(d)'
        BY DEF ReplayInv
    <2>1. NextOffered(d)' = NextOffered(d) /\ LiveEnd(d)' = LiveEnd(d)
        BY <1>2 DEF NextOffered, LiveEnd
    <2>2. NextOffered(d) <= end
        BY <1>1, <1>3, QueueTypes, SpanFacts DEF NextOffered, PumpInv
    <2> QED
        BY <1>1, <1>2, <1>5, <2>1, <2>2 DEF ReplayInv, Replayed
<1>9. HandshakeInv'
    <2> SUFFICES ASSUME Judged', cur' \in up'
                 PROVE  HandshakeInv!2'
        BY DEF HandshakeInv
    <2>1. Judged /\ cur \in up /\ cur \in Conns
        BY <1>1, <1>2 DEF Judged, TypeOK
    <2>2. MayWrite(cur)' = MayWrite(cur) /\ NextLive(cur)' = NextLive(cur) /\
             WireEnd' = WireEnd
        BY <1>2 DEF MayWrite, NextLive, NextOffered, WireEnd
    <2>3. CASE cur # c
        BY <1>1, <1>2, <1>5, <2>1, <2>2, <2>3 DEF HandshakeInv, Early
    <2>4. CASE cur = c
        <3>1. NextOffered(c) <= end
            BY <1>1, <1>3, QueueTypes, SpanFacts DEF NextOffered, PumpInv
        <3>2. NextLive(c) <= end
            BY <1>1, <3>1, NextLiveBound
        <3>3. net'[c] = << >> /\ repaint' = "none"
            BY <1>1, <1>2, <2>1, <2>4 DEF HandshakeInv, Early
        <3>4. cur' = c /\ handler'[c] = "welcomeTail" /\ NextLive(cur)' <= replay'[c].to
            BY <1>2, <1>5, <2>2, <2>4, <3>2
        <3> QED
            BY <3>3, <3>4 DEF Early
    <2> QED
        BY <2>3, <2>4
<1>10. PumpInv' /\ QueueInv' /\ NetInv' /\ StreamInv' /\ ClientInv' /\ WireInv'
    <2>1. PumpInv' /\ QueueInv'
        BY <1>1, <1>2 DEF PumpInv, QueueInv, NextOffered, LiveEnd
    <2>2. NetInv' /\ StreamInv'
        BY <1>1, <1>2 DEF NetInv, StreamInv
    <2>3. ClientInv' /\ WireInv'
        BY <1>1, <1>2 DEF ClientInv, Judged, WireInv, Fits
    <2> QED
        BY <2>1, <2>2, <2>3
<1> QED
    BY <1>6, <1>7, <1>8, <1>9, <1>10 DEF ResumeInv

\* A hello is answered by its welcome.
LEMMA HelloWelcomeStep ==
    ASSUME ResumeInv, NEW c \in Conns, HelloWelcome(c)
    PROVE  ResumeInv'
<1>1. /\ TypeOK /\ OrderInv /\ PumpInv /\ QueueInv /\ ReplayInv
      /\ NetInv /\ StreamInv /\ ClientInv /\ WireInv /\ HandshakeInv
    BY DEF ResumeInv
<1>2. UNCHANGED <<end, pumpPc, chunk, targets, listeners, hello, replay, queue, qState,
                  writer, batch, up, cur, opened, known, offset, shownEnd, fault, raced,
                  repaint>>
    BY DEF HelloWelcome, sessionVars, queueVars, clientVars, seenVars
<1>3. replay[c] \in Spans /\ replay[c].from \in 0 .. MaxEnd /\ replay[c].to \in 0 .. MaxEnd
    BY <1>1, QueueTypes, SpanFacts
<1>4. PICK f \in {Welcome(replay[c].from), WelcomeRepaint(replay[c].from)} :
          /\ Sent(c, f)
          /\ f.t = "welcome" => handler[c] = "welcome" /\
                handler' = [handler EXCEPT ![c] = "output"]
          /\ f.t # "welcome" => handler[c] = "welcomeTail" /\
                handler' = [handler EXCEPT ![c] = "reset"]
    BY DEF HelloWelcome, Welcome, WelcomeRepaint
<1>5. /\ f \in Frames /\ f.t \in {"welcome", "welcomeRepaint"}
      /\ f.from = replay[c].from /\ f.to = replay[c].from
    <2>1. f \in Frames
        BY <1>3, <1>4, FrameFacts
    <2>2. f = Welcome(replay[c].from) \/ f = WelcomeRepaint(replay[c].from)
        BY <1>4
    <2> QED
        BY <2>1, <2>2 DEF Welcome, WelcomeRepaint
<1>6. /\ handler[c] \in {"welcome", "welcomeTail"}
      /\ handler' \in [Conns -> {"none", "hello", "slice", "tail", "welcome",
            "welcomeTail", "reset", "output", "reading", "closed"}]
      /\ \A d \in Conns : d # c => handler'[d] = handler[d]
      /\ handler'[c] = IF f.t = "welcome" THEN "output" ELSE "reset"
    <2>1. handler \in [Conns -> {"none", "hello", "slice", "tail", "welcome",
             "welcomeTail", "reset", "output", "reading", "closed"}]
        BY <1>1 DEF TypeOK
    <2> QED
        BY <1>4, <2>1
<1>7. TypeOK'
    <2>1. net' \in [Conns -> Seq(Frames)]
        BY <1>1, <1>4, <1>5, SentEffect
    <2> QED
        BY <1>1, <1>2, <1>6, <2>1 DEF TypeOK
<1>8. OrderInv'
    BY <1>1 DEF HelloWelcome, sessionVars, queueVars, clientVars, TypeOK, OrderInv
<1>9. ReplayInv'
    BY <1>1
       DEF HelloWelcome, sessionVars, queueVars, TypeOK, ReplayInv, Replayed,
           NextOffered, LiveEnd
<1>10. NetInv'
    <2>1. f.from <= f.to /\ f.to <= end
        BY <1>1, <1>3, <1>5, QueueTypes DEF ReplayInv
    <2> QED
        BY <1>1, <1>2, <1>4, <1>5, <2>1, SentNet
<1>11. WireInv'
    <2> SUFFICES ASSUME Judged
                 PROVE  WireInv'
        BY <1>2 DEF WireInv, Judged
    <2>1. ASSUME c = cur, c \in up
          PROVE  net[c] = << >> /\ Fits(f)
        BY <1>1, <1>4, <1>5, <2>1 DEF HandshakeInv, Early, Fits
    <2> QED
        BY <1>1, <1>2, <1>4, <1>5, <2>1, SentWire
<1>12. HandshakeInv'
    <2> SUFFICES ASSUME Judged', cur' \in up'
                 PROVE  HandshakeInv!2'
        BY DEF HandshakeInv
    <2>1. Judged /\ cur \in up /\ cur \in Conns
        BY <1>1, <1>2 DEF Judged, TypeOK
    <2>2. MayWrite(cur)' = MayWrite(cur) /\ NextLive(cur)' = NextLive(cur)
        BY <1>2 DEF MayWrite, NextLive, NextOffered
    <2>3. CASE cur # c
        <3>1. net'[cur] = net[cur]
            BY <1>1, <1>4, <1>5, <2>1, <2>3, SentEffect
        <3>2. WireEnd' = WireEnd
            BY <1>2, <3>1 DEF WireEnd
        <3> QED
            BY <1>1, <1>2, <1>6, <2>1, <2>2, <2>3, <3>1, <3>2 DEF HandshakeInv
    <2>4. CASE cur = c
        <3>1. net'[cur] # << >> /\ net'[cur][Len(net'[cur])] = f /\ WireEnd' = f.to
            BY <1>2, <1>1, <1>4, <1>5, <2>1, <2>4, SentWireEnd
        <3>2. MayWrite(cur) => NextLive(cur) <= replay[cur].to
            BY <1>1, <1>6, <2>1, <2>4 DEF HandshakeInv
        <3> QED
            BY <1>2, <1>3, <1>5, <1>6, <2>1, <2>2, <2>4, <3>1, <3>2 DEF Early
    <2> QED
        BY <2>3, <2>4
<1>13. PumpInv' /\ QueueInv' /\ StreamInv' /\ ClientInv'
    BY <1>1
       DEF HelloWelcome, sessionVars, PumpInv, queueVars, QueueInv, NextOffered,
           LiveEnd, clientVars, seenVars, StreamInv, ClientInv, Judged
<1> QED
    BY <1>7, <1>8, <1>9, <1>10, <1>11, <1>12, <1>13 DEF ResumeInv

\* The reset before a repaint.
LEMMA HelloResetStep ==
    ASSUME ResumeInv, NEW c \in Conns, HelloReset(c)
    PROVE  ResumeInv'
<1>1. /\ TypeOK /\ OrderInv /\ PumpInv /\ QueueInv /\ ReplayInv
      /\ NetInv /\ StreamInv /\ ClientInv /\ WireInv /\ HandshakeInv
    BY DEF ResumeInv
<1>2. UNCHANGED <<end, pumpPc, chunk, targets, listeners, hello, replay, queue, qState,
                  writer, batch, up, cur, opened, known, offset, shownEnd, fault, raced,
                  repaint>>
    BY DEF HelloReset, sessionVars, queueVars, clientVars, seenVars
<1>3. replay[c] \in Spans /\ replay[c].from \in 0 .. MaxEnd /\ replay[c].to \in 0 .. MaxEnd
    BY <1>1, QueueTypes, SpanFacts
<1> DEFINE f == Reset(replay[c].from)
<1>4. Sent(c, f)
    BY DEF HelloReset
<1>5. f \in Frames /\ f.t = "reset" /\ f.from = replay[c].from /\ f.to = replay[c].from
    BY <1>3, FrameFacts DEF Reset
<1>6. /\ handler[c] = "reset" /\ handler'[c] = "output"
      /\ \A d \in Conns : d # c => handler'[d] = handler[d]
    BY <1>1 DEF HelloReset, TypeOK
<1> HIDE DEF f
<1>7. TypeOK'
    <2>1. net' \in [Conns -> Seq(Frames)]
        BY <1>1, <1>4, <1>5, SentEffect
    <2> QED
        BY <1>1, <2>1
           DEF HelloReset, sessionVars, queueVars, clientVars, seenVars, TypeOK
<1>8. OrderInv'
    BY <1>1 DEF HelloReset, sessionVars, queueVars, clientVars, OrderInv
<1>9. ReplayInv'
    BY <1>1 DEF HelloReset, sessionVars, queueVars, ReplayInv, Replayed, NextOffered,
       LiveEnd
<1>10. NetInv'
    <2>1. f.from <= f.to /\ f.to <= end
        BY <1>1, <1>3, <1>5, QueueTypes DEF ReplayInv
    <2> QED
        BY <1>1, <1>2, <1>4, <1>5, <2>1, SentNet
<1>11. WireInv'
    <2> SUFFICES ASSUME Judged
                 PROVE  WireInv'
        BY <1>2 DEF WireInv, Judged
    <2>1. ASSUME c = cur, c \in up
          PROVE  IF net[c] = << >> THEN Fits(f) ELSE Follows(net[c][Len(net[c])], f)
        <3>1. net[c] # << >> => net[c][Len(net[c])].t # "close"
            <4>1. net[c] # << >> => Len(net[c]) \in 1 .. Len(net[c])
                BY <1>1 DEF TypeOK
            <4> QED
                BY <1>1, <2>1, <4>1 DEF NetInv
        <3> QED
            BY <1>1, <1>5, <1>6, <2>1, <3>1 DEF HandshakeInv, Fits, Follows
    <2> QED
        BY <1>1, <1>2, <1>4, <1>5, <2>1, SentWire
<1>12. HandshakeInv'
    <2> SUFFICES ASSUME Judged', cur' \in up'
                 PROVE  HandshakeInv!2'
        BY DEF HandshakeInv
    <2>1. Judged /\ cur \in up /\ cur \in Conns
        BY <1>1, <1>2 DEF Judged, TypeOK
    <2>2. MayWrite(cur)' = MayWrite(cur) /\ NextLive(cur)' = NextLive(cur)
        BY <1>2 DEF MayWrite, NextLive, NextOffered
    <2>3. CASE cur # c
        <3>1. net'[cur] = net[cur]
            BY <1>1, <1>4, <1>5, <2>1, <2>3, SentEffect
        <3>2. WireEnd' = WireEnd
            BY <1>2, <3>1 DEF WireEnd
        <3> QED
            BY <1>1, <1>2, <1>6, <2>1, <2>2, <2>3, <3>1, <3>2 DEF HandshakeInv
    <2>4. CASE cur = c
        <3>1. net'[cur] # << >> /\ net'[cur][Len(net'[cur])] = f /\ WireEnd' = f.to
            BY <1>2, <1>1, <1>4, <1>5, <2>1, <2>4, SentWireEnd
        <3>2. MayWrite(cur) => NextLive(cur) <= replay[cur].to
            BY <1>1, <1>6, <2>1, <2>4 DEF HandshakeInv
        <3> QED
            BY <1>2, <1>3, <1>5, <1>6, <2>1, <2>2, <2>4, <3>1, <3>2 DEF Early
    <2> QED
        BY <2>3, <2>4
<1>13. PumpInv' /\ QueueInv' /\ StreamInv' /\ ClientInv'
    BY <1>1
       DEF HelloReset, sessionVars, PumpInv, queueVars, QueueInv, NextOffered, LiveEnd,
           clientVars, seenVars, StreamInv, ClientInv, Judged
<1> QED
    BY <1>7, <1>8, <1>9, <1>10, <1>11, <1>12, <1>13 DEF ResumeInv

\* The replay goes out.
LEMMA HelloOutputStep ==
    ASSUME ResumeInv, NEW c \in Conns, HelloOutput(c)
    PROVE  ResumeInv'
<1>1. /\ TypeOK /\ OrderInv /\ PumpInv /\ QueueInv /\ ReplayInv
      /\ NetInv /\ StreamInv /\ ClientInv /\ WireInv /\ HandshakeInv
    BY DEF ResumeInv
<1>2. UNCHANGED <<end, pumpPc, chunk, targets, listeners, hello, replay, queue, qState,
                  writer, batch, up, cur, opened, known, offset, shownEnd, fault, raced,
                  repaint>>
    BY DEF HelloOutput, sessionVars, queueVars, clientVars, seenVars
<1>3. /\ replay[c] \in Spans /\ replay[c].from \in 0 .. MaxEnd /\
            replay[c].to \in 0 .. MaxEnd
      /\ replay[c].from <= replay[c].to /\ replay[c].to <= end
    BY <1>1, QueueTypes, SpanFacts DEF ReplayInv
<1> DEFINE f == Output(replay[c])
<1>4. IF replay[c].from = replay[c].to THEN net' = net ELSE Sent(c, f)
    BY DEF HelloOutput, IsEmpty
<1>5. f \in Frames /\ f.t = "output" /\ f.from = replay[c].from /\ f.to = replay[c].to
    BY <1>3, FrameFacts DEF Output
<1>6. /\ handler[c] = "output" /\ handler'[c] = "reading"
      /\ \A d \in Conns : d # c => handler'[d] = handler[d]
      /\ handler' \in [Conns -> {"none", "hello", "slice", "tail", "welcome",
            "welcomeTail", "reset", "output", "reading", "closed"}]
    <2>1. handler \in [Conns -> {"none", "hello", "slice", "tail", "welcome",
             "welcomeTail", "reset", "output", "reading", "closed"}]
        BY <1>1 DEF TypeOK
    <2> QED
        BY <2>1 DEF HelloOutput
<1> HIDE DEF f
<1>7. TypeOK'
    <2>1. net' \in [Conns -> Seq(Frames)]
        <3>1. net \in [Conns -> Seq(Frames)]
            BY <1>1 DEF TypeOK
        <3> QED
            BY <1>1, <1>4, <1>5, <3>1, SentEffect
    <2> QED
        BY <1>1, <1>2, <1>6, <2>1 DEF TypeOK
<1>8. OrderInv'
    BY <1>1 DEF HelloOutput, sessionVars, queueVars, clientVars, OrderInv
<1>9. ReplayInv'
    BY <1>1 DEF HelloOutput, sessionVars, queueVars, ReplayInv, Replayed, NextOffered,
       LiveEnd
<1>10. NetInv'
    <2>1. CASE net' = net
        BY <1>1, <1>2, <2>1 DEF NetInv
    <2>2. CASE Sent(c, f)
        BY <1>1, <1>2, <1>3, <1>5, <2>2, SentNet
    <2> QED
        BY <1>4, <2>1, <2>2
<1>11. WireInv'
    <2> SUFFICES ASSUME Judged
                 PROVE  WireInv'
        BY <1>2 DEF WireInv, Judged
    <2>1. ASSUME c = cur, c \in up
          PROVE  IF net[c] = << >> THEN Fits(f) ELSE Follows(net[c][Len(net[c])], f)
        <3>1. net[c] # << >> => net[c][Len(net[c])].t # "close"
            <4>1. net[c] # << >> => Len(net[c]) \in 1 .. Len(net[c])
                BY <1>1 DEF TypeOK
            <4> QED
                BY <1>1, <2>1, <4>1 DEF NetInv
        <3> QED
            BY <1>1, <1>5, <1>6, <2>1, <3>1 DEF HandshakeInv, Fits, Follows, WireEnd
    <2>2. CASE net' = net
        BY <1>1, <1>2, <2>2 DEF WireInv, Fits
    <2>3. CASE Sent(c, f)
        BY <1>1, <1>2, <1>5, <2>1, <2>3, SentWire
    <2> QED
        BY <1>4, <2>2, <2>3
<1>12. HandshakeInv'
    <2> SUFFICES ASSUME Judged', cur' \in up'
                 PROVE  HandshakeInv!2'
        BY DEF HandshakeInv
    <2>1. Judged /\ cur \in up /\ cur \in Conns
        BY <1>1, <1>2 DEF Judged, TypeOK
    <2>2. MayWrite(cur)' = MayWrite(cur) /\ NextLive(cur)' = NextLive(cur)
        BY <1>2 DEF MayWrite, NextLive, NextOffered
    <2>3. CASE cur # c
        <3>1. net'[cur] = net[cur]
            BY <1>1, <1>4, <1>5, <2>1, <2>3, SentEffect
        <3>2. WireEnd' = WireEnd
            BY <1>2, <3>1 DEF WireEnd
        <3> QED
            BY <1>1, <1>2, <1>6, <2>1, <2>2, <2>3, <3>1, <3>2 DEF HandshakeInv
    <2>4. CASE cur = c
        <3>1. /\ MayWrite(cur) => NextLive(cur) <= replay[cur].to
              /\ replay[cur].from <= WireEnd
              /\ IF net[cur] = << >> THEN repaint = "none"
                    ELSE net[cur][Len(net[cur])].t # "welcomeRepaint"
            BY <1>1, <1>6, <2>1, <2>4 DEF HandshakeInv
        <3>2. CASE replay[c].from = replay[c].to
            <4>1. net' = net /\ WireEnd' = WireEnd /\ WireEnd \in Int /\
                     NextLive(cur) \in Int
                <5>1. net[cur] # << >> => Len(net[cur]) \in 1 .. Len(net[cur]) /\
                         net[cur] \in Seq(Frames)
                    BY <1>1, <2>1 DEF TypeOK
                <5>2. WireEnd \in Int
                    BY <1>1, <5>1, FrameFacts, QueueTypes, <2>1 DEF WireEnd
                <5>3. NextLive(cur) \in Int
                    BY <1>1, <2>1, SpanFacts, QueueTypes DEF NextLive
                <5> QED
                    BY <1>2, <1>4, <3>2, <5>2, <5>3 DEF WireEnd
            <4> QED
                BY <1>2, <1>3, <1>6, <2>1, <2>2, <2>4, <3>1, <3>2, <4>1 DEF Early
        <3>3. CASE replay[c].from # replay[c].to
            <4>1. net'[cur] # << >> /\ net'[cur][Len(net'[cur])] = f /\ WireEnd' = f.to
                BY <1>2, <1>1, <1>4, <1>5, <2>1, <2>4, <3>3, SentWireEnd
            <4> QED
                BY <1>2, <1>3, <1>5, <1>6, <2>1, <2>2, <2>4, <3>1, <4>1 DEF Early
        <3> QED
            BY <3>2, <3>3
    <2> QED
        BY <2>3, <2>4
<1>13. PumpInv' /\ QueueInv' /\ StreamInv' /\ ClientInv'
    BY <1>1
       DEF HelloOutput, sessionVars, PumpInv, queueVars, QueueInv, NextOffered,
           LiveEnd, clientVars, seenVars, StreamInv, ClientInv, Judged
<1> QED
    BY <1>7, <1>8, <1>9, <1>10, <1>11, <1>12, <1>13 DEF ResumeInv

\* A connection's read loop ends.
LEMMA HandlerLeavesStep ==
    ASSUME ResumeInv, NEW c \in Conns, HandlerLeaves(c)
    PROVE  ResumeInv'
<1>1. /\ TypeOK /\ OrderInv /\ PumpInv /\ QueueInv /\ ReplayInv
      /\ NetInv /\ StreamInv /\ ClientInv /\ WireInv /\ HandshakeInv
    BY DEF ResumeInv
<1>2. UNCHANGED <<end, pumpPc, chunk, targets, writer, batch, net, up, cur, opened, known,
                  offset, shownEnd, fault, raced, repaint>>
    BY DEF HandlerLeaves, sessionVars, clientVars, seenVars
<1>3. /\ qState'[c] = "stopped" /\ hello'[c] = NoHello /\ replay'[c] = NoBytes
      /\ \A d \in Conns : d # c => handler'[d] = handler[d] /\ qState'[d] = qState[d] /\
            queue'[d] = queue[d] /\ hello'[d] = hello[d] /\ replay'[d] = replay[d]
    BY <1>1 DEF HandlerLeaves, TypeOK
<1>4. TypeOK'
    BY <1>1, SpanFacts DEF HandlerLeaves, NoHello, sessionVars, clientVars, seenVars, TypeOK
<1>5. OrderInv'
    BY <1>1 DEF HandlerLeaves, sessionVars, clientVars, TypeOK, OrderInv
<1>6. QueueInv'
    BY <1>1
       DEF HandlerLeaves, NoBytes, sessionVars, TypeOK, QueueInv, IsInterval,
           NextOffered, LiveEnd, Conns, Span
<1>7. ReplayInv'
    <2> SUFFICES ASSUME NEW d \in Conns
                 PROVE  ReplayInv!(d)'
        BY DEF ReplayInv
    <2>1. CASE d = c
        <3>1. end \in Nat /\ NoHello.offset = 0 /\ NoBytes.from = 0 /\ NoBytes.to = 0
            BY <1>1, ResumeAssumption, SpanFacts DEF NoHello, TypeOK
        <3> QED
            BY <1>2, <1>3, <2>1, <3>1
    <2>2. CASE d # c
        <3>1. NextOffered(d)' = NextOffered(d) /\ LiveEnd(d)' = LiveEnd(d)
            BY <1>2, <1>3, <2>2 DEF NextOffered, LiveEnd
        <3> QED
            BY <1>1, <1>2, <1>3, <2>2, <3>1 DEF ReplayInv, Replayed
    <2> QED
        BY <2>1, <2>2
<1>8. HandshakeInv'
    BY <1>1
       DEF HandlerLeaves, sessionVars, clientVars, HandshakeInv, Judged, MayWrite,
           NextLive, NextOffered, WireEnd
<1>9. PumpInv' /\ NetInv' /\ StreamInv' /\ ClientInv' /\ WireInv'
    BY <1>1
       DEF HandlerLeaves, sessionVars, PumpInv, clientVars, NetInv, seenVars,
           StreamInv, ClientInv, Judged, WireInv, Fits
<1> QED
    BY <1>4, <1>5, <1>6, <1>7, <1>8, <1>9 DEF ResumeInv

\* The client opens a connection.
LEMMA ClientOpenStep ==
    ASSUME ResumeInv, ClientOpen
    PROVE  ResumeInv'
<1>1. /\ TypeOK /\ OrderInv /\ PumpInv /\ QueueInv /\ ReplayInv
      /\ NetInv /\ StreamInv /\ ClientInv /\ WireInv /\ HandshakeInv
    BY DEF ResumeInv
<1>2. /\ cur = NoConn /\ opened < MaxConns /\ cur' = opened + 1 /\
            opened' = opened + 1 /\ up' = up \union {cur'}
      /\ handler' = [handler EXCEPT ![cur'] = "hello"]
      /\ hello' = [hello EXCEPT ![cur'] = [known |-> known, offset |-> offset]]
      /\ UNCHANGED <<end, pumpPc, chunk, targets, listeners, replay, queue, qState, writer,
                     batch, net, known, offset, shownEnd, fault, raced, repaint>>
    BY DEF ClientOpen, sessionVars, queueVars, seenVars
<1>3. cur' \in Conns /\ cur' # NoConn /\ opened' \in 0 .. MaxConns /\ cur' > opened
    BY <1>1, <1>2, ResumeAssumption DEF TypeOK, Conns, NoConn
<1>4. /\ handler'[cur'] = "hello" /\ hello'[cur'].offset = offset
      /\ \A d \in Conns : d # cur' => handler'[d] = handler[d] /\ hello'[d] = hello[d]
    BY <1>1, <1>2, <1>3 DEF TypeOK
<1>5. net[cur'] = << >> /\ writer[cur'] = "none"
    BY <1>1, <1>2, <1>3 DEF NetInv, OrderInv
<1>6. TypeOK'
    <2>1. hello' \in [Conns -> [known : BOOLEAN, offset : 0 .. MaxEnd]]
        <3>1. [known |-> known, offset |-> offset] \in [known : BOOLEAN,
                 offset : 0 .. MaxEnd]
            BY <1>1 DEF TypeOK
        <3>2. hello \in [Conns -> [known : BOOLEAN, offset : 0 .. MaxEnd]]
            BY <1>1 DEF TypeOK
        <3> QED
            BY <1>2, <3>1, <3>2
    <2>2. handler' \in [Conns -> {"none", "hello", "slice", "tail", "welcome",
             "welcomeTail", "reset", "output", "reading", "closed"}]
        <3>1. handler \in [Conns -> {"none", "hello", "slice", "tail", "welcome",
                 "welcomeTail", "reset", "output", "reading", "closed"}]
            BY <1>1 DEF TypeOK
        <3> QED
            BY <1>2, <3>1
    <2>3. up' \subseteq Conns
        BY <1>1, <1>2, <1>3 DEF TypeOK
    <2> QED
        BY <1>1, <1>2, <1>3, <2>1, <2>2, <2>3 DEF TypeOK
<1>7. OrderInv'
    BY <1>1 DEF ClientOpen, NoConn, sessionVars, queueVars, TypeOK, OrderInv, Conns
<1>8. ReplayInv'
    <2> SUFFICES ASSUME NEW d \in Conns
                 PROVE  ReplayInv!(d)'
        BY DEF ReplayInv
    <2>1. NextOffered(d)' = NextOffered(d) /\ LiveEnd(d)' = LiveEnd(d)
        BY <1>2 DEF NextOffered, LiveEnd
    <2> QED
        BY <1>1, <1>2, <1>3, <1>4, <2>1 DEF ReplayInv, Replayed, StreamInv
<1>9. NetInv'
    BY <1>1 DEF ClientOpen, NoConn, NetInv, Conns
<1>10. ClientInv'
    BY <1>1 DEF ClientOpen, seenVars, ClientInv, Judged
<1>11. WireInv'
    BY <1>2, <1>5, LenProperties DEF WireInv
<1>12. HandshakeInv'
    <2> SUFFICES ASSUME Judged'
                 PROVE  HandshakeInv!2'
        BY DEF HandshakeInv
    <2>1. repaint = "none"
        BY <1>1, <1>2 DEF ClientInv, Judged, TypeOK
    <2> QED
        BY <1>2, <1>3, <1>4, <1>5, <2>1 DEF Early
<1>13. PumpInv' /\ QueueInv' /\ StreamInv'
    BY <1>1
       DEF ClientOpen, sessionVars, PumpInv, queueVars, QueueInv, NextOffered, LiveEnd,
           seenVars, StreamInv
<1> QED
    BY <1>6, <1>7, <1>8, <1>9, <1>10, <1>11, <1>12, <1>13 DEF ResumeInv

\* The connection drops.
LEMMA ClientDropStep ==
    ASSUME ResumeInv, ClientDrop
    PROVE  ResumeInv'
<1>1. /\ TypeOK /\ OrderInv /\ PumpInv /\ QueueInv /\ ReplayInv
      /\ NetInv /\ StreamInv /\ ClientInv /\ WireInv /\ HandshakeInv
    BY DEF ResumeInv
<1>2. TypeOK'
    BY <1>1
       DEF ClientDrop, LoseConnection, RepaintLost, NoConn, sessionVars, queueVars,
           seenVars, TypeOK
<1>3. OrderInv'
    BY <1>1 DEF ClientDrop, LoseConnection, sessionVars, queueVars, OrderInv
<1>4. NetInv'
    BY <1>1 DEF ClientDrop, LoseConnection, NoConn, TypeOK, NetInv, Conns
<1>5. ClientInv'
    BY <1>1 DEF ClientDrop, LoseConnection, RepaintLost, seenVars, ClientInv, Judged
<1>6. WireInv'
    BY <1>1 DEF ClientDrop, LoseConnection, WireInv
<1>7. HandshakeInv'
    BY <1>1 DEF ClientDrop, LoseConnection, NoConn, TypeOK, HandshakeInv, Conns
<1>8. PumpInv' /\ QueueInv' /\ ReplayInv' /\ StreamInv'
    BY <1>1
       DEF ClientDrop, sessionVars, PumpInv, queueVars, QueueInv, NextOffered, LiveEnd,
           ReplayInv, Replayed, seenVars, StreamInv
<1> QED
    BY <1>2, <1>3, <1>4, <1>5, <1>6, <1>7, <1>8 DEF ResumeInv

\* The page is reloaded.
LEMMA ClientReloadStep ==
    ASSUME ResumeInv, ClientReload
    PROVE  ResumeInv'
<1>1. /\ TypeOK /\ OrderInv /\ PumpInv /\ QueueInv /\ ReplayInv
      /\ NetInv /\ StreamInv /\ ClientInv /\ WireInv /\ HandshakeInv
    BY DEF ResumeInv
<1>2. TypeOK'
    <2>1. net' \in [Conns -> Seq(Frames)] /\ up' \subseteq Conns
        BY <1>1, EmptySeq DEF ClientReload, LoseConnection, TypeOK
    <2>2. cur' \in Conns \union {NoConn}
        BY DEF ClientReload, LoseConnection
    <2>3. offset' \in 0 .. MaxEnd /\ shownEnd' \in -1 .. MaxEnd
        BY ResumeAssumption DEF ClientReload
    <2>4. repaint' \in {"none", "due", "torn"}
        BY <1>1 DEF ClientReload, LoseConnection, RepaintLost, TypeOK
    <2>5. UNCHANGED <<end, pumpPc, chunk, targets, listeners, handler, hello, replay,
                      queue, qState, writer, batch, opened, known, fault, raced>>
        BY DEF ClientReload, sessionVars, queueVars
    <2> QED
        BY <1>1, <2>1, <2>2, <2>3, <2>4, <2>5 DEF TypeOK
<1>3. OrderInv'
    BY <1>1 DEF ClientReload, LoseConnection, sessionVars, queueVars, OrderInv
<1>4. NetInv'
    BY <1>1 DEF ClientReload, LoseConnection, NoConn, TypeOK, NetInv, Conns
<1>5. StreamInv'
    BY <1>1 DEF ClientReload, sessionVars, TypeOK, StreamInv
<1>6. ClientInv'
    BY <1>1 DEF ClientReload, LoseConnection, RepaintLost, ClientInv, Judged
<1>7. WireInv'
    BY <1>1 DEF ClientReload, LoseConnection, WireInv
<1>8. HandshakeInv'
    BY <1>1 DEF ClientReload, LoseConnection, NoConn, TypeOK, HandshakeInv, Conns
<1>9. PumpInv' /\ QueueInv' /\ ReplayInv'
    BY <1>1
       DEF ClientReload, sessionVars, PumpInv, queueVars, QueueInv, NextOffered,
           LiveEnd, ReplayInv, Replayed
<1> QED
    BY <1>2, <1>3, <1>4, <1>5, <1>6, <1>7, <1>8, <1>9 DEF ResumeInv

\* The client receives a frame.
LEMMA ClientReceiveStep ==
    ASSUME ResumeInv, ClientReceive
    PROVE  ResumeInv'
<1>1. /\ TypeOK /\ OrderInv /\ PumpInv /\ QueueInv /\ ReplayInv
      /\ NetInv /\ StreamInv /\ ClientInv /\ WireInv /\ HandshakeInv
    BY DEF ResumeInv
<1> DEFINE f == Head(net[cur])
<1>2. /\ cur \in Conns /\ cur # NoConn /\ net[cur] \in Seq(Frames) /\ net[cur] # << >>
      /\ net' = [net EXCEPT ![cur] = Tail(net[cur])]
      /\ UNCHANGED <<end, pumpPc, chunk, targets, listeners, handler, hello, replay, queue,
                     qState, writer, batch, up, opened, raced>>
    BY <1>1 DEF ClientReceive, TypeOK, sessionVars, queueVars
<1>3. /\ f = net[cur][1] /\ f \in Frames /\ Len(net[cur]) >= 1
      /\ f.from \in 0 .. MaxEnd /\ f.to \in 0 .. MaxEnd
      /\ f.t \in {"welcome", "welcomeRepaint", "reset", "output", "close"}
    <2>1. f = net[cur][1] /\ f \in Frames /\ Len(net[cur]) >= 1
        BY <1>2
    <2> QED
        BY <2>1, FrameFacts DEF Frames
<1>4. /\ net' \in [Conns -> Seq(Frames)]
      /\ \A d \in Conns : d # cur => net'[d] = net[d]
      /\ Len(net'[cur]) = Len(net[cur]) - 1 /\ Len(net[cur]) \in Nat
      /\ \A i \in 1 .. Len(net'[cur]) : net'[cur][i] = net[cur][i + 1]
      /\ net'[cur] = << >> <=> Len(net[cur]) = 1
    <2>1. net \in [Conns -> Seq(Frames)]
        BY <1>1 DEF TypeOK
    <2>2. /\ Tail(net[cur]) \in Seq(Frames) /\ Len(Tail(net[cur])) = Len(net[cur]) - 1
          /\ \A i \in 1 .. Len(Tail(net[cur])) : Tail(net[cur])[i] = net[cur][i + 1]
        BY <1>2
    <2>3. Tail(net[cur]) = << >> <=> Len(net[cur]) = 1
        <3>1. Len(net[cur]) \in Nat /\ (Tail(net[cur]) = << >> <=> Len(Tail(net[cur])) = 0)
            BY <1>2, <2>2, EmptySeq
        <3> QED
            BY <2>2, <3>1
    <2>4. net'[cur] = Tail(net[cur]) /\ \A d \in Conns : d # cur => net'[d] = net[d]
        BY <1>2, <2>1
    <2>5. net' \in [Conns -> Seq(Frames)]
        BY <1>2, <2>1, <2>2
    <2> QED
        BY <1>2, <2>2, <2>3, <2>4, <2>5
<1>5. /\ f.from <= f.to /\ f.to <= end
      /\ f.t # "output" => f.to = f.from
      /\ f.t = "close" => Len(net[cur]) = 1 /\ cur \notin up
    <2>1. 1 \in 1 .. Len(net[cur])
        BY <1>2, <1>3
    <2>2. NetInv!(cur)!3!(1)
        BY <1>1, <1>2, <2>1 DEF NetInv
    <2> QED
        BY <1>3, <2>2
<1>6. \/ /\ f.t = "output" /\ HandleOutput(f) /\ UNCHANGED <<cur, known, repaint>>
      \/ f.t # "output" /\ HandleControl(f)
    BY DEF ClientReceive
<1> HIDE DEF f
<1>7. /\ cur' = IF f.t = "close" THEN NoConn ELSE cur
      /\ offset' \in {offset, f.from, f.to} /\ shownEnd' \in {-1, shownEnd, f.to}
      /\ known' \in {known, TRUE} /\ fault' \in {fault, "discarded", "duplicated",
            "skipped"}
      /\ repaint' \in {repaint, "due", "torn", "none"}
      /\ repaint = "torn" => repaint' = "torn"
    BY <1>6 DEF HandleOutput, HandleControl, Show, RepaintLost, seenVars
<1>8. ASSUME Judged'
      PROVE  /\ Judged /\ fault = "none" /\ fault' = "none" /\ Fits(f)
             /\ \/ /\ f.t = "output" /\ repaint = "none" /\ repaint' = "none"
                   /\ offset' >= f.to /\ shownEnd' \in {-1, offset'}
                \/ /\ f.t = "welcome" /\ repaint = "none" /\ repaint' = "none"
                   /\ offset' = f.to /\ shownEnd' \in {-1, offset'}
                \/ f.t = "welcomeRepaint" /\ repaint' = "due" /\ offset' = f.to
                \/ f.t = "reset" /\ repaint' = "none" /\ offset' = f.to /\ shownEnd' = -1
                \/ /\ f.t = "close" /\ repaint = "none" /\ repaint' = "none"
                   /\ shownEnd' \in {-1, offset'}
    <2>1. Judged /\ repaint \in {"none", "due"} /\ fault = "none"
        BY <1>1, <1>2, <1>7, <1>8 DEF Judged, ClientInv, TypeOK
    <2>2. Fits(f)
        BY <1>1, <1>2, <1>3, <2>1 DEF WireInv
    <2>3. repaint = "none" => shownEnd \in {-1, offset}
        BY <1>1, <2>1 DEF ClientInv
    <2>4. offset \in Int
        BY <1>1, QueueTypes, <1>2
    <2>5. CASE f.t = "output"
        <3>1. f.from <= offset /\ repaint = "none" /\ HandleOutput(f) /\ repaint' = repaint
            BY <1>6, <2>1, <2>2, <2>5 DEF Fits
        <3>2. \/ f.to <= offset /\ UNCHANGED <<offset, shownEnd, fault>>
              \/ f.to > offset /\ offset' = f.to /\ shownEnd' = f.to /\ fault' = fault
            BY <1>3, <2>3, <2>4, <3>1 DEF HandleOutput, Show, seenVars
        <3> QED
            BY <1>3, <2>1, <2>2, <2>3, <2>4, <2>5, <3>1, <3>2
    <2>6. CASE f.t # "output"
        <3>1. HandleControl(f)
            BY <1>6, <2>6
        <3>2. CASE f.t \in {"welcome", "welcomeRepaint"}
            BY <1>5, <2>1, <2>2, <2>3, <3>1, <3>2 DEF HandleControl, Fits, seenVars
        <3>3. CASE f.t = "reset"
            BY <1>5, <2>1, <2>2, <3>1, <3>3 DEF HandleControl
        <3>4. CASE f.t = "close"
            BY <1>8, <2>1, <2>2, <2>3, <3>1, <3>4
               DEF HandleControl, RepaintLost, Judged, seenVars
        <3> QED
            BY <1>3, <2>6, <3>2, <3>3, <3>4
    <2> QED
        BY <2>5, <2>6
<1>9. TypeOK'
    <2>1. cur' \in Conns \union {NoConn} /\ known' \in BOOLEAN
        BY <1>1, <1>2, <1>7 DEF TypeOK
    <2>2. offset' \in 0 .. MaxEnd /\ shownEnd' \in -1 .. MaxEnd
        <3>1. offset \in 0 .. MaxEnd /\ shownEnd \in -1 .. MaxEnd
            BY <1>1 DEF TypeOK
        <3>2. f.to \in -1 .. MaxEnd /\ -1 \in -1 .. MaxEnd
            BY <1>3, ResumeAssumption
        <3> QED
            BY <1>3, <1>7, <3>1, <3>2
    <2>3. fault' \in {"none", "duplicated", "skipped", "discarded"} /\
             repaint' \in {"none", "due", "torn"}
        BY <1>1, <1>7 DEF TypeOK
    <2> QED
        BY <1>1, <1>2, <1>4, <2>1, <2>2, <2>3 DEF TypeOK
<1>10. OrderInv'
    <2>1. cur' \in {NoConn, opened} /\ up \subseteq {cur'}
        BY <1>1, <1>5, <1>7 DEF OrderInv
    <2> QED
        BY <1>1, <1>2, <2>1 DEF OrderInv
<1>11. NetInv'
    <2> SUFFICES ASSUME NEW d \in Conns
                 PROVE  NetInv!(d)'
        BY DEF NetInv
    <2>1. CASE d # cur
        BY <1>1, <1>2, <1>4, <1>7, <2>1 DEF NetInv, NoConn, Conns
    <2>2. CASE d = cur
        <3>1. d # cur' => net'[d] = << >>
            BY <1>4, <1>5, <1>7, <2>2
        <3>2. ASSUME d = cur', d \notin up'
              PROVE  net'[d] # << >> /\ net'[d][Len(net'[d])].t = "close"
            <4>1. f.t # "close" /\ net[d][Len(net[d])].t = "close"
                BY <1>1, <1>2, <1>7, <2>2, <3>2 DEF NetInv
            <4>2. Len(net[d]) # 1
                BY <1>3, <2>2, <4>1
            <4> QED
                BY <1>3, <1>4, <2>2, <4>1, <4>2
        <3>3. ASSUME NEW i \in 1 .. Len(net'[d])
              PROVE  NetInv!(d)!3!(i)'
            <4>1. i + 1 \in 1 .. Len(net[d]) /\ net'[d][i] = net[d][i + 1]
                BY <1>4, <2>2, <3>3
            <4>2. NetInv!(d)!3!(i + 1)
                BY <1>1, <4>1 DEF NetInv
            <4> QED
                BY <1>2, <1>4, <2>2, <3>3, <4>1, <4>2
        <3> QED
            BY <3>1, <3>2, <3>3
    <2> QED
        BY <2>1, <2>2
<1>12. StreamInv'
    <2>1. offset \in 0 .. MaxEnd /\ shownEnd \in -1 .. MaxEnd /\ end \in 0 .. MaxEnd
        BY <1>1 DEF TypeOK
    <2>2. offset <= end /\ shownEnd <= end /\ f.from <= end /\ f.to <= end
        BY <1>1, <1>3, <1>5, <2>1 DEF StreamInv
    <2>3. offset' \in {offset, f.from, f.to} /\ shownEnd' \in {-1, shownEnd, f.to}
        BY <1>7
    <2>4. offset' <= end /\ shownEnd' <= end
        BY <2>1, <2>2, <2>3
    <2> QED
        BY <1>2, <2>4 DEF StreamInv
<1>13. ClientInv'
    BY <1>2, <1>7, <1>8 DEF ClientInv
<1>14. WireInv'
    <2> SUFFICES ASSUME Judged', cur' # NoConn
                 PROVE  WireInv!2'
        BY DEF WireInv
    <2>1. cur' = cur /\ f.t # "close"
        BY <1>7
    <2>2. \A i, j \in 1 .. Len(net'[cur]) : j = i + 1 => Follows(net'[cur][i], net'[cur][j])
        <3> SUFFICES ASSUME NEW i \in 1 .. Len(net'[cur]), NEW j \in 1 .. Len(net'[cur]),
                               j = i + 1
                     PROVE  Follows(net'[cur][i], net'[cur][j])
            OBVIOUS
        <3>1. i + 1 \in 1 .. Len(net[cur]) /\ j + 1 \in 1 .. Len(net[cur]) /\
                 j + 1 = (i + 1) + 1
            BY <1>4
        <3>2. Follows(net[cur][i + 1], net[cur][j + 1])
            BY <1>1, <1>2, <1>8, <3>1 DEF WireInv
        <3> QED
            BY <1>4, <3>2
    <2>3. ASSUME net'[cur] # << >>
          PROVE  Fits(net[cur][1])'
        <3>1. 2 \in 1 .. Len(net[cur]) /\ net'[cur][1] = net[cur][2]
            <4>1. PICK n \in Nat : n = Len(net[cur]) /\ n >= 1 /\ n # 1
                BY <1>3, <1>4, <2>3
            <4>2. 1 \in 1 .. n - 1 /\ 2 \in 1 .. n /\ 1 + 1 = 2
                <5>1. \A m \in Nat : m >= 1 /\ m # 1 =>
                         1 \in 1 .. m - 1 /\ 2 \in 1 .. m /\ 1 + 1 = 2
                    OBVIOUS
                <5> QED
                    BY <4>1, <5>1
            <4>3. 1 \in 1 .. Len(net'[cur]) /\ net'[cur][1] = net[cur][1 + 1]
                BY <1>4, <4>1, <4>2
            <4> QED
                BY <4>1, <4>2, <4>3
        <3> DEFINE g == net[cur][2]
        <3>2. Follows(f, g)
            BY <1>1, <1>2, <1>3, <1>8, <3>1 DEF WireInv
        <3>3. g.from \in Int /\ offset' \in Int
            <4>1. g \in Frames /\ offset \in 0 .. MaxEnd
                BY <1>1, <1>2, <3>1 DEF TypeOK
            <4> QED
                BY <1>3, <1>7, <4>1, FrameFacts
        <3>4. /\ g.t \notin {"welcome", "welcomeRepaint"}
              /\ g.t = "output" => g.from <= offset'
              /\ repaint' = "due" => g.t \in {"reset", "close"}
            <4>1. offset' >= f.to /\ f.to \in Int
                BY <1>3, <1>8, <2>1
            <4> QED
                BY <1>8, <2>1, <3>2, <3>3, <4>1 DEF Follows
        <3> QED
            BY <2>1, <3>1, <3>4 DEF Fits
    <2> QED
        BY <2>1, <2>2, <2>3
<1>15. HandshakeInv'
    <2> SUFFICES ASSUME Judged', cur' \in up'
                 PROVE  HandshakeInv!2'
        BY DEF HandshakeInv
    <2>1. cur' = cur /\ cur \in up /\ f.t # "close" /\ Judged
        BY <1>1, <1>2, <1>7, <1>8 DEF TypeOK, Conns, NoConn
    <2>2. handler[cur] \notin Early
        BY <1>1, <1>2, <2>1 DEF HandshakeInv
    <2>3. MayWrite(cur)' = MayWrite(cur) /\ NextLive(cur)' = NextLive(cur)
        BY <1>2, <2>1 DEF MayWrite, NextLive, NextOffered
    <2>4. net'[cur] # << >> => /\ net'[cur][Len(net'[cur])] = net[cur][Len(net[cur])]
                               /\ WireEnd' = WireEnd
        BY <1>2, <1>3, <1>4, <2>1 DEF WireEnd
    <2>5. net'[cur] = << >> => /\ net[cur][Len(net[cur])] = f /\ WireEnd = f.to
                               /\ WireEnd' = offset' /\ offset' >= f.to
        BY <1>2, <1>3, <1>4, <1>8, <2>1 DEF WireEnd
    <2>6. /\ replay[cur].from \in Int /\ NextLive(cur) \in Int /\ offset' \in Int
        <3>1. offset' \in Int /\ replay[cur].from \in Int
            <4>1. offset \in 0 .. MaxEnd /\ replay[cur] \in Spans
                BY <1>1, <1>2, QueueTypes
            <4>2. offset' \in Int
                BY <1>3, <1>7, <4>1
            <4> QED
                BY <4>1, <4>2, SpanFacts
        <3>2. batch[cur].from \in Int /\ queue[cur].from \in Int /\ NextOffered(cur) \in Int
            BY <1>1, <1>2, QueueTypes, SpanFacts
        <3> QED
            BY <3>1, <3>2 DEF NextLive
    <2>7. handler[cur] = "reset" /\ net'[cur] = << >> => repaint' = "due"
        BY <1>1, <1>2, <1>8, <2>1, <2>5 DEF HandshakeInv
    <2>8. handler[cur] \in {"output", "reading"} /\ net'[cur] = << >> => repaint' = "none"
        BY <1>1, <1>2, <1>8, <2>1, <2>5 DEF HandshakeInv
    <2>9. handler[cur] = "output" => replay[cur].from <= WireEnd'
        BY <1>1, <1>3, <2>1, <2>4, <2>5, <2>6 DEF HandshakeInv
    <2>10. handler[cur] = "reading" /\ MayWrite(cur) => NextLive(cur) <= WireEnd'
        BY <1>1, <1>3, <2>1, <2>4, <2>5, <2>6 DEF HandshakeInv
    <2> QED
        BY <1>1, <1>2, <2>1, <2>2, <2>3, <2>4, <2>7, <2>8, <2>9, <2>10 DEF HandshakeInv,
           Early
<1>16. PumpInv' /\ QueueInv' /\ ReplayInv'
    BY <1>1
       DEF ClientReceive, HandleOutput, HandleControl, Show, sessionVars, PumpInv,
           queueVars, QueueInv, NextOffered, LiveEnd, ReplayInv, Replayed
<1> QED
    BY <1>9, <1>10, <1>11, <1>12, <1>13, <1>14, <1>15, <1>16 DEF ResumeInv

\* Nothing happens.
LEMMA StutterStep ==
    ASSUME ResumeInv, UNCHANGED vars
    PROVE  ResumeInv'
<1>1. /\ TypeOK /\ OrderInv /\ PumpInv /\ QueueInv /\ ReplayInv
      /\ NetInv /\ StreamInv /\ ClientInv /\ WireInv /\ HandshakeInv
    BY DEF ResumeInv
<1>2. TypeOK'
    BY <1>1 DEF vars, sessionVars, queueVars, clientVars, seenVars, TypeOK
<1>3. OrderInv' /\ PumpInv' /\ QueueInv' /\ ReplayInv' /\ NetInv' /\ StreamInv' /\
         ClientInv' /\ WireInv' /\ HandshakeInv'
    BY <1>1
       DEF vars, sessionVars, queueVars, clientVars, OrderInv, PumpInv, QueueInv,
           NextOffered, LiveEnd, ReplayInv, Replayed, NetInv, seenVars, StreamInv,
           ClientInv, Judged, WireInv, Fits, HandshakeInv, MayWrite, NextLive, WireEnd
<1> QED
    BY <1>2, <1>3 DEF ResumeInv

-----------------------------------------------------------------------------
(* The invariant holds.                                                    *)

\* At first there is no connection, whatever the session has produced.
LEMMA ResumeInit ==
    ASSUME Init
    PROVE  ResumeInv
<1>1. TypeOK
    <2>1. end \in 0 .. MaxEnd /\ offset \in 0 .. MaxEnd /\ shownEnd \in -1 .. MaxEnd /\
             opened \in 0 .. MaxConns
        BY ResumeAssumption DEF Init
    <2>2. hello \in [Conns -> [known : BOOLEAN, offset : 0 .. MaxEnd]]
        BY ResumeAssumption DEF Init, NoHello
    <2>3. chunk \in Spans /\ replay \in [Conns -> Spans] /\ queue \in [Conns -> Spans] /\
             batch \in [Conns -> Spans]
        BY SpanFacts DEF Init
    <2>4. net \in [Conns -> Seq(Frames)]
        BY DEF Init
    <2> QED
        BY <2>1, <2>2, <2>3, <2>4 DEF Init, TypeOK
<1>2. \A c \in Conns : c > 0
    BY DEF Conns
<1>3. OrderInv /\ PumpInv /\ StreamInv
    BY <1>1, <1>2, ResumeAssumption DEF Init, OrderInv, PumpInv, StreamInv, TypeOK
<1>4. \A c \in Conns : LiveEnd(c) = 0
    BY SpanFacts DEF Init, LiveEnd, IsEmpty
<1>5. QueueInv /\ ReplayInv
    <2>1. end \in Nat /\ NoHello.offset = 0
        BY <1>1, ResumeAssumption DEF TypeOK, NoHello
    <2> QED
        BY <1>4, <2>1, SpanFacts DEF Init, QueueInv, IsInterval, ReplayInv, Replayed
<1>6. NetInv
    BY <1>2, LenProperties DEF Init, NetInv, NoConn
<1>7. ClientInv /\ WireInv /\ HandshakeInv
    BY DEF Init, ClientInv, WireInv, HandshakeInv
<1> QED
    BY <1>1, <1>3, <1>5, <1>6, <1>7 DEF ResumeInv

\* Every step of the pump, of a connection's read loop and delivery, of the
\* network and of the client preserves it.
LEMMA ResumeNext ==
    ASSUME ResumeInv, [Next]_vars
    PROVE  ResumeInv'
<1>1. CASE Pump
    BY <1>1, PumpAppendStep, PumpFanoutStep, PumpEnqueueStep DEF Pump
<1>2. CASE \E c \in Conns : Handler(c)
    BY <1>2, HelloAttachStep, HelloSliceStep, HelloTailStep, HelloWelcomeStep,
       HelloResetStep,
       HelloOutputStep, HandlerLeavesStep DEF Handler
<1>3. CASE \E c \in Conns : Writer(c)
    BY <1>3, WriterTakeStep, WriterSendStep, WriterFailStep, WriterCloseStep,
       WriterStoppedStep DEF Writer
<1>4. CASE ClientOpen \/ ClientDrop \/ ClientReload \/ ClientReceive
    BY <1>4, ClientOpenStep, ClientDropStep, ClientReloadStep, ClientReceiveStep
<1>5. CASE UNCHANGED vars
    BY <1>5, StutterStep
<1> QED
    BY <1>1, <1>2, <1>3, <1>4, <1>5 DEF Next

\* The invariant of disconnect survival, for any ring, queue, chunk and tail
\* size, any stream and any number of connections.
THEOREM ResumeInvariant == Spec => []ResumeInv
BY ResumeInit, ResumeNext, PTL DEF Spec

\* Every variable has its type.
THEOREM ResumeTypes == Spec => []TypeOK
<1>1. ResumeInv => TypeOK
    BY DEF ResumeInv
<1> QED
    BY <1>1, ResumeInvariant, PTL

\* The replay and the live output of a registered connection leave no hole
\* between them and none within (store.go:134-136, ws.go:203-210).
THEOREM ReplayMeetsLive == Spec => []NoGapBehindReplay
<1>1. ResumeInv => NoGapBehindReplay
    BY DEF ResumeInv, TypeOK, QueueInv, ReplayInv, NoGapBehindReplay
<1> QED
    BY <1>1, ResumeInvariant, PTL

\* No offset of the client, of a hello or of the screen is past the stream.
THEOREM OffsetsAreProduced == Spec => []OffsetsWithinStream
<1>1. ResumeInv => OffsetsWithinStream
    BY DEF ResumeInv, StreamInv, ReplayInv, OffsetsWithinStream
<1> QED
    BY <1>1, ResumeInvariant, PTL

\* Over any number of connections, drops and reloads, a client none of whose
\* handshakes was overtaken or cut shows every byte once and in order.
THEOREM ScreenShowsTheStream == Spec => []ScreenIsTheStream
<1>1. ResumeInv => ScreenIsTheStream
    <2> SUFFICES ASSUME ResumeInv, Judged
                 PROVE  fault = "none" /\ (cur = NoConn => shownEnd \in {-1, offset})
        BY DEF ScreenIsTheStream
    <2>1. repaint \in {"none", "due"}
        BY DEF ResumeInv, TypeOK, Judged
    <2> QED
        BY <2>1 DEF ResumeInv, ClientInv
<1> QED
    BY <1>1, ResumeInvariant, PTL
=============================================================================
