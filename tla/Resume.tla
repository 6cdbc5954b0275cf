-------------------------------- MODULE Resume --------------------------------
(***************************************************************************)
(* Disconnect survival: one live session, its replay ring, the connections *)
(* of one browser tab one after the other, and the goroutines that write   *)
(* to each of them.  It composes                                           *)
(*                                                                         *)
(*   pump, fanout, Attach and detach       internal/session/store.go       *)
(*   the ring as a window of the stream    internal/session/replay.go      *)
(*   the queue of each listener            internal/session/delivery.go    *)
(*   handleHello and OnError               internal/web/ws.go              *)
(*   TerminalConnection                    web/connection.js               *)
(*                                                                         *)
(* The stream is represented by offsets: a chunk, a queue or a frame is a  *)
(* half-open interval [from, to) of it.  (OutputDelivery shows that a      *)
(* queue of consecutive chunks is one; NoGapBehindReplay below shows that  *)
(* the chunks are consecutive.)  The socket is a FIFO per connection.  *)
(***************************************************************************)
EXTENDS Integers, Sequences

CONSTANTS
    Capacity,  \* bytes the ring retains (bufferCapacityBytes)
    TailBytes, \* bytes replayed to a fresh attach (ReconnectTailBytes)
    MaxQueue,  \* bytes a listener's queue holds (defaultOutputQueueBytes)
    MaxChunk,  \* largest PTY read
    MaxEnd,    \* bound on the output stream
    MaxConns   \* bound on the connections the client opens

ASSUME ResumeAssumption ==
    /\ {Capacity, TailBytes, MaxQueue, MaxChunk, MaxConns} \subseteq Nat \ {0}
    /\ MaxEnd \in Nat

Conns == 1..MaxConns
NoConn == 0

VARIABLES
    \* The session.
    end,       \* ReplayBuffer.end
    pumpPc,    \* "read": in ptmx.Read; "fanout": appended, targets not chosen;
               \* "enqueue": targets chosen
    chunk,     \* the chunk in the pump's hands
    targets,   \* fanout's snapshot of the listeners still to be served
    listeners, \* Session.listeners
    \* One entry per connection, server side.
    handler,   \* where the connection's read loop is
    hello,     \* the hello it received: [known, offset]
    replay,    \* handleHello's offset and bytes
    queue,     \* outputDelivery.pending
    qState,    \* outputDelivery.state
    writer,    \* the delivery goroutine
    batch,     \* the batch it is writing
    \* The network: frames under way to the client, and the links still up.
    net, up,
    \* The client.
    cur,       \* its current connection, or NoConn
    opened,    \* how many connections it opened so far
    known,     \* #sessionId is set
    offset,    \* #offset
    \* What a user sees and what went by (no code state).
    shownEnd,  \* end of the output on the terminal, -1 when it is empty
    fault,     \* the first fault of that output: it was shown twice
               \* ("duplicated"), left out ("skipped"), or the client discarded
               \* a frame past its offset ("discarded"); else "none"
    raced,     \* a live frame was written before the hello was answered
    repaint    \* "due": the client has had the welcome of a repaint, not yet
               \* the reset; "torn": it lost a connection there; else "none"

sessionVars == <<end, pumpPc, chunk, targets>>
queueVars   == <<queue, qState, writer, batch>>
clientVars  == <<cur, opened, known, offset>>
seenVars    == <<shownEnd, fault>>
vars == <<sessionVars, listeners, handler, hello, replay, queueVars, net, up,
          clientVars, seenVars, raced, repaint>>

Span(a, b) == [from |-> a, to |-> b]
NoBytes    == Span(0, 0)
NoHello    == [known |-> FALSE, offset |-> 0]
IsEmpty(s) == s.from = s.to
Size(s)    == s.to - s.from

\* Mutant: the tail of a stream shorter than the ring is not clamped to its start.
MutStartUnclamped == end - Capacity

\* Offset of the oldest byte the ring retains.
StartOffset == IF end > Capacity THEN end - Capacity ELSE 0

\* A client cannot tell the two kinds of welcome apart.
Welcome(o) == [t |-> "welcome", from |-> o, to |-> o]
WelcomeRepaint(o) == [t |-> "welcomeRepaint", from |-> o, to |-> o]
Reset(o)   == [t |-> "reset", from |-> o, to |-> o]
Output(s)  == [t |-> "output", from |-> s.from, to |-> s.to]
CloseFrame == [t |-> "close", from |-> 0, to |-> 0]

\* A write to c.  A client that is gone does not get it, whether or not the
\* server's write reports an error.
Sent(c, frame) ==
    net' = IF c \in up THEN [net EXCEPT ![c] = Append(@, frame)] ELSE net

(***************************************************************************)
(* A tab that starts without a session, or one that reloads: its session   *)
(* id survived in sessionStorage, its offset and its screen did not.       *)
(***************************************************************************)
Init ==
    /\ known \in BOOLEAN
    /\ end \in IF known THEN 0..MaxEnd ELSE {0}
    /\ pumpPc = "read" /\ chunk = NoBytes /\ targets = {}
    /\ listeners = {}
    /\ handler = [c \in Conns |-> "none"]
    /\ hello = [c \in Conns |-> NoHello]
    /\ replay = [c \in Conns |-> NoBytes]
    /\ queue = [c \in Conns |-> NoBytes]
    /\ qState = [c \in Conns |-> "running"]
    /\ writer = [c \in Conns |-> "none"]
    /\ batch = [c \in Conns |-> NoBytes]
    /\ net = [c \in Conns |-> << >>]
    /\ up = {}
    /\ cur = NoConn /\ opened = 0 /\ offset = 0
    /\ shownEnd = -1
    /\ fault = "none"
    /\ raced = FALSE /\ repaint = "none"

-----------------------------------------------------------------------------
(* The pump.                                                               *)

\* The session of a client that has none is started by its first hello.
SessionStarted == known \/ \E c \in Conns : handler[c] \notin {"none", "hello"}

\* Back to the next read.
PumpDone == pumpPc' = "read" /\ chunk' = NoBytes

\* ptmx.Read returned bytes: they are appended to the ring before any listener
\* is looked at.
PumpAppend ==
    /\ pumpPc = "read"
    /\ SessionStarted
    /\ \E n \in 1..MaxChunk :
          /\ end + n <= MaxEnd
          /\ chunk' = Span(end, end + n)
          /\ end' = end + n
    /\ pumpPc' = "fanout"
    /\ UNCHANGED <<targets, listeners, handler, hello, replay, queueVars, net, up,
                   clientVars, seenVars, raced, repaint>>

\* fanout's critical section under s.mu.
PumpFanout ==
    /\ pumpPc = "fanout"
    /\ targets' = listeners
    /\ IF listeners = {} THEN PumpDone ELSE pumpPc' = "enqueue" /\ UNCHANGED chunk
    /\ UNCHANGED <<end, listeners, handler, hello, replay, queueVars, net, up,
                   clientVars, seenVars, raced, repaint>>

\* enqueue, for one target, outside s.mu.
PumpEnqueue(c) ==
    /\ pumpPc = "enqueue"
    /\ c \in targets
    /\ targets' = targets \ {c}
    /\ IF targets' = {} THEN PumpDone ELSE UNCHANGED <<pumpPc, chunk>>
    /\ IF qState[c] # "running" THEN UNCHANGED <<queue, qState>>
       ELSE /\ queue' = [queue EXCEPT ![c] =
                            IF IsEmpty(@) THEN chunk
                            ELSE Span(@.from, @.to + Size(chunk))]
            /\ qState' = [qState EXCEPT ![c] =
                            IF Size(queue'[c]) > MaxQueue THEN "overflowed" ELSE @]
    /\ UNCHANGED <<end, listeners, handler, hello, replay, writer, batch, net, up,
                   clientVars, seenVars, raced, repaint>>

Pump == PumpAppend \/ PumpFanout \/ (\E c \in Conns : PumpEnqueue(c))

-----------------------------------------------------------------------------
(* The delivery goroutine of a connection.                                 *)

WriterTake(c) ==
    /\ writer[c] = "drain"
    /\ qState[c] = "running"
    /\ ~IsEmpty(queue[c])
    /\ batch' = [batch EXCEPT ![c] = queue[c]]
    /\ queue' = [queue EXCEPT ![c] = NoBytes]
    /\ writer' = [writer EXCEPT ![c] = "write"]
    /\ UNCHANGED <<sessionVars, listeners, handler, hello, replay, qState, net, up,
                   clientVars, seenVars, raced, repaint>>

\* A live frame goes out as soon as the socket's write lock is free, whatever
\* handleHello has still to send on the same connection.
WriterSend(c) ==
    /\ writer[c] = "write"
    /\ Sent(c, Output(batch[c]))
    /\ raced' = (raced \/ handler[c] # "reading")
    /\ writer' = [writer EXCEPT ![c] = "drain"]
    /\ UNCHANGED <<sessionVars, listeners, handler, hello, replay, queue, qState,
                   batch, up, clientVars, seenVars, repaint>>

\* The write fails (the peer is gone, or does not read for ten seconds), or the
\* queue overflowed: fail() discards the queue.
WriterFail(c) ==
    /\ \/ writer[c] = "write"
       \/ writer[c] = "drain" /\ qState[c] = "overflowed"
    /\ qState' = [qState EXCEPT ![c] = "stopped"]
    /\ queue' = [queue EXCEPT ![c] = NoBytes]
    /\ batch' = [batch EXCEPT ![c] = NoBytes]
    /\ writer' = [writer EXCEPT ![c] = "onerror"]
    /\ UNCHANGED <<sessionVars, listeners, handler, hello, replay, net, up,
                   clientVars, seenVars, raced, repaint>>

\* onError: the listener is removed and the connection closed.  What was
\* written before the close frame still reaches a client that is there.
WriterClose(c) ==
    /\ writer[c] = "onerror"
    /\ listeners' = listeners \ {c}
    /\ Sent(c, CloseFrame)
    /\ up' = up \ {c}
    /\ writer' = [writer EXCEPT ![c] = "done"]
    /\ UNCHANGED <<sessionVars, handler, hello, replay, queue, qState, batch,
                   clientVars, seenVars, raced, repaint>>

WriterStopped(c) ==
    /\ writer[c] = "drain"
    /\ qState[c] = "stopped"
    /\ writer' = [writer EXCEPT ![c] = "done"]
    /\ batch' = [batch EXCEPT ![c] = NoBytes]
    /\ UNCHANGED <<sessionVars, listeners, handler, hello, replay, queue, qState,
                   net, up, clientVars, seenVars, raced, repaint>>

Writer(c) == WriterTake(c) \/ WriterSend(c) \/ WriterFail(c) \/ WriterClose(c)
                \/ WriterStopped(c)

-----------------------------------------------------------------------------
(* handleHello, run by the connection's read loop.                         *)

\* Mutant: the listener is registered only after the ring was read.
MutHelloAttachLate(c) ==
    /\ \/ /\ handler[c] = "hello"
          /\ handler' = [handler EXCEPT ![c] = IF hello[c].known THEN "slice" ELSE "tail"]
          /\ UNCHANGED <<listeners, writer>>
       \/ /\ handler[c] \in {"welcome", "welcomeTail"}
          /\ writer[c] = "none"
          /\ listeners' = listeners \union {c}
          /\ writer' = [writer EXCEPT ![c] = "drain"]
          /\ UNCHANGED handler
    /\ UNCHANGED <<sessionVars, hello, replay, queue, qState, batch, net, up,
                   clientVars, seenVars, raced, repaint>>

\* The hello is read; the session is found or started; Attach registers the
\* listener and starts its delivery goroutine, which may write from now on.
HelloAttach(c) ==
    /\ handler[c] = "hello"
    /\ listeners' = listeners \union {c}
    /\ writer' = [writer EXCEPT ![c] = "drain"]
    /\ handler' = [handler EXCEPT ![c] = IF hello[c].known THEN "slice" ELSE "tail"]
    /\ UNCHANGED <<sessionVars, hello, replay, queue, qState, batch, net, up,
                   clientVars, seenVars, raced, repaint>>

\* SliceFrom(lastOffset): what the client missed, if the ring still has it.
HelloSlice(c) ==
    /\ handler[c] = "slice"
    /\ IF hello[c].offset \in StartOffset..end
       THEN /\ replay' = [replay EXCEPT ![c] = Span(hello[c].offset, end)]
            /\ handler' = [handler EXCEPT ![c] = "welcome"]
       ELSE /\ handler' = [handler EXCEPT ![c] = "tail"]
            /\ UNCHANGED replay
    /\ UNCHANGED <<sessionVars, listeners, hello, queueVars, net, up, clientVars,
                   seenVars, raced, repaint>>

\* Tail, cut by SnapTailToSafeBoundary at some byte of it or at its end.
HelloTail(c) ==
    /\ handler[c] = "tail"
    /\ \E from \in StartOffset..end :
          /\ from >= end - TailBytes
          /\ replay' = [replay EXCEPT ![c] = Span(from, end)]
    /\ handler' = [handler EXCEPT ![c] = "welcomeTail"]
    /\ UNCHANGED <<sessionVars, listeners, hello, queueVars, net, up, clientVars,
                   seenVars, raced, repaint>>

HelloWelcome(c) ==
    /\ \/ /\ handler[c] = "welcome"
          /\ Sent(c, Welcome(replay[c].from))
          /\ handler' = [handler EXCEPT ![c] = "output"]
       \/ /\ handler[c] = "welcomeTail"
          /\ Sent(c, WelcomeRepaint(replay[c].from))
          /\ handler' = [handler EXCEPT ![c] = "reset"]
    /\ UNCHANGED <<sessionVars, listeners, hello, replay, queueVars, up, clientVars,
                   seenVars, raced, repaint>>

\* Mutant: the reset control frame is left out.
MutHelloNoReset(c) ==
    /\ handler[c] = "reset"
    /\ handler' = [handler EXCEPT ![c] = "output"]
    /\ UNCHANGED <<sessionVars, listeners, hello, replay, queueVars, net, up,
                   clientVars, seenVars, raced, repaint>>

HelloReset(c) ==
    /\ handler[c] = "reset"
    /\ Sent(c, Reset(replay[c].from))
    /\ handler' = [handler EXCEPT ![c] = "output"]
    /\ UNCHANGED <<sessionVars, listeners, hello, replay, queueVars, up, clientVars,
                   seenVars, raced, repaint>>

HelloOutput(c) ==
    /\ handler[c] = "output"
    /\ IF IsEmpty(replay[c]) THEN UNCHANGED net ELSE Sent(c, Output(replay[c]))
    /\ handler' = [handler EXCEPT ![c] = "reading"]
    /\ UNCHANGED <<sessionVars, listeners, hello, replay, queueVars, up, clientVars,
                   seenVars, raced, repaint>>

\* Mutant: the read loop returns without its cleanup.
MutHandlerNoCleanup(c) ==
    /\ handler[c] \in {"hello", "reading"}
    /\ c \notin up
    /\ handler' = [handler EXCEPT ![c] = "closed"]
    /\ hello' = [hello EXCEPT ![c] = NoHello]
    /\ replay' = [replay EXCEPT ![c] = NoBytes]
    /\ UNCHANGED <<sessionVars, listeners, queueVars, net, up, clientVars, seenVars,
                   raced, repaint>>

\* The read loop sees the connection gone: cleanup detaches the listener and
\* stops its delivery.  handleHello runs on the same goroutine and ends first.
HandlerLeaves(c) ==
    /\ handler[c] \in {"hello", "reading"}
    /\ c \notin up
    /\ handler' = [handler EXCEPT ![c] = "closed"]
    /\ listeners' = listeners \ {c}
    /\ qState' = [qState EXCEPT ![c] = "stopped"]
    /\ queue' = [queue EXCEPT ![c] = NoBytes]
    /\ hello' = [hello EXCEPT ![c] = NoHello]
    /\ replay' = [replay EXCEPT ![c] = NoBytes]
    /\ UNCHANGED <<sessionVars, writer, batch, net, up, clientVars, seenVars, raced,
                   repaint>>

Handler(c) == HelloAttach(c) \/ HelloSlice(c) \/ HelloTail(c) \/ HelloWelcome(c)
                 \/ HelloReset(c) \/ HelloOutput(c) \/ HandlerLeaves(c)

-----------------------------------------------------------------------------
(* The client.                                                             *)

\* #open and onopen.  A client whose first connection dropped before its
\* welcome has no session to resume: it starts another one, out of scope here.
ClientOpen ==
    /\ cur = NoConn
    /\ opened < MaxConns
    /\ known \/ opened = 0
    /\ opened' = opened + 1
    /\ cur' = opened + 1
    /\ up' = up \union {cur'}
    /\ hello' = [hello EXCEPT ![cur'] = [known |-> known, offset |-> offset]]
    /\ handler' = [handler EXCEPT ![cur'] = "hello"]
    /\ UNCHANGED <<sessionVars, listeners, replay, queueVars, net, known, offset,
                   seenVars, raced, repaint>>

RepaintLost == repaint' = IF repaint = "due" THEN "torn" ELSE repaint

\* What was on its way is lost; the server has not noticed yet.
LoseConnection ==
    /\ cur # NoConn
    /\ cur' = NoConn
    /\ up' = up \ {cur}
    /\ net' = [net EXCEPT ![cur] = << >>]
    /\ RepaintLost

ClientDrop ==
    /\ LoseConnection
    /\ UNCHANGED <<sessionVars, listeners, handler, hello, replay, queueVars,
                   opened, known, offset, seenVars, raced>>

\* A page reload: a new TerminalConnection and an empty terminal, the session
\* id read back from sessionStorage.
ClientReload ==
    /\ LoseConnection
    /\ offset' = 0
    /\ shownEnd' = -1
    /\ UNCHANGED <<sessionVars, listeners, handler, hello, replay, queueVars,
                   opened, known, fault, raced>>

\* The client shows the bytes from its #offset up to `to`.
Show(to) ==
    /\ offset' = to
    /\ shownEnd' = to
    /\ fault' = IF fault # "none" \/ shownEnd \in {-1, offset} THEN fault
                ELSE IF offset < shownEnd THEN "duplicated" ELSE "skipped"

\* Mutant: the offset advances by the whole frame, the skipped part included.
MutHandleCountsOverlap(f) ==
    \/ /\ f.from > offset \/ f.to <= offset
       /\ UNCHANGED <<offset, seenVars>>
    \/ /\ f.from <= offset /\ f.to > offset
       /\ Show(offset + Size(f))

\* Mutant: the frame that starts at the offset is discarded too.
MutHandleStrict(f) ==
    \/ /\ f.from >= offset \/ f.to <= offset
       /\ UNCHANGED <<offset, seenVars>>
    \/ /\ f.from < offset /\ f.to > offset
       /\ Show(f.to)

\* #handleBinary: older bytes are skipped, a frame past #offset is discarded.
HandleOutput(f) ==
    \/ /\ f.from > offset
       /\ fault' = IF fault = "none" THEN "discarded" ELSE fault
       /\ UNCHANGED <<offset, shownEnd>>
    \/ /\ f.from <= offset /\ f.to <= offset
       /\ UNCHANGED <<offset, seenVars>>
    \/ /\ f.from <= offset /\ f.to > offset
       /\ Show(f.to)

\* #handleControl, and onclose.
HandleControl(f) ==
    \/ /\ f.t \in {"welcome", "welcomeRepaint"}
       /\ known' = TRUE /\ offset' = f.from
       /\ repaint' = IF f.t = "welcomeRepaint" /\ repaint = "none" THEN "due"
                     ELSE repaint
       /\ UNCHANGED <<cur, seenVars>>
    \/ /\ f.t = "reset"
       /\ offset' = f.from /\ shownEnd' = -1
       /\ repaint' = IF repaint = "due" THEN "none" ELSE repaint
       /\ UNCHANGED <<cur, known, fault>>
    \/ /\ f.t = "close"
       /\ cur' = NoConn
       /\ RepaintLost
       /\ UNCHANGED <<known, offset, seenVars>>

ClientReceive ==
    /\ cur # NoConn
    /\ net[cur] # << >>
    /\ LET f == Head(net[cur])
       IN  \/ f.t = "output" /\ HandleOutput(f) /\ UNCHANGED <<cur, known, repaint>>
           \/ f.t # "output" /\ HandleControl(f)
    /\ net' = [net EXCEPT ![cur] = Tail(@)]
    /\ UNCHANGED <<sessionVars, listeners, handler, hello, replay, queueVars, up,
                   opened, raced>>

-----------------------------------------------------------------------------
Next ==
    \/ Pump
    \/ \E c \in Conns : Handler(c) \/ Writer(c)
    \/ ClientOpen \/ ClientDrop \/ ClientReload \/ ClientReceive

Spec == Init /\ [][Next]_vars

(***************************************************************************)
(* Goroutines that can run do, the network delivers or drops, the client   *)
(* reconnects (its backoff timer fires).  Nothing makes the PTY produce    *)
(* output, or a connection drop.                                           *)
(***************************************************************************)
Fairness ==
    /\ WF_vars(PumpFanout)
    /\ \A c \in Conns : /\ WF_vars(PumpEnqueue(c))
                         /\ WF_vars(Handler(c))
                         /\ WF_vars(Writer(c))
    /\ WF_vars(ClientOpen) /\ WF_vars(ClientReceive)

FairSpec == Spec /\ Fairness

-----------------------------------------------------------------------------
(* Properties.                                                             *)

Spans == [from : 0..MaxEnd, to : 0..MaxEnd]
Frames == [t : {"welcome", "welcomeRepaint", "reset", "output", "close"}, from : 0..MaxEnd,
           to : 0..MaxEnd]

\* Every variable has its type.
TypeOK ==
    /\ end \in 0..MaxEnd
    /\ pumpPc \in {"read", "fanout", "enqueue"}
    /\ chunk \in Spans
    /\ targets \subseteq Conns /\ listeners \subseteq Conns /\ up \subseteq Conns
    /\ handler \in [Conns -> {"none", "hello", "slice", "tail", "welcome",
                              "welcomeTail", "reset", "output", "reading", "closed"}]
    /\ hello \in [Conns -> [known : BOOLEAN, offset : 0..MaxEnd]]
    /\ replay \in [Conns -> Spans]
    /\ queue \in [Conns -> Spans]
    /\ qState \in [Conns -> {"running", "overflowed", "stopped"}]
    /\ writer \in [Conns -> {"none", "drain", "write", "onerror", "done"}]
    /\ batch \in [Conns -> Spans]
    /\ net \in [Conns -> Seq(Frames)]
    /\ cur \in Conns \union {NoConn} /\ opened \in 0..MaxConns
    /\ known \in BOOLEAN /\ offset \in 0..MaxEnd /\ shownEnd \in -1..MaxEnd
    /\ fault \in {"none", "duplicated", "skipped", "discarded"}
    /\ raced \in BOOLEAN /\ repaint \in {"none", "due", "torn"}

\* The first byte that is still to be put into c's queue.
NextOffered(c) ==
    IF (pumpPc = "enqueue" /\ c \in targets) \/ pumpPc = "fanout" THEN chunk.from
    ELSE end

\* The end of the live output handed to c so far, 0 before the first chunk.
LiveEnd(c) == IF IsEmpty(queue[c]) THEN batch[c].to ELSE queue[c].to

Replayed(c) == handler[c] \in {"welcome", "welcomeTail", "reset", "output", "reading"}

\* The replay and the live output of a connection leave no hole between them
\* and none within: the listener is registered before the ring is read, and the
\* pump appends to the ring before it looks at the listeners (store.go:134-136,
\* ws.go:203-210).  Swapping either pair loses a chunk now and then.
NoGapBehindReplay ==
    \A c \in listeners : qState[c] = "running" =>
        /\ LiveEnd(c) # 0 => NextOffered(c) = LiveEnd(c)
        /\ Replayed(c) => \/ NextOffered(c) <= replay[c].to
                          \/ NextOffered(c) <= LiveEnd(c)

\* A client never asks for output the session has not produced: its offset is
\* rewound and set forward by welcomes and resets of any connection, yet a
\* resume misses the ring only when the ring has evicted what it asks for.
OffsetsWithinStream ==
    /\ offset <= end
    /\ \A c \in Conns : hello[c].offset <= end
    /\ shownEnd <= end

\* No handshake was overtaken by live output or cut between welcome and reset.
Judged == ~raced /\ repaint # "torn"

\* However often the connection drops, whatever the ring evicted and the queue
\* lost: a client none of whose handshakes was overtaken or cut shows every byte
\* of the stream once, in order, from where its screen was last cleared, and its
\* #offset is the end of its screen.
ScreenIsTheStream ==
    Judged =>
        /\ fault = "none"
        /\ cur = NoConn => shownEnd \in {-1, offset}

\* Under the same conditions a client that stays connected ends up with the
\* whole stream on its screen.
CatchesUp == <>[](~Judged \/ cur = NoConn \/ offset = end)

\* Every goroutine of a connection that is gone ends, and its listener with it
\* (a leaked listener would keep the session from ever being reaped).
ConnectionsEnd ==
    \A c \in Conns :
        (handler[c] # "none" /\ c \notin up) ~>
            (handler[c] = "closed" /\ c \notin listeners /\ writer[c] \in {"none", "done"})

\* Nothing is on its way to the connected client.
Quiet ==
    /\ cur # NoConn /\ cur \in up
    /\ handler[cur] = "reading" /\ pumpPc = "read"
    /\ writer[cur] = "drain" /\ qState[cur] = "running" /\ IsEmpty(queue[cur])
    /\ net[cur] = << >>

\* delivery.go:27: "Bytes are never dropped mid-stream: the client discards any
\* frame starting past its offset, so a gap would wedge a healthy connection".
\* A healthy connection with nothing under way has delivered everything: the
\* screen ends where the stream does, or was cleared there.
NotWedged == Quiet => end \in {shownEnd, offset}

\* replay.go:14: "a reconnecting client sends its last offset and gets back
\* exactly the bytes it missed".  While a client is disconnected, the offset it
\* will send is where its screen ends, also when no live output interfered.
LastOffsetIsScreenEnd ==
    ~raced /\ cur = NoConn => shownEnd \in {-1, offset}
=============================================================================
