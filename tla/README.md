# A TLA+ verification of web-terminal-go

web-terminal-go is a self-hosted web terminal: a Go server that owns PTY sessions
and a browser client that shows one of them. A session survives the loss of its
connection: the server keeps the last bytes of its output in a ring, and a client that
comes back says how far it got. This directory models that core, checks it with TLC
and proves part of it with TLAPS. Source paths are those of the repository
(`internal/...`, `web/...`).

## Inventory

| component | source | state | operations |
|---|---|---|---|
| output delivery | `internal/session/delivery.go` | `pending`, `startOffset`, `state`, a goroutine asleep or not | `enqueue`, `stop`, `run`/`drain`, `fail` |
| session lifecycle, store | `internal/session/store.go` | `sessions`, per session `alive`, `listeners`, `idleSince`, `idleGrace` | `StartSession`, `GetLive`, `Attach`, detach, `MarkClientClosed`, `pump`, `fanout`, `markExited`, `Reap`/`killIfIdle`, `Write`, `Resize` |
| replay ring | `internal/session/replay.go` | `chunks`, `stored`, `end` | `Append`/`evictLocked`, `SliceFrom`, `Tail`, `SnapTailToSafeBoundary` |
| connection handler | `internal/web/ws.go` | `curSess`, `detach`, `closeOnce`, `cleanClose`, the write lock | `ServeWS` read loop, `attach`, `cleanup`, `handleHello` |
| browser connection | `web/connection.js` | `#ws`, `#sessionId`, `#offset`, `#attempts`, timers, `sessionStorage` | `connect`, `#open`, `#handleControl`, `#handleBinary`, ping, `close` |
| PTY handle | `internal/pty/pty.go` | `closed` | `Start`, `Resize`, `Close`, `Kill` |
| wire protocol | `internal/protocol/protocol.go` | none | encode, decode, validate |
| HTTP server, config | `internal/web/server.go`, `appearance.go` | none | static files, `/api/config`, environment |
| entry point | `main.go` | none | starts the reaper's five second ticker and the server |
| mouse, touch | `web/mouse-input.js`, `mouse-encode.js` | held button, gesture, long press timer | DOM handlers |
| IME | `web/ime-input.js`, `ime-preedit.js` | composing, last composition | DOM handlers |
| appearance, page | `web/appearance.js`, `index.html` | font size delta, Ctrl latch | hotkeys, key row |
| test client | `cmd/wstest` | - | a tool |

How they meet. The *pump* goroutine of a session reads the PTY, appends to the ring and
then hands the chunk to the delivery of every listener attached at that moment. Each
*delivery* has a goroutine that writes frames to one WebSocket. The *read loop* of the
connection handles `hello`: it looks the session up or starts it, attaches a listener
(live output may be written from then on), cuts a replay from the ring and writes
`welcome`, perhaps `reset`, and the replay on the same socket. The socket has a write
lock, which orders frames but does not keep the two goroutines apart. The *reaper*
goroutine and every `hello` kill sessions that were left alone too long. The *browser*
keeps an offset; `welcome` and `reset` set it, output advances it, frames behind it are
skipped and frames past it are discarded. It pings the server, gives a socket up whose pong
is late, reconnects with a backoff, and keeps the session's id where a reload finds it.

What is hard: four kinds of goroutines with two locks and code that runs after the
unlock; onError, which comes from the delivery's goroutine at any time, also after the
listener was detached; a client and a server that learn of a lost connection at
different times; state (offset, screen, grace) that spans several connections; DOM handlers
and timers that read what another handler left behind.
`PROJECT.json` lists the hazards at their lines.

What makes each part correct: the delivery hands on consecutive bytes with truthful
offsets, in bounded memory, and always ends; a session is killed when, and only when,
its clients have been gone for the grace that applies, and everybody hears of its exit
once; replay and live output of a connection leave no hole; a client's screen is the
stream; a connection's handler returns and leaves nothing attached; a tab gets back to its
session; the program in the terminal is not left with a button held.

## Modules

* **PrefixStream**: what a listener is promised. A source produces bytes, the listener
  gets a growing prefix of them, in order and without holes, until the stream is closed.
* **OutputDelivery** (`delivery.go`): the queue and its three users. A critical section
  under `d.mu` is one step; the socket write, the `Signal` of `stop()` (after the
  unlock) and the `onError` callback are steps of their own. A byte is its offset in
  the stream. `cond.Wait` is the program counter `"waiting"`, which only `Signal`
  leaves. `stop()` may be called again, a failing write may or may not have put its
  frame on the wire.
* **Session** (`store.go` without the output): sessions, listeners, handlers, deliveries
  that fail, pump, reaper, clock. `Attach` and the exit it may have to tell are two
  steps, as in the code (the callback runs after the unlock); so are `markExited`'s
  critical section and each of its callbacks. Time is the age of `idleSince`, counted up
  to the longest grace. `away` and `deliberate` are history: how long no client has been
  attached, and whether the last one closed on purpose.
* **Resume**: composes pump, fanout, ring, deliveries, `handleHello` and the browser
  client for one live session and one browser tab. Output is intervals of the stream:
  OutputDelivery shows that a queue of consecutive chunks is an interval with a truthful
  start, `NoGapBehindReplay` that the chunks are consecutive. The ring is the window
  `[StartOffset, end)`. `HelloTail` lets the snapped cut be anywhere in the tail or at its
  end. A connection is a FIFO that may lose what is on its way; the client may drop or
  reload at any time, and the server notices later; the ring it uses is `TrailingWindow`.
  `shownEnd`, `fault`, `raced` and `repaint` are history: what the user sees, and whether a
  handshake was overtaken by live output or cut between `welcome` and `reset`.
* **TrailingWindow**: what the ring is for its users: the last `Capacity` bytes appended.
* **ReplayBuffer** (`replay.go`): the chunk list, `Append` with one step per iteration of
  `evictLocked`, and the readings of a hello (`SliceFrom`, `Tail`, `SnapTailToSafeBoundary`)
  as operators. `Contents`, which implements the window, is everything in the ring whenever
  a reader can get the lock. A byte is its offset; `text` says which bytes are newlines and
  which continue a code point, arbitrarily, since a PTY may write anything. The snap's third
  rule, an escape sequence cut in two, falls under "other".
* **ServeWS** (`ws.go`, and what it calls in `store.go` and `pty.go`): one connection's
  handler. `loop` is where the read loop is: `attach` takes four steps, since it lets go of
  `sessMu` to detach from the old session and to register with the new one, and `Write` to
  a PTY is a step that may not end. `run[n]` is where the delivery of the n-th hello is; a
  delivery that fails removes its listener and then calls `cleanup`, which runs for the
  first of its callers (`once`, `taken`) while the others wait. A detach function is named
  by its listener. `asked` and `welcomed` are history.
* **TabConnection** (`connection.js`, and `ws.go` as the tab sees it): `#ws`, the retry
  and ping timers, the stored id, `exit`, reload and `close()`, against a server that
  attaches sessions to connections and reaps those left alone. The network may swallow
  everything and later deliver it. Time is counted in periods of the ping timer:
  `IntervalPasses` ends one and makes the callback `due`, `PingTimer` is the callback. The code
  compares milliseconds, and its timeout is a whole number of periods
  (`connection.js:183-191`), so the callback's delay decides at the boundary: when as many
  periods have ended since the last pong as the timeout has, `PingTimer` may close or ping.
  From `onopen` on the code closes there, with the first ping one period younger than the
  timeout; when the last pong came late in its period, it closes a callback later. A
  timer that is a whole period late (a hidden page, a machine that slept) runs once for
  the periods it missed. `waiting` and `late` are history.
* **MouseInput** (`mouse-input.js`): mouse buttons and motion under the tracking modes,
  and the touch gestures: start, move, end and cancel of up to `MaxFingers` touches, the
  long press timer, the motion throttle both share, and the program in the terminal, which
  changes its tracking mode in between. `held`, `seenCell` and `pressed` are what the
  reports told that program. A handler that would read a property of `undefined` has no
  such step; `DragIsAnnounced` shows that it is not reached. Distances are counted in
  steps of the slop, and the mouse rests while fingers are down.
* **OutputDeliveryProofs, SessionProofs, ResumeProofs, ReplayBufferProofs, ServeWSProofs,
  TabConnectionProofs, MouseInputProofs**: the theorems about each of them and their proofs.
* **MCOutputDelivery, MCSession, MCResume, MCReplayBuffer, MCServeWS, MCTabConnection,
  MCMouseInput**: the modules TLC runs; MCResume adds the constraint `Judged`, MCServeWS
  the window sizes.

Three modules look at one connection from different sides. Session knows of a connection
that it attaches, detaches and may fail late, and asks when a session is idle; ServeWS
has the steps in between and asks whether everything attached is detached; Resume has
the frames and asks what the client sees. TabConnection's server is the coarse one of
the three: attached or not, and the messages that answer a hello and a ping.

Operators named `Mut...` are variants of the definition that follows them with a plausible
bug each; no specification uses them. They show that every property checked can be
violated by a fault in the code it is about.

Where an action stands for several lines, its guard is the code's condition at the
first of them; `PROJECT.json` maps every definition to its lines.

## Runs

| run | instance | shows |
|---|---|---|
| `delivery` | queue 2, chunks 1..3, stream 7 | no byte skipped or repeated, offsets truthful, one report, asleep only when idle, no lost wakeup, no leaked goroutine, overflow reported, PrefixStream implemented |
| `resume_screen` | ring 1, tail 1, queue 2, chunk 1, stream 3, 2 connections | under `Judged` histories the screen is the stream and the offset its end; offsets stay within the stream |
| `resume_server` | ring 2, tail 1, queue 1, chunks 1..2, stream 3, 1 connection | replay and live output leave no hole; goroutines and listener of a dead connection end; a client that stays connected gets the whole stream |
| `session` | 1 session, 3 listeners, graces 2 and 1 | idle bookkeeping, no early kill, exit told exactly once and nobody left out of it, no orphan for ever |
| `replay_buffer` | ring 3, chunks 1..4, stream 7, every placement of newlines and continuation bytes | a resume gets exactly what it missed or is refused, a repaint is the end of the stream at its true offset, TrailingWindow implemented: after `Append` the ring holds its capacity of trailing bytes, not one less or more |
| `serve_ws` | 2 sessions, 2 hellos, 5 window sizes | no listener left behind, a deliberate close marked, a welcomed client attached with its window size, the handler returns |
| `tab` | pong timeout 2 periods, 2 connections the server still holds, 2 unanswered pings, 2 session ids | the stored id is the attached session, the keepalive closes only a socket with a ping unanswered for the timeout less one period, a blackhole is noticed, the tab gets back to a session |
| `input` | 2 x 3 positions, 2 x 2 cells, 2 fingers, 2 buttons, 4 modes | no callback on an undefined cell, a drag is announced, one finger leaves no button held, a motion carries the button that is held |
| `resume_wedged`, `resume_torn`, `session_close_grace`, `touch_cancel` | as above | violations, see Findings |

Bounds. A queue of two bytes with chunks up to three is overflowed by one chunk and by
several; seven bytes leave room for two full batches after which the queue overflows. A
ring of one or two bytes and a stream of three lets a client that comes back find all,
part or none of what it missed. The client may start on any stream position (a
reloaded tab of a running session), so two connections are one resume; its offset, screen
and stored id can be any that a connection leaves behind. `MaxConns` bounds connections,
`MaxEnd` the stream; the other constants are the program's own limits made small.
`resume_screen` stops following histories that its property excludes (`Judged` is never
true again once false). Sessions of the store share nothing but the map, so one session is
enough for `session`; three listeners are two clients at once and a third that comes later.
Resume's runs do not check for deadlock: a bounded stream and a bounded number of
connections end in states where nothing is left to do, and neither does `replay_buffer`,
whose stream ends. A ring of three bytes with chunks up to four has chunks that evict
several others, chunks that are trimmed and a chunk larger than the ring.

The second hello of `serve_ws` is the first that finds something attached, and the first
that can begin after the cleanup of an earlier delivery; the proofs are for any number. The
sizes are a common one, the limits, and sizes beyond them, one of which 16 bits would make
small. In `tab` the counts of connections, pings and sessions are of those in use at a time:
a connection that both ends have given up, and a session that is gone, are used again, so
the run has no bound on how often a tab reconnects, and no last state. With a timeout of two
periods the boundary at which the callback may go either way falls on the second callback
after `onopen`, the period before and the one after it are in the instance too, and a pong
can be younger or older than each. The finger of `input` may leave the slop sideways only,
swipe twice and leave the terminal, whose cells are fewer than its positions; a second
finger is enough, the handlers look at the first and at the one that is lifted.

Fairness. Goroutines that can run do run (Go's scheduler), socket writes end within ten
seconds (`ws.go:41`, `50`), the ticker of `main.go:56` keeps the reaper going, time passes,
a killed process gives the pump its end of file, the browser's timers become due and fire,
be it late, and it reads its socket and ends a close it began. In ServeWS a write to the PTY
ends when the PTY is closed; the program need not read it. In TabConnection the server reads
what arrives and gives up connections nobody uses. `replay_buffer` and `input` state no
liveness and assume nothing. Not assumed: that the PTY produces output, a process exits by
itself, a client ever detaches or says anything, or a connection is lost. Two properties
name what they need beyond that. `HandlerEnds` asks that the read loop is not stuck in a
write for ever. `Reconnects` asks that the network works in the end, that the user stops
reloading and closing, and that the server gets to a message within a ping interval: a tab
whose answers always come late would close its sockets for ever, and rightly so.

## Proofs

For every value of the constants that satisfies the named assumptions
(`DeliveryAssumption`, `SessionAssumption`, `ResumeAssumption`, `ReplayAssumption`,
`TabAssumption`, `TouchAssumption`; `MaxHellosAssumption`, `NoneAssumption`,
`SizesAssumption`), and for any number of steps. The assumptions say that limits and
bounds are numbers, positive where the program's own limit is. Every safety property of
the passing runs is proved:

* **OutputDelivery**: `TypeOK`, `NothingSkipped`, `FrameOffsetTruthful`, `ReportedOnceDead`,
  `SleepsOnlyIdle`, and that it implements `PrefixStream`; also `QueueBounded`, the memory a
  client that does not read can pin, which no run checks. The invariant that makes the
  argument inductive says that written, batch and pending are consecutive runs of the
  stream, that `startOffset` is the offset of the first pending byte whenever there is
  one, and what the place of the goroutine implies for state, batch and report; the
  lemma `BytesConcat` joins two runs. `SleepsOnlyIdle` is inductive as it stands; it is what
  is safety in `QueueIsDrained` and `RunReturns`: whoever gives the sleeping goroutine
  something to do wakes it in the same step, or, in `stop()`, is still bound to.
* **Session**: `TypeOK`, `IdleIffUnattached`, `ExitToldOnce`, `NobodyForgotten` and
  `NoEarlyKill`; also `KilledIsUnlisted`, a part of `SessionInv` that no run checks.
  `SessionInv` adds who may be a listener (`ListenerInv`), that `alive` is
  "the pump is reading" (`PumpInv`), that those still to be told have not been told and
  have no `Attach` left that tells them (`ExitInv`), and that an idle period is no longer
  than the absence of clients and has a grace of its own only after a deliberate close
  (`AgeInv`). `ExitToldOnce` alone is not inductive: without the snapshot's part
  `NotifyExit` could tell anybody. `NobodyForgotten` is the converse, and what is safety in
  `ExitIsTold`: it rests on `alive` being cleared and the listeners being copied under
  one lock.
* **Resume**: `TypeOK`, `NoGapBehindReplay`, `OffsetsWithinStream` and `ScreenIsTheStream`,
  for any stream, ring, tail, queue and chunk size and any number of connections. The
  screen is the outcome of everything under way, so `ResumeInv` follows it along
  the wire: each frame may come behind the one before it (`Follows`), the first fits the
  client (`Fits`, `WireInv`), what the handshake has still to send starts within what was
  sent, and live output within what the handshake has still to send (`HandshakeInv`,
  with `WireEnd` the offset the client will have). `Judged` is a premise of these parts, and
  the step that falsifies it need not restore them. The server's side is `PumpInv` (the
  pump's chunk is the last in the ring), `QueueInv` (queue and batch are consecutive and
  end at the next chunk to be offered) and `ReplayInv`, which is `NoGapBehindReplay` with
  the replay's own bounds; `OrderInv` says how far handler, listener and delivery of
  one connection can be apart.
* **ReplayBuffer**: `TypeOK`, `ResumeIsExact`, `RepaintIsTruthful`, and that it implements
  `TrailingWindow`, for any capacity and chunk size and any placement of newlines and
  continuation bytes. Chunks are runs of consecutive bytes (`RunInv`, `OrderInv`), and
  each continues the one before it (`ChainInv`), except while `Append` evicts behind a
  chunk larger than the ring: only the end of that chunk was stored while `end` counts all
  of it, which leaves a `Hole`. The step lemma `HoleGoesFirst` is why no reader meets one: the
  chunk behind the hole fills the ring, so everything before it is in excess and
  the eviction cannot stop earlier. `StoredInv` and `RetainInv` bound `stored`, and with it
  what is in the ring when nobody appends (`ContentsAreRetained`), so the refinement excludes
  an eviction that stops early as well as one that takes too much. The walk of
  `sliceFromLocked` and the concatenation of the chunks are recursive functions: for
  each the proof names what it returns after k chunks (`Walked`, `JoinedRuns`), shows that
  this satisfies the recursion equation and, by induction over the set of numbers for which
  it agrees, that nothing else does.
* **TabConnection**: `TypeOK`, `StoredIsCurrent` and the action property `ForcedCloseIsDue`,
  for any timeout and any number of connections, pings and sessions. What is stored is
  decided by messages still on their way, so `WelcomeInv` says what will be stored when they
  are read; it needs the freshness of a new session's id, or a session that died could come
  back to life under a connection that still names it. The keepalive looks at the age of the
  last pong and the promise is about the oldest ping, which is up to a period younger:
  `AgeInv` relates them, with the callback that is due and may be the one to send it, and
  `PongInv`, that pings and pongs in flight are no more than the pings that wait, is needed
  for a pong to find a ping to answer. Queues are counted by cardinality (`CountAppend`,
  `CountTail`, `CountInsert`).
* **ServeWS**: `TypeOK`, `NoListenerLeft`, `CloseIsMarked` and `WelcomedIsAttached`, for any
  number of sessions, hellos and window sizes. The heart of `ServeInv` is `DutyInv`: every
  registered listener is the one in `detach`, in attach's `old` or in the cleanup that
  runs, or the one attach is about to publish. `SharedInv` says how `curSess` and
  `detach` belong together while attach is half done, `OnceInv` who ran the cleanup and
  that what is published after it came from a later hello, `WelcomedInv` and `CloseInv`
  carry the last two properties through the steps in which they do not speak.
* **MouseInput**: `TypeOK`, `DragIsAnnounced`, `NothingHeldAfterTouch` and
  `DragCarriesButton`, for any terminal and any number of fingers. `DragInv` adds to a drag
  that its finger is down and its timer off, `HeldInv` that with one finger only a drag
  holds the button, `ButtonInv` that the handler's `heldButton` is what the program saw
  pressed, and is down.

The invariants were model-checked on the runs' instances before they were proved; each of
them is stated in its proof module and can be checked there again.

Only model-checked is liveness, since the prover has neither fairness nor ENABLED:
`QueueIsDrained`, `RunReturns` and `OverflowReported` of the delivery, `ExitIsTold` and
`NoOrphans` of the session, `ConnectionsEnd` and `CatchesUp` of Resume, `HandlerEnds` of
the handler, `BlackholeIsNoticed` and `Reconnects` of the tab. That the four findings are
reachable is shown by their counterexamples.

## Findings

* `resume_wedged`: `handleHello` starts live output (`ws.go:203`) before it has written
  `welcome` and replay. A live frame that gets to the socket first is discarded by a
  client that is behind, and missing for good when the replay was cut before it: the
  connection stays up and shows nothing more. When the client is not behind, the frame is
  shown, and `welcome` sets the offset back so that the replay shows it again; `Judged`
  leaves both out of `resume_screen`.
* `resume_torn`: `welcome` moves the client's offset, `reset` clears its screen. A
  connection lost between the two makes the next resume skip output.
* `session_close_grace`: a write that fails after a deliberate close runs
  `removeListener` again, which clears the short grace `MarkClientClosed` has set.
* `touch_cancel`: a second finger that comes down during a long press drag clears
  `touchDragging` (`mouse-input.js:141`); the `touchcancel` that follows sends no release
  and the button stays held. A second finger that is simply lifted does the same to the
  end of the gesture, which is why `NothingHeldAfterTouch` is about one finger.

Met while modelling, and no disagreement with anything the repository says:

* A keepalive that gives up calls `ws.close()` (`connection.js:188`), whose close frame, once
  the network is back, is a deliberate close to the server (`ws.go:130`): the session gets
  the short grace of a closed tab while the tab may still wait in its backoff.
* The exception in `NoListenerLeft`: a hello that is read after a failed delivery has cleaned
  up attaches a listener that the spent `closeOnce` no longer detaches. It goes when its own
  delivery fails, which the closed socket brings about with the next output. The
  browser client says hello once per connection.
* The read loop writes input to the PTY itself (`store.go:276`). While a program does not read
  its terminal, the handler notices nothing, not even that its client has gone; the session
  keeps its listener and is never idle.
* The ping timer compares clocks, so a page whose timers were suspended closes a healthy
  socket when it wakes (`late` in `ForcedCloseIsDue`), and reconnects.
* `PONG_TIMEOUT_MS` is three times `PING_INTERVAL_MS`, and `#lastPongAt` is taken just
  before the interval starts (`connection.js:183-188`): the third callback after `onopen`
  measures the timeout and its own delay, and normally closes a socket that got no pong so
  far, whose first ping is about 30 seconds old, not 45. `ForcedCloseIsDue` therefore speaks
  of the timeout less one period.
* `heldButton` is one variable: with two buttons down, or a button released where no handler
  sees it, a motion may carry the wrong one (`muddled` in `DragCarriesButton`).

## Not modelled

* IME input (`ime-input.js`): what one composition is, as events in which order, is up to the
  browser and not in the source; the handlers' logic is comparisons of text.
* Font size, themes, the key row and its Ctrl latch: one clamped number, layout, one flag.
* Encoding and parsing of messages and mouse reports, HTTP, static files, configuration and
  spawning are stateless or I/O; the test client is a tool.
* The wheel handler keeps no state. The parser of escape sequences behind the snap is left out.
* Two clients that resize one session: ServeWS has one handler, and the PTY's size is that of
  its last request.
* In TabConnection the length of the backoff, latency within a ping interval, and the
  page's callbacks.

## Plan

Done: all modules above, and the proofs of every safety property of the passing runs.
What is left, in this order:

1. **The pieces fit**: Resume uses the ring as `TrailingWindow` and the delivery's queue as
   an interval. Its ring shown to implement `TrailingWindow`, and lemmas that say in
   OutputDelivery's terms what an interval stands for, would replace the
   argument under Modules by a theorem.
2. **Steps towards liveness** that are safety, as `SleepsOnlyIdle` and `NobodyForgotten` are:
   that a connection which is gone has somebody left to end each of its goroutines (Resume),
   that a tab without a socket has a timer running (TabConnection).
