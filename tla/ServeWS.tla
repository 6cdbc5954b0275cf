------------------------------ MODULE ServeWS ------------------------------
(***************************************************************************)
(* One WebSocket connection on the server (web/ws.go): the read loop of    *)
(* ServeWS, the deliveries of the sessions its hellos attach, and the      *)
(* cleanup the two race for.  curSess and detach are shared under sessMu,  *)
(* but attach lets go of it between its three steps, and cleanup may run   *)
(* on a delivery's goroutine (OnError) while attach is half done.  The     *)
(* frames themselves are in Resume, the graces and the reaper in Session.  *)
(***************************************************************************)
EXTENDS Integers, FiniteSets

CONSTANTS
    Sessions,  \* sessions the store may hold
    None,      \* Go's nil, as a session or a listener
    MaxHellos, \* bound: hellos a client sends on this connection
    Sizes      \* window sizes a client may ask for, as <<cols, rows>>

ASSUME MaxHellosAssumption == MaxHellos \in Nat \ {0}
ASSUME NoneAssumption == None \notin Sessions \union (1 .. MaxHellos)
ASSUME SizesAssumption == Sizes \subseteq Nat \X Nat

Listeners == 1 .. MaxHellos \* the listener of the n-th hello

VARIABLES
    loop,      \* where the read loop is
    hellos,    \* hellos read so far
    target,    \* attach's argument: the session of the hello being handled
    helloSize, \* the size in that hello
    old,       \* attach's old
    curSess, detach, \* shared under sessMu; a detach is named by its listener
    once,      \* closeOnce: "unused", "busy" or "done"
    taken,     \* the cleanup that runs: its caller (0 is the read loop, n the
               \* OnError of listener n), the s and d it captured
    clean,     \* cleanClose
    conn,      \* the server's end: "open" or "closed"
    peer,      \* the client: "there", "left" (sent a close frame) or "lost"
    reg,       \* listener |-> registered with its session
    run,       \* listener |-> where its delivery goroutine is
    owner,     \* listener |-> its session
    alive,     \* session |-> "none" (not started), "alive" or "exited"
    idle,      \* session |-> "held" (idleSince zero), "idle" or "closed" (idle
               \* with CloseGrace)
    ptySize,   \* session |-> the PTY's window size
    asked,     \* the last size the client asked its session for (no code state)
    welcomed   \* the session of the last welcome (no code state)

loopVars == <<loop, hellos, target, helloSize, old, clean>>
sharedVars == <<curSess, detach, once, taken>>
connVars == <<conn, peer>>
sessionVars == <<reg, run, owner, alive, idle>>
sizeVars == <<ptySize, asked, welcomed>>
vars == <<loopVars, sharedVars, connVars, sessionVars, sizeVars>>

Uint16(n) == n % 65536
Truncated(size) == <<Uint16(size[1]), Uint16(size[2])>>

\* Mutants: the columns have no upper limit; no lower one.
MutNoUpperLimit(size) == size[1] >= 2 /\ size[2] \in 1 .. 1000
MutNoLowerLimit(size) == size[1] <= 1000 /\ size[2] \in 1 .. 1000
\* ParseClientControl accepts these sizes and refuses the others.
ValidSize(size) == size[1] \in 2 .. 1000 /\ size[2] \in 1 .. 1000

Init ==
    /\ loop = "read" /\ hellos = 0 /\ target = None /\ helloSize = <<2, 1>>
    /\ old = None /\ clean = FALSE
    /\ curSess = None /\ detach = None
    /\ once = "unused" /\ taken = [by |-> 0, sess |-> None, detach |-> None]
    /\ conn = "open" /\ peer = "there"
    /\ reg = [n \in Listeners |-> FALSE]
    /\ run = [n \in Listeners |-> "none"]
    /\ owner = [n \in Listeners |-> None]
    \* The store may already hold sessions this client, or another, left.
    /\ alive \in [Sessions -> {"none", "alive"}]
    /\ idle = [s \in Sessions |-> "idle"]
    /\ ptySize = [s \in Sessions |-> <<2, 1>>]
    /\ asked = <<2, 1>> /\ welcomed = None

-----------------------------------------------------------------------------
(* Sessions, as far as one connection sees them.                           *)

Registered(s) == {n \in Listeners : reg[n] /\ owner[n] = s}

Removed(n) == \* removeListener
    /\ reg' = [reg EXCEPT ![n] = FALSE]
    /\ idle' = IF Registered(owner[n]) \ {n} = {}
               THEN [idle EXCEPT ![owner[n]] = "idle"] ELSE idle

\* The function Attach returned for listener n: removeListener, then stop.  A
\* write in flight may still fail after it.  Without a listener the session
\* is idle, for the default grace.
Detached(n) ==
    /\ run' = [run EXCEPT ![n] = IF @ = "running" THEN "stopped" ELSE @]
    /\ Removed(n)
    /\ UNCHANGED <<owner, alive>>

\* The program exits, or the reaper killed it.
SessionEnds(s) ==
    /\ alive[s] = "alive"
    /\ alive' = [alive EXCEPT ![s] = "exited"]
    /\ UNCHANGED <<loopVars, sharedVars, connVars, reg, run, owner, idle, sizeVars>>

-----------------------------------------------------------------------------
(* The read loop.                                                          *)

Reading == loop = "read" /\ conn = "open" /\ peer = "there"

\* A hello: GetLive finds its session, or StartSession starts one with the
\* size asked for.
Hello(s, size) ==
    /\ Reading /\ hellos < MaxHellos
    /\ ValidSize(size)
    /\ hellos' = hellos + 1 /\ target' = s /\ helloSize' = size
    /\ loop' = "attach"
    /\ IF alive[s] = "none"
       THEN /\ alive' = [alive EXCEPT ![s] = "alive"]
            /\ ptySize' = [ptySize EXCEPT ![s] = Truncated(size)]
       ELSE /\ alive[s] = "alive"
            /\ UNCHANGED <<alive, ptySize>>
    /\ UNCHANGED <<old, clean, sharedVars, connVars, reg, run, owner, idle, asked, welcomed>>

\* StartSession fails: an error message, and whatever was attached stays.
HelloRefused ==
    /\ Reading /\ hellos < MaxHellos
    /\ hellos' = hellos + 1
    /\ UNCHANGED <<loop, target, helloSize, old, clean, sharedVars, connVars, sessionVars, sizeVars>>

\* Mutant: the first hello's session stays the current one.
MutSwapKeepsSession ==
    /\ loop = "attach"
    /\ old' = detach /\ curSess' = IF curSess = None THEN target ELSE curSess
    /\ loop' = "detachOld"
    /\ UNCHANGED <<hellos, target, helloSize, clean, detach, once, taken, connVars, sessionVars, sizeVars>>

\* attach, under sessMu: remember the old detach, publish the session ...
AttachSwap ==
    /\ loop = "attach"
    /\ old' = detach /\ curSess' = target
    /\ loop' = "detachOld"
    /\ UNCHANGED <<hellos, target, helloSize, clean, detach, once, taken, connVars, sessionVars, sizeVars>>

\* ... without it: leave the old session ...
AttachLeaveOld ==
    /\ loop = "detachOld"
    /\ IF old = None THEN UNCHANGED sessionVars ELSE Detached(old)
    /\ old' = None /\ loop' = "register"
    /\ UNCHANGED <<hellos, target, helloSize, clean, sharedVars, connVars, sizeVars>>

\* ... register with the new one, whose delivery runs if it is alive (else
\* OnExit tells the client at once) ...
AttachRegister ==
    /\ loop = "register"
    /\ reg' = [reg EXCEPT ![hellos] = TRUE]
    /\ owner' = [owner EXCEPT ![hellos] = target]
    /\ run' = [run EXCEPT ![hellos] = IF alive[target] = "alive" THEN "running" ELSE @]
    /\ idle' = [idle EXCEPT ![target] = "held"]
    /\ loop' = "publish"
    /\ UNCHANGED <<hellos, target, helloSize, old, clean, sharedVars, connVars, alive, sizeVars>>

\* Mutant: attach publishes without looking.
MutPublishBlindly == detach' = hellos /\ UNCHANGED sessionVars
\* ... and under sessMu again publish the detach, unless a cleanup took the
\* session away in between.
PublishDetach ==
    IF curSess = target
    THEN detach' = hellos /\ UNCHANGED sessionVars
    ELSE Detached(hellos) /\ UNCHANGED detach

AttachPublish ==
    /\ loop = "publish"
    /\ PublishDetach
    /\ loop' = "resize"
    /\ UNCHANGED <<hellos, target, helloSize, old, clean, curSess, once, taken, connVars, sizeVars>>

\* handleHello resizes the session and welcomes the client.
HelloWelcome ==
    /\ loop = "resize"
    /\ ptySize' = [ptySize EXCEPT ![target] = Truncated(helloSize)]
    /\ asked' = helloSize /\ welcomed' = target
    /\ loop' = "read" /\ target' = None
    /\ UNCHANGED <<hellos, helloSize, old, clean, sharedVars, connVars, sessionVars>>

\* A resize acts on the session attached now; without one it is dropped.
Resize(size) ==
    /\ Reading
    /\ ValidSize(size)
    /\ IF curSess = None
       THEN UNCHANGED <<ptySize, asked>>
       ELSE /\ ptySize' = [ptySize EXCEPT ![curSess] = Truncated(size)]
            /\ asked' = size
    /\ UNCHANGED <<welcomed, loopVars, sharedVars, connVars, sessionVars>>

\* Input is written to the PTY on the read loop: while the program does not
\* read it, the loop reads nothing.
Input ==
    /\ Reading
    /\ curSess # None /\ alive[curSess] = "alive"
    /\ target' = curSess /\ loop' = "write"
    /\ UNCHANGED <<hellos, helloSize, old, clean, sharedVars, connVars, sessionVars, sizeVars>>

\* The program reads what was written, or the PTY is closed.
WriteReturns ==
    /\ loop = "write"
    /\ target' = None /\ loop' = "read"
    /\ UNCHANGED <<hellos, helloSize, old, clean, sharedVars, connVars, sessionVars, sizeVars>>

\* A message that does not parse: an error message, close, return.
BadMessage ==
    /\ Reading
    /\ conn' = "closed" /\ loop' = "cleanup"
    /\ UNCHANGED <<peer, hellos, target, helloSize, old, clean, sharedVars, sessionVars, sizeVars>>

\* Read fails.  A peer that closes deliberately, and one that answers the
\* server's own close frame, count as a clean close.
ReadError ==
    /\ loop = "read"
    /\ conn = "closed" \/ peer # "there"
    /\ \/ peer # "lost" /\ clean' = TRUE
       \/ (conn = "closed" \/ peer = "lost") /\ clean' = FALSE
    /\ loop' = "cleanup"
    /\ UNCHANGED <<hellos, target, helloSize, old, sharedVars, connVars, sessionVars, sizeVars>>

-----------------------------------------------------------------------------
(* cleanup: closeOnce.Do runs the function for the first of its callers,    *)
(* the others wait until it returned.  a is 0 for the read loop, with clean *)
(* as its argument, or the listener whose OnError calls it with false.      *)

AtCleanup(a) == IF a = 0 THEN loop = "cleanup" ELSE run[a] = "cleanup"

CleanupTake(a) ==
    /\ AtCleanup(a) /\ once = "unused"
    /\ once' = "busy"
    /\ taken' = [by |-> a, sess |-> curSess, detach |-> detach]
    /\ curSess' = None /\ detach' = None
    /\ UNCHANGED <<loopVars, connVars, sessionVars, sizeVars>>

CleanupDetach(a) ==
    /\ once = "busy" /\ taken.by = a /\ taken.detach # None
    /\ Detached(taken.detach)
    /\ taken' = [taken EXCEPT !.detach = None]
    /\ UNCHANGED <<loopVars, curSess, detach, once, connVars, sizeVars>>

\* Mutant: defer cleanup(cleanClose), whose argument is evaluated at once.
MutMarkNever(a) ==
    /\ once = "busy" /\ taken.by = a /\ taken.detach = None
    /\ once' = "done"
    /\ taken' = [taken EXCEPT !.sess = None]
    /\ UNCHANGED <<loopVars, curSess, detach, connVars, sessionVars, sizeVars>>
\* MarkClientClosed does nothing while a listener is registered or nothing
\* has ever been detached.
CleanupMark(a) ==
    /\ once = "busy" /\ taken.by = a /\ taken.detach = None
    /\ LET s == taken.sess
           deliberate == a = 0 /\ clean /\ s # None
       IN  idle' = IF deliberate /\ Registered(s) = {} /\ idle[s] # "held"
                   THEN [idle EXCEPT ![s] = "closed"] ELSE idle
    /\ once' = "done"
    /\ taken' = [taken EXCEPT !.sess = None]
    /\ UNCHANGED <<loopVars, curSess, detach, connVars, reg, run, owner, alive, sizeVars>>

\* After cleanup the read loop closes the connection and returns, a delivery
\* closes it and ends.
LoopReturns ==
    /\ loop = "cleanup" /\ once = "done"
    /\ loop' = "returned" /\ conn' = "closed"
    /\ UNCHANGED <<hellos, target, helloSize, old, clean, peer, sharedVars, sessionVars, sizeVars>>

\* Mutant: OnError cleans up and leaves the connection open.
MutDeliveryKeepsConn(n) ==
    /\ run[n] = "cleanup" /\ once = "done"
    /\ run' = [run EXCEPT ![n] = "reported"]
    /\ UNCHANGED <<connVars, loopVars, sharedVars, reg, owner, alive, idle, sizeVars>>

DeliveryCloses(n) ==
    /\ run[n] = "cleanup" /\ once = "done"
    /\ run' = [run EXCEPT ![n] = "reported"] /\ conn' = "closed"
    /\ UNCHANGED <<peer, loopVars, sharedVars, reg, owner, alive, idle, sizeVars>>
-----------------------------------------------------------------------------
(* A delivery's goroutine: it returns once stopped; a failed write or an    *)
(* overflow is reported after the listener is removed.                      *)

DeliveryFails(n) ==
    /\ run[n] \in {"running", "stopped"}
    /\ run' = [run EXCEPT ![n] = "failed"]
    /\ UNCHANGED <<reg, owner, alive, idle, loopVars, sharedVars, connVars, sizeVars>>

DeliveryReturns(n) ==
    /\ run[n] = "stopped"
    /\ run' = [run EXCEPT ![n] = "done"]
    /\ UNCHANGED <<reg, owner, alive, idle, loopVars, sharedVars, connVars, sizeVars>>

DeliveryRemoved(n) ==
    /\ run[n] = "failed"
    /\ Removed(n)
    /\ run' = [run EXCEPT ![n] = "cleanup"]
    /\ UNCHANGED <<owner, alive, loopVars, sharedVars, connVars, sizeVars>>

-----------------------------------------------------------------------------
(* The client: it leaves with a close frame or is cut off.                 *)

PeerGoes ==
    /\ peer = "there"
    /\ peer' \in {"left", "lost"}
    /\ UNCHANGED <<conn, loopVars, sharedVars, sessionVars, sizeVars>>

Cleanup(a) == CleanupTake(a) \/ CleanupDetach(a) \/ CleanupMark(a)

Attach == AttachSwap \/ AttachLeaveOld \/ AttachRegister \/ AttachPublish \/ HelloWelcome

Delivery(n) == DeliveryFails(n) \/ DeliveryReturns(n) \/ DeliveryRemoved(n) \/ DeliveryCloses(n)

Next ==
    \/ \E size \in Sizes : Resize(size) \/ \E s \in Sessions : Hello(s, size)
    \/ HelloRefused \/ Attach
    \/ Input \/ WriteReturns \/ BadMessage \/ ReadError \/ LoopReturns
    \/ \E a \in {0} \union Listeners : Cleanup(a)
    \/ \E n \in Listeners : Delivery(n)
    \/ \E s \in Sessions : SessionEnds(s)
    \/ PeerGoes
    \/ (loop = "returned" /\ UNCHANGED vars)

\* Every goroutine that can run does; the client may stay silent for ever, and
\* a program need not read its input, but a PTY that is closed ends a write.
Fairness ==
    /\ WF_vars(Attach) /\ WF_vars(ReadError) /\ WF_vars(LoopReturns)
    /\ \A a \in {0} \union Listeners : WF_vars(Cleanup(a))
    /\ \A n \in Listeners :
        WF_vars(DeliveryReturns(n) \/ DeliveryRemoved(n) \/ DeliveryCloses(n))
    /\ WF_vars(loop = "write" /\ alive[target] = "exited" /\ WriteReturns)

Spec == Init /\ [][Next]_vars /\ Fairness

-----------------------------------------------------------------------------
TypeOK ==
    /\ loop \in {"read", "attach", "detachOld", "register", "publish", "resize",
                 "write", "cleanup", "returned"}
    /\ hellos \in 0 .. MaxHellos /\ clean \in BOOLEAN
    /\ helloSize \in Nat \X Nat /\ asked \in Nat \X Nat
    /\ target \in Sessions \union {None} /\ curSess \in Sessions \union {None}
    /\ welcomed \in Sessions \union {None}
    /\ old \in Listeners \union {None} /\ detach \in Listeners \union {None}
    /\ once \in {"unused", "busy", "done"}
    /\ taken \in [by : {0} \union Listeners, sess : Sessions \union {None}, detach : Listeners \union {None}]
    /\ conn \in {"open", "closed"} /\ peer \in {"there", "left", "lost"}
    /\ reg \in [Listeners -> BOOLEAN] /\ owner \in [Listeners -> Sessions \union {None}]
    /\ run \in [Listeners -> {"none", "running", "stopped", "failed", "cleanup", "reported", "done"}]
    /\ \A n \in Listeners : run[n] # "none" \/ reg[n] => owner[n] \in Sessions
    /\ alive \in [Sessions -> {"none", "alive", "exited"}]
    /\ idle \in [Sessions -> {"held", "idle", "closed"}]
    /\ ptySize \in [Sessions -> (2 .. 1000) \X (1 .. 1000)]

\* The connection's handler returns without leaving a listener behind, which
\* would keep its session from ever being idle, even if a cleanup on a
\* delivery's goroutine met an attach half done.  The exception is a hello that
\* began after such a cleanup: there is no second one, and what it attached
\* stays until its own delivery fails.  (The browser client sends one hello.)
NoListenerLeft ==
    loop = "returned" => \A n \in Listeners : reg[n] =>
        /\ n > 1 /\ detach = n /\ curSess = owner[n]
        /\ \E m \in 1 .. n - 1 : run[m] \in {"cleanup", "reported"}

\* A client that closes deliberately has the session it was attached to
\* marked for the short grace, after its own listener is gone (before,
\* MarkClientClosed returns early), unless a delivery of the connection failed.
CloseIsMarked ==
    loop = "returned" /\ clean /\ welcomed # None
        /\ (\A n \in Listeners : run[n] \notin {"failed", "cleanup", "reported"})
    => idle[welcomed] = "closed"

\* A client that was welcomed is attached to that session, with a listener
\* that its detach removes, whatever ran between the steps of attach, and the
\* session's PTY has the size the client asked for last, not a truncation of it
\* (as long as no other client resizes it); or a delivery has failed and the
\* connection is about to be closed.
WelcomedIsAttached ==
    loop = "read" /\ welcomed # None /\ once = "unused" =>
        /\ curSess = welcomed /\ detach # None /\ owner[detach] = welcomed
        /\ reg[detach] \/ run[detach] = "cleanup"
        /\ ptySize[curSess] = asked

\* When the client is gone, the connection closed or a delivery has failed,
\* ServeWS returns -- unless the read loop is stuck writing input that the
\* program never reads.
HandlerEnds ==
    []<>(loop # "write") =>
        ((conn = "closed" \/ peer # "there" \/ \E n \in Listeners : run[n] = "failed")
            ~> loop = "returned")
=============================================================================
