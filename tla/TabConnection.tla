--------------------------- MODULE TabConnection ---------------------------
(***************************************************************************)
(* The life of a tab's connection (web/connection.js): socket states, the  *)
(* ping timer and its pong timeout, reconnecting, the stored session id,   *)
(* page reload and close(); with the server's end of each connection       *)
(* (web/ws.go) as far as the client can tell, over a network that may      *)
(* swallow everything (a blackhole) and later deliver it.  Output and      *)
(* offsets are in Resume.                                                  *)
(*                                                                         *)
(* Time is counted in periods of PING_INTERVAL_MS.  A period ends with the *)
(* callback of the ping timer due, and the callback runs some time later:  *)
(* what it measures lies between the whole periods, and where the timeout  *)
(* is a whole number of them the model lets it come out either way.        *)
(***************************************************************************)
EXTENDS Integers, Sequences, FiniteSets

CONSTANTS
    PongTimeout, \* PONG_TIMEOUT_MS in ping intervals
    MaxConns,    \* bound: sockets the server has not given up yet
    MaxPings,    \* bound: unanswered pings; one more is left out
    MaxSessions  \* bound: session ids in use at a time

ASSUME TabAssumption ==
    /\ PongTimeout \in Nat \ {0, 1}
    /\ {MaxConns, MaxPings, MaxSessions} \subseteq Nat \ {0}

Conns == 1 .. MaxConns
Ids == 1 .. MaxSessions
NoId == 0

VARIABLES
    ws,      \* #ws: "none", "connecting", "open" or "closing"
    cur,     \* the connection #ws belongs to
    retry,   \* the backoff timer is running
    closed,  \* #closed
    sid,     \* #sessionId
    stored,  \* the id in sessionStorage
    pongAge, \* periods that ended since #lastPongAt
    due,     \* a period of the ping timer ended and its callback has not run
    link,    \* the network: "up" or "dead"
    srv,     \* connection |-> the server's end: "free", "open" or "attached"
    owner,   \* connection |-> the session attached
    toSrv,   \* connection |-> messages in flight to the server
    toTab,   \* messages in flight to the tab on its connection
    alive,   \* the live sessions
    waiting, \* periods that ended since each unanswered ping (no code state)
    late     \* a period ended with the callback of another still due (no code state)

tabVars == <<ws, cur, retry, closed, sid, stored>>
pingVars == <<pongAge, due, waiting, late>>
srvVars == <<srv, owner, alive>>
netVars == <<link, toSrv, toTab>>
vars == <<tabVars, pingVars, srvVars, netVars>>

Msg(t, s) == [t |-> t, s |-> s]
\* What the tab sends is lost once the server's end is gone.
ToServer(m) == IF srv[cur] = "free" THEN toSrv ELSE [toSrv EXCEPT ![cur] = Append(@, m)]
\* What the server sends on a connection the tab has given up is not read.
ToTab(c, m) == IF c = cur /\ ws = "open" THEN Append(toTab, m) ELSE toTab
Bye == Msg("bye", NoId) \* a close frame

Init ==
    /\ ws = "connecting" /\ cur = 1 /\ retry = FALSE /\ closed = FALSE
    /\ sid = NoId /\ stored = NoId
    /\ pongAge = 0 /\ due = FALSE /\ waiting = <<>> /\ late = FALSE
    /\ link = "up"
    /\ srv = [c \in Conns |-> "free"] /\ owner = [c \in Conns |-> NoId]
    /\ toSrv = [c \in Conns |-> <<>>] /\ toTab = <<>>
    /\ alive = {}

-----------------------------------------------------------------------------
(* The tab.                                                                *)

\* #open: a connection the server does not hold.
Open ==
    LET free == {c \in Conns : srv[c] = "free"}
    IN  /\ free # {}
        /\ cur' = CHOOSE c \in free : \A d \in free : c <= d
        /\ ws' = "connecting"

\* The message of a kind in a queue, of those that a connection sends once.
Only(t, q) ==
    IF \E i \in DOMAIN q : q[i].t = t THEN <<q[CHOOSE i \in DOMAIN q : q[i].t = t]>>
    ELSE <<>>

\* What is still under way on a connection the tab has given up: its hello and
\* the close frame, its pings not.
Abandon(c, q) == [q EXCEPT ![c] = Only("hello", @) \o Only("bye", @)]

\* Mutant: the age of the last pong is that of an earlier socket's.
MutStartPingKeepsAge == UNCHANGED pongAge /\ due' = FALSE /\ waiting' = <<>> /\ late' = FALSE

StartPing == pongAge' = 0 /\ due' = FALSE /\ waiting' = <<>> /\ late' = FALSE

\* Mutant: no retry after a close the keepalive forced.
MutOnCloseGivesUp ==
    /\ ws' = "none" /\ retry' = (~closed /\ ws # "closing")
    /\ StartPing
    /\ UNCHANGED <<cur, closed, sid, stored>>

\* onclose: stop the pings; unless close() was called, try again later.
OnClose ==
    /\ ws' = "none" /\ retry' = ~closed
    /\ StartPing \* their values are set again before they are read
    /\ UNCHANGED <<cur, closed, sid, stored>>

\* onopen: hello, with the session id if there is one.
OnOpen ==
    /\ ws = "connecting" /\ link = "up"
    /\ ws' = "open"
    /\ srv' = [srv EXCEPT ![cur] = "open"]
    /\ toSrv' = [toSrv EXCEPT ![cur] = <<Msg("hello", sid)>>]
    /\ toTab' = <<>>
    /\ StartPing
    /\ UNCHANGED <<cur, retry, closed, sid, stored, owner, alive, link>>

ConnectFails ==
    /\ ws = "connecting" /\ link = "dead"
    /\ OnClose
    /\ UNCHANGED <<srvVars, netVars>>

\* The socket is gone: an error of a dead link, the server's close, or the end
\* of a close the tab began.
SocketCloses ==
    /\ \/ ws = "open" /\ (link = "dead" \/ srv[cur] = "free")
       \/ ws = "closing"
    /\ OnClose
    /\ toSrv' = Abandon(cur, toSrv)
    /\ toTab' = <<>>
    /\ UNCHANGED <<srvVars, link>>

RetryFires ==
    /\ retry /\ retry' = FALSE
    /\ IF closed THEN UNCHANGED <<ws, cur>> ELSE Open
    /\ UNCHANGED <<closed, sid, stored, pingVars, srvVars, netVars>>

\* ws.close(): a close frame if the socket was open; what arrives from now
\* on is not read, and the ping timer does nothing.
WsClose ==
    /\ ws' = IF ws = "none" THEN "none" ELSE "closing"
    /\ toSrv' = IF ws = "open" THEN ToServer(Bye) ELSE toSrv
    /\ toTab' = <<>>
    /\ StartPing

\* A period ends: the callback is due.  If it still was, it is late by a period, like
\* the timers of a hidden page or of a machine that slept; it then runs once for both.
\* Delays that add up to a period count as one.  Bound: above the timeout the callback
\* can only close, and more time changes nothing.
IntervalPasses ==
    /\ ws = "open" /\ ~closed /\ pongAge <= PongTimeout
    /\ due' = TRUE /\ late' = (late \/ due)
    /\ pongAge' = pongAge + 1
    /\ waiting' = [i \in DOMAIN waiting |->
                      IF late' THEN 0 \* ages say nothing any more
                      ELSE IF waiting[i] = PongTimeout THEN waiting[i] ELSE waiting[i] + 1]
    /\ UNCHANGED <<tabVars, srvVars, netVars>>

\* Mutant: a ping counts as a pong.
MutPing ==
    /\ IF Len(waiting) < MaxPings
       THEN toSrv' = ToServer(Msg("ping", NoId)) /\ waiting' = Append(waiting, 0)
       ELSE UNCHANGED <<toSrv, waiting>>
    /\ due' = FALSE /\ pongAge' = 0
    /\ UNCHANGED <<ws, toTab, late>>

Ping ==
    /\ IF Len(waiting) < MaxPings
       THEN toSrv' = ToServer(Msg("ping", NoId)) /\ waiting' = Append(waiting, 0)
       ELSE UNCHANGED <<toSrv, waiting>>
    /\ due' = FALSE
    /\ UNCHANGED <<ws, pongAge, toTab, late>>

\* The callback: it forces the socket closed when pongs stopped, else it pings.
\* When as many periods as the timeout has ended since the last pong, either may
\* happen.  From onopen they make up the timeout and the callback's delay, which
\* is more; a pong that came late in its period is younger by that.
PingTimer ==
    /\ ws = "open" /\ ~closed /\ due
    /\ \/ pongAge >= PongTimeout /\ WsClose
       \/ pongAge <= PongTimeout /\ Ping
    /\ UNCHANGED <<cur, retry, closed, sid, stored, srvVars, link>>

\* Mutant: an id is stored only where there is none.
MutWelcomeKeepsStored(s) == sid' = s /\ stored' = IF stored = NoId THEN s ELSE stored

Welcome(s) == sid' = s /\ stored' = s

Receive ==
    /\ ws = "open" /\ link = "up" /\ toTab # <<>>
    /\ LET m == Head(toTab)
       IN  \/ m.t = "welcome" /\ Welcome(m.s) /\ UNCHANGED <<pongAge, waiting>>
           \/ m.t = "exit" /\ stored' = NoId /\ UNCHANGED <<sid, pongAge, waiting>>
           \/ m.t = "pong" /\ pongAge' = 0 /\ waiting' = Tail(waiting)
              /\ UNCHANGED <<sid, stored>>
    /\ toTab' = Tail(toTab)
    /\ UNCHANGED <<ws, cur, retry, closed, due, late, srvVars, link, toSrv>>

\* close(), called by the page.
Close ==
    /\ ~closed /\ closed' = TRUE
    /\ WsClose
    /\ UNCHANGED <<cur, retry, sid, stored, srvVars, link>>

\* The page is reloaded: the browser closes the socket, and a new
\* TerminalConnection connects with the id that was stored.
Reload ==
    /\ ~closed
    /\ Open
    /\ sid' = stored /\ retry' = FALSE
    /\ toSrv' = IF ws = "open" THEN Abandon(cur, ToServer(Bye)) ELSE toSrv
    /\ toTab' = <<>>
    /\ StartPing
    /\ UNCHANGED <<closed, stored, srvVars, link>>

-----------------------------------------------------------------------------
(* The server and the network.                                             *)

Attached(s) == {c \in Conns : owner[c] = s}

\* Mutant: the ended handler still counts as attached.
MutLeaveKeepsOwner(c) ==
    /\ srv' = [srv EXCEPT ![c] = "free"]
    /\ UNCHANGED <<owner, alive>>

\* A handler ends: its session has one listener less.
Leave(c) ==
    /\ srv' = [srv EXCEPT ![c] = "free"]
    /\ owner' = [owner EXCEPT ![c] = NoId]
    /\ UNCHANGED alive

\* A hello attaches the session it names if that lives, else a new one whose
\* id nobody uses.
ServerHello(c, m) ==
    LET known == {sid, stored} \union {owner[d] : d \in Conns}
            \union UNION {{q[i].s : i \in DOMAIN q} : q \in {toSrv[d] : d \in Conns}}
        fresh == Ids \ (alive \union known)
    IN  \E s \in IF m.s \in alive THEN {m.s} ELSE {i \in fresh : \A j \in fresh : i <= j} :
            /\ owner' = [owner EXCEPT ![c] = s]
            /\ alive' = alive \union {s}
            /\ srv' = [srv EXCEPT ![c] = "attached"]
            /\ toTab' = ToTab(c, Msg("welcome", s))

ServerReceive(c) ==
    /\ link = "up" /\ srv[c] # "free" /\ toSrv[c] # <<>>
    /\ LET m == Head(toSrv[c])
       IN  \/ m.t = "hello" /\ ServerHello(c, m)
           \/ m.t = "ping" /\ toTab' = ToTab(c, Msg("pong", NoId)) /\ UNCHANGED srvVars
           \/ m.t = "bye" /\ Leave(c) /\ UNCHANGED toTab
    /\ toSrv' = [toSrv EXCEPT ![c] = Tail(@)]
    /\ UNCHANGED <<tabVars, pingVars, link>>

\* The server gives a connection up: a write failed, the client is too slow,
\* or the peer is gone.
ServerDrops(c) ==
    /\ srv[c] = "attached" \/ (srv[c] = "open" /\ (c # cur \/ ws = "none"))
    /\ Leave(c)
    /\ toSrv' = [toSrv EXCEPT ![c] = <<>>]
    /\ UNCHANGED <<tabVars, pingVars, link, toTab>>

\* The program exits, or the reaper kills a session nobody is attached to.
\* markExited's goroutine may write the exit before the welcome of a hello that
\* has attached already.
SessionEnds(s) ==
    /\ s \in alive /\ alive' = alive \ {s}
    /\ LET n == Len(toTab)
           exit == Msg("exit", NoId)
       IN  IF owner[cur] # s \/ ws # "open" THEN UNCHANGED toTab
           ELSE \/ toTab' = Append(toTab, exit)
                \/ /\ n > 0 /\ toTab[n].t = "welcome"
                   /\ toTab' = SubSeq(toTab, 1, n - 1) \o <<exit, toTab[n]>>
    /\ UNCHANGED <<tabVars, pingVars, srv, owner, link, toSrv>>

LinkChanges ==
    /\ link' = IF link = "up" THEN "dead" ELSE "up"
    /\ UNCHANGED <<tabVars, pingVars, srvVars, toSrv, toTab>>

Next ==
    \/ OnOpen \/ ConnectFails \/ SocketCloses \/ RetryFires \/ IntervalPasses \/ PingTimer
    \/ Receive \/ Close \/ Reload \/ LinkChanges
    \/ \E c \in Conns : ServerReceive(c) \/ ServerDrops(c)
    \/ \E s \in Ids : SessionEnds(s)

\* Time passes and timers fire, also when late; the browser ends a close it began and
\* reports a socket the server closed; the server reads what arrives, gives up
\* connections nobody uses, and reaps.  Nothing makes the user act, a program exit, or
\* the network change.
Fairness ==
    /\ WF_vars(OnOpen \/ ConnectFails \/ RetryFires \/ (ws = "closing" /\ SocketCloses))
    /\ WF_vars(srv[cur] = "free" /\ SocketCloses)
    /\ WF_vars(IntervalPasses) /\ WF_vars(PingTimer) /\ WF_vars(Receive)
    /\ \A c \in Conns : WF_vars(ServerReceive(c))
    /\ WF_vars(\E c \in Conns : (c # cur \/ ws = "none") /\ ServerDrops(c))
    /\ WF_vars(\E s \in Ids : Attached(s) = {} /\ SessionEnds(s))

Spec == Init /\ [][Next]_vars /\ Fairness

-----------------------------------------------------------------------------
Messages == [t : {"hello", "ping", "bye", "welcome", "pong", "exit"}, s : Ids \union {NoId}]

TypeOK ==
    /\ ws \in {"none", "connecting", "open", "closing"}
    /\ cur \in Conns
    /\ {retry, closed, due, late} \subseteq BOOLEAN
    /\ {sid, stored} \subseteq Ids \union {NoId}
    /\ pongAge \in 0 .. PongTimeout + 1
    /\ waiting \in Seq(0 .. PongTimeout) /\ Len(waiting) <= MaxPings
    /\ link \in {"up", "dead"}
    /\ srv \in [Conns -> {"free", "open", "attached"}]
    /\ owner \in [Conns -> Ids \union {NoId}]
    /\ \A c \in Conns : (owner[c] # NoId) = (srv[c] = "attached")
    /\ toSrv \in [Conns -> Seq(Messages)]
    /\ toTab \in Seq(Messages)
    /\ alive \subseteq Ids

\* The keepalive closes a socket only if the server left a ping unanswered for
\* the timeout less one period, since the first ping follows the last pong, or
\* onopen, by up to a period.  A server that answers sooner is never given up,
\* whatever the callback's delay adds to an age; the exception is a timer that
\* ran a whole period late, which measures its own delay.
ForcedCloseIsDue ==
    [][PingTimer /\ ws' = "closing" /\ ws = "open" =>
          late \/ (waiting # <<>> /\ waiting[1] >= PongTimeout - 1)]_vars

\* What a reload would resume is the session the tab is attached to.
StoredIsCurrent ==
    ws = "open" /\ srv[cur] = "attached" /\ toTab = <<>> /\ owner[cur] \in alive
        => stored = owner[cur]

\* A socket whose network swallows everything is given up.
BlackholeIsNoticed == <>[](link = "dead") => []<>(ws # "open")

\* With a network that works in the end, and a server that gets to a message
\* within a ping interval, a tab that stays open is attached to a session again
\* and again, whatever happened before.
Reconnects ==
    (/\ <>[](link = "up" /\ ~closed)
     /\ <>[][~Reload /\ (IntervalPasses => toSrv[cur] = <<>>)]_vars)
    => []<>(srv[cur] = "attached")
=============================================================================
