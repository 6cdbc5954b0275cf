-------------------------------- MODULE Session --------------------------------
(***************************************************************************)
(* The life of sessions and of the listeners attached to them:             *)
(* internal/session/store.go, without the output (Resume.tla has it).      *)
(*                                                                         *)
(* The goroutines that meet here are the pump of every session, the        *)
(* handler of every connection (look up or start, attach, detach, mark     *)
(* closed), the delivery of every listener, whose onError may come at any  *)
(* time, and the reaper.  A critical section under Session.mu or Store.mu  *)
(* is one step; what a function does after unlocking is another.           *)
(*                                                                         *)
(* Time is measured by ages: idle[s] is time.Since(idleSince), counted no  *)
(* further than the longest grace, past which the code tells no ages apart.*)
(***************************************************************************)
EXTENDS Integers, FiniteSets

CONSTANTS
    Sessions,   \* identities of sessions
    Listeners,  \* identities of listeners: one per Attach
    NoSession,  \* the owner of a listener not yet in use
    IdleGrace,  \* Store.IdleGrace, in clock ticks; 0 disables
    CloseGrace  \* Store.CloseGrace; 0 falls back to IdleGrace

ASSUME SessionAssumption ==
    /\ NoSession \notin Sessions
    /\ IdleGrace \in Nat
    /\ CloseGrace \in Nat

VARIABLES
    store,     \* the keys of Store.sessions
    alive,     \* Session.alive
    listeners, \* Session.listeners
    idle,      \* age of Session.idleSince, NotIdle when it is the zero time
    idleGrace, \* Session.idleGrace
    killed,    \* Handle.Kill was called: the PTY is closed, the process dying
    pump,      \* the pump: "none", "reading", "notifying" or "done"
    notify,    \* markExited's targets, those still to be told
    owner,     \* the session a listener belongs to
    caller,    \* what the listener's connection handler did last
    delivery,  \* the listener's delivery: "none", "running" or "failed"
    exits,     \* how often the listener's onExit ran
    away,      \* time since a client was last attached (no code state)
    deliberate \* the last client said it closed (no code state)

sessionVars  == <<store, alive, listeners, idle, idleGrace, killed, pump, notify>>
listenerVars == <<owner, caller, delivery, exits>>
historyVars  == <<away, deliberate>>
vars == <<sessionVars, listenerVars, historyVars>>

NotIdle == -1
MaxAge == IF IdleGrace > CloseGrace THEN IdleGrace ELSE CloseGrace
Older(age) == IF age < MaxAge THEN age + 1 ELSE age

Init ==
    /\ store = {}
    /\ alive = [s \in Sessions |-> FALSE]
    /\ listeners = [s \in Sessions |-> {}]
    /\ idle = [s \in Sessions |-> 0]
    /\ idleGrace = [s \in Sessions |-> 0]
    /\ killed = [s \in Sessions |-> FALSE]
    /\ pump = [s \in Sessions |-> "none"]
    /\ notify = [s \in Sessions |-> {}]
    /\ owner = [l \in Listeners |-> NoSession]
    /\ caller = [l \in Listeners |-> "none"]
    /\ delivery = [l \in Listeners |-> "none"]
    /\ exits = [l \in Listeners |-> 0]
    /\ away = [s \in Sessions |-> 0]
    /\ deliberate = [s \in Sessions |-> FALSE]

-----------------------------------------------------------------------------
(* A connection handler: GetLive or StartSession, Attach, detach, and      *)
(* MarkClientClosed when the client closed deliberately.                   *)

\* GetLive hands out a session of the store that is alive now.
GetLive(l, s) ==
    /\ caller[l] = "none"
    /\ s \in store
    /\ alive[s]
    /\ owner' = [owner EXCEPT ![l] = s]
    /\ caller' = [caller EXCEPT ![l] = "found"]
    /\ UNCHANGED <<sessionVars, delivery, exits, historyVars>>

StartSession(l, s) ==
    /\ caller[l] = "none"
    /\ pump[s] = "none"
    /\ store' = store \union {s}
    /\ alive' = [alive EXCEPT ![s] = TRUE]
    /\ idle' = [idle EXCEPT ![s] = 0]
    /\ pump' = [pump EXCEPT ![s] = "reading"]
    /\ owner' = [owner EXCEPT ![l] = s]
    /\ caller' = [caller EXCEPT ![l] = "found"]
    /\ away' = [away EXCEPT ![s] = 0]
    /\ UNCHANGED <<listeners, idleGrace, killed, notify, delivery, exits, deliberate>>

\* Mutant: Attach leaves idleSince as it was.
MutAttachStaysIdle(l) ==
    LET s == owner[l]
    IN  /\ caller[l] = "found"
        /\ listeners' = [listeners EXCEPT ![s] = @ \union {l}]
        /\ idleGrace' = [idleGrace EXCEPT ![s] = 0]
        /\ IF alive[s]
           THEN /\ delivery' = [delivery EXCEPT ![l] = "running"]
                /\ caller' = [caller EXCEPT ![l] = "attached"]
           ELSE /\ caller' = [caller EXCEPT ![l] = "tellExit"]
                /\ UNCHANGED delivery
        /\ away' = [away EXCEPT ![s] = 0]
        /\ deliberate' = [deliberate EXCEPT ![s] = FALSE]
        /\ UNCHANGED <<store, alive, idle, killed, pump, notify, owner, exits>>

\* The listener is registered and alive is read under one lock.  Between the
\* look-up and this step the session may have exited or been reaped.
Attach(l) ==
    LET s == owner[l]
    IN  /\ caller[l] = "found"
        /\ listeners' = [listeners EXCEPT ![s] = @ \union {l}]
        /\ idle' = [idle EXCEPT ![s] = NotIdle]
        /\ idleGrace' = [idleGrace EXCEPT ![s] = 0]
        /\ IF alive[s]
           THEN /\ delivery' = [delivery EXCEPT ![l] = "running"]
                /\ caller' = [caller EXCEPT ![l] = "attached"]
           ELSE /\ caller' = [caller EXCEPT ![l] = "tellExit"]
                /\ UNCHANGED delivery
        /\ away' = [away EXCEPT ![s] = 0]
        /\ deliberate' = [deliberate EXCEPT ![s] = FALSE]
        /\ UNCHANGED <<store, alive, killed, pump, notify, owner, exits>>

\* Attach found the session dead: it calls OnExit itself.
AttachTellExit(l) ==
    /\ caller[l] = "tellExit"
    /\ exits' = [exits EXCEPT ![l] = @ + 1]
    /\ caller' = [caller EXCEPT ![l] = "attached"]
    /\ UNCHANGED <<sessionVars, owner, delivery, historyVars>>

\* Mutant: the last detach does not restart the idle period.
MutRemoveListenerNeverIdle(l) ==
    LET s == owner[l]
    IN  /\ listeners' = [listeners EXCEPT ![s] = @ \ {l}]
        /\ idleGrace' = [idleGrace EXCEPT ![s] = IF listeners'[s] = {} THEN 0 ELSE @]
        /\ away' = [away EXCEPT ![s] = IF l \in listeners[s] THEN 0 ELSE @]
        /\ UNCHANGED <<store, alive, idle, killed, pump, notify>>

\* removeListener restarts the idle period of a session without listeners, also
\* when l was not among them.
RemoveListener(l) ==
    LET s == owner[l]
    IN  /\ listeners' = [listeners EXCEPT ![s] = @ \ {l}]
        /\ idle' = [idle EXCEPT ![s] = IF listeners'[s] = {} THEN 0 ELSE @]
        /\ idleGrace' = [idleGrace EXCEPT ![s] = IF listeners'[s] = {} THEN 0 ELSE @]
        /\ away' = [away EXCEPT ![s] = IF l \in listeners[s] THEN 0 ELSE @]
        /\ UNCHANGED <<store, alive, killed, pump, notify>>

Detach(l) ==
    /\ caller[l] = "attached"
    /\ RemoveListener(l)
    /\ caller' = [caller EXCEPT ![l] = "detached"]
    /\ UNCHANGED <<owner, delivery, exits, deliberate>>

\* A delivery fails once, before or after its listener was detached: the write
\* that was in flight when it was stopped may still return an error.
DeliveryError(l) ==
    /\ delivery[l] = "running"
    /\ RemoveListener(l)
    /\ delivery' = [delivery EXCEPT ![l] = "failed"]
    /\ UNCHANGED <<owner, caller, exits, deliberate>>

\* Mutant: the grace of a deliberate close is the store's idle grace.
MutMarkWrongGrace(l) ==
    LET s == owner[l]
        effective == listeners[s] = {} /\ idle[s] # NotIdle
    IN  /\ caller[l] = "detached"
        /\ idleGrace' = [idleGrace EXCEPT ![s] = IF effective THEN IdleGrace ELSE @]
        /\ deliberate' = [deliberate EXCEPT ![s] = @ \/ effective]
        /\ caller' = [caller EXCEPT ![l] = "marked"]
        /\ UNCHANGED <<store, alive, listeners, idle, killed, pump, notify, owner,
                       delivery, exits, away>>

MarkClientClosed(l) ==
    LET s == owner[l]
        effective == listeners[s] = {} /\ idle[s] # NotIdle
    IN  /\ caller[l] = "detached"
        /\ idleGrace' = [idleGrace EXCEPT ![s] = IF effective THEN CloseGrace ELSE @]
        /\ deliberate' = [deliberate EXCEPT ![s] = @ \/ effective]
        /\ caller' = [caller EXCEPT ![l] = "marked"]
        /\ UNCHANGED <<store, alive, listeners, idle, killed, pump, notify, owner,
                       delivery, exits, away>>

-----------------------------------------------------------------------------
(* The pump's end, the reaper, the clock.                                  *)

\* Mutant: the snapshot of the listeners is taken before alive is cleared, in a
\* critical section of its own.
MutMarkExitedTwoSteps(s) ==
    \/ /\ pump[s] = "reading"
       /\ alive[s] /\ notify[s] = {} /\ listeners[s] # {}
       /\ notify' = [notify EXCEPT ![s] = listeners[s]]
       /\ UNCHANGED <<store, alive, listeners, idle, idleGrace, killed, pump,
                      listenerVars, historyVars>>
    \/ /\ pump[s] = "reading"
       /\ alive' = [alive EXCEPT ![s] = FALSE]
       /\ pump' = [pump EXCEPT ![s] = "notifying"]
       /\ UNCHANGED <<store, listeners, idle, idleGrace, killed, notify,
                      listenerVars, historyVars>>

\* The read fails, because the process ended or because Kill closed the PTY.
\* markExited's critical section.
MarkExited(s) ==
    /\ pump[s] = "reading"
    /\ alive' = [alive EXCEPT ![s] = FALSE]
    /\ notify' = [notify EXCEPT ![s] = listeners[s]]
    /\ pump' = [pump EXCEPT ![s] = "notifying"]
    /\ UNCHANGED <<store, listeners, idle, idleGrace, killed, listenerVars, historyVars>>

\* Mutant: the pump tells whoever is attached now, not the snapshot.
MutNotifyCurrent(s, l) ==
    /\ pump[s] = "notifying"
    /\ l \in notify[s] \union listeners[s]
    /\ notify' = [notify EXCEPT ![s] = @ \ {l}]
    /\ exits[l] < 2
    /\ exits' = [exits EXCEPT ![l] = @ + 1]
    /\ UNCHANGED <<store, alive, listeners, idle, idleGrace, killed, pump, owner,
                   caller, delivery, historyVars>>

NotifyExit(s, l) ==
    /\ pump[s] = "notifying"
    /\ l \in notify[s]
    /\ notify' = [notify EXCEPT ![s] = @ \ {l}]
    /\ exits' = [exits EXCEPT ![l] = @ + 1]
    /\ UNCHANGED <<store, alive, listeners, idle, idleGrace, killed, pump, owner,
                   caller, delivery, historyVars>>

PumpEnds(s) ==
    /\ pump[s] = "notifying"
    /\ notify[s] = {}
    /\ pump' = [pump EXCEPT ![s] = "done"]
    /\ UNCHANGED <<store, alive, listeners, idle, idleGrace, killed, notify,
                   listenerVars, historyVars>>

\* Mutant: the close grace applies to every session once it is configured.
MutGraceAlwaysShort(s) == IF CloseGrace > 0 THEN CloseGrace ELSE IdleGrace

Grace(s) == IF idleGrace[s] > 0 THEN idleGrace[s] ELSE IdleGrace

\* killIfIdle, whose check and kill share one lock.
Expired(s) == Grace(s) > 0 /\ idle[s] # NotIdle /\ idle[s] >= Grace(s)

\* Reap, the turn of one session of the store.  It may have seen the session
\* alive and find it exited when it kills it.
Reap(s) ==
    /\ s \in store
    /\ ~alive[s] \/ Expired(s)
    /\ store' = store \ {s}
    /\ killed' = [killed EXCEPT ![s] = @ \/ Expired(s)]
    /\ UNCHANGED <<alive, listeners, idle, idleGrace, pump, notify, listenerVars,
                   historyVars>>

\* Only a session in the store is ever looked at for its age.
Tick ==
    /\ idle' = [s \in Sessions |->
                  IF s \in store /\ idle[s] # NotIdle THEN Older(idle[s]) ELSE idle[s]]
    /\ away' = [s \in Sessions |->
                  IF s \in store /\ listeners[s] = {} THEN Older(away[s]) ELSE away[s]]
    /\ UNCHANGED <<store, alive, listeners, idleGrace, killed, pump, notify,
                   listenerVars, deliberate>>

-----------------------------------------------------------------------------
Handler(l) ==
    \/ \E s \in Sessions : GetLive(l, s) \/ StartSession(l, s)
    \/ Attach(l) \/ AttachTellExit(l) \/ Detach(l) \/ DeliveryError(l)
    \/ MarkClientClosed(l)

Pump(s) == MarkExited(s) \/ (\E l \in Listeners : NotifyExit(s, l)) \/ PumpEnds(s)

Next == (\E l \in Listeners : Handler(l)) \/ (\E s \in Sessions : Pump(s) \/ Reap(s)) \/ Tick

Spec == Init /\ [][Next]_vars

(***************************************************************************)
(* Time passes and the five second ticker of main.go keeps the reaper      *)
(* going; a process whose PTY was closed and killed gives the pump its end *)
(* of file; pump and handler finish what they began.  Clients need not     *)
(* ever close, processes need not ever exit.                               *)
(***************************************************************************)
Fairness ==
    /\ WF_vars(Tick)
    /\ \A s \in Sessions : /\ WF_vars(Reap(s))
                           /\ WF_vars(killed[s] /\ MarkExited(s))
                           /\ \A l \in Listeners : WF_vars(NotifyExit(s, l))
    /\ \A l \in Listeners : WF_vars(Attach(l)) /\ WF_vars(AttachTellExit(l))

FairSpec == Spec /\ Fairness

-----------------------------------------------------------------------------
(* Properties.                                                             *)

\* Every variable has its type.
TypeOK ==
    /\ store \subseteq Sessions
    /\ alive \in [Sessions -> BOOLEAN]
    /\ listeners \in [Sessions -> SUBSET Listeners]
    /\ idle \in [Sessions -> 0..MaxAge \union {NotIdle}]
    /\ idleGrace \in [Sessions -> {0, CloseGrace}]
    /\ killed \in [Sessions -> BOOLEAN]
    /\ pump \in [Sessions -> {"none", "reading", "notifying", "done"}]
    /\ notify \in [Sessions -> SUBSET Listeners]
    /\ owner \in [Listeners -> Sessions \union {NoSession}]
    /\ caller \in [Listeners -> {"none", "found", "attached", "tellExit",
                                 "detached", "marked"}]
    /\ delivery \in [Listeners -> {"none", "running", "failed"}]
    /\ exits \in [Listeners -> Nat]
    /\ away \in [Sessions -> 0..MaxAge]
    /\ deliberate \in [Sessions -> BOOLEAN]

\* A session is idle exactly when no listener is attached, whatever attaches,
\* detaches and delivery errors (which may come after the detach) interleave:
\* the reaper decides by the one, clients care about the other.
IdleIffUnattached == \A s \in Sessions : idle[s] = NotIdle <=> listeners[s] # {}

\* The reaper kills a session only when no client has been attached for the
\* whole IdleGrace, or for CloseGrace when the last one closed deliberately
\* since: a deliberate close in the past never shortens the time a dropped
\* client has to come back (store.go:72, 225, 247).
NoEarlyKill ==
    [][\A s \in Sessions : ~killed[s] /\ killed'[s] =>
          /\ listeners[s] = {}
          /\ \/ IdleGrace > 0 /\ away[s] >= IdleGrace
             \/ CloseGrace > 0 /\ deliberate[s] /\ away[s] >= CloseGrace]_vars

\* ExitListener "is called once when the process exits" (store.go:39): not twice,
\* although both Attach and markExited may see the exit, and never while alive.
ExitToldOnce ==
    \A l \in Listeners : /\ exits[l] <= 1
                         /\ exits[l] = 1 => ~alive[owner[l]]

\* No listener of a session that exited falls between markExited, which takes its
\* snapshot, and Attach, which looks whether the session is alive: it was told, the
\* pump has it on its list, or the Attach that found the session dead will tell it.
NobodyForgotten ==
    \A s \in Sessions : \A l \in listeners[s] :
        ~alive[s] => exits[l] = 1 \/ l \in notify[s] \/ caller[l] = "tellExit"

\* Everyone who is attached when the process exits, and everyone who attaches to
\* a session that already exited, is told.
ExitIsTold ==
    \A l \in Listeners :
        (owner[l] # NoSession /\ l \in listeners[owner[l]] /\ ~alive[owner[l]])
            ~> (exits[l] = 1)

\* No session outlives its clients for ever: one that stays without a client is
\* killed, exits and leaves the store.
NoOrphans ==
    \A s \in Sessions :
        (s \in store /\ listeners[s] = {})
            ~> ((s \notin store /\ ~alive[s]) \/ listeners[s] # {})

\* store.go:227: "Such a session is reaped after grace rather than the store's
\* idle timeout": once a deliberate close has set the short grace, nothing but a
\* new client takes it back.
CloseGraceSticks ==
    [][\A s \in Sessions :
          idleGrace[s] > 0 /\ idleGrace'[s] = 0 => listeners'[s] # {}]_vars
=============================================================================
