----------------------------- MODULE SessionProofs -----------------------------
(***************************************************************************)
(* Proofs about Session, for every number of sessions and listeners and    *)
(* every grace.                                                            *)
(***************************************************************************)
EXTENDS Session, TLAPS

(***************************************************************************)
(* The inductive invariant.                                                *)
(***************************************************************************)

\* A listener in use has an owner; one that is not did nothing yet.
OwnerInv ==
    \A l \in Listeners :
        /\ caller[l] # "none" => owner[l] \in Sessions
        /\ caller[l] \in {"none", "found"} => delivery[l] = "none" /\ exits[l] = 0

\* A listener is registered with its owner only, between Attach and detach.
ListenerInv ==
    \A s \in Sessions : \A l \in listeners[s] :
        owner[l] = s /\ caller[l] \in {"attached", "tellExit"}

\* The pump tells the life of its session; one that was never started is not
\* known to anybody.
PumpInv ==
    /\ \A s \in Sessions :
           /\ alive[s] <=> pump[s] = "reading"
           /\ s \in store \/ killed[s] => pump[s] # "none"
    /\ \A l \in Listeners : owner[l] \in Sessions => pump[owner[l]] # "none"

\* Those still to be told of an exit have not been told, and nobody else will
\* tell them.
ExitInv ==
    /\ \A s \in Sessions : \A l \in notify[s] :
           /\ ~alive[s]
           /\ owner[l] = s /\ exits[l] = 0
           /\ caller[l] \notin {"none", "found", "tellExit"}
    /\ \A l \in Listeners :
           /\ caller[l] = "tellExit" => exits[l] = 0 /\ ~alive[owner[l]]
           /\ exits[l] \in {0, 1}
           /\ exits[l] = 1 => ~alive[owner[l]]

\* An idle session has been without a client at least as long as its idle
\* period, and has a grace of its own only after a deliberate close.
AgeInv ==
    \A s \in Sessions :
        /\ listeners[s] = {} => idle[s] <= away[s]
        /\ idleGrace[s] # 0 => deliberate[s]

\* A session being killed is out of the store: no client that looks it up from
\* then on is sent to it.
KilledIsUnlisted == \A s \in Sessions : killed[s] => s \notin store

SessionInv ==
    /\ TypeOK
    /\ OwnerInv
    /\ ListenerInv
    /\ PumpInv
    /\ ExitInv
    /\ AgeInv
    /\ IdleIffUnattached
    /\ KilledIsUnlisted

\* Ages stay within the longest grace.
LEMMA OlderType ==
    /\ MaxAge \in Nat
    /\ \A a \in 0..MaxAge : Older(a) \in 0..MaxAge
    /\ \A a, b \in 0..MaxAge : a <= b => Older(a) <= Older(b)
    BY SessionAssumption DEF MaxAge, Older

\* The invariant holds initially.
LEMMA SessionInit == Init => SessionInv
<1> SUFFICES ASSUME Init
             PROVE  SessionInv
    OBVIOUS
<1>1. MaxAge \in Nat
    BY OlderType
<1>2. TypeOK
    BY <1>1, SessionAssumption DEF Init, TypeOK
<1>3. OwnerInv /\ ListenerInv /\ PumpInv /\ ExitInv
    BY SessionAssumption DEF Init, OwnerInv, ListenerInv, PumpInv, ExitInv
<1>4. AgeInv
    BY DEF Init, AgeInv
<1>5. IdleIffUnattached
    BY DEF Init, IdleIffUnattached, NotIdle
<1>6. KilledIsUnlisted
    BY DEF Init, KilledIsUnlisted
<1> QED
    BY <1>2, <1>3, <1>4, <1>5, <1>6 DEF SessionInv

\* Looking a session up touches the caller only.
LEMMA GetLiveInv ==
    ASSUME SessionInv, NEW l \in Listeners, NEW s \in Sessions, GetLive(l, s)
    PROVE  SessionInv'
<1>1. TypeOK /\ OwnerInv /\ ListenerInv /\ PumpInv /\ ExitInv /\ AgeInv
         /\ IdleIffUnattached /\ KilledIsUnlisted
    BY DEF SessionInv
<1>2. /\ caller[l] = "none" /\ s \in store
      /\ owner' = [owner EXCEPT ![l] = s]
      /\ caller' = [caller EXCEPT ![l] = "found"]
      /\ UNCHANGED <<store, alive, listeners, idle, idleGrace, killed, pump, notify,
                     delivery, exits, away, deliberate>>
    BY DEF GetLive, sessionVars, historyVars
<1>3. TypeOK'
    BY <1>1, <1>2 DEF TypeOK
<1>4. OwnerInv'
    BY <1>1, <1>2 DEF TypeOK, OwnerInv
<1>5. ListenerInv'
    BY <1>1, <1>2 DEF TypeOK, ListenerInv
<1>6. ExitInv'
    BY <1>1, <1>2 DEF TypeOK, ExitInv, OwnerInv
<1>7. PumpInv'
    BY <1>1, <1>2 DEF TypeOK, PumpInv
<1>8. AgeInv' /\ IdleIffUnattached' /\ KilledIsUnlisted'
    BY <1>1, <1>2 DEF AgeInv, IdleIffUnattached, KilledIsUnlisted
<1> QED
    BY <1>3, <1>4, <1>5, <1>6, <1>7, <1>8 DEF SessionInv

\* A new session is alive, listed, idle and without listeners.
LEMMA StartSessionInv ==
    ASSUME SessionInv, NEW l \in Listeners, NEW s \in Sessions, StartSession(l, s)
    PROVE  SessionInv'
<1>1. TypeOK /\ OwnerInv /\ ListenerInv /\ PumpInv /\ ExitInv /\ AgeInv
         /\ IdleIffUnattached /\ KilledIsUnlisted
    BY DEF SessionInv
<1>2. /\ caller[l] = "none" /\ pump[s] = "none"
      /\ store' = store \union {s}
      /\ alive' = [alive EXCEPT ![s] = TRUE]
      /\ idle' = [idle EXCEPT ![s] = 0]
      /\ pump' = [pump EXCEPT ![s] = "reading"]
      /\ owner' = [owner EXCEPT ![l] = s]
      /\ caller' = [caller EXCEPT ![l] = "found"]
      /\ away' = [away EXCEPT ![s] = 0]
      /\ UNCHANGED <<listeners, idleGrace, killed, notify, delivery, exits, deliberate>>
    BY DEF StartSession
<1>3. /\ ~killed[s]
      /\ \A k \in Listeners : owner[k] # s
      /\ listeners[s] = {} /\ notify[s] = {}
    <2>1. \A k \in Listeners : owner[k] # s
        BY <1>1, <1>2 DEF PumpInv
    <2>2. listeners[s] \subseteq Listeners /\ notify[s] \subseteq Listeners
        BY <1>1 DEF TypeOK
    <2> QED
        BY <1>1, <1>2, <2>1, <2>2 DEF PumpInv, ListenerInv, ExitInv
<1>4. TypeOK'
    BY <1>1, <1>2, OlderType DEF TypeOK
<1>5. OwnerInv' /\ ListenerInv'
    BY <1>1, <1>2 DEF TypeOK, OwnerInv, ListenerInv
<1>6. PumpInv'
    BY <1>1, <1>2 DEF TypeOK, PumpInv
<1>7. ExitInv'
    BY <1>1, <1>2, <1>3 DEF TypeOK, ExitInv, OwnerInv
<1>8. AgeInv'
    BY <1>1, <1>2 DEF TypeOK, AgeInv
<1>9. IdleIffUnattached'
    BY <1>1, <1>2, <1>3 DEF TypeOK, IdleIffUnattached, NotIdle
<1>10. KilledIsUnlisted'
    BY <1>1, <1>2, <1>3 DEF TypeOK, KilledIsUnlisted
<1> QED
    BY <1>4, <1>5, <1>6, <1>7, <1>8, <1>9, <1>10 DEF SessionInv

\* Attach ends the idle period of its session, dead or alive.
LEMMA AttachInv ==
    ASSUME SessionInv, NEW l \in Listeners, Attach(l)
    PROVE  SessionInv'
<1>1. TypeOK /\ OwnerInv /\ ListenerInv /\ PumpInv /\ ExitInv /\ AgeInv
         /\ IdleIffUnattached /\ KilledIsUnlisted
    BY DEF SessionInv
<1> DEFINE s == owner[l]
<1>2. /\ caller[l] = "found"
      /\ listeners' = [listeners EXCEPT ![s] = @ \union {l}]
      /\ idle' = [idle EXCEPT ![s] = NotIdle]
      /\ idleGrace' = [idleGrace EXCEPT ![s] = 0]
      /\ away' = [away EXCEPT ![s] = 0]
      /\ deliberate' = [deliberate EXCEPT ![s] = FALSE]
      /\ UNCHANGED <<store, alive, killed, pump, notify, owner, exits>>
    BY DEF Attach
<1>3. \/ /\ alive[s]
         /\ delivery' = [delivery EXCEPT ![l] = "running"]
         /\ caller' = [caller EXCEPT ![l] = "attached"]
      \/ /\ ~alive[s] /\ delivery' = delivery
         /\ caller' = [caller EXCEPT ![l] = "tellExit"]
    BY DEF Attach
<1>4. s \in Sessions /\ exits[l] = 0 /\ MaxAge \in Nat
    BY <1>1, <1>2, OlderType DEF OwnerInv
<1> HIDE DEF s
<1>5. TypeOK'
    <2>1. /\ listeners' \in [Sessions -> SUBSET Listeners]
          /\ idle' \in [Sessions -> 0..MaxAge \union {NotIdle}]
        BY <1>1, <1>2, <1>4 DEF TypeOK
    <2>2. /\ idleGrace' \in [Sessions -> {0, CloseGrace}]
          /\ away' \in [Sessions -> 0..MaxAge]
          /\ deliberate' \in [Sessions -> BOOLEAN]
        BY <1>1, <1>2, <1>4 DEF TypeOK
    <2>3. /\ caller' \in [Listeners -> {"none", "found", "attached", "tellExit",
                                       "detached", "marked"}]
          /\ delivery' \in [Listeners -> {"none", "running", "failed"}]
        BY <1>1, <1>3 DEF TypeOK
    <2> QED
        BY <1>1, <1>2, <2>1, <2>2, <2>3 DEF TypeOK
<1>6. OwnerInv'
    <2>1. ASSUME NEW k \in Listeners
          PROVE  /\ caller'[k] # "none" => owner'[k] \in Sessions
                 /\ caller'[k] \in {"none", "found"} =>
                       delivery'[k] = "none" /\ exits'[k] = 0
        <3>1. CASE k = l
            BY <1>1, <1>2, <1>3, <1>4, <3>1 DEF TypeOK, s
        <3>2. CASE k # l
            <4>1. caller'[k] = caller[k] /\ delivery'[k] = delivery[k]
                BY <1>1, <1>3, <3>2 DEF TypeOK
            <4> QED
                BY <1>1, <1>2, <4>1 DEF OwnerInv
        <3> QED
            BY <3>1, <3>2
    <2> QED
        BY <2>1 DEF OwnerInv
<1>7. ListenerInv'
    BY <1>1, <1>2, <1>3, <1>4 DEF TypeOK, ListenerInv, s
<1>8. PumpInv' /\ KilledIsUnlisted'
    BY <1>1, <1>2 DEF PumpInv, KilledIsUnlisted
<1>9. ExitInv'
    BY <1>1, <1>2, <1>3, <1>4 DEF TypeOK, ExitInv, s
<1>10. AgeInv'
    <2>1. ASSUME NEW t \in Sessions
          PROVE  /\ listeners'[t] = {} => idle'[t] <= away'[t]
                 /\ idleGrace'[t] # 0 => deliberate'[t]
        BY <1>1, <1>2, <1>4 DEF TypeOK, AgeInv
    <2> QED
        BY <2>1 DEF AgeInv
<1>11. IdleIffUnattached'
    BY <1>1, <1>2, <1>4 DEF TypeOK, IdleIffUnattached
<1> QED
    BY <1>5, <1>6, <1>7, <1>8, <1>9, <1>10, <1>11 DEF SessionInv

\* Attach tells an exit only to a listener nobody else has told.
LEMMA AttachTellExitInv ==
    ASSUME SessionInv, NEW l \in Listeners, AttachTellExit(l)
    PROVE  SessionInv'
<1>1. TypeOK /\ OwnerInv /\ ListenerInv /\ PumpInv /\ ExitInv /\ AgeInv
         /\ IdleIffUnattached /\ KilledIsUnlisted
    BY DEF SessionInv
<1>2. /\ caller[l] = "tellExit"
      /\ exits' = [exits EXCEPT ![l] = @ + 1]
      /\ caller' = [caller EXCEPT ![l] = "attached"]
      /\ UNCHANGED <<store, alive, listeners, idle, idleGrace, killed, pump, notify,
                     owner, delivery, away, deliberate>>
    BY DEF AttachTellExit, sessionVars, historyVars
<1>3. exits[l] = 0 /\ ~alive[owner[l]] /\ owner[l] \in Sessions
    BY <1>1, <1>2 DEF ExitInv, OwnerInv
<1>4. TypeOK'
    BY <1>1, <1>2, <1>3 DEF TypeOK
<1>5. OwnerInv'
    BY <1>1, <1>2 DEF TypeOK, OwnerInv
<1>6. ListenerInv'
    BY <1>1, <1>2 DEF TypeOK, ListenerInv
<1>7. ExitInv'
    BY <1>1, <1>2, <1>3 DEF TypeOK, ExitInv
<1>8. PumpInv' /\ AgeInv' /\ IdleIffUnattached' /\ KilledIsUnlisted'
    BY <1>1, <1>2 DEF PumpInv, AgeInv, IdleIffUnattached, KilledIsUnlisted
<1> QED
    BY <1>4, <1>5, <1>6, <1>7, <1>8 DEF SessionInv

\* removeListener, whoever calls it, keeps what concerns sessions.
LEMMA RemoveListenerInv ==
    ASSUME SessionInv, NEW l \in Listeners, RemoveListener(l), owner[l] \in Sessions,
           UNCHANGED <<owner, exits, deliberate>>
    PROVE  /\ listeners' \in [Sessions -> SUBSET Listeners]
           /\ idle' \in [Sessions -> 0..MaxAge \union {NotIdle}]
           /\ idleGrace' \in [Sessions -> {0, CloseGrace}]
           /\ away' \in [Sessions -> 0..MaxAge]
           /\ \A s \in Sessions : listeners'[s] \subseteq listeners[s]
           /\ l \notin listeners'[owner[l]]
           /\ PumpInv' /\ AgeInv' /\ IdleIffUnattached' /\ KilledIsUnlisted'
<1>1. TypeOK /\ OwnerInv /\ ListenerInv /\ PumpInv /\ ExitInv /\ AgeInv
         /\ IdleIffUnattached /\ KilledIsUnlisted
    BY DEF SessionInv
<1> DEFINE s == owner[l]
           gone == listeners[s] \ {l} = {}
<1>2. /\ listeners' = [listeners EXCEPT ![s] = @ \ {l}]
      /\ idle' = [idle EXCEPT ![s] = IF listeners'[s] = {} THEN 0 ELSE @]
      /\ idleGrace' = [idleGrace EXCEPT ![s] = IF listeners'[s] = {} THEN 0 ELSE @]
      /\ away' = [away EXCEPT ![s] = IF l \in listeners[s] THEN 0 ELSE @]
      /\ UNCHANGED <<store, alive, killed, pump, notify>>
    BY DEF RemoveListener
<1>3. s \in Sessions /\ MaxAge \in Nat
    BY OlderType
<1> HIDE DEF s
<1>4. listeners'[s] = listeners[s] \ {l}
    BY <1>1, <1>2, <1>3 DEF TypeOK
<1>5. listeners' \in [Sessions -> SUBSET Listeners]
    BY <1>1, <1>2, <1>3 DEF TypeOK
<1>6. /\ idle' \in [Sessions -> 0..MaxAge \union {NotIdle}]
      /\ idleGrace' \in [Sessions -> {0, CloseGrace}]
      /\ away' \in [Sessions -> 0..MaxAge]
    BY <1>1, <1>2, <1>3 DEF TypeOK
<1>7. \A t \in Sessions : listeners'[t] \subseteq listeners[t]
    BY <1>1, <1>2, <1>3 DEF TypeOK
<1>8. l \notin listeners'[owner[l]]
    BY <1>4 DEF s
<1>9. PumpInv' /\ KilledIsUnlisted'
    BY <1>1, <1>2 DEF PumpInv, KilledIsUnlisted
<1>10. IdleIffUnattached'
    <2>1. ASSUME NEW t \in Sessions
          PROVE  idle'[t] = NotIdle <=> listeners'[t] # {}
        BY <1>1, <1>2, <1>3, <1>4 DEF TypeOK, IdleIffUnattached, NotIdle
    <2> QED
        BY <2>1 DEF IdleIffUnattached
<1>11. AgeInv'
    <2>1. ASSUME NEW t \in Sessions
          PROVE  /\ listeners'[t] = {} => idle'[t] <= away'[t]
                 /\ idleGrace'[t] # 0 => deliberate'[t]
        BY <1>1, <1>2, <1>3, <1>4, <1>6 DEF TypeOK, AgeInv
    <2> QED
        BY <2>1 DEF AgeInv
<1> QED
    BY <1>5, <1>6, <1>7, <1>8, <1>9, <1>10, <1>11

\* Detach: the listener, and perhaps the delivery, was there.
LEMMA DetachInv ==
    ASSUME SessionInv, NEW l \in Listeners, Detach(l)
    PROVE  SessionInv'
<1>1. TypeOK /\ OwnerInv /\ ListenerInv /\ PumpInv /\ ExitInv /\ AgeInv
         /\ IdleIffUnattached /\ KilledIsUnlisted
    BY DEF SessionInv
<1>2. /\ caller[l] = "attached" /\ RemoveListener(l)
      /\ caller' = [caller EXCEPT ![l] = "detached"]
      /\ UNCHANGED <<owner, delivery, exits, deliberate>>
    BY DEF Detach
<1>3. UNCHANGED <<store, alive, killed, pump, notify>>
    BY <1>2 DEF RemoveListener
<1>4. owner[l] \in Sessions
    BY <1>1, <1>2 DEF OwnerInv
<1>5. /\ listeners' \in [Sessions -> SUBSET Listeners]
      /\ idle' \in [Sessions -> 0..MaxAge \union {NotIdle}]
      /\ idleGrace' \in [Sessions -> {0, CloseGrace}]
      /\ away' \in [Sessions -> 0..MaxAge]
      /\ \A s \in Sessions : listeners'[s] \subseteq listeners[s]
      /\ l \notin listeners'[owner[l]]
      /\ PumpInv' /\ AgeInv' /\ IdleIffUnattached' /\ KilledIsUnlisted'
    BY <1>2, <1>4, RemoveListenerInv
<1>6. TypeOK'
    BY <1>1, <1>2, <1>3, <1>5 DEF TypeOK
<1>7. OwnerInv'
    BY <1>1, <1>2 DEF TypeOK, OwnerInv
<1>8. ListenerInv'
    <2>1. ASSUME NEW s \in Sessions, NEW k \in listeners'[s]
          PROVE  owner'[k] = s /\ caller'[k] \in {"attached", "tellExit"}
        <3>1. k \in listeners[s] /\ k \in Listeners
            BY <1>1, <1>5, <2>1 DEF TypeOK
        <3>2. owner[k] = s /\ caller[k] \in {"attached", "tellExit"}
            BY <1>1, <3>1 DEF ListenerInv
        <3>3. k # l
            BY <1>5, <2>1, <3>2
        <3> QED
            BY <1>1, <1>2, <3>1, <3>2, <3>3 DEF TypeOK
    <2> QED
        BY <2>1 DEF ListenerInv
<1>9. ExitInv'
    BY <1>1, <1>2, <1>3 DEF TypeOK, ExitInv
<1> QED
    BY <1>5, <1>6, <1>7, <1>8, <1>9 DEF SessionInv

\* An error of a delivery, also one whose listener was detached before.
LEMMA DeliveryErrorInv ==
    ASSUME SessionInv, NEW l \in Listeners, DeliveryError(l)
    PROVE  SessionInv'
<1>1. TypeOK /\ OwnerInv /\ ListenerInv /\ PumpInv /\ ExitInv /\ AgeInv
         /\ IdleIffUnattached /\ KilledIsUnlisted
    BY DEF SessionInv
<1>2. /\ delivery[l] = "running" /\ RemoveListener(l)
      /\ delivery' = [delivery EXCEPT ![l] = "failed"]
      /\ UNCHANGED <<owner, caller, exits, deliberate>>
    BY DEF DeliveryError
<1>3. UNCHANGED <<store, alive, killed, pump, notify>>
    BY <1>2 DEF RemoveListener
<1>4. caller[l] \notin {"none", "found"} /\ owner[l] \in Sessions
    BY <1>1, <1>2 DEF OwnerInv
<1>5. /\ listeners' \in [Sessions -> SUBSET Listeners]
      /\ idle' \in [Sessions -> 0..MaxAge \union {NotIdle}]
      /\ idleGrace' \in [Sessions -> {0, CloseGrace}]
      /\ away' \in [Sessions -> 0..MaxAge]
      /\ \A s \in Sessions : listeners'[s] \subseteq listeners[s]
      /\ PumpInv' /\ AgeInv' /\ IdleIffUnattached' /\ KilledIsUnlisted'
    BY <1>2, <1>4, RemoveListenerInv
<1>6. TypeOK'
    BY <1>1, <1>2, <1>3, <1>5 DEF TypeOK
<1>7. OwnerInv'
    BY <1>1, <1>2, <1>4 DEF TypeOK, OwnerInv
<1>8. ListenerInv'
    BY <1>1, <1>2, <1>5 DEF ListenerInv
<1>9. ExitInv'
    BY <1>1, <1>2, <1>3 DEF ExitInv
<1> QED
    BY <1>5, <1>6, <1>7, <1>8, <1>9 DEF SessionInv

\* The short grace is set only together with the history variable.
LEMMA MarkClientClosedInv ==
    ASSUME SessionInv, NEW l \in Listeners, MarkClientClosed(l)
    PROVE  SessionInv'
<1>1. TypeOK /\ OwnerInv /\ ListenerInv /\ PumpInv /\ ExitInv /\ AgeInv
         /\ IdleIffUnattached /\ KilledIsUnlisted
    BY DEF SessionInv
<1> DEFINE s == owner[l]
           effective == listeners[s] = {} /\ idle[s] # NotIdle
<1>2. /\ caller[l] = "detached"
      /\ idleGrace' = [idleGrace EXCEPT ![s] = IF effective THEN CloseGrace ELSE @]
      /\ deliberate' = [deliberate EXCEPT ![s] = @ \/ effective]
      /\ caller' = [caller EXCEPT ![l] = "marked"]
      /\ UNCHANGED <<store, alive, listeners, idle, killed, pump, notify, owner,
                     delivery, exits, away>>
    BY DEF MarkClientClosed
<1>3. s \in Sessions /\ effective \in BOOLEAN
    BY <1>1, <1>2 DEF OwnerInv
<1> HIDE DEF s, effective
<1>4. TypeOK'
    <2>1. idleGrace' \in [Sessions -> {0, CloseGrace}]
        BY <1>1, <1>2, <1>3 DEF TypeOK
    <2>2. deliberate' \in [Sessions -> BOOLEAN]
        BY <1>1, <1>2, <1>3 DEF TypeOK
    <2> QED
        BY <1>1, <1>2, <2>1, <2>2 DEF TypeOK
<1>5. OwnerInv'
    BY <1>1, <1>2 DEF TypeOK, OwnerInv
<1>6. ListenerInv'
    <2>1. l \notin listeners[s]
        BY <1>1, <1>2, <1>3 DEF ListenerInv
    <2> QED
        BY <1>1, <1>2, <2>1, <1>3 DEF TypeOK, ListenerInv, s
<1>7. ExitInv'
    BY <1>1, <1>2 DEF TypeOK, ExitInv
<1>8. AgeInv'
    <2>1. ASSUME NEW t \in Sessions, idleGrace'[t] # 0
          PROVE  deliberate'[t]
        <3>1. CASE t = s /\ effective
            BY <1>1, <1>2, <1>3, <3>1 DEF TypeOK
        <3>2. CASE ~(t = s /\ effective)
            BY <1>1, <1>2, <1>3, <2>1, <3>2 DEF TypeOK, AgeInv
        <3> QED
            BY <3>1, <3>2
    <2> QED
        BY <1>1, <1>2, <2>1 DEF AgeInv
<1>9. PumpInv' /\ IdleIffUnattached' /\ KilledIsUnlisted'
    BY <1>1, <1>2 DEF PumpInv, IdleIffUnattached, KilledIsUnlisted
<1> QED
    BY <1>4, <1>5, <1>6, <1>7, <1>8, <1>9 DEF SessionInv

\* Those attached when the session exits have not been told, and Attach will not
\* tell them: it found the session alive.
LEMMA MarkExitedInv ==
    ASSUME SessionInv, NEW s \in Sessions, MarkExited(s)
    PROVE  SessionInv'
<1>1. TypeOK /\ OwnerInv /\ ListenerInv /\ PumpInv /\ ExitInv /\ AgeInv
         /\ IdleIffUnattached /\ KilledIsUnlisted
    BY DEF SessionInv
<1>2. /\ pump[s] = "reading"
      /\ alive' = [alive EXCEPT ![s] = FALSE]
      /\ notify' = [notify EXCEPT ![s] = listeners[s]]
      /\ pump' = [pump EXCEPT ![s] = "notifying"]
      /\ UNCHANGED <<store, listeners, idle, idleGrace, killed, owner, caller,
                     delivery, exits, away, deliberate>>
    BY DEF MarkExited, listenerVars, historyVars
<1>3. alive[s] /\ listeners[s] \subseteq Listeners
    BY <1>1, <1>2 DEF PumpInv, TypeOK
<1>4. \A l \in listeners[s] : owner[l] = s /\ exits[l] = 0 /\ caller[l] = "attached"
    BY <1>1, <1>3 DEF ListenerInv, ExitInv
<1>5. TypeOK'
    BY <1>1, <1>2, <1>3 DEF TypeOK
<1>6. OwnerInv' /\ ListenerInv'
    BY <1>1, <1>2 DEF OwnerInv, ListenerInv
<1>7. PumpInv'
    BY <1>1, <1>2 DEF TypeOK, PumpInv
<1>8. ExitInv'
    <2>1. \A t \in Sessions : \A l \in notify'[t] :
             /\ ~alive'[t] /\ owner'[l] = t /\ exits'[l] = 0
             /\ caller'[l] \notin {"none", "found", "tellExit"}
        <3>1. ASSUME NEW t \in Sessions, NEW l \in notify'[t]
              PROVE  /\ ~alive'[t] /\ owner'[l] = t /\ exits'[l] = 0
                     /\ caller'[l] \notin {"none", "found", "tellExit"}
            <4>1. CASE t = s
                BY <1>1, <1>2, <1>4, <3>1, <4>1 DEF TypeOK
            <4>2. CASE t # s
                BY <1>1, <1>2, <3>1, <4>2 DEF TypeOK, ExitInv
            <4> QED
                BY <4>1, <4>2
        <3> QED
            BY <3>1
    <2>2. \A l \in Listeners :
             /\ caller'[l] = "tellExit" => exits'[l] = 0 /\ ~alive'[owner'[l]]
             /\ exits'[l] \in {0, 1}
             /\ exits'[l] = 1 => ~alive'[owner'[l]]
        BY <1>1, <1>2 DEF TypeOK, ExitInv
    <2> QED
        BY <2>1, <2>2 DEF ExitInv
<1>9. AgeInv' /\ IdleIffUnattached' /\ KilledIsUnlisted'
    BY <1>1, <1>2 DEF AgeInv, IdleIffUnattached, KilledIsUnlisted
<1> QED
    BY <1>5, <1>6, <1>7, <1>8, <1>9 DEF SessionInv

\* The pump tells each of its targets and takes it off the list.
LEMMA NotifyExitInv ==
    ASSUME SessionInv, NEW s \in Sessions, NEW l \in Listeners, NotifyExit(s, l)
    PROVE  SessionInv'
<1>1. TypeOK /\ OwnerInv /\ ListenerInv /\ PumpInv /\ ExitInv /\ AgeInv
         /\ IdleIffUnattached /\ KilledIsUnlisted
    BY DEF SessionInv
<1>2. /\ pump[s] = "notifying" /\ l \in notify[s]
      /\ notify' = [notify EXCEPT ![s] = @ \ {l}]
      /\ exits' = [exits EXCEPT ![l] = @ + 1]
      /\ UNCHANGED <<store, alive, listeners, idle, idleGrace, killed, pump, owner,
                     caller, delivery, away, deliberate>>
    BY DEF NotifyExit, historyVars
<1>3. /\ ~alive[s] /\ owner[l] = s /\ exits[l] = 0
      /\ caller[l] \notin {"none", "found", "tellExit"}
    BY <1>1, <1>2 DEF ExitInv
<1>4. exits'[l] = 1
    BY <1>1, <1>2, <1>3 DEF TypeOK
<1>5. TypeOK'
    BY <1>1, <1>2, <1>3 DEF TypeOK
<1>6. OwnerInv'
    BY <1>1, <1>2, <1>3 DEF TypeOK, OwnerInv
<1>7. ExitInv'
    <2>1. \A t \in Sessions : \A k \in notify'[t] :
             /\ ~alive'[t] /\ owner'[k] = t /\ exits'[k] = 0
             /\ caller'[k] \notin {"none", "found", "tellExit"}
        <3>1. ASSUME NEW t \in Sessions, NEW k \in notify'[t]
              PROVE  /\ ~alive'[t] /\ owner'[k] = t /\ exits'[k] = 0
                     /\ caller'[k] \notin {"none", "found", "tellExit"}
            <4>1. k \in notify[t] /\ k \in Listeners
                BY <1>1, <1>2, <3>1 DEF TypeOK
            <4>2. k # l
                BY <1>1, <1>2, <1>3, <3>1, <4>1 DEF TypeOK, ExitInv
            <4> QED
                BY <1>1, <1>2, <4>1, <4>2 DEF TypeOK, ExitInv
        <3> QED
            BY <3>1
    <2>2. \A k \in Listeners :
             /\ caller'[k] = "tellExit" => exits'[k] = 0 /\ ~alive'[owner'[k]]
             /\ exits'[k] \in {0, 1}
             /\ exits'[k] = 1 => ~alive'[owner'[k]]
        BY <1>1, <1>2, <1>3, <1>4 DEF TypeOK, ExitInv
    <2> QED
        BY <2>1, <2>2 DEF ExitInv
<1>8. ListenerInv' /\ PumpInv' /\ AgeInv' /\ IdleIffUnattached' /\ KilledIsUnlisted'
    BY <1>1, <1>2 DEF ListenerInv, PumpInv, AgeInv, IdleIffUnattached, KilledIsUnlisted
<1> QED
    BY <1>5, <1>6, <1>7, <1>8 DEF SessionInv

\* The pump's end leaves a dead session behind.
LEMMA PumpEndsInv ==
    ASSUME SessionInv, NEW s \in Sessions, PumpEnds(s)
    PROVE  SessionInv'
<1>1. TypeOK /\ OwnerInv /\ ListenerInv /\ PumpInv /\ ExitInv /\ AgeInv
         /\ IdleIffUnattached /\ KilledIsUnlisted
    BY DEF SessionInv
<1>2. /\ pump[s] = "notifying"
      /\ pump' = [pump EXCEPT ![s] = "done"]
      /\ UNCHANGED <<store, alive, listeners, idle, idleGrace, killed, notify,
                     owner, caller, delivery, exits, away, deliberate>>
    BY DEF PumpEnds, listenerVars, historyVars
<1>3. TypeOK'
    BY <1>1, <1>2 DEF TypeOK
<1>4. PumpInv'
    BY <1>1, <1>2 DEF TypeOK, PumpInv
<1>5. OwnerInv' /\ ListenerInv' /\ ExitInv'
    BY <1>1, <1>2 DEF OwnerInv, ListenerInv, ExitInv
<1>6. AgeInv' /\ IdleIffUnattached' /\ KilledIsUnlisted'
    BY <1>1, <1>2 DEF AgeInv, IdleIffUnattached, KilledIsUnlisted
<1> QED
    BY <1>3, <1>4, <1>5, <1>6 DEF SessionInv

\* What the reaper kills it also takes off the store.
LEMMA ReapInv ==
    ASSUME SessionInv, NEW s \in Sessions, Reap(s)
    PROVE  SessionInv'
<1>1. TypeOK /\ OwnerInv /\ ListenerInv /\ PumpInv /\ ExitInv /\ AgeInv
         /\ IdleIffUnattached /\ KilledIsUnlisted
    BY DEF SessionInv
<1>2. /\ s \in store
      /\ store' = store \ {s}
      /\ killed' = [killed EXCEPT ![s] = @ \/ Expired(s)]
      /\ UNCHANGED <<alive, listeners, idle, idleGrace, pump, notify, owner, caller,
                     delivery, exits, away, deliberate>>
    BY DEF Reap, listenerVars, historyVars
<1>3. Expired(s) \in BOOLEAN
    BY DEF Expired
<1>4. TypeOK'
    BY <1>1, <1>2, <1>3 DEF TypeOK
<1>5. PumpInv'
    BY <1>1, <1>2, <1>3 DEF TypeOK, PumpInv
<1>6. KilledIsUnlisted'
    BY <1>1, <1>2, <1>3 DEF TypeOK, KilledIsUnlisted
<1>7. OwnerInv' /\ ListenerInv' /\ ExitInv'
    BY <1>1, <1>2 DEF OwnerInv, ListenerInv, ExitInv
<1>8. AgeInv' /\ IdleIffUnattached'
    BY <1>1, <1>2 DEF AgeInv, IdleIffUnattached
<1> QED
    BY <1>4, <1>5, <1>6, <1>7, <1>8 DEF SessionInv

\* The clock moves the idle period and the absence of clients together.
LEMMA TickInv ==
    ASSUME SessionInv, Tick
    PROVE  SessionInv'
<1>1. TypeOK /\ OwnerInv /\ ListenerInv /\ PumpInv /\ ExitInv /\ AgeInv
         /\ IdleIffUnattached /\ KilledIsUnlisted
    BY DEF SessionInv
<1>2. /\ idle' = [s \in Sessions |->
                    IF s \in store /\ idle[s] # NotIdle THEN Older(idle[s]) ELSE idle[s]]
      /\ away' = [s \in Sessions |->
                    IF s \in store /\ listeners[s] = {} THEN Older(away[s]) ELSE away[s]]
      /\ UNCHANGED <<store, alive, listeners, idleGrace, killed, pump, notify,
                     owner, caller, delivery, exits, deliberate>>
    BY DEF Tick, listenerVars
<1>3. ASSUME NEW s \in Sessions
      PROVE  /\ idle'[s] \in 0..MaxAge \union {NotIdle}
             /\ away'[s] \in 0..MaxAge
             /\ idle'[s] = NotIdle <=> idle[s] = NotIdle
             /\ listeners[s] = {} => idle'[s] <= away'[s]
    <2>1. /\ idle[s] \in 0..MaxAge \union {NotIdle} /\ away[s] \in 0..MaxAge
          /\ idle[s] = NotIdle <=> listeners[s] # {}
          /\ listeners[s] = {} => idle[s] <= away[s]
        BY <1>1 DEF TypeOK, IdleIffUnattached, AgeInv
    <2>2. /\ idle'[s] = IF s \in store /\ idle[s] # NotIdle THEN Older(idle[s])
                        ELSE idle[s]
          /\ away'[s] = IF s \in store /\ listeners[s] = {} THEN Older(away[s])
                        ELSE away[s]
        BY <1>2
    <2>3. \A a \in 0..MaxAge : Older(a) # NotIdle
        BY OlderType DEF NotIdle
    <2> QED
        BY <2>1, <2>2, <2>3, OlderType
<1>4. TypeOK'
    BY <1>1, <1>2, <1>3 DEF TypeOK
<1>5. AgeInv'
    BY <1>1, <1>2, <1>3 DEF AgeInv
<1>6. IdleIffUnattached'
    BY <1>1, <1>2, <1>3 DEF IdleIffUnattached, NotIdle
<1>7. OwnerInv' /\ ListenerInv' /\ PumpInv' /\ ExitInv' /\ KilledIsUnlisted'
    BY <1>1, <1>2 DEF OwnerInv, ListenerInv, PumpInv, ExitInv, KilledIsUnlisted
<1> QED
    BY <1>4, <1>5, <1>6, <1>7 DEF SessionInv

\* Every step keeps the invariant.
LEMMA NextInv ==
    ASSUME SessionInv, [Next]_vars
    PROVE  SessionInv'
<1>1. CASE UNCHANGED vars
    BY <1>1 DEF vars, sessionVars, listenerVars, historyVars, SessionInv, TypeOK, OwnerInv,
                ListenerInv, PumpInv, ExitInv, AgeInv, IdleIffUnattached, KilledIsUnlisted
<1>2. ASSUME NEW l \in Listeners, Handler(l)
      PROVE  SessionInv'
    BY <1>2, GetLiveInv, StartSessionInv, AttachInv, AttachTellExitInv, DetachInv,
       DeliveryErrorInv, MarkClientClosedInv DEF Handler
<1>3. ASSUME NEW s \in Sessions, Pump(s) \/ Reap(s)
      PROVE  SessionInv'
    BY <1>3, MarkExitedInv, NotifyExitInv, PumpEndsInv, ReapInv DEF Pump
<1>4. CASE Tick
    BY <1>4, TickInv
<1> QED
    BY <1>1, <1>2, <1>3, <1>4 DEF Next

(***************************************************************************)
(* Theorems.                                                               *)
(***************************************************************************)

\* The inductive invariant holds in every reachable state.
THEOREM SessionInvariant == Spec => []SessionInv
<1>1. Init => SessionInv
    BY SessionInit
<1>2. SessionInv /\ [Next]_vars => SessionInv'
    BY NextInv
<1> QED
    BY <1>1, <1>2, PTL DEF Spec

\* The variables keep their types: no step of any interleaving breaks them.
THEOREM SessionTypeCorrect == Spec => []TypeOK
<1>1. SessionInv => TypeOK
    BY DEF SessionInv
<1> QED
    BY <1>1, SessionInvariant, PTL

\* The idle clock of a session (idleSince) runs exactly while nobody is attached.
THEOREM SessionIdleClock == Spec => []IdleIffUnattached
<1>1. SessionInv => IdleIffUnattached
    BY DEF SessionInv
<1> QED
    BY <1>1, SessionInvariant, PTL

\* A killed session is never found again by GetLive.
THEOREM SessionKilledUnlisted == Spec => []KilledIsUnlisted
<1>1. SessionInv => KilledIsUnlisted
    BY DEF SessionInv
<1> QED
    BY <1>1, SessionInvariant, PTL

\* Attach and markExited never both tell a listener of the exit, and neither
\* tells it while the session lives.
THEOREM SessionExitToldOnce == Spec => []ExitToldOnce
<1>1. SessionInv => ExitToldOnce
    BY DEF SessionInv, ExitInv, ExitToldOnce
<1> QED
    BY <1>1, SessionInvariant, PTL

\* An exit leaves no listener behind that nobody is going to tell.
LEMMA ForgetsNobody ==
    ASSUME SessionInv, NobodyForgotten, [Next]_vars
    PROVE  NobodyForgotten'
<1> DEFINE InHand(s, l) == exits[l] = 1 \/ l \in notify[s] \/ caller[l] = "tellExit"
<1>1. TypeOK /\ OwnerInv /\ ListenerInv /\ PumpInv /\ ExitInv
    BY DEF SessionInv
<1>2. ASSUME NEW l \in Listeners, NEW s \in Sessions, GetLive(l, s) \/ StartSession(l, s)
      PROVE  NobodyForgotten'
    <2>1. \A t \in Sessions : l \notin listeners[t]
        BY <1>1, <1>2 DEF ListenerInv, GetLive, StartSession
    <2>2. /\ UNCHANGED <<listeners, exits, notify>>
          /\ caller' = [caller EXCEPT ![l] = "found"]
          /\ \A t \in Sessions : ~alive'[t] => ~alive[t]
        BY <1>1, <1>2 DEF GetLive, StartSession, sessionVars, TypeOK
    <2> QED
        BY <1>1, <2>1, <2>2 DEF NobodyForgotten, TypeOK
<1>3. ASSUME NEW l \in Listeners, Attach(l)
      PROVE  NobodyForgotten'
    <2> DEFINE s == owner[l]
    <2>1. /\ listeners' = [listeners EXCEPT ![s] = @ \union {l}]
          /\ UNCHANGED <<alive, notify, exits>>
          /\ IF alive[s] THEN caller' = [caller EXCEPT ![l] = "attached"]
             ELSE caller' = [caller EXCEPT ![l] = "tellExit"]
        BY <1>3 DEF Attach
    <2>2. s \in Sessions /\ caller[l] = "found"
        BY <1>1, <1>3 DEF Attach, OwnerInv
    <2> HIDE DEF s
    <2>3. ASSUME NEW t \in Sessions, NEW k \in listeners'[t], ~alive'[t]
          PROVE  InHand(t, k)'
        <3>1. CASE k = l
            <4>1. t = s
                BY <1>1, <2>1, <2>2, <2>3, <3>1 DEF ListenerInv, TypeOK
            <4> QED
                BY <1>1, <2>1, <2>3, <3>1, <4>1 DEF TypeOK
        <3>2. CASE k # l
            <4>1. k \in listeners[t] /\ k \in Listeners /\ ~alive[t]
                BY <1>1, <2>1, <2>2, <2>3, <3>2 DEF TypeOK
            <4>2. caller'[k] = caller[k]
                BY <1>1, <2>1, <3>2, <4>1 DEF TypeOK
            <4> QED
                BY <2>1, <4>1, <4>2 DEF NobodyForgotten
        <3> QED
            BY <3>1, <3>2
    <2> QED
        BY <2>3 DEF NobodyForgotten
<1>4. ASSUME NEW l \in Listeners, AttachTellExit(l)
      PROVE  NobodyForgotten'
    <2>1. exits[l] = 0
        BY <1>1, <1>4 DEF AttachTellExit, ExitInv
    <2>2. exits[l] + 1 = 1
        BY <2>1
    <2>3. /\ exits' = [exits EXCEPT ![l] = 1]
          /\ caller' = [caller EXCEPT ![l] = "attached"]
          /\ UNCHANGED <<alive, listeners, notify>>
        BY <1>4, <2>2 DEF AttachTellExit, sessionVars
    <2> QED
        BY <1>1, <2>3 DEF NobodyForgotten, TypeOK
<1>5. ASSUME NEW l \in Listeners, Detach(l)
      PROVE  NobodyForgotten'
    <2>1. /\ caller[l] = "attached" /\ caller' = [caller EXCEPT ![l] = "detached"]
          /\ listeners' = [listeners EXCEPT ![owner[l]] = @ \ {l}]
          /\ UNCHANGED <<alive, exits, notify>>
        BY <1>5 DEF Detach, RemoveListener
    <2>2. \A t \in Sessions : listeners'[t] \subseteq listeners[t]
        BY <1>1, <2>1 DEF TypeOK
    <2> QED
        BY <1>1, <2>1, <2>2 DEF NobodyForgotten, TypeOK
<1>6. ASSUME NEW l \in Listeners, DeliveryError(l)
      PROVE  NobodyForgotten'
    <2>1. /\ listeners' = [listeners EXCEPT ![owner[l]] = @ \ {l}]
          /\ UNCHANGED <<alive, exits, notify, caller>>
        BY <1>6 DEF DeliveryError, RemoveListener
    <2>2. \A t \in Sessions : listeners'[t] \subseteq listeners[t]
        BY <1>1, <2>1 DEF TypeOK
    <2> QED
        BY <2>1, <2>2 DEF NobodyForgotten
<1>7. ASSUME NEW l \in Listeners, MarkClientClosed(l)
      PROVE  NobodyForgotten'
    <2>1. /\ caller[l] = "detached" /\ caller' = [caller EXCEPT ![l] = "marked"]
          /\ UNCHANGED <<alive, listeners, exits, notify>>
        BY <1>7 DEF MarkClientClosed
    <2> QED
        BY <1>1, <2>1 DEF NobodyForgotten, TypeOK
<1>8. ASSUME NEW s \in Sessions, MarkExited(s)
      PROVE  NobodyForgotten'
    <2>1. /\ alive' = [alive EXCEPT ![s] = FALSE]
          /\ notify' = [notify EXCEPT ![s] = listeners[s]]
          /\ UNCHANGED <<listeners, exits, caller>>
        BY <1>8 DEF MarkExited, listenerVars
    <2> QED
        BY <1>1, <2>1 DEF NobodyForgotten, TypeOK
<1>9. ASSUME NEW s \in Sessions, NEW l \in Listeners, NotifyExit(s, l)
      PROVE  NobodyForgotten'
    <2>1. exits[l] = 0
        BY <1>1, <1>9 DEF NotifyExit, ExitInv
    <2>2. exits[l] + 1 = 1
        BY <2>1
    <2>3. /\ exits' = [exits EXCEPT ![l] = 1]
          /\ notify' = [notify EXCEPT ![s] = @ \ {l}]
          /\ UNCHANGED <<alive, listeners, caller>>
        BY <1>9, <2>2 DEF NotifyExit
    <2> QED
        BY <1>1, <2>3 DEF NobodyForgotten, TypeOK
<1>10. ASSUME NEW s \in Sessions, PumpEnds(s) \/ Reap(s)
       PROVE  NobodyForgotten'
    BY <1>10 DEF PumpEnds, Reap, listenerVars, NobodyForgotten
<1>11. CASE Tick \/ UNCHANGED vars
    BY <1>11 DEF Tick, vars, sessionVars, listenerVars, NobodyForgotten
<1> QED
    BY <1>2, <1>3, <1>4, <1>5, <1>6, <1>7, <1>8, <1>9, <1>10, <1>11
       DEF Next, Handler, Pump

\* No exit is lost between markExited's snapshot and an Attach that runs beside it.
THEOREM SessionForgetsNobody == Spec => []NobodyForgotten
<1>1. Init => NobodyForgotten
    BY DEF Init, NobodyForgotten
<1> QED
    BY <1>1, ForgetsNobody, SessionInvariant, PTL DEF Spec

\* Only the reaper kills, and only a session that nobody is attached to and
\* whose grace has passed since the last client left.
LEMMA KillIsJustified ==
    ASSUME SessionInv, [Next]_vars, NEW s \in Sessions, ~killed[s], killed'[s]
    PROVE  /\ listeners[s] = {}
           /\ \/ IdleGrace > 0 /\ away[s] >= IdleGrace
              \/ CloseGrace > 0 /\ deliberate[s] /\ away[s] >= CloseGrace
<1>1. TypeOK /\ AgeInv /\ IdleIffUnattached
    BY DEF SessionInv
<1>2. Expired(s)
    <2>1. \E t \in Sessions : Reap(t)
        <3>1. ASSUME NEW l \in Listeners, Handler(l)
              PROVE  killed' = killed
            BY <3>1 DEF Handler, GetLive, StartSession, Attach, AttachTellExit, Detach,
                        DeliveryError, RemoveListener, MarkClientClosed, sessionVars
        <3>2. ASSUME NEW t \in Sessions, Pump(t)
              PROVE  killed' = killed
            BY <3>2 DEF Pump, MarkExited, NotifyExit, PumpEnds
        <3>3. Tick \/ UNCHANGED vars => killed' = killed
            BY DEF Tick, vars, sessionVars
        <3> QED
            BY <3>1, <3>2, <3>3 DEF Next
    <2>2. PICK t \in Sessions : Reap(t)
        BY <2>1
    <2>3. killed' = [killed EXCEPT ![t] = @ \/ Expired(t)]
        BY <2>2 DEF Reap
    <2> QED
        BY <1>1, <2>3 DEF TypeOK
<1>3. listeners[s] = {}
    BY <1>1, <1>2 DEF Expired, IdleIffUnattached
<1>4. idle[s] \in 0..MaxAge \union {NotIdle} /\ away[s] \in 0..MaxAge /\ MaxAge \in Nat
    BY <1>1, OlderType DEF TypeOK
<1>5. Grace(s) > 0 /\ away[s] >= Grace(s) /\ Grace(s) \in Nat
    <2>1. Grace(s) \in Nat
        BY <1>1, SessionAssumption DEF Grace, TypeOK
    <2>2. Grace(s) > 0 /\ idle[s] # NotIdle /\ idle[s] >= Grace(s)
        BY <1>2 DEF Expired
    <2>3. idle[s] <= away[s]
        BY <1>1, <1>3 DEF AgeInv
    <2> QED
        BY <1>4, <2>1, <2>2, <2>3 DEF NotIdle
<1>6. CASE idleGrace[s] > 0
    <2>1. idleGrace[s] = CloseGrace /\ deliberate[s]
        BY <1>1, <1>6 DEF TypeOK, AgeInv
    <2> QED
        BY <1>3, <1>5, <1>6, <2>1 DEF Grace
<1>7. CASE ~(idleGrace[s] > 0)
    BY <1>3, <1>5, <1>7 DEF Grace
<1> QED
    BY <1>6, <1>7

\* The reaper never kills a session early.
THEOREM SessionNoEarlyKill == Spec => NoEarlyKill
<1>1. SessionInv /\ [Next]_vars =>
          [\A s \in Sessions : ~killed[s] /\ killed'[s] =>
              /\ listeners[s] = {}
              /\ \/ IdleGrace > 0 /\ away[s] >= IdleGrace
                 \/ CloseGrace > 0 /\ deliberate[s] /\ away[s] >= CloseGrace]_vars
    BY KillIsJustified
<1> QED
    BY <1>1, SessionInvariant, PTL DEF Spec, NoEarlyKill
================================================================================
