------------------------- MODULE TabConnectionProofs -------------------------
(***************************************************************************)
(* The life of a tab's connection, for every pong timeout, any number of   *)
(* connections and sessions the server holds and any number of pings:      *)
(*   - TabInv, the inductive invariant, and the types it contains;         *)
(*   - the stored id is the session the tab is attached to;                *)
(*   - the keepalive closes only sockets whose server left a ping          *)
(*     unanswered for the timeout less a period.                           *)
(*                                                                         *)
(* The keepalive measures the age of the last pong, the promise is about   *)
(* the age of the oldest ping: AgeInv relates the two, and needs that a    *)
(* pong never arrives for a ping that does not wait (PongInv).  The stored *)
(* id is decided by messages that are still on their way: WelcomeInv says  *)
(* what it will be once they are read.                                     *)
(***************************************************************************)
EXTENDS TabConnection, SequenceTheorems, FiniteSetTheorems, FunctionTheorems, TLAPS

-----------------------------------------------------------------------------
(* The inductive invariant.                                                *)

\* Where messages of a kind are in a queue.
Positions(q, t) == {i \in 1 .. Len(q) : q[i].t = t}

\* How many messages of a kind are in a queue.
Count(q, t) == Cardinality(Positions(q, t))

\* The tab connects to an end the server does not hold.
ConnectInv == ws = "connecting" => srv[cur] = "free"

\* Every ping and pong in flight is about a ping that waits.
PongInv ==
    ws = "open" => Count(toSrv[cur], "ping") + Count(toTab, "pong") <= Len(waiting)

\* As long as its timer was never a period late, the tab has had no pong for a while only
\* if a ping has waited that long, less the period in which it was sent.  The callback
\* that is due has not sent its ping yet.
AgeInv ==
    ~late /\ pongAge > (IF due THEN 1 ELSE 0) =>
        waiting # << >> /\ waiting[1] >= pongAge - 1

\* From a place on, a queue has answers to pings only.
OnlyPongs(from, q) == \A i \in from .. Len(q) : q[i].t = "pong"

\* With id stored and q on its way to the tab, s will be stored when all of q is read.
WillStore(s, id, q) ==
    \/ id = s /\ OnlyPongs(1, q)
    \/ \E i \in 1 .. Len(q) : q[i] = Msg("welcome", s) /\ OnlyPongs(i + 1, q)

\* What is on its way to the tab leaves the id of its session stored, as long as that
\* session lives.
WelcomeInv ==
    ws = "open" /\ srv[cur] = "attached" /\ owner[cur] \in alive =>
        WillStore(owner[cur], stored, toTab)

\* The inductive invariant.
TabInv == TypeOK /\ ConnectInv /\ PongInv /\ AgeInv /\ WelcomeInv

-----------------------------------------------------------------------------
(* Queues and how many messages of a kind they hold.                       *)

\* A function on 1..n is a sequence of length n.
LEMMA FunctionIsSeq ==
    ASSUME NEW S, NEW n \in Nat, NEW f \in [1 .. n -> S]
    PROVE  f \in Seq(S) /\ Len(f) = n
<1>1. f \in Seq(S)
    BY SeqDef
<1>2. PICK m \in Nat : Len(f) = m
    BY <1>1, LenProperties
<1>3. DOMAIN f = 1 .. m
    BY <1>1, <1>2, LenProperties
<1>4. 1 .. m = 1 .. n
    BY <1>3
<1>5. m = n
    <2>1. (m \in 1 .. m <=> m # 0) /\ (n \in 1 .. n <=> n # 0)
        OBVIOUS
    <2>2. (m \in 1 .. n <=> m # 0) /\ (n \in 1 .. m <=> n # 0)
        BY <1>4, <2>1
    <2> QED
        BY <2>2
<1> QED
    BY <1>1, <1>2, <1>5

\* Counts are numbers.
LEMMA PositionsFinite ==
    ASSUME NEW q \in Seq(Messages), NEW t
    PROVE  IsFiniteSet(Positions(q, t)) /\ Count(q, t) \in Nat
<1>1. PICK n \in Nat : Len(q) = n
    BY LenProperties
<1>2. IsFiniteSet(1 .. n)
    BY FS_Interval
<1>3. Positions(q, t) \in SUBSET (1 .. n)
    BY <1>1 DEF Positions
<1>4. IsFiniteSet(Positions(q, t))
    BY <1>2, <1>3, FS_Subset
<1> QED
    BY <1>4, FS_CardinalityType DEF Count

\* Nothing is in an empty queue.
LEMMA CountEmpty ==
    ASSUME NEW t PROVE Count(<< >>, t) = 0
<1>1. Positions(<< >>, t) = {}
    BY DEF Positions
<1> QED
    BY <1>1, FS_EmptySet DEF Count

\* A message sent counts for its kind.
LEMMA CountAppend ==
    ASSUME NEW q \in Seq(Messages), NEW m \in Messages, NEW t
    PROVE  /\ Append(q, m) \in Seq(Messages)
           /\ Count(Append(q, m), t) = IF m.t = t THEN Count(q, t) + 1 ELSE Count(q, t)
<1>1. PICK n \in Nat : Len(q) = n
    BY LenProperties
<1>2. /\ Append(q, m) \in Seq(Messages) /\ Len(Append(q, m)) = n + 1
      /\ \A i \in 1 .. n : Append(q, m)[i] = q[i]
      /\ Append(q, m)[n + 1] = m
    BY <1>1, AppendProperties
<1>3. IsFiniteSet(Positions(q, t)) /\ n + 1 \notin Positions(q, t)
    <2>1. IsFiniteSet(Positions(q, t))
        BY PositionsFinite
    <2> QED
        BY <1>1, <2>1 DEF Positions
<1>4. CASE m.t = t
    <2>1. Positions(Append(q, m), t) = Positions(q, t) \cup {n + 1}
        BY <1>1, <1>2, <1>4 DEF Positions
    <2>2. Cardinality(Positions(q, t) \cup {n + 1}) = Cardinality(Positions(q, t)) + 1
        BY <1>3, FS_AddElement
    <2> QED
        BY <1>2, <1>4, <2>1, <2>2 DEF Count
<1>5. CASE m.t # t
    <2>1. Positions(Append(q, m), t) = Positions(q, t)
        BY <1>1, <1>2, <1>5 DEF Positions
    <2> QED
        BY <1>2, <1>5, <2>1 DEF Count
<1> QED
    BY <1>4, <1>5

\* Head and tail of a sequence that is not empty.
LEMMA TailFacts ==
    ASSUME NEW S, NEW q \in Seq(S), q # << >>
    PROVE  \E n \in Nat \ {0} :
              /\ Len(q) = n /\ Tail(q) \in Seq(S) /\ Len(Tail(q)) = n - 1
              /\ \A i \in 1 .. n - 1 : Tail(q)[i] = q[i + 1]
              /\ Head(q) = q[1] /\ q[1] \in S
<1>1. PICK n \in Nat : Len(q) = n /\ n # 0
    BY LenProperties, EmptySeq
<1>2. /\ Tail(q) \in Seq(S) /\ Len(Tail(q)) = n - 1
      /\ \A i \in 1 .. n - 1 : Tail(q)[i] = q[i + 1]
    BY <1>1, HeadTailProperties
<1>3. q[1] \in S /\ Head(q) = q[1]
    BY <1>1, ElementOfSeq, 1 \in 1 .. Len(q)
<1> QED
    BY <1>1, <1>2, <1>3

\* A message received no longer counts for its kind.
LEMMA CountTail ==
    ASSUME NEW q \in Seq(Messages), q # << >>, NEW t
    PROVE  /\ Tail(q) \in Seq(Messages) /\ Head(q) \in Messages
           /\ Count(q, t) = IF Head(q).t = t THEN Count(Tail(q), t) + 1
                            ELSE Count(Tail(q), t)
<1>1. PICK n \in Nat \ {0} :
          /\ Len(q) = n /\ Tail(q) \in Seq(Messages) /\ Len(Tail(q)) = n - 1
          /\ \A i \in 1 .. n - 1 : Tail(q)[i] = q[i + 1]
          /\ Head(q) = q[1] /\ q[1] \in Messages
    BY TailFacts
<1> DEFINE P == Positions(q, t)
           Q == Positions(Tail(q), t)
           f == [i \in Q |-> i + 1]
<1>2. IsFiniteSet(P) /\ IsFiniteSet(Q) /\ Cardinality(P) \in Nat /\ Cardinality(Q) \in Nat
    BY <1>1, PositionsFinite DEF Count
<1>3. \A i \in Q : i \in Nat /\ i + 1 \in P \ {1}
    BY <1>1 DEF Positions
<1>4. \A i \in P \ {1} : i \in Nat /\ i - 1 \in Q /\ (i - 1) + 1 = i
    BY <1>1 DEF Positions
<1>5. f \in Bijection(Q, P \ {1})
    <2> HIDE DEF P, Q
    <2>1. f \in [Q -> P \ {1}]
        BY <1>3
    <2>2. \A a, b \in Q : f[a] = f[b] => a = b
        BY <1>3
    <2>3. \A j \in P \ {1} : \E i \in Q : f[i] = j
        <3> TAKE j \in P \ {1}
        <3>1. f[j - 1] = j /\ j - 1 \in Q
            BY <1>4
        <3> QED
            BY <3>1
    <2> HIDE DEF f
    <2> QED
        BY <2>1, <2>2, <2>3, Fun_IsBij
<1>6. Cardinality(P \ {1}) = Cardinality(Q)
    <2> HIDE DEF P, Q, f
    <2> QED
        BY <1>2, <1>5, FS_Bijection DEF ExistsBijection
<1>7. Cardinality(P \ {1}) = IF 1 \in P THEN Cardinality(P) - 1 ELSE Cardinality(P)
    <2> HIDE DEF P
    <2> QED
        BY <1>2, FS_RemoveElement
<1>8. 1 \in P <=> Head(q).t = t
    BY <1>1 DEF Positions
<1> HIDE DEF P, Q
<1>9. Cardinality(P) = IF Head(q).t = t THEN Cardinality(Q) + 1 ELSE Cardinality(Q)
    BY <1>2, <1>6, <1>7, <1>8
<1> QED
    BY <1>1, <1>9 DEF Count, P, Q

\* A message put before the last one does not count for the kinds of neither.
LEMMA CountInsert ==
    ASSUME NEW q \in Seq(Messages), NEW m \in Messages, NEW t, q # << >>,
           m.t # t, q[Len(q)].t # t
    PROVE  LET r == SubSeq(q, 1, Len(q) - 1) \o << m, q[Len(q)] >>
           IN  r \in Seq(Messages) /\ Count(r, t) = Count(q, t)
<1>1. PICK front \in Seq(Messages), x \in Messages : q = Append(front, x)
    BY SequenceEmptyOrAppend
<1>2. PICK n \in Nat : Len(front) = n
    BY LenProperties
<1>3. /\ Len(q) = n + 1 /\ q[n + 1] = x
      /\ \A i \in 1 .. n : q[i] = front[i]
    BY <1>1, <1>2, AppendProperties
<1>4. SubSeq(q, 1, Len(q) - 1) = front
    <2>1. \A i \in 1 .. n : q[i] \in Messages
        BY <1>3, ElementOfSeq, \A i \in 1 .. n : i \in 1 .. Len(q)
    <2>2. /\ SubSeq(q, 1, n) \in Seq(Messages) /\ Len(SubSeq(q, 1, n)) = n
          /\ \A i \in 1 .. n : SubSeq(q, 1, n)[i] = q[i]
        BY <2>1, SubSeqProperties
    <2>3. SubSeq(q, 1, n) = front
        BY <2>2, <1>2, <1>3, SeqEqual
    <2>4. Len(q) - 1 = n
        BY <1>3
    <2> QED
        BY <2>3, <2>4
<1>5. front \o << m, x >> = Append(Append(front, m), x)
    <2>1. Append(front, m) \in Seq(Messages) /\ Append(front, m) = front \o << m >>
        BY AppendProperties, AppendIsConcat
    <2>2. Append(Append(front, m), x) = (front \o << m >>) \o << x >>
        BY <2>1, AppendIsConcat
    <2>3. /\ << m >> \in Seq(Messages) /\ << x >> \in Seq(Messages)
          /\ << m, x >> = << m >> \o << x >>
        OBVIOUS
    <2> QED
        BY <2>2, <2>3, ConcatAssociative
<1>6. /\ Append(front, m) \in Seq(Messages) /\ Append(Append(front, m), x) \in Seq(Messages)
      /\ Count(Append(Append(front, m), x), t) = Count(front, t)
    <2>1. x.t # t
        BY <1>3
    <2>2. Append(front, m) \in Seq(Messages) /\ Count(Append(front, m), t) = Count(front, t)
        BY CountAppend
    <2> DEFINE fm == Append(front, m)
    <2>3. fm \in Seq(Messages)
        BY <2>2
    <2> HIDE DEF fm
    <2>4. Append(fm, x) \in Seq(Messages) /\ Count(Append(fm, x), t) = Count(fm, t)
        BY <2>1, <2>3, CountAppend
    <2> QED
        BY <2>2, <2>4 DEF fm
<1>7. Count(q, t) = Count(front, t)
    <2>1. x.t # t
        BY <1>3
    <2> QED
        BY <2>1, <1>1, CountAppend
<1> QED
    BY <1>3, <1>4, <1>5, <1>6, <1>7

-----------------------------------------------------------------------------
(* What the operators of the model do.                                     *)

\* Messages of known kinds are messages.
LEMMA MsgTypes ==
    \A s \in Ids \cup {NoId} :
      \A t \in {"hello", "ping", "bye", "welcome", "pong", "exit"} :
        Msg(t, s) \in Messages /\ Msg(t, s).t = t /\ Msg(t, s).s = s
BY DEF Msg, Messages

\* What is left on an abandoned connection is messages, and only that connection changes.
LEMMA AbandonType ==
    ASSUME NEW q \in [Conns -> Seq(Messages)], NEW c \in Conns
    PROVE  /\ Abandon(c, q) \in [Conns -> Seq(Messages)]
           /\ \A d \in Conns \ {c} : Abandon(c, q)[d] = q[d]
<1>1. ASSUME NEW t PROVE Only(t, q[c]) \in Seq(Messages)
    <2>1. CASE \E i \in DOMAIN q[c] : q[c][i].t = t
        <3> DEFINE j == CHOOSE i \in DOMAIN q[c] : q[c][i].t = t
        <3>1. j \in DOMAIN q[c]
            BY <2>1
        <3>2. q[c][j] \in Messages
            BY <3>1, LenProperties, ElementOfSeq
        <3> HIDE DEF j
        <3>3. << q[c][j] >> \in Seq(Messages)
            BY <3>2
        <3> QED
            BY <2>1, <3>3 DEF Only, j
    <2>2. CASE ~(\E i \in DOMAIN q[c] : q[c][i].t = t)
        BY <2>2, EmptySeq DEF Only
    <2> QED
        BY <2>1, <2>2
<1>2. Only("hello", q[c]) \o Only("bye", q[c]) \in Seq(Messages)
    BY <1>1, ConcatProperties
<1> QED
    BY <1>2 DEF Abandon

\* What the tab sends is appended or lost.
LEMMA ToServerFacts ==
    ASSUME TypeOK, NEW m \in Messages
    PROVE  /\ ToServer(m) \in [Conns -> Seq(Messages)]
           /\ ToServer(m)[cur] = toSrv[cur] \/ ToServer(m)[cur] = Append(toSrv[cur], m)
<1>1. toSrv \in [Conns -> Seq(Messages)] /\ cur \in Conns
    BY DEF TypeOK
<1>2. Append(toSrv[cur], m) \in Seq(Messages)
    BY <1>1, AppendProperties
<1> QED
    BY <1>1, <1>2 DEF ToServer

\* What is on its way to the tab is messages.
LEMMA ToTabType ==
    ASSUME TypeOK, NEW m \in Messages, NEW c
    PROVE  ToTab(c, m) \in Seq(Messages)
BY AppendProperties DEF TypeOK, ToTab

\* A new socket gets an end that the server does not hold: the least one exists.
LEMMA OpenFacts ==
    ASSUME TypeOK, Open
    PROVE  cur' \in Conns /\ srv[cur'] = "free" /\ ws' = "connecting"
<1> DEFINE free == {c \in Conns : srv[c] = "free"}
           Less == {p \in Nat \X Nat : p[1] < p[2]}
<1>1. free # {} /\ cur' = CHOOSE c \in free : \A d \in free : c <= d
    BY DEF Open
<1>2. IsWellFoundedOn(Less, Nat)
    BY NatLessThanWellFounded DEF OpToRel
<1>3. free \subseteq Nat
    BY TabAssumption DEF Conns
<1>4. \E x \in free : \A y \in free : ~(<<y, x>> \in Less)
    <2> HIDE DEF free, Less
    <2> QED
        BY <1>1, <1>2, <1>3, WFMin
<1>5. \E x \in free : \A y \in free : x <= y
    <2> HIDE DEF free
    <2>1. PICK x \in free : \A y \in free : ~(<<y, x>> \in Less)
        BY <1>4
    <2>2. \A y \in free : x <= y
        <3> TAKE y \in free
        <3>1. x \in Nat /\ y \in Nat
            BY <1>3
        <3>2. ~(y < x)
            BY <2>1, <3>1
        <3> QED
            BY <3>1, <3>2
    <2> QED
        BY <2>2
<1>6. cur' \in free
    <2> HIDE DEF free
    <2> QED
        BY <1>1, <1>5
<1> QED
    BY <1>6 DEF Open

-----------------------------------------------------------------------------
(* Steps of the tab that open or close a socket.                           *)

\* A page that has just loaded satisfies the invariant.
LEMMA InitInvariant ==
    ASSUME Init PROVE TabInv
<1>1. 1 \in Conns /\ PongTimeout \in Nat /\ MaxPings \in Nat
    BY TabAssumption DEF Conns
<1>2. << >> \in Seq(0 .. PongTimeout) /\ << >> \in Seq(Messages) /\ Len(<< >>) = 0
    BY EmptySeq
<1>3. TypeOK
    <2>1. /\ ws \in {"none", "connecting", "open", "closing"} /\ cur \in Conns
          /\ {retry, closed, due, late} \subseteq BOOLEAN
          /\ {sid, stored} \subseteq Ids \cup {NoId}
          /\ link \in {"up", "dead"} /\ alive \subseteq Ids
        BY <1>1 DEF Init
    <2>2. pongAge \in 0 .. PongTimeout + 1 /\ waiting \in Seq(0 .. PongTimeout)
        BY <1>1, <1>2 DEF Init
    <2>3. Len(waiting) <= MaxPings
        <3>1. Len(waiting) = 0 /\ 0 <= MaxPings
            BY <1>1, <1>2 DEF Init
        <3> QED
            BY <3>1
    <2>4. /\ srv \in [Conns -> {"free", "open", "attached"}]
          /\ owner \in [Conns -> Ids \cup {NoId}]
          /\ toSrv \in [Conns -> Seq(Messages)] /\ toTab \in Seq(Messages)
        BY <1>2 DEF Init
    <2>5. \A c \in Conns : (owner[c] # NoId) = (srv[c] = "attached")
        BY DEF Init
    <2> QED
        BY <2>1, <2>2, <2>3, <2>4, <2>5 DEF TypeOK
<1>4. ConnectInv
    BY <1>1 DEF Init, ConnectInv
<1> QED
    BY <1>3, <1>4 DEF Init, TabInv, PongInv, AgeInv, WelcomeInv

\* A step that changes nothing preserves it.
LEMMA StutterInvariant ==
    ASSUME TabInv, UNCHANGED vars PROVE TabInv'
<1>1. /\ UNCHANGED <<ws, cur, retry, closed, sid, stored>>
      /\ UNCHANGED <<pongAge, due, waiting, late>>
      /\ UNCHANGED <<srv, owner, alive>> /\ UNCHANGED <<link, toSrv, toTab>>
    BY DEF vars, tabVars, pingVars, srvVars, netVars
<1>2. TypeOK'
    BY <1>1 DEF TabInv, TypeOK
<1>3. ConnectInv' /\ PongInv' /\ AgeInv'
    BY <1>1 DEF TabInv, ConnectInv, PongInv, AgeInv, Count, Positions
<1>4. WelcomeInv'
    BY <1>1 DEF TabInv, WelcomeInv, WillStore, OnlyPongs
<1> QED
    BY <1>2, <1>3, <1>4 DEF TabInv

\* A tab whose socket is not open waits for no message.
LEMMA ClosedInvariant ==
    ASSUME ws' # "open", pongAge' = 0, TypeOK', ConnectInv' PROVE TabInv'
BY DEF TabInv, PongInv, AgeInv, WelcomeInv

\* The keepalive starts with nothing that waits.
LEMMA StartPingTypes ==
    ASSUME StartPing
    PROVE  /\ pongAge' \in 0 .. PongTimeout + 1 /\ {due', late'} \subseteq BOOLEAN
           /\ waiting' \in Seq(0 .. PongTimeout) /\ Len(waiting') <= MaxPings
           /\ pongAge' = 0
<1>1. PongTimeout \in Nat /\ MaxPings \in Nat
    BY TabAssumption
<1>2. << >> \in Seq(0 .. PongTimeout) /\ Len(<< >>) = 0
    BY EmptySeq
<1>3. Len(<< >>) <= MaxPings
    <2>1. 0 <= MaxPings
        BY <1>1
    <2> QED
        BY <1>2, <2>1
<1>4. pongAge' = 0 /\ due' = FALSE /\ late' = FALSE /\ waiting' = << >>
    BY DEF StartPing
<1>5. 0 \in 0 .. PongTimeout + 1
    BY <1>1
<1>6. Len(waiting') <= MaxPings /\ waiting' \in Seq(0 .. PongTimeout)
    BY <1>2, <1>3, <1>4
<1> QED
    BY <1>4, <1>5, <1>6

\* onopen: the hello is on its way, and nothing else.
LEMMA OnOpenInvariant ==
    ASSUME TabInv, OnOpen PROVE TabInv'
<1>1. /\ TypeOK /\ ConnectInv
      /\ ws = "connecting" /\ ws' = "open" /\ srv' = [srv EXCEPT ![cur] = "open"]
      /\ toSrv' = [toSrv EXCEPT ![cur] = << Msg("hello", sid) >>]
      /\ toTab' = << >> /\ StartPing
      /\ UNCHANGED <<cur, retry, closed, sid, stored, owner, alive, link>>
    BY DEF TabInv, OnOpen
<1>2. srv[cur] = "free" /\ cur \in Conns /\ sid \in Ids \cup {NoId}
    BY <1>1 DEF ConnectInv, TypeOK
<1>3. Msg("hello", sid) \in Messages /\ Msg("hello", sid).t = "hello"
    BY <1>2, MsgTypes
<1> DEFINE m == Msg("hello", sid)
<1>4. << m >> \in Seq(Messages) /\ << m >> = Append(<< >>, m)
    BY <1>3
<1>5. Count(<< m >>, "ping") = 0
    <2>1. << >> \in Seq(Messages) /\ Count(<< >>, "ping") = 0
        BY CountEmpty, EmptySeq
    <2>2. m \in Messages /\ m.t # "ping"
        BY <1>3
    <2> HIDE DEF m
    <2>3. Count(Append(<< >>, m), "ping") = Count(<< >>, "ping")
        BY <2>1, <2>2, CountAppend
    <2> QED
        BY <2>1, <2>3, <1>4
<1>6. toSrv'[cur] = << m >>
    BY <1>1, <1>2 DEF TypeOK
<1>7. TypeOK'
    <2>1. /\ srv' \in [Conns -> {"free", "open", "attached"}]
          /\ toSrv' \in [Conns -> Seq(Messages)] /\ toTab' \in Seq(Messages)
        BY <1>1, <1>4, EmptySeq DEF TypeOK
    <2>2. \A c \in Conns : (owner'[c] # NoId) = (srv'[c] = "attached")
        BY <1>1, <1>2 DEF TypeOK
    <2> QED
        BY <2>1, <2>2, <1>1, StartPingTypes DEF TypeOK
<1>8. ConnectInv'
    BY <1>1 DEF ConnectInv
<1>9. PongInv'
    <2>1. waiting' = << >> /\ Count(toTab', "pong") = 0 /\ Count(toSrv'[cur'], "ping") = 0
        BY <1>1, <1>5, <1>6, CountEmpty DEF StartPing
    <2>2. /\ (Count(toSrv[cur], "ping"))' = 0 /\ (Count(toTab, "pong"))' = 0
          /\ Len(waiting') = 0
        BY <2>1, EmptySeq DEF Count, Positions
    <2> QED
        BY <2>2 DEF PongInv
<1>10. AgeInv'
    BY <1>1 DEF StartPing, AgeInv
<1>11. WelcomeInv'
    BY <1>1, <1>2 DEF WelcomeInv, TypeOK
<1> QED
    BY <1>7, <1>8, <1>9, <1>10, <1>11 DEF TabInv

\* A socket that never opened.
LEMMA ConnectFailsInvariant ==
    ASSUME TabInv, ConnectFails PROVE TabInv'
<1>1. /\ TypeOK /\ ws' = "none" /\ retry' = ~closed /\ StartPing
      /\ UNCHANGED <<cur, closed, sid, stored>>
      /\ UNCHANGED <<srv, owner, alive>> /\ UNCHANGED <<link, toSrv, toTab>>
    BY DEF TabInv, ConnectFails, OnClose, srvVars, netVars
<1>2. TypeOK'
    BY <1>1, StartPingTypes DEF TypeOK
<1> QED
    BY <1>1, <1>2, ClosedInvariant, StartPingTypes DEF ConnectInv

\* onclose.
LEMMA SocketClosesInvariant ==
    ASSUME TabInv, SocketCloses PROVE TabInv'
<1>1. /\ TypeOK /\ ws' = "none" /\ retry' = ~closed /\ StartPing
      /\ UNCHANGED <<cur, closed, sid, stored>>
      /\ toSrv' = Abandon(cur, toSrv) /\ toTab' = << >>
      /\ UNCHANGED <<srv, owner, alive>> /\ UNCHANGED link
    BY DEF TabInv, SocketCloses, OnClose, srvVars
<1>2. toSrv' \in [Conns -> Seq(Messages)] /\ toTab' \in Seq(Messages)
    BY <1>1, AbandonType, EmptySeq DEF TypeOK
<1>3. TypeOK'
    BY <1>1, <1>2, StartPingTypes DEF TypeOK
<1> QED
    BY <1>1, <1>3, ClosedInvariant, StartPingTypes DEF ConnectInv

\* The retry timer opens a socket unless close() was called.
LEMMA RetryFiresInvariant ==
    ASSUME TabInv, RetryFires PROVE TabInv'
<1>1. /\ TypeOK /\ retry' = FALSE /\ UNCHANGED <<closed, sid, stored>>
      /\ UNCHANGED <<pongAge, due, waiting, late>>
      /\ UNCHANGED <<srv, owner, alive>> /\ UNCHANGED <<link, toSrv, toTab>>
      /\ ConnectInv /\ PongInv /\ AgeInv /\ WelcomeInv
    BY DEF TabInv, RetryFires, pingVars, srvVars, netVars
<1>2. CASE closed
    <2>1. UNCHANGED <<ws, cur>>
        BY <1>2 DEF RetryFires
    <2>2. TypeOK'
        BY <2>1, <1>1 DEF TypeOK
    <2>3. ConnectInv' /\ PongInv' /\ AgeInv'
        BY <2>1, <1>1 DEF ConnectInv, PongInv, AgeInv, Count, Positions
    <2>4. WelcomeInv'
        BY <2>1, <1>1 DEF WelcomeInv, WillStore, OnlyPongs
    <2> QED
        BY <2>2, <2>3, <2>4 DEF TabInv
<1>3. CASE ~closed
    <2>1. cur' \in Conns /\ srv[cur'] = "free" /\ ws' = "connecting"
        BY <1>1, <1>3, OpenFacts DEF RetryFires
    <2>2. TypeOK'
        BY <2>1, <1>1 DEF TypeOK
    <2>3. ConnectInv' /\ PongInv' /\ AgeInv' /\ WelcomeInv'
        BY <2>1, <1>1 DEF ConnectInv, PongInv, AgeInv, WelcomeInv
    <2> QED
        BY <2>2, <2>3 DEF TabInv
<1> QED
    BY <1>2, <1>3

\* ws.close() leaves a socket that is not open.
LEMMA WsCloseFacts ==
    ASSUME TypeOK, ConnectInv, WsClose,
           UNCHANGED <<cur, retry, sid, stored, srv, owner, alive, link>>,
           closed' \in BOOLEAN
    PROVE  TabInv'
<1>1. ws' \in {"none", "closing"} /\ toTab' = << >> /\ StartPing
    BY DEF WsClose
<1>2. Bye \in Messages
    BY MsgTypes DEF Bye
<1>3. toSrv' \in [Conns -> Seq(Messages)]
    BY <1>2, ToServerFacts DEF WsClose, TypeOK
<1>4. TypeOK'
    BY <1>1, <1>3, StartPingTypes, EmptySeq DEF TypeOK
<1> QED
    BY <1>1, <1>4, ClosedInvariant, StartPingTypes DEF ConnectInv

\* close() by the page.
LEMMA CloseInvariant ==
    ASSUME TabInv, Close PROVE TabInv'
<1>1. /\ TypeOK /\ ConnectInv /\ WsClose /\ closed' = TRUE
      /\ UNCHANGED <<cur, retry, sid, stored, srv, owner, alive, link>>
    BY DEF TabInv, Close, srvVars
<1> QED
    BY <1>1, WsCloseFacts

\* A reload opens a socket, with the id that was stored.
LEMMA ReloadInvariant ==
    ASSUME TabInv, Reload PROVE TabInv'
<1>1. /\ TypeOK /\ Open /\ sid' = stored /\ retry' = FALSE
      /\ toSrv' = IF ws = "open" THEN Abandon(cur, ToServer(Bye)) ELSE toSrv
      /\ toTab' = << >> /\ StartPing
      /\ UNCHANGED <<closed, stored, srv, owner, alive, link>>
    BY DEF TabInv, Reload, srvVars
<1>2. cur' \in Conns /\ srv[cur'] = "free" /\ ws' = "connecting"
    BY <1>1, OpenFacts
<1>3. Bye \in Messages
    BY MsgTypes DEF Bye
<1>4. ToServer(Bye) \in [Conns -> Seq(Messages)] /\ cur \in Conns
    BY <1>1, <1>3, ToServerFacts DEF TypeOK
<1>5. toSrv' \in [Conns -> Seq(Messages)]
    BY <1>1, <1>4, AbandonType DEF TypeOK
<1>6. TypeOK'
    BY <1>1, <1>2, <1>5, StartPingTypes, EmptySeq DEF TypeOK
<1>7. ConnectInv'
    BY <1>1, <1>2 DEF ConnectInv
<1> QED
    BY <1>1, <1>2, <1>6, <1>7, ClosedInvariant, StartPingTypes

\* The network changes nothing but itself.
LEMMA LinkChangesInvariant ==
    ASSUME TabInv, LinkChanges PROVE TabInv'
<1>1. /\ link' \in {"up", "dead"}
      /\ UNCHANGED <<ws, cur, retry, closed, sid, stored>>
      /\ UNCHANGED <<pongAge, due, waiting, late>>
      /\ UNCHANGED <<srv, owner, alive>> /\ UNCHANGED <<toSrv, toTab>>
    BY DEF LinkChanges, tabVars, pingVars, srvVars
<1>2. TypeOK'
    BY <1>1 DEF TabInv, TypeOK
<1>3. ConnectInv' /\ PongInv' /\ AgeInv'
    BY <1>1 DEF TabInv, ConnectInv, PongInv, AgeInv, Count, Positions
<1>4. WelcomeInv'
    BY <1>1 DEF TabInv, WelcomeInv, WillStore, OnlyPongs
<1> QED
    BY <1>2, <1>3, <1>4 DEF TabInv

-----------------------------------------------------------------------------
(* The keepalive.                                                          *)

\* A period ends: the age of the last pong grows with those of the pings that wait.
LEMMA IntervalPassesInvariant ==
    ASSUME TabInv, IntervalPasses PROVE TabInv'
<1> DEFINE older == [i \in DOMAIN waiting |->
                        IF late' THEN 0
                        ELSE IF waiting[i] = PongTimeout THEN waiting[i] ELSE waiting[i] + 1]
<1>1. /\ TypeOK /\ ConnectInv /\ PongInv /\ AgeInv /\ WelcomeInv
      /\ pongAge <= PongTimeout /\ pongAge' = pongAge + 1
      /\ due' = TRUE /\ late' = (late \/ due) /\ waiting' = older
      /\ UNCHANGED <<ws, cur, retry, closed, sid, stored>>
      /\ UNCHANGED <<srv, owner, alive>> /\ UNCHANGED <<link, toSrv, toTab>>
    BY DEF TabInv, IntervalPasses, tabVars, srvVars, netVars
<1>2. PICK n \in Nat : Len(waiting) = n
    BY <1>1, LenProperties DEF TypeOK
<1>3. /\ DOMAIN waiting = 1 .. n /\ PongTimeout \in Nat
      /\ pongAge \in 0 .. PongTimeout /\ {due, late} \subseteq BOOLEAN
    BY <1>1, <1>2, LenProperties, TabAssumption DEF TypeOK
<1>4. \A i \in 1 .. n : waiting[i] \in 0 .. PongTimeout
    BY <1>1, <1>2, ElementOfSeq DEF TypeOK
<1>5. waiting' \in Seq(0 .. PongTimeout) /\ Len(waiting') = n
    <2>1. older \in [1 .. n -> 0 .. PongTimeout]
        BY <1>3, <1>4
    <2> HIDE DEF older
    <2> QED
        BY <1>1, <2>1, FunctionIsSeq
<1>6. TypeOK'
    <2>1. pongAge' \in 0 .. PongTimeout + 1 /\ {due', late'} \subseteq BOOLEAN
        BY <1>1, <1>3
    <2> HIDE DEF older
    <2> QED
        BY <2>1, <1>1, <1>2, <1>5 DEF TypeOK
<1>7. AgeInv'
    <2> SUFFICES ASSUME ~late', pongAge' > 1
                 PROVE  waiting' # << >> /\ waiting'[1] >= pongAge' - 1
        BY <1>1 DEF AgeInv
    <2>1. ~late /\ ~due /\ pongAge > 0
        BY <1>1, <1>3
    <2>2. waiting # << >> /\ waiting[1] >= pongAge - 1
        BY <2>1, <1>1 DEF AgeInv
    <2>3. n # 0
        BY <2>2, <1>1, <1>2, EmptySeq DEF TypeOK
    <2>4. 1 \in 1 .. n /\ waiting[1] \in 0 .. PongTimeout
        BY <2>3, <1>4
    <2>5. older[1] = IF waiting[1] = PongTimeout THEN waiting[1] ELSE waiting[1] + 1
        BY <2>4, <1>3
    <2>6. waiting'[1] >= pongAge
        <3> HIDE DEF older
        <3> QED
            BY <2>2, <2>4, <2>5, <1>1, <1>3
    <2>7. waiting' # << >>
        <3> HIDE DEF older
        <3> QED
            BY <2>3, <1>5, EmptySeq
    <2> HIDE DEF older
    <2> QED
        BY <2>6, <2>7, <1>1, <1>3
<1>8. ConnectInv' /\ PongInv' /\ WelcomeInv'
    <2> HIDE DEF older
    <2> QED
        BY <1>1, <1>2, <1>5 DEF ConnectInv, PongInv, WelcomeInv, WillStore, OnlyPongs,
           Count, Positions
<1> QED
    BY <1>6, <1>7, <1>8 DEF TabInv

\* The callback pings: one more ping waits, unless none is left to send, and the first
\* one of a silence waits from the first callback on.
LEMMA PingInvariant ==
    ASSUME TabInv, ws = "open", due, Ping,
           UNCHANGED <<cur, retry, closed, sid, stored, srv, owner, alive, link>>
    PROVE  TabInv'
<1>1. /\ TypeOK /\ ConnectInv /\ PongInv /\ AgeInv /\ WelcomeInv
      /\ due' = FALSE /\ UNCHANGED <<ws, pongAge, toTab, late>>
    BY DEF TabInv, Ping
<1>2. /\ PongTimeout \in Nat \ {0} /\ MaxPings \in Nat \ {0} /\ pongAge \in Nat
      /\ cur \in Conns /\ toSrv[cur] \in Seq(Messages) /\ toTab \in Seq(Messages)
      /\ waiting \in Seq(0 .. PongTimeout)
    BY <1>1, TabAssumption DEF TypeOK
<1>3. PICK n \in Nat : Len(waiting) = n /\ n <= MaxPings
    BY <1>1, LenProperties DEF TypeOK
<1>4. \A i \in 1 .. n : waiting[i] \in 0 .. PongTimeout
    BY <1>2, <1>3, ElementOfSeq
<1>5. ~late /\ pongAge > 1 => n > 0 /\ waiting[1] >= pongAge - 1
    BY <1>1, <1>3, EmptySeq DEF AgeInv
<1> DEFINE ping == Msg("ping", NoId)
<1>6. ping \in Messages /\ ping.t = "ping"
    BY MsgTypes
<1>7. /\ ToServer(ping) \in [Conns -> Seq(Messages)]
      /\ ToServer(ping)[cur] = toSrv[cur] \/ ToServer(ping)[cur] = Append(toSrv[cur], ping)
    BY <1>1, <1>6, ToServerFacts
<1>8. Count(Append(toSrv[cur], ping), "ping") = Count(toSrv[cur], "ping") + 1
    BY <1>2, <1>6, CountAppend
<1>9. PICK pings \in Nat, pongs \in Nat :
          /\ Count(toSrv[cur], "ping") = pings /\ Count(toTab, "pong") = pongs
          /\ pings + pongs <= n
    BY <1>1, <1>2, <1>3, PositionsFinite DEF PongInv
<1>10. (Count(toTab, "pong"))' = pongs
    BY <1>1, <1>9 DEF Count, Positions
<1>11. (Count(toSrv[cur], "ping"))' = Count(toSrv'[cur], "ping")
    BY <1>1 DEF Count, Positions
<1>12. WelcomeInv' /\ ConnectInv'
    BY <1>1 DEF WelcomeInv, WillStore, OnlyPongs, ConnectInv
<1>13. CASE n < MaxPings
    <2>1. toSrv' = ToServer(ping) /\ waiting' = Append(waiting, 0)
        BY <1>3, <1>13 DEF Ping
    <2>2. /\ waiting' \in Seq(0 .. PongTimeout) /\ Len(waiting') = n + 1
          /\ \A i \in 1 .. n : waiting'[i] = waiting[i]
          /\ waiting'[n + 1] = 0 /\ waiting' # << >>
        <3>1. 0 \in 0 .. PongTimeout
            BY <1>2
        <3>2. /\ Append(waiting, 0) \in Seq(0 .. PongTimeout)
              /\ Len(Append(waiting, 0)) = Len(waiting) + 1
              /\ \A i \in 1 .. Len(waiting) : Append(waiting, 0)[i] = waiting[i]
              /\ Append(waiting, 0)[Len(waiting) + 1] = 0
              /\ Append(waiting, 0) # << >>
            BY <3>1, <1>2, AppendProperties
        <3> QED
            BY <2>1, <3>2, <1>3
    <2>3. Len(waiting') <= MaxPings
        BY <2>2, <1>2, <1>13
    <2>4. TypeOK'
        BY <2>1, <2>2, <2>3, <1>1, <1>7 DEF TypeOK
    <2>5. PICK k \in {pings, pings + 1} : Count(toSrv'[cur], "ping") = k
        <3>1. toSrv'[cur] = toSrv[cur] \/ toSrv'[cur] = Append(toSrv[cur], ping)
            BY <2>1, <1>7
        <3> QED
            BY <3>1, <1>8, <1>9
    <2>6. k \in Nat /\ k + pongs <= n + 1
        BY <2>5, <1>9
    <2>7. PongInv'
        <3>1. (Count(toSrv[cur], "ping"))' = k /\ (Count(toTab, "pong"))' = pongs
            BY <2>5, <1>10, <1>11
        <3> QED
            BY <3>1, <2>2, <2>6 DEF PongInv
    <2>8. AgeInv'
        <3> SUFFICES ASSUME ~late, pongAge > 0
                     PROVE  waiting' # << >> /\ waiting'[1] >= pongAge - 1
            BY <1>1 DEF AgeInv
        <3>1. CASE n = 0
            <4>1. waiting'[1] = 0
                BY <3>1, <2>2, 0 + 1 = 1
            <4>2. pongAge - 1 = 0
                BY <3>1, <1>2, <1>5
            <4> QED
                BY <4>1, <4>2, <2>2
        <3>2. CASE n > 0
            <4>1. waiting'[1] = waiting[1] /\ waiting[1] \in 0 .. PongTimeout
                BY <3>2, <2>2, <1>3, <1>4, 1 \in 1 .. n
            <4> QED
                BY <4>1, <2>2, <1>2, <1>5
        <3> QED
            BY <3>1, <3>2
    <2> QED
        BY <2>4, <2>7, <2>8, <1>12 DEF TabInv
<1>14. CASE ~(n < MaxPings)
    <2>1. toSrv' = toSrv /\ waiting' = waiting
        BY <1>3, <1>14 DEF Ping
    <2>2. n > 0
        BY <1>2, <1>14
    <2>3. TypeOK'
        BY <2>1, <1>1 DEF TypeOK
    <2>4. PongInv'
        <3>1. (Count(toSrv[cur], "ping"))' = pings /\ Len(waiting') = n
            BY <2>1, <1>3, <1>9, <1>11
        <3> QED
            BY <3>1, <1>9, <1>10 DEF PongInv
    <2>5. AgeInv'
        <3> SUFFICES ASSUME ~late, pongAge > 0
                     PROVE  waiting # << >> /\ waiting[1] >= pongAge - 1
            BY <2>1, <1>1 DEF AgeInv
        <3>1. waiting # << >> /\ waiting[1] \in 0 .. PongTimeout
            BY <2>2, <1>3, <1>4, EmptySeq, 1 \in 1 .. n
        <3> QED
            BY <3>1, <1>2, <1>5
    <2> QED
        BY <2>3, <2>4, <2>5, <1>12 DEF TabInv
<1> QED
    BY <1>13, <1>14

\* The callback pings or closes.
LEMMA PingTimerInvariant ==
    ASSUME TabInv, PingTimer PROVE TabInv'
<1>1. /\ TypeOK /\ ConnectInv /\ ws = "open" /\ due
      /\ UNCHANGED <<cur, retry, closed, sid, stored, srv, owner, alive, link>>
      /\ WsClose \/ Ping
    BY DEF TabInv, PingTimer, srvVars
<1>2. CASE WsClose
    <2>1. closed' \in BOOLEAN
        BY <1>1 DEF TypeOK
    <2> QED
        BY <2>1, <1>1, <1>2, WsCloseFacts
<1>3. CASE Ping
    BY <1>1, <1>3, PingInvariant
<1> QED
    BY <1>1, <1>2, <1>3

-----------------------------------------------------------------------------
(* Messages that arrive.                                                   *)

\* PongInv of the next state, in terms of its queues.
LEMMA PongStep ==
    ASSUME ws' = "open" =>
               Count(toSrv'[cur'], "ping") + Count(toTab', "pong") <= Len(waiting')
    PROVE  PongInv'
BY DEF PongInv, Count, Positions

\* WelcomeInv of the next state, in terms of its variables.
LEMMA WelcomeStep ==
    ASSUME ws' = "open" /\ srv'[cur'] = "attached" /\ owner'[cur'] \in alive' =>
               WillStore(owner'[cur'], stored', toTab')
    PROVE  WelcomeInv'
BY DEF WelcomeInv, WillStore, OnlyPongs

\* Reading a message as Receive does keeps what will be stored.
LEMMA WillStoreTail ==
    ASSUME NEW q \in Seq(Messages), q # << >>, NEW s \in Ids, NEW id, NEW next,
           WillStore(s, id, q),
           Head(q).t = "welcome" => next = Head(q).s,
           Head(q).t = "pong" => next = id
    PROVE  WillStore(s, next, Tail(q))
<1>1. PICK n \in Nat \ {0} :
          /\ Len(q) = n /\ Len(Tail(q)) = n - 1
          /\ \A i \in 1 .. n - 1 : Tail(q)[i] = q[i + 1]
          /\ Head(q) = q[1]
    BY TailFacts
<1>2. 1 \in 1 .. n
    OBVIOUS
<1>3. ASSUME NEW i \in Nat \ {0}, OnlyPongs(i + 1, q) PROVE OnlyPongs(i, Tail(q))
    <2> SUFFICES ASSUME NEW j \in i .. n - 1 PROVE Tail(q)[j].t = "pong"
        BY <1>1 DEF OnlyPongs
    <2>1. j \in 1 .. n - 1 /\ j + 1 \in i + 1 .. n
        OBVIOUS
    <2> QED
        BY <2>1, <1>1, <1>3 DEF OnlyPongs
<1>4. CASE id = s /\ OnlyPongs(1, q)
    <2>1. q[1].t = "pong" /\ OnlyPongs(2, q)
        BY <1>1, <1>2, <1>4 DEF OnlyPongs
    <2>2. OnlyPongs(1, Tail(q))
        BY <2>1, <1>3, 1 + 1 = 2
    <2> QED
        BY <2>1, <2>2, <1>1, <1>4 DEF WillStore
<1>5. CASE \E i \in 1 .. n : q[i] = Msg("welcome", s) /\ OnlyPongs(i + 1, q)
    <2>1. PICK i \in 1 .. n : q[i] = Msg("welcome", s) /\ OnlyPongs(i + 1, q)
        BY <1>5
    <2>2. q[i].t = "welcome" /\ q[i].s = s
        BY <2>1 DEF Msg
    <2>3. CASE i = 1
        <3>1. next = s /\ OnlyPongs(2, q)
            BY <2>1, <2>2, <2>3, <1>1, 1 + 1 = 2
        <3>2. OnlyPongs(1, Tail(q))
            BY <3>1, <1>3, 1 + 1 = 2
        <3> QED
            BY <3>1, <3>2 DEF WillStore
    <2>4. CASE i # 1
        <3>1. i - 1 \in 1 .. n - 1 /\ (i - 1) + 1 = i /\ i \in Nat \ {0}
            BY <2>4
        <3>2. Tail(q)[i - 1] = Msg("welcome", s) /\ OnlyPongs((i - 1) + 1, Tail(q))
            BY <3>1, <2>1, <1>1, <1>3
        <3> QED
            BY <3>1, <3>2, <1>1 DEF WillStore
    <2> QED
        BY <2>3, <2>4
<1> QED
    BY <1>1, <1>4, <1>5 DEF WillStore

\* A pong does not matter for what will be stored.
LEMMA WillStorePong ==
    ASSUME NEW q \in Seq(Messages), NEW s \in Ids, NEW id, WillStore(s, id, q)
    PROVE  WillStore(s, id, Append(q, Msg("pong", NoId)))
<1> DEFINE r == Append(q, Msg("pong", NoId))
<1>1. PICK n \in Nat : Len(q) = n
    BY LenProperties
<1>2. Msg("pong", NoId) \in Messages /\ Msg("pong", NoId).t = "pong"
    BY MsgTypes
<1>3. /\ Len(r) = n + 1 /\ \A i \in 1 .. n : r[i] = q[i]
      /\ r[n + 1].t = "pong"
    BY <1>1, <1>2, AppendProperties
<1> HIDE DEF r
<1>4. ASSUME NEW i \in Nat \ {0}, OnlyPongs(i, q) PROVE OnlyPongs(i, r)
    <2> SUFFICES ASSUME NEW j \in i .. n + 1 PROVE r[j].t = "pong"
        BY <1>3 DEF OnlyPongs
    <2>1. CASE j = n + 1
        BY <2>1, <1>3
    <2>2. CASE j # n + 1
        <3>1. j \in 1 .. n /\ j \in i .. n
            BY <2>2
        <3> QED
            BY <3>1, <1>1, <1>3, <1>4 DEF OnlyPongs
    <2> QED
        BY <2>1, <2>2
<1>5. CASE id = s /\ OnlyPongs(1, q)
    BY <1>4, <1>5 DEF WillStore, r
<1>6. CASE \E i \in 1 .. n : q[i] = Msg("welcome", s) /\ OnlyPongs(i + 1, q)
    <2>1. PICK i \in 1 .. n : q[i] = Msg("welcome", s) /\ OnlyPongs(i + 1, q)
        BY <1>6
    <2>2. i \in 1 .. n + 1 /\ i + 1 \in Nat \ {0}
        OBVIOUS
    <2>3. r[i] = Msg("welcome", s) /\ OnlyPongs(i + 1, r)
        BY <2>1, <2>2, <1>3, <1>4
    <2> QED
        BY <2>2, <2>3, <1>3 DEF WillStore, r
<1> QED
    BY <1>1, <1>5, <1>6 DEF WillStore

\* After a welcome its id will be stored.
LEMMA WillStoreWelcome ==
    ASSUME NEW q \in Seq(Messages), NEW s \in Ids, NEW id
    PROVE  WillStore(s, id, Append(q, Msg("welcome", s)))
<1> DEFINE r == Append(q, Msg("welcome", s))
<1>1. PICK n \in Nat : Len(q) = n
    BY LenProperties
<1>2. Msg("welcome", s) \in Messages
    BY MsgTypes
<1>3. Len(r) = n + 1 /\ r[n + 1] = Msg("welcome", s)
    BY <1>1, <1>2, AppendProperties
<1> HIDE DEF r
<1>4. n + 1 \in 1 .. n + 1 /\ OnlyPongs((n + 1) + 1, r)
    BY <1>3 DEF OnlyPongs
<1> QED
    BY <1>3, <1>4 DEF WillStore, r

\* Receive: a pong in flight belongs to a ping that waits, so there is one to remove.
LEMMA ReceiveInvariant ==
    ASSUME TabInv, Receive PROVE TabInv'
<1> DEFINE m == Head(toTab)
<1>1. /\ TypeOK /\ ConnectInv /\ PongInv /\ AgeInv /\ WelcomeInv
      /\ ws = "open" /\ toTab # << >> /\ toTab' = Tail(toTab)
      /\ UNCHANGED <<ws, cur, retry, closed, due, late, srv, owner, alive, link, toSrv>>
    BY DEF TabInv, Receive, srvVars
<1>2. /\ \/ /\ m.t = "welcome" /\ sid' = m.s /\ stored' = m.s
            /\ UNCHANGED <<pongAge, waiting>>
         \/ m.t = "exit" /\ stored' = NoId /\ UNCHANGED <<sid, pongAge, waiting>>
         \/ m.t = "pong" /\ pongAge' = 0 /\ waiting' = Tail(waiting)
            /\ UNCHANGED <<sid, stored>>
    BY DEF Receive, Welcome
<1>3. /\ toTab \in Seq(Messages) /\ Tail(toTab) \in Seq(Messages) /\ m \in Messages
      /\ Count(toTab, "pong") = IF m.t = "pong" THEN Count(Tail(toTab), "pong") + 1
                                ELSE Count(Tail(toTab), "pong")
    BY <1>1, CountTail DEF TypeOK
<1>4. cur \in Conns /\ toSrv[cur] \in Seq(Messages) /\ m.s \in Ids \cup {NoId}
    BY <1>1, <1>3 DEF TypeOK, Messages
<1>5. PICK pings \in Nat, pongs \in Nat, n \in Nat :
          /\ Count(toSrv[cur], "ping") = pings /\ Count(Tail(toTab), "pong") = pongs
          /\ Len(waiting) = n
    BY <1>1, <1>3, <1>4, PositionsFinite, LenProperties DEF TypeOK
<1>6. pings + (IF m.t = "pong" THEN pongs + 1 ELSE pongs) <= n
    BY <1>1, <1>3, <1>5 DEF PongInv
<1>7. WelcomeInv'
    <2> SUFFICES ASSUME srv[cur] = "attached", owner[cur] \in alive
                 PROVE  WillStore(owner[cur], stored', Tail(toTab))
        BY <1>1, WelcomeStep
    <2>1. WillStore(owner[cur], stored, toTab) /\ owner[cur] \in Ids
        BY <1>1 DEF WelcomeInv, TypeOK
    <2>2. /\ m.t = "welcome" => stored' = m.s
          /\ m.t = "pong" => stored' = stored
        BY <1>2
    <2> QED
        BY <2>1, <2>2, <1>1, <1>3, WillStoreTail
<1>8. ConnectInv'
    BY <1>1 DEF ConnectInv
<1>9. CASE m.t = "pong"
    <2>1. pongAge' = 0 /\ waiting' = Tail(waiting) /\ UNCHANGED <<sid, stored>>
        BY <1>2, <1>9
    <2>2. n # 0 /\ pings + pongs <= n - 1
        BY <1>6, <1>9
    <2>3. waiting \in Seq(0 .. PongTimeout) /\ waiting # << >>
        BY <2>2, <1>1, <1>5, EmptySeq DEF TypeOK
    <2>4. PICK k \in Nat \ {0} :
              /\ Len(waiting) = k /\ Tail(waiting) \in Seq(0 .. PongTimeout)
              /\ Len(Tail(waiting)) = k - 1
        BY <2>3, TailFacts
    <2>5. waiting' \in Seq(0 .. PongTimeout) /\ Len(waiting') = n - 1
        BY <2>1, <2>4, <1>5
    <2>6. Len(waiting') <= MaxPings
        <3>1. n <= MaxPings /\ MaxPings \in Nat
            BY <1>1, <1>5, TabAssumption DEF TypeOK
        <3> QED
            BY <3>1, <2>5
    <2>7. pongAge' \in 0 .. PongTimeout + 1
        BY <2>1, TabAssumption
    <2>8. TypeOK'
        BY <2>1, <2>5, <2>6, <2>7, <1>1, <1>3 DEF TypeOK
    <2>9. PongInv'
        <3>1. Count(toSrv'[cur'], "ping") = pings /\ Count(toTab', "pong") = pongs
            BY <1>1, <1>5
        <3>2. Count(toSrv'[cur'], "ping") + Count(toTab', "pong") <= Len(waiting')
            BY <3>1, <2>2, <2>5
        <3> QED
            BY <3>2, PongStep
    <2>10. AgeInv'
        BY <2>1 DEF AgeInv
    <2> QED
        BY <2>8, <2>9, <2>10, <1>7, <1>8 DEF TabInv
<1>10. CASE m.t # "pong"
    <2>1. UNCHANGED <<pongAge, waiting>> /\ {sid', stored'} \subseteq Ids \cup {NoId}
        BY <1>1, <1>2, <1>4, <1>10 DEF TypeOK
    <2>2. TypeOK'
        BY <2>1, <1>1, <1>3 DEF TypeOK
    <2>3. PongInv'
        <3>1. /\ Count(toSrv'[cur'], "ping") = pings /\ Count(toTab', "pong") = pongs
              /\ Len(waiting') = n /\ pings + pongs <= n
            BY <2>1, <1>1, <1>5, <1>6, <1>10
        <3>2. Count(toSrv'[cur'], "ping") + Count(toTab', "pong") <= Len(waiting')
            BY <3>1
        <3> QED
            BY <3>2, PongStep
    <2>4. AgeInv'
        BY <2>1, <1>1 DEF AgeInv
    <2> QED
        BY <2>2, <2>3, <2>4, <1>7, <1>8 DEF TabInv
<1> QED
    BY <1>9, <1>10

\* The server reads one message of a connection.
LEMMA QueueFacts ==
    ASSUME TypeOK, NEW c \in Conns, toSrv[c] # << >>,
           toSrv' = [toSrv EXCEPT ![c] = Tail(@)], cur' = cur
    PROVE  /\ toSrv' \in [Conns -> Seq(Messages)] /\ Head(toSrv[c]) \in Messages
           /\ Count(toSrv[cur], "ping") \in Nat
           /\ Count(toSrv[cur], "ping") =
                 IF c = cur /\ Head(toSrv[c]).t = "ping"
                 THEN Count(toSrv'[cur'], "ping") + 1
                 ELSE Count(toSrv'[cur'], "ping")
           /\ Count(toSrv'[cur'], "ping") \in Nat
<1>1. cur \in Conns /\ toSrv \in [Conns -> Seq(Messages)] /\ toSrv[c] \in Seq(Messages)
    BY DEF TypeOK
<1>2. /\ Tail(toSrv[c]) \in Seq(Messages) /\ Head(toSrv[c]) \in Messages
      /\ Count(toSrv[c], "ping") =
            IF Head(toSrv[c]).t = "ping" THEN Count(Tail(toSrv[c]), "ping") + 1
            ELSE Count(Tail(toSrv[c]), "ping")
    BY <1>1, CountTail
<1>3. toSrv' \in [Conns -> Seq(Messages)]
    BY <1>1, <1>2
<1>4. toSrv'[cur'] \in Seq(Messages) /\ toSrv[cur] \in Seq(Messages)
    BY <1>1, <1>3
<1>5. Count(toSrv'[cur'], "ping") \in Nat /\ Count(toSrv[cur], "ping") \in Nat
    BY <1>4, PositionsFinite
<1>6. toSrv'[cur'] = IF c = cur THEN Tail(toSrv[c]) ELSE toSrv[cur]
    BY <1>1
<1> QED
    BY <1>2, <1>3, <1>5, <1>6

\* A hello attaches a session: a new one is not the one that another connection of the
\* tab had, so a session that died is not taken for alive.
LEMMA HelloInvariant ==
    ASSUME TabInv, NEW c \in Conns, srv[c] # "free", toSrv[c] # << >>,
           Head(toSrv[c]).t = "hello", ServerHello(c, Head(toSrv[c])),
           toSrv' = [toSrv EXCEPT ![c] = Tail(@)],
           UNCHANGED <<ws, cur, retry, closed, sid, stored, pongAge, due, waiting, late, link>>
    PROVE  TabInv'
<1> DEFINE m == Head(toSrv[c])
           known == {sid, stored} \cup {owner[d] : d \in Conns}
               \cup UNION {{q[i].s : i \in DOMAIN q} : q \in {toSrv[d] : d \in Conns}}
           fresh == Ids \ (alive \cup known)
<1>1. TypeOK /\ ConnectInv /\ PongInv /\ AgeInv /\ WelcomeInv /\ cur \in Conns
    BY DEF TabInv, TypeOK
<1>2. PICK s : /\ s \in IF m.s \in alive THEN {m.s}
                        ELSE {i \in fresh : \A j \in fresh : i <= j}
               /\ owner' = [owner EXCEPT ![c] = s] /\ alive' = alive \cup {s}
               /\ srv' = [srv EXCEPT ![c] = "attached"]
               /\ toTab' = ToTab(c, Msg("welcome", s))
    BY DEF ServerHello
<1>3. s \in Ids /\ (s \in alive \/ s \notin known)
    BY <1>1, <1>2 DEF TypeOK
<1>4. owner[cur] \in known
    BY <1>1
<1> HIDE DEF fresh, known
<1>5. s # NoId /\ alive \subseteq Ids
    BY <1>1, <1>3 DEF Ids, NoId, TypeOK
<1>6. Msg("welcome", s) \in Messages /\ Msg("welcome", s).t = "welcome"
    BY <1>3, MsgTypes
<1>7. toTab' \in Seq(Messages) /\ toTab \in Seq(Messages)
    BY <1>1, <1>2, <1>6, ToTabType DEF TypeOK
<1>8. /\ toSrv' \in [Conns -> Seq(Messages)] /\ Count(toSrv[cur], "ping") \in Nat
      /\ Count(toSrv[cur], "ping") = Count(toSrv'[cur'], "ping")
    BY <1>1, QueueFacts
<1>9. TypeOK'
    <2>1. /\ srv' \in [Conns -> {"free", "open", "attached"}]
          /\ owner' \in [Conns -> Ids \cup {NoId}] /\ alive' \subseteq Ids
        BY <1>1, <1>2, <1>3, <1>5 DEF TypeOK
    <2>2. \A d \in Conns : (owner'[d] # NoId) = (srv'[d] = "attached")
        BY <1>1, <1>2, <1>5 DEF TypeOK
    <2> QED
        BY <2>1, <2>2, <1>1, <1>7, <1>8 DEF TypeOK
<1>10. ConnectInv'
    BY <1>1, <1>2 DEF ConnectInv, TypeOK
<1>11. PongInv'
    <2> SUFFICES ASSUME ws = "open"
                 PROVE  Count(toSrv'[cur'], "ping") + Count(toTab', "pong") <= Len(waiting')
        BY PongStep
    <2>1. Count(Append(toTab, Msg("welcome", s)), "pong") = Count(toTab, "pong")
        BY <1>6, <1>7, CountAppend
    <2>2. Count(toTab', "pong") = Count(toTab, "pong")
        BY <2>1, <1>2 DEF ToTab
    <2> QED
        BY <2>2, <1>1, <1>8 DEF PongInv
<1>12. AgeInv'
    BY <1>1 DEF AgeInv
<1>13. WelcomeInv'
    <2> SUFFICES ASSUME ws = "open", srv'[cur] = "attached", owner'[cur] \in alive'
                 PROVE  WillStore(owner'[cur], stored, toTab')
        BY WelcomeStep
    <2>1. CASE c = cur
        <3>1. owner'[cur] = s /\ toTab' = Append(toTab, Msg("welcome", s))
            BY <2>1, <1>1, <1>2 DEF ToTab, TypeOK
        <3> QED
            BY <3>1, <1>3, <1>7, WillStoreWelcome
    <2>2. CASE c # cur
        <3>1. owner'[cur] = owner[cur] /\ srv[cur] = "attached" /\ toTab' = toTab
            BY <2>2, <1>1, <1>2 DEF ToTab, TypeOK
        <3>2. owner[cur] \in alive
            BY <3>1, <1>2, <1>3, <1>4
        <3> QED
            BY <3>1, <3>2, <1>1 DEF WelcomeInv
    <2> QED
        BY <2>1, <2>2
<1> QED
    BY <1>9, <1>10, <1>11, <1>12, <1>13 DEF TabInv

\* A ping in flight becomes a pong in flight.
LEMMA PingAnswered ==
    ASSUME TabInv, NEW c \in Conns, srv[c] # "free", toSrv[c] # << >>,
           Head(toSrv[c]).t = "ping", toTab' = ToTab(c, Msg("pong", NoId)),
           toSrv' = [toSrv EXCEPT ![c] = Tail(@)],
           UNCHANGED <<ws, cur, retry, closed, sid, stored, pongAge, due, waiting, late, link>>,
           UNCHANGED <<srv, owner, alive>>
    PROVE  TabInv'
<1>1. TypeOK /\ ConnectInv /\ PongInv /\ AgeInv /\ WelcomeInv /\ cur \in Conns
    BY DEF TabInv, TypeOK
<1> DEFINE pong == Msg("pong", NoId)
<1>2. pong \in Messages /\ pong.t = "pong"
    BY MsgTypes
<1>3. toTab' \in Seq(Messages) /\ toTab \in Seq(Messages)
    BY <1>1, <1>2, ToTabType DEF TypeOK
<1>4. /\ toSrv' \in [Conns -> Seq(Messages)]
      /\ Count(toSrv'[cur'], "ping") \in Nat
      /\ Count(toSrv[cur], "ping") = IF c = cur THEN Count(toSrv'[cur'], "ping") + 1
                                     ELSE Count(toSrv'[cur'], "ping")
    BY <1>1, QueueFacts
<1>5. TypeOK'
    BY <1>1, <1>3, <1>4 DEF TypeOK
<1>6. ConnectInv' /\ AgeInv'
    BY <1>1 DEF ConnectInv, AgeInv
<1>7. PongInv'
    <2> SUFFICES ASSUME ws = "open"
                 PROVE  Count(toSrv'[cur'], "ping") + Count(toTab', "pong") <= Len(waiting')
        BY PongStep
    <2>1. PICK pings \in Nat, pongs \in Nat, n \in Nat :
              /\ Count(toSrv'[cur'], "ping") = pings /\ Count(toTab, "pong") = pongs
              /\ Len(waiting) = n
        BY <1>1, <1>3, <1>4, PositionsFinite, LenProperties DEF TypeOK
    <2>2. (IF c = cur THEN pings + 1 ELSE pings) + pongs <= n
        BY <2>1, <1>1, <1>4 DEF PongInv
    <2>3. Count(Append(toTab, pong), "pong") = Count(toTab, "pong") + 1
        BY <1>2, <1>3, CountAppend
    <2>4. Count(toTab', "pong") = IF c = cur THEN pongs + 1 ELSE pongs
        BY <2>1, <2>3 DEF ToTab
    <2>5. pings + (IF c = cur THEN pongs + 1 ELSE pongs) <= n
        BY <2>2
    <2>6. Len(waiting') = n
        BY <2>1
    <2> QED
        BY <2>1, <2>4, <2>5, <2>6
<1>8. WelcomeInv'
    <2> SUFFICES ASSUME ws = "open", srv[cur] = "attached", owner[cur] \in alive
                 PROVE  WillStore(owner[cur], stored, toTab')
        BY WelcomeStep
    <2>1. WillStore(owner[cur], stored, toTab) /\ owner[cur] \in Ids
        BY <1>1 DEF WelcomeInv, TypeOK
    <2>2. WillStore(owner[cur], stored, Append(toTab, pong))
        BY <2>1, <1>3, WillStorePong
    <2> QED
        BY <2>1, <2>2 DEF ToTab
<1> QED
    BY <1>5, <1>6, <1>7, <1>8 DEF TabInv

\* A handler ends: its connection is attached to nothing.
LEMMA LeaveInvariant ==
    ASSUME TabInv, NEW c \in Conns, Leave(c), toSrv' \in [Conns -> Seq(Messages)],
           ws = "open" =>
               Count(toSrv'[cur'], "ping") + Count(toTab, "pong") <= Len(waiting),
           UNCHANGED <<ws, cur, retry, closed, sid, stored, pongAge, due, waiting, late, link,
                       toTab>>
    PROVE  TabInv'
<1>1. TypeOK /\ ConnectInv /\ AgeInv /\ WelcomeInv /\ cur \in Conns
    BY DEF TabInv, TypeOK
<1>2. /\ srv' = [srv EXCEPT ![c] = "free"] /\ owner' = [owner EXCEPT ![c] = NoId]
      /\ UNCHANGED alive
    BY DEF Leave
<1>3. TypeOK'
    <2>1. /\ srv' \in [Conns -> {"free", "open", "attached"}]
          /\ owner' \in [Conns -> Ids \cup {NoId}]
        BY <1>1, <1>2 DEF TypeOK
    <2>2. \A d \in Conns : (owner'[d] # NoId) = (srv'[d] = "attached")
        BY <1>1, <1>2 DEF TypeOK
    <2> QED
        BY <2>1, <2>2, <1>1, <1>2 DEF TypeOK
<1>4. ConnectInv' /\ AgeInv'
    BY <1>1, <1>2 DEF ConnectInv, AgeInv, TypeOK
<1>5. PongInv'
    BY PongStep
<1>6. WelcomeInv'
    <2> SUFFICES ASSUME ws = "open", srv'[cur] = "attached", owner'[cur] \in alive
                 PROVE  WillStore(owner'[cur], stored, toTab)
        BY <1>2, WelcomeStep
    <2>1. srv[cur] = "attached" /\ owner'[cur] = owner[cur]
        BY <1>1, <1>2 DEF TypeOK
    <2> QED
        BY <2>1, <1>1 DEF WelcomeInv
<1> QED
    BY <1>3, <1>4, <1>5, <1>6 DEF TabInv

\* The server reads a hello, a ping or a close frame.
LEMMA ServerReceiveInvariant ==
    ASSUME TabInv, NEW c \in Conns, ServerReceive(c) PROVE TabInv'
<1> DEFINE m == Head(toSrv[c])
<1>1. /\ srv[c] # "free" /\ toSrv[c] # << >> /\ toSrv' = [toSrv EXCEPT ![c] = Tail(@)]
      /\ UNCHANGED <<ws, cur, retry, closed, sid, stored, pongAge, due, waiting, late, link>>
    BY DEF ServerReceive, tabVars, pingVars
<1>2. \/ m.t = "hello" /\ ServerHello(c, m)
      \/ /\ m.t = "ping" /\ toTab' = ToTab(c, Msg("pong", NoId))
         /\ UNCHANGED <<srv, owner, alive>>
      \/ m.t = "bye" /\ Leave(c) /\ UNCHANGED toTab
    BY DEF ServerReceive, srvVars
<1>3. CASE m.t = "hello" /\ ServerHello(c, m)
    BY <1>1, <1>3, HelloInvariant
<1>4. CASE /\ m.t = "ping" /\ toTab' = ToTab(c, Msg("pong", NoId))
           /\ UNCHANGED <<srv, owner, alive>>
    BY <1>1, <1>4, PingAnswered
<1>5. CASE m.t = "bye" /\ Leave(c) /\ UNCHANGED toTab
    <2>1. TypeOK /\ PongInv
        BY DEF TabInv
    <2>2. /\ toSrv' \in [Conns -> Seq(Messages)]
          /\ Count(toSrv[cur], "ping") = Count(toSrv'[cur'], "ping")
        BY <2>1, <1>1, <1>5, QueueFacts
    <2> QED
        BY <2>1, <2>2, <1>1, <1>5, LeaveInvariant DEF PongInv
<1> QED
    BY <1>2, <1>3, <1>4, <1>5

\* The server gives a connection up, with what was on its way to it.
LEMMA ServerDropsInvariant ==
    ASSUME TabInv, NEW c \in Conns, ServerDrops(c) PROVE TabInv'
<1>1. /\ Leave(c) /\ toSrv' = [toSrv EXCEPT ![c] = << >>]
      /\ UNCHANGED <<ws, cur, retry, closed, sid, stored, pongAge, due, waiting, late, link,
                     toTab>>
    BY DEF ServerDrops, tabVars, pingVars
<1>2. /\ TypeOK /\ PongInv /\ cur \in Conns /\ toSrv \in [Conns -> Seq(Messages)]
      /\ toSrv[cur] \in Seq(Messages) /\ toTab \in Seq(Messages)
    BY DEF TabInv, TypeOK
<1>3. toSrv' \in [Conns -> Seq(Messages)]
    BY <1>1, <1>2, EmptySeq
<1>4. PICK pings \in Nat, pongs \in Nat, n \in Nat :
          /\ Count(toSrv[cur], "ping") = pings /\ Count(toTab, "pong") = pongs
          /\ Len(waiting) = n
    BY <1>2, PositionsFinite, LenProperties DEF TypeOK
<1>5. PICK k \in {0, pings} : Count(toSrv'[cur'], "ping") = k
    <2>1. toSrv'[cur'] = IF c = cur THEN << >> ELSE toSrv[cur]
        BY <1>1, <1>2
    <2> QED
        BY <2>1, <1>4, CountEmpty
<1>6. ws = "open" => k + pongs <= n
    BY <1>2, <1>4, <1>5 DEF PongInv
<1> QED
    BY <1>1, <1>3, <1>4, <1>5, <1>6, LeaveInvariant

\* A session ends: its exit may overtake its welcome, but then it lives no more.
LEMMA SessionEndsInvariant ==
    ASSUME TabInv, NEW s \in Ids, SessionEnds(s) PROVE TabInv'
<1> DEFINE exit == Msg("exit", NoId)
           last == toTab[Len(toTab)]
           early == SubSeq(toTab, 1, Len(toTab) - 1) \o << exit, last >>
<1>1. /\ TypeOK /\ ConnectInv /\ PongInv /\ AgeInv /\ WelcomeInv
      /\ toTab \in Seq(Messages) /\ alive \subseteq Ids
    BY DEF TabInv, TypeOK
<1>2. /\ alive' = alive \ {s}
      /\ UNCHANGED <<ws, cur, retry, closed, sid, stored, pongAge, due, waiting, late, link>>
      /\ UNCHANGED <<srv, owner, toSrv>>
    BY DEF SessionEnds, tabVars, pingVars
<1>3. \/ (owner[cur] # s \/ ws # "open") /\ toTab' = toTab
      \/ owner[cur] = s /\ toTab' = Append(toTab, exit)
      \/ owner[cur] = s /\ Len(toTab) > 0 /\ last.t = "welcome" /\ toTab' = early
    BY DEF SessionEnds
<1>4. exit \in Messages /\ exit.t = "exit"
    BY MsgTypes
<1>5. toTab' \in Seq(Messages) /\ Count(toTab', "pong") = Count(toTab, "pong")
    <2>1. CASE toTab' = toTab
        BY <2>1, <1>1
    <2>2. CASE toTab' = Append(toTab, exit)
        BY <2>2, <1>1, <1>4, CountAppend
    <2>3. CASE Len(toTab) > 0 /\ last.t = "welcome" /\ toTab' = early
        <3>1. toTab # << >>
            BY <2>3, EmptySeq
        <3>2. toTab[Len(toTab)].t # "pong" /\ exit.t # "pong" /\ exit \in Messages
            BY <2>3, <1>4
        <3>3. toTab' = SubSeq(toTab, 1, Len(toTab) - 1) \o << exit, toTab[Len(toTab)] >>
            BY <2>3
        <3> HIDE DEF exit
        <3> QED
            BY <3>1, <3>2, <3>3, <1>1, CountInsert
    <2> QED
        BY <2>1, <2>2, <2>3, <1>3
<1>6. TypeOK'
    BY <1>1, <1>2, <1>5 DEF TypeOK
<1>7. ConnectInv' /\ AgeInv'
    BY <1>1, <1>2 DEF ConnectInv, AgeInv
<1>8. PongInv'
    BY <1>1, <1>2, <1>5, PongStep DEF PongInv
<1>9. WelcomeInv'
    <2> SUFFICES ASSUME ws = "open", srv[cur] = "attached", owner[cur] \in alive \ {s}
                 PROVE  WillStore(owner[cur], stored, toTab')
        BY <1>2, WelcomeStep
    <2>1. toTab' = toTab
        BY <1>3
    <2> QED
        BY <2>1, <1>1 DEF WelcomeInv
<1> QED
    BY <1>6, <1>7, <1>8, <1>9 DEF TabInv

-----------------------------------------------------------------------------
(* The theorems.                                                           *)

\* Every step preserves the invariant.
LEMMA NextInvariant ==
    ASSUME TabInv, [Next]_vars PROVE TabInv'
<1>1. CASE UNCHANGED vars
    BY <1>1, StutterInvariant
<1>2. CASE OnOpen
    BY <1>2, OnOpenInvariant
<1>3. CASE ConnectFails
    BY <1>3, ConnectFailsInvariant
<1>4. CASE SocketCloses
    BY <1>4, SocketClosesInvariant
<1>5. CASE RetryFires
    BY <1>5, RetryFiresInvariant
<1>6. CASE IntervalPasses
    BY <1>6, IntervalPassesInvariant
<1>7. CASE PingTimer
    BY <1>7, PingTimerInvariant
<1>8. CASE Receive
    BY <1>8, ReceiveInvariant
<1>9. CASE Close
    BY <1>9, CloseInvariant
<1>10. CASE Reload
    BY <1>10, ReloadInvariant
<1>11. CASE LinkChanges
    BY <1>11, LinkChangesInvariant
<1>12. ASSUME NEW c \in Conns, ServerReceive(c) PROVE TabInv'
    BY <1>12, ServerReceiveInvariant
<1>13. ASSUME NEW c \in Conns, ServerDrops(c) PROVE TabInv'
    BY <1>13, ServerDropsInvariant
<1>14. ASSUME NEW s \in Ids, SessionEnds(s) PROVE TabInv'
    BY <1>14, SessionEndsInvariant
<1> QED
    BY <1>1, <1>2, <1>3, <1>4, <1>5, <1>6, <1>7, <1>8, <1>9, <1>10, <1>11, <1>12, <1>13,
       <1>14
       DEF Next

\* The invariant holds of every reachable state of a tab and the server ends it talks to.
THEOREM TabInvariant == Spec => []TabInv
<1>1. Init => TabInv
    BY InitInvariant
<1>2. TabInv /\ [Next]_vars => TabInv'
    BY NextInvariant
<1> QED
    BY <1>1, <1>2, PTL DEF Spec

\* Every variable keeps its type; in particular the age of the last pong exceeds the
\* timeout by at most a period.
THEOREM TabTypes == Spec => []TypeOK
<1>1. TabInv => TypeOK
    BY DEF TabInv
<1> QED
    BY <1>1, TabInvariant, PTL

\* When nothing is on its way, what will be stored is stored.
LEMMA NothingOnItsWay ==
    ASSUME TabInv PROVE StoredIsCurrent
<1> SUFFICES ASSUME ws = "open", srv[cur] = "attached", toTab = << >>, owner[cur] \in alive
             PROVE  stored = owner[cur]
    BY DEF StoredIsCurrent
<1>1. WillStore(owner[cur], stored, << >>)
    BY DEF TabInv, WelcomeInv
<1>2. ~ \E i \in 1 .. Len(<< >>) : TRUE
    BY EmptySeq
<1> QED
    BY <1>1, <1>2 DEF WillStore

\* A tab that has read what was sent to it has stored the id of the session it is
\* attached to, so a reload resumes that session (connection.js, storeSession).
THEOREM StoredIdIsCurrent == Spec => []StoredIsCurrent
<1>1. TabInv => StoredIsCurrent
    BY NothingOnItsWay
<1> QED
    BY <1>1, TabInvariant, PTL

\* The callback closes a socket only when the timeout's periods have ended since the last
\* pong, and but for the first of them a ping has waited as long.
LEMMA CloseIsDue ==
    ASSUME TabInv, PingTimer, ws' = "closing", ws = "open"
    PROVE  late \/ (waiting # << >> /\ waiting[1] >= PongTimeout - 1)
<1> SUFFICES ASSUME ~late PROVE waiting # << >> /\ waiting[1] >= PongTimeout - 1
    OBVIOUS
<1>1. TypeOK /\ AgeInv
    BY DEF TabInv
<1>2. pongAge \in 0 .. PongTimeout + 1 /\ PongTimeout \in Nat \ {0, 1}
    BY <1>1, TabAssumption DEF TypeOK
<1>3. due /\ pongAge >= PongTimeout
    <2>1. ~Ping
        BY DEF Ping
    <2> QED
        BY <2>1 DEF PingTimer
<1>4. pongAge > 1
    BY <1>2, <1>3
<1>5. waiting # << >> /\ waiting[1] >= pongAge - 1
    BY <1>1, <1>3, <1>4 DEF AgeInv
<1>6. waiting[1] \in 0 .. PongTimeout
    <2>1. waiting \in Seq(0 .. PongTimeout)
        BY <1>1 DEF TypeOK
    <2>2. Len(waiting) \in Nat /\ Len(waiting) # 0
        BY <2>1, <1>5, LenProperties, EmptySeq
    <2>3. 1 \in 1 .. Len(waiting)
        BY <2>2
    <2> QED
        BY <2>1, <2>3, ElementOfSeq
<1> QED
    BY <1>2, <1>3, <1>5, <1>6

\* The keepalive never closes the socket of a server that answers within the timeout less
\* a period, unless the timer itself ran a period late (connection.js, the ping timer).
THEOREM ForcedClosesAreDue == Spec => ForcedCloseIsDue
<1>1. TabInv /\ [Next]_vars =>
          [PingTimer /\ ws' = "closing" /\ ws = "open" =>
              late \/ (waiting # << >> /\ waiting[1] >= PongTimeout - 1)]_vars
    BY CloseIsDue
<1> QED
    BY <1>1, TabInvariant, PTL DEF Spec, ForcedCloseIsDue
=============================================================================
