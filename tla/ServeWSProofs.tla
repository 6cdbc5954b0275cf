---------------------------- MODULE ServeWSProofs ----------------------------
(***************************************************************************)
(* Proofs about ServeWS, for any number of sessions, hellos and sizes.     *)
(***************************************************************************)
EXTENDS ServeWS, TLAPS

(***************************************************************************)
(* The inductive invariant.                                                *)
(***************************************************************************)

\* attach has published its session and not yet its detach.
Attaching == loop \in {"detachOld", "register", "publish"}

\* Sizes that reach a session have been validated.
SizeInv == ValidSize(helloSize) /\ ValidSize(asked)

\* The hello being handled has a session; its listener is the newest one, and
\* nothing happened to it before it is registered.
HelloInv ==
    /\ loop \in {"attach", "detachOld", "register", "publish", "resize"}
        => target \in Sessions /\ hellos \in Listeners
    /\ \A n \in Listeners : run[n] # "none" \/ reg[n] => n <= hellos
    /\ loop \in {"attach", "detachOld", "register"} => run[hellos] = "none" /\ ~reg[hellos] /\ detach # hellos
    /\ detach # None => detach <= hellos
    /\ loop = "publish" => owner[hellos] = target
    /\ loop # "detachOld" => old = None

\* Somebody is to detach a registered listener.
DutyInv ==
    \A n \in Listeners : reg[n] =>
        \/ detach = n
        \/ old = n
        \/ taken.detach = n
        \/ n = hellos /\ loop = "publish"

\* How curSess and detach belong together, also while attach is half done and
\* when a cleanup has emptied both.
SharedInv ==
    /\ Attaching => curSess = target \/ (curSess = None /\ detach = None)
    /\ Attaching /\ once = "unused" => curSess = target
    /\ ~Attaching /\ detach # None => curSess = owner[detach]
    /\ loop = "detachOld" => detach \in {old, None}
    /\ loop \in {"register", "publish"} /\ detach # None => ~reg[detach]

\* One cleanup runs; when it was a delivery's, what is published now was
\* attached by a later hello.
OnceInv ==
    /\ once = "unused" => taken.by = 0
    /\ once # "busy" => taken.detach = None /\ taken.sess = None
    /\ once # "unused" /\ taken.by = 0 => loop \in {"cleanup", "returned"} /\ detach = None
    /\ taken.by # 0 => run[taken.by] \in {"cleanup", "reported"}
    /\ taken.by # 0 /\ detach # None /\ ~Attaching => taken.by < detach
    /\ taken.by # 0 /\ Attaching /\ curSess = target => taken.by < hellos
    /\ loop = "returned" => once = "done"
    /\ \A n \in Listeners : run[n] = "reported" => once = "done"

\* Between a welcome and the cleanup the client is attached.
WelcomedInv ==
    once = "unused" =>
        /\ loop = "publish" => reg[hellos] \/ run[hellos] = "cleanup"
        /\ loop = "resize" =>
            /\ curSess = target /\ detach # None
            /\ reg[detach] \/ run[detach] = "cleanup"
        /\ loop \in {"read", "write", "cleanup"} /\ welcomed # None =>
            /\ curSess = welcomed /\ detach # None
            /\ reg[detach] \/ run[detach] = "cleanup"
            /\ ptySize[curSess] = asked

NoFailure == \A n \in Listeners : run[n] \notin {"failed", "cleanup", "reported"}

\* A session is held by a listener; a cleanup that no failure provoked has the
\* session that was welcomed, and marks it.
CloseInv ==
    /\ \A s \in Sessions : idle[s] = "held" => Registered(s) # {}
    /\ NoFailure /\ welcomed # None =>
        /\ once = "busy" => taken.sess = welcomed
        /\ once = "done" /\ clean => idle[welcomed] = "closed"

ServeInv ==
    /\ TypeOK
    /\ SizeInv
    /\ HelloInv
    /\ DutyInv
    /\ SharedInv
    /\ OnceInv
    /\ WelcomedInv
    /\ CloseInv

-----------------------------------------------------------------------------
(* Lemmas.                                                                 *)

\* A size that was validated is not truncated.
LEMMA TruncatedSize ==
    ASSUME NEW size \in Nat \X Nat, ValidSize(size)
    PROVE  Truncated(size) = size /\ Truncated(size) \in (2 .. 1000) \X (1 .. 1000)
<1>1. size = <<size[1], size[2]>> /\ size[1] \in 2 .. 1000 /\ size[2] \in 1 .. 1000
    BY DEF ValidSize
<1>2. Uint16(size[1]) = size[1] /\ Uint16(size[2]) = size[2]
    <2>1. \A n \in 0 .. 1000 : Uint16(n) = n
        BY DEF Uint16
    <2>2. size[1] \in 0 .. 1000 /\ size[2] \in 0 .. 1000
        BY <1>1
    <2> QED
        BY <2>1, <2>2
<1>3. Truncated(size) = <<size[1], size[2]>>
    BY <1>2 DEF Truncated
<1>4. <<size[1], size[2]>> \in (2 .. 1000) \X (1 .. 1000)
    BY <1>1
<1> QED
    BY <1>1, <1>3, <1>4

\* What removeListener does.
LEMMA RemovedEffect ==
    ASSUME TypeOK, NEW n \in Listeners, Removed(n)
    PROVE  /\ reg' \in [Listeners -> BOOLEAN]
           /\ \A m \in Listeners : reg'[m] => reg[m] /\ m # n
           /\ \A m \in Listeners : m # n => reg'[m] = reg[m]
           /\ idle' \in [Sessions -> {"held", "idle", "closed"}]
           /\ \A s \in Sessions : idle'[s] # idle[s] => idle'[s] = "idle"
           /\ owner[n] \in Sessions /\ Registered(owner[n]) \ {n} = {} => idle'[owner[n]] = "idle"
<1>1. reg' = [reg EXCEPT ![n] = FALSE]
    BY DEF Removed
<1>2. \/ idle' = [idle EXCEPT ![owner[n]] = "idle"]
      \/ idle' = idle /\ Registered(owner[n]) \ {n} # {}
    BY DEF Removed
<1>3. reg \in [Listeners -> BOOLEAN] /\ idle \in [Sessions -> {"held", "idle", "closed"}]
    BY DEF TypeOK
<1> QED
    BY <1>1, <1>2, <1>3

\* removeListener keeps held sessions with their listeners.
LEMMA RemovedHeld ==
    ASSUME TypeOK, NEW n \in Listeners, Removed(n), owner' = owner,
           \A s \in Sessions : idle[s] = "held" => Registered(s) # {}
    PROVE  \A s \in Sessions : idle'[s] = "held" => Registered(s)' # {}
<1> SUFFICES ASSUME NEW s \in Sessions, idle'[s] = "held"
             PROVE  Registered(s)' # {}
    OBVIOUS
<1>1. idle[s] = "held" /\ ~(s = owner[n] /\ Registered(s) \ {n} = {})
    BY RemovedEffect
<1>2. PICK m \in Registered(s) : m # n
    BY <1>1 DEF Registered
<1>3. m \in Registered(s)'
    BY <1>2, RemovedEffect DEF Registered
<1> QED
    BY <1>3

\* What a detach does to the deliveries: one that runs is stopped.
LEMMA DetachedEffect ==
    ASSUME TypeOK, NEW n \in Listeners, Detached(n)
    PROVE  /\ Removed(n) /\ UNCHANGED <<owner, alive>>
           /\ run' \in [Listeners -> {"none", "running", "stopped", "failed", "cleanup", "reported", "done"}]
           /\ \A m \in Listeners : run'[m] # run[m] => run[m] = "running" /\ run'[m] = "stopped"
BY DEF TypeOK, Detached

\* A detach does not undo a failure.
LEMMA DetachedFailures ==
    ASSUME TypeOK, NEW n \in Listeners, Detached(n), NoFailure'
    PROVE  NoFailure
BY DetachedEffect DEF NoFailure

\* Without a failure the read loop is the only one that can clean up.
LEMMA NoFailureCleanup ==
    ASSUME TypeOK, OnceInv, NoFailure
    PROVE  taken.by = 0 /\ (loop \notin {"cleanup", "returned"} => once = "unused")
<1>1. taken.by \in {0} \union Listeners
    BY DEF TypeOK
<1> QED
    BY <1>1 DEF OnceInv, NoFailure

-----------------------------------------------------------------------------
(* Every action preserves the invariant.                                   *)

\* A hello finds or starts its session.
LEMMA HelloStep ==
    ASSUME ServeInv, NEW s \in Sessions, NEW size \in Sizes, Hello(s, size)
    PROVE  ServeInv'
<1>1. TypeOK /\ SizeInv /\ HelloInv /\ DutyInv /\ SharedInv /\ OnceInv /\ WelcomedInv /\ CloseInv
    BY DEF ServeInv
<1>2. TypeOK'
    <2>1. size \in Nat \X Nat /\ ValidSize(size)
        BY SizesAssumption DEF Hello
    <2>2. Truncated(size) \in (2 .. 1000) \X (1 .. 1000)
        BY <2>1, TruncatedSize
    <2>3. hellos' \in 0 .. MaxHellos
        BY <1>1, MaxHellosAssumption DEF Hello, TypeOK
    <2>4. ptySize' \in [Sessions -> (2 .. 1000) \X (1 .. 1000)]
        <3>1. ptySize' = ptySize \/ ptySize' = [ptySize EXCEPT ![s] = Truncated(size)]
            BY DEF Hello
        <3>2. ptySize \in [Sessions -> (2 .. 1000) \X (1 .. 1000)]
            BY <1>1 DEF TypeOK
        <3> QED
            BY <2>2, <3>1, <3>2
    <2>5. alive' \in [Sessions -> {"none", "alive", "exited"}]
        BY <1>1 DEF Hello, TypeOK
    <2>6. loop' = "attach" /\ target' = s /\ helloSize' = size
        BY DEF Hello
    <2>7. UNCHANGED <<old, clean, curSess, detach, once, taken, conn, peer, reg, run, owner, idle, asked, welcomed>>
        BY DEF Hello, sharedVars, connVars
    <2> QED
        BY <1>1, <2>1, <2>3, <2>4, <2>5, <2>6, <2>7 DEF TypeOK
<1>3. HelloInv'
    BY <1>1, MaxHellosAssumption, NoneAssumption
       DEF Hello, Reading, loopVars, sharedVars, TypeOK, HelloInv, Listeners
<1>4. DutyInv'
    BY <1>1 DEF Hello, Reading, loopVars, sharedVars, DutyInv
<1>5. SharedInv'
    BY <1>1 DEF Hello, Reading, loopVars, sharedVars, SharedInv, Attaching
<1>6. OnceInv'
    BY <1>1 DEF Hello, Reading, loopVars, sharedVars, OnceInv, Attaching
<1>7. WelcomedInv'
    BY <1>1 DEF Hello, loopVars, sharedVars, sizeVars, WelcomedInv
<1>8. CloseInv'
    BY <1>1 DEF Hello, loopVars, sharedVars, sizeVars, CloseInv, NoFailure, Registered
<1>9. SizeInv'
    BY <1>1 DEF Hello, loopVars, sizeVars, SizeInv
<1> QED
    BY <1>2, <1>3, <1>4, <1>5, <1>6, <1>7, <1>8, <1>9 DEF ServeInv

\* A hello whose session cannot be started attaches nothing and detaches nothing.
LEMMA HelloRefusedStep ==
    ASSUME ServeInv, HelloRefused
    PROVE  ServeInv'
<1>1. TypeOK /\ SizeInv /\ HelloInv /\ DutyInv /\ SharedInv /\ OnceInv /\ WelcomedInv /\ CloseInv
    BY DEF ServeInv
<1>2. TypeOK'
    BY <1>1, MaxHellosAssumption
       DEF HelloRefused, sharedVars, connVars, sessionVars, sizeVars, TypeOK
<1>3. HelloInv'
    BY <1>1 DEF HelloRefused, Reading, sharedVars, sessionVars, TypeOK, HelloInv, Listeners
<1>4. DutyInv'
    BY <1>1 DEF HelloRefused, Reading, sharedVars, sessionVars, DutyInv
<1>5. SharedInv'
    BY <1>1 DEF HelloRefused, sharedVars, sessionVars, SharedInv, Attaching
<1>6. OnceInv'
    BY <1>1 DEF HelloRefused, Reading, sharedVars, sessionVars, OnceInv, Attaching
<1>7. WelcomedInv'
    BY <1>1 DEF HelloRefused, Reading, sharedVars, sessionVars, sizeVars, WelcomedInv
<1>8. SizeInv' /\ CloseInv'
    BY <1>1
       DEF HelloRefused, sizeVars, SizeInv, sharedVars, sessionVars, CloseInv, NoFailure, Registered
<1> QED
    BY <1>2, <1>3, <1>4, <1>5, <1>6, <1>7, <1>8 DEF ServeInv

\* attach publishes its session and remembers the old detach.
LEMMA AttachSwapStep ==
    ASSUME ServeInv, AttachSwap
    PROVE  ServeInv'
<1>1. TypeOK /\ SizeInv /\ HelloInv /\ DutyInv /\ SharedInv /\ OnceInv /\ WelcomedInv /\ CloseInv
    BY DEF ServeInv
<1>2. TypeOK'
    BY <1>1 DEF AttachSwap, connVars, sessionVars, sizeVars, TypeOK
<1>3. HelloInv'
    BY <1>1 DEF AttachSwap, sessionVars, HelloInv
<1>4. DutyInv'
    <2>1. /\ old = None /\ loop = "attach"
          /\ UNCHANGED <<detach, taken, reg>>
        BY <1>1 DEF AttachSwap, HelloInv, sessionVars
    <2>2. \A n \in Listeners : n # None
        BY NoneAssumption DEF Listeners
    <2> QED
        BY <1>1, <2>1, <2>2 DEF DutyInv
<1>5. SharedInv'
    BY <1>1 DEF AttachSwap, sessionVars, SharedInv, Attaching
<1>6. OnceInv'
    <2>1. /\ loop = "attach" /\ loop' = "detachOld" /\ curSess' = target
          /\ UNCHANGED <<hellos, target, detach, once, taken, reg, run>>
        BY DEF AttachSwap, sessionVars
    <2>2. taken.by # 0 => taken.by \in Listeners /\ taken.by < hellos
        <3>1. taken.by \in {0} \union Listeners
            BY <1>1 DEF TypeOK
        <3> QED
            BY <1>1, <2>1, <3>1, MaxHellosAssumption DEF OnceInv, HelloInv, Listeners
    <2> QED
        BY <1>1, <2>1, <2>2 DEF OnceInv, Attaching
<1>7. WelcomedInv'
    BY <1>1 DEF AttachSwap, sessionVars, sizeVars, WelcomedInv
<1>8. SizeInv' /\ CloseInv'
    BY <1>1 DEF AttachSwap, sizeVars, SizeInv, sessionVars, CloseInv, NoFailure, Registered
<1> QED
    BY <1>2, <1>3, <1>4, <1>5, <1>6, <1>7, <1>8 DEF ServeInv

\* attach leaves the old session.
LEMMA AttachLeaveOldStep ==
    ASSUME ServeInv, AttachLeaveOld
    PROVE  ServeInv'
<1>1. TypeOK /\ SizeInv /\ HelloInv /\ DutyInv /\ SharedInv /\ OnceInv /\ WelcomedInv /\ CloseInv
    BY DEF ServeInv
<1>2. TypeOK'
    <2>1. loop' = "register" /\ old' = None
          /\ UNCHANGED <<hellos, target, helloSize, clean, curSess, detach, once, taken, conn, peer, ptySize, asked, welcomed>>
        BY DEF AttachLeaveOld, sharedVars, connVars, sizeVars
    <2>2. CASE old = None
        <3>1. UNCHANGED <<reg, run, owner, alive, idle>>
            BY <2>1, <2>2 DEF AttachLeaveOld, sessionVars
        <3> QED
            BY <1>1, <2>1, <3>1 DEF TypeOK
    <2>3. CASE old # None
        <3>1. old \in Listeners /\ Detached(old)
            BY <1>1, <2>3 DEF AttachLeaveOld, TypeOK
        <3>2. Removed(old)
            BY <1>1, <3>1, DetachedEffect
        <3> QED
            BY <1>1, <2>1, <3>1, <3>2, DetachedEffect, RemovedEffect DEF TypeOK
    <2> QED
        BY <2>2, <2>3
<1>3. HelloInv'
    BY <1>1, MaxHellosAssumption
       DEF AttachLeaveOld, Detached, Removed, sharedVars, sessionVars, TypeOK, HelloInv
<1>4. DutyInv'
    BY <1>1, MaxHellosAssumption
       DEF AttachLeaveOld, Detached, Removed, loopVars, sharedVars, connVars, sessionVars, sizeVars, TypeOK, DutyInv, Listeners
<1>5. SharedInv'
    BY <1>1, MaxHellosAssumption
       DEF AttachLeaveOld, Detached, Removed, sharedVars, sessionVars, TypeOK, SharedInv, Attaching
<1>6. OnceInv'
    BY <1>1, MaxHellosAssumption
       DEF AttachLeaveOld, Detached, Removed, sharedVars, sessionVars, TypeOK, OnceInv, Attaching
<1>7. WelcomedInv'
    BY <1>1
       DEF AttachLeaveOld, Detached, Removed, sharedVars, sessionVars, sizeVars, WelcomedInv
<1>8. CloseInv'
    <2>1. loop = "detachOld" /\ UNCHANGED <<once, taken, clean, welcomed>>
        BY DEF AttachLeaveOld, sharedVars, sizeVars
    <2>2. CASE old = None
        BY <1>1, <2>1, <2>2 DEF AttachLeaveOld, sessionVars, CloseInv, NoFailure, Registered
    <2>3. CASE old # None
        <3>1. old \in Listeners /\ Detached(old)
            BY <1>1, <2>3 DEF AttachLeaveOld, TypeOK
        <3>2. Removed(old) /\ owner' = owner
            BY <1>1, <3>1, DetachedEffect
        <3>3. \A s \in Sessions : idle'[s] = "held" => Registered(s)' # {}
            BY <1>1, <3>2, <3>1, RemovedHeld DEF CloseInv
        <3>4. NoFailure' => once = "unused"
            BY <1>1, <2>1, <3>1, DetachedFailures, NoFailureCleanup
        <3> QED
            BY <2>1, <3>3, <3>4 DEF CloseInv
    <2> QED
        BY <2>2, <2>3
<1>9. SizeInv'
    BY <1>1 DEF AttachLeaveOld, Detached, Removed, sizeVars, SizeInv
<1> QED
    BY <1>2, <1>3, <1>4, <1>5, <1>6, <1>7, <1>8, <1>9 DEF ServeInv

\* attach registers the new listener.
LEMMA AttachRegisterStep ==
    ASSUME ServeInv, AttachRegister
    PROVE  ServeInv'
<1>1. TypeOK /\ SizeInv /\ HelloInv /\ DutyInv /\ SharedInv /\ OnceInv /\ WelcomedInv /\ CloseInv
    BY DEF ServeInv
<1>2. TypeOK'
    <2>1. /\ loop' = "publish"
          /\ reg' = [reg EXCEPT ![hellos] = TRUE]
          /\ owner' = [owner EXCEPT ![hellos] = target]
          /\ run' = [run EXCEPT ![hellos] = IF alive[target] = "alive" THEN "running" ELSE @]
          /\ idle' = [idle EXCEPT ![target] = "held"]
          /\ UNCHANGED <<hellos, target, helloSize, old, clean, curSess, detach, once, taken, conn, peer, alive, ptySize, asked, welcomed>>
        BY DEF AttachRegister, sharedVars, connVars, sizeVars
    <2>2. target \in Sessions /\ hellos \in Listeners
        BY <1>1 DEF AttachRegister, HelloInv
    <2>3. /\ reg' \in [Listeners -> BOOLEAN] /\ owner' \in [Listeners -> Sessions \union {None}]
          /\ idle' \in [Sessions -> {"held", "idle", "closed"}]
        BY <1>1, <2>1, <2>2 DEF TypeOK
    <2>4. /\ run' \in [Listeners -> {"none", "running", "stopped", "failed", "cleanup", "reported", "done"}]
          /\ \A n \in Listeners : n # hellos => run'[n] = run[n] /\ reg'[n] = reg[n] /\ owner'[n] = owner[n]
        BY <1>1, <2>1, <2>2 DEF TypeOK
    <2>5. owner'[hellos] = target
        BY <1>1, <2>1, <2>2 DEF TypeOK
    <2>6. \A n \in Listeners : run'[n] # "none" \/ reg'[n] => owner'[n] \in Sessions
        BY <1>1, <2>2, <2>4, <2>5 DEF TypeOK
    <2> QED
        BY <1>1, <2>1, <2>3, <2>4, <2>6 DEF TypeOK
<1>3. HelloInv'
    BY <1>1 DEF AttachRegister, sharedVars, TypeOK, HelloInv
<1>4. DutyInv'
    BY <1>1 DEF AttachRegister, sharedVars, DutyInv
<1>5. SharedInv'
    <2>1. /\ loop = "register" /\ loop' = "publish"
          /\ reg' = [reg EXCEPT ![hellos] = TRUE]
          /\ owner' = [owner EXCEPT ![hellos] = target]
          /\ run' = [run EXCEPT ![hellos] = IF alive[target] = "alive" THEN "running" ELSE @]
          /\ idle' = [idle EXCEPT ![target] = "held"]
          /\ UNCHANGED <<hellos, target, old, clean, curSess, detach, once, taken, welcomed, ptySize, asked>>
        BY DEF AttachRegister, sharedVars, connVars, sizeVars
    <2>2. target \in Sessions /\ hellos \in Listeners /\ run[hellos] = "none" /\ ~reg[hellos]
        BY <1>1, <2>1 DEF HelloInv
    <2>3. /\ reg'[hellos] /\ run'[hellos] \in {"none", "running"}
          /\ \A n \in Listeners : n # hellos => run'[n] = run[n] /\ reg'[n] = reg[n] /\ owner'[n] = owner[n]
        BY <1>1, <2>1, <2>2 DEF TypeOK

    <2>4. Attaching /\ Attaching'
        BY <2>1 DEF Attaching
    <2>5. detach # None => detach \in Listeners /\ detach # hellos /\ ~reg'[detach]
        BY <1>1, <2>1, <2>2, <2>3 DEF SharedInv, HelloInv, TypeOK
    <2> QED
        BY <1>1, <2>1, <2>4, <2>5 DEF SharedInv
<1>6. OnceInv'
    <2>1. /\ loop = "register" /\ loop' = "publish"
          /\ reg' = [reg EXCEPT ![hellos] = TRUE]
          /\ owner' = [owner EXCEPT ![hellos] = target]
          /\ run' = [run EXCEPT ![hellos] = IF alive[target] = "alive" THEN "running" ELSE @]
          /\ idle' = [idle EXCEPT ![target] = "held"]
          /\ UNCHANGED <<hellos, target, old, clean, curSess, detach, once, taken, welcomed, ptySize, asked>>
        BY DEF AttachRegister, sharedVars, connVars, sizeVars
    <2>2. target \in Sessions /\ hellos \in Listeners /\ run[hellos] = "none" /\ ~reg[hellos]
        BY <1>1, <2>1 DEF HelloInv
    <2>3. /\ reg'[hellos] /\ run'[hellos] \in {"none", "running"}
          /\ \A n \in Listeners : n # hellos => run'[n] = run[n] /\ reg'[n] = reg[n] /\ owner'[n] = owner[n]
        BY <1>1, <2>1, <2>2 DEF TypeOK

    <2>4. Attaching /\ Attaching'
        BY <2>1 DEF Attaching
    <2>5. taken.by \in {0} \union Listeners /\ taken.by # hellos
        BY <1>1, <2>2, MaxHellosAssumption DEF OnceInv, TypeOK, Listeners
    <2>6. taken.by # 0 => run'[taken.by] = run[taken.by]
        BY <2>3, <2>5
    <2>7. \A n \in Listeners : run'[n] = "reported" => run[n] = "reported"
        BY <2>2, <2>3
    <2> QED
        BY <1>1, <2>1, <2>4, <2>6, <2>7 DEF OnceInv
<1>7. WelcomedInv'
    <2>1. /\ loop = "register" /\ loop' = "publish"
          /\ reg' = [reg EXCEPT ![hellos] = TRUE]
          /\ owner' = [owner EXCEPT ![hellos] = target]
          /\ run' = [run EXCEPT ![hellos] = IF alive[target] = "alive" THEN "running" ELSE @]
          /\ idle' = [idle EXCEPT ![target] = "held"]
          /\ UNCHANGED <<hellos, target, old, clean, curSess, detach, once, taken, welcomed, ptySize, asked>>
        BY DEF AttachRegister, sharedVars, connVars, sizeVars
    <2>2. target \in Sessions /\ hellos \in Listeners /\ run[hellos] = "none" /\ ~reg[hellos]
        BY <1>1, <2>1 DEF HelloInv
    <2>3. /\ reg'[hellos] /\ run'[hellos] \in {"none", "running"}
          /\ \A n \in Listeners : n # hellos => run'[n] = run[n] /\ reg'[n] = reg[n] /\ owner'[n] = owner[n]
        BY <1>1, <2>1, <2>2 DEF TypeOK

    <2> QED
        BY <2>1, <2>3 DEF WelcomedInv
<1>8. CloseInv'
    <2>1. /\ loop = "register" /\ loop' = "publish"
          /\ reg' = [reg EXCEPT ![hellos] = TRUE]
          /\ owner' = [owner EXCEPT ![hellos] = target]
          /\ run' = [run EXCEPT ![hellos] = IF alive[target] = "alive" THEN "running" ELSE @]
          /\ idle' = [idle EXCEPT ![target] = "held"]
          /\ UNCHANGED <<hellos, target, old, clean, curSess, detach, once, taken, welcomed, ptySize, asked>>
        BY DEF AttachRegister, sharedVars, connVars, sizeVars
    <2>2. target \in Sessions /\ hellos \in Listeners /\ run[hellos] = "none" /\ ~reg[hellos]
        BY <1>1, <2>1 DEF HelloInv
    <2>3. /\ reg'[hellos] /\ run'[hellos] \in {"none", "running"}
          /\ \A n \in Listeners : n # hellos => run'[n] = run[n] /\ reg'[n] = reg[n] /\ owner'[n] = owner[n]
        BY <1>1, <2>1, <2>2 DEF TypeOK

    <2>4. \A s \in Sessions : idle'[s] = "held" => Registered(s)' # {}
        <3> SUFFICES ASSUME NEW s \in Sessions, idle'[s] = "held"
                     PROVE  Registered(s)' # {}
            OBVIOUS
        <3>1. CASE s = target
            <4>1. owner'[hellos] = target
                BY <1>1, <2>1, <2>2 DEF TypeOK
            <4> QED
                BY <2>2, <2>3, <3>1, <4>1 DEF Registered
        <3>2. CASE s # target
            <4>1. idle[s] = "held"
                BY <1>1, <2>1, <3>2 DEF TypeOK
            <4>2. PICK n \in Listeners : reg[n] /\ owner[n] = s
                BY <1>1, <4>1 DEF CloseInv, Registered
            <4>3. reg'[n] /\ owner'[n] = s
                BY <2>2, <2>3, <4>2
            <4> QED
                BY <4>3 DEF Registered
        <3> QED
            BY <3>1, <3>2
    <2>5. NoFailure' => NoFailure
        BY <2>2, <2>3 DEF NoFailure
    <2>6. NoFailure => once = "unused"
        BY <1>1, <2>1, NoFailureCleanup
    <2> QED
        BY <2>1, <2>4, <2>5, <2>6 DEF CloseInv
<1>9. SizeInv'
    BY <1>1 DEF AttachRegister, sizeVars, SizeInv
<1> QED
    BY <1>2, <1>3, <1>4, <1>5, <1>6, <1>7, <1>8, <1>9 DEF ServeInv

\* attach publishes the detach, or detaches itself after a cleanup.
LEMMA AttachPublishStep ==
    ASSUME ServeInv, AttachPublish
    PROVE  ServeInv'
<1>1. TypeOK /\ SizeInv /\ HelloInv /\ DutyInv /\ SharedInv /\ OnceInv /\ WelcomedInv /\ CloseInv
    BY DEF ServeInv
<1>2. TypeOK'
    <2>1. /\ loop = "publish" /\ loop' = "resize" /\ PublishDetach
          /\ UNCHANGED <<hellos, target, helloSize, old, clean, curSess, once, taken, conn, peer, ptySize, asked, welcomed>>
        BY DEF AttachPublish, connVars, sizeVars
    <2>2. target \in Sessions /\ hellos \in Listeners /\ owner[hellos] = target /\ old = None
        BY <1>1, <2>1 DEF HelloInv
    <2>3. ~Attaching' /\ Attaching
        BY <2>1 DEF Attaching
    <2>4. CASE curSess = target
        <3>1. detach' = hellos /\ UNCHANGED <<reg, run, owner, alive, idle>>
            BY <2>1, <2>4 DEF PublishDetach, sessionVars
        <3> QED
            BY <1>1, <2>1, <2>2, <3>1 DEF TypeOK
    <2>5. CASE curSess # target
        <3>1. Detached(hellos) /\ detach' = detach
            BY <2>1, <2>5 DEF PublishDetach
        <3>2. Removed(hellos) /\ UNCHANGED <<owner, alive>>
            BY <1>1, <2>2, <3>1, DetachedEffect
        <3>3. curSess = None /\ detach = None /\ once # "unused"
            BY <1>1, <2>3, <2>5 DEF SharedInv
        <3> QED
            BY <1>1, <2>1, <2>2, <3>1, <3>2, DetachedEffect, RemovedEffect DEF TypeOK
    <2> QED
        BY <2>4, <2>5
<1>3. HelloInv'
    BY <1>1, MaxHellosAssumption
       DEF AttachPublish, PublishDetach, Detached, Removed, sessionVars, TypeOK, HelloInv
<1>4. DutyInv'
    <2>1. /\ loop = "publish" /\ loop' = "resize" /\ PublishDetach
          /\ UNCHANGED <<hellos, target, helloSize, old, clean, curSess, once, taken, conn, peer, ptySize, asked, welcomed>>
        BY DEF AttachPublish, connVars, sizeVars
    <2>2. target \in Sessions /\ hellos \in Listeners /\ owner[hellos] = target /\ old = None
        BY <1>1, <2>1 DEF HelloInv
    <2>3. ~Attaching' /\ Attaching
        BY <2>1 DEF Attaching
    <2>4. CASE curSess = target
        <3>1. detach' = hellos /\ UNCHANGED <<reg, run, owner, alive, idle>>
            BY <2>1, <2>4 DEF PublishDetach, sessionVars
        <3>2. \A n \in Listeners : reg[n] /\ n # hellos => taken.detach = n
            BY <1>1, <2>1, <2>2, NoneAssumption DEF DutyInv, SharedInv, Listeners
        <3> QED
            BY <2>1, <3>1, <3>2 DEF DutyInv
    <2>5. CASE curSess # target
        <3>1. Detached(hellos) /\ detach' = detach
            BY <2>1, <2>5 DEF PublishDetach
        <3>2. Removed(hellos) /\ UNCHANGED <<owner, alive>>
            BY <1>1, <2>2, <3>1, DetachedEffect
        <3>3. curSess = None /\ detach = None /\ once # "unused"
            BY <1>1, <2>3, <2>5 DEF SharedInv
        <3>4. \A n \in Listeners : reg'[n] => reg[n] /\ n # hellos
            BY <1>1, <2>2, <3>2, RemovedEffect
        <3> QED
            BY <1>1, <2>1, <3>1, <3>4 DEF DutyInv
    <2> QED
        BY <2>4, <2>5
<1>5. SharedInv'
    <2>1. /\ loop = "publish" /\ loop' = "resize" /\ PublishDetach
          /\ UNCHANGED <<hellos, target, helloSize, old, clean, curSess, once, taken, conn, peer, ptySize, asked, welcomed>>
        BY DEF AttachPublish, connVars, sizeVars
    <2>2. target \in Sessions /\ hellos \in Listeners /\ owner[hellos] = target /\ old = None
        BY <1>1, <2>1 DEF HelloInv
    <2>3. ~Attaching' /\ Attaching
        BY <2>1 DEF Attaching
    <2>4. CASE curSess = target
        <3>1. detach' = hellos /\ UNCHANGED <<reg, run, owner, alive, idle>>
            BY <2>1, <2>4 DEF PublishDetach, sessionVars
        <3> QED
            BY <2>1, <2>2, <2>3, <2>4, <3>1 DEF SharedInv
    <2>5. CASE curSess # target
        <3>1. Detached(hellos) /\ detach' = detach
            BY <2>1, <2>5 DEF PublishDetach
        <3>2. Removed(hellos) /\ UNCHANGED <<owner, alive>>
            BY <1>1, <2>2, <3>1, DetachedEffect
        <3>3. curSess = None /\ detach = None /\ once # "unused"
            BY <1>1, <2>3, <2>5 DEF SharedInv
        <3> QED
            BY <2>1, <2>3, <3>1, <3>3 DEF SharedInv
    <2> QED
        BY <2>4, <2>5
<1>6. OnceInv'
    <2>1. /\ loop = "publish" /\ loop' = "resize" /\ PublishDetach
          /\ UNCHANGED <<hellos, target, helloSize, old, clean, curSess, once, taken, conn, peer, ptySize, asked, welcomed>>
        BY DEF AttachPublish, connVars, sizeVars
    <2>2. target \in Sessions /\ hellos \in Listeners /\ owner[hellos] = target /\ old = None
        BY <1>1, <2>1 DEF HelloInv
    <2>3. ~Attaching' /\ Attaching
        BY <2>1 DEF Attaching
    <2>4. CASE curSess = target
        <3>1. detach' = hellos /\ UNCHANGED <<reg, run, owner, alive, idle>>
            BY <2>1, <2>4 DEF PublishDetach, sessionVars
        <3>2. once # "unused" => taken.by # 0
            BY <1>1, <2>1 DEF OnceInv
        <3> QED
            BY <1>1, <2>1, <2>3, <2>4, <3>1, <3>2 DEF OnceInv
    <2>5. CASE curSess # target
        <3>1. Detached(hellos) /\ detach' = detach
            BY <2>1, <2>5 DEF PublishDetach
        <3>2. Removed(hellos) /\ UNCHANGED <<owner, alive>>
            BY <1>1, <2>2, <3>1, DetachedEffect
        <3>3. curSess = None /\ detach = None /\ once # "unused"
            BY <1>1, <2>3, <2>5 DEF SharedInv
        <3>4. taken.by \in {0} \union Listeners
            BY <1>1 DEF TypeOK
        <3>5. \A n \in Listeners : run[n] \in {"cleanup", "reported"} <=> run'[n] \in {"cleanup", "reported"}
            BY <1>1, <2>2, <3>1, DetachedEffect
        <3>6. \A n \in Listeners : run'[n] = "reported" => run[n] = "reported"
            BY <1>1, <2>2, <3>1, DetachedEffect
        <3> QED
            BY <1>1, <2>1, <2>3, <3>1, <3>3, <3>4, <3>5, <3>6 DEF OnceInv
    <2> QED
        BY <2>4, <2>5
<1>7. WelcomedInv'
    <2>1. /\ loop = "publish" /\ loop' = "resize" /\ PublishDetach
          /\ UNCHANGED <<hellos, target, helloSize, old, clean, curSess, once, taken, conn, peer, ptySize, asked, welcomed>>
        BY DEF AttachPublish, connVars, sizeVars
    <2>2. target \in Sessions /\ hellos \in Listeners /\ owner[hellos] = target /\ old = None
        BY <1>1, <2>1 DEF HelloInv
    <2>3. ~Attaching' /\ Attaching
        BY <2>1 DEF Attaching
    <2>4. CASE curSess = target
        <3>1. detach' = hellos /\ UNCHANGED <<reg, run, owner, alive, idle>>
            BY <2>1, <2>4 DEF PublishDetach, sessionVars
        <3>2. hellos # None
            BY <2>2, NoneAssumption DEF Listeners
        <3> QED
            BY <1>1, <2>1, <2>4, <3>1, <3>2 DEF WelcomedInv
    <2>5. CASE curSess # target
        <3>1. Detached(hellos) /\ detach' = detach
            BY <2>1, <2>5 DEF PublishDetach
        <3>2. Removed(hellos) /\ UNCHANGED <<owner, alive>>
            BY <1>1, <2>2, <3>1, DetachedEffect
        <3>3. curSess = None /\ detach = None /\ once # "unused"
            BY <1>1, <2>3, <2>5 DEF SharedInv
        <3> QED
            BY <2>1, <3>3 DEF WelcomedInv
    <2> QED
        BY <2>4, <2>5
<1>8. CloseInv'
    <2>1. /\ loop = "publish" /\ loop' = "resize" /\ PublishDetach
          /\ UNCHANGED <<hellos, target, helloSize, old, clean, curSess, once, taken, conn, peer, ptySize, asked, welcomed>>
        BY DEF AttachPublish, connVars, sizeVars
    <2>2. target \in Sessions /\ hellos \in Listeners /\ owner[hellos] = target /\ old = None
        BY <1>1, <2>1 DEF HelloInv
    <2>3. ~Attaching' /\ Attaching
        BY <2>1 DEF Attaching
    <2>4. CASE curSess = target
        <3>1. detach' = hellos /\ UNCHANGED <<reg, run, owner, alive, idle>>
            BY <2>1, <2>4 DEF PublishDetach, sessionVars
        <3> QED
            BY <1>1, <2>1, <3>1 DEF CloseInv, NoFailure, Registered
    <2>5. CASE curSess # target
        <3>1. Detached(hellos) /\ detach' = detach
            BY <2>1, <2>5 DEF PublishDetach
        <3>2. Removed(hellos) /\ UNCHANGED <<owner, alive>>
            BY <1>1, <2>2, <3>1, DetachedEffect
        <3>3. curSess = None /\ detach = None /\ once # "unused"
            BY <1>1, <2>3, <2>5 DEF SharedInv
        <3>4. \A s \in Sessions : idle'[s] = "held" => Registered(s)' # {}
            BY <1>1, <2>2, <3>2, RemovedHeld DEF CloseInv
        <3>5. NoFailure' => FALSE
            BY <1>1, <2>1, <2>2, <3>1, <3>3, DetachedFailures, NoFailureCleanup
        <3> QED
            BY <3>4, <3>5 DEF CloseInv
    <2> QED
        BY <2>4, <2>5
<1>9. SizeInv'
    BY <1>1 DEF AttachPublish, PublishDetach, Detached, Removed, sizeVars, SizeInv
<1> QED
    BY <1>2, <1>3, <1>4, <1>5, <1>6, <1>7, <1>8, <1>9 DEF ServeInv

\* The welcome: the session is attached, or a cleanup has begun.
LEMMA HelloWelcomeStep ==
    ASSUME ServeInv, HelloWelcome
    PROVE  ServeInv'
<1>1. TypeOK /\ SizeInv /\ HelloInv /\ DutyInv /\ SharedInv /\ OnceInv /\ WelcomedInv /\ CloseInv
    BY DEF ServeInv
<1>2. TypeOK'
    <2>1. /\ loop = "resize" /\ loop' = "read" /\ target' = None
          /\ ptySize' = [ptySize EXCEPT ![target] = Truncated(helloSize)]
          /\ asked' = helloSize /\ welcomed' = target
          /\ UNCHANGED <<hellos, helloSize, old, clean, curSess, detach, once, taken, conn, peer, reg, run, owner, alive, idle>>
        BY DEF HelloWelcome, sharedVars, connVars, sessionVars
    <2>2. target \in Sessions /\ Truncated(helloSize) \in (2 .. 1000) \X (1 .. 1000)
        BY <1>1, <2>1, TruncatedSize DEF HelloInv, SizeInv, TypeOK
    <2> ptySize \in [Sessions -> (2 .. 1000) \X (1 .. 1000)]
        BY <1>1 DEF TypeOK
    <2>3. ptySize' \in [Sessions -> (2 .. 1000) \X (1 .. 1000)]
        BY <2>1, <2>2
    <2>4. asked' \in Nat \X Nat /\ target' \in Sessions \union {None} /\ welcomed' \in Sessions \union {None}
        BY <1>1, <2>1, <2>2 DEF TypeOK
    <2>5. /\ loop' = "read" /\ helloSize' \in Nat \X Nat
          /\ UNCHANGED <<hellos, old, clean, curSess, detach, once, taken, conn, peer, reg, run, owner, alive, idle>>
        BY <1>1, <2>1 DEF TypeOK
    <2> QED
        BY <1>1, <2>3, <2>4, <2>5 DEF TypeOK
<1>3. SizeInv'
    BY <1>1 DEF HelloWelcome, SizeInv
<1>4. HelloInv'
    BY <1>1 DEF HelloWelcome, sharedVars, sessionVars, HelloInv
<1>5. DutyInv'
    BY <1>1 DEF HelloWelcome, sharedVars, sessionVars, DutyInv
<1>6. SharedInv'
    BY <1>1 DEF HelloWelcome, sharedVars, sessionVars, SharedInv, Attaching
<1>7. OnceInv'
    BY <1>1 DEF HelloWelcome, sharedVars, sessionVars, OnceInv, Attaching
<1>8. WelcomedInv'
    <2>1. /\ loop = "resize" /\ loop' = "read"
          /\ ptySize' = [ptySize EXCEPT ![target] = Truncated(helloSize)]
          /\ asked' = helloSize /\ welcomed' = target
          /\ UNCHANGED <<hellos, curSess, detach, once, reg, run>>
        BY DEF HelloWelcome, sharedVars, sessionVars
    <2>2. target \in Sessions /\ Truncated(helloSize) = helloSize
        BY <1>1, <2>1, TruncatedSize DEF HelloInv, SizeInv, TypeOK
    <2>3. ptySize'[target] = asked'
        BY <1>1, <2>1, <2>2 DEF TypeOK
    <2> QED
        BY <1>1, <2>1, <2>3 DEF WelcomedInv
<1>9. CloseInv'
    <2>1. loop = "resize" /\ UNCHANGED <<once, taken, reg, run, owner, idle>>
        BY DEF HelloWelcome, sharedVars, sessionVars
    <2>2. NoFailure => once = "unused"
        BY <1>1, <2>1, NoFailureCleanup
    <2> QED
        BY <1>1, <2>1, <2>2 DEF CloseInv, NoFailure, Registered
<1> QED
    BY <1>2, <1>3, <1>4, <1>5, <1>6, <1>7, <1>8, <1>9 DEF ServeInv

\* A resize reaches the attached session.
LEMMA ResizeStep ==
    ASSUME ServeInv, NEW size \in Sizes, Resize(size)
    PROVE  ServeInv'
<1>1. TypeOK /\ SizeInv /\ HelloInv /\ DutyInv /\ SharedInv /\ OnceInv /\ WelcomedInv /\ CloseInv
    BY DEF ServeInv
<1>2. TypeOK'
    <2>1. /\ size \in Nat \X Nat /\ ValidSize(size)
          /\ UNCHANGED <<welcomed, loop, hellos, target, helloSize, old, clean, curSess, detach, once, taken, conn, peer, reg, run, owner, alive, idle>>
        BY SizesAssumption DEF Resize, loopVars, sharedVars, connVars, sessionVars
    <2>2. Truncated(size) \in (2 .. 1000) \X (1 .. 1000)
        BY <2>1, TruncatedSize
    <2>3. \/ UNCHANGED <<ptySize, asked>>
          \/ ptySize' = [ptySize EXCEPT ![curSess] = Truncated(size)] /\ asked' = size
        BY DEF Resize
    <2>4. ptySize' \in [Sessions -> (2 .. 1000) \X (1 .. 1000)] /\ asked' \in Nat \X Nat
        <3>1. ptySize \in [Sessions -> (2 .. 1000) \X (1 .. 1000)] /\ asked \in Nat \X Nat
            BY <1>1 DEF TypeOK
        <3> QED
            BY <2>1, <2>2, <2>3, <3>1
    <2> QED
        BY <1>1, <2>1, <2>4 DEF TypeOK
<1>3. HelloInv'
    BY <1>1 DEF Resize, loopVars, sharedVars, connVars, sessionVars, sizeVars, HelloInv
<1>4. DutyInv'
    BY <1>1 DEF Resize, loopVars, sharedVars, connVars, sessionVars, sizeVars, DutyInv
<1>5. SharedInv'
    BY <1>1
       DEF Resize, loopVars, sharedVars, connVars, sessionVars, sizeVars, SharedInv, Attaching
<1>6. OnceInv'
    BY <1>1
       DEF Resize, loopVars, sharedVars, connVars, sessionVars, sizeVars, OnceInv, Attaching
<1>7. WelcomedInv'
    <2>1. UNCHANGED <<welcomed, loop, hellos, target, curSess, detach, once, reg, run>>
        BY DEF Resize, loopVars, sharedVars, sessionVars
    <2>2. CASE curSess = None
        <3>1. UNCHANGED <<ptySize, asked>>
            BY <2>2 DEF Resize
        <3> QED
            BY <1>1, <2>1, <3>1 DEF WelcomedInv
    <2>3. CASE curSess # None
        <3>1. ptySize' = [ptySize EXCEPT ![curSess] = Truncated(size)] /\ asked' = size
            BY <2>3 DEF Resize
        <3>2. curSess \in Sessions /\ Truncated(size) = size
            BY <1>1, <2>3, TruncatedSize, SizesAssumption DEF Resize, TypeOK
        <3>3. ptySize'[curSess] = asked'
            BY <1>1, <3>1, <3>2 DEF TypeOK
        <3> QED
            BY <1>1, <2>1, <3>3 DEF WelcomedInv
    <2> QED
        BY <2>2, <2>3
<1>8. CloseInv'
    BY <1>1
       DEF Resize, loopVars, sharedVars, connVars, sessionVars, sizeVars, CloseInv, NoFailure, Registered
<1>9. SizeInv'
    BY <1>1 DEF Resize, loopVars, sizeVars, SizeInv
<1> QED
    BY <1>2, <1>3, <1>4, <1>5, <1>6, <1>7, <1>8, <1>9 DEF ServeInv

\* Input starts a write.
LEMMA InputStep ==
    ASSUME ServeInv, Input
    PROVE  ServeInv'
<1>1. TypeOK /\ SizeInv /\ HelloInv /\ DutyInv /\ SharedInv /\ OnceInv /\ WelcomedInv /\ CloseInv
    BY DEF ServeInv
<1>2. TypeOK'
    BY <1>1 DEF Input, sharedVars, connVars, sessionVars, sizeVars, TypeOK
<1>3. HelloInv'
    BY <1>1 DEF Input, Reading, sharedVars, sessionVars, HelloInv
<1>4. DutyInv'
    BY <1>1 DEF Input, Reading, sharedVars, sessionVars, DutyInv
<1>5. SharedInv'
    BY <1>1 DEF Input, Reading, sharedVars, sessionVars, SharedInv, Attaching
<1>6. OnceInv'
    BY <1>1 DEF Input, Reading, sharedVars, sessionVars, OnceInv, Attaching
<1>7. WelcomedInv'
    BY <1>1 DEF Input, Reading, sharedVars, sessionVars, sizeVars, WelcomedInv
<1>8. SizeInv' /\ CloseInv'
    BY <1>1
       DEF Input, sizeVars, SizeInv, sharedVars, sessionVars, CloseInv, NoFailure, Registered
<1> QED
    BY <1>2, <1>3, <1>4, <1>5, <1>6, <1>7, <1>8 DEF ServeInv

\* A write ends.
LEMMA WriteReturnsStep ==
    ASSUME ServeInv, WriteReturns
    PROVE  ServeInv'
<1>1. TypeOK /\ SizeInv /\ HelloInv /\ DutyInv /\ SharedInv /\ OnceInv /\ WelcomedInv /\ CloseInv
    BY DEF ServeInv
<1>2. TypeOK'
    BY <1>1 DEF WriteReturns, sharedVars, connVars, sessionVars, sizeVars, TypeOK
<1>3. HelloInv'
    BY <1>1 DEF WriteReturns, sharedVars, sessionVars, HelloInv
<1>4. DutyInv'
    BY <1>1 DEF WriteReturns, sharedVars, sessionVars, DutyInv
<1>5. SharedInv'
    BY <1>1 DEF WriteReturns, sharedVars, sessionVars, SharedInv, Attaching
<1>6. OnceInv'
    BY <1>1 DEF WriteReturns, sharedVars, sessionVars, OnceInv, Attaching
<1>7. WelcomedInv'
    BY <1>1 DEF WriteReturns, sharedVars, sessionVars, sizeVars, WelcomedInv
<1>8. SizeInv' /\ CloseInv'
    BY <1>1
       DEF WriteReturns, sizeVars, SizeInv, sharedVars, sessionVars, CloseInv, NoFailure, Registered
<1> QED
    BY <1>2, <1>3, <1>4, <1>5, <1>6, <1>7, <1>8 DEF ServeInv

\* A message that does not parse closes the connection.
LEMMA BadMessageStep ==
    ASSUME ServeInv, BadMessage
    PROVE  ServeInv'
<1>1. TypeOK /\ SizeInv /\ HelloInv /\ DutyInv /\ SharedInv /\ OnceInv /\ WelcomedInv /\ CloseInv
    BY DEF ServeInv
<1>2. TypeOK'
    BY <1>1 DEF BadMessage, sharedVars, sessionVars, sizeVars, TypeOK
<1>3. HelloInv'
    BY <1>1 DEF BadMessage, Reading, sharedVars, sessionVars, HelloInv
<1>4. DutyInv'
    BY <1>1 DEF BadMessage, Reading, sharedVars, sessionVars, DutyInv
<1>5. SharedInv'
    BY <1>1 DEF BadMessage, Reading, sharedVars, sessionVars, SharedInv, Attaching
<1>6. OnceInv'
    BY <1>1 DEF BadMessage, Reading, sharedVars, sessionVars, OnceInv, Attaching
<1>7. WelcomedInv'
    BY <1>1 DEF BadMessage, Reading, sharedVars, sessionVars, sizeVars, WelcomedInv
<1>8. SizeInv' /\ CloseInv'
    BY <1>1
       DEF BadMessage, sizeVars, SizeInv, sharedVars, sessionVars, CloseInv, NoFailure, Registered
<1> QED
    BY <1>2, <1>3, <1>4, <1>5, <1>6, <1>7, <1>8 DEF ServeInv

\* A failed read ends the loop.
LEMMA ReadErrorStep ==
    ASSUME ServeInv, ReadError
    PROVE  ServeInv'
<1>1. TypeOK /\ SizeInv /\ HelloInv /\ DutyInv /\ SharedInv /\ OnceInv /\ WelcomedInv /\ CloseInv
    BY DEF ServeInv
<1>2. TypeOK'
    <2>1. clean' \in BOOLEAN
        BY DEF ReadError
    <2> QED
        BY <1>1, <2>1 DEF ReadError, sharedVars, connVars, sessionVars, sizeVars, TypeOK
<1>3. HelloInv'
    BY <1>1 DEF ReadError, sharedVars, sessionVars, HelloInv
<1>4. DutyInv'
    BY <1>1 DEF ReadError, sharedVars, sessionVars, DutyInv
<1>5. SharedInv'
    BY <1>1 DEF ReadError, sharedVars, sessionVars, SharedInv, Attaching
<1>6. OnceInv'
    BY <1>1 DEF ReadError, sharedVars, sessionVars, OnceInv, Attaching
<1>7. WelcomedInv'
    BY <1>1 DEF ReadError, sharedVars, sessionVars, sizeVars, WelcomedInv
<1>8. CloseInv'
    <2>1. loop = "read" /\ UNCHANGED <<once, taken, reg, run, owner, idle, welcomed>>
        BY DEF ReadError, sharedVars, sessionVars, sizeVars
    <2>2. NoFailure => once = "unused"
        BY <1>1, <2>1, NoFailureCleanup
    <2> QED
        BY <1>1, <2>1, <2>2 DEF CloseInv, NoFailure, Registered
<1>9. SizeInv'
    BY <1>1 DEF ReadError, sizeVars, SizeInv
<1> QED
    BY <1>2, <1>3, <1>4, <1>5, <1>6, <1>7, <1>8, <1>9 DEF ServeInv

\* The read loop returns once a cleanup is done.
LEMMA LoopReturnsStep ==
    ASSUME ServeInv, LoopReturns
    PROVE  ServeInv'
<1>1. TypeOK /\ SizeInv /\ HelloInv /\ DutyInv /\ SharedInv /\ OnceInv /\ WelcomedInv /\ CloseInv
    BY DEF ServeInv
<1>2. TypeOK'
    BY <1>1 DEF LoopReturns, sharedVars, sessionVars, sizeVars, TypeOK
<1>3. HelloInv'
    BY <1>1 DEF LoopReturns, sharedVars, sessionVars, HelloInv
<1>4. DutyInv'
    BY <1>1 DEF LoopReturns, sharedVars, sessionVars, DutyInv
<1>5. SharedInv'
    BY <1>1 DEF LoopReturns, sharedVars, sessionVars, SharedInv, Attaching
<1>6. OnceInv'
    BY <1>1 DEF LoopReturns, sharedVars, sessionVars, OnceInv, Attaching
<1>7. WelcomedInv'
    BY <1>1 DEF LoopReturns, sharedVars, sessionVars, sizeVars, WelcomedInv
<1>8. SizeInv' /\ CloseInv'
    BY <1>1
       DEF LoopReturns, sizeVars, SizeInv, sharedVars, sessionVars, CloseInv, NoFailure, Registered
<1> QED
    BY <1>2, <1>3, <1>4, <1>5, <1>6, <1>7, <1>8 DEF ServeInv

\* A cleanup takes what is attached.
LEMMA CleanupTakeStep ==
    ASSUME ServeInv, NEW a \in {0} \union Listeners, CleanupTake(a)
    PROVE  ServeInv'
<1>1. TypeOK /\ SizeInv /\ HelloInv /\ DutyInv /\ SharedInv /\ OnceInv /\ WelcomedInv /\ CloseInv
    BY DEF ServeInv
<1>2. TypeOK'
    <2>1. /\ AtCleanup(a) /\ once = "unused" /\ once' = "busy"
          /\ taken' = [by |-> a, sess |-> curSess, detach |-> detach]
          /\ curSess' = None /\ detach' = None
          /\ UNCHANGED <<loop, hellos, target, helloSize, old, clean, conn, peer, reg, run, owner, alive, idle, ptySize, asked, welcomed>>
        BY DEF CleanupTake, loopVars, connVars, sessionVars, sizeVars
    <2>2. taken'.by = a /\ taken'.sess = curSess /\ taken'.detach = detach
        BY <2>1

    <2> QED
        BY <1>1, <2>1 DEF TypeOK
<1>3. HelloInv'
    BY <1>1, NoneAssumption
       DEF CleanupTake, loopVars, sharedVars, connVars, sessionVars, sizeVars, HelloInv, Listeners
<1>4. DutyInv'
    <2>1. /\ AtCleanup(a) /\ once = "unused" /\ once' = "busy"
          /\ taken' = [by |-> a, sess |-> curSess, detach |-> detach]
          /\ curSess' = None /\ detach' = None
          /\ UNCHANGED <<loop, hellos, target, helloSize, old, clean, conn, peer, reg, run, owner, alive, idle, ptySize, asked, welcomed>>
        BY DEF CleanupTake, loopVars, connVars, sessionVars, sizeVars
    <2>2. taken'.by = a /\ taken'.sess = curSess /\ taken'.detach = detach
        BY <2>1

    <2>3. taken.detach = None
        BY <1>1, <2>1 DEF OnceInv
    <2> QED
        BY <1>1, <2>1, <2>2, <2>3, NoneAssumption DEF DutyInv, Listeners
<1>5. SharedInv'
    BY <1>1 DEF CleanupTake, loopVars, sharedVars, SharedInv
<1>6. OnceInv'
    <2>1. /\ AtCleanup(a) /\ once = "unused" /\ once' = "busy"
          /\ taken' = [by |-> a, sess |-> curSess, detach |-> detach]
          /\ curSess' = None /\ detach' = None
          /\ UNCHANGED <<loop, hellos, target, helloSize, old, clean, conn, peer, reg, run, owner, alive, idle, ptySize, asked, welcomed>>
        BY DEF CleanupTake, loopVars, connVars, sessionVars, sizeVars
    <2>2. taken'.by = a /\ taken'.sess = curSess /\ taken'.detach = detach
        BY <2>1

    <2>3. a = 0 => loop = "cleanup"
        BY <2>1 DEF AtCleanup
    <2>4. a # 0 => run[a] = "cleanup"
        BY <2>1 DEF AtCleanup
    <2>5. ~(Attaching' /\ curSess' = target')
        BY <1>1, <2>1, NoneAssumption DEF Attaching, HelloInv
    <2>6. loop' # "returned" /\ \A n \in Listeners : run'[n] # "reported"
        BY <1>1, <2>1 DEF OnceInv
    <2> QED
        BY <2>1, <2>2, <2>3, <2>4, <2>5, <2>6 DEF OnceInv
<1>7. WelcomedInv'
    BY <1>1 DEF CleanupTake, loopVars, sharedVars, sizeVars, WelcomedInv
<1>8. CloseInv'
    <2>1. /\ AtCleanup(a) /\ once = "unused" /\ once' = "busy"
          /\ taken' = [by |-> a, sess |-> curSess, detach |-> detach]
          /\ curSess' = None /\ detach' = None
          /\ UNCHANGED <<loop, hellos, target, helloSize, old, clean, conn, peer, reg, run, owner, alive, idle, ptySize, asked, welcomed>>
        BY DEF CleanupTake, loopVars, connVars, sessionVars, sizeVars
    <2>2. taken'.by = a /\ taken'.sess = curSess /\ taken'.detach = detach
        BY <2>1

    <2>3. NoFailure' => NoFailure /\ loop = "cleanup"
        BY <2>1 DEF NoFailure, AtCleanup
    <2>4. NoFailure' /\ welcomed # None => curSess = welcomed
        BY <1>1, <2>1, <2>3 DEF WelcomedInv
    <2> QED
        BY <1>1, <2>1, <2>2, <2>4 DEF CloseInv, Registered
<1>9. SizeInv'
    BY <1>1 DEF CleanupTake, loopVars, sizeVars, SizeInv
<1> QED
    BY <1>2, <1>3, <1>4, <1>5, <1>6, <1>7, <1>8, <1>9 DEF ServeInv

\* A cleanup detaches what it took.
LEMMA CleanupDetachStep ==
    ASSUME ServeInv, NEW a \in {0} \union Listeners, CleanupDetach(a)
    PROVE  ServeInv'
<1>1. TypeOK /\ SizeInv /\ HelloInv /\ DutyInv /\ SharedInv /\ OnceInv /\ WelcomedInv /\ CloseInv
    BY DEF ServeInv
<1>2. TypeOK'
    <2>1. /\ once = "busy" /\ taken.detach \in Listeners /\ Detached(taken.detach)
          /\ taken' = [taken EXCEPT !.detach = None]
          /\ UNCHANGED <<loop, hellos, target, helloSize, old, clean, curSess, detach, once, conn, peer, ptySize, asked, welcomed>>
        BY <1>1 DEF CleanupDetach, loopVars, connVars, sizeVars, TypeOK
    <2>2. Removed(taken.detach) /\ UNCHANGED <<owner, alive>>
        BY <1>1, <2>1, DetachedEffect
    <2>3. taken' \in [by : {0} \union Listeners, sess : Sessions \union {None}, detach : Listeners \union {None}]
        <3>1. taken \in [by : {0} \union Listeners, sess : Sessions \union {None}, detach : Listeners \union {None}]
            BY <1>1 DEF TypeOK
        <3> QED
            BY <2>1, <3>1
    <2>4. /\ reg' \in [Listeners -> BOOLEAN] /\ \A n \in Listeners : reg'[n] => reg[n]
          /\ idle' \in [Sessions -> {"held", "idle", "closed"}]
        BY <1>1, <2>1, <2>2, RemovedEffect
    <2>5. /\ run' \in [Listeners -> {"none", "running", "stopped", "failed", "cleanup", "reported", "done"}]
          /\ \A n \in Listeners : run'[n] # "none" => run[n] # "none"
        BY <1>1, <2>1, DetachedEffect
    <2>6. \A n \in Listeners : run'[n] # "none" \/ reg'[n] => owner'[n] \in Sessions
        BY <1>1, <2>2, <2>4, <2>5 DEF TypeOK
    <2> QED
        BY <1>1, <2>1, <2>2, <2>3, <2>4, <2>5, <2>6 DEF TypeOK
<1>3. HelloInv'
    BY <1>1 DEF CleanupDetach, Detached, Removed, loopVars, sharedVars, HelloInv
<1>4. DutyInv'
    BY <1>1 DEF CleanupDetach, Detached, Removed, loopVars, sharedVars, TypeOK, DutyInv
<1>5. SharedInv'
    BY <1>1 DEF CleanupDetach, Detached, Removed, loopVars, sharedVars, SharedInv, Attaching
<1>6. OnceInv'
    BY <1>1 DEF CleanupDetach, Detached, Removed, loopVars, sharedVars, OnceInv, Attaching
<1>7. WelcomedInv'
    BY <1>1 DEF CleanupDetach, Detached, Removed, loopVars, sharedVars, sizeVars, WelcomedInv
<1>8. CloseInv'
    BY <1>1
       DEF CleanupDetach, Detached, Removed, loopVars, sharedVars, sizeVars, TypeOK, CloseInv, NoFailure, Registered
<1>9. SizeInv'
    BY <1>1 DEF CleanupDetach, Detached, Removed, loopVars, sizeVars, SizeInv
<1> QED
    BY <1>2, <1>3, <1>4, <1>5, <1>6, <1>7, <1>8, <1>9 DEF ServeInv

\* A cleanup marks a deliberate close, with no listener of the session left.
LEMMA CleanupMarkStep ==
    ASSUME ServeInv, NEW a \in {0} \union Listeners, CleanupMark(a)
    PROVE  ServeInv'
<1>1. TypeOK /\ SizeInv /\ HelloInv /\ DutyInv /\ SharedInv /\ OnceInv /\ WelcomedInv /\ CloseInv
    BY DEF ServeInv
<1>2. TypeOK'
    <2>1. /\ once' = "done" /\ taken' = [taken EXCEPT !.sess = None]
          /\ UNCHANGED <<loop, hellos, target, helloSize, old, clean, curSess, detach, conn, peer, reg, run, owner, alive, ptySize, asked, welcomed>>
        BY DEF CleanupMark, loopVars, connVars, sizeVars
    <2>2. idle' = idle \/ idle' = [idle EXCEPT ![taken.sess] = "closed"]
        BY DEF CleanupMark
    <2>3. idle' \in [Sessions -> {"held", "idle", "closed"}]
        BY <1>1, <2>2 DEF TypeOK
    <2> taken \in [by : {0} \union Listeners, sess : Sessions \union {None}, detach : Listeners \union {None}]
        BY <1>1 DEF TypeOK
    <2>4. taken' \in [by : {0} \union Listeners, sess : Sessions \union {None}, detach : Listeners \union {None}]
        BY <2>1
    <2> QED
        BY <1>1, <2>1, <2>3, <2>4 DEF TypeOK
<1>3. HelloInv'
    BY <1>1 DEF CleanupMark, loopVars, sharedVars, HelloInv
<1>4. DutyInv'
    BY <1>1 DEF CleanupMark, loopVars, sharedVars, DutyInv
<1>5. SharedInv'
    BY <1>1 DEF CleanupMark, loopVars, sharedVars, SharedInv, Attaching
<1>6. OnceInv'
    BY <1>1 DEF CleanupMark, loopVars, sharedVars, OnceInv, Attaching
<1>7. WelcomedInv'
    BY <1>1 DEF CleanupMark, loopVars, sharedVars, sizeVars, WelcomedInv
<1>8. CloseInv'
    <2>1. /\ once = "busy" /\ taken.by = a /\ taken.detach = None /\ once' = "done"
          /\ UNCHANGED <<loop, clean, detach, reg, run, owner, welcomed>>
        BY DEF CleanupMark, loopVars, sizeVars
    <2>2. \/ idle' = idle
          \/ idle' = [idle EXCEPT ![taken.sess] = "closed"]
        BY DEF CleanupMark
    <2>3. \A s \in Sessions : idle'[s] = "held" => Registered(s)' # {}
        <3>1. \A s \in Sessions : idle'[s] = "held" => idle[s] = "held"
            BY <1>1, <2>2 DEF TypeOK
        <3> QED
            BY <1>1, <2>1, <3>1 DEF CloseInv, Registered
    <2>4. ASSUME NoFailure', welcomed # None, clean
          PROVE  idle'[welcomed] = "closed"
        <3>1. NoFailure
            BY <2>1, <2>4 DEF NoFailure
        <3>2. a = 0 /\ taken.sess = welcomed /\ welcomed \in Sessions
            BY <1>1, <2>1, <2>4, <3>1, NoFailureCleanup DEF CloseInv, TypeOK
        <3>3. detach = None /\ old = None /\ loop # "publish"
            BY <1>1, <2>1, <3>2 DEF OnceInv, HelloInv
        <3>4. Registered(welcomed) = {}
            BY <1>1, <2>1, <3>3, NoneAssumption DEF DutyInv, Registered, Listeners
        <3>5. idle[welcomed] # "held"
            BY <1>1, <3>2, <3>4 DEF CloseInv
        <3>6. idle' = [idle EXCEPT ![welcomed] = "closed"]
            BY <2>4, <3>2, <3>4, <3>5 DEF CleanupMark
        <3> QED
            BY <1>1, <3>2, <3>6 DEF TypeOK
    <2> QED
        BY <2>1, <2>3, <2>4 DEF CloseInv
<1>9. SizeInv'
    BY <1>1 DEF CleanupMark, loopVars, sizeVars, SizeInv
<1> QED
    BY <1>2, <1>3, <1>4, <1>5, <1>6, <1>7, <1>8, <1>9 DEF ServeInv

\* A delivery fails.
LEMMA DeliveryFailsStep ==
    ASSUME ServeInv, NEW n \in Listeners, DeliveryFails(n)
    PROVE  ServeInv'
<1>1. TypeOK /\ SizeInv /\ HelloInv /\ DutyInv /\ SharedInv /\ OnceInv /\ WelcomedInv /\ CloseInv
    BY DEF ServeInv
<1>2. TypeOK'
    BY <1>1 DEF DeliveryFails, loopVars, sharedVars, connVars, sizeVars, TypeOK
<1>3. HelloInv'
    BY <1>1 DEF DeliveryFails, loopVars, sharedVars, HelloInv
<1>4. DutyInv'
    BY <1>1 DEF DeliveryFails, loopVars, sharedVars, DutyInv
<1>5. SharedInv'
    BY <1>1 DEF DeliveryFails, loopVars, sharedVars, SharedInv, Attaching
<1>6. OnceInv'
    BY <1>1 DEF DeliveryFails, loopVars, sharedVars, OnceInv, Attaching
<1>7. WelcomedInv'
    BY <1>1 DEF DeliveryFails, loopVars, sharedVars, sizeVars, WelcomedInv
<1>8. CloseInv'
    BY <1>1 DEF DeliveryFails, loopVars, sharedVars, sizeVars, CloseInv, NoFailure, Registered
<1>9. SizeInv'
    BY <1>1 DEF DeliveryFails, loopVars, sizeVars, SizeInv
<1> QED
    BY <1>2, <1>3, <1>4, <1>5, <1>6, <1>7, <1>8, <1>9 DEF ServeInv

\* A stopped delivery returns.
LEMMA DeliveryReturnsStep ==
    ASSUME ServeInv, NEW n \in Listeners, DeliveryReturns(n)
    PROVE  ServeInv'
<1>1. TypeOK /\ SizeInv /\ HelloInv /\ DutyInv /\ SharedInv /\ OnceInv /\ WelcomedInv /\ CloseInv
    BY DEF ServeInv
<1>2. TypeOK'
    BY <1>1 DEF DeliveryReturns, loopVars, sharedVars, connVars, sizeVars, TypeOK
<1>3. HelloInv'
    BY <1>1 DEF DeliveryReturns, loopVars, sharedVars, HelloInv
<1>4. DutyInv'
    BY <1>1 DEF DeliveryReturns, loopVars, sharedVars, DutyInv
<1>5. SharedInv'
    BY <1>1 DEF DeliveryReturns, loopVars, sharedVars, SharedInv, Attaching
<1>6. OnceInv'
    BY <1>1 DEF DeliveryReturns, loopVars, sharedVars, OnceInv, Attaching
<1>7. WelcomedInv'
    BY <1>1 DEF DeliveryReturns, loopVars, sharedVars, sizeVars, WelcomedInv
<1>8. CloseInv'
    BY <1>1
       DEF DeliveryReturns, loopVars, sharedVars, sizeVars, CloseInv, NoFailure, Registered
<1>9. SizeInv'
    BY <1>1 DEF DeliveryReturns, loopVars, sizeVars, SizeInv
<1> QED
    BY <1>2, <1>3, <1>4, <1>5, <1>6, <1>7, <1>8, <1>9 DEF ServeInv

\* A failed delivery removes its listener.
LEMMA DeliveryRemovedStep ==
    ASSUME ServeInv, NEW n \in Listeners, DeliveryRemoved(n)
    PROVE  ServeInv'
<1>1. TypeOK /\ SizeInv /\ HelloInv /\ DutyInv /\ SharedInv /\ OnceInv /\ WelcomedInv /\ CloseInv
    BY DEF ServeInv
<1>2. TypeOK'
    BY <1>1 DEF DeliveryRemoved, Removed, loopVars, sharedVars, connVars, sizeVars, TypeOK
<1>3. HelloInv'
    BY <1>1 DEF DeliveryRemoved, Removed, loopVars, sharedVars, HelloInv
<1>4. DutyInv'
    BY <1>1 DEF DeliveryRemoved, Removed, loopVars, sharedVars, DutyInv
<1>5. SharedInv'
    BY <1>1 DEF DeliveryRemoved, Removed, loopVars, sharedVars, SharedInv, Attaching
<1>6. OnceInv'
    BY <1>1 DEF DeliveryRemoved, Removed, loopVars, sharedVars, OnceInv, Attaching
<1>7. WelcomedInv'
    BY <1>1 DEF DeliveryRemoved, Removed, loopVars, sharedVars, sizeVars, TypeOK, WelcomedInv
<1>8. CloseInv'
    BY <1>1
       DEF DeliveryRemoved, Removed, loopVars, sharedVars, sizeVars, TypeOK, CloseInv, NoFailure, Registered
<1>9. SizeInv'
    BY <1>1 DEF DeliveryRemoved, Removed, loopVars, sizeVars, SizeInv
<1> QED
    BY <1>2, <1>3, <1>4, <1>5, <1>6, <1>7, <1>8, <1>9 DEF ServeInv

\* A failed delivery closes the connection.
LEMMA DeliveryClosesStep ==
    ASSUME ServeInv, NEW n \in Listeners, DeliveryCloses(n)
    PROVE  ServeInv'
<1>1. TypeOK /\ SizeInv /\ HelloInv /\ DutyInv /\ SharedInv /\ OnceInv /\ WelcomedInv /\ CloseInv
    BY DEF ServeInv
<1>2. TypeOK'
    BY <1>1 DEF DeliveryCloses, loopVars, sharedVars, connVars, sizeVars, TypeOK
<1>3. HelloInv'
    BY <1>1 DEF DeliveryCloses, loopVars, sharedVars, HelloInv
<1>4. DutyInv'
    BY <1>1 DEF DeliveryCloses, loopVars, sharedVars, DutyInv
<1>5. SharedInv'
    BY <1>1 DEF DeliveryCloses, loopVars, sharedVars, SharedInv, Attaching
<1>6. OnceInv'
    BY <1>1 DEF DeliveryCloses, loopVars, sharedVars, OnceInv, Attaching
<1>7. WelcomedInv'
    BY <1>1 DEF DeliveryCloses, loopVars, sharedVars, sizeVars, WelcomedInv
<1>8. CloseInv'
    BY <1>1
       DEF DeliveryCloses, loopVars, sharedVars, sizeVars, CloseInv, NoFailure, Registered
<1>9. SizeInv'
    BY <1>1 DEF DeliveryCloses, loopVars, sizeVars, SizeInv
<1> QED
    BY <1>2, <1>3, <1>4, <1>5, <1>6, <1>7, <1>8, <1>9 DEF ServeInv

\* A session ends.
LEMMA SessionEndsStep ==
    ASSUME ServeInv, NEW s \in Sessions, SessionEnds(s)
    PROVE  ServeInv'
<1>1. TypeOK /\ SizeInv /\ HelloInv /\ DutyInv /\ SharedInv /\ OnceInv /\ WelcomedInv /\ CloseInv
    BY DEF ServeInv
<1>2. TypeOK'
    BY <1>1 DEF SessionEnds, loopVars, sharedVars, connVars, sizeVars, TypeOK
<1>3. HelloInv'
    BY <1>1 DEF SessionEnds, loopVars, sharedVars, HelloInv
<1>4. DutyInv'
    BY <1>1 DEF SessionEnds, loopVars, sharedVars, DutyInv
<1>5. SharedInv'
    BY <1>1 DEF SessionEnds, loopVars, sharedVars, SharedInv, Attaching
<1>6. OnceInv'
    BY <1>1 DEF SessionEnds, loopVars, sharedVars, OnceInv, Attaching
<1>7. WelcomedInv'
    BY <1>1 DEF SessionEnds, loopVars, sharedVars, sizeVars, WelcomedInv
<1>8. CloseInv'
    BY <1>1 DEF SessionEnds, loopVars, sharedVars, sizeVars, CloseInv, NoFailure, Registered
<1>9. SizeInv'
    BY <1>1 DEF SessionEnds, loopVars, sizeVars, SizeInv
<1> QED
    BY <1>2, <1>3, <1>4, <1>5, <1>6, <1>7, <1>8, <1>9 DEF ServeInv

\* The client goes.
LEMMA PeerGoesStep ==
    ASSUME ServeInv, PeerGoes
    PROVE  ServeInv'
<1>1. TypeOK /\ SizeInv /\ HelloInv /\ DutyInv /\ SharedInv /\ OnceInv /\ WelcomedInv /\ CloseInv
    BY DEF ServeInv
<1>2. TypeOK'
    BY <1>1 DEF PeerGoes, loopVars, sharedVars, sessionVars, sizeVars, TypeOK
<1>3. SizeInv' /\ HelloInv' /\ DutyInv' /\ SharedInv' /\ OnceInv' /\ WelcomedInv' /\ CloseInv'
    BY <1>1
       DEF PeerGoes, loopVars, sizeVars, SizeInv, sharedVars, sessionVars, HelloInv, DutyInv, SharedInv, Attaching, OnceInv, WelcomedInv, CloseInv, NoFailure, Registered
<1> QED
    BY <1>2, <1>3 DEF ServeInv

\* Nothing happens.
LEMMA StutterStep ==
    ASSUME ServeInv, UNCHANGED vars
    PROVE  ServeInv'
<1>1. TypeOK /\ SizeInv /\ HelloInv /\ DutyInv /\ SharedInv /\ OnceInv /\ WelcomedInv /\ CloseInv
    BY DEF ServeInv
<1>2. TypeOK'
    BY <1>1 DEF vars, loopVars, sharedVars, connVars, sessionVars, sizeVars, TypeOK
<1>3. SizeInv' /\ HelloInv' /\ DutyInv' /\ SharedInv' /\ OnceInv' /\ WelcomedInv' /\ CloseInv'
    BY <1>1
       DEF vars, loopVars, sizeVars, sharedVars, sessionVars, Attaching, NoFailure, Registered, SizeInv, HelloInv, DutyInv, SharedInv, OnceInv, WelcomedInv, CloseInv
<1> QED
    BY <1>2, <1>3 DEF ServeInv

-----------------------------------------------------------------------------
(* The invariant holds.                                                    *)

\* Nothing is attached at first, whatever sessions the store holds.
LEMMA ServeInit ==
    ASSUME Init
    PROVE  ServeInv
<1>1. TypeOK
    <2>1. <<2, 1>> \in Nat \X Nat /\ <<2, 1>> \in (2 .. 1000) \X (1 .. 1000) /\ 0 \in 0 .. MaxHellos
        BY MaxHellosAssumption
    <2>2. helloSize \in Nat \X Nat /\ asked \in Nat \X Nat /\ hellos \in 0 .. MaxHellos
        BY <2>1 DEF Init
    <2>3. ptySize \in [Sessions -> (2 .. 1000) \X (1 .. 1000)]
        BY <2>1 DEF Init
    <2>4. taken \in [by : {0} \union Listeners, sess : Sessions \union {None}, detach : Listeners \union {None}]
        BY DEF Init
    <2>5. alive \in [Sessions -> {"none", "alive", "exited"}] /\ idle \in [Sessions -> {"held", "idle", "closed"}]
        BY DEF Init
    <2>6. /\ reg \in [Listeners -> BOOLEAN] /\ owner \in [Listeners -> Sessions \union {None}]
          /\ run \in [Listeners -> {"none", "running", "stopped", "failed", "cleanup", "reported", "done"}]
          /\ \A n \in Listeners : run[n] # "none" \/ reg[n] => owner[n] \in Sessions
        BY DEF Init
    <2> QED
        BY Zenon, <2>2, <2>3, <2>4, <2>5, <2>6 DEF Init, TypeOK
<1>2. SizeInv
    BY DEF Init, SizeInv, ValidSize
<1>3. HelloInv /\ DutyInv /\ WelcomedInv
    BY DEF Init, HelloInv, DutyInv, WelcomedInv
<1>4. SharedInv /\ OnceInv
    BY DEF Init, SharedInv, OnceInv, Attaching
<1>5. CloseInv
    BY DEF Init, CloseInv
<1> QED
    BY <1>1, <1>2, <1>3, <1>4, <1>5 DEF ServeInv

\* Every step of the read loop, of a cleanup, of a delivery, of a session and
\* of the client preserves it.
LEMMA ServeNext ==
    ASSUME ServeInv, [Next]_vars
    PROVE  ServeInv'
<1>1. CASE \E size \in Sizes : Resize(size) \/ \E s \in Sessions : Hello(s, size)
    BY <1>1, ResizeStep, HelloStep
<1>2. CASE HelloRefused
    BY <1>2, HelloRefusedStep
<1>3. CASE Attach
    BY <1>3, AttachSwapStep, AttachLeaveOldStep, AttachRegisterStep, AttachPublishStep,
       HelloWelcomeStep DEF Attach
<1>4. CASE Input \/ WriteReturns
    BY <1>4, InputStep, WriteReturnsStep
<1>5. CASE BadMessage \/ ReadError \/ LoopReturns
    BY <1>5, BadMessageStep, ReadErrorStep, LoopReturnsStep
<1>6. CASE \E a \in {0} \union Listeners : Cleanup(a)
    BY <1>6, CleanupTakeStep, CleanupDetachStep, CleanupMarkStep DEF Cleanup
<1>7. CASE \E n \in Listeners : Delivery(n)
    BY <1>7, DeliveryFailsStep, DeliveryReturnsStep, DeliveryRemovedStep, DeliveryClosesStep DEF Delivery
<1>8. CASE \E s \in Sessions : SessionEnds(s)
    BY <1>8, SessionEndsStep
<1>9. CASE PeerGoes
    BY <1>9, PeerGoesStep
<1>10. CASE UNCHANGED vars
    BY <1>10, StutterStep
<1> QED
    BY <1>1, <1>2, <1>3, <1>4, <1>5, <1>6, <1>7, <1>8, <1>9, <1>10 DEF Next

\* The inductive invariant of one connection's handler.
THEOREM ServeInvariant == Spec => []ServeInv
<1>1. Init => ServeInv
    BY ServeInit
<1>2. ServeInv /\ [Next]_vars => ServeInv'
    BY ServeNext
<1> QED
    BY <1>1, <1>2, PTL DEF Spec

\* Every variable of a connection's handler keeps its type; a PTY never gets a
\* size that truncation to 16 bits made up.
THEOREM ServeTypeCorrect == Spec => []TypeOK
<1>1. ServeInv => TypeOK
    BY DEF ServeInv
<1> QED
    BY <1>1, ServeInvariant, PTL

\* When the handler has returned, a listener that is still registered was
\* attached by a later hello than the delivery that cleaned up: whatever was
\* attached before that cleanup is detached, by it or by attach itself.
THEOREM ServeLeavesNoListener == Spec => []NoListenerLeft
<1>1. ASSUME ServeInv PROVE NoListenerLeft
    <2> SUFFICES ASSUME loop = "returned", NEW n \in Listeners, reg[n]
                 PROVE  /\ n > 1 /\ detach = n /\ curSess = owner[n]
                        /\ \E m \in 1 .. n - 1 : run[m] \in {"cleanup", "reported"}
        BY DEF NoListenerLeft
    <2>1. once = "done" /\ taken.detach = None /\ old = None
        BY <1>1 DEF ServeInv, OnceInv, HelloInv
    <2>2. detach = n /\ n # None
        BY <1>1, <2>1, NoneAssumption DEF ServeInv, DutyInv, Listeners
    <2>3. curSess = owner[n]
        BY <1>1, <2>2 DEF ServeInv, SharedInv, Attaching
    <2>4. taken.by \in {0} \union Listeners /\ taken.by # 0
        BY <1>1, <2>1, <2>2 DEF ServeInv, OnceInv, TypeOK
    <2>5. run[taken.by] \in {"cleanup", "reported"} /\ taken.by < n
        BY <1>1, <2>2, <2>4 DEF ServeInv, OnceInv, Attaching
    <2> QED
        BY <2>2, <2>3, <2>4, <2>5, MaxHellosAssumption DEF Listeners
<1> QED
    BY <1>1, ServeInvariant, PTL

\* A client that was welcomed is attached with the size it asked for, until a
\* cleanup begins.
THEOREM ServeWelcomedIsAttached == Spec => []WelcomedIsAttached
<1>1. ASSUME ServeInv PROVE WelcomedIsAttached
    <2> SUFFICES ASSUME loop = "read", welcomed # None, once = "unused"
                 PROVE  /\ curSess = welcomed /\ detach # None /\ owner[detach] = welcomed
                        /\ reg[detach] \/ run[detach] = "cleanup"
                        /\ ptySize[curSess] = asked
        BY DEF WelcomedIsAttached
    <2>1. /\ curSess = welcomed /\ detach # None
          /\ reg[detach] \/ run[detach] = "cleanup"
          /\ ptySize[curSess] = asked
        BY <1>1 DEF ServeInv, WelcomedInv
    <2>2. curSess = owner[detach]
        BY <1>1, <2>1 DEF ServeInv, SharedInv, Attaching
    <2> QED
        BY <2>1, <2>2
<1> QED
    BY <1>1, ServeInvariant, PTL

\* A deliberate close marks the session the client was welcomed to.
THEOREM ServeMarksClose == Spec => []CloseIsMarked
<1>1. ServeInv => CloseIsMarked
    BY DEF ServeInv, CloseInv, OnceInv, CloseIsMarked, NoFailure
<1> QED
    BY <1>1, ServeInvariant, PTL
=============================================================================
