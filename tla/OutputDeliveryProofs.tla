------------------------- MODULE OutputDeliveryProofs -------------------------
(***************************************************************************)
(* Proofs about OutputDelivery, for every queue bound, chunk size and       *)
(* stream length.                                                          *)
(***************************************************************************)
EXTENDS OutputDelivery, TLAPS, SequenceTheorems

(***************************************************************************)
(* Facts about stretches of the stream.                                    *)
(***************************************************************************)

\* A stretch of n bytes is a sequence of n offsets.
LEMMA BytesSeq ==
    ASSUME NEW from \in Nat, NEW n \in Nat
    PROVE  /\ Bytes(from, n) \in Seq(Nat)
           /\ Len(Bytes(from, n)) = n
<1>1. \A i \in 1..n : from + i - 1 \in Nat
    OBVIOUS
<1> QED
    BY <1>1 DEF Bytes

\* The empty stretch.
LEMMA BytesEmpty ==
    ASSUME NEW from \in Nat, NEW s \in Seq(Nat)
    PROVE  /\ Bytes(from, 0) = << >>
           /\ s = << >> <=> Len(s) = 0
    BY DEF Bytes

\* Two adjacent stretches make one.
LEMMA BytesConcat ==
    ASSUME NEW from \in Nat, NEW m \in Nat, NEW n \in Nat
    PROVE  Bytes(from, m) \o Bytes(from + m, n) = Bytes(from, m + n)
<1> DEFINE s == Bytes(from, m)
           t == Bytes(from + m, n)
           u == Bytes(from, m + n)
<1>0. from + m \in Nat /\ m + n \in Nat
    OBVIOUS
<1>1. s \in Seq(Nat) /\ t \in Seq(Nat) /\ u \in Seq(Nat)
    BY <1>0, BytesSeq
<1>2. Len(s) = m /\ Len(t) = n /\ Len(u) = m + n
    BY <1>0, BytesSeq
<1> HIDE DEF s, t, u
<1>3. s \o t \in Seq(Nat) /\ Len(s \o t) = m + n
    BY <1>1, <1>2, ConcatProperties
<1>4. ASSUME NEW i \in 1..(m + n)
      PROVE  (s \o t)[i] = u[i]
    <2>1. u[i] = from + i - 1
        BY DEF Bytes, u
    <2>2. (s \o t)[i] = IF i <= m THEN s[i] ELSE t[i - m]
        BY <1>1, <1>2, ConcatProperties
    <2>3. i <= m => s[i] = from + i - 1
        BY DEF Bytes, s
    <2>4. ~(i <= m) => t[i - m] = from + m + (i - m) - 1
        BY DEF Bytes, t
    <2> QED
        BY <2>1, <2>2, <2>3, <2>4
<1>5. s \o t = u
    BY <1>1, <1>2, <1>3, <1>4, SeqEqual
<1> QED
    BY <1>5 DEF s, t, u

(***************************************************************************)
(* The inductive invariant.  The stream is cut in three parts: what was    *)
(* written, what is in flight, what is queued.  Each part starts where the *)
(* one before it ends; the two offsets that travel with the bytes          *)
(* (batchOffset and startOffset) are the starts of the last two.  Only     *)
(* between a write that lost its batch and fail() is the queue detached    *)
(* from what was written; it is discarded there and never written.         *)
(***************************************************************************)

InFlight ==
    /\ runPc = "writing" <=> batch # << >>
    /\ runPc = "writing" => batchOffset = base + Len(written)

Parts ==
    /\ written = Bytes(base, Len(written))
    /\ batch = Bytes(base + Len(written), Len(batch))
    /\ runPc # "failing" =>
          pending = Bytes(base + Len(written) + Len(batch), Len(pending))

Live == runPc \in {"drain", "waiting", "writing"}

Accounting ==
    /\ base + Len(written) <= end
    /\ Live => base + Len(written) + Len(batch) + Len(pending) <= end
    /\ state = "running" /\ Live =>
          /\ Len(written) + Len(batch) + Len(pending) = end - base
          /\ pending # << >> => startOffset = base + Len(written) + Len(batch)

Bound ==
    /\ Len(pending) <= MaxBytes + MaxChunk
    /\ state = "running" => Len(pending) <= MaxBytes

Lifecycle ==
    /\ state = "stopped" => pending = << >>
    /\ runPc \in {"reporting", "returned"} => state = "stopped"
    /\ runPc = "returned" => reports \in {0, 1}
    /\ runPc # "returned" => reports = 0

DeliveryInv == TypeOK /\ InFlight /\ Parts /\ Accounting /\ Bound /\ Lifecycle

\* The invariant holds initially.
LEMMA InitInv == Init => DeliveryInv
<1> SUFFICES ASSUME Init
             PROVE  DeliveryInv
    OBVIOUS
<1> USE DeliveryAssumption
<1>1. base \in Nat /\ << >> \in Seq(Nat) /\ Len(<< >>) = 0
    BY EmptySeq DEF Init
<1>2. \A b \in Nat : Bytes(b, 0) = << >>
    BY BytesEmpty, <1>1
<1>3. TypeOK
    BY <1>1 DEF Init, TypeOK, States, RunPcs
<1>4. Parts
    BY <1>1, <1>2 DEF Init, Parts
<1>5. InFlight /\ Accounting /\ Bound /\ Lifecycle
    BY <1>1 DEF Init, InFlight, Accounting, Bound, Lifecycle, Live
<1> QED
    BY <1>3, <1>4, <1>5 DEF DeliveryInv

\* enqueue keeps the invariant: the chunk is the next stretch of the stream.
LEMMA EnqueueInv == DeliveryInv /\ Enqueue => DeliveryInv'
<1> SUFFICES ASSUME DeliveryInv, Enqueue
             PROVE  DeliveryInv'
    OBVIOUS
<1> USE DeliveryAssumption
<1>1. TypeOK /\ InFlight /\ Parts /\ Accounting /\ Bound /\ Lifecycle
    BY DEF DeliveryInv
<1>2. PICK n \in 1..MaxChunk :
         /\ end' = end + n
         /\ EnqueueIgnored \/ EnqueueKept(n)
         /\ UNCHANGED <<base, runVars, stopPc, reports>>
    BY DEF Enqueue
<1>3. n \in Nat /\ n > 0 /\ n <= MaxChunk /\ end \in Nat
    BY <1>1, <1>2 DEF TypeOK
<1>4. UNCHANGED <<base, batch, batchOffset, written, stopPc, reports>>
    BY <1>2 DEF runVars
<1>5. CASE EnqueueIgnored
    <2>1. UNCHANGED <<pending, startOffset, state, runPc>> /\ state # "running"
        BY <1>5 DEF EnqueueIgnored, queueVars
    <2>2. TypeOK'
        BY <1>1, <1>2, <1>3, <1>4, <2>1 DEF TypeOK
    <2>3. Parts'
        BY <1>1, <1>4, <2>1 DEF Parts
    <2>4. Accounting'
        <3>1. Len(written) \in Nat /\ Len(batch) \in Nat /\ Len(pending) \in Nat
            BY <1>1, LenProperties DEF TypeOK
        <3> QED
            BY <1>1, <1>2, <1>3, <1>4, <2>1, <3>1 DEF Accounting, Live, TypeOK
    <2>5. InFlight' /\ Bound' /\ Lifecycle'
        BY <1>1, <1>4, <2>1 DEF InFlight, Bound, Lifecycle
    <2> QED
        BY <2>2, <2>3, <2>4, <2>5 DEF DeliveryInv
<1>6. CASE EnqueueKept(n)
    <2> DEFINE chunk == Bytes(end, n)
    <2>1. /\ state = "running"
          /\ startOffset' = IF pending = << >> THEN end ELSE startOffset
          /\ pending' = pending \o chunk
          /\ state' = IF Len(pending') > MaxBytes THEN "overflowed" ELSE state
          /\ runPc' = IF runPc = "waiting" THEN "drain" ELSE runPc
        BY <1>6 DEF EnqueueKept, Signal
    <2>2. chunk \in Seq(Nat) /\ Len(chunk) = n
        BY <1>3, BytesSeq
    <2> HIDE DEF chunk
    <2>3. /\ pending' \in Seq(Nat)
          /\ Len(pending') = Len(pending) + n
        BY <1>1, <2>1, <2>2, ConcatProperties DEF TypeOK
    <2>4. Len(written) \in Nat /\ Len(batch) \in Nat /\ Len(pending) \in Nat
        BY <1>1, LenProperties DEF TypeOK
    <2>5. runPc # "reporting" /\ runPc # "returned"
        BY <1>1, <2>1 DEF Lifecycle
    <2>6. Len(pending) = 0 <=> pending = << >>
        BY <1>1, EmptySeq DEF TypeOK
    <2>7. TypeOK'
        BY <1>1, <1>2, <1>3, <1>4, <2>1, <2>3 DEF TypeOK, States, RunPcs
    <2>8. InFlight' /\ Lifecycle'
        BY <1>1, <1>4, <2>1, <2>5 DEF InFlight, Lifecycle
    <2>9. Bound'
        BY <1>1, <1>3, <2>1, <2>3, <2>4 DEF Bound
    <2>10. Accounting'
        <3>1. Live' => Live
            BY <2>1, <2>5 DEF Live
        <3>2. base \in Nat /\ end' = end + n
            BY <1>1, <1>2 DEF TypeOK
        <3>3. Live => Len(written) + Len(batch) + Len(pending) = end - base
            BY <1>1, <2>1 DEF Accounting
        <3>4. Live /\ pending # << >> => startOffset = base + Len(written) + Len(batch)
            BY <1>1, <2>1 DEF Accounting
        <3>5. Live => startOffset' = base + Len(written) + Len(batch)
            BY <1>3, <2>1, <2>4, <2>6, <3>2, <3>3, <3>4
        <3>6. base' + Len(written') <= end'
            BY <1>1, <1>3, <1>4, <2>4, <3>2 DEF Accounting
        <3>7. Live => Len(written') + Len(batch') + Len(pending') = end' - base'
            BY <1>3, <1>4, <2>3, <2>4, <3>2, <3>3
        <3> QED
            BY <1>3, <1>4, <2>3, <2>4, <3>1, <3>2, <3>5, <3>6, <3>7 DEF Accounting
    <2>11. Parts'
        <3>1. SUFFICES ASSUME runPc' # "failing"
                       PROVE  pending' = Bytes(base + Len(written) + Len(batch), Len(pending) + n)
            BY <1>1, <1>4, <2>3 DEF Parts
        <3>2. runPc # "failing" /\ Live
            BY <1>1, <2>1, <2>5, <3>1 DEF TypeOK, RunPcs, Live
        <3>3. end = base + Len(written) + Len(batch) + Len(pending)
            BY <1>1, <1>3, <2>1, <2>4, <3>2 DEF Accounting, TypeOK
        <3>4. pending = Bytes(base + Len(written) + Len(batch), Len(pending))
            BY <1>1, <3>2 DEF Parts
        <3>5. base + Len(written) + Len(batch) \in Nat
            BY <1>1, <2>4 DEF TypeOK
        <3> DEFINE from == base + Len(written) + Len(batch)
        <3>6. Bytes(from, Len(pending)) \o Bytes(from + Len(pending), n)
                 = Bytes(from, Len(pending) + n)
            BY <1>3, <2>4, <3>5, BytesConcat
        <3>7. chunk = Bytes(from + Len(pending), n)
            BY <3>3 DEF chunk
        <3> QED
            BY <2>1, <3>4, <3>6, <3>7
    <2> QED
        BY <2>7, <2>8, <2>9, <2>10, <2>11 DEF DeliveryInv
<1> QED
    BY <1>2, <1>5, <1>6

\* stop() discards the queue, whatever the delivery goroutine is doing.
LEMMA StopInv == DeliveryInv /\ (Stop \/ StopSignal) => DeliveryInv'
<1> USE DeliveryAssumption
<1>1. ASSUME DeliveryInv, Stop
      PROVE  DeliveryInv'
    <2>1. TypeOK /\ InFlight /\ Parts /\ Accounting /\ Bound /\ Lifecycle
        BY <1>1 DEF DeliveryInv
    <2>2. /\ UNCHANGED <<base, end, startOffset, runPc, batch, batchOffset, written, reports>>
          /\ state' = "stopped" /\ pending' = << >> /\ stopPc' = "signal"
        BY <1>1 DEF Stop, runVars
    <2>3. /\ Len(written) \in Nat /\ Len(batch) \in Nat /\ Len(pending) \in Nat
          /\ pending' \in Seq(Nat) /\ Len(pending') = 0
        BY <2>1, <2>2, LenProperties, EmptySeq DEF TypeOK
    <2>4. TypeOK'
        BY <2>1, <2>2, <2>3 DEF TypeOK, States
    <2>5. Parts'
        <3>1. base + Len(written) + Len(batch) \in Nat
            BY <2>1, <2>3 DEF TypeOK
        <3>2. pending' = Bytes(base + Len(written) + Len(batch), 0)
            BY <2>2, <2>3, <3>1, BytesEmpty
        <3> QED
            BY <2>1, <2>2, <2>3, <3>2 DEF Parts
    <2>6. Accounting'
        BY <2>1, <2>2, <2>3 DEF Accounting, Live, TypeOK
    <2>7. InFlight' /\ Bound' /\ Lifecycle'
        BY <2>1, <2>2, <2>3 DEF InFlight, Bound, Lifecycle
    <2> QED
        BY <2>4, <2>5, <2>6, <2>7 DEF DeliveryInv
<1>2. ASSUME DeliveryInv, StopSignal
      PROVE  DeliveryInv'
    <2>1. /\ UNCHANGED <<base, end, pending, startOffset, state, batch, batchOffset, written, reports>>
          /\ runPc' = IF runPc = "waiting" THEN "drain" ELSE runPc
          /\ stopPc' = "stopped"
        BY <1>2 DEF StopSignal, Signal, runVars, queueVars
    <2>2. TypeOK /\ InFlight /\ Parts /\ Accounting /\ Bound /\ Lifecycle
        BY <1>2 DEF DeliveryInv
    <2>3. Live' <=> Live
        BY <2>1 DEF Live
    <2>4. TypeOK'
        BY <2>1, <2>2 DEF TypeOK, RunPcs
    <2>5. InFlight' /\ Parts' /\ Bound' /\ Lifecycle'
        BY <2>1, <2>2 DEF InFlight, Parts, Bound, Lifecycle
    <2>6. Accounting'
        BY <2>1, <2>2, <2>3 DEF Accounting
    <2> QED
        BY <2>4, <2>5, <2>6 DEF DeliveryInv
<1> QED
    BY <1>1, <1>2

\* drain() hands the whole queue to the writer, with the offset it starts at.
LEMMA DrainInv == DeliveryInv /\ (DrainStopped \/ DrainBatch \/ DrainWait) => DeliveryInv'
<1> USE DeliveryAssumption
<1>1. ASSUME DeliveryInv, DrainStopped \/ DrainWait
      PROVE  DeliveryInv'
    <2>1. /\ UNCHANGED <<base, end, pending, startOffset, state, batch, batchOffset, written, stopPc, reports>>
          /\ runPc = "drain"
          /\ \/ state = "running" /\ runPc' = "waiting"
             \/ state = "stopped" /\ runPc' = "returned"
             \/ state # "running" /\ state # "stopped" /\ runPc' = "failing"
        BY <1>1 DEF DrainStopped, DrainWait, runVars, queueVars
    <2>2. TypeOK /\ InFlight /\ Parts /\ Accounting /\ Bound /\ Lifecycle
        BY <1>1 DEF DeliveryInv
    <2>3. TypeOK'
        BY <2>1, <2>2 DEF TypeOK, RunPcs
    <2>4. InFlight' /\ Parts' /\ Bound' /\ Lifecycle'
        BY <2>1, <2>2 DEF InFlight, Parts, Bound, Lifecycle
    <2>5. Accounting'
        BY <2>1, <2>2 DEF Accounting, Live
    <2> QED
        BY <2>3, <2>4, <2>5 DEF DeliveryInv
<1>2. ASSUME DeliveryInv, DrainBatch
      PROVE  DeliveryInv'
    <2>1. /\ UNCHANGED <<base, end, state, written, stopPc, reports>>
          /\ runPc = "drain" /\ runPc' = "writing" /\ state = "running"
          /\ pending # << >>
          /\ batch' = pending /\ batchOffset' = startOffset
          /\ pending' = << >> /\ startOffset' = 0
        BY <1>2 DEF DrainBatch
    <2>2. TypeOK /\ InFlight /\ Parts /\ Accounting /\ Bound /\ Lifecycle
        BY <1>2 DEF DeliveryInv
    <2>3. /\ Len(written) \in Nat /\ Len(pending) \in Nat
          /\ pending' \in Seq(Nat) /\ Len(pending') = 0
        BY <2>1, <2>2, LenProperties, EmptySeq DEF TypeOK
    <2>4. batch = << >> /\ Len(batch) = 0
        BY <2>1, <2>2 DEF InFlight
    <2>5. startOffset = base + Len(written)
        BY <2>1, <2>2, <2>3, <2>4 DEF Accounting, Live, TypeOK
    <2>6. TypeOK'
        BY <2>1, <2>2, <2>3 DEF TypeOK, RunPcs
    <2>7. InFlight'
        BY <2>1, <2>5 DEF InFlight
    <2>8. Parts'
        <3>1. pending = Bytes(base + Len(written), Len(pending))
            BY <2>1, <2>2, <2>3, <2>4 DEF Parts, TypeOK
        <3>2. base + Len(written) + Len(pending) \in Nat
            BY <2>2, <2>3 DEF TypeOK
        <3>3. pending' = Bytes(base + Len(written) + Len(pending), 0)
            BY <2>1, <2>3, <3>2, BytesEmpty
        <3> QED
            BY <2>1, <2>2, <2>3, <3>1, <3>3 DEF Parts
    <2>9. Accounting'
        BY <2>1, <2>2, <2>3, <2>4 DEF Accounting, Live, TypeOK
    <2>10. Bound' /\ Lifecycle'
        BY <2>1, <2>2, <2>3 DEF Bound, Lifecycle
    <2> QED
        BY <2>6, <2>7, <2>8, <2>9, <2>10 DEF DeliveryInv
<1> QED
    BY <1>1, <1>2

\* A write moves the batch behind what was written, or loses it and the
\* delivery fails.
LEMMA WriteInv == DeliveryInv /\ (WriteOK \/ WriteError) => DeliveryInv'
<1> SUFFICES ASSUME DeliveryInv, WriteOK \/ WriteError
             PROVE  DeliveryInv'
    OBVIOUS
<1> USE DeliveryAssumption
<1>1. TypeOK /\ InFlight /\ Parts /\ Accounting /\ Bound /\ Lifecycle
    BY DEF DeliveryInv
<1>2. /\ UNCHANGED <<base, end, pending, startOffset, state, stopPc, reports>>
      /\ runPc = "writing"
      /\ batch' = << >> /\ batchOffset' = 0
      /\ \/ runPc' = "drain" /\ written' = written \o batch
         \/ runPc' = "failing" /\ written' \in {written, written \o batch}
    BY DEF WriteOK, WriteError, EndWrite, queueVars
<1>3. /\ Len(written) \in Nat /\ Len(batch) \in Nat /\ Len(pending) \in Nat
      /\ batch' \in Seq(Nat) /\ Len(batch') = 0
    BY <1>1, <1>2, LenProperties, EmptySeq DEF TypeOK
<1>4. /\ written \o batch \in Seq(Nat)
      /\ Len(written \o batch) = Len(written) + Len(batch)
    BY <1>1, ConcatProperties DEF TypeOK
<1>5. written \o batch = Bytes(base, Len(written) + Len(batch))
    <2>1. Bytes(base, Len(written)) \o Bytes(base + Len(written), Len(batch))
             = Bytes(base, Len(written) + Len(batch))
        <3>1. base \in Nat
            BY <1>1 DEF TypeOK
        <3> QED
            BY <1>3, <3>1, BytesConcat
    <2> QED
        BY <1>1, <2>1 DEF Parts
<1>6. TypeOK'
    BY <1>1, <1>2, <1>3, <1>4 DEF TypeOK, RunPcs
<1>7. InFlight' /\ Bound' /\ Lifecycle'
    BY <1>1, <1>2 DEF InFlight, Bound, Lifecycle
<1>8. Parts'
    <2>1. written' = Bytes(base', Len(written'))
        BY <1>1, <1>2, <1>4, <1>5 DEF Parts
    <2>2. batch' = Bytes(base' + Len(written'), Len(batch'))
        <3>1. base' + Len(written') \in Nat
            BY <1>6, LenProperties DEF TypeOK
        <3> QED
            BY <1>2, <1>3, <3>1, BytesEmpty
    <2>3. ASSUME runPc' # "failing"
          PROVE  pending' = Bytes(base' + Len(written') + Len(batch'), Len(pending'))
        <3>1. written' = written \o batch
            BY <1>2, <2>3
        <3>2. base' + Len(written') + Len(batch') = base + Len(written) + Len(batch)
            BY <1>1, <1>2, <1>3, <1>4, <3>1 DEF TypeOK
        <3> QED
            BY <1>1, <1>2, <3>2 DEF Parts
    <2> QED
        BY <2>1, <2>2, <2>3 DEF Parts
<1>9. Accounting'
    <2>1. base \in Nat /\ end \in Nat
        BY <1>1 DEF TypeOK
    <2>2. base + Len(written) + Len(batch) + Len(pending) <= end
        BY <1>1, <1>2 DEF Accounting, Live
    <2>3. CASE runPc' = "failing"
        BY <1>1, <1>2, <1>3, <1>4, <2>1, <2>2, <2>3 DEF Accounting, Live
    <2>4. CASE runPc' = "drain" /\ written' = written \o batch
        BY <1>1, <1>2, <1>3, <1>4, <2>1, <2>2, <2>4 DEF Accounting, Live
    <2> QED
        BY <1>2, <2>3, <2>4
<1> QED
    BY <1>6, <1>7, <1>8, <1>9 DEF DeliveryInv

\* fail() discards the queue and reports once.
LEMMA FailInv == DeliveryInv /\ (Fail \/ Report) => DeliveryInv'
<1> USE DeliveryAssumption
<1>1. ASSUME DeliveryInv, Fail
      PROVE  DeliveryInv'
    <2>1. TypeOK /\ InFlight /\ Parts /\ Accounting /\ Bound /\ Lifecycle
        BY <1>1 DEF DeliveryInv
    <2>2. /\ UNCHANGED <<base, end, startOffset, batch, batchOffset, written, stopPc, reports>>
          /\ runPc = "failing" /\ runPc' = "reporting"
          /\ state' = "stopped" /\ pending' = << >>
        BY <1>1 DEF Fail, runVars
    <2>3. /\ Len(written) \in Nat /\ Len(batch) \in Nat
          /\ pending' \in Seq(Nat) /\ Len(pending') = 0
        BY <2>1, <2>2, LenProperties, EmptySeq DEF TypeOK
    <2>4. TypeOK'
        BY <2>1, <2>2, <2>3 DEF TypeOK, States, RunPcs
    <2>5. pending' = Bytes(base + Len(written) + Len(batch), 0)
        <3>1. base + Len(written) + Len(batch) \in Nat
            BY <2>1, <2>3 DEF TypeOK
        <3> QED
            BY <2>2, <2>3, <3>1, BytesEmpty
    <2>6. Parts' /\ InFlight' /\ Bound' /\ Lifecycle'
        BY <2>1, <2>2, <2>3, <2>5 DEF Parts, InFlight, Bound, Lifecycle
    <2>7. Accounting'
        BY <2>1, <2>2 DEF Accounting, Live
    <2> QED
        BY <2>4, <2>6, <2>7 DEF DeliveryInv
<1>2. ASSUME DeliveryInv, Report
      PROVE  DeliveryInv'
    <2>1. TypeOK /\ InFlight /\ Parts /\ Accounting /\ Bound /\ Lifecycle
        BY <1>2 DEF DeliveryInv
    <2>2. /\ UNCHANGED <<base, end, pending, startOffset, state, batch, batchOffset, written, stopPc>>
          /\ runPc = "reporting" /\ runPc' = "returned" /\ reports' = reports + 1
        BY <1>2 DEF Report, runVars, queueVars
    <2>3. TypeOK'
        BY <2>1, <2>2 DEF TypeOK, RunPcs
    <2>4. Parts' /\ InFlight' /\ Bound' /\ Lifecycle'
        BY <2>1, <2>2 DEF Parts, InFlight, Bound, Lifecycle
    <2>5. Accounting'
        BY <2>1, <2>2 DEF Accounting, Live
    <2> QED
        BY <2>3, <2>4, <2>5 DEF DeliveryInv
<1> QED
    BY <1>1, <1>2

\* A step that changes nothing keeps the invariant.
LEMMA StutterInv == DeliveryInv /\ UNCHANGED vars => DeliveryInv'
<1> SUFFICES ASSUME DeliveryInv, UNCHANGED vars
             PROVE  DeliveryInv'
    OBVIOUS
<1> QED
    BY DEF DeliveryInv, TypeOK, InFlight, Parts, Accounting, Bound, Lifecycle,
           Live, vars, queueVars, runVars

\* The invariant is inductive and holds in every reachable state.
THEOREM DeliveryInvariant == Spec => []DeliveryInv
<1>1. DeliveryInv /\ [Next]_vars => DeliveryInv'
    BY EnqueueInv, StopInv, DrainInv, WriteInv, FailInv, StutterInv DEF Next, Run
<1> QED
    BY InitInv, <1>1, PTL DEF Spec

\* Every variable keeps its type, whatever the bounds.
THEOREM DeliveryTypeCorrect == Spec => []TypeOK
    BY DeliveryInvariant, PTL DEF DeliveryInv

\* The invariant, cut in three parts, gives back the whole stream.
LEMMA InvSkipsNothing == DeliveryInv => NothingSkipped
<1> SUFFICES ASSUME DeliveryInv
             PROVE  NothingSkipped
    OBVIOUS
<1>1. TypeOK /\ Parts /\ Accounting
    BY DEF DeliveryInv
<1>0. base \in Nat
    BY <1>1 DEF TypeOK
<1>2. Len(written) \in Nat /\ Len(batch) \in Nat /\ Len(pending) \in Nat
    BY <1>1, LenProperties DEF TypeOK
<1>3. /\ written \o batch \in Seq(Nat)
      /\ Len(written \o batch) = Len(written) + Len(batch)
      /\ Len(Accepted) = Len(written) + Len(batch) + Len(pending)
    BY <1>1, <1>2, ConcatProperties DEF TypeOK, Accepted
<1>4. ASSUME runPc # "failing"
      PROVE  Accepted = Bytes(base, Len(Accepted))
    <2> DEFINE m == Len(written) + Len(batch)
    <2>1. written \o batch = Bytes(base, m)
        <3>1. Bytes(base, Len(written)) \o Bytes(base + Len(written), Len(batch))
                 = Bytes(base, Len(written) + Len(batch))
            BY <1>0, <1>2, BytesConcat
        <3> QED
            BY <1>1, <3>1 DEF Parts
    <2>2. pending = Bytes(base + m, Len(pending))
        <3>1. base + m = base + Len(written) + Len(batch)
            BY <1>1, <1>2 DEF TypeOK
        <3> QED
            BY <1>1, <1>4, <3>1 DEF Parts
    <2>3. m \in Nat
        BY <1>2
    <2> HIDE DEF m
    <2>4. Bytes(base, m) \o Bytes(base + m, Len(pending)) = Bytes(base, m + Len(pending))
        BY <1>0, <1>2, <2>3, BytesConcat
    <2> USE DEF m
    <2> QED
        BY <1>3, <2>1, <2>2, <2>4 DEF Accepted
<1> QED
    BY <1>1, <1>3, <1>4 DEF NothingSkipped, Parts, Accounting, Live

\* No byte is dropped, repeated or reordered between the pump and the socket,
\* for every queue bound (delivery.go:27).
THEOREM DeliverySkipsNothing == Spec => []NothingSkipped
    BY DeliveryInvariant, InvSkipsNothing, PTL

\* Every frame announces the offset of its first byte.
THEOREM DeliveryFramesTruthful == Spec => []FrameOffsetTruthful
<1>1. DeliveryInv => FrameOffsetTruthful
    BY DEF DeliveryInv, InFlight, FrameOffsetTruthful
<1> QED
    BY DeliveryInvariant, <1>1, PTL

\* A client that does not read costs the server one queue and one chunk.
QueueBounded ==
    /\ Len(pending) <= MaxBytes + MaxChunk
    /\ state = "running" => Len(pending) <= MaxBytes

\* The memory a slow client pins is bounded by the queue and one chunk.
THEOREM DeliveryQueueBounded == Spec => []QueueBounded
<1>1. DeliveryInv => QueueBounded
    BY DEF DeliveryInv, Bound, QueueBounded
<1> QED
    BY DeliveryInvariant, <1>1, PTL

\* A dead delivery is reported at most once, with its queue released.
THEOREM DeliveryReportedOnce == Spec => []ReportedOnceDead
<1>1. DeliveryInv => ReportedOnceDead
    BY DEF DeliveryInv, Lifecycle, ReportedOnceDead
<1> QED
    BY DeliveryInvariant, <1>1, PTL

\* Whoever gives the sleeping goroutine something to do wakes it.
LEMMA SleepStep ==
    ASSUME SleepsOnlyIdle, [Next]_vars
    PROVE  SleepsOnlyIdle'
<1> SUFFICES ASSUME runPc' = "waiting"
             PROVE  pending' = << >> /\ (state' = "running" \/ stopPc' = "signal")
    BY DEF SleepsOnlyIdle
<1>1. CASE Enqueue
    <2>1. EnqueueIgnored /\ UNCHANGED stopPc
        BY <1>1 DEF Enqueue, EnqueueKept, Signal
    <2> QED
        BY <2>1 DEF EnqueueIgnored, queueVars, SleepsOnlyIdle
<1>2. CASE Stop
    BY <1>2 DEF Stop
<1>3. CASE StopSignal
    BY <1>3 DEF StopSignal, Signal
<1>4. CASE DrainWait
    BY <1>4 DEF DrainWait, queueVars
<1>5. CASE DrainStopped
    <2>1. state # "running" /\ runPc' \in {"returned", "failing"}
        BY <1>5 DEF DrainStopped
    <2> QED
        BY <2>1
<1>6. CASE DrainBatch \/ WriteOK \/ WriteError \/ Fail \/ Report
    BY <1>6 DEF DrainBatch, WriteOK, WriteError, Fail, Report
<1>7. CASE UNCHANGED vars
    BY <1>7 DEF vars, queueVars, SleepsOnlyIdle
<1> QED
    BY <1>1, <1>2, <1>3, <1>4, <1>5, <1>6, <1>7 DEF Next, Run

\* No wakeup is lost: the goroutine never sleeps on a queue that holds bytes, nor on
\* a delivery that has ended and nobody is about to signal.
THEOREM DeliverySleepsIdle == Spec => []SleepsOnlyIdle
<1>1. Init => SleepsOnlyIdle
    BY DEF Init, SleepsOnlyIdle
<1> QED
    BY <1>1, SleepStep, PTL DEF Spec

(***************************************************************************)
(* The refinement: a delivery is a PrefixStream.                           *)
(***************************************************************************)

\* The initial states are initial states of the promise.
LEMMA PromiseInit == Init => Promise!Init
    BY DeliveryAssumption DEF Init, Promise!Init

\* Every step of the delivery is a step of the promise or changes nothing of it.
LEMMA PromiseStep ==
    DeliveryInv /\ DeliveryInv' /\ [Next]_vars => [Promise!Next]_(Promise!svars)
<1> SUFFICES ASSUME DeliveryInv, DeliveryInv', [Next]_vars
             PROVE  [Promise!Next]_(Promise!svars)
    OBVIOUS
<1> DEFINE closed == runPc \in {"failing", "reporting", "returned"}
<1>1. TypeOK /\ TypeOK' /\ InFlight /\ Parts' /\ Accounting'
    BY DEF DeliveryInv
<1>2. CASE Enqueue
    <2>1. end' \in Nat /\ end' > end
        BY <1>1, <1>2, DeliveryAssumption DEF Enqueue, TypeOK
    <2>2. UNCHANGED <<base, written>> /\ closed' = closed
        BY <1>2 DEF Enqueue, EnqueueIgnored, EnqueueKept, Signal, runVars, queueVars
    <2> QED
        BY <2>1, <2>2 DEF Promise!Next, Promise!Produce
<1>3. CASE Stop \/ StopSignal \/ DrainBatch \/ DrainWait \/ Fail \/ Report \/ UNCHANGED vars
    <2>1. UNCHANGED <<base, end, written>> /\ closed' = closed
        BY <1>3 DEF Stop, StopSignal, DrainBatch, DrainWait, Fail, Report, vars,
                    Signal, runVars, queueVars
    <2> QED
        BY <2>1 DEF Promise!svars
<1>4. CASE DrainStopped
    <2>1. UNCHANGED <<base, end, written>> /\ ~closed /\ closed'
        BY <1>4 DEF DrainStopped, runVars
    <2> QED
        BY <2>1 DEF Promise!Next, Promise!Close
<1>5. ASSUME EndWrite(TRUE)
      PROVE  \E n \in Len(written)+1 .. end - base : written' = Promise!Bytes(base, n)
    <2>1. written' = written \o batch /\ base' = base /\ end' = end /\ batch # << >>
        BY <1>1, <1>5 DEF EndWrite, InFlight
    <2>2. /\ Len(written) \in Nat /\ Len(batch) \in Nat /\ Len(batch) # 0
          /\ Len(written') = Len(written) + Len(batch)
        BY <1>1, <2>1, LenProperties, EmptySeq, ConcatProperties DEF TypeOK
    <2>3. written' = Bytes(base, Len(written'))
        BY <1>1, <2>1 DEF Parts
    <2>4. base + Len(written') <= end
        BY <1>1, <2>1 DEF Accounting
    <2>5. Len(written') \in Len(written)+1 .. end - base
        BY <1>1, <2>2, <2>4 DEF TypeOK
    <2> QED
        BY <2>3, <2>5 DEF Bytes, Promise!Bytes
<1>6. CASE WriteOK
    <2>1. EndWrite(TRUE) /\ UNCHANGED <<base, end>> /\ ~closed /\ closed' = closed
        BY <1>6 DEF WriteOK, EndWrite
    <2> QED
        BY <1>5, <2>1 DEF Promise!Next, Promise!Deliver
<1>7. CASE WriteError
    <2>1. UNCHANGED <<base, end>> /\ ~closed /\ closed'
        BY <1>7 DEF WriteError, EndWrite
    <2>2. CASE EndWrite(TRUE)
        BY <1>5, <2>1, <2>2 DEF Promise!Next, Promise!DeliverAndClose
    <2>3. CASE EndWrite(FALSE)
        <3>1. written' = written
            BY <2>3 DEF EndWrite
        <3> QED
            BY <2>1, <3>1 DEF Promise!Next, Promise!Close
    <2> QED
        BY <1>7, <2>2, <2>3 DEF WriteError
<1> QED
    BY <1>2, <1>3, <1>4, <1>6, <1>7 DEF Next, Run

\* The delivery keeps the promise of PrefixStream to its listener, for every
\* bound on the queue, the chunks and the stream.
THEOREM DeliveryKeepsPromise == Spec => ImplementsPromise
<1>1. Init => Promise!Init
    BY PromiseInit
<1>2. DeliveryInv /\ DeliveryInv' /\ [Next]_vars => [Promise!Next]_(Promise!svars)
    BY PromiseStep
<1> QED
    BY <1>1, <1>2, DeliveryInvariant, PTL DEF Spec, ImplementsPromise, Promise!Spec
=============================================================================
