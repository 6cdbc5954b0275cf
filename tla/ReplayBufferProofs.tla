-------------------------- MODULE ReplayBufferProofs --------------------------
(***************************************************************************)
(* What the replay ring keeps and what its readers get, for every          *)
(* capacity, every chunk size and every placement of newlines and          *)
(* continuation bytes:                                                     *)
(*   - ReplayInv, the inductive invariant, and the types it contains;      *)
(*   - SliceFrom returns the bytes behind the offset, or nil;              *)
(*   - a fresh attach is sent the true end of the stream;                  *)
(*   - the ring implements TrailingWindow.                                 *)
(*                                                                         *)
(* The chunks are runs of consecutive bytes and each starts where the one  *)
(* before it stopped - except while Append evicts behind a chunk larger    *)
(* than the ring, of which only the end was kept (a Hole).  Everything     *)
(* before a hole is in excess, so the eviction does not end before the     *)
(* hole is gone, and a reader never meets one.                             *)
(***************************************************************************)
EXTENDS ReplayBuffer, SequenceTheorems, WellFoundedInduction, TLAPS

-----------------------------------------------------------------------------
(* The inductive invariant.                                                *)

\* The offset behind a chunk.
Stops(chunk) == chunk[1] + Len(chunk)

\* A chunk is consecutive bytes of the stream, and not empty.
IsRun(chunk) == Len(chunk) > 0 /\ chunk = Bytes(chunk[1], Len(chunk))

\* What the ring holds is runs, none larger than the ring.
RunInv ==
    \A k \in 1..Len(chunks) : IsRun(chunks[k]) /\ Len(chunks[k]) <= Capacity

\* The chunks lie in the order of the stream and end where it ends.
OrderInv ==
    /\ \A j, k \in 1..Len(chunks) : j < k => Stops(chunks[j]) <= chunks[k][1]
    /\ chunks # << >> => Stops(chunks[Len(chunks)]) = end

\* The newest chunk does not continue the one before it.
Hole ==
    /\ Len(chunks) > 1
    /\ chunks[Len(chunks)][1] # Stops(chunks[Len(chunks) - 1])

\* Older chunks continue each other; a hole is met only inside Append, before a
\* chunk that fills the ring.
ChainInv ==
    /\ \A k \in 2..Len(chunks) - 1 : chunks[k][1] = Stops(chunks[k - 1])
    /\ Hole => pc = "evict" /\ Len(chunks[Len(chunks)]) = Capacity

\* b.stored is the number of bytes in the chunks.
StoredInv ==
    stored = IF chunks = << >> THEN 0
             ELSE IF Hole THEN Stops(chunks[Len(chunks) - 1]) - chunks[1][1] + Capacity
             ELSE end - chunks[1][1]

\* Nothing is dropped while it fits, and nothing too many is left when Append is done.
RetainInv ==
    /\ stored = end \/ stored >= Capacity
    /\ pc = "idle" => stored <= Capacity
    /\ pc = "evict" => chunks # << >>

\* The inductive invariant.
ReplayInv == TypeOK /\ RunInv /\ OrderInv /\ ChainInv /\ StoredInv /\ RetainInv

-----------------------------------------------------------------------------
(* Runs of bytes.                                                          *)

\* The type, the length and the elements of a run.
LEMMA BytesFacts ==
    ASSUME NEW from \in Nat, NEW n \in Nat
    PROVE  /\ Bytes(from, n) \in Seq(Nat) /\ Len(Bytes(from, n)) = n
           /\ \A i \in 1 .. n : Bytes(from, n)[i] = from + i - 1
           /\ \A last \in Nat : from + n <= last => Bytes(from, n) \in Seq(0 .. last - 1)
<1>1. Bytes(from, n) = [i \in 1 .. n |-> from + i - 1]
    BY DEF Bytes
<1>2. \A i \in 1 .. n : from + i - 1 \in Nat
    OBVIOUS
<1>3. \A last \in Nat : from + n <= last => \A i \in 1 .. n : from + i - 1 \in 0 .. last - 1
    OBVIOUS
<1> QED
    BY <1>1, <1>2, <1>3

\* Cutting a run leaves a run.
LEMMA FromBytes ==
    ASSUME NEW from \in Nat, NEW n \in Nat, NEW m \in 0 .. n
    PROVE  From(Bytes(from, n), m) = Bytes(from + m, n - m)
<1>1. /\ Bytes(from, n) \in Seq(Nat) /\ Len(Bytes(from, n)) = n
      /\ \A i \in 1 .. n : Bytes(from, n)[i] = from + i - 1
    BY BytesFacts
<1>2. /\ Bytes(from + m, n - m) \in Seq(Nat) /\ Len(Bytes(from + m, n - m)) = n - m
      /\ \A i \in 1 .. n - m : Bytes(from + m, n - m)[i] = from + m + i - 1
    BY BytesFacts, from + m \in Nat, n - m \in Nat
<1>3. From(Bytes(from, n), m) = SubSeq(Bytes(from, n), m + 1, n)
    BY <1>1 DEF From
<1>4. /\ SubSeq(Bytes(from, n), m + 1, n) \in Seq(Nat)
      /\ Len(SubSeq(Bytes(from, n), m + 1, n)) = n - m
      /\ \A i \in 1 .. n - m : SubSeq(Bytes(from, n), m + 1, n)[i] = from + m + i - 1
    BY <1>1, SubSeqProperties
<1> QED
    BY <1>2, <1>3, <1>4, SeqEqual

\* Adjacent runs join to a run.
LEMMA ConcatBytes ==
    ASSUME NEW from \in Nat, NEW m \in Nat, NEW n \in Nat
    PROVE  Bytes(from, m) \o Bytes(from + m, n) = Bytes(from, m + n)
<1>1. /\ Bytes(from, m) \in Seq(Nat) /\ Len(Bytes(from, m)) = m
      /\ \A i \in 1 .. m : Bytes(from, m)[i] = from + i - 1
    BY BytesFacts
<1>2. /\ Bytes(from + m, n) \in Seq(Nat) /\ Len(Bytes(from + m, n)) = n
      /\ \A i \in 1 .. n : Bytes(from + m, n)[i] = from + m + i - 1
    BY BytesFacts, from + m \in Nat
<1>3. /\ Bytes(from, m + n) \in Seq(Nat) /\ Len(Bytes(from, m + n)) = m + n
      /\ \A i \in 1 .. m + n : Bytes(from, m + n)[i] = from + i - 1
    BY BytesFacts, m + n \in Nat
<1>4. /\ Bytes(from, m) \o Bytes(from + m, n) \in Seq(Nat)
      /\ Len(Bytes(from, m) \o Bytes(from + m, n)) = m + n
      /\ \A i \in 1 .. m + n : (Bytes(from, m) \o Bytes(from + m, n))[i] = from + i - 1
    <2> DEFINE s == Bytes(from, m)
               t == Bytes(from + m, n)
    <2>1. /\ s \in Seq(Nat) /\ Len(s) = m /\ \A i \in 1 .. m : s[i] = from + i - 1
          /\ t \in Seq(Nat) /\ Len(t) = n /\ \A i \in 1 .. n : t[i] = from + m + i - 1
        BY <1>1, <1>2
    <2> HIDE DEF s, t
    <2>2. /\ s \o t \in Seq(Nat) /\ Len(s \o t) = Len(s) + Len(t)
          /\ \A i \in 1 .. Len(s) + Len(t) :
                 (s \o t)[i] = IF i <= Len(s) THEN s[i] ELSE t[i - Len(s)]
        BY <2>1, ConcatProperties
    <2>3. Len(s \o t) = m + n /\ \A i \in 1 .. m + n : (s \o t)[i] = from + i - 1
        BY <2>1, <2>2
    <2> QED
        BY <2>2, <2>3 DEF s, t
<1> QED
    BY <1>3, <1>4, SeqEqual

\* A run of no bytes is the empty sequence.
LEMMA NoBytesIsEmpty ==
    ASSUME NEW from \in Nat
    PROVE  Bytes(from, 0) = << >>
BY DEF Bytes

\* What Append keeps of a chunk is a run: the last bytes of it, at most a ring full.
LEMMA KeptIsRun ==
    ASSUME NEW from \in Nat, NEW n \in Nat \ {0}
    PROVE  LET k == IF n > Capacity THEN Capacity ELSE n
           IN  /\ Kept(Bytes(from, n)) = Bytes(from + n - k, k)
               /\ k \in 1 .. n /\ k <= Capacity
<1>1. Len(Bytes(from, n)) = n /\ Capacity \in Nat \ {0}
    BY BytesFacts, ReplayAssumption
<1>2. CASE n > Capacity
    <2>1. n - Capacity \in 0 .. n
        BY <1>1, <1>2
    <2>2. From(Bytes(from, n), n - Capacity)
            = Bytes(from + (n - Capacity), n - (n - Capacity))
        BY <2>1, FromBytes
    <2>3. from + (n - Capacity) = from + n - Capacity /\ n - (n - Capacity) = Capacity
        BY <1>1
    <2> QED
        BY <1>1, <1>2, <2>2, <2>3 DEF Kept
<1>3. CASE ~(n > Capacity)
    BY <1>1, <1>3 DEF Kept
<1> QED
    BY <1>2, <1>3

\* A run starts, stops and is as long as its parameters say.
LEMMA RunFacts ==
    ASSUME NEW from \in Nat, NEW n \in Nat \ {0}
    PROVE  /\ IsRun(Bytes(from, n)) /\ Stops(Bytes(from, n)) = from + n
           /\ Bytes(from, n)[1] = from /\ Len(Bytes(from, n)) = n
<1>1. Len(Bytes(from, n)) = n /\ \A i \in 1 .. n : Bytes(from, n)[i] = from + i - 1
    BY BytesFacts
<1>2. Bytes(from, n)[1] = from
    BY <1>1, 1 \in 1 .. n
<1> QED
    BY <1>1, <1>2 DEF IsRun, Stops

\* The type and the bounds of each chunk of the ring.
LEMMA ChunkTypes ==
    ASSUME TypeOK, RunInv, NEW k \in 1 .. Len(chunks)
    PROVE  /\ chunks[k] \in Seq(0 .. MaxEnd - 1) /\ chunks[k] \in Seq(Nat)
           /\ Len(chunks[k]) \in Nat \ {0} /\ chunks[k][1] \in Nat
           /\ Stops(chunks[k]) \in Nat /\ chunks[k][1] < Stops(chunks[k])
           /\ chunks[k] = Bytes(chunks[k][1], Len(chunks[k]))
<1>1. chunks[k] \in Seq(0 .. MaxEnd - 1)
    BY DEF TypeOK
<1>2. Len(chunks[k]) \in Nat \ {0} /\ chunks[k] = Bytes(chunks[k][1], Len(chunks[k]))
    BY <1>1 DEF RunInv, IsRun
<1>3. chunks[k][1] \in 0 .. MaxEnd - 1
    BY <1>1, <1>2, ElementOfSeq, 1 \in 1 .. Len(chunks[k])
<1>4. chunks[k] \in Seq(Nat)
    BY <1>1, SeqMonotonic, 0 .. MaxEnd - 1 \subseteq Nat
<1> QED
    BY <1>1, <1>2, <1>3, <1>4 DEF Stops

-----------------------------------------------------------------------------
(* Every step preserves the invariant.                                     *)

\* The empty ring satisfies the invariant.
LEMMA InitInvariant ==
    ASSUME Init PROVE ReplayInv
<1>1. Len(chunks) = 0 /\ chunks \in Seq(Seq(0 .. MaxEnd - 1))
    BY DEF Init
<1>2. TypeOK
    BY <1>1, ReplayAssumption DEF Init, TypeOK
<1> QED
    <2>1. chunks = << >> /\ stored = 0 /\ end = 0 /\ pc = "idle" /\ Capacity \in Nat \ {0}
        BY ReplayAssumption DEF Init
    <2>2. RunInv /\ OrderInv
        BY <1>1, <2>1 DEF RunInv, OrderInv
    <2>3. ChainInv /\ StoredInv /\ RetainInv
        BY <1>1, <2>1 DEF ChainInv, Hole, StoredInv, RetainInv
    <2> QED
        BY <1>2, <2>2, <2>3 DEF ReplayInv

\* A step that changes nothing preserves it.
LEMMA StutterInvariant ==
    ASSUME ReplayInv, UNCHANGED vars PROVE ReplayInv'
BY DEF ReplayInv, vars, TypeOK, RunInv, OrderInv, ChainInv, Hole, StoredInv, RetainInv,
       Stops, IsRun

\* The numbers of a state are numbers.
LEMMA Numbers ==
    ASSUME TypeOK
    PROVE  /\ Len(chunks) \in Nat /\ stored \in Nat /\ end \in Nat /\ end <= MaxEnd
           /\ Capacity \in Nat \ {0} /\ MaxEnd \in Nat
           /\ (chunks = << >> <=> Len(chunks) = 0)
<1>1. /\ chunks \in Seq(Seq(0 .. MaxEnd - 1)) /\ stored \in 0 .. 2 * Capacity
      /\ end \in 0 .. MaxEnd
    BY DEF TypeOK
<1>2. Capacity \in Nat \ {0} /\ MaxEnd \in Nat
    BY ReplayAssumption
<1>3. chunks = << >> <=> Len(chunks) = 0
    BY <1>1, EmptySeq
<1> QED
    BY <1>1, <1>2, <1>3, LenProperties

\* Append makes a hole only with a chunk larger than a ring that holds something.
LEMMA BeginAppendInvariant ==
    ASSUME ReplayInv, BeginAppend PROVE ReplayInv'
<1>1. PICK n \in 1 .. MaxChunk :
          /\ end + n <= MaxEnd
          /\ chunks' = Append(chunks, Kept(Bytes(end, n)))
          /\ stored' = stored + Len(Kept(Bytes(end, n)))
          /\ end' = end + n
    BY DEF BeginAppend
<1>2. /\ TypeOK /\ RunInv /\ OrderInv /\ ChainInv /\ StoredInv /\ RetainInv
      /\ pc = "idle" /\ pc' = "evict" /\ UNCHANGED text
    BY DEF ReplayInv, BeginAppend
<1>3. Len(chunks) \in Nat /\ stored \in Nat /\ end \in Nat /\ Capacity \in Nat \ {0}
    BY <1>2, Numbers
<1>4. n \in Nat \ {0} /\ MaxEnd \in Nat
    BY ReplayAssumption
<1> DEFINE kept == Kept(Bytes(end, n))
           size == IF n > Capacity THEN Capacity ELSE n
           N    == Len(chunks)
<1>5. kept = Bytes(end + n - size, size) /\ size \in 1 .. n /\ size <= Capacity
    BY <1>3, <1>4, KeptIsRun
<1>6. end + n - size \in Nat /\ size \in Nat \ {0}
    BY <1>3, <1>4, <1>5
<1>7. /\ IsRun(kept) /\ Stops(kept) = end + n
      /\ kept[1] = end + n - size /\ Len(kept) = size
    <2>1. (end + n - size) + size = end + n
        BY <1>3, <1>4, <1>6
    <2> HIDE DEF kept, size
    <2> QED
        BY <2>1, <1>5, <1>6, RunFacts
<1>8. kept \in Seq(0 .. MaxEnd - 1)
    <2>1. (end + n - size) + size <= MaxEnd
        BY <1>1, <1>3, <1>4, <1>6
    <2> HIDE DEF kept, size
    <2>2. Bytes(end + n - size, size) \in Seq(0 .. MaxEnd - 1)
        BY <2>1, <1>4, <1>6, BytesFacts
    <2> QED
        BY <2>2, <1>5
<1>9. chunks \in Seq(Seq(0 .. MaxEnd - 1))
    BY <1>2 DEF TypeOK
<1> HIDE DEF kept
<1>10. /\ chunks' \in Seq(Seq(0 .. MaxEnd - 1)) /\ Len(chunks') = N + 1
       /\ \A k \in 1 .. N : chunks'[k] = chunks[k]
       /\ chunks'[N + 1] = kept /\ chunks' # << >>
    BY <1>1, <1>8, <1>9, AppendProperties DEF kept
<1>11. stored' = stored + size /\ end' = end + n
    BY <1>1, <1>7 DEF kept
<1>12. stored <= Capacity /\ ~Hole
    BY <1>2 DEF RetainInv, ChainInv
<1>13. \A k \in 1 .. N : /\ Stops(chunks[k]) \in Nat /\ chunks[k][1] \in Nat
                         /\ Stops(chunks[k]) <= end /\ chunks[k][1] < Stops(chunks[k])
                         /\ Len(chunks[k]) \in Nat
    <2> SUFFICES ASSUME NEW k \in 1 .. N
                 PROVE  /\ Stops(chunks[k]) \in Nat /\ chunks[k][1] \in Nat
                         /\ Stops(chunks[k]) <= end /\ chunks[k][1] < Stops(chunks[k])
                         /\ Len(chunks[k]) \in Nat
        OBVIOUS
    <2>1. /\ Stops(chunks[k]) \in Nat /\ chunks[k][1] \in Nat
          /\ chunks[k][1] < Stops(chunks[k])
          /\ Len(chunks[k]) \in Nat
        BY <1>2, ChunkTypes
    <2>2. /\ Stops(chunks[N]) \in Nat /\ chunks[N][1] \in Nat
          /\ chunks[N][1] < Stops(chunks[N])
        BY <1>2, <1>3, ChunkTypes
    <2>3. Stops(chunks[N]) = end
        BY <1>2, <1>3, <1>9, EmptySeq DEF OrderInv
    <2>4. CASE k = N
        BY <2>1, <2>3, <2>4, <1>3
    <2>5. CASE k < N
        <3>1. Stops(chunks[k]) <= chunks[N][1]
            BY <1>2, <1>3, <2>5 DEF OrderInv
        <3> QED
            BY <2>1, <2>2, <2>3, <3>1, <1>3
    <2> QED
        BY <2>4, <2>5, <1>3
<1>14. N > 0 => Stops(chunks[N]) = end
    BY <1>2, <1>3, <1>9, EmptySeq DEF OrderInv
<1>15. \A k \in 2 .. N : chunks[k][1] = Stops(chunks[k - 1])
    <2> SUFFICES ASSUME NEW k \in 2 .. N PROVE chunks[k][1] = Stops(chunks[k - 1])
        OBVIOUS
    <2>1. CASE k \in 2 .. N - 1
        BY <2>1, <1>2 DEF ChainInv
    <2>2. CASE k = N
        <3>1. N > 1
            BY <2>2, <1>3
        <3> QED
            BY <3>1, <2>2, <1>12 DEF Hole
    <2> QED
        BY <2>1, <2>2, <1>3
<1>16. N > 0 => end - chunks[1][1] = stored
    BY <1>2, <1>3, <1>9, <1>12, EmptySeq DEF StoredInv
<1>17. N = 0 => stored = 0
    BY <1>2, <1>3, <1>9, EmptySeq DEF StoredInv
<1>18. N = 0 => end = 0
    BY <1>17, <1>2, <1>3 DEF RetainInv
<1>19. TypeOK'
    <2>1. stored' \in 0 .. 2 * Capacity
        BY <1>3, <1>4, <1>5, <1>11, <1>12
    <2>2. end' \in 0 .. MaxEnd
        BY <1>1, <1>3, <1>4, <1>11
    <2> QED
        BY <2>1, <2>2, <1>1, <1>2, <1>10 DEF TypeOK
<1>20. RunInv'
    <2> SUFFICES ASSUME NEW k \in 1 .. N + 1
                 PROVE  IsRun(chunks'[k]) /\ Len(chunks'[k]) <= Capacity
        BY <1>10 DEF RunInv, IsRun
    <2>1. CASE k = N + 1
        BY <2>1, <1>5, <1>7, <1>10
    <2>2. CASE k \in 1 .. N
        BY <2>2, <1>2, <1>10 DEF RunInv
    <2> QED
        BY <2>1, <2>2, <1>3
<1>21. OrderInv'
    <2>1. \A j, k \in 1 .. N + 1 : j < k => Stops(chunks'[j]) <= chunks'[k][1]
        <3> SUFFICES ASSUME NEW j \in 1 .. N + 1, NEW k \in 1 .. N + 1, j < k
                     PROVE  Stops(chunks'[j]) <= chunks'[k][1]
            OBVIOUS
        <3>1. j \in 1 .. N /\ chunks'[j] = chunks[j]
            BY <1>3, <1>10
        <3>2. CASE k = N + 1
            BY <3>1, <3>2, <1>3, <1>4, <1>5, <1>7, <1>10, <1>13
        <3>3. CASE k \in 1 .. N
            BY <3>1, <3>3, <1>2, <1>10 DEF OrderInv
        <3> QED
            BY <3>2, <3>3, <1>3
    <2>2. Stops(chunks'[Len(chunks')]) = end'
        BY <1>7, <1>10, <1>11
    <2> QED
        BY <2>1, <2>2, <1>10 DEF OrderInv, Stops
<1>22. Hole' <=> N > 0 /\ n > Capacity
    <2>1. Hole' <=> N + 1 > 1 /\ kept[1] # Stops(chunks'[N])
        BY <1>3, <1>10, N + 1 - 1 = N DEF Hole, Stops
    <2>2. N > 0 => Stops(chunks'[N]) = end
        <3> SUFFICES ASSUME N > 0 PROVE Stops(chunks'[N]) = end
            OBVIOUS
        <3>1. N \in 1 .. N
            BY <1>3
        <3>2. chunks'[N] = chunks[N]
            BY <3>1, <1>10
        <3> QED
            BY <3>2, <1>14
    <2>3. kept[1] = end <=> ~(n > Capacity)
        BY <1>3, <1>4, <1>7
    <2> QED
        BY <2>1, <2>2, <2>3, <1>3
<1>23. ChainInv'
    <2>1. \A k \in 2 .. N : chunks'[k][1] = Stops(chunks'[k - 1])
        BY <1>3, <1>10, <1>15, \A k \in 2 .. N : k \in 1 .. N /\ k - 1 \in 1 .. N
    <2>2. Hole' => pc' = "evict" /\ Len(chunks'[Len(chunks')]) = Capacity
        BY <1>2, <1>7, <1>10, <1>22
    <2> QED
        BY <2>1, <2>2, <1>3, <1>10 DEF ChainInv, Stops
<1>24. StoredInv'
    <2>1. CASE N = 0
        <3>1. ~Hole' /\ chunks'[1] = kept
            BY <2>1, <1>10, <1>22
        <3> QED
            BY <2>1, <3>1, <1>3, <1>4, <1>7, <1>10, <1>11, <1>17, <1>18 DEF StoredInv
    <2>2. CASE N > 0
        <3>1. chunks'[1] = chunks[1] /\ chunks[1][1] \in Nat
            BY <2>2, <1>3, <1>10, <1>13
        <3>2. chunks'[Len(chunks') - 1] = chunks[N] /\ Stops(chunks[N]) = end
            BY <2>2, <1>3, <1>10, <1>14
        <3>3. CASE n > Capacity
            BY <2>2, <3>1, <3>2, <3>3, <1>3, <1>10, <1>11, <1>16, <1>22 DEF StoredInv, Stops
        <3>4. CASE ~(n > Capacity)
            <4>1. ~Hole' /\ size = n /\ stored = end - chunks[1][1]
                BY <2>2, <3>4, <1>16, <1>22
            <4>2. stored' = end' - chunks'[1][1]
                BY <4>1, <3>1, <1>3, <1>4, <1>11
            <4> QED
                BY <4>1, <4>2, <1>10 DEF StoredInv
        <3> QED
            BY <3>3, <3>4
    <2> QED
        BY <2>1, <2>2, <1>3
<1>25. RetainInv'
    BY <1>2, <1>3, <1>4, <1>5, <1>10, <1>11 DEF RetainInv
<1> QED
    BY <1>19, <1>20, <1>21, <1>23, <1>24, <1>25 DEF ReplayInv

\* Dropping the head: never the only chunk, because one chunk is never in excess.
LEMMA EvictChunkInvariant ==
    ASSUME ReplayInv, EvictChunk PROVE ReplayInv'
<1>1. /\ TypeOK /\ RunInv /\ OrderInv /\ ChainInv /\ StoredInv /\ RetainInv
      /\ pc = "evict" /\ UNCHANGED <<end, pc, text>> /\ chunks # << >>
      /\ Len(Head(chunks)) <= stored - Capacity /\ stored - Capacity > 0
      /\ chunks' = Tail(chunks) /\ stored' = stored - Len(Head(chunks))
    BY DEF ReplayInv, EvictChunk, Excess
<1>2. PICK N \in Nat : Len(chunks) = N
    BY <1>1, Numbers
<1>3. /\ Len(chunks) = N /\ stored \in Nat /\ end \in Nat /\ Capacity \in Nat \ {0}
      /\ stored <= 2 * Capacity
    BY <1>2, <1>1, Numbers DEF TypeOK
<1> DEFINE C == Seq(0 .. MaxEnd - 1)
<1>4. chunks \in Seq(C) /\ N > 0
    BY <1>2, <1>1, Numbers DEF TypeOK
<1>5. /\ chunks' \in Seq(C) /\ Len(chunks') = N - 1
      /\ \A k \in 1 .. N - 1 : chunks'[k] = chunks[k + 1]
      /\ Head(chunks) = chunks[1]
    <2> HIDE DEF C
    <2> QED
        BY <1>1, <1>3, <1>4, HeadTailProperties
<1>6. \A k \in 1 .. N : /\ Stops(chunks[k]) \in Nat /\ chunks[k][1] \in Nat
                        /\ Len(chunks[k]) \in Nat
                        /\ Stops(chunks[k]) = chunks[k][1] + Len(chunks[k])
                        /\ Len(chunks[k]) <= Capacity /\ Len(chunks[k]) > 0
    <2> SUFFICES ASSUME NEW k \in 1 .. N
                 PROVE  /\ Stops(chunks[k]) \in Nat /\ chunks[k][1] \in Nat
                        /\ Len(chunks[k]) \in Nat
                        /\ Stops(chunks[k]) = chunks[k][1] + Len(chunks[k])
                        /\ Len(chunks[k]) <= Capacity /\ Len(chunks[k]) > 0
        OBVIOUS
    <2>1. k \in 1 .. Len(chunks)
        BY <1>3
    <2>2. /\ Len(chunks[k]) \in Nat \ {0} /\ chunks[k][1] \in Nat
          /\ Stops(chunks[k]) \in Nat
        BY <2>1, <1>1, ChunkTypes
    <2>3. Stops(chunks[k]) = chunks[k][1] + Len(chunks[k])
        BY DEF Stops
    <2>4. Len(chunks[k]) <= Capacity
        BY <2>1, <1>1 DEF RunInv
    <2> QED
        BY <2>2, <2>3, <2>4
<1>7. PICK n \in Nat : n = Len(chunks[1])
    <2>1. chunks[1] \in C
        BY <1>3, <1>4, 1 \in 1 .. Len(chunks), ElementOfSeq
    <2> QED
        BY <2>1, LenProperties
<1>8. /\ n > 0 /\ stored' = stored - n /\ n <= stored - Capacity
      /\ Stops(chunks[1]) = chunks[1][1] + n
    BY <1>1, <1>4, <1>5, <1>6, <1>7, 1 \in 1 .. N
<1>9. stored' \in Nat /\ stored' >= Capacity /\ stored' <= 2 * Capacity
    BY <1>3, <1>8
<1>10. Stops(chunks[N]) = end
    BY <1>1, <1>3 DEF OrderInv
<1>11. N > 1
    <2> SUFFICES ASSUME N = 1 PROVE FALSE
        BY <1>3, <1>4
    <2>1. ~Hole
        BY <1>3 DEF Hole
    <2>2. stored = end - chunks[1][1]
        BY <2>1, <1>1 DEF StoredInv
    <2>3. stored = Len(chunks[1])
        BY <2>2, <1>3, <1>6, <1>10
    <2> QED
        BY <2>3, <1>1, <1>3, <1>6
<1>12. /\ chunks[1][1] \in Nat /\ chunks[2][1] \in Nat /\ Stops(chunks[N]) \in Nat
      /\ Stops(chunks[2]) \in Nat /\ Stops(chunks[N - 1]) \in Nat
    BY <1>3, <1>6, <1>11, 1 \in 1 .. N, 2 \in 1 .. N, N - 1 \in 1 .. N
<1>13. /\ stored' = stored - n /\ stored \in Nat /\ end \in Nat /\ Capacity \in Nat
      /\ Stops(chunks[1]) = chunks[1][1] + n /\ chunks[1][1] \in Nat
      /\ chunks[2][1] \in Nat /\ Stops(chunks[N - 1]) \in Nat
    BY <1>3, <1>8, <1>12
<1>14. Hole' <=> N > 2 /\ Hole
    <2>1. CASE N = 2
        BY <2>1, <1>5 DEF Hole
    <2>2. CASE N > 2
        <3>1. chunks'[Len(chunks')] = chunks[N] /\ chunks'[Len(chunks') - 1] = chunks[N - 1]
            BY <2>2, <1>3, <1>5
        <3> QED
            BY <2>2, <3>1, <1>3, <1>5 DEF Hole, Stops
    <2> QED
        BY <2>1, <2>2, <1>3, <1>11
<1>15. TypeOK'
    <2>1. stored' \in 0 .. 2 * Capacity
        BY <1>3, <1>9
    <2>2. /\ end' \in 0 .. MaxEnd /\ pc' \in {"idle", "evict"}
          /\ text' \in [0 .. MaxEnd - 1 -> Kinds]
        BY <1>1 DEF TypeOK
    <2> QED
        BY <2>1, <2>2, <1>5 DEF TypeOK
<1>16. RunInv'
    <2> SUFFICES ASSUME NEW k \in 1 .. N - 1
                 PROVE  IsRun(chunks'[k]) /\ Len(chunks'[k]) <= Capacity
        BY <1>5 DEF RunInv, IsRun
    <2> QED
        BY <1>1, <1>3, <1>5, k + 1 \in 1 .. N DEF RunInv
<1>17. OrderInv'
    <2>1. ASSUME NEW j \in 1 .. N - 1, NEW k \in 1 .. N - 1, j < k
          PROVE  Stops(chunks'[j]) <= chunks'[k][1]
        <3>1. chunks'[j] = chunks[j + 1] /\ chunks'[k] = chunks[k + 1]
            BY <1>5
        <3>2. j + 1 \in 1 .. N /\ k + 1 \in 1 .. N /\ j + 1 < k + 1
            BY <2>1, <1>3
        <3> QED
            BY <3>1, <3>2, <1>1, <1>3 DEF OrderInv
    <2>2. chunks'[Len(chunks')] = chunks[N]
        BY <1>3, <1>5, <1>11
    <2> QED
        BY <2>1, <2>2, <1>1, <1>5, <1>10 DEF OrderInv, Stops
<1>18. ChainInv'
    <2>1. ASSUME NEW k \in 2 .. N - 2
          PROVE  chunks'[k][1] = Stops(chunks'[k - 1])
        <3>1. chunks'[k] = chunks[k + 1] /\ chunks'[k - 1] = chunks[k]
            BY <1>3, <1>5
        <3>2. k + 1 \in 2 .. N - 1 /\ k + 1 - 1 = k
            BY <1>3
        <3> QED
            BY <3>1, <3>2, <1>1, <1>3 DEF ChainInv
    <2>2. Hole' => pc' = "evict" /\ Len(chunks'[Len(chunks')]) = Capacity
        <3>1. chunks'[Len(chunks')] = chunks[N]
            BY <1>3, <1>5, <1>11
        <3> QED
            BY <3>1, <1>1, <1>3, <1>14 DEF ChainInv
    <2> QED
        BY <2>1, <2>2, <1>3, <1>5 DEF ChainInv, Stops
<1>19. StoredInv'
    <2>1. chunks' # << >> /\ chunks'[1] = chunks[2] /\ stored' = stored - n
        <3>1. Len(chunks') # 0 /\ 1 \in 1 .. N - 1
            BY <1>5, <1>11
        <3> QED
            BY <3>1, <1>5, <1>8, EmptySeq
    <2>2. CASE ~Hole
        <3>1. stored = end - chunks[1][1]
            BY <2>2, <1>1 DEF StoredInv
        <3>2. chunks[2][1] = Stops(chunks[1])
            <4>1. CASE N = 2
                BY <4>1, <2>2, <1>3 DEF Hole
            <4>2. CASE N > 2
                BY <4>2, <1>1, <1>3, 2 \in 2 .. N - 1 DEF ChainInv
            <4> QED
                BY <4>1, <4>2, <1>3, <1>11
        <3>3. stored' = end - chunks[2][1]
            BY <3>1, <3>2, <1>13
        <3> QED
            BY <3>3, <2>1, <2>2, <1>1, <1>14 DEF StoredInv
    <2>3. CASE Hole /\ N = 2
        <3>1. stored = Stops(chunks[1]) - chunks[1][1] + Capacity
            BY <2>3, <1>1, <1>3 DEF StoredInv
        <3>2. Capacity = end - chunks[2][1]
            <4>1. Len(chunks[2]) = Capacity /\ Stops(chunks[2]) = end
                BY <2>3, <1>1, <1>3, <1>10 DEF ChainInv
            <4> QED
                BY <4>1, <1>3, <1>12 DEF Stops
        <3>3. stored' = end - chunks[2][1]
            BY <3>1, <3>2, <1>13
        <3> QED
            BY <3>3, <2>1, <2>3, <1>1, <1>14 DEF StoredInv
    <2>4. CASE Hole /\ N > 2
        <3>1. stored = Stops(chunks[N - 1]) - chunks[1][1] + Capacity
            BY <2>4, <1>1, <1>3 DEF StoredInv
        <3>2. chunks[2][1] = Stops(chunks[1])
            BY <2>4, <1>1, <1>3, 2 \in 2 .. N - 1 DEF ChainInv
        <3>3. stored' = Stops(chunks[N - 1]) - chunks[2][1] + Capacity
            BY <3>1, <3>2, <1>13
        <3>4. chunks'[Len(chunks') - 1] = chunks[N - 1]
            BY <2>4, <1>3, <1>5
        <3> QED
            BY <3>3, <3>4, <2>1, <2>4, <1>1, <1>14 DEF StoredInv, Stops
    <2> QED
        BY <2>2, <2>3, <2>4, <1>3, <1>11
<1>20. RetainInv'
    <2>1. Len(chunks') # 0
        BY <1>5, <1>11
    <2> QED
        BY <2>1, <1>1, <1>5, <1>9, EmptySeq DEF RetainInv
<1> QED
    BY <1>15, <1>16, <1>17, <1>18, <1>19, <1>20 DEF ReplayInv

\* While there is a hole, all of the head is in excess: EvictPart and EndAppend have to
\* wait until EvictChunk has dropped everything before the hole.
LEMMA HoleGoesFirst ==
    ASSUME TypeOK, RunInv, OrderInv, StoredInv, Hole
    PROVE  stored - Capacity >= Len(chunks[1]) /\ stored - Capacity > 0
<1>1. PICK N \in Nat : Len(chunks) = N
    BY Numbers
<1>2. PICK M \in Int : M = N - 1
    BY <1>1
<1>3. /\ Len(chunks) = M + 1 /\ stored \in Nat /\ Capacity \in Nat \ {0}
      /\ M \in Nat /\ M >= 1 /\ chunks # << >>
    BY <1>1, <1>2, Numbers DEF Hole
<1>4. stored = Stops(chunks[M]) - chunks[1][1] + Capacity
    BY <1>3 DEF StoredInv
<1>5. /\ Len(chunks[1]) \in Nat \ {0} /\ chunks[1][1] \in Nat
      /\ Stops(chunks[1]) = chunks[1][1] + Len(chunks[1])
    BY <1>3, 1 \in 1 .. Len(chunks), ChunkTypes DEF Stops
<1>6. /\ Stops(chunks[M]) \in Nat /\ chunks[M][1] \in Nat /\ chunks[M][1] < Stops(chunks[M])
    BY <1>3, M \in 1 .. Len(chunks), ChunkTypes
<1>7. Stops(chunks[1]) <= Stops(chunks[M])
    <2>1. CASE M = 1
        BY <2>1, <1>6
    <2>2. CASE M > 1
        <3>1. Stops(chunks[1]) <= chunks[M][1]
            BY <2>2, <1>3, 1 \in 1 .. Len(chunks), M \in 1 .. Len(chunks) DEF OrderInv
        <3> QED
            BY <3>1, <1>5, <1>6
    <2> QED
        BY <2>1, <2>2, <1>3
<1> QED
    BY <1>3, <1>4, <1>5, <1>6, <1>7

\* Cutting the head leaves a run that stops where the head stopped.
LEMMA EvictPartInvariant ==
    ASSUME ReplayInv, EvictPart PROVE ReplayInv'
<1>1. PICK N \in Nat : Len(chunks) = N
    BY Numbers DEF ReplayInv
<1> DEFINE C == Seq(0 .. MaxEnd - 1)
           cut == stored - Capacity
<1>2. /\ TypeOK /\ RunInv /\ OrderInv /\ ChainInv /\ StoredInv /\ RetainInv
      /\ pc = "evict" /\ UNCHANGED <<end, pc, text>> /\ chunks # << >>
      /\ Len(Head(chunks)) > cut /\ cut > 0
      /\ chunks' = [chunks EXCEPT ![1] = From(chunks[1], cut)] /\ stored' = stored - cut
    BY DEF ReplayInv, EvictPart, Excess
<1>3. /\ Len(chunks) = N /\ stored \in Nat /\ end \in Nat /\ Capacity \in Nat \ {0}
      /\ stored <= 2 * Capacity /\ N > 0
    BY <1>1, <1>2, Numbers DEF TypeOK
<1>4. chunks \in Seq(C) /\ Head(chunks) = chunks[1]
    BY <1>2 DEF TypeOK
<1>5. \A k \in 1 .. N : /\ Stops(chunks[k]) \in Nat /\ chunks[k][1] \in Nat
                        /\ Len(chunks[k]) \in Nat
                        /\ Stops(chunks[k]) = chunks[k][1] + Len(chunks[k])
                        /\ Len(chunks[k]) <= Capacity /\ Len(chunks[k]) > 0
    <2> SUFFICES ASSUME NEW k \in 1 .. N
                 PROVE  /\ Stops(chunks[k]) \in Nat /\ chunks[k][1] \in Nat
                        /\ Len(chunks[k]) \in Nat
                        /\ Stops(chunks[k]) = chunks[k][1] + Len(chunks[k])
                        /\ Len(chunks[k]) <= Capacity /\ Len(chunks[k]) > 0
        OBVIOUS
    <2>1. k \in 1 .. Len(chunks)
        BY <1>3
    <2>2. /\ Len(chunks[k]) \in Nat \ {0} /\ chunks[k][1] \in Nat
          /\ Stops(chunks[k]) \in Nat
        BY <2>1, <1>2, ChunkTypes
    <2>3. Stops(chunks[k]) = chunks[k][1] + Len(chunks[k])
        BY DEF Stops
    <2>4. Len(chunks[k]) <= Capacity
        BY <2>1, <1>2 DEF RunInv
    <2> QED
        BY <2>2, <2>3, <2>4
<1>6. ~Hole
    BY <1>2, <1>3, <1>4, <1>5, HoleGoesFirst, 1 \in 1 .. N
<1> DEFINE a == chunks[1][1]
           n == Len(chunks[1])
<1>7. /\ a \in Nat /\ n \in Nat /\ cut \in 1 .. n - 1
      /\ chunks[1] = Bytes(a, n) /\ n <= Capacity
    BY <1>2, <1>3, <1>4, <1>5, 1 \in 1 .. N, ChunkTypes
<1>8. From(chunks[1], cut) = Bytes(a + cut, n - cut)
    <2> HIDE DEF a, n, cut
    <2> QED
        BY <1>7, FromBytes
<1> DEFINE rest == Bytes(a + cut, n - cut)
<1>9. /\ IsRun(rest) /\ Stops(rest) = a + n /\ rest[1] = a + cut /\ Len(rest) = n - cut
    <2>1. a + cut \in Nat /\ n - cut \in Nat \ {0} /\ (a + cut) + (n - cut) = a + n
        BY <1>3, <1>7
    <2> HIDE DEF a, n, cut
    <2> QED
        BY <2>1, RunFacts
<1>10. rest \in C
    <2>1. chunks[1] \in C /\ Len(chunks[1]) = n
        BY <1>2, <1>3, ChunkTypes
    <2>2. \A i \in cut + 1 .. n : chunks[1][i] \in 0 .. MaxEnd - 1
        BY <2>1, <1>3, <1>7, ElementOfSeq, \A i \in cut + 1 .. n : i \in 1 .. Len(chunks[1])
    <2>3. SubSeq(chunks[1], cut + 1, n) \in C
        BY <2>2, <1>3, <1>7, SubSeqProperties
    <2> QED
        BY <2>3, <1>8 DEF From
<1>11. /\ chunks' \in Seq(C) /\ Len(chunks') = N /\ chunks'[1] = rest
       /\ \A k \in 2 .. N : chunks'[k] = chunks[k]
    <2> HIDE DEF C, rest
    <2>1. chunks' = [chunks EXCEPT ![1] = rest]
        BY <1>2, <1>8 DEF rest
    <2>2. 1 \in 1 .. Len(chunks)
        BY <1>3
    <2> QED
        BY <2>1, <2>2, <1>3, <1>4, <1>10, ExceptSeq
<1>12. chunks' # << >> /\ stored' = Capacity
    BY <1>2, <1>3, <1>11
<1>13. \A k \in 1 .. N : Stops(chunks'[k]) = Stops(chunks[k])
    <2> SUFFICES ASSUME NEW k \in 1 .. N PROVE Stops(chunks'[k]) = Stops(chunks[k])
        OBVIOUS
    <2>1. CASE k = 1
        BY <2>1, <1>3, <1>5, <1>7, <1>9, <1>11
    <2>2. CASE k # 1
        BY <2>2, <1>3, <1>11 DEF Stops
    <2> QED
        BY <2>1, <2>2
<1>14. ~Hole'
    <2>1. CASE N = 1
        BY <2>1, <1>11 DEF Hole
    <2>2. CASE N > 1
        BY <2>2, <1>6, <1>3, <1>11, <1>13, N - 1 \in 1 .. N, N \in 2 .. N DEF Hole, Stops
    <2> QED
        BY <2>1, <2>2, <1>3
<1>15. TypeOK'
    BY <1>2, <1>3, <1>11, <1>12 DEF TypeOK
<1>16. RunInv'
    <2> SUFFICES ASSUME NEW k \in 1 .. N
                 PROVE  IsRun(chunks'[k]) /\ Len(chunks'[k]) <= Capacity
        BY <1>11 DEF RunInv, IsRun
    <2>1. CASE k = 1
        BY <2>1, <1>3, <1>7, <1>9, <1>11
    <2>2. CASE k \in 2 .. N
        BY <2>2, <1>2, <1>11 DEF RunInv
    <2> QED
        BY <2>1, <2>2, <1>3
<1>17. OrderInv'
    <2>1. ASSUME NEW j \in 1 .. N, NEW k \in 1 .. N, j < k
          PROVE  Stops(chunks'[j]) <= chunks'[k][1]
        <3>1. k \in 2 .. N
            BY <2>1
        <3> QED
            BY <3>1, <2>1, <1>2, <1>3, <1>11, <1>13 DEF OrderInv
    <2>2. Stops(chunks'[N]) = end'
        BY <1>2, <1>3, <1>13 DEF OrderInv
    <2> QED
        BY <2>1, <2>2, <1>11 DEF OrderInv, Stops
<1>18. ChainInv'
    <2>1. ASSUME NEW k \in 2 .. N - 1
          PROVE  chunks'[k][1] = Stops(chunks'[k - 1])
        BY <1>2, <1>3, <1>11, <1>13, k \in 2 .. N, k - 1 \in 1 .. N DEF ChainInv
    <2> QED
        BY <2>1, <1>11, <1>14 DEF ChainInv, Stops
<1>19. StoredInv'
    <2>1. stored = end - a
        BY <1>2, <1>6 DEF StoredInv
    <2>2. stored' = stored - cut /\ a \in Nat /\ cut \in Nat /\ end \in Nat
        BY <1>2, <1>3, <1>7
    <2>3. stored' = end - (a + cut)
        <3> HIDE DEF a, cut
        <3> QED
            BY <2>1, <2>2
    <2> QED
        BY <2>3, <1>2, <1>9, <1>11, <1>12, <1>14 DEF StoredInv
<1>20. RetainInv'
    BY <1>2, <1>3, <1>12 DEF RetainInv
<1> QED
    BY <1>15, <1>16, <1>17, <1>18, <1>19, <1>20 DEF ReplayInv

\* When nothing is in excess there is no hole.
LEMMA EndAppendInvariant ==
    ASSUME ReplayInv, EndAppend PROVE ReplayInv'
<1>1. /\ TypeOK /\ RunInv /\ OrderInv /\ ChainInv /\ StoredInv /\ RetainInv
      /\ pc = "evict" /\ pc' = "idle" /\ UNCHANGED <<chunks, stored, end, text>>
      /\ stored - Capacity <= 0
    BY DEF ReplayInv, EndAppend, Excess, RetainInv
<1>2. stored \in Nat /\ Capacity \in Nat \ {0}
    BY <1>1, Numbers
<1>3. ~Hole
    BY <1>1, <1>2, HoleGoesFirst
<1>4. TypeOK' /\ RunInv' /\ OrderInv' /\ StoredInv'
    BY <1>1 DEF TypeOK, RunInv, IsRun, OrderInv, StoredInv, Hole, Stops
<1>5. ChainInv'
    BY <1>1, <1>3 DEF ChainInv, Hole, Stops
<1>6. RetainInv'
    BY <1>1, <1>2 DEF RetainInv
<1> QED
    BY <1>4, <1>5, <1>6 DEF ReplayInv

\* The invariant holds of every reachable state of the ring: Append and each iteration
\* of evictLocked preserve it.
THEOREM ReplayInvariant == Spec => []ReplayInv
<1>1. Init => ReplayInv
    BY InitInvariant
<1>2. ReplayInv /\ [Next]_vars => ReplayInv'
    <2> SUFFICES ASSUME ReplayInv, [Next]_vars PROVE ReplayInv'
        OBVIOUS
    <2>1. CASE BeginAppend
        BY <2>1, BeginAppendInvariant
    <2>2. CASE EvictChunk
        BY <2>2, EvictChunkInvariant
    <2>3. CASE EvictPart
        BY <2>3, EvictPartInvariant
    <2>4. CASE EndAppend
        BY <2>4, EndAppendInvariant
    <2>5. CASE UNCHANGED vars
        BY <2>5, StutterInvariant
    <2> QED
        BY <2>1, <2>2, <2>3, <2>4, <2>5 DEF Next, Evict
<1> QED
    BY <1>1, <1>2, PTL DEF Spec

\* Every variable keeps its type; in particular stored never exceeds two ring fulls.
THEOREM ReplayTypes == Spec => []TypeOK
<1>1. ReplayInv => TypeOK
    BY DEF ReplayInv
<1> QED
    BY <1>1, ReplayInvariant, PTL

-----------------------------------------------------------------------------
(* Recursion over the chunks.                                              *)

\* The order of the numbers, as a relation, is well-founded.
LEMMA LessWellFounded ==
    IsWellFoundedOn({p \in Nat \X Nat : p[1] < p[2]}, Nat)
BY NatLessThanWellFounded DEF OpToRel

\* Induction over the numbers, for a set of them.
LEMMA Induction ==
    ASSUME NEW S \in SUBSET Nat, 0 \in S, \A n \in S : n + 1 \in S
    PROVE  S = Nat
<1> DEFINE T == Nat \ S
           Less == {p \in Nat \X Nat : p[1] < p[2]}
<1> SUFFICES ASSUME T # {} PROVE FALSE
    OBVIOUS
<1>1. \E x \in T : \A y \in T : ~(<<y, x>> \in Less)
    <2>1. T \subseteq Nat /\ IsWellFoundedOn(Less, Nat)
        BY LessWellFounded
    <2> HIDE DEF T, Less
    <2> QED
        BY <2>1, WFMin
<1>2. PICK x \in T : \A y \in T : ~(y < x)
    BY <1>1
<1>3. x # 0 /\ x - 1 \in Nat
    BY <1>2
<1>4. x - 1 \in S
    BY <1>2, <1>3
<1>5. (x - 1) + 1 \in S
    BY <1>4
<1> QED
    BY <1>2, <1>3, <1>5

\* Two functions that start alike and continue alike are alike.
LEMMA SameRecursion ==
    ASSUME NEW n \in Nat, NEW f, NEW g, f[0] = g[0],
           \A k \in 1 .. n : f[k - 1] = g[k - 1] => f[k] = g[k]
    PROVE  \A k \in 0 .. n : f[k] = g[k]
<1> DEFINE S == {k \in Nat : k <= n => f[k] = g[k]}
<1>1. 0 \in S
    OBVIOUS
<1>2. ASSUME NEW k \in S PROVE k + 1 \in S
    <2>1. CASE k + 1 <= n
        <3>1. k + 1 \in 1 .. n /\ (k + 1) - 1 = k /\ f[k] = g[k]
            BY <2>1
        <3> QED
            BY <3>1
    <2> QED
        BY <2>1
<1>3. S = Nat
    <2> HIDE DEF S
    <2> QED
        BY <1>1, <1>2, Induction, S \subseteq Nat DEF S
<1> QED
    BY <1>3

-----------------------------------------------------------------------------
(* A resume gets what it missed.                                           *)

\* The offset behind the first k chunks.
Reached(k) == IF k = 0 THEN StartOffset ELSE Stops(chunks[k])

\* Between two calls of Append the chunks tile what the ring retains, without a hole.
LEMMA ChunksTile ==
    ASSUME ReplayInv, pc = "idle"
    PROVE  /\ Len(chunks) \in Nat /\ StartOffset \in Nat
           /\ end \in Nat /\ StartOffset <= end
           /\ \A k \in 0 .. Len(chunks) : Reached(k) \in Nat
           /\ Reached(Len(chunks)) = end
           /\ \A k \in 1 .. Len(chunks) :
                 /\ Len(chunks[k]) = Reached(k) - Reached(k - 1)
                 /\ Reached(k - 1) < Reached(k)
                 /\ chunks[k] = Bytes(Reached(k - 1), Reached(k) - Reached(k - 1))
<1>1. PICK N \in Nat : Len(chunks) = N
    BY Numbers DEF ReplayInv
<1>2. /\ TypeOK /\ RunInv /\ OrderInv /\ ChainInv /\ StoredInv /\ RetainInv
      /\ stored \in Nat /\ end \in Nat /\ ~Hole
      /\ (chunks = << >> <=> N = 0)
    BY <1>1, Numbers DEF ReplayInv, ChainInv
<1>3. \A k \in 1 .. N : /\ Stops(chunks[k]) \in Nat /\ chunks[k][1] \in Nat
                        /\ Stops(chunks[k]) = chunks[k][1] + Len(chunks[k])
                        /\ chunks[k][1] < Stops(chunks[k])
                        /\ chunks[k] = Bytes(chunks[k][1], Len(chunks[k]))
                        /\ Len(chunks[k]) = Stops(chunks[k]) - chunks[k][1]
    <2> SUFFICES ASSUME NEW k \in 1 .. N
                 PROVE  /\ Stops(chunks[k]) \in Nat /\ chunks[k][1] \in Nat
                        /\ Stops(chunks[k]) = chunks[k][1] + Len(chunks[k])
                        /\ chunks[k][1] < Stops(chunks[k])
                        /\ chunks[k] = Bytes(chunks[k][1], Len(chunks[k]))
                        /\ Len(chunks[k]) = Stops(chunks[k]) - chunks[k][1]
        OBVIOUS
    <2>1. /\ Stops(chunks[k]) \in Nat /\ chunks[k][1] \in Nat
          /\ chunks[k][1] < Stops(chunks[k])
          /\ chunks[k] = Bytes(chunks[k][1], Len(chunks[k]))
          /\ chunks[k] \in Seq(Nat)
        BY <1>1, <1>2, ChunkTypes
    <2>2. PICK n \in Nat : Len(chunks[k]) = n
        BY <2>1, LenProperties
    <2>3. Stops(chunks[k]) = chunks[k][1] + n
        BY <2>2 DEF Stops
    <2>4. n = Stops(chunks[k]) - chunks[k][1]
        BY <2>1, <2>3
    <2> QED
        BY <2>1, <2>2, <2>3, <2>4
<1>4. N > 0 => StartOffset = chunks[1][1]
    BY <1>2, <1>3, 1 \in 1 .. N \/ N = 0 DEF StoredInv, StartOffset
<1>5. N = 0 => StartOffset = end
    BY <1>2 DEF StoredInv, StartOffset
<1>6. N > 0 => Stops(chunks[N]) = end
    BY <1>1, <1>2 DEF OrderInv
<1>7. \A k \in 2 .. N : chunks[k][1] = Stops(chunks[k - 1])
    BY <1>1, <1>2 DEF ChainInv, Hole
<1>8. StartOffset \in Nat
    BY <1>2, <1>3, <1>4, <1>5, N = 0 \/ 1 \in 1 .. N
<1>9. \A k \in 0 .. N : Reached(k) \in Nat
    BY <1>3, <1>8 DEF Reached
<1>10. Reached(N) = end
    BY <1>5, <1>6 DEF Reached
<1>11. \A k \in 1 .. N : chunks[k][1] = Reached(k - 1) /\ Stops(chunks[k]) = Reached(k)
    <2> SUFFICES ASSUME NEW k \in 1 .. N
                 PROVE  chunks[k][1] = Reached(k - 1) /\ Stops(chunks[k]) = Reached(k)
        OBVIOUS
    <2>1. CASE k = 1
        BY <2>1, <1>4 DEF Reached
    <2>2. CASE k # 1
        <3>1. k \in 2 .. N /\ k - 1 # 0
            BY <2>2
        <3> QED
            BY <3>1, <1>7 DEF Reached
    <2> QED
        BY <2>1, <2>2
<1>12. StartOffset <= end
    BY <1>2, <1>8 DEF StartOffset
<1> QED
    BY <1>1, <1>2, <1>3, <1>8, <1>9, <1>10, <1>11, <1>12

\* What the walk of sliceFromLocked has after each number of chunks.
Walked(offset) ==
    [k \in 0 .. Len(chunks) |->
        [position |-> Reached(k),
         written |-> IF Reached(k) <= offset THEN << >>
                     ELSE Bytes(offset, Reached(k) - offset)]]

\* The walk is the function with its recursion equation.
LEMMA WalkDef ==
    ASSUME NEW offset
    PROVE  Walk(offset) =
             CHOOSE walk : walk =
               [k \in 0 .. Len(chunks) |->
                   IF k = 0 THEN [position |-> StartOffset, written |-> << >>]
                   ELSE Copy(offset, walk[k - 1], chunks[k])]
BY DEF Walk

\* One chunk takes the walk from the bytes before it to the bytes up to its end.
LEMMA CopyStep ==
    ASSUME NEW offset \in Nat, NEW p \in Nat, NEW q \in Nat, p < q
    PROVE  Copy(offset,
                [position |-> p,
                 written |-> IF p <= offset THEN << >> ELSE Bytes(offset, p - offset)],
                Bytes(p, q - p))
             = [position |-> q,
                written |-> IF q <= offset THEN << >> ELSE Bytes(offset, q - offset)]
<1> DEFINE chunk == Bytes(p, q - p)
           before == IF p <= offset THEN << >> ELSE Bytes(offset, p - offset)
           after == IF q <= offset THEN << >> ELSE Bytes(offset, q - offset)
           walk == [position |-> p, written |-> before]
           from == IF offset > p THEN offset - p ELSE 0
           added == IF q > offset THEN From(chunk, from) ELSE << >>
<1>1. q - p \in Nat /\ Len(chunk) = q - p
    <2>1. q - p \in Nat
        OBVIOUS
    <2> QED
        BY <2>1, BytesFacts
<1>2. p + Len(chunk) = q
    BY <1>1
<1>3. before \o added = after
    <2>1. CASE q <= offset
        <3>1. before = << >> /\ added = << >> /\ after = << >>
            BY <2>1
        <3>2. << >> \o << >> = << >>
            BY EmptySeq, ConcatEmptySeq
        <3> QED
            BY <3>1, <3>2
    <2>2. CASE q > offset /\ p <= offset
        <3>1. from = offset - p /\ from \in 0 .. q - p
            BY <2>2
        <3>2. From(chunk, offset - p) = Bytes(p + (offset - p), (q - p) - (offset - p))
            <4> DEFINE size == q - p
                       skip == offset - p
            <4>1. size \in Nat /\ skip \in 0 .. size
                BY <1>1, <3>1
            <4> HIDE DEF size, skip
            <4>2. From(Bytes(p, size), skip) = Bytes(p + skip, size - skip)
                BY <4>1, FromBytes
            <4> QED
                BY <4>2 DEF size, skip
        <3>3. p + (offset - p) = offset /\ (q - p) - (offset - p) = q - offset
            OBVIOUS
        <3>4. /\ before = << >> /\ added = Bytes(offset, q - offset)
              /\ after = Bytes(offset, q - offset)
            BY <2>2, <3>1, <3>2, <3>3
        <3>5. Bytes(offset, q - offset) \in Seq(Nat)
            BY <2>2, BytesFacts, q - offset \in Nat
        <3>6. << >> \o Bytes(offset, q - offset) = Bytes(offset, q - offset)
            BY <3>5, ConcatEmptySeq
        <3> QED
            BY <3>4, <3>6
    <2>3. CASE p > offset
        <3>1. from = 0 /\ q > offset /\ p - offset \in Nat
            BY <2>3
        <3>2. From(chunk, 0) = Bytes(p + 0, (q - p) - 0)
            BY <1>1, FromBytes, 0 \in 0 .. q - p
        <3>3. p + 0 = p /\ (q - p) - 0 = q - p /\ offset + (p - offset) = p
              /\ (p - offset) + (q - p) = q - offset
            OBVIOUS
        <3>4. Bytes(offset, p - offset) \o Bytes(offset + (p - offset), q - p)
                = Bytes(offset, (p - offset) + (q - p))
            <4> DEFINE size == q - p
                       gap == p - offset
            <4>1. size \in Nat /\ gap \in Nat
                BY <1>1, <3>1
            <4> HIDE DEF size, gap
            <4>2. Bytes(offset, gap) \o Bytes(offset + gap, size)
                    = Bytes(offset, gap + size)
                BY <4>1, ConcatBytes
            <4> QED
                BY <4>2 DEF size, gap
        <3>5. /\ before = Bytes(offset, p - offset) /\ added = Bytes(p, q - p)
              /\ after = Bytes(offset, q - offset)
            BY <2>3, <3>1, <3>2, <3>3
        <3> QED
            BY <3>3, <3>4, <3>5
    <2>4. q <= offset \/ (q > offset /\ p <= offset) \/ p > offset
        OBVIOUS
    <2> HIDE DEF before, added, after
    <2> QED
        BY <2>1, <2>2, <2>3, <2>4
<1>4. Copy(offset, walk, chunk) = [position |-> q, written |-> before \o added]
    <2> HIDE DEF chunk, before
    <2>1. walk.position = p /\ walk.written = before
        OBVIOUS
    <2> HIDE DEF walk
    <2> QED
        BY <1>2, <2>1 DEF Copy
<1> QED
    BY <1>3, <1>4

\* So the walk is Walked: Walked satisfies the equation, and only one function does.
LEMMA WalkIsWalked ==
    ASSUME ReplayInv, pc = "idle", NEW offset \in StartOffset .. end
    PROVE  \A k \in 0 .. Len(chunks) : Walk(offset)[k] = Walked(offset)[k]
<1> DEFINE Recursion(walk) ==
               [k \in 0 .. Len(chunks) |->
                   IF k = 0 THEN [position |-> StartOffset, written |-> << >>]
                   ELSE Copy(offset, walk[k - 1], chunks[k])]
           W == Walked(offset)
<1>1. PICK N \in Nat : Len(chunks) = N
    BY ChunksTile
<1>2. /\ StartOffset \in Nat /\ end \in Nat /\ offset \in Nat
      /\ \A k \in 0 .. N : Reached(k) \in Nat
      /\ \A k \in 1 .. N :
             /\ Reached(k - 1) < Reached(k)
             /\ chunks[k] = Bytes(Reached(k - 1), Reached(k) - Reached(k - 1))
    BY <1>1, ChunksTile
<1>3. W[0] = [position |-> StartOffset, written |-> << >>]
    <2>1. Reached(0) = StartOffset /\ StartOffset <= offset
        BY <1>2 DEF Reached
    <2> QED
        BY <2>1, <1>1 DEF Walked
<1>4. ASSUME NEW k \in 1 .. N
      PROVE  W[k] = Copy(offset, W[k - 1], chunks[k])
    <2>1. /\ Reached(k) \in Nat /\ Reached(k - 1) \in Nat /\ Reached(k - 1) < Reached(k)
          /\ chunks[k] = Bytes(Reached(k - 1), Reached(k) - Reached(k - 1))
        BY <1>2, k - 1 \in 0 .. N, k \in 0 .. N
    <2>2. W[k - 1] = [position |-> Reached(k - 1),
                      written |-> IF Reached(k - 1) <= offset THEN << >>
                                  ELSE Bytes(offset, Reached(k - 1) - offset)]
        BY <1>1, k - 1 \in 0 .. N DEF Walked
    <2>3. W[k] = [position |-> Reached(k),
                  written |-> IF Reached(k) <= offset THEN << >>
                              ELSE Bytes(offset, Reached(k) - offset)]
        BY <1>1, k \in 0 .. N DEF Walked
    <2> HIDE DEF W
    <2> QED
        BY <2>1, <2>2, <2>3, <1>2, CopyStep
<1>5. W = Recursion(W)
    <2>1. W = [k \in 0 .. N |-> W[k]]
        BY <1>1 DEF Walked
    <2>2. \A k \in 0 .. N : W[k] = Recursion(W)[k]
        BY <1>1, <1>3, <1>4
    <2> HIDE DEF W
    <2> QED
        BY <1>1, <2>1, <2>2
<1>6. Walk(offset) = CHOOSE walk : walk = Recursion(walk)
    BY WalkDef
<1>7. Walk(offset) = Recursion(Walk(offset))
    <2> HIDE DEF Recursion, W
    <2> QED
        BY <1>5, <1>6
<1>8. Walk(offset)[0] = [position |-> StartOffset, written |-> << >>]
    BY <1>1, <1>7
<1>9. \A k \in 1 .. N : Walk(offset)[k] = Copy(offset, Walk(offset)[k - 1], chunks[k])
    BY <1>1, <1>7
<1> DEFINE V == Walk(offset)
<1>10. V[0] = W[0] /\ \A k \in 1 .. N : V[k - 1] = W[k - 1] => V[k] = W[k]
    BY <1>3, <1>4, <1>8, <1>9
<1> HIDE DEF V, W
<1>11. \A k \in 0 .. N : V[k] = W[k]
    BY <1>10, SameRecursion
<1> QED
    BY <1>1, <1>11 DEF V, W

\* What SliceFrom returns for any offset.
LEMMA SliceIsExact ==
    ASSUME ReplayInv, pc = "idle", NEW offset \in Int
    PROVE  SliceFrom(offset) = IF offset \in end - stored .. end
                               THEN Slice(Bytes(offset, end - offset)) ELSE Nil
<1>1. PICK N \in Nat : Len(chunks) = N
    BY ChunksTile
<1>2. StartOffset \in Nat /\ end \in Nat /\ StartOffset = end - stored
    BY ChunksTile DEF StartOffset
<1>3. CASE offset < StartOffset \/ offset > end
    <2>1. offset \notin end - stored .. end
        BY <1>2, <1>3
    <2> QED
        BY <1>3, <2>1 DEF SliceFrom
<1>4. CASE ~(offset < StartOffset \/ offset > end)
    <2>1. offset \in StartOffset .. end /\ offset \in Nat /\ end - offset \in Nat
        BY <1>2, <1>4
    <2>2. Walk(offset)[N] = Walked(offset)[N]
        BY <1>1, <2>1, WalkIsWalked, N \in 0 .. N
    <2>3. Reached(N) = end
        BY <1>1, ChunksTile
    <2>4. Walked(offset)[N].written
            = IF end <= offset THEN << >> ELSE Bytes(offset, end - offset)
        BY <1>1, <2>3, N \in 0 .. N DEF Walked
    <2>5. Walk(offset)[N].written = Bytes(offset, end - offset)
        <3>1. CASE end <= offset
            <4>1. end = offset /\ end - offset = 0
                BY <1>2, <2>1, <3>1
            <4> QED
                BY <4>1, <2>2, <2>4, <1>2, NoBytesIsEmpty
        <3>2. CASE ~(end <= offset)
            BY <3>2, <2>2, <2>4
        <3> QED
            BY <3>1, <3>2
    <2> DEFINE all == Bytes(offset, end - offset)
    <2>6. Len(all) = end - offset /\ all = [i \in 1 .. end - offset |-> all[i]]
        <3>1. Len(all) = end - offset
            BY <2>1, BytesFacts
        <3>2. all = [i \in 1 .. end - offset |-> all[i]]
            BY DEF Bytes
        <3> QED
            BY <3>1, <3>2
    <2> HIDE DEF all
    <2>7. [i \in 1 .. end - offset |-> IF i <= Len(all) THEN all[i] ELSE Zero] = all
        <3>1. \A i \in 1 .. end - offset : (IF i <= Len(all) THEN all[i] ELSE Zero) = all[i]
            BY <2>1, <2>6
        <3> QED
            BY <2>6, <3>1
    <2>8. SliceFrom(offset)
            = Slice([i \in 1 .. end - offset |-> IF i <= Len(all) THEN all[i] ELSE Zero])
        BY <1>1, <1>4, <2>5 DEF SliceFrom, all
    <2> QED
        BY <2>1, <2>7, <2>8, <1>2 DEF all
<1> QED
    BY <1>3, <1>4

\* A resume gets exactly the bytes behind its offset (replay.go, SliceFrom), and is
\* refused exactly when they are gone or were never there.
THEOREM ResumesAreExact == Spec => []ResumeIsExact
<1>1. ReplayInv => ResumeIsExact
    BY SliceIsExact DEF ResumeIsExact
<1> QED
    BY <1>1, ReplayInvariant, PTL

-----------------------------------------------------------------------------
(* A fresh attach gets the end of the stream.                              *)

\* A set of numbers with a bound has a largest one.
LEMMA LargestExists ==
    ASSUME NEW n \in Nat, NEW S \in SUBSET (0 .. n), S # {}
    PROVE  \E m \in S : \A k \in S : k <= m
<1> DEFINE T == {n - k : k \in S}
           Less == {p \in Nat \X Nat : p[1] < p[2]}
<1>1. T \subseteq Nat /\ T # {}
    <2>1. T \subseteq Nat
        <3> SUFFICES ASSUME NEW k \in S PROVE n - k \in Nat
            OBVIOUS
        <3>1. k \in 0 .. n
            OBVIOUS
        <3> QED
            BY <3>1
    <2>2. PICK k \in S : TRUE
        OBVIOUS
    <2>3. n - k \in T
        OBVIOUS
    <2> QED
        BY <2>1, <2>3
<1>2. \E x \in T : \A y \in T : ~(<<y, x>> \in Less)
    <2>1. IsWellFoundedOn(Less, Nat)
        BY LessWellFounded
    <2> HIDE DEF T, Less
    <2> QED
        BY <1>1, <2>1, WFMin
<1>3. PICK x \in T : \A y \in T : ~(y < x)
    <2> HIDE DEF T
    <2> QED
        BY <1>1, <1>2
<1>4. PICK m \in S : x = n - m
    BY <1>3
<1>5. ASSUME NEW k \in S PROVE k <= m
    <2>1. ~(n - k < n - m)
        BY <1>3, <1>4
    <2> QED
        BY <2>1
<1> QED
    BY <1>5

\* The cut that SnapTailToSafeBoundary chooses in a run: behind the last newline of its
\* window, or behind the continuation bytes at the front.
LEMMA SnapFacts ==
    ASSUME NEW from \in Nat, NEW n \in Nat, NEW maxBytes \in Nat
    PROVE  LET s == SnapSkipped(Bytes(from, n), maxBytes)
           IN  /\ s \in 0 .. n
               /\ s < n => text[from + s] # "inside" \/ text[from + s - 1] = "newline"
               /\ \A o \in from + s .. from + n - 1 :
                      o >= from + n - maxBytes => text[o] # "newline"
<1> DEFINE data == Bytes(from, n)
           budgetStart == IF n > maxBytes THEN n - maxBytes ELSE 0
           newlines == {i \in budgetStart + 1 .. n : text[data[i]] = "newline"}
           leading == {k \in 0 .. n : \A i \in 1 .. k : text[data[i]] = "inside"}
           s == SnapSkipped(data, maxBytes)
<1>1. Len(data) = n /\ \A i \in 1 .. n : data[i] = from + i - 1
    BY BytesFacts
<1>2. s = IF newlines # {} THEN CHOOSE i \in newlines : \A j \in newlines : j <= i
          ELSE CHOOSE k \in leading : \A m \in leading : m <= k
    <2> HIDE DEF data
    <2> QED
        BY <1>1 DEF SnapSkipped
<1> HIDE DEF data, s
<1>3. budgetStart \in 0 .. n /\ budgetStart >= n - maxBytes
    OBVIOUS
<1>4. \A i \in newlines : i \in 1 .. n /\ i > budgetStart /\ text[from + i - 1] = "newline"
    BY <1>1, <1>3
<1>5. \A i \in budgetStart + 1 .. n : text[from + i - 1] = "newline" => i \in newlines
    BY <1>1, <1>3
<1>6. \A k \in leading : k \in 0 .. n /\ \A i \in 1 .. k : text[from + i - 1] = "inside"
    <2> TAKE k \in leading
    <2>1. k \in 0 .. n /\ \A i \in 1 .. k : text[data[i]] = "inside"
        OBVIOUS
    <2>2. \A i \in 1 .. k : data[i] = from + i - 1
        BY <1>1, <2>1
    <2> QED
        BY <2>1, <2>2
<1>7. ASSUME NEW k \in 0 .. n, \A i \in 1 .. k : text[from + i - 1] = "inside"
      PROVE  k \in leading
    <2>1. \A i \in 1 .. k : data[i] = from + i - 1
        BY <1>1
    <2> QED
        BY <1>7, <2>1
<1>8. /\ s \in 0 .. n
      /\ s < n => text[from + s] # "inside" \/ text[from + s - 1] = "newline"
      /\ \A i \in budgetStart + 1 .. n : text[from + i - 1] = "newline" => i <= s
    <2>1. CASE newlines # {}
        <3>1. \E m \in newlines : \A k \in newlines : k <= m
            <4>1. newlines \in SUBSET (0 .. n)
                BY <1>4
            <4> HIDE DEF newlines
            <4> QED
                BY <2>1, <4>1, LargestExists
        <3>2. s \in newlines /\ \A j \in newlines : j <= s
            <4> HIDE DEF newlines, leading
            <4> QED
                BY <2>1, <3>1, <1>2
        <3> HIDE DEF newlines, leading
        <3> QED
            BY <3>2, <1>4, <1>5
    <2>2. CASE newlines = {}
        <3>1. 0 \in leading
            BY <1>7, 0 \in 0 .. n
        <3>2. \E m \in leading : \A k \in leading : k <= m
            <4>1. leading \in SUBSET (0 .. n)
                OBVIOUS
            <4> HIDE DEF leading
            <4> QED
                BY <3>1, <4>1, LargestExists
        <3>3. s \in leading /\ \A k \in leading : k <= s
            <4> HIDE DEF newlines, leading
            <4> QED
                BY <2>2, <3>2, <1>2
        <3>4. s < n => text[from + s] # "inside"
            <4> SUFFICES ASSUME s < n, text[from + s] = "inside" PROVE FALSE
                OBVIOUS
            <4>1. s \in 0 .. n /\ \A i \in 1 .. s : text[from + i - 1] = "inside"
                BY <3>3, <1>6
            <4>2. s + 1 \in 0 .. n /\ from + (s + 1) - 1 = from + s
                BY <4>1
            <4>3. \A i \in 1 .. s + 1 : text[from + i - 1] = "inside"
                BY <4>1, <4>2
            <4>4. s + 1 \in leading
                <5> HIDE DEF leading
                <5> QED
                    BY <4>2, <4>3, <1>7
            <4>5. s + 1 <= s
                BY <3>3, <4>4
            <4> QED
                BY <4>1, <4>5
        <3> QED
            BY <2>2, <3>3, <3>4, <1>5, <1>6
    <2> QED
        BY <2>1, <2>2
<1>9. ASSUME NEW o \in from + s .. from + n - 1, o >= from + n - maxBytes
      PROVE  text[o] # "newline"
    <2> DEFINE i == o - from + 1
    <2>1. i \in budgetStart + 1 .. n /\ from + i - 1 = o /\ i > s
        BY <1>3, <1>8, <1>9
    <2> HIDE DEF i
    <2>2. text[from + i - 1] = "newline" => i <= s
        BY <2>1, <1>8
    <2>3. ~(i <= s)
        BY <2>1, <1>8
    <2> QED
        BY <2>1, <2>2, <2>3
<1> QED
    BY <1>8, <1>9 DEF s, data

\* What a fresh attach is sent.
LEMMA RepaintFacts ==
    ASSUME ReplayInv, pc = "idle", NEW maxBytes \in Nat, NEW window \in Nat
    PROVE  LET r == Repaint(maxBytes, window)
           IN  /\ r.bytes = Bytes(r.offset, end - r.offset)
               /\ Len(r.bytes) <= maxBytes
               /\ r.bytes # << >> => \/ text[r.offset] # "inside"
                                     \/ text[r.offset - 1] = "newline"
               /\ \A o \in r.offset .. end - 1 : o >= end - window => text[o] # "newline"
<1>1. StartOffset \in Nat /\ end \in Nat /\ StartOffset <= end /\ StartOffset = end - stored
    BY ChunksTile DEF StartOffset
<1> DEFINE from == TailOffset(maxBytes)
<1>2. from \in Nat /\ from \in end - stored .. end /\ end - from <= maxBytes
    BY <1>1 DEF TailOffset
<1> HIDE DEF from
<1> DEFINE n == end - from
           data == Bytes(from, n)
           s == SnapSkipped(data, window)
<1>3. n \in Nat /\ from + n = end /\ n <= maxBytes
    BY <1>1, <1>2
<1>4. TailBytes(maxBytes) = data
    <2>1. SliceFrom(from) = Slice(data)
        BY <1>2, SliceIsExact
    <2> QED
        BY <2>1 DEF TailBytes, Slice, from
<1>5. /\ s \in 0 .. n
      /\ s < n => text[from + s] # "inside" \/ text[from + s - 1] = "newline"
      /\ \A o \in from + s .. from + n - 1 :
             o >= from + n - window => text[o] # "newline"
    <2> HIDE DEF n
    <2> QED
        BY <1>2, <1>3, SnapFacts
<1>6. From(data, s) = Bytes(from + s, n - s)
    <2> HIDE DEF n, s
    <2> QED
        BY <1>2, <1>3, <1>5, FromBytes
<1> HIDE DEF s
<1>7. Repaint(maxBytes, window) = [offset |-> from + s, bytes |-> Bytes(from + s, n - s)]
    <2> HIDE DEF data, n
    <2> QED
        BY <1>4, <1>6 DEF Repaint, from, s
<1>8. n - s = end - (from + s) /\ n - s \in Nat /\ n - s <= maxBytes /\ from + s \in Nat
    BY <1>1, <1>2, <1>3, <1>5
<1>9. Len(Bytes(from + s, n - s)) = n - s
    <2> HIDE DEF n
    <2> QED
        BY <1>8, BytesFacts
<1>10. Bytes(from + s, n - s) # << >> => s < n
    <2> SUFFICES ASSUME ~(s < n) PROVE Bytes(from + s, n - s) = << >>
        OBVIOUS
    <2>1. n - s = 0
        BY <1>3, <1>5
    <2> HIDE DEF n
    <2> QED
        BY <2>1, <1>8, NoBytesIsEmpty
<1> HIDE DEF n
<1>11. PICK o \in Nat : o = from + s
    BY <1>8
<1>12. s < n => text[o] # "inside" \/ text[o - 1] = "newline"
    <2>1. from + s - 1 = o - 1
        BY <1>1, <1>2, <1>3, <1>5, <1>11
    <2> QED
        BY <2>1, <1>5, <1>11
<1>13. \A i \in o .. end - 1 : i >= end - window => text[i] # "newline"
    <2> SUFFICES ASSUME NEW i \in o .. end - 1, i >= end - window
                 PROVE  text[i] # "newline"
        OBVIOUS
    <2>1. i \in from + s .. from + n - 1 /\ i >= from + n - window
        BY <1>1, <1>2, <1>3, <1>11
    <2> QED
        BY <2>1, <1>5
<1>14. Repaint(maxBytes, window) = [offset |-> o, bytes |-> Bytes(o, end - o)]
    BY <1>7, <1>8, <1>11
<1>15. Len(Bytes(o, end - o)) <= maxBytes /\ (Bytes(o, end - o) # << >> => s < n)
    BY <1>8, <1>9, <1>10, <1>11
<1> HIDE DEF from
<1> QED
    BY <1>12, <1>13, <1>14, <1>15

\* A fresh attach is sent the end of the stream at its true offset and within its bound;
\* it starts behind the last newline of the window or at the start of a code point.
THEOREM RepaintsAreTruthful == Spec => []RepaintIsTruthful
<1>1. ReplayInv => RepaintIsTruthful
    BY RepaintFacts, ReplayAssumption DEF RepaintIsTruthful
<1> QED
    BY <1>1, ReplayInvariant, PTL

-----------------------------------------------------------------------------
(* The ring implements the trailing window.                                *)

\* Cutting off the first of two sequences leaves the second.
LEMMA FromConcat ==
    ASSUME NEW s \in Seq(Nat), NEW t \in Seq(Nat), t # << >>
    PROVE  From(s \o t, Len(s)) = t
<1>1. PICK m \in Nat : Len(s) = m
    BY LenProperties
<1>2. PICK n \in Nat : Len(t) = n /\ n # 0
    BY LenProperties, EmptySeq
<1>3. Len(s \o t) = m + n
    BY <1>1, <1>2, ConcatProperties
<1>4. From(s \o t, Len(s)) = SubSeq(s \o t, m + 1, m + n)
    BY <1>1, <1>3 DEF From
<1>5. SubSeq(s \o t, m + 1, m + n) = SubSeq(t, 1, n)
    <2>1. m + 1 \in Len(s) + 1 .. Len(s) + Len(t) /\ m + n \in Len(s) + 1 .. Len(s) + Len(t)
        BY <1>1, <1>2
    <2>2. (m + 1) - Len(s) = 1 /\ (m + n) - Len(s) = n
        BY <1>1
    <2>3. SubSeq(s \o t, m + 1, m + n) = SubSeq(t, (m + 1) - Len(s), (m + n) - Len(s))
        <3>1. ASSUME NEW from \in Len(s) + 1 .. Len(s) + Len(t),
                     NEW to \in Len(s) + 1 .. Len(s) + Len(t)
              PROVE  SubSeq(s \o t, from, to) = SubSeq(t, from - Len(s), to - Len(s))
            BY SubSeqOfConcat2
        <3> QED
            BY <2>1, <3>1, Zenon
    <2> QED
        BY <2>2, <2>3
<1> QED
    BY <1>2, <1>4, <1>5, SubSeqFull

\* The concatenation of the first chunks, for each number of them.
JoinedRuns ==
    [k \in 0 .. Len(chunks) |->
        IF k = 0 THEN << >>
        ELSE IF k = Len(chunks) /\ Hole
             THEN Bytes(chunks[1][1], Stops(chunks[k - 1]) - chunks[1][1]) \o chunks[k]
             ELSE Bytes(chunks[1][1], Stops(chunks[k]) - chunks[1][1])]

\* The concatenation is the function with its recursion equation.
LEMMA JoinedDef ==
    Joined = CHOOSE joined : joined =
                 [k \in 0 .. Len(chunks) |->
                     IF k = 0 THEN << >> ELSE joined[k - 1] \o chunks[k]]
BY DEF Joined

\* Every chunk is a run that starts at or behind the start of the first.
LEMMA ChunkOrder ==
    ASSUME ReplayInv, NEW k \in 1 .. Len(chunks)
    PROVE  /\ chunks[k][1] \in Nat /\ Stops(chunks[k]) \in Nat
           /\ chunks[1][1] \in Nat /\ chunks[1][1] <= chunks[k][1]
           /\ chunks[k][1] < Stops(chunks[k]) /\ chunks[k] \in Seq(Nat)
           /\ chunks[k] = Bytes(chunks[k][1], Stops(chunks[k]) - chunks[k][1])
           /\ Len(chunks[k]) = Stops(chunks[k]) - chunks[k][1]
<1>1. PICK N \in Nat : Len(chunks) = N
    BY Numbers DEF ReplayInv
<1>2. TypeOK /\ RunInv /\ OrderInv
    BY DEF ReplayInv
<1>3. /\ Stops(chunks[k]) \in Nat /\ chunks[k][1] \in Nat
      /\ chunks[k][1] < Stops(chunks[k]) /\ chunks[k] \in Seq(Nat)
      /\ chunks[k] = Bytes(chunks[k][1], Len(chunks[k]))
    BY <1>2, ChunkTypes
<1>4. PICK n \in Nat : Len(chunks[k]) = n
    BY <1>3, LenProperties
<1>5. n = Stops(chunks[k]) - chunks[k][1]
    BY <1>3, <1>4 DEF Stops
<1>6. 1 \in 1 .. N
    BY <1>1
<1>7. /\ Stops(chunks[1]) \in Nat /\ chunks[1][1] \in Nat /\ chunks[1][1] < Stops(chunks[1])
    BY <1>1, <1>2, <1>6, ChunkTypes
<1>8. chunks[1][1] <= chunks[k][1]
    <2>1. CASE k = 1
        BY <2>1, <1>7
    <2>2. CASE k # 1
        <3>1. Stops(chunks[1]) <= chunks[k][1]
            BY <2>2, <1>1, <1>2, <1>6 DEF OrderInv
        <3> QED
            BY <3>1, <1>3, <1>7
    <2> QED
        BY <2>1, <2>2
<1> QED
    BY <1>3, <1>4, <1>5, <1>7, <1>8

\* The concatenation of all chunks is the run they make, or two runs with the hole
\* between them.
LEMMA JoinedIsJoinedRuns ==
    ASSUME ReplayInv
    PROVE  Joined[Len(chunks)] = JoinedRuns[Len(chunks)]
<1>1. PICK N \in Nat : Len(chunks) = N
    BY Numbers DEF ReplayInv
<1> DEFINE Recursion(joined) ==
               [k \in 0 .. N |-> IF k = 0 THEN << >> ELSE joined[k - 1] \o chunks[k]]
           J == JoinedRuns
           V == Joined
<1>2. J[0] = << >>
    BY <1>1 DEF JoinedRuns
<1>3. ASSUME NEW k \in 1 .. N
      PROVE  J[k] = J[k - 1] \o chunks[k]
    <2> DEFINE first == chunks[1][1]
    <2>1. /\ chunks[k][1] \in Nat /\ Stops(chunks[k]) \in Nat
          /\ first \in Nat /\ first <= chunks[k][1]
          /\ chunks[k][1] < Stops(chunks[k]) /\ chunks[k] \in Seq(Nat)
          /\ chunks[k] = Bytes(chunks[k][1], Stops(chunks[k]) - chunks[k][1])
        BY <1>1, ChunkOrder
    <2>2. CASE k = 1
        <3>1. ~(k = N /\ Hole)
            BY <2>2, <1>1 DEF Hole
        <3>2. J[1] = Bytes(first, Stops(chunks[1]) - first)
            BY <2>2, <3>1, <1>1 DEF JoinedRuns
        <3>3. << >> \o chunks[1] = chunks[1]
            BY <2>1, <2>2, ConcatEmptySeq
        <3>4. chunks[1] = Bytes(first, Stops(chunks[1]) - first)
            BY <2>1, <2>2
        <3>5. J[k - 1] = << >>
            BY <2>2, <1>2
        <3> HIDE DEF J
        <3> QED
            BY <2>2, <3>2, <3>3, <3>4, <3>5
    <2>3. CASE k # 1
        <3>1. k - 1 \in 1 .. N /\ k - 1 \in 0 .. N /\ k - 1 # 0 /\ k - 1 # N
            BY <2>3
        <3>2. J[k - 1] = Bytes(first, Stops(chunks[k - 1]) - first)
            BY <3>1, <1>1 DEF JoinedRuns
        <3>3. CASE k = N /\ Hole
            <4>1. J[k] = Bytes(first, Stops(chunks[k - 1]) - first) \o chunks[k]
                BY <3>3, <2>3, <1>1, k \in 0 .. N DEF JoinedRuns
            <4> HIDE DEF J
            <4> QED
                BY <3>2, <4>1
        <3>4. CASE ~(k = N /\ Hole)
            <4>1. chunks[k][1] = Stops(chunks[k - 1])
                <5>1. CASE k = N
                    BY <5>1, <2>3, <3>4, <1>1 DEF Hole
                <5>2. CASE k # N
                    BY <5>2, <2>3, <1>1, k \in 2 .. N - 1 DEF ReplayInv, ChainInv
                <5> QED
                    BY <5>1, <5>2
            <4> DEFINE m == chunks[k][1] - first
                       n == Stops(chunks[k]) - chunks[k][1]
            <4>2. /\ m \in Nat /\ n \in Nat /\ first + m = chunks[k][1]
                  /\ m + n = Stops(chunks[k]) - first
                <5>1. PICK a \in Nat, b \in Nat, f \in Nat :
                          /\ a = chunks[k][1] /\ b = Stops(chunks[k]) /\ f = first
                          /\ f <= a /\ a < b
                    BY <2>1
                <5>2. m = a - f /\ n = b - a
                    BY <5>1
                <5> HIDE DEF m, n, first
                <5>3. /\ m \in Nat /\ n \in Nat /\ f + m = a /\ m + n = b - f
                    BY <5>1, <5>2
                <5> QED
                    BY <5>1, <5>3
            <4>3. Bytes(first, m) \o Bytes(first + m, n) = Bytes(first, m + n)
                <5> HIDE DEF m, n, first
                <5> QED
                    BY <2>1, <4>2, ConcatBytes
            <4>4. J[k] = Bytes(first, Stops(chunks[k]) - first)
                BY <3>4, <1>1, k \in 0 .. N DEF JoinedRuns
            <4>5. J[k - 1] = Bytes(first, m) /\ chunks[k] = Bytes(chunks[k][1], n)
                BY <3>2, <4>1, <2>1
            <4> HIDE DEF m, n, J
            <4> QED
                BY <4>2, <4>3, <4>4, <4>5
        <3> QED
            BY <3>3, <3>4
    <2> QED
        BY <2>2, <2>3
<1>4. J = Recursion(J)
    <2>1. J = [k \in 0 .. N |-> J[k]]
        BY <1>1 DEF JoinedRuns
    <2> HIDE DEF J
    <2>2. \A k \in 0 .. N : J[k] = Recursion(J)[k]
        <3> TAKE k \in 0 .. N
        <3>1. CASE k = 0
            BY <3>1, <1>2
        <3>2. CASE k # 0
            <4>1. k \in 1 .. N
                BY <3>2
            <4>2. J[k] = J[k - 1] \o chunks[k]
                BY <4>1, <1>3
            <4> QED
                BY <3>2, <4>2
        <3> QED
            BY <3>1, <3>2
    <2> QED
        BY <2>1, <2>2
<1>5. V = CHOOSE joined : joined = Recursion(joined)
    BY <1>1, JoinedDef
<1>6. V = Recursion(V)
    <2> HIDE DEF Recursion, J, V
    <2> QED
        BY <1>4, <1>5
<1> HIDE DEF V, J
<1>7. V[0] = << >> /\ \A k \in 1 .. N : V[k] = V[k - 1] \o chunks[k]
    BY <1>6
<1>8. V[0] = J[0] /\ \A k \in 1 .. N : V[k - 1] = J[k - 1] => V[k] = J[k]
    BY <1>2, <1>3, <1>7
<1>9. \A k \in 0 .. N : V[k] = J[k]
    BY <1>8, SameRecursion
<1> QED
    BY <1>1, <1>9, N \in 0 .. N DEF V, J

\* How many bytes the trailing window holds.
Held == IF end < Capacity THEN end ELSE Capacity

\* Inside Append as between its calls, the ring retains the end of the stream.
LEMMA RetainedIsSuffix ==
    ASSUME ReplayInv
    PROVE  /\ end \in Nat /\ Held \in 0 .. end
           /\ Retained = Bytes(end - Held, Held)
<1>1. PICK N \in Nat : Len(chunks) = N
    BY Numbers DEF ReplayInv
<1>2. /\ TypeOK /\ RunInv /\ OrderInv /\ ChainInv /\ StoredInv /\ RetainInv
      /\ stored \in Nat /\ end \in Nat /\ Capacity \in Nat \ {0}
      /\ (chunks = << >> <=> N = 0)
    BY <1>1, Numbers DEF ReplayInv
<1>3. Held \in 0 .. end
    BY <1>2 DEF Held
<1> DEFINE all == Joined[Len(chunks)]
<1>4. all = JoinedRuns[N]
    BY <1>1, JoinedIsJoinedRuns
<1>5. Retained = IF Len(all) <= Capacity THEN all ELSE From(all, Len(all) - Capacity)
    BY DEF Retained
<1> HIDE DEF all
<1>6. CASE N = 0
    <2>1. all = << >> /\ stored = 0
        BY <1>1, <1>2, <1>4, <1>6 DEF JoinedRuns, StoredInv
    <2>2. end = 0
        BY <2>1, <1>2 DEF RetainInv
    <2>3. Held = 0
        BY <2>2, <1>2 DEF Held
    <2>4. Len(all) = 0
        BY <2>1
    <2>5. Retained = << >>
        BY <2>1, <2>4, <1>2, <1>5
    <2>6. Bytes(end - 0, 0) = << >>
        BY <2>2, NoBytesIsEmpty, 0 - 0 = 0, 0 \in Nat
    <2> QED
        BY <2>3, <2>5, <2>6, <1>2, <1>3
<1>7. CASE N > 0 /\ ~Hole
    <2> DEFINE first == chunks[1][1]
               size == end - first
    <2>1. first \in Nat /\ Stops(chunks[N]) = end /\ first < end
        <3>1. /\ chunks[N][1] \in Nat /\ Stops(chunks[N]) \in Nat /\ first \in Nat
              /\ first <= chunks[N][1] /\ chunks[N][1] < Stops(chunks[N])
            BY <1>1, <1>7, ChunkOrder, N \in 1 .. N
        <3>2. Stops(chunks[N]) = end
            BY <1>1, <1>2, <1>7 DEF OrderInv
        <3> QED
            BY <3>1, <3>2
    <2>2. all = Bytes(first, size)
        BY <2>1, <1>1, <1>4, <1>7, N \in 0 .. N DEF JoinedRuns
    <2>3. stored = size
        BY <1>2, <1>7 DEF StoredInv
    <2>4. size \in Nat /\ first + size = end
        BY <1>2, <2>1
    <2>5. Len(all) = size
        <3> HIDE DEF first, size
        <3> QED
            BY <2>1, <2>2, <2>4, BytesFacts
    <2> HIDE DEF first, size
    <2>6. CASE size <= Capacity
        <3>1. Retained = Bytes(first, size)
            BY <2>2, <2>5, <2>6, <1>5
        <3>2. size = Held
            BY <2>1, <2>3, <2>4, <2>6, <1>2 DEF RetainInv, Held
        <3> QED
            BY <3>1, <3>2, <2>1, <2>4, <1>2, <1>3, end - size = first
    <2>7. CASE ~(size <= Capacity)
        <3>1. size - Capacity \in 0 .. size
            BY <2>4, <2>7, <1>2
        <3>2. Retained = Bytes(first + (size - Capacity), size - (size - Capacity))
            BY <2>1, <2>2, <2>4, <2>5, <2>7, <3>1, <1>5, FromBytes
        <3>3. Held = Capacity
            BY <2>1, <2>4, <2>7, <1>2 DEF Held
        <3>4. /\ first + (size - Capacity) = end - Capacity
              /\ size - (size - Capacity) = Capacity
            BY <2>1, <2>4, <1>2
        <3> QED
            BY <3>2, <3>3, <3>4, <1>2, <1>3
    <2> QED
        BY <2>6, <2>7
<1>8. CASE N > 0 /\ Hole
    <2> DEFINE first == chunks[1][1]
               older == Bytes(first, Stops(chunks[N - 1]) - first)
               newest == chunks[N]
    <2>1. N > 1 /\ Len(newest) = Capacity
        BY <1>1, <1>2, <1>8 DEF Hole, ChainInv
    <2>2. all = older \o newest
        BY <2>1, <1>1, <1>4, <1>8, N \in 0 .. N, N # 0 DEF JoinedRuns
    <2>3. /\ first \in Nat /\ chunks[N - 1][1] \in Nat /\ Stops(chunks[N - 1]) \in Nat
          /\ first <= chunks[N - 1][1] /\ chunks[N - 1][1] < Stops(chunks[N - 1])
        BY <1>1, <2>1, ChunkOrder, N - 1 \in 1 .. N
    <2>4. PICK m \in Nat : m = Stops(chunks[N - 1]) - first /\ m > 0
        BY <2>3
    <2>5. older \in Seq(Nat) /\ Len(older) = m
        BY <2>3, <2>4, BytesFacts
    <2>6. /\ newest \in Seq(Nat)
          /\ newest = Bytes(chunks[N][1], Stops(chunks[N]) - chunks[N][1])
          /\ chunks[N][1] \in Nat /\ Stops(chunks[N]) \in Nat
          /\ Len(newest) = Stops(chunks[N]) - chunks[N][1]
        BY <1>1, <2>1, ChunkOrder, N \in 1 .. N
    <2>7. Stops(chunks[N]) = end
        BY <1>1, <1>2, <1>8 DEF OrderInv
    <2>8. newest = Bytes(end - Capacity, Capacity) /\ end >= Capacity
        BY <2>1, <2>6, <2>7, <1>2, chunks[N][1] = end - Capacity
    <2> HIDE DEF older, newest
    <2>9. Len(all) = m + Capacity
        BY <2>1, <2>2, <2>5, <2>6, ConcatProperties
    <2>10. Retained = From(all, m)
        <3>1. PICK l \in Nat : l = m + Capacity /\ ~(l <= Capacity) /\ l - Capacity = m
            BY <2>4, <1>2
        <3>2. ~(Len(all) <= Capacity) /\ Len(all) - Capacity = m
            BY <3>1, <2>9
        <3> QED
            BY <3>2, <1>5
    <2>11. From(older \o newest, Len(older)) = newest
        <3>1. newest # << >>
            BY <2>1, <1>2, EmptySeq
        <3> QED
            BY <3>1, <2>5, <2>6, FromConcat
    <2>12. Held = Capacity
        BY <2>8, <1>2 DEF Held
    <2> QED
        BY <2>2, <2>5, <2>8, <2>10, <2>11, <2>12, <1>2, <1>3
<1> QED
    BY <1>6, <1>7, <1>8

\* The same of the next state.
LEMMA RetainedIsSuffixNext ==
    ReplayInv' => /\ end' \in Nat /\ Held' \in 0 .. end'
                  /\ Retained' = Bytes(end' - Held', Held')
<1>1. ReplayInv => /\ end \in Nat /\ Held \in 0 .. end
                   /\ Retained = Bytes(end - Held, Held)
    BY RetainedIsSuffix
<1>2. (ReplayInv => /\ end \in Nat /\ Held \in 0 .. end
                    /\ Retained = Bytes(end - Held, Held))'
    BY <1>1, PTL
<1> QED
    BY <1>2 DEF Bytes

\* When Append has returned nothing of what the ring holds is in excess.
LEMMA ContentsAreRetained ==
    ASSUME ReplayInv
    PROVE  Contents = Retained
<1>1. PICK N \in Nat : Len(chunks) = N
    BY Numbers DEF ReplayInv
<1>2. /\ OrderInv /\ ChainInv /\ StoredInv /\ RetainInv
      /\ stored \in Nat /\ end \in Nat /\ Capacity \in Nat \ {0}
      /\ (chunks = << >> <=> N = 0)
    BY <1>1, Numbers DEF ReplayInv
<1> DEFINE all == Joined[Len(chunks)]
<1>3. all = JoinedRuns[N]
    BY <1>1, JoinedIsJoinedRuns
<1>4. /\ Retained = IF Len(all) <= Capacity THEN all ELSE From(all, Len(all) - Capacity)
      /\ Contents = IF pc = "idle" THEN all ELSE Retained
    BY DEF Retained, Contents
<1> HIDE DEF all
<1>5. SUFFICES ASSUME pc = "idle" PROVE Len(all) <= Capacity
    BY <1>4
<1>6. ~Hole /\ stored <= Capacity
    BY <1>2, <1>5 DEF ChainInv, RetainInv
<1>7. CASE N = 0
    <2>1. all = << >>
        BY <1>1, <1>3, <1>7 DEF JoinedRuns
    <2>2. Len(all) = 0
        BY <2>1
    <2> QED
        BY <2>2, <1>2
<1>8. CASE N > 0
    <2> DEFINE first == chunks[1][1]
               size == end - first
    <2>1. /\ first \in Nat /\ Stops(chunks[N]) = end /\ first < end
        <3>1. /\ chunks[N][1] \in Nat /\ first \in Nat
              /\ first <= chunks[N][1] /\ chunks[N][1] < Stops(chunks[N])
            BY <1>1, <1>8, ChunkOrder, N \in 1 .. N
        <3>2. Stops(chunks[N]) = end
            BY <1>1, <1>2, <1>8 DEF OrderInv
        <3> QED
            BY <3>1, <3>2, <1>2
    <2>2. all = Bytes(first, size)
        BY <2>1, <1>1, <1>3, <1>6, <1>8, N \in 0 .. N DEF JoinedRuns
    <2>3. stored = size
        BY <1>2, <1>6, <1>8 DEF StoredInv
    <2>4. size \in Nat
        BY <1>2, <2>1
    <2> HIDE DEF first, size
    <2>5. Len(all) = size
        BY <2>1, <2>2, <2>4, BytesFacts
    <2> QED
        BY <2>3, <2>5, <1>6
<1> QED
    BY <1>7, <1>8

\* The same of the next state.
LEMMA ContentsAreRetainedNext == ReplayInv' => Contents' = Retained'
<1>1. ReplayInv => Contents = Retained
    BY ContentsAreRetained
<1>2. (ReplayInv => Contents = Retained)'
    BY <1>1, PTL
<1> QED
    BY <1>2

\* Append is a Grow of the window.
LEMMA AppendGrowsWindow ==
    ASSUME ReplayInv, ReplayInv', BeginAppend
    PROVE  Window!Next
<1>1. PICK n \in 1 .. MaxChunk : end' = end + n
    BY DEF BeginAppend
<1>2. n \in Nat /\ n > 0 /\ Capacity \in Nat \ {0}
    BY ReplayAssumption
<1>3. end \in Nat /\ Held \in 0 .. end /\ Contents = Bytes(end - Held, Held)
    BY RetainedIsSuffix, ContentsAreRetained
<1>4. Contents' = Bytes(end' - Held', Held')
    BY RetainedIsSuffixNext, ContentsAreRetainedNext
<1> DEFINE joined == Bytes(end - Held, Held) \o Bytes(end, n)
<1>5. joined = Bytes(end - Held, Held + n) /\ Len(joined) = Held + n
    <2>1. /\ end - Held \in Nat /\ (end - Held) + Held = end
          /\ Held \in Nat /\ Held + n \in Nat
        BY <1>2, <1>3
    <2>2. Bytes(end - Held, Held) \o Bytes((end - Held) + Held, n)
            = Bytes(end - Held, Held + n)
        BY <2>1, <1>2, ConcatBytes
    <2>3. joined = Bytes(end - Held, Held + n)
        BY <2>1, <2>2
    <2> HIDE DEF joined
    <2> QED
        BY <2>1, <2>3, BytesFacts
<1>6. Held' = IF end + n < Capacity THEN end + n ELSE Capacity
    BY <1>1 DEF Held
<1> HIDE DEF joined
<1>7. Contents' = Window!Last(joined, Capacity)
    <2>1. CASE Held + n <= Capacity
        <3>1. Held = end /\ Held' = Held + n
            BY <2>1, <1>2, <1>3, <1>6 DEF Held
        <3>2. end' - Held' = end - Held
            BY <3>1, <1>1, <1>2, <1>3
        <3>3. Contents' = joined
            BY <3>1, <3>2, <1>4, <1>5
        <3>4. Len(joined) <= Capacity
            BY <2>1, <1>5
        <3> QED
            BY <3>3, <3>4 DEF Window!Last
    <2>2. CASE ~(Held + n <= Capacity)
        <3> DEFINE cut == Held + n - Capacity
        <3>1. /\ cut \in 0 .. Held + n /\ end - Held \in Nat
              /\ Held + n \in Nat /\ ~(Len(joined) <= Capacity)
            BY <2>2, <1>2, <1>3, <1>5
        <3>2. From(joined, cut) = Bytes((end - Held) + cut, (Held + n) - cut)
            <4> HIDE DEF cut
            <4> QED
                BY <3>1, <1>5, FromBytes
        <3>3. (end - Held) + cut = end + n - Capacity /\ (Held + n) - cut = Capacity
            BY <1>2, <1>3
        <3>4. Held' = Capacity
            BY <2>2, <1>2, <1>3, <1>6
        <3>5. Contents' = From(joined, cut)
            <4>1. Contents' = Bytes(end + n - Capacity, Capacity)
                <5>1. end' - Held' = end + n - Capacity
                    BY <3>4, <1>1, <1>2, <1>3
                <5> QED
                    BY <5>1, <3>4, <1>4
            <4> HIDE DEF cut
            <4> QED
                BY <4>1, <3>2, <3>3
        <3>6. cut + 1 = Len(joined) - Capacity + 1
            BY <1>2, <1>3, <1>5
        <3>7. Window!Last(joined, Capacity)
                = SubSeq(joined, Len(joined) - Capacity + 1, Len(joined))
            BY <3>1 DEF Window!Last
        <3> HIDE DEF cut
        <3> QED
            BY <3>5, <3>6, <3>7 DEF From
    <2> QED
        BY <2>1, <2>2
<1>8. end' \in Nat /\ end' > end /\ end' - end = n
    BY <1>1, <1>2, <1>3
<1>9. joined = Contents \o [i \in 1 .. n |-> end + i - 1]
    BY <1>3 DEF joined, Bytes
<1>10. Window!Grow(n)
    BY <1>1, <1>7, <1>9 DEF Window!Grow
<1> QED
    BY <1>8, <1>10 DEF Window!Next

\* The iterations of the eviction change nothing of the window.
LEMMA EvictionKeepsWindow ==
    ASSUME ReplayInv, ReplayInv', end' = end
    PROVE  Contents' = Contents
<1>1. Held' = Held
    BY DEF Held
<1>2. Contents = Bytes(end - Held, Held)
    BY RetainedIsSuffix, ContentsAreRetained
<1>3. Contents' = Bytes(end' - Held', Held')
    BY RetainedIsSuffixNext, ContentsAreRetainedNext
<1> QED
    BY <1>1, <1>2, <1>3

\* The initial states are initial states of the window.
LEMMA WindowInit == Init => Window!Init
<1> SUFFICES ASSUME Init PROVE Window!Init
    OBVIOUS
<1>1. ReplayInv /\ end = 0 /\ Capacity \in Nat \ {0}
    BY InitInvariant, ReplayAssumption DEF Init
<1>2. Held = 0
    BY <1>1 DEF Held
<1>3. Contents = Bytes(0 - 0, 0)
    BY <1>1, <1>2, RetainedIsSuffix, ContentsAreRetained
<1>4. Bytes(0, 0) = << >>
    BY NoBytesIsEmpty
<1> QED
    BY <1>1, <1>3, <1>4, 0 - 0 = 0 DEF Window!Init

\* Every step of the ring is a step of the window or changes nothing of it.
LEMMA WindowStep ==
    ReplayInv /\ ReplayInv' /\ [Next]_vars => [Window!Next]_<<end, Contents>>
<1> SUFFICES ASSUME ReplayInv, ReplayInv', [Next]_vars
             PROVE  [Window!Next]_<<end, Contents>>
    OBVIOUS
<1>1. CASE BeginAppend
    BY <1>1, AppendGrowsWindow
<1>2. CASE Evict \/ UNCHANGED vars
    <2>1. end' = end
        BY <1>2 DEF Evict, EvictChunk, EvictPart, EndAppend, vars
    <2> QED
        BY <2>1, EvictionKeepsWindow
<1> QED
    BY <1>1, <1>2 DEF Next

\* The ring implements TrailingWindow: whatever the sizes of the chunks, the eviction
\* takes what exceeds the capacity, all of it before Append returns, and nothing else
\* (replay.go, evictLocked).
THEOREM RingKeepsWindow == Spec => ImplementsWindow
<1>1. Init => Window!Init
    BY WindowInit
<1>2. ReplayInv /\ ReplayInv' /\ [Next]_vars => [Window!Next]_<<end, Contents>>
    BY WindowStep
<1> QED
    BY <1>1, <1>2, ReplayInvariant, PTL DEF Spec, ImplementsWindow, Window!Spec
=============================================================================
