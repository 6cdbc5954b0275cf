----------------------------- MODULE ReplayBuffer -----------------------------
(***************************************************************************)
(* The replay ring of a session: internal/session/replay.go, with the      *)
(* chunk list, the loop that evicts from its head, and the three readings  *)
(* that a hello makes of it (SliceFrom, Tail, SnapTailToSafeBoundary).     *)
(*                                                                         *)
(* The pump is the only writer.  Append holds b.mu, its loop is modelled   *)
(* one iteration per step; a reader gets the lock only when pc = "idle".   *)
(* A byte is its offset in the stream; text says what kind of byte it is,  *)
(* as far as the snap can tell.                                            *)
(***************************************************************************)
EXTENDS Integers, Sequences

CONSTANTS
    Capacity, \* b.capacity
    MaxChunk, \* largest chunk the pump appends
    MaxEnd    \* bound on the length of the stream

ASSUME ReplayAssumption ==
    /\ Capacity \in Nat \ {0}
    /\ MaxChunk \in Nat \ {0}
    /\ MaxEnd \in Nat

VARIABLES
    chunks, \* b.chunks
    stored, \* b.stored
    end,    \* b.end
    pc,     \* "idle", or "evict" inside Append
    text    \* the kind of every byte of the stream; it never changes

vars == <<chunks, stored, end, pc, text>>

\* "newline"; "inside": a continuation byte of UTF-8; "other".
Kinds == {"newline", "inside", "other"}

\* The n bytes of the stream that start at offset `from`.
Bytes(from, n) == [i \in 1..n |-> from + i - 1]

\* The slice s[n:] of the source.
From(s, n) == SubSeq(s, n + 1, Len(s))

Init ==
    /\ chunks = << >>
    /\ stored = 0
    /\ end = 0
    /\ pc = "idle"
    /\ text \in [0..MaxEnd - 1 -> Kinds]

-----------------------------------------------------------------------------
(* Append and the loop of evictLocked.                                     *)

Kept(chunk) == IF Len(chunk) > Capacity THEN From(chunk, Len(chunk) - Capacity) ELSE chunk

\* Mutant: stored counts the chunk as it came, not what was kept of it.
MutBeginAppend ==
    /\ pc = "idle"
    /\ \E n \in 1..MaxChunk :
          /\ end + n <= MaxEnd
          /\ chunks' = Append(chunks, Kept(Bytes(end, n)))
          /\ stored' = stored + n
          /\ end' = end + n
    /\ pc' = "evict"
    /\ UNCHANGED text

BeginAppend ==
    /\ pc = "idle"
    /\ \E n \in 1..MaxChunk :
          /\ end + n <= MaxEnd
          /\ chunks' = Append(chunks, Kept(Bytes(end, n)))
          /\ stored' = stored + Len(Kept(Bytes(end, n)))
          /\ end' = end + n
    /\ pc' = "evict"
    /\ UNCHANGED text

Excess == stored - Capacity

\* The head goes as a whole when all of it is in excess.
EvictChunk ==
    /\ pc = "evict"
    /\ chunks # << >> /\ Excess > 0
    /\ Len(Head(chunks)) <= Excess
    /\ chunks' = Tail(chunks)
    /\ stored' = stored - Len(Head(chunks))
    /\ UNCHANGED <<end, pc, text>>

EvictPart ==
    /\ pc = "evict"
    /\ chunks # << >> /\ Excess > 0
    /\ Len(Head(chunks)) > Excess
    /\ chunks' = [chunks EXCEPT ![1] = From(@, Excess)]
    /\ stored' = stored - Excess
    /\ UNCHANGED <<end, pc, text>>

\* Mutant: only whole chunks are evicted, so that some excess stays.
MutEndAppend ==
    /\ pc = "evict"
    /\ chunks = << >> \/ Excess < Len(Head(chunks))
    /\ pc' = "idle"
    /\ UNCHANGED <<chunks, stored, end, text>>

EndAppend ==
    /\ pc = "evict"
    /\ chunks = << >> \/ Excess <= 0
    /\ pc' = "idle"
    /\ UNCHANGED <<chunks, stored, end, text>>

Evict == EvictChunk \/ EvictPart \/ EndAppend

Next == BeginAppend \/ Evict

Spec == Init /\ [][Next]_vars

-----------------------------------------------------------------------------
(* The readings.                                                           *)

StartOffset == end - stored

Nil == [ok |-> FALSE, bytes |-> << >>]
Slice(bytes) == [ok |-> TRUE, bytes |-> bytes]

\* sliceFromLocked walks all chunks and copies what lies behind the offset into a
\* result made in advance: what no chunk fills stays Zero, what does not fit is
\* not copied.
Zero == -1
\* Mutant: the chunk that holds the offset is copied from its beginning.
MutCopy(offset, walk, chunk) ==
    LET chunkEnd == walk.position + Len(chunk)
    IN  [position |-> chunkEnd,
         written |-> walk.written \o (IF chunkEnd > offset THEN chunk ELSE << >>)]

Copy(offset, walk, chunk) ==
    LET position == walk.position
        chunkEnd == position + Len(chunk)
        from == IF offset > position THEN offset - position ELSE 0
    IN  [position |-> chunkEnd,
         written |-> walk.written \o (IF chunkEnd > offset THEN From(chunk, from)
                                      ELSE << >>)]

\* The walk after each number of chunks.
Walk(offset) ==
    LET walk[k \in 0..Len(chunks)] ==
            IF k = 0 THEN [position |-> StartOffset, written |-> << >>]
            ELSE Copy(offset, walk[k - 1], chunks[k])
    IN  walk

SliceFrom(offset) ==
    IF offset < StartOffset \/ offset > end THEN Nil
    ELSE LET written == Walk(offset)[Len(chunks)].written
         IN  Slice([i \in 1..end - offset |->
                       IF i <= Len(written) THEN written[i] ELSE Zero])

TailOffset(maxBytes) ==
    IF end - maxBytes < StartOffset THEN StartOffset ELSE end - maxBytes

TailBytes(maxBytes) == SliceFrom(TailOffset(maxBytes)).bytes

\* Mutant: the index of the newline is taken for the number of bytes before it.
MutSnapSkipped(data, maxBytes) ==
    LET kind(i) == text[data[i]]
        budgetStart == IF Len(data) > maxBytes THEN Len(data) - maxBytes ELSE 0
        newlines == {i \in budgetStart + 1 .. Len(data) : kind(i) = "newline"}
        leading == {n \in 0..Len(data) : \A i \in 1..n : kind(i) = "inside"}
    IN  IF newlines # {} THEN (CHOOSE i \in newlines : \A j \in newlines : j <= i) - 1
        ELSE CHOOSE n \in leading : \A m \in leading : m <= n

\* Indices into data count from 1 here, from 0 in the source.
SnapSkipped(data, maxBytes) ==
    LET kind(i) == text[data[i]]
        budgetStart == IF Len(data) > maxBytes THEN Len(data) - maxBytes ELSE 0
        newlines == {i \in budgetStart + 1 .. Len(data) : kind(i) = "newline"}
        leading == {n \in 0..Len(data) : \A i \in 1..n : kind(i) = "inside"}
    IN  IF newlines # {} THEN CHOOSE i \in newlines : \A j \in newlines : j <= i
        ELSE CHOOSE n \in leading : \A m \in leading : m <= n

\* handleHello's fresh attach: the bytes it sends, and the offset it sends them at.
Repaint(maxBytes, window) ==
    LET data == TailBytes(maxBytes)
        skipped == SnapSkipped(data, window)
    IN  [offset |-> TailOffset(maxBytes) + skipped, bytes |-> From(data, skipped)]

-----------------------------------------------------------------------------
(* Properties.                                                             *)

\* Every variable has its type.
TypeOK ==
    /\ chunks \in Seq(Seq(0..MaxEnd - 1))
    /\ stored \in 0..2 * Capacity
    /\ end \in 0..MaxEnd
    /\ pc \in {"idle", "evict"}
    /\ text \in [0..MaxEnd - 1 -> Kinds]

\* A resume gets exactly the bytes it missed (replay.go:14) or is refused, however
\* the appends were cut into chunks and chunks were trimmed; it is refused only when
\* bytes are gone or were never there.  An offset at the very end is not refused.
ResumeIsExact ==
    pc = "idle" => \A offset \in -1..MaxEnd + 1 :
        SliceFrom(offset) =
            IF offset \in end - stored .. end THEN Slice(Bytes(offset, end - offset))
            ELSE Nil

\* A fresh attach gets the end of the stream, at its true offset and within its
\* bound, whichever cut the snap chose; with a newline in the window it starts
\* behind one, and it never starts inside a code point.
RepaintIsTruthful ==
    pc = "idle" => \A maxBytes, window \in 1..MaxEnd :
        LET r == Repaint(maxBytes, window)
        IN  /\ r.bytes = Bytes(r.offset, end - r.offset)
            /\ Len(r.bytes) <= maxBytes
            /\ r.bytes # << >> => text[r.offset] # "inside" \/ text[r.offset - 1] = "newline"
            /\ \A o \in r.offset..end - 1 : o >= end - window => text[o] # "newline"

\* The chunks, one behind the other.
Joined ==
    LET joined[k \in 0..Len(chunks)] ==
            IF k = 0 THEN << >> ELSE joined[k - 1] \o chunks[k]
    IN  joined

\* What of them is not in excess.
Retained ==
    LET all == Joined[Len(chunks)]
    IN  IF Len(all) <= Capacity THEN all ELSE From(all, Len(all) - Capacity)

\* What the rest of the program has of the ring: between two calls everything in it;
\* inside Append, where the lock is held, what the eviction is to leave.
Contents == IF pc = "idle" THEN Joined[Len(chunks)] ELSE Retained

Window == INSTANCE TrailingWindow WITH window <- Contents

\* The ring implements the trailing window: eviction, a loop over chunks of any
\* size, takes nothing that a client could still ask for, and when Append returns
\* no byte is left in the ring in excess of its capacity.
ImplementsWindow == Window!Spec
=============================================================================
