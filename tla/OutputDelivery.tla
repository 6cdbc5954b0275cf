---------------------------- MODULE OutputDelivery ----------------------------
(***************************************************************************)
(* One listener's bounded output queue: type outputDelivery of             *)
(* internal/session/delivery.go, with the three goroutines that meet in it:*)
(*                                                                         *)
(*   - the PTY pump, which enqueues chunks and must never block;           *)
(*   - the delivery's own goroutine (run), which drains and writes;        *)
(*   - whoever detaches the listener, which calls stop().                  *)
(*                                                                         *)
(* A critical section under d.mu is one step.  What happens outside d.mu   *)
(* is a step of its own: the socket write, the Signal of stop(), the       *)
(* onError callback of fail().  A byte is represented by its offset in the *)
(* output stream, so that "the right bytes" is a checkable statement.      *)
(***************************************************************************)
EXTENDS Integers, Sequences

CONSTANTS
    MaxBytes, \* d.maxBytes: the queue bound (2 MiB in the program)
    MaxChunk, \* largest chunk the pump enqueues (its 32 KiB read buffer)
    MaxEnd    \* bound on the length of the output stream

ASSUME DeliveryAssumption ==
    /\ MaxBytes \in Nat \ {0}
    /\ MaxChunk \in Nat \ {0}
    /\ MaxEnd \in Nat

VARIABLES
    base,        \* stream offset at which the listener attached
    end,         \* bytes the pump has produced
    pending,     \* d.pending
    startOffset, \* d.startOffset
    state,       \* d.state
    runPc,       \* where the delivery goroutine is
    batch,       \* the batch it took from the queue ...
    batchOffset, \* ... and the offset it will announce for it
    stopPc,      \* the detaching goroutine: "idle", "signal" or "stopped"
    written,     \* bytes that reached the socket, in order
    reports      \* how often onError was called

queueVars == <<pending, startOffset, state>>
runVars   == <<batch, batchOffset, written>>
vars == <<base, end, queueVars, runPc, runVars, stopPc, reports>>

States == {"running", "stopped", "overflowed"}
RunPcs == {"drain", "waiting", "writing", "failing", "reporting", "returned"}

\* The n bytes of the stream that start at offset `from`.
Bytes(from, n) == [i \in 1..n |-> from + i - 1]

Init ==
    /\ base \in 0..MaxEnd
    /\ end = base
    /\ pending = << >>
    /\ startOffset = 0
    /\ state = "running"
    /\ runPc = "drain"
    /\ batch = << >>
    /\ batchOffset = 0
    /\ stopPc = "idle"
    /\ written = << >>
    /\ reports = 0

\* Mutant: cond.Signal() is forgotten.
MutSignalLost == UNCHANGED runPc

\* d.cond.Signal(): the delivery goroutine is the only one that ever waits.
Signal == runPc' = IF runPc = "waiting" THEN "drain" ELSE runPc

-----------------------------------------------------------------------------
(* The pump: fanout calls enqueue with the chunk it has just read.         *)

\* A delivery that is no longer running ignores the chunk.
EnqueueIgnored ==
    /\ state # "running"
    /\ UNCHANGED <<queueVars, runPc>>

\* Mutant: a chunk that does not fit is dropped and the delivery goes on.
MutEnqueueDrops(n) ==
    /\ state = "running"
    /\ IF Len(pending) + n > MaxBytes THEN UNCHANGED queueVars
       ELSE /\ startOffset' = IF pending = << >> THEN end ELSE startOffset
            /\ pending' = pending \o Bytes(end, n)
            /\ UNCHANGED state
    /\ Signal

\* Mutant: startOffset is set by every chunk, not only by the first one.
MutEnqueueMovesOffset(n) ==
    /\ state = "running"
    /\ startOffset' = end
    /\ pending' = pending \o Bytes(end, n)
    /\ state' = IF Len(pending') > MaxBytes THEN "overflowed" ELSE state
    /\ Signal

\* Mutant: end is read before the ring's Append and the chunk taken off all the same.
MutEnqueueSubtracts(n) ==
    /\ state = "running"
    /\ startOffset' = IF pending = << >> THEN end - n ELSE startOffset
    /\ pending' = pending \o Bytes(end, n)
    /\ state' = IF Len(pending') > MaxBytes THEN "overflowed" ELSE state
    /\ Signal

EnqueueKept(n) ==
    /\ state = "running"
    /\ startOffset' = IF pending = << >> THEN end ELSE startOffset
    /\ pending' = pending \o Bytes(end, n)
    /\ state' = IF Len(pending') > MaxBytes THEN "overflowed" ELSE state
    /\ Signal

Enqueue ==
    \E n \in 1..MaxChunk :
        /\ end + n <= MaxEnd
        /\ end' = end + n
        /\ EnqueueIgnored \/ EnqueueKept(n)
        /\ UNCHANGED <<base, runVars, stopPc, reports>>

-----------------------------------------------------------------------------
(* stop(): the critical section, then the Signal after the unlock.  Nothing *)
(* keeps two callers from stopping the same delivery.                       *)

Stop ==
    /\ stopPc \in {"idle", "stopped"}
    /\ stopPc' = "signal"
    /\ state' = "stopped"
    /\ pending' = << >>
    /\ UNCHANGED <<base, end, startOffset, runPc, runVars, reports>>

\* Mutant: stop() does not wake the goroutine.
MutStopSilently ==
    /\ stopPc = "signal"
    /\ stopPc' = "stopped"
    /\ UNCHANGED <<base, end, queueVars, runPc, runVars, reports>>

StopSignal ==
    /\ stopPc = "signal"
    /\ stopPc' = "stopped"
    /\ Signal
    /\ UNCHANGED <<base, end, queueVars, runVars, reports>>

-----------------------------------------------------------------------------
(* run(): drain, write, and again until stopped or failed.                 *)

\* Mutant: run() returns on an overflow as it does on a stop.
MutOverflowQuiet ==
    /\ runPc = "drain"
    /\ state # "running"
    /\ runPc' = "returned"
    /\ UNCHANGED <<base, end, queueVars, runVars, stopPc, reports>>

DrainStopped ==
    /\ runPc = "drain"
    /\ state # "running"
    /\ runPc' = IF state = "stopped" THEN "returned" ELSE "failing"
    /\ UNCHANGED <<base, end, queueVars, runVars, stopPc, reports>>

DrainBatch ==
    /\ runPc = "drain"
    /\ state = "running"
    /\ pending # << >>
    /\ batch' = pending
    /\ batchOffset' = startOffset
    /\ pending' = << >>
    /\ startOffset' = 0
    /\ runPc' = "writing"
    /\ UNCHANGED <<base, end, state, stopPc, written, reports>>

DrainWait ==
    /\ runPc = "drain"
    /\ state = "running"
    /\ pending = << >>
    /\ runPc' = "waiting"
    /\ UNCHANGED <<base, end, queueVars, runVars, stopPc, reports>>

\* The batch is forgotten with the write: batch and batchOffset are locals of
\* one iteration of the loop.
EndWrite(reached) ==
    /\ runPc = "writing"
    /\ written' = IF reached THEN written \o batch ELSE written
    /\ batch' = << >>
    /\ batchOffset' = 0
    /\ UNCHANGED <<base, end, queueVars, stopPc, reports>>

WriteOK == EndWrite(TRUE) /\ runPc' = "drain"

\* Mutant: the error of a write is ignored.
MutWriteErrorIgnored == (EndWrite(TRUE) \/ EndWrite(FALSE)) /\ runPc' = "drain"

\* A write that returns an error (closed socket, ten second timeout) may or may
\* not have put the frame on the wire.
WriteError == (EndWrite(TRUE) \/ EndWrite(FALSE)) /\ runPc' = "failing"

\* Mutant: fail() forgets that the delivery is to stop accepting chunks.
MutFailStillOpen ==
    /\ runPc = "failing"
    /\ pending' = << >>
    /\ runPc' = "reporting"
    /\ UNCHANGED <<base, end, startOffset, state, runVars, stopPc, reports>>

Fail ==
    /\ runPc = "failing"
    /\ state' = "stopped"
    /\ pending' = << >>
    /\ runPc' = "reporting"
    /\ UNCHANGED <<base, end, startOffset, runVars, stopPc, reports>>

Report ==
    /\ runPc = "reporting"
    /\ reports' = reports + 1
    /\ runPc' = "returned"
    /\ UNCHANGED <<base, end, queueVars, runVars, stopPc>>

Run == DrainStopped \/ DrainBatch \/ DrainWait \/ WriteOK \/ WriteError
          \/ Fail \/ Report

Next == Enqueue \/ Stop \/ StopSignal \/ Run

Spec == Init /\ [][Next]_vars

(***************************************************************************)
(* The scheduler runs every runnable goroutine: run() makes progress (its  *)
(* write ends, in success or by the ten second timeout of writeBinary), and *)
(* a stop() that has begun reaches its Signal.  Nothing makes the PTY      *)
(* produce output or a client detach.                                      *)
(***************************************************************************)
Fairness == WF_vars(Run) /\ WF_vars(StopSignal)

FairSpec == Spec /\ Fairness

-----------------------------------------------------------------------------
(* Properties.                                                             *)

\* Every variable has its type; the queue holds stream offsets.
TypeOK ==
    /\ base \in Nat /\ end \in Nat /\ base <= end
    /\ pending \in Seq(Nat) /\ startOffset \in Nat
    /\ state \in States
    /\ runPc \in RunPcs
    /\ batch \in Seq(Nat) /\ batchOffset \in Nat
    /\ stopPc \in {"idle", "signal", "stopped"}
    /\ written \in Seq(Nat)
    /\ reports \in Nat

\* What has been written, is being written and is queued, in stream order.
Accepted == written \o batch \o pending

\* The bytes written, in flight and queued are consecutive bytes of the stream
\* from the attach offset on (delivery.go:27: "Bytes are never dropped
\* mid-stream"), and none is missing as long as the delivery accepts output.
\* Between a write that lost its batch and fail() the queue may follow a hole:
\* what was written does not.
NothingSkipped ==
    /\ written = Bytes(base, Len(written))
    /\ runPc # "failing" => Accepted = Bytes(base, Len(Accepted))
    /\ state = "running" /\ runPc \in {"drain", "waiting", "writing"}
          => Len(Accepted) = end - base

\* A frame on its way to the socket announces the offset at which the previous
\* frame ended, although chunks were merged and startOffset reset and set again
\* by two goroutines (enqueue and drain).  A client drops anything else.
FrameOffsetTruthful ==
    runPc = "writing" => /\ batch # << >>
                         /\ batchOffset = base + Len(written)

\* onError runs at most once, and only when the delivery is dead and its memory
\* released, even if stop() and a failing write race (delivery.go:113).
ReportedOnceDead ==
    /\ reports <= 1
    /\ runPc = "reporting" \/ reports = 1 => state = "stopped" /\ pending = << >>

\* The goroutine is asleep in cond.Wait only while there is nothing to write and
\* nothing to end for, or while the stop() that ended the delivery has still to
\* signal it, which it does after the unlock (delivery.go:66, 75).
SleepsOnlyIdle ==
    runPc = "waiting" =>
        /\ pending = << >>
        /\ state = "running" \/ stopPc = "signal"

\* The delivery implements the stream promised to the listener: it is closed
\* when its goroutine will not write again.
Promise == INSTANCE PrefixStream WITH
    delivered <- written,
    closed <- runPc \in {"failing", "reporting", "returned"}

\* The property for TLC: every step of the delivery is a step of the promise.
ImplementsPromise == Promise!Spec

\* No lost wakeup: whatever is queued is eventually taken by the goroutine or
\* discarded by a stop.
QueueIsDrained == (pending # << >>) ~> (pending = << >>)

\* No leaked goroutine: once stopped or overflowed, run() returns, also when
\* it was asleep in cond.Wait.
RunReturns == (state # "running") ~> (runPc = "returned")

\* A client that fell behind is dropped, never silently starved: an overflow
\* ends in the onError that closes its connection, unless it detached itself.
OverflowReported == (state = "overflowed") ~> (reports = 1 \/ stopPc # "idle")
=============================================================================
