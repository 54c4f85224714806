----------------------------- MODULE LogShipper -----------------------------
(***************************************************************************)
(* The in-process log shipper: goroutines that log put events into a       *)
(* bounded channel without ever waiting; one background goroutine takes    *)
(* them out, collects a batch and posts it when the batch is full, when    *)
(* the flush ticker fires, or when the channel is closed and empty.  Close *)
(* closes the channel and waits for the background goroutine up to a       *)
(* deadline.  Events are counted, not told apart.                          *)
(***************************************************************************)
EXTENDS Integers, FiniteSets

CONSTANTS
    Writer,         \* goroutines that log
    Recovering,     \* those whose panics are recovered: HTTP requests
    BufferSize,     \* capacity of the channel
    BatchSize,      \* events per POST
    MaxEvents       \* bound: calls of Write, and so events

ASSUME ShipperAssumption ==
    /\ IsFiniteSet(Writer) /\ Recovering \subseteq Writer
    /\ BufferSize \in Nat \ {0}
    /\ BatchSize \in Nat \ {0}
    /\ MaxEvents \in Nat

Attempts == 3   \* POSTs tried for one batch

VARIABLES
    in,         \* events in the channel
    closed,     \* the channel is closed
    batch,      \* events in the batch of the background goroutine
    run,        \* where the background goroutine is
    attempt,    \* POSTs of this batch that failed
    cancelled,  \* runCtx is cancelled
    closing,    \* where Close is
    adding,     \* writers between their send and bufLen.Add(1)
    bufLen,     \* the gauge
    calls,      \* calls of Write so far
    count,      \* sent ok, dropped fail, dropped full; lost to a panic
    panicked    \* a panic nobody recovered: the process is gone

ship == <<in, batch, run, attempt, count>>
vars == <<in, closed, batch, run, attempt, cancelled, closing, adding,
          bufLen, calls, count, panicked>>

TypeOK ==
    /\ in \in 0 .. BufferSize
    /\ closed \in BOOLEAN
    /\ batch \in 0 .. BatchSize
    /\ run \in {"select", "posting", "last", "stopped"}
    /\ attempt \in 0 .. Attempts - 1
    /\ cancelled \in BOOLEAN
    /\ closing \in {"open", "waiting", "drained", "expired"}
    /\ adding \subseteq Writer
    /\ bufLen \in Int
    /\ calls \in Nat
    /\ count \in [{"ok", "fail", "full", "lost"} -> Nat]
    /\ panicked \in BOOLEAN

Init ==
    /\ in = 0 /\ closed = FALSE
    /\ batch = 0 /\ run = "select" /\ attempt = 0
    /\ cancelled = FALSE /\ closing = "open"
    /\ adding = {} /\ bufLen = 0 /\ calls = 0
    /\ count = [o \in {"ok", "fail", "full", "lost"} |-> 0]
    /\ panicked = FALSE

Add(outcome, n) == count' = [count EXCEPT ![outcome] = @ + n]

-----------------------------------------------------------------------------
(* Write, by goroutine g.                                                  *)

Called(g) ==
    /\ g \in Writer \ adding
    /\ calls < MaxEvents
    /\ calls' = calls + 1

Send(g) ==
    /\ Called(g)
    /\ ~ closed /\ in < BufferSize
    /\ in' = in + 1
    /\ adding' = adding \cup {g}
    /\ UNCHANGED <<closed, batch, run, attempt, cancelled, closing, bufLen, count, panicked>>

\* The gauge is raised in a second step.
Raise(g) ==
    /\ g \in adding
    /\ adding' = adding \ {g}
    /\ bufLen' = bufLen + 1
    /\ UNCHANGED <<ship, closed, cancelled, closing, calls, panicked>>

Drop(g) ==
    /\ Called(g)
    /\ ~ closed /\ in = BufferSize
    /\ Add("full", 1)
    /\ UNCHANGED <<in, closed, batch, run, attempt, cancelled, closing, adding, bufLen, panicked>>

\* In a select with a default, a send on a closed channel still panics:
\* the recovery of a request loses its line, elsewhere the process ends.
SendOnClosed(g) ==
    /\ Called(g)
    /\ closed
    /\ panicked' = (g \notin Recovering)
    /\ Add("lost", 1)
    /\ UNCHANGED <<in, closed, batch, run, attempt, cancelled, closing, adding, bufLen>>

-----------------------------------------------------------------------------
(* The background goroutine.                                               *)

\* Mutant: the gauge is lowered by one, whatever the size of the batch.
FlushOne(n, pc) ==
    /\ bufLen' = bufLen - 1
    /\ run' = pc
    /\ attempt' = 0

\* flush: the gauge first, then the first POST.
Flush(n, pc) ==
    /\ bufLen' = bufLen - n
    /\ run' = pc
    /\ attempt' = 0

\* Mutant: off by one in the size of a batch.
ReceiveOneMore ==
    /\ run = "select" /\ in > 0
    /\ in' = in - 1
    /\ batch' = batch + 1
    /\ IF batch + 1 > BatchSize THEN Flush(batch + 1, "posting")
                                ELSE UNCHANGED <<run, attempt, bufLen>>
    /\ UNCHANGED <<closed, cancelled, closing, adding, calls, count, panicked>>

Receive ==
    /\ run = "select" /\ in > 0
    /\ in' = in - 1
    /\ batch' = batch + 1
    /\ IF batch + 1 >= BatchSize THEN Flush(batch + 1, "posting")
                                 ELSE UNCHANGED <<run, attempt, bufLen>>
    /\ UNCHANGED <<closed, cancelled, closing, adding, calls, count, panicked>>

TickerFlush ==
    /\ run = "select" /\ batch > 0
    /\ Flush(batch, "posting")
    /\ UNCHANGED <<in, closed, batch, cancelled, closing, adding, calls, count, panicked>>

\* Mutant: the last batch is not flushed.
ReturnAtOnce ==
    /\ run = "select" /\ closed /\ in = 0
    /\ run' = "stopped"
    /\ UNCHANGED <<in, closed, batch, attempt, cancelled, closing, adding, bufLen, calls, count, panicked>>

\* The channel is closed and empty: flush what is left, then return.
ReceiveClosed ==
    /\ run = "select" /\ closed /\ in = 0
    /\ IF batch > 0 THEN Flush(batch, "last")
                    ELSE run' = "stopped" /\ UNCHANGED <<attempt, bufLen>>
    /\ UNCHANGED <<in, closed, batch, cancelled, closing, adding, calls, count, panicked>>

\* Mutant: the batch is kept after it was posted.
EndBatchKeeps(outcome) ==
    /\ Add(outcome, batch)
    /\ run' = IF run = "last" THEN "stopped" ELSE "select"
    /\ attempt' = 0
    /\ UNCHANGED <<in, closed, batch, cancelled, closing, adding, bufLen, calls, panicked>>

\* The batch is done with, one way or the other.
EndBatch(outcome) ==
    /\ Add(outcome, batch)
    /\ batch' = 0
    /\ run' = IF run = "last" THEN "stopped" ELSE "select"
    /\ attempt' = 0
    /\ UNCHANGED <<in, closed, cancelled, closing, adding, bufLen, calls, panicked>>

\* A POST is answered with a 2xx.
PostOk ==
    /\ run \in {"posting", "last"} /\ ~ cancelled
    /\ EndBatch("ok")

\* Mutant: attempts are not limited.
RetryForever ==
    /\ run \in {"posting", "last"}
    /\ attempt' = (attempt + 1) % Attempts
    /\ UNCHANGED <<in, closed, batch, run, cancelled, closing, adding, bufLen, calls, count, panicked>>

\* A POST fails, or is cut off by the cancelled context.
PostRetry ==
    /\ run \in {"posting", "last"} /\ attempt < Attempts - 1
    /\ attempt' = attempt + 1
    /\ UNCHANGED <<in, closed, batch, run, cancelled, closing, adding, bufLen, calls, count, panicked>>

\* The last POST failed; or no request can be made of the URL, which the
\* first attempt finds and no other would change.
PostGiveUp ==
    /\ run \in {"posting", "last"} /\ attempt \in {0, Attempts - 1}
    /\ EndBatch("fail")

-----------------------------------------------------------------------------
(* Close, called once, by the end of app.Run.                              *)

Close ==
    /\ closing = "open"
    /\ closing' = "waiting"
    /\ closed' = TRUE
    /\ UNCHANGED <<ship, cancelled, adding, bufLen, calls, panicked>>

\* Mutant: Close does not wait for the background goroutine.
CloseAtOnce ==
    /\ closing = "waiting"
    /\ closing' = "drained"
    /\ cancelled' = TRUE
    /\ UNCHANGED <<ship, closed, adding, bufLen, calls, panicked>>

CloseReturns ==
    /\ closing = "waiting" /\ run = "stopped"
    /\ closing' = "drained"
    /\ cancelled' = TRUE
    /\ UNCHANGED <<ship, closed, adding, bufLen, calls, panicked>>

CloseExpires ==
    /\ closing = "waiting"
    /\ closing' = "expired"
    /\ cancelled' = TRUE
    /\ UNCHANGED <<ship, closed, adding, bufLen, calls, panicked>>

-----------------------------------------------------------------------------
Write(g) == Send(g) \/ Raise(g) \/ Drop(g) \/ SendOnClosed(g)

Post == PostOk \/ PostRetry \/ PostGiveUp

Background == Receive \/ TickerFlush \/ ReceiveClosed \/ Post

\* A panic ends the process, and with it everything here.
Next ==
    /\ ~ panicked
    /\ \/ \E g \in Writer : Write(g)
       \/ Background
       \/ Close \/ CloseReturns \/ CloseExpires

Spec == Init /\ [][Next]_vars

-----------------------------------------------------------------------------
(* Properties.                                                             *)

\* Every event ever passed to Write is in exactly one place: waiting in the
\* channel or the batch, sent, or counted as dropped for a reason.
Accounted ==
    calls = in + batch + count["ok"] + count["fail"] + count["full"] + count["lost"]

\* The buffer gauge differs from the events buffered only by the writers
\* that have sent and not yet counted: no flush, drop or failed batch makes
\* it drift.
GaugeTracks ==
    bufLen + Cardinality(adding)
        = in + (IF run \in {"posting", "last"} THEN 0 ELSE batch)

\* Nothing accepted is left behind by a Close that returns without an error,
\* nor by the background goroutine when Close has given up on it.
NothingLeft ==
    closing = "drained" \/ run = "stopped" => closed /\ in = 0 /\ batch = 0

\* No call of Write ends the process: Write "always returns (len(p), nil)"
\* (logshipper.go, comment of Write).
NeverPanics == ~ panicked
=============================================================================
