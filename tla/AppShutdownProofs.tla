-------------------------- MODULE AppShutdownProofs --------------------------
(***************************************************************************)
(* Proofs about LogShipper, for any number of writers and any sizes, and   *)
(* about the shutdown around it.  What the log shipper promises on its own *)
(* it keeps inside the process: app.Run uses it as its specification says, *)
(* so the theorems about it hold of the whole shutdown.                    *)
(***************************************************************************)
EXTENDS AppShutdown, FiniteSetTheorems, TLAPS

(* The log shipper.                                                         *)

\* Where the background goroutine is says what it can still have.
Stages ==
    /\ run = "select" => batch < BatchSize
    /\ run \in {"last", "stopped"} => closed /\ in = 0
    /\ run = "stopped" => batch = 0
    /\ closing = "drained" => run = "stopped"

IInv ==
    /\ TypeOK
    /\ Stages
    /\ Accounted
    /\ GaugeTracks

\* The initial states satisfy the invariant.
LEMMA InitIInv == Init => IInv
<1> SUFFICES ASSUME Init PROVE IInv
  OBVIOUS
<1>1. Cardinality(adding) = 0
  BY FS_EmptySet DEF Init
<1>2. TypeOK
  <2>1. in \in 0 .. BufferSize /\ batch \in 0 .. BatchSize
    BY ShipperAssumption DEF Init
  <2>2. count \in [{"ok", "fail", "full", "lost"} -> Nat]
    BY DEF Init
  <2>3. attempt \in 0 .. Attempts - 1 /\ bufLen \in Int /\ calls \in Nat
    BY DEF Init, Attempts
  <2>4. /\ run = "select" /\ closing = "open" /\ adding = {}
        /\ closed = FALSE /\ cancelled = FALSE /\ panicked = FALSE
    BY DEF Init
  <2>5. QED
    BY <2>1, <2>2, <2>3, <2>4 DEF TypeOK
<1>3. Stages
  BY ShipperAssumption DEF Init, Stages
<1>4. Accounted /\ GaugeTracks
  BY <1>1 DEF Init, Accounted, GaugeTracks
<1>5. QED
  BY <1>2, <1>3, <1>4 DEF IInv

\* A writer enters and leaves the set of those that have still to count.
LEMMA AddingFacts ==
    ASSUME TypeOK, NEW g \in Writer
    PROVE  /\ Cardinality(adding) \in Nat
           /\ g \notin adding => Cardinality(adding \cup {g}) = Cardinality(adding) + 1
           /\ g \in adding => Cardinality(adding \ {g}) = Cardinality(adding) - 1
<1>1. IsFiniteSet(adding)
  BY ShipperAssumption, FS_Subset DEF TypeOK
<1>2. QED
  BY <1>1, FS_CardinalityType, FS_AddElement, FS_RemoveElement

\* Every step preserves the invariant.
LEMMA NextIInv == IInv /\ [Next]_vars => IInv'
<1> SUFFICES ASSUME IInv, [Next]_vars PROVE IInv'
  OBVIOUS
<1>0. Cardinality(adding) \in Nat
  BY ShipperAssumption, FS_Subset, FS_CardinalityType DEF IInv, TypeOK
<1> USE ShipperAssumption, <1>0
    DEF IInv, TypeOK, Stages, Accounted, GaugeTracks, Attempts, ship
<1>1. ASSUME NEW g \in Writer, Send(g) PROVE IInv'
  BY <1>1, AddingFacts DEF Send, Called
<1>2. ASSUME NEW g \in Writer, Raise(g) PROVE IInv'
  BY <1>2, AddingFacts DEF Raise
<1>3. ASSUME NEW g \in Writer, Drop(g) PROVE IInv'
  BY <1>3 DEF Drop, Called, Add
<1>4. ASSUME NEW g \in Writer, SendOnClosed(g) PROVE IInv'
  BY <1>4 DEF SendOnClosed, Called, Add
<1>5. CASE Receive
  BY <1>5 DEF Receive, Flush
<1>6. CASE TickerFlush
  BY <1>6 DEF TickerFlush, Flush
<1>7. CASE ReceiveClosed
  BY <1>7 DEF ReceiveClosed, Flush
<1>8. CASE PostOk
  BY <1>8 DEF PostOk, EndBatch, Add
<1>9. CASE PostRetry
  BY <1>9 DEF PostRetry
<1>10. CASE PostGiveUp
  BY <1>10 DEF PostGiveUp, EndBatch, Add
<1>11. CASE Close
  BY <1>11 DEF Close
<1>12. CASE CloseReturns
  BY <1>12 DEF CloseReturns
<1>13. CASE CloseExpires
  BY <1>13 DEF CloseExpires
<1>14. CASE UNCHANGED vars
  BY <1>14 DEF vars
<1> HIDE DEF IInv
<1>15. QED
  BY <1>1, <1>2, <1>3, <1>4, <1>5, <1>6, <1>7, <1>8, <1>9, <1>10, <1>11,
     <1>12, <1>13, <1>14
  DEF Next, Write, Background, Post

\* The invariant holds in every reachable state.
THEOREM Invariant == Spec => []IInv
  BY InitIInv, NextIInv, PTL DEF Spec

\* Type correctness of every reachable state.
THEOREM TypeCorrect == Spec => []TypeOK
<1>1. IInv => TypeOK
  BY DEF IInv
<1>2. QED
  BY <1>1, Invariant, PTL

\* No event is lost without a trace, and none is counted twice.
THEOREM EventsAccounted == Spec => []Accounted
<1>1. IInv => Accounted
  BY DEF IInv
<1>2. QED
  BY <1>1, Invariant, PTL

\* The buffer gauge never drifts.
THEOREM GaugeNeverDrifts == Spec => []GaugeTracks
<1>1. IInv => GaugeTracks
  BY DEF IInv
<1>2. QED
  BY <1>1, Invariant, PTL

\* A clean Close leaves nothing behind, and neither does the end of the
\* background goroutine.
THEOREM NothingLeftBehind == Spec => []NothingLeft
<1>1. IInv => NothingLeft
  BY DEF IInv, Stages, NothingLeft
<1>2. QED
  BY <1>1, Invariant, PTL

-----------------------------------------------------------------------------
(* The shutdown uses the log shipper as its specification allows.           *)

\* One log line is a step of the shipper.
LEMMA LogIsWrite ==
    ASSUME NEW g \in Writer, Alive, Log(g) PROVE Next
  BY DEF Alive, Log, Next, Write

\* A step of the process is a step of the shipper, or none.
LEMMA StepOfShipper == [AppNext]_allVars => [Next]_vars
<1> SUFFICES ASSUME AppNext, Alive PROVE [Next]_vars
  BY DEF AppNext, allVars
<1>1. ASSUME NEW h \in Handler, Arrive(h) \/ HandlerStep(h) PROVE [Next]_vars
  <2>1. CASE LogRequest(h)
    BY <2>1, LogIsWrite, GoroutineAssumption DEF LogRequest
  <2>2. CASE ~ LogRequest(h)
    BY <1>1, <2>2 DEF Arrive, HandlerStep, Acquire, RequestFails, Release
  <2>3. QED
    BY <2>1, <2>2
<1>2. ASSUME NEW w \in Cron, TickBegins(w) \/ CronStep(w) PROVE [Next]_vars
  <2>1. CASE TickFails(w) \/ TickRefused(w)
    BY <2>1, LogIsWrite, GoroutineAssumption DEF TickFails, TickRefused
  <2>2. CASE ~ (TickFails(w) \/ TickRefused(w))
    BY <1>2, <2>2 DEF TickBegins, CronStep, TickEnds, WorkerReturns
  <2>3. QED
    BY <2>1, <2>2
<1>3. ASSUME Signal \/ MainStep PROVE [Next]_vars
  <2>1. CASE LogSignal \/ ShutdownExpires \/ LogComplete
    BY <2>1, LogIsWrite, GoroutineAssumption DEF LogSignal, ShutdownExpires, LogComplete
  <2>2. CASE CloseShipper \/ ShipperClosed
    BY <2>2 DEF CloseShipper, ShipperClosed, Next, Alive
  <2>3. CASE Signal \/ ShutdownDone \/ WorkersJoined \/ PoolDrained
    BY <2>3 DEF Signal, ShutdownDone, WorkersJoined, PoolDrained
  <2>4. QED
    BY <1>3, <2>1, <2>2, <2>3 DEF MainStep
<1>4. ASSUME ShipperStep PROVE [Next]_vars
  BY <1>4 DEF ShipperStep, Next, Write, Alive
<1>5. QED
  BY <1>1, <1>2, <1>3, <1>4 DEF AppNext

\* The process runs its log shipper by the shipper's own specification.
THEOREM RunsShipper == AppSpec => Spec
<1>1. AppInit => Init
  BY DEF AppInit
<1>2. QED
  BY <1>1, StepOfShipper, PTL DEF AppSpec, Spec

\* Through the whole shutdown every event is accounted for and the gauge
\* does not drift.
THEOREM ShutdownAccounts == AppSpec => [](Accounted /\ GaugeTracks)
<1>1. AppSpec => []Accounted /\ []GaugeTracks
  BY RunsShipper, EventsAccounted, GaugeNeverDrifts
<1>2. QED
  BY <1>1, PTL

\* However the workers and requests end, a Close that returns without an
\* error has left nothing behind.
THEOREM ShutdownLeavesNothing == AppSpec => []NothingLeft
  BY RunsShipper, NothingLeftBehind

-----------------------------------------------------------------------------
(* The order in which app.Run takes the process apart.                     *)

ProcsTypeOK ==
    /\ main \in {"serving", "signalled", "shutdown", "crons", "pool",
                 "shipper", "closing", "final", "returned"}
    /\ handler \in [Handler -> {"new", "calling", "db", "logging", "done"}]
    /\ cron \in [Cron -> {"asleep", "tick", "returned"}]

\* cronsWG.Wait is over once main has come to the pool: the workers are gone,
\* and a worker that returned has finished its last Write.
CronsJoined ==
    /\ PoolClosed => \A w \in Cron : cron[w] = "returned"
    /\ \A w \in Cron : cron[w] = "returned" => w \notin adding

\* Only CloseShipper closes the channel.
ClosedLate == closed => main \in {"closing", "final", "returned"}

AppInv ==
    /\ ProcsTypeOK
    /\ CronsJoined
    /\ ClosedLate
    /\ NoQueryAfterPool

LEMMA InitAppInv == AppInit => AppInv
  BY DEF AppInit, Init, AppInv, ProcsTypeOK, CronsJoined, ClosedLate, NoQueryAfterPool, PoolClosed

\* Logging a line never closes the channel, and holds up nobody else.
LEMMA LogTouches ==
    ASSUME NEW g, Log(g)
    PROVE  closed' = closed /\ adding' \subseteq adding \cup {g}
  BY DEF Log, Send, Drop, SendOnClosed

\* Neither does the shipper's own work.
LEMMA ShipperTouches ==
    ASSUME ShipperStep
    PROVE  closed' = closed /\ adding' \subseteq adding
  BY DEF ShipperStep, Background, Receive, TickerFlush, ReceiveClosed, Post, PostOk, PostRetry,
     PostGiveUp, EndBatch, Raise

LEMMA NextAppInv == AppInv /\ [AppNext]_allVars => AppInv'
<1> SUFFICES ASSUME AppInv, [AppNext]_allVars PROVE AppInv'
  OBVIOUS
<1> USE DEF AppInv, ProcsTypeOK, CronsJoined, ClosedLate, NoQueryAfterPool, PoolClosed, Holders
<1>1. ASSUME NEW h \in Handler, Arrive(h) \/ HandlerStep(h) PROVE AppInv'
  <2>1. UNCHANGED <<main, cron>> /\ closed' = closed /\ adding' \subseteq adding \cup {h}
    BY <1>1, LogTouches
    DEF Arrive, HandlerStep, Acquire, RequestFails, Release, LogRequest, Move, vars
  <2>2. h \notin Cron
    BY GoroutineAssumption
  <2>3. /\ handler' \in [Handler -> {"new", "calling", "db", "logging", "done"}]
        /\ \A i \in Handler : handler'[i] = "db" => handler[i] = "db" \/ ~ PoolClosed
    BY <1>1 DEF Arrive, HandlerStep, Acquire, RequestFails, Release, LogRequest, Move, CanAcquire
  <2>4. QED
    BY <2>1, <2>2, <2>3
<1>2. ASSUME NEW w \in Cron, TickBegins(w) \/ CronStep(w) PROVE AppInv'
  <2>1. /\ UNCHANGED <<main, handler>> /\ closed' = closed
        /\ adding' \subseteq adding \cup {w} /\ w \notin adding
        /\ cron' \in [Cron -> {"asleep", "tick", "returned"}]
        /\ \A v \in Cron \ {w} : cron'[v] = cron[v]
        /\ cron[w] # "returned"
        /\ cron'[w] = "tick" => ~ PoolClosed
        /\ cron'[w] = "returned" => adding' = adding
    <3>1. CASE TickBegins(w)
      BY <3>1 DEF TickBegins, Turn, Ready, CanAcquire, vars
    <3>2. CASE TickEnds(w) \/ WorkerReturns(w)
      BY <3>2 DEF TickEnds, WorkerReturns, Turn, Ready, vars
    <3>3. CASE TickFails(w) \/ TickRefused(w)
      BY <3>3, LogTouches DEF TickFails, TickRefused, Turn, Ready
    <3>4. QED
      BY <1>2, <3>1, <3>2, <3>3 DEF CronStep
  <2>2. QED
    BY <2>1
<1>3. ASSUME Signal \/ MainStep PROVE AppInv'
  <2>1. UNCHANGED <<handler, cron>>
    BY <1>3 DEF Signal, MainStep, LogSignal, ShutdownDone, ShutdownExpires, WorkersJoined,
       PoolDrained, CloseShipper, ShipperClosed, LogComplete, Step
  <2>2. Main \notin Cron
    BY GoroutineAssumption
  <2>3. CASE LogSignal \/ ShutdownExpires \/ LogComplete
    <3>1. closed' = closed /\ adding' \subseteq adding \cup {Main}
      BY <2>3, LogTouches DEF LogSignal, ShutdownExpires, LogComplete
    <3>2. QED
      BY <2>1, <2>2, <2>3, <3>1 DEF LogSignal, ShutdownExpires, LogComplete, Step
  <2>4. CASE Signal \/ ShutdownDone \/ WorkersJoined \/ PoolDrained
    BY <2>1, <2>4 DEF Signal, ShutdownDone, WorkersJoined, PoolDrained, Step, vars
  <2>5. CASE CloseShipper \/ ShipperClosed
    BY <2>1, <2>5 DEF CloseShipper, ShipperClosed, Close, CloseReturns, CloseExpires, Step
  <2>6. QED
    BY <1>3, <2>3, <2>4, <2>5 DEF MainStep
<1>4. ASSUME ShipperStep PROVE AppInv'
  BY <1>4, ShipperTouches DEF ShipperStep, procs
<1>5. CASE UNCHANGED allVars
  BY <1>5 DEF allVars, vars, procs
<1>6. QED
  BY <1>1, <1>2, <1>3, <1>4, <1>5 DEF AppNext

\* The order of the shutdown, as an invariant.
THEOREM ShutdownInOrder == AppSpec => []AppInv
<1>1. QED
  BY InitAppInv, NextAppInv, PTL DEF AppSpec

\* Every variable of the process keeps its type.
THEOREM AppTyped == AppSpec => []AppTypeOK
<1>1. TypeOK /\ AppInv => AppTypeOK
  BY DEF AppInv, ProcsTypeOK, AppTypeOK
<1>2. AppSpec => []TypeOK
  BY RunsShipper, TypeCorrect
<1>3. QED
  BY <1>1, <1>2, ShutdownInOrder, PTL

\* The workers are gone and out of Write before the channel is closed, so no
\* line of theirs panics the process.
THEOREM WorkersGoFirst == AppSpec => []WorkersSilentAfterClose
<1>1. AppInv => WorkersSilentAfterClose
  BY DEF AppInv, ClosedLate, CronsJoined, PoolClosed, WorkersSilentAfterClose
<1>2. QED
  BY <1>1, ShutdownInOrder, PTL

\* No query runs once pool.Close has returned, whatever requests still hang.
THEOREM PoolIsEmpty == AppSpec => []NoQueryAfterPool
<1>1. AppInv => NoQueryAfterPool
  BY DEF AppInv
<1>2. QED
  BY <1>1, ShutdownInOrder, PTL
=============================================================================
