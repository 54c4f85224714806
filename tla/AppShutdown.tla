---------------------------- MODULE AppShutdown ----------------------------
(***************************************************************************)
(* The end of app.Run: the main goroutine sees the cancelled context and   *)
(* takes the process apart, while request handlers and the three workers   *)
(* are still running.  All of them log through LogShipper, and handlers    *)
(* and workers hold connections of one bounded pool.                       *)
(***************************************************************************)
EXTENDS LogShipper

CONSTANTS
    Main,           \* the goroutine of app.Run
    Handler,        \* HTTP requests, one goroutine each
    Cron,           \* the goroutines of Scanner, Notifier and Confirmer
    MaxConns,       \* size of the connection pool
    WorkerEvents    \* bound: workers log only while calls is below it

ASSUME GoroutineAssumption ==
    /\ Writer = {Main} \cup Handler \cup Cron
    /\ Recovering = Handler
    /\ Main \notin Handler \cup Cron /\ Handler \cap Cron = {}
    /\ MaxConns \in Nat \ {0} /\ WorkerEvents \in Nat

VARIABLES
    main,       \* where app.Run is
    handler,    \* handler[h]: where request h is
    cron        \* cron[w]: where the worker is

procs == <<main, handler, cron>>
allVars == <<vars, procs>>

AppTypeOK ==
    /\ TypeOK
    /\ main \in {"serving", "signalled", "shutdown", "crons", "pool",
                 "shipper", "closing", "final", "returned"}
    /\ handler \in [Handler -> {"new", "calling", "db", "logging", "done"}]
    /\ cron \in [Cron -> {"asleep", "tick", "returned"}]

AppInit ==
    /\ Init
    /\ main = "serving"
    /\ handler = [h \in Handler |-> "new"]
    /\ cron = [w \in Cron |-> "asleep"]

CtxDone == main # "serving"
PoolClosed == main \in {"pool", "shipper", "closing", "final", "returned"}
Holders == {h \in Handler : handler[h] = "db"} \cup {w \in Cron : cron[w] = "tick"}
CanAcquire == ~ PoolClosed /\ Cardinality(Holders) < MaxConns

\* A goroutine logs one event, and goes on once Write has returned.
Log(g) == Send(g) \/ Drop(g) \/ SendOnClosed(g)
Ready(g) == g \notin adding

-----------------------------------------------------------------------------
(* Request h: a call to GitHub without a timeout, then the database, then  *)
(* the line of the request logger.                                         *)

Move(h, from, to) ==
    /\ handler[h] = from
    /\ handler' = [handler EXCEPT ![h] = to]
    /\ UNCHANGED <<main, cron>>

Arrive(h) ==
    /\ main \in {"serving", "signalled"}
    /\ Move(h, "new", "calling")
    /\ UNCHANGED vars

Acquire(h) ==
    /\ CanAcquire
    /\ Move(h, "calling", "db")
    /\ UNCHANGED vars

\* The remote call failed, or the pool is closed.
RequestFails(h) ==
    /\ Move(h, "calling", "logging")
    /\ UNCHANGED vars

Release(h) ==
    /\ Move(h, "db", "logging")
    /\ UNCHANGED vars

LogRequest(h) ==
    /\ Move(h, "logging", "done")
    /\ Log(h)

-----------------------------------------------------------------------------
(* A worker: a tick is a transaction on one connection.                    *)

Turn(w, from, to) ==
    /\ Ready(w)
    /\ cron[w] = from
    /\ cron' = [cron EXCEPT ![w] = to]
    /\ UNCHANGED <<main, handler>>

TickBegins(w) ==
    /\ ~ CtxDone /\ CanAcquire
    /\ Turn(w, "asleep", "tick")
    /\ UNCHANGED vars

TickEnds(w) ==
    /\ Turn(w, "tick", "asleep")
    /\ UNCHANGED vars

\* The tick fails and says so; a cancelled context makes it fail.
TickFails(w) ==
    /\ calls < WorkerEvents
    /\ Turn(w, "tick", "asleep")
    /\ Log(w)

\* The select may prefer the ticker to the cancelled context: the
\* transaction then fails to begin.
TickRefused(w) ==
    /\ CtxDone /\ calls < WorkerEvents
    /\ Turn(w, "asleep", "asleep")
    /\ Log(w)

WorkerReturns(w) ==
    /\ CtxDone
    /\ Turn(w, "asleep", "returned")
    /\ UNCHANGED vars

-----------------------------------------------------------------------------
(* The main goroutine.                                                     *)

Step(from, to) ==
    /\ Ready(Main)
    /\ main = from
    /\ main' = to
    /\ UNCHANGED <<handler, cron>>

Signal == Step("serving", "signalled") /\ UNCHANGED vars

LogSignal == Step("signalled", "shutdown") /\ Log(Main)

\* srv.Shutdown has closed the listener and waits for the requests.
Served == \A h \in Handler : handler[h] \in {"new", "done"} /\ Ready(h)

ShutdownDone ==
    /\ Step("shutdown", "crons")
    /\ Served
    /\ UNCHANGED vars

\* Mutant: srv.Shutdown is given no deadline.
ShutdownWaits ==
    /\ Step("shutdown", "crons")
    /\ Served
    /\ Log(Main)

ShutdownExpires ==
    /\ Step("shutdown", "crons")
    /\ ~ Served
    /\ Log(Main)

\* Mutant: the workers are not waited for.
WorkersLeft ==
    /\ Step("crons", "pool")
    /\ UNCHANGED vars

\* cronsWG.Wait, then rdb.Close; pool.Close refuses new connections.
WorkersJoined ==
    /\ Step("crons", "pool")
    /\ \A w \in Cron : cron[w] = "returned"
    /\ UNCHANGED vars

\* Mutant: the pool is left open.
PoolLeft ==
    /\ Step("pool", "shipper")
    /\ UNCHANGED vars

\* pool.Close waits for the connections that are out.
PoolDrained ==
    /\ Step("pool", "shipper")
    /\ Holders = {}
    /\ UNCHANGED vars

CloseShipper == Step("shipper", "closing") /\ Close

ShipperClosed == Step("closing", "final") /\ (CloseReturns \/ CloseExpires)

LogComplete == Step("final", "returned") /\ Log(Main)

MainStep ==
    \/ LogSignal \/ ShutdownDone \/ ShutdownExpires \/ WorkersJoined
    \/ PoolDrained \/ CloseShipper \/ ShipperClosed \/ LogComplete

-----------------------------------------------------------------------------
HandlerStep(h) ==
    Acquire(h) \/ RequestFails(h) \/ Release(h) \/ LogRequest(h)

CronStep(w) == TickEnds(w) \/ TickFails(w) \/ TickRefused(w) \/ WorkerReturns(w)

\* A goroutine finishes its Write; the background goroutine works.
ShipperStep ==
    /\ Background \/ \E g \in Writer : Raise(g)
    /\ UNCHANGED procs

Alive == ~ panicked /\ main # "returned"

AppNext ==
    /\ Alive
    /\ \/ Signal \/ MainStep
       \/ \E h \in Handler : Arrive(h) \/ HandlerStep(h)
       \/ \E w \in Cron : TickBegins(w) \/ CronStep(w)
       \/ ShipperStep

AppSpec == AppInit /\ [][AppNext]_allVars

\* Goroutines are scheduled; a query returns its connection and a tick ends
\* once its context is cancelled; select is fair to the cancelled context.
\* Nothing makes a request leave the call to GitHub.
AppFairness ==
    /\ WF_allVars(Alive /\ MainStep)
    /\ WF_allVars(Alive /\ ShipperStep)
    /\ \A h \in Handler : WF_allVars(Alive /\ (Release(h) \/ LogRequest(h)))
    /\ \A w \in Cron :
        /\ WF_allVars(Alive /\ CronStep(w))
        /\ SF_allVars(Alive /\ WorkerReturns(w))

AppFairSpec == AppSpec /\ AppFairness

-----------------------------------------------------------------------------
(* Properties.                                                             *)

\* When the shipper's channel is closed the workers are gone and none of
\* them is inside Write: cronsWG.Wait keeps their last lines.
WorkersSilentAfterClose ==
    closed => \A w \in Cron : cron[w] = "returned" /\ w \notin adding

\* The pool is never found closed by a query under way: whoever has a
\* connection gives it back before app.Run goes on to close the shipper.
NoQueryAfterPool ==
    main \in {"shipper", "closing", "final", "returned"} => Holders = {}

\* Every batch is eventually sent or dropped, whatever the endpoint does,
\* unless the process ends first.
BatchesEnd == batch > 0 ~> (batch = 0 \/ ~ Alive)

\* After the signal the process ends, with requests hanging or not.
ShutdownEnds == CtxDone ~> ~ Alive
=============================================================================
