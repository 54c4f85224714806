---------------------------- MODULE MailService ----------------------------
(***************************************************************************)
(* The process behind Notifications: notifications-svc with its handler    *)
(* goroutines, its graceful shutdown and its restarts, and the HTTP client *)
(* of the drainers with its timeout.  A request has a life of its own: it  *)
(* goes on when its client has given up, and it dies with the process.     *)
(*                                                                         *)
(* Time passes in ticks; a timer that is due fires before the next one.    *)
(***************************************************************************)
EXTENDS Naturals

CONSTANTS
    Worker, Row, Undeliverable, Malformed, MaxCopies,   \* see Notifications
    Job,                \* bound: requests under way at once
    ClientTimeout,      \* ticks a client waits for its response
    ShutdownTimeout,    \* ticks Shutdown waits for the requests
    Nobody              \* no row, or a client that is gone

ASSUME TimeoutAssumption ==
    /\ ClientTimeout \in Nat /\ ShutdownTimeout \in Nat
    /\ 0 < ClientTimeout

ASSUME CallersAssumption ==
    /\ Undeliverable \subseteq Row /\ Malformed \subseteq Row
    /\ MaxCopies \in Nat \ {0}
    /\ Nobody \notin Row \cup Worker

VARIABLES
    call,       \* call[w]: no call, in flight, or the status received
    about,      \* about[w]: the row that call is about
    age,        \* age[w]: ticks since it was posted
    job,        \* job[j]: a request, on its way or in its handler
    svc,        \* "serving", "draining" or "down"
    drain,      \* ticks since the signal
    copies,     \* copies[r]: emails handed to the provider for row r
    cut         \* history: a graceful stop killed a handler still waited for

client == <<call, about, age>>
server == <<svc, drain, cut>>
vars == <<call, about, age, job, svc, drain, copies, cut>>

NoStatus == 0
Free == [at |-> "free", row |-> Nobody, client |-> Nobody, status |-> NoStatus]

\* The drainers see the calls as Notifications has them: an answer counts
\* from the moment the sender has decided it, and a request is late when its
\* client is gone before that.
Decided(w) == {j \in Job : job[j].client = w /\ job[j].status # NoStatus}
Orphans == {j \in Job : /\ job[j].at \in {"arriving", "sending", "dead"}
                        /\ job[j].client = Nobody /\ job[j].status = NoStatus}

SeenCall == [w \in Worker |-> IF call[w] = 1 /\ Decided(w) # {}
                              THEN job[CHOOSE j \in Decided(w) : TRUE].status
                              ELSE call[w]]
SeenLate == {job[j].row : j \in Orphans}

Seen == INSTANCE Notifications WITH call <- SeenCall, late <- SeenLate

TypeOK ==
    /\ Seen!CallTypeOK
    /\ about \in [Worker -> Row \cup {Nobody}]
    /\ age \in [Worker -> 0 .. ClientTimeout]
    /\ job \in [Job -> [at : {"free", "arriving", "sending", "answering", "dead"},
                        row : Row \cup {Nobody}, client : Worker \cup {Nobody},
                        status : {NoStatus} \cup Seen!Answer]]
    /\ svc \in {"serving", "draining", "down"}
    /\ drain \in 0 .. ShutdownTimeout
    /\ cut \in BOOLEAN

Init ==
    /\ call = [w \in Worker |-> Seen!NoCall]
    /\ about = [w \in Worker |-> Nobody]
    /\ age = [w \in Worker |-> 0]
    /\ job = [j \in Job |-> Free]
    /\ svc = "serving" /\ drain = 0
    /\ copies = [r \in Row |-> 0]
    /\ cut = FALSE

-----------------------------------------------------------------------------
(* The client of worker w.                                                 *)

\* Whatever is posted after the signal finds the listener closed.
Post(w, r) ==
    LET j == CHOOSE i \in Job : job[i] = Free IN
    /\ call[w] = Seen!NoCall
    /\ \A v \in Worker : about[v] # r
    /\ \E i \in Job : job[i] = Free
    /\ call' = [call EXCEPT ![w] = Seen!InFlight]
    /\ about' = [about EXCEPT ![w] = r]
    /\ age' = [age EXCEPT ![w] = 0]
    /\ job' = [job EXCEPT ![j] =
           [Free EXCEPT !.at = IF svc = "serving" THEN "arriving" ELSE "dead",
                        !.row = r, !.client = w]]
    /\ UNCHANGED <<server, copies>>

\* The call ends; what it has left in the service goes on without it.
Leave(w) ==
    /\ call[w] # Seen!NoCall
    /\ call' = [call EXCEPT ![w] = Seen!NoCall]
    /\ about' = [about EXCEPT ![w] = Nobody]
    /\ age' = [age EXCEPT ![w] = 0]
    /\ job' = [j \in Job |->
           IF job[j].client # w THEN job[j]
           ELSE IF job[j].status # NoStatus THEN Free
           ELSE [job[j] EXCEPT !.client = Nobody]]
    /\ UNCHANGED <<server, copies>>

\* With the response, with an error of the connection, or with the worker.
Return(w) == Leave(w)

\* Mutant: only the dial is limited, not the call.
TimeOutOfDial(w) ==
    /\ call[w] = Seen!InFlight /\ age[w] = ClientTimeout
    /\ \E j \in Job : job[j].client = w /\ job[j].at = "arriving"
    /\ Leave(w)

TimeOut(w) ==
    /\ call[w] = Seen!InFlight /\ age[w] = ClientTimeout
    /\ Leave(w)

-----------------------------------------------------------------------------
(* Request j, in its handler.                                              *)

\* The handler's answer; one that nobody waits for is not followed further.
Decide(j, status) ==
    job' = [job EXCEPT ![j] =
        IF @.client = Nobody THEN Free
        ELSE [@ EXCEPT !.at = "answering", !.status = status]]

\* Mutant: a request that was read is answered whether it could be sent or not.
AcceptEarly(j) ==
    /\ job[j].at = "arriving" /\ svc # "down"
    /\ job' = [job EXCEPT ![j].at = "answering", ![j].status = Seen!NoContent]
    /\ UNCHANGED <<client, server, copies>>

\* It was read and decoded.
Accept(j) ==
    /\ job[j].at = "arriving" /\ svc # "down"
    /\ job' = [job EXCEPT ![j].at = "sending"]
    /\ UNCHANGED <<client, server, copies>>

\* Mutant: what does not decode is answered 422, which no drainer knows.
RejectUnprocessable(j) ==
    /\ job[j].at = "arriving" /\ svc # "down"
    /\ job[j].row \in Malformed \/ job[j].client = Nobody
    /\ Decide(j, 422)
    /\ UNCHANGED <<client, server, copies>>

\* It does not decode; nor does one whose client is gone half-way.
Reject(j) ==
    /\ job[j].at = "arriving" /\ svc # "down"
    /\ job[j].row \in Malformed \/ job[j].client = Nobody
    /\ Decide(j, Seen!BadRequest)
    /\ UNCHANGED <<client, server, copies>>

\* The provider takes the email; the sender may or may not learn of it.
Deliver(j) ==
    LET r == job[j].row IN
    /\ job[j].at = "sending" /\ r \notin Undeliverable
    /\ copies' = [copies EXCEPT ![r] = Seen!Counted(@)]
    /\ Decide(j, Seen!NoContent) \/ Decide(j, Seen!BadGateway)
    /\ UNCHANGED <<client, server>>

\* Any error of the sender, the cancelled context of an abandoned request
\* among them.
FailDelivery(j) ==
    /\ job[j].at = "sending"
    /\ Decide(j, Seen!BadGateway)
    /\ UNCHANGED <<client, server, copies>>

\* The response reaches the client.
Answer(j) ==
    LET w == job[j].client IN
    /\ job[j].at = "answering"
    /\ call' = [call EXCEPT ![w] = job[j].status]
    /\ age' = [age EXCEPT ![w] = 0]
    /\ job' = [job EXCEPT ![j] = Free]
    /\ UNCHANGED <<about, server, copies>>

\* The connection breaks, before the request was read or after the write
\* deadline.  Shutdown itself closes a connection of whose request it has
\* read nothing yet; what is then on the wire breaks here.
Break(j) ==
    /\ job[j].at \in {"arriving", "answering"}
    /\ job' = [job EXCEPT ![j].at = "dead"]
    /\ UNCHANGED <<client, server, copies>>

\* A dead request whose client has noticed.
Forget(j) ==
    /\ job[j].at = "dead" /\ job[j].client = Nobody
    /\ job' = [job EXCEPT ![j] = Free]
    /\ UNCHANGED <<client, server, copies>>

-----------------------------------------------------------------------------
(* The process.                                                            *)

\* The requests Shutdown waits for: a connection is active from the first
\* byte of a request until its response is written.
Busy == {j \in Job : job[j].at \in {"arriving", "sending", "answering"}}

\* The end of the process is the end of its goroutines and connections.
Exit ==
    /\ svc' = "down" /\ drain' = 0
    /\ job' = [j \in Job |-> IF job[j] = Free THEN Free
                             ELSE [job[j] EXCEPT !.at = "dead"]]
    /\ UNCHANGED <<client, copies>>

Signal ==
    /\ svc = "serving"
    /\ svc' = "draining"
    /\ UNCHANGED <<client, job, drain, copies, cut>>

\* Shutdown returns and main with it: when no handler is left, or late.
Stop ==
    /\ svc = "draining"
    /\ cut' = (cut \/ \E j \in Busy : job[j].client # Nobody)
    /\ Exit

ShutdownDone == Busy = {} /\ Stop

\* Mutant: Shutdown is given the time the client has already waited.
ShutdownExpiresEarly == drain = ClientTimeout - 1 /\ Busy # {} /\ Stop

\* Mutant: Shutdown is given no deadline.
ShutdownNeverExpires == drain = ShutdownTimeout /\ Busy = {} /\ Stop

ShutdownExpires == drain = ShutdownTimeout /\ Busy # {} /\ Stop

\* Killed, or the listener failed.
Crash ==
    /\ svc # "down"
    /\ Exit
    /\ UNCHANGED cut

Restart ==
    /\ svc = "down"
    /\ svc' = "serving"
    /\ UNCHANGED <<client, job, drain, copies, cut>>

\* A tick of the clock, for everybody who waits.
Pass ==
    LET waiting == {w \in Worker : call[w] = Seen!InFlight}
        draining == svc = "draining" IN
    /\ draining \/ waiting # {}
    /\ \A w \in waiting : age[w] < ClientTimeout
    /\ draining => drain < ShutdownTimeout
    /\ age' = [w \in Worker |-> IF w \in waiting THEN age[w] + 1 ELSE age[w]]
    /\ drain' = IF draining THEN drain + 1 ELSE drain
    /\ UNCHANGED <<call, about, job, svc, copies, cut>>

-----------------------------------------------------------------------------
Handle(j) ==
    \/ Accept(j) \/ Reject(j) \/ Deliver(j) \/ FailDelivery(j)
    \/ Answer(j) \/ Break(j) \/ Forget(j)

Next ==
    \/ \E w \in Worker : Return(w) \/ TimeOut(w) \/ \E r \in Row : Post(w, r)
    \/ \E j \in Job : Handle(j)
    \/ Signal \/ ShutdownDone \/ ShutdownExpires \/ Crash \/ Restart
    \/ Pass

\* Time passes and timers fire; nothing is assumed of the provider, of the
\* network or of a handler that talks to either.
Fairness ==
    /\ WF_vars(Pass)
    /\ WF_vars(ShutdownDone \/ ShutdownExpires)
    /\ \A w \in Worker : WF_vars(TimeOut(w))

Spec == Init /\ [][Next]_vars /\ Fairness

-----------------------------------------------------------------------------
(* Properties.                                                             *)

\* Everything the drainers' modules assume of a call is so: with crashes,
\* restarts, shutdowns and broken connections the service does what
\* Notifications allows it to do, and nothing else.
CallStep ==
    \/ \E w \in Worker : \/ Seen!Post(w) \/ Seen!FailDelivery(w)
                         \/ \E outcome \in {"ok", "permanent", "transient"} :
                                Seen!Receive(w, outcome)
    \/ \E w \in Worker, r \in Row :
          /\ about[w] = r
          /\ \/ Seen!Accept(w, r) \/ Seen!Reject(w, r)
             \/ Seen!LoseProviderReply(w, r) \/ Seen!Abandon(w, r)
    \/ \E r \in Row : Seen!DeliverLate(r) \/ Seen!DropLate(r)

KeepsCallContract == Seen!CallInit /\ [][CallStep]_(Seen!callVars)

\* A graceful stop (SIGTERM, a deployment) kills no handler whose client
\* still waits, even when Shutdown runs into its deadline, if clients wait
\* for less than Shutdown does.  By default they do, 10s against 15s; nothing
\* in the code keeps HTTP_SHUTDOWN_TIMEOUT above the constant of the client.
\* A request the service has read nothing of is not in a handler.
StopCutsNobodyOff == ClientTimeout < ShutdownTimeout => ~ cut

\* Every call ends, whatever becomes of the service and the provider; the
\* fairness of the drainers rests on this.
CallsEnd == \A w \in Worker : call[w] = Seen!InFlight ~> call[w] # Seen!InFlight

\* A provider that never answers does not keep the process from stopping.
ServiceStops == svc = "draining" ~> svc = "down"
=============================================================================
