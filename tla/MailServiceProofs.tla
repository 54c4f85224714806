-------------------------- MODULE MailServiceProofs --------------------------
(***************************************************************************)
(* Proofs about MailService, for any number of clients, rows and requests  *)
(* at once and any two timeouts.                                           *)
(* The argument is one of bookkeeping: which request belongs to which call *)
(* and how long both have waited.                                          *)
(***************************************************************************)
EXTENDS MailService, TLAPS

NoCall == Seen!NoCall
InFlight == Seen!InFlight

Status == {NoStatus} \cup Seen!Answer
Request == [at : {"free", "arriving", "sending", "answering", "dead"},
            row : Row \cup {Nobody}, client : Worker \cup {Nobody}, status : Status]

Typed ==
    /\ call \in [Worker -> {NoCall, InFlight} \cup Seen!Answer]
    /\ about \in [Worker -> Row \cup {Nobody}]
    /\ age \in [Worker -> 0 .. ClientTimeout]
    /\ job \in [Job -> Request]
    /\ svc \in {"serving", "draining", "down"}
    /\ drain \in 0 .. ShutdownTimeout
    /\ copies \in [Row -> 0 .. MaxCopies]
    /\ cut \in BOOLEAN

\* A request has a row; it has a status from the handler's answer on, which
\* is kept only for a client that waits.
Sound(t) ==
    /\ t.at = "free" => t = Free
    /\ t.at # "free" => t.row \in Row
    /\ t.at \in {"arriving", "sending"} => t.status = NoStatus
    /\ t.at = "answering" => t.client # Nobody /\ t.status # NoStatus
    /\ t.status # NoStatus => t.client # Nobody

\* A call in flight has one request, about its row.
CallsHaveRequests ==
    /\ \A w \in Worker : call[w] = InFlight => \E j \in Job : job[j].client = w
    /\ \A w \in Worker : call[w] # NoCall => about[w] \in Row
    /\ \A j \in Job : job[j].client # Nobody =>
          call[job[j].client] = InFlight /\ about[job[j].client] = job[j].row
    /\ \A i, j \in Job : job[i].client = job[j].client /\ job[j].client # Nobody => i = j

Alive(t) == t.at \in {"arriving", "sending", "answering"}

\* A request that survived the signal was posted before it, so its client
\* has waited at least as long as Shutdown has.
WaitedLonger ==
    /\ svc # "draining" => drain = 0
    /\ svc = "down" => \A j \in Job : ~ Alive(job[j])
    /\ svc = "draining" =>
          \A j \in Job : Alive(job[j]) /\ job[j].client # Nobody => drain <= age[job[j].client]

ServiceInv ==
    /\ Typed
    /\ \A j \in Job : Sound(job[j])
    /\ CallsHaveRequests
    /\ WaitedLonger
    /\ StopCutsNobodyOff

-----------------------------------------------------------------------------
(* The invariant.                                                          *)

\* The statuses a call can have are different numbers.
LEMMA StatusFacts ==
    /\ NoCall # InFlight /\ NoCall \notin Seen!Answer /\ InFlight \notin Seen!Answer
    /\ NoStatus = NoCall /\ InFlight = 1
    /\ Seen!NoContent \in Seen!Answer /\ Seen!BadRequest \in Seen!Answer
    /\ Seen!BadGateway \in Seen!Answer
  BY DEF NoCall, InFlight, NoStatus, Seen!NoCall, Seen!InFlight, Seen!Answer, Seen!NoContent,
     Seen!BadRequest, Seen!BadGateway

LEMMA FreeFacts ==
    /\ Free \in Request /\ Sound(Free) /\ ~ Alive(Free)
    /\ Free.at = "free" /\ Free.client = Nobody /\ Free.status = NoStatus
    /\ Free.row = Nobody
  BY DEF Free, Request, Status, Sound, Alive

LEMMA InitService == Init => ServiceInv
<1> SUFFICES ASSUME Init PROVE ServiceInv
  OBVIOUS
<1>1. Typed
  <2>1. 0 \in 0 .. ClientTimeout /\ 0 \in 0 .. ShutdownTimeout /\ 0 \in 0 .. MaxCopies
    BY CallersAssumption, TimeoutAssumption
  <2>2. /\ call = [w \in Worker |-> NoCall] /\ about = [w \in Worker |-> Nobody]
        /\ age = [w \in Worker |-> 0] /\ job = [j \in Job |-> Free]
        /\ svc = "serving" /\ drain = 0 /\ copies = [r \in Row |-> 0] /\ cut = FALSE
    BY DEF Init, NoCall
  <2>3. QED
    BY <2>1, <2>2, FreeFacts DEF Typed
<1>2. /\ \A j \in Job : job[j] = Free
      /\ \A w \in Worker : call[w] = NoCall
      /\ svc = "serving" /\ drain = 0 /\ ~ cut
  BY DEF Init, NoCall
<1>3. (\A j \in Job : Sound(job[j])) /\ CallsHaveRequests /\ WaitedLonger
  BY <1>2, FreeFacts, StatusFacts DEF CallsHaveRequests, WaitedLonger
<1>4. QED
  BY <1>1, <1>2, <1>3 DEF ServiceInv, StopCutsNobodyOff

\* A request that moves on keeps its client and row, or is done and gone.
LEMMA OneRequest ==
    ASSUME ServiceInv, NEW j \in Job, NEW t \in Request, Sound(t),
           job' = [job EXCEPT ![j] = t],
           t.client = job[j].client,
           t.client # Nobody => t.row = job[j].row,
           Alive(t) => Alive(job[j]),
           copies' \in [Row -> 0 .. MaxCopies],
           UNCHANGED <<client, server>>
    PROVE  ServiceInv'
<1>0. Typed /\ UNCHANGED <<call, about, age, svc, drain, cut>>
  BY DEF ServiceInv, client, server
<1>1. /\ job'[j] = t
      /\ \A i \in Job : job'[i].client = job[i].client
      /\ \A i \in Job : job[i].client # Nobody => job'[i].row = job[i].row
      /\ \A i \in Job : Alive(job'[i]) => Alive(job[i])
      /\ \A i \in Job : Sound(job'[i])
  BY <1>0 DEF ServiceInv, Typed
<1>2. Typed'
  BY <1>0 DEF Typed
<1>3. CallsHaveRequests'
  BY <1>0, <1>1 DEF ServiceInv, CallsHaveRequests
<1>4. WaitedLonger'
  BY <1>0, <1>1 DEF ServiceInv, WaitedLonger
<1>5. QED
  BY <1>0, <1>1, <1>2, <1>3, <1>4 DEF ServiceInv, StopCutsNobodyOff

\* What each move makes of its request.
After(j, t) ==
    /\ job' = [job EXCEPT ![j] = t]
    /\ UNCHANGED <<client, server>>

LEMMA Moves ==
    ASSUME ServiceInv, NEW j \in Job, NEW t, t = job[j]
    PROVE  /\ t \in Request /\ Sound(t)
           /\ Accept(j) => t.at = "arriving" /\ After(j, [t EXCEPT !.at = "sending"])
                           /\ UNCHANGED copies
           /\ Break(j) => t.at \in {"arriving", "answering"} /\ After(j, [t EXCEPT !.at = "dead"])
                          /\ UNCHANGED copies
           /\ Forget(j) => t.at = "dead" /\ t.client = Nobody /\ After(j, Free)
                           /\ UNCHANGED copies
           /\ \A status : UNCHANGED <<client, server>> /\ Decide(j, status) =>
                 \/ t.client = Nobody /\ After(j, Free)
                 \/ t.client # Nobody
                    /\ After(j, [t EXCEPT !.at = "answering", !.status = status])
<1>1. t \in Request /\ Sound(t)
  BY DEF ServiceInv, Typed
<1>2. Accept(j) => t.at = "arriving" /\ After(j, [t EXCEPT !.at = "sending"]) /\ UNCHANGED copies
  BY DEF Accept, After, ServiceInv, Typed
<1>3. Break(j) => t.at \in {"arriving", "answering"} /\ After(j, [t EXCEPT !.at = "dead"])
                  /\ UNCHANGED copies
  BY DEF Break, After, ServiceInv, Typed
<1>4. Forget(j) => t.at = "dead" /\ t.client = Nobody /\ After(j, Free) /\ UNCHANGED copies
  BY DEF Forget, After
<1>5. ASSUME NEW status, UNCHANGED <<client, server>>, Decide(j, status)
      PROVE  \/ t.client = Nobody /\ After(j, Free)
             \/ t.client # Nobody
                /\ After(j, [t EXCEPT !.at = "answering", !.status = status])
  BY <1>5 DEF Decide, After, ServiceInv, Typed
<1>6. QED
  BY <1>1, <1>2, <1>3, <1>4, <1>5

LEMMA CountedFacts == \A n \in 0 .. MaxCopies : Seen!Counted(n) \in 0 .. MaxCopies
  BY CallersAssumption DEF Seen!Counted

LEMMA NextService == ServiceInv /\ [Next]_vars => ServiceInv'
<1> SUFFICES ASSUME ServiceInv, [Next]_vars PROVE ServiceInv'
  OBVIOUS
<1>0. /\ Typed /\ CallsHaveRequests /\ WaitedLonger /\ StopCutsNobodyOff
      /\ \A j \in Job : job[j] \in Request /\ Sound(job[j])
      /\ Nobody \notin Row \cup Worker
  BY CallersAssumption DEF ServiceInv, Typed, StopCutsNobodyOff
<1>1. ASSUME NEW w \in Worker, NEW r \in Row, Post(w, r) PROVE ServiceInv'
  <2>1. PICK j \in Job : /\ job[j] = Free
                         /\ job' = [job EXCEPT ![j] =
                                [Free EXCEPT !.at = IF svc = "serving" THEN "arriving" ELSE "dead",
                                             !.row = r, !.client = w]]
    BY <1>1 DEF Post
  <2> DEFINE t == [Free EXCEPT !.at = IF svc = "serving" THEN "arriving" ELSE "dead",
                               !.row = r, !.client = w]
  <2>2. /\ t \in Request /\ Sound(t) /\ t.client = w /\ t.row = r
        /\ Alive(t) => svc = "serving"
    BY <1>0 DEF Free, Request, Status, Sound, Alive
  <2>3. /\ call[w] = NoCall /\ UNCHANGED <<server, copies>>
        /\ call' = [call EXCEPT ![w] = InFlight]
        /\ about' = [about EXCEPT ![w] = r] /\ age' = [age EXCEPT ![w] = 0]
    BY <1>1 DEF Post, NoCall, InFlight
  <2>4. \A i \in Job : job[i].client # w
    BY <1>0, <2>3, StatusFacts DEF CallsHaveRequests
  <2> HIDE DEF t
  <2>5. job'[j] = t /\ \A i \in Job \ {j} : job'[i] = job[i]
    BY <1>0, <2>1 DEF Typed, t
  <2>6. Typed'
    <3>1. 0 \in 0 .. ClientTimeout
      BY TimeoutAssumption
    <3>2. job' = [job EXCEPT ![j] = t]
      BY <2>1 DEF t
    <3>3. QED
      BY <1>0, <2>2, <2>3, <3>1, <3>2 DEF Typed, server
  <2>7. CallsHaveRequests'
    <3>1. /\ call'[w] = InFlight /\ about'[w] = r
          /\ \A v \in Worker \ {w} : call'[v] = call[v] /\ about'[v] = about[v]
      BY <1>0, <2>3 DEF Typed
    <3>2. \A i \in Job : job[i].client \in Worker \cup {Nobody}
      BY <1>0 DEF Request
    <3>3. QED
      BY <1>0, <2>1, <2>2, <2>4, <2>5, <3>1, <3>2, FreeFacts DEF CallsHaveRequests
  <2>8. WaitedLonger'
    <3>1. \A v \in Worker \ {w} : age'[v] = age[v]
      BY <1>0, <2>3 DEF Typed
    <3>2. \A i \in Job : job[i].client \in Worker \cup {Nobody}
      BY <1>0 DEF Request
    <3>3. QED
      BY <1>0, <2>2, <2>3, <2>4, <2>5, <3>1, <3>2 DEF WaitedLonger, server
  <2>9. QED
    BY <1>0, <2>2, <2>3, <2>5, <2>6, <2>7, <2>8 DEF ServiceInv, StopCutsNobodyOff, server
<1>2. ASSUME NEW w \in Worker, Leave(w) PROVE ServiceInv'
  <2>1. /\ call' = [call EXCEPT ![w] = NoCall] /\ about' = [about EXCEPT ![w] = Nobody]
        /\ age' = [age EXCEPT ![w] = 0] /\ UNCHANGED <<server, copies>>
        /\ job' = [j \in Job |->
               IF job[j].client # w THEN job[j]
               ELSE IF job[j].status # NoStatus THEN Free
               ELSE [job[j] EXCEPT !.client = Nobody]]
    BY <1>2 DEF Leave, NoCall
  <2>2. ASSUME NEW j \in Job
        PROVE  /\ job'[j] \in Request /\ Sound(job'[j])
               /\ job'[j].client = IF job[j].client = w THEN Nobody ELSE job[j].client
               /\ job[j].client # w => job'[j] = job[j]
               /\ Alive(job'[j]) => Alive(job[j])
    <3>1. CASE job[j].client # w
      BY <1>0, <2>1, <3>1
    <3>2. CASE job[j].client = w /\ job[j].status # NoStatus
      BY <2>1, <3>2, FreeFacts
    <3>3. CASE job[j].client = w /\ job[j].status = NoStatus
      <4>1. job'[j] = [job[j] EXCEPT !.client = Nobody] /\ job[j] \in Request /\ Sound(job[j])
        BY <1>0, <2>1, <3>3
      <4>2. job[j].at \notin {"free", "answering"}
        BY <1>0, <3>3, <4>1, FreeFacts DEF Sound
      <4>3. QED
        BY <3>3, <4>1, <4>2 DEF Request, Sound, Alive
    <3>4. QED
      BY <3>1, <3>2, <3>3
  <2>3. Typed'
    <3>1. 0 \in 0 .. ClientTimeout
      BY TimeoutAssumption
    <3>2. job' \in [Job -> Request]
      BY <2>1, <2>2
    <3>3. QED
      BY <1>0, <2>1, <3>1, <3>2 DEF Typed, server
  <2>4. /\ call'[w] = NoCall
        /\ \A v \in Worker \ {w} : call'[v] = call[v] /\ about'[v] = about[v] /\ age'[v] = age[v]
        /\ \A j \in Job : job[j].client \in Worker \cup {Nobody}
    BY <1>0, <2>1 DEF Typed, Request
  <2>5. CallsHaveRequests'
    BY <1>0, <2>2, <2>4, StatusFacts DEF CallsHaveRequests
  <2>6. WaitedLonger'
    BY <1>0, <2>1, <2>2, <2>4 DEF WaitedLonger, server
  <2>7. QED
    BY <1>0, <2>1, <2>2, <2>3, <2>5, <2>6 DEF ServiceInv, StopCutsNobodyOff, server
<1>3. ASSUME NEW j \in Job, Accept(j) \/ Break(j) \/ Forget(j) PROVE ServiceInv'
  <2>1. job[j] \in Request /\ Sound(job[j]) /\ copies' \in [Row -> 0 .. MaxCopies]
    BY <1>0, <1>3 DEF Typed, Accept, Break, Forget
  <2>2. CASE Accept(j)
    <3>1. job[j].at = "arriving" /\ After(j, [job[j] EXCEPT !.at = "sending"])
      BY <2>2, Moves
    <3>2. /\ [job[j] EXCEPT !.at = "sending"] \in Request
          /\ Sound([job[j] EXCEPT !.at = "sending"])
          /\ [job[j] EXCEPT !.at = "sending"].client = job[j].client
          /\ [job[j] EXCEPT !.at = "sending"].row = job[j].row
          /\ Alive(job[j])
      BY <2>1, <3>1 DEF Request, Sound, Alive
    <3>3. QED
      BY <2>1, <3>1, <3>2, OneRequest DEF After
  <2>3. CASE Break(j)
    <3>1. job[j].at \in {"arriving", "answering"} /\ After(j, [job[j] EXCEPT !.at = "dead"])
      BY <2>3, Moves
    <3>2. /\ [job[j] EXCEPT !.at = "dead"] \in Request
          /\ Sound([job[j] EXCEPT !.at = "dead"])
          /\ [job[j] EXCEPT !.at = "dead"].client = job[j].client
          /\ [job[j] EXCEPT !.at = "dead"].row = job[j].row
          /\ ~ Alive([job[j] EXCEPT !.at = "dead"])
      BY <2>1, <3>1 DEF Request, Sound, Alive
    <3>3. QED
      BY <2>1, <3>1, <3>2, OneRequest DEF After
  <2>4. CASE Forget(j)
    BY <2>1, <2>4, Moves, FreeFacts, OneRequest DEF After
  <2>5. QED
    BY <1>3, <2>2, <2>3, <2>4
<1>4. ASSUME NEW j \in Job, Reject(j) \/ Deliver(j) \/ FailDelivery(j) PROVE ServiceInv'
  <2>1. PICK status \in Seen!Answer : Decide(j, status)
    BY <1>4, StatusFacts DEF Reject, Deliver, FailDelivery
  <2>2. /\ UNCHANGED <<client, server>> /\ job[j].at \in {"arriving", "sending"}
        /\ copies' \in [Row -> 0 .. MaxCopies]
    <3>1. CASE Reject(j) \/ FailDelivery(j)
      BY <1>0, <3>1 DEF Reject, FailDelivery, Typed
    <3>2. CASE Deliver(j)
      BY <1>0, <3>2, CountedFacts DEF Deliver, Typed
    <3>3. QED
      BY <1>4, <3>1, <3>2
  <2>3. CASE job[j].client = Nobody
    BY <2>1, <2>2, <2>3, Moves, FreeFacts, OneRequest DEF After
  <2>4. CASE job[j].client # Nobody
    <3> DEFINE t == [job[j] EXCEPT !.at = "answering", !.status = status]
    <3>1. After(j, t)
      BY <2>1, <2>2, <2>4, Moves
    <3>2. /\ t \in Request /\ Sound(t) /\ t.client = job[j].client /\ t.row = job[j].row
          /\ Alive(job[j])
      BY <1>0, <2>1, <2>2, <2>4, StatusFacts DEF Request, Status, Sound, Alive
    <3> HIDE DEF t
    <3>3. QED
      BY <2>2, <3>1, <3>2, OneRequest DEF After
  <2>5. QED
    BY <2>3, <2>4
<1>5. ASSUME NEW j \in Job, Answer(j) PROVE ServiceInv'
  <2> DEFINE w == job[j].client
  <2>1. /\ job[j].at = "answering" /\ UNCHANGED <<about, server, copies>>
        /\ call' = [call EXCEPT ![w] = job[j].status] /\ age' = [age EXCEPT ![w] = 0]
        /\ job' = [job EXCEPT ![j] = Free]
    BY <1>5 DEF Answer
  <2>2. w \in Worker /\ job[j].status \in Seen!Answer
    BY <1>0, <2>1 DEF Request, Status, Sound
  <2>3. \A i \in Job \ {j} : job[i].client # w /\ job'[i] = job[i]
    BY <1>0, <2>1, <2>2 DEF CallsHaveRequests, Typed
  <2>4. job'[j] = Free
    BY <1>0, <2>1 DEF Typed
  <2>5. /\ call'[w] = job[j].status
        /\ \A v \in Worker \ {w} : call'[v] = call[v] /\ age'[v] = age[v]
        /\ \A i \in Job : job[i].client \in Worker \cup {Nobody}
    BY <1>0, <2>1, <2>2 DEF Typed, Request
  <2>6. Typed'
    <3>1. 0 \in 0 .. ClientTimeout
      BY TimeoutAssumption
    <3>2. QED
      BY <1>0, <2>1, <2>2, <3>1, FreeFacts DEF Typed, server
  <2>7. CallsHaveRequests'
    BY <1>0, <2>1, <2>2, <2>3, <2>4, <2>5, StatusFacts, FreeFacts DEF CallsHaveRequests
  <2>8. WaitedLonger'
    BY <1>0, <2>1, <2>3, <2>4, <2>5, FreeFacts DEF WaitedLonger, server
  <2>9. QED
    BY <1>0, <2>1, <2>3, <2>4, <2>6, <2>7, <2>8, FreeFacts
    DEF ServiceInv, StopCutsNobodyOff, server
<1>6. ASSUME Exit, cut' \in BOOLEAN, StopCutsNobodyOff' PROVE ServiceInv'
  <2>1. /\ svc' = "down" /\ drain' = 0 /\ UNCHANGED <<call, about, age, copies>>
        /\ job' = [j \in Job |-> IF job[j] = Free THEN Free ELSE [job[j] EXCEPT !.at = "dead"]]
    BY <1>6 DEF Exit, client
  <2>2. ASSUME NEW j \in Job
        PROVE  /\ job'[j] \in Request /\ Sound(job'[j]) /\ ~ Alive(job'[j])
               /\ job'[j].client = job[j].client /\ job'[j].row = job[j].row
    <3>1. CASE job[j] = Free
      BY <2>1, <3>1, FreeFacts
    <3>2. CASE job[j] # Free
      BY <1>0, <2>1, <3>2 DEF Request, Sound, Alive
    <3>3. QED
      BY <3>1, <3>2
  <2>3. Typed'
    <3>1. 0 \in 0 .. ShutdownTimeout
      BY TimeoutAssumption
    <3>2. job' \in [Job -> Request]
      BY <2>1, <2>2
    <3>3. QED
      BY <1>0, <1>6, <2>1, <3>1, <3>2 DEF Typed
  <2>4. CallsHaveRequests'
    BY <1>0, <2>1, <2>2 DEF CallsHaveRequests
  <2>5. WaitedLonger'
    BY <2>1, <2>2 DEF WaitedLonger
  <2>6. QED
    BY <1>6, <2>2, <2>3, <2>4, <2>5 DEF ServiceInv
<1>7. ASSUME ShutdownDone \/ ShutdownExpires PROVE ServiceInv'
  <2>1. Exit /\ svc = "draining" /\ cut' = (cut \/ \E j \in Busy : job[j].client # Nobody)
    BY <1>7 DEF ShutdownDone, ShutdownExpires, Stop
  <2>2. ASSUME ClientTimeout < ShutdownTimeout PROVE ~ \E j \in Busy : job[j].client # Nobody
    <3>1. CASE ShutdownDone
      BY <3>1 DEF ShutdownDone
    <3>2. CASE ShutdownExpires
      <4>1. SUFFICES ASSUME NEW j \in Busy, job[j].client # Nobody PROVE FALSE
        OBVIOUS
      <4>2. j \in Job /\ Alive(job[j]) /\ drain = ShutdownTimeout
        BY <3>2 DEF Busy, Alive, ShutdownExpires
      <4>3. drain <= age[job[j].client]
        BY <1>0, <2>1, <4>1, <4>2 DEF WaitedLonger
      <4>4. age[job[j].client] \in 0 .. ClientTimeout
        BY <1>0, <4>1, <4>2 DEF Typed, Request
      <4>5. QED
        BY <2>2, <4>2, <4>3, <4>4, TimeoutAssumption
    <3>3. QED
      BY <1>7, <3>1, <3>2
  <2>3. cut' \in BOOLEAN /\ StopCutsNobodyOff'
    BY <1>0, <2>1, <2>2 DEF Typed, StopCutsNobodyOff
  <2>4. QED
    BY <1>6, <2>1, <2>3
<1>8. ASSUME Signal \/ Restart PROVE ServiceInv'
  <2>1. /\ UNCHANGED <<call, about, age, job, drain, copies, cut>>
        /\ \/ svc = "serving" /\ svc' = "draining"
           \/ svc = "down" /\ svc' = "serving"
    BY <1>8 DEF Signal, Restart, client
  <2>2. Typed' /\ CallsHaveRequests' /\ \A j \in Job : Sound(job'[j])
    BY <1>0, <2>1 DEF Typed, CallsHaveRequests
  <2>3. \A w \in Worker : 0 <= age[w]
    BY <1>0 DEF Typed
  <2>4. \A j \in Job : job[j].client \in Worker \cup {Nobody}
    BY <1>0 DEF Request
  <2>5. WaitedLonger'
    BY <1>0, <2>1, <2>3, <2>4 DEF WaitedLonger
  <2>6. QED
    BY <1>0, <2>1, <2>2, <2>5 DEF ServiceInv, StopCutsNobodyOff
<1>9. ASSUME Pass PROVE ServiceInv'
  <2> DEFINE waiting == {w \in Worker : call[w] = InFlight}
  <2>1. /\ UNCHANGED <<call, about, job, svc, copies, cut>>
        /\ \A w \in waiting : age[w] < ClientTimeout
        /\ svc = "draining" => drain < ShutdownTimeout
        /\ age' = [w \in Worker |-> IF w \in waiting THEN age[w] + 1 ELSE age[w]]
        /\ drain' = IF svc = "draining" THEN drain + 1 ELSE drain
    BY <1>9 DEF Pass, InFlight
  <2>2. Typed'
    <3>1. drain' \in 0 .. ShutdownTimeout
      BY <1>0, <2>1, TimeoutAssumption DEF Typed
    <3>2. ASSUME NEW w \in Worker
          PROVE  (IF w \in waiting THEN age[w] + 1 ELSE age[w]) \in 0 .. ClientTimeout
      BY <1>0, <2>1, TimeoutAssumption DEF Typed
    <3>3. QED
      BY <1>0, <2>1, <3>1, <3>2 DEF Typed
  <2>3. CallsHaveRequests' /\ \A j \in Job : Sound(job'[j])
    BY <1>0, <2>1 DEF CallsHaveRequests
  <2>4. WaitedLonger'
    <3>1. ASSUME NEW j \in Job, Alive(job[j]), job[j].client # Nobody, svc = "draining"
          PROVE  drain + 1 <= age'[job[j].client]
      <4>1. job[j].client \in waiting /\ drain <= age[job[j].client]
        BY <1>0, <3>1 DEF CallsHaveRequests, WaitedLonger, Request
      <4>2. age'[job[j].client] = age[job[j].client] + 1
        BY <2>1, <4>1
      <4>3. drain \in Nat /\ age[job[j].client] \in Nat
        BY <1>0, <4>1 DEF Typed
      <4>4. QED
        BY <4>1, <4>2, <4>3
    <3>2. QED
      BY <1>0, <2>1, <3>1 DEF WaitedLonger
  <2>5. QED
    BY <1>0, <2>1, <2>2, <2>3, <2>4 DEF ServiceInv, StopCutsNobodyOff
<1>10. CASE UNCHANGED vars
  BY <1>10 DEF vars, ServiceInv, Typed, CallsHaveRequests, WaitedLonger, StopCutsNobodyOff
<1>11. CASE Crash
  <2>1. Exit /\ UNCHANGED cut
    BY <1>11 DEF Crash
  <2>2. cut' \in BOOLEAN /\ StopCutsNobodyOff'
    BY <1>0, <2>1 DEF Typed, StopCutsNobodyOff
  <2>3. QED
    BY <1>6, <2>1, <2>2
<1>12. QED
  BY <1>1, <1>2, <1>3, <1>4, <1>5, <1>7, <1>8, <1>9, <1>10, <1>11
  DEF Next, Handle, Return, TimeOut

\* The bookkeeping holds through crashes, restarts, stops and timeouts.
THEOREM ServiceInvariant == Spec => []ServiceInv
<1>1. Init => ServiceInv
  BY InitService
<1>2. ServiceInv /\ [Next]_vars => ServiceInv'
  BY NextService
<1>3. QED
  BY <1>1, <1>2, PTL DEF Spec

\* A graceful stop kills no handler that a client still waits for, if clients
\* wait for less than Shutdown: before it gives up, those of all the requests
\* it waits for have.
THEOREM NobodyCutOff == Spec => []StopCutsNobodyOff
<1>1. ServiceInv => StopCutsNobodyOff
  BY DEF ServiceInv
<1>2. QED
  BY <1>1, ServiceInvariant, PTL

-----------------------------------------------------------------------------
(* The calls as the drainers see them.                                     *)

\* A call is answered as soon as the status of its request is decided.
SeenAsDecided ==
    /\ SeenCall \in [Worker -> {NoCall, InFlight} \cup Seen!Answer]
    /\ \A w \in Worker, j \in Job : job[j].client = w =>
          SeenCall[w] = IF job[j].status # NoStatus THEN job[j].status ELSE InFlight
    /\ \A w \in Worker : call[w] # InFlight => SeenCall[w] = call[w]

LEMMA SeenNow == ServiceInv => SeenAsDecided
<1> SUFFICES ASSUME ServiceInv PROVE SeenAsDecided
  OBVIOUS
<1>0. Typed /\ CallsHaveRequests /\ \A j \in Job : job[j] \in Request
  BY DEF ServiceInv, Typed
<1>1. SeenCall = [w \in Worker |-> IF call[w] = InFlight /\ Decided(w) # {}
                                   THEN job[CHOOSE j \in Decided(w) : TRUE].status
                                   ELSE call[w]]
  BY StatusFacts DEF SeenCall
<1>2. ASSUME NEW w \in Worker, call[w] # InFlight PROVE SeenCall[w] = call[w]
  BY <1>1, <1>2
<1>3. ASSUME NEW w \in Worker, NEW j \in Job, job[j].client = w
      PROVE  SeenCall[w] = IF job[j].status # NoStatus THEN job[j].status ELSE InFlight
  <2>1. call[w] = InFlight /\ w # Nobody
    BY <1>0, <1>3, CallersAssumption DEF CallsHaveRequests
  <2>2. \A i \in Job : job[i].client = w => i = j
    BY <1>0, <1>3, <2>1 DEF CallsHaveRequests
  <2>3. CASE job[j].status # NoStatus
    <3>1. Decided(w) = {j}
      BY <1>3, <2>2, <2>3 DEF Decided
    <3>2. (CHOOSE i \in Decided(w) : TRUE) = j
      BY <3>1
    <3>3. QED
      BY <1>1, <2>1, <2>3, <3>1, <3>2
  <2>4. CASE job[j].status = NoStatus
    <3>1. Decided(w) = {}
      BY <2>2, <2>4 DEF Decided
    <3>2. QED
      BY <1>1, <2>1, <2>4, <3>1
  <2>5. QED
    BY <2>3, <2>4
<1>4. ASSUME NEW w \in Worker PROVE SeenCall[w] \in {NoCall, InFlight} \cup Seen!Answer
  <2>1. CASE call[w] # InFlight
    BY <1>0, <1>2, <2>1 DEF Typed
  <2>2. CASE call[w] = InFlight
    <3>1. PICK j \in Job : job[j].client = w
      BY <1>0, <2>2 DEF CallsHaveRequests
    <3>2. QED
      BY <1>0, <1>3, <3>1 DEF Request, Status
  <2>3. QED
    BY <2>1, <2>2
<1>5. SeenCall \in [Worker -> {NoCall, InFlight} \cup Seen!Answer]
  BY <1>1, <1>4
<1>6. QED
  BY <1>2, <1>3, <1>5 DEF SeenAsDecided

LEMMA SeenNext == ServiceInv' => SeenAsDecided'
  BY SeenNow, PTL

\* Every variable keeps its type, the calls as the drainers see them included.
THEOREM ServiceTyped == Spec => []TypeOK
<1>1. ServiceInv => TypeOK
  <2> SUFFICES ASSUME ServiceInv PROVE TypeOK
    OBVIOUS
  <2>1. Typed /\ \A j \in Job : Sound(job[j])
    BY DEF ServiceInv
  <2>2. SeenCall \in [Worker -> {Seen!NoCall, Seen!InFlight} \cup Seen!Answer]
    BY SeenNow DEF SeenAsDecided, NoCall, InFlight
  <2>3. SeenLate \subseteq Row
    BY <2>1 DEF SeenLate, Orphans, Sound
  <2>4. Seen!CallTypeOK
    BY <2>1, <2>2, <2>3 DEF Typed, Seen!CallTypeOK
  <2>5. QED
    BY <2>1, <2>4 DEF Typed, TypeOK, Request, Status
<1>2. QED
  BY <1>1, ServiceInvariant, PTL

\* A call changes for the drainers only with its client or its request.
LEMMA SeenUntouched ==
    ASSUME ServiceInv, ServiceInv', NEW w \in Worker, call'[w] = call[w],
           \A j \in Job : job[j].client = w =>
               job'[j].client = w /\ job'[j].status = job[j].status
    PROVE  SeenCall'[w] = SeenCall[w]
<1>1. SeenAsDecided /\ SeenAsDecided'
  BY SeenNow, SeenNext
<1>2. CASE call[w] # InFlight
  BY <1>1, <1>2 DEF SeenAsDecided
<1>3. CASE call[w] = InFlight
  <2>1. PICK j \in Job : job[j].client = w
    BY <1>3 DEF ServiceInv, CallsHaveRequests
  <2>2. job'[j].client = w /\ job'[j].status = job[j].status
    BY <2>1
  <2>3. QED
    BY <1>1, <2>1, <2>2 DEF SeenAsDecided
<1>4. QED
  BY <1>2, <1>3

\* Steps on which only one request moves, or none that concerns a call.
LEMMA SeenSame ==
    ASSUME ServiceInv, ServiceInv', UNCHANGED <<call, copies>>, Orphans' = Orphans,
           \A j \in Job : /\ job'[j].client = job[j].client
                          /\ job'[j].status = job[j].status
                          /\ j \in Orphans => job'[j].row = job[j].row
    PROVE  UNCHANGED Seen!callVars
<1>1. \A w \in Worker : SeenCall'[w] = SeenCall[w]
  BY SeenUntouched
<1>2. SeenCall' = SeenCall
  BY <1>1, SeenNow, SeenNext DEF SeenAsDecided
<1>3. SeenLate' = SeenLate
  <2>1. Orphans \subseteq Job
    BY DEF Orphans
  <2>2. QED
    BY <2>1 DEF SeenLate
<1>4. QED
  BY <1>2, <1>3 DEF Seen!callVars

\* A request that nobody waits for is done: its row may still have another.
LEMMA SeenGone ==
    ASSUME ServiceInv, ServiceInv', NEW j \in Job, job[j].client = Nobody,
           job[j].at # "free", After(j, Free)
    PROVE  /\ SeenCall' = SeenCall
           /\ job[j].row \in SeenLate
           /\ SeenLate' \in {SeenLate, SeenLate \ {job[j].row}}
<1>1. /\ job \in [Job -> Request] /\ \A i \in Job : Sound(job[i])
      /\ job' = [job EXCEPT ![j] = Free] /\ UNCHANGED <<call, about, age>>
  BY DEF ServiceInv, Typed, After, client
<1>2. job'[j] = Free /\ \A i \in Job \ {j} : job'[i] = job[i]
  BY <1>1
<1>3. \A w \in Worker : SeenCall'[w] = SeenCall[w]
  BY <1>1, <1>2, SeenUntouched, FreeFacts, CallersAssumption
<1>4. SeenCall' = SeenCall
  BY <1>3, SeenNow, SeenNext DEF SeenAsDecided
<1>5. j \in Orphans
  BY <1>1 DEF Sound, Request, Orphans
<1>6. Orphans' = Orphans \ {j}
  BY <1>2, FreeFacts DEF Orphans
<1>7. Orphans \subseteq Job
  BY DEF Orphans
<1>8. SeenLate' = {job[i].row : i \in Orphans \ {j}}
  BY <1>2, <1>6, <1>7 DEF SeenLate
<1>9. QED
  BY <1>4, <1>5, <1>8 DEF SeenLate

\* The handler has decided what to answer to a client that waits.
LEMMA SeenDecided ==
    ASSUME ServiceInv, ServiceInv', NEW j \in Job, NEW status \in Seen!Answer,
           job[j].client # Nobody, job[j].at \in {"arriving", "sending"},
           After(j, [job[j] EXCEPT !.at = "answering", !.status = status])
    PROVE  /\ job[j].client \in Worker
           /\ about[job[j].client] = job[j].row
           /\ SeenCall[job[j].client] = InFlight
           /\ SeenCall' = [SeenCall EXCEPT ![job[j].client] = status]
           /\ SeenLate' = SeenLate
<1> DEFINE w == job[j].client
           t == [job[j] EXCEPT !.at = "answering", !.status = status]
<1>1. /\ job \in [Job -> Request] /\ Sound(job[j]) /\ CallsHaveRequests
      /\ job' = [job EXCEPT ![j] = t] /\ UNCHANGED <<call, about, age>>
  BY DEF ServiceInv, Typed, After, client
<1>2. t.client = w /\ t.status = status /\ t.at = "answering" /\ job[j].status = NoStatus
  BY <1>1 DEF Request, Sound
<1>3. w \in Worker /\ about[w] = job[j].row
  BY <1>1 DEF Request, CallsHaveRequests
<1> HIDE DEF t
<1>4. job'[j] = t /\ \A i \in Job \ {j} : job'[i] = job[i]
  BY <1>1
<1>5. SeenAsDecided /\ SeenAsDecided'
  BY SeenNow, SeenNext
<1>6. SeenCall[w] = InFlight
  BY <1>2, <1>3, <1>5 DEF SeenAsDecided
<1>7. SeenCall'[w] = status
  BY <1>2, <1>3, <1>4, <1>5, StatusFacts DEF SeenAsDecided
<1>8. \A v \in Worker \ {w} : SeenCall'[v] = SeenCall[v]
  BY <1>1, <1>4, SeenUntouched
<1>9. SeenCall' = [SeenCall EXCEPT ![w] = status]
  BY <1>5, <1>7, <1>8 DEF SeenAsDecided
<1>10. Orphans' = Orphans /\ j \notin Orphans /\ Orphans \subseteq Job
  BY <1>2, <1>4 DEF Orphans
<1>11. SeenLate' = SeenLate
  BY <1>4, <1>10 DEF SeenLate
<1>12. QED
  BY <1>3, <1>6, <1>9, <1>11

\* A client that leaves makes its request late, unless that is decided.
LEMMA SeenLeave ==
    ASSUME ServiceInv, ServiceInv', NEW w \in Worker, Leave(w)
    PROVE  about[w] \in Row /\ Seen!Abandon(w, about[w])
<1>1. /\ Typed /\ CallsHaveRequests /\ \A j \in Job : job[j] \in Request /\ Sound(job[j])
      /\ w # Nobody
  BY CallersAssumption DEF ServiceInv, Typed
<1>2. /\ call[w] # NoCall /\ call' = [call EXCEPT ![w] = NoCall] /\ UNCHANGED copies
      /\ job' = [j \in Job |->
             IF job[j].client # w THEN job[j]
             ELSE IF job[j].status # NoStatus THEN Free
             ELSE [job[j] EXCEPT !.client = Nobody]]
  BY DEF Leave, NoCall
<1>3. SeenAsDecided /\ SeenAsDecided'
  BY SeenNow, SeenNext
<1>4. /\ call'[w] = NoCall /\ \A v \in Worker \ {w} : call'[v] = call[v]
      /\ \A j \in Job : job[j].client # w => job'[j] = job[j]
  BY <1>1, <1>2 DEF Typed
<1>5. SeenCall'[w] = NoCall
  BY <1>3, <1>4, StatusFacts DEF SeenAsDecided
<1>6. \A v \in Worker \ {w} : SeenCall'[v] = SeenCall[v]
  BY <1>4, SeenUntouched
<1>7. SeenCall' = [SeenCall EXCEPT ![w] = NoCall]
  BY <1>3, <1>5, <1>6 DEF SeenAsDecided
<1>8. about[w] \in Row
  BY <1>1, <1>2 DEF CallsHaveRequests
<1>9. /\ SeenCall[w] # NoCall
      /\ SeenLate' = IF SeenCall[w] = InFlight THEN SeenLate \cup {about[w]} ELSE SeenLate
  <2>1. CASE \A j \in Job : job[j].client # w
    <3>1. SeenCall[w] = call[w] /\ call[w] # InFlight
      BY <1>1, <1>3, <2>1 DEF CallsHaveRequests, SeenAsDecided
    <3>2. Orphans' = Orphans /\ \A j \in Job : job'[j] = job[j]
      BY <1>4, <2>1 DEF Orphans
    <3>3. SeenLate' = SeenLate
      BY <3>2 DEF SeenLate, Orphans
    <3>4. QED
      BY <1>2, <3>1, <3>3
  <2>2. CASE \E j \in Job : job[j].client = w
    <3>1. PICK j \in Job : job[j].client = w
      BY <2>2
    <3>2. /\ \A i \in Job \ {j} : job'[i] = job[i]
          /\ about[w] = job[j].row /\ Orphans \subseteq Job /\ j \notin Orphans
      BY <1>1, <1>4, <3>1 DEF CallsHaveRequests, Orphans
    <3>3. CASE job[j].status # NoStatus
      <4>1. job'[j] = Free /\ SeenCall[w] = job[j].status
        BY <1>2, <1>3, <3>1, <3>3 DEF SeenAsDecided
      <4>2. job[j].status \in Seen!Answer
        BY <1>1, <3>3 DEF Request, Status
      <4>3. Orphans' = Orphans
        BY <3>2, <4>1, FreeFacts DEF Orphans
      <4>4. SeenLate' = SeenLate
        BY <3>2, <4>3 DEF SeenLate
      <4>5. QED
        BY <4>1, <4>2, <4>4, StatusFacts
    <3>4. CASE job[j].status = NoStatus
      <4>1. job'[j] = [job[j] EXCEPT !.client = Nobody] /\ SeenCall[w] = InFlight
        BY <1>1, <1>2, <1>3, <3>1, <3>4 DEF SeenAsDecided
      <4>2. job[j].at \in {"arriving", "sending", "dead"}
        BY <1>1, <3>1, <3>4, FreeFacts DEF Request, Sound
      <4>3. /\ job'[j].at = job[j].at /\ job'[j].client = Nobody
            /\ job'[j].status = NoStatus /\ job'[j].row = about[w]
        BY <1>1, <3>2, <3>4, <4>1 DEF Request
      <4>4. Orphans' = Orphans \cup {j}
        BY <3>2, <4>2, <4>3 DEF Orphans
      <4>5. SeenLate' = SeenLate \cup {about[w]}
        BY <3>2, <4>3, <4>4 DEF SeenLate
      <4>6. QED
        BY <4>1, <4>5, StatusFacts
    <3>5. QED
      BY <3>3, <3>4
  <2>3. QED
    BY <2>1, <2>2
<1>10. QED
  BY <1>2, <1>7, <1>8, <1>9 DEF Seen!Abandon, NoCall, InFlight

LEMMA StepKeepsCalls == ServiceInv /\ [Next]_vars => [CallStep]_(Seen!callVars)
<1> SUFFICES ASSUME ServiceInv, [Next]_vars PROVE [CallStep]_(Seen!callVars)
  OBVIOUS
<1>0. /\ ServiceInv' /\ SeenAsDecided /\ SeenAsDecided'
      /\ Typed /\ CallsHaveRequests
      /\ \A j \in Job : job[j] \in Request /\ Sound(job[j])
  BY NextService, SeenNow, SeenNext DEF ServiceInv, Typed
<1>1. ASSUME NEW w \in Worker, NEW r \in Row, Post(w, r) PROVE CallStep
  <2>1. PICK j \in Job : /\ job[j] = Free
                         /\ job' = [job EXCEPT ![j] =
                                [Free EXCEPT !.at = IF svc = "serving" THEN "arriving" ELSE "dead",
                                             !.row = r, !.client = w]]
    BY <1>1 DEF Post
  <2>2. /\ call[w] = NoCall /\ call' = [call EXCEPT ![w] = InFlight] /\ UNCHANGED copies
    BY <1>1 DEF Post, NoCall, InFlight
  <2>3. /\ job'[j].client = w /\ job'[j].status = NoStatus
        /\ \A i \in Job \ {j} : job'[i] = job[i]
    BY <1>0, <2>1 DEF Typed, Free
  <2>4. SeenCall[w] = NoCall /\ SeenCall'[w] = InFlight
    BY <1>0, <2>2, <2>3, StatusFacts DEF SeenAsDecided
  <2>5. \A v \in Worker \ {w} : call'[v] = call[v]
    BY <1>0, <2>2 DEF Typed
  <2>6. \A v \in Worker \ {w} : SeenCall'[v] = SeenCall[v]
    BY <1>0, <2>1, <2>3, <2>5, SeenUntouched, FreeFacts, CallersAssumption
  <2>7. SeenCall' = [SeenCall EXCEPT ![w] = InFlight]
    BY <1>0, <2>4, <2>6 DEF SeenAsDecided
  <2>8. Orphans' = Orphans /\ j \notin Orphans /\ Orphans \subseteq Job
    BY <2>1, <2>3, FreeFacts, CallersAssumption DEF Orphans
  <2>9. SeenLate' = SeenLate
    BY <2>3, <2>8 DEF SeenLate
  <2>10. Seen!Post(w)
    BY <2>2, <2>4, <2>7, <2>9 DEF Seen!Post, NoCall, InFlight
  <2>11. QED
    BY <2>10 DEF CallStep
<1>2. ASSUME NEW w \in Worker, Leave(w) PROVE CallStep
  BY <1>0, <1>2, SeenLeave DEF CallStep
<1>3. ASSUME NEW j \in Job, Accept(j) \/ Break(j) PROVE UNCHANGED Seen!callVars
  <2>1. \/ job[j].at = "arriving" /\ After(j, [job[j] EXCEPT !.at = "sending"])
        \/ job[j].at \in {"arriving", "answering"} /\ After(j, [job[j] EXCEPT !.at = "dead"])
    BY <1>0, <1>3, Moves
  <2>2. /\ job'[j].client = job[j].client /\ job'[j].status = job[j].status
        /\ job'[j].row = job[j].row /\ job'[j].at \in {"sending", "dead"}
        /\ job[j].at = "arriving" \/ job[j].at = "answering"
        /\ \A i \in Job \ {j} : job'[i] = job[i]
    BY <1>0, <2>1 DEF After, Typed, Request
  <2>3. Orphans' = Orphans
    BY <1>0, <2>1, <2>2 DEF Orphans, Sound
  <2>4. UNCHANGED <<call, copies>>
    BY <1>3 DEF Accept, Break, client
  <2>5. QED
    BY <1>0, <2>2, <2>3, <2>4, SeenSame
<1>4. ASSUME NEW j \in Job, Reject(j) \/ Deliver(j) \/ FailDelivery(j),
             job[j].client = Nobody
      PROVE  CallStep \/ UNCHANGED Seen!callVars
  <2> DEFINE r == job[j].row
  <2>1. \E status : Decide(j, status)
    BY <1>4 DEF Reject, Deliver, FailDelivery
  <2>2. UNCHANGED <<client, server>> /\ job[j].at \in {"arriving", "sending"}
    BY <1>4 DEF Reject, Deliver, FailDelivery
  <2>3. After(j, Free) /\ r \in Row
    BY <1>0, <1>4, <2>1, <2>2, Moves DEF Sound
  <2>4. /\ SeenCall' = SeenCall /\ r \in SeenLate
        /\ SeenLate' \in {SeenLate, SeenLate \ {r}}
    BY <1>0, <1>4, <2>2, <2>3, SeenGone
  <2>5. CASE Deliver(j)
    <3>1. Seen!DeliverLate(r)
      BY <2>4, <2>5 DEF Deliver, Seen!DeliverLate
    <3>2. QED
      BY <2>3, <3>1 DEF CallStep
  <2>6. CASE UNCHANGED copies
    <3>1. Seen!DropLate(r) \/ UNCHANGED Seen!callVars
      BY <2>4, <2>6 DEF Seen!DropLate, Seen!callVars
    <3>2. QED
      BY <2>3, <3>1 DEF CallStep
  <2>7. QED
    BY <1>4, <2>5, <2>6 DEF Reject, FailDelivery
<1>5. ASSUME NEW j \in Job, Reject(j) \/ Deliver(j) \/ FailDelivery(j),
             job[j].client # Nobody
      PROVE  CallStep
  <2> DEFINE r == job[j].row
             w == job[j].client
  <2>1. UNCHANGED <<client, server>> /\ job[j].at \in {"arriving", "sending"}
    BY <1>5 DEF Reject, Deliver, FailDelivery
  <2>2. ASSUME NEW status \in Seen!Answer, Decide(j, status)
        PROVE  /\ w \in Worker /\ about[w] = r /\ r \in Row
               /\ SeenCall[w] = InFlight /\ SeenLate' = SeenLate
               /\ SeenCall' = [SeenCall EXCEPT ![w] = status]
    <3>1. After(j, [job[j] EXCEPT !.at = "answering", !.status = status])
      BY <1>0, <1>5, <2>1, <2>2, Moves
    <3>2. r \in Row
      BY <1>0, <2>1 DEF Sound
    <3>3. QED
      BY <1>0, <1>5, <2>1, <3>1, <3>2, SeenDecided
  <2>3. CASE Reject(j)
    <3>1. Decide(j, Seen!BadRequest) /\ r \in Malformed /\ UNCHANGED copies
      BY <1>5, <2>3 DEF Reject
    <3>2. w \in Worker /\ about[w] = r /\ r \in Row /\ Seen!Reject(w, r)
      BY <2>2, <3>1, StatusFacts DEF Seen!Reject, InFlight
    <3>3. QED
      BY <3>2 DEF CallStep
  <2>4. CASE Deliver(j)
    <3>1. /\ Decide(j, Seen!NoContent) \/ Decide(j, Seen!BadGateway)
          /\ r \notin Undeliverable
          /\ copies' = [copies EXCEPT ![r] = Seen!Counted(@)]
      BY <2>4 DEF Deliver
    <3>2. /\ w \in Worker /\ about[w] = r /\ r \in Row
          /\ Seen!Accept(w, r) \/ Seen!LoseProviderReply(w, r)
      BY <2>2, <3>1, StatusFacts DEF Seen!Accept, Seen!LoseProviderReply, InFlight
    <3>3. QED
      BY <3>2 DEF CallStep
  <2>5. CASE FailDelivery(j)
    <3>1. Decide(j, Seen!BadGateway) /\ UNCHANGED copies
      BY <2>5 DEF FailDelivery
    <3>2. w \in Worker /\ Seen!FailDelivery(w)
      BY <2>2, <3>1, StatusFacts DEF Seen!FailDelivery, InFlight
    <3>3. QED
      BY <3>2 DEF CallStep
  <2>6. QED
    BY <1>5, <2>3, <2>4, <2>5
<1>6. ASSUME NEW j \in Job, Forget(j) PROVE CallStep \/ UNCHANGED Seen!callVars
  <2>1. /\ job[j].at = "dead" /\ job[j].client = Nobody /\ After(j, Free) /\ UNCHANGED copies
        /\ job[j].row \in Row
    BY <1>0, <1>6, Moves DEF Sound
  <2>2. /\ SeenCall' = SeenCall /\ job[j].row \in SeenLate
        /\ SeenLate' \in {SeenLate, SeenLate \ {job[j].row}}
    BY <1>0, <2>1, SeenGone
  <2>3. Seen!DropLate(job[j].row) \/ UNCHANGED Seen!callVars
    BY <2>1, <2>2 DEF Seen!DropLate, Seen!callVars
  <2>4. QED
    BY <2>1, <2>3 DEF CallStep
<1>7. ASSUME NEW j \in Job, Answer(j) PROVE UNCHANGED Seen!callVars
  <2> DEFINE w == job[j].client
  <2>1. /\ job[j].at = "answering" /\ UNCHANGED copies
        /\ call' = [call EXCEPT ![w] = job[j].status] /\ job' = [job EXCEPT ![j] = Free]
    BY <1>7 DEF Answer
  <2>2. w \in Worker /\ w # Nobody /\ job[j].status \in Seen!Answer
    BY <1>0, <2>1 DEF Request, Status, Sound
  <2>3. /\ job'[j] = Free /\ \A i \in Job \ {j} : job'[i] = job[i]
        /\ call'[w] = job[j].status /\ \A v \in Worker \ {w} : call'[v] = call[v]
    BY <1>0, <2>1, <2>2 DEF Typed
  <2>4. SeenCall[w] = job[j].status /\ SeenCall'[w] = job[j].status
    BY <1>0, <2>2, <2>3, StatusFacts DEF SeenAsDecided
  <2>5. \A v \in Worker \ {w} : SeenCall'[v] = SeenCall[v]
    BY <1>0, <2>3, SeenUntouched
  <2>6. SeenCall' = SeenCall
    BY <1>0, <2>4, <2>5 DEF SeenAsDecided
  <2>7. Orphans' = Orphans /\ j \notin Orphans /\ Orphans \subseteq Job
    BY <2>1, <2>3, FreeFacts DEF Orphans
  <2>8. SeenLate' = SeenLate
    BY <2>3, <2>7 DEF SeenLate
  <2>9. QED
    BY <2>1, <2>6, <2>8 DEF Seen!callVars
<1>8. ASSUME Exit PROVE UNCHANGED Seen!callVars
  <2>1. /\ UNCHANGED <<call, copies>>
        /\ job' = [j \in Job |-> IF job[j] = Free THEN Free ELSE [job[j] EXCEPT !.at = "dead"]]
    BY <1>8 DEF Exit, client
  <2>2. ASSUME NEW j \in Job
        PROVE  /\ job'[j].client = job[j].client /\ job'[j].status = job[j].status
               /\ job'[j].row = job[j].row
               /\ job'[j].at = IF job[j] = Free THEN "free" ELSE "dead"
    <3>1. CASE job[j] = Free
      BY <2>1, <3>1, FreeFacts
    <3>2. CASE job[j] # Free
      BY <1>0, <2>1, <3>2 DEF Request
    <3>3. QED
      BY <3>1, <3>2
  <2>3. Orphans' = Orphans
    <3>1. \A j \in Job : job[j] # Free /\ job[j].client = Nobody /\ job[j].status = NoStatus
             => job[j].at \in {"arriving", "sending", "dead"}
      BY <1>0 DEF Sound, Request
    <3>2. \A j \in Job : j \in Orphans' <=> j \in Orphans
      BY <2>2, <3>1, FreeFacts DEF Orphans
    <3>3. QED
      BY <3>2 DEF Orphans
  <2>4. QED
    BY <1>0, <2>1, <2>2, <2>3, SeenSame
<1>9. ASSUME Signal \/ Restart \/ Pass \/ UNCHANGED vars PROVE UNCHANGED Seen!callVars
  <2>1. UNCHANGED <<call, copies, job>>
    BY <1>9 DEF Signal, Restart, Pass, vars, client
  <2>2. Orphans' = Orphans
    BY <2>1 DEF Orphans
  <2>3. QED
    BY <1>0, <2>1, <2>2, SeenSame
<1>10. QED
  BY <1>1, <1>2, <1>3, <1>4, <1>5, <1>6, <1>7, <1>8, <1>9
  DEF Next, Handle, Return, TimeOut, Crash, ShutdownDone, ShutdownExpires, Stop

\* All that the drainers' modules assume of a call is so: the service, its
\* stops, crashes and restarts, and the client's timeout do nothing else.
THEOREM ServiceKeepsContract == Spec => KeepsCallContract
<1>1. Init => Seen!CallInit
  <2> SUFFICES ASSUME Init PROVE Seen!CallInit
    OBVIOUS
  <2>1. (\A j \in Job : job[j] = Free) /\ call = [w \in Worker |-> NoCall]
    BY DEF Init, NoCall
  <2>2. SeenAsDecided
    BY InitService, SeenNow
  <2>3. \A w \in Worker : SeenCall[w] = NoCall
    BY <2>1, <2>2, StatusFacts DEF SeenAsDecided
  <2>4. SeenCall = [w \in Worker |-> NoCall]
    BY <2>2, <2>3 DEF SeenAsDecided
  <2>5. SeenLate = {}
    BY <2>1, FreeFacts DEF SeenLate, Orphans
  <2>6. QED
    BY <2>4, <2>5 DEF Init, Seen!CallInit, NoCall
<1>2. QED
  BY <1>1, StepKeepsCalls, ServiceInvariant, PTL DEF Spec, KeepsCallContract
=============================================================================
