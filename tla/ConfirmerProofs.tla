--------------------------- MODULE ConfirmerProofs ---------------------------
(***************************************************************************)
(* Proofs about Confirmer, for any number of requests, replicas, addresses *)
(* and ids.  IInv adds to the invariant of the API what ties links, emails *)
(* and rows of the outbox together.                                        *)
(***************************************************************************)
EXTENDS Confirmer, SubscriptionProofs

\* A worker holds a row, and has a call, exactly where Flush says so.
ControlOK ==
    \A w \in Worker :
        /\ cur[w] = NoRow <=> pc[w] \in {"waiting", "flushing"}
        /\ call[w] = NoCall <=> pc[w] # "sending"

OneClaimPerRow ==
    \A v, w \in Worker : cur[v] = cur[w] /\ cur[w] # NoRow => v = w

\* A claimed row waits still, and its subscription exists.
ClaimedIsLive ==
    \A w \in Worker : cur[w] # NoRow => outbox[cur[w]] = "pending" /\ Live(cur[w])

\* Workers about to mark a row know why they may.
Evidence ==
    \A w \in Worker :
        call[w] = NoContent \/ pc[w] = "marking"
            => copies[cur[w]] > 0 \/ cur[w] \in refused

\* Requests are only ever made for rows that exist.
LateExists == \A i \in late : outbox[i] # "absent"

\* Nobody has a confirm link but from an email.
LinksWereMailed ==
    /\ \A q \in Request : req[q].at = "finding" => copies[req[q].id] > 0
    /\ \A i \in clicked : copies[i] > 0

IInv ==
    /\ ApiIInv
    /\ TypeOK
    /\ ControlOK
    /\ OneClaimPerRow
    /\ ClaimedIsLive
    /\ Evidence
    /\ LateExists
    /\ LinksWereMailed

\* The initial states satisfy the invariant.
LEMMA InitIInv == Init => IInv
<1> SUFFICES ASSUME Init PROVE IInv
  OBVIOUS
<1>1. ApiIInv
  BY InitApiIInv DEF Init
<1>2. TypeOK
  BY <1>1, ConfirmerAssumption DEF ApiIInv, Init, CallInit, TypeOK, CallTypeOK, NoCall
<1>3. ControlOK /\ OneClaimPerRow /\ ClaimedIsLive /\ Evidence
  BY DEF Init, CallInit, ControlOK, OneClaimPerRow, ClaimedIsLive, Evidence, NoContent, NoCall
<1>4. LateExists /\ LinksWereMailed
  BY DEF Init, ApiInit, CallInit, Idle, LateExists, LinksWereMailed
<1>5. QED
  BY <1>1, <1>2, <1>3, <1>4 DEF IInv

\* Counting keeps within the bound and never returns to zero.
LEMMA CountedFacts ==
    ASSUME NEW n \in 0 .. MaxCopies
    PROVE  Counted(n) \in 1 .. MaxCopies
  BY ConfirmerAssumption DEF Counted

\* A response is classified as its status says.
LEMMA OutcomeFacts ==
    /\ \A s \in Answer : Outcome(s) = "ok" <=> s = NoContent
    /\ \A s \in Answer : Outcome(s) = "permanent" <=> s = BadRequest
    /\ \A s \in Answer : s # NoCall /\ s # InFlight
  BY DEF Outcome, Answer, NoContent, BadRequest, BadGateway, NoCall, InFlight

-----------------------------------------------------------------------------
(* Steps of the API.                                                        *)

\* A COMMIT adds one row to the outbox, a DELETE takes one that no worker
\* holds, and every other step of the API leaves the outbox alone and no
\* subscription less alive.
LEMMA ApiCases ==
    ASSUME IInv, Api
    PROVE  /\ ApiNext /\ UNCHANGED <<mail, worker>>
           /\ \/ \E q \in Request : Publish(q)
              \/ \E q \in Request : Delete(q) /\ \A w \in Worker : cur[w] # req[q].id
              \/ /\ UNCHANGED outbox
                 /\ \A i \in Id : Live(i) => Live(i)'
<1>1. UNCHANGED <<mail, worker>>
  BY DEF Api
<1>2. clicked \subseteq Id
  BY DEF IInv, ApiIInv, ApiTypeOK
<1>3. ASSUME NEW q \in Request, Users(q)
      PROVE  ApiNext /\ UNCHANGED <<outbox, state>>
  BY <1>2, <1>3 DEF Users, ApiNext, Subscribe, Confirm, Unsubscribe, tables
<1>4. ASSUME NEW q \in Request, Serve(q) \/ ServeFails(q), ~ Publish(q)
      PROVE  UNCHANGED outbox /\ \A i \in Id : Live(i) => Live(i)'
  <2>1. CASE MarkConfirmed(q) \/ MarkUnknown(q)
    BY <2>1 DEF MarkConfirmed, MarkUnknown, SetConfirmed, Marked, Live
  <2>2. CASE ~ (MarkConfirmed(q) \/ MarkUnknown(q))
    <3>1. UNCHANGED <<outbox, state>>
      BY <1>4, <2>2 DEF Serve, ServeFails, RepoRefused, Begin, SaveRepo, CreateSubscription,
         AlreadyExists, CreateConfirmation, Commit, CommitUnknown, FindToken, TokenRefused,
         SubscribeFails, ConfirmFails, DeleteFails, tables
    <3>2. QED
      BY <3>1 DEF Live
  <2>3. QED
    BY <2>1, <2>2
<1>5. ASSUME Time PROVE ApiNext /\ UNCHANGED <<outbox, state>>
  BY <1>5 DEF Time, Expire, ApiNext, tables
<1>6. QED
  BY <1>1, <1>3, <1>4, <1>5 DEF Api, ApiNext, DeleteUnlocked, Live

\* The API gives out no link that was not mailed.
LEMMA ApiLinks ==
    ASSUME IInv, Api
    PROVE  LinksWereMailed'
<1> USE DEF IInv, TypeOK, ApiIInv, ApiTypeOK, LinksWereMailed, mail
<1>0. UNCHANGED copies
  BY DEF Api
<1>1. ASSUME NEW q \in Request, NEW email \in Email, NEW text \in Text,
             Subscribe(q, email, text)
      PROVE  LinksWereMailed'
  BY <1>0, <1>1 DEF Subscribe, Idle, history
<1>2. ASSUME NEW q \in Request, NEW i \in Id,
             (copies[i] > 0 /\ Confirm(q, i)) \/ Unsubscribe(q, i)
      PROVE  LinksWereMailed'
  <2>1. CASE copies[i] > 0 /\ Confirm(q, i)
    BY <1>0, <2>1 DEF Confirm, Idle, history
  <2>2. CASE Unsubscribe(q, i)
    BY <1>0, <2>2 DEF Unsubscribe, Idle, history
  <2>3. QED
    BY <1>2, <2>1, <2>2
<1>3. ASSUME NEW q \in Request, End(q), UNCHANGED clicked
      PROVE  LinksWereMailed'
  BY <1>0, <1>3 DEF End, Idle
<1>4. ASSUME NEW q \in Request, FindToken(q)
      PROVE  LinksWereMailed'
  BY <1>0, <1>4 DEF FindToken, Goto
<1>5. ASSUME NEW q \in Request,
             Begin(q) \/ SaveRepo(q) \/ CreateSubscription(q) \/ CreateConfirmation(q)
      PROVE  LinksWereMailed'
  <2>1. UNCHANGED clicked
    BY <1>5 DEF Begin, SaveRepo, CreateSubscription, CreateConfirmation, history
  <2>2. req'[q].at # "finding" /\ \A p \in Request : p # q => req'[p] = req[p]
    BY <1>5 DEF Begin, SaveRepo, CreateSubscription, CreateConfirmation, Goto
  <2>3. QED
    BY <1>0, <2>1, <2>2
<1>6. ASSUME NEW q \in Request, Serve(q) \/ ServeFails(q) \/ Delete(q)
      PROVE  LinksWereMailed'
  <2>1. \/ Begin(q) \/ SaveRepo(q) \/ CreateSubscription(q) \/ CreateConfirmation(q)
        \/ FindToken(q) \/ (End(q) /\ UNCHANGED clicked)
    BY <1>6 DEF Serve, ServeFails, Delete, RepoRefused, AlreadyExists, Commit, CommitUnknown,
       Publish, TokenRefused, MarkConfirmed, MarkUnknown, SetConfirmed, SubscribeFails,
       ConfirmFails, DeleteFails, history
  <2>2. QED
    BY <2>1, <1>3, <1>4, <1>5
<1>7. ASSUME Time PROVE LinksWereMailed'
  BY <1>0, <1>7 DEF Time, Expire, history
<1>8. QED
  BY <1>1, <1>2, <1>6, <1>7 DEF Api, Users, DeleteUnlocked

\* Steps of the API preserve the invariant.
LEMMA ApiIInvStep ==
    ASSUME IInv, Api
    PROVE  IInv'
<1>1. ApiIInv'
  BY ApiCases, NextApiIInv DEF IInv
<1>2. UNCHANGED <<call, late, copies, pc, cur, refused>>
  BY DEF Api, mail, worker
<1>3. TypeOK'
  BY <1>1, <1>2 DEF IInv, TypeOK, ApiIInv, CallTypeOK
<1>4. ControlOK' /\ OneClaimPerRow' /\ Evidence'
  BY <1>2 DEF IInv, ControlOK, OneClaimPerRow, Evidence
<1>5. ClaimedIsLive' /\ LateExists'
  <2> USE <1>2 DEF IInv, ApiIInv, ApiTypeOK, TypeOK, CallTypeOK, ClaimedIsLive, LateExists
  <2>1. ASSUME NEW q \in Request, Publish(q) PROVE ClaimedIsLive' /\ LateExists'
    <3>1. req[q].id \in Id /\ outbox[req[q].id] = "absent"
      BY <2>1 DEF Publish, IdIsFresh, HasId, OutboxTogether, Id
    <3>2. \A i \in Id : i # req[q].id => outbox'[i] = outbox[i] /\ state'[i] = state[i]
      BY <2>1 DEF Publish
    <3>3. \A w \in Worker : cur[w] # req[q].id
      BY <3>1, ConfirmerAssumption DEF Id
    <3>4. \A i \in late : i # req[q].id
      BY <3>1
    <3>5. QED
      BY <3>2, <3>3, <3>4 DEF Live
  <2>2. ASSUME NEW q \in Request, Delete(q), \A w \in Worker : cur[w] # req[q].id
        PROVE  ClaimedIsLive' /\ LateExists'
    BY <2>2 DEF Delete, Live
  <2>3. ASSUME UNCHANGED outbox, \A i \in Id : Live(i) => Live(i)'
        PROVE  ClaimedIsLive' /\ LateExists'
    BY <2>3
  <2>4. QED
    BY <2>1, <2>2, <2>3, ApiCases
<1>6. QED
  BY <1>1, <1>3, <1>4, <1>5, ApiLinks DEF IInv

-----------------------------------------------------------------------------
(* Steps of the drainers.                                                   *)

\* A worker only ever marks the outbox: the API's invariant is not disturbed.
LEMMA MarkKeepsApi ==
    ASSUME IInv, NEW w \in Worker, Marks(w, "flushing") \/ Marks(w, "waiting")
    PROVE  ApiIInv'
<1> USE DEF IInv, ApiIInv
<1>1. /\ cur[w] \in Id /\ outbox[cur[w]] = "pending" /\ Live(cur[w])
      /\ outbox' = [outbox EXCEPT ![cur[w]] = "sent"]
      /\ UNCHANGED <<state, owner, since, typed, expired, given, lock, req, history>>
  BY DEF Marks, Turn, ControlOK, ClaimedIsLive, TypeOK
<1>2. OutboxTogether'
  BY <1>1 DEF OutboxTogether, ApiTypeOK, Live
<1>3. ApiTypeOK'
  BY <1>1 DEF ApiTypeOK, history
<1>4. LocksHeld' /\ PairIsFree' /\ IdIsFresh' /\ BothStaged' /\ LinkInHand'
  BY <1>1 DEF LocksHeld, PairIsFree, IdIsFresh, BothStaged, LinkInHand, HasLock, HasId,
     Live, history
<1>5. ClickedExists' /\ OnePerKey' /\ AcceptedIsStored' /\ ConfirmedByItsLink'
      /\ ConfirmTellsTruth'
  BY <1>1 DEF ClickedExists, OnePerKey, Live, AcceptedIsStored, ConfirmedByItsLink,
     ConfirmTellsTruth, history
<1>6. QED
  BY <1>2, <1>3, <1>4, <1>5

\* So is it by steps that do not touch the tables.
LEMMA ApiKept ==
    ASSUME ApiIInv, UNCHANGED apiVars
    PROVE  ApiIInv'
  BY NextApiIInv

\* What the invariant says of the drainers, next to that of the API.
DrainersOK ==
    /\ CallTypeOK
    /\ pc \in [Worker -> {"waiting", "flushing", "sending", "marking"}]
    /\ cur \in [Worker -> Id \cup {NoRow}]
    /\ refused \subseteq Id
    /\ ControlOK /\ OneClaimPerRow /\ ClaimedIsLive
    /\ Evidence /\ LateExists /\ LinksWereMailed

\* The rows of open claims are rows, and NoRow is none.
LEMMA RowFacts ==
    ASSUME IInv
    PROVE  /\ DrainersOK /\ NoRow \notin Id
           /\ \A w \in Worker : pc[w] \in {"sending", "marking"} => cur[w] \in Id
  BY ConfirmerAssumption DEF IInv, TypeOK, DrainersOK, ControlOK, Id

\* The two halves make the whole.
LEMMA Halves ==
    /\ ApiIInv /\ DrainersOK => IInv
    /\ ApiIInv' /\ DrainersOK' => IInv'
  BY DEF IInv, TypeOK, DrainersOK, ApiIInv

USE DEF NoCall, InFlight

\* A call is answered; its email may have been handed over.
LEMMA AnswerOK ==
    ASSUME IInv, NEW w \in Worker, call[w] = InFlight,
           NEW a \in Answer, call' = [call EXCEPT ![w] = a],
           \/ copies' = [copies EXCEPT ![cur[w]] = Counted(@)]
           \/ a # NoContent /\ copies' = copies,
           UNCHANGED <<late, worker, apiVars>>
    PROVE  DrainersOK'
<1>1. DrainersOK /\ NoRow \notin Id /\ pc[w] = "sending" /\ cur[w] \in Id
  BY RowFacts DEF DrainersOK, ControlOK
<1>2. a # NoCall /\ a # InFlight
  BY OutcomeFacts
<1>3. /\ copies' \in [Id -> 0 .. MaxCopies]
      /\ \A i \in Id : copies[i] > 0 => copies'[i] > 0
      /\ a = NoContent => copies'[cur[w]] > 0
  BY <1>1, CountedFacts, ConfirmerAssumption DEF DrainersOK, CallTypeOK
<1>4. UNCHANGED <<late, pc, cur, refused, outbox, state, req, clicked>>
  BY DEF worker, apiVars, tables, history
<1>5. CallTypeOK' /\ ControlOK'
  BY <1>1, <1>2, <1>3, <1>4 DEF DrainersOK, CallTypeOK, ControlOK
<1>6. Evidence'
  <2>1. ASSUME NEW v \in Worker, call[v] = NoContent \/ pc[v] = "marking"
        PROVE  cur[v] \in Id /\ (copies[cur[v]] > 0 \/ cur[v] \in refused)
    BY <1>1, <2>1, RowFacts DEF DrainersOK, ControlOK, Evidence, NoContent
  <2>2. \A v \in Worker : v # w => call'[v] = call[v]
    BY <1>1 DEF DrainersOK, CallTypeOK
  <2>3. call'[w] = a /\ pc[w] # "marking"
    BY <1>1 DEF DrainersOK, CallTypeOK
  <2>4. QED
    BY <1>3, <1>4, <2>1, <2>2, <2>3 DEF Evidence
<1>7. OneClaimPerRow' /\ ClaimedIsLive' /\ LateExists'
  BY <1>1, <1>4 DEF DrainersOK, OneClaimPerRow, ClaimedIsLive, Live, LateExists
<1>8. LinksWereMailed'
  BY <1>1, <1>3, <1>4 DEF IInv, ApiIInv, ApiTypeOK, LinkInHand, LinksWereMailed
<1>9. QED
  BY <1>1, <1>4, <1>5, <1>6, <1>7, <1>8 DEF DrainersOK

\* A worker lets go of its row, and of the call about it.
LEMMA RollbackOK ==
    ASSUME IInv, NEW w \in Worker, Rollback(w),
           call' = [call EXCEPT ![w] = NoCall],
           late' = late \/ (pc[w] = "sending" /\ late' = late \cup {cur[w]}),
           UNCHANGED copies
    PROVE  DrainersOK'
<1> USE DEF DrainersOK
<1>1. DrainersOK /\ NoRow \notin Id /\ (pc[w] = "sending" => cur[w] \in Id)
  BY RowFacts
<1>2. /\ pc' = [pc EXCEPT ![w] = "waiting"] /\ cur' = [cur EXCEPT ![w] = NoRow]
      /\ UNCHANGED <<refused, copies, outbox, state, req, clicked>>
  BY DEF Rollback, apiVars, tables, history
<1>3. CallTypeOK' /\ ControlOK'
  BY <1>1, <1>2 DEF CallTypeOK, ControlOK
<1>4. OneClaimPerRow' /\ ClaimedIsLive'
  BY <1>1, <1>2 DEF OneClaimPerRow, ClaimedIsLive, Live
<1>5. Evidence'
  BY <1>1, <1>2 DEF Evidence, CallTypeOK, NoContent
<1>6. LateExists'
  BY <1>1, <1>2 DEF LateExists, ClaimedIsLive
<1>7. LinksWereMailed'
  BY <1>1, <1>2 DEF LinksWereMailed
<1>8. QED
  BY <1>1, <1>2, <1>3, <1>4, <1>5, <1>6, <1>7

\* A worker marks its row.
LEMMA MarksOK ==
    ASSUME IInv, NEW w \in Worker, NEW next \in {"flushing", "waiting"}, Marks(w, next)
    PROVE  DrainersOK'
<1> USE DEF DrainersOK
<1>1. DrainersOK /\ NoRow \notin Id /\ pc[w] = "marking" /\ cur[w] \in Id
  BY RowFacts DEF Marks, Turn
<1>2. /\ pc' = [pc EXCEPT ![w] = next] /\ cur' = [cur EXCEPT ![w] = NoRow]
      /\ UNCHANGED <<call, late, copies, refused, state, req, clicked>>
  BY DEF Marks, Turn, mail, history
<1>3. /\ outbox'[cur[w]] = "sent"
      /\ \A i \in Id : i # cur[w] => outbox'[i] = outbox[i]
  BY <1>1 DEF Marks, IInv, ApiIInv, ApiTypeOK
<1>4. CallTypeOK' /\ ControlOK'
  BY <1>1, <1>2 DEF CallTypeOK, ControlOK
<1>5. OneClaimPerRow'
  BY <1>1, <1>2 DEF OneClaimPerRow
<1>6. ClaimedIsLive'
  <2>1. \A v \in Worker : v # w /\ cur[v] # NoRow => cur[v] \in Id /\ cur[v] # cur[w]
    BY <1>1 DEF OneClaimPerRow
  <2>2. QED
    BY <1>1, <1>2, <1>3, <2>1 DEF ClaimedIsLive, Live
<1>7. Evidence'
  BY <1>1, <1>2 DEF Evidence, ControlOK, NoContent
<1>8. LateExists'
  BY <1>1, <1>2, <1>3 DEF LateExists, CallTypeOK
<1>9. LinksWereMailed'
  BY <1>1, <1>2 DEF LinksWereMailed
<1>10. QED
  BY <1>1, <1>2, <1>4, <1>5, <1>6, <1>7, <1>8, <1>9

\* Every step preserves the invariant.
LEMMA NextIInv == IInv /\ [Next]_vars => IInv'
<1> SUFFICES ASSUME IInv, [Next]_vars PROVE IInv'
  OBVIOUS
<1>0. DrainersOK /\ NoRow \notin Id
      /\ \A w \in Worker : pc[w] \in {"sending", "marking"} => cur[w] \in Id
  BY RowFacts
<1>1. CASE Api
  BY <1>1, ApiIInvStep
<1>2. ASSUME UNCHANGED apiVars, DrainersOK' PROVE IInv'
  BY <1>2, ApiKept, Halves DEF IInv
<1>3. ASSUME NEW w \in Worker, Answered(w) \/ Failed(w) PROVE IInv'
  <2>1. /\ call[w] = InFlight /\ UNCHANGED <<late, worker, apiVars>>
        /\ \E a \in Answer :
              /\ call' = [call EXCEPT ![w] = a]
              /\ \/ copies' = [copies EXCEPT ![cur[w]] = Counted(@)]
                 \/ a # NoContent /\ copies' = copies
    BY <1>3 DEF Answered, Failed, Accept, Reject, FailDelivery, LoseProviderReply,
       Answer, NoContent, BadRequest, BadGateway
  <2>2. QED
    BY <1>2, <2>1, AnswerOK
<1>4. ASSUME NEW w \in Worker, ReceiveTransient(w) \/ SendAborted(w) \/ FlushFails(w)
      PROVE  IInv'
  <2>1. /\ Rollback(w) /\ UNCHANGED copies
        /\ call' = [call EXCEPT ![w] = NoCall]
        /\ late' = late \/ (pc[w] = "sending" /\ late' = late \cup {cur[w]})
    <3>1. CASE FlushFails(w)
      <4>1. call[w] = NoCall
        BY <1>0, <3>1 DEF FlushFails, DrainersOK, ControlOK
      <4>2. QED
        BY <1>0, <3>1, <4>1 DEF FlushFails, mail, DrainersOK, CallTypeOK
    <3>2. CASE ReceiveTransient(w) \/ SendAborted(w)
      BY <3>2 DEF ReceiveTransient, Receive, SendAborted, Abandon
    <3>3. QED
      BY <1>4, <3>1, <3>2
  <2>2. QED
    BY <1>2, <2>1, RollbackOK DEF Rollback
<1>5. ASSUME NEW w \in Worker, MarkSent(w) \/ MarkSentUnknown(w) PROVE IInv'
  BY <1>5, MarkKeepsApi, MarksOK, Halves DEF MarkSent, MarkSentUnknown
<1> USE <1>0 DEF DrainersOK, CallTypeOK, ControlOK, OneClaimPerRow, ClaimedIsLive, Evidence,
        LateExists, LinksWereMailed, mail, Live, apiVars, tables, history
<1>6. ASSUME NEW w \in Worker, Tick(w) \/ ClaimNothing(w) PROVE IInv'
  <2>1. DrainersOK'
    BY <1>6 DEF Tick, ClaimNothing, Turn
  <2>2. QED
    BY <1>2, <1>6, <2>1 DEF Tick, ClaimNothing
<1>7. ASSUME NEW w \in Worker, NEW i \in Id, Claim(w, i) PROVE IInv'
  <2>1. /\ outbox[i] = "pending" /\ state[i] = "pending" /\ \A v \in Worker : cur[v] # i
        /\ pc[w] = "flushing" /\ pc' = [pc EXCEPT ![w] = "sending"]
        /\ cur' = [cur EXCEPT ![w] = i] /\ call' = [call EXCEPT ![w] = InFlight]
        /\ UNCHANGED <<late, copies, refused, apiVars>>
    BY <1>7 DEF Claim, Claimable, Turn, Post
  <2>2. CallTypeOK' /\ ControlOK' /\ OneClaimPerRow' /\ ClaimedIsLive'
    BY <2>1
  <2>3. Evidence' /\ LateExists' /\ LinksWereMailed'
    BY <2>1 DEF NoContent
  <2>4. QED
    BY <1>2, <2>1, <2>2, <2>3
<1>8. ASSUME NEW w \in Worker, ReceiveOk(w) \/ ReceivePermanent(w) PROVE IInv'
  <2>1. /\ pc[w] = "sending" /\ pc' = [pc EXCEPT ![w] = "marking"]
        /\ call' = [call EXCEPT ![w] = NoCall]
        /\ UNCHANGED <<late, copies, cur, apiVars>>
        /\ \/ call[w] = NoContent /\ refused' = refused
           \/ refused' = refused \cup {cur[w]}
    BY <1>8, OutcomeFacts DEF ReceiveOk, ReceivePermanent, Receive, Turn
  <2>2. cur[w] \in Id /\ refused' \subseteq Id
    BY <2>1
  <2>3. CallTypeOK' /\ ControlOK' /\ OneClaimPerRow' /\ ClaimedIsLive'
    BY <2>1
  <2>4. Evidence'
    BY <2>1, <2>2 DEF NoContent
  <2>5. LateExists' /\ LinksWereMailed'
    BY <2>1
  <2>6. QED
    BY <1>2, <2>1, <2>2, <2>3, <2>4, <2>5
<1>9. ASSUME NEW i \in Id, LateAnswer(i) PROVE IInv'
  <2>1. /\ late' \subseteq late
        /\ copies' = copies \/ copies' = [copies EXCEPT ![i] = Counted(@)]
        /\ UNCHANGED <<call, worker, apiVars>>
    BY <1>9 DEF LateAnswer, DeliverLate, DropLate
  <2>2. /\ copies' \in [Id -> 0 .. MaxCopies]
        /\ \A j \in Id : copies[j] > 0 => copies'[j] > 0
    BY <2>1, CountedFacts, ConfirmerAssumption
  <2>3. CallTypeOK' /\ ControlOK' /\ OneClaimPerRow' /\ ClaimedIsLive' /\ LateExists'
    BY <2>1, <2>2 DEF worker
  <2>4. Evidence'
    BY <2>1, <2>2 DEF worker, NoContent
  <2>5. LinksWereMailed'
    BY <2>1, <2>2 DEF IInv, ApiIInv, ApiTypeOK, LinkInHand
  <2>6. QED
    BY <1>2, <2>1, <2>2, <2>3, <2>4, <2>5 DEF worker
<1>10. CASE UNCHANGED vars
  <2>1. DrainersOK'
    BY <1>10 DEF vars, worker
  <2>2. QED
    BY <1>2, <1>10, <2>1 DEF vars
<1>11. QED
  BY <1>1, <1>3, <1>4, <1>5, <1>6, <1>7, <1>8, <1>9, <1>10 DEF Next, Flush

-----------------------------------------------------------------------------
\* The invariant holds in every reachable state.
THEOREM Invariant == Spec => []IInv
  BY InitIInv, NextIInv, PTL DEF Spec

\* Type correctness of every reachable state.
THEOREM TypeCorrect == Spec => []TypeOK
<1>1. IInv => TypeOK
  BY DEF IInv
<1>2. QED
  BY <1>1, Invariant, PTL

\* A claimed confirmation is in no other worker's hands, stays unmarked, and
\* its subscription alive, although only the row of the outbox is locked.
THEOREM ClaimsAreStable == Spec => []ClaimIsStable
<1>1. IInv => ClaimIsStable
  BY DEF IInv, ClaimedIsLive, OneClaimPerRow, ClaimIsStable
<1>2. QED
  BY <1>1, Invariant, PTL

\* Nobody is subscribed whose own confirmation email did not go out.
THEOREM NobodyConfirmedUnasked == Spec => []DoubleOptIn
<1>1. IInv => DoubleOptIn
  BY DEF IInv, ApiIInv, ConfirmedByItsLink, LinksWereMailed, DoubleOptIn
<1>2. QED
  BY <1>1, Invariant, PTL

-----------------------------------------------------------------------------
(* The contract of every outbox.                                            *)

\* Seen through the contract, steps that leave the outbox, the copies and the
\* refusals alone are no steps at all.
LEMMA QuietStep ==
    ASSUME UNCHANGED <<outbox, copies, refused>>
    PROVE  UNCHANGED Contract!vars
  BY DEF Contract!vars

\* Every step is a step the outbox contract allows.
LEMMA StepImplements == IInv /\ [Next]_vars => [Contract!Next]_(Contract!vars)
<1> SUFFICES ASSUME IInv, [Next]_vars PROVE [Contract!Next]_(Contract!vars)
  OBVIOUS
<1>0. DrainersOK /\ NoRow \notin Id
      /\ \A w \in Worker : pc[w] \in {"sending", "marking"} => cur[w] \in Id
  BY RowFacts
<1>1. ASSUME Api PROVE [Contract!Next]_(Contract!vars)
  <2>1. UNCHANGED <<copies, refused>>
    BY <1>1 DEF Api, mail, worker
  <2>2. ASSUME NEW q \in Request, Publish(q) PROVE [Contract!Next]_(Contract!vars)
    <3>1. req[q].id \in Id /\ outbox[req[q].id] = "absent"
      BY <2>2 DEF Publish, IInv, ApiIInv, ApiTypeOK, IdIsFresh, HasId, OutboxTogether, Id
    <3>2. outbox' = [i \in Id |-> IF i \in {req[q].id} THEN "pending" ELSE outbox[i]]
      BY <2>2 DEF Publish, IInv, ApiIInv, ApiTypeOK, BothStaged
    <3>3. Contract!Enqueue({req[q].id})
      BY <2>1, <3>1, <3>2 DEF Contract!Enqueue
    <3>4. QED
      BY <3>1, <3>3 DEF Contract!Next
  <2>3. ASSUME NEW q \in Request, Delete(q) PROVE [Contract!Next]_(Contract!vars)
    <3>1. req[q].id \in Id
      BY <2>3 DEF Delete, IInv, ApiIInv, LinkInHand
    <3>2. CASE Live(req[q].id)
      <4>1. outbox[req[q].id] \in {"pending", "sent"}
        BY <3>1, <3>2 DEF IInv, ApiIInv, ApiTypeOK, OutboxTogether, Live
      <4>2. outbox' = [i \in Id |-> IF i \in {req[q].id} THEN "deleted" ELSE outbox[i]]
        BY <2>3, <3>1, <3>2 DEF Delete, IInv, ApiIInv, ApiTypeOK
      <4>3. Contract!Withdraw({req[q].id})
        BY <2>1, <4>1, <4>2 DEF Contract!Withdraw
      <4>4. QED
        BY <3>1, <4>3 DEF Contract!Next
    <3>3. CASE ~ Live(req[q].id)
      BY <2>1, <2>3, <3>3, QuietStep DEF Delete
    <3>4. QED
      BY <3>2, <3>3
  <2>4. QED
    BY <1>1, <2>1, <2>2, <2>3, ApiCases, QuietStep
<1> USE <1>0 DEF DrainersOK, CallTypeOK, ControlOK
<1>2. ASSUME NEW w \in Worker, Answered(w) \/ Failed(w)
      PROVE  [Contract!Next]_(Contract!vars)
  <2>1. cur[w] \in Id /\ outbox[cur[w]] # "absent"
    BY <1>2 DEF Answered, Failed, Accept, Reject, FailDelivery, LoseProviderReply, ClaimedIsLive
  <2>2. Contract!Deliver(cur[w]) \/ UNCHANGED Contract!vars
    BY <1>2, <2>1 DEF Answered, Failed, Accept, Reject, FailDelivery, LoseProviderReply,
       worker, apiVars, tables, Contract!Deliver, Contract!Counted, Counted, Contract!vars
  <2>3. QED
    BY <2>1, <2>2 DEF Contract!Next
<1>3. ASSUME NEW w \in Worker, ReceivePermanent(w)
      PROVE  [Contract!Next]_(Contract!vars)
  <2>1. cur[w] \in Id /\ Contract!Refuse(cur[w])
    BY <1>3 DEF ReceivePermanent, Receive, Turn, ClaimedIsLive, apiVars, tables, Contract!Refuse
  <2>2. QED
    BY <2>1 DEF Contract!Next
<1>4. ASSUME NEW w \in Worker, MarkSent(w) \/ MarkSentUnknown(w)
      PROVE  [Contract!Next]_(Contract!vars)
  <2>1. cur[w] \in Id /\ Contract!Settle(cur[w])
    BY <1>4 DEF MarkSent, MarkSentUnknown, Marks, Turn, ClaimedIsLive, Evidence, mail,
       Contract!Settle
  <2>2. QED
    BY <2>1 DEF Contract!Next
<1>5. ASSUME NEW i \in Id, LateAnswer(i) PROVE [Contract!Next]_(Contract!vars)
  <2>1. Contract!Deliver(i) \/ UNCHANGED Contract!vars
    BY <1>5 DEF LateAnswer, DeliverLate, DropLate, LateExists, worker, apiVars, tables,
       Contract!Deliver, Contract!Counted, Counted, Contract!vars
  <2>2. QED
    BY <2>1 DEF Contract!Next
<1>6. ASSUME NEW w \in Worker,
             \/ Tick(w) \/ ClaimNothing(w) \/ \E i \in Id : Claim(w, i)
             \/ ReceiveOk(w) \/ ReceiveTransient(w) \/ SendAborted(w) \/ FlushFails(w)
      PROVE  UNCHANGED Contract!vars
  BY <1>6, QuietStep DEF Tick, ClaimNothing, Claim, Post, ReceiveOk, ReceiveTransient,
     SendAborted, FlushFails, Receive, Abandon, Rollback, mail, apiVars, tables
<1>7. CASE UNCHANGED vars
  BY <1>7, QuietStep DEF vars, mail, worker, apiVars, tables
<1>8. QED
  BY <1>1, <1>2, <1>3, <1>4, <1>5, <1>6, <1>7 DEF Next, Flush

\* The confirmers and the API together implement at-least-once delivery.
THEOREM ImplementsContract == Spec => Implements
<1>1. Init => Contract!Init
  BY DEF Init, ApiInit, CallInit, Contract!Init
<1>2. QED
  BY <1>1, StepImplements, Invariant, PTL DEF Spec, Implements, Contract!Spec
=============================================================================
