--------------------------- MODULE NotifierProofs ---------------------------
(***************************************************************************)
(* Proofs about Notifier, for any number of replicas, rows and             *)
(* subscriptions.  IInv is the inductive invariant behind all of them.     *)
(***************************************************************************)
EXTENDS Notifier, TLAPS

\* A worker holds a row, and has a call, exactly where Flush says so.
ControlOK ==
    \A w \in Worker :
        /\ cur[w] = NoRow <=> pc[w] \in {"waiting", "flushing"}
        /\ call[w] = NoCall <=> pc[w] # "sending"

\* Workers about to mark a row know why they may.
Evidence ==
    \A w \in Worker :
        call[w] = NoContent \/ pc[w] = "marking"
            => copies[cur[w]] > 0 \/ cur[w] \in refused

\* The foreign key of the outbox: a row goes with its subscription.
ForeignKey ==
    \A r \in Row : row[r] # "absent" => (row[r] = "deleted" <=> SubOf[r] \notin sub)

\* Requests are only ever made for rows that exist.
LateExists == \A r \in late : row[r] # "absent"

IInv ==
    /\ TypeOK
    /\ ControlOK
    /\ ClaimIsStable
    /\ Evidence
    /\ ForeignKey
    /\ LateExists
    /\ SentWasHandedOver

\* Counting keeps within the bound and never returns to zero.
LEMMA CountedFacts ==
    ASSUME NEW n \in 0 .. MaxCopies
    PROVE  Counted(n) \in 1 .. MaxCopies
  BY RowsAssumption DEF Counted

\* A response is classified as its status says.
LEMMA OutcomeFacts ==
    /\ \A s \in Answer : Outcome(s) = "ok" <=> s = NoContent
    /\ \A s \in Answer : Outcome(s) = "permanent" <=> s = BadRequest
    /\ \A s \in Answer : s # NoCall /\ s # InFlight
  BY DEF Outcome, Answer, NoContent, BadRequest, BadGateway, NoCall, InFlight

\* The initial states satisfy the invariant.
LEMMA InitIInv == Init => IInv
  BY RowsAssumption, OutboxAssumption
  DEF Init, CallInit, IInv, TypeOK, CallTypeOK, ControlOK, ClaimIsStable,
      Evidence, ForeignKey, LateExists, SentWasHandedOver, NoCall, NoContent

USE DEF NoCall, InFlight

\* Every step preserves the invariant.
LEMMA NextIInv == IInv /\ [Next]_vars => IInv'
<1> SUFFICES ASSUME IInv, [Next]_vars PROVE IInv'
  OBVIOUS
<1> USE DEF IInv, TypeOK, CallTypeOK, ControlOK, ClaimIsStable, Evidence,
            ForeignKey, LateExists, SentWasHandedOver, outbox, history, callVars
<1>1. ASSUME NEW w \in Worker, Tick(w) PROVE IInv'
  BY <1>1 DEF Tick, Goto
<1>2. ASSUME NEW w \in Worker, ClaimNothing(w) PROVE IInv'
  BY <1>2 DEF ClaimNothing, Goto
<1>3. ASSUME NEW w \in Worker, NEW r \in Row, Claim(w, r) PROVE IInv'
  <2>1. TypeOK'
    BY <1>3, OutboxAssumption DEF Claim, Claimable, Goto, Post, Answer, NoContent
  <2>2. ControlOK'
    BY <1>3, OutboxAssumption DEF Claim, Claimable, Goto, Post, Answer, NoContent
  <2>3. ClaimIsStable'
    BY <1>3, OutboxAssumption DEF Claim, Claimable, Goto, Post, Answer, NoContent
  <2>4. Evidence'
    BY <1>3, OutboxAssumption DEF Claim, Claimable, Goto, Post, Answer, NoContent
  <2>5. LateExists'
    BY <1>3, OutboxAssumption DEF Claim, Claimable, Goto, Post, Answer, NoContent
  <2>6. SentWasHandedOver'
    BY <1>3, OutboxAssumption DEF Claim, Claimable, Goto, Post, Answer, NoContent
  <2>7. ForeignKey'
    BY <1>3, OutboxAssumption DEF Claim, Claimable, Goto, Post, Answer, NoContent
  <2>8. QED
    BY <2>1, <2>2, <2>3, <2>4, <2>5, <2>6, <2>7
<1>4. ASSUME NEW w \in Worker, Answered(w) PROVE IInv'
  BY <1>4, CountedFacts, OutboxAssumption
  DEF Answered, Accept, Reject, Answer, NoContent, BadRequest, BadGateway
<1>5. ASSUME NEW w \in Worker, ReceiveOk(w) PROVE IInv'
  BY <1>5, OutcomeFacts DEF ReceiveOk, Receive, Goto
<1>6. ASSUME NEW w \in Worker, ReceivePermanent(w) PROVE IInv'
  BY <1>6, OutcomeFacts DEF ReceivePermanent, Receive, Goto
<1>7. ASSUME NEW w \in Worker, Commit(w) PROVE IInv'
  <2>1. TypeOK'
    BY <1>7 DEF Commit, Publish, Goto, NoContent
  <2>2. ControlOK'
    BY <1>7 DEF Commit, Publish, Goto, NoContent
  <2>3. ClaimIsStable'
    BY <1>7 DEF Commit, Publish, Goto, NoContent
  <2>4. Evidence'
    BY <1>7 DEF Commit, Publish, Goto, NoContent
  <2>5. LateExists'
    BY <1>7 DEF Commit, Publish, Goto, NoContent
  <2>6. SentWasHandedOver'
    BY <1>7 DEF Commit, Publish, Goto, NoContent
  <2>7. ForeignKey'
    BY <1>7 DEF Commit, Publish, Goto, NoContent
  <2>8. QED
    BY <2>1, <2>2, <2>3, <2>4, <2>5, <2>6, <2>7
<1>8. ASSUME NEW w \in Worker, ClaimFails(w) PROVE IInv'
  BY <1>8 DEF ClaimFails, Rollback
<1>9. ASSUME NEW w \in Worker, Failed(w) PROVE IInv'
  BY <1>9, CountedFacts, OutboxAssumption
  DEF Failed, FailDelivery, LoseProviderReply, Answer, NoContent, BadRequest, BadGateway
<1>10. ASSUME NEW w \in Worker, ReceiveTransient(w) PROVE IInv'
  BY <1>10 DEF ReceiveTransient, Receive, Rollback, NoContent
<1>11. ASSUME NEW w \in Worker, SendAborted(w) PROVE IInv'
  BY <1>11 DEF SendAborted, Abandon, Rollback, NoContent
<1>12. ASSUME NEW w \in Worker, MarkLost(w) PROVE IInv'
  <2>1. TypeOK'
    BY <1>12 DEF MarkLost, Rollback, NoContent
  <2>2. ControlOK'
    BY <1>12 DEF MarkLost, Rollback, NoContent
  <2>3. ClaimIsStable'
    BY <1>12 DEF MarkLost, Rollback, NoContent
  <2>4. Evidence'
    BY <1>12 DEF MarkLost, Rollback, NoContent
  <2>5. LateExists'
    BY <1>12 DEF MarkLost, Rollback, NoContent
  <2>6. SentWasHandedOver'
    BY <1>12 DEF MarkLost, Rollback, NoContent
  <2>7. ForeignKey'
    BY <1>12 DEF MarkLost, Rollback, NoContent
  <2>8. QED
    BY <2>1, <2>2, <2>3, <2>4, <2>5, <2>6, <2>7
<1>13. ASSUME NEW w \in Worker, CommitUnknown(w) PROVE IInv'
  <2>1. TypeOK'
    BY <1>13 DEF CommitUnknown, Publish, Goto, NoContent
  <2>2. ControlOK'
    BY <1>13 DEF CommitUnknown, Publish, Goto, NoContent
  <2>3. ClaimIsStable'
    BY <1>13 DEF CommitUnknown, Publish, Goto, NoContent
  <2>4. Evidence'
    BY <1>13 DEF CommitUnknown, Publish, Goto, NoContent
  <2>5. LateExists'
    BY <1>13 DEF CommitUnknown, Publish, Goto, NoContent
  <2>6. SentWasHandedOver'
    BY <1>13 DEF CommitUnknown, Publish, Goto, NoContent
  <2>7. ForeignKey'
    BY <1>13 DEF CommitUnknown, Publish, Goto, NoContent
  <2>8. QED
    BY <2>1, <2>2, <2>3, <2>4, <2>5, <2>6, <2>7
<1>14. ASSUME NEW r \in Row, LateAnswer(r) PROVE IInv'
  <2>1. TypeOK'
    BY <1>14, CountedFacts, RowsAssumption DEF LateAnswer, DeliverLate, DropLate
  <2>2. ControlOK'
    BY <1>14, CountedFacts, RowsAssumption DEF LateAnswer, DeliverLate, DropLate
  <2>3. ClaimIsStable'
    BY <1>14, CountedFacts, RowsAssumption DEF LateAnswer, DeliverLate, DropLate
  <2>4. Evidence'
    <3>1. \A q \in Row : copies[q] > 0 => copies'[q] > 0
      BY <1>14, CountedFacts, RowsAssumption DEF LateAnswer, DeliverLate, DropLate
    <3>2. UNCHANGED <<call, pc, cur, refused>>
      BY <1>14 DEF LateAnswer, DeliverLate, DropLate
    <3>3. QED
      BY <3>1, <3>2, RowsAssumption DEF NoContent
  <2>5. LateExists'
    BY <1>14, CountedFacts, RowsAssumption DEF LateAnswer, DeliverLate, DropLate
  <2>6. SentWasHandedOver'
    BY <1>14, CountedFacts, RowsAssumption DEF LateAnswer, DeliverLate, DropLate
  <2>7. ForeignKey'
    BY <1>14, CountedFacts, RowsAssumption DEF LateAnswer, DeliverLate, DropLate
  <2>8. QED
    BY <2>1, <2>2, <2>3, <2>4, <2>5, <2>6, <2>7
<1>15. ASSUME NEW S \in SUBSET Row, NEW t \in Stamp, Enqueue(S, t) PROVE IInv'
  BY <1>15 DEF Enqueue
<1>16. ASSUME NEW s \in Sub, Unsubscribe(s) PROVE IInv'
  BY <1>16, OutboxAssumption DEF Unsubscribe, Owned
<1>17. CASE UNCHANGED vars
  BY <1>17 DEF vars
<1> HIDE DEF IInv
<1>18. QED
  BY <1>1, <1>2, <1>3, <1>4, <1>5, <1>6, <1>7, <1>8, <1>9, <1>10,
     <1>11, <1>12, <1>13, <1>14, <1>15, <1>16, <1>17
  DEF Next, Work, Fault, Environment

\* Type correctness of every reachable state.
THEOREM TypeCorrect == Spec => []TypeOK
<1>1. Init => IInv
  BY InitIInv
<1>2. IInv /\ [Next]_vars => IInv'
  BY NextIInv
<1>3. IInv => TypeOK
  BY DEF IInv
<1>4. QED
  BY <1>1, <1>2, <1>3, PTL DEF Spec

\* The invariant holds in every reachable state.
THEOREM Invariant == Spec => []IInv
  BY InitIInv, NextIInv, PTL DEF Spec

\* A claimed row stays pending, and is claimed by one worker only.
THEOREM ClaimsAreStable == Spec => []ClaimIsStable
<1>1. IInv => ClaimIsStable
  BY DEF IInv
<1>2. QED
  BY <1>1, Invariant, PTL

\* No row is marked sent without its email handed over or refused.
THEOREM NothingIsLost == Spec => []SentWasHandedOver
<1>1. IInv => SentWasHandedOver
  BY DEF IInv
<1>2. QED
  BY <1>1, Invariant, PTL

-----------------------------------------------------------------------------
\* Only the service adds copies: for the row of a call, which is pending,
\* or for a row whose request was abandoned.
LEMMA CopiesStep ==
    ASSUME IInv, [Next]_vars, NEW r \in Row, copies'[r] # copies[r]
    PROVE  row[r] = "pending" \/ r \in late
<1> USE DEF IInv, TypeOK, CallTypeOK, callVars
<1>1. \/ \E w \in Worker : Answered(w) \/ Failed(w)
      \/ \E q \in Row : LateAnswer(q)
  <2>1. ~ UNCHANGED copies
    OBVIOUS
  <2>2. ASSUME NEW w \in Worker, Work(w), ~ Answered(w) PROVE UNCHANGED copies
    BY <2>2 DEF Work, Tick, ClaimNothing, Claim, Post, ReceiveOk,
       ReceivePermanent, Receive, Commit, Publish
  <2>3. ASSUME NEW w \in Worker, Fault(w), ~ Failed(w) PROVE UNCHANGED copies
    BY <2>3 DEF Fault, ClaimFails, ReceiveTransient, Receive, SendAborted,
       Abandon, MarkLost, CommitUnknown, Publish
  <2>4. ASSUME Environment PROVE UNCHANGED copies
    BY <2>4 DEF Environment, Enqueue, Unsubscribe
  <2>5. QED
    BY <2>1, <2>2, <2>3, <2>4 DEF Next, vars
<1>2. ASSUME NEW w \in Worker, Answered(w) \/ Failed(w) PROVE row[r] = "pending"
  <2>1. call[w] = InFlight /\ copies' = [copies EXCEPT ![cur[w]] = Counted(@)]
    BY <1>2 DEF Answered, Failed, Accept, Reject, FailDelivery, LoseProviderReply
  <2>2. cur[w] = r
    BY <2>1
  <2>3. QED
    BY <2>1, <2>2, OutboxAssumption DEF ControlOK, ClaimIsStable
<1>3. ASSUME NEW q \in Row, LateAnswer(q) PROVE r \in late
  BY <1>3 DEF LateAnswer, DeliverLate, DropLate
<1>4. QED
  BY <1>1, <1>2, <1>3

\* A settled row gets mail only from requests abandoned before.
THEOREM OnlyLateMail == Spec => SettledRowGetsOnlyLateMail
<1>1. IInv /\ [Next]_vars
        => [\A r \in Row : copies'[r] # copies[r] /\ row[r] \in {"sent", "deleted"}
                => r \in late]_vars
  BY CopiesStep
<1>2. QED
  BY <1>1, Invariant, PTL DEF Spec, SettledRowGetsOnlyLateMail

-----------------------------------------------------------------------------
\* Seen through the contract, a step of a worker that neither publishes nor
\* learns of a refusal, and whose call adds no copy, is no step at all.
LEMMA QuietStep ==
    ASSUME NEW w \in Worker,
           \/ Tick(w) \/ ClaimNothing(w) \/ \E r \in Row : Claim(w, r)
           \/ ReceiveOk(w) \/ ClaimFails(w)
           \/ ReceiveTransient(w) \/ SendAborted(w) \/ MarkLost(w)
    PROVE  UNCHANGED Contract!vars
  BY DEF Tick, ClaimNothing, Claim, Post, ReceiveOk, ClaimFails,
         ReceiveTransient, SendAborted, MarkLost, Receive, Abandon, Rollback,
         outbox, history, callVars, Contract!vars

\* Every step of the drainers is a step the outbox contract allows.
LEMMA StepImplements == IInv /\ [Next]_vars => [Contract!Next]_(Contract!vars)
<1> SUFFICES ASSUME IInv, [Next]_vars PROVE [Contract!Next]_(Contract!vars)
  OBVIOUS
<1> USE DEF IInv, TypeOK, CallTypeOK, ControlOK, ClaimIsStable, outbox, history, callVars
<1>1. ASSUME NEW w \in Worker, Answered(w) \/ Failed(w)
      PROVE  [Contract!Next]_(Contract!vars)
  <2>1. cur[w] \in Row /\ row[cur[w]] = "pending"
    BY <1>1, OutboxAssumption
    DEF Answered, Failed, Accept, Reject, FailDelivery, LoseProviderReply
  <2>2. Contract!Deliver(cur[w]) \/ UNCHANGED Contract!vars
    BY <1>1, <2>1 DEF Answered, Failed, Accept, Reject, FailDelivery,
       LoseProviderReply, Contract!Deliver, Contract!Counted, Counted, Contract!vars
  <2>3. QED
    BY <2>1, <2>2 DEF Contract!Next
<1>2. ASSUME NEW w \in Worker, ReceivePermanent(w)
      PROVE  [Contract!Next]_(Contract!vars)
  <2>1. cur[w] \in Row /\ Contract!Refuse(cur[w])
    BY <1>2, OutboxAssumption DEF ReceivePermanent, Receive, Goto, Contract!Refuse
  <2>2. QED
    BY <2>1 DEF Contract!Next
<1>3. ASSUME NEW w \in Worker, Commit(w) \/ CommitUnknown(w)
      PROVE  [Contract!Next]_(Contract!vars)
  <2>1. cur[w] \in Row /\ Contract!Settle(cur[w])
    BY <1>3, OutboxAssumption
    DEF Commit, CommitUnknown, Publish, Goto, Evidence, Contract!Settle
  <2>2. QED
    BY <2>1 DEF Contract!Next
<1>4. ASSUME NEW r \in Row, LateAnswer(r) PROVE [Contract!Next]_(Contract!vars)
  <2>1. Contract!Deliver(r) \/ UNCHANGED Contract!vars
    BY <1>4 DEF LateAnswer, DeliverLate, DropLate, LateExists,
       Contract!Deliver, Contract!Counted, Counted, Contract!vars
  <2>2. QED
    BY <2>1 DEF Contract!Next
<1>5. ASSUME NEW S \in SUBSET Row, NEW t \in Stamp, Enqueue(S, t)
      PROVE  [Contract!Next]_(Contract!vars)
  <2>1. Contract!Enqueue(S)
    BY <1>5 DEF Enqueue, Contract!Enqueue
  <2>2. QED
    BY <2>1 DEF Contract!Next
<1>6. ASSUME NEW s \in Sub, Unsubscribe(s) PROVE [Contract!Next]_(Contract!vars)
  <2>1. CASE Owned(s) = {}
    BY <1>6, <2>1 DEF Unsubscribe, Owned, Contract!vars
  <2>2. CASE Owned(s) # {}
    <3>1. Owned(s) \in SUBSET Row
      BY DEF Owned
    <3>2. \A r \in Owned(s) : row[r] \in {"pending", "sent"}
      BY <1>6, OutboxAssumption DEF Unsubscribe, Owned, ForeignKey
    <3>3. Contract!Withdraw(Owned(s))
      BY <1>6, <2>2, <3>2 DEF Unsubscribe, Contract!Withdraw
    <3>4. QED
      BY <3>1, <3>3 DEF Contract!Next
  <2>3. QED
    BY <2>1, <2>2
<1>7. CASE UNCHANGED vars
  BY <1>7 DEF vars, Contract!vars
<1>8. QED
  BY <1>1, <1>2, <1>3, <1>4, <1>5, <1>6, <1>7, QuietStep
  DEF Next, Work, Fault, Environment

\* The drainers implement at-least-once delivery.
THEOREM ImplementsContract == Spec => Implements
<1>1. Init => Contract!Init
  BY DEF Init, CallInit, Contract!Init
<1>2. QED
  BY <1>1, StepImplements, Invariant, PTL DEF Spec, Implements, Contract!Spec

-----------------------------------------------------------------------------
(* Duplicates.  For a row whose transactions all committed: nothing is      *)
(* handed over before a worker claims it, the claiming worker makes one    *)
(* call, and nobody claims it again.                                       *)

Untouched ==
    \A r \in Row \ retried :
        row[r] \in {"absent", "pending"} /\ (\A w \in Worker : cur[w] # r)
            => copies[r] = 0

FirstCall ==
    \A w \in Worker : call[w] = InFlight /\ cur[w] \notin retried => copies[cur[w]] = 0

AbandonedIsRetried == late \subseteq retried

DInv == IInv /\ Untouched /\ FirstCall /\ AbandonedIsRetried /\ DuplicateNeedsRollback

\* Counting the first copy gives one.
LEMMA FirstCopy == Counted(0) = 1
  BY RowsAssumption DEF Counted

\* An ended transaction leaves its row among the retried ones.
LEMMA RollbackDInv ==
    ASSUME DInv, IInv', NEW w \in Worker, pc[w] # "waiting", Rollback(w),
           UNCHANGED copies,
           call' = call \/ call' = [call EXCEPT ![w] = NoCall],
           late' \subseteq late \cup ({cur[w]} \ {NoRow})
    PROVE  DInv'
<1> USE DEF DInv, IInv, TypeOK, CallTypeOK, ControlOK, ClaimIsStable, outbox,
            Untouched, FirstCall, AbandonedIsRetried, DuplicateNeedsRollback
<1>1. /\ retried' = retried \cup ({cur[w]} \ {NoRow})
      /\ cur' = [cur EXCEPT ![w] = NoRow]
      /\ UNCHANGED <<row, copies>>
  BY DEF Rollback
<1>2. Untouched'
  BY <1>1, OutboxAssumption
<1>3. FirstCall'
  <2>1. \A v \in Worker : call'[v] = InFlight => v # w
    BY <1>1
  <2>2. QED
    BY <1>1, <2>1, OutboxAssumption
<1>4. AbandonedIsRetried' /\ DuplicateNeedsRollback'
  BY <1>1
<1>5. QED
  BY <1>2, <1>3, <1>4

\* The service hands the email of a call to the provider.
LEMMA DeliveryDInv ==
    ASSUME DInv, IInv', NEW w \in Worker, call[w] = InFlight,
           copies' = [copies EXCEPT ![cur[w]] = Counted(@)],
           NEW a \in Answer, call' = [call EXCEPT ![w] = a],
           UNCHANGED <<row, pc, cur, retried, late>>
    PROVE  DInv'
<1> USE DEF DInv, IInv, TypeOK, CallTypeOK, ControlOK, ClaimIsStable, outbox,
            Untouched, FirstCall, AbandonedIsRetried, DuplicateNeedsRollback
<1>1. cur[w] \in Row
  BY OutboxAssumption
<1>2. cur[w] \notin retried => copies'[cur[w]] = 1
  BY <1>1, FirstCopy
<1>3. \A r \in Row : r # cur[w] => copies'[r] = copies[r]
  OBVIOUS
<1>4. \A v \in Worker : v # w => cur[v] # cur[w] \/ cur[v] = NoRow
  OBVIOUS
<1>5. Untouched' /\ AbandonedIsRetried' /\ DuplicateNeedsRollback'
  BY <1>1, <1>2, <1>3
<1>6. FirstCall'
  BY <1>1, <1>3, <1>4, OutboxAssumption DEF Answer, NoContent, BadRequest, BadGateway
<1>7. QED
  BY <1>5, <1>6

\* Every step preserves it.
LEMMA NextDInv == DInv /\ [Next]_vars => DInv'
<1> SUFFICES ASSUME DInv, [Next]_vars PROVE DInv'
  OBVIOUS
<1>1. IInv'
  BY NextIInv DEF DInv
<1> USE <1>1 DEF DInv, IInv, TypeOK, CallTypeOK, ControlOK, ClaimIsStable, outbox, history,
            callVars, Untouched, FirstCall, AbandonedIsRetried, DuplicateNeedsRollback
<1>2. ASSUME NEW w \in Worker, NEW r \in Row, Claim(w, r) PROVE DInv'
  <2>1. /\ r \notin retried => copies[r] = 0
        /\ cur[w] = NoRow
        /\ cur' = [cur EXCEPT ![w] = r]
        /\ call' = [call EXCEPT ![w] = InFlight]
        /\ UNCHANGED <<row, copies, retried, late>>
    BY <1>2 DEF Claim, Claimable, Post, Goto
  <2>2. Untouched' /\ FirstCall'
    BY <2>1, OutboxAssumption
  <2>3. AbandonedIsRetried' /\ DuplicateNeedsRollback'
    BY <2>1
  <2>4. QED
    BY <2>2, <2>3
<1>3. ASSUME NEW w \in Worker, Answered(w) \/ Failed(w) PROVE DInv'
  <2>1. CASE Accept(w, cur[w]) \/ LoseProviderReply(w, cur[w])
    <3>1. \E a \in Answer : call' = [call EXCEPT ![w] = a]
      BY <2>1 DEF Accept, LoseProviderReply, Answer
    <3> HIDE DEF DInv
    <3>2. QED
      BY <1>3, <2>1, <3>1, DeliveryDInv DEF Answered, Failed, Accept, LoseProviderReply
  <2>2. CASE Reject(w, cur[w]) \/ FailDelivery(w)
    BY <1>3, <2>2 DEF Answered, Failed, Reject, FailDelivery, BadRequest, BadGateway
  <2>3. QED
    BY <1>3, <2>1, <2>2 DEF Answered, Failed
<1>4. ASSUME NEW w \in Worker,
             \/ Tick(w) \/ ClaimNothing(w) \/ ReceiveOk(w)
             \/ ReceivePermanent(w)
      PROVE DInv'
  BY <1>4 DEF Tick, ClaimNothing, ReceiveOk, ReceivePermanent,
              Receive, Goto
<1>5. ASSUME NEW w \in Worker, Commit(w) \/ CommitUnknown(w) PROVE DInv'
  BY <1>5, OutboxAssumption DEF Commit, CommitUnknown, Publish, Goto
<1>6. ASSUME NEW w \in Worker,
             ClaimFails(w) \/ ReceiveTransient(w) \/ SendAborted(w) \/ MarkLost(w)
      PROVE DInv'
  <2>1. /\ pc[w] # "waiting" /\ Rollback(w) /\ UNCHANGED copies
        /\ call' = call \/ call' = [call EXCEPT ![w] = NoCall]
        /\ late' \subseteq late \cup ({cur[w]} \ {NoRow})
    BY <1>6 DEF ClaimFails, ReceiveTransient, SendAborted, MarkLost, Receive, Abandon
  <2> HIDE DEF DInv
  <2>2. QED
    BY <2>1, RollbackDInv
<1>7. ASSUME NEW r \in Row, LateAnswer(r) PROVE DInv'
  <2>1. r \in retried /\ late' \subseteq late /\ UNCHANGED <<call, row, pc, cur, retried>>
    BY <1>7 DEF LateAnswer, DeliverLate, DropLate
  <2>2. \A q \in Row : q # r => copies'[q] = copies[q]
    BY <1>7 DEF LateAnswer, DeliverLate, DropLate
  <2>3. QED
    BY <2>1, <2>2, OutboxAssumption
<1>8. ASSUME NEW S \in SUBSET Row, NEW t \in Stamp, Enqueue(S, t) PROVE DInv'
  BY <1>8 DEF Enqueue
<1>9. ASSUME NEW s \in Sub, Unsubscribe(s) PROVE DInv'
  BY <1>9 DEF Unsubscribe, Owned
<1>10. CASE UNCHANGED vars
  BY <1>10 DEF vars
<1> HIDE DEF DInv
<1>11. QED
  BY <1>2, <1>3, <1>4, <1>5, <1>6, <1>7, <1>8, <1>9, <1>10
  DEF Next, Work, Fault, Environment

\* An email goes out twice only after a transaction about it was rolled back.
THEOREM DuplicatesNeedRollback == Spec => []DuplicateNeedsRollback
<1>1. Init => DInv
  BY InitIInv DEF Init, CallInit, DInv, Untouched, FirstCall, AbandonedIsRetried,
     DuplicateNeedsRollback, NoCall, InFlight
<1>2. DInv => DuplicateNeedsRollback
  BY DEF DInv
<1>3. QED
  BY <1>1, <1>2, NextDInv, PTL DEF Spec
=============================================================================
