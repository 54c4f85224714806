------------------------------ MODULE Notifier ------------------------------
(***************************************************************************)
(* The drainers of the release_notifications outbox, one per replica.  On  *)
(* each tick Flush repeats one transaction until the outbox looks empty or *)
(* something fails: lock the oldest pending row that nobody holds, call    *)
(* notifications-svc about it, set sent_at, commit.  The row lock is held  *)
(* across the call; rollback, and the end of the process, release it.      *)
(*                                                                         *)
(* Around the drainers: the Scanner commits new rows, and Unsubscribe      *)
(* deletes a subscription, which cascades to its rows and therefore waits  *)
(* for those that are locked.                                              *)
(***************************************************************************)
EXTENDS Notifications

CONSTANTS
    Sub,        \* subscriptions
    SubOf,      \* SubOf[r]: the subscription row r belongs to
    Stamp,      \* values of created_at
    NoRow       \* a worker without an open claim

ASSUME OutboxAssumption ==
    /\ SubOf \in [Row -> Sub]
    /\ Stamp \subseteq Nat
    /\ NoRow \notin Row

VARIABLES
    row,        \* row[r]: "absent", "pending", "sent", "deleted" (committed)
    stamp,      \* stamp[r]: created_at of row r
    sub,        \* the subscriptions that exist
    pc,         \* pc[w]: where worker w is in Flush
    cur,        \* cur[w]: the row locked by the transaction of w, or NoRow
    refused,    \* history: rows a worker was told never to retry
    retried     \* history: rows whose transaction did not commit

outbox == <<row, stamp, sub>>
history == <<refused, retried>>
vars == <<row, stamp, sub, pc, cur, refused, retried, call, late, copies>>

TypeOK ==
    /\ CallTypeOK
    /\ row \in [Row -> {"absent", "pending", "sent", "deleted"}]
    /\ stamp \in [Row -> Stamp \cup {0}]
    /\ sub \subseteq Sub
    /\ pc \in [Worker -> {"waiting", "flushing", "sending", "marking"}]
    /\ cur \in [Worker -> Row \cup {NoRow}]
    /\ refused \subseteq Row
    /\ retried \subseteq Row

Init ==
    /\ CallInit
    /\ row = [r \in Row |-> "absent"]
    /\ stamp = [r \in Row |-> 0]
    /\ sub = Sub
    /\ pc = [w \in Worker |-> "waiting"]
    /\ cur = [w \in Worker |-> NoRow]
    /\ refused = {} /\ retried = {}

-----------------------------------------------------------------------------
\* The transaction of w ends without a commit, and with it the flush.
Rollback(w) ==
    /\ pc' = [pc EXCEPT ![w] = "waiting"]
    /\ cur' = [cur EXCEPT ![w] = NoRow]
    /\ retried' = retried \cup ({cur[w]} \ {NoRow})
    /\ UNCHANGED <<outbox, refused>>

Goto(w, from, to) ==
    /\ pc[w] = from
    /\ pc' = [pc EXCEPT ![w] = to]

Tick(w) ==
    /\ Goto(w, "waiting", "flushing")
    /\ UNCHANGED <<outbox, cur, history, callVars>>

\* Mutant: no SKIP LOCKED, no wait for the holder.
ClaimableByAll == {r \in Row : row[r] = "pending"}

\* FOR UPDATE SKIP LOCKED sees the rows that nobody holds.
Claimable == {r \in Row : row[r] = "pending" /\ \A w \in Worker : cur[w] # r}

Claim(w, r) ==
    /\ Goto(w, "flushing", "sending")
    /\ r \in Claimable
    /\ \A q \in Claimable : stamp[r] <= stamp[q]
    /\ cur' = [cur EXCEPT ![w] = r]
    /\ Post(w)
    /\ UNCHANGED <<outbox, history>>

ClaimNothing(w) ==
    /\ Goto(w, "flushing", "waiting")
    /\ Claimable = {}
    /\ UNCHANGED <<outbox, cur, history, callVars>>

ReceiveOk(w) ==
    /\ Goto(w, "sending", "marking")
    /\ Receive(w, "ok")
    /\ UNCHANGED <<outbox, cur, history>>

\* Mutant: a permanent failure is retried like any other.
RetryPermanent(w) ==
    /\ pc[w] = "sending"
    /\ Receive(w, "permanent")
    /\ Rollback(w)

\* A permanent failure is counted and then treated like a success.
ReceivePermanent(w) ==
    /\ Goto(w, "sending", "marking")
    /\ Receive(w, "permanent")
    /\ refused' = refused \cup {cur[w]}
    /\ UNCHANGED <<outbox, cur, retried>>

\* MarkSent and COMMIT, between which nobody else sees a difference: the
\* update becomes visible and the lock is released.
Publish(w) ==
    /\ row' = [row EXCEPT ![cur[w]] = "sent"]
    /\ cur' = [cur EXCEPT ![w] = NoRow]
    /\ UNCHANGED <<stamp, sub, history, callVars>>

Commit(w) ==
    /\ Goto(w, "marking", "flushing")
    /\ Publish(w)

-----------------------------------------------------------------------------
(* What can go wrong.                                                      *)

\* BEGIN or the SELECT fails.
ClaimFails(w) ==
    /\ pc[w] = "flushing"
    /\ Rollback(w)
    /\ UNCHANGED callVars

\* Mutant: the row is marked after a transient failure too.
MarkAfterTransient(w) ==
    /\ Goto(w, "sending", "marking")
    /\ Receive(w, "transient")
    /\ UNCHANGED <<outbox, cur, history>>

ReceiveTransient(w) ==
    /\ pc[w] = "sending"
    /\ Receive(w, "transient")
    /\ Rollback(w)

\* Mutant: the row is forgotten before the request about it is.
RollbackThenAbort(w) ==
    /\ pc[w] = "sending"
    /\ Rollback(w)
    /\ Abandon(w, cur'[w])

\* Client timeout, cancelled context, or the process dies during the call.
SendAborted(w) ==
    /\ pc[w] = "sending"
    /\ Abandon(w, cur[w])
    /\ Rollback(w)

\* MarkSent fails, COMMIT is refused, or the process dies before it.
MarkLost(w) ==
    /\ pc[w] = "marking"
    /\ Rollback(w)
    /\ UNCHANGED callVars

\* COMMIT took effect but the worker is told otherwise.
CommitUnknown(w) ==
    /\ Goto(w, "marking", "waiting")
    /\ Publish(w)

-----------------------------------------------------------------------------
(* The rest of the system.                                                 *)

\* A scan transaction commits: at most one new row per subscription, all
\* with the time at which that transaction began.
Enqueue(S, t) ==
    /\ S # {}
    /\ \A r \in S : row[r] = "absent" /\ SubOf[r] \in sub
    /\ \A q, r \in S : SubOf[q] = SubOf[r] => q = r
    /\ row' = [r \in Row |-> IF r \in S THEN "pending" ELSE row[r]]
    /\ stamp' = [r \in Row |-> IF r \in S THEN t ELSE stamp[r]]
    /\ UNCHANGED <<sub, pc, cur, history, callVars>>

Owned(s) == {r \in Row : SubOf[r] = s /\ row[r] # "absent"}

\* Mutant: the delete does not wait for locked rows.
UnsubscribeAtOnce(s) ==
    /\ s \in sub
    /\ sub' = sub \ {s}
    /\ row' = [r \in Row |-> IF r \in Owned(s) THEN "deleted" ELSE row[r]]
    /\ UNCHANGED <<stamp, pc, cur, history, callVars>>

\* The cascade has to lock every row of the subscription.
Unsubscribe(s) ==
    /\ s \in sub
    /\ \A w \in Worker : cur[w] \notin Owned(s)
    /\ sub' = sub \ {s}
    /\ row' = [r \in Row |-> IF r \in Owned(s) THEN "deleted" ELSE row[r]]
    /\ UNCHANGED <<stamp, pc, cur, history, callVars>>

\* The answer of the service to the call of w.
Answered(w) ==
    /\ Accept(w, cur[w]) \/ Reject(w, cur[w])
    /\ UNCHANGED <<outbox, pc, cur, history>>

Failed(w) ==
    /\ FailDelivery(w) \/ LoseProviderReply(w, cur[w])
    /\ UNCHANGED <<outbox, pc, cur, history>>

LateAnswer(r) ==
    /\ DeliverLate(r) \/ DropLate(r)
    /\ UNCHANGED <<outbox, pc, cur, history>>

-----------------------------------------------------------------------------
Work(w) ==
    \/ Tick(w) \/ ClaimNothing(w) \/ \E r \in Row : Claim(w, r)
    \/ Answered(w) \/ ReceiveOk(w) \/ ReceivePermanent(w)
    \/ Commit(w)

Fault(w) ==
    \/ ClaimFails(w) \/ Failed(w) \/ ReceiveTransient(w) \/ SendAborted(w)
    \/ MarkLost(w) \/ CommitUnknown(w)

Environment ==
    \/ \E S \in SUBSET Row, t \in Stamp : Enqueue(S, t)
    \/ \E s \in Sub : Unsubscribe(s)

Next ==
    \/ \E w \in Worker : Work(w) \/ Fault(w)
    \/ \E r \in Row : LateAnswer(r)
    \/ Environment

Spec == Init /\ [][Next]_vars

\* The ticker never stops firing; a call ends, by the client's timeout if
\* not before; and no stage of a transaction fails every time it is tried:
\* faults pass, the outbox retries for ever.
Fairness ==
    \A w \in Worker :
        /\ WF_vars(Tick(w) \/ ClaimNothing(w) \/ ReceiveTransient(w) \/ SendAborted(w))
        /\ SF_vars(\E r \in Row : Claim(w, r))
        /\ SF_vars(Answered(w))
        /\ SF_vars(ReceiveOk(w) \/ ReceivePermanent(w))
        /\ SF_vars(Commit(w))

FairSpec == Spec /\ Fairness

-----------------------------------------------------------------------------
(* Properties.                                                             *)

\* While a worker's transaction holds a row, that row stays pending and no
\* other worker holds it: the email under way is still wanted, and it is
\* nobody else's business (the SKIP LOCKED claim and the cascade's wait).
ClaimIsStable ==
    \A w \in Worker : cur[w] # NoRow =>
        /\ row[cur[w]] = "pending"
        /\ SubOf[cur[w]] \in sub
        /\ \A v \in Worker : cur[v] = cur[w] => v = w

\* sent_at is set only on a row whose email was handed over, or whose
\* request was refused for good: nothing is lost silently.
SentWasHandedOver ==
    \A r \in Row : row[r] = "sent" => copies[r] > 0 \/ r \in refused

\* Once a row is sent or deleted its recipient gets nothing more about it,
\* save from a request a worker had abandoned before: a worker never starts
\* or keeps a call for a settled row.
SettledRowGetsOnlyLateMail ==
    [][\A r \in Row : copies'[r] # copies[r] /\ row[r] \in {"sent", "deleted"}
            => r \in late]_vars

\* An email goes out twice only if a transaction that had claimed its row
\* did not commit: racing replicas alone never send a notification twice
\* (what README.md says of SKIP LOCKED), nor does a request that lingers in
\* the service unless its worker has given up on it.
DuplicateNeedsRollback == \A r \in Row : copies[r] > 1 => r \in retried

\* Every row is eventually sent, dropped or deleted with its subscription.
EveryRowSettles ==
    \A r \in Row : row[r] = "pending" ~> row[r] \in {"sent", "deleted"}

\* A recipient the provider refuses does not keep the others waiting: rows
\* of good recipients still settle.
HealthyRowsSettle ==
    \A r \in Row \ Undeliverable :
        row[r] = "pending" ~> row[r] \in {"sent", "deleted"}

\* The outbox contract: seen through row, copies and refused, the drainers
\* deliver every row at least once before they settle it.
Contract == INSTANCE AtLeastOnce
Implements == Contract!Spec
=============================================================================
