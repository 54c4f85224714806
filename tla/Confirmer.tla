----------------------------- MODULE Confirmer -----------------------------
(***************************************************************************)
(* Double opt-in from end to end: the subscription API, the drainers of    *)
(* confirmation_notifications, and users who know a confirm link only from *)
(* an email and an unsubscribe link only after they have confirmed.        *)
(*                                                                         *)
(* Flush is the Notifier's, save for its SELECT: it skips rows whose       *)
(* subscription has no confirm token any more, and it locks the row of the *)
(* outbox but not the subscription it reads the token from.                *)
(***************************************************************************)
EXTENDS Subscription

CONSTANTS
    Worker,         \* confirmers, one per replica
    Undeliverable,  \* subscriptions whose email the sender always refuses
    Malformed,      \* subscriptions whose request the service may reject
    MaxCopies,      \* bound: copies are counted up to this number
    NoRow           \* a worker without an open claim

ASSUME ConfirmerAssumption ==
    /\ Undeliverable \subseteq Id /\ Malformed \subseteq Id
    /\ MaxCopies \in Nat \ {0}
    /\ NoRow \notin Nat

VARIABLES
    call, late, copies, \* see Notifications
    pc,         \* pc[w]: where worker w is in Flush
    cur,        \* cur[w]: the row locked by the transaction of w, or NoRow
    refused     \* history: rows a worker was told never to retry

INSTANCE Notifications WITH Row <- Id

mail == <<call, late, copies>>
worker == <<pc, cur, refused>>
vars == <<apiVars, mail, worker>>

TypeOK ==
    /\ ApiTypeOK
    /\ CallTypeOK
    /\ pc \in [Worker -> {"waiting", "flushing", "sending", "marking"}]
    /\ cur \in [Worker -> Id \cup {NoRow}]
    /\ refused \subseteq Id

Init ==
    /\ ApiInit
    /\ CallInit
    /\ pc = [w \in Worker |-> "waiting"]
    /\ cur = [w \in Worker |-> NoRow]
    /\ refused = {}

-----------------------------------------------------------------------------
(* Flush, by worker w.                                                     *)

Turn(w, from, to) ==
    /\ pc[w] = from
    /\ pc' = [pc EXCEPT ![w] = to]

Rollback(w) ==
    /\ pc' = [pc EXCEPT ![w] = "waiting"]
    /\ cur' = [cur EXCEPT ![w] = NoRow]
    /\ UNCHANGED <<refused, apiVars>>

Tick(w) ==
    /\ Turn(w, "waiting", "flushing")
    /\ UNCHANGED <<cur, refused, apiVars, mail>>

Claimable ==
    {i \in Id : /\ outbox[i] = "pending" /\ state[i] = "pending"
                /\ \A w \in Worker : cur[w] # i}

\* Mutant: the oldest pending row is taken first and looked at afterwards.
ClaimPastLimit(w, i) ==
    /\ Turn(w, "flushing", "sending")
    /\ i \in Claimable
    /\ \A j \in Id : outbox[j] = "pending" => since[i] <= since[j]
    /\ cur' = [cur EXCEPT ![w] = i]
    /\ Post(w)
    /\ UNCHANGED <<refused, apiVars>>

Claim(w, i) ==
    /\ Turn(w, "flushing", "sending")
    /\ i \in Claimable
    /\ \A j \in Claimable : since[i] <= since[j]
    /\ cur' = [cur EXCEPT ![w] = i]
    /\ Post(w)
    /\ UNCHANGED <<refused, apiVars>>

ClaimNothing(w) ==
    /\ Turn(w, "flushing", "waiting")
    /\ Claimable = {}
    /\ UNCHANGED <<cur, refused, apiVars, mail>>

ReceiveOk(w) ==
    /\ Turn(w, "sending", "marking")
    /\ Receive(w, "ok")
    /\ UNCHANGED <<cur, refused, apiVars>>

\* Mutant: a permanent failure is retried like any other.
RetryPermanent(w) ==
    /\ pc[w] = "sending"
    /\ Receive(w, "permanent")
    /\ Rollback(w)

\* A permanent failure is counted and then treated like a success.
ReceivePermanent(w) ==
    /\ Turn(w, "sending", "marking")
    /\ Receive(w, "permanent")
    /\ refused' = refused \cup {cur[w]}
    /\ UNCHANGED <<cur, apiVars>>

\* MarkSent and COMMIT; nobody else sees a difference between the two.
Marks(w, next) ==
    /\ Turn(w, "marking", next)
    /\ outbox' = [outbox EXCEPT ![cur[w]] = "sent"]
    /\ cur' = [cur EXCEPT ![w] = NoRow]
    /\ UNCHANGED <<state, owner, since, typed, expired, given, lock, req, history, refused,
                   mail>>

MarkSent(w) == Marks(w, "flushing")

\* COMMIT took effect, but the worker is told otherwise.
MarkSentUnknown(w) == Marks(w, "waiting")

\* Mutant: the row is marked after a transient failure too.
MarkAfterTransient(w) ==
    /\ Turn(w, "sending", "marking")
    /\ Receive(w, "transient")
    /\ UNCHANGED <<cur, refused, apiVars>>

ReceiveTransient(w) ==
    /\ pc[w] = "sending"
    /\ Receive(w, "transient")
    /\ Rollback(w)

\* Mutant: the row is forgotten before the request about it is.
RollbackThenAbort(w) ==
    /\ pc[w] = "sending"
    /\ Rollback(w)
    /\ Abandon(w, cur'[w])

\* Client timeout, cancelled context, or the process dies during the call.
SendAborted(w) ==
    /\ pc[w] = "sending"
    /\ Abandon(w, cur[w])
    /\ Rollback(w)

\* The SELECT, MarkSent or COMMIT fails, or the process dies.
FlushFails(w) ==
    /\ pc[w] \in {"flushing", "marking"}
    /\ Rollback(w)
    /\ UNCHANGED mail

Flush(w) ==
    \/ Tick(w) \/ ClaimNothing(w) \/ \E i \in Id : Claim(w, i)
    \/ ReceiveOk(w) \/ ReceivePermanent(w) \/ ReceiveTransient(w)
    \/ SendAborted(w) \/ MarkSent(w) \/ MarkSentUnknown(w) \/ FlushFails(w)

\* notifications-svc, for a call under way or abandoned.
Answered(w) ==
    /\ Accept(w, cur[w]) \/ Reject(w, cur[w])
    /\ UNCHANGED <<worker, apiVars>>

Failed(w) ==
    /\ FailDelivery(w) \/ LoseProviderReply(w, cur[w])
    /\ UNCHANGED <<worker, apiVars>>

LateAnswer(i) ==
    /\ DeliverLate(i) \/ DropLate(i)
    /\ UNCHANGED <<worker, apiVars>>

-----------------------------------------------------------------------------
(* The API, with users who read their mail.                                *)

Users(q) ==
    \/ \E email \in Email, text \in Text : Subscribe(q, email, text)
    \/ \E i \in Id : copies[i] > 0 /\ Confirm(q, i)
    \/ \E i \in clicked : Unsubscribe(q, i)

\* Mutant: the delete does not wait for locked rows.
DeleteAtOnce(q) == Delete(q)

\* The cascade waits for a locked row of the outbox.
DeleteUnlocked(q) ==
    /\ \A w \in Worker : cur[w] # req[q].id
    /\ Delete(q)

Api ==
    /\ \/ \E q \in Request :
            Users(q) \/ Serve(q) \/ ServeFails(q) \/ DeleteUnlocked(q)
       \/ Time
    /\ UNCHANGED <<mail, worker>>

Next ==
    \/ Api
    \/ \E w \in Worker : Flush(w) \/ Answered(w) \/ Failed(w)
    \/ \E i \in Id : LateAnswer(i)

Spec == Init /\ [][Next]_vars

\* As for the Notifier: tickers fire, a call ends, and no stage of a
\* transaction fails every time it is tried.
Fairness ==
    \A w \in Worker :
        /\ WF_vars(Tick(w) \/ ClaimNothing(w) \/ ReceiveTransient(w) \/ SendAborted(w))
        /\ SF_vars(\E i \in Id : Claim(w, i))
        /\ SF_vars(Answered(w))
        /\ SF_vars(ReceiveOk(w) \/ ReceivePermanent(w))
        /\ SF_vars(MarkSent(w))

FairSpec == Spec /\ Fairness

-----------------------------------------------------------------------------
(* Properties.                                                             *)

\* Double opt-in: a confirmed subscription is one whose own confirmation
\* email reached the provider, however subscriptions were deleted, made
\* again and mailed again meanwhile.
DoubleOptIn == \A i \in Id : state[i] = "confirmed" => copies[i] > 0

\* A confirmation under way is one worker's, is about a subscription that
\* still exists, and was not marked meanwhile.  The SELECT locks only the row
\* of the outbox, so the subscription may have been confirmed since, but the
\* cascade of Unsubscribe waits for that row.
ClaimIsStable ==
    \A w \in Worker : cur[w] # NoRow =>
        /\ outbox[cur[w]] = "pending" /\ Live(cur[w])
        /\ \A v \in Worker : cur[v] = cur[w] => v = w

\* Whoever waits for a confirmation gets it, or was refused it for good: the
\* row is settled or its subscription gone.  A row that was mailed but not
\* marked may stay behind once the recipient has used the link; the SELECT
\* then passes over it for ever, and over it to whoever waits behind it.
ConfirmationsSettle ==
    \A i \in Id :
        outbox[i] = "pending" /\ state[i] = "pending"
            ~> outbox[i] # "pending" \/ state[i] # "pending"

\* The outbox of confirmations keeps the contract of every outbox.
Contract == INSTANCE AtLeastOnce WITH Row <- Id, row <- outbox
Implements == Contract!Spec
=============================================================================
