------------------------------ MODULE Releases ------------------------------
(***************************************************************************)
(* A release from GitHub to the mailbox: the Scanner, which queues emails  *)
(* in release_notifications, composed with the contract of that outbox.    *)
(* The contract stands for the Notifiers and notifications-svc; Notifier   *)
(* implements it.                                                          *)
(***************************************************************************)
EXTENDS Scanner

CONSTANTS
    Malformed,  \* emails whose request the service may reject
    MaxCopies   \* bound: copies are counted up to this number

ASSUME ReleasesAssumption == Malformed \subseteq Email /\ MaxCopies \in Nat \ {0}

VARIABLES
    row,        \* row[e]: the row of release_notifications for email e
    copies,     \* copies[e]: copies of e handed over
    refused,    \* the emails refused for good
    due         \* emails owed, their release having appeared, and not queued yet

Outbox == INSTANCE AtLeastOnce WITH Row <- Email

outbox == <<row, copies, refused>>
releaseVars == <<vars, outbox, due>>

ReleasesTypeOK ==
    /\ TypeOK
    /\ row \in [Email -> {"absent", "pending", "sent", "deleted"}]
    /\ copies \in [Email -> 0 .. MaxCopies]
    /\ refused \subseteq Email
    /\ due \subseteq Email

ReleasesInit == Init /\ Outbox!Init /\ due = {}

-----------------------------------------------------------------------------
Of(S) == {e \in Email : e[1] \in S}

\* What the tick has inserted becomes visible with everything else it wrote;
\* an email queued a second time is one more to send.
CommitTick(p) ==
    /\ Commit(p)
    /\ row' = [e \in Email |-> IF e \in scan[p].emails THEN "pending" ELSE row[e]]
    /\ due' = due \ scan[p].emails
    /\ UNCHANGED <<copies, refused>>

\* Deleting a subscription takes its rows of the outbox along.
UnsubscribeCascades(s) ==
    LET rows == {e \in Of({s}) : row[e] \in {"pending", "sent"}} IN
    /\ Unsubscribe(s)
    /\ IF rows = {} THEN UNCHANGED outbox ELSE Outbox!Withdraw(rows)
    /\ due' = due \ Of({s})

\* Those who were confirmed when a release appeared are owed an email, if the
\* repository had been looked at before.
PublishRelease(r) ==
    /\ Publish(r)
    /\ due' = IF seen[r] = Missing THEN due
              ELSE due \cup {<<s, latest'[r]>> : s \in Confirmed(r)}
    /\ UNCHANGED outbox

TickOn(p) ==
    /\ \/ Claim(p) \/ Lookup(p) \/ Ask(p) \/ AskPartly(p)
       \/ Store(p) \/ StoreFails(p) \/ Abort(p)
       \/ \E r \in Repo : Write(p, r)
    /\ UNCHANGED <<outbox, due>>

Others ==
    /\ \/ \E r \in Repo : Expire(r) \/ AddRepo(r)
       \/ \E s \in Sub : Confirm(s)
    /\ UNCHANGED <<outbox, due>>

Faults ==
    /\ \/ \E p \in Replica : LookupFails(p)
       \/ \E r \in Repo : Withdraw(r)
    /\ UNCHANGED <<outbox, due>>

\* The drainers at work.
Mailed(e) ==
    /\ Outbox!Deliver(e) \/ (e \in Malformed /\ Outbox!Refuse(e))
    /\ UNCHANGED <<vars, due>>

Settled(e) ==
    /\ Outbox!Settle(e)
    /\ UNCHANGED <<vars, due>>

\* Releases only ever appear and Redis answers every MGET; GitHub's answers
\* may be partial.
CalmNext ==
    \/ \E p \in Replica : TickOn(p) \/ CommitTick(p)
    \/ \E r \in Repo : PublishRelease(r)
    \/ \E s \in Sub : UnsubscribeCascades(s)
    \/ Others
    \/ \E e \in Email : Mailed(e) \/ Settled(e)

ReleasesNext == CalmNext \/ Faults

ReleasesSpec == ReleasesInit /\ [][ReleasesNext]_releaseVars

\* The fairness of the Scanner, and what the Notifier shows of its rows: each
\* is delivered or refused, and then settled.
CalmSpec ==
    /\ ReleasesInit /\ [][CalmNext]_releaseVars
    /\ Fairness
    /\ \A e \in Email :
        /\ WF_releaseVars(row[e] = "pending" /\ Mailed(e))
        /\ WF_releaseVars(Settled(e))

-----------------------------------------------------------------------------
(* Properties.                                                             *)

\* Who was confirmed when a release appeared gets an email about it, however
\* ticks fail, cached tags linger and repositories wait their turn: unless it
\* is refused for good, the subscription goes, or the next release appears.
ReleasesReachSubscribers ==
    \A e \in Sub \X Tag :
        e \in due ~> \/ copies[e] > 0 \/ e \in refused
                     \/ sub[e[1]] = "gone"
                     \/ latest[RepoOf[e[1]]] # e[2]
=============================================================================
