---------------------------- MODULE Subscription ----------------------------
(***************************************************************************)
(* The subscription API: concurrent HTTP requests that subscribe, confirm  *)
(* and unsubscribe, over the tables subscriptions, repositories and        *)
(* confirmation_notifications.  Subscribe asks GitHub, then writes three   *)
(* rows in one transaction; Confirm is two statements with nothing around  *)
(* them; Unsubscribe is one DELETE.  The Scanner appears only as a holder  *)
(* of a connection and of locks on repositories.                           *)
(*                                                                         *)
(* A subscription is known by its id, which is never used again; its two   *)
(* random tokens are as unique as the id and are stood for by it.          *)
(***************************************************************************)
EXTENDS RepoRef

CONSTANTS
    Request,    \* goroutines that serve requests
    Email,      \* addresses as they are typed
    Text,       \* what is typed where a repository is asked for
    Repo,       \* pairs of owner and name that exist on GitHub
    MaxId,      \* bound: subscriptions ever inserted
    MaxConns,   \* size of the connection pool
    Scan,       \* the transaction of the Scanner
    Nobody      \* no transaction, no pair

ASSUME ApiAssumption ==
    /\ \A t \in Text : t \in Seq(STRING)
    /\ Repo \subseteq Seq(Part) \X Seq(Part)
    /\ \A r \in Repo : IsPart(r[1]) /\ IsPart(r[2]) /\ TrimSuffix(r[2]) = r[2]
    /\ MaxId \in Nat /\ MaxConns \in Nat \ {0}
    /\ Scan \notin Request
    /\ Nobody \notin Request \cup {Scan} \cup (Email \X Repo)

Id == 1 .. MaxId

\* A subscription is unique for its email and repository.
Key == Email \X Repo

VARIABLES
    state,      \* state[i]: "absent", "pending", "confirmed" or "deleted"
    owner,      \* owner[i]: the pair of subscription i
    outbox,     \* outbox[i]: its confirmation: "absent", "pending", "sent", "deleted"
    since,      \* since[i]: created_at, on a clock that counts insertions
    typed,      \* history: typed[i]: the text that subscription i was asked for by
    expired,    \* subscriptions whose confirm token is past its time
    given,      \* ids taken from the sequence
    lock,       \* lock[r]: who holds the row of repository r
    req,        \* req[q]: the request that goroutine q serves
    clicked,    \* history: subscriptions whose confirm link was accepted
    accepted,   \* history: subscriptions answered with 202
    told,       \* history: subscriptions whose Confirm was answered with 200
    turnedAway  \* history: expired subscriptions that caused a 409

tables == <<state, owner, outbox, since, typed>>
history == <<clicked, accepted, told, turnedAway>>
apiVars == <<tables, expired, given, lock, req, history>>

Idle == [at |-> "idle", text |-> <<>>, key |-> Nobody, id |-> 0, began |-> 0, staged |-> {}]

ApiTypeOK ==
    /\ state \in [Id -> {"absent", "pending", "confirmed", "deleted"}]
    /\ owner \in [Id -> Key \cup {Nobody}]
    /\ outbox \in [Id -> {"absent", "pending", "sent", "deleted"}]
    /\ since \in [Id -> 0 .. MaxId]
    /\ typed \in [Id -> Text \cup {<<>>}]
    /\ expired \subseteq Id
    /\ given \in 0 .. MaxId
    /\ lock \in [Repo -> Request \cup {Scan, Nobody}]
    /\ req \in [Request ->
           [at : {"idle", "checking", "saving", "inserting", "queueing",
                  "committing", "finding", "marking", "leaving"},
            text : Text \cup {<<>>},
            key : (Email \X (Repo \cup {ParseRepoRef(t) : t \in Text})) \cup {Nobody},
            id : 0 .. MaxId, began : 0 .. MaxId,
            staged : SUBSET {"subscription", "confirmation"}]]
    /\ clicked \subseteq Id /\ accepted \subseteq Id
    /\ told \subseteq Id /\ turnedAway \subseteq Id

ApiInit ==
    /\ state = [i \in Id |-> "absent"]
    /\ owner = [i \in Id |-> Nobody]
    /\ outbox = [i \in Id |-> "absent"]
    /\ since = [i \in Id |-> 0]
    /\ typed = [i \in Id |-> <<>>]
    /\ expired = {} /\ given = 0
    /\ lock = [r \in Repo |-> Nobody]
    /\ req = [q \in Request |-> Idle]
    /\ clicked = {} /\ accepted = {} /\ told = {} /\ turnedAway = {}

Live(i) == state[i] \in {"pending", "confirmed"}
Scanning == \E r \in Repo : lock[r] = Scan

\* A transaction has its connection from BEGIN on; a statement outside one
\* takes a connection for itself.
InTransaction(q) ==
    req[q].at \in {"saving", "inserting", "queueing", "committing", "leaving"}
Connections ==
    Cardinality({q \in Request : InTransaction(q)}) + (IF Scanning THEN 1 ELSE 0)
CanAcquire == Connections < MaxConns

-----------------------------------------------------------------------------
(* POST /api/subscribe                                                     *)

Goto(q, from, to) ==
    /\ req[q].at = from
    /\ req' = [req EXCEPT ![q].at = to]

\* The request is answered; a transaction of its own ends with it.
End(q) ==
    /\ req' = [req EXCEPT ![q] = Idle]
    /\ lock' = [r \in Repo |-> IF lock[r] = q THEN Nobody ELSE lock[r]]

Subscribe(q, email, text) ==
    /\ req[q].at = "idle"
    /\ req' = [req EXCEPT ![q] = [Idle EXCEPT !.at = "checking", !.text = text,
                                             !.key = <<email, ParseRepoRef(text)>>]]
    /\ UNCHANGED <<tables, expired, given, lock, history>>

\* The text is no reference, or GitHub has no such repository or does not say.
RepoRefused(q) ==
    /\ req[q].at = "checking"
    /\ End(q)
    /\ UNCHANGED <<tables, expired, given, history>>

\* The repository exists: tokens are made and the transaction begins.
Begin(q) ==
    /\ req[q].at = "checking"
    /\ req[q].key \in Key
    /\ CanAcquire
    /\ req' = [req EXCEPT ![q].at = "saving", ![q].began = given]
    /\ UNCHANGED <<tables, expired, given, lock, history>>

\* Mutant: the statement takes a connection of its own.
SaveRepoOutside(q) ==
    LET r == req[q].key[2] IN
    /\ Goto(q, "saving", "inserting")
    /\ lock[r] = Nobody /\ CanAcquire
    /\ lock' = [lock EXCEPT ![r] = q]
    /\ UNCHANGED <<tables, expired, given, history>>

\* The upsert locks the row of the repository, old or new.
SaveRepo(q) ==
    LET r == req[q].key[2] IN
    /\ Goto(q, "saving", "inserting")
    /\ lock[r] = Nobody
    /\ lock' = [lock EXCEPT ![r] = q]
    /\ UNCHANGED <<tables, expired, given, history>>

\* Mutant: unique among the confirmed only.
ConfirmedConflicts(k) == {i \in Id : state[i] = "confirmed" /\ owner[i] = k}

Conflicts(k) == {i \in Id : Live(i) /\ owner[i] = k}

\* Mutant: the row is inserted outside the transaction.
CreateSubscriptionOutside(q) ==
    /\ req[q].at = "inserting"
    /\ Conflicts(req[q].key) = {}
    /\ given < MaxId
    /\ given' = given + 1
    /\ req' = [req EXCEPT ![q].at = "queueing", ![q].id = given + 1]
    /\ state' = [state EXCEPT ![given + 1] = "pending"]
    /\ owner' = [owner EXCEPT ![given + 1] = req[q].key]
    /\ UNCHANGED <<outbox, since, typed, expired, lock, history>>

CreateSubscription(q) ==
    /\ req[q].at = "inserting"
    /\ Conflicts(req[q].key) = {}
    /\ given < MaxId
    /\ given' = given + 1
    /\ req' = [req EXCEPT ![q].at = "queueing", ![q].id = given + 1,
                          ![q].staged = {"subscription"}]
    /\ UNCHANGED <<tables, expired, lock, history>>

\* The unique constraint on email and repository: 409.
AlreadyExists(q) ==
    LET conflicts == Conflicts(req[q].key) IN
    /\ req[q].at = "inserting"
    /\ conflicts # {}
    /\ End(q)
    /\ turnedAway' = turnedAway
           \cup {i \in conflicts : state[i] = "pending" /\ i \in expired}
    /\ UNCHANGED <<tables, expired, given, clicked, accepted, told>>

CreateConfirmation(q) ==
    /\ req[q].at = "queueing"
    /\ req' = [req EXCEPT ![q].at = "committing",
                          ![q].staged = @ \cup {"confirmation"}]
    /\ UNCHANGED <<tables, expired, given, lock, history>>

\* COMMIT: what the transaction has staged becomes visible.
Publish(q) ==
    LET i == req[q].id
        Staged(table) == table \in req[q].staged IN
    /\ req[q].at = "committing"
    /\ state' = IF Staged("subscription") THEN [state EXCEPT ![i] = "pending"] ELSE state
    /\ outbox' = IF Staged("confirmation") THEN [outbox EXCEPT ![i] = "pending"] ELSE outbox
    /\ owner' = [owner EXCEPT ![i] = req[q].key]
    /\ since' = [since EXCEPT ![i] = req[q].began]
    /\ typed' = [typed EXCEPT ![i] = req[q].text]
    /\ End(q)
    /\ UNCHANGED <<expired, given, clicked, told, turnedAway>>

\* 202.
Commit(q) ==
    /\ Publish(q)
    /\ accepted' = accepted \cup {req[q].id}

\* COMMIT took effect, but the answer is 500.
CommitUnknown(q) ==
    /\ Publish(q)
    /\ UNCHANGED accepted

\* Mutant: the error of COMMIT is ignored.
CommitErrorIgnored(q) ==
    /\ req[q].at = "committing"
    /\ End(q)
    /\ accepted' = accepted \cup {req[q].id}
    /\ UNCHANGED <<tables, expired, given, clicked, told, turnedAway>>

\* A statement fails, or the client is gone: rollback.
SubscribeFails(q) ==
    /\ req[q].at \in {"saving", "inserting", "queueing", "committing"}
    /\ End(q)
    /\ UNCHANGED <<tables, expired, given, history>>

-----------------------------------------------------------------------------
(* GET /api/confirm/{token}                                                *)

Confirm(q, i) ==
    /\ req[q].at = "idle"
    /\ req' = [req EXCEPT ![q] = [Idle EXCEPT !.at = "finding", !.id = i]]
    /\ UNCHANGED <<tables, expired, given, lock, history>>

\* The token is in the table and not past its time.
FindToken(q) ==
    LET i == req[q].id IN
    /\ Goto(q, "finding", "marking")
    /\ CanAcquire
    /\ state[i] = "pending" /\ i \notin expired
    /\ clicked' = clicked \cup {i}
    /\ UNCHANGED <<tables, expired, given, lock, accepted, told, turnedAway>>

\* 404 and 410.
TokenRefused(q) ==
    LET i == req[q].id IN
    /\ req[q].at = "finding"
    /\ CanAcquire
    /\ state[i] # "pending" \/ i \in expired
    /\ End(q)
    /\ UNCHANGED <<tables, expired, given, history>>

\* Mutant: the UPDATE finds its row by email and repository.
MarkedByOwner(i) == {j \in Id : Live(j) /\ owner[j] = owner[i]}

\* Mutant: the UPDATE looks at the time again, its row count is not checked.
MarkedUnexpired(i) == {j \in Id : j = i /\ Live(j) /\ j \notin expired}

\* The rows the UPDATE of subscription i finds, by its id alone.
Marked(i) == {j \in Id : j = i /\ Live(j)}

\* Mutant: the token is kept, against the CHECK of the table.
SetConfirmedWithToken(q) ==
    /\ req[q].at = "marking"
    /\ CanAcquire
    /\ state' = [j \in Id |-> IF j \in Marked(req[q].id) THEN "both" ELSE state[j]]
    /\ End(q)
    /\ UNCHANGED <<owner, outbox, since, typed, expired, given, clicked, accepted, turnedAway>>

SetConfirmed(q) ==
    /\ req[q].at = "marking"
    /\ CanAcquire
    /\ state' = [j \in Id |-> IF j \in Marked(req[q].id) THEN "confirmed" ELSE state[j]]
    /\ End(q)
    /\ UNCHANGED <<owner, outbox, since, typed, expired, given, clicked, accepted, turnedAway>>

\* 200, whether or not the UPDATE found a row.
MarkConfirmed(q) ==
    /\ SetConfirmed(q)
    /\ told' = told \cup {req[q].id}

\* The UPDATE took effect, but the answer is 500.
MarkUnknown(q) ==
    /\ SetConfirmed(q)
    /\ UNCHANGED told

ConfirmFails(q) ==
    /\ req[q].at \in {"finding", "marking"}
    /\ End(q)
    /\ UNCHANGED <<tables, expired, given, history>>

-----------------------------------------------------------------------------
(* GET /api/unsubscribe/{token}                                            *)

Unsubscribe(q, i) ==
    /\ req[q].at = "idle"
    /\ CanAcquire
    /\ req' = [req EXCEPT ![q] = [Idle EXCEPT !.at = "leaving", !.id = i]]
    /\ UNCHANGED <<tables, expired, given, lock, history>>

\* The DELETE cascades to the outbox; no row is a 404.
Delete(q) ==
    LET i == req[q].id IN
    /\ req[q].at = "leaving"
    /\ state' = IF Live(i) THEN [state EXCEPT ![i] = "deleted"] ELSE state
    /\ outbox' = IF Live(i) THEN [outbox EXCEPT ![i] = "deleted"] ELSE outbox
    /\ End(q)
    /\ UNCHANGED <<owner, since, typed, expired, given, history>>

DeleteFails(q) ==
    /\ req[q].at = "leaving"
    /\ End(q)
    /\ UNCHANGED <<tables, expired, given, history>>

-----------------------------------------------------------------------------
(* Around the requests.                                                    *)

Expire(i) ==
    /\ state[i] = "pending" /\ i \notin expired
    /\ expired' = expired \cup {i}
    /\ UNCHANGED <<tables, given, lock, req, history>>

\* A tick of the Scanner locks repositories nobody else has locked, and
\* keeps them over its own call to GitHub.
ScanLocks(R) ==
    /\ ~ Scanning /\ CanAcquire
    /\ R # {} /\ \A r \in R : lock[r] = Nobody
    /\ lock' = [r \in Repo |-> IF r \in R THEN Scan ELSE lock[r]]
    /\ UNCHANGED <<tables, expired, given, req, history>>

ScanEnds ==
    /\ Scanning
    /\ lock' = [r \in Repo |-> IF lock[r] = Scan THEN Nobody ELSE lock[r]]
    /\ UNCHANGED <<tables, expired, given, req, history>>

-----------------------------------------------------------------------------
Serve(q) ==
    \/ RepoRefused(q) \/ Begin(q) \/ SaveRepo(q) \/ CreateSubscription(q)
    \/ AlreadyExists(q) \/ CreateConfirmation(q) \/ Commit(q)
    \/ FindToken(q) \/ TokenRefused(q) \/ MarkConfirmed(q)

ServeFails(q) ==
    \/ CommitUnknown(q) \/ SubscribeFails(q) \/ MarkUnknown(q)
    \/ ConfirmFails(q) \/ DeleteFails(q)

Time == \E i \in Id : Expire(i)
Scanner == ScanEnds \/ \E R \in SUBSET Repo : ScanLocks(R)

\* Users may try any link, old or made up.
ApiNext ==
    \/ \E q \in Request :
         \/ \E email \in Email, text \in Text : Subscribe(q, email, text)
         \/ \E i \in Id : Confirm(q, i) \/ Unsubscribe(q, i)
         \/ Serve(q) \/ ServeFails(q) \/ Delete(q)
    \/ Time \/ Scanner

ApiSpec == ApiInit /\ [][ApiNext]_apiVars

\* GitHub answers, requests and scans alike; locks and connections are
\* handed out in the order of waiting.  The bound on ids is not the code's:
\* a request that meets it is taken to fail.
ApiFairness ==
    /\ WF_apiVars(ScanEnds)
    /\ \A q \in Request :
        /\ SF_apiVars(Serve(q))
        /\ WF_apiVars(Delete(q))
        /\ WF_apiVars(given = MaxId /\ req[q].at = "inserting" /\ SubscribeFails(q))

ApiFairSpec == ApiSpec /\ ApiFairness

-----------------------------------------------------------------------------
(* Properties.                                                             *)

\* The subscription and its confirmation appear and disappear together,
\* wherever Subscribe fails (README, "in a single transaction").
OutboxTogether ==
    \A i \in Id :
        /\ state[i] = "absent" <=> outbox[i] = "absent"
        /\ state[i] = "deleted" <=> outbox[i] = "deleted"

\* Requests racing for one email and repository leave one subscription.
OnePerKey ==
    \A i, j \in Id : Live(i) /\ Live(j) /\ owner[i] = owner[j] => i = j

\* A 202 is kept: the subscription is there, or was deleted by its owner.
AcceptedIsStored == \A i \in accepted : state[i] # "absent"

\* Only its own link, while valid, confirms a subscription: a Confirm that
\* is overtaken by Unsubscribe and a new Subscribe does not touch the new
\* subscription.
ConfirmedByItsLink == \A i \in Id : state[i] = "confirmed" => i \in clicked

\* A 200 to Confirm is true: confirmed, or unsubscribed since.
ConfirmTellsTruth ==
    \A i \in told : state[i] \in {"confirmed", "deleted"}

\* Every request is answered: no order of locks and connections leaves
\* requests waiting for each other or for the Scanner.
RequestsEnd == \A q \in Request : req[q].at # "idle" ~> req[q].at = "idle"

\* Whoever names a repository in a form that repo.go promises to accept asks
\* GitHub about that one, and has a subscription to that one in the end: from
\* the text over its parsing, the request and the transaction to the row.
AsksForWhatItNames ==
    \A r \in Repo :
        /\ \A q \in Request : req[q].text \in Forms(r) => req[q].key[2] = r
        /\ \A i \in Id :
              state[i] # "absent" /\ typed[i] \in Forms(r) => owner[i][2] = r

\* Whose link has expired may "subscribe again to receive a fresh
\* confirmation email" (unavailable.html).
ExpiredMaySubscribeAgain == turnedAway = {}
=============================================================================
