------------------------------ MODULE Scanner ------------------------------
(***************************************************************************)
(* The scanners, one per replica, with the Redis cache of GitHub releases  *)
(* they read through.  A tick is one transaction: lock the repositories    *)
(* that were checked longest ago and that nobody else holds, look their    *)
(* latest releases up (Redis first, GitHub for the misses), record each    *)
(* tag, and queue an email for every confirmed subscriber of a repository  *)
(* whose tag changed.  Row locks last from the SELECT to the end of the    *)
(* transaction, the calls to Redis and GitHub included.                    *)
(***************************************************************************)
EXTENDS Integers, FiniteSets

CONSTANTS
    Replica,    \* scanners
    Repo,       \* rows of repositories
    Sub,        \* rows of subscriptions
    RepoOf,     \* RepoOf[s]: the repository subscription s is about
    ScanLimit,  \* repositories per tick
    MaxTag      \* bound: MaxTag[r] releases of repository r

ASSUME ScannerAssumption ==
    /\ IsFiniteSet(Repo) /\ IsFiniteSet(Replica)
    /\ RepoOf \in [Sub -> Repo]
    /\ ScanLimit \in Nat \ {0}
    /\ MaxTag \in [Repo -> Nat]

Missing == -1   \* SQL NULL, no key in Redis, or no row
NoTag == 0      \* Go's "": no release, no repository, or none in GitHub's answer
Tag == UNION {1 .. MaxTag[r] : r \in Repo}

VARIABLES
    latest,     \* latest[r]: what GitHub reports as the latest release
    top,        \* top[r]: releases r ever had
    cache,      \* cache[r]: the tag in Redis
    seen,       \* seen[r]: last_seen_tag
    checked,    \* checked[r]: last_checked_at, 0 for NULL; Missing without a row
    sub,        \* sub[s]: "new", "confirmed" or "gone"
    queued,     \* history: the emails ever queued, <<subscription, tag>>
    disturbed,  \* history: the repositories a fault of GitHub or Redis concerned
    begun,      \* begun[p]: NOW() in the transaction of replica p, 0 without one
    scan        \* scan[p]: the tick of replica p

github == <<latest, top>>
store == <<seen, checked, sub, queued>>
vars == <<latest, top, cache, seen, checked, sub, queued, disturbed, begun, scan>>

Asleep == [at |-> "asleep", batch |-> {}, audience |-> {}, missed |-> {},
           tags |-> [r \in Repo |-> Missing], todo |-> {}, emails |-> {}]

Email == Sub \X (Tag \cup {NoTag})

TypeOK ==
    /\ latest \in [Repo -> Tag \cup {NoTag}]
    /\ top \in [Repo -> Tag \cup {NoTag}]
    /\ cache \in [Repo -> Tag \cup {Missing}]
    /\ seen \in [Repo -> Tag \cup {NoTag, Missing}]
    /\ checked \in [Repo -> Nat \cup {Missing}]
    /\ sub \in [Sub -> {"new", "confirmed", "gone"}]
    /\ queued \subseteq Email
    /\ disturbed \subseteq Repo
    /\ begun \in [Replica -> Nat]
    /\ scan \in [Replica ->
           [at : {"asleep", "lookup", "asking", "bypass", "caching", "writing", "commit"},
            batch : SUBSET Repo, audience : SUBSET Sub, missed : SUBSET Repo,
            tags : [Repo -> Tag \cup {NoTag, Missing}],
            todo : SUBSET Repo, emails : SUBSET Email]]

Init ==
    /\ latest = [r \in Repo |-> NoTag]
    /\ top = [r \in Repo |-> NoTag]
    /\ cache = [r \in Repo |-> Missing]
    /\ seen = [r \in Repo |-> Missing]
    /\ checked = [r \in Repo |-> Missing]
    /\ sub = [s \in Sub |-> "new"]
    /\ queued = {} /\ disturbed = {}
    /\ begun = [p \in Replica |-> 0]
    /\ scan = [p \in Replica |-> Asleep]

Confirmed(r) == {s \in Sub : sub[s] = "confirmed" /\ RepoOf[s] = r}
Known == {r \in Repo : checked[r] # Missing}

\* The points in time that matter, and the place of one among them.
Times == {checked[r] : r \in Known} \cup {begun[p] : p \in Replica}
Place(t) == Cardinality({u \in Times : 0 < u /\ u <= t})

-----------------------------------------------------------------------------
(* The tick of replica p.                                                  *)

\* Mutant: the SELECT does not look at locks.
LockedToo == Known

\* Rows another transaction holds are skipped, then the limit applies.
Unlocked == {r \in Known : \A q \in Replica : r \notin scan[q].batch}

\* Checked longest ago, never checked first, ties in any order.
Batches ==
    {batch \in SUBSET Unlocked :
        /\ Cardinality(batch) <= ScanLimit
        /\ batch # Unlocked => Cardinality(batch) = ScanLimit
        /\ \A r \in batch, q \in Unlocked \ batch : checked[r] <= checked[q]}

\* BEGIN and the SELECT.  A tick that finds nothing to lock changes nothing.
\* Times are replaced by their places: only their order counts.
Claim(p) ==
    /\ scan[p].at = "asleep"
    /\ \E batch \in Batches \ {{}} :
          scan' = [scan EXCEPT ![p] =
              [Asleep EXCEPT !.at = "lookup", !.batch = batch, !.todo = batch,
                             !.audience = UNION {Confirmed(r) : r \in batch}]]
    /\ begun' = [q \in Replica |-> IF q = p THEN Cardinality(Times \ {0}) + 1
                                            ELSE Place(begun[q])]
    /\ checked' = [r \in Repo |-> IF r \in Known THEN Place(checked[r]) ELSE Missing]
    /\ UNCHANGED <<github, cache, seen, sub, queued, disturbed>>

\* MGET: one answer for the whole batch.
Lookup(p) ==
    LET missed == {r \in scan[p].batch : cache[r] = Missing} IN
    /\ scan[p].at = "lookup"
    /\ scan' = [scan EXCEPT
           ![p].at = IF missed = {} THEN "writing" ELSE "asking",
           ![p].missed = missed,
           ![p].tags = [r \in Repo |-> IF r \in scan[p].batch THEN cache[r] ELSE Missing]]
    /\ UNCHANGED <<github, cache, store, disturbed, begun>>

\* MGET fails: GitHub is asked for everything and Redis left alone.
LookupFails(p) ==
    /\ scan[p].at = "lookup"
    /\ scan' = [scan EXCEPT ![p].at = "bypass", ![p].missed = scan[p].batch]
    /\ disturbed' = disturbed \cup scan[p].batch
    /\ UNCHANGED <<github, cache, store, begun>>

Released(S) == {r \in S : latest[r] # NoTag}

\* Mutant: repositories without a release are cached as "".
AnswerCachesAbsent(p, found) ==
    LET missed == scan[p].missed IN
    /\ scan[p].at \in {"asking", "bypass"}
    /\ scan' = [scan EXCEPT
           ![p].at = IF scan[p].at = "asking" THEN "caching" ELSE "writing",
           ![p].tags = [r \in Repo |-> IF r \in found THEN latest[r]
                                       ELSE IF r \in missed THEN NoTag ELSE scan[p].tags[r]]]
    /\ disturbed' = disturbed \cup (Released(missed) \ found)
    /\ UNCHANGED <<github, cache, store, begun>>

\* One GraphQL request, answered by 200.  Whatever has no tag in its data
\* stays out of the map, and a missing key of the map reads as "".
Answer(p, found) ==
    LET missed == scan[p].missed IN
    /\ scan[p].at \in {"asking", "bypass"}
    /\ scan' = [scan EXCEPT
           ![p].at = IF scan[p].at = "asking" /\ found # {} THEN "caching" ELSE "writing",
           ![p].missed = found,
           ![p].tags = [r \in Repo |-> IF r \in found THEN latest[r]
                                       ELSE IF r \in missed THEN NoTag ELSE scan[p].tags[r]]]
    /\ disturbed' = disturbed \cup (Released(missed) \ found)
    /\ UNCHANGED <<github, cache, store, begun>>

Ask(p) == Answer(p, Released(scan[p].missed))

\* GraphQL reports errors beside partial or null data, with status 200; the
\* client reads the data and not the errors.
AskPartly(p) ==
    \E found \in SUBSET Released(scan[p].missed) :
        found # Released(scan[p].missed) /\ Answer(p, found)

\* The pipeline of SETs for what GitHub answered.
Store(p) ==
    /\ scan[p].at = "caching"
    /\ cache' = [r \in Repo |-> IF r \in scan[p].missed THEN scan[p].tags[r] ELSE cache[r]]
    /\ scan' = [scan EXCEPT ![p].at = "writing"]
    /\ UNCHANGED <<github, store, disturbed, begun>>

\* A failed pipeline is only logged.
StoreFails(p) ==
    /\ scan[p].at = "caching"
    /\ scan' = [scan EXCEPT ![p].at = "writing"]
    /\ UNCHANGED <<github, cache, store, disturbed, begun>>

\* Mutant: every look at a known repository notifies.
NotifyAlways(r, tag) == seen[r] # Missing

ShouldNotify(r, tag) == seen[r] # Missing /\ tag # seen[r]

\* Mutant: UpsertLastSeen does not take part in the transaction.
WriteOutside(p, r) ==
    LET tag == scan[p].tags[r] IN
    /\ scan[p].at = "writing" /\ r \in scan[p].todo
    /\ seen' = [seen EXCEPT ![r] = tag]
    /\ scan' = [scan EXCEPT
           ![p].todo = @ \ {r},
           ![p].at = IF scan[p].todo = {r} THEN "commit" ELSE "writing",
           ![p].emails = IF ShouldNotify(r, tag)
                         THEN @ \cup {<<s, tag>> : s \in Confirmed(r)} ELSE @]
    /\ UNCHANGED <<github, cache, checked, sub, queued, disturbed, begun>>

\* UpsertLastSeen and, for a changed tag, InsertNotifications.
Write(p, r) ==
    LET tag == scan[p].tags[r] IN
    /\ scan[p].at = "writing" /\ r \in scan[p].todo
    /\ scan' = [scan EXCEPT
           ![p].todo = @ \ {r},
           ![p].at = IF scan[p].todo = {r} THEN "commit" ELSE "writing",
           ![p].emails = IF ShouldNotify(r, tag)
                         THEN @ \cup {<<s, tag>> : s \in Confirmed(r)} ELSE @]
    /\ UNCHANGED <<github, cache, store, disturbed, begun>>

\* Mutant: last_checked_at is not set.
NotStamped(p) == checked

\* NOW() is the time the transaction began.
Stamped(p) == [r \in Repo |-> IF r \in scan[p].batch THEN begun[p] ELSE checked[r]]

\* Also when the commit took effect but its answer is lost.
Commit(p) ==
    /\ scan[p].at = "commit"
    /\ seen' = [r \in Repo |-> IF r \in scan[p].batch THEN scan[p].tags[r] ELSE seen[r]]
    /\ checked' = Stamped(p)
    /\ queued' = queued \cup scan[p].emails
    /\ scan' = [scan EXCEPT ![p] = Asleep]
    /\ begun' = [begun EXCEPT ![p] = 0]
    /\ UNCHANGED <<github, cache, sub, disturbed>>

\* A rate limit, any other error that GitHub reports by its status or its
\* body's form, one of the database (a subscription deleted under the insert
\* among them), or the end of the process.
Abort(p) ==
    /\ scan[p].at # "asleep"
    /\ scan' = [scan EXCEPT ![p] = Asleep]
    /\ begun' = [begun EXCEPT ![p] = 0]
    /\ UNCHANGED <<github, cache, store, disturbed>>

-----------------------------------------------------------------------------
(* Around the scanners.                                                    *)

Publish(r) ==
    /\ top[r] < MaxTag[r]
    /\ top' = [top EXCEPT ![r] = @ + 1]
    /\ latest' = [latest EXCEPT ![r] = top[r] + 1]
    /\ UNCHANGED <<cache, store, disturbed, begun, scan>>

\* A release is deleted, or the repository disappears or comes back.
Withdraw(r) ==
    /\ \E tag \in (NoTag .. top[r]) \ {latest[r]} : latest' = [latest EXCEPT ![r] = tag]
    /\ disturbed' = disturbed \cup {r}
    /\ UNCHANGED <<top, cache, store, begun, scan>>

Expire(r) ==
    /\ cache[r] # Missing
    /\ cache' = [cache EXCEPT ![r] = Missing]
    /\ UNCHANGED <<github, store, disturbed, begun, scan>>

\* The first Subscribe for a repository inserts its row.
AddRepo(r) ==
    /\ r \notin Known
    /\ checked' = [checked EXCEPT ![r] = 0]
    /\ UNCHANGED <<github, cache, seen, sub, queued, disturbed, begun, scan>>

Confirm(s) ==
    /\ sub[s] = "new" /\ RepoOf[s] \in Known
    /\ sub' = [sub EXCEPT ![s] = "confirmed"]
    /\ UNCHANGED <<github, cache, seen, checked, queued, disturbed, begun, scan>>

\* The inserted rows keep their subscription from being deleted until the
\* transaction ends.
Unsubscribe(s) ==
    /\ sub[s] = "confirmed"
    /\ \A p \in Replica : \A e \in scan[p].emails : e[1] # s
    /\ sub' = [sub EXCEPT ![s] = "gone"]
    /\ UNCHANGED <<github, cache, seen, checked, queued, disturbed, begun, scan>>

-----------------------------------------------------------------------------
Tick(p) ==
    \/ Claim(p) \/ Lookup(p) \/ Ask(p) \/ Store(p) \/ StoreFails(p)
    \/ Commit(p) \/ Abort(p)
    \/ \E r \in Repo : Write(p, r)

Surroundings ==
    \/ \E r \in Repo : Publish(r) \/ Expire(r) \/ AddRepo(r)
    \/ \E s \in Sub : Confirm(s) \/ Unsubscribe(s)

\* Releases only ever appear, GitHub answers completely or with an error the
\* client sees, and Redis answers every MGET.
SteadyNext == Surroundings \/ \E p \in Replica : Tick(p)

WithdrawSpec == Init /\ [][SteadyNext \/ \E r \in Repo : Withdraw(r)]_vars
PartialSpec == Init /\ [][SteadyNext \/ \E p \in Replica : AskPartly(p)]_vars

Next ==
    \/ SteadyNext
    \/ \E p \in Replica : LookupFails(p) \/ AskPartly(p)
    \/ \E r \in Repo : Withdraw(r)

Spec == Init /\ [][Next]_vars

\* The ticker keeps firing, no stage of a tick fails for ever, keys expire,
\* and GitHub's answers are complete in the end.
Fairness ==
    /\ \A p \in Replica :
        /\ SF_vars(Claim(p))
        /\ SF_vars(Lookup(p))
        /\ SF_vars(Ask(p))
        /\ SF_vars(Store(p) \/ StoreFails(p))
        /\ \A r \in Repo : SF_vars(Write(p, r))
        /\ SF_vars(Commit(p))
        /\ <>[][~ AskPartly(p)]_vars
    /\ \A r \in Repo : WF_vars(Expire(r))

-----------------------------------------------------------------------------
(* Properties.                                                             *)

\* What the commit of p would add to the outbox.
Queueing(p) == IF scan[p].at = "commit" THEN scan[p].emails ELSE {}

\* "Only notify if a new release appears" (docs/spec.md): no subscriber is
\* queued the same tag twice, and none an email without a tag.
OnlyNewReleases ==
    \A p \in Replica : \A e \in Queueing(p) : e \notin queued /\ e[2] # NoTag

\* The same for every repository that no fault concerned: GitHub left it out
\* of no answer and took nothing back, Redis answered whenever it was looked
\* up.  What goes wrong stays with the repository it went wrong for, however
\* it shares ticks and failures with the others.
FaultsStayLocal ==
    \A p \in Replica : \A e \in Queueing(p) :
        RepoOf[e[1]] \notin disturbed => e \notin queued /\ e[2] # NoTag

\* A repository is in the hands of one tick, which has the tag to write for
\* everything it has not failed on: what Commit publishes was looked up.
LockedAndLookedUp ==
    \A p, q \in Replica :
        /\ p # q => scan[p].batch \cap scan[q].batch = {}
        /\ scan[p].at \in {"writing", "commit"}
               => \A r \in scan[p].batch : scan[p].tags[r] # Missing

\* last_seen_tag moves on only together with the emails it calls for, in one
\* step of a tick that has the row: all who were confirmed when that tick
\* began, and still are, are queued one.
ChangeReachesEverybody ==
    [][\A r \in Repo : seen'[r] # seen[r] /\ seen[r] # Missing =>
          \E p \in Replica :
             /\ r \in scan[p].batch
             /\ \A s \in scan[p].audience \cap Confirmed(r) :
                   <<s, seen'[r]>> \in queued']_vars

\* Every release is noticed, unless the next one comes first: the rotation
\* by last_checked_at reaches every repository and the cache gives way.
ReleasesNoticed ==
    \A r \in Repo : \A tag \in 1 .. MaxTag[r] :
        (r \in Known /\ latest[r] = tag) ~> (seen[r] = tag \/ latest[r] # tag)
=============================================================================
