--------------------------- MODULE ReleasesProofs ---------------------------
(***************************************************************************)
(* Proofs about Releases: what the Scanner puts into release_notifications *)
(* fits what the drainers of that outbox expect, as far as no fault of     *)
(* GitHub or Redis has concerned the repository.  A step of Releases is a  *)
(* step of the Scanner alone, so its invariants carry over; what remains   *)
(* is that rows exist only for emails that were queued.                    *)
(***************************************************************************)
EXTENDS Releases, ScannerProofs

OutboxTypeOK ==
    /\ row \in [Email -> {"absent", "pending", "sent", "deleted"}]
    /\ copies \in [Email -> 0 .. MaxCopies]
    /\ refused \subseteq Email
    /\ due \subseteq Email

\* A row was put there by a commit of a tick.
RowsWereQueued == \A e \in Email : row[e] # "absent" => e \in queued

ReleasesInv ==
    /\ UndisturbedInv
    /\ OutboxTypeOK
    /\ RowsWereQueued

-----------------------------------------------------------------------------
\* Seen from the Scanner, the outbox and its drainers change nothing.
LEMMA ReleasesIsScanner == [ReleasesNext]_releaseVars => [Next]_vars
<1>1. ASSUME NEW p \in Replica, TickOn(p) \/ CommitTick(p) PROVE Next
  BY <1>1 DEF TickOn, CommitTick, Next, SteadyNext, Tick
<1>2. ASSUME NEW r \in Repo, PublishRelease(r) PROVE Next
  BY <1>2 DEF PublishRelease, Next, SteadyNext, Surroundings
<1>3. ASSUME NEW s \in Sub, UnsubscribeCascades(s) PROVE Next
  BY <1>3 DEF UnsubscribeCascades, Next, SteadyNext, Surroundings
<1>4. ASSUME Others \/ Faults PROVE Next
  BY <1>4 DEF Others, Faults, Next, SteadyNext, Surroundings
<1>5. ASSUME NEW e \in Email, Mailed(e) \/ Settled(e) PROVE UNCHANGED vars
  BY <1>5 DEF Mailed, Settled
<1>6. ASSUME UNCHANGED releaseVars PROVE UNCHANGED vars
  BY <1>6 DEF releaseVars
<1>7. QED
  BY <1>1, <1>2, <1>3, <1>4, <1>5, <1>6 DEF ReleasesNext, CalmNext

\* An email a tick is about to queue has no row yet.
LEMMA EmailsAreFresh ==
    ASSUME ReleasesInv, NEW p \in Replica, NEW e \in scan[p].emails,
           RepoOf[e[1]] \notin disturbed
    PROVE  row[e] = "absent"
<1>1. e \in Email
  BY TypedFacts, FieldFacts DEF ReleasesInv, UndisturbedInv, IInv
<1>2. e \notin queued
  BY EmailsAreUnqueued DEF ReleasesInv
<1>3. QED
  BY <1>1, <1>2 DEF ReleasesInv, RowsWereQueued

\* Emails once queued stay on record.
LEMMA QueuedGrows == [Next]_vars => queued \subseteq queued'
  BY DEF Next, SteadyNext, Surroundings, Tick, Claim, Lookup, LookupFails, Ask, AskPartly, Answer,
     Store, StoreFails, Write, Commit, Abort, Publish, Withdraw, Expire, AddRepo, Confirm,
     Unsubscribe, store, vars

LEMMA InitReleases == ReleasesInit => ReleasesInv
<1> SUFFICES ASSUME ReleasesInit PROVE ReleasesInv
  OBVIOUS
<1>1. UndisturbedInv
  BY InitUndisturbed DEF ReleasesInit
<1>2. OutboxTypeOK /\ RowsWereQueued
  BY ReleasesAssumption DEF ReleasesInit, Outbox!Init, OutboxTypeOK, RowsWereQueued
<1>3. QED
  BY <1>1, <1>2 DEF ReleasesInv

LEMMA NextReleases == ReleasesInv /\ [ReleasesNext]_releaseVars => ReleasesInv'
<1> SUFFICES ASSUME ReleasesInv, [ReleasesNext]_releaseVars
             PROVE  OutboxTypeOK' /\ RowsWereQueued'
  BY NextUndisturbed, ReleasesIsScanner DEF ReleasesInv
<1>0. /\ Typed /\ Typed' /\ OutboxTypeOK /\ RowsWereQueued
      /\ queued \subseteq queued'
  <2>1. UndisturbedInv /\ UndisturbedInv'
    BY NextUndisturbed, ReleasesIsScanner DEF ReleasesInv
  <2>2. QED
    BY <2>1, TypedFacts, QueuedGrows, ReleasesIsScanner DEF ReleasesInv, UndisturbedInv, IInv
<1>1. ASSUME NEW p \in Replica, CommitTick(p) PROVE OutboxTypeOK' /\ RowsWereQueued'
  <2>1. /\ row' = [e \in Email |-> IF e \in scan[p].emails THEN "pending" ELSE row[e]]
        /\ queued' = queued \cup scan[p].emails /\ due' \subseteq due
        /\ UNCHANGED <<copies, refused>>
    BY <1>1 DEF CommitTick, Commit
  <2>2. QED
    BY <1>0, <2>1 DEF OutboxTypeOK, RowsWereQueued
<1>2. ASSUME NEW r \in Repo, PublishRelease(r) PROVE OutboxTypeOK' /\ RowsWereQueued'
  <2>1. UNCHANGED outbox
    BY <1>2 DEF PublishRelease
  <2>2. due' \subseteq Email
    <3>1. latest'[r] \in Tag \cup {NoTag}
      BY <1>0 DEF Typed
    <3>2. \A s \in Confirmed(r) : <<s, latest'[r]>> \in Email
      BY <3>1 DEF Confirmed, Email
    <3>3. QED
      BY <1>0, <1>2, <3>2 DEF PublishRelease, OutboxTypeOK
  <2>3. QED
    BY <1>0, <2>1, <2>2 DEF OutboxTypeOK, RowsWereQueued, outbox
<1>3. ASSUME NEW s \in Sub, UnsubscribeCascades(s) PROVE OutboxTypeOK' /\ RowsWereQueued'
  <2>1. /\ due' \subseteq due
        /\ \/ UNCHANGED outbox
           \/ \E S \in SUBSET Email : Outbox!Withdraw(S)
    BY <1>3 DEF UnsubscribeCascades, Of
  <2>2. CASE UNCHANGED outbox
    BY <1>0, <2>1, <2>2 DEF OutboxTypeOK, RowsWereQueued, outbox
  <2>3. CASE \E S \in SUBSET Email : Outbox!Withdraw(S)
    BY <1>0, <2>1, <2>3 DEF OutboxTypeOK, RowsWereQueued, Outbox!Withdraw
  <2>4. QED
    BY <2>1, <2>2, <2>3
<1>4. ASSUME NEW e \in Email, Mailed(e) PROVE OutboxTypeOK' /\ RowsWereQueued'
  <2>1. CASE Outbox!Deliver(e)
    <3>1. \A n \in 0 .. MaxCopies : Outbox!Counted(n) \in 0 .. MaxCopies
      BY ReleasesAssumption DEF Outbox!Counted
    <3>2. copies' \in [Email -> 0 .. MaxCopies]
      BY <1>0, <2>1, <3>1 DEF OutboxTypeOK, Outbox!Deliver
    <3>3. QED
      BY <1>0, <1>4, <2>1, <3>2 DEF Mailed, OutboxTypeOK, RowsWereQueued, Outbox!Deliver, vars
  <2>2. CASE Outbox!Refuse(e)
    BY <1>0, <1>4, <2>2 DEF Mailed, OutboxTypeOK, RowsWereQueued, Outbox!Refuse, vars
  <2>3. QED
    BY <1>4, <2>1, <2>2 DEF Mailed
<1>5. ASSUME NEW e \in Email, Settled(e) PROVE OutboxTypeOK' /\ RowsWereQueued'
  BY <1>0, <1>5 DEF Settled, OutboxTypeOK, RowsWereQueued, Outbox!Settle
<1>6. ASSUME (\E p \in Replica : TickOn(p)) \/ Others \/ Faults \/ UNCHANGED releaseVars
      PROVE  OutboxTypeOK' /\ RowsWereQueued'
  BY <1>0, <1>6 DEF TickOn, Others, Faults, releaseVars, OutboxTypeOK, RowsWereQueued, outbox
<1>7. QED
  BY <1>1, <1>2, <1>3, <1>4, <1>5, <1>6 DEF ReleasesNext, CalmNext

\* The invariant of the Scanner and its outbox together.
THEOREM ReleasesInvariant == ReleasesSpec => []ReleasesInv
<1>1. ReleasesInit => ReleasesInv
  BY InitReleases
<1>2. ReleasesInv /\ [ReleasesNext]_releaseVars => ReleasesInv'
  BY NextReleases
<1>3. QED
  BY <1>1, <1>2, PTL DEF ReleasesSpec

\* Every variable of the Scanner and of its outbox keeps its type.
THEOREM ReleasesTyped == ReleasesSpec => []ReleasesTypeOK
<1>1. ReleasesInv => ReleasesTypeOK
  BY DEF ReleasesInv, UndisturbedInv, IInv, OutboxTypeOK, ReleasesTypeOK
<1>2. QED
  BY <1>1, ReleasesInvariant, PTL

\* Nobody is queued the same release twice, also with the drainers at work,
\* as long as no fault has concerned the repository.
THEOREM ReleasesOnlyNew == ReleasesSpec => []FaultsStayLocal
<1>1. ReleasesInv => FaultsStayLocal
  BY EmailsAreUnqueued DEF ReleasesInv, FaultsStayLocal, Queueing
<1>2. QED
  BY <1>1, ReleasesInvariant, PTL

-----------------------------------------------------------------------------
(* The outbox sees only what its contract allows.                          *)

\* While no tick is about to commit an email about a repository that a fault
\* concerned, every step is one the contract of the outbox provides for.  What
\* it does not provide for is an email put in again, on top of a row that is
\* waiting, was sent or is gone.
ContractKept ==
    [][(\A p \in Replica : \A e \in Queueing(p) : RepoOf[e[1]] \notin disturbed)
           => [Outbox!Next]_(Outbox!vars)]_releaseVars

LEMMA StepKeepsContract ==
    ASSUME ReleasesInv, [ReleasesNext]_releaseVars,
           \A p \in Replica : \A e \in Queueing(p) : RepoOf[e[1]] \notin disturbed
    PROVE  [Outbox!Next]_(Outbox!vars)
<1>1. ASSUME NEW p \in Replica, CommitTick(p) PROVE [Outbox!Next]_(Outbox!vars)
  <2>1. /\ row' = [e \in Email |-> IF e \in scan[p].emails THEN "pending" ELSE row[e]]
        /\ UNCHANGED <<copies, refused>>
    BY <1>1 DEF CommitTick
  <2>2. \A e \in scan[p].emails : row[e] = "absent"
    BY <1>1, EmailsAreFresh DEF CommitTick, Commit, Queueing
  <2>3. scan[p].emails \in SUBSET Email
    BY TypedFacts, FieldFacts DEF ReleasesInv, UndisturbedInv, IInv
  <2>4. CASE scan[p].emails = {}
    <3>1. row \in [Email -> {"absent", "pending", "sent", "deleted"}]
      BY DEF ReleasesInv, OutboxTypeOK
    <3>2. row' = row
      BY <2>1, <2>4, <3>1
    <3>3. QED
      BY <2>1, <3>2 DEF Outbox!vars
  <2>5. CASE scan[p].emails # {}
    <3>1. Outbox!Enqueue(scan[p].emails)
      BY <2>1, <2>2, <2>5 DEF Outbox!Enqueue
    <3>2. QED
      BY <2>3, <3>1 DEF Outbox!Next
  <2>6. QED
    BY <2>4, <2>5
<1>2. ASSUME NEW s \in Sub, UnsubscribeCascades(s) PROVE [Outbox!Next]_(Outbox!vars)
  <2>1. UNCHANGED outbox \/ \E S \in SUBSET Email : Outbox!Withdraw(S)
    BY <1>2 DEF UnsubscribeCascades, Of
  <2>2. QED
    BY <2>1 DEF Outbox!Next, Outbox!vars, outbox
<1>3. ASSUME NEW e \in Email, Mailed(e) \/ Settled(e) PROVE [Outbox!Next]_(Outbox!vars)
  BY <1>3 DEF Mailed, Settled, Outbox!Next
<1>4. ASSUME \/ \E p \in Replica : TickOn(p)
             \/ \E r \in Repo : PublishRelease(r)
             \/ Others \/ Faults \/ UNCHANGED releaseVars
      PROVE  [Outbox!Next]_(Outbox!vars)
  BY <1>4 DEF TickOn, PublishRelease, Others, Faults, releaseVars, outbox, Outbox!vars
<1>5. QED
  BY <1>1, <1>2, <1>3, <1>4 DEF ReleasesNext, CalmNext

\* The Scanner and Unsubscribe keep their side of the contract the Notifier
\* relies on, for every repository that no fault concerned.
THEOREM ScannerKeepsContract == ReleasesSpec => ContractKept
<1> DEFINE Kept == (\A p \in Replica : \A e \in Queueing(p) : RepoOf[e[1]] \notin disturbed)
                      => [Outbox!Next]_(Outbox!vars)
<1>1. ReleasesInv /\ [ReleasesNext]_releaseVars => [Kept]_releaseVars
  BY StepKeepsContract
<1>2. QED
  BY <1>1, ReleasesInvariant, PTL DEF ReleasesSpec, ContractKept
=============================================================================
