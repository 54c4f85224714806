---------------------------- MODULE ScannerProofs ----------------------------
(***************************************************************************)
(* Proofs about Scanner, for any number of replicas, repositories,         *)
(* subscriptions and releases, under every fault of Spec.  IInv is what     *)
(* the locks and the stages of a tick give.  UndisturbedInv adds what is    *)
(* true of a repository no fault has concerned: its tags only ever grow,    *)
(* along the way from GitHub over the cache and the tick to last_seen_tag.  *)
(***************************************************************************)
EXTENDS Scanner, FiniteSetTheorems, TLAPS

\* A tick works on what it has locked, and asks only for what it misses.
TickOK ==
    \A p \in Replica :
        /\ scan[p].at = "asleep" => scan[p] = Asleep
        /\ scan[p].todo \subseteq scan[p].batch
        /\ scan[p].missed \subseteq scan[p].batch
        /\ scan[p].at = "commit" => scan[p].todo = {}
        /\ scan[p].at \in {"asking", "bypass"}
               => \A r \in scan[p].batch \ scan[p].missed : scan[p].tags[r] # Missing
        /\ scan[p].at = "caching" =>
              /\ \A r \in scan[p].batch : scan[p].tags[r] # Missing
              /\ \A r \in scan[p].missed : scan[p].tags[r] # NoTag
        /\ \A e \in scan[p].emails : RepoOf[e[1]] \in scan[p].batch \ scan[p].todo

\* Emails are made in "writing" only.
EmailsLast ==
    \A p \in Replica :
        scan[p].at \in {"lookup", "asking", "bypass", "caching"} =>
            scan[p].todo = scan[p].batch

\* Whoever a tick found confirmed is confirmed still, or gone; everybody who
\* is has an email waiting for each repository done with that calls for one.
AudienceServed ==
    \A p \in Replica :
        /\ \A s \in scan[p].audience : sub[s] # "new"
        /\ \A r \in scan[p].batch \ scan[p].todo :
              ShouldNotify(r, scan[p].tags[r]) =>
                  \A s \in scan[p].audience \cap Confirmed(r) :
                      <<s, scan[p].tags[r]>> \in scan[p].emails

IInv ==
    /\ TypeOK
    /\ LockedAndLookedUp
    /\ TickOK
    /\ EmailsLast
    /\ AudienceServed

-----------------------------------------------------------------------------
(* Of repositories that no fault has concerned.                             *)

\* GitHub is ahead of the cache, and the cache of last_seen_tag.
TagsGrow ==
    \A r \in Repo \ disturbed :
        /\ latest[r] = top[r]
        /\ seen[r] <= latest[r]
        /\ cache[r] # Missing => seen[r] <= cache[r] /\ cache[r] <= latest[r]

\* What a tick has looked up is no older than what it replaces, and no newer
\* than what the next tick will find.
LookedUpInOrder ==
    \A p \in Replica :
        /\ scan[p].at = "bypass" => scan[p].batch \subseteq disturbed
        /\ scan[p].at = "lookup" => \A r \in Repo : scan[p].tags[r] = Missing
        /\ scan[p].at \in {"asking", "caching"} =>
              \A r \in scan[p].missed \ disturbed : cache[r] = Missing
        /\ \A r \in scan[p].batch \ disturbed : scan[p].tags[r] # Missing =>
              /\ seen[r] <= scan[p].tags[r] /\ scan[p].tags[r] <= latest[r]
              /\ cache[r] # Missing => scan[p].tags[r] <= cache[r]

\* An email is of the tag its tick is about to record, which is a new one.
EmailsAreNews ==
    \A p \in Replica : \A e \in scan[p].emails :
        RepoOf[e[1]] \notin disturbed =>
            e[2] = scan[p].tags[RepoOf[e[1]]] /\ seen[RepoOf[e[1]]] < e[2] /\ e[2] # NoTag

\* What was ever queued has been recorded.
QueuedIsSeen ==
    \A e \in queued : RepoOf[e[1]] \notin disturbed => e[2] <= seen[RepoOf[e[1]]]

UndisturbedInv ==
    /\ IInv
    /\ TagsGrow
    /\ LookedUpInOrder
    /\ EmailsAreNews
    /\ QueuedIsSeen

-----------------------------------------------------------------------------
(* Types.                                                                   *)

Stage == {"asleep", "lookup", "asking", "bypass", "caching", "writing", "commit"}
TickType == [at : Stage, batch : SUBSET Repo, audience : SUBSET Sub, missed : SUBSET Repo,
             tags : [Repo -> Tag \cup {NoTag, Missing}],
             todo : SUBSET Repo, emails : SUBSET Email]

\* A tag has a number; no number stands for a missing one.
LEMMA TagFacts ==
    /\ Tag \subseteq Nat \ {0}
    /\ \A r \in Repo : \A n \in Tag : n < MaxTag[r] => n + 1 \in Tag
    /\ \A r \in Repo : 0 < MaxTag[r] => 1 \in Tag
    /\ \A n \in Tag \cup {NoTag} : NoTag .. n \subseteq Tag \cup {NoTag}
    /\ Missing \notin Tag \cup {NoTag}
<1> USE ScannerAssumption DEF Tag, NoTag, Missing
<1>1. /\ Tag \subseteq Nat \ {0}
      /\ \A r \in Repo : \A n \in Tag : n < MaxTag[r] => n + 1 \in Tag
      /\ \A r \in Repo : 0 < MaxTag[r] => 1 \in Tag
  OBVIOUS
<1>2. ASSUME NEW n \in Tag \cup {NoTag} PROVE NoTag .. n \subseteq Tag \cup {NoTag}
  OBVIOUS
<1>3. QED
  BY <1>1, <1>2

\* What a tick remembers changes within its type.
LEMMA TickFacts ==
    /\ Asleep \in TickType
    /\ \A B \in SUBSET Repo, A \in SUBSET Sub :
          [Asleep EXCEPT !.at = "lookup", !.batch = B, !.todo = B, !.audience = A] \in TickType
    /\ \A t \in TickType :
          /\ [t EXCEPT !.at = "writing"] \in TickType
          /\ [t EXCEPT !.at = "bypass", !.missed = t.batch] \in TickType
          /\ \A a \in Stage, M \in SUBSET Repo, f \in [Repo -> Tag \cup {NoTag, Missing}] :
                [t EXCEPT !.at = a, !.missed = M, !.tags = f] \in TickType
          /\ \A r \in Repo, a \in Stage, E \in SUBSET Email :
                [t EXCEPT !.todo = @ \ {r}, !.at = a, !.emails = E] \in TickType
<1> USE DEF TickType, Stage
<1>1. Asleep \in TickType
  BY DEF Asleep
<1>2. ASSUME NEW B \in SUBSET Repo, NEW A \in SUBSET Sub
      PROVE  [Asleep EXCEPT !.at = "lookup", !.batch = B, !.todo = B, !.audience = A] \in TickType
  BY DEF Asleep
<1>3. ASSUME NEW t \in TickType
      PROVE  /\ [t EXCEPT !.at = "writing"] \in TickType
             /\ [t EXCEPT !.at = "bypass", !.missed = t.batch] \in TickType
  OBVIOUS
<1>4. ASSUME NEW t \in TickType, NEW a \in Stage, NEW M \in SUBSET Repo,
             NEW f \in [Repo -> Tag \cup {NoTag, Missing}]
      PROVE  [t EXCEPT !.at = a, !.missed = M, !.tags = f] \in TickType
  OBVIOUS
<1>5. ASSUME NEW t \in TickType, NEW r \in Repo, NEW a \in Stage, NEW E \in SUBSET Email
      PROVE  [t EXCEPT !.todo = @ \ {r}, !.at = a, !.emails = E] \in TickType
  OBVIOUS
<1> HIDE DEF TickType, Stage
<1>6. QED
  BY <1>1, <1>2, <1>3, <1>4, <1>5

\* A time has a place among those that matter, which are finitely many.
LEMMA PlaceFacts ==
    /\ Cardinality(Times \ {0}) \in Nat
    /\ \A t : Place(t) \in Nat
<1> DEFINE rows == {checked[r] : r \in Known}
           ticks == {begun[p] : p \in Replica}
<1>1. IsFiniteSet(rows)
  <2>1. IsFiniteSet(Known)
    BY ScannerAssumption, FS_Subset DEF Known
  <2>2. [r \in Known |-> checked[r]] \in Surjection(Known, rows)
    BY DEF Surjection
  <2>3. QED
    BY <2>1, <2>2, FS_Surjection
<1>2. IsFiniteSet(ticks)
  <2>1. [p \in Replica |-> begun[p]] \in Surjection(Replica, ticks)
    BY DEF Surjection
  <2>2. QED
    BY <2>1, ScannerAssumption, FS_Surjection
<1>3. IsFiniteSet(Times)
  BY <1>1, <1>2, FS_Union DEF Times
<1>4. ASSUME NEW S \in SUBSET Times PROVE Cardinality(S) \in Nat
  BY <1>3, <1>4, FS_Subset, FS_CardinalityType
<1>5. QED
  BY <1>4 DEF Place

\* A tick takes up repositories that nobody has.
LEMMA BatchFacts ==
    ASSUME NEW batch \in Batches
    PROVE  /\ batch \subseteq Repo
           /\ \A r \in batch, q \in Replica : r \notin scan[q].batch
  BY DEF Batches, Unlocked, Known

\* Both kinds of answer are an Answer.
LEMMA AskIsAnswer ==
    ASSUME NEW p \in Replica, Ask(p) \/ AskPartly(p)
    PROVE  \E found \in SUBSET Released(scan[p].missed) : Answer(p, found)
  BY DEF Ask, AskPartly

\* TypeOK with the type of a tick named.
Typed ==
    /\ latest \in [Repo -> Tag \cup {NoTag}]
    /\ top \in [Repo -> Tag \cup {NoTag}]
    /\ cache \in [Repo -> Tag \cup {Missing}]
    /\ seen \in [Repo -> Tag \cup {NoTag, Missing}]
    /\ checked \in [Repo -> Nat \cup {Missing}]
    /\ sub \in [Sub -> {"new", "confirmed", "gone"}]
    /\ queued \subseteq Email
    /\ disturbed \subseteq Repo
    /\ begun \in [Replica -> Nat]
    /\ scan \in [Replica -> TickType]

LEMMA TypedFacts == (TypeOK <=> Typed) /\ (TypeOK' <=> Typed')
  BY DEF TypeOK, Typed, TickType, Stage

\* The fields of a tick have the types of fields.
LEMMA FieldFacts ==
    ASSUME Typed, NEW p \in Replica
    PROVE  /\ scan[p] \in TickType
           /\ scan[p].batch \subseteq Repo /\ scan[p].todo \subseteq Repo
           /\ scan[p].missed \subseteq Repo /\ scan[p].audience \subseteq Sub
           /\ scan[p].emails \subseteq Email
           /\ scan[p].tags \in [Repo -> Tag \cup {NoTag, Missing}]
           /\ scan[p].at \in Stage
  BY DEF Typed, TickType

\* The initial states have the types.
LEMMA InitTypeOK == Init => TypeOK
<1>1. Asleep \in TickType
  BY TickFacts
<1> SUFFICES ASSUME Init PROVE Typed
  BY TypedFacts
<1>2. scan \in [Replica -> TickType]
  BY <1>1 DEF Init
<1>3. /\ latest \in [Repo -> Tag \cup {NoTag}] /\ top \in [Repo -> Tag \cup {NoTag}]
      /\ cache \in [Repo -> Tag \cup {Missing}]
      /\ seen \in [Repo -> Tag \cup {NoTag, Missing}]
      /\ checked \in [Repo -> Nat \cup {Missing}]
  BY DEF Init
<1>4. /\ sub \in [Sub -> {"new", "confirmed", "gone"}] /\ queued \subseteq Email
      /\ disturbed \subseteq Repo /\ begun \in [Replica -> Nat]
  BY DEF Init
<1>5. QED
  BY <1>2, <1>3, <1>4 DEF Typed

\* Every step keeps the types.
LEMMA NextTypeOK == IInv /\ [Next]_vars => TypeOK'
<1> SUFFICES ASSUME IInv, [Next]_vars PROVE Typed'
  BY TypedFacts
<1>0. Typed
  BY TypedFacts DEF IInv
<1> USE <1>0, TagFacts, TickFacts DEF Typed, github, store
<1>1. ASSUME NEW p \in Replica, Claim(p) PROVE Typed'
  <2>1. PICK batch \in Batches : scan' = [scan EXCEPT ![p] =
              [Asleep EXCEPT !.at = "lookup", !.batch = batch, !.todo = batch,
                             !.audience = UNION {Confirmed(r) : r \in batch}]]
    BY <1>1 DEF Claim
  <2>2. UNION {Confirmed(r) : r \in batch} \subseteq Sub /\ batch \subseteq Repo
    BY BatchFacts DEF Confirmed
  <2>3. scan' \in [Replica -> TickType]
    BY <2>1, <2>2
  <2>4. Cardinality(Times \ {0}) + 1 \in Nat
    <3> HIDE TagFacts, TickFacts, <1>0 DEF Typed
    <3>1. QED
      BY PlaceFacts
  <2>5. begun' \in [Replica -> Nat] /\ checked' \in [Repo -> Nat \cup {Missing}]
    <3> HIDE TagFacts, TickFacts, <1>0 DEF Typed
    <3>1. QED
      BY <1>1, <2>4, PlaceFacts DEF Claim
  <2>6. QED
    BY <1>1, <2>3, <2>5 DEF Claim
<1>2. ASSUME NEW p \in Replica, Lookup(p) PROVE Typed'
  <2>1. /\ {r \in scan[p].batch : cache[r] = Missing} \in SUBSET Repo
        /\ [r \in Repo |-> IF r \in scan[p].batch THEN cache[r] ELSE Missing]
              \in [Repo -> Tag \cup {NoTag, Missing}]
        /\ "writing" \in Stage /\ "asking" \in Stage
    BY FieldFacts DEF Stage
  <2>2. QED
    BY <1>2, <2>1 DEF Lookup
<1>3. ASSUME NEW p \in Replica, LookupFails(p) PROVE Typed'
  BY <1>3, FieldFacts DEF LookupFails
<1>4. ASSUME NEW p \in Replica, Ask(p) \/ AskPartly(p) PROVE Typed'
  <2>1. PICK found \in SUBSET Released(scan[p].missed) : Answer(p, found)
    BY <1>4, AskIsAnswer
  <2>2. /\ found \in SUBSET Repo /\ Released(scan[p].missed) \subseteq Repo
        /\ [r \in Repo |-> IF r \in found THEN latest[r]
                           ELSE IF r \in scan[p].missed THEN NoTag ELSE scan[p].tags[r]]
              \in [Repo -> Tag \cup {NoTag, Missing}]
        /\ "writing" \in Stage /\ "caching" \in Stage
    BY FieldFacts DEF Stage, Released
  <2>3. QED
    BY <2>1, <2>2 DEF Answer
<1>5. ASSUME NEW p \in Replica, Store(p) PROVE Typed'
  <2>1. \A r \in scan[p].missed : scan[p].tags[r] \in Tag
    <3>1. /\ scan[p].missed \subseteq scan[p].batch
          /\ \A r \in scan[p].batch : scan[p].tags[r] # Missing
          /\ \A r \in scan[p].missed : scan[p].tags[r] # NoTag
      BY <1>5 DEF Store, IInv, TickOK
    <3>2. \A r \in Repo : scan[p].tags[r] \in Tag \cup {NoTag, Missing}
      BY FieldFacts
    <3>3. QED
      BY <3>1, <3>2, FieldFacts
  <2>2. QED
    BY <1>5, <2>1, FieldFacts DEF Store
<1>6. ASSUME NEW p \in Replica, StoreFails(p) PROVE Typed'
  BY <1>6 DEF StoreFails
<1>7. ASSUME NEW p \in Replica, NEW r \in Repo, Write(p, r) PROVE Typed'
  <2>1. {<<s, scan[p].tags[r]>> : s \in Confirmed(r)} \subseteq Email
    <3>1. r \in scan[p].batch /\ scan[p].tags[r] # Missing
      BY <1>7 DEF Write, IInv, TickOK, LockedAndLookedUp
    <3>2. scan[p].tags[r] \in Tag \cup {NoTag}
      <4>1. scan[p].tags \in [Repo -> Tag \cup {NoTag, Missing}]
        BY FieldFacts
      <4> HIDE TagFacts, TickFacts, <1>0 DEF Typed
      <4>2. QED
        BY <3>1, <4>1
    <3>3. ASSUME NEW s \in Confirmed(r) PROVE <<s, scan[p].tags[r]>> \in Email
      BY <3>2 DEF Confirmed, Email
    <3>4. QED
      BY <3>3
  <2>2. QED
    BY <1>7, <2>1, FieldFacts DEF Write, Stage
<1>8. ASSUME NEW p \in Replica, Commit(p) PROVE Typed'
  BY <1>8, FieldFacts DEF Commit, Stamped
<1>9. ASSUME NEW p \in Replica, Abort(p) PROVE Typed'
  BY <1>9 DEF Abort
<1>10. ASSUME NEW r \in Repo, Publish(r) PROVE Typed'
  <2>1. top[r] + 1 \in Tag
    <3>1. top[r] < MaxTag[r] /\ top[r] \in Tag \cup {NoTag}
      BY <1>10 DEF Publish
    <3> HIDE TagFacts, TickFacts, <1>0
    <3>2. CASE top[r] = NoTag
      BY <3>1, <3>2, ScannerAssumption DEF Tag, NoTag
    <3>3. CASE top[r] \in Tag
      BY <3>1, <3>3, TagFacts
    <3>4. QED
      BY <3>1, <3>2, <3>3
  <2>2. QED
    BY <1>10, <2>1 DEF Publish
<1>11. ASSUME NEW r \in Repo, Withdraw(r) PROVE Typed'
  BY <1>11 DEF Withdraw
<1>12. ASSUME NEW r \in Repo, Expire(r) PROVE Typed'
  BY <1>12 DEF Expire
<1>13. ASSUME NEW r \in Repo, AddRepo(r) PROVE Typed'
  BY <1>13 DEF AddRepo
<1>14. ASSUME NEW s \in Sub, Confirm(s) \/ Unsubscribe(s) PROVE Typed'
  BY <1>14 DEF Confirm, Unsubscribe
<1>15. CASE UNCHANGED vars
  BY <1>15 DEF vars
<1>16. QED
  BY <1>1, <1>2, <1>3, <1>4, <1>5, <1>6, <1>7, <1>8, <1>9, <1>10, <1>11, <1>12, <1>13,
     <1>14, <1>15 DEF Next, SteadyNext, Surroundings, Tick

-----------------------------------------------------------------------------
(* What each action does to the ticks.                                      *)

Quiet(p) ==
    /\ \A q \in Replica \ {p} : scan'[q] = scan[q]
    /\ UNCHANGED <<latest, top, sub>>

\* What stays of a tick that goes on.
Keeps(p) ==
    /\ scan'[p].batch = scan[p].batch
    /\ scan'[p].audience = scan[p].audience
    /\ UNCHANGED <<seen, queued>>

ClaimDoes(p, batch) ==
    /\ Quiet(p)
    /\ UNCHANGED <<cache, seen, queued, disturbed>>
    /\ scan'[p].at = "lookup" /\ scan'[p].batch = batch /\ scan'[p].todo = batch
    /\ scan'[p].missed = {} /\ scan'[p].emails = {}
    /\ scan'[p].tags = [r \in Repo |-> Missing]
    /\ scan'[p].audience = UNION {Confirmed(r) : r \in batch}

LookupDoes(p) ==
    /\ Quiet(p) /\ Keeps(p)
    /\ scan'[p].todo = scan[p].todo /\ scan'[p].emails = scan[p].emails
    /\ UNCHANGED <<cache, disturbed>>
    /\ scan[p].at = "lookup" /\ scan'[p].at \in {"asking", "writing"}
    /\ scan'[p].at = "writing" => scan'[p].missed = {}
    /\ scan'[p].missed = {r \in scan[p].batch : cache[r] = Missing}
    /\ scan'[p].tags = [r \in Repo |-> IF r \in scan[p].batch THEN cache[r] ELSE Missing]

LookupFailsDoes(p) ==
    /\ Quiet(p) /\ Keeps(p)
    /\ scan'[p].todo = scan[p].todo /\ scan'[p].emails = scan[p].emails
    /\ UNCHANGED cache
    /\ disturbed' = disturbed \cup scan[p].batch
    /\ scan[p].at = "lookup" /\ scan'[p].at = "bypass"
    /\ scan'[p].missed = scan[p].batch /\ scan'[p].tags = scan[p].tags

AnswerDoes(p, found) ==
    /\ Quiet(p) /\ Keeps(p)
    /\ scan'[p].todo = scan[p].todo /\ scan'[p].emails = scan[p].emails
    /\ UNCHANGED cache
    /\ disturbed' = disturbed \cup (Released(scan[p].missed) \ found)
    /\ scan[p].at \in {"asking", "bypass"} /\ scan'[p].at \in {"caching", "writing"}
    /\ scan'[p].at = "caching" => scan[p].at = "asking"
    /\ scan'[p].missed = found
    /\ scan'[p].tags = [r \in Repo |-> IF r \in found THEN latest[r]
                                       ELSE IF r \in scan[p].missed THEN NoTag
                                       ELSE scan[p].tags[r]]

StoreDoes(p) ==
    /\ Quiet(p) /\ Keeps(p)
    /\ scan'[p].todo = scan[p].todo /\ scan'[p].emails = scan[p].emails
    /\ disturbed' = disturbed
    /\ scan[p].at = "caching" /\ scan'[p].at = "writing"
    /\ scan'[p].missed = scan[p].missed /\ scan'[p].tags = scan[p].tags
    /\ \/ cache' = cache
       \/ cache' = [r \in Repo |-> IF r \in scan[p].missed THEN scan[p].tags[r] ELSE cache[r]]

WriteDoes(p, r) ==
    /\ Quiet(p) /\ Keeps(p)
    /\ UNCHANGED <<cache, disturbed>>
    /\ scan[p].at = "writing" /\ r \in scan[p].todo
    /\ scan'[p].at = IF scan[p].todo = {r} THEN "commit" ELSE "writing"
    /\ scan'[p].todo = scan[p].todo \ {r}
    /\ scan'[p].missed = scan[p].missed /\ scan'[p].tags = scan[p].tags
    /\ scan'[p].emails = IF ShouldNotify(r, scan[p].tags[r])
                         THEN scan[p].emails \cup {<<s, scan[p].tags[r]>> : s \in Confirmed(r)}
                         ELSE scan[p].emails

\* Commit and Abort leave an empty tick behind.
EndDoes(p) ==
    /\ Quiet(p)
    /\ UNCHANGED <<cache, disturbed>>
    /\ scan'[p] = Asleep
    /\ scan'[p].at = "asleep" /\ scan'[p].batch = {} /\ scan'[p].todo = {}
    /\ scan'[p].missed = {} /\ scan'[p].emails = {} /\ scan'[p].audience = {}
    /\ Abort(p) => UNCHANGED <<seen, queued>>

LEMMA Effects ==
    ASSUME Typed, NEW p \in Replica
    PROVE  /\ Claim(p) => \E batch \in Batches : ClaimDoes(p, batch)
           /\ Lookup(p) => LookupDoes(p)
           /\ LookupFails(p) => LookupFailsDoes(p)
           /\ \A found \in SUBSET Repo : Answer(p, found) => AnswerDoes(p, found)
           /\ Store(p) \/ StoreFails(p) => StoreDoes(p)
           /\ \A r \in Repo : Write(p, r) => WriteDoes(p, r)
           /\ Commit(p) \/ Abort(p) => EndDoes(p)
<1>0. scan \in [Replica -> TickType]
  BY DEF Typed
<1> USE <1>0 DEF store, github, Quiet, Keeps
<1>1. Claim(p) => \E batch \in Batches : ClaimDoes(p, batch)
  <2> SUFFICES ASSUME Claim(p) PROVE \E batch \in Batches : ClaimDoes(p, batch)
    OBVIOUS
  <2>1. PICK batch \in Batches : scan' = [scan EXCEPT ![p] =
              [Asleep EXCEPT !.at = "lookup", !.batch = batch, !.todo = batch,
                             !.audience = UNION {Confirmed(r) : r \in batch}]]
    BY DEF Claim
  <2>2. ClaimDoes(p, batch)
    BY <2>1 DEF Claim, ClaimDoes, Asleep
  <2>3. QED
    BY <2>2
<1>2. Lookup(p) => LookupDoes(p)
  <2> SUFFICES ASSUME Lookup(p) PROVE LookupDoes(p)
    OBVIOUS
  <2> DEFINE missed == {r \in scan[p].batch : cache[r] = Missing}
  <2>1. /\ scan'[p] = [scan[p] EXCEPT
               !.at = IF missed = {} THEN "writing" ELSE "asking",
               !.missed = missed,
               !.tags = [r \in Repo |-> IF r \in scan[p].batch THEN cache[r] ELSE Missing]]
        /\ Quiet(p) /\ UNCHANGED <<cache, seen, queued, disturbed>> /\ scan[p].at = "lookup"
    BY DEF Lookup
  <2>2. QED
    BY <2>1 DEF LookupDoes, TickType
<1>3. LookupFails(p) => LookupFailsDoes(p)
  BY DEF LookupFails, LookupFailsDoes, TickType
<1>4. ASSUME NEW found \in SUBSET Repo, Answer(p, found) PROVE AnswerDoes(p, found)
  <2>1. /\ scan'[p] = [scan[p] EXCEPT
               !.at = IF scan[p].at = "asking" /\ found # {} THEN "caching" ELSE "writing",
               !.missed = found,
               !.tags = [r \in Repo |-> IF r \in found THEN latest[r]
                                        ELSE IF r \in scan[p].missed THEN NoTag
                                        ELSE scan[p].tags[r]]]
        /\ Quiet(p) /\ UNCHANGED <<cache, seen, queued>>
        /\ disturbed' = disturbed \cup (Released(scan[p].missed) \ found)
        /\ scan[p].at \in {"asking", "bypass"}
    BY <1>4 DEF Answer
  <2>2. QED
    BY <2>1 DEF AnswerDoes, TickType
<1>5. Store(p) \/ StoreFails(p) => StoreDoes(p)
  BY DEF Store, StoreFails, StoreDoes, TickType
<1>6. ASSUME NEW r \in Repo, Write(p, r) PROVE WriteDoes(p, r)
  BY <1>6 DEF Write, WriteDoes, TickType
<1>7. Commit(p) \/ Abort(p) => EndDoes(p)
  <2>1. Asleep.at = "asleep" /\ Asleep.batch = {} /\ Asleep.todo = {}
        /\ Asleep.missed = {} /\ Asleep.emails = {} /\ Asleep.audience = {}
    BY DEF Asleep
  <2>2. Commit(p) => EndDoes(p)
    <3> SUFFICES ASSUME Commit(p) PROVE EndDoes(p)
      OBVIOUS
    <3>1. scan[p].at = "commit" /\ scan' = [scan EXCEPT ![p] = Asleep]
      BY DEF Commit
    <3>2. ~ Abort(p) \/ UNCHANGED <<seen, queued>>
      BY DEF Abort
    <3>3. QED
      BY <2>1, <3>1, <3>2 DEF Commit, EndDoes
  <2>3. Abort(p) => EndDoes(p)
    BY <2>1 DEF Abort, EndDoes
  <2>4. QED
    BY <2>2, <2>3
<1>8. QED
  BY <1>1, <1>2, <1>3, <1>4, <1>5, <1>6, <1>7

-----------------------------------------------------------------------------
(* The inductive invariant.                                                 *)

LEMMA InitIInv == Init => IInv
<1> SUFFICES ASSUME Init PROVE IInv
  OBVIOUS
<1>1. \A p \in Replica :
         /\ scan[p] = Asleep
         /\ scan[p].at = "asleep" /\ scan[p].batch = {} /\ scan[p].audience = {}
         /\ scan[p].missed = {} /\ scan[p].todo = {} /\ scan[p].emails = {}
  BY DEF Init, Asleep
<1>2. LockedAndLookedUp /\ TickOK /\ EmailsLast /\ AudienceServed
  BY <1>1 DEF LockedAndLookedUp, TickOK, EmailsLast, AudienceServed
<1>3. QED
  BY <1>2, InitTypeOK DEF IInv

\* What IInv says of one tick, whichever replica's it is.
Fine(t) ==
    /\ t.at \in {"writing", "commit"} => \A r \in t.batch : t.tags[r] # Missing
    /\ t.at = "asleep" => t = Asleep
    /\ t.todo \subseteq t.batch
    /\ t.missed \subseteq t.batch
    /\ t.at = "commit" => t.todo = {}
    /\ t.at \in {"asking", "bypass"} => \A r \in t.batch \ t.missed : t.tags[r] # Missing
    /\ t.at = "caching" => /\ \A r \in t.batch : t.tags[r] # Missing
                           /\ \A r \in t.missed : t.tags[r] # NoTag
    /\ t.at \in {"lookup", "asking", "bypass", "caching"} => t.todo = t.batch
    /\ \A e \in t.emails : RepoOf[e[1]] \in t.batch \ t.todo
    /\ \A s \in t.audience : sub[s] # "new"
    /\ \A r \in t.batch \ t.todo :
          ShouldNotify(r, t.tags[r]) =>
              \A s \in t.audience \cap Confirmed(r) : <<s, t.tags[r]>> \in t.emails

LEMMA AllFine == IInv => \A p \in Replica : Fine(scan[p])
<1> SUFFICES ASSUME IInv, NEW p \in Replica PROVE Fine(scan[p])
  OBVIOUS
<1>1. QED
  BY DEF IInv, LockedAndLookedUp, TickOK, EmailsLast, AudienceServed, Fine

\* A step of replica p leaves the other ticks as they were.
LEMMA OthersStand ==
    ASSUME IInv, NEW p \in Replica,
           seen' = seen, sub' = sub,
           \A q \in Replica \ {p} :
               scan'[q] = scan[q] /\ scan'[p].batch \cap scan[q].batch = {},
           Fine(scan'[p])
    PROVE  LockedAndLookedUp' /\ TickOK' /\ EmailsLast' /\ AudienceServed'
<1>1. LockedAndLookedUp'
  BY DEF IInv, LockedAndLookedUp, Fine
<1>2. TickOK'
  BY DEF IInv, TickOK, Fine
<1>3. EmailsLast'
  BY DEF IInv, EmailsLast, Fine
<1>4. AudienceServed'
  BY DEF IInv, AudienceServed, ShouldNotify, Confirmed, Fine
<1>5. QED
  BY <1>1, <1>2, <1>3, <1>4

\* Every step keeps the invariant.
LEMMA NextIInv == IInv /\ [Next]_vars => IInv'
<1> SUFFICES ASSUME IInv, [Next]_vars
             PROVE  LockedAndLookedUp' /\ TickOK' /\ EmailsLast' /\ AudienceServed'
  BY NextTypeOK DEF IInv
<1>0. /\ Typed
      /\ \A p, q \in Replica : p # q => scan[p].batch \cap scan[q].batch = {}
      /\ \A p \in Replica : Fine(scan[p])
  BY TypedFacts, AllFine DEF IInv, LockedAndLookedUp
<1> DEFINE Goal == LockedAndLookedUp' /\ TickOK' /\ EmailsLast' /\ AudienceServed'
<1>1. ASSUME NEW p \in Replica, Claim(p) PROVE Goal
  <2>0. PICK batch \in Batches : ClaimDoes(p, batch)
    BY <1>0, <1>1, Effects
  <2>1. \A s \in scan'[p].audience : sub[s] # "new"
    BY <1>0, <2>0 DEF Confirmed, ClaimDoes, Quiet
  <2>2. Fine(scan'[p])
    BY <1>0, <2>1, <2>0 DEF Fine, ClaimDoes, Quiet
  <2>3. \A q \in Replica \ {p} : scan'[p].batch \cap scan[q].batch = {}
    BY <1>0, <2>0, BatchFacts DEF ClaimDoes, Quiet
  <2>4. QED
    BY <1>0, <2>2, <2>3, <2>0, OthersStand DEF ClaimDoes, Quiet
<1>2. ASSUME NEW p \in Replica, Lookup(p) PROVE Goal
  <2>0. LookupDoes(p)
    BY <1>0, <1>2, Effects
  <2>1. scan[p].todo = scan[p].batch /\ scan[p].batch \subseteq Repo
    BY <1>0, <2>0, FieldFacts DEF Fine, LookupDoes, Quiet, Keeps
  <2>2. Fine(scan'[p])
    BY <1>0, <2>1, <2>0 DEF Fine, LookupDoes, Quiet, Keeps
  <2>3. QED
    BY <1>0, <2>2, <2>0, OthersStand DEF LookupDoes, Quiet, Keeps
<1>3. ASSUME NEW p \in Replica, LookupFails(p) PROVE Goal
  <2>0. LookupFailsDoes(p)
    BY <1>0, <1>3, Effects
  <2>1. Fine(scan'[p])
    BY <1>0, <2>0 DEF Fine, LookupFailsDoes, Quiet, Keeps
  <2>2. QED
    BY <1>0, <2>1, <2>0, OthersStand DEF LookupFailsDoes, Quiet, Keeps
<1>4. ASSUME NEW p \in Replica, Ask(p) \/ AskPartly(p) PROVE Goal
  <2>1. PICK found \in SUBSET Released(scan[p].missed) : Answer(p, found)
    BY <1>4, AskIsAnswer
  <2>2. /\ scan[p].missed \subseteq scan[p].batch /\ scan[p].batch \subseteq Repo
        /\ found \subseteq scan[p].missed /\ \A r \in found : latest[r] # NoTag
    BY <1>0, FieldFacts DEF Fine, Released
  <2>3. AnswerDoes(p, found)
    BY <1>0, <2>1, <2>2, Effects
  <2>4. \A r \in scan[p].batch \ scan[p].missed : scan[p].tags[r] # Missing
    BY <1>0, <2>3 DEF Fine, AnswerDoes
  <2>5. \A r \in scan[p].missed : latest[r] # Missing
    BY <1>0, <2>2, TagFacts DEF Typed
  <2>6. \A r \in scan[p].batch : scan'[p].tags[r] # Missing
    BY <2>2, <2>3, <2>4, <2>5 DEF AnswerDoes, NoTag, Missing
  <2>7. \A r \in scan'[p].missed : scan'[p].tags[r] # NoTag
    BY <2>2, <2>3 DEF AnswerDoes
  <2>8. Fine(scan'[p])
    BY <1>0, <2>2, <2>3, <2>6, <2>7 DEF Fine, AnswerDoes, Quiet, Keeps
  <2>9. QED
    BY <1>0, <2>3, <2>8, OthersStand DEF AnswerDoes, Quiet, Keeps
<1>5. ASSUME NEW p \in Replica, Store(p) \/ StoreFails(p) PROVE Goal
  <2>0. StoreDoes(p)
    BY <1>0, <1>5, Effects
  <2>1. Fine(scan'[p])
    BY <1>0, <2>0 DEF Fine, StoreDoes, Quiet, Keeps
  <2>2. QED
    BY <1>0, <2>1, <2>0, OthersStand DEF StoreDoes, Quiet, Keeps
<1>6. ASSUME NEW p \in Replica, NEW r \in Repo, Write(p, r) PROVE Goal
  <2>0. WriteDoes(p, r)
    BY <1>0, <1>6, Effects
  <2>1. \A e \in scan'[p].emails : RepoOf[e[1]] \in scan'[p].batch \ scan'[p].todo
    <3>1. ASSUME NEW s \in Confirmed(r) PROVE RepoOf[<<s, scan[p].tags[r]>>[1]] = r
      BY DEF Confirmed
    <3>2. r \in scan[p].batch
      BY <1>0, <2>0 DEF Fine, WriteDoes, Quiet, Keeps
    <3>3. \A e \in scan[p].emails : RepoOf[e[1]] \in scan[p].batch \ scan[p].todo
      BY <1>0 DEF Fine
    <3>4. QED
      BY <1>0, <3>1, <3>2, <3>3, <2>0 DEF WriteDoes, Quiet, Keeps
  <2>2. ASSUME NEW q \in scan'[p].batch \ scan'[p].todo, ShouldNotify(q, scan'[p].tags[q]),
               NEW s \in scan'[p].audience \cap Confirmed(q)
        PROVE  <<s, scan'[p].tags[q]>> \in scan'[p].emails
    <3>1. CASE q = r
      BY <1>0, <2>2, <3>1, <2>0 DEF WriteDoes, Quiet, Keeps
    <3>2. CASE q # r
      BY <1>0, <2>2, <3>2, <2>0 DEF Fine, WriteDoes, Quiet, Keeps
    <3>3. QED
      BY <3>1, <3>2
  <2>3. Fine(scan'[p])
    BY <1>0, <2>1, <2>2, <2>0 DEF Fine, WriteDoes, Quiet, Keeps
  <2>4. QED
    BY <1>0, <2>3, <2>0, OthersStand DEF WriteDoes, Quiet, Keeps
<1>7. ASSUME NEW p \in Replica, Abort(p) PROVE Goal
  <2>0. EndDoes(p)
    BY <1>0, <1>7, Effects
  <2>1. Fine(scan'[p])
    BY <1>0, <2>0 DEF Fine, EndDoes, Quiet
  <2>2. QED
    BY <1>0, <1>7, <2>1, <2>0, OthersStand DEF EndDoes, Quiet
<1>8. ASSUME NEW p \in Replica, Commit(p) PROVE Goal
  <2>0. EndDoes(p)
    BY <1>0, <1>8, Effects
  <2>1. LockedAndLookedUp' /\ TickOK' /\ EmailsLast'
    BY <1>0, <2>0 DEF IInv, LockedAndLookedUp, TickOK, EmailsLast, EndDoes, Quiet
  <2>2. \A q \in Replica \ {p} : \A r \in scan[q].batch : seen'[r] = seen[r]
    BY <1>0, <1>8, FieldFacts DEF Commit
  <2>3. AudienceServed'
    BY <1>0, <2>2, <2>0 DEF IInv, AudienceServed, ShouldNotify, Confirmed, EndDoes, Quiet
  <2>4. QED
    BY <2>1, <2>3
<1>9. ASSUME NEW s \in Sub, Confirm(s) \/ Unsubscribe(s) PROVE Goal
  <2>1. /\ scan' = scan /\ seen' = seen
        /\ \A t \in Sub \ {s} : sub'[t] = sub[t]
        /\ sub'[s] # "new" /\ (sub'[s] = "confirmed" => sub[s] = "new")
    BY <1>9, <1>0 DEF Confirm, Unsubscribe, Typed
  <2>2. LockedAndLookedUp' /\ TickOK' /\ EmailsLast'
    BY <2>1 DEF IInv, LockedAndLookedUp, TickOK, EmailsLast
  <2>3. \A p \in Replica : scan[p].audience \subseteq Sub
    BY <1>0, FieldFacts
  <2>4. AudienceServed'
    BY <2>1, <2>3 DEF IInv, AudienceServed, ShouldNotify, Confirmed
  <2>5. QED
    BY <2>2, <2>4
<1>10. ASSUME \/ \E r \in Repo : Publish(r) \/ Withdraw(r) \/ Expire(r) \/ AddRepo(r)
              \/ UNCHANGED vars
       PROVE  Goal
  <2>1. UNCHANGED <<scan, seen, sub>>
    BY <1>10 DEF Publish, Withdraw, Expire, AddRepo, vars, store
  <2>2. QED
    BY <2>1 DEF IInv, LockedAndLookedUp, TickOK, EmailsLast, AudienceServed, ShouldNotify, Confirmed
<1>11. QED
  BY <1>1, <1>2, <1>3, <1>4, <1>5, <1>6, <1>7, <1>8, <1>9, <1>10
     DEF Next, SteadyNext, Surroundings, Tick

\* The inductive invariant holds, whatever fails and whatever GitHub withdraws.
THEOREM TicksInvariant == Spec => []IInv
<1>1. Init => IInv
  BY InitIInv
<1>2. IInv /\ [Next]_vars => IInv'
  BY NextIInv
<1>3. QED
  BY <1>1, <1>2, PTL DEF Spec

\* Every variable of the scanners keeps its type.
THEOREM TicksTyped == Spec => []TypeOK
<1>1. IInv => TypeOK
  BY DEF IInv
<1>2. QED
  BY <1>1, TicksInvariant, PTL

\* A repository is in the hands of one tick at most, and what a tick is going
\* to write it has looked up: FOR UPDATE SKIP LOCKED keeps replicas apart.
THEOREM LocksKeepTicksApart == Spec => []LockedAndLookedUp
<1>1. IInv => LockedAndLookedUp
  BY DEF IInv
<1>2. QED
  BY <1>1, TicksInvariant, PTL

\* last_seen_tag never moves on without an email for everybody who was
\* confirmed when the tick began and is confirmed still, and nothing but the
\* commit of a tick that holds the row's lock moves it.
THEOREM NobodyLeftOut == Spec => ChangeReachesEverybody
<1> DEFINE Reaches ==
      \A r \in Repo : seen'[r] # seen[r] /\ seen[r] # Missing =>
          \E p \in Replica :
             /\ r \in scan[p].batch
             /\ \A s \in scan[p].audience \cap Confirmed(r) :
                   <<s, seen'[r]>> \in queued'
<1>1. IInv /\ [Next]_vars => [Reaches]_vars
  <2> SUFFICES ASSUME IInv, Next, NEW r \in Repo, seen'[r] # seen[r], seen[r] # Missing
               PROVE  \E p \in Replica :
                         /\ r \in scan[p].batch
                         /\ \A s \in scan[p].audience \cap Confirmed(r) :
                               <<s, seen'[r]>> \in queued'
    OBVIOUS
  <2>1. PICK p \in Replica : Commit(p)
    <3>1. seen' # seen
      OBVIOUS
    <3>2. QED
      BY <3>1 DEF Next, SteadyNext, Surroundings, Tick, Claim, Lookup, LookupFails, Ask, AskPartly,
         Answer, Store, StoreFails, Write, Abort, Publish, Withdraw, Expire, AddRepo, Confirm,
         Unsubscribe, store
  <2>2. r \in scan[p].batch /\ seen'[r] = scan[p].tags[r] /\ queued' = queued \cup scan[p].emails
    BY <2>1 DEF Commit
  <2>3. Fine(scan[p]) /\ scan[p].at = "commit"
    BY <2>1, AllFine DEF Commit
  <2>4. ShouldNotify(r, scan[p].tags[r]) /\ r \in scan[p].batch \ scan[p].todo
    BY <2>2, <2>3 DEF ShouldNotify, Fine
  <2>5. \A s \in scan[p].audience \cap Confirmed(r) : <<s, scan[p].tags[r]>> \in scan[p].emails
    BY <2>3, <2>4 DEF Fine
  <2>6. QED
    BY <2>2, <2>5
<1>2. QED
  BY <1>1, TicksInvariant, PTL DEF Spec, ChangeReachesEverybody

-----------------------------------------------------------------------------
(* Repositories that no fault has concerned.                                *)

\* Tags can be compared.
LEMMA TagsCompare ==
    ASSUME Typed
    PROVE  /\ \A r \in Repo : latest[r] \in Nat /\ top[r] \in Nat
           /\ \A r \in Repo : cache[r] \in Int /\ seen[r] \in Int
           /\ \A r \in Repo : cache[r] # Missing => cache[r] \in Nat \ {0}
           /\ \A r \in Repo : seen[r] # Missing => seen[r] \in Nat
           /\ \A p \in Replica, r \in Repo :
                 /\ scan[p].tags[r] \in Int
                 /\ scan[p].tags[r] # Missing => scan[p].tags[r] \in Nat
           /\ \A p \in Replica : \A e \in scan[p].emails :
                 e[1] \in Sub /\ RepoOf[e[1]] \in Repo /\ e[2] \in Nat
           /\ \A e \in queued : e[1] \in Sub /\ RepoOf[e[1]] \in Repo /\ e[2] \in Nat
<1>1. Tag \subseteq Nat \ {0} /\ NoTag = 0 /\ Missing = -1
  BY TagFacts DEF NoTag, Missing
<1>2. \A r \in Repo : /\ latest[r] \in Tag \cup {NoTag} /\ top[r] \in Tag \cup {NoTag}
                      /\ cache[r] \in Tag \cup {Missing}
                      /\ seen[r] \in Tag \cup {NoTag, Missing}
  BY DEF Typed
<1>3. \A p \in Replica, r \in Repo : scan[p].tags[r] \in Tag \cup {NoTag, Missing}
  BY FieldFacts
<1>4. \A e \in Email : e[1] \in Sub /\ RepoOf[e[1]] \in Repo /\ e[2] \in Nat
  <2> SUFFICES ASSUME NEW s \in Sub, NEW t \in Tag \cup {NoTag}
               PROVE  RepoOf[s] \in Repo /\ t \in Nat
    BY DEF Email
  <2>1. QED
    BY <1>1, ScannerAssumption
<1>5. /\ \A p \in Replica : scan[p].emails \subseteq Email
      /\ queued \subseteq Email
  BY FieldFacts DEF Typed
<1>6. /\ \A n \in Tag \cup {NoTag, Missing} : n \in Int /\ (n # Missing => n \in Nat)
      /\ \A n \in Tag \cup {NoTag} : n \in Nat
      /\ \A n \in Tag \cup {Missing} : n # Missing => n \in Nat \ {0}
  BY <1>1
<1> HIDE <1>1 DEF Missing, NoTag
<1>7. \A r \in Repo : latest[r] \in Nat /\ top[r] \in Nat
  BY <1>2, <1>6
<1>8. \A r \in Repo : cache[r] \in Int /\ (cache[r] # Missing => cache[r] \in Nat \ {0})
  BY <1>2, <1>6
<1>9. \A r \in Repo : seen[r] \in Int /\ (seen[r] # Missing => seen[r] \in Nat)
  BY <1>2, <1>6
<1>10. \A p \in Replica, r \in Repo :
         scan[p].tags[r] \in Int /\ (scan[p].tags[r] # Missing => scan[p].tags[r] \in Nat)
  BY <1>3, <1>6
<1>11. QED
  BY <1>4, <1>5, <1>7, <1>8, <1>9, <1>10

\* The initial states have concerned nobody.
LEMMA InitUndisturbed == Init => UndisturbedInv
<1> SUFFICES ASSUME Init PROVE UndisturbedInv
  OBVIOUS
<1>1. \A p \in Replica : /\ scan[p].at = "asleep" /\ scan[p].batch = {} /\ scan[p].emails = {}
  BY DEF Init, Asleep
<1>2. TagsGrow /\ QueuedIsSeen
  BY DEF Init, TagsGrow, QueuedIsSeen, NoTag, Missing
<1>3. LookedUpInOrder /\ EmailsAreNews
  BY <1>1 DEF LookedUpInOrder, EmailsAreNews
<1>4. QED
  BY <1>2, <1>3, InitIInv DEF UndisturbedInv

\* Every step keeps the invariant, the faults by disturbing what they concern.
LEMMA NextUndisturbed == UndisturbedInv /\ [Next]_vars => UndisturbedInv'
<1> DEFINE Rest == TagsGrow /\ LookedUpInOrder /\ EmailsAreNews /\ QueuedIsSeen
<1> SUFFICES ASSUME UndisturbedInv, [Next]_vars PROVE Rest'
  BY NextIInv DEF UndisturbedInv
<1>0. /\ Typed /\ IInv /\ Rest
      /\ \A p, q \in Replica : p # q => scan[p].batch \cap scan[q].batch = {}
      /\ \A p \in Replica : Fine(scan[p])
  BY TypedFacts, AllFine DEF UndisturbedInv, IInv, LockedAndLookedUp
<1>1. ASSUME NEW p \in Replica, Claim(p) PROVE Rest'
  <2>0. PICK batch \in Batches : ClaimDoes(p, batch)
    BY <1>0, <1>1, Effects
  <2>1. LookedUpInOrder'
    <3>1. \A r \in batch : scan'[p].tags[r] = Missing
      BY <2>0, BatchFacts DEF ClaimDoes
    <3>2. QED
      BY <1>0, <2>0, <3>1 DEF LookedUpInOrder, ClaimDoes, Quiet
  <2>2. TagsGrow' /\ EmailsAreNews' /\ QueuedIsSeen'
    BY <1>0, <2>0 DEF TagsGrow, EmailsAreNews, QueuedIsSeen, ClaimDoes, Quiet
  <2>3. QED
    BY <2>1, <2>2
<1>2. ASSUME NEW p \in Replica, Lookup(p) PROVE Rest'
  <2>0. LookupDoes(p)
    BY <1>0, <1>2, Effects
  <2>1. LookedUpInOrder'
    BY <1>0, <2>0, FieldFacts, TagsCompare DEF LookedUpInOrder, TagsGrow, LookupDoes, Quiet, Keeps
  <2>2. scan[p].emails = {}
    BY <1>0, <2>0 DEF LookupDoes, Fine
  <2>3. TagsGrow' /\ EmailsAreNews' /\ QueuedIsSeen'
    BY <1>0, <2>0, <2>2 DEF TagsGrow, EmailsAreNews, QueuedIsSeen, LookupDoes, Quiet, Keeps
  <2>4. QED
    BY <2>1, <2>3
<1>3. ASSUME NEW p \in Replica, LookupFails(p) PROVE Rest'
  <2>0. LookupFailsDoes(p)
    BY <1>0, <1>3, Effects
  <2>1. scan[p].emails = {} /\ scan[p].batch \subseteq disturbed'
    BY <1>0, <2>0 DEF LookupFailsDoes, Fine
  <2>2. LookedUpInOrder'
    BY <1>0, <2>0, <2>1 DEF LookedUpInOrder, LookupFailsDoes, Quiet, Keeps
  <2>3. TagsGrow' /\ EmailsAreNews' /\ QueuedIsSeen'
    BY <1>0, <2>0, <2>1 DEF TagsGrow, EmailsAreNews, QueuedIsSeen, LookupFailsDoes, Quiet, Keeps
  <2>4. QED
    BY <2>2, <2>3
<1>4. ASSUME NEW p \in Replica, Ask(p) \/ AskPartly(p) PROVE Rest'
  <2>0. PICK found \in SUBSET Released(scan[p].missed) : Answer(p, found)
    BY <1>4, AskIsAnswer
  <2>1. /\ found \subseteq scan[p].missed /\ scan[p].missed \subseteq Repo
        /\ \A r \in scan[p].missed \ found : latest[r] = NoTag \/ r \in disturbed'
    BY <1>0, <2>0, FieldFacts DEF Released, Answer
  <2>2. AnswerDoes(p, found)
    BY <1>0, <2>0, <2>1, Effects
  <2>3. \A r \in scan[p].missed \ disturbed' : scan'[p].tags[r] = latest[r]
    BY <2>1, <2>2 DEF AnswerDoes
  <2>4. /\ disturbed \subseteq disturbed'
        /\ scan[p].at = "asking" => \A r \in scan[p].missed \ disturbed : cache[r] = Missing
        /\ scan[p].at = "bypass" => scan[p].batch \subseteq disturbed
    BY <1>0, <2>2 DEF LookedUpInOrder, AnswerDoes
  <2>5. ASSUME NEW r \in scan[p].batch, r \notin disturbed', scan'[p].tags[r] # Missing
        PROVE  /\ seen[r] <= scan'[p].tags[r] /\ scan'[p].tags[r] <= latest[r]
               /\ cache[r] # Missing => scan'[p].tags[r] <= cache[r]
    <3>1. r \in Repo /\ r \notin disturbed /\ scan[p].at = "asking"
      BY <1>0, <2>2, <2>4, <2>5, FieldFacts DEF AnswerDoes
    <3>2. CASE r \in scan[p].missed
      <4>1. scan'[p].tags[r] = latest[r] /\ cache[r] = Missing
        BY <2>3, <2>4, <2>5, <3>1, <3>2
      <4>2. latest[r] \in Nat /\ seen[r] <= latest[r]
        BY <1>0, <3>1, TagsCompare DEF TagsGrow
      <4>3. QED
        BY <4>1, <4>2
    <3>3. CASE r \notin scan[p].missed
      <4>1. scan'[p].tags[r] = scan[p].tags[r]
        BY <2>1, <2>2, <3>1, <3>3 DEF AnswerDoes
      <4>2. QED
        BY <1>0, <2>5, <3>1, <4>1 DEF LookedUpInOrder
    <3>4. QED
      BY <3>2, <3>3
  <2>6. LookedUpInOrder'
    BY <1>0, <2>1, <2>2, <2>4, <2>5 DEF LookedUpInOrder, AnswerDoes, Quiet, Keeps
  <2>7. scan[p].emails = {}
    BY <1>0, <2>2 DEF AnswerDoes, Fine
  <2>8. TagsGrow' /\ EmailsAreNews' /\ QueuedIsSeen'
    BY <1>0, <2>2, <2>4, <2>7 DEF TagsGrow, EmailsAreNews, QueuedIsSeen, AnswerDoes, Quiet, Keeps
  <2>9. QED
    BY <2>6, <2>8
<1>5. ASSUME NEW p \in Replica, Store(p) \/ StoreFails(p) PROVE Rest'
  <2>0. StoreDoes(p)
    BY <1>0, <1>5, Effects
  <2>1. /\ \A r \in scan[p].missed : r \in scan[p].batch /\ r \in Repo
        /\ \A r \in scan[p].batch : scan[p].tags[r] # Missing
    BY <1>0, <2>0, FieldFacts DEF StoreDoes, Fine
  <2>2. \A r \in Repo : \/ cache'[r] = cache[r]
                        \/ r \in scan[p].missed /\ cache'[r] = scan[p].tags[r]
    BY <2>0 DEF StoreDoes
  <2>3. TagsGrow'
    BY <1>0, <2>0, <2>1, <2>2 DEF TagsGrow, LookedUpInOrder, StoreDoes, Quiet, Keeps
  <2>4. \A q \in Replica \ {p} : \A r \in scan[q].batch : cache'[r] = cache[r]
    BY <1>0, <2>1, <2>2, FieldFacts
  <2>5. \A r \in scan[p].batch \ disturbed : cache'[r] # Missing => scan[p].tags[r] <= cache'[r]
    BY <1>0, <2>1, <2>2, FieldFacts, TagsCompare DEF LookedUpInOrder
  <2>6. LookedUpInOrder'
    BY <1>0, <2>0, <2>4, <2>5 DEF LookedUpInOrder, StoreDoes, Quiet, Keeps, Fine
  <2>7. EmailsAreNews' /\ QueuedIsSeen'
    BY <1>0, <2>0 DEF EmailsAreNews, QueuedIsSeen, StoreDoes, Quiet, Keeps
  <2>8. QED
    BY <2>3, <2>6, <2>7
<1>6. ASSUME NEW p \in Replica, NEW r \in Repo, Write(p, r) PROVE Rest'
  <2>0. WriteDoes(p, r)
    BY <1>0, <1>6, Effects
  <2>1. TagsGrow' /\ LookedUpInOrder' /\ QueuedIsSeen'
    BY <1>0, <2>0 DEF TagsGrow, LookedUpInOrder, QueuedIsSeen, WriteDoes, Quiet, Keeps
  <2>2. ASSUME NEW s \in Confirmed(r), ShouldNotify(r, scan[p].tags[r])
        PROVE  /\ RepoOf[s] = r
               /\ r \notin disturbed => seen[r] < scan[p].tags[r] /\ scan[p].tags[r] # NoTag
    <3>1. r \in scan[p].batch /\ scan[p].tags[r] # Missing /\ RepoOf[s] = r
      BY <1>0, <2>0 DEF WriteDoes, Fine, Confirmed
    <3>2. r \notin disturbed => seen[r] <= scan[p].tags[r]
      BY <1>0, <3>1 DEF LookedUpInOrder
    <3>3. seen[r] # Missing /\ seen[r] # scan[p].tags[r]
      BY <2>2 DEF ShouldNotify
    <3>4. seen[r] \in Nat /\ scan[p].tags[r] \in Nat
      BY <1>0, <3>1, <3>3, TagsCompare
    <3>5. QED
      BY <3>1, <3>2, <3>3, <3>4 DEF NoTag
  <2>3. EmailsAreNews'
    <3>1. ASSUME NEW e \in scan'[p].emails, RepoOf[e[1]] \notin disturbed
          PROVE  /\ e[2] = scan[p].tags[RepoOf[e[1]]]
                 /\ seen[RepoOf[e[1]]] < e[2] /\ e[2] # NoTag
      <4>1. CASE e \in scan[p].emails
        BY <1>0, <3>1, <4>1 DEF EmailsAreNews
      <4>2. CASE e \notin scan[p].emails
        <5>1. PICK s \in Confirmed(r) :
                 e = <<s, scan[p].tags[r]>> /\ ShouldNotify(r, scan[p].tags[r])
          BY <2>0, <4>2 DEF WriteDoes
        <5>2. QED
          BY <2>2, <3>1, <5>1
      <4>3. QED
        BY <4>1, <4>2
    <3>2. QED
      BY <1>0, <2>0, <3>1 DEF EmailsAreNews, WriteDoes, Quiet, Keeps
  <2>4. QED
    BY <2>1, <2>3
<1>7. ASSUME NEW p \in Replica, Abort(p) PROVE Rest'
  <2>0. EndDoes(p)
    BY <1>0, <1>7, Effects
  <2>1. QED
    BY <1>0, <1>7, <2>0 DEF TagsGrow, LookedUpInOrder, EmailsAreNews, QueuedIsSeen, EndDoes, Quiet
<1>8. ASSUME NEW p \in Replica, Commit(p) PROVE Rest'
  <2>0. EndDoes(p)
    BY <1>0, <1>8, Effects
  <2>1. /\ \A r \in Repo : seen'[r] = IF r \in scan[p].batch THEN scan[p].tags[r] ELSE seen[r]
        /\ queued' = queued \cup scan[p].emails
        /\ scan[p].at = "commit"
    BY <1>8 DEF Commit
  <2>2. \A r \in scan[p].batch \ disturbed :
           /\ scan[p].tags[r] # Missing
           /\ seen[r] <= scan[p].tags[r] /\ scan[p].tags[r] <= latest[r]
           /\ cache[r] # Missing => scan[p].tags[r] <= cache[r]
    BY <1>0, <2>1 DEF LookedUpInOrder, Fine
  <2>3. TagsGrow'
    BY <1>0, <2>0, <2>1, <2>2 DEF TagsGrow, EndDoes, Quiet
  <2>4. \A q \in Replica \ {p} : \A r \in scan[q].batch : seen'[r] = seen[r]
    BY <1>0, <2>1, FieldFacts
  <2>5. LookedUpInOrder'
    BY <1>0, <2>0, <2>4 DEF LookedUpInOrder, EndDoes, Quiet
  <2>6. EmailsAreNews'
    <3>1. \A q \in Replica : \A e \in scan[q].emails : RepoOf[e[1]] \in scan[q].batch
      BY <1>0 DEF Fine
    <3>2. QED
      BY <1>0, <2>0, <2>4, <3>1 DEF EmailsAreNews, EndDoes, Quiet
  <2>7. QueuedIsSeen'
    <3>1. ASSUME NEW e \in scan[p].emails, RepoOf[e[1]] \notin disturbed
          PROVE  e[2] = seen'[RepoOf[e[1]]]
      BY <1>0, <2>1, <3>1, TagsCompare DEF EmailsAreNews, Fine
    <3>2. ASSUME NEW e \in queued, RepoOf[e[1]] \notin disturbed PROVE e[2] <= seen'[RepoOf[e[1]]]
      <4>1. RepoOf[e[1]] \in Repo /\ e[2] \in Nat /\ e[2] <= seen[RepoOf[e[1]]]
        BY <1>0, <3>2, TagsCompare DEF QueuedIsSeen
      <4>2. CASE RepoOf[e[1]] \in scan[p].batch
        BY <1>0, <2>1, <2>2, <3>2, <4>1, <4>2, TagsCompare
      <4>3. CASE RepoOf[e[1]] \notin scan[p].batch
        BY <2>1, <4>1, <4>3
      <4>4. QED
        BY <4>2, <4>3
    <3>3. \A e \in scan[p].emails : e[2] \in Nat
      BY <1>0, TagsCompare
    <3>4. ASSUME NEW e \in queued', RepoOf[e[1]] \notin disturbed PROVE e[2] <= seen'[RepoOf[e[1]]]
      BY <2>1, <3>1, <3>2, <3>3, <3>4
    <3>5. QED
      BY <2>0, <3>4 DEF QueuedIsSeen, EndDoes
  <2>8. QED
    BY <2>3, <2>5, <2>6, <2>7
<1>9. ASSUME NEW r \in Repo, Publish(r) PROVE Rest'
  <2>1. /\ \A q \in Repo \ {r} : latest'[q] = latest[q] /\ top'[q] = top[q]
        /\ latest'[r] = top[r] + 1 /\ top'[r] = top[r] + 1
        /\ UNCHANGED <<cache, seen, queued, disturbed, scan>>
    BY <1>0, <1>9 DEF Publish, Typed, store
  <2>2. \A q \in Repo \ disturbed :
           latest[q] \in Nat /\ latest'[q] \in Nat /\ latest[q] <= latest'[q]
    BY <1>0, <2>1, TagsCompare DEF TagsGrow
  <2>3. TagsGrow'
    BY <1>0, <2>1, <2>2, TagsCompare DEF TagsGrow
  <2>4. LookedUpInOrder'
    BY <1>0, <2>1, <2>2, TagsCompare, FieldFacts DEF LookedUpInOrder
  <2>5. EmailsAreNews' /\ QueuedIsSeen'
    BY <1>0, <2>1 DEF EmailsAreNews, QueuedIsSeen
  <2>6. QED
    BY <2>3, <2>4, <2>5
<1>10. ASSUME NEW r \in Repo, Withdraw(r) PROVE Rest'
  <2>1. /\ \A q \in Repo \ {r} : latest'[q] = latest[q]
        /\ UNCHANGED <<top, cache, seen, queued, scan>>
        /\ disturbed' = disturbed \cup {r}
    BY <1>0, <1>10 DEF Withdraw, Typed, store
  <2>2. \A p \in Replica : scan[p].batch \subseteq Repo
    BY <1>0, FieldFacts
  <2>3. QED
    BY <1>0, <2>1, <2>2 DEF TagsGrow, LookedUpInOrder, EmailsAreNews, QueuedIsSeen
<1>11. ASSUME NEW r \in Repo, Expire(r) PROVE Rest'
  <2>1. /\ \A q \in Repo : cache'[q] = cache[q] \/ cache'[q] = Missing
        /\ UNCHANGED <<latest, top, seen, queued, disturbed, scan>>
    BY <1>0, <1>11 DEF Expire, Typed, store, github
  <2>2. \A p \in Replica : scan[p].batch \subseteq Repo /\ scan[p].missed \subseteq Repo
    BY <1>0, FieldFacts
  <2>3. QED
    BY <1>0, <2>1, <2>2 DEF TagsGrow, LookedUpInOrder, EmailsAreNews, QueuedIsSeen
<1>12. ASSUME \/ \E r \in Repo : AddRepo(r)
              \/ \E s \in Sub : Confirm(s) \/ Unsubscribe(s)
              \/ UNCHANGED vars
       PROVE  Rest'
  <2>1. UNCHANGED <<latest, top, cache, seen, queued, disturbed, scan>>
    BY <1>12 DEF AddRepo, Confirm, Unsubscribe, vars, github
  <2>2. QED
    BY <1>0, <2>1 DEF TagsGrow, LookedUpInOrder, EmailsAreNews, QueuedIsSeen
<1>13. QED
  BY <1>1, <1>2, <1>3, <1>4, <1>5, <1>6, <1>7, <1>8, <1>9, <1>10, <1>11, <1>12
     DEF Next, SteadyNext, Surroundings, Tick

\* What holds of the repositories that no fault has concerned, while faults
\* concern others.
THEOREM UndisturbedInvariant == Spec => []UndisturbedInv
<1>1. Init => UndisturbedInv
  BY InitUndisturbed
<1>2. UndisturbedInv /\ [Next]_vars => UndisturbedInv'
  BY NextUndisturbed
<1>3. QED
  BY <1>1, <1>2, PTL DEF Spec

\* A commit never adds an email that is already queued.
LEMMA EmailsAreUnqueued ==
    ASSUME UndisturbedInv, NEW p \in Replica, NEW e \in scan[p].emails,
           RepoOf[e[1]] \notin disturbed
    PROVE  e \notin queued /\ e[2] # NoTag
<1>1. Typed
  BY TypedFacts DEF UndisturbedInv, IInv
<1>2. seen[RepoOf[e[1]]] < e[2] /\ e[2] # NoTag
  BY DEF UndisturbedInv, EmailsAreNews
<1>3. e \in queued => e[2] <= seen[RepoOf[e[1]]]
  BY DEF UndisturbedInv, QueuedIsSeen
<1>4. e[2] \in Nat /\ seen[RepoOf[e[1]]] \in Int
  BY <1>1, TagsCompare
<1>5. QED
  BY <1>2, <1>3, <1>4

\* "Only notify if a new release appears", for every repository that no fault
\* concerned: nobody is queued the same tag twice and nobody an email without
\* a tag, whatever ticks fail, replicas do and GitHub or Redis get wrong about
\* other repositories in the same batch.
THEOREM NotifiedOnce == Spec => []FaultsStayLocal
<1>1. UndisturbedInv => FaultsStayLocal
  BY EmailsAreUnqueued DEF FaultsStayLocal, Queueing
<1>2. QED
  BY <1>1, UndisturbedInvariant, PTL
=============================================================================
