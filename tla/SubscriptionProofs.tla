------------------------- MODULE SubscriptionProofs -------------------------
(***************************************************************************)
(* Proofs about Subscription, for any number of requests, addresses,       *)
(* repositories, ids and connections.  ApiIInv is the inductive invariant  *)
(* behind all of them; Confirmer takes the same steps of the API, and its  *)
(* proofs rest on this invariant too.                                      *)
(***************************************************************************)
EXTENDS Subscription, RepoRefProofs

\* A request whose transaction has locked its repository, and one that has
\* also drawn an id and found its pair free.
HasLock(q) == req[q].at \in {"inserting", "queueing", "committing"}
HasId(q) == req[q].at \in {"queueing", "committing"}

\* The row of the repository excludes every other Subscribe for it.
LocksHeld ==
    \A q \in Request :
        /\ req[q].at = "saving" \/ HasLock(q) => req[q].key \in Key
        /\ HasLock(q) => lock[req[q].key[2]] = q

\* What the unique constraint told a transaction is still so when it commits.
PairIsFree ==
    \A q \in Request :
        HasId(q) => \A i \in Id : Live(i) => owner[i] # req[q].key

\* An id drawn from the sequence is nobody else's, and not yet in the table.
IdIsFresh ==
    /\ \A i \in Id : i > given => state[i] = "absent"
    /\ \A q \in Request :
          HasId(q) => req[q].id \in 1 .. given /\ state[req[q].id] = "absent"
    /\ \A p, q \in Request : HasId(p) /\ HasId(q) /\ req[p].id = req[q].id => p = q

\* A transaction that may commit has staged both rows.
BothStaged ==
    \A q \in Request :
        /\ req[q].at = "queueing" => req[q].staged = {"subscription"}
        /\ req[q].at = "committing" => req[q].staged = {"subscription", "confirmation"}

\* A request with a token in hand is about the subscription of that token; it
\* is marked only after the token was found.
LinkInHand ==
    \A q \in Request :
        /\ req[q].at \in {"finding", "marking", "leaving"} => req[q].id \in Id
        /\ req[q].at = "marking" => req[q].id \in clicked

ClickedExists == \A i \in clicked : state[i] # "absent"

ApiIInv ==
    /\ ApiTypeOK
    /\ LocksHeld
    /\ PairIsFree
    /\ IdIsFresh
    /\ BothStaged
    /\ LinkInHand
    /\ ClickedExists
    /\ OutboxTogether
    /\ OnePerKey
    /\ AcceptedIsStored
    /\ ConfirmedByItsLink
    /\ ConfirmTellsTruth

\* The initial states satisfy the invariant.
LEMMA InitApiIInv == ApiInit => ApiIInv
<1> SUFFICES ASSUME ApiInit PROVE ApiIInv
  OBVIOUS
<1> USE DEF ApiInit, Idle
<1>1. ApiTypeOK
  BY ApiAssumption DEF ApiTypeOK, Id
<1>2. LocksHeld /\ PairIsFree /\ IdIsFresh /\ BothStaged /\ LinkInHand
  BY DEF LocksHeld, PairIsFree, IdIsFresh, BothStaged, LinkInHand, HasLock, HasId
<1>3. ClickedExists /\ OutboxTogether /\ OnePerKey /\ AcceptedIsStored
      /\ ConfirmedByItsLink /\ ConfirmTellsTruth
  BY DEF ClickedExists, OutboxTogether, OnePerKey, Live, AcceptedIsStored,
     ConfirmedByItsLink, ConfirmTellsTruth
<1>4. QED
  BY <1>1, <1>2, <1>3 DEF ApiIInv

-----------------------------------------------------------------------------
(* Types.  What a request remembers, with its type named.                   *)

KeyType == (Email \X (Repo \cup {ParseRepoRef(t) : t \in Text})) \cup {Nobody}
Place == {"idle", "checking", "saving", "inserting", "queueing",
          "committing", "finding", "marking", "leaving"}
RequestType == [at : Place, text : Text \cup {<<>>}, key : KeyType,
                id : 0 .. MaxId, began : 0 .. MaxId,
                staged : SUBSET {"subscription", "confirmation"}]

ApiTyped ==
    /\ state \in [Id -> {"absent", "pending", "confirmed", "deleted"}]
    /\ owner \in [Id -> Key \cup {Nobody}]
    /\ outbox \in [Id -> {"absent", "pending", "sent", "deleted"}]
    /\ since \in [Id -> 0 .. MaxId]
    /\ typed \in [Id -> Text \cup {<<>>}]
    /\ expired \subseteq Id
    /\ given \in 0 .. MaxId
    /\ lock \in [Repo -> Request \cup {Scan, Nobody}]
    /\ req \in [Request -> RequestType]
    /\ clicked \subseteq Id /\ accepted \subseteq Id
    /\ told \subseteq Id /\ turnedAway \subseteq Id

\* The pairs that a request may be about.
LEMMA KeyFacts ==
    /\ Key \subseteq KeyType /\ Nobody \in KeyType
    /\ \A email \in Email, text \in Text : <<email, ParseRepoRef(text)>> \in KeyType
  BY DEF Key, KeyType

\* A request that is done with has the type of one.
LEMMA IdleFacts == Idle \in RequestType
  BY KeyFacts, ApiAssumption DEF Idle, RequestType, Place

\* What a request remembers changes within its type.
LEMMA RequestFacts ==
    ASSUME NEW r \in RequestType
    PROVE  /\ [r EXCEPT !.at = "inserting"] \in RequestType
           /\ [r EXCEPT !.at = "marking"] \in RequestType
           /\ [r EXCEPT !.at = "committing", !.staged = @ \cup {"confirmation"}] \in RequestType
           /\ \A n \in 0 .. MaxId :
                 /\ [r EXCEPT !.at = "saving", !.began = n] \in RequestType
                 /\ [r EXCEPT !.at = "queueing", !.id = n, !.staged = {"subscription"}]
                       \in RequestType
<1> USE DEF RequestType, Place
<1>1. /\ [r EXCEPT !.at = "inserting"] \in RequestType
      /\ [r EXCEPT !.at = "marking"] \in RequestType
  OBVIOUS
<1>2. [r EXCEPT !.at = "committing", !.staged = @ \cup {"confirmation"}] \in RequestType
  OBVIOUS
<1>3. ASSUME NEW n \in 0 .. MaxId
      PROVE  [r EXCEPT !.at = "saving", !.began = n] \in RequestType
  OBVIOUS
<1>4. ASSUME NEW n \in 0 .. MaxId
      PROVE  [r EXCEPT !.at = "queueing", !.id = n, !.staged = {"subscription"}] \in RequestType
  OBVIOUS
<1> HIDE DEF RequestType
<1>5. QED
  BY <1>1, <1>2, <1>3, <1>4

\* A request that ends gives its locks back and is idle; the others keep
\* what they have.
LEMMA EndTyped ==
    ASSUME ApiTypeOK, NEW q \in Request, End(q)
    PROVE  /\ req' \in [Request -> RequestType]
           /\ lock' \in [Repo -> Request \cup {Scan, Nobody}]
<1>1. req \in [Request -> RequestType]
  BY DEF ApiTypeOK, RequestType, Place, KeyType
<1>2. QED
  BY <1>1, IdleFacts DEF ApiTypeOK, End

\* Every step of the API keeps the types.
LEMMA NextApiTypeOK == ApiIInv /\ [ApiNext]_apiVars => ApiTypeOK'
<1> SUFFICES ASSUME ApiIInv, [ApiNext]_apiVars PROVE ApiTypeOK'
  OBVIOUS
<1>0. ApiTyped /\ (ApiTypeOK' <=> ApiTyped')
  BY DEF ApiIInv, ApiTypeOK, ApiTyped, RequestType, Place, KeyType
<1> USE <1>0, ApiAssumption, KeyFacts, IdleFacts DEF ApiIInv, ApiTyped, tables, history
<1>1. ASSUME NEW q \in Request, NEW email \in Email, NEW text \in Text,
             Subscribe(q, email, text)
      PROVE ApiTypeOK'
  <2>1. [Idle EXCEPT !.at = "checking", !.text = text,
                     !.key = <<email, ParseRepoRef(text)>>] \in RequestType
    BY DEF Idle, RequestType, Place
  <2>2. QED
    BY <1>1, <2>1 DEF Subscribe
<1>2. ASSUME NEW q \in Request, NEW i \in Id, Confirm(q, i) \/ Unsubscribe(q, i)
      PROVE ApiTypeOK'
  <2>1. i \in 0 .. MaxId
    BY DEF Id
  <2>2. /\ [Idle EXCEPT !.at = "finding", !.id = i] \in RequestType
        /\ [Idle EXCEPT !.at = "leaving", !.id = i] \in RequestType
    BY <2>1 DEF Idle, RequestType, Place
  <2>3. QED
    BY <1>2, <2>2 DEF Confirm, Unsubscribe
<1>3. ASSUME NEW q \in Request, RepoRefused(q) \/ SubscribeFails(q) \/ TokenRefused(q)
                 \/ ConfirmFails(q) \/ DeleteFails(q) \/ AlreadyExists(q)
      PROVE ApiTypeOK'
  BY <1>3, EndTyped DEF RepoRefused, SubscribeFails, TokenRefused, ConfirmFails,
     DeleteFails, AlreadyExists, Conflicts
<1>4. ASSUME NEW q \in Request, Begin(q) PROVE ApiTypeOK'
  BY <1>4, RequestFacts DEF Begin
<1>5. ASSUME NEW q \in Request, SaveRepo(q) PROVE ApiTypeOK'
  BY <1>5, RequestFacts DEF SaveRepo, Goto
<1>6. ASSUME NEW q \in Request, CreateSubscription(q) PROVE ApiTypeOK'
  <2>1. given + 1 \in 0 .. MaxId
    BY <1>6 DEF CreateSubscription
  <2>2. QED
    BY <1>6, <2>1, RequestFacts DEF CreateSubscription
<1>7. ASSUME NEW q \in Request, CreateConfirmation(q) PROVE ApiTypeOK'
  BY <1>7, RequestFacts DEF CreateConfirmation
<1>8. ASSUME NEW q \in Request, Commit(q) \/ CommitUnknown(q) PROVE ApiTypeOK'
  <2>1. req[q].at = "committing" /\ req[q].id \in Id /\ req[q].key \in Key
    BY <1>8 DEF Commit, CommitUnknown, Publish, IdIsFresh, LocksHeld, HasId, HasLock, Id
  <2>2. req[q].began \in 0 .. MaxId /\ req[q].text \in Text \cup {<<>>}
    BY DEF RequestType
  <2>3. /\ state' \in [Id -> {"absent", "pending", "confirmed", "deleted"}]
        /\ owner' \in [Id -> Key \cup {Nobody}]
        /\ outbox' \in [Id -> {"absent", "pending", "sent", "deleted"}]
        /\ since' \in [Id -> 0 .. MaxId]
        /\ typed' \in [Id -> Text \cup {<<>>}]
    <3>1. Publish(q)
      BY <1>8 DEF Commit, CommitUnknown
    <3>2. state' \in [Id -> {"absent", "pending", "confirmed", "deleted"}]
      BY <3>1 DEF Publish
    <3>3. outbox' \in [Id -> {"absent", "pending", "sent", "deleted"}]
      BY <3>1 DEF Publish
    <3>4. owner' \in [Id -> Key \cup {Nobody}]
      BY <2>1, <3>1 DEF Publish
    <3>5. since' \in [Id -> 0 .. MaxId] /\ typed' \in [Id -> Text \cup {<<>>}]
      BY <2>2, <3>1 DEF Publish
    <3>6. QED
      BY <3>2, <3>3, <3>4, <3>5
  <2>4. accepted' \subseteq Id /\ UNCHANGED <<expired, given, clicked, told, turnedAway>>
    BY <1>8, <2>1 DEF Commit, CommitUnknown, Publish
  <2>5. QED
    BY <1>8, <2>3, <2>4, EndTyped DEF Commit, CommitUnknown, Publish
<1>9. ASSUME NEW q \in Request, FindToken(q) PROVE ApiTypeOK'
  BY <1>9, RequestFacts DEF FindToken, Goto, LinkInHand
<1>10. ASSUME NEW q \in Request, MarkConfirmed(q) \/ MarkUnknown(q) PROVE ApiTypeOK'
  BY <1>10, EndTyped DEF MarkConfirmed, MarkUnknown, SetConfirmed, LinkInHand
<1>11. ASSUME NEW q \in Request, Delete(q) PROVE ApiTypeOK'
  BY <1>11, EndTyped DEF Delete
<1>12. CASE Time
  BY <1>12 DEF Time, Expire
<1>13. CASE Scanner
  BY <1>13 DEF Scanner, ScanEnds, ScanLocks
<1>14. CASE UNCHANGED apiVars
  BY <1>14 DEF apiVars
<1> HIDE DEF ApiIInv
<1>15. QED
  BY <1>1, <1>2, <1>3, <1>4, <1>5, <1>6, <1>7, <1>8, <1>9, <1>10, <1>11,
     <1>12, <1>13, <1>14
  DEF ApiNext, Serve, ServeFails

-----------------------------------------------------------------------------
(* The invariant.                                                           *)

RequestsOK == LocksHeld /\ PairIsFree /\ IdIsFresh /\ BothStaged /\ LinkInHand
TablesOK ==
    /\ ClickedExists /\ OutboxTogether /\ OnePerKey
    /\ AcceptedIsStored /\ ConfirmedByItsLink /\ ConfirmTellsTruth

\* A request may end, whatever it did to the tables, so long as the pairs and
\* the ids that the other requests count on stay free.
LEMMA EndRequestsOK ==
    ASSUME ApiIInv, NEW q \in Request, End(q), UNCHANGED <<given, clicked>>,
           \A i \in Id : i > given => state'[i] = "absent",
           \A p \in Request \ {q} : HasId(p) =>
               /\ \A i \in Id : Live(i)' => owner'[i] # req[p].key
               /\ state'[req[p].id] = "absent"
    PROVE  RequestsOK'
<1> USE ApiAssumption DEF ApiIInv, HasLock, HasId
<1>1. /\ req'[q].at = "idle"
      /\ \A p \in Request : p # q => req'[p] = req[p]
      /\ \A r \in Repo : lock[r] # q => lock'[r] = lock[r]
  BY DEF End, Idle, ApiTypeOK
<1>2. LocksHeld'
  BY <1>1 DEF LocksHeld, Key
<1>3. PairIsFree'
  BY <1>1 DEF PairIsFree
<1>4. IdIsFresh'
  BY <1>1 DEF IdIsFresh
<1>5. BothStaged' /\ LinkInHand'
  BY <1>1 DEF BothStaged, LinkInHand
<1>6. QED
  BY <1>2, <1>3, <1>4, <1>5 DEF RequestsOK

\* A request that wrote nothing new ends.
LEMMA QuietEnd ==
    ASSUME ApiIInv, NEW q \in Request, End(q), UNCHANGED <<owner, given, clicked>>,
           \A i \in Id : state'[i] = "absent" <=> state[i] = "absent",
           \A i \in Id : Live(i)' => Live(i)
    PROVE  RequestsOK'
<1>1. \A i \in Id : i > given => state'[i] = "absent"
  BY DEF ApiIInv, IdIsFresh
<1>2. ASSUME NEW p \in Request \ {q}, HasId(p)
      PROVE  /\ \A i \in Id : Live(i)' => owner'[i] # req[p].key
             /\ state'[req[p].id] = "absent"
  <2>1. req[p].id \in Id
    BY <1>2 DEF ApiIInv, ApiTypeOK, IdIsFresh, Id
  <2>2. QED
    BY <1>2, <2>1 DEF ApiIInv, PairIsFree, IdIsFresh
<1>3. QED
  BY <1>1, <1>2, EndRequestsOK

\* Two transactions with an id are about different repositories.
LEMMA LocksExclude ==
    ASSUME ApiIInv, NEW p \in Request, NEW q \in Request, p # q, HasLock(p), HasLock(q)
    PROVE  req[p].key # req[q].key
  BY DEF ApiIInv, LocksHeld

\* COMMIT makes a subscription of a free pair out of an id nobody else has.
LEMMA PublishOK ==
    ASSUME ApiIInv, NEW q \in Request, Publish(q), accepted' \subseteq accepted \cup {req[q].id}
    PROVE  RequestsOK' /\ TablesOK'
<1> DEFINE i == req[q].id
<1>1. /\ i \in Id /\ i <= given /\ state[i] = "absent"
      /\ HasId(q) /\ HasLock(q)
      /\ req[q].staged = {"subscription", "confirmation"}
  BY DEF Publish, ApiIInv, ApiTypeOK, IdIsFresh, BothStaged, HasId, HasLock, Id
<1>2. /\ state' = [state EXCEPT ![i] = "pending"]
      /\ outbox' = [outbox EXCEPT ![i] = "pending"]
      /\ owner' = [owner EXCEPT ![i] = req[q].key]
      /\ End(q) /\ UNCHANGED <<given, clicked, told>>
  BY <1>1 DEF Publish
<1>3. \A j \in Id : /\ state'[j] = IF j = i THEN "pending" ELSE state[j]
                    /\ outbox'[j] = IF j = i THEN "pending" ELSE outbox[j]
                    /\ owner'[j] = IF j = i THEN req[q].key ELSE owner[j]
  BY <1>1, <1>2 DEF ApiIInv, ApiTypeOK
<1>4. RequestsOK'
  <2>1. \A j \in Id : j > given => state'[j] = "absent"
    BY <1>1, <1>3 DEF ApiIInv, ApiTypeOK, IdIsFresh, Id
  <2>2. ASSUME NEW p \in Request \ {q}, HasId(p)
        PROVE  /\ \A j \in Id : Live(j)' => owner'[j] # req[p].key
               /\ state'[req[p].id] = "absent"
    <3>1. req[p].key # req[q].key
      BY <1>1, <2>2, LocksExclude DEF HasId, HasLock
    <3>2. req[p].id \in Id /\ req[p].id # i /\ state[req[p].id] = "absent"
      BY <1>1, <2>2 DEF ApiIInv, ApiTypeOK, IdIsFresh, Id
    <3>3. \A j \in Id : Live(j) => owner[j] # req[p].key
      BY <2>2 DEF ApiIInv, PairIsFree
    <3>4. QED
      BY <1>3, <3>1, <3>2, <3>3 DEF Live
  <2>3. QED
    BY <1>2, <2>1, <2>2, EndRequestsOK
<1>5. OnePerKey'
  <2>1. \A j \in Id : Live(j) => owner[j] # req[q].key
    BY <1>1 DEF ApiIInv, PairIsFree
  <2>2. QED
    BY <1>3, <2>1 DEF ApiIInv, OnePerKey, Live
<1>6. i \notin clicked /\ i \notin told
  BY <1>1 DEF ApiIInv, ClickedExists, ConfirmTellsTruth
<1>7. ClickedExists' /\ ConfirmTellsTruth'
  BY <1>2, <1>3, <1>6 DEF ApiIInv, ApiTypeOK, ClickedExists, ConfirmTellsTruth
<1>8. OutboxTogether' /\ ConfirmedByItsLink'
  BY <1>2, <1>3 DEF ApiIInv, OutboxTogether, ConfirmedByItsLink
<1>9. AcceptedIsStored'
  BY <1>1, <1>3 DEF ApiIInv, ApiTypeOK, AcceptedIsStored
<1>10. QED
  BY <1>4, <1>5, <1>7, <1>8, <1>9 DEF TablesOK

\* Marking changes nothing that is not live, and only what its link names.
LEMMA SetConfirmedOK ==
    ASSUME ApiIInv, NEW q \in Request, SetConfirmed(q), told' \subseteq told \cup {req[q].id}
    PROVE  RequestsOK' /\ TablesOK'
<1> DEFINE i == req[q].id
<1>1. i \in clicked /\ i \in Id /\ state[i] # "absent"
  BY DEF SetConfirmed, ApiIInv, ApiTypeOK, LinkInHand, ClickedExists
<1>2. \A j \in Id : state'[j] = IF j = i /\ Live(j) THEN "confirmed" ELSE state[j]
  BY DEF SetConfirmed, Marked
<1>3. End(q) /\ UNCHANGED <<owner, outbox, given, clicked, accepted>>
  BY DEF SetConfirmed
<1>4. \A j \in Id : /\ state'[j] = "absent" <=> state[j] = "absent"
                    /\ state'[j] = "deleted" <=> state[j] = "deleted"
                    /\ Live(j)' <=> Live(j)
  BY <1>2 DEF Live
<1>5. RequestsOK'
  BY <1>3, <1>4, QuietEnd
<1>6. ClickedExists' /\ OutboxTogether' /\ OnePerKey' /\ AcceptedIsStored'
  BY <1>3, <1>4 DEF ApiIInv, ApiTypeOK, ClickedExists, OutboxTogether, OnePerKey, AcceptedIsStored
<1>7. ConfirmedByItsLink'
  BY <1>1, <1>2, <1>3 DEF ApiIInv, ConfirmedByItsLink
<1>8. state'[i] \in {"confirmed", "deleted"}
  BY <1>1, <1>2 DEF ApiIInv, ApiTypeOK, Live
<1>9. ConfirmTellsTruth'
  BY <1>2, <1>8 DEF ApiIInv, ApiTypeOK, ConfirmTellsTruth
<1>10. QED
  BY <1>5, <1>6, <1>7, <1>9 DEF TablesOK

\* The DELETE takes the subscription and its confirmation together.
LEMMA DeleteOK ==
    ASSUME ApiIInv, NEW q \in Request, Delete(q)
    PROVE  RequestsOK' /\ TablesOK'
<1> DEFINE i == req[q].id
<1>1. i \in Id
  BY DEF Delete, ApiIInv, LinkInHand
<1>2. \A j \in Id :
          /\ state'[j] = IF j = i /\ Live(j) THEN "deleted" ELSE state[j]
          /\ outbox'[j] = IF j = i /\ Live(j) THEN "deleted" ELSE outbox[j]
  BY <1>1 DEF Delete, ApiIInv, ApiTypeOK
<1>3. End(q) /\ UNCHANGED <<owner, given, history>>
  BY DEF Delete
<1>4. \A j \in Id : /\ state'[j] = "absent" <=> state[j] = "absent"
                    /\ Live(j)' => Live(j)
  BY <1>2 DEF Live
<1>5. RequestsOK'
  BY <1>3, <1>4, QuietEnd DEF history
<1>6. OutboxTogether' /\ ConfirmedByItsLink' /\ OnePerKey'
  BY <1>2, <1>3 DEF ApiIInv, OutboxTogether, ConfirmedByItsLink, OnePerKey, Live, history
<1>7. ClickedExists' /\ AcceptedIsStored' /\ ConfirmTellsTruth'
  BY <1>2, <1>3, <1>4 DEF ApiIInv, ApiTypeOK, ClickedExists, AcceptedIsStored,
     ConfirmTellsTruth, history
<1>8. QED
  BY <1>5, <1>6, <1>7 DEF TablesOK

\* What the tables and the history say does not depend on the requests.
LEMMA TablesKept ==
    ASSUME ApiIInv, UNCHANGED <<tables, history>>
    PROVE  TablesOK'
  BY DEF ApiIInv, TablesOK, ClickedExists, OutboxTogether, OnePerKey, Live,
     AcceptedIsStored, ConfirmedByItsLink, ConfirmTellsTruth, tables, history

\* Every step of the API preserves the invariant.
LEMMA NextApiIInv == ApiIInv /\ [ApiNext]_apiVars => ApiIInv'
<1> SUFFICES ASSUME ApiIInv, [ApiNext]_apiVars PROVE ApiIInv'
  OBVIOUS
<1>0. ApiTyped /\ ApiTypeOK' /\ ApiTyped'
  BY NextApiTypeOK DEF ApiIInv, ApiTypeOK, ApiTyped, RequestType, Place, KeyType
<1> SUFFICES RequestsOK' /\ TablesOK'
  BY <1>0 DEF ApiIInv, RequestsOK, TablesOK
<1>1. ASSUME NEW q \in Request,
             RepoRefused(q) \/ SubscribeFails(q) \/ TokenRefused(q)
                 \/ ConfirmFails(q) \/ DeleteFails(q) \/ AlreadyExists(q)
      PROVE RequestsOK' /\ TablesOK'
  <2>1. End(q) /\ UNCHANGED <<state, owner, outbox, given, clicked, accepted, told>>
    BY <1>1 DEF RepoRefused, SubscribeFails, TokenRefused, ConfirmFails,
       DeleteFails, AlreadyExists, tables, history
  <2>2. RequestsOK'
    BY <2>1, QuietEnd DEF Live
  <2>3. QED
    BY <2>1, <2>2 DEF ApiIInv, TablesOK, ClickedExists, OutboxTogether, OnePerKey, Live,
       AcceptedIsStored, ConfirmedByItsLink, ConfirmTellsTruth
<1>2. ASSUME NEW q \in Request, Commit(q) \/ CommitUnknown(q) PROVE RequestsOK' /\ TablesOK'
  BY <1>2, PublishOK DEF Commit, CommitUnknown
<1>3. ASSUME NEW q \in Request, MarkConfirmed(q) \/ MarkUnknown(q)
      PROVE RequestsOK' /\ TablesOK'
  BY <1>3, SetConfirmedOK DEF MarkConfirmed, MarkUnknown
<1>4. ASSUME NEW q \in Request, Delete(q) PROVE RequestsOK' /\ TablesOK'
  BY <1>4, DeleteOK
<1>5. ASSUME NEW q \in Request, NEW i \in Id, Confirm(q, i) \/ Unsubscribe(q, i)
      PROVE RequestsOK' /\ TablesOK'
  <2>1. UNCHANGED <<tables, given, lock, history>>
    BY <1>5 DEF Confirm, Unsubscribe
  <2>2. /\ req'[q].at \in {"finding", "leaving"} /\ req'[q].id = i
        /\ \A p \in Request : p # q => req'[p] = req[p]
    <3>1. CASE Confirm(q, i)
      BY <1>0, <3>1 DEF Confirm, Idle, ApiTyped
    <3>2. CASE Unsubscribe(q, i)
      BY <1>0, <3>2 DEF Unsubscribe, Idle, ApiTyped
    <3>3. QED
      BY <1>5, <3>1, <3>2
  <2>3. LocksHeld' /\ PairIsFree' /\ BothStaged'
    BY <2>1, <2>2 DEF ApiIInv, LocksHeld, PairIsFree, BothStaged, HasLock, HasId, Live, tables
  <2>4. IdIsFresh' /\ LinkInHand'
    BY <2>1, <2>2 DEF ApiIInv, IdIsFresh, LinkInHand, HasId, tables, history
  <2>5. QED
    BY <2>1, <2>3, <2>4, TablesKept DEF RequestsOK
<1>6. ASSUME NEW q \in Request, CreateSubscription(q) PROVE RequestsOK' /\ TablesOK'
  <2>1. /\ req[q].at = "inserting" /\ given' = given + 1
        /\ UNCHANGED <<tables, lock, history>>
    BY <1>6 DEF CreateSubscription
  <2>2. /\ req'[q].at = "queueing" /\ req'[q].id = given + 1
        /\ req'[q].key = req[q].key /\ req'[q].staged = {"subscription"}
        /\ \A p \in Request : p # q => req'[p] = req[p]
    BY <1>0, <1>6 DEF CreateSubscription, ApiTyped, RequestType
  <2>3. \A j \in Id : Live(j) => owner[j] # req[q].key
    BY <1>6 DEF CreateSubscription, Conflicts
  <2>4. LocksHeld' /\ BothStaged' /\ LinkInHand'
    BY <2>1, <2>2 DEF ApiIInv, LocksHeld, BothStaged, LinkInHand, HasLock, history
  <2>5. PairIsFree'
    BY <2>1, <2>2, <2>3 DEF ApiIInv, PairIsFree, HasId, Live, tables
  <2>6. IdIsFresh'
    <3>1. given \in Nat /\ given + 1 \in Id
      BY <1>0, <1>6, ApiAssumption DEF ApiTyped, CreateSubscription, Id
    <3>2. \A p \in Request : HasId(p) => req[p].id \in 1 .. given
      BY DEF ApiIInv, IdIsFresh
    <3>3. \A i \in Id : i > given' => state'[i] = "absent"
      BY <2>1, <3>1 DEF ApiIInv, IdIsFresh, Id, tables
    <3>4. \A p \in Request : HasId(p)' =>
              req'[p].id \in 1 .. given' /\ state'[req'[p].id] = "absent"
      BY <2>1, <2>2, <3>1, <3>2 DEF ApiIInv, IdIsFresh, HasId, Id, tables
    <3>5. \A p, r \in Request : HasId(p)' /\ HasId(r)' /\ req'[p].id = req'[r].id => p = r
      BY <2>2, <3>1, <3>2 DEF ApiIInv, IdIsFresh, HasId
    <3>6. QED
      BY <3>3, <3>4, <3>5 DEF IdIsFresh
  <2>7. QED
    BY <2>1, <2>4, <2>5, <2>6, TablesKept DEF RequestsOK
<1>7. ASSUME NEW q \in Request, CreateConfirmation(q) PROVE RequestsOK' /\ TablesOK'
  <2>1. req[q].at = "queueing" /\ UNCHANGED <<tables, given, lock, history>>
    BY <1>7 DEF CreateConfirmation
  <2>2. /\ req'[q].at = "committing" /\ req'[q].id = req[q].id /\ req'[q].key = req[q].key
        /\ req'[q].staged = req[q].staged \cup {"confirmation"}
        /\ \A p \in Request : p # q => req'[p] = req[p]
    BY <1>0, <1>7 DEF CreateConfirmation, ApiTyped, RequestType
  <2>3. LocksHeld' /\ PairIsFree' /\ BothStaged'
    BY <2>1, <2>2 DEF ApiIInv, LocksHeld, PairIsFree, BothStaged, HasLock, HasId, Live, tables
  <2>4. IdIsFresh' /\ LinkInHand'
    BY <2>1, <2>2 DEF ApiIInv, IdIsFresh, LinkInHand, HasId, tables, history
  <2>5. QED
    BY <2>1, <2>3, <2>4, TablesKept DEF RequestsOK
<1> USE <1>0, ApiAssumption DEF ApiIInv, ApiTyped, RequestType, Place, tables, history, Id,
        RequestsOK, TablesOK,
        LocksHeld, PairIsFree, IdIsFresh, BothStaged, LinkInHand, ClickedExists,
        OutboxTogether, OnePerKey, AcceptedIsStored, ConfirmedByItsLink, ConfirmTellsTruth,
        HasLock, HasId, Live
<1>8. ASSUME NEW q \in Request, NEW email \in Email, NEW text \in Text, Subscribe(q, email, text)
      PROVE RequestsOK' /\ TablesOK'
  BY <1>8 DEF Subscribe, Idle
<1>9. ASSUME NEW q \in Request, Begin(q) PROVE RequestsOK' /\ TablesOK'
  BY <1>9 DEF Begin
<1>10. ASSUME NEW q \in Request, SaveRepo(q) PROVE RequestsOK' /\ TablesOK'
  BY <1>10 DEF SaveRepo, Goto
<1>11. ASSUME NEW q \in Request, FindToken(q) PROVE RequestsOK' /\ TablesOK'
  BY <1>11 DEF FindToken, Goto
<1>12. CASE Time
  BY <1>12 DEF Time, Expire
<1>13. CASE Scanner
  <2>1. /\ \A r \in Repo : lock[r] \in Request => lock'[r] = lock[r]
        /\ UNCHANGED <<tables, given, req, history>>
    BY <1>13 DEF Scanner, ScanEnds, ScanLocks
  <2>2. LocksHeld'
    BY <2>1 DEF Key
  <2>3. QED
    BY <2>1, <2>2
<1>14. CASE UNCHANGED apiVars
  BY <1>14 DEF apiVars
<1> HIDE DEF ApiIInv, RequestsOK, TablesOK
<1>15. QED
  BY <1>1, <1>2, <1>3, <1>4, <1>5, <1>6, <1>7, <1>8, <1>9, <1>10, <1>11, <1>12, <1>13, <1>14
  DEF ApiNext, Serve, ServeFails

-----------------------------------------------------------------------------
\* The invariant holds in every reachable state.
THEOREM ApiInvariant == ApiSpec => []ApiIInv
  BY InitApiIInv, NextApiIInv, PTL DEF ApiSpec

\* Type correctness of every reachable state.
THEOREM ApiTypeCorrect == ApiSpec => []ApiTypeOK
<1>1. ApiIInv => ApiTypeOK
  BY DEF ApiIInv
<1>2. QED
  BY <1>1, ApiInvariant, PTL

\* A subscription and its confirmation are in the tables together or not at
\* all, wherever Subscribe fails and however Unsubscribe cascades.
THEOREM WrittenTogether == ApiSpec => []OutboxTogether
<1>1. ApiIInv => OutboxTogether
  BY DEF ApiIInv
<1>2. QED
  BY <1>1, ApiInvariant, PTL

\* Requests racing for one email and repository leave one subscription.
THEOREM OneSubscriptionPerKey == ApiSpec => []OnePerKey
<1>1. ApiIInv => OnePerKey
  BY DEF ApiIInv
<1>2. QED
  BY <1>1, ApiInvariant, PTL

\* A 202 is kept.
THEOREM AcceptedIsKept == ApiSpec => []AcceptedIsStored
<1>1. ApiIInv => AcceptedIsStored
  BY DEF ApiIInv
<1>2. QED
  BY <1>1, ApiInvariant, PTL

\* Nothing but its own link, while valid, confirms a subscription.
THEOREM OnlyItsLinkConfirms == ApiSpec => []ConfirmedByItsLink
<1>1. ApiIInv => ConfirmedByItsLink
  BY DEF ApiIInv
<1>2. QED
  BY <1>1, ApiInvariant, PTL

\* A 200 to Confirm is true, now and ever after.
THEOREM ConfirmIsTrue == ApiSpec => []ConfirmTellsTruth
<1>1. ApiIInv => ConfirmTellsTruth
  BY DEF ApiIInv
<1>2. QED
  BY <1>1, ApiInvariant, PTL

-----------------------------------------------------------------------------
(* From the text to the row.                                                *)

\* What a request and a row are about was read from the text they came with.
ReadFromText ==
    /\ \A q \in Request :
          req[q].text # <<>> =>
              req[q].text \in Text /\ req[q].key[2] = ParseRepoRef(req[q].text)
    /\ \A i \in Id :
          typed[i] # <<>> => typed[i] \in Text /\ owner[i][2] = ParseRepoRef(typed[i])

LEMMA InitReadFromText == ApiInit => ReadFromText
  BY DEF ApiInit, Idle, ReadFromText

\* A text comes by Subscribe, stays with its pair, and goes with both into
\* the row or with the end of the request.
LEMMA NextReadFromText ==
    ApiIInv /\ ReadFromText /\ [ApiNext]_apiVars => ReadFromText'
<1> SUFFICES ASSUME ApiIInv, ReadFromText, [ApiNext]_apiVars PROVE ReadFromText'
  OBVIOUS
<1>0. /\ req \in [Request -> RequestType]
      /\ typed \in [Id -> Text \cup {<<>>}] /\ owner \in [Id -> Key \cup {Nobody}]
  BY DEF ApiIInv, ApiTypeOK, RequestType, Place, KeyType
<1>1. ASSUME NEW q \in Request, NEW email \in Email, NEW text \in Text,
             Subscribe(q, email, text)
      PROVE  ReadFromText'
  <2>1. /\ req'[q].text = text /\ req'[q].key = <<email, ParseRepoRef(text)>>
        /\ \A p \in Request \ {q} : req'[p] = req[p]
        /\ UNCHANGED <<typed, owner>>
    BY <1>0, <1>1 DEF Subscribe, Idle, tables
  <2>2. QED
    BY <2>1 DEF ReadFromText
<1>2. ASSUME NEW q \in Request,
             \/ req'[q].text = <<>>
             \/ req'[q].text = req[q].text /\ req'[q].key = req[q].key,
             \A p \in Request \ {q} : req'[p] = req[p],
             \/ UNCHANGED <<typed, owner>>
             \/ \E i \in Id : /\ typed' = [typed EXCEPT ![i] = req[q].text]
                              /\ owner' = [owner EXCEPT ![i] = req[q].key]
      PROVE  ReadFromText'
  <2>1. \A p \in Request :
           req'[p].text # <<>> =>
               req'[p].text \in Text /\ req'[p].key[2] = ParseRepoRef(req'[p].text)
    BY <1>2 DEF ReadFromText
  <2>2. \A i \in Id :
           typed'[i] # <<>> => typed'[i] \in Text /\ owner'[i][2] = ParseRepoRef(typed'[i])
    BY <1>0, <1>2 DEF ReadFromText
  <2>3. QED
    BY <2>1, <2>2 DEF ReadFromText
<1>3. ASSUME NEW q \in Request,
             \/ \E i \in Id : Confirm(q, i) \/ Unsubscribe(q, i)
             \/ Serve(q) \/ ServeFails(q) \/ Delete(q)
      PROVE  ReadFromText'
  <2>1. End(q) => req'[q].text = <<>> /\ \A p \in Request \ {q} : req'[p] = req[p]
    BY <1>0 DEF End, Idle
  <2>2. ASSUME NEW i \in Id, Confirm(q, i) \/ Unsubscribe(q, i) PROVE ReadFromText'
    <3>1. /\ req'[q].text = <<>> /\ \A p \in Request \ {q} : req'[p] = req[p]
          /\ UNCHANGED <<typed, owner>>
      BY <1>0, <2>2 DEF Confirm, Unsubscribe, Idle, tables
    <3>2. QED
      BY <1>2, <3>1
  <2>3. CASE Begin(q) \/ SaveRepo(q) \/ CreateSubscription(q) \/ CreateConfirmation(q)
             \/ FindToken(q)
    <3>1. \A r \in RequestType : DOMAIN r = {"at", "text", "key", "id", "began", "staged"}
      BY DEF RequestType
    <3>2. /\ req'[q].text = req[q].text /\ req'[q].key = req[q].key
          /\ \A p \in Request \ {q} : req'[p] = req[p]
          /\ UNCHANGED <<typed, owner>>
      BY <1>0, <2>3, <3>1
      DEF Begin, SaveRepo, CreateSubscription, CreateConfirmation, FindToken, Goto, tables
    <3>3. QED
      BY <1>2, <3>2
  <2>4. CASE Commit(q) \/ CommitUnknown(q)
    <3>1. /\ End(q) /\ req[q].id \in Id
          /\ typed' = [typed EXCEPT ![req[q].id] = req[q].text]
          /\ owner' = [owner EXCEPT ![req[q].id] = req[q].key]
      BY <2>4 DEF Commit, CommitUnknown, Publish, ApiIInv, ApiTypeOK, IdIsFresh, HasId, Id
    <3>2. QED
      BY <1>2, <2>1, <3>1
  <2>5. CASE RepoRefused(q) \/ AlreadyExists(q) \/ TokenRefused(q) \/ MarkConfirmed(q)
             \/ SubscribeFails(q) \/ MarkUnknown(q) \/ ConfirmFails(q) \/ DeleteFails(q)
             \/ Delete(q)
    <3>1. End(q) /\ UNCHANGED <<typed, owner>>
      BY <2>5
      DEF RepoRefused, AlreadyExists, TokenRefused, MarkConfirmed, SetConfirmed,
          SubscribeFails, MarkUnknown, ConfirmFails, DeleteFails, Delete, tables
    <3>2. QED
      BY <1>2, <2>1, <3>1
  <2>6. QED
    BY <1>3, <2>2, <2>3, <2>4, <2>5 DEF Serve, ServeFails
<1>4. ASSUME Time \/ Scanner \/ UNCHANGED apiVars PROVE ReadFromText'
  BY <1>4 DEF Time, Expire, Scanner, ScanEnds, ScanLocks, apiVars, tables, ReadFromText
<1>5. QED
  BY <1>1, <1>3, <1>4 DEF ApiNext

\* A repository named in any form that repo.go promises to accept is the one
\* that GitHub is asked about and the one that is subscribed to.
THEOREM AsksForTheRightOne == ApiSpec => []AsksForWhatItNames
<1>1. ReadFromText => AsksForWhatItNames
  <2>1. ASSUME NEW r \in Repo, NEW t \in Forms(r) PROVE t # <<>> /\ ParseRepoRef(t) = r
    <3>1. IsRef(r)
      BY ApiAssumption DEF IsRef
    <3>2. QED
      BY <3>1, FormsEndWithName, FormsAreRead
  <2>2. QED
    BY <2>1 DEF ReadFromText, AsksForWhatItNames
<1>2. ApiIInv /\ ReadFromText /\ [ApiNext]_apiVars => ReadFromText'
  BY NextReadFromText
<1>3. QED
  BY <1>1, <1>2, InitReadFromText, ApiInvariant, PTL DEF ApiSpec
=============================================================================
