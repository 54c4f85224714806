# Verification of reposeetory

TLA+ models, TLC runs and TLAPS proofs for the release-notification service in
`src/`: a Go monolith (HTTP API, Scanner, Notifier, Confirmer) over PostgreSQL,
Redis and GitHub, and a second service, notifications-svc, that sends emails.

## 1. The system

| component | state | operations | talks to |
|---|---|---|---|
| Subscription API (`internal/subscription`) | `repositories`, `subscriptions`, `confirmation_notifications` | Subscribe, Confirm, Unsubscribe, ListByEmail | GitHub REST (`RepoExists`), PostgreSQL |
| Scanner (`internal/scanner`) | `last_seen_tag`, `last_checked_at`, rows of `release_notifications` | `Tick` | release cache, PostgreSQL |
| GitHub client and cache (`internal/github`) | Redis: one tag per repository, with a TTL | `GetLatestReleases` | Redis, GitHub GraphQL |
| Notifier, Confirmer (`internal/notifier`, `internal/confirmer`) | `sent_at` of the two outbox tables | `Run`, `Flush` | notifications-svc, PostgreSQL |
| notifications-svc (`internal/notifications`, `cmd/notifications-svc`) | requests under way | two POSTs, graceful stop | SMTP server or Resend |
| Transactor, pool (`pkg/transactor`, `internal/app/postgres.go`) | connections, transactions | `WithinTransaction`, `ConnFromContext` | PostgreSQL |
| Log shipper (`internal/observability/logshipper`) | bounded channel, batch, gauge | `Write`, `run`, `postBatch`, `Close` | Vector over HTTP |
| Run and shutdown (`internal/app`) | goroutines, WaitGroup | `Run` | all of the above |
| Metrics, router, pages, configuration | counters | | |

What joins them: the Scanner and the API write outbox rows in the transactions
that cause them, the drainers read them with `FOR UPDATE SKIP LOCKED` and keep
the lock over the call to notifications-svc, Unsubscribe deletes through a
cascade that waits for those locks, the Scanner keeps locks on repositories over
its call to GitHub, and Subscribe needs the same locks. Everything may run in
several replicas; nothing but PostgreSQL and Redis is shared between them.

What is hard here, with the lines, is the `hazards` list of `PROJECT.json`:
delivery before commit, abandoned calls that are finished late, a permanent
error that looks transient, two-statement Confirm, stale cache entries, errors of
GraphQL that come with status 200, a missing map key read as a tag, locks held over
remote calls, a service stopped or killed under its requests, a repository's name
taken from the wrong end of a URL, lines logged during and after shutdown.

What makes each component correct:

- drainers: a row in hand is pending and in one pair of hands; a row is settled
  only after a delivery or a refusal; a settled row is not mailed again, save by
  requests given up before; every row is settled;
- API: subscription and outbox row together or not at all; one subscription per
  pair; an answer that says success tells the truth; only its own valid link
  confirms a subscription; whoever types a form of a repository that the code
  promises to read is subscribed to that one; every request is answered;
- Confirmer: nobody is confirmed without having been mailed; whoever waits for a
  confirmation gets it;
- Scanner: a tag is written only after it was looked up, together with the
  emails it calls for; only new releases are mailed, at least about repositories
  whose answers were complete; every release is noticed, and reaches those who
  were confirmed in time;
- notifications-svc: a call ends in one of the ways the drainers are written for,
  through stops, crashes and restarts; a graceful stop kills no handler whose client
  waits, if it is given longer than the client;
- log shipper: every event is accounted for, Close drains or says it did not;
- shutdown: workers before pool before shipper, and an end in any case.

## 2. Modules

| module | models | state and actions |
|---|---|---|
| `AtLeastOnce` | the contract of an outbox, abstractly | `row`, `copies`, `refused`; no workers, locks or calls |
| `Notifications` | a call from drainer to notifications-svc | `call[w]` (in flight or a status), `late` (abandoned requests), `copies` (emails handed over); one operator per thing the client, the handler or the sender may do |
| `MailService` | the process behind a call: handler goroutines, graceful shutdown, restarts, and the client's timer | `job[j]`: a request, on its way, in its handler, answered or dead; `call[w]`, `about[w]`, `age[w]`: the client; `svc`, `drain`: the process and the time since its signal |
| `Notifier` | `Flush` and the table `release_notifications` | `pc`/`cur`: the place in `Flush` and the locked row; `row`, `stamp`, `sub`: committed data |
| `RepoRef` | `ParseRepoRef` over sequences of tokens, and the forms its comment promises | operators, no state |
| `Subscription` | the API, statement by statement | `req[q].at` is the next statement of request q, `staged` its uncommitted rows, `lock` the row locks on `repositories`, `typed` the texts behind the stored rows |
| `Confirmer` | `Subscription` + `Notifications` + the Confirmer's `Flush` + users who know links only from their mail | |
| `Scanner` | `Tick`, `CachingReleaseProvider`, `Client.GetLatestReleases` | `scan[p]`: the tick of replica p with what it has read and will commit; `begun[p]`: `NOW()` in its transaction; `cache`, `seen`, `checked` (`last_checked_at`); `disturbed`: the repositories that a fault of GitHub or Redis concerned |
| `Releases` | `Scanner` + `AtLeastOnce`: a release from GitHub to the mailbox | `row`, `copies`, `refused` of the outbox; `due`: who is owed an email |
| `LogShipper` | `Write`, `run`, `postBatch`, `Close` | counts of events; `adding`: writers between `in <- dup` and `bufLen.Add(1)` |
| `AppShutdown` | the end of `app.Run` over `LogShipper` | `main`, `handler[h]`, `cron[w]`: program counters |
| `NotifierProofs`, `MailServiceProofs`, `RepoRefProofs`, `SubscriptionProofs`, `ConfirmerProofs`, `ScannerProofs`, `ReleasesProofs`, `AppShutdownProofs` (with the log shipper's) | theorems and their lemmas | |
| `MC*` | instances for TLC | |

Conventions. A transaction's effects are applied by its commit action; what it
has read or staged before is in its own record. A failed statement, a refused
commit, a cancelled context and the end of the process have the same effect on
the database (a rollback) and share an action where they do; a commit whose
answer is lost is an action of its own. A worker that dies and a worker that
waits for its next tick are the same state, so crash and restart are the fault
actions. An id and its tokens are one value: tokens are 32 random bytes and are
taken to be unique. Operators whose comment begins with "Mutant" are wrong on
purpose: they stand for a plausible bug in the definition that follows, and show
that the property named in `PROJECT.json` notices it. No specification uses them.

Abstractions worth knowing:

- `Notifier` and `Confirmer` take MarkSent and COMMIT as one step: the row is
  locked, so nobody can tell the two apart.
- GitHub's answer is what its data say (`Scanner!Answer`): complete (`Ask`), or with
  any repositories left out that do have a release (`AskPartly`), which is how GraphQL
  reports errors under status 200; the client does not read them. An error of the
  connection, a status other than 200 and a body that does not decode are `Abort`.
- `NOW()` is the beginning of a transaction. Only the order of these times counts, so
  `Scanner!Claim` replaces each by its place among those that still matter.
- `RepoRef` reads a text as words, `/`, `.git` and anything else. `.git` is a token
  because `TrimSuffix` knows it; elsewhere in a name it counts as a word, as the
  regular expression has it. Emails are members of a set, equal when typed alike.
- In `MailService` a tick is about 5 s, and a timer that is due fires before the
  next tick. A request posted after the signal finds the listener closed; one posted
  before it may still be read while the service drains. `Shutdown` waits for requests
  from their first byte on (`Busy`); a connection on which nothing has arrived yet it
  may close, and `ReadTimeout` and `WriteTimeout` close others: `Break`. An answer
  nobody waits for is not followed further. The drainers' view of a call is the
  refinement mapping `Seen`: an answer counts from the moment the sender has decided it,
  and a request is late when its client is gone before that.
- `Releases` owes an email only to who was confirmed when the release appeared, and
  only once the repository has been looked at: the code keeps quiet about what it
  finds on its first look.
- `Notifier!Enqueue` is the commit of a scan transaction; `created_at` is the
  start of that transaction, so stamps of rows committed later may be lower, and
  equal stamps may be claimed in any order, as in the code.
- `Confirmer` gives a row the number of subscriptions inserted before its
  transaction began as its `created_at`: a coarse clock, ties in any order. The
  drainers' own connections are not counted against `MaxConns` there.
- `Scanner!Claim` skips locked rows, then applies the limit, like the plan of
  `LIMIT ... FOR UPDATE SKIP LOCKED`. A statement of the tick that waits for, or
  fails on, a concurrent delete is `Abort`.
- `LogShipper` does not model the sleep between attempts, and a request cut off
  by the cancelled context is a failed attempt. A URL that makes no request ends a
  batch at its first attempt; the model lets that happen to any batch.
- `AppShutdown` starts with the process running; handlers log one line, after
  the database; workers log at most when a tick fails.

## 3. Runs

Passing runs:

| run | shows | states | bounds, and why they are enough |
|---|---|---|---|
| `notifier` | ClaimIsStable, SentWasHandedOver, DuplicateNeedsRollback, SettledRowGetsOnlyLateMail, Implements, EveryRowSettles | 16 k | 2 replicas, 2 rows of 2 subscriptions, one malformed, copies up to 2; any hazard needs two workers and one row, or one worker and two rows; the safety part is proved for every size |
| `confirmer` | DoubleOptIn, ClaimIsStable, Implements | 923 k | 2 requests, one connection for them, one worker, one email that may subscribe twice (an overtaken Confirm needs exactly that), the second subscription malformed |
| `confirmer_liveness` | ConfirmationsSettle | 335 k | 2 emails with a row each, one behind the other, so that a row that was mailed, not marked and then confirmed stands before one that waits; 1 request at a time, one worker; the second subscription malformed. Confirm tokens do not expire in this run: expiry leaves a row as it is |
| `subscription` | OutboxTogether, OnePerKey, AcceptedIsStored, ConfirmedByItsLink, ConfirmTellsTruth, AsksForWhatItNames, RequestsEnd | 346 k | 2 requests and a scan for 1 lock and 2 connections, so that two transactions meet at the lock and the third party waits for a connection; 2 ids for one email; a clone URL, which every step of the parsing works on, and the URL of a page. Everything but RequestsEnd is proved for every size and every text |
| `releases` | ReleasesNoticed, ReleasesReachSubscribers | 52 k | 1 replica, 2 repositories, one a tick, so that rotation matters; one of them has 2 releases, so that the cache may lag and answers may leave it out, the other none |
| `scanner_replicas` | LockedAndLookedUp, FaultsStayLocal, ChangeReachesEverybody | 1.6 M | 2 replicas, 2 repositories in ticks of one or two, so that one may be left out of an answer that the other is in; a release that comes, goes and comes back, MGET failing. All three are proved for every size |
| `shutdown` | Accounted, GaugeTracks, NothingLeft, WorkersSilentAfterClose, NoQueryAfterPool, BatchesEnd, ShutdownEnds | 69 k | one request, 2 workers, 1 connection; four goroutines that log, channel 2, batch 2, 7 events: full channel, full batch and a rest at Close |
| `mailservice` | StopCutsNobodyOff, KeepsCallContract, CallsEnd, ServiceStops | 78 k | 2 clients, 2 requests at once, so that one may be abandoned and its row posted again; 10 s and 15 s in ticks of 5 s |

Each module's type invariant is checked in one of its runs. Bounds on
data: `MaxCopies` (copies saturate), `Stamp`, `MaxTag` (releases of each repository),
`MaxId` (ids), `Job` (requests at once), `MaxEvents` (calls of Write), `WorkerEvents`
(workers' log lines; the last lines of `Run` must stay possible). Deadlock is checked
everywhere but in the shutdown's runs, where the system stops for good.

`Releases` uses the contract of the outbox and not its drainers, and keeps the
producers' side of it as long as no fault of GitHub or Redis concerns a repository
(`ScannerKeepsContract`, proved): `Notifier` implements
the contract (`Implements`, proved) and settles every row (`EveryRowSettles`).
`Notifier` and `Confirmer` in turn use `Notifications` and not the service:
`MailService` keeps that contract (`KeepsCallContract`) and ends every call
(`CallsEnd`). Chained, the three say how a release gets from GitHub to a mailbox
through every fault that is modelled.

Runs that are expected to fail, each a statement of the repository that the code
does not keep (quoted in `PROJECT.json`, `findings`):

| run | statement | counterexample |
|---|---|---|
| `notifier_poison` | a permanent failure does not block the outbox | a recipient the sender refuses is a 502, a 502 is transient, the oldest row comes first |
| `subscription_expired` | an expired link: "subscribe again to receive a fresh confirmation email" | the old pending row makes it a 409 |
| `scanner_withdrawn` | only new releases are mailed | a repository without a release has the tag "" |
| `shutdown_panic` | Write never fails | the last line of `Run` is sent on the closed channel |

Seen while modelling, and not runs of their own:

- README.md:63 says that no release notification is ever sent twice. That is
  true of racing replicas; after a lost answer or commit it is not, and
  `DuplicateNeedsRollback` says exactly when.
- docs/spec.md:19 wants a repository in the format `owner/name` and a 400 for anything
  else. Only the last two parts of a text count (`OnlyTheTailCounts`):
  `https://github.com/a/b/releases` is read as repository `releases` of owner `b`, and
  anything before that is not looked at. GitHub usually has no such repository and the
  answer is a 404; where it has one, that one is subscribed to without notice.
  `AsksForWhatItNames` is therefore about the forms that repo.go:16-17 promises, and
  says nothing of other texts.
- client.go:94-112 reads the data of a GraphQL answer and not its errors. An answer
  under status 200 with partial data, or with none, as for a rate limit, leaves
  repositories out of the map; their tag becomes "", an email without a tag is
  queued, and after the next complete answer the old release once more. Releases only
  appear in `PartialSpec`, and `OnlyNewReleases` fails under it all the same (replace
  `WithdrawSpec` in `scanner_withdrawn.cfg`). `FaultsStayLocal` says how far it goes.
- The same answer at the first look at a repository records "" as seen, so that a
  release it has had for long is mailed as a new one.
- `shouldNotify` keeps quiet on the first look at a repository (scanner.go:145). A
  release that appears after a confirmation and before that look reaches nobody.
- Nothing relates `HTTP_SHUTDOWN_TIMEOUT` to the client's 10 s. With a value below
  10 s a graceful stop may kill a request whose email is out and whose client waits:
  with `ClientTimeout = 3` and `ShutdownTimeout = 2` TLC reaches `cut` in six steps.
  `StopCutsNobodyOff` has the inequality as its hypothesis; the default of 15 s
  fulfils it.
- A 4xx settles a row whoever sent it: a wrong `NOTIFICATIONS_URL` whose host answers
  404 empties the outbox without an email (client.go:62).
- OnlyNewReleases fails with a failing MGET too: GitHub's fresh tag reaches the table
  and not Redis, and the next tick reads the old one from there
  (caching_client.go:100-109).
- handler.go:114 calls the confirm token one-time; two requests that both read the
  pending row both answer 200. `ConfirmTellsTruth` says that neither answer is wrong.
- The help text of the log shipper's gauge (logshipper.go:97) counts buffered
  events; between the send of an event and its count the gauge is one too low, and
  may be negative. `GaugeTracks` says by how much.

## 4. Fairness

- Drainers (`Notifier!Fairness`): tickers fire and
  goroutines are scheduled (weak). A call ends: the client has a timeout of 10 s.
  Strong fairness of Claim, Answered, Receive, MarkSent and Commit says that no stage
  fails every single time it is tried; without that assumption, about networks
  and databases and not about the code, an outbox promises nothing. `Answered` is
  never possible for an undeliverable row that is not malformed: that is the
  poison row, and `EveryRowSettles` is checked without one. The Confirmer's fairness
  is the same; the API and its users owe nothing.
- notifications-svc (`MailService!Fairness`): time passes and timers fire. Nothing is
  assumed of the provider, the network, a handler or a restart.
- API (`ApiFairness`): GitHub answers requests and scans, which the client does
  not enforce (it has no timeout); locks and connections are handed out in the
  order of waiting, as PostgreSQL and pgxpool do.
- Scanner: ticks happen, no stage fails for ever, cache keys expire (they have a TTL),
  and GitHub's answers are complete from some time on.
  `Releases` adds what the Notifier shows of its rows: a pending one is delivered or
  refused, then settled.
- Shutdown and log shipper: goroutines run, a POST ends by its 5 s timeout, queries end,
  `select` does not prefer the ticker to the cancelled context for ever. Nothing is assumed of a request in its call to GitHub.

## 5. Proofs

Every safety invariant and action property that a passing run checks is a theorem,
and so are the refinements: the run shows it on a small instance, TLAPS for every
value of the constants. The assumptions are on constants only, named in the modules
that declare them, and TLC evaluates them on every run. In each module one inductive
invariant carries the rest; what follows says what it adds to the property
and why it has to.

`NotifierProofs`, for any sets of workers, rows and subscriptions, from
`RowsAssumption` and `OutboxAssumption` (types of the constants):

- `IInv` is inductive: `TypeOK`, `ControlOK` (a worker holds a row and has a call
  exactly where `Flush` says), `ClaimIsStable`, `Evidence` (a worker about to mark a
  row has been told 204 or 400 about it), `ForeignKey`, `LateExists`,
  `SentWasHandedOver`. `SentWasHandedOver` alone is not inductive: marking needs
  `Evidence`, and that needs to know that the row under the call has not changed,
  which is `ClaimIsStable`.
- `OnlyLateMail` and `ImplementsContract` follow step by step: an answer to a call
  is about a pending row, so a copy for a settled one is late; commits map to
  Settle, unsubscribes to Withdraw, the rest to a step or a stutter.
- `DuplicatesNeedRollback` rests on a larger invariant, `DInv`: a row whose
  transactions all committed has no copies until a worker's call about it is
  answered (`Untouched`, `FirstCall`), and a request is abandoned only together
  with its transaction (`AbandonedIsRetried`), so that neither a second claim nor a
  late delivery concerns such a row.

`MailServiceProofs`, for any clients, rows, requests at once and timeouts, from
`TimeoutAssumption` and `CallersAssumption` (types; the client has a timeout):

- `ServiceInv` is bookkeeping: `Sound` (what a request has at each stage of its
  handler), `CallsHaveRequests` (a call in flight has exactly one request, about its
  row) and `WaitedLonger`: a request that survived the signal was posted before it,
  so its client has waited at least as long as `Shutdown`. If the client's timeout is
  the shorter one its timer then fires first, which is `StopCutsNobodyOff`. Requests
  that are being read count like those in the sender's hands.
- `ServiceKeepsContract` takes each step of the process, its clients or its clock to a
  step of `Notifications` or none. A request that has its answer decided but not
  delivered is where the two differ; `SeenCall` and `SeenLate` say how it looks to
  the drainers. Without `CallsHaveRequests` a stop could end a call twice.

`RepoRefProofs`, for texts of any length: `OnlyTheTailCounts` says that `ParseRepoRef`
returns a repository exactly when the text ends with its name. Each step of the function
is a lemma of its own (`SuffixKeeps`, `TrimKeeps`, `LastTwoKeeps`, `SplitKeeps`): it
keeps the name the text ends with, described by the position where it begins. First and
last positions exist because the natural numbers are well-founded, so no induction over
texts is needed. It follows the parser; what the code promises is
`FormsAreRead`: a plain name or a GitHub URL, bare or with a slash or `.git` behind it, is
read as the repository it was made from (`FormsEndWithName` is the step in between).
From `WordAssumption` (a word has no slash); a name of an existing repository does not
end in `.git`, which GitHub does not allow. For a name that did, the statement would be
false: `a/b.git` is always read as `b`.

`SubscriptionProofs`, for any requests, addresses, repositories, ids and connections,
from `ApiAssumption` (types, and the form of names):

- `ApiIInv` adds to the five properties what a transaction knows between its
  statements: `LocksHeld` (from SaveRepo on it holds the row of its repository),
  `PairIsFree` (what the unique constraint said is still so at COMMIT; this is where
  `OnePerKey` comes from, and only the lock makes it stable), `IdIsFresh` (an id from
  the sequence is in nobody else's hands), `BothStaged` (a transaction that may commit
  has both rows), `LinkInHand` and `ClickedExists` (what a two-statement Confirm
  remembers of the first statement).
- `AsksForTheRightOne` puts `FormsAreRead` under the requests and the rows: the pair that
  a request carries, and the pair of a stored subscription, were read from the text
  that was typed for it (`ReadFromText`).

`ConfirmerProofs`, from `ConfirmerAssumption` as well: steps of the API keep
`ApiIInv`, and `IInv` adds the drainer's part (`ControlOK`, `OneClaimPerRow`,
`ClaimIsStable`, `Evidence`) and `LinksWereMailed`: whoever is about to confirm, or
has, was mailed that row. With `ConfirmedByItsLink` that is `DoubleOptIn`.
`ImplementsContract` is proved for the composition, with COMMIT of a Subscribe as
Enqueue and the cascade of an Unsubscribe as Withdraw.

`ScannerProofs`, for any replicas, repositories, subscriptions and releases, from
`ScannerAssumption`:

- Whatever fails and whatever GitHub withdraws, `IInv` holds: a tick works on what it
  has locked and asks only for what it misses (`TickOK`), makes its emails last
  (`EmailsLast`), and has one for everybody it found confirmed (`AudienceServed`).
  `LocksKeepTicksApart` and the action property `NobodyLeftOut` follow.
- `UndisturbedInv` is about the repositories that no fault of GitHub or Redis has
  concerned, beside any number that one has: their tags only grow from GitHub over the
  cache and the tick to `last_seen_tag` (`TagsGrow`, `LookedUpInOrder`), an email in a
  tick is newer than what was seen (`EmailsAreNews`) and one that was queued is not
  (`QueuedIsSeen`). `NotifiedOnce` follows. For a repository with a fault
  `OnlyNewReleases` is false (run `scanner_withdrawn`, and section 3).

`ReleasesProofs`: a step of `Releases` is a step of the Scanner or none
(`ReleasesIsScanner`), so the Scanner's theorems hold of it; `RowsWereQueued` ties the
outbox to what was queued, and with it every step keeps the producers' side of
`AtLeastOnce`, unless a tick is about to commit an email about a repository with a fault
(`ScannerKeepsContract`). From `ReleasesAssumption` too.

`AppShutdownProofs`, for any finite set of goroutines and any sizes, from
`ShipperAssumption` and `GoroutineAssumption`:

- the log shipper on its own: `IInv` is `TypeOK`, `Accounted`, `GaugeTracks` and
  `Stages`, which says what the background goroutine may still have at each place;
  `NothingLeft` follows from it;
- the whole shutdown is a run of the log shipper (`RunsShipper`): every step of
  `app.Run`, of a handler or of a worker is, for the shipper, a Write, a Close, a
  step of its goroutine or none. What is proved of the shipper with any writers then
  holds in the shutdown (`ShutdownAccounts`, `ShutdownLeavesNothing`);
- `AppInv` is the order of the shutdown: `CronsJoined` (once main has come to the pool
  the workers have returned, and a worker that returned is out of Write) and
  `ClosedLate` (the channel is closed after that). `WorkersGoFirst` needs both;
  `PoolIsEmpty` needs that no connection is handed out once the pool is closing.

Only model-checked: liveness, that is EveryRowSettles, ConfirmationsSettle, RequestsEnd,
ReleasesNoticed, ReleasesReachSubscribers, BatchesEnd, ShutdownEnds, CallsEnd and
ServiceStops. Fairness and ENABLED are beyond the prover. For the same reason the
refinements are proved for the safety part of the specifications.

## 6. Not modelled

- ListByEmail: one SELECT, answers what the table says.
- The RED recorder and the other metrics: each recorder belongs to one goroutine
  from `Start` to `stop`, the value recorded is the last one set, and nothing reads it.
- The outbox and pool collectors: read-only queries with their own deadline.
- Start-up and configuration: sequential, an error ends the process.
- Pages, templates, DTOs: wording and layout. Swagger, infra, scripts, tests.
- What two spellings of one mailbox have in common: the code compares what was typed.
- What a call to GitHub that never ends does to the pool: `RequestsEnd` assumes that
  GitHub answers; only `ShutdownEnds` holds without it.

`PROJECT.json`, `components`, has the list of parts with reasons.

## 7. Plan

All modules of the plan are written, and all their safety properties are proved.
What could be added: the invariance arguments behind the liveness properties (that
the ranking each rests on never grows), as action theorems; `AtLeastOnce` with the
order of delivery for rows that are never retried; and a composition of `Releases` with
`Notifier` itself in place of its contract, for which the two theorems
`ScannerKeepsContract` and `ImplementsContract` are the two halves.
