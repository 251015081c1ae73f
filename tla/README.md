# Verification of the BeeBase subscription service

TLA+ models of `beebase-subscription-service`, TLC runs on small instances of
them, and theorems checked by TLAPS. `PROJECT.json` maps every definition to the
source lines it models.

## The system

The service keeps one PostgreSQL table of subscriptions and one of store events.
Five kinds of HTTP request write them, each in a goroutine of its own:

| request | code | state it reads and writes |
|---|---|---|
| App Store Server Notification | `HandleAppleNotification` | event row, then a row found by original transaction id; updated or created |
| Google RTDN push | `HandleGoogleNotification` | Play API, event row, a row found by purchase token; updated only |
| verify / restore, Apple | `VerifyApplePurchase` | App Store Server API, then the row by transaction id; upserted or created |
| verify / restore, Google | `VerifyGooglePurchase` | Play API, then the row by token; upserted or created |
| account cleanup | `DeleteAllByUser` | all rows of one account, in one DELETE |

`GetSubscription` reads the account's most recently updated row and derives the
entitlement from it. Everything a handler keeps between two steps is local to
it; the handlers interact only through the two tables, under READ COMMITTED and
without explicit locks.

Inventory, with what each part has to get right:

| part | state | operations | hard behaviour | correct when |
|---|---|---|---|---|
| domain (`internal/domain/subscription`) | none (rules about a row) | transition table, `HasActiveAccess`, `shouldApplyUpdate` (in the service) | optional instants, boundaries | legal transitions, no regress in event time, only a revocation shortens access |
| repository (`internal/repository/postgres`) | `subscriptions`, `subscription_events` | `WithTx`, lookups, `Create`, `Update`, `Upsert`, `RecordEventIfNotExists`, `DeleteAllByUser` | lock waits, unique violations, rows deleted under a writer, rollback, crash | one row per purchase; an event is recorded exactly when its change commits |
| webhooks (service) | the request | the two `Handle…Notification` | at-least-once and out-of-order delivery, overlap, redelivery after failure | each notification takes effect at most once, and once all are recorded the row says what the store says |
| verification (service) | the request | the two `Verify…Purchase` | API answer older than the row it is written to; API down | the row keeps its owner; ordering marks survive |
| entitlement (service) | none | `GetSubscription` | several rows per account, passage of time | an account with an active row is `pro` |
| store clients (`internal/platform`) | none | verify a JWS, decode a push, call an API, choose among transactions | malformed, missing, foreign or partial answers | nothing unverified is used; the newest usable transaction is chosen |
| transport, configuration, start-up, shutdown | `env`, what is open, the requests in progress | `config.Load`, `run`, `NewRouter` | half a configuration, a signal at any moment, requests that outlast the drain | only a complete configuration serves; a clean stop has cut nothing off; a signal ends the process |
| the stores (external) | purchases, notifications not yet answered with success | deliver, redeliver, answer the API | lost answers, late and repeated deliveries | - |

The hazards, each at its line, are listed in `PROJECT.json` with the properties
that would notice them.

## Modules

```
SubscriptionDomain            statuses, transitions, ordering test, access rule
  AppleClient                 signed tokens, App Store Server API, choice of a transaction
    AppleDecisions            what they make of a notification or a response
  GoogleClient                Play responses normalised, Pub/Sub pushes decoded
  SubscriptionRepository      tables, transactions, locks; RepositorySpec: any client
    SubscriptionRequirements  what the tables promise
    AppleWebhook              HandleAppleNotification
    ApplePurchase             VerifyApplePurchase
    GoogleWebhook             HandleGoogleNotification (with GoogleClient)
      GooglePurchase          VerifyGooglePurchase
    Entitlement               GetSubscription
      SubscriptionService     all handlers over one database; fairness
        StoreDelivery         the service between two stores that redeliver
          StoreLives          the lives of purchases it follows to the end
NotificationLedger            the abstract promise of processing notifications
AppleLedger                   the ledger read off the webhook's two tables
Server                        the process: configuration, start, requests, shutdown
StoreSamples                  certificates, tokens and responses for the instances
MCAppleWebhook, MCService, MCMarket, MCDelivery, MCStores   instances for TLC
RepositoryProofs              theorems about RepositorySpec
ServiceProofs                 ServiceSpec implements RepositorySpec; corollaries
DatesProofs                   expiry and cancellation dates of the service's rows
SerialProofs                  requests about one purchase that do not overlap
LedgerProofs                  the serial webhook implements the ledger
DeliveryProofs                DeliverySpec implements ServiceSpec; SettledIsRecorded;
                              lives in order end with the store's access
ServerProofs                  theorems about ServerSpec
AppleProofs                   what AppleClient decides, for every input
```

### State

`subs` and `events` are the committed contents of the two tables. For each
handler, `pc` is the step its request is at, `job` what the request carries (the
decoded notification, the caller, the store's answer), and `write` the statement
it is about to send or has sent. `now` is the service's clock.

A row keeps id, account, purchase, status, `expires_at`, `cancelled_at`,
`last_event_at` and `updated_at`. "Purchase" stands for (provider, original
transaction id) or (provider, purchase token); product, environment, renewal flag
and transaction id are written along with the status and read by no decision,
and are left out. Instants are small naturals, 0 for a nil pointer.

### Steps of a handler

A handler that writes goes `idle -> [call] -> [record] -> find -> [write] ->
commit -> idle`. One step is one interaction with the world outside the handler:
the arrival of the request, the answer of a store API, the insert of the event
row, the SELECT together with the decision taken from it, the INSERT, UPDATE or
upsert, the COMMIT. What a transaction has written is not in `subs` or `events`
before the commit; instead

- an inserted event row blocks other inserts of the same event (`EventFree`), and
- a statement that was sent locks its row and its unique index entry (`Locks`)
  until the end of the transaction, and other statements wait (`Blocked`).

`Rollback` may happen at any step: it stands for a database error, the 30 s
request timeout, a cancelled context and the death of the process. They differ
only in what the client is told. `WriteFails` is a unique violation or an UPDATE
that finds no row. The cleanup's DELETE fixes the rows it sees, waits for their
locks, and removes those that are still there.

A handler's ways on are `GoOn`, which gives no success answer, and `Conclude`,
which does (a commit, a duplicate skipped, a finished cleanup); the store sees
the difference. Best-effort event inserts whose error is ignored either happen or
do not (`RecordOnly`).

Definitions introduced as "Variant of" are plausible mistakes in the code. Nothing
uses them; `PROJECT.json` pairs each with the property that would notice it.

### The store clients

`AppleClient` models what is decided about bytes: which token verifies (a chain to
an embedded root through the header's own authorities, the leaf's notification
OID, its ECDSA key, ES256, the signature), what a notification with three nested
tokens comes to (`Disposition`), which API response is unavailable, refused or
usable, and the reconciliation loop, turn by turn over the returned transactions.
`GoogleClient` does the same for `normalizeSubscriptionV2` and the Pub/Sub decoder.
`MCService` feeds the handlers with what these operators make of raw pushes and
responses, so that a flaw in the client shows in the table (`GoogleRowsExpire`).

### The stores

`StoreDelivery` puts the service between two stores. A store takes a purchase
through the stages of a life; entering one it sends a notification and goes on
delivering it until it has seen a success answer, which may be lost after the
commit (`Answer`). The API tells what is true at the moment of the call (`Today`),
also when the notification that led to the call is an old one. Clients submit
receipts of purchases that were made, at any time.

### The process

`Server` follows `run()`: what `config.Load` and the wiring refuse, the order in which
the pool, the session store and the keys are opened and the deferred calls close
them, SIGTERM at any moment, `Shutdown` with its deadline shorter than a request's
timeout, a pool whose `Close` waits for the connections in use, the two timeouts of
a request. A request there is a session lookup and at most one use of a
connection; what happens inside that is `SubscriptionService`'s.

### The abstract specifications

`NotificationLedger` says what processing notifications promises: a ledger with at
most one entry per purchase, and notifications consumed at most once, each in one
step that decides from the entry as it stands. `AppleWebhook` implements it with
entry = row and consumed = event table, provided that requests about one purchase
do not overlap (`SerialAppleWebhookSpec`); that is a theorem, `AppleImplementsLedger`.
Nothing in the service ensures the proviso; the run `AppleWebhook_ord01` shows what
happens without it.

`RepositorySpec` is the abstraction of every handler: a client that calls the
repository's primitives in order with any data. `ServiceSpec` implements it, and
`DeliverySpec` implements `ServiceSpec`; both are theorems.

## Runs

| run | what is checked | distinct states |
|---|---|---|
| `AppleWebhook_serial` | notifications of two purchases, those of one not overlapping: refinement of `NotificationLedger`; revoked is terminal; event time, paid period and status only move forward | 57,800 |
| `Service` | webhook, verification by two accounts, cleanup, all interleaved on one purchase, of either store: one row, fixed owner, events held once and recorded only by a commit, changes only with their event row, no revival by an UPDATE, no Google row without expiry, cancellation dates that agree with the status; the invariant behind the proofs | 317,300 |
| `Delivery_settles` | six lives of a purchase, delivered late, repeatedly and in any order, with failures and verifications in between, requests about the purchase not overlapping: once everything is recorded the row gives access exactly while the store does; after a recorded revocation it gives none; no regress in event time, webhooks leave revoked rows alone, a cancellation keeps its first date until the subscription runs again | 287,074 |
| `Delivery_retries` | answers lost, deliveries overlapping, outages and cleanups: what is settled is recorded; everything sent is recorded in the end; every request ends | 11,340 |
| `Stores` | every notification over sample tokens and every short API response: nothing unverified or of another environment is processed or taken over; reconciling selects the newest acceptable transaction, and refuses when that one cannot be used | 56,520 |
| `Server` | the process from its environment to its exit, two requests: only a complete configuration serves; no query is cut off; a clean stop has finished every request; a signal ends the process | 269,880 |
| `AppleWebhook_ord01`, `Service_recreate`, `Entitlement_latest`, `Delivery_overtaken`, `Delivery_rejected`, `Server_google` | each shows one statement of the code's comments, tests or README that the code does not keep (below) | |

### Bounds, and why they are enough

- Two handlers. Every property relates at most two transactions and the tables: a
  second handler is what the first one can race with, block on or deadlock with.
  `RepositoryInvariant` and its corollaries are theorems for any number.
- One purchase at a time in `Service` (`MCMarket`: each behaviour picks one of an
  Apple and a Google purchase, and its requests are about that or are cleanups).
  Handlers of different purchases share no row, no index entry and no event, so
  together they could only occupy handlers. The serial runs of the webhook have
  two purchases, so that handlers do overlap there.
- Three or four row ids: a committed row and one per handler, and one more to
  recreate a deleted row while the old id is still in flight. The delivery runs
  without cleanup have two.
- Two accounts where ownership matters, one elsewhere.
- Clock up to 2 where the time of processing is stored or decides something (grace
  period, `cancelled_at`), up to the last date of the lives in `Delivery_settles`, so
  that every notification is sent, delivered and judged after every other.
- The lives of `Delivery_settles` are that of `Delivery_overtaken`, which its proviso saves,
  and five of three or four stages: each has an event that must not be undone by
  an older one and one that must be (a renewal after a cancellation, a recovery
  after a failed payment). `Delivery_retries` has two notifications that overlap, and
  one that needs an answer of the API.
- API responses with up to two groups and three transactions: an older candidate
  before and after a newer one, equals, and every reason to skip one.
- Two requests in `Server`: one may hold what the other waits for.
- Handlers and row ids are symmetric in every run without liveness; no property or
  action names one of them.

The mix of notifications covers every status, a missing account token, another
account's token, missing dates, an informational type, the pushes that are not
about a subscription and those that cannot be decoded.

`CHECK_DEADLOCK FALSE` is said of the runs that really end: `Stores` decides one input,
and the process of `Server` exits.

### Fairness

- Handlers (`DeliveryFairness`, as `Fairness` of `SubscriptionService`): weak fairness of
  an accepted request's own steps, which is the Go scheduler with the time limits of
  the store clients (10 s for Apple, the request's 30 s for Google); strong fairness of
  the steps that wait for a lock, which is PostgreSQL's queue of lock waiters.
- Stores: strong fairness of the redelivery of each notification that has seen no
  success answer. Both stores document retries, and they are the environment.
- `EventuallyRecorded` starts from `healthy`: the last outage and the last account
  cleanup are over. Without it the promise is false, and not only because failures
  may go on forever: an account that is cleaned up each time between a
  notification's SELECT and its UPDATE, and verified again before the next
  delivery, makes every delivery fail.
- Process (`ServerFairness`): connecting ends at its timeout, the fetch of the keys when
  the signal cancels its context, a request at its 30 s timeout, and a reply is
  written. Nothing is assumed to succeed, and nothing of the database or the stores.

## Disagreements shown

- `AppleWebhook_ord01`: comments and tests named ORD-01 say a strictly older event
  is rejected. The test compares with a row read without a lock, so of two
  overlapping notifications the older may commit last and win.
- `Delivery_overtaken`: the code calls `revoked` terminal. A verification that has
  its answer from before a refund writes the row active after the refund was
  processed, and no further notification corrects it.
- `Delivery_rejected`: the Play API is called the authoritative source. From
  `billing_retry` the transition table permits no `cancelled`; if the notification of
  the recovery is processed after the purchase was cancelled, the API's answer is
  rejected, recorded as processed, and a period that is paid for gives no access.
- `Service_recreate`: the comment on `DeleteAllByUser` says later webhooks are
  ignored; one with an account token creates the row again.
- `Entitlement_latest`: the README grants `pro` to users who hold an active
  subscription; only the most recently updated row is asked.
- `Server_google`: "google webhook disabled" leaves the routes mounted over a nil
  handler, because a nil `*GoogleHandler` is not a nil `http.Handler`; every push
  panics and is answered 500.

Others that need no run:

- README:171 says restore re-links a purchase to the caller's account; the upsert
  never writes `user_id`, which is the theorem `ServiceOwnersFixed`.
- README:153 counts `billing_retry` and `grace_period` as active; `HasActiveAccess` denies
  the first, and for App Store purchases the second too, once the unpaid period's
  `expires_at` is over. (Google extends the expiry.)
- README:176-177 says webhooks are not exposed by the router; `NewRouter` mounts them.
- A verification for which Apple's API is unavailable stores the receipt as active
  whatever the row says, a revoked row included (service.go:789).
- A Play purchase that is still `PENDING` is verified as active: `mapGoogleStatus` is
  called with type 0 and falls through to its default.

## Proofs

All theorems are for every value of the constants, under the named assumptions:
`Nil` is no account, purchase or event and the clock's bound is positive
(`RepositoryAssumption`); the sets of notifications, receipts, tokens and answers
have their types; the lives have theirs, and a store answers about the purchases
it has sold (`DeliveryAssumption`).

`RepositoryProofs` is about `RepositorySpec`, handlers that call the repository's
primitives in order with arbitrary data. Its invariant `RepositoryInvariant` is the
conjunction of

- `RepositoryTypeOK`;
- `PhasesMatch`: a statement exists exactly from its staging to the end of the
  transaction;
- `EventHeldOnce`: an event row inserted by a transaction is not recorded and not
  held by another;
- `OneRowPerPurchase`;
- `IDsMeanOnePurchase`: an id stands for one purchase in the table and in every
  statement in flight, and an id being created occurs nowhere else;
- `SentStatementsHold`: a statement that was sent still succeeds whatever commits
  before it, and no other sent statement has its row or index entry.

`OneRowPerPurchase` is not inductive: a commit adds a row long after the check for a
duplicate was made. `SentStatementsHold` carries the result of that check to the
commit; it is kept by the locks, and needs `IDsMeanOnePurchase` because an UPDATE
locks by id and an INSERT by purchase. The proofs go action by action: `TypeStep`
for the types, `FrameStep` for what a handler's step leaves alone, then one lemma
per conjunct. `AppliedOnce`, `EventsCommitted`, `OwnersFixed` and `NothingRevived`
derive the action properties from the invariant.

`ServiceProofs` shows `ServiceSpec => RepositorySpec`: with `JobsMatchKinds` (a
webhook's job has an event and a purchase, a verification's has an account and no
event) every action of the five handlers is a step of the repository's client. The
invariant and the action properties follow for the whole service.

`DatesProofs` shows `GoogleRowsExpire` and `AppleCancellationsDated` for `ServiceSpec`. Its
invariant says of the rows, of the statements in flight and of what the handlers
have in hand that they are dated; a handler that has its store's answer has a date
to write. Both theorems assume `StoresDate`: found Google answers have an expiry (which
the lemma `FoundExpires` shows of the client), Apple's API has no status that is stored
as `cancelled`, and no purchase is of both stores.

`SerialProofs` is about requests of one purchase that do not overlap, of all five
handlers and of the Apple webhook alone. The properties of a commit relate the row it
replaces to the row it writes; the decision to write was taken at the SELECT, many
steps earlier. `SerialInvariant` therefore adds to `RepositoryInvariant` and
`JobsMatchKinds`

- `OnePerPurchase`: of the handlers that have a purchase in hand, no two have the same;
- `JobsName`: whatever is in flight was asked about a purchase that exists;
- `DecisionsStand`: what a handler is about to commit is what the code would decide
  from the row as it is now.

`DecisionsStand` is the one that says why serial requests are safe: it holds when the
decision is taken, and it goes on holding because only a handler of the same purchase
could change that row, and the cleanup, which removes rows of many purchases, can only
make an UPDATE fail. With overlapping requests it is false, which is the run
`AppleWebhook_ord01`. `SerialOrdersEvents`, `SerialKeepsRevoked` and, with the invariant
that Google's handlers work for purchases of Google, `SerialKeepsCancellation` follow for
every handler, and for the Apple webhook alone `AppleRevokedIsTerminal`,
`AppleOnlyRevocationShortens`, `AppleOnlyLegalTransitions` and `AppleOrdersEvents`.

`LedgerProofs` maps every step of the serial webhook to a step of the ledger or to a
stutter: a commit to the entry it opens or amends, or to a notification consumed
without one; everything before a commit, and a rollback, to a stutter. `DecisionsStand`
gives the ledger's guard at the commit.

`DeliveryProofs` shows `DeliverySpec => ServiceSpec`, so the theorems hold between the
stores too, and `SettledIsRecorded`: a success answer is given for an event only in
the step that records it or when it is found recorded. Its invariant adds that a job
is about a purchase that was made (the API's answers are then those of a stage, and
so within the service's constants) and that a cleanup has no event to settle. The
serial form implements the serial service, so `DeliveryOrdersEvents` and
`DeliveryKeepsCancellation` follow.

What the whole design is for, that a row ends up telling what its store grants, is proved
for any number of purchases, handlers and stages, while requests about one purchase do
not overlap. Not every life ends so, as `Delivery_rejected` shows, so the theorems have
to say which do. `StoreLives` judges the data of a life, stage by stage, with nothing of
the service in it but its pure decisions: the mapping of a status, the webhooks' test and
the access rule. All three theorems assume `EventsIdentify`: an event id is one
notification's, and a life has that once.

- `SerialPlainEndsSettle` assumes nothing else of the lives. It speaks of purchases whose
  last notification and every answer since say plainly (`EndsPlainly`) that the purchase
  was taken back, or that it is renewed for longer than anything before has said. No older
  notification is dated later, or alone in naming an account. For an App Store purchase its
  API has to be configured and to answer: otherwise the receipt alone would make a refunded
  purchase active again (service.go:789).
- `SerialRevocationLasts` follows: where the stores say plainly what they take back
  (`RevocationsTold`), a revoked purchase gives no access. `RevocationsTold` holds of the
  life in `Delivery_overtaken`, so what that run finds is the overlap's doing alone.
- `SerialSettles` is `EventsIdentify /\ OrderlyLives => (SerialDeliverySpec =>
  []PaidAccessSettles)`, about every end of a life: wherever it stops, the last
  notification is in order (`EndsInOrder`), and every view in `Settled` gives access
  exactly while the store does. `Settled` holds what that notification says, what an API
  says now, what would not let the notification in, and the earlier notifications that
  these let in.

What remains to be proved is that nothing else can be in the row, and that is what
redelivery, reordering, lost answers, failures, requests that wait through several stages
and verifications in between could spoil. This is one invariant, for lives of any kind,
and of a purchase it says as much as the stage that it is at allows (`SettlesAt`: the end
is in order, and what `Settled` holds lets in nothing else).

`LifeInvariant` adds to `DeliveryInvariant` and `SerialInvariant`

- `RowsFollow`: a row says something that could be learned by now (`Past`), and once the
  last notification of a stage that settles is recorded something settled; its `last_event_at` is the date of a
  notification that was sent;
- `WebhooksFollow` and `VerificationsFollow`: so does what a request under way has
  learned, at a stage no earlier than its notification's. While the last notification is
  recorded no request is left that asked an API at an earlier stage: it would have
  overlapped with the delivery that recorded it. This is where overlap does its harm;
- `RowsMade` and `Founded`: a recorded notification that names an account has left a
  row, and a decision taken from a row has it at the commit;
- `EventsSent`, `StagesBegun` and `NoCleanups`, which say where the rest comes from.

The argument is in `DeliveredFollows`: the last notification is written, or the row's view
would not let it in (its date cannot be the reason, `LastNotDropped`), and either way the
row is settled; an earlier one that comes later is judged by a settled row, and
`SettlesAt` closes `Settled` under that. `QuietTells` then reads the access off `Settled`.
For plain ends that set is worked out once for all: `RevocationSettles` (every row that is
not revoked lets a revocation in; from `expired` only a revocation or a renewal leads on, and
nobody says renewed now) and `RenewalSettles` (every row that is not revoked lets in an
active status with the longest expiry, and then nothing shorter).

The hypotheses are not empty: TLC evaluates in `MCDelivery` that the lives of
`Delivery_settles` are in order, tell their revocations and, all but one, end plainly, and
that the life of `Delivery_rejected` is not in order, its first and third stage, but not the
last, being plain ends. On lives in order `PaidAccessSettles` says more than
`PlainEndsSettle`, so no run checks the latter: it is for the other lives, and rests on the
theorem.

`DeliveryDates` carries the theorems of `DatesProofs` over to the service between its
stores, under the same `StoresDate`.

`ServerProofs` shows `ServerInvariant` inductive: `Opened` (which resources are open
at each phase, and that the checks were passed), `Served` (a connection in use keeps
the pool from being closed; an error result is inevitable while a request is
active) and `Returned`. `ServesOnlyConfigured`, `NoQueryOutlivesThePool` and
`CleanStopFinishesRequests` follow, for any number of requests.

`AppleProofs` is about single decisions, of any notification and of responses of any
length. `AppleFailsClosed` needs what the roots are trusted for (`TrustAssumption`: an
authority of Apple's certifies only authorities of Apple's, and gives the notification
OID only to its own servers' keys); the header's certificates are then vouched for by
Apple's names or not at all, in whatever order they are listed. `AppleReconcileIsSelection`
says what the loop computes. Recursive functions are reasoned about with `LeastNumber`
(a set of numbers has a least one): `Induction` and `LoopRuns` follow from it, and with
them that the reading order of a response is a sequence (`FlattenSeqIsSeq`) and that
after n turns the loop holds the newest of the first n items (`SelectsNewest`).

Only model-checked: liveness under fairness (`EventuallyRecorded`, `RequestsEnd`,
`SignalStops`), which is out of the prover's reach. Every invariant and action property of
the passing runs is a theorem.

## Not modelled

- Base64, ASN.1, JSON and timestamps as syntax; the minting of the JWT for Apple's
  API; validation messages and log lines. Whether each parses is an input.
- The validity periods of certificates, which are checked against the current time; that
  a chain verifies is a relation between certificates here. And that an expiry a Google
  response gives as year 1 counts as none.
- Between the stores of `StoreDelivery`: the notifications that are answered with success
  after a best-effort insert (service.go:145, 203, 463, 475, 522). `ServiceSpec` has them.
- Health probes and idle timeouts: no state behind them.
- The fields of a response beside the entitlement.
- Durations as numbers: that one timeout is shorter than another is modelled by
  letting either end first.
- The connection pool's limit: a handler holds one connection, and never asks for
  a second.
- `TransitionTo`, `IsNewerExpiryThan`, `FindByID` and `GetEvent`, which nothing calls.
- PostgreSQL, net/http, pgxpool, the Redis session store and the `beebase-common`
  packages (server wrapper, authentication) are external: modelled from how this
  code uses them. That fetching the keys honours its context is assumed.

## Plan

1. Done: repository, handlers, their composition, the ledger, the entitlement's
   reads, the store clients, the stores with redelivery, the process; the theorems
   above.
2. Prove next, if the code grows: more plain ends, a purchase that is switched off or on
   account hold. They need the order in which a life gets there, because the transition
   table lets `cancelled` and `billing_retry` in from few statuses (`Delivery_rejected`).
3. Model next, if the code grows: the pool's limit once a handler needs two
   connections; background jobs, of which there are none now.
