# Verification of go-order-system

TLA+ models of the event-driven core of go-order-system, the TLC runs that
check them on small instances, and theorems that TLAPS proves for every value
of the constants. Paths are relative to the repository root (`src/` here).

Check a run with `tlc -config Relay.cfg MCRelay.tla` (the table under *Runs*
gives the module of each configuration) and a proof with
`tlapm RelayProofs.tla`.

## 1. The system

Five Go services share nothing but Kafka. Four of them (order, inventory,
payment, auth) write an `outbox` table in the transaction that changes their
business tables; a relay goroutine publishes the outbox rows. Five copies of
`internal/kafka` hold the same consumer, dead-letter and relay code, one per
service, so each is modelled once and the map names lines of several copies.

| component | code | state | operations | hard because |
|---|---|---|---|---|
| order saga | `*/internal/{order,inventory,payment}/repository.go`, `*/cmd/api/main.go` | orders, stock, payments, processed_events, outboxes, topics, offsets, breaker | create, reserve, pay, release, confirm, fail | five consumers and three relays interleave; every hand-over may fail, crash or be repeated; a declined payment is committed *and* retried |
| outbox relay | `*/internal/kafka/relay.go` | outbox table, result set | poll, publish, mark | two systems without a common transaction; `created_at` is not commit order |
| Kafka consumer, DLQ | `*/internal/kafka/consumer.go`, `dlq.go` | position, attempt, offsets | poll, handle, retry, dead-letter, return | background commits, SIGTERM in a batch, what the process does when `Start` returns |
| circuit breaker | `payment-service/internal/circuit/breaker.go` | state, count, time of last failure | Execute | the mutex is free while the function runs |
| notification-service | `notification-service/internal/notification/repository.go` | processed_events, notifications | check, record | check and write are two calls; partitions move between instances |
| refresh tokens | `auth-service/internal/auth/{service,repository}.go` | refresh_tokens, pool connections | login, refresh, logout | check and rotation are two calls; logout never closes its rows |
| signup | `auth-service/internal/auth/{service,repository}.go` | users, outbox | signup | two requests with one address; a COMMIT in doubt |
| order creation and queries | `order-service/internal/order/*.go` | orders, order_items, outbox, pool connections | CreateOrder, GetOrder, GetOrders | ids are clock readings; two statements without a transaction; an error that ends the iteration is not looked at; the relay needs two connections |
| inventory row locks | `inventory-service/internal/inventory/repository.go` | row locks | UPDATEs in item order | two consumers can deadlock; a guard decided long before the COMMIT |
| rate limiter | `shared/middleware/rate_limiter.go` | bucket per client | getLimiter, Allow, clean-up | two mutexes; the clean-up between lookup and use |
| process lifecycle | `*/cmd/api/main.go` | goroutines | start, SIGTERM | consumers and relay end while HTTP lives on |
| middleware, JWT, DTOs, responses, logger, env, ids | `shared/`, handlers | none | parsing, formatting | -- |

How they interact: `order.created` goes from order-service to
inventory-service, `inventory.reserved` to payment-service,
`payment.succeeded` to order-service and notification-service,
`payment.failed` to inventory-service (which gives the stock back) and
`inventory.unreserved` to order-service (which fails the order);
`user.registered` goes from auth-service to notification-service.

What makes each part correct: the saga loses no step and has no effect without
its cause; the stock table is a ledger of the events; the relay delivers
committed events at least once and nothing else; an offset covers only records
that are settled; the breaker notices an outage and pauses its trials; an event
is notified and, by one instance, once; a token that was exchanged as it was
issued is not exchanged again by a later request; an account and its event come
together; an order is whole wherever it is seen; interleaved stock
transactions are atomic; a client is limited as if it were never forgotten.
`PROJECT.json`
lists the hazards line by line, with the properties aimed at each.

## 2. Modules

Each component has a model, a `...Properties` module that states what it
guarantees, and theorems in a `...Proofs` module; ReliabilityProofs holds those
of the three smaller components. FoldTheorems has what several proofs need of
finite sets and sums. The `MC...` modules define constants, symmetry and the bounds of
TLC's runs.

    OrderSaga      <- OrderSagaProperties      <- MCOrderSaga, OrderSagaProofs
                       (INSTANCE GroupCursor, AtomicStock)
    Relay          <- RelayProperties          <- MCRelay, RelayProofs
                       (INSTANCE OutboxDelivery)
    Consumer       <- ConsumerProperties       <- ReliabilityProofs
                       (INSTANCE GroupCursor)
    Breaker        <- BreakerProperties        <- ReliabilityProofs
    Notification   <- NotificationProperties   <- MCNotification, NotificationProofs
    RefreshTokens  <- RefreshTokensProperties  <- AuthService <- MCAuthService,
                                                                 AuthServiceProofs
                                    (AuthService: INSTANCE Signup)
    OrderService   <- OrderServiceProperties   <- MCOrderService, OrderServiceProofs
    InventoryTx    <- InventoryTxProperties    <- MCInventoryTx, InventoryTxProofs
                       (INSTANCE AtomicStock)
    RateLimiter    <- RateLimiterProperties    <- ReliabilityProofs
    FoldTheorems   <- OrderSagaProofs, OrderServiceProofs

The names of actions are those of the Go functions where there is one. A
database call that can fail appears as the call, plus `CallFails` and its error
path, within `MaxErrors`; a COMMIT that fails may or may not have taken effect.

**OrderSaga** composes order-, inventory- and payment-service. A handler's
transaction is one step (PostgreSQL commits it atomically); publishing a row
and marking it are two steps, as are handling a record and committing its
offset. `UpdateOrderStatus` overwrites any status, `ReserveInventory` writes
`processed_events` that nobody reads, `UnreserveInventory` has no guard,
`ProcessPayment` commits a declined payment, which the handler then reports as
an error to the breaker and to the retry loop -- all as the code does. Two
parts stand for whole models of their own: the relay publishes an outbox in
insertion order, justified by `CausalOrder` of Relay (a saga event depends only
on events whose transactions had committed before), and the consumer is the
cursor that `ImplementsCursor` shows Consumer to be (`ConsumerIsCursor` says it
of the saga). That the stock transaction may be one step is what
`ImplementsAtomicStock` of InventoryTx shows (`StockIsAtomic` of the saga). The items of an order are
its `Demand`, because every event copies them unchanged. The breaker's cooldown
is either over or not when it is asked; Breaker has its time.

**Relay** is `processOutbox` statement by statement (`Select`, `Publish`,
`Mark`, each with its failure) over a table whose rows are written by
transactions that stay open: `Begin` dates the row (`DEFAULT NOW()`),
`Commit` makes it visible later, `Rollback` removes it. **OutboxDelivery** is
what it promises: accept, deliver at least once, settle only after delivery.

**Consumer** is `Start` with its retry loop, `SendToDLQ` and the ways in which
`Start` returns: a poll with errors, or the cancelled context after SIGTERM.
`FatalOnReturn` tells the services that then `log.Fatal` from those that start
the loop as a goroutine and ignore its result. The background commits of the
client library (franz-go) are modelled from how the code uses it and marked
external. **GroupCursor** is a consumer group as seen from outside.

**Breaker** splits `Execute` into the two critical sections, `Enter` and
`Return`; time is ticks since the last failure.

**Notification** keeps the check of `processed_events` and the recording
transaction apart and lets several instances share a partition that moves; an
instance goes on with the batch it had fetched. Left out: an instance that
regains the partition while it is still busy with its old batch. An event is
its `event_id`; a second payment of an order has an `event_id` of its own, so
an order that is paid twice is notified twice, which the dedup cannot see. The
transaction that notifies and marks is one step, as PostgreSQL commits it; what
an offset may cover is stated over the notifications, not over the marks by which
the code skips an event.

**RefreshTokens** keeps the lookup and the rotation apart, tells how a token
was presented (`Forms`: the lookup strips blanks, the UPDATE does not) and
counts the connections that `UpdateRefreshTokenToExpired` keeps, because it
runs an UPDATE with `Query` and never closes the rows. The history variable
`exchanges` counts the exchanges of a token from the first one on that presented
it as it was issued: before, blanks get it exchanged again and again.

**Signup** is `CreateUser` statement by statement. A request and the user it may
become are one value, because each request makes a fresh ULID. `users.email` is
UNIQUE, the user and its event are inserted one after the other into the open
transaction (`written`) and come into the tables by its COMMIT. An INSERT waits for an open transaction with the same address
(`OpenElsewhere`) and fails if the address is committed (`EmailExists`, answered
409); every other error is answered 500, and a COMMIT that fails may have taken
effect. **AuthService** puts Signup and RefreshTokens into one process: only
committed accounts log in, a crash hits both, and a sign-up needs a connection
that logouts have not kept.

**OrderService** is one instance of order-service: `CreateOrder` INSERT by
INSERT, `GetOrder` with its two SELECTs (the first strips blanks from the id, the
second does not), `GetOrders` as a fold over the rows of the LEFT JOIN, which may
break off unnoticed, and the relay, all over one pool. Ids are readings of a clock that
may stand still: two equal ids meet at a primary key, where the second INSERT
waits for the first transaction, with the id it was sent with (`waiting`), and then
fails or goes on. The relay holds a
connection for its result set while each UPDATE takes another. SIGTERM ends the
relay and not the HTTP server. The status of an order and the two consumers are
in OrderSaga.

**InventoryTx** is `ReserveInventory` and `UnreserveInventory` UPDATE by UPDATE.
PostgreSQL at READ COMMITTED is modelled as an UPDATE sees it: the row is locked
until the end of the transaction, the WHERE is decided by the committed row and
the transaction's own writes before it waits and again afterwards, and of two
transactions that wait for each other one statement fails. Quantities may be
negative and a product may be listed twice, because `dto.go` admits both.
**AtomicStock** is the stock with reservations and releases as single steps.

**RateLimiter** keeps lookup (`GetLimiter`, under the map's mutex) and draw
(`Admit`, `Reject`, under the bucket's) apart, and the clean-up's cutoff from its
deletions. Fractions of a token are ticks of refill. The history variable
`credit` is the bucket a limiter would keep that never forgets anybody; `slow`
are the clients of which a request was held up between the two for longer than
`Grace`, for whom nothing is claimed: such a request draws from a bucket that may
have been forgotten while its client gets a new one.

## 3. Runs

| run | module | shows |
|---|---|---|
| OrderSaga | MCOrderSaga | an order with one failed call or one crash anywhere, or two orders and stock for one: the inductive invariant (no phantom outcome is part of it), no lost step, the ledger, nothing twice before the fault, and every order settles unless a consumer gives up on one of its events |
| Relay | MCRelay | refinement of OutboxDelivery with its liveness, causality, duplicates only with faults |
| Consumer | ConsumerProperties | refinement of GroupCursor, no handler run on committed records, bounded retries, every record settled |
| Breaker | BreakerProperties | overlapping callers: outages noticed, cooldown, recovery |
| Notification | MCNotification | two instances and rebalances: bounded duplicates, nothing skipped, all settled |
| AuthService | MCAuthService | sign-ups, logins, refreshes (tokens as issued and with blanks) and logouts together: accounts and events, one account per address, true answers, exchanges bounded, signed out until a login |
| InventoryTx | MCInventoryTx | opposite item orders, a product twice, a negative quantity: refinement of AtomicStock, deadlocks only over opposite orders and always broken, overselling only by a negative quantity |
| RateLimiter | RateLimiterProperties | the limit holds across clean-ups, nobody is rejected early, idle entries go |
| OrderService | MCOrderService | whole orders, true answers, whole views, every request answered and every event published |
| OrderSagaReservedTwice | MCOrderSaga | violated: see below |
| BreakerMixedOutcomes | BreakerProperties | violated: see below |
| LogoutStuck | RefreshTokensProperties | violated: see below |

The runs list what a reader should see checked on a small instance. The type
invariants and the inductive invariants of Relay, Consumer, InventoryTx,
OrderService and RateLimiter are in the `...Properties` modules too; they hold in the same
instances and, as section 4 says, for every value of the constants, so no run
repeats them.

**Bounds.** The saga has one product and two orders: orders meet only in
the stock and in the queues, and two are enough to compete. Either both orders are
made, or one of them meets a fault (`FaultOrRival`); one crash or one failed call
(`OneFault`) suffices for a redelivery, a duplicate publish and a transaction in
doubt, and the stock is twice what the smaller order asks for, so that a repeated
reservation succeeds. A stored offset is read after a crash only: the run takes
commits where a crash can still follow (`StoreForCrash`, `StoreBeforeFault`), and
the theorems take every commit. One attempt per record keeps the saga
small: a declined payment and a failed call then reach the dead letters, and a
redelivery stands for the second attempt; retries within one delivery are in
Consumer, InventoryTx and Notification with `MaxRetry = 2`, and the theorems hold
for any `MaxRetry`. A threshold of 1 lets the breaker open.
Three outbox rows with a batch of two reach a result set that is cut off while
two transactions overlap. Three records with a poisoned one in the middle reach
a dead letter inside a batch. The breaker gets 8 failures, more than two series
of its threshold, and two callers, one more than the code has: the claims then
hold for results that arrive late; BreakerMixedOutcomes has the one caller of the
code and its threshold of 3. Notification has an event that is published
twice, two instances and two rebalances or crashes; nothing tells events or instances
apart, so one event is published first and one instance owns the partition first
(`FirstOfEach`). AuthService has two
users who may choose one address in two spellings, three tokens, which is a chain
of two rotations, two requests at a time and a pool that two logouts use up; users,
tokens and addresses are interchangeable (`AuthSymmetry`). Sign-ups and tokens meet
only in the pool, and so do the tokens of different users: tokens are issued while
no sign-up is under way (`NoSignupBesideTokens`), to one user (`OneOwner`), and one
of them expires (`OneExpires`). The theorems have none of these bounds.
InventoryTx has three records per consumer, so that a reservation, a release and a
redelivery overlap, over items in opposite orders. RateLimiter has one client
(clients share nothing but the map, and the theorems cover any number), three
requests, and a bucket that is refilled in three ticks and forgotten after four.
OrderService has orders of one and two items, three clock readings, which is what
both orders need if no two ids are equal in a table, and the smallest pool with
which the relay can work: `ServiceAssumption` asks for two connections, because
with `pool_max_conns=1` the relay would wait for itself (pgxpool takes at least
four unless told otherwise). Readers ask for the id of an order that was begun
(`SensibleQuestions`), and one that gets an error leaves nothing behind, so that the
run goes on without it (`NoErrorsToReaders`).

**Deadlock** is not reported where the system really may stop: all events
handled and committed, every request answered, or every pool connection kept.

**Fairness** is weak fairness of the goroutines, never of their environment:
relays poll on a ticker for ever (`relay.go`), consumer loops run until `Start`
returns, calls to databases and Kafka return, open transactions end, time
passes, the goroutine of the clean-up runs, a process that ended is restarted
(the services are containers; only Consumer and OrderService need this), and a
lock is waited for until PostgreSQL breaks the deadlock. OrderService assumes
strong fairness of calls that wait for a pool connection or a key, because
pgxpool and PostgreSQL serve those who wait in turn. No order, event, login, crash or background
commit has to happen. Failures are bounded by `MaxErrors`, `MaxCrashes` and
`MaxFailures`, so liveness says what happens once failures cease; `Recovers`
of Breaker moreover needs callers that keep calling, which the retry loop and
the stream of events do.

### Where code and documentation disagree

Three runs are expected to be violated; `PROJECT.json` quotes the lines.

* **OrderSagaReservedTwice** -- a redelivered `order.created` reserves again,
  because nothing in inventory-service reads `processed_events`.
* **BreakerMixedOutcomes** -- the README promises to fail fast "after 3 consecutive
  failures", but a success of a closed breaker does not reset the count: two
  failures, a success and a failure open it. The other reading, that three
  failures in a row never leave it closed, holds (`OutageIsNoticed`).
* **LogoutStuck** -- each logout keeps a pool connection; when all are kept the
  next logout, like every other query of auth-service, waits for ever.

Further disagreements met while modelling have no run of their own. Without any
fault an order can end confirmed that holds no stock: a declined payment is
committed, its retry succeeds, and the release for the decline and the
confirmation both go through. A refresh that read its token before a logout
leaves a valid token after it, which is why `SignedOutUntilLogin` excepts a
refresh under way. A list of orders whose result set breaks off is answered 200
and shorter (`broken`), and an order that is asked for with blanks around its id
is shown without items (`padded`). A negative quantity raises the stock and, when
it is given back, oversells it. An order
whose items are out of stock is dead-lettered and stays pending, which is why
`EveryOrderSettles` speaks of consumers that gave up. A row that Kafka always
refuses holds up the rows behind it (`Poison` of Relay). A failed send to the
DLQ topic drops the record (`dropped`). With `FatalOnReturn = FALSE` a fetch
error ends consumption for good while the process lives on.
With more than one instance a notification can be recorded twice:
`AtMostOncePerInstance` is the bound that does hold. A refresh token is not "only
usable once", nor is it revoked "the moment it's used". Two requests that both have
checked it both exchange it. And a token presented with blanks around it is found,
because `GetRefreshToken` trims it, and exchanged without being revoked, because
`RotateRefreshToken` does not: it stays valid and can be exchanged again and again
until somebody presents it as it was issued, it expires, or its user logs out. The
statement is `UsableOnce`; TLC refutes it when `UsableOnce` is added to the
INVARIANTS of `AuthService.cfg`, with two requests by the first way and with
`Requests = {r1}` by the second. What holds with both in the model is
`ExchangesBounded`: from the first exchange of a token as it was issued on, no
later request gets to exchange it, in whatever form. Replay of dead letters and detection of reused
refresh tokens are in the repository's own list of known improvements.

## 4. Proofs

All theorems are proved from the named assumptions on the constants only (sets
and numbers are arbitrary; demands and stock are in Nat, limits are positive, the
pool has two connections). Two results are about sums and need finite sets: the
ledger assumes that there are finitely many orders, and `ServiceAssumption` that
there are finitely many requests to create one. `IsFiniteSet` is all they assume
of them, and a database that any run of the program can fill is finite.
Each proof module has one lemma per action that says the inductive invariant is
preserved, and temporal theorems that follow by PTL.

* **OrderSagaProofs** -- `SagaInvariance`, and from it `TypeCorrectness`,
  `NoPhantomOutcomes`, `NoStepIsLost`, `NothingIsUndone`; `StockNeverNegative`.
  `NoStepLost` is not inductive: that a record behind a cursor was applied needs
  `PassedIsSettled`, that a marked row is in its topic needs `SentRowsInTopics`,
  that a record in a topic has its cause needs `TopicsFromOutboxes`, and that a
  row of a table has its event needs `RowsWithEvents`. `SagaInvariant` is their
  conjunction. Offsets, logs and outboxes only grow, which lemmas state once.
  `ExactlyOnce` counts: its inductive invariant `NothingTwice` compares each
  hand-over with the one before it (copies in a topic with published rows,
  emissions with handled records, payments with attempts), from which an order
  has at most one record per topic while nothing fails or crashes.
  `StockIsBalanced` is the ledger: what is available of a product and what the
  reservations hold, summed over all orders, is the initial stock. A step changes
  the term of one order, and `SumChange` of FoldTheorems says that the sum then
  changes by as much. Two theorems close the gap between the saga and the models
  of its parts: `SagaConsumersAreCursors` (each consumer of the saga takes only the
  steps of GroupCursor, which Consumer was shown to implement) and
  `SagaStockIsAtomic` (its stock takes only those of AtomicStock, which InventoryTx
  was shown to implement). For the second, a release must be of an order that was
  reserved, which is a chain through three services and needs `SagaInvariant`.
* **OrderServiceProofs** -- `ServiceInvariance`, for any requests, clock, number
  of items and size of the pool. That an order is whole is not inductive: it
  needs that a transaction writes its rows in one order and its outbox row last
  (`WrittenInTurn`), that two rows never have one key, in the tables or between
  a table and an open transaction (`KeysAreLocked`), and that a row belongs to
  exactly one order (`OrdersAreKeyed`). From it `OrdersAreWhole`,
  `CreatedOrdersAreStored` and `OrdersAreShownWhole`, the last also from
  `StoredOrdersNeverChange`: between the two SELECTs of `GetOrder` the items of a
  stored order stay what they are; and for `GetOrders` the loop that groups the
  rows of the join is followed row by row, by induction over the rows read.
  `NoConnectionLeaks` accounts for every connection of the pool: what is held is
  held by a running request or by the relay's open result set, and the sum of it
  never exceeds the pool.
* **FoldTheorems** -- induction over Nat and over the subsets of a finite set,
  stated for sets and not for operators (the least counterexample of a set of
  numbers is ruled out, from the well-foundedness of `<`), then what a fold over a
  finite set is: it exists, it is unfolded one element at a time, its sum is an
  integer (or in Nat when the terms are), and changing one term changes the sum
  by the difference.
* **RelayProofs** -- `RelayInvariance` for any number of relays: what precedes a
  row of a result set is in the result set or in Kafka (`BatchesAreClosed`),
  which makes `CausalOrder` inductive; `NothingLostNothingInvented`,
  `EventsFollowCausality`; and with one relay `OneInstanceImplementsDelivery`,
  step by step, and `DuplicatesAreExplained`, for which every record in Kafka is
  charged to a marked row, to the row about to be marked or to a fault.
* **ReliabilityProofs**, Consumer -- `ConsumerInvariance` (positions in order, passed records
  settled, runs accounted for by lives and attempts), and from it retries,
  offsets, `CommittedRecordsAreNotRunAgain` and `ConsumerImplementsCursor`, for
  both values of `FatalOnReturn`.
* **ReliabilityProofs**, Breaker -- `BreakerInvariance` with any number of callers;
  `OutagesAreNoticed` because the count covers the streak and decides the state; a
  half-open breaker has cooled down is the part that makes `TrialsArePaused`
  inductive. `NoCallWhileOpen` is for the single caller the code has.
* **NotificationProofs** -- counting notifications *and* instances about to
  write them (`AtMostOncePerInstance`) is inductive; with one instance it gives
  `OneInstanceNotifiesOnce`. `NoEventIsSkipped` needs that what is marked was
  notified (`MarkedWhenNotified`), because an event is skipped by its mark, and
  that no instance is past an event that is not settled (`PassedIsSettled`).
* **AuthServiceProofs** -- counting exchanges *and* requests that have read
  the token (`ExchangesBounded`) is inductive with `ExchangedIsRevoked`: what was
  exchanged as it was issued is revoked, so that nobody reads it any more, in
  either form. `SignedOutStays` needs types only. Neither assumes anything of how
  tokens are presented.
  Of sign-up, that addresses stay unique is not inductive: it needs that an open
  transaction holds a key nobody else has (`KeysAreHeld`) and that a user is
  in the tables only once its request is done (`WrittenLast`); that accounts and
  events agree needs that a transaction commits with both rows or with none
  (`InsertsInOrder`). From
  `SignupInvariance`, `AccountsAnnounced`, `AddressesAreUnique` and
  `AnswersTellTheTruth`; `AuthServiceKeepsTokens` carries what is proved of the
  tokens over to the composition.
* **InventoryTxProofs** -- `InventoryInvariance` for any products, items and
  quantities. That available never goes below zero without a negative quantity is
  not inductive: it needs that a locked row still satisfies the WHERE by which it
  was locked (`StillSufficient`), hence that nobody else writes a locked row
  (`LocksFollowUpdates`) and that a transaction's writes to a row follow its items
  (`WritesFollowItems`). From it `StockIsOversoldOnlyByNegativeQuantity`,
  `TransactionsAreAtomic` (the refinement of AtomicStock, where `StillSufficient`
  is the guard of the atomic reservation) and `DeadlocksNeedOppositeOrders`, with
  `SortedItemsNeverDeadlock` as its consequence.
* **ReliabilityProofs**, RateLimiter -- `LimiterInvariance` for any clients, requests, buckets
  and times with `Full + Grace <= IdleTTL`. A client's bucket is worth exactly its
  credit, and a forgotten one at least that (`BucketsHoldCredit`); that needs
  buckets that are not shared (`OwnBucket`), young requests whose bucket is still
  in the map (`YoungRequestsKeepTheirBucket`) and doomed entries that have been
  idle longer than a refill takes (`DoomedAreIdle`). From it `TheLimitHolds` and
  `OnlyTheLimitRejects`.

Every safety property and every refinement step that a passing run checks is
also a theorem. Only model-checked are the liveness properties
(`EveryOrderSettles`, `EveryEventDelivered`, `EveryRecordSettled`, `Recovers`,
`EveryEventSettled`, `IdleEntriesGo`, `RequestsAreAnswered`,
`EventsArePublished`), because TLAPS does not reason about fairness and ENABLED.

## 5. Not modelled

* Authentication middleware, JWT, password hashing, validation, decoding, error
  bodies, `shared/response`, `shared/env`, `shared/email`: no state; they decide
  whether a request is handled at all, and the models begin where it is.
* The logger: wording. Its middleware measures and passes on.
* `RateLimiter.Middleware`: no service uses it.
* Failures at start-up: they end the process before it has a state.
* Prices and totals: nothing compares them; a payment's outcome is a choice.
* What net/http does with connections, and Kafka's and PostgreSQL's own faults
  other than a call that fails or takes effect unnoticed. Topics have one
  partition, the default of a Kafka broker that creates them on first use.
* SIGTERM in notification-, inventory- and payment-service beyond what Consumer
  models (what `Start` returns, and what `main` does then).
