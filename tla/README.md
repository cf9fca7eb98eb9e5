# Verification of the Order & Payment platform

TLA+ models of the three Go services in this repository (order, payment,
notification), the TLC runs that check them and the TLAPS proofs about them.
Paths below are relative to the repository; `file.go:n` is line n.

## 1. The system

| Part | State it keeps | Operations | Talks to |
|---|---|---|---|
| Order use case (`internal/usecase/order_usecase.go`) | table `orders` (status is the only column that changes), Redis entries `order:{id}` with a TTL, the subscriber map | CreateOrder, CancelOrder, GetOrder, GetByAmountRange, SubscribeToOrder | PostgreSQL, Redis, payment service (gRPC) |
| Order HTTP layer (`internal/delivery/http`) | rate-limit counters in Redis | POST /orders, PATCH cancel, GET; the limiter | Redis, use case |
| Order stream (`internal/delivery/grpc`) | one one-place channel per subscriber | SubscribeToOrderUpdates | use case |
| Payment service (`payment/`) | table `payments` (unique `order_id`), broker connection | ProcessPayment over gRPC and HTTP, lookups, graceful shutdown | PostgreSQL, RabbitMQ |
| Notification service (`notification/`) | claims `processed:{message_id}` in Redis, deliveries in hand, ≤ 2 workers | consume, claim, send with retries, ack / nack, shutdown | RabbitMQ, Redis, SMTP |
| Frontend (`frontend/src/App.jsx`) | the list last received | poll, create | HTTP |

Every handler runs in a goroutine of its own and nothing locks an order or a
payment across statements. What holds the data together is two unique indexes
(`orders.idempotency_key`, `payments.order_id`), the atomicity of single SQL and
Redis commands, and the order in which the handlers issue them. Hence the hard
behaviours:

- **Interleaving.** Lookup-then-insert (`order_usecase.go:50`,
  `payment_usecase.go:30`), read-then-update (`order_usecase.go:98/111`), two
  unconditional writers of the status (lines 87 and 111), cache fill against
  cache delete (143 against 88/114), INCR against EXPIRE (`middleware.go:25/33`).
- **Partial failure.** A commit whose acknowledgement is lost; an RPC that
  failed for its caller and succeeded on the other side; a publish whose error
  is discarded; a Redis error that is only logged.
- **Crash and restart.** No handler's work is taken up again, except that the
  broker redelivers what was not acknowledged.
- **Ordering at shutdown.** Drain before broker close in the payment service; no
  drain at all in the notification service.
- **Channels and shared memory.** Streams hear of updates through channels of one
  place that `notify` never waits for (`order_usecase.go:194`), share the order
  with the request that writes it (90), and read its status twice
  (`order_handler.go:53/81`).

What makes each part correct, and so what its properties say:

| Part | Promise |
|---|---|
| Order use case | a key makes one order; an outcome is written once; what is shown as Paid was authorized; a client and the row agree; a write leaves no stale cache entry behind, but for named exceptions |
| Payment service | an order is paid for once; events and replies tell of committed rows only; a shutdown loses no gRPC payment's event |
| Both | a key is charged once; Paid means charged, and for the order's own amount; the order service charges only for orders on record |
| Notification service | one e-mail per message; every delivery is in one pair of hands until it is settled; a dead letter is unsent |
| Order stream | nobody is told what is not so, or anything after a terminal status; a channel is never used after it is closed |
| Limiter | no window lets more than the limit of those it counted pass; while Redis answers nobody is refused early |
| All three | one e-mail per key; every Paid order is told of |

## 2. Modules

| Module | What it is | Composed with |
|---|---|---|
| `PaymentLedger` | abstract promise of the payment service: one decision per order, announced at most once, after it is recorded | |
| `Payments` | the payment service | implements `PaymentLedger` |
| `OrderLifecycle` | abstract life cycle of the status column | |
| `OrderService` | the order use case, its cache, the RPC as its caller sees it | implements `OrderLifecycle` |
| `OrderPayment` | both services; RPC o of the one is call o of the other | INSTANCEs `OrderService` and `Payments` |
| `Delivery` | abstract promise of the notification service, per message | |
| `Notifications` | the notification service with the broker as it uses it | implements `Delivery` |
| `OrderTracking` | streams, channels and `notify` | INSTANCEs `OrderService`, whose requests announce the changes |
| `Platform` | the three services | INSTANCEs `OrderPayment` and `Notifications`: the event of call m is message m |
| `RateLimiter` | the fixed-window limiter for one client address | |
| `PaymentsProofs`, `OrderServiceProofs`, `NotificationsProofs`, `RateLimiterProofs` | theorems about one module each | EXTEND it |
| `OrderPaymentProofs` | theorems about the composition | EXTENDS `OrderPayment`, INSTANCEs the proofs of its two services |
| `OrderTrackingProofs` | theorems about the streams | EXTENDS `OrderTracking`, INSTANCEs `OrderServiceProofs` |
| `PlatformProofs` | theorems about the three services | EXTENDS `Platform`, INSTANCEs `OrderPaymentProofs` and `NotificationsProofs` |
| `MC*` | constants for TLC | EXTEND the module they are named after |

One step of a model is one database, Redis, broker or RPC operation of the code:
that is where goroutines interleave. Every such step has a success, and a failure
with and without effect where the code can meet both. Each behaviour draws the failures
it may meet at its start: the variable `faults`, a set of names from the constant
`Environments`, which no step changes. So one run covers several environments, a
property says which failures it excludes (`faults \cap {"db", "crash"} = {} => ...`),
and `Environments` lists every failure the run admits. A
definition whose comment begins "Mutant" is a wrong variant of the one
after it, kept to show that the properties notice; no specification uses one.

### Payments
`payments` and `published` are the table and the events the broker took. A call
is a record whose `pc` is the statement of `ProcessPayment` it is at: `check`
(lines 30-33), `insert` (51), `publish` (65). The uuids a call mints are
the call itself. `svc` follows `main`: `up`, `draining` (GracefulStop),
`closed` (broker closed, HTTP handlers still running), `down`. A lost
acknowledgement of the insert is the second disjunct of `Insert`; a failed query
in the lookup falls through to the insert exactly as in the code. `PublishLost`
covers the discarded error and, since the channel is not in confirm mode,
the event lost with no error.

### OrderService
`orders[o]` is the status column of the order whose uuid create request o minted,
`cache[o]` the Redis entry, `rpc[o]` the payment RPC as its caller sees it. Create
goes lookup, insert, notify, authorize, await, settle, evict, announce; cancel goes
load, write, evict, announce; a read goes cache, db, fill. `"db"` failures make
`UpdateStatus` report an error with or without effect. A context cancelled because
the client left shows as such failures, since every call gets that context.

### OrderPayment
Requests and answers of the RPC are separate steps, so a caller may give up while
its call runs; a call arrives after its caller gave up only where connections break
(`"rpc"`). `RpcRefused` is the service being down, or dying with the call. `AnswerTo` is what
`payment_client.go` makes of a response: every gRPC status other than OK,
`AlreadyExists` included, is one error. `DirectCall` is a client of
`POST /payments`. The payment service asks nobody whether the `order_id` it is given is an
order's (`payment/internal/delivery/http/handler.go:28`, and `payments` has no foreign key), so the call may
name any; the id of a create request without a row, not yet or for ever, stands for one
that is no order's. In the former case the client has named a uuid before it was minted, which
will not happen; the properties hold all the same. `RpcChargesMatchOrders` therefore speaks of the payments made over
the RPC, and `KeyChargedOnce` of the payments whose order is on record, by whomever they were made.

### Notifications
`place[m]` is where the broker has a message. Deliveries go broker → `buffer`
(no prefetch limit is set) → `loop`, which may hold one while it waits for the
semaphore → a worker. A closed connection requeues what is unacked; Ack and Nack
on it do nothing. Nothing in the service opens a second connection, so a process
that lost it lives on idle. After SIGTERM Redis commands may fail, because the
context they are given is cancelled. The Redis client repeats a command whose
answer was lost, which is the `"redis"` disjunct of `ClaimFinds`. `excused` is kept
for the properties only: the messages whose key expired while they were unsettled
(`"expiry"`), or whose e-mail was accepted and yet reported as failed (`"smtp"`).
The retry loop's sleeps are not modelled: only the order of attempts matters.

`Delivery` is the same service seen per message: queued, e-mailed, settled. `Fate` maps
the broker's places to it; a worker that outlives its connection and goes on with a
message the broker has requeued must fit in.

### OrderTracking
A stream handler looks the order up (line 31 of `order_handler.go`), registers its
channel, looks the order up again and pushes what it found (`order_usecase.go:153-164`),
then loops: receive, tell, check. Both lookups are `GetOrder` calls, that is `Lookups`
takes the place of `Reads` in `OrderService`. `subs` is the subscriber map, `slot` what
each one-place channel holds. `Notify` skips a channel that is full; `PushCurrent` waits for room,
although the only reader is the handler itself, so it may wait for ever. `CreateOrder`
hands `notify` the pointer of the order it goes on to write: the channel then holds
`"object"`, and what the handler reads is `object[o]` at that moment. `Assign` is that write
in two steps, since a Go string is two words: in between a reader finds a value
that is no status (`Torn`), which `PbStatus` turns into `Unspecified`. The race
detector would call this undefined; these are the outcomes that 64-bit builds
produce. The other updates carry copies. A crash takes streams, channels and map with it.

### Platform
`Messages` are the payment calls: the uuid a call mints is the MessageID of its event.
A step is a step of `OrderPayment` that publishes nothing (`SystemStep`), one that
publishes and thereby puts the message on its queue (`EventPublished`), or one of
the notification service or its broker (`NotifierStep`). The queue is durable, so
nothing in the model ties the two sides otherwise.

### RateLimiter
One address. `Incr`, `Expire` and `Decide` are separate steps; `window` numbers the
lifetimes of the key and exists for the properties only. The Redis client (`cmd/order/main.go:116`, default options)
repeats a command whose answer it did not get, up to `MaxRetries` times, carried out or not:
`IncrUnheard` is such an INCR, after which the request is counted again, `IncrFails` the last attempt, and the
third disjunct of `Expire` an EXPIRE that is repeated. So under `"redis"` a request may be
counted twice and refused early, and the count of one, which alone sets the time to live,
may be learnt by nobody. The same retries are in `FillCache`; a repeated Delete has the effect of `CacheExpires`.

## 3. Runs

`"violation"` runs check a statement a document, comment or message of the
repository makes, which the code does not keep.

| Run | Checks | Result |
|---|---|---|
| `payments` | type; one payment per order; no phantom or repeated event; truthful replies; rows follow calls; refinement of `PaymentLedger`; no gRPC payment loses its event to a shutdown; the shutdown ends | holds, all failures on; the shutdown's promise where nothing else fails |
| `orders` | type; one order per key; equal answers; Paid is backed by an authorized RPC; the row keeps what the client was told; refinement of `OrderLifecycle`; a write leaves no stale cache entry | holds with database, Redis failures and crashes; the row keeps the answer where database and process are up; the last but for the exceptions `DeletedOnWrite` names |
| `orders_cancel_paid` | `ErrCannotCancelPaid` (`order_usecase.go:17`) | violated: CancelOrder does not recheck |
| `system` | Paid means charged, for the order's own amount; the order service charges for orders on record, and their amounts; a key is charged once end to end; each service keeps its own specification in the other's company | holds, with failing queries, lost RPCs, crashes of either service, shutdowns and a direct payer of any order_id |
| `system_liveness` | a charge reaches its order; Pending ends; every POST is answered | holds with Redis failures and shutdowns of the payment service |
| `notify` | type; at most one e-mail; no delivery forgotten; dead letters are unsent; refinement of `Delivery`; every message is acked or dead-lettered | holds; see `excused` for the e-mails and dead letters, the connection must last for the last |
| `notify_ack_unsent` | README:100, ack strictly after the e-mail | violated by a shutdown between SetNX and send |
| `limiter` | type; the limit is kept; nobody is refused early; an exceeded window ends | holds with Redis failures, repeated commands and crashes; early refusal while Redis answers, the last without failures |
| `tracking` | type; no send on a closed channel; no false status; streams end on decided orders only; nothing is told after a terminal status; a terminal status that reaches a stream in its loop ends it | holds with hang-ups, failing queries, Redis failures and crashes |
| `tracking_unended` | `order_handler.go:80`, a terminal state ends the stream | violated with nothing failing: by the blocked push, by a dropped update, or by the missing `notify` of a failed payment |
| `platform` | one payment e-mail per key, about a recorded payment; every Paid order is told of, or its message is a dead letter where e-mails are refused | holds with crashes of all services, lost RPCs, a shutdown of the payment service, lost connections; the second while broker and notifier last |
| `platform_declined` | the e-mail's text, "has been successfully processed" (`notification_usecase.go:65`) | violated: a declined payment is announced the same |

Where the code and its documents differ in other ways that the models show but no
run of its own is spent on:
- A failed publish is discarded (`payment_usecase.go:65`), so that events do not
  "perfectly reflect" the payments (README:102): `PublishLost`.
- A reader may fill the cache with a row older than a Delete that has passed
  (`order_usecase.go:143`); "Delete on Write" (README:111) then leaves a stale entry
  until its TTL ends. `DeletedOnWrite` names this fill, a Delete that fails or dies with the
  process, and an `UpdateStatus` that took effect and reported an error, and says that no
  interleaving of writes and Deletes does it otherwise.
- An RPC lost after the payment was committed makes the order Failed although it is
  charged (`order_usecase.go:74`), for all that failures be relayed accurately (README:22).
  `ChargedOrdersShowIt` therefore excludes broken connections.
- A crash between INCR and EXPIRE (`middleware.go:33`) leaves a counter that never
  expires, and its address is refused for good, not for a minute (README:112):
  `WindowsEnd` is promised only where nothing fails. So does an INCR whose answer was lost and that the client
  repeated, and it counts its request twice besides: `RefusedOnlyWhenFull` is promised while Redis answers.
- `POST /payments` takes any `order_id` (`payment_usecase.go:29`): the payment service records, announces and has e-mailed
  a payment for an order that does not exist.
- `CreateOrder` overwrites a cancellation that was confirmed to its client
  (`order_usecase.go:87`); `OrderLifecycle` has this step, so it is part of what
  `LifecycleSpec` allows.
- The retry loop makes `MAX_RETRIES + 1` attempts (`notification_usecase.go:70`);
  README:101 says three.
- An e-mail the server accepted is sent again when the end of the SMTP dialogue
  fails (`notification_usecase.go:78`); README:116 says exactly once. This is
  the `"smtp"` failure that `excused` records.
- `main` of the notification service returns without waiting for the workers
  (`main.go:78`), although the consumer logs that it does
  (`rabbitmq_consumer.go:138`): action `Exit`.

### Bounds and why they are enough
- Payments: three calls, two orders, amounts 0, 100000 and 100001 (invalid, on
  and over the limit). A race for one order needs two calls; the third shows that
  another order is not disturbed, or makes the race one of three.
- OrderService: a race for a key needs two creates, and creates with different keys
  share nothing, so there is one key; a cancellation and two reads meet each
  create at every statement, and the second read can find what the first cached.
  The environment without failures is there for `DeletedOnWrite`, whose exceptions are then
  down to the fill.
  The amount does not influence this module, so one value is enough.
- OrderPayment: `system` has two creates with one key, since two orders with
  different keys share nothing, and one direct payer, who names either order before or after
  it is on record, all with every amount and failure. `system_liveness` adds a cancellation and a read, and has one amount:
  that a declined payment ends like an authorized one shows in `orders`.
- Notifications: two workers as in the code, three messages so that the loop blocks
  on the semaphore, `MaxRetries` = 1, so that there is a retry. E-mails are
  counted up to `SentCap` = 2, which stands for "more than once".
  The four environments are chosen so that each failure meets the others it can
  combine with: refused e-mails with Redis, connection and shutdown, and with connection and crash, where
  Redis answers and a message is dead-lettered after its retries, as `DeadLettersUnsent` is about; untrue errors and
  expiry with connection and crash; and both mail failures with Redis.
- RateLimiter: limit 2 and four requests, so that a window overflows; `MaxWindows`
  = 2 bounds the windows counted. `MaxRetries` = 1, where the client's default is 3: one
  repetition shows what a request counted twice does, and the proofs hold for any number.
  Crashes are also had without Redis failures, since `RefusedOnlyWhenFull` excludes the latter.
- OrderTracking: one stream, one creation, one cancellation. Streams share only the
  map, which each leaves under the lock, and orders share nothing; the two writers that
  race for one channel are there. The amount plays no part.
- Platform: two POSTs with one key and one worker, no direct payer: the races inside each
  service are the other runs' subject, this one is about the chain between them.
- No run uses symmetry. `Finished` lets a behaviour whose requests are all served
  stutter, so deadlock is checked everywhere.

### Fairness
Weak fairness of each goroutine's steps: the Go scheduler runs them. In
`OrderPayment` also of each RPC: it arrives, is refused, or comes back when it is
answered. Nothing assumes that an RPC is answered (the code sets no deadline, in
`payment_client.go:40`): that follows from the handlers of the payment service
returning and its shutdown draining them, which is why `PendingEnds` and
`CreatesAnswered` are checked on the composition. In `RateLimiter` Redis drops a key
whose TTL has run out; no other expiry is assumed to happen. The broker delivers what is ready, `main` finishes a shutdown it has begun.
A stream handler's steps are weakly fair one stream at a time, and an RPC of
`OrderTracking` is not assumed to be answered. `Platform` grants each part what its own module grants, and nothing more.
Arrivals, hang-ups, SIGTERM, crashes, restarts and failures are never assumed to
happen, and e-mails are never assumed to succeed.

## 4. Proofs

Seven modules prove the safety of the services, for any sets of orders, requests, streams,
messages and workers, any amounts and bounds, and any choice of failures. They rest on the named
assumptions of the modules only: `PaymentsAssumption` (gRPC and HTTP calls are different calls,
amounts and the limit are naturals), `OrderAssumption` (the handler lets positive amounts through),
`NotificationsAssumption` (at least one retry, which `main.go:53` sees to, no message is one of the loop's markers),
`RateLimiterAssumption` (finitely many requests, a positive limit),
`CompositionAssumption` (the first two together), `TrackingAssumption` (the second) and
`PlatformAssumption` (those of its two parts).

In each module `IInv` is the inductive invariant, `Invariance`
states `Spec => []IInv`, and there is one lemma per action. Where a module composes others,
the invariant is called `CInv` (`OrderPaymentProofs`), `TInv` (`OrderTrackingProofs`) or `PInv`
(`PlatformProofs`) and contains those of the parts.

With them every invariant and every action property that a run checks is a theorem, and so
are the refinements of the three abstract specifications.

| Module | Theorem | Statement |
|---|---|---|
| `PaymentsProofs` | `TypeCorrectness` | `Spec => []TypeOK` |
| | `NoDoubleCharge` | `Spec => []OnePaymentPerOrder` |
| | `RowsCorrectness` | `Spec => []RowsFollowCalls` |
| | `EventsCorrectness` | `Spec => []EventsComeFromPayments` |
| | `DrainCorrectness` | `Spec => []DrainKeepsGrpcEvents` |
| | `RepliesCorrectness` | `Spec => []RepliesAreOnRecord` |
| | `ImplementsLedger` | `Spec => LedgerSpec` |
| | `DecisionsCorrectness` | `Spec => DecisionsStand` |
| `OrderServiceProofs` | `TypeCorrectness` | `Spec => []TypeOK` |
| | `KeyCorrectness` | `Spec => []OneOrderPerKey` |
| | `ChargeCorrectness` | `Spec => []OneChargePerKey` |
| | `RepliesCorrectness` | `Spec => []RepliesAgreeOnOrder` |
| | `PaidCorrectness` | `Spec => []PaidIsBacked` |
| | `RowCorrectness` | `Spec => []ReplyMatchesRow` |
| | `ImplementsLifecycle` | `Spec => LifecycleSpec` |
| | `StaleOnlyWhenExcused` | `Spec => DeletedOnWrite` |
| | `OutcomesCorrectness` | `Spec => OutcomesStand` |
| | `RecordCorrectness` | `Spec => []RecordInv` |
| `OrderPaymentProofs` | `PartsCorrectness` | `Spec => PartsKeepTheirSpecs` |
| | `PaidCorrectness` | `Spec => []PaidIsCharged` |
| | `ChargeCorrectness` | `Spec => []RpcChargesMatchOrders` |
| | `KeyCorrectness` | `Spec => []KeyChargedOnce` |
| `NotificationsProofs` | `TypeCorrectness` | `Spec => []TypeOK` |
| | `EmailCorrectness` | `Spec => []AtMostOneEmail` |
| | `HandsCorrectness` | `Spec => []NoDeliveryForgotten` |
| | `DeadLetterCorrectness` | `Spec => []DeadLettersUnsent` |
| | `ImplementsDelivery` | `Spec => DeliverySpec` |
| | `SettledCorrectness` | `Spec => SettledForGood` |
| `RateLimiterProofs` | `TypeCorrectness` | `Spec => []TypeOK` |
| | `LimitCorrectness` | `Spec => []LimitKept` |
| | `RefusalCorrectness` | `Spec => []RefusedOnlyWhenFull` |
| `OrderTrackingProofs` | `TypeCorrectness` | `Spec => []TypeOK` |
| | `SubscribersCorrectness` | `Spec => []SubscribersOpen` |
| | `ToldCorrectness` | `Spec => []ToldIsTrue` |
| | `EndsCorrectness` | `Spec => []EndsDecided` |
| | `LastWordCorrectness` | `Spec => NothingAfterTerminal` |
| | `OrdersCorrectness` | `Spec => Ord!Spec` |
| `PlatformProofs` | `PartsCorrectness` | `Spec => Sys!Spec /\ Note!Spec` |
| | `ServicesCorrectness` | `Spec => []ServicesSafe` |
| | `EmailCorrectness` | `Spec => []KeyEmailedOnce` |
| | `OrderCorrectness` | `Spec => []EmailedOrdersExist` |

**Payments.** `OnePaymentPerOrder` is kept by the index alone, but that events and
replies agree with the table is not inductive: one must know that a call at
`publish` has its own row committed and unpublished, and that no call short of its
insert owns a row. That is `RowsFollowCalls`. `IInv` adds `RepliesFollowRows` (a
status a caller was told is that of its own row; "exists" means another call's row)
and `Handled` (a call in hand names a known order and a positive amount). The
lemma `QuietMove` treats in one place the steps that only move a call; `InsertStep`
and `PublishStep` are the two that matter. The refinement follows
from `IInv`: an insert is a `Record`, because no row of that order exists; a
publish is an `Announce`, because the row is on record, unannounced, and the only
one of its order; all else stutters. `DrainCorrectness` adds `ClosedIsDrained`: when
the broker is closed or the process down, no gRPC call is running. `CloseBroker`
waits for that, and no gRPC call arrives before the process is up again; so a
gRPC call that has committed is never at `publish` without a broker.

**OrderService.** The properties speak of rows, replies and RPCs of different requests; what ties
them is `OwnRow(r)`, which says for each statement of `CreateOrder` what request r's row, RPC and
outcome can be there. `OneRowPerKey` is `OneOrderPerKey` read from the rows, in the
form an insert preserves; `RepliesHold` (a client told of an order was told of one with its key) makes
equal answers follow from it. `PaidIsBacked` is inductive only with `OthersHold`: a read that
carries a status to the cache carries one that was backed when it was loaded, and authorizations
are never taken back. `Tidy` is what every step of a create request has in common, so that
`SilentStep` and `AnsweringStep` prove the whole invariant once for all statements that do not,
and that do, answer. `Lasting` says what no step undoes (rows, amounts, issued RPCs); it is
for the composition. In the refinement an insert opens, `Settle` settles once (its request then leaves
the statement, which is what `OwnRow` is needed for), a lost outcome or a crash forfeits, a
cancellation cancels.

`StaleOnlyWhenExcused` goes through the statements once more, with `StaysAsItWas` for the steps that touch neither row nor
entry of an order: a write leaves its request before its Delete (`DeleteDue`), and a Delete that reaches Redis
leaves no entry that could be stale. What remains is a fill, a failed or dead Delete, and a write that failed for its caller.

Action properties are read off the refinements. `RowMoves` says what a step of the life cycle can do to
one row, and with `OutcomesDecided` (a row shows Paid or Failed only when no outcome can be written any more)
`OutcomesStand` follows: no second request, late answer or restart revises an outcome. In the same way
`SettledForGood` follows from `DeliveryStep`: a settled message is never e-mailed again.
These, `DecisionsStand` and the invariants `RecordInv` and `EmailedOrdersExist` are stated in
the proof modules and belong to no run.

`RecordInv` is a second invariant over the first, for what others hold of an order. `Recorded`: a terminal
status in the cache, in a read or behind a cancellation that has written belongs to an order whose row
is terminal, though perhaps with another terminal status, since the cache may be stale and cancel and
outcome overwrite each other. `CancelledAsked`: nothing shows as Cancelled that no request asked to cancel. Its proof
does not go through the statements again: `Moves` says where each status in a step can come from (a row
from an outcome or a cancellation that is writing, the cache from a read that is filling it, a read from row or cache),
one lemma per group of statements shows that it makes `Moves`, and `RecordStep` uses nothing else.

**OrderPayment.** The composition reuses both proofs rather than repeat them: `OrderPart` and `PaymentPart`
show that each step is, for either service, a step of its own or none at all, so both
`IInv`s are preserved by the lemmas of their modules (`PartsCorrectness` is the same as a theorem
about specifications). `CInv` adds what neither knows: the call that arrived over gRPC is about its
caller's order and amount (`CallsFollowRpcs`), a direct payer named some order_id, of an order or not
(`DirectCallsName`), and a caller that was told Authorized was told so by its own call
(`AuthorizedByCall`). The order of a payment is then found through the call that minted it, and a Paid order's
payment through its RPC. `SameOrderNext` and `SamePaymentNext` are there because a
module and the module of its proofs are two instances to the prover.

**Notifications.** That a message is not e-mailed twice needs all of: who holds it (`OneHolder`: the
buffer, the loop or one worker), that held messages are unsettled and, over an open
connection, just the unacked ones (`HeldWaits`), and that the claim in Redis stays from the e-mail until
the message is settled (`MailsClaimed`). Workers that outlive their connection are why
`HeldWaits` has three cases. `RejectsUnsent` is the dead letters' part: while Redis
answers, a worker that is about to reject has not e-mailed.

**RateLimiter.** INCR is atomic, so the counts learnt in one window differ (`CountsDiffer`), also where some INCRs are
repeated. `IncrsCounted` bounds the counter by the INCRs that were carried out, which gives its type; while Redis answers none is
repeated, and no count exceeds the window's requests (`CountsBacked`). `LimitKept` then is a pigeonhole: the requests that passed map
injectively by their counts into 1..`Limit`, by the library's theorems on cardinality.

**OrderTracking.** What a stream tells has come to it by a copy (a lookup or a cancellation, through its channel) or through the
pointer that `CreateOrder` shared, so `TInv` follows both. `ObjectsFollow` says that the shared object
becomes Paid only after an authorized RPC. `Truthful` says of a channel, of what the handler holds and of what it told
that Paid and Cancelled are backed, and that a copy with a terminal status has a terminal row
behind it, which is where `RecordInv` comes in: the copy may be of a cache entry that is stale. `Placed` ties the place of the
handler to the map and its channel: a channel is closed only by the clean-up that takes it out of the
map. `ToldLast` makes `NothingAfterTerminal` go through: a handler that has told a terminal
status is at the check, and what it will read there is terminal, also from the object, whose status never
goes back from Paid or Failed. A torn value is told as Unspecified, so the check may find the object
terminal after it, but never the other way round. `StreamMoves` treats the steps of a handler in one
place, given where each leads; `NoStream` the steps that leave streams and channels alone.

**Platform.** `PInv` takes over `CInv` and the notification service's `IInv`, and adds the two links between an e-mail and
a payment: an e-mail follows its event (`MailsFollowEvents`, proved in `NotificationsProofs`: who
e-mails holds a delivery, and what was published stays so), and a message on the queue carries an
event that was published (`EventsKnown`). An e-mail is then of a recorded payment, its payment is for the order its
call named, and one key has one payment; that there is not a second e-mail for it is `MailsClaimed`. Both orders must be on record, since an e-mail may be about a direct payment for no order. `OrderCorrectness` adds
that the e-mail of a payment the order service asked for is about its own order, which is on record. `ServicesCorrectness` takes what is proved of
the parts alone over through their specifications, which `PartsCorrectness` shows they keep.

Only model-checked is liveness: `ShutdownCompletes`, `EveryMessageSettled`, `WindowsEnd`, the three properties of
`system_liveness`, `DeliveredIsTold` and `PaidOrdersEmailed`. TLAPS does not treat liveness under fairness or
ENABLED. No module declares a RECURSIVE operator, and no theorem is about data of
unbounded structure, so nothing had to be left out for want of induction.

## 5. Not modelled

- **Frontend** (`frontend/src/App.jsx`): a view that polls and a form. Its only state is the last
  list received; overlapping polls may show an older one for a moment, until the next poll.
  Nothing it shows is acted upon, and what it writes is `POST /orders`.
- Read-only queries (`GetByAmountRange`, `ListByStatus`, `GetPaymentByOrderID`): one
  query each, no state.
- Start-up (configuration, migrations, dialling loops), logging, metrics, deployment
  files, load tests, the manual test script: no behaviour the properties depend on.
- `notification/internal/domain/notification.go`: types nothing uses.
- In `OrderTracking`, torn strings are one value: no property distinguishes which bytes they have.

## 6. Plan

What is left:

1. What `PartsCorrectness` carries over to `OrderTracking` and `Platform` of the action properties
   (`OutcomesStand`, `DecisionsStand`, `SettledForGood`), stated where a reader of those modules would look for it.
2. A larger instance of `tracking` (two streams that join at different times) and one of
   `platform` with a direct payer, if their time allows.
