# Klar bookings: TLA+ models, model checking and proofs

Klar sells hotel rooms, flights, cabs and visas it buys from suppliers. The repository holds
some fifteen services. What is hard to get right in them, and hard to test, is one thing in several shapes: a
service takes the customer's money, commits a supplier that may not answer, and must undo
one when the other fails, while other requests, timers and webhooks work on the same booking. These modules model that:

- the hotel booking path of the new engine, `src/backend/hotel-engine`;
- the hotel commit of the service that is live, `src/backend/hotel-booking-service`, and what becomes of a booking it saved;
- the flight bookings of `flight-service` and the cab bookings of `cabs-service`;
- the orders and refunds at Razorpay of `payment-service`, and the wallet of `auth-service` as far as these use it.

TLC checks them on small instances and TLAPS proves their central facts for every instance.

## 1. The system

### Components

Paths are under `src/backend`.

| Component | State it keeps | Operations | Talks to |
|---|---|---|---|
| Booking service (`hotel-engine`: `modules/booking/booking-service.ts`) | none of its own | `commit`, `confirm`, `cancel`, the private `#book`, `#settle`, `#pending`, `#refund` | the components down to the payment gateway |
| Booking repository (`infrastructure/repositories/postgres-booking-repository.ts`) | one row per booking: status, supplier reference, payment, refund | `create`, `advance`, `claimRefund`, `settleRefund`, `findUnsettled`, each one SQL statement | Postgres |
| Rate tokens (`infrastructure/rate-token/`) | one sealed quote per deal, with a time to live | `issue`, `resolve`, `reseal`, `consume` | Redis, or memory |
| Revalidation (`modules/revalidation/`) | none | `revalidate`: a precheck at the supplier, compared with the quote | rate tokens, registry, adapter |
| Reconciler (`modules/booking/reconciler.ts`) | a timer and a `#running` flag | `runOnce`: a batch of unsettled bookings, in waves, through `confirm` | repository, booking service |
| Circuit breaker, supplier calls (`suppliers/common/`) | failures, `openedAt`, `halfOpenInFlight` | `canAttempt`, `recordSuccess/Failure/Ignored`, `callSupplier` | HTTP |
| Adapters (`suppliers/tripjack`, `suppliers/rategain`) | none | `search`, `precheck`, `book`, `getBookingStatus` (TripJack only), `cancel` | suppliers |
| Registry (`suppliers/contract/registry.ts`) | registered adapters | `get`, `register` | composition |
| Payment gateway (a port in `modules/ports.ts`) | captured money | `authorize`, `refund` | outside |
| Search, cache, coalescer, warmer | cached results | read only | adapters |
| Sync, backfill, retention | cursors, timers | batch jobs | Postgres |
| Live commit (`hotel-booking-service`: `commit.service`, `RedisLockUtil`) | a Redis lock, then the document | look-up, lock, precheck, charge, commit the supplier, save, refund, release | suppliers, auth-service's wallet, payment-service |
| Live settlement (`bookings.service`, `refund.service`, `ReconciliationWorker`, two crons) | one Mongo document per booking, with its refund | `syncBookingStatus`, the in-request poll, the sweep, `execute` with its claim | the same |
| Live cancel and confirm (`cancel.service`, two controllers) | the same document | `cancel` and its poll, `/confirm`, the refund by hand | the same |
| Flight bookings (`flight-service`) | one row per booking, with an amendment | `/init`, the debit and the ticket, amendments, release, confirm, the status cron, the nightly deletion | TripJack, auth-service, payment-service |
| Cab bookings (`cabs-service`) | a Redis lock, one document per key, with its refund | the request, the refund engine, the worker, cancellations | TripJack, auth-service, payment-service |
| Payment orders (`payment-service`) | one document per Razorpay order, with its refunds | create, verify, sync, webhooks, refunds | Razorpay |
| Wallet (`auth-service`) | a balance, a ledger | debit, credit, the payment of a booking | Mongo |
| Other services | see `PROJECT.json` | accounts, e-mail, monitoring, enquiry forms | |

### How they interact

In the engine `commit` is a chain of awaits: replay check by idempotency key, `revalidate`
(which may `reseal` the token when the supplier moves the rate), the decision,
the quote, the insert, the charge, PAYMENT_HELD, the `consume` of the deal's
token, the supplier's `book`, and `#settle`. `confirm` is called by the
reconciler and by the HTTP handler on a SUPPLIER_PENDING booking. `cancel` takes
the booking to CANCELLATION_PENDING, asks the supplier, and moves it on or back.
All three may end in `#refund`: claim in the table, pay at the gateway, record.
They share nothing but the booking row, the token and the supplier, and each of
them reads state before an await and uses it after.

In the live service a commit takes a Redis lock of thirty seconds and saves its document last. From then on
nothing is shared but that document. The poll of the request that made the
booking, the status cron and the details endpoint (both `syncBookingStatus`), the
reconciliation worker, the cancel flow and two controllers read it, ask the supplier, and write it by
id; what they refund goes through one `RefundService`, whose `claim` is the only write
that looks at what it replaces. `cabs-service` has the same refund engine and a worker of its own, but saves its
document first, and a request may go on with the document of an earlier one.

`flight-service` debits through `/book/pay` of auth-service, which looks for an earlier debit of the booking in its ledger, and
credits what an attempt took when that attempt fails. Its cron alone credits cancellations. `payment-service` is called
by all of them, by browsers and by Razorpay, on one order document, and takes the order and the payment a request
names as they come. A flight's debit and credit are made with a token that the controller keeps in a field of its own,
where the next request overwrites it; whose wallets it reaches depends on the payer's place in the agency.

### What is hard

Interleavings of commits, polls and cancellations of the same booking or the same
deal; a supplier that accepts and does not answer; a process lost between taking
the money and saying so; a release that drops a supplier whose bookings live on;
a token read before and written after another commit's delete; a lock that runs out under its owner; a ledger that
remembers a debit and not its refund; half a dozen jobs that may each find
a live booking over and refund it, with no transaction around the payment and its record; an order's total read before and
added to after another refund. The places are
listed one by one, with the property that covers each, under `hazards` in
`PROJECT.json`.

### What makes it correct

- *Booking service*: a key is charged once; money goes back once, and never while
  the room is held; a confirmed booking is held by the supplier; nobody's money
  is stranded; statuses move along the table `TRANSITIONS`; a pending booking is
  settled in the end.
- *Repository*: two writers of one row never both believe they moved it.
- *Rate tokens*: a deal is booked by one commit, unless a reseal brought its token back.
- *Reconciler*: one sweep at a time; every pending booking it has room for is asked about.
- *Supplier calls*: a write is sent once; a failure that may hide a booking is not
  called a failure; a breaker opens for cause and lets one probe at a time through.
- *Live commit*: one request works under a lock; an agent is charged once per key, and not at all for nothing.
- *Live settlement*: a document's payer is paid once, for cause, and what is paid is
  on record; a closed booking has been refunded.
- *Flights*: money is taken before a ticket is asked for, and given back when there is none, no more than was taken and to the wallet
  it came from; a cancellation is credited once.
- *Cabs*: one refund, of money that was charged; one ride under a lock; no failed booking keeps its charge.
- *Payment orders*: SUCCESS means that Razorpay has the money of the payment; refunds stay within the order, and their record is true.

## 2. Modules

In every module a request runs without interruption from one await to the next, as Node runs it; an **action**
is that stretch of code, and processes interleave only between actions. Each action is mapped to its lines in
`PROJECT.json`. A definition marked *Mutation* is not part of the specification: it is a wrong variant of the one
after it, which some property is shown to catch.

### `HotelBooking.tla`

The booking path of the engine. A **process** is a commit request, a caller of
`confirm` (a *poller*) or a caller of `cancel` (a *canceller*). A booking is named by
the commit that mints its id.

| Variables | Code |
|---|---|
| `status`, `ref`, `payment`, `refund` | the columns of the booking row; `NO_ROW` is a row not inserted |
| `token` | whether the deal's sealed quote is still in the key/value store |
| `stay`, `penalty` | what the supplier holds, and what it deducted |
| `captured`, `returned` | what the gateway took and gave back |
| `pc`, `loc` | where each request waits, and the local variables it carries across the await |
| `request`, `outcome` | a commit's key and deal, and the answer it gave |
| `registered` | the suppliers of this release |
| `revived` | history: deals whose token a late reseal wrote back |
| `crashes`, `redeploys` | how much of the bounds is spent |

What to know when reading it against the source:

- A conditional UPDATE is one atomic action (`advance`, `Claim`); `reseal` is two
  (`ResealRead`, `ResealWrite`) because the code awaits a read and then a write;
  `consume` is one, because it is a DEL that answers whether it removed.
- `Refunding` is the part of `#refund` before the claim. Whether a refund is owed is
  judged on the row the caller *holds*, which may be older than the row in the table:
  `loc[p].seen` is that row's refund status.
- CONSENT_REQUIRED and REFUSED are one outcome: both end the request with nothing
  written. A stand-alone precheck is a commit that stops at `Decide`.
- A CONFIRMED or ON_HOLD answer carries a reference, as it does in both adapters; a
  PENDING answer may or may not; an adapter that throws leaves none.
- The supplier (`SupplierDecides`, `CancelAccept`) and the gateway (`Charge`, `Pay`)
  are modelled from the contract the code is written against: `ports.ts`,
  `suppliers/contract/dto.ts`. The repository ships no gateway but one that
  refuses, and today's adapters report no penalty, but the contract has one and
  the service computes with it.
- `Crash` stands for a lost process and for a rejected store or gateway call, which
  ends the request the same way; what it has written stays written.
- `Redeploy` is the only change of `registered`: the registry is filled at start-up.
- `Book` has no branch for a supplier that is not registered (`#book`, lines 271-275, FAILED without a refund): `commit` asks the same
  registry before the charge (line 162), the registry of a process only grows, and a commit does not outlive its process.
- A hold that lapses at the supplier is not modelled; the events and payload tables
  are not read by this path and are left out.

### `BookingPromise.tla`

What the path promises about money and rooms, with no tokens, statuses or requests:
a key takes money once, a room is asked for only against money taken, and money goes
back, at most what was taken, only once the room is gone. `HotelBooking` implements it under
the mapping `RoomOf` (run *together*).

### `Reconciler.tla`

The sweeps that `HotelBooking` takes for granted. A row is a status and a place in the
order of `updated_at`; every write sends it to the end. A sweep is a call of `runOnce`:
`Tick` (the check and set of `#running`), `Query` or `QueryRejects`, `NextWave` for each
slice of the batch, `LastWave`; and for each booking of a wave `confirm`, as the sweep
sees it: `Read`, then `Settle` or `LeaveIt`. `Elsewhere` is what commits, cancellations and
other callers of `confirm` do to a row meanwhile, along the code's `TRANSITIONS` as far as any
path takes them (SETTLED is CONFIRMED, ON_HOLD and every final status, and a cancellation takes the first two up again): nothing takes a booking out of MANUAL_REVIEW. Several sweeps exist because several ticks do;
that only one is ever under way is a property. Which bookings of a batch share a wave is left open,
so the batch is a set. `Restart` loses the flag and the sweep.

### `SupplierCall.tla`

Calls of one supplier through its circuit breaker. A call is a record in a slot of
`Calls`: how much of the deadline is left, the timer of its attempt or backoff, the
number of the attempt. `Send`, `TurnAway` and `TooLate` are `callSupplier` up to its first
await; `Answered`, `Refused`, `Disconnected` and `TimedOut` the ends of an attempt, each going
through `Fail` where the code falls out of its `try`; `Wake` the end of a backoff; `Tick` the clock.
The breaker is `failures`, `shut` and `since` (its `#openedAt`, counted up to `OpenFor`) and
`halfOpenInFlight`. Only a read is repeatable: both adapters pass `repeatable: true` for
reads and nothing for `book` and `cancel`.

- A write's request has a fate: open, booked or refused. If the attempt ends with the fate
  open, the supplier still has the request (`late`) and may book when nobody waits.
- What is assumed of suppliers is what `mayHaveBooked` documents: a 4xx, 401, 403 or 429
  answer proves that nothing was booked. A 5xx, a body that reports a failure, a lost
  connection and a timeout prove nothing.
- A timeout while the body is read is reported as UNKNOWN_ERROR: `res.text()` is outside the
  `try` that names timeouts. The model has both.
- The caller's abort signal is left out: every caller aborts only after its calls have
  returned, so no running call sees it fire.
- `blamed` is history: what has made attempts fail since the last success, the supplier or a deadline that cut the attempt's timeout short.

### `LiveCommit.tla`

Calls of `commit()` of the live service; a client that tries again makes another one with the same key. `ask` says what a
request wants and never changes: its lock key, B2B or B2C, TripJack or RateGain, a hold or not, and its Razorpay payment.

| Variables | Code |
|---|---|
| `lock` | the Redis keys `commit_lock_…`, with the id they hold |
| `paid`, `read` | `paymentProcessed`; the balance the debit read |
| `balance`, `debits`, `credits` | the agent's wallet, and what each request took and gave back |
| `stays`, `numberless` | what the supplier booked, and that without a confirmation number |
| `document` | the status the request saved |
| `pc` | where each request waits |
| `lapsed`, `unheard` | history: requests whose lock ran out; whose wallet call, or save, failed or was not answered |

- The look-up by key (`FindReplay`) comes before the lock, and is not repeated under it.
- `ReadWallet`, `SaveWallet` and `deductBalance` are the debit: auth-service's read and check, its save, and its answer.
- `Unique` is the collection's two unique indexes. A RateGain booking without a confirmation number is saved as "RG-PENDING",
  so a second one is refused by the index on that field, and refunded.
- A RateGain refusal is refunded where it is seen and, by the catch block around it, again (`rejected`, then `refund`).
- `Expire` ends a lock after its thirty seconds, whatever its owner is doing.
- `SaveUnheard` is a save that was made and whose acknowledgement was lost: the request gives the charge back and the document stands.
- Left out: `LOCK_FAIL_OPEN=true`, with which an error of Redis lets a request in without a lock (by default it is refused, which is `Refuse`),
  validation, guests and rooms, e-mails, and the poll that follows a TripJack commit in the same request, which `LiveSettlement` has.

### `LiveSettlement.tla`

One document of the live service, its automatic refunds on. Documents share nothing, so one is enough.
A process is a job: the poll, a sync, a sweep, a cancellation, a confirmation, a refund by hand.
It starts one, runs it await by await, and is then free for another.

| Variables | Code |
|---|---|
| `status`, `refund`, `charges` | `status`, the `refund` subdocument and `cancelChargesInfo` of the document; `refund.stale` is `attemptedAt` half an hour ago |
| `quiet` | `updatedAt` six hours ago; every write ends it |
| `order` | what never changes: the supplier, whether there is a wallet or payment to refund to, whether the payer was charged |
| `stay` | what the supplier holds |
| `returned`, `payments` | money given back, and in how many payments |
| `age` | since `createdAt`: under half an hour, half an hour (the worker's grace), six hours (its refund), a day (the stale-booking job) |
| `pc`, `loc` | where each job waits and what it carries: the status it read, the answer it got, the charges, the refund it asks for |
| `waived` | history: somebody refunded without the supplier's word |
| `requests`, `losses` | how much of the bounds is spent |

- `StartSync`, `Ask`, `Set` are `syncBookingStatus`. The endpoint and the status cron do the
  same, so they are one job; the sweep calls it too and uses what it returns. `Set` writes what the
  supplier said some time ago, whatever the document says by now, and begins the refund in the same step:
  `onStatusResolved` has no await before `RefundService`'s first.
- `claim`, `Pay`, `PayFails`, `record`, `close` and `fail` are `execute`. Its catch block holds the payment, the record and
  the final status, so a rejected write of the latter two ends in `fail` (`Rejected`).
- `StartSweep` to `SweepRetry` are one sweep of the worker: the stuck bookings, the stuck cancellations,
  the failed refunds. Nothing keeps two sweeps apart.
- The poll ends in any of its outcomes at any attempt; how many attempts fit into three minutes is left open.
- `Penalties` are charges that can be deducted. A breakdown may also be missing (`None`) or of no
  use (`Unclear`: no number, another currency, more than was paid).
- A wallet credit and a gateway refund carry a reference that nobody looks up, so every call is a payment.
- A supplier may drop a booking it confirmed or held; a cancellation it acknowledged ends
  cancelled, or refused, and then the stay stands.
- `CancelUnheard`, `PayUnheard`, `Rejected`, `Crash`, and an `Overrun` while somebody is paying, are *losses*,
  bounded by `MaxLosses`.

### `PaymentOrder.tla`

One order of `payment-service`, and the payments a caller may name for it. A caller makes one request after another: it creates, verifies, syncs or refunds the order.

| Variables | Code |
|---|---|
| `status`, `linked`, `paymentId`, `total` | the document: its status, whether `razorpayOrderId` is set, `razorpayPaymentId`, `totalRefundedAmount` |
| `entry`, `amount`, `source` | of each element of `refunds`: its status, its amount, the payment it is taken from |
| `payment`, `events` | each payment as Razorpay has it, and the webhooks of the order's own that it delivers, in any order and again |
| `returned`, `direct` | the money that went back for each refund, and by `internal/refund` |
| `pc`, `loc` | where each request waits, the status and total it read, the payment it names, its refund, the status it means to write |
| `losses`, `stray`, `crossed` | the bound; history: the refunds a loss befell, and whether two were each allowed on a total without the other |

- `Own` is the payment made for the order. `verifyRazorpayPayment` checks the signature of the Razorpay order and the payment the caller names,
  and compares neither with the order's own, and `StartRefund` takes an order and a payment that need not belong together: a caller may name any of
  `Payments`, whose amounts are `Worth`. `CheckAmount` measures a refund by the payment that was named and the total of the order that was named.
- `updateOrderStatus` selects by our own order id. The webhook passes Razorpay's, so it changes nothing.
- `verifyRazorpayPayment` and `syncRazorpayOrderStatus` read, ask Razorpay, and write, three actions.
- `createRefund` pushes the entry and adds to the total in one update, on a check made two awaits before. A new entry's `razorpayRefundId`
  is `''`, so the unique index refuses it while another order has an entry that new (`ReserveRefused`).
- `Give` is what Razorpay allows: no more than was captured.
- Left out: the Cashfree path (`order.service.ts`), and `verifyRefundWebhookService`, which no route reaches.

### `FlightBooking.tla`

One flight booking. Money is counted in charges of the whole booking. A `payer` is an agency's admin, a relationship manager or a sub-company under
one, the house account that stands for a customer, or a guest, who has no wallet.

| Variables | Code |
|---|---|
| `status`, `amendmentId`, `refundProcessed` | the row |
| `order`, `amendment`, `refundable` | TripJack's order under the same bookingId, the amendment that cancels it, and whether it has money to give back |
| `paid` | the Razorpay order of the booking says paid |
| `ledger` | auth-service's BOOKING entry |
| `debits`, `credits` | of each wallet: the holder's, that of the admin above, the house account's, anyone else's |
| `back`, `unflagged` | credits of the cancellation; history: those that could not be noted in `refundProcessed` |
| `pc`, `debited` | where each request waits, and `walletDebited` |
| `cron`, `seen`, `latest`, `mail` | the status cron, which `isRunning` keeps to one, and the refresh that e-mails set off |

- `updateAndBook` to `refundWalletBalance` are one attempt: the prepared row, the debit, the ticket, the outcome, the credit.
- `Charges` and `Refunds` say which wallets a charge is taken from and which one it is given back to. `/book/pay` looks for an earlier debit for a
  user who is under nobody only. A relationship manager's charge is its admin's, and a sub-company that lacks the
  balance owes it, which debits two wallets. `/wallet/credit` credits the holder of the token, once: a manager has no
  wallet (`createRM`), so that it is refused, and what a sub-company gets goes to the admin above while its own balance is negative.
- `Mix` is `currentToken` overwritten by a request of another user between two awaits: the debit, or the credit, is that user's. The house
  account is named and cannot be mixed up. A mix-up is counted with the losses.
- `submit` and `Amended` are a cancellation; the cron's `CronCheck`, `CronAmendment`, `CronCredit` and `CronFlag` credit it.
- Left out: fares, seats, passengers, search and review, the conditions of a hold, a void's VOIDED status, the `/test` routes, the
  calculation of a cancellation's refund, whose job is commented out, amendments of a part of the booking or anew after one
  that was rejected (`cancellation.service.ts:58-80`), and a sub-company's wallet that is gone between two debits (`bookingPayment.service.ts:455`).

### `CabBooking.tla`

The cab bookings of one idempotency key: the requests under it, which share one document, and `Jobs`, each a sweep or a
cancellation under way. A ride is named by the request that asked for it.

| Variables | Code |
|---|---|
| `status`, `ref`, `refund` | `status`, `bookingId` and `refund` of the document |
| `age` | of `createdAt`: under a quarter of an hour (the worker's grace), under six hours (its refund), more |
| `locking`, `lock` | whether REDIS_URL is set, and who has the lock |
| `ride` | what TripJack made of each request |
| `charged`, `unverified` | requests that charged the payer and know it; that took a captured Razorpay payment for none, because it could not be verified |
| `returned`, `payments` | money given back, in how many payments |
| `pc`, `loc` | where each process waits, the status it loaded, the one it means to write, the refund it asks for |
| `reused`, `lapsed`, `waived`, `retried` | history: a request went on with another's document; a lock ran out under its owner; a refund without the supplier's word; one that had failed before |

- `claimBookingRecord`, `FindPrior` and `ResetPrior`: a request that loses the insert goes on with a document that is done or under way, refuses
  one INITIATED, and begins a failed one again, with the refund of the first try still on it.
- `claim`, `Pay`, `Complete`, `Fail` are the refund engine; unlike the hotels', the booking's last status and its refund's are one update.
- `StartSweep` and `resolve` are the worker's first pass, `retryRefund` its second.
- `finalizeBookingRecord` writes the fields it changed since it loaded the document, so an unchanged status is not written.
- `RefundThrows` inside `settleSupplier` is caught there and ends in SUPPLIER_PENDING (line 610), elsewhere it ends the process's work.
  A poll may say nothing that is understood (`Says`), which six hours on is as good as no ride.
- Left out: search, the re-pricing, mark-ups, a payment id used again under another key, the deletion of drafts (`cron/index.ts:10`), which finds none
  because no document is ever saved PENDING, `LOCK_FAIL_OPEN=true` (`RedisLockUtil.ts:72`), `ENABLE_AUTO_REFUNDS=false`, the service's own circuit breaker, e-mails, and two branches no request reaches (no instrument to
  refund to; an acceptance without a booking id).

### `MCHotelBooking`, `MCReconciler`, `MCSupplierCall`, `MCLiveCommit`, `MCLiveSettlement`, `MCPaymentOrder`, `MCFlightBooking`, `MCCabBooking`

The specifications for TLC: symmetry, and what the requests or orders of an instance ask for. They replace nothing.
`MCCabBooking` also has two constraints: at most `MaxUnderWay` processes under way at a time (`FewUnderWay`), and the last of the requests only under a
lock, while nothing was lost (`LastInOrder`).

### The modules of proofs

`HotelBookingProofs`, `ReconcilerProofs`, `SupplierCallProofs`, `LiveCommitProofs`, `LiveSettlementProofs`, `PaymentOrderProofs`,
`FlightBookingProofs` and `CabBookingProofs` (section 5).

## 3. Runs

The runs of `HotelBooking` have `Price = 3` and `Penalties = {0, 1, 4}`: no penalty, a partial one, and
one larger than the charge. Deadlock checking is off in all runs, because the system
does stop: when every request has been answered and no booking is unsettled, nothing
is left to do.

| Run | Instance | Properties | Shows |
|---|---|---|---|
| `settle` | 1 commit, 1 poller, 2 cancellers, a pollable and an unpollable deal, 1 crash, 1 redeploy, fairness | `RefundedAtMostOnce`, `NoRefundWhileHeld`, `ConfirmedIsHeld`, `NoStrandedMoney`, `RefundRecordIsTrue`, `FollowsTransitions`, `PendingIsSettled` | everything that can happen to one booking; a SUPPLIER_PENDING booking leaves that status |
| `together` | 2 commits, 2 keys, 1 deal, 1 poller, 1 canceller | `OneBookingPerKey`, `DealLockUnlessRevived`, `KeepsPromise` | the unique index keeps a key to one booking; two commits of one deal both reach the supplier only through a late reseal; the path implements `BookingPromise` |
| `sweeps` | 2 sweeps, 3 bookings, batch 2, waves of 1, 1 restart, fairness | `OneSweepAtATime`, `AtMostConcurrency`, `ReachedUnlessCrowded` | rejected queries and calls never let two sweeps or two waves overlap; a pending booking with fewer than a batch of unsettled rows before it is asked about |
| `calls` | 3 calls, reads and writes, deadlines 0, 1 and 4, timeout 2, 1 retry, threshold 2, window 5, fairness | `NeverDeniesABooking`, `OneReservation`, `NoneOutlivesItsDeadline`, `OneProbe`, `OpenedForCause`, `ProbedInTheEnd` | no reservation is reported as a failure, and none is made twice; deadlines hold; the breaker opens only after an attempt failed or ran out of time, admits one probe and always another |
| `commit` | 3 requests of five shapes, price 2, 4 in the wallet, 1 loss, fairness | `LockExcludes`, `NoStrandedCharge`, `RefundedForCause`, `ChargedOncePerKey`, `LockIsFreed` | one request works under a lock; an agent's charge that led to nothing goes back, and only that; a lock comes free |
| `live` | 2 jobs, 3 kinds of order, 1 request, 1 loss | `PaidOncePerLoss`, `RefundForCause`, `ClosedIsRefunded`, `RecordNotAhead` | any two jobs pay once, or once more after a loss; money goes back, and a booking is closed, for a stay that is gone, or after six hours without a word; a closed booking has its refund on record, and the record is true |
| `payments` | 2 callers, 2 refunds, the order's own payment of 1 and another order's of 2, captured before, refunds of 1 or of what is left, 1 loss | `SuccessIsCaptured`, `ReturnedIsReserved`, `NoOverRefund`, `RefundRecordIsTrue` | an order is SUCCESS only if Razorpay has the money of its own payment or of the one it was verified by; what goes back is within the total, and the total within the order unless two refunds crossed or another order's payment was named; the record of a refund is true |
| `flights` | 2 requests, five kinds of payer, 2 debits for a sub-company and the house account, 1 for the others, 1 loss or another user's token | `TakenBeforeTicket`, `CreditedWhatWasTaken`, `NoStrandedDebit`, `CancellationPaidOnce` | money is taken before a ticket is asked for and goes back, at most as much, when there is none, wallet by wallet but for the token mix-up and the wallets of an agency's lower ranks; a cancellation is credited once |
| `cabs` | 3 requests, the last under a lock, 2 jobs, two at a time, price 2, 1 loss | `PaidOncePerLoss`, `OneRideStands`, `RefundedIfCharged`, `FailedIsRefunded` | one refund per key and loss, of money that was charged; one ride under the lock, two if the worker gave up on one or tried an old refund again; a FAILED booking gave the charge its request knew of back or will be tried again |
| `breaker` | 2 reads, deadlines 0, 1 and 4, the rest as in `calls` | `OpenedByFaults` (violated) | the deadline of a busy search opens the breaker of a supplier that failed nothing |
| `unpaid_hold` | 1 job, also unpaid holds | `OnlyWhatWasPaid` (violated) | a hold that was never charged is refunded |
| `flight_ticket` | 1 request, an admin | `TicketIsCharged` (violated) | an attempt after a refunded one gets a ticket nobody was charged for |

A type invariant is stated in every module. It is in no run, because the theorems of section 5 prove it: of `Reconciler`, the
sweep's part (`Kept`), since the order of the rows is kept by a `SelectSeq`, which needs an induction. TLC checked each of them before.

**Why the bounds are enough.** Bookings meet only through keys and deals, so
`together` has two commits that may share either; `settle` has one booking, because after
the insert no two bookings share a row. The hazards there are pairs: two cancellers, or one of them, or
the commit's own answer, with the poller; a second poller was tried for the invariants and changes nothing.
Within a run nothing else is bounded: pollers and cancellers return as often as
they like, tokens expire at any moment, and the supplier decides whenever it wants.
One crash and one redeploy may fall between any two steps of `settle`.

A batch of `sweeps` takes two waves, so that a wave can start early, and is one short of the bookings; two
sweeps and a restart are as many as can meet. In
the runs of `SupplierCall` the units keep the order of the shipped configuration: an attempt
(14 s there) is 2, a backoff (200 ms) 1, the window (30 s) 5, so that a call, with its retry (28.2 s there; 4
here, all its deadline leaves), ends inside the window. **`OneProbe` depends on that**: any call that ends clears
`halfOpenInFlight`, and if a call admitted before the breaker opened could still be running when the
window ends, a second probe would pass beside the first (TLC finds it with a window of 4 or less). The margin in
the shipped configuration is 1.8 seconds; one more retry removes it. The deadlines are one that is past, one that cuts an
attempt short and one that fits all of them.

Requests of `commit` meet through a lock key, an idempotency key, a payment, the number "RG-PENDING" and the wallet. Each of the five shapes
gives three requests one or two of these: two that race and a third that comes after. The wallet holds two charges.

In `live` every hazard is again a pair of jobs, and each of the two may be any job, one after another: the
second process is the one that comes in between. One loss is enough to tell a second payment that
needs one from one that does not; the theorems (section 5) have no bound. One request is a cancellation, a
confirmation or a refund by hand, beside the poll, the syncs and the sweeps, which come as often as they like.
A price of 2 has a penalty of a part and of the whole.

`payments` has two callers because every hazard is a pair (two refunds on one total, a verification and a sync, a capture and
either), and they return as often as they like. The other order's payment is worth more than this order's, so that it is refunded in part, in full, or in
two halves, and beyond what this order is for; `Most` and `Asked` bound the amounts. `flights` has two
requests and the cron; two debits are the most that can pass the look for a debit together, and what a sub-company, for which
nothing is looked for, needs to owe both times (`Debits`). In `cabs` two requests meet on one document, and each of them meets a sweep or a cancellation, or these one another. `MaxUnderWay` keeps
three of them from being under way at once, not from following one another. A third request is what shows a booking that was begun again and is
called FAILED by the refund of its first try; with two, `OneRideStands` held without the exception for that.

In the violated runs one process is enough, and no request or loss that the
counterexample does not need.

**The three violated properties** each state what a comment of the repository says, quoted under `findings`. A deadline that cuts calls
short counts as the supplier's timeouts, and opens a breaker that `circuit-breaker.ts` says it does not open; a B2B hold that was not charged is
refunded when the supplier lets it fail; and a flight that failed and was refunded is, at the next attempt, taken for paid.

**Other behaviour met while modelling**, which no property forbids, since nothing in the repository promises otherwise or a property names it as its exception:

- Engine: a `reseal` that was reading when `consume` deleted the token writes it back, and the deal can be booked again
  (`DealLockUnlessRevived` says that this is the only way). `confirm` refunds a booking it did not move, in full, after a cancellation with
  a penalty. A FAILED refund may be claimed, but nobody claims it: `findUnsettled` leaves terminal rows out. A batch full of rows the sweep
  never moves starves the rows behind it (`ReachedUnlessCrowded`).
- Live hotels: a refund claim whose process died stays PROCESSING once the status is terminal, although `refund.service.ts:17` lets it be claimed again. A cancellation parked in
  MANUAL_REVIEW is refunded in full by the sweep six hours later. Two debits of the wallet can both pass its check, and one of them is lost. A
  RateGain refusal is refunded twice.
- Cabs: without a lock, or after its thirty seconds, a request that loses the insert charges and books again under the same key
  (`booking.service.ts:438`). The second try of a booking whose first was refunded is never refunded (line 446). If the first try's refund failed instead, the worker tries it again
and then calls the document FAILED (`refund.service.ts:169`), although the second try's ride stands: a third request books another. A document left INITIATED is refunded in full
  after six hours whether or not it was charged (`ReconciliationWorker.ts:70`). A commit that was not answered is refunded, and TripJack is not
  asked. A ride TripJack cancelled closes the document without a refund.
- Cabs, an unverified payment: `PaymentUtil` answers `verified: false` for any error or timeout (`payment.util.ts:59-66`), and also while Razorpay has yet
  to capture. The booking is marked FAILED with no refund on record, and the worker looks at FAILED bookings for a failed refund only. The customer is told
  "If any amount was debited it will be refunded automatically" (`booking.service.ts:522`); nothing does. `FailedIsRefunded` is about the charges
  a request knew of; `RefundedAutomatically` states the promise, and TLC refutes it in seven states.
- Flights: an order TripJack aborts later is written down and its charge kept.
- Flights, wallets: two requests that overlap share `currentToken` (`bookingLocal.controller.ts:14`, set at 40 and 55, read at 112 and 212), and one may debit or credit
  the other's user. A relationship manager's admin is debited and never refunded. A sub-company's admin who advanced a charge is one of two wallets
  debited, and one credit is made. The comment at line 185 says "Gives back exactly what was taken, to the wallet it was taken from";
  `CreditedWhatWasTaken` and `NoStrandedDebit` say for whom that is so.
- Payment orders: any signed payment makes any order SUCCESS (`razorpay.service.ts:121-151`), and a refund names its order and its payment
  independently (`razorpayRefund.service.ts:24-64`), so that an order's refunds can exceed it with no two crossing. `SuccessIsCaptured` and `NoOverRefund` have these as their exceptions.
- Payment orders, the webhook: `docs/architecture/01-system-overview.md:88` has it confirm a payment. `handlePaymentCaptured` passes Razorpay's id
  to `updateOrderStatus` (`razorpay.service.ts:423`), which selects by ours, so no event changes an order; it stays PENDING until somebody syncs or verifies it.

## 4. Fairness

Fairness is assumed for the liveness runs only. `HotelBooking`:

- weak fairness of each running request's next step: Node resumes a request whose await
  has resolved, and every call has a timeout;
- strong fairness of `StartPoll(p, b)`: the reconciler sweeps on a timer and returns to
  a booking that is pending again and again. This assumes the batch reaches it; `sweeps`
  shows when it does;
- strong fairness of `Ask`: a supplier asked again and again about a decided booking
  answers some time;
- the supplier decides a request it received, in the end.

`Reconciler` assumes that the timer goes on ticking and a sweep goes on (weak), and that a query, or the
read of a row, that is tried again and again succeeds some time (strong). `SupplierCall` assumes that
time passes and timers fire (weak), and that calls with time left keep coming (strong); not that any supplier answers.
`LiveCommit` assumes that Redis expires a key (weak), and nothing of requests.
`PaymentOrder`, `LiveSettlement`, `FlightBooking` and `CabBooking` state no liveness and assume nothing.

No fairness is assumed of cancellers' first step (nobody has to cancel), of crashes, of
the expiry of tokens or of releases.

## 5. Proofs

Each module of proofs has inductive invariants, a lemma per action or group of actions that keeps them, and the theorems
they imply. All hold for any value of the constants that satisfies the assumptions named in the module they are declared in.

`HotelBookingProofs`, for any sets of commits, pollers, cancellers, keys and deals,
any price, penalties and bounds:

- `TypeCorrect`: `Spec => []TypeOK`. `TypeOK` alone is not inductive: a poller or
  canceller at rest works on no booking (`NoBooking`), and a step that updates the row of
  `loc[p].booking` needs it to be one. `AtWork` says that a process not at rest works on a
  booking, and a commit on its own. `TypeOK /\ AtWork` is inductive.
- `RefundedOnce`: `Spec => []RefundedAtMostOnce`. The strengthening is `Money`, of four
  parts: `ChargedOnce` (what is captured is nothing or the price, and a commit past the
  charge has captured it), `Owed` (a process about to claim or pay means to pay at most the
  price, of a booking that was charged), `OneOwner` (at most one process is between the
  claim and the record of a booking's refund, and the row then says PROCESSING) and
  `NotYetPaid` (until that process pays, and whenever the row admits a claim, nothing has been returned).
  The claim's conditional update is what carries the argument: a second payment would
  need a second owner or a row that is NONE or FAILED after money moved.

The other theorems look at a step through five tables (`CommitMove`, `PollMove`, `CancelMove`, `RefundMove`, `EnvironmentMove`
and the frame of each), which say place by place what a process changes; each action is proved to be in its table once.

- `ChargedOncePerKey` (`OneBookingPerKey`) from `Rows`: the place of a commit tells its row's status, what was captured and whether
  the supplier was asked (`Stage`); of one key only one commit has a row (`OneRow`, the unique index); and a
  canceller writes back only the status it found (`Found`). `Sound` is the types, `Money` and `Rows`.
- `RefundedWhenOver` (`NoRefundWhileHeld`) from `Justified`: whoever says that a stay is over says so rightly. That is a row that is
  FAILED or CANCELLED, money returned, a refund on record, a process that is refunding, and one that holds
  such an answer. What was read before an await is as good after it, because a stay that is `Over` stays over.
- `PromiseKept` (`KeepsPromise`), the refinement: from `Sound` and `Justified`, each step is `Take` (at the charge, where
  `OneRow` says that the key took nothing yet), `AskForRoom` (at the book, where `Stage` says that the money is there),
  `Decide`, `Release`, `GiveBack` (where `Justified` says that the room is gone) or a stutter.
- `DealSoldOnce` (`DealLockUnlessRevived`) from `Locked`: a commit past the `consume` left no token, unless a reseal revived it.
- `KeepsToTheTable` (`FollowsTransitions`) from `Sound` and `Named`: a booking that was confirmed, asked about or cancelled has the
  supplier's reference, and one withdrawn from review has none, which keeps the two ways out of MANUAL_REVIEW apart.
- `ToldIsHeld` (`ConfirmedIsHeld`) from `Honest`: one canceller at a time owns a row in CANCELLATION_PENDING (`OneCanceller`), what a
  row, a canceller or an answer says of a stay is what the supplier holds or held until it was cancelled (`Told`), and a stay that
  was cancelled left its row in cancellation, with an owner that knows or with none (`Left`).
- `RecordedAsMoved` (`RefundRecordIsTrue`) from `Net`: until a refund is recorded, the process that owns it carries its amount, net of the penalty.
- `NobodyStranded` (`NoStrandedMoney`) from `Chased`: while no process died, a FAILED row that was charged and has no refund
  has a process on its way to the claim.

`ReconcilerProofs`, for any bookings (finitely many), sweeps, batch size, concurrency and restarts:

- `OneSweep`: `Spec => []OneSweepAtATime`, from `Flagged` (a sweep under way holds the flag) and the
  property itself: `Finish` lowers the flag, so it has to be the only sweep's.
- `BoundedCalls`: `Spec => []AtMostConcurrency`. `Quiet` says that only a sweep in its waves has calls in
  flight and `OneWave` that it has at most a wave of them; with one sweep at a time, the calls of all sweeps are
  the calls of one.

`SupplierCallProofs`, for any calls, deadlines, timeouts, retries, threshold and window:

- `NeverDenies` and `ReservedOnce`, from `Accounted`: while a write runs, what the supplier holds of it is decided by
  the fate of the one attempt that is out, and when it ends, the verdict allows for the rest. This needs `Shapes`: a
  write never waits to be retried.
- `WithinDeadline`, from `InTime`: an attempt's timer ends by the deadline, a backoff's before it.
- `ProbeOwned`: `ProbeHasOwner` is inductive given the types, because every end of a call clears the flag.
- `ProbesAlone` (`OneProbe`) under `EndsInWindow`: every deadline is shorter than the breaker's window, or a call with all its
  attempts and waits is. The second is how the shipped configuration has it: with `rest[0]` = 14.2 s for the wait and the retry and
  `rest[1]` = 0, `Suffices` asks 14 + 14.2 < 30; the run has the first, deadlines of 4 and a window of 5. From `Probing`: what
  remains of a call (`Remains`) fits into what is left of the window, except for a probe, and beside a probe nothing runs.
- `OpensForCause` (`OpenedForCause`), for any deadlines. From `WithCause`: any counted failure
  follows an attempt that failed or ran out of time. What is left of the promise that deadlines open no breaker is false (run *breaker*).
- `CallTypeCorrect`.

`LiveCommitProofs`, for any requests, keys, payments, profiles and bounds. One invariant, `CommitInv`, of four parts:

- `TypeOK`, which includes that the wallet's balance never falls below zero, whatever debits cross (`TypeCorrect`);
- `Holds`: a request at work whose lock did not run out is the one the lock names, which gives `LockSafe`: a release removes only its own;
- `Accounts`, for each request: at each place of the commit, what was taken, given back, booked and saved. It gives `ChargeReturned`,
  `RefundsJustified` and `BookedIsPaid` (the supplier is asked only for what is paid, or a hold);
- `OneDocumentPerKey`, which with `Accounts` gives `OneChargePerKey`: only the request that saved the key's document keeps its charge.

`LiveSettlementProofs`, for any finite number of jobs, any orders, price, penalties and bounds:

- `PaidOnce`: `Spec => []PaidOncePerLoss`. The strengthening is `Budget`, an account: the payments made, the
  processes that may yet pay or are about to say that they did not (`Bearers`), and one more if the claim would be granted or would
  be in time (`Admits`), are together at most 1 plus the losses. A granted claim moves the last into the second, a payment
  the second into the first; a payment that was not heard, a rejected record, an overlong call and a crash each
  raise the left side by at most one, and the right side too. The zero refund and the missing
  instrument overwrite whatever claim there is, but never open one.
- `LiveTypeCorrect`. `TypeOK` needs `Aimed`: a process that is about to write the supplier's answer
  has a status to write.
- `RefundedForCause`: `Spec => []RefundForCause`. `Causes` says that until the stay is gone, or somebody waives the
  supplier's word, nothing points to a refund: no job is at, or one write before, `RefundService` (`Clear`), none carries a FAILED
  or CANCELLED it was told, and the document shows neither (`Innocent`). A stay that is gone stays gone (`GoneStays`), so what a
  job read about it, however long ago, is cause enough.
- `ClosedAndRefunded`: `Spec => []ClosedIsRefunded`, from `Tended`, which holds while nothing is lost: a claim under PROCESSING has
  its payer, a refund once begun stays begun, and a status is terminal only once a refund was begun, or somebody is on the way to one (`Owing`).
- `RecordIsTrue`: `Spec => []RecordNotAhead`. `Sound` holds while nothing is lost: one process pays at a
  time, under a claim that is fresh and of its own amount (`Holds`), and one that is about to record has paid that. The two
  writes that overwrite a claim under way are harmless for different reasons: the zero refund puts less on
  record than is paid, and the missing instrument is missing for everybody (`Armed`).

`PaymentOrderProofs`, for any callers, payments of any worth, finitely many refunds, bounds and losses:

- `SuccessIsPaid`: `Spec => []SuccessIsCaptured`. `PaidInv` adds what each request is about to write: SUCCESS comes from a
  captured payment, the order's own or the one that is then named, or from an order that said so already, and a captured payment stays captured or refunded (`CapturedStays`).
- `RefundsAsRecorded` (`RefundRecordIsTrue`) and `WithinTheOrder` (`NoOverRefund`) from `RefundInv`: a call has its refund
  to itself (`OwnCall`), knows of it what its place says (`Told`), and was allowed its amount on the total it read, within the payment it
  names (`Allowed`); a total that has moved since is what `crossed` notes, and a payment of another order is what the refund's `source` shows.
- `NothingUnreserved` (`ReturnedIsReserved`) from `Reserved`: the reserved total is the sum of the refunds that count, and a refund gives back at
  most its share. `Sum` is a fold; the proofs count it instead as the coins of all refunds (`SumIsCoins`, the cardinality of a set of pairs), by
  induction over the subsets of `Refunds` in its first-order form: of the subsets where the two differ there would be a smallest. An order's refunds are a finite array, which is all that `RefundsAssumption` says.
- `PaymentTypeCorrect`.

`FlightBookingProofs`, for any finite set of requests, any payers and bounds:

- `TicketIsFunded` (`TakenBeforeTicket`), `CreditsCovered` (`CreditedWhatWasTaken`) and `DebitsReturned` (`NoStrandedDebit`) from `MoneyInv`: a request carries its debit from the debit to
  the credit and nowhere else (`Carried`); one at TripJack's door has its customer's money or an earlier debit of some wallet (`Funded`); a booking touches only the wallets of its kind of payer,
  and another user's only after a mix-up (`Separate`, which turns the account of the sum into one of each wallet); credits made and credits to come (`Claims`)
  are at most the debits, and fall short of them by no more than what a sub-company's parent advanced while nothing is lost and there is no order (`Account`).
- `CancelledPaidOnce` (`CancellationPaidOnce`) and `CancelledPaidForCause` (only for an order TripJack cancelled because it was asked to) from
  `CancelInv`: what the cron goes on from is still so (`Known`), the amendment is noted once (`NotedOnce`), and a credit that was noted is
  flagged, or about to be (`Flagged`). A row that is deleted and begun anew loses its amendment with its flag, and can have no second one.
- `FlightTypeCorrect`.

`CabBookingProofs`, for any finite sets of requests and jobs, any price, refunds and bounds. `CabInv` has the types and two parts:

- `Budget`, the account of `LiveSettlementProofs` for the cabs' engine, which gives `CabPaidOnce` (`PaidOncePerLoss`);
- `Owed`: every ride, every process on the way to one or to money, every refund on record and all money given back
  go back to a charge, or to the worker's waiver. It gives `CabRefundedIfCharged` (`RefundedIfCharged`).
- `CabTypeCorrect`.

`CabOneRide` (`OneRideStands`) needs a second invariant, `RidesInv`, which speaks only while locks hold: then only the holder of the lock is
inside (`Serial`), and what a process holds fits where it is (`Placed`). Its core is `Counted`. The rides that stand, the cancellations on
their way to MANUAL_REVIEW and the rides that the document and the request inside still permit (`Permits`) share one account with the claims
of the refund, under way and to come, since a refund that completes calls the document FAILED and that permits a ride. `Rides`
covers them all by two and what was lost; `Clean`, while the worker neither waived nor tried a failed refund again, by one: as long as
there was no refund, a ride that failed and was not refunded stands in for it.

`CabFailedIsRefunded` (`FailedIsRefunded`) needs a third, `TriesInv`, which speaks only while nothing was lost and no request went on with
another's document (`Untouched`). Then one request tries for the key (`OneTry`), a refund of less than the price is of a ride TripJack
cancelled (`Asks`), and the record of it is true (`RefundSays`): what is PROCESSING is with somebody, and what is COMPLETED gave the price back unless a ride was cancelled. A document that
says FAILED then has one of three excuses (`Excused`): the price is back; no request knows of a charge, nor will; or TripJack failed the ride and a refund is on record.
In the third no ride can have been cancelled, since the key has had only one, and so that refund was of the price.

`PowersAssumption` in `SupplierCall` is arithmetic (powers of two are positive): the provers do not evaluate `^`.

The invariants were checked by TLC on small instances before they were proved.

**Only model-checked**: the liveness properties (`PendingIsSettled`, `ReachedUnlessCrowded`, `ProbedInTheEnd`, `LockIsFreed`), which are beyond the
prover. Every invariant and every action property that a passing run checks is a theorem.

## 6. Not modelled, and why

The components with status `not_modelled` in `PROJECT.json` carry their reason, and those that are `partly` modelled what is left out. In
the engine: the rules by which `decideCommit` and the revalidation reach a verdict
(any verdict is allowed), the allocation of guests to rooms, the audit tables, and the
text of answers. In the live services: the switch that turns automatic refunds off, e-mails, the event log, and the
prices. Most of the repository by size is user interface (`src/frontend`, `src/admin`) and forms of create, read, update and delete, which hold no
state that several actors move.

Hazards listed without a property carry their reason: in most the code has no
mechanism to check. In the engine a crash leaves PAYMENT_HELD, or a refund PROCESSING, and nothing looks for either; a
cancellation the supplier did not answer is asked about by nobody. In the live service a claim that died with its process is retried by
nobody, and a lost debit of the wallet is found by nobody.

## 7. Plan

In order of what matters to the customer's money. Done: `HotelBooking` with `BookingPromise`, `Reconciler`, `SupplierCall`, `LiveCommit`,
`LiveSettlement`, `PaymentOrder`, `FlightBooking`, `CabBooking`, and a module of proofs for each.

To come:

1. `CommitDecision`: the pure comparison of a precheck with its quote, against a reference definition.
2. `SearchFanout`: the race of the suppliers' answers with the deadline of a search, and the coalescer.
