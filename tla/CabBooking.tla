------------------------------ MODULE CabBooking ------------------------------
(***************************************************************************)
(* The cab bookings of one idempotency key (cabs-service): every request   *)
(* that is sent under it, the one document they share, and what the        *)
(* reconciliation worker and cancellations do to that document meanwhile   *)
(* (booking.service, refund.service, amendment.service, RedisLockUtil,     *)
(* ReconciliationWorker, cabBooking.repository).  An action is the code    *)
(* from one await to the next.                                             *)
(*                                                                         *)
(* Whether an agent's wallet is debited or a customer's payment verified,  *)
(* a request has charged.  A ride is named by the request that asked for   *)
(* it.  Automatic refunds are on.                                          *)
(***************************************************************************)
EXTENDS Integers, FiniteSets

CONSTANTS
    Requests,
    Jobs,        \* sweeps and cancellations under way at a time
    Price,       \* totalAmount
    Refundable,  \* what a cancellation may give back of it
    MaxLosses    \* bound: processes that die, answers and writes lost, overlong calls

Unclear == -1    \* a breakdown that says nothing
None == "none"

ASSUME PriceAssumption == Price \in Nat \ {0} /\ Refundable \subseteq 0..Price
ASSUME RequestsAssumption == IsFiniteSet(Requests) /\ IsFiniteSet(Jobs)
ASSUME ApartAssumption == Requests \intersect Jobs = {} /\ None \notin Requests
ASSUME LossesAssumption == MaxLosses \in Nat

VARIABLES
    status, ref, refund,   \* the document: status, bookingId, refund
    age,                   \* of createdAt: under 15 minutes, under 6 hours, more
    locking, lock,         \* REDIS_URL is set; who has the key's lock
    ride,                  \* what TripJack made of each request
    charged,               \* requests that charged the payer, knowing it
    unverified,            \* requests that took a captured payment for none
    returned, payments,    \* money given back, and in how many payments
    pc, loc,               \* where a process waits, and what it holds
    losses,
    reused, lapsed,  \* history: a request went on with another's document, a lock lost to
    waived, retried  \* time, a refund without the supplier's word, one that had failed before

document == <<status, ref, refund>>
locks == <<locking, lock>>
money == <<charged, unverified, returned, payments>>
proc == <<pc, loc>>
history == <<reused, lapsed, waived, retried>>
vars == <<document, age, locks, ride, money, proc, losses, history>>

Statuses == {"INITIATED", "SUPPLIER_PENDING", "CONFIRMED", "FAILED", "CANCELLED",
             "MANUAL_REVIEW"}
IDEMPOTENT_RETURN_STATUSES == {"SUPPLIER_PENDING", "CONFIRMED", "CANCELLED"}
Stuck == {"INITIATED", "SUPPLIER_PENDING"}
Kinds == {"FAILED_BOOKING", "CANCELLATION"}
Procs == Requests \union Jobs

Places == {"new", "look", "claimRecord", "prior", "reset", "collect", "markFailed", "commit",
           "settle", "finalize", "release", "ended",
           "idle", "resolve", "transition", "cancel", "park",
           "zero", "claim", "pay", "complete", "fail"}

Refunds == [status : {None, "PROCESSING", "COMPLETED", "FAILED"},
            kind : Kinds \union {None}, amount : 0..Price, stale : BOOLEAN]
NoRefund == [status |-> None, kind |-> None, amount |-> 0, stale |-> FALSE]

\* A process holds the status of the document it loaded, the ride it asks about, the
\* status it means to write, and the refund it asks for with where it goes after it.
Locals == [seen : Statuses \union {None}, ref : Requests \union {None},
           target : Statuses \union {None}, kind : Kinds \union {None},
           amount : 0..Price, next : {"release", "finalize", "idle"}]
Blank == [seen |-> None, ref |-> None, target |-> None, kind |-> None,
          amount |-> 0, next |-> "idle"]

TypeOK ==
    /\ status \in Statuses \union {None} /\ ref \in Requests \union {None}
    /\ refund \in Refunds /\ age \in 0..2
    /\ locking \in BOOLEAN /\ lock \in Requests \union {None}
    /\ ride \in [Requests -> {None, "PENDING", "CONFIRMED", "FAILED", "CANCELLED"}]
    /\ charged \subseteq Requests /\ unverified \subseteq Requests /\ returned \in Nat /\ payments \in Nat
    /\ pc \in [Procs -> Places] /\ loc \in [Procs -> Locals]
    /\ losses \in 0..MaxLosses
    /\ reused \in BOOLEAN /\ lapsed \in BOOLEAN /\ waived \in BOOLEAN /\ retried \in BOOLEAN

Init ==
    /\ status = None /\ ref = None /\ refund = NoRefund /\ age = 0
    /\ locking \in BOOLEAN /\ lock = None
    /\ ride = [r \in Requests |-> None]
    /\ charged = {} /\ unverified = {} /\ returned = 0 /\ payments = 0
    /\ pc = [p \in Procs |-> IF p \in Requests THEN "new" ELSE "idle"]
    /\ loc = [p \in Procs |-> Blank]
    /\ losses = 0 /\ reused = FALSE /\ lapsed = FALSE /\ waived = FALSE /\ retried = FALSE

At(p, place) == pc[p] = place
Go(p, l, place) == pc' = [pc EXCEPT ![p] = place] /\ loc' = [loc EXCEPT ![p] = l]
GoTo(p, place) == Go(p, loc[p], place)
Lose == losses < MaxLosses /\ losses' = losses + 1
Write(s) == status' = s /\ UNCHANGED <<ref, refund>>

-----------------------------------------------------------------------------
(* RefundService.                                                          *)

\* execute() up to its first await.  There is always a wallet or payment to refund to:
\* a request without either is turned away.
Execute(p, l) == Go(p, l, IF l.amount = 0 THEN "zero" ELSE "claim")

refundFailedBooking(p, l, next) ==
    Execute(p, [l EXCEPT !.kind = "FAILED_BOOKING", !.amount = Price, !.next = next])

Refunded(p) ==
    Go(p, IF loc[p].next = "finalize" THEN [loc[p] EXCEPT !.kind = None, !.amount = 0] ELSE Blank,
       loc[p].next)

\* Mutation: a claim does not look at what it replaces.
ClaimableAnyway == TRUE

Claimable ==
    \/ refund.status \in {None, "FAILED"}
    \/ refund.status = "PROCESSING" /\ refund.stale

claim(p) ==
    /\ At(p, "claim")
    /\ IF Claimable
       THEN /\ refund' = [status |-> "PROCESSING", kind |-> loc[p].kind,
                          amount |-> loc[p].amount, stale |-> FALSE]
            /\ GoTo(p, "pay")
            /\ retried' = (retried \/ (refund.status = "FAILED" /\ loc[p].kind = "FAILED_BOOKING"))
       ELSE Refunded(p) /\ UNCHANGED <<refund, retried>>
    /\ UNCHANGED <<status, ref, age, locks, ride, money, losses, reused, lapsed, waived>>

Paid(p) == returned' = returned + loc[p].amount /\ payments' = payments + 1

\* The wallet is credited, or Razorpay refunds.
Pay(p) ==
    /\ At(p, "pay") /\ Paid(p) /\ GoTo(p, "complete")
    /\ UNCHANGED <<document, age, locks, ride, charged, unverified, losses, history>>

PayFails(p) ==
    /\ At(p, "pay") /\ GoTo(p, "fail")
    /\ UNCHANGED <<document, age, locks, ride, money, losses, history>>

\* The money moves and the answer is an error, or none.
PayUnheard(p) ==
    /\ At(p, "pay") /\ Paid(p) /\ Lose /\ GoTo(p, "fail")
    /\ UNCHANGED <<document, age, locks, ride, charged, unverified, history>>

FinalStatus(kind) == IF kind = "FAILED_BOOKING" THEN "FAILED" ELSE "CANCELLED"

\* The booking's last status and its refund's, in one update, whoever has the claim.
Complete(p) ==
    /\ At(p, "complete")
    /\ status' = FinalStatus(loc[p].kind) /\ refund' = [refund EXCEPT !.status = "COMPLETED"]
    /\ Refunded(p)
    /\ UNCHANGED <<ref, age, locks, ride, money, losses, history>>

\* The update is rejected after the money has moved.
CompleteRejected(p) ==
    /\ At(p, "complete") /\ Lose /\ GoTo(p, "fail")
    /\ UNCHANGED <<document, age, locks, ride, money, history>>

Fail(p) ==
    /\ At(p, "fail")
    /\ refund' = [refund EXCEPT !.status = "FAILED"] /\ Refunded(p)
    /\ UNCHANGED <<status, ref, age, locks, ride, money, losses, history>>

\* A write of the refund itself is rejected, and that throws; settleSupplier takes it
\* for an error of TripJack's, and goes on.
RefundThrows(p) ==
    /\ pc[p] \in {"zero", "claim", "fail"} /\ Lose
    /\ Go(p, IF loc[p].next = "finalize"
             THEN [loc[p] EXCEPT !.target = "SUPPLIER_PENDING", !.kind = None, !.amount = 0]
             ELSE Blank,
          loc[p].next)
    /\ UNCHANGED <<document, age, locks, ride, money, history>>

\* It does not look at a claim that is under way.
recordZeroRefund(p) ==
    /\ At(p, "zero")
    /\ IF refund.status = "COMPLETED" THEN UNCHANGED <<status, refund>>
       ELSE /\ status' = "CANCELLED"
            /\ refund' = [NoRefund EXCEPT !.status = "COMPLETED", !.kind = "CANCELLATION"]
    /\ Refunded(p)
    /\ UNCHANGED <<ref, age, locks, ride, money, losses, history>>

-----------------------------------------------------------------------------
(* book(): one request.                                                    *)

\* Mutation: the lock is set, whoever has it (SET without NX).
TakesTheLock(r) ==
    /\ At(r, "new")
    /\ lock' = (IF locking THEN r ELSE lock) /\ GoTo(r, "look")
    /\ UNCHANGED <<document, age, locking, ride, money, losses, history>>

\* Without REDIS_URL there is no lock.  With it, an error of Redis refuses the request.
acquireLock(r) ==
    /\ At(r, "new")
    /\ \/ ~locking /\ GoTo(r, "look") /\ UNCHANGED lock
       \/ locking /\ lock = None /\ lock' = r /\ GoTo(r, "look")
       \/ locking /\ GoTo(r, "ended") /\ UNCHANGED lock
    /\ UNCHANGED <<document, age, locking, ride, money, losses, history>>

\* The replay, and then the precheck.
FindReplay(r) ==
    /\ At(r, "look")
    /\ \/ status \notin IDEMPOTENT_RETURN_STATUSES /\ GoTo(r, "claimRecord")
       \/ Go(r, Blank, "release")
    /\ UNCHANGED <<document, age, locks, ride, money, losses, history>>

\* The key's unique index lets one insert through.
claimBookingRecord(r) ==
    /\ At(r, "claimRecord")
    /\ IF status = None
       THEN Write("INITIATED") /\ Go(r, [Blank EXCEPT !.seen = "INITIATED"], "collect")
       ELSE GoTo(r, "prior") /\ UNCHANGED document
    /\ UNCHANGED <<age, locks, ride, money, losses, history>>

\* The others look at the document again: one that is done or under way is taken as
\* this request's own.
FindPrior(r) ==
    /\ At(r, "prior")
    /\ CASE status \in IDEMPOTENT_RETURN_STATUSES ->
              Go(r, [Blank EXCEPT !.seen = status], "collect") /\ reused' = TRUE
         [] status = "INITIATED" -> Go(r, Blank, "release") /\ UNCHANGED reused
         [] OTHER -> GoTo(r, "reset") /\ UNCHANGED reused
    /\ UNCHANGED <<document, age, locks, ride, money, losses, lapsed, waived, retried>>

\* A new try of a failed booking; what was refunded stays on record.
ResetPrior(r) ==
    /\ At(r, "reset")
    /\ Write("INITIATED") /\ reused' = TRUE
    /\ Go(r, [Blank EXCEPT !.seen = "INITIATED"], "collect")
    /\ UNCHANGED <<age, locks, ride, money, losses, lapsed, waived, retried>>

collectPayment(r) ==
    /\ At(r, "collect")
    /\ charged' = charged \union {r} /\ GoTo(r, "commit")
    /\ UNCHANGED <<document, age, locks, ride, unverified, returned, payments, losses, history>>

\* Mutation: a charge that was refused is refunded.
RefundsUncharged(r) ==
    /\ At(r, "collect") /\ refundFailedBooking(r, loc[r], "release")
    /\ UNCHANGED <<document, age, locks, ride, money, losses, history>>

\* Too small a balance, or a payment that cannot be verified: there is none, or
\* payment-service did not answer, or Razorpay captures it only now;
CollectRefused(r) ==
    /\ At(r, "collect") /\ GoTo(r, "markFailed")
    /\ unverified' \in {unverified, unverified \union {r}}
    /\ UNCHANGED <<document, age, locks, ride, charged, returned, payments, losses, history>>

\* or auth-service is not there, or the payment is another booking's: it throws.
CollectThrows(r) ==
    /\ At(r, "collect") /\ Go(r, Blank, "release")
    /\ UNCHANGED <<document, age, locks, ride, money, losses, history>>

CollectUnheard(r) ==
    /\ At(r, "collect") /\ Lose
    /\ charged' = charged \union {r} /\ Go(r, Blank, "release")
    /\ UNCHANGED <<document, age, locks, ride, unverified, returned, payments, history>>

\* A write that fails is swallowed, here and in finalizeBookingRecord.
markFailed(r) ==
    /\ At(r, "markFailed")
    /\ \/ Write("FAILED") /\ UNCHANGED losses
       \/ Lose /\ UNCHANGED document
    /\ Go(r, Blank, "release")
    /\ UNCHANGED <<age, locks, ride, money, history>>

Book(r) ==
    /\ At(r, "commit")
    /\ ride' = [ride EXCEPT ![r] = "PENDING"] /\ GoTo(r, "settle")
    /\ UNCHANGED <<document, age, locks, money, losses, history>>

\* Mutation: a refused booking is only marked.
RefusedUnrefunded(r) ==
    /\ At(r, "commit") /\ GoTo(r, "markFailed")
    /\ UNCHANGED <<document, age, locks, ride, money, losses, history>>

BookRefused(r) ==
    /\ At(r, "commit") /\ refundFailedBooking(r, loc[r], "release")
    /\ UNCHANGED <<document, age, locks, ride, money, losses, history>>

\* No answer is taken for a refusal.
BookUnheard(r) ==
    /\ At(r, "commit") /\ Lose
    /\ ride' \in {ride, [ride EXCEPT ![r] = "PENDING"]}
    /\ refundFailedBooking(r, loc[r], "release")
    /\ UNCHANGED <<document, age, locks, money, history>>

\* TripJack is paid, and polled four times; it may be late, or not answer.
settleSupplier(r) ==
    LET Settled(s) == [loc[r] EXCEPT !.target = s] IN
    /\ At(r, "settle")
    /\ \/ ride[r] = "CONFIRMED" /\ Go(r, Settled("CONFIRMED"), "finalize")
       \/ ride[r] = "FAILED" /\ refundFailedBooking(r, Settled("FAILED"), "finalize")
       \/ Go(r, Settled("SUPPLIER_PENDING"), "finalize")
    /\ UNCHANGED <<document, age, locks, ride, money, losses, history>>

\* save() writes the fields that this request changed since it loaded the document.
finalizeBookingRecord(r) ==
    /\ At(r, "finalize")
    /\ \/ /\ ref' = r /\ UNCHANGED <<refund, losses>>
          /\ status' = IF loc[r].target = loc[r].seen THEN status ELSE loc[r].target
       \/ Lose /\ UNCHANGED document
    /\ Go(r, Blank, "release")
    /\ UNCHANGED <<age, locks, ride, money, history>>

releaseLock(r) ==
    /\ At(r, "release")
    /\ \/ lock' = (IF lock = r THEN None ELSE lock) /\ UNCHANGED losses
       \/ Lose /\ UNCHANGED lock
    /\ GoTo(r, "ended")
    /\ UNCHANGED <<document, age, locking, ride, money, history>>

\* Thirty seconds are over.
Expire ==
    /\ lock # None /\ lock' = None
    /\ lapsed' = (lapsed \/ ~At(lock, "ended"))
    /\ UNCHANGED <<document, age, locking, ride, money, proc, losses, reused, waived, retried>>

-----------------------------------------------------------------------------
(* ReconciliationWorker, every two minutes; sweeps may overlap.            *)

\* Its first pass finds the booking stuck.
StartSweep(j) ==
    /\ At(j, "idle") /\ status \in Stuck /\ age >= 1
    /\ Go(j, [Blank EXCEPT !.ref = ref], "resolve")
    /\ UNCHANGED <<document, age, locks, ride, money, losses, history>>

Done(j) == Go(j, Blank, "idle")

\* TripJack has not said, or has never been asked, what became of the booking.
GivesUp(j) == age = 2

Unanswered(j) ==
    IF GivesUp(j) THEN refundFailedBooking(j, loc[j], "idle") /\ waived' = TRUE
    ELSE Done(j) /\ UNCHANGED waived

\* TripJack says how the ride stands, or nothing that is understood.
Says(j) == {None} \union (IF loc[j].ref = None THEN {} ELSE {ride[loc[j].ref]})

resolve(j) ==
    /\ At(j, "resolve")
    /\ \E said \in Says(j) :
         \/ /\ said \in {"CONFIRMED", "CANCELLED"}
            /\ Go(j, [loc[j] EXCEPT !.target = said], "transition") /\ UNCHANGED waived
         \/ said = "FAILED" /\ refundFailedBooking(j, loc[j], "idle") /\ UNCHANGED waived
         \/ said \in {None, "PENDING"} /\ Unanswered(j)
    /\ UNCHANGED <<document, age, locks, ride, money, losses, reused, lapsed, retried>>

ResolveFails(j) ==
    /\ At(j, "resolve") /\ Done(j)
    /\ UNCHANGED <<document, age, locks, ride, money, losses, history>>

\* Over whatever the document says by now.
transition(j) ==
    /\ At(j, "transition")
    /\ Write(loc[j].target) /\ Done(j)
    /\ UNCHANGED <<age, locks, ride, money, losses, history>>

\* Its second pass, retryFailedRefunds(): the first attempt's kind, and its amount.
retryRefund(j) ==
    /\ At(j, "idle") /\ refund.status = "FAILED"
    /\ IF refund.kind = "CANCELLATION"
       THEN Execute(j, [Blank EXCEPT !.kind = "CANCELLATION", !.amount = refund.amount])
       ELSE refundFailedBooking(j, Blank, "idle")
    /\ UNCHANGED <<document, age, locks, ride, money, losses, history>>

-----------------------------------------------------------------------------
(* processCancellation(): whatever the document says, if TripJack agrees.  *)

StartCancel(j) ==
    /\ At(j, "idle") /\ ref # None
    /\ Go(j, [Blank EXCEPT !.ref = ref], "cancel")
    /\ UNCHANGED <<document, age, locks, ride, money, losses, history>>

\* TripJack's breakdown may be missing; then a human has to look.
CancelAccepted(j) ==
    /\ At(j, "cancel") /\ ride[loc[j].ref] \in {"PENDING", "CONFIRMED"}
    /\ ride' = [ride EXCEPT ![loc[j].ref] = "CANCELLED"]
    /\ \E back \in Refundable \union {Unclear} :
         IF back = Unclear THEN GoTo(j, "park")
         ELSE Execute(j, [loc[j] EXCEPT !.kind = "CANCELLATION", !.amount = back])
    /\ UNCHANGED <<document, age, locks, money, losses, history>>

CancelRefused(j) ==
    /\ At(j, "cancel") /\ Done(j)
    /\ UNCHANGED <<document, age, locks, ride, money, losses, history>>

CancelUnheard(j) ==
    /\ At(j, "cancel") /\ ride[loc[j].ref] \in {"PENDING", "CONFIRMED"} /\ Lose
    /\ ride' = [ride EXCEPT ![loc[j].ref] = "CANCELLED"]
    /\ Done(j)
    /\ UNCHANGED <<document, age, locks, money, history>>

Park(j) ==
    /\ At(j, "park")
    /\ Write("MANUAL_REVIEW") /\ Done(j)
    /\ UNCHANGED <<age, locks, ride, money, losses, history>>

-----------------------------------------------------------------------------
\* TripJack confirms or fails a ride, or drops it.
RideMoves(r) ==
    /\ \/ ride[r] = "PENDING" /\ ride' \in {[ride EXCEPT ![r] = s] : s \in {"CONFIRMED", "FAILED"}}
       \/ ride[r] \in {"PENDING", "CONFIRMED"} /\ ride' = [ride EXCEPT ![r] = "CANCELLED"]
    /\ UNCHANGED <<document, age, locks, money, proc, losses, history>>

Age ==
    /\ status # None /\ age < 2 /\ age' = age + 1
    /\ UNCHANGED <<document, locks, ride, money, proc, losses, history>>

\* Half an hour since the claim: its owner has died or failed to say so, or takes too long.
Stale ==
    /\ refund.status = "PROCESSING" /\ ~refund.stale
    /\ refund' = [refund EXCEPT !.stale = TRUE]
    /\ IF \E p \in Procs : pc[p] \in {"pay", "complete", "fail"} THEN Lose ELSE UNCHANGED losses
    /\ UNCHANGED <<status, ref, age, locks, ride, money, proc, history>>

Crash(p) ==
    /\ pc[p] \notin {"new", "ended", "idle"} /\ Lose
    /\ Go(p, Blank, IF p \in Requests THEN "ended" ELSE "idle")
    /\ UNCHANGED <<document, age, locks, ride, money, history>>

Request(r) ==
    \/ acquireLock(r) \/ FindReplay(r) \/ claimBookingRecord(r) \/ FindPrior(r) \/ ResetPrior(r)
    \/ collectPayment(r) \/ CollectRefused(r) \/ CollectThrows(r) \/ CollectUnheard(r)
    \/ markFailed(r) \/ Book(r) \/ BookRefused(r) \/ BookUnheard(r)
    \/ settleSupplier(r) \/ finalizeBookingRecord(r) \/ releaseLock(r) \/ RideMoves(r)

Job(j) ==
    \/ StartSweep(j) \/ resolve(j) \/ ResolveFails(j) \/ transition(j) \/ retryRefund(j)
    \/ StartCancel(j) \/ CancelAccepted(j) \/ CancelRefused(j) \/ CancelUnheard(j) \/ Park(j)

RefundStep(p) ==
    \/ claim(p) \/ Pay(p) \/ PayFails(p) \/ PayUnheard(p)
    \/ Complete(p) \/ CompleteRejected(p) \/ Fail(p) \/ RefundThrows(p) \/ recordZeroRefund(p)

Next ==
    \/ \E r \in Requests : Request(r)
    \/ \E j \in Jobs : Job(j)
    \/ \E p \in Procs : RefundStep(p) \/ Crash(p)
    \/ Expire \/ Age \/ Stale

Spec == Init /\ [][Next]_vars

----------------------------------------------------------------------------
\* The refund is paid once, whichever requests, sweeps and cancellations ask for it
\* ("can all race without paying twice", RefundService), and once more at most for
\* each process, answer or write that was lost.
PaidOncePerLoss == payments <= 1 + losses

\* While requests have their locks, the payer has one ride under a key, however often
\* its booking failed and was begun again, one more for each thing that was lost, and
\* one more at most if the worker gave up on a ride, or tried the refund of an earlier
\* try again, which calls the document FAILED whatever has become of it.
OneRideStands ==
    locking /\ ~lapsed =>
        Cardinality({r \in Requests : ride[r] \in {"PENDING", "CONFIRMED"}})
            <= 1 + losses + (IF waived \/ retried THEN 1 ELSE 0)

\* Nobody who was not charged is given money, unless the worker gave up on the booking.
RefundedIfCharged == returned > 0 => charged # {} \/ waived

AtRest == \A p \in Procs : pc[p] \in {"new", "ended", "idle"}

GivenBack(paid) == returned >= Price * Cardinality(paid) \/ refund.status = "FAILED"

\* A booking that is called FAILED gave its charge back, or the worker will find its
\* refund FAILED and try again; unless something was lost, or a second request went on
\* with the document, whose one refund may be spent.  A payment that was captured and
\* could not be verified is no charge to the code, and is not given back.
FailedIsRefunded ==
    status = "FAILED" /\ AtRest /\ losses = 0 /\ ~reused => GivenBack(charged)

\* What the customer is told of such a payment: "If any amount was debited it will be
\* refunded automatically" (booking.service.ts).  The code does not keep this.
RefundedAutomatically ==
    status = "FAILED" /\ AtRest /\ losses = 0 /\ ~reused => GivenBack(charged \union unverified)

=============================================================================
