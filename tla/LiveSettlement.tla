---------------------------- MODULE LiveSettlement ----------------------------
(***************************************************************************)
(* The live hotel path once a booking is saved (hotel-booking-service, its *)
(* automatic refunds on): the in-request poll, the status sync, the        *)
(* reconciliation worker and the cancel flow move one document, and each   *)
(* may have to give money back through RefundService.                      *)
(*                                                                         *)
(* Documents share nothing, so there is one.  A process is one of those    *)
(* jobs, and an action its code from one await to the next.                *)
(***************************************************************************)
EXTENDS Integers, FiniteSets

CONSTANTS
    Procs,
    Orders,     \* the supplier, whether there is a wallet or payment to refund to,
                \* and whether the payer was charged: an agent is not, for a hold
    Price,      \* totalAmount
    Penalties,  \* cancellation charges that can be deducted from it
    MaxRequests, \* bound: cancellations, confirmations and refunds by hand
    MaxLosses   \* bound: crashes, rejected writes, unheard or overlong calls

Unclear == -1   \* a breakdown without a usable charge
None == -2      \* no breakdown

ASSUME PriceAssumption == Price \in Nat \ {0} /\ Penalties \subseteq 0..Price
ASSUME OrdersAssumption ==
    Orders \subseteq [provider : {"tripjack", "rategain"}, payable : BOOLEAN, paid : BOOLEAN]
ASSUME ProcsAssumption == IsFiniteSet(Procs)
ASSUME BoundsAssumption == MaxRequests \in Nat /\ MaxLosses \in Nat

VARIABLES
    status, refund, charges,  \* the document: status, refund, cancelChargesInfo
    quiet,                    \* the document was not written for six hours
    order,
    stay,                     \* what the supplier holds
    returned, payments,       \* money given back, and in how many payments
    age,                      \* since createdAt: 0, half an hour, 6, 24 hours
    pc, loc,
    requests, losses,
    waived    \* history: somebody chose to refund without the supplier's word

document == <<status, refund, charges, quiet>>
money == <<returned, payments>>
proc == <<pc, loc>>
vars == <<document, order, stay, money, age, proc, requests, losses, waived>>

Statuses == {"PENDING", "HELD", "CONFIRMED", "MANUAL_REVIEW",
             "CANCELLATION_PENDING", "CANCELLED", "FAILED"}
TERMINAL_STATUSES == {"CANCELLED", "FAILED"}
Kinds == {"FAILED_BOOKING", "CANCELLATION"}
Breakdowns == Penalties \union {Unclear, None}

Idle == [job |-> "none", seen |-> "none", target |-> "none", charges |-> None,
         kind |-> "none", amount |-> 0, insync |-> FALSE]

NoRefund == [status |-> "NONE", kind |-> "none", amount |-> 0, stale |-> FALSE]

Places == {"idle", "pollAsk", "pollSet", "pollNote", "pollPark", "ask", "set", "synced",
           "escalate", "retry", "park", "cancelNote", "cancelPoll", "cancelAgain",
           "cancelRead", "confirmCall", "confirmSave",
           "zero", "noInstrument", "unclear", "claim", "pay", "record", "close", "fail"}

Refunds == [status : {"NONE", "PROCESSING", "COMPLETED", "FAILED", "NOT_APPLICABLE"},
            kind : Kinds \union {"none"}, amount : 0..Price, stale : BOOLEAN]

Locals == [job : {"none", "poll", "sync", "stuck", "escalate", "retry",
                  "cancel", "cancelPoll", "confirm", "manual"},
           seen : Statuses \union {"none"}, target : Statuses \union {"none"},
           charges : Breakdowns, kind : Kinds \union {"none"},
           amount : 0..Price, insync : BOOLEAN]

TypeOK ==
    /\ status \in Statuses /\ refund \in Refunds /\ charges \in Breakdowns
    /\ quiet \in BOOLEAN
    /\ order \in Orders
    /\ stay \in {"pending", "held", "confirmed", "failed", "cancelling", "cancelled"}
    /\ returned \in Nat /\ payments \in Nat
    /\ age \in 0..3
    /\ pc \in [Procs -> Places] /\ loc \in [Procs -> Locals]
    /\ requests \in 0..MaxRequests /\ losses \in 0..MaxLosses
    /\ waived \in BOOLEAN

\* The status a commit saves, and what the supplier then holds.  An agent's hold
\* is not paid for; anybody else's is, with a payment to refund.
Saved(o, s, held) ==
    \/ o.provider = "rategain" /\ <<s, held>> \in {<<"CONFIRMED", "confirmed">>,
                                                   <<"MANUAL_REVIEW", "pending">>}
    \/ o.provider = "tripjack" /\ held = "pending"
         /\ \/ s = "PENDING" /\ o.paid
            \/ s = "HELD" /\ (o.payable \/ ~o.paid)

Init ==
    /\ order \in Orders
    /\ status \in Statuses /\ stay \in {"pending", "confirmed"} /\ Saved(order, status, stay)
    /\ refund = NoRefund /\ charges = None /\ quiet = FALSE
    /\ returned = 0 /\ payments = 0 /\ age = 0 /\ requests = 0 /\ losses = 0 /\ waived = FALSE
    /\ \E p \in Procs :
         pc = [q \in Procs |-> IF q = p /\ order.provider = "tripjack"
                               THEN "pollAsk" ELSE "idle"]
    /\ loc = [p \in Procs |-> IF pc[p] = "pollAsk" THEN [Idle EXCEPT !.job = "poll"] ELSE Idle]

-----------------------------------------------------------------------------
(* Where a process goes next.                                              *)

Go(p, l, place) == pc' = [pc EXCEPT ![p] = place] /\ loc' = [loc EXCEPT ![p] = l]

\* A sweep goes from the stuck bookings to the stuck cancellations and on to
\* the failed refunds; every other job ends.
Leave(p) ==
    CASE loc[p].job = "stuck"    -> Go(p, [Idle EXCEPT !.job = "escalate"], "escalate")
      [] loc[p].job = "escalate" -> Go(p, [Idle EXCEPT !.job = "retry"], "retry")
      [] OTHER                   -> Go(p, Idle, "idle")

\* syncBookingStatus() returns to the worker, or to a caller that has no use
\* for what it returns.
Return(p, seen) ==
    IF loc[p].job = "sync" THEN Go(p, Idle, "idle")
    ELSE Go(p, [Idle EXCEPT !.job = loc[p].job, !.seen = seen], "synced")

\* The caller of RefundService goes on.
EndRefund(p) == IF loc[p].insync THEN Return(p, loc[p].target) ELSE Leave(p)

Full(l) == [l EXCEPT !.kind = "FAILED_BOOKING", !.amount = Price]

\* execute(), up to its first await.
Execute(p, l) ==
    Go(p, l, IF l.amount = 0 THEN "zero" ELSE IF order.payable THEN "claim" ELSE "noInstrument")

refundFailedBooking(p, l) == Execute(p, Full(l))

\* The charge is deducted, or there is none to deduct and a human has to look.
settleCancellation(p, l, c) ==
    IF c \in 0..Price
    THEN Execute(p, [l EXCEPT !.kind = "CANCELLATION", !.amount = Price - c])
    ELSE Go(p, l, "unclear")

\* Every write of the document moves its updatedAt.
Write(s, r, c) == status' = s /\ refund' = r /\ charges' = c /\ quiet' = FALSE

transitionStatus(s) ==
    IF status = s THEN UNCHANGED document ELSE Write(s, refund, charges)

Elsewhere == <<order, stay, money, age, requests, losses, waived>>

-----------------------------------------------------------------------------
(* RefundService.                                                          *)

\* Mutation: a claim does not look at what it replaces.
ClaimableAnyway == TRUE

Claimable ==
    \/ refund.status \in {"NONE", "FAILED"}
    \/ refund.status = "PROCESSING" /\ refund.stale

claim(p) ==
    /\ pc[p] = "claim"
    /\ IF Claimable
       THEN /\ Write(status, [status |-> "PROCESSING", kind |-> loc[p].kind,
                              amount |-> loc[p].amount, stale |-> FALSE], charges)
            /\ Go(p, loc[p], "pay")
       ELSE EndRefund(p) /\ UNCHANGED document
    /\ UNCHANGED Elsewhere

Paid(p) == returned' = returned + loc[p].amount /\ payments' = payments + 1

\* The wallet is credited, or the gateway refunds.
Pay(p) ==
    /\ pc[p] = "pay" /\ Paid(p) /\ Go(p, loc[p], "record")
    /\ UNCHANGED <<document, order, stay, age, losses, requests, waived>>

PayFails(p) ==
    /\ pc[p] = "pay" /\ Go(p, loc[p], "fail")
    /\ UNCHANGED <<document, Elsewhere>>

Lose == losses < MaxLosses /\ losses' = losses + 1

\* The money moves and the answer is an error, or none.
PayUnheard(p) ==
    /\ pc[p] = "pay" /\ Paid(p) /\ Lose /\ Go(p, loc[p], "fail")
    /\ UNCHANGED <<document, order, stay, age, requests, waived>>

Ended(s) == [refund EXCEPT !.status = s, !.stale = FALSE]

record(p) ==
    /\ pc[p] = "record"
    /\ Write(status, Ended("COMPLETED"), charges)
    /\ Go(p, loc[p], "close")
    /\ UNCHANGED Elsewhere

\* Mutation: the error of a payment is recorded as its success.
Recovered(p) == pc[p] = "fail" /\ Write(status, Ended("COMPLETED"), charges)

FailedWrite(p) == pc[p] = "fail" /\ Write(status, Ended("FAILED"), charges)

fail(p) == FailedWrite(p) /\ EndRefund(p) /\ UNCHANGED Elsewhere

FinalStatus(kind) == IF kind = "FAILED_BOOKING" THEN "FAILED" ELSE "CANCELLED"

close(p) ==
    /\ pc[p] = "close"
    /\ transitionStatus(FinalStatus(loc[p].kind))
    /\ EndRefund(p)
    /\ UNCHANGED Elsewhere

\* Neither looks at a claim that is under way.
Replace(p, s, r) ==
    /\ IF refund.status # "COMPLETED" THEN Write(s, r, charges) ELSE UNCHANGED document
    /\ EndRefund(p)
    /\ UNCHANGED Elsewhere

recordZeroRefund(p) ==
    /\ pc[p] = "zero"
    /\ Replace(p, "CANCELLED", [status |-> "COMPLETED", kind |-> "CANCELLATION",
                                amount |-> 0, stale |-> FALSE])

markNoInstrument(p) ==
    /\ pc[p] = "noInstrument"
    /\ Replace(p, "MANUAL_REVIEW", [status |-> "NOT_APPLICABLE", kind |-> loc[p].kind,
                                    amount |-> loc[p].amount, stale |-> FALSE])

\* settleCancellation() leaves it to a human.
ParkUnclear(p) ==
    /\ pc[p] = "unclear"
    /\ Write("MANUAL_REVIEW", refund, charges)
    /\ EndRefund(p)
    /\ UNCHANGED Elsewhere

-----------------------------------------------------------------------------
(* syncBookingStatus(), called by the endpoint, the cron and the worker.   *)

\* What the order says; neither of the two that wait says anything.
Report == CASE stay = "confirmed"  -> "CONFIRMED"
            [] stay = "held"       -> "HELD"
            [] stay = "cancelled"  -> "CANCELLED"
            [] stay = "failed"     -> "FAILED"
            [] OTHER               -> "none"

Ask(p) ==
    /\ pc[p] = "ask"
    /\ Go(p, [loc[p] EXCEPT !.target = IF Report = "none" THEN loc[p].seen ELSE Report], "set")
    /\ UNCHANGED <<document, Elsewhere>>

AskFails(p) ==
    /\ pc[p] = "ask" /\ Return(p, loc[p].seen)
    /\ UNCHANGED <<document, Elsewhere>>

\* Mutation: the money is left to the worker.
ResolveLater(p, target) ==
    IF target = "CANCELLED" THEN settleCancellation(p, [loc[p] EXCEPT !.insync = TRUE], charges)
                            ELSE Return(p, target)

\* onStatusResolved().
Resolve(p, target) ==
    LET l == [loc[p] EXCEPT !.insync = TRUE] IN
    CASE target = "FAILED"    -> refundFailedBooking(p, l)
      [] target = "CANCELLED" -> settleCancellation(p, l, charges)
      [] OTHER                -> Return(p, target)

\* The answer is written unless somebody wrote it first.
Set(p) ==
    LET target == loc[p].target IN
    /\ pc[p] = "set"
    /\ IF target \in {loc[p].seen, status}
       THEN /\ Return(p, loc[p].seen)
            /\ IF target = loc[p].seen THEN Write(status, refund, charges) ELSE UNCHANGED document
       ELSE Write(target, refund, charges) /\ Resolve(p, target)
    /\ UNCHANGED Elsewhere

StartSync(p) ==
    /\ pc[p] = "idle" /\ status \notin TERMINAL_STATUSES
    /\ Go(p, [Idle EXCEPT !.job = "sync", !.seen = status], "ask")
    /\ UNCHANGED <<document, Elsewhere>>

-----------------------------------------------------------------------------
(* ReconciliationWorker.  Sweeps may overlap.                              *)

\* The stuck bookings, of at least half an hour.
StartSweep(p) ==
    /\ pc[p] = "idle" /\ age >= 1
    /\ IF status \in {"MANUAL_REVIEW", "PENDING"}
       THEN Go(p, [Idle EXCEPT !.job = "stuck", !.seen = status], "ask")
       ELSE Go(p, [Idle EXCEPT !.job = "escalate"], "escalate")
    /\ UNCHANGED <<document, Elsewhere>>

\* Mutation: six hours are not waited for.
StuckAtOnce(p) ==
    /\ pc[p] = "synced" /\ loc[p].job = "stuck"
    /\ IF loc[p].seen \in {"CONFIRMED", "HELD", "CANCELLED"}
       THEN Leave(p) ELSE refundFailedBooking(p, loc[p])
    /\ UNCHANGED <<document, Elsewhere>>

\* Six hours without an answer.
GivesUp(p) == loc[p].seen \notin {"CONFIRMED", "HELD", "CANCELLED", "FAILED"} /\ age >= 2

\* resolveStuckBooking(), once the supplier was asked.
resolveStuckBooking(p) ==
    /\ pc[p] = "synced" /\ loc[p].job = "stuck"
    /\ IF loc[p].seen = "FAILED" \/ GivesUp(p)
       THEN refundFailedBooking(p, [Idle EXCEPT !.job = "stuck"]) ELSE Leave(p)
    /\ waived' = (waived \/ GivesUp(p))
    /\ UNCHANGED <<document, order, stay, money, age, losses, requests>>

\* The stuck cancellations.
SweepEscalate(p) ==
    /\ pc[p] = "escalate"
    /\ IF status = "CANCELLATION_PENDING" /\ quiet
       THEN Go(p, [loc[p] EXCEPT !.seen = status], "ask")
       ELSE Go(p, [Idle EXCEPT !.job = "retry"], "retry")
    /\ UNCHANGED <<document, Elsewhere>>

Escalate(p) ==
    /\ pc[p] = "synced" /\ loc[p].job = "escalate"
    /\ IF loc[p].seen = "CANCELLATION_PENDING" THEN Go(p, loc[p], "park") ELSE Leave(p)
    /\ UNCHANGED <<document, Elsewhere>>

Park(p) ==
    /\ pc[p] = "park"
    /\ transitionStatus("MANUAL_REVIEW")
    /\ Leave(p)
    /\ UNCHANGED Elsewhere

\* retryFailedRefunds(): the first attempt's kind, and its amount.
SweepRetry(p) ==
    /\ pc[p] = "retry"
    /\ IF refund.status = "FAILED"
       THEN IF refund.kind = "CANCELLATION"
            THEN Execute(p, [loc[p] EXCEPT !.kind = "CANCELLATION", !.amount = refund.amount])
            ELSE refundFailedBooking(p, loc[p])
       ELSE Leave(p)
    /\ UNCHANGED <<document, Elsewhere>>

\* The job that once a day parks what is still PENDING.
EscalateStale ==
    /\ status = "PENDING" /\ age = 3
    /\ Write("MANUAL_REVIEW", refund, charges)
    /\ UNCHANGED <<proc, Elsewhere>>

-----------------------------------------------------------------------------
(* pollTripJackBookingStatus().                                            *)

pollAsk(p) ==
    /\ pc[p] = "pollAsk"
    /\ \/ /\ stay \in {"held", "confirmed"}
          /\ Go(p, [loc[p] EXCEPT !.target = Report], "pollSet")
       \/ stay \in {"failed", "cancelled"} /\ Go(p, loc[p], "pollNote")
       \/ Go(p, loc[p], "pollPark")     \* the attempts are used up,
       \/ Leave(p)                      \* and the last call fails
    /\ UNCHANGED <<document, Elsewhere>>

pollSet(p) ==
    /\ pc[p] = "pollSet"
    /\ transitionStatus(loc[p].target)
    /\ Leave(p)
    /\ UNCHANGED Elsewhere

pollNote(p) ==
    /\ pc[p] = "pollNote"
    /\ Write(status, refund, charges)
    /\ refundFailedBooking(p, loc[p])
    /\ UNCHANGED Elsewhere

pollPark(p) ==
    /\ pc[p] = "pollPark"
    /\ IF status \notin {"CONFIRMED", "HELD", "CANCELLED", "FAILED"}
       THEN Write("MANUAL_REVIEW", refund, charges) ELSE UNCHANGED document
    /\ Leave(p)
    /\ UNCHANGED Elsewhere

-----------------------------------------------------------------------------
(* The cancel flow, the confirmation of a hold, and the refund by hand.    *)

Request == requests < MaxRequests /\ requests' = requests + 1

\* The supplier takes the request: TripJack acknowledges it, RateGain carries it
\* out (and has carried it out when it no longer knows the number).
Accepts ==
    IF order.provider = "tripjack"
    THEN stay \in {"held", "confirmed", "cancelling"} /\ stay' = "cancelling"
    ELSE stay' = IF stay = "failed" THEN stay ELSE "cancelled"

StartCancel(p) ==
    /\ Request /\ pc[p] = "idle" /\ Accepts
    /\ \E c \in Breakdowns :
         Go(p, [Idle EXCEPT !.job = "cancel", !.charges = c], "cancelNote")
    /\ UNCHANGED <<document, order, money, age, losses, waived>>

\* The supplier takes it and the answer is lost.
CancelUnheard ==
    /\ Request /\ Accepts /\ Lose
    /\ UNCHANGED <<document, order, money, age, proc, waived>>

cancelNote(p) ==
    /\ pc[p] = "cancelNote"
    /\ Write("CANCELLATION_PENDING", refund, loc[p].charges)
    /\ IF order.provider = "tripjack"
       THEN Go(p, [loc[p] EXCEPT !.job = "cancelPoll"], "cancelPoll")
       ELSE settleCancellation(p, loc[p], loc[p].charges)
    /\ UNCHANGED Elsewhere

\* pollTripJackCancellationStatus(): for three minutes.
cancelPoll(p) ==
    /\ pc[p] = "cancelPoll"
    /\ \/ stay = "cancelled" /\ Go(p, loc[p], "cancelRead")
       \/ stay = "cancelling" /\ Go(p, loc[p], "cancelAgain")
       \/ Leave(p)
    /\ UNCHANGED <<document, Elsewhere>>

cancelAgain(p) ==
    /\ pc[p] = "cancelAgain"
    /\ Write("CANCELLATION_PENDING", refund, charges)
    /\ Go(p, loc[p], "cancelPoll")
    /\ UNCHANGED Elsewhere

cancelRead(p) ==
    /\ pc[p] = "cancelRead"
    /\ Write(status, refund, charges)
    /\ settleCancellation(p, loc[p], loc[p].charges)
    /\ UNCHANGED Elsewhere

StartConfirm(p) ==
    /\ Request /\ pc[p] = "idle" /\ order.provider = "tripjack"
    /\ Go(p, [Idle EXCEPT !.job = "confirm", !.seen = status], "confirmCall")
    /\ UNCHANGED <<document, order, stay, money, age, losses, waived>>

ConfirmHold(p) ==
    /\ pc[p] = "confirmCall"
    /\ IF stay = "held" THEN stay' = "confirmed" /\ Go(p, loc[p], "confirmSave")
                        ELSE UNCHANGED stay /\ Leave(p)
    /\ UNCHANGED <<document, order, money, age, losses, requests, waived>>

\* save() writes the fields that were changed since the document was loaded.
ConfirmSave(p) ==
    /\ pc[p] = "confirmSave"
    /\ Write(IF loc[p].seen = "CONFIRMED" THEN status ELSE "CONFIRMED", refund, charges)
    /\ Leave(p)
    /\ UNCHANGED Elsewhere

\* A booking without a breakdown was cancelled at no charge.
ManualRefund(p) ==
    /\ Request /\ pc[p] = "idle"
    /\ status \in {"CANCELLED", "CANCELLATION_PENDING"} /\ refund.status # "COMPLETED"
    /\ settleCancellation(p, [Idle EXCEPT !.job = "manual"], IF charges = None THEN 0 ELSE charges)
    /\ waived' = TRUE
    /\ UNCHANGED <<document, order, stay, money, age, losses>>

-----------------------------------------------------------------------------
(* The suppliers, the clock, and what may be lost.                         *)

Decisions ==
    CASE stay = "pending"    -> {"confirmed", "failed"}
                                  \union {h \in {"held"} : order.provider = "tripjack"}
      [] stay = "held"       -> {"failed", "cancelled"}
      [] stay = "confirmed"  -> {"cancelled"}
      [] stay = "cancelling" -> {"cancelled", "confirmed"}
      [] OTHER               -> {}

SupplierDecides ==
    /\ stay' \in Decisions
    /\ UNCHANGED <<document, order, money, age, proc, losses, requests, waived>>

\* Only a pending booking is asked whether it is a day old.
Grow ==
    /\ age < 2 \/ (age = 2 /\ status = "PENDING")
    /\ age' = age + 1
    /\ UNCHANGED <<document, order, stay, money, proc, losses, requests, waived>>

\* Only a cancellation is asked how long it has been quiet.
Quieten ==
    /\ age >= 2 /\ status = "CANCELLATION_PENDING" /\ ~quiet /\ quiet' = TRUE
    /\ UNCHANGED <<status, refund, charges, order, stay, money, age, proc, losses, requests, waived>>

Paying(p) == pc[p] \in {"pay", "record", "fail"}

\* Half an hour after a claim; a payment that takes longer is a loss.
Overrun ==
    /\ refund.status = "PROCESSING" /\ ~refund.stale
    /\ refund' = [refund EXCEPT !.stale = TRUE]
    /\ IF \E p \in Procs : Paying(p) THEN Lose ELSE UNCHANGED losses
    /\ UNCHANGED <<status, charges, quiet, order, stay, money, age, proc, requests, waived>>

Crash ==
    /\ Lose
    /\ pc' = [p \in Procs |-> "idle"] /\ loc' = [p \in Procs |-> Idle]
    /\ UNCHANGED <<document, order, stay, money, age, requests, waived>>

\* Where a rejected write of the document is caught.
Thrown(p) ==
    IF loc[p].insync THEN Return(p, loc[p].seen) ELSE
    CASE loc[p].job \in {"stuck", "retry"} -> Leave(p)
      [] loc[p].job = "poll" /\ pc[p] # "pollPark" -> Go(p, [Idle EXCEPT !.job = "poll"], "pollAsk")
      [] loc[p].job = "cancelPoll" ->
           Go(p, [Idle EXCEPT !.job = "cancelPoll", !.charges = loc[p].charges], "cancelPoll")
      [] OTHER -> Go(p, Idle, "idle")

Rejected(p) ==
    /\ CASE pc[p] \in {"record", "close"} -> Go(p, loc[p], "fail")
         [] pc[p] = "set"                 -> Return(p, loc[p].seen)
         [] OTHER -> pc[p] \in {"park", "pollSet", "pollNote", "pollPark", "cancelNote",
                                "cancelAgain", "cancelRead", "confirmSave", "zero",
                                "noInstrument", "unclear", "claim", "fail"} /\ Thrown(p)
    /\ Lose
    /\ UNCHANGED <<document, order, stay, money, age, requests, waived>>

-----------------------------------------------------------------------------

Refund(p) == claim(p) \/ Pay(p) \/ PayFails(p) \/ PayUnheard(p) \/ record(p) \/ fail(p)
             \/ close(p) \/ recordZeroRefund(p) \/ markNoInstrument(p) \/ ParkUnclear(p)
Sync(p) == StartSync(p) \/ Ask(p) \/ AskFails(p) \/ Set(p)
Sweep(p) == StartSweep(p) \/ resolveStuckBooking(p) \/ SweepEscalate(p) \/ Escalate(p)
            \/ Park(p) \/ SweepRetry(p)
Poll(p) == pollAsk(p) \/ pollSet(p) \/ pollNote(p) \/ pollPark(p)
Cancel(p) == StartCancel(p) \/ cancelNote(p) \/ cancelPoll(p) \/ cancelAgain(p) \/ cancelRead(p)
Desk(p) == StartConfirm(p) \/ ConfirmHold(p) \/ ConfirmSave(p) \/ ManualRefund(p)

\* The next step of a job that has begun.
Step(p) == pc[p] # "idle" /\ (Sync(p) \/ Sweep(p) \/ Poll(p) \/ Cancel(p) \/ Desk(p))

Next ==
    \/ \E p \in Procs : Refund(p) \/ Sync(p) \/ Sweep(p) \/ Poll(p) \/ Cancel(p) \/ Desk(p)
                        \/ Rejected(p)
    \/ EscalateStale \/ SupplierDecides \/ Grow \/ Quieten \/ Overrun \/ CancelUnheard \/ Crash

Spec == Init /\ [][Next]_vars

-----------------------------------------------------------------------------
(* What has to hold.                                                       *)

\* However many jobs see that a booking is over, its payer is paid once: twice
\* only after a crash, a rejected write, an unheard answer or an overlong call.
PaidOncePerLoss == payments <= 1 + losses

\* Money goes back, and a booking is closed, for a stay that failed or was
\* cancelled, unless six hours went by without a word or a hand refunded it.
RefundForCause ==
    payments > 0 \/ status \in TERMINAL_STATUSES => stay \in {"failed", "cancelled"} \/ waived

\* Once every job has ended, a booking that is over has its refund on record.
ClosedIsRefunded ==
    status \in TERMINAL_STATUSES /\ losses = 0 /\ (\A p \in Procs : pc[p] = "idle")
        => refund.status \in {"COMPLETED", "FAILED", "NOT_APPLICABLE"}

\* A refund on record was made.
RecordNotAhead == refund.status = "COMPLETED" /\ losses = 0 => returned >= refund.amount

\* Nobody gets back what he never paid.
OnlyWhatWasPaid == payments > 0 => order.paid
=============================================================================
