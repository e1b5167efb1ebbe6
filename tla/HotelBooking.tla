----------------------------- MODULE HotelBooking -----------------------------
(***************************************************************************)
(* The booking path of backend/hotel-engine: BookingService.commit,        *)
(* confirm and cancel (src/modules/booking/booking-service.ts) with the    *)
(* three stores they coordinate through.                                   *)
(*                                                                         *)
(*   - the booking table (postgres-booking-repository.ts): every status    *)
(*     change is one conditional UPDATE, every refund claim another;       *)
(*   - the rate token of a deal (rate-token-store.ts): resolve, reseal     *)
(*     (a read followed by a write) and consume (an atomic delete);        *)
(*   - the world outside: the supplier that holds, or does not hold, the   *)
(*     stay, and the payment gateway that captures and returns money.      *)
(*                                                                         *)
(* A process is one request or one sweep of the reconciler.  It runs       *)
(* between two awaits without interruption, so an action is the code from  *)
(* one await to the next, and processes interleave at the awaits.  A       *)
(* booking is named by the commit that mints its id.                       *)
(***************************************************************************)
EXTENDS Integers, FiniteSets

CONSTANTS
    Commits,     \* commit requests, and the bookings they may create
    Pollers,     \* callers of confirm(): the reconciler and the HTTP handler
    Cancellers,  \* callers of cancel()
    NoBooking,   \* what a poller or canceller at rest is working on
    Keys,        \* idempotency keys
    Deals,       \* deal ids, each sealed behind one rate token
    Pollable,    \* the deals whose supplier implements getBookingStatus
    Price,       \* what a commit charges, in minor units
    Penalties,   \* cancellation penalties a supplier may deduct (0: none)
    MaxCrashes,  \* bound: processes lost to a crash or an unhandled rejection
    MaxRedeploys \* bound: changes of the set of registered suppliers

Procs == Commits \union Pollers \union Cancellers

ASSUME DisjointProcs ==
    /\ Commits \intersect Pollers = {}
    /\ Commits \intersect Cancellers = {}
    /\ Pollers \intersect Cancellers = {}
ASSUME NoBookingAssumption == NoBooking \notin Commits
ASSUME PollableAssumption == Pollable \subseteq Deals
ASSUME PriceAssumption == Price \in Nat \ {0}
ASSUME PenaltiesAssumption == Penalties \subseteq Nat
ASSUME BoundsAssumption == MaxCrashes \in Nat /\ MaxRedeploys \in Nat

-----------------------------------------------------------------------------
VARIABLES
    \* the booking table; status "NO_ROW" is a booking not inserted
    status, ref, payment, refund,
    \* the rate tokens still in the key/value store, by deal
    token,
    \* what the supplier holds, and what the gateway took and gave back
    stay, penalty, captured, returned,
    \* the processes
    pc, loc, request, outcome,
    \* the deployment: the deals whose supplier is registered
    registered,
    \* the spent part of the bounds
    crashes, redeploys,
    \* history, read by one property only
    revived

table   == <<status, ref, payment, refund>>
world   == <<stay, penalty, captured, returned>>
deploy  == <<registered, crashes, redeploys>>
vars == <<table, token, world, pc, loc, request, outcome, deploy, revived>>

Statuses == {"NO_ROW", "PRECHECK_PASSED", "PAYMENT_HELD", "SUPPLIER_PENDING",
             "CONFIRMED", "ON_HOLD", "CANCELLATION_PENDING", "CANCELLED",
             "FAILED", "MANUAL_REVIEW"}

RefundStatuses == {"NONE", "PROCESSING", "COMPLETED", "FAILED"}
RefundKinds    == {"NONE", "FAILED_BOOKING", "CANCELLATION"}
NoRefund == [status |-> "NONE", kind |-> "NONE", amount |-> 0]

\* "none": never asked.  "sent": the request is on its way or being worked on.
Stays == {"none", "sent", "pending", "confirmed", "on_hold", "failed", "cancelled"}

\* The stays a supplier is holding, or may still come to hold.
Held == {"sent", "pending", "confirmed", "on_hold"}

Answers == {"NONE", "CONFIRMED", "ON_HOLD", "PENDING", "THREW", "FAILED",
            "CANCELLED", "CANCELLED_FX", "REJECTED"}

Outcomes == {"none", "BOOKED", "PENDING", "REFUSED", "REJECTED", "FAILED"}

\* Where a process waits.  "idle", "done" and "crashed" do nothing.
AtRest == {"idle", "done", "crashed"}
CommitLabels == {"replay", "resolve", "precheck", "resealRead", "resealWrite",
                 "decide", "quote", "create", "charge", "declined", "hold",
                 "consume", "lostDeal", "book", "answer", "settle"}
PollLabels   == {"ask", "review", "pollSettle"}
CancelLabels == {"withdraw", "withdrawReview", "cancelAsk", "cancelSettle"}
RefundLabels == {"claim", "pay", "settlePaid", "settleUnpaid"}
Labels == AtRest \union CommitLabels \union PollLabels \union CancelLabels
            \union RefundLabels

\* What a process carries across awaits: the booking it works on, the status
\* and refund status of the row it read, the supplier's answer and whether it
\* named a reference, and the refund it means to pay.
Locals == [booking : Commits \union {NoBooking}, was : Statuses,
           seen : RefundStatuses, answer : Answers, ref : BOOLEAN,
           amount : Nat, kind : RefundKinds]

Fresh(b) == [booking |-> b, was |-> "NO_ROW", seen |-> "NONE",
             answer |-> "NONE", ref |-> FALSE, amount |-> 0, kind |-> "NONE"]

-----------------------------------------------------------------------------
(* The domain's rules.                                                     *)

\* Mutation: a booking waiting for a human can be cancelled too.
CancellableUnderReview == {"CONFIRMED", "ON_HOLD", "SUPPLIER_PENDING", "MANUAL_REVIEW"}

CANCELLABLE == {"CONFIRMED", "ON_HOLD", "SUPPLIER_PENDING"}

\* Which status may follow which.  advance() does not consult this table.
TRANSITIONS ==
    [s \in Statuses |->
        CASE s = "NO_ROW"               -> {"PRECHECK_PASSED"}
          [] s = "PRECHECK_PASSED"      -> {"PAYMENT_HELD", "FAILED"}
          [] s = "PAYMENT_HELD"         -> {"SUPPLIER_PENDING", "CONFIRMED",
                                            "ON_HOLD", "FAILED", "MANUAL_REVIEW"}
          [] s = "SUPPLIER_PENDING"     -> {"CONFIRMED", "ON_HOLD", "FAILED",
                                            "MANUAL_REVIEW", "CANCELLATION_PENDING"}
          [] s = "ON_HOLD"              -> {"CONFIRMED", "CANCELLATION_PENDING",
                                            "CANCELLED", "FAILED"}
          [] s = "CONFIRMED"            -> {"CANCELLATION_PENDING", "CANCELLED"}
          [] s = "CANCELLATION_PENDING" -> {"CANCELLED", "CONFIRMED", "ON_HOLD",
                                            "SUPPLIER_PENDING", "MANUAL_REVIEW"}
          [] s = "MANUAL_REVIEW"        -> {"CONFIRMED", "CANCELLED", "FAILED"}
          [] OTHER                      -> {}]

\* Mutation: a refund another path is paying can be claimed again.
ClaimableWhilePaid == {"NONE", "FAILED", "PROCESSING"}

\* FAILED is retryable; any other recorded refund belongs to another path.
Claimable == {"NONE", "FAILED"}

\* captured minus penalty, never below zero
refundAfterCancellation(fee) == IF fee > Price THEN 0 ELSE Price - fee

-----------------------------------------------------------------------------
(* The stores' operations and the processes' bookkeeping.                  *)

\* One conditional UPDATE: zero rows change when another writer got there first.
advance(b, to, expect) ==
    status' = IF status[b] \in expect THEN [status EXCEPT ![b] = to] ELSE status

Goto(p, label) == pc' = [pc EXCEPT ![p] = label]

\* A commit happens once; a poller or canceller takes the next call.
Finish(p) ==
    IF p \in Commits
    THEN Goto(p, "done") /\ UNCHANGED loc
    ELSE Goto(p, "idle") /\ loc' = [loc EXCEPT ![p] = Fresh(NoBooking)]

Reply(c, kind) == Finish(c) /\ outcome' = [outcome EXCEPT ![c] = kind]

\* Mutation: only a cancellation gives money back.
RefundingCancellations(p, amount, kind, seen) ==
    IF payment[loc[p].booking] /\ seen \in Claimable /\ kind = "CANCELLATION"
    THEN /\ Goto(p, "claim")
         /\ loc' = [loc EXCEPT ![p].amount = amount, ![p].kind = kind]
    ELSE Finish(p)

\* #refund up to the store's claim: is one owed, judged on the row the caller
\* holds (seen is the refund status of that row)?
Refunding(p, amount, kind, seen) ==
    IF payment[loc[p].booking] /\ seen \in Claimable
    THEN /\ Goto(p, "claim")
         /\ loc' = [loc EXCEPT ![p].amount = amount, ![p].kind = kind]
    ELSE Finish(p)

HasRow(b) == status[b] # "NO_ROW"
DealOf(b) == request[b].deal

\* Mutation: only a finished booking answers for its key.
DuplicateOfFinished(c) ==
    \E b \in Commits : status[b] \in {"CONFIRMED", "ON_HOLD"}
                       /\ request[b].key = request[c].key

\* The unique index on the idempotency key.
Duplicate(c) == \E b \in Commits : HasRow(b) /\ request[b].key = request[c].key

-----------------------------------------------------------------------------
TypeOK ==
    /\ status \in [Commits -> Statuses]
    /\ ref \in [Commits -> BOOLEAN]
    /\ payment \in [Commits -> BOOLEAN]
    /\ refund \in [Commits -> [status : RefundStatuses, kind : RefundKinds, amount : Nat]]
    /\ token \in [Deals -> BOOLEAN]
    /\ stay \in [Commits -> Stays]
    /\ penalty \in [Commits -> Nat]
    /\ captured \in [Commits -> Nat]
    /\ returned \in [Commits -> Nat]
    /\ pc \in [Procs -> Labels]
    /\ loc \in [Procs -> Locals]
    /\ request \in [Commits -> [key : Keys, deal : Deals]]
    /\ outcome \in [Commits -> Outcomes]
    /\ registered \subseteq Deals
    /\ crashes \in 0..MaxCrashes
    /\ redeploys \in 0..MaxRedeploys
    /\ revived \subseteq Deals

\* No booking yet, every deal freshly issued; which commit asks for which deal
\* under which key is open.
Init ==
    /\ status = [b \in Commits |-> "NO_ROW"]
    /\ ref = [b \in Commits |-> FALSE]
    /\ payment = [b \in Commits |-> FALSE]
    /\ refund = [b \in Commits |-> NoRefund]
    /\ token = [d \in Deals |-> TRUE]
    /\ stay = [b \in Commits |-> "none"]
    /\ penalty = [b \in Commits |-> 0]
    /\ captured = [b \in Commits |-> 0]
    /\ returned = [b \in Commits |-> 0]
    /\ pc = [p \in Procs |-> IF p \in Commits THEN "replay" ELSE "idle"]
    /\ loc = [p \in Procs |-> Fresh(IF p \in Commits THEN p ELSE NoBooking)]
    /\ request \in [Commits -> [key : Keys, deal : Deals]]
    /\ outcome = [b \in Commits |-> "none"]
    /\ registered = Deals
    /\ crashes = 0
    /\ redeploys = 0
    /\ revived = {}

-----------------------------------------------------------------------------
(* commit(): from the replay check to the booking row.                     *)

Replay(c) ==
    /\ pc[c] = "replay"
    /\ IF Duplicate(c)
       THEN Reply(c, "BOOKED")
       ELSE Goto(c, "resolve") /\ UNCHANGED <<loc, outcome>>
    /\ UNCHANGED <<table, token, world, request, deploy, revived>>

\* revalidate(): the sealed quote, then the registry.
Resolve(c) ==
    /\ pc[c] = "resolve"
    /\ IF token[DealOf(c)] /\ DealOf(c) \in registered
       THEN Goto(c, "precheck") /\ UNCHANGED <<loc, outcome>>
       ELSE Reply(c, "REFUSED")
    /\ UNCHANGED <<table, token, world, request, deploy, revived>>

\* The supplier's precheck: no usable answer, an answer that keeps the rate's
\* handle, or one that moves it on.
Precheck(c) ==
    /\ pc[c] = "precheck"
    /\ \/ Reply(c, "REFUSED")
       \/ \E next \in {"decide", "resealRead"} :
             Goto(c, next) /\ UNCHANGED <<loc, outcome>>
    /\ UNCHANGED <<table, token, world, request, deploy, revived>>

\* reseal() reads the token ...
ResealRead(c) ==
    /\ pc[c] = "resealRead"
    /\ Goto(c, IF token[DealOf(c)] THEN "resealWrite" ELSE "decide")
    /\ UNCHANGED <<table, token, world, loc, request, outcome, deploy, revived>>

\* ... and, an await later, sets it unconditionally.
ResealWrite(c) ==
    /\ pc[c] = "resealWrite"
    /\ token' = [token EXCEPT ![DealOf(c)] = TRUE]
    /\ revived' = IF token[DealOf(c)] THEN revived
                  ELSE revived \union {DealOf(c)}
    /\ Goto(c, "decide")
    /\ UNCHANGED <<table, world, loc, request, outcome, deploy>>

\* decideCommit(): refuse or ask for consent, or go on.
Decide(c) ==
    /\ pc[c] = "decide"
    /\ \/ Reply(c, "REFUSED")
       \/ Goto(c, "quote") /\ UNCHANGED <<loc, outcome>>
    /\ UNCHANGED <<table, token, world, request, deploy, revived>>

\* The quote is read again, and the party checked against it.
ReadQuote(c) ==
    /\ pc[c] = "quote"
    /\ IF token[DealOf(c)] /\ DealOf(c) \in registered
       THEN \/ Reply(c, "REJECTED")
            \/ Goto(c, "create") /\ UNCHANGED <<loc, outcome>>
       ELSE Reply(c, "REFUSED")
    /\ UNCHANGED <<table, token, world, request, deploy, revived>>

\* INSERT under the unique index on the idempotency key.
Create(c) ==
    /\ pc[c] = "create"
    /\ IF Duplicate(c)
       THEN Reply(c, "BOOKED") /\ UNCHANGED status
       ELSE /\ status' = [status EXCEPT ![c] = "PRECHECK_PASSED"]
            /\ Goto(c, "charge")
            /\ UNCHANGED <<loc, outcome>>
    /\ UNCHANGED <<ref, payment, refund, token, world, request, deploy, revived>>

-----------------------------------------------------------------------------
(* commit(): from the charge to the supplier's answer.                     *)

Charge(c) ==
    /\ pc[c] = "charge"
    /\ \/ /\ captured' = [captured EXCEPT ![c] = Price]
          /\ Goto(c, "hold")
       \/ Goto(c, "declined") /\ UNCHANGED captured
    /\ UNCHANGED <<table, token, stay, penalty, returned, loc, request, outcome,
                   deploy, revived>>

Decline(c) ==
    /\ pc[c] = "declined"
    /\ advance(c, "FAILED", {"PRECHECK_PASSED"})
    /\ Reply(c, "REJECTED")
    /\ UNCHANGED <<ref, payment, refund, token, world, request, deploy, revived>>

Hold(c) ==
    /\ pc[c] = "hold"
    /\ advance(c, "PAYMENT_HELD", {"PRECHECK_PASSED"})
    /\ payment' = [payment EXCEPT ![c] = @ \/ status[c] = "PRECHECK_PASSED"]
    /\ Goto(c, "consume")
    /\ UNCHANGED <<ref, refund, token, world, loc, request, outcome, deploy, revived>>

\* Mutation: the answer of DEL is not looked at.
deletedAnyway(d) == TRUE

\* DEL answers whether this call removed the token.
deleted(d) == token[d]

Consume(c) ==
    /\ pc[c] = "consume"
    /\ token' = [token EXCEPT ![DealOf(c)] = FALSE]
    /\ Goto(c, IF deleted(DealOf(c)) THEN "book" ELSE "lostDeal")
    /\ UNCHANGED <<table, world, loc, request, outcome, deploy, revived>>

\* The refund is judged on the row as it was when payment was recorded.
LoseDeal(c) ==
    /\ pc[c] = "lostDeal"
    /\ advance(c, "FAILED", {"PAYMENT_HELD"})
    /\ Refunding(c, Price, "FAILED_BOOKING", "NONE")
    /\ outcome' = [outcome EXCEPT ![c] = "REJECTED"]
    /\ UNCHANGED <<ref, payment, refund, token, world, request, deploy, revived>>

\* The adapter refuses before anything is accepted, or the request goes out.  That the
\* supplier is registered was asked before the charge, and a process's registry only
\* grows: the second question is never answered otherwise.
Book(c) ==
    /\ pc[c] = "book"
    /\ \/ /\ loc' = [loc EXCEPT ![c].answer = "FAILED"]
          /\ Goto(c, "settle")
          /\ UNCHANGED stay
       \/ /\ stay' = [stay EXCEPT ![c] = "sent"]
          /\ Goto(c, "answer")
          /\ UNCHANGED loc
    /\ UNCHANGED <<table, token, penalty, captured, returned, request, outcome,
                   deploy, revived>>

\* Mutation: an outcome nobody knows is reported as a failed booking.
ReportsFailed(s, answer, named) == answer = "FAILED" /\ ~named

\* What an adapter may report of a booking request that went out, and whether
\* it names a reference: the supplier's decision, or, whatever that is, that the
\* outcome is unknown.
Reports(s, answer, named) ==
    \/ answer = "PENDING"
    \/ answer = "THREW" /\ ~named
    \/ answer = "CONFIRMED" /\ named /\ s = "confirmed"
    \/ answer = "ON_HOLD" /\ named /\ s = "on_hold"
    \/ answer = "FAILED" /\ ~named /\ s = "failed"

Answer(c) ==
    /\ pc[c] = "answer"
    /\ \E answer \in Answers, named \in BOOLEAN :
         /\ Reports(stay[c], answer, named)
         /\ loc' = [loc EXCEPT ![c].answer = answer, ![c].ref = named]
    /\ Goto(c, "settle")
    /\ UNCHANGED <<table, token, world, request, outcome, deploy, revived>>

-----------------------------------------------------------------------------
(* #settle: the answer meets the row.                                      *)

Open == {"PAYMENT_HELD", "SUPPLIER_PENDING"}

SettleBooked(c) ==
    /\ pc[c] = "settle" /\ loc[c].answer \in {"CONFIRMED", "ON_HOLD"}
    /\ advance(c, loc[c].answer, Open)
    /\ ref' = [ref EXCEPT ![c] = @ \/ (status[c] \in Open /\ loc[c].ref)]
    /\ Reply(c, "BOOKED")
    /\ UNCHANGED <<payment, refund, token, world, request, deploy, revived>>

\* An adapter that threw is pending too, and leaves no reference.
SettlePending(c) ==
    /\ pc[c] = "settle" /\ loc[c].answer \in {"PENDING", "THREW"}
    /\ advance(c, "SUPPLIER_PENDING", Open)
    /\ ref' = [ref EXCEPT ![c] = @ \/ (status[c] \in Open /\ loc[c].ref)]
    /\ Reply(c, "PENDING")
    /\ UNCHANGED <<payment, refund, token, world, request, deploy, revived>>

SettleRefused(c) ==
    /\ pc[c] = "settle" /\ loc[c].answer = "FAILED"
    /\ advance(c, "FAILED", Open)
    /\ Refunding(c, Price, "FAILED_BOOKING", refund[c].status)
    /\ outcome' = [outcome EXCEPT ![c] = "FAILED"]
    /\ UNCHANGED <<ref, payment, refund, token, world, request, deploy, revived>>

-----------------------------------------------------------------------------
(* confirm(): ask the supplier about an unsettled booking.                 *)

\* Any other status is returned unchanged.
StartPoll(p, b) ==
    /\ pc[p] = "idle" /\ status[b] = "SUPPLIER_PENDING"
    /\ loc' = [loc EXCEPT ![p].booking = b, ![p].seen = refund[b].status]
    /\ Goto(p, IF DealOf(b) \in registered \intersect Pollable /\ ref[b]
               THEN "ask" ELSE "review")
    /\ UNCHANGED <<table, token, world, request, outcome, deploy, revived>>

\* Mutation: a booking nobody can ask about is left pending.
PollReviewNever(p) ==
    /\ pc[p] = "review"
    /\ Finish(p)
    /\ UNCHANGED <<table, token, world, request, outcome, deploy, revived>>

PollReview(p) ==
    /\ pc[p] = "review"
    /\ advance(loc[p].booking, "MANUAL_REVIEW", {"SUPPLIER_PENDING"})
    /\ Finish(p)
    /\ UNCHANGED <<ref, payment, refund, token, world, request, outcome, deploy, revived>>

\* No answer, or "still pending": the booking is left as it is.
AskInVain(p) ==
    /\ pc[p] = "ask"
    /\ Finish(p)
    /\ UNCHANGED <<table, token, world, request, outcome, deploy, revived>>

\* Mutation: a supplier still working on the booking is read as a refusal.
PollAnswerGuessing ==
    [s \in {"pending", "confirmed", "on_hold", "failed", "cancelled"} |->
        CASE s = "confirmed" -> "CONFIRMED"
          [] s = "on_hold"   -> "ON_HOLD"
          [] OTHER           -> "FAILED"]

PollAnswer ==
    [s \in {"confirmed", "on_hold", "failed", "cancelled"} |->
        CASE s = "confirmed" -> "CONFIRMED"
          [] s = "on_hold"   -> "ON_HOLD"
          [] s = "failed"    -> "FAILED"
          [] s = "cancelled" -> "CANCELLED"]

Ask(p) ==
    /\ pc[p] = "ask" /\ stay[loc[p].booking] \in DOMAIN PollAnswer
    /\ loc' = [loc EXCEPT ![p].answer = PollAnswer[stay[loc[p].booking]]]
    /\ Goto(p, "pollSettle")
    /\ UNCHANGED <<table, token, world, request, outcome, deploy, revived>>

PollSettleBooked(p) ==
    LET b == loc[p].booking IN
    /\ pc[p] = "pollSettle" /\ loc[p].answer \in {"CONFIRMED", "ON_HOLD"}
    /\ advance(b, loc[p].answer, {"SUPPLIER_PENDING"})
    /\ Finish(p)
    /\ UNCHANGED <<ref, payment, refund, token, world, request, outcome, deploy, revived>>

\* The refund goes ahead whether or not this call moved the status: on the row
\* it moved, or else on the row it had read.
PollSettleFailed(p) ==
    LET b == loc[p].booking IN
    /\ pc[p] = "pollSettle" /\ loc[p].answer \in {"FAILED", "CANCELLED"}
    /\ advance(b, "FAILED", {"SUPPLIER_PENDING"})
    /\ Refunding(p, Price, "FAILED_BOOKING",
                 IF status[b] = "SUPPLIER_PENDING" THEN refund[b].status
                                                   ELSE loc[p].seen)
    /\ UNCHANGED <<ref, payment, refund, token, world, request, outcome, deploy, revived>>

-----------------------------------------------------------------------------
(* cancel(): take the booking, ask the supplier, give the money back.      *)

StartCancel(x, b) ==
    /\ pc[x] = "idle" /\ status[b] \in CANCELLABLE
    /\ loc' = [loc EXCEPT ![x].booking = b, ![x].was = status[b]]
    /\ Goto(x, IF ref[b] THEN "withdraw" ELSE "withdrawReview")
    /\ UNCHANGED <<table, token, world, request, outcome, deploy, revived>>

WithdrawReview(x) ==
    /\ pc[x] = "withdrawReview"
    /\ advance(loc[x].booking, "MANUAL_REVIEW", CANCELLABLE)
    /\ Finish(x)
    /\ UNCHANGED <<ref, payment, refund, token, world, request, outcome, deploy, revived>>

\* With no supplier to ask, the booking goes straight back (a rejection no
\* supplier gave).
Withdraw(x) ==
    LET b == loc[x].booking IN
    /\ pc[x] = "withdraw"
    /\ advance(b, "CANCELLATION_PENDING", CANCELLABLE)
    /\ IF status[b] \in CANCELLABLE
       THEN IF DealOf(b) \in registered
            THEN /\ loc' = [loc EXCEPT ![x].seen = refund[b].status]
                 /\ Goto(x, "cancelAsk")
            ELSE /\ loc' = [loc EXCEPT ![x].answer = "REJECTED"]
                 /\ Goto(x, "cancelSettle")
       ELSE Finish(x)
    /\ UNCHANGED <<ref, payment, refund, token, world, request, outcome, deploy, revived>>

\* The supplier accepts and its answer arrives, in our currency or another.
CancelAccept(x) ==
    LET b == loc[x].booking IN
    /\ pc[x] = "cancelAsk" /\ stay[b] \in {"pending", "confirmed", "on_hold"}
    /\ stay' = [stay EXCEPT ![b] = "cancelled"]
    /\ \/ \E fee \in Penalties :
             /\ penalty' = [penalty EXCEPT ![b] = fee]
             /\ loc' = [loc EXCEPT ![x].answer = "CANCELLED", ![x].amount = fee]
       \/ /\ loc' = [loc EXCEPT ![x].answer = "CANCELLED_FX"]
          /\ UNCHANGED penalty
    /\ Goto(x, "cancelSettle")
    /\ UNCHANGED <<table, token, captured, returned, request, outcome, deploy, revived>>

\* No answer, or "pending": the cancellation may have gone through, and the
\* booking stays CANCELLATION_PENDING.
CancelInVain(x) ==
    LET b == loc[x].booking IN
    /\ pc[x] = "cancelAsk"
    /\ \/ UNCHANGED stay
       \/ /\ stay[b] \in {"pending", "confirmed", "on_hold"}
          /\ stay' = [stay EXCEPT ![b] = "cancelled"]
    /\ Finish(x)
    /\ UNCHANGED <<table, token, penalty, captured, returned, request, outcome,
                   deploy, revived>>

CancelReject(x) ==
    /\ pc[x] = "cancelAsk"
    /\ loc' = [loc EXCEPT ![x].answer = "REJECTED"]
    /\ Goto(x, "cancelSettle")
    /\ UNCHANGED <<table, token, world, request, outcome, deploy, revived>>

\* Mutation: a booking that could not be cancelled must have been confirmed.
AlwaysConfirmed(x) == "CONFIRMED"

\* The status of the row this call read at its start.
WhatItWas(x) == loc[x].was

Restore(x) ==
    /\ pc[x] = "cancelSettle" /\ loc[x].answer = "REJECTED"
    /\ advance(loc[x].booking, WhatItWas(x), {"CANCELLATION_PENDING"})
    /\ Finish(x)
    /\ UNCHANGED <<ref, payment, refund, token, world, request, outcome, deploy, revived>>

\* A penalty in another currency is left to a human.
CancelSettle(x) ==
    LET b == loc[x].booking IN
    /\ pc[x] = "cancelSettle" /\ loc[x].answer \in {"CANCELLED", "CANCELLED_FX"}
    /\ advance(b, "CANCELLED", {"CANCELLATION_PENDING"})
    /\ IF loc[x].answer = "CANCELLED"
       THEN Refunding(x, refundAfterCancellation(loc[x].amount), "CANCELLATION",
                      IF status[b] = "CANCELLATION_PENDING" THEN refund[b].status
                                                            ELSE loc[x].seen)
       ELSE Finish(x)
    /\ UNCHANGED <<ref, payment, refund, token, world, request, outcome, deploy, revived>>

-----------------------------------------------------------------------------
(* #refund, from the store's claim on.                                     *)

Claim(p) ==
    LET b == loc[p].booking IN
    /\ pc[p] = "claim"
    /\ IF refund[b].status \in Claimable
       THEN /\ refund' = [refund EXCEPT ![b] = [status |-> "PROCESSING",
                                                kind |-> loc[p].kind,
                                                amount |-> loc[p].amount]]
            /\ Goto(p, "pay")
            /\ UNCHANGED loc
       ELSE Finish(p) /\ UNCHANGED refund
    /\ UNCHANGED <<status, ref, payment, token, world, request, outcome, deploy, revived>>

Pay(p) ==
    LET b == loc[p].booking IN
    /\ pc[p] = "pay"
    /\ \/ /\ returned' = [returned EXCEPT ![b] = @ + loc[p].amount]
          /\ Goto(p, "settlePaid")
       \/ Goto(p, "settleUnpaid") /\ UNCHANGED returned
    /\ UNCHANGED <<table, token, stay, penalty, captured, loc, request, outcome,
                   deploy, revived>>

\* Mutation: the gateway's refusal is not recorded.
SettledCompleted(p) == "COMPLETED"

SettledAs(p) == IF pc[p] = "settlePaid" THEN "COMPLETED" ELSE "FAILED"

\* The claimed record is written back with its final status, unconditionally.
SettleRefund(p) ==
    LET b == loc[p].booking IN
    /\ pc[p] \in {"settlePaid", "settleUnpaid"}
    /\ refund' = [refund EXCEPT ![b] =
                    [status |-> SettledAs(p), kind |-> loc[p].kind, amount |-> loc[p].amount]]
    /\ Finish(p)
    /\ UNCHANGED <<status, ref, payment, token, world, request, outcome, deploy, revived>>

-----------------------------------------------------------------------------
(* The environment.                                                        *)

\* The supplier works on a request it received, or loses it.
SupplierDecides(b) ==
    /\ stay[b] \in {"sent", "pending"}
    /\ \E s \in {"pending", "confirmed", "on_hold", "failed"} \ {stay[b]} :
         stay' = [stay EXCEPT ![b] = s]
    /\ UNCHANGED <<table, token, penalty, captured, returned, pc, loc, request,
                   outcome, deploy, revived>>

\* A token's time to live runs out.
Expire(d) ==
    /\ token[d]
    /\ token' = [token EXCEPT ![d] = FALSE]
    /\ UNCHANGED <<table, world, pc, loc, request, outcome, deploy, revived>>

\* The process dies, or a store or gateway call rejects and ends the request.
Crash(p) ==
    /\ crashes < MaxCrashes
    /\ pc[p] \notin AtRest
    /\ crashes' = crashes + 1
    /\ IF p \in Commits THEN Goto(p, "crashed") /\ UNCHANGED loc ELSE Finish(p)
    /\ UNCHANGED <<table, token, world, request, outcome, registered, redeploys, revived>>

\* A release registers another set of suppliers; the bookings outlive it.
Redeploy ==
    /\ redeploys < MaxRedeploys
    /\ \E s \in SUBSET Deals : s # registered /\ registered' = s
    /\ redeploys' = redeploys + 1
    /\ UNCHANGED <<table, token, world, pc, loc, request, outcome, crashes, revived>>

-----------------------------------------------------------------------------
CommitStep(c) ==
    \/ Replay(c) \/ Resolve(c) \/ Precheck(c) \/ ResealRead(c) \/ ResealWrite(c)
    \/ Decide(c) \/ ReadQuote(c) \/ Create(c) \/ Charge(c) \/ Decline(c) \/ Hold(c)
    \/ Consume(c) \/ LoseDeal(c) \/ Book(c) \/ Answer(c)
    \/ SettleBooked(c) \/ SettlePending(c) \/ SettleRefused(c)

PollStep(p) ==
    \/ \E b \in Commits : StartPoll(p, b)
    \/ PollReview(p) \/ AskInVain(p) \/ Ask(p)
    \/ PollSettleBooked(p) \/ PollSettleFailed(p)

CancelStep(x) ==
    \/ \E b \in Commits : StartCancel(x, b)
    \/ WithdrawReview(x) \/ Withdraw(x)
    \/ CancelAccept(x) \/ CancelInVain(x) \/ CancelReject(x)
    \/ Restore(x) \/ CancelSettle(x)

RefundStep(p) == Claim(p) \/ Pay(p) \/ SettleRefund(p)

Next ==
    \/ \E c \in Commits : CommitStep(c)
    \/ \E p \in Pollers : PollStep(p)
    \/ \E x \in Cancellers : CancelStep(x)
    \/ \E p \in Procs : RefundStep(p) \/ Crash(p)
    \/ \E b \in Commits : SupplierDecides(b)
    \/ \E d \in Deals : Expire(d)
    \/ Redeploy

Spec == Init /\ [][Next]_vars

-----------------------------------------------------------------------------
(* Safety.                                                                 *)

\* A key is charged once: however often a submit is retried, and however its
\* copies interleave, at most one of the commits under an idempotency key ever
\* has a row, takes money or reaches the supplier (create() before authorize()).
OneBookingPerKey ==
    \A b1, b2 \in Commits :
        /\ b1 # b2 /\ request[b1].key = request[b2].key
        /\ HasRow(b1) \/ captured[b1] > 0 \/ stay[b1] # "none"
        => ~HasRow(b2) /\ captured[b2] = 0 /\ stay[b2] = "none"

\* The deal's lock, as far as it goes: two bookings of one deal both reach the
\* supplier only if a reseal wrote the token back after it was gone.
DealLockUnlessRevived ==
    \A b1, b2 \in Commits :
        /\ b1 # b2 /\ DealOf(b1) = DealOf(b2)
        /\ stay[b1] # "none" /\ stay[b2] # "none"
        => DealOf(b1) \in revived

\* Money goes back once: whichever of the commit, the pollers and the cancel
\* requests find the booking, the customer never gets back more than was taken.
RefundedAtMostOnce == \A b \in Commits : returned[b] <= captured[b]

\* Nobody is refunded a stay the supplier holds or may still come to hold:
\* neither FAILED nor CANCELLED is written, and no money returned, on an
\* outcome that is merely unknown.
NoRefundWhileHeld ==
    \A b \in Commits :
        returned[b] > 0 \/ status[b] \in {"FAILED", "CANCELLED"} => stay[b] \notin Held

\* A booking the customer is told is theirs is held by the supplier, whatever
\* rejected, lost or concurrent cancellations it has been through.
ConfirmedIsHeld ==
    \A b \in Commits :
        /\ status[b] = "CONFIRMED" => stay[b] = "confirmed"
        /\ status[b] = "ON_HOLD" => stay[b] = "on_hold"

Working(p, b) == pc[p] \notin AtRest /\ loc[p].booking = b

\* A failed booking nobody is working on has been refunded, or its refund has
\* been tried, unless a process died on the way.
NoStrandedMoney ==
    \A b \in Commits :
        /\ status[b] = "FAILED" /\ captured[b] > 0 /\ crashes = 0
        /\ \A p \in Procs : ~Working(p, b)
        => refund[b].status # "NONE"

\* The record of a completed refund is the money that moved: the amount in the
\* row is the amount returned, and it is the net one if a cancellation paid it.
RefundRecordIsTrue ==
    \A b \in Commits :
        /\ refund[b].status = "COMPLETED" => returned[b] = refund[b].amount
        /\ refund[b].status \in {"NONE", "FAILED"} => returned[b] = 0
        /\ refund[b].status = "COMPLETED" /\ refund[b].kind = "CANCELLATION"
             => returned[b] = refundAfterCancellation(penalty[b])

\* Three writers keep to one transition table that none of them consults, and
\* so FAILED and CANCELLED are final.
FollowsTransitions ==
    [][\A b \in Commits :
         status'[b] = status[b] \/ status'[b] \in TRANSITIONS[status[b]]]_vars

-----------------------------------------------------------------------------
(* The promise this path keeps.                                            *)

RoomOf ==
    [b \in Commits |->
        CASE stay[b] \in {"failed", "cancelled"}    -> "gone"
          [] stay[b] = "none" /\ returned[b] > 0    -> "gone"
          [] stay[b] = "none" /\ returned[b] = 0    -> "none"
          [] stay[b] \in {"sent", "pending"}        -> "open"
          [] stay[b] \in {"confirmed", "on_hold"}   -> "held"]

Promise == INSTANCE BookingPromise
    WITH Bookings <- Commits, key <- [b \in Commits |-> request[b].key],
         room <- RoomOf

\* commit, confirm and cancel together implement the abstract promise: every
\* one of their steps is one of its steps or moves neither money nor a room.
KeepsPromise == Promise!Spec

-----------------------------------------------------------------------------
(* Liveness.                                                               *)

\* A request that is running goes on; the supplier decides in the end; the
\* reconciler comes back to every pending booking; and a supplier asked again
\* and again about a decided booking answers some time.
Fairness ==
    /\ \A c \in Commits : WF_vars(CommitStep(c))
    /\ \A p \in Pollers : /\ WF_vars(PollStep(p))
                          /\ SF_vars(Ask(p))
                          /\ \A b \in Commits : SF_vars(StartPoll(p, b))
    /\ \A x \in Cancellers : WF_vars(\/ WithdrawReview(x) \/ Withdraw(x)
                                    \/ CancelAccept(x) \/ CancelInVain(x)
                                    \/ CancelReject(x) \/ Restore(x)
                                    \/ CancelSettle(x))
    /\ \A p \in Procs : WF_vars(RefundStep(p))
    /\ \A b \in Commits :
         WF_vars(SupplierDecides(b) /\ stay'[b] # "pending")

FairSpec == Spec /\ Fairness

\* A pending booking is settled, cancelled or handed to a human: the poller is
\* the way out, and no interleaving with commits and cancels closes it.
PendingIsSettled ==
    \A b \in Commits :
        status[b] = "SUPPLIER_PENDING" ~> status[b] # "SUPPLIER_PENDING"
=============================================================================
