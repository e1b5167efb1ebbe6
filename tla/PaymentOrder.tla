----------------------------- MODULE PaymentOrder -----------------------------
(***************************************************************************)
(* One Razorpay order of payment-service, from its creation for a booking  *)
(* to its refunds: razorpay.service.ts, razorpayRefund.service.ts and the  *)
(* two repositories.  Every route that touches the order may be called at  *)
(* any time by anybody, so the calls of it interleave await by await.      *)
(*                                                                         *)
(* A caller makes one request after another.  A refund has a number of its *)
(* own, as each request generates its refundId.  The payment a caller      *)
(* names, to verify the order or to refund it, may be another order's.     *)
(***************************************************************************)
EXTENDS Integers, FiniteSetsExt

CONSTANTS
    Callers,
    Refunds,
    Payments,    \* of the order, and of others
    Own,         \* the one made for this order
    Worth,       \* what each is of
    Before,      \* and how far it has come when this order begins
    Most,        \* bound: of what one is of
    Asked,       \* bound: the amounts asked back; 0 is whatever is left
    MaxLosses    \* bound: requests that die, writes that are rejected, answers lost,
                 \* statuses set by hand

ASSUME AmountAssumption ==
    Most \in Nat \ {0} /\ Worth \in [Payments -> 1..Most] /\ Asked \subseteq 0..Most
ASSUME LossesAssumption == MaxLosses \in Nat

None == "none"
ASSUME RefundsAssumption == IsFiniteSet(Refunds)
ASSUME NoneAssumption == None \notin Refunds /\ None \notin Payments

Amount == Worth[Own]    \* what the order is for

PaymentStates == {"created", "failed", "authorized", "captured", "refunded"}
ASSUME PaymentsAssumption ==
    Own \in Payments /\ Before \in [Payments -> PaymentStates] /\ Before[Own] = "created"

VARIABLES
    status,       \* of the order; None before it is inserted
    linked,       \* razorpayOrderId is set
    paymentId,    \* razorpayPaymentId, once it is set
    total,        \* totalRefundedAmount
    entry,        \* the status of each element of the order's refunds
    amount,       \* its amount
    source,       \* and the payment it is taken from
    payment,      \* each payment as Razorpay has it
    events,       \* webhook events of the order that Razorpay delivers
    returned,     \* the money that went back for each refund
    direct,       \* and the money internal/refund sent back
    pc, loc,      \* where each caller waits, and what it holds
    losses,
    stray,        \* history: the refunds those befell
    crossed       \* history: two refunds were each allowed on a total without the other

order == <<status, linked, paymentId, total, entry, amount, source>>
razorpay == <<payment, events, returned, direct>>
callers == <<pc, loc>>
history == <<losses, stray, crossed>>
vars == <<order, razorpay, callers, history>>

Statuses == {"CREATED", "PENDING", "SUCCESS", "FAILED", "REFUNDED", "PARTIALLY_REFUNDED"}
RefundStatuses == {"pending", "processed", "failed", "cancelled"}
Places == {"idle", "register", "fetch", "verified", "orders", "sync", "check", "reserve",
           "refund", "processed", "count", "restate", "fail"}
NamingPlaces == {"fetch", "verified", "check", "reserve"}    \* where a payment is named

\* What a request holds: the order's status and total as it read them, the payment it
\* names, the refund it makes, the amount, and the status it means to write.
Nothing == [seen |-> None, total |-> 0, pay |-> None, refund |-> None, amount |-> 0,
            next |-> None]
Locals == [seen : Statuses \union {None}, total : Nat, pay : Payments \union {None},
           refund : Refunds \union {None}, amount : 0..Most, next : Statuses \union {None}]

TypeOK ==
    /\ status \in Statuses \union {None}
    /\ linked \in BOOLEAN /\ paymentId \in Payments \union {None}
    /\ total \in Nat
    /\ entry \in [Refunds -> RefundStatuses \union {None}]
    /\ amount \in [Refunds -> 0..Most]
    /\ source \in [Refunds -> Payments \union {None}]
    /\ payment \in [Payments -> PaymentStates]
    /\ events \subseteq {"payment.captured", "payment.authorized", "payment.failed"}
    /\ returned \in [Refunds -> 0..Most] /\ direct \in 0..Most
    /\ pc \in [Callers -> Places] /\ loc \in [Callers -> Locals]
    /\ \A c \in Callers : pc[c] \in NamingPlaces => loc[c].pay \in Payments
    /\ losses \in 0..MaxLosses
    /\ stray \subseteq Refunds /\ crossed \in BOOLEAN

Init ==
    /\ status = None /\ linked = FALSE /\ paymentId = None /\ total = 0
    /\ entry = [r \in Refunds |-> None] /\ amount = [r \in Refunds |-> 0]
    /\ source = [r \in Refunds |-> None]
    /\ payment = Before /\ events = {}
    /\ returned = [r \in Refunds |-> 0] /\ direct = 0
    /\ pc = [c \in Callers |-> "idle"] /\ loc = [c \in Callers |-> Nothing]
    /\ losses = 0 /\ stray = {} /\ crossed = FALSE

At(c, from) == pc[c] = from
GoTo(c, to) == pc' = [pc EXCEPT ![c] = to]
Hold(c, l) == loc' = [loc EXCEPT ![c] = l]
Return(c) == GoTo(c, "idle") /\ Hold(c, Nothing)
Lose(whose) ==
    /\ losses < MaxLosses /\ losses' = losses + 1
    /\ stray' = stray \union (whose \ {None})

----------------------------------------------------------------------------
\* The insert comes before Razorpay is asked.  bookingId is unique: for a booking
\* that has an order, whatever became of it, the insert is refused.
createRazorpayOrder(c) ==
    /\ At(c, "idle") /\ status = None
    /\ status' = "CREATED"
    /\ GoTo(c, "register")
    /\ UNCHANGED <<linked, paymentId, total, entry, amount, source, razorpay, loc, history>>

Register(c) ==
    /\ At(c, "register")
    /\ status' = "PENDING" /\ linked' = TRUE
    /\ Return(c)
    /\ UNCHANGED <<paymentId, total, entry, amount, source, razorpay, history>>

\* Razorpay refuses the order: it stays CREATED.
RegisterFails(c) ==
    /\ At(c, "register")
    /\ Return(c)
    /\ UNCHANGED <<order, razorpay, history>>

\* The customer pays.  An order admits further attempts until one is authorized;
\* payment_capture has Razorpay capture it then.
Announced(p, event) == events' = events \union (IF p = Own THEN {event} ELSE {})

AttemptFails(p) ==
    /\ p = Own => linked
    /\ payment[p] \in {"created", "failed"}
    /\ payment' = [payment EXCEPT ![p] = "failed"]
    /\ Announced(p, "payment.failed")
    /\ UNCHANGED <<order, returned, direct, callers, history>>

Authorize(p) ==
    /\ p = Own => linked
    /\ payment[p] \in {"created", "failed"}
    /\ payment' = [payment EXCEPT ![p] = "authorized"]
    /\ Announced(p, "payment.authorized")
    /\ UNCHANGED <<order, returned, direct, callers, history>>

Capture(p) ==
    /\ payment[p] = "authorized"
    /\ payment' = [payment EXCEPT ![p] = "captured"]
    /\ Announced(p, "payment.captured")
    /\ UNCHANGED <<order, returned, direct, callers, history>>

----------------------------------------------------------------------------
\* updateOrderStatus selects an order by our orderId.
updateOrderStatus(id, s, p) ==
    /\ status' = IF id = "orderId" THEN s ELSE status
    /\ paymentId' = IF id = "orderId" THEN p ELSE paymentId

\* The webhook looks the order up by its razorpayOrderId, and passes on that id.
\* Events come late, in any order, and again.
Webhook(event, changes, s) ==
    /\ event \in events
    /\ IF changes THEN updateOrderStatus("razorpayOrderId", s, Own)
       ELSE UNCHANGED <<status, paymentId>>
    /\ UNCHANGED <<linked, total, entry, amount, source, razorpay, callers, history>>

handlePaymentCaptured == Webhook("payment.captured", status # "SUCCESS", "SUCCESS")
handlePaymentAuthorized == Webhook("payment.authorized", status = "PENDING", "PENDING")
handlePaymentFailed == Webhook("payment.failed", status # "FAILED", "FAILED")

\* Checkout hands the browser a signature for a payment that was authorized.  What is
\* checked is the signature, of the Razorpay order and payment the caller names.
verifyRazorpayPayment(c, p) ==
    /\ At(c, "idle") /\ status \notin {None, "SUCCESS"}
    /\ payment[p] \notin {"created", "failed"}
    /\ GoTo(c, "fetch") /\ Hold(c, [Nothing EXCEPT !.pay = p])
    /\ UNCHANGED <<order, razorpay, history>>

\* Mutation: an authorized payment is good enough.
FetchAnyPayment(c) ==
    /\ At(c, "fetch")
    /\ GoTo(c, "verified") /\ Hold(c, [loc[c] EXCEPT !.next = "SUCCESS"])
    /\ UNCHANGED <<order, razorpay, history>>

FetchPayment(c) ==
    /\ At(c, "fetch")
    /\ IF payment[loc[c].pay] = "refunded" THEN Return(c)
       ELSE /\ GoTo(c, "verified")
            /\ Hold(c, [loc[c] EXCEPT !.next = IF payment[loc[c].pay] = "captured"
                                               THEN "SUCCESS" ELSE "PENDING"])
    /\ UNCHANGED <<order, razorpay, history>>

\* The answer is written over whatever the order says by now, and the payment with it.
Verified(c) ==
    /\ At(c, "verified")
    /\ updateOrderStatus("orderId", loc[c].next, loc[c].pay)
    /\ Return(c)
    /\ UNCHANGED <<linked, total, entry, amount, source, razorpay, history>>

syncRazorpayOrderStatus(c) ==
    /\ At(c, "idle") /\ linked
    /\ GoTo(c, "orders") /\ Hold(c, [Nothing EXCEPT !.seen = status])
    /\ UNCHANGED <<order, razorpay, history>>

\* A Razorpay order is created, attempted, failed or paid: paid stays paid.
FetchOrder(c) ==
    LET said == CASE payment[Own] = "created" -> {loc[c].seen}
                  [] payment[Own] = "failed" -> {"PENDING", "FAILED"}
                  [] payment[Own] = "authorized" -> {"PENDING"}
                  [] payment[Own] \in {"captured", "refunded"} -> {"SUCCESS"}
    IN  /\ At(c, "orders")
        /\ \E s \in said : Hold(c, [loc[c] EXCEPT !.next = s])
        /\ GoTo(c, "sync")
        /\ UNCHANGED <<order, razorpay, history>>

Sync(c) ==
    /\ At(c, "sync")
    /\ status' = IF loc[c].next = loc[c].seen THEN status ELSE loc[c].next
    /\ Return(c)
    /\ UNCHANGED <<linked, paymentId, total, entry, amount, source, razorpay, history>>

----------------------------------------------------------------------------
\* Take(c, r, p, a): a request for a refund of a from p reads the order.
Take(c, r, p, a) ==
    /\ At(c, "idle") /\ entry[r] = None /\ \A d \in Callers : loc[d].refund # r
    /\ GoTo(c, "check")
    /\ Hold(c, [Nothing EXCEPT !.total = total, !.pay = p, !.refund = r, !.amount = a])
    /\ UNCHANGED <<order, razorpay, history>>

\* A refund is asked for by order and payment, of any amount or of all that is left;
\* the two are the caller's, and nothing says that they belong together.
StartRefund(c, r, p) ==
    /\ status # None
    /\ \E a \in Asked : Take(c, r, p, a)

\* Or by booking: then the amount is named, the order must say SUCCESS, and the payment
\* is the one it was verified by.
createRefundByBookingId(c, r) ==
    /\ status = "SUCCESS" /\ paymentId # None
    /\ \E a \in Asked \ {0} : Take(c, r, paymentId, a)

\* Mutation: what went back before is not asked.
CheckPaymentOnly(c) ==
    LET a == IF loc[c].amount = 0 THEN Worth[loc[c].pay] ELSE loc[c].amount
    IN  /\ At(c, "check")
        /\ IF payment[loc[c].pay] = "captured" /\ a <= Worth[loc[c].pay]
           THEN GoTo(c, "reserve") /\ Hold(c, [loc[c] EXCEPT !.amount = a])
           ELSE Return(c)
        /\ UNCHANGED <<order, razorpay, history>>

\* The payment is captured, and the amount within what it has beyond the total that
\* the order, as it was read, has refunded.
CheckAmount(c) ==
    LET left == Worth[loc[c].pay] - loc[c].total
        a == IF loc[c].amount = 0 THEN left ELSE loc[c].amount
    IN  /\ At(c, "check")
        /\ IF payment[loc[c].pay] = "captured" /\ a > 0 /\ a <= left
           THEN GoTo(c, "reserve") /\ Hold(c, [loc[c] EXCEPT !.amount = a])
           ELSE Return(c)
        /\ UNCHANGED <<order, razorpay, history>>

\* createRefund pushes the entry and adds its amount to the total, in one update.
createRefund(c) ==
    LET r == loc[c].refund
    IN  /\ At(c, "reserve")
        /\ entry' = [entry EXCEPT ![r] = "pending"]
        /\ amount' = [amount EXCEPT ![r] = loc[c].amount]
        /\ source' = [source EXCEPT ![r] = loc[c].pay]
        /\ total' = total + loc[c].amount
        /\ crossed' = (crossed \/ total # loc[c].total)
        /\ GoTo(c, "refund") /\ Hold(c, [Nothing EXCEPT !.refund = r])
        /\ UNCHANGED <<status, linked, paymentId, razorpay, losses, stray>>

\* A new entry's razorpayRefundId is '': the unique index refuses it while another
\* order has such an entry.
ReserveRefused(c) ==
    /\ At(c, "reserve")
    /\ Return(c)
    /\ UNCHANGED <<order, razorpay, history>>

Sum(f) == MapThenSumSet(LAMBDA r : f[r], Refunds)

\* Razorpay gives back no more than it has; a payment all of which went back is no
\* longer captured.
Give(p, a) ==
    LET given == Sum([r \in Refunds |-> IF source[r] = p THEN returned[r] ELSE 0])
                   + (IF p = Own THEN direct ELSE 0) + a
    IN  /\ given <= Worth[p]
        /\ payment' = [payment EXCEPT ![p] = IF given = Worth[p] THEN "refunded" ELSE @]

Send(r) == Give(source[r], amount[r]) /\ returned' = [returned EXCEPT ![r] = amount[r]]

\* Razorpay pays.
Refund(c) ==
    /\ At(c, "refund")
    /\ Send(loc[c].refund)
    /\ GoTo(c, "processed")
    /\ UNCHANGED <<order, events, direct, loc, history>>

\* Mutation: a refusal is thrown past the catch block.
RefusalEscapes(c) ==
    /\ At(c, "refund")
    /\ Return(c)
    /\ UNCHANGED <<order, razorpay, history>>

RefundRefused(c) ==
    /\ At(c, "refund")
    /\ GoTo(c, "fail")
    /\ UNCHANGED <<order, razorpay, loc, history>>

\* Razorpay pays, and its answer is lost.
RefundUnheard(c) ==
    /\ At(c, "refund")
    /\ Send(loc[c].refund)
    /\ GoTo(c, "fail")
    /\ Lose({loc[c].refund})
    /\ UNCHANGED <<order, events, direct, loc, crossed>>

Processed(c) ==
    /\ At(c, "processed")
    /\ entry' = [entry EXCEPT ![loc[c].refund] = "processed"]
    /\ GoTo(c, "count")
    /\ UNCHANGED <<status, linked, paymentId, total, amount, source, razorpay, loc, history>>

\* updateOrderStatusBasedOnRefunds: a read, and a write if the status should change.
Count(c) ==
    LET new == CASE total >= Amount -> "REFUNDED"
                 [] total \in 1..(Amount - 1) -> "PARTIALLY_REFUNDED"
                 [] total = 0 -> status
    IN  /\ At(c, "count")
        /\ IF new = status THEN Return(c)
           ELSE GoTo(c, "restate") /\ Hold(c, [loc[c] EXCEPT !.next = new])
        /\ UNCHANGED <<order, razorpay, history>>

Restate(c) ==
    /\ At(c, "restate")
    /\ status' = loc[c].next
    /\ Return(c)
    /\ UNCHANGED <<linked, paymentId, total, entry, amount, source, razorpay, history>>

\* One catch block for the payment and the writes after it; by hand there is none.
WriteFails(c) ==
    /\ pc[c] \in {"processed", "count", "restate"}
    /\ IF loc[c].refund = None THEN Return(c) ELSE GoTo(c, "fail") /\ UNCHANGED loc
    /\ Lose({loc[c].refund})
    /\ UNCHANGED <<order, razorpay, crossed>>

\* Mutation: a failed refund gives its amount back to the order.
FailGivesBack(c) ==
    /\ At(c, "fail")
    /\ entry' = [entry EXCEPT ![loc[c].refund] = "failed"]
    /\ total' = total - amount[loc[c].refund]
    /\ Return(c)
    /\ UNCHANGED <<status, linked, paymentId, amount, source, razorpay, history>>

Fail(c) ==
    /\ At(c, "fail")
    /\ entry' = [entry EXCEPT ![loc[c].refund] = "failed"]
    /\ Return(c)
    /\ UNCHANGED <<status, linked, paymentId, total, amount, source, razorpay, history>>

\* The refund's status set by hand.
updateRefundStatus(c, r, s) ==
    /\ At(c, "idle") /\ entry[r] # None /\ s # entry[r]
    /\ entry' = [entry EXCEPT ![r] = s]
    /\ GoTo(c, "count")
    /\ Lose({r})
    /\ UNCHANGED <<status, linked, paymentId, total, amount, source, razorpay, loc, crossed>>

\* internal/refund pays without a look at the order; the booking services ask once.
\* What goes back of another order's payment elsewhere only has Razorpay refuse more.
internalRefund ==
    /\ payment[Own] = "captured" /\ direct = 0
    /\ \E a \in 1..Amount : Give(Own, a) /\ direct' = a
    /\ UNCHANGED <<order, events, returned, callers, history>>

Crash(c) ==
    /\ pc[c] # "idle"
    /\ Return(c)
    /\ Lose({loc[c].refund})
    /\ UNCHANGED <<order, razorpay, crossed>>

Step(c) ==
    \/ createRazorpayOrder(c) \/ Register(c) \/ RegisterFails(c)
    \/ \E p \in Payments : verifyRazorpayPayment(c, p)
    \/ FetchPayment(c) \/ Verified(c)
    \/ syncRazorpayOrderStatus(c) \/ FetchOrder(c) \/ Sync(c)
    \/ \E r \in Refunds, p \in Payments : StartRefund(c, r, p)
    \/ \E r \in Refunds : createRefundByBookingId(c, r)
    \/ CheckAmount(c) \/ createRefund(c) \/ ReserveRefused(c)
    \/ Refund(c) \/ RefundRefused(c) \/ RefundUnheard(c)
    \/ Processed(c) \/ Count(c) \/ Restate(c) \/ WriteFails(c) \/ Fail(c)
    \/ \E r \in Refunds, s \in RefundStatuses : updateRefundStatus(c, r, s)
    \/ Crash(c)

Next ==
    \/ \E c \in Callers : Step(c)
    \/ \E p \in Payments : AttemptFails(p) \/ Authorize(p) \/ Capture(p)
    \/ internalRefund
    \/ handlePaymentCaptured \/ handlePaymentAuthorized \/ handlePaymentFailed

Spec == Init /\ [][Next]_vars

----------------------------------------------------------------------------
Captured(p) == payment[p] \in {"captured", "refunded"}

\* An order is called paid only if Razorpay has the money of its own payment, or of the
\* one it was verified by and names: neither an authorized payment, nor a sync or a
\* webhook that comes late, makes it SUCCESS (razorpay.service).  The two may differ,
\* as verifyRazorpayPaymentService compares them with nothing.
SuccessIsCaptured ==
    status = "SUCCESS" => Captured(Own) \/ (paymentId # None /\ Captured(paymentId))

\* The money sent back on an order's refunds is within the total that refuses the
\* next one (createRefundService's max), also when Razorpay's answer was lost or the
\* refund is called failed: a refund that failed keeps its share.
ReturnedIsReserved == Sum(returned) <= total

\* What an order refunds is within its amount, unless two refunds were each allowed on
\* the total as it was before the other, or the caller named the payment of another
\* order: then it is within that payment (createRefundService's max).
NoOverRefund ==
    \/ total <= Amount
    \/ crossed
    \/ \E r \in Refunds : /\ source[r] \in Payments \ {Own}
                          /\ total <= Worth[source[r]]

\* Unless the call met a loss, or the status was set by hand, a refund called
\* processed was paid in full, one called failed was not paid, and one is pending
\* only while its call is under way.
RefundRecordIsTrue ==
    \A r \in Refunds \ stray :
        /\ entry[r] = "processed" => returned[r] = amount[r]
        /\ entry[r] = "failed" => returned[r] = 0
        /\ entry[r] = "pending" => \E c \in Callers : loc[c].refund = r

=============================================================================
