----------------------------- MODULE FlightBooking -----------------------------
(***************************************************************************)
(* One flight booking of flight-service: its row, the order at TripJack    *)
(* under the same bookingId, and what wallets were debited and credited    *)
(* for it (bookingLocal.controller.ts, bookingLocal.service.ts, cancellation.     *)
(* service.ts, the two cron jobs, and bookingPayment.service.ts of         *)
(* auth-service).  Each request interleaves with the others, and with the  *)
(* status cron, await by await.                                            *)
(*                                                                         *)
(* Money is counted in whole charges of the booking, fares and balances    *)
(* are left out.  Bookings share nothing but currentToken, the token of    *)
(* the controller's latest request: whatever reads it after an await may   *)
(* find another user's.                                                    *)
(***************************************************************************)
EXTENDS Integers, FiniteSets

CONSTANTS
    Callers,
    Payers,
    MaxDebits,   \* bound: debits for the booking, for each kind of payer
    MaxLosses    \* bound: requests that die, calls and writes whose answer is lost,
                 \*        and tokens of another user's

ASSUME CallersAssumption == IsFiniteSet(Callers)
ASSUME BoundsAssumption == MaxDebits \in [Payers -> Nat] /\ MaxLosses \in Nat

None == "none"

VARIABLES
    status,      \* of the row; None without a row
    amendmentId, \* it is set
    refundProcessed,
    order,       \* TripJack's order under the bookingId
    amendment,   \* and the amendment that cancels it
    refundable,  \* with money to give back
    payer,       \* who books, which never changes
    paid,        \* the Razorpay order a B2C payer needs says paid
    ledger,      \* auth-service has a BOOKING debit for the booking
    debits, credits,  \* what each wallet gave and got back, in charges
    back,        \* how often a cancellation gave money back
    unflagged,   \* history: how often that is not in refundProcessed
    pc, debited, \* each request: where it waits, and that it took a debit
    cron, seen, latest,     \* the status cron's
    mail,        \* sendBookingEmails, one at a time: the status it heard
    losses

row == <<status, amendmentId, refundProcessed>>
tripjack == <<order, amendment, refundable>>
money == <<ledger, debits, credits, back, unflagged>>
requests == <<pc, debited>>
job == <<cron, seen, latest>>
vars == <<row, tripjack, payer, paid, money, requests, job, mail, losses>>

Orders == {"PENDING", "SUCCESS", "ABORTED", "ON_HOLD", "UNCONFIRMED", "CANCELLED"}
Statuses == Orders \union {"INITIATED", "FAILED", "CANCEL_REQUESTED"}

Places == {"idle", "pay", "deduct", "other", "book", "accepted", "refused", "unheard", "refund",
           "amended", "released"}

\* An agency's admin, a relationship manager and a sub-company under one, a customer
\* for whom the house account stands, a guest without a wallet.
ASSUME PayersAssumption == Payers \subseteq {"admin", "rm", "sub", "house", "guest"}

\* The wallet of who books, that of the admin above, the house account's, anyone else's.
Wallets == {"holder", "parent", "house", "other"}

\* The wallets that one charge is taken from.  A sub-company without the balance owes
\* it: both are debited.
Charges == [admin |-> {{"holder"}}, rm |-> {{"parent"}}, sub |-> {{"holder"}, {"holder", "parent"}},
            house |-> {{"house"}}, guest |-> {}]

\* And the one it is given back to.  A relationship manager has no wallet, and what a
\* sub-company gets goes to the parent while it owes.
Refunds == [admin |-> {{"holder"}}, rm |-> {{}}, sub |-> {{"holder"}, {"parent"}},
            house |-> {{"house"}}, guest |-> {}]

TypeOK ==
    /\ status \in Statuses \union {None}
    /\ amendmentId \in BOOLEAN /\ refundProcessed \in BOOLEAN
    /\ order \in Orders \union {None}
    /\ amendment \in {None, "REQUESTED", "SUCCESS", "REJECTED"} /\ refundable \in BOOLEAN
    /\ payer \in Payers /\ paid \in BOOLEAN /\ ledger \in BOOLEAN
    /\ debits \in [Wallets -> 0..MaxDebits[payer]] /\ credits \in [Wallets -> Nat]
    /\ back \in Nat /\ unflagged \in Nat
    /\ pc \in [Callers -> Places]
    /\ debited \in [Callers -> BOOLEAN]
    /\ cron \in {"idle", "ask", "write", "check", "amendment", "credit", "flag"}
    /\ seen \in Statuses \union {None} /\ latest \in Orders \union {None}
    /\ mail \in Orders \union {None}
    /\ losses \in 0..MaxLosses

Init ==
    /\ status = None /\ amendmentId = FALSE /\ refundProcessed = FALSE
    /\ order = None /\ amendment = None /\ refundable = FALSE
    /\ payer \in Payers /\ paid = FALSE /\ ledger = FALSE
    /\ debits = [w \in Wallets |-> 0] /\ credits = [w \in Wallets |-> 0]
    /\ back = 0 /\ unflagged = 0
    /\ pc = [c \in Callers |-> "idle"] /\ debited = [c \in Callers |-> FALSE]
    /\ cron = "idle" /\ seen = None /\ latest = None /\ mail = None
    /\ losses = 0

At(c, from) == pc[c] = from
Hold(c, to, d) == pc' = [pc EXCEPT ![c] = to] /\ debited' = [debited EXCEPT ![c] = d]
GoTo(c, to) == Hold(c, to, debited[c])
Return(c) == Hold(c, "idle", FALSE)
Lose == losses < MaxLosses /\ losses' = losses + 1

\* updateBooking and updateBookingStatus: whatever the row says by now, if there is one.
updateBookingStatus(s) == status' = IF status = None THEN None ELSE s
WriteStatus(s) == updateBookingStatus(s) /\ UNCHANGED <<amendmentId, refundProcessed>>

----------------------------------------------------------------------------
\* /init: also for a booking that is further on, which goes back to INITIATED.
createInitialBooking(c) ==
    /\ At(c, "idle")
    /\ status' = "INITIATED"
    /\ UNCHANGED <<amendmentId, refundProcessed, tripjack, payer, paid, money, requests, job, mail, losses>>

\* The nightly job; a day passes sooner or later.
deleteExpiredInitiatedBookings ==
    /\ status = "INITIATED"
    /\ status' = None /\ amendmentId' = FALSE /\ refundProcessed' = FALSE
    /\ UNCHANGED <<tripjack, payer, paid, money, requests, job, mail, losses>>

\* The compare-and-set of applyPreparedBooking, which writes prices and passengers.
prepareBooking == status \notin {None, "SUCCESS", "CANCELLED", "CANCEL_REQUESTED"}

CustomerPays ==
    /\ payer \in {"house", "guest"} /\ ~paid /\ paid' = TRUE
    /\ UNCHANGED <<row, tripjack, payer, money, requests, job, mail, losses>>

\* B2C needs a paid order, and a paid one stays paid.  B2B needs the balance;
\* isAlreadyPaid, which is looked for beside data and not in it, never stops a request.
updateAndBook(c) ==
    /\ At(c, "idle") /\ (payer \in {"house", "guest"} => paid)
    /\ prepareBooking
    /\ GoTo(c, IF payer = "guest" THEN "book" ELSE "pay")
    /\ UNCHANGED <<row, tripjack, payer, paid, money, job, mail, losses>>

\* Mutation: the ticket is issued before the debit.
PayLater(c) ==
    /\ At(c, "pay")
    /\ GoTo(c, "book")
    /\ UNCHANGED <<row, tripjack, payer, paid, money, job, mail, losses>>

\* currentToken is another user's by now, and is used for want of a name.
Mix == payer # "house" /\ Lose

\* /book/pay in the name of whoever's token it is, but for the house account, which is
\* named.  It looks for an earlier debit only if that user is nobody's.
payForBooking(c) ==
    /\ At(c, "pay")
    /\ \/ /\ GoTo(c, IF payer \in {"admin", "house"} /\ ledger THEN "book" ELSE "deduct")
          /\ UNCHANGED losses
       \/ Mix /\ (GoTo(c, "other") \/ (ledger /\ GoTo(c, "book")))
    /\ UNCHANGED <<row, tripjack, payer, paid, money, job, mail>>

Raised(counts, W) == [w \in Wallets |-> counts[w] + (IF w \in W THEN 1 ELSE 0)]

Total(counts) == counts["holder"] + counts["parent"] + counts["house"] + counts["other"]

Take(W) == debits' = Raised(debits, W) /\ Total(debits') <= MaxDebits[payer]

Charged(c) == IF At(c, "other") THEN {{"other"}} ELSE Charges[payer]

\* The debit and its entry in the ledger; a second request may be past its look.
deductBalance(c) ==
    /\ pc[c] \in {"deduct", "other"}
    /\ \E W \in Charged(c) : Take(W)
    /\ ledger' = TRUE
    /\ Hold(c, "book", TRUE)
    /\ UNCHANGED <<row, tripjack, payer, paid, credits, back, unflagged, job, mail, losses>>

\* The wallet is inactive, empty or over its limit: the request ends.
PayRefused(c) ==
    /\ pc[c] \in {"pay", "deduct", "other"}
    /\ Return(c)
    /\ UNCHANGED <<row, tripjack, payer, paid, money, job, mail, losses>>

\* The debit is made, of all its wallets or of one, entered or not, and the request ends
\* before it knows.
PayUnheard(c) ==
    /\ pc[c] \in {"deduct", "other"} /\ Lose
    /\ \E W \in Charged(c), V \in SUBSET Wallets : V # {} /\ V \subseteq W /\ Take(V)
    /\ ledger' \in {ledger, TRUE}
    /\ Return(c)
    /\ UNCHANGED <<row, tripjack, payer, paid, credits, back, unflagged, job, mail>>

----------------------------------------------------------------------------
\* TripJack takes one order under a bookingId,
Accept == order = None /\ order' \in {"PENDING", "ON_HOLD"} /\ UNCHANGED <<amendment, refundable>>

Book(c) ==
    /\ At(c, "book") /\ Accept
    /\ GoTo(c, "accepted")
    /\ UNCHANGED <<row, payer, paid, money, job, mail, losses>>

\* refuses any other, and may refuse the first,
BookRefused(c) ==
    /\ At(c, "book")
    /\ GoTo(c, "refused")
    /\ UNCHANGED <<row, tripjack, payer, paid, money, job, mail, losses>>

\* or does not answer.
BookUnheard(c) ==
    /\ At(c, "book") /\ Lose
    /\ Accept \/ UNCHANGED tripjack
    /\ GoTo(c, "unheard")
    /\ UNCHANGED <<row, payer, paid, money, job, mail>>

\* Mutation: a refusal needs no credit.
Forget(c) == Return(c)

Settle(c) == IF debited[c] THEN GoTo(c, "refund") ELSE Return(c)

Outcomes == [accepted |-> "PENDING", refused |-> "FAILED", unheard |-> "PENDING"]

\* submitBooking writes what it knows, and then throws or answers.  A write that
\* fails is swallowed.
recordOutcome(c) ==
    /\ pc[c] \in DOMAIN Outcomes
    /\ \/ WriteStatus(Outcomes[pc[c]]) /\ UNCHANGED losses
       \/ Lose /\ UNCHANGED row
    /\ IF At(c, "accepted") THEN Return(c) /\ mail' = order ELSE Settle(c) /\ UNCHANGED mail
    /\ UNCHANGED <<tripjack, payer, paid, money, job>>

\* Once, whatever the debit was: to the house account by name, else to the holder of the
\* token that is there by now.
Give(W) == credits' = Raised(credits, W)

GiveBack == \E W \in Refunds[payer] : Give(W)

\* Mutation: the house account's refund, too, goes to the holder of the token.
CreditHolder(c) ==
    /\ At(c, "refund")
    /\ Give({"holder"})
    /\ Return(c)
    /\ UNCHANGED <<row, tripjack, payer, paid, ledger, debits, back, unflagged, job, mail, losses>>

refundWalletBalance(c) ==
    /\ At(c, "refund")
    /\ (GiveBack /\ UNCHANGED losses) \/ (Mix /\ Give({"other"}))
    /\ Return(c)
    /\ UNCHANGED <<row, tripjack, payer, paid, ledger, debits, back, unflagged, job, mail>>

\* It is logged for a human: that holder has no wallet, or the answer is lost and the
\* wallet may have the money all the same.
RefundFails(c) ==
    /\ At(c, "refund") /\ Lose
    /\ GiveBack \/ UNCHANGED credits
    /\ Return(c)
    /\ UNCHANGED <<row, tripjack, payer, paid, ledger, debits, back, unflagged, job, mail>>

----------------------------------------------------------------------------
\* A cancellation, void or full refund: TripJack takes one for an order it issued.
submit(c) ==
    /\ At(c, "idle") /\ order = "SUCCESS" /\ amendment = None
    /\ amendment' = "REQUESTED"
    /\ \/ GoTo(c, "amended") /\ UNCHANGED losses
       \/ Return(c) /\ Lose
    /\ UNCHANGED <<row, order, refundable, payer, paid, money, job, mail>>

Amended(c) ==
    /\ At(c, "amended")
    /\ updateBookingStatus("CANCEL_REQUESTED") /\ amendmentId' = (status # None)
    /\ Return(c)
    /\ UNCHANGED <<refundProcessed, tripjack, payer, paid, money, job, mail, losses>>

\* The amendment's status, asked for by a client: one that is done stays done, so that
\* the answer and the write it makes are one step.
AmendmentStatus ==
    /\ amendment = "SUCCESS"
    /\ WriteStatus("CANCELLED")
    /\ UNCHANGED <<tripjack, payer, paid, money, requests, job, mail, losses>>

releasePnr(c) ==
    /\ At(c, "idle") /\ order = "ON_HOLD"
    /\ order' = "UNCONFIRMED"
    /\ GoTo(c, "released")
    /\ UNCHANGED <<row, amendment, refundable, payer, paid, money, job, mail, losses>>

Released(c) ==
    /\ At(c, "released")
    /\ WriteStatus("UNCONFIRMED")
    /\ Return(c)
    /\ UNCHANGED <<tripjack, payer, paid, money, job, mail, losses>>

confirmBooking ==
    /\ order = "ON_HOLD" /\ order' = "PENDING"
    /\ UNCHANGED <<row, amendment, refundable, payer, paid, money, requests, job, mail, losses>>

\* TripJack issues or gives up an order, cancels one, and closes the amendment: the
\* last two in any order.
OrderMoves ==
    /\ \/ order = "PENDING" /\ order' \in {"SUCCESS", "ABORTED"}
       \/ order = "SUCCESS" /\ amendment \in {"REQUESTED", "SUCCESS"} /\ order' = "CANCELLED"
    /\ UNCHANGED <<row, amendment, refundable, payer, paid, money, requests, job, mail, losses>>

AmendmentMoves ==
    /\ amendment = "REQUESTED"
    /\ \/ amendment' = "SUCCESS" /\ refundable' \in BOOLEAN
       \/ order = "SUCCESS" /\ amendment' = "REJECTED" /\ UNCHANGED refundable
    /\ UNCHANGED <<row, order, payer, paid, money, requests, job, mail, losses>>

Crash(c) ==
    /\ pc[c] # "idle" /\ Lose
    /\ Return(c)
    /\ UNCHANGED <<row, tripjack, payer, paid, money, job, mail>>

----------------------------------------------------------------------------
CronTo(place) == cron' = place /\ seen' = None /\ latest' = None

\* isRunning and the finally blocks around each round.
CronEnds == CronTo("idle")

NotPolled == {None, "SUCCESS", "FAILED", "CANCELLED", "ABORTED", "INITIATED"}

\* getPendingStatusBookings, every two minutes.
CronStart ==
    /\ cron = "idle" /\ status \notin NotPolled
    /\ cron' = "ask" /\ seen' = status /\ UNCHANGED latest
    /\ UNCHANGED <<row, tripjack, payer, paid, money, requests, mail, losses>>

CronAsk ==
    /\ cron = "ask"
    /\ IF order \in {None, seen} THEN CronEnds
       ELSE cron' = "write" /\ seen' = None /\ latest' = order
    /\ UNCHANGED <<row, tripjack, payer, paid, money, requests, mail, losses>>

CronWrite ==
    /\ cron = "write"
    /\ WriteStatus(latest)
    /\ IF latest = "CANCELLED" THEN CronTo("check") ELSE CronEnds
    /\ mail' = IF latest = "SUCCESS" THEN order ELSE mail
    /\ UNCHANGED <<tripjack, payer, paid, money, requests, losses>>

\* Mutation: refundProcessed is not looked at.
CronCheckNothing ==
    /\ cron = "check"
    /\ IF amendmentId THEN CronTo("amendment") ELSE CronEnds
    /\ UNCHANGED <<row, tripjack, payer, paid, money, requests, mail, losses>>

\* Without an amendmentId the question that follows is rejected.
CronCheck ==
    /\ cron = "check"
    /\ IF ~refundProcessed /\ amendmentId THEN CronTo("amendment") ELSE CronEnds
    /\ UNCHANGED <<row, tripjack, payer, paid, money, requests, mail, losses>>

\* CancellationService.status again.
CronAmendment ==
    /\ cron = "amendment"
    /\ IF amendment = "SUCCESS" THEN WriteStatus("CANCELLED") ELSE UNCHANGED row
    /\ IF amendment = "SUCCESS" /\ refundable THEN CronTo("credit") ELSE CronEnds
    /\ UNCHANGED <<tripjack, payer, paid, money, requests, mail, losses>>

\* To the agent's wallet or through payment-service.
CronCredit ==
    /\ cron = "credit"
    /\ back' = back + 1
    /\ CronTo("flag")
    /\ UNCHANGED <<row, tripjack, payer, paid, ledger, debits, credits, unflagged, requests, mail, losses>>

CronFlag ==
    /\ cron = "flag"
    /\ refundProcessed' = (status # None)
    /\ CronEnds
    /\ UNCHANGED <<status, amendmentId, tripjack, payer, paid, money, requests, mail, losses>>

\* Every error of a round is swallowed, and a restart ends it as well.
CronFails ==
    /\ cron # "idle" /\ Lose
    /\ CronEnds
    /\ \/ cron = "credit" /\ back' = back + 1 /\ unflagged' = unflagged + 1
       \/ cron = "flag" /\ UNCHANGED back /\ unflagged' = unflagged + 1
       \/ cron # "flag" /\ UNCHANGED <<back, unflagged>>
    /\ UNCHANGED <<row, tripjack, payer, paid, ledger, debits, credits, requests, mail>>

\* A refresh that a request or the cron sets off and does not wait for: it, too, asks
\* TripJack (right away, or only now), which may not answer, and writes what it heard.
sendBookingEmails ==
    /\ mail # None
    /\ \/ mail' = order /\ UNCHANGED row
       \/ WriteStatus(mail) /\ mail' = None
       \/ mail' = None /\ UNCHANGED row
    /\ UNCHANGED <<tripjack, payer, paid, money, requests, job, losses>>

Step(c) ==
    \/ createInitialBooking(c) \/ updateAndBook(c) \/ payForBooking(c) \/ deductBalance(c) \/ PayRefused(c)
    \/ PayUnheard(c) \/ Book(c) \/ BookRefused(c) \/ BookUnheard(c) \/ recordOutcome(c)
    \/ refundWalletBalance(c) \/ RefundFails(c)
    \/ submit(c) \/ Amended(c) \/ releasePnr(c) \/ Released(c)
    \/ Crash(c)

Cron == CronStart \/ CronAsk \/ CronWrite \/ CronCheck \/ CronAmendment \/ CronCredit \/ CronFlag

Next ==
    \/ \E c \in Callers : Step(c)
    \/ deleteExpiredInitiatedBookings \/ CustomerPays \/ confirmBooking
    \/ AmendmentStatus \/ OrderMoves \/ AmendmentMoves
    \/ Cron \/ CronFails \/ sendBookingEmails

Spec == Init /\ [][Next]_vars

----------------------------------------------------------------------------
\* "Take it BEFORE issuing the ticket": TripJack has an order only for a booking for
\* which some wallet was debited, or whose customer paid Razorpay, whichever it needs.
TakenBeforeTicket ==
    order # None => /\ payer # "guest" => Total(debits) > 0
                    /\ payer \in {"house", "guest"} => paid

\* The wallet of a user who had nothing to do with the booking was used for it.
Mixed == debits["other"] + credits["other"] > 0

\* "Refund only what this attempt actually took": attempts that failed, retries that
\* were told isDuplicate among them, never give back more than was taken; and "to the
\* wallet it was taken from": no wallet more than it gave, unless another user's token
\* was used or a sub-company's refund went to its parent.
CreditedWhatWasTaken ==
    /\ Total(credits) <= Total(debits)
    /\ ~Mixed /\ payer # "sub" => \A w \in Wallets : credits[w] <= debits[w]

\* A booking that TripJack never took does not keep its charge once the requests are
\* over, unless something was lost on the way or another user's token was used: what
\* an admin or the house account gave is given back, to it; what a sub-company's
\* parent advanced it is given back once and not twice.  (A relationship manager's
\* refund is refused for want of a wallet, and the admin above stays debited.)
NoStrandedDebit ==
    (order = None /\ (\A c \in Callers : pc[c] = "idle") /\ losses = 0) =>
        /\ payer \in {"admin", "house", "guest"} => credits = debits
        /\ payer = "sub" => Total(credits) = Total(debits) - debits["parent"]

\* Money goes back for a cancellation once, however often the row leaves CANCELLED
\* and the cron finds it so again; and once more for each time that a refund was made
\* but could not be noted.
CancellationPaidOnce == back <= 1 + unflagged

\* And only for an order that TripJack cancelled at the customer's request.
CancellationPaidForCause ==
    back > 0 => order = "CANCELLED" /\ amendment = "SUCCESS" /\ refundable

\* "Wallet already debited for this booking; proceeding without a second charge":
\* a ticket that stands has been charged for.
TicketIsCharged ==
    order \in {"PENDING", "SUCCESS", "ON_HOLD"} /\ ~Mixed =>
        (payer = "guest" \/ Total(debits) > Total(credits))

=============================================================================
