--------------------------- MODULE FlightBookingProofs ---------------------------
(***************************************************************************)
(* Proofs about FlightBooking, for any number of requests, any payers and  *)
(* bounds, and whoever's token is used: a ticket is paid for before it is  *)
(* issued, attempts give back no more than they took, and a cancellation   *)
(* is paid once and for cause.                                             *)
(***************************************************************************)
EXTENDS FlightBooking, FiniteSetTheorems, TLAPS

-----------------------------------------------------------------------------
(* The actions, in the groups the lemmas below go through.                 *)

\* A request on its way to TripJack.
Books(c) ==
    \/ updateAndBook(c) \/ payForBooking(c) \/ deductBalance(c) \/ PayRefused(c) \/ PayUnheard(c)
    \/ Book(c) \/ BookRefused(c) \/ BookUnheard(c) \/ recordOutcome(c)
    \/ refundWalletBalance(c) \/ RefundFails(c)

\* A request that does anything else to the booking.
Changes(c) ==
    \/ createInitialBooking(c) \/ submit(c) \/ Amended(c) \/ releasePnr(c) \/ Released(c) \/ Crash(c)

\* What no request does.
Elsewhere ==
    \/ deleteExpiredInitiatedBookings \/ CustomerPays \/ confirmBooking
    \/ AmendmentStatus \/ OrderMoves \/ AmendmentMoves \/ sendBookingEmails

LEMMA NextIs ==
    Next <=> (\E c \in Callers : Books(c) \/ Changes(c)) \/ Elsewhere \/ Cron \/ CronFails
BY DEF Next, Step, Books, Changes, Elsewhere

-----------------------------------------------------------------------------
(* Counts by wallet                                                        *)

LEMMA RaisedIs ==
    ASSUME NEW f \in [Wallets -> Nat], NEW W
    PROVE  /\ Raised(f, W) \in [Wallets -> Nat]
           /\ \A w \in Wallets : Raised(f, W)[w] = f[w] + (IF w \in W THEN 1 ELSE 0)
BY DEF Raised

LEMMA TotalIs ==
    ASSUME NEW f \in [Wallets -> Nat]
    PROVE  Total(f) \in Nat /\ \A w \in Wallets : f[w] <= Total(f)
BY DEF Total, Wallets

LEMMA RaisedTotal ==
    ASSUME NEW f \in [Wallets -> Nat], NEW W
    PROVE  /\ Total(Raised(f, W)) \in Nat /\ Total(f) <= Total(Raised(f, W))
           /\ W \cap Wallets # {} => Total(f) < Total(Raised(f, W))
           /\ \A w \in Wallets : W = {w} => Total(Raised(f, W)) = Total(f) + 1
           /\ W = {} => Total(Raised(f, W)) = Total(f)
           /\ W = {"holder", "parent"} => Total(Raised(f, W)) = Total(f) + 2
<1> DEFINE g == Raised(f, W)
           one(w) == IF w \in W THEN 1 ELSE 0
<1>1. /\ g["holder"] = f["holder"] + one("holder") /\ g["parent"] = f["parent"] + one("parent")
      /\ g["house"] = f["house"] + one("house") /\ g["other"] = f["other"] + one("other")
  BY RaisedIs DEF Wallets
<1>2. f["holder"] \in Nat /\ f["parent"] \in Nat /\ f["house"] \in Nat /\ f["other"] \in Nat
  BY DEF Wallets
<1>3. Total(g) = Total(f) + one("holder") + one("parent") + one("house") + one("other")
  BY <1>1, <1>2 DEF Total
<1>4. Total(f) \in Nat
  BY TotalIs
<1> HIDE DEF g
<1> QED
  BY <1>3, <1>4 DEF Wallets, g

LEMMA TakeType ==
    ASSUME TypeOK, UNCHANGED payer, NEW W, Take(W)
    PROVE  debits' \in [Wallets -> 0..MaxDebits[payer]]
<1>1. debits \in [Wallets -> Nat] /\ MaxDebits[payer] \in Nat
  BY BoundsAssumption DEF TypeOK
<1>2. debits' \in [Wallets -> Nat]
  BY <1>1, RaisedIs DEF Take
<1>3. \A w \in Wallets : debits'[w] <= MaxDebits[payer]
  BY <1>1, <1>2, TotalIs DEF Take
<1> QED
  BY <1>1, <1>2, <1>3

LEMMA GiveType ==
    ASSUME TypeOK, NEW W, Give(W)
    PROVE  credits' \in [Wallets -> Nat]
BY RaisedIs DEF TypeOK, Give

-----------------------------------------------------------------------------
(* Types                                                                   *)

LEMMA TypeInit == Init => TypeOK
<1> SUFFICES ASSUME Init PROVE TypeOK
  OBVIOUS
<1>1. 0 \in 0..MaxDebits[payer] /\ 0 \in 0..MaxLosses
  BY BoundsAssumption DEF Init
<1> QED
  BY <1>1 DEF Init, TypeOK, Places

LEMMA TypeBooks ==
    ASSUME TypeOK, NEW c \in Callers, Books(c)
    PROVE  TypeOK'
<1> USE DEF TypeOK, Places, row, tripjack, money, requests, job, Hold, GoTo, Return, At, Lose
<1>1. CASE updateAndBook(c)
  BY <1>1 DEF updateAndBook
<1>2. CASE payForBooking(c)
  BY <1>2, BoundsAssumption DEF payForBooking, Mix
<1>6. CASE PayRefused(c)
  BY <1>6 DEF PayRefused
<1>7. CASE deductBalance(c)
  <2>1. debits' \in [Wallets -> 0..MaxDebits[payer]]
    BY <1>7, TakeType DEF deductBalance
  <2> QED
    BY <1>7, <2>1 DEF deductBalance
<1>8. CASE PayUnheard(c)
  <2>1. debits' \in [Wallets -> 0..MaxDebits[payer]] /\ losses' \in 0..MaxLosses
    BY <1>8, TakeType, BoundsAssumption DEF PayUnheard
  <2>2. ledger' \in BOOLEAN
    BY <1>8 DEF PayUnheard
  <2>3. UNCHANGED <<row, tripjack, payer, paid, credits, back, unflagged, job, mail>>
    BY <1>8 DEF PayUnheard
  <2>4. /\ pc' \in [Callers -> Places]
        /\ debited' \in [Callers -> BOOLEAN]
    BY <1>8 DEF PayUnheard
  <2> QED
    BY <2>1, <2>2, <2>3, <2>4
<1>3. CASE Book(c) \/ BookRefused(c) \/ BookUnheard(c)
  BY <1>3, BoundsAssumption DEF Book, BookRefused, BookUnheard, Accept, Orders
<1>4. CASE recordOutcome(c)
  <2>1. pc[c] \in DOMAIN Outcomes /\ Outcomes[pc[c]] \in Statuses
    BY <1>4 DEF recordOutcome, Outcomes, Statuses, Orders
  <2>2. row' = row \/ WriteStatus(Outcomes[pc[c]])
    BY <1>4 DEF recordOutcome
  <2>3. status' \in Statuses \union {None} /\ amendmentId' \in BOOLEAN /\ refundProcessed' \in BOOLEAN
    BY <2>1, <2>2 DEF WriteStatus, updateBookingStatus
  <2>4. losses' \in 0..MaxLosses /\ mail' \in Orders \union {None, "ask"}
    BY <1>4, BoundsAssumption DEF recordOutcome, Settle
  <2>5. /\ pc' \in [Callers -> Places]
        /\ debited' \in [Callers -> BOOLEAN]
    BY <1>4 DEF recordOutcome, Settle
  <2> QED
    BY <1>4, <2>3, <2>4, <2>5 DEF recordOutcome
<1>5. CASE refundWalletBalance(c)
  <2>1. credits' \in [Wallets -> Nat] /\ losses' \in 0..MaxLosses
    BY <1>5, GiveType, BoundsAssumption DEF refundWalletBalance, GiveBack, Mix
  <2> QED
    BY <1>5, <2>1 DEF refundWalletBalance
<1>9. CASE RefundFails(c)
  <2>1. credits' \in [Wallets -> Nat] /\ losses' \in 0..MaxLosses
    BY <1>9, GiveType, BoundsAssumption DEF RefundFails, GiveBack
  <2> QED
    BY <1>9, <2>1 DEF RefundFails
<1> QED
  BY <1>1, <1>2, <1>3, <1>4, <1>5, <1>6, <1>7, <1>8, <1>9 DEF Books

LEMMA TypeChanges ==
    ASSUME TypeOK, NEW c \in Callers, Changes(c)
    PROVE  TypeOK'
<1> USE DEF TypeOK, Places, row, tripjack, money, requests, job, Hold, GoTo, Return, At, Lose,
            WriteStatus, updateBookingStatus, Statuses, Orders
<1>1. CASE createInitialBooking(c)
  BY <1>1 DEF createInitialBooking
<1>2. CASE submit(c)
  <2>1. losses' \in 0..MaxLosses
    BY <1>2, BoundsAssumption DEF submit
  <2>2. amendment' = "REQUESTED" /\ UNCHANGED <<row, order, refundable, payer, paid, money, job, mail>>
    BY <1>2 DEF submit
  <2>3. /\ pc' \in [Callers -> Places]
        /\ debited' \in [Callers -> BOOLEAN]
    BY <1>2 DEF submit
  <2> QED
    BY <2>1, <2>2, <2>3
<1>3. CASE Amended(c)
  BY <1>3 DEF Amended
<1>4. CASE releasePnr(c)
  BY <1>4 DEF releasePnr
<1>5. CASE Released(c)
  BY <1>5 DEF Released
<1>6. CASE Crash(c)
  BY <1>6, BoundsAssumption DEF Crash
<1> QED
  BY <1>1, <1>2, <1>3, <1>4, <1>5, <1>6 DEF Changes

LEMMA TypeElsewhere ==
    ASSUME TypeOK, Elsewhere
    PROVE  TypeOK'
<1> USE DEF TypeOK, Places, row, tripjack, money, requests, job, WriteStatus, updateBookingStatus, Statuses, Orders
<1>1. CASE deleteExpiredInitiatedBookings
  <2>1. UNCHANGED <<tripjack, payer, paid, money, requests, job, mail, losses>>
    BY <1>1 DEF deleteExpiredInitiatedBookings
  <2>2. status' = None /\ amendmentId' \in BOOLEAN /\ refundProcessed' \in BOOLEAN
    BY <1>1 DEF deleteExpiredInitiatedBookings
  <2> QED
    BY <2>1, <2>2
<1>5. CASE CustomerPays
  BY <1>5 DEF CustomerPays
<1>2. CASE confirmBooking \/ OrderMoves
  BY <1>2 DEF confirmBooking, OrderMoves
<1>3. CASE AmendmentStatus \/ AmendmentMoves
  BY <1>3 DEF AmendmentStatus, AmendmentMoves
<1>4. CASE sendBookingEmails
  BY <1>4 DEF sendBookingEmails
<1> QED
  BY <1>1, <1>2, <1>3, <1>4, <1>5 DEF Elsewhere

LEMMA TypeCron ==
    ASSUME TypeOK, Cron \/ CronFails
    PROVE  TypeOK'
<1> USE DEF TypeOK, Places, row, tripjack, money, requests, job, CronEnds, CronTo
<1>1. CASE CronStart \/ CronAsk \/ CronCheck
  BY <1>1 DEF CronStart, CronAsk, CronCheck, Statuses
<1>2. CASE CronWrite
  BY <1>2 DEF CronWrite, WriteStatus, updateBookingStatus, Statuses
<1>3. CASE CronAmendment
  BY <1>3 DEF CronAmendment, WriteStatus, updateBookingStatus, Statuses, Orders
<1>4. CASE CronCredit
  BY <1>4 DEF CronCredit
<1>6. CASE CronFlag
  <2>1. (status # None) \in BOOLEAN
    OBVIOUS
  <2> QED
    BY <1>6, <2>1 DEF CronFlag
<1>5. CASE CronFails
  BY <1>5, BoundsAssumption DEF CronFails, Lose
<1> QED
  BY <1>1, <1>2, <1>3, <1>4, <1>5, <1>6 DEF Cron

LEMMA TypeStep ==
    ASSUME TypeOK, [Next]_vars
    PROVE  TypeOK'
<1>1. CASE UNCHANGED vars
  BY <1>1 DEF TypeOK, vars, row, tripjack, money, requests, job
<1> QED
  BY <1>1, NextIs, TypeBooks, TypeChanges, TypeElsewhere, TypeCron

\* Every variable of a flight booking keeps its type: among the rest, no status
\* is written that the row does not have, and the bounds of the model hold.
THEOREM FlightTypeCorrect == Spec => []TypeOK
BY TypeInit, TypeStep, PTL DEF Spec

-----------------------------------------------------------------------------
(* Money.  A request that holds a debit is past the debit; what is given   *)
(* back and what requests hold is together no more than what was taken,    *)
(* and no less than the charges made, as long as nothing was lost.         *)

Claims == {c \in Callers : debited[c]}

\* Where a request may hold a debit, and where it must; and what another user's token
\* takes.
Carried ==
    \A c \in Callers :
        /\ debited[c] => pc[c] \in {"book", "accepted", "refused", "unheard", "refund"}
        /\ pc[c] = "refund" => debited[c]
        /\ pc[c] = "accepted" => order # None
        /\ pc[c] = "other" => payer # "house" /\ losses > 0

\* A request on its way to TripJack has its customer's money, and from the debit
\* on some wallet's.
Funded ==
    /\ ledger => Total(debits) > 0
    /\ \A c \in Callers :
         /\ pc[c] \in {"pay", "deduct", "other", "book"} => (payer \in {"house", "guest"} => paid)
         /\ pc[c] = "book" => (payer # "guest" => Total(debits) > 0)

\* The wallets that a booking may touch.
Purses == [admin |-> {"holder", "other"}, rm |-> {"parent", "other"},
           sub |-> {"holder", "parent", "other"}, house |-> {"house"}, guest |-> {"other"}]

Separate ==
    /\ \A w \in Wallets \ Purses[payer] : debits[w] = 0 /\ credits[w] = 0
    /\ payer = "rm" => credits["parent"] = 0
    /\ Mixed => losses > 0

Account ==
    /\ Total(credits) + Cardinality(Claims) <= Total(debits)
    /\ losses = 0 /\ order = None /\ payer # "rm" =>
         Total(credits) + Cardinality(Claims) = Total(debits) - debits["parent"]

MoneyInv == TypeOK /\ Carried /\ Funded /\ Separate /\ TakenBeforeTicket /\ Account

LEMMA Counts ==
    ASSUME TypeOK
    PROVE  /\ debits \in [Wallets -> Nat] /\ credits \in [Wallets -> Nat]
           /\ Total(debits) \in Nat /\ Total(credits) \in Nat
           /\ \A w \in Wallets : debits[w] \in Nat /\ credits[w] \in Nat
           /\ payer \in {"admin", "rm", "sub", "house", "guest"}
<1>1. debits \in [Wallets -> Nat] /\ credits \in [Wallets -> Nat]
  BY BoundsAssumption DEF TypeOK
<1> QED
  BY <1>1, TotalIs, PayersAssumption DEF TypeOK

LEMMA ClaimsFinite == IsFiniteSet(Claims) /\ Cardinality(Claims) \in Nat
<1>1. Claims \subseteq Callers
  BY DEF Claims
<1>2. IsFiniteSet(Claims)
  BY <1>1, CallersAssumption, FS_Subset
<1> QED
  BY <1>2, FS_CardinalityType

LEMMA MoneyInit == Init => MoneyInv
<1> SUFFICES ASSUME Init PROVE MoneyInv
  OBVIOUS
<1>1. Claims = {}
  BY DEF Init, Claims
<1>2. \A w \in Wallets : debits[w] = 0 /\ credits[w] = 0
  BY DEF Init
<1>3. Total(debits) = 0 /\ Total(credits) = 0 /\ ~Mixed /\ debits["parent"] = 0
  BY <1>2 DEF Total, Mixed, Wallets
<1>4. Account
  BY <1>1, <1>3, FS_EmptySet DEF Account
<1>5. Separate
  BY <1>2, <1>3 DEF Separate, Wallets
<1> QED
  BY <1>4, <1>5, TypeInit DEF Init, MoneyInv, Carried, Funded, TakenBeforeTicket

\* What a step that neither books nor pays leaves as it was.
Still ==
    /\ UNCHANGED <<payer, ledger, debits, credits>>
    /\ paid => paid'
    /\ order' = None <=> order = None
    /\ losses' \in Nat /\ losses <= losses'
    /\ \A c \in Callers :
         \/ pc'[c] = pc[c] /\ debited'[c] = debited[c]
         \/ /\ pc'[c] \in {"idle", "amended", "released"} /\ ~debited'[c]
            /\ debited[c] => losses' > losses

LEMMA ChangesStill ==
    ASSUME TypeOK, Carried, NEW c \in Callers, Changes(c)
    PROVE  Still
<1> USE BoundsAssumption DEF TypeOK, Still, row, tripjack, money, requests, job, Hold, GoTo, Return, At, Lose
<1>1. CASE createInitialBooking(c)
  BY <1>1 DEF createInitialBooking
<1>2. CASE submit(c)
  BY <1>2 DEF submit, Carried
<1>3. CASE Amended(c)
  <2>1. ~debited[c]
    BY <1>3 DEF Amended, Carried
  <2>2. UNCHANGED <<payer, ledger, debits, credits, paid, order, losses>>
    BY <1>3 DEF Amended
  <2>3. \A d \in Callers : IF d = c THEN pc'[d] = "idle" /\ ~debited'[d]
                           ELSE pc'[d] = pc[d] /\ debited'[d] = debited[d]
    BY <1>3 DEF Amended
  <2> QED
    BY <2>1, <2>2, <2>3
<1>4. CASE releasePnr(c)
  BY <1>4 DEF releasePnr, Carried, None
<1>5. CASE Released(c)
  <2>1. ~debited[c]
    BY <1>5 DEF Released, Carried
  <2>2. UNCHANGED <<payer, ledger, debits, credits, paid, order, losses>>
    BY <1>5 DEF Released, WriteStatus
  <2>3. \A d \in Callers : IF d = c THEN pc'[d] = "idle" /\ ~debited'[d]
                           ELSE pc'[d] = pc[d] /\ debited'[d] = debited[d]
    BY <1>5 DEF Released
  <2> QED
    BY <2>1, <2>2, <2>3
<1>6. CASE Crash(c)
  <2>1. losses' \in Nat /\ losses' > losses
    BY <1>6 DEF Crash
  <2>2. UNCHANGED <<payer, ledger, debits, credits, paid, order>>
    BY <1>6 DEF Crash
  <2>3. \A d \in Callers : IF d = c THEN pc'[d] = "idle" /\ ~debited'[d]
                           ELSE pc'[d] = pc[d] /\ debited'[d] = debited[d]
    BY <1>6 DEF Crash
  <2> QED
    BY <2>1, <2>2, <2>3
<1> QED
  BY <1>1, <1>2, <1>3, <1>4, <1>5, <1>6 DEF Changes

LEMMA OthersStill ==
    ASSUME TypeOK, Elsewhere \/ Cron \/ CronFails
    PROVE  Still
<1> USE DEF TypeOK, Still, row, tripjack, money, requests, job
<1>1. CASE deleteExpiredInitiatedBookings \/ CustomerPays \/ AmendmentStatus \/ sendBookingEmails
  BY <1>1 DEF deleteExpiredInitiatedBookings, CustomerPays, AmendmentStatus, sendBookingEmails
<1>2. CASE confirmBooking \/ OrderMoves \/ AmendmentMoves
  BY <1>2 DEF confirmBooking, OrderMoves, AmendmentMoves, None
<1>3. CASE Cron
  BY <1>3 DEF Cron, CronStart, CronAsk, CronWrite, CronCheck, CronAmendment, CronCredit, CronFlag
<1>4. CASE CronFails
  BY <1>4 DEF CronFails, Lose
<1> QED
  BY <1>1, <1>2, <1>3, <1>4 DEF Elsewhere

LEMMA MoneyStill ==
    ASSUME MoneyInv, Still
    PROVE  (Carried /\ Funded /\ Separate /\ TakenBeforeTicket /\ Account)'
<1> USE DEF MoneyInv
<1>1. Total(debits') = Total(debits) /\ Total(credits') = Total(credits)
  BY DEF Still
<1>2. losses \in Nat /\ losses' \in Nat /\ losses <= losses'
  BY BoundsAssumption DEF Still, TypeOK
<1>3. Carried'
  BY <1>2 DEF Still, Carried
<1>4. Funded' /\ TakenBeforeTicket'
  BY <1>1 DEF Still, Funded, TakenBeforeTicket
<1>5. Separate'
  BY <1>2 DEF Still, Separate, Mixed
<1>6. Claims' \subseteq Claims
  BY DEF Still, Claims
<1>7. Cardinality(Claims') \in Nat /\ Cardinality(Claims') <= Cardinality(Claims)
  BY <1>6, ClaimsFinite, FS_Subset, FS_CardinalityType
<1>8. losses' = 0 => losses = 0 /\ Claims' = Claims
  BY <1>2 DEF Still, Claims
<1>9. Account'
  <2>1. /\ debits' = debits /\ payer' = payer /\ (order' = None <=> order = None)
    BY DEF Still
  <2> QED
    BY <1>1, <1>7, <1>8, <2>1, ClaimsFinite, Counts DEF Account
<1> QED
  BY <1>3, <1>4, <1>5, <1>9

\* A request that goes on without a change to what it holds.
LEMMA MovesOn ==
    ASSUME MoneyInv, NEW c \in Callers, NEW place \in Places, Hold(c, place, debited[c])
    PROVE  Claims' = Claims /\ \A d \in Callers \ {c} : pc'[d] = pc[d] /\ debited'[d] = debited[d]
BY DEF MoneyInv, TypeOK, Hold, Claims

\* A request that ends, and holds nothing from then on.
LEMMA Ends ==
    ASSUME MoneyInv, NEW c \in Callers, Return(c)
    PROVE  /\ Cardinality(Claims') = IF debited[c] THEN Cardinality(Claims) - 1
                                     ELSE Cardinality(Claims)
           /\ pc'[c] = "idle" /\ ~debited'[c]
           /\ \A d \in Callers \ {c} : pc'[d] = pc[d] /\ debited'[d] = debited[d]
<1> USE DEF MoneyInv, TypeOK, Return, Hold
<1>1. Claims' = Claims \ {c} /\ (debited[c] <=> c \in Claims)
  BY DEF Claims
<1>2. Cardinality(Claims') = IF debited[c] THEN Cardinality(Claims) - 1 ELSE Cardinality(Claims)
  BY <1>1, ClaimsFinite, FS_RemoveElement
<1> QED
  BY <1>2

\* A debit is of wallets that the booking may touch, and of one that is not the admin's
\* above but for a relationship manager.
LEMMA DebitStep ==
    ASSUME MoneyInv, NEW c \in Callers, pc[c] \in {"deduct", "other"},
           NEW W \in Charged(c), NEW V, V # {}, V \subseteq W, Take(V),
           UNCHANGED <<payer, credits>>, losses' \in Nat, losses <= losses'
    PROVE  /\ Total(debits') \in Nat /\ Total(debits') > Total(debits)
           /\ Separate'
           /\ V = W /\ pc[c] = "deduct" /\ payer # "rm" =>
                Total(debits') - debits'["parent"] = Total(debits) - debits["parent"] + 1
<1> USE DEF MoneyInv
<1>1. W \subseteq Purses[payer] /\ W \subseteq Wallets
  BY Counts DEF Charged, Charges, Purses, Wallets, At, Carried
<1>2. debits \in [Wallets -> Nat] /\ debits' = Raised(debits, V)
  BY Counts DEF Take
<1>3. \A w \in Wallets : debits'[w] = debits[w] + (IF w \in V THEN 1 ELSE 0)
  BY <1>2, RaisedIs
<1>4. Total(debits') \in Nat /\ Total(debits') > Total(debits)
  <2>1. V \cap Wallets # {}
    BY <1>1
  <2> QED
    BY <1>2, <2>1, RaisedTotal, TotalIs
<1>5. Separate'
  <2>1. losses \in Nat
    BY DEF TypeOK
  <2>2. \A w \in Wallets \ Purses[payer]' : debits'[w] = 0 /\ credits'[w] = 0
    BY <1>1, <1>3, Counts DEF Separate
  <2>3. Mixed' => losses' > 0
    <3>1. "other" \in V => losses > 0
      BY <1>1, Counts DEF Charged, Charges, At, Carried
    <3> QED
      BY <1>3, <2>1, <3>1, Counts DEF Mixed, Separate, Wallets
  <2> QED
    BY <2>2, <2>3 DEF Separate
<1>6. ASSUME V = W, pc[c] = "deduct", payer # "rm"
      PROVE  Total(debits') - debits'["parent"] = Total(debits) - debits["parent"] + 1
  <2>1. W \in {{"holder"}, {"house"}, {"holder", "parent"}}
    BY <1>6, Counts DEF Charged, Charges, At
  <2>2. CASE W = {"holder", "parent"}
    BY <1>2, <1>3, <1>6, <2>2, RaisedTotal, Counts DEF Wallets
  <2>3. CASE W = {"holder"} \/ W = {"house"}
    <3>1. Total(debits') = Total(debits) + 1
      BY <1>2, <1>6, <2>3, RaisedTotal DEF Wallets
    <3>2. debits'["parent"] = debits["parent"]
      BY <1>3, <1>6, <2>3, Counts DEF Wallets
    <3> QED
      BY <3>1, <3>2, Counts DEF Wallets
  <2> QED
    BY <2>1, <2>2, <2>3
<1> QED
  BY <1>4, <1>5, <1>6

\* A refund is of one charge at most, and of one but for a relationship manager.
LEMMA CreditStep ==
    ASSUME MoneyInv, UNCHANGED <<payer, debits>>, losses' \in Nat, losses <= losses',
           GiveBack \/ (payer # "house" /\ losses' > 0 /\ Give({"other"}))
    PROVE  /\ Total(credits') \in Nat /\ Total(credits') <= Total(credits) + 1
           /\ Separate'
           /\ losses' = 0 /\ payer # "rm" => Total(credits') = Total(credits) + 1
<1> USE DEF MoneyInv
<1>1. PICK W \in Refunds[payer] \union {{"other"}} :
        Give(W) /\ (W = {"other"} => payer # "house" /\ losses' > 0)
  BY Counts DEF GiveBack, Refunds
<1>2. credits \in [Wallets -> Nat] /\ credits' = Raised(credits, W)
  BY <1>1, Counts DEF Give
<1>3. \A w \in Wallets : credits'[w] = credits[w] + (IF w \in W THEN 1 ELSE 0)
  BY <1>2, RaisedIs
<1>4. (W = {} /\ payer = "rm") \/ (\E w \in Wallets : W = {w})
  BY <1>1, Counts DEF Refunds, Wallets
<1>5. /\ Total(credits') \in Nat /\ Total(credits') <= Total(credits) + 1
      /\ payer # "rm" => Total(credits') = Total(credits) + 1
  BY <1>2, <1>4, RaisedTotal, TotalIs
<1>6. W \subseteq Purses[payer] /\ (payer = "rm" => "parent" \notin W)
  BY <1>1, Counts DEF Refunds, Purses
<1>7. Separate'
  <2>1. \A w \in Wallets \ Purses[payer]' : debits'[w] = 0 /\ credits'[w] = 0
    BY <1>3, <1>6, Counts DEF Separate
  <2>2. Mixed' => losses' > 0
    <3>1. losses \in Nat
      BY DEF TypeOK
    <3>2. CASE W = {"other"}
      BY <1>1, <3>2
    <3>3. CASE W # {"other"}
      <4>1. "other" \notin W
        BY <1>1, <3>3, Counts DEF Refunds
      <4> QED
        BY <1>3, <3>1, <4>1, Counts DEF Mixed, Separate, Wallets
    <3> QED
      BY <3>2, <3>3
  <2>3. payer' = "rm" => credits'["parent"] = 0
    BY <1>3, <1>6, Counts DEF Separate, Wallets
  <2> QED
    BY <2>1, <2>2, <2>3 DEF Separate
<1> QED
  BY <1>5, <1>7

LEMMA MoneyBooks ==
    ASSUME MoneyInv, NEW c \in Callers, Books(c)
    PROVE  (Carried /\ Funded /\ Separate /\ TakenBeforeTicket /\ Account)'
<1> USE ClaimsFinite, Counts DEF MoneyInv, row, tripjack, money, job, At, GoTo
<1> losses \in Nat /\ pc \in [Callers -> Places] /\ debited \in [Callers -> BOOLEAN]
  BY DEF TypeOK
<1>1. CASE updateAndBook(c)
  <2>1. Hold(c, IF payer = "guest" THEN "book" ELSE "pay", debited[c])
    BY <1>1 DEF updateAndBook
  <2>2. Claims' = Claims /\ \A d \in Callers \ {c} : pc'[d] = pc[d] /\ debited'[d] = debited[d]
    BY <2>1, MovesOn DEF Places
  <2>3. /\ pc'[c] \in {"pay", "book"} /\ (pc'[c] = "book" => payer = "guest")
        /\ ~debited[c] /\ debited'[c] = debited[c]
    BY <1>1, <2>1 DEF Hold, updateAndBook, Carried
  <2>4. UNCHANGED <<order, payer, paid, ledger, debits, credits, losses>>
    BY <1>1 DEF updateAndBook
  <2>5. Total(debits') = Total(debits) /\ Total(credits') = Total(credits) /\ Mixed' = Mixed
    BY <2>4 DEF Mixed
  <2>6. payer \in {"house", "guest"} => paid
    BY <1>1 DEF updateAndBook
  <2> QED
    BY <2>2, <2>3, <2>4, <2>5, <2>6 DEF Carried, Funded, Separate, TakenBeforeTicket, Account
<1>2. CASE payForBooking(c)
  <2>1. PICK place \in {"deduct", "book", "other"} :
          /\ Hold(c, place, debited[c])
          /\ place = "book" => ledger
          /\ losses' \in Nat /\ losses <= losses'
          /\ place = "other" => payer # "house" /\ losses' > 0
    BY <1>2 DEF payForBooking, Mix, Lose
  <2>2. Claims' = Claims /\ \A d \in Callers \ {c} : pc'[d] = pc[d] /\ debited'[d] = debited[d]
    BY <2>1, MovesOn DEF Places
  <2>3. pc[c] = "pay" /\ pc'[c] = place /\ ~debited[c] /\ debited'[c] = debited[c]
    BY <1>2, <2>1 DEF Hold, payForBooking, Carried
  <2>4. UNCHANGED <<order, payer, paid, ledger, debits, credits>>
    BY <1>2 DEF payForBooking
  <2>5. Total(debits') = Total(debits) /\ Total(credits') = Total(credits) /\ Mixed' = Mixed
    BY <2>4 DEF Mixed
  <2> QED
    BY <2>1, <2>2, <2>3, <2>4, <2>5 DEF Carried, Funded, Separate, TakenBeforeTicket, Account
<1>3. CASE deductBalance(c)
  <2>1. ~debited[c] /\ Claims' = Claims \union {c} /\ c \notin Claims
    BY <1>3 DEF deductBalance, Carried, Hold, Claims
  <2>2. Cardinality(Claims') = Cardinality(Claims) + 1
    BY <2>1, FS_AddElement
  <2>3. /\ pc'[c] = "book" /\ pc[c] \in {"deduct", "other"}
        /\ \A d \in Callers \ {c} : pc'[d] = pc[d] /\ debited'[d] = debited[d]
    BY <1>3 DEF deductBalance, Hold
  <2>4. ledger' /\ UNCHANGED <<order, payer, paid, credits, losses>>
    BY <1>3 DEF deductBalance
  <2>5. PICK W \in Charged(c) : Take(W)
    BY <1>3 DEF deductBalance
  <2>6. W # {}
    <3>1. Charged(c) = {{"other"}} \/ Charged(c) = Charges[payer]
      BY DEF Charged
    <3>2. /\ payer \in {"admin", "rm", "sub", "house", "guest"}
          /\ \A X \in Charges[payer] : "holder" \in X \/ "parent" \in X \/ "house" \in X
      BY DEF Charges
    <3> QED
      BY <2>5, <3>1, <3>2
  <2>7. /\ Total(debits') \in Nat /\ Total(debits') > Total(debits) /\ Separate'
        /\ pc[c] = "deduct" /\ payer # "rm" =>
             Total(debits') - debits'["parent"] = Total(debits) - debits["parent"] + 1
    BY <2>3, <2>4, <2>5, <2>6, DebitStep
  <2>8. pc[c] = "other" => losses > 0
    BY DEF Carried
  <2>9. Account'
    BY <2>2, <2>3, <2>4, <2>7, <2>8 DEF Account, Wallets
  <2> QED
    BY <2>3, <2>4, <2>7, <2>9 DEF Carried, Funded, TakenBeforeTicket
<1>4. CASE PayRefused(c)
  <2>1. Return(c) /\ ~debited[c] /\ UNCHANGED <<order, payer, paid, ledger, debits, credits, losses>>
    BY <1>4 DEF PayRefused, Carried
  <2>2. Total(debits') = Total(debits) /\ Total(credits') = Total(credits) /\ Mixed' = Mixed
    BY <2>1 DEF Mixed
  <2> QED
    BY <2>1, <2>2, Ends DEF Carried, Funded, Separate, TakenBeforeTicket, Account
<1>5. CASE PayUnheard(c)
  <2>1. Return(c) /\ ~debited[c] /\ UNCHANGED <<order, payer, paid, credits>>
    BY <1>5 DEF PayUnheard, Carried
  <2>2. losses' = losses + 1 /\ ledger' \in {ledger, TRUE} /\ pc[c] \in {"deduct", "other"}
    BY <1>5 DEF PayUnheard, Lose
  <2>3. PICK W \in Charged(c), V \in SUBSET Wallets : V # {} /\ V \subseteq W /\ Take(V)
    BY <1>5 DEF PayUnheard
  <2>4. Total(debits') \in Nat /\ Total(debits') > Total(debits) /\ Separate'
    BY <2>1, <2>2, <2>3, DebitStep
  <2> QED
    BY <2>1, <2>2, <2>4, Ends DEF Carried, Funded, TakenBeforeTicket, Account
<1>6. CASE Book(c) \/ BookRefused(c) \/ BookUnheard(c)
  <2>1. PICK place \in {"accepted", "refused", "unheard"} :
          /\ pc[c] = "book" /\ Hold(c, place, debited[c])
          /\ UNCHANGED <<payer, paid, ledger, debits, credits>>
          /\ losses' \in {losses, losses + 1}
          /\ place = "accepted" => order' # None
          /\ order # None => order' # None
    BY <1>6 DEF Book, BookRefused, BookUnheard, Accept, Lose, None
  <2>2. Claims' = Claims /\ \A d \in Callers \ {c} : pc'[d] = pc[d] /\ debited'[d] = debited[d]
    BY <2>1, MovesOn DEF Places
  <2>3. pc'[c] = place /\ debited'[c] = debited[c]
    BY <2>1 DEF Hold
  <2>4. Total(debits') = Total(debits) /\ Total(credits') = Total(credits) /\ Mixed' = Mixed
    BY <2>1 DEF Mixed
  <2> QED
    BY <2>1, <2>2, <2>3, <2>4 DEF Carried, Funded, Separate, TakenBeforeTicket, Account
<1>7. CASE recordOutcome(c)
  <2>1. /\ UNCHANGED <<order, payer, paid, ledger, debits, credits>>
        /\ losses' \in {losses, losses + 1}
    BY <1>7 DEF recordOutcome, Lose
  <2>2. pc[c] \in {"accepted", "refused", "unheard"}
    BY <1>7 DEF recordOutcome, Outcomes
  <2>3. Total(debits') = Total(debits) /\ Total(credits') = Total(credits) /\ Mixed' = Mixed
    BY <2>1 DEF Mixed
  <2>4. CASE Return(c) /\ (debited[c] => order # None)
    BY <2>1, <2>3, <2>4, Ends DEF Carried, Funded, Separate, TakenBeforeTicket, Account
  <2>5. CASE Hold(c, "refund", debited[c]) /\ debited[c]
    <3>1. Claims' = Claims /\ \A d \in Callers \ {c} : pc'[d] = pc[d] /\ debited'[d] = debited[d]
      BY <2>5, MovesOn DEF Places
    <3>2. pc'[c] = "refund" /\ debited'[c] = debited[c]
      BY <2>5 DEF Hold
    <3>6. losses > 0 => losses' > 0
      BY <2>1
    <3>3. Carried'
      <4>1. ASSUME NEW d \in Callers
            PROVE  /\ debited'[d] => pc'[d] \in {"book", "accepted", "refused", "unheard", "refund"}
                   /\ pc'[d] = "refund" => debited'[d]
                   /\ pc'[d] = "accepted" => order' # None
                   /\ pc'[d] = "other" => payer' # "house" /\ losses' > 0
        <5>1. CASE d = c
          BY <2>5, <3>2, <5>1
        <5>2. CASE d # c
          <6>1. pc'[d] = pc[d] /\ debited'[d] = debited[d]
            BY <3>1, <5>2
          <6>2. order' = order /\ payer' = payer
            BY <2>1
          <6> QED
            BY <3>6, <6>1, <6>2 DEF Carried
        <5> QED
          BY <5>1, <5>2
      <4> QED
        BY <4>1 DEF Carried
    <3>5. Funded'
      BY <2>1, <2>3, <3>1, <3>2 DEF Funded
    <3>4. Separate' /\ TakenBeforeTicket' /\ Account'
      BY <2>1, <2>3, <3>1 DEF Separate, TakenBeforeTicket, Account
    <3> QED
      BY <3>3, <3>4, <3>5
  <2> QED
    BY <1>7, <2>2, <2>4, <2>5 DEF recordOutcome, Settle, Carried
<1>8. CASE refundWalletBalance(c) \/ RefundFails(c)
  <2>1. /\ Return(c) /\ debited[c] /\ UNCHANGED <<order, payer, paid, ledger, debits>>
        /\ losses' \in {losses, losses + 1}
    BY <1>8 DEF refundWalletBalance, RefundFails, Carried, Mix, Lose
  <2>2. CASE GiveBack \/ (payer # "house" /\ losses' > 0 /\ Give({"other"}))
    <3>1. /\ Total(credits') \in Nat /\ Total(credits') <= Total(credits) + 1
          /\ Separate'
          /\ losses' = 0 /\ payer # "rm" => Total(credits') = Total(credits) + 1
      BY <2>1, <2>2, CreditStep
    <3>2. Account'
      BY <2>1, <3>1, Ends DEF Account
    <3> QED
      BY <2>1, <3>1, <3>2, Ends DEF Carried, Funded, TakenBeforeTicket
  <2>3. CASE credits' = credits /\ losses' > 0
    <3>1. Total(debits') = Total(debits) /\ Total(credits') = Total(credits) /\ Mixed' = Mixed
      BY <2>1, <2>3 DEF Mixed
    <3> QED
      BY <2>1, <2>3, <3>1, Ends DEF Carried, Funded, Separate, TakenBeforeTicket, Account
  <2> QED
    BY <1>8, <2>2, <2>3 DEF refundWalletBalance, RefundFails, Mix, Lose
<1> QED
  BY <1>1, <1>2, <1>3, <1>4, <1>5, <1>6, <1>7, <1>8 DEF Books

LEMMA MoneyStep ==
    ASSUME MoneyInv, [Next]_vars
    PROVE  MoneyInv'
<1> USE DEF MoneyInv
<1>1. TypeOK'
  BY TypeStep
<1>2. CASE UNCHANGED vars
  <2>1. Total(debits') = Total(debits) /\ Total(credits') = Total(credits) /\ Mixed' = Mixed
    BY <1>2 DEF vars, money, Mixed
  <2> QED
    BY <1>2, <1>1, <2>1 DEF vars, row, tripjack, money, requests, job, Carried, Funded, Separate,
       TakenBeforeTicket, Account, Claims
<1> QED
  BY <1>1, <1>2, NextIs, MoneyBooks, ChangesStill, OthersStill, MoneyStill

\* TripJack has an order only for a booking for which some wallet was debited, or whose
\* customer paid, whichever it needs: however many requests try, are told that it is
\* paid already, or die (updateAndBook).
THEOREM TicketIsFunded == Spec => []TakenBeforeTicket
<1>1. MoneyInv => TakenBeforeTicket
  BY DEF MoneyInv
<1> QED
  BY <1>1, MoneyInit, MoneyStep, PTL DEF Spec

\* Attempts that failed never give back more than was taken, whatever the number of
\* retries, refusals and lost answers, and whoever's token is used; nor any wallet more
\* than it gave, but for another user's token and a sub-company's parent
\* (refundWalletBalance, handleRMPayment, handleSubCompanyPayment).
THEOREM CreditsCovered == Spec => []CreditedWhatWasTaken
<1>1. MoneyInv => CreditedWhatWasTaken
  <2> SUFFICES ASSUME MoneyInv PROVE CreditedWhatWasTaken
    OBVIOUS
  <2> USE Counts DEF MoneyInv
  <2>1. Total(credits) <= Total(debits)
    BY ClaimsFinite DEF Account
  <2>2. ASSUME ~Mixed, payer # "sub", NEW w \in Wallets
        PROVE  credits[w] <= debits[w]
    <3>1. \A v \in Wallets \ {"holder", "house"} : credits[v] = 0
      <4>1. credits["other"] = 0
        BY <2>2 DEF Mixed, Wallets
      <4>2. credits["parent"] = 0
        BY <2>2 DEF Separate, Purses, Wallets
      <4> QED
        BY <4>1, <4>2 DEF Wallets
    <3>2. CASE payer = "admin"
      <4>1. /\ credits["house"] = 0 /\ debits["house"] = 0 /\ debits["parent"] = 0
            /\ debits["other"] = 0
        BY <2>2, <3>2 DEF Separate, Purses, Wallets, Mixed
      <4>2. credits["holder"] <= debits["holder"]
        BY <2>1, <3>1, <4>1 DEF Total, Wallets
      <4> QED
        BY <3>1, <4>1, <4>2 DEF Wallets
    <3>3. CASE payer = "house"
      <4>1. /\ credits["holder"] = 0 /\ debits["holder"] = 0 /\ debits["parent"] = 0
            /\ debits["other"] = 0
        BY <3>3 DEF Separate, Purses, Wallets
      <4>2. credits["house"] <= debits["house"]
        BY <2>1, <3>1, <4>1 DEF Total, Wallets
      <4> QED
        BY <3>1, <4>1, <4>2 DEF Wallets
    <3>4. CASE payer \in {"rm", "guest"}
      <4>1. credits["holder"] = 0 /\ credits["house"] = 0
        BY <3>4 DEF Separate, Purses, Wallets
      <4> QED
        BY <3>1, <4>1 DEF Wallets
    <3> QED
      BY <2>2, <3>2, <3>3, <3>4
  <2> QED
    BY <2>1, <2>2 DEF CreditedWhatWasTaken
<1> QED
  BY <1>1, MoneyInit, MoneyStep, PTL DEF Spec

\* A booking that TripJack never took keeps no charge once its requests are over,
\* unless something was lost or another user's token was used: an admin and the house
\* account get theirs back; of a sub-company's, what its parent advanced stays taken
\* (updateAndBook's catch block, handleSubCompanyPayment).
THEOREM DebitsReturned == Spec => []NoStrandedDebit
<1>1. MoneyInv => NoStrandedDebit
  <2> SUFFICES ASSUME MoneyInv, order = None, \A c \in Callers : pc[c] = "idle", losses = 0
               PROVE  /\ payer \in {"admin", "house", "guest"} => credits = debits
                      /\ payer = "sub" => Total(credits) = Total(debits) - debits["parent"]
    BY DEF NoStrandedDebit
  <2> USE Counts DEF MoneyInv
  <2>1. Claims = {}
    BY DEF Carried, Claims
  <2>2. payer # "rm" => Total(credits) = Total(debits) - debits["parent"]
    BY <2>1, FS_EmptySet DEF Account, Wallets
  <2>3. ~Mixed
    BY DEF Separate
  <2>4. debits["other"] = 0 /\ credits["other"] = 0
    BY <2>3 DEF Mixed, Wallets
  <2>5. ASSUME payer \in {"admin", "house", "guest"}
        PROVE  credits = debits
    <3>1. debits["parent"] = 0 /\ credits["parent"] = 0
      BY <2>5 DEF Separate, Purses, Wallets
    <3>2. /\ payer # "admin" => debits["holder"] = 0 /\ credits["holder"] = 0
          /\ payer # "house" => debits["house"] = 0 /\ credits["house"] = 0
      BY <2>5 DEF Separate, Purses, Wallets
    <3>3. credits["holder"] = debits["holder"] /\ credits["house"] = debits["house"]
      BY <2>2, <2>4, <2>5, <3>1, <3>2 DEF Total, Wallets
    <3>4. \A w \in Wallets : credits[w] = debits[w]
      BY <2>4, <3>1, <3>3 DEF Wallets
    <3> QED
      BY <3>4
  <2> QED
    BY <2>2, <2>5
<1> QED
  BY <1>1, MoneyInit, MoneyStep, PTL DEF Spec

-----------------------------------------------------------------------------
(* Cancellations.  There is one amendment, and one request that notes it;  *)
(* money given back is noted in the row, or about to be, or the row has    *)
(* lost the amendment for good.                                            *)

Credits == {"amendment", "credit", "flag"}

\* What the cron goes on from is still so.
Known ==
    /\ cron = "write" => latest # None
    /\ cron = "write" /\ latest = "CANCELLED" => order = "CANCELLED"
    /\ cron \in {"check", "amendment", "credit"} => order = "CANCELLED"
    /\ cron = "credit" => amendment = "SUCCESS" /\ refundable
    /\ CancellationPaidForCause

\* The amendment is noted once, and nothing is paid before.
NotedOnce ==
    /\ \A c \in Callers :
         pc[c] = "amended" => amendment # None /\ ~amendmentId /\ back = 0 /\ cron \notin Credits
    /\ \A c, d \in Callers : pc[c] = "amended" /\ pc[d] = "amended" => c = d
    /\ amendmentId \/ back > 0 \/ cron \in Credits => amendment # None
    /\ status = None => ~amendmentId

Flagged ==
    /\ CancellationPaidOnce
    /\ back > unflagged => refundProcessed \/ cron = "flag" \/ ~amendmentId
    /\ cron \in {"amendment", "credit"} => back <= unflagged

CancelInv == TypeOK /\ Known /\ NotedOnce /\ Flagged

LEMMA CancelInit == Init => CancelInv
<1> SUFFICES ASSUME Init PROVE CancelInv
  OBVIOUS
<1> QED
  BY TypeInit DEF Init, CancelInv, Known, NotedOnce, Flagged, Credits, None,
     CancellationPaidOnce, CancellationPaidForCause

\* A step that has nothing to do with the cancellation's money.
Apart ==
    /\ UNCHANGED <<amendmentId, refundProcessed, cron, latest, back, unflagged>>
    /\ status' = None => status = None
    /\ order = "CANCELLED" => order' = "CANCELLED"
    /\ amendment # None => amendment' # None
    /\ amendment = "SUCCESS" /\ refundable => amendment' = "SUCCESS" /\ refundable'
    /\ \A c \in Callers : pc'[c] = "amended" => pc[c] = "amended"

LEMMA BooksApart ==
    ASSUME TypeOK, NEW c \in Callers, Books(c)
    PROVE  Apart
<1> USE DEF TypeOK, Apart, row, tripjack, money, requests, job, Hold, GoTo, Return, At
<1>1. CASE updateAndBook(c) \/ payForBooking(c) \/ PayRefused(c)
  BY <1>1 DEF updateAndBook, payForBooking, PayRefused
<1>2. CASE deductBalance(c) \/ PayUnheard(c)
  BY <1>2 DEF deductBalance, PayUnheard
<1>3. CASE Book(c) \/ BookRefused(c) \/ BookUnheard(c)
  BY <1>3 DEF Book, BookRefused, BookUnheard, Accept, None
<1>4. CASE recordOutcome(c)
  <2>1. pc[c] \in DOMAIN Outcomes /\ Outcomes[pc[c]] # None
    BY <1>4 DEF recordOutcome, Outcomes, None
  <2>2. row' = row \/ WriteStatus(Outcomes[pc[c]])
    BY <1>4 DEF recordOutcome
  <2>3. UNCHANGED <<amendmentId, refundProcessed>> /\ (status' = None => status = None)
    BY <2>1, <2>2 DEF WriteStatus, updateBookingStatus
  <2>4. \A d \in Callers : pc'[d] = "amended" => pc[d] = "amended"
    BY <1>4 DEF recordOutcome, Settle
  <2> QED
    BY <1>4, <2>3, <2>4 DEF recordOutcome
<1>5. CASE refundWalletBalance(c) \/ RefundFails(c)
  BY <1>5 DEF refundWalletBalance, RefundFails
<1> QED
  BY <1>1, <1>2, <1>3, <1>4, <1>5 DEF Books

LEMMA ChangesApart ==
    ASSUME TypeOK, NEW c \in Callers,
           createInitialBooking(c) \/ releasePnr(c) \/ Released(c) \/ Crash(c)
    PROVE  Apart
<1> USE DEF TypeOK, Apart, row, tripjack, money, requests, job, Hold, GoTo, Return, At
<1>1. CASE createInitialBooking(c)
  BY <1>1 DEF createInitialBooking, None
<1>2. CASE releasePnr(c)
  BY <1>2 DEF releasePnr
<1>3. CASE Released(c)
  BY <1>3 DEF Released, WriteStatus, updateBookingStatus, None
<1>4. CASE Crash(c)
  BY <1>4 DEF Crash
<1> QED
  BY <1>1, <1>2, <1>3, <1>4

LEMMA OthersApart ==
    ASSUME TypeOK,
           CustomerPays \/ confirmBooking \/ AmendmentStatus \/ OrderMoves \/ AmendmentMoves
             \/ sendBookingEmails
    PROVE  Apart
<1> USE DEF TypeOK, Apart, row, tripjack, money, requests, job, WriteStatus, updateBookingStatus, None
<1>1. CASE CustomerPays \/ confirmBooking \/ OrderMoves
  BY <1>1 DEF CustomerPays, confirmBooking, OrderMoves
<1>2. CASE AmendmentStatus \/ AmendmentMoves
  BY <1>2 DEF AmendmentStatus, AmendmentMoves
<1>3. CASE sendBookingEmails
  BY <1>3 DEF sendBookingEmails, Orders
<1> QED
  BY <1>1, <1>2, <1>3

LEMMA CancelApart ==
    ASSUME CancelInv, Apart
    PROVE  (Known /\ NotedOnce /\ Flagged)'
<1> USE DEF CancelInv, Apart
<1>1. Known'
  BY DEF Known, CancellationPaidForCause
<1>2. NotedOnce'
  BY DEF NotedOnce
<1>3. Flagged'
  BY DEF Flagged, CancellationPaidOnce
<1> QED
  BY <1>1, <1>2, <1>3

LEMMA CancelRequests ==
    ASSUME CancelInv, NEW c \in Callers, submit(c) \/ Amended(c)
    PROVE  (Known /\ NotedOnce /\ Flagged)'
<1> USE DEF CancelInv, TypeOK, row, tripjack, money, requests, job, Hold, GoTo, Return, At
<1>1. CASE submit(c)
  <2>1. amendment = None /\ amendment' = "REQUESTED" /\ ~amendmentId /\ back = 0 /\ cron \notin Credits
    BY <1>1 DEF submit, NotedOnce
  <2>2. UNCHANGED <<row, order, refundable, cron, latest, back, unflagged>>
    BY <1>1 DEF submit
  <2>3. \A d \in Callers : pc'[d] = "amended" => d = c
    BY <1>1, <2>1 DEF submit, NotedOnce
  <2>4. Known'
    BY <2>1, <2>2 DEF Known, CancellationPaidForCause, Credits
  <2>5. NotedOnce'
    BY <2>1, <2>2, <2>3 DEF NotedOnce, None
  <2>6. Flagged'
    BY <2>2 DEF Flagged, CancellationPaidOnce
  <2> QED
    BY <2>4, <2>5, <2>6
<1>2. CASE Amended(c)
  <2>1. amendment # None /\ ~amendmentId /\ back = 0 /\ cron \notin Credits
    BY <1>2 DEF Amended, NotedOnce
  <2>2. UNCHANGED <<order, amendment, refundable, cron, latest, back, unflagged, refundProcessed>>
    BY <1>2 DEF Amended
  <2>3. \A d \in Callers : pc'[d] # "amended"
    BY <1>2 DEF Amended, NotedOnce
  <2>4. amendmentId' => status' # None
    BY <1>2 DEF Amended, updateBookingStatus, None
  <2>5. Known'
    BY <2>2 DEF Known, CancellationPaidForCause
  <2>6. NotedOnce'
    BY <2>1, <2>2, <2>3, <2>4 DEF NotedOnce
  <2>7. Flagged'
    BY <2>1, <2>2 DEF Flagged, CancellationPaidOnce, Credits
  <2> QED
    BY <2>5, <2>6, <2>7
<1> QED
  BY <1>1, <1>2

LEMMA CancelCron ==
    ASSUME CancelInv, Cron \/ CronFails \/ deleteExpiredInitiatedBookings
    PROVE  (Known /\ NotedOnce /\ Flagged)'
<1> USE DEF CancelInv, TypeOK, row, tripjack, money, requests, job, CronEnds, CronTo,
            Known, CancellationPaidForCause, NotedOnce, Flagged, CancellationPaidOnce, Credits
<1>1. CASE deleteExpiredInitiatedBookings
  BY <1>1 DEF deleteExpiredInitiatedBookings
<1>2. CASE CronStart
  BY <1>2 DEF CronStart
<1>3. CASE CronAsk
  BY <1>3 DEF CronAsk
<1>4. CASE CronWrite
  BY <1>4 DEF CronWrite, WriteStatus, updateBookingStatus
<1>5. CASE CronCheck
  BY <1>5 DEF CronCheck
<1>6. CASE CronAmendment
  BY <1>6 DEF CronAmendment, WriteStatus, updateBookingStatus, None
<1>7. CASE CronCredit
  BY <1>7 DEF CronCredit
<1>8. CASE CronFlag
  BY <1>8 DEF CronFlag
<1>9. CASE CronFails
  BY <1>9 DEF CronFails
<1> QED
  BY <1>1, <1>2, <1>3, <1>4, <1>5, <1>6, <1>7, <1>8, <1>9 DEF Cron

LEMMA CancelStep ==
    ASSUME CancelInv, [Next]_vars
    PROVE  CancelInv'
<1> USE DEF CancelInv
<1>1. TypeOK'
  BY TypeStep
<1>2. CASE UNCHANGED vars
  <2>1. Apart
    BY <1>2 DEF vars, row, tripjack, money, requests, job, Apart
  <2> QED
    BY <1>1, <2>1, CancelApart
<1>3. CASE \E c \in Callers : Books(c) \/ Changes(c)
  BY <1>1, <1>3, BooksApart, ChangesApart, CancelApart, CancelRequests DEF Changes
<1>4. CASE Elsewhere \/ Cron \/ CronFails
  BY <1>1, <1>4, OthersApart, CancelApart, CancelCron DEF Elsewhere
<1> QED
  BY <1>2, <1>3, <1>4, NextIs

\* A cancellation is paid once, and once more for each time it was paid and could
\* not be noted: however often the row leaves CANCELLED, is deleted or begun anew,
\* the cron finds the flag, or no amendment (checkAndUpdateBookingStatus).
THEOREM CancelledPaidOnce == Spec => []CancellationPaidOnce
<1>1. CancelInv => CancellationPaidOnce
  BY DEF CancelInv, Flagged
<1> QED
  BY <1>1, CancelInit, CancelStep, PTL DEF Spec

\* A cancellation is paid only for an order that TripJack cancelled, with money to
\* give back, because it was asked to (checkAndUpdateBookingStatus).
THEOREM CancelledPaidForCause == Spec => []CancellationPaidForCause
<1>1. CancelInv => CancellationPaidForCause
  BY DEF CancelInv, Known
<1> QED
  BY <1>1, CancelInit, CancelStep, PTL DEF Spec

=============================================================================
