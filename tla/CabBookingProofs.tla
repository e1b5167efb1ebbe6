--------------------------- MODULE CabBookingProofs ---------------------------
(***************************************************************************)
(* Proofs about CabBooking, for any number of requests, sweeps and         *)
(* cancellations, any price, refunds and bounds: its types, that the payer *)
(* is refunded at most once more than something was lost, that nobody is   *)
(* given money for a booking that was never charged, unless the worker     *)
(* gave up on it, that one ride stands under a key, and that a booking     *)
(* called FAILED gives its charge back.                                    *)
(***************************************************************************)
EXTENDS CabBooking, FiniteSetTheorems, TLAPS

-----------------------------------------------------------------------------
(* The invariant.                                                          *)

\* TypeOK without the processes.
DataOK ==
    /\ status \in Statuses \union {None} /\ ref \in Requests \union {None}
    /\ refund \in Refunds /\ age \in 0..2
    /\ locking \in BOOLEAN /\ lock \in Requests \union {None}
    /\ ride \in [Requests -> {None, "PENDING", "CONFIRMED", "FAILED", "CANCELLED"}]
    /\ charged \subseteq Requests /\ returned \in Nat /\ payments \in Nat
    /\ losses \in 0..MaxLosses
    /\ reused \in BOOLEAN /\ lapsed \in BOOLEAN /\ waived \in BOOLEAN /\ retried \in BOOLEAN

UnverifiedOK == unverified \subseteq Requests

ProcsOK == pc \in [Procs -> Places] /\ loc \in [Procs -> Locals]

Cause == charged # {} \/ waived

\* Places on the way to a ride or to money.
Needy == {"commit", "settle", "zero", "claim", "pay", "complete", "fail"}

\* A cancellation knows its ride.
Fit(l, place) == place = "cancel" => l.ref \in Requests

\* Whatever points to money goes back to a charge.
Owed ==
    /\ \A r \in Requests : ride[r] # None => Cause
    /\ \A p \in Procs : Fit(loc[p], pc[p]) /\ (pc[p] \in Needy => Cause)
    /\ refund.status # None => Cause
    /\ returned > 0 => Cause

Giving == {"pay", "complete", "fail"}
Bearing == {"pay", "fail"}

\* Those that may still pay, or have paid and will say that they did not.
Bearers == {p \in Procs : pc[p] \in Bearing}

\* Whether a claim would be granted, or would be in time if nobody else moves.
Admits ==
    \/ refund.status \in {None, "FAILED"}
    \/ refund.status = "PROCESSING" /\ (refund.stale \/ ~\E p \in Procs : pc[p] \in Giving)

\* Every payment made, every one that may come and the claim that may be granted
\* are covered by the first payment and by what was lost.
Budget ==
    payments + Cardinality(Bearers) + (IF Admits THEN 1 ELSE 0) <= 1 + losses

CabInv == DataOK /\ ProcsOK /\ Owed /\ Budget

LEMMA TypesTogether == DataOK /\ ProcsOK /\ UnverifiedOK => TypeOK
BY DEF DataOK, UnverifiedOK, ProcsOK, TypeOK

-----------------------------------------------------------------------------
(* A step of one process.                                                  *)

LEMMA GoMoves ==
    ASSUME ProcsOK, NEW p \in Procs, NEW l \in Locals, NEW place \in Places, Go(p, l, place)
    PROVE  /\ ProcsOK' /\ pc'[p] = place /\ loc'[p] = l
           /\ \A q \in Procs : q # p => pc'[q] = pc[q] /\ loc'[q] = loc[q]
BY DEF ProcsOK, Go

LEMMA BearersFinite == IsFiniteSet(Bearers) /\ Cardinality(Bearers) \in Nat
<1>1. IsFiniteSet(Procs)
  BY RequestsAssumption, FS_Union DEF Procs
<1> QED BY <1>1, FS_Subset, FS_CardinalityType DEF Bearers

LEMMA BearersFinitePrimed == IsFiniteSet(Bearers') /\ Cardinality(Bearers') \in Nat
<1>1. IsFiniteSet(Procs)
  BY RequestsAssumption, FS_Union DEF Procs
<1>2. Bearers' \in SUBSET Procs
  BY DEF Bearers
<1> QED BY <1>1, <1>2, FS_Subset, FS_CardinalityType

\* A process that begins to owe a payment, or owes it no more.
LEMMA BearerMoves ==
    ASSUME NEW p \in Procs, \A q \in Procs : q # p => pc'[q] = pc[q]
    PROVE  Cardinality(Bearers') - Cardinality(Bearers) =
             (IF pc'[p] \in Bearing THEN 1 ELSE 0) - (IF pc[p] \in Bearing THEN 1 ELSE 0)
<1>1. CASE (pc'[p] \in Bearing) = (pc[p] \in Bearing)
  <2>1. Bearers' = Bearers
    BY <1>1 DEF Bearers
  <2> QED BY <1>1, <2>1, BearersFinite
<1>2. CASE pc'[p] \in Bearing /\ pc[p] \notin Bearing
  <2>1. Bearers' = Bearers \union {p} /\ p \notin Bearers
    BY <1>2 DEF Bearers
  <2>2. Cardinality(Bearers') = Cardinality(Bearers) + 1
    BY <2>1, BearersFinite, FS_AddElement
  <2> QED BY <1>2, <2>2, BearersFinite
<1>3. CASE pc'[p] \notin Bearing /\ pc[p] \in Bearing
  <2>1. Bearers' = Bearers \ {p} /\ p \in Bearers
    BY <1>3 DEF Bearers
  <2>2. Cardinality(Bearers') = Cardinality(Bearers) - 1
    BY <2>1, BearersFinite, FS_RemoveElement
  <2> QED BY <1>3, <2>2, BearersFinite
<1> QED BY <1>1, <1>2, <1>3

\* What no step undoes.
Onward ==
    /\ losses' \in Nat /\ losses <= losses'
    /\ charged \subseteq charged' /\ (waived => waived')
    /\ \A r \in Requests : ride'[r] # None => ride[r] # None \/ Cause'

\* A step of p that neither claims nor pays, and leaves it well placed.
Calm(p) ==
    /\ \E l \in Locals, place \in Places \ Giving :
          Go(p, l, place) /\ Fit(l, place) /\ (place \in Needy => Cause')
    /\ Onward /\ payments' = payments /\ returned' = returned

\* The document's refund is as it was, or is over.
Settles ==
    refund' = refund \/ (refund'.status = "COMPLETED" /\ Cause')

LEMMA CauseStays == Onward /\ Cause => Cause'
BY DEF Onward, Cause

LEMMA CalmOwed ==
    ASSUME ProcsOK, Owed, NEW p \in Procs, Calm(p), Settles
    PROVE  ProcsOK' /\ Owed'
<1>1. PICK l \in Locals, place \in Places \ Giving :
        Go(p, l, place) /\ Fit(l, place) /\ (place \in Needy => Cause')
  BY DEF Calm
<1>2. /\ ProcsOK' /\ pc'[p] = place /\ loc'[p] = l
      /\ \A q \in Procs : q # p => pc'[q] = pc[q] /\ loc'[q] = loc[q]
  BY <1>1, GoMoves
<1>3. Cause => Cause'
  BY CauseStays DEF Calm
<1>4. \A r \in Requests : ride'[r] # None => Cause'
  BY <1>3 DEF Calm, Onward, Owed
<1>5. \A q \in Procs : Fit(loc'[q], pc'[q]) /\ (pc'[q] \in Needy => Cause')
  <2> SUFFICES ASSUME NEW q \in Procs
               PROVE  Fit(loc'[q], pc'[q]) /\ (pc'[q] \in Needy => Cause')
    OBVIOUS
  <2>1. CASE q = p
    BY <1>1, <1>2, <2>1
  <2>2. CASE q # p
    <3>1. pc'[q] = pc[q] /\ loc'[q] = loc[q]
      BY <1>2, <2>2
    <3> QED BY <1>3, <3>1 DEF Owed
  <2> QED BY <2>1, <2>2
<1>6. refund'.status # None => Cause'
  BY <1>3 DEF Settles, Owed
<1>7. returned' > 0 => Cause'
  BY <1>3 DEF Calm, Owed
<1>8. \A q \in Procs : Fit(loc[q], pc[q])' <=> Fit(loc'[q], pc'[q])
  BY DEF Fit
<1> QED BY <1>2, <1>4, <1>5, <1>6, <1>7, <1>8 DEF Owed

LEMMA CalmBudget ==
    ASSUME DataOK, ProcsOK, Budget, NEW p \in Procs, pc[p] \notin Giving, Calm(p), Settles
    PROVE  Budget'
<1>1. PICK l \in Locals, place \in Places \ Giving : Go(p, l, place)
  BY DEF Calm
<1>2. /\ pc'[p] = place /\ \A q \in Procs : q # p => pc'[q] = pc[q]
  BY <1>1, GoMoves
<1>3. \A q \in Procs : (pc'[q] \in Giving <=> pc[q] \in Giving)
                    /\ (pc'[q] \in Bearing <=> pc[q] \in Bearing)
  BY <1>1, <1>2 DEF Giving, Bearing
<1>4. Bearers' = Bearers
  BY <1>3 DEF Bearers
<1>5. Admits' => Admits
  BY <1>3 DEF Admits, Settles, None
<1> QED BY <1>4, <1>5, BearersFinite, LossesAssumption DEF Budget, Calm, Onward, DataOK

LEMMA CalmKeeps ==
    ASSUME CabInv, NEW p \in Procs, pc[p] \notin Giving, Calm(p), Settles, DataOK'
    PROVE  CabInv'
BY CalmOwed, CalmBudget DEF CabInv

\* A step of the world: no process moves.
LEMMA WorldKeeps ==
    ASSUME CabInv, proc' = proc, Onward, Settles, DataOK',
           payments' = payments, returned' = returned
    PROVE  CabInv'
<1>1. pc' = pc /\ loc' = loc
  BY DEF proc
<1>2. ProcsOK'
  BY <1>1 DEF CabInv, ProcsOK
<1>3. Cause => Cause'
  BY CauseStays
<1>4. Owed'
  BY <1>1, <1>3 DEF Owed, CabInv, Onward, Settles, Fit
<1>5. Bearers' = Bearers
  BY <1>1 DEF Bearers
<1>6. Admits' => Admits
  BY <1>1 DEF Admits, Settles, None
<1>7. Budget'
  BY <1>5, <1>6, BearersFinite, LossesAssumption DEF Budget, Onward, DataOK, CabInv
<1> QED BY <1>2, <1>4, <1>7 DEF CabInv

-----------------------------------------------------------------------------
(* Where a step leaves its process.                                        *)

\* Places where nothing is owed.
Ordinary == {"new", "look", "claimRecord", "prior", "reset", "collect", "markFailed",
             "finalize", "release", "ended", "idle", "resolve", "transition", "park"}

LEMMA BlankIsLocal == Blank \in Locals
BY PriceAssumption DEF Blank, Locals

Still == payments' = payments /\ returned' = returned

LEMMA CalmAt ==
    ASSUME NEW p \in Procs, NEW l \in Locals, NEW place \in Ordinary,
           Go(p, l, place), Onward, Still
    PROVE  Calm(p)
<1>1. place \in Places \ Giving /\ place \notin Needy /\ Fit(l, place)
  BY DEF Ordinary, Places, Giving, Needy, Fit
<1> QED BY <1>1 DEF Calm, Still

LEMMA CalmOwing ==
    ASSUME NEW p \in Procs, NEW l \in Locals, NEW place \in Needy \ Giving,
           Go(p, l, place), Onward, Still, Cause'
    PROVE  Calm(p)
<1>1. place \in Places \ Giving /\ Fit(l, place)
  BY DEF Needy, Places, Giving, Fit
<1> QED BY <1>1 DEF Calm, Still

LEMMA CalmExecute ==
    ASSUME NEW p \in Procs, NEW l \in Locals, Execute(p, l), Onward, Still, Cause'
    PROVE  Calm(p)
<1>1. {"zero", "claim"} \subseteq Needy \ Giving
  BY DEF Needy, Giving
<1> QED BY <1>1, CalmOwing DEF Execute

LEMMA CalmRefundFailed ==
    ASSUME NEW p \in Procs, NEW l \in Locals, NEW next \in {"release", "finalize", "idle"},
           refundFailedBooking(p, l, next), Onward, Still, Cause'
    PROVE  Calm(p)
<1>0. Price \in 0..Price /\ "FAILED_BOOKING" \in Kinds \union {None}
  BY PriceAssumption DEF Kinds
<1>1. [l EXCEPT !.kind = "FAILED_BOOKING", !.amount = Price, !.next = next] \in Locals
  BY <1>0 DEF Locals
<1> QED BY <1>1, CalmExecute DEF refundFailedBooking

LEMMA CalmRefunded ==
    ASSUME NEW p \in Procs, ProcsOK, Refunded(p), Onward, Still
    PROVE  Calm(p)
<1>1. loc[p] \in Locals
  BY DEF ProcsOK
<1>2. [loc[p] EXCEPT !.kind = None, !.amount = 0] \in Locals /\ Blank \in Locals
  <2>1. 0 \in 0..Price
    BY PriceAssumption
  <2> QED BY <1>1, <2>1, BlankIsLocal DEF Locals
<1>3. loc[p].next \in Ordinary
  BY <1>1 DEF Locals, Ordinary
<1> QED BY <1>2, <1>3, CalmAt DEF Refunded

-----------------------------------------------------------------------------
(* book().                                                                 *)

\* A step that may lose something, and touches neither rides nor charges.
LEMMA KeepsOn ==
    ASSUME DataOK, losses' = losses \/ Lose, ride' = ride, charged' = charged, waived' = waived
    PROVE  Onward /\ losses' \in 0..MaxLosses
BY LossesAssumption DEF DataOK, Lose, Onward

LEMMA EnterCalm ==
    ASSUME CabInv, NEW r \in Requests,
           acquireLock(r) \/ FindReplay(r) \/ claimBookingRecord(r) \/ FindPrior(r) \/ ResetPrior(r)
    PROVE  Calm(r) /\ Settles /\ DataOK' /\ pc[r] \notin Giving
<1>1. r \in Procs /\ DataOK /\ ProcsOK /\ loc[r] \in Locals
  BY DEF CabInv, Procs, ProcsOK
<1>2. \A s \in Statuses \union {None} : [Blank EXCEPT !.seen = s] \in Locals
  BY BlankIsLocal DEF Locals
<1>3. "INITIATED" \in Statuses /\ IDEMPOTENT_RETURN_STATUSES \subseteq Statuses
  BY DEF Statuses, IDEMPOTENT_RETURN_STATUSES
<1>4. {"look", "ended", "claimRecord", "release", "prior", "collect", "reset"} \subseteq Ordinary
  BY DEF Ordinary
<1>5. CASE acquireLock(r)
  <2>1. Onward /\ Still /\ refund' = refund /\ DataOK'
    BY <1>1, <1>5, KeepsOn DEF acquireLock, Still, document, money, history, DataOK
  <2>2. GoTo(r, "look") \/ GoTo(r, "ended")
    BY <1>5 DEF acquireLock
  <2>3. Calm(r)
    BY <1>1, <1>4, <2>1, <2>2, CalmAt DEF GoTo
  <2> QED BY <1>5, <2>1, <2>3 DEF Settles, acquireLock, At, Giving
<1>6. CASE FindReplay(r)
  <2>1. Onward /\ Still /\ refund' = refund /\ DataOK'
    BY <1>1, <1>6, KeepsOn DEF FindReplay, Still, document, locks, money, history, DataOK
  <2>2. GoTo(r, "claimRecord") \/ Go(r, Blank, "release")
    BY <1>6 DEF FindReplay
  <2>3. Calm(r)
    BY <1>1, <1>4, <2>1, <2>2, CalmAt, BlankIsLocal DEF GoTo
  <2> QED BY <1>6, <2>1, <2>3 DEF Settles, FindReplay, At, Giving
<1>7. CASE claimBookingRecord(r)
  <2>1. Onward /\ Still /\ refund' = refund /\ DataOK'
    BY <1>1, <1>3, <1>7, KeepsOn
       DEF claimBookingRecord, Write, Still, document, locks, money, history, DataOK
  <2>2. Go(r, [Blank EXCEPT !.seen = "INITIATED"], "collect") \/ GoTo(r, "prior")
    BY <1>7 DEF claimBookingRecord
  <2>3. Calm(r)
    BY <1>1, <1>2, <1>3, <1>4, <2>1, <2>2, CalmAt DEF GoTo
  <2> QED BY <1>7, <2>1, <2>3 DEF Settles, claimBookingRecord, At, Giving
<1>8. CASE FindPrior(r)
  <2>1. status \in Statuses \union {None} /\ reused' \in BOOLEAN
    BY <1>1, <1>8 DEF FindPrior, DataOK
  <2>2. Onward /\ Still /\ refund' = refund /\ DataOK'
    BY <1>1, <1>8, <2>1, KeepsOn DEF FindPrior, Still, document, locks, money, history, DataOK
  <2>3. \/ Go(r, [Blank EXCEPT !.seen = status], "collect")
        \/ Go(r, Blank, "release") \/ GoTo(r, "reset")
    BY <1>8 DEF FindPrior
  <2>4. Calm(r)
    BY <1>1, <1>2, <1>4, <2>1, <2>2, <2>3, CalmAt, BlankIsLocal DEF GoTo
  <2> QED BY <1>8, <2>2, <2>4 DEF Settles, FindPrior, At, Giving
<1>9. CASE ResetPrior(r)
  <2>1. Onward /\ Still /\ refund' = refund /\ DataOK'
    BY <1>1, <1>3, <1>9, KeepsOn
       DEF ResetPrior, Write, Still, document, locks, money, history, DataOK
  <2>2. Calm(r)
    BY <1>1, <1>2, <1>3, <1>4, <1>9, <2>1, CalmAt DEF ResetPrior
  <2> QED BY <1>9, <2>1, <2>2 DEF Settles, ResetPrior, At, Giving
<1> QED BY <1>5, <1>6, <1>7, <1>8, <1>9

LEMMA ChargeCalm ==
    ASSUME CabInv, NEW r \in Requests,
           collectPayment(r) \/ CollectRefused(r) \/ CollectThrows(r) \/ CollectUnheard(r)
           \/ markFailed(r)
    PROVE  Calm(r) /\ Settles /\ DataOK' /\ pc[r] \notin Giving
<1>1. r \in Procs /\ DataOK /\ ProcsOK /\ loc[r] \in Locals
  BY DEF CabInv, Procs, ProcsOK
<1>2. {"markFailed", "release"} \subseteq Ordinary /\ "commit" \in Needy \ Giving
  BY DEF Ordinary, Needy, Giving
<1>3. CASE collectPayment(r)
  <2>1. Onward /\ Still /\ refund' = refund /\ DataOK' /\ Cause'
    BY <1>1, <1>3, LossesAssumption
       DEF collectPayment, Still, document, locks, history, DataOK, Onward, Cause
  <2>2. Calm(r)
    BY <1>1, <1>2, <1>3, <2>1, CalmOwing DEF collectPayment, GoTo
  <2> QED BY <1>3, <2>1, <2>2 DEF Settles, collectPayment, At, Giving
<1>4. CASE CollectRefused(r) \/ CollectThrows(r)
  <2>1. Onward /\ Still /\ refund' = refund /\ DataOK'
    BY <1>1, <1>4, KeepsOn
       DEF CollectRefused, CollectThrows, Still, document, locks, money, history, DataOK
  <2>2. GoTo(r, "markFailed") \/ Go(r, Blank, "release")
    BY <1>4 DEF CollectRefused, CollectThrows
  <2>3. Calm(r)
    BY <1>1, <1>2, <2>1, <2>2, CalmAt, BlankIsLocal DEF GoTo
  <2> QED BY <1>4, <2>1, <2>3 DEF Settles, CollectRefused, CollectThrows, At, Giving
<1>5. CASE CollectUnheard(r)
  <2>1. Onward /\ Still /\ refund' = refund /\ DataOK'
    BY <1>1, <1>5, LossesAssumption
       DEF CollectUnheard, Lose, Still, document, locks, history, DataOK, Onward
  <2>2. Calm(r)
    BY <1>1, <1>2, <1>5, <2>1, CalmAt, BlankIsLocal DEF CollectUnheard
  <2> QED BY <1>5, <2>1, <2>2 DEF Settles, CollectUnheard, At, Giving
<1>6. CASE markFailed(r)
  <2>1. "FAILED" \in Statuses
    BY DEF Statuses
  <2>2. Onward /\ losses' \in 0..MaxLosses
    BY <1>1, <1>6, KeepsOn DEF markFailed, money, history
  <2>3. Still /\ refund' = refund /\ DataOK'
    BY <1>1, <1>6, <2>1, <2>2
       DEF markFailed, Write, Still, document, locks, money, history, DataOK
  <2>4. Calm(r)
    BY <1>1, <1>2, <1>6, <2>2, <2>3, CalmAt, BlankIsLocal DEF markFailed
  <2> QED BY <1>6, <2>3, <2>4 DEF Settles, markFailed, At, Giving
<1> QED BY <1>3, <1>4, <1>5, <1>6

LEMMA BookCalm ==
    ASSUME CabInv, NEW r \in Requests, Book(r) \/ BookRefused(r) \/ BookUnheard(r)
    PROVE  Calm(r) /\ Settles /\ DataOK' /\ pc[r] \notin Giving
<1>1. r \in Procs /\ DataOK /\ ProcsOK /\ loc[r] \in Locals
  BY DEF CabInv, Procs, ProcsOK
<1>2. pc[r] = "commit" /\ pc[r] \notin Giving /\ "settle" \in Needy \ Giving
  BY DEF Book, BookRefused, BookUnheard, At, Needy, Giving
<1>3. Cause
  BY <1>1, <1>2 DEF CabInv, Owed, Needy
<1>4. charged' = charged /\ waived' = waived /\ Still /\ Settles
  BY DEF Book, BookRefused, BookUnheard, Still, Settles, money, history, document
<1>5. Cause'
  BY <1>3, <1>4 DEF Cause
<1>6. losses' \in 0..MaxLosses /\ losses \in 0..MaxLosses /\ losses <= losses'
  BY <1>1, LossesAssumption DEF Book, BookRefused, BookUnheard, Lose, DataOK
<1>7. Onward
  BY <1>4, <1>5, <1>6, LossesAssumption DEF Onward
<1>8. ride' \in [Requests -> {None, "PENDING", "CONFIRMED", "FAILED", "CANCELLED"}]
  BY <1>1 DEF Book, BookRefused, BookUnheard, DataOK
<1>9. DataOK'
  BY <1>1, <1>6, <1>8
     DEF Book, BookRefused, BookUnheard, DataOK, document, locks, money, history
<1>10. CASE Book(r)
  <2>1. Go(r, loc[r], "settle")
    BY <1>10 DEF Book, GoTo
  <2> QED BY <1>1, <1>2, <1>4, <1>5, <1>7, <1>9, <2>1, CalmOwing
<1>11. CASE BookRefused(r) \/ BookUnheard(r)
  <2>1. refundFailedBooking(r, loc[r], "release")
    BY <1>11 DEF BookRefused, BookUnheard
  <2> QED BY <1>1, <1>2, <1>4, <1>5, <1>7, <1>9, <2>1, CalmRefundFailed
<1> QED BY <1>10, <1>11

LEMMA LeaveCalm ==
    ASSUME CabInv, NEW r \in Requests,
           settleSupplier(r) \/ finalizeBookingRecord(r) \/ releaseLock(r)
    PROVE  Calm(r) /\ Settles /\ DataOK' /\ pc[r] \notin Giving
<1>1. r \in Procs /\ DataOK /\ ProcsOK /\ loc[r] \in Locals
  BY DEF CabInv, Procs, ProcsOK
<1>2. {"finalize", "release", "ended"} \subseteq Ordinary
  BY DEF Ordinary
<1>3. losses' = losses \/ Lose
  BY DEF settleSupplier, finalizeBookingRecord, releaseLock
<1>4. Onward /\ losses' \in 0..MaxLosses
  BY <1>1, <1>3, KeepsOn DEF settleSupplier, finalizeBookingRecord, releaseLock, money, history
<1>5. Still /\ Settles
  BY DEF settleSupplier, finalizeBookingRecord, releaseLock, Still, Settles, money, document
<1>6. CASE settleSupplier(r)
  <2> DEFINE l(s) == [loc[r] EXCEPT !.target = s]
  <2>1. \A s \in {"CONFIRMED", "FAILED", "SUPPLIER_PENDING"} : l(s) \in Locals
    BY <1>1 DEF Locals, Statuses
  <2>2. DataOK'
    BY <1>1, <1>4, <1>6 DEF settleSupplier, DataOK, document, locks, money, history
  <2>3. pc[r] = "settle" /\ pc[r] \notin Giving
    BY <1>6 DEF settleSupplier, At, Giving
  <2>4. Cause'
    BY <1>1, <1>4, <2>3, CauseStays DEF CabInv, Owed, Needy
  <2>5. \/ Go(r, l("CONFIRMED"), "finalize") \/ Go(r, l("SUPPLIER_PENDING"), "finalize")
        \/ refundFailedBooking(r, l("FAILED"), "finalize")
    BY <1>6 DEF settleSupplier
  <2>6. Calm(r)
    <3>1. CASE \/ Go(r, l("CONFIRMED"), "finalize") \/ Go(r, l("SUPPLIER_PENDING"), "finalize")
      <4>1. l("CONFIRMED") \in Locals /\ l("SUPPLIER_PENDING") \in Locals
        BY <2>1
      <4> HIDE DEF l
      <4> QED BY <1>1, <1>2, <1>4, <1>5, <3>1, <4>1, CalmAt
    <3>2. CASE refundFailedBooking(r, l("FAILED"), "finalize")
      <4>1. l("FAILED") \in Locals
        BY <2>1
      <4> HIDE DEF l
      <4> QED BY <1>1, <1>4, <1>5, <2>4, <3>2, <4>1, CalmRefundFailed
    <3> QED BY <2>5, <3>1, <3>2
  <2> QED BY <1>5, <2>2, <2>3, <2>6
<1>7. CASE finalizeBookingRecord(r)
  <2>1. Calm(r)
    BY <1>1, <1>2, <1>4, <1>5, <1>7, CalmAt, BlankIsLocal DEF finalizeBookingRecord
  <2>2. loc[r].target \in Statuses \union {None}
    BY <1>1 DEF Locals
  <2>3. DataOK'
    BY <1>1, <1>4, <1>7, <2>2
       DEF finalizeBookingRecord, DataOK, document, locks, money, history
  <2> QED BY <1>5, <1>7, <2>1, <2>3 DEF finalizeBookingRecord, At, Giving
<1>8. CASE releaseLock(r)
  <2>1. Calm(r)
    BY <1>1, <1>2, <1>4, <1>5, <1>8, CalmAt DEF releaseLock, GoTo
  <2>2. DataOK'
    BY <1>1, <1>4, <1>8 DEF releaseLock, DataOK, document, money, history
  <2> QED BY <1>5, <1>8, <2>1, <2>2 DEF releaseLock, At, Giving
<1> QED BY <1>6, <1>7, <1>8

-----------------------------------------------------------------------------
(* The worker and cancellations.                                           *)

LEMMA SweepCalm ==
    ASSUME CabInv, NEW j \in Jobs,
           StartSweep(j) \/ resolve(j) \/ ResolveFails(j) \/ transition(j) \/ retryRefund(j)
    PROVE  Calm(j) /\ Settles /\ DataOK' /\ pc[j] \notin Giving
<1>1. j \in Procs /\ DataOK /\ ProcsOK /\ loc[j] \in Locals
  BY DEF CabInv, Procs, ProcsOK
<1>2. {"resolve", "idle", "transition"} \subseteq Ordinary
  BY DEF Ordinary
<1>3. pc[j] \notin Giving
  BY DEF StartSweep, resolve, ResolveFails, transition, retryRefund, At, Giving
<1>4. Still /\ Settles
  BY DEF StartSweep, resolve, ResolveFails, transition, retryRefund, Write, Still, Settles,
         money, document
<1>5. losses \in Nat /\ losses' = losses /\ charged' = charged /\ ride' = ride
  BY <1>1, LossesAssumption
     DEF StartSweep, resolve, ResolveFails, transition, retryRefund, money, DataOK
<1>6. Onward
  <2>1. waived => waived'
    <3>1. CASE resolve(j)
      BY <3>1 DEF resolve, Unanswered
    <3>2. CASE ~resolve(j)
      BY <3>2 DEF StartSweep, ResolveFails, transition, retryRefund, history
    <3> QED BY <3>1, <3>2
  <2> QED BY <1>5, <2>1 DEF Onward
<1>7. CASE StartSweep(j)
  <2>1. [Blank EXCEPT !.ref = ref] \in Locals
    BY <1>1, BlankIsLocal DEF Locals, DataOK
  <2>2. Calm(j)
    BY <1>1, <1>2, <1>4, <1>6, <1>7, <2>1, CalmAt DEF StartSweep
  <2>3. DataOK'
    BY <1>1, <1>7 DEF StartSweep, DataOK, document, locks, money, history
  <2> QED BY <1>3, <1>4, <2>2, <2>3
<1>8. CASE resolve(j)
  <2>0. PICK said \in Says(j) :
          \/ /\ said \in {"CONFIRMED", "CANCELLED"}
             /\ Go(j, [loc[j] EXCEPT !.target = said], "transition") /\ UNCHANGED waived
          \/ said = "FAILED" /\ refundFailedBooking(j, loc[j], "idle") /\ UNCHANGED waived
          \/ said \in {None, "PENDING"} /\ Unanswered(j)
    BY <1>8 DEF resolve
  <2>1. said # None => Cause
    <3>1. loc[j].ref \in Requests \union {None}
      BY <1>1 DEF Locals
    <3> QED BY <2>0, <3>1 DEF Says, CabInv, Owed
  <2>2. DataOK'
    BY <1>1, <1>8 DEF resolve, Unanswered, DataOK, document, locks, money
  <2>3. \/ said \in {"CONFIRMED", "CANCELLED"} /\ Go(j, [loc[j] EXCEPT !.target = said], "transition")
        \/ said = "FAILED" /\ refundFailedBooking(j, loc[j], "idle")
        \/ waived' = TRUE /\ refundFailedBooking(j, loc[j], "idle")
        \/ Done(j)
    BY <2>0 DEF Unanswered
  <2>4. Calm(j)
    <3>1. CASE said \in {"CONFIRMED", "CANCELLED"} /\ Go(j, [loc[j] EXCEPT !.target = said], "transition")
      <4>1. [loc[j] EXCEPT !.target = said] \in Locals
        BY <1>1, <3>1 DEF Locals, Statuses
      <4> QED BY <1>1, <1>2, <1>4, <1>6, <3>1, <4>1, CalmAt
    <3>2. CASE said = "FAILED" /\ refundFailedBooking(j, loc[j], "idle")
      <4>1. Cause'
        BY <1>6, <2>1, <3>2, CauseStays DEF None
      <4> QED BY <1>1, <1>4, <1>6, <3>2, <4>1, CalmRefundFailed
    <3>3. CASE waived' = TRUE /\ refundFailedBooking(j, loc[j], "idle")
      <4>1. Cause'
        BY <3>3 DEF Cause
      <4> QED BY <1>1, <1>4, <1>6, <3>3, <4>1, CalmRefundFailed
    <3>4. CASE Done(j)
      BY <1>1, <1>2, <1>4, <1>6, <3>4, CalmAt, BlankIsLocal DEF Done
    <3> QED BY <2>3, <3>1, <3>2, <3>3, <3>4
  <2> QED BY <1>3, <1>4, <2>2, <2>4
<1>9. CASE ResolveFails(j)
  <2>1. Calm(j)
    BY <1>1, <1>2, <1>4, <1>6, <1>9, CalmAt, BlankIsLocal DEF ResolveFails, Done
  <2>2. DataOK'
    BY <1>1, <1>9 DEF ResolveFails, DataOK, document, locks, money, history
  <2> QED BY <1>3, <1>4, <2>1, <2>2
<1>10. CASE transition(j)
  <2>1. Calm(j)
    BY <1>1, <1>2, <1>4, <1>6, <1>10, CalmAt, BlankIsLocal DEF transition, Done
  <2>2. loc[j].target \in Statuses \union {None}
    BY <1>1 DEF Locals
  <2>3. DataOK'
    BY <1>1, <1>10, <2>2 DEF transition, Write, DataOK, locks, money, history
  <2> QED BY <1>3, <1>4, <2>1, <2>3
<1>11. CASE retryRefund(j)
  <2>1. Cause'
    BY <1>6, <1>11, CauseStays DEF retryRefund, CabInv, Owed, None
  <2>2. refund.amount \in 0..Price /\ "CANCELLATION" \in Kinds \union {None}
    BY <1>1 DEF DataOK, Refunds, Kinds
  <2>3. [Blank EXCEPT !.kind = "CANCELLATION", !.amount = refund.amount] \in Locals
    BY <2>2, BlankIsLocal DEF Locals
  <2>4. \/ Execute(j, [Blank EXCEPT !.kind = "CANCELLATION", !.amount = refund.amount])
        \/ refundFailedBooking(j, Blank, "idle")
    BY <1>11 DEF retryRefund
  <2>5. Calm(j)
    BY <1>1, <1>4, <1>6, <2>1, <2>3, <2>4, CalmExecute, CalmRefundFailed, BlankIsLocal
  <2>6. DataOK'
    BY <1>1, <1>11 DEF retryRefund, DataOK, document, locks, money, history
  <2> QED BY <1>3, <1>4, <2>5, <2>6
<1> QED BY <1>7, <1>8, <1>9, <1>10, <1>11

LEMMA CancelCalm ==
    ASSUME CabInv, NEW j \in Jobs,
           StartCancel(j) \/ CancelAccepted(j) \/ CancelRefused(j) \/ CancelUnheard(j) \/ Park(j)
    PROVE  Calm(j) /\ Settles /\ DataOK' /\ pc[j] \notin Giving
<1>1. j \in Procs /\ DataOK /\ ProcsOK /\ loc[j] \in Locals
  BY DEF CabInv, Procs, ProcsOK
<1>2. {"idle", "park"} \subseteq Ordinary
  BY DEF Ordinary
<1>3. pc[j] \notin Giving
  BY DEF StartCancel, CancelAccepted, CancelRefused, CancelUnheard, Park, At, Giving
<1>4. Still /\ Settles
  BY DEF StartCancel, CancelAccepted, CancelRefused, CancelUnheard, Park, Write, Still, Settles,
         money, document
<1>5. /\ losses' \in 0..MaxLosses /\ losses \in 0..MaxLosses /\ losses <= losses'
      /\ charged' = charged /\ waived' = waived
  <2>1. losses' = losses \/ Lose
    BY DEF StartCancel, CancelAccepted, CancelRefused, CancelUnheard, Park
  <2>2. charged' = charged /\ waived' = waived
    BY DEF StartCancel, CancelAccepted, CancelRefused, CancelUnheard, Park, money, history
  <2> QED BY <1>1, <2>1, <2>2, LossesAssumption DEF Lose, DataOK
<1>6. CASE StartCancel(j)
  <2>1. [Blank EXCEPT !.ref = ref] \in Locals /\ ref \in Requests
    BY <1>1, <1>6, BlankIsLocal DEF Locals, DataOK, StartCancel
  <2>2. [Blank EXCEPT !.ref = ref].ref = ref
    BY DEF Blank
  <2>3. "cancel" \in Places \ Giving /\ "cancel" \notin Needy
    BY DEF Places, Giving, Needy
  <2>4. Onward
    BY <1>5, <1>6, LossesAssumption DEF StartCancel, Onward
  <2>5. Calm(j)
    BY <1>4, <1>6, <2>1, <2>2, <2>3, <2>4 DEF StartCancel, Calm, Still, Fit
  <2>6. DataOK'
    BY <1>1, <1>6 DEF StartCancel, DataOK, document, locks, money, history
  <2> QED BY <1>3, <1>4, <2>5, <2>6
<1>7. CASE CancelAccepted(j) \/ CancelUnheard(j)
  <2>1. loc[j].ref \in Requests /\ ride[loc[j].ref] # None
    BY <1>1, <1>7 DEF CancelAccepted, CancelUnheard, At, CabInv, Owed, Fit, None
  <2>2. Cause /\ Cause'
    BY <1>5, <2>1 DEF CabInv, Owed, Cause
  <2>3. Onward
    BY <1>5, <2>2, LossesAssumption DEF Onward
  <2>4. DataOK'
    BY <1>1, <1>5, <1>7, <2>1
       DEF CancelAccepted, CancelUnheard, DataOK, document, locks, money, history
  <2>5. CASE CancelUnheard(j)
    <3>1. Calm(j)
      BY <1>1, <1>2, <1>4, <2>3, <2>5, CalmAt, BlankIsLocal DEF CancelUnheard, Done
    <3> QED BY <1>3, <1>4, <2>4, <3>1
  <2>6. CASE CancelAccepted(j)
    <3>1. PICK back \in Refundable \union {Unclear} :
            IF back = Unclear THEN GoTo(j, "park")
            ELSE Execute(j, [loc[j] EXCEPT !.kind = "CANCELLATION", !.amount = back])
      BY <2>6 DEF CancelAccepted
    <3>2. CASE back = Unclear
      <4>1. Go(j, loc[j], "park")
        BY <3>1, <3>2 DEF GoTo
      <4>2. Calm(j)
        BY <1>1, <1>2, <1>4, <2>3, <4>1, CalmAt
      <4> QED BY <1>3, <1>4, <2>4, <4>2
    <3>3. CASE back # Unclear
      <4>1. back \in 0..Price /\ "CANCELLATION" \in Kinds \union {None}
        BY <3>3, PriceAssumption DEF Kinds
      <4>2. [loc[j] EXCEPT !.kind = "CANCELLATION", !.amount = back] \in Locals
        BY <1>1, <4>1 DEF Locals
      <4>3. Calm(j)
        BY <1>1, <1>4, <2>2, <2>3, <3>1, <3>3, <4>2, CalmExecute
      <4> QED BY <1>3, <1>4, <2>4, <4>3
    <3> QED BY <3>2, <3>3
  <2> QED BY <1>7, <2>5, <2>6
<1>8. CASE CancelRefused(j) \/ Park(j)
  <2>1. Done(j) /\ Onward
    BY <1>5, <1>8, LossesAssumption DEF CancelRefused, Park, Onward
  <2>2. Calm(j)
    BY <1>1, <1>2, <1>4, <2>1, CalmAt, BlankIsLocal DEF Done
  <2>3. "MANUAL_REVIEW" \in Statuses
    BY DEF Statuses
  <2>4. DataOK'
    BY <1>1, <1>8, <2>3 DEF CancelRefused, Park, Write, DataOK, document, locks, money, history
  <2> QED BY <1>3, <1>4, <2>2, <2>4
<1> QED BY <1>6, <1>7, <1>8

-----------------------------------------------------------------------------
(* RefundService.                                                          *)

LEMMA QuietRefund ==
    ASSUME CabInv, NEW p \in Procs,
           (claim(p) /\ ~Claimable) \/ recordZeroRefund(p)
    PROVE  Calm(p) /\ Settles /\ DataOK' /\ pc[p] \notin Giving
<1>1. DataOK /\ ProcsOK /\ loc[p] \in Locals /\ Refunded(p) /\ pc[p] \in {"claim", "zero"}
  BY DEF CabInv, ProcsOK, claim, recordZeroRefund, At
<1>2. Still /\ losses' = losses /\ ride' = ride /\ charged' = charged /\ waived' = waived
  BY DEF claim, recordZeroRefund, Still, money, history
<1>3. Onward /\ losses' \in 0..MaxLosses
  BY <1>1, <1>2, KeepsOn
<1>4. Cause /\ Cause'
  BY <1>1, <1>3, CauseStays DEF CabInv, Owed, Needy
<1>5. Calm(p)
  BY <1>1, <1>2, <1>3, CalmRefunded
<1>6. pc[p] \notin Giving
  BY <1>1 DEF Giving
<1>7. CASE claim(p) /\ ~Claimable
  BY <1>1, <1>5, <1>6, <1>7 DEF claim, Settles, DataOK, locks, money, history
<1>8. CASE recordZeroRefund(p)
  <2>1. refund' = refund \/ refund' = [NoRefund EXCEPT !.status = "COMPLETED", !.kind = "CANCELLATION"]
    BY <1>8 DEF recordZeroRefund
  <2>2. 0 \in 0..Price
    BY PriceAssumption
  <2>3. refund' \in Refunds /\ Settles
    BY <1>1, <1>4, <2>1, <2>2 DEF NoRefund, Refunds, Kinds, Settles, DataOK
  <2>4. status' \in Statuses \union {None}
    BY <1>1, <1>8 DEF recordZeroRefund, DataOK, Statuses
  <2>5. DataOK'
    BY <1>1, <1>8, <2>3, <2>4 DEF recordZeroRefund, DataOK, locks, money, history
  <2> QED BY <1>5, <1>6, <2>3, <2>5
<1> QED BY <1>7, <1>8

\* A step of a payment: where it leaves p, and the cause it had.
LEMMA PayingMoves ==
    ASSUME CabInv, NEW p \in Procs, NEW l \in Locals, NEW place \in Places, place # "cancel",
           pc[p] \in Needy, Go(p, l, place), Onward,
           refund'.status # None => Cause', returned' > 0 => Cause'
    PROVE  /\ ProcsOK' /\ Owed' /\ pc'[p] = place
           /\ \A q \in Procs : q # p => pc'[q] = pc[q]
<1>1. /\ ProcsOK' /\ pc'[p] = place /\ loc'[p] = l
      /\ \A q \in Procs : q # p => pc'[q] = pc[q] /\ loc'[q] = loc[q]
  BY GoMoves DEF CabInv
<1>2. Cause /\ Cause'
  BY CauseStays DEF CabInv, Owed
<1>3. \A q \in Procs : Fit(loc'[q], pc'[q])
  BY <1>1 DEF Fit, CabInv, Owed
<1>4. \A q \in Procs : Fit(loc[q], pc[q])' <=> Fit(loc'[q], pc'[q])
  BY DEF Fit
<1> QED BY <1>1, <1>2, <1>3, <1>4 DEF Owed

LEMMA Sizes ==
    ASSUME CabInv
    PROVE  /\ payments \in Nat /\ returned \in Nat /\ losses \in Nat /\ losses \in 0..MaxLosses
           /\ Cardinality(Bearers) \in Nat /\ Cardinality(Bearers') \in Nat
BY BearersFinite, BearersFinitePrimed, LossesAssumption DEF CabInv, DataOK

LEMMA ClaimKeeps ==
    ASSUME CabInv, NEW p \in Procs, claim(p), Claimable
    PROVE  CabInv'
<1>1. DataOK /\ ProcsOK /\ loc[p] \in Locals /\ pc[p] = "claim"
  BY DEF CabInv, ProcsOK, claim, At
<1>2. /\ refund' = [status |-> "PROCESSING", kind |-> loc[p].kind,
                    amount |-> loc[p].amount, stale |-> FALSE]
      /\ Go(p, loc[p], "pay")
  BY DEF claim, GoTo
<1>3. Still /\ losses' = losses /\ ride' = ride /\ charged' = charged /\ waived' = waived
  BY DEF claim, Still, money, history
<1>4. Onward
  BY <1>1, <1>3, KeepsOn
<1>5. Cause'
  BY <1>1, <1>4, CauseStays DEF CabInv, Owed, Needy
<1>6. "pay" \in Places /\ pc[p] \in Needy
  BY <1>1 DEF Places, Needy
<1>7. ProcsOK' /\ Owed' /\ pc'[p] = "pay" /\ \A q \in Procs : q # p => pc'[q] = pc[q]
  BY <1>1, <1>2, <1>4, <1>5, <1>6, PayingMoves
<1>8. DataOK'
  <2>1. refund' \in Refunds
    BY <1>1, <1>2 DEF Refunds, Locals
  <2> QED BY <1>1, <2>1 DEF claim, DataOK, locks, money, history
<1>9. Budget'
  <2>1. Cardinality(Bearers') - Cardinality(Bearers) = 1
    <3>1. pc'[p] \in Bearing /\ pc[p] \notin Bearing
      BY <1>1, <1>7 DEF Bearing
    <3> QED BY <1>7, <3>1, BearerMoves, Sizes
  <2>2. Admits
    BY DEF Claimable, Admits
  <2>3. ~Admits'
    <3>1. refund'.status = "PROCESSING" /\ ~refund'.stale
      BY <1>2
    <3>2. pc'[p] \in Giving
      BY <1>7 DEF Giving
    <3> QED BY <3>1, <3>2 DEF Admits, None
  <2>4. payments + Cardinality(Bearers) + 1 <= 1 + losses
    BY <2>2 DEF CabInv, Budget
  <2>5. payments' = payments /\ losses' = losses
    BY <1>3 DEF Still
  <2>6. payments' + Cardinality(Bearers') + 0 <= 1 + losses'
    BY <2>1, <2>4, <2>5, Sizes
  <2> QED BY <2>3, <2>6 DEF Budget
<1> QED BY <1>7, <1>8, <1>9 DEF CabInv

\* The money moves, or does not, and p goes to record it.
LEMMA PayKeeps ==
    ASSUME CabInv, NEW p \in Procs, Pay(p) \/ PayFails(p) \/ PayUnheard(p)
    PROVE  CabInv'
<1>1. DataOK /\ ProcsOK /\ loc[p] \in Locals /\ pc[p] = "pay"
  BY DEF CabInv, ProcsOK, Pay, PayFails, PayUnheard, At
<1>2. Cause /\ pc[p] \in Needy
  BY <1>1 DEF CabInv, Owed, Needy
<1>3. losses' = losses \/ Lose
  BY DEF Pay, PayFails, PayUnheard
<1>4. ride' = ride /\ charged' = charged /\ waived' = waived /\ refund' = refund
  BY DEF Pay, PayFails, PayUnheard, money, history, document
<1>5. Onward /\ losses' \in 0..MaxLosses
  BY <1>1, <1>3, <1>4, KeepsOn
<1>6. Cause'
  BY <1>2, <1>5, CauseStays
<1>7. PICK place \in {"complete", "fail"} : Go(p, loc[p], place)
  BY DEF Pay, PayFails, PayUnheard, GoTo
<1>8. place \in Places /\ place # "cancel" /\ place \in Giving
  BY <1>7 DEF Places, Giving
<1>9. ProcsOK' /\ Owed' /\ pc'[p] = place /\ \A q \in Procs : q # p => pc'[q] = pc[q]
  BY <1>1, <1>2, <1>5, <1>6, <1>7, <1>8, PayingMoves
<1>10. loc[p].amount \in Nat
  BY <1>1, PriceAssumption DEF Locals
<1>11. payments' \in Nat /\ returned' \in Nat
  BY <1>10, Sizes DEF Pay, PayFails, PayUnheard, Paid, money
<1>12. DataOK'
  BY <1>1, <1>4, <1>5, <1>11
     DEF Pay, PayFails, PayUnheard, DataOK, document, locks, history
<1>13. Admits' = Admits
  <2>1. \A q \in Procs : pc'[q] \in Giving <=> pc[q] \in Giving
    BY <1>1, <1>8, <1>9 DEF Giving
  <2> QED BY <1>4, <2>1 DEF Admits
<1>14. payments' + Cardinality(Bearers') - losses' <= payments + Cardinality(Bearers) - losses
  <2>1. pc[p] \in Bearing /\ (pc'[p] \in Bearing <=> place = "fail")
    BY <1>1, <1>7, <1>9 DEF Bearing
  <2>2. Cardinality(Bearers') - Cardinality(Bearers) = (IF place = "fail" THEN 1 ELSE 0) - 1
    BY <1>9, <2>1, BearerMoves
  <2>3. CASE Pay(p)
    <3>1. payments' = payments + 1 /\ losses' = losses /\ pc'[p] = "complete"
      BY <1>1, <2>3 DEF Pay, Paid, GoTo, Go, ProcsOK
    <3>2. Cardinality(Bearers') - Cardinality(Bearers) = -1
      BY <1>9, <2>2, <3>1, Sizes
    <3> QED BY <3>1, <3>2, Sizes
  <2>4. CASE PayFails(p) \/ PayUnheard(p)
    <3>1. /\ pc'[p] = "fail"
          /\ \/ payments' = payments /\ losses' = losses
             \/ payments' = payments + 1 /\ losses' = losses + 1
      <4>1. pc'[p] = "fail"
        BY <1>1, <2>4 DEF PayFails, PayUnheard, GoTo, Go, ProcsOK
      <4>2. PayFails(p) => payments' = payments /\ losses' = losses
        BY DEF PayFails, money
      <4>3. PayUnheard(p) => payments' = payments + 1 /\ losses' = losses + 1
        BY DEF PayUnheard, Paid, Lose
      <4> QED BY <2>4, <4>1, <4>2, <4>3
    <3>2. Cardinality(Bearers') - Cardinality(Bearers) = 0
      BY <1>9, <2>2, <3>1, Sizes
    <3> QED BY <3>1, <3>2, Sizes
  <2> QED BY <2>3, <2>4
<1>15. Budget'
  <2>1. losses' \in Nat /\ payments' \in Nat
    BY <1>5, <1>11, LossesAssumption
  <2>2. payments + Cardinality(Bearers) + (IF Admits THEN 1 ELSE 0) <= 1 + losses
    BY DEF CabInv, Budget
  <2>3. payments' + Cardinality(Bearers') + (IF Admits THEN 1 ELSE 0) <= 1 + losses'
    BY <1>14, <2>1, <2>2, Sizes
  <2> QED BY <1>13, <2>3 DEF Budget
<1> QED BY <1>9, <1>12, <1>15 DEF CabInv

\* p writes what became of it: a failure lets the next claim through, and is
\* covered by p's own payment that did not come, or by what was lost.
LEMMA RecordKeeps ==
    ASSUME CabInv, NEW p \in Procs, Complete(p) \/ CompleteRejected(p) \/ Fail(p)
    PROVE  CabInv'
<1>1. DataOK /\ ProcsOK /\ loc[p] \in Locals /\ pc[p] \in {"complete", "fail"}
  BY DEF CabInv, ProcsOK, Complete, CompleteRejected, Fail, At
<1>2. Cause /\ pc[p] \in Needy
  BY <1>1 DEF CabInv, Owed, Needy
<1>3. losses' = losses \/ Lose
  BY DEF Complete, CompleteRejected, Fail
<1>4. Still /\ ride' = ride /\ charged' = charged /\ waived' = waived
  BY DEF Complete, CompleteRejected, Fail, Still, money, history
<1>5. Onward /\ losses' \in 0..MaxLosses
  BY <1>1, <1>3, <1>4, KeepsOn
<1>6. Cause'
  BY <1>2, <1>5, CauseStays
<1>7. [loc[p] EXCEPT !.kind = None, !.amount = 0] \in Locals /\ Blank \in Locals
  <2>1. 0 \in 0..Price
    BY PriceAssumption
  <2> QED BY <1>1, <2>1, BlankIsLocal DEF Locals
<1>8. loc[p].next \in Places \ (Giving \union {"cancel"}) /\ "fail" \in Places
  BY <1>1 DEF Locals, Places, Giving
<1>9. PICK l \in Locals, place \in Places \ {"cancel"} :
        /\ Go(p, l, place)
        /\ CompleteRejected(p) => place = "fail"
        /\ ~CompleteRejected(p) => place \notin Giving
  BY <1>1, <1>7, <1>8 DEF Complete, CompleteRejected, Fail, Refunded, GoTo
<1>10. ProcsOK' /\ Owed' /\ pc'[p] = place /\ \A q \in Procs : q # p => pc'[q] = pc[q]
  BY <1>2, <1>5, <1>6, <1>9, PayingMoves
<1>11. refund \in Refunds /\ [refund EXCEPT !.status = "COMPLETED"] \in Refunds
       /\ [refund EXCEPT !.status = "FAILED"] \in Refunds
  BY <1>1 DEF DataOK, Refunds
<1>12. status' \in Statuses \union {None} /\ refund' \in Refunds
  BY <1>1, <1>11 DEF Complete, CompleteRejected, Fail, FinalStatus, Statuses, DataOK, document
<1>13. DataOK'
  BY <1>1, <1>5, <1>12
     DEF Complete, CompleteRejected, Fail, DataOK, document, locks, money, history
<1>14. payments + Cardinality(Bearers) + (IF Admits THEN 1 ELSE 0) <= 1 + losses
  BY DEF CabInv, Budget
<1>15. payments' = payments
  BY <1>4 DEF Still
<1>16. CASE Complete(p)
  <2>1. pc[p] = "complete" /\ ~CompleteRejected(p) /\ losses' = losses
    BY <1>1, <1>11, <1>16, Sizes DEF Complete, CompleteRejected, At, Lose
  <2>2. pc'[p] \notin Bearing /\ pc[p] \notin Bearing
    BY <1>9, <1>10, <2>1 DEF Giving, Bearing
  <2>3. Cardinality(Bearers') = Cardinality(Bearers)
    BY <1>10, <2>2, BearerMoves, Sizes
  <2>4. refund'.status = "COMPLETED"
    BY <1>11, <1>16 DEF Complete, Refunds
  <2>5. ~Admits'
    BY <2>4 DEF Admits, None
  <2>6. payments' + Cardinality(Bearers') + 0 <= 1 + losses'
    BY <1>14, <1>15, <2>1, <2>3, Sizes
  <2>7. Budget'
    BY <2>5, <2>6 DEF Budget
  <2> QED BY <1>10, <1>13, <2>7 DEF CabInv
<1>17. CASE CompleteRejected(p)
  <2>1. pc[p] = "complete" /\ losses' = losses + 1 /\ pc'[p] = "fail" /\ refund' = refund
    BY <1>9, <1>10, <1>17 DEF CompleteRejected, At, Lose, document
  <2>2. Cardinality(Bearers') = Cardinality(Bearers) + 1
    <3>1. pc'[p] \in Bearing /\ pc[p] \notin Bearing
      BY <2>1 DEF Bearing
    <3> QED BY <1>10, <3>1, BearerMoves, Sizes
  <2>3. Admits' = Admits
    <3>1. \A q \in Procs : pc'[q] \in Giving <=> pc[q] \in Giving
      BY <1>10, <2>1 DEF Giving
    <3> QED BY <2>1, <3>1 DEF Admits
  <2>4. payments' + Cardinality(Bearers') + (IF Admits THEN 1 ELSE 0) <= 1 + losses'
    BY <1>14, <1>15, <2>1, <2>2, Sizes
  <2>5. Budget'
    BY <2>3, <2>4 DEF Budget
  <2> QED BY <1>10, <1>13, <2>5 DEF CabInv
<1>18. CASE Fail(p)
  <2>1. pc[p] = "fail" /\ ~CompleteRejected(p) /\ losses' = losses
    BY <1>18 DEF Fail, CompleteRejected, At
  <2>2. Cardinality(Bearers') = Cardinality(Bearers) - 1
    <3>1. pc'[p] \notin Bearing /\ pc[p] \in Bearing
      BY <1>9, <1>10, <2>1 DEF Giving, Bearing
    <3> QED BY <1>10, <3>1, BearerMoves, Sizes
  <2>3. (IF Admits' THEN 1 ELSE 0) <= 1 /\ (IF Admits THEN 1 ELSE 0) >= 0
    OBVIOUS
  <2>4. payments + Cardinality(Bearers) <= 1 + losses
    BY <1>14, <2>3, Sizes
  <2>5. payments' + Cardinality(Bearers') + (IF Admits' THEN 1 ELSE 0) <= 1 + losses'
    BY <1>15, <2>1, <2>2, <2>4, Sizes
  <2>6. Budget'
    BY <2>5 DEF Budget
  <2> QED BY <1>10, <1>13, <2>6 DEF CabInv
<1> QED BY <1>16, <1>17, <1>18

-----------------------------------------------------------------------------
(* Crashes, time and the supplier.                                         *)

\* The payment a process owed is gone with it; its claim may be granted again.
LEMMA CrashKeeps ==
    ASSUME CabInv, NEW p \in Procs, Crash(p) \/ RefundThrows(p)
    PROVE  CabInv'
<1>1. DataOK /\ ProcsOK /\ losses' = losses + 1 /\ losses' \in 0..MaxLosses
  BY LossesAssumption DEF CabInv, Crash, RefundThrows, Lose, DataOK
<1>2. Still /\ Onward /\ refund' = refund
  BY <1>1, KeepsOn DEF Crash, RefundThrows, Still, money, history, document
<1>3. PICK l \in Locals, place \in {"ended", "release", "finalize", "idle"} : Go(p, l, place)
  <2>1. loc[p] \in Locals
    BY <1>1 DEF ProcsOK
  <2>2. /\ [loc[p] EXCEPT !.target = "SUPPLIER_PENDING", !.kind = None, !.amount = 0] \in Locals
        /\ loc[p].next \in {"release", "finalize", "idle"}
    <3>1. 0 \in 0..Price /\ "SUPPLIER_PENDING" \in Statuses \union {None}
      BY PriceAssumption DEF Statuses
    <3> QED BY <2>1, <3>1 DEF Locals
  <2> QED BY <2>2, BlankIsLocal DEF Crash, RefundThrows
<1>4. /\ ProcsOK' /\ pc'[p] = place /\ loc'[p] = l
      /\ \A q \in Procs : q # p => pc'[q] = pc[q] /\ loc'[q] = loc[q]
  <2>1. place \in Places
    BY <1>3 DEF Places
  <2> QED BY <1>1, <1>3, <2>1, GoMoves
<1>5. Owed'
  <2>1. Calm(p)
    <3>1. place \in Ordinary
      BY <1>3 DEF Ordinary
    <3> QED BY <1>2, <1>3, <3>1, CalmAt
  <2> QED BY <1>1, <1>2, <2>1, CalmOwed DEF CabInv, Settles
<1>6. DataOK'
  BY <1>1 DEF Crash, RefundThrows, DataOK, document, locks, money, history
<1>7. Cardinality(Bearers') <= Cardinality(Bearers)
  <2>1. pc'[p] \notin Bearing
    BY <1>3, <1>4 DEF Bearing
  <2> QED BY <1>4, <2>1, BearerMoves, Sizes
<1>8. payments + Cardinality(Bearers) <= 1 + losses
  <2>1. payments + Cardinality(Bearers) + (IF Admits THEN 1 ELSE 0) <= 1 + losses
    BY DEF CabInv, Budget
  <2> QED BY <2>1, Sizes
<1>9. payments' + Cardinality(Bearers') + (IF Admits' THEN 1 ELSE 0) <= 1 + losses'
  BY <1>1, <1>2, <1>7, <1>8, Sizes DEF Still
<1> QED BY <1>4, <1>5, <1>6, <1>9 DEF CabInv, Budget

\* Half an hour: the claim could be granted anyway, or its owner is overlong.
LEMMA StaleKeeps ==
    ASSUME CabInv, Stale
    PROVE  CabInv'
<1>1. DataOK /\ ProcsOK /\ pc' = pc /\ loc' = loc
  BY DEF CabInv, Stale, proc
<1>2. losses' = losses \/ Lose
  BY DEF Stale
<1>3. payments' = payments /\ returned' = returned
  BY DEF Stale, money
<1>4. Onward /\ losses' \in 0..MaxLosses
  BY <1>1, <1>2, KeepsOn DEF Stale, money, history
<1>5. refund' \in Refunds /\ refund.status # None
  BY <1>1 DEF Stale, DataOK, Refunds, None
<1>6. DataOK'
  BY <1>1, <1>4, <1>5 DEF Stale, DataOK, locks, money, history
<1>7. Owed' /\ ProcsOK'
  <2>1. Cause /\ Cause'
    BY <1>4, <1>5, CauseStays DEF CabInv, Owed
  <2> QED BY <1>1, <1>3, <2>1 DEF CabInv, Owed, ProcsOK, Fit
<1>8. Bearers' = Bearers
  BY <1>1 DEF Bearers
<1>9. payments + Cardinality(Bearers) + (IF Admits THEN 1 ELSE 0) <= 1 + losses
  BY DEF CabInv, Budget
<1>10. payments' + Cardinality(Bearers') + (IF Admits' THEN 1 ELSE 0) <= 1 + losses'
  <2>1. CASE \E p \in Procs : pc[p] \in {"pay", "complete", "fail"}
    <3>1. losses' = losses + 1
      BY <2>1 DEF Stale, Lose
    <3> QED BY <1>3, <1>8, <1>9, <3>1, Sizes
  <2>2. CASE ~\E p \in Procs : pc[p] \in {"pay", "complete", "fail"}
    <3>1. Admits /\ losses' = losses
      BY <2>2 DEF Stale, Admits, Giving
    <3> QED BY <1>3, <1>8, <1>9, <3>1, Sizes
  <2> QED BY <2>1, <2>2
<1> QED BY <1>6, <1>7, <1>10 DEF CabInv, Budget

LEMMA OutsideKeeps ==
    ASSUME CabInv,
           Expire \/ Age \/ (\E r \in Requests : RideMoves(r)) \/ UNCHANGED vars
    PROVE  CabInv'
<1>1. DataOK /\ losses \in Nat
  BY Sizes DEF CabInv
<1>2. /\ proc' = proc /\ losses' = losses /\ refund' = refund
      /\ payments' = payments /\ returned' = returned /\ charged' = charged /\ waived' = waived
  BY DEF Expire, Age, RideMoves, vars, money, document, history
<1>3. \A r \in Requests : ride'[r] # None => ride[r] # None
  <2>1. ride' = ride \/ \E r \in Requests : RideMoves(r)
    BY DEF Expire, Age, vars
  <2>2. ASSUME NEW r \in Requests, RideMoves(r) PROVE \A q \in Requests : ride'[q] # None => ride[q] # None
    BY <1>1, <2>2 DEF RideMoves, DataOK, None
  <2> QED BY <2>1, <2>2
<1>4. Onward /\ Settles
  BY <1>1, <1>2, <1>3 DEF Onward, Settles
<1>5. DataOK'
  <2>1. CASE Expire
    BY <1>1, <2>1 DEF Expire, DataOK, document, money
  <2>2. CASE Age
    BY <1>1, <2>2 DEF Age, DataOK, document, locks, money, history
  <2>3. CASE \E r \in Requests : RideMoves(r)
    BY <1>1, <2>3 DEF RideMoves, DataOK, document, locks, money, history
  <2>4. CASE UNCHANGED vars
    BY <1>1, <2>4 DEF vars, DataOK, document, locks, money, history
  <2> QED BY <2>1, <2>2, <2>3, <2>4
<1> QED BY <1>2, <1>4, <1>5, WorldKeeps

-----------------------------------------------------------------------------
(* The theorems.                                                           *)

LEMMA CabInit == Init => CabInv
<1> SUFFICES ASSUME Init PROVE CabInv
  OBVIOUS
<1>1. NoRefund \in Refunds
  <2>1. 0 \in 0..Price
    BY PriceAssumption
  <2> QED BY <2>1 DEF NoRefund, Refunds
<1>2. DataOK
  <2>1. 0 \in 0..MaxLosses
    BY LossesAssumption
  <2>2. ride \in [Requests -> {None, "PENDING", "CONFIRMED", "FAILED", "CANCELLED"}]
    BY DEF Init
  <2>3. /\ status \in Statuses \union {None} /\ ref \in Requests \union {None}
        /\ lock \in Requests \union {None}
    BY DEF Init
  <2>4. refund \in Refunds /\ age \in 0..2
    BY <1>1 DEF Init
  <2>5. charged \subseteq Requests /\ returned \in Nat /\ payments \in Nat
    BY DEF Init
  <2>6. losses \in 0..MaxLosses
    BY <2>1 DEF Init
  <2>7. locking \in BOOLEAN /\ reused \in BOOLEAN /\ lapsed \in BOOLEAN /\ waived \in BOOLEAN /\ retried \in BOOLEAN
    BY DEF Init
  <2> QED BY <2>2, <2>3, <2>4, <2>5, <2>6, <2>7 DEF DataOK
<1>3. ProcsOK
  BY BlankIsLocal DEF Init, ProcsOK, Places
<1>4. \A p \in Procs : pc[p] \in {"new", "idle"}
  BY DEF Init
<1>5. Owed
  BY <1>4 DEF Init, Owed, Fit, Needy, NoRefund
<1>6. Bearers = {}
  BY <1>4 DEF Bearers, Bearing
<1>7. Cardinality(Bearers) = 0
  BY <1>6, FS_EmptySet
<1>8. Budget
  <2>1. payments = 0 /\ losses = 0
    BY DEF Init
  <2> QED BY <1>7, <2>1 DEF Budget
<1> QED BY <1>2, <1>3, <1>5, <1>8 DEF CabInv

LEMMA CabNext == CabInv /\ [Next]_vars => CabInv'
<1> SUFFICES ASSUME CabInv, [Next]_vars PROVE CabInv'
  OBVIOUS
<1>1. CASE \E r \in Requests : Request(r)
  <2>1. PICK r \in Requests : Request(r)
    BY <1>1
  <2>2. r \in Procs
    BY DEF Procs
  <2>3. CASE RideMoves(r)
    BY <2>3, OutsideKeeps
  <2>4. CASE ~RideMoves(r)
    <3>1. Calm(r) /\ Settles /\ DataOK' /\ pc[r] \notin Giving
      BY <2>1, <2>4, EnterCalm, ChargeCalm, BookCalm, LeaveCalm DEF Request
    <3> QED BY <2>2, <3>1, CalmKeeps
  <2> QED BY <2>3, <2>4
<1>2. CASE \E j \in Jobs : Job(j)
  <2>1. PICK j \in Jobs : Job(j)
    BY <1>2
  <2>2. j \in Procs
    BY DEF Procs
  <2>3. Calm(j) /\ Settles /\ DataOK' /\ pc[j] \notin Giving
    BY <2>1, SweepCalm, CancelCalm DEF Job
  <2> QED BY <2>2, <2>3, CalmKeeps
<1>3. CASE \E p \in Procs : RefundStep(p) \/ Crash(p)
  <2>1. PICK p \in Procs : RefundStep(p) \/ Crash(p)
    BY <1>3
  <2>2. CASE Crash(p) \/ RefundThrows(p)
    BY <2>2, CrashKeeps
  <2>3. CASE (claim(p) /\ ~Claimable) \/ recordZeroRefund(p)
    BY <2>3, QuietRefund, CalmKeeps
  <2>4. CASE claim(p) /\ Claimable
    BY <2>4, ClaimKeeps
  <2>5. CASE Pay(p) \/ PayFails(p) \/ PayUnheard(p)
    BY <2>5, PayKeeps
  <2>6. CASE Complete(p) \/ CompleteRejected(p) \/ Fail(p)
    BY <2>6, RecordKeeps
  <2> QED BY <2>1, <2>2, <2>3, <2>4, <2>5, <2>6 DEF RefundStep
<1>4. CASE Stale
  BY <1>4, StaleKeeps
<1>5. CASE Expire \/ Age \/ UNCHANGED vars
  BY <1>5, OutsideKeeps
<1> QED BY <1>1, <1>2, <1>3, <1>4, <1>5 DEF Next

\* Only a request that gives up on its payment has one that could not be verified.
LEMMA UnverifiedKept == UnverifiedOK /\ [Next]_vars => UnverifiedOK'
<1> SUFFICES ASSUME UnverifiedOK, [Next]_vars PROVE UnverifiedOK'
  OBVIOUS
<1> USE DEF UnverifiedOK
<1>1. CASE \E r \in Requests : Request(r)
  <2>1. PICK r \in Requests : Request(r)
    BY <1>1
  <2>2. CASE CollectRefused(r)
    BY <2>2 DEF CollectRefused
  <2>3. CASE ~CollectRefused(r)
    BY <2>1, <2>3
       DEF Request, acquireLock, FindReplay, claimBookingRecord, FindPrior, ResetPrior,
           collectPayment, CollectThrows, CollectUnheard, markFailed, Book, BookRefused,
           BookUnheard, settleSupplier, finalizeBookingRecord, releaseLock, RideMoves, money
  <2> QED BY <2>2, <2>3
<1>2. CASE \E j \in Jobs : Job(j)
  <2>1. PICK j \in Jobs : Job(j)
    BY <1>2
  <2>2. CASE resolve(j)
    BY <2>2 DEF resolve, money
  <2>3. CASE StartSweep(j) \/ ResolveFails(j) \/ transition(j) \/ retryRefund(j)
    BY <2>3 DEF StartSweep, ResolveFails, transition, retryRefund, money
  <2>4. CASE StartCancel(j) \/ CancelRefused(j) \/ CancelUnheard(j) \/ Park(j)
    BY <2>4 DEF StartCancel, CancelRefused, CancelUnheard, Park, money
  <2>5. CASE CancelAccepted(j)
    BY <2>5 DEF CancelAccepted, money
  <2> QED BY <2>1, <2>2, <2>3, <2>4, <2>5 DEF Job
<1>3. CASE \E p \in Procs : RefundStep(p) \/ Crash(p)
  BY <1>3
     DEF RefundStep, claim, Pay, PayFails, PayUnheard, Complete, CompleteRejected, Fail,
         RefundThrows, recordZeroRefund, Crash, money
<1>4. CASE Expire \/ Age \/ Stale \/ UNCHANGED vars
  BY <1>4 DEF Expire, Age, Stale, vars, money
<1> QED BY <1>1, <1>2, <1>3, <1>4 DEF Next

\* Every variable of a cab booking keeps its type, whichever requests, sweeps and
\* cancellations overlap, and a cancellation knows the ride it asks about.
THEOREM CabTypeCorrect == Spec => []TypeOK
<1>1. CabInv /\ UnverifiedOK => TypeOK
  BY TypesTogether DEF CabInv
<1>2. Init => UnverifiedOK
  BY DEF Init, UnverifiedOK
<1>3. UnverifiedOK /\ [Next]_vars => UnverifiedOK'
  BY UnverifiedKept
<1> QED BY <1>1, <1>2, <1>3, CabInit, CabNext, PTL DEF Spec

\* Whichever requests, sweeps and cancellations ask for it, claim() lets the payer
\* of a cab be refunded a second time only after something was lost.
THEOREM CabPaidOnce == Spec => []PaidOncePerLoss
<1>1. CabInv => PaidOncePerLoss
  <2> SUFFICES ASSUME CabInv PROVE PaidOncePerLoss
    OBVIOUS
  <2>1. payments + Cardinality(Bearers) + (IF Admits THEN 1 ELSE 0) <= 1 + losses
    BY DEF CabInv, Budget
  <2> QED BY <2>1, Sizes DEF PaidOncePerLoss
<1> QED BY <1>1, CabInit, CabNext, PTL DEF Spec

\* Nobody is given money under a key that no request ever charged for, unless the
\* worker gave up on the booking: every refund goes back to a charge.
THEOREM CabRefundedIfCharged == Spec => []RefundedIfCharged
<1>1. CabInv => RefundedIfCharged
  BY DEF CabInv, Owed, Cause, RefundedIfCharged
<1> QED BY <1>1, CabInit, CabNext, PTL DEF Spec

-----------------------------------------------------------------------------
(* How many rides stand.                                                   *)

\* While requests have their locks, the one that is inside holds the lock.
InOrder == locking /\ ~lapsed

Serial == InOrder => \A r \in Requests : pc[r] \notin {"new", "ended"} => lock = r

\* The request inside will begin the document anew, or call it FAILED, before another
\* one comes in; or it is about to ask for a ride, or has given up; or it has one.
Debts == {"claim", "pay", "complete", "fail"}
Once(r) == \/ pc[r] \in {"claimRecord", "prior", "reset"}
           \/ pc[r] \in Debts /\ loc[r].next = "finalize"
           \/ pc[r] = "finalize" /\ loc[r].target = "FAILED"
Buying(r) == \/ pc[r] \in {"collect", "markFailed", "commit"}
             \/ pc[r] \in Debts /\ loc[r].next = "release"
Settling(r) == pc[r] = "settle" \/ (pc[r] = "finalize" /\ loc[r].target # "FAILED")

\* How many rides may yet be asked for, as far as the document and that request go.
Base == IF status \in IDEMPOTENT_RETURN_STATUSES THEN 0 ELSE 1
Open == IF status \in {None, "FAILED", "MANUAL_REVIEW"} THEN 1 ELSE 0
Permits ==
    IF lock = None THEN Base
    ELSE IF Once(lock) THEN 1
    ELSE IF Buying(lock) THEN 1 + Open
    ELSE IF Settling(lock) THEN Open
    ELSE Base

\* Rides that stand, or whose failure the request that asked for them has yet to see;
\* those that no refund was spent on yet; the jobs that will hand the booking to a human.
Standing == {r \in Requests : \/ ride[r] \in {"PENDING", "CONFIRMED"}
                              \/ ride[r] = "FAILED" /\ pc[r] = "settle"}
Unspent == {r \in Requests : \/ ride[r] \in {"PENDING", "CONFIRMED"}
                             \/ ride[r] = "FAILED" /\ ~Once(r)}
Parking == {j \in Jobs : pc[j] = "park"}

\* Who has claimed the refund; the jobs among them that will call the booking FAILED;
\* whether a claim under way may be taken over.
Givers == {p \in Procs : pc[p] \in Giving}
Closers == {j \in Jobs : pc[j] \in {"pay", "complete"} /\ loc[j].kind = "FAILED_BOOKING"}
Vacant == refund.status = "PROCESSING" /\ (refund.stale \/ ~\E p \in Procs : pc[p] \in Giving)

Doubtful == waived \/ retried

\* A document that is called FAILED lets the next request book.  That takes a claim, so
\* every ride, permit, claim under way and claim to come is covered by the first ride,
\* the one refund, and what was lost;
Rides ==
    Cardinality(Standing) + Cardinality(Parking) + Permits
      + Cardinality(Givers) + (IF Admits THEN 1 ELSE 0) <= 2 + losses

\* and unless the worker waives or tries again, the refund itself is covered by the
\* ride that failed.
Clean ==
    IF refund.status = None
    THEN Cardinality(Unspent) + Cardinality(Parking) + Permits <= 1 + losses
    ELSE Cardinality(Standing) + Cardinality(Parking) + Permits
           + Cardinality(Closers) + (IF Vacant THEN 1 ELSE 0) <= 1 + losses

Counted == Rides /\ (~Doubtful => Clean)

\* A request that a job or the document knows is over, or about to be.
Past(r) == r # None => pc[r] \in {"release", "ended"}

Early == {"new", "look", "claimRecord", "prior", "reset", "collect", "markFailed", "commit"}

\* What the place of a request tells, of its ride, its refund and the document.
RequestFits(r) ==
    /\ pc[r] # "zero"
    /\ pc[r] \in Early => ride[r] = None
    /\ pc[r] \in Debts => loc[r].next \in {"release", "finalize"}
    /\ pc[r] \in Debts /\ loc[r].next = "finalize" => loc[r].target = "FAILED"
    /\ pc[r] = "finalize" => loc[r].target \in {"CONFIRMED", "SUPPLIER_PENDING", "FAILED"}
    /\ pc[r] = "finalize" /\ loc[r].target = "FAILED" => refund.status # None
    /\ pc[r] \in {"collect", "commit"} \/ Settling(r) \/ (pc[r] \in Debts /\ loc[r].next = "finalize")
         => loc[r].seen = "INITIATED" \/ status \notin {None, "INITIATED"}

\* A job that will claim the first refund for a failed booking knows the ride that failed.
JobFits(j) ==
    /\ Past(loc[j].ref)
    /\ pc[j] = "transition" => loc[j].target \in {"CONFIRMED", "CANCELLED"}
    /\ pc[j] = "claim" /\ loc[j].kind = "FAILED_BOOKING" /\ refund.status = None /\ ~Doubtful
         => loc[j].ref # None /\ ride[loc[j].ref] = "FAILED"

Placed ==
    /\ \A r \in Requests : RequestFits(r)
    /\ \A j \in Jobs : JobFits(j)
    /\ Past(ref)
    /\ refund.status = None => Givers = {}

RidesInv == Serial /\ (InOrder => Placed /\ Counted)

-----------------------------------------------------------------------------
(* Counting.                                                               *)

LEMMA Sized == \A S \in SUBSET Procs : IsFiniteSet(S) /\ Cardinality(S) \in Nat
<1>1. IsFiniteSet(Procs)
  BY RequestsAssumption, FS_Union DEF Procs
<1> QED BY <1>1, FS_Subset, FS_CardinalityType

LEMMA SizedBelow ==
    ASSUME NEW S \in SUBSET Procs, NEW T, T \subseteq S
    PROVE  Cardinality(T) <= Cardinality(S)
BY Sized, FS_Subset

LEMMA SizedMore ==
    ASSUME NEW S \in SUBSET Procs, NEW T \in SUBSET Procs, NEW p, T \subseteq S \union {p}
    PROVE  Cardinality(T) <= Cardinality(S) + 1
<1>1. CASE p \in S
  <2>1. T \subseteq S
    BY <1>1
  <2> QED BY <2>1, Sized, SizedBelow
<1>2. CASE p \notin S
  <2>1. IsFiniteSet(S) /\ Cardinality(S \union {p}) = Cardinality(S) + 1
    BY <1>2, Sized, FS_AddElement
  <2>2. IsFiniteSet(S \union {p})
    BY <2>1, FS_AddElement
  <2>3. Cardinality(T) <= Cardinality(S \union {p})
    BY <2>2, FS_Subset
  <2> QED BY <2>1, <2>3
<1> QED BY <1>1, <1>2

LEMMA SizedLess ==
    ASSUME NEW S \in SUBSET Procs, NEW T, NEW p \in S, T \subseteq S \ {p}
    PROVE  Cardinality(T) <= Cardinality(S) - 1
<1>1. Cardinality(S \ {p}) = Cardinality(S) - 1
  BY Sized, FS_RemoveElement
<1>2. S \ {p} \in SUBSET Procs
  OBVIOUS
<1>3. Cardinality(T) <= Cardinality(S \ {p})
  BY <1>2, SizedBelow
<1> QED BY <1>1, <1>3

LEMMA Subsets ==
    /\ Standing \in SUBSET Procs /\ Unspent \in SUBSET Procs /\ Parking \in SUBSET Procs
    /\ Givers \in SUBSET Procs /\ Closers \in SUBSET Procs
BY DEF Standing, Unspent, Parking, Givers, Closers, Procs

LEMMA SubsetsPrimed ==
    /\ Standing' \in SUBSET Procs /\ Unspent' \in SUBSET Procs /\ Parking' \in SUBSET Procs
    /\ Givers' \in SUBSET Procs /\ Closers' \in SUBSET Procs
BY DEF Standing, Unspent, Parking, Givers, Closers, Procs

LEMMA Amounts ==
    /\ Cardinality(Standing) \in Nat /\ Cardinality(Unspent) \in Nat
    /\ Cardinality(Parking) \in Nat /\ Cardinality(Givers) \in Nat
    /\ Cardinality(Closers) \in Nat /\ Permits \in 0..2
BY Subsets, Sized DEF Permits, Base, Open

LEMMA AmountsPrimed ==
    /\ Cardinality(Standing') \in Nat /\ Cardinality(Unspent') \in Nat
    /\ Cardinality(Parking') \in Nat /\ Cardinality(Givers') \in Nat
    /\ Cardinality(Closers') \in Nat /\ Permits' \in 0..2
BY SubsetsPrimed, Sized DEF Permits, Base, Open

\* Whoever sees a standing ride sees one no refund was spent on.
LEMMA StandingUnspent == Standing \subseteq Unspent
BY DEF Standing, Unspent, Once, Debts

\* What is counted covers the rides.
LEMMA CountedCovers ==
    ASSUME DataOK, Counted
    PROVE  Cardinality({r \in Requests : ride[r] \in {"PENDING", "CONFIRMED"}})
             <= 1 + losses + (IF waived \/ retried THEN 1 ELSE 0)
<1> DEFINE Up == {r \in Requests : ride[r] \in {"PENDING", "CONFIRMED"}}
<1>1. Up \subseteq Standing /\ Up \subseteq Unspent
  BY DEF Standing, Unspent
<1>2. Up \in SUBSET Procs
  BY DEF Procs
<1>3. /\ Cardinality(Up) \in Nat /\ Cardinality(Up) <= Cardinality(Standing)
      /\ Cardinality(Up) <= Cardinality(Unspent)
  BY <1>1, <1>2, Subsets, Sized, SizedBelow
<1> SUFFICES Cardinality(Up) <= 1 + losses + (IF Doubtful THEN 1 ELSE 0)
  BY DEF Doubtful
<1> HIDE DEF Up
<1>4. losses \in Nat
  BY LossesAssumption DEF DataOK
<1>5. CASE Doubtful
  BY <1>3, <1>4, <1>5, Amounts DEF Counted, Rides
<1>6. CASE ~Doubtful
  BY <1>3, <1>4, <1>6, Amounts DEF Counted, Clean
<1> QED BY <1>5, <1>6

\* Lemmas about a step: the losses only grow, and what is done is done.
Later == /\ losses \in Nat /\ losses' \in Nat /\ losses <= losses'
         /\ (Doubtful => Doubtful')

\* A step that leaves the refund alone.
LEMMA SteadyCounts ==
    ASSUME Counted, Later, refund' = refund, Givers' = Givers, Closers' \subseteq Closers,
           Cardinality(Standing') + Cardinality(Parking') + Permits' - losses'
             <= Cardinality(Standing) + Cardinality(Parking) + Permits - losses,
           refund.status = None =>
             Cardinality(Unspent') + Cardinality(Parking') + Permits' - losses'
               <= Cardinality(Unspent) + Cardinality(Parking) + Permits - losses
    PROVE  Counted'
<1>1. (\E p \in Procs : pc'[p] \in Giving) <=> \E p \in Procs : pc[p] \in Giving
  BY DEF Givers
<1>2. (Admits' <=> Admits) /\ (Vacant' <=> Vacant)
  BY <1>1 DEF Admits, Vacant
<1>3. Cardinality(Givers') = Cardinality(Givers) /\ Cardinality(Closers') <= Cardinality(Closers)
  BY Subsets, SizedBelow
<1>4. Rides'
  BY <1>2, <1>3, Amounts, AmountsPrimed DEF Rides, Counted, Later
<1>5. ~Doubtful' => Clean'
  BY <1>2, <1>3, Amounts, AmountsPrimed DEF Clean, Counted, Later
<1> QED BY <1>4, <1>5 DEF Counted

-----------------------------------------------------------------------------
(* A step of one process.                                                  *)

\* Only p moves.
Alone(p) == \A q \in Procs : q # p => pc'[q] = pc[q] /\ loc'[q] = loc[q]

LEMMA GoAlone ==
    ASSUME ProcsOK, NEW p \in Procs, NEW l, NEW place, Go(p, l, place)
    PROVE  pc'[p] = place /\ loc'[p] = l /\ Alone(p)
BY DEF ProcsOK, Go, Alone

LEMMA TwoKinds == \A r \in Requests, j \in Jobs : r # j /\ r \in Procs /\ j \in Procs
BY ApartAssumption DEF Procs

\* Permits are decided by the request inside and the status.
LEMMA PermitsSame ==
    ASSUME lock' = lock, lock = None \/ (pc'[lock] = pc[lock] /\ loc'[lock] = loc[lock])
    PROVE  /\ Permits' <= Permits + 1
           /\ status' \in IDEMPOTENT_RETURN_STATUSES \union {status} => Permits' <= Permits
<1>1. /\ lock # None => (Once(lock)' <=> Once(lock)) /\ (Buying(lock)' <=> Buying(lock))
                        /\ (Settling(lock)' <=> Settling(lock))
  BY DEF Once, Buying, Settling
<1>2. /\ Base' <= Base + 1 /\ Open' <= Open + 1
      /\ status' \in IDEMPOTENT_RETURN_STATUSES \union {status} => Base' <= Base /\ Open' <= Open
  BY DEF Base, Open, IDEMPOTENT_RETURN_STATUSES, None
<1>3. Base \in 0..1 /\ Base' \in 0..1 /\ Open \in 0..1 /\ Open' \in 0..1
  BY DEF Base, Open
<1> HIDE DEF Base, Open
<1> QED BY <1>1, <1>2, <1>3 DEF Permits

-----------------------------------------------------------------------------
(* Where a step leaves the others.                                         *)

Ready == DataOK /\ ProcsOK /\ InOrder /\ Serial /\ Placed /\ Counted
Kept == Serial' /\ Placed' /\ Counted'

\* What the document and the rides do not go back on.
Forward(p) ==
    /\ status' = status \/ status' \notin {None, "INITIATED"} \/ lock = p
    /\ refund.status # None => refund'.status # None
    /\ \A q \in Requests : /\ q # p /\ ride[q] = None => ride'[q] = None
                           /\ ride[q] = "FAILED" => ride'[q] = "FAILED"
    /\ Later

LEMMA OthersFit ==
    ASSUME Ready, NEW p \in Procs, Alone(p), Forward(p), NEW q \in Requests, q # p
    PROVE  RequestFits(q)'
<1>1. pc'[q] = pc[q] /\ loc'[q] = loc[q]
  BY DEF Alone, Procs
<1>2. RequestFits(q)
  BY DEF Ready, Placed
<1>3. (ride[q] = None => ride'[q] = None) /\ (refund.status # None => refund'.status # None)
  BY DEF Forward
<1>4. Settling(q)' <=> Settling(q)
  BY <1>1 DEF Settling
<1>5. CASE lock = p
  <2>1. pc[q] \in {"new", "ended"}
    BY <1>5 DEF Ready, Serial
  <2> QED BY <1>1, <1>2, <1>3, <2>1 DEF RequestFits, Debts, Early, Settling
<1>6. CASE lock # p
  <2>1. status' = status \/ status' \notin {None, "INITIATED"}
    BY <1>6 DEF Forward
  <2> QED BY <1>1, <1>2, <1>3, <1>4, <2>1 DEF RequestFits
<1> QED BY <1>5, <1>6

\* Requests that are over stay so.
Rested(p) ==
    p \in Requests /\ pc[p] \in {"release", "ended"} => pc'[p] \in {"release", "ended"}

LEMMA PastStays ==
    ASSUME NEW p \in Procs, Alone(p), Rested(p),
           NEW r \in Requests \union {None}, Past(r)
    PROVE  Past(r)'
<1>1. CASE r = p
  BY <1>1 DEF Past, Rested
<1>2. CASE r # p
  BY <1>2 DEF Past, Alone, Procs
<1> QED BY <1>1, <1>2

LEMMA JobsFit ==
    ASSUME Ready, NEW p \in Procs, Alone(p), Rested(p), Forward(p), NEW j \in Jobs, j # p
    PROVE  JobFits(j)'
<1>1. pc'[j] = pc[j] /\ loc'[j] = loc[j] /\ loc[j].ref \in Requests \union {None}
  BY DEF Alone, Procs, Ready, ProcsOK, Locals
<1>2. JobFits(j)
  BY DEF Ready, Placed
<1>3. \A r \in Requests : ride[r] = "FAILED" => ride'[r] = "FAILED"
  BY DEF Forward
<1>4. (refund.status # None => refund'.status # None) /\ (Doubtful => Doubtful')
  BY DEF Forward, Later
<1>5. Past(loc[j].ref)'
  <2>1. Past(loc[j].ref)
    BY <1>2 DEF JobFits
  <2>2. \A r \in Requests \union {None} : Past(r) => Past(r)'
    BY PastStays
  <2>3. Past(loc[j].ref) => pc'[loc[j].ref] \in {"release", "ended"} \/ loc[j].ref = None
    BY <1>1, <2>2 DEF Past
  <2> QED BY <1>1, <2>1, <2>3 DEF Past
<1> QED BY <1>1, <1>2, <1>3, <1>4, <1>5 DEF JobFits

\* Nobody else's place changes, and p's fits.
LEMMA PlacedNext ==
    ASSUME Ready, NEW p \in Procs, Alone(p), Rested(p), Forward(p),
           p \in Requests => RequestFits(p)', p \in Jobs => JobFits(p)',
           ref' = ref \/ (ref' = p /\ pc'[p] \in {"release", "ended"}),
           refund'.status = None => Givers' = {}
    PROVE  Placed'
<1>1. \A q \in Requests : RequestFits(q)'
  BY OthersFit
<1>2. \A j \in Jobs : JobFits(j)'
  BY JobsFit
<1>3. Past(ref)'
  <2>1. CASE ref' = ref
    <3>1. ref \in Requests \union {None} /\ Past(ref)
      BY DEF Ready, DataOK, Placed
    <3>2. \A r \in Requests \union {None} : Past(r) => Past(r)'
      BY PastStays
    <3>3. ref # None => pc'[ref] \in {"release", "ended"}
      BY <3>1, <3>2 DEF Past
    <3> QED BY <2>1, <3>3 DEF Past
  <2>2. CASE ref' = p /\ pc'[p] \in {"release", "ended"}
    BY <2>2 DEF Past
  <2> QED BY <2>1, <2>2
<1> QED BY <1>1, <1>2, <1>3 DEF Placed

LEMMA SerialNext ==
    ASSUME Ready, NEW p \in Procs, Alone(p), lock' = lock,
           p \in Requests => lock = p \/ pc'[p] = "ended"
    PROVE  Serial'
<1>1. \A r \in Requests : pc[r] \notin {"new", "ended"} => lock = r
  BY DEF Ready, Serial
<1> QED BY <1>1 DEF Serial, Alone, Procs

-----------------------------------------------------------------------------
(* A request.                                                              *)

LEMMA RequestFrame ==
    ASSUME NEW r \in Requests, Alone(r)
    PROVE  /\ Parking' = Parking /\ Closers' = Closers
           /\ \A q \in Requests : q # r => pc'[q] = pc[q] /\ (Once(q)' <=> Once(q))
           /\ pc[r] \notin Giving /\ pc'[r] \notin Giving => Givers' = Givers
<1>1. \A j \in Jobs : pc'[j] = pc[j] /\ loc'[j] = loc[j]
  BY TwoKinds DEF Alone
<1>2. Parking' = Parking /\ Closers' = Closers
  BY <1>1 DEF Parking, Closers
<1>3. \A q \in Requests : q # r => pc'[q] = pc[q] /\ (Once(q)' <=> Once(q))
  BY DEF Alone, Procs, Once
<1>4. pc[r] \notin Giving /\ pc'[r] \notin Giving => Givers' = Givers
  BY DEF Alone, Givers
<1> QED BY <1>2, <1>3, <1>4

\* A step of a request that leaves rides and refund alone.
LEMMA PlainRequest ==
    ASSUME Ready, NEW r \in Requests, Alone(r), Forward(r), Rested(r), Serial',
           ride' = ride, refund' = refund,
           pc[r] \notin Giving, pc'[r] \notin Giving \union {"settle"},
           RequestFits(r)', Permits' - losses' <= Permits - losses,
           refund.status = None => ride[r] # "FAILED" \/ (Once(r) => Once(r)'),
           ref' = ref \/ (ref' = r /\ pc'[r] \in {"release", "ended"})
    PROVE  Kept
<1>1. r \in Procs /\ r \notin Jobs
  BY TwoKinds DEF Procs
<1>2. /\ Parking' = Parking /\ Closers' = Closers /\ Givers' = Givers
      /\ \A q \in Requests : q # r => pc'[q] = pc[q] /\ (Once(q)' <=> Once(q))
  BY RequestFrame
<1>3. Cardinality(Standing') <= Cardinality(Standing)
  <2>1. Standing' \subseteq Standing
    BY <1>2 DEF Standing
  <2> QED BY <2>1, Subsets, SizedBelow
<1>4. refund.status = None => Cardinality(Unspent') <= Cardinality(Unspent)
  <2>1. refund.status = None => Unspent' \subseteq Unspent
    BY <1>2 DEF Unspent
  <2> QED BY <2>1, Subsets, SizedBelow
<1>5. Counted'
  <2> USE Amounts, AmountsPrimed
  <2>0. Later /\ losses \in Int /\ Cardinality(Parking') = Cardinality(Parking)
    BY <1>2 DEF Forward, Later
  <2>1. PICK n \in Int, l \in Int : Permits' = n /\ losses' = l
    BY <2>0 DEF Later
  <2>2. Cardinality(Standing') + Cardinality(Parking') + Permits' - losses'
          <= Cardinality(Standing) + Cardinality(Parking) + Permits - losses
    BY <1>3, <2>0, <2>1
  <2>3. ASSUME refund.status = None
        PROVE  Cardinality(Unspent') + Cardinality(Parking') + Permits' - losses'
                 <= Cardinality(Unspent) + Cardinality(Parking) + Permits - losses
    <3>1. Cardinality(Unspent') <= Cardinality(Unspent)
      BY <1>4, <2>3
    <3> QED BY <2>0, <2>1, <3>1
  <2> QED BY <1>2, <2>0, <2>2, <2>3, SteadyCounts DEF Ready
<1>6. Placed'
  <2>1. refund'.status = None => Givers' = {}
    BY <1>2 DEF Ready, Placed
  <2> QED BY <1>1, <2>1, PlacedNext
<1> QED BY <1>5, <1>6 DEF Kept

\* One of the request inside, which goes on or leaves.
LEMMA InsideRequest ==
    ASSUME Ready, NEW r \in Requests, Alone(r), Later, lock = r, lock' = r,
           ride' = ride, refund' = refund,
           pc[r] \notin Giving \union {"release", "ended"}, pc'[r] \notin Giving \union {"settle"},
           RequestFits(r)', Permits' - losses' <= Permits - losses,
           refund.status = None => ride[r] # "FAILED" \/ (Once(r) => Once(r)'),
           ref' = ref \/ (ref' = r /\ pc'[r] \in {"release", "ended"})
    PROVE  Kept
<1>1. Forward(r) /\ Rested(r)
  BY DEF Forward, Rested
<1>2. Serial'
  BY SerialNext DEF Procs
<1> QED BY <1>1, <1>2, PlainRequest

\* What the request inside lets come after it.
LEMMA PermitsOf ==
    ASSUME NEW r \in Requests, lock = r
    PROVE  /\ Once(r) => Permits = 1
           /\ Buying(r) => Permits = 1 + Open
           /\ Settling(r) => Permits = Open
           /\ ~Once(r) /\ ~Buying(r) /\ ~Settling(r) => Permits = Base
           /\ Open \in 0..1 /\ Base \in 0..1
<1>1. r # None
  BY ApartAssumption
<1>2. ~(Once(r) /\ Buying(r)) /\ ~(Once(r) /\ Settling(r)) /\ ~(Buying(r) /\ Settling(r))
  BY DEF Once, Buying, Settling, Debts
<1> QED BY <1>1, <1>2 DEF Permits, Open, Base

LEMMA PermitsOfPrimed ==
    ASSUME NEW r \in Requests, lock' = r
    PROVE  /\ Once(r)' => Permits' = 1
           /\ Buying(r)' => Permits' = 1 + Open'
           /\ Settling(r)' => Permits' = Open'
           /\ ~Once(r)' /\ ~Buying(r)' /\ ~Settling(r)' => Permits' = Base'
           /\ Open' \in 0..1 /\ Base' \in 0..1
<1>1. r # None
  BY ApartAssumption
<1>2. ~(Once(r) /\ Buying(r))' /\ ~(Once(r) /\ Settling(r))' /\ ~(Buying(r) /\ Settling(r))'
  BY DEF Once, Buying, Settling, Debts
<1> QED BY <1>1, <1>2 DEF Permits, Open, Base

LEMMA InsideLocks ==
    ASSUME Ready, NEW r \in Requests, pc[r] \notin {"new", "ended"}
    PROVE  lock = r
BY DEF Ready, Serial

\* Places that say little.
LEMMA FitsAt ==
    ASSUME NEW r \in Requests
    PROVE  /\ pc'[r] \in {"release", "ended"} => RequestFits(r)'
           /\ pc'[r] \in {"look", "claimRecord", "prior", "reset", "markFailed"} /\ ride'[r] = None
                => RequestFits(r)'
           /\ pc'[r] \in {"collect", "commit"} /\ ride'[r] = None
                /\ (loc'[r].seen = "INITIATED" \/ status' \notin {None, "INITIATED"})
                => RequestFits(r)'
BY DEF RequestFits, Early, Debts, Settling

\* A step that loses nothing, or something, and has no say in what is doubtful.
LEMMA LaterOn ==
    ASSUME DataOK, losses' = losses \/ Lose, waived' = waived, retried' = retried
    PROVE  Later
BY LossesAssumption DEF DataOK, Lose, Later, Doubtful

LEMMA NoDearer ==
    ASSUME Later, Permits' <= Permits
    PROVE  Permits' - losses' <= Permits - losses
<1>1. PICK n \in Int, l \in Int : Permits' = n /\ losses' = l
  BY AmountsPrimed DEF Later
<1>2. Permits \in Int /\ losses \in Int /\ losses <= losses'
  BY Amounts DEF Later
<1> QED BY <1>1, <1>2

\* A request that comes in, is turned away or goes.
LEMMA DoorKept ==
    ASSUME Ready, NEW r \in Requests, acquireLock(r) \/ releaseLock(r), InOrder'
    PROVE  Kept
<1>0. DataOK /\ ProcsOK /\ r \in Procs /\ locking /\ r # None
  BY ApartAssumption DEF Ready, InOrder, Procs
<1>1. /\ ride' = ride /\ refund' = refund /\ ref' = ref /\ status' = status
      /\ (losses' = losses \/ Lose)
      /\ waived' = waived /\ retried' = retried /\ pc[r] \in {"new", "release"}
  BY DEF acquireLock, releaseLock, document, history, At
<1>2. /\ pc'[r] \in {"look", "ended"} /\ Alone(r) /\ Rested(r)
      /\ pc'[r] = "look" => pc[r] = "new"
      /\ \/ lock = None /\ lock' = r
         \/ lock' = lock /\ pc'[r] = "ended"
         \/ lock = r /\ lock' = None /\ pc'[r] = "ended"
  <2>1. CASE acquireLock(r)
    <3>1. (GoTo(r, "look") /\ lock = None /\ lock' = r) \/ (GoTo(r, "ended") /\ lock' = lock)
      BY <1>0, <2>1 DEF acquireLock
    <3> QED BY <1>0, <2>1, <3>1, GoAlone DEF GoTo, Rested, acquireLock, At
  <2>2. CASE releaseLock(r)
    <3>1. GoTo(r, "ended") /\ lock' \in {lock, IF lock = r THEN None ELSE lock}
      BY <2>2 DEF releaseLock
    <3> QED BY <1>0, <2>2, <3>1, GoAlone DEF GoTo, Rested
  <2> QED BY <2>1, <2>2
<1>3. Later
  BY <1>0, <1>1, LaterOn
<1>4. RequestFits(r)'
  <2>1. pc[r] = "new" => ride[r] = None
    BY DEF Ready, Placed, RequestFits, Early
  <2> QED BY <1>1, <1>2, <2>1, FitsAt
<1>5. /\ ~Once(r) /\ ~Buying(r) /\ ~Settling(r)
      /\ ~Once(r)' /\ ~Buying(r)' /\ ~Settling(r)'
  BY <1>1, <1>2 DEF Once, Buying, Settling, Debts
<1>6. Permits' <= Permits
  <2>1. Base' = Base
    BY <1>1 DEF Base
  <2>2. /\ lock \in {None, r} => Permits = Base
        /\ lock' \in {None, r} => Permits' = Base'
    <3>1. Base \in 0..1 /\ Base' \in 0..1
      BY DEF Base
    <3> QED BY <1>0, <1>5 DEF Permits
  <2>3. CASE lock \in {None, r} /\ lock' \in {None, r}
    BY <2>1, <2>2, <2>3, Amounts
  <2>4. CASE lock' = lock /\ lock \notin {None, r}
    <3>1. pc'[lock] = pc[lock] /\ loc'[lock] = loc[lock]
      BY <1>0, <1>2, <2>4 DEF Alone, DataOK, Procs
    <3> QED BY <1>1, <2>4, <3>1, PermitsSame
  <2> QED BY <1>2, <2>3, <2>4
<1>7. Forward(r)
  BY <1>1, <1>3 DEF Forward
<1>8. Serial'
  <2>1. \A q \in Requests : pc[q] \notin {"new", "ended"} => lock = q
    BY DEF Ready, Serial
  <2> QED BY <1>2, <2>1, ApartAssumption DEF Serial, Alone, Procs
<1>9. pc[r] \notin Giving /\ pc'[r] \notin Giving \union {"settle"}
  BY <1>1, <1>2 DEF Giving
<1>10. Permits' - losses' <= Permits - losses
  BY <1>3, <1>6, NoDearer
<1> QED BY <1>1, <1>2, <1>4, <1>5, <1>7, <1>8, <1>9, <1>10, PlainRequest

LEMMA LookKept ==
    ASSUME Ready, NEW r \in Requests,
           FindReplay(r) \/ claimBookingRecord(r) \/ FindPrior(r) \/ ResetPrior(r)
    PROVE  Kept
<1>0. DataOK /\ ProcsOK /\ r \in Procs /\ loc[r] \in Locals
  BY DEF Ready, Procs, ProcsOK
<1>1. /\ ride' = ride /\ refund' = refund /\ ref' = ref /\ losses' = losses /\ lock' = lock
      /\ waived' = waived /\ retried' = retried
      /\ pc[r] \in {"look", "claimRecord", "prior", "reset"}
  BY DEF FindReplay, claimBookingRecord, FindPrior, ResetPrior, Write, document, history, At, locks
<1>2. lock = r /\ Later /\ ride[r] = None
  BY <1>0, <1>1, InsideLocks, LaterOn DEF Ready, Placed, RequestFits, Early
<1>3. /\ pc[r] # "look" => Once(r)
      /\ pc[r] = "look" => ~Once(r) /\ ~Buying(r) /\ ~Settling(r)
  BY <1>1 DEF Once, Buying, Settling, Debts
<1>4. pc[r] \notin Giving \union {"release", "ended"}
  BY <1>1 DEF Giving
<1>5. CASE FindReplay(r)
  <2>1. /\ status' = status /\ pc[r] = "look"
        /\ (GoTo(r, "claimRecord") /\ status \notin IDEMPOTENT_RETURN_STATUSES) \/ Go(r, Blank, "release")
    BY <1>5 DEF FindReplay, document, At
  <2>2. /\ Alone(r) /\ pc'[r] \in {"claimRecord", "release"}
        /\ pc'[r] = "claimRecord" => status \notin IDEMPOTENT_RETURN_STATUSES
    BY <1>0, <2>1, GoAlone DEF GoTo
  <2>3. RequestFits(r)'
    BY <1>1, <1>2, <2>2, FitsAt
  <2>4. Permits' <= Permits
    <3>1. Permits = Base /\ Base' = Base /\ Base \in 0..1
      BY <1>2, <1>3, <2>1, PermitsOf DEF Base
    <3>2. CASE pc'[r] = "claimRecord"
      <4>1. Once(r)' /\ Base = 1
        BY <2>2, <3>2 DEF Once, Base
      <4> QED BY <1>1, <1>2, <3>1, <4>1, PermitsOfPrimed
    <3>3. CASE pc'[r] = "release"
      <4>1. ~Once(r)' /\ ~Buying(r)' /\ ~Settling(r)'
        BY <3>3 DEF Once, Buying, Settling, Debts
      <4> QED BY <1>1, <1>2, <3>1, <4>1, PermitsOfPrimed
    <3> QED BY <2>2, <3>2, <3>3
  <2>5. Permits' - losses' <= Permits - losses
    BY <1>2, <2>4, NoDearer
  <2>6. pc'[r] \notin Giving \union {"settle"} /\ ride[r] # "FAILED"
    BY <1>2, <2>2 DEF Giving, None
  <2> QED BY <1>1, <1>2, <1>4, <2>2, <2>3, <2>5, <2>6, InsideRequest
<1>6. CASE claimBookingRecord(r) \/ FindPrior(r) \/ ResetPrior(r)
  <2>1. pc[r] # "look" /\ Permits = 1
    BY <1>2, <1>3, <1>6, PermitsOf DEF claimBookingRecord, FindPrior, ResetPrior, At
  <2>2. \/ /\ Go(r, [Blank EXCEPT !.seen = "INITIATED"], "collect")
           /\ status' = "INITIATED"
        \/ GoTo(r, "prior") \/ GoTo(r, "reset") \/ Go(r, Blank, "release")
        \/ /\ Go(r, [Blank EXCEPT !.seen = status], "collect")
           /\ status \in IDEMPOTENT_RETURN_STATUSES /\ status' = status
    BY <1>6 DEF claimBookingRecord, FindPrior, ResetPrior, Write, document
  <2>3. Alone(r) /\ pc'[r] \in {"collect", "prior", "reset", "release"}
    BY <1>0, <2>2, GoAlone DEF GoTo
  <2>4. pc'[r] = "collect" =>
          \/ loc'[r].seen = "INITIATED" /\ status' = "INITIATED"
          \/ status' \in IDEMPOTENT_RETURN_STATUSES
    <3>1. CASE Go(r, [Blank EXCEPT !.seen = "INITIATED"], "collect") /\ status' = "INITIATED"
      <4>1. [Blank EXCEPT !.seen = "INITIATED"].seen = "INITIATED"
        BY DEF Blank
      <4>2. loc'[r] = [Blank EXCEPT !.seen = "INITIATED"]
        BY <1>0, <3>1, GoAlone
      <4> QED BY <3>1, <4>1, <4>2
    <3>2. CASE GoTo(r, "prior") \/ GoTo(r, "reset") \/ Go(r, Blank, "release")
      BY <1>0, <3>2, GoAlone DEF GoTo
    <3> QED BY <2>2, <3>1, <3>2
  <2>5. RequestFits(r)'
    BY <1>1, <1>2, <2>3, <2>4, FitsAt DEF IDEMPOTENT_RETURN_STATUSES, None
  <2>6. Permits' <= 1
    <3>1. CASE pc'[r] = "collect"
      <4>1. Buying(r)' /\ Open' = 0
        BY <2>4, <3>1 DEF Buying, Open, IDEMPOTENT_RETURN_STATUSES, None
      <4> QED BY <1>1, <1>2, <4>1, PermitsOfPrimed
    <3>2. CASE pc'[r] \in {"prior", "reset"}
      <4>1. Once(r)'
        BY <3>2 DEF Once
      <4> QED BY <1>1, <1>2, <4>1, PermitsOfPrimed
    <3>3. CASE pc'[r] = "release"
      <4>1. ~Once(r)' /\ ~Buying(r)' /\ ~Settling(r)'
        BY <3>3 DEF Once, Buying, Settling, Debts
      <4> QED BY <1>1, <1>2, <4>1, PermitsOfPrimed
    <3> QED BY <2>3, <3>1, <3>2, <3>3
  <2>7. Permits' - losses' <= Permits - losses
    BY <1>2, <2>1, <2>6, NoDearer
  <2>8. pc'[r] \notin Giving \union {"settle"} /\ ride[r] # "FAILED"
    BY <1>2, <2>3 DEF Giving, None
  <2> QED BY <1>1, <1>2, <1>4, <2>3, <2>5, <2>7, <2>8, InsideRequest
<1> QED BY <1>5, <1>6

LEMMA ChargeKept ==
    ASSUME Ready, NEW r \in Requests,
           \/ collectPayment(r) \/ CollectRefused(r) \/ CollectThrows(r) \/ CollectUnheard(r)
           \/ markFailed(r) \/ BookRefused(r)
    PROVE  Kept
<1>0. DataOK /\ ProcsOK /\ r \in Procs /\ loc[r] \in Locals
  BY DEF Ready, Procs, ProcsOK
<1>1. /\ ride' = ride /\ refund' = refund /\ ref' = ref /\ lock' = lock
      /\ waived' = waived /\ retried' = retried /\ (losses' = losses \/ Lose)
      /\ pc[r] \in {"collect", "markFailed", "commit"}
  BY DEF collectPayment, CollectRefused, CollectThrows, CollectUnheard, markFailed, BookRefused,
         Write, document, history, At, locks
<1>2. lock = r /\ Later /\ ride[r] = None
  BY <1>0, <1>1, InsideLocks, LaterOn DEF Ready, Placed, RequestFits, Early
<1>3. pc[r] \notin Giving \union {"release", "ended"} /\ Permits = 1 + Open /\ Open \in 0..1
  <2>1. Buying(r)
    BY <1>1 DEF Buying
  <2> QED BY <1>1, <1>2, <2>1, PermitsOf DEF Giving
<1>4. \/ status' = status /\ pc[r] = "collect" /\ GoTo(r, "commit")
      \/ status' = status /\ GoTo(r, "markFailed")
      \/ Go(r, Blank, "release")
      \/ status' = status /\ refundFailedBooking(r, loc[r], "release")
  BY DEF collectPayment, CollectRefused, CollectThrows, CollectUnheard, markFailed, BookRefused,
         document, At
<1>5. /\ Alone(r) /\ pc'[r] \in {"commit", "markFailed", "release", "claim"}
      /\ pc'[r] = "commit" => loc'[r] = loc[r] /\ pc[r] = "collect"
      /\ pc'[r] = "claim" => loc'[r].next = "release"
      /\ pc'[r] # "release" => status' = status
  <2>1. CASE refundFailedBooking(r, loc[r], "release") /\ status' = status
    <3> DEFINE l == [loc[r] EXCEPT !.kind = "FAILED_BOOKING", !.amount = Price, !.next = "release"]
    <3>1. l.amount = Price /\ l.next = "release"
      BY <1>0 DEF Locals
    <3>2. Go(r, l, "claim")
      BY <2>1, <3>1, PriceAssumption DEF refundFailedBooking, Execute
    <3> HIDE DEF l
    <3> QED BY <1>0, <2>1, <3>1, <3>2, GoAlone
  <2>2. CASE ~(refundFailedBooking(r, loc[r], "release") /\ status' = status)
    BY <1>0, <1>4, <2>2, GoAlone DEF GoTo
  <2> QED BY <2>1, <2>2
<1>6. RequestFits(r)'
  <2>1. CASE pc'[r] = "commit"
    <3>1. loc[r].seen = "INITIATED" \/ status \notin {None, "INITIATED"}
      BY <1>5, <2>1 DEF Ready, Placed, RequestFits
    <3> QED BY <1>1, <1>2, <1>5, <2>1, <3>1, FitsAt
  <2>2. CASE pc'[r] = "claim"
    BY <1>5, <2>2 DEF RequestFits, Early, Debts, Settling
  <2> QED BY <1>1, <1>2, <1>5, <2>1, <2>2, FitsAt
<1>7. Permits' <= Permits
  <2>1. CASE pc'[r] = "release"
    <3>1. ~Once(r)' /\ ~Buying(r)' /\ ~Settling(r)'
      BY <2>1 DEF Once, Buying, Settling, Debts
    <3> QED BY <1>1, <1>2, <1>3, <3>1, PermitsOfPrimed
  <2>2. CASE pc'[r] # "release"
    <3>1. Buying(r)' /\ Open' = Open
      BY <1>5, <2>2 DEF Buying, Debts, Open
    <3> QED BY <1>1, <1>2, <1>3, <3>1, PermitsOfPrimed
  <2> QED BY <2>1, <2>2
<1>8. Permits' - losses' <= Permits - losses
  BY <1>2, <1>7, NoDearer
<1>9. pc'[r] \notin Giving \union {"settle"} /\ ride[r] # "FAILED"
  BY <1>2, <1>5 DEF Giving, None
<1> QED BY <1>1, <1>2, <1>3, <1>5, <1>6, <1>8, <1>9, InsideRequest

LEMMA BookKept ==
    ASSUME Ready, NEW r \in Requests, Book(r) \/ BookUnheard(r)
    PROVE  Kept
<1>0. DataOK /\ ProcsOK /\ r \in Procs /\ loc[r] \in Locals /\ r \notin Jobs
  BY TwoKinds DEF Ready, Procs, ProcsOK
<1>1. /\ status' = status /\ refund' = refund /\ ref' = ref /\ lock' = lock
      /\ waived' = waived /\ retried' = retried
      /\ pc[r] = "commit" /\ ride' \in {ride, [ride EXCEPT ![r] = "PENDING"]}
  BY DEF Book, BookUnheard, document, history, At, locks
<1>2. \/ losses' = losses /\ GoTo(r, "settle")
      \/ Lose /\ refundFailedBooking(r, loc[r], "release")
  BY DEF Book, BookUnheard
<1>3. lock = r /\ Later
  BY <1>0, <1>1, <1>2, InsideLocks, LaterOn
<1>4. /\ ride[r] = None /\ (loc[r].seen = "INITIATED" \/ status \notin {None, "INITIATED"})
      /\ \A q \in Requests : q # r => ride'[q] = ride[q]
  BY <1>0, <1>1 DEF Ready, Placed, RequestFits, Early, DataOK
<1>5. /\ Alone(r)
      /\ \/ pc'[r] = "settle" /\ loc'[r] = loc[r] /\ losses' = losses
         \/ pc'[r] = "claim" /\ loc'[r].next = "release" /\ losses' = losses + 1
  <2>1. CASE Lose /\ refundFailedBooking(r, loc[r], "release")
    <3> DEFINE l == [loc[r] EXCEPT !.kind = "FAILED_BOOKING", !.amount = Price, !.next = "release"]
    <3>1. l.amount = Price /\ l.next = "release"
      BY <1>0 DEF Locals
    <3>2. Go(r, l, "claim")
      BY <2>1, <3>1, PriceAssumption DEF refundFailedBooking, Execute
    <3> HIDE DEF l
    <3> QED BY <1>0, <2>1, <3>1, <3>2, GoAlone DEF Lose
  <2>2. CASE losses' = losses /\ GoTo(r, "settle")
    BY <1>0, <2>2, GoAlone DEF GoTo
  <2> QED BY <1>2, <2>1, <2>2
<1>6. Permits' - losses' + 1 <= Permits - losses
  <2>1. Permits = 1 + Open /\ Open \in 0..1 /\ Open' = Open
    BY <1>1, <1>3, PermitsOf DEF Buying, Open
  <2>2. losses \in Nat
    BY <1>3 DEF Later
  <2>3. CASE pc'[r] = "settle"
    <3>1. Permits' = Open'
      BY <1>1, <1>3, <2>3, PermitsOfPrimed DEF Settling
    <3> QED BY <1>5, <2>1, <2>2, <2>3, <3>1
  <2>4. CASE pc'[r] = "claim"
    <3>1. Permits' = 1 + Open'
      BY <1>1, <1>3, <1>5, <2>4, PermitsOfPrimed DEF Buying, Debts
    <3> QED BY <1>5, <2>1, <2>2, <2>4, <3>1
  <2> QED BY <1>5, <2>3, <2>4
<1>7. /\ Parking' = Parking /\ Closers' = Closers /\ Givers' = Givers
      /\ \A q \in Requests : q # r => pc'[q] = pc[q] /\ (Once(q)' <=> Once(q))
  BY <1>1, <1>5, RequestFrame DEF Giving
<1>8. /\ Cardinality(Standing') <= Cardinality(Standing) + 1
      /\ Cardinality(Unspent') <= Cardinality(Unspent) + 1
  <2>1. Standing' \subseteq Standing \union {r} /\ Unspent' \subseteq Unspent \union {r}
    BY <1>4, <1>7 DEF Standing, Unspent
  <2> QED BY <2>1, Subsets, SubsetsPrimed, SizedMore
<1>9. Counted'
  <2>1. Cardinality(Parking') = Cardinality(Parking) /\ losses \in Int
    BY <1>3, <1>7 DEF Later
  <2>2. PICK n \in Int, l \in Int : Permits' = n /\ losses' = l
    BY <1>3, AmountsPrimed DEF Later
  <2>3. Cardinality(Standing') + Cardinality(Parking') + Permits' - losses'
          <= Cardinality(Standing) + Cardinality(Parking) + Permits - losses
    BY <1>6, <1>8, <2>1, <2>2, Amounts, AmountsPrimed
  <2>4. Cardinality(Unspent') + Cardinality(Parking') + Permits' - losses'
          <= Cardinality(Unspent) + Cardinality(Parking) + Permits - losses
    BY <1>6, <1>8, <2>1, <2>2, Amounts, AmountsPrimed
  <2> QED BY <1>1, <1>3, <1>7, <2>3, <2>4, SteadyCounts DEF Ready
<1>10. Placed'
  <2>1. Forward(r) /\ Rested(r)
    BY <1>1, <1>3, <1>4 DEF Forward, Rested, None
  <2>2. RequestFits(r)'
    BY <1>1, <1>4, <1>5 DEF RequestFits, Early, Debts, Settling
  <2>3. refund'.status = None => Givers' = {}
    BY <1>1, <1>7 DEF Ready, Placed
  <2> QED BY <1>0, <1>1, <1>5, <2>1, <2>2, <2>3, PlacedNext
<1>11. Serial'
  BY <1>0, <1>1, <1>3, <1>5, SerialNext
<1> QED BY <1>9, <1>10, <1>11 DEF Kept

LEMMA SettleKept ==
    ASSUME Ready, NEW r \in Requests, settleSupplier(r)
    PROVE  Kept
<1>0. DataOK /\ ProcsOK /\ r \in Procs /\ loc[r] \in Locals /\ r \notin Jobs
  BY TwoKinds DEF Ready, Procs, ProcsOK
<1>1. /\ status' = status /\ refund' = refund /\ ref' = ref /\ lock' = lock /\ ride' = ride
      /\ waived' = waived /\ retried' = retried /\ losses' = losses /\ pc[r] = "settle"
  BY DEF settleSupplier, document, history, At, locks
<1>2. \/ \E s \in {"CONFIRMED", "SUPPLIER_PENDING"} : Go(r, [loc[r] EXCEPT !.target = s], "finalize")
      \/ /\ ride[r] = "FAILED"
         /\ refundFailedBooking(r, [loc[r] EXCEPT !.target = "FAILED"], "finalize")
  BY DEF settleSupplier
<1>3. lock = r /\ Later
  BY <1>0, <1>1, InsideLocks, LaterOn
<1>4. /\ ~Once(r) /\ Settling(r) /\ Permits = Open /\ Open \in 0..1 /\ Open' = Open
      /\ loc[r].seen = "INITIATED" \/ status \notin {None, "INITIATED"}
  <2>1. ~Once(r) /\ Settling(r)
    BY <1>1 DEF Once, Settling, Debts
  <2>2. Permits = Open /\ Open \in 0..1 /\ Open' = Open
    BY <1>1, <1>3, <2>1, PermitsOf DEF Open
  <2> QED BY <1>1, <2>1, <2>2 DEF Ready, Placed, RequestFits
<1>5. CASE \E s \in {"CONFIRMED", "SUPPLIER_PENDING"} : Go(r, [loc[r] EXCEPT !.target = s], "finalize")
  <2>1. PICK s \in {"CONFIRMED", "SUPPLIER_PENDING"} : Go(r, [loc[r] EXCEPT !.target = s], "finalize")
    BY <1>5
  <2>2. Alone(r) /\ pc'[r] = "finalize" /\ loc'[r].target = s /\ loc'[r].seen = loc[r].seen
    BY <1>0, <2>1, GoAlone DEF Locals
  <2>3. RequestFits(r)'
    BY <1>1, <1>4, <2>2 DEF RequestFits, Early, Debts
  <2>4. Permits' <= Permits
    BY <1>1, <1>3, <1>4, <2>2, PermitsOfPrimed DEF Settling
  <2>5. Permits' - losses' <= Permits - losses
    BY <1>3, <2>4, NoDearer
  <2>6. /\ pc[r] \notin Giving \union {"release", "ended"}
        /\ pc'[r] \notin Giving \union {"settle"}
    BY <1>1, <2>2 DEF Giving
  <2> QED BY <1>1, <1>3, <1>4, <2>2, <2>3, <2>5, <2>6, InsideRequest
<1>6. CASE /\ ride[r] = "FAILED"
           /\ refundFailedBooking(r, [loc[r] EXCEPT !.target = "FAILED"], "finalize")
  <2>1. /\ Alone(r) /\ pc'[r] = "claim" /\ loc'[r].next = "finalize"
        /\ loc'[r].target = "FAILED" /\ loc'[r].seen = loc[r].seen
    <3> DEFINE l == [[loc[r] EXCEPT !.target = "FAILED"]
                       EXCEPT !.kind = "FAILED_BOOKING", !.amount = Price, !.next = "finalize"]
    <3>1. /\ l.amount = Price /\ l.next = "finalize" /\ l.target = "FAILED"
          /\ l.seen = loc[r].seen
      BY <1>0 DEF Locals
    <3>2. Go(r, l, "claim")
      BY <1>6, <3>1, PriceAssumption DEF refundFailedBooking, Execute
    <3> HIDE DEF l
    <3> QED BY <1>0, <3>1, <3>2, GoAlone
  <2>2. Once(r)' /\ Permits' = 1
    BY <1>1, <1>3, <2>1, PermitsOfPrimed DEF Once, Debts
  <2>3. /\ Parking' = Parking /\ Closers' = Closers /\ Givers' = Givers
        /\ \A q \in Requests : q # r => pc'[q] = pc[q] /\ (Once(q)' <=> Once(q))
    BY <1>1, <2>1, RequestFrame DEF Giving
  <2>4. /\ Cardinality(Standing') <= Cardinality(Standing) - 1
        /\ Cardinality(Unspent') <= Cardinality(Unspent) - 1
    <3>1. Standing' \subseteq Standing \ {r} /\ r \in Standing
      BY <1>1, <1>6, <2>1, <2>3 DEF Standing
    <3>2. Unspent' \subseteq Unspent \ {r} /\ r \in Unspent
      BY <1>1, <1>4, <1>6, <2>2, <2>3 DEF Unspent
    <3> QED BY <3>1, <3>2, Subsets, SizedLess
  <2>5. Counted'
    <3>1. Cardinality(Parking') = Cardinality(Parking) /\ losses' = losses /\ losses \in Int
      BY <1>1, <1>3, <2>3 DEF Later
    <3>2. Cardinality(Standing') + Cardinality(Parking') + Permits' - losses'
            <= Cardinality(Standing) + Cardinality(Parking) + Permits - losses
      BY <1>4, <2>2, <2>4, <3>1, Amounts, AmountsPrimed
    <3>3. Cardinality(Unspent') + Cardinality(Parking') + Permits' - losses'
            <= Cardinality(Unspent) + Cardinality(Parking) + Permits - losses
      BY <1>4, <2>2, <2>4, <3>1, Amounts, AmountsPrimed
    <3> QED BY <1>1, <1>3, <2>3, <3>2, <3>3, SteadyCounts DEF Ready
  <2>6. Placed'
    <3>1. Forward(r) /\ Rested(r)
      BY <1>1, <1>3 DEF Forward, Rested
    <3>2. RequestFits(r)'
      BY <1>1, <1>4, <2>1 DEF RequestFits, Early, Debts, Settling
    <3>3. refund'.status = None => Givers' = {}
      BY <1>1, <2>3 DEF Ready, Placed
    <3> QED BY <1>0, <1>1, <2>1, <3>1, <3>2, <3>3, PlacedNext
  <2>7. Serial'
    BY <1>0, <1>1, <1>3, <2>1, SerialNext
  <2> QED BY <2>5, <2>6, <2>7 DEF Kept
<1> QED BY <1>2, <1>5, <1>6

LEMMA FinalizeKept ==
    ASSUME Ready, NEW r \in Requests, finalizeBookingRecord(r)
    PROVE  Kept
<1>0. DataOK /\ ProcsOK /\ r \in Procs
  BY DEF Ready, Procs
<1>1. /\ refund' = refund /\ lock' = lock /\ ride' = ride
      /\ waived' = waived /\ retried' = retried /\ (losses' = losses \/ Lose)
      /\ pc[r] = "finalize" /\ Go(r, Blank, "release")
  BY DEF finalizeBookingRecord, document, history, At, locks
<1>2. \/ /\ ref' = r /\ losses' = losses
         /\ status' = IF loc[r].target = loc[r].seen THEN status ELSE loc[r].target
      \/ ref' = ref /\ status' = status /\ Lose
  BY DEF finalizeBookingRecord, document
<1>3. lock = r /\ Later
  BY <1>0, <1>1, InsideLocks, LaterOn
<1>4. Alone(r) /\ pc'[r] = "release" /\ RequestFits(r)'
  BY <1>0, <1>1, GoAlone, FitsAt
<1>5. RequestFits(r)
  BY DEF Ready, Placed
<1>6. refund.status = None => ~Once(r)
  BY <1>1, <1>5 DEF RequestFits, Once, Debts
<1>7. Permits' = Base' /\ Base' \in 0..1
  <2>1. ~Once(r)' /\ ~Buying(r)' /\ ~Settling(r)'
    BY <1>4 DEF Once, Buying, Settling, Debts
  <2> QED BY <1>1, <1>3, <2>1, PermitsOfPrimed
<1>8. Permits' - losses' <= Permits - losses
  <2>1. losses \in Nat
    BY <1>3 DEF Later
  <2>2. CASE loc[r].target = "FAILED"
    <3>1. Permits = 1
      BY <1>1, <1>3, <2>2, PermitsOf DEF Once
    <3>2. Permits' <= Permits
      BY <1>7, <3>1
    <3> QED BY <1>3, <3>2, NoDearer
  <2>3. CASE loc[r].target # "FAILED" /\ Lose
    <3>1. Permits \in 0..2 /\ losses' = losses + 1
      BY <2>3, Amounts DEF Lose
    <3>2. PICK n \in 0..1 : Permits' = n
      BY <1>7
    <3> QED BY <2>1, <3>1, <3>2
  <2>4. CASE loc[r].target # "FAILED" /\ ~Lose
    <3>1. Settling(r) /\ loc[r].target \in {"CONFIRMED", "SUPPLIER_PENDING"}
      BY <1>1, <1>5, <2>4 DEF Settling, RequestFits
    <3>2. Permits = Open
      BY <1>3, <3>1, PermitsOf
    <3>3. loc[r].seen = "INITIATED" \/ status \notin {None, "INITIATED"}
      BY <1>5, <3>1 DEF RequestFits
    <3>4. status \in Statuses \union {None}
      BY <1>0 DEF DataOK
    <3>5. Base' <= Open
      BY <1>2, <2>4, <3>1, <3>3, <3>4 DEF Base, Open, IDEMPOTENT_RETURN_STATUSES, Statuses, None
    <3>6. Permits' <= Permits
      BY <1>7, <3>2, <3>5
    <3> QED BY <1>3, <3>6, NoDearer
  <2> QED BY <2>2, <2>3, <2>4
<1>9. /\ pc[r] \notin Giving \union {"release", "ended"}
      /\ pc'[r] \notin Giving \union {"settle"}
  BY <1>1, <1>4 DEF Giving
<1> QED BY <1>1, <1>2, <1>3, <1>4, <1>6, <1>8, <1>9, InsideRequest

LEMMA RideKept ==
    ASSUME Ready, NEW r \in Requests, RideMoves(r)
    PROVE  Kept
<1>0. DataOK /\ r \in Procs /\ r \notin Jobs
  BY TwoKinds DEF Ready, Procs
<1>1. /\ status' = status /\ refund' = refund /\ ref' = ref /\ lock' = lock
      /\ waived' = waived /\ retried' = retried /\ losses' = losses
      /\ pc' = pc /\ loc' = loc /\ locking' = locking /\ lapsed' = lapsed
  BY DEF RideMoves, document, history, locks, proc
<1>2. /\ \A q \in Requests : q # r => ride'[q] = ride[q]
      /\ ride[r] \in {"PENDING", "CONFIRMED"} /\ ride'[r] \in {"CONFIRMED", "FAILED", "CANCELLED"}
      /\ ride'[r] = "FAILED" => ride[r] = "PENDING"
  BY <1>0 DEF RideMoves, DataOK
<1>3. Later
  BY <1>0, <1>1, LaterOn
<1>4. /\ Parking' = Parking /\ Closers' = Closers /\ Givers' = Givers
      /\ \A q \in Requests : (Once(q)' <=> Once(q))
  BY <1>1 DEF Parking, Closers, Givers, Once
<1>5. Standing' \subseteq Standing /\ Unspent' \subseteq Unspent
  BY <1>1, <1>2, <1>4 DEF Standing, Unspent
<1>6. Permits' = Permits
  BY <1>1 DEF Permits, Once, Buying, Settling, Base, Open
<1>7. Counted'
  <2>1. /\ Cardinality(Parking') = Cardinality(Parking)
        /\ Cardinality(Standing') <= Cardinality(Standing)
        /\ Cardinality(Unspent') <= Cardinality(Unspent)
        /\ losses \in Int
    BY <1>3, <1>4, <1>5, Subsets, SizedBelow DEF Later
  <2>2. Cardinality(Standing') + Cardinality(Parking') + Permits' - losses'
          <= Cardinality(Standing) + Cardinality(Parking) + Permits - losses
    BY <1>1, <1>6, <2>1, Amounts, AmountsPrimed
  <2>3. Cardinality(Unspent') + Cardinality(Parking') + Permits' - losses'
          <= Cardinality(Unspent) + Cardinality(Parking) + Permits - losses
    BY <1>1, <1>6, <2>1, Amounts, AmountsPrimed
  <2> QED BY <1>1, <1>3, <1>4, <2>2, <2>3, SteadyCounts DEF Ready
<1>8. Placed'
  <2>1. Alone(r) /\ Forward(r) /\ Rested(r)
    BY <1>1, <1>2, <1>3 DEF Alone, Forward, Rested, None
  <2>2. RequestFits(r)'
    <3>1. RequestFits(r) /\ ride[r] # None
      BY <1>2 DEF Ready, Placed, None
    <3> QED BY <1>1, <3>1 DEF RequestFits, Settling
  <2>3. refund'.status = None => Givers' = {}
    BY <1>1, <1>4 DEF Ready, Placed
  <2> QED BY <1>0, <1>1, <2>1, <2>2, <2>3, PlacedNext
<1>9. Serial'
  BY <1>1 DEF Ready, Serial
<1> QED BY <1>7, <1>8, <1>9 DEF Kept

-----------------------------------------------------------------------------
(* A job.                                                                  *)

LEMMA JobFrame ==
    ASSUME NEW j \in Jobs, Alone(j)
    PROVE  /\ \A q \in Requests : pc'[q] = pc[q] /\ loc'[q] = loc[q] /\ (Once(q)' <=> Once(q))
           /\ pc[j] \notin Giving /\ pc'[j] \notin Giving => Givers' = Givers /\ Closers' = Closers
           /\ pc[j] # "park" /\ pc'[j] # "park" => Parking' = Parking
<1>1. \A q \in Requests : pc'[q] = pc[q] /\ loc'[q] = loc[q]
  BY TwoKinds DEF Alone
<1>2. \A q \in Requests : Once(q)' <=> Once(q)
  BY <1>1 DEF Once
<1>3. \A i \in Jobs : i # j => pc'[i] = pc[i] /\ loc'[i] = loc[i]
  BY DEF Alone, Procs
<1>4. pc[j] \notin Giving /\ pc'[j] \notin Giving => Givers' = Givers
  BY DEF Alone, Givers
<1>5. pc[j] \notin Giving /\ pc'[j] \notin Giving => Closers' = Closers
  BY <1>3 DEF Closers, Giving
<1>6. pc[j] # "park" /\ pc'[j] # "park" => Parking' = Parking
  BY <1>3 DEF Parking
<1> QED BY <1>1, <1>2, <1>4, <1>5, <1>6

LEMMA JobPermits ==
    ASSUME DataOK, NEW j \in Jobs, Alone(j), lock' = lock
    PROVE  /\ Permits' <= Permits + 1
           /\ status' \in IDEMPOTENT_RETURN_STATUSES \union {status} => Permits' <= Permits
<1>1. lock = None \/ (pc'[lock] = pc[lock] /\ loc'[lock] = loc[lock])
  BY JobFrame DEF DataOK
<1> QED BY <1>1, PermitsSame

LEMMA PlainJob ==
    ASSUME Ready, NEW j \in Jobs, Alone(j), Forward(j), lock' = lock, ref' = ref, refund' = refund,
           pc[j] \notin Giving, pc'[j] \notin Giving, JobFits(j)',
           Cardinality(Standing') + Cardinality(Parking') + Permits' - losses'
             <= Cardinality(Standing) + Cardinality(Parking) + Permits - losses,
           Cardinality(Unspent') + Cardinality(Parking') + Permits' - losses'
             <= Cardinality(Unspent) + Cardinality(Parking) + Permits - losses
    PROVE  Kept
<1>1. j \in Procs /\ j \notin Requests
  BY TwoKinds DEF Procs
<1>2. Givers' = Givers /\ Closers' = Closers
  BY JobFrame
<1>3. Counted'
  BY <1>2, SteadyCounts DEF Ready, Forward
<1>4. Placed'
  <2>1. refund'.status = None => Givers' = {}
    BY <1>2 DEF Ready, Placed
  <2>2. Rested(j)
    BY <1>1 DEF Rested
  <2> QED BY <1>1, <2>1, <2>2, PlacedNext
<1>5. Serial'
  BY <1>1, SerialNext
<1> QED BY <1>3, <1>4, <1>5 DEF Kept

\* A job that leaves the rides alone, and hands nothing to a human.
LEMMA QuietJob ==
    ASSUME Ready, NEW j \in Jobs, Alone(j), Later, lock' = lock, document' = <<status', ref, refund>>,
           status' \in IDEMPOTENT_RETURN_STATUSES \union {status}, ride' = ride, losses' = losses,
           pc[j] \notin Giving \union {"park"}, pc'[j] \notin Giving \union {"park"}, JobFits(j)'
    PROVE  Kept
<1>1. DataOK /\ ref' = ref /\ refund' = refund
  BY DEF Ready, document
<1>2. Forward(j)
  BY <1>1 DEF Forward, IDEMPOTENT_RETURN_STATUSES, None
<1>3. Parking' = Parking /\ \A q \in Requests : pc'[q] = pc[q] /\ (Once(q)' <=> Once(q))
  BY JobFrame
<1>4. Standing' = Standing /\ Unspent' = Unspent
  BY <1>3 DEF Standing, Unspent
<1>5. Permits' - losses' <= Permits - losses
  BY <1>1, JobPermits, NoDearer
<1>6. /\ Cardinality(Standing') + Cardinality(Parking') + Permits' - losses'
           <= Cardinality(Standing) + Cardinality(Parking) + Permits - losses
      /\ Cardinality(Unspent') + Cardinality(Parking') + Permits' - losses'
           <= Cardinality(Unspent) + Cardinality(Parking) + Permits - losses
  <2>1. /\ Cardinality(Parking') = Cardinality(Parking)
        /\ Cardinality(Standing') = Cardinality(Standing)
        /\ Cardinality(Unspent') = Cardinality(Unspent)
    BY <1>3, <1>4
  <2>2. losses \in Int
    BY DEF Later
  <2>3. PICK n \in Int : Permits' = n
    BY AmountsPrimed
  <2> QED BY <1>5, <2>1, <2>2, <2>3, Amounts, AmountsPrimed
<1> QED BY <1>1, <1>2, <1>6, PlainJob

LEMMA BlankFits ==
    ASSUME NEW j \in Jobs, loc'[j] = Blank, pc'[j] = "idle"
    PROVE  JobFits(j)'
BY DEF JobFits, Blank, Past

LEMMA SweepKept ==
    ASSUME Ready, NEW j \in Jobs,
           \/ StartSweep(j) \/ resolve(j) \/ ResolveFails(j) \/ transition(j) \/ retryRefund(j)
           \/ StartCancel(j) \/ CancelRefused(j)
    PROVE  Kept
<1>0. /\ DataOK /\ ProcsOK /\ j \in Procs /\ j \notin Requests /\ loc[j] \in Locals
      /\ JobFits(j) /\ Past(ref)
  BY TwoKinds DEF Ready, Procs, ProcsOK, Placed
<1>1. /\ ride' = ride /\ losses' = losses /\ lock' = lock /\ document' = <<status', ref, refund>>
      /\ (waived => waived') /\ retried' = retried
      /\ pc[j] \in {"idle", "resolve", "transition", "cancel"}
  <2>1. waived => waived'
    <3>1. CASE resolve(j)
      BY <3>1 DEF resolve, Unanswered
    <3>2. CASE ~resolve(j)
      BY <3>2 DEF StartSweep, ResolveFails, transition, retryRefund, StartCancel,
                  CancelRefused, history
    <3> QED BY <3>1, <3>2
  <2> QED BY <2>1 DEF StartSweep, resolve, ResolveFails, transition, retryRefund, StartCancel,
         CancelRefused, Write, document, history, At, locks
<1>2. Later
  BY <1>0, <1>1, LossesAssumption DEF Later, Doubtful, DataOK
<1>3. pc[j] \notin Giving \union {"park"}
  BY <1>1 DEF Giving
<1>4. \A r \in Requests \union {None} :
        Past(r) /\ Alone(j) => (r # None => pc'[r] \in {"release", "ended"})
  BY <1>0, PastStays DEF Rested, Past
<1>5. CASE StartSweep(j) \/ StartCancel(j)
  <2>1. /\ status' = status /\ pc'[j] \in {"resolve", "cancel"} /\ Alone(j)
        /\ loc'[j] = [Blank EXCEPT !.ref = ref]
    BY <1>0, <1>5, GoAlone DEF StartSweep, StartCancel, document
  <2>2. loc'[j].ref = ref /\ ref \in Requests \union {None}
    BY <1>0, <2>1 DEF Blank, DataOK
  <2>3. JobFits(j)'
    BY <1>0, <1>4, <2>1, <2>2 DEF JobFits, Past
  <2> QED BY <1>1, <1>2, <1>3, <2>1, <2>3, QuietJob DEF Giving
<1>6. CASE ResolveFails(j) \/ transition(j) \/ CancelRefused(j)
  <2>1. Alone(j) /\ loc'[j] = Blank /\ pc'[j] = "idle"
    BY <1>0, <1>6, GoAlone DEF ResolveFails, transition, CancelRefused, Done
  <2>2. status' \in IDEMPOTENT_RETURN_STATUSES \union {status}
    BY <1>0, <1>6 DEF ResolveFails, transition, CancelRefused, document, Write, At, JobFits,
                      IDEMPOTENT_RETURN_STATUSES
  <2> QED BY <1>1, <1>2, <1>3, <2>1, <2>2, BlankFits, QuietJob DEF Giving
<1>7. CASE retryRefund(j)
  <2>1. refund.status = "FAILED" /\ status' = status /\ refund' = refund
    BY <1>7 DEF retryRefund, document
  <2>2. \E l : /\ Go(j, l, "zero") \/ Go(j, l, "claim")
               /\ l.ref = None
    <3>1. CASE Execute(j, [Blank EXCEPT !.kind = "CANCELLATION", !.amount = refund.amount])
      <4>1. [Blank EXCEPT !.kind = "CANCELLATION", !.amount = refund.amount].ref = None
        BY DEF Blank
      <4> QED BY <3>1, <4>1 DEF Execute
    <3>2. CASE refundFailedBooking(j, Blank, "idle")
      <4>1. [Blank EXCEPT !.kind = "FAILED_BOOKING", !.amount = Price, !.next = "idle"].ref = None
        BY DEF Blank
      <4> QED BY <3>2, <4>1 DEF refundFailedBooking, Execute
    <3> QED BY <1>7, <3>1, <3>2 DEF retryRefund
  <2>3. Alone(j) /\ pc'[j] \in {"zero", "claim"} /\ loc'[j].ref = None
    BY <1>0, <2>2, GoAlone
  <2>4. JobFits(j)'
    BY <2>1, <2>3 DEF JobFits, Past, None
  <2> QED BY <1>1, <1>2, <1>3, <2>1, <2>3, <2>4, QuietJob DEF Giving
<1>8. CASE resolve(j)
  <2>0. PICK said \in Says(j) :
          \/ /\ said \in {"CONFIRMED", "CANCELLED"}
             /\ Go(j, [loc[j] EXCEPT !.target = said], "transition") /\ UNCHANGED waived
          \/ said = "FAILED" /\ refundFailedBooking(j, loc[j], "idle") /\ UNCHANGED waived
          \/ said \in {None, "PENDING"} /\ Unanswered(j)
    BY <1>8 DEF resolve
  <2>1. status' = status /\ refund' = refund
    BY <1>8 DEF resolve, document
  <2>2. \/ said \in {"CONFIRMED", "CANCELLED"} /\ Go(j, [loc[j] EXCEPT !.target = said], "transition")
        \/ (said = "FAILED" \/ waived' = TRUE) /\ refundFailedBooking(j, loc[j], "idle")
        \/ Done(j)
    BY <2>0 DEF Unanswered
  <2>3. said = "FAILED" => loc[j].ref # None /\ ride[loc[j].ref] = "FAILED"
    BY <2>0 DEF Says, None
  <2>4. Past(loc[j].ref) /\ loc[j].ref \in Requests \union {None}
    BY <1>0 DEF JobFits, Locals
  <2>5. CASE said \in {"CONFIRMED", "CANCELLED"} /\ Go(j, [loc[j] EXCEPT !.target = said], "transition")
    <3>1. /\ Alone(j) /\ pc'[j] = "transition"
          /\ loc'[j].target \in {"CONFIRMED", "CANCELLED"} /\ loc'[j].ref = loc[j].ref
      BY <1>0, <2>5, GoAlone DEF Locals
    <3>2. JobFits(j)'
      BY <1>4, <2>4, <3>1 DEF JobFits, Past
    <3> QED BY <1>1, <1>2, <1>3, <2>1, <3>1, <3>2, QuietJob DEF Giving
  <2>6. CASE (said = "FAILED" \/ waived' = TRUE) /\ refundFailedBooking(j, loc[j], "idle")
    <3> DEFINE l == [loc[j] EXCEPT !.kind = "FAILED_BOOKING", !.amount = Price, !.next = "idle"]
    <3>1. l.amount = Price /\ l.ref = loc[j].ref
      BY <1>0 DEF Locals
    <3>2. Go(j, l, "claim")
      BY <2>6, <3>1, PriceAssumption DEF refundFailedBooking, Execute
    <3> HIDE DEF l
    <3>3. Alone(j) /\ pc'[j] = "claim" /\ loc'[j].ref = loc[j].ref
      BY <1>0, <3>1, <3>2, GoAlone
    <3>4. Doubtful' \/ (loc'[j].ref # None /\ ride'[loc'[j].ref] = "FAILED")
      BY <1>1, <2>3, <2>6, <3>3 DEF Doubtful
    <3>5. JobFits(j)'
      BY <1>4, <2>4, <3>3, <3>4 DEF JobFits, Past
    <3> QED BY <1>1, <1>2, <1>3, <2>1, <3>3, <3>5, QuietJob DEF Giving
  <2>7. CASE Done(j)
    <3>1. Alone(j) /\ loc'[j] = Blank /\ pc'[j] = "idle"
      BY <1>0, <2>7, GoAlone DEF Done
    <3> QED BY <1>1, <1>2, <1>3, <2>1, <3>1, BlankFits, QuietJob DEF Giving
  <2> QED BY <2>2, <2>5, <2>6, <2>7
<1> QED BY <1>5, <1>6, <1>7, <1>8

LEMMA CancelKept ==
    ASSUME Ready, NEW j \in Jobs, CancelAccepted(j) \/ CancelUnheard(j), loc[j].ref \in Requests
    PROVE  Kept
<1> DEFINE x == loc[j].ref
<1>0. /\ DataOK /\ ProcsOK /\ j \in Procs /\ j \notin Requests /\ loc[j] \in Locals
      /\ Past(x) /\ x \in Requests
  BY TwoKinds DEF Ready, Procs, ProcsOK, Placed, JobFits
<1>1. /\ status' = status /\ refund' = refund /\ ref' = ref /\ lock' = lock
      /\ waived' = waived /\ retried' = retried /\ (losses' = losses \/ Lose)
      /\ pc[j] = "cancel" /\ ride[x] \in {"PENDING", "CONFIRMED"}
      /\ ride' = [ride EXCEPT ![x] = "CANCELLED"]
  BY DEF CancelAccepted, CancelUnheard, document, history, At, locks
<1>2. /\ Alone(j) /\ pc'[j] \in {"idle", "park", "zero", "claim"}
      /\ loc'[j].ref \in {x, None}
      /\ pc'[j] = "claim" => loc'[j].kind = "CANCELLATION"
  <2>1. CASE CancelUnheard(j)
    <3>1. Alone(j) /\ pc'[j] = "idle" /\ loc'[j] = Blank
      BY <1>0, <2>1, GoAlone DEF CancelUnheard, Done
    <3> QED BY <3>1 DEF Blank
  <2>2. CASE CancelAccepted(j)
    <3>1. PICK back \in Refundable \union {Unclear} :
            IF back = Unclear THEN GoTo(j, "park")
            ELSE Execute(j, [loc[j] EXCEPT !.kind = "CANCELLATION", !.amount = back])
      BY <2>2 DEF CancelAccepted
    <3>2. CASE back = Unclear
      BY <1>0, <3>1, <3>2, GoAlone DEF GoTo
    <3>3. CASE back # Unclear
      <4> DEFINE l == [loc[j] EXCEPT !.kind = "CANCELLATION", !.amount = back]
      <4>1. l.kind = "CANCELLATION" /\ l.ref = x
        BY <1>0 DEF Locals
      <4>2. Go(j, l, "zero") \/ Go(j, l, "claim")
        BY <3>1, <3>3 DEF Execute
      <4> HIDE DEF l
      <4> QED BY <1>0, <4>1, <4>2, GoAlone
    <3> QED BY <3>2, <3>3
  <2> QED BY <1>1, <2>1, <2>2 DEF CancelAccepted, CancelUnheard
<1> HIDE DEF x
<1>3. Later
  BY <1>0, <1>1, LaterOn
<1>4. \A q \in Requests : pc'[q] = pc[q] /\ (Once(q)' <=> Once(q))
  BY <1>2, JobFrame
<1>5. /\ \A q \in Requests : q # x => ride'[q] = ride[q]
      /\ ride'[x] = "CANCELLED"
  BY <1>0, <1>1 DEF DataOK
<1>6. /\ Cardinality(Standing') <= Cardinality(Standing) - 1
      /\ Cardinality(Unspent') <= Cardinality(Unspent) - 1
  <2>1. Standing' \subseteq Standing \ {x} /\ x \in Standing
    BY <1>0, <1>1, <1>4, <1>5 DEF Standing
  <2>2. Unspent' \subseteq Unspent \ {x} /\ x \in Unspent
    BY <1>0, <1>1, <1>4, <1>5 DEF Unspent
  <2> QED BY <2>1, <2>2, Subsets, SizedLess
<1>7. Cardinality(Parking') <= Cardinality(Parking) + 1
  <2>1. Parking' \subseteq Parking \union {j}
    BY <1>2 DEF Parking, Alone, Procs
  <2> QED BY <2>1, Subsets, SubsetsPrimed, SizedMore
<1>8. Permits' - losses' <= Permits - losses
  BY <1>0, <1>1, <1>2, <1>3, JobPermits, NoDearer
<1>9. /\ Cardinality(Standing') + Cardinality(Parking') + Permits' - losses'
           <= Cardinality(Standing) + Cardinality(Parking) + Permits - losses
      /\ Cardinality(Unspent') + Cardinality(Parking') + Permits' - losses'
           <= Cardinality(Unspent) + Cardinality(Parking) + Permits - losses
  <2>1. losses \in Int
    BY <1>3 DEF Later
  <2>2. PICK n \in Int, l \in Int : Permits' = n /\ losses' = l
    BY <1>3, AmountsPrimed DEF Later
  <2> QED BY <1>6, <1>7, <1>8, <2>1, <2>2, Amounts, AmountsPrimed
<1>10. Forward(j)
  <2>1. \A q \in Requests : /\ ride[q] = None => ride'[q] = None
                            /\ ride[q] = "FAILED" => ride'[q] = "FAILED"
    BY <1>1, <1>5 DEF None
  <2> QED BY <1>1, <1>3, <2>1 DEF Forward
<1>11. JobFits(j)'
  <2>1. pc'[x] \in {"release", "ended"}
    BY <1>0, <1>4, ApartAssumption DEF Past
  <2> QED BY <1>2, <2>1 DEF JobFits, Past
<1>12. pc[j] \notin Giving /\ pc'[j] \notin Giving
  BY <1>1, <1>2 DEF Giving
<1> QED BY <1>1, <1>2, <1>9, <1>10, <1>11, <1>12, PlainJob

LEMMA ParkKept ==
    ASSUME Ready, NEW j \in Jobs, Park(j)
    PROVE  Kept
<1>0. DataOK /\ ProcsOK /\ j \in Procs /\ j \notin Requests
  BY TwoKinds DEF Ready, Procs
<1>1. /\ status' = "MANUAL_REVIEW" /\ refund' = refund /\ ref' = ref /\ lock' = lock
      /\ waived' = waived /\ retried' = retried /\ losses' = losses /\ ride' = ride
      /\ pc[j] = "park" /\ Go(j, Blank, "idle")
  BY DEF Park, Write, Done, document, history, At, locks
<1>2. Alone(j) /\ loc'[j] = Blank /\ pc'[j] = "idle"
  BY <1>0, <1>1, GoAlone
<1>3. Later
  BY <1>0, <1>1, LaterOn
<1>4. \A q \in Requests : pc'[q] = pc[q] /\ (Once(q)' <=> Once(q))
  BY <1>2, JobFrame
<1>5. Standing' = Standing /\ Unspent' = Unspent
  BY <1>1, <1>4 DEF Standing, Unspent
<1>6. Cardinality(Parking') <= Cardinality(Parking) - 1
  <2>1. Parking' \subseteq Parking \ {j} /\ j \in Parking
    BY <1>1, <1>2 DEF Parking, Alone, Procs
  <2> QED BY <2>1, Subsets, SizedLess
<1>7. Permits' <= Permits + 1
  BY <1>0, <1>1, <1>2, JobPermits
<1>8. /\ Cardinality(Standing') + Cardinality(Parking') + Permits' - losses'
           <= Cardinality(Standing) + Cardinality(Parking) + Permits - losses
      /\ Cardinality(Unspent') + Cardinality(Parking') + Permits' - losses'
           <= Cardinality(Unspent) + Cardinality(Parking) + Permits - losses
  <2>1. losses \in Int
    BY <1>3 DEF Later
  <2>2. PICK n \in Int : Permits' = n
    BY AmountsPrimed
  <2>3. Cardinality(Standing') = Cardinality(Standing) /\ Cardinality(Unspent') = Cardinality(Unspent)
    BY <1>5
  <2> QED BY <1>1, <1>6, <1>7, <2>1, <2>2, <2>3, Amounts, AmountsPrimed
<1>9. Forward(j)
  BY <1>1, <1>3 DEF Forward, None
<1>10. pc[j] \notin Giving /\ pc'[j] \notin Giving
  BY <1>1, <1>2 DEF Giving
<1> QED BY <1>1, <1>2, <1>8, <1>9, <1>10, BlankFits, PlainJob

-----------------------------------------------------------------------------
(* RefundService.                                                          *)

\* A step that writes the refund, and leaves no claim to take over.
LEMMA MoneyCounts ==
    ASSUME Counted, Later, losses' = losses, refund'.status # None, ~Vacant',
           Cardinality(Standing') <= Cardinality(Standing),
           Cardinality(Parking') <= Cardinality(Parking),
           Permits' + Cardinality(Givers') + (IF Admits' THEN 1 ELSE 0)
             <= Permits + Cardinality(Givers) + (IF Admits THEN 1 ELSE 0),
           ~Doubtful' /\ refund.status # None =>
             Permits' + Cardinality(Closers')
               <= Permits + Cardinality(Closers) + (IF Vacant THEN 1 ELSE 0),
           ~Doubtful' /\ refund.status = None =>
             Cardinality(Standing') + Permits' + Cardinality(Closers')
               <= Cardinality(Unspent) + Permits
    PROVE  Counted'
<1>1. losses \in Int
  BY DEF Later
<1>2. PICK n \in Int : Permits' = n
  BY AmountsPrimed
<1>3. Rides'
  BY <1>1, <1>2, Amounts, AmountsPrimed DEF Rides, Counted
<1>4. ASSUME ~Doubtful' PROVE Clean'
  <2>1. ~Doubtful /\ Clean
    BY <1>4 DEF Later, Counted
  <2>2. CASE refund.status = None
    <3>1. Cardinality(Unspent) + Cardinality(Parking) + Permits <= 1 + losses
      BY <2>1, <2>2 DEF Clean
    <3>2. Cardinality(Standing') + Permits' + Cardinality(Closers') <= Cardinality(Unspent) + Permits
      BY <1>4, <2>2
    <3>3. Cardinality(Standing') + Cardinality(Parking') + Permits' + Cardinality(Closers')
            <= 1 + losses
      BY <1>1, <1>2, <3>1, <3>2, Amounts, AmountsPrimed
    <3> QED BY <3>3, AmountsPrimed DEF Clean
  <2>3. CASE refund.status # None
    <3>1. Cardinality(Standing) + Cardinality(Parking) + Permits
            + Cardinality(Closers) + (IF Vacant THEN 1 ELSE 0) <= 1 + losses
      BY <2>1, <2>3 DEF Clean
    <3>2. Permits' + Cardinality(Closers')
            <= Permits + Cardinality(Closers) + (IF Vacant THEN 1 ELSE 0)
      BY <1>4, <2>3
    <3>3. Cardinality(Standing') + Cardinality(Parking') + Permits' + Cardinality(Closers')
            <= 1 + losses
      BY <1>1, <1>2, <3>1, <3>2, Amounts, AmountsPrimed
    <3> QED BY <3>3, AmountsPrimed DEF Clean
  <2> QED BY <2>2, <2>3
<1> QED BY <1>3, <1>4 DEF Counted

\* What a step of the refund engine leaves alone.
Engine(p) ==
    /\ Alone(p) /\ ride' = ride /\ ref' = ref /\ lock' = lock /\ Later
    /\ pc[p] \in {"zero", "claim", "pay", "complete", "fail"} /\ refund'.status # None
    /\ \/ pc'[p] \in Giving /\ loc'[p] = loc[p] /\ status' = status
       \/ /\ pc'[p] = loc[p].next /\ loc'[p].target \in {None, loc[p].target}
          /\ loc'[p].ref \in {None, loc[p].ref}
          /\ loc[p].next = "finalize" => loc'[p].target = loc[p].target

LEMMA RefundedGoes ==
    ASSUME ProcsOK, NEW p \in Procs, Refunded(p)
    PROVE  /\ Alone(p) /\ pc'[p] = loc[p].next /\ pc'[p] \in {"release", "finalize", "idle"}
           /\ loc'[p].target \in {None, loc[p].target} /\ loc'[p].ref \in {None, loc[p].ref}
           /\ loc[p].next = "finalize" => loc'[p].target = loc[p].target
<1>1. loc[p] \in Locals
  BY DEF ProcsOK
<1>2. CASE loc[p].next = "finalize"
  <2> DEFINE l == [loc[p] EXCEPT !.kind = None, !.amount = 0]
  <2>1. l.target = loc[p].target /\ l.ref = loc[p].ref
    BY <1>1 DEF Locals
  <2>2. Go(p, l, loc[p].next)
    BY <1>2 DEF Refunded
  <2> HIDE DEF l
  <2> QED BY <1>2, <2>1, <2>2, GoAlone
<1>3. CASE loc[p].next # "finalize"
  <2>1. Go(p, Blank, loc[p].next)
    BY <1>3 DEF Refunded
  <2> QED BY <1>1, <1>3, <2>1, GoAlone DEF Blank, Locals
<1> QED BY <1>2, <1>3

\* The engine at work for a request: whoever is to come is not helped by it.
LEMMA EngineRequest ==
    ASSUME Ready, NEW r \in Requests, Engine(r)
    PROVE  /\ Permits' <= Permits /\ RequestFits(r)' /\ (Once(r) => Once(r)')
           /\ lock = r /\ pc'[r] \notin {"settle", "park"}
<1>1. RequestFits(r) /\ pc[r] \in Debts /\ loc[r].next \in {"release", "finalize"}
  BY DEF Ready, Placed, Engine, RequestFits, Debts
<1>2. lock = r /\ lock' = r
  BY <1>1, InsideLocks DEF Engine, Debts
<1>3. loc[r].next = "finalize" => loc[r].target = "FAILED"
  BY <1>1 DEF RequestFits
<1>4. CASE pc'[r] \in Giving /\ loc'[r] = loc[r] /\ status' = status
  <2>1. pc'[r] \in Debts /\ pc'[r] \notin Early
    BY <1>4 DEF Giving, Debts, Early
  <2>2. (Once(r)' <=> Once(r)) /\ (Buying(r)' <=> Buying(r)) /\ Open' = Open
    BY <1>1, <1>4, <2>1 DEF Once, Buying, Open, Debts
  <2>3. Once(r) \/ Buying(r)
    BY <1>1 DEF Once, Buying
  <2>4. Permits' <= Permits
    BY <1>2, <2>2, <2>3, PermitsOf, PermitsOfPrimed
  <2>5. RequestFits(r)'
    BY <1>1, <1>3, <1>4, <2>1 DEF RequestFits, Debts, Settling
  <2> QED BY <1>2, <2>1, <2>2, <2>4, <2>5 DEF Debts
<1>5. CASE pc'[r] = "finalize" /\ loc[r].next = "finalize" /\ loc'[r].target = loc[r].target
  <2>1. Once(r)' /\ Once(r)
    BY <1>1, <1>3, <1>5 DEF Once
  <2>2. Permits' <= Permits
    BY <1>2, <2>1, PermitsOf, PermitsOfPrimed
  <2>3. RequestFits(r)'
    BY <1>3, <1>5 DEF RequestFits, Debts, Early, Settling, Engine
  <2> QED BY <1>2, <1>5, <2>1, <2>2, <2>3
<1>6. CASE pc'[r] = "release" /\ loc[r].next = "release"
  <2>1. Buying(r) /\ ~Once(r)
    BY <1>1, <1>6 DEF Buying, Once, Debts
  <2>2. ~Once(r)' /\ ~Buying(r)' /\ ~Settling(r)'
    BY <1>6 DEF Once, Buying, Settling, Debts
  <2>3. Permits' <= Permits
    BY <1>2, <2>1, <2>2, PermitsOf, PermitsOfPrimed
  <2>4. RequestFits(r)'
    BY <1>6, FitsAt
  <2> QED BY <1>2, <1>6, <2>1, <2>3, <2>4
<1> QED BY <1>1, <1>4, <1>5, <1>6 DEF Engine

\* And for a job: it may call the document FAILED.
LEMMA EngineJob ==
    ASSUME Ready, NEW j \in Jobs, Engine(j)
    PROVE  /\ Permits' <= Permits + 1 /\ JobFits(j)' /\ pc'[j] # "park"
           /\ status' \in IDEMPOTENT_RETURN_STATUSES \union {status} => Permits' <= Permits
<1>1. /\ DataOK /\ Past(loc[j].ref) /\ loc[j] \in Locals /\ j \in Procs
  BY DEF Ready, Placed, JobFits, ProcsOK, Procs
<1>2. /\ Permits' <= Permits + 1
      /\ status' \in IDEMPOTENT_RETURN_STATUSES \union {status} => Permits' <= Permits
  BY <1>1, JobPermits DEF Engine
<1>3. /\ loc'[j].ref \in {None, loc[j].ref}
      /\ pc'[j] \in Giving \union {"release", "finalize", "idle"}
  BY <1>1 DEF Engine, Locals
<1>4. Past(loc[j].ref)'
  <2>1. loc[j].ref \in Requests \union {None} /\ Alone(j) /\ Rested(j)
    BY <1>1, TwoKinds DEF Locals, Engine, Rested
  <2>2. \A r \in Requests \union {None} : Past(r) => Past(r)'
    BY <1>1, <2>1, PastStays
  <2>3. loc[j].ref # None => pc'[loc[j].ref] \in {"release", "ended"}
    BY <1>1, <2>1, <2>2 DEF Past
  <2>4. loc'[j].ref # None => pc'[loc'[j].ref] \in {"release", "ended"}
    BY <1>3, <2>3
  <2> QED BY <2>4 DEF Past
<1> QED BY <1>2, <1>3, <1>4 DEF JobFits, Giving, Past

LEMMA EngineFrame ==
    ASSUME Ready, NEW p \in Procs, Engine(p), status' \in {status, "FAILED", "CANCELLED"}
    PROVE  /\ Cardinality(Standing') <= Cardinality(Standing)
           /\ Cardinality(Unspent') <= Cardinality(Unspent)
           /\ Cardinality(Parking') <= Cardinality(Parking)
           /\ Serial' /\ Placed'
           /\ p \in Requests => Permits' <= Permits /\ Closers' = Closers
           /\ p \in Jobs =>
                /\ Permits' <= Permits + 1
                /\ status' \in IDEMPOTENT_RETURN_STATUSES \union {status} => Permits' <= Permits
<1>1. /\ p \in Requests => /\ Permits' <= Permits /\ RequestFits(p)' /\ (Once(p) => Once(p)')
                           /\ lock = p /\ pc'[p] \notin {"settle", "park"}
      /\ p \in Jobs => /\ Permits' <= Permits + 1 /\ JobFits(p)' /\ pc'[p] # "park"
                       /\ status' \in IDEMPOTENT_RETURN_STATUSES \union {status} => Permits' <= Permits
  BY EngineRequest, EngineJob
<1>2. /\ p \in Requests => Closers' = Closers
      /\ \A q \in Requests : q # p => pc'[q] = pc[q] /\ (Once(q)' <=> Once(q))
  BY RequestFrame, JobFrame, TwoKinds DEF Engine, Procs
<1>3. Standing' \subseteq Standing /\ Unspent' \subseteq Unspent /\ Parking' \subseteq Parking
  <2>1. \A q \in Requests : (pc'[q] = "settle" => pc[q] = "settle") /\ (Once(q) => Once(q)')
    BY <1>1, <1>2
  <2>2. \A j \in Jobs : pc'[j] = "park" => pc[j] = "park"
    BY <1>1 DEF Engine, Alone, Procs
  <2> QED BY <2>1, <2>2 DEF Standing, Unspent, Parking, Engine
<1>4. Forward(p) /\ Rested(p)
  BY DEF Forward, Rested, Engine, None
<1>5. Placed'
  BY <1>1, <1>4, PlacedNext DEF Engine
<1>6. Serial'
  BY <1>1, SerialNext DEF Engine
<1> QED BY <1>1, <1>2, <1>3, <1>5, <1>6, Subsets, SizedBelow

\* One claims, or is done.
LEMMA GiverMoves ==
    ASSUME NEW p \in Procs, Alone(p)
    PROVE  /\ pc[p] \notin Giving /\ pc'[p] \in Giving
                => Cardinality(Givers') <= Cardinality(Givers) + 1
           /\ pc[p] \in Giving /\ pc'[p] \notin Giving
                => Cardinality(Givers') <= Cardinality(Givers) - 1
           /\ (pc[p] \in Giving <=> pc'[p] \in Giving) => Givers' = Givers
<1>1. ASSUME pc'[p] \in Giving PROVE Cardinality(Givers') <= Cardinality(Givers) + 1
  <2>1. Givers' \subseteq Givers \union {p}
    BY DEF Givers, Alone
  <2> QED BY <2>1, Subsets, SubsetsPrimed, SizedMore
<1>2. ASSUME pc[p] \in Giving, pc'[p] \notin Giving
      PROVE  Cardinality(Givers') <= Cardinality(Givers) - 1
  <2>1. Givers' \subseteq Givers \ {p} /\ p \in Givers
    BY <1>2 DEF Givers, Alone
  <2> QED BY <2>1, Subsets, SizedLess
<1>3. (pc[p] \in Giving <=> pc'[p] \in Giving) => Givers' = Givers
  BY DEF Givers, Alone
<1> QED BY <1>1, <1>2, <1>3

LEMMA CloserMoves ==
    ASSUME NEW p \in Procs, Alone(p)
    PROVE  /\ Cardinality(Closers') <= Cardinality(Closers) + 1
           /\ \/ p \in Jobs /\ loc'[p].kind = "FAILED_BOOKING" /\ pc'[p] \in {"pay", "complete"}
              \/ Closers' \subseteq Closers
<1>1. \A j \in Jobs : j # p => pc'[j] = pc[j] /\ loc'[j] = loc[j]
  BY DEF Alone, Procs
<1>2. Closers' \subseteq Closers \union {p}
  BY <1>1 DEF Closers
<1>3. \/ p \in Jobs /\ loc'[p].kind = "FAILED_BOOKING" /\ pc'[p] \in {"pay", "complete"}
      \/ Closers' \subseteq Closers
  BY <1>1 DEF Closers
<1> QED BY <1>2, <1>3, Subsets, SubsetsPrimed, SizedMore

\* While the document has no refund, nobody gives money back.
LEMMA NoneGiving ==
    ASSUME Ready, refund.status = None
    PROVE  Givers = {} /\ Cardinality(Closers) = 0 /\ Cardinality(Standing) <= Cardinality(Unspent)
<1>1. Givers = {}
  BY DEF Ready, Placed
<1>2. Closers = {}
  BY <1>1 DEF Closers, Givers, Giving, Procs
<1> QED BY <1>1, <1>2, StandingUnspent, Subsets, SizedBelow, FS_EmptySet

LEMMA ClaimKept ==
    ASSUME Ready, NEW p \in Procs, claim(p), Claimable
    PROVE  Kept
<1>0. DataOK /\ ProcsOK
  BY DEF Ready
<1>1. /\ status' = status /\ ref' = ref /\ lock' = lock /\ ride' = ride /\ losses' = losses
      /\ waived' = waived /\ pc[p] = "claim" /\ GoTo(p, "pay")
      /\ refund' = [status |-> "PROCESSING", kind |-> loc[p].kind,
                    amount |-> loc[p].amount, stale |-> FALSE]
      /\ retried' = (retried \/ (refund.status = "FAILED" /\ loc[p].kind = "FAILED_BOOKING"))
  BY DEF claim, locks, At
<1>2. Alone(p) /\ pc'[p] = "pay" /\ loc'[p] = loc[p]
  BY <1>0, <1>1, GoAlone DEF GoTo
<1>3. Later
  BY <1>0, <1>1, LossesAssumption DEF Later, Doubtful, DataOK
<1>4. /\ refund'.status = "PROCESSING" /\ refund'.stale = FALSE /\ refund'.status # None
  BY <1>1 DEF None
<1>5. Engine(p)
  BY <1>1, <1>2, <1>3, <1>4 DEF Engine, Giving
<1>6. /\ Cardinality(Standing') <= Cardinality(Standing)
      /\ Cardinality(Unspent') <= Cardinality(Unspent)
      /\ Cardinality(Parking') <= Cardinality(Parking)
      /\ Serial' /\ Placed' /\ Permits' <= Permits
  BY <1>1, <1>5, EngineFrame DEF Procs
<1>7. ~Vacant' /\ ~Admits' /\ Admits
  <2>1. pc'[p] \in Giving
    BY <1>2 DEF Giving
  <2> QED BY <1>4, <2>1 DEF Vacant, Admits, None, Claimable
<1>8. Cardinality(Givers') <= Cardinality(Givers) + 1
  BY <1>1, <1>2, GiverMoves DEF Giving
<1>9. PICK n \in Int : Permits' = n
  BY AmountsPrimed
<1>10. Permits' + Cardinality(Givers') + (IF Admits' THEN 1 ELSE 0)
         <= Permits + Cardinality(Givers) + (IF Admits THEN 1 ELSE 0)
  BY <1>6, <1>7, <1>8, <1>9, Amounts, AmountsPrimed
<1>11. ASSUME ~Doubtful', refund.status # None
       PROVE  Permits' + Cardinality(Closers')
                <= Permits + Cardinality(Closers) + (IF Vacant THEN 1 ELSE 0)
  <2>1. CASE refund.status = "FAILED"
    <3>1. loc'[p].kind # "FAILED_BOOKING"
      BY <1>1, <1>2, <1>11, <2>1 DEF Doubtful
    <3>2. Closers' \subseteq Closers
      BY <1>2, <3>1, CloserMoves
    <3>3. Cardinality(Closers') <= Cardinality(Closers)
      BY <3>2, Subsets, SizedBelow
    <3> QED BY <1>6, <1>9, <3>3, Amounts, AmountsPrimed
  <2>2. CASE refund.status = "PROCESSING" /\ refund.stale
    <3>1. Vacant
      BY <2>2 DEF Vacant
    <3>2. Cardinality(Closers') <= Cardinality(Closers) + 1
      BY <1>2, CloserMoves
    <3> QED BY <1>6, <1>9, <3>1, <3>2, Amounts, AmountsPrimed
  <2> QED BY <1>11, <2>1, <2>2 DEF Claimable
<1>12. ASSUME ~Doubtful', refund.status = None
       PROVE  Cardinality(Standing') + Permits' + Cardinality(Closers')
                <= Cardinality(Unspent) + Permits
  <2>1. Cardinality(Closers) = 0 /\ Cardinality(Standing) <= Cardinality(Unspent)
    BY <1>12, NoneGiving
  <2>2. CASE p \in Jobs /\ loc[p].kind = "FAILED_BOOKING"
    <3> DEFINE x == loc[p].ref
    <3>1. x \in Requests /\ ride[x] = "FAILED" /\ pc[x] \in {"release", "ended"}
      <4>1. JobFits(p) /\ ~Doubtful /\ x \in Requests \union {None}
        BY <1>0, <1>3, <1>12, <2>2 DEF Ready, Placed, Later, ProcsOK, Locals
      <4> QED BY <1>1, <1>12, <2>2, <4>1 DEF JobFits, Past
    <3> HIDE DEF x
    <3>2. x \in Unspent /\ Standing \subseteq Unspent \ {x}
      BY <3>1, StandingUnspent DEF Unspent, Standing, Once, Debts
    <3>3. Cardinality(Standing) <= Cardinality(Unspent) - 1
      BY <3>2, Subsets, SizedLess
    <3>4. Cardinality(Closers') <= 1
      BY <1>2, <2>1, CloserMoves
    <3> QED BY <1>6, <1>9, <3>3, <3>4, Amounts, AmountsPrimed
  <2>3. CASE ~(p \in Jobs /\ loc[p].kind = "FAILED_BOOKING")
    <3>1. Closers' \subseteq Closers
      BY <1>2, <2>3, CloserMoves
    <3>2. Cardinality(Closers') <= 0
      BY <2>1, <3>1, Subsets, SizedBelow
    <3> QED BY <1>6, <1>9, <2>1, <3>2, Amounts, AmountsPrimed
  <2> QED BY <2>2, <2>3
<1>13. Counted'
  BY <1>1, <1>3, <1>4, <1>6, <1>7, <1>10, <1>11, <1>12, MoneyCounts DEF Ready
<1> QED BY <1>6, <1>13 DEF Kept

LEMMA PayKept ==
    ASSUME Ready, NEW p \in Procs, Pay(p) \/ PayFails(p) \/ PayUnheard(p) \/ CompleteRejected(p)
    PROVE  Kept
<1>0. DataOK /\ ProcsOK
  BY DEF Ready
<1>1. /\ status' = status /\ refund' = refund /\ ref' = ref /\ lock' = lock /\ ride' = ride
      /\ (losses' = losses \/ Lose) /\ waived' = waived /\ retried' = retried
      /\ pc[p] \in {"pay", "complete"}
      /\ \/ GoTo(p, "fail")
         \/ GoTo(p, "complete") /\ pc[p] = "pay"
  BY DEF Pay, PayFails, PayUnheard, CompleteRejected, document, locks, history, At
<1>2. /\ Alone(p) /\ loc'[p] = loc[p] /\ pc'[p] \in {"complete", "fail"}
      /\ pc'[p] = "complete" => pc[p] = "pay"
  BY <1>0, <1>1, GoAlone DEF GoTo
<1>3. Later /\ losses \in Int
  BY <1>0, <1>1, LaterOn DEF Later
<1>4. pc[p] \in Giving /\ pc'[p] \in Giving
  BY <1>1, <1>2 DEF Giving
<1>5. Givers' = Givers /\ Closers' \subseteq Closers
  <2>1. \A j \in Jobs : j # p => pc'[j] = pc[j] /\ loc'[j] = loc[j]
    BY <1>2 DEF Alone, Procs
  <2> QED BY <1>1, <1>2, <1>4, <2>1, GiverMoves DEF Closers
<1>6. refund.status # None
  BY <1>4 DEF Ready, Placed, Givers
<1>7. Engine(p)
  BY <1>1, <1>2, <1>3, <1>4, <1>6 DEF Engine
<1>8. /\ Cardinality(Standing') <= Cardinality(Standing)
      /\ Cardinality(Parking') <= Cardinality(Parking)
      /\ Serial' /\ Placed' /\ Permits' <= Permits
  BY <1>1, <1>7, EngineFrame DEF Procs
<1>9. Cardinality(Standing') + Cardinality(Parking') + Permits' - losses'
        <= Cardinality(Standing) + Cardinality(Parking) + Permits - losses
  <2>1. Permits' - losses' <= Permits - losses
    BY <1>3, <1>8, NoDearer
  <2>2. PICK n \in Int, l \in Int : Permits' = n /\ losses' = l
    BY <1>3, AmountsPrimed DEF Later
  <2> QED BY <1>3, <1>8, <2>1, <2>2, Amounts, AmountsPrimed
<1>10. Counted'
  BY <1>1, <1>3, <1>5, <1>6, <1>9, SteadyCounts DEF Ready
<1> QED BY <1>8, <1>10 DEF Kept

LEMMA TurnedAwayKept ==
    ASSUME Ready, NEW p \in Procs,
           (claim(p) /\ ~Claimable) \/ (recordZeroRefund(p) /\ refund.status = "COMPLETED")
    PROVE  Kept
<1>0. DataOK /\ ProcsOK
  BY DEF Ready
<1>1. /\ status' = status /\ refund' = refund /\ ref' = ref /\ lock' = lock /\ ride' = ride
      /\ losses' = losses /\ waived' = waived /\ retried' = retried
      /\ pc[p] \in {"zero", "claim"} /\ Refunded(p) /\ refund.status # None
  BY DEF claim, recordZeroRefund, Claimable, locks, history, At, None
<1>2. Later /\ losses \in Int
  BY <1>0, <1>1, LaterOn DEF Later
<1>3. Engine(p) /\ Alone(p) /\ pc'[p] \in {"release", "finalize", "idle"}
  BY <1>0, <1>1, <1>2, RefundedGoes DEF Engine
<1>4. Givers' = Givers /\ Closers' \subseteq Closers
  BY <1>1, <1>3, GiverMoves, CloserMoves DEF Giving
<1>5. /\ Cardinality(Standing') <= Cardinality(Standing)
      /\ Cardinality(Parking') <= Cardinality(Parking)
      /\ Serial' /\ Placed' /\ Permits' <= Permits
  BY <1>1, <1>3, EngineFrame DEF Procs
<1>6. Cardinality(Standing') + Cardinality(Parking') + Permits' - losses'
        <= Cardinality(Standing) + Cardinality(Parking) + Permits - losses
  <2>1. PICK n \in Int : Permits' = n
    BY AmountsPrimed
  <2> QED BY <1>1, <1>2, <1>5, <2>1, Amounts, AmountsPrimed
<1>7. Counted'
  BY <1>1, <1>2, <1>4, <1>6, SteadyCounts DEF Ready
<1> QED BY <1>5, <1>7 DEF Kept

LEMMA ZeroKept ==
    ASSUME Ready, NEW p \in Procs, recordZeroRefund(p), refund.status # "COMPLETED"
    PROVE  Kept
<1>0. DataOK /\ ProcsOK
  BY DEF Ready
<1>1. /\ status' = "CANCELLED" /\ refund'.status = "COMPLETED" /\ ref' = ref /\ lock' = lock
      /\ ride' = ride /\ losses' = losses /\ waived' = waived /\ retried' = retried
      /\ pc[p] = "zero" /\ Refunded(p)
  BY DEF recordZeroRefund, NoRefund, locks, history, At
<1>2. Later
  BY <1>0, <1>1, LaterOn
<1>3. Engine(p) /\ Alone(p) /\ pc'[p] \in {"release", "finalize", "idle"}
  BY <1>0, <1>1, <1>2, RefundedGoes DEF Engine, None
<1>4. Givers' = Givers /\ Closers' \subseteq Closers
  BY <1>1, <1>3, GiverMoves, CloserMoves DEF Giving
<1>5. Cardinality(Givers') = Cardinality(Givers) /\ Cardinality(Closers') <= Cardinality(Closers)
  BY <1>4, Subsets, SizedBelow
<1>6. /\ Cardinality(Standing') <= Cardinality(Standing)
      /\ Cardinality(Parking') <= Cardinality(Parking)
      /\ Serial' /\ Placed' /\ Permits' <= Permits
  BY <1>1, <1>3, EngineFrame DEF Procs, IDEMPOTENT_RETURN_STATUSES
<1>7. ~Vacant' /\ ~Admits' /\ refund'.status # None
  BY <1>1 DEF Vacant, Admits, None
<1>8. PICK n \in Int : Permits' = n
  BY AmountsPrimed
<1>9. Permits' + Cardinality(Givers') + (IF Admits' THEN 1 ELSE 0)
        <= Permits + Cardinality(Givers) + (IF Admits THEN 1 ELSE 0)
  BY <1>5, <1>6, <1>7, <1>8, Amounts, AmountsPrimed
<1>10. Permits' + Cardinality(Closers')
         <= Permits + Cardinality(Closers) + (IF Vacant THEN 1 ELSE 0)
  BY <1>5, <1>6, <1>8, Amounts, AmountsPrimed
<1>11. ASSUME refund.status = None
       PROVE  Cardinality(Standing') + Permits' + Cardinality(Closers')
                <= Cardinality(Unspent) + Permits
  <2>1. Cardinality(Closers) = 0 /\ Cardinality(Standing) <= Cardinality(Unspent)
    BY <1>11, NoneGiving
  <2> QED BY <1>5, <1>6, <1>8, <2>1, Amounts, AmountsPrimed
<1>12. Counted'
  BY <1>1, <1>2, <1>6, <1>7, <1>9, <1>10, <1>11, MoneyCounts DEF Ready
<1> QED BY <1>6, <1>12 DEF Kept

\* A refund that is over frees the claim, or calls the document FAILED: not both.
LEMMA RecordKept ==
    ASSUME Ready, NEW p \in Procs, Complete(p) \/ Fail(p)
    PROVE  Kept
<1>0. DataOK /\ ProcsOK
  BY DEF Ready
<1>1. /\ ref' = ref /\ lock' = lock /\ ride' = ride /\ losses' = losses
      /\ waived' = waived /\ retried' = retried /\ pc[p] \in Giving /\ Refunded(p)
      /\ \/ /\ pc[p] = "complete" /\ refund'.status = "COMPLETED"
            /\ status' = FinalStatus(loc[p].kind)
         \/ pc[p] = "fail" /\ refund'.status = "FAILED" /\ status' = status
  <2>1. refund \in Refunds
    BY <1>0 DEF DataOK
  <2> QED BY <2>1 DEF Complete, Fail, Refunds, locks, history, At, Giving
<1>2. Later
  BY <1>0, <1>1, LaterOn
<1>3. Engine(p) /\ Alone(p) /\ pc'[p] \in {"release", "finalize", "idle"}
  BY <1>0, <1>1, <1>2, RefundedGoes DEF Engine, None, Giving
<1>4. Cardinality(Givers') <= Cardinality(Givers) - 1
  BY <1>1, <1>3, GiverMoves DEF Giving
<1>5. Cardinality(Closers') <= Cardinality(Closers)
  <2>1. Closers' \subseteq Closers
    BY <1>3, CloserMoves
  <2> QED BY <2>1, Subsets, SizedBelow
<1>6. status' \in {status, "FAILED", "CANCELLED"}
  BY <1>1 DEF FinalStatus
<1>7. /\ Cardinality(Standing') <= Cardinality(Standing)
      /\ Cardinality(Parking') <= Cardinality(Parking)
      /\ Serial' /\ Placed'
      /\ p \in Requests => Permits' <= Permits
      /\ p \in Jobs =>
           /\ Permits' <= Permits + 1
           /\ status' \in IDEMPOTENT_RETURN_STATUSES \union {status} => Permits' <= Permits
  BY <1>3, <1>6, EngineFrame
<1>8. ~Vacant' /\ refund'.status # None /\ (pc[p] = "complete" => ~Admits')
  BY <1>1 DEF Vacant, Admits, None
<1>9. refund.status # None
  BY <1>1 DEF Ready, Placed, Givers
<1>10. PICK n \in Int : Permits' = n
  BY AmountsPrimed
<1>11. CASE pc[p] = "fail"
  <2>1. Permits' <= Permits
    BY <1>1, <1>7, <1>11 DEF Procs
  <2>2. Permits' + Cardinality(Givers') + (IF Admits' THEN 1 ELSE 0)
          <= Permits + Cardinality(Givers) + (IF Admits THEN 1 ELSE 0)
    BY <1>4, <1>10, <2>1, Amounts, AmountsPrimed
  <2>3. Permits' + Cardinality(Closers')
          <= Permits + Cardinality(Closers) + (IF Vacant THEN 1 ELSE 0)
    BY <1>5, <1>10, <2>1, Amounts, AmountsPrimed
  <2>4. Counted'
    BY <1>1, <1>2, <1>7, <1>8, <1>9, <2>2, <2>3, MoneyCounts DEF Ready
  <2> QED BY <1>7, <2>4 DEF Kept
<1>12. CASE pc[p] = "complete"
  <2>1. Permits' <= Permits + 1
    <3>1. Permits \in Int
      BY Amounts
    <3> QED BY <1>7, <1>10, <3>1 DEF Procs
  <2>2. Permits' + Cardinality(Givers') + (IF Admits' THEN 1 ELSE 0)
          <= Permits + Cardinality(Givers) + (IF Admits THEN 1 ELSE 0)
    BY <1>4, <1>8, <1>10, <1>12, <2>1, Amounts, AmountsPrimed
  <2>3. Permits' + Cardinality(Closers')
          <= Permits + Cardinality(Closers) + (IF Vacant THEN 1 ELSE 0)
    <3>1. CASE Permits' <= Permits
      BY <1>5, <1>10, <3>1, Amounts, AmountsPrimed
    <3>2. CASE p \in Jobs /\ status' = "FAILED"
      <4>1. p \in Closers
        BY <1>1, <1>12, <3>2 DEF Closers, FinalStatus
      <4>2. Closers' \subseteq Closers \ {p}
        BY <1>3, CloserMoves DEF Closers
      <4>3. Cardinality(Closers') <= Cardinality(Closers) - 1
        BY <4>1, <4>2, Subsets, SizedLess
      <4> QED BY <1>10, <2>1, <4>3, Amounts, AmountsPrimed
    <3> QED BY <1>1, <1>7, <1>12, <3>1, <3>2 DEF Procs, FinalStatus, IDEMPOTENT_RETURN_STATUSES
  <2>4. Counted'
    BY <1>1, <1>2, <1>7, <1>8, <1>9, <2>2, <2>3, MoneyCounts DEF Ready
  <2> QED BY <1>7, <2>4 DEF Kept
<1> QED BY <1>1, <1>11, <1>12

-----------------------------------------------------------------------------
(* What is lost.                                                           *)

\* Whoever dies leaves at most one permit more, none if it had claimed the refund, nor
\* if the ride it asked for had failed under a refund it knew of.
LEMMA CrashFrame ==
    ASSUME Ready, NEW p \in Procs, Crash(p)
    PROVE  /\ Alone(p) /\ lock' = lock /\ pc'[p] \in {"ended", "idle"}
           /\ p \in Requests => pc'[p] = "ended"
           /\ p \in Jobs => pc'[p] = "idle" /\ loc'[p] = Blank /\ Permits' <= Permits
           /\ Permits' <= Permits + 1
           /\ pc[p] \in Giving \/ (p \in Requests /\ Once(p)) => Permits' <= Permits
<1>0. DataOK /\ ProcsOK
  BY DEF Ready
<1>1. /\ Go(p, Blank, IF p \in Requests THEN "ended" ELSE "idle")
      /\ lock' = lock /\ status' = status /\ pc[p] \notin {"new", "ended", "idle"}
  BY DEF Crash, document, locks
<1>2. /\ Alone(p) /\ loc'[p] = Blank
      /\ pc'[p] = IF p \in Requests THEN "ended" ELSE "idle"
  BY <1>0, <1>1, GoAlone
<1>3. CASE p \in Requests
  <2>1. lock = p /\ p \notin Jobs
    BY <1>1, <1>3, InsideLocks, TwoKinds
  <2>2. Permits' = Base' /\ Base' \in 0..1
    <3>1. ~Once(p)' /\ ~Buying(p)' /\ ~Settling(p)'
      BY <1>2, <1>3 DEF Once, Buying, Settling, Debts
    <3> QED BY <1>1, <1>3, <2>1, <3>1, PermitsOfPrimed
  <2>3. pc[p] \in Giving \/ Once(p) => Permits >= 1
    <3>1. pc[p] \in Giving => Once(p) \/ Buying(p)
      BY <1>3 DEF Ready, Placed, RequestFits, Giving, Once, Buying, Debts
    <3> QED BY <1>3, <2>1, <3>1, PermitsOf
  <2>4. PICK n \in 0..1 : Permits' = n
    BY <2>2
  <2> QED BY <1>1, <1>2, <1>3, <2>1, <2>3, <2>4, Amounts
<1>4. CASE p \in Jobs
  <2>1. p \notin Requests
    BY <1>4, TwoKinds
  <2>2. Permits' <= Permits
    BY <1>0, <1>1, <1>2, <1>4, JobPermits
  <2>3. PICK n \in Int : Permits' = n
    BY AmountsPrimed
  <2> QED BY <1>1, <1>2, <1>4, <2>1, <2>2, <2>3, Amounts
<1> QED BY <1>3, <1>4 DEF Procs

\* What a process left undone, a loss covers.
LEMMA LossKept ==
    ASSUME Ready, NEW p \in Procs, Alone(p), Rested(p), lock' = lock, Lose,
           UNCHANGED <<document, ride, waived, retried>>,
           pc'[p] \in {"ended", "release", "finalize", "idle"},
           p \in Requests => RequestFits(p)' /\ (lock = p \/ pc'[p] = "ended"),
           p \in Jobs => JobFits(p)' /\ Permits' <= Permits,
           Permits' <= Permits + 1,
           pc[p] \in Giving \/ (p \in Requests /\ Once(p)) => Permits' <= Permits
    PROVE  Kept
<1>0. DataOK /\ ProcsOK
  BY DEF Ready
<1>1. /\ status' = status /\ refund' = refund /\ ref' = ref /\ ride' = ride /\ Lose
      /\ waived' = waived /\ retried' = retried /\ losses' = losses + 1
  BY DEF document, Lose
<1>2. /\ Alone(p) /\ lock' = lock /\ pc'[p] \in {"ended", "release", "finalize", "idle"}
      /\ p \in Jobs => Permits' <= Permits
      /\ Permits' <= Permits + 1
      /\ pc[p] \in Giving \/ (p \in Requests /\ Once(p)) => Permits' <= Permits
  OBVIOUS
<1>3. Later /\ losses \in Int
  BY <1>0, <1>1, LaterOn DEF Later
<1>4. PICK n \in Int : Permits' = n
  BY AmountsPrimed
<1>5. /\ \A q \in Requests : q # p => pc'[q] = pc[q] /\ (Once(q)' <=> Once(q))
      /\ \A j \in Jobs : j # p => pc'[j] = pc[j] /\ loc'[j] = loc[j]
      /\ \A q \in Procs : q # p => pc'[q] = pc[q]
  BY <1>2 DEF Alone, Procs, Once
<1>6. /\ Standing' \subseteq Standing /\ Parking' \subseteq Parking /\ Closers' \subseteq Closers
      /\ Givers' \subseteq Givers
  BY <1>1, <1>2, <1>5 DEF Standing, Parking, Closers, Givers, Giving
<1>7. /\ Cardinality(Standing') <= Cardinality(Standing)
      /\ Cardinality(Parking') <= Cardinality(Parking)
      /\ Cardinality(Closers') <= Cardinality(Closers)
      /\ Cardinality(Givers') <= Cardinality(Givers)
  BY <1>6, Subsets, SizedBelow
<1>8. Cardinality(Unspent') + Permits' <= Cardinality(Unspent) + Permits + 1
  <2>1. CASE p \in Requests /\ Once(p)
    <3>1. Unspent' \subseteq Unspent \union {p}
      BY <1>1, <1>5 DEF Unspent
    <3>2. Cardinality(Unspent') <= Cardinality(Unspent) + 1
      BY <3>1, Subsets, SubsetsPrimed, SizedMore
    <3> QED BY <1>2, <1>4, <2>1, <3>2, Amounts, AmountsPrimed
  <2>2. CASE ~(p \in Requests /\ Once(p))
    <3>1. Unspent' \subseteq Unspent
      BY <1>1, <1>5, <2>2 DEF Unspent
    <3>2. Cardinality(Unspent') <= Cardinality(Unspent)
      BY <3>1, Subsets, SizedBelow
    <3> QED BY <1>2, <1>4, <3>2, Amounts, AmountsPrimed
  <2> QED BY <2>1, <2>2
<1>9. /\ Permits' + Cardinality(Givers') + (IF Admits' THEN 1 ELSE 0)
           <= Permits + Cardinality(Givers) + (IF Admits THEN 1 ELSE 0) + 1
      /\ Permits' + (IF Vacant' THEN 1 ELSE 0) <= Permits + (IF Vacant THEN 1 ELSE 0) + 1
  <2>1. CASE pc[p] \in Giving
    <3>1. Cardinality(Givers') <= Cardinality(Givers) - 1
      BY <1>2, <2>1, GiverMoves DEF Giving
    <3> QED BY <1>2, <1>4, <2>1, <3>1, Amounts, AmountsPrimed
  <2>2. CASE pc[p] \notin Giving
    <3>1. (\E q \in Procs : pc'[q] \in Giving) <=> \E q \in Procs : pc[q] \in Giving
      BY <1>2, <1>5, <2>2 DEF Giving
    <3>2. (Admits' <=> Admits) /\ (Vacant' <=> Vacant)
      BY <1>1, <3>1 DEF Admits, Vacant
    <3> QED BY <1>2, <1>4, <1>7, <3>2, Amounts, AmountsPrimed
  <2> QED BY <2>1, <2>2
<1>10. Counted'
  <2>1. Rides'
    BY <1>1, <1>3, <1>4, <1>7, <1>9, Amounts, AmountsPrimed DEF Ready, Counted, Rides
  <2>2. ~Doubtful' => Clean'
    BY <1>1, <1>3, <1>4, <1>7, <1>8, <1>9, Amounts, AmountsPrimed
       DEF Ready, Counted, Clean, Later
  <2> QED BY <2>1, <2>2 DEF Counted
<1>11. Placed'
  <2>1. Forward(p)
    BY <1>1, <1>2, <1>3 DEF Forward
  <2>2. refund'.status = None => Givers' = {}
    BY <1>1, <1>6 DEF Ready, Placed
  <2> QED BY <1>1, <1>2, <2>1, <2>2, PlacedNext
<1>12. Serial'
  BY <1>2, SerialNext
<1> QED BY <1>10, <1>11, <1>12 DEF Kept

LEMMA CrashKept ==
    ASSUME Ready, NEW p \in Procs, Crash(p)
    PROVE  Kept
<1>1. /\ Lose /\ UNCHANGED <<document, ride, waived, retried>>
      /\ pc[p] \notin {"new", "ended", "idle"}
  BY DEF Crash, history
<1>2. /\ Alone(p) /\ lock' = lock /\ pc'[p] \in {"ended", "idle"}
      /\ p \in Requests => pc'[p] = "ended"
      /\ p \in Jobs => pc'[p] = "idle" /\ loc'[p] = Blank /\ Permits' <= Permits
      /\ Permits' <= Permits + 1
      /\ pc[p] \in Giving \/ (p \in Requests /\ Once(p)) => Permits' <= Permits
  BY CrashFrame
<1>3. Rested(p)
  BY <1>2 DEF Rested
<1>4. (p \in Requests => RequestFits(p)') /\ (p \in Jobs => JobFits(p)')
  BY <1>2, FitsAt, BlankFits
<1> QED BY <1>1, <1>2, <1>3, <1>4, LossKept

\* A request whose refund could not be written goes on, for a ride that is not FAILED to
\* it; nobody is let in by that.
LEMMA ThrowKept ==
    ASSUME Ready, NEW p \in Procs, RefundThrows(p)
    PROVE  Kept
<1>0. DataOK /\ ProcsOK /\ loc[p] \in Locals
  BY DEF Ready, ProcsOK
<1>1. /\ Lose /\ UNCHANGED <<document, ride, waived, retried>> /\ lock' = lock
      /\ pc[p] \in {"zero", "claim", "fail"} /\ status' = status
  BY DEF RefundThrows, history, locks, document
<1> DEFINE l == [loc[p] EXCEPT !.target = "SUPPLIER_PENDING", !.kind = None, !.amount = 0]
<1>2. l.target = "SUPPLIER_PENDING" /\ l.ref = loc[p].ref /\ l.seen = loc[p].seen
  BY <1>0 DEF Locals
<1>3. Go(p, IF loc[p].next = "finalize" THEN l ELSE Blank, loc[p].next)
  BY DEF RefundThrows
<1> HIDE DEF l
<1>4. /\ Alone(p) /\ pc'[p] = loc[p].next /\ pc'[p] \in {"release", "finalize", "idle"}
      /\ loc'[p].ref \in {None, loc[p].ref}
      /\ loc[p].next = "finalize" => /\ loc'[p].target = "SUPPLIER_PENDING"
                                     /\ loc'[p].seen = loc[p].seen
  BY <1>0, <1>2, <1>3, GoAlone DEF Locals, Blank
<1>5. Rested(p)
  BY <1>1 DEF Rested
<1>6. CASE p \in Requests
  <2>1. RequestFits(p) /\ pc[p] \in Debts /\ lock = p /\ p \notin Jobs
    BY <1>1, <1>6, InsideLocks, TwoKinds DEF Ready, Placed, RequestFits, Debts
  <2>2. CASE loc[p].next = "finalize"
    <3>1. Once(p) /\ Settling(p)'
      BY <1>4, <2>1, <2>2 DEF Once, Settling
    <3>2. Permits' <= Permits
      BY <1>1, <1>6, <2>1, <3>1, PermitsOf, PermitsOfPrimed
    <3>3. RequestFits(p)'
      BY <1>1, <1>4, <2>1, <2>2 DEF RequestFits, Debts, Early, Settling
    <3> QED BY <1>1, <1>4, <1>5, <2>1, <3>2, <3>3, LossKept, Amounts, AmountsPrimed
  <2>3. CASE loc[p].next = "release"
    <3>1. Buying(p) /\ ~Once(p)' /\ ~Buying(p)' /\ ~Settling(p)'
      BY <1>4, <2>1, <2>3 DEF Once, Buying, Settling, Debts
    <3>2. Permits' <= Permits
      BY <1>1, <1>6, <2>1, <3>1, PermitsOf, PermitsOfPrimed
    <3>3. RequestFits(p)'
      BY <1>4, <1>6, <2>3, FitsAt
    <3> QED BY <1>1, <1>4, <1>5, <2>1, <3>2, <3>3, LossKept, Amounts, AmountsPrimed
  <2> QED BY <2>1, <2>2, <2>3 DEF RequestFits
<1>7. CASE p \in Jobs
  <2>1. p \notin Requests /\ Past(loc[p].ref) /\ loc[p].ref \in Requests \union {None}
    BY <1>0, <1>7, TwoKinds DEF Ready, Placed, JobFits, Locals
  <2>2. Permits' <= Permits
    BY <1>0, <1>1, <1>4, <1>7, JobPermits
  <2>3. JobFits(p)'
    <3>1. \A r \in Requests \union {None} : Past(r) => Past(r)'
      BY <1>4, <1>5, PastStays
    <3>2. loc[p].ref # None => pc'[loc[p].ref] \in {"release", "ended"}
      BY <2>1, <3>1 DEF Past
    <3>3. loc'[p].ref # None => pc'[loc'[p].ref] \in {"release", "ended"}
      BY <1>4, <3>2
    <3> QED BY <1>4, <3>3 DEF JobFits, Past
  <2> QED BY <1>1, <1>4, <1>5, <2>1, <2>2, <2>3, LossKept, Amounts, AmountsPrimed
<1> QED BY <1>6, <1>7 DEF Procs

LEMMA StaleKept ==
    ASSUME Ready, Stale
    PROVE  Kept
<1>0. DataOK
  BY DEF Ready
<1>1. /\ status' = status /\ ref' = ref /\ ride' = ride /\ lock' = lock /\ pc' = pc /\ loc' = loc
      /\ waived' = waived /\ retried' = retried /\ locking' = locking /\ lapsed' = lapsed
      /\ refund.status = "PROCESSING" /\ ~refund.stale
      /\ refund' = [refund EXCEPT !.stale = TRUE]
      /\ IF \E p \in Procs : pc[p] \in Giving THEN Lose ELSE losses' = losses
  BY DEF Stale, locks, proc, history, Giving
<1>2. refund'.status = "PROCESSING" /\ refund'.stale = TRUE /\ refund.status # None
  BY <1>0, <1>1 DEF DataOK, Refunds, None
<1>3. Later /\ losses \in Int
  BY <1>0, <1>1, LaterOn DEF Later
<1>4. /\ Standing' = Standing /\ Parking' = Parking /\ Givers' = Givers /\ Closers' = Closers
      /\ Permits' = Permits
  BY <1>1 DEF Standing, Parking, Givers, Closers, Permits, Once, Buying, Settling, Base, Open
<1>5. Counted'
  <2>1. CASE \E p \in Procs : pc[p] \in Giving
    <3>1. losses' = losses + 1
      BY <1>1, <2>1 DEF Lose
    <3>2. Rides'
      BY <1>3, <1>4, <3>1, Amounts DEF Ready, Counted, Rides
    <3>3. ~Doubtful' => Clean'
      BY <1>2, <1>3, <1>4, <3>1, Amounts DEF Ready, Counted, Clean, Later, None
    <3> QED BY <3>2, <3>3 DEF Counted
  <2>2. CASE ~\E p \in Procs : pc[p] \in Giving
    <3>1. losses' = losses /\ Vacant /\ Admits
      BY <1>1, <2>2 DEF Vacant, Admits
    <3>2. Rides'
      BY <1>3, <1>4, <3>1, Amounts DEF Ready, Counted, Rides
    <3>3. ~Doubtful' => Clean'
      BY <1>2, <1>3, <1>4, <3>1, Amounts DEF Ready, Counted, Clean, Later, None
    <3> QED BY <3>2, <3>3 DEF Counted
  <2> QED BY <2>1, <2>2
<1>6. Placed'
  <2>1. \A r \in Requests : RequestFits(r)'
    BY <1>1, <1>2 DEF Ready, Placed, RequestFits, Settling
  <2>2. \A j \in Jobs : JobFits(j)'
    BY <1>1, <1>2 DEF Ready, Placed, JobFits, Past
  <2>3. Past(ref)' /\ refund'.status # None
    BY <1>1, <1>2 DEF Ready, Placed, Past
  <2> QED BY <2>1, <2>2, <2>3 DEF Placed
<1>7. Serial'
  BY <1>1 DEF Ready, Serial
<1> QED BY <1>5, <1>6, <1>7 DEF Kept

\* The lock of a request that has ended runs out; or nothing of this moves.
LEMMA OutsideKept ==
    ASSUME Ready, InOrder', Expire \/ Age \/ UNCHANGED vars
    PROVE  Kept
<1>0. DataOK
  BY DEF Ready
<1>1. /\ status' = status /\ refund' = refund /\ ref' = ref /\ ride' = ride
      /\ pc' = pc /\ loc' = loc /\ losses' = losses
      /\ waived' = waived /\ retried' = retried
      /\ lock' = lock \/ (Expire /\ lock # None /\ lock' = None)
  BY DEF Expire, Age, vars, document, locks, money, proc, history
<1>2. lock' # lock => pc[lock] = "ended" /\ lock # None /\ lock' = None
  BY <1>1 DEF Expire, InOrder, At
<1>3. Permits' = Permits
  <2>1. CASE lock' = lock
    BY <1>1, <2>1 DEF Permits, Once, Buying, Settling, Base, Open
  <2>2. CASE lock' # lock
    <3>1. Permits' = Base'
      BY <1>2, <2>2 DEF Permits
    <3>2. ~Once(lock) /\ ~Buying(lock) /\ ~Settling(lock)
      BY <1>2, <2>2 DEF Once, Buying, Settling, Debts
    <3>3. Permits = Base
      BY <1>2, <2>2, <3>2 DEF Permits
    <3> QED BY <1>1, <3>1, <3>3 DEF Base
  <2> QED BY <2>1, <2>2
<1>4. /\ Standing' = Standing /\ Parking' = Parking /\ Givers' = Givers /\ Closers' = Closers
      /\ Unspent' = Unspent
  BY <1>1 DEF Standing, Unspent, Parking, Givers, Closers, Once
<1>5. (Admits' <=> Admits) /\ (Vacant' <=> Vacant) /\ (Doubtful' <=> Doubtful)
  BY <1>1 DEF Admits, Vacant, Doubtful
<1>6. Counted'
  BY <1>1, <1>3, <1>4, <1>5 DEF Ready, Counted, Rides, Clean
<1>7. Placed'
  <2>1. \A r \in Requests : RequestFits(r)'
    BY <1>1 DEF Ready, Placed, RequestFits, Settling
  <2>2. \A j \in Jobs : JobFits(j)'
    BY <1>1, <1>5 DEF Ready, Placed, JobFits, Past
  <2>3. Past(ref)'
    BY <1>1 DEF Ready, Placed, Past
  <2>4. refund'.status = None => Givers' = {}
    BY <1>1, <1>4 DEF Ready, Placed
  <2> QED BY <2>1, <2>2, <2>3, <2>4 DEF Placed
<1>8. Serial'
  BY <1>1, <1>2 DEF Ready, Serial
<1> QED BY <1>6, <1>7, <1>8 DEF Kept

-----------------------------------------------------------------------------
LEMMA RidesInit == Init => RidesInv
<1> SUFFICES ASSUME Init PROVE RidesInv
  OBVIOUS
<1>1. /\ status = None /\ ref = None /\ refund.status = None /\ lock = None /\ losses = 0
      /\ ride = [r \in Requests |-> None] /\ loc = [p \in Procs |-> Blank]
      /\ \A r \in Requests : pc[r] = "new" /\ r \in Procs /\ loc[r] = Blank /\ ride[r] = None
      /\ \A j \in Jobs : pc[j] = "idle" /\ j \in Procs /\ loc[j] = Blank
  BY TwoKinds DEF Init, NoRefund, Procs
<1>2. Givers = {} /\ Parking = {} /\ Standing = {} /\ Unspent = {}
  BY <1>1 DEF Givers, Giving, Parking, Standing, Unspent, Procs, None
<1>3. Permits = 1
  BY <1>1 DEF Permits, Base, IDEMPOTENT_RETURN_STATUSES, None
<1>4. Counted
  <2>1. Cardinality({}) = 0
    BY FS_EmptySet
  <2> QED BY <1>1, <1>2, <1>3, <2>1 DEF Counted, Rides, Clean
<1>5. Placed
  <2>1. \A r \in Requests : RequestFits(r)
    BY <1>1 DEF RequestFits, Early, Debts, Settling
  <2>2. \A j \in Jobs : JobFits(j)
    BY <1>1 DEF JobFits, Past, Blank
  <2> QED BY <1>1, <1>2, <2>1, <2>2 DEF Placed, Past
<1>6. Serial
  BY <1>1 DEF Serial
<1> QED BY <1>4, <1>5, <1>6 DEF RidesInv

\* A lapse is not forgotten.
LEMMA OrderLasts == DataOK /\ [Next]_vars /\ InOrder' => InOrder
<1> SUFFICES ASSUME DataOK, [Next]_vars, InOrder' PROVE InOrder
  OBVIOUS
<1>1. locking' = locking /\ (lapsed => lapsed')
  <2>1. CASE \E r \in Requests : Request(r)
    BY <2>1
       DEF Request, acquireLock, FindReplay, claimBookingRecord, FindPrior, ResetPrior,
           collectPayment, CollectRefused, CollectThrows, CollectUnheard, markFailed, Book,
           BookRefused, BookUnheard, settleSupplier, finalizeBookingRecord, releaseLock,
           RideMoves, locks, history
  <2>2. CASE \E j \in Jobs : Job(j)
    <3>1. PICK j \in Jobs : Job(j)
      BY <2>2
    <3>2. CASE resolve(j)
      BY <3>2 DEF resolve, locks
    <3>3. CASE StartSweep(j) \/ ResolveFails(j) \/ transition(j) \/ retryRefund(j)
      BY <3>3 DEF StartSweep, ResolveFails, transition, retryRefund, locks, history
    <3>4. CASE StartCancel(j) \/ CancelRefused(j) \/ CancelUnheard(j) \/ Park(j)
      BY <3>4 DEF StartCancel, CancelRefused, CancelUnheard, Park, locks, history
    <3>5. CASE CancelAccepted(j)
      BY <3>5 DEF CancelAccepted, locks, history
    <3> QED BY <3>1, <3>2, <3>3, <3>4, <3>5 DEF Job
  <2>3. CASE \E p \in Procs : RefundStep(p) \/ Crash(p)
    BY <2>3
       DEF RefundStep, claim, Pay, PayFails, PayUnheard, Complete, CompleteRejected, Fail,
           RefundThrows, recordZeroRefund, Crash, locks, history
  <2>4. CASE Expire
    BY <2>4 DEF Expire
  <2>5. CASE Age \/ Stale \/ UNCHANGED vars
    BY <2>5 DEF Age, Stale, vars, locks, history
  <2> QED BY <2>1, <2>2, <2>3, <2>4, <2>5 DEF Next
<1> QED BY <1>1 DEF InOrder, DataOK

LEMMA RidesNext == CabInv /\ RidesInv /\ [Next]_vars => RidesInv'
<1> SUFFICES ASSUME CabInv, RidesInv, [Next]_vars PROVE RidesInv'
  OBVIOUS
<1>1. CASE InOrder'
  <2> SUFFICES Kept
    BY <1>1 DEF Kept, RidesInv
  <2>1. Ready
    BY <1>1, OrderLasts DEF CabInv, RidesInv, Ready
  <2>2. CASE \E r \in Requests : Request(r)
    <3>1. PICK r \in Requests : Request(r)
      BY <2>2
    <3>2. CASE acquireLock(r) \/ releaseLock(r)
      BY <1>1, <2>1, <3>2, DoorKept
    <3>3. CASE FindReplay(r) \/ claimBookingRecord(r) \/ FindPrior(r) \/ ResetPrior(r)
      BY <2>1, <3>3, LookKept
    <3>4. CASE \/ collectPayment(r) \/ CollectRefused(r) \/ CollectThrows(r) \/ CollectUnheard(r)
               \/ markFailed(r) \/ BookRefused(r)
      BY <2>1, <3>4, ChargeKept
    <3>5. CASE Book(r) \/ BookUnheard(r)
      BY <2>1, <3>5, BookKept
    <3>6. CASE settleSupplier(r)
      BY <2>1, <3>6, SettleKept
    <3>7. CASE finalizeBookingRecord(r)
      BY <2>1, <3>7, FinalizeKept
    <3>8. CASE RideMoves(r)
      BY <2>1, <3>8, RideKept
    <3> QED BY <3>1, <3>2, <3>3, <3>4, <3>5, <3>6, <3>7, <3>8 DEF Request
  <2>3. CASE \E j \in Jobs : Job(j)
    <3>1. PICK j \in Jobs : Job(j)
      BY <2>3
    <3>2. CASE \/ StartSweep(j) \/ resolve(j) \/ ResolveFails(j) \/ transition(j)
               \/ retryRefund(j) \/ StartCancel(j) \/ CancelRefused(j)
      BY <2>1, <3>2, SweepKept
    <3>3. CASE CancelAccepted(j) \/ CancelUnheard(j)
      <4>1. pc[j] = "cancel" /\ j \in Procs
        BY <3>3 DEF CancelAccepted, CancelUnheard, At, Procs
      <4>2. loc[j].ref \in Requests
        BY <4>1 DEF CabInv, Owed, Fit
      <4> QED BY <2>1, <3>3, <4>2, CancelKept
    <3>4. CASE Park(j)
      BY <2>1, <3>4, ParkKept
    <3> QED BY <3>1, <3>2, <3>3, <3>4 DEF Job
  <2>4. CASE \E p \in Procs : RefundStep(p) \/ Crash(p)
    <3>1. PICK p \in Procs : RefundStep(p) \/ Crash(p)
      BY <2>4
    <3>2. CASE claim(p) /\ Claimable
      BY <2>1, <3>2, ClaimKept
    <3>3. CASE \/ claim(p) /\ ~Claimable
               \/ recordZeroRefund(p) /\ refund.status = "COMPLETED"
      BY <2>1, <3>3, TurnedAwayKept
    <3>4. CASE recordZeroRefund(p) /\ refund.status # "COMPLETED"
      BY <2>1, <3>4, ZeroKept
    <3>5. CASE Pay(p) \/ PayFails(p) \/ PayUnheard(p) \/ CompleteRejected(p)
      BY <2>1, <3>5, PayKept
    <3>6. CASE Complete(p) \/ Fail(p)
      BY <2>1, <3>6, RecordKept
    <3>7. CASE Crash(p)
      BY <2>1, <3>7, CrashKept
    <3>8. CASE RefundThrows(p)
      BY <2>1, <3>8, ThrowKept
    <3> QED BY <3>1, <3>2, <3>3, <3>4, <3>5, <3>6, <3>7, <3>8 DEF RefundStep
  <2>5. CASE Stale
    BY <2>1, <2>5, StaleKept
  <2>6. CASE Expire \/ Age \/ UNCHANGED vars
    BY <1>1, <2>1, <2>6, OutsideKept
  <2> QED BY <2>2, <2>3, <2>4, <2>5, <2>6 DEF Next
<1>2. CASE ~InOrder'
  BY <1>2 DEF RidesInv, Serial
<1> QED BY <1>1, <1>2

\* While requests have their locks, a key has one ride that stands, however often its
\* booking failed and was begun anew, one more for each thing that was lost, and one
\* more at most if the worker gave up on a ride or tried an earlier refund again.
THEOREM CabOneRide == Spec => []OneRideStands
<1>1. CabInv /\ RidesInv => OneRideStands
  BY CountedCovers DEF CabInv, RidesInv, InOrder, OneRideStands
<1>2. Init => CabInv /\ RidesInv
  BY CabInit, RidesInit
<1>3. CabInv /\ RidesInv /\ [Next]_vars => (CabInv /\ RidesInv)'
  BY CabNext, RidesNext
<1> QED BY <1>1, <1>2, <1>3, PTL DEF Spec

-----------------------------------------------------------------------------
(* A failed booking is refunded.  While nothing is lost and no request     *)
(* goes on with another's document, the key has one try.                   *)

Untouched == losses = 0 /\ ~reused

Cancelled == \E r \in Requests : ride[r] = "CANCELLED"

Trying == {"collect", "markFailed", "commit", "settle", "finalize",
           "claim", "pay", "complete", "fail"}
Tries(r) == pc[r] \in Trying \/ r \in charged \/ ride[r] # None

\* Only one request tries, and the document is there when it does.
OneTry ==
    /\ \A r, s \in Requests : Tries(r) /\ Tries(s) => r = s
    /\ status = None => \A r \in Requests : ~Tries(r)

\* A request charges once and asks for one ride; it means FAILED if its ride failed and the refund is recorded.
RequestTries(r) ==
    /\ pc[r] \in {"collect", "markFailed"} => r \notin charged
    /\ pc[r] \in {"collect", "markFailed", "commit"} => ride[r] = None
    /\ pc[r] = "finalize" =>
          /\ loc[r].target # None
          /\ loc[r].target = "FAILED" => ride[r] = "FAILED" /\ refund.status # None
    /\ pc[r] \in Debts =>
          \/ loc[r].next = "release"
          \/ loc[r].next = "finalize" /\ loc[r].target = "FAILED" /\ ride[r] = "FAILED"
    /\ pc[r] # "zero"

\* A job comes back to where it began.
JobTries(j) ==
    /\ pc[j] = "transition" => loc[j].target \in {"CONFIRMED", "CANCELLED"}
    /\ pc[j] \in Debts \union {"zero", "cancel"} => loc[j].next = "idle"

\* A refund is of the whole price, or of a ride that was cancelled, and is paid before
\* it is complete.
Asks(p) ==
    /\ pc[p] = "zero" => Cancelled
    /\ pc[p] \in Debts =>
          \/ loc[p].kind = "FAILED_BOOKING" /\ loc[p].amount = Price
          \/ loc[p].kind = "CANCELLATION" /\ Cancelled
    /\ pc[p] = "complete" => returned >= loc[p].amount

\* What is recorded of it is true.
RefundSays ==
    /\ refund.kind = "CANCELLATION" => Cancelled
    /\ refund.status = "PROCESSING" => \E p \in Procs : pc[p] \in Giving
    /\ refund.status = "COMPLETED" /\ ~Cancelled => returned >= Price

\* Why a document may say FAILED.
Excused ==
    \/ returned >= Price
    \/ charged = {} /\ \A r \in Requests : pc[r] # "collect"
    \/ refund.status # None /\ \E r \in Requests : ride[r] = "FAILED"

Tried ==
    /\ OneTry /\ RefundSays /\ (status = "FAILED" => Excused)
    /\ \A r \in Requests : RequestTries(r)
    /\ \A j \in Jobs : JobTries(j)
    /\ \A p \in Procs : Asks(p)

TriesInv == Untouched => Tried

\* What is over stays so.
Lasting ==
    /\ \A r \in Requests : ride[r] \in {"FAILED", "CANCELLED"} => ride'[r] = ride[r]
    /\ returned \in Nat /\ returned' \in Nat /\ returned <= returned'
    /\ refund.status # None => refund'.status # None

LEMMA CancelledLasts == Lasting /\ Cancelled => Cancelled'
BY DEF Lasting, Cancelled

\* A step of p: what is to be shown of it.
LEMMA StepTried ==
    ASSUME Tried, ProcsOK, NEW p \in Procs, Alone(p), Lasting,
           p \in Requests => RequestTries(p)', p \in Jobs => JobTries(p)', Asks(p)',
           charged' \subseteq charged \union {p},
           \A r \in Requests \ {p} : ride[r] = None => ride'[r] = None, OneTry', RefundSays',
           status' = "FAILED" => Excused'
    PROVE  Tried'
<1>0. Cancelled => Cancelled'
  BY CancelledLasts
<1>1. ASSUME NEW r \in Requests PROVE RequestTries(r)'
  <2>1. CASE r = p
    BY <2>1
  <2>2. CASE r # p
    <3>1. pc'[r] = pc[r] /\ loc'[r] = loc[r] /\ (r \in charged' => r \in charged)
      BY <2>2 DEF Alone, Procs
    <3>2. RequestTries(r)
      BY DEF Tried
    <3> QED BY <3>1, <3>2 DEF RequestTries, Lasting
  <2> QED BY <2>1, <2>2
<1>2. ASSUME NEW j \in Jobs PROVE JobTries(j)'
  <2>1. CASE j # p
    <3>1. pc'[j] = pc[j] /\ loc'[j] = loc[j]
      BY <2>1 DEF Alone, Procs
    <3> QED BY <3>1 DEF JobTries, Tried
  <2> QED BY <2>1
<1>3. ASSUME NEW q \in Procs PROVE Asks(q)'
  <2>1. CASE q # p
    <3>1. pc'[q] = pc[q] /\ loc'[q] = loc[q]
      BY <2>1 DEF Alone
    <3>2. Asks(q)
      BY DEF Tried
    <3>3. pc[q] = "complete" => returned' >= loc[q].amount
      <4>1. CASE pc[q] = "complete"
        <5>1. returned >= loc[q].amount /\ loc[q].amount \in Int
          BY <3>2, <4>1, PriceAssumption DEF Asks, ProcsOK, Locals
        <5> QED BY <5>1 DEF Lasting
      <4> QED BY <4>1
    <3> QED BY <1>0, <3>1, <3>2, <3>3 DEF Asks
  <2> QED BY <2>1
<1> QED BY <1>1, <1>2, <1>3 DEF Tried

\* No new try.
LEMMA TryLasts ==
    ASSUME OneTry, status' = None => status = None,
           \A r \in Requests : Tries(r)' => Tries(r)
    PROVE  OneTry'
BY DEF OneTry

\* A step that leaves the refund alone.
LEMMA RefundUntouched ==
    ASSUME RefundSays, NEW p \in Procs, Alone(p), Lasting, refund' = refund,
           pc[p] \in Giving => pc'[p] \in Giving
    PROVE  RefundSays'
<1>1. (\E q \in Procs : pc[q] \in Giving) => \E q \in Procs : pc'[q] \in Giving
  BY DEF Alone
<1>2. returned >= Price => returned' >= Price
  BY PriceAssumption DEF Lasting
<1> QED BY <1>1, <1>2, CancelledLasts DEF RefundSays

LEMMA ExcuseLasts ==
    ASSUME Excused, NEW p \in Procs, Alone(p), Lasting,
           pc'[p] = "collect" => pc[p] = "collect",
           charged' # charged => p \in Requests /\ pc[p] = "collect"
    PROVE  Excused'
<1>1. CASE returned >= Price
  <2>1. returned' >= Price
    BY <1>1, PriceAssumption DEF Lasting
  <2> QED BY <2>1 DEF Excused
<1>2. CASE charged = {} /\ \A r \in Requests : pc[r] # "collect"
  <2>1. \A r \in Requests : pc'[r] # "collect"
    BY <1>2, TwoKinds DEF Alone, Procs
  <2> QED BY <1>2, <2>1 DEF Excused
<1>3. CASE refund.status # None /\ \E r \in Requests : ride[r] = "FAILED"
  BY <1>3 DEF Excused, Lasting
<1> QED BY <1>1, <1>2, <1>3 DEF Excused

\* A step of p that moves no money and no ride, and leaves the document alone.
QuietTry(p) ==
    /\ Alone(p) /\ status' = status /\ refund' = refund /\ ride' = ride
    /\ charged' = charged /\ returned' = returned
    /\ pc[p] \in Giving => pc'[p] \in Giving
    /\ pc'[p] # "collect"
    /\ p \in Requests /\ pc'[p] \in Trying => pc[p] \in Trying

LEMMA QuietLasts ==
    ASSUME DataOK, NEW p \in Procs, QuietTry(p)
    PROVE  Lasting /\ (Cancelled' <=> Cancelled)
BY DEF QuietTry, Lasting, DataOK, Cancelled

LEMMA QuietTried ==
    ASSUME Tried, DataOK, ProcsOK, NEW p \in Procs, QuietTry(p),
           p \in Requests => RequestTries(p)', p \in Jobs => JobTries(p)', Asks(p)'
    PROVE  Tried'
<1>1. Lasting
  BY QuietLasts
<1>2. RefundSays'
  BY <1>1, RefundUntouched DEF QuietTry, Tried
<1>3. status' = "FAILED" => Excused'
  BY <1>1, ExcuseLasts DEF QuietTry, Tried
<1>4. \A r \in Requests : Tries(r)' => Tries(r)
  BY DEF QuietTry, Alone, Tries, Procs
<1>5. OneTry'
  BY <1>4, TryLasts DEF QuietTry, Tried
<1> QED BY <1>1, <1>2, <1>3, <1>5, StepTried DEF QuietTry

-----------------------------------------------------------------------------
(* Places that ask nothing of who is there.                                *)

Free == {"new", "look", "claimRecord", "prior", "reset", "settle", "release", "ended",
         "idle", "resolve", "park"}

LEMMA FreeTries ==
    ASSUME NEW p \in Procs, pc'[p] \in Free
    PROVE  RequestTries(p)' /\ JobTries(p)' /\ Asks(p)'
BY DEF Free, RequestTries, JobTries, Asks, Debts

\* A refund of the price is asked for.
LEMMA FailedBookingAsks ==
    ASSUME ProcsOK, NEW p \in Procs, NEW l \in Locals, NEW next \in {"release", "finalize", "idle"},
           refundFailedBooking(p, l, next)
    PROVE  /\ Alone(p) /\ pc'[p] = "claim" /\ loc'[p].next = next /\ loc'[p].target = l.target
           /\ Asks(p)'
<1> DEFINE m == [l EXCEPT !.kind = "FAILED_BOOKING", !.amount = Price, !.next = next]
<1>1. m.kind = "FAILED_BOOKING" /\ m.amount = Price /\ m.next = next /\ m.target = l.target
  BY DEF Locals
<1>2. Go(p, m, "claim")
  BY <1>1, PriceAssumption DEF refundFailedBooking, Execute
<1> HIDE DEF m
<1>3. pc'[p] = "claim" /\ loc'[p] = m /\ Alone(p)
  BY <1>2, GoAlone
<1> QED BY <1>1, <1>3 DEF Asks

-----------------------------------------------------------------------------
(* The steps of a request.                                                 *)

LEMMA EnterTried ==
    ASSUME Tried, DataOK, ProcsOK, NEW r \in Requests, ~reused',
           \/ acquireLock(r) \/ FindReplay(r) \/ FindPrior(r) \/ CollectRefused(r)
           \/ CollectThrows(r) \/ releaseLock(r)
    PROVE  Tried'
<1>1. r \in Procs /\ r \notin Jobs
  BY TwoKinds DEF Procs
<1>2. /\ UNCHANGED <<status, refund, ride, charged, returned>>
      /\ pc[r] \in {"new", "look", "prior", "collect", "release"}
  BY DEF acquireLock, FindReplay, FindPrior, CollectRefused, CollectThrows, releaseLock,
         document, money, At
<1>3. CASE ~CollectRefused(r)
  <2>1. \E l, place : Go(r, l, place) /\ place \in {"look", "ended", "claimRecord", "release", "reset"}
    BY <1>3 DEF acquireLock, FindReplay, FindPrior, CollectThrows, releaseLock, GoTo
  <2>2. Alone(r) /\ pc'[r] \in {"look", "ended", "claimRecord", "release", "reset"}
    BY <1>1, <2>1, GoAlone
  <2>3. QuietTry(r)
    BY <1>2, <2>2 DEF QuietTry, Giving, Trying
  <2>4. RequestTries(r)' /\ Asks(r)'
    BY <1>1, <2>2, FreeTries DEF Free
  <2> QED BY <1>1, <2>3, <2>4, QuietTried
<1>4. CASE CollectRefused(r)
  <2>1. Alone(r) /\ pc'[r] = "markFailed" /\ pc[r] = "collect"
    BY <1>1, <1>4, GoAlone DEF CollectRefused, GoTo, At
  <2>2. QuietTry(r)
    BY <1>2, <2>1 DEF QuietTry, Giving, Trying
  <2>3. r \notin charged' /\ ride'[r] = None
    BY <1>2, <2>1 DEF Tried, RequestTries
  <2>4. RequestTries(r)' /\ Asks(r)'
    BY <2>1, <2>3 DEF RequestTries, Asks, Debts
  <2> QED BY <1>1, <2>2, <2>4, QuietTried
<1> QED BY <1>3, <1>4

LEMMA FirstTried ==
    ASSUME Tried, DataOK, ProcsOK, NEW r \in Requests, claimBookingRecord(r)
    PROVE  Tried'
<1>1. r \in Procs /\ r \notin Jobs /\ pc[r] = "claimRecord"
  BY TwoKinds DEF Procs, claimBookingRecord, At
<1>2. UNCHANGED <<refund, ride, charged, returned>>
  BY DEF claimBookingRecord, Write, document, money
<1>3. CASE status = None
  <2>1. status' = "INITIATED" /\ Go(r, [Blank EXCEPT !.seen = "INITIATED"], "collect")
    BY <1>3 DEF claimBookingRecord, Write
  <2>2. Alone(r) /\ pc'[r] = "collect"
    BY <1>1, <2>1, GoAlone
  <2>3. \A s \in Requests : ~Tries(s)
    BY <1>3 DEF Tried, OneTry
  <2>4. OneTry'
    BY <1>2, <2>1, <2>2, <2>3 DEF OneTry, Tries, Alone, Procs, None
  <2>5. RequestTries(r)' /\ Asks(r)'
    BY <1>2, <2>2, <2>3 DEF RequestTries, Asks, Debts, Tries
  <2>6. Lasting
    BY <1>2 DEF Lasting, DataOK
  <2>7. RefundSays'
    BY <1>1, <1>2, <2>2, <2>6, RefundUntouched DEF Tried, Giving
  <2> QED BY <1>1, <1>2, <2>1, <2>2, <2>4, <2>5, <2>6, <2>7, StepTried
<1>4. CASE status # None
  <2>1. Alone(r) /\ pc'[r] = "prior" /\ status' = status
    BY <1>1, <1>4, GoAlone DEF claimBookingRecord, GoTo, document
  <2>2. QuietTry(r)
    BY <1>1, <1>2, <2>1 DEF QuietTry, Giving, Trying
  <2>3. RequestTries(r)' /\ Asks(r)'
    BY <1>1, <2>1, FreeTries DEF Free
  <2> QED BY <1>1, <2>2, <2>3, QuietTried
<1> QED BY <1>3, <1>4

LEMMA ChargeTried ==
    ASSUME Tried, DataOK, ProcsOK, NEW r \in Requests, losses' = 0,
           collectPayment(r) \/ markFailed(r)
    PROVE  Tried'
<1>1. r \in Procs /\ r \notin Jobs
  BY TwoKinds DEF Procs
<1>2. UNCHANGED <<refund, ride, returned>>
  BY DEF collectPayment, markFailed, Write, document, money
<1>3. Lasting
  BY <1>2 DEF Lasting, DataOK
<1>4. CASE collectPayment(r)
  <2>1. /\ Alone(r) /\ pc'[r] = "commit" /\ pc[r] = "collect" /\ status' = status
        /\ charged' = charged \union {r}
    BY <1>1, <1>4, GoAlone DEF collectPayment, GoTo, At, document
  <2>2. \A s \in Requests : Tries(s)' => Tries(s)
    BY <1>2, <2>1 DEF Tries, Trying, Alone, Procs
  <2>3. OneTry'
    BY <2>1, <2>2, TryLasts DEF Tried
  <2>4. RequestTries(r)' /\ Asks(r)'
    BY <1>2, <2>1 DEF Tried, RequestTries, Asks, Debts
  <2>5. RefundSays'
    BY <1>1, <1>2, <1>3, <2>1, RefundUntouched DEF Tried, Giving
  <2>6. status' = "FAILED" => Excused'
    BY <1>1, <1>3, <2>1, ExcuseLasts DEF Tried
  <2>7. /\ charged' \subseteq charged \union {r}
        /\ \A s \in Requests \ {r} : ride[s] = None => ride'[s] = None
    BY <1>2, <2>1
  <2> QED BY <1>1, <1>3, <2>1, <2>3, <2>4, <2>5, <2>6, <2>7, StepTried
<1>5. CASE markFailed(r)
  <2>1. /\ Alone(r) /\ pc'[r] = "release" /\ pc[r] = "markFailed" /\ charged' = charged
    BY <1>1, <1>5, GoAlone DEF markFailed, At, money
  <2>2. status' \in {status, "FAILED"} /\ "FAILED" # None
    BY <1>5 DEF markFailed, Write, document, None
  <2>3. \A s \in Requests : Tries(s)' => Tries(s)
    BY <1>2, <2>1 DEF Tries, Trying, Alone, Procs
  <2>4. OneTry'
    BY <2>2, <2>3, TryLasts DEF Tried
  <2>5. RequestTries(r)' /\ Asks(r)'
    BY <1>1, <2>1, FreeTries DEF Free
  <2>6. RefundSays'
    BY <1>1, <1>2, <1>3, <2>1, RefundUntouched DEF Tried, Giving
  <2>7. charged = {} /\ \A s \in Requests : pc'[s] # "collect"
    <3>1. Tries(r) /\ r \notin charged
      BY <2>1 DEF Tries, Trying, Tried, RequestTries
    <3>2. \A s \in Requests : s \in charged \/ pc[s] = "collect" => s = r
      BY <3>1 DEF Tried, OneTry, Tries, Trying
    <3> QED BY <2>1, <3>1, <3>2 DEF Alone, Procs, DataOK
  <2>8. Excused'
    BY <2>1, <2>7 DEF Excused
  <2>9. /\ charged' \subseteq charged \union {r}
        /\ \A s \in Requests \ {r} : ride[s] = None => ride'[s] = None
    BY <1>2, <2>1
  <2> QED BY <1>1, <1>3, <2>1, <2>4, <2>5, <2>6, <2>8, <2>9, StepTried
<1> QED BY <1>4, <1>5

LEMMA BookTried ==
    ASSUME Tried, DataOK, ProcsOK, NEW r \in Requests, Book(r) \/ BookRefused(r)
    PROVE  Tried'
<1>1. r \in Procs /\ r \notin Jobs /\ pc[r] = "commit" /\ loc[r] \in Locals
  BY TwoKinds DEF Procs, Book, BookRefused, At, ProcsOK
<1>2. UNCHANGED <<status, refund, charged, returned>>
  BY DEF Book, BookRefused, document, money
<1>3. CASE Book(r)
  <2>1. Alone(r) /\ pc'[r] = "settle"
    BY <1>1, <1>3, GoAlone DEF Book, GoTo
  <2>2. ride'[r] = "PENDING" /\ \A s \in Requests : s # r => ride'[s] = ride[s]
    BY <1>3 DEF Book, DataOK
  <2>3. ~(ride[r] \in {"FAILED", "CANCELLED"})
    BY <1>1 DEF Tried, RequestTries, None
  <2>4. Lasting
    BY <1>2, <2>2, <2>3 DEF Lasting, DataOK
  <2>5. \A s \in Requests : Tries(s)' => Tries(s)
    BY <1>1, <1>2, <2>1, <2>2 DEF Tries, Trying, Alone, Procs
  <2>6. OneTry'
    BY <1>2, <2>5, TryLasts DEF Tried
  <2>7. RequestTries(r)' /\ Asks(r)'
    BY <1>1, <2>1, FreeTries DEF Free
  <2>8. RefundSays'
    BY <1>1, <1>2, <2>1, <2>4, RefundUntouched DEF Tried, Giving
  <2>9. status' = "FAILED" => Excused'
    BY <1>1, <1>2, <2>1, <2>4, ExcuseLasts DEF Tried
  <2>10. /\ charged' \subseteq charged \union {r}
        /\ \A s \in Requests \ {r} : ride[s] = None => ride'[s] = None
    BY <1>2, <2>2
  <2> QED BY <1>1, <1>2, <2>1, <2>4, <2>6, <2>7, <2>8, <2>9, <2>10, StepTried
<1>4. CASE BookRefused(r)
  <2>1. /\ Alone(r) /\ pc'[r] = "claim" /\ loc'[r].next = "release" /\ Asks(r)'
        /\ ride' = ride
    BY <1>1, <1>4, FailedBookingAsks DEF BookRefused
  <2>2. QuietTry(r)
    BY <1>1, <1>2, <2>1 DEF QuietTry, Giving, Trying
  <2>3. RequestTries(r)'
    BY <2>1 DEF RequestTries, Debts
  <2> QED BY <1>1, <2>1, <2>2, <2>3, QuietTried
<1> QED BY <1>3, <1>4

LEMMA SettleTried ==
    ASSUME Tried, DataOK, ProcsOK, NEW r \in Requests, settleSupplier(r)
    PROVE  Tried'
<1>1. r \in Procs /\ r \notin Jobs /\ pc[r] = "settle" /\ loc[r] \in Locals
  BY TwoKinds DEF Procs, settleSupplier, At, ProcsOK
<1>2. UNCHANGED <<status, refund, ride, charged, returned>>
  BY DEF settleSupplier, document, money
<1>3. \/ \E s \in {"CONFIRMED", "SUPPLIER_PENDING"} : Go(r, [loc[r] EXCEPT !.target = s], "finalize")
      \/ /\ ride[r] = "FAILED"
         /\ refundFailedBooking(r, [loc[r] EXCEPT !.target = "FAILED"], "finalize")
  BY DEF settleSupplier
<1>4. CASE \E s \in {"CONFIRMED", "SUPPLIER_PENDING"} : Go(r, [loc[r] EXCEPT !.target = s], "finalize")
  <2>1. PICK s \in {"CONFIRMED", "SUPPLIER_PENDING"} : Go(r, [loc[r] EXCEPT !.target = s], "finalize")
    BY <1>4
  <2>2. Alone(r) /\ pc'[r] = "finalize" /\ loc'[r].target = s
    BY <1>1, <2>1, GoAlone DEF Locals
  <2>3. QuietTry(r)
    BY <1>1, <1>2, <2>2 DEF QuietTry, Giving, Trying
  <2>4. RequestTries(r)' /\ Asks(r)'
    BY <2>2 DEF RequestTries, Asks, Debts, None
  <2> QED BY <1>1, <2>3, <2>4, QuietTried
<1>5. CASE /\ ride[r] = "FAILED"
           /\ refundFailedBooking(r, [loc[r] EXCEPT !.target = "FAILED"], "finalize")
  <2> DEFINE l == [loc[r] EXCEPT !.target = "FAILED"]
  <2>1. l \in Locals /\ l.target = "FAILED"
    BY <1>1 DEF Locals, Statuses
  <2>2. refundFailedBooking(r, l, "finalize")
    BY <1>5
  <2> HIDE DEF l
  <2>3. /\ Alone(r) /\ pc'[r] = "claim" /\ loc'[r].next = "finalize"
        /\ loc'[r].target = "FAILED" /\ Asks(r)'
    BY <1>1, <2>1, <2>2, FailedBookingAsks
  <2>4. QuietTry(r)
    BY <1>1, <1>2, <2>3 DEF QuietTry, Giving, Trying
  <2>5. RequestTries(r)'
    BY <1>2, <1>5, <2>3 DEF RequestTries, Debts
  <2> QED BY <1>1, <2>3, <2>4, <2>5, QuietTried
<1> QED BY <1>3, <1>4, <1>5

LEMMA FinalizeTried ==
    ASSUME Tried, DataOK, ProcsOK, NEW r \in Requests, losses' = 0, finalizeBookingRecord(r)
    PROVE  Tried'
<1>1. r \in Procs /\ r \notin Jobs /\ pc[r] = "finalize" /\ RequestTries(r)
  BY TwoKinds DEF Procs, finalizeBookingRecord, At, Tried
<1>2. UNCHANGED <<refund, ride, charged, returned>>
  BY DEF finalizeBookingRecord, document, money
<1>3. Alone(r) /\ pc'[r] = "release"
  BY <1>1, GoAlone DEF finalizeBookingRecord
<1>4. status' \in {status, loc[r].target} /\ loc[r].target # None
  BY <1>1 DEF finalizeBookingRecord, document, RequestTries
<1>5. Lasting
  BY <1>2 DEF Lasting, DataOK
<1>6. \A s \in Requests : Tries(s)' => Tries(s)
  BY <1>2, <1>3 DEF Tries, Trying, Alone, Procs
<1>7. OneTry'
  BY <1>4, <1>6, TryLasts DEF Tried
<1>8. RequestTries(r)' /\ Asks(r)'
  BY <1>1, <1>3, FreeTries DEF Free
<1>9. RefundSays'
  BY <1>1, <1>2, <1>3, <1>5, RefundUntouched DEF Tried, Giving
<1>10. ASSUME status' = "FAILED" PROVE Excused'
  <2>1. CASE status = "FAILED"
    BY <1>1, <1>2, <1>3, <1>5, <2>1, ExcuseLasts DEF Tried
  <2>2. CASE loc[r].target = "FAILED"
    <3>1. ride[r] = "FAILED" /\ refund.status # None
      BY <1>1, <2>2 DEF RequestTries
    <3> QED BY <1>2, <3>1 DEF Excused
  <2> QED BY <1>4, <1>10, <2>1, <2>2
<1> QED BY <1>1, <1>2, <1>3, <1>5, <1>7, <1>8, <1>9, <1>10, StepTried

\* A ride of TripJack's is already a try.
LEMMA RideTried ==
    ASSUME Tried, DataOK, ProcsOK, NEW r \in Requests, RideMoves(r)
    PROVE  Tried'
<1>1. /\ UNCHANGED <<status, refund, charged, returned>> /\ pc' = pc /\ loc' = loc
      /\ ride[r] \in {"PENDING", "CONFIRMED"}
      /\ \E s \in {"CONFIRMED", "FAILED", "CANCELLED"} : ride' = [ride EXCEPT ![r] = s]
  BY DEF RideMoves, document, money, proc
<1>2. ride'[r] # None /\ \A s \in Requests : s # r => ride'[s] = ride[s]
  BY <1>1 DEF DataOK, None
<1>3. Lasting
  BY <1>1, <1>2 DEF Lasting, DataOK
<1>4. r \in Procs /\ Alone(r)
  BY <1>1 DEF Procs, Alone
<1>5. \A s \in Requests : Tries(s)' => Tries(s)
  BY <1>1, <1>2 DEF Tries, None
<1>6. OneTry'
  BY <1>1, <1>5, TryLasts DEF Tried
<1>7. RefundSays'
  BY <1>1, <1>3, <1>4, RefundUntouched DEF Tried
<1>8. status' = "FAILED" => Excused'
  BY <1>1, <1>3, <1>4, ExcuseLasts DEF Tried
<1>9. RequestTries(r)'
  <2>1. RequestTries(r) /\ ride[r] # None
    BY <1>1 DEF Tried, None
  <2> QED BY <1>1, <1>3, <2>1 DEF RequestTries, Lasting
<1>10. Asks(r)'
  <2>1. Asks(r)
    BY <1>4 DEF Tried
  <2> QED BY <1>1, <1>3, <2>1, CancelledLasts DEF Asks
<1>11. r \notin Jobs
  BY TwoKinds
<1> QED BY <1>1, <1>3, <1>4, <1>6, <1>7, <1>8, <1>9, <1>10, <1>11, StepTried

-----------------------------------------------------------------------------
(* The steps of a job.                                                     *)

LEMMA SweepTried ==
    ASSUME Tried, DataOK, ProcsOK, NEW j \in Jobs,
           \/ StartSweep(j) \/ resolve(j) \/ ResolveFails(j) \/ retryRefund(j)
           \/ StartCancel(j) \/ CancelRefused(j)
    PROVE  Tried'
<1>1. j \in Procs /\ j \notin Requests /\ loc[j] \in Locals
  BY TwoKinds DEF Procs, ProcsOK
<1>2. /\ UNCHANGED <<status, refund, ride, charged, returned>>
      /\ pc[j] \in {"idle", "resolve", "cancel"}
  BY DEF StartSweep, resolve, ResolveFails, retryRefund, StartCancel, CancelRefused,
         document, money, At
<1>3. ASSUME Alone(j), pc'[j] # "collect", JobTries(j)', Asks(j)' PROVE Tried'
  <2>1. QuietTry(j)
    BY <1>1, <1>2, <1>3 DEF QuietTry, Giving
  <2> QED BY <1>1, <1>3, <2>1, QuietTried
<1>4. ASSUME NEW l, NEW place \in {"resolve", "idle"}, Go(j, l, place) PROVE Tried'
  <2>1. Alone(j) /\ pc'[j] = place
    BY <1>1, <1>4, GoAlone
  <2>2. JobTries(j)' /\ Asks(j)'
    BY <1>1, <2>1, FreeTries DEF Free
  <2> QED BY <1>3, <2>1, <2>2
<1>5. ASSUME NEW l \in Locals, refundFailedBooking(j, l, "idle") PROVE Tried'
  <2>1. Alone(j) /\ pc'[j] = "claim" /\ loc'[j].next = "idle" /\ Asks(j)'
    BY <1>1, <1>5, FailedBookingAsks
  <2>2. JobTries(j)'
    BY <2>1 DEF JobTries
  <2> QED BY <1>3, <2>1, <2>2
<1>6. CASE StartSweep(j) \/ ResolveFails(j) \/ CancelRefused(j)
  BY <1>4, <1>6 DEF StartSweep, ResolveFails, CancelRefused, Done
<1>7. CASE StartCancel(j)
  <2>1. Alone(j) /\ pc'[j] = "cancel" /\ loc'[j].next = "idle"
    BY <1>1, <1>7, GoAlone DEF StartCancel, Blank
  <2>2. JobTries(j)' /\ Asks(j)'
    BY <2>1 DEF JobTries, Asks, Debts
  <2> QED BY <1>3, <2>1, <2>2
<1>8. CASE resolve(j)
  <2>1. \/ \E said \in {"CONFIRMED", "CANCELLED"} :
              Go(j, [loc[j] EXCEPT !.target = said], "transition")
        \/ refundFailedBooking(j, loc[j], "idle")
        \/ Done(j)
    BY <1>8 DEF resolve, Unanswered
  <2>2. ASSUME NEW said \in {"CONFIRMED", "CANCELLED"},
               Go(j, [loc[j] EXCEPT !.target = said], "transition")
        PROVE  Tried'
    <3>1. Alone(j) /\ pc'[j] = "transition" /\ loc'[j].target = said
      BY <1>1, <2>2, GoAlone DEF Locals
    <3>2. JobTries(j)' /\ Asks(j)'
      BY <3>1 DEF JobTries, Asks, Debts
    <3> QED BY <1>3, <3>1, <3>2
  <2> QED BY <1>1, <1>4, <1>5, <2>1, <2>2 DEF Done
<1>9. CASE retryRefund(j)
  <2>1. CASE refund.kind = "CANCELLATION"
    <3> DEFINE l == [Blank EXCEPT !.kind = "CANCELLATION", !.amount = refund.amount]
    <3>1. l.kind = "CANCELLATION" /\ l.next = "idle"
      BY DEF Blank
    <3>2. Execute(j, l)
      BY <1>9, <2>1 DEF retryRefund
    <3> HIDE DEF l
    <3>3. /\ Alone(j) /\ pc'[j] \in {"zero", "claim"} /\ loc'[j].kind = "CANCELLATION"
          /\ loc'[j].next = "idle"
      BY <1>1, <3>1, <3>2, GoAlone DEF Execute
    <3>4. Cancelled'
      BY <1>2, <2>1 DEF Tried, RefundSays, Cancelled
    <3>5. JobTries(j)' /\ Asks(j)'
      BY <3>3, <3>4 DEF JobTries, Asks, Debts
    <3> QED BY <1>3, <3>3, <3>5
  <2>2. CASE refund.kind # "CANCELLATION"
    BY <1>5, <1>9, <2>2, BlankIsLocal DEF retryRefund
  <2> QED BY <2>1, <2>2
<1> QED BY <1>6, <1>7, <1>8, <1>9

\* It writes anything but FAILED.
LEMMA TransitionTried ==
    ASSUME Tried, DataOK, ProcsOK, NEW j \in Jobs, transition(j) \/ Park(j)
    PROVE  Tried'
<1>1. j \in Procs /\ j \notin Requests /\ pc[j] \in {"transition", "park"}
  BY TwoKinds DEF Procs, transition, Park, At
<1>2. /\ UNCHANGED <<refund, ride, charged, returned>>
      /\ status' \in {"CONFIRMED", "CANCELLED", "MANUAL_REVIEW"}
  BY DEF transition, Park, Write, money, At, Tried, JobTries
<1>3. Alone(j) /\ pc'[j] = "idle"
  BY <1>1, GoAlone DEF transition, Park, Done
<1>4. Lasting
  BY <1>2 DEF Lasting, DataOK
<1>5. \A s \in Requests : Tries(s)' => Tries(s)
  BY <1>1, <1>2, <1>3 DEF Tries, Alone, Procs
<1>6. OneTry'
  BY <1>2, <1>5, TryLasts DEF Tried, None
<1>7. RefundSays'
  BY <1>1, <1>2, <1>3, <1>4, RefundUntouched DEF Tried, Giving
<1>8. JobTries(j)' /\ Asks(j)'
  BY <1>1, <1>3, FreeTries DEF Free
<1> QED BY <1>1, <1>2, <1>3, <1>4, <1>6, <1>7, <1>8, StepTried

LEMMA CancelTried ==
    ASSUME Tried, DataOK, ProcsOK, NEW j \in Jobs, loc[j].ref \in Requests, CancelAccepted(j)
    PROVE  Tried'
<1>1. j \in Procs /\ j \notin Requests /\ loc[j] \in Locals /\ pc[j] = "cancel"
  BY TwoKinds DEF Procs, ProcsOK, CancelAccepted, At
<1>2. /\ UNCHANGED <<status, refund, charged, returned>>
      /\ ride[loc[j].ref] \in {"PENDING", "CONFIRMED"}
      /\ ride' = [ride EXCEPT ![loc[j].ref] = "CANCELLED"]
  BY DEF CancelAccepted, document, money
<1>3. /\ Cancelled' /\ Lasting
      /\ \A s \in Requests : ride'[s] # None => ride[s] # None
  <2>1. /\ ride'[loc[j].ref] = "CANCELLED"
        /\ \A s \in Requests : s # loc[j].ref => ride'[s] = ride[s]
    BY <1>2 DEF DataOK
  <2> QED BY <1>2, <2>1 DEF Cancelled, Lasting, DataOK, None
<1>4. /\ Alone(j) /\ pc'[j] \in {"park", "zero", "claim"}
      /\ pc'[j] # "park" => loc'[j].kind = "CANCELLATION" /\ loc'[j].next = loc[j].next
  <2>1. PICK back \in Refundable \union {Unclear} :
           IF back = Unclear THEN GoTo(j, "park")
           ELSE Execute(j, [loc[j] EXCEPT !.kind = "CANCELLATION", !.amount = back])
    BY DEF CancelAccepted
  <2>2. CASE back = Unclear
    BY <1>1, <2>1, <2>2, GoAlone DEF GoTo
  <2>3. CASE back # Unclear
    <3> DEFINE l == [loc[j] EXCEPT !.kind = "CANCELLATION", !.amount = back]
    <3>1. l.kind = "CANCELLATION" /\ l.next = loc[j].next
      BY <1>1 DEF Locals
    <3>2. Execute(j, l)
      BY <2>1, <2>3
    <3> HIDE DEF l
    <3> QED BY <1>1, <3>1, <3>2, GoAlone DEF Execute
  <2> QED BY <2>2, <2>3
<1>5. loc[j].next = "idle"
  BY <1>1 DEF Tried, JobTries
<1>6. JobTries(j)' /\ Asks(j)'
  BY <1>3, <1>4, <1>5 DEF JobTries, Asks, Debts
<1>7. \A s \in Requests : Tries(s)' => Tries(s)
  BY <1>1, <1>2, <1>3, <1>4 DEF Tries, Alone, Procs
<1>8. OneTry'
  BY <1>2, <1>7, TryLasts DEF Tried
<1>9. RefundSays'
  BY <1>1, <1>2, <1>3, RefundUntouched, <1>4 DEF Tried, Giving
<1>10. status' = "FAILED" => Excused'
  BY <1>1, <1>2, <1>3, <1>4, ExcuseLasts DEF Tried
<1>11. charged' \subseteq charged \union {j} /\ \A s \in Requests \ {j} : ride[s] = None => ride'[s] = None
  BY <1>2, <1>3
<1> QED BY <1>1, <1>3, <1>4, <1>6, <1>8, <1>9, <1>10, <1>11, StepTried

-----------------------------------------------------------------------------
(* The steps of a refund.                                                  *)

LEMMA RefundedTries ==
    ASSUME Tried, ProcsOK, NEW p \in Procs, pc[p] \in Debts \union {"zero"}, Refunded(p),
           ride' = ride, refund'.status # None
    PROVE  /\ Alone(p) /\ pc'[p] \in {"release", "finalize", "idle"}
           /\ p \in Requests => RequestTries(p)' /\ pc[p] \in Trying
           /\ p \in Jobs => JobTries(p)'
           /\ Asks(p)'
<1>1. /\ Alone(p) /\ pc'[p] = loc[p].next /\ pc'[p] \in {"release", "finalize", "idle"}
      /\ loc[p].next = "finalize" => loc'[p].target = loc[p].target
  BY RefundedGoes
<1>2. Asks(p)' /\ JobTries(p)'
  BY <1>1 DEF Asks, JobTries, Debts
<1>3. ASSUME p \in Requests PROVE RequestTries(p)' /\ pc[p] \in Trying
  <2>1. /\ pc[p] \in Debts
        /\ \/ loc[p].next = "release"
           \/ loc[p].next = "finalize" /\ loc[p].target = "FAILED" /\ ride[p] = "FAILED"
    BY <1>3 DEF Tried, RequestTries
  <2> QED BY <1>1, <2>1 DEF RequestTries, Debts, Trying, None
<1> QED BY <1>1, <1>2, <1>3

\* A refund's step, given what it records and what it makes of the document.
LEMMA EngineTried ==
    ASSUME Tried, DataOK, ProcsOK, NEW p \in Procs, pc[p] \in Debts \union {"zero"}, Alone(p),
           p \in Requests => RequestTries(p)' /\ pc[p] \in Trying, p \in Jobs => JobTries(p)',
           Asks(p)', pc'[p] # "collect",
           UNCHANGED <<ride, charged>>, Lasting, RefundSays', status' # None \/ status' = status,
           status' = "FAILED" => status = "FAILED" \/ returned >= Price
    PROVE  Tried'
<1>1. \A s \in Requests : Tries(s)' => Tries(s)
  BY DEF Tries, Alone, Procs
<1>2. OneTry'
  BY <1>1, TryLasts DEF Tried
<1>3. ASSUME status' = "FAILED" PROVE Excused'
  <2>1. CASE status = "FAILED"
    BY <2>1, ExcuseLasts DEF Tried
  <2>2. CASE returned >= Price
    <3>1. Excused
      BY <2>2 DEF Excused
    <3> QED BY <3>1, ExcuseLasts
  <2> QED BY <1>3, <2>1, <2>2
<1> QED BY <1>2, <1>3, StepTried

LEMMA ClaimTried ==
    ASSUME Tried, DataOK, ProcsOK, NEW p \in Procs, claim(p)
    PROVE  Tried'
<1>1. pc[p] = "claim" /\ UNCHANGED <<status, ride, charged, returned>> /\ Asks(p)
  BY DEF claim, At, money, Tried
<1>2. pc[p] \in Debts
  BY <1>1 DEF Debts
<1>3. CASE Claimable
  <2>1. /\ refund'.status = "PROCESSING" /\ refund'.kind = loc[p].kind
        /\ Alone(p) /\ pc'[p] = "pay" /\ loc'[p] = loc[p]
    BY <1>3, GoAlone DEF claim, GoTo
  <2>2. Lasting
    BY <1>1, <2>1 DEF Lasting, DataOK, None
  <2>3. Cancelled' <=> Cancelled
    BY <1>1 DEF Cancelled
  <2>4. RefundSays'
    BY <1>1, <1>2, <2>1, <2>3 DEF RefundSays, Asks, Giving
  <2>5. /\ p \in Requests => RequestTries(p)' /\ pc[p] \in Trying
        /\ p \in Jobs => JobTries(p)'
    BY <1>1, <1>2, <2>1 DEF Tried, RequestTries, JobTries, Debts, Trying
  <2>6. Asks(p)'
    BY <1>1, <1>2, <2>1, <2>3 DEF Asks, Debts
  <2> QED BY <1>1, <1>2, <2>1, <2>2, <2>4, <2>5, <2>6, EngineTried
<1>4. CASE ~Claimable
  <2>1. refund' = refund /\ Refunded(p) /\ refund.status # None
    BY <1>4 DEF claim, Claimable
  <2>2. Lasting
    BY <1>1, <2>1 DEF Lasting, DataOK
  <2>3. /\ Alone(p) /\ pc'[p] \in {"release", "finalize", "idle"}
        /\ p \in Requests => RequestTries(p)' /\ pc[p] \in Trying
        /\ p \in Jobs => JobTries(p)'
        /\ Asks(p)'
    BY <1>1, <1>2, <2>1, RefundedTries
  <2>4. RefundSays'
    BY <1>1, <2>1, <2>2, <2>3, RefundUntouched DEF Tried, Giving
  <2> QED BY <1>1, <1>2, <2>2, <2>3, <2>4, EngineTried
<1> QED BY <1>3, <1>4

LEMMA PayTried ==
    ASSUME Tried, DataOK, ProcsOK, NEW p \in Procs, Pay(p) \/ PayFails(p)
    PROVE  Tried'
<1>1. /\ pc[p] = "pay" /\ UNCHANGED <<status, ride, charged, refund>> /\ Asks(p)
      /\ loc[p] \in Locals
  BY DEF Pay, PayFails, Paid, At, money, document, Tried, ProcsOK
<1>2. pc[p] \in Debts
  BY <1>1 DEF Debts
<1>3. Alone(p) /\ pc'[p] \in {"complete", "fail"} /\ loc'[p] = loc[p]
  BY GoAlone DEF Pay, PayFails, GoTo
<1>4. PICK a \in Nat, n \in Nat : a = loc[p].amount /\ n = returned
  BY <1>1, PriceAssumption DEF Locals, DataOK
<1>5. /\ returned' \in Nat /\ returned' >= n
      /\ pc'[p] = "complete" => returned' >= a
  <2>1. CASE Pay(p)
    <3>1. returned' = n + a
      BY <1>4, <2>1 DEF Pay, Paid
    <3> QED BY <1>4, <3>1
  <2>2. CASE PayFails(p)
    <3>1. returned' = n /\ pc'[p] = "fail"
      BY <1>4, <2>2, GoAlone DEF PayFails, GoTo, money
    <3> QED BY <1>4, <3>1
  <2> QED BY <2>1, <2>2
<1>6. Lasting
  BY <1>1, <1>4, <1>5 DEF Lasting
<1>7. Cancelled' <=> Cancelled
  BY <1>1 DEF Cancelled
<1>8. RefundSays'
  BY <1>1, <1>3, <1>6, RefundUntouched DEF Tried, Giving
<1>9. /\ p \in Requests => RequestTries(p)' /\ pc[p] \in Trying
      /\ p \in Jobs => JobTries(p)'
  BY <1>1, <1>2, <1>3 DEF Tried, RequestTries, JobTries, Debts, Trying
<1>10. Asks(p)'
  BY <1>1, <1>2, <1>3, <1>4, <1>5, <1>7 DEF Asks, Debts
<1> QED BY <1>1, <1>2, <1>3, <1>6, <1>8, <1>9, <1>10, EngineTried

LEMMA RecordTried ==
    ASSUME Tried, DataOK, ProcsOK, NEW p \in Procs,
           Complete(p) \/ Fail(p) \/ recordZeroRefund(p)
    PROVE  Tried'
<1>1. /\ pc[p] \in Debts \union {"zero"} /\ UNCHANGED <<ride, charged, returned>> /\ Asks(p)
      /\ Refunded(p)
  BY DEF Complete, Fail, recordZeroRefund, At, money, Tried, Debts
<1>2. refund \in Refunds /\ refund'.status \in {"COMPLETED", "FAILED"}
  BY DEF Complete, Fail, recordZeroRefund, DataOK, Refunds, NoRefund
<1>3. Lasting
  BY <1>1, <1>2 DEF Lasting, DataOK, None
<1>4. /\ Alone(p) /\ pc'[p] \in {"release", "finalize", "idle"}
      /\ p \in Requests => RequestTries(p)' /\ pc[p] \in Trying
      /\ p \in Jobs => JobTries(p)'
      /\ Asks(p)'
  BY <1>1, <1>2, RefundedTries DEF None
<1>5. Cancelled' <=> Cancelled
  BY <1>1 DEF Cancelled
<1>6. ASSUME Complete(p), ~Cancelled PROVE returned >= Price /\ loc[p].kind = "FAILED_BOOKING"
  BY <1>1, <1>6 DEF Complete, At, Asks, Debts
<1>7. ASSUME Complete(p), loc[p].kind = "FAILED_BOOKING" PROVE returned >= Price
  BY <1>1, <1>7 DEF Complete, At, Asks, Debts
<1>8. RefundSays' /\ status' \in {status, "FAILED", "CANCELLED"}
      /\ (status' = "FAILED" => status = "FAILED" \/ returned >= Price)
  <2>1. CASE Complete(p)
    <3>1. refund'.status = "COMPLETED" /\ refund'.kind = refund.kind
      BY <1>2, <2>1 DEF Complete, Refunds
    <3>2. status' = FinalStatus(loc[p].kind)
      BY <2>1 DEF Complete
    <3> QED BY <1>1, <1>5, <1>6, <1>7, <2>1, <3>1, <3>2 DEF Tried, RefundSays, FinalStatus
  <2>2. CASE Fail(p)
    <3>1. refund'.status = "FAILED" /\ refund'.kind = refund.kind /\ status' = status
      BY <1>2, <2>2 DEF Fail, Refunds
    <3> QED BY <1>5, <3>1 DEF Tried, RefundSays
  <2>3. CASE recordZeroRefund(p)
    <3>1. Cancelled' /\ refund'.status = "COMPLETED" /\ status' \in {status, "CANCELLED"}
      BY <1>1, <1>2, <1>5, <2>3 DEF recordZeroRefund, At, Asks, NoRefund
    <3> QED BY <3>1 DEF RefundSays
  <2> QED BY <2>1, <2>2, <2>3
<1> QED BY <1>1, <1>3, <1>4, <1>8, EngineTried DEF None

-----------------------------------------------------------------------------
(* The steps of the world, and the invariant.                              *)

LEMMA WorldTried ==
    ASSUME Tried, DataOK, UNCHANGED <<status, ride, money, proc>>, refund'.status = refund.status,
           refund'.kind = refund.kind
    PROVE  Tried'
<1>1. /\ pc' = pc /\ loc' = loc /\ charged' = charged /\ returned' = returned
      /\ (Cancelled' <=> Cancelled)
  BY DEF proc, money, Cancelled
<1>2. OneTry' /\ (status' = "FAILED" => Excused')
  BY <1>1 DEF Tried, OneTry, Tries, Excused
<1>3. RefundSays'
  BY <1>1 DEF Tried, RefundSays
<1>4. \A r \in Requests : RequestTries(r)'
  BY <1>1 DEF Tried, RequestTries
<1>5. \A j \in Jobs : JobTries(j)'
  BY <1>1 DEF Tried, JobTries
<1>6. \A p \in Procs : Asks(p)'
  BY <1>1 DEF Tried, Asks
<1> QED BY <1>2, <1>3, <1>4, <1>5, <1>6 DEF Tried

\* Nothing that was lost is found again, and no request gives a document back.
LEMMA TouchedForGood ==
    ASSUME DataOK, [Next]_vars, losses' = 0, ~reused'
    PROVE  Untouched /\ ~Lose
<1>1. losses \in Nat /\ ~Lose
  BY LossesAssumption DEF DataOK, Lose
<1>2. losses' = losses /\ (reused => reused')
  <2>1. CASE \E r \in Requests : Request(r)
    BY <1>1, <2>1
       DEF Request, acquireLock, FindReplay, claimBookingRecord, FindPrior, ResetPrior,
           collectPayment, CollectRefused, CollectThrows, CollectUnheard, markFailed, Book,
           BookRefused, BookUnheard, settleSupplier, finalizeBookingRecord, releaseLock,
           RideMoves, history
  <2>2. CASE \E j \in Jobs : Job(j)
    <3>1. PICK j \in Jobs : Job(j)
      BY <2>2
    <3>2. CASE resolve(j)
      BY <3>2 DEF resolve
    <3>3. CASE StartSweep(j) \/ ResolveFails(j) \/ transition(j) \/ retryRefund(j)
      BY <3>3 DEF StartSweep, ResolveFails, transition, retryRefund, history
    <3>4. CASE StartCancel(j) \/ CancelRefused(j) \/ CancelUnheard(j) \/ Park(j)
      BY <1>1, <3>4 DEF StartCancel, CancelRefused, CancelUnheard, Park, history
    <3>5. CASE CancelAccepted(j)
      BY <3>5 DEF CancelAccepted, history
    <3> QED BY <3>1, <3>2, <3>3, <3>4, <3>5 DEF Job
  <2>3. CASE \E p \in Procs : RefundStep(p) \/ Crash(p)
    BY <1>1, <2>3
       DEF RefundStep, claim, Pay, PayFails, PayUnheard, Complete, CompleteRejected, Fail,
           RefundThrows, recordZeroRefund, Crash, history
  <2>4. CASE Expire
    BY <2>4 DEF Expire
  <2>5. CASE Age \/ UNCHANGED vars
    BY <2>5 DEF Age, vars, history
  <2>6. CASE Stale
    BY <1>1, <2>6 DEF Stale, history
  <2> QED BY <2>1, <2>2, <2>3, <2>4, <2>5, <2>6 DEF Next
<1> QED BY <1>1, <1>2 DEF Untouched

LEMMA TriesInit == Init => TriesInv
<1> SUFFICES ASSUME Init PROVE Tried
  BY DEF TriesInv
<1>1. /\ refund.status = None /\ refund.kind = None /\ charged = {}
      /\ \A r \in Requests : pc[r] = "new" /\ ride[r] = None
      /\ \A j \in Jobs : pc[j] = "idle"
      /\ \A p \in Procs : pc[p] \in {"new", "idle"}
  <2>1. \A p \in Procs : pc[p] = IF p \in Requests THEN "new" ELSE "idle"
    BY DEF Init
  <2> QED BY <2>1, TwoKinds DEF Init, NoRefund, Procs
<1>2. OneTry
  BY <1>1 DEF OneTry, Tries, Trying
<1>3. RefundSays /\ status # "FAILED"
  BY <1>1 DEF RefundSays, Init, None
<1>4. \A r \in Requests : RequestTries(r)
  BY <1>1 DEF RequestTries, Debts
<1>5. (\A j \in Jobs : JobTries(j)) /\ \A p \in Procs : Asks(p)
  BY <1>1 DEF JobTries, Asks, Debts
<1> QED BY <1>2, <1>3, <1>4, <1>5 DEF Tried

LEMMA TriesNext == CabInv /\ TriesInv /\ [Next]_vars => TriesInv'
<1> SUFFICES ASSUME CabInv, TriesInv, [Next]_vars, losses' = 0, ~reused' PROVE Tried'
  BY DEF TriesInv, Untouched
<1>1. Tried /\ DataOK /\ ProcsOK /\ ~Lose
  BY TouchedForGood DEF TriesInv, CabInv
<1>2. CASE \E r \in Requests : Request(r)
  <2>1. PICK r \in Requests : Request(r)
    BY <1>2
  <2>2. CASE \/ acquireLock(r) \/ FindReplay(r) \/ FindPrior(r) \/ CollectRefused(r)
             \/ CollectThrows(r) \/ releaseLock(r)
    BY <1>1, <2>2, EnterTried
  <2>3. CASE claimBookingRecord(r)
    BY <1>1, <2>3, FirstTried
  <2>4. CASE collectPayment(r) \/ markFailed(r)
    BY <1>1, <2>4, ChargeTried
  <2>5. CASE Book(r) \/ BookRefused(r)
    BY <1>1, <2>5, BookTried
  <2>6. CASE settleSupplier(r)
    BY <1>1, <2>6, SettleTried
  <2>7. CASE finalizeBookingRecord(r)
    BY <1>1, <2>7, FinalizeTried
  <2>8. CASE RideMoves(r)
    BY <1>1, <2>8, RideTried
  <2>9. CASE ResetPrior(r) \/ CollectUnheard(r) \/ BookUnheard(r)
    BY <1>1, <2>9 DEF ResetPrior, CollectUnheard, BookUnheard
  <2> QED BY <2>1, <2>2, <2>3, <2>4, <2>5, <2>6, <2>7, <2>8, <2>9 DEF Request
<1>3. CASE \E j \in Jobs : Job(j)
  <2>1. PICK j \in Jobs : Job(j)
    BY <1>3
  <2>2. CASE \/ StartSweep(j) \/ resolve(j) \/ ResolveFails(j) \/ retryRefund(j)
             \/ StartCancel(j) \/ CancelRefused(j)
    BY <1>1, <2>2, SweepTried
  <2>3. CASE transition(j) \/ Park(j)
    BY <1>1, <2>3, TransitionTried
  <2>4. CASE CancelAccepted(j)
    <3>1. pc[j] = "cancel" /\ j \in Procs
      BY <2>4 DEF CancelAccepted, At, Procs
    <3>2. loc[j].ref \in Requests
      BY <3>1 DEF CabInv, Owed, Fit
    <3> QED BY <1>1, <2>4, <3>2, CancelTried
  <2>5. CASE CancelUnheard(j)
    BY <1>1, <2>5 DEF CancelUnheard
  <2> QED BY <2>1, <2>2, <2>3, <2>4, <2>5 DEF Job
<1>4. CASE \E p \in Procs : RefundStep(p) \/ Crash(p)
  <2>1. PICK p \in Procs : RefundStep(p) \/ Crash(p)
    BY <1>4
  <2>2. CASE claim(p)
    BY <1>1, <2>2, ClaimTried
  <2>3. CASE Pay(p) \/ PayFails(p)
    BY <1>1, <2>3, PayTried
  <2>4. CASE Complete(p) \/ Fail(p) \/ recordZeroRefund(p)
    BY <1>1, <2>4, RecordTried
  <2>5. CASE PayUnheard(p) \/ CompleteRejected(p) \/ RefundThrows(p) \/ Crash(p)
    BY <1>1, <2>5 DEF PayUnheard, CompleteRejected, RefundThrows, Crash
  <2> QED BY <2>1, <2>2, <2>3, <2>4, <2>5 DEF RefundStep
<1>5. CASE Expire \/ Age \/ Stale \/ UNCHANGED vars
  <2>1. UNCHANGED <<status, ride, money, proc>>
    BY <1>5 DEF Expire, Age, Stale, vars, document, money, proc
  <2>2. refund'.status = refund.status /\ refund'.kind = refund.kind
    <3>1. refund' = refund \/ refund' = [refund EXCEPT !.stale = TRUE]
      BY <1>5 DEF Expire, Age, Stale, vars, document
    <3> QED BY <1>1, <3>1 DEF DataOK, Refunds
  <2> QED BY <1>1, <2>1, <2>2, WorldTried
<1> QED BY <1>2, <1>3, <1>4, <1>5 DEF Next

\* A booking at rest that says FAILED, with nothing lost and no request that went on
\* with another's document, gave its charge back or has a refund to be tried again.
THEOREM CabFailedIsRefunded == Spec => []FailedIsRefunded
<1>1. CabInv /\ TriesInv => FailedIsRefunded
  <2> SUFFICES ASSUME CabInv, Tried, status = "FAILED", AtRest, refund.status # "FAILED"
               PROVE  returned >= Price * Cardinality(charged)
    BY DEF FailedIsRefunded, GivenBack, TriesInv, Untouched
  <2>1. DataOK /\ Excused /\ RefundSays
    BY DEF CabInv, Tried
  <2>2. Cardinality(charged) \in {0, 1}
    <3>1. CASE charged = {}
      BY <3>1, FS_EmptySet
    <3>2. CASE charged # {}
      <4>1. PICK r : r \in charged
        BY <3>2
      <4>2. charged = {r}
        BY <2>1, <4>1 DEF DataOK, Tried, OneTry, Tries
      <4> QED BY <4>2, FS_Singleton
    <3> QED BY <3>1, <3>2
  <2>3. charged = {} \/ returned >= Price
    <3>1. CASE refund.status # None /\ \E r \in Requests : ride[r] = "FAILED"
      <4>1. refund.status \in {"PROCESSING", "COMPLETED"}
        BY <2>1, <3>1 DEF DataOK, Refunds
      <4>2. refund.status # "PROCESSING"
        BY <2>1 DEF AtRest, RefundSays, Giving
      <4>3. ~Cancelled
        BY <3>1 DEF Cancelled, Tried, OneTry, Tries, None
      <4> QED BY <2>1, <4>1, <4>2, <4>3 DEF RefundSays
    <3> QED BY <2>1, <3>1 DEF Excused
  <2>4. CASE charged = {}
    <3>1. Cardinality(charged) = 0
      BY <2>4, FS_EmptySet
    <3> QED BY <2>1, <3>1, PriceAssumption DEF DataOK
  <2>5. CASE returned >= Price
    BY <2>1, <2>2, <2>5, PriceAssumption DEF DataOK
  <2> QED BY <2>3, <2>4, <2>5
<1>2. Init => CabInv /\ TriesInv
  BY CabInit, TriesInit
<1>3. CabInv /\ TriesInv /\ [Next]_vars => (CabInv /\ TriesInv)'
  BY CabNext, TriesNext
<1> QED BY <1>1, <1>2, <1>3, PTL DEF Spec

=============================================================================
