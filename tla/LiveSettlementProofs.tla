------------------------- MODULE LiveSettlementProofs -------------------------
(***************************************************************************)
(* Proofs about LiveSettlement, for any number of jobs, any orders,        *)
(* penalties and bounds: its types, that the payer is paid at most once    *)
(* more than something was lost, that money goes back for cause, and, as   *)
(* long as nothing is lost, that a refund on record was made and a booking *)
(* that is over has one.                                                   *)
(***************************************************************************)
EXTENDS LiveSettlement, FiniteSetTheorems, TLAPS

-----------------------------------------------------------------------------
(* The invariant.                                                          *)

\* A process that asks the supplier has a status to compare the answer with,
\* and one that is about to write the answer has one.
Fit(l, place) ==
    /\ l \in Locals /\ place \in Places
    /\ place \in {"ask", "set"} => l.seen \in Statuses
    /\ place \in {"set", "pollSet"} => l.target \in Statuses

Aimed == \A p \in Procs : Fit(loc[p], pc[p])

\* Those that may still pay, or have paid and will say that they did not.
Bearers == {p \in Procs : pc[p] \in {"pay", "fail"}}

\* Whether a claim would be granted, or would be in time if nobody else moves.
Admits ==
    \/ refund.status \in {"NONE", "FAILED"}
    \/ refund.status = "PROCESSING" /\ (refund.stale \/ ~\E p \in Procs : Paying(p))

\* Every payment made, every one that may come and the claim that may be granted
\* are covered by the first payment and by what was lost.
Budget ==
    payments + Cardinality(Bearers) + (IF Admits THEN 1 ELSE 0) <= 1 + losses

LiveInv == TypeOK /\ Aimed /\ Budget

-----------------------------------------------------------------------------
(* Where a step leaves its process.                                        *)

Giving == {"pay", "record", "fail"}

\* A step of p that leaves it, well placed, outside a payment.
Onward(p) ==
    /\ pc' \in [Procs -> Places] /\ loc' \in [Procs -> Locals]
    /\ Aimed'
    /\ \A q \in Procs : q # p => pc'[q] = pc[q]
    /\ pc'[p] \notin Giving

LEMMA IdleIsLocal == Idle \in Locals
BY PriceAssumption DEF Idle, Locals, Breakdowns

LEMMA GoFits ==
    ASSUME TypeOK, Aimed, NEW p \in Procs, NEW l, NEW place,
           Fit(l, place), Go(p, l, place)
    PROVE  /\ pc' \in [Procs -> Places] /\ loc' \in [Procs -> Locals] /\ Aimed'
           /\ pc'[p] = place
           /\ \A q \in Procs : q # p => pc'[q] = pc[q]
<1>1. pc \in [Procs -> Places] /\ loc \in [Procs -> Locals]
  BY DEF TypeOK
<1>2. l \in Locals /\ place \in Places
  BY DEF Fit
<1>3. pc' = [pc EXCEPT ![p] = place] /\ loc' = [loc EXCEPT ![p] = l]
  BY DEF Go
<1>4. pc'[p] = place /\ loc'[p] = l
  BY <1>1, <1>3
<1>5. \A q \in Procs : q # p => pc'[q] = pc[q] /\ loc'[q] = loc[q]
  BY <1>1, <1>3
<1>6. \A q \in Procs : Fit(loc'[q], pc'[q])
  BY <1>4, <1>5 DEF Aimed
<1>7. pc' \in [Procs -> Places] /\ loc' \in [Procs -> Locals]
  BY <1>1, <1>2, <1>3
<1> QED BY <1>4, <1>5, <1>6, <1>7 DEF Aimed

LEMMA GoOn ==
    ASSUME TypeOK, Aimed, NEW p \in Procs, NEW l, NEW place,
           Fit(l, place), place \notin Giving, Go(p, l, place)
    PROVE  Onward(p)
BY GoFits DEF Onward

\* A place that asks for nothing.
LEMMA GoAnywhere ==
    ASSUME TypeOK, Aimed, NEW p \in Procs, NEW l \in Locals,
           NEW place \in Places \ (Giving \union {"ask", "set", "pollSet"}), Go(p, l, place)
    PROVE  Onward(p)
BY GoOn DEF Fit

LEMMA LeaveOn ==
    ASSUME TypeOK, Aimed, NEW p \in Procs, Leave(p) PROVE Onward(p)
<1>1. /\ [Idle EXCEPT !.job = "escalate"] \in Locals
      /\ [Idle EXCEPT !.job = "retry"] \in Locals /\ Idle \in Locals
  BY IdleIsLocal DEF Locals
<1>2. {"escalate", "retry", "idle"} \subseteq Places \ (Giving \union {"ask", "set", "pollSet"})
  BY DEF Places, Giving
<1>3. \/ Go(p, [Idle EXCEPT !.job = "escalate"], "escalate")
      \/ Go(p, [Idle EXCEPT !.job = "retry"], "retry")
      \/ Go(p, Idle, "idle")
  BY DEF Leave
<1> QED BY <1>1, <1>2, <1>3, GoAnywhere

LEMMA ReturnOn ==
    ASSUME TypeOK, Aimed, NEW p \in Procs, NEW seen \in Statuses \union {"none"}, Return(p, seen)
    PROVE  Onward(p)
<1>1. loc[p] \in Locals
  BY DEF TypeOK
<1>2. [Idle EXCEPT !.job = loc[p].job, !.seen = seen] \in Locals /\ Idle \in Locals
  BY <1>1, IdleIsLocal DEF Locals
<1>3. {"synced", "idle"} \subseteq Places \ (Giving \union {"ask", "set", "pollSet"})
  BY DEF Places, Giving
<1>4. \/ Go(p, Idle, "idle")
      \/ Go(p, [Idle EXCEPT !.job = loc[p].job, !.seen = seen], "synced")
  BY DEF Return
<1> QED BY <1>2, <1>3, <1>4, GoAnywhere

LEMMA EndRefundOn ==
    ASSUME TypeOK, Aimed, NEW p \in Procs, EndRefund(p) PROVE Onward(p)
<1>1. loc[p] \in Locals
  BY DEF TypeOK
<1>2. loc[p].target \in Statuses \union {"none"}
  BY <1>1 DEF Locals
<1> QED BY <1>2, ReturnOn, LeaveOn DEF EndRefund

LEMMA ExecuteOn ==
    ASSUME TypeOK, Aimed, NEW p \in Procs, NEW l \in Locals, Execute(p, l) PROVE Onward(p)
<1>1. {"zero", "noInstrument", "claim"} \subseteq Places \ (Giving \union {"ask", "set", "pollSet"})
  BY DEF Places, Giving
<1>2. Go(p, l, "zero") \/ Go(p, l, "noInstrument") \/ Go(p, l, "claim")
  BY DEF Execute
<1> QED BY <1>1, <1>2, GoAnywhere

LEMMA RefundFailedOn ==
    ASSUME TypeOK, Aimed, NEW p \in Procs, NEW l \in Locals, refundFailedBooking(p, l)
    PROVE  Onward(p)
<1>1. Price \in 0..Price
  BY PriceAssumption
<1>2. Full(l) \in Locals
  BY <1>1 DEF Full, Locals, Kinds
<1> QED BY <1>2, ExecuteOn DEF refundFailedBooking

LEMMA SettleOn ==
    ASSUME TypeOK, Aimed, NEW p \in Procs, NEW l \in Locals, NEW c \in Int,
           settleCancellation(p, l, c)
    PROVE  Onward(p)
<1>1. CASE c \in 0..Price
  <2>1. Price - c \in 0..Price
    BY <1>1, PriceAssumption
  <2>2. [l EXCEPT !.kind = "CANCELLATION", !.amount = Price - c] \in Locals
    BY <2>1 DEF Locals, Kinds
  <2> QED BY <1>1, <2>2, ExecuteOn DEF settleCancellation
<1>2. CASE c \notin 0..Price
  <2>1. "unclear" \in Places \ (Giving \union {"ask", "set", "pollSet"})
    BY DEF Places, Giving
  <2> QED BY <1>2, <2>1, GoAnywhere DEF settleCancellation
<1> QED BY <1>1, <1>2

LEMMA ResolveOn ==
    ASSUME TypeOK, Aimed, NEW p \in Procs, NEW target \in Statuses, Resolve(p, target)
    PROVE  Onward(p)
<1>1. loc[p] \in Locals /\ charges \in Int
  BY PriceAssumption DEF TypeOK, Breakdowns, Unclear, None
<1>2. [loc[p] EXCEPT !.insync = TRUE] \in Locals
  BY <1>1 DEF Locals
<1> QED BY <1>1, <1>2, RefundFailedOn, SettleOn, ReturnOn DEF Resolve

LEMMA ThrownOn ==
    ASSUME TypeOK, Aimed, NEW p \in Procs, Thrown(p) PROVE Onward(p)
<1>1. loc[p] \in Locals
  BY DEF TypeOK
<1>2. loc[p].seen \in Statuses \union {"none"} /\ loc[p].charges \in Breakdowns
  BY <1>1 DEF Locals
<1>3. /\ [Idle EXCEPT !.job = "poll"] \in Locals /\ Idle \in Locals
      /\ [Idle EXCEPT !.job = "cancelPoll", !.charges = loc[p].charges] \in Locals
  BY <1>2, IdleIsLocal DEF Locals
<1>4. {"pollAsk", "cancelPoll", "idle"} \subseteq Places \ (Giving \union {"ask", "set", "pollSet"})
  BY DEF Places, Giving
<1>5. \/ Return(p, loc[p].seen) \/ Leave(p)
      \/ Go(p, [Idle EXCEPT !.job = "poll"], "pollAsk")
      \/ Go(p, [Idle EXCEPT !.job = "cancelPoll", !.charges = loc[p].charges], "cancelPoll")
      \/ Go(p, Idle, "idle")
  BY DEF Thrown
<1> QED BY <1>2, <1>3, <1>4, <1>5, ReturnOn, LeaveOn, GoAnywhere

-----------------------------------------------------------------------------
(* What a step does to the budget.                                         *)

LEMMA BearersFinite == IsFiniteSet(Bearers) /\ Cardinality(Bearers) \in Nat
BY ProcsAssumption, FS_Subset, FS_CardinalityType DEF Bearers

LEMMA BearersFinitePrimed == IsFiniteSet(Bearers') /\ Cardinality(Bearers') \in Nat
<1>1. Bearers' \in SUBSET Procs
  BY DEF Bearers
<1> QED BY <1>1, ProcsAssumption, FS_Subset, FS_CardinalityType

\* The claim is as it was, or can be granted no more.
Settles == refund' = refund \/ refund'.status \in {"COMPLETED", "NOT_APPLICABLE"}

\* A step of p outside a payment, that pays nothing and may lose something.
Calm(p) ==
    /\ Onward(p) /\ Settles
    /\ payments' = payments /\ losses' \in Nat /\ losses <= losses'

LEMMA CalmBudget ==
    ASSUME TypeOK, Budget, NEW p \in Procs, pc[p] \notin Giving, Calm(p)
    PROVE  Budget'
<1>1. \A q \in Procs : pc'[q] \in Giving <=> pc[q] \in Giving
  BY DEF Calm, Onward
<1>2. \A q \in Procs : pc'[q] \in {"pay", "fail"} <=> pc[q] \in {"pay", "fail"}
  BY DEF Calm, Onward, Giving
<1>3. Bearers' = Bearers
  BY <1>2 DEF Bearers
<1>4. (\E q \in Procs : Paying(q))' <=> \E q \in Procs : Paying(q)
  BY <1>1 DEF Paying, Giving
<1>5. Admits' => Admits
  BY <1>4 DEF Admits, Calm, Settles
<1> QED BY <1>3, <1>5, BearersFinite, BoundsAssumption DEF Budget, Calm, TypeOK

\* A step of the world.
LEMMA StillBudget ==
    ASSUME TypeOK, Budget, pc' = pc, Settles, payments' = payments,
           losses' \in Nat, losses <= losses'
    PROVE  Budget'
<1>1. Bearers' = Bearers
  BY DEF Bearers
<1>2. (\E q \in Procs : Paying(q))' <=> \E q \in Procs : Paying(q)
  BY DEF Paying
<1>3. Admits' => Admits
  BY <1>2 DEF Admits, Settles
<1> QED BY <1>1, <1>3, BearersFinite, BoundsAssumption DEF Budget, TypeOK

-----------------------------------------------------------------------------
(* RefundService.                                                          *)

LEMMA RefundTypes ==
    ASSUME TypeOK, Aimed, NEW p \in Procs, Refund(p)
    PROVE  TypeOK' /\ Aimed'
<1> DEFINE l == loc[p]
<1>1. /\ l \in Locals /\ Fit(l, pc[p])
      /\ l.amount \in 0..Price /\ l.kind \in Kinds \union {"none"}
      /\ Price \in Nat
  BY PriceAssumption DEF TypeOK, Aimed, Locals
<1>2. \A place \in Giving \union {"close"} : Fit(l, place)
  BY <1>1 DEF Fit, Giving, Places
<1>3. \A s \in {"COMPLETED", "FAILED"} : Ended(s) \in Refunds
  BY DEF Ended, TypeOK, Refunds
<1>4. CASE claim(p)
  <2>1. CASE Claimable
    <3>1. [status |-> "PROCESSING", kind |-> l.kind, amount |-> l.amount, stale |-> FALSE] \in Refunds
      BY <1>1 DEF Refunds
    <3>2. Go(p, l, "pay") /\ Fit(l, "pay")
      BY <1>2, <1>4, <2>1 DEF claim, Giving
    <3> QED BY <1>4, <2>1, <3>1, <3>2, GoFits DEF claim, TypeOK, Write, Elsewhere, money
  <2>2. CASE ~Claimable
    <3>1. Onward(p)
      BY <1>4, <2>2, EndRefundOn DEF claim
    <3> QED BY <1>4, <2>2, <3>1 DEF claim, Onward, TypeOK, document, Elsewhere, money
  <2> QED BY <2>1, <2>2
<1>5. CASE Pay(p) \/ PayFails(p) \/ PayUnheard(p)
  <2>1. PICK place \in {"record", "fail"} : Go(p, l, place)
    BY <1>5 DEF Pay, PayFails, PayUnheard
  <2>2. pc' \in [Procs -> Places] /\ loc' \in [Procs -> Locals] /\ Aimed'
    BY <1>2, <2>1, GoFits DEF Giving
  <2>3. returned' \in Nat /\ payments' \in Nat /\ losses' \in 0..MaxLosses
    BY <1>1, <1>5, BoundsAssumption
       DEF Pay, PayFails, PayUnheard, Paid, Lose, TypeOK, Elsewhere, money
  <2> QED BY <1>5, <2>2, <2>3
       DEF Pay, PayFails, PayUnheard, TypeOK, document, Elsewhere
<1>6. CASE record(p)
  <2>1. Go(p, l, "close") /\ Fit(l, "close")
    BY <1>2, <1>6 DEF record
  <2> QED BY <1>3, <1>6, <2>1, GoFits DEF record, Write, TypeOK, Elsewhere, money
<1>7. CASE fail(p)
  <2>1. Onward(p)
    BY <1>7, EndRefundOn DEF fail
  <2> QED BY <1>3, <1>7, <2>1 DEF fail, FailedWrite, Onward, Write, TypeOK, Elsewhere, money
<1>8. CASE close(p)
  <2>1. Onward(p)
    BY <1>8, EndRefundOn DEF close
  <2>2. FinalStatus(l.kind) \in Statuses
    BY DEF FinalStatus, Statuses
  <2> QED BY <1>8, <2>1, <2>2
       DEF close, Onward, transitionStatus, Write, document, TypeOK, Elsewhere, money
<1>9. CASE recordZeroRefund(p) \/ markNoInstrument(p)
  <2>1. Onward(p)
    BY <1>9, EndRefundOn DEF recordZeroRefund, markNoInstrument, Replace
  <2>2. /\ [status |-> "COMPLETED", kind |-> "CANCELLATION", amount |-> 0, stale |-> FALSE] \in Refunds
        /\ [status |-> "NOT_APPLICABLE", kind |-> l.kind, amount |-> l.amount, stale |-> FALSE] \in Refunds
        /\ {"CANCELLED", "MANUAL_REVIEW"} \subseteq Statuses
    BY <1>1 DEF Refunds, Kinds, Statuses
  <2> QED BY <1>9, <2>1, <2>2
       DEF recordZeroRefund, markNoInstrument, Replace, Write, document, Onward, TypeOK, Elsewhere, money
<1>10. CASE ParkUnclear(p)
  <2>1. Onward(p) /\ "MANUAL_REVIEW" \in Statuses
    BY <1>10, EndRefundOn DEF ParkUnclear, Statuses
  <2> QED BY <1>10, <2>1 DEF ParkUnclear, Write, Onward, TypeOK, Elsewhere, money
<1> QED BY <1>4, <1>5, <1>6, <1>7, <1>8, <1>9, <1>10 DEF Refund

\* A process that begins to owe a payment, or owes it no more.
LEMMA BearerMoves ==
    ASSUME NEW p \in Procs, \A q \in Procs : q # p => pc'[q] = pc[q]
    PROVE  Cardinality(Bearers') - Cardinality(Bearers) =
             (IF pc'[p] \in {"pay", "fail"} THEN 1 ELSE 0) - (IF pc[p] \in {"pay", "fail"} THEN 1 ELSE 0)
<1>1. CASE (pc'[p] \in {"pay", "fail"}) = (pc[p] \in {"pay", "fail"})
  <2>1. Bearers' = Bearers
    BY <1>1 DEF Bearers
  <2> QED BY <1>1, <2>1, BearersFinite
<1>2. CASE pc'[p] \in {"pay", "fail"} /\ pc[p] \notin {"pay", "fail"}
  <2>1. Bearers' = Bearers \union {p} /\ p \notin Bearers
    BY <1>2 DEF Bearers
  <2>2. Cardinality(Bearers') = Cardinality(Bearers) + 1
    BY <2>1, BearersFinite, FS_AddElement
  <2> QED BY <1>2, <2>2, BearersFinite
<1>3. CASE pc'[p] \notin {"pay", "fail"} /\ pc[p] \in {"pay", "fail"}
  <2>1. Bearers' = Bearers \ {p} /\ p \in Bearers
    BY <1>3 DEF Bearers
  <2>2. Cardinality(Bearers') = Cardinality(Bearers) - 1
    BY <2>1, BearersFinite, FS_RemoveElement
  <2> QED BY <1>3, <2>2, BearersFinite
<1> QED BY <1>1, <1>2, <1>3

LEMMA RefundBudget ==
    ASSUME TypeOK, Aimed, Budget, NEW p \in Procs, Refund(p)
    PROVE  Budget'
<1> DEFINE l == loc[p]
<1>1. Fit(l, pc[p])
  BY DEF Aimed
<1>2. \A place \in Giving \union {"close"} : Fit(l, place)
  BY <1>1 DEF Fit, Giving, Places
<1>3. /\ payments \in Nat /\ losses \in Nat
      /\ Cardinality(Bearers) \in Nat /\ Cardinality(Bearers') \in Nat
  BY BearersFinite, BearersFinitePrimed, BoundsAssumption DEF TypeOK
<1>4. CASE claim(p)
  <2>1. CASE Claimable
    <3>1. Admits
      BY <2>1 DEF Claimable, Admits
    <3>2. Go(p, l, "pay") /\ Fit(l, "pay")
      BY <1>2, <1>4, <2>1 DEF claim, Giving
    <3>3. pc'[p] = "pay" /\ \A q \in Procs : q # p => pc'[q] = pc[q]
      BY <3>2, GoFits
    <3>4. Cardinality(Bearers') = Cardinality(Bearers) + 1
      BY <1>3, <1>4, <3>3, BearerMoves DEF claim
    <3>5. refund'.status = "PROCESSING" /\ refund'.stale = FALSE
      BY <1>4, <2>1 DEF claim, Write
    <3>6. (\E q \in Procs : Paying(q))'
      BY <3>3 DEF Paying
    <3>7. ~Admits'
      BY <3>5, <3>6 DEF Admits
    <3>8. payments' = payments /\ losses' = losses
      BY <1>4 DEF claim, Elsewhere, money
    <3> QED BY <1>3, <3>1, <3>4, <3>7, <3>8 DEF Budget
  <2>2. CASE ~Claimable
    <3>1. Onward(p)
      BY <1>4, <2>2, EndRefundOn DEF claim
    <3>2. Calm(p) /\ pc[p] \notin Giving
      BY <1>3, <1>4, <2>2, <3>1 DEF claim, Calm, Settles, document, Elsewhere, money, Giving
    <3> QED BY <3>2, CalmBudget
  <2> QED BY <2>1, <2>2
<1>5. CASE Pay(p) \/ PayFails(p) \/ PayUnheard(p)
  <2>1. PICK place \in {"record", "fail"} :
          /\ Go(p, l, place)
          /\ Pay(p) => place = "record"
          /\ PayFails(p) \/ PayUnheard(p) => place = "fail"
    BY <1>5, <1>2, GoFits DEF Pay, PayFails, PayUnheard, Giving
  <2>2. pc'[p] = place /\ \A q \in Procs : q # p => pc'[q] = pc[q]
    BY <1>2, <2>1, GoFits DEF Giving
  <2>3. pc[p] = "pay" /\ refund' = refund
    BY <1>5 DEF Pay, PayFails, PayUnheard, document
  <2>4. (\E q \in Procs : Paying(q))' /\ \E q \in Procs : Paying(q)
    BY <2>2, <2>3 DEF Paying
  <2>5. Admits' = Admits
    BY <2>3, <2>4 DEF Admits
  <2>6. Cardinality(Bearers') = Cardinality(Bearers) - (IF place = "fail" THEN 0 ELSE 1)
    BY <1>3, <2>2, <2>3, BearerMoves
  <2>7. \/ place = "record" /\ payments' = payments + 1 /\ losses' = losses
        \/ place = "fail" /\ payments' = payments /\ losses' = losses
        \/ place = "fail" /\ payments' = payments + 1 /\ losses' = losses + 1
    BY <1>5, <2>1 DEF Pay, PayFails, PayUnheard, Paid, Lose, Elsewhere, money
  <2> QED BY <1>3, <2>5, <2>6, <2>7 DEF Budget
<1>6. CASE record(p)
  <2>1. Go(p, l, "close") /\ Fit(l, "close")
    BY <1>2, <1>6 DEF record
  <2>2. pc[p] = "record" /\ pc'[p] = "close" /\ \A q \in Procs : q # p => pc'[q] = pc[q]
    BY <1>6, <2>1, GoFits DEF record
  <2>3. Cardinality(Bearers') = Cardinality(Bearers)
    BY <1>3, <2>2, BearerMoves
  <2>4. refund'.status = "COMPLETED"
    BY <1>6 DEF record, Write, Ended, TypeOK, Refunds
  <2>5. ~Admits'
    BY <2>4 DEF Admits
  <2>6. payments' = payments /\ losses' = losses
    BY <1>6 DEF record, Elsewhere, money
  <2> QED BY <1>3, <2>3, <2>5, <2>6 DEF Budget
<1>7. CASE fail(p)
  <2>1. Onward(p)
    BY <1>7, EndRefundOn DEF fail
  <2>2. /\ pc[p] = "fail" /\ pc'[p] \notin {"pay", "fail"}
        /\ \A q \in Procs : q # p => pc'[q] = pc[q]
    BY <1>7, <2>1 DEF fail, FailedWrite, Onward, Giving
  <2>3. Cardinality(Bearers') = Cardinality(Bearers) - 1
    BY <1>3, <2>2, BearerMoves
  <2>4. payments' = payments /\ losses' = losses
    BY <1>7 DEF fail, Elsewhere, money
  <2> QED BY <1>3, <2>3, <2>4 DEF Budget
<1>8. CASE close(p)
  <2>1. Onward(p)
    BY <1>8, EndRefundOn DEF close
  <2>2. Calm(p) /\ pc[p] \notin Giving
    BY <1>3, <1>8, <2>1
       DEF close, Calm, Settles, transitionStatus, Write, document, Elsewhere, money, Giving
  <2> QED BY <2>2, CalmBudget
<1>9. CASE recordZeroRefund(p) \/ markNoInstrument(p) \/ ParkUnclear(p)
  <2>1. Onward(p)
    BY <1>9, EndRefundOn DEF recordZeroRefund, markNoInstrument, ParkUnclear, Replace
  <2>2. Settles
    BY <1>9 DEF recordZeroRefund, markNoInstrument, ParkUnclear, Replace, Settles, Write, document
  <2>3. Calm(p) /\ pc[p] \notin Giving
    BY <1>3, <1>9, <2>1, <2>2
       DEF recordZeroRefund, markNoInstrument, ParkUnclear, Replace, Calm, Elsewhere, money, Giving
  <2> QED BY <2>3, CalmBudget
<1> QED BY <1>4, <1>5, <1>6, <1>7, <1>8, <1>9 DEF Refund

-----------------------------------------------------------------------------
(* The other jobs, none of which pays.                                     *)

\* A job's step: well typed, calm, and not that of a process that pays.
Harmless(p) == TypeOK' /\ Calm(p) /\ pc[p] \notin Giving

\* The document may have been written, its refund not.
Rewrites ==
    status' \in Statuses /\ refund' = refund /\ charges' \in Breakdowns /\ quiet' \in BOOLEAN

LEMMA OnlyWrites ==
    ASSUME TypeOK, NEW p \in Procs, Onward(p), Rewrites, UNCHANGED Elsewhere, pc[p] \notin Giving
    PROVE  Harmless(p)
<1>1. TypeOK'
  BY DEF TypeOK, Onward, Rewrites, Elsewhere, money
<1>2. Calm(p)
  BY BoundsAssumption DEF TypeOK, Calm, Settles, Rewrites, Elsewhere, money
<1> QED BY <1>1, <1>2 DEF Harmless

LEMMA Unwritten ==
    ASSUME TypeOK, UNCHANGED document PROVE Rewrites
BY DEF TypeOK, Rewrites, document

LEMMA Written ==
    ASSUME TypeOK, NEW s \in Statuses, NEW c \in Breakdowns, Write(s, refund, c)
    PROVE  Rewrites
BY DEF Rewrites, Write

LEMMA Transitioned ==
    ASSUME TypeOK, NEW s \in Statuses, transitionStatus(s) PROVE Rewrites
BY Unwritten, Written DEF transitionStatus, TypeOK

LEMMA Ordinary ==
    ASSUME TypeOK, Aimed, NEW p \in Procs
    PROVE  /\ loc[p] \in Locals /\ Fit(loc[p], pc[p])
           /\ loc[p].seen \in Statuses \union {"none"} /\ loc[p].target \in Statuses \union {"none"}
           /\ loc[p].charges \in Breakdowns /\ Breakdowns \subseteq Int
           /\ refund.amount \in 0..Price
           /\ status \in Statuses /\ charges \in Breakdowns
           /\ losses \in Nat /\ Price \in Nat
BY PriceAssumption, BoundsAssumption DEF TypeOK, Aimed, Locals, Refunds, Breakdowns, Unclear, None

LEMMA SyncSteps ==
    ASSUME TypeOK, Aimed, NEW p \in Procs, Sync(p)
    PROVE  Harmless(p)
<1> DEFINE l == loc[p]
<1> USE Ordinary
<1>1. CASE StartSync(p)
  <2>1. [Idle EXCEPT !.job = "sync", !.seen = status] \in Locals
    BY IdleIsLocal DEF Locals
  <2>2. Fit([Idle EXCEPT !.job = "sync", !.seen = status], "ask")
    BY <2>1 DEF Fit, Idle, Places
  <2>3. Onward(p)
    BY <1>1, <2>2, GoOn DEF StartSync, Giving
  <2> QED BY <1>1, <2>3, OnlyWrites, Unwritten DEF StartSync, Giving
<1>2. CASE Ask(p)
  <2> DEFINE answer == IF Report = "none" THEN l.seen ELSE Report
  <2>1. l.seen \in Statuses
    BY <1>2 DEF Ask, Fit
  <2>2. answer \in Statuses
    BY <2>1 DEF Report, Statuses
  <2>3. [l EXCEPT !.target = answer] \in Locals
    BY <2>2 DEF Locals
  <2>4. Fit([l EXCEPT !.target = answer], "set")
    BY <2>1, <2>2, <2>3 DEF Fit, Places, Locals
  <2>5. Onward(p)
    BY <1>2, <2>4, GoOn DEF Ask, Giving
  <2> QED BY <1>2, <2>5, OnlyWrites, Unwritten DEF Ask, Giving
<1>3. CASE AskFails(p)
  <2>1. Onward(p)
    BY <1>3, ReturnOn DEF AskFails
  <2> QED BY <1>3, <2>1, OnlyWrites, Unwritten DEF AskFails, Giving
<1>4. CASE Set(p)
  <2>1. l.seen \in Statuses /\ l.target \in Statuses
    BY <1>4 DEF Set, Fit
  <2>2. Onward(p)
    BY <1>4, <2>1, ReturnOn, ResolveOn DEF Set
  <2> QED BY <1>4, <2>1, <2>2, OnlyWrites, Unwritten, Written DEF Set, Giving
<1> QED BY <1>1, <1>2, <1>3, <1>4 DEF Sync

LEMMA SweepSteps ==
    ASSUME TypeOK, Aimed, NEW p \in Procs, Sweep(p)
    PROVE  Harmless(p)
<1> DEFINE l == loc[p]
<1> USE Ordinary
<1>1. CASE StartSweep(p)
  <2>1. /\ [Idle EXCEPT !.job = "stuck", !.seen = status] \in Locals
        /\ [Idle EXCEPT !.job = "escalate"] \in Locals
    BY IdleIsLocal DEF Locals
  <2>2. /\ Fit([Idle EXCEPT !.job = "stuck", !.seen = status], "ask")
        /\ Fit([Idle EXCEPT !.job = "escalate"], "escalate")
    BY <2>1 DEF Fit, Idle, Places
  <2>3. Onward(p)
    BY <1>1, <2>2, GoOn DEF StartSweep, Giving
  <2> QED BY <1>1, <2>3, OnlyWrites, Unwritten DEF StartSweep, Giving
<1>2. CASE resolveStuckBooking(p)
  <2>0. [Idle EXCEPT !.job = "stuck"] \in Locals
    BY IdleIsLocal DEF Locals
  <2>1. Onward(p)
    BY <1>2, <2>0, RefundFailedOn, LeaveOn DEF resolveStuckBooking
  <2>2. waived' \in BOOLEAN
    BY <1>2 DEF resolveStuckBooking, GivesUp, TypeOK
  <2> QED BY <1>2, <2>1, <2>2
       DEF resolveStuckBooking, Harmless, Calm, Settles, Onward, TypeOK, document, money, Giving
<1>3. CASE SweepEscalate(p)
  <2>1. /\ [l EXCEPT !.seen = status] \in Locals
        /\ [Idle EXCEPT !.job = "retry"] \in Locals
    BY IdleIsLocal DEF Locals
  <2>2. /\ Fit([l EXCEPT !.seen = status], "ask")
        /\ Fit([Idle EXCEPT !.job = "retry"], "retry")
    BY <2>1 DEF Fit, Locals, Places
  <2>3. Onward(p)
    BY <1>3, <2>2, GoOn DEF SweepEscalate, Giving
  <2> QED BY <1>3, <2>3, OnlyWrites, Unwritten DEF SweepEscalate, Giving
<1>4. CASE Escalate(p)
  <2>1. "park" \in Places \ (Giving \union {"ask", "set", "pollSet"})
    BY DEF Places, Giving
  <2>2. Onward(p)
    BY <1>4, <2>1, GoAnywhere, LeaveOn DEF Escalate
  <2> QED BY <1>4, <2>2, OnlyWrites, Unwritten DEF Escalate, Giving
<1>5. CASE Park(p)
  <2>1. Onward(p) /\ "MANUAL_REVIEW" \in Statuses
    BY <1>5, LeaveOn DEF Park, Statuses
  <2> QED BY <1>5, <2>1, OnlyWrites, Transitioned DEF Park, Giving
<1>6. CASE SweepRetry(p)
  <2>1. [l EXCEPT !.kind = "CANCELLATION", !.amount = refund.amount] \in Locals
    BY DEF Locals, Kinds
  <2>2. Onward(p)
    BY <1>6, <2>1, LeaveOn, ExecuteOn, RefundFailedOn DEF SweepRetry
  <2> QED BY <1>6, <2>2, OnlyWrites, Unwritten DEF SweepRetry, Giving
<1> QED BY <1>1, <1>2, <1>3, <1>4, <1>5, <1>6 DEF Sweep

LEMMA PollSteps ==
    ASSUME TypeOK, Aimed, NEW p \in Procs, Poll(p)
    PROVE  Harmless(p)
<1> DEFINE l == loc[p]
<1> USE Ordinary
<1>1. CASE pollAsk(p)
  <2>1. stay \in {"held", "confirmed"} =>
          Fit([l EXCEPT !.target = Report], "pollSet")
    <3>1. stay \in {"held", "confirmed"} => Report \in Statuses
      BY DEF Report, Statuses
    <3>2. stay \in {"held", "confirmed"} => [l EXCEPT !.target = Report] \in Locals
      BY <3>1 DEF Locals
    <3> QED BY <3>1, <3>2 DEF Fit, Places, Locals
  <2>2. {"pollNote", "pollPark"} \subseteq Places \ (Giving \union {"ask", "set", "pollSet"})
    BY DEF Places, Giving
  <2>3. Onward(p)
    BY <1>1, <2>1, <2>2, GoOn, GoAnywhere, LeaveOn DEF pollAsk, Giving
  <2> QED BY <1>1, <2>3, OnlyWrites, Unwritten DEF pollAsk, Giving
<1>2. CASE pollSet(p)
  <2>1. Onward(p) /\ l.target \in Statuses
    BY <1>2, LeaveOn DEF pollSet, Fit
  <2> QED BY <1>2, <2>1, OnlyWrites, Transitioned DEF pollSet, Giving
<1>3. CASE pollNote(p)
  <2>1. Onward(p)
    BY <1>3, RefundFailedOn DEF pollNote
  <2> QED BY <1>3, <2>1, OnlyWrites, Written DEF pollNote, Giving
<1>4. CASE pollPark(p)
  <2>1. Onward(p) /\ "MANUAL_REVIEW" \in Statuses
    BY <1>4, LeaveOn DEF pollPark, Statuses
  <2> QED BY <1>4, <2>1, OnlyWrites, Unwritten, Written DEF pollPark, Giving
<1> QED BY <1>1, <1>2, <1>3, <1>4 DEF Poll

\* A step that spends a request, or moves what the supplier holds.
LEMMA Asked ==
    ASSUME TypeOK, NEW p \in Procs, Onward(p), UNCHANGED <<document, order, money, age, losses>>,
           stay' \in {"pending", "held", "confirmed", "failed", "cancelling", "cancelled"},
           requests' \in 0..MaxRequests, waived' \in BOOLEAN, pc[p] \notin Giving
    PROVE  Harmless(p)
<1>1. TypeOK'
  BY DEF TypeOK, Onward, document, money
<1>2. Calm(p)
  BY BoundsAssumption DEF TypeOK, Calm, Settles, document, money
<1> QED BY <1>1, <1>2 DEF Harmless

LEMMA CancelSteps ==
    ASSUME TypeOK, Aimed, NEW p \in Procs, Cancel(p)
    PROVE  Harmless(p)
<1> DEFINE l == loc[p]
           Easy == Places \ (Giving \union {"ask", "set", "pollSet"})
<1> USE Ordinary
<1>1. {"cancelNote", "cancelPoll", "cancelRead", "cancelAgain"} \subseteq Easy
  BY DEF Places, Giving
<1>2. CASE StartCancel(p)
  <2>1. PICK c \in Breakdowns : Go(p, [Idle EXCEPT !.job = "cancel", !.charges = c], "cancelNote")
    BY <1>2 DEF StartCancel
  <2>2. [Idle EXCEPT !.job = "cancel", !.charges = c] \in Locals
    BY IdleIsLocal DEF Locals
  <2>3. Onward(p)
    BY <1>1, <2>1, <2>2, GoAnywhere
  <2>4. stay' \in {"pending", "held", "confirmed", "failed", "cancelling", "cancelled"}
    BY <1>2 DEF StartCancel, Accepts, TypeOK
  <2>5. requests' \in 0..MaxRequests
    BY <1>2, BoundsAssumption DEF StartCancel, Request, TypeOK
  <2> QED BY <1>2, <2>3, <2>4, <2>5, Asked DEF StartCancel, TypeOK, Giving
<1>3. CASE cancelNote(p)
  <2>1. [l EXCEPT !.job = "cancelPoll"] \in Locals
    BY DEF Locals
  <2>2. Onward(p)
    BY <1>1, <1>3, <2>1, GoAnywhere, SettleOn DEF cancelNote
  <2>3. "CANCELLATION_PENDING" \in Statuses
    BY DEF Statuses
  <2> QED BY <1>3, <2>2, <2>3, OnlyWrites, Written DEF cancelNote, Giving
<1>4. CASE cancelPoll(p)
  <2>1. Onward(p)
    BY <1>1, <1>4, GoAnywhere, LeaveOn DEF cancelPoll
  <2> QED BY <1>4, <2>1, OnlyWrites, Unwritten DEF cancelPoll, Giving
<1>5. CASE cancelAgain(p)
  <2>1. Onward(p)
    BY <1>1, <1>5, GoAnywhere DEF cancelAgain
  <2>2. "CANCELLATION_PENDING" \in Statuses
    BY DEF Statuses
  <2> QED BY <1>5, <2>1, <2>2, OnlyWrites, Written DEF cancelAgain, Giving
<1>6. CASE cancelRead(p)
  <2>1. Onward(p)
    BY <1>6, SettleOn DEF cancelRead
  <2> QED BY <1>6, <2>1, OnlyWrites, Written DEF cancelRead, Giving
<1> QED BY <1>2, <1>3, <1>4, <1>5, <1>6 DEF Cancel

LEMMA DeskSteps ==
    ASSUME TypeOK, Aimed, NEW p \in Procs, Desk(p)
    PROVE  Harmless(p)
<1> DEFINE l == loc[p]
           Easy == Places \ (Giving \union {"ask", "set", "pollSet"})
<1> USE Ordinary
<1>1. {"confirmCall", "confirmSave"} \subseteq Easy
  BY DEF Places, Giving
<1>2. CASE StartConfirm(p)
  <2>1. [Idle EXCEPT !.job = "confirm", !.seen = status] \in Locals
    BY IdleIsLocal DEF Locals
  <2>2. Onward(p)
    BY <1>1, <1>2, <2>1, GoAnywhere DEF StartConfirm
  <2>3. requests' \in 0..MaxRequests
    BY <1>2, BoundsAssumption DEF StartConfirm, Request, TypeOK
  <2> QED BY <1>2, <2>2, <2>3, Asked DEF StartConfirm, TypeOK, Giving
<1>3. CASE ConfirmHold(p)
  <2>1. Onward(p)
    BY <1>1, <1>3, GoAnywhere, LeaveOn DEF ConfirmHold
  <2> QED BY <1>3, <2>1, Asked DEF ConfirmHold, TypeOK, Giving
<1>4. CASE ConfirmSave(p)
  <2>1. Onward(p)
    BY <1>4, LeaveOn DEF ConfirmSave
  <2>2. "CONFIRMED" \in Statuses
    BY DEF Statuses
  <2> QED BY <1>4, <2>1, <2>2, OnlyWrites, Written DEF ConfirmSave, Giving
<1>5. CASE ManualRefund(p)
  <2>1. [Idle EXCEPT !.job = "manual"] \in Locals
    BY IdleIsLocal DEF Locals
  <2>2. (IF charges = None THEN 0 ELSE charges) \in Int
    OBVIOUS
  <2>3. Onward(p)
    BY <1>5, <2>1, <2>2, SettleOn DEF ManualRefund
  <2>4. requests' \in 0..MaxRequests
    BY <1>5, BoundsAssumption DEF ManualRefund, Request, TypeOK
  <2> QED BY <1>5, <2>3, <2>4, Asked DEF ManualRefund, TypeOK, Giving
<1> QED BY <1>2, <1>3, <1>4, <1>5 DEF Desk

-----------------------------------------------------------------------------
(* What is lost, and the world.                                            *)

LEMMA RejectedKeeps ==
    ASSUME TypeOK, Aimed, Budget, NEW p \in Procs, Rejected(p)
    PROVE  TypeOK' /\ Aimed' /\ Budget'
<1> DEFINE l == loc[p]
<1> USE Ordinary
<1>1. /\ UNCHANGED <<document, order, stay, money, age, requests, waived>>
      /\ losses' = losses + 1 /\ losses' \in 0..MaxLosses
  BY BoundsAssumption DEF Rejected, Lose, TypeOK
<1>2. ASSUME pc' \in [Procs -> Places], loc' \in [Procs -> Locals] PROVE TypeOK'
  BY <1>1, <1>2 DEF TypeOK, document, money
<1>3. Cardinality(Bearers) \in Nat /\ Cardinality(Bearers') \in Nat /\ payments \in Nat
  BY BearersFinite, BearersFinitePrimed DEF TypeOK
<1>4. payments' = payments /\ refund' = refund
  BY <1>1 DEF document, money
<1>5. CASE pc[p] \in {"record", "close"}
  <2>1. Go(p, l, "fail") /\ Fit(l, "fail")
    BY <1>5 DEF Rejected, Fit, Places
  <2>2. /\ pc' \in [Procs -> Places] /\ loc' \in [Procs -> Locals] /\ Aimed'
        /\ pc'[p] = "fail" /\ \A q \in Procs : q # p => pc'[q] = pc[q]
    BY <2>1, GoFits
  <2>3. Cardinality(Bearers') = Cardinality(Bearers) + 1
    BY <1>3, <1>5, <2>2, BearerMoves
  <2>4. (\E q \in Procs : Paying(q)) => (\E q \in Procs : Paying(q))'
    BY <2>2 DEF Paying
  <2>5. Admits' => Admits
    BY <1>4, <2>4 DEF Admits
  <2>6. Budget'
    BY <1>1, <1>3, <1>4, <2>3, <2>5 DEF Budget
  <2> QED BY <1>2, <2>2, <2>6
<1>6. CASE pc[p] \notin {"record", "close"}
  <2>1. Onward(p)
    BY <1>6, ReturnOn, ThrownOn DEF Rejected
  <2>2. CASE pc[p] = "fail"
    <3>1. Cardinality(Bearers') = Cardinality(Bearers) - 1
      BY <1>3, <2>1, <2>2, BearerMoves DEF Onward, Giving
    <3>2. Budget'
      BY <1>1, <1>3, <1>4, <3>1 DEF Budget
    <3> QED BY <1>2, <2>1, <3>2 DEF Onward
  <2>3. CASE pc[p] # "fail"
    <3>1. pc[p] \notin Giving
      BY <1>6, <2>3 DEF Rejected, Giving
    <3>2. Calm(p)
      BY <1>1, <1>4, <2>1 DEF Calm, Settles
    <3> QED BY <1>2, <2>1, <3>1, <3>2, CalmBudget DEF Onward
  <2> QED BY <2>2, <2>3
<1> QED BY <1>5, <1>6

LEMMA CrashKeeps ==
    ASSUME TypeOK, Aimed, Budget, Crash
    PROVE  TypeOK' /\ Aimed' /\ Budget'
<1>1. \A p \in Procs : pc'[p] = "idle" /\ loc'[p] = Idle
  BY DEF Crash
<1>2. Fit(Idle, "idle")
  BY IdleIsLocal DEF Fit, Places
<1>3. Aimed'
  BY <1>1, <1>2 DEF Aimed
<1>4. pc' \in [Procs -> Places] /\ loc' \in [Procs -> Locals]
  BY IdleIsLocal DEF Crash, Places
<1>5. losses' = losses + 1 /\ losses \in Nat /\ losses' \in 0..MaxLosses
  BY BoundsAssumption DEF Crash, Lose, TypeOK
<1>6. TypeOK'
  BY <1>4, <1>5 DEF Crash, TypeOK, document, money
<1>7. Bearers' = {}
  BY <1>1 DEF Bearers
<1>8. Cardinality(Bearers') = 0
  BY <1>7, FS_EmptySet
<1>9. payments' = payments /\ payments \in Nat
  BY DEF Crash, money, TypeOK
<1>10. Budget'
  BY <1>5, <1>8, <1>9, BearersFinite DEF Budget
<1> QED BY <1>3, <1>6, <1>10

LEMMA OverrunKeeps ==
    ASSUME TypeOK, Aimed, Budget, Overrun
    PROVE  TypeOK' /\ Aimed' /\ Budget'
<1>1. refund' \in Refunds /\ refund'.status = "PROCESSING" /\ refund.status = "PROCESSING"
  BY DEF Overrun, TypeOK, Refunds
<1>2. losses' \in 0..MaxLosses /\ losses \in Nat /\ payments \in Nat
  BY BoundsAssumption DEF Overrun, Lose, TypeOK
<1>3. pc' = pc /\ loc' = loc /\ payments' = payments
  BY DEF Overrun, proc, money
<1>4. TypeOK'
  BY <1>1, <1>2 DEF Overrun, TypeOK, proc, money
<1>5. Aimed'
  BY <1>3 DEF Aimed
<1>6. Bearers' = Bearers
  BY <1>3 DEF Bearers
<1>7. CASE \E p \in Procs : Paying(p)
  <2>1. losses' = losses + 1
    BY <1>7 DEF Overrun, Lose
  <2>2. Budget'
    BY <1>2, <1>3, <1>6, <2>1, BearersFinite DEF Budget
  <2> QED BY <1>4, <1>5, <2>2
<1>8. CASE ~\E p \in Procs : Paying(p)
  <2>1. Admits /\ losses' = losses
    BY <1>1, <1>8 DEF Admits, Overrun
  <2>2. Budget'
    BY <1>2, <1>3, <1>6, <2>1, BearersFinite DEF Budget
  <2> QED BY <1>4, <1>5, <2>2
<1> QED BY <1>7, <1>8

World == EscalateStale \/ SupplierDecides \/ Grow \/ Quieten \/ CancelUnheard

LEMMA WorldKeeps ==
    ASSUME TypeOK, Aimed, Budget, World \/ UNCHANGED vars
    PROVE  TypeOK' /\ Aimed' /\ Budget'
<1>1. pc' = pc /\ loc' = loc /\ refund' = refund /\ payments' = payments
  BY DEF World, EscalateStale, SupplierDecides, Grow, Quieten, CancelUnheard, Write,
         vars, document, proc, money, Elsewhere
<1>2. losses' \in 0..MaxLosses /\ losses <= losses' /\ losses' \in Nat
  BY BoundsAssumption
  DEF World, EscalateStale, SupplierDecides, Grow, Quieten, CancelUnheard, Lose, TypeOK,
      vars, Elsewhere
<1>3. TypeOK'
  <2>1. CASE EscalateStale
    BY <2>1 DEF EscalateStale, Write, Statuses, TypeOK, proc, money, Elsewhere
  <2>2. CASE SupplierDecides
    <3>1. stay' \in {"pending", "held", "confirmed", "failed", "cancelling", "cancelled"}
      BY <2>2 DEF SupplierDecides, Decisions
    <3> QED BY <2>2, <3>1 DEF SupplierDecides, TypeOK, document, proc, money
  <2>3. CASE Grow
    BY <2>3 DEF Grow, TypeOK, document, proc, money
  <2>4. CASE Quieten
    BY <2>4 DEF Quieten, TypeOK, proc, money
  <2>5. CASE CancelUnheard
    <3>1. stay' \in {"pending", "held", "confirmed", "failed", "cancelling", "cancelled"}
      BY <2>5 DEF CancelUnheard, Accepts, TypeOK
    <3>2. requests' \in 0..MaxRequests
      BY <2>5, BoundsAssumption DEF CancelUnheard, Request, TypeOK
    <3> QED BY <1>2, <2>5, <3>1, <3>2 DEF CancelUnheard, TypeOK, document, proc, money
  <2>6. CASE UNCHANGED vars
    BY <2>6 DEF vars, TypeOK, document, proc, money
  <2> QED BY <2>1, <2>2, <2>3, <2>4, <2>5, <2>6 DEF World
<1>4. Aimed'
  BY <1>1 DEF Aimed
<1>5. Budget'
  BY <1>1, <1>2, StillBudget DEF Settles
<1> QED BY <1>3, <1>4, <1>5

-----------------------------------------------------------------------------
(* The theorems.                                                           *)

LEMMA LiveInit == Init => LiveInv
<1> SUFFICES ASSUME Init PROVE LiveInv
  OBVIOUS
<1>1. PICK p \in Procs : pc = [q \in Procs |-> IF q = p /\ order.provider = "tripjack"
                                              THEN "pollAsk" ELSE "idle"]
  BY DEF Init
<1>2. pc \in [Procs -> Places] /\ \A q \in Procs : pc[q] \in {"pollAsk", "idle"}
  BY <1>1 DEF Places
<1>3. [Idle EXCEPT !.job = "poll"] \in Locals /\ Idle \in Locals
  BY IdleIsLocal DEF Locals
<1>4. loc \in [Procs -> Locals]
  BY <1>3 DEF Init
<1>5. refund \in Refunds
  BY PriceAssumption DEF Init, NoRefund, Refunds
<1>6. TypeOK
  <2>1. status \in Statuses /\ order \in Orders /\ stay \in {"pending", "confirmed"}
    BY DEF Init
  <2>2. charges \in Breakdowns /\ quiet \in BOOLEAN /\ waived \in BOOLEAN
    BY DEF Init, Breakdowns
  <2>3. /\ returned \in Nat /\ payments \in Nat /\ age \in 0..3
        /\ requests \in 0..MaxRequests /\ losses \in 0..MaxLosses
    BY BoundsAssumption DEF Init
  <2> QED BY <1>2, <1>4, <1>5, <2>1, <2>2, <2>3 DEF TypeOK
<1>7. Aimed
  BY <1>2, <1>4 DEF Aimed, Fit
<1>8. Bearers = {}
  BY <1>2 DEF Bearers
<1>9. Cardinality(Bearers) = 0
  BY <1>8, FS_EmptySet
<1>10. Budget
  BY <1>9 DEF Budget, Init
<1> QED BY <1>6, <1>7, <1>10 DEF LiveInv

LEMMA LiveNext == LiveInv /\ [Next]_vars => LiveInv'
<1> SUFFICES ASSUME TypeOK, Aimed, Budget, [Next]_vars PROVE TypeOK' /\ Aimed' /\ Budget'
  BY DEF LiveInv
<1>1. ASSUME NEW p \in Procs, Refund(p) PROVE TypeOK' /\ Aimed' /\ Budget'
  BY <1>1, RefundTypes, RefundBudget
<1>2. ASSUME NEW p \in Procs, Sync(p) \/ Sweep(p) \/ Poll(p) \/ Cancel(p) \/ Desk(p)
      PROVE  TypeOK' /\ Aimed' /\ Budget'
  <2>1. Harmless(p)
    BY <1>2, SyncSteps, SweepSteps, PollSteps, CancelSteps, DeskSteps
  <2> QED BY <2>1, CalmBudget DEF Harmless, Calm, Onward
<1>3. ASSUME NEW p \in Procs, Rejected(p) PROVE TypeOK' /\ Aimed' /\ Budget'
  BY <1>3, RejectedKeeps
<1>4. CASE Overrun \/ Crash
  BY <1>4, OverrunKeeps, CrashKeeps
<1>5. CASE World \/ UNCHANGED vars
  BY <1>5, WorldKeeps
<1> QED BY <1>1, <1>2, <1>3, <1>4, <1>5 DEF Next, World

\* Every variable of the live document and of the jobs that work on it keeps its
\* type: no job writes a status it was never told, or an amount out of bounds.
THEOREM LiveTypeCorrect == Spec => []TypeOK
<1>1. LiveInv => TypeOK
  BY DEF LiveInv
<1> QED BY <1>1, LiveInit, LiveNext, PTL DEF Spec

\* However many polls, syncs, sweeps, cancellations and hands work on a booking,
\* claim() lets its payer be paid a second time only after something was lost.
THEOREM PaidOnce == Spec => []PaidOncePerLoss
<1>1. LiveInv => PaidOncePerLoss
  <2> SUFFICES ASSUME LiveInv PROVE PaidOncePerLoss
    OBVIOUS
  <2>1. payments \in Nat /\ losses \in Nat
    BY BoundsAssumption DEF LiveInv, TypeOK
  <2>2. payments + Cardinality(Bearers) + (IF Admits THEN 1 ELSE 0) <= 1 + losses
    BY DEF LiveInv, Budget
  <2>3. Cardinality(Bearers) \in Nat /\ (IF Admits THEN 1 ELSE 0) \in Nat
    BY BearersFinite
  <2> QED BY <2>1, <2>2, <2>3 DEF PaidOncePerLoss
<1> QED BY <1>1, LiveInit, LiveNext, PTL DEF Spec

-----------------------------------------------------------------------------
(* Money goes back for cause.                                              *)

Gone == stay \in {"failed", "cancelled"} \/ waived

\* A process that refunds, or that is about to.
Refunding == {"zero", "noInstrument", "unclear", "claim", "pay", "record", "close", "fail",
              "pollNote", "cancelRead"}

\* Nothing that a process carries leads it to a refund.
Clear(l, place) ==
    /\ place \notin Refunding
    /\ place = "cancelNote" => order.provider # "rategain"
    /\ l.seen \notin TERMINAL_STATUSES /\ l.target \notin TERMINAL_STATUSES

AllClear == \A p \in Procs : Clear(loc[p], pc[p])

Innocent == payments = 0 /\ refund.status = "NONE" /\ status \notin TERMINAL_STATUSES

\* As long as the stay may be had, nothing points to a refund.
Causes == Gone \/ (AllClear /\ Innocent)

LEMMA GoClear ==
    ASSUME TypeOK, AllClear, order' = order, NEW p \in Procs, NEW l, NEW place,
           Clear(l, place), Go(p, l, place)
    PROVE  AllClear'
<1>1. pc \in [Procs -> Places] /\ loc \in [Procs -> Locals]
  BY DEF TypeOK
<1>2. pc'[p] = place /\ loc'[p] = l
  BY <1>1 DEF Go
<1>3. \A q \in Procs : q # p => pc'[q] = pc[q] /\ loc'[q] = loc[q]
  BY <1>1 DEF Go
<1> QED BY <1>2, <1>3 DEF AllClear, Clear

LEMMA LeaveClear ==
    ASSUME TypeOK, AllClear, order' = order, NEW p \in Procs, Leave(p) PROVE AllClear'
<1>1. /\ Clear([Idle EXCEPT !.job = "escalate"], "escalate")
      /\ Clear([Idle EXCEPT !.job = "retry"], "retry") /\ Clear(Idle, "idle")
  BY DEF Clear, Refunding, Idle, TERMINAL_STATUSES
<1>2. \/ Go(p, [Idle EXCEPT !.job = "escalate"], "escalate")
      \/ Go(p, [Idle EXCEPT !.job = "retry"], "retry")
      \/ Go(p, Idle, "idle")
  BY DEF Leave
<1> QED BY <1>1, <1>2, GoClear

LEMMA ReturnClear ==
    ASSUME TypeOK, AllClear, order' = order, NEW p \in Procs,
           NEW seen, seen \notin TERMINAL_STATUSES, Return(p, seen)
    PROVE  AllClear'
<1>1. Clear([Idle EXCEPT !.job = loc[p].job, !.seen = seen], "synced") /\ Clear(Idle, "idle")
  BY DEF Clear, Refunding, Idle, TERMINAL_STATUSES
<1>2. \/ Go(p, Idle, "idle")
      \/ Go(p, [Idle EXCEPT !.job = loc[p].job, !.seen = seen], "synced")
  BY DEF Return
<1> QED BY <1>1, <1>2, GoClear

LEMMA ThrownClear ==
    ASSUME TypeOK, AllClear, order' = order, NEW p \in Procs, Thrown(p) PROVE AllClear'
<1>1. loc[p].seen \notin TERMINAL_STATUSES
  BY DEF AllClear, Clear
<1>2. /\ Clear([Idle EXCEPT !.job = "poll"], "pollAsk") /\ Clear(Idle, "idle")
      /\ Clear([Idle EXCEPT !.job = "cancelPoll", !.charges = loc[p].charges], "cancelPoll")
  BY DEF Clear, Refunding, Idle, TERMINAL_STATUSES
<1>3. \/ Return(p, loc[p].seen) \/ Leave(p)
      \/ Go(p, [Idle EXCEPT !.job = "poll"], "pollAsk")
      \/ Go(p, [Idle EXCEPT !.job = "cancelPoll", !.charges = loc[p].charges], "cancelPoll")
      \/ Go(p, Idle, "idle")
  BY DEF Thrown
<1> QED BY <1>1, <1>2, <1>3, ReturnClear, LeaveClear, GoClear

-----------------------------------------------------------------------------
(* A stay that is gone stays gone.                                         *)

LEMMA AcceptsKeepsGone ==
    ASSUME Accepts PROVE stay \in {"failed", "cancelled"} => stay' \in {"failed", "cancelled"}
BY DEF Accepts

LEMMA GoneStays ==
    ASSUME TypeOK, [Next]_vars PROVE Gone => Gone'
<1>1. ASSUME NEW p \in Procs, Refund(p) PROVE stay' = stay /\ waived' = waived
  BY <1>1 DEF Refund, claim, Pay, PayFails, PayUnheard, record, fail, close, recordZeroRefund,
              markNoInstrument, ParkUnclear, Replace, Elsewhere
<1>2. ASSUME NEW p \in Procs, Sync(p) \/ Poll(p) PROVE stay' = stay /\ waived' = waived
  BY <1>2 DEF Sync, StartSync, Ask, AskFails, Set, Poll, pollAsk, pollSet, pollNote, pollPark,
              Elsewhere
<1>3. ASSUME NEW p \in Procs, Sweep(p) PROVE stay' = stay /\ (waived => waived')
  <2>1. CASE resolveStuckBooking(p)
    <3>1. stay' = stay /\ waived' = (waived \/ GivesUp(p))
      BY <2>1 DEF resolveStuckBooking
    <3> QED BY <3>1
  <2>2. CASE StartSweep(p) \/ SweepEscalate(p) \/ Escalate(p) \/ Park(p) \/ SweepRetry(p)
    BY <2>2 DEF StartSweep, SweepEscalate, Escalate, Park, SweepRetry, Elsewhere
  <2> QED BY <1>3, <2>1, <2>2 DEF Sweep
<1>4. ASSUME NEW p \in Procs, Cancel(p) PROVE Gone => Gone'
  BY <1>4, AcceptsKeepsGone
     DEF Cancel, StartCancel, cancelNote, cancelPoll, cancelAgain, cancelRead, Elsewhere, Gone
<1>5. ASSUME NEW p \in Procs, Desk(p) PROVE Gone => Gone'
  BY <1>5 DEF Desk, StartConfirm, ConfirmHold, ConfirmSave, ManualRefund, Elsewhere, Gone
<1>6. ASSUME NEW p \in Procs, Rejected(p) PROVE stay' = stay /\ waived' = waived
  BY <1>6 DEF Rejected
<1>7. CASE SupplierDecides
  BY <1>7 DEF SupplierDecides, Decisions, Gone
<1>8. CASE CancelUnheard
  BY <1>8, AcceptsKeepsGone DEF CancelUnheard, Gone
<1>9. CASE EscalateStale \/ Grow \/ Quieten \/ Overrun \/ Crash \/ UNCHANGED vars
  BY <1>9 DEF EscalateStale, Grow, Quieten, Overrun, Crash, vars, Elsewhere, Gone
<1> QED BY <1>1, <1>2, <1>3, <1>4, <1>5, <1>6, <1>7, <1>8, <1>9 DEF Next, Gone

-----------------------------------------------------------------------------
(* Each step, while the stay may be had.                                   *)

\* What a step leads to.
Caused == Gone' \/ (AllClear' /\ Innocent')

\* The document is not written, or with a status that closes nothing.
Mild == UNCHANGED document \/ (refund' = refund /\ status' \notin TERMINAL_STATUSES)

LEMMA StaysInnocent ==
    ASSUME Innocent, payments' = payments, Mild PROVE Innocent'
BY DEF Innocent, Mild, document

LEMMA WritesMildly ==
    ASSUME NEW s, NEW c, s \notin TERMINAL_STATUSES, Write(s, refund, c) PROVE Mild
BY DEF Write, Mild

LEMMA TransitionsMildly ==
    ASSUME NEW s, s \notin TERMINAL_STATUSES, transitionStatus(s) PROVE Mild
BY WritesMildly DEF transitionStatus, Mild

LEMMA RefundNeedsCause ==
    ASSUME AllClear, NEW p \in Procs PROVE ~Refund(p)
<1>1. pc[p] \notin Refunding
  BY DEF AllClear, Clear
<1> QED BY <1>1 DEF Refunding, Refund, claim, Pay, PayFails, PayUnheard, record, fail, FailedWrite,
                    close, recordZeroRefund, markNoInstrument, ParkUnclear

LEMMA SyncCauses ==
    ASSUME TypeOK, AllClear, Innocent, ~Gone, NEW p \in Procs, Sync(p) PROVE Caused
<1> DEFINE l == loc[p]
<1>1. /\ l.seen \notin TERMINAL_STATUSES /\ l.target \notin TERMINAL_STATUSES
      /\ status \notin TERMINAL_STATUSES /\ l \in Locals
  BY DEF AllClear, Clear, Innocent, TypeOK
<1>2. order' = order /\ payments' = payments
  BY DEF Sync, StartSync, Ask, AskFails, Set, Elsewhere, money
<1>3. CASE StartSync(p)
  <2>1. Clear([Idle EXCEPT !.job = "sync", !.seen = status], "ask")
    BY <1>1 DEF Clear, Refunding, Idle, TERMINAL_STATUSES
  <2>2. AllClear' /\ Mild
    BY <1>2, <1>3, <2>1, GoClear DEF StartSync, Mild
  <2> QED BY <1>2, <2>2, StaysInnocent DEF Caused
<1>4. CASE Ask(p)
  <2> DEFINE answer == IF Report = "none" THEN l.seen ELSE Report
  <2>1. answer \notin TERMINAL_STATUSES
    BY <1>1 DEF Report, TERMINAL_STATUSES, Gone
  <2>2. Clear([l EXCEPT !.target = answer], "set")
    BY <1>1, <2>1 DEF Clear, Refunding, Locals
  <2>3. AllClear' /\ Mild
    BY <1>2, <1>4, <2>2, GoClear DEF Ask, Mild
  <2> QED BY <1>2, <2>3, StaysInnocent DEF Caused
<1>5. CASE AskFails(p)
  <2>1. AllClear' /\ Mild
    BY <1>1, <1>2, <1>5, ReturnClear DEF AskFails, Mild
  <2> QED BY <1>2, <2>1, StaysInnocent DEF Caused
<1>6. CASE Set(p)
  <2>1. \E seen : seen \notin TERMINAL_STATUSES /\ Return(p, seen)
    BY <1>1, <1>6 DEF Set, Resolve, TERMINAL_STATUSES
  <2>2. AllClear'
    BY <1>2, <2>1, ReturnClear
  <2>3. Mild
    BY <1>1, <1>6, WritesMildly DEF Set, Mild
  <2> QED BY <1>2, <2>2, <2>3, StaysInnocent DEF Caused
<1> QED BY <1>3, <1>4, <1>5, <1>6 DEF Sync

LEMMA SweepCauses ==
    ASSUME TypeOK, AllClear, Innocent, ~Gone, NEW p \in Procs, Sweep(p) PROVE Caused
<1> DEFINE l == loc[p]
<1>1. /\ l.seen \notin TERMINAL_STATUSES /\ l.target \notin TERMINAL_STATUSES
      /\ status \notin TERMINAL_STATUSES /\ l \in Locals
  BY DEF AllClear, Clear, Innocent, TypeOK
<1>2. order' = order /\ payments' = payments
  BY DEF Sweep, StartSweep, resolveStuckBooking, SweepEscalate, Escalate, Park, SweepRetry,
         Elsewhere, money
<1>3. CASE StartSweep(p)
  <2>1. /\ Clear([Idle EXCEPT !.job = "stuck", !.seen = status], "ask")
        /\ Clear([Idle EXCEPT !.job = "escalate"], "escalate")
    BY <1>1 DEF Clear, Refunding, Idle, TERMINAL_STATUSES
  <2>2. AllClear' /\ Mild
    BY <1>2, <1>3, <2>1, GoClear DEF StartSweep, Mild
  <2> QED BY <1>2, <2>2, StaysInnocent DEF Caused
<1>4. CASE resolveStuckBooking(p) /\ GivesUp(p)
  <2>1. waived' = (waived \/ GivesUp(p))
    BY <1>4 DEF resolveStuckBooking
  <2> QED BY <1>4, <2>1 DEF Caused, Gone
<1>5. CASE resolveStuckBooking(p) /\ ~GivesUp(p)
  <2>1. l.seen # "FAILED"
    BY <1>1 DEF TERMINAL_STATUSES
  <2>2. Leave(p) /\ Mild
    BY <1>5, <2>1 DEF resolveStuckBooking, Mild
  <2> QED BY <1>2, <2>2, LeaveClear, StaysInnocent DEF Caused
<1>6. CASE SweepEscalate(p)
  <2>1. /\ Clear([l EXCEPT !.seen = status], "ask")
        /\ Clear([Idle EXCEPT !.job = "retry"], "retry")
    BY <1>1 DEF Clear, Refunding, Idle, TERMINAL_STATUSES, Locals
  <2>2. AllClear' /\ Mild
    BY <1>2, <1>6, <2>1, GoClear DEF SweepEscalate, Mild
  <2> QED BY <1>2, <2>2, StaysInnocent DEF Caused
<1>7. CASE Escalate(p)
  <2>1. Clear(l, "park")
    BY <1>1 DEF Clear, Refunding
  <2>2. AllClear' /\ Mild
    BY <1>2, <1>7, <2>1, GoClear, LeaveClear DEF Escalate, Mild
  <2> QED BY <1>2, <2>2, StaysInnocent DEF Caused
<1>8. CASE Park(p)
  <2>1. Mild
    BY <1>8, TransitionsMildly DEF Park, TERMINAL_STATUSES
  <2> QED BY <1>2, <1>8, <2>1, LeaveClear, StaysInnocent DEF Park, Caused
<1>9. CASE SweepRetry(p)
  <2>1. Leave(p) /\ Mild
    BY <1>9 DEF SweepRetry, Innocent, Mild
  <2> QED BY <1>2, <2>1, LeaveClear, StaysInnocent DEF Caused
<1> QED BY <1>3, <1>4, <1>5, <1>6, <1>7, <1>8, <1>9 DEF Sweep

LEMMA PollCauses ==
    ASSUME TypeOK, AllClear, Innocent, ~Gone, NEW p \in Procs, Poll(p) PROVE Caused
<1> DEFINE l == loc[p]
<1>1. /\ l.seen \notin TERMINAL_STATUSES /\ l.target \notin TERMINAL_STATUSES
      /\ status \notin TERMINAL_STATUSES /\ l \in Locals /\ pc[p] \notin Refunding
  BY DEF AllClear, Clear, Innocent, TypeOK
<1>2. order' = order /\ payments' = payments
  BY DEF Poll, pollAsk, pollSet, pollNote, pollPark, Elsewhere, money
<1>3. CASE pollAsk(p)
  <2>1. stay \in {"held", "confirmed"} => Clear([l EXCEPT !.target = Report], "pollSet")
    BY <1>1 DEF Clear, Refunding, Report, TERMINAL_STATUSES, Locals
  <2>2. Clear(l, "pollPark")
    BY <1>1 DEF Clear, Refunding
  <2>3. AllClear' /\ Mild
    BY <1>2, <1>3, <2>1, <2>2, GoClear, LeaveClear DEF pollAsk, Mild, Gone
  <2> QED BY <1>2, <2>3, StaysInnocent DEF Caused
<1>4. CASE pollSet(p)
  <2>1. Mild
    BY <1>1, <1>4, TransitionsMildly DEF pollSet
  <2> QED BY <1>2, <1>4, <2>1, LeaveClear, StaysInnocent DEF pollSet, Caused
<1>5. CASE pollNote(p)
  BY <1>1, <1>5 DEF pollNote, Refunding
<1>6. CASE pollPark(p)
  <2>1. Mild
    BY <1>6, WritesMildly DEF pollPark, Mild, TERMINAL_STATUSES
  <2> QED BY <1>2, <1>6, <2>1, LeaveClear, StaysInnocent DEF pollPark, Caused
<1> QED BY <1>3, <1>4, <1>5, <1>6 DEF Poll

LEMMA CancelCauses ==
    ASSUME TypeOK, AllClear, Innocent, ~Gone, NEW p \in Procs, Cancel(p) PROVE Caused
<1> DEFINE l == loc[p]
<1>1. /\ l.seen \notin TERMINAL_STATUSES /\ l.target \notin TERMINAL_STATUSES
      /\ l \in Locals /\ pc[p] \notin Refunding
      /\ pc[p] = "cancelNote" => order.provider # "rategain"
  BY DEF AllClear, Clear, TypeOK
<1>2. order' = order /\ payments' = payments /\ order.provider \in {"tripjack", "rategain"}
  BY OrdersAssumption
  DEF Cancel, StartCancel, cancelNote, cancelPoll, cancelAgain, cancelRead, Elsewhere, money, TypeOK
<1>3. CASE StartCancel(p) /\ order.provider = "rategain"
  <2>1. Gone'
    BY <1>3 DEF StartCancel, Accepts, Gone
  <2> QED BY <2>1 DEF Caused
<1>4. CASE StartCancel(p) /\ order.provider # "rategain"
  <2>1. PICK c \in Breakdowns : Go(p, [Idle EXCEPT !.job = "cancel", !.charges = c], "cancelNote")
    BY <1>4 DEF StartCancel
  <2>2. Clear([Idle EXCEPT !.job = "cancel", !.charges = c], "cancelNote")
    BY <1>4 DEF Clear, Refunding, Idle, TERMINAL_STATUSES
  <2>3. AllClear' /\ Mild
    BY <1>2, <1>4, <2>1, <2>2, GoClear DEF StartCancel, Mild
  <2> QED BY <1>2, <2>3, StaysInnocent DEF Caused
<1>5. CASE cancelNote(p)
  <2>1. Clear([l EXCEPT !.job = "cancelPoll"], "cancelPoll")
    BY <1>1 DEF Clear, Refunding, Locals
  <2>2. Go(p, [l EXCEPT !.job = "cancelPoll"], "cancelPoll")
    BY <1>1, <1>2, <1>5 DEF cancelNote
  <2>3. Mild
    BY <1>5, WritesMildly DEF cancelNote, TERMINAL_STATUSES
  <2> QED BY <1>2, <2>1, <2>2, <2>3, GoClear, StaysInnocent DEF Caused
<1>6. CASE cancelPoll(p)
  <2>1. Clear(l, "cancelAgain")
    BY <1>1 DEF Clear, Refunding
  <2>2. AllClear' /\ Mild
    BY <1>2, <1>6, <2>1, GoClear, LeaveClear DEF cancelPoll, Mild, Gone
  <2> QED BY <1>2, <2>2, StaysInnocent DEF Caused
<1>7. CASE cancelAgain(p)
  <2>1. Clear(l, "cancelPoll")
    BY <1>1 DEF Clear, Refunding
  <2>2. Mild
    BY <1>7, WritesMildly DEF cancelAgain, TERMINAL_STATUSES
  <2> QED BY <1>2, <1>7, <2>1, <2>2, GoClear, StaysInnocent DEF cancelAgain, Caused
<1>8. CASE cancelRead(p)
  BY <1>1, <1>8 DEF cancelRead, Refunding
<1> QED BY <1>3, <1>4, <1>5, <1>6, <1>7, <1>8 DEF Cancel

LEMMA DeskCauses ==
    ASSUME TypeOK, AllClear, Innocent, ~Gone, NEW p \in Procs, Desk(p) PROVE Caused
<1> DEFINE l == loc[p]
<1>1. /\ l.seen \notin TERMINAL_STATUSES /\ l.target \notin TERMINAL_STATUSES
      /\ status \notin TERMINAL_STATUSES
  BY DEF AllClear, Clear, Innocent
<1>2. order' = order /\ payments' = payments
  BY DEF Desk, StartConfirm, ConfirmHold, ConfirmSave, ManualRefund, Elsewhere, money
<1>3. CASE StartConfirm(p)
  <2>1. Clear([Idle EXCEPT !.job = "confirm", !.seen = status], "confirmCall")
    BY <1>1 DEF Clear, Refunding, Idle, TERMINAL_STATUSES
  <2>2. AllClear' /\ Mild
    BY <1>2, <1>3, <2>1, GoClear DEF StartConfirm, Mild
  <2> QED BY <1>2, <2>2, StaysInnocent DEF Caused
<1>4. CASE ConfirmHold(p)
  <2>1. Clear(l, "confirmSave")
    BY <1>1 DEF Clear, Refunding
  <2>2. AllClear' /\ Mild
    BY <1>2, <1>4, <2>1, GoClear, LeaveClear DEF ConfirmHold, Mild
  <2> QED BY <1>2, <2>2, StaysInnocent DEF Caused
<1>5. CASE ConfirmSave(p)
  <2>1. Mild
    BY <1>1, <1>5, WritesMildly DEF ConfirmSave, TERMINAL_STATUSES
  <2> QED BY <1>2, <1>5, <2>1, LeaveClear, StaysInnocent DEF ConfirmSave, Caused
<1>6. CASE ManualRefund(p)
  BY <1>6 DEF ManualRefund, Caused, Gone
<1> QED BY <1>3, <1>4, <1>5, <1>6 DEF Desk

LEMMA RejectedCauses ==
    ASSUME TypeOK, AllClear, Innocent, NEW p \in Procs, Rejected(p) PROVE Caused
<1>1. loc[p].seen \notin TERMINAL_STATUSES /\ pc[p] \notin Refunding
  BY DEF AllClear, Clear
<1>2. order' = order /\ payments' = payments /\ Mild
  BY DEF Rejected, money, Mild
<1>3. AllClear'
  BY <1>1, <1>2, ReturnClear, ThrownClear DEF Rejected, Refunding
<1> QED BY <1>2, <1>3, StaysInnocent DEF Caused

LEMMA WorldCauses ==
    ASSUME TypeOK, AllClear, Innocent, World \/ Overrun \/ Crash \/ UNCHANGED vars PROVE Caused
<1>1. payments' = payments /\ order' = order
  BY DEF World, EscalateStale, SupplierDecides, Grow, Quieten, CancelUnheard, Overrun, Crash,
         vars, Elsewhere, money
<1>2. AllClear'
  <2>1. CASE Crash
    <3>1. Clear(Idle, "idle")'
      BY DEF Clear, Refunding, Idle, TERMINAL_STATUSES
    <3>2. \A p \in Procs : pc'[p] = "idle" /\ loc'[p] = Idle
      BY <2>1 DEF Crash
    <3> QED BY <3>1, <3>2 DEF AllClear
  <2>2. CASE ~Crash
    <3>1. pc' = pc /\ loc' = loc
      BY <2>2 DEF World, EscalateStale, SupplierDecides, Grow, Quieten, CancelUnheard, Overrun,
                  vars, proc
    <3> QED BY <1>1, <3>1 DEF AllClear, Clear
  <2> QED BY <2>1, <2>2
<1>3. Mild
  <2>1. ~Overrun
    BY DEF Overrun, Innocent
  <2>2. Quieten => Mild
    BY DEF Quieten, Mild, Innocent, TERMINAL_STATUSES
  <2>3. EscalateStale => Mild
    BY WritesMildly DEF EscalateStale, TERMINAL_STATUSES
  <2> QED BY <2>1, <2>2, <2>3
          DEF World, SupplierDecides, Grow, CancelUnheard, Crash, vars, Mild
<1> QED BY <1>1, <1>2, <1>3, StaysInnocent DEF Caused

-----------------------------------------------------------------------------
(* The theorem.                                                            *)

LEMMA CausesInit == Init => Causes
<1> SUFFICES ASSUME Init PROVE AllClear /\ Innocent
  BY DEF Causes
<1>1. \A p \in Procs : pc[p] \in {"pollAsk", "idle"}
  BY DEF Init
<1>2. \A p \in Procs : loc[p] \in {[Idle EXCEPT !.job = "poll"], Idle}
  BY DEF Init
<1>3. AllClear
  BY <1>1, <1>2 DEF AllClear, Clear, Refunding, Idle, TERMINAL_STATUSES
<1>4. status \notin TERMINAL_STATUSES
  BY DEF Init, Saved, TERMINAL_STATUSES
<1> QED BY <1>3, <1>4 DEF Init, Innocent, NoRefund

LEMMA CausesNext == TypeOK /\ Causes /\ [Next]_vars => Causes'
<1> SUFFICES ASSUME TypeOK, Causes, [Next]_vars PROVE Causes'
  OBVIOUS
<1>1. CASE Gone
  BY <1>1, GoneStays DEF Causes
<1>2. CASE ~Gone
  <2> USE <1>2
  <2>1. AllClear /\ Innocent
    BY DEF Causes
  <2>2. ASSUME NEW p \in Procs,
               Refund(p) \/ Sync(p) \/ Sweep(p) \/ Poll(p) \/ Cancel(p) \/ Desk(p) \/ Rejected(p)
        PROVE  Caused
    BY <2>1, <2>2, RefundNeedsCause, SyncCauses, SweepCauses, PollCauses, CancelCauses,
       DeskCauses, RejectedCauses
  <2>3. CASE World \/ Overrun \/ Crash \/ UNCHANGED vars
    BY <2>1, <2>3, WorldCauses DEF Caused, Causes
  <2> QED BY <2>2, <2>3 DEF Next, World, Caused, Causes
<1> QED BY <1>1, <1>2

\* A payer is given money back, and a booking is closed, only for a stay that
\* failed or was cancelled, after six hours without a word from the supplier,
\* or by hand: no job closes a booking on what it read before.
THEOREM RefundedForCause == Spec => []RefundForCause
<1>1. LiveInv => TypeOK
  BY DEF LiveInv
<1>2. LiveInv /\ Causes => RefundForCause
  BY DEF LiveInv, TypeOK, Causes, Gone, Innocent, RefundForCause
<1>3. Init => LiveInv /\ Causes
  BY LiveInit, CausesInit
<1>4. LiveInv /\ Causes /\ [Next]_vars => LiveInv' /\ Causes'
  BY <1>1, LiveNext, CausesNext
<1> QED BY <1>2, <1>3, <1>4, PTL DEF Spec

-----------------------------------------------------------------------------
(* A refund on record was made.                                            *)

\* One process pays at a time, under a claim that is its own; only a refund of
\* nothing may be recorded over it, by an order that was cancelled meanwhile.
Holds(p) ==
    /\ order.payable
    /\ refund.status = "COMPLETED" \/ (refund.status = "PROCESSING" /\ ~refund.stale)
    /\ refund.amount \in {loc[p].amount, 0}
    /\ \A q \in Procs : Paying(q) => q = p

\* A process at the claim has something to refund to, one that says it has
\* nothing has not.
Armed(place) ==
    /\ place = "claim" => order.payable
    /\ place = "noInstrument" => ~order.payable

Sound ==
    /\ \A p \in Procs : /\ Paying(p) => Holds(p)
                        /\ pc[p] = "record" => returned >= loc[p].amount
                        /\ Armed(pc[p])
    /\ refund.status = "COMPLETED" => returned >= refund.amount

Solo == losses = 0 => Sound

\* A step of p that goes somewhere outside a payment.
Lands(p) == \E l, place : Go(p, l, place) /\ place \notin Giving /\ Armed(place)

LEMMA LeaveLands == ASSUME NEW p \in Procs, Leave(p) PROVE Lands(p)
<1>1. \A place \in {"escalate", "retry", "idle"} : place \notin Giving /\ Armed(place)
  BY DEF Giving, Armed
<1>2. \E l : \E place \in {"escalate", "retry", "idle"} : Go(p, l, place)
  BY DEF Leave
<1> QED BY <1>1, <1>2 DEF Lands

LEMMA ReturnLands == ASSUME NEW p \in Procs, NEW seen, Return(p, seen) PROVE Lands(p)
<1>1. \A place \in {"synced", "idle"} : place \notin Giving /\ Armed(place)
  BY DEF Giving, Armed
<1>2. \E l : \E place \in {"synced", "idle"} : Go(p, l, place)
  BY DEF Return
<1> QED BY <1>1, <1>2 DEF Lands

LEMMA ExecuteLands == ASSUME NEW p \in Procs, NEW l, Execute(p, l) PROVE Lands(p)
<1> DEFINE place == IF l.amount = 0 THEN "zero"
                    ELSE IF order.payable THEN "claim" ELSE "noInstrument"
<1>1. place \notin Giving /\ Armed(place)
  BY DEF Giving, Armed
<1>2. Go(p, l, place)
  BY DEF Execute
<1> QED BY <1>1, <1>2 DEF Lands

LEMMA RefundLands == ASSUME NEW p \in Procs, NEW l, refundFailedBooking(p, l) PROVE Lands(p)
BY ExecuteLands DEF refundFailedBooking

LEMMA SettleLands ==
    ASSUME NEW p \in Procs, NEW l, NEW c, settleCancellation(p, l, c) PROVE Lands(p)
<1>1. "unclear" \notin Giving /\ Armed("unclear")
  BY DEF Giving, Armed
<1>2. CASE c \in 0..Price
  BY <1>2, ExecuteLands DEF settleCancellation
<1>3. CASE c \notin 0..Price
  BY <1>1, <1>3 DEF settleCancellation, Lands
<1> QED BY <1>2, <1>3

LEMMA ResolveLands == ASSUME NEW p \in Procs, NEW target, Resolve(p, target) PROVE Lands(p)
BY RefundLands, SettleLands, ReturnLands DEF Resolve

LEMMA EndRefundLands == ASSUME NEW p \in Procs, EndRefund(p) PROVE Lands(p)
BY ReturnLands, LeaveLands DEF EndRefund

LEMMA GoLands ==
    ASSUME NEW p \in Procs, NEW l, NEW place, Go(p, l, place),
           place \notin Giving \union {"claim", "noInstrument"}
    PROVE  Lands(p)
BY DEF Lands, Armed

LEMMA ThrownLands == ASSUME NEW p \in Procs, Thrown(p) PROVE Lands(p)
<1>1. \A place \in {"pollAsk", "cancelPoll", "idle"} :
        place \notin Giving \union {"claim", "noInstrument"}
  BY DEF Giving
<1>2. \/ Return(p, loc[p].seen) \/ Leave(p)
      \/ \E l : \E place \in {"pollAsk", "cancelPoll", "idle"} : Go(p, l, place)
  BY DEF Thrown
<1> QED BY <1>1, <1>2, ReturnLands, LeaveLands, GoLands

\* A step of another job than a refund.
Aside(p) ==
    /\ Lands(p)
    /\ refund' = refund /\ returned' = returned /\ order' = order /\ losses' = losses

LEMMA AllAside ==
    ASSUME NEW p \in Procs, Sync(p) \/ Sweep(p) \/ Poll(p) \/ Cancel(p) \/ Desk(p) PROVE Aside(p)
<1> DEFINE Far == {"ask", "set", "escalate", "retry", "park", "pollSet", "pollNote", "pollPark",
                   "cancelNote", "cancelPoll", "cancelAgain", "cancelRead",
                   "confirmCall", "confirmSave"}
<1>1. ASSUME NEW l, NEW place \in Far, Go(p, l, place) PROVE Lands(p)
  BY <1>1, GoLands DEF Giving
<1>2. ASSUME NEW s, transitionStatus(s) PROVE refund' = refund
  BY <1>2 DEF transitionStatus, document, Write
<1>3. CASE Sync(p)
  <2>1. Lands(p)
    BY <1>1, <1>3, ReturnLands, ResolveLands DEF Sync, StartSync, Ask, AskFails, Set
  <2> QED BY <1>3, <2>1
          DEF Aside, Sync, StartSync, Ask, AskFails, Set, Write, document, Elsewhere, money
<1>4. CASE Sweep(p)
  <2>1. CASE StartSweep(p)
    BY <1>1, <2>1 DEF StartSweep, Aside, document, Elsewhere, money
  <2>2. CASE resolveStuckBooking(p)
    BY <2>2, RefundLands, LeaveLands DEF resolveStuckBooking, Aside, document, money
  <2>3. CASE SweepEscalate(p)
    BY <1>1, <2>3 DEF SweepEscalate, Aside, document, Elsewhere, money
  <2>4. CASE Escalate(p)
    BY <1>1, <2>4, LeaveLands DEF Escalate, Aside, document, Elsewhere, money
  <2>5. CASE Park(p)
    BY <1>2, <2>5, LeaveLands DEF Park, Aside, Elsewhere, money
  <2>6. CASE SweepRetry(p)
    BY <2>6, LeaveLands, ExecuteLands, RefundLands
       DEF SweepRetry, Aside, document, Elsewhere, money
  <2> QED BY <1>4, <2>1, <2>2, <2>3, <2>4, <2>5, <2>6 DEF Sweep
<1>5. CASE Poll(p)
  <2>1. Lands(p)
    BY <1>1, <1>5, LeaveLands, RefundLands DEF Poll, pollAsk, pollSet, pollNote, pollPark
  <2> QED BY <1>2, <1>5, <2>1
          DEF Aside, Poll, pollAsk, pollSet, pollNote, pollPark, Write, document, Elsewhere, money
<1>6. CASE Cancel(p)
  <2>1. CASE StartCancel(p)
    BY <1>1, <2>1 DEF StartCancel, Aside, document, money
  <2>2. CASE cancelNote(p)
    BY <1>1, <2>2, SettleLands DEF cancelNote, Aside, Write, Elsewhere, money
  <2>3. CASE cancelPoll(p)
    BY <1>1, <2>3, LeaveLands DEF cancelPoll, Aside, document, Elsewhere, money
  <2>4. CASE cancelAgain(p)
    BY <1>1, <2>4 DEF cancelAgain, Aside, Write, Elsewhere, money
  <2>5. CASE cancelRead(p)
    BY <2>5, SettleLands DEF cancelRead, Aside, Write, Elsewhere, money
  <2> QED BY <1>6, <2>1, <2>2, <2>3, <2>4, <2>5 DEF Cancel
<1>7. CASE Desk(p)
  <2>1. CASE StartConfirm(p)
    BY <1>1, <2>1 DEF StartConfirm, Aside, document, money
  <2>2. CASE ConfirmHold(p)
    BY <1>1, <2>2, LeaveLands DEF ConfirmHold, Aside, document, money
  <2>3. CASE ConfirmSave(p)
    BY <2>3, LeaveLands DEF ConfirmSave, Aside, Write, Elsewhere, money
  <2>4. CASE ManualRefund(p)
    BY <2>4, SettleLands DEF ManualRefund, Aside, document, money
  <2> QED BY <1>7, <2>1, <2>2, <2>3, <2>4 DEF Desk
<1> QED BY <1>3, <1>4, <1>5, <1>6, <1>7

\* p goes somewhere outside a payment: what held of the others still does.
LEMMA LandedKeeps ==
    ASSUME TypeOK, Sound, NEW p \in Procs, Lands(p), order' = order, returned' = returned,
           \A q \in Procs : q # p /\ Paying(q) => Holds(q)',
           refund'.status = "COMPLETED" => returned >= refund'.amount
    PROVE  Sound'
<1>1. PICK l, place : Go(p, l, place) /\ place \notin Giving /\ Armed(place)
  BY DEF Lands
<1>2. pc \in [Procs -> Places] /\ loc \in [Procs -> Locals]
  BY DEF TypeOK
<1>3. pc'[p] = place /\ \A q \in Procs : q # p => pc'[q] = pc[q] /\ loc'[q] = loc[q]
  BY <1>1, <1>2 DEF Go
<1>4. ASSUME NEW q \in Procs
      PROVE  /\ Paying(q)' => Holds(q)'
             /\ pc'[q] = "record" => returned' >= loc'[q].amount
             /\ Armed(pc[q])'
  <2>1. CASE q = p
    BY <1>1, <1>3, <2>1 DEF Paying, Giving, Armed
  <2>2. CASE q # p
    BY <1>3, <2>2 DEF Sound, Paying, Armed
  <2> QED BY <2>1, <2>2
<1> QED BY <1>4 DEF Sound

\* What is not touched when p leaves its place: the claims of the others.
LEMMA HoldsStill ==
    ASSUME TypeOK, Sound, NEW p \in Procs, Lands(p), order' = order, refund' = refund,
           NEW q \in Procs, q # p, Paying(q)
    PROVE  Holds(q)'
<1>1. PICK l, place : Go(p, l, place) /\ place \notin Giving
  BY DEF Lands
<1>2. pc \in [Procs -> Places] /\ loc \in [Procs -> Locals]
  BY DEF TypeOK
<1>3. pc'[p] = place /\ \A r \in Procs : r # p => pc'[r] = pc[r] /\ loc'[r] = loc[r]
  BY <1>1, <1>2 DEF Go
<1>4. Holds(q)
  BY DEF Sound
<1>5. \A r \in Procs : Paying(r)' => Paying(r)
  BY <1>1, <1>3 DEF Paying, Giving
<1> QED BY <1>3, <1>4, <1>5 DEF Holds

LEMMA AsideKeeps ==
    ASSUME TypeOK, Sound, NEW p \in Procs, Aside(p) PROVE Sound'
BY LandedKeeps, HoldsStill DEF Aside, Sound

\* A step of the process that pays: no other one does.
LEMMA PayerKeeps ==
    ASSUME TypeOK, Sound, NEW p \in Procs, NEW place, Go(p, loc[p], place), Armed(place),
           order' = order, \A q \in Procs : Paying(q) => q = p,
           returned' \in Nat, returned' >= returned,
           place = "record" => returned' >= loc[p].amount,
           place \in Giving => order.payable /\ refund'.amount \in {loc[p].amount, 0}
                 /\ (refund'.status = "COMPLETED"
                      \/ (refund'.status = "PROCESSING" /\ ~refund'.stale)),
           refund'.status = "COMPLETED" => returned' >= refund'.amount
    PROVE  Sound'
<1>1. pc \in [Procs -> Places] /\ loc \in [Procs -> Locals]
  BY DEF TypeOK
<1>2. pc'[p] = place /\ loc'[p] = loc[p] /\ \A q \in Procs : q # p => pc'[q] = pc[q]
  BY <1>1 DEF Go
<1>3. \A q \in Procs : Paying(q)' => q = p
  BY <1>2 DEF Paying
<1>4. Paying(p)' => Holds(p)'
  BY <1>2, <1>3 DEF Holds, Paying, Giving
<1>5. \A q \in Procs : pc'[q] = "record" => q = p
  BY <1>3 DEF Paying
<1>6. \A q \in Procs : Armed(pc[q])'
  BY <1>2 DEF Sound, Armed
<1> QED BY <1>2, <1>3, <1>4, <1>5, <1>6 DEF Sound

LEMMA RefundKeeps ==
    ASSUME TypeOK, Sound, NEW p \in Procs, Refund(p), losses' = losses PROVE Sound'
<1> DEFINE l == loc[p]
<1>1. /\ l.amount \in 0..Price /\ Price \in Nat
      /\ returned \in Nat /\ losses \in Nat /\ refund \in Refunds /\ refund.amount \in 0..Price
  BY PriceAssumption, BoundsAssumption DEF TypeOK, Locals, Refunds
<1>2. Paying(p) => \A q \in Procs : Paying(q) => q = p
  BY DEF Sound, Holds
<1>3. \A place \in Giving \union {"close"} : Armed(place)
  BY DEF Giving, Armed
<1>4. CASE claim(p)
  <2>1. CASE Claimable
    <3>1. \A q \in Procs : ~Paying(q)
      BY <2>1 DEF Claimable, Sound, Holds
    <3>2. order.payable
      BY <1>4 DEF claim, Sound, Armed
    <3>3. /\ refund' = [status |-> "PROCESSING", kind |-> l.kind, amount |-> l.amount, stale |-> FALSE]
          /\ Go(p, l, "pay") /\ order' = order /\ returned' = returned
      BY <1>4, <2>1 DEF claim, Write, Elsewhere, money
    <3> QED BY <1>1, <1>3, <3>1, <3>2, <3>3, PayerKeeps DEF Giving
  <2>2. CASE ~Claimable
    <3>1. Lands(p) /\ refund' = refund /\ order' = order /\ returned' = returned
      BY <1>4, <2>2, EndRefundLands DEF claim, document, Elsewhere, money
    <3> QED BY <3>1, LandedKeeps, HoldsStill DEF Sound
  <2> QED BY <2>1, <2>2
<1>5. CASE Pay(p)
  <2>1. Paying(p) /\ Holds(p)
    BY <1>5 DEF Pay, Paying, Sound
  <2>2. /\ Go(p, l, "record") /\ order' = order /\ refund' = refund
        /\ returned' = returned + l.amount
    BY <1>5 DEF Pay, Paid, document
  <2>3. refund.status = "COMPLETED" => returned' >= refund'.amount
    BY <1>1, <2>2 DEF Sound
  <2> QED BY <1>1, <1>2, <1>3, <2>1, <2>2, <2>3, PayerKeeps DEF Giving, Holds
<1>6. CASE PayFails(p)
  <2>1. Paying(p) /\ Holds(p)
    BY <1>6 DEF PayFails, Paying, Sound
  <2>2. Go(p, l, "fail") /\ order' = order /\ refund' = refund /\ returned' = returned
    BY <1>6 DEF PayFails, document, Elsewhere, money
  <2>3. refund.status = "COMPLETED" => returned' >= refund'.amount
    BY <2>2 DEF Sound
  <2> QED BY <1>1, <1>2, <1>3, <2>1, <2>2, <2>3, PayerKeeps DEF Giving, Holds
<1>7. CASE PayUnheard(p)
  BY <1>1, <1>7 DEF PayUnheard, Lose
<1>8. CASE record(p)
  <2>1. Paying(p) /\ Holds(p) /\ returned >= l.amount
    BY <1>8 DEF record, Paying, Sound
  <2>2. /\ Go(p, l, "close") /\ order' = order /\ returned' = returned
        /\ refund' = Ended("COMPLETED")
    BY <1>8 DEF record, Write, Elsewhere, money
  <2>3. refund'.amount = refund.amount
    BY <1>1, <2>2 DEF Ended, Refunds
  <2>4. returned' >= refund'.amount
    BY <1>1, <2>1, <2>2, <2>3 DEF Holds
  <2> QED BY <1>1, <1>2, <1>3, <2>1, <2>2, <2>4, PayerKeeps DEF Giving
<1>9. CASE fail(p)
  <2>1. \A q \in Procs : Paying(q) => q = p
    BY <1>2, <1>9 DEF fail, FailedWrite, Paying
  <2>2. /\ Lands(p) /\ order' = order /\ returned' = returned
        /\ refund' = Ended("FAILED")
    BY <1>9, EndRefundLands DEF fail, FailedWrite, Write, Elsewhere, money
  <2>3. refund'.status # "COMPLETED"
    BY <1>1, <2>2 DEF Ended, Refunds
  <2> QED BY <2>1, <2>2, <2>3, LandedKeeps
<1>10. CASE close(p) \/ ParkUnclear(p)
  <2>1. Lands(p) /\ order' = order /\ returned' = returned /\ refund' = refund
    BY <1>10, EndRefundLands
       DEF close, ParkUnclear, transitionStatus, Write, document, Elsewhere, money
  <2> QED BY <2>1, LandedKeeps, HoldsStill DEF Sound
<1>11. CASE recordZeroRefund(p)
  <2>1. Lands(p) /\ order' = order /\ returned' = returned
    BY <1>11, EndRefundLands DEF recordZeroRefund, Replace, Elsewhere, money
  <2>2. CASE refund' = refund
    BY <2>1, <2>2, LandedKeeps, HoldsStill DEF Sound
  <2>3. CASE refund' = [status |-> "COMPLETED", kind |-> "CANCELLATION", amount |-> 0, stale |-> FALSE]
    <3>1. PICK k, place : Go(p, k, place) /\ place \notin Giving
      BY <2>1 DEF Lands
    <3>2. \A q \in Procs : Paying(q)' => Paying(q)
      BY <3>1 DEF Go, Paying, Giving, TypeOK
    <3>3. \A q \in Procs : Paying(q) => Holds(q)'
      BY <2>1, <2>3, <3>2 DEF Holds, Sound
    <3> QED BY <1>1, <2>1, <2>3, <3>3, LandedKeeps
  <2> QED BY <1>11, <2>2, <2>3 DEF recordZeroRefund, Replace, Write, document
<1>12. CASE markNoInstrument(p)
  <2>1. Lands(p) /\ order' = order /\ returned' = returned
    BY <1>12, EndRefundLands DEF markNoInstrument, Replace, Elsewhere, money
  <2>2. \A q \in Procs : ~Paying(q)
    BY <1>12 DEF markNoInstrument, Sound, Holds, Armed
  <2>3. refund' = refund \/ refund'.status = "NOT_APPLICABLE"
    BY <1>12 DEF markNoInstrument, Replace, Write, document
  <2> QED BY <2>1, <2>2, <2>3, LandedKeeps DEF Sound
<1> QED BY <1>4, <1>5, <1>6, <1>7, <1>8, <1>9, <1>10, <1>11, <1>12 DEF Refund

LEMMA OverrunSound ==
    ASSUME TypeOK, Sound, Overrun, losses' = losses PROVE Sound'
<1>1. \A p \in Procs : ~Paying(p)
  BY BoundsAssumption DEF Overrun, Lose, TypeOK
<1>2. /\ pc' = pc /\ loc' = loc /\ order' = order /\ returned' = returned
      /\ refund'.status = "PROCESSING"
  BY DEF Overrun, TypeOK, Refunds, proc, money
<1> QED BY <1>1, <1>2 DEF Sound, Paying, Armed

LEMMA SoloNext == TypeOK /\ Solo /\ [Next]_vars => Solo'
<1> SUFFICES ASSUME TypeOK, Solo, [Next]_vars, losses' = 0 PROVE Sound'
  BY DEF Solo
<1>1. losses \in Nat
  BY BoundsAssumption DEF TypeOK
<1>2. ASSUME Sound => Sound', losses' = losses PROVE Sound'
  BY <1>2 DEF Solo
<1>3. ASSUME NEW p \in Procs, Refund(p) PROVE Sound'
  <2>1. losses' = losses
    BY <1>1, <1>3
       DEF Refund, claim, Pay, PayFails, PayUnheard, record, fail, close, recordZeroRefund,
           markNoInstrument, ParkUnclear, Replace, Elsewhere, Lose
  <2> QED BY <1>2, <1>3, <2>1, RefundKeeps
<1>4. ASSUME NEW p \in Procs, Sync(p) \/ Sweep(p) \/ Poll(p) \/ Cancel(p) \/ Desk(p) PROVE Sound'
  <2>1. Aside(p)
    BY <1>4, AllAside
  <2> QED BY <1>2, <2>1, AsideKeeps DEF Aside
<1>5. ASSUME NEW p \in Procs, Rejected(p) PROVE FALSE
  BY <1>1, <1>5 DEF Rejected, Lose
<1>6. ~Crash
  BY <1>1 DEF Crash, Lose
<1>7. CASE Overrun
  <2>1. losses' = losses
    BY <1>1, <1>7 DEF Overrun, Lose
  <2> QED BY <1>2, <1>7, <2>1, OverrunSound
<1>8. CASE World \/ UNCHANGED vars
  <2>1. /\ pc' = pc /\ loc' = loc /\ order' = order /\ returned' = returned
        /\ refund' = refund /\ losses' = losses
    BY <1>1, <1>8 DEF World, EscalateStale, SupplierDecides, Grow, Quieten, CancelUnheard, Write, Lose,
                 vars, document, proc, money, Elsewhere
  <2> QED BY <1>2, <2>1 DEF Sound, Holds, Paying, Armed
<1> QED BY <1>3, <1>4, <1>5, <1>6, <1>7, <1>8 DEF Next, World

LEMMA SoloInit == Init => Solo
<1> SUFFICES ASSUME Init PROVE Sound
  BY DEF Solo
<1>1. \A p \in Procs : pc[p] \in {"pollAsk", "idle"}
  BY DEF Init
<1>2. refund.status = "NONE"
  BY DEF Init, NoRefund
<1> QED BY <1>1, <1>2 DEF Sound, Paying, Armed

\* As long as no process dies, no write is rejected and every answer arrives in
\* time, a refund that the document calls COMPLETED was made, in full: no claim
\* is replaced under the process that pays, and no payment is recorded early.
THEOREM RecordIsTrue == Spec => []RecordNotAhead
<1>1. LiveInv => TypeOK
  BY DEF LiveInv
<1>2. Solo => RecordNotAhead
  BY DEF Solo, Sound, RecordNotAhead
<1>3. Init => LiveInv /\ Solo
  BY LiveInit, SoloInit
<1>4. LiveInv /\ Solo /\ [Next]_vars => LiveInv' /\ Solo'
  BY <1>1, LiveNext, SoloNext
<1> QED BY <1>2, <1>3, <1>4, PTL DEF Spec

-----------------------------------------------------------------------------
(* A booking that is over has its refund on record.                        *)

\* A process that found the booking over, and has not claimed its refund yet.
Owing == {"zero", "noInstrument", "unclear", "claim"}

\* A claim has its payer, a refund that was begun stays begun, and the status
\* says that the booking is over only once a refund was begun, or will be.
Tended ==
    /\ refund.status = "PROCESSING" => \E p \in Procs : Paying(p)
    /\ \A p \in Procs : pc[p] \in Giving \union {"close"} => refund.status # "NONE"
    /\ status \in TERMINAL_STATUSES => refund.status # "NONE" \/ \E p \in Procs : pc[p] \in Owing
    /\ \A p \in Procs : pc[p] = "pollSet" => loc[p].target \notin TERMINAL_STATUSES

\* Where the caller of a refund goes on, or a sweep.
Resting == {"escalate", "retry", "idle", "synced"}

Goes(p, Where) == \E l : \E place \in Where : Go(p, l, place)

LEMMA LeaveGoes == ASSUME NEW p \in Procs, Leave(p) PROVE Goes(p, Resting)
BY DEF Leave, Goes, Resting

LEMMA ReturnGoes == ASSUME NEW p \in Procs, NEW seen, Return(p, seen) PROVE Goes(p, Resting)
BY DEF Return, Goes, Resting

LEMMA EndRefundGoes == ASSUME NEW p \in Procs, EndRefund(p) PROVE Goes(p, Resting)
BY LeaveGoes, ReturnGoes DEF EndRefund

LEMMA ExecuteGoes == ASSUME NEW p \in Procs, NEW l, Execute(p, l) PROVE Goes(p, Owing)
<1> DEFINE place == IF l.amount = 0 THEN "zero"
                    ELSE IF order.payable THEN "claim" ELSE "noInstrument"
<1>1. place \in Owing /\ Go(p, l, place)
  BY DEF Owing, Execute
<1> QED BY <1>1 DEF Goes

LEMMA RefundGoes == ASSUME NEW p \in Procs, NEW l, refundFailedBooking(p, l) PROVE Goes(p, Owing)
BY ExecuteGoes DEF refundFailedBooking

LEMMA SettleGoes ==
    ASSUME NEW p \in Procs, NEW l, NEW c, settleCancellation(p, l, c) PROVE Goes(p, Owing)
<1>1. CASE c \in 0..Price
  BY <1>1, ExecuteGoes DEF settleCancellation
<1>2. CASE c \notin 0..Price
  BY <1>2 DEF settleCancellation, Goes, Owing
<1> QED BY <1>1, <1>2

\* Whoever writes that the booking is over goes on to its refund.
LEMMA ResolveGoes ==
    ASSUME NEW p \in Procs, NEW target, Resolve(p, target)
    PROVE  Goes(p, IF target \in TERMINAL_STATUSES THEN Owing ELSE Resting)
BY RefundGoes, SettleGoes, ReturnGoes DEF Resolve, TERMINAL_STATUSES

\* A step of another job than a refund: it leaves the refund alone, and closes
\* the booking only on its way to it.
Errand(p) ==
    /\ refund' = refund /\ losses' = losses
    /\ pc[p] \notin Giving \union Owing
    /\ \E l, place :
         /\ Go(p, l, place) /\ place \notin Giving \union {"close"}
         /\ place = "pollSet" => l.target \notin TERMINAL_STATUSES
         /\ status' \in TERMINAL_STATUSES => status \in TERMINAL_STATUSES \/ place \in Owing

LEMMA ErrandGoes ==
    ASSUME NEW p \in Procs, refund' = refund, losses' = losses, pc[p] \notin Giving \union Owing,
           \/ Goes(p, Owing)
           \/ /\ Goes(p, Resting) \/ \E l, place : Go(p, l, place)
                    /\ place \notin Giving \union Owing \union {"close", "pollSet"}
              /\ status' \in TERMINAL_STATUSES => status \in TERMINAL_STATUSES
    PROVE  Errand(p)
<1>1. \A place \in Owing : place \notin Giving \union {"close", "pollSet"}
  BY DEF Owing, Giving
<1>2. \A place \in Resting : place \notin Giving \union {"close", "pollSet"}
  BY DEF Resting, Giving
<1> QED BY <1>1, <1>2 DEF Goes, Errand

LEMMA AllErrands ==
    ASSUME Tended, NEW p \in Procs, Sync(p) \/ Sweep(p) \/ Poll(p) \/ Cancel(p) \/ Desk(p)
    PROVE  Errand(p)
<1> DEFINE Far == {"ask", "set", "escalate", "retry", "park", "pollNote", "pollPark",
                   "cancelNote", "cancelPoll", "cancelAgain", "cancelRead",
                   "confirmCall", "confirmSave", "idle", "pollAsk", "pollSet", "synced"}
<1>1. \A place \in Far : place \notin Giving \union Owing \union {"close"}
  BY DEF Giving, Owing
<1>2. ASSUME NEW s, transitionStatus(s)
      PROVE  refund' = refund /\ (s \notin TERMINAL_STATUSES /\ status' \in TERMINAL_STATUSES
                                    => status \in TERMINAL_STATUSES)
  BY <1>2 DEF transitionStatus, document, Write
<1>3. {"MANUAL_REVIEW", "CANCELLATION_PENDING", "CONFIRMED", "HELD", "none"}
        \intersect TERMINAL_STATUSES = {}
  BY DEF TERMINAL_STATUSES
<1>4. CASE StartSync(p) \/ Ask(p) \/ AskFails(p)
  BY <1>1, <1>4, ReturnGoes, ErrandGoes DEF StartSync, Ask, AskFails, document, Elsewhere
<1>5. CASE Set(p)
  <2>1. refund' = refund /\ losses' = losses /\ pc[p] \notin Giving \union Owing
    BY <1>1, <1>5 DEF Set, Write, document, Elsewhere
  <2>2. CASE loc[p].target \in {loc[p].seen, status}
    BY <1>5, <2>1, <2>2, ReturnGoes, ErrandGoes DEF Set, Write, document
  <2>3. CASE loc[p].target \notin {loc[p].seen, status}
    BY <1>5, <2>1, <2>3, ResolveGoes, ErrandGoes DEF Set, Write
  <2> QED BY <2>2, <2>3
<1>6. CASE StartSweep(p) \/ resolveStuckBooking(p) \/ SweepEscalate(p) \/ Escalate(p)
  <2>1. /\ refund' = refund /\ losses' = losses /\ status' = status
        /\ pc[p] \notin Giving \union Owing
    BY <1>1, <1>6 DEF StartSweep, resolveStuckBooking, SweepEscalate, Escalate, document, Elsewhere
  <2>2. \/ Goes(p, Owing) \/ Goes(p, Resting)
        \/ \E l : Go(p, l, "ask") \/ Go(p, l, "escalate") \/ Go(p, l, "retry") \/ Go(p, l, "park")
    BY <1>6, LeaveGoes, RefundGoes DEF StartSweep, resolveStuckBooking, SweepEscalate, Escalate
  <2> QED BY <1>1, <2>1, <2>2, ErrandGoes
<1>7. CASE Park(p)
  BY <1>1, <1>2, <1>3, <1>7, LeaveGoes, ErrandGoes DEF Park, Elsewhere
<1>8. CASE SweepRetry(p)
  BY <1>1, <1>8, LeaveGoes, RefundGoes, ExecuteGoes, ErrandGoes DEF SweepRetry, document, Elsewhere
<1>9. CASE pollAsk(p)
  <2>1. /\ refund' = refund /\ losses' = losses /\ status' = status
        /\ pc[p] \notin Giving \union Owing
    BY <1>1, <1>9 DEF pollAsk, document, Elsewhere
  <2>2. CASE stay \in {"held", "confirmed"} /\ Go(p, [loc[p] EXCEPT !.target = Report], "pollSet")
    <3> DEFINE l == [loc[p] EXCEPT !.target = Report]
    <3>1. Report \in {"HELD", "CONFIRMED"}
      BY <2>2 DEF Report
    <3>2. l.target \notin TERMINAL_STATUSES
      BY <3>1, <1>3 DEF TERMINAL_STATUSES
    <3> QED BY <1>1, <2>1, <2>2, <3>2 DEF Errand
  <2>3. CASE Leave(p) \/ \E l : Go(p, l, "pollNote") \/ Go(p, l, "pollPark")
    BY <1>1, <2>1, <2>3, LeaveGoes, ErrandGoes
  <2> QED BY <1>9, <2>2, <2>3 DEF pollAsk
<1>10. CASE pollSet(p)
  BY <1>1, <1>2, <1>10, LeaveGoes, ErrandGoes DEF pollSet, Tended, Elsewhere
<1>11. CASE pollNote(p) \/ pollPark(p)
  BY <1>1, <1>3, <1>11, LeaveGoes, RefundGoes, ErrandGoes
     DEF pollNote, pollPark, Write, document, Elsewhere
<1>12. CASE StartCancel(p) \/ cancelPoll(p) \/ cancelAgain(p)
  <2>1. /\ refund' = refund /\ losses' = losses
        /\ status' \in TERMINAL_STATUSES => status \in TERMINAL_STATUSES
        /\ pc[p] \notin Giving \union Owing
    BY <1>1, <1>3, <1>12 DEF StartCancel, cancelPoll, cancelAgain, Write, document, Elsewhere
  <2>2. \/ Goes(p, Resting)
        \/ \E l : \/ Go(p, l, "cancelNote") \/ Go(p, l, "cancelRead")
                  \/ Go(p, l, "cancelAgain") \/ Go(p, l, "cancelPoll")
    BY <1>12, LeaveGoes DEF StartCancel, cancelPoll, cancelAgain
  <2> QED BY <1>1, <2>1, <2>2, ErrandGoes
<1>13. CASE cancelNote(p) \/ cancelRead(p)
  BY <1>1, <1>3, <1>13, SettleGoes, ErrandGoes DEF cancelNote, cancelRead, Write, Elsewhere
<1>14. CASE StartConfirm(p) \/ ConfirmHold(p) \/ ConfirmSave(p)
  <2>1. /\ refund' = refund /\ losses' = losses
        /\ status' \in TERMINAL_STATUSES => status \in TERMINAL_STATUSES
        /\ pc[p] \notin Giving \union Owing
    BY <1>1, <1>3, <1>14 DEF StartConfirm, ConfirmHold, ConfirmSave, Write, document, Elsewhere
  <2>2. Goes(p, Resting) \/ \E l : Go(p, l, "confirmCall") \/ Go(p, l, "confirmSave")
    BY <1>14, LeaveGoes DEF StartConfirm, ConfirmHold, ConfirmSave
  <2> QED BY <1>1, <2>1, <2>2, ErrandGoes
<1>15. CASE ManualRefund(p)
  BY <1>1, <1>15, SettleGoes, ErrandGoes DEF ManualRefund, document
<1> QED BY <1>4, <1>5, <1>6, <1>7, <1>8, <1>9, <1>10, <1>11, <1>12, <1>13, <1>14, <1>15
        DEF Sync, Sweep, Poll, Cancel, Desk

LEMMA ErrandTended ==
    ASSUME TypeOK, Tended, NEW p \in Procs, Errand(p) PROVE Tended'
<1>1. PICK l, place :
        /\ Go(p, l, place) /\ place \notin Giving \union {"close"}
        /\ place = "pollSet" => l.target \notin TERMINAL_STATUSES
        /\ status' \in TERMINAL_STATUSES => status \in TERMINAL_STATUSES \/ place \in Owing
  BY DEF Errand
<1>2. /\ pc'[p] = place /\ loc'[p] = l
      /\ \A q \in Procs : q # p => pc'[q] = pc[q] /\ loc'[q] = loc[q]
  BY <1>1 DEF Go, TypeOK
<1>3. refund' = refund /\ pc[p] \notin Giving \union Owing
  BY DEF Errand
<1>4. (\E q \in Procs : Paying(q)) => (\E q \in Procs : Paying(q))'
  BY <1>2, <1>3 DEF Paying, Giving
<1>5. (\E q \in Procs : pc[q] \in Owing) => \E q \in Procs : pc'[q] \in Owing
  BY <1>2, <1>3
<1> QED BY <1>1, <1>2, <1>3, <1>4, <1>5 DEF Tended

\* A step of RefundService, while nothing is lost.
LEMMA RefundTended ==
    ASSUME TypeOK, Tended, NEW p \in Procs, Refund(p), losses' = losses PROVE Tended'
<1> DEFINE l == loc[p]
<1>1. /\ pc \in [Procs -> Places] /\ loc \in [Procs -> Locals]
      /\ losses \in Nat /\ refund \in Refunds
  BY BoundsAssumption DEF TypeOK
<1>2. ASSUME Goes(p, Resting)
      PROVE  /\ pc'[p] \in Resting
             /\ \A q \in Procs : q # p => pc'[q] = pc[q] /\ loc'[q] = loc[q]
  BY <1>1, <1>2 DEF Goes, Go
<1>3. Resting \intersect (Giving \union {"close", "pollSet"}) = {}
  BY DEF Resting, Giving
<1>4. ASSUME NEW place, Go(p, l, place)
      PROVE  /\ pc'[p] = place
             /\ \A q \in Procs : q # p => pc'[q] = pc[q] /\ loc'[q] = loc[q]
  BY <1>1, <1>4 DEF Go
<1>5. ASSUME refund'.status \notin {"NONE", "PROCESSING"},
             \A q \in Procs : q # p => pc'[q] = pc[q] /\ loc'[q] = loc[q],
             pc'[p] # "pollSet"
      PROVE  Tended'
  BY <1>5 DEF Tended
<1>6. CASE claim(p)
  <2>1. CASE Claimable
    <3>1. Go(p, l, "pay") /\ refund'.status = "PROCESSING"
      BY <1>6, <2>1 DEF claim, Write
    <3>2. (\E q \in Procs : Paying(q))'
      BY <1>4, <3>1 DEF Paying
    <3> QED BY <1>4, <3>1, <3>2 DEF Tended
  <2>2. CASE ~Claimable
    <3>1. /\ refund' = refund /\ status' = status /\ Goes(p, Resting)
          /\ refund.status # "NONE" /\ pc[p] = "claim"
      BY <1>6, <2>2, EndRefundGoes DEF claim, Claimable, document
    <3>2. (\E q \in Procs : Paying(q)) => (\E q \in Procs : Paying(q))'
      BY <1>2, <3>1 DEF Paying
    <3> QED BY <1>2, <1>3, <3>1, <3>2 DEF Tended
  <2> QED BY <2>1, <2>2
<1>7. CASE Pay(p) \/ PayFails(p)
  <2>1. /\ Go(p, l, "record") \/ Go(p, l, "fail")
        /\ refund' = refund /\ status' = status /\ pc[p] = "pay"
    BY <1>7 DEF Pay, PayFails, document
  <2>2. refund.status # "NONE"
    BY <2>1 DEF Tended, Giving
  <2>3. (\E q \in Procs : Paying(q))'
    BY <1>4, <2>1 DEF Paying
  <2> QED BY <1>4, <2>1, <2>2, <2>3 DEF Tended
<1>8. CASE PayUnheard(p)
  BY <1>1, <1>8 DEF PayUnheard, Lose
<1>9. CASE record(p)
  <2>1. Go(p, l, "close") /\ refund'.status = "COMPLETED"
    BY <1>1, <1>9 DEF record, Write, Ended, Refunds
  <2> QED BY <1>4, <1>5, <2>1
<1>10. CASE fail(p)
  <2>1. Goes(p, Resting) /\ refund'.status = "FAILED"
    BY <1>1, <1>10, EndRefundGoes DEF fail, FailedWrite, Write, Ended, Refunds
  <2> QED BY <1>2, <1>3, <1>5, <2>1
<1>11. CASE close(p)
  <2>1. Goes(p, Resting) /\ refund' = refund /\ pc[p] = "close"
    BY <1>11, EndRefundGoes DEF close, transitionStatus, Write, document
  <2>2. refund.status # "NONE"
    BY <2>1 DEF Tended
  <2>3. (\E q \in Procs : Paying(q)) => (\E q \in Procs : Paying(q))'
    BY <1>2, <2>1 DEF Paying
  <2> QED BY <1>2, <1>3, <2>1, <2>2, <2>3 DEF Tended
<1>12. CASE recordZeroRefund(p) \/ markNoInstrument(p)
  <2>1. Goes(p, Resting) /\ refund'.status \in {"COMPLETED", "NOT_APPLICABLE"}
    BY <1>12, EndRefundGoes DEF recordZeroRefund, markNoInstrument, Replace, Write, document
  <2> QED BY <1>2, <1>3, <1>5, <2>1
<1>13. CASE ParkUnclear(p)
  <2>1. /\ Goes(p, Resting) /\ refund' = refund /\ status' \notin TERMINAL_STATUSES
        /\ pc[p] = "unclear"
    BY <1>13, EndRefundGoes DEF ParkUnclear, Write, TERMINAL_STATUSES
  <2>2. (\E q \in Procs : Paying(q)) => (\E q \in Procs : Paying(q))'
    BY <1>2, <2>1 DEF Paying
  <2> QED BY <1>2, <1>3, <2>1, <2>2 DEF Tended
<1> QED BY <1>6, <1>7, <1>8, <1>9, <1>10, <1>11, <1>12, <1>13 DEF Refund

Kept == losses = 0 => Tended

LEMMA KeptNext == TypeOK /\ Kept /\ [Next]_vars => Kept'
<1> SUFFICES ASSUME TypeOK, losses = 0 => Tended, [Next]_vars, losses' = 0 PROVE Tended'
  BY DEF Kept
<1>1. losses \in Nat
  BY BoundsAssumption DEF TypeOK
<1>2. ASSUME NEW p \in Procs, Refund(p) PROVE Tended'
  <2>1. losses' = losses
    BY <1>1, <1>2
       DEF Refund, claim, Pay, PayFails, PayUnheard, record, fail, close, recordZeroRefund,
           markNoInstrument, ParkUnclear, Replace, Elsewhere, Lose
  <2> QED BY <1>2, <2>1, RefundTended
<1>3. ASSUME NEW p \in Procs, Sync(p) \/ Sweep(p) \/ Poll(p) \/ Cancel(p) \/ Desk(p) PROVE Tended'
  <2>1. losses' = losses
    BY <1>3, AllAside DEF Aside
  <2> QED BY <1>3, <2>1, AllErrands, ErrandTended
<1>4. ASSUME NEW p \in Procs, Rejected(p) PROVE FALSE
  BY <1>1, <1>4 DEF Rejected, Lose
<1>5. ~Crash
  BY <1>1 DEF Crash, Lose
<1>6. ~Overrun
  <2> SUFFICES ASSUME Overrun PROVE FALSE
    OBVIOUS
  <2>1. ~\E p \in Procs : Paying(p)
    BY <1>1 DEF Overrun, Lose
  <2>2. losses = 0 /\ refund.status = "PROCESSING"
    BY <2>1 DEF Overrun
  <2> QED BY <2>1, <2>2 DEF Tended
<1>7. CASE World \/ UNCHANGED vars
  <2>1. /\ pc' = pc /\ loc' = loc /\ refund' = refund /\ losses' = losses
        /\ status' \in TERMINAL_STATUSES => status \in TERMINAL_STATUSES
    BY <1>1, <1>7 DEF World, EscalateStale, SupplierDecides, Grow, Quieten, CancelUnheard, Write,
                      Lose, vars, document, proc, Elsewhere, TERMINAL_STATUSES
  <2> QED BY <2>1 DEF Tended, Paying
<1> QED BY <1>2, <1>3, <1>4, <1>5, <1>6, <1>7 DEF Next, World

LEMMA KeptInit == Init => Kept
<1> SUFFICES ASSUME Init PROVE Tended
  BY DEF Kept
<1>1. \A p \in Procs : pc[p] \in {"pollAsk", "idle"}
  BY DEF Init
<1>2. refund.status = "NONE" /\ status \notin TERMINAL_STATUSES
  BY DEF Init, NoRefund, Saved, TERMINAL_STATUSES
<1> QED BY <1>1, <1>2 DEF Tended, Giving

\* As long as nothing is lost, a document that is FAILED or CANCELLED when all
\* jobs have ended has its refund COMPLETED, FAILED (and so found by the worker) or
\* NOT_APPLICABLE: no job closes the booking and leaves its refund to another that
\* is not there, and no claim is left under way.
THEOREM ClosedAndRefunded == Spec => []ClosedIsRefunded
<1>1. LiveInv => TypeOK
  BY DEF LiveInv
<1>2. LiveInv /\ Kept => ClosedIsRefunded
  BY DEF LiveInv, TypeOK, Refunds, Kept, Tended, Paying, Owing, ClosedIsRefunded
<1>3. Init => LiveInv /\ Kept
  BY LiveInit, KeptInit
<1>4. LiveInv /\ Kept /\ [Next]_vars => LiveInv' /\ Kept'
  BY <1>1, LiveNext, KeptNext
<1> QED BY <1>2, <1>3, <1>4, PTL DEF Spec

=============================================================================
