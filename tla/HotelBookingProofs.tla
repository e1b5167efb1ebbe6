-------------------------- MODULE HotelBookingProofs --------------------------
(***************************************************************************)
(* Proofs about HotelBooking, for every set of requests, keys and deals,   *)
(* every price and penalty, and every number of crashes and redeploys.     *)
(***************************************************************************)
EXTENDS HotelBooking, TLAPS

-----------------------------------------------------------------------------
(* The stores' operations keep the types.                                  *)

\* A conditional UPDATE to a status keeps the table's type.
LEMMA AdvanceType ==
    ASSUME status \in [Commits -> Statuses],
           NEW b, NEW to \in Statuses, NEW expect, advance(b, to, expect)
    PROVE  status' \in [Commits -> Statuses]
BY DEF advance

\* A process moves to a label.
LEMMA GotoType ==
    ASSUME pc \in [Procs -> Labels], NEW p, NEW label \in Labels, Goto(p, label)
    PROVE  pc' \in [Procs -> Labels]
BY DEF Goto

\* The record of a process that starts, or rests.
LEMMA FreshType ==
    ASSUME NEW b \in Commits \union {NoBooking}
    PROVE  Fresh(b) \in Locals
BY DEF Fresh, Locals, Statuses, RefundStatuses, Answers, RefundKinds

\* A process that finishes keeps the types of pc and loc.
LEMMA FinishType ==
    ASSUME pc \in [Procs -> Labels], loc \in [Procs -> Locals],
           NEW p \in Procs, Finish(p)
    PROVE  pc' \in [Procs -> Labels] /\ loc' \in [Procs -> Locals]
<1>1. CASE p \in Commits
  BY <1>1, GotoType DEF Finish, Labels, AtRest
<1>2. CASE p \notin Commits
  BY <1>2, GotoType, FreshType DEF Finish, Labels, AtRest
<1> QED BY <1>1, <1>2

\* So does a commit that answers.
LEMMA ReplyType ==
    ASSUME TypeOK, NEW c \in Commits, NEW kind \in Outcomes, Reply(c, kind)
    PROVE  /\ pc' \in [Procs -> Labels]
           /\ loc' \in [Procs -> Locals]
           /\ outcome' \in [Commits -> Outcomes]
BY FinishType DEF Reply, TypeOK, Procs

\* Every way a step writes a process's record keeps it one.
LEMMA LocalType ==
    ASSUME loc \in [Procs -> Locals], NEW p \in Procs
    PROVE  /\ \A b \in Commits, w \in Statuses :
                loc' = [loc EXCEPT ![p].booking = b, ![p].was = w] => loc' \in [Procs -> Locals]
           /\ \A b \in Commits, s \in RefundStatuses :
                loc' = [loc EXCEPT ![p].booking = b, ![p].seen = s] => loc' \in [Procs -> Locals]
           /\ \A s \in RefundStatuses :
                loc' = [loc EXCEPT ![p].seen = s] => loc' \in [Procs -> Locals]
           /\ \A a \in Answers :
                loc' = [loc EXCEPT ![p].answer = a] => loc' \in [Procs -> Locals]
           /\ \A a \in Answers, f \in BOOLEAN :
                loc' = [loc EXCEPT ![p].answer = a, ![p].ref = f] => loc' \in [Procs -> Locals]
           /\ \A a \in Answers, n \in Nat :
                loc' = [loc EXCEPT ![p].answer = a, ![p].amount = n] => loc' \in [Procs -> Locals]
           /\ \A n \in Nat, k \in RefundKinds :
                loc' = [loc EXCEPT ![p].amount = n, ![p].kind = k] => loc' \in [Procs -> Locals]
BY DEF Locals

\* And a process that goes on to refund, or finishes.
LEMMA RefundingType ==
    ASSUME TypeOK, NEW p \in Procs, NEW amount \in Nat, NEW kind \in RefundKinds,
           NEW seen, Refunding(p, amount, kind, seen)
    PROVE  pc' \in [Procs -> Labels] /\ loc' \in [Procs -> Locals]
<1>1. pc \in [Procs -> Labels] /\ loc \in [Procs -> Locals]
  BY DEF TypeOK
<1>2. CASE Finish(p)
  BY <1>1, <1>2, FinishType
<1>3. CASE /\ Goto(p, "claim")
           /\ loc' = [loc EXCEPT ![p].amount = amount, ![p].kind = kind]
  <2>1. pc' \in [Procs -> Labels]
    BY <1>1, <1>3, GotoType DEF Labels, RefundLabels
  <2>2. loc' \in [Procs -> Locals]
    BY <1>1, <1>3, LocalType
  <2> QED BY <2>1, <2>2
<1> QED BY <1>2, <1>3 DEF Refunding

\* What is left of the charge after any penalty is between zero and the charge.
LEMMA PenaltyRefundType ==
    ASSUME NEW fee \in Nat
    PROVE  refundAfterCancellation(fee) \in Nat /\ refundAfterCancellation(fee) <= Price
BY PriceAssumption DEF refundAfterCancellation

-----------------------------------------------------------------------------
(* Type correctness.                                                       *)

\* A commit works on the booking named after it, and a poller or canceller
\* that is not at rest works on some booking.  TypeOK alone is not inductive:
\* what a canceller reads of its booking has a type only if it has a booking.
AtWork ==
    /\ \A c \in Commits : loc[c].booking = c
    /\ \A p \in Procs : pc[p] \notin AtRest => loc[p].booking \in Commits

\* The initial state is of the type.
LEMMA TypeInit == Init => TypeOK
<1> SUFFICES ASSUME Init PROVE TypeOK
  OBVIOUS
<1>1. \A p \in Procs : Fresh(IF p \in Commits THEN p ELSE NoBooking) \in Locals
  BY FreshType
<1>2. loc \in [Procs -> Locals]
  BY <1>1 DEF Init
<1>3. pc \in [Procs -> Labels]
  BY DEF Init, Labels, CommitLabels, AtRest
<1>4. refund \in [Commits -> [status : RefundStatuses, kind : RefundKinds, amount : Nat]]
  BY DEF Init, NoRefund, RefundStatuses, RefundKinds
<1>5. crashes \in 0..MaxCrashes /\ redeploys \in 0..MaxRedeploys
  BY BoundsAssumption DEF Init
<1> QED
  BY <1>2, <1>3, <1>4, <1>5 DEF Init, TypeOK, Statuses, Stays, Outcomes

\* Every step of commit() keeps the types.
LEMMA TypeCommit ==
    ASSUME TypeOK, AtWork, NEW c \in Commits, CommitStep(c)
    PROVE  TypeOK'
<1> USE DEF TypeOK, Procs, table, world, deploy
<1>1. CASE Replay(c)
  BY <1>1, ReplyType, GotoType DEF Replay, Labels, CommitLabels, Outcomes
<1>2. CASE Resolve(c)
  BY <1>2, ReplyType, GotoType DEF Resolve, Labels, CommitLabels, Outcomes
<1>3. CASE Precheck(c)
  BY <1>3, ReplyType, GotoType DEF Precheck, Labels, CommitLabels, Outcomes
<1>4. CASE ResealRead(c)
  BY <1>4, GotoType DEF ResealRead, Labels, CommitLabels
<1>5. CASE ResealWrite(c)
  BY <1>5, GotoType DEF ResealWrite, Labels, CommitLabels, DealOf
<1>6. CASE Decide(c)
  BY <1>6, ReplyType, GotoType DEF Decide, Labels, CommitLabels, Outcomes
<1>7. CASE ReadQuote(c)
  BY <1>7, ReplyType, GotoType DEF ReadQuote, Labels, CommitLabels, Outcomes
<1>8. CASE Create(c)
  BY <1>8, ReplyType, GotoType DEF Create, Labels, CommitLabels, Outcomes, Statuses
<1>9. CASE Charge(c)
  <2>1. pc' \in [Procs -> Labels]
    BY <1>9, GotoType DEF Charge, Labels, CommitLabels
  <2>2. captured' \in [Commits -> Nat]
    BY <1>9, PriceAssumption DEF Charge
  <2> QED BY <1>9, <2>1, <2>2 DEF Charge
<1>10. CASE Decline(c)
  BY <1>10, AdvanceType, ReplyType DEF Decline, Outcomes, Statuses
<1>11. CASE Hold(c)
  BY <1>11, AdvanceType, GotoType DEF Hold, Labels, CommitLabels, Statuses
<1>12. CASE Consume(c)
  BY <1>12, GotoType DEF Consume, Labels, CommitLabels, DealOf, deleted
<1>13. CASE LoseDeal(c)
  BY <1>13, AdvanceType, RefundingType, PriceAssumption
     DEF LoseDeal, Outcomes, Statuses, RefundKinds
<1>14. CASE Book(c)
  <2>1. pc' \in [Procs -> Labels]
    BY <1>14, GotoType DEF Book, Labels, CommitLabels
  <2>2. loc' \in [Procs -> Locals]
    BY <1>14, LocalType DEF Book, Answers
  <2>3. stay' \in [Commits -> Stays]
    BY <1>14 DEF Book, Stays
  <2> QED BY <1>14, <2>1, <2>2, <2>3 DEF Book
<1>15. CASE Answer(c)
  <2>1. pc' \in [Procs -> Labels]
    BY <1>15, GotoType DEF Answer, Labels, CommitLabels
  <2>2. loc' \in [Procs -> Locals]
    BY <1>15, LocalType DEF Answer
  <2> QED BY <1>15, <2>1, <2>2 DEF Answer
<1>16. CASE SettleBooked(c)
  <2>1. status' \in [Commits -> Statuses]
    <3>1. loc[c].answer \in Statuses
      BY <1>16 DEF SettleBooked, Statuses
    <3>2. advance(c, loc[c].answer, Open)
      BY <1>16 DEF SettleBooked
    <3> QED BY <3>1, <3>2, AdvanceType
  <2>2. /\ pc' \in [Procs -> Labels]
        /\ loc' \in [Procs -> Locals]
        /\ outcome' \in [Commits -> Outcomes]
    BY <1>16, ReplyType DEF SettleBooked, Outcomes
  <2> QED BY <1>16, <2>1, <2>2 DEF SettleBooked
<1>17. CASE SettlePending(c)
  BY <1>17, AdvanceType, ReplyType DEF SettlePending, Outcomes, Statuses
<1>18. CASE SettleRefused(c)
  BY <1>18, AdvanceType, RefundingType, PriceAssumption
     DEF SettleRefused, Outcomes, Statuses, RefundKinds
<1> QED
  BY <1>1, <1>2, <1>3, <1>4, <1>5, <1>6, <1>7, <1>8, <1>9,
     <1>10, <1>11, <1>12, <1>13, <1>14, <1>15, <1>16, <1>17, <1>18
     DEF CommitStep

\* Every step of confirm() keeps the types.
LEMMA TypePoll ==
    ASSUME TypeOK, AtWork, NEW p \in Pollers, PollStep(p)
    PROVE  TypeOK'
<1> USE DEF TypeOK, Procs, table, world, deploy
<1>1. CASE \E b \in Commits : StartPoll(p, b)
  <2>1. PICK b \in Commits : StartPoll(p, b)
    BY <1>1
  <2>2. pc' \in [Procs -> Labels]
    BY <2>1, GotoType DEF StartPoll, Labels, PollLabels
  <2>3. loc' \in [Procs -> Locals]
    <3>1. refund[b].status \in RefundStatuses
      OBVIOUS
    <3>2. loc' = [loc EXCEPT ![p].booking = b, ![p].seen = refund[b].status]
      BY <2>1 DEF StartPoll
    <3> QED BY <3>1, <3>2, LocalType
  <2>4. UNCHANGED <<table, token, world, request, outcome, deploy, revived>>
    BY <2>1 DEF StartPoll
  <2> QED BY <2>2, <2>3, <2>4
<1>2. CASE PollReview(p)
  BY <1>2, AdvanceType, FinishType DEF PollReview, Statuses
<1>3. CASE AskInVain(p)
  BY <1>3, FinishType DEF AskInVain
<1>4. CASE Ask(p)
  <2>1. pc' \in [Procs -> Labels]
    BY <1>4, GotoType DEF Ask, Labels, PollLabels
  <2>2. loc' \in [Procs -> Locals]
    <3>1. \A s \in DOMAIN PollAnswer : PollAnswer[s] \in Answers
      BY DEF PollAnswer, Answers
    <3>2. \E a \in Answers : loc' = [loc EXCEPT ![p].answer = a]
      BY <1>4, <3>1 DEF Ask
    <3> QED BY <3>2, LocalType
  <2> QED BY <1>4, <2>1, <2>2 DEF Ask
<1>5. CASE PollSettleBooked(p)
  <2> DEFINE b == loc[p].booking
  <2>1. b \in Commits
    BY <1>5 DEF PollSettleBooked, AtWork, AtRest
  <2>2. status' \in [Commits -> Statuses]
    <3>1. loc[p].answer \in Statuses
      BY <1>5 DEF PollSettleBooked, Statuses
    <3>2. advance(b, loc[p].answer, {"SUPPLIER_PENDING"})
      BY <1>5 DEF PollSettleBooked
    <3> QED BY <3>1, <3>2, AdvanceType
  <2>3. pc' \in [Procs -> Labels] /\ loc' \in [Procs -> Locals]
    BY <1>5, FinishType DEF PollSettleBooked
  <2> QED BY <1>5, <2>2, <2>3 DEF PollSettleBooked
<1>6. CASE PollSettleFailed(p)
  BY <1>6, AdvanceType, RefundingType, PriceAssumption
     DEF PollSettleFailed, Statuses, RefundKinds
<1> QED
  BY <1>1, <1>2, <1>3, <1>4, <1>5, <1>6 DEF PollStep

\* Every step of cancel() keeps the types.
LEMMA TypeCancel ==
    ASSUME TypeOK, AtWork, NEW x \in Cancellers, CancelStep(x)
    PROVE  TypeOK'
<1> USE DEF TypeOK, Procs, table, world, deploy
<1>1. CASE \E b \in Commits : StartCancel(x, b)
  <2>1. PICK b \in Commits : StartCancel(x, b)
    BY <1>1
  <2>2. pc' \in [Procs -> Labels]
    BY <2>1, GotoType DEF StartCancel, Labels, CancelLabels
  <2>3. loc' \in [Procs -> Locals]
    <3>1. status[b] \in Statuses
      OBVIOUS
    <3>2. loc' = [loc EXCEPT ![x].booking = b, ![x].was = status[b]]
      BY <2>1 DEF StartCancel
    <3> QED BY <3>1, <3>2, LocalType
  <2>4. UNCHANGED <<table, token, world, request, outcome, deploy, revived>>
    BY <2>1 DEF StartCancel
  <2> QED BY <2>2, <2>3, <2>4
<1>2. CASE WithdrawReview(x)
  BY <1>2, AdvanceType, FinishType DEF WithdrawReview, Statuses
<1>3. CASE Withdraw(x)
  <2> DEFINE b == loc[x].booking
  <2>1. b \in Commits
    BY <1>3 DEF Withdraw, AtWork, AtRest
  <2>2. status' \in [Commits -> Statuses]
    BY <1>3, AdvanceType DEF Withdraw, Statuses
  <2>3. pc' \in [Procs -> Labels] /\ loc' \in [Procs -> Locals]
    <3>1. CASE Finish(x)
      BY <3>1, FinishType
    <3>2. CASE /\ loc' = [loc EXCEPT ![x].seen = refund[b].status]
               /\ Goto(x, "cancelAsk")
      <4>1. pc' \in [Procs -> Labels]
        BY <3>2, GotoType DEF Labels, CancelLabels
      <4>2. refund[b].status \in RefundStatuses
        BY <2>1
      <4> QED BY <3>2, <4>1, <4>2, LocalType
    <3>3. CASE /\ loc' = [loc EXCEPT ![x].answer = "REJECTED"]
               /\ Goto(x, "cancelSettle")
      BY <3>3, GotoType, LocalType DEF Labels, CancelLabels, Answers
    <3> QED BY <1>3, <3>1, <3>2, <3>3 DEF Withdraw
  <2> QED BY <1>3, <2>2, <2>3 DEF Withdraw
<1>4. CASE CancelAccept(x)
  <2>1. pc' \in [Procs -> Labels]
    BY <1>4, GotoType DEF CancelAccept, Labels, CancelLabels
  <2>2. loc' \in [Procs -> Locals]
    <3>1. CASE \E fee \in Penalties :
                  loc' = [loc EXCEPT ![x].answer = "CANCELLED", ![x].amount = fee]
      BY <3>1, LocalType, PenaltiesAssumption DEF Answers
    <3>2. CASE loc' = [loc EXCEPT ![x].answer = "CANCELLED_FX"]
      BY <3>2, LocalType DEF Answers
    <3> QED BY <1>4, <3>1, <3>2 DEF CancelAccept
  <2>3. stay' \in [Commits -> Stays]
    BY <1>4 DEF CancelAccept, Stays
  <2>4. penalty' \in [Commits -> Nat]
    <3>1. CASE \E fee \in Penalties : penalty' = [penalty EXCEPT ![loc[x].booking] = fee]
      BY <3>1, PenaltiesAssumption
    <3>2. CASE UNCHANGED penalty
      BY <3>2
    <3> QED BY <1>4, <3>1, <3>2 DEF CancelAccept
  <2> QED BY <1>4, <2>1, <2>2, <2>3, <2>4 DEF CancelAccept
<1>5. CASE CancelInVain(x)
  BY <1>5, FinishType DEF CancelInVain, Stays
<1>6. CASE CancelReject(x)
  BY <1>6, GotoType, LocalType DEF CancelReject, Labels, CancelLabels, Answers
<1>7. CASE Restore(x)
  BY <1>7, AdvanceType, FinishType DEF Restore, WhatItWas, Locals
<1>8. CASE CancelSettle(x)
  BY <1>8, AdvanceType, FinishType, RefundingType, PenaltyRefundType
     DEF CancelSettle, Statuses, RefundKinds, Locals
<1> QED
  BY <1>1, <1>2, <1>3, <1>4, <1>5, <1>6, <1>7, <1>8 DEF CancelStep

\* Every step of #refund, and a crash, keeps the types.
LEMMA TypeRefund ==
    ASSUME TypeOK, AtWork, NEW p \in Procs, RefundStep(p) \/ Crash(p)
    PROVE  TypeOK'
<1> USE DEF TypeOK, Procs, table, world, deploy
<1>1. CASE Claim(p)
  <2>1. loc[p].kind \in RefundKinds /\ loc[p].amount \in Nat
    BY DEF Locals
  <2>2. refund' \in [Commits -> [status : RefundStatuses, kind : RefundKinds, amount : Nat]]
    <3>1. CASE refund' = [refund EXCEPT ![loc[p].booking] =
                            [status |-> "PROCESSING", kind |-> loc[p].kind,
                             amount |-> loc[p].amount]]
      BY <2>1, <3>1 DEF RefundStatuses
    <3>2. CASE UNCHANGED refund
      BY <3>2
    <3> QED BY <1>1, <3>1, <3>2 DEF Claim
  <2>3. pc' \in [Procs -> Labels] /\ loc' \in [Procs -> Locals]
    BY <1>1, GotoType, FinishType DEF Claim, Labels, RefundLabels
  <2>4. UNCHANGED <<status, ref, payment, token, world, request, outcome, deploy, revived>>
    BY <1>1 DEF Claim
  <2> QED BY <2>2, <2>3, <2>4, SMTT(30)
<1>2. CASE Pay(p)
  <2>1. loc[p].amount \in Nat
    BY DEF Locals
  <2> QED BY <1>2, <2>1, GotoType DEF Pay, Labels, RefundLabels
<1>3. CASE SettleRefund(p)
  <2>1. loc[p].kind \in RefundKinds /\ loc[p].amount \in Nat
    BY DEF Locals
  <2>2. refund' \in [Commits -> [status : RefundStatuses, kind : RefundKinds, amount : Nat]]
    BY <1>3, <2>1 DEF SettleRefund, SettledAs, RefundStatuses
  <2> QED BY <1>3, <2>2, FinishType DEF SettleRefund
<1>4. CASE Crash(p)
  <2>1. pc' \in [Procs -> Labels] /\ loc' \in [Procs -> Locals]
    BY <1>4, GotoType, FinishType DEF Crash, Labels, AtRest
  <2>2. crashes' \in 0..MaxCrashes
    BY <1>4, BoundsAssumption DEF Crash
  <2> QED BY <1>4, <2>1, <2>2 DEF Crash
<1> QED BY <1>1, <1>2, <1>3, <1>4 DEF RefundStep

\* So do the supplier, the clock and a release.
LEMMA TypeEnvironment ==
    ASSUME TypeOK,
           \/ \E b \in Commits : SupplierDecides(b)
           \/ \E d \in Deals : Expire(d)
           \/ Redeploy
    PROVE  TypeOK'
<1> USE DEF TypeOK, table, world, deploy
<1>1. CASE \E b \in Commits : SupplierDecides(b)
  BY <1>1 DEF SupplierDecides, Stays
<1>2. CASE \E d \in Deals : Expire(d)
  BY <1>2 DEF Expire
<1>3. CASE Redeploy
  BY <1>3, BoundsAssumption DEF Redeploy
<1> QED BY <1>1, <1>2, <1>3

-----------------------------------------------------------------------------
(* A step moves its own process only, and keeps it on its booking.         *)

OthersStay(p) == \A q \in Procs \ {p} : pc'[q] = pc[q] /\ loc'[q] = loc[q]

\* Moving a process leaves the other processes where they are.
LEMMA GotoStays ==
    ASSUME TypeOK, NEW p \in Procs, NEW label, Goto(p, label)
    PROVE  pc'[p] = label /\ \A q \in Procs \ {p} : pc'[q] = pc[q]
BY DEF TypeOK, Goto

\* A write to a process's record in mid-flight leaves its booking, and the others, alone.
LEMMA LocalStays ==
    ASSUME TypeOK, NEW p \in Procs,
           \/ UNCHANGED loc
           \/ \E s : loc' = [loc EXCEPT ![p].seen = s]
           \/ \E a : loc' = [loc EXCEPT ![p].answer = a]
           \/ \E a, f : loc' = [loc EXCEPT ![p].answer = a, ![p].ref = f]
           \/ \E a, n : loc' = [loc EXCEPT ![p].answer = a, ![p].amount = n]
           \/ \E n, k : loc' = [loc EXCEPT ![p].amount = n, ![p].kind = k]
    PROVE  loc'[p].booking = loc[p].booking /\ \A q \in Procs \ {p} : loc'[q] = loc[q]
<1>1. loc \in [Procs -> Locals]
  BY DEF TypeOK
<1>2. CASE UNCHANGED loc
  BY <1>1, <1>2 DEF Locals
<1>3. CASE \E s : loc' = [loc EXCEPT ![p].seen = s]
  BY <1>1, <1>3 DEF Locals
<1>4. CASE \E a : loc' = [loc EXCEPT ![p].answer = a]
  BY <1>1, <1>4 DEF Locals
<1>5. CASE \E a, f : loc' = [loc EXCEPT ![p].answer = a, ![p].ref = f]
  BY <1>1, <1>5 DEF Locals
<1>6. CASE \E a, n : loc' = [loc EXCEPT ![p].answer = a, ![p].amount = n]
  BY <1>1, <1>6 DEF Locals
<1>7. CASE \E n, k : loc' = [loc EXCEPT ![p].amount = n, ![p].kind = k]
  BY <1>1, <1>7 DEF Locals
<1> QED BY <1>2, <1>3, <1>4, <1>5, <1>6, <1>7

\* The write that starts a process on a booking leaves the others alone.
LEMMA StartStays ==
    ASSUME TypeOK, NEW p \in Procs, NEW b,
           \/ \E s : loc' = [loc EXCEPT ![p].booking = b, ![p].seen = s]
           \/ \E w : loc' = [loc EXCEPT ![p].booking = b, ![p].was = w]
    PROVE  loc'[p].booking = b /\ \A q \in Procs \ {p} : loc'[q] = loc[q]
BY DEF TypeOK, Locals

\* A process that finishes is at rest, and leaves the others alone.
LEMMA FinishStays ==
    ASSUME TypeOK, NEW p \in Procs, Finish(p)
    PROVE  /\ OthersStay(p)
           /\ pc'[p] \in AtRest
           /\ p \in Commits => pc'[p] = "done" /\ loc' = loc
<1>1. CASE p \in Commits
  BY <1>1, GotoStays DEF Finish, OthersStay, AtRest
<1>2. CASE p \notin Commits
  BY <1>2, GotoStays DEF Finish, OthersStay, AtRest, TypeOK
<1> QED BY <1>1, <1>2

\* Whoever goes on to refund works on a booking with a payment.
LEMMA RefundingStays ==
    ASSUME TypeOK, NEW p \in Procs, NEW amount, NEW kind, NEW seen,
           Refunding(p, amount, kind, seen)
    PROVE  /\ OthersStay(p)
           /\ \/ pc'[p] \in AtRest /\ (p \in Commits => loc' = loc)
              \/ /\ pc'[p] = "claim" /\ loc'[p].booking = loc[p].booking
                 /\ payment[loc[p].booking] /\ loc'[p].amount = amount
<1>1. CASE Finish(p)
  BY <1>1, FinishStays
<1>2. CASE /\ payment[loc[p].booking]
           /\ Goto(p, "claim")
           /\ loc' = [loc EXCEPT ![p].amount = amount, ![p].kind = kind]
  <2>1. pc'[p] = "claim" /\ \A q \in Procs \ {p} : pc'[q] = pc[q]
    BY <1>2, GotoStays
  <2>2. loc'[p].booking = loc[p].booking /\ \A q \in Procs \ {p} : loc'[q] = loc[q]
    BY <1>2, LocalStays
  <2>3. loc'[p].amount = amount
    BY <1>2 DEF TypeOK, Locals
  <2> QED BY <1>2, <2>1, <2>2, <2>3 DEF OthersStay
<1> QED BY <1>1, <1>2 DEF Refunding

\* A commit stays on its own booking.
LEMMA CommitStays ==
    ASSUME TypeOK, AtWork, NEW c \in Commits, CommitStep(c)
    PROVE  OthersStay(c) /\ loc'[c].booking = c
<1> USE DEF AtWork, Procs, Reply, OthersStay
<1>1. CASE Replay(c)
  BY <1>1, GotoStays, FinishStays DEF Replay
<1>2. CASE Resolve(c)
  BY <1>2, GotoStays, FinishStays DEF Resolve
<1>3. CASE Precheck(c)
  BY <1>3, GotoStays, FinishStays DEF Precheck
<1>4. CASE ResealRead(c)
  BY <1>4, GotoStays DEF ResealRead
<1>5. CASE ResealWrite(c)
  BY <1>5, GotoStays DEF ResealWrite
<1>6. CASE Decide(c)
  BY <1>6, GotoStays, FinishStays DEF Decide
<1>7. CASE ReadQuote(c)
  BY <1>7, GotoStays, FinishStays DEF ReadQuote
<1>8. CASE Create(c)
  BY <1>8, GotoStays, FinishStays DEF Create
<1>9. CASE Charge(c)
  BY <1>9, GotoStays DEF Charge
<1>10. CASE Decline(c)
  BY <1>10, FinishStays DEF Decline
<1>11. CASE Hold(c)
  BY <1>11, GotoStays DEF Hold
<1>12. CASE Consume(c)
  BY <1>12, GotoStays DEF Consume
<1>13. CASE LoseDeal(c)
  BY <1>13, RefundingStays DEF LoseDeal
<1>14. CASE Book(c)
  BY <1>14, GotoStays, LocalStays DEF Book
<1>15. CASE Answer(c)
  <2>1. \E a, f : loc' = [loc EXCEPT ![c].answer = a, ![c].ref = f]
    BY <1>15 DEF Answer
  <2>2. Goto(c, "settle")
    BY <1>15 DEF Answer
  <2> QED BY <2>1, <2>2, GotoStays, LocalStays
<1>16. CASE SettleBooked(c)
  BY <1>16, FinishStays DEF SettleBooked
<1>17. CASE SettlePending(c)
  BY <1>17, FinishStays DEF SettlePending
<1>18. CASE SettleRefused(c)
  BY <1>18, RefundingStays DEF SettleRefused
<1> QED
  BY <1>1, <1>2, <1>3, <1>4, <1>5, <1>6, <1>7, <1>8, <1>9,
     <1>10, <1>11, <1>12, <1>13, <1>14, <1>15, <1>16, <1>17, <1>18
     DEF CommitStep

\* A poller is at rest or on a booking.
LEMMA PollStays ==
    ASSUME TypeOK, AtWork, NEW p \in Pollers, PollStep(p)
    PROVE  OthersStay(p) /\ (pc'[p] \in AtRest \/ loc'[p].booking \in Commits)
<1> USE DEF AtWork, Procs, OthersStay, AtRest
<1>1. CASE \E b \in Commits : StartPoll(p, b)
  <2>1. PICK b \in Commits : StartPoll(p, b)
    BY <1>1
  <2>2. loc'[p].booking = b /\ \A q \in Procs \ {p} : loc'[q] = loc[q]
    BY <2>1, StartStays DEF StartPoll
  <2>3. PICK label : Goto(p, label)
    BY <2>1 DEF StartPoll
  <2>4. \A q \in Procs \ {p} : pc'[q] = pc[q]
    BY <2>3, GotoStays
  <2> QED BY <2>2, <2>4
<1>2. CASE PollReview(p)
  BY <1>2, FinishStays DEF PollReview
<1>3. CASE AskInVain(p)
  BY <1>3, FinishStays DEF AskInVain
<1>4. CASE Ask(p)
  BY <1>4, GotoStays, LocalStays DEF Ask
<1>5. CASE PollSettleBooked(p)
  BY <1>5, FinishStays DEF PollSettleBooked
<1>6. CASE PollSettleFailed(p)
  BY <1>6, RefundingStays DEF PollSettleFailed
<1> QED
  BY <1>1, <1>2, <1>3, <1>4, <1>5, <1>6 DEF PollStep

\* So is a canceller.
LEMMA CancelStays ==
    ASSUME TypeOK, AtWork, NEW x \in Cancellers, CancelStep(x)
    PROVE  OthersStay(x) /\ (pc'[x] \in AtRest \/ loc'[x].booking \in Commits)
<1> USE DEF AtWork, Procs, OthersStay, AtRest
<1>1. CASE \E b \in Commits : StartCancel(x, b)
  <2>1. PICK b \in Commits : StartCancel(x, b)
    BY <1>1
  <2>2. loc'[x].booking = b /\ \A q \in Procs \ {x} : loc'[q] = loc[q]
    BY <2>1, StartStays DEF StartCancel
  <2>3. PICK label : Goto(x, label)
    BY <2>1 DEF StartCancel
  <2>4. \A q \in Procs \ {x} : pc'[q] = pc[q]
    BY <2>3, GotoStays
  <2> QED BY <2>2, <2>4
<1>2. CASE WithdrawReview(x)
  BY <1>2, FinishStays DEF WithdrawReview
<1>3. CASE Withdraw(x)
  BY <1>3, FinishStays, GotoStays, LocalStays DEF Withdraw
<1>4. CASE CancelAccept(x)
  BY <1>4, GotoStays, LocalStays DEF CancelAccept
<1>5. CASE CancelInVain(x)
  BY <1>5, FinishStays DEF CancelInVain
<1>6. CASE CancelReject(x)
  BY <1>6, GotoStays, LocalStays DEF CancelReject
<1>7. CASE Restore(x)
  BY <1>7, FinishStays DEF Restore
<1>8. CASE CancelSettle(x)
  BY <1>8, FinishStays, RefundingStays DEF CancelSettle
<1> QED
  BY <1>1, <1>2, <1>3, <1>4, <1>5, <1>6, <1>7, <1>8 DEF CancelStep

\* Refunding changes nobody's booking.
LEMMA RefundStays ==
    ASSUME TypeOK, AtWork, NEW p \in Procs, RefundStep(p) \/ Crash(p)
    PROVE  /\ OthersStay(p)
           /\ pc'[p] \in AtRest \/ loc'[p].booking = loc[p].booking
           /\ p \in Commits => loc' = loc
<1> USE DEF OthersStay, AtRest
<1>1. CASE Claim(p)
  BY <1>1, GotoStays, FinishStays, LocalStays DEF Claim
<1>2. CASE Pay(p)
  BY <1>2, GotoStays DEF Pay
<1>3. CASE SettleRefund(p)
  BY <1>3, FinishStays DEF SettleRefund
<1>4. CASE Crash(p)
  BY <1>4, GotoStays, FinishStays DEF Crash
<1> QED BY <1>1, <1>2, <1>3, <1>4 DEF RefundStep

\* AtWork is preserved by every step.
LEMMA AtWorkNext ==
    ASSUME TypeOK, AtWork, [Next]_vars
    PROVE  AtWork'
<1> USE DEF Procs, OthersStay
<1>1. ASSUME NEW c \in Commits, CommitStep(c) PROVE AtWork'
  BY <1>1, CommitStays DEF AtWork
<1>2. ASSUME NEW p \in Pollers, PollStep(p) PROVE AtWork'
  BY <1>2, PollStays, DisjointProcs DEF AtWork
<1>3. ASSUME NEW x \in Cancellers, CancelStep(x) PROVE AtWork'
  BY <1>3, CancelStays, DisjointProcs DEF AtWork
<1>4. ASSUME NEW p \in Procs, RefundStep(p) \/ Crash(p) PROVE AtWork'
  <2>1. pc[p] \notin AtRest
    BY <1>4 DEF RefundStep, Claim, Pay, SettleRefund, Crash, AtRest
  <2> QED BY <1>4, <2>1, RefundStays DEF AtWork
<1>5. CASE \/ \E b \in Commits : SupplierDecides(b)
           \/ \E d \in Deals : Expire(d)
           \/ Redeploy
           \/ UNCHANGED vars
  BY <1>5 DEF AtWork, SupplierDecides, Expire, Redeploy, vars
<1> QED BY <1>1, <1>2, <1>3, <1>4, <1>5 DEF Next

\* TypeOK is preserved by every step from a state where AtWork holds.
LEMMA TypeNext ==
    ASSUME TypeOK, AtWork, [Next]_vars
    PROVE  TypeOK'
<1>1. CASE UNCHANGED vars
  BY <1>1 DEF TypeOK, vars, table, world, deploy
<1> QED
  BY <1>1, TypeCommit, TypePoll, TypeCancel, TypeRefund, TypeEnvironment DEF Next

\* Every variable keeps its type, whatever the requests and however they
\* interleave.
THEOREM TypeCorrect == Spec => []TypeOK
<1>1. Init => TypeOK /\ AtWork
  BY TypeInit DEF Init, AtWork, AtRest, Fresh, Procs
<1>2. TypeOK /\ AtWork /\ [Next]_vars => (TypeOK /\ AtWork)'
  BY TypeNext, AtWorkNext
<1> QED BY <1>1, <1>2, PTL DEF Spec

-----------------------------------------------------------------------------
(* Money goes back once.                                                   *)

Paying == {"pay", "settlePaid", "settleUnpaid"}

\* The gateway takes the price or nothing; payment is on the row only of a
\* booking that was charged.
ChargedOnce ==
    /\ \A b \in Commits : captured[b] \in {0, Price}
    /\ \A b \in Commits : payment[b] => captured[b] = Price
    /\ \A c \in Commits : pc[c] = "hold" => captured[c] = Price

\* Who is about to refund, refunds a charged booking, and at most the charge.
Owed ==
    \A p \in Procs :
        pc[p] \in RefundLabels => payment[loc[p].booking] /\ loc[p].amount <= Price

\* A claimed refund has one owner until it is settled.
OneOwner ==
    /\ \A p \in Procs : pc[p] \in Paying => refund[loc[p].booking].status = "PROCESSING"
    /\ \A p, q \in Procs :
         pc[p] \in Paying /\ pc[q] \in Paying /\ loc[p].booking = loc[q].booking => p = q

\* While a refund can be claimed, or its owner has not paid, nothing went back.
NotYetPaid ==
    /\ \A b \in Commits : refund[b].status \in Claimable => returned[b] = 0
    /\ \A p \in Procs : pc[p] \in {"pay", "settleUnpaid"} => returned[loc[p].booking] = 0
    /\ \A b \in Commits : returned[b] <= Price /\ (returned[b] > 0 => payment[b])

Money == ChargedOnce /\ Owed /\ OneOwner /\ NotYetPaid

\* A step that moves no money and claims none, at most going to ask for a refund.
Asks(p) ==
    /\ OthersStay(p)
    /\ UNCHANGED <<payment, captured, refund, returned>>
    /\ pc'[p] \notin Paying \union {"hold"}
    /\ pc'[p] \in RefundLabels => payment[loc'[p].booking] /\ loc'[p].amount <= Price

\* A step that only asks preserves the invariant.
LEMMA AsksMoney ==
    ASSUME TypeOK, Money, NEW p \in Procs, Asks(p)
    PROVE  Money'
<1> USE DEF Asks, OthersStay
<1>1. ChargedOnce'
  BY DEF Money, ChargedOnce, Procs
<1>2. Owed'
  BY DEF Money, Owed
<1>3. OneOwner'
  BY DEF Money, OneOwner
<1>4. NotYetPaid'
  BY DEF Money, NotYetPaid, Paying
<1> QED BY <1>1, <1>2, <1>3, <1>4 DEF Money

\* Going on to refund at most the charge only asks.
LEMMA RefundingAsks ==
    ASSUME TypeOK, NEW p \in Procs, NEW amount \in Nat, amount <= Price, NEW kind, NEW seen,
           Refunding(p, amount, kind, seen),
           UNCHANGED <<payment, captured, refund, returned>>
    PROVE  Asks(p)
BY RefundingStays DEF Asks, AtRest, RefundLabels, Paying

\* Finishing only asks.
LEMMA FinishAsks ==
    ASSUME TypeOK, NEW p \in Procs, Finish(p),
           UNCHANGED <<payment, captured, refund, returned>>
    PROVE  Asks(p)
BY FinishStays DEF Asks, AtRest, RefundLabels, Paying

\* Moving to a label outside the refund and the charge only asks.
LEMMA GotoAsks ==
    ASSUME TypeOK, AtWork, NEW p \in Procs, NEW label, Goto(p, label),
           label \notin RefundLabels \union {"hold"}, OthersStay(p),
           UNCHANGED <<payment, captured, refund, returned>>
    PROVE  Asks(p)
BY GotoStays DEF Asks, RefundLabels, Paying

\* commit() only asks, except where it charges and records the payment.
LEMMA MoneyCommit ==
    ASSUME TypeOK, AtWork, Money, NEW c \in Commits, CommitStep(c)
    PROVE  Money'
<1> USE DEF Procs, table, world, Reply
<1>1. OthersStay(c)
  BY CommitStays
<1>2. CASE Replay(c)
  <2>1. Asks(c)
    BY <1>1, <1>2, GotoAsks, FinishAsks DEF Replay, RefundLabels
  <2> QED BY <2>1, AsksMoney
<1>3. CASE Resolve(c)
  <2>1. Asks(c)
    BY <1>1, <1>3, GotoAsks, FinishAsks DEF Resolve, RefundLabels
  <2> QED BY <2>1, AsksMoney
<1>4. CASE Precheck(c)
  <2>1. Asks(c)
    BY <1>1, <1>4, GotoAsks, FinishAsks DEF Precheck, RefundLabels
  <2> QED BY <2>1, AsksMoney
<1>5. CASE ResealRead(c)
  <2>1. Asks(c)
    BY <1>1, <1>5, GotoAsks DEF ResealRead, RefundLabels
  <2> QED BY <2>1, AsksMoney
<1>6. CASE ResealWrite(c)
  <2>1. Asks(c)
    BY <1>1, <1>6, GotoAsks DEF ResealWrite, RefundLabels
  <2> QED BY <2>1, AsksMoney
<1>7. CASE Decide(c)
  <2>1. Asks(c)
    BY <1>1, <1>7, GotoAsks, FinishAsks DEF Decide, RefundLabels
  <2> QED BY <2>1, AsksMoney
<1>8. CASE ReadQuote(c)
  <2>1. Asks(c)
    BY <1>1, <1>8, GotoAsks, FinishAsks DEF ReadQuote, RefundLabels
  <2> QED BY <2>1, AsksMoney
<1>9. CASE Create(c)
  <2>1. Asks(c)
    BY <1>1, <1>9, GotoAsks, FinishAsks DEF Create, RefundLabels
  <2> QED BY <2>1, AsksMoney
<1>10. CASE Charge(c)
  <2>1. CASE Goto(c, "declined") /\ UNCHANGED captured
    <3>1. Asks(c)
      BY <1>1, <1>10, <2>1, GotoAsks DEF Charge, RefundLabels
    <3> QED BY <3>1, AsksMoney
  <2>2. CASE captured' = [captured EXCEPT ![c] = Price] /\ Goto(c, "hold")
    <3>1. /\ pc'[c] = "hold" /\ OthersStay(c)
          /\ UNCHANGED <<payment, refund, returned>>
      BY <1>1, <1>10, <2>2, GotoStays DEF Charge
    <3>2. captured'[c] = Price /\ \A b \in Commits \ {c} : captured'[b] = captured[b]
      BY <2>2 DEF TypeOK
    <3>3. ChargedOnce'
      BY <3>1, <3>2 DEF Money, ChargedOnce, OthersStay
    <3>4. Owed'
      BY <3>1 DEF Money, Owed, OthersStay, RefundLabels
    <3>5. OneOwner'
      BY <3>1 DEF Money, OneOwner, OthersStay, Paying
    <3>6. NotYetPaid'
      BY <3>1 DEF Money, NotYetPaid, OthersStay
    <3> QED BY <3>3, <3>4, <3>5, <3>6 DEF Money
  <2> QED BY <1>10, <2>1, <2>2 DEF Charge
<1>11. CASE Decline(c)
  <2>1. Asks(c)
    BY <1>1, <1>11, FinishAsks DEF Decline
  <2> QED BY <2>1, AsksMoney
<1>12. CASE Hold(c)
  <2>1. /\ pc[c] = "hold" /\ pc'[c] = "consume" /\ OthersStay(c)
        /\ UNCHANGED <<captured, refund, returned>>
    BY <1>1, <1>12, GotoStays DEF Hold
  <2>2. \A b \in Commits : payment'[b] => payment[b] \/ b = c
    BY <1>12 DEF Hold, TypeOK
  <2>3. \A b \in Commits : payment[b] => payment'[b]
    BY <1>12 DEF Hold, TypeOK
  <2>4. ChargedOnce'
    BY <2>1, <2>2 DEF Money, ChargedOnce, OthersStay
  <2>5. Owed'
    BY <2>1, <2>3 DEF Money, Owed, OthersStay, RefundLabels, AtWork, AtRest
  <2>6. OneOwner'
    BY <2>1 DEF Money, OneOwner, OthersStay, Paying
  <2>7. NotYetPaid'
    BY <2>1, <2>3 DEF Money, NotYetPaid, OthersStay
  <2> QED BY <2>4, <2>5, <2>6, <2>7 DEF Money
<1>13. CASE Consume(c)
  <2>1. Asks(c)
    BY <1>1, <1>13, GotoAsks DEF Consume, RefundLabels
  <2> QED BY <2>1, AsksMoney
<1>14. CASE LoseDeal(c)
  <2>1. Asks(c)
    BY <1>1, <1>14, RefundingAsks, PriceAssumption DEF LoseDeal
  <2> QED BY <2>1, AsksMoney
<1>15. CASE Book(c)
  <2>1. Asks(c)
    BY <1>1, <1>15, GotoAsks DEF Book, RefundLabels
  <2> QED BY <2>1, AsksMoney
<1>16. CASE Answer(c)
  <2>1. Asks(c)
    BY <1>1, <1>16, GotoAsks DEF Answer, RefundLabels
  <2> QED BY <2>1, AsksMoney
<1>17. CASE SettleBooked(c)
  <2>1. Asks(c)
    BY <1>1, <1>17, FinishAsks DEF SettleBooked
  <2> QED BY <2>1, AsksMoney
<1>18. CASE SettlePending(c)
  <2>1. Asks(c)
    BY <1>1, <1>18, FinishAsks DEF SettlePending
  <2> QED BY <2>1, AsksMoney
<1>19. CASE SettleRefused(c)
  <2>1. Asks(c)
    BY <1>1, <1>19, RefundingAsks, PriceAssumption DEF SettleRefused
  <2> QED BY <2>1, AsksMoney
<1> QED
  BY <1>2, <1>3, <1>4, <1>5, <1>6, <1>7, <1>8, <1>9,
     <1>10, <1>11, <1>12, <1>13, <1>14, <1>15, <1>16, <1>17, <1>18, <1>19
     DEF CommitStep

\* confirm() only asks.
LEMMA MoneyPoll ==
    ASSUME TypeOK, AtWork, Money, NEW p \in Pollers, PollStep(p)
    PROVE  Money'
<1> USE DEF Procs, table, world, Reply
<1>1. OthersStay(p)
  BY PollStays
<1>2. CASE \E b \in Commits : StartPoll(p, b)
  <2>1. Asks(p)
    BY <1>1, <1>2, GotoAsks DEF StartPoll, RefundLabels
  <2> QED BY <2>1, AsksMoney
<1>3. CASE PollReview(p)
  <2>1. Asks(p)
    BY <1>1, <1>3, FinishAsks DEF PollReview
  <2> QED BY <2>1, AsksMoney
<1>4. CASE AskInVain(p)
  <2>1. Asks(p)
    BY <1>1, <1>4, FinishAsks DEF AskInVain
  <2> QED BY <2>1, AsksMoney
<1>5. CASE Ask(p)
  <2>1. Asks(p)
    BY <1>1, <1>5, GotoAsks DEF Ask, RefundLabels
  <2> QED BY <2>1, AsksMoney
<1>6. CASE PollSettleBooked(p)
  <2>1. Asks(p)
    BY <1>1, <1>6, FinishAsks DEF PollSettleBooked
  <2> QED BY <2>1, AsksMoney
<1>7. CASE PollSettleFailed(p)
  <2>1. Asks(p)
    BY <1>1, <1>7, RefundingAsks, PriceAssumption DEF PollSettleFailed
  <2> QED BY <2>1, AsksMoney
<1> QED
  BY <1>2, <1>3, <1>4, <1>5, <1>6, <1>7 DEF PollStep

\* cancel() only asks, and never for more than the charge.
LEMMA MoneyCancel ==
    ASSUME TypeOK, AtWork, Money, NEW x \in Cancellers, CancelStep(x)
    PROVE  Money'
<1> USE DEF Procs, table, world, Reply
<1>1. OthersStay(x)
  BY CancelStays
<1>2. CASE \E b \in Commits : StartCancel(x, b)
  <2>1. Asks(x)
    BY <1>1, <1>2, GotoAsks DEF StartCancel, RefundLabels
  <2> QED BY <2>1, AsksMoney
<1>3. CASE WithdrawReview(x)
  <2>1. Asks(x)
    BY <1>1, <1>3, FinishAsks DEF WithdrawReview
  <2> QED BY <2>1, AsksMoney
<1>4. CASE Withdraw(x)
  <2>1. Asks(x)
    BY <1>1, <1>4, GotoAsks, FinishAsks DEF Withdraw, RefundLabels
  <2> QED BY <2>1, AsksMoney
<1>5. CASE CancelAccept(x)
  <2>1. Asks(x)
    BY <1>1, <1>5, GotoAsks DEF CancelAccept, RefundLabels
  <2> QED BY <2>1, AsksMoney
<1>6. CASE CancelInVain(x)
  <2>1. Asks(x)
    BY <1>1, <1>6, FinishAsks DEF CancelInVain
  <2> QED BY <2>1, AsksMoney
<1>7. CASE CancelReject(x)
  <2>1. Asks(x)
    BY <1>1, <1>7, GotoAsks DEF CancelReject, RefundLabels
  <2> QED BY <2>1, AsksMoney
<1>8. CASE Restore(x)
  <2>1. Asks(x)
    BY <1>1, <1>8, FinishAsks DEF Restore
  <2> QED BY <2>1, AsksMoney
<1>9. CASE CancelSettle(x)
  <2>1. loc[x].amount \in Nat
    BY DEF TypeOK, Locals
  <2>2. /\ refundAfterCancellation(loc[x].amount) \in Nat
        /\ refundAfterCancellation(loc[x].amount) <= Price
    BY <2>1, PenaltyRefundType
  <2>3. Asks(x)
    BY <1>9, <2>2, FinishAsks, RefundingAsks DEF CancelSettle
  <2> QED BY <2>3, AsksMoney
<1> QED
  BY <1>2, <1>3, <1>4, <1>5, <1>6, <1>7, <1>8, <1>9 DEF CancelStep

\* The claim is the lock: it is granted only while nobody owns the refund and
\* nothing was returned, so its owner pays once.
LEMMA MoneyRefund ==
    ASSUME TypeOK, AtWork, Money, NEW p \in Procs, RefundStep(p) \/ Crash(p)
    PROVE  Money'
<1> DEFINE b == loc[p].booking
<1>1. pc[p] \in RefundLabels => b \in Commits /\ loc[p].amount \in Nat
  BY DEF AtWork, AtRest, RefundLabels, TypeOK, Locals
<1>2. OthersStay(p)
  BY RefundStays
<1>3. CASE Crash(p)
  <2>1. CASE Finish(p)
    BY <1>3, <2>1, FinishAsks, AsksMoney DEF Crash, table, world
  <2>2. CASE Goto(p, "crashed") /\ UNCHANGED loc
    BY <1>2, <1>3, <2>2, GotoAsks, AsksMoney DEF Crash, table, world, RefundLabels
  <2> QED BY <1>3, <2>1, <2>2 DEF Crash
<1>4. CASE Claim(p) /\ refund[b].status \notin Claimable
  BY <1>4, FinishAsks, AsksMoney DEF Claim, world
<1>5. CASE Claim(p) /\ refund[b].status \in Claimable
  <2>1. /\ pc[p] = "claim" /\ pc'[p] = "pay" /\ OthersStay(p) /\ loc' = loc
        /\ UNCHANGED <<payment, captured, returned>> /\ b \in Commits
    BY <1>1, <1>2, <1>5, GotoStays DEF Claim, world, RefundLabels
  <2>2. /\ refund'[b].status = "PROCESSING"
        /\ \A other \in Commits \ {b} : refund'[other] = refund[other]
    BY <1>5, <2>1 DEF Claim, TypeOK
  <2>3. returned[b] = 0
    BY <1>5, <2>1 DEF Money, NotYetPaid
  <2>4. \A q \in Procs : pc[q] \in Paying => loc[q].booking \in Commits \ {b}
    BY <1>5 DEF Money, OneOwner, AtWork, Paying, AtRest, Claimable
  <2>5. ChargedOnce'
    BY <2>1 DEF Money, ChargedOnce, OthersStay, Procs
  <2>6. Owed'
    BY <2>1 DEF Money, Owed, OthersStay, RefundLabels
  <2>7. OneOwner'
    BY <2>1, <2>2, <2>4 DEF Money, OneOwner, OthersStay
  <2>8. NotYetPaid'
    BY <2>1, <2>2, <2>3 DEF Money, NotYetPaid, OthersStay, Claimable
  <2> QED BY <2>5, <2>6, <2>7, <2>8 DEF Money
<1>6. CASE Pay(p)
  <2>1. /\ pc[p] = "pay" /\ OthersStay(p) /\ loc' = loc
        /\ UNCHANGED <<payment, captured, refund>> /\ b \in Commits
    BY <1>1, <1>2, <1>6 DEF Pay, table, RefundLabels
  <2>2. /\ payment[b] /\ loc[p].amount <= Price /\ returned[b] = 0
        /\ refund[b].status = "PROCESSING"
    BY <2>1 DEF Money, Owed, NotYetPaid, OneOwner, RefundLabels, Paying
  <2>3. /\ pc'[p] \in {"settlePaid", "settleUnpaid"}
        /\ returned'[b] <= Price
        /\ pc'[p] = "settleUnpaid" => returned'[b] = 0
        /\ \A other \in Commits \ {b} : returned'[other] = returned[other]
    <3>1. CASE returned' = [returned EXCEPT ![b] = @ + loc[p].amount] /\ Goto(p, "settlePaid")
      BY <1>1, <2>1, <2>2, <3>1, GotoStays DEF TypeOK, RefundLabels
    <3>2. CASE Goto(p, "settleUnpaid") /\ UNCHANGED returned
      BY <2>2, <3>2, GotoStays, PriceAssumption
    <3> QED BY <1>6, <3>1, <3>2 DEF Pay
  <2>4. ChargedOnce'
    BY <2>1, <2>3 DEF Money, ChargedOnce, OthersStay, Procs
  <2>5. Owed'
    BY <2>1, <2>3 DEF Money, Owed, OthersStay, RefundLabels
  <2>6. OneOwner'
    BY <2>1, <2>3 DEF Money, OneOwner, OthersStay, Paying
  <2>7. NotYetPaid'
    <3>1. \A q \in Procs \ {p} : pc[q] \in Paying => loc[q].booking \in Commits \ {b}
      BY <2>1 DEF Money, OneOwner, AtWork, Paying, AtRest
    <3> QED BY <2>1, <2>2, <2>3, <3>1 DEF Money, NotYetPaid, OthersStay, Claimable, Paying
  <2> QED BY <2>4, <2>5, <2>6, <2>7 DEF Money
<1>7. CASE SettleRefund(p)
  <2>1. /\ pc[p] \in {"settlePaid", "settleUnpaid"} /\ pc'[p] \in AtRest /\ OthersStay(p)
        /\ UNCHANGED <<payment, captured, returned>> /\ b \in Commits
    BY <1>1, <1>2, <1>7, FinishStays DEF SettleRefund, world, RefundLabels
  <2>2. /\ refund'[b].status = SettledAs(p)
        /\ \A other \in Commits \ {b} : refund'[other] = refund[other]
    BY <1>7, <2>1 DEF SettleRefund, TypeOK
  <2>3. \A q \in Procs \ {p} : pc[q] \in Paying => loc[q].booking \in Commits \ {b}
    BY <2>1 DEF Money, OneOwner, AtWork, Paying, AtRest
  <2>4. ChargedOnce'
    BY <2>1 DEF Money, ChargedOnce, OthersStay, Procs, AtRest
  <2>5. Owed'
    BY <2>1 DEF Money, Owed, OthersStay, RefundLabels, AtRest
  <2>6. OneOwner'
    BY <2>1, <2>2, <2>3 DEF Money, OneOwner, OthersStay, Paying, AtRest
  <2>7. NotYetPaid'
    BY <2>1, <2>2, <2>3
       DEF Money, NotYetPaid, OthersStay, Claimable, SettledAs, AtRest
  <2> QED BY <2>4, <2>5, <2>6, <2>7 DEF Money
<1> QED BY <1>3, <1>4, <1>5, <1>6, <1>7 DEF RefundStep

\* Every step preserves the money invariant.
LEMMA MoneyNext ==
    ASSUME TypeOK, AtWork, Money, [Next]_vars
    PROVE  Money'
<1>1. CASE \/ \E b \in Commits : SupplierDecides(b)
           \/ \E d \in Deals : Expire(d)
           \/ Redeploy
           \/ UNCHANGED vars
  <2>1. UNCHANGED <<payment, captured, refund, returned, pc, loc>>
    BY <1>1 DEF SupplierDecides, Expire, Redeploy, vars, table, world
  <2> QED
    BY <2>1 DEF Money, ChargedOnce, Owed, OneOwner, NotYetPaid
<1> QED
  BY <1>1, MoneyCommit, MoneyPoll, MoneyCancel, MoneyRefund DEF Next

\* Nothing is charged, owed or returned at first.
LEMMA MoneyInit == Init => Money
BY PriceAssumption DEF Init, Money, ChargedOnce, Owed, OneOwner, NotYetPaid, Paying,
   RefundLabels, Procs

\* Money goes back once: at most what was captured is ever returned, whoever
\* finds the booking, in whatever order, and wherever a process dies.
THEOREM RefundedOnce == Spec => []RefundedAtMostOnce
<1>1. Init => TypeOK /\ AtWork /\ Money
  BY TypeInit, MoneyInit DEF Init, AtWork, AtRest, Fresh, Procs
<1>2. TypeOK /\ AtWork /\ Money /\ [Next]_vars => (TypeOK /\ AtWork /\ Money)'
  BY TypeNext, AtWorkNext, MoneyNext
<1>3. TypeOK /\ Money => RefundedAtMostOnce
  BY PriceAssumption DEF TypeOK, Money, ChargedOnce, NotYetPaid, RefundedAtMostOnce
<1> QED BY <1>1, <1>2, <1>3, PTL DEF Spec

-----------------------------------------------------------------------------
(* What a step does, place by place: the invariants below look at steps    *)
(* through these tables.                                                   *)

BeforeRow == {"replay", "resolve", "precheck", "resealRead", "resealWrite",
              "decide", "quote", "create"}
BeforeBook == BeforeRow \union {"charge", "hold", "consume", "book"}

\* What a commit is over is not moved by others.
Unsettled == {"NO_ROW", "PRECHECK_PASSED", "PAYMENT_HELD"}

\* Where a commit is tells the status of its row, what was captured and whether
\* the supplier was asked; nobody else moves a row before its commit has settled it.
Stage ==
    \A c \in Commits :
        /\ pc[c] \in BeforeRow => status[c] = "NO_ROW"
        /\ pc[c] \in {"charge", "declined", "hold"} => status[c] = "PRECHECK_PASSED"
        /\ pc[c] \in {"consume", "lostDeal", "book", "answer", "settle"}
             => status[c] = "PAYMENT_HELD" /\ payment[c]
        /\ pc[c] \in {"charge", "declined"} => captured[c] = 0
        /\ pc[c] \in {"hold", "consume", "lostDeal", "book"} => captured[c] = Price
        /\ pc[c] \in BeforeBook \union {"declined", "lostDeal"} => stay[c] = "none"
        /\ status[c] = "NO_ROW" =>
             /\ pc[c] \in BeforeRow \union {"done", "crashed"}
             /\ captured[c] = 0 /\ stay[c] = "none"
        /\ status[c] \notin Unsettled => captured[c] = 0 \/ payment[c]

\* Nothing but the named parts of a booking changes.
SameRow(b)   == status'[b] = status[b] /\ ref'[b] = ref[b] /\ payment'[b] = payment[b]
SameWorld(b) == captured'[b] = captured[b] /\ stay'[b] = stay[b]

\* A commit's step, on its own booking.
CommitMove(c) ==
    \/ /\ pc[c] \in BeforeRow /\ pc'[c] \in BeforeRow \union {"done"}
       /\ SameRow(c) /\ SameWorld(c)
    \/ /\ pc[c] = "create" /\ pc'[c] = "charge" /\ ~Duplicate(c)
       /\ status'[c] = "PRECHECK_PASSED" /\ SameWorld(c)
       /\ ref'[c] = ref[c] /\ payment'[c] = payment[c]
    \/ /\ pc[c] = "charge" /\ pc'[c] = "hold" /\ SameRow(c)
       /\ captured'[c] = Price /\ stay'[c] = stay[c]
    \/ /\ pc[c] = "charge" /\ pc'[c] = "declined" /\ SameRow(c) /\ SameWorld(c)
    \/ /\ pc[c] = "declined" /\ pc'[c] = "done" /\ status'[c] = "FAILED"
       /\ ref'[c] = ref[c] /\ payment'[c] = payment[c] /\ SameWorld(c)
    \/ /\ pc[c] = "hold" /\ pc'[c] = "consume"
       /\ status'[c] = "PAYMENT_HELD" /\ payment'[c] /\ ref'[c] = ref[c] /\ SameWorld(c)
    \/ /\ pc[c] = "consume" /\ pc'[c] \in {"book", "lostDeal"} /\ SameRow(c) /\ SameWorld(c)
    \/ /\ pc[c] = "lostDeal" /\ pc'[c] = "claim" /\ loc'[c].kind = "FAILED_BOOKING"
       /\ status'[c] = "FAILED" /\ ref'[c] = ref[c] /\ payment'[c] = payment[c]
       /\ SameWorld(c)
    \/ /\ pc[c] = "book" /\ pc'[c] = "settle" /\ loc'[c].answer = "FAILED"
       /\ SameRow(c) /\ SameWorld(c)
    \/ /\ pc[c] = "book" /\ pc'[c] = "answer" /\ SameRow(c)
       /\ stay'[c] = "sent" /\ captured'[c] = captured[c]
    \/ /\ pc[c] = "answer" /\ pc'[c] = "settle" /\ SameRow(c) /\ SameWorld(c)
       /\ Reports(stay[c], loc'[c].answer, loc'[c].ref)
    \/ /\ pc[c] = "settle" /\ pc'[c] = "done" /\ SameWorld(c) /\ payment'[c] = payment[c]
       /\ \/ loc[c].answer \in {"CONFIRMED", "ON_HOLD"} /\ status'[c] = loc[c].answer
          \/ loc[c].answer \in {"PENDING", "THREW"} /\ status'[c] = "SUPPLIER_PENDING"
       /\ ref'[c] = (ref[c] \/ loc[c].ref)
    \/ /\ pc[c] = "settle" /\ loc[c].answer = "FAILED"
       /\ \/ pc'[c] = "done" /\ refund[c].status \notin Claimable
          \/ pc'[c] = "claim" /\ loc'[c].kind = "FAILED_BOOKING"
       /\ status'[c] = "FAILED" /\ ref'[c] = ref[c] /\ payment'[c] = payment[c]
       /\ SameWorld(c)

\* What every step of a commit leaves alone.
CommitFrame(c) ==
    /\ OthersStay(c) /\ loc'[c].booking = c
    /\ UNCHANGED <<refund, penalty, returned, request, crashes>>
    /\ \A b \in Commits \ {c} : SameRow(b) /\ SameWorld(b)

\* A step is in the table, and stays in its frame.
LEMMA CommitMoves ==
    ASSUME TypeOK, AtWork, Stage, NEW c \in Commits, CommitStep(c)
    PROVE  CommitMove(c) /\ CommitFrame(c)
<1> USE DEF Procs, table, world, deploy
<1>1. OthersStay(c) /\ loc'[c].booking = c
  BY CommitStays
<1>2. CASE /\ UNCHANGED <<table, world, request, crashes>>
           /\ pc[c] \in BeforeRow
           /\ \/ \E kind : Reply(c, kind)
              \/ \E label \in BeforeRow : Goto(c, label)
  <2>1. pc'[c] \in BeforeRow \union {"done"}
    BY <1>2, FinishStays, GotoStays DEF Reply
  <2> QED BY <1>1, <1>2, <2>1 DEF CommitMove, CommitFrame, SameRow, SameWorld
<1>3. CASE Replay(c)
  BY <1>2, <1>3 DEF Replay, BeforeRow
<1>4. CASE Resolve(c)
  BY <1>2, <1>4 DEF Resolve, BeforeRow
<1>5. CASE Precheck(c)
  BY <1>2, <1>5 DEF Precheck, BeforeRow
<1>6. CASE ResealRead(c)
  BY <1>2, <1>6 DEF ResealRead, BeforeRow
<1>7. CASE ResealWrite(c)
  BY <1>2, <1>7 DEF ResealWrite, BeforeRow
<1>8. CASE Decide(c)
  BY <1>2, <1>8 DEF Decide, BeforeRow
<1>9. CASE ReadQuote(c)
  BY <1>2, <1>9 DEF ReadQuote, BeforeRow
<1>10. CASE Create(c)
  <2>1. CASE Duplicate(c)
    BY <1>2, <1>10, <2>1 DEF Create, BeforeRow
  <2>2. CASE ~Duplicate(c)
    <3>1. pc[c] = "create" /\ pc'[c] = "charge" /\ UNCHANGED <<ref, payment, refund, world, request, crashes>>
      BY <1>10, <2>2, GotoStays DEF Create
    <3>2. status'[c] = "PRECHECK_PASSED" /\ \A b \in Commits \ {c} : status'[b] = status[b]
      BY <1>10, <2>2 DEF Create, TypeOK
    <3> QED BY <1>1, <2>2, <3>1, <3>2 DEF CommitMove, CommitFrame, SameRow, SameWorld
  <2> QED BY <2>1, <2>2
<1>11. CASE Charge(c)
  <2>1. pc[c] = "charge" /\ UNCHANGED <<table, stay, penalty, returned, request, crashes>>
    BY <1>11 DEF Charge
  <2>2. CASE captured' = [captured EXCEPT ![c] = Price] /\ Goto(c, "hold")
    <3>1. captured'[c] = Price /\ \A b \in Commits \ {c} : captured'[b] = captured[b]
      BY <2>2 DEF TypeOK
    <3>2. pc'[c] = "hold"
      BY <2>2, GotoStays
    <3> QED BY <1>1, <2>1, <3>1, <3>2 DEF CommitMove, CommitFrame, SameRow, SameWorld
  <2>3. CASE Goto(c, "declined") /\ UNCHANGED captured
    <3>1. pc'[c] = "declined"
      BY <2>3, GotoStays
    <3> QED BY <1>1, <2>1, <2>3, <3>1 DEF CommitMove, CommitFrame, SameRow, SameWorld
  <2> QED BY <1>11, <2>2, <2>3 DEF Charge
<1>12. CASE Decline(c)
  <2>1. pc[c] = "declined" /\ pc'[c] = "done" /\ UNCHANGED <<ref, payment, refund, world, request, crashes>>
    BY <1>12, FinishStays DEF Decline, Reply
  <2>2. status'[c] = "FAILED" /\ \A b \in Commits \ {c} : status'[b] = status[b]
    BY <1>12 DEF Decline, advance, Stage, TypeOK
  <2> QED BY <1>1, <2>1, <2>2 DEF CommitMove, CommitFrame, SameRow, SameWorld
<1>13. CASE Hold(c)
  <2>1. pc[c] = "hold" /\ pc'[c] = "consume" /\ UNCHANGED <<ref, refund, world, request, crashes>>
    BY <1>13, GotoStays DEF Hold
  <2>2. status'[c] = "PAYMENT_HELD" /\ \A b \in Commits \ {c} : status'[b] = status[b]
    BY <1>13 DEF Hold, advance, Stage, TypeOK
  <2>3. payment'[c] /\ \A b \in Commits \ {c} : payment'[b] = payment[b]
    BY <1>13 DEF Hold, Stage, TypeOK
  <2> QED BY <1>1, <2>1, <2>2, <2>3 DEF CommitMove, CommitFrame, SameRow, SameWorld
<1>14. CASE Consume(c)
  <2>1. pc[c] = "consume" /\ pc'[c] \in {"book", "lostDeal"} /\ UNCHANGED <<table, world, request, crashes>>
    BY <1>14, GotoStays DEF Consume
  <2> QED BY <1>1, <2>1 DEF CommitMove, CommitFrame, SameRow, SameWorld
<1>15. CASE LoseDeal(c)
  <2>1. pc[c] = "lostDeal" /\ UNCHANGED <<ref, payment, refund, world, request, crashes>>
    BY <1>15 DEF LoseDeal
  <2>2. status'[c] = "FAILED" /\ \A b \in Commits \ {c} : status'[b] = status[b]
    BY <1>15 DEF LoseDeal, advance, Stage, TypeOK
  <2>3. pc'[c] = "claim" /\ loc'[c].kind = "FAILED_BOOKING"
    <3>1. payment[loc[c].booking]
      BY <2>1 DEF AtWork, Stage
    <3>2. Goto(c, "claim") /\ loc' = [loc EXCEPT ![c].amount = Price, ![c].kind = "FAILED_BOOKING"]
      BY <1>15, <3>1 DEF LoseDeal, Refunding, Claimable
    <3> QED BY <3>2, GotoStays DEF TypeOK, Locals
  <2> QED BY <1>1, <2>1, <2>2, <2>3 DEF CommitMove, CommitFrame, SameRow, SameWorld
<1>16. CASE Book(c)
  <2>1. pc[c] = "book" /\ UNCHANGED <<table, penalty, captured, returned, request, crashes>>
    BY <1>16 DEF Book
  <2>2. CASE /\ loc' = [loc EXCEPT ![c].answer = "FAILED"]
             /\ Goto(c, "settle") /\ UNCHANGED stay
    <3>1. pc'[c] = "settle" /\ loc'[c].answer = "FAILED"
      BY <2>2, GotoStays DEF TypeOK, Locals
    <3> QED BY <1>1, <2>1, <2>2, <3>1 DEF CommitMove, CommitFrame, SameRow, SameWorld
  <2>3. CASE stay' = [stay EXCEPT ![c] = "sent"] /\ Goto(c, "answer")
    <3>1. stay'[c] = "sent" /\ \A b \in Commits \ {c} : stay'[b] = stay[b]
      BY <2>3 DEF TypeOK
    <3>2. pc'[c] = "answer"
      BY <2>3, GotoStays
    <3> QED BY <1>1, <2>1, <3>1, <3>2 DEF CommitMove, CommitFrame, SameRow, SameWorld
  <2> QED BY <1>16, <2>2, <2>3 DEF Book
<1>17. CASE Answer(c)
  <2>1. pc[c] = "answer" /\ pc'[c] = "settle" /\ UNCHANGED <<table, world, request, crashes>>
    BY <1>17, GotoStays DEF Answer
  <2>2. PICK answer \in Answers, named \in BOOLEAN :
           Reports(stay[c], answer, named)
           /\ loc' = [loc EXCEPT ![c].answer = answer, ![c].ref = named]
    BY <1>17 DEF Answer
  <2>3. loc'[c].answer = answer /\ loc'[c].ref = named
    BY <2>2 DEF TypeOK, Locals
  <2>4. Reports(stay[c], loc'[c].answer, loc'[c].ref)
    BY <2>2, <2>3
  <2> QED BY <1>1, <2>1, <2>4 DEF CommitMove, CommitFrame, SameRow, SameWorld
<1>18. CASE SettleBooked(c) \/ SettlePending(c)
  <2>1. pc[c] = "settle" /\ pc'[c] = "done" /\ UNCHANGED <<payment, refund, world, request, crashes>>
    BY <1>18, FinishStays DEF SettleBooked, SettlePending, Reply
  <2>2. status[c] = "PAYMENT_HELD"
    BY <2>1 DEF Stage
  <2>3. /\ \/ loc[c].answer \in {"CONFIRMED", "ON_HOLD"} /\ status'[c] = loc[c].answer
           \/ loc[c].answer \in {"PENDING", "THREW"} /\ status'[c] = "SUPPLIER_PENDING"
        /\ \A b \in Commits \ {c} : status'[b] = status[b]
    BY <1>18, <2>2 DEF SettleBooked, SettlePending, advance, Open, TypeOK
  <2>4. ref'[c] = (ref[c] \/ loc[c].ref) /\ \A b \in Commits \ {c} : ref'[b] = ref[b]
    BY <1>18, <2>2 DEF SettleBooked, SettlePending, Open, TypeOK
  <2> QED BY <1>1, <2>1, <2>3, <2>4 DEF CommitMove, CommitFrame, SameRow, SameWorld
<1>19. CASE SettleRefused(c)
  <2>1. pc[c] = "settle" /\ loc[c].answer = "FAILED" /\ UNCHANGED <<ref, payment, refund, world, request, crashes>>
    BY <1>19 DEF SettleRefused
  <2>2. status'[c] = "FAILED" /\ \A b \in Commits \ {c} : status'[b] = status[b]
    BY <1>19, <2>1 DEF SettleRefused, advance, Open, Stage, TypeOK
  <2>3. payment[loc[c].booking]
    BY <2>1 DEF AtWork, Stage
  <2>4. \/ pc'[c] = "done" /\ refund[c].status \notin Claimable
        \/ pc'[c] = "claim" /\ loc'[c].kind = "FAILED_BOOKING"
    <3>1. CASE refund[c].status \in Claimable
      <4>1. Goto(c, "claim") /\ loc' = [loc EXCEPT ![c].amount = Price, ![c].kind = "FAILED_BOOKING"]
        BY <1>19, <2>3, <3>1 DEF SettleRefused, Refunding
      <4> QED BY <4>1, GotoStays DEF TypeOK, Locals
    <3>2. CASE refund[c].status \notin Claimable
      BY <1>19, <3>2, FinishStays DEF SettleRefused, Refunding
    <3> QED BY <3>1, <3>2
  <2> QED BY <1>1, <2>1, <2>2, <2>4 DEF CommitMove, CommitFrame, SameRow, SameWorld
<1> QED
  BY <1>3, <1>4, <1>5, <1>6, <1>7, <1>8, <1>9, <1>10, <1>11, <1>12, <1>13,
     <1>14, <1>15, <1>16, <1>17, <1>18, <1>19 DEF CommitStep

\* A conditional UPDATE, seen from every row.
RowTo(b, to, expect) ==
    /\ status'[b] = IF status[b] \in expect THEN to ELSE status[b]
    /\ \A o \in Commits \ {b} : status'[o] = status[o]

\* It writes the one row it names, or none.
LEMMA AdvancePoints ==
    ASSUME TypeOK, NEW b \in Commits, NEW to, NEW expect, advance(b, to, expect)
    PROVE  RowTo(b, to, expect)
BY DEF advance, RowTo, TypeOK

\* A poller's step, on the booking it asks about.
PollMove(p) ==
    LET b == loc[p].booking IN
    \/ /\ pc[p] = "idle" /\ pc'[p] \in {"ask", "review"} /\ UNCHANGED status
       /\ loc'[p].booking \in Commits /\ status[loc'[p].booking] = "SUPPLIER_PENDING"
       /\ pc'[p] = "ask" => ref[loc'[p].booking]
    \/ /\ pc[p] = "ask" /\ pc'[p] \in AtRest /\ UNCHANGED status
    \/ /\ pc[p] = "review" /\ pc'[p] \in AtRest
       /\ RowTo(b, "MANUAL_REVIEW", {"SUPPLIER_PENDING"})
    \/ /\ pc[p] = "ask" /\ pc'[p] = "pollSettle" /\ UNCHANGED status
       /\ loc'[p].booking = b /\ stay[b] \in DOMAIN PollAnswer
       /\ loc'[p].answer = PollAnswer[stay[b]]
    \/ /\ pc[p] = "pollSettle" /\ pc'[p] \in AtRest
       /\ loc[p].answer \in {"CONFIRMED", "ON_HOLD"}
       /\ RowTo(b, loc[p].answer, {"SUPPLIER_PENDING"})
    \/ /\ pc[p] = "pollSettle" /\ loc[p].answer \in {"FAILED", "CANCELLED"}
       /\ RowTo(b, "FAILED", {"SUPPLIER_PENDING"})
       /\ \/ /\ pc'[p] \in AtRest
             /\ status[b] = "SUPPLIER_PENDING"
                  => ~payment[b] \/ refund[b].status \notin Claimable
          \/ /\ pc'[p] = "claim" /\ loc'[p].booking = b /\ loc'[p].kind = "FAILED_BOOKING"

PollFrame(p) ==
    /\ OthersStay(p) /\ (pc[p] \in AtRest \/ loc[p].booking \in Commits)
    /\ UNCHANGED <<ref, payment, refund, world, request, crashes>>

\* A step of confirm() is in its table.
LEMMA PollMoves ==
    ASSUME TypeOK, AtWork, NEW p \in Pollers, PollStep(p)
    PROVE  PollMove(p) /\ PollFrame(p)
<1> DEFINE b == loc[p].booking
<1> USE DEF Procs, table, world, deploy
<1>1. OthersStay(p)
  BY PollStays
<1>2. pc[p] \in AtRest \/ b \in Commits
  BY DEF AtWork
<1>3. PollFrame(p)
  <2>1. UNCHANGED <<ref, payment, refund, world, request, crashes>>
    BY DEF PollStep, StartPoll, PollReview, AskInVain, Ask, PollSettleBooked, PollSettleFailed
  <2> QED BY <1>1, <1>2, <2>1 DEF PollFrame
<1>4. CASE \E o \in Commits : StartPoll(p, o)
  <2>1. PICK o \in Commits : StartPoll(p, o)
    BY <1>4
  <2>2. loc'[p].booking = o
    BY <2>1, StartStays DEF StartPoll
  <2>3. pc'[p] \in {"ask", "review"} /\ (pc'[p] = "ask" => ref[o])
    BY <2>1, GotoStays DEF StartPoll
  <2>4. pc[p] = "idle" /\ status[o] = "SUPPLIER_PENDING" /\ UNCHANGED status
    BY <2>1 DEF StartPoll
  <2> QED BY <1>3, <2>2, <2>3, <2>4 DEF PollMove
<1>5. CASE PollReview(p)
  <2>1. pc[p] = "review" /\ pc'[p] \in AtRest
    BY <1>5, FinishStays DEF PollReview
  <2>2. RowTo(b, "MANUAL_REVIEW", {"SUPPLIER_PENDING"})
    BY <1>2, <1>5, AdvancePoints DEF PollReview, AtRest
  <2> QED BY <1>3, <2>1, <2>2 DEF PollMove
<1>6. CASE AskInVain(p)
  BY <1>3, <1>6, FinishStays DEF AskInVain, PollMove
<1>7. CASE Ask(p)
  <2>1. pc[p] = "ask" /\ pc'[p] = "pollSettle" /\ UNCHANGED status /\ stay[b] \in DOMAIN PollAnswer
    BY <1>7, GotoStays DEF Ask
  <2>2. loc'[p].booking = b /\ loc'[p].answer = PollAnswer[stay[b]]
    BY <1>7 DEF Ask, TypeOK, Locals
  <2> QED BY <1>3, <2>1, <2>2 DEF PollMove
<1>8. CASE PollSettleBooked(p)
  <2>1. /\ pc[p] = "pollSettle" /\ pc'[p] \in AtRest
        /\ loc[p].answer \in {"CONFIRMED", "ON_HOLD"}
    BY <1>8, FinishStays DEF PollSettleBooked
  <2>2. RowTo(b, loc[p].answer, {"SUPPLIER_PENDING"})
    BY <1>2, <1>8, AdvancePoints DEF PollSettleBooked, AtRest
  <2> QED BY <1>3, <2>1, <2>2 DEF PollMove
<1>9. CASE PollSettleFailed(p)
  <2> DEFINE seen == IF status[b] = "SUPPLIER_PENDING" THEN refund[b].status ELSE loc[p].seen
  <2>1. /\ pc[p] = "pollSettle" /\ loc[p].answer \in {"FAILED", "CANCELLED"}
        /\ Refunding(p, Price, "FAILED_BOOKING", seen)
    BY <1>9 DEF PollSettleFailed
  <2>2. RowTo(b, "FAILED", {"SUPPLIER_PENDING"})
    BY <1>2, <1>9, AdvancePoints DEF PollSettleFailed, AtRest
  <2>3. CASE payment[b] /\ seen \in Claimable
    <3>1. Goto(p, "claim") /\ loc' = [loc EXCEPT ![p].amount = Price, ![p].kind = "FAILED_BOOKING"]
      BY <2>1, <2>3 DEF Refunding
    <3>2. pc'[p] = "claim" /\ loc'[p].booking = b /\ loc'[p].kind = "FAILED_BOOKING"
      BY <3>1, GotoStays DEF TypeOK, Locals
    <3> QED BY <1>3, <2>1, <2>2, <3>2 DEF PollMove
  <2>4. CASE ~(payment[b] /\ seen \in Claimable)
    <3>1. pc'[p] \in AtRest
      BY <2>1, <2>4, FinishStays DEF Refunding
    <3> QED BY <1>3, <2>1, <2>2, <2>4, <3>1 DEF PollMove
  <2> QED BY <2>3, <2>4
<1> QED
  BY <1>4, <1>5, <1>6, <1>7, <1>8, <1>9 DEF PollStep

\* A canceller's step, on the booking it cancels.
CancelMove(x) ==
    LET b == loc[x].booking IN
    \/ /\ pc[x] = "idle" /\ loc'[x].booking \in Commits
       /\ status[loc'[x].booking] \in CANCELLABLE /\ loc'[x].was = status[loc'[x].booking]
       /\ \/ pc'[x] = "withdraw" /\ ref[loc'[x].booking]
          \/ pc'[x] = "withdrawReview" /\ ~ref[loc'[x].booking]
       /\ UNCHANGED <<status, stay, penalty>>
    \/ /\ pc[x] = "withdrawReview" /\ pc'[x] \in AtRest /\ UNCHANGED <<stay, penalty>>
       /\ RowTo(b, "MANUAL_REVIEW", CANCELLABLE)
    \/ /\ pc[x] = "withdraw" /\ status[b] \in CANCELLABLE /\ UNCHANGED <<stay, penalty>>
       /\ RowTo(b, "CANCELLATION_PENDING", CANCELLABLE)
       /\ loc'[x].booking = b /\ loc'[x].was = loc[x].was
       /\ \/ pc'[x] = "cancelAsk"
          \/ pc'[x] = "cancelSettle" /\ loc'[x].answer = "REJECTED"
    \/ /\ pc[x] = "withdraw" /\ pc'[x] \in AtRest /\ status[b] \notin CANCELLABLE
       /\ UNCHANGED <<stay, penalty>> /\ RowTo(b, "CANCELLATION_PENDING", CANCELLABLE)
    \/ /\ pc[x] = "cancelAsk" /\ pc'[x] = "cancelSettle" /\ UNCHANGED status
       /\ stay[b] \in {"pending", "confirmed", "on_hold"} /\ stay'[b] = "cancelled"
       /\ loc'[x].booking = b /\ loc'[x].was = loc[x].was
       /\ \/ loc'[x].answer = "CANCELLED" /\ loc'[x].amount = penalty'[b]
          \/ loc'[x].answer = "CANCELLED_FX" /\ penalty'[b] = penalty[b]
    \/ /\ pc[x] = "cancelAsk" /\ pc'[x] \in AtRest /\ UNCHANGED <<status, penalty>>
       /\ \/ stay'[b] = stay[b]
          \/ stay[b] \in {"pending", "confirmed", "on_hold"} /\ stay'[b] = "cancelled"
    \/ /\ pc[x] = "cancelAsk" /\ pc'[x] = "cancelSettle" /\ loc'[x].answer = "REJECTED"
       /\ loc'[x].booking = b /\ loc'[x].was = loc[x].was
       /\ UNCHANGED <<status, stay, penalty>>
    \/ /\ pc[x] = "cancelSettle" /\ pc'[x] \in AtRest /\ loc[x].answer = "REJECTED"
       /\ RowTo(b, loc[x].was, {"CANCELLATION_PENDING"}) /\ UNCHANGED <<stay, penalty>>
    \/ /\ pc[x] = "cancelSettle" /\ loc[x].answer \in {"CANCELLED", "CANCELLED_FX"}
       /\ RowTo(b, "CANCELLED", {"CANCELLATION_PENDING"}) /\ UNCHANGED <<stay, penalty>>
       /\ \/ pc'[x] \in AtRest
          \/ /\ pc'[x] = "claim" /\ loc'[x].booking = b /\ loc[x].answer = "CANCELLED"
             /\ loc'[x].kind = "CANCELLATION"
             /\ loc'[x].amount = refundAfterCancellation(loc[x].amount)

CancelFrame(x) ==
    /\ OthersStay(x) /\ (pc[x] \in AtRest \/ loc[x].booking \in Commits)
    /\ UNCHANGED <<ref, payment, refund, captured, returned, request, crashes>>
    /\ \A o \in Commits \ {loc[x].booking} : stay'[o] = stay[o] /\ penalty'[o] = penalty[o]

\* A step of cancel() is in its table.
LEMMA CancelMoves ==
    ASSUME TypeOK, AtWork, NEW x \in Cancellers, CancelStep(x)
    PROVE  CancelMove(x) /\ CancelFrame(x)
<1> DEFINE b == loc[x].booking
<1> USE DEF Procs, table, world, deploy
<1>1. OthersStay(x)
  BY CancelStays
<1>2. pc[x] \in AtRest \/ b \in Commits
  BY DEF AtWork
<1>3. CancelFrame(x)
  <2>1. UNCHANGED <<ref, payment, refund, captured, returned, request, crashes>>
    BY DEF CancelStep, StartCancel, WithdrawReview, Withdraw, CancelAccept, CancelInVain,
           CancelReject, Restore, CancelSettle
  <2>2. \A o \in Commits \ {b} : stay'[o] = stay[o] /\ penalty'[o] = penalty[o]
    BY DEF CancelStep, StartCancel, WithdrawReview, Withdraw, CancelAccept, CancelInVain,
           CancelReject, Restore, CancelSettle, TypeOK
  <2> QED BY <1>1, <1>2, <2>1, <2>2 DEF CancelFrame
<1>4. CASE \E o \in Commits : StartCancel(x, o)
  <2>1. PICK o \in Commits : StartCancel(x, o)
    BY <1>4
  <2>2. loc'[x].booking = o /\ loc'[x].was = status[o]
    BY <2>1 DEF StartCancel, TypeOK, Locals
  <2>3. \/ pc'[x] = "withdraw" /\ ref[o]
        \/ pc'[x] = "withdrawReview" /\ ~ref[o]
    BY <2>1, GotoStays DEF StartCancel
  <2>4. pc[x] = "idle" /\ status[o] \in CANCELLABLE /\ UNCHANGED <<status, stay, penalty>>
    BY <2>1 DEF StartCancel
  <2> QED BY <1>3, <2>2, <2>3, <2>4 DEF CancelMove
<1>5. CASE WithdrawReview(x)
  <2>1. pc[x] = "withdrawReview" /\ pc'[x] \in AtRest /\ UNCHANGED <<stay, penalty>>
    BY <1>5, FinishStays DEF WithdrawReview
  <2>2. RowTo(b, "MANUAL_REVIEW", CANCELLABLE)
    BY <1>2, <1>5, AdvancePoints DEF WithdrawReview, AtRest
  <2> QED BY <1>3, <2>1, <2>2 DEF CancelMove
<1>6. CASE Withdraw(x)
  <2>1. pc[x] = "withdraw" /\ UNCHANGED <<stay, penalty>>
    BY <1>6 DEF Withdraw
  <2>2. RowTo(b, "CANCELLATION_PENDING", CANCELLABLE)
    BY <1>2, <1>6, AdvancePoints DEF Withdraw, AtRest
  <2>3. CASE status[b] \notin CANCELLABLE
    <3>1. pc'[x] \in AtRest
      BY <1>6, <2>3, FinishStays DEF Withdraw
    <3> QED BY <1>3, <2>1, <2>2, <2>3, <3>1 DEF CancelMove
  <2>4. CASE status[b] \in CANCELLABLE
    <3>1. \/ loc' = [loc EXCEPT ![x].seen = refund[b].status] /\ Goto(x, "cancelAsk")
          \/ loc' = [loc EXCEPT ![x].answer = "REJECTED"] /\ Goto(x, "cancelSettle")
      BY <1>6, <2>4 DEF Withdraw
    <3>2. /\ loc'[x].booking = b /\ loc'[x].was = loc[x].was
          /\ \/ pc'[x] = "cancelAsk"
             \/ pc'[x] = "cancelSettle" /\ loc'[x].answer = "REJECTED"
      BY <3>1, GotoStays DEF TypeOK, Locals
    <3> QED BY <1>3, <2>1, <2>2, <2>4, <3>2 DEF CancelMove
  <2> QED BY <2>3, <2>4
<1>7. CASE CancelAccept(x)
  <2>1. /\ pc[x] = "cancelAsk" /\ pc'[x] = "cancelSettle" /\ UNCHANGED status
        /\ stay[b] \in {"pending", "confirmed", "on_hold"}
    BY <1>7, GotoStays DEF CancelAccept
  <2>2. stay'[b] = "cancelled"
    BY <1>2, <1>7 DEF CancelAccept, TypeOK, AtRest
  <2>3. \/ \E fee \in Penalties :
             /\ penalty' = [penalty EXCEPT ![b] = fee]
             /\ loc' = [loc EXCEPT ![x].answer = "CANCELLED", ![x].amount = fee]
        \/ /\ loc' = [loc EXCEPT ![x].answer = "CANCELLED_FX"]
           /\ UNCHANGED penalty
    BY <1>7 DEF CancelAccept
  <2>4. b \in Commits
    BY <1>2, <2>1 DEF AtRest
  <2>5. /\ loc'[x].booking = b /\ loc'[x].was = loc[x].was
        /\ \/ loc'[x].answer = "CANCELLED" /\ loc'[x].amount = penalty'[b]
           \/ loc'[x].answer = "CANCELLED_FX" /\ penalty'[b] = penalty[b]
    <3>1. CASE \E fee \in Penalties :
                 /\ penalty' = [penalty EXCEPT ![b] = fee]
                 /\ loc' = [loc EXCEPT ![x].answer = "CANCELLED", ![x].amount = fee]
      BY <2>4, <3>1 DEF TypeOK, Locals
    <3>2. CASE loc' = [loc EXCEPT ![x].answer = "CANCELLED_FX"] /\ UNCHANGED penalty
      BY <3>2 DEF TypeOK, Locals
    <3> QED BY <2>3, <3>1, <3>2
  <2> QED BY <1>3, <2>1, <2>2, <2>5 DEF CancelMove
<1>8. CASE CancelInVain(x)
  <2>1. pc[x] = "cancelAsk" /\ pc'[x] \in AtRest /\ UNCHANGED <<status, penalty>>
    BY <1>8, FinishStays DEF CancelInVain
  <2>2. \/ stay'[b] = stay[b]
        \/ stay[b] \in {"pending", "confirmed", "on_hold"} /\ stay'[b] = "cancelled"
    BY <1>2, <1>8 DEF CancelInVain, TypeOK, AtRest
  <2> QED BY <1>3, <2>1, <2>2 DEF CancelMove
<1>9. CASE CancelReject(x)
  <2>1. /\ pc[x] = "cancelAsk" /\ pc'[x] = "cancelSettle"
        /\ UNCHANGED <<status, stay, penalty>>
    BY <1>9, GotoStays DEF CancelReject
  <2>2. /\ loc'[x].answer = "REJECTED" /\ loc'[x].booking = b /\ loc'[x].was = loc[x].was
    BY <1>9 DEF CancelReject, TypeOK, Locals
  <2> QED BY <1>3, <2>1, <2>2 DEF CancelMove
<1>10. CASE Restore(x)
  <2>1. /\ pc[x] = "cancelSettle" /\ pc'[x] \in AtRest /\ loc[x].answer = "REJECTED"
        /\ UNCHANGED <<stay, penalty>>
    BY <1>10, FinishStays DEF Restore
  <2>2. RowTo(b, loc[x].was, {"CANCELLATION_PENDING"})
    BY <1>2, <1>10, AdvancePoints DEF Restore, WhatItWas, AtRest
  <2> QED BY <1>3, <2>1, <2>2 DEF CancelMove
<1>11. CASE CancelSettle(x)
  <2>1. /\ pc[x] = "cancelSettle" /\ loc[x].answer \in {"CANCELLED", "CANCELLED_FX"}
        /\ UNCHANGED <<stay, penalty>>
    BY <1>11 DEF CancelSettle
  <2>2. RowTo(b, "CANCELLED", {"CANCELLATION_PENDING"})
    BY <1>2, <1>11, AdvancePoints DEF CancelSettle, AtRest
  <2>3. \/ Finish(x)
        \/ /\ loc[x].answer = "CANCELLED" /\ Goto(x, "claim")
           /\ loc' = [loc EXCEPT ![x].amount = refundAfterCancellation(loc[x].amount),
                                 ![x].kind = "CANCELLATION"]
    BY <1>11 DEF CancelSettle, Refunding
  <2>4. \/ pc'[x] \in AtRest
        \/ /\ pc'[x] = "claim" /\ loc'[x].booking = b /\ loc[x].answer = "CANCELLED"
           /\ loc'[x].kind = "CANCELLATION"
           /\ loc'[x].amount = refundAfterCancellation(loc[x].amount)
    BY <2>3, FinishStays, GotoStays DEF TypeOK, Locals
  <2> QED BY <1>3, <2>1, <2>2, <2>4 DEF CancelMove
<1> QED
  BY <1>4, <1>5, <1>6, <1>7, <1>8, <1>9, <1>10, <1>11 DEF CancelStep

\* A step of #refund, or the end of a process, whoever it is.
RefundMove(p) ==
    LET b == loc[p].booking IN
    \/ /\ pc[p] = "claim" /\ pc'[p] = "pay" /\ loc'[p] = loc[p]
       /\ UNCHANGED <<returned, crashes>>
       /\ refund'[b] = [status |-> "PROCESSING", kind |-> loc[p].kind, amount |-> loc[p].amount]
    \/ /\ pc[p] = "claim" /\ pc'[p] \in AtRest /\ refund[b].status \notin Claimable
       /\ UNCHANGED <<returned, crashes>> /\ refund'[b] = refund[b]
    \/ /\ pc[p] = "pay" /\ pc'[p] = "settlePaid" /\ loc'[p] = loc[p]
       /\ UNCHANGED crashes /\ refund'[b] = refund[b]
       /\ returned' = [returned EXCEPT ![b] = @ + loc[p].amount]
    \/ /\ pc[p] = "pay" /\ pc'[p] = "settleUnpaid" /\ loc'[p] = loc[p]
       /\ UNCHANGED <<returned, crashes>> /\ refund'[b] = refund[b]
    \/ /\ pc[p] \in {"settlePaid", "settleUnpaid"} /\ pc'[p] \in AtRest
       /\ UNCHANGED <<returned, crashes>>
       /\ refund'[b] = [status |-> SettledAs(p), kind |-> loc[p].kind, amount |-> loc[p].amount]
    \/ /\ pc'[p] \in AtRest /\ crashes' = crashes + 1
       /\ UNCHANGED returned /\ refund'[b] = refund[b]

RefundFrame(p) ==
    /\ OthersStay(p) /\ loc[p].booking \in Commits /\ pc[p] \notin AtRest
    /\ p \in Commits => pc'[p] # "idle"
    /\ UNCHANGED <<status, ref, payment, stay, penalty, captured, request>>
    /\ \A o \in Commits \ {loc[p].booking} : refund'[o] = refund[o] /\ returned'[o] = returned[o]

\* A step of #refund is in its table.
LEMMA RefundMoves ==
    ASSUME TypeOK, AtWork, NEW p \in Procs, RefundStep(p) \/ Crash(p)
    PROVE  RefundMove(p) /\ RefundFrame(p)
<1> DEFINE b == loc[p].booking
<1> USE DEF table, world, deploy
<1>1. OthersStay(p)
  BY RefundStays
<1>2. pc[p] \notin AtRest /\ b \in Commits
  BY DEF RefundStep, Claim, Pay, SettleRefund, Crash, AtRest, AtWork
<1>3. p \in Commits => pc'[p] # "idle"
  BY FinishStays, GotoStays DEF RefundStep, Claim, Pay, SettleRefund, Crash
<1>4. UNCHANGED <<status, ref, payment, stay, penalty, captured, request>>
  BY DEF RefundStep, Claim, Pay, SettleRefund, Crash
<1>5. CASE Claim(p)
  <2>1. pc[p] = "claim" /\ UNCHANGED <<returned, crashes>>
    BY <1>5 DEF Claim
  <2>2. CASE refund[b].status \in Claimable
    <3>1. pc'[p] = "pay" /\ UNCHANGED loc
      BY <1>5, <2>2, GotoStays DEF Claim
    <3>2. /\ refund'[b] = [status |-> "PROCESSING", kind |-> loc[p].kind, amount |-> loc[p].amount]
          /\ \A o \in Commits \ {b} : refund'[o] = refund[o]
      BY <1>2, <1>5, <2>2 DEF Claim, TypeOK
    <3> QED BY <1>1, <1>2, <1>3, <1>4, <2>1, <3>1, <3>2 DEF RefundMove, RefundFrame
  <2>3. CASE refund[b].status \notin Claimable
    <3>1. pc'[p] \in AtRest /\ UNCHANGED refund
      BY <1>5, <2>3, FinishStays DEF Claim
    <3> QED BY <1>1, <1>2, <1>3, <1>4, <2>1, <2>3, <3>1 DEF RefundMove, RefundFrame
  <2> QED BY <2>2, <2>3
<1>6. CASE Pay(p)
  <2>1. pc[p] = "pay" /\ UNCHANGED <<refund, loc, crashes>>
    BY <1>6 DEF Pay
  <2>2. CASE returned' = [returned EXCEPT ![b] = @ + loc[p].amount] /\ Goto(p, "settlePaid")
    <3>1. pc'[p] = "settlePaid"
      BY <2>2, GotoStays
    <3>2. \A o \in Commits \ {b} : returned'[o] = returned[o]
      BY <2>2 DEF TypeOK
    <3> QED BY <1>1, <1>2, <1>3, <1>4, <2>1, <2>2, <3>1, <3>2 DEF RefundMove, RefundFrame
  <2>3. CASE Goto(p, "settleUnpaid") /\ UNCHANGED returned
    <3>1. pc'[p] = "settleUnpaid"
      BY <2>3, GotoStays
    <3> QED BY <1>1, <1>2, <1>3, <1>4, <2>1, <2>3, <3>1 DEF RefundMove, RefundFrame
  <2> QED BY <1>6, <2>2, <2>3 DEF Pay
<1>7. CASE SettleRefund(p)
  <2>1. pc[p] \in {"settlePaid", "settleUnpaid"} /\ pc'[p] \in AtRest /\ UNCHANGED <<returned, crashes>>
    BY <1>7, FinishStays DEF SettleRefund
  <2>2. /\ refund'[b] = [status |-> SettledAs(p), kind |-> loc[p].kind, amount |-> loc[p].amount]
        /\ \A o \in Commits \ {b} : refund'[o] = refund[o]
    BY <1>2, <1>7 DEF SettleRefund, TypeOK
  <2> QED BY <1>1, <1>2, <1>3, <1>4, <2>1, <2>2 DEF RefundMove, RefundFrame
<1>8. CASE Crash(p)
  <2>1. pc'[p] \in AtRest /\ crashes' = crashes + 1 /\ UNCHANGED <<returned, refund>>
    BY <1>8, FinishStays, GotoStays DEF Crash, AtRest
  <2> QED BY <1>1, <1>2, <1>3, <1>4, <2>1 DEF RefundMove, RefundFrame
<1> QED BY <1>5, <1>6, <1>7, <1>8 DEF RefundStep

\* The supplier decides about a stay it was asked for; nothing else of the
\* environment touches a booking.
EnvironmentMove ==
    /\ UNCHANGED <<table, penalty, captured, returned, pc, loc, request, crashes>>
    /\ \A b \in Commits :
         \/ stay'[b] = stay[b]
         \/ /\ stay[b] \in {"sent", "pending"}
            /\ stay'[b] \in {"pending", "confirmed", "on_hold", "failed"}

\* The environment does no more than that.
LEMMA EnvironmentMoves ==
    ASSUME TypeOK,
           \/ \E b \in Commits : SupplierDecides(b)
           \/ \E d \in Deals : Expire(d)
           \/ Redeploy
           \/ UNCHANGED vars
    PROVE  EnvironmentMove
<1>1. UNCHANGED <<table, penalty, captured, returned, pc, loc, request, crashes>>
  BY DEF SupplierDecides, Expire, Redeploy, vars, table, world, deploy
<1>2. CASE \E b \in Commits : SupplierDecides(b)
  BY <1>1, <1>2 DEF SupplierDecides, EnvironmentMove, TypeOK
<1>3. CASE UNCHANGED stay
  BY <1>1, <1>3 DEF EnvironmentMove
<1> QED BY <1>2, <1>3 DEF Expire, Redeploy, vars, world

-----------------------------------------------------------------------------
(* One row per key.                                                        *)

\* A key has at most one row.
OneRow ==
    \A b1, b2 \in Commits :
        b1 # b2 /\ request[b1].key = request[b2].key => ~HasRow(b1) \/ ~HasRow(b2)

\* What a canceller may write back is what it found.
Found == \A p \in Procs : pc[p] \in CancelLabels => loc[p].was \in CANCELLABLE

Rows == Stage /\ OneRow /\ Found

\* What may happen to a booking once its commit is past it, and what the
\* requests that come after a commit may do to it: they move no row its commit
\* has not settled and end no stay that was not asked for.
LaterStep ==
    /\ UNCHANGED <<captured, payment, request>>
    /\ \A c \in Commits :
         \/ pc'[c] = pc[c]
         \/ pc'[c] \in {"done", "crashed"}
         \/ pc[c] \in RefundLabels /\ pc'[c] \in RefundLabels
    /\ \A b \in Commits :
         \/ status'[b] = status[b]
         \/ status[b] \notin Unsettled /\ status'[b] \notin Unsettled
    /\ \A b \in Commits : stay'[b] = stay[b] \/ (stay[b] \in Held /\ stay'[b] # "none")

\* So confirm() does no more ...
LEMMA PollLater ==
    ASSUME TypeOK, AtWork, NEW p \in Pollers, PollStep(p)
    PROVE  LaterStep
<1>1. PollMove(p) /\ PollFrame(p)
  BY PollMoves
<1>2. \A c \in Commits : pc'[c] = pc[c]
  BY <1>1, DisjointProcs DEF PollFrame, OthersStay, Procs
<1>3. \A b \in Commits :
         \/ status'[b] = status[b]
         \/ status[b] \notin Unsettled /\ status'[b] \notin Unsettled
  BY <1>1 DEF PollMove, PollFrame, RowTo, Unsettled, AtRest
<1> QED BY <1>1, <1>2, <1>3 DEF LaterStep, PollFrame, world

\* ... nor cancel(), which writes back only what it found ...
LEMMA CancelLater ==
    ASSUME TypeOK, AtWork, Found, NEW x \in Cancellers, CancelStep(x)
    PROVE  LaterStep
<1> DEFINE b == loc[x].booking
<1>1. CancelMove(x) /\ CancelFrame(x)
  BY CancelMoves
<1>2. \A c \in Commits : pc'[c] = pc[c]
  BY <1>1, DisjointProcs DEF CancelFrame, OthersStay, Procs
<1>3. pc[x] \in CancelLabels => loc[x].was \notin Unsettled
  BY DEF Found, CANCELLABLE, Unsettled, Procs
<1>4. \A o \in Commits :
         \/ status'[o] = status[o]
         \/ status[o] \notin Unsettled /\ status'[o] \notin Unsettled
  <2>1. UNCHANGED status \/ \E to, expect :
           RowTo(b, to, expect) /\ to \notin Unsettled /\ expect \intersect Unsettled = {}
    <3>1. CASE UNCHANGED status
      BY <3>1
    <3>2. CASE RowTo(b, "MANUAL_REVIEW", CANCELLABLE)
      BY <3>2 DEF CANCELLABLE, Unsettled
    <3>3. CASE RowTo(b, "CANCELLATION_PENDING", CANCELLABLE)
      BY <3>3 DEF CANCELLABLE, Unsettled
    <3>4. CASE RowTo(b, "CANCELLED", {"CANCELLATION_PENDING"})
      BY <3>4 DEF Unsettled
    <3>5. CASE pc[x] = "cancelSettle" /\ RowTo(b, loc[x].was, {"CANCELLATION_PENDING"})
      BY <1>3, <3>5 DEF Unsettled, CancelLabels
    <3> QED BY <1>1, <3>1, <3>2, <3>3, <3>4, <3>5 DEF CancelMove
  <2> QED BY <2>1 DEF RowTo
<1>5. \A o \in Commits : stay'[o] = stay[o] \/ (stay[o] \in Held /\ stay'[o] # "none")
  BY <1>1 DEF CancelMove, CancelFrame, Held
<1> QED BY <1>1, <1>2, <1>4, <1>5 DEF LaterStep, CancelFrame

\* ... nor #refund, nor a crash ...
LEMMA RefundLater ==
    ASSUME TypeOK, AtWork, NEW p \in Procs, RefundStep(p) \/ Crash(p)
    PROVE  LaterStep
<1>1. RefundMove(p) /\ RefundFrame(p)
  BY RefundMoves
<1>2. \A c \in Commits :
         \/ pc'[c] = pc[c]
         \/ pc'[c] \in {"done", "crashed"}
         \/ pc[c] \in RefundLabels /\ pc'[c] \in RefundLabels
  BY <1>1 DEF RefundMove, RefundFrame, OthersStay, RefundLabels, AtRest, Procs
<1> QED BY <1>1, <1>2 DEF LaterStep, RefundFrame

\* ... nor the supplier, the clock and a release.
LEMMA EnvironmentLater ==
    ASSUME EnvironmentMove
    PROVE  LaterStep
BY DEF EnvironmentMove, LaterStep, table, Held

\* Stage survives what others do.
LEMMA LaterStage ==
    ASSUME Stage, LaterStep
    PROVE  Stage'
<1> SUFFICES ASSUME NEW c \in Commits PROVE Stage!(c)'
  BY DEF Stage
<1> QED
  BY DEF Stage, LaterStep, BeforeRow, BeforeBook, Unsettled, RefundLabels, Held

\* So does a key's one row: LaterStep adds none.
LEMMA LaterOneRow ==
    ASSUME OneRow, LaterStep
    PROVE  OneRow'
BY DEF OneRow, LaterStep, HasRow, Unsettled

\* A commit's step keeps its stage.
LEMMA CommitStage ==
    ASSUME Stage, NEW c \in Commits, CommitMove(c), CommitFrame(c)
    PROVE  Stage'
<1> SUFFICES ASSUME NEW b \in Commits PROVE Stage!(b)'
  BY DEF Stage
<1>1. CASE b # c
  BY <1>1 DEF Stage, CommitFrame, OthersStay, SameRow, SameWorld, Procs
<1>2. CASE b = c
  <2> USE DEF CommitMove, SameRow, SameWorld, BeforeRow
  <2>1. Stage!(c)
    BY DEF Stage
  <2>2. /\ pc'[c] \in BeforeRow => status'[c] = "NO_ROW"
        /\ pc'[c] \in {"charge", "declined", "hold"} => status'[c] = "PRECHECK_PASSED"
    BY <2>1
  <2>3. pc'[c] \in {"consume", "lostDeal", "book", "answer", "settle"}
          => status'[c] = "PAYMENT_HELD" /\ payment'[c]
    BY <2>1
  <2>4. /\ pc'[c] \in {"charge", "declined"} => captured'[c] = 0
        /\ pc'[c] \in {"hold", "consume", "lostDeal", "book"} => captured'[c] = Price
        /\ pc'[c] \in BeforeBook \union {"declined", "lostDeal"} => stay'[c] = "none"
    BY <2>1 DEF BeforeBook
  <2>5. status'[c] = "NO_ROW" =>
             /\ pc'[c] \in BeforeRow \union {"done", "crashed"}
             /\ captured'[c] = 0 /\ stay'[c] = "none"
    BY <2>1
  <2>6. status'[c] \notin Unsettled => captured'[c] = 0 \/ payment'[c]
    BY <2>1 DEF Unsettled
  <2> QED BY <1>2, <2>2, <2>3, <2>4, <2>5, <2>6
<1> QED BY <1>1, <1>2

\* The insert is refused where a row has the key already.
LEMMA CommitOneRow ==
    ASSUME OneRow, NEW c \in Commits, CommitMove(c), CommitFrame(c), Stage
    PROVE  OneRow'
<1>1. \A b \in Commits \ {c} : status'[b] = status[b]
  BY DEF CommitFrame, SameRow
<1>2. HasRow(c)' => HasRow(c) \/ ~Duplicate(c)
  BY DEF CommitMove, Stage, SameRow, HasRow, BeforeRow
<1> QED BY <1>1, <1>2 DEF OneRow, HasRow, Duplicate, CommitFrame

\* A canceller keeps what it found.
LEMMA FoundNext ==
    ASSUME TypeOK, AtWork, Stage, Found, [Next]_vars
    PROVE  Found'
<1> USE DEF OthersStay, Procs
<1>1. ASSUME NEW c \in Commits, CommitStep(c) PROVE Found'
  <2>1. CommitMove(c) /\ CommitFrame(c)
    BY <1>1, CommitMoves
  <2>2. pc'[c] \notin CancelLabels
    BY <2>1 DEF CommitMove, CancelLabels, BeforeRow
  <2> QED BY <2>1, <2>2 DEF Found, CommitFrame
<1>2. ASSUME NEW p \in Pollers, PollStep(p) PROVE Found'
  <2>1. PollMove(p) /\ PollFrame(p)
    BY <1>2, PollMoves
  <2>2. pc'[p] \notin CancelLabels
    BY <2>1 DEF PollMove, CancelLabels, AtRest
  <2> QED BY <2>1, <2>2 DEF Found, PollFrame
<1>3. ASSUME NEW x \in Cancellers, CancelStep(x) PROVE Found'
  <2>1. CancelMove(x) /\ CancelFrame(x)
    BY <1>3, CancelMoves
  <2>2. pc'[x] \in CancelLabels => loc'[x].was \in CANCELLABLE
    BY <2>1 DEF Found, CancelMove, CancelLabels, AtRest
  <2> QED BY <2>1, <2>2 DEF Found, CancelFrame
<1>4. ASSUME NEW p \in Procs, RefundStep(p) \/ Crash(p) PROVE Found'
  <2>1. RefundMove(p) /\ RefundFrame(p)
    BY <1>4, RefundMoves
  <2>2. pc'[p] \notin CancelLabels
    BY <2>1 DEF RefundMove, CancelLabels, AtRest
  <2> QED BY <2>1, <2>2 DEF Found, RefundFrame
<1>5. CASE UNCHANGED <<pc, loc>>
  BY <1>5 DEF Found
<1> QED
  BY <1>1, <1>2, <1>3, <1>4, <1>5 DEF Next, SupplierDecides, Expire, Redeploy, vars

\* Every step keeps the rows as they should be.
LEMMA RowsNext ==
    ASSUME TypeOK, AtWork, Rows, [Next]_vars
    PROVE  Rows'
<1> USE DEF Rows
<1>1. Found'
  BY FoundNext
<1>2. ASSUME NEW c \in Commits, CommitStep(c) PROVE Stage' /\ OneRow'
  BY <1>2, CommitMoves, CommitStage, CommitOneRow
<1>3. CASE LaterStep
  BY <1>1, <1>3, LaterStage, LaterOneRow
<1> QED
  BY <1>1, <1>2, <1>3, PollLater, CancelLater, RefundLater, EnvironmentMoves,
     EnvironmentLater DEF Next

\* At first there are no rows.
LEMMA RowsInit == Init => Rows
BY DEF Init, Rows, Stage, OneRow, Found, HasRow, BeforeRow, BeforeBook, Unsettled,
   CancelLabels, Procs

\* What all the proofs below start from.
Sound == TypeOK /\ AtWork /\ Money /\ Rows

\* It holds at first ...
LEMMA SoundInit == Init => Sound
BY TypeInit, MoneyInit, RowsInit DEF Init, AtWork, AtRest, Fresh, Procs, Sound

\* ... and after every step.
LEMMA SoundNext == Sound /\ [Next]_vars => Sound'
BY TypeNext, AtWorkNext, MoneyNext, RowsNext DEF Sound

\* A key is charged once: at most one commit under a key has a row, takes money
\* or reaches the supplier, however its copies interleave.
THEOREM ChargedOncePerKey == Spec => []OneBookingPerKey
<1>1. Sound => OneBookingPerKey
  BY DEF Sound, Rows, Stage, OneRow, OneBookingPerKey, HasRow, TypeOK
<1> QED BY <1>1, SoundInit, SoundNext, PTL DEF Spec

-----------------------------------------------------------------------------
(* No refund while the supplier holds the stay.                            *)

\* The supplier holds nothing, and will not: it was asked and decided, or its
\* commit is past asking.
Over(b) == stay[b] \notin Held /\ (stay[b] = "none" => pc[b] \notin BeforeBook)

\* A process that refunds, or is about to write that nothing is held.
Sure(p) ==
    \/ pc[p] \in RefundLabels
    \/ /\ pc[p] \in {"settle", "pollSettle", "cancelSettle"}
       /\ loc[p].answer \in {"FAILED", "CANCELLED", "CANCELLED_FX"}

\* A row, or money, that says so.
Says(b) ==
    status[b] \in {"FAILED", "CANCELLED"} \/ returned[b] > 0 \/ refund[b].status # "NONE"

\* Whoever says that a stay is over, on record or in hand, is right.
Justified ==
    /\ \A b \in Commits : Says(b) => Over(b)
    /\ \A p \in Procs : Sure(p) => Over(loc[p].booking)

\* What is over stays over.
LEMMA OverStays ==
    ASSUME Sound, [Next]_vars, NEW b \in Commits, Over(b)
    PROVE  Over(b)'
<1> USE DEF Sound, Rows
<1>1. ASSUME NEW c \in Commits, CommitStep(c) PROVE Over(b)'
  <2>1. CommitMove(c) /\ CommitFrame(c)
    BY <1>1, CommitMoves
  <2>2. CASE b # c
    BY <2>1, <2>2 DEF CommitFrame, OthersStay, SameWorld, Over, Procs
  <2>3. CASE b = c
    <3>1. pc[c] \in BeforeBook => stay[c] = "none"
      BY DEF Stage
    <3>2. pc[c] \notin BeforeBook
      BY <2>3, <3>1 DEF Over
    <3>3. stay'[c] = stay[c] /\ pc'[c] \notin BeforeBook
      BY <2>1, <3>2 DEF CommitMove, SameWorld, BeforeBook, BeforeRow
    <3> QED BY <2>3, <3>3 DEF Over
  <2> QED BY <2>2, <2>3
<1>2. CASE LaterStep
  BY <1>2 DEF LaterStep, Over, BeforeBook, BeforeRow, RefundLabels
<1> QED
  BY <1>1, <1>2, PollLater, CancelLater, RefundLater, EnvironmentMoves, EnvironmentLater
     DEF Next

\* It is enough to look at the process that moves and the rows it writes.
LEMMA JustifiedBy ==
    ASSUME Sound, Justified, [Next]_vars, NEW p \in Procs, OthersStay(p),
           Sure(p)' => \E b \in Commits : loc'[p].booking = b /\ Over(b)',
           \A b \in Commits : Says(b)' => Says(b) \/ Over(b)'
    PROVE  Justified'
<1>1. \A b \in Commits : Over(b) => Over(b)'
  BY OverStays
<1>2. \A b \in Commits : Says(b)' => Over(b)'
  BY <1>1 DEF Justified
<1>3. \A q \in Procs : Sure(q)' => Over(loc[q].booking)'
  <2> SUFFICES ASSUME NEW q \in Procs, Sure(q)'
               PROVE  \E b \in Commits : loc'[q].booking = b /\ Over(b)'
    BY DEF Over
  <2>1. CASE q = p
    BY <2>1
  <2>2. CASE q # p
    <3>1. Sure(q) /\ loc'[q] = loc[q]
      BY <2>2 DEF OthersStay, Sure
    <3>2. loc[q].booking \in Commits
      BY <3>1 DEF Sound, AtWork, Sure, RefundLabels, AtRest
    <3> QED BY <1>1, <3>1, <3>2 DEF Justified
  <2> QED BY <2>1, <2>2
<1> QED BY <1>2, <1>3 DEF Justified

\* A commit is sure when it lost its deal, was refused, or was told FAILED.
LEMMA JustifiedCommit ==
    ASSUME Sound, Justified, NEW c \in Commits, CommitStep(c)
    PROVE  Justified'
<1> USE DEF Sound, Rows
<1>1. CommitMove(c) /\ CommitFrame(c)
  BY CommitMoves
<1>2. \A b \in Commits : Over(b) => Over(b)'
  BY OverStays DEF Next
<1>3. /\ pc[c] \in BeforeBook \union {"declined", "lostDeal"} => stay[c] = "none"
      /\ pc[c] \in BeforeRow => status[c] = "NO_ROW"
  BY DEF Stage
<1>4. loc[c].booking = c
  BY DEF AtWork
<1>5. Sure(c)' => Over(c)'
  <2>1. CASE pc[c] = "lostDeal" \/ (pc[c] = "book" /\ pc'[c] = "settle")
    BY <1>1, <1>3, <2>1 DEF CommitMove, SameWorld, Over, Held, BeforeBook, BeforeRow
  <2>2. CASE pc[c] = "answer"
    BY <1>1, <2>2 DEF CommitMove, SameWorld, Over, Held, Sure, Reports, RefundLabels, BeforeRow
  <2>3. CASE pc[c] = "settle"
    <3>1. Sure(c)' => Sure(c)
      BY <1>1, <2>3 DEF CommitMove, Sure, RefundLabels, BeforeRow
    <3> QED BY <1>2, <1>4, <3>1 DEF Justified, Procs
  <2> QED
    BY <1>1, <2>1, <2>2, <2>3 DEF CommitMove, Sure, RefundLabels, BeforeRow
<1>6. status'[c] \in {"FAILED", "CANCELLED"} => Over(c)'
  <2>1. CASE pc[c] = "lostDeal" \/ pc[c] = "declined"
    BY <1>1, <1>3, <2>1 DEF CommitMove, SameWorld, Over, Held, BeforeBook, BeforeRow
  <2>2. CASE pc[c] = "settle" /\ loc[c].answer = "FAILED"
    BY <1>2, <1>4, <2>2 DEF Justified, Sure, Procs
  <2>3. CASE SameRow(c)
    BY <1>2, <2>3 DEF Justified, Says, SameRow
  <2> QED
    BY <1>1, <2>1, <2>2, <2>3 DEF CommitMove
<1>7. \A b \in Commits : Says(b)' => Says(b) \/ Over(b)'
  BY <1>1, <1>6 DEF Says, CommitFrame, SameRow
<1> QED BY <1>1, <1>5, <1>7, JustifiedBy DEF CommitFrame, Next, Procs

\* A poller is sure when the supplier told it; what it was told stays so.
LEMMA JustifiedPoll ==
    ASSUME Sound, Justified, NEW p \in Pollers, PollStep(p)
    PROVE  Justified'
<1> DEFINE b == loc[p].booking
<1> USE DEF Sound, Rows
<1>1. PollMove(p) /\ PollFrame(p)
  BY PollMoves
<1>2. \A o \in Commits : Over(o) => Over(o)'
  BY OverStays DEF Next
<1>3. Sure(p) => \E o \in Commits : o = b /\ Over(o)'
  BY <1>1, <1>2 DEF Justified, PollFrame, Sure, RefundLabels, AtRest, Procs
<1>4. Sure(p)' => \E o \in Commits : loc'[p].booking = o /\ Over(o)'
  <2>1. CASE pc[p] = "ask" /\ pc'[p] = "pollSettle"
    <3>1. loc'[p].booking = b /\ b \in Commits /\ UNCHANGED stay
      BY <1>1, <2>1 DEF PollMove, PollFrame, AtRest, world
    <3>2. Sure(p)' => stay[b] \in {"failed", "cancelled"}
      BY <1>1, <2>1 DEF PollMove, PollAnswer, Sure, RefundLabels, AtRest
    <3> QED BY <3>1, <3>2 DEF Over, Held
  <2>2. CASE pc'[p] = "claim"
    BY <1>1, <1>3, <2>2 DEF PollMove, Sure, AtRest
  <2> QED BY <1>1, <2>1, <2>2 DEF PollMove, Sure, RefundLabels, AtRest
<1>5. \A o \in Commits : Says(o)' => Says(o) \/ Over(o)'
  <2> SUFFICES ASSUME NEW o \in Commits, status'[o] \in {"FAILED", "CANCELLED"}, status'[o] # status[o]
               PROVE  Over(o)'
    BY <1>1 DEF Says, PollFrame, world
  <2>1. o = b /\ Sure(p)
    BY <1>1 DEF PollMove, RowTo, Sure
  <2> QED BY <1>3, <2>1
<1> QED BY <1>1, <1>4, <1>5, JustifiedBy DEF PollFrame, Next, Procs

\* A canceller is sure when the supplier accepted.
LEMMA JustifiedCancel ==
    ASSUME Sound, Justified, NEW x \in Cancellers, CancelStep(x)
    PROVE  Justified'
<1> DEFINE b == loc[x].booking
<1> USE DEF Sound, Rows
<1>1. CancelMove(x) /\ CancelFrame(x)
  BY CancelMoves
<1>2. \A o \in Commits : Over(o) => Over(o)'
  BY OverStays DEF Next
<1>3. Sure(x) => \E o \in Commits : o = b /\ Over(o)'
  BY <1>1, <1>2 DEF Justified, CancelFrame, Sure, RefundLabels, AtRest, Procs
<1>4. Sure(x)' => \E o \in Commits : loc'[x].booking = o /\ Over(o)'
  <2>1. CASE pc[x] = "cancelAsk" /\ stay'[b] = "cancelled" /\ loc'[x].booking = b
    BY <1>1, <2>1 DEF CancelFrame, AtRest, Over, Held
  <2>2. CASE pc'[x] = "claim"
    BY <1>1, <1>3, <2>2 DEF CancelMove, Sure, AtRest
  <2> QED BY <1>1, <2>1, <2>2 DEF CancelMove, Sure, RefundLabels, AtRest
<1>5. \A o \in Commits : Says(o)' => Says(o) \/ Over(o)'
  <2> SUFFICES ASSUME NEW o \in Commits, status'[o] \in {"FAILED", "CANCELLED"}, status'[o] # status[o]
               PROVE  Over(o)'
    BY <1>1 DEF Says, CancelFrame
  <2>1. o = b /\ Sure(x)
    BY <1>1 DEF CancelMove, RowTo, Sure, Found, CancelLabels, CANCELLABLE, Procs
  <2> QED BY <1>3, <2>1
<1> QED BY <1>1, <1>4, <1>5, JustifiedBy DEF CancelFrame, Next, Procs

\* Who refunds is sure already.
LEMMA JustifiedRefund ==
    ASSUME Sound, Justified, NEW p \in Procs, RefundStep(p) \/ Crash(p)
    PROVE  Justified'
<1> DEFINE b == loc[p].booking
<1> USE DEF Sound, Rows
<1>1. RefundMove(p) /\ RefundFrame(p)
  BY RefundMoves
<1>2. \A o \in Commits : Over(o) => Over(o)'
  BY OverStays DEF Next
<1>3. pc[p] \in RefundLabels => \E o \in Commits : o = b /\ Over(o)'
  BY <1>1, <1>2 DEF Justified, RefundFrame, Sure
<1>4. Sure(p)' => \E o \in Commits : loc'[p].booking = o /\ Over(o)'
  BY <1>1, <1>3 DEF RefundMove, RefundFrame, Sure, RefundLabels, AtRest
<1>5. \A o \in Commits : Says(o)' => Says(o) \/ Over(o)'
  BY <1>1, <1>3 DEF RefundMove, RefundFrame, Says, RefundLabels
<1> QED BY <1>1, <1>4, <1>5, JustifiedBy DEF RefundFrame, Next

\* Every step keeps it.
LEMMA JustifiedNext == Sound /\ Justified /\ [Next]_vars => Justified'
<1> SUFFICES ASSUME Sound, Justified, [Next]_vars PROVE Justified'
  OBVIOUS
<1>1. CASE EnvironmentMove
  <2>1. \A b \in Commits : Over(b) => Over(b)'
    BY OverStays
  <2>2. \A b \in Commits : Says(b)' => Over(b)'
    BY <1>1, <2>1 DEF Justified, Says, EnvironmentMove, table
  <2>3. \A p \in Procs : Sure(p)' => Over(loc[p].booking)'
    <3> SUFFICES ASSUME NEW p \in Procs, Sure(p)'
                 PROVE  \E b \in Commits : loc'[p].booking = b /\ Over(b)'
      BY DEF Over
    <3>1. Sure(p) /\ loc'[p] = loc[p]
      BY <1>1 DEF EnvironmentMove, Sure
    <3>2. loc[p].booking \in Commits
      BY <3>1 DEF Sound, AtWork, Sure, RefundLabels, AtRest
    <3> QED BY <2>1, <3>1, <3>2 DEF Justified
  <2> QED BY <2>2, <2>3 DEF Justified
<1> QED
  BY <1>1, JustifiedCommit, JustifiedPoll, JustifiedCancel, JustifiedRefund,
     EnvironmentMoves DEF Next, Sound

\* Nobody says anything at first.
LEMMA JustifiedInit == Init => Justified
BY DEF Init, Justified, Says, Sure, NoRefund, RefundLabels, Procs

\* Nobody is refunded a stay the supplier holds or may still come to hold, and
\* neither FAILED nor CANCELLED is written on an outcome that is merely unknown.
THEOREM RefundedWhenOver == Spec => []NoRefundWhileHeld
<1>1. Justified => NoRefundWhileHeld
  BY DEF Justified, Says, Over, NoRefundWhileHeld
<1> QED BY <1>1, SoundInit, SoundNext, JustifiedInit, JustifiedNext, PTL DEF Spec

-----------------------------------------------------------------------------
(* The path keeps the abstract promise.                                    *)

\* A room, case by case.
RoomIs(b) ==
    /\ stay[b] \in {"failed", "cancelled"} => RoomOf[b] = "gone"
    /\ stay[b] = "none" /\ returned[b] > 0 => RoomOf[b] = "gone"
    /\ stay[b] = "none" /\ returned[b] = 0 => RoomOf[b] = "none"
    /\ stay[b] \in {"sent", "pending"}     => RoomOf[b] = "open"
    /\ stay[b] \in {"confirmed", "on_hold"} => RoomOf[b] = "held"

\* The cases are those of RoomOf, before and after a step.
LEMMA RoomValues ==
    ASSUME NEW b \in Commits
    PROVE  RoomIs(b) /\ RoomIs(b)'
<1>1. RoomIs(b)
  BY DEF RoomIs, RoomOf
<1>2. RoomIs(b)'
  BY DEF RoomIs, RoomOf
<1> QED BY <1>1, <1>2

\* A step that changes one room at most changes RoomOf there.
LEMMA RoomChanges ==
    ASSUME TypeOK, TypeOK', NEW b \in Commits,
           \A o \in Commits \ {b} : stay'[o] = stay[o] /\ returned'[o] = returned[o]
    PROVE  RoomOf' = [RoomOf EXCEPT ![b] = RoomOf'[b]]
<1>1. \A o \in Commits \ {b} : RoomOf'[o] = RoomOf[o]
  <2> SUFFICES ASSUME NEW o \in Commits \ {b} PROVE RoomOf'[o] = RoomOf[o]
    OBVIOUS
  <2>1. stay[o] \in Stays /\ returned[o] \in Nat
    BY DEF TypeOK
  <2>2. RoomIs(o) /\ RoomIs(o)'
    BY RoomValues
  <2> QED BY <2>1, <2>2 DEF RoomIs, Stays
<1>2. RoomOf \in [Commits -> {"none", "open", "held", "gone"}]
  BY DEF RoomOf, TypeOK, Stays
<1>3. RoomOf' \in [Commits -> {"none", "open", "held", "gone"}]
  BY DEF RoomOf, TypeOK, Stays
<1> QED BY <1>1, <1>2, <1>3

\* A step that moves neither money nor a stay is a stutter of the promise.
LEMMA PromiseStutters ==
    ASSUME UNCHANGED <<request, captured, returned, stay>>
    PROVE  UNCHANGED Promise!vars
BY DEF Promise!vars, RoomOf

\* The initial states are initial states of the promise.
LEMMA PromiseInit == Init => Promise!Init
BY DEF Init, Promise!Init, RoomOf

\* A commit takes the money of its key, and asks for the room it took it for.
LEMMA PromiseCommit ==
    ASSUME Sound, Sound', Justified, NEW c \in Commits, CommitStep(c)
    PROVE  [Promise!Next]_(Promise!vars)
<1> USE DEF Sound, Rows
<1>1. CommitMove(c) /\ CommitFrame(c)
  BY CommitMoves
<1>2. UNCHANGED <<returned, request>> /\ \A b \in Commits \ {c} : SameWorld(b)
  BY <1>1 DEF CommitFrame
<1>3. CASE SameWorld(c)
  <2>1. UNCHANGED <<captured, stay>>
    BY <1>2, <1>3 DEF TypeOK, SameWorld
  <2> QED BY <1>2, <2>1, PromiseStutters
<1>4. CASE pc[c] = "charge" /\ captured'[c] = Price /\ stay'[c] = stay[c]
  <2>1. captured' = [captured EXCEPT ![c] = Price]
    BY <1>2, <1>4 DEF TypeOK, SameWorld
  <2>2. UNCHANGED stay
    BY <1>2, <1>4 DEF TypeOK, SameWorld
  <2>3. HasRow(c) /\ captured[c] = 0
    BY <1>4 DEF Stage, HasRow
  <2>4. \A o \in Commits : request[o].key = request[c].key => captured[o] = 0
    BY <2>3 DEF OneRow, Stage, HasRow
  <2>5. Promise!Take(c)
    BY <1>2, <2>1, <2>2, <2>4 DEF Promise!Take, RoomOf
  <2> QED BY <2>5 DEF Promise!Next
<1>5. CASE pc[c] = "book" /\ stay'[c] = "sent" /\ captured'[c] = captured[c]
  <2>1. UNCHANGED captured
    BY <1>2, <1>5 DEF TypeOK, SameWorld
  <2>2. captured[c] = Price /\ stay[c] = "none"
    BY <1>5 DEF Stage, BeforeBook
  <2>3. returned[c] = 0
    BY <1>5, <2>2 DEF Justified, Says, Over, BeforeBook, TypeOK
  <2>4. RoomOf[c] = "none" /\ RoomOf'[c] = "open"
    BY <1>5, <2>2, <2>3, RoomValues DEF RoomIs
  <2>5. RoomOf' = [RoomOf EXCEPT ![c] = "open"]
    BY <1>2, <2>4, RoomChanges DEF SameWorld
  <2>6. Promise!AskForRoom(c)
    BY <1>2, <2>1, <2>2, <2>4, <2>5 DEF Promise!AskForRoom
  <2> QED BY <2>6 DEF Promise!Next
<1> QED BY <1>1, <1>3, <1>4, <1>5 DEF CommitMove

\* A step that ends a stay decides or releases a room.
LEMMA PromiseStay ==
    ASSUME TypeOK, TypeOK', UNCHANGED <<request, captured, returned>>, NEW b \in Commits,
           \A o \in Commits \ {b} : stay'[o] = stay[o],
           \/ /\ stay[b] \in {"sent", "pending"}
              /\ stay'[b] \in {"pending", "confirmed", "on_hold", "failed", "cancelled"}
           \/ stay[b] \in {"confirmed", "on_hold"} /\ stay'[b] = "cancelled"
    PROVE  [Promise!Next]_(Promise!vars)
<1>1. RoomOf' = [RoomOf EXCEPT ![b] = RoomOf'[b]]
  BY RoomChanges
<1>2. CASE stay[b] \in {"sent", "pending"} /\ stay'[b] = "pending"
  <2>1. RoomOf[b] = "open" /\ RoomOf'[b] = "open"
    BY <1>2, RoomValues DEF RoomIs
  <2>2. RoomOf' = RoomOf
    BY <1>1, <2>1 DEF RoomOf
  <2> QED BY <2>2 DEF Promise!vars
<1>3. CASE stay[b] \in {"sent", "pending"} /\ stay'[b] # "pending"
  <2>1. RoomOf[b] = "open" /\ RoomOf'[b] \in {"held", "gone"}
    BY <1>3, RoomValues DEF RoomIs
  <2>2. Promise!Decide(b)
    BY <1>1, <2>1 DEF Promise!Decide
  <2> QED BY <2>2 DEF Promise!Next
<1>4. CASE stay[b] \in {"confirmed", "on_hold"} /\ stay'[b] = "cancelled"
  <2>1. RoomOf[b] = "held" /\ RoomOf'[b] = "gone"
    BY <1>4, RoomValues DEF RoomIs
  <2>2. Promise!Release(b)
    BY <1>1, <2>1 DEF Promise!Release
  <2> QED BY <2>2 DEF Promise!Next
<1> QED BY <1>2, <1>3, <1>4

\* A payment gives back money for a room that is gone.
LEMMA PromiseRefund ==
    ASSUME Sound, Sound', Justified, NEW p \in Procs, RefundStep(p) \/ Crash(p)
    PROVE  [Promise!Next]_(Promise!vars)
<1> DEFINE b == loc[p].booking
<1> USE DEF Sound
<1>1. RefundMove(p) /\ RefundFrame(p)
  BY RefundMoves
<1>2. UNCHANGED <<request, captured, stay>> /\ b \in Commits
  BY <1>1 DEF RefundFrame
<1>3. CASE UNCHANGED returned
  BY <1>2, <1>3, PromiseStutters
<1>4. CASE pc[p] = "pay" /\ returned' = [returned EXCEPT ![b] = @ + loc[p].amount]
  <2>1. payment[b] /\ loc[p].amount <= Price /\ returned[b] = 0 /\ captured[b] = Price
    BY <1>2, <1>4 DEF Money, Owed, NotYetPaid, ChargedOnce, RefundLabels
  <2>2. loc[p].amount \in Nat
    BY DEF TypeOK, Locals
  <2>3. returned' = [returned EXCEPT ![b] = loc[p].amount]
    <3>1. returned[b] + loc[p].amount = loc[p].amount
      BY <2>1, <2>2
    <3> QED BY <1>4, <3>1
  <2>4. CASE loc[p].amount = 0
    <3>1. UNCHANGED returned
      BY <1>2, <2>1, <2>3, <2>4 DEF TypeOK
    <3> QED BY <1>2, <3>1, PromiseStutters
  <2>5. CASE loc[p].amount # 0
    <3>1. loc[p].amount \in 1..captured[b] /\ returned'[b] > 0
      BY <1>2, <2>1, <2>2, <2>3, <2>5, PriceAssumption DEF TypeOK
    <3>2. stay[b] \in {"none", "failed", "cancelled"}
      BY <1>2, <1>4 DEF Justified, Sure, Over, Held, RefundLabels, TypeOK, Stays
    <3>3. RoomOf[b] \in {"none", "gone"} /\ RoomOf'[b] = "gone"
      BY <1>2, <2>1, <3>1, <3>2, RoomValues DEF RoomIs
    <3>4. RoomOf' = [RoomOf EXCEPT ![b] = "gone"]
      BY <1>1, <1>2, <3>3, RoomChanges DEF RefundFrame
    <3>5. Promise!GiveBack(b)
      BY <1>2, <2>1, <2>3, <3>1, <3>3, <3>4 DEF Promise!GiveBack
    <3> QED BY <1>2, <3>5 DEF Promise!Next
  <2> QED BY <2>4, <2>5
<1> QED BY <1>1, <1>3, <1>4 DEF RefundMove

\* Every step is a step of the promise, or none.
LEMMA PromiseNext ==
    ASSUME Sound, Sound', Justified, [Next]_vars
    PROVE  [Promise!Next]_(Promise!vars)
<1> USE DEF Sound
<1>1. ASSUME NEW p \in Pollers, PollStep(p) PROVE [Promise!Next]_(Promise!vars)
  BY <1>1, PollMoves, PromiseStutters DEF PollFrame, world
<1>2. ASSUME NEW x \in Cancellers, CancelStep(x) PROVE [Promise!Next]_(Promise!vars)
  <2> DEFINE b == loc[x].booking
  <2>1. CancelMove(x) /\ CancelFrame(x)
    BY <1>2, CancelMoves
  <2>2. CASE UNCHANGED stay
    BY <2>1, <2>2, PromiseStutters DEF CancelFrame
  <2>3. CASE /\ pc[x] = "cancelAsk" /\ stay[b] \in {"pending", "confirmed", "on_hold"}
             /\ stay'[b] = "cancelled"
    BY <2>1, <2>3, PromiseStay DEF CancelFrame, AtRest
  <2>4. CASE pc[x] = "cancelAsk" /\ stay'[b] = stay[b]
    BY <2>1, <2>2, <2>4 DEF CancelFrame, TypeOK
  <2> QED BY <2>1, <2>2, <2>3, <2>4 DEF CancelMove
<1>3. ASSUME NEW b \in Commits, SupplierDecides(b) PROVE [Promise!Next]_(Promise!vars)
  <2>1. /\ UNCHANGED <<request, captured, returned>>
        /\ stay[b] \in {"sent", "pending"}
        /\ stay'[b] \in {"pending", "confirmed", "on_hold", "failed"}
        /\ \A o \in Commits \ {b} : stay'[o] = stay[o]
    BY <1>3 DEF SupplierDecides, TypeOK
  <2> QED BY <2>1, PromiseStay
<1>4. CASE (\E d \in Deals : Expire(d)) \/ Redeploy \/ UNCHANGED vars
  BY <1>4, PromiseStutters DEF Expire, Redeploy, vars, world
<1> QED BY <1>1, <1>2, <1>3, <1>4, PromiseCommit, PromiseRefund DEF Next

\* commit, confirm and cancel, however their requests interleave, fail and die,
\* implement the abstract promise about money and rooms.
THEOREM PromiseKept == Spec => KeepsPromise
<1>1. Sound /\ Justified /\ [Next]_vars => Sound' /\ Justified'
  BY SoundNext, JustifiedNext
<1>2. Sound /\ Sound' /\ Justified /\ [Next]_vars => [Promise!Next]_(Promise!vars)
  BY PromiseNext
<1> QED
  BY <1>1, <1>2, SoundInit, JustifiedInit, PromiseInit, PTL
     DEF Spec, KeepsPromise, Promise!Spec

-----------------------------------------------------------------------------
(* The lock on a deal.                                                     *)

\* A commit that took the deal, and is at the supplier's door or was there.
Passed(b) == pc[b] = "book" \/ stay[b] # "none"

\* Who passed left no token behind, and was alone, unless a reseal brought one back.
Locked ==
    /\ \A b \in Commits : Passed(b) => ~token[DealOf(b)] \/ DealOf(b) \in revived
    /\ \A b1, b2 \in Commits :
         b1 # b2 /\ DealOf(b1) = DealOf(b2) /\ Passed(b1) /\ Passed(b2)
           => DealOf(b1) \in revived

\* Nobody passes but by taking the token, and only a reseal puts one there.
LEMMA LockStays ==
    ASSUME Locked, UNCHANGED <<request, revived>>,
           \A d \in Deals : token'[d] => token[d], \A b \in Commits : DealOf(b) \in Deals,
           \A b \in Commits : Passed(b)' => Passed(b)
    PROVE  Locked'
BY DEF Locked, DealOf

\* Every step keeps the lock.
LEMMA LockedNext == Sound /\ Locked /\ [Next]_vars => Locked'
<1> SUFFICES ASSUME Sound, Locked, [Next]_vars PROVE Locked'
  OBVIOUS
<1> USE DEF Sound, Rows
<1>1. \A b \in Commits : DealOf(b) \in Deals
  BY DEF TypeOK, DealOf
<1>2. ASSUME NEW c \in Commits, CommitStep(c) PROVE Locked'
  <2>1. CommitMove(c) /\ CommitFrame(c)
    BY <1>2, CommitMoves
  <2>2. UNCHANGED request /\ \A b \in Commits \ {c} : Passed(b)' = Passed(b)
    BY <2>1 DEF CommitFrame, OthersStay, SameWorld, Passed, Procs
  <2>3. CASE Consume(c)
    <3>1. /\ revived' = revived /\ ~token'[DealOf(c)]
          /\ \A d \in Deals : token'[d] => token[d]
          /\ pc[c] = "consume" /\ (pc'[c] = "book" => token[DealOf(c)]) /\ stay'[c] = stay[c]
      BY <1>1, <2>3, GotoStays DEF Consume, deleted, TypeOK, Procs, world
    <3>2. stay[c] = "none" \/ Passed(c)
      BY DEF Passed
    <3>3. CASE Passed(c)' => Passed(c)
      BY <1>1, <2>2, <3>1, <3>3, LockStays
    <3>4. CASE Passed(c)' /\ ~Passed(c)
      <4>1. token[DealOf(c)]
        BY <3>1, <3>4 DEF Passed
      <4>2. \A b \in Commits \ {c} : Passed(b)' /\ DealOf(b) = DealOf(c) => DealOf(c) \in revived
        BY <2>2, <4>1 DEF Locked
      <4> QED BY <1>1, <2>2, <3>1, <4>2 DEF Locked, DealOf
    <3> QED BY <3>3, <3>4
  <2>4. CASE ResealWrite(c)
    <3>1. /\ \A d \in Deals \ {DealOf(c)} : token'[d] = token[d]
          /\ revived \subseteq revived'
          /\ DealOf(c) \in revived' \/ token[DealOf(c)]
      BY <1>1, <2>4 DEF ResealWrite, TypeOK
    <3>2. pc[c] = "resealWrite" /\ pc'[c] = "decide" /\ stay'[c] = stay[c]
      BY <2>4, GotoStays DEF ResealWrite, world, Procs
    <3>3. \A b \in Commits : Passed(b)' => Passed(b)
      BY <2>2, <3>2 DEF Passed
    <3> QED BY <1>1, <2>2, <3>1, <3>3 DEF Locked, DealOf
  <2>5. CASE ~Consume(c) /\ ~ResealWrite(c)
    <3>1. UNCHANGED <<token, revived>> /\ pc[c] # "consume"
      BY <1>2, <2>5
         DEF CommitStep, Replay, Resolve, Precheck, ResealRead, Decide, ReadQuote, Create,
             Charge, Decline, Hold, LoseDeal, Book, Answer, SettleBooked, SettlePending,
             SettleRefused
    <3>2. Passed(c)' => Passed(c)
      BY <2>1, <3>1 DEF CommitMove, SameWorld, Passed, BeforeRow
    <3> QED BY <1>1, <2>2, <3>1, <3>2, LockStays
  <2> QED BY <2>3, <2>4, <2>5
<1>3. CASE LaterStep /\ UNCHANGED revived /\ \A d \in Deals : token'[d] => token[d]
  <2>1. \A b \in Commits : Passed(b)' => Passed(b)
    BY <1>3 DEF LaterStep, Passed, Held, RefundLabels
  <2> QED BY <1>1, <1>3, <2>1, LockStays DEF LaterStep
<1>4. ASSUME NEW p \in Pollers, PollStep(p) PROVE Locked'
  BY <1>3, <1>4, PollLater
     DEF PollStep, StartPoll, PollReview, AskInVain, Ask, PollSettleBooked, PollSettleFailed
<1>5. ASSUME NEW x \in Cancellers, CancelStep(x) PROVE Locked'
  BY <1>3, <1>5, CancelLater
     DEF CancelStep, StartCancel, WithdrawReview, Withdraw, CancelAccept, CancelInVain,
         CancelReject, Restore, CancelSettle
<1>6. ASSUME NEW p \in Procs, RefundStep(p) \/ Crash(p) PROVE Locked'
  BY <1>3, <1>6, RefundLater DEF RefundStep, Claim, Pay, SettleRefund, Crash
<1>7. CASE \/ \E b \in Commits : SupplierDecides(b)
           \/ \E d \in Deals : Expire(d)
           \/ Redeploy
           \/ UNCHANGED vars
  <2>1. UNCHANGED revived /\ \A d \in Deals : token'[d] => token[d]
    BY <1>7 DEF SupplierDecides, Expire, Redeploy, vars, TypeOK
  <2> QED BY <1>3, <1>7, <2>1, EnvironmentMoves, EnvironmentLater
<1> QED BY <1>2, <1>4, <1>5, <1>6, <1>7 DEF Next

\* Every token is there at first, and nobody passed.
LEMMA LockedInit == Init => Locked
BY DEF Init, Locked, Passed, Procs

\* Two bookings of one deal both reach the supplier only if a reseal wrote the
\* token back after it was gone, however many requests name the deal.
THEOREM DealSoldOnce == Spec => []DealLockUnlessRevived
<1>1. Locked => DealLockUnlessRevived
  BY DEF Locked, Passed, DealLockUnlessRevived
<1> QED BY <1>1, SoundInit, SoundNext, LockedInit, LockedNext, PTL DEF Spec

-----------------------------------------------------------------------------
(* The transition table nobody consults.                                   *)

\* Where a process relies on the supplier's reference being in the row.
Known == {"ask", "pollSettle", "withdraw", "cancelAsk", "cancelSettle"}

\* A booking that is confirmed, or being confirmed, asked about or cancelled, has
\* a reference; one withdrawn for want of a reference is settled, and gets none.
Named ==
    /\ \A b \in Commits : status[b] \in {"CONFIRMED", "ON_HOLD"} => ref[b]
    /\ \A c \in Commits :
         pc[c] = "settle" /\ loc[c].answer \in {"CONFIRMED", "ON_HOLD"} => loc[c].ref
    /\ \A p \in Procs : pc[p] \in Known => ref[loc[p].booking]
    /\ \A p \in Procs :
         pc[p] = "withdrawReview"
           => ~ref[loc[p].booking] /\ status[loc[p].booking] \notin Unsettled

\* A commit moves a row only while it has not settled it.
LEMMA CommitUnsettled ==
    ASSUME Stage, NEW c \in Commits, CommitMove(c)
    PROVE  status[c] \in Unsettled
BY DEF CommitMove, Stage, BeforeRow, Unsettled

\* A commit that books names what it booked.
LEMMA NamedCommit ==
    ASSUME Sound, Named, NEW c \in Commits, CommitStep(c)
    PROVE  Named'
<1> USE DEF Sound, Rows
<1>1. CommitMove(c) /\ CommitFrame(c) /\ status[c] \in Unsettled
  BY CommitMoves, CommitUnsettled
<1>2. ref[c] => ref'[c]
  BY <1>1 DEF CommitMove, SameRow
<1>3. \A b \in Commits : status'[b] \in {"CONFIRMED", "ON_HOLD"} => ref'[b]
  <2>1. status'[c] \in {"CONFIRMED", "ON_HOLD"} => ref'[c]
    BY <1>1 DEF Named, CommitMove, SameRow
  <2> QED BY <1>1, <2>1 DEF Named, CommitFrame, SameRow
<1>4. \A d \in Commits :
         pc'[d] = "settle" /\ loc'[d].answer \in {"CONFIRMED", "ON_HOLD"} => loc'[d].ref
  <2>1. pc'[c] = "settle" /\ loc'[c].answer \in {"CONFIRMED", "ON_HOLD"} => loc'[c].ref
    BY <1>1 DEF CommitMove, Reports, BeforeRow
  <2> QED BY <1>1, <2>1 DEF Named, CommitFrame, OthersStay, Procs
<1>5. pc'[c] \notin Known \union {"withdrawReview"}
  BY <1>1 DEF CommitMove, Known, BeforeRow
<1>6. ASSUME NEW p \in Procs, pc'[p] \in Known \union {"withdrawReview"}
      PROVE  pc[p] = pc'[p] /\ loc[p] = loc'[p] /\ loc[p].booking \in Commits
  BY <1>1, <1>5, <1>6 DEF CommitFrame, OthersStay, AtWork, Known, AtRest
<1>7. \A p \in Procs : pc'[p] \in Known => ref'[loc'[p].booking]
  BY <1>1, <1>2, <1>6 DEF Named, CommitFrame, SameRow
<1>8. \A p \in Procs :
         pc'[p] = "withdrawReview"
           => ~ref'[loc'[p].booking] /\ status'[loc'[p].booking] \notin Unsettled
  BY <1>1, <1>6 DEF Named, CommitFrame, SameRow
<1> QED BY <1>3, <1>4, <1>7, <1>8 DEF Named

\* The others write no reference; what they start on has one, or is in review.
LEMMA NamedLater ==
    ASSUME Sound, Named, LaterStep, UNCHANGED ref, NEW p \in Procs, OthersStay(p),
           \A b \in Commits :
             status'[b] \in {"CONFIRMED", "ON_HOLD"} => ref[b],
           pc'[p] # "settle",
           pc'[p] \in Known => loc'[p].booking \in Commits /\ ref[loc'[p].booking],
           pc'[p] = "withdrawReview" =>
             /\ loc'[p].booking \in Commits /\ ~ref[loc'[p].booking]
             /\ status[loc'[p].booking] \notin Unsettled
    PROVE  Named'
<1>1. \A b \in Commits : status[b] \notin Unsettled => status'[b] \notin Unsettled
  BY DEF LaterStep
<1>2. \A q \in Procs \ {p} :
         pc[q] \in Known \union {"withdrawReview"} => loc[q].booking \in Commits
  BY DEF Sound, AtWork, Known, AtRest
<1> QED BY <1>1, <1>2 DEF Named, OthersStay, Procs

\* Every step keeps it.
LEMMA NamedNext == Sound /\ Named /\ [Next]_vars => Named'
<1> SUFFICES ASSUME Sound, Named, [Next]_vars PROVE Named'
  OBVIOUS
<1> USE DEF Sound, Rows
<1>1. ASSUME NEW p \in Pollers, PollStep(p) PROVE Named'
  <2>1. PollMove(p) /\ PollFrame(p) /\ LaterStep
    BY <1>1, PollMoves, PollLater
  <2>2. \A b \in Commits : status'[b] \in {"CONFIRMED", "ON_HOLD"} => ref[b]
    BY <2>1 DEF Named, PollMove, RowTo, Known, Procs
  <2>3. pc'[p] # "settle" /\ pc'[p] # "withdrawReview"
    BY <2>1 DEF PollMove, AtRest
  <2>4. pc'[p] \in Known => loc'[p].booking \in Commits /\ ref[loc'[p].booking]
    BY <2>1 DEF Named, PollMove, PollFrame, Known, AtRest, Procs
  <2> QED BY <2>1, <2>2, <2>3, <2>4, NamedLater DEF PollFrame, Procs
<1>2. ASSUME NEW x \in Cancellers, CancelStep(x) PROVE Named'
  <2>1. CancelMove(x) /\ CancelFrame(x) /\ LaterStep
    BY <1>2, CancelMoves, CancelLater
  <2>2. \A b \in Commits : status'[b] \in {"CONFIRMED", "ON_HOLD"} => ref[b]
    BY <2>1 DEF Named, CancelMove, RowTo, Known, Procs
  <2>3. pc'[x] # "settle"
    BY <2>1 DEF CancelMove, AtRest
  <2>4. pc'[x] \in Known => loc'[x].booking \in Commits /\ ref[loc'[x].booking]
    BY <2>1 DEF Named, CancelMove, CancelFrame, Known, AtRest, Procs
  <2>5. pc'[x] = "withdrawReview" =>
             /\ loc'[x].booking \in Commits /\ ~ref[loc'[x].booking]
             /\ status[loc'[x].booking] \notin Unsettled
    BY <2>1 DEF CancelMove, CANCELLABLE, Unsettled, AtRest
  <2> QED BY <2>1, <2>2, <2>3, <2>4, <2>5, NamedLater DEF CancelFrame, Procs
<1>3. ASSUME NEW p \in Procs, RefundStep(p) \/ Crash(p) PROVE Named'
  <2>1. RefundMove(p) /\ RefundFrame(p) /\ LaterStep
    BY <1>3, RefundMoves, RefundLater
  <2>2. pc'[p] \notin Known \union {"withdrawReview", "settle"}
    BY <2>1 DEF RefundMove, Known, AtRest
  <2> QED BY <2>1, <2>2, NamedLater DEF RefundFrame, Named
<1>4. CASE UNCHANGED <<status, ref, pc, loc>>
  BY <1>4 DEF Named
<1> QED
  BY <1>1, <1>2, <1>3, <1>4, NamedCommit
     DEF Next, SupplierDecides, Expire, Redeploy, vars, table

\* No reference is needed at first.
LEMMA NamedInit == Init => Named
BY DEF Init, Named, Known, Procs

\* The table, row by row.
LEMMA TransitionRows ==
    /\ TRANSITIONS["NO_ROW"] = {"PRECHECK_PASSED"}
    /\ TRANSITIONS["PRECHECK_PASSED"] = {"PAYMENT_HELD", "FAILED"}
    /\ TRANSITIONS["PAYMENT_HELD"] =
         {"SUPPLIER_PENDING", "CONFIRMED", "ON_HOLD", "FAILED", "MANUAL_REVIEW"}
    /\ TRANSITIONS["SUPPLIER_PENDING"] =
         {"CONFIRMED", "ON_HOLD", "FAILED", "MANUAL_REVIEW", "CANCELLATION_PENDING"}
    /\ TRANSITIONS["ON_HOLD"] = {"CONFIRMED", "CANCELLATION_PENDING", "CANCELLED", "FAILED"}
    /\ TRANSITIONS["CONFIRMED"] = {"CANCELLATION_PENDING", "CANCELLED"}
    /\ TRANSITIONS["CANCELLATION_PENDING"] =
         {"CANCELLED", "CONFIRMED", "ON_HOLD", "SUPPLIER_PENDING", "MANUAL_REVIEW"}
BY DEF TRANSITIONS, Statuses

\* Every step moves a status along the table.
LEMMA TransitionNext ==
    ASSUME Sound, Named, [Next]_vars, NEW b \in Commits
    PROVE  status'[b] = status[b] \/ status'[b] \in TRANSITIONS[status[b]]
<1> USE DEF Sound, Rows
<1>1. ASSUME NEW c \in Commits, CommitStep(c)
      PROVE  status'[b] = status[b] \/ status'[b] \in TRANSITIONS[status[b]]
  <2>1. CommitMove(c) /\ CommitFrame(c)
    BY <1>1, CommitMoves
  <2>2. CASE b # c
    BY <2>1, <2>2 DEF CommitFrame, SameRow
  <2>3. CASE b = c
    <3>1. /\ pc[c] \in BeforeRow => status[c] = "NO_ROW"
          /\ pc[c] \in {"charge", "declined", "hold"} => status[c] = "PRECHECK_PASSED"
          /\ pc[c] \in {"consume", "lostDeal", "book", "answer", "settle"}
               => status[c] = "PAYMENT_HELD"
      BY DEF Stage
    <3> QED BY <2>1, <2>3, <3>1, TransitionRows DEF CommitMove, SameRow, BeforeRow
  <2> QED BY <2>2, <2>3
<1>2. ASSUME NEW p \in Pollers, PollStep(p)
      PROVE  status'[b] = status[b] \/ status'[b] \in TRANSITIONS[status[b]]
  <2>1. PollMove(p)
    BY <1>2, PollMoves
  <2> QED BY <2>1, TransitionRows DEF PollMove, RowTo
<1>3. ASSUME NEW x \in Cancellers, CancelStep(x)
      PROVE  status'[b] = status[b] \/ status'[b] \in TRANSITIONS[status[b]]
  <2>1. CancelMove(x)
    BY <1>3, CancelMoves
  <2>2. CASE pc[x] = "withdrawReview" /\ RowTo(loc[x].booking, "MANUAL_REVIEW", CANCELLABLE)
    <3>1. status[loc[x].booking] \in CANCELLABLE => status[loc[x].booking] = "SUPPLIER_PENDING"
      BY <2>2 DEF Named, CANCELLABLE, AtWork, AtRest, Procs
    <3> QED BY <2>2, <3>1, TransitionRows DEF RowTo
  <2>3. CASE RowTo(loc[x].booking, "CANCELLATION_PENDING", CANCELLABLE)
    BY <2>3, TransitionRows DEF RowTo, CANCELLABLE
  <2>4. CASE /\ pc[x] = "cancelSettle"
             /\ RowTo(loc[x].booking, loc[x].was, {"CANCELLATION_PENDING"})
    <3>1. loc[x].was \in CANCELLABLE
      BY <2>4 DEF Found, CancelLabels, Procs
    <3> QED BY <2>4, <3>1, TransitionRows DEF RowTo, CANCELLABLE
  <2>5. CASE RowTo(loc[x].booking, "CANCELLED", {"CANCELLATION_PENDING"})
    BY <2>5, TransitionRows DEF RowTo
  <2> QED BY <2>1, <2>2, <2>3, <2>4, <2>5 DEF CancelMove
<1>4. CASE UNCHANGED status
  BY <1>4
<1> QED
  BY <1>1, <1>2, <1>3, <1>4
     DEF Next, RefundStep, Claim, Pay, SettleRefund, Crash, SupplierDecides, Expire,
         Redeploy, vars, table

\* Three writers keep to one transition table that none of them consults.
THEOREM KeepsToTheTable == Spec => FollowsTransitions
<1>1. Sound /\ Named /\ [Next]_vars =>
        \A b \in Commits : status'[b] = status[b] \/ status'[b] \in TRANSITIONS[status[b]]
  BY TransitionNext
<1> QED
  BY <1>1, SoundInit, SoundNext, NamedInit, NamedNext, PTL DEF Spec, FollowsTransitions

-----------------------------------------------------------------------------
(* A booking that is confirmed is held.                                    *)

\* The canceller that took the booking, until it wrote how that ended.
Owning == {"cancelAsk", "cancelSettle"}

\* Only one canceller owns a booking, and the row shows that it is owned.
OneCanceller ==
    /\ \A p \in Procs : pc[p] \in Owning => status[loc[p].booking] = "CANCELLATION_PENDING"
    /\ \A p, q \in Procs :
         pc[p] \in Owning /\ pc[q] \in Owning /\ loc[p].booking = loc[q].booking => p = q

\* The stay is as a status or an answer says, or was so until it was cancelled.
WasHeld(held, said) ==
    \/ held = "cancelled"
    \/ said = "CONFIRMED" /\ held = "confirmed"
    \/ said = "ON_HOLD" /\ held = "on_hold"

Booked == {"CONFIRMED", "ON_HOLD"}

\* Whoever says that a stay is held, on record or in hand, was right once.
Told ==
    /\ \A b \in Commits : status[b] \in Booked => WasHeld(stay[b], status[b])
    /\ \A p \in Procs :
         pc[p] \in CancelLabels /\ loc[p].was \in Booked => WasHeld(stay[loc[p].booking], loc[p].was)
    /\ \A p \in Procs :
         pc[p] \in {"settle", "pollSettle"} /\ loc[p].answer \in Booked
           => WasHeld(stay[loc[p].booking], loc[p].answer)

\* A cancelled stay left its row in cancellation, and whoever owns that knows.
Left ==
    \A b \in Commits :
        stay[b] = "cancelled" =>
          /\ status[b] \in {"CANCELLATION_PENDING", "CANCELLED"}
          /\ \A p \in Procs :
               pc[p] \in Owning /\ loc[p].booking = b
                 => pc[p] = "cancelSettle" /\ loc[p].answer \in {"CANCELLED", "CANCELLED_FX"}

Honest == OneCanceller /\ Told /\ Left

\* A stay that is held can only be cancelled, by a canceller that owns it.
LEMMA StayMoves ==
    ASSUME Sound, [Next]_vars, NEW b \in Commits
    PROVE  \/ stay'[b] = stay[b]
           \/ stay[b] \in {"none", "sent", "pending"}
           \/ stay[b] \in {"confirmed", "on_hold"} /\ stay'[b] = "cancelled"
<1> USE DEF Sound, Rows
<1>1. ASSUME NEW c \in Commits, CommitStep(c)
      PROVE  stay'[b] = stay[b] \/ stay[b] = "none"
  <2>1. CommitMove(c) /\ CommitFrame(c)
    BY <1>1, CommitMoves
  <2> QED BY <2>1 DEF CommitMove, CommitFrame, SameWorld, Stage, BeforeBook
<1>2. ASSUME NEW x \in Cancellers, CancelStep(x)
      PROVE  \/ stay'[b] = stay[b]
             \/ stay[b] \in {"pending", "confirmed", "on_hold"} /\ stay'[b] = "cancelled"
  BY <1>2, CancelMoves DEF CancelMove, CancelFrame
<1>3. ASSUME NEW p \in Pollers, PollStep(p) PROVE stay'[b] = stay[b]
  BY <1>3, PollMoves DEF PollFrame, world
<1>4. ASSUME NEW p \in Procs, RefundStep(p) \/ Crash(p) PROVE stay'[b] = stay[b]
  BY <1>4, RefundMoves DEF RefundFrame
<1>5. CASE EnvironmentMove
  BY <1>5 DEF EnvironmentMove
<1> QED BY <1>1, <1>2, <1>3, <1>4, <1>5, EnvironmentMoves DEF Next

\* So what was held was held.
LEMMA WasHeldStays ==
    ASSUME Sound, [Next]_vars, NEW b \in Commits, NEW said, WasHeld(stay[b], said)
    PROVE  WasHeld(stay'[b], said)
BY StayMoves DEF WasHeld

\* What the others have in hand stays true; it is enough to look at the process
\* that moves and the rows it writes.
LEMMA ToldBy ==
    ASSUME Sound, Told, [Next]_vars, NEW p \in Procs, OthersStay(p),
           \A b \in Commits : status'[b] \in Booked /\ status'[b] # status[b]
                                => WasHeld(stay'[b], status'[b]),
           pc'[p] \in CancelLabels /\ loc'[p].was \in Booked
             => WasHeld(stay'[loc'[p].booking], loc'[p].was),
           pc'[p] \in {"settle", "pollSettle"} /\ loc'[p].answer \in Booked
             => WasHeld(stay'[loc'[p].booking], loc'[p].answer)
    PROVE  Told'
<1>1. \A b \in Commits : \A said : WasHeld(stay[b], said) => WasHeld(stay'[b], said)
  BY WasHeldStays
<1>2. \A q \in Procs \ {p} : pc'[q] = pc[q] /\ loc'[q] = loc[q]
  BY DEF OthersStay
<1>3. \A q \in Procs :
        pc[q] \in CancelLabels \union {"settle", "pollSettle"} => loc[q].booking \in Commits
  BY DEF Sound, AtWork, AtRest, CancelLabels
<1>4. \A b \in Commits : status'[b] \in Booked => WasHeld(stay'[b], status'[b])
  BY <1>1 DEF Told
<1>5. \A q \in Procs :
        pc'[q] \in CancelLabels /\ loc'[q].was \in Booked
          => WasHeld(stay'[loc'[q].booking], loc'[q].was)
  BY <1>1, <1>2, <1>3 DEF Told
<1>6. \A q \in Procs :
        pc'[q] \in {"settle", "pollSettle"} /\ loc'[q].answer \in Booked
          => WasHeld(stay'[loc'[q].booking], loc'[q].answer)
  BY <1>1, <1>2, <1>3 DEF Told
<1> QED BY <1>4, <1>5, <1>6 DEF Told

\* A commit books as it was told; it moves no row that is in cancellation.
LEMMA HonestCommit ==
    ASSUME Sound, Honest, NEW c \in Commits, CommitStep(c)
    PROVE  Honest'
<1> USE DEF Sound, Rows, Honest
<1>1. CommitMove(c) /\ CommitFrame(c) /\ status[c] \in Unsettled
  BY CommitMoves, CommitUnsettled
<1>2. pc'[c] \notin Owning \union CancelLabels \union {"pollSettle"}
  BY <1>1 DEF CommitMove, Owning, CancelLabels, BeforeRow
<1>3. /\ c \in Procs /\ OthersStay(c) /\ loc'[c].booking = c /\ loc[c].booking = c
      /\ \A b \in Commits \ {c} : status'[b] = status[b] /\ stay'[b] = stay[b]
  BY <1>1 DEF CommitFrame, SameRow, SameWorld, AtWork, Procs
<1>4. OneCanceller'
  <2>1. \A p \in Procs : pc'[p] \in Owning =>
           /\ p # c /\ pc[p] = pc'[p] /\ loc'[p] = loc[p]
           /\ loc[p].booking \in Commits \ {c}
    BY <1>1, <1>2, <1>3 DEF OthersStay, OneCanceller, AtWork, Owning, AtRest, Unsettled
  <2> QED BY <1>3, <2>1 DEF OneCanceller
<1>5. Told'
  <2>1. \A b \in Commits : status'[b] \in Booked /\ status'[b] # status[b]
                                => WasHeld(stay'[b], status'[b])
    BY <1>1, <1>3 DEF CommitMove, SameRow, SameWorld, Told, Booked
  <2>2. pc'[c] = "settle" /\ loc'[c].answer \in Booked
             => WasHeld(stay'[c], loc'[c].answer)
    BY <1>1 DEF CommitMove, SameWorld, Reports, Booked, WasHeld, BeforeRow
  <2> QED BY <1>2, <1>3, <2>1, <2>2, ToldBy DEF Next
<1>6. Left'
  <2> SUFFICES ASSUME NEW b \in Commits, stay'[b] = "cancelled" PROVE Left!(b)!2'
    BY DEF Left
  <2>1. stay[b] = "cancelled"
    BY <1>1, <1>3 DEF CommitMove, SameWorld
  <2>2. b # c
    BY <1>1, <2>1 DEF Left, Unsettled
  <2> QED BY <1>2, <1>3, <2>1, <2>2 DEF Left, OthersStay
<1> QED BY <1>4, <1>5, <1>6

\* A poller writes what the supplier told it, in a row nobody is cancelling.
LEMMA HonestPoll ==
    ASSUME Sound, Honest, NEW p \in Pollers, PollStep(p)
    PROVE  Honest'
<1> DEFINE b == loc[p].booking
<1> USE DEF Sound, Rows, Honest
<1>1. PollMove(p) /\ PollFrame(p)
  BY PollMoves
<1>2. pc'[p] \notin Owning \union CancelLabels \union {"settle"}
  BY <1>1 DEF PollMove, Owning, CancelLabels, AtRest
<1>3. /\ p \in Procs /\ OthersStay(p) /\ UNCHANGED stay
      /\ \A o \in Commits : status'[o] = status[o] \/ status[o] = "SUPPLIER_PENDING"
  BY <1>1 DEF PollFrame, PollMove, RowTo, Procs, world
<1>4. OneCanceller'
  <2>1. \A q \in Procs : pc'[q] \in Owning =>
           pc[q] = pc'[q] /\ loc'[q] = loc[q] /\ loc[q].booking \in Commits
    BY <1>2, <1>3 DEF OthersStay, AtWork, Owning, AtRest
  <2> QED BY <1>3, <2>1 DEF OneCanceller
<1>5. Told'
  <2>1. \A o \in Commits : status'[o] \in Booked /\ status'[o] # status[o]
                                => WasHeld(stay'[o], status'[o])
    BY <1>1, <1>3 DEF PollMove, RowTo, Told, Booked
  <2>2. pc'[p] = "pollSettle" /\ loc'[p].answer \in Booked
             => WasHeld(stay'[loc'[p].booking], loc'[p].answer)
    BY <1>1, <1>3 DEF PollMove, PollAnswer, Booked, WasHeld, AtRest
  <2> QED BY <1>2, <1>3, <2>1, <2>2, ToldBy DEF Next
<1>6. Left'
  BY <1>2, <1>3 DEF Left, OthersStay
<1> QED BY <1>4, <1>5, <1>6

\* A canceller owns the booking from the row it takes to the row it leaves.
LEMMA HonestCancel ==
    ASSUME Sound, Honest, NEW x \in Cancellers, CancelStep(x)
    PROVE  Honest'
<1> DEFINE b == loc[x].booking
<1> USE DEF Sound, Rows, Honest
<1>1. CancelMove(x) /\ CancelFrame(x)
  BY CancelMoves
<1>2. /\ x \in Procs /\ OthersStay(x)
      /\ \A o \in Commits \ {b} : stay'[o] = stay[o]
      /\ \A o \in Commits \ {b} : status'[o] = status[o]
  BY <1>1 DEF CancelFrame, CancelMove, RowTo, Procs
<1>3. \A q \in Procs : pc[q] \in Owning \union CancelLabels => loc[q].booking \in Commits
  BY DEF AtWork, Owning, CancelLabels, AtRest
<1>4. pc'[x] \in Owning =>
        /\ loc'[x].booking = b /\ b \in Commits
        /\ \/ pc[x] \in Owning /\ status'[b] = status[b]
           \/ /\ pc[x] = "withdraw" /\ status[b] \in CANCELLABLE
              /\ status'[b] = "CANCELLATION_PENDING" /\ stay'[b] = stay[b]
  <2> SUFFICES ASSUME pc'[x] \in Owning PROVE <1>4!2
    OBVIOUS
  <2>1. /\ pc[x] \in {"withdraw", "cancelAsk"} /\ loc'[x].booking = b
        /\ pc[x] = "cancelAsk" => UNCHANGED status
        /\ pc[x] = "withdraw" => /\ status[b] \in CANCELLABLE /\ UNCHANGED stay
                                 /\ RowTo(b, "CANCELLATION_PENDING", CANCELLABLE)
    BY <1>1 DEF CancelMove, Owning, AtRest
  <2>2. b \in Commits
    BY <1>2, <1>3, <2>1 DEF CancelLabels
  <2> QED BY <2>1, <2>2 DEF RowTo, Owning
<1>5. \A o \in Commits : status[o] = "CANCELLATION_PENDING" /\ status'[o] # status[o]
        => o = b /\ pc[x] \in Owning /\ pc'[x] \notin Owning
  BY <1>1, <1>2 DEF CancelMove, RowTo, CANCELLABLE, Owning, AtRest
<1>6. \A q \in Procs \ {x} :
        /\ pc'[q] = pc[q] /\ loc'[q] = loc[q]
        /\ pc[q] \in Owning => /\ loc[q].booking \in Commits
                               /\ status[loc[q].booking] = "CANCELLATION_PENDING"
                               /\ pc[x] \in Owning => loc[q].booking # b
  BY <1>2, <1>3 DEF OneCanceller, OthersStay
<1>7. OneCanceller'
  <2>1. \A q \in Procs : pc'[q] \in Owning => status'[loc'[q].booking] = "CANCELLATION_PENDING"
    BY <1>2, <1>4, <1>5, <1>6 DEF OneCanceller
  <2>2. \A q \in Procs \ {x} : pc'[q] \in Owning /\ pc'[x] \in Owning
          => loc'[q].booking # loc'[x].booking
    BY <1>4, <1>6 DEF CANCELLABLE
  <2> QED BY <1>6, <2>1, <2>2 DEF OneCanceller
<1>8. Told'
  <2>1. \A o \in Commits : status'[o] \in Booked /\ status'[o] # status[o]
                                => WasHeld(stay'[o], status'[o])
    <3>1. \A o \in Commits : status'[o] \in Booked /\ status'[o] # status[o]
            => /\ o = b /\ pc[x] = "cancelSettle" /\ status'[o] = loc[x].was
               /\ stay' = stay
      BY <1>1, <1>2 DEF CancelMove, RowTo, Booked
    <3> QED BY <1>2, <3>1 DEF Told, CancelLabels
  <2>2. pc'[x] \in CancelLabels /\ loc'[x].was \in Booked
             => WasHeld(stay'[loc'[x].booking], loc'[x].was)
    <3>1. CASE pc[x] = "idle"
      BY <1>1, <3>1 DEF CancelMove, Told
    <3>2. CASE pc[x] # "idle" /\ pc'[x] \in CancelLabels
      <4>1. /\ pc[x] \in CancelLabels /\ loc'[x].booking = b /\ loc'[x].was = loc[x].was
            /\ stay'[b] = stay[b] \/ stay'[b] = "cancelled"
        BY <1>1, <3>2 DEF CancelMove, CancelLabels, AtRest
      <4> QED BY <1>2, <4>1 DEF Told, WasHeld
    <3> QED BY <3>1, <3>2
  <2>3. pc'[x] \notin {"settle", "pollSettle"}
    BY <1>1 DEF CancelMove, AtRest
  <2> QED BY <1>2, <2>1, <2>2, <2>3, ToldBy DEF Next
<1>9. Left'
  <2> SUFFICES ASSUME NEW o \in Commits, stay'[o] = "cancelled" PROVE Left!(o)!2'
    BY DEF Left
  <2>1. CASE o # b
    BY <1>2, <1>4, <1>6, <2>1 DEF Left
  <2>2. CASE o = b /\ stay[b] = "cancelled"
    <3>1. /\ status[b] \in {"CANCELLATION_PENDING", "CANCELLED"}
          /\ pc[x] \in Owning => /\ pc[x] = "cancelSettle"
                                 /\ loc[x].answer \in {"CANCELLED", "CANCELLED_FX"}
      BY <1>2, <2>2 DEF Left
    <3>2. status'[b] \in {"CANCELLATION_PENDING", "CANCELLED"} /\ pc'[x] \notin Owning
      BY <1>1, <2>2, <3>1 DEF CancelMove, RowTo, Owning, CANCELLABLE, AtRest
    <3> QED BY <1>6, <2>2, <3>2 DEF Left
  <2>3. CASE o = b /\ stay[b] # "cancelled"
    <3>1. /\ pc[x] = "cancelAsk" /\ UNCHANGED status
          /\ pc'[x] \in Owning => /\ pc'[x] = "cancelSettle"
                                  /\ loc'[x].answer \in {"CANCELLED", "CANCELLED_FX"}
      BY <1>1, <2>3 DEF CancelMove, Owning, AtRest
    <3>2. status'[b] = "CANCELLATION_PENDING"
      BY <1>2, <3>1 DEF OneCanceller, Owning
    <3>3. \A q \in Procs \ {x} : pc'[q] \in Owning => loc'[q].booking # b
      BY <1>6, <3>1 DEF Owning
    <3> QED BY <2>3, <3>1, <3>2, <3>3
  <2> QED BY <2>1, <2>2, <2>3
<1> QED BY <1>7, <1>8, <1>9

\* Every step keeps it.
LEMMA HonestNext == Sound /\ Honest /\ [Next]_vars => Honest'
<1> SUFFICES ASSUME Sound, Honest, [Next]_vars PROVE Honest'
  OBVIOUS
<1> USE DEF Sound
<1>1. ASSUME NEW p \in Procs, RefundStep(p) \/ Crash(p) PROVE Honest'
  <2>1. RefundMove(p) /\ RefundFrame(p)
    BY <1>1, RefundMoves
  <2>2. pc'[p] \notin Owning \union CancelLabels \union {"settle", "pollSettle"}
    BY <2>1 DEF RefundMove, Owning, CancelLabels, AtRest
  <2>3. Told'
    BY <2>1, <2>2, ToldBy DEF RefundFrame, Honest
  <2>4. OneCanceller' /\ Left'
    BY <2>1, <2>2 DEF RefundFrame, OthersStay, Honest, OneCanceller, Left
  <2> QED BY <2>3, <2>4 DEF Honest
<1>2. CASE EnvironmentMove
  <2>1. UNCHANGED <<status, pc, loc>>
    BY <1>2 DEF EnvironmentMove, table
  <2>2. \A b \in Commits : 
           stay'[b] = stay[b] \/ (stay[b] \in {"sent", "pending"} /\ stay'[b] # "cancelled")
    BY <1>2 DEF EnvironmentMove
  <2>3. \A b \in Commits : \A said : WasHeld(stay[b], said) => WasHeld(stay'[b], said)
    BY WasHeldStays
  <2>4. Told'
    BY <2>1, <2>3 DEF Honest, Told, AtWork, AtRest, CancelLabels
  <2>5. OneCanceller' /\ Left'
    BY <2>1, <2>2 DEF Honest, OneCanceller, Left
  <2> QED BY <2>4, <2>5 DEF Honest
<1> QED
  BY <1>1, <1>2, HonestCommit, HonestPoll, HonestCancel, EnvironmentMoves DEF Next

\* Nobody was told anything at first.
LEMMA HonestInit == Init => Honest
BY DEF Init, Honest, OneCanceller, Told, Left, Owning, Booked, CancelLabels, Procs

\* A booking the customer is told is theirs is held by the supplier, whatever
\* rejected, lost or concurrent cancellations it has been through.
THEOREM ToldIsHeld == Spec => []ConfirmedIsHeld
<1>1. Honest => ConfirmedIsHeld
  BY DEF Honest, Told, Left, WasHeld, Booked, ConfirmedIsHeld
<1> QED BY <1>1, SoundInit, SoundNext, HonestInit, HonestNext, PTL DEF Spec

-----------------------------------------------------------------------------
(* The record of a refund is the money that moved.                         *)

\* What is about to be refunded for a cancellation is net of the penalty; what a
\* process has paid, and what a row says was paid, is what went back.
Net ==
    /\ \A p \in Procs :
         pc[p] \in RefundLabels /\ loc[p].kind = "CANCELLATION"
           => loc[p].amount = refundAfterCancellation(penalty[loc[p].booking])
    /\ \A p \in Procs :
         pc[p] = "cancelSettle" /\ loc[p].answer = "CANCELLED"
           => loc[p].amount = penalty[loc[p].booking]
    /\ \A p \in Procs : pc[p] = "settlePaid" => returned[loc[p].booking] = loc[p].amount
    /\ \A b \in Commits :
         refund[b].status = "COMPLETED" =>
           /\ returned[b] = refund[b].amount
           /\ refund[b].kind = "CANCELLATION"
                => refund[b].amount = refundAfterCancellation(penalty[b])

\* The penalty of a stay that is over is settled.
LEMMA PenaltyStays ==
    ASSUME Sound, [Next]_vars, NEW b \in Commits, Over(b)
    PROVE  penalty'[b] = penalty[b]
<1> USE DEF Sound, Rows
<1>1. ASSUME NEW x \in Cancellers, CancelStep(x) PROVE penalty'[b] = penalty[b]
  BY <1>1, CancelMoves DEF CancelMove, CancelFrame, Over, Held
<1>2. CASE UNCHANGED penalty
  BY <1>2
<1> QED
  BY <1>1, <1>2, CommitMoves, PollMoves, RefundMoves, EnvironmentMoves
     DEF Next, CommitFrame, PollFrame, RefundFrame, EnvironmentMove, world

\* Steps that move no money: it is enough to look at the process that moves.
LEMMA NetBy ==
    ASSUME Sound, Justified, Net, [Next]_vars, NEW p \in Procs, OthersStay(p),
           UNCHANGED <<refund, returned>>, pc'[p] # "settlePaid",
           pc'[p] \in RefundLabels /\ loc'[p].kind = "CANCELLATION"
             => loc'[p].amount = refundAfterCancellation(penalty'[loc'[p].booking]),
           pc'[p] = "cancelSettle" /\ loc'[p].answer = "CANCELLED"
             => loc'[p].amount = penalty'[loc'[p].booking]
    PROVE  Net'
<1>1. \A b \in Commits : Over(b) => penalty'[b] = penalty[b]
  BY PenaltyStays
<1>2. \A q \in Procs \ {p} :
        /\ pc'[q] = pc[q] /\ loc'[q] = loc[q]
        /\ Sure(q) => penalty'[loc[q].booking] = penalty[loc[q].booking]
  BY <1>1 DEF OthersStay, Justified, Sure, Sound, AtWork, AtRest, RefundLabels
<1>3. \A b \in Commits : refund[b].status = "COMPLETED" => penalty'[b] = penalty[b]
  BY <1>1 DEF Justified, Says
<1>4. \A q \in Procs :
        pc'[q] \in RefundLabels /\ loc'[q].kind = "CANCELLATION"
          => loc'[q].amount = refundAfterCancellation(penalty'[loc'[q].booking])
  BY <1>2 DEF Net, Sure
<1>5. \A q \in Procs :
        pc'[q] = "cancelSettle" /\ loc'[q].answer = "CANCELLED"
          => loc'[q].amount = penalty'[loc'[q].booking]
  BY <1>2 DEF Net, Sure
<1> QED BY <1>2, <1>3, <1>4, <1>5 DEF Net

\* A refund moves the money once, and records what it moved.
LEMMA NetRefund ==
    ASSUME Sound, Justified, Net, NEW p \in Procs, RefundStep(p) \/ Crash(p)
    PROVE  Net'
<1> DEFINE b == loc[p].booking
<1> USE DEF Sound
<1>1. RefundMove(p) /\ RefundFrame(p)
  BY RefundMoves
<1>2. OthersStay(p) /\ b \in Commits /\ UNCHANGED penalty
  BY <1>1 DEF RefundFrame
<1>3. CASE UNCHANGED <<refund, returned>> /\ pc'[p] \in AtRest
  BY <1>2, <1>3, NetBy DEF Next, AtRest, RefundLabels
<1>4. /\ \A o \in Commits \ {b} : refund'[o] = refund[o] /\ returned'[o] = returned[o]
      /\ \A q \in Procs \ {p} : pc'[q] = pc[q] /\ loc'[q] = loc[q]
  BY <1>1, <1>2 DEF RefundFrame, OthersStay
<1>5. ASSUME pc'[p] \in AtRest \/ (pc[p] \in RefundLabels /\ loc'[p] = loc[p]),
             pc'[p] # "cancelSettle",
             \A q \in Procs : pc'[q] = "settlePaid" => returned'[loc'[q].booking] = loc'[q].amount,
             refund'[b].status = "COMPLETED" =>
               /\ returned'[b] = refund'[b].amount
               /\ refund'[b].kind = "CANCELLATION"
                    => refund'[b].amount = refundAfterCancellation(penalty[b])
      PROVE  Net'
  BY <1>2, <1>4, <1>5 DEF Net, AtRest, RefundLabels
<1>6. \A q \in Procs \ {p} : pc[p] \in Paying /\ pc[q] = "settlePaid" => loc[q].booking \in Commits \ {b}
  BY DEF Money, OneOwner, Paying, AtWork, AtRest
<1>7. CASE pc[p] = "claim" /\ pc'[p] = "pay" /\ loc'[p] = loc[p] /\ UNCHANGED returned
           /\ refund'[b].status = "PROCESSING"
  BY <1>4, <1>5, <1>7 DEF Net, RefundLabels
<1>8. CASE pc[p] = "pay" /\ pc'[p] \in {"settlePaid", "settleUnpaid"} /\ loc'[p] = loc[p]
           /\ refund'[b] = refund[b]
           /\ \/ UNCHANGED returned /\ pc'[p] = "settleUnpaid"
              \/ returned' = [returned EXCEPT ![b] = @ + loc[p].amount]
  <2>1. returned[b] = 0 /\ refund[b].status = "PROCESSING"
    BY <1>8 DEF Money, NotYetPaid, OneOwner, Paying
  <2>2. loc[p].amount \in Nat
    BY DEF TypeOK, Locals
  <2>3. pc'[p] = "settlePaid" => returned'[b] = loc[p].amount
    BY <1>2, <1>8, <2>1, <2>2 DEF TypeOK
  <2>4. \A q \in Procs : pc'[q] = "settlePaid" => returned'[loc'[q].booking] = loc'[q].amount
    BY <1>4, <1>6, <1>8, <2>3 DEF Net, Paying
  <2> QED BY <1>5, <1>8, <2>1, <2>4 DEF RefundLabels
<1>9. CASE pc[p] \in {"settlePaid", "settleUnpaid"} /\ pc'[p] \in AtRest /\ UNCHANGED returned
           /\ refund'[b] = [status |-> SettledAs(p), kind |-> loc[p].kind, amount |-> loc[p].amount]
  <2>1. refund'[b].status = "COMPLETED" =>
               /\ returned'[b] = refund'[b].amount
               /\ refund'[b].kind = "CANCELLATION"
                    => refund'[b].amount = refundAfterCancellation(penalty[b])
    BY <1>9 DEF Net, SettledAs, RefundLabels
  <2>2. \A q \in Procs : pc'[q] = "settlePaid" => returned'[loc'[q].booking] = loc'[q].amount
    BY <1>4, <1>9 DEF Net, AtRest
  <2> QED BY <1>5, <1>9, <2>1, <2>2 DEF AtRest
<1>10. CASE UNCHANGED returned /\ refund'[b] = refund[b] /\ pc'[p] \in AtRest
  <2>1. \A q \in Procs : pc'[q] = "settlePaid" => returned'[loc'[q].booking] = loc'[q].amount
    BY <1>4, <1>10 DEF Net, AtRest
  <2>2. refund'[b].status = "COMPLETED" =>
               /\ returned'[b] = refund'[b].amount
               /\ refund'[b].kind = "CANCELLATION"
                    => refund'[b].amount = refundAfterCancellation(penalty[b])
    BY <1>2, <1>10 DEF Net
  <2> QED BY <1>5, <1>10, <2>1, <2>2 DEF AtRest
<1> QED BY <1>1, <1>7, <1>8, <1>9, <1>10 DEF RefundMove

\* Every step keeps it.
LEMMA NetNext == Sound /\ Justified /\ Net /\ [Next]_vars => Net'
<1> SUFFICES ASSUME Sound, Justified, Net, [Next]_vars PROVE Net'
  OBVIOUS
<1> USE DEF Sound, Rows
<1>1. ASSUME NEW c \in Commits, CommitStep(c) PROVE Net'
  <2>1. CommitMove(c) /\ CommitFrame(c)
    BY <1>1, CommitMoves
  <2>2. /\ pc'[c] # "settlePaid" /\ pc'[c] # "cancelSettle"
        /\ pc'[c] \in RefundLabels => loc'[c].kind # "CANCELLATION"
    BY <2>1 DEF CommitMove, RefundLabels, BeforeRow
  <2> QED BY <2>1, <2>2, NetBy DEF CommitFrame, Procs
<1>2. ASSUME NEW p \in Pollers, PollStep(p) PROVE Net'
  <2>1. PollMove(p) /\ PollFrame(p)
    BY <1>2, PollMoves
  <2>2. /\ pc'[p] # "settlePaid" /\ pc'[p] # "cancelSettle"
        /\ pc'[p] \in RefundLabels => loc'[p].kind # "CANCELLATION"
    BY <2>1 DEF PollMove, RefundLabels, AtRest
  <2> QED BY <2>1, <2>2, NetBy DEF PollFrame, Procs, world
<1>3. ASSUME NEW x \in Cancellers, CancelStep(x) PROVE Net'
  <2>1. CancelMove(x) /\ CancelFrame(x)
    BY <1>3, CancelMoves
  <2>2. pc'[x] # "settlePaid"
    BY <2>1 DEF CancelMove, AtRest
  <2>3. pc'[x] \in RefundLabels
          => loc'[x].amount = refundAfterCancellation(penalty'[loc'[x].booking])
    BY <2>1 DEF CancelMove, Net, RefundLabels, AtRest, Procs
  <2>4. pc'[x] = "cancelSettle" /\ loc'[x].answer = "CANCELLED"
          => loc'[x].amount = penalty'[loc'[x].booking]
    BY <2>1 DEF CancelMove, AtRest
  <2> QED BY <2>1, <2>2, <2>3, <2>4, NetBy DEF CancelFrame, Procs
<1>4. CASE EnvironmentMove
  BY <1>4 DEF EnvironmentMove, Net, table
<1> QED BY <1>1, <1>2, <1>3, <1>4, NetRefund, EnvironmentMoves DEF Next

\* Nothing is refunded at first.
LEMMA NetInit == Init => Net
BY DEF Init, Net, NoRefund, RefundLabels, Procs

\* The record of a completed refund is the money that moved, net of the penalty
\* if a cancellation paid it; where none is completed, none moved.
THEOREM RecordedAsMoved == Spec => []RefundRecordIsTrue
<1>1. Sound /\ Net => RefundRecordIsTrue
  BY DEF Sound, Money, NotYetPaid, Claimable, Net, RefundRecordIsTrue
<1>2. Sound /\ Justified /\ Net /\ [Next]_vars => (Sound /\ Justified /\ Net)'
  BY SoundNext, JustifiedNext, NetNext
<1> QED BY <1>1, <1>2, SoundInit, JustifiedInit, NetInit, PTL DEF Spec

-----------------------------------------------------------------------------
(* No money is left behind.                                                *)

\* While nobody died, a failed booking that was charged has its refund on record,
\* or a process is on its way to claim it.
Chased ==
    \A b \in Commits :
        status[b] = "FAILED" /\ captured[b] > 0 /\ crashes = 0 /\ refund[b].status = "NONE"
          => \E p \in Procs : pc[p] = "claim" /\ loc[p].booking = b

\* Every step keeps it.
LEMMA ChasedNext == Sound /\ Chased /\ [Next]_vars => Chased'
<1> SUFFICES ASSUME Sound, Chased, [Next]_vars, NEW b \in Commits,
                    status'[b] = "FAILED", captured'[b] > 0, crashes' = 0,
                    refund'[b].status = "NONE"
             PROVE  \E p \in Procs : pc'[p] = "claim" /\ loc'[p].booking = b
  BY DEF Chased
<1> USE DEF Sound, Rows
<1>1. ASSUME NEW p \in Procs, OthersStay(p), pc[p] # "claim" \/ loc[p].booking # b,
             status[b] = "FAILED", captured[b] > 0, crashes = 0, refund[b].status = "NONE"
      PROVE  \E q \in Procs : pc'[q] = "claim" /\ loc'[q].booking = b
  BY <1>1 DEF Chased, OthersStay
<1>2. ASSUME NEW c \in Commits, CommitStep(c)
      PROVE  \E p \in Procs : pc'[p] = "claim" /\ loc'[p].booking = b
  <2>1. CommitMove(c) /\ CommitFrame(c) /\ status[c] \in Unsettled /\ loc[c].booking = c
    BY <1>2, CommitMoves, CommitUnsettled DEF AtWork
  <2>2. CASE b # c
    BY <1>1, <2>1, <2>2 DEF CommitFrame, SameRow, SameWorld, Procs
  <2>3. CASE b = c
    <3>1. pc'[c] = "claim"
      BY <2>1, <2>3 DEF CommitMove, CommitFrame, SameRow, SameWorld, Stage, Unsettled, Claimable
    <3> QED BY <2>1, <2>3, <3>1 DEF CommitFrame, Procs
  <2> QED BY <2>2, <2>3
<1>3. ASSUME NEW p \in Pollers, PollStep(p)
      PROVE  \E q \in Procs : pc'[q] = "claim" /\ loc'[q].booking = b
  <2>1. PollMove(p) /\ PollFrame(p)
    BY <1>3, PollMoves
  <2>2. captured[b] > 0 /\ crashes = 0 /\ refund[b].status = "NONE"
    BY <2>1 DEF PollFrame, world
  <2>3. CASE status[b] = "FAILED"
    BY <1>1, <2>1, <2>2, <2>3 DEF PollMove, PollFrame, Procs
  <2>4. CASE status[b] # "FAILED"
    <3>1. /\ loc[p].booking = b /\ status[b] = "SUPPLIER_PENDING"
          /\ (pc'[p] = "claim" /\ loc'[p].booking = b) \/ ~payment[b]
      BY <2>1, <2>2, <2>4 DEF PollMove, RowTo, Claimable
    <3>2. payment[b]
      BY <2>2, <3>1 DEF Stage, Unsettled, TypeOK
    <3> QED BY <3>1, <3>2 DEF Procs
  <2> QED BY <2>3, <2>4
<1>4. ASSUME NEW x \in Cancellers, CancelStep(x)
      PROVE  \E q \in Procs : pc'[q] = "claim" /\ loc'[q].booking = b
  <2>1. CancelMove(x) /\ CancelFrame(x)
    BY <1>4, CancelMoves
  <2>2. status[b] = "FAILED"
    BY <2>1 DEF CancelMove, RowTo, Found, CancelLabels, CANCELLABLE, Procs
  <2> QED BY <1>1, <2>1, <2>2 DEF CancelMove, CancelFrame, Procs
<1>5. ASSUME NEW p \in Procs, RefundStep(p) \/ Crash(p)
      PROVE  \E q \in Procs : pc'[q] = "claim" /\ loc'[q].booking = b
  <2>1. RefundMove(p) /\ RefundFrame(p)
    BY <1>5, RefundMoves
  <2>2. crashes \in Nat
    BY BoundsAssumption DEF TypeOK
  <2>3. UNCHANGED crashes
    BY <2>1, <2>2 DEF RefundMove
  <2>4. refund[b].status = "NONE" /\ (loc[p].booking = b => pc[p] # "claim")
    BY <2>1, <2>2 DEF RefundMove, RefundFrame, SettledAs, Claimable
  <2> QED BY <1>1, <2>1, <2>3, <2>4 DEF RefundFrame
<1>6. CASE EnvironmentMove
  BY <1>6 DEF EnvironmentMove, Chased, table
<1> QED BY <1>2, <1>3, <1>4, <1>5, <1>6, EnvironmentMoves DEF Next

\* Nothing has failed at first.
LEMMA ChasedInit == Init => Chased
BY DEF Init, Chased

\* A failed booking nobody is working on has been refunded, or its refund has been
\* tried, unless a process died on the way.
THEOREM NobodyStranded == Spec => []NoStrandedMoney
<1>1. Chased => NoStrandedMoney
  BY DEF Chased, NoStrandedMoney, Working, AtRest
<1> QED BY <1>1, SoundInit, SoundNext, ChasedInit, ChasedNext, PTL DEF Spec
=============================================================================
