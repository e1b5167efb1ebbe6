--------------------------- MODULE PaymentOrderProofs ---------------------------
(***************************************************************************)
(* Proofs about PaymentOrder, for any callers, payments, refunds and       *)
(* losses: an order is called paid only if a payment made for it, or named *)
(* for it, is; its refunds stay within its amount unless two crossed or    *)
(* another order's payment was named; the record of a refund is true, and  *)
(* nothing went back that the order's total does not have.                 *)
(***************************************************************************)
EXTENDS PaymentOrder, FiniteSetTheorems, TLAPS

-----------------------------------------------------------------------------
(* The actions, in the groups the lemmas below go through.                 *)

\* A request about the order itself.
Ordering(c) ==
    \/ createRazorpayOrder(c) \/ Register(c) \/ RegisterFails(c)
    \/ \E p \in Payments : verifyRazorpayPayment(c, p)
    \/ FetchPayment(c) \/ Verified(c)
    \/ syncRazorpayOrderStatus(c) \/ FetchOrder(c) \/ Sync(c)

\* A request that refunds.
Refunding(c) ==
    \/ \E r \in Refunds, p \in Payments : StartRefund(c, r, p)
    \/ \E r \in Refunds : createRefundByBookingId(c, r)
    \/ CheckAmount(c) \/ createRefund(c) \/ ReserveRefused(c)
    \/ Refund(c) \/ RefundRefused(c) \/ RefundUnheard(c)
    \/ Processed(c) \/ Count(c) \/ Restate(c) \/ WriteFails(c) \/ Fail(c)
    \/ \E r \in Refunds, s \in RefundStatuses : updateRefundStatus(c, r, s)
    \/ Crash(c)

\* What Razorpay does, and what is no request's.
Elsewhere ==
    \/ \E p \in Payments : AttemptFails(p) \/ Authorize(p) \/ Capture(p)
    \/ internalRefund
    \/ handlePaymentCaptured \/ handlePaymentAuthorized \/ handlePaymentFailed

LEMMA NextIs ==
    Next <=> (\E c \in Callers : Ordering(c) \/ Refunding(c)) \/ Elsewhere
BY DEF Next, Step, Ordering, Refunding, Elsewhere

-----------------------------------------------------------------------------
(* Types                                                                   *)

LEMMA AmountIs == Amount \in 1..Most /\ Most \in Nat /\ \A p \in Payments : Worth[p] \in 1..Most
BY AmountAssumption, PaymentsAssumption DEF Amount

LEMMA LocalsHold ==
    /\ Nothing \in Locals
    /\ \A l \in Locals :
         /\ \A s \in Statuses \union {None} :
              [l EXCEPT !.next = s] \in Locals /\ [l EXCEPT !.seen = s] \in Locals
         /\ \A a \in 0..Most : [l EXCEPT !.amount = a] \in Locals
         /\ \A r \in Refunds : [l EXCEPT !.refund = r] \in Locals
         /\ \A p \in Payments : [l EXCEPT !.pay = p] \in Locals
    /\ \A n \in Nat, p \in Payments, r \in Refunds, a \in 0..Most :
         [Nothing EXCEPT !.total = n, !.pay = p, !.refund = r, !.amount = a] \in Locals
<1>1. Nothing \in Locals
  BY AmountIs DEF Nothing, Locals
<1>2. ASSUME NEW l \in Locals, NEW s \in Statuses \union {None}
      PROVE  [l EXCEPT !.next = s] \in Locals /\ [l EXCEPT !.seen = s] \in Locals
  BY DEF Locals
<1>3. ASSUME NEW l \in Locals, NEW a \in 0..Most
      PROVE  [l EXCEPT !.amount = a] \in Locals
  BY DEF Locals
<1>4. ASSUME NEW l \in Locals, NEW r \in Refunds
      PROVE  [l EXCEPT !.refund = r] \in Locals
  BY DEF Locals
<1>5. ASSUME NEW l \in Locals, NEW p \in Payments
      PROVE  [l EXCEPT !.pay = p] \in Locals
  BY DEF Locals
<1>6. ASSUME NEW n \in Nat, NEW p \in Payments, NEW r \in Refunds, NEW a \in 0..Most
      PROVE  [Nothing EXCEPT !.total = n, !.pay = p, !.refund = r, !.amount = a] \in Locals
  BY DEF Nothing, Locals
<1> QED
  BY <1>1, <1>2, <1>3, <1>4, <1>5, <1>6

\* Where the callers wait, and what they hold.
CallersOK ==
    /\ pc \in [Callers -> Places] /\ loc \in [Callers -> Locals]
    /\ \A c \in Callers : pc[c] \in NamingPlaces => loc[c].pay \in Payments

\* A request that goes to a place and holds something there.
LEMMA Going ==
    ASSUME TypeOK, NEW c \in Callers, NEW place \in Places, NEW l \in Locals,
           place \in NamingPlaces => l.pay \in Payments,
           GoTo(c, place), Hold(c, l)
    PROVE  CallersOK'
BY DEF TypeOK, GoTo, Hold, CallersOK

LEMMA Returning ==
    ASSUME TypeOK, NEW c \in Callers, Return(c)
    PROVE  CallersOK'
BY LocalsHold, Going DEF Return, Places, NamingPlaces

LEMMA Moving ==
    ASSUME TypeOK, NEW c \in Callers, NEW place \in Places \ NamingPlaces,
           GoTo(c, place), UNCHANGED loc
    PROVE  CallersOK'
BY DEF TypeOK, GoTo, CallersOK

LEMMA TypeInit == Init => TypeOK
<1> SUFFICES ASSUME Init PROVE TypeOK
  OBVIOUS
<1>1. 0 \in 0..Most /\ 0 \in 0..MaxLosses
  BY AmountIs, LossesAssumption
<1> QED
  BY <1>1, LocalsHold, PaymentsAssumption DEF Init, TypeOK, Places, NamingPlaces

LEMMA CallersOrdering ==
    ASSUME TypeOK, NEW c \in Callers, Ordering(c)
    PROVE  CallersOK'
<1> DEFINE There(place, l) == GoTo(c, place) /\ Hold(c, l)
<1>0. /\ loc[c] \in Locals
      /\ pc[c] \in NamingPlaces => loc[c].pay \in Payments
      /\ {"register", "fetch", "verified", "orders", "sync"} \subseteq Places
      /\ {"register", "orders", "sync"} \intersect NamingPlaces = {}
  BY DEF TypeOK, Places, NamingPlaces
<1>1. CASE createRazorpayOrder(c)
  BY <1>0, <1>1, Moving DEF createRazorpayOrder
<1>2. CASE Register(c) \/ RegisterFails(c) \/ Verified(c) \/ Sync(c)
  BY <1>2, Returning DEF Register, RegisterFails, Verified, Sync
<1>3. CASE \E p \in Payments : verifyRazorpayPayment(c, p)
  <2>1. PICK p \in Payments : There("fetch", [Nothing EXCEPT !.pay = p])
    BY <1>3 DEF verifyRazorpayPayment
  <2>2. [Nothing EXCEPT !.pay = p] \in Locals /\ [Nothing EXCEPT !.pay = p].pay = p
    BY LocalsHold DEF Nothing
  <2> QED
    BY <1>0, <2>1, <2>2, Going
<1>4. CASE FetchPayment(c)
  <2>1. \/ Return(c)
        \/ \E s \in {"SUCCESS", "PENDING"} : There("verified", [loc[c] EXCEPT !.next = s])
    BY <1>4 DEF FetchPayment
  <2>2. \A s \in {"SUCCESS", "PENDING"} :
          /\ [loc[c] EXCEPT !.next = s] \in Locals
          /\ [loc[c] EXCEPT !.next = s].pay \in Payments
    <3>1. pc[c] \in NamingPlaces
      BY <1>4 DEF FetchPayment, At, NamingPlaces
    <3>2. \A s \in {"SUCCESS", "PENDING"} : [loc[c] EXCEPT !.next = s] \in Locals
      BY <1>0, LocalsHold DEF Statuses
    <3>3. \A s : [loc[c] EXCEPT !.next = s].pay = loc[c].pay
      BY <1>0 DEF Locals
    <3> QED
      BY <1>0, <3>1, <3>2, <3>3
  <2> QED
    BY <1>0, <2>1, <2>2, Going, Returning
<1>5. CASE syncRazorpayOrderStatus(c)
  <2>1. [Nothing EXCEPT !.seen = status] \in Locals
    BY LocalsHold DEF TypeOK
  <2>2. There("orders", [Nothing EXCEPT !.seen = status])
    BY <1>5 DEF syncRazorpayOrderStatus
  <2> QED
    BY <1>0, <2>1, <2>2, Going
<1>6. CASE FetchOrder(c)
  <2>1. loc[c].seen \in Statuses \union {None} /\ payment[Own] \in PaymentStates
    BY <1>0, PaymentsAssumption DEF Locals, TypeOK
  <2>2. \E s \in Statuses \union {None} : There("sync", [loc[c] EXCEPT !.next = s])
    BY <1>6, <2>1 DEF FetchOrder, PaymentStates, Statuses
  <2>3. \A s \in Statuses \union {None} : [loc[c] EXCEPT !.next = s] \in Locals
    BY <1>0, LocalsHold
  <2> QED
    BY <1>0, <2>2, <2>3, Going
<1> QED
  BY <1>1, <1>2, <1>3, <1>4, <1>5, <1>6 DEF Ordering

LEMMA TypeOrdering ==
    ASSUME TypeOK, NEW c \in Callers, Ordering(c)
    PROVE  TypeOK'
<1>1. CallersOK'
  BY CallersOrdering
<1>2. UNCHANGED <<total, entry, amount, source, razorpay, history>> /\ linked' \in BOOLEAN
  BY DEF Ordering, createRazorpayOrder, Register, RegisterFails, verifyRazorpayPayment,
     FetchPayment, Verified, syncRazorpayOrderStatus, FetchOrder, Sync, order, TypeOK
<1>3. status' \in Statuses \union {None} /\ paymentId' \in Payments \union {None}
  <2>1. loc[c].next \in Statuses \union {None} /\ loc[c].pay \in Payments \union {None}
    BY DEF TypeOK, Locals
  <2>2. CASE Verified(c)
    BY <2>1, <2>2 DEF Verified, updateOrderStatus
  <2>3. CASE ~Verified(c)
    BY <2>1, <2>3 DEF Ordering, createRazorpayOrder, Register, RegisterFails, verifyRazorpayPayment,
       FetchPayment, syncRazorpayOrderStatus, FetchOrder, Sync, order, TypeOK, Statuses
  <2> QED
    BY <2>2, <2>3
<1> QED
  BY <1>1, <1>2, <1>3 DEF TypeOK, CallersOK, razorpay, history

LEMMA CallersRefunding ==
    ASSUME TypeOK, NEW c \in Callers, Refunding(c)
    PROVE  CallersOK'
<1> DEFINE There(place, l) == GoTo(c, place) /\ Hold(c, l)
<1>0. /\ loc[c] \in Locals /\ loc[c].total \in Nat /\ loc[c].amount \in 0..Most
      /\ loc[c].refund \in Refunds \union {None}
      /\ pc[c] \in NamingPlaces => loc[c].pay \in Payments
      /\ {"check", "reserve", "refund", "processed", "count", "restate", "fail"} \subseteq Places
      /\ {"refund", "processed", "count", "restate", "fail"} \intersect NamingPlaces = {}
  BY DEF TypeOK, Places, NamingPlaces, Locals
<1>1. ASSUME NEW r \in Refunds, NEW p \in Payments, NEW a \in 0..Most, Take(c, r, p, a)
      PROVE  CallersOK'
  <2> DEFINE l == [Nothing EXCEPT !.total = total, !.pay = p, !.refund = r, !.amount = a]
  <2>1. l \in Locals /\ l.pay = p
    BY LocalsHold DEF TypeOK, Nothing
  <2>2. There("check", l)
    BY <1>1 DEF Take
  <2> HIDE DEF l
  <2> QED
    BY <1>0, <2>1, <2>2, Going
<1>2. CASE (\E r \in Refunds, p \in Payments : StartRefund(c, r, p))
           \/ (\E r \in Refunds : createRefundByBookingId(c, r))
  <2>1. Asked \subseteq 0..Most /\ paymentId \in Payments \union {None}
    BY AmountAssumption DEF TypeOK
  <2> QED
    BY <1>1, <1>2, <2>1 DEF StartRefund, createRefundByBookingId
<1>3. CASE CheckAmount(c)
  <2> DEFINE left == Worth[loc[c].pay] - loc[c].total
             a == IF loc[c].amount = 0 THEN left ELSE loc[c].amount
  <2>1. loc[c].pay \in Payments
    BY <1>0, <1>3 DEF CheckAmount, At, NamingPlaces
  <2>2. a > 0 /\ a <= left => a \in 0..Most
    BY <1>0, <2>1, AmountIs
  <2>3. \/ Return(c)
        \/ a \in 0..Most /\ There("reserve", [loc[c] EXCEPT !.amount = a])
    BY <1>3, <2>2 DEF CheckAmount
  <2> HIDE DEF a
  <2>4. a \in 0..Most => /\ [loc[c] EXCEPT !.amount = a] \in Locals
                         /\ [loc[c] EXCEPT !.amount = a].pay = loc[c].pay
    BY <1>0, LocalsHold DEF Locals
  <2> QED
    BY <1>0, <2>1, <2>3, <2>4, Going, Returning
<1>4. CASE createRefund(c)
  <2>1. There("refund", [Nothing EXCEPT !.refund = loc[c].refund])
    BY <1>4 DEF createRefund
  <2>2. [Nothing EXCEPT !.refund = loc[c].refund] \in Locals
    BY <1>0, AmountIs DEF Nothing, Locals
  <2> QED
    BY <1>0, <2>1, <2>2, Going
<1>5. CASE ReserveRefused(c) \/ Restate(c) \/ Fail(c) \/ Crash(c)
  BY <1>5, Returning DEF ReserveRefused, Restate, Fail, Crash
<1>6. CASE Refund(c) \/ RefundUnheard(c) \/ RefundRefused(c) \/ Processed(c)
  BY <1>0, <1>6, Moving DEF Refund, RefundUnheard, RefundRefused, Processed
<1>7. CASE Count(c)
  <2>1. PICK new \in Statuses \union {None} : Return(c) \/ There("restate", [loc[c] EXCEPT !.next = new])
    <3>1. total \in Nat /\ status \in Statuses \union {None}
      BY DEF TypeOK
    <3>2. total >= Amount \/ total \in 1..(Amount - 1) \/ total = 0
      BY <3>1, AmountIs
    <3> QED
      BY <1>7, <3>1, <3>2 DEF Count, Statuses
  <2>2. [loc[c] EXCEPT !.next = new] \in Locals
    BY <1>0, LocalsHold
  <2> QED
    BY <1>0, <2>1, <2>2, Going, Returning
<1>8. CASE WriteFails(c)
  BY <1>0, <1>8, Moving, Returning DEF WriteFails
<1>9. CASE \E r \in Refunds, s \in RefundStatuses : updateRefundStatus(c, r, s)
  BY <1>0, <1>9, Moving DEF updateRefundStatus
<1> QED
  BY <1>2, <1>3, <1>4, <1>5, <1>6, <1>7, <1>8, <1>9 DEF Refunding

LEMMA Losing ==
    ASSUME TypeOK, NEW S, S \subseteq Refunds \union {None}, Lose(S)
    PROVE  losses' \in 0..MaxLosses /\ stray' \subseteq Refunds
BY LossesAssumption DEF TypeOK, Lose

LEMMA TypeRefunding ==
    ASSUME TypeOK, NEW c \in Callers, Refunding(c)
    PROVE  TypeOK'
<1> USE DEF TypeOK, order, razorpay, history
<1>0. /\ loc[c] \in Locals /\ loc[c].amount \in 0..Most
      /\ loc[c].refund \in Refunds \union {None} /\ loc[c].next \in Statuses \union {None}
      /\ pc[c] \in NamingPlaces => loc[c].pay \in Payments
  BY DEF Locals
<1>1. CallersOK'
  BY CallersRefunding
<1>2. UNCHANGED <<linked, paymentId, events, direct>>
  BY DEF Refunding, StartRefund, createRefundByBookingId, Take, CheckAmount, createRefund,
     ReserveRefused, Refund, RefundRefused, RefundUnheard, Processed, Count, Restate, WriteFails,
     Fail, updateRefundStatus, Crash
<1>3. status' \in Statuses \union {None}
  BY <1>0 DEF Refunding, StartRefund, createRefundByBookingId, Take, CheckAmount, createRefund,
     ReserveRefused, Refund, RefundRefused, RefundUnheard, Processed, Count, Restate, WriteFails,
     Fail, updateRefundStatus, Crash
<1>4. CASE \/ \E r \in Refunds, p \in Payments : StartRefund(c, r, p)
           \/ \E r \in Refunds : createRefundByBookingId(c, r)
           \/ CheckAmount(c) \/ ReserveRefused(c) \/ RefundRefused(c) \/ Count(c)
  <2>1. UNCHANGED <<order, razorpay, history>>
    BY <1>4 DEF StartRefund, createRefundByBookingId, Take, CheckAmount, ReserveRefused,
       RefundRefused, Count
  <2> QED
    BY <1>1, <2>1 DEF CallersOK
<1>5. CASE createRefund(c)
  <2>1. loc[c].amount \in Nat /\ loc[c].pay \in Payments
    BY <1>0, <1>5, AmountIs DEF createRefund, At, NamingPlaces
  <2>2. /\ entry' = [entry EXCEPT ![loc[c].refund] = "pending"]
        /\ amount' = [amount EXCEPT ![loc[c].refund] = loc[c].amount]
        /\ source' = [source EXCEPT ![loc[c].refund] = loc[c].pay]
        /\ total' = total + loc[c].amount
        /\ crossed' = (crossed \/ total # loc[c].total)
        /\ UNCHANGED <<payment, returned, losses, stray>>
    BY <1>5 DEF createRefund
  <2>3. total' \in Nat
    BY <2>1, <2>2
  <2>4. entry' \in [Refunds -> RefundStatuses \union {None}]
    BY <2>2 DEF RefundStatuses
  <2>5. amount' \in [Refunds -> 0..Most]
    BY <1>0, <2>2
  <2>6. source' \in [Refunds -> Payments \union {None}]
    BY <2>1, <2>2
  <2>7. crossed' \in BOOLEAN
    BY <2>2
  <2> QED
    BY <1>1, <1>2, <1>3, <2>2, <2>3, <2>4, <2>5, <2>6, <2>7 DEF CallersOK
<1>6. CASE Refund(c) \/ RefundUnheard(c)
  <2>1. UNCHANGED order /\ crossed' = crossed
    BY <1>6 DEF Refund, RefundUnheard
  <2>3. payment' \in [Payments -> PaymentStates]
    BY <1>6 DEF Refund, RefundUnheard, Send, Give, PaymentStates
  <2>4. returned' \in [Refunds -> 0..Most]
    <3>1. returned' = [returned EXCEPT ![loc[c].refund] = amount[loc[c].refund]]
      BY <1>6 DEF Refund, RefundUnheard, Send
    <3> QED
      BY <3>1
  <2>5. losses' \in 0..MaxLosses /\ stray' \subseteq Refunds
    <3>1. {loc[c].refund} \subseteq Refunds \union {None}
      BY <1>0
    <3> QED
      BY <1>6, <3>1, Losing DEF Refund, RefundUnheard
  <2> QED
    BY <1>1, <2>1, <2>3, <2>4, <2>5, <1>2 DEF CallersOK
<1>7. CASE Processed(c) \/ Fail(c)
  <2>1. /\ UNCHANGED <<status, linked, paymentId, total, amount, source, razorpay, history>>
        /\ \E s \in RefundStatuses : entry' = [entry EXCEPT ![loc[c].refund] = s]
    BY <1>7 DEF Processed, Fail, RefundStatuses
  <2>2. entry' \in [Refunds -> RefundStatuses \union {None}]
    BY <2>1
  <2> QED
    BY <1>1, <2>1, <2>2 DEF CallersOK
<1>8. CASE Restate(c)
  <2>1. UNCHANGED <<linked, paymentId, total, entry, amount, source, razorpay, history>>
    BY <1>8 DEF Restate
  <2> QED
    BY <1>1, <1>3, <2>1 DEF CallersOK
<1>9. CASE WriteFails(c) \/ Crash(c)
  <2>1. UNCHANGED <<order, razorpay, crossed>> /\ Lose({loc[c].refund})
    BY <1>9 DEF WriteFails, Crash
  <2>2. losses' \in 0..MaxLosses /\ stray' \subseteq Refunds
    <3>1. {loc[c].refund} \subseteq Refunds \union {None}
      BY <1>0
    <3> QED
      BY <2>1, <3>1, Losing
  <2> QED
    BY <1>1, <2>1, <2>2 DEF CallersOK
<1>10. CASE \E r \in Refunds, s \in RefundStatuses : updateRefundStatus(c, r, s)
  <2>1. PICK r \in Refunds, s \in RefundStatuses : updateRefundStatus(c, r, s)
    BY <1>10
  <2>2. /\ UNCHANGED <<status, linked, paymentId, total, amount, source, razorpay, crossed>>
        /\ entry' = [entry EXCEPT ![r] = s] /\ Lose({r})
    BY <2>1 DEF updateRefundStatus
  <2>3. losses' \in 0..MaxLosses /\ stray' \subseteq Refunds
    <3>1. {r} \subseteq Refunds \union {None}
      OBVIOUS
    <3> QED
      BY <2>2, <3>1, Losing
  <2> QED
    BY <1>1, <2>2, <2>3 DEF CallersOK
<1> QED
  BY <1>4, <1>5, <1>6, <1>7, <1>8, <1>9, <1>10 DEF Refunding

LEMMA TypeElsewhere ==
    ASSUME TypeOK, Elsewhere
    PROVE  TypeOK'
<1> USE DEF TypeOK, order, callers, history
<1>1. ASSUME NEW p \in Payments, AttemptFails(p) \/ Authorize(p) \/ Capture(p)
      PROVE  TypeOK'
  BY <1>1 DEF AttemptFails, Authorize, Capture, Announced, PaymentStates
<1>2. CASE internalRefund
  <2>1. payment' \in [Payments -> PaymentStates]
    BY <1>2, PaymentsAssumption DEF internalRefund, Give, PaymentStates
  <2>2. direct' \in 0..Most
    BY <1>2, AmountIs DEF internalRefund
  <2> QED
    BY <1>2, <2>1, <2>2 DEF internalRefund
<1>3. CASE handlePaymentCaptured \/ handlePaymentAuthorized \/ handlePaymentFailed
  <2>1. UNCHANGED status /\ UNCHANGED paymentId
    BY <1>3 DEF handlePaymentCaptured, handlePaymentAuthorized, handlePaymentFailed, Webhook,
       updateOrderStatus
  <2>2. UNCHANGED <<linked, total, entry, amount, source, razorpay, callers, history>>
    BY <1>3 DEF handlePaymentCaptured, handlePaymentAuthorized, handlePaymentFailed, Webhook
  <2> QED
    BY <2>1, <2>2 DEF razorpay
<1> QED
  BY <1>1, <1>2, <1>3 DEF Elsewhere

LEMMA TypeStep ==
    ASSUME TypeOK, [Next]_vars
    PROVE  TypeOK'
<1>1. CASE UNCHANGED vars
  BY <1>1 DEF TypeOK, vars, order, razorpay, callers, history
<1> QED
  BY <1>1, NextIs, TypeOrdering, TypeRefunding, TypeElsewhere

\* Every variable of the order keeps its type, however many callers verify, sync and
\* refund it: no status the schema does not have is written, and no refund of a
\* negative amount or one above the largest payment's is made.
THEOREM PaymentTypeCorrect == Spec => []TypeOK
BY TypeInit, TypeStep, PTL DEF Spec

-----------------------------------------------------------------------------
(* What is called paid is paid.  Razorpay keeps a payment once it has it,  *)
(* so that an answer that comes late is still true.                        *)

PaidInv ==
    /\ SuccessIsCaptured
    /\ \A c \in Callers :
         /\ pc[c] = "verified" /\ loc[c].next = "SUCCESS" => Captured(loc[c].pay)
         /\ pc[c] = "sync" /\ loc[c].next = "SUCCESS" => loc[c].seen = "SUCCESS" \/ Captured(Own)
         /\ pc[c] = "restate" => loc[c].next # "SUCCESS"

LEMMA CapturedStays ==
    ASSUME TypeOK, [Next]_vars, NEW p \in Payments, Captured(p)
    PROVE  Captured(p)'
<1> USE PaymentsAssumption DEF TypeOK, Captured, razorpay
<1>1. ASSUME NEW q \in Payments, AttemptFails(q) \/ Authorize(q) \/ Capture(q)
      PROVE  Captured(p)'
  BY <1>1 DEF AttemptFails, Authorize, Capture
<1>2. CASE internalRefund
  BY <1>2 DEF internalRefund, Give
<1>3. CASE handlePaymentCaptured \/ handlePaymentAuthorized \/ handlePaymentFailed
  BY <1>3 DEF Webhook, handlePaymentCaptured, handlePaymentAuthorized, handlePaymentFailed
<1>4. ASSUME NEW c \in Callers, Ordering(c)
      PROVE  payment' = payment
  BY <1>4 DEF Ordering, createRazorpayOrder, Register, RegisterFails, verifyRazorpayPayment,
     FetchPayment, Verified, syncRazorpayOrderStatus, FetchOrder, Sync
<1>5. ASSUME NEW c \in Callers, Refunding(c)
      PROVE  payment'[p] \in {payment[p], "refunded"}
  <2>1. CASE Refund(c) \/ RefundUnheard(c)
    BY <2>1 DEF Refund, RefundUnheard, Send, Give
  <2>2. CASE ~(Refund(c) \/ RefundUnheard(c))
    BY <1>5, <2>2 DEF Refunding, StartRefund, createRefundByBookingId, Take, CheckAmount, createRefund,
       ReserveRefused, RefundRefused, Processed, Count, Restate, WriteFails, Fail, updateRefundStatus,
       Crash
  <2> QED
    BY <2>1, <2>2
<1>6. CASE UNCHANGED vars
  BY <1>6 DEF vars
<1> QED
  BY <1>1, <1>2, <1>3, <1>4, <1>5, <1>6, NextIs DEF Elsewhere

\* A step that writes no SUCCESS, and leaves the payment of one.
LEMMA SuccessStays ==
    ASSUME TypeOK, SuccessIsCaptured, [Next]_vars,
           UNCHANGED <<status, paymentId>> \/ status' # "SUCCESS"
    PROVE  SuccessIsCaptured'
BY CapturedStays, PaymentsAssumption DEF TypeOK, SuccessIsCaptured, Captured

\* What a request other than c holds stays true, if it is left alone,
\* and what c holds is seen to.
LEMMA OthersStay ==
    ASSUME TypeOK, PaidInv, [Next]_vars, NEW c \in Callers, SuccessIsCaptured',
           \A d \in Callers \ {c} : pc'[d] = pc[d] /\ loc'[d] = loc[d],
           pc'[c] = "verified" /\ loc'[c].next = "SUCCESS" => Captured(loc[c].pay)',
           pc'[c] = "sync" /\ loc'[c].next = "SUCCESS" => loc'[c].seen = "SUCCESS" \/ Captured(Own)',
           pc'[c] = "restate" => loc'[c].next # "SUCCESS"
    PROVE  PaidInv'
<1>1. \A d \in Callers \ {c} : pc[d] = "verified" => loc[d].pay \in Payments
  BY DEF TypeOK, NamingPlaces
<1>2. \A p \in Payments : Captured(p) => Captured(p)'
  BY CapturedStays
<1>3. \A d \in Callers \ {c} : pc'[d] = "verified" /\ loc'[d].next = "SUCCESS" => Captured(loc[d].pay)'
  <2> SUFFICES ASSUME NEW d \in Callers \ {c}, pc[d] = "verified", loc[d].next = "SUCCESS"
               PROVE  Captured(loc[d].pay)'
    OBVIOUS
  <2>1. loc[d].pay \in Payments /\ Captured(loc[d].pay) /\ loc'[d] = loc[d]
    BY <1>1 DEF PaidInv
  <2>2. Captured(loc[d].pay) => payment'[loc[d].pay] \in {"captured", "refunded"}
    BY <1>2, <2>1 DEF Captured
  <2> QED
    BY <2>1, <2>2 DEF Captured
<1>4. Captured(Own) => Captured(Own)'
  BY <1>2, PaymentsAssumption
<1> QED
  BY <1>3, <1>4 DEF PaidInv

LEMMA PaidOrdering ==
    ASSUME TypeOK, PaidInv, Next, NEW c \in Callers, Ordering(c)
    PROVE  PaidInv'
<1> USE DEF TypeOK, order, razorpay, history, At, GoTo, Hold, Return, Nothing
<1>0. [Next]_vars /\ SuccessIsCaptured /\ payment' = payment
  BY DEF PaidInv, Ordering, createRazorpayOrder, Register, RegisterFails, verifyRazorpayPayment,
     FetchPayment, Verified, syncRazorpayOrderStatus, FetchOrder, Sync
<1>1. \A d \in Callers \ {c} : pc'[d] = pc[d] /\ loc'[d] = loc[d]
  BY DEF Ordering, createRazorpayOrder, Register, RegisterFails, verifyRazorpayPayment,
     FetchPayment, Verified, syncRazorpayOrderStatus, FetchOrder, Sync
<1>2. pc'[c] # "restate"
  BY DEF Ordering, createRazorpayOrder, Register, RegisterFails, verifyRazorpayPayment,
     FetchPayment, Verified, syncRazorpayOrderStatus, FetchOrder, Sync
<1>3. CASE \/ createRazorpayOrder(c) \/ Register(c) \/ RegisterFails(c)
           \/ (\E p \in Payments : verifyRazorpayPayment(c, p)) \/ syncRazorpayOrderStatus(c)
  <2>1. UNCHANGED <<status, paymentId>> \/ status' # "SUCCESS"
    BY <1>3 DEF createRazorpayOrder, Register, RegisterFails, verifyRazorpayPayment, syncRazorpayOrderStatus
  <2>2. pc'[c] \notin {"verified", "sync"}
    BY <1>3 DEF createRazorpayOrder, Register, RegisterFails, verifyRazorpayPayment, syncRazorpayOrderStatus
  <2> QED
    BY <1>0, <1>1, <1>2, <2>1, <2>2, SuccessStays, OthersStay
<1>4. CASE FetchPayment(c)
  <2>1. pc'[c] = "verified" /\ loc'[c].next = "SUCCESS" => Captured(loc[c].pay)'
    <3>1. loc[c] \in Locals
      OBVIOUS
    <3>2. pc'[c] = "verified" /\ loc'[c].next = "SUCCESS" =>
             loc'[c].pay = loc[c].pay /\ payment[loc[c].pay] = "captured"
      BY <1>4, <3>1 DEF FetchPayment, Locals
    <3>3. pc'[c] = "verified" /\ loc'[c].next = "SUCCESS" => payment'[loc'[c].pay] = "captured"
      BY <1>0, <3>2
    <3> QED
      BY <3>3 DEF Captured
  <2>2. UNCHANGED <<status, paymentId>> /\ pc'[c] # "sync"
    BY <1>4 DEF FetchPayment
  <2> QED
    BY <1>0, <1>1, <1>2, <2>1, <2>2, SuccessStays, OthersStay
<1>5. CASE Verified(c)
  <2>1. SuccessIsCaptured'
    BY <1>0, <1>5, NoneAssumption DEF Verified, updateOrderStatus, SuccessIsCaptured, PaidInv, Captured, NamingPlaces
  <2>2. pc'[c] = "idle"
    BY <1>5 DEF Verified
  <2> QED
    BY <1>0, <1>1, <2>1, <2>2, OthersStay
<1>6. CASE FetchOrder(c)
  <2>1. loc'[c].next = "SUCCESS" => loc'[c].seen = "SUCCESS" \/ Captured(Own)'
    <3>1. loc[c] \in Locals /\ payment[Own] \in PaymentStates
      BY PaymentsAssumption
    <3> QED
      BY <1>0, <1>6, <3>1 DEF FetchOrder, Captured, PaymentStates, Locals
  <2>2. UNCHANGED <<status, paymentId>> /\ pc'[c] = "sync"
    BY <1>6 DEF FetchOrder
  <2> QED
    BY <1>0, <1>1, <1>2, <2>1, <2>2, SuccessStays, OthersStay
<1>7. CASE Sync(c)
  <2>1. SuccessIsCaptured'
    BY <1>0, <1>7 DEF Sync, SuccessIsCaptured, PaidInv, Captured
  <2>2. pc'[c] = "idle"
    BY <1>7 DEF Sync
  <2> QED
    BY <1>0, <1>1, <2>1, <2>2, OthersStay
<1> QED
  BY <1>3, <1>4, <1>5, <1>6, <1>7 DEF Ordering

LEMMA PaidRefunding ==
    ASSUME TypeOK, PaidInv, Next, NEW c \in Callers, Refunding(c)
    PROVE  PaidInv'
<1> USE DEF TypeOK, order, At, GoTo, Hold, Return, Nothing
<1>1. /\ pc'[c] \notin {"verified", "sync"}
      /\ \A d \in Callers \ {c} : pc'[d] = pc[d] /\ loc'[d] = loc[d]
  <2>1. CASE \E r \in Refunds, p \in Payments : StartRefund(c, r, p)
    BY <2>1 DEF StartRefund, Take
  <2>2. CASE \E r \in Refunds : createRefundByBookingId(c, r)
    BY <2>2 DEF createRefundByBookingId, Take
  <2>3. CASE \/ CheckAmount(c) \/ createRefund(c) \/ ReserveRefused(c) \/ Refund(c)
             \/ RefundRefused(c) \/ RefundUnheard(c)
    BY <2>3 DEF CheckAmount, createRefund, ReserveRefused, Refund, RefundRefused, RefundUnheard
  <2>4. CASE Processed(c) \/ Count(c) \/ Restate(c) \/ WriteFails(c) \/ Fail(c) \/ Crash(c)
    BY <2>4 DEF Processed, Count, Restate, WriteFails, Fail, Crash
  <2>5. CASE \E r \in Refunds, s \in RefundStatuses : updateRefundStatus(c, r, s)
    BY <2>5 DEF updateRefundStatus
  <2> QED
    BY <2>1, <2>2, <2>3, <2>4, <2>5 DEF Refunding
<1>2. pc'[c] = "restate" => loc'[c].next # "SUCCESS"
  <2>1. CASE Count(c)
    BY <2>1, AmountIs DEF Count, Locals
  <2>2. CASE ~Count(c)
    BY <2>2 DEF Refunding, StartRefund, createRefundByBookingId, Take, CheckAmount, createRefund,
       ReserveRefused, Refund, RefundRefused, RefundUnheard, Processed, Restate, WriteFails, Fail,
       updateRefundStatus, Crash
  <2> QED
    BY <2>1, <2>2
<1>3. UNCHANGED <<status, paymentId>> \/ status' # "SUCCESS"
  <2>1. CASE Restate(c)
    BY <2>1 DEF Restate, PaidInv
  <2>2. CASE ~Restate(c)
    BY <2>2 DEF Refunding, StartRefund, createRefundByBookingId, Take, CheckAmount, createRefund,
       ReserveRefused, Refund, RefundRefused, RefundUnheard, Processed, Count, WriteFails, Fail,
       updateRefundStatus, Crash
  <2> QED
    BY <2>1, <2>2
<1>4. SuccessIsCaptured'
  BY <1>3, SuccessStays DEF PaidInv
<1> QED
  BY <1>1, <1>2, <1>4, OthersStay

LEMMA PaidStep ==
    ASSUME TypeOK, PaidInv, [Next]_vars
    PROVE  PaidInv'
<1>1. CASE UNCHANGED vars \/ Elsewhere
  <2>1. UNCHANGED <<status, paymentId, pc, loc>>
    BY <1>1 DEF Elsewhere, AttemptFails, Authorize, Capture, internalRefund, Webhook,
       updateOrderStatus, order, callers, vars, handlePaymentCaptured, handlePaymentAuthorized,
       handlePaymentFailed
  <2>2. SuccessIsCaptured'
    BY <2>1, SuccessStays DEF PaidInv
  <2>3. \A p \in Payments : Captured(p) => Captured(p)'
    BY CapturedStays
  <2>4. \A c \in Callers : pc[c] = "verified" => loc[c].pay \in Payments
    BY DEF TypeOK, NamingPlaces
  <2> QED
    BY <2>1, <2>2, <2>3, <2>4, PaymentsAssumption DEF PaidInv, Captured
<1> QED
  BY <1>1, NextIs, PaidOrdering, PaidRefunding

\* An order is called paid only if Razorpay has the money of its own payment or of the
\* one it names, whatever verifications of whatever payments, syncs and webhooks overlap,
\* and however late their answers are written (razorpay.service).
THEOREM SuccessIsPaid == Spec => []SuccessIsCaptured
<1>1. Init => TypeOK /\ PaidInv
  BY TypeInit DEF Init, PaidInv, SuccessIsCaptured, None
<1>2. TypeOK /\ PaidInv /\ [Next]_vars => (TypeOK /\ PaidInv)'
  BY TypeStep, PaidStep
<1>3. PaidInv => SuccessIsCaptured
  BY DEF PaidInv
<1> QED
  BY <1>1, <1>2, <1>3, PTL DEF Spec

-----------------------------------------------------------------------------
(* The refunds.  A refund has one call at most, whose place says what its  *)
(* entry and Razorpay do; what befell a loss is in stray.                  *)

RefundPlaces == {"check", "reserve", "refund", "processed", "count", "restate", "fail"}

\* A call of a refund has it to itself, and has it until it ends.
OwnCall ==
    /\ \A c \in Callers :
         /\ pc[c] \notin RefundPlaces => loc[c].refund = None
         /\ pc[c] \in {"check", "reserve", "refund", "processed", "fail"} => loc[c].refund \in Refunds
         /\ pc[c] \in {"check", "reserve"} => entry[loc[c].refund] = None
    /\ \A c, d \in Callers : c # d /\ loc[c].refund = loc[d].refund => loc[c].refund = None

\* What the call knows of a refund that no loss befell.
Told(c, r) ==
    /\ pc[c] = "refund" => entry[r] = "pending" /\ returned[r] = 0
    /\ pc[c] = "processed" => returned[r] = amount[r]
    /\ pc[c] \in {"count", "restate"} => entry[r] = "processed"
    /\ pc[c] = "fail" => returned[r] = 0

RecordInv ==
    /\ RefundRecordIsTrue
    /\ \A r \in Refunds \ stray :
         /\ entry[r] = None => returned[r] = 0
         /\ \A c \in Callers : loc[c].refund = r => Told(c, r)

\* What was allowed is within the total it was allowed on.
Allowed ==
    /\ NoOverRefund
    /\ \A c \in Callers : pc[c] = "reserve" => loc[c].total + loc[c].amount <= Worth[loc[c].pay]

RefundInv == OwnCall /\ RecordInv /\ Allowed

LEMMA RefundInit == Init => RefundInv
<1> SUFFICES ASSUME Init PROVE RefundInv
  OBVIOUS
<1> QED
  BY NoneAssumption, AmountIs DEF Init, RefundInv, OwnCall, RecordInv, RefundRecordIsTrue, Allowed,
     NoOverRefund, Nothing, RefundPlaces, None

\* A step of a request that has no refund, nor takes one.
Aside(c) ==
    /\ UNCHANGED <<total, entry, amount, source, returned, stray, crossed>>
    /\ loc[c].refund = None /\ loc'[c].refund = None
    /\ pc'[c] \notin {"check", "reserve", "refund", "processed", "fail"}
    /\ \A d \in Callers \ {c} : pc'[d] = pc[d] /\ loc'[d] = loc[d]

LEMMA OrderingAside ==
    ASSUME TypeOK, RefundInv, NEW c \in Callers, Ordering(c)
    PROVE  Aside(c)
<1> USE DEF TypeOK, Aside, order, razorpay, history, At, GoTo, Hold, Return, Nothing
<1>0. loc[c].refund = None
  BY DEF RefundInv, OwnCall, RefundPlaces, Ordering, createRazorpayOrder, Register, RegisterFails,
     verifyRazorpayPayment, FetchPayment, Verified, syncRazorpayOrderStatus, FetchOrder, Sync
<1>1. CASE createRazorpayOrder(c) \/ Register(c) \/ RegisterFails(c)
  BY <1>0, <1>1 DEF createRazorpayOrder, Register, RegisterFails
<1>2. CASE (\E p \in Payments : verifyRazorpayPayment(c, p)) \/ Verified(c)
  BY <1>0, <1>2 DEF verifyRazorpayPayment, Verified
<1>5. CASE FetchPayment(c)
  <2>1. loc[c] \in Locals
    OBVIOUS
  <2> QED
    BY <1>0, <1>5, <2>1 DEF FetchPayment, Locals
<1>3. CASE syncRazorpayOrderStatus(c) \/ Sync(c)
  BY <1>0, <1>3 DEF syncRazorpayOrderStatus, Sync
<1>4. CASE FetchOrder(c)
  <2>1. loc[c] \in Locals
    OBVIOUS
  <2> QED
    BY <1>0, <1>4, <2>1 DEF FetchOrder, Locals
<1> QED
  BY <1>1, <1>2, <1>3, <1>4, <1>5 DEF Ordering

LEMMA RefundAside ==
    ASSUME TypeOK, RefundInv, NEW c \in Callers, Aside(c)
    PROVE  RefundInv'
<1> USE NoneAssumption DEF RefundInv, Aside
<1>1. OwnCall'
  BY DEF OwnCall
<1>2. RecordInv'
  BY DEF RecordInv, RefundRecordIsTrue, Told
<1>3. Allowed'
  BY DEF Allowed, NoOverRefund
<1> QED
  BY <1>1, <1>2, <1>3

\* A step of a request for its refund r, which it has or, having none, takes.
OwnStep(c, r) ==
    /\ loc[c].refund = r \/ (loc[c].refund = None /\ \A d \in Callers : loc[d].refund # r)
    /\ \A q \in Refunds \ {r} :
         /\ entry'[q] = entry[q] /\ amount'[q] = amount[q] /\ returned'[q] = returned[q]
    /\ stray' \in {stray, stray \union {r}}
    /\ \A d \in Callers \ {c} : pc'[d] = pc[d] /\ loc'[d] = loc[d]
    /\ \/ loc'[c].refund = r /\ pc'[c] \in RefundPlaces
       \/ loc'[c].refund = None /\ pc'[c] = "idle"

\* And what it leaves true of r.
Keeps(c, r) ==
    /\ pc'[c] \in {"check", "reserve"} => entry'[r] = None
    /\ r \notin stray' =>
         /\ entry'[r] = "processed" => returned'[r] = amount'[r]
         /\ entry'[r] = "failed" => returned'[r] = 0
         /\ entry'[r] = "pending" => loc'[c].refund = r
         /\ entry'[r] = None => returned'[r] = 0
         /\ loc'[c].refund = r => Told(c, r)'
    /\ NoOverRefund'
    /\ pc'[c] = "reserve" => loc'[c].total + loc'[c].amount <= Worth[loc'[c].pay]

LEMMA RefundKept ==
    ASSUME TypeOK, RefundInv, NEW c \in Callers, NEW r \in Refunds, OwnStep(c, r), Keeps(c, r)
    PROVE  RefundInv'
<1> USE NoneAssumption DEF RefundInv, OwnStep, Keeps
<1>1. OwnCall'
  <2>1. \A d \in Callers \ {c} : loc'[d].refund # r
    BY DEF OwnCall
  <2>2. \A d \in Callers \ {c} : loc[d].refund \in Refunds => loc[d].refund # r
    BY <2>1
  <2> QED
    BY <2>1, <2>2 DEF OwnCall, RefundPlaces
<1>2. RecordInv'
  <2> SUFFICES ASSUME NEW q \in Refunds \ stray'
               PROVE  /\ entry'[q] = "processed" => returned'[q] = amount'[q]
                      /\ entry'[q] = "failed" => returned'[q] = 0
                      /\ entry'[q] = "pending" => \E d \in Callers : loc'[d].refund = q
                      /\ entry'[q] = None => returned'[q] = 0
                      /\ \A d \in Callers : loc'[d].refund = q => Told(d, q)'
    BY DEF RecordInv, RefundRecordIsTrue
  <2>1. \A d \in Callers \ {c} : loc'[d].refund # r
    BY DEF OwnCall
  <2>2. CASE q = r
    BY <2>1, <2>2
  <2>3. CASE q # r
    <3>1. q \in Refunds \ stray /\ entry'[q] = entry[q] /\ amount'[q] = amount[q] /\ returned'[q] = returned[q]
      BY <2>3
    <3>2. loc[c].refund # q /\ loc'[c].refund # q
      BY <2>3
    <3>3. entry[q] = "pending" => \E d \in Callers \ {c} : loc[d].refund = q
      BY <3>1, <3>2 DEF RecordInv, RefundRecordIsTrue
    <3>4. \A d \in Callers \ {c} : loc[d].refund = q => Told(d, q)
      BY <3>1 DEF RecordInv
    <3>5. \A d \in Callers : loc'[d].refund = q => Told(d, q)'
      BY <3>1, <3>2, <3>4 DEF Told
    <3> QED
      BY <3>1, <3>3, <3>5 DEF RecordInv, RefundRecordIsTrue
  <2> QED
    BY <2>2, <2>3
<1>3. Allowed'
  BY DEF Allowed
<1> QED
  BY <1>1, <1>2, <1>3

LEMMA RefundStarts ==
    ASSUME TypeOK, RefundInv, NEW c \in Callers, NEW r \in Refunds,
           NEW p, NEW a, Take(c, r, p, a)
    PROVE  RefundInv'
<1> USE DEF TypeOK, order, razorpay, history, At, GoTo, Hold, Nothing
<1>1. /\ loc[c].refund = None /\ entry[r] = None
      /\ \A d \in Callers : loc[d].refund # r
  BY DEF Take, RefundInv, OwnCall, RefundPlaces
<1>2. /\ pc'[c] = "check" /\ loc'[c].refund = r
      /\ \A d \in Callers \ {c} : pc'[d] = pc[d] /\ loc'[d] = loc[d]
      /\ UNCHANGED <<entry, amount, source, returned, stray, total, crossed>>
  BY DEF Take
<1>3. OwnStep(c, r)
  BY <1>1, <1>2 DEF OwnStep, RefundPlaces
<1>4. Keeps(c, r)
  BY <1>1, <1>2, NoneAssumption DEF Keeps, RefundInv, RecordInv, Told, Allowed, NoOverRefund, None
<1> QED
  BY <1>3, <1>4, RefundKept

\* A refund that is called for, from the check to the record.
LEMMA RefundGoesOn ==
    ASSUME TypeOK, RefundInv, NEW c \in Callers, loc[c].refund \in Refunds,
           \/ CheckAmount(c) \/ createRefund(c) \/ ReserveRefused(c)
           \/ Refund(c) \/ RefundRefused(c) \/ RefundUnheard(c)
           \/ Processed(c) \/ Count(c) \/ Restate(c) \/ WriteFails(c) \/ Fail(c) \/ Crash(c)
    PROVE  RefundInv'
<1> DEFINE r == loc[c].refund
<1> USE NoneAssumption DEF TypeOK, order, razorpay, history, At, GoTo, Hold, Return, Nothing, Lose
<1>0. /\ loc[c] \in Locals /\ r # None /\ r \in Refunds
      /\ r \notin stray => /\ Told(c, r) /\ (entry[r] = None => returned[r] = 0)
                           /\ entry[r] = "processed" => returned[r] = amount[r]
                           /\ entry[r] = "failed" => returned[r] = 0
      /\ pc[c] \in {"check", "reserve"} => entry[r] = None
  BY DEF RefundInv, RecordInv, RefundRecordIsTrue, OwnCall
<1>1. CASE CheckAmount(c)
  <2>1. /\ UNCHANGED <<entry, amount, source, returned, stray, total, crossed>> /\ pc[c] = "check"
        /\ \A d \in Callers \ {c} : pc'[d] = pc[d] /\ loc'[d] = loc[d]
    BY <1>1 DEF CheckAmount
  <2>2. \/ pc'[c] = "idle" /\ loc'[c].refund = None
        \/ /\ pc'[c] = "reserve" /\ loc'[c].refund = r
           /\ loc'[c].total = loc[c].total /\ loc'[c].pay = loc[c].pay
           /\ loc'[c].amount <= Worth[loc[c].pay] - loc[c].total
    BY <1>0, <1>1 DEF CheckAmount, Locals
  <2>3. /\ loc[c].total \in Nat /\ Worth[loc[c].pay] \in Nat
        /\ pc'[c] = "reserve" => loc'[c].amount \in Int
    <3>1. loc[c].pay \in Payments
      BY <2>1 DEF NamingPlaces
    <3> QED
      BY <1>0, <1>1, <3>1, AmountIs DEF CheckAmount, Locals
  <2>4. OwnStep(c, r)
    BY <1>0, <2>1, <2>2 DEF OwnStep, RefundPlaces
  <2>5. Keeps(c, r)
    BY <1>0, <2>1, <2>2, <2>3 DEF Keeps, RefundInv, Told, Allowed, NoOverRefund, None
  <2> QED
    BY <1>0, <2>4, <2>5, RefundKept
<1>2. CASE createRefund(c)
  <2>1. /\ pc[c] = "reserve" /\ pc'[c] = "refund" /\ loc'[c].refund = r
        /\ \A d \in Callers \ {c} : pc'[d] = pc[d] /\ loc'[d] = loc[d]
        /\ entry' = [entry EXCEPT ![r] = "pending"]
        /\ amount' = [amount EXCEPT ![r] = loc[c].amount]
        /\ UNCHANGED <<returned, stray>>
    BY <1>2 DEF createRefund
  <2>2. NoOverRefund'
    <3>1. total' = total + loc[c].amount /\ (~crossed' => total = loc[c].total)
      BY <1>2 DEF createRefund
    <3>2. loc[c].total + loc[c].amount <= Worth[loc[c].pay]
      BY <2>1 DEF RefundInv, Allowed
    <3>3. source'[r] = loc[c].pay /\ loc[c].pay \in Payments
      BY <1>0, <1>2 DEF createRefund, NamingPlaces
    <3>4. ~crossed' => total' <= Worth[loc[c].pay]
      BY <3>1, <3>2
    <3> QED
      BY <1>0, <3>3, <3>4 DEF NoOverRefund, Amount
  <2>3. OwnStep(c, r)
    BY <1>0, <2>1 DEF OwnStep, RefundPlaces
  <2>4. Keeps(c, r)
    BY <1>0, <2>1, <2>2 DEF Keeps, Told, None
  <2> QED
    BY <1>0, <2>3, <2>4, RefundKept
<1>9. CASE ReserveRefused(c)
  <2>1. /\ pc[c] = "reserve" /\ pc'[c] = "idle" /\ loc'[c].refund = None
        /\ UNCHANGED <<entry, amount, source, returned, stray, total, crossed>>
        /\ \A d \in Callers \ {c} : pc'[d] = pc[d] /\ loc'[d] = loc[d]
    BY <1>9 DEF ReserveRefused
  <2>2. OwnStep(c, r)
    BY <1>0, <2>1 DEF OwnStep, RefundPlaces
  <2>3. Keeps(c, r)
    BY <1>0, <2>1 DEF Keeps, Told, RefundInv, Allowed, NoOverRefund, None
  <2> QED
    BY <1>0, <2>2, <2>3, RefundKept
<1>3. CASE Refund(c) \/ RefundUnheard(c)
  <2>1. /\ pc[c] = "refund" /\ UNCHANGED <<entry, amount, source, total, crossed, loc>>
        /\ returned' = [returned EXCEPT ![r] = amount[r]]
        /\ \A d \in Callers \ {c} : pc'[d] = pc[d]
        /\ \/ pc'[c] = "processed" /\ stray' = stray
           \/ pc'[c] = "fail" /\ stray' = stray \union {r}
    BY <1>0, <1>3 DEF Refund, RefundUnheard, Send
  <2>2. OwnStep(c, r)
    BY <1>0, <2>1 DEF OwnStep, RefundPlaces
  <2>3. Keeps(c, r)
    BY <1>0, <2>1 DEF Keeps, Told, RefundInv, Allowed, NoOverRefund, None
  <2> QED
    BY <1>0, <2>2, <2>3, RefundKept
<1>4. CASE RefundRefused(c)
  <2>1. /\ pc[c] = "refund" /\ pc'[c] = "fail"
        /\ UNCHANGED <<entry, amount, source, returned, stray, total, crossed, loc>>
        /\ \A d \in Callers \ {c} : pc'[d] = pc[d]
    BY <1>4 DEF RefundRefused
  <2>2. OwnStep(c, r)
    BY <1>0, <2>1 DEF OwnStep, RefundPlaces
  <2>3. Keeps(c, r)
    BY <1>0, <2>1 DEF Keeps, Told, RefundInv, Allowed, NoOverRefund, None
  <2> QED
    BY <1>0, <2>2, <2>3, RefundKept
<1>5. CASE Processed(c)
  <2>1. /\ pc[c] = "processed" /\ pc'[c] = "count"
        /\ entry' = [entry EXCEPT ![r] = "processed"]
        /\ UNCHANGED <<amount, source, returned, stray, total, crossed, loc>>
        /\ \A d \in Callers \ {c} : pc'[d] = pc[d]
    BY <1>5 DEF Processed
  <2>2. OwnStep(c, r)
    BY <1>0, <2>1 DEF OwnStep, RefundPlaces
  <2>3. Keeps(c, r)
    BY <1>0, <2>1 DEF Keeps, Told, RefundInv, Allowed, NoOverRefund, None
  <2> QED
    BY <1>0, <2>2, <2>3, RefundKept
<1>6. CASE Count(c) \/ Restate(c)
  <2>1. /\ pc[c] \in {"count", "restate"}
        /\ UNCHANGED <<entry, amount, source, returned, stray, total, crossed>>
        /\ \A d \in Callers \ {c} : pc'[d] = pc[d] /\ loc'[d] = loc[d]
    BY <1>6 DEF Count, Restate
  <2>2. \/ pc'[c] = "idle" /\ loc'[c].refund = None
        \/ pc'[c] = "restate" /\ loc'[c].refund = r
    BY <1>0, <1>6 DEF Count, Restate, Locals
  <2>3. OwnStep(c, r)
    BY <1>0, <2>1, <2>2 DEF OwnStep, RefundPlaces
  <2>4. Keeps(c, r)
    BY <1>0, <2>1, <2>2 DEF Keeps, Told, RefundInv, Allowed, NoOverRefund, None
  <2> QED
    BY <1>0, <2>3, <2>4, RefundKept
<1>7. CASE WriteFails(c) \/ Crash(c)
  <2>1. /\ UNCHANGED <<entry, amount, source, returned, total, crossed>> /\ stray' = stray \union {r}
        /\ \A d \in Callers \ {c} : pc'[d] = pc[d] /\ loc'[d] = loc[d]
    BY <1>0, <1>7 DEF WriteFails, Crash
  <2>2. \/ pc'[c] = "idle" /\ loc'[c].refund = None
        \/ pc'[c] = "fail" /\ loc'[c].refund = r
    BY <1>0, <1>7 DEF WriteFails, Crash
  <2>3. OwnStep(c, r)
    BY <1>0, <2>1, <2>2 DEF OwnStep, RefundPlaces
  <2>4. Keeps(c, r)
    BY <1>0, <2>1, <2>2 DEF Keeps, Told, RefundInv, Allowed, NoOverRefund, None
  <2> QED
    BY <1>0, <2>3, <2>4, RefundKept
<1>8. CASE Fail(c)
  <2>1. /\ pc[c] = "fail" /\ pc'[c] = "idle" /\ loc'[c].refund = None
        /\ entry' = [entry EXCEPT ![r] = "failed"]
        /\ UNCHANGED <<amount, source, returned, stray, total, crossed>>
        /\ \A d \in Callers \ {c} : pc'[d] = pc[d] /\ loc'[d] = loc[d]
    BY <1>8 DEF Fail
  <2>2. OwnStep(c, r)
    BY <1>0, <2>1 DEF OwnStep, RefundPlaces
  <2>3. Keeps(c, r)
    BY <1>0, <2>1 DEF Keeps, Told, RefundInv, Allowed, NoOverRefund, None
  <2> QED
    BY <1>0, <2>2, <2>3, RefundKept
<1> QED
  BY <1>1, <1>2, <1>3, <1>4, <1>5, <1>6, <1>7, <1>8, <1>9

\* A request that restates the order after a refund's status was set by hand.
LEMMA ByHandAside ==
    ASSUME TypeOK, RefundInv, NEW c \in Callers, loc[c].refund = None,
           Count(c) \/ Restate(c) \/ WriteFails(c) \/ Crash(c)
    PROVE  Aside(c)
<1> USE DEF TypeOK, Aside, order, razorpay, history, At, GoTo, Hold, Return, Nothing, Lose
<1>1. CASE Count(c)
  <2>1. loc[c] \in Locals
    OBVIOUS
  <2> QED
    BY <1>1, <2>1 DEF Count, Locals
<1>2. CASE Restate(c)
  BY <1>2 DEF Restate
<1>3. CASE WriteFails(c) \/ Crash(c)
  <2>1. stray' = stray /\ Return(c)
    BY <1>3 DEF WriteFails, Crash
  <2>2. UNCHANGED <<total, entry, amount, source, returned, crossed>>
    BY <1>3 DEF WriteFails, Crash
  <2>3. /\ pc'[c] = "idle" /\ loc'[c] = Nothing
        /\ \A d \in Callers \ {c} : pc'[d] = pc[d] /\ loc'[d] = loc[d]
    BY <2>1
  <2> QED
    BY <2>1, <2>2, <2>3
<1> QED
  BY <1>1, <1>2, <1>3

LEMMA RefundByHand ==
    ASSUME TypeOK, RefundInv, NEW c \in Callers, NEW r \in Refunds, NEW s \in RefundStatuses,
           updateRefundStatus(c, r, s)
    PROVE  RefundInv'
<1> USE NoneAssumption DEF RefundInv
<1>1. /\ pc[c] = "idle" /\ entry[r] # None /\ pc' = [pc EXCEPT ![c] = "count"]
      /\ entry' = [entry EXCEPT ![r] = s] /\ stray' = stray \union {r}
      /\ UNCHANGED <<total, amount, source, returned, loc, crossed>>
  BY DEF updateRefundStatus, At, GoTo, Lose, razorpay
<1>2. OwnCall'
  BY <1>1 DEF OwnCall, RefundPlaces, TypeOK
<1>3. RecordInv'
  <2>1. \A q \in Refunds \ stray' : q \in Refunds \ stray /\ q # r /\ entry'[q] = entry[q]
    BY <1>1 DEF TypeOK
  <2>2. loc[c].refund = None
    BY <1>1 DEF OwnCall, RefundPlaces
  <2>3. \A q \in Refunds \ stray', d \in Callers : loc[d].refund = q => Told(d, q)'
    BY <1>1, <2>1, <2>2 DEF RecordInv, Told, TypeOK
  <2> QED
    BY <1>1, <2>1, <2>3 DEF RecordInv, RefundRecordIsTrue
<1>4. Allowed'
  BY <1>1 DEF Allowed, NoOverRefund, TypeOK
<1> QED
  BY <1>2, <1>3, <1>4

LEMMA RefundStep ==
    ASSUME TypeOK, RefundInv, [Next]_vars
    PROVE  RefundInv'
<1>1. CASE UNCHANGED vars
  BY <1>1 DEF RefundInv, OwnCall, RecordInv, RefundRecordIsTrue, Told, Allowed, NoOverRefund,
     vars, order, razorpay, callers, history
<1>2. CASE Elsewhere
  <2>1. UNCHANGED <<total, entry, amount, source, returned, pc, loc, stray, crossed>>
    BY <1>2 DEF Elsewhere, AttemptFails, Authorize, Capture, internalRefund, Webhook, order, callers,
       history, razorpay, handlePaymentCaptured, handlePaymentAuthorized, handlePaymentFailed
  <2> QED
    BY <2>1 DEF RefundInv, OwnCall, RecordInv, RefundRecordIsTrue, Told, Allowed, NoOverRefund
<1>3. ASSUME NEW c \in Callers, Refunding(c)
      PROVE  RefundInv'
  <2>1. loc[c].refund \in Refunds \union {None}
    BY DEF TypeOK, Locals
  <2>2. CASE \/ CheckAmount(c) \/ createRefund(c) \/ ReserveRefused(c)
             \/ Refund(c) \/ RefundRefused(c) \/ RefundUnheard(c) \/ Processed(c) \/ Fail(c)
    <3>1. loc[c].refund \in Refunds
      BY <2>2 DEF RefundInv, OwnCall, At, CheckAmount, createRefund, ReserveRefused, Refund, RefundRefused,
         RefundUnheard, Processed, Fail
    <3> QED
      BY <2>2, <3>1, RefundGoesOn
  <2>3. CASE Count(c) \/ Restate(c) \/ WriteFails(c) \/ Crash(c)
    BY <2>1, <2>3, RefundGoesOn, ByHandAside, RefundAside
  <2> QED
    BY <1>3, <2>2, <2>3, RefundStarts, RefundByHand DEF Refunding, StartRefund, createRefundByBookingId
<1> QED
  BY <1>1, <1>2, <1>3, NextIs, OrderingAside, RefundAside

LEMMA RefundAlways == Spec => [](TypeOK /\ RefundInv)
<1>1. TypeOK /\ RefundInv /\ [Next]_vars => (TypeOK /\ RefundInv)'
  BY TypeStep, RefundStep
<1> QED
  BY <1>1, TypeInit, RefundInit, PTL DEF Spec

\* The record of a refund is true unless its call met a loss: however refunds,
\* webhooks and syncs of the order overlap (createRefundService).
THEOREM RefundsAsRecorded == Spec => []RefundRecordIsTrue
<1>1. RefundInv => RefundRecordIsTrue
  BY DEF RefundInv, RecordInv
<1> QED
  BY <1>1, RefundAlways, PTL

\* The refunds of an order exceed it only if two were each allowed on a total without
\* the other, or the payment they were asked from is another order's, and then they are
\* within that payment (createRefundService's max).
THEOREM WithinTheOrder == Spec => []NoOverRefund
<1>1. RefundInv => NoOverRefund
  BY DEF RefundInv, Allowed
<1> QED
  BY <1>1, RefundAlways, PTL

-----------------------------------------------------------------------------
(* Sums.  Money is counted as coins: a sum over the refunds is a number of *)
(* coins, and the fold that sums them takes the coins refund by refund.    *)

Amounts == [Refunds -> 0..Most]

Coins(f, S) == {c \in S \X (1..Most) : c[2] <= f[c[1]]}

\* The fold's recursion: chosen one by one, its summands added up.
Chosen(S) == CHOOSE r \in S : TRUE
Adds(g, f) ==
    g = [S \in SUBSET Refunds |-> IF S = {} THEN 0 ELSE f[Chosen(S)] + g[S \ {Chosen(S)}]]

LEMMA CoinsFinite ==
    ASSUME NEW f \in Amounts, NEW S \in SUBSET Refunds
    PROVE  IsFiniteSet(Coins(f, S)) /\ Cardinality(Coins(f, S)) \in Nat
<1>1. IsFiniteSet(S)
  BY RefundsAssumption, FS_Subset
<1>2. IsFiniteSet(1..Most)
  BY AmountIs, FS_Interval
<1>3. IsFiniteSet(S \X (1..Most))
  BY <1>1, <1>2, FS_Product
<1>4. Coins(f, S) \in SUBSET (S \X (1..Most))
  BY DEF Coins
<1> QED BY <1>3, <1>4, FS_Subset, FS_CardinalityType

LEMMA CoinsOfOne ==
    ASSUME NEW f \in Amounts, NEW r \in Refunds
    PROVE  Cardinality(Coins(f, {r})) = f[r]
<1>1. f[r] \in 0..Most
  BY DEF Amounts
<1>2. Coins(f, {r}) = {r} \X (1..f[r])
  <2>1. ASSUME NEW c \in Coins(f, {r}) PROVE c \in {r} \X (1..f[r])
    <3>1. c \in {r} \X (1..Most) /\ c[2] <= f[c[1]]
      BY DEF Coins
    <3>2. c[1] = r /\ c[2] \in 1..Most /\ c = <<c[1], c[2]>>
      BY <3>1
    <3>3. c[2] \in 1..f[r]
      BY <1>1, <3>1, <3>2, AmountIs
    <3> QED BY <3>2, <3>3
  <2>2. ASSUME NEW c \in {r} \X (1..f[r]) PROVE c \in Coins(f, {r})
    <3>1. c[1] = r /\ c[2] \in 1..f[r] /\ c = <<c[1], c[2]>>
      OBVIOUS
    <3>2. c[2] \in 1..Most /\ c[2] <= f[r]
      BY <1>1, <3>1, AmountIs
    <3>3. c \in {r} \X (1..Most)
      BY <3>1, <3>2
    <3> QED BY <3>1, <3>2, <3>3 DEF Coins
  <2> QED BY <2>1, <2>2
<1>3. PICK n \in Nat : n = f[r]
  BY <1>1, AmountIs
<1>4. IsFiniteSet(1..n) /\ Cardinality(1..n) = n
  BY FS_Interval
<1>5. IsFiniteSet({r}) /\ Cardinality({r}) = 1
  BY FS_Singleton
<1>6. Cardinality({r} \X (1..n)) = Cardinality({r}) * Cardinality(1..n)
  BY <1>4, <1>5, FS_Product
<1>7. Cardinality({r} \X (1..n)) = n
  BY <1>4, <1>5, <1>6
<1> QED BY <1>2, <1>3, <1>7

LEMMA CoinsSplit ==
    ASSUME NEW f \in Amounts, NEW S \in SUBSET Refunds, NEW r \in S
    PROVE  Cardinality(Coins(f, S)) = f[r] + Cardinality(Coins(f, S \ {r}))
<1> DEFINE A == Coins(f, {r})
           B == Coins(f, S \ {r})
<1>1. A \union B = Coins(f, S) /\ A \intersect B = {}
  BY DEF Coins
<1>2. IsFiniteSet(A) /\ IsFiniteSet(B) /\ Cardinality(A) = f[r] /\ Cardinality(B) \in Nat
  BY CoinsFinite, CoinsOfOne
<1>3. Cardinality(A \intersect B) = 0
  BY <1>1, FS_EmptySet
<1>4. Cardinality(A \union B) = Cardinality(A) + Cardinality(B) - Cardinality(A \intersect B)
  BY <1>2, FS_Union
<1>5. f[r] \in Nat
  BY AmountIs DEF Amounts
<1> HIDE DEF A, B
<1>6. Cardinality(A \union B) = f[r] + Cardinality(B)
  BY <1>2, <1>3, <1>4, <1>5
<1> QED BY <1>1, <1>6 DEF B

LEMMA NoCoins ==
    ASSUME NEW f \in Amounts
    PROVE  Cardinality(Coins(f, {})) = 0
<1>1. Coins(f, {}) = {}
  BY DEF Coins
<1> QED BY <1>1, FS_EmptySet

\* Whatever adds up as the fold does counts the coins: the smallest set of refunds on
\* which it did not would have a smaller one.
LEMMA AddsCoins ==
    ASSUME NEW f \in Amounts, NEW g, Adds(g, f)
    PROVE  \A S \in SUBSET Refunds : g[S] = Cardinality(Coins(f, S))
<1> DEFINE Wrong == {S \in SUBSET Refunds : g[S] # Cardinality(Coins(f, S))}
<1> SUFFICES ASSUME Wrong # {} PROVE FALSE
  OBVIOUS
<1>1. IsWellFoundedOn(StrictSubsetOrdering(Refunds), FiniteSubsetsOf(Refunds))
  BY FS_StrictSubsetOrderingWellFounded
<1>2. FiniteSubsetsOf(Refunds) = SUBSET Refunds
  BY RefundsAssumption, FS_FiniteSubsetsOfFinite
<1>3. \E S \in Wrong : \A T \in Wrong : ~(<<T, S>> \in StrictSubsetOrdering(Refunds))
  <2>1. Wrong \subseteq FiniteSubsetsOf(Refunds)
    BY <1>2
  <2> HIDE DEF Wrong
  <2> QED BY <1>1, <2>1, WFMin
<1>4. PICK S \in Wrong : \A T \in Wrong : ~(<<T, S>> \in StrictSubsetOrdering(Refunds))
  BY <1>3
<1>5. S \in SUBSET Refunds /\ g[S] # Cardinality(Coins(f, S))
  OBVIOUS
<1>6. S # {}
  BY <1>5, NoCoins DEF Adds
<1> DEFINE r == Chosen(S)
<1>7. r \in S
  BY <1>6 DEF Chosen
<1>8. g[S] = f[r] + g[S \ {r}]
  BY <1>5, <1>6 DEF Adds
<1> HIDE DEF r
<1>9. S \ {r} \in SUBSET Refunds /\ <<S \ {r}, S>> \in StrictSubsetOrdering(Refunds)
  BY <1>5, <1>7 DEF StrictSubsetOrdering
<1>10. g[S \ {r}] = Cardinality(Coins(f, S \ {r}))
  BY <1>4, <1>9
<1> QED BY <1>5, <1>7, <1>8, <1>10, CoinsSplit

\* The fold is there: the number of coins adds up as it does.
LEMMA CoinsAdd ==
    ASSUME NEW f \in Amounts
    PROVE  Adds([S \in SUBSET Refunds |-> Cardinality(Coins(f, S))], f)
<1> DEFINE g == [S \in SUBSET Refunds |-> Cardinality(Coins(f, S))]
<1>1. ASSUME NEW S \in SUBSET Refunds
      PROVE  g[S] = IF S = {} THEN 0 ELSE f[Chosen(S)] + g[S \ {Chosen(S)}]
  <2>1. CASE S = {}
    BY <2>1, NoCoins
  <2>2. CASE S # {}
    <3>1. Chosen(S) \in S
      BY <2>2 DEF Chosen
    <3>2. Cardinality(Coins(f, S)) = f[Chosen(S)] + Cardinality(Coins(f, S \ {Chosen(S)}))
      BY <3>1, CoinsSplit
    <3> QED BY <2>2, <3>2
  <2> QED BY <2>1, <2>2
<1>2. g = [S \in SUBSET Refunds |-> IF S = {} THEN 0 ELSE f[Chosen(S)] + g[S \ {Chosen(S)}]]
  BY <1>1
<1> QED BY <1>2 DEF Adds

LEMMA SumIsCoins ==
    ASSUME NEW f \in Amounts
    PROVE  Sum(f) = Cardinality(Coins(f, Refunds))
<1>1. \E g : Adds(g, f)
  BY CoinsAdd
<1> DEFINE h == CHOOSE g : Adds(g, f)
<1>2. Adds(h, f)
  BY <1>1
<1>3. Sum(f) = h[Refunds]
  BY DEF Sum, MapThenSumSet, MapThenFoldSet, Adds, Chosen
<1> HIDE DEF h
<1> QED BY <1>2, <1>3, AddsCoins

\* Sums are ordered as their summands are,
LEMMA SumBelow ==
    ASSUME NEW f \in Amounts, NEW g \in Amounts, \A r \in Refunds : f[r] <= g[r]
    PROVE  Sum(f) <= Sum(g)
<1>1. Coins(f, Refunds) \in SUBSET Coins(g, Refunds)
  <2>1. ASSUME NEW c \in Coins(f, Refunds) PROVE c \in Coins(g, Refunds)
    <3>1. c \in Refunds \X (1..Most) /\ c[2] <= f[c[1]] /\ c[1] \in Refunds
      BY DEF Coins
    <3>2. f[c[1]] <= g[c[1]] /\ f[c[1]] \in Nat /\ g[c[1]] \in Nat /\ c[2] \in Nat
      BY <3>1, AmountIs DEF Amounts
    <3> QED BY <3>1, <3>2 DEF Coins
  <2> QED BY <2>1
<1>2. IsFiniteSet(Coins(g, Refunds))
  BY CoinsFinite
<1> QED BY <1>1, <1>2, SumIsCoins, FS_Subset

\* and change by what one of them changes.
LEMMA SumChanged ==
    ASSUME NEW f \in Amounts, NEW r \in Refunds, NEW a \in 0..Most
    PROVE  /\ Sum(f) \in Nat
           /\ Sum([f EXCEPT ![r] = a]) = Sum(f) - f[r] + a
<1> DEFINE g == [f EXCEPT ![r] = a]
<1>1. g \in Amounts /\ g[r] = a /\ \A q \in Refunds \ {r} : g[q] = f[q]
  BY DEF Amounts
<1> HIDE DEF g
<1>2. Coins(g, Refunds \ {r}) = Coins(f, Refunds \ {r})
  BY <1>1 DEF Coins
<1>3. Sum(f) = f[r] + Cardinality(Coins(f, Refunds \ {r}))
  BY SumIsCoins, CoinsSplit
<1>4. Sum(g) = a + Cardinality(Coins(g, Refunds \ {r}))
  BY <1>1, SumIsCoins, CoinsSplit
<1>5. f[r] \in Nat /\ a \in Nat /\ Cardinality(Coins(f, Refunds \ {r})) \in Nat
  BY CoinsFinite, AmountIs DEF Amounts
<1>6. Sum(f) \in Nat /\ Sum(g) = Sum(f) - f[r] + a
  BY <1>2, <1>3, <1>4, <1>5
<1> QED BY <1>6 DEF g

-----------------------------------------------------------------------------
(* The total is what was reserved, refund by refund, and nothing went back *)
(* that was not.                                                           *)

Reserved ==
    /\ total = Sum(amount)
    /\ \A r \in Refunds : /\ returned[r] <= amount[r]
                          /\ entry[r] = None => amount[r] = 0

LEMMA ReservedInit == Init => Reserved
<1> SUFFICES ASSUME Init PROVE Reserved
  OBVIOUS
<1>1. amount \in Amounts /\ amount = [r \in Refunds |-> 0] /\ total = 0
  BY AmountIs DEF Init, Amounts
<1>2. Coins(amount, Refunds) = {}
  BY <1>1 DEF Coins
<1>3. Sum(amount) = 0
  BY <1>1, <1>2, SumIsCoins, FS_EmptySet
<1> QED BY <1>1, <1>3 DEF Reserved, Init

LEMMA SumPrimed == Sum(amount)' = Sum(amount')
BY DEF Sum, MapThenSumSet, MapThenFoldSet

\* A step that reserves nothing, and gives back what was reserved, or nothing.
LEMMA ReservedStays ==
    ASSUME TypeOK, Reserved, total' = total, amount' = amount,
           \A r \in Refunds : returned'[r] \in {returned[r], amount[r]},
           \A r \in Refunds : entry'[r] = None => entry[r] = None
    PROVE  Reserved'
<1>1. Sum(amount)' = Sum(amount)
  BY SumPrimed
<1>2. \A r \in Refunds : amount[r] <= amount[r]
  BY AmountIs DEF TypeOK
<1> QED BY <1>1, <1>2 DEF Reserved

LEMMA ReservedRefunding ==
    ASSUME TypeOK, RefundInv, Reserved, NEW c \in Callers, Refunding(c)
    PROVE  Reserved'
<1> DEFINE r == loc[c].refund
<1>1. CASE createRefund(c)
  <2>1. /\ r \in Refunds /\ entry[r] = None /\ loc[c].amount \in 0..Most
        /\ amount' = [amount EXCEPT ![r] = loc[c].amount] /\ total' = total + loc[c].amount
        /\ entry' = [entry EXCEPT ![r] = "pending"] /\ returned' = returned
    BY <1>1 DEF createRefund, At, RefundInv, OwnCall, TypeOK, Locals, razorpay
  <2> HIDE DEF r
  <2>2. amount \in Amounts /\ amount[r] = 0 /\ returned[r] = 0
    <3>1. amount[r] = 0 /\ returned[r] <= amount[r] /\ returned[r] \in Nat
      BY <2>1, AmountIs DEF Reserved, TypeOK
    <3> QED BY <3>1 DEF TypeOK, Amounts
  <2>3. Sum(amount)' = Sum(amount) + loc[c].amount
    <3>1. Sum(amount') = Sum(amount) - amount[r] + loc[c].amount /\ Sum(amount) \in Nat
      BY <2>1, <2>2, SumChanged
    <3>2. PICK n \in Nat : n = loc[c].amount
      BY <2>1, AmountIs
    <3> QED BY <2>2, <3>1, <3>2, SumPrimed
  <2>4. total' = Sum(amount)'
    BY <2>1, <2>3 DEF Reserved
  <2>5. \A q \in Refunds : returned'[q] <= amount'[q] /\ (entry'[q] = None => amount'[q] = 0)
    <3>1. \A q \in Refunds \ {r} : amount'[q] = amount[q] /\ entry'[q] = entry[q]
      BY <2>1 DEF TypeOK
    <3>2. amount'[r] = loc[c].amount /\ entry'[r] = "pending" /\ loc[c].amount >= 0
      BY <2>1, AmountIs DEF TypeOK
    <3> QED BY <2>1, <2>2, <3>1, <3>2 DEF Reserved, None
  <2> QED BY <2>4, <2>5 DEF Reserved
<1>2. CASE Refund(c) \/ RefundUnheard(c)
  <2>1. /\ total' = total /\ amount' = amount /\ entry' = entry
        /\ returned' = [returned EXCEPT ![r] = amount[r]]
    BY <1>2 DEF Refund, RefundUnheard, Send, order
  <2>2. \A q \in Refunds : returned'[q] \in {returned[q], amount[q]}
    BY <2>1 DEF TypeOK
  <2> QED BY <2>1, <2>2, ReservedStays
<1>3. CASE Processed(c) \/ Fail(c)
  <2>1. /\ total' = total /\ amount' = amount /\ returned' = returned
        /\ \E s \in {"processed", "failed"} : entry' = [entry EXCEPT ![r] = s]
    BY <1>3 DEF Processed, Fail, razorpay
  <2>2. \A q \in Refunds : entry'[q] = None => entry[q] = None
    BY <2>1 DEF TypeOK, None
  <2> QED BY <2>1, <2>2, ReservedStays
<1>4. CASE \E q \in Refunds, s \in RefundStatuses : updateRefundStatus(c, q, s)
  <2>1. PICK q \in Refunds, s \in RefundStatuses : updateRefundStatus(c, q, s)
    BY <1>4
  <2>2. /\ total' = total /\ amount' = amount /\ returned' = returned
        /\ entry' = [entry EXCEPT ![q] = s]
    BY <2>1 DEF updateRefundStatus, razorpay
  <2>3. \A p \in Refunds : entry'[p] = None => entry[p] = None
    BY <2>2 DEF TypeOK, None, RefundStatuses
  <2> QED BY <2>2, <2>3, ReservedStays
<1>5. CASE \/ \E q \in Refunds, p \in Payments : StartRefund(c, q, p)
           \/ \E q \in Refunds : createRefundByBookingId(c, q)
           \/ CheckAmount(c) \/ ReserveRefused(c) \/ RefundRefused(c) \/ Count(c) \/ Restate(c) \/ WriteFails(c)
           \/ Crash(c)
  <2>1. /\ total' = total /\ amount' = amount /\ returned' = returned /\ entry' = entry
    BY <1>5 DEF StartRefund, createRefundByBookingId, Take, CheckAmount, ReserveRefused, RefundRefused, Count, Restate,
       WriteFails, Crash, order, razorpay
  <2> QED BY <2>1, ReservedStays
<1> QED BY <1>1, <1>2, <1>3, <1>4, <1>5 DEF Refunding

LEMMA ReservedStep ==
    ASSUME TypeOK, RefundInv, Reserved, [Next]_vars
    PROVE  Reserved'
<1>1. ASSUME NEW c \in Callers, Ordering(c) PROVE Reserved'
  <2>1. UNCHANGED <<total, entry, amount, returned>>
    BY <1>1, OrderingAside DEF Aside
  <2> QED BY <2>1, ReservedStays
<1>2. CASE UNCHANGED vars \/ Elsewhere
  <2>1. UNCHANGED <<total, entry, amount, returned>>
    BY <1>2 DEF Elsewhere, AttemptFails, Authorize, Capture, internalRefund, Webhook, order, razorpay, vars,
       handlePaymentCaptured, handlePaymentAuthorized, handlePaymentFailed
  <2> QED BY <2>1, ReservedStays
<1> QED BY <1>1, <1>2, NextIs, ReservedRefunding

\* Whatever went back on the order's refunds is within the total that the next one is
\* measured by: an answer that is lost, a refund called failed or a status set by hand
\* gives nothing back to it (createRefundService).
THEOREM NothingUnreserved == Spec => []ReturnedIsReserved
<1>1. TypeOK /\ Reserved => ReturnedIsReserved
  <2> SUFFICES ASSUME TypeOK, Reserved PROVE Sum(returned) <= total
    BY DEF ReturnedIsReserved
  <2>1. returned \in Amounts /\ amount \in Amounts
    BY DEF TypeOK, Amounts
  <2> QED BY <2>1, SumBelow DEF Reserved
<1>2. TypeOK /\ RefundInv /\ Reserved /\ [Next]_vars => (TypeOK /\ RefundInv /\ Reserved)'
  BY TypeStep, RefundStep, ReservedStep
<1> QED
  BY <1>1, <1>2, TypeInit, RefundInit, ReservedInit, PTL DEF Spec

=============================================================================
