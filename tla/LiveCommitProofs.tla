--------------------------- MODULE LiveCommitProofs ---------------------------
(***************************************************************************)
(* Proofs about LiveCommit, for any number of requests, keys, payments,    *)
(* profiles and bounds: its types, what the lock excludes, and where an    *)
(* agent's money is.                                                       *)
(***************************************************************************)
EXTENDS LiveCommit, TLAPS

-----------------------------------------------------------------------------
(* The invariant.                                                          *)

\* A request at work whose lock did not expire has it.
Holds == \A r \in Requests : Inside(r) => lock[KeyOf(r)] = r

Nothing(r) == debits[r] = 0 /\ credits[r] = 0 /\ r \notin paid
Taken(r) == debits[r] = 1 /\ r \in paid

\* What a request that may book has paid with.
Settled(r) ==
    /\ credits[r] = 0 /\ ~Saved(r)
    /\ \/ Uncharged(r) /\ Nothing(r)
       \/ Agents(r) /\ ~Uncharged(r) /\ Taken(r)
       \/ ~Agents(r) /\ debits[r] = 0 /\ r \in paid

\* Nothing is saved that the request knows of.
Unsaved(r) == Saved(r) => r \in unheard

\* What was taken from the wallet and given back, at each place.
Accounts(r) ==
    /\ pc[r] \in {"new", "acquire", "precheck", "debit", "deduct", "reuse", "verify"}
         => Nothing(r) /\ r \notin stays /\ ~Saved(r)
    /\ pc[r] \in {"debit", "deduct", "charged"} => Agents(r) /\ ~Uncharged(r)
    /\ pc[r] \in {"reuse", "verify"} => ~Agents(r)
    /\ pc[r] = "deduct" => read[r] >= Price
    /\ pc[r] = "charged" => /\ debits[r] = 1 /\ credits[r] = 0 /\ r \notin paid
                            /\ r \notin stays /\ ~Saved(r)
    /\ pc[r] = "book" => Settled(r) /\ r \notin stays
    /\ pc[r] = "save" => Settled(r) /\ r \in stays
    /\ pc[r] = "rejected" => /\ Agents(r) /\ Taken(r) /\ credits[r] = 0 /\ ~Saved(r)
                             /\ ask[r].supplier = "RG" /\ r \notin stays
    /\ pc[r] = "refund" => /\ Agents(r) /\ Taken(r) /\ credits[r] \in 0..1 /\ Unsaved(r)
                           /\ credits[r] = 1 => ask[r].supplier = "RG" /\ r \notin stays
    /\ pc[r] \in {"release", "ended"} /\ ~Saved(r) /\ r \notin unheard
         => credits[r] >= debits[r]
    /\ credits[r] > 0 => /\ debits[r] = 1 /\ Unsaved(r)
                         /\ credits[r] = 2 => ask[r].supplier = "RG" /\ r \notin stays
    /\ r \in stays => r \in paid \/ Uncharged(r)

Sound == \A r \in Requests : Accounts(r)

OneDocumentPerKey ==
    \A r, q \in Requests :
        Saved(r) /\ Saved(q) /\ KeyOf(r) = KeyOf(q) /\ KeyOf(r) \in IdempotencyKeys => r = q

CommitInv == TypeOK /\ Holds /\ Sound /\ OneDocumentPerKey

-----------------------------------------------------------------------------
(* Each step is one request's.                                             *)

Same(q) ==
    /\ pc'[q] = pc[q] /\ debits'[q] = debits[q] /\ credits'[q] = credits[q]
    /\ read'[q] = read[q] /\ document'[q] = document[q]
    /\ q \in paid' <=> q \in paid
    /\ q \in stays' <=> q \in stays
    /\ q \in unheard' <=> q \in unheard

\* A step of r changes nobody else's part of the state.
OnlyMine(r) == ask' = ask /\ \A q \in Requests : q # r => Same(q)

Acts(r) == Step(r) \/ Crash(r) \/ CloseBooking(r)

LEMMA OnlyItsOwn ==
    ASSUME TypeOK, NEW r \in Requests, Acts(r)
    PROVE  OnlyMine(r)
<1> USE DEF TypeOK, OnlyMine, Same, GoTo, wallet, supplier, history
<1>1. CASE FindReplay(r) \/ acquireLock(r) \/ Refuse(r) \/ Precheck(r)
  BY <1>1 DEF FindReplay, acquireLock, Refuse, Precheck
<1>2. CASE ReadWallet(r) \/ SaveWallet(r) \/ deductBalance(r) \/ DeductFails(r)
  BY <1>2 DEF ReadWallet, SaveWallet, deductBalance, DeductFails
<1>3. CASE assertPaymentNotReused(r) \/ verifyRazorpayPayment(r)
  BY <1>3 DEF assertPaymentNotReused, verifyRazorpayPayment
<1>4. CASE Book(r) \/ BookRefused(r) \/ BookUnheard(r)
  BY <1>4 DEF Book, BookRefused, BookUnheard
<1>5. CASE createBooking(r) \/ SaveFails(r) \/ SaveUnheard(r)
  BY <1>5 DEF createBooking, Store, SaveFails, SaveUnheard
<1>6. CASE refundBalance(r) \/ RefundFails(r)
  BY <1>6 DEF refundBalance, RefundFails
<1>7. CASE releaseLock(r) \/ ReleaseFails(r) \/ Crash(r) \/ CloseBooking(r)
  BY <1>7 DEF releaseLock, ReleaseFails, Crash, CloseBooking
<1> QED BY <1>1, <1>2, <1>3, <1>4, <1>5, <1>6, <1>7 DEF Acts, Step

LEMMA SameAccounts ==
    ASSUME NEW q \in Requests, ask' = ask, Same(q), Accounts(q)
    PROVE  Accounts(q)'
BY DEF Same, Accounts, Settled, Nothing, Taken, Uncharged, Agents, Saved, Unsaved

-----------------------------------------------------------------------------
(* The request's own accounts.                                             *)

LEMMA OwnAccounts ==
    ASSUME TypeOK, NEW r \in Requests, Accounts(r), Acts(r)
    PROVE  Accounts(r)'
<1> USE AmountsAssumption DEF TypeOK, Accounts, Settled, Nothing, Taken, Uncharged, Agents,
        Saved, Unsaved, At, GoTo, Asks, wallet, supplier, history
<1>1. CASE FindReplay(r)
  BY <1>1 DEF FindReplay
<1>2. CASE acquireLock(r) \/ Refuse(r)
  BY <1>2 DEF acquireLock, Refuse
<1>3. CASE Precheck(r)
  BY <1>3 DEF Precheck
<1>4. CASE ReadWallet(r)
  BY <1>4 DEF ReadWallet
<1>5. CASE SaveWallet(r)
  BY <1>5 DEF SaveWallet
<1>6. CASE deductBalance(r)
  BY <1>6 DEF deductBalance
<1>7. CASE DeductFails(r)
  BY <1>7 DEF DeductFails
<1>8. CASE assertPaymentNotReused(r)
  BY <1>8 DEF assertPaymentNotReused
<1>9. CASE verifyRazorpayPayment(r)
  BY <1>9 DEF verifyRazorpayPayment
<1>10. CASE Book(r)
  BY <1>10 DEF Book
<1>11. CASE BookRefused(r)
  BY <1>11 DEF BookRefused, Thrown
<1>12. CASE BookUnheard(r)
  BY <1>12 DEF BookUnheard, Thrown
<1>13. CASE createBooking(r)
  <2>1. PICK s \in Documents \ {None} : document' = [document EXCEPT ![r] = s]
    BY <1>13 DEF createBooking, Store, SavedAs, Documents, None
  <2>2. document'[r] # None
    BY <2>1
  <2>3. pc[r] = "save" /\ pc'[r] = "release"
    BY <1>13 DEF createBooking, Store
  <2>4. debits' = debits /\ credits' = credits /\ paid' = paid /\ stays' = stays /\ ask' = ask
    BY <1>13 DEF createBooking
  <2> QED BY <2>2, <2>3, <2>4
<1>14. CASE SaveFails(r)
  BY <1>14 DEF SaveFails, Thrown
<1>15. CASE refundBalance(r)
  BY <1>15 DEF refundBalance
<1>16. CASE RefundFails(r)
  BY <1>16 DEF RefundFails
<1>17. CASE releaseLock(r) \/ ReleaseFails(r)
  BY <1>17 DEF releaseLock, ReleaseFails
<1>18. CASE Crash(r)
  BY <1>18 DEF Crash
<1>19. CASE CloseBooking(r)
  BY <1>19 DEF CloseBooking, None
<1>20. CASE SaveUnheard(r)
  <2>1. pc[r] = "save" /\ pc'[r] = Thrown(r) /\ unheard' = unheard \union {r}
    BY <1>20 DEF SaveUnheard, Store
  <2>2. debits' = debits /\ credits' = credits /\ paid' = paid /\ stays' = stays /\ ask' = ask
    BY <1>20 DEF SaveUnheard
  <2> QED BY <2>1, <2>2 DEF Thrown
<1> QED BY <1>1, <1>2, <1>3, <1>4, <1>5, <1>6, <1>7, <1>8, <1>9, <1>10, <1>11, <1>12,
           <1>13, <1>14, <1>15, <1>16, <1>17, <1>18, <1>19, <1>20 DEF Acts, Step

-----------------------------------------------------------------------------
(* The parts of the invariant.                                             *)

LEMMA LockStep ==
    ASSUME TypeOK, Holds, NEW r \in Requests, Acts(r)
    PROVE  Holds'
<1>1. OnlyMine(r)
  BY OnlyItsOwn
<1>2. lapsed' = lapsed
  BY DEF Acts, Step, FindReplay, acquireLock, Refuse, Precheck, ReadWallet, SaveWallet,
         deductBalance, DeductFails, assertPaymentNotReused, verifyRazorpayPayment, Book,
         BookRefused, BookUnheard, createBooking, SaveFails, SaveUnheard, Store, refundBalance, RefundFails,
         releaseLock, ReleaseFails, Crash, CloseBooking, history
<1>3. CASE acquireLock(r)
  <2>1. lock[KeyOf(r)] = None /\ lock' = [lock EXCEPT ![KeyOf(r)] = r] /\ ask' = ask
    BY <1>3 DEF acquireLock
  <2>2. ASSUME NEW q \in Requests, q # r, Inside(q)'  PROVE  lock'[KeyOf(q)] = q
    <3>1. Inside(q)
      BY <1>1, <1>2, <2>2 DEF OnlyMine, Same, Inside
    <3>2. lock[KeyOf(q)] = q /\ q # None
      BY <3>1, NoneAssumption DEF Holds
    <3> QED BY <2>1, <3>2 DEF TypeOK
  <2>3. lock'[KeyOf(r)] = r
    BY <2>1 DEF TypeOK, KeyOf, Asks
  <2> QED BY <2>1, <2>2, <2>3 DEF Holds, KeyOf
<1>4. CASE releaseLock(r)
  <2>1. /\ lock' = [lock EXCEPT ![KeyOf(r)] = IF @ = r THEN None ELSE @]
        /\ pc'[r] = "ended" /\ ask' = ask
    BY <1>4 DEF releaseLock, GoTo, TypeOK
  <2>2. ASSUME NEW q \in Requests, Inside(q)'  PROVE  lock'[KeyOf(q)] = q
    <3>1. q # r
      BY <2>1, <2>2 DEF Inside, Working
    <3>2. Inside(q)
      BY <1>1, <1>2, <2>2, <3>1 DEF OnlyMine, Same, Inside
    <3>3. lock[KeyOf(q)] = q
      BY <3>2 DEF Holds
    <3> QED BY <2>1, <3>1, <3>3 DEF TypeOK
  <2> QED BY <2>1, <2>2 DEF Holds, KeyOf
<1>5. CASE ~acquireLock(r) /\ ~releaseLock(r)
  <2>1. lock' = lock
    BY <1>5 DEF Acts, Step, FindReplay, Refuse, Precheck, ReadWallet, SaveWallet,
         deductBalance, DeductFails, assertPaymentNotReused, verifyRazorpayPayment, Book,
         BookRefused, BookUnheard, createBooking, SaveFails, SaveUnheard, Store, refundBalance, RefundFails,
         ReleaseFails, Crash, CloseBooking
  <2>2. pc'[r] \in Working => pc[r] \in Working
    BY <1>5 DEF Acts, Step, FindReplay, Refuse, Precheck, ReadWallet, SaveWallet,
         deductBalance, DeductFails, assertPaymentNotReused, verifyRazorpayPayment, Book,
         BookRefused, BookUnheard, createBooking, SaveFails, SaveUnheard, Store, refundBalance, RefundFails,
         ReleaseFails, Crash, CloseBooking, GoTo, At, TypeOK, Working
  <2>3. \A q \in Requests : Inside(q)' => Inside(q)
    BY <1>1, <1>2, <2>2 DEF OnlyMine, Same, Inside
  <2> QED BY <1>1, <2>1, <2>3 DEF Holds, KeyOf, OnlyMine
<1> QED BY <1>3, <1>4, <1>5

LEMMA DocumentStep ==
    ASSUME TypeOK, Sound, OneDocumentPerKey, NEW r \in Requests, Acts(r)
    PROVE  OneDocumentPerKey'
<1>1. OnlyMine(r)
  BY OnlyItsOwn
<1>2. CASE Store(r)
  <2>1. ASSUME NEW q \in Requests, q # r, Saved(q)'
        PROVE  Saved(q) /\ (KeyOf(r) \in IdempotencyKeys => KeyOf(q) # KeyOf(r))
    BY <1>1, <1>2, <2>1 DEF Store, Unique, OnlyMine, Same, Saved
  <2> QED BY <1>1, <2>1 DEF OneDocumentPerKey, OnlyMine, KeyOf
<1>3. CASE ~Store(r)
  <2>1. Saved(r)' => Saved(r)
    BY <1>3 DEF Acts, Step, FindReplay, acquireLock, Refuse, Precheck, ReadWallet, SaveWallet,
         deductBalance, DeductFails, assertPaymentNotReused, verifyRazorpayPayment, Book,
         BookRefused, BookUnheard, createBooking, SaveFails, SaveUnheard, refundBalance, RefundFails, releaseLock,
         ReleaseFails, Crash, CloseBooking, Saved
  <2>2. \A q \in Requests : Saved(q)' => Saved(q)
    BY <1>1, <2>1 DEF OnlyMine, Same, Saved
  <2> QED BY <1>1, <2>2 DEF OneDocumentPerKey, OnlyMine, KeyOf
<1> QED BY <1>2, <1>3

LEMMA TypeStep ==
    ASSUME TypeOK, NEW r \in Requests, Accounts(r), Acts(r)
    PROVE  TypeOK'
<1> USE AmountsAssumption DEF TypeOK, At, GoTo, Lose, Places, Documents, wallet, supplier, history
<1>1. CASE FindReplay(r) \/ acquireLock(r) \/ Refuse(r)
  <2>1. KeyOf(r) \in LockKeys
    BY DEF KeyOf, Asks
  <2> QED BY <1>1, <2>1 DEF FindReplay, acquireLock, Refuse
<1>2. CASE Precheck(r)
  BY <1>2 DEF Precheck, Agents
<1>3. CASE ReadWallet(r)
  BY <1>3 DEF ReadWallet
<1>4. CASE SaveWallet(r)
  BY <1>4 DEF SaveWallet, Accounts
<1>5. CASE deductBalance(r) \/ DeductFails(r)
  BY <1>5 DEF deductBalance, DeductFails
<1>6. CASE assertPaymentNotReused(r) \/ verifyRazorpayPayment(r)
  BY <1>6 DEF assertPaymentNotReused, verifyRazorpayPayment
<1>7. CASE Book(r)
  BY <1>7 DEF Book
<1>8. CASE BookRefused(r) \/ BookUnheard(r)
  BY <1>8 DEF BookRefused, BookUnheard, Thrown
<1>9. CASE createBooking(r) \/ SaveUnheard(r)
  <2>1. document' \in [Requests -> Documents]
    BY <1>9 DEF createBooking, SaveUnheard, Store, SavedAs
  <2>2. pc' \in [Requests -> Places]
    BY <1>9 DEF createBooking, SaveUnheard, Thrown
  <2> QED BY <1>9, <2>1, <2>2 DEF createBooking, SaveUnheard
<1>10. CASE SaveFails(r)
  BY <1>10 DEF SaveFails, Thrown
<1>11. CASE refundBalance(r)
  <2>1. credits[r] + 1 \in 0..2
    BY <1>11 DEF refundBalance, Accounts
  <2> QED BY <1>11, <2>1 DEF refundBalance
<1>12. CASE RefundFails(r)
  BY <1>12 DEF RefundFails
<1>13. CASE releaseLock(r)
  BY <1>13 DEF releaseLock
<1>14. CASE ReleaseFails(r) \/ Crash(r)
  BY <1>14 DEF ReleaseFails, Crash
<1>15. CASE CloseBooking(r)
  BY <1>15 DEF CloseBooking
<1> QED BY <1>1, <1>2, <1>3, <1>4, <1>5, <1>6, <1>7, <1>8, <1>9, <1>10, <1>11, <1>12,
           <1>13, <1>14, <1>15 DEF Acts, Step

\* Redis drops the key: the holder is one whose lock expired from now on.
LEMMA ExpiryStep ==
    ASSUME CommitInv, NEW k \in LockKeys, Expire(k)
    PROVE  CommitInv'
<1> USE DEF CommitInv
<1>1. TypeOK'
  BY AmountsAssumption DEF TypeOK, Expire, Lose, wallet, supplier
<1>2. Holds'
  BY DEF Holds, TypeOK, Expire, Inside, KeyOf
<1>3. Sound'
  BY DEF Expire, wallet, supplier, Sound, Accounts, Settled, Nothing, Taken, Uncharged,
         Agents, Saved, Unsaved
<1>4. OneDocumentPerKey'
  BY DEF Expire, OneDocumentPerKey, Saved, KeyOf
<1> QED BY <1>1, <1>2, <1>3, <1>4

LEMMA InitInv == Init => CommitInv
<1> SUFFICES ASSUME Init PROVE CommitInv
  OBVIOUS
<1>1. TypeOK
  BY ProfilesAssumption, AmountsAssumption DEF Init, TypeOK, Places, Documents
<1>2. Holds /\ Sound /\ OneDocumentPerKey
  BY DEF Init, Holds, Inside, Working, Sound, Accounts, Nothing, Saved, OneDocumentPerKey
<1> QED BY <1>1, <1>2 DEF CommitInv

LEMMA NextInv == CommitInv /\ [Next]_vars => CommitInv'
<1> SUFFICES ASSUME CommitInv, [Next]_vars PROVE CommitInv'
  OBVIOUS
<1> USE DEF CommitInv
<1>1. ASSUME NEW r \in Requests, Acts(r)  PROVE  CommitInv'
  <2>1. OnlyMine(r) /\ Accounts(r)'
    BY <1>1, OnlyItsOwn, OwnAccounts DEF Sound
  <2>2. Sound'
    BY <2>1, SameAccounts DEF Sound, OnlyMine
  <2> QED BY <1>1, <2>2, TypeStep, LockStep, DocumentStep DEF Sound
<1>2. ASSUME NEW k \in LockKeys, Expire(k)  PROVE  CommitInv'
  BY <1>2, ExpiryStep
<1>3. CASE UNCHANGED vars
  BY <1>3 DEF vars, wallet, supplier, history, TypeOK, Holds, Inside, KeyOf, Sound, Accounts,
              Settled, Nothing, Taken, Uncharged, Agents, Saved, Unsaved, OneDocumentPerKey
<1> QED BY <1>1, <1>2, <1>3 DEF Next, Acts

LEMMA Invariance == Spec => []CommitInv
BY InitInv, NextInv, PTL DEF Spec

-----------------------------------------------------------------------------
\* Every variable of a commit keeps its type; in particular the wallet's balance
\* is never negative, whatever debits interleave (WalletService.debit).
THEOREM TypeCorrect == Spec => []TypeOK
<1>1. CommitInv => TypeOK
  BY DEF CommitInv
<1> QED BY <1>1, Invariance, PTL

\* The Redis lock admits one request of a key, of those whose lock did not expire
\* (RedisLockUtil.executeWithLock).
THEOREM LockSafe == Spec => []LockExcludes
<1>1. CommitInv => LockExcludes
  BY DEF CommitInv, Holds, LockExcludes
<1> QED BY <1>1, Invariance, PTL

\* An agent's commit that ended without a booking gave back what it took.
THEOREM ChargeReturned == Spec => []NoStrandedCharge
<1>1. CommitInv => NoStrandedCharge
  BY DEF CommitInv, Sound, Accounts, NoStrandedCharge
<1> QED BY <1>1, Invariance, PTL

\* A refund follows a charge, never a booking known to be saved, and is doubled only for a
\* refusal of RateGain (the catch blocks of both supplier paths).
THEOREM RefundsJustified == Spec => []RefundedForCause
<1>1. CommitInv => RefundedForCause
  BY DEF CommitInv, Sound, Accounts, Unsaved, RefundedForCause
<1> QED BY <1>1, Invariance, PTL

\* The supplier books what is paid for, or an agent's hold at TripJack.
THEOREM BookedIsPaid == Spec => []PaidBeforeBooked
<1>1. CommitInv => PaidBeforeBooked
  BY DEF CommitInv, TypeOK, Sound, Accounts, PaidBeforeBooked
<1> QED BY <1>1, Invariance, PTL

\* The tries of one idempotency key leave the agent charged for one stay at most:
\* one of them can have the document, and the others gave their charge back.
THEOREM OneChargePerKey == Spec => []ChargedOncePerKey
<1>1. CommitInv => ChargedOncePerKey
  <2> SUFFICES ASSUME CommitInv PROVE ChargedOncePerKey
    OBVIOUS
  <2>1. ASSUME NEW r \in Requests, pc[r] = "ended", r \notin unheard, debits[r] > credits[r]
        PROVE  Saved(r)
    BY <2>1 DEF CommitInv, TypeOK, Sound, Accounts
  <2> QED BY <2>1 DEF CommitInv, OneDocumentPerKey, ChargedOncePerKey
<1> QED BY <1>1, Invariance, PTL

=============================================================================
