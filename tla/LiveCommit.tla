------------------------------ MODULE LiveCommit ------------------------------
(***************************************************************************)
(* The live hotel commit (hotel-booking-service, commit.service.ts): a     *)
(* request looks for the booking of its key, takes the Redis lock, checks  *)
(* the room again, takes the money, books, saves the document, and gives   *)
(* an agent's money back when a step after the charge fails.  The wallet   *)
(* is the one auth-service keeps; every request of an agent shares it.     *)
(*                                                                         *)
(* A request is one call of commit(); a client that tries again makes      *)
(* another request with the same key.  An action is its code from one      *)
(* await to the next.  LiveSettlement goes on from the saved document.     *)
(***************************************************************************)
EXTENDS Integers

CONSTANTS
    Requests,
    LockKeys,         \* what commit_lock_... is made of: agent and key or option
    IdempotencyKeys,  \* those of them that are a client's idempotency key
    Payments,         \* Razorpay payments a B2C client may name
    Profiles,         \* what the requests ask for
    Price,            \* finalPrice, one for all
    Opening,          \* the wallet's balance before them
    MaxLosses         \* bound: crashes, calls that fail or go unanswered, locks that
                      \* expire on a request at work

Asks == [key : LockKeys, channel : {"B2B", "B2C"}, supplier : {"TJ", "RG"},
         isHold : BOOLEAN, payment : Payments]

ASSUME KeysAssumption == IdempotencyKeys \subseteq LockKeys
ASSUME ProfilesAssumption == Profiles \subseteq [Requests -> Asks]
ASSUME AmountsAssumption == Price \in Nat \ {0} /\ Opening \in Nat /\ MaxLosses \in Nat

None == "none"
ASSUME NoneAssumption == None \notin Requests

VARIABLES
    ask,
    pc,
    paid,         \* requests whose paymentProcessed is set
    read,         \* the wallet's balance as the request's debit read it
    lock,         \* the request whose id the Redis key holds
    balance, debits, credits,  \* the wallet, and what each request took and gave back
    stays,        \* requests the supplier has a booking for
    numberless,   \* those whose booking came without a confirmation number
    document,     \* the status the request saved
    losses,
    lapsed,       \* history: requests whose lock expired
    unheard       \* history: requests with a wallet call that failed or went unanswered,
                  \* or a save that did

wallet == <<balance, debits, credits>>
supplier == <<stays, numberless>>
history == <<lapsed, unheard>>
vars == <<ask, pc, paid, read, lock, wallet, supplier, document, losses, history>>

Places == {"new", "acquire", "precheck", "debit", "deduct", "charged", "reuse", "verify",
           "book", "save", "rejected", "refund", "release", "ended", "dead"}
Documents == {None, "PENDING", "HELD", "CONFIRMED", "MANUAL_REVIEW", "OVER"}

TypeOK ==
    /\ ask \in [Requests -> Asks]
    /\ pc \in [Requests -> Places]
    /\ paid \subseteq Requests
    /\ read \in [Requests -> Nat]
    /\ lock \in [LockKeys -> Requests \union {None}]
    /\ balance \in Nat /\ debits \in [Requests -> 0..1] /\ credits \in [Requests -> 0..2]
    /\ stays \subseteq Requests /\ numberless \subseteq stays
    /\ document \in [Requests -> Documents]
    /\ losses \in 0..MaxLosses
    /\ lapsed \subseteq Requests /\ unheard \subseteq Requests

Init ==
    /\ ask \in Profiles
    /\ pc = [r \in Requests |-> "new"]
    /\ paid = {}
    /\ read = [r \in Requests |-> 0]
    /\ lock = [k \in LockKeys |-> None]
    /\ balance = Opening
    /\ debits = [r \in Requests |-> 0] /\ credits = [r \in Requests |-> 0]
    /\ stays = {} /\ numberless = {}
    /\ document = [r \in Requests |-> None]
    /\ losses = 0 /\ lapsed = {} /\ unheard = {}

KeyOf(r) == ask[r].key
Agents(r) == ask[r].channel = "B2B"
Saved(r) == document[r] # None

\* A hold at TripJack is not charged to an agent's wallet; RateGain has no holds.
Uncharged(r) == Agents(r) /\ ask[r].supplier = "TJ" /\ ask[r].isHold

At(r, from) == pc[r] = from
GoTo(r, to) == pc' = [pc EXCEPT ![r] = to]
Lose == losses < MaxLosses /\ losses' = losses + 1

----------------------------------------------------------------------------
\* The look for the booking of an idempotency key: before the lock, and not
\* again under it.
FindReplay(r) ==
    LET duplicate == /\ KeyOf(r) \in IdempotencyKeys
                     /\ \E q \in Requests : KeyOf(q) = KeyOf(r) /\ Saved(q)
    IN  /\ At(r, "new")
        /\ GoTo(r, IF duplicate THEN "ended" ELSE "acquire")
        /\ UNCHANGED <<ask, paid, read, lock, wallet, supplier, document, losses, history>>

\* SET NX EX.
acquireLock(r) ==
    /\ At(r, "acquire") /\ lock[KeyOf(r)] = None
    /\ lock' = [lock EXCEPT ![KeyOf(r)] = r]
    /\ GoTo(r, "precheck")
    /\ UNCHANGED <<ask, paid, read, wallet, supplier, document, losses, history>>

\* Another request has the key, or Redis is not there: the commit fails closed.
Refuse(r) ==
    /\ At(r, "acquire")
    /\ GoTo(r, "ended")
    /\ UNCHANGED <<ask, paid, read, lock, wallet, supplier, document, losses, history>>

Precheck(r) ==
    /\ At(r, "precheck")
    /\ \/ GoTo(r, CASE Uncharged(r) -> "book"
                    [] Agents(r) /\ ~Uncharged(r) -> "debit"
                    [] ~Agents(r) -> "reuse")
       \/ GoTo(r, "release")   \* not available, or the price moved too far
    /\ UNCHANGED <<ask, paid, read, lock, wallet, supplier, document, losses, history>>

\* auth-service debits with a read, a check and a save.
ReadWallet(r) ==
    /\ At(r, "debit")
    /\ read' = [read EXCEPT ![r] = balance]
    /\ GoTo(r, IF balance >= Price THEN "deduct" ELSE "release")
    /\ UNCHANGED <<ask, paid, lock, wallet, supplier, document, losses, history>>

SaveWallet(r) ==
    /\ At(r, "deduct")
    /\ balance' = read[r] - Price /\ read' = [read EXCEPT ![r] = 0]
    /\ debits' = [debits EXCEPT ![r] = 1]
    /\ GoTo(r, "charged")
    /\ UNCHANGED <<ask, paid, lock, credits, supplier, document, losses, history>>

deductBalance(r) ==
    /\ At(r, "charged")
    /\ paid' = paid \union {r}
    /\ GoTo(r, "book")
    /\ UNCHANGED <<ask, read, lock, wallet, supplier, document, losses, history>>

\* A call that fails before the debit, after it (the ledger's entry is a write
\* of its own), or whose answer is lost, throws: paymentProcessed stays false.
DeductFails(r) ==
    /\ pc[r] \in {"debit", "deduct", "charged"}
    /\ unheard' = unheard \union {r} /\ read' = [read EXCEPT ![r] = 0]
    /\ GoTo(r, "release")
    /\ Lose
    /\ UNCHANGED <<ask, paid, lock, wallet, supplier, document, lapsed>>

\* A payment another booking that stands was made with is refused.
assertPaymentNotReused(r) ==
    LET prior == \E q \in Requests :
                    /\ document[q] \notin {None, "OVER"}
                    /\ ~Agents(q) /\ ask[q].payment = ask[r].payment
                    /\ KeyOf(r) \in IdempotencyKeys => KeyOf(q) # KeyOf(r)
    IN  /\ At(r, "reuse")
        /\ GoTo(r, IF prior THEN "release" ELSE "verify")
        /\ UNCHANGED <<ask, paid, read, lock, wallet, supplier, document, losses, history>>

\* payment-service vouches for the payment or, on any trouble, does not.
verifyRazorpayPayment(r) ==
    /\ At(r, "verify")
    /\ \/ paid' = paid \union {r} /\ GoTo(r, "book")
       \/ paid' = paid /\ GoTo(r, "release")
    /\ UNCHANGED <<ask, read, lock, wallet, supplier, document, losses, history>>

----------------------------------------------------------------------------
\* Where a throw inside the block lands: its catch refunds an agent who paid.
Thrown(r) == IF r \in paid /\ Agents(r) THEN "refund" ELSE "release"

\* Accepted.  RateGain may accept without a confirmation number.
Book(r) ==
    /\ At(r, "book")
    /\ stays' = stays \union {r}
    /\ \/ numberless' = numberless
       \/ ask[r].supplier = "RG" /\ numberless' = numberless \union {r}
    /\ GoTo(r, "save")
    /\ UNCHANGED <<ask, paid, read, lock, wallet, document, losses, history>>

\* Refused.  The RateGain path refunds an agent, and then throws.
BookRefused(r) ==
    /\ At(r, "book")
    /\ GoTo(r, IF ask[r].supplier = "RG" /\ Agents(r) THEN "rejected" ELSE Thrown(r))
    /\ UNCHANGED <<ask, paid, read, lock, wallet, supplier, document, losses, history>>

\* No answer: the supplier may have booked.
BookUnheard(r) ==
    /\ At(r, "book")
    /\ stays' \in {stays, stays \union {r}}
    /\ GoTo(r, Thrown(r))
    /\ Lose
    /\ UNCHANGED <<ask, paid, read, lock, wallet, numberless, document, history>>

\* Mutation: only the look before the lock keeps a key to one booking.
NotUnique(r) == pc[r] = "save"

\* The collection's unique indexes: the idempotency key, and the confirmation
\* number, which is "RG-PENDING" for every booking without one.
Unique(r) ==
    \A q \in Requests \ {r} : Saved(q) =>
        /\ KeyOf(r) \in IdempotencyKeys => KeyOf(q) # KeyOf(r)
        /\ ~(r \in numberless /\ q \in numberless)

\* Mutation: the block goes on after the save, and may throw.
SavedThenThrown(r) ==
    /\ At(r, "save") /\ Unique(r)
    /\ document' = [document EXCEPT ![r] = "CONFIRMED"]
    /\ GoTo(r, Thrown(r))
    /\ UNCHANGED <<ask, paid, read, lock, wallet, supplier, losses, history>>

\* What the booking is saved as.
SavedAs(r) ==
    IF ask[r].supplier = "RG" THEN {"CONFIRMED", "MANUAL_REVIEW"}
    ELSE {IF ask[r].isHold THEN "HELD" ELSE "PENDING"}

Store(r) ==
    /\ At(r, "save") /\ Unique(r)
    /\ \E s \in SavedAs(r) : document' = [document EXCEPT ![r] = s]

createBooking(r) ==
    /\ Store(r)
    /\ GoTo(r, "release")
    /\ UNCHANGED <<ask, paid, read, lock, wallet, supplier, losses, history>>

\* Mutation: the save is outside the block whose catch refunds.
SaveFailsOutside(r) ==
    /\ At(r, "save")
    /\ GoTo(r, "release")
    /\ UNCHANGED <<ask, paid, read, lock, wallet, supplier, document, losses, history>>

\* A duplicate, or a database that is not there.
SaveFails(r) ==
    /\ At(r, "save")
    /\ GoTo(r, Thrown(r))
    /\ UNCHANGED <<ask, paid, read, lock, wallet, supplier, document, losses, history>>

\* The document is there, and the request does not hear of it: it is taken for lost.
SaveUnheard(r) ==
    /\ Store(r)
    /\ unheard' = unheard \union {r}
    /\ GoTo(r, Thrown(r))
    /\ Lose
    /\ UNCHANGED <<ask, paid, read, lock, wallet, supplier, lapsed>>

----------------------------------------------------------------------------
\* refundBalance says false when it fails, and neither caller looks.
refundBalance(r) ==
    /\ pc[r] \in {"rejected", "refund"}
    /\ balance' = balance + Price
    /\ credits' = [credits EXCEPT ![r] = @ + 1]
    /\ GoTo(r, IF At(r, "rejected") THEN "refund" ELSE "release")
    /\ UNCHANGED <<ask, paid, read, lock, debits, supplier, document, losses, history>>

RefundFails(r) ==
    /\ pc[r] \in {"rejected", "refund"}
    /\ unheard' = unheard \union {r}
    /\ GoTo(r, IF At(r, "rejected") THEN "refund" ELSE "release")
    /\ Lose
    /\ UNCHANGED <<ask, paid, read, lock, wallet, supplier, document, lapsed>>

\* Mutation: a plain DEL.
DeleteLock(r) ==
    /\ At(r, "release")
    /\ lock' = [lock EXCEPT ![KeyOf(r)] = None]
    /\ GoTo(r, "ended")
    /\ UNCHANGED <<ask, paid, read, wallet, supplier, document, losses, history>>

\* The script deletes the key if it still holds this request's id.
releaseLock(r) ==
    /\ At(r, "release")
    /\ lock' = [lock EXCEPT ![KeyOf(r)] = IF @ = r THEN None ELSE @]
    /\ GoTo(r, "ended")
    /\ UNCHANGED <<ask, paid, read, wallet, supplier, document, losses, history>>

ReleaseFails(r) ==
    /\ At(r, "release")
    /\ GoTo(r, "ended")
    /\ Lose
    /\ UNCHANGED <<ask, paid, read, lock, wallet, supplier, document, history>>

\* Mutation: NX without EX.
NoExpiry(k) == lock[k] \notin Requests \union {None} /\ UNCHANGED vars

\* The key's 30 seconds are over, whatever its holder is doing.
Expire(k) ==
    /\ lock[k] # None
    /\ lock' = [lock EXCEPT ![k] = None]
    /\ lapsed' = lapsed \union {lock[k]}
    /\ IF pc[lock[k]] \in {"ended", "dead"} THEN UNCHANGED losses ELSE Lose
    /\ UNCHANGED <<ask, pc, paid, read, wallet, supplier, document, unheard>>

\* The process dies.
Crash(r) ==
    /\ pc[r] \notin {"new", "ended", "dead"}
    /\ GoTo(r, "dead")
    /\ Lose
    /\ UNCHANGED <<ask, paid, read, lock, wallet, supplier, document, history>>

\* What follows the commit ends the booking: CANCELLED or FAILED.
CloseBooking(r) ==
    /\ document[r] \notin {None, "OVER"}
    /\ document' = [document EXCEPT ![r] = "OVER"]
    /\ UNCHANGED <<ask, pc, paid, read, lock, wallet, supplier, losses, history>>

Step(r) ==
    \/ FindReplay(r) \/ acquireLock(r) \/ Refuse(r) \/ Precheck(r)
    \/ ReadWallet(r) \/ SaveWallet(r) \/ deductBalance(r) \/ DeductFails(r)
    \/ assertPaymentNotReused(r) \/ verifyRazorpayPayment(r)
    \/ Book(r) \/ BookRefused(r) \/ BookUnheard(r)
    \/ createBooking(r) \/ SaveFails(r) \/ SaveUnheard(r)
    \/ refundBalance(r) \/ RefundFails(r)
    \/ releaseLock(r) \/ ReleaseFails(r)

Next ==
    \/ \E r \in Requests : Step(r) \/ Crash(r) \/ CloseBooking(r)
    \/ \E k \in LockKeys : Expire(k)

\* Redis does expire keys, and a request that is not dead goes on.
Spec == Init /\ [][Next]_vars /\ \A k \in LockKeys : WF_vars(Expire(k))

----------------------------------------------------------------------------
Working == {"precheck", "debit", "deduct", "charged", "reuse", "verify", "book", "save",
            "rejected", "refund", "release"}
Inside(r) == pc[r] \in Working /\ r \notin lapsed

\* The lock keeps two requests of one key from working at once (RedisLockUtil),
\* except those whose own lock has expired: no request's release, and no failure
\* or crash of another, lets a second one in.
LockExcludes ==
    \A r, q \in Requests : Inside(r) /\ Inside(q) /\ KeyOf(r) = KeyOf(q) => r = q

\* An agent whose commit ended without a booking got back what was taken for it
\* (the catch blocks of both supplier paths), unless a wallet call failed or
\* went unanswered.
NoStrandedCharge ==
    \A r \in Requests :
        pc[r] = "ended" /\ ~Saved(r) /\ r \notin unheard => credits[r] >= debits[r]

\* Money goes back for money that was taken, and never for a booking that was
\* saved and known to be (the save is the last step of the block); twice only for a RateGain refusal, which is refunded where it is seen
\* and again by the catch block its throw ends in.
RefundedForCause ==
    \A r \in Requests : credits[r] > 0 =>
        /\ debits[r] = 1 /\ (Saved(r) => r \in unheard)
        /\ credits[r] = 2 => ask[r].supplier = "RG" /\ r \notin stays

\* The supplier is only asked to book what is paid for, from the wallet or by a
\* verified payment (PHASE 3 before PHASE 4); TripJack holds of agents are not.
PaidBeforeBooked ==
    \A r \in stays : r \in paid \/ Uncharged(r)

\* However many requests a client sends under one idempotency key, and however
\* often the lock expires on them, the agent is left charged for one stay at
\* most, once they have ended and if no wallet call failed.
ChargedOncePerKey ==
    \A r, q \in Requests :
        LET Charged(x) == pc[x] = "ended" /\ x \notin unheard /\ debits[x] > credits[x]
        IN  /\ KeyOf(r) \in IdempotencyKeys /\ KeyOf(r) = KeyOf(q)
            /\ Charged(r) /\ Charged(q)
            => r = q

\* A request that died, or could not reach Redis to release, does not hold its
\* key for ever: the client's next try can have it.
LockIsFreed ==
    \A r \in Requests :
        (pc[r] \in {"ended", "dead"} /\ lock[KeyOf(r)] = r) ~> lock[KeyOf(r)] # r

=============================================================================
