------------------------------ MODULE Reconciler ------------------------------
(***************************************************************************)
(* BookingReconciler (src/modules/booking/reconciler.ts): a timer starts a *)
(* sweep; the sweep takes a batch of unsettled bookings, oldest update     *)
(* first, and calls confirm() on them in waves.  Commits, cancellations    *)
(* and other callers of confirm() move the bookings meanwhile.             *)
(*                                                                         *)
(* HotelBooking assumes that the reconciler comes back to every pending    *)
(* booking.  This module says when that is so.                             *)
(***************************************************************************)
EXTENDS Integers, Sequences, FiniteSets

CONSTANTS
    Bookings,
    Sweeps,      \* calls of runOnce() that may overlap
    BatchSize,   \* bookings per sweep
    Concurrency, \* confirm() calls in flight
    MaxRestarts  \* bound: restarts of the process

ASSUME SizesAssumption ==
    /\ BatchSize \in Nat \ {0} /\ Concurrency \in Nat \ {0} /\ MaxRestarts \in Nat
ASSUME BookingsAssumption == IsFiniteSet(Bookings)

VARIABLES
    status,   \* of each booking; SETTLED is CONFIRMED, ON_HOLD and every final one
    age,      \* the bookings, least recently updated first
    running,  \* #running
    pc,       \* where each sweep is
    batch,    \* what is left of the batch of each sweep
    called,   \* the bookings whose confirm() has not read its row yet
    asked,    \* the bookings whose confirm() found them pending
    restarts

vars == <<status, age, running, pc, batch, called, asked, restarts>>
sweep == <<running, pc, batch, called, asked>>

Statuses == {"NEW", "PAYMENT_HELD", "SUPPLIER_PENDING", "CANCELLATION_PENDING",
             "MANUAL_REVIEW", "SETTLED"}

Unsettled == {"SUPPLIER_PENDING", "CANCELLATION_PENDING", "MANUAL_REVIEW", "PAYMENT_HELD"}

Least(m, n) == IF m < n THEN m ELSE n

\* The orders of all rows: each has one place.
Orders == {o \in [1..Cardinality(Bookings) -> Bookings] :
             \A i, j \in DOMAIN o : o[i] = o[j] => i = j}

TypeOK ==
    /\ status \in [Bookings -> Statuses]
    /\ age \in Orders
    /\ running \in BOOLEAN
    /\ pc \in [Sweeps -> {"off", "query", "waves"}]
    /\ batch \in [Sweeps -> SUBSET Bookings]
    /\ called \in [Sweeps -> SUBSET Bookings]
    /\ asked \in [Sweeps -> SUBSET Bookings]
    /\ restarts \in 0..MaxRestarts

Init ==
    /\ status = [b \in Bookings |-> "NEW"]
    /\ age \in Orders
    /\ running = FALSE
    /\ pc = [s \in Sweeps |-> "off"]
    /\ batch = [s \in Sweeps |-> {}]
    /\ called = [s \in Sweeps |-> {}]
    /\ asked = [s \in Sweeps |-> {}]
    /\ restarts = 0

-----------------------------------------------------------------------------
(* The rows.                                                               *)

\* Every UPDATE stamps updated_at, and so sends the row to the end.
Write(b, s) ==
    LET Others(x) == x # b IN
    /\ status' = [status EXCEPT ![b] = s]
    /\ age' = Append(SelectSeq(age, Others), b)

\* The unsettled rows the query returns before b.
Ahead(b) ==
    {x \in Bookings : /\ status[x] \in Unsettled
                      /\ \E i, j \in DOMAIN age : i < j /\ age[i] = x /\ age[j] = b}

\* ORDER BY updated_at ASC LIMIT n
findUnsettled(n) ==
    {b \in Bookings : status[b] \in Unsettled /\ Cardinality(Ahead(b)) < n}

\* What the rest of the system does to a booking: commit() and cancel(), which
\* takes up one that was confirmed or held, and confirm() called from elsewhere.
\* No code takes a booking out of review.
MovedTo ==
    [s \in Statuses |->
        CASE s = "NEW"                  -> {"PAYMENT_HELD"}
          [] s = "PAYMENT_HELD"         -> {"SUPPLIER_PENDING", "SETTLED"}
          [] s = "SUPPLIER_PENDING"     -> {"CANCELLATION_PENDING", "MANUAL_REVIEW", "SETTLED"}
          [] s = "CANCELLATION_PENDING" -> {"SUPPLIER_PENDING", "SETTLED"}
          [] s = "SETTLED"              -> {"CANCELLATION_PENDING"}
          [] OTHER                      -> {}]

Elsewhere(b) ==
    /\ \E s \in MovedTo[status[b]] : Write(b, s)
    /\ UNCHANGED <<sweep, restarts>>

-----------------------------------------------------------------------------
(* The sweep.                                                              *)

\* Mutation: a tick does not look whether a sweep is under way.
FreeAnyway == TRUE

Free == ~running

\* A tick that finds a sweep under way does nothing.
Tick(s) ==
    /\ pc[s] = "off" /\ Free
    /\ running' = TRUE
    /\ pc' = [pc EXCEPT ![s] = "query"]
    /\ UNCHANGED <<status, age, batch, called, asked, restarts>>

\* Mutation: the flag is reset only after a sweep that went well.
FinishedWell(s) ==
    /\ running' = (pc[s] = "query")
    /\ pc' = [pc EXCEPT ![s] = "off"]
    /\ UNCHANGED <<status, age, batch, called, asked, restarts>>

\* finally { this.#running = false }
Finish(s) ==
    /\ running' = FALSE
    /\ pc' = [pc EXCEPT ![s] = "off"]
    /\ UNCHANGED <<status, age, batch, called, asked, restarts>>

QueryRejects(s) == pc[s] = "query" /\ Finish(s)

Query(s) ==
    /\ pc[s] = "query"
    /\ pc' = [pc EXCEPT ![s] = "waves"]
    /\ batch' = [batch EXCEPT ![s] = findUnsettled(BatchSize)]
    /\ UNCHANGED <<status, age, running, called, asked, restarts>>

InFlight(s) == called[s] \union asked[s]

\* Mutation: the calls of a wave are not awaited.
NotAwaited(s) == TRUE

\* allSettled: every call of the wave has answered or rejected.
AllAnswered(s) == InFlight(s) = {}

\* Which bookings of the batch share a wave is left open.
NextWave(s) ==
    /\ pc[s] = "waves" /\ AllAnswered(s) /\ batch[s] # {}
    /\ \E wave \in SUBSET batch[s] :
         /\ Cardinality(wave) = Least(Concurrency, Cardinality(batch[s]))
         /\ called' = [called EXCEPT ![s] = @ \union wave]
         /\ batch' = [batch EXCEPT ![s] = @ \ wave]
    /\ UNCHANGED <<status, age, running, pc, asked, restarts>>

LastWave(s) ==
    /\ pc[s] = "waves" /\ AllAnswered(s) /\ batch[s] = {}
    /\ Finish(s)

-----------------------------------------------------------------------------
(* confirm(), as the sweep calls it.                                       *)

\* It reads the row again, and goes on only if the booking is pending now.
Read(s, b) ==
    /\ b \in called[s]
    /\ called' = [called EXCEPT ![s] = @ \ {b}]
    /\ asked' = IF status[b] = "SUPPLIER_PENDING"
                THEN [asked EXCEPT ![s] = @ \union {b}]
                ELSE asked
    /\ UNCHANGED <<status, age, running, pc, batch, restarts>>

\* The supplier's answer, or the lack of one to ask, moves a booking that is
\* still pending.
Settle(s, b) ==
    /\ b \in asked[s]
    /\ asked' = [asked EXCEPT ![s] = @ \ {b}]
    /\ IF status[b] = "SUPPLIER_PENDING"
       THEN \E to \in {"SETTLED", "MANUAL_REVIEW"} : Write(b, to)
       ELSE UNCHANGED <<status, age>>
    /\ UNCHANGED <<running, pc, batch, called, restarts>>

\* The supplier does not know yet, or a call rejects: the row is not touched.
LeaveIt(s, b) ==
    /\ b \in InFlight(s)
    /\ called' = [called EXCEPT ![s] = @ \ {b}]
    /\ asked' = [asked EXCEPT ![s] = @ \ {b}]
    /\ UNCHANGED <<status, age, running, pc, batch, restarts>>

\* The process restarts: the flag and the sweep are only in memory.
Restart ==
    /\ restarts < MaxRestarts
    /\ restarts' = restarts + 1
    /\ running' = FALSE
    /\ pc' = [s \in Sweeps |-> "off"]
    /\ batch' = [s \in Sweeps |-> {}]
    /\ called' = [s \in Sweeps |-> {}]
    /\ asked' = [s \in Sweeps |-> {}]
    /\ UNCHANGED <<status, age>>

-----------------------------------------------------------------------------
SweepStep(s) ==
    \/ QueryRejects(s) \/ Query(s) \/ NextWave(s) \/ LastWave(s)
    \/ \E b \in Bookings : Read(s, b) \/ Settle(s, b) \/ LeaveIt(s, b)

Next ==
    \/ \E b \in Bookings : Elsewhere(b)
    \/ \E s \in Sweeps : Tick(s) \/ SweepStep(s)
    \/ Restart

Spec == Init /\ [][Next]_vars

\* The timer goes on ticking and a sweep goes on; a query, and the read of a
\* booking, is answered some time if it is made again and again.
Fairness ==
    /\ WF_vars(\E s \in Sweeps : Tick(s))
    /\ \A s \in Sweeps : WF_vars(SweepStep(s))
    /\ SF_vars(\E s \in Sweeps : Query(s))
    /\ \A b \in Bookings : SF_vars(\E s \in Sweeps : Read(s, b))

FairSpec == Spec /\ Fairness

-----------------------------------------------------------------------------
\* Two ticks never sweep together, whatever rejected in the sweep before: a
\* tick that finds one under way is skipped, and only its end lets another in.
OneSweepAtATime ==
    \A s, t \in Sweeps : pc[s] # "off" /\ pc[t] # "off" => s = t

Calls == {c \in Sweeps \X Bookings : c[2] \in InFlight(c[1])}

\* The suppliers see at most Concurrency questions of the reconciler at once,
\* over all its sweeps and waves.
AtMostConcurrency == Cardinality(Calls) <= Concurrency

Pending(b) == status[b] = "SUPPLIER_PENDING"
Asked(b) == \E s \in Sweeps : b \in asked[s]

Crowded(b) == Cardinality(Ahead(b)) >= BatchSize

\* A pending booking with fewer than a batch of unsettled rows before it is
\* asked about, whatever queries and calls reject and across a restart.
ReachedUnlessCrowded ==
    \A b \in Bookings : Pending(b) /\ ~Crowded(b) ~> Asked(b) \/ ~Pending(b)
=============================================================================
