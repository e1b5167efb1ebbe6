----------------------------- MODULE SupplierCall -----------------------------
(***************************************************************************)
(* callSupplier() and CircuitBreaker (src/suppliers/common/call.ts and     *)
(* circuit-breaker.ts): calls of one supplier go through one breaker, each *)
(* with a deadline, a timeout per attempt, and retries if it is a read.    *)
(*                                                                         *)
(* Time is counted in units of a length the constants leave open.  Timers  *)
(* fire on time: Tick waits for the code a timer has woken.                *)
(***************************************************************************)
EXTENDS Integers, FiniteSets

CONSTANTS
    Calls,        \* calls that may be running at once
    Kinds,        \* subset of {"read", "write"}; only a read is repeatable
    Deadlines,    \* what may be left of the deadline when a call starts
    Timeout,      \* timeoutMs of the adapter
    MaxRetries,
    BackoffUnit, MaxBackoff,
    Threshold,    \* failureThreshold of the breaker
    OpenFor       \* openMs of the breaker

ASSUME KindsAssumption == Kinds \subseteq {"read", "write"}
ASSUME TimesAssumption ==
    /\ Deadlines \subseteq Nat /\ OpenFor \in Nat /\ MaxRetries \in Nat
    /\ {Timeout, BackoffUnit, MaxBackoff, Threshold} \subseteq Nat \ {0}

VARIABLES
    call,      \* the running calls
    verdict,   \* what a write was told: made of the code of its last error
    rooms,     \* reservations the supplier made of this write
    late,      \* requests of this write given up while the supplier has them
    failures, shut, since,   \* #failures; #openedAt # null, and how long ago
    halfOpenInFlight,
    blamed     \* history: what has made attempts fail since the last success

breaker == <<failures, shut, since, halfOpenInFlight>>
supplier == <<rooms, late>>
vars == <<call, verdict, rooms, late, failures, shut, since, halfOpenInFlight, blamed>>

Least(m, n) == IF m < n THEN m ELSE n

-----------------------------------------------------------------------------
(* Error codes.  SOLD_OUT stands for the four codes that say so.           *)

Codes == {"TIMEOUT", "CANCELLED", "CIRCUIT_OPEN", "RATE_LIMITED", "AUTH_FAILED",
          "BAD_REQUEST", "UNAVAILABLE", "MALFORMED_RESPONSE", "SOLD_OUT", "UNKNOWN_ERROR"}

RETRYABLE == {"TIMEOUT", "RATE_LIMITED", "UNAVAILABLE", "UNKNOWN_ERROR"}

\* Mutation: our own cancellation counts.
CountCancelled == Codes \ {"SOLD_OUT", "BAD_REQUEST"}

countsAgainstBreaker == Codes \ {"CANCELLED", "SOLD_OUT", "BAD_REQUEST"}

\* Mutation: a timeout is taken for a failure.
UnlessTimedOut == Codes \ {"CIRCUIT_OPEN", "AUTH_FAILED", "BAD_REQUEST", "RATE_LIMITED",
                           "SOLD_OUT", "TIMEOUT"}

mayHaveBooked == Codes \ {"CIRCUIT_OPEN", "AUTH_FAILED", "BAD_REQUEST", "RATE_LIMITED",
                          "SOLD_OUT"}

-----------------------------------------------------------------------------
Idle == [pc |-> "idle", kind |-> "none", left |-> 0, timer |-> 0, attempt |-> 0,
         probe |-> FALSE, cut |-> FALSE, fate |-> "none"]

\* left may not go below 0, which is a property; Int is all its type says.
TypeOK ==
    /\ call \in [Calls -> [pc : {"idle", "waiting", "backoff"},
                           kind : Kinds \union {"none"},
                           left : Int, timer : Nat, attempt : 0..MaxRetries,
                           probe : BOOLEAN, cut : BOOLEAN,
                           fate : {"none", "open", "booked", "refused"}]]
    /\ verdict \in [Calls -> {"none", "told", "unknown", "denied"}]
    /\ rooms \in [Calls -> Nat]
    /\ late \in [Calls -> Nat]
    /\ failures \in 0..(Threshold - 1)
    /\ shut \in BOOLEAN
    /\ since \in 0..OpenFor
    /\ halfOpenInFlight \in BOOLEAN
    /\ blamed \subseteq {"supplier", "deadline"}

Init ==
    /\ call = [c \in Calls |-> Idle]
    /\ verdict = [c \in Calls |-> "none"]
    /\ rooms = [c \in Calls |-> 0]
    /\ late = [c \in Calls |-> 0]
    /\ failures = 0 /\ shut = FALSE /\ since = 0
    /\ halfOpenInFlight = FALSE
    /\ blamed = {}

-----------------------------------------------------------------------------
(* CircuitBreaker.                                                         *)

state == IF ~shut THEN "CLOSED" ELSE IF since >= OpenFor THEN "HALF_OPEN" ELSE "OPEN"

\* Mutation: any number of calls pass a half-open breaker.
AttemptAnyway == state # "OPEN"

canAttempt ==
    \/ state = "CLOSED"
    \/ state = "HALF_OPEN" /\ ~halfOpenInFlight

recordSuccess ==
    /\ failures' = 0 /\ shut' = FALSE /\ since' = 0
    /\ halfOpenInFlight' = FALSE

\* A failure while half open re-opens at once.
recordFailure ==
    /\ halfOpenInFlight' = FALSE
    /\ IF shut \/ failures + 1 >= Threshold
       THEN shut' = TRUE /\ since' = 0 /\ failures' = 0
       ELSE failures' = failures + 1 /\ UNCHANGED <<shut, since>>

\* Mutation: an outcome that is nobody's fault leaves the breaker alone.
IgnoreIt == UNCHANGED breaker

recordIgnored == halfOpenInFlight' = FALSE /\ UNCHANGED <<failures, shut, since>>

Record(code) == IF code \in countsAgainstBreaker THEN recordFailure ELSE recordIgnored

-----------------------------------------------------------------------------
(* callSupplier(), from the start of a call to its first await.            *)

\* What the adapters' book() makes of an error: FAILED or PENDING.
Verdict(kind, code) ==
    IF kind = "read" THEN "none" ELSE IF code \in mayHaveBooked THEN "unknown" ELSE "denied"

\* A slot that takes a new call forgets the old one.
Forget(c) == rooms' = [rooms EXCEPT ![c] = 0] /\ late' = [late EXCEPT ![c] = 0]

\* Nothing was sent: CIRCUIT_OPEN.
TurnAway(c, k) ==
    /\ call[c] = Idle /\ ~canAttempt
    /\ verdict' = [verdict EXCEPT ![c] = Verdict(k, "CIRCUIT_OPEN")]
    /\ Forget(c)
    /\ UNCHANGED <<call, breaker, blamed>>

\* The deadline has passed before the call: CANCELLED.
TooLate(c, k) ==
    /\ call[c] = Idle /\ canAttempt /\ 0 \in Deadlines
    /\ verdict' = [verdict EXCEPT ![c] = Verdict(k, "CANCELLED")]
    /\ Record("CANCELLED")
    /\ Forget(c)
    /\ UNCHANGED <<call, blamed>>

\* Mutation: an attempt is given its full timeout.
Unclamped(left) == Timeout

Clamped(left) == Least(Timeout, left)

\* An attempt: the request is out, for as long as timeout and deadline allow.
Attempt(k, d, n, probing) ==
    [pc |-> "waiting", kind |-> k, left |-> d, timer |-> Clamped(d), attempt |-> n,
     probe |-> probing, cut |-> d < Timeout,
     fate |-> IF k = "write" THEN "open" ELSE "none"]

Send(c, k) ==
    /\ call[c] = Idle /\ canAttempt
    /\ \E d \in Deadlines \ {0} :
         call' = [call EXCEPT ![c] = Attempt(k, d, 0, state = "HALF_OPEN")]
    /\ halfOpenInFlight' = (halfOpenInFlight \/ state = "HALF_OPEN")
    /\ verdict' = [verdict EXCEPT ![c] = "none"]
    /\ Forget(c)
    /\ UNCHANGED <<failures, shut, since, blamed>>

-----------------------------------------------------------------------------
(* The supplier.                                                           *)

Booked(c, n) == rooms' = [rooms EXCEPT ![c] = @ + n]

\* It makes the reservation a write asks for, or does not.
SupplierDecides(c) ==
    /\ call[c].pc = "waiting" /\ call[c].fate = "open"
    /\ \/ call' = [call EXCEPT ![c].fate = "booked"] /\ Booked(c, 1)
       \/ call' = [call EXCEPT ![c].fate = "refused"] /\ UNCHANGED rooms
    /\ UNCHANGED <<verdict, late, breaker, blamed>>

\* It may do so after we have stopped waiting.
SupplierDecidesLate(c) ==
    /\ late[c] > 0
    /\ late' = [late EXCEPT ![c] = @ - 1]
    /\ \/ Booked(c, 1)
       \/ UNCHANGED rooms
    /\ UNCHANGED <<call, verdict, breaker, blamed>>

\* The errors it may answer with.  A refusal proves that nothing was booked;
\* a 5xx, or a body that reports a failure, does not.
Errors ==
    [none    |-> {"RATE_LIMITED", "AUTH_FAILED", "BAD_REQUEST", "UNAVAILABLE",
                  "MALFORMED_RESPONSE", "SOLD_OUT", "UNKNOWN_ERROR"},
     refused |-> {"RATE_LIMITED", "AUTH_FAILED", "BAD_REQUEST", "UNAVAILABLE", "UNKNOWN_ERROR"},
     booked  |-> {"UNAVAILABLE", "UNKNOWN_ERROR"},
     open    |-> {}]

-----------------------------------------------------------------------------
(* callSupplier(), from an answer to the next await, or the end.           *)

Answered(c) ==
    /\ call[c].pc = "waiting" /\ call[c].fate # "open"
    /\ call' = [call EXCEPT ![c] = Idle]
    /\ verdict' = [verdict EXCEPT ![c] = IF call[c].kind = "read" THEN "none" ELSE "told"]
    /\ recordSuccess /\ blamed' = {}
    /\ UNCHANGED supplier

\* Mutation: a write is retried as well.
RetriesOfAll(kind) == MaxRetries

Retries(kind) == IF kind = "read" THEN MaxRetries ELSE 0

Backoff(n) == Least(BackoffUnit * 2^n, MaxBackoff)

\* Arithmetic the proofs need: the provers do not evaluate powers.
ASSUME PowersAssumption == \A n \in 0..MaxRetries : 2^n \in Nat \ {0}

\* Only a wait that ends inside the deadline is worth it.
Retry(c, code) ==
    /\ code \in RETRYABLE
    /\ call[c].attempt < Retries(call[c].kind)
    /\ call[c].left > Backoff(call[c].attempt)

BackOff(c) ==
    /\ call' = [call EXCEPT ![c].pc = "backoff", ![c].timer = Backoff(call[c].attempt)]
    /\ UNCHANGED <<verdict, breaker>>

GiveUp(c, code) ==
    /\ call' = [call EXCEPT ![c] = Idle]
    /\ verdict' = [verdict EXCEPT ![c] = Verdict(call[c].kind, code)]
    /\ Record(code)

\* The supplier may still have the request of an attempt that failed.
Fail(c, code) ==
    /\ IF Retry(c, code) THEN BackOff(c) ELSE GiveUp(c, code)
    /\ late' = IF call[c].fate = "open" THEN [late EXCEPT ![c] = @ + 1] ELSE late
    /\ UNCHANGED rooms

Blame(who) == blamed' = blamed \union {who}

Refused(c) ==
    /\ call[c].pc = "waiting"
    /\ \E code \in Errors[call[c].fate] :
         /\ Fail(c, code)
         /\ IF code \in {"SOLD_OUT", "BAD_REQUEST"} THEN UNCHANGED blamed
            ELSE Blame("supplier")

\* The connection fails, before or after the request arrived.
Disconnected(c) == call[c].pc = "waiting" /\ Fail(c, "UNAVAILABLE") /\ Blame("supplier")

\* The abort signal fires; while the body is being read it is thrown as it is,
\* and so is not known for a timeout.  For a supplier that was not given its
\* whole timeout, the deadline is to blame; the breaker is not told.
TimedOut(c) ==
    /\ call[c].pc = "waiting" /\ call[c].timer = 0
    /\ \E code \in {"TIMEOUT", "UNKNOWN_ERROR"} : Fail(c, code)
    /\ Blame(IF call[c].cut THEN "deadline" ELSE "supplier")

\* The wait was inside the deadline, so something is left of it.
Wake(c) ==
    /\ call[c].pc = "backoff" /\ call[c].timer = 0
    /\ call' = [call EXCEPT ![c] =
                  Attempt(@.kind, @.left, @.attempt + 1, @.probe)]
    /\ UNCHANGED <<verdict, supplier, breaker, blamed>>

Running(c) == call[c].pc # "idle"

\* A unit of time passes.
Tick ==
    /\ \A c \in Calls : Running(c) => call[c].timer > 0
    /\ call' = [c \in Calls |->
                  IF Running(c)
                  THEN [call[c] EXCEPT !.left = @ - 1, !.timer = @ - 1]
                  ELSE call[c]]
    /\ since' = IF shut THEN Least(since + 1, OpenFor) ELSE since
    /\ UNCHANGED <<verdict, supplier, failures, shut, halfOpenInFlight, blamed>>

-----------------------------------------------------------------------------
Start(c) == \E k \in Kinds : TurnAway(c, k) \/ TooLate(c, k) \/ Send(c, k)

Goes(c) == Answered(c) \/ Refused(c) \/ Disconnected(c) \/ TimedOut(c) \/ Wake(c)

Next ==
    \/ \E c \in Calls : Start(c) \/ Goes(c) \/ SupplierDecides(c) \/ SupplierDecidesLate(c)
    \/ Tick

Spec == Init /\ [][Next]_vars

\* Time passes, timers fire, and calls with time left keep coming.
Fairness ==
    /\ WF_vars(Tick)
    /\ \A c \in Calls : WF_vars(TimedOut(c)) /\ WF_vars(Wake(c))
    /\ SF_vars(\E c \in Calls, k \in Kinds : Send(c, k))

FairSpec == Spec /\ Fairness

-----------------------------------------------------------------------------
\* A write that is called FAILED, and so refunded, left no reservation at the
\* supplier and can leave none: whatever was lost, late, retried or answered.
NeverDeniesABooking ==
    \A c \in Calls : verdict[c] = "denied" => rooms[c] = 0 /\ late[c] = 0

\* One write makes at most one reservation, counting the one that may come late.
OneReservation == \A c \in Calls : rooms[c] + late[c] <= 1

\* No call, with its retries and waits, outlives the deadline it was given.
NoneOutlivesItsDeadline ==
    \A c \in Calls : Running(c) => 0 <= call[c].timer /\ call[c].timer <= call[c].left

\* While the breaker says a probe is in flight there is one, whatever other
\* calls end meanwhile: it never turns everybody away for a probe that is over.
ProbeHasOwner ==
    halfOpenInFlight => (shut /\ \E c \in Calls : Running(c) /\ call[c].probe)

\* In HALF_OPEN exactly one probe is admitted: two never run together.
OneProbe ==
    \A c, d \in Calls : call[c].probe /\ call[d].probe => c = d

\* An open breaker lets a probe through in the end.
ProbedInTheEnd ==
    shut ~> (~shut \/ \E c \in Calls : Running(c) /\ call[c].probe)

\* The breaker is open only if an attempt has failed or run out of time since the
\* last success, of whichever call: never on sold-out rates, on bad requests or on
\* calls whose deadline had passed before them.
OpenedForCause == shut => blamed # {}

\* What circuit-breaker.ts says of it: a deadline that cuts calls short does not
\* open the breaker of a healthy supplier.  The code does not keep this.
OpenedByFaults == shut => "supplier" \in blamed
=============================================================================
