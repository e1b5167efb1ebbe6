-------------------------- MODULE SupplierCallProofs --------------------------
(***************************************************************************)
(* Proofs about SupplierCall, for any number of calls, any deadlines,      *)
(* timeouts and retries, and any breaker: a write called FAILED left no    *)
(* reservation, a write leaves at most one, no call outlives its deadline, *)
(* the breaker's probe is never a call that is over, and it opens for      *)
(* cause.  One property depends on the configuration; its theorem says so. *)
(***************************************************************************)
EXTENDS SupplierCall, TLAPS

-----------------------------------------------------------------------------
(* The invariant.                                                          *)

CallType == [pc : {"idle", "waiting", "backoff"}, kind : Kinds \union {"none"},
             left : Int, timer : Nat, attempt : 0..MaxRetries,
             probe : BOOLEAN, cut : BOOLEAN,
             fate : {"none", "open", "booked", "refused"}]

\* A slot at rest is Idle; a call that waits to retry is a read, with a retry
\* left; a read has no fate, and a write waits for its only attempt.
Shapes ==
    \A c \in Calls :
        \/ call[c] = Idle
        \/ /\ Running(c) /\ call[c].kind = "read" /\ call[c].fate = "none"
           /\ call[c].pc = "backoff" => call[c].attempt < MaxRetries
        \/ /\ call[c].pc = "waiting" /\ call[c].kind = "write"
           /\ call[c].fate \in {"open", "booked", "refused"}

\* A timer ends inside the deadline, and a wait before a retry earlier.
InTime ==
    \A c \in Calls :
        /\ call[c].pc = "waiting" => call[c].timer <= call[c].left
        /\ call[c].pc = "backoff" => call[c].timer < call[c].left

\* While a call runs, what it reserved is what the supplier decided for the
\* attempt that is out; when it is over, its verdict allows for the rest.
Accounted ==
    \A c \in Calls :
        /\ Running(c) => /\ verdict[c] = "none" /\ late[c] = 0
                         /\ rooms[c] = IF call[c].fate = "booked" THEN 1 ELSE 0
        /\ rooms[c] + late[c] <= 1
        /\ verdict[c] = "denied" => rooms[c] = 0 /\ late[c] = 0

CallInv == TypeOK /\ Shapes /\ InTime /\ Accounted /\ ProbeHasOwner

-----------------------------------------------------------------------------
(* Lemmas about the operators.                                             *)

LEMMA Sizes ==
    /\ Timeout \in Nat /\ Timeout > 0 /\ MaxBackoff \in Nat /\ BackoffUnit \in Nat
    /\ Threshold \in Nat /\ Threshold > 0
    /\ OpenFor \in Nat /\ MaxRetries \in Nat
BY TimesAssumption

LEMMA BackoffType == \A n \in 0..MaxRetries : Backoff(n) \in Nat
<1> SUFFICES ASSUME NEW n \in 0..MaxRetries PROVE Backoff(n) \in Nat
  OBVIOUS
<1>1. 2^n \in Nat
  BY PowersAssumption
<1>2. BackoffUnit * 2^n \in Nat
  BY <1>1, Sizes
<1> QED
  BY <1>2, Sizes DEF Backoff, Least

\* Whatever is recorded, the breaker keeps its type and has no probe in flight.
LEMMA Recorded ==
    ASSUME TypeOK, recordSuccess \/ recordFailure \/ recordIgnored
    PROVE  /\ failures' \in 0..(Threshold - 1) /\ shut' \in BOOLEAN
           /\ since' \in 0..OpenFor /\ halfOpenInFlight' = FALSE
<1>1. shut' \in BOOLEAN /\ halfOpenInFlight' = FALSE
  BY DEF recordSuccess, recordFailure, recordIgnored, TypeOK
<1>2. 0 \in 0..(Threshold - 1) /\ 0 \in 0..OpenFor
  BY Sizes
<1>3. CASE recordSuccess
  BY <1>1, <1>2, <1>3 DEF recordSuccess
<1>4. CASE recordFailure
  <2>1. CASE shut \/ failures + 1 >= Threshold
    BY <1>1, <1>2, <1>4, <2>1 DEF recordFailure
  <2>2. CASE ~(shut \/ failures + 1 >= Threshold)
    <3>1. failures' = failures + 1 /\ since' = since
      BY <1>4, <2>2 DEF recordFailure
    <3>2. failures + 1 \in 0..(Threshold - 1)
      BY <2>2, Sizes DEF TypeOK
    <3> QED
      BY <1>1, <3>1, <3>2 DEF TypeOK
  <2> QED
    BY <2>1, <2>2
<1>5. CASE recordIgnored
  BY <1>1, <1>5 DEF recordIgnored, TypeOK
<1> QED
  BY <1>3, <1>4, <1>5

\* An attempt has the type of a call, and its timer ends by the deadline.
LEMMA AttemptType ==
    ASSUME NEW k \in Kinds, NEW d \in Nat, NEW n \in 0..MaxRetries, NEW q \in BOOLEAN
    PROVE  /\ Attempt(k, d, n, q) \in
                CallType
           /\ Clamped(d) <= d
BY Sizes, SMT DEF Attempt, Clamped, Least, CallType

-----------------------------------------------------------------------------
LEMMA CallInvInit == Init => CallInv
<1> SUFFICES ASSUME Init PROVE CallInv
  OBVIOUS
<1>1. TypeOK
  <2>1. 0 \in 0..(Threshold - 1) /\ 0 \in 0..OpenFor /\ 0 \in 0..MaxRetries
    BY Sizes
  <2>2. Idle \in CallType
    BY <2>1 DEF Idle, CallType
  <2> QED
    BY <2>1, <2>2 DEF Init, TypeOK, CallType
<1>2. Shapes /\ InTime /\ ProbeHasOwner
  BY DEF Init, Shapes, InTime, ProbeHasOwner, Idle
<1>3. Accounted
  BY DEF Init, Accounted, Running, Idle
<1> QED
  BY <1>1, <1>2, <1>3 DEF CallInv

\* What it takes for a slot to be empty after a step.
LEMMA SlotEmptied ==
    ASSUME CallInv, NEW c \in Calls,
           call' = [call EXCEPT ![c] = Idle],
           NEW v \in {"none", "told", "unknown", "denied"},
           verdict' = [verdict EXCEPT ![c] = v],
           rooms' \in [Calls -> Nat], late' \in [Calls -> Nat],
           \A d \in Calls \ {c} : rooms'[d] = rooms[d] /\ late'[d] = late[d],
           rooms'[c] + late'[c] <= 1,
           v = "denied" => rooms'[c] = 0 /\ late'[c] = 0,
           recordSuccess \/ recordFailure \/ recordIgnored,
           blamed' \subseteq {"supplier", "deadline"}
    PROVE  CallInv'
<1> USE DEF CallInv
<1>1. Idle \in CallType
  BY Sizes DEF Idle, CallType
<1>2. TypeOK'
  <2>1. call' \in [Calls -> CallType]
    BY <1>1 DEF TypeOK, CallType
  <2>2. verdict' \in [Calls -> {"none", "told", "unknown", "denied"}]
    BY DEF TypeOK
  <2> QED
    BY <2>1, <2>2, Recorded DEF TypeOK, CallType
<1>3. call'[c] = Idle /\ \A d \in Calls \ {c} : call'[d] = call[d]
  BY DEF TypeOK
<1>4. verdict'[c] = v /\ \A d \in Calls \ {c} : verdict'[d] = verdict[d]
  BY DEF TypeOK
<1>5. Shapes' /\ InTime'
  BY <1>3 DEF Shapes, InTime, Idle, Running
<1>6. Accounted'
  BY <1>3, <1>4 DEF Accounted, Running, Idle
<1>7. ProbeHasOwner'
  BY Recorded DEF ProbeHasOwner
<1> QED
  BY <1>2, <1>5, <1>6, <1>7

-----------------------------------------------------------------------------
(* The steps.                                                              *)

\* A call is turned away, or comes too late: nothing was sent.
LEMMA NotSent ==
    ASSUME CallInv, NEW c \in Calls, NEW k \in Kinds, TurnAway(c, k) \/ TooLate(c, k)
    PROVE  CallInv'
<1> USE DEF CallInv
<1> DEFINE code == IF TurnAway(c, k) THEN "CIRCUIT_OPEN" ELSE "CANCELLED"
<1>1. /\ call[c] = Idle /\ UNCHANGED <<call, blamed>> /\ Forget(c)
      /\ \E v \in {"none", "unknown", "denied"} : verdict' = [verdict EXCEPT ![c] = v]
  BY DEF TurnAway, TooLate, Verdict
<1>2. /\ rooms' = [rooms EXCEPT ![c] = 0]
      /\ late' = [late EXCEPT ![c] = 0]
  BY <1>1 DEF Forget
<1>3. /\ failures' \in 0..(Threshold - 1) /\ shut' \in BOOLEAN /\ since' \in 0..OpenFor
      /\ halfOpenInFlight' \in BOOLEAN
      /\ halfOpenInFlight' => halfOpenInFlight /\ shut'
  <2>1. CASE TurnAway(c, k)
    BY <2>1 DEF TurnAway, breaker, TypeOK, ProbeHasOwner
  <2>2. CASE TooLate(c, k)
    <3>1. recordFailure \/ recordIgnored
      BY <2>2 DEF TooLate, Record
    <3> QED
      BY <3>1, Recorded
  <2> QED
    BY <2>1, <2>2
<1>4. TypeOK'
  BY <1>1, <1>2, <1>3 DEF TypeOK
<1>5. Shapes' /\ InTime'
  BY <1>1 DEF Shapes, InTime, Running
<1>6. Accounted'
  BY <1>1, <1>2 DEF Accounted, Running, Idle, TypeOK
<1>7. ProbeHasOwner'
  BY <1>1, <1>3 DEF ProbeHasOwner, Running
<1> QED
  BY <1>4, <1>5, <1>6, <1>7

LEMMA SendKeeps ==
    ASSUME CallInv, NEW c \in Calls, NEW k \in Kinds, Send(c, k)
    PROVE  CallInv'
<1> USE DEF CallInv
<1>1. PICK d \in Deadlines \ {0} :
        call' = [call EXCEPT ![c] = Attempt(k, d, 0, state = "HALF_OPEN")]
  BY DEF Send
<1>2. d \in Nat /\ 0 \in 0..MaxRetries /\ (state = "HALF_OPEN") \in BOOLEAN
  BY Sizes, TimesAssumption
<1>3. /\ call'[c] = Attempt(k, d, 0, state = "HALF_OPEN")
      /\ \A e \in Calls \ {c} : call'[e] = call[e]
  BY <1>1 DEF TypeOK
<1>4. /\ rooms' = [rooms EXCEPT ![c] = 0] /\ late' = [late EXCEPT ![c] = 0]
      /\ verdict' = [verdict EXCEPT ![c] = "none"]
      /\ UNCHANGED <<failures, shut, since, blamed>>
      /\ halfOpenInFlight' = (halfOpenInFlight \/ state = "HALF_OPEN")
  BY DEF Send, Forget
<1>5. TypeOK'
  <2>1. call' \in [Calls -> CallType]
    BY <1>1, <1>2, AttemptType DEF TypeOK, CallType
  <2> QED
    BY <2>1, <1>4 DEF TypeOK, CallType
<1>6. Shapes'
  BY <1>3, KindsAssumption DEF Shapes, Attempt, Running
<1>7. InTime'
  <2>1. Clamped(d) <= d
    BY <1>2, AttemptType
  <2>2. /\ call'[c].pc = "waiting"
        /\ call'[c].timer = Clamped(d) /\ call'[c].left = d
    BY <1>3 DEF Attempt
  <2> QED
    BY <2>1, <2>2, <1>3 DEF InTime
<1>8. Accounted'
  BY <1>3, <1>4 DEF Accounted, Attempt, Running, TypeOK
<1>9. ProbeHasOwner'
  <2>1. CASE state = "HALF_OPEN"
    BY <2>1, <1>3, <1>4 DEF ProbeHasOwner, Attempt, Running, state
  <2>2. CASE state # "HALF_OPEN"
    <3>1. halfOpenInFlight' => halfOpenInFlight
      BY <2>2, <1>4
    <3>2. call[c] = Idle
      BY DEF Send
    <3> QED
      BY <3>1, <3>2, <1>3, <1>4 DEF ProbeHasOwner, Running, Idle
  <2> QED
    BY <2>1, <2>2
<1> QED
  BY <1>5, <1>6, <1>7, <1>8, <1>9

\* A slot whose call goes on, one field or more of it changed, with the breaker
\* as it was and a timer in time.
LEMMA SlotGoesOn ==
    ASSUME CallInv, NEW c \in Calls, Running(c),
           NEW r \in CallType, call' = [call EXCEPT ![c] = r],
           r.pc # "idle", r.probe = call[c].probe,
           \/ r.kind = "read" /\ r.fate = "none"
              /\ (r.pc = "backoff" => r.attempt < MaxRetries)
           \/ r.pc = "waiting" /\ r.kind = "write" /\ r.fate \in {"open", "booked", "refused"},
           r.pc = "waiting" => r.timer <= r.left,
           r.pc = "backoff" => r.timer < r.left,
           UNCHANGED <<verdict, late, breaker>>, blamed' \subseteq {"supplier", "deadline"},
           rooms' \in [Calls -> Nat],
           rooms'[c] = IF r.fate = "booked" THEN 1 ELSE 0,
           \A d \in Calls \ {c} : rooms'[d] = rooms[d]
    PROVE  CallInv'
<1> USE DEF CallInv
<1>1. call'[c] = r /\ \A d \in Calls \ {c} : call'[d] = call[d]
  BY DEF TypeOK
<1>2. TypeOK'
  BY DEF TypeOK, CallType, breaker
<1>3. Shapes' /\ InTime'
  BY <1>1 DEF Shapes, InTime, Running
<1>4. Accounted'
  BY <1>1 DEF Accounted, Running
<1>5. ProbeHasOwner'
  BY <1>1 DEF ProbeHasOwner, Running, breaker
<1> QED
  BY <1>2, <1>3, <1>4, <1>5

LEMMA SupplierKeeps ==
    ASSUME CallInv, NEW c \in Calls, SupplierDecides(c) \/ SupplierDecidesLate(c)
    PROVE  CallInv'
<1> USE DEF CallInv
<1>1. CASE SupplierDecides(c)
  <2>1. /\ Running(c) /\ call[c].kind = "write" /\ call[c].pc = "waiting"
        /\ call[c] \in CallType
    BY <1>1 DEF SupplierDecides, Shapes, Running, Idle, TypeOK, CallType
  <2>2. PICK f \in {"booked", "refused"} :
          /\ call' = [call EXCEPT ![c].fate = f]
          /\ rooms' = IF f = "booked" THEN [rooms EXCEPT ![c] = @ + 1] ELSE rooms
    BY <1>1 DEF SupplierDecides, Booked
  <2> DEFINE r == [call[c] EXCEPT !.fate = f]
  <2>3. call' = [call EXCEPT ![c] = r] /\ r \in CallType
    BY <2>1, <2>2 DEF CallType
  <2>4. /\ r.fate = f /\ r.pc = "waiting" /\ r.kind = "write" /\ r.probe = call[c].probe
        /\ r.timer = call[c].timer /\ r.left = call[c].left
    BY <2>1 DEF CallType
  <2>5. rooms[c] = 0
    BY <1>1, <2>1 DEF Accounted, SupplierDecides
  <2>6. /\ rooms' \in [Calls -> Nat]
        /\ rooms'[c] = IF f = "booked" THEN 1 ELSE 0
        /\ \A d \in Calls \ {c} : rooms'[d] = rooms[d]
    BY <2>2, <2>5 DEF TypeOK
  <2>7. r.timer <= r.left
    BY <2>1, <2>4 DEF InTime
  <2>8. UNCHANGED <<verdict, late, breaker>> /\ blamed' \subseteq {"supplier", "deadline"}
    BY <1>1 DEF SupplierDecides, TypeOK
  <2> HIDE DEF r
  <2> QED
    BY <2>1, <2>3, <2>4, <2>6, <2>7, <2>8, SlotGoesOn
<1>2. CASE SupplierDecidesLate(c)
  <2>1. UNCHANGED <<call, verdict, breaker, blamed>>
    BY <1>2 DEF SupplierDecidesLate
  <2>2. late[c] = 1 /\ rooms[c] = 0
    <3>1. rooms[c] \in Nat /\ late[c] \in Nat
      BY DEF TypeOK
    <3>2. late[c] > 0 /\ rooms[c] + late[c] <= 1
      BY <1>2 DEF SupplierDecidesLate, Accounted
    <3> QED
      BY <3>1, <3>2
  <2>3. /\ rooms' \in [Calls -> Nat] /\ late' \in [Calls -> Nat]
        /\ late'[c] = 0 /\ rooms'[c] <= 1
        /\ \A d \in Calls \ {c} : rooms'[d] = rooms[d] /\ late'[d] = late[d]
    BY <1>2, <2>2 DEF SupplierDecidesLate, Booked, TypeOK
  <2>4. TypeOK'
    BY <2>1, <2>3 DEF TypeOK, breaker
  <2>5. Shapes' /\ InTime' /\ ProbeHasOwner'
    BY <2>1 DEF Shapes, InTime, ProbeHasOwner, Running, breaker
  <2>6. ~Running(c) /\ verdict[c] # "denied"
    BY <2>2 DEF Accounted
  <2>7. Accounted'
    BY <2>1, <2>3, <2>6 DEF Accounted, Running, TypeOK
  <2> QED
    BY <2>4, <2>5, <2>7
<1> QED
  BY <1>1, <1>2

LEMMA AnsweredKeeps ==
    ASSUME CallInv, NEW c \in Calls, Answered(c)
    PROVE  CallInv'
<1> USE DEF CallInv
<1>1. PICK v \in {"none", "told"} : verdict' = [verdict EXCEPT ![c] = v]
  BY DEF Answered
<1>2. rooms[c] + late[c] <= 1
  BY DEF Accounted
<1>3. UNCHANGED <<rooms, late>> /\ recordSuccess /\ call' = [call EXCEPT ![c] = Idle]
  BY DEF Answered, supplier
<1> QED
  BY <1>1, <1>2, <1>3, SlotEmptied DEF TypeOK, Answered

\* An attempt fails: the call waits to be tried again, or gives up.
LEMMA FailKeeps ==
    ASSUME CallInv, NEW c \in Calls, call[c].pc = "waiting", NEW code \in Codes,
           \/ call[c].fate = "none"
           \/ call[c].fate = "refused"
           \/ code \in {"TIMEOUT", "UNAVAILABLE", "UNKNOWN_ERROR"},
           Fail(c, code), blamed' \subseteq {"supplier", "deadline"}
    PROVE  CallInv'
<1> USE DEF CallInv
<1>1. /\ Running(c) /\ call[c] \in CallType /\ call[c].kind \in {"read", "write"}
      /\ call[c].kind = "read" => call[c].fate = "none"
      /\ call[c].kind = "write" => call[c].fate \in {"open", "booked", "refused"}
  BY DEF Running, Shapes, TypeOK, CallType, Idle
<1>2. /\ rooms[c] = (IF call[c].fate = "booked" THEN 1 ELSE 0) /\ late[c] = 0
      /\ rooms' = rooms
      /\ late' = IF call[c].fate = "open" THEN [late EXCEPT ![c] = @ + 1] ELSE late
  BY <1>1 DEF Accounted, Fail
<1>3. CASE Retry(c, code)
  <2>1. /\ call[c].kind = "read" /\ call[c].fate = "none" /\ call[c].attempt < MaxRetries
    BY <1>1, <1>3 DEF Retry, Retries, CallType
  <2>2. Backoff(call[c].attempt) \in Nat /\ Backoff(call[c].attempt) < call[c].left
    BY <1>1, <1>3, BackoffType DEF Retry, CallType
  <2> DEFINE r == [call[c] EXCEPT !.pc = "backoff", !.timer = Backoff(call[c].attempt)]
  <2>3. call' = [call EXCEPT ![c] = r] /\ UNCHANGED <<verdict, breaker>>
    BY <1>3 DEF Fail, BackOff
  <2>4. /\ r \in CallType /\ r.pc = "backoff" /\ r.kind = "read" /\ r.fate = "none"
        /\ r.timer = Backoff(call[c].attempt) /\ r.left = call[c].left
        /\ r.attempt = call[c].attempt /\ r.probe = call[c].probe
    BY <1>1, <2>1, <2>2 DEF CallType
  <2>5. late' = late /\ rooms' \in [Calls -> Nat]
    BY <1>2, <2>1 DEF TypeOK
  <2>6. rooms'[c] = 0
    BY <1>2, <2>1
  <2> HIDE DEF r
  <2> QED
    BY <1>1, <1>2, <2>1, <2>2, <2>3, <2>4, <2>5, <2>6, SlotGoesOn
<1>4. CASE ~Retry(c, code)
  <2> DEFINE v == Verdict(call[c].kind, code)
  <2>1. /\ call' = [call EXCEPT ![c] = Idle] /\ verdict' = [verdict EXCEPT ![c] = v]
        /\ recordFailure \/ recordIgnored
    BY <1>4 DEF Fail, GiveUp, Record
  <2>2. v \in {"none", "unknown", "denied"}
    BY DEF Verdict
  <2>3. v = "denied" => call[c].fate \in {"none", "refused"}
    BY <1>1 DEF Verdict, mayHaveBooked, Codes
  <2>4. /\ rooms' \in [Calls -> Nat] /\ late' \in [Calls -> Nat]
        /\ \A d \in Calls \ {c} : rooms'[d] = rooms[d] /\ late'[d] = late[d]
    BY <1>2 DEF TypeOK
  <2>5. rooms'[c] + late'[c] <= 1
    BY <1>2, <2>4 DEF TypeOK
  <2>6. v = "denied" => rooms'[c] = 0 /\ late'[c] = 0
    BY <1>2, <2>3
  <2> HIDE DEF v
  <2> QED
    BY <2>1, <2>2, <2>4, <2>5, <2>6, SlotEmptied
<1> QED
  BY <1>3, <1>4

LEMMA WakeKeeps ==
    ASSUME CallInv, NEW c \in Calls, Wake(c)
    PROVE  CallInv'
<1> USE DEF CallInv
<1>1. /\ Running(c) /\ call[c] \in CallType /\ call[c].kind = "read" /\ call[c].fate = "none"
      /\ call[c].attempt < MaxRetries
  BY DEF Wake, Running, Shapes, TypeOK, CallType, Idle
<1>2. call[c].left \in Nat
  BY <1>1 DEF Wake, InTime, CallType
<1> DEFINE r == Attempt("read", call[c].left, call[c].attempt + 1, call[c].probe)
<1>3. call' = [call EXCEPT ![c] = r]
  BY <1>1 DEF Wake
<1>4. call[c].attempt + 1 \in 0..MaxRetries /\ "read" \in Kinds /\ call[c].probe \in BOOLEAN
  BY <1>1, Sizes, KindsAssumption DEF CallType
<1>5. r \in CallType /\ Clamped(call[c].left) <= call[c].left
  BY <1>2, <1>4, AttemptType
<1>6. /\ r.pc = "waiting" /\ r.kind = "read" /\ r.fate = "none" /\ r.probe = call[c].probe
      /\ r.timer = Clamped(call[c].left) /\ r.left = call[c].left
  BY DEF Attempt
<1>7. /\ UNCHANGED <<verdict, late, breaker>> /\ blamed' \subseteq {"supplier", "deadline"}
      /\ rooms' = rooms /\ rooms \in [Calls -> Nat] /\ rooms[c] = 0
  BY <1>1 DEF Wake, supplier, TypeOK, Accounted
<1> HIDE DEF r
<1> QED
  BY <1>1, <1>3, <1>5, <1>6, <1>7, SlotGoesOn

LEMMA TickKeeps ==
    ASSUME CallInv, Tick
    PROVE  CallInv'
<1> USE DEF CallInv
<1>1. ASSUME NEW c \in Calls
      PROVE  /\ call'[c] \in CallType
             /\ call[c] = Idle => call'[c] = Idle
             /\ Running(c) =>
                  /\ call'[c].timer = call[c].timer - 1 /\ call'[c].left = call[c].left - 1
                  /\ call'[c].pc = call[c].pc /\ call'[c].kind = call[c].kind
                  /\ call'[c].attempt = call[c].attempt /\ call'[c].fate = call[c].fate
                  /\ call'[c].probe = call[c].probe
             /\ ~Running(c) => call'[c] = call[c]
  <2>1. call[c] \in CallType /\ (Running(c) => call[c].timer > 0)
    BY DEF TypeOK, CallType, Tick
  <2>2. call'[c] = IF Running(c) THEN [call[c] EXCEPT !.left = @ - 1, !.timer = @ - 1]
                   ELSE call[c]
    BY DEF Tick
  <2>3. CASE Running(c)
    <3>1. call'[c] = [call[c] EXCEPT !.left = @ - 1, !.timer = @ - 1]
      BY <2>2, <2>3
    <3>2. call[c].timer - 1 \in Nat /\ call[c].left - 1 \in Int
      BY <2>1, <2>3 DEF CallType
    <3>3. call'[c] \in CallType
      BY <2>1, <3>1, <3>2 DEF CallType
    <3>4. /\ call'[c].timer = call[c].timer - 1 /\ call'[c].left = call[c].left - 1
          /\ call'[c].pc = call[c].pc /\ call'[c].kind = call[c].kind
          /\ call'[c].attempt = call[c].attempt /\ call'[c].fate = call[c].fate
          /\ call'[c].probe = call[c].probe
      BY <2>1, <3>1 DEF CallType
    <3>5. call[c] # Idle
      BY <2>3 DEF Running, Idle
    <3> QED
      BY <2>3, <3>3, <3>4, <3>5
  <2>4. CASE ~Running(c)
    BY <2>1, <2>2, <2>4
  <2> QED
    BY <2>3, <2>4
<1>2. UNCHANGED <<verdict, rooms, late, failures, shut, halfOpenInFlight, blamed>>
  BY DEF Tick, supplier
<1>3. TypeOK'
  <2>1. call' \in [Calls -> CallType]
    BY <1>1 DEF Tick
  <2>2. since' \in 0..OpenFor
    <3>1. since \in 0..OpenFor /\ since' = IF shut THEN Least(since + 1, OpenFor) ELSE since
      BY DEF Tick, TypeOK
    <3>2. Least(since + 1, OpenFor) \in 0..OpenFor
      BY <3>1, Sizes DEF Least
    <3> QED
      BY <3>1, <3>2
  <2> QED
    BY <1>2, <2>1, <2>2 DEF TypeOK, CallType
<1>4. Shapes'
  BY <1>1 DEF Shapes, Running
<1>5. InTime'
  <2>1. \A c \in Calls : call[c] \in CallType
    BY DEF TypeOK, CallType
  <2>2. ASSUME NEW c \in Calls
        PROVE  /\ call'[c].pc = "waiting" => call'[c].timer <= call'[c].left
               /\ call'[c].pc = "backoff" => call'[c].timer < call'[c].left
    BY <1>1, <2>1 DEF InTime, Running, CallType
  <2> QED
    BY <2>2 DEF InTime
<1>6. Accounted'
  BY <1>1, <1>2 DEF Accounted, Running
<1>7. ProbeHasOwner'
  BY <1>1, <1>2 DEF ProbeHasOwner, Running
<1> QED
  BY <1>3, <1>4, <1>5, <1>6, <1>7

LEMMA CallInvNext == CallInv /\ [Next]_vars => CallInv'
<1> SUFFICES ASSUME CallInv, [Next]_vars PROVE CallInv'
  OBVIOUS
<1>1. ASSUME NEW c \in Calls, NEW k \in Kinds, TurnAway(c, k) \/ TooLate(c, k) \/ Send(c, k)
      PROVE  CallInv'
  BY <1>1, NotSent, SendKeeps
<1>2. ASSUME NEW c \in Calls, Answered(c) \/ Wake(c) PROVE CallInv'
  BY <1>2, AnsweredKeeps, WakeKeeps
<1>3. ASSUME NEW c \in Calls, SupplierDecides(c) \/ SupplierDecidesLate(c) PROVE CallInv'
  BY <1>3, SupplierKeeps
<1>4. ASSUME NEW c \in Calls, Refused(c) PROVE CallInv'
  <2>1. call[c].fate \in {"none", "open", "booked", "refused"}
    BY DEF CallInv, TypeOK
  <2>2. PICK code \in Errors[call[c].fate] :
          /\ Fail(c, code)
          /\ IF code \in {"SOLD_OUT", "BAD_REQUEST"} THEN UNCHANGED blamed
             ELSE Blame("supplier")
    BY <1>4 DEF Refused
  <2>3. /\ code \in Codes
        /\ \/ call[c].fate = "none" \/ call[c].fate = "refused"
           \/ code \in {"TIMEOUT", "UNAVAILABLE", "UNKNOWN_ERROR"}
    BY <2>1, <2>2 DEF Errors, Codes
  <2>4. blamed' \subseteq {"supplier", "deadline"}
    BY <2>2 DEF Blame, CallInv, TypeOK
  <2> QED
    BY <1>4, <2>2, <2>3, <2>4, FailKeeps DEF Refused
<1>5. ASSUME NEW c \in Calls, Disconnected(c) PROVE CallInv'
  <2>1. "UNAVAILABLE" \in Codes /\ blamed' \subseteq {"supplier", "deadline"}
    BY <1>5 DEF Codes, Disconnected, Blame, CallInv, TypeOK
  <2> QED
    BY <1>5, <2>1, FailKeeps DEF Disconnected
<1>6. ASSUME NEW c \in Calls, TimedOut(c) PROVE CallInv'
  <2>1. PICK code \in {"TIMEOUT", "UNKNOWN_ERROR"} : Fail(c, code)
    BY <1>6 DEF TimedOut
  <2>2. code \in Codes /\ blamed' \subseteq {"supplier", "deadline"}
    BY <1>6 DEF Codes, TimedOut, Blame, CallInv, TypeOK
  <2> QED
    BY <1>6, <2>1, <2>2, FailKeeps DEF TimedOut
<1>7. CASE Tick
  BY <1>7, TickKeeps
<1>8. CASE UNCHANGED vars
  BY <1>8 DEF vars, CallInv, TypeOK, Shapes, InTime, Accounted, ProbeHasOwner, Running
<1> QED
  BY <1>1, <1>2, <1>3, <1>4, <1>5, <1>6, <1>7, <1>8 DEF Next, Start, Goes

LEMMA CallInvHolds == Spec => []CallInv
BY CallInvInit, CallInvNext, PTL DEF Spec

-----------------------------------------------------------------------------
\* Every variable keeps its type.
THEOREM CallTypeCorrect == Spec => []TypeOK
<1>1. CallInv => TypeOK
  BY DEF CallInv
<1> QED
  BY <1>1, CallInvHolds, PTL

\* What book() reports FAILED is not held by the supplier, now or later.
THEOREM NeverDenies == Spec => []NeverDeniesABooking
<1>1. CallInv => NeverDeniesABooking
  BY DEF CallInv, Accounted, NeverDeniesABooking
<1> QED
  BY <1>1, CallInvHolds, PTL

\* One write, one reservation at most.
THEOREM ReservedOnce == Spec => []OneReservation
<1>1. CallInv => OneReservation
  BY DEF CallInv, Accounted, OneReservation
<1> QED
  BY <1>1, CallInvHolds, PTL

\* No timer of a call, and no retry, reaches past its deadline.
THEOREM WithinDeadline == Spec => []NoneOutlivesItsDeadline
<1>1. CallInv => NoneOutlivesItsDeadline
  <2> SUFFICES ASSUME CallInv, NEW c \in Calls, Running(c)
               PROVE  0 <= call[c].timer /\ call[c].timer <= call[c].left
    BY DEF NoneOutlivesItsDeadline
  <2>1. call[c] \in CallType /\ call[c].pc \in {"waiting", "backoff"}
    BY DEF CallInv, TypeOK, CallType, Running
  <2> QED
    BY <2>1 DEF CallInv, InTime, CallType
<1> QED
  BY <1>1, CallInvHolds, PTL

\* The breaker never waits for a probe that is over.
THEOREM ProbeOwned == Spec => []ProbeHasOwner
<1>1. CallInv => ProbeHasOwner
  BY DEF CallInv
<1> QED
  BY <1>1, CallInvHolds, PTL
-----------------------------------------------------------------------------
(* One probe.  Any call that ends clears halfOpenInFlight, so no call that *)
(* was admitted before the breaker opened may still run when its window is *)
(* over: either every deadline is shorter than the window, or a call with  *)
(* all its attempts and waits is.                                          *)

DeadlinesEndInWindow == \A d \in Deadlines : d < OpenFor

\* rest[n] is enough for all that may follow attempt n.
Suffices(rest) ==
    /\ Timeout + rest[0] < OpenFor
    /\ \A n \in 0..(MaxRetries - 1) : Backoff(n) + Timeout + rest[n + 1] <= rest[n]

EndsInWindow ==
    \/ DeadlinesEndInWindow
    \/ \E rest \in [0..MaxRetries -> Nat] : Suffices(rest)

\* How long a call may still last.
Remains(rest, c) ==
    IF DeadlinesEndInWindow THEN call[c].left
    ELSE IF call[c].pc = "waiting" THEN call[c].timer + rest[call[c].attempt]
    ELSE call[c].timer + Timeout + rest[call[c].attempt + 1]

\* A probe has the breaker to itself; another call is over before a probe.
Probing(rest) ==
    \A c \in Calls : Running(c) =>
        /\ Remains(rest, c) < OpenFor
        /\ call[c].probe => /\ halfOpenInFlight /\ shut /\ since = OpenFor
                            /\ \A d \in Calls \ {c} : ~Running(d)
        /\ ~call[c].probe /\ shut => since + Remains(rest, c) < OpenFor

Bounds(rest) ==
    /\ rest \in [0..MaxRetries -> Nat]
    /\ DeadlinesEndInWindow \/ Suffices(rest)

\* What remains of a running call is a number of units of time.
LEMMA RemainsType ==
    ASSUME CallInv, NEW rest, Bounds(rest), NEW c \in Calls, Running(c)
    PROVE  Remains(rest, c) \in Nat
<1>1. /\ call[c] \in CallType /\ call[c].pc \in {"waiting", "backoff"}
      /\ call[c].pc = "backoff" => call[c].attempt < MaxRetries
  BY DEF CallInv, TypeOK, CallType, Running, Shapes, Idle
<1>2. call[c].left \in Nat
  BY <1>1 DEF CallInv, InTime, CallType
<1>3. call[c].timer \in Nat /\ call[c].attempt \in 0..MaxRetries
  BY <1>1 DEF CallType
<1>4. CASE DeadlinesEndInWindow
  BY <1>2, <1>4 DEF Remains
<1>5. CASE ~DeadlinesEndInWindow /\ call[c].pc = "waiting"
  <2>1. rest[call[c].attempt] \in Nat
    BY <1>3 DEF Bounds
  <2> QED
    BY <1>3, <1>5, <2>1 DEF Remains
<1>6. CASE ~DeadlinesEndInWindow /\ call[c].pc # "waiting"
  <2>1. call[c].attempt + 1 \in 0..MaxRetries
    BY <1>1, <1>3, <1>6, Sizes
  <2>2. rest[call[c].attempt + 1] \in Nat
    BY <2>1 DEF Bounds
  <2> QED
    BY <1>3, <1>6, <2>2, Sizes DEF Remains
<1> QED
  BY <1>4, <1>5, <1>6

\* So it is after a step.
LEMMA RemainsNext ==
    ASSUME NEW rest, Bounds(rest), NEW c \in Calls
    PROVE  (CallInv /\ Running(c))' => Remains(rest, c)' \in Nat
<1>1. CallInv /\ Running(c) => Remains(rest, c) \in Nat
  BY RemainsType
<1>2. (CallInv /\ Running(c) => Remains(rest, c) \in Nat)'
  BY <1>1, PTL
<1> QED
  BY <1>2

\* A call starts with less than the window before it.
LEMMA StartsInWindow ==
    ASSUME NEW rest, Bounds(rest), NEW c \in Calls, NEW k \in Kinds,
           NEW d \in Deadlines \ {0}, NEW q \in BOOLEAN, call'[c] = Attempt(k, d, 0, q)
    PROVE  Remains(rest, c)' < OpenFor
<1>1. d \in Nat /\ 0 \in 0..MaxRetries
  BY TimesAssumption, Sizes
<1>2. /\ call'[c].left = d /\ call'[c].timer = Clamped(d) /\ call'[c].attempt = 0
      /\ call'[c].pc = "waiting"
  BY DEF Attempt
<1>3. CASE DeadlinesEndInWindow
  <2>1. Remains(rest, c)' = d
    BY <1>2, <1>3 DEF Remains, DeadlinesEndInWindow
  <2> QED
    BY <1>3, <2>1 DEF DeadlinesEndInWindow
<1>4. CASE ~DeadlinesEndInWindow
  <2>1. Remains(rest, c)' = Clamped(d) + rest[0]
    BY <1>2, <1>4 DEF Remains, DeadlinesEndInWindow
  <2>2. Timeout + rest[0] < OpenFor /\ rest[0] \in Nat
    BY <1>1, <1>4 DEF Bounds, Suffices
  <2>3. Clamped(d) \in Nat /\ Clamped(d) <= Timeout
    BY <1>1, Sizes DEF Clamped, Least
  <2> QED
    BY <2>1, <2>2, <2>3, Sizes
<1> QED
  BY <1>3, <1>4

\* A wait before a retry, and the retry, take what was left for them.
LEMMA WaitInWindow ==
    ASSUME CallInv, NEW rest, Bounds(rest), NEW c \in Calls, NEW code,
           call[c].pc = "waiting", Retry(c, code), BackOff(c)
    PROVE  Remains(rest, c)' <= Remains(rest, c)
<1>1. call[c] \in CallType /\ call[c].kind \in {"read", "write"}
  BY DEF CallInv, TypeOK, CallType, Shapes, Idle
<1>2. /\ call'[c].pc = "backoff" /\ call'[c].left = call[c].left
      /\ call'[c].timer = Backoff(call[c].attempt) /\ call'[c].attempt = call[c].attempt
  BY <1>1 DEF BackOff, CallInv, TypeOK, CallType
<1>3. call[c].left \in Int /\ call[c].timer \in Nat /\ call[c].attempt \in 0..(MaxRetries - 1)
  <2>1. call[c].attempt < MaxRetries
    BY <1>1, Sizes DEF Retry, Retries, CallType
  <2> QED
    BY <1>1, <2>1, Sizes DEF CallType
<1>4. CASE DeadlinesEndInWindow
  BY <1>2, <1>3, <1>4 DEF Remains, DeadlinesEndInWindow
<1>5. CASE ~DeadlinesEndInWindow
  <2> DEFINE n == call[c].attempt
  <2>1. Remains(rest, c) = call[c].timer + rest[n]
    BY <1>5 DEF Remains
  <2>2. Remains(rest, c)' = Backoff(n) + Timeout + rest[n + 1]
    BY <1>2, <1>5 DEF Remains, DeadlinesEndInWindow
  <2>3. Backoff(n) + Timeout + rest[n + 1] <= rest[n]
    BY <1>3, <1>5 DEF Bounds, Suffices
  <2>4. n \in 0..MaxRetries /\ n + 1 \in 0..MaxRetries
    BY <1>3, Sizes
  <2>5. Backoff(n) \in Nat /\ rest[n] \in Nat /\ rest[n + 1] \in Nat
    BY <2>4, BackoffType DEF Bounds
  <2> HIDE DEF n
  <2> QED
    BY <1>3, <2>1, <2>2, <2>3, <2>5, Sizes
<1> QED
  BY <1>4, <1>5

LEMMA WakeInWindow ==
    ASSUME CallInv, NEW rest, Bounds(rest), NEW c \in Calls, Wake(c)
    PROVE  Remains(rest, c)' <= Remains(rest, c)
<1>1. /\ call[c] \in CallType /\ call[c].pc = "backoff" /\ call[c].timer = 0
      /\ call[c].attempt < MaxRetries
  BY DEF CallInv, TypeOK, CallType, Wake, Shapes, Idle
<1>2. call[c].left \in Nat /\ call[c].attempt + 1 \in 0..MaxRetries
  BY <1>1, Sizes DEF CallInv, InTime, CallType
<1>3. /\ call'[c].pc = "waiting" /\ call'[c].left = call[c].left
      /\ call'[c].timer = Clamped(call[c].left) /\ call'[c].attempt = call[c].attempt + 1
  BY DEF Wake, Attempt, CallInv, TypeOK
<1>4. CASE DeadlinesEndInWindow
  BY <1>2, <1>3, <1>4 DEF Remains, DeadlinesEndInWindow
<1>5. CASE ~DeadlinesEndInWindow
  <2> DEFINE r == rest[call[c].attempt + 1]
  <2>1. Remains(rest, c)' = Clamped(call[c].left) + r
    BY <1>3, <1>5 DEF Remains, DeadlinesEndInWindow
  <2>2. Remains(rest, c) = 0 + Timeout + r
    BY <1>1, <1>5 DEF Remains
  <2>3. r \in Nat
    BY <1>2 DEF Bounds
  <2>4. Clamped(call[c].left) \in Nat /\ Clamped(call[c].left) <= Timeout
    BY <1>2, Sizes DEF Clamped, Least
  <2> HIDE DEF r
  <2> QED
    BY <2>1, <2>2, <2>3, <2>4, Sizes
<1> QED
  BY <1>4, <1>5

LEMMA TickInWindow ==
    ASSUME CallInv, NEW rest, Bounds(rest), NEW c \in Calls, Running(c), Tick
    PROVE  /\ Running(c)' /\ call'[c].probe = call[c].probe
           /\ Remains(rest, c)' + 1 = Remains(rest, c)
<1>1. /\ call[c] \in CallType /\ call[c].pc \in {"waiting", "backoff"}
      /\ call[c].pc = "backoff" => call[c].attempt < MaxRetries
  BY DEF CallInv, TypeOK, CallType, Running, Shapes, Idle
<1>2. /\ call'[c].timer = call[c].timer - 1 /\ call'[c].left = call[c].left - 1
      /\ call'[c].pc = call[c].pc /\ call'[c].attempt = call[c].attempt
      /\ call'[c].probe = call[c].probe
  <2>1. call'[c] = [call[c] EXCEPT !.left = @ - 1, !.timer = @ - 1]
    BY DEF Tick
  <2> QED
    BY <1>1, <2>1 DEF CallType
<1>3. call[c].timer \in Nat /\ call[c].left \in Int
  BY <1>1 DEF CallType
<1>4. CASE DeadlinesEndInWindow
  BY <1>2, <1>3, <1>4 DEF Remains, DeadlinesEndInWindow, Running
<1>5. CASE ~DeadlinesEndInWindow
  <2> DEFINE r == IF call[c].pc = "waiting" THEN rest[call[c].attempt]
                  ELSE Timeout + rest[call[c].attempt + 1]
  <2>1. r \in Nat
    <3>1. CASE call[c].pc = "waiting"
      BY <1>1, <3>1 DEF Bounds, CallType
    <3>2. CASE call[c].pc # "waiting"
      <4>1. call[c].attempt + 1 \in 0..MaxRetries
        BY <1>1, <3>2, Sizes DEF CallType
      <4>2. rest[call[c].attempt + 1] \in Nat
        BY <4>1 DEF Bounds
      <4> QED
        BY <3>2, <4>2, Sizes
    <3> QED
      BY <3>1, <3>2
  <2>2. Remains(rest, c) = call[c].timer + r
    <3>1. CASE call[c].pc = "waiting"
      BY <1>5, <3>1 DEF Remains
    <3>2. CASE call[c].pc # "waiting"
      <4>1. call[c].attempt + 1 \in 0..MaxRetries
        BY <1>1, <3>2, Sizes DEF CallType
      <4>2. rest[call[c].attempt + 1] \in Nat
        BY <4>1 DEF Bounds
      <4> QED
        BY <1>3, <1>5, <3>2, <4>2, Sizes DEF Remains
    <3> QED
      BY <3>1, <3>2
  <2>3. Remains(rest, c)' = (call[c].timer - 1) + r
    <3>1. CASE call[c].pc = "waiting"
      BY <1>2, <1>5, <3>1 DEF Remains, DeadlinesEndInWindow
    <3>2. CASE call[c].pc # "waiting"
      <4>1. call[c].attempt + 1 \in 0..MaxRetries
        BY <1>1, <3>2, Sizes DEF CallType
      <4>2. rest[call[c].attempt + 1] \in Nat
        BY <4>1 DEF Bounds
      <4>3. Remains(rest, c)' = (call[c].timer - 1) + Timeout + rest[call[c].attempt + 1]
        BY <1>2, <1>5, <3>2 DEF Remains, DeadlinesEndInWindow
      <4> QED
        BY <1>3, <3>2, <4>2, <4>3, Sizes
    <3> QED
      BY <3>1, <3>2
  <2> HIDE DEF r
  <2> QED
    BY <1>1, <1>2, <1>3, <2>1, <2>2, <2>3 DEF Running
<1> QED
  BY <1>4, <1>5

\* A breaker that lets a call pass has no probe running.
LEMMA NoProbeRuns ==
    ASSUME NEW rest, Probing(rest), canAttempt
    PROVE  \A c \in Calls : ~(Running(c) /\ call[c].probe)
BY DEF Probing, canAttempt, state

\* A call ends: the rest are the same, and the breaker's window no older.
LEMMA EndKeepsProbing ==
    ASSUME CallInv, NEW rest, Bounds(rest), Probing(rest), NEW c \in Calls, Running(c),
           call' = [call EXCEPT ![c] = Idle],
           recordSuccess \/ recordFailure \/ recordIgnored
    PROVE  Probing(rest)'
<1> SUFFICES ASSUME NEW d \in Calls, Running(d)'
             PROVE  /\ Remains(rest, d)' < OpenFor
                    /\ ~call'[d].probe
                    /\ shut' => since' + Remains(rest, d)' < OpenFor
  BY DEF Probing
<1>1. d # c /\ call'[d] = call[d] /\ Running(d)
  BY DEF Running, Idle, CallInv, TypeOK
<1>2. Remains(rest, d)' = Remains(rest, d)
  BY <1>1 DEF Remains, DeadlinesEndInWindow
<1>3. ~call[d].probe /\ Remains(rest, d) < OpenFor /\ (shut => since + Remains(rest, d) < OpenFor)
  BY <1>1 DEF Probing, CallInv, TypeOK
<1>4. Remains(rest, d) \in Nat
  BY <1>1, RemainsType
<1>5. shut' => since' = 0 \/ (shut /\ since' = since)
  BY DEF recordSuccess, recordFailure, recordIgnored, CallInv, TypeOK
<1>6. ASSUME shut' PROVE since' + Remains(rest, d) < OpenFor
  <2>1. CASE since' = 0
    <3>1. 0 + Remains(rest, d) < OpenFor
      BY <1>3, <1>4
    <3> QED
      BY <2>1, <3>1
  <2>2. CASE shut /\ since' = since
    BY <1>3, <2>2
  <2> QED
    BY <1>5, <1>6, <2>1, <2>2
<1> QED
  BY <1>1, <1>2, <1>3, <1>6

\* A call goes on, for no longer than it could before.
LEMMA GoingOnKeepsProbing ==
    ASSUME CallInv, NEW rest, Bounds(rest), Probing(rest), NEW c \in Calls, Running(c),
           Running(c)', call'[c].probe = call[c].probe,
           \A d \in Calls \ {c} : call'[d] = call[d],
           Remains(rest, c)' <= Remains(rest, c), CallInv',
           UNCHANGED breaker
    PROVE  Probing(rest)'
<1>1. ASSUME NEW d \in Calls, Running(d)'
      PROVE  /\ Running(d) /\ call'[d].probe = call[d].probe
             /\ Remains(rest, d)' < OpenFor
             /\ ~call[d].probe /\ shut => since + Remains(rest, d)' < OpenFor
  <2>1. Running(d) /\ call'[d].probe = call[d].probe
    BY <1>1 DEF Running
  <2>2. Remains(rest, d)' <= Remains(rest, d)
    <3>1. CASE d = c
      BY <3>1
    <3>2. CASE d # c
      <4>1. Remains(rest, d)' = Remains(rest, d)
        BY <3>2 DEF Remains, DeadlinesEndInWindow
      <4>2. Remains(rest, d) \in Nat
        BY <2>1, RemainsType
      <4> QED
        BY <4>1, <4>2
    <3> QED
      BY <3>1, <3>2
  <2>3. PICK r \in Nat : r = Remains(rest, d)
    BY <2>1, RemainsType
  <2>4. PICK q \in Nat : q = Remains(rest, d)'
    <3>1. Remains(rest, d)' \in Nat
      BY <1>1, RemainsNext
    <3> QED
      BY <3>1
  <2>5. q <= r /\ r < OpenFor
    BY <2>1, <2>2, <2>3, <2>4 DEF Probing
  <2>6. ~call[d].probe /\ shut => since + r < OpenFor
    BY <2>1, <2>3 DEF Probing
  <2>7. since \in 0..OpenFor
    BY DEF CallInv, TypeOK
  <2>8. q < OpenFor
    BY <2>5, Sizes
  <2>9. ASSUME ~call[d].probe, shut PROVE since + q < OpenFor
    BY <2>5, <2>6, <2>7, <2>9, Sizes
  <2> QED
    BY <2>1, <2>4, <2>8, <2>9
<1>2. UNCHANGED <<shut, since, halfOpenInFlight>>
  BY DEF breaker
<1>3. \A d \in Calls : ~Running(d) => ~Running(d)'
  BY <1>1
<1> QED
  BY <1>1, <1>2, <1>3 DEF Probing

LEMMA FailKeepsProbing ==
    ASSUME CallInv, CallInv', NEW rest, Bounds(rest), Probing(rest), NEW c \in Calls,
           call[c].pc = "waiting", NEW code, Fail(c, code)
    PROVE  Probing(rest)'
<1>1. Running(c)
  BY DEF Running
<1>2. CASE Retry(c, code)
  <2>1. BackOff(c)
    BY <1>2 DEF Fail
  <2>2. Remains(rest, c)' <= Remains(rest, c)
    BY <1>2, <2>1, WaitInWindow
  <2>3. /\ Running(c)' /\ call'[c].probe = call[c].probe
        /\ \A d \in Calls \ {c} : call'[d] = call[d]
        /\ UNCHANGED breaker
    BY <2>1 DEF BackOff, Running, CallInv, TypeOK
  <2> QED
    BY <1>1, <2>2, <2>3, GoingOnKeepsProbing
<1>3. CASE ~Retry(c, code)
  <2>1. /\ call' = [call EXCEPT ![c] = Idle]
        /\ recordSuccess \/ recordFailure \/ recordIgnored
    BY <1>3 DEF Fail, GiveUp, Record
  <2> QED
    BY <1>1, <2>1, EndKeepsProbing
<1> QED
  BY <1>2, <1>3

LEMMA SendKeepsProbing ==
    ASSUME CallInv, NEW rest, Bounds(rest), Probing(rest), NEW c \in Calls, NEW k \in Kinds,
           Send(c, k)
    PROVE  Probing(rest)'
<1> DEFINE q == state = "HALF_OPEN"
<1>1. PICK d \in Deadlines \ {0} : call' = [call EXCEPT ![c] = Attempt(k, d, 0, q)]
  BY DEF Send
<1>2. /\ call'[c] = Attempt(k, d, 0, q)
      /\ \A e \in Calls \ {c} : call'[e] = call[e]
  BY <1>1 DEF CallInv, TypeOK
<1>3. /\ UNCHANGED <<failures, shut, since>> /\ canAttempt
      /\ halfOpenInFlight' = (halfOpenInFlight \/ q)
  BY DEF Send
<1>4. Remains(rest, c)' < OpenFor /\ call'[c].probe = q
  <2>1. q \in BOOLEAN
    OBVIOUS
  <2> HIDE DEF q
  <2> QED
    BY <1>2, <2>1, StartsInWindow DEF Attempt
<1>5. ASSUME NEW e \in Calls \ {c}, Running(e)'
      PROVE  /\ Running(e) /\ ~call[e].probe /\ call'[e] = call[e]
             /\ Remains(rest, e)' = Remains(rest, e)
  <2>1. Running(e) /\ call'[e] = call[e]
    BY <1>2, <1>5 DEF Running
  <2> QED
    BY <1>2, <1>3, <2>1, NoProbeRuns DEF Remains, DeadlinesEndInWindow
<1>6. CASE q
  <2>1. shut /\ since = OpenFor
    BY <1>6, Sizes DEF state, CallInv, TypeOK
  <2>2. \A e \in Calls \ {c} : ~Running(e)'
    <3> SUFFICES ASSUME NEW e \in Calls \ {c}, Running(e)' PROVE FALSE
      OBVIOUS
    <3>1. OpenFor + Remains(rest, e) < OpenFor
      BY <1>5, <2>1 DEF Probing
    <3>2. Remains(rest, e) \in Nat
      BY <1>5, RemainsType
    <3> QED
      BY <3>1, <3>2, Sizes
  <2> QED
    BY <1>3, <1>4, <1>6, <2>1, <2>2 DEF Probing
<1>7. CASE ~q
  <2>1. ~shut
    BY <1>3, <1>7 DEF canAttempt, state
  <2> QED
    BY <1>3, <1>4, <1>5, <1>7, <2>1 DEF Probing
<1> QED
  BY <1>6, <1>7

LEMMA TickKeepsProbing ==
    ASSUME CallInv, CallInv', NEW rest, Bounds(rest), Probing(rest), Tick
    PROVE  Probing(rest)'
<1>1. UNCHANGED <<shut, halfOpenInFlight>>
  BY DEF Tick
<1>2. PICK s \in 0..OpenFor : s = since
  BY DEF CallInv, TypeOK
<1>3. shut => since' = Least(s + 1, OpenFor)
  BY <1>2 DEF Tick
<1>4. \A c \in Calls : ~Running(c) => ~Running(c)'
  BY DEF Tick, Running
<1>5. ASSUME NEW c \in Calls, Running(c)'
      PROVE  /\ Remains(rest, c)' < OpenFor
             /\ call'[c].probe = call[c].probe /\ Running(c)
             /\ ~call[c].probe /\ shut => since' + Remains(rest, c)' < OpenFor
             /\ call[c].probe => since' = OpenFor
  <2>1. Running(c)
    BY <1>4, <1>5
  <2>2. PICK r \in Nat : r = Remains(rest, c)
    BY <2>1, RemainsType
  <2>3. PICK p \in Nat : p = Remains(rest, c)'
    <3>1. Remains(rest, c)' \in Nat
      BY <1>5, RemainsNext
    <3> QED
      BY <3>1
  <2>4. p + 1 = r /\ call'[c].probe = call[c].probe
    BY <2>1, <2>2, <2>3, TickInWindow
  <2>5. r < OpenFor
    BY <2>1, <2>2 DEF Probing
  <2>6. p < OpenFor
    BY <2>2, <2>4, <2>5, Sizes
  <2>7. ASSUME ~call[c].probe, shut PROVE Least(s + 1, OpenFor) + p < OpenFor
    <3>1. s + r < OpenFor
      BY <1>2, <2>1, <2>2, <2>7 DEF Probing
    <3> QED
      BY <1>2, <2>2, <2>4, <3>1, Sizes DEF Least
  <2>8. call[c].probe => s = OpenFor /\ shut
    BY <1>2, <2>1 DEF Probing
  <2>9. call[c].probe => since' = OpenFor
    <3>1. s = OpenFor => Least(s + 1, OpenFor) = OpenFor
      BY <1>2, Sizes DEF Least
    <3> QED
      BY <1>3, <2>8, <3>1
  <2> QED
    BY <1>3, <2>1, <2>3, <2>4, <2>6, <2>7, <2>9
<1> QED
  BY <1>1, <1>4, <1>5 DEF Probing

LEMMA ProbingNext ==
    ASSUME NEW rest, Bounds(rest), CallInv, CallInv', Probing(rest), [Next]_vars
    PROVE  Probing(rest)'
<1>1. ASSUME NEW c \in Calls, NEW k \in Kinds, TurnAway(c, k) \/ TooLate(c, k)
      PROVE  Probing(rest)'
  <2>1. CASE TurnAway(c, k)
    BY <2>1 DEF TurnAway, breaker, Probing, Running, Remains, DeadlinesEndInWindow
  <2>2. CASE TooLate(c, k)
    <3>1. canAttempt /\ call' = call /\ UNCHANGED <<failures, shut, since>>
      BY <2>2 DEF TooLate, Record, countsAgainstBreaker, recordIgnored
    <3>2. \A d \in Calls : ~(Running(d) /\ call[d].probe)
      BY <3>1, NoProbeRuns
    <3> QED
      BY <3>1, <3>2 DEF Probing, Running, Remains, DeadlinesEndInWindow
  <2> QED
    BY <1>1, <2>1, <2>2
<1>2. ASSUME NEW c \in Calls, NEW k \in Kinds, Send(c, k) PROVE Probing(rest)'
  BY <1>2, SendKeepsProbing
<1>3. ASSUME NEW c \in Calls, Answered(c) PROVE Probing(rest)'
  BY <1>3, EndKeepsProbing DEF Answered, Running
<1>4. ASSUME NEW c \in Calls, Refused(c) \/ Disconnected(c) \/ TimedOut(c)
      PROVE  Probing(rest)'
  <2>1. call[c].pc = "waiting" /\ \E code : Fail(c, code)
    BY <1>4 DEF Refused, Disconnected, TimedOut
  <2> QED
    BY <2>1, FailKeepsProbing
<1>5. ASSUME NEW c \in Calls, Wake(c) PROVE Probing(rest)'
  <2>1. /\ Running(c) /\ Running(c)' /\ call'[c].probe = call[c].probe
        /\ \A d \in Calls \ {c} : call'[d] = call[d]
        /\ UNCHANGED breaker
    BY <1>5 DEF Wake, Running, Attempt, CallInv, TypeOK
  <2> QED
    BY <1>5, <2>1, WakeInWindow, GoingOnKeepsProbing
<1>6. ASSUME NEW c \in Calls, SupplierDecides(c) PROVE Probing(rest)'
  <2>1. PICK f \in {"booked", "refused"} : call' = [call EXCEPT ![c].fate = f]
    BY <1>6 DEF SupplierDecides
  <2>2. call[c] \in CallType /\ Running(c) /\ UNCHANGED breaker
    BY <1>6 DEF SupplierDecides, Running, CallInv, TypeOK, CallType
  <2>3. call'[c] = [call[c] EXCEPT !.fate = f]
    BY <2>1 DEF CallInv, TypeOK
  <2>4. /\ call'[c].pc = call[c].pc /\ call'[c].probe = call[c].probe
        /\ call'[c].left = call[c].left /\ call'[c].timer = call[c].timer
        /\ call'[c].attempt = call[c].attempt
    BY <2>2, <2>3 DEF CallType
  <2>5. /\ Running(c)' /\ \A d \in Calls \ {c} : call'[d] = call[d]
    BY <2>1, <2>2, <2>4 DEF Running, CallInv, TypeOK
  <2>6. Remains(rest, c)' = Remains(rest, c) /\ Remains(rest, c) \in Nat
    BY <2>2, <2>4, RemainsType DEF Remains, DeadlinesEndInWindow
  <2> QED
    BY <2>2, <2>4, <2>5, <2>6, GoingOnKeepsProbing
<1>7. ASSUME NEW c \in Calls, SupplierDecidesLate(c) PROVE Probing(rest)'
  BY <1>7 DEF SupplierDecidesLate, breaker, Probing, Running, Remains, DeadlinesEndInWindow
<1>8. CASE Tick
  BY <1>8, TickKeepsProbing
<1>9. CASE UNCHANGED vars
  BY <1>9 DEF vars, Probing, Running, Remains, DeadlinesEndInWindow
<1> QED
  BY <1>1, <1>2, <1>3, <1>4, <1>5, <1>6, <1>7, <1>8, <1>9 DEF Next, Start, Goes

\* If a call with its retries ends inside the window of the breaker, whatever its
\* deadline, or within its deadline, a half-open breaker has at most one probe.
THEOREM ProbesAlone == EndsInWindow => (Spec => []OneProbe)
<1> SUFFICES ASSUME EndsInWindow PROVE Spec => []OneProbe
  OBVIOUS
<1>1. PICK rest : Bounds(rest)
  <2>1. CASE DeadlinesEndInWindow
    <3>1. [n \in 0..MaxRetries |-> 0] \in [0..MaxRetries -> Nat]
      OBVIOUS
    <3> QED
      BY <2>1, <3>1 DEF Bounds
  <2>2. CASE ~DeadlinesEndInWindow
    BY <2>2 DEF Bounds, EndsInWindow
  <2> QED
    BY <2>1, <2>2
<1>2. Init => Probing(rest)
  BY DEF Init, Probing, Running, Idle
<1>3. CallInv /\ CallInv' /\ Probing(rest) /\ [Next]_vars => Probing(rest)'
  BY <1>1, ProbingNext
<1>4. CallInv /\ Probing(rest) => OneProbe
  BY DEF OneProbe, Probing, CallInv, Shapes, Idle, Running
<1> QED
  BY <1>2, <1>3, <1>4, CallInvHolds, PTL DEF Spec

-----------------------------------------------------------------------------
(* Opened for cause: what counts a failure, names what made it.            *)

WithCause == shut \/ failures > 0 => blamed # {}

\* A failed attempt that counts has a cause.
LEMMA FailWithCause ==
    ASSUME WithCause, NEW c \in Calls, NEW code, Fail(c, code), blamed \subseteq blamed',
           code \in countsAgainstBreaker => blamed' # {}
    PROVE  WithCause'
<1>1. CASE Retry(c, code)
  BY <1>1 DEF Fail, BackOff, WithCause, breaker
<1>2. CASE ~Retry(c, code)
  <2>1. Record(code)
    BY <1>2 DEF Fail, GiveUp
  <2>2. CASE code \in countsAgainstBreaker
    BY <2>2 DEF WithCause
  <2>3. CASE code \notin countsAgainstBreaker
    BY <2>1, <2>3 DEF Record, recordIgnored, WithCause
  <2> QED
    BY <2>2, <2>3
<1> QED
  BY <1>1, <1>2

LEMMA WithCauseNext == ASSUME WithCause, [Next]_vars PROVE WithCause'
<1>1. ASSUME NEW c \in Calls, NEW k \in Kinds, TurnAway(c, k) \/ TooLate(c, k) \/ Send(c, k)
      PROVE  WithCause'
  BY <1>1 DEF TurnAway, TooLate, Send, Record, countsAgainstBreaker, recordIgnored,
     breaker, WithCause
<1>2. ASSUME NEW c \in Calls, Answered(c) PROVE WithCause'
  BY <1>2 DEF Answered, recordSuccess, WithCause
<1>3. ASSUME NEW c \in Calls, Refused(c) PROVE WithCause'
  <2>1. PICK code : /\ Fail(c, code)
                    /\ IF code \in {"SOLD_OUT", "BAD_REQUEST"} THEN UNCHANGED blamed
                       ELSE Blame("supplier")
    BY <1>3 DEF Refused
  <2>2. code \in countsAgainstBreaker => code \notin {"SOLD_OUT", "BAD_REQUEST"}
    BY DEF countsAgainstBreaker
  <2> QED
    BY <2>1, <2>2, FailWithCause DEF Blame
<1>4. ASSUME NEW c \in Calls, Disconnected(c) PROVE WithCause'
  BY <1>4, FailWithCause DEF Disconnected, Blame
<1>5. ASSUME NEW c \in Calls, TimedOut(c) PROVE WithCause'
  <2>1. PICK code : Fail(c, code)
    BY <1>5 DEF TimedOut
  <2>2. PICK who : blamed' = blamed \union {who}
    BY <1>5 DEF TimedOut, Blame
  <2> QED
    BY <2>1, <2>2, FailWithCause
<1>6. ASSUME NEW c \in Calls, Wake(c) \/ SupplierDecides(c) \/ SupplierDecidesLate(c)
      PROVE  WithCause'
  BY <1>6 DEF Wake, SupplierDecides, SupplierDecidesLate, WithCause, breaker
<1>7. CASE Tick
  BY <1>7 DEF Tick, WithCause
<1>8. CASE UNCHANGED vars
  BY <1>8 DEF vars, WithCause
<1> QED
  BY <1>1, <1>2, <1>3, <1>4, <1>5, <1>6, <1>7, <1>8 DEF Next, Start, Goes

\* For any deadlines and any calls at once, the breaker is open only if an attempt
\* failed or ran out of time since the last success.
THEOREM OpensForCause == Spec => []OpenedForCause
<1>1. Init => WithCause
  BY DEF Init, WithCause
<1>2. WithCause /\ [Next]_vars => WithCause'
  BY WithCauseNext
<1>3. WithCause => OpenedForCause
  BY DEF WithCause, OpenedForCause
<1> QED
  BY <1>1, <1>2, <1>3, PTL DEF Spec
=============================================================================
