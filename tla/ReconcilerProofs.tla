--------------------------- MODULE ReconcilerProofs ---------------------------
(***************************************************************************)
(* Proofs about Reconciler: one sweep at a time, and at most Concurrency   *)
(* calls of confirm() in flight, for any bookings, batch and restarts.     *)
(***************************************************************************)
EXTENDS Reconciler, FiniteSetTheorems, TLAPS

-----------------------------------------------------------------------------
(* The invariant.  The flag is up while a sweep is under way, and a sweep  *)
(* has calls in flight only between the start of a wave and its end.       *)

Kept ==
    /\ running \in BOOLEAN
    /\ pc \in [Sweeps -> {"off", "query", "waves"}]
    /\ batch \in [Sweeps -> SUBSET Bookings]
    /\ called \in [Sweeps -> SUBSET Bookings]
    /\ asked \in [Sweeps -> SUBSET Bookings]

\* A sweep under way holds the flag.
Flagged == \A s \in Sweeps : pc[s] # "off" => running

\* A sweep that is not in its waves has no call in flight.
Quiet == \A s \in Sweeps : pc[s] # "waves" => InFlight(s) = {}

\* A sweep has at most a wave of calls in flight.
OneWave == \A s \in Sweeps : Cardinality(InFlight(s)) <= Concurrency

SweepInv == Kept /\ Flagged /\ OneSweepAtATime /\ Quiet /\ OneWave

-----------------------------------------------------------------------------
\* A set of bookings is finite, and no larger than a set that contains it.
LEMMA SmallerSet ==
    ASSUME NEW T \in SUBSET Bookings, NEW S \in SUBSET T
    PROVE  /\ IsFiniteSet(S) /\ Cardinality(S) \in Nat /\ Cardinality(T) \in Nat
           /\ Cardinality(S) <= Cardinality(T)
<1>1. IsFiniteSet(T)
  BY BookingsAssumption, FS_Subset
<1> QED
  BY <1>1, FS_Subset, FS_CardinalityType

\* With no call in flight there is nothing to count.
LEMMA NothingInFlight ==
    /\ Cardinality({}) = 0
    /\ Cardinality({}) <= Concurrency
BY FS_EmptySet, SizesAssumption

-----------------------------------------------------------------------------
LEMMA SweepInvInit == Init => SweepInv
<1> SUFFICES ASSUME Init PROVE SweepInv
  OBVIOUS
<1>1. Kept /\ Flagged /\ OneSweepAtATime /\ Quiet
  BY DEF Init, Kept, Flagged, OneSweepAtATime, Quiet, InFlight
<1>2. OneWave
  BY NothingInFlight DEF Init, OneWave, InFlight
<1> QED
  BY <1>1, <1>2 DEF SweepInv

\* A sweep ends: its flag comes down, and it has no call in flight.
LEMMA SweepEnds ==
    ASSUME SweepInv, NEW s \in Sweeps, pc[s] # "off", InFlight(s) = {}, Finish(s)
    PROVE  SweepInv'
<1> USE DEF SweepInv
<1>1. Kept'
  BY DEF Finish, Kept
<1>2. \A t \in Sweeps : pc'[t] = "off"
  BY DEF Finish, OneSweepAtATime, Kept
<1>3. Flagged' /\ OneSweepAtATime'
  BY <1>2 DEF Flagged, OneSweepAtATime
<1>4. \A t \in Sweeps : InFlight(t)' = InFlight(t)
  BY DEF Finish, InFlight
<1>5. Quiet' /\ OneWave'
  BY <1>2, <1>4 DEF Finish, Quiet, OneWave, OneSweepAtATime
<1> QED
  BY <1>1, <1>3, <1>5

\* A call that goes from called to asked, or answers, or rejects, leaves its
\* sweep with no more calls in flight than before.
LEMMA CallsDrain ==
    ASSUME SweepInv, NEW s \in Sweeps,
           UNCHANGED <<running, pc, batch>>,
           called' \in [Sweeps -> SUBSET Bookings], asked' \in [Sweeps -> SUBSET Bookings],
           \A t \in Sweeps : InFlight(t)' \subseteq InFlight(t)
    PROVE  SweepInv'
<1> USE DEF SweepInv
<1>1. Kept' /\ Flagged' /\ OneSweepAtATime'
  BY DEF Kept, Flagged, OneSweepAtATime
<1>2. Quiet'
  BY DEF Quiet
<1>3. ASSUME NEW t \in Sweeps PROVE Cardinality(InFlight(t)') <= Concurrency
  <2>1. InFlight(t) \in SUBSET Bookings
    BY DEF InFlight, Kept
  <2>2. /\ Cardinality(InFlight(t)') <= Cardinality(InFlight(t))
        /\ Cardinality(InFlight(t)') \in Nat /\ Cardinality(InFlight(t)) \in Nat
    BY <2>1, SmallerSet
  <2> QED
    BY <2>2, SizesAssumption DEF OneWave
<1> QED
  BY <1>1, <1>2, <1>3 DEF OneWave

LEMMA SweepInvNext == SweepInv /\ [Next]_vars => SweepInv'
<1> SUFFICES ASSUME SweepInv, [Next]_vars PROVE SweepInv'
  OBVIOUS
<1> USE DEF SweepInv
<1>1. CASE \E b \in Bookings : Elsewhere(b)
  BY <1>1 DEF Elsewhere, sweep, Kept, Flagged, OneSweepAtATime, Quiet, OneWave, InFlight
<1>2. ASSUME NEW s \in Sweeps, Tick(s) PROVE SweepInv'
  <2>1. Kept'
    BY <1>2 DEF Tick, Kept
  <2>2. \A t \in Sweeps : pc[t] = "off"
    BY <1>2 DEF Tick, Free, Flagged, Kept
  <2>3. \A t \in Sweeps : pc'[t] # "off" => t = s
    BY <1>2, <2>2 DEF Tick, Kept
  <2>4. Flagged' /\ OneSweepAtATime'
    BY <1>2, <2>3 DEF Tick, Flagged, OneSweepAtATime
  <2>5. Quiet' /\ OneWave'
    BY <1>2, <2>2 DEF Tick, Quiet, OneWave, InFlight
  <2> QED
    BY <2>1, <2>4, <2>5
<1>3. ASSUME NEW s \in Sweeps, QueryRejects(s) PROVE SweepInv'
  <2>1. pc[s] # "off" /\ InFlight(s) = {}
    BY <1>3 DEF QueryRejects, Quiet
  <2> QED
    BY <1>3, <2>1, SweepEnds DEF QueryRejects
<1>4. ASSUME NEW s \in Sweeps, Query(s) PROVE SweepInv'
  <2>1. findUnsettled(BatchSize) \in SUBSET Bookings
    BY DEF findUnsettled
  <2>2. Kept'
    BY <1>4, <2>1 DEF Query, Kept
  <2>3. Flagged' /\ OneSweepAtATime'
    BY <1>4 DEF Query, Kept, Flagged, OneSweepAtATime
  <2>4. Quiet' /\ OneWave'
    BY <1>4 DEF Query, Kept, Quiet, OneWave, InFlight
  <2> QED
    BY <2>2, <2>3, <2>4
<1>5. ASSUME NEW s \in Sweeps, NextWave(s) PROVE SweepInv'
  <2>1. PICK wave \in SUBSET batch[s] :
          /\ Cardinality(wave) = Least(Concurrency, Cardinality(batch[s]))
          /\ called' = [called EXCEPT ![s] = @ \union wave]
          /\ batch' = [batch EXCEPT ![s] = @ \ wave]
    BY <1>5 DEF NextWave
  <2>2. batch[s] \in SUBSET Bookings /\ wave \in SUBSET Bookings
    BY <2>1 DEF Kept
  <2>3. Kept'
    BY <1>5, <2>1, <2>2 DEF NextWave, Kept
  <2>4. Flagged' /\ OneSweepAtATime'
    BY <1>5 DEF NextWave, Flagged, OneSweepAtATime
  <2>5. InFlight(s)' = wave
    BY <1>5, <2>1 DEF NextWave, AllAnswered, InFlight, Kept
  <2>6. \A t \in Sweeps \ {s} : InFlight(t)' = InFlight(t)
    BY <1>5, <2>1 DEF NextWave, InFlight, Kept
  <2>7. Cardinality(wave) <= Concurrency
    <3>1. Cardinality(batch[s]) \in Nat
      BY <2>2, SmallerSet
    <3> QED
      BY <2>1, <3>1, SizesAssumption DEF Least
  <2>8. Quiet'
    BY <1>5, <2>6 DEF NextWave, Quiet
  <2>9. OneWave'
    BY <2>5, <2>6, <2>7 DEF OneWave
  <2> QED
    BY <2>3, <2>4, <2>8, <2>9
<1>6. ASSUME NEW s \in Sweeps, LastWave(s) PROVE SweepInv'
  BY <1>6, SweepEnds DEF LastWave, AllAnswered
<1>7. ASSUME NEW s \in Sweeps, NEW b \in Bookings, Read(s, b) PROVE SweepInv'
  <2>1. UNCHANGED <<running, pc, batch>>
    BY <1>7 DEF Read
  <2>2. called' \in [Sweeps -> SUBSET Bookings] /\ asked' \in [Sweeps -> SUBSET Bookings]
    BY <1>7 DEF Read, Kept
  <2>3. \A t \in Sweeps : InFlight(t)' \subseteq InFlight(t)
    BY <1>7 DEF Read, InFlight, Kept
  <2> QED
    BY <2>1, <2>2, <2>3, CallsDrain
<1>8. ASSUME NEW s \in Sweeps, NEW b \in Bookings, Settle(s, b) PROVE SweepInv'
  <2>1. UNCHANGED <<running, pc, batch>>
    BY <1>8 DEF Settle
  <2>2. called' \in [Sweeps -> SUBSET Bookings] /\ asked' \in [Sweeps -> SUBSET Bookings]
    BY <1>8 DEF Settle, Kept
  <2>3. \A t \in Sweeps : InFlight(t)' \subseteq InFlight(t)
    BY <1>8 DEF Settle, InFlight, Kept
  <2> QED
    BY <2>1, <2>2, <2>3, CallsDrain
<1>9. ASSUME NEW s \in Sweeps, NEW b \in Bookings, LeaveIt(s, b) PROVE SweepInv'
  <2>1. UNCHANGED <<running, pc, batch>>
    BY <1>9 DEF LeaveIt
  <2>2. called' \in [Sweeps -> SUBSET Bookings] /\ asked' \in [Sweeps -> SUBSET Bookings]
    BY <1>9 DEF LeaveIt, Kept
  <2>3. \A t \in Sweeps : InFlight(t)' \subseteq InFlight(t)
    BY <1>9 DEF LeaveIt, InFlight, Kept
  <2> QED
    BY <2>1, <2>2, <2>3, CallsDrain
<1>10. CASE Restart
  <2>1. Kept' /\ Flagged' /\ OneSweepAtATime' /\ Quiet'
    BY <1>10 DEF Restart, Kept, Flagged, OneSweepAtATime, Quiet, InFlight
  <2>2. \A s \in Sweeps : InFlight(s)' = {}
    BY <1>10 DEF Restart, InFlight
  <2> QED
    BY <2>1, <2>2, NothingInFlight DEF OneWave
<1>11. CASE UNCHANGED vars
  BY <1>11 DEF vars, Kept, Flagged, OneSweepAtATime, Quiet, OneWave, InFlight
<1> QED
  BY <1>1, <1>2, <1>3, <1>4, <1>5, <1>6, <1>7, <1>8, <1>9, <1>10, <1>11 DEF Next, SweepStep

LEMMA SweepInvHolds == Spec => []SweepInv
BY SweepInvInit, SweepInvNext, PTL DEF Spec

-----------------------------------------------------------------------------
\* Two calls of runOnce() are never both past the check of the flag,
\* whatever the query and the calls did, and across restarts.
THEOREM OneSweep == Spec => []OneSweepAtATime
<1>1. SweepInv => OneSweepAtATime
  BY DEF SweepInv
<1> QED
  BY <1>1, SweepInvHolds, PTL

\* The calls in flight are those of one sweep, and so of one wave.
LEMMA CallsOfOneWave == SweepInv => AtMostConcurrency
<1> SUFFICES ASSUME SweepInv PROVE Cardinality(Calls) <= Concurrency
  BY DEF AtMostConcurrency
<1> USE DEF SweepInv
<1>1. CASE \A s \in Sweeps : pc[s] # "waves"
  <2>1. Calls = {}
    BY <1>1 DEF Calls, Quiet
  <2> QED
    BY <2>1, NothingInFlight
<1>2. ASSUME NEW s \in Sweeps, pc[s] = "waves" PROVE Cardinality(Calls) <= Concurrency
  <2>1. \A t \in Sweeps : InFlight(t) # {} => t = s
    BY <1>2 DEF Quiet, OneSweepAtATime
  <2>2. InFlight(s) \in SUBSET Bookings
    BY DEF InFlight, Kept
  <2>3. Calls = {s} \X InFlight(s)
    <3>1. ASSUME NEW c \in Calls PROVE c \in {s} \X InFlight(s)
      BY <2>1 DEF Calls
    <3>2. ASSUME NEW c \in {s} \X InFlight(s) PROVE c \in Calls
      BY <2>2 DEF Calls
    <3> QED
      BY <3>1, <3>2
  <2>4. IsFiniteSet(InFlight(s)) /\ Cardinality(InFlight(s)) \in Nat
    BY <2>2, SmallerSet
  <2>5. IsFiniteSet({s}) /\ Cardinality({s}) = 1
    BY FS_Singleton
  <2>6. Cardinality(Calls) = Cardinality({s}) * Cardinality(InFlight(s))
    BY <2>3, <2>4, <2>5, FS_Product
  <2> QED
    BY <2>4, <2>5, <2>6 DEF OneWave
<1> QED
  BY <1>1, <1>2

\* The suppliers never see more than Concurrency questions of the reconciler.
THEOREM BoundedCalls == Spec => []AtMostConcurrency
BY SweepInvHolds, CallsOfOneWave, PTL
=============================================================================
