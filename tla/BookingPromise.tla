---------------------------- MODULE BookingPromise ----------------------------
(***************************************************************************)
(* What the hotel engine promises about money and rooms, with no commit,   *)
(* poller or cancel request in sight (docs/adr/0008-booking-safety.md,     *)
(* decisions 2, 3 and 6):                                                  *)
(*                                                                         *)
(*   - one idempotency key is charged once;                                *)
(*   - a supplier is asked for a room only after the charge;               *)
(*   - money goes back once, at most what was taken, and only when the     *)
(*     supplier holds nothing and will hold nothing.                       *)
(***************************************************************************)
EXTENDS Integers

CONSTANTS Bookings, Keys, Price

VARIABLES key, captured, returned, room

vars == <<key, captured, returned, room>>

\* "open": asked, undecided.  "gone": never to be held (again).
Rooms == {"none", "open", "held", "gone"}

Init ==
    /\ key \in [Bookings -> Keys]
    /\ captured = [b \in Bookings |-> 0]
    /\ returned = [b \in Bookings |-> 0]
    /\ room = [b \in Bookings |-> "none"]

Take(b) ==
    /\ \A other \in Bookings : key[other] = key[b] => captured[other] = 0
    /\ captured' = [captured EXCEPT ![b] = Price]
    /\ UNCHANGED <<key, returned, room>>

AskForRoom(b) ==
    /\ captured[b] = Price /\ room[b] = "none"
    /\ room' = [room EXCEPT ![b] = "open"]
    /\ UNCHANGED <<key, captured, returned>>

Decide(b) ==
    /\ room[b] = "open"
    /\ \E r \in {"held", "gone"} : room' = [room EXCEPT ![b] = r]
    /\ UNCHANGED <<key, captured, returned>>

Release(b) ==
    /\ room[b] = "held"
    /\ room' = [room EXCEPT ![b] = "gone"]
    /\ UNCHANGED <<key, captured, returned>>

\* A refund ends the booking: a room never asked for will not be asked for.
GiveBack(b) ==
    /\ room[b] \in {"none", "gone"} /\ returned[b] = 0
    /\ \E amount \in 1..captured[b] :
         returned' = [returned EXCEPT ![b] = amount]
    /\ room' = [room EXCEPT ![b] = "gone"]
    /\ UNCHANGED <<key, captured>>

Next ==
    \E b \in Bookings :
        Take(b) \/ AskForRoom(b) \/ Decide(b) \/ Release(b) \/ GiveBack(b)

Spec == Init /\ [][Next]_vars
=============================================================================
