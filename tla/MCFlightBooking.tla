---------------------------- MODULE MCFlightBooking ----------------------------
(* FlightBooking for TLC: requests are interchangeable. *)
EXTENDS FlightBooking, TLC

CONSTANTS c1, c2

\* Two debits where they differ most: with and without a look for an earlier one, of one
\* wallet and of two.
Debits == [p \in Payers |-> IF p \in {"sub", "house"} THEN 2 ELSE 1]

Symmetry == Permutations(Callers)

=============================================================================
