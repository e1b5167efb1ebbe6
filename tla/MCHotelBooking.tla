--------------------------- MODULE MCHotelBooking ---------------------------
(***************************************************************************)
(* HotelBooking for TLC.  Requests and idempotency keys are interchangeable *)
(* names; deals are not, since only some suppliers can be polled.          *)
(***************************************************************************)
EXTENDS HotelBooking, TLC

Symmetry == Permutations(Commits) \union Permutations(Pollers)
              \union Permutations(Cancellers) \union Permutations(Keys)
=============================================================================
