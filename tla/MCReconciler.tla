----------------------------- MODULE MCReconciler -----------------------------
(* Reconciler for TLC.  Bookings differ only in their place in the order,   *)
(* which Init leaves open, so they are symmetric; so are sweeps.            *)
EXTENDS Reconciler, TLC

Symmetry == Permutations(Bookings) \union Permutations(Sweeps)
=============================================================================
