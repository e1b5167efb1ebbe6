---------------------------- MODULE MCSupplierCall ----------------------------
(* SupplierCall for TLC.  Nothing tells one slot for a call from another.   *)
EXTENDS SupplierCall, TLC

Symmetry == Permutations(Calls)
=============================================================================
