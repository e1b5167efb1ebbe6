---------------------------- MODULE MCPaymentOrder ----------------------------
(* PaymentOrder for TLC: callers and refunds are interchangeable, and another *)
(* order's payment is worth more than this one's.                             *)
EXTENDS PaymentOrder, TLC

CONSTANTS c1, c2, f1, f2, ours, theirs

Symmetry == Permutations(Callers) \union Permutations(Refunds)

Value == (ours :> 1) @@ (theirs :> 2)
Begun == (ours :> "created") @@ (theirs :> "captured")

=============================================================================
