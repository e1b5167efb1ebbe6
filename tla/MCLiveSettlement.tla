--------------------------- MODULE MCLiveSettlement ---------------------------
(* LiveSettlement for TLC.  Any process may be any job.  An order without  *)
(* anything to refund to only changes what RefundService does, so one      *)
(* supplier is enough for it.                                              *)
EXTENDS LiveSettlement, TLC

Symmetry == Permutations(Procs)

Order(p, y, d) == [provider |-> p, payable |-> y, paid |-> d]

PaidOrders == {Order("tripjack", TRUE, TRUE), Order("rategain", TRUE, TRUE),
               Order("tripjack", FALSE, TRUE)}
AllOrders == PaidOrders \union {Order("tripjack", TRUE, FALSE), Order("tripjack", FALSE, FALSE)}

=============================================================================
