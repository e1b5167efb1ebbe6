----------------------------- MODULE MCCabBooking -----------------------------
(* CabBooking for TLC: requests are interchangeable, and so are jobs.        *)
(* Bounds: at most MaxUnderWay processes are under way at a time, and the    *)
(* last request comes only under a lock, while nothing was lost.             *)
EXTENDS CabBooking, TLC

CONSTANTS r1, r2, r3, j1, j2, MaxUnderWay

Symmetry == Permutations(Requests) \union Permutations(Jobs)

FewUnderWay ==
    Cardinality({p \in Procs : pc[p] \notin {"new", "ended", "idle"}}) <= MaxUnderWay

LastInOrder == (\A r \in Requests : pc[r] # "new") => locking /\ ~lapsed /\ losses = 0

=============================================================================
