------------------------------ MODULE MCWorker ------------------------------
(* Instance of Worker: two requests in flight, one tenant with its agents    *)
(* and another that has none.  Requests, ids and agents are interchangeable. *)
EXTENDS Worker, TLC

CONSTANTS r1, r2, v0, v1, v2, n0, n1, n2, t1, t2, i1

MCTenantOf == [n \in Names |-> t1]
Symmetry == Permutations(Reqs) \cup Permutations({v1, v2}) \cup Permutations({n1, n2})
=============================================================================
