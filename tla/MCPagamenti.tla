------------------------------ MODULE MCPagamenti ------------------------------
(* Payments on small instances; both events are of the first payment. *)
EXTENDS Pagamenti, TLC

CONSTANTS p1, t1, t2, e1, e2, r1, r2

UnPagamento == (e1 :> t1) @@ (e2 :> t1)

Simmetria == Permutations({r1, r2})
=============================================================================
