-------------------------------- MODULE MCSemina --------------------------------
(***************************************************************************)
(* Semina for two processes, or runs of the script, beside one request.    *)
(***************************************************************************)
EXTENDS Semina, TLC

CONSTANTS pa, pb,                         \* processes, or runs of the script
          n1, n2, n3, n4, n5, u1, u2,     \* ids
          y1, op, adm, ope, ada, x1, qa

\* The environments in which main goes on.
AmbientiMC ==
  {a \in [produzione : BOOLEAN, uri : BOOLEAN, seme : {"true", "false", "unset"},
         hash : BOOLEAN] :
     a.produzione => a.uri}

Simmetria == Permutations({pa, pb}) \cup Permutations({n1, n2, n3})
               \cup Permutations({u1, u2})
=============================================================================
