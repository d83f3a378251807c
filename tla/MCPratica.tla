------------------------------- MODULE MCPratica -------------------------------
(* The in-memory store on small instances. *)
EXTENDS PraticaMemory, TLC

CONSTANTS p1, ada, olga, d1, f1, r1, r2
=============================================================================
