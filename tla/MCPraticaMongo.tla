------------------------------- MODULE MCPraticaMongo -------------------------------
(***************************************************************************)
(* The MongoStore on two small instances of the constants, one or the      *)
(* other in every behaviour: two handlers over a short timeline, or one at *)
(* a time, with files and an operator, over the whole workflow.            *)
(***************************************************************************)
EXTENDS PraticaMongo, TLC

CONSTANTS p1, ada, olga, d1, f1, r1, r2, r3

VARIABLE seriale   \* is it one handler at a time

Uno == INSTANCE PraticaMongo WITH Richieste <- {r3}

Due == INSTANCE PraticaMongo WITH
         Richieste <- {r1, r2}, Operatori <- {}, Documenti <- {},
         MaxEventi <- 7

InitIstanze == Init /\ seriale \in BOOLEAN

NextIstanze ==
  /\ \/ seriale /\ Uno!Next
     \/ ~seriale /\ Due!Next
  /\ UNCHANGED seriale

SpecIstanze == InitIstanze /\ [][NextIstanze]_<<vars, seriale>>

\* With one handler in flight at a time (and insertions and deletions of
\* drafts at any moment), MongoStore implements the life cycle.  Behaviours
\* with two handlers are mapped to one in which nothing happens.
Visto(f) == IF seriale THEN f ELSE << >>

Ciclo == INSTANCE CicloVita WITH
           generati <- IF seriale THEN generati ELSE {},
           stato    <- Visto([id \in DOMAIN pratiche |-> pratiche[id].stato]),
           eventi   <- Visto([id \in DOMAIN pratiche |-> pratiche[id].eventi])

SerialeImplementaCicloVita == Ciclo!Spec

Simmetria == Permutations({r1, r2})
=============================================================================
