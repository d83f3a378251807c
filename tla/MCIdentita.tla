------------------------------- MODULE MCIdentita -------------------------------
(***************************************************************************)
(* Identita for one user and two handlers: four sessions, three of them    *)
(* with access tokens; an account with three tokens, or with two and two   *)
(* secrets.                                                                *)
(***************************************************************************)
EXTENDS Identita, TLC

CONSTANTS ada, r1, r2,
          t1, t2, t3, t4,     \* ids of sessions, tokens
          k1, k2              \* secrets

Simmetria ==
  Permutations({t2, t3, t4}) \cup Permutations({r1, r2}) \cup Permutations({k1, k2})
=============================================================================
