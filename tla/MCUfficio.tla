-------------------------------- MODULE MCUfficio --------------------------------
(***************************************************************************)
(* Ufficio on small instances: two overlapping logins of one account, an   *)
(* address, its network of full length and a larger one, a walk over at    *)
(* most three items, and every request for a page in integers of six bits. *)
(***************************************************************************)
EXTENDS Ufficio, TLC

CONSTANTS ada, k1, c1, ip, ip32, rete24,
          r1, r2, r3   \* requests, or items of a list

BersagliMC == {ip, ip32, rete24}

\* All of them cover the one client.
PrefissoMC == [b \in BersagliMC |-> IF b = rete24 THEN 24 ELSE 32]

CopreMC == [b \in BersagliMC |-> {c1}]

Simmetria == Permutations({r1, r2})
=============================================================================
