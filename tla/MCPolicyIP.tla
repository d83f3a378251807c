------------------------------ MODULE MCPolicyIP ------------------------------
(* One client, its address as an address and as a network of full length,  *)
(* a network inside another, and a network elsewhere.                      *)
EXTENDS PolicyIP, TLC

CONSTANTS c1, ip, ip32, rete24, rete16, r1, r2

PrefissoMC ==
  [b \in Bersagli |-> IF b \in {ip, ip32} THEN 32 ELSE IF b = rete24 THEN 24 ELSE 16]

CopreMC == [b \in Bersagli |-> Clienti]
=============================================================================
