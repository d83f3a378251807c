--------------------------------- MODULE Mappe ---------------------------------
(***************************************************************************)
(* Functions with a domain that changes, for the maps and the collections  *)
(* of the stores.  (The operators :> and @@ of TLC have no definition the  *)
(* proof system can expand.)                                               *)
(***************************************************************************)
EXTENDS Functions

\* f with the entry k set to v, whether or not it had one.
Con(f, k, v) == [x \in DOMAIN f \cup {k} |-> IF x = k THEN v ELSE f[x]]

\* f without the entry k.
Senza(f, k) == Restrict(f, DOMAIN f \ {k})

=============================================================================
