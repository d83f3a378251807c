-------------------------------- MODULE Registro --------------------------------
(***************************************************************************)
(* The ledger that the payments promise, whatever happens to requests and  *)
(* to the process: a payment is opened once, an event of the provider      *)
(* deposits at most once, on the payment it names and in one step, and     *)
(* money is given back only while a deposit is there.                      *)
(*                                                                         *)
(* A deposit on a payment that was refunded or paid already is allowed:    *)
(* the provider reports new money with a new event.                        *)
(***************************************************************************)
EXTENDS Mappe

CONSTANTS Token, Eventi, TokenDi

VARIABLES conto,       \* token -> state of its payment
          incassati    \* events that deposited

vars == <<conto, incassati>>

Init ==
  /\ conto = << >>
  /\ incassati = {}

Apri(tok) ==
  /\ tok \notin DOMAIN conto
  /\ conto' = Con(conto, tok, "PENDENTE")
  /\ UNCHANGED incassati

Incassa(ev) ==
  /\ ev \notin incassati
  /\ TokenDi[ev] \in DOMAIN conto
  /\ conto' = [conto EXCEPT ![TokenDi[ev]] = "COMPLETATO"]
  /\ incassati' = incassati \cup {ev}

Rimborsa(tok) ==
  /\ tok \in DOMAIN conto
  /\ conto[tok] = "COMPLETATO"
  /\ conto' = [conto EXCEPT ![tok] = "RIMBORSATO"]
  /\ UNCHANGED incassati

Next ==
  \/ \E tok \in Token : Apri(tok) \/ Rimborsa(tok)
  \/ \E ev \in Eventi : Incassa(ev)

Spec == Init /\ [][Next]_vars

=============================================================================
