------------------------------- MODULE CicloVita -------------------------------
(***************************************************************************)
(* What the store promises about the life cycle of the pratiche, whatever  *)
(* the interleaving of the requests: a pratica is created once, as a       *)
(* draft; its state moves only along the transition table, and every move  *)
(* leaves one event; the timeline only grows; only a draft disappears, and *)
(* for good.  Owner, editable data, operator and files are not visible     *)
(* here.                                                                   *)
(***************************************************************************)
EXTENDS PraticaDoc, Mappe

CONSTANT PraticaId

VARIABLES generati,   \* ids already given to a pratica
          stato,      \* id -> state, for the pratiche that exist
          eventi      \* id -> timeline

vars == <<generati, stato, eventi>>

Init ==
  /\ generati = {}
  /\ stato = << >>
  /\ eventi = << >>

Nasce(id) ==
  /\ id \notin generati
  /\ generati' = generati \cup {id}
  /\ stato' = Con(stato, id, "BOZZA")
  /\ eventi' = Con(eventi, id, <<Evento("PRATICA_CREATA", Vuoto, "BOZZA")>>)

Avanza(id, next) ==
  /\ next \in allowedTransitions[stato[id]]
  /\ stato' = [stato EXCEPT ![id] = next]
  /\ eventi' = [eventi EXCEPT ![id] =
                  Append(@, Evento("STATO_CAMBIATO", stato[id], next))]
  /\ UNCHANGED generati

Annota(id, tipo) ==
  /\ eventi' = [eventi EXCEPT ![id] = Append(@, Evento(tipo, Vuoto, Vuoto))]
  /\ UNCHANGED <<generati, stato>>

Sparisce(id) ==
  /\ stato[id] = "BOZZA"
  /\ stato' = Senza(stato, id)
  /\ eventi' = Senza(eventi, id)
  /\ UNCHANGED generati

Next ==
  \/ \E id \in PraticaId : Nasce(id)
  \/ \E id \in DOMAIN stato :
       \/ \E next \in StatoPratica : Avanza(id, next)
       \/ \E tipo \in {"ASSEGNAZIONE_OPERATORE", "NOTA_AGGIUNTA"} : Annota(id, tipo)
       \/ Sparisce(id)

Spec == Init /\ [][Next]_vars

=============================================================================
