--------------------------------- MODULE Ufficio ---------------------------------
(***************************************************************************)
(* What the back office sets and looks at, side by side: the limits of the *)
(* logins and the alarms (Allarmi, over Accessi), the IP lists, the pages  *)
(* of a list and a walk through them.  These parts share no state, so a    *)
(* behaviour is one of one of them - `caso` - and the others rest; what    *)
(* holds of every behaviour here holds of every part.                      *)
(***************************************************************************)
EXTENDS Allarmi

CONSTANTS OraAllarmi,        \* bound on the clock of the behaviours of the alarms
          Bersagli, Esatti, Prefisso, Pieno, Clienti, Copre, Gestori, MaxIstante,
          MaxInt, Predefinita, Massima,
          Id, Chiavi, Dimensioni

VARIABLES caso,                              \* the part the behaviour is of
          regole, scadute, oraIP, voloIP,
          elenco, ordine, dimensione, pagina, visti, doppi, iniziali, accaduto,
          richiesta, esito

Policy == INSTANCE PolicyIP WITH Richieste <- Gestori, ora <- oraIP, volo <- voloIP

Cammino == INSTANCE Elenchi

Pagine == INSTANCE Paginazione

ASSUME UfficioAssumption ==
  /\ OraAllarmi \in Nat
  /\ Policy!PolicyAssumption
  /\ Cammino!ElenchiAssumption
  /\ Pagine!PaginazioneAssumption

varsLog == <<store, eventi, sospesi, mostrato, persi>>

varsIP == <<regole, scadute, oraIP, voloIP>>

varsElenco == <<elenco, ordine, dimensione, pagina, visti, doppi, iniziali, accaduto>>

varsPagina == <<richiesta, esito>>

varsUfficio == <<varsAllarmi, varsIP, varsElenco, varsPagina, caso>>

-----------------------------------------------------------------------------

InitUfficio ==
  /\ caso \in {"allarmi", "limiti", "policy", "cammino", "pagina"}
  /\ InitAllarmi
  /\ caso # "allarmi" => store = "memory"
  /\ Policy!Init
  /\ Cammino!Init
  /\ caso # "cammino" => elenco = << >> /\ ordine = "asc"
  /\ IF caso = "pagina" THEN Pagine!Init
     ELSE richiesta = << >> /\ esito = Pagine!InAttesa

NextUfficio ==
  /\ \/ /\ caso = "allarmi"
        /\ NextAllarmi
        /\ ora' <= OraAllarmi
        /\ UNCHANGED <<varsIP, varsElenco, varsPagina>>
     \/ /\ caso = "limiti"
        /\ Next
        /\ UNCHANGED <<varsLog, varsIP, varsElenco, varsPagina>>
     \/ /\ caso = "policy"
        /\ Policy!Next
        /\ UNCHANGED <<varsAllarmi, varsElenco, varsPagina>>
     \/ /\ caso = "cammino"
        /\ Cammino!Next
        /\ UNCHANGED <<varsAllarmi, varsIP, varsPagina>>
     \/ /\ caso = "pagina"
        /\ Pagine!Next
        /\ UNCHANGED <<varsAllarmi, varsIP, varsElenco>>
  /\ UNCHANGED caso

SpecUfficio == InitUfficio /\ [][NextUfficio]_varsUfficio

-----------------------------------------------------------------------------
(* Properties.  The limits and the alarms are those of Accessi and         *)
(* Allarmi; these are the others.                                          *)

\* The type of the state: TypeAllarmi of Allarmi, TypeOK of the others.
TypeUfficio == TypeAllarmi /\ Policy!TypeOK /\ Cammino!TypeOK

\* What a decision on an address means (PolicyIP).
PrecedenzaPrefissi == Policy!PrecedenzaPrefissi

\* A walk over a changing list shows everything, and nothing twice (Elenchi).
CamminoEsatto == Cammino!CamminoEsatto

\* Every page is the items whose positions belong to it (Paginazione).
PaginaEsatta == Pagine!PaginaEsatta

=============================================================================
