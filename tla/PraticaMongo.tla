------------------------------ MODULE PraticaMongo ------------------------------
(***************************************************************************)
(* The same handlers over MongoStore, the production store.  An operation  *)
(* that changes a pratica reads the whole document (FindOne), computes the *)
(* new one in the process, and writes it whole (ReplaceOne by id): nothing *)
(* keeps another request, in this process or in another, from writing in   *)
(* between.  Only the insertion and the conditional deletion of a draft    *)
(* are one call to the database.                                           *)
(*                                                                         *)
(* ReplaceOne does not upsert: on a pratica that was deleted meanwhile it  *)
(* matches nothing, and the operation answers as if it had succeeded.      *)
(*                                                                         *)
(* A handler may stop between any two calls: its process crashes, or a     *)
(* call exceeds the 8 seconds of its context.                              *)
(***************************************************************************)
EXTENDS PraticaDoc, Mappe

CONSTANTS PraticaId, Richieste, MaxEventi

VARIABLES pratiche,    \* the collection: id -> document
          generati,    \* pratica ids already given
          caricati,    \* document ids already given
          richieste,   \* handler -> [passo, id, arg, poi], when in flight
          lette        \* handler -> the document it is about to write

vars == <<pratiche, generati, caricati, richieste, lette>>

\* What comes next: a FindOne (with the change it is for), or the ReplaceOne.
Passi == {"find_inviata", "find_integrazione", "find_nota", "find_completata",
          "find_elimina", "replace"}

\* What the handler does after a ReplaceOne.
Seguiti == {"fine", "find_nota", "find_completata"}

InVolo == [passo : Passi,
           id    : PraticaId,
           arg   : Documenti \cup {Vuoto},
           poi   : Seguiti]

TypeOK ==
  /\ DOMAIN pratiche \subseteq generati
  /\ generati \subseteq PraticaId
  /\ pratiche \in [DOMAIN pratiche -> Pratica]
  /\ caricati \subseteq Documenti
  /\ DOMAIN richieste \subseteq Richieste
  /\ richieste \in [DOMAIN richieste -> InVolo]
  /\ DOMAIN lette = {r \in DOMAIN richieste : richieste[r].passo = "replace"}
  /\ lette \in [DOMAIN lette -> Pratica]

Init ==
  /\ pratiche = << >>
  /\ generati = {}
  /\ caricati = {}
  /\ richieste = << >>
  /\ lette = << >>

Esiste(id) == id \in DOMAIN pratiche

\* Bound on the timeline at the start of a handler.
Inizia(r, id) ==
  /\ r \notin DOMAIN richieste
  /\ Esiste(id)
  /\ Len(pratiche[id].eventi) < MaxEventi

Attende(r, passo) == r \in DOMAIN richieste /\ richieste[r].passo = passo

Aspetta(r, passo, id, arg) ==
  /\ richieste' = Con(richieste, r, [passo |-> passo, id |-> id, arg |-> arg, poi |-> "fine"])
  /\ lette' = Senza(lette, r)

\* The handler holds p, computed from what it read, and will write it.
Prepara(r, id, p, poi) ==
  /\ richieste' = Con(richieste, r, [passo |-> "replace", id |-> id, arg |-> Vuoto, poi |-> poi])
  /\ lette' = Con(lette, r, p)

Finisci(r) ==
  /\ richieste' = Senza(richieste, r)
  /\ lette' = Senza(lette, r)

-----------------------------------------------------------------------------
(* One call to the database.                                               *)

CreatePratica(id, u, d) ==
  /\ id \notin generati
  /\ generati' = generati \cup {id}
  /\ pratiche' = Con(pratiche, id, NuovaPratica(u, d))
  /\ UNCHANGED <<caricati, richieste, lette>>

DeletePraticaAsDraft(id, u) ==
  /\ Esiste(id)
  /\ BozzaDi(pratiche[id], u)
  /\ pratiche' = Senza(pratiche, id)
  /\ UNCHANGED <<generati, caricati, richieste, lette>>

-----------------------------------------------------------------------------
(* The FindOne of an operation, with the checks on what it returned.       *)

PatchFind(r, id, u, d) ==
  /\ Inizia(r, id)
  /\ BozzaDi(pratiche[id], u)
  /\ Prepara(r, id, ConDati(pratiche[id], d), "fine")
  /\ UNCHANGED <<pratiche, generati, caricati>>

ChangeStatoFind(r, id, next) ==
  /\ Inizia(r, id)
  /\ Transizione(pratiche[id], next)
  /\ Prepara(r, id, ConStato(pratiche[id], next), "fine")
  /\ UNCHANGED <<pratiche, generati, caricati>>

AssegnaFind(r, id, o) ==
  /\ Inizia(r, id)
  /\ Prepara(r, id, ConOperatore(pratiche[id], o), "fine")
  /\ UNCHANGED <<pratiche, generati, caricati>>

NotaFind(r, id) ==
  /\ Inizia(r, id)
  /\ Prepara(r, id, ConNota(pratiche[id]), "fine")
  /\ UNCHANGED <<pratiche, generati, caricati>>

AddDocumentoFind(r, id, d) ==
  /\ Inizia(r, id)
  /\ d \notin caricati
  /\ caricati' = caricati \cup {d}
  /\ Prepara(r, id, ConDocumento(pratiche[id], d), "fine")
  /\ UNCHANGED <<pratiche, generati>>

\* The back office deletes a file in any state.
DeleteDocumentoFind(r, id, d) ==
  /\ Inizia(r, id)
  /\ d \in pratiche[id].documenti
  /\ Prepara(r, id, SenzaDocumento(pratiche[id], d), "fine")
  /\ UNCHANGED <<pratiche, generati, caricati>>

InviaVistoFind(r, id) ==
  /\ Inizia(r, id)
  /\ Transizione(pratiche[id], "VISTO_EMESSO")
  /\ Prepara(r, id, ConStato(pratiche[id], "VISTO_EMESSO"), "find_completata")
  /\ UNCHANGED <<pratiche, generati, caricati>>

-----------------------------------------------------------------------------
(* A first GetPratica that only checks; the store method reads again.      *)

SubmitGet(r, id, u) ==
  /\ Inizia(r, id)
  /\ BozzaDi(pratiche[id], u)
  /\ Aspetta(r, "find_inviata", id, Vuoto)
  /\ UNCHANGED <<pratiche, generati, caricati>>

RichiediGet(r, id) ==
  /\ Inizia(r, id)
  /\ Richiedibile(pratiche[id])
  /\ Aspetta(r, "find_integrazione", id, Vuoto)
  /\ UNCHANGED <<pratiche, generati, caricati>>

EliminaDocumentoGet(r, id, u, d) ==
  /\ Inizia(r, id)
  /\ BozzaDi(pratiche[id], u)
  /\ d \in caricati
  /\ Aspetta(r, "find_elimina", id, d)
  /\ UNCHANGED <<pratiche, generati, caricati>>

-----------------------------------------------------------------------------
(* The later calls of a handler in flight.                                 *)

\* Mutant: the change trusts the state read by the handler's first GetPratica.
CambiaFindSenzaTabella(r, passo, next, poi) ==
  /\ Attende(r, passo)
  /\ LET id == richieste[r].id IN
       IF Esiste(id)
       THEN Prepara(r, id, ConStato(pratiche[id], next), poi)
       ELSE Finisci(r)
  /\ UNCHANGED <<pratiche, generati, caricati>>

\* A ChangePraticaState to `next`; a refusal ends the handler.
CambiaFind(r, passo, next, poi) ==
  /\ Attende(r, passo)
  /\ LET id == richieste[r].id IN
       IF Esiste(id) /\ Transizione(pratiche[id], next)
       THEN Prepara(r, id, ConStato(pratiche[id], next), poi)
       ELSE Finisci(r)
  /\ UNCHANGED <<pratiche, generati, caricati>>

SubmitFind(r) == CambiaFind(r, "find_inviata", "INVIATA", "fine")

RichiediFind(r) ==
  CambiaFind(r, "find_integrazione", "INTEGRAZIONE_RICHIESTA", "find_nota")

InviaVistoCompletata(r) == CambiaFind(r, "find_completata", "COMPLETATA", "fine")

RichiediNotaFind(r) ==
  /\ Attende(r, "find_nota")
  /\ LET id == richieste[r].id IN
       IF Esiste(id)
       THEN Prepara(r, id, ConNota(pratiche[id]), "fine")
       ELSE Finisci(r)
  /\ UNCHANGED <<pratiche, generati, caricati>>

EliminaDocumentoFind(r) ==
  /\ Attende(r, "find_elimina")
  /\ LET id == richieste[r].id
         d  == richieste[r].arg
     IN  IF Esiste(id) /\ d \in pratiche[id].documenti
         THEN Prepara(r, id, SenzaDocumento(pratiche[id], d), "fine")
         ELSE Finisci(r)
  /\ UNCHANGED <<pratiche, generati, caricati>>

\* Mutant: the write inserts the document when there is none.
ReplaceOneUpsert(r) ==
  /\ Attende(r, "replace")
  /\ LET id  == richieste[r].id
         poi == richieste[r].poi
     IN  /\ pratiche' = Con(pratiche, id, lette[r])
         /\ IF poi = "fine" THEN Finisci(r) ELSE Aspetta(r, poi, id, Vuoto)
  /\ UNCHANGED <<generati, caricati>>

\* Writes the document the handler computed over whatever is stored now.
ReplaceOne(r) ==
  /\ Attende(r, "replace")
  /\ LET id  == richieste[r].id
         poi == richieste[r].poi
     IN  /\ pratiche' = IF Esiste(id) THEN [pratiche EXCEPT ![id] = lette[r]]
                                      ELSE pratiche
         /\ IF poi = "fine" THEN Finisci(r) ELSE Aspetta(r, poi, id, Vuoto)
  /\ UNCHANGED <<generati, caricati>>

\* The handler stops here: crash of its process, or a call that fails.
Cade(r) ==
  /\ r \in DOMAIN richieste
  /\ Finisci(r)
  /\ UNCHANGED <<pratiche, generati, caricati>>

-----------------------------------------------------------------------------

Prosegue(r) ==
  \/ SubmitFind(r)
  \/ RichiediFind(r)
  \/ RichiediNotaFind(r)
  \/ InviaVistoCompletata(r)
  \/ EliminaDocumentoFind(r)
  \/ ReplaceOne(r)

Richiedente(id, u) ==
  \/ \E d \in Dati : CreatePratica(id, u, d)
  \/ DeletePraticaAsDraft(id, u)
  \/ \E r \in Richieste :
       \/ \E d \in Dati : PatchFind(r, id, u, d)
       \/ SubmitGet(r, id, u)
       \/ \E d \in Documenti : EliminaDocumentoGet(r, id, u, d)

Backoffice(r, id) ==
  \/ \E next \in StatoPratica : ChangeStatoFind(r, id, next)
  \/ \E o \in Operatori : AssegnaFind(r, id, o)
  \/ NotaFind(r, id)
  \/ \E d \in Documenti : AddDocumentoFind(r, id, d)
  \/ \E d \in Documenti : DeleteDocumentoFind(r, id, d)
  \/ RichiediGet(r, id)
  \/ InviaVistoFind(r, id)

Next ==
  \/ \E id \in PraticaId, u \in Utenti : Richiedente(id, u)
  \/ \E r \in Richieste, id \in PraticaId : Backoffice(r, id)
  \/ \E r \in Richieste : Prosegue(r) \/ Cade(r)

Spec == Init /\ [][Next]_vars

-----------------------------------------------------------------------------
(* Properties.                                                             *)

\* Lost updates never leave a document that contradicts itself: what is
\* stored, and what any handler is about to store, is one consistent
\* history, with its milestones and its dates.
DocumentiCoerenti ==
  /\ \A id \in DOMAIN pratiche : Coerente(pratiche[id])
  /\ \A r \in DOMAIN lette : Coerente(lette[r])

\* A deleted draft never comes back, although handlers that had read it may
\* still write it: ReplaceOne does not upsert.
EliminataResta ==
  [][\A id \in generati : id \notin DOMAIN pratiche => id \notin DOMAIN pratiche']_vars

\* README.md:17: "Macchina stati pratica con validazione transizioni", as a
\* statement on what is stored: the state of a pratica moves along the table.
StatoSegueTabella ==
  [][\A id \in DOMAIN pratiche \cap DOMAIN pratiche' :
       \/ pratiche'[id].stato = pratiche[id].stato
       \/ Transizione(pratiche[id], pratiche'[id].stato)]_vars

=============================================================================
