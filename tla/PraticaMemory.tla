----------------------------- MODULE PraticaMemory -----------------------------
(***************************************************************************)
(* The HTTP handlers on a pratica, running concurrently over MemoryStore.  *)
(* A store method that takes the mutex once is atomic; a handler, or a     *)
(* method, that makes several such calls is one action per call, and the   *)
(* other requests run in between.  `richieste` holds the handlers that     *)
(* are between two calls, and what they will do next.                      *)
(*                                                                         *)
(* A pratica is one entry of the map s.pratiche: a function whose domain   *)
(* is the set of stored ids.  Ids and document ids are uuids, never given  *)
(* twice.  A refused operation changes nothing and is not an action.       *)
(***************************************************************************)
EXTENDS PraticaDoc, Mappe

CONSTANTS PraticaId,   \* uuids of pratiche
          Richieste,   \* handlers that can be between two calls at one time
          MaxEventi,   \* bound: no handler starts on a longer timeline
          MaxContorno  \* bound: no note or assignment starts on a longer one

VARIABLES pratiche,    \* s.pratiche
          generati,    \* pratica ids already given
          caricati,    \* document ids already given
          richieste    \* handler -> [passo, id, arg], when between two calls

vars == <<pratiche, generati, caricati, richieste>>

\* What a suspended handler will do with its next call.
Passi == {"submit_change", "richiedi_change", "richiedi_nota",
          "elimina_documento", "invia_completata"}

Sospesa == [passo : Passi,
            id    : PraticaId,
            arg   : Documenti \cup {Vuoto}]   \* the file, when there is one

TypeOK ==
  /\ DOMAIN pratiche \subseteq generati
  /\ generati \subseteq PraticaId
  /\ pratiche \in [DOMAIN pratiche -> Pratica]
  /\ caricati \subseteq Documenti
  /\ DOMAIN richieste \subseteq Richieste
  /\ richieste \in [DOMAIN richieste -> Sospesa]

Init ==
  /\ pratiche = << >>
  /\ generati = {}
  /\ caricati = {}
  /\ richieste = << >>

Esiste(id) == id \in DOMAIN pratiche

\* Bounds the timeline, at the start of a handler only: one that has
\* started always reaches its end.
Inizia(id) == Esiste(id) /\ Len(pratiche[id].eventi) < MaxEventi

IniziaContorno(id) == Inizia(id) /\ Len(pratiche[id].eventi) < MaxContorno

Scrivi(id, p) == pratiche' = [pratiche EXCEPT ![id] = p]

Sospendi(r, passo, id, arg) ==
  richieste' = Con(richieste, r, [passo |-> passo, id |-> id, arg |-> arg])

Finisci(r) == richieste' = Senza(richieste, r)

Libera(r) == r \notin DOMAIN richieste

Attende(r, passo) == r \in DOMAIN richieste /\ richieste[r].passo = passo

-----------------------------------------------------------------------------
(* Handlers made of one store call.                                        *)

CreatePratica(id, u, d) ==
  /\ id \notin generati
  /\ generati' = generati \cup {id}
  /\ pratiche' = Con(pratiche, id, NuovaPratica(u, d))
  /\ UNCHANGED <<caricati, richieste>>

UpdatePraticaAsDraft(id, u, d) ==
  /\ Esiste(id)
  /\ BozzaDi(pratiche[id], u)
  /\ Scrivi(id, ConDati(pratiche[id], d))
  /\ UNCHANGED <<generati, caricati, richieste>>

DeletePraticaAsDraft(id, u) ==
  /\ Esiste(id)
  /\ BozzaDi(pratiche[id], u)
  /\ pratiche' = Senza(pratiche, id)
  /\ UNCHANGED <<generati, caricati, richieste>>

\* The back office asks for any state; the table decides.
ChangePraticaState(id, next) ==
  /\ Inizia(id)
  /\ Transizione(pratiche[id], next)
  /\ Scrivi(id, ConStato(pratiche[id], next))
  /\ UNCHANGED <<generati, caricati, richieste>>

AssignOperatore(id, o) ==
  /\ IniziaContorno(id)
  /\ Scrivi(id, ConOperatore(pratiche[id], o))
  /\ UNCHANGED <<generati, caricati, richieste>>

AddNota(id) ==
  /\ IniziaContorno(id)
  /\ Scrivi(id, ConNota(pratiche[id]))
  /\ UNCHANGED <<generati, caricati, richieste>>

\* The handler's GetPratica only checks the owner, which never changes; the
\* store looks for the pratica again, and not at its state.
AddDocumento(id, d) ==
  /\ Esiste(id)
  /\ d \notin caricati
  /\ caricati' = caricati \cup {d}
  /\ Scrivi(id, ConDocumento(pratiche[id], d))
  /\ UNCHANGED <<generati, richieste>>

\* The back office deletes a file in any state.
DeleteDocumento(id, d) ==
  /\ Esiste(id)
  /\ d \in pratiche[id].documenti
  /\ Scrivi(id, SenzaDocumento(pratiche[id], d))
  /\ UNCHANGED <<generati, caricati, richieste>>

-----------------------------------------------------------------------------
(* Handlers made of several store calls.                                   *)

\* SubmitPratica: GetPratica and the check, without the lock ...
SubmitGet(r, id, u) ==
  /\ Libera(r)
  /\ Inizia(id)
  /\ BozzaDi(pratiche[id], u)
  /\ Sospendi(r, "submit_change", id, Vuoto)
  /\ UNCHANGED <<pratiche, generati, caricati>>

\* Mutant: the check made before the lock is trusted after it.
SubmitChangeSenzaTabella(r) ==
  /\ Attende(r, "submit_change")
  /\ LET id == richieste[r].id IN
       IF Esiste(id)
       THEN Scrivi(id, ConStato(pratiche[id], "INVIATA"))
       ELSE UNCHANGED pratiche
  /\ Finisci(r)
  /\ UNCHANGED <<generati, caricati>>

\* ... then ChangePraticaState, which looks at the table again.
SubmitChange(r) ==
  /\ Attende(r, "submit_change")
  /\ LET id == richieste[r].id IN
       IF Esiste(id) /\ Transizione(pratiche[id], "INVIATA")
       THEN Scrivi(id, ConStato(pratiche[id], "INVIATA"))
       ELSE UNCHANGED pratiche
  /\ Finisci(r)
  /\ UNCHANGED <<generati, caricati>>

RichiediGet(r, id) ==
  /\ Libera(r)
  /\ Inizia(id)
  /\ Richiedibile(pratiche[id])
  /\ Sospendi(r, "richiedi_change", id, Vuoto)
  /\ UNCHANGED <<pratiche, generati, caricati>>

RichiediChange(r) ==
  /\ Attende(r, "richiedi_change")
  /\ LET id == richieste[r].id IN
       IF Esiste(id) /\ Transizione(pratiche[id], "INTEGRAZIONE_RICHIESTA")
       THEN /\ Scrivi(id, ConStato(pratiche[id], "INTEGRAZIONE_RICHIESTA"))
            /\ Sospendi(r, "richiedi_nota", id, Vuoto)
       ELSE /\ UNCHANGED pratiche
            /\ Finisci(r)
  /\ UNCHANGED <<generati, caricati>>

RichiediNota(r) ==
  /\ Attende(r, "richiedi_nota")
  /\ LET id == richieste[r].id IN
       IF Esiste(id)
       THEN Scrivi(id, ConNota(pratiche[id]))
       ELSE UNCHANGED pratiche
  /\ Finisci(r)
  /\ UNCHANGED <<generati, caricati>>

\* The applicant's handler checks BOZZA on the pratica it read ...
EliminaDocumentoGet(r, id, u, d) ==
  /\ Libera(r)
  /\ Esiste(id)
  /\ BozzaDi(pratiche[id], u)
  /\ d \in caricati
  /\ Sospendi(r, "elimina_documento", id, d)
  /\ UNCHANGED <<pratiche, generati, caricati>>

\* ... and the store does not look at the state.
EliminaDocumentoStore(r) ==
  /\ Attende(r, "elimina_documento")
  /\ LET id == richieste[r].id IN
       IF Esiste(id)
       THEN Scrivi(id, SenzaDocumento(pratiche[id], richieste[r].arg))
       ELSE UNCHANGED pratiche
  /\ Finisci(r)
  /\ UNCHANGED <<generati, caricati>>

InviaVistoEmesso(r, id) ==
  /\ Libera(r)
  /\ Inizia(id)
  /\ Transizione(pratiche[id], "VISTO_EMESSO")
  /\ Scrivi(id, ConStato(pratiche[id], "VISTO_EMESSO"))
  /\ Sospendi(r, "invia_completata", id, Vuoto)
  /\ UNCHANGED <<generati, caricati>>

\* The result of the second change is ignored.
InviaVistoCompletata(r) ==
  /\ Attende(r, "invia_completata")
  /\ LET id == richieste[r].id IN
       IF Esiste(id) /\ Transizione(pratiche[id], "COMPLETATA")
       THEN Scrivi(id, ConStato(pratiche[id], "COMPLETATA"))
       ELSE UNCHANGED pratiche
  /\ Finisci(r)
  /\ UNCHANGED <<generati, caricati>>

-----------------------------------------------------------------------------

\* The next call of a handler that has started.
Prosegue(r) ==
  \/ SubmitChange(r)
  \/ RichiediChange(r)
  \/ RichiediNota(r)
  \/ EliminaDocumentoStore(r)
  \/ InviaVistoCompletata(r)

Next ==
  \/ \E id \in PraticaId, u \in Utenti :
       \/ \E d \in Dati : CreatePratica(id, u, d)
       \/ \E d \in Dati : UpdatePraticaAsDraft(id, u, d)
       \/ DeletePraticaAsDraft(id, u)
       \/ \E r \in Richieste : SubmitGet(r, id, u)
       \/ \E r \in Richieste, d \in Documenti : EliminaDocumentoGet(r, id, u, d)
  \/ \E id \in PraticaId :
       \/ \E next \in StatoPratica : ChangePraticaState(id, next)
       \/ \E o \in Operatori : AssignOperatore(id, o)
       \/ AddNota(id)
       \/ \E d \in Documenti : AddDocumento(id, d)
       \/ \E d \in Documenti : DeleteDocumento(id, d)
       \/ \E r \in Richieste : RichiediGet(r, id)
       \/ \E r \in Richieste : InviaVistoEmesso(r, id)
  \/ \E r \in Richieste : Prosegue(r)

Spec == Init /\ [][Next]_vars

\* A handler goroutine that has started is scheduled until it returns.
FairSpec == Spec /\ \A r \in Richieste : WF_vars(Prosegue(r))

-----------------------------------------------------------------------------
(* Properties.                                                             *)

\* Whatever the interleaving of the handlers, the timeline of every pratica
\* explains its state, its dates and its milestones: no change starts from
\* a state other than the one reached, none is outside the table, and a
\* pratica that is paid, issued or completed was submitted (once), approved
\* and paid for.  Two handlers may both have passed their first check.
PraticheCoerenti == \A id \in DOMAIN pratiche : Coerente(pratiche[id])

\* The handlers, with their checks and their calls spread over time,
\* implement the life cycle: append-only timelines, moves along the table,
\* only drafts disappear, and an id is never used again.
Ciclo == INSTANCE CicloVita WITH
           stato  <- [id \in DOMAIN pratiche |-> pratiche[id].stato],
           eventi <- [id \in DOMAIN pratiche |-> pratiche[id].eventi]

ImplementaCicloVita == Ciclo!Spec

\* When the back office sends the visa (first of the two changes of
\* handleBOInviaVisto), the pratica is eventually COMPLETATA, although the
\* result of the second change is ignored and others may move the pratica
\* in between.
VistoInviatoSiCompleta ==
  \A r \in Richieste, id \in PraticaId :
    (Attende(r, "invia_completata") /\ richieste[r].id = id)
      ~> (Esiste(id) /\ pratiche[id].stato = "COMPLETATA")

=============================================================================
