--------------------------- MODULE PraticaMongo_proofs ---------------------------
(***************************************************************************)
(* For any number of pratiche, users, files and concurrent handlers, and   *)
(* any bound on the timelines: read-modify-write over MongoStore may lose  *)
(* updates, but every document stored, and every document a handler is     *)
(* about to store, is consistent; and a deleted draft stays deleted.  As   *)
(* long as no two handlers are at work on the same pratica, no update is   *)
(* lost: they implement the life cycle of CicloVita.                       *)
(***************************************************************************)
EXTENDS PraticaMongo, PraticaDoc_proofs

-----------------------------------------------------------------------------
(* The documents: in the collection, and in the hands of the handlers.     *)

DocumentiBuoni(m) ==
  /\ m \in [DOMAIN m -> Pratica]
  /\ \A k \in DOMAIN m : Coerente(m[k])

LEMMA AggiungiBuono ==
  ASSUME NEW m, DocumentiBuoni(m), NEW k, NEW p \in Pratica, Coerente(p)
  PROVE  DocumentiBuoni(Con(m, k, p)) /\ DOMAIN Con(m, k, p) = DOMAIN m \cup {k}
<1>1. Con(m, k, p) \in [DOMAIN Con(m, k, p) -> Pratica]
  BY MappaConTipo DEF DocumentiBuoni
<1>2. /\ DOMAIN Con(m, k, p) = DOMAIN m \cup {k}
      /\ Con(m, k, p)[k] = p
      /\ \A x \in DOMAIN m : x # k => Con(m, k, p)[x] = m[x]
  BY DEF Con
<1> QED BY <1>1, <1>2 DEF DocumentiBuoni

LEMMA TogliBuono ==
  ASSUME NEW m, DocumentiBuoni(m), NEW k
  PROVE  DocumentiBuoni(Senza(m, k)) /\ DOMAIN Senza(m, k) = DOMAIN m \ {k}
<1>1. /\ DOMAIN Senza(m, k) = DOMAIN m \ {k}
      /\ \A x \in DOMAIN m : x # k => Senza(m, k)[x] = m[x]
  BY MappaSenza
<1>2. Senza(m, k) \in [DOMAIN Senza(m, k) -> Pratica]
  BY MappaSenzaTipo DEF DocumentiBuoni
<1> QED BY <1>1, <1>2 DEF DocumentiBuoni

LEMMA SostituisciBuono ==
  ASSUME NEW m, DocumentiBuoni(m), NEW k, NEW p \in Pratica, Coerente(p)
  PROVE  /\ DocumentiBuoni([m EXCEPT ![k] = p])
         /\ DOMAIN [m EXCEPT ![k] = p] = DOMAIN m
BY DEF DocumentiBuoni

-----------------------------------------------------------------------------
(* The handlers: exactly those about to write hold a document.             *)

ArrivatiAReplace(m) == {r \in DOMAIN m : m[r].passo = "replace"}

HandlerBuoni ==
  /\ DOMAIN richieste \subseteq Richieste
  /\ richieste \in [DOMAIN richieste -> InVolo]
  /\ DOMAIN lette = ArrivatiAReplace(richieste)
  /\ DocumentiBuoni(lette)

\* What a new entry does to the set of those about to write.
LEMMA EntraInAttesa ==
  ASSUME HandlerBuoni, NEW r \in Richieste, NEW l \in InVolo,
         richieste' = Con(richieste, r, l)
  PROVE  /\ DOMAIN richieste' \subseteq Richieste
         /\ richieste' \in [DOMAIN richieste' -> InVolo]
         /\ ArrivatiAReplace(richieste') =
              IF l.passo = "replace" THEN ArrivatiAReplace(richieste) \cup {r}
                                     ELSE ArrivatiAReplace(richieste) \ {r}
<1>1. /\ DOMAIN richieste' = DOMAIN richieste \cup {r}
      /\ richieste'[r] = l
      /\ \A x \in DOMAIN richieste : x # r => richieste'[x] = richieste[x]
  BY DEF Con
<1>2. richieste' \in [DOMAIN richieste' -> InVolo]
  BY MappaConTipo DEF HandlerBuoni
<1> QED BY <1>1, <1>2 DEF HandlerBuoni, ArrivatiAReplace

LEMMA AspettaBuona ==
  ASSUME HandlerBuoni, NEW r \in Richieste, NEW passo \in Passi, passo # "replace",
         NEW id \in PraticaId, NEW arg \in Documenti \cup {Vuoto},
         Aspetta(r, passo, id, arg)
  PROVE  HandlerBuoni'
<1> DEFINE l == [passo |-> passo, id |-> id, arg |-> arg, poi |-> "fine"]
<1>1. l \in InVolo /\ l.passo # "replace"
  BY DEF InVolo, Seguiti
<1>2. richieste' = Con(richieste, r, l) /\ lette' = Senza(lette, r)
  BY DEF Aspetta
<1> HIDE DEF l
<1>3. DocumentiBuoni(lette') /\ DOMAIN lette' = DOMAIN lette \ {r}
  BY <1>2, TogliBuono DEF HandlerBuoni
<1> QED BY <1>1, <1>2, <1>3, EntraInAttesa DEF HandlerBuoni

LEMMA PreparaBuona ==
  ASSUME HandlerBuoni, NEW r \in Richieste, NEW id \in PraticaId,
         NEW p \in Pratica, Coerente(p), NEW poi \in Seguiti,
         Prepara(r, id, p, poi)
  PROVE  HandlerBuoni'
<1> DEFINE l == [passo |-> "replace", id |-> id, arg |-> Vuoto, poi |-> poi]
<1>1. l \in InVolo /\ l.passo = "replace"
  BY DEF InVolo, Passi
<1>2. richieste' = Con(richieste, r, l) /\ lette' = Con(lette, r, p)
  BY DEF Prepara
<1> HIDE DEF l
<1>3. DocumentiBuoni(lette') /\ DOMAIN lette' = DOMAIN lette \cup {r}
  BY <1>2, AggiungiBuono DEF HandlerBuoni
<1> QED BY <1>1, <1>2, <1>3, EntraInAttesa DEF HandlerBuoni

LEMMA FinisciBuona ==
  ASSUME HandlerBuoni, NEW r, Finisci(r)
  PROVE  HandlerBuoni'
<1>1. /\ DOMAIN richieste' = DOMAIN richieste \ {r}
      /\ \A x \in DOMAIN richieste : x # r => richieste'[x] = richieste[x]
  BY MappaSenza DEF Finisci
<1>2. richieste' \in [DOMAIN richieste' -> InVolo]
  BY MappaSenzaTipo DEF HandlerBuoni, Finisci
<1>3. DocumentiBuoni(lette') /\ DOMAIN lette' = DOMAIN lette \ {r}
  BY TogliBuono DEF HandlerBuoni, Finisci
<1> QED BY <1>1, <1>2, <1>3 DEF HandlerBuoni, ArrivatiAReplace

-----------------------------------------------------------------------------
(* The invariant.  DocumentiCoerenti alone is not inductive over what is   *)
(* stored: the ReplaceOne of a handler in flight stores what the handler   *)
(* read some time ago, so what the handlers hold is part of it.            *)

Inv ==
  /\ DocumentiBuoni(pratiche)
  /\ HandlerBuoni
  /\ DOMAIN pratiche \subseteq generati
  /\ generati \subseteq PraticaId
  /\ caricati \subseteq Documenti

LEMMA InvIniziale == Init => Inv
BY DEF Init, Inv, DocumentiBuoni, HandlerBuoni, ArrivatiAReplace

\* The handlers' steps that only read leave the collection as it is.
LEMMA SoloLettura ==
  ASSUME Inv, UNCHANGED <<pratiche, generati>>, caricati' \subseteq Documenti, HandlerBuoni'
  PROVE  Inv'
BY DEF Inv

LEMMA CambiaBuona ==
  ASSUME Inv, NEW r \in Richieste, NEW passo, NEW next, NEW poi \in Seguiti,
         CambiaFind(r, passo, next, poi)
  PROVE  Inv'
<1> DEFINE id == richieste[r].id
<1>1. HandlerBuoni /\ DocumentiBuoni(pratiche) /\ caricati' \subseteq Documenti
  BY DEF Inv, CambiaFind
<1>2. id \in PraticaId
  BY <1>1 DEF CambiaFind, Attende, HandlerBuoni, InVolo
<1>3. CASE Esiste(id) /\ Transizione(pratiche[id], next)
  <2>1. ConStato(pratiche[id], next) \in Pratica /\ Coerente(ConStato(pratiche[id], next))
    BY <1>1, <1>3, ConStatoCorretta DEF DocumentiBuoni, Esiste
  <2>2. Prepara(r, id, ConStato(pratiche[id], next), poi)
    BY <1>3 DEF CambiaFind
  <2>3. HandlerBuoni'
    BY <1>1, <1>2, <2>1, <2>2, PreparaBuona
  <2> QED BY <1>1, <2>3, SoloLettura DEF CambiaFind
<1>4. CASE ~(Esiste(id) /\ Transizione(pratiche[id], next))
  <2>1. Finisci(r)
    BY <1>4 DEF CambiaFind
  <2> QED BY <1>1, <2>1, FinisciBuona, SoloLettura DEF CambiaFind
<1> QED BY <1>3, <1>4

\* A handler that starts by reading a document holds what it computed from it.
LEMMA IniziaBuona ==
  ASSUME Inv, NEW r \in Richieste, NEW id \in PraticaId, NEW p \in Pratica, Coerente(p),
         NEW poi \in Seguiti, Prepara(r, id, p, poi),
         UNCHANGED <<pratiche, generati>>, caricati' \subseteq Documenti
  PROVE  Inv'
<1>1. HandlerBuoni'
  BY PreparaBuona DEF Inv
<1> QED BY <1>1, SoloLettura

LEMMA InvPasso == Inv /\ [Next]_vars => Inv'
<1> SUFFICES ASSUME Inv, [Next]_vars
             PROVE  Inv'
  OBVIOUS
<1>0. /\ DocumentiBuoni(pratiche) /\ HandlerBuoni
      /\ DOMAIN pratiche \subseteq generati /\ generati \subseteq PraticaId
      /\ caricati \subseteq Documenti
      /\ \A id \in DOMAIN pratiche : pratiche[id] \in Pratica /\ Coerente(pratiche[id])
      /\ \A r \in DOMAIN richieste : richieste[r] \in InVolo
      /\ \A r \in DOMAIN lette : lette[r] \in Pratica /\ Coerente(lette[r])
      /\ "fine" \in Seguiti /\ "find_nota" \in Seguiti /\ "find_completata" \in Seguiti
  BY DEF Inv, DocumentiBuoni, HandlerBuoni, Seguiti
<1>1. ASSUME NEW id \in PraticaId, NEW u \in Utenti, NEW d \in Dati,
             CreatePratica(id, u, d)
      PROVE  Inv'
  <2>1. DocumentiBuoni(pratiche') /\ DOMAIN pratiche' = DOMAIN pratiche \cup {id}
    BY <1>0, <1>1, NuovaPraticaCorretta, AggiungiBuono DEF CreatePratica
  <2> QED BY <1>0, <1>1, <2>1 DEF Inv, CreatePratica, HandlerBuoni
<1>2. ASSUME NEW id \in PraticaId, NEW u \in Utenti, DeletePraticaAsDraft(id, u)
      PROVE  Inv'
  <2>1. DocumentiBuoni(pratiche') /\ DOMAIN pratiche' = DOMAIN pratiche \ {id}
    BY <1>0, <1>2, TogliBuono DEF DeletePraticaAsDraft
  <2> QED BY <1>0, <1>2, <2>1 DEF Inv, DeletePraticaAsDraft, HandlerBuoni
<1>3. ASSUME NEW id \in PraticaId, NEW u \in Utenti, NEW r \in Richieste, NEW d \in Dati,
             PatchFind(r, id, u, d)
      PROVE  Inv'
  BY <1>0, <1>3, ConDatiCorretta, IniziaBuona DEF PatchFind, Inizia, Esiste
<1>4. ASSUME NEW id \in PraticaId, NEW r \in Richieste, NEW next \in StatoPratica,
             ChangeStatoFind(r, id, next)
      PROVE  Inv'
  BY <1>0, <1>4, ConStatoCorretta, IniziaBuona DEF ChangeStatoFind, Inizia, Esiste
<1>5. ASSUME NEW id \in PraticaId, NEW r \in Richieste, NEW o \in Operatori,
             AssegnaFind(r, id, o)
      PROVE  Inv'
  BY <1>0, <1>5, ConOperatoreCorretta, IniziaBuona DEF AssegnaFind, Inizia, Esiste
<1>6. ASSUME NEW id \in PraticaId, NEW r \in Richieste, NotaFind(r, id)
      PROVE  Inv'
  BY <1>0, <1>6, ConNotaCorretta, IniziaBuona DEF NotaFind, Inizia, Esiste
<1>7. ASSUME NEW id \in PraticaId, NEW r \in Richieste, NEW d \in Documenti,
             AddDocumentoFind(r, id, d)
      PROVE  Inv'
  <2>1. caricati' \subseteq Documenti
    BY <1>0, <1>7 DEF AddDocumentoFind
  <2> QED BY <1>0, <1>7, <2>1, ConDocumentoCorretta, IniziaBuona
          DEF AddDocumentoFind, Inizia, Esiste
<1>8. ASSUME NEW id \in PraticaId, NEW r \in Richieste, NEW d \in Documenti,
             DeleteDocumentoFind(r, id, d)
      PROVE  Inv'
  BY <1>0, <1>8, SenzaDocumentoCorretta, IniziaBuona DEF DeleteDocumentoFind, Inizia, Esiste
<1>9. ASSUME NEW id \in PraticaId, NEW r \in Richieste, InviaVistoFind(r, id)
      PROVE  Inv'
  BY <1>0, <1>9, ConStatoCorretta, IniziaBuona DEF InviaVistoFind, Inizia, Esiste
<1>10. ASSUME NEW id \in PraticaId, NEW u \in Utenti, NEW r \in Richieste,
              SubmitGet(r, id, u)
       PROVE  Inv'
  BY <1>0, <1>10, AspettaBuona, SoloLettura DEF SubmitGet, Passi
<1>11. ASSUME NEW id \in PraticaId, NEW r \in Richieste, RichiediGet(r, id)
       PROVE  Inv'
  BY <1>0, <1>11, AspettaBuona, SoloLettura DEF RichiediGet, Passi
<1>12. ASSUME NEW id \in PraticaId, NEW u \in Utenti, NEW r \in Richieste,
              NEW d \in Documenti, EliminaDocumentoGet(r, id, u, d)
       PROVE  Inv'
  BY <1>0, <1>12, AspettaBuona, SoloLettura DEF EliminaDocumentoGet, Passi
<1>13. ASSUME NEW r \in Richieste, SubmitFind(r)
       PROVE  Inv'
  BY <1>0, <1>13, CambiaBuona DEF SubmitFind
<1>14. ASSUME NEW r \in Richieste, RichiediFind(r)
       PROVE  Inv'
  BY <1>0, <1>14, CambiaBuona DEF RichiediFind
<1>15. ASSUME NEW r \in Richieste, InviaVistoCompletata(r)
       PROVE  Inv'
  BY <1>0, <1>15, CambiaBuona DEF InviaVistoCompletata
<1>16. ASSUME NEW r \in Richieste, RichiediNotaFind(r)
       PROVE  Inv'
  <2> DEFINE id == richieste[r].id
  <2>1. id \in PraticaId
    BY <1>0, <1>16 DEF RichiediNotaFind, Attende, InVolo
  <2>2. CASE Esiste(id)
    BY <1>0, <1>16, <2>1, <2>2, ConNotaCorretta, IniziaBuona DEF RichiediNotaFind, Esiste
  <2>3. CASE ~Esiste(id)
    BY <1>0, <1>16, <2>3, FinisciBuona, SoloLettura DEF RichiediNotaFind
  <2> QED BY <2>2, <2>3
<1>17. ASSUME NEW r \in Richieste, EliminaDocumentoFind(r)
       PROVE  Inv'
  <2> DEFINE id == richieste[r].id
             d  == richieste[r].arg
  <2>1. id \in PraticaId
    BY <1>0, <1>17 DEF EliminaDocumentoFind, Attende, InVolo
  <2>2. CASE Esiste(id) /\ d \in pratiche[id].documenti
    BY <1>0, <1>17, <2>1, <2>2, SenzaDocumentoCorretta, IniziaBuona
       DEF EliminaDocumentoFind, Esiste
  <2>3. CASE ~(Esiste(id) /\ d \in pratiche[id].documenti)
    BY <1>0, <1>17, <2>3, FinisciBuona, SoloLettura DEF EliminaDocumentoFind
  <2> QED BY <2>2, <2>3
<1>18. ASSUME NEW r \in Richieste, ReplaceOne(r)
       PROVE  Inv'
  <2> DEFINE id  == richieste[r].id
             poi == richieste[r].poi
  <2>1. /\ r \in DOMAIN lette /\ id \in PraticaId /\ poi \in Seguiti
        /\ UNCHANGED <<generati, caricati>>
    BY <1>0, <1>18 DEF ReplaceOne, Attende, InVolo, HandlerBuoni, ArrivatiAReplace
  <2>2. pratiche' = IF Esiste(id) THEN [pratiche EXCEPT ![id] = lette[r]] ELSE pratiche
    BY <1>18 DEF ReplaceOne
  <2>3. DocumentiBuoni(pratiche') /\ DOMAIN pratiche' = DOMAIN pratiche
    BY <1>0, <2>1, <2>2, SostituisciBuono
  <2>4. HandlerBuoni'
    <3>1. CASE poi = "fine"
      BY <1>0, <1>18, <3>1, FinisciBuona DEF ReplaceOne
    <3>2. CASE poi # "fine"
      <4>1. Aspetta(r, poi, id, Vuoto)
        BY <1>18, <3>2 DEF ReplaceOne
      <4>2. poi \in Passi /\ poi # "replace"
        BY <2>1, <3>2 DEF Seguiti, Passi
      <4> QED BY <1>0, <2>1, <4>1, <4>2, AspettaBuona
    <3> QED BY <3>1, <3>2
  <2> QED BY <1>0, <2>1, <2>3, <2>4 DEF Inv
<1>19. ASSUME NEW r \in Richieste, Cade(r)
       PROVE  Inv'
  BY <1>0, <1>19, FinisciBuona, SoloLettura DEF Cade
<1>20. CASE UNCHANGED vars
  BY <1>0, <1>20 DEF Inv, vars, HandlerBuoni
<1> QED
  BY <1>1, <1>2, <1>3, <1>4, <1>5, <1>6, <1>7, <1>8, <1>9, <1>10, <1>11, <1>12, <1>13,
     <1>14, <1>15, <1>16, <1>17, <1>18, <1>19, <1>20
     DEF Next, Richiedente, Backoffice, Prosegue

\* The types, for every value of the constants.
THEOREM TipiMongo == Spec => []TypeOK
<1>1. Inv => TypeOK
  BY DEF Inv, TypeOK, DocumentiBuoni, HandlerBuoni, ArrivatiAReplace
<1> QED BY <1>1, InvIniziale, InvPasso, PTL DEF Spec

\* However many requests, in however many processes, read a document and
\* write it whole, and wherever they crash: what is stored is at any time
\* one consistent history.
THEOREM CoerenzaMongo == Spec => []DocumentiCoerenti
<1>1. Inv => DocumentiCoerenti
  BY DEF Inv, DocumentiCoerenti, DocumentiBuoni, HandlerBuoni
<1> QED BY <1>1, InvIniziale, InvPasso, PTL DEF Spec

-----------------------------------------------------------------------------

Resta == \A id \in generati : id \notin DOMAIN pratiche => id \notin DOMAIN pratiche'

\* Only an insertion, under a new id, adds to the collection.
LEMMA RestaPasso == Inv /\ [Next]_vars => [Resta]_vars
<1> SUFFICES ASSUME Inv, [Next]_vars
             PROVE  Resta
  OBVIOUS
<1>1. ASSUME NEW id \in PraticaId, NEW u \in Utenti, NEW d \in Dati,
             CreatePratica(id, u, d)
      PROVE  Resta
  <2>1. DOMAIN pratiche' = DOMAIN pratiche \cup {id} /\ id \notin generati
    BY <1>1, MappaCon DEF CreatePratica
  <2> QED BY <2>1 DEF Resta
<1>2. ASSUME NEW id \in PraticaId, NEW u \in Utenti, DeletePraticaAsDraft(id, u)
      PROVE  Resta
  <2>1. DOMAIN pratiche' \subseteq DOMAIN pratiche
    BY <1>2, MappaSenza DEF DeletePraticaAsDraft
  <2> QED BY <2>1 DEF Resta
<1>3. ASSUME NEW r \in Richieste, ReplaceOne(r)
      PROVE  Resta
  <2>1. DOMAIN pratiche' = DOMAIN pratiche
    BY <1>3 DEF ReplaceOne
  <2> QED BY <2>1 DEF Resta
<1>4. CASE UNCHANGED pratiche
  BY <1>4 DEF Resta
<1> QED
  BY <1>1, <1>2, <1>3, <1>4
     DEF Next, Richiedente, Backoffice, Prosegue, vars, PatchFind, SubmitGet,
         EliminaDocumentoGet, ChangeStatoFind, AssegnaFind, NotaFind, AddDocumentoFind,
         DeleteDocumentoFind, RichiediGet, InviaVistoFind, SubmitFind, RichiediFind,
         RichiediNotaFind, InviaVistoCompletata, EliminaDocumentoFind, CambiaFind, Cade

\* A deleted draft stays deleted, although handlers that read it before may
\* still have to write it.
THEOREM EliminataRestaMongo == Spec => EliminataResta
<1> QED BY InvIniziale, InvPasso, RestaPasso, PTL DEF Spec, EliminataResta, Resta

-----------------------------------------------------------------------------
(* When no two handlers in flight are on the same pratica (one handler at  *)
(* a time is the smallest case), MongoStore implements the life cycle.     *)
(* The invariant says how far a handler is from what is stored: by one     *)
(* move of the life cycle.                                                 *)

Stati == [id \in DOMAIN pratiche |-> pratiche[id].stato]
Storie == [id \in DOMAIN pratiche |-> pratiche[id].eventi]

Ciclo == INSTANCE CicloVita WITH stato <- Stati, eventi <- Storie

Esclusivi ==
  \A r, q \in DOMAIN richieste : richieste[r].id = richieste[q].id => r = q

\* The three moves of the life cycle from p to q, the invisible one first.
Invisibile(p, q) == q.stato = p.stato /\ q.eventi = p.eventi

Avanzata(p, q, next) ==
  /\ Transizione(p, next)
  /\ q.stato = next
  /\ q.eventi = Append(p.eventi, Evento("STATO_CAMBIATO", p.stato, next))

Annotata(p, q, tipo) ==
  /\ q.stato = p.stato
  /\ q.eventi = Append(p.eventi, Evento(tipo, Vuoto, Vuoto))

UnaMossa(p, q) ==
  \/ Invisibile(p, q)
  \/ \E next : Avanzata(p, q, next)
  \/ \E tipo \in {"ASSEGNAZIONE_OPERATORE", "NOTA_AGGIUNTA"} : Annotata(p, q, tipo)

\* The handlers ri are on pratiche that were created, and each document le
\* holds is one move ahead of the stored one, if there still is one.
Avanti(ge, pr, ri, le) ==
  /\ \A r \in DOMAIN ri : ri[r].id \in ge
  /\ \A r \in DOMAIN le : ri[r].id \in DOMAIN pr => UnaMossa(pr[ri[r].id], le[r])

Avanzati == Avanti(generati, pratiche, richieste, lette)

LEMMA MosseDocumento ==
  ASSUME NEW p \in Pratica
  PROVE  /\ \A d : UnaMossa(p, ConDati(p, d))
         /\ \A d : UnaMossa(p, ConDocumento(p, d))
         /\ \A d : UnaMossa(p, SenzaDocumento(p, d))
         /\ \A o : UnaMossa(p, ConOperatore(p, o))
         /\ UnaMossa(p, ConNota(p))
         /\ \A next : Transizione(p, next) => UnaMossa(p, ConStato(p, next))
<1>1. ASSUME NEW d PROVE Invisibile(p, ConDati(p, d))
  BY DEF ConDati, Pratica, Invisibile
<1>2. ASSUME NEW d PROVE Invisibile(p, ConDocumento(p, d))
  BY DEF ConDocumento, Pratica, Invisibile
<1>3. ASSUME NEW d PROVE Invisibile(p, SenzaDocumento(p, d))
  BY DEF SenzaDocumento, Pratica, Invisibile
<1>4. ASSUME NEW o PROVE Annotata(p, ConOperatore(p, o), "ASSEGNAZIONE_OPERATORE")
  BY DEF ConOperatore, Pratica, Annotata
<1>5. Annotata(p, ConNota(p), "NOTA_AGGIUNTA")
  BY DEF ConNota, Pratica, Annotata
<1>6. ASSUME NEW next, Transizione(p, next) PROVE Avanzata(p, ConStato(p, next), next)
  BY <1>6 DEF ConStato, Pratica, Avanzata
<1> QED BY <1>1, <1>2, <1>3, <1>4, <1>5, <1>6, Zenon DEF UnaMossa

\* A handler that computed its document from what is stored is one move ahead.
LEMMA PreparaAvanti ==
  ASSUME Avanzati, NEW r, NEW id \in DOMAIN pratiche, id \in generati,
         NEW p, UnaMossa(pratiche[id], p), NEW poi, Prepara(r, id, p, poi),
         DOMAIN lette \subseteq DOMAIN richieste, UNCHANGED <<pratiche, generati>>
  PROVE  Avanzati'
<1> DEFINE l == [passo |-> "replace", id |-> id, arg |-> Vuoto, poi |-> poi]
<1>1. l.id = id
  OBVIOUS
<1>2. richieste' = Con(richieste, r, l) /\ lette' = Con(lette, r, p)
  BY DEF Prepara
<1> HIDE DEF l
<1>3. /\ DOMAIN richieste' = DOMAIN richieste \cup {r} /\ richieste'[r].id = id
      /\ \A x \in DOMAIN richieste : x # r => richieste'[x] = richieste[x]
  BY <1>1, <1>2 DEF Con
<1>4. /\ DOMAIN lette' = DOMAIN lette \cup {r} /\ lette'[r] = p
      /\ \A x \in DOMAIN lette : x # r => lette'[x] = lette[x]
  BY <1>2 DEF Con
<1> QED BY <1>3, <1>4 DEF Avanzati, Avanti

\* A handler that waits, or stops, holds nothing any more.
LEMMA AspettaAvanti ==
  ASSUME NEW r, NEW pr, Avanti(generati, pr, richieste, Senza(lette, r)),
         NEW id \in generati, NEW passo, NEW arg, Aspetta(r, passo, id, arg),
         DOMAIN lette \subseteq DOMAIN richieste
  PROVE  Avanti(generati, pr, richieste', lette')
<1> DEFINE l == [passo |-> passo, id |-> id, arg |-> arg, poi |-> "fine"]
<1>1. l.id = id
  OBVIOUS
<1>2. richieste' = Con(richieste, r, l) /\ lette' = Senza(lette, r)
  BY DEF Aspetta
<1> HIDE DEF l
<1>3. /\ DOMAIN richieste' = DOMAIN richieste \cup {r} /\ richieste'[r].id = id
      /\ \A x \in DOMAIN richieste : x # r => richieste'[x] = richieste[x]
  BY <1>1, <1>2 DEF Con
<1>4. DOMAIN lette' = DOMAIN lette \ {r}
  BY <1>2, MappaSenza
<1> QED BY <1>2, <1>3, <1>4 DEF Avanti

LEMMA FinisciAvanti ==
  ASSUME NEW r, NEW pr, Avanti(generati, pr, richieste, Senza(lette, r)), Finisci(r),
         DOMAIN lette \subseteq DOMAIN richieste
  PROVE  Avanti(generati, pr, richieste', lette')
<1>1. lette' = Senza(lette, r)
  BY DEF Finisci
<1>2. /\ DOMAIN richieste' = DOMAIN richieste \ {r}
      /\ \A x \in DOMAIN richieste : x # r => richieste'[x] = richieste[x]
  BY MappaSenza DEF Finisci
<1>3. DOMAIN lette' = DOMAIN lette \ {r}
  BY <1>1, MappaSenza
<1> QED BY <1>1, <1>2, <1>3 DEF Avanti

LEMMA SenzaAvanti ==
  ASSUME Avanzati, NEW r
  PROVE  Avanti(generati, pratiche, richieste, Senza(lette, r))
<1>1. /\ DOMAIN Senza(lette, r) = DOMAIN lette \ {r}
      /\ \A x \in DOMAIN lette : x # r => Senza(lette, r)[x] = lette[x]
  BY MappaSenza
<1> QED BY <1>1 DEF Avanzati, Avanti

\* A ChangePraticaState keeps to the table on what it read last.
LEMMA CambiaAvanti ==
  ASSUME Inv, Avanzati, NEW r, NEW passo, NEW next, NEW poi,
         CambiaFind(r, passo, next, poi)
  PROVE  Avanzati'
<1>0. /\ DOMAIN lette \subseteq DOMAIN richieste
      /\ \A id \in DOMAIN pratiche : pratiche[id] \in Pratica
  BY DEF Inv, HandlerBuoni, ArrivatiAReplace, DocumentiBuoni
<1>1. PICK id : id = richieste[r].id
  OBVIOUS
<1>2. id \in generati /\ UNCHANGED <<pratiche, generati>>
  BY <1>1 DEF CambiaFind, Attende, Avanzati, Avanti
<1>3. CASE Esiste(id) /\ Transizione(pratiche[id], next)
  <2>1. Prepara(r, id, ConStato(pratiche[id], next), poi)
    BY <1>1, <1>3 DEF CambiaFind
  <2> QED BY <1>0, <1>2, <1>3, <2>1, MosseDocumento, PreparaAvanti DEF Esiste
<1>4. CASE ~(Esiste(id) /\ Transizione(pratiche[id], next))
  <2>1. Finisci(r)
    BY <1>1, <1>4 DEF CambiaFind
  <2>2. Avanti(generati, pratiche, richieste', lette')
    BY <1>0, <2>1, SenzaAvanti, FinisciAvanti
  <2> QED BY <1>2, <2>2 DEF Avanzati
<1> QED BY <1>3, <1>4

LEMMA AvanzatiIniziale == Init => Avanzati
BY DEF Init, Avanzati, Avanti

LEMMA AvanzatiPasso == Inv /\ Esclusivi /\ Avanzati /\ [Next]_vars => Avanzati'
<1> SUFFICES ASSUME Inv, Esclusivi, Avanzati, [Next]_vars
             PROVE  Avanzati'
  OBVIOUS
<1>0. /\ DOMAIN lette \subseteq DOMAIN richieste
      /\ DOMAIN pratiche \subseteq generati
      /\ \A id \in DOMAIN pratiche : pratiche[id] \in Pratica
  BY DEF Inv, HandlerBuoni, ArrivatiAReplace, DocumentiBuoni
<1>a. ASSUME NEW r, NEW id, Esiste(id), NEW p, UnaMossa(pratiche[id], p), NEW poi,
             Prepara(r, id, p, poi), UNCHANGED <<pratiche, generati>>
      PROVE  Avanzati'
  BY <1>0, <1>a, PreparaAvanti DEF Esiste
<1>b. ASSUME NEW r, NEW id \in generati, NEW passo, NEW arg, Aspetta(r, passo, id, arg),
             UNCHANGED <<pratiche, generati>>
      PROVE  Avanzati'
  <2>1. Avanti(generati, pratiche, richieste', lette')
    BY <1>0, <1>b, SenzaAvanti, AspettaAvanti
  <2> QED BY <1>b, <2>1 DEF Avanzati
<1>c. ASSUME NEW r, Finisci(r), UNCHANGED <<pratiche, generati>>
      PROVE  Avanzati'
  <2>1. Avanti(generati, pratiche, richieste', lette')
    BY <1>0, <1>c, SenzaAvanti, FinisciAvanti
  <2> QED BY <1>c, <2>1 DEF Avanzati
<1>1. ASSUME NEW id \in PraticaId, NEW u \in Utenti, NEW d \in Dati,
             CreatePratica(id, u, d)
      PROVE  Avanzati'
  <2>1. /\ DOMAIN pratiche' = DOMAIN pratiche \cup {id}
        /\ \A x \in DOMAIN pratiche : x # id => pratiche'[x] = pratiche[x]
    BY <1>1 DEF CreatePratica, Con
  <2> QED BY <1>0, <1>1, <2>1 DEF CreatePratica, Avanzati, Avanti
<1>2. ASSUME NEW id \in PraticaId, NEW u \in Utenti, DeletePraticaAsDraft(id, u)
      PROVE  Avanzati'
  <2>1. /\ DOMAIN pratiche' = DOMAIN pratiche \ {id}
        /\ \A x \in DOMAIN pratiche : x # id => pratiche'[x] = pratiche[x]
    BY <1>2, MappaSenza DEF DeletePraticaAsDraft
  <2> QED BY <1>0, <1>2, <2>1 DEF DeletePraticaAsDraft, Avanzati, Avanti
<1>3. ASSUME NEW id \in PraticaId, NEW u \in Utenti, NEW r \in Richieste, NEW d \in Dati,
             PatchFind(r, id, u, d)
      PROVE  Avanzati'
  BY <1>0, <1>a, <1>3, MosseDocumento DEF PatchFind, Inizia, Esiste
<1>4. ASSUME NEW id \in PraticaId, NEW r \in Richieste, NEW next \in StatoPratica,
             ChangeStatoFind(r, id, next)
      PROVE  Avanzati'
  BY <1>0, <1>a, <1>4, MosseDocumento DEF ChangeStatoFind, Inizia, Esiste
<1>5. ASSUME NEW id \in PraticaId, NEW r \in Richieste, NEW o \in Operatori,
             AssegnaFind(r, id, o)
      PROVE  Avanzati'
  BY <1>0, <1>a, <1>5, MosseDocumento DEF AssegnaFind, Inizia, Esiste
<1>6. ASSUME NEW id \in PraticaId, NEW r \in Richieste, NotaFind(r, id)
      PROVE  Avanzati'
  BY <1>0, <1>a, <1>6, MosseDocumento DEF NotaFind, Inizia, Esiste
<1>7. ASSUME NEW id \in PraticaId, NEW r \in Richieste, NEW d \in Documenti,
             AddDocumentoFind(r, id, d)
      PROVE  Avanzati'
  BY <1>0, <1>a, <1>7, MosseDocumento DEF AddDocumentoFind, Inizia, Esiste
<1>8. ASSUME NEW id \in PraticaId, NEW r \in Richieste, NEW d \in Documenti,
             DeleteDocumentoFind(r, id, d)
      PROVE  Avanzati'
  BY <1>0, <1>a, <1>8, MosseDocumento DEF DeleteDocumentoFind, Inizia, Esiste
<1>9. ASSUME NEW id \in PraticaId, NEW r \in Richieste, InviaVistoFind(r, id)
      PROVE  Avanzati'
  BY <1>0, <1>a, <1>9, MosseDocumento DEF InviaVistoFind, Inizia, Esiste
<1>10. ASSUME NEW id \in PraticaId, NEW u \in Utenti, NEW r \in Richieste,
              SubmitGet(r, id, u)
       PROVE  Avanzati'
  BY <1>0, <1>b, <1>10 DEF SubmitGet, Inizia, Esiste
<1>11. ASSUME NEW id \in PraticaId, NEW r \in Richieste, RichiediGet(r, id)
       PROVE  Avanzati'
  BY <1>0, <1>b, <1>11 DEF RichiediGet, Inizia, Esiste
<1>12. ASSUME NEW id \in PraticaId, NEW u \in Utenti, NEW r \in Richieste,
              NEW d \in Documenti, EliminaDocumentoGet(r, id, u, d)
       PROVE  Avanzati'
  BY <1>0, <1>b, <1>12 DEF EliminaDocumentoGet, Inizia, Esiste
<1>13. ASSUME NEW r \in Richieste,
              SubmitFind(r) \/ RichiediFind(r) \/ InviaVistoCompletata(r)
       PROVE  Avanzati'
  BY <1>13, CambiaAvanti DEF SubmitFind, RichiediFind, InviaVistoCompletata
<1>14. ASSUME NEW r \in Richieste, RichiediNotaFind(r)
       PROVE  Avanzati'
  <2>1. CASE Esiste(richieste[r].id)
    BY <1>0, <1>a, <1>14, <2>1, MosseDocumento DEF RichiediNotaFind, Esiste
  <2>2. CASE ~Esiste(richieste[r].id)
    BY <1>c, <1>14, <2>2 DEF RichiediNotaFind
  <2> QED BY <2>1, <2>2
<1>15. ASSUME NEW r \in Richieste, EliminaDocumentoFind(r)
       PROVE  Avanzati'
  <2> DEFINE id == richieste[r].id
             d  == richieste[r].arg
  <2>1. CASE Esiste(id) /\ d \in pratiche[id].documenti
    BY <1>0, <1>a, <1>15, <2>1, MosseDocumento DEF EliminaDocumentoFind, Esiste
  <2>2. CASE ~(Esiste(id) /\ d \in pratiche[id].documenti)
    BY <1>c, <1>15, <2>2 DEF EliminaDocumentoFind
  <2> QED BY <2>1, <2>2
<1>16. ASSUME NEW r \in Richieste, ReplaceOne(r)
       PROVE  Avanzati'
  <2>1. PICK id, poi : id = richieste[r].id /\ poi = richieste[r].poi
    OBVIOUS
  <2>2. /\ r \in DOMAIN richieste /\ id \in generati /\ generati' = generati
        /\ DOMAIN pratiche' = DOMAIN pratiche
        /\ \A x \in DOMAIN pratiche : x # id => pratiche'[x] = pratiche[x]
    BY <1>16, <2>1 DEF ReplaceOne, Attende, Avanzati, Avanti
  <2>3. Avanti(generati, pratiche', richieste, Senza(lette, r))
    <3>1. /\ DOMAIN Senza(lette, r) = DOMAIN lette \ {r}
          /\ \A x \in DOMAIN lette : x # r => Senza(lette, r)[x] = lette[x]
      BY MappaSenza
    <3>2. \A x \in DOMAIN lette : x # r => richieste[x].id # id
      BY <1>0, <2>1, <2>2 DEF Esclusivi
    <3> QED BY <2>2, <3>1, <3>2 DEF Avanzati, Avanti
  <2>4. Avanti(generati, pratiche', richieste', lette')
    <3>1. CASE poi = "fine"
      <4>1. Finisci(r)
        BY <1>16, <2>1, <3>1 DEF ReplaceOne
      <4> QED BY <1>0, <2>3, <4>1, FinisciAvanti
    <3>2. CASE poi # "fine"
      <4>1. Aspetta(r, poi, id, Vuoto)
        BY <1>16, <2>1, <3>2 DEF ReplaceOne
      <4> QED BY <1>0, <2>2, <2>3, <4>1, AspettaAvanti
    <3> QED BY <3>1, <3>2
  <2> QED BY <2>2, <2>4 DEF Avanzati
<1>17. ASSUME NEW r \in Richieste, Cade(r)
       PROVE  Avanzati'
  BY <1>c, <1>17 DEF Cade
<1>18. CASE UNCHANGED vars
  BY <1>18 DEF vars, Avanzati
<1> QED
  BY <1>1, <1>2, <1>3, <1>4, <1>5, <1>6, <1>7, <1>8, <1>9, <1>10, <1>11, <1>12, <1>13,
     <1>14, <1>15, <1>16, <1>17, <1>18
     DEF Next, Richiedente, Backoffice, Prosegue

-----------------------------------------------------------------------------

\* The instance computes with the same operators.
LEMMA CicloOperatori ==
  /\ Ciclo!Vuoto = Vuoto
  /\ Ciclo!StatoPratica = StatoPratica
  /\ Ciclo!allowedTransitions = allowedTransitions
  /\ \A t, x, y : Ciclo!Evento(t, x, y) = Evento(t, x, y)
  /\ \A f, k, v : Ciclo!Con(f, k, v) = Con(f, k, v)
  /\ \A f, k : Ciclo!Senza(f, k) = Senza(f, k)
<1>1. Ciclo!Vuoto = Vuoto
  BY DEF Ciclo!Vuoto, Vuoto
<1>2. Ciclo!StatoPratica = StatoPratica
  BY DEF Ciclo!StatoPratica, StatoPratica
<1>3. Ciclo!allowedTransitions = allowedTransitions
  BY <1>2 DEF Ciclo!allowedTransitions, Ciclo!successoriVisto, allowedTransitions,
     successoriVisto
<1>4. \A t, x, y : Ciclo!Evento(t, x, y) = Evento(t, x, y)
  BY DEF Ciclo!Evento, Evento
<1>5. \A f, k, v : Ciclo!Con(f, k, v) = Con(f, k, v)
  BY DEF Ciclo!Con, Con
<1>6. \A f, k : Ciclo!Senza(f, k) = Senza(f, k)
  BY DEF Ciclo!Senza, Senza, Ciclo!Restrict, Restrict
<1> QED BY <1>1, <1>2, <1>3, <1>4, <1>5, <1>6

\* Writing a document one move ahead of the stored one is that move.
LEMMA CicloMossa ==
  ASSUME NEW id \in DOMAIN pratiche, pratiche[id] \in Pratica, NEW q,
         UnaMossa(pratiche[id], q), pratiche' = [pratiche EXCEPT ![id] = q],
         UNCHANGED generati
  PROVE  Ciclo!Next \/ UNCHANGED Ciclo!vars
<1> DEFINE p == pratiche[id]
<1>1. /\ Stati' = [Stati EXCEPT ![id] = q.stato]
      /\ Storie' = [Storie EXCEPT ![id] = q.eventi]
      /\ id \in DOMAIN Stati /\ Stati[id] = p.stato
      /\ id \in DOMAIN Storie /\ Storie[id] = p.eventi
  BY DEF Stati, Storie
<1>2. Stati = [Stati EXCEPT ![id] = p.stato] /\ Storie = [Storie EXCEPT ![id] = p.eventi]
  BY DEF Stati, Storie
<1>3. p.stato \in StatoPratica
  BY DEF Pratica
<1> HIDE DEF p
<1>4. CASE Invisibile(p, q)
  <2>1. Stati' = Stati /\ Storie' = Storie
    BY <1>1, <1>2, <1>4 DEF Invisibile
  <2> QED BY <2>1 DEF Ciclo!vars
<1>5. ASSUME NEW next, Avanzata(p, q, next)
      PROVE  Ciclo!Next
  <2>1. next \in StatoPratica
    BY <1>3, <1>5, Tabella DEF Avanzata, Transizione
  <2>2. Ciclo!Avanza(id, next)
    BY <1>1, <1>5, CicloOperatori DEF Avanzata, Transizione, Ciclo!Avanza
  <2> QED BY <1>1, <2>1, <2>2, CicloOperatori DEF Ciclo!Next
<1>6. ASSUME NEW tipo \in {"ASSEGNAZIONE_OPERATORE", "NOTA_AGGIUNTA"},
             Annotata(p, q, tipo)
      PROVE  Ciclo!Next
  <2>1. Stati' = Stati
    BY <1>1, <1>2, <1>6 DEF Annotata
  <2>2. Ciclo!Annota(id, tipo)
    BY <1>1, <1>6, <2>1, CicloOperatori DEF Annotata, Ciclo!Annota
  <2> QED BY <1>1, <2>2 DEF Ciclo!Next
<1> QED BY <1>4, <1>5, <1>6 DEF UnaMossa, p

LEMMA CicloInizio == Init => Ciclo!Init
<1> SUFFICES ASSUME Init PROVE Ciclo!Init
  OBVIOUS
<1>1. DOMAIN pratiche = {}
  BY DEF Init
<1>2. Stati = << >> /\ Storie = << >>
  BY <1>1 DEF Stati, Storie
<1> QED BY <1>2 DEF Init, Ciclo!Init

LEMMA CicloPasso == Inv /\ Avanzati /\ [Next]_vars => [Ciclo!Next]_(Ciclo!vars)
<1> SUFFICES ASSUME Inv, Avanzati, [Next]_vars
             PROVE  Ciclo!Next \/ UNCHANGED Ciclo!vars
  OBVIOUS
<1>0. \A id \in DOMAIN pratiche : pratiche[id] \in Pratica
  BY DEF Inv, DocumentiBuoni
<1>1. ASSUME NEW id \in PraticaId, NEW u \in Utenti, NEW d \in Dati,
             CreatePratica(id, u, d)
      PROVE  Ciclo!Next
  <2> DEFINE q == NuovaPratica(u, d)
  <2>1. /\ q.stato = "BOZZA"
        /\ q.eventi = <<Evento("PRATICA_CREATA", Vuoto, "BOZZA")>>
    BY DEF NuovaPratica
  <2>2. pratiche' = Con(pratiche, id, q)
    BY <1>1 DEF CreatePratica
  <2> HIDE DEF q
  <2>3. Stati' = Con(Stati, id, q.stato) /\ Storie' = Con(Storie, id, q.eventi)
    BY <2>2 DEF Con, Stati, Storie
  <2>4. Ciclo!Nasce(id)
    BY <1>1, <2>1, <2>3, CicloOperatori DEF CreatePratica, Ciclo!Nasce
  <2> QED BY <2>4 DEF Ciclo!Next
<1>2. ASSUME NEW id \in PraticaId, NEW u \in Utenti, DeletePraticaAsDraft(id, u)
      PROVE  Ciclo!Next
  <2>1. /\ Stati' = Senza(Stati, id) /\ Storie' = Senza(Storie, id)
        /\ id \in DOMAIN Stati /\ Stati[id] = "BOZZA"
    BY <1>2 DEF DeletePraticaAsDraft, Senza, Restrict, Stati, Storie, Esiste, BozzaDi
  <2>2. Ciclo!Sparisce(id)
    BY <1>2, <2>1, CicloOperatori DEF DeletePraticaAsDraft, Ciclo!Sparisce
  <2> QED BY <2>1, <2>2 DEF Ciclo!Next
<1>3. ASSUME NEW r \in Richieste, ReplaceOne(r)
      PROVE  Ciclo!Next \/ UNCHANGED Ciclo!vars
  <2>1. PICK id : id = richieste[r].id
    OBVIOUS
  <2>2. r \in DOMAIN lette /\ UNCHANGED generati
    BY <1>3 DEF ReplaceOne, Attende, Inv, HandlerBuoni, ArrivatiAReplace
  <2>3. CASE Esiste(id)
    <3>1. pratiche' = [pratiche EXCEPT ![id] = lette[r]]
      BY <1>3, <2>1, <2>3 DEF ReplaceOne
    <3>2. UnaMossa(pratiche[id], lette[r])
      BY <2>1, <2>2, <2>3 DEF Avanzati, Avanti, Esiste
    <3> QED BY <1>0, <2>2, <2>3, <3>1, <3>2, CicloMossa DEF Esiste
  <2>4. CASE ~Esiste(id)
    <3>1. pratiche' = pratiche
      BY <1>3, <2>1, <2>4 DEF ReplaceOne
    <3> QED BY <2>2, <3>1 DEF Ciclo!vars, Stati, Storie
  <2> QED BY <2>3, <2>4
<1>4. CASE UNCHANGED <<pratiche, generati>>
  BY <1>4 DEF Ciclo!vars, Stati, Storie
<1> QED
  BY <1>1, <1>2, <1>3, <1>4
     DEF Next, Richiedente, Backoffice, Prosegue, vars, PatchFind, SubmitGet,
         EliminaDocumentoGet, ChangeStatoFind, AssegnaFind, NotaFind, AddDocumentoFind,
         DeleteDocumentoFind, RichiediGet, InviaVistoFind, SubmitFind, RichiediFind,
         RichiediNotaFind, InviaVistoCompletata, EliminaDocumentoFind, CambiaFind, Cade

\* In every behaviour in which no two handlers are in flight on the same
\* pratica, whatever the other handlers, the insertions, the deletions of
\* drafts and the crashes do, the collection goes through the life cycle:
\* what read-modify-write breaks, it breaks only by overlapping on one
\* pratica.
THEOREM EsclusivoImplementaCicloVita == Spec /\ []Esclusivi => Ciclo!Spec
<1>1. Init => Ciclo!Init
  BY CicloInizio
<1>2. Inv /\ Avanzati /\ [Next]_vars => [Ciclo!Next]_(Ciclo!vars)
  BY CicloPasso
<1> QED
  BY <1>1, <1>2, InvIniziale, InvPasso, AvanzatiIniziale, AvanzatiPasso, PTL
     DEF Spec, Ciclo!Spec

\* The case a run checks: one handler at a time.
COROLLARY UnoAllaVoltaImplementaCicloVita ==
  (\A r, q \in Richieste : r = q) => (Spec => Ciclo!Spec)
<1> SUFFICES ASSUME \A r, q \in Richieste : r = q
             PROVE  Spec => Ciclo!Spec
  OBVIOUS
<1>1. Inv => Esclusivi
  BY DEF Inv, HandlerBuoni, Esclusivi
<1> QED
  BY <1>1, EsclusivoImplementaCicloVita, InvIniziale, InvPasso, PTL DEF Spec

=============================================================================
