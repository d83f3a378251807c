-------------------------- MODULE PraticaMemory_proofs --------------------------
(***************************************************************************)
(* For any number of pratiche, users, files and concurrent handlers, and   *)
(* any bound on the timelines: the handlers over MemoryStore keep every    *)
(* pratica consistent, and implement the life cycle of CicloVita.          *)
(***************************************************************************)
EXTENDS PraticaMemory, PraticaDoc_proofs

-----------------------------------------------------------------------------
(* What the three ways of touching the map of pratiche preserve.           *)

PraticheBuone(m) ==
  /\ m \in [DOMAIN m -> Pratica]
  /\ \A id \in DOMAIN m : Coerente(m[id])

LEMMA ScriviBuona ==
  ASSUME PraticheBuone(pratiche), NEW id, Esiste(id),
         NEW q \in Pratica, Coerente(q), Scrivi(id, q)
  PROVE  PraticheBuone(pratiche') /\ DOMAIN pratiche' = DOMAIN pratiche
BY DEF PraticheBuone, Scrivi, Esiste

LEMMA AggiungiBuona ==
  ASSUME PraticheBuone(pratiche), NEW id, NEW q \in Pratica, Coerente(q),
         pratiche' = Con(pratiche, id, q)
  PROVE  PraticheBuone(pratiche') /\ DOMAIN pratiche' = DOMAIN pratiche \cup {id}
<1>1. pratiche' \in [DOMAIN pratiche' -> Pratica]
  BY MappaConTipo DEF PraticheBuone
<1>2. /\ DOMAIN pratiche' = DOMAIN pratiche \cup {id}
      /\ pratiche'[id] = q
      /\ \A x \in DOMAIN pratiche : x # id => pratiche'[x] = pratiche[x]
  BY DEF Con
<1> QED BY <1>1, <1>2 DEF PraticheBuone

LEMMA TogliBuona ==
  ASSUME PraticheBuone(pratiche), NEW id,
         pratiche' = Senza(pratiche, id)
  PROVE  PraticheBuone(pratiche') /\ DOMAIN pratiche' = DOMAIN pratiche \ {id}
<1>1. /\ DOMAIN pratiche' = DOMAIN pratiche \ {id}
      /\ \A x \in DOMAIN pratiche : x # id => pratiche'[x] = pratiche[x]
  BY MappaSenza
<1>2. pratiche' \in [DOMAIN pratiche' -> Pratica]
  BY <1>1, MappaSenzaTipo DEF PraticheBuone
<1> QED BY <1>1, <1>2 DEF PraticheBuone

\* The handlers in flight: one is suspended, or one goes.
RichiesteBuone(m) ==
  /\ DOMAIN m \subseteq Richieste
  /\ m \in [DOMAIN m -> Sospesa]

LEMMA SospendiBuona ==
  ASSUME RichiesteBuone(richieste), NEW r \in Richieste, NEW passo \in Passi,
         NEW id \in PraticaId, NEW arg \in Documenti \cup {Vuoto},
         Sospendi(r, passo, id, arg)
  PROVE  RichiesteBuone(richieste')
<1> DEFINE l == [passo |-> passo, id |-> id, arg |-> arg]
<1>1. l \in Sospesa
  BY DEF Sospesa
<1>2. richieste' = Con(richieste, r, l)
  BY DEF Sospendi
<1> HIDE DEF l
<1>3. richieste' \in [DOMAIN richieste' -> Sospesa]
  BY <1>1, <1>2, MappaConTipo DEF RichiesteBuone
<1>4. DOMAIN richieste' = DOMAIN richieste \cup {r}
  BY <1>2, MappaCon
<1> QED BY <1>3, <1>4 DEF RichiesteBuone

LEMMA FinisciBuona ==
  ASSUME RichiesteBuone(richieste), NEW r, Finisci(r)
  PROVE  RichiesteBuone(richieste')
<1>1. DOMAIN richieste' = DOMAIN richieste \ {r}
  BY MappaSenza DEF Finisci
<1>2. richieste' \in [DOMAIN richieste' -> Sospesa]
  BY <1>1, MappaSenzaTipo DEF RichiesteBuone, Finisci
<1> QED BY <1>1, <1>2 DEF RichiesteBuone

-----------------------------------------------------------------------------
(* The invariant.                                                          *)

\* Consistency is inductive once the types are known: what a handler
\* remembers between two calls is only what to ask next, never a document.
Inv ==
  /\ PraticheBuone(pratiche)
  /\ RichiesteBuone(richieste)
  /\ DOMAIN pratiche \subseteq generati
  /\ generati \subseteq PraticaId
  /\ caricati \subseteq Documenti

LEMMA InvIniziale == Init => Inv
BY DEF Init, Inv, PraticheBuone, RichiesteBuone

LEMMA InvPasso == Inv /\ [Next]_vars => Inv'
<1> SUFFICES ASSUME Inv, [Next]_vars
             PROVE  Inv'
  OBVIOUS
<1>0. /\ PraticheBuone(pratiche) /\ RichiesteBuone(richieste)
      /\ DOMAIN pratiche \subseteq generati /\ generati \subseteq PraticaId
      /\ caricati \subseteq Documenti
      /\ \A id \in DOMAIN pratiche : pratiche[id] \in Pratica /\ Coerente(pratiche[id])
      /\ \A r \in DOMAIN richieste : richieste[r] \in Sospesa
  BY DEF Inv, PraticheBuone, RichiesteBuone
<1>1. ASSUME NEW id \in PraticaId, NEW u \in Utenti, NEW d \in Dati,
             CreatePratica(id, u, d)
      PROVE  Inv'
  BY <1>0, <1>1, NuovaPraticaCorretta, AggiungiBuona DEF Inv, CreatePratica
<1>2. ASSUME NEW id \in PraticaId, NEW u \in Utenti, NEW d \in Dati,
             UpdatePraticaAsDraft(id, u, d)
      PROVE  Inv'
  BY <1>0, <1>2, ConDatiCorretta, ScriviBuona DEF Inv, UpdatePraticaAsDraft, Esiste
<1>3. ASSUME NEW id \in PraticaId, NEW u \in Utenti, DeletePraticaAsDraft(id, u)
      PROVE  Inv'
  BY <1>0, <1>3, TogliBuona DEF Inv, DeletePraticaAsDraft
<1>4. ASSUME NEW id \in PraticaId, NEW next \in StatoPratica, ChangePraticaState(id, next)
      PROVE  Inv'
  BY <1>0, <1>4, ConStatoCorretta, ScriviBuona DEF Inv, ChangePraticaState, Inizia, Esiste
<1>5. ASSUME NEW id \in PraticaId, NEW o \in Operatori, AssignOperatore(id, o)
      PROVE  Inv'
  BY <1>0, <1>5, ConOperatoreCorretta, ScriviBuona DEF Inv, AssignOperatore, IniziaContorno, Inizia, Esiste
<1>6. ASSUME NEW id \in PraticaId, AddNota(id)
      PROVE  Inv'
  BY <1>0, <1>6, ConNotaCorretta, ScriviBuona DEF Inv, AddNota, IniziaContorno, Inizia, Esiste
<1>7. ASSUME NEW id \in PraticaId, NEW d \in Documenti, AddDocumento(id, d)
      PROVE  Inv'
  BY <1>0, <1>7, ConDocumentoCorretta, ScriviBuona DEF Inv, AddDocumento, Esiste
<1>8. ASSUME NEW id \in PraticaId, NEW d \in Documenti, DeleteDocumento(id, d)
      PROVE  Inv'
  BY <1>0, <1>8, SenzaDocumentoCorretta, ScriviBuona DEF Inv, DeleteDocumento, Esiste
<1>9. ASSUME NEW id \in PraticaId, NEW u \in Utenti, NEW r \in Richieste,
             SubmitGet(r, id, u)
      PROVE  Inv'
  BY <1>0, <1>9, SospendiBuona DEF Inv, SubmitGet, Passi
<1>10. ASSUME NEW id \in PraticaId, NEW u \in Utenti, NEW r \in Richieste,
              NEW d \in Documenti, EliminaDocumentoGet(r, id, u, d)
      PROVE  Inv'
  BY <1>0, <1>10, SospendiBuona DEF Inv, EliminaDocumentoGet, Passi
<1>11. ASSUME NEW id \in PraticaId, NEW r \in Richieste, RichiediGet(r, id)
      PROVE  Inv'
  BY <1>0, <1>11, SospendiBuona DEF Inv, RichiediGet, Passi
<1>12. ASSUME NEW id \in PraticaId, NEW r \in Richieste, InviaVistoEmesso(r, id)
      PROVE  Inv'
  BY <1>0, <1>12, SospendiBuona, ConStatoCorretta, ScriviBuona
     DEF Inv, InviaVistoEmesso, Passi, Inizia, Esiste
<1>13. ASSUME NEW r \in Richieste, SubmitChange(r)
      PROVE  Inv'
  BY <1>0, <1>13, FinisciBuona, ConStatoCorretta, ScriviBuona DEF Inv, SubmitChange, Esiste
<1>14. ASSUME NEW r \in Richieste, RichiediChange(r)
      PROVE  Inv'
  <2> DEFINE id == richieste[r].id
  <2>0. id \in PraticaId
    BY <1>0, <1>14 DEF Inv, RichiediChange, Attende, Sospesa
  <2>1. CASE Esiste(id) /\ Transizione(pratiche[id], "INTEGRAZIONE_RICHIESTA")
    BY <1>0, <1>14, <2>0, <2>1, SospendiBuona, ConStatoCorretta, ScriviBuona
       DEF Inv, RichiediChange, Passi, Esiste
  <2>2. CASE ~(Esiste(id) /\ Transizione(pratiche[id], "INTEGRAZIONE_RICHIESTA"))
    BY <1>0, <1>14, <2>2, FinisciBuona DEF Inv, RichiediChange
  <2> QED BY <2>1, <2>2
<1>15. ASSUME NEW r \in Richieste, RichiediNota(r)
      PROVE  Inv'
  BY <1>0, <1>15, FinisciBuona, ConNotaCorretta, ScriviBuona DEF Inv, RichiediNota, Esiste
<1>16. ASSUME NEW r \in Richieste, EliminaDocumentoStore(r)
      PROVE  Inv'
  BY <1>0, <1>16, FinisciBuona, SenzaDocumentoCorretta, ScriviBuona
     DEF Inv, EliminaDocumentoStore, Esiste
<1>17. ASSUME NEW r \in Richieste, InviaVistoCompletata(r)
      PROVE  Inv'
  BY <1>0, <1>17, FinisciBuona, ConStatoCorretta, ScriviBuona
     DEF Inv, InviaVistoCompletata, Esiste
<1>18. CASE UNCHANGED vars
  BY <1>0, <1>18 DEF Inv, vars
<1> QED
  BY <1>1, <1>2, <1>3, <1>4, <1>5, <1>6, <1>7, <1>8, <1>9, <1>10, <1>11, <1>12,
     <1>13, <1>14, <1>15, <1>16, <1>17, <1>18 DEF Next, Prosegue

\* The types, for every value of the constants.
THEOREM TipiMemory == Spec => []TypeOK
<1>1. Inv => TypeOK
  BY DEF Inv, TypeOK, PraticheBuone, RichiesteBuone
<1> QED BY <1>1, InvIniziale, InvPasso, PTL DEF Spec

\* Every pratica stays consistent, whatever handlers run: its timeline is a
\* path of the table, explains its state and its dates, and has the
\* milestones (submitted once, approved, paid) its state implies.
THEOREM CoerenzaMemory == Spec => []PraticheCoerenti
<1>1. Inv => PraticheCoerenti
  BY DEF Inv, PraticheCoerenti, PraticheBuone
<1> QED BY <1>1, InvIniziale, InvPasso, PTL DEF Spec

-----------------------------------------------------------------------------
(* The handlers implement the life cycle.                                  *)

Stati == [id \in DOMAIN pratiche |-> pratiche[id].stato]
Storie == [id \in DOMAIN pratiche |-> pratiche[id].eventi]

\* The instance computes with the same operators.
LEMMA CicloOperatori ==
  /\ Ciclo!Vuoto = Vuoto
  /\ Ciclo!StatoPratica = StatoPratica
  /\ Ciclo!allowedTransitions = allowedTransitions
  /\ \A t, x, y : Ciclo!Evento(t, x, y) = Evento(t, x, y)
  /\ \A f, k, v : Ciclo!Con(f, k, v) = Con(f, k, v)
  /\ \A f, k : Ciclo!Senza(f, k) = Senza(f, k)
<1>1. Ciclo!Vuoto = Vuoto
  BY DEF Ciclo!Vuoto, Vuoto
<1>2. Ciclo!StatoPratica = StatoPratica
  BY DEF Ciclo!StatoPratica, StatoPratica
<1>3. Ciclo!allowedTransitions = allowedTransitions
  BY <1>2 DEF Ciclo!allowedTransitions, Ciclo!successoriVisto, allowedTransitions,
     successoriVisto
<1>4. \A t, x, y : Ciclo!Evento(t, x, y) = Evento(t, x, y)
  BY DEF Ciclo!Evento, Evento
<1>5. \A f, k, v : Ciclo!Con(f, k, v) = Con(f, k, v)
  BY DEF Ciclo!Con, Con
<1>6. \A f, k : Ciclo!Senza(f, k) = Senza(f, k)
  BY DEF Ciclo!Senza, Senza, Ciclo!Restrict, Restrict
<1> QED BY <1>1, <1>2, <1>3, <1>4, <1>5, <1>6

\* Writing a pratica back shows in the life cycle as its new state and
\* timeline.
LEMMA CicloScrivi ==
  ASSUME NEW id, Esiste(id), NEW q, Scrivi(id, q)
  PROVE  /\ Stati' = [Stati EXCEPT ![id] = q.stato]
         /\ Storie' = [Storie EXCEPT ![id] = q.eventi]
BY DEF Stati, Storie, Scrivi, Esiste

\* What leaves the state and the timeline alone is invisible.
LEMMA CicloInvisibile ==
  ASSUME NEW id, Esiste(id), NEW q, Scrivi(id, q), UNCHANGED generati,
         q.stato = pratiche[id].stato, q.eventi = pratiche[id].eventi
  PROVE  UNCHANGED Ciclo!vars
BY CicloScrivi DEF Ciclo!vars, Stati, Storie, Esiste, Scrivi

\* A change the table allows is a move of the life cycle.
LEMMA CicloAvanza ==
  ASSUME NEW id \in PraticaId, Esiste(id), pratiche[id] \in Pratica, NEW next,
         Transizione(pratiche[id], next),
         Scrivi(id, ConStato(pratiche[id], next)), UNCHANGED generati
  PROVE  Ciclo!Next
<1> DEFINE p == pratiche[id]
           q == ConStato(p, next)
<1>1. /\ Stati' = [Stati EXCEPT ![id] = q.stato]
      /\ Storie' = [Storie EXCEPT ![id] = q.eventi]
  BY CicloScrivi
<1>2. /\ q.stato = next
      /\ q.eventi = Append(p.eventi, Evento("STATO_CAMBIATO", p.stato, next))
  BY DEF ConStato, Pratica
<1>3. next \in StatoPratica /\ next \in allowedTransitions[p.stato]
  BY Tabella DEF Transizione, Pratica
<1>4. id \in DOMAIN Stati /\ Stati[id] = p.stato /\ Storie[id] = p.eventi
  BY DEF Stati, Storie, Esiste
<1> HIDE DEF q, p
<1>5. Ciclo!Avanza(id, next)
  BY <1>1, <1>2, <1>3, <1>4, CicloOperatori DEF Ciclo!Avanza, Stati, Storie
<1> QED BY <1>3, <1>4, <1>5, CicloOperatori DEF Ciclo!Next, Stati

\* An assignment or a note is an annotation of the life cycle.
LEMMA CicloAnnota ==
  ASSUME NEW id \in PraticaId, Esiste(id), pratiche[id] \in Pratica, NEW q,
         NEW tipo \in {"ASSEGNAZIONE_OPERATORE", "NOTA_AGGIUNTA"},
         q.stato = pratiche[id].stato,
         q.eventi = Append(pratiche[id].eventi, Evento(tipo, Vuoto, Vuoto)),
         Scrivi(id, q), UNCHANGED generati
  PROVE  Ciclo!Next
<1>1. /\ Stati' = [Stati EXCEPT ![id] = q.stato]
      /\ Storie' = [Storie EXCEPT ![id] = q.eventi]
  BY CicloScrivi
<1>2. id \in DOMAIN Stati /\ Stati[id] = q.stato /\ Storie[id] = pratiche[id].eventi
  BY DEF Stati, Storie, Esiste
<1>3. Stati' = Stati
  BY <1>1, <1>2 DEF Stati
<1>4. Ciclo!Annota(id, tipo)
  BY <1>1, <1>2, <1>3, CicloOperatori DEF Ciclo!Annota, Stati, Storie
<1> QED BY <1>2, <1>4 DEF Ciclo!Next, Stati

LEMMA CicloNota ==
  ASSUME NEW id \in PraticaId, Esiste(id), pratiche[id] \in Pratica,
         Scrivi(id, ConNota(pratiche[id])), UNCHANGED generati
  PROVE  Ciclo!Next
<1>1. /\ ConNota(pratiche[id]).stato = pratiche[id].stato
      /\ ConNota(pratiche[id]).eventi =
           Append(pratiche[id].eventi, Evento("NOTA_AGGIUNTA", Vuoto, Vuoto))
  BY DEF ConNota, Pratica
<1> QED BY <1>1, CicloAnnota

LEMMA CicloInizio == Init => Ciclo!Init
<1> SUFFICES ASSUME Init PROVE Ciclo!Init
  OBVIOUS
<1>1. DOMAIN pratiche = {}
  BY DEF Init
<1>2. Stati = << >> /\ Storie = << >>
  BY <1>1 DEF Stati, Storie
<1> QED BY <1>2 DEF Init, Ciclo!Init, Stati, Storie

LEMMA CicloPasso == Inv /\ [Next]_vars => [Ciclo!Next]_(Ciclo!vars)
<1> SUFFICES ASSUME Inv, [Next]_vars
             PROVE  Ciclo!Next \/ UNCHANGED Ciclo!vars
  OBVIOUS
<1>0. /\ \A id \in DOMAIN pratiche : pratiche[id] \in Pratica
      /\ DOMAIN pratiche \subseteq PraticaId
      /\ \A r \in DOMAIN richieste : richieste[r] \in Sospesa
  BY DEF Inv, PraticheBuone, RichiesteBuone
<1> DEFINE Obiettivo == Ciclo!Next \/ UNCHANGED Ciclo!vars
<1>a. UNCHANGED <<pratiche, generati>> => Obiettivo
  BY DEF Ciclo!vars
<1> HIDE DEF Obiettivo
<1>1. ASSUME NEW id \in PraticaId, NEW u \in Utenti, NEW d \in Dati,
             CreatePratica(id, u, d)
      PROVE  Obiettivo
  <2> DEFINE q == NuovaPratica(u, d)
  <2>1. /\ q.stato = "BOZZA"
        /\ q.eventi = <<Evento("PRATICA_CREATA", Vuoto, "BOZZA")>>
    BY DEF NuovaPratica
  <2>2. pratiche' = Con(pratiche, id, q)
    BY <1>1 DEF CreatePratica
  <2> HIDE DEF q
  <2>3. /\ Stati' = Con(Stati, id, q.stato)
        /\ Storie' = Con(Storie, id, q.eventi)
    BY <2>2 DEF Con, Stati, Storie
  <2>4. Ciclo!Nasce(id)
    BY <1>1, <2>1, <2>3, CicloOperatori DEF CreatePratica, Ciclo!Nasce, Stati, Storie
  <2> QED BY <2>4 DEF Ciclo!Next, Obiettivo
<1>2. ASSUME NEW id \in PraticaId, NEW u \in Utenti, NEW d \in Dati,
             UpdatePraticaAsDraft(id, u, d)
      PROVE  Obiettivo
  <2>1. /\ ConDati(pratiche[id], d).stato = pratiche[id].stato
        /\ ConDati(pratiche[id], d).eventi = pratiche[id].eventi
    BY <1>0, <1>2 DEF UpdatePraticaAsDraft, Esiste, ConDati, Pratica
  <2> QED BY <1>2, <2>1, CicloInvisibile DEF UpdatePraticaAsDraft, Obiettivo
<1>3. ASSUME NEW id \in PraticaId, NEW u \in Utenti, DeletePraticaAsDraft(id, u)
      PROVE  Obiettivo
  <2>1. /\ Stati' = Senza(Stati, id) /\ Storie' = Senza(Storie, id)
        /\ id \in DOMAIN Stati /\ Stati[id] = "BOZZA"
    BY <1>3 DEF DeletePraticaAsDraft, Senza, Restrict, Stati, Storie, Esiste, BozzaDi
  <2>2. Ciclo!Sparisce(id)
    BY <1>3, <2>1, CicloOperatori DEF DeletePraticaAsDraft, Ciclo!Sparisce, Stati, Storie
  <2> QED BY <2>1, <2>2 DEF Ciclo!Next, Obiettivo, Stati
<1>4. ASSUME NEW id \in PraticaId, NEW next \in StatoPratica, ChangePraticaState(id, next)
      PROVE  Obiettivo
  BY <1>0, <1>4, CicloAvanza DEF ChangePraticaState, Inizia, Esiste, Obiettivo
<1>5. ASSUME NEW id \in PraticaId, NEW o \in Operatori, AssignOperatore(id, o)
      PROVE  Obiettivo
  <2>1. id \in DOMAIN pratiche /\ pratiche[id] \in Pratica
    BY <1>0, <1>5 DEF AssignOperatore, IniziaContorno, Inizia, Esiste
  <2>2. /\ ConOperatore(pratiche[id], o).stato = pratiche[id].stato
        /\ ConOperatore(pratiche[id], o).eventi =
             Append(pratiche[id].eventi, Evento("ASSEGNAZIONE_OPERATORE", Vuoto, Vuoto))
    BY <2>1 DEF ConOperatore, Pratica
  <2> QED BY <1>5, <2>1, <2>2, CicloAnnota DEF AssignOperatore, Esiste, Obiettivo
<1>6. ASSUME NEW id \in PraticaId, AddNota(id)
      PROVE  Obiettivo
  BY <1>0, <1>6, CicloNota DEF AddNota, IniziaContorno, Inizia, Esiste, Obiettivo
<1>7. ASSUME NEW id \in PraticaId, NEW d \in Documenti, AddDocumento(id, d)
      PROVE  Obiettivo
  <2>1. /\ ConDocumento(pratiche[id], d).stato = pratiche[id].stato
        /\ ConDocumento(pratiche[id], d).eventi = pratiche[id].eventi
    BY <1>0, <1>7 DEF AddDocumento, Esiste, ConDocumento, Pratica
  <2> QED BY <1>7, <2>1, CicloInvisibile DEF AddDocumento, Obiettivo
<1>8. ASSUME NEW id \in PraticaId, NEW d \in Documenti, DeleteDocumento(id, d)
      PROVE  Obiettivo
  <2>1. /\ SenzaDocumento(pratiche[id], d).stato = pratiche[id].stato
        /\ SenzaDocumento(pratiche[id], d).eventi = pratiche[id].eventi
    BY <1>0, <1>8 DEF DeleteDocumento, Esiste, SenzaDocumento, Pratica
  <2> QED BY <1>8, <2>1, CicloInvisibile DEF DeleteDocumento, Obiettivo
<1>9. ASSUME NEW id \in PraticaId, NEW u \in Utenti, NEW r \in Richieste,
             SubmitGet(r, id, u)
      PROVE  Obiettivo
  BY <1>a, <1>9 DEF SubmitGet
<1>10. ASSUME NEW id \in PraticaId, NEW u \in Utenti, NEW r \in Richieste,
              NEW d \in Documenti, EliminaDocumentoGet(r, id, u, d)
       PROVE  Obiettivo
  BY <1>a, <1>10 DEF EliminaDocumentoGet
<1>11. ASSUME NEW id \in PraticaId, NEW r \in Richieste, RichiediGet(r, id)
       PROVE  Obiettivo
  BY <1>a, <1>11 DEF RichiediGet
<1>12. ASSUME NEW id \in PraticaId, NEW r \in Richieste, InviaVistoEmesso(r, id)
       PROVE  Obiettivo
  BY <1>0, <1>12, CicloAvanza DEF InviaVistoEmesso, Inizia, Esiste, Obiettivo
<1>13. ASSUME NEW r \in Richieste, SubmitChange(r)
       PROVE  Obiettivo
  BY <1>0, <1>a, <1>13, CicloAvanza DEF SubmitChange, Esiste, Obiettivo
<1>14. ASSUME NEW r \in Richieste, RichiediChange(r)
       PROVE  Obiettivo
  BY <1>0, <1>a, <1>14, CicloAvanza DEF RichiediChange, Esiste, Obiettivo
<1>15. ASSUME NEW r \in Richieste, RichiediNota(r)
       PROVE  Obiettivo
  BY <1>0, <1>a, <1>15, CicloNota DEF RichiediNota, Esiste, Obiettivo
<1>16. ASSUME NEW r \in Richieste, EliminaDocumentoStore(r)
       PROVE  Obiettivo
  <2> DEFINE id == richieste[r].id
             q == SenzaDocumento(pratiche[id], richieste[r].arg)
  <2>1. CASE Esiste(id)
    <3>1. q.stato = pratiche[id].stato /\ q.eventi = pratiche[id].eventi
      BY <1>0, <2>1 DEF Esiste, SenzaDocumento, Pratica
    <3> QED BY <1>16, <2>1, <3>1, CicloInvisibile DEF EliminaDocumentoStore, Obiettivo
  <2>2. CASE ~Esiste(id)
    BY <1>a, <1>16, <2>2 DEF EliminaDocumentoStore
  <2> QED BY <2>1, <2>2
<1>17. ASSUME NEW r \in Richieste, InviaVistoCompletata(r)
       PROVE  Obiettivo
  BY <1>0, <1>a, <1>17, CicloAvanza DEF InviaVistoCompletata, Esiste, Obiettivo
<1>18. ASSUME UNCHANGED vars
       PROVE  Obiettivo
  BY <1>a, <1>18 DEF vars
<1>19. Obiettivo
  BY <1>1, <1>2, <1>3, <1>4, <1>5, <1>6, <1>7, <1>8, <1>9, <1>10, <1>11, <1>12,
     <1>13, <1>14, <1>15, <1>16, <1>17, <1>18 DEF Next, Prosegue
<1> QED BY <1>19 DEF Obiettivo

\* For every number of handlers, pratiche, users and files, the handlers over
\* MemoryStore implement the life cycle.
THEOREM MemoryImplementaCicloVita == Spec => ImplementaCicloVita
<1>1. Init => Ciclo!Init
  BY CicloInizio
<1>2. Inv /\ [Next]_vars => [Ciclo!Next]_(Ciclo!vars)
  BY CicloPasso
<1> QED BY <1>1, <1>2, InvIniziale, InvPasso, PTL DEF Spec, ImplementaCicloVita, Ciclo!Spec

=============================================================================
