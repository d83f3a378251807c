----------------------------- MODULE Identita_proofs -----------------------------
(***************************************************************************)
(* For any number of users, sessions and concurrent handlers, over both    *)
(* stores, with calls that fail and crashes.  Of the sessions: one that    *)
(* was closed stays closed, "revoke all" leaves no session active, and a   *)
(* session has at most one heir per handler.  Of the access tokens, for    *)
(* any lifetime: a user all whose sessions were revoked is out when that   *)
(* lifetime has passed.                                                    *)
(* With the accounts, whose proofs are in Account_proofs: what holds of    *)
(* them holds of every behaviour of Identita.                              *)
(***************************************************************************)
EXTENDS Identita, FiniteSetTheorems, TLAPS

-----------------------------------------------------------------------------
(* What the steps do to the stored sessions.                               *)

SessioniBuone(m) == m \in [DOMAIN m -> Sessione]

\* Sessions are dropped or revoked, no other changes.
Peggiora ==
  /\ DOMAIN sessioni' \subseteq DOMAIN sessioni
  /\ SessioniBuone(sessioni')
  /\ \A id \in DOMAIN sessioni' :
       /\ sessioni'[id].utente = sessioni[id].utente
       /\ sessioni[id].revocata => sessioni'[id].revocata
  /\ scadute \subseteq scadute'

\* Revoking some sessions.
LEMMA RevocaTraFa ==
  ASSUME SessioniBuone(sessioni), NEW ids
  PROVE  /\ SessioniBuone(RevocaTra(ids))
         /\ DOMAIN RevocaTra(ids) = DOMAIN sessioni
         /\ \A id \in DOMAIN sessioni :
              /\ RevocaTra(ids)[id].utente = sessioni[id].utente
              /\ sessioni[id].revocata => RevocaTra(ids)[id].revocata
              /\ id \in ids => RevocaTra(ids)[id].revocata
<1>1. \A id \in DOMAIN sessioni :
        /\ sessioni[id] \in Sessione
        /\ [sessioni[id] EXCEPT !.revocata = TRUE] \in Sessione
        /\ [sessioni[id] EXCEPT !.revocata = TRUE].utente = sessioni[id].utente
        /\ [sessioni[id] EXCEPT !.revocata = TRUE].revocata = TRUE
  BY DEF SessioniBuone, Sessione
<1> QED BY <1>1 DEF SessioniBuone, RevocaTra

LEMMA RevocaPeggiora ==
  ASSUME TypeOK, NEW ids, sessioni' = RevocaTra(ids), scadute \subseteq scadute'
  PROVE  Peggiora
BY RevocaTraFa DEF Peggiora, TypeOK, SessioniBuone

LEMMA TogliPeggiora ==
  ASSUME TypeOK, NEW ids, sessioni' = Togli(ids), scadute \subseteq scadute'
  PROVE  Peggiora
<1>1. /\ DOMAIN sessioni' = DOMAIN sessioni \ ids
      /\ \A id \in DOMAIN sessioni' : sessioni'[id] = sessioni[id]
      /\ sessioni' = [id \in DOMAIN sessioni' |-> sessioni[id]]
  BY DEF Togli, Restrict
<1> QED BY <1>1 DEF Peggiora, TypeOK, SessioniBuone

\* RevokeAllMemory drops the expired ones and revokes the others.
LEMMA RevocaTogliPeggiora ==
  ASSUME TypeOK, NEW u, RevokeAllMemory(u)
  PROVE  /\ Peggiora
         /\ \A id \in DOMAIN sessioni' :
              sessioni[id].utente = u => sessioni'[id].revocata
<1> DEFINE m == RevocaTra(Di(u))
<1>1. /\ SessioniBuone(m)
      /\ DOMAIN m = DOMAIN sessioni
      /\ \A id \in DOMAIN sessioni :
           /\ m[id].utente = sessioni[id].utente
           /\ sessioni[id].revocata => m[id].revocata
           /\ id \in Di(u) => m[id].revocata
  BY RevocaTraFa DEF TypeOK, SessioniBuone
<1>2. /\ sessioni' = [id \in DOMAIN sessioni \ (Di(u) \cap scadute) |-> m[id]]
      /\ scadute' = scadute
  BY DEF RevokeAllMemory, Restrict
<1> HIDE DEF m
<1>3. /\ DOMAIN sessioni' \subseteq DOMAIN sessioni
      /\ \A id \in DOMAIN sessioni' : sessioni'[id] = m[id]
      /\ sessioni' = [id \in DOMAIN sessioni' |-> m[id]]
  BY <1>2
<1>4. Peggiora
  BY <1>1, <1>2, <1>3 DEF Peggiora, SessioniBuone
<1>5. \A id \in DOMAIN sessioni' : sessioni[id].utente = u => sessioni'[id].revocata
  BY <1>1, <1>3 DEF Di
<1> QED BY <1>4, <1>5

\* A session is opened under an id never given.
LEMMA ApreFa ==
  ASSUME TypeOK, NEW u \in Utenti, NEW id \in SessioneId, NEW da \in SessioneId \cup {Vuoto},
         Apre(u, id, da)
  PROVE  /\ id \notin DOMAIN padre
         /\ DOMAIN sessioni' = DOMAIN sessioni \cup {id}
         /\ SessioniBuone(sessioni')
         /\ sessioni'[id] = [utente |-> u, revocata |-> FALSE]
         /\ \A a \in DOMAIN sessioni : sessioni'[a] = sessioni[a]
         /\ DOMAIN padre' = DOMAIN padre \cup {id}
         /\ padre' \in [DOMAIN padre' -> SessioneId \cup {Vuoto}]
<1> DEFINE s == [utente |-> u, revocata |-> FALSE]
<1>1. s \in Sessione
  BY DEF Sessione
<1>2. /\ id \notin DOMAIN padre
      /\ sessioni' = Con(sessioni, id, s)
      /\ padre' = Con(padre, id, da)
      /\ id \notin DOMAIN sessioni
  BY DEF Apre, TypeOK
<1> HIDE DEF s
<1>3. /\ DOMAIN sessioni' = DOMAIN sessioni \cup {id}
      /\ sessioni'[id] = s
      /\ \A a \in DOMAIN sessioni : sessioni'[a] = sessioni[a]
  BY <1>2 DEF Con
<1>4. SessioniBuone(sessioni')
  BY <1>1, <1>2 DEF TypeOK, SessioniBuone, Con
<1>5. DOMAIN padre' = DOMAIN padre \cup {id}
  BY <1>2 DEF Con
<1>6. padre' \in [DOMAIN padre' -> SessioneId \cup {Vuoto}]
  BY <1>2 DEF TypeOK, Con
<1> QED BY <1>2, <1>3, <1>4, <1>5, <1>6 DEF s

-----------------------------------------------------------------------------
(* The handlers.                                                           *)

VoloBuono ==
  /\ DOMAIN volo \subseteq Richieste
  /\ volo \in [DOMAIN volo -> InVolo]

LEMMA SegueFa ==
  ASSUME VoloBuono, NEW r \in Richieste, NEW passo \in {"crea", "revoca", "tutte"},
         NEW id \in SessioneId \cup {Vuoto}, NEW u \in Utenti, NEW resto \in SUBSET SessioneId,
         Segue(r, passo, id, u, resto)
  PROVE  /\ VoloBuono'
         /\ DOMAIN volo' = DOMAIN volo \cup {r}
         /\ volo'[r].passo = passo /\ volo'[r].utente = u /\ volo'[r].resto = resto
         /\ \A q \in DOMAIN volo : q # r => volo'[q] = volo[q]
<1> DEFINE l == [passo |-> passo, id |-> id, utente |-> u, resto |-> resto]
<1>1. l \in InVolo /\ l.passo = passo /\ l.utente = u /\ l.resto = resto
  BY DEF InVolo
<1>2. volo' = Con(volo, r, l)
  BY DEF Segue
<1> HIDE DEF l
<1>3. /\ DOMAIN volo' = DOMAIN volo \cup {r}
      /\ volo'[r] = l
      /\ \A q \in DOMAIN volo : q # r => volo'[q] = volo[q]
  BY <1>2 DEF Con
<1>4. volo' \in [DOMAIN volo' -> InVolo]
  BY <1>1, <1>2 DEF VoloBuono, Con
<1> QED BY <1>1, <1>3, <1>4 DEF VoloBuono

LEMMA FinisciFa ==
  ASSUME VoloBuono, NEW r, Finisci(r)
  PROVE  /\ VoloBuono'
         /\ DOMAIN volo' = DOMAIN volo \ {r}
         /\ \A q \in DOMAIN volo' : volo'[q] = volo[q]
<1>1. /\ DOMAIN volo' = DOMAIN volo \ {r}
      /\ \A q \in DOMAIN volo : q # r => volo'[q] = volo[q]
  BY DEF Finisci, Senza, Restrict
<1>2. volo' \in [DOMAIN volo' -> InVolo]
  BY DEF Finisci, VoloBuono, Senza, Restrict
<1> QED BY <1>1, <1>2 DEF VoloBuono

-----------------------------------------------------------------------------
(* The types.                                                              *)

LEMMA TipiPeggiora ==
  ASSUME TypeOK, Peggiora, VoloBuono', scadute' \subseteq DOMAIN padre,
         chiusi' \subseteq Utenti, guasto' \in BOOLEAN, UNCHANGED <<store, padre>>
  PROVE  TypeOK'
BY DEF TypeOK, Peggiora, SessioniBuone, VoloBuono

LEMMA TipiFermi ==
  ASSUME TypeOK, VoloBuono', chiusi' \subseteq Utenti, guasto' \in BOOLEAN,
         UNCHANGED <<store, sessioni, scadute, padre>>
  PROVE  TypeOK'
BY DEF TypeOK, VoloBuono

LEMMA TipiApre ==
  ASSUME TypeOK, NEW u \in Utenti, NEW id \in SessioneId,
         NEW da \in SessioneId \cup {Vuoto}, Apre(u, id, da),
         VoloBuono', chiusi' \subseteq Utenti, UNCHANGED <<store, scadute, guasto>>
  PROVE  TypeOK'
<1>1. /\ DOMAIN sessioni' = DOMAIN sessioni \cup {id}
      /\ SessioniBuone(sessioni')
      /\ DOMAIN padre' = DOMAIN padre \cup {id}
      /\ padre' \in [DOMAIN padre' -> SessioneId \cup {Vuoto}]
  BY ApreFa
<1> QED BY <1>1 DEF TypeOK, SessioniBuone, VoloBuono

LEMMA TipiStep ==
  ASSUME TypeOK, [Next]_vars
  PROVE  TypeOK'
<1>v. VoloBuono
  BY DEF TypeOK, VoloBuono
<1>1. ASSUME NEW u \in Utenti, NEW id \in SessioneId, Login(u, id)
      PROVE  TypeOK'
  <2>1. /\ Apre(u, id, Vuoto)
        /\ VoloBuono'
        /\ chiusi' \subseteq Utenti
        /\ UNCHANGED <<store, scadute, guasto>>
    BY <1>1, <1>v DEF Login, TypeOK, VoloBuono
  <2> QED BY <2>1, TipiApre
<1>2. ASSUME NEW u \in Utenti, RevokeAllMemory(u)
      PROVE  TypeOK'
  <2>1. Peggiora
    BY <1>2, RevocaTogliPeggiora
  <2>2. /\ VoloBuono'
        /\ scadute' \subseteq DOMAIN padre
        /\ chiusi' \subseteq Utenti
        /\ guasto' \in BOOLEAN
        /\ UNCHANGED <<store, padre>>
    BY <1>2, <1>v DEF RevokeAllMemory, Chiude, TypeOK, VoloBuono
  <2> QED BY <2>1, <2>2, TipiPeggiora
<1>3. ASSUME NEW u \in Utenti, NEW r \in Richieste, RevokeAllMongo(r, u)
      PROVE  TypeOK'
  <2>1. {id \in Di(u) : Attiva(id)} \in SUBSET SessioneId
    BY DEF Di, TypeOK
  <2>2. Segue(r, "tutte", Vuoto, u, {id \in Di(u) : Attiva(id)})
    BY <1>3 DEF RevokeAllMongo
  <2>3. VoloBuono'
    BY <1>v, <2>1, <2>2, SegueFa
  <2>4. /\ chiusi' \subseteq Utenti
        /\ guasto' \in BOOLEAN
        /\ UNCHANGED <<store, sessioni, scadute, padre>>
    BY <1>3 DEF RevokeAllMongo, Chiude, TypeOK
  <2> QED BY <2>3, <2>4, TipiFermi
<1>4. ASSUME NEW id \in SessioneId, NEW r \in Richieste, RefreshGet(r, id)
      PROVE  TypeOK'
  <2>1. sessioni[id].utente \in Utenti
    BY <1>4 DEF RefreshGet, Attiva, TypeOK, Sessione
  <2>2. Segue(r, "crea", id, sessioni[id].utente, {})
    BY <1>4 DEF RefreshGet
  <2>4. VoloBuono'
    BY <1>v, <2>1, <2>2, SegueFa, {} \in SUBSET SessioneId
  <2>3. /\ chiusi' \subseteq Utenti
        /\ guasto' \in BOOLEAN
        /\ UNCHANGED <<store, sessioni, scadute, padre>>
    BY <1>4 DEF RefreshGet, TypeOK
  <2> QED BY <2>3, <2>4, TipiFermi
<1>5. ASSUME NEW id \in SessioneId, RefreshScaduta(id) \/ Logout(id) \/ BORevokeSession(id)
      PROVE  TypeOK'
  <2>1. Peggiora
    BY <1>5, TogliPeggiora, RevocaPeggiora DEF RefreshScaduta, Logout, BORevokeSession
  <2> QED BY <1>5, <1>v, <2>1, TipiPeggiora
          DEF RefreshScaduta, Logout, BORevokeSession, TypeOK, VoloBuono
<1>6. ASSUME NEW id \in SessioneId, Scade(id)
      PROVE  TypeOK'
  BY <1>6 DEF Scade, TypeOK
<1>7. CASE BOListUserSessions
  <2>1. Peggiora
    BY <1>7, TogliPeggiora DEF BOListUserSessions
  <2> QED BY <1>7, <1>v, <2>1, TipiPeggiora DEF BOListUserSessions, TypeOK, VoloBuono
<1>8. ASSUME NEW r \in Richieste, NEW id \in SessioneId, RefreshCreate(r, id)
      PROVE  TypeOK'
  <2>1. volo[r] \in InVolo /\ volo[r].passo = "crea"
    BY <1>8, <1>v DEF RefreshCreate, Attende, VoloBuono
  <2>2. volo[r].id \in SessioneId \cup {Vuoto} /\ volo[r].utente \in Utenti
    BY <2>1 DEF InVolo
  <2>3. Segue(r, "revoca", volo[r].id, volo[r].utente, {})
    BY <1>8 DEF RefreshCreate
  <2>5. VoloBuono'
    BY <1>v, <2>2, <2>3, SegueFa, {} \in SUBSET SessioneId
  <2>4. /\ Apre(volo[r].utente, id, volo[r].id)
        /\ chiusi' \subseteq Utenti
        /\ UNCHANGED <<store, scadute, guasto>>
    BY <1>8 DEF RefreshCreate, TypeOK
  <2> QED BY <2>2, <2>4, <2>5, TipiApre
<1>9. ASSUME NEW r \in Richieste, RefreshRevoke(r)
      PROVE  TypeOK'
  <2>1. Peggiora
    BY <1>9, RevocaPeggiora DEF RefreshRevoke
  <2>2. VoloBuono'
    BY <1>9, <1>v, FinisciFa DEF RefreshRevoke
  <2> QED BY <1>9, <2>1, <2>2, TipiPeggiora DEF RefreshRevoke, TypeOK
<1>10. ASSUME NEW r \in Richieste, NEW id \in SessioneId, RevokeAllUna(r, id)
       PROVE  TypeOK'
  <2>1. Peggiora
    BY <1>10, RevocaPeggiora DEF RevokeAllUna
  <2>2. volo[r] \in InVolo
    BY <1>10, <1>v DEF RevokeAllUna, Attende, VoloBuono
  <2>3. volo[r].utente \in Utenti /\ volo[r].resto \ {id} \in SUBSET SessioneId
    BY <2>2 DEF InVolo
  <2>4. VoloBuono'
    BY <1>10, <1>v, <2>3, SegueFa DEF RevokeAllUna
  <2> QED BY <1>10, <2>1, <2>4, TipiPeggiora DEF RevokeAllUna, TypeOK
<1>11. ASSUME NEW r \in Richieste, RevokeAllFine(r) \/ Cade(r)
       PROVE  TypeOK'
  <2>1. VoloBuono'
    BY <1>11, <1>v, FinisciFa DEF RevokeAllFine, Cade
  <2> QED BY <1>11, <2>1, TipiFermi DEF RevokeAllFine, Cade, TypeOK
<1>12. ASSUME NEW r \in Richieste, CreateFallisce(r)
       PROVE  TypeOK'
  <2>1. volo[r] \in InVolo
    BY <1>12, <1>v DEF CreateFallisce, Attende, VoloBuono
  <2>2. volo[r].id \in SessioneId \cup {Vuoto} /\ volo[r].utente \in Utenti
    BY <2>1 DEF InVolo
  <2>3. Segue(r, "revoca", volo[r].id, volo[r].utente, {})
    BY <1>12 DEF CreateFallisce
  <2>4. VoloBuono'
    BY <1>v, <2>2, <2>3, SegueFa, {} \in SUBSET SessioneId
  <2> QED BY <1>12, <2>4, TipiFermi DEF CreateFallisce, TypeOK
<1>13. CASE UNCHANGED vars
  BY <1>13 DEF vars, TypeOK
<1> QED
  BY <1>1, <1>2, <1>3, <1>4, <1>5, <1>6, <1>7, <1>8, <1>9, <1>10, <1>11, <1>12, <1>13
     DEF Next, Prosegue

LEMMA TipiInit == Init => TypeOK
<1> SUFFICES ASSUME Init PROVE TypeOK
  OBVIOUS
<1>1. DOMAIN << >> = {} /\ \A S : << >> \in [{} -> S]
  OBVIOUS
<1>2. /\ padre = << >> /\ sessioni = << >> /\ volo = << >>
      /\ scadute = {} /\ chiusi = {} /\ guasto = FALSE
      /\ store \in {"memory", "mongo"}
  BY DEF Init
<1> QED BY <1>1, <1>2 DEF TypeOK

\* The variables keep their types, over both stores (Sessioni.TypeOK).
THEOREM TypeOKSessioni == Spec => []TypeOK
BY TipiInit, TipiStep, PTL DEF Spec

-----------------------------------------------------------------------------
(* What is closed stays closed.                                            *)

\* Every step drops, revokes or leaves sessions, or opens one.
Apertura ==
  /\ \E u \in Utenti, id \in SessioneId, da \in SessioneId \cup {Vuoto} : Apre(u, id, da)
  /\ scadute' = scadute

LEMMA FermePeggiora ==
  ASSUME TypeOK, sessioni' = sessioni, scadute \subseteq scadute'
  PROVE  Peggiora
BY DEF TypeOK, Peggiora, SessioniBuone

LEMMA Effetti ==
  ASSUME TypeOK, Next
  PROVE  Peggiora \/ Apertura
<1>1. ASSUME NEW u \in Utenti, NEW id \in SessioneId, Login(u, id)
      PROVE  Apertura
  <2>1. Apre(u, id, Vuoto) /\ scadute' = scadute
    BY <1>1 DEF Login
  <2> QED BY <2>1 DEF Apertura
<1>2. ASSUME NEW u \in Utenti, RevokeAllMemory(u)
      PROVE  Peggiora
  BY <1>2, RevocaTogliPeggiora
<1>3. ASSUME NEW id \in SessioneId, RefreshScaduta(id) \/ Logout(id) \/ BORevokeSession(id)
      PROVE  Peggiora
  BY <1>3, TogliPeggiora, RevocaPeggiora DEF RefreshScaduta, Logout, BORevokeSession
<1>4. ASSUME NEW id \in SessioneId, Scade(id)
      PROVE  Peggiora
  BY <1>4, FermePeggiora DEF Scade
<1>5. CASE BOListUserSessions
  BY <1>5, TogliPeggiora DEF BOListUserSessions
<1>6. ASSUME NEW r \in Richieste, NEW id \in SessioneId, RefreshCreate(r, id)
      PROVE  Apertura
  <2>1. volo[r] \in InVolo
    BY <1>6 DEF RefreshCreate, Attende, TypeOK
  <2>2. volo[r].id \in SessioneId \cup {Vuoto} /\ volo[r].utente \in Utenti
    BY <2>1 DEF InVolo
  <2>3. Apre(volo[r].utente, id, volo[r].id) /\ scadute' = scadute
    BY <1>6 DEF RefreshCreate
  <2> QED BY <2>2, <2>3 DEF Apertura
<1>7. ASSUME NEW r \in Richieste,
             RefreshRevoke(r) \/ \E id \in SessioneId : RevokeAllUna(r, id)
      PROVE  Peggiora
  BY <1>7, RevocaPeggiora DEF RefreshRevoke, RevokeAllUna
<1>8. ASSUME NEW r \in Richieste,
             \/ \E u \in Utenti : RevokeAllMongo(r, u)
             \/ \E id \in SessioneId : RefreshGet(r, id)
             \/ RevokeAllFine(r) \/ Cade(r) \/ CreateFallisce(r)
      PROVE  Peggiora
  BY <1>8, FermePeggiora
     DEF RevokeAllMongo, RefreshGet, RevokeAllFine, Cade, CreateFallisce
<1> QED
  BY <1>1, <1>2, <1>3, <1>4, <1>5, <1>6, <1>7, <1>8 DEF Next, Prosegue

\* A session that can be used after a step that drops or revokes could be used
\* before it.
LEMMA PeggioraChiude ==
  ASSUME TypeOK, Peggiora, NEW id, Attiva(id)'
  PROVE  Attiva(id) /\ id \in DOMAIN sessioni /\ sessioni'[id].utente = sessioni[id].utente
<1>1. id \in DOMAIN sessioni' /\ ~sessioni'[id].revocata /\ id \notin scadute'
  BY DEF Attiva
<1> QED BY <1>1 DEF Peggiora, Attiva

LEMMA ChiusaRestaStep ==
  ASSUME TypeOK, [Next]_vars
  PROVE  [\A id \in DOMAIN padre : ~Attiva(id) => ~Attiva(id)']_vars
<1>1. CASE UNCHANGED vars
  BY <1>1
<1>2. ASSUME Next, NEW id \in DOMAIN padre, Attiva(id)'
      PROVE  Attiva(id)
  <2>1. CASE Peggiora
    BY <1>2, <2>1, PeggioraChiude
  <2>2. CASE Apertura
    <3>1. PICK u \in Utenti, a \in SessioneId, da \in SessioneId \cup {Vuoto} : Apre(u, a, da)
      BY <2>2 DEF Apertura
    <3>2. /\ a \notin DOMAIN padre
          /\ DOMAIN sessioni' = DOMAIN sessioni \cup {a}
          /\ \A b \in DOMAIN sessioni : sessioni'[b] = sessioni[b]
      BY <3>1, ApreFa
    <3>3. id \in DOMAIN sessioni' /\ ~sessioni'[id].revocata /\ id \notin scadute'
      BY <1>2 DEF Attiva
    <3> QED BY <2>2, <3>2, <3>3 DEF Attiva, Apertura
  <2> QED BY <1>2, <2>1, <2>2, Effetti
<1> QED BY <1>1, <1>2

\* A session that was revoked, has expired or was dropped is never active
\* again, whatever refreshes, logouts and revocations overlap, fail or stop
\* (Sessioni.ChiusaResta).
THEOREM ChiusaRestaSessioni == Spec => ChiusaResta
<1>1. TypeOK /\ [Next]_vars => [\A id \in DOMAIN padre : ~Attiva(id) => ~Attiva(id)']_vars
  BY ChiusaRestaStep
<1> QED BY TypeOKSessioni, <1>1, PTL DEF Spec, ChiusaResta

-----------------------------------------------------------------------------
(* "Revoke all" revokes all.  While it goes through the sessions of a user *)
(* one by one, the active ones are those it has still to look at; and no   *)
(* refresh of the user is about to open another.                           *)

NessunoCrea(u) ==
  \A r \in DOMAIN volo : volo[r].passo = "crea" => volo[r].utente # u

DaRevocare(u, id) ==
  \E r \in DOMAIN volo :
    volo[r].passo = "tutte" /\ volo[r].utente = u /\ id \in volo[r].resto

ChiusoBene(u) ==
  /\ NessunoCrea(u)
  /\ \A id \in Di(u) : Attiva(id) => DaRevocare(u, id)

ChiusiBene == ~guasto => \A u \in chiusi : ChiusoBene(u)

\* Steps that drop or revoke sessions and keep what the handlers have still to
\* revoke.
LEMMA ChiusoPeggiora ==
  ASSUME TypeOK, Peggiora, NEW u, ChiusoBene(u), NessunoCrea(u)',
         \A id : DaRevocare(u, id) /\ Attiva(id)' => DaRevocare(u, id)'
  PROVE  ChiusoBene(u)'
<1>1. ASSUME NEW id \in Di(u)', Attiva(id)'
      PROVE  DaRevocare(u, id)'
  <2>1. Attiva(id) /\ id \in DOMAIN sessioni /\ sessioni'[id].utente = sessioni[id].utente
    BY <1>1, PeggioraChiude
  <2>2. id \in Di(u)
    BY <1>1, <2>1 DEF Di
  <2> QED BY <1>1, <2>1, <2>2 DEF ChiusoBene
<1> QED BY <1>1 DEF ChiusoBene

\* Steps that open a session of another user.
LEMMA ChiusoApre ==
  ASSUME TypeOK, NEW v \in Utenti, NEW a \in SessioneId,
         NEW da \in SessioneId \cup {Vuoto}, Apre(v, a, da), scadute' = scadute,
         NEW u, u # v, ChiusoBene(u), NessunoCrea(u)',
         \A id : DaRevocare(u, id) => DaRevocare(u, id)'
  PROVE  ChiusoBene(u)'
<1>1. /\ DOMAIN sessioni' = DOMAIN sessioni \cup {a}
      /\ sessioni'[a] = [utente |-> v, revocata |-> FALSE]
      /\ \A b \in DOMAIN sessioni : sessioni'[b] = sessioni[b]
      /\ a \notin DOMAIN sessioni
  BY ApreFa DEF TypeOK
<1>2. ASSUME NEW id \in Di(u)', Attiva(id)'
      PROVE  DaRevocare(u, id)'
  <2>1. id \in DOMAIN sessioni /\ sessioni'[id] = sessioni[id] /\ id \in Di(u)
    BY <1>1, <1>2 DEF Di
  <2>2. Attiva(id)
    BY <1>2, <2>1 DEF Attiva
  <2> QED BY <2>1, <2>2 DEF ChiusoBene
<1> QED BY <1>2 DEF ChiusoBene

\* What the handlers do to what is still to be revoked: nothing, when the
\* entries of the handlers that revoke are left alone.
LEMMA StessoVolo ==
  ASSUME UNCHANGED volo, NEW u
  PROVE  /\ NessunoCrea(u) => NessunoCrea(u)'
         /\ \A id : DaRevocare(u, id) => DaRevocare(u, id)'
BY DEF NessunoCrea, DaRevocare

LEMMA VoloSegue ==
  ASSUME NEW r, DOMAIN volo' = DOMAIN volo \cup {r},
         \A q \in DOMAIN volo : q # r => volo'[q] = volo[q],
         NEW u, volo'[r].passo = "crea" => volo'[r].utente # u,
         r \in DOMAIN volo => volo[r].passo # "tutte"
  PROVE  /\ NessunoCrea(u) => NessunoCrea(u)'
         /\ \A id : DaRevocare(u, id) => DaRevocare(u, id)'
BY DEF NessunoCrea, DaRevocare

LEMMA VoloFinisce ==
  ASSUME NEW r \in DOMAIN volo, DOMAIN volo' = DOMAIN volo \ {r},
         \A q \in DOMAIN volo' : volo'[q] = volo[q],
         NEW u, volo[r].passo = "tutte" => volo[r].resto = {}
  PROVE  /\ NessunoCrea(u) => NessunoCrea(u)'
         /\ \A id : DaRevocare(u, id) => DaRevocare(u, id)'
BY DEF NessunoCrea, DaRevocare

LEMMA RevocaMemoryChiude ==
  ASSUME TypeOK, ChiusiBene, ~guasto, NEW u \in Utenti, RevokeAllMemory(u), NEW v \in chiusi'
  PROVE  ChiusoBene(v)'
<1>1. /\ Peggiora
      /\ \A id \in DOMAIN sessioni' : sessioni[id].utente = u => sessioni'[id].revocata
  BY RevocaTogliPeggiora
<1>2. UNCHANGED volo /\ (v \in chiusi \/ (v = u /\ ~InRefresh(u)))
  BY DEF RevokeAllMemory, Chiude
<1>3. /\ NessunoCrea(v) => NessunoCrea(v)'
      /\ \A id : DaRevocare(v, id) => DaRevocare(v, id)'
  BY <1>2, StessoVolo
<1>4. CASE v \in chiusi
  <2>1. ChiusoBene(v)
    BY <1>4 DEF ChiusiBene
  <2>2. NessunoCrea(v)'
    BY <1>3, <2>1 DEF ChiusoBene
  <2> QED BY <1>1, <1>3, <2>1, <2>2, ChiusoPeggiora
<1>5. CASE v = u /\ ~InRefresh(u)
  <2>1. NessunoCrea(v)'
    BY <1>3, <1>5 DEF NessunoCrea, InRefresh
  <2>2. \A id \in Di(v)' : ~Attiva(id)'
    BY <1>1, <1>5 DEF Di, Attiva, Peggiora
  <2> QED BY <2>1, <2>2 DEF ChiusoBene
<1> QED BY <1>2, <1>4, <1>5

LEMMA RevocaMongoChiude ==
  ASSUME TypeOK, ChiusiBene, ~guasto, NEW u \in Utenti, NEW r \in Richieste,
         RevokeAllMongo(r, u), NEW v \in chiusi'
  PROVE  ChiusoBene(v)'
<1> DEFINE R == {id \in Di(u) : Attiva(id)}
<1>1. /\ R \in SUBSET SessioneId
      /\ Segue(r, "tutte", Vuoto, u, R)
      /\ r \notin DOMAIN volo
      /\ VoloBuono
  BY DEF Di, TypeOK, RevokeAllMongo, Libera, VoloBuono
<1> HIDE DEF R
<1>2. /\ DOMAIN volo' = DOMAIN volo \cup {r}
      /\ volo'[r].passo = "tutte" /\ volo'[r].utente = u /\ volo'[r].resto = R
      /\ \A q \in DOMAIN volo : q # r => volo'[q] = volo[q]
  BY <1>1, SegueFa
<1>3. /\ NessunoCrea(v) => NessunoCrea(v)'
      /\ \A id : DaRevocare(v, id) => DaRevocare(v, id)'
  BY <1>1, <1>2, VoloSegue
<1>4. UNCHANGED <<sessioni, scadute>> /\ (v \in chiusi \/ (v = u /\ ~InRefresh(u)))
  BY DEF RevokeAllMongo, Chiude
<1>5. CASE v \in chiusi
  <2>1. ChiusoBene(v) /\ Peggiora
    BY <1>4, <1>5, FermePeggiora DEF ChiusiBene
  <2>2. NessunoCrea(v)'
    BY <1>3, <2>1 DEF ChiusoBene
  <2> QED BY <1>3, <2>1, <2>2, ChiusoPeggiora
<1>6. CASE v = u /\ ~InRefresh(u)
  <2>1. NessunoCrea(v)'
    BY <1>3, <1>6 DEF NessunoCrea, InRefresh
  <2>2. \A id \in Di(v)' : Attiva(id)' => id \in R
    BY <1>4, <1>6 DEF Di, Attiva, R
  <2>3. \A id \in R : DaRevocare(v, id)'
    BY <1>2, <1>6 DEF DaRevocare
  <2> QED BY <2>1, <2>2, <2>3 DEF ChiusoBene
<1> QED BY <1>4, <1>5, <1>6

LEMMA GetChiude ==
  ASSUME TypeOK, ChiusiBene, ~guasto, NEW id \in SessioneId, NEW r \in Richieste,
         RefreshGet(r, id), NEW v \in chiusi'
  PROVE  ChiusoBene(v)'
<1> DEFINE u == sessioni[id].utente
<1>1. /\ Attiva(id) /\ id \in Di(u)
      /\ u \in Utenti
      /\ r \notin DOMAIN volo
      /\ Segue(r, "crea", id, u, {})
      /\ UNCHANGED <<sessioni, scadute>>
      /\ chiusi' = IF InRevoca(u) THEN chiusi \ {u} ELSE chiusi
      /\ VoloBuono
  BY DEF RefreshGet, Attiva, Di, TypeOK, Sessione, Libera, VoloBuono
<1> HIDE DEF u
<1>2. ChiusoBene(v)
  BY <1>1 DEF ChiusiBene
<1>3. v # u
  BY <1>1, <1>2 DEF ChiusoBene, DaRevocare, InRevoca
<1>4. /\ DOMAIN volo' = DOMAIN volo \cup {r}
      /\ volo'[r].utente = u
      /\ \A q \in DOMAIN volo : q # r => volo'[q] = volo[q]
  BY <1>1, SegueFa, {} \in SUBSET SessioneId
<1>5. /\ NessunoCrea(v)'
      /\ \A a : DaRevocare(v, a) => DaRevocare(v, a)'
  BY <1>1, <1>2, <1>3, <1>4, VoloSegue DEF ChiusoBene
<1>6. Peggiora
  BY <1>1, FermePeggiora
<1> QED BY <1>2, <1>5, <1>6, ChiusoPeggiora

LEMMA CreateChiude ==
  ASSUME TypeOK, ChiusiBene, ~guasto, NEW r \in Richieste, NEW id \in SessioneId,
         RefreshCreate(r, id), NEW v \in chiusi'
  PROVE  ChiusoBene(v)'
<1> DEFINE u == volo[r].utente
<1>1. /\ r \in DOMAIN volo /\ volo[r].passo = "crea"
      /\ Apre(u, id, volo[r].id)
      /\ Segue(r, "revoca", volo[r].id, u, {})
      /\ UNCHANGED <<scadute, chiusi>>
      /\ VoloBuono
  BY DEF RefreshCreate, Attende, TypeOK, VoloBuono
<1>2. volo[r].id \in SessioneId \cup {Vuoto} /\ u \in Utenti
  BY <1>1 DEF VoloBuono, InVolo
<1>3. ChiusoBene(v) /\ v # u
  BY <1>1 DEF ChiusiBene, ChiusoBene, NessunoCrea
<1> HIDE DEF u
<1>4. /\ DOMAIN volo' = DOMAIN volo \cup {r}
      /\ volo'[r].passo = "revoca"
      /\ \A q \in DOMAIN volo : q # r => volo'[q] = volo[q]
  BY <1>1, <1>2, SegueFa, {} \in SUBSET SessioneId
<1>5. /\ NessunoCrea(v)'
      /\ \A a : DaRevocare(v, a) => DaRevocare(v, a)'
  BY <1>1, <1>3, <1>4, VoloSegue DEF ChiusoBene
<1> QED BY <1>1, <1>2, <1>3, <1>5, ChiusoApre

\* One session is revoked, and is no more to be revoked.
LEMMA UnaChiude ==
  ASSUME TypeOK, ChiusiBene, ~guasto, NEW r \in Richieste, NEW id \in SessioneId,
         RevokeAllUna(r, id), NEW v \in chiusi'
  PROVE  ChiusoBene(v)'
<1>1. /\ r \in DOMAIN volo /\ volo[r].passo = "tutte"
      /\ sessioni' = RevocaTra({id})
      /\ Segue(r, "tutte", Vuoto, volo[r].utente, volo[r].resto \ {id})
      /\ UNCHANGED <<scadute, chiusi>>
      /\ VoloBuono
  BY DEF RevokeAllUna, Attende, TypeOK, VoloBuono
<1> DEFINE u == volo[r].utente
           R == volo[r].resto \ {id}
<1>2. u \in Utenti /\ R \in SUBSET SessioneId /\ Segue(r, "tutte", Vuoto, u, R)
  BY <1>1 DEF VoloBuono, InVolo
<1>a. u = volo[r].utente /\ R = volo[r].resto \ {id}
  OBVIOUS
<1> HIDE DEF u, R
<1>b. /\ DOMAIN volo' = DOMAIN volo \cup {r}
      /\ volo'[r] = [passo |-> "tutte", id |-> Vuoto, utente |-> u, resto |-> R]
      /\ \A q \in DOMAIN volo : q # r => volo'[q] = volo[q]
  BY <1>2 DEF Segue, Con
<1>c. volo'[r].passo = "tutte" /\ volo'[r].utente = u /\ volo'[r].resto = R
  BY <1>b
<1>3. /\ DOMAIN volo' = DOMAIN volo \cup {r}
      /\ volo'[r].passo = "tutte" /\ volo'[r].utente = volo[r].utente
      /\ volo'[r].resto = volo[r].resto \ {id}
      /\ \A q \in DOMAIN volo : q # r => volo'[q] = volo[q]
  BY <1>a, <1>b, <1>c
<1>4. ChiusoBene(v)
  BY <1>1 DEF ChiusiBene
<1>5. NessunoCrea(v)'
  BY <1>3, <1>4 DEF ChiusoBene, NessunoCrea
<1>6. ~Attiva(id)'
  BY <1>1, RevocaTraFa DEF Attiva, TypeOK, SessioniBuone
<1>7. \A a : DaRevocare(v, a) /\ Attiva(a)' => DaRevocare(v, a)'
  BY <1>1, <1>3, <1>6 DEF DaRevocare
<1>8. Peggiora
  BY <1>1, RevocaPeggiora
<1> QED BY <1>4, <1>5, <1>7, <1>8, ChiusoPeggiora

\* A handler that returns, having nothing left to revoke.
LEMMA FineChiude ==
  ASSUME TypeOK, ChiusiBene, ~guasto, NEW r \in Richieste,
         RefreshRevoke(r) \/ RevokeAllFine(r), NEW v \in chiusi'
  PROVE  ChiusoBene(v)'
<1>1. /\ r \in DOMAIN volo
      /\ volo[r].passo = "tutte" => volo[r].resto = {}
      /\ Finisci(r)
      /\ UNCHANGED <<scadute, chiusi>>
      /\ sessioni' = RevocaTra({volo[r].id}) \/ sessioni' = sessioni
      /\ VoloBuono
  BY DEF RefreshRevoke, RevokeAllFine, Attende, TypeOK, VoloBuono
<1>2. Peggiora
  BY <1>1, RevocaPeggiora, FermePeggiora
<1>3. ChiusoBene(v)
  BY <1>1 DEF ChiusiBene
<1>4. /\ DOMAIN volo' = DOMAIN volo \ {r}
      /\ \A q \in DOMAIN volo' : volo'[q] = volo[q]
  BY <1>1, FinisciFa
<1>5. /\ NessunoCrea(v)'
      /\ \A a : DaRevocare(v, a) => DaRevocare(v, a)'
  BY <1>1, <1>3, <1>4, VoloFinisce DEF ChiusoBene
<1> QED BY <1>2, <1>3, <1>5, ChiusoPeggiora

LEMMA LoginChiude ==
  ASSUME TypeOK, ChiusiBene, ~guasto, NEW u \in Utenti, NEW id \in SessioneId,
         Login(u, id), NEW v \in chiusi'
  PROVE  ChiusoBene(v)'
<1>1. /\ Apre(u, id, Vuoto)
      /\ scadute' = scadute /\ volo' = volo
      /\ v \in chiusi /\ v # u
  BY DEF Login
<1>2. ChiusoBene(v)
  BY <1>1 DEF ChiusiBene
<1>3. /\ NessunoCrea(v)'
      /\ \A a : DaRevocare(v, a) => DaRevocare(v, a)'
  BY <1>1, <1>2, StessoVolo DEF ChiusoBene
<1> QED BY <1>1, <1>2, <1>3, ChiusoApre

\* The steps that touch no handler and no history.
LEMMA AltriChiude ==
  ASSUME TypeOK, ChiusiBene, ~guasto, Peggiora, UNCHANGED <<volo, chiusi>>, NEW v \in chiusi'
  PROVE  ChiusoBene(v)'
<1>1. ChiusoBene(v)
  BY DEF ChiusiBene
<1>2. /\ NessunoCrea(v)'
      /\ \A a : DaRevocare(v, a) => DaRevocare(v, a)'
  BY <1>1, StessoVolo DEF ChiusoBene
<1> QED BY <1>1, <1>2, ChiusoPeggiora

LEMMA ChiusiStep ==
  ASSUME TypeOK, ChiusiBene, [Next]_vars
  PROVE  ChiusiBene'
<1> SUFFICES ASSUME ~guasto', NEW v \in chiusi'
             PROVE  ChiusoBene(v)'
  BY DEF ChiusiBene
<1>1. ASSUME NEW u \in Utenti, NEW id \in SessioneId, Login(u, id)
      PROVE  ChiusoBene(v)'
  BY <1>1, LoginChiude DEF Login
<1>2. ASSUME NEW u \in Utenti, RevokeAllMemory(u)
      PROVE  ChiusoBene(v)'
  BY <1>2, RevocaMemoryChiude DEF RevokeAllMemory
<1>3. ASSUME NEW u \in Utenti, NEW r \in Richieste, RevokeAllMongo(r, u)
      PROVE  ChiusoBene(v)'
  BY <1>3, RevocaMongoChiude DEF RevokeAllMongo
<1>4. ASSUME NEW id \in SessioneId, NEW r \in Richieste, RefreshGet(r, id)
      PROVE  ChiusoBene(v)'
  BY <1>4, GetChiude DEF RefreshGet
<1>5. ASSUME NEW id \in SessioneId,
             RefreshScaduta(id) \/ Logout(id) \/ BORevokeSession(id) \/ Scade(id)
      PROVE  ChiusoBene(v)'
  <2>1. Peggiora
    BY <1>5, TogliPeggiora, RevocaPeggiora, FermePeggiora
       DEF RefreshScaduta, Logout, BORevokeSession, Scade
  <2> QED BY <1>5, <2>1, AltriChiude DEF RefreshScaduta, Logout, BORevokeSession, Scade
<1>6. CASE BOListUserSessions
  <2>1. Peggiora
    BY <1>6, TogliPeggiora DEF BOListUserSessions
  <2> QED BY <1>6, <2>1, AltriChiude DEF BOListUserSessions
<1>7. ASSUME NEW r \in Richieste, NEW id \in SessioneId, RefreshCreate(r, id)
      PROVE  ChiusoBene(v)'
  BY <1>7, CreateChiude DEF RefreshCreate
<1>8. ASSUME NEW r \in Richieste, NEW id \in SessioneId, RevokeAllUna(r, id)
      PROVE  ChiusoBene(v)'
  BY <1>8, UnaChiude DEF RevokeAllUna
<1>9. ASSUME NEW r \in Richieste, RefreshRevoke(r) \/ RevokeAllFine(r)
      PROVE  ChiusoBene(v)'
  <2>1. ~guasto
    BY <1>9 DEF RefreshRevoke, RevokeAllFine
  <2> QED BY <1>9, <2>1, FineChiude
<1>10. ASSUME NEW r \in Richieste, Cade(r) \/ CreateFallisce(r)
       PROVE  ChiusoBene(v)'
  BY <1>10 DEF Cade, CreateFallisce
<1>11. CASE UNCHANGED vars
  <2>1. Peggiora
    BY <1>11, FermePeggiora DEF vars
  <2> QED BY <1>11, <2>1, AltriChiude DEF vars
<1> QED
  BY <1>1, <1>2, <1>3, <1>4, <1>5, <1>6, <1>7, <1>8, <1>9, <1>10, <1>11 DEF Next, Prosegue

\* Once all the sessions of a user are revoked, with no refresh of his about
\* to open another and no call that failed, none can be used until he logs in
\* again (Sessioni.RevocaTutteChiude).
THEOREM RevocaTutteChiudeSessioni == Spec => []RevocaTutteChiude
<1>1. Init => ChiusiBene
  BY DEF Init, ChiusiBene
<1>2. ChiusiBene => RevocaTutteChiude
  BY DEF ChiusiBene, ChiusoBene, RevocaTutteChiude, Di, DaRevocare, InRevoca
<1> QED BY TypeOKSessioni, ChiusiStep, <1>1, <1>2, PTL DEF Spec

-----------------------------------------------------------------------------
(* A rotated token is not used again and again.  While a session is        *)
(* active, each session opened in its place belongs to a handler that has  *)
(* still to revoke it; once it is not, the only ones to come are those of  *)
(* the handlers that saw it active.                                        *)

\* The handlers, of those in `v`, that refresh session `id` and are at `passo`.
Dietro(v, passo, id) == {r \in DOMAIN v : v[r].passo = passo /\ v[r].id = id}

Rimpiazzi(id) ==
  /\ IsFiniteSet(Eredi(id))
  /\ Attiva(id) => Cardinality(Eredi(id)) <= Cardinality(Dietro(volo, "revoca", id))
  /\ Cardinality(Eredi(id)) + Cardinality(Dietro(volo, "crea", id)) <= Cardinality(Richieste)

\* The sessions that are refreshed were opened.
NotiPadri ==
  /\ \A a \in DOMAIN padre : padre[a] \in DOMAIN padre \cup {Vuoto}
  /\ \A r \in DOMAIN volo : volo[r].passo # "tutte" => volo[r].id \in DOMAIN padre

ContiGiusti == ~guasto => \A id \in DOMAIN padre : Rimpiazzi(id)

LEMMA DietroFiniti ==
  ASSUME NEW v, DOMAIN v \subseteq Richieste, NEW id
  PROVE  /\ IsFiniteSet(Richieste) /\ Cardinality(Richieste) \in Nat
         /\ IsFiniteSet(Dietro(v, "crea", id)) /\ Cardinality(Dietro(v, "crea", id)) \in Nat
         /\ IsFiniteSet(Dietro(v, "revoca", id)) /\ Cardinality(Dietro(v, "revoca", id)) \in Nat
         /\ Cardinality(Dietro(v, "revoca", id)) + Cardinality(Dietro(v, "crea", id))
              <= Cardinality(Richieste)
<1> DEFINE C == Dietro(v, "crea", id)
           R == Dietro(v, "revoca", id)
<1>1. C \in SUBSET Richieste /\ R \in SUBSET Richieste /\ C \cap R = {}
  BY DEF Dietro
<1> HIDE DEF C, R
<1>2. IsFiniteSet(Richieste)
  BY SessioniAssumption
<1>3. IsFiniteSet(C) /\ IsFiniteSet(R)
  BY <1>1, <1>2, FS_Subset
<1>4. /\ Cardinality(Richieste) \in Nat
      /\ Cardinality(C) \in Nat
      /\ Cardinality(R) \in Nat
  BY <1>2, <1>3, FS_CardinalityType
<1>5. Cardinality(R \cup C) = Cardinality(R) + Cardinality(C) - Cardinality(R \cap C)
  BY <1>3, FS_Union
<1>6. Cardinality(R \cap C) = 0
  BY <1>1, FS_EmptySet
<1>7. Cardinality(R \cup C) <= Cardinality(Richieste)
  <2>1. R \cup C \in SUBSET Richieste
    BY <1>1
  <2> QED BY <1>2, <2>1, FS_Subset
<1>8. Cardinality(R) + Cardinality(C) <= Cardinality(Richieste)
  BY <1>4, <1>5, <1>6, <1>7
<1> QED BY <1>2, <1>3, <1>4, <1>8 DEF C, R

\* Steps that open no session, make none active, and touch no handler that
\* refreshes `id`.
LEMMA ContaFermo ==
  ASSUME NEW id, Rimpiazzi(id), Eredi(id)' = Eredi(id), Attiva(id)' => Attiva(id),
         Dietro(volo', "crea", id) = Dietro(volo, "crea", id),
         Dietro(volo', "revoca", id) = Dietro(volo, "revoca", id)
  PROVE  Rimpiazzi(id)'
BY DEF Rimpiazzi

\* A step that touches no handler.
LEMMA ContaVoloFermo ==
  ASSUME TypeOK, Peggiora, NEW id, Rimpiazzi(id), UNCHANGED <<volo, padre>>
  PROVE  Rimpiazzi(id)'
<1>1. Attiva(id)' => Attiva(id)
  BY PeggioraChiude
<1>2. /\ Eredi(id)' = Eredi(id)
      /\ Dietro(volo', "crea", id) = Dietro(volo, "crea", id)
      /\ Dietro(volo', "revoca", id) = Dietro(volo, "revoca", id)
  BY DEF Eredi, Dietro
<1> QED BY <1>1, <1>2, ContaFermo

\* The handlers that revoke all the sessions of a user come and go.
LEMMA ContaTutte ==
  ASSUME TypeOK, Peggiora, NEW id, Rimpiazzi(id), UNCHANGED padre, NEW r,
         DOMAIN volo' \ {r} = DOMAIN volo \ {r},
         \A q \in DOMAIN volo \ {r} : volo'[q] = volo[q],
         r \in DOMAIN volo => volo[r].passo = "tutte",
         r \in DOMAIN volo' => volo'[r].passo = "tutte"
  PROVE  Rimpiazzi(id)'
<1>1. Attiva(id)' => Attiva(id)
  BY PeggioraChiude
<1>2. /\ Eredi(id)' = Eredi(id)
      /\ Dietro(volo', "crea", id) = Dietro(volo, "crea", id)
      /\ Dietro(volo', "revoca", id) = Dietro(volo, "revoca", id)
  BY DEF Eredi, Dietro
<1> QED BY <1>1, <1>2, ContaFermo

\* A refresh sees the session active.
LEMMA ContaGet ==
  ASSUME TypeOK, NEW r \in Richieste, NEW a \in SessioneId, RefreshGet(r, a),
         NEW id, Rimpiazzi(id)
  PROVE  Rimpiazzi(id)'
<1> DEFINE u == sessioni[a].utente
<1>1. /\ Attiva(a)
      /\ r \notin DOMAIN volo
      /\ volo' = Con(volo, r, [passo |-> "crea", id |-> a, utente |-> u, resto |-> {}])
      /\ UNCHANGED <<sessioni, scadute, padre>>
  BY DEF RefreshGet, Libera, Segue
<1> HIDE DEF u
<1>2. /\ DOMAIN volo' = DOMAIN volo \cup {r}
      /\ volo'[r].passo = "crea" /\ volo'[r].id = a
      /\ \A q \in DOMAIN volo : q # r => volo'[q] = volo[q]
  BY <1>1 DEF Con
<1>3. Dietro(volo', "revoca", id) = Dietro(volo, "revoca", id)
  BY <1>1, <1>2 DEF Dietro
<1>4. Eredi(id)' = Eredi(id) /\ (Attiva(id)' <=> Attiva(id))
  BY <1>1 DEF Eredi, Attiva
<1>5. CASE id # a
  <2>1. Dietro(volo', "crea", id) = Dietro(volo, "crea", id)
    BY <1>1, <1>2, <1>5 DEF Dietro
  <2> QED BY <1>3, <1>4, <2>1, ContaFermo
<1>6. CASE id = a
  <2>1. /\ IsFiniteSet(Eredi(id))
        /\ Cardinality(Eredi(id)) <= Cardinality(Dietro(volo, "revoca", id))
    BY <1>1, <1>6 DEF Rimpiazzi
  <2>3. /\ Cardinality(Dietro(volo', "revoca", id)) + Cardinality(Dietro(volo', "crea", id))
             <= Cardinality(Richieste)
        /\ Cardinality(Dietro(volo', "revoca", id)) \in Nat
        /\ Cardinality(Dietro(volo', "crea", id)) \in Nat
    <3>1. DOMAIN volo' \subseteq Richieste
      BY <1>2 DEF TypeOK
    <3> QED BY <3>1, DietroFiniti
  <2>4. Cardinality(Eredi(id)) \in Nat /\ Cardinality(Richieste) \in Nat
    BY <2>1, FS_CardinalityType, SessioniAssumption
  <2> QED BY <1>3, <1>4, <2>1, <2>3, <2>4 DEF Rimpiazzi
<1> QED BY <1>5, <1>6

\* A session that is opened has no heirs, and no handler refreshes it.
LEMMA ContaNuova ==
  ASSUME TypeOK, NotiPadri, NEW u \in Utenti, NEW a \in SessioneId,
         NEW da \in DOMAIN padre \cup {Vuoto}, Apre(u, a, da),
         Dietro(volo', "crea", a) = {}, Dietro(volo', "revoca", a) = {}
  PROVE  Rimpiazzi(a)'
<1>1. /\ a \notin DOMAIN padre
      /\ padre' = Con(padre, a, da)
      /\ a # Vuoto
  BY SessioniAssumption DEF Apre
<1>2. Eredi(a)' = {}
  BY <1>1 DEF Eredi, Con, NotiPadri
<1>3. Cardinality(Richieste) \in Nat
  BY SessioniAssumption, FS_CardinalityType
<1> QED BY <1>2, <1>3, FS_EmptySet DEF Rimpiazzi

\* What opening session `a` in the place of `da` does to the others.
LEMMA EredePadre ==
  ASSUME TypeOK, NEW u \in Utenti, NEW a \in SessioneId,
         NEW da \in SessioneId \cup {Vuoto}, Apre(u, a, da), scadute' = scadute,
         NEW id \in DOMAIN padre
  PROVE  /\ Eredi(id)' = IF id = da THEN Eredi(id) \cup {a} ELSE Eredi(id)
         /\ a \notin Eredi(id)
         /\ Attiva(id)' <=> Attiva(id)
<1>1. /\ a \notin DOMAIN padre
      /\ padre' = Con(padre, a, da)
  BY DEF Apre
<1>2. /\ DOMAIN sessioni' = DOMAIN sessioni \cup {a}
      /\ \A b \in DOMAIN sessioni : sessioni'[b] = sessioni[b]
  BY ApreFa
<1> QED BY <1>1, <1>2 DEF Eredi, Con, Attiva

LEMMA ContaLogin ==
  ASSUME TypeOK, NotiPadri, NEW u \in Utenti, NEW a \in SessioneId, Login(u, a),
         NEW id \in DOMAIN padre', id \in DOMAIN padre => Rimpiazzi(id)
  PROVE  Rimpiazzi(id)'
<1>1. Apre(u, a, Vuoto) /\ UNCHANGED <<scadute, volo>>
  BY DEF Login
<1>2. DOMAIN padre' = DOMAIN padre \cup {a}
  BY <1>1, ApreFa
<1>3. CASE id \in DOMAIN padre
  <2>1. id # Vuoto
    BY <1>3, SessioniAssumption DEF TypeOK
  <2>2. Eredi(id)' = Eredi(id) /\ (Attiva(id)' <=> Attiva(id))
    BY <1>1, <1>3, <2>1, EredePadre
  <2> QED BY <1>1, <1>3, <2>2, ContaFermo
<1>4. CASE id = a
  <2>1. Dietro(volo, "crea", a) = {} /\ Dietro(volo, "revoca", a) = {}
    BY <1>1 DEF Apre, Dietro, NotiPadri
  <2> QED BY <1>1, <1>4, <2>1, ContaNuova
<1> QED BY <1>2, <1>3, <1>4

\* The session opened has one handler less to come and one more to revoke the
\* session it takes the place of.
LEMMA ContaCreate ==
  ASSUME TypeOK, NotiPadri, NEW r \in Richieste, NEW a \in SessioneId, RefreshCreate(r, a),
         NEW id \in DOMAIN padre', id \in DOMAIN padre => Rimpiazzi(id)
  PROVE  Rimpiazzi(id)'
<1>u. PICK u : u = volo[r].utente
  OBVIOUS
<1>d. PICK da : da = volo[r].id
  OBVIOUS
<1>1. /\ r \in DOMAIN volo /\ volo[r].passo = "crea" /\ volo[r].id = da
      /\ Apre(u, a, da)
      /\ volo' = Con(volo, r, [passo |-> "revoca", id |-> da, utente |-> u, resto |-> {}])
      /\ scadute' = scadute
      /\ a \notin DOMAIN padre
  BY <1>u, <1>d DEF RefreshCreate, Attende, Segue, Apre
<1>2. u \in Utenti /\ da \in DOMAIN padre
  BY <1>1, <1>u DEF TypeOK, InVolo, NotiPadri
<1>3. /\ DOMAIN volo' = DOMAIN volo
      /\ volo'[r].passo = "revoca" /\ volo'[r].id = da
      /\ \A q \in DOMAIN volo : q # r => volo'[q] = volo[q]
  BY <1>1 DEF Con
<1>4. DOMAIN padre' = DOMAIN padre \cup {a} /\ da \in SessioneId
  BY <1>1, <1>2, ApreFa DEF TypeOK
<1>5. CASE id = a
  <2>1. ASSUME NEW q \in DOMAIN volo', volo'[q].passo # "tutte"
        PROVE  volo'[q].id # a
    <3>1. CASE q = r
      BY <1>1, <1>2, <1>3, <3>1
    <3>2. CASE q # r
      <4>1. q \in DOMAIN volo /\ volo'[q] = volo[q]
        BY <1>3, <2>1, <3>2
      <4>2. volo[q].id \in DOMAIN padre
        BY <2>1, <4>1 DEF NotiPadri
      <4> QED BY <1>1, <4>1, <4>2
    <3> QED BY <3>1, <3>2
  <2>2. \A q \in DOMAIN volo' : volo'[q].passo # "tutte" => volo'[q].id # a
    BY <2>1
  <2>3. Dietro(volo', "crea", a) = {} /\ Dietro(volo', "revoca", a) = {}
    BY <2>2 DEF Dietro
  <2> QED BY <1>1, <1>2, <1>5, <2>3, ContaNuova
<1>6. CASE id \in DOMAIN padre /\ id # da
  <2>1. Eredi(id)' = Eredi(id) /\ (Attiva(id)' <=> Attiva(id))
    BY <1>1, <1>2, <1>4, <1>6, EredePadre
  <2>2. /\ Dietro(volo', "crea", id) = Dietro(volo, "crea", id)
        /\ Dietro(volo', "revoca", id) = Dietro(volo, "revoca", id)
    BY <1>1, <1>3, <1>6 DEF Dietro
  <2> QED BY <1>6, <2>1, <2>2, ContaFermo
<1>7. CASE id = da
  <2> DEFINE E == Eredi(da)
             C == Dietro(volo, "crea", da)
             R == Dietro(volo, "revoca", da)
  <2>1. /\ Eredi(da)' = E \cup {a} /\ a \notin E
        /\ Attiva(da)' <=> Attiva(da)
    BY <1>1, <1>2, <1>4, EredePadre
  <2>2. /\ Dietro(volo', "crea", da) = C \ {r} /\ r \in C
        /\ Dietro(volo', "revoca", da) = R \cup {r} /\ r \notin R
    BY <1>1, <1>3 DEF Dietro
  <2>3. /\ IsFiniteSet(C) /\ IsFiniteSet(R)
        /\ Cardinality(C) \in Nat /\ Cardinality(R) \in Nat
        /\ Cardinality(Richieste) \in Nat
    BY DietroFiniti DEF TypeOK
  <2>4. /\ IsFiniteSet(E)
        /\ Attiva(da) => Cardinality(E) <= Cardinality(R)
        /\ Cardinality(E) + Cardinality(C) <= Cardinality(Richieste)
    BY <1>2, <1>7 DEF Rimpiazzi
  <2> HIDE DEF E, C, R
  <2>5. IsFiniteSet(E \cup {a}) /\ Cardinality(E \cup {a}) = Cardinality(E) + 1
    BY <2>1, <2>4, FS_AddElement
  <2>6. Cardinality(R \cup {r}) = Cardinality(R) + 1
    BY <2>2, <2>3, FS_AddElement
  <2>7. Cardinality(C \ {r}) = Cardinality(C) - 1
    BY <2>2, <2>3, FS_RemoveElement
  <2>8. Cardinality(E) \in Nat
    BY <2>4, FS_CardinalityType
  <2>9. Attiva(da)' => Cardinality(Eredi(da)') <= Cardinality(Dietro(volo', "revoca", da))
    BY <2>1, <2>2, <2>3, <2>4, <2>5, <2>6, <2>8
  <2>10. Cardinality(Eredi(da)') + Cardinality(Dietro(volo', "crea", da))
           <= Cardinality(Richieste)
    <3>1. Cardinality(Eredi(da)') = Cardinality(E) + 1
      BY <2>1, <2>5
    <3>2. Cardinality(Dietro(volo', "crea", da)) = Cardinality(C) - 1
      BY <2>2, <2>7
    <3> QED BY <2>3, <2>4, <2>8, <3>1, <3>2
  <2> QED BY <1>7, <2>1, <2>5, <2>9, <2>10 DEF Rimpiazzi
<1> QED BY <1>4, <1>5, <1>6, <1>7

\* The session a handler has revoked is not active.
LEMMA ContaRevoke ==
  ASSUME TypeOK, NEW r \in Richieste, RefreshRevoke(r), NEW id, Rimpiazzi(id)
  PROVE  Rimpiazzi(id)'
<1>1. /\ r \in DOMAIN volo /\ volo[r].passo = "revoca"
      /\ sessioni' = RevocaTra({volo[r].id})
      /\ volo' = Senza(volo, r)
      /\ UNCHANGED <<scadute, padre>>
  BY DEF RefreshRevoke, Attende, Finisci
<1>2. /\ DOMAIN volo' = DOMAIN volo \ {r}
      /\ \A q \in DOMAIN volo : q # r => volo'[q] = volo[q]
  BY <1>1 DEF Senza, Restrict
<1>3. Dietro(volo', "crea", id) = Dietro(volo, "crea", id)
  BY <1>1, <1>2 DEF Dietro
<1>4. Eredi(id)' = Eredi(id)
  BY <1>1 DEF Eredi
<1>5. CASE id = volo[r].id
  <2>1. ~Attiva(id)'
    BY <1>1, <1>5, RevocaTraFa DEF Attiva, TypeOK, SessioniBuone
  <2> QED BY <1>3, <1>4, <2>1 DEF Rimpiazzi
<1>6. CASE id # volo[r].id
  <2>1. Dietro(volo', "revoca", id) = Dietro(volo, "revoca", id)
    BY <1>1, <1>2, <1>6 DEF Dietro
  <2>2. Attiva(id)' => Attiva(id)
    BY <1>1, RevocaPeggiora, PeggioraChiude
  <2> QED BY <1>3, <1>4, <2>1, <2>2, ContaFermo
<1> QED BY <1>5, <1>6

\* The handlers that refresh, and the sessions opened in the place of others,
\* name sessions that were opened.
LEMMA NotiStep ==
  ASSUME TypeOK, NotiPadri, [Next]_vars
  PROVE  NotiPadri'
<1>1. ASSUME NEW u \in Utenti, NEW a \in SessioneId, NEW da \in DOMAIN padre \cup {Vuoto},
             Apre(u, a, da),
             \A q \in DOMAIN volo' : \/ volo'[q].passo = "tutte"
                                     \/ volo'[q].id \in DOMAIN padre
      PROVE  NotiPadri'
  BY <1>1 DEF Apre, Con, NotiPadri
<1>2. ASSUME UNCHANGED padre,
             \A q \in DOMAIN volo' : \/ volo'[q].passo = "tutte"
                                     \/ q \in DOMAIN volo /\ volo'[q] = volo[q]
                                     \/ volo'[q].id \in DOMAIN padre
      PROVE  NotiPadri'
  BY <1>2 DEF NotiPadri
<1>3. ASSUME NEW u \in Utenti, NEW id \in SessioneId, Login(u, id)
      PROVE  NotiPadri'
  <2>1. Apre(u, id, Vuoto) /\ volo' = volo
    BY <1>3 DEF Login
  <2> QED BY <1>1, <2>1 DEF NotiPadri
<1>4. ASSUME NEW u \in Utenti, NEW r \in Richieste, RevokeAllMongo(r, u)
      PROVE  NotiPadri'
  BY <1>2, <1>4 DEF RevokeAllMongo, Segue, Con
<1>5. ASSUME NEW id \in SessioneId, NEW r \in Richieste, RefreshGet(r, id)
      PROVE  NotiPadri'
  <2>1. id \in DOMAIN padre /\ UNCHANGED padre
    BY <1>5 DEF RefreshGet, Attiva, TypeOK
  <2> QED BY <1>2, <1>5, <2>1 DEF RefreshGet, Segue, Con
<1>6. ASSUME UNCHANGED <<volo, padre>>
      PROVE  NotiPadri'
  BY <1>6 DEF NotiPadri
<1>7. ASSUME NEW r \in Richieste, NEW id \in SessioneId, RefreshCreate(r, id)
      PROVE  NotiPadri'
  <2>1. PICK u, da : u = volo[r].utente /\ da = volo[r].id
    OBVIOUS
  <2>2. r \in DOMAIN volo /\ volo[r].passo = "crea"
    BY <1>7 DEF RefreshCreate, Attende
  <2>3. u \in Utenti /\ da \in DOMAIN padre
    BY <2>1, <2>2 DEF TypeOK, InVolo, NotiPadri
  <2>4. Apre(u, id, da)
    BY <1>7, <2>1 DEF RefreshCreate
  <2>5. volo' = Con(volo, r, [passo |-> "revoca", id |-> da, utente |-> u, resto |-> {}])
    BY <1>7, <2>1 DEF RefreshCreate, Segue
  <2>6. \A q \in DOMAIN volo' : \/ volo'[q].passo = "tutte"
                                \/ volo'[q].id \in DOMAIN padre
    BY <2>2, <2>3, <2>5 DEF Con, NotiPadri
  <2> QED BY <1>1, <2>3, <2>4, <2>6
<1>8. ASSUME NEW r \in Richieste,
             \/ RefreshRevoke(r) \/ RevokeAllFine(r) \/ Cade(r)
             \/ \E id \in SessioneId : RevokeAllUna(r, id)
      PROVE  NotiPadri'
  <2>1. CASE \E id \in SessioneId : RevokeAllUna(r, id)
    BY <1>2, <2>1 DEF RevokeAllUna, Segue, Con
  <2>2. CASE RefreshRevoke(r) \/ RevokeAllFine(r) \/ Cade(r)
    <3>1. UNCHANGED padre /\ volo' = Senza(volo, r)
      BY <2>2 DEF RefreshRevoke, RevokeAllFine, Cade, Finisci
    <3>2. \A q \in DOMAIN volo' : q \in DOMAIN volo /\ volo'[q] = volo[q]
      BY <3>1 DEF Senza, Restrict
    <3> QED BY <1>2, <3>1, <3>2
  <2> QED BY <1>8, <2>1, <2>2
<1>9. ASSUME NEW r \in Richieste, CreateFallisce(r)
      PROVE  NotiPadri'
  <2>1. r \in DOMAIN volo /\ volo[r].passo = "crea" /\ UNCHANGED padre
    BY <1>9 DEF CreateFallisce, Attende
  <2>2. volo[r].id \in DOMAIN padre
    BY <2>1 DEF NotiPadri
  <2> QED BY <1>2, <1>9, <2>1, <2>2 DEF CreateFallisce, Segue, Con
<1>10. CASE UNCHANGED vars
  BY <1>6, <1>10 DEF vars
<1>11. ASSUME NEW id \in SessioneId,
              RefreshScaduta(id) \/ Logout(id) \/ BORevokeSession(id) \/ Scade(id)
       PROVE  NotiPadri'
  BY <1>6, <1>11 DEF RefreshScaduta, Logout, BORevokeSession, Scade
<1>12. CASE BOListUserSessions \/ \E u \in Utenti : RevokeAllMemory(u)
  BY <1>6, <1>12 DEF BOListUserSessions, RevokeAllMemory
<1> QED
  BY <1>3, <1>4, <1>5, <1>7, <1>8, <1>9, <1>10, <1>11, <1>12 DEF Next, Prosegue

LEMMA ContiStep ==
  ASSUME TypeOK, NotiPadri, ContiGiusti, [Next]_vars
  PROVE  ContiGiusti'
<1> SUFFICES ASSUME ~guasto', NEW id \in DOMAIN padre'
             PROVE  Rimpiazzi(id)'
  BY DEF ContiGiusti
<1>c. ~guasto => (id \in DOMAIN padre => Rimpiazzi(id))
  BY DEF ContiGiusti
<1>1. ASSUME NEW u \in Utenti, NEW a \in SessioneId, Login(u, a)
      PROVE  Rimpiazzi(id)'
  BY <1>1, <1>c, ContaLogin DEF Login
<1>2. ASSUME NEW r \in Richieste, NEW a \in SessioneId, RefreshCreate(r, a)
      PROVE  Rimpiazzi(id)'
  BY <1>2, <1>c, ContaCreate DEF RefreshCreate
<1>3. ASSUME NEW a \in SessioneId, NEW r \in Richieste, RefreshGet(r, a)
      PROVE  Rimpiazzi(id)'
  BY <1>3, <1>c, ContaGet DEF RefreshGet
<1>4. ASSUME NEW r \in Richieste, RefreshRevoke(r)
      PROVE  Rimpiazzi(id)'
  BY <1>4, <1>c, ContaRevoke DEF RefreshRevoke
<1>5. ASSUME Peggiora, UNCHANGED <<volo, padre, guasto>>
      PROVE  Rimpiazzi(id)'
  BY <1>5, <1>c, ContaVoloFermo
<1>6. ASSUME NEW a \in SessioneId,
             RefreshScaduta(a) \/ Logout(a) \/ BORevokeSession(a) \/ Scade(a)
      PROVE  Rimpiazzi(id)'
  BY <1>5, <1>6, TogliPeggiora, RevocaPeggiora, FermePeggiora
     DEF RefreshScaduta, Logout, BORevokeSession, Scade
<1>7. ASSUME BOListUserSessions
      PROVE  Rimpiazzi(id)'
  BY <1>5, <1>7, TogliPeggiora DEF BOListUserSessions
<1>8. ASSUME NEW u \in Utenti, RevokeAllMemory(u)
      PROVE  Rimpiazzi(id)'
  BY <1>5, <1>8, RevocaTogliPeggiora DEF RevokeAllMemory
<1>9. CASE UNCHANGED vars
  BY <1>5, <1>9, FermePeggiora DEF vars
<1>10. ASSUME NEW r \in Richieste,
              \/ \E u \in Utenti : RevokeAllMongo(r, u)
              \/ \E a \in SessioneId : RevokeAllUna(r, a)
              \/ RevokeAllFine(r)
       PROVE  Rimpiazzi(id)'
  <2>1. Peggiora
    BY <1>10, RevocaPeggiora, FermePeggiora DEF RevokeAllMongo, RevokeAllUna, RevokeAllFine
  <2>2. UNCHANGED <<padre, guasto>>
    BY <1>10 DEF RevokeAllMongo, RevokeAllUna, RevokeAllFine
  <2>3. /\ DOMAIN volo' \ {r} = DOMAIN volo \ {r}
        /\ \A q \in DOMAIN volo \ {r} : volo'[q] = volo[q]
        /\ r \in DOMAIN volo => volo[r].passo = "tutte"
        /\ r \in DOMAIN volo' => volo'[r].passo = "tutte"
    <3>1. CASE \E u \in Utenti : RevokeAllMongo(r, u)
      BY <3>1 DEF RevokeAllMongo, Libera, Segue, Con
    <3>2. CASE \E a \in SessioneId : RevokeAllUna(r, a)
      BY <3>2 DEF RevokeAllUna, Attende, Segue, Con
    <3>3. CASE RevokeAllFine(r)
      <4>1. volo' = Senza(volo, r) /\ volo[r].passo = "tutte"
        BY <3>3 DEF RevokeAllFine, Attende, Finisci
      <4>2. /\ DOMAIN volo' = DOMAIN volo \ {r}
            /\ \A q \in DOMAIN volo : q # r => volo'[q] = volo[q]
        BY <4>1 DEF Senza, Restrict
      <4> QED BY <4>1, <4>2
    <3> QED BY <1>10, <3>1, <3>2, <3>3
  <2> QED BY <1>c, <2>1, <2>2, <2>3, ContaTutte
<1>11. ASSUME NEW r \in Richieste, Cade(r) \/ CreateFallisce(r)
       PROVE  Rimpiazzi(id)'
  BY <1>11 DEF Cade, CreateFallisce
<1> QED
  BY <1>1, <1>2, <1>3, <1>4, <1>6, <1>7, <1>8, <1>9, <1>10, <1>11 DEF Next, Prosegue

\* However refreshes of one session overlap with each other, with logouts and
\* with revocations, the sessions opened in its place are no more than the
\* handlers the process runs at one time (Sessioni.ErediLimitati).
THEOREM ErediLimitatiSessioni == Spec => []ErediLimitati
<1>1. Init => NotiPadri /\ ContiGiusti
  BY DEF Init, NotiPadri, ContiGiusti
<1>2. TypeOK /\ ContiGiusti => ErediLimitati
  <2> SUFFICES ASSUME TypeOK, ~guasto, NEW id \in DOMAIN padre, Rimpiazzi(id)
               PROVE  Cardinality(Eredi(id)) <= Cardinality(Richieste)
    BY DEF ContiGiusti, ErediLimitati
  <2>1. /\ IsFiniteSet(Eredi(id))
        /\ Cardinality(Eredi(id)) + Cardinality(Dietro(volo, "crea", id))
             <= Cardinality(Richieste)
    BY DEF Rimpiazzi
  <2>2. /\ Cardinality(Dietro(volo, "crea", id)) \in Nat
        /\ Cardinality(Richieste) \in Nat
    BY DietroFiniti DEF TypeOK
  <2>3. Cardinality(Eredi(id)) \in Nat
    BY <2>1, FS_CardinalityType
  <2> QED BY <2>1, <2>2, <2>3
<1> QED BY TypeOKSessioni, NotiStep, ContiStep, <1>1, <1>2, PTL DEF Spec

-----------------------------------------------------------------------------
(* The steps on the sessions.                                              *)

\* A login whose session is not stored.
SenzaSessione ==
  /\ guasto' = TRUE
  /\ chiusi' \subseteq chiusi
  /\ UNCHANGED <<store, sessioni, scadute, volo, padre>>

LEMMA PassoAccesso ==
  ASSUME [NextAccesso]_varsAccesso
  PROVE  [Next]_vars \/ SenzaSessione
<1>1. ASSUME NEW u \in Utenti, LoginAccesso(u)
      PROVE  [Next]_vars \/ SenzaSessione
  BY <1>1 DEF LoginAccesso, SenzaSessione, Next
<1>2. ASSUME NEW r \in Richieste, RefreshAccesso(r)
      PROVE  [Next]_vars
  BY <1>2 DEF RefreshAccesso, Next, Prosegue
<1>3. CASE AltroAccesso
  BY <1>3 DEF AltroAccesso, Next, Prosegue
<1>4. CASE Tick
  BY <1>4 DEF Tick
<1>5. CASE UNCHANGED varsAccesso
  BY <1>5 DEF varsAccesso
<1> QED BY <1>1, <1>2, <1>3, <1>4, <1>5 DEF NextAccesso

LEMMA SessioniAccesso ==
  ASSUME TypeOK, ChiusiBene, [NextAccesso]_varsAccesso
  PROVE  TypeOK' /\ ChiusiBene'
<1>1. CASE [Next]_vars
  BY <1>1, TipiStep, ChiusiStep
<1>2. CASE SenzaSessione
  <2>1. TypeOK'
    BY <1>2 DEF SenzaSessione, TypeOK
  <2> QED BY <1>2, <2>1 DEF SenzaSessione, ChiusiBene
<1> QED BY <1>1, <1>2, PassoAccesso

-----------------------------------------------------------------------------
(* The tokens.                                                             *)

Gettone == [utente : Utenti, eta : 0..Durata - 1]

TipiAccessi ==
  /\ accessi \subseteq Gettone
  /\ daQuanto \in [Utenti -> 0..Durata]
  /\ \A u \in Utenti \ chiusi : daQuanto[u] = 0

\* The tokens of a user who is out are as old as the revocation, or older.
Vecchi ==
  ~guasto => \A u \in chiusi : \A t \in accessi : t.utente = u => daQuanto[u] <= t.eta

\* What a step may do to the tokens and to the count of the users.
Aggiunge(u) ==
  /\ u \in Utenti
  /\ accessi' = accessi \cup {[utente |-> u, eta |-> 0]}
  /\ Conta

LEMMA ContaFa ==
  ASSUME TipiAccessi, Conta
  PROVE  /\ daQuanto' \in [Utenti -> 0..Durata]
         /\ \A u \in Utenti \ chiusi' : daQuanto'[u] = 0
         /\ \A u \in Utenti : daQuanto'[u] <= daQuanto[u]
<1>1. \A u \in Utenti : daQuanto[u] \in 0..Durata /\ Durata \in Nat
  BY DurataAssumption DEF TipiAccessi
<1>2. daQuanto' = [u \in Utenti |-> IF u \in chiusi' THEN daQuanto[u] ELSE 0]
  BY DEF Conta
<1> QED BY <1>1, <1>2

\* Every step but a tick keeps the tokens of the users who are out.
LEMMA ContaVecchi ==
  ASSUME TipiAccessi, Vecchi, Conta, accessi' \subseteq Gettone, chiusi' \subseteq Utenti,
         guasto => guasto',
         ~guasto' => \A u \in chiusi' :
                       /\ \A t \in accessi' : t.utente = u => t \in accessi
                       /\ u \notin chiusi => daQuanto[u] = 0
  PROVE  TipiAccessi' /\ Vecchi'
<1>1. TipiAccessi'
  BY ContaFa DEF TipiAccessi
<1>2. SUFFICES ASSUME ~guasto', NEW u \in chiusi', NEW t \in accessi', t.utente = u
               PROVE  daQuanto'[u] <= t.eta
  BY <1>1 DEF Vecchi
<1>3. /\ t \in accessi /\ ~guasto /\ u \in Utenti
      /\ t.eta \in Nat
      /\ daQuanto[u] \in Nat /\ daQuanto'[u] \in Nat
      /\ daQuanto'[u] <= daQuanto[u]
  BY <1>1, <1>2, ContaFa, DurataAssumption DEF TipiAccessi, Gettone
<1>4. daQuanto[u] <= t.eta
  BY <1>2, <1>3 DEF Vecchi
<1> QED BY <1>3, <1>4

\* A tick: the count grows no faster than the age of the tokens.
LEMMA TickVecchi ==
  ASSUME TipiAccessi, Vecchi, chiusi \subseteq Utenti, Tick
  PROVE  TipiAccessi' /\ Vecchi'
<1>1. /\ accessi' = Invecchiati /\ UNCHANGED <<chiusi, guasto>>
      /\ daQuanto' = [u \in Utenti |->
           IF u \in chiusi /\ ~InRevoca(u) /\ daQuanto[u] < Durata
           THEN daQuanto[u] + 1 ELSE daQuanto[u]]
  BY DEF Tick, vars
<1>2. ASSUME NEW t \in accessi'
      PROVE  /\ t \in Gettone
             /\ \E s \in accessi : t.utente = s.utente /\ t.eta = s.eta + 1
  <2>1. PICK s \in accessi : s.eta + 1 < Durata /\ t = [s EXCEPT !.eta = @ + 1]
    BY <1>1, <1>2 DEF Invecchiati
  <2>2. s \in Gettone
    BY DEF TipiAccessi
  <2> QED BY <2>1, <2>2, DurataAssumption DEF Gettone
<1>3. \A u \in Utenti : daQuanto[u] \in 0..Durata /\ Durata \in Nat
  BY DurataAssumption DEF TipiAccessi
<1>4. /\ daQuanto' \in [Utenti -> 0..Durata]
      /\ \A u \in Utenti : daQuanto'[u] <= daQuanto[u] + 1
      /\ \A u \in Utenti \ chiusi : daQuanto'[u] = daQuanto[u]
  BY <1>1, <1>3
<1>5. TipiAccessi'
  BY <1>1, <1>2, <1>4 DEF TipiAccessi
<1>6. ASSUME ~guasto, NEW u \in chiusi, NEW t \in accessi', t.utente = u
      PROVE  daQuanto'[u] <= t.eta
  <2>1. PICK s \in accessi : s.utente = u /\ t.eta = s.eta + 1
    BY <1>2, <1>6
  <2>2. daQuanto[u] <= s.eta
    BY <1>6, <2>1 DEF Vecchi
  <2>3. s.eta \in Nat /\ daQuanto[u] \in Nat /\ daQuanto'[u] \in Nat
    BY <1>3, <1>4, DurataAssumption DEF TipiAccessi, Gettone
  <2> QED BY <1>4, <2>1, <2>2, <2>3
<1> QED BY <1>1, <1>5, <1>6 DEF Vecchi

-----------------------------------------------------------------------------
(* The theorem.                                                            *)

\* The inductive invariant: who is out has no refresh about to sign.
InvAccesso == TypeOK /\ ChiusiBene /\ TipiAccessi /\ Vecchi

LEMMA AccessoInit == InitAccesso => InvAccesso
<1> SUFFICES ASSUME InitAccesso PROVE InvAccesso
  OBVIOUS
<1>1. TypeOK /\ ChiusiBene
  BY TipiInit DEF InitAccesso, Init, ChiusiBene
<1>2. TipiAccessi /\ Vecchi
  BY DurataAssumption DEF InitAccesso, Init, TipiAccessi, Vecchi
<1> QED BY <1>1, <1>2 DEF InvAccesso

LEMMA AccessoStep == InvAccesso /\ [NextAccesso]_varsAccesso => InvAccesso'
<1> SUFFICES ASSUME InvAccesso, [NextAccesso]_varsAccesso
             PROVE  InvAccesso'
  OBVIOUS
<1>1. TypeOK' /\ ChiusiBene'
  BY SessioniAccesso DEF InvAccesso
<1>t. /\ TipiAccessi /\ Vecchi
      /\ chiusi \subseteq Utenti /\ chiusi' \subseteq Utenti
      /\ \A u \in Utenti \ chiusi : daQuanto[u] = 0
  BY <1>1 DEF InvAccesso, TypeOK, TipiAccessi
<1>n. \A u \in Utenti : [utente |-> u, eta |-> 0] \in Gettone
  BY DurataAssumption DEF Gettone
<1>2. ASSUME NEW u \in Utenti, LoginAccesso(u)
      PROVE  TipiAccessi' /\ Vecchi'
  <2>1. /\ accessi' = accessi \cup {[utente |-> u, eta |-> 0]}
        /\ Conta /\ u \notin chiusi' /\ (guasto => guasto')
    BY <1>2 DEF LoginAccesso, Firma, Login
  <2>2. accessi' \subseteq Gettone
    BY <1>t, <1>n, <2>1 DEF TipiAccessi
  <2> QED BY <1>t, <2>1, <2>2, ContaVecchi
<1>3. ASSUME NEW r \in Richieste, RefreshAccesso(r)
      PROVE  TipiAccessi' /\ Vecchi'
  <2> DEFINE u == volo[r].utente
  <2>1. /\ accessi' = accessi \cup {[utente |-> u, eta |-> 0]}
        /\ Conta /\ chiusi' = chiusi /\ (guasto => guasto')
        /\ r \in DOMAIN volo /\ volo[r].passo = "crea"
    BY <1>3 DEF RefreshAccesso, Firma, CreateFallisce, RefreshCreate, Attende
  <2>2. u \in Utenti
    BY <2>1 DEF InvAccesso, TypeOK, InVolo
  <2>3. ~guasto => u \notin chiusi
    BY <2>1 DEF InvAccesso, ChiusiBene, ChiusoBene, NessunoCrea
  <2>4. accessi' \subseteq Gettone
    BY <1>t, <1>n, <2>1, <2>2 DEF TipiAccessi
  <2>5. \A t \in accessi' : t.utente # u => t \in accessi
    BY <2>1
  <2> HIDE DEF u
  <2> QED BY <1>t, <2>1, <2>3, <2>4, <2>5, ContaVecchi
<1>4. ASSUME AltroAccesso
      PROVE  TipiAccessi' /\ Vecchi'
  <2>1. accessi' = accessi /\ Conta
    BY <1>4 DEF AltroAccesso
  <2>2. guasto => guasto'
    BY <1>4 DEF AltroAccesso, RevokeAllMemory, RevokeAllMongo, RefreshGet, RevokeAllUna,
         RefreshScaduta, Logout, BORevokeSession, Scade, BOListUserSessions, RefreshRevoke,
         RevokeAllFine, Cade
  <2>3. accessi' \subseteq Gettone
    BY <1>t, <2>1 DEF TipiAccessi
  <2> QED BY <1>t, <2>1, <2>2, <2>3, ContaVecchi
<1>5. ASSUME Tick
      PROVE  TipiAccessi' /\ Vecchi'
  BY <1>5, <1>t, TickVecchi
<1>6. ASSUME UNCHANGED varsAccesso
      PROVE  TipiAccessi' /\ Vecchi'
  BY <1>6, <1>t DEF varsAccesso, vars, TipiAccessi, Vecchi
<1> QED BY <1>1, <1>2, <1>3, <1>4, <1>5, <1>6 DEF NextAccesso, InvAccesso

\* Who is out for a lifetime has no token left.
LEMMA InvAccessoDice == InvAccesso => TypeAccesso /\ RevocaEntroDurata
<1> SUFFICES ASSUME InvAccesso PROVE TypeAccesso /\ RevocaEntroDurata
  OBVIOUS
<1>1. ASSUME ~guasto, NEW u \in chiusi, daQuanto[u] = Durata, NEW t \in accessi, t.utente = u
      PROVE  FALSE
  <2>1. t.eta \in 0..Durata - 1
    BY DEF InvAccesso, TipiAccessi, Gettone
  <2>2. daQuanto[u] <= t.eta
    BY <1>1 DEF InvAccesso, Vecchi
  <2> QED BY <1>1, <2>1, <2>2, DurataAssumption
<1>2. TypeAccesso
  BY DEF TypeAccesso, InvAccesso, TipiAccessi, Gettone
<1> QED BY <1>1, <1>2 DEF RevocaEntroDurata, Ammesso

\* The tokens that are out end no later than a lifetime after all the sessions
\* of their user were revoked: from then on the middleware lets none of his
\* requests in until he logs in again (Accesso.RevocaEntroDurata).
THEOREM RevocaEntroDurataAccesso == SpecAccesso => []RevocaEntroDurata
BY AccessoInit, AccessoStep, InvAccessoDice, PTL DEF SpecAccesso

-----------------------------------------------------------------------------
(* Side by side with the accounts.  ContiP is Account once more, with what *)
(* is proved of it.                                                        *)

ContiP == INSTANCE Account_proofs WITH volo <- voloConti, guasto <- guastoConti

LEMMA ContiInizio == Conti!Init => ContiP!Init
BY DEF Conti!Init, ContiP!Init

LEMMA ContiStesso == Conti!Next => ContiP!Next
BY DEF Conti!Next, ContiP!Next, Conti!Prosegue, ContiP!Prosegue, Conti!Comincia,
       ContiP!Comincia, Conti!Libera, ContiP!Libera, Conti!Attende, ContiP!Attende,
       Conti!Lavoro, ContiP!Lavoro, Conti!Segue, ContiP!Segue, Conti!Finisci, ContiP!Finisci,
       Conti!NuovoToken, ContiP!NuovoToken, Conti!CreateUser, ContiP!CreateUser,
       Conti!CreateToken, ContiP!CreateToken, Conti!ForgotPassword, ContiP!ForgotPassword,
       Conti!Scade, ContiP!Scade, Conti!Valido, ContiP!Valido, Conti!Adatto, ContiP!Adatto,
       Conti!DopoConsumo, ContiP!DopoConsumo, Conti!ConsumeMemory, ContiP!ConsumeMemory,
       Conti!ConsumeFind, ContiP!ConsumeFind, Conti!ConsumeUpdate, ContiP!ConsumeUpdate,
       Conti!ConsumeScarta, ContiP!ConsumeScarta, Conti!UpdateUserPassword,
       ContiP!UpdateUserPassword, Conti!PasswordRifiutata, ContiP!PasswordRifiutata,
       Conti!SetUserVerificationState, ContiP!SetUserVerificationState, Conti!In2FA, ContiP!In2FA, Conti!Inizia2FA,
       ContiP!Inizia2FA, Conti!CodiceValido, ContiP!CodiceValido, Conti!Nuovo, ContiP!Nuovo,
       Conti!SetupSecret, ContiP!SetupSecret, Conti!Mostra, ContiP!Mostra, Conti!SetupOff,
       ContiP!SetupOff, Conti!EnableGet, ContiP!EnableGet, Conti!EnableOn, ContiP!EnableOn,
       Conti!DisableGet, ContiP!DisableGet, Conti!DisableOff, ContiP!DisableOff,
       Conti!DisableSecret, ContiP!DisableSecret, Conti!Cade, ContiP!Cade,
       Conti!SetupOffFallisce, ContiP!SetupOffFallisce, Conti!account, ContiP!account,
       Conti!gettoni, ContiP!gettoni, Conti!Vuoto, ContiP!Vuoto, Conti!Passi2FA,
       ContiP!Passi2FA, Conti!Con, ContiP!Con, Conti!Senza, ContiP!Senza, Conti!Restrict,
       ContiP!Restrict

\* What the accounts promise.
LEMMA ContiDicono ==
  ContiP!InvConti => /\ Conti!TypeOK /\ Conti!TokenUnaVolta /\ Conti!SoloConToken
                     /\ Conti!InvitoCompleto /\ Conti!SecondoFattoreUsabile
<1>1. Conti!TypeOK <=> ContiP!TypeOK
  BY DEF Conti!TypeOK, ContiP!TypeOK, Conti!Utente, ContiP!Utente, Conti!Gettone, ContiP!Gettone,
         Conti!InVolo, ContiP!InVolo, Conti!Scopi, ContiP!Scopi, Conti!PassiToken,
         ContiP!PassiToken, Conti!Passi2FA, ContiP!Passi2FA, Conti!Vuoto, ContiP!Vuoto
<1>2. Conti!TokenUnaVolta <=> ContiP!TokenUnaVolta
  BY DEF Conti!TokenUnaVolta, ContiP!TokenUnaVolta
<1>3. Conti!SoloConToken <=> ContiP!SoloConToken
  BY DEF Conti!SoloConToken, ContiP!SoloConToken, Conti!Vuoto, ContiP!Vuoto
<1>4. Conti!InvitoCompleto <=> ContiP!InvitoCompleto
  BY DEF Conti!InvitoCompleto, ContiP!InvitoCompleto, Conti!Vuoto, ContiP!Vuoto
<1>5. Conti!SecondoFattoreUsabile <=> ContiP!SecondoFattoreUsabile
  BY DEF Conti!SecondoFattoreUsabile, ContiP!SecondoFattoreUsabile, Conti!In2FA, ContiP!In2FA,
         Conti!Passi2FA, ContiP!Passi2FA, Conti!CodiceValido, ContiP!CodiceValido
<1> QED BY <1>1, <1>2, <1>3, <1>4, <1>5, ContiP!ContiDicono

\* The inductive invariant: of the sessions and the tokens, and of the accounts;
\* while the sessions run alone no token is signed.
Soli == caso = "sessioni" => accessi = {} /\ daQuanto = [u \in Utenti |-> 0]

InvIdentita == InvAccesso /\ ContiP!InvConti /\ Soli

LEMMA StoreSessioni == [Next]_vars \/ SenzaSessione => UNCHANGED store
BY DEF Next, Prosegue, Login, RevokeAllMemory, RevokeAllMongo, RefreshGet, RefreshScaduta, Logout,
   BORevokeSession, Scade, BOListUserSessions, RefreshCreate, RefreshRevoke, RevokeAllUna,
   RevokeAllFine, Cade, CreateFallisce, SenzaSessione, vars

\* Where the accounts rest.
LEMMA ContiFermi ==
  ASSUME ContiP!InvConti, UNCHANGED <<store, varsConti>>
  PROVE  ContiP!InvConti'
<1>1. UNCHANGED ContiP!vars
  BY DEF varsConti, ContiP!vars
<1> QED BY <1>1, ContiP!ContiPasso

LEMMA IdentitaInit == InitIdentita => InvIdentita
BY AccessoInit, ContiInizio, ContiP!ContiInit DEF InitIdentita, InitAccesso, InvIdentita, Soli

LEMMA IdentitaStep == InvIdentita /\ [NextIdentita]_varsIdentita => InvIdentita'
<1> SUFFICES ASSUME InvIdentita, [NextIdentita]_varsIdentita
             PROVE  InvIdentita'
  OBVIOUS
<1>0. InvAccesso /\ ContiP!InvConti /\ Soli
  BY DEF InvIdentita
<1>1. ASSUME caso = "sessioni", Next, UNCHANGED <<accessi, daQuanto, varsConti, caso>>
      PROVE  InvIdentita'
  <2>1. UNCHANGED store
    BY <1>1, StoreSessioni
  <2>2. ContiP!InvConti'
    BY <1>0, <1>1, <2>1, ContiFermi
  <2>3. Soli'
    BY <1>0, <1>1 DEF Soli
  <2>4. TypeOK' /\ ChiusiBene'
    BY <1>0, <1>1, TipiStep, ChiusiStep DEF InvAccesso
  <2>5. accessi' = {} /\ daQuanto' = [u \in Utenti |-> 0]
    BY <1>0, <1>1 DEF Soli
  <2>6. TipiAccessi' /\ Vecchi'
    BY <2>5, DurataAssumption DEF TipiAccessi, Vecchi
  <2> QED BY <2>2, <2>3, <2>4, <2>6 DEF InvIdentita, InvAccesso
<1>2. ASSUME caso = "accessi", NextAccesso, UNCHANGED <<varsConti, caso>>
      PROVE  InvIdentita'
  <2>1. UNCHANGED store
    BY <1>2, PassoAccesso, StoreSessioni
  <2>2. ContiP!InvConti'
    BY <1>0, <1>2, <2>1, ContiFermi
  <2>3. InvAccesso'
    BY <1>0, <1>2, AccessoStep
  <2>4. Soli'
    BY <1>2 DEF Soli
  <2> QED BY <2>2, <2>3, <2>4 DEF InvIdentita
<1>3. ASSUME caso # "sessioni", Conti!Next, UNCHANGED <<varsSessioni, accessi, daQuanto, caso>>
      PROVE  InvIdentita'
  <2>1. ContiP!Next
    BY <1>3, ContiStesso
  <2>2. ContiP!InvConti' /\ UNCHANGED store
    BY <1>0, <2>1, ContiP!ContiPasso, ContiP!StoreFermo
  <2>3. UNCHANGED varsAccesso
    BY <1>3, <2>2 DEF varsAccesso, vars, varsSessioni
  <2>4. InvAccesso'
    BY <1>0, <2>3, AccessoStep
  <2>5. Soli'
    BY <1>3 DEF Soli
  <2> QED BY <2>2, <2>4, <2>5 DEF InvIdentita
<1>4. CASE UNCHANGED varsIdentita
  <2>1. UNCHANGED <<varsAccesso, varsConti, caso>>
    BY <1>4 DEF varsIdentita
  <2>2. UNCHANGED <<store, accessi, daQuanto>>
    BY <2>1 DEF varsAccesso, vars
  <2>3. InvAccesso' /\ ContiP!InvConti'
    BY <1>0, <2>1, <2>2, AccessoStep, ContiFermi
  <2>4. Soli'
    BY <1>0, <2>1, <2>2 DEF Soli
  <2> QED BY <2>3, <2>4 DEF InvIdentita
<1> QED BY <1>1, <1>2, <1>3, <1>4 DEF NextIdentita, PassoAccessi, PassoConti, PassoFattore

LEMMA IdentitaSempre == SpecIdentita => []InvIdentita
BY IdentitaInit, IdentitaStep, PTL DEF SpecIdentita

\* The variables of every part keep their types (Identita.TypeIdentita).
THEOREM TypeIdentitaIdentita == SpecIdentita => []TypeIdentita
<1>1. InvIdentita => TypeIdentita
  BY InvAccessoDice, ContiDicono DEF InvIdentita, TypeIdentita
<1> QED BY <1>1, IdentitaSempre, PTL

\* However many requests present a one-time token at one time, over MongoStore
\* between the look and the update of one another, it is accepted at most once
\* (Identita.TokenUnaVolta).
THEOREM TokenUnaVoltaIdentita == SpecIdentita => []TokenUnaVolta
<1>1. InvIdentita => TokenUnaVolta
  BY ContiDicono DEF InvIdentita, TokenUnaVolta
<1> QED BY <1>1, IdentitaSempre, PTL

\* A password was set by a token to reset or to activate that was accepted, and
\* an active account has one to verify or to activate that was
\* (Identita.SoloConToken).
THEOREM SoloConTokenIdentita == SpecIdentita => []SoloConToken
<1>1. InvIdentita => SoloConToken
  BY ContiDicono DEF InvIdentita, SoloConToken
<1> QED BY <1>1, IdentitaSempre, PTL

\* Unless a handler stopped halfway, an invited user who has set his password
\* is active once the handlers are done, whichever handlers of the same
\* account ran at the same time (Identita.InvitoCompleto).
THEOREM InvitoCompletoIdentita == SpecIdentita => []InvitoCompleto
<1>1. InvIdentita => InvitoCompleto
  BY ContiDicono DEF InvIdentita, InvitoCompleto
<1> QED BY <1>1, IdentitaSempre, PTL

\* With no handler stopped halfway, and the handlers of one account's second
\* factor run one at a time, a user with the second factor on was shown the
\* secret it is computed from (Identita.SecondoFattoreUsabile).
THEOREM SecondoFattoreUsabileIdentita == SpecIdentita => []SecondoFattoreUsabile
<1>1. InvIdentita => SecondoFattoreUsabile
  BY ContiDicono DEF InvIdentita, SecondoFattoreUsabile
<1> QED BY <1>1, IdentitaSempre, PTL

=============================================================================
