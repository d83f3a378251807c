-------------------------------- MODULE Sessioni --------------------------------
(***************************************************************************)
(* Refresh sessions: opened by a login, rotated by every refresh, closed   *)
(* by a logout, by the administrator (one, or all those of a user) and by  *)
(* time.  A refresh makes three calls to the store - it looks at the old   *)
(* session, opens the new one, revokes the old one - and ignores the       *)
(* results of the last two.                                                *)
(*                                                                         *)
(* A refresh token names one session and is signed with it; it is          *)
(* identified with the session here.  Time is kept as the set of the       *)
(* sessions whose ExpiresAt (seven days) has passed.  Access tokens are    *)
(* not looked up in the store: Accesso adds them.                          *)
(***************************************************************************)
EXTENDS Mappe, FiniteSets

CONSTANTS Utenti,
          SessioneId,   \* uuids of sessions
          Scadono,      \* bound: the sessions that may live to their ExpiresAt
          Richieste     \* handlers in flight at one time

VARIABLES store,        \* the DataStore main() has chosen: "memory" or "mongo"
          sessioni,     \* the stored sessions: id -> [utente, revocata]
          scadute,      \* ids whose ExpiresAt has passed
          volo,         \* handler -> what it does next
          padre,        \* id -> the session it replaced (history)
          chiusi,       \* users all whose sessions were revoked, while none was
                        \* being refreshed, and with no login since (history)
          guasto        \* has a call failed or a handler crashed (history)

vars == <<store, sessioni, scadute, volo, padre, chiusi, guasto>>

Vuoto == ""

\* A uuid is never empty; the process runs finitely many handlers at a time.
ASSUME SessioniAssumption == Vuoto \notin SessioneId /\ IsFiniteSet(Richieste)

Sessione == [utente : Utenti, revocata : BOOLEAN]

\* A refresh of session `id`, or the revocation of all the sessions of
\* `utente`, with those it has still to look at.
InVolo == [passo  : {"crea", "revoca", "tutte"},
           id     : SessioneId \cup {Vuoto},
           utente : Utenti,
           resto  : SUBSET SessioneId]

TypeOK ==
  /\ DOMAIN padre \subseteq SessioneId
  /\ padre \in [DOMAIN padre -> SessioneId \cup {Vuoto}]
  /\ DOMAIN sessioni \subseteq DOMAIN padre
  /\ sessioni \in [DOMAIN sessioni -> Sessione]
  /\ scadute \subseteq DOMAIN padre
  /\ DOMAIN volo \subseteq Richieste
  /\ volo \in [DOMAIN volo -> InVolo]
  /\ chiusi \subseteq Utenti
  /\ guasto \in BOOLEAN
  /\ store \in {"memory", "mongo"}

Init ==
  /\ store \in {"memory", "mongo"}
  /\ sessioni = << >>
  /\ scadute = {}
  /\ volo = << >>
  /\ padre = << >>
  /\ chiusi = {}
  /\ guasto = FALSE

Libera(r) == r \notin DOMAIN volo

Attende(r, passo) == r \in DOMAIN volo /\ volo[r].passo = passo

Segue(r, passo, id, u, resto) ==
  volo' = Con(volo, r, [passo |-> passo, id |-> id, utente |-> u, resto |-> resto])

Finisci(r) == volo' = Senza(volo, r)

\* A session a refresh would accept.
Attiva(id) ==
  id \in DOMAIN sessioni /\ ~sessioni[id].revocata /\ id \notin scadute

Di(u) == {id \in DOMAIN sessioni : sessioni[id].utente = u}

InRefresh(u) == \E r \in DOMAIN volo : volo[r].passo = "crea" /\ volo[r].utente = u

InRevoca(u) == \E r \in DOMAIN volo : volo[r].passo = "tutte" /\ volo[r].utente = u

Togli(ids) == Restrict(sessioni, DOMAIN sessioni \ ids)

RevocaTra(ids) ==
  [id \in DOMAIN sessioni |->
     IF id \in ids THEN [sessioni[id] EXCEPT !.revocata = TRUE] ELSE sessioni[id]]

-----------------------------------------------------------------------------
(* Login and refresh.                                                      *)

\* Mutant: the session is stored for no user.
ApreSenzaUtente(u, id, da) ==
  /\ id \notin DOMAIN padre
  /\ sessioni' = Con(sessioni, id, [utente |-> Vuoto, revocata |-> FALSE])
  /\ padre' = Con(padre, id, da)

\* CreateRefreshSession under a fresh uuid.
Apre(u, id, da) ==
  /\ id \notin DOMAIN padre
  /\ sessioni' = Con(sessioni, id, [utente |-> u, revocata |-> FALSE])
  /\ padre' = Con(padre, id, da)

\* The last call of a login that succeeds.
Login(u, id) ==
  /\ Apre(u, id, Vuoto)
  /\ chiusi' = chiusi \ {u}
  /\ UNCHANGED <<store, scadute, volo, guasto>>

RefreshGet(r, id) ==
  /\ Libera(r)
  /\ Attiva(id)
  /\ Segue(r, "crea", id, sessioni[id].utente, {})
  /\ chiusi' = IF InRevoca(sessioni[id].utente) THEN chiusi \ {sessioni[id].utente}
                                               ELSE chiusi
  /\ UNCHANGED <<store, sessioni, scadute, padre, guasto>>

\* GetRefreshSessionByID drops a session that has expired.
RefreshScaduta(id) ==
  /\ id \in DOMAIN sessioni \cap scadute
  /\ sessioni' = Togli({id})
  /\ UNCHANGED <<store, scadute, volo, padre, chiusi, guasto>>

\* Mutant: the new session is stored under the id of the old one.
RefreshCreateStessoId(r, nuova) ==
  /\ Attende(r, "crea")
  /\ sessioni' = Con(sessioni, volo[r].id,
                     [utente |-> volo[r].utente, revocata |-> FALSE])
  /\ Segue(r, "revoca", volo[r].id, volo[r].utente, {})
  /\ UNCHANGED <<store, scadute, padre, chiusi, guasto>>

RefreshCreate(r, nuova) ==
  /\ Attende(r, "crea")
  /\ Apre(volo[r].utente, nuova, volo[r].id)
  /\ Segue(r, "revoca", volo[r].id, volo[r].utente, {})
  /\ UNCHANGED <<store, scadute, chiusi, guasto>>

\* Mutant: the answer is sent before the old session is revoked.
RefreshRevokeMai(r) ==
  /\ Attende(r, "revoca")
  /\ Finisci(r)
  /\ UNCHANGED <<store, sessioni, scadute, padre, chiusi, guasto>>

\* RevokeRefreshSession does nothing to a session that is gone.
RefreshRevoke(r) ==
  /\ Attende(r, "revoca")
  /\ sessioni' = RevocaTra({volo[r].id})
  /\ Finisci(r)
  /\ UNCHANGED <<store, scadute, padre, chiusi, guasto>>

-----------------------------------------------------------------------------
(* Closing sessions.                                                       *)

\* The token must still be valid: an expired one does not parse.
Logout(id) ==
  /\ id \in DOMAIN sessioni \ scadute
  /\ sessioni' = RevocaTra({id})
  /\ UNCHANGED <<store, scadute, volo, padre, chiusi, guasto>>

BORevokeSession(id) ==
  /\ id \in DOMAIN sessioni
  /\ sessioni' = RevocaTra({id})
  /\ UNCHANGED <<store, scadute, volo, padre, chiusi, guasto>>

Chiude(u) == chiusi' = IF InRefresh(u) THEN chiusi ELSE chiusi \cup {u}

\* Mutant: expired sessions are dropped and the others left as they are.
RevokeAllSoloScadute(u) ==
  /\ store = "memory"
  /\ sessioni' = Togli(Di(u) \cap scadute)
  /\ Chiude(u)
  /\ UNCHANGED <<store, scadute, volo, padre, guasto>>

\* MemoryStore.RevokeAllRefreshSessionsByUser drops those that have expired.
RevokeAllMemory(u) ==
  /\ store = "memory"
  /\ sessioni' = Restrict(RevocaTra(Di(u)), DOMAIN sessioni \ (Di(u) \cap scadute))
  /\ Chiude(u)
  /\ UNCHANGED <<store, scadute, volo, padre, guasto>>

\* MongoStore's UpdateMany goes through the documents one by one ...
RevokeAllMongo(r, u) ==
  /\ store = "mongo"
  /\ Libera(r)
  /\ Segue(r, "tutte", Vuoto, u, {id \in Di(u) : Attiva(id)})
  /\ Chiude(u)
  /\ UNCHANGED <<store, sessioni, scadute, padre, guasto>>

\* ... (it may or may not meet those inserted in the meantime) ...
RevokeAllUna(r, id) ==
  /\ Attende(r, "tutte")
  /\ id \in Di(volo[r].utente) \cup volo[r].resto
  /\ sessioni' = RevocaTra({id})
  /\ Segue(r, "tutte", Vuoto, volo[r].utente, volo[r].resto \ {id})
  /\ UNCHANGED <<store, scadute, padre, chiusi, guasto>>

\* ... and answers when it has met all those there were.
RevokeAllFine(r) ==
  /\ Attende(r, "tutte")
  /\ volo[r].resto = {}
  /\ Finisci(r)
  /\ UNCHANGED <<store, sessioni, scadute, padre, chiusi, guasto>>

\* The list of the sessions of a user drops every session that has expired.
BOListUserSessions ==
  /\ scadute \cap DOMAIN sessioni # {}
  /\ sessioni' = Togli(scadute)
  /\ UNCHANGED <<store, scadute, volo, padre, chiusi, guasto>>

Scade(id) ==
  /\ id \in (Scadono \cap DOMAIN padre) \ scadute
  /\ scadute' = scadute \cup {id}
  /\ UNCHANGED <<store, sessioni, volo, padre, chiusi, guasto>>

-----------------------------------------------------------------------------
(* Failures.                                                               *)

\* A crash of the process, or a revocation that fails and is ignored.  The
\* process holds the MemoryStore: nothing survives its crash.
Cade(r) ==
  /\ store = "mongo"
  /\ r \in DOMAIN volo
  /\ Finisci(r)
  /\ guasto' = TRUE
  /\ UNCHANGED <<store, sessioni, scadute, padre, chiusi>>

\* CreateRefreshSession fails, ignored: the token sent names no session.
CreateFallisce(r) ==
  /\ store = "mongo"
  /\ Attende(r, "crea")
  /\ Segue(r, "revoca", volo[r].id, volo[r].utente, {})
  /\ guasto' = TRUE
  /\ UNCHANGED <<store, sessioni, scadute, padre, chiusi>>

-----------------------------------------------------------------------------

Prosegue(r) ==
  \/ \E id \in SessioneId : RefreshCreate(r, id)
  \/ RefreshRevoke(r)
  \/ \E id \in SessioneId : RevokeAllUna(r, id)
  \/ RevokeAllFine(r)

Next ==
  \/ \E u \in Utenti : \/ \E id \in SessioneId : Login(u, id)
                       \/ RevokeAllMemory(u)
                       \/ \E r \in Richieste : RevokeAllMongo(r, u)
  \/ \E id \in SessioneId :
       \/ \E r \in Richieste : RefreshGet(r, id)
       \/ RefreshScaduta(id)
       \/ Logout(id)
       \/ BORevokeSession(id)
       \/ Scade(id)
  \/ BOListUserSessions
  \/ \E r \in Richieste : Prosegue(r) \/ Cade(r) \/ CreateFallisce(r)

Spec == Init /\ [][Next]_vars

-----------------------------------------------------------------------------
(* Properties.                                                             *)

Eredi(id) == {a \in DOMAIN padre : padre[a] = id}

\* Refreshes of one session may overlap, and each then opens a session of its
\* own; but no more than the handlers that can be in flight at one time: a
\* rotated token cannot be used again and again.
ErediLimitati ==
  ~guasto => \A id \in DOMAIN padre : Cardinality(Eredi(id)) <= Cardinality(Richieste)

\* Once the administrator has revoked all the sessions of a user, with no
\* refresh in flight, none is active until the user logs in again.
RevocaTutteChiude ==
  ~guasto => \A id \in DOMAIN sessioni :
               sessioni[id].utente \in chiusi /\ ~InRevoca(sessioni[id].utente)
                 => ~Attiva(id)

\* A session that was revoked, has expired or was dropped is never active
\* again, with calls that fail, crashes, and every race of refreshes,
\* logouts and revocations.
ChiusaResta ==
  [][\A id \in DOMAIN padre : ~Attiva(id) => ~Attiva(id)']_vars

=============================================================================
