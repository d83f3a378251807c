-------------------------------- MODULE Accesso --------------------------------
(***************************************************************************)
(* Access tokens over the refresh sessions.  A login and every refresh     *)
(* sign one; the middleware lets a request in on the signature, the type   *)
(* and the expiry of its token alone, so that closing the sessions of a    *)
(* user does not stop the tokens that are out.  They end with their        *)
(* lifetime.                                                               *)
(*                                                                         *)
(* A token is its user and its age.  Time passes in ticks, at any moment,  *)
(* also between two calls of a handler; Durata ticks are the 15 minutes.   *)
(***************************************************************************)
EXTENDS Sessioni, Naturals

CONSTANT Durata

ASSUME DurataAssumption == Durata \in Nat \ {0}

VARIABLES accessi,   \* access tokens that have not expired
          daQuanto   \* user -> ticks since all his sessions were revoked (history)

varsAccesso == <<vars, accessi, daQuanto>>

TypeAccesso ==
  /\ TypeOK
  /\ accessi \subseteq [utente : Utenti, eta : 0..Durata - 1]
  /\ daQuanto \in [Utenti -> 0..Durata]
  /\ \A u \in Utenti \ chiusi : daQuanto[u] = 0

InitAccesso ==
  /\ Init
  /\ accessi = {}
  /\ daQuanto = [u \in Utenti |-> 0]

\* SignAccess
Firma(u) == accessi' = accessi \cup {[utente |-> u, eta |-> 0]}

\* The count of a user starts again when his sessions do.
Conta == daQuanto' = [u \in Utenti |-> IF u \in chiusi' THEN daQuanto[u] ELSE 0]

\* The session may not be stored: the tokens are sent all the same.
LoginAccesso(u) ==
  /\ \/ \E id \in SessioneId : Login(u, id)
     \/ /\ store = "mongo"
        /\ chiusi' = chiusi \ {u}
        /\ guasto' = TRUE
        /\ UNCHANGED <<store, sessioni, scadute, volo, padre>>
  /\ Firma(u)
  /\ Conta

\* The refresh signs between its look at the session and the new session.
RefreshAccesso(r) ==
  /\ Attende(r, "crea")
  /\ Firma(volo[r].utente)
  /\ CreateFallisce(r) \/ \E id \in SessioneId : RefreshCreate(r, id)
  /\ Conta

\* Everything else leaves the tokens alone.
AltroAccesso ==
  /\ \/ \E u \in Utenti : RevokeAllMemory(u) \/ \E r \in Richieste : RevokeAllMongo(r, u)
     \/ \E id \in SessioneId :
          \/ \E r \in Richieste : RefreshGet(r, id) \/ RevokeAllUna(r, id)
          \/ RefreshScaduta(id) \/ Logout(id) \/ BORevokeSession(id) \/ Scade(id)
     \/ BOListUserSessions
     \/ \E r \in Richieste : RefreshRevoke(r) \/ RevokeAllFine(r) \/ Cade(r)
  /\ Conta
  /\ UNCHANGED accessi

Invecchiati == {[t EXCEPT !.eta = @ + 1] : t \in {s \in accessi : s.eta + 1 < Durata}}

\* One tick; the count waits for a revocation that is under way.
Tick ==
  /\ accessi' = Invecchiati
  /\ daQuanto' = [u \in Utenti |->
       IF u \in chiusi /\ ~InRevoca(u) /\ daQuanto[u] < Durata
       THEN daQuanto[u] + 1 ELSE daQuanto[u]]
  /\ UNCHANGED vars

NextAccesso ==
  \/ \E u \in Utenti : LoginAccesso(u)
  \/ \E r \in Richieste : RefreshAccesso(r)
  \/ AltroAccesso
  \/ Tick

SpecAccesso == InitAccesso /\ [][NextAccesso]_varsAccesso

-----------------------------------------------------------------------------
(* Properties.                                                             *)

\* Mutant: the middleware does not look at the type of the token.
AmmessoOgniTipo(u) ==
  \/ \E t \in accessi : t.utente = u
  \/ \E id \in Di(u) : id \notin scadute

\* authMiddleware lets in a request of u.
Ammesso(u) == \E t \in accessi : t.utente = u

\* Fifteen minutes after the administrator has revoked all the sessions of a
\* user, none of his requests is let in until he logs in again, whatever was
\* signed, refreshed or retried before - if none of his refreshes was between
\* two of its calls when the revocation began.
RevocaEntroDurata ==
  ~guasto => \A u \in chiusi : daQuanto[u] = Durata => ~Ammesso(u)

=============================================================================
