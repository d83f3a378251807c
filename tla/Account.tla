--------------------------------- MODULE Account ---------------------------------
(***************************************************************************)
(* Accounts: created inactive by a registration or an invitation, with a   *)
(* one-time token; activated by the token; their password set again by     *)
(* another; and the second factor of the back-office users.                *)
(*                                                                         *)
(* Every handler makes several calls to the store and most ignore the      *)
(* results of some.  MemoryStore consumes a token in one call, MongoStore  *)
(* in two (FindOne, then a conditional UpdateOne).  Over MongoStore calls  *)
(* may fail and processes crash.                                           *)
(*                                                                         *)
(* The fields Attivo and EmailVerificata are always written together and   *)
(* are one here.  A password is identified with the token that set it, a   *)
(* code of the second factor with the secret it was computed from.         *)
(***************************************************************************)
EXTENDS Mappe, Naturals

CONSTANTS Utenti,      \* e-mail addresses, one account each
          Token,       \* fresh random strings
          Segreti,     \* TOTP secrets
          Richieste    \* handlers in flight at one time

VARIABLES store,       \* "memory" or "mongo"
          utenti,      \* account -> [attivo, password, segreto, abilitata]
          tokens,      \* token -> [scopo, utente, usato]
          scaduti,     \* tokens whose ExpiresAt has passed
          volo,        \* handler -> what it does next
          generati,    \* token -> its purpose, for those ever given (history)
          consumi,     \* token -> times it was accepted (history)
          mostrati,    \* account -> secrets sent to its user (history)
          guasto,      \* did a handler stop halfway (history)
          sovrapposti  \* did two handlers of the second factor of one account
                       \* overlap (history)

vars == <<store, utenti, tokens, scaduti, volo, generati, consumi, mostrati,
          guasto, sovrapposti>>

account == <<utenti, mostrati, guasto, sovrapposti>>

gettoni == <<tokens, scaduti, generati, consumi>>

Vuoto == ""

Scopi == {"email_verification", "account_activation", "password_reset"}

Utente == [attivo    : BOOLEAN,
           password  : Token \cup {Vuoto},     \* Vuoto: the one it was created with
           segreto   : Segreti \cup {Vuoto},
           abilitata : BOOLEAN]

Gettone == [scopo : Scopi, utente : Utenti, usato : BOOLEAN]

PassiToken == {"token", "update", "password", "attiva"}

Passi2FA == {"setup_off", "enable_on", "disable_off", "disable_segreto"}

InVolo == [passo  : PassiToken \cup Passi2FA,
           utente : Utenti,
           scopo  : Scopi \cup {Vuoto},           \* of the token
           tok    : Token \cup {Vuoto},
           per    : {"reset", "verify", Vuoto},   \* endpoint that consumes
           nuovo  : Segreti \cup {Vuoto}]         \* secret to show

TypeOK ==
  /\ store \in {"memory", "mongo"}
  /\ DOMAIN utenti \subseteq Utenti
  /\ utenti \in [DOMAIN utenti -> Utente]
  /\ DOMAIN tokens \subseteq DOMAIN generati
  /\ DOMAIN generati \subseteq Token
  /\ generati \in [DOMAIN generati -> Scopi]
  /\ tokens \in [DOMAIN tokens -> Gettone]
  /\ scaduti \subseteq DOMAIN generati
  /\ DOMAIN volo \subseteq Richieste
  /\ volo \in [DOMAIN volo -> InVolo]
  /\ consumi \in [Token -> Nat]
  /\ mostrati \in [Utenti -> SUBSET Segreti]
  /\ guasto \in BOOLEAN /\ sovrapposti \in BOOLEAN

Init ==
  /\ store \in {"memory", "mongo"}
  /\ utenti = << >>
  /\ tokens = << >>
  /\ scaduti = {}
  /\ volo = << >>
  /\ generati = << >>
  /\ consumi = [t \in Token |-> 0]
  /\ mostrati = [u \in Utenti |-> {}]
  /\ guasto = FALSE
  /\ sovrapposti = FALSE

Libera(r) == r \notin DOMAIN volo

Attende(r, passo) == r \in DOMAIN volo /\ volo[r].passo = passo

Lavoro(passo, u) ==
  [passo |-> passo, utente |-> u, scopo |-> Vuoto, tok |-> Vuoto, per |-> Vuoto,
   nuovo |-> Vuoto]

Segue(r, lavoro) == volo' = Con(volo, r, lavoro)

Finisci(r) == volo' = Senza(volo, r)

NuovoToken(t, scopo, u) ==
  /\ t \notin DOMAIN generati
  /\ generati' = Con(generati, t, scopo)
  /\ tokens' = Con(tokens, t, [scopo |-> scopo, utente |-> u, usato |-> FALSE])
  /\ UNCHANGED <<scaduti, consumi>>

-----------------------------------------------------------------------------
(* New accounts and new tokens.                                            *)

\* CreateUser of a registration (scope "email_verification") or of an
\* invitation ("account_activation"); the account exists without a token ...
CreateUser(r, u, scopo) ==
  /\ Libera(r)
  /\ u \notin DOMAIN utenti
  /\ utenti' = Con(utenti, u, [attivo |-> FALSE, password |-> Vuoto,
                               segreto |-> Vuoto, abilitata |-> FALSE])
  /\ Segue(r, [Lavoro("token", u) EXCEPT !.scopo = scopo])
  /\ UNCHANGED <<store, gettoni, mostrati, guasto, sovrapposti>>

\* ... until the second call.
CreateToken(r, t) ==
  /\ Attende(r, "token")
  /\ NuovoToken(t, volo[r].scopo, volo[r].utente)
  /\ Finisci(r)
  /\ UNCHANGED <<store, account>>

ForgotPassword(u, t) ==
  /\ u \in DOMAIN utenti
  /\ NuovoToken(t, "password_reset", u)
  /\ UNCHANGED <<store, account, volo>>

Scade(t) ==
  /\ t \in DOMAIN generati \ scaduti
  /\ scaduti' = scaduti \cup {t}
  /\ UNCHANGED <<store, account, tokens, generati, consumi, volo>>

-----------------------------------------------------------------------------
(* Consuming a token.                                                      *)

Valido(t) == t \in DOMAIN tokens /\ ~tokens[t].usato /\ t \notin scaduti

\* Mutant: the endpoint that sets passwords accepts a token of any purpose.
AdattoQualunque(scopo, per) == per = "reset" \/ scopo = "email_verification"

\* purposeMatches, for the endpoint that consumes.  (A token without a purpose
\* suits both; no handler creates one.)
Adatto(scopo, per) ==
  \/ scopo = Vuoto
  \/ per = "verify" /\ scopo = "email_verification"
  \/ per # "verify" /\ scopo \in {"password_reset", "account_activation"}

\* What the handler does with a token it has consumed: nothing, if its
\* purpose is another's (the token is spent all the same).
DopoConsumo(r, t, per) ==
  LET lavoro == [Lavoro(IF per = "reset" THEN "password" ELSE "attiva",
                        tokens[t].utente)
                   EXCEPT !.tok = t, !.scopo = tokens[t].scopo]
  IN  /\ tokens' = [tokens EXCEPT ![t].usato = TRUE]
      /\ consumi' = [consumi EXCEPT ![t] = @ + 1]
      /\ IF Adatto(tokens[t].scopo, per) THEN Segue(r, lavoro) ELSE Finisci(r)

ConsumeMemory(r, t, per) ==
  /\ store = "memory"
  /\ Libera(r)
  /\ Valido(t)
  /\ DopoConsumo(r, t, per)
  /\ UNCHANGED <<store, account, scaduti, generati>>

ConsumeFind(r, t, per) ==
  /\ store = "mongo"
  /\ Libera(r)
  /\ Valido(t)
  /\ Segue(r, [Lavoro("update", tokens[t].utente) EXCEPT !.tok = t, !.per = per])
  /\ UNCHANGED <<store, account, gettoni>>

\* Mutant: the update does not ask again whether the token is unused.
ConsumeUpdateSenzaFiltro(r) ==
  /\ Attende(r, "update")
  /\ LET t == volo[r].tok IN
       IF t \in DOMAIN tokens
       THEN DopoConsumo(r, t, volo[r].per)
       ELSE Finisci(r) /\ UNCHANGED <<tokens, consumi>>
  /\ UNCHANGED <<store, account, scaduti, generati>>

\* The filter compares the expiry with the time of the FindOne: a token that
\* was valid then is, unless used or deleted since.
ConsumeUpdate(r) ==
  /\ Attende(r, "update")
  /\ LET t == volo[r].tok IN
       IF t \in DOMAIN tokens /\ ~tokens[t].usato
       THEN DopoConsumo(r, t, volo[r].per)
       ELSE Finisci(r) /\ UNCHANGED <<tokens, consumi>>
  /\ UNCHANGED <<store, account, scaduti, generati>>

\* A token found used or expired is deleted.
ConsumeScarta(t) ==
  /\ t \in DOMAIN tokens
  /\ ~Valido(t)
  /\ tokens' = Senza(tokens, t)
  /\ UNCHANGED <<store, account, scaduti, generati, consumi, volo>>

\* Mutant: the invited user is not activated.
UpdateUserPasswordSenzaAttivare(r) ==
  /\ Attende(r, "password")
  /\ utenti' = [utenti EXCEPT ![volo[r].utente].password = volo[r].tok]
  /\ Finisci(r)
  /\ UNCHANGED <<store, gettoni, mostrati, guasto, sovrapposti>>

\* A password was set with an invitation: the user is activated too.
UpdateUserPassword(r) ==
  /\ Attende(r, "password")
  /\ utenti' = [utenti EXCEPT ![volo[r].utente].password = volo[r].tok]
  /\ IF volo[r].scopo = "account_activation"
     THEN Segue(r, [volo[r] EXCEPT !.passo = "attiva"])
     ELSE Finisci(r)
  /\ UNCHANGED <<store, gettoni, mostrati, guasto, sovrapposti>>

\* The new password cannot be hashed (bcrypt takes 72 bytes): the token is spent,
\* and nothing is written.
PasswordRifiutata(r) ==
  /\ Attende(r, "password")
  /\ Finisci(r)
  /\ UNCHANGED <<store, gettoni, utenti, mostrati, guasto, sovrapposti>>

SetUserVerificationState(r) ==
  /\ Attende(r, "attiva")
  /\ utenti' = [utenti EXCEPT ![volo[r].utente].attivo = TRUE]
  /\ Finisci(r)
  /\ UNCHANGED <<store, gettoni, mostrati, guasto, sovrapposti>>

-----------------------------------------------------------------------------
(* The second factor.  The user is logged in.                              *)

In2FA(u) == \E r \in DOMAIN volo : volo[r].passo \in Passi2FA /\ volo[r].utente = u

Inizia2FA(r, u) ==
  /\ Libera(r)
  /\ u \in DOMAIN utenti
  /\ utenti[u].attivo
  /\ sovrapposti' = (sovrapposti \/ In2FA(u))
  /\ UNCHANGED guasto

\* A code that the user can compute from what he was shown.
CodiceValido(u) == utenti[u].segreto \in mostrati[u]

\* Secrets are random: a new one is nobody's.
Nuovo(s) ==
  /\ \A u \in Utenti : s \notin mostrati[u]
  /\ \A u \in DOMAIN utenti : utenti[u].segreto # s
  /\ \A r \in DOMAIN volo : volo[r].nuovo # s

\* handle2FASetup stores a new secret ...
SetupSecret(r, u, s) ==
  /\ Inizia2FA(r, u)
  /\ Nuovo(s)
  /\ utenti' = [utenti EXCEPT ![u].segreto = s]
  /\ Segue(r, [Lavoro("setup_off", u) EXCEPT !.nuovo = s])
  /\ UNCHANGED <<store, gettoni, mostrati>>

Mostra(r) == mostrati' = [mostrati EXCEPT ![volo[r].utente] = @ \cup {volo[r].nuovo}]

\* Mutant: the second factor is left on while the new secret is confirmed.
SetupOffResta(r) ==
  /\ Attende(r, "setup_off")
  /\ Finisci(r)
  /\ UNCHANGED <<store, utenti, gettoni, mostrati, guasto, sovrapposti>>

\* ... turns the second factor off, and shows the secret.
SetupOff(r) ==
  /\ Attende(r, "setup_off")
  /\ utenti' = [utenti EXCEPT ![volo[r].utente].abilitata = FALSE]
  /\ Mostra(r)
  /\ Finisci(r)
  /\ UNCHANGED <<store, gettoni, guasto, sovrapposti>>

\* handle2FAEnable: the user was found with a secret, and the code is right ...
EnableGet(r, u) ==
  /\ Inizia2FA(r, u)
  /\ CodiceValido(u)
  /\ Segue(r, Lavoro("enable_on", u))
  /\ UNCHANGED <<store, utenti, gettoni, mostrati>>

\* ... and the second factor is turned on, whatever the secret is now.
EnableOn(r) ==
  /\ Attende(r, "enable_on")
  /\ utenti' = [utenti EXCEPT ![volo[r].utente].abilitata = TRUE]
  /\ Finisci(r)
  /\ UNCHANGED <<store, gettoni, mostrati, guasto, sovrapposti>>

\* handle2FADisable: no code is asked for when it is off.
DisableGet(r, u) ==
  /\ Inizia2FA(r, u)
  /\ utenti[u].abilitata => CodiceValido(u)
  /\ Segue(r, Lavoro("disable_off", u))
  /\ UNCHANGED <<store, utenti, gettoni, mostrati>>

DisableOff(r) ==
  /\ Attende(r, "disable_off")
  /\ utenti' = [utenti EXCEPT ![volo[r].utente].abilitata = FALSE]
  /\ Segue(r, [volo[r] EXCEPT !.passo = "disable_segreto"])
  /\ UNCHANGED <<store, gettoni, mostrati, guasto, sovrapposti>>

DisableSecret(r) ==
  /\ Attende(r, "disable_segreto")
  /\ utenti' = [utenti EXCEPT ![volo[r].utente].segreto = Vuoto]
  /\ Finisci(r)
  /\ UNCHANGED <<store, gettoni, mostrati, guasto, sovrapposti>>

-----------------------------------------------------------------------------
(* Failures, over MongoStore.  (MemoryStore is lost with its process.)     *)

\* A crash, or a call that fails and ends the handler.
Cade(r) ==
  /\ store = "mongo"
  /\ r \in DOMAIN volo
  /\ Finisci(r)
  /\ guasto' = TRUE
  /\ UNCHANGED <<store, utenti, gettoni, mostrati, sovrapposti>>

\* The call that turns the second factor off fails, ignored.
SetupOffFallisce(r) ==
  /\ store = "mongo"
  /\ Attende(r, "setup_off")
  /\ Mostra(r)
  /\ Finisci(r)
  /\ UNCHANGED <<store, utenti, gettoni, guasto, sovrapposti>>

-----------------------------------------------------------------------------

Prosegue(r) ==
  \/ \E t \in Token : CreateToken(r, t)
  \/ ConsumeUpdate(r)
  \/ UpdateUserPassword(r)
  \/ PasswordRifiutata(r)
  \/ SetUserVerificationState(r)
  \/ SetupOff(r)
  \/ EnableOn(r)
  \/ DisableOff(r)
  \/ DisableSecret(r)

Comincia(r) ==
  \/ \E u \in Utenti :
       \/ \E scopo \in {"email_verification", "account_activation"} :
            CreateUser(r, u, scopo)
       \/ \E s \in Segreti : SetupSecret(r, u, s)
       \/ EnableGet(r, u)
       \/ DisableGet(r, u)
  \/ \E t \in Token, per \in {"reset", "verify"} :
       \/ ConsumeMemory(r, t, per)
       \/ ConsumeFind(r, t, per)

Next ==
  \/ \E r \in Richieste : Comincia(r) \/ Prosegue(r) \/ Cade(r) \/ SetupOffFallisce(r)
  \/ \E t \in Token : \/ \E u \in Utenti : ForgotPassword(u, t)
                      \/ Scade(t)
                      \/ ConsumeScarta(t)

Spec == Init /\ [][Next]_vars

-----------------------------------------------------------------------------
(* Properties.                                                             *)

\* However many requests present it at one time, and whatever fails, a token
\* is accepted once (server_auth_password_reset_test.go:81, "token is one
\* time").
TokenUnaVolta == \A t \in Token : consumi[t] <= 1

\* Only a token to reset or to activate, once accepted, sets a password, and
\* only one to verify or to activate makes an account active: the token is
\* consumed before its purpose is looked at, and the write comes one or two
\* calls later.
SoloConToken ==
  \A u \in DOMAIN utenti :
    /\ utenti[u].password # Vuoto =>
         LET t == utenti[u].password
         IN  consumi[t] > 0 /\ generati[t] # "email_verification"
    /\ utenti[u].attivo =>
         \E t \in DOMAIN generati : consumi[t] > 0 /\ generati[t] # "password_reset"

\* Unless a handler stops halfway, an invited user who has set his password is
\* active when the handlers are done.  (One that stops leaves him with a used
\* token and no other way in.)
InvitoCompleto ==
  ~guasto => \A u \in DOMAIN utenti :
    LET t == utenti[u].password
    IN  t # Vuoto /\ generati[t] = "account_activation" /\ volo = << >>
          => utenti[u].attivo

\* When the handlers of the second factor of an account have run one at a time
\* and to their end, a user with the second factor on can compute its codes:
\* he is not shut out.  (Overlapping or halted handlers can shut him out.)
SecondoFattoreUsabile ==
  ~(guasto \/ sovrapposti) =>
    \A u \in DOMAIN utenti :
      utenti[u].abilitata /\ ~In2FA(u) => CodiceValido(u)

=============================================================================
