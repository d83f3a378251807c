----------------------------- MODULE Account_proofs -----------------------------
(***************************************************************************)
(* For any number of accounts, tokens, secrets and concurrent handlers,    *)
(* over both stores, with calls that fail and crashes: a one-time token is *)
(* accepted once, and only a token for it sets a password or activates an  *)
(* account.  And when no handler stops halfway, an invited user is         *)
(* activated and the second factor can be used.                            *)
(***************************************************************************)
EXTENDS Account, TLAPS

-----------------------------------------------------------------------------
(* The inductive invariant: of the tokens, the handlers and the accounts.  *)

TipiToken ==
  /\ DOMAIN tokens \subseteq DOMAIN generati
  /\ DOMAIN generati \subseteq Token
  /\ generati \in [DOMAIN generati -> Scopi]
  /\ tokens \in [DOMAIN tokens -> Gettone]
  /\ scaduti \subseteq DOMAIN generati
  /\ consumi \in [Token -> Nat]

\* A stored token keeps the purpose it was given for; one that is unused was
\* not accepted, nor was one that was never given.
TokenCoerenti ==
  /\ \A t \in Token : consumi[t] <= 1 /\ (t \notin DOMAIN generati => consumi[t] = 0)
  /\ \A t \in DOMAIN tokens : /\ tokens[t].scopo = generati[t]
                              /\ ~tokens[t].usato => consumi[t] = 0

InvToken == TipiToken /\ TokenCoerenti

\* A handler that has consumed a token goes on with one that was accepted for
\* what it is about to do.
Onesto(l, dati, usi) ==
  /\ l.passo = "token" => l.scopo \in Scopi
  /\ l.passo = "update" => l.tok \in DOMAIN dati /\ l.per \in {"reset", "verify"}
  /\ l.passo = "password" =>
       /\ l.tok \in DOMAIN dati /\ usi[l.tok] > 0
       /\ dati[l.tok] = l.scopo /\ l.scopo # "email_verification"
  /\ l.passo = "attiva" =>
       /\ l.tok \in DOMAIN dati /\ usi[l.tok] > 0
       /\ dati[l.tok] # "password_reset"
  /\ l.passo = "setup_off" => l.nuovo \in Segreti

TipiVolo == DOMAIN volo \subseteq Richieste /\ volo \in [DOMAIN volo -> InVolo]

Onesti == \A r \in DOMAIN volo : Onesto(volo[r], generati, consumi)

InvVolo == TipiVolo /\ Onesti

TipiUtenti == DOMAIN utenti \subseteq Utenti /\ utenti \in [DOMAIN utenti -> Utente]

\* An account in order, as SoloConToken says.
Spiegato(a, dati, usi) ==
  /\ a.password # Vuoto =>
       /\ a.password \in DOMAIN dati /\ usi[a.password] > 0
       /\ dati[a.password] # "email_verification"
  /\ a.attivo => \E t \in DOMAIN dati : usi[t] > 0 /\ dati[t] # "password_reset"

Spiegati == \A u \in DOMAIN utenti : Spiegato(utenti[u], generati, consumi)

InvUtenti == TipiUtenti /\ Spiegati

TipiAltri ==
  /\ store \in {"memory", "mongo"}
  /\ mostrati \in [Utenti -> SUBSET Segreti]
  /\ guasto \in BOOLEAN /\ sovrapposti \in BOOLEAN

Inv == InvToken /\ InvVolo /\ InvUtenti /\ TipiAltri

LEMMA TipiInsieme == TypeOK <=> TipiToken /\ TipiVolo /\ TipiUtenti /\ TipiAltri
BY DEF TypeOK, TipiToken, TipiVolo, TipiUtenti, TipiAltri

-----------------------------------------------------------------------------
(* The tokens.                                                             *)

\* Tokens are given and accepted, never forgotten.
Cresce ==
  /\ DOMAIN generati \subseteq DOMAIN generati'
  /\ \A t \in DOMAIN generati : generati'[t] = generati[t] /\ consumi'[t] >= consumi[t]

LEMMA TokenFermi ==
  ASSUME InvToken, UNCHANGED gettoni
  PROVE  InvToken' /\ Cresce
<1>1. UNCHANGED <<tokens, scaduti, generati, consumi>>
  BY DEF gettoni
<1>2. \A t \in DOMAIN generati : consumi[t] \in Nat
  BY DEF InvToken, TipiToken
<1> QED BY <1>1, <1>2 DEF InvToken, TipiToken, TokenCoerenti, Cresce

LEMMA NuovoTokenFa ==
  ASSUME InvToken, NEW t \in Token, NEW scopo \in Scopi, NEW u \in Utenti,
         NuovoToken(t, scopo, u)
  PROVE  InvToken' /\ Cresce
<1> DEFINE g == [scopo |-> scopo, utente |-> u, usato |-> FALSE]
<1>1. /\ t \notin DOMAIN generati
      /\ generati' = Con(generati, t, scopo)
      /\ tokens' = Con(tokens, t, g)
      /\ UNCHANGED <<scaduti, consumi>>
  BY DEF NuovoToken
<1>2. g \in Gettone /\ g.scopo = scopo
  BY DEF Gettone
<1> HIDE DEF g
<1>3. /\ DOMAIN generati' = DOMAIN generati \cup {t} /\ generati'[t] = scopo
      /\ \A s \in DOMAIN generati : s # t => generati'[s] = generati[s]
  BY <1>1 DEF Con
<1>c. /\ DOMAIN tokens' = DOMAIN tokens \cup {t} /\ tokens'[t] = g
      /\ \A s \in DOMAIN tokens : s # t => tokens'[s] = tokens[s]
  BY <1>1 DEF Con
<1>4. /\ generati' \in [DOMAIN generati' -> Scopi]
      /\ tokens' \in [DOMAIN tokens' -> Gettone]
  BY <1>1, <1>2 DEF InvToken, TipiToken, Con
<1>5. TipiToken'
  BY <1>1, <1>3, <1>c, <1>4 DEF InvToken, TipiToken
<1>6. TokenCoerenti'
  BY <1>1, <1>2, <1>3, <1>c DEF InvToken, TipiToken, TokenCoerenti
<1>7. Cresce
  BY <1>1, <1>3 DEF InvToken, TipiToken, Cresce
<1> QED BY <1>5, <1>6, <1>7 DEF InvToken

\* A token that was unused is accepted.
LEMMA ConsumoFa ==
  ASSUME InvToken, NEW t \in DOMAIN tokens, ~tokens[t].usato,
         tokens' = [tokens EXCEPT ![t].usato = TRUE],
         consumi' = [consumi EXCEPT ![t] = @ + 1],
         UNCHANGED <<scaduti, generati>>
  PROVE  InvToken' /\ Cresce /\ consumi'[t] > 0
<1>1. t \in Token /\ consumi[t] = 0 /\ tokens[t] \in Gettone
  BY DEF InvToken, TipiToken, TokenCoerenti
<1>2. /\ DOMAIN tokens' = DOMAIN tokens
      /\ tokens'[t] = [tokens[t] EXCEPT !.usato = TRUE]
      /\ \A s \in DOMAIN tokens : s # t => tokens'[s] = tokens[s]
  OBVIOUS
<1>3. /\ tokens'[t] \in Gettone /\ tokens'[t].scopo = tokens[t].scopo
      /\ tokens'[t].usato
  BY <1>1, <1>2 DEF Gettone
<1>4. /\ consumi' \in [Token -> Nat] /\ consumi'[t] = 1
      /\ \A s \in Token : s # t => consumi'[s] = consumi[s]
  BY <1>1 DEF InvToken, TipiToken
<1>5. tokens' \in [DOMAIN tokens' -> Gettone]
  BY <1>2, <1>3 DEF InvToken, TipiToken
<1>6. TipiToken'
  BY <1>2, <1>4, <1>5 DEF InvToken, TipiToken
<1>7. TokenCoerenti'
  BY <1>1, <1>2, <1>3, <1>4 DEF InvToken, TipiToken, TokenCoerenti
<1>8. Cresce
  BY <1>1, <1>4 DEF InvToken, TipiToken, Cresce
<1> QED BY <1>4, <1>6, <1>7, <1>8 DEF InvToken

LEMMA ScartaFa ==
  ASSUME InvToken, NEW t \in Token, ConsumeScarta(t) \/ Scade(t)
  PROVE  InvToken' /\ Cresce
<1>1. /\ UNCHANGED <<generati, consumi>> /\ scaduti' \subseteq DOMAIN generati
      /\ tokens' = tokens \/ tokens' = Senza(tokens, t)
  BY DEF ConsumeScarta, Scade, InvToken, TipiToken
<1>2. /\ DOMAIN tokens' \subseteq DOMAIN tokens
      /\ \A s \in DOMAIN tokens' : tokens'[s] = tokens[s]
      /\ tokens' \in [DOMAIN tokens' -> Gettone]
  BY <1>1 DEF InvToken, TipiToken, Senza, Restrict
<1>3. \A s \in DOMAIN generati : consumi[s] \in Nat
  BY DEF InvToken, TipiToken
<1> QED BY <1>1, <1>2, <1>3 DEF InvToken, TipiToken, TokenCoerenti, Cresce

-----------------------------------------------------------------------------
(* The handlers.                                                           *)

LEMMA OnestoResta ==
  ASSUME InvToken, InvToken', Cresce, NEW l \in InVolo, Onesto(l, generati, consumi)
  PROVE  Onesto(l, generati', consumi')
<1>1. \A t \in DOMAIN generati :
        /\ t \in DOMAIN generati' /\ generati'[t] = generati[t]
        /\ consumi[t] > 0 => consumi'[t] > 0
  BY DEF InvToken, TipiToken, Cresce
<1> QED BY <1>1 DEF Onesto

LEMMA VoloFermo ==
  ASSUME InvToken, InvToken', Cresce, InvVolo, UNCHANGED volo
  PROVE  InvVolo'
BY OnestoResta DEF InvVolo, TipiVolo, Onesti

LEMMA VoloFinisce ==
  ASSUME InvToken, InvToken', Cresce, InvVolo, NEW r, Finisci(r)
  PROVE  InvVolo'
<1>1. /\ DOMAIN volo' \subseteq DOMAIN volo
      /\ \A q \in DOMAIN volo' : volo'[q] = volo[q]
      /\ volo' \in [DOMAIN volo' -> InVolo]
  BY DEF Finisci, Senza, Restrict, InvVolo, TipiVolo
<1> QED BY <1>1, OnestoResta DEF InvVolo, TipiVolo, Onesti

LEMMA VoloSegue ==
  ASSUME InvToken, InvToken', Cresce, InvVolo, NEW r \in Richieste, NEW l \in InVolo,
         Onesto(l, generati', consumi'), volo' = Con(volo, r, l)
  PROVE  InvVolo'
<1>1. /\ DOMAIN volo' = DOMAIN volo \cup {r} /\ volo'[r] = l
      /\ \A q \in DOMAIN volo : q # r => volo'[q] = volo[q]
      /\ volo' \in [DOMAIN volo' -> InVolo]
  BY DEF Con, InvVolo, TipiVolo
<1> QED BY <1>1, OnestoResta DEF InvVolo, TipiVolo, Onesti

\* What a handler carries.
Scheda(passo, u, scopo, t, per) ==
  [passo |-> passo, utente |-> u, scopo |-> scopo, tok |-> t, per |-> per, nuovo |-> Vuoto]

LEMMA SchedaBuona ==
  ASSUME NEW passo \in PassiToken \cup Passi2FA, NEW u \in Utenti,
         NEW scopo \in Scopi \cup {Vuoto}, NEW t \in Token \cup {Vuoto},
         NEW per \in {"reset", "verify", Vuoto}
  PROVE  \E l \in InVolo :
           /\ l = Scheda(passo, u, scopo, t, per)
           /\ l.passo = passo /\ l.scopo = scopo /\ l.tok = t /\ l.per = per
<1> DEFINE l == Scheda(passo, u, scopo, t, per)
<1>1. l \in InVolo
  BY DEF Scheda, InVolo
<1>2. l.passo = passo /\ l.scopo = scopo /\ l.tok = t /\ l.per = per
  BY DEF Scheda
<1> QED BY <1>1, <1>2

LEMMA SchedaScopo ==
  ASSUME NEW passo, NEW u, NEW scopo
  PROVE  [Lavoro(passo, u) EXCEPT !.scopo = scopo] = Scheda(passo, u, scopo, Vuoto, Vuoto)
BY DEF Lavoro, Scheda

LEMMA SchedaTok ==
  ASSUME NEW passo, NEW u, NEW t
  PROVE  [Lavoro(passo, u) EXCEPT !.tok = t] = Scheda(passo, u, Vuoto, t, Vuoto)
BY DEF Lavoro, Scheda

LEMMA SchedaTokScopo ==
  ASSUME NEW passo, NEW u, NEW t, NEW scopo
  PROVE  [Lavoro(passo, u) EXCEPT !.tok = t, !.scopo = scopo]
           = Scheda(passo, u, scopo, t, Vuoto)
<1> DEFINE a == [Lavoro(passo, u) EXCEPT !.tok = t]
<1>1. a = Scheda(passo, u, Vuoto, t, Vuoto)
  BY SchedaTok
<1>2. [Lavoro(passo, u) EXCEPT !.tok = t, !.scopo = scopo] = [a EXCEPT !.scopo = scopo]
  OBVIOUS
<1> HIDE DEF a
<1> QED BY <1>1, <1>2 DEF Scheda

LEMMA SchedaTokPer ==
  ASSUME NEW u, NEW t, NEW per
  PROVE  [Lavoro("update", u) EXCEPT !.tok = t, !.per = per] = Scheda("update", u, Vuoto, t, per)
<1> DEFINE a == [Lavoro("update", u) EXCEPT !.tok = t]
<1>1. a = Scheda("update", u, Vuoto, t, Vuoto)
  BY SchedaTok
<1>2. [Lavoro("update", u) EXCEPT !.tok = t, !.per = per] = [a EXCEPT !.per = per]
  OBVIOUS
<1> HIDE DEF a
<1> QED BY <1>1, <1>2 DEF Scheda

\* A handler of the second factor goes on.
LEMMA VoloLavoro ==
  ASSUME InvToken, UNCHANGED gettoni, InvVolo, NEW r \in Richieste,
         NEW passo \in Passi2FA, NEW u \in Utenti,
         \/ passo # "setup_off" /\ Segue(r, Lavoro(passo, u))
         \/ \E s \in Segreti : Segue(r, [Lavoro(passo, u) EXCEPT !.nuovo = s])
  PROVE  InvVolo'
<1>1. PICK l \in InVolo : /\ volo' = Con(volo, r, l)
                          /\ l.passo = passo /\ l.nuovo \in Segreti \cup {Vuoto}
                          /\ passo = "setup_off" => l.nuovo \in Segreti
  <2>1. CASE passo # "setup_off" /\ Segue(r, Lavoro(passo, u))
    <3>1. Lavoro(passo, u) \in InVolo /\ Lavoro(passo, u).passo = passo
          /\ Lavoro(passo, u).nuovo = Vuoto
      BY DEF Lavoro, InVolo
    <3> QED BY <2>1, <3>1 DEF Segue
  <2>2. ASSUME NEW s \in Segreti, Segue(r, [Lavoro(passo, u) EXCEPT !.nuovo = s])
        PROVE  \E l \in InVolo : /\ volo' = Con(volo, r, l)
                                 /\ l.passo = passo /\ l.nuovo \in Segreti \cup {Vuoto}
                                 /\ passo = "setup_off" => l.nuovo \in Segreti
    <3> DEFINE l == [Lavoro(passo, u) EXCEPT !.nuovo = s]
    <3>1. l \in InVolo /\ l.passo = passo /\ l.nuovo = s
      BY DEF Lavoro, InVolo
    <3>2. volo' = Con(volo, r, l)
      BY <2>2 DEF Segue
    <3> HIDE DEF l
    <3> QED BY <3>1, <3>2
  <2> QED BY <2>1, <2>2
<1>2. Onesto(l, generati', consumi')
  BY <1>1 DEF Onesto, Passi2FA
<1> QED BY <1>1, <1>2, TokenFermi, VoloSegue

-----------------------------------------------------------------------------
(* The accounts.                                                           *)

LEMMA SpiegatoResta ==
  ASSUME InvToken, InvToken', Cresce, NEW a, Spiegato(a, generati, consumi)
  PROVE  Spiegato(a, generati', consumi')
<1>1. \A t \in DOMAIN generati :
        /\ t \in DOMAIN generati' /\ generati'[t] = generati[t]
        /\ consumi[t] > 0 => consumi'[t] > 0
  BY DEF InvToken, TipiToken, Cresce
<1> QED BY <1>1 DEF Spiegato

LEMMA UtentiFermi ==
  ASSUME InvToken, InvToken', Cresce, InvUtenti, UNCHANGED utenti
  PROVE  InvUtenti'
BY SpiegatoResta DEF InvUtenti, TipiUtenti, Spiegati

\* One account is written, or a new one is created.
LEMMA UtentiScrive ==
  ASSUME InvToken, UNCHANGED gettoni, InvUtenti, NEW u, NEW a \in Utente,
         Spiegato(a, generati, consumi),
         \/ u \in Utenti /\ utenti' = Con(utenti, u, a)
         \/ u \in DOMAIN utenti /\ utenti' = [utenti EXCEPT ![u] = a]
         \/ u \notin DOMAIN utenti /\ utenti' = utenti
  PROVE  InvUtenti'
<1>1. /\ \/ DOMAIN utenti' = DOMAIN utenti \cup {u} /\ u \in Utenti /\ utenti'[u] = a
         \/ DOMAIN utenti' = DOMAIN utenti /\ u \in DOMAIN utenti /\ utenti'[u] = a
         \/ u \notin DOMAIN utenti /\ utenti' = utenti
      /\ \A v \in DOMAIN utenti : v # u => utenti'[v] = utenti[v]
      /\ utenti' \in [DOMAIN utenti' -> Utente]
  BY DEF Con, InvUtenti, TipiUtenti
<1>2. UNCHANGED <<generati, consumi>>
  BY DEF gettoni
<1> QED BY <1>1, <1>2 DEF InvUtenti, TipiUtenti, Spiegati

\* The second factor of an account is written.
LEMMA UtentiFattore ==
  ASSUME InvToken, UNCHANGED gettoni, InvUtenti, NEW u,
         \/ \E s \in Segreti \cup {Vuoto} : utenti' = [utenti EXCEPT ![u].segreto = s]
         \/ \E b \in BOOLEAN : utenti' = [utenti EXCEPT ![u].abilitata = b]
  PROVE  InvUtenti'
<1>1. CASE u \notin DOMAIN utenti
  <2>1. utenti' = utenti
    BY <1>1 DEF InvUtenti, TipiUtenti
  <2> QED BY <2>1, TokenFermi, UtentiFermi
<1>2. CASE u \in DOMAIN utenti
  <2>1. utenti[u] \in Utente /\ Spiegato(utenti[u], generati, consumi)
    BY <1>2 DEF InvUtenti, TipiUtenti, Spiegati
  <2>2. PICK a \in Utente : /\ utenti' = [utenti EXCEPT ![u] = a]
                            /\ a.password = utenti[u].password
                            /\ a.attivo = utenti[u].attivo
    <3>1. ASSUME NEW s \in Segreti \cup {Vuoto}, utenti' = [utenti EXCEPT ![u].segreto = s]
          PROVE  \E a \in Utente : /\ utenti' = [utenti EXCEPT ![u] = a]
                                   /\ a.password = utenti[u].password
                                   /\ a.attivo = utenti[u].attivo
      <4> DEFINE a == [utenti[u] EXCEPT !.segreto = s]
      <4>1. a \in Utente /\ a.password = utenti[u].password /\ a.attivo = utenti[u].attivo
        BY <2>1, <3>1 DEF Utente
      <4>2. utenti' = [utenti EXCEPT ![u] = a]
        BY <3>1
      <4> QED BY <4>1, <4>2
    <3>2. ASSUME NEW b \in BOOLEAN, utenti' = [utenti EXCEPT ![u].abilitata = b]
          PROVE  \E a \in Utente : /\ utenti' = [utenti EXCEPT ![u] = a]
                                   /\ a.password = utenti[u].password
                                   /\ a.attivo = utenti[u].attivo
      <4> DEFINE a == [utenti[u] EXCEPT !.abilitata = b]
      <4>1. a \in Utente /\ a.password = utenti[u].password /\ a.attivo = utenti[u].attivo
        BY <2>1, <3>2 DEF Utente
      <4>2. utenti' = [utenti EXCEPT ![u] = a]
        BY <3>2
      <4> QED BY <4>1, <4>2
    <3> QED BY <3>1, <3>2
  <2>3. Spiegato(a, generati, consumi)
    BY <2>1, <2>2 DEF Spiegato
  <2> QED BY <1>2, <2>2, <2>3, UtentiScrive
<1> QED BY <1>1, <1>2

-----------------------------------------------------------------------------
(* The steps.                                                              *)

LEMMA CreateUserInv ==
  ASSUME Inv, NEW r \in Richieste, NEW u \in Utenti,
         NEW scopo \in {"email_verification", "account_activation"}, CreateUser(r, u, scopo)
  PROVE  Inv'
<1> DEFINE b == [attivo |-> FALSE, password |-> Vuoto, segreto |-> Vuoto, abilitata |-> FALSE]
<1>1. PICK l \in InVolo : /\ l = [Lavoro("token", u) EXCEPT !.scopo = scopo]
                          /\ l.passo = "token" /\ l.scopo = scopo
  <2>1. "token" \in PassiToken \cup Passi2FA /\ scopo \in Scopi \cup {Vuoto}
    BY DEF PassiToken, Scopi
  <2>2. PICK l \in InVolo : /\ l = Scheda("token", u, scopo, Vuoto, Vuoto)
                            /\ l.passo = "token" /\ l.scopo = scopo
    BY <2>1, SchedaBuona
  <2> QED BY <2>2, SchedaScopo, Zenon
<1>2. /\ volo' = Con(volo, r, l) /\ utenti' = Con(utenti, u, b)
      /\ UNCHANGED <<store, gettoni, mostrati, guasto, sovrapposti>>
  BY <1>1 DEF CreateUser, Segue
<1>3. InvToken' /\ Cresce
  BY <1>2, TokenFermi DEF Inv
<1>4. Onesto(l, generati', consumi')
  BY <1>1 DEF Onesto, Scopi
<1>5. b \in Utente /\ Spiegato(b, generati, consumi)
  BY DEF Utente, Spiegato
<1> HIDE DEF b
<1>6. InvVolo'
  BY <1>2, <1>3, <1>4, VoloSegue DEF Inv
<1>7. InvUtenti'
  BY <1>2, <1>5, UtentiScrive DEF Inv
<1> QED BY <1>2, <1>3, <1>6, <1>7 DEF Inv, TipiAltri

LEMMA CreateTokenInv ==
  ASSUME Inv, NEW r \in Richieste, NEW t \in Token, CreateToken(r, t)
  PROVE  Inv'
<1>1. /\ r \in DOMAIN volo /\ volo[r].passo = "token"
      /\ NuovoToken(t, volo[r].scopo, volo[r].utente)
      /\ Finisci(r) /\ UNCHANGED <<store, utenti, mostrati, guasto, sovrapposti>>
  BY DEF CreateToken, Attende, account
<1>2. volo[r].scopo \in Scopi /\ volo[r].utente \in Utenti
  BY <1>1 DEF Inv, InvVolo, TipiVolo, Onesti, Onesto, InVolo
<1>3. InvToken' /\ Cresce
  BY <1>1, <1>2, NuovoTokenFa DEF Inv
<1>4. InvVolo' /\ InvUtenti'
  BY <1>1, <1>3, VoloFinisce, UtentiFermi DEF Inv
<1> QED BY <1>1, <1>3, <1>4 DEF Inv, TipiAltri

LEMMA ForgotInv ==
  ASSUME Inv, NEW u \in Utenti, NEW t \in Token, ForgotPassword(u, t)
  PROVE  Inv'
<1>1. /\ NuovoToken(t, "password_reset", u)
      /\ UNCHANGED <<store, volo, utenti, mostrati, guasto, sovrapposti>>
  BY DEF ForgotPassword, account
<1>2. InvToken' /\ Cresce
  BY <1>1, NuovoTokenFa DEF Inv, Scopi
<1> QED BY <1>1, <1>2, VoloFermo, UtentiFermi DEF Inv, TipiAltri

LEMMA ScartaInv ==
  ASSUME Inv, NEW t \in Token, ConsumeScarta(t) \/ Scade(t)
  PROVE  Inv'
<1>1. InvToken' /\ Cresce
  BY ScartaFa DEF Inv
<1>2. UNCHANGED <<store, volo, utenti, mostrati, guasto, sovrapposti>>
  BY DEF ConsumeScarta, Scade, account
<1> QED BY <1>1, <1>2, VoloFermo, UtentiFermi DEF Inv, TipiAltri

\* A token is accepted: the handler goes on with it if its purpose fits.
LEMMA DopoConsumoInv ==
  ASSUME Inv, NEW r \in Richieste, NEW t \in DOMAIN tokens, ~tokens[t].usato,
         NEW per \in {"reset", "verify"}, DopoConsumo(r, t, per),
         UNCHANGED <<store, account, scaduti, generati>>
  PROVE  Inv'
<1> DEFINE g == tokens[t]
           p == IF per = "reset" THEN "password" ELSE "attiva"
<1>1. /\ t \in Token /\ t \in DOMAIN generati /\ generati[t] = g.scopo
      /\ g.scopo \in Scopi /\ g.utente \in Utenti
  BY DEF Inv, InvToken, TipiToken, TokenCoerenti, Gettone
<1>2. InvToken' /\ Cresce /\ consumi'[t] > 0
  BY ConsumoFa DEF Inv, DopoConsumo
<1>3. PICK l \in InVolo : /\ l = [Lavoro(p, g.utente) EXCEPT !.tok = t, !.scopo = g.scopo]
                          /\ l.passo = p /\ l.tok = t /\ l.scopo = g.scopo
  <2>1. p \in PassiToken \cup Passi2FA
    BY DEF PassiToken
  <2> HIDE DEF p, g
  <2>2. PICK l \in InVolo : /\ l = Scheda(p, g.utente, g.scopo, t, Vuoto)
                            /\ l.passo = p /\ l.scopo = g.scopo /\ l.tok = t
    BY <1>1, <2>1, SchedaBuona
  <2>3. [Lavoro(p, g.utente) EXCEPT !.tok = t, !.scopo = g.scopo]
          = Scheda(p, g.utente, g.scopo, t, Vuoto)
    BY SchedaTokScopo, Zenon
  <2> QED BY <2>2, <2>3
<1>4. IF Adatto(g.scopo, per) THEN volo' = Con(volo, r, l) ELSE Finisci(r)
  BY <1>3 DEF DopoConsumo, Segue
<1>5. ASSUME Adatto(g.scopo, per)
      PROVE  InvVolo'
  <2>0. /\ per = "reset" => g.scopo \in {"password_reset", "account_activation"}
        /\ per # "reset" => g.scopo = "email_verification"
    BY <1>1, <1>5 DEF Adatto, Scopi, Vuoto
  <2>1. Onesto(l, generati', consumi')
    BY <1>1, <1>2, <1>3, <2>0 DEF Onesto
  <2> QED BY <1>2, <1>4, <1>5, <2>1, VoloSegue DEF Inv
<1>6. InvVolo'
  BY <1>2, <1>4, <1>5, VoloFinisce DEF Inv
<1>7. InvUtenti' /\ TipiAltri'
  BY <1>2, UtentiFermi DEF Inv, account, TipiAltri
<1> QED BY <1>2, <1>6, <1>7 DEF Inv

LEMMA ConsumeFindInv ==
  ASSUME Inv, NEW r \in Richieste, NEW t \in Token, NEW per \in {"reset", "verify"},
         ConsumeFind(r, t, per)
  PROVE  Inv'
<1>1. t \in DOMAIN tokens /\ t \in DOMAIN generati /\ tokens[t].utente \in Utenti
  BY DEF ConsumeFind, Valido, Inv, InvToken, TipiToken, Gettone
<1>2. PICK l \in InVolo :
        /\ l = [Lavoro("update", tokens[t].utente) EXCEPT !.tok = t, !.per = per]
        /\ l.passo = "update" /\ l.tok = t /\ l.per = per
  <2> DEFINE u == tokens[t].utente
  <2>1. "update" \in PassiToken \cup Passi2FA /\ u \in Utenti
    BY <1>1 DEF PassiToken
  <2> HIDE DEF u
  <2>2. PICK l \in InVolo : /\ l = Scheda("update", u, Vuoto, t, per)
                            /\ l.passo = "update" /\ l.tok = t /\ l.per = per
    BY <2>1, SchedaBuona
  <2>3. [Lavoro("update", u) EXCEPT !.tok = t, !.per = per] = Scheda("update", u, Vuoto, t, per)
    BY SchedaTokPer, Zenon
  <2> QED BY <2>2, <2>3 DEF u
<1>3. /\ volo' = Con(volo, r, l)
      /\ UNCHANGED <<store, utenti, mostrati, guasto, sovrapposti>> /\ UNCHANGED gettoni
  BY <1>2 DEF ConsumeFind, Segue, account
<1>4. InvToken' /\ Cresce /\ generati' = generati
  BY <1>3, TokenFermi DEF Inv, gettoni
<1>5. Onesto(l, generati', consumi')
  BY <1>1, <1>2, <1>4 DEF Onesto
<1>6. InvVolo' /\ InvUtenti'
  BY <1>3, <1>4, <1>5, VoloSegue, UtentiFermi DEF Inv
<1> QED BY <1>3, <1>4, <1>6 DEF Inv, TipiAltri

LEMMA ConsumeInv ==
  ASSUME Inv, NEW r \in Richieste,
         \/ ConsumeUpdate(r)
         \/ \E t \in Token, per \in {"reset", "verify"} : ConsumeMemory(r, t, per)
  PROVE  Inv'
<1>1. ASSUME NEW t \in Token, NEW per \in {"reset", "verify"}, ConsumeMemory(r, t, per)
      PROVE  Inv'
  BY <1>1, DopoConsumoInv DEF ConsumeMemory, Valido
<1>2. ASSUME ConsumeUpdate(r)
      PROVE  Inv'
  <2> DEFINE t == volo[r].tok
             per == volo[r].per
  <2>1. /\ r \in DOMAIN volo /\ per \in {"reset", "verify"}
        /\ UNCHANGED <<store, account, scaduti, generati>>
        /\ IF t \in DOMAIN tokens /\ ~tokens[t].usato
           THEN DopoConsumo(r, t, per)
           ELSE Finisci(r) /\ UNCHANGED <<tokens, consumi>>
    BY <1>2 DEF ConsumeUpdate, Attende, Inv, InvVolo, Onesti, Onesto
  <2> HIDE DEF t, per
  <2>2. CASE t \in DOMAIN tokens /\ ~tokens[t].usato
    BY <2>1, <2>2, DopoConsumoInv
  <2>3. CASE ~(t \in DOMAIN tokens /\ ~tokens[t].usato)
    <3>1. Finisci(r) /\ UNCHANGED gettoni /\ UNCHANGED account /\ UNCHANGED store
      BY <2>1, <2>3 DEF gettoni
    <3>2. InvToken' /\ Cresce
      BY <3>1, TokenFermi DEF Inv
    <3>3. InvVolo' /\ InvUtenti' /\ TipiAltri'
      BY <3>1, <3>2, VoloFinisce, UtentiFermi DEF Inv, account, TipiAltri
    <3> QED BY <3>2, <3>3 DEF Inv
  <2> QED BY <2>2, <2>3
<1> QED BY <1>1, <1>2

\* A password is set, with the token that was accepted for it.
LEMMA PasswordInv ==
  ASSUME Inv, NEW r \in Richieste, UpdateUserPassword(r)
  PROVE  Inv'
<1> DEFINE u == volo[r].utente
           t == volo[r].tok
<1>1. /\ r \in DOMAIN volo /\ volo[r].passo = "password" /\ volo[r] \in InVolo
      /\ t \in DOMAIN generati /\ consumi[t] > 0
      /\ generati[t] = volo[r].scopo /\ generati[t] # "email_verification"
  BY DEF UpdateUserPassword, Attende, Inv, InvVolo, TipiVolo, Onesti, Onesto
<1>2. /\ utenti' = [utenti EXCEPT ![u].password = t]
      /\ IF volo[r].scopo = "account_activation"
         THEN Segue(r, [volo[r] EXCEPT !.passo = "attiva"]) ELSE Finisci(r)
      /\ UNCHANGED <<store, mostrati, guasto, sovrapposti>> /\ UNCHANGED gettoni
  BY DEF UpdateUserPassword
<1>3. InvToken' /\ Cresce /\ UNCHANGED <<generati, consumi>>
  BY <1>2, TokenFermi DEF Inv, gettoni
<1>4. InvVolo'
  <2>1. CASE volo[r].scopo = "account_activation"
    <3> DEFINE l == [volo[r] EXCEPT !.passo = "attiva"]
    <3>1. l \in InVolo /\ l.passo = "attiva" /\ l.tok = t
      BY <1>1 DEF InVolo, PassiToken
    <3>2. volo' = Con(volo, r, l)
      BY <1>2, <2>1 DEF Segue
    <3> HIDE DEF l, t
    <3>3. Onesto(l, generati', consumi')
      BY <1>1, <1>3, <2>1, <3>1 DEF Onesto
    <3> QED BY <1>3, <3>1, <3>2, <3>3, VoloSegue DEF Inv
  <2>2. CASE volo[r].scopo # "account_activation"
    BY <1>2, <1>3, <2>2, VoloFinisce DEF Inv
  <2> QED BY <2>1, <2>2
<1>5. CASE u \in DOMAIN utenti
  <2> DEFINE a == [utenti[u] EXCEPT !.password = t]
  <2>1. utenti[u] \in Utente /\ Spiegato(utenti[u], generati, consumi)
    BY <1>5 DEF Inv, InvUtenti, TipiUtenti, Spiegati
  <2>2. t \in Token
    BY <1>1 DEF Inv, InvToken, TipiToken
  <2> HIDE DEF t
  <2>3. a \in Utente /\ a.password = t /\ a.attivo = utenti[u].attivo
    BY <2>1, <2>2 DEF Utente
  <2>4. utenti' = [utenti EXCEPT ![u] = a]
    BY <1>2
  <2> HIDE DEF a
  <2>5. Spiegato(a, generati, consumi)
    BY <1>1, <2>1, <2>3 DEF Spiegato
  <2>6. InvUtenti'
    BY <1>2, <1>5, <2>3, <2>4, <2>5, UtentiScrive DEF Inv
  <2> QED BY <1>2, <1>3, <1>4, <2>6 DEF Inv, TipiAltri
<1>6. CASE u \notin DOMAIN utenti
  <2>1. utenti' = utenti
    BY <1>2, <1>6 DEF Inv, InvUtenti, TipiUtenti
  <2>2. InvUtenti'
    BY <1>3, <2>1, UtentiFermi DEF Inv
  <2> QED BY <1>2, <1>3, <1>4, <2>2 DEF Inv, TipiAltri
<1> QED BY <1>5, <1>6

\* An account is activated, by a token that was accepted for it.
LEMMA AttivaInv ==
  ASSUME Inv, NEW r \in Richieste, SetUserVerificationState(r)
  PROVE  Inv'
<1> DEFINE u == volo[r].utente
           t == volo[r].tok
<1>1. /\ r \in DOMAIN volo /\ volo[r].passo = "attiva"
      /\ t \in DOMAIN generati /\ consumi[t] > 0 /\ generati[t] # "password_reset"
  BY DEF SetUserVerificationState, Attende, Inv, InvVolo, Onesti, Onesto
<1>2. /\ utenti' = [utenti EXCEPT ![u].attivo = TRUE]
      /\ Finisci(r)
      /\ UNCHANGED <<store, mostrati, guasto, sovrapposti>> /\ UNCHANGED gettoni
  BY DEF SetUserVerificationState
<1>3. InvToken' /\ Cresce
  BY <1>2, TokenFermi DEF Inv
<1>4. InvVolo'
  BY <1>2, <1>3, VoloFinisce DEF Inv
<1>5. CASE u \in DOMAIN utenti
  <2> DEFINE a == [utenti[u] EXCEPT !.attivo = TRUE]
  <2>1. utenti[u] \in Utente /\ Spiegato(utenti[u], generati, consumi)
    BY <1>5 DEF Inv, InvUtenti, TipiUtenti, Spiegati
  <2>2. a \in Utente /\ a.password = utenti[u].password
    BY <2>1 DEF Utente
  <2>3. utenti' = [utenti EXCEPT ![u] = a]
    BY <1>2
  <2> HIDE DEF a
  <2>4. Spiegato(a, generati, consumi)
    BY <1>1, <2>1, <2>2 DEF Spiegato
  <2>5. InvUtenti'
    BY <1>2, <1>5, <2>2, <2>3, <2>4, UtentiScrive DEF Inv
  <2> QED BY <1>2, <1>3, <1>4, <2>5 DEF Inv, TipiAltri
<1>6. CASE u \notin DOMAIN utenti
  <2>1. utenti' = utenti
    BY <1>2, <1>6 DEF Inv, InvUtenti, TipiUtenti
  <2>2. InvUtenti'
    BY <1>3, <2>1, UtentiFermi DEF Inv
  <2> QED BY <1>2, <1>3, <1>4, <2>2 DEF Inv, TipiAltri
<1> QED BY <1>5, <1>6

\* The second factor touches no token, no password and no activation.
Fattore ==
  /\ UNCHANGED <<store, gettoni, guasto>>
  /\ sovrapposti' \in BOOLEAN

LEMMA FattoreInv ==
  ASSUME Inv, Fattore, mostrati' \in [Utenti -> SUBSET Segreti], InvVolo',
         NEW u,
         \/ utenti' = utenti
         \/ \E s \in Segreti \cup {Vuoto} : utenti' = [utenti EXCEPT ![u].segreto = s]
         \/ \E b \in BOOLEAN : utenti' = [utenti EXCEPT ![u].abilitata = b]
  PROVE  Inv'
<1>1. InvToken' /\ Cresce
  BY TokenFermi DEF Inv, Fattore
<1>2. InvUtenti'
  BY <1>1, UtentiFermi, UtentiFattore DEF Inv, Fattore
<1> QED BY <1>1, <1>2 DEF Inv, TipiAltri, Fattore

LEMMA Comincia2FAInv ==
  ASSUME Inv, NEW r \in Richieste, NEW u \in Utenti,
         \/ \E s \in Segreti : SetupSecret(r, u, s)
         \/ EnableGet(r, u)
         \/ DisableGet(r, u)
  PROVE  Inv'
<1>1. /\ Fattore /\ mostrati' \in [Utenti -> SUBSET Segreti] /\ UNCHANGED gettoni
      /\ \/ utenti' = utenti
         \/ \E s \in Segreti \cup {Vuoto} : utenti' = [utenti EXCEPT ![u].segreto = s]
         \/ \E b \in BOOLEAN : utenti' = [utenti EXCEPT ![u].abilitata = b]
  BY DEF SetupSecret, EnableGet, DisableGet, Inizia2FA, In2FA, Fattore, Inv, TipiAltri
<1>2. \E passo \in Passi2FA :
        \/ passo # "setup_off" /\ Segue(r, Lavoro(passo, u))
        \/ \E s \in Segreti : Segue(r, [Lavoro(passo, u) EXCEPT !.nuovo = s])
  BY DEF SetupSecret, EnableGet, DisableGet, Passi2FA
<1>3. InvVolo'
  BY <1>1, <1>2, VoloLavoro DEF Inv
<1> QED BY <1>1, <1>3, FattoreInv

LEMMA Prosegue2FAInv ==
  ASSUME Inv, NEW r \in Richieste,
         SetupOff(r) \/ EnableOn(r) \/ DisableOff(r) \/ DisableSecret(r) \/ SetupOffFallisce(r)
  PROVE  Inv'
<1> DEFINE u == volo[r].utente
<1>1. /\ Fattore /\ UNCHANGED gettoni
      /\ \/ utenti' = utenti
         \/ \E s \in Segreti \cup {Vuoto} : utenti' = [utenti EXCEPT ![u].segreto = s]
         \/ \E b \in BOOLEAN : utenti' = [utenti EXCEPT ![u].abilitata = b]
  BY DEF SetupOff, EnableOn, DisableOff, DisableSecret, SetupOffFallisce, Fattore, Inv,
         TipiAltri
<1>2. r \in DOMAIN volo /\ volo[r] \in InVolo
  BY DEF SetupOff, EnableOn, DisableOff, DisableSecret, SetupOffFallisce, Attende, Inv,
         InvVolo, TipiVolo
<1>3. mostrati' \in [Utenti -> SUBSET Segreti]
  <2>1. CASE UNCHANGED mostrati
    BY <2>1 DEF Inv, TipiAltri
  <2>2. CASE Mostra(r) /\ Attende(r, "setup_off")
    <3>1. volo[r].nuovo \in Segreti
      BY <1>2, <2>2 DEF Attende, Inv, InvVolo, Onesti, Onesto
    <3> QED BY <2>2, <3>1 DEF Mostra, Inv, TipiAltri
  <2> QED BY <2>1, <2>2 DEF SetupOff, EnableOn, DisableOff, DisableSecret, SetupOffFallisce
<1>4. InvToken' /\ Cresce
  BY <1>1, TokenFermi DEF Inv
<1>5. InvVolo'
  <2>1. CASE Finisci(r)
    BY <1>4, <2>1, VoloFinisce DEF Inv
  <2>2. CASE Segue(r, [volo[r] EXCEPT !.passo = "disable_segreto"])
    <3> DEFINE l == [volo[r] EXCEPT !.passo = "disable_segreto"]
    <3>1. l \in InVolo /\ l.passo = "disable_segreto"
      BY <1>2 DEF InVolo, Passi2FA
    <3>2. volo' = Con(volo, r, l)
      BY <2>2 DEF Segue
    <3> HIDE DEF l
    <3>3. Onesto(l, generati', consumi')
      BY <3>1 DEF Onesto
    <3> QED BY <1>4, <3>1, <3>2, <3>3, VoloSegue DEF Inv
  <2> QED BY <2>1, <2>2 DEF SetupOff, EnableOn, DisableOff, DisableSecret, SetupOffFallisce
<1> QED BY <1>1, <1>3, <1>5, FattoreInv

\* A handler ends without a write.
LEMMA CadeInv ==
  ASSUME Inv, NEW r \in Richieste, Cade(r) \/ PasswordRifiutata(r)
  PROVE  Inv'
<1>1. /\ Finisci(r) /\ UNCHANGED gettoni /\ guasto' \in BOOLEAN
      /\ UNCHANGED <<store, utenti, mostrati, sovrapposti>>
  BY DEF Cade, PasswordRifiutata, Inv, TipiAltri
<1>2. InvToken' /\ Cresce
  BY <1>1, TokenFermi DEF Inv
<1>3. InvVolo' /\ InvUtenti'
  BY <1>1, <1>2, VoloFinisce, UtentiFermi DEF Inv
<1> QED BY <1>1, <1>2, <1>3 DEF Inv, TipiAltri

LEMMA FermoInv ==
  ASSUME Inv, UNCHANGED vars
  PROVE  Inv'
<1>1. /\ UNCHANGED gettoni
      /\ UNCHANGED <<store, utenti, volo, mostrati, guasto, sovrapposti>>
  BY DEF vars, gettoni
<1>2. InvToken' /\ Cresce
  BY <1>1, TokenFermi DEF Inv
<1> QED BY <1>1, <1>2, VoloFermo, UtentiFermi DEF Inv, TipiAltri

-----------------------------------------------------------------------------
(* The theorems.                                                           *)

LEMMA InvInit == Init => Inv
<1> SUFFICES ASSUME Init PROVE Inv
  OBVIOUS
<1>1. /\ DOMAIN utenti = {} /\ DOMAIN tokens = {} /\ DOMAIN volo = {} /\ DOMAIN generati = {}
      /\ utenti = << >> /\ tokens = << >> /\ volo = << >> /\ generati = << >>
      /\ scaduti = {} /\ consumi = [t \in Token |-> 0]
  BY DEF Init
<1>2. InvToken
  BY <1>1 DEF InvToken, TipiToken, TokenCoerenti
<1>3. InvVolo /\ InvUtenti
  BY <1>1 DEF InvVolo, TipiVolo, Onesti, InvUtenti, TipiUtenti, Spiegati
<1>4. TipiAltri
  BY DEF Init, TipiAltri
<1> QED BY <1>2, <1>3, <1>4 DEF Inv

LEMMA InvStep == Inv /\ [Next]_vars => Inv'
<1> SUFFICES ASSUME Inv, [Next]_vars
             PROVE  Inv'
  OBVIOUS
<1>1. ASSUME NEW r \in Richieste, Comincia(r)
      PROVE  Inv'
  BY <1>1, CreateUserInv, Comincia2FAInv, ConsumeInv, ConsumeFindInv DEF Comincia
<1>2. ASSUME NEW r \in Richieste, Prosegue(r)
      PROVE  Inv'
  BY <1>2, CreateTokenInv, ConsumeInv, PasswordInv, CadeInv, AttivaInv, Prosegue2FAInv
     DEF Prosegue
<1>3. ASSUME NEW r \in Richieste, Cade(r) \/ SetupOffFallisce(r)
      PROVE  Inv'
  BY <1>3, CadeInv, Prosegue2FAInv
<1>4. ASSUME NEW t \in Token, NEW u \in Utenti, ForgotPassword(u, t)
      PROVE  Inv'
  BY <1>4, ForgotInv
<1>5. ASSUME NEW t \in Token, ConsumeScarta(t) \/ Scade(t)
      PROVE  Inv'
  BY <1>5, ScartaInv
<1>6. CASE UNCHANGED vars
  BY <1>6, FermoInv
<1> QED BY <1>1, <1>2, <1>3, <1>4, <1>5, <1>6 DEF Next

LEMMA InvSempre == Spec => []Inv
BY InvInit, InvStep, PTL DEF Spec

LEMMA InvDice == Inv => TypeOK /\ TokenUnaVolta /\ SoloConToken
<1>1. Inv => TypeOK
  BY TipiInsieme DEF Inv, InvToken, InvVolo, InvUtenti
<1>2. Inv => TokenUnaVolta
  BY DEF Inv, InvToken, TokenCoerenti, TokenUnaVolta
<1>3. Inv => SoloConToken
  BY DEF Inv, InvUtenti, Spiegati, Spiegato, SoloConToken
<1> QED BY <1>1, <1>2, <1>3

\* The variables keep their types, over both stores (Account.TypeOK).
THEOREM TypeOKAccount == Spec => []TypeOK
BY InvDice, InvSempre, PTL

\* However many requests present a token at one time, over MongoStore between
\* the look and the update of one another, it is accepted at most once
\* (Account.TokenUnaVolta).
THEOREM TokenUnaVoltaAccount == Spec => []TokenUnaVolta
BY InvDice, InvSempre, PTL

\* A password was set by a token to reset or to activate that was accepted, and
\* an active account has one to verify or to activate that was
\* (Account.SoloConToken).
THEOREM SoloConTokenAccount == Spec => []SoloConToken
BY InvDice, InvSempre, PTL

-----------------------------------------------------------------------------
(* An invited user who has set his password is active, or the handler that *)
(* set it has still to activate him.                                       *)

ConInvito(a, dati) == a.password # Vuoto /\ dati[a.password] = "account_activation"

DaAttivare(u) == \E r \in DOMAIN volo : volo[r].passo = "attiva" /\ volo[r].utente = u

Invitati ==
  ~guasto => \A u \in DOMAIN utenti :
    ConInvito(utenti[u], generati) => utenti[u].attivo \/ DaAttivare(u)

\* Steps that set no password and end no handler about to activate.
LEMMA InvitatiFermi ==
  ASSUME Inv, Invitati, UNCHANGED guasto,
         \A t \in DOMAIN generati : generati'[t] = generati[t],
         \A q \in DOMAIN volo : volo[q].passo = "attiva" =>
                                q \in DOMAIN volo' /\ volo'[q] = volo[q],
         \A u \in DOMAIN utenti' :
           \/ utenti'[u].password = Vuoto
           \/ /\ u \in DOMAIN utenti
              /\ utenti'[u].password = utenti[u].password
              /\ utenti[u].attivo => utenti'[u].attivo
  PROVE  Invitati'
<1> SUFFICES ASSUME ~guasto, NEW u \in DOMAIN utenti', ConInvito(utenti'[u], generati')
             PROVE  utenti'[u].attivo \/ DaAttivare(u)'
  BY DEF Invitati, ConInvito
<1>1. /\ u \in DOMAIN utenti
      /\ utenti'[u].password = utenti[u].password
      /\ utenti[u].attivo => utenti'[u].attivo
  BY DEF ConInvito
<1>2. ConInvito(utenti[u], generati)
  BY <1>1 DEF ConInvito, Inv, InvUtenti, Spiegati, Spiegato
<1>3. utenti[u].attivo \/ DaAttivare(u)
  BY <1>1, <1>2 DEF Invitati
<1> QED BY <1>1, <1>3 DEF DaAttivare

\* The password is set: with an invitation, the handler goes on to activate.
LEMMA InvitatiPassword ==
  ASSUME Inv, Invitati, NEW r \in Richieste, UpdateUserPassword(r)
  PROVE  Invitati'
<1>0. PICK v, t, l : v = volo[r].utente /\ t = volo[r].tok /\ l = volo[r]
  OBVIOUS
<1>1. /\ r \in DOMAIN volo /\ l \in InVolo /\ l.passo = "password"
      /\ t \in DOMAIN generati /\ generati[t] = l.scopo
  BY <1>0 DEF UpdateUserPassword, Attende, Inv, InvVolo, TipiVolo, Onesti, Onesto
<1>2. /\ utenti' = [utenti EXCEPT ![v].password = t]
      /\ UNCHANGED <<guasto, generati>>
      /\ IF l.scopo = "account_activation"
         THEN volo' = Con(volo, r, [l EXCEPT !.passo = "attiva"]) ELSE volo' = Senza(volo, r)
  BY <1>0 DEF UpdateUserPassword, gettoni, Segue, Finisci
<1>3. \A u \in DOMAIN utenti' :
        /\ u \in DOMAIN utenti
        /\ utenti'[u].attivo = utenti[u].attivo
        /\ u # v => utenti'[u] = utenti[u]
        /\ u = v => utenti'[u].password = t
  BY <1>2 DEF Inv, InvUtenti, TipiUtenti, Utente
<1>4. \A q \in DOMAIN volo \ {r} : q \in DOMAIN volo' /\ volo'[q] = volo[q]
  BY <1>2 DEF Con, Senza, Restrict
<1> SUFFICES ASSUME ~guasto, NEW u \in DOMAIN utenti', ConInvito(utenti'[u], generati')
             PROVE  utenti'[u].attivo \/ DaAttivare(u)'
  BY <1>2 DEF Invitati, ConInvito
<1>5. CASE u = v
  <2>1. l.scopo = "account_activation"
    BY <1>1, <1>2, <1>3, <1>5 DEF ConInvito
  <2>2. volo' = Con(volo, r, [l EXCEPT !.passo = "attiva"])
    BY <1>2, <2>1
  <2>3. [l EXCEPT !.passo = "attiva"].passo = "attiva" /\ [l EXCEPT !.passo = "attiva"].utente = v
    BY <1>0, <1>1 DEF InVolo
  <2> QED BY <1>5, <2>2, <2>3 DEF DaAttivare, Con
<1>6. CASE u # v
  <2>1. ConInvito(utenti[u], generati)
    BY <1>2, <1>3, <1>6 DEF ConInvito
  <2>2. utenti[u].attivo \/ DaAttivare(u)
    BY <1>3, <2>1 DEF Invitati
  <2> QED BY <1>0, <1>1, <1>3, <1>4, <2>2 DEF DaAttivare
<1> QED BY <1>5, <1>6

LEMMA InvitatiAttiva ==
  ASSUME Inv, Invitati, NEW r \in Richieste, SetUserVerificationState(r)
  PROVE  Invitati'
<1>0. PICK v : v = volo[r].utente
  OBVIOUS
<1>1. /\ utenti' = [utenti EXCEPT ![v].attivo = TRUE]
      /\ UNCHANGED <<guasto, generati>>
      /\ volo' = Senza(volo, r)
  BY <1>0 DEF SetUserVerificationState, gettoni, Finisci
<1>2. \A u \in DOMAIN utenti' :
        /\ u \in DOMAIN utenti
        /\ utenti'[u].password = utenti[u].password
        /\ u # v => utenti'[u] = utenti[u]
        /\ u = v => utenti'[u].attivo
  BY <1>1 DEF Inv, InvUtenti, TipiUtenti, Utente
<1>3. \A q \in DOMAIN volo \ {r} : q \in DOMAIN volo' /\ volo'[q] = volo[q]
  BY <1>1 DEF Senza, Restrict
<1> SUFFICES ASSUME ~guasto, NEW u \in DOMAIN utenti', ConInvito(utenti'[u], generati'), u # v
             PROVE  utenti'[u].attivo \/ DaAttivare(u)'
  BY <1>1, <1>2 DEF Invitati, ConInvito
<1>4. ConInvito(utenti[u], generati)
  BY <1>1, <1>2 DEF ConInvito
<1>5. utenti[u].attivo \/ DaAttivare(u)
  BY <1>2, <1>4 DEF Invitati
<1> QED BY <1>0, <1>2, <1>3, <1>5 DEF DaAttivare

\* The password and the activation of accounts that are there stay.
StessiConti ==
  \A u \in DOMAIN utenti' :
    \/ utenti'[u].password = Vuoto
    \/ /\ u \in DOMAIN utenti
       /\ utenti'[u].password = utenti[u].password
       /\ utenti[u].attivo => utenti'[u].attivo

LEMMA StessiContiFattore ==
  ASSUME Inv, NEW u,
         \/ utenti' = utenti
         \/ \E s \in Segreti \cup {Vuoto} : utenti' = [utenti EXCEPT ![u].segreto = s]
         \/ \E b \in BOOLEAN : utenti' = [utenti EXCEPT ![u].abilitata = b]
  PROVE  StessiConti
BY DEF StessiConti, Inv, InvUtenti, TipiUtenti, Utente

\* What a step does to the handlers: one starts, goes on or ends.
Tocca(r) == \A q \in DOMAIN volo : q # r => q \in DOMAIN volo' /\ volo'[q] = volo[q]

LEMMA ToccaUno ==
  ASSUME NEW r, \/ Finisci(r)
                \/ \E l : Segue(r, l)
                \/ UNCHANGED volo
  PROVE  Tocca(r)
BY DEF Tocca, Finisci, Segue, Con, Senza, Restrict

LEMMA InvitatiStep ==
  ASSUME Inv, Invitati, [Next]_vars
  PROVE  Invitati'
<1>a. ASSUME NEW r, Tocca(r), r \in DOMAIN volo => volo[r].passo # "attiva",
             UNCHANGED <<guasto, generati>>, StessiConti
      PROVE  Invitati'
  BY <1>a, InvitatiFermi DEF Tocca, StessiConti
<1>1. ASSUME NEW r \in Richieste, NEW u \in Utenti, NEW scopo, CreateUser(r, u, scopo)
      PROVE  Invitati'
  <2>1. r \notin DOMAIN volo /\ UNCHANGED <<guasto, generati>> /\ Tocca(r)
    BY <1>1, ToccaUno DEF CreateUser, Libera, gettoni
  <2>2. StessiConti
    BY <1>1 DEF CreateUser, StessiConti, Con
  <2> QED BY <1>a, <2>1, <2>2
<1>2. ASSUME NEW r \in Richieste, NEW t \in Token, CreateToken(r, t)
      PROVE  Invitati'
  <2>1. /\ \A s \in DOMAIN generati : generati'[s] = generati[s]
        /\ UNCHANGED <<guasto, utenti>>
        /\ volo[r].passo = "token" /\ Tocca(r)
    BY <1>2, ToccaUno DEF CreateToken, NuovoToken, Con, account, Attende
  <2> QED BY <2>1, InvitatiFermi DEF Tocca
<1>3. ASSUME NEW t \in Token, NEW u \in Utenti, ForgotPassword(u, t)
      PROVE  Invitati'
  <2>1. /\ \A s \in DOMAIN generati : generati'[s] = generati[s]
        /\ UNCHANGED <<guasto, utenti, volo>>
    BY <1>3 DEF ForgotPassword, NuovoToken, Con, account
  <2> QED BY <2>1, InvitatiFermi
<1>4. ASSUME NEW t \in Token, ConsumeScarta(t) \/ Scade(t)
      PROVE  Invitati'
  <2>1. UNCHANGED <<guasto, utenti, volo, generati>>
    BY <1>4 DEF ConsumeScarta, Scade, account
  <2> QED BY <2>1, InvitatiFermi
<1>5. ASSUME NEW r \in Richieste, NEW t \in Token, NEW per \in {"reset", "verify"},
             ConsumeMemory(r, t, per) \/ ConsumeFind(r, t, per)
      PROVE  Invitati'
  <2>1. r \notin DOMAIN volo /\ UNCHANGED <<guasto, generati, utenti>>
    BY <1>5 DEF ConsumeMemory, ConsumeFind, Libera, gettoni, account
  <2>2. Tocca(r)
    BY <1>5, ToccaUno DEF ConsumeMemory, ConsumeFind, DopoConsumo
  <2> QED BY <1>a, <2>1, <2>2 DEF StessiConti
<1>6. ASSUME NEW r \in Richieste, ConsumeUpdate(r)
      PROVE  Invitati'
  <2>1. volo[r].passo = "update" /\ UNCHANGED <<guasto, generati, utenti>>
    BY <1>6 DEF ConsumeUpdate, Attende, account
  <2>2. Tocca(r)
    BY <1>6, ToccaUno DEF ConsumeUpdate, DopoConsumo
  <2> QED BY <1>a, <2>1, <2>2 DEF StessiConti
<1>7. ASSUME NEW r \in Richieste, NEW u \in Utenti,
             \/ \E s \in Segreti : SetupSecret(r, u, s)
             \/ EnableGet(r, u) \/ DisableGet(r, u)
      PROVE  Invitati'
  <2>1. r \notin DOMAIN volo /\ UNCHANGED <<guasto, generati>>
    BY <1>7 DEF SetupSecret, EnableGet, DisableGet, Inizia2FA, Libera, gettoni
  <2>2. Tocca(r)
    BY <1>7, ToccaUno DEF SetupSecret, EnableGet, DisableGet
  <2>3. StessiConti
    BY <1>7, StessiContiFattore DEF SetupSecret, EnableGet, DisableGet
  <2> QED BY <1>a, <2>1, <2>2, <2>3
<1>8. ASSUME NEW r \in Richieste,
             SetupOff(r) \/ EnableOn(r) \/ DisableOff(r) \/ DisableSecret(r) \/ SetupOffFallisce(r)
      PROVE  Invitati'
  <2>1. volo[r].passo # "attiva" /\ UNCHANGED <<guasto, generati>>
    BY <1>8 DEF SetupOff, EnableOn, DisableOff, DisableSecret, SetupOffFallisce, Attende, gettoni
  <2>2. Tocca(r)
    BY <1>8, ToccaUno DEF SetupOff, EnableOn, DisableOff, DisableSecret, SetupOffFallisce
  <2>3. StessiConti
    BY <1>8, StessiContiFattore
       DEF SetupOff, EnableOn, DisableOff, DisableSecret, SetupOffFallisce
  <2> QED BY <1>a, <2>1, <2>2, <2>3
<1>9. ASSUME NEW r \in Richieste, Cade(r)
      PROVE  Invitati'
  BY <1>9 DEF Cade, Invitati
<1>10. CASE UNCHANGED vars
  <2>1. UNCHANGED <<guasto, utenti, volo, generati>>
    BY <1>10 DEF vars
  <2> QED BY <2>1, InvitatiFermi
<1>11. ASSUME NEW r \in Richieste, Comincia(r)
       PROVE  Invitati'
  BY <1>1, <1>5, <1>7, <1>11 DEF Comincia
<1>13. ASSUME NEW r \in Richieste, PasswordRifiutata(r)
       PROVE  Invitati'
  <2>1. volo[r].passo # "attiva" /\ UNCHANGED <<guasto, generati, utenti>>
    BY <1>13 DEF PasswordRifiutata, Attende, gettoni
  <2>2. Tocca(r)
    BY <1>13, ToccaUno DEF PasswordRifiutata
  <2> QED BY <1>a, <2>1, <2>2 DEF StessiConti
<1>12. ASSUME NEW r \in Richieste, Prosegue(r)
       PROVE  Invitati'
  BY <1>2, <1>6, <1>8, <1>12, <1>13, InvitatiPassword, InvitatiAttiva DEF Prosegue
<1> QED BY <1>3, <1>4, <1>8, <1>9, <1>10, <1>11, <1>12 DEF Next

LEMMA InvitatiDice == Invitati => InvitoCompleto
BY DEF Invitati, InvitoCompleto, ConInvito, DaAttivare

\* Unless a handler stopped halfway, an invited user who has set his password
\* is active once the handlers are done, whichever handlers of the same
\* account ran at the same time (Account.InvitoCompleto).
THEOREM InvitoCompletoAccount == Spec => []InvitoCompleto
<1>1. Init => Invitati
  BY DEF Init, Invitati
<1> QED BY <1>1, InvitatiDice, InvSempre, InvitatiStep, PTL DEF Spec

-----------------------------------------------------------------------------
(* The second factor, when its handlers run one at a time for an account.  *)

\* A handler of the second factor, with its account and what was shown.
InOrdine(l, conti, visti) ==
  l.passo \in Passi2FA =>
    /\ l.utente \in DOMAIN conti
    /\ l.passo = "setup_off" => conti[l.utente].segreto = l.nuovo
    /\ l.passo = "enable_on" => conti[l.utente].segreto \in visti[l.utente]
    /\ l.passo = "disable_segreto" => ~conti[l.utente].abilitata

\* The accounts no such handler is at work on.
Usabile(a, visti) == a.abilitata => a.segreto \in visti

FattoreGiusto ==
  /\ \A r \in DOMAIN volo : InOrdine(volo[r], utenti, mostrati)
  /\ \A r, q \in DOMAIN volo :
       /\ volo[r].passo \in Passi2FA /\ volo[q].passo \in Passi2FA
       /\ volo[r].utente = volo[q].utente
       => r = q
  /\ \A u \in DOMAIN utenti : In2FA(u) \/ Usabile(utenti[u], mostrati[u])

Fattori == ~(guasto \/ sovrapposti) => FattoreGiusto

\* The steps of the other handlers.
StessoFattore ==
  /\ DOMAIN utenti \subseteq DOMAIN utenti'
  /\ \A u \in DOMAIN utenti : /\ utenti'[u].segreto = utenti[u].segreto
                              /\ utenti'[u].abilitata = utenti[u].abilitata
  /\ \A u \in DOMAIN utenti' \ DOMAIN utenti : utenti'[u].abilitata = FALSE

LEMMA FattoreFermo ==
  ASSUME Inv, Inv', FattoreGiusto, StessoFattore, UNCHANGED mostrati, NEW r, Tocca(r),
         r \in DOMAIN volo => volo[r].passo \notin Passi2FA,
         r \in DOMAIN volo' => volo'[r].passo \notin Passi2FA,
         DOMAIN volo' \subseteq DOMAIN volo \cup {r}
  PROVE  FattoreGiusto'
<1>1. \A q \in DOMAIN volo' : volo'[q].passo \in Passi2FA =>
        q # r /\ q \in DOMAIN volo /\ volo'[q] = volo[q]
  BY DEF Tocca
<1>2. \A q \in DOMAIN volo : volo[q].passo \in Passi2FA =>
        q # r /\ q \in DOMAIN volo' /\ volo'[q] = volo[q]
  BY DEF Tocca
<1>3. \A q \in DOMAIN volo' : InOrdine(volo'[q], utenti', mostrati')
  <2> SUFFICES ASSUME NEW q \in DOMAIN volo', volo'[q].passo \in Passi2FA
               PROVE  InOrdine(volo'[q], utenti', mostrati')
    BY DEF InOrdine
  <2>1. q \in DOMAIN volo /\ volo'[q] = volo[q] /\ InOrdine(volo[q], utenti, mostrati)
    BY <1>1 DEF FattoreGiusto
  <2> QED BY <2>1 DEF InOrdine, StessoFattore
<1>4. \A p, q \in DOMAIN volo' :
        /\ volo'[p].passo \in Passi2FA /\ volo'[q].passo \in Passi2FA
        /\ volo'[p].utente = volo'[q].utente
        => p = q
  BY <1>1 DEF FattoreGiusto
<1>5. ASSUME NEW u \in DOMAIN utenti'
      PROVE  In2FA(u)' \/ Usabile(utenti'[u], mostrati'[u])
  <2>1. CASE u \in DOMAIN utenti
    <3>1. In2FA(u) \/ Usabile(utenti[u], mostrati[u])
      BY <2>1 DEF FattoreGiusto
    <3>2. In2FA(u) => In2FA(u)'
      BY <1>2 DEF In2FA
    <3> QED BY <2>1, <3>1, <3>2 DEF Usabile, StessoFattore
  <2>2. CASE u \notin DOMAIN utenti
    BY <1>5, <2>2 DEF Usabile, StessoFattore
  <2> QED BY <2>1, <2>2
<1> QED BY <1>3, <1>4, <1>5 DEF FattoreGiusto

\* A step of the one handler, `r`, at work on the second factor of `u`.
LEMMA FattoreSolo ==
  ASSUME FattoreGiusto, NEW r, NEW u \in DOMAIN utenti, Tocca(r),
         DOMAIN volo' \subseteq DOMAIN volo \cup {r},
         \A q \in DOMAIN volo : q # r /\ volo[q].passo \in Passi2FA => volo[q].utente # u,
         r \in DOMAIN volo => volo[r].passo \in Passi2FA /\ volo[r].utente = u,
         DOMAIN utenti' = DOMAIN utenti,
         \A v \in DOMAIN utenti : v # u => utenti'[v] = utenti[v] /\ mostrati'[v] = mostrati[v],
         \/ /\ r \in DOMAIN volo' /\ volo'[r].passo \in Passi2FA /\ volo'[r].utente = u
            /\ InOrdine(volo'[r], utenti', mostrati')
         \/ r \notin DOMAIN volo' /\ Usabile(utenti'[u], mostrati'[u])
  PROVE  FattoreGiusto'
<1>1. \A q \in DOMAIN volo' : q # r => q \in DOMAIN volo /\ volo'[q] = volo[q]
  BY DEF Tocca
<1>2. \A q \in DOMAIN volo' : InOrdine(volo'[q], utenti', mostrati')
  <2> SUFFICES ASSUME NEW q \in DOMAIN volo', q # r, volo'[q].passo \in Passi2FA
               PROVE  InOrdine(volo'[q], utenti', mostrati')
    BY DEF InOrdine
  <2>1. q \in DOMAIN volo /\ volo'[q] = volo[q] /\ InOrdine(volo[q], utenti, mostrati)
    BY <1>1 DEF FattoreGiusto
  <2>2. volo[q].utente # u /\ volo[q].utente \in DOMAIN utenti
    BY <2>1 DEF InOrdine
  <2> QED BY <2>1, <2>2 DEF InOrdine
<1>3. \A p, q \in DOMAIN volo' :
        /\ volo'[p].passo \in Passi2FA /\ volo'[q].passo \in Passi2FA
        /\ volo'[p].utente = volo'[q].utente
        => p = q
  BY <1>1 DEF FattoreGiusto
<1>4. ASSUME NEW v \in DOMAIN utenti'
      PROVE  In2FA(v)' \/ Usabile(utenti'[v], mostrati'[v])
  <2>1. CASE v = u
    BY <2>1 DEF In2FA
  <2>2. CASE v # u
    <3>1. In2FA(v) \/ Usabile(utenti[v], mostrati[v])
      BY <1>4 DEF FattoreGiusto
    <3>2. In2FA(v) => In2FA(v)'
      BY <2>2 DEF In2FA, Tocca
    <3> QED BY <1>4, <2>2, <3>1, <3>2
  <2> QED BY <2>1, <2>2
<1> QED BY <1>2, <1>3, <1>4 DEF FattoreGiusto

LEMMA DominioVolo ==
  ASSUME NEW r, \/ Finisci(r)
                \/ \E l : Segue(r, l)
                \/ UNCHANGED volo
  PROVE  DOMAIN volo' \subseteq DOMAIN volo \cup {r}
BY DEF Finisci, Segue, Con, Senza, Restrict

\* A handler of the second factor starts.
LEMMA FattoreInizia ==
  ASSUME Inv, FattoreGiusto, ~sovrapposti', NEW r \in Richieste, NEW u \in Utenti,
         \/ \E s \in Segreti : SetupSecret(r, u, s)
         \/ EnableGet(r, u) \/ DisableGet(r, u)
  PROVE  FattoreGiusto'
<1>1. /\ r \notin DOMAIN volo /\ u \in DOMAIN utenti /\ ~In2FA(u)
      /\ UNCHANGED mostrati
  BY DEF SetupSecret, EnableGet, DisableGet, Inizia2FA, Libera
<1>2. Tocca(r) /\ DOMAIN volo' \subseteq DOMAIN volo \cup {r}
  BY ToccaUno, DominioVolo DEF SetupSecret, EnableGet, DisableGet
<1>3. \A q \in DOMAIN volo : volo[q].passo \in Passi2FA => volo[q].utente # u
  BY <1>1 DEF In2FA
<1>4. /\ DOMAIN utenti' = DOMAIN utenti
      /\ \A v \in DOMAIN utenti : v # u => utenti'[v] = utenti[v]
  BY DEF SetupSecret, EnableGet, DisableGet, Inv, InvUtenti, TipiUtenti
<1>5. /\ r \in DOMAIN volo' /\ volo'[r].passo \in Passi2FA /\ volo'[r].utente = u
      /\ InOrdine(volo'[r], utenti', mostrati')
  <2>1. CASE \E s \in Segreti : SetupSecret(r, u, s)
    <3>1. PICK s \in Segreti : SetupSecret(r, u, s)
      BY <2>1
    <3>2. PICK l : l = [Lavoro("setup_off", u) EXCEPT !.nuovo = s]
      OBVIOUS
    <3>3. l.passo = "setup_off" /\ l.utente = u /\ l.nuovo = s
      BY <3>2 DEF Lavoro
    <3>4. r \in DOMAIN volo' /\ volo'[r] = l
      BY <3>1, <3>2 DEF SetupSecret, Segue, Con
    <3>5. utenti'[u].segreto = s
      BY <1>1, <3>1 DEF SetupSecret, Inv, InvUtenti, TipiUtenti, Utente
    <3> QED BY <1>1, <1>4, <3>3, <3>4, <3>5 DEF InOrdine, Passi2FA
  <2>2. CASE EnableGet(r, u)
    <3>1. r \in DOMAIN volo' /\ volo'[r] = Lavoro("enable_on", u) /\ UNCHANGED utenti
      BY <2>2 DEF EnableGet, Segue, Con
    <3>2. volo'[r].passo = "enable_on" /\ volo'[r].utente = u
      BY <3>1 DEF Lavoro
    <3>3. utenti[u].segreto \in mostrati[u]
      BY <2>2 DEF EnableGet, CodiceValido
    <3> QED BY <1>1, <3>1, <3>2, <3>3 DEF InOrdine, Passi2FA
  <2>3. CASE DisableGet(r, u)
    <3>1. r \in DOMAIN volo' /\ volo'[r] = Lavoro("disable_off", u) /\ UNCHANGED utenti
      BY <2>3 DEF DisableGet, Segue, Con
    <3>2. volo'[r].passo = "disable_off" /\ volo'[r].utente = u
      BY <3>1 DEF Lavoro
    <3> QED BY <1>1, <3>1, <3>2 DEF InOrdine, Passi2FA
  <2> QED BY <2>1, <2>2, <2>3
<1> QED BY <1>1, <1>2, <1>3, <1>4, <1>5, FattoreSolo

\* A handler of the second factor goes on or ends.
LEMMA FattoreProsegue ==
  ASSUME Inv, FattoreGiusto, NEW r \in Richieste,
         SetupOff(r) \/ EnableOn(r) \/ DisableOff(r) \/ DisableSecret(r) \/ SetupOffFallisce(r)
  PROVE  FattoreGiusto'
<1>0. PICK u, l : u = volo[r].utente /\ l = volo[r]
  OBVIOUS
<1>1. /\ r \in DOMAIN volo /\ l.passo \in Passi2FA /\ l \in InVolo /\ l.utente = u
      /\ InOrdine(l, utenti, mostrati)
  BY <1>0 DEF SetupOff, EnableOn, DisableOff, DisableSecret, SetupOffFallisce, Attende, Passi2FA,
              FattoreGiusto, Inv, InvVolo, TipiVolo
<1>2. u \in DOMAIN utenti /\ u \in Utenti /\ utenti[u] \in Utente
  BY <1>1 DEF InOrdine, Inv, InvUtenti, TipiUtenti
<1>3. Tocca(r) /\ DOMAIN volo' \subseteq DOMAIN volo \cup {r}
  BY ToccaUno, DominioVolo DEF SetupOff, EnableOn, DisableOff, DisableSecret, SetupOffFallisce
<1>4. \A q \in DOMAIN volo : q # r /\ volo[q].passo \in Passi2FA => volo[q].utente # u
  BY <1>0, <1>1 DEF FattoreGiusto
<1>5. /\ DOMAIN utenti' = DOMAIN utenti
      /\ \A v \in DOMAIN utenti : v # u => utenti'[v] = utenti[v] /\ mostrati'[v] = mostrati[v]
  BY <1>0 DEF SetupOff, EnableOn, DisableOff, DisableSecret, SetupOffFallisce, Mostra,
              Inv, InvUtenti, TipiUtenti, TipiAltri
<1>6. \/ /\ r \in DOMAIN volo' /\ volo'[r].passo \in Passi2FA /\ volo'[r].utente = u
         /\ InOrdine(volo'[r], utenti', mostrati')
      \/ r \notin DOMAIN volo' /\ Usabile(utenti'[u], mostrati'[u])
  <2>0. ASSUME Finisci(r)
        PROVE  r \notin DOMAIN volo'
    BY <2>0 DEF Finisci, Senza, Restrict
  <2>1. CASE SetupOff(r)
    <3>1. utenti' = [utenti EXCEPT ![u].abilitata = FALSE]
      BY <1>0, <2>1 DEF SetupOff
    <3>2. utenti'[u].abilitata = FALSE
      BY <1>2, <3>1 DEF Inv, InvUtenti, TipiUtenti, Utente
    <3> QED BY <2>0, <2>1, <3>2 DEF SetupOff, Usabile
  <2>2. CASE EnableOn(r)
    <3>1. l.passo = "enable_on" /\ UNCHANGED mostrati
      BY <1>0, <2>2 DEF EnableOn, Attende
    <3>2. utenti' = [utenti EXCEPT ![u].abilitata = TRUE]
      BY <1>0, <2>2 DEF EnableOn
    <3>3. utenti'[u].segreto = utenti[u].segreto
      BY <1>2, <3>2 DEF Inv, InvUtenti, TipiUtenti, Utente
    <3>4. utenti[u].segreto \in mostrati[u]
      BY <1>1, <3>1 DEF InOrdine
    <3> QED BY <2>0, <2>2, <3>1, <3>3, <3>4 DEF EnableOn, Usabile
  <2>3. CASE DisableOff(r)
    <3>1. utenti' = [utenti EXCEPT ![u].abilitata = FALSE]
      BY <1>0, <2>3 DEF DisableOff
    <3>2. utenti'[u].abilitata = FALSE
      BY <1>2, <3>1 DEF Inv, InvUtenti, TipiUtenti, Utente
    <3>3. PICK m : m = [l EXCEPT !.passo = "disable_segreto"]
      OBVIOUS
    <3>4. m.passo = "disable_segreto" /\ m.utente = u
      BY <1>1, <3>3 DEF InVolo
    <3>5. r \in DOMAIN volo' /\ volo'[r] = m
      BY <1>0, <2>3, <3>3 DEF DisableOff, Segue, Con
    <3> QED BY <1>2, <1>5, <3>2, <3>4, <3>5 DEF InOrdine, Passi2FA
  <2>4. CASE DisableSecret(r)
    <3>1. l.passo = "disable_segreto"
      BY <1>0, <2>4 DEF DisableSecret, Attende
    <3>2. utenti' = [utenti EXCEPT ![u].segreto = Vuoto]
      BY <1>0, <2>4 DEF DisableSecret
    <3>3. ~utenti'[u].abilitata
      <4>1. utenti'[u].abilitata = utenti[u].abilitata
        BY <1>2, <3>2 DEF Inv, InvUtenti, TipiUtenti, Utente
      <4>2. ~utenti[u].abilitata
        BY <1>1, <3>1 DEF InOrdine
      <4> QED BY <4>1, <4>2
    <3> QED BY <2>0, <2>4, <3>3 DEF DisableSecret, Usabile
  <2>5. CASE SetupOffFallisce(r)
    <3>1. l.passo = "setup_off" /\ UNCHANGED utenti
      BY <1>0, <2>5 DEF SetupOffFallisce, Attende
    <3>2. utenti[u].segreto = l.nuovo
      BY <1>1, <3>1 DEF InOrdine
    <3>3. mostrati' = [mostrati EXCEPT ![u] = @ \cup {l.nuovo}]
      BY <1>0, <2>5 DEF SetupOffFallisce, Mostra
    <3>4. l.nuovo \in mostrati'[u]
      BY <1>2, <3>3 DEF Inv, TipiAltri
    <3> QED BY <2>0, <2>5, <3>1, <3>2, <3>4 DEF SetupOffFallisce, Usabile
  <2> QED BY <2>1, <2>2, <2>3, <2>4, <2>5
<1> QED BY <1>0, <1>1, <1>2, <1>3, <1>4, <1>5, <1>6, FattoreSolo

\* The handler of an accepted token goes on to write the account, or ends.
LEMMA DopoConsumoVolo ==
  ASSUME NEW r, NEW t, NEW per, DopoConsumo(r, t, per), r \in DOMAIN volo'
  PROVE  volo'[r].passo \in {"password", "attiva"}
<1>1. PICK p, u, scopo : /\ p = (IF per = "reset" THEN "password" ELSE "attiva")
                         /\ u = tokens[t].utente /\ scopo = tokens[t].scopo
  OBVIOUS
<1>2. \/ Finisci(r)
      \/ Segue(r, [Lavoro(p, u) EXCEPT !.tok = t, !.scopo = scopo])
  BY <1>1 DEF DopoConsumo
<1>3. ~Finisci(r)
  BY DEF Finisci, Senza, Restrict
<1>4. [Lavoro(p, u) EXCEPT !.tok = t, !.scopo = scopo] = Scheda(p, u, scopo, t, Vuoto)
  BY SchedaTokScopo, Zenon
<1>5. volo' = Con(volo, r, Scheda(p, u, scopo, t, Vuoto))
  BY <1>2, <1>3, <1>4 DEF Segue
<1>6. volo'[r].passo = p
  BY <1>5 DEF Con, Scheda
<1> QED BY <1>1, <1>6

LEMMA FattoriStep ==
  ASSUME Inv, Fattori, [Next]_vars
  PROVE  Fattori'
<1> SUFFICES ASSUME ~guasto', ~sovrapposti'
             PROVE  FattoreGiusto'
  BY DEF Fattori
<1>i. Inv'
  BY InvStep
<1>a. ASSUME NEW r, Tocca(r), DOMAIN volo' \subseteq DOMAIN volo \cup {r},
             r \in DOMAIN volo => volo[r].passo \notin Passi2FA,
             r \in DOMAIN volo' => volo'[r].passo \notin Passi2FA,
             UNCHANGED <<guasto, sovrapposti, mostrati>>, StessoFattore
      PROVE  FattoreGiusto'
  BY <1>i, <1>a, FattoreFermo DEF Fattori
<1>b. ASSUME UNCHANGED <<volo, utenti, mostrati, guasto, sovrapposti>>
      PROVE  FattoreGiusto'
  <2>1. FattoreGiusto
    BY <1>b DEF Fattori
  <2> QED BY <1>b, <2>1 DEF FattoreGiusto, In2FA
<1>1. ASSUME NEW r \in Richieste, NEW u \in Utenti, NEW scopo, CreateUser(r, u, scopo)
      PROVE  FattoreGiusto'
  <2>1. /\ r \notin DOMAIN volo /\ UNCHANGED <<guasto, sovrapposti, mostrati>>
        /\ Tocca(r) /\ DOMAIN volo' \subseteq DOMAIN volo \cup {r}
    BY <1>1, ToccaUno, DominioVolo DEF CreateUser, Libera
  <2>2. StessoFattore
    BY <1>1 DEF CreateUser, StessoFattore, Con
  <2>3. volo'[r].passo = "token"
    BY <1>1 DEF CreateUser, Segue, Con, Lavoro
  <2> QED BY <1>a, <2>1, <2>2, <2>3 DEF Passi2FA
<1>2. ASSUME NEW r \in Richieste, NEW t \in Token, CreateToken(r, t)
      PROVE  FattoreGiusto'
  <2>1. /\ volo[r].passo = "token" /\ r \notin DOMAIN volo'
        /\ UNCHANGED <<guasto, sovrapposti, mostrati, utenti>>
    BY <1>2 DEF CreateToken, Attende, account, Finisci, Senza, Restrict
  <2>2. Tocca(r) /\ DOMAIN volo' \subseteq DOMAIN volo \cup {r}
    BY <1>2, ToccaUno, DominioVolo DEF CreateToken
  <2> QED BY <1>a, <2>1, <2>2 DEF StessoFattore, Passi2FA
<1>3. ASSUME NEW r \in Richieste, NEW t, NEW per, DopoConsumo(r, t, per),
             r \in DOMAIN volo => volo[r].passo = "update", UNCHANGED account
      PROVE  FattoreGiusto'
  <2>1. Tocca(r) /\ DOMAIN volo' \subseteq DOMAIN volo \cup {r}
    BY <1>3, ToccaUno, DominioVolo DEF DopoConsumo
  <2>2. r \in DOMAIN volo' => volo'[r].passo \in {"password", "attiva"}
    BY <1>3, DopoConsumoVolo
  <2> QED BY <1>3, <1>a, <2>1, <2>2 DEF StessoFattore, Passi2FA, account
<1>4. ASSUME NEW r \in Richieste, NEW t \in Token, NEW per \in {"reset", "verify"},
             ConsumeMemory(r, t, per)
      PROVE  FattoreGiusto'
  <2>1. DopoConsumo(r, t, per) /\ r \notin DOMAIN volo /\ UNCHANGED account
    BY <1>4 DEF ConsumeMemory, Libera
  <2> QED BY <1>3, <2>1
<1>5. ASSUME NEW r \in Richieste, NEW t \in Token, NEW per \in {"reset", "verify"},
             ConsumeFind(r, t, per)
      PROVE  FattoreGiusto'
  <2>1. /\ r \notin DOMAIN volo /\ UNCHANGED <<guasto, sovrapposti, mostrati, utenti>>
        /\ Tocca(r) /\ DOMAIN volo' \subseteq DOMAIN volo \cup {r}
    BY <1>5, ToccaUno, DominioVolo DEF ConsumeFind, Libera, account
  <2>2. PICK u : volo' = Con(volo, r, Scheda("update", u, Vuoto, t, per))
    <3>1. PICK u : u = tokens[t].utente
      OBVIOUS
    <3>2. volo' = Con(volo, r, [Lavoro("update", u) EXCEPT !.tok = t, !.per = per])
      BY <1>5, <3>1 DEF ConsumeFind, Segue
    <3>3. [Lavoro("update", u) EXCEPT !.tok = t, !.per = per] = Scheda("update", u, Vuoto, t, per)
      BY SchedaTokPer, Zenon
    <3> QED BY <3>2, <3>3
  <2>3. volo'[r].passo = "update"
    BY <2>2 DEF Con, Scheda
  <2> QED BY <1>a, <2>1, <2>3 DEF StessoFattore, Passi2FA
<1>6. ASSUME NEW r \in Richieste, ConsumeUpdate(r)
      PROVE  FattoreGiusto'
  <2>1. /\ volo[r].passo = "update" /\ UNCHANGED account
        /\ Finisci(r) \/ DopoConsumo(r, volo[r].tok, volo[r].per)
    BY <1>6 DEF ConsumeUpdate, Attende
  <2>2. CASE Finisci(r)
    <3>1. r \notin DOMAIN volo'
      BY <2>2 DEF Finisci, Senza, Restrict
    <3> QED BY <1>a, <2>1, <2>2, <3>1, ToccaUno, DominioVolo DEF StessoFattore, Passi2FA, account
  <2>3. CASE DopoConsumo(r, volo[r].tok, volo[r].per)
    BY <1>3, <2>1, <2>3
  <2> QED BY <2>1, <2>2, <2>3
<1>7. ASSUME NEW r \in Richieste,
             UpdateUserPassword(r) \/ PasswordRifiutata(r) \/ SetUserVerificationState(r)
      PROVE  FattoreGiusto'
  <2>0. PICK l : l = volo[r]
    OBVIOUS
  <2>1. /\ r \in DOMAIN volo /\ l.passo \in {"password", "attiva"} /\ l \in InVolo
        /\ UNCHANGED <<guasto, sovrapposti, mostrati>>
        /\ Finisci(r) \/ Segue(r, [l EXCEPT !.passo = "attiva"])
    BY <1>7, <2>0
       DEF UpdateUserPassword, PasswordRifiutata, SetUserVerificationState, Attende, Inv,
           InvVolo, TipiVolo
  <2>2. Tocca(r) /\ DOMAIN volo' \subseteq DOMAIN volo \cup {r}
    BY <2>1, ToccaUno, DominioVolo
  <2>3. StessoFattore
    <3>1. \/ \E u, t : utenti' = [utenti EXCEPT ![u].password = t]
          \/ \E u : utenti' = [utenti EXCEPT ![u].attivo = TRUE]
          \/ utenti' = utenti
      BY <1>7 DEF UpdateUserPassword, PasswordRifiutata, SetUserVerificationState
    <3> QED BY <3>1 DEF StessoFattore, Inv, InvUtenti, TipiUtenti, Utente
  <2>4. r \in DOMAIN volo' => volo'[r].passo = "attiva"
    <3>1. CASE Finisci(r)
      BY <3>1 DEF Finisci, Senza, Restrict
    <3>2. CASE Segue(r, [l EXCEPT !.passo = "attiva"])
      <4>1. [l EXCEPT !.passo = "attiva"].passo = "attiva"
        BY <2>1 DEF InVolo
      <4> QED BY <3>2, <4>1 DEF Segue, Con
    <3> QED BY <2>1, <3>1, <3>2
  <2> QED BY <1>a, <2>0, <2>1, <2>2, <2>3, <2>4 DEF Passi2FA
<1>8. ASSUME NEW r \in Richieste, NEW u \in Utenti,
             \/ \E s \in Segreti : SetupSecret(r, u, s)
             \/ EnableGet(r, u) \/ DisableGet(r, u)
      PROVE  FattoreGiusto'
  <2>1. ~guasto /\ ~sovrapposti
    <3>1. Inizia2FA(r, u)
      BY <1>8 DEF SetupSecret, EnableGet, DisableGet
    <3>2. guasto' = guasto /\ sovrapposti' = (sovrapposti \/ In2FA(u))
      BY <3>1, Zenon DEF Inizia2FA
    <3> QED BY <3>2, Zenon
  <2> QED BY <1>8, <2>1, FattoreInizia DEF Fattori
<1>9. ASSUME NEW r \in Richieste,
             SetupOff(r) \/ EnableOn(r) \/ DisableOff(r) \/ DisableSecret(r) \/ SetupOffFallisce(r)
      PROVE  FattoreGiusto'
  <2>1. ~guasto /\ ~sovrapposti
    BY <1>9 DEF SetupOff, EnableOn, DisableOff, DisableSecret, SetupOffFallisce
  <2> QED BY <1>9, <2>1, FattoreProsegue DEF Fattori
<1>10. ASSUME NEW r \in Richieste, Cade(r)
       PROVE  FattoreGiusto'
  BY <1>10 DEF Cade
<1>11. ASSUME NEW t \in Token,
              ConsumeScarta(t) \/ Scade(t) \/ \E u \in Utenti : ForgotPassword(u, t)
       PROVE  FattoreGiusto'
  BY <1>b, <1>11 DEF ConsumeScarta, Scade, ForgotPassword, account
<1>12. CASE UNCHANGED vars
  BY <1>b, <1>12 DEF vars
<1>13. ASSUME NEW r \in Richieste, Comincia(r)
       PROVE  FattoreGiusto'
  BY <1>1, <1>4, <1>5, <1>8, <1>13 DEF Comincia
<1>14. ASSUME NEW r \in Richieste, Prosegue(r)
       PROVE  FattoreGiusto'
  BY <1>2, <1>6, <1>7, <1>9, <1>14 DEF Prosegue
<1> QED BY <1>9, <1>10, <1>11, <1>12, <1>13, <1>14 DEF Next

LEMMA FattoriDice == Fattori => SecondoFattoreUsabile
BY DEF Fattori, FattoreGiusto, Usabile, SecondoFattoreUsabile, CodiceValido

\* With no handler stopped halfway, and the handlers of one account's second
\* factor run one at a time, a user with the second factor on was shown the
\* secret it is computed from (Account.SecondoFattoreUsabile).
THEOREM SecondoFattoreUsabileAccount == Spec => []SecondoFattoreUsabile
<1>1. Init => Fattori
  BY DEF Init, Fattori, FattoreGiusto
<1> QED BY <1>1, FattoriDice, InvSempre, FattoriStep, PTL DEF Spec

-----------------------------------------------------------------------------
(* All of it together, for a system that the accounts are a part of.       *)

InvConti == Inv /\ Invitati /\ Fattori

LEMMA ContiInit == Init => InvConti
BY InvInit DEF Init, InvConti, Invitati, Fattori, FattoreGiusto

LEMMA ContiPasso == InvConti /\ [Next]_vars => InvConti'
BY InvStep, InvitatiStep, FattoriStep DEF InvConti

LEMMA ContiDicono ==
  InvConti => TypeOK /\ TokenUnaVolta /\ SoloConToken /\ InvitoCompleto /\ SecondoFattoreUsabile
<1>1. Inv => TypeOK /\ TokenUnaVolta /\ SoloConToken
  BY InvDice
<1>2. Invitati => InvitoCompleto
  BY InvitatiDice
<1>3. Fattori => SecondoFattoreUsabile
  BY FattoriDice
<1> QED BY <1>1, <1>2, <1>3 DEF InvConti

\* The store is chosen once.
LEMMA StoreFermo == [Next]_vars => UNCHANGED store
BY DEF Next, Comincia, Prosegue, CreateUser, CreateToken, ForgotPassword, Scade, ConsumeMemory,
   ConsumeFind, ConsumeUpdate, ConsumeScarta, UpdateUserPassword,
   PasswordRifiutata, SetUserVerificationState, SetupSecret, SetupOff, EnableGet, EnableOn, DisableGet, DisableOff, DisableSecret, Cade,
   SetupOffFallisce, vars

=============================================================================
