------------------------------- MODULE ScriptSeed -------------------------------
(***************************************************************************)
(* The script seed_demo_data: it upserts applicants by e-mail and pratiche *)
(* by code, straight into the database that a server may be using.  It     *)
(* ends at the first call that fails, and it is run again, at will with    *)
(* other counts.  A request of the server changes the state of a pratica   *)
(* with a read and a replacement, as in PraticaMongo.                      *)
(*                                                                         *)
(* Codes and e-mails are those of one prefix and one year.  The contents   *)
(* of a pratica other than owner, state and timeline are left out; of the  *)
(* timeline what its last event says is kept: the state it leads to, and   *)
(* whether the pratica it names is the one it is stored with.  (The roles  *)
(* and passwords of the accounts are in Avvio.)                            *)
(***************************************************************************)
EXTENDS PraticaDoc, Mappe, FiniteSets

CONSTANTS Corse,      \* runs of the script
          Richieste,  \* requests of the server
          Ident,      \* ids of accounts and of pratiche
          MaxUtenti, MaxPratiche,   \* bounds on -users and -pratiche
          Decisioni   \* the states that a request leads to

VARIABLES conti,      \* number in the e-mail -> id of the account
          pratiche,   \* number in the code -> pratica
          corsa,      \* run -> where it is
          letta       \* request -> what it has read, or Niente

vars == <<conti, pratiche, corsa, letta>>

Niente == [n |-> 0]

states == <<"BOZZA", "INVIATA", "IN_LAVORAZIONE", "INTEGRAZIONE_RICHIESTA", "SOSPESA",
            "APPROVATA", "RIFIUTATA", "ATTENDE_PAGAMENTO", "PAGAMENTO_RICEVUTO",
            "VISTO_IN_ELABORAZIONE", "VISTO_EMESSO", "COMPLETATA">>

PraticaSeme == [id : Ident, utente : Ident, stato : StatoPratica,
                evento : StatoPratica, nomina : BOOLEAN]

Corsa == [passo   : {"ferma", "utenti", "pratiche"},
          utenti  : 0..MaxUtenti,     \* -users
          n       : 0..MaxPratiche,   \* -pratiche
          i       : Nat,              \* the loop's counter
          userIDs : Seq(Ident)]

Ferma == [passo |-> "ferma", utenti |-> 0, n |-> 0, i |-> 0, userIDs |-> << >>]

TypeOK ==
  /\ DOMAIN conti \subseteq 1..MaxUtenti /\ Range(conti) \subseteq Ident
  /\ DOMAIN pratiche \subseteq 1..MaxPratiche /\ Range(pratiche) \subseteq PraticaSeme
  /\ corsa \in [Corse -> Corsa]
  /\ \A r \in Corse :
       /\ corsa[r].passo = "utenti" => Len(corsa[r].userIDs) = corsa[r].i - 1
       /\ corsa[r].passo = "pratiche" => Len(corsa[r].userIDs) = corsa[r].utenti
  /\ \A q \in Richieste :
       letta[q] # Niente => letta[q].n \in DOMAIN pratiche /\ letta[q].doc \in PraticaSeme

Init ==
  /\ conti = << >>
  /\ pratiche = << >>
  /\ corsa = [r \in Corse |-> Ferma]
  /\ letta = [q \in Richieste |-> Niente]

Nuovi == Ident \ (Range(conti) \cup {pratiche[n].id : n \in DOMAIN pratiche})

-----------------------------------------------------------------------------
(* The script.                                                             *)

Lancia(r, utenti, n) ==
  /\ corsa[r].passo = "ferma"
  /\ corsa' = [corsa EXCEPT ![r] =
                 [Ferma EXCEPT !.passo = "utenti", !.utenti = utenti, !.n = n, !.i = 1]]
  /\ UNCHANGED <<conti, pratiche, letta>>

\* Mutant: the account's id is the one the script made up.
IdUtenteNuovo(conto, nuovo) == nuovo

\* The id is $setOnInsert, and it is read back after the upsert.
IdUtente(conto, nuovo) == conto

UpsertUtente(r) ==
  LET c == corsa[r] IN
  /\ c.passo = "utenti" /\ c.i <= c.utenti
  /\ \E nuovo \in Nuovi :
       LET conto == IF c.i \in DOMAIN conti THEN conti[c.i] ELSE nuovo IN
       /\ conti' = Con(conti, c.i, conto)
       /\ corsa' = [corsa EXCEPT ![r].i = @ + 1,
                                 ![r].userIDs = Append(@, IdUtente(conto, nuovo))]
  /\ UNCHANGED <<pratiche, letta>>

FineUtenti(r) ==
  /\ corsa[r].passo = "utenti" /\ corsa[r].i > corsa[r].utenti
  /\ corsa' = [corsa EXCEPT ![r].passo = "pratiche", ![r].i = 1]
  /\ UNCHANGED <<conti, pratiche, letta>>

\* pick(items, i - 1)
pick(items, i) == items[((i - 1) % Len(items)) + 1]

\* $set: the state and a timeline of one event, together.  The event names the
\* pratica by the id just made up, which is the id of an insert only.
ConSeme(p, stato, nuovo) ==
  [p EXCEPT !.stato = stato, !.evento = stato, !.nomina = p.id = nuovo]

\* $setOnInsert
Proprietario(p, utente) == p.utente

UpsertPratica(r) ==
  LET c == corsa[r]
      stato == pick(states, c.i)
      utente == pick(c.userIDs, c.i) IN
  /\ c.passo = "pratiche" /\ c.i <= c.n
  /\ \E nuovo \in Nuovi :
       LET p == IF c.i \in DOMAIN pratiche THEN pratiche[c.i]
                ELSE [id |-> nuovo, utente |-> utente, stato |-> stato, evento |-> stato,
                      nomina |-> TRUE]
       IN  pratiche' = Con(pratiche, c.i,
                         [ConSeme(p, stato, nuovo) EXCEPT !.utente = Proprietario(p, utente)])
  /\ corsa' = [corsa EXCEPT ![r].i = @ + 1]
  /\ UNCHANGED <<conti, letta>>

\* The last pratica is written, or a call fails, or the 15 seconds are over.
Finisce(r) ==
  /\ corsa[r].passo # "ferma"
  /\ corsa' = [corsa EXCEPT ![r] = Ferma]
  /\ UNCHANGED <<conti, pratiche, letta>>

-----------------------------------------------------------------------------
(* A request that changes a state (MongoStore.ChangePraticaState).         *)

Legge(q, n, next) ==
  /\ letta[q] = Niente /\ n \in DOMAIN pratiche
  /\ Transizione(pratiche[n], next)
  /\ letta' = [letta EXCEPT ![q] = [n |-> n, doc |-> [pratiche[n] EXCEPT
                                      !.stato = next, !.evento = next, !.nomina = TRUE]]]
  /\ UNCHANGED <<conti, pratiche, corsa>>

Sostituisce(q) ==
  /\ letta[q] # Niente
  /\ pratiche' = [pratiche EXCEPT ![letta[q].n] = letta[q].doc]
  /\ letta' = [letta EXCEPT ![q] = Niente]
  /\ UNCHANGED <<conti, corsa>>

-----------------------------------------------------------------------------

Next ==
  \/ \E r \in Corse :
       \/ \E utenti \in 1..MaxUtenti, n \in 1..MaxPratiche : Lancia(r, utenti, n)
       \/ UpsertUtente(r) \/ FineUtenti(r) \/ UpsertPratica(r) \/ Finisce(r)
  \/ \E q \in Richieste :
       \/ \E n \in 1..MaxPratiche, next \in Decisioni : Legge(q, n, next)
       \/ Sostituisce(q)

Spec == Init /\ [][Next]_vars

-----------------------------------------------------------------------------
(* Properties.                                                             *)

\* The owner of every seeded pratica is an account that exists, also when the
\* account was there before the script, or comes from a run at the same time
\* (seed_demo_data/main.go:112); and its state is the one its timeline leads to,
\* though the script rewrites both under the requests of the server.  (The
\* pratica that its last event names is, after a second run, another.)
SemeCoerente ==
  \A n \in DOMAIN pratiche :
    /\ pratiche[n].utente \in Range(conti)
    /\ pratiche[n].stato = pratiche[n].evento

=============================================================================
