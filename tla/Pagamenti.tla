------------------------------- MODULE Pagamenti -------------------------------
(***************************************************************************)
(* Payments: the link a pratica is paid through, the provider's webhook,   *)
(* the refund, and the state of the pratica they move.  The webhook makes  *)
(* seven calls to the store and ignores the result of the last four; the   *)
(* provider delivers an event any number of times, at the same time too,   *)
(* and in any order.                                                       *)
(*                                                                         *)
(* Both stores are modelled.  With Store = "memory" every call is atomic   *)
(* and none fails.  With Store = "mongo" CreatePayment and                 *)
(* ChangePraticaState read first and write later, other operations rewrite *)
(* the whole pratica with the state they read, and with Guasti = TRUE a    *)
(* call may fail or the process crash between any two of them.             *)
(*                                                                         *)
(* Of a pratica only the state is kept (its timeline is in PraticaMongo);  *)
(* every other handler that changes it is a ChangePraticaState here.       *)
(* A link and a webhook end with a mail to the applicant.                  *)
(***************************************************************************)
EXTENDS PraticaDoc, Mappe

CONSTANTS PraticaId,
          Token,       \* payment tokens (fresh random strings)
          Eventi,      \* event ids of the provider
          TokenDi,     \* the payment each event is about
          Richieste,   \* handlers in flight at one time
          Store,       \* "memory" or "mongo"
          Guasti       \* may calls fail and processes crash

ASSUME TokenDiAssumption == TokenDi \in [Eventi -> Token]

VARIABLES stati,       \* id -> state, for the pratiche that exist
          generati,    \* pratica ids already given
          pagamenti,   \* token -> [pratica, stato]
          visti,       \* event ids in the webhooks collection
          volo,        \* handler -> what it does next
          movimenti    \* token -> confirmations and refunds, in order (history)

vars == <<stati, generati, pagamenti, visti, volo, movimenti>>

PagamentoStato == {"PENDENTE", "COMPLETATO", "RIMBORSATO"}

Pagamento == [pratica : PraticaId, stato : PagamentoStato]

\* Mutant: the webhook goes straight to the visa.
ScalaSenzaElaborazione == <<"PAGAMENTO_RICEVUTO", "VISTO_EMESSO", "COMPLETATA">>

\* The changes the webhook asks for, one after the other.
Scala == <<"PAGAMENTO_RICEVUTO", "VISTO_IN_ELABORAZIONE", "VISTO_EMESSO",
           "COMPLETATA">>

\* A handler in flight.  `resto` are the state changes it still asks for;
\* `scrive` the state in the document it is about to write; `trovata` the
\* state of the pratica when its payment was confirmed (history).
InVolo == [tipo   : {"webhook", "link", "altro"},
           passo  : {"insert", "enrich", "mark", "confirm", "cambia", "replace",
                     "notifica"},
           id     : PraticaId \cup {Vuoto},
           ev     : Eventi \cup {Vuoto},
           tok    : Token \cup {Vuoto},
           resto  : Seq(StatoPratica),
           scrive : StatoPratica \cup {Vuoto},
           trovata : StatoPratica \cup {Vuoto}]

Movimento == [tipo : {"conferma", "rimborso"}, ev : Eventi \cup {Vuoto}]

TypeOK ==
  /\ generati \subseteq PraticaId
  /\ DOMAIN stati \subseteq generati
  /\ stati \in [DOMAIN stati -> StatoPratica]
  /\ DOMAIN pagamenti \subseteq Token
  /\ pagamenti \in [DOMAIN pagamenti -> Pagamento]
  /\ visti \subseteq Eventi
  /\ DOMAIN volo \subseteq Richieste
  /\ volo \in [DOMAIN volo -> InVolo]
  /\ movimenti \in [Token -> Seq(Movimento)]

Init ==
  /\ stati = << >>
  /\ generati = {}
  /\ pagamenti = << >>
  /\ visti = {}
  /\ volo = << >>
  /\ movimenti = [t \in Token |-> << >>]

Esiste(id) == id \in DOMAIN stati

Libera(r) == r \notin DOMAIN volo

Attende(r, passo) == r \in DOMAIN volo /\ volo[r].passo = passo

Lavoro(tipo, passo, id) ==
  [tipo |-> tipo, passo |-> passo, id |-> id, ev |-> Vuoto, tok |-> Vuoto,
   resto |-> << >>, scrive |-> Vuoto, trovata |-> Vuoto]

Segue(r, lavoro) == volo' = Con(volo, r, lavoro)

Finisci(r) == volo' = Senza(volo, r)

-----------------------------------------------------------------------------
(* The pratica.                                                            *)

CreatePratica(id) ==
  /\ id \notin generati
  /\ generati' = generati \cup {id}
  /\ stati' = Con(stati, id, "BOZZA")
  /\ UNCHANGED <<pagamenti, visti, volo, movimenti>>

DeletePraticaAsDraft(id) ==
  /\ Esiste(id)
  /\ stati[id] = "BOZZA"
  /\ stati' = Senza(stati, id)
  /\ UNCHANGED <<generati, pagamenti, visti, volo, movimenti>>

\* Another handler asks for a change of state.
AltroCambio(r, id, next) ==
  /\ Libera(r)
  /\ Esiste(id)
  /\ next \in allowedTransitions[stati[id]]
  /\ Segue(r, [Lavoro("altro", "cambia", id) EXCEPT !.resto = <<next>>])
  /\ UNCHANGED <<stati, generati, pagamenti, visti, movimenti>>

\* Over MongoStore a note, a file, an edit, an assignment also write the
\* whole document, with the state they read.
AltraScrittura(r, id) ==
  /\ Store = "mongo"
  /\ Libera(r)
  /\ Esiste(id)
  /\ Segue(r, [Lavoro("altro", "replace", id) EXCEPT
                 !.resto = <<stati[id]>>, !.scrive = stati[id]])
  /\ UNCHANGED <<stati, generati, pagamenti, visti, movimenti>>

\* Mutant: one change is asked for, and the mail goes out.
ProssimoCambioSubito(r) ==
  IF volo[r].tipo = "altro"
  THEN Finisci(r)
  ELSE Segue(r, [volo[r] EXCEPT !.passo = "notifica", !.resto = << >>,
                                !.scrive = Vuoto])

\* The handler goes on to the next change it asks for, then to its mail.
ProssimoCambio(r) ==
  LET altri == Tail(volo[r].resto) IN
    IF volo[r].tipo = "altro" /\ altri = << >>
    THEN Finisci(r)
    ELSE Segue(r, [volo[r] EXCEPT
                     !.passo = IF altri = << >> THEN "notifica" ELSE "cambia",
                     !.resto = altri,
                     !.scrive = Vuoto])

Ammesso(r) ==
  /\ Esiste(volo[r].id)
  /\ Head(volo[r].resto) \in allowedTransitions[stati[volo[r].id]]

\* MemoryStore.ChangePraticaState; a refusal is ignored.
CambiaMemory(r) ==
  /\ Store = "memory"
  /\ Attende(r, "cambia")
  /\ stati' = IF Ammesso(r)
              THEN [stati EXCEPT ![volo[r].id] = Head(volo[r].resto)]
              ELSE stati
  /\ ProssimoCambio(r)
  /\ UNCHANGED <<generati, pagamenti, visti, movimenti>>

\* MongoStore.ChangePraticaState: FindOne and the table ...
CambiaFind(r) ==
  /\ Store = "mongo"
  /\ Attende(r, "cambia")
  /\ IF Ammesso(r)
     THEN Segue(r, [volo[r] EXCEPT !.passo = "replace",
                                   !.scrive = Head(volo[r].resto)])
     ELSE ProssimoCambio(r)
  /\ UNCHANGED <<stati, generati, pagamenti, visti, movimenti>>

\* ... and ReplaceOne, which matches nothing when the pratica is gone.
ReplaceOne(r) ==
  /\ Attende(r, "replace")
  /\ stati' = IF Esiste(volo[r].id)
              THEN [stati EXCEPT ![volo[r].id] = volo[r].scrive]
              ELSE stati
  /\ ProssimoCambio(r)
  /\ UNCHANGED <<generati, pagamenti, visti, movimenti>>

-----------------------------------------------------------------------------
(* The payment link.                                                       *)

\* Mutant: the payment is stored with the zero value of its state.
NuovoPagamentoSenzaStato(tok, id) ==
  pagamenti' = Con(pagamenti, tok, [pratica |-> id, stato |-> Vuoto])

NuovoPagamento(tok, id) ==
  pagamenti' = Con(pagamenti, tok, [pratica |-> id, stato |-> "PENDENTE"])

\* CreatePayment asks that the pratica exists, not that it is APPROVATA.
LinkMemory(r, id, tok) ==
  /\ Store = "memory"
  /\ Libera(r)
  /\ Esiste(id)
  /\ tok \notin DOMAIN pagamenti
  /\ NuovoPagamento(tok, id)
  /\ Segue(r, [Lavoro("link", "enrich", id) EXCEPT !.tok = tok])
  /\ UNCHANGED <<stati, generati, visti, movimenti>>

LinkGet(r, id) ==
  /\ Store = "mongo"
  /\ Libera(r)
  /\ Esiste(id)
  /\ Segue(r, Lavoro("link", "insert", id))
  /\ UNCHANGED <<stati, generati, pagamenti, visti, movimenti>>

LinkInsert(r, tok) ==
  /\ Attende(r, "insert")
  /\ tok \notin DOMAIN pagamenti
  /\ NuovoPagamento(tok, volo[r].id)
  /\ Segue(r, [volo[r] EXCEPT !.passo = "enrich", !.tok = tok])
  /\ UNCHANGED <<stati, generati, visti, movimenti>>

\* The provider opens its checkout session (UpdatePaymentCheckout stores the
\* link) and the pratica is asked to wait for the payment ...
EnrichRiesce(r) ==
  /\ Attende(r, "enrich")
  /\ Segue(r, [volo[r] EXCEPT !.passo = "cambia",
                              !.resto = <<"ATTENDE_PAGAMENTO">>])
  /\ UNCHANGED <<stati, generati, pagamenti, visti, movimenti>>

\* ... or it does not, and the payment stays PENDENTE.
EnrichFallisce(r) ==
  /\ Attende(r, "enrich")
  /\ Finisci(r)
  /\ UNCHANGED <<stati, generati, pagamenti, visti, movimenti>>

-----------------------------------------------------------------------------
(* The webhook and the refund.                                             *)

\* A delivery of an event whose payment exists; the provider may repeat it.
WebhookGet(r, ev) ==
  /\ Libera(r)
  /\ TokenDi[ev] \in DOMAIN pagamenti
  /\ Segue(r, [Lavoro("webhook", "mark", Vuoto) EXCEPT !.ev = ev,
                                                       !.tok = TokenDi[ev]])
  /\ UNCHANGED <<stati, generati, pagamenti, visti, movimenti>>

\* Mutant: the answer of the unique index is ignored.
WebhookMarkSempre(r) ==
  /\ Attende(r, "mark")
  /\ visti' = visti \cup {volo[r].ev}
  /\ Segue(r, [volo[r] EXCEPT !.passo = "confirm"])
  /\ UNCHANGED <<stati, generati, pagamenti, movimenti>>

\* MarkWebhookEventProcessed: one insertion under a unique index.
WebhookMark(r) ==
  /\ Attende(r, "mark")
  /\ visti' = visti \cup {volo[r].ev}
  /\ IF volo[r].ev \in visti
     THEN Finisci(r)                           \* "duplicate_ignored"
     ELSE Segue(r, [volo[r] EXCEPT !.passo = "confirm"])
  /\ UNCHANGED <<stati, generati, pagamenti, movimenti>>

StatoDi(id) == IF Esiste(id) THEN stati[id] ELSE Vuoto

Registra(tok, tipo, ev) ==
  movimenti' = [movimenti EXCEPT ![tok] = Append(@, [tipo |-> tipo, ev |-> ev])]

\* Mutant: only a PENDENTE payment is confirmed.
WebhookConfirmSePendente(r) ==
  /\ Attende(r, "confirm")
  /\ LET tok == volo[r].tok IN
       IF pagamenti[tok].stato = "PENDENTE"
       THEN /\ pagamenti' = [pagamenti EXCEPT ![tok].stato = "COMPLETATO"]
            /\ Registra(tok, "conferma", volo[r].ev)
            /\ Segue(r, [volo[r] EXCEPT !.passo = "cambia", !.resto = Scala,
                                        !.id = pagamenti[tok].pratica,
                                        !.trovata = StatoDi(pagamenti[tok].pratica)])
       ELSE Finisci(r) /\ UNCHANGED <<pagamenti, movimenti>>
  /\ UNCHANGED <<stati, generati, visti>>

\* ConfirmPaymentByToken looks at no state: also a RIMBORSATO is confirmed.
WebhookConfirm(r) ==
  /\ Attende(r, "confirm")
  /\ LET tok == volo[r].tok IN
       /\ pagamenti' = [pagamenti EXCEPT ![tok].stato = "COMPLETATO"]
       /\ Registra(tok, "conferma", volo[r].ev)
       /\ Segue(r, [volo[r] EXCEPT !.passo = "cambia", !.resto = Scala,
                                   !.id = pagamenti[tok].pratica,
                                   !.trovata = StatoDi(pagamenti[tok].pratica)])
  /\ UNCHANGED <<stati, generati, visti>>

\* notifyPaymentLink, notifyPagamentoCompletato: the mail is written from the
\* payment, whatever the changes answered, if the pratica is still there.
Notifica(r) ==
  /\ Attende(r, "notifica")
  /\ Finisci(r)
  /\ UNCHANGED <<stati, generati, pagamenti, visti, movimenti>>

\* Mutant: the write that refunds does not ask for COMPLETATO.
RefundSenzaStato(tok) ==
  /\ tok \in DOMAIN pagamenti
  /\ pagamenti' = [pagamenti EXCEPT ![tok].stato = "RIMBORSATO"]
  /\ Registra(tok, "rimborso", Vuoto)
  /\ UNCHANGED <<stati, generati, visti, volo>>

\* RefundPaymentByToken: one conditional write in both stores.
RefundPaymentByToken(tok) ==
  /\ tok \in DOMAIN pagamenti
  /\ pagamenti[tok].stato = "COMPLETATO"
  /\ pagamenti' = [pagamenti EXCEPT ![tok].stato = "RIMBORSATO"]
  /\ Registra(tok, "rimborso", Vuoto)
  /\ UNCHANGED <<stati, generati, visti, volo>>

-----------------------------------------------------------------------------
(* Failures.                                                               *)

\* A crash, or a failed call that the handler reports: it stops here.
Cade(r) ==
  /\ Guasti
  /\ r \in DOMAIN volo
  /\ Finisci(r)
  /\ UNCHANGED <<stati, generati, pagamenti, visti, movimenti>>

\* A failed ChangePraticaState, ignored: the handler goes on.
CambiaFallisce(r) ==
  /\ Guasti
  /\ Attende(r, "cambia")
  /\ ProssimoCambio(r)
  /\ UNCHANGED <<stati, generati, pagamenti, visti, movimenti>>

-----------------------------------------------------------------------------

Prosegue(r) ==
  \/ CambiaMemory(r)
  \/ CambiaFind(r)
  \/ ReplaceOne(r)
  \/ \E tok \in Token : LinkInsert(r, tok)
  \/ EnrichRiesce(r)
  \/ EnrichFallisce(r)
  \/ WebhookMark(r)
  \/ WebhookConfirm(r)
  \/ Notifica(r)

Comincia(r) ==
  \/ \E ev \in Eventi : WebhookGet(r, ev)
  \/ \E id \in PraticaId :
       \/ \E next \in StatoPratica : AltroCambio(r, id, next)
       \/ AltraScrittura(r, id)
       \/ \E tok \in Token : LinkMemory(r, id, tok)
       \/ LinkGet(r, id)

Next ==
  \/ \E id \in PraticaId : CreatePratica(id) \/ DeletePraticaAsDraft(id)
  \/ \E tok \in Token : RefundPaymentByToken(tok)
  \/ \E r \in Richieste : Comincia(r) \/ Prosegue(r)
  \/ \E r \in Richieste : Cade(r) \/ CambiaFallisce(r)

Spec == Init /\ [][Next]_vars

\* A handler that has started is scheduled until it returns.
FairSpec == Spec /\ \A r \in Richieste : WF_vars(Prosegue(r))

-----------------------------------------------------------------------------
(* Properties.                                                             *)

Conferme(tok) ==
  {i \in 1..Len(movimenti[tok]) : movimenti[tok][i].tipo = "conferma"}

\* However often, and however concurrently, an event is delivered, it
\* confirms its payment at most once, also across crashes and retries.
ConfermaUnica ==
  \A tok \in Token : \A i, j \in Conferme(tok) :
    movimenti[tok][i].ev = movimenti[tok][j].ev => i = j

\* Money goes back only after it came in: a refund directly follows a
\* confirmation, so two refunds are always separated by a new event.
RimborsoDopoConferma ==
  \A tok \in Token : \A i \in 1..Len(movimenti[tok]) :
    movimenti[tok][i].tipo = "rimborso"
      => i > 1 /\ movimenti[tok][i - 1].tipo = "conferma"

\* An event answered as processed (no handler of it is still at work) has
\* confirmed its payment.  README.md:13: "Webhook pagamenti idempotente con
\* deduplicazione": a retry may be ignored because the work is done.
MarcatoConfermato ==
  \A ev \in visti :
    \/ \E r \in DOMAIN volo : volo[r].ev = ev /\ volo[r].passo = "confirm"
    \/ \E i \in Conferme(TokenDi[ev]) : movimenti[TokenDi[ev]][i].ev = ev

\* A pratica that waits for its payment when the webhook confirms it reaches
\* COMPLETATA, although the four results are ignored and other handlers
\* change the pratica in between.
PagataSiCompleta ==
  \A r \in Richieste, id \in PraticaId :
    (/\ Attende(r, "cambia") /\ volo[r].id = id /\ volo[r].resto = Scala
     /\ Esiste(id) /\ stati[id] = "ATTENDE_PAGAMENTO")
      ~> (Esiste(id) /\ stati[id] = "COMPLETATA")

\* Handlers about to tell an applicant "Il visto e' stato emesso".
Annuncia(r) ==
  Attende(r, "notifica") /\ volo[r].tipo = "webhook" /\ Esiste(volo[r].id)

Emesso(id) == stati[id] \in {"VISTO_EMESSO", "COMPLETATA"}

\* When the pratica waited for its payment, or was already past it, when the
\* payment was confirmed, the mail that says the visa was issued is true,
\* although the webhook ignores what its four changes answered and other
\* handlers move the pratica between them.
AvvisoVeritiero ==
  \A r \in Richieste :
    (Annuncia(r) /\ volo[r].trovata \in {"ATTENDE_PAGAMENTO"} \cup Range(Scala))
      => Emesso(volo[r].id)

\* The mail as it is written (server.go:2768, "Il visto e' stato emesso.").
AvvisoVero == \A r \in Richieste : Annuncia(r) => Emesso(volo[r].id)

\* Deposits and refunds, as the ledger of the payments promises them: the
\* state of each payment, and the events that confirmed theirs.
Conti == [t \in DOMAIN pagamenti |-> pagamenti[t].stato]

Incassati ==
  {ev \in Eventi : \E i \in Conferme(TokenDi[ev]) : movimenti[TokenDi[ev]][i].ev = ev}

Libro == INSTANCE Registro WITH conto <- Conti, incassati <- Incassati

\* The handlers implement the ledger: an event is one deposit on the payment
\* it names, in one step, however it is delivered; money is given back once
\* for a deposit.
ImplementaRegistro == Libro!Spec

=============================================================================
