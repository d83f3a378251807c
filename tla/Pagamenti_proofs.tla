----------------------------- MODULE Pagamenti_proofs -----------------------------
(***************************************************************************)
(* For any number of pratiche, payments, events and handlers in flight,    *)
(* over both stores, with and without failures: an event confirms its      *)
(* payment at most once, a refund directly follows a confirmation, and the *)
(* handlers implement the ledger.  When calls do not fail, an event that   *)
(* is ignored as a duplicate has confirmed, or is about to; and over       *)
(* MemoryStore the mail about the visa is true of a pratica that waited    *)
(* for its payment.                                                        *)
(***************************************************************************)
EXTENDS Pagamenti, PraticaDoc_proofs

-----------------------------------------------------------------------------
(* The inductive invariant.                                                *)

\* What a handler holds at each of its steps.
LavoroBuono(l) ==
  /\ l \in InVolo
  /\ l.passo \in {"insert", "enrich", "cambia", "replace"} => l.id \in PraticaId
  /\ l.passo \in {"cambia", "replace"} => l.resto # << >>
  /\ l.passo = "replace" => l.scrive \in StatoPratica
  /\ l.passo \in {"mark", "confirm"} => l.ev \in Eventi /\ l.tok = TokenDi[l.ev]

VoloBuono ==
  /\ DOMAIN volo \subseteq Richieste
  /\ volo \in [DOMAIN volo -> InVolo]
  /\ \A r \in DOMAIN volo : LavoroBuono(volo[r])

\* The handlers that are going to confirm a payment.
Confermano(v) == {r \in DOMAIN v : v[r].passo = "confirm"}

\* The event has confirmed the payment.
Confermato(tok, ev) == \E i \in Conferme(tok) : movimenti[tok][i].ev = ev

\* An event is given to one handler, which confirms it once: the event is in
\* the collection before, and no confirmation of it is in the ledger.
UnoSolo ==
  \A r \in Confermano(volo) :
    /\ volo[r].tok \in DOMAIN pagamenti
    /\ volo[r].ev \in visti
    /\ ~Confermato(volo[r].tok, volo[r].ev)
    /\ \A s \in Confermano(volo) : volo[s].ev = volo[r].ev => s = r

\* The payments of the handlers that are going to mark an event exist.
Esistono ==
  \A r \in DOMAIN volo : volo[r].passo = "mark" => volo[r].tok \in DOMAIN pagamenti

\* Confirmations come from events of the collection, about that payment.
ConfermeViste ==
  \A tok \in Token : \A i \in Conferme(tok) :
    movimenti[tok][i].ev \in visti /\ tok = TokenDi[movimenti[tok][i].ev]

\* A payment is COMPLETATO only right after a confirmation.
PagatiConfermati ==
  \A tok \in DOMAIN pagamenti : pagamenti[tok].stato = "COMPLETATO" =>
    /\ Len(movimenti[tok]) > 0
    /\ movimenti[tok][Len(movimenti[tok])].tipo = "conferma"

Inv ==
  /\ TypeOK
  /\ VoloBuono
  /\ UnoSolo
  /\ Esistono
  /\ ConfermeViste
  /\ PagatiConfermati
  /\ ConfermaUnica
  /\ RimborsoDopoConferma

-----------------------------------------------------------------------------
(* What the actions do to a map, to the handlers and to the ledger.        *)

LEMMA SegueFa ==
  ASSUME VoloBuono, NEW r \in Richieste, NEW l, LavoroBuono(l), Segue(r, l)
  PROVE  /\ VoloBuono'
         /\ DOMAIN volo' = DOMAIN volo \cup {r}
         /\ volo'[r] = l
         /\ \A s \in DOMAIN volo : s # r => volo'[s] = volo[s]
<1>1. /\ DOMAIN volo' = DOMAIN volo \cup {r}
      /\ volo'[r] = l
      /\ \A s \in DOMAIN volo : s # r => volo'[s] = volo[s]
  BY DEF Segue, Con
<1>2. volo' \in [DOMAIN volo' -> InVolo]
  <2>1. l \in InVolo
    BY DEF LavoroBuono
  <2> QED BY <2>1, MappaConTipo DEF Segue, VoloBuono
<1>3. \A s \in DOMAIN volo' : LavoroBuono(volo'[s])
  BY <1>1 DEF VoloBuono
<1>4. DOMAIN volo' \subseteq Richieste
  BY <1>1 DEF VoloBuono
<1>5. VoloBuono'
  BY <1>2, <1>3, <1>4 DEF VoloBuono, LavoroBuono
<1> QED BY <1>1, <1>5

LEMMA FinisciFa ==
  ASSUME VoloBuono, NEW r \in Richieste, Finisci(r)
  PROVE  /\ VoloBuono'
         /\ DOMAIN volo' = DOMAIN volo \ {r}
         /\ \A s \in DOMAIN volo : s # r => volo'[s] = volo[s]
<1>1. /\ DOMAIN volo' = DOMAIN volo \ {r}
      /\ \A s \in DOMAIN volo : s # r => volo'[s] = volo[s]
  BY MappaSenza DEF Finisci
<1>2. volo' \in [DOMAIN volo' -> InVolo]
  BY MappaSenzaTipo DEF Finisci, VoloBuono
<1>3. \A s \in DOMAIN volo' : LavoroBuono(volo'[s])
  BY <1>1 DEF VoloBuono
<1>4. DOMAIN volo' \subseteq Richieste
  BY <1>1 DEF VoloBuono
<1>5. VoloBuono'
  BY <1>2, <1>3, <1>4 DEF VoloBuono, LavoroBuono
<1> QED BY <1>1, <1>5

\* After a change of state the handler ends, or it goes on to one that is
\* neither the mark nor the confirmation.
LEMMA ProssimoFa ==
  ASSUME VoloBuono, NEW r \in DOMAIN volo, volo[r].passo \in {"cambia", "replace"},
         ProssimoCambio(r)
  PROVE  /\ VoloBuono'
         /\ DOMAIN volo' \subseteq DOMAIN volo
         /\ r \in DOMAIN volo' => volo'[r].passo \in {"cambia", "notifica"}
         /\ \A s \in DOMAIN volo' : s # r => volo'[s] = volo[s]
<1> DEFINE altri == Tail(volo[r].resto)
           l == [volo[r] EXCEPT !.passo = IF altri = << >> THEN "notifica" ELSE "cambia",
                                !.resto = altri, !.scrive = Vuoto]
<1>1. r \in Richieste /\ LavoroBuono(volo[r])
  BY DEF VoloBuono
<1>2. CASE volo[r].tipo = "altro" /\ altri = << >>
  <2>1. Finisci(r)
    BY <1>2 DEF ProssimoCambio
  <2> QED BY <1>1, <2>1, FinisciFa
<1>3. CASE ~(volo[r].tipo = "altro" /\ altri = << >>)
  <2>1. Segue(r, l)
    BY <1>3 DEF ProssimoCambio
  <2>2. altri \in Seq(StatoPratica)
    BY <1>1 DEF LavoroBuono, InVolo
  <2>3. LavoroBuono(l) /\ l.passo \in {"cambia", "notifica"}
    BY <1>1, <2>2 DEF LavoroBuono, InVolo
  <2> QED BY <1>1, <2>1, <2>3, SegueFa
<1> QED BY <1>2, <1>3

LEMMA RegistraFa ==
  ASSUME movimenti \in [Token -> Seq(Movimento)], NEW tok \in Token,
         NEW tipo \in {"conferma", "rimborso"}, NEW ev \in Eventi \cup {Vuoto},
         Registra(tok, tipo, ev)
  PROVE  /\ movimenti' \in [Token -> Seq(Movimento)]
         /\ \A t \in Token : t # tok => movimenti'[t] = movimenti[t]
         /\ Len(movimenti[tok]) \in Nat
         /\ Len(movimenti'[tok]) = Len(movimenti[tok]) + 1
         /\ \A i \in 1..Len(movimenti[tok]) : movimenti'[tok][i] = movimenti[tok][i]
         /\ movimenti'[tok][Len(movimenti[tok]) + 1] = [tipo |-> tipo, ev |-> ev]
<1> DEFINE m == [tipo |-> tipo, ev |-> ev]
<1>1. m \in Movimento /\ movimenti[tok] \in Seq(Movimento)
  BY DEF Movimento
<1>2. movimenti' = [movimenti EXCEPT ![tok] = Append(@, m)]
  BY DEF Registra
<1>3. movimenti'[tok] = Append(movimenti[tok], m)
  BY <1>2
<1>4. Append(movimenti[tok], m) \in Seq(Movimento)
  BY <1>1
<1>5. movimenti' \in [Token -> Seq(Movimento)]
  BY <1>2, <1>4
<1> QED BY <1>1, <1>2, <1>3, <1>5

-----------------------------------------------------------------------------
(* The steps that leave the payments and the ledger alone.                 *)

\* No handler starts to confirm, the collection and the ledger are as before.
LEMMA Tranquillo ==
  ASSUME Inv, VoloBuono', TypeOK', UNCHANGED <<visti, movimenti, pagamenti>>,
         Confermano(volo') \subseteq Confermano(volo),
         \A s \in Confermano(volo') : volo'[s] = volo[s],
         Esistono'
  PROVE  Inv'
<1>1. UnoSolo'
  BY DEF Inv, UnoSolo, Confermano, Confermato, Conferme
<1>2. ConfermeViste' /\ PagatiConfermati' /\ ConfermaUnica' /\ RimborsoDopoConferma'
  BY DEF Inv, ConfermeViste, PagatiConfermati, ConfermaUnica, RimborsoDopoConferma,
         Conferme
<1> QED BY <1>1, <1>2 DEF Inv

\* The same, for a handler that goes on with a step other than those two.
LEMMA TranquilloSegue ==
  ASSUME Inv, NEW r \in Richieste, NEW l, LavoroBuono(l), Segue(r, l),
         l.passo # "confirm",
         l.passo = "mark" => l.tok \in DOMAIN pagamenti,
         stati' \in [DOMAIN stati' -> StatoPratica], DOMAIN stati' \subseteq generati,
         UNCHANGED <<generati, visti, movimenti, pagamenti>>
  PROVE  Inv'
<1>1. /\ VoloBuono'
      /\ DOMAIN volo' = DOMAIN volo \cup {r}
      /\ volo'[r] = l
      /\ \A s \in DOMAIN volo : s # r => volo'[s] = volo[s]
  BY SegueFa DEF Inv
<1>2. TypeOK'
  BY <1>1 DEF Inv, TypeOK, VoloBuono
<1>3. Esistono'
  BY <1>1 DEF Inv, Esistono
<1>4. /\ Confermano(volo') \subseteq Confermano(volo)
      /\ \A s \in Confermano(volo') : volo'[s] = volo[s]
  BY <1>1 DEF Confermano
<1> QED BY <1>1, <1>2, <1>3, <1>4, Tranquillo

LEMMA TranquilloFinisce ==
  ASSUME Inv, NEW r \in Richieste, Finisci(r), UNCHANGED <<stati, generati, visti, movimenti, pagamenti>>
  PROVE  Inv'
<1>1. /\ VoloBuono'
      /\ DOMAIN volo' = DOMAIN volo \ {r}
      /\ \A s \in DOMAIN volo : s # r => volo'[s] = volo[s]
  BY FinisciFa DEF Inv
<1>2. TypeOK'
  BY <1>1 DEF Inv, TypeOK, VoloBuono
<1>3. Esistono'
  BY <1>1 DEF Inv, Esistono
<1>4. /\ Confermano(volo') \subseteq Confermano(volo)
      /\ \A s \in Confermano(volo') : volo'[s] = volo[s]
  BY <1>1 DEF Confermano
<1> QED BY <1>1, <1>2, <1>3, <1>4, Tranquillo

LEMMA TranquilloProssimo ==
  ASSUME Inv, NEW r \in DOMAIN volo, volo[r].passo \in {"cambia", "replace"},
         ProssimoCambio(r),
         stati' \in [DOMAIN stati' -> StatoPratica], DOMAIN stati' \subseteq generati,
         UNCHANGED <<generati, visti, movimenti, pagamenti>>
  PROVE  Inv'
<1>1. /\ VoloBuono'
      /\ DOMAIN volo' \subseteq DOMAIN volo
      /\ r \in DOMAIN volo' => volo'[r].passo \in {"cambia", "notifica"}
      /\ \A s \in DOMAIN volo' : s # r => volo'[s] = volo[s]
  BY ProssimoFa DEF Inv
<1>2. TypeOK'
  BY <1>1 DEF Inv, TypeOK, VoloBuono
<1>3. Esistono'
  BY <1>1 DEF Inv, Esistono
<1>4. /\ Confermano(volo') \subseteq Confermano(volo)
      /\ \A s \in Confermano(volo') : volo'[s] = volo[s]
  BY <1>1 DEF Confermano
<1> QED BY <1>1, <1>2, <1>3, <1>4, Tranquillo

-----------------------------------------------------------------------------
(* The steps that move the payments and the ledger.                        *)

\* A payment is opened: its token had none.
LEMMA ApreInv ==
  ASSUME Inv, NEW r \in Richieste, NEW tok \in Token, NEW id \in PraticaId,
         tok \notin DOMAIN pagamenti, NuovoPagamento(tok, id),
         NEW l, LavoroBuono(l), Segue(r, l), l.passo = "enrich",
         UNCHANGED <<stati, generati, visti, movimenti>>
  PROVE  Inv'
<1>1. /\ VoloBuono'
      /\ DOMAIN volo' = DOMAIN volo \cup {r}
      /\ volo'[r] = l
      /\ \A s \in DOMAIN volo : s # r => volo'[s] = volo[s]
  BY SegueFa DEF Inv
<1>2. /\ DOMAIN pagamenti' = DOMAIN pagamenti \cup {tok}
      /\ pagamenti'[tok] = [pratica |-> id, stato |-> "PENDENTE"]
      /\ \A t \in DOMAIN pagamenti : pagamenti'[t] = pagamenti[t]
      /\ pagamenti' \in [DOMAIN pagamenti' -> Pagamento]
  <2>1. [pratica |-> id, stato |-> "PENDENTE"] \in Pagamento
    BY DEF Pagamento, PagamentoStato
  <2> QED BY <2>1 DEF NuovoPagamento, Con, Inv, TypeOK
<1>3. TypeOK'
  BY <1>1, <1>2 DEF Inv, TypeOK, VoloBuono
<1>4. Esistono'
  BY <1>1, <1>2 DEF Inv, Esistono
<1>5. UnoSolo'
  <2>1. /\ Confermano(volo') \subseteq Confermano(volo)
        /\ \A s \in Confermano(volo') : volo'[s] = volo[s]
    BY <1>1 DEF Confermano
  <2>2. \A t, ev : Confermato(t, ev)' <=> Confermato(t, ev)
    BY DEF Confermato, Conferme
  <2> QED BY <1>2, <2>1, <2>2 DEF Inv, UnoSolo
<1>6. PagatiConfermati'
  BY <1>2 DEF Inv, PagatiConfermati
<1>7. ConfermeViste' /\ ConfermaUnica' /\ RimborsoDopoConferma'
  BY DEF Inv, ConfermeViste, ConfermaUnica, RimborsoDopoConferma, Conferme
<1> QED BY <1>1, <1>3, <1>4, <1>5, <1>6, <1>7 DEF Inv

\* The unique index gives the event to one handler.
LEMMA MarcaInv ==
  ASSUME Inv, NEW r \in Richieste, WebhookMark(r), volo[r].ev \notin visti
  PROVE  Inv'
<1> DEFINE ev == volo[r].ev
           l == [volo[r] EXCEPT !.passo = "confirm"]
<1>1. /\ r \in DOMAIN volo /\ volo[r].passo = "mark"
      /\ visti' = visti \cup {ev}
      /\ Segue(r, l)
      /\ UNCHANGED <<stati, generati, pagamenti, movimenti>>
  BY DEF WebhookMark, Attende
<1>2. LavoroBuono(volo[r]) /\ ev \in Eventi /\ volo[r].tok = TokenDi[ev]
  BY <1>1 DEF Inv, VoloBuono, LavoroBuono
<1>3. LavoroBuono(l) /\ l.passo = "confirm" /\ l.ev = ev /\ l.tok = TokenDi[ev]
  BY <1>2 DEF LavoroBuono, InVolo
<1>4. /\ VoloBuono'
      /\ DOMAIN volo' = DOMAIN volo
      /\ volo'[r] = l
      /\ \A s \in DOMAIN volo : s # r => volo'[s] = volo[s]
  BY <1>1, <1>3, SegueFa DEF Inv
<1>5. TypeOK'
  BY <1>1, <1>2, <1>4 DEF Inv, TypeOK, VoloBuono
<1>6. Esistono'
  BY <1>1, <1>3, <1>4 DEF Inv, Esistono
<1>7. TokenDi[ev] \in DOMAIN pagamenti
  BY <1>1, <1>2 DEF Inv, Esistono
<1>8. ~Confermato(TokenDi[ev], ev)
  <2>1. TokenDi[ev] \in Token
    BY <1>2, TokenDiAssumption
  <2> QED BY <2>1 DEF Inv, ConfermeViste, Confermato
<1>9. UnoSolo'
  <2>1. \A s : s \in Confermano(volo') <=> s \in Confermano(volo) \/ s = r
    BY <1>1, <1>3, <1>4 DEF Confermano
  <2>2. \A t, e : Confermato(t, e)' <=> Confermato(t, e)
    BY <1>1 DEF Confermato, Conferme
  <2>3. \A s \in Confermano(volo) : s # r /\ volo'[s] = volo[s] /\ volo[s].ev # ev
    <3> SUFFICES ASSUME NEW s \in Confermano(volo)
                 PROVE  s # r /\ volo'[s] = volo[s] /\ volo[s].ev # ev
      OBVIOUS
    <3>1. s \in DOMAIN volo /\ volo[s].passo = "confirm"
      BY DEF Confermano
    <3>2. s # r
      BY <1>1, <3>1
    <3>3. volo[s].ev \in visti
      BY DEF Inv, UnoSolo
    <3> QED BY <1>4, <3>1, <3>2, <3>3
  <2>4. \A s \in Confermano(volo') :
          /\ volo'[s].tok \in DOMAIN pagamenti'
          /\ volo'[s].ev \in visti'
          /\ ~Confermato(volo'[s].tok, volo'[s].ev)
    <3> SUFFICES ASSUME NEW s \in Confermano(volo')
                 PROVE  /\ volo'[s].tok \in DOMAIN pagamenti'
                        /\ volo'[s].ev \in visti'
                        /\ ~Confermato(volo'[s].tok, volo'[s].ev)
      OBVIOUS
    <3>1. CASE s = r
      BY <1>1, <1>3, <1>4, <1>7, <1>8, <3>1
    <3>2. CASE s # r
      <4>1. s \in Confermano(volo) /\ volo'[s] = volo[s]
        BY <2>1, <2>3, <3>2
      <4>2. /\ volo[s].tok \in DOMAIN pagamenti
            /\ volo[s].ev \in visti
            /\ ~Confermato(volo[s].tok, volo[s].ev)
        BY <4>1 DEF Inv, UnoSolo
      <4> QED BY <1>1, <4>1, <4>2
    <3> QED BY <3>1, <3>2
  <2>5. \A s, q \in Confermano(volo') : volo'[s].ev = volo'[q].ev => s = q
    <3> SUFFICES ASSUME NEW s \in Confermano(volo'), NEW q \in Confermano(volo'),
                        volo'[s].ev = volo'[q].ev
                 PROVE  s = q
      OBVIOUS
    <3>1. CASE s = r \/ q = r
      BY <1>3, <1>4, <2>1, <2>3, <3>1
    <3>2. CASE s # r /\ q # r
      <4>1. /\ s \in Confermano(volo) /\ volo'[s] = volo[s]
            /\ q \in Confermano(volo) /\ volo'[q] = volo[q]
        BY <2>1, <2>3, <3>2
      <4> QED BY <4>1 DEF Inv, UnoSolo
    <3> QED BY <3>1, <3>2
  <2> QED BY <2>2, <2>4, <2>5 DEF UnoSolo
<1>10. ConfermeViste' /\ PagatiConfermati' /\ ConfermaUnica' /\ RimborsoDopoConferma'
  BY <1>1 DEF Inv, ConfermeViste, PagatiConfermati, ConfermaUnica, RimborsoDopoConferma,
              Conferme
<1> QED BY <1>4, <1>5, <1>6, <1>9, <1>10 DEF Inv

\* The confirmation: the first of its event.
LEMMA ConfermaInv ==
  ASSUME Inv, NEW r \in Richieste, WebhookConfirm(r),
         NEW tok, tok = volo[r].tok, NEW ev, ev = volo[r].ev
  PROVE  Inv'
<1> DEFINE n == Len(movimenti[tok])
           l == [volo[r] EXCEPT !.passo = "cambia", !.resto = Scala,
                                !.id = pagamenti[tok].pratica,
                                !.trovata = StatoDi(pagamenti[tok].pratica)]
<1>1. /\ r \in DOMAIN volo /\ volo[r].passo = "confirm"
      /\ pagamenti' = [pagamenti EXCEPT ![tok].stato = "COMPLETATO"]
      /\ Registra(tok, "conferma", ev)
      /\ Segue(r, l)
      /\ UNCHANGED <<stati, generati, visti>>
  BY DEF WebhookConfirm, Attende
<1>2. LavoroBuono(volo[r]) /\ ev \in Eventi /\ tok = TokenDi[ev] /\ tok \in Token
  BY <1>1, TokenDiAssumption DEF Inv, VoloBuono, LavoroBuono
<1>3. /\ r \in Confermano(volo)
      /\ tok \in DOMAIN pagamenti /\ ev \in visti /\ ~Confermato(tok, ev)
      /\ \A s \in Confermano(volo) : volo[s].ev = ev => s = r
  BY <1>1 DEF Inv, UnoSolo, Confermano
<1>4. pagamenti[tok] \in Pagamento
  BY <1>3 DEF Inv, TypeOK
<1>5. LavoroBuono(l) /\ l.passo = "cambia"
  <2>1. Scala \in Seq(StatoPratica) /\ Scala # << >>
    BY DEF Scala, StatoPratica
  <2>2. StatoDi(pagamenti[tok].pratica) \in StatoPratica \cup {Vuoto}
    BY DEF StatoDi, Esiste, Inv, TypeOK
  <2> QED BY <1>2, <1>4, <2>1, <2>2 DEF LavoroBuono, InVolo, Pagamento
<1>6. /\ VoloBuono'
      /\ DOMAIN volo' = DOMAIN volo
      /\ volo'[r] = l
      /\ \A s \in DOMAIN volo : s # r => volo'[s] = volo[s]
  BY <1>1, <1>5, SegueFa DEF Inv
<1>7. /\ movimenti' \in [Token -> Seq(Movimento)]
      /\ \A t \in Token : t # tok => movimenti'[t] = movimenti[t]
      /\ n \in Nat /\ Len(movimenti'[tok]) = n + 1
      /\ \A i \in 1..n : movimenti'[tok][i] = movimenti[tok][i]
      /\ movimenti'[tok][n + 1] = [tipo |-> "conferma", ev |-> ev]
  BY <1>1, <1>2, RegistraFa DEF Inv, TypeOK
<1>8. /\ Conferme(tok)' = Conferme(tok) \cup {n + 1}
      /\ \A t \in Token : t # tok => Conferme(t)' = Conferme(t)
  <2>1. \A i : i \in Conferme(tok)' <=> i \in Conferme(tok) \/ i = n + 1
    <3> SUFFICES ASSUME NEW i
                 PROVE  i \in Conferme(tok)' <=> i \in Conferme(tok) \/ i = n + 1
      OBVIOUS
    <3>1. /\ i \in Conferme(tok)' <=> i \in 1..(n + 1) /\ movimenti'[tok][i].tipo = "conferma"
          /\ i \in Conferme(tok) <=> i \in 1..n /\ movimenti[tok][i].tipo = "conferma"
      BY <1>7 DEF Conferme
    <3>2. CASE i = n + 1
      BY <1>7, <3>1, <3>2
    <3>3. CASE i # n + 1
      <4>1. i \in 1..(n + 1) <=> i \in 1..n
        BY <1>7, <3>3
      <4> QED BY <1>7, <3>1, <3>3, <4>1
    <3> QED BY <3>2, <3>3
  <2>2. \A t \in Token : t # tok => Conferme(t)' = Conferme(t)
    BY <1>7 DEF Conferme
  <2> QED BY <2>1, <2>2
<1>9. TypeOK'
  <2>1. pagamenti' \in [DOMAIN pagamenti' -> Pagamento] /\ DOMAIN pagamenti' = DOMAIN pagamenti
    BY <1>1, <1>3, <1>4 DEF Inv, TypeOK, Pagamento, PagamentoStato
  <2> QED BY <1>1, <1>6, <1>7, <2>1 DEF Inv, TypeOK, VoloBuono
<1>10. Esistono'
  BY <1>1, <1>5, <1>6 DEF Inv, Esistono
<1>11. UnoSolo'
  <2>1. /\ Confermano(volo') = Confermano(volo) \ {r}
        /\ \A s \in Confermano(volo') : volo'[s] = volo[s] /\ volo[s].ev # ev
    <3>1. r \notin Confermano(volo')
      BY <1>5, <1>6 DEF Confermano
    <3>2. \A s : s # r => /\ s \in Confermano(volo') <=> s \in Confermano(volo)
                          /\ s \in Confermano(volo) => volo'[s] = volo[s]
      BY <1>6 DEF Confermano
    <3> QED BY <1>3, <3>1, <3>2
  <2>2. \A t \in Token, e \in Eventi : e # ev /\ ~Confermato(t, e) => ~Confermato(t, e)'
    <3> SUFFICES ASSUME NEW t \in Token, NEW e \in Eventi, e # ev, Confermato(t, e)'
                 PROVE  Confermato(t, e)
      OBVIOUS
    <3>1. PICK i \in Conferme(t)' : movimenti'[t][i].ev = e
      BY DEF Confermato
    <3>2. CASE t # tok
      BY <1>7, <1>8, <3>1, <3>2 DEF Confermato
    <3>3. CASE t = tok
      <4>1. i # n + 1
        BY <1>7, <3>1, <3>3
      <4>2. i \in Conferme(tok) /\ movimenti'[tok][i] = movimenti[tok][i]
        BY <1>7, <1>8, <3>1, <3>3, <4>1 DEF Conferme
      <4> QED BY <3>1, <3>3, <4>2 DEF Confermato
    <3> QED BY <3>2, <3>3
  <2>3. \A s \in Confermano(volo') :
          /\ volo[s].tok \in Token /\ volo[s].ev \in Eventi
          /\ volo[s].tok \in DOMAIN pagamenti'
          /\ volo[s].ev \in visti'
          /\ ~Confermato(volo[s].tok, volo[s].ev)
    <3> SUFFICES ASSUME NEW s \in Confermano(volo)
                 PROVE  /\ volo[s].tok \in Token /\ volo[s].ev \in Eventi
                        /\ volo[s].tok \in DOMAIN pagamenti'
                        /\ volo[s].ev \in visti'
                        /\ ~Confermato(volo[s].tok, volo[s].ev)
      BY <2>1
    <3>1. volo[s].tok \in Token /\ volo[s].ev \in Eventi
      BY TokenDiAssumption DEF Inv, VoloBuono, LavoroBuono, Confermano
    <3>2. volo[s].tok \in DOMAIN pagamenti' /\ volo[s].ev \in visti'
      BY <1>1 DEF Inv, UnoSolo
    <3>3. ~Confermato(volo[s].tok, volo[s].ev)
      BY DEF Inv, UnoSolo
    <3> QED BY <3>1, <3>2, <3>3
  <2>4. \A s, q \in Confermano(volo') : volo'[s].ev = volo'[q].ev => s = q
    BY <2>1 DEF Inv, UnoSolo
  <2> QED BY <2>1, <2>2, <2>3, <2>4 DEF UnoSolo
<1>12. ConfermeViste'
  <2> SUFFICES ASSUME NEW t \in Token, NEW i \in Conferme(t)'
               PROVE  movimenti'[t][i].ev \in visti' /\ t = TokenDi[movimenti'[t][i].ev]
    BY DEF ConfermeViste
  <2>1. CASE t = tok /\ i = n + 1
    BY <1>1, <1>2, <1>3, <1>7, <2>1
  <2>2. CASE ~(t = tok /\ i = n + 1)
    <3>1. i \in Conferme(t) /\ movimenti'[t][i] = movimenti[t][i]
      BY <1>7, <1>8, <2>2 DEF Conferme
    <3> QED BY <1>1, <3>1 DEF Inv, ConfermeViste
  <2> QED BY <2>1, <2>2
<1>13. PagatiConfermati'
  BY <1>1, <1>2, <1>3, <1>7 DEF Inv, TypeOK, PagatiConfermati
<1>14. ConfermaUnica'
  <2> SUFFICES ASSUME NEW t \in Token, NEW i \in Conferme(t)', NEW j \in Conferme(t)',
                      movimenti'[t][i].ev = movimenti'[t][j].ev
               PROVE  i = j
    BY DEF ConfermaUnica
  <2>1. CASE t # tok
    BY <1>7, <1>8, <2>1 DEF Inv, ConfermaUnica
  <2>2. CASE t = tok
    <3>1. \A k \in Conferme(tok) : k \in 1..n /\ movimenti'[tok][k] = movimenti[tok][k]
      BY <1>7 DEF Conferme
    <3>2. \A k \in Conferme(tok) : movimenti'[tok][k].ev # ev
      BY <1>3, <3>1 DEF Confermato
    <3>3. /\ i \in Conferme(tok) \/ i = n + 1
          /\ j \in Conferme(tok) \/ j = n + 1
      BY <1>8, <2>2
    <3>4. movimenti'[tok][n + 1].ev = ev
      BY <1>7
    <3>5. CASE i = n + 1 \/ j = n + 1
      BY <2>2, <3>2, <3>3, <3>4, <3>5
    <3>6. CASE i \in Conferme(tok) /\ j \in Conferme(tok)
      <4>1. movimenti[tok][i].ev = movimenti[tok][j].ev
        BY <2>2, <3>1, <3>6
      <4> QED BY <1>2, <3>6, <4>1 DEF Inv, ConfermaUnica
    <3> QED BY <3>3, <3>5, <3>6
  <2> QED BY <2>1, <2>2
<1>15. RimborsoDopoConferma'
  <2> SUFFICES ASSUME NEW t \in Token, NEW i \in 1..Len(movimenti'[t]),
                      movimenti'[t][i].tipo = "rimborso"
               PROVE  i > 1 /\ movimenti'[t][i - 1].tipo = "conferma"
    BY DEF RimborsoDopoConferma
  <2>1. CASE t # tok
    BY <1>7, <2>1 DEF Inv, RimborsoDopoConferma
  <2>2. CASE t = tok
    <3>1. i \in 1..n /\ movimenti[tok][i].tipo = "rimborso"
      <4>1. i \in 1..(n + 1) /\ movimenti'[tok][i].tipo = "rimborso"
        BY <1>7, <2>2
      <4>2. i # n + 1
        <5> SUFFICES ASSUME i = n + 1
                     PROVE  FALSE
          OBVIOUS
        <5>1. movimenti'[tok][i].tipo = "conferma"
          BY <1>7
        <5> QED BY <4>1, <5>1
      <4>3. i \in 1..n
        BY <1>7, <4>1, <4>2
      <4> QED BY <1>7, <4>1, <4>3
    <3>2. i > 1 /\ movimenti[tok][i - 1].tipo = "conferma"
      BY <1>2, <3>1 DEF Inv, RimborsoDopoConferma
    <3>3. i - 1 \in 1..n
      BY <1>7, <3>1, <3>2
    <3> QED BY <1>7, <2>2, <3>2, <3>3
  <2> QED BY <2>1, <2>2
<1> QED BY <1>6, <1>9, <1>10, <1>11, <1>12, <1>13, <1>14, <1>15 DEF Inv

\* A refund is no confirmation.
LEMMA RimborsoFa ==
  ASSUME movimenti \in [Token -> Seq(Movimento)], NEW tok \in Token,
         Registra(tok, "rimborso", Vuoto)
  PROVE  /\ \A t \in Token : Conferme(t)' = Conferme(t)
         /\ \A t \in Token : \A i \in Conferme(t) : movimenti'[t][i] = movimenti[t][i]
<1> DEFINE n == Len(movimenti[tok])
<1>1. /\ \A t \in Token : t # tok => movimenti'[t] = movimenti[t]
      /\ n \in Nat /\ Len(movimenti'[tok]) = n + 1
      /\ \A i \in 1..n : movimenti'[tok][i] = movimenti[tok][i]
      /\ movimenti'[tok][n + 1] = [tipo |-> "rimborso", ev |-> Vuoto]
  BY RegistraFa
<1>2. \A t \in Token : Conferme(t)' = Conferme(t)
  BY <1>1 DEF Conferme
<1>3. \A t \in Token : \A i \in Conferme(t) : movimenti'[t][i] = movimenti[t][i]
  BY <1>1 DEF Conferme
<1> QED BY <1>2, <1>3

\* After a confirmation its event has confirmed, and the others as before.
LEMMA ConfermeDopo ==
  ASSUME Inv, NEW tok \in Token, NEW ev \in Eventi, tok = TokenDi[ev],
         Registra(tok, "conferma", ev),
         NEW e \in Eventi
  PROVE  Confermato(TokenDi[e], e)' <=> Confermato(TokenDi[e], e) \/ e = ev
<1> DEFINE n == Len(movimenti[tok])
<1>1. /\ \A t \in Token : t # tok => movimenti'[t] = movimenti[t]
      /\ n \in Nat /\ Len(movimenti'[tok]) = n + 1
      /\ \A i \in 1..n : movimenti'[tok][i] = movimenti[tok][i]
      /\ movimenti'[tok][n + 1] = [tipo |-> "conferma", ev |-> ev]
  BY RegistraFa DEF Inv, TypeOK
<1>2. PICK t \in Token : t = TokenDi[e]
  BY TokenDiAssumption
<1>3. CASE t # tok
  <2>1. e # ev
    BY <1>2, <1>3
  <2>2. Conferme(t)' = Conferme(t) /\ movimenti'[t] = movimenti[t]
    BY <1>1, <1>3 DEF Conferme
  <2> QED BY <1>2, <2>1, <2>2 DEF Confermato
<1>4. CASE t = tok
  <2>1. n + 1 \in Conferme(tok)'
    BY <1>1 DEF Conferme
  <2>2. \A i \in Conferme(tok) : i \in Conferme(tok)' /\ movimenti'[tok][i] = movimenti[tok][i]
    BY <1>1 DEF Conferme
  <2>3. \A i \in Conferme(tok)' : i # n + 1 => /\ i \in Conferme(tok)
                                             /\ movimenti'[tok][i] = movimenti[tok][i]
    BY <1>1 DEF Conferme
  <2>4. Confermato(tok, e)' <=> Confermato(tok, e) \/ e = ev
    BY <1>1, <2>1, <2>2, <2>3 DEF Confermato
  <2> QED BY <1>2, <1>4, <2>4
<1> QED BY <1>3, <1>4

\* The refund: the payment was COMPLETATO, and the last movement confirms it.
LEMMA RimborsaInv ==
  ASSUME Inv, NEW tok \in Token, RefundPaymentByToken(tok)
  PROVE  Inv'
<1> DEFINE n == Len(movimenti[tok])
<1>1. /\ tok \in DOMAIN pagamenti /\ pagamenti[tok].stato = "COMPLETATO"
      /\ pagamenti' = [pagamenti EXCEPT ![tok].stato = "RIMBORSATO"]
      /\ Registra(tok, "rimborso", Vuoto)
      /\ UNCHANGED <<stati, generati, visti, volo>>
  BY DEF RefundPaymentByToken
<1>2. /\ movimenti' \in [Token -> Seq(Movimento)]
      /\ \A t \in Token : t # tok => movimenti'[t] = movimenti[t]
      /\ n \in Nat /\ Len(movimenti'[tok]) = n + 1
      /\ \A i \in 1..n : movimenti'[tok][i] = movimenti[tok][i]
      /\ movimenti'[tok][n + 1] = [tipo |-> "rimborso", ev |-> Vuoto]
  BY <1>1, RegistraFa DEF Inv, TypeOK
<1>3. \A t \in Token : Conferme(t)' = Conferme(t)
  BY <1>1, RimborsoFa DEF Inv, TypeOK
<1>4. \A t \in Token : \A i \in Conferme(t) : movimenti'[t][i] = movimenti[t][i]
  BY <1>1, RimborsoFa DEF Inv, TypeOK
<1>5. n > 0 /\ movimenti[tok][n].tipo = "conferma"
  BY <1>1 DEF Inv, PagatiConfermati
<1>6. TypeOK' /\ VoloBuono' /\ Esistono'
  <2>1. pagamenti' \in [DOMAIN pagamenti' -> Pagamento] /\ DOMAIN pagamenti' = DOMAIN pagamenti
    BY <1>1 DEF Inv, TypeOK, Pagamento, PagamentoStato
  <2>2. VoloBuono'
    BY <1>1 DEF Inv, VoloBuono, LavoroBuono
  <2> QED BY <1>1, <1>2, <2>1, <2>2 DEF Inv, TypeOK, Esistono
<1>7. UnoSolo'
  <2>1. \A s \in Confermano(volo) : volo[s].tok \in Token
    BY TokenDiAssumption DEF Inv, VoloBuono, LavoroBuono, Confermano
  <2>2. \A s \in Confermano(volo) :
          Confermato(volo[s].tok, volo[s].ev)' => Confermato(volo[s].tok, volo[s].ev)
    BY <1>1, <1>3, <1>4, <2>1 DEF Confermato
  <2> QED BY <1>1, <2>2 DEF Inv, UnoSolo, Confermano
<1>8. ConfermeViste' /\ ConfermaUnica'
  BY <1>1, <1>3, <1>4 DEF Inv, ConfermeViste, ConfermaUnica
<1>9. PagatiConfermati'
  <2>1. pagamenti'[tok].stato = "RIMBORSATO"
    <3>1. pagamenti[tok] \in Pagamento
      BY <1>1 DEF Inv, TypeOK
    <3> QED BY <1>1, <3>1 DEF Pagamento
  <2> QED BY <1>1, <1>2, <2>1 DEF Inv, TypeOK, PagatiConfermati
<1>10. RimborsoDopoConferma'
  <2> SUFFICES ASSUME NEW t \in Token, NEW i \in 1..Len(movimenti'[t]),
                      movimenti'[t][i].tipo = "rimborso"
               PROVE  i > 1 /\ movimenti'[t][i - 1].tipo = "conferma"
    BY DEF RimborsoDopoConferma
  <2>1. CASE t # tok
    BY <1>2, <2>1 DEF Inv, RimborsoDopoConferma
  <2>2. CASE t = tok /\ i = n + 1
    <3>1. i - 1 = n /\ n \in 1..n /\ i > 1
      BY <1>2, <1>5, <2>2
    <3> QED BY <1>2, <1>5, <2>2, <3>1
  <2>3. CASE t = tok /\ i # n + 1
    <3>1. i \in 1..n /\ movimenti[tok][i].tipo = "rimborso"
      BY <1>2, <2>3
    <3>2. i > 1 /\ movimenti[tok][i - 1].tipo = "conferma"
      BY <3>1 DEF Inv, RimborsoDopoConferma
    <3>3. i - 1 \in 1..n
      BY <1>2, <3>1, <3>2
    <3> QED BY <1>2, <2>3, <3>2, <3>3
  <2> QED BY <2>1, <2>2, <2>3
<1> QED BY <1>6, <1>7, <1>8, <1>9, <1>10 DEF Inv

-----------------------------------------------------------------------------
(* The handlers, step by step.                                             *)

\* What a new handler holds.
LEMMA LavoroFa ==
  ASSUME NEW tipo \in {"webhook", "link", "altro"},
         NEW passo \in {"insert", "enrich", "mark", "cambia", "replace"},
         NEW id \in PraticaId \cup {Vuoto}
  PROVE  /\ Lavoro(tipo, passo, id) \in InVolo
         /\ Lavoro(tipo, passo, id).passo = passo
         /\ Lavoro(tipo, passo, id).id = id
<1>1. << >> \in Seq(StatoPratica)
  OBVIOUS
<1> QED BY <1>1 DEF Lavoro, InVolo

LEMMA CominciaInv ==
  ASSUME Inv, NEW r \in Richieste, Comincia(r)
  PROVE  Inv'
<1> USE DEF Attende, Libera, Esiste
<1>0. stati \in [DOMAIN stati -> StatoPratica] /\ DOMAIN stati \subseteq generati
  BY DEF Inv, TypeOK
<1>1. ASSUME NEW ev \in Eventi, WebhookGet(r, ev)
      PROVE  Inv'
  <2> DEFINE l == [Lavoro("webhook", "mark", Vuoto) EXCEPT !.ev = ev, !.tok = TokenDi[ev]]
  <2>1. LavoroBuono(l) /\ l.passo = "mark" /\ l.tok \in DOMAIN pagamenti
    <3>1. TokenDi[ev] \in Token /\ TokenDi[ev] \in DOMAIN pagamenti
      BY <1>1, TokenDiAssumption DEF WebhookGet
    <3>2. Lavoro("webhook", "mark", Vuoto) \in InVolo
          /\ Lavoro("webhook", "mark", Vuoto).passo = "mark"
      BY LavoroFa
    <3>3. l \in InVolo /\ l.passo = "mark" /\ l.ev = ev /\ l.tok = TokenDi[ev]
      BY <3>1, <3>2 DEF InVolo
    <3> QED BY <3>1, <3>3 DEF LavoroBuono
  <2>2. Segue(r, l) /\ UNCHANGED <<stati, generati, visti, movimenti, pagamenti>>
    BY <1>1 DEF WebhookGet
  <2> QED BY <1>0, <2>1, <2>2, TranquilloSegue
<1>2. ASSUME NEW id \in PraticaId, NEW next \in StatoPratica, AltroCambio(r, id, next)
      PROVE  Inv'
  <2> DEFINE s == <<next>>
             l == [Lavoro("altro", "cambia", id) EXCEPT !.resto = s]
  <2>1. LavoroBuono(l) /\ l.passo = "cambia"
    <3>1. s \in Seq(StatoPratica) /\ s # << >>
      OBVIOUS
    <3>2. Lavoro("altro", "cambia", id) \in InVolo
          /\ Lavoro("altro", "cambia", id).passo = "cambia"
          /\ Lavoro("altro", "cambia", id).id = id
      BY LavoroFa
    <3> HIDE DEF s
    <3> QED BY <3>1, <3>2 DEF LavoroBuono, InVolo
  <2>2. Segue(r, l) /\ UNCHANGED <<stati, generati, visti, movimenti, pagamenti>>
    BY <1>2 DEF AltroCambio
  <2> QED BY <1>0, <2>1, <2>2, TranquilloSegue
<1>3. ASSUME NEW id \in PraticaId, AltraScrittura(r, id)
      PROVE  Inv'
  <2> DEFINE s == <<stati[id]>>
             l == [Lavoro("altro", "replace", id) EXCEPT !.resto = s, !.scrive = stati[id]]
  <2>1. stati[id] \in StatoPratica
    BY <1>0, <1>3 DEF AltraScrittura
  <2>2. LavoroBuono(l) /\ l.passo = "replace"
    <3>1. s \in Seq(StatoPratica) /\ s # << >>
      BY <2>1
    <3>2. Lavoro("altro", "replace", id) \in InVolo
          /\ Lavoro("altro", "replace", id).passo = "replace"
          /\ Lavoro("altro", "replace", id).id = id
      BY LavoroFa
    <3> HIDE DEF s
    <3> QED BY <2>1, <3>1, <3>2 DEF LavoroBuono, InVolo
  <2>3. Segue(r, l) /\ UNCHANGED <<stati, generati, visti, movimenti, pagamenti>>
    BY <1>3 DEF AltraScrittura
  <2> QED BY <1>0, <2>2, <2>3, TranquilloSegue
<1>4. ASSUME NEW id \in PraticaId, NEW tok \in Token, LinkMemory(r, id, tok)
      PROVE  Inv'
  <2> DEFINE l == [Lavoro("link", "enrich", id) EXCEPT !.tok = tok]
  <2>1. LavoroBuono(l) /\ l.passo = "enrich"
    <3>1. Lavoro("link", "enrich", id) \in InVolo
          /\ Lavoro("link", "enrich", id).passo = "enrich"
          /\ Lavoro("link", "enrich", id).id = id
      BY LavoroFa
    <3> QED BY <3>1 DEF LavoroBuono, InVolo
  <2>2. /\ Segue(r, l) /\ tok \notin DOMAIN pagamenti /\ NuovoPagamento(tok, id)
        /\ UNCHANGED <<stati, generati, visti, movimenti>>
    BY <1>4 DEF LinkMemory
  <2> QED BY <2>1, <2>2, ApreInv
<1>5. ASSUME NEW id \in PraticaId, LinkGet(r, id)
      PROVE  Inv'
  <2> DEFINE l == Lavoro("link", "insert", id)
  <2>1. LavoroBuono(l) /\ l.passo = "insert"
    BY LavoroFa DEF LavoroBuono
  <2>2. Segue(r, l) /\ UNCHANGED <<stati, generati, visti, movimenti, pagamenti>>
    BY <1>5 DEF LinkGet
  <2> QED BY <1>0, <2>1, <2>2, TranquilloSegue
<1> QED BY <1>1, <1>2, <1>3, <1>4, <1>5 DEF Comincia

LEMMA ProsegueInv ==
  ASSUME Inv, NEW r \in Richieste, Prosegue(r)
  PROVE  Inv'
<1> USE DEF Attende, Esiste
<1>0. stati \in [DOMAIN stati -> StatoPratica] /\ DOMAIN stati \subseteq generati
  BY DEF Inv, TypeOK
<1>00. r \in DOMAIN volo /\ LavoroBuono(volo[r])
  BY DEF Inv, VoloBuono, Prosegue, CambiaMemory, CambiaFind, ReplaceOne, LinkInsert,
         EnrichRiesce, EnrichFallisce, WebhookMark, WebhookConfirm, Notifica
<1>1. CASE CambiaMemory(r)
  <2> DEFINE h == Head(volo[r].resto)
  <2>1. /\ volo[r].passo = "cambia" /\ ProssimoCambio(r)
        /\ stati' = IF Ammesso(r) THEN [stati EXCEPT ![volo[r].id] = h] ELSE stati
        /\ UNCHANGED <<generati, visti, movimenti, pagamenti>>
    BY <1>1 DEF CambiaMemory
  <2>2. h \in StatoPratica
    BY <1>00, <2>1 DEF LavoroBuono, InVolo
  <2>3. stati' \in [DOMAIN stati' -> StatoPratica] /\ DOMAIN stati' \subseteq generati
    BY <1>0, <2>1, <2>2
  <2> QED BY <1>00, <2>1, <2>3, TranquilloProssimo
<1>2. CASE CambiaFind(r)
  <2> DEFINE h == Head(volo[r].resto)
             l == [volo[r] EXCEPT !.passo = "replace", !.scrive = h]
  <2>1. /\ volo[r].passo = "cambia"
        /\ Segue(r, l) \/ ProssimoCambio(r)
        /\ UNCHANGED <<stati, generati, visti, movimenti, pagamenti>>
    BY <1>2 DEF CambiaFind
  <2>2. h \in StatoPratica
    BY <1>00, <2>1 DEF LavoroBuono, InVolo
  <2>3. LavoroBuono(l) /\ l.passo = "replace"
    BY <1>00, <2>1, <2>2 DEF LavoroBuono, InVolo
  <2>4. CASE Segue(r, l)
    BY <1>0, <2>1, <2>3, <2>4, TranquilloSegue
  <2>5. CASE ProssimoCambio(r)
    BY <1>0, <1>00, <2>1, <2>5, TranquilloProssimo
  <2> QED BY <2>1, <2>4, <2>5
<1>3. CASE ReplaceOne(r)
  <2>1. /\ volo[r].passo = "replace" /\ ProssimoCambio(r)
        /\ stati' = IF volo[r].id \in DOMAIN stati
                    THEN [stati EXCEPT ![volo[r].id] = volo[r].scrive] ELSE stati
        /\ UNCHANGED <<generati, visti, movimenti, pagamenti>>
    BY <1>3 DEF ReplaceOne
  <2>2. volo[r].scrive \in StatoPratica
    BY <1>00, <2>1 DEF LavoroBuono
  <2>3. stati' \in [DOMAIN stati' -> StatoPratica] /\ DOMAIN stati' \subseteq generati
    BY <1>0, <2>1, <2>2
  <2> QED BY <1>00, <2>1, <2>3, TranquilloProssimo
<1>4. ASSUME NEW tok \in Token, LinkInsert(r, tok)
      PROVE  Inv'
  <2> DEFINE l == [volo[r] EXCEPT !.passo = "enrich", !.tok = tok]
  <2>1. /\ volo[r].passo = "insert" /\ tok \notin DOMAIN pagamenti
        /\ NuovoPagamento(tok, volo[r].id) /\ Segue(r, l)
        /\ UNCHANGED <<stati, generati, visti, movimenti>>
    BY <1>4 DEF LinkInsert
  <2>2. LavoroBuono(l) /\ l.passo = "enrich" /\ volo[r].id \in PraticaId
    BY <1>00, <2>1 DEF LavoroBuono, InVolo
  <2> QED BY <2>1, <2>2, ApreInv
<1>5. CASE EnrichRiesce(r)
  <2> DEFINE s == <<"ATTENDE_PAGAMENTO">>
             l == [volo[r] EXCEPT !.passo = "cambia", !.resto = s]
  <2>1. /\ volo[r].passo = "enrich" /\ Segue(r, l)
        /\ UNCHANGED <<stati, generati, visti, movimenti, pagamenti>>
    BY <1>5 DEF EnrichRiesce
  <2>2. "ATTENDE_PAGAMENTO" \in StatoPratica
    BY DEF StatoPratica
  <2>3. LavoroBuono(l) /\ l.passo = "cambia"
    <3>1. s \in Seq(StatoPratica) /\ s # << >>
      BY <2>2
    <3> HIDE DEF s
    <3> QED BY <1>00, <2>1, <3>1 DEF LavoroBuono, InVolo
  <2> QED BY <1>0, <2>1, <2>3, TranquilloSegue
<1>6. CASE EnrichFallisce(r)
  BY <1>6, TranquilloFinisce DEF EnrichFallisce
<1>7. CASE WebhookMark(r)
  <2>1. CASE volo[r].ev \in visti
    <3>1. Finisci(r) /\ UNCHANGED <<stati, generati, visti, movimenti, pagamenti>>
      BY <1>7, <2>1 DEF WebhookMark
    <3> QED BY <3>1, TranquilloFinisce
  <2>2. CASE volo[r].ev \notin visti
    BY <1>7, <2>2, MarcaInv
  <2> QED BY <2>1, <2>2
<1>8. CASE WebhookConfirm(r)
  <2> DEFINE t == volo[r].tok
             e == volo[r].ev
  <2>1. t = volo[r].tok /\ e = volo[r].ev
    OBVIOUS
  <2> HIDE DEF t, e
  <2> QED BY <1>8, <2>1, ConfermaInv
<1>9. CASE Notifica(r)
  BY <1>9, TranquilloFinisce DEF Notifica
<1> QED BY <1>1, <1>2, <1>3, <1>4, <1>5, <1>6, <1>7, <1>8, <1>9 DEF Prosegue

-----------------------------------------------------------------------------
(* The invariant is inductive.                                             *)

LEMMA InvInit == Init => Inv
<1> SUFFICES ASSUME Init
             PROVE  Inv
  OBVIOUS
<1>1. TypeOK
  BY DEF Init, TypeOK
<1>2. VoloBuono /\ Esistono /\ PagatiConfermati /\ UnoSolo
  BY DEF Init, VoloBuono, Esistono, PagatiConfermati, UnoSolo, Confermano
<1>3. \A t \in Token : Len(movimenti[t]) = 0
  BY DEF Init
<1>4. ConfermeViste /\ ConfermaUnica /\ RimborsoDopoConferma
  BY <1>3 DEF ConfermeViste, ConfermaUnica, RimborsoDopoConferma, Conferme
<1> QED BY <1>1, <1>2, <1>4 DEF Inv

LEMMA InvNext == Inv /\ [Next]_vars => Inv'
<1> SUFFICES ASSUME Inv, [Next]_vars
             PROVE  Inv'
  OBVIOUS
<1> USE DEF Attende, Libera, Esiste
<1>1. CASE UNCHANGED vars
  <2>1. VoloBuono' /\ TypeOK' /\ Esistono'
    BY <1>1 DEF vars, Inv, VoloBuono, LavoroBuono, TypeOK, Esistono
  <2> QED BY <1>1, <2>1, Tranquillo DEF vars, Confermano
<1>2. ASSUME NEW id \in PraticaId, CreatePratica(id) \/ DeletePraticaAsDraft(id)
      PROVE  Inv'
  <2>1. /\ stati' \in [DOMAIN stati' -> StatoPratica]
        /\ DOMAIN stati' \subseteq generati'
        /\ generati' \subseteq PraticaId
        /\ UNCHANGED <<pagamenti, visti, volo, movimenti>>
    <3>1. CASE CreatePratica(id)
      <4>1. "BOZZA" \in StatoPratica
        BY DEF StatoPratica
      <4> QED BY <3>1, <4>1 DEF CreatePratica, Con, Inv, TypeOK
    <3>2. CASE DeletePraticaAsDraft(id)
      BY <3>2, MappaSenza, MappaSenzaTipo DEF DeletePraticaAsDraft, Inv, TypeOK
    <3> QED BY <1>2, <3>1, <3>2
  <2>2. VoloBuono' /\ TypeOK' /\ Esistono'
    BY <2>1 DEF Inv, VoloBuono, LavoroBuono, TypeOK, Esistono
  <2> QED BY <2>1, <2>2, Tranquillo DEF Confermano
<1>3. ASSUME NEW tok \in Token, RefundPaymentByToken(tok)
      PROVE  Inv'
  BY <1>3, RimborsaInv
<1>4. ASSUME NEW r \in Richieste, Comincia(r)
      PROVE  Inv'
  BY <1>4, CominciaInv
<1>5. ASSUME NEW r \in Richieste, Prosegue(r)
      PROVE  Inv'
  BY <1>5, ProsegueInv
<1>6. ASSUME NEW r \in Richieste, Cade(r)
      PROVE  Inv'
  BY <1>6, TranquilloFinisce DEF Cade
<1>7. ASSUME NEW r \in Richieste, CambiaFallisce(r)
      PROVE  Inv'
  <2>1. /\ r \in DOMAIN volo /\ volo[r].passo \in {"cambia", "replace"}
        /\ ProssimoCambio(r)
        /\ UNCHANGED <<stati, generati, visti, movimenti, pagamenti>>
    BY <1>7 DEF CambiaFallisce
  <2> QED BY <2>1, TranquilloProssimo DEF Inv, TypeOK
<1> QED BY <1>1, <1>2, <1>3, <1>4, <1>5, <1>6, <1>7 DEF Next

-----------------------------------------------------------------------------
(* The ledger.                                                             *)

LEMMA LibroInizio == Init => Libro!Init
<1> SUFFICES ASSUME Init
             PROVE  Conti = << >> /\ Incassati = {}
  BY DEF Libro!Init
<1>1. Conti = << >>
  BY DEF Init, Conti
<1>2. \A ev \in Eventi : Conferme(TokenDi[ev]) = {}
  BY TokenDiAssumption DEF Init, Conferme
<1> QED BY <1>1, <1>2 DEF Incassati

\* The steps that touch neither payments nor confirmations are stutters.
LEMMA LibroFermo ==
  ASSUME UNCHANGED <<pagamenti, movimenti>>
  PROVE  UNCHANGED Libro!vars
BY DEF Libro!vars, Conti, Incassati, Conferme

LEMMA LibroApre ==
  ASSUME NEW tok \in Token, NEW id, tok \notin DOMAIN pagamenti,
         NuovoPagamento(tok, id), UNCHANGED movimenti
  PROVE  Libro!Next
<1>1. /\ DOMAIN pagamenti' = DOMAIN pagamenti \cup {tok}
      /\ pagamenti'[tok].stato = "PENDENTE"
      /\ \A t \in DOMAIN pagamenti : pagamenti'[t] = pagamenti[t]
  BY DEF NuovoPagamento, Con
<1>2. Conti' = Con(Conti, tok, "PENDENTE")
  BY <1>1 DEF Conti, Con
<1>3. Incassati' = Incassati
  BY DEF Incassati, Conferme
<1>4. Libro!Apri(tok)
  BY <1>2, <1>3 DEF Libro!Apri, Libro!Con, Con, Conti
<1> QED BY <1>4 DEF Libro!Next

LEMMA LibroIncassa ==
  ASSUME Inv, NEW r \in Richieste, WebhookConfirm(r),
         NEW tok, tok = volo[r].tok, NEW ev, ev = volo[r].ev
  PROVE  Libro!Next
<1>1. /\ ev \in Eventi /\ tok = TokenDi[ev] /\ tok \in Token
      /\ tok \in DOMAIN pagamenti /\ pagamenti[tok] \in Pagamento
      /\ ~Confermato(tok, ev)
  BY TokenDiAssumption DEF WebhookConfirm, Attende, Inv, VoloBuono, LavoroBuono, UnoSolo,
                           Confermano, TypeOK
<1>2. /\ pagamenti' = [pagamenti EXCEPT ![tok].stato = "COMPLETATO"]
      /\ Registra(tok, "conferma", ev)
  BY DEF WebhookConfirm
<1>3. Conti' = [Conti EXCEPT ![tok] = "COMPLETATO"]
  BY <1>1, <1>2 DEF Conti, Pagamento
<1>4. \A e \in Eventi : e \in Incassati' <=> e \in Incassati \/ e = ev
  <2> SUFFICES ASSUME NEW e \in Eventi
               PROVE  e \in Incassati' <=> e \in Incassati \/ e = ev
    OBVIOUS
  <2> QED BY <1>1, <1>2, ConfermeDopo DEF Incassati, Confermato
<1>5. ev \notin Incassati
  BY <1>1 DEF Incassati, Confermato
<1>6. Incassati' = Incassati \cup {ev}
  BY <1>1, <1>4 DEF Incassati
<1>7. Libro!Incassa(ev)
  BY <1>1, <1>3, <1>5, <1>6 DEF Libro!Incassa, Conti
<1> QED BY <1>1, <1>7 DEF Libro!Next

LEMMA LibroRimborsa ==
  ASSUME Inv, NEW tok \in Token, RefundPaymentByToken(tok)
  PROVE  Libro!Next
<1>1. /\ tok \in DOMAIN pagamenti /\ pagamenti[tok] \in Pagamento
      /\ pagamenti[tok].stato = "COMPLETATO"
      /\ pagamenti' = [pagamenti EXCEPT ![tok].stato = "RIMBORSATO"]
      /\ Registra(tok, "rimborso", Vuoto)
  BY DEF RefundPaymentByToken, Inv, TypeOK
<1>2. Conti' = [Conti EXCEPT ![tok] = "RIMBORSATO"]
  BY <1>1 DEF Conti, Pagamento
<1>3. \A t \in Token : \A e : Confermato(t, e)' <=> Confermato(t, e)
  <2>1. /\ \A t \in Token : Conferme(t)' = Conferme(t)
        /\ \A t \in Token : \A i \in Conferme(t) : movimenti'[t][i] = movimenti[t][i]
    BY <1>1, RimborsoFa DEF Inv, TypeOK
  <2> QED BY <2>1 DEF Confermato
<1>4. Incassati' = Incassati
  BY <1>3, TokenDiAssumption DEF Incassati, Confermato
<1>5. Libro!Rimborsa(tok)
  BY <1>1, <1>2, <1>4 DEF Libro!Rimborsa, Conti
<1> QED BY <1>5 DEF Libro!Next

LEMMA LibroPasso == Inv /\ [Next]_vars => [Libro!Next]_(Libro!vars)
<1> SUFFICES ASSUME Inv, [Next]_vars
             PROVE  Libro!Next \/ UNCHANGED Libro!vars
  OBVIOUS
<1> DEFINE Obiettivo == Libro!Next \/ UNCHANGED Libro!vars
<1>a. UNCHANGED <<pagamenti, movimenti>> => Obiettivo
  BY LibroFermo
<1>b. Libro!Next => Obiettivo
  OBVIOUS
<1> HIDE DEF Obiettivo
<1>1. ASSUME UNCHANGED vars
      PROVE  Obiettivo
  BY <1>1, <1>a DEF vars
<1>2. ASSUME NEW id \in PraticaId, CreatePratica(id) \/ DeletePraticaAsDraft(id)
      PROVE  Obiettivo
  BY <1>2, <1>a DEF CreatePratica, DeletePraticaAsDraft
<1>3. ASSUME NEW tok \in Token, RefundPaymentByToken(tok)
      PROVE  Obiettivo
  BY <1>3, <1>b, LibroRimborsa
<1>4. ASSUME NEW r \in Richieste, Comincia(r)
      PROVE  Obiettivo
  <2>1. ASSUME NEW id \in PraticaId, NEW tok \in Token, LinkMemory(r, id, tok)
        PROVE  Obiettivo
    BY <2>1, <1>b, LibroApre DEF LinkMemory
  <2> QED BY <1>4, <2>1, <1>a DEF Comincia, WebhookGet, AltroCambio, AltraScrittura, LinkGet
<1>5. ASSUME NEW r \in Richieste, Prosegue(r)
      PROVE  Obiettivo
  <2>1. ASSUME NEW tok \in Token, LinkInsert(r, tok)
        PROVE  Obiettivo
    BY <2>1, <1>b, LibroApre DEF LinkInsert
  <2>2. CASE WebhookConfirm(r)
    <3> DEFINE t == volo[r].tok
               e == volo[r].ev
    <3>1. t = volo[r].tok /\ e = volo[r].ev
      OBVIOUS
    <3> HIDE DEF t, e
    <3> QED BY <2>2, <3>1, <1>b, LibroIncassa
  <2> QED BY <1>5, <2>1, <2>2, <1>a DEF Prosegue, CambiaMemory, CambiaFind, ReplaceOne,
             EnrichRiesce, EnrichFallisce, WebhookMark, Notifica
<1>6. ASSUME NEW r \in Richieste, Cade(r) \/ CambiaFallisce(r)
      PROVE  Obiettivo
  BY <1>6, <1>a DEF Cade, CambiaFallisce
<1> QED BY <1>1, <1>2, <1>3, <1>4, <1>5, <1>6 DEF Next, Obiettivo

-----------------------------------------------------------------------------
(* Marked events, when nothing fails.                                      *)

\* The handlers that are going to confirm are the same, or there is one more
\* for an event just marked; what was confirmed stays so.
LEMMA MarcatoFermo ==
  ASSUME MarcatoConfermato, UNCHANGED <<visti, movimenti>>,
         \A s \in Confermano(volo) : s \in DOMAIN volo' /\ volo'[s] = volo[s]
  PROVE  MarcatoConfermato'
BY DEF MarcatoConfermato, Confermano, Conferme

LEMMA AltriFermi ==
  ASSUME NEW r, Finisci(r) \/ \E l : Segue(r, l)
  PROVE  \A s \in DOMAIN volo : s # r => s \in DOMAIN volo' /\ volo'[s] = volo[s]
<1>1. CASE Finisci(r)
  BY <1>1, MappaSenza DEF Finisci
<1>2. ASSUME NEW l, Segue(r, l)
      PROVE  \A s \in DOMAIN volo : s # r => s \in DOMAIN volo' /\ volo'[s] = volo[s]
  BY <1>2 DEF Segue, Con
<1> QED BY <1>1, <1>2

\* A step of a handler that is not about to confirm leaves those that are.
LEMMA MarcatoAltro ==
  ASSUME MarcatoConfermato, UNCHANGED <<visti, movimenti>>,
         NEW r, r \notin Confermano(volo), Finisci(r) \/ \E l : Segue(r, l)
  PROVE  MarcatoConfermato'
<1>1. \A s \in DOMAIN volo : s # r => s \in DOMAIN volo' /\ volo'[s] = volo[s]
  BY AltriFermi
<1> QED BY <1>1, MarcatoFermo DEF Confermano

LEMMA ProssimoSegue ==
  ASSUME NEW r, ProssimoCambio(r)
  PROVE  Finisci(r) \/ \E l : Segue(r, l)
BY DEF ProssimoCambio

LEMMA MarcatoPasso ==
  ASSUME ~Guasti, Inv, Inv', MarcatoConfermato, [Next]_vars
  PROVE  MarcatoConfermato'
<1> USE DEF Attende, Libera
<1>1. CASE UNCHANGED vars
  BY <1>1, MarcatoFermo DEF vars, Confermano
<1>2. ASSUME NEW id \in PraticaId, CreatePratica(id) \/ DeletePraticaAsDraft(id)
      PROVE  MarcatoConfermato'
  BY <1>2, MarcatoFermo DEF CreatePratica, DeletePraticaAsDraft, Confermano
<1>3. ASSUME NEW tok \in Token, RefundPaymentByToken(tok)
      PROVE  MarcatoConfermato'
  <2>1. /\ \A t \in Token : Conferme(t)' = Conferme(t)
        /\ \A t \in Token : \A i \in Conferme(t) : movimenti'[t][i] = movimenti[t][i]
    BY <1>3, RimborsoFa DEF RefundPaymentByToken, Inv, TypeOK
  <2>2. visti' = visti /\ volo' = volo
    BY <1>3 DEF RefundPaymentByToken
  <2>3. \A ev \in visti : TokenDi[ev] \in Token
    BY TokenDiAssumption DEF Inv, TypeOK
  <2> QED BY <2>1, <2>2, <2>3 DEF MarcatoConfermato
<1>4. ASSUME NEW r \in Richieste, Comincia(r)
      PROVE  MarcatoConfermato'
  <2>1. /\ r \notin Confermano(volo) /\ \E l : Segue(r, l)
        /\ UNCHANGED <<visti, movimenti>>
    BY <1>4 DEF Comincia, WebhookGet, AltroCambio, AltraScrittura, LinkMemory, LinkGet,
                Confermano
  <2> QED BY <2>1, MarcatoAltro
<1>5. ASSUME NEW r \in Richieste, Prosegue(r)
      PROVE  MarcatoConfermato'
  <2>1. CASE WebhookMark(r)
    <3>1. CASE volo[r].ev \in visti
      <4>1. r \notin Confermano(volo) /\ Finisci(r) /\ UNCHANGED <<visti, movimenti>>
        BY <2>1, <3>1 DEF WebhookMark, Confermano, Inv, TypeOK
      <4> QED BY <4>1, MarcatoAltro
    <3>2. CASE volo[r].ev \notin visti
      <4> DEFINE l == [volo[r] EXCEPT !.passo = "confirm"]
      <4>1. /\ r \in DOMAIN volo /\ volo[r].passo = "mark" /\ volo[r] \in InVolo
            /\ visti' = visti \cup {volo[r].ev} /\ movimenti' = movimenti
            /\ volo' = Con(volo, r, l)
        BY <2>1, <3>2 DEF WebhookMark, Segue, Inv, TypeOK
      <4>2. volo'[r] = l /\ r \in DOMAIN volo'
        BY <4>1 DEF Con
      <4>3. l.ev = volo[r].ev /\ l.passo = "confirm"
        BY <4>1 DEF InVolo
      <4>4. \A s \in DOMAIN volo : s # r => s \in DOMAIN volo' /\ volo'[s] = volo[s]
        BY <4>1 DEF Con
      <4>5. \A e \in visti' : e = volo[r].ev \/ e \in visti
        BY <4>1
      <4>6. ASSUME NEW e \in visti'
            PROVE  \/ \E s \in DOMAIN volo' : volo'[s].ev = e /\ volo'[s].passo = "confirm"
                   \/ \E i \in Conferme(TokenDi[e]) : movimenti[TokenDi[e]][i].ev = e
        <5>1. CASE e = volo[r].ev
          BY <4>2, <4>3, <5>1
        <5>2. CASE e \in visti /\ \E s \in DOMAIN volo : volo[s].ev = e /\ volo[s].passo = "confirm"
          BY <4>1, <4>4, <5>2
        <5>3. CASE e \in visti /\ \E i \in Conferme(TokenDi[e]) : movimenti[TokenDi[e]][i].ev = e
          BY <5>3
        <5> QED BY <4>5, <5>1, <5>2, <5>3 DEF MarcatoConfermato
      <4>7. \A t : Conferme(t)' = Conferme(t)
        BY <4>1 DEF Conferme
      <4> QED BY <4>1, <4>6, <4>7 DEF MarcatoConfermato
    <3> QED BY <3>1, <3>2
  <2>2. CASE WebhookConfirm(r)
    <3>1. PICK ev \in Eventi, tok \in Token : ev = volo[r].ev /\ tok = TokenDi[ev]
                                           /\ tok = volo[r].tok
      BY <2>2, TokenDiAssumption DEF WebhookConfirm, Inv, VoloBuono, LavoroBuono
    <3>2. Registra(tok, "conferma", ev) /\ visti' = visti /\ visti \subseteq Eventi
          /\ \E l : Segue(r, l)
      BY <2>2, <3>1 DEF WebhookConfirm, Inv, TypeOK
    <3>3. \A s \in DOMAIN volo : s # r => s \in DOMAIN volo' /\ volo'[s] = volo[s]
      BY <3>2, AltriFermi
    <3>4. \A e \in Eventi : Confermato(TokenDi[e], e)'
                             <=> Confermato(TokenDi[e], e) \/ e = ev
      BY <3>1, <3>2, ConfermeDopo
    <3> QED BY <3>1, <3>2, <3>3, <3>4 DEF MarcatoConfermato, Confermato
  <2>3. CASE ~WebhookMark(r) /\ ~WebhookConfirm(r)
    <3>1. r \notin Confermano(volo) /\ UNCHANGED <<visti, movimenti>>
      BY <1>5, <2>3 DEF Prosegue, CambiaMemory, CambiaFind, ReplaceOne, LinkInsert,
            EnrichRiesce, EnrichFallisce, Notifica, Confermano
    <3>2. Finisci(r) \/ \E l : Segue(r, l)
      BY <1>5, <2>3, ProssimoSegue DEF Prosegue, CambiaMemory, CambiaFind, ReplaceOne,
            LinkInsert, EnrichRiesce, EnrichFallisce, Notifica
    <3> QED BY <3>1, <3>2, MarcatoAltro
  <2> QED BY <2>1, <2>2, <2>3
<1> QED BY <1>1, <1>2, <1>3, <1>4, <1>5 DEF Next, Cade, CambiaFallisce

-----------------------------------------------------------------------------
(* The mail that says the visa was issued, over MemoryStore: before each   *)
(* of its four changes the webhook finds the pratica at most one state     *)
(* behind, because no other handler can leave the chain of states that     *)
(* starts where a payment is waited for.                                   *)

Percorso == {"ATTENDE_PAGAMENTO", "PAGAMENTO_RICEVUTO", "VISTO_IN_ELABORAZIONE",
           "VISTO_EMESSO", "COMPLETATA"}

\* The states from which the change to `s` is made, or was made already.
Verso(s) ==
  CASE s = "PAGAMENTO_RICEVUTO"    -> Percorso
    [] s = "VISTO_IN_ELABORAZIONE" -> Percorso \ {"ATTENDE_PAGAMENTO"}
    [] s = "VISTO_EMESSO"          -> {"VISTO_IN_ELABORAZIONE", "VISTO_EMESSO", "COMPLETATA"}
    [] OTHER                       -> {"VISTO_EMESSO", "COMPLETATA"}

\* What the webhook has still to ask for.
Scale == {Scala,
          <<"VISTO_IN_ELABORAZIONE", "VISTO_EMESSO", "COMPLETATA">>,
          <<"VISTO_EMESSO", "COMPLETATA">>,
          <<"COMPLETATA">>}

\* A handler of MemoryStore, with the states of the pratiche.
Veritiero(l, s) ==
  /\ l.passo # "replace"
  /\ l.passo \in {"insert", "enrich"} => l.tipo = "link"
  /\ l.tipo = "webhook" /\ l.trovata \in Percorso =>
       /\ l.passo = "cambia" => /\ l.resto \in Scale
                                /\ l.id \in DOMAIN s /\ s[l.id] \in Verso(Head(l.resto))
       /\ l.passo = "notifica" => l.id \in DOMAIN s /\ s[l.id] = "COMPLETATA"

Veritieri == \A r \in DOMAIN volo : Veritiero(volo[r], stati)

\* Pratiche in the chain stay in it, and move along the table.
Avanza ==
  \A id \in DOMAIN stati : stati[id] \in Percorso =>
    /\ id \in DOMAIN stati'
    /\ stati'[id] = stati[id] \/ stati'[id] \in allowedTransitions[stati[id]]

\* From a state of the chain the table leads to the next one only.
LEMMA TabellaPercorso ==
  ASSUME NEW a \in Percorso, NEW b \in allowedTransitions[a], NEW s, a \in Verso(s)
  PROVE  b \in Verso(s)
BY DEF Percorso, Verso, allowedTransitions, successoriVisto, StatoPratica

LEMMA VersoPercorso ==
  ASSUME NEW s
  PROVE  Verso(s) \subseteq Percorso
BY DEF Verso, Percorso

LEMMA CompletataFerma == allowedTransitions["COMPLETATA"] = {}
BY DEF allowedTransitions, successoriVisto, StatoPratica

\* The head and the tail of what has still to be asked for; a change leads to
\* a state from which the next one is made.
LEMMA ScalaScende ==
  ASSUME NEW q \in Scale
  PROVE  /\ Tail(q) # << >> => Tail(q) \in Scale
         /\ \A a \in Verso(Head(q)) :
              Tail(q) # << >> =>
                 \/ a \in Verso(Head(Tail(q)))
                 \/ allowedTransitions[a] = {Head(q)} /\ Head(q) \in Verso(Head(Tail(q)))
         /\ \A a \in Verso(Head(q)) :
              Tail(q) = << >> =>
                 \/ a = "COMPLETATA"
                 \/ allowedTransitions[a] = {Head(q)} /\ Head(q) = "COMPLETATA"
<1>1. CASE q = Scala
  BY <1>1 DEF Scala, Scale, Verso, Percorso, allowedTransitions, successoriVisto, StatoPratica
<1>2. CASE q = <<"VISTO_IN_ELABORAZIONE", "VISTO_EMESSO", "COMPLETATA">>
  BY <1>2 DEF Scala, Scale, Verso, Percorso, allowedTransitions, successoriVisto, StatoPratica
<1>3. CASE q = <<"VISTO_EMESSO", "COMPLETATA">>
  BY <1>3 DEF Scala, Scale, Verso, Percorso, allowedTransitions, successoriVisto, StatoPratica
<1>4. CASE q = <<"COMPLETATA">>
  BY <1>4 DEF Scala, Scale, Verso, Percorso, allowedTransitions, successoriVisto, StatoPratica
<1> QED BY <1>1, <1>2, <1>3, <1>4 DEF Scale

\* The other handlers are as truthful as before.
LEMMA VeritieroResta ==
  ASSUME Avanza, NEW l, Veritiero(l, stati)
  PROVE  Veritiero(l, stati')
<1> SUFFICES ASSUME l.tipo = "webhook", l.trovata \in Percorso
             PROVE  /\ l.passo = "cambia" => /\ l.resto \in Scale
                                             /\ l.id \in DOMAIN stati'
                                             /\ stati'[l.id] \in Verso(Head(l.resto))
                    /\ l.passo = "notifica" => /\ l.id \in DOMAIN stati'
                                               /\ stati'[l.id] = "COMPLETATA"
  BY DEF Veritiero
<1>1. CASE l.passo = "cambia"
  <2>1. l.resto \in Scale /\ l.id \in DOMAIN stati /\ stati[l.id] \in Verso(Head(l.resto))
    BY <1>1 DEF Veritiero
  <2>2. stati[l.id] \in Percorso
    BY <2>1, VersoPercorso
  <2> QED BY <1>1, <2>1, <2>2, TabellaPercorso DEF Avanza
<1>2. CASE l.passo = "notifica"
  <2>1. l.id \in DOMAIN stati /\ stati[l.id] = "COMPLETATA"
    BY <1>2 DEF Veritiero
  <2>2. stati[l.id] \in Percorso
    BY <2>1 DEF Percorso
  <2> QED BY <1>2, <2>1, <2>2, CompletataFerma DEF Avanza
<1> QED BY <1>1, <1>2

LEMMA VeritieriPasso ==
  ASSUME Veritieri, Avanza, NEW r,
         \/ Finisci(r)
         \/ \E l : Segue(r, l) /\ Veritiero(l, stati')
         \/ UNCHANGED volo
  PROVE  Veritieri'
<1>1. \A q \in DOMAIN volo' : q # r => q \in DOMAIN volo /\ volo'[q] = volo[q]
  BY DEF Finisci, Segue, Con, Senza, Restrict
<1>2. r \in DOMAIN volo' =>
        \/ Veritiero(volo'[r], stati')
        \/ r \in DOMAIN volo /\ volo'[r] = volo[r]
  BY DEF Finisci, Segue, Con, Senza, Restrict
<1>3. ASSUME NEW q \in DOMAIN volo'
      PROVE  Veritiero(volo'[q], stati')
  <2>1. CASE q \in DOMAIN volo /\ volo'[q] = volo[q]
    BY <2>1, VeritieroResta DEF Veritieri
  <2> QED BY <1>1, <1>2, <2>1
<1> QED BY <1>3 DEF Veritieri

LEMMA FermiAvanza ==
  ASSUME UNCHANGED stati
  PROVE  Avanza
BY DEF Avanza

\* A handler that starts.
LEMMA LavoroVeritiero ==
  ASSUME NEW tipo, NEW passo, NEW id, NEW s, tipo # "webhook", passo # "replace",
         passo \in {"insert", "enrich"} => tipo = "link"
  PROVE  Veritiero(Lavoro(tipo, passo, id), s)
BY DEF Lavoro, Veritiero

LEMMA VeritieriComincia ==
  ASSUME Store = "memory", Veritieri, NEW r \in Richieste, Comincia(r)
  PROVE  Veritieri'
<1>0. Avanza /\ UNCHANGED stati
  BY FermiAvanza DEF Comincia, WebhookGet, AltroCambio, AltraScrittura, LinkMemory, LinkGet
<1>1. ASSUME NEW ev \in Eventi, WebhookGet(r, ev)
      PROVE  Veritieri'
  <2>1. PICK t : t = TokenDi[ev]
    OBVIOUS
  <2>2. PICK l : l = [Lavoro("webhook", "mark", Vuoto) EXCEPT !.ev = ev, !.tok = t]
    OBVIOUS
  <2>3. l.passo = "mark"
    BY <2>2 DEF Lavoro
  <2>4. Segue(r, l)
    BY <1>1, <2>1, <2>2 DEF WebhookGet
  <2> QED BY <1>0, <2>3, <2>4, VeritieriPasso DEF Veritiero
<1>2. ASSUME NEW id \in PraticaId, NEW next \in StatoPratica, AltroCambio(r, id, next)
      PROVE  Veritieri'
  <2>1. PICK l : l = [Lavoro("altro", "cambia", id) EXCEPT !.resto = <<next>>]
    OBVIOUS
  <2>2. l.passo = "cambia" /\ l.tipo = "altro"
    BY <2>1 DEF Lavoro
  <2>3. Segue(r, l)
    BY <1>2, <2>1 DEF AltroCambio
  <2> QED BY <1>0, <2>2, <2>3, VeritieriPasso DEF Veritiero
<1>3. ASSUME NEW id \in PraticaId, NEW tok \in Token, LinkMemory(r, id, tok)
      PROVE  Veritieri'
  <2>1. PICK l : l = [Lavoro("link", "enrich", id) EXCEPT !.tok = tok]
    OBVIOUS
  <2>2. l.passo = "enrich" /\ l.tipo = "link"
    BY <2>1 DEF Lavoro
  <2>3. Segue(r, l)
    BY <1>3, <2>1 DEF LinkMemory
  <2> QED BY <1>0, <2>2, <2>3, VeritieriPasso DEF Veritiero
<1>4. ASSUME NEW id \in PraticaId, AltraScrittura(r, id) \/ LinkGet(r, id)
      PROVE  Veritieri'
  BY <1>4 DEF AltraScrittura, LinkGet
<1> QED BY <1>1, <1>2, <1>3, <1>4 DEF Comincia

\* A change is asked for, and made or refused.
LEMMA VeritieriCambia ==
  ASSUME Inv, Veritieri, NEW r \in Richieste, CambiaMemory(r)
  PROVE  Veritieri'
<1>0. PICK l : l = volo[r]
  OBVIOUS
<1>1. /\ r \in DOMAIN volo /\ l.passo = "cambia" /\ l \in InVolo
      /\ Veritiero(l, stati) /\ l.resto # << >>
      /\ ProssimoCambio(r)
  BY <1>0 DEF CambiaMemory, Attende, Veritieri, Inv, VoloBuono, LavoroBuono
<1>2. stati' = IF l.id \in DOMAIN stati /\ Head(l.resto) \in allowedTransitions[stati[l.id]]
               THEN [stati EXCEPT ![l.id] = Head(l.resto)] ELSE stati
  BY <1>0 DEF CambiaMemory, Ammesso, Esiste
<1>3. Avanza
  BY <1>2 DEF Avanza
<1> DEFINE altri == Tail(l.resto)
           m == [l EXCEPT !.passo = IF altri = << >> THEN "notifica" ELSE "cambia",
                          !.resto = altri, !.scrive = Vuoto]
<1>4. Finisci(r) \/ Segue(r, m)
  BY <1>0, <1>1 DEF ProssimoCambio
<1>5. /\ m.passo = (IF altri = << >> THEN "notifica" ELSE "cambia")
      /\ m.resto = altri /\ m.tipo = l.tipo /\ m.id = l.id /\ m.trovata = l.trovata
  BY <1>1 DEF InVolo
<1> HIDE DEF m
<1>6. ASSUME l.tipo = "webhook", l.trovata \in Percorso
      PROVE  Veritiero(m, stati')
  <2>1. l.resto \in Scale /\ l.id \in DOMAIN stati /\ stati[l.id] \in Verso(Head(l.resto))
    BY <1>1, <1>6 DEF Veritiero
  <2>2. PICK a, q, h : a = stati[l.id] /\ q = l.resto /\ h = Head(q)
    OBVIOUS
  <2>3. l.id \in DOMAIN stati' /\ stati'[l.id] = IF h \in allowedTransitions[a] THEN h ELSE a
    BY <1>2, <2>1, <2>2
  <2>4. CASE altri = << >>
    <3>1. \/ a = "COMPLETATA"
          \/ allowedTransitions[a] = {h} /\ h = "COMPLETATA"
      BY <2>1, <2>2, <2>4, ScalaScende
    <3>2. stati'[l.id] = "COMPLETATA"
      BY <2>3, <3>1, CompletataFerma
    <3> QED BY <1>5, <2>3, <2>4, <3>2 DEF Veritiero
  <2>5. CASE altri # << >>
    <3>1. altri \in Scale
      BY <2>1, <2>5, ScalaScende
    <3>2. \/ a \in Verso(Head(altri))
          \/ allowedTransitions[a] = {h} /\ h \in Verso(Head(altri))
      BY <2>1, <2>2, <2>5, ScalaScende
    <3>3. h \in allowedTransitions[a] /\ a \in Verso(Head(altri)) => h \in Verso(Head(altri))
      BY TabellaPercorso, VersoPercorso
    <3>4. stati'[l.id] \in Verso(Head(altri))
      BY <2>3, <3>2, <3>3
    <3> QED BY <1>5, <2>3, <2>5, <3>1, <3>4 DEF Veritiero
  <2> QED BY <2>4, <2>5
<1>7. ~(l.tipo = "webhook" /\ l.trovata \in Percorso) => Veritiero(m, stati')
  BY <1>5 DEF Veritiero
<1> QED BY <1>3, <1>4, <1>6, <1>7, VeritieriPasso

\* The confirmation: the pratica is in the chain if it was found there.
LEMMA VeritieriConferma ==
  ASSUME Inv, Veritieri, NEW r \in Richieste, WebhookConfirm(r)
  PROVE  Veritieri'
<1>0. PICK l, id : l = volo[r] /\ id = pagamenti[volo[r].tok].pratica
  OBVIOUS
<1>1. /\ r \in DOMAIN volo /\ l \in InVolo
      /\ UNCHANGED stati
  BY <1>0 DEF WebhookConfirm, Attende, Inv, VoloBuono
<1> DEFINE m == [l EXCEPT !.passo = "cambia", !.resto = Scala, !.id = id,
                          !.trovata = StatoDi(id)]
<1>2. Segue(r, m)
  BY <1>0 DEF WebhookConfirm
<1>3. m.passo = "cambia" /\ m.resto = Scala /\ m.id = id /\ m.trovata = StatoDi(id)
  BY <1>1 DEF InVolo
<1> HIDE DEF m
<1>4. Head(Scala) = "PAGAMENTO_RICEVUTO" /\ Scala \in Scale
  BY DEF Scala, Scale
<1>5. StatoDi(id) \in Percorso => id \in DOMAIN stati /\ stati[id] \in Verso(Head(Scala))
  BY <1>4 DEF StatoDi, Esiste, Verso, Percorso, Vuoto
<1>6. Veritiero(m, stati)
  BY <1>3, <1>4, <1>5 DEF Veritiero
<1> QED BY <1>1, <1>2, <1>6, FermiAvanza, VeritieriPasso

LEMMA VeritieriStep ==
  ASSUME Store = "memory", ~Guasti, Inv, Veritieri, [Next]_vars
  PROVE  Veritieri'
<1>1. ASSUME NEW id \in PraticaId, CreatePratica(id) \/ DeletePraticaAsDraft(id)
      PROVE  Veritieri'
  <2>1. UNCHANGED volo
    BY <1>1 DEF CreatePratica, DeletePraticaAsDraft
  <2>2. Avanza
    BY <1>1 DEF CreatePratica, DeletePraticaAsDraft, Avanza, Con, Senza, Restrict, Percorso, Inv,
                TypeOK
  <2> QED BY <2>1, <2>2, VeritieriPasso
<1>2. ASSUME NEW tok \in Token, RefundPaymentByToken(tok)
      PROVE  Veritieri'
  BY <1>2, FermiAvanza, VeritieriPasso DEF RefundPaymentByToken
<1>3. ASSUME NEW r \in Richieste, NEW tok \in Token, LinkInsert(r, tok)
      PROVE  Veritieri'
  <2>0. PICK l : l = volo[r]
    OBVIOUS
  <2>1. r \in DOMAIN volo /\ l \in InVolo /\ l.tipo = "link" /\ UNCHANGED stati
    BY <1>3, <2>0 DEF LinkInsert, Attende, Veritieri, Veritiero, Inv, VoloBuono
  <2> DEFINE m == [l EXCEPT !.passo = "enrich", !.tok = tok]
  <2>2. Segue(r, m)
    BY <1>3, <2>0 DEF LinkInsert
  <2>3. m.passo = "enrich" /\ m.tipo = "link"
    BY <2>1 DEF InVolo
  <2> HIDE DEF m
  <2> QED BY <2>1, <2>2, <2>3, FermiAvanza, VeritieriPasso DEF Veritiero
<1>4. ASSUME NEW r \in Richieste, EnrichRiesce(r)
      PROVE  Veritieri'
  <2>0. PICK l : l = volo[r]
    OBVIOUS
  <2>1. r \in DOMAIN volo /\ l \in InVolo /\ l.tipo = "link" /\ UNCHANGED stati
    BY <1>4, <2>0 DEF EnrichRiesce, Attende, Veritieri, Veritiero, Inv, VoloBuono
  <2> DEFINE m == [l EXCEPT !.passo = "cambia", !.resto = <<"ATTENDE_PAGAMENTO">>]
  <2>2. Segue(r, m)
    BY <1>4, <2>0 DEF EnrichRiesce
  <2>3. m.passo = "cambia" /\ m.tipo = "link"
    BY <2>1 DEF InVolo
  <2> HIDE DEF m
  <2> QED BY <2>1, <2>2, <2>3, FermiAvanza, VeritieriPasso DEF Veritiero
<1>5. ASSUME NEW r \in Richieste, WebhookMark(r)
      PROVE  Veritieri'
  <2>0. PICK l : l = volo[r]
    OBVIOUS
  <2>1. r \in DOMAIN volo /\ l \in InVolo /\ UNCHANGED stati
    BY <1>5, <2>0 DEF WebhookMark, Attende, Inv, VoloBuono
  <2> DEFINE m == [l EXCEPT !.passo = "confirm"]
  <2>2. Finisci(r) \/ Segue(r, m)
    BY <1>5, <2>0 DEF WebhookMark
  <2>3. m.passo = "confirm"
    BY <2>1 DEF InVolo
  <2> HIDE DEF m
  <2> QED BY <2>1, <2>2, <2>3, FermiAvanza, VeritieriPasso DEF Veritiero
<1>6. ASSUME NEW r \in Richieste, EnrichFallisce(r) \/ Notifica(r)
      PROVE  Veritieri'
  BY <1>6, FermiAvanza, VeritieriPasso DEF EnrichFallisce, Notifica
<1>7. ASSUME NEW r \in Richieste,
             CambiaFind(r) \/ ReplaceOne(r) \/ Cade(r) \/ CambiaFallisce(r)
      PROVE  Veritieri'
  BY <1>7 DEF CambiaFind, ReplaceOne, Cade, CambiaFallisce, Attende, Veritieri, Veritiero
<1>8. ASSUME NEW r \in Richieste, Prosegue(r)
      PROVE  Veritieri'
  BY <1>3, <1>4, <1>5, <1>6, <1>7, <1>8, VeritieriCambia, VeritieriConferma DEF Prosegue
<1>9. CASE UNCHANGED vars
  BY <1>9, FermiAvanza, VeritieriPasso DEF vars
<1> QED BY <1>1, <1>2, <1>7, <1>8, <1>9, VeritieriComincia DEF Next

-----------------------------------------------------------------------------
(* The theorems.                                                           *)

\* In every reachable state an event is in the hands of one handler at most
\* until it has confirmed, and what is in flight names payments that exist.
THEOREM InvPagamenti == Spec => []Inv
BY InvInit, InvNext, PTL DEF Spec

\* The stores keep payments, events and states of the types the code declares.
THEOREM TypeOKPagamenti == Spec => []TypeOK
<1>1. Inv => TypeOK
  BY DEF Inv
<1> QED BY <1>1, InvPagamenti, PTL

\* An event confirms its payment at most once, whatever is delivered twice,
\* at the same time, or again after a crash (handlePagamentiWebhook).
THEOREM ConfermaUnicaPagamenti == Spec => []ConfermaUnica
<1>1. Inv => ConfermaUnica
  BY DEF Inv
<1> QED BY <1>1, InvPagamenti, PTL

\* A refund directly follows a confirmation (RefundPaymentByToken).
THEOREM RimborsoDopoConfermaPagamenti == Spec => []RimborsoDopoConferma
<1>1. Inv => RimborsoDopoConferma
  BY DEF Inv
<1> QED BY <1>1, InvPagamenti, PTL

\* The handlers of the link, of the webhook and of the refund implement the
\* ledger of Registro.
THEOREM ImplementaRegistroPagamenti == Spec => ImplementaRegistro
<1>1. Init => Libro!Init
  BY LibroInizio
<1>2. Inv /\ [Next]_vars => [Libro!Next]_(Libro!vars)
  BY LibroPasso
<1> QED BY <1>1, <1>2, InvPagamenti, PTL DEF Spec, ImplementaRegistro, Libro!Spec

\* While no call fails and the process does not crash, an event answered as
\* processed has confirmed its payment (the two calls of
\* handlePagamentiWebhook that no transaction joins).
THEOREM MarcatoConfermatoPagamenti == ~Guasti => (Spec => []MarcatoConfermato)
<1> SUFFICES ASSUME ~Guasti
             PROVE  Spec => []MarcatoConfermato
  OBVIOUS
<1>1. Init => MarcatoConfermato
  BY DEF Init, MarcatoConfermato
<1>2. Inv /\ Inv' /\ MarcatoConfermato /\ [Next]_vars => MarcatoConfermato'
  BY MarcatoPasso
<1> QED BY <1>1, <1>2, InvPagamenti, PTL DEF Spec

\* Over MemoryStore, whose calls do not fail: when the pratica waited for its
\* payment as the webhook confirmed it, or was past that, the mail that says
\* the visa was issued is true, although the four changes are refused or made
\* without a look at their results and other handlers move the pratica between
\* them (Pagamenti.AvvisoVeritiero).
THEOREM AvvisoVeritieroPagamenti ==
  Store = "memory" /\ ~Guasti => (Spec => []AvvisoVeritiero)
<1> SUFFICES ASSUME Store = "memory", ~Guasti
             PROVE  Spec => []AvvisoVeritiero
  OBVIOUS
<1>1. Init => Veritieri
  BY DEF Init, Veritieri
<1>2. Inv /\ Veritieri /\ [Next]_vars => Veritieri'
  BY VeritieriStep
<1>3. Veritieri => AvvisoVeritiero
  <2>1. {"ATTENDE_PAGAMENTO"} \cup Range(Scala) \subseteq Percorso
    BY DEF Scala, Range, Percorso
  <2> QED BY <2>1 DEF Veritieri, Veritiero, AvvisoVeritiero, Annuncia, Attende, Emesso
<1> QED BY <1>1, <1>2, <1>3, InvPagamenti, PTL DEF Spec

=============================================================================
