--------------------------- MODULE PraticaDoc_proofs ---------------------------
(***************************************************************************)
(* What each computation on a pratica preserves, for every content of the  *)
(* document.  The proofs about both stores rest on these lemmas.           *)
(***************************************************************************)
EXTENDS PraticaDoc, Mappe, TLAPS

-----------------------------------------------------------------------------
(* The maps and the collections: what adding an entry and removing one do. *)

\* Adding or overwriting an entry.
LEMMA MappaCon ==
  ASSUME NEW f, NEW k, NEW v
  PROVE  /\ DOMAIN Con(f, k, v) = DOMAIN f \cup {k}
         /\ Con(f, k, v)[k] = v
         /\ \A x \in DOMAIN f : x # k => Con(f, k, v)[x] = f[x]
BY DEF Con

\* Adding a value of type T to a map of values of type T.
LEMMA MappaConTipo ==
  ASSUME NEW T, NEW f, f \in [DOMAIN f -> T], NEW k, NEW v \in T
  PROVE  Con(f, k, v) \in [DOMAIN Con(f, k, v) -> T]
BY DEF Con

\* Removing an entry.
LEMMA MappaSenza ==
  ASSUME NEW f, NEW k
  PROVE  /\ DOMAIN Senza(f, k) = DOMAIN f \ {k}
         /\ \A x \in DOMAIN f : x # k => Senza(f, k)[x] = f[x]
BY DEF Senza, Restrict

LEMMA MappaSenzaTipo ==
  ASSUME NEW T, NEW f, f \in [DOMAIN f -> T], NEW k
  PROVE  Senza(f, k) \in [DOMAIN Senza(f, k) -> T]
BY DEF Senza, Restrict

-----------------------------------------------------------------------------
(* The documents.                                                          *)

\* The table leads from states to states.
LEMMA Tabella ==
  \A s \in StatoPratica : allowedTransitions[s] \subseteq StatoPratica \ {"BOZZA"}
BY DEF allowedTransitions, successoriVisto, StatoPratica

\* The empty string is no state.
LEMMA VuotoNonStato == Vuoto \notin StatoPratica
BY DEF Vuoto, StatoPratica

\* A draft has nothing but its creation to show: the table never returns to
\* BOZZA, so what a timeline sets last is BOZZA only at its first position.
LEMMA NuovaPraticaCorretta ==
  ASSUME NEW u \in Utenti, NEW d \in Dati
  PROVE  NuovaPratica(u, d) \in Pratica /\ Coerente(NuovaPratica(u, d))
<1> DEFINE p == NuovaPratica(u, d)
<1>1. /\ p.eventi = <<Evento("PRATICA_CREATA", Vuoto, "BOZZA")>>
      /\ p.stato = "BOZZA" /\ p.inviata = FALSE /\ p.completata = FALSE
  BY DEF NuovaPratica
<1>2. Evento("PRATICA_CREATA", Vuoto, "BOZZA") \in EventoPratica
  BY DEF Evento, EventoPratica, TipoEvento, StatoPratica
<1>3. p \in Pratica
  BY <1>2 DEF NuovaPratica, Pratica, StatoPratica
<1>4. Len(p.eventi) = 1 /\ p.eventi[1].a = "BOZZA"
  BY <1>1 DEF Evento
<1>5. Cambi(p.eventi) = {1}
  <2> HIDE DEF p
  <2>1. 1..Len(p.eventi) = {1}
    BY <1>4
  <2> QED BY <2>1, <1>4 DEF Cambi, Vuoto
<1>6. Catena(p.eventi)
  BY <1>1, <1>5 DEF Catena
<1>7. StatoSpiegato(p)
  BY <1>1, <1>4, <1>5 DEF StatoSpiegato, UltimoPrima
<1>8. \A s \in StatoPratica : Passata(p, s) => s = "BOZZA"
  BY <1>4 DEF Passata
<1>9. Tappe(p) /\ DateSpiegate(p) /\ InvioUnico(p)
  BY <1>1, <1>4, <1>5 DEF Tappe, DateSpiegate, InvioUnico, Passata,
     DopoApprovazione, DopoPagamento
<1> QED BY <1>3, <1>6, <1>7, <1>9 DEF Coerente

\* Appending to a timeline keeps what it already says.
LEMMA AggiuntaEvento ==
  ASSUME NEW log \in Seq(EventoPratica), NEW e \in EventoPratica
  PROVE  /\ Append(log, e) \in Seq(EventoPratica)
         /\ Len(Append(log, e)) = Len(log) + 1
         /\ Len(log) \in Nat
         /\ \A i \in 1..Len(log) : Append(log, e)[i] = log[i]
         /\ Append(log, e)[Len(log) + 1] = e
OBVIOUS

\* An event that sets no state is not one of the changes.
LEMMA CambiDopoNota ==
  ASSUME NEW log \in Seq(EventoPratica), NEW e \in EventoPratica, e.a = Vuoto
  PROVE  Cambi(Append(log, e)) = Cambi(log)
<1> DEFINE L == Append(log, e)
<1>1. /\ Len(L) = Len(log) + 1 /\ Len(log) \in Nat
      /\ \A i \in 1..Len(log) : L[i] = log[i]
      /\ L[Len(log) + 1] = e
  BY AggiuntaEvento
<1> HIDE DEF L
<1>2. ASSUME NEW i PROVE i \in Cambi(L) <=> i \in Cambi(log)
  BY <1>1 DEF Cambi
<1> QED BY <1>2 DEF L

\* A change of state is one of the changes, and the last.
LEMMA CambiDopoCambio ==
  ASSUME NEW log \in Seq(EventoPratica), NEW e \in EventoPratica, e.a # Vuoto
  PROVE  Cambi(Append(log, e)) = Cambi(log) \cup {Len(log) + 1}
<1> DEFINE L == Append(log, e)
<1>1. /\ Len(L) = Len(log) + 1 /\ Len(log) \in Nat
      /\ \A i \in 1..Len(log) : L[i] = log[i]
      /\ L[Len(log) + 1] = e
  BY AggiuntaEvento
<1> HIDE DEF L
<1>2. ASSUME NEW i PROVE i \in Cambi(L) <=> i \in Cambi(log) \/ i = Len(log) + 1
  BY <1>1 DEF Cambi
<1> QED BY <1>2 DEF L

\* Coerente speaks of the state, the two dates and the timeline only.
LEMMA CoerenteStessaStoria ==
  ASSUME NEW p \in Pratica, NEW q \in Pratica, Coerente(p),
         q.stato = p.stato, q.inviata = p.inviata,
         q.completata = p.completata, q.eventi = p.eventi
  PROVE  Coerente(q)
<1>1. \A s : Passata(q, s) <=> Passata(p, s)
  BY DEF Passata
<1>2. Catena(q.eventi) /\ StatoSpiegato(q)
  BY DEF Coerente, StatoSpiegato
<1>3. Tappe(q) /\ DateSpiegate(q)
  BY <1>1 DEF Coerente, Tappe, DateSpiegate
<1>4. InvioUnico(q)
  BY <1>1 DEF Coerente, InvioUnico
<1> QED BY <1>2, <1>3, <1>4 DEF Coerente

\* An event without states (an assignment, a note) leaves a consistent
\* document consistent.
LEMMA CoerenteConEvento ==
  ASSUME NEW p \in Pratica, NEW q \in Pratica, Coerente(p),
         NEW e \in EventoPratica, e.a = Vuoto,
         q.stato = p.stato, q.inviata = p.inviata,
         q.completata = p.completata, q.eventi = Append(p.eventi, e)
  PROVE  Coerente(q)
<1> DEFINE log == p.eventi
           L == q.eventi
<1>1. log \in Seq(EventoPratica)
  BY DEF Pratica
<1>2. /\ Len(L) = Len(log) + 1 /\ Len(log) \in Nat
      /\ \A i \in 1..Len(log) : L[i] = log[i]
      /\ L[Len(log) + 1] = e
  BY <1>1, AggiuntaEvento
<1>3. Cambi(L) = Cambi(log)
  BY <1>1, CambiDopoNota
<1>4. Cambi(log) \subseteq 1..Len(log)
  BY DEF Cambi
<1>5. \A s \in StatoPratica : Passata(q, s) <=> Passata(p, s)
  BY <1>2, VuotoNonStato DEF Passata
<1>6. Catena(L)
  BY <1>2, <1>3, <1>4 DEF Coerente, Catena, UltimoPrima
<1>7. StatoSpiegato(q)
  BY <1>2, <1>3, <1>4 DEF Coerente, StatoSpiegato, UltimoPrima
<1>8. Tappe(q) /\ DateSpiegate(q)
  BY <1>5 DEF Coerente, Tappe, DateSpiegate, StatoPratica
<1>9. InvioUnico(q)
  BY <1>2, <1>3, <1>4, <1>5 DEF Coerente, InvioUnico, StatoPratica
<1> QED BY <1>6, <1>7, <1>8, <1>9 DEF Coerente

LEMMA ConDatiCorretta ==
  ASSUME NEW p \in Pratica, Coerente(p), NEW d \in Dati
  PROVE  ConDati(p, d) \in Pratica /\ Coerente(ConDati(p, d))
<1>1. ConDati(p, d) \in Pratica
  BY DEF ConDati, Pratica
<1> QED BY <1>1, CoerenteStessaStoria DEF ConDati, Pratica

LEMMA ConDocumentoCorretta ==
  ASSUME NEW p \in Pratica, Coerente(p), NEW d \in Documenti
  PROVE  ConDocumento(p, d) \in Pratica /\ Coerente(ConDocumento(p, d))
<1>1. ConDocumento(p, d) \in Pratica
  BY DEF ConDocumento, Pratica
<1> QED BY <1>1, CoerenteStessaStoria DEF ConDocumento, Pratica

LEMMA SenzaDocumentoCorretta ==
  ASSUME NEW p \in Pratica, Coerente(p), NEW d
  PROVE  SenzaDocumento(p, d) \in Pratica /\ Coerente(SenzaDocumento(p, d))
<1>1. SenzaDocumento(p, d) \in Pratica
  BY DEF SenzaDocumento, Pratica
<1> QED BY <1>1, CoerenteStessaStoria DEF SenzaDocumento, Pratica

LEMMA EventoTipato ==
  ASSUME NEW t \in TipoEvento, NEW da \in StatoPratica \cup {Vuoto},
         NEW a \in StatoPratica \cup {Vuoto}
  PROVE  Evento(t, da, a) \in EventoPratica
BY DEF Evento, EventoPratica

LEMMA ConOperatoreCorretta ==
  ASSUME NEW p \in Pratica, Coerente(p), NEW o \in Operatori
  PROVE  ConOperatore(p, o) \in Pratica /\ Coerente(ConOperatore(p, o))
<1> DEFINE e == Evento("ASSEGNAZIONE_OPERATORE", Vuoto, Vuoto)
<1>1. e \in EventoPratica /\ e.a = Vuoto
  BY EventoTipato DEF TipoEvento, Evento
<1>2. p.eventi \in Seq(EventoPratica)
  BY DEF Pratica
<1>3. Append(p.eventi, e) \in Seq(EventoPratica)
  BY <1>1, <1>2, AggiuntaEvento
<1> HIDE DEF e
<1>4. ConOperatore(p, o) = [p EXCEPT !.operatore = o, !.eventi = Append(p.eventi, e)]
  BY DEF ConOperatore, Pratica, e
<1>5. ConOperatore(p, o) \in Pratica
  BY <1>3, <1>4 DEF Pratica
<1> QED BY <1>1, <1>4, <1>5, CoerenteConEvento DEF Pratica

LEMMA ConNotaCorretta ==
  ASSUME NEW p \in Pratica, Coerente(p)
  PROVE  ConNota(p) \in Pratica /\ Coerente(ConNota(p))
<1> DEFINE e == Evento("NOTA_AGGIUNTA", Vuoto, Vuoto)
<1>1. e \in EventoPratica /\ e.a = Vuoto
  BY EventoTipato DEF TipoEvento, Evento
<1>2. p.eventi \in Seq(EventoPratica)
  BY DEF Pratica
<1>3. Append(p.eventi, e) \in Seq(EventoPratica)
  BY <1>1, <1>2, AggiuntaEvento
<1> HIDE DEF e
<1>4. ConNota(p) = [p EXCEPT !.eventi = Append(p.eventi, e)]
  BY DEF ConNota, Pratica, e
<1>5. ConNota(p) \in Pratica
  BY <1>3, <1>4 DEF Pratica
<1> QED BY <1>1, <1>4, <1>5, CoerenteConEvento DEF Pratica

\* A change the table allows extends a consistent history.
LEMMA ConStatoCorretta ==
  ASSUME NEW p \in Pratica, Coerente(p), NEW next, Transizione(p, next)
  PROVE  ConStato(p, next) \in Pratica /\ Coerente(ConStato(p, next))
<1> DEFINE e   == Evento("STATO_CAMBIATO", p.stato, next)
           q   == ConStato(p, next)
           log == p.eventi
           L   == q.eventi
           n   == Len(log) + 1
<1>1. /\ next \in StatoPratica \ {"BOZZA"} /\ p.stato \in StatoPratica
      /\ next # Vuoto /\ next \in allowedTransitions[p.stato]
  BY Tabella, VuotoNonStato DEF Transizione, Pratica
<1>2. e \in EventoPratica /\ e.tipo = "STATO_CAMBIATO" /\ e.da = p.stato /\ e.a = next
  BY <1>1, EventoTipato DEF TipoEvento, Evento
<1>3. log \in Seq(EventoPratica)
  BY DEF Pratica
<1>4. /\ Append(log, e) \in Seq(EventoPratica)
      /\ Len(Append(log, e)) = n /\ Len(log) \in Nat
      /\ \A i \in 1..Len(log) : Append(log, e)[i] = log[i]
      /\ Append(log, e)[n] = e
  BY <1>2, <1>3, AggiuntaEvento
<1>5. Cambi(Append(log, e)) = Cambi(log) \cup {n}
  BY <1>1, <1>2, <1>3, CambiDopoCambio
<1> HIDE DEF e
<1>6. q = [p EXCEPT !.stato = next, !.inviata = p.inviata \/ next = "INVIATA",
                    !.completata = p.completata \/ next = "COMPLETATA",
                    !.eventi = Append(log, e)]
  BY DEF ConStato, Pratica, e
<1>7. q \in Pratica
  BY <1>1, <1>4, <1>6 DEF Pratica
<1>8. /\ q.stato = next
      /\ q.inviata = (p.inviata \/ next = "INVIATA")
      /\ q.completata = (p.completata \/ next = "COMPLETATA")
      /\ q.eventi = Append(log, e)
  BY <1>6 DEF Pratica
<1> HIDE DEF q
<1>9. /\ Len(L) = n /\ n \in Nat /\ Len(log) \in Nat
      /\ \A i \in 1..Len(log) : L[i] = log[i]
      /\ L[n] = e /\ Cambi(L) = Cambi(log) \cup {n}
      /\ Cambi(log) \subseteq 1..Len(log)
  BY <1>4, <1>5, <1>8 DEF Cambi
<1>10. \A s : Passata(q, s) <=> Passata(p, s) \/ s = next
  BY <1>2, <1>9 DEF Passata
<1>11. PICK i0 \in Cambi(log) : UltimoPrima(log, n, i0) /\ log[i0].a = p.stato
  BY DEF Coerente, StatoSpiegato
<1> HIDE DEF L, log, n
<1>12. Catena(L)
  <2> SUFFICES ASSUME NEW j \in Cambi(L)
               PROVE  \/ j = 1 /\ L[j] = Evento("PRATICA_CREATA", Vuoto, "BOZZA")
                      \/ /\ L[j].tipo = "STATO_CAMBIATO"
                         /\ \E i \in Cambi(L) : UltimoPrima(L, j, i) /\ L[i].a = L[j].da
                         /\ L[j].da \in StatoPratica
                         /\ L[j].a \in allowedTransitions[L[j].da]
    BY DEF Catena
  <2>1. CASE j \in Cambi(log)
    <3>1. L[j] = log[j] /\ j < n
      BY <2>1, <1>9 DEF n
    <3>2. \/ j = 1 /\ log[j] = Evento("PRATICA_CREATA", Vuoto, "BOZZA")
          \/ /\ log[j].tipo = "STATO_CAMBIATO"
             /\ \E i \in Cambi(log) : UltimoPrima(log, j, i) /\ log[i].a = log[j].da
             /\ log[j].da \in StatoPratica
             /\ log[j].a \in allowedTransitions[log[j].da]
      BY <2>1 DEF Coerente, Catena, log
    <3>3. ASSUME NEW i \in Cambi(log), UltimoPrima(log, j, i)
          PROVE  UltimoPrima(L, j, i) /\ L[i] = log[i]
      BY <3>1, <3>3, <1>9, <2>1 DEF UltimoPrima, n
    <3> QED BY <3>1, <3>2, <3>3, <1>9
  <2>2. CASE j = n
    <3>1. UltimoPrima(L, n, i0) /\ L[i0] = log[i0]
      BY <1>9, <1>11 DEF UltimoPrima, n
    <3> QED BY <2>2, <3>1, <1>1, <1>2, <1>9, <1>11
  <2> QED BY <2>1, <2>2, <1>9
<1>13. StatoSpiegato(q)
  <2>1. UltimoPrima(L, n + 1, n)
    BY <1>9 DEF UltimoPrima, n
  <2> QED BY <2>1, <1>2, <1>8, <1>9 DEF StatoSpiegato, L
<1>14. DateSpiegate(q)
  BY <1>8, <1>10 DEF Coerente, DateSpiegate
<1>15. Tappe(q)
  BY <1>1, <1>8, <1>10 DEF Coerente, Tappe, allowedTransitions, successoriVisto, StatoPratica,
     DopoApprovazione, DopoPagamento
<1>16. InvioUnico(q)
  <2>1. next = "INVIATA" => p.stato = "BOZZA"
    BY <1>1 DEF allowedTransitions, successoriVisto, StatoPratica
  <2>2. next = "INVIATA" => \A i \in Cambi(log) : log[i].a # "INVIATA"
    BY <2>1, <1>9 DEF Coerente, InvioUnico, Passata, log
  <2>3. \A i, j \in Cambi(log) : L[i].a = "INVIATA" /\ L[j].a = "INVIATA" => i = j
    BY <1>9 DEF Coerente, InvioUnico, log
  <2>4. \A i, j \in Cambi(L) : L[i].a = "INVIATA" /\ L[j].a = "INVIATA" => i = j
    BY <2>2, <2>3, <1>2, <1>9
  <2> QED BY <2>4, <1>1, <1>8 DEF InvioUnico, L
<1> QED BY <1>7, <1>12, <1>13, <1>14, <1>15, <1>16 DEF Coerente, q, L

=============================================================================
