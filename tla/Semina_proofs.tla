------------------------------ MODULE Semina_proofs ------------------------------
(***************************************************************************)
(* The seeding of the demo pratiche, the starts of the server and the      *)
(* script seed_demo_data, for any number of processes that start, stop and *)
(* overlap, any target, any seeds and any set of ids.                      *)
(***************************************************************************)
EXTENDS Semina, PraticaDoc_proofs, FiniteSetTheorems

-----------------------------------------------------------------------------
(* The plans.                                                              *)

\* A sequence of states that the table allows, from a draft on.
Ammesso(s) ==
  /\ s \in Seq(StatoPratica)
  /\ s # << >> => s[1] \in allowedTransitions["BOZZA"]
  /\ \A j \in 1..Len(s) - 1 : s[j + 1] \in allowedTransitions[s[j]]

LEMMA AmmessoVuoto == Ammesso(<< >>)
BY DEF Ammesso

\* A plan grows by a state that the table allows after its last one.
LEMMA AmmessoAppend ==
  ASSUME NEW s, Ammesso(s), NEW v \in StatoPratica,
         IF s = << >> THEN v \in allowedTransitions["BOZZA"]
                      ELSE v \in allowedTransitions[s[Len(s)]]
  PROVE  /\ Ammesso(Append(s, v))
         /\ Append(s, v) # << >>
         /\ Append(s, v)[Len(Append(s, v))] = v
<1> USE DEF Ammesso
<1>1. s \in Seq(StatoPratica) /\ Len(s) \in Nat
  OBVIOUS
<1>2. /\ Append(s, v) \in Seq(StatoPratica)
      /\ Len(Append(s, v)) = Len(s) + 1
      /\ Append(s, v)[Len(s) + 1] = v
      /\ \A j \in 1..Len(s) : Append(s, v)[j] = s[j]
  BY <1>1
<1> DEFINE t == Append(s, v)
<1>3. s = << >> <=> Len(s) = 0
  BY <1>1
<1> HIDE DEF t
<1>4. t[1] \in allowedTransitions["BOZZA"]
  BY <1>1, <1>2, <1>3 DEF t
<1>5. ASSUME NEW j \in 1..Len(t) - 1
      PROVE  t[j + 1] \in allowedTransitions[t[j]]
  BY <1>1, <1>2, <1>3, <1>5 DEF t
<1> QED BY <1>1, <1>2, <1>4, <1>5 DEF t

\* The moves that the plans are made of.
LEMMA MosseDeiPiani ==
  /\ {"INVIATA", "ANNULLATA"} \subseteq allowedTransitions["BOZZA"]
  /\ {"IN_LAVORAZIONE", "RIFIUTATA"} \subseteq allowedTransitions["INVIATA"]
  /\ {"INTEGRAZIONE_RICHIESTA", "SOSPESA", "APPROVATA"}
       \subseteq allowedTransitions["IN_LAVORAZIONE"]
  /\ "IN_LAVORAZIONE" \in allowedTransitions["INTEGRAZIONE_RICHIESTA"]
  /\ "ATTENDE_PAGAMENTO" \in allowedTransitions["APPROVATA"]
  /\ "PAGAMENTO_RICEVUTO" \in allowedTransitions["ATTENDE_PAGAMENTO"]
  /\ "VISTO_IN_ELABORAZIONE" \in allowedTransitions["PAGAMENTO_RICEVUTO"]
  /\ "VISTO_EMESSO" \in allowedTransitions["VISTO_IN_ELABORAZIONE"]
  /\ "COMPLETATA" \in allowedTransitions["VISTO_EMESSO"]
BY DEF allowedTransitions, successoriVisto, StatoPratica

\* A plan that ends in state v.
Porta(s, v) == Ammesso(s) /\ s # << >> /\ s[Len(s)] = v

LEMMA PortaAppend ==
  ASSUME NEW s, NEW u, Porta(s, u), NEW v \in StatoPratica, v \in allowedTransitions[u]
  PROVE  Porta(Append(s, v), v)
BY AmmessoAppend DEF Porta

LEMMA PianiAmmessi ==
  /\ Len(plans) = 12
  /\ \A i \in 1..12 : Ammesso(plans[i])
<1> DEFINE I == Append(<< >>, "INVIATA")
           L == Append(I, "IN_LAVORAZIONE")
           R == Append(L, "INTEGRAZIONE_RICHIESTA")
           A == Append(L, "APPROVATA")
           T == Append(A, "ATTENDE_PAGAMENTO")
           P == Append(T, "PAGAMENTO_RICEVUTO")
           V == Append(P, "VISTO_IN_ELABORAZIONE")
           E == Append(V, "VISTO_EMESSO")
           F == Append(E, "COMPLETATA")
           RL == Append(R, "IN_LAVORAZIONE")
<1>0. {"INVIATA", "ANNULLATA", "RIFIUTATA", "SOSPESA", "IN_LAVORAZIONE",
       "INTEGRAZIONE_RICHIESTA", "APPROVATA", "ATTENDE_PAGAMENTO", "PAGAMENTO_RICEVUTO",
       "VISTO_IN_ELABORAZIONE", "VISTO_EMESSO", "COMPLETATA"} \subseteq StatoPratica
  BY DEF StatoPratica
<1>1. Porta(I, "INVIATA") /\ Porta(Append(<< >>, "ANNULLATA"), "ANNULLATA")
  BY <1>0, AmmessoVuoto, AmmessoAppend, MosseDeiPiani DEF Porta
<1>2. Porta(L, "IN_LAVORAZIONE") /\ Porta(Append(I, "RIFIUTATA"), "RIFIUTATA")
  <2> HIDE DEF I
  <2> QED BY <1>0, <1>1, PortaAppend, MosseDeiPiani
<1>3. /\ Porta(R, "INTEGRAZIONE_RICHIESTA") /\ Porta(A, "APPROVATA")
      /\ Porta(Append(L, "SOSPESA"), "SOSPESA")
  <2> HIDE DEF L
  <2> QED BY <1>0, <1>2, PortaAppend, MosseDeiPiani
<1>4. Porta(T, "ATTENDE_PAGAMENTO") /\ Porta(RL, "IN_LAVORAZIONE")
  <2> HIDE DEF A, R
  <2> QED BY <1>0, <1>3, PortaAppend, MosseDeiPiani
<1>5. Porta(P, "PAGAMENTO_RICEVUTO") /\ Porta(Append(RL, "APPROVATA"), "APPROVATA")
  <2> HIDE DEF T, RL
  <2> QED BY <1>0, <1>4, PortaAppend, MosseDeiPiani
<1>6. Porta(V, "VISTO_IN_ELABORAZIONE")
  <2> HIDE DEF P
  <2> QED BY <1>0, <1>5, PortaAppend, MosseDeiPiani
<1>7. Porta(E, "VISTO_EMESSO")
  <2> HIDE DEF V
  <2> QED BY <1>0, <1>6, PortaAppend, MosseDeiPiani
<1>8. Porta(F, "COMPLETATA")
  <2> HIDE DEF E
  <2> QED BY <1>0, <1>7, PortaAppend, MosseDeiPiani
<1>9. /\ PianoPagamento = T
      /\ PianoVisto = E
  <2>1. PianoPagamento = T
    BY DEF PianoPagamento
  <2>2. PianoVisto = E
    BY <2>1 DEF PianoVisto, PianoPagamento
  <2> QED BY <2>1, <2>2
<1>10. /\ Len(plans) = 12
       /\ plans[1] = << >> /\ plans[2] = I /\ plans[3] = L /\ plans[4] = R
       /\ plans[5] = Append(L, "SOSPESA") /\ plans[6] = Append(I, "RIFIUTATA")
       /\ plans[7] = Append(<< >>, "ANNULLATA")
       /\ plans[8] = PianoPagamento /\ plans[9] = Append(PianoVisto, "COMPLETATA")
       /\ plans[10] = PianoVisto /\ plans[11] = Append(RL, "APPROVATA") /\ plans[12] = A
  BY DEF plans
<1> HIDE DEF I, L, R, A, T, P, V, E, F, RL
<1>11. /\ Ammesso(plans[1]) /\ Ammesso(plans[2]) /\ Ammesso(plans[3]) /\ Ammesso(plans[4])
       /\ Ammesso(plans[5]) /\ Ammesso(plans[6]) /\ Ammesso(plans[7]) /\ Ammesso(plans[8])
  BY <1>1, <1>2, <1>3, <1>4, <1>9, <1>10, AmmessoVuoto DEF Porta
<1>12. /\ Ammesso(plans[9]) /\ Ammesso(plans[10]) /\ Ammesso(plans[11]) /\ Ammesso(plans[12])
  BY <1>3, <1>5, <1>7, <1>8, <1>9, <1>10 DEF Porta, F
<1>13. \A i \in 1..12 : i \in 1..8 \/ i \in 9..12
  OBVIOUS
<1>14. \A i \in 1..8 : i = 1 \/ i = 2 \/ i = 3 \/ i = 4 \/ i = 5 \/ i = 6 \/ i = 7 \/ i = 8
  OBVIOUS
<1>15. \A i \in 9..12 : i = 9 \/ i = 10 \/ i = 11 \/ i = 12
  OBVIOUS
<1>16. \A i \in 1..12 : Ammesso(plans[i])
  BY <1>11, <1>12, <1>13, <1>14, <1>15, Zenon
<1> QED BY <1>10, <1>16
-----------------------------------------------------------------------------
(* The type of the state, and what each step of a process still has to do. *)

Passi == {"spento", "elenca", "crea", "primo", "muove", "annota", "documenta", "allega",
          "attivo"}

\* The steps in which a process reads a document and replaces it.
PassiLettura == {"primo", "muove", "annota", "allega"}

TipiPratiche ==
  /\ DOMAIN pratiche \subseteq PraticaId
  /\ pratiche \in [DOMAIN pratiche -> PraticaDemo]
  /\ IsFiniteSet(DOMAIN pratiche)

TipiProcessi ==
  /\ passo \in [Processi -> Passi]
  /\ mancano \in [Processi -> 0..Target]
  /\ corrente \in [Processi -> PraticaId \cup {Nessuna}]
  /\ resto \in [Processi -> Seq(StatoPratica)]
  /\ files \in [Processi -> SUBSET PraticaId]
  /\ lettaMale \in BOOLEAN
  /\ \A p \in Processi :
       /\ resto[p] # << >> => passo[p] \in {"primo", "muove", "annota"}
       /\ passo[p] \in {"primo", "muove"} => resto[p] # << >>
       /\ passo[p] \in PassiLettura => corrente[p] # Nessuna
       /\ passo[p] \in {"spento", "elenca"} => mancano[p] = 0

\* What a process has read is of the pratica it is at, and what it is to store
\* differs in what its step changes.
Pendente(p) ==
  /\ passo[p] \in PassiLettura /\ lette[p].id = corrente[p]
  /\ passo[p] \in {"primo", "muove"} =>
       lette[p].scrive.stato = Head(resto[p]) /\ lette[p].scrive.stato # lette[p].letto.stato
  /\ passo[p] \in {"annota", "allega"} => lette[p].scrive.stato = lette[p].letto.stato
  /\ lette[p].scrive.docs =
       IF passo[p] = "allega" THEN lette[p].letto.docs + 1 ELSE lette[p].letto.docs

TipiLette ==
  /\ DOMAIN lette \subseteq Processi \cup Gestori
  /\ lette \in [DOMAIN lette -> Lettura]
  /\ \A p \in Processi : p \in DOMAIN lette => Pendente(p)
  /\ \A h \in Gestori : h \in DOMAIN lette => lette[h].scrive.docs <= lette[h].letto.docs

\* TypeOK, and what it leaves out: the states of a plan are states, the
\* database is finite, a process that has not read the list, or has stopped, has
\* nothing to create, and what is between a read and a replacement.
Tipi == TipiPratiche /\ TipiProcessi /\ TipiLette

\* What is left of a plan after its first state.
LEMMA Coda ==
  ASSUME NEW T, NEW s \in Seq(T), s # << >>
  PROVE  /\ Len(s) \in Nat \ {0} /\ Head(s) = s[1]
         /\ Tail(s) \in Seq(T) /\ Len(Tail(s)) = Len(s) - 1
         /\ \A j \in 1..Len(s) - 1 : Tail(s)[j] = s[j + 1]
         /\ Len(s) = 1 <=> Tail(s) = << >>
<1>1. Len(s) \in Nat \ {0} /\ Tail(s) \in Seq(T) /\ Len(Tail(s)) = Len(s) - 1
  OBVIOUS
<1>2. Tail(s) = << >> <=> Len(Tail(s)) = 0
  BY <1>1
<1>3. \A j \in 1..Len(s) - 1 : Tail(s)[j] = s[j + 1]
  OBVIOUS
<1> QED BY <1>1, <1>2, <1>3

\* A pratica is typed when its fields are.
LEMMA TipiPratica ==
  /\ \A r \in PraticaDemo, g \in {"si", "interrotta", "altrui", "finita"} :
       [r EXCEPT !.segue = g] \in PraticaDemo
  /\ \A i \in 0..Len(plans), g \in {"si", "finita"} :
       [stato |-> "BOZZA", docs |-> 0, piano |-> i, perse |-> {}, segue |-> g] \in PraticaDemo
BY DEF PraticaDemo, StatoPratica

LEMMA TipiTypeOK == Tipi => TypeOK
BY DEF Tipi, TipiPratiche, TipiProcessi, TipiLette, Pendente, PassiLettura, TypeOK, Passi

LEMMA TipiInit == Init => Tipi
<1> SUFFICES ASSUME Init PROVE Tipi
  OBVIOUS
<1>1. TipiPratiche
  BY FS_EmptySet DEF Init, TipiPratiche
<1>2. 0 \in 0..Target
  BY DemoAssumption
<1>3. resto \in [Processi -> Seq(StatoPratica)] /\ \A p \in Processi : resto[p] = << >>
  BY DEF Init
<1>4. TipiProcessi
  BY <1>2, <1>3 DEF Init, Passi, PassiLettura, TipiProcessi
<1>5. TipiLette
  BY DEF Init, TipiLette
<1> QED BY <1>1, <1>4, <1>5 DEF Tipi

\* Between a read and a replacement of process p, or of a handler p, nothing
\* of the others changes.
LEMMA TipiLetteSenza ==
  ASSUME TipiLette, NEW p, lette' = Senza(lette, p) \/ (lette' = lette /\ p \notin DOMAIN lette),
         \A q \in Processi : q # p => /\ passo'[q] = passo[q] /\ corrente'[q] = corrente[q]
                                      /\ resto'[q] = resto[q]
  PROVE  /\ TipiLette' /\ DOMAIN lette' = DOMAIN lette \ {p}
         /\ \A w \in DOMAIN lette' : lette'[w] = lette[w]
<1>1. /\ DOMAIN lette' = DOMAIN lette \ {p} /\ lette' \in [DOMAIN lette' -> Lettura]
      /\ \A w \in DOMAIN lette' : lette'[w] = lette[w]
  <2>1. lette \in [DOMAIN lette -> Lettura]
    BY DEF TipiLette
  <2>2. CASE lette' = Senza(lette, p)
    <3>1. /\ DOMAIN Senza(lette, p) = DOMAIN lette \ {p}
          /\ \A w \in DOMAIN lette : w # p => Senza(lette, p)[w] = lette[w]
      BY MappaSenza
    <3>2. Senza(lette, p) \in [DOMAIN Senza(lette, p) -> Lettura]
      BY <2>1, MappaSenzaTipo
    <3> QED BY <2>2, <3>1, <3>2
  <2>3. CASE lette' = lette /\ p \notin DOMAIN lette
    BY <2>1, <2>3
  <2> QED BY <2>2, <2>3
<1>2. \A q \in Processi : q \in DOMAIN lette' => Pendente(q)'
  BY <1>1 DEF TipiLette, Pendente
<1> QED BY <1>1, <1>2 DEF TipiLette

\* A read that leaves the rest as it is.
LEMMA TipiLegge ==
  ASSUME Tipi, NEW w \in Processi \cup Gestori, NEW x \in DOMAIN pratiche,
         NEW stato \in StatoPratica, NEW docs \in Nat,
         Legge(w, x, stato, docs),
         UNCHANGED <<pratiche, passo, mancano, corrente, resto, files, lettaMale>>,
         w \in Gestori => docs <= pratiche[x].docs,
         w \in Processi =>
           /\ passo[w] \in PassiLettura /\ x = corrente[w]
           /\ passo[w] \in {"primo", "muove"} => stato = Head(resto[w]) /\ stato # pratiche[x].stato
           /\ passo[w] \in {"annota", "allega"} => stato = pratiche[x].stato
           /\ docs = IF passo[w] = "allega" THEN pratiche[x].docs + 1 ELSE pratiche[x].docs
  PROVE  Tipi'
<1> DEFINE l == [id     |-> x,
                 letto  |-> [stato |-> pratiche[x].stato, docs |-> pratiche[x].docs],
                 scrive |-> [stato |-> stato, docs |-> docs]]
<1>1. lette' = Con(lette, w, l)
  BY DEF Legge
<1>2. /\ l.id = x /\ l.letto.stato = pratiche[x].stato /\ l.letto.docs = pratiche[x].docs
      /\ l.scrive.stato = stato /\ l.scrive.docs = docs
  OBVIOUS
<1>3. l \in Lettura
  <2>1. x \in PraticaId /\ pratiche[x] \in PraticaDemo
    BY DEF Tipi, TipiPratiche
  <2>2. pratiche[x].stato \in StatoPratica /\ pratiche[x].docs \in Nat
    BY <2>1 DEF PraticaDemo
  <2> QED BY <2>1, <2>2 DEF Lettura, Documento
<1> HIDE DEF l
<1>4. /\ DOMAIN lette' = DOMAIN lette \cup {w} /\ lette'[w] = l
      /\ \A v \in DOMAIN lette : v # w => lette'[v] = lette[v]
  <2>1. /\ DOMAIN Con(lette, w, l) = DOMAIN lette \cup {w} /\ Con(lette, w, l)[w] = l
        /\ \A v \in DOMAIN lette : v # w => Con(lette, w, l)[v] = lette[v]
    BY DEF Con
  <2> QED BY <1>1, <2>1
<1>5. lette' \in [DOMAIN lette' -> Lettura]
  <2>1. lette \in [DOMAIN lette -> Lettura]
    BY DEF Tipi, TipiLette
  <2> QED BY <1>1, <1>3, <2>1, MappaConTipo
<1>6. ASSUME NEW q \in Processi, q \in DOMAIN lette' PROVE Pendente(q)'
  <2>1. CASE q = w
    BY <1>2, <1>4, <2>1 DEF Pendente
  <2>2. CASE q # w
    <3>1. Pendente(q) /\ lette'[q] = lette[q]
      BY <1>4, <1>6, <2>2 DEF Tipi, TipiLette
    <3> QED BY <3>1 DEF Pendente
  <2> QED BY <2>1, <2>2
<1>7. ASSUME NEW h \in Gestori, h \in DOMAIN lette'
      PROVE  lette'[h].scrive.docs <= lette'[h].letto.docs
  <2>1. CASE h = w
    BY <1>2, <1>4, <2>1
  <2>2. CASE h # w
    BY <1>4, <1>7, <2>2 DEF Tipi, TipiLette
  <2> QED BY <2>1, <2>2
<1>8. TipiLette'
  BY <1>4, <1>5, <1>6, <1>7 DEF Tipi, TipiLette
<1> QED BY <1>8 DEF Tipi, TipiPratiche, TipiProcessi

\* What a replacement leaves of each pratica.
LEMMA SostituisceEffetto ==
  ASSUME Tipi, NEW w, Sostituisce(w)
  PROVE  /\ w \in DOMAIN lette /\ lette[w] \in Lettura
         /\ DOMAIN pratiche' = DOMAIN pratiche /\ TipiPratiche'
         /\ lette' = Senza(lette, w)
         /\ \A x \in DOMAIN pratiche :
              IF x # lette[w].id
              THEN pratiche'[x] = pratiche[x]
              ELSE /\ pratiche'[x].stato = lette[w].scrive.stato
                   /\ pratiche'[x].docs = lette[w].scrive.docs
                   /\ pratiche'[x].piano = pratiche[x].piano
                   /\ pratiche'[x].segue = SegueDopo(w, pratiche[x])
                   /\ pratiche'[x].perse = pratiche[x].perse \cup Perde(w, pratiche[x])
<1>1. w \in DOMAIN lette /\ lette[w] \in Lettura /\ DOMAIN pratiche' = DOMAIN pratiche
      /\ lette' = Senza(lette, w)
  BY DEF Sostituisce, Tipi, TipiLette
<1>2. ASSUME NEW x \in DOMAIN pratiche, x # lette[w].id
      PROVE  pratiche'[x] = pratiche[x]
  BY <1>2 DEF Sostituisce
<1>3. ASSUME NEW x \in DOMAIN pratiche, x = lette[w].id
      PROVE  pratiche'[x] = [stato |-> lette[w].scrive.stato, docs |-> lette[w].scrive.docs,
                             piano |-> pratiche[x].piano,
                             segue |-> SegueDopo(w, pratiche[x]),
                             perse |-> pratiche[x].perse \cup Perde(w, pratiche[x])]
  BY <1>3 DEF Sostituisce
<1>4. ASSUME NEW x \in DOMAIN pratiche PROVE pratiche'[x] \in PraticaDemo
  <2>1. pratiche[x] \in PraticaDemo
    BY DEF Tipi, TipiPratiche
  <2>2. lette[w].scrive.stato \in StatoPratica /\ lette[w].scrive.docs \in Nat
    BY <1>1 DEF Lettura, Documento
  <2>3. SegueDopo(w, pratiche[x]) \in {"si", "interrotta", "altrui", "finita"}
    BY <2>1 DEF SegueDopo, PraticaDemo
  <2>4. Perde(w, pratiche[x]) \subseteq {"stato", "docs"}
    BY DEF Perde
  <2>5. CASE x = lette[w].id
    <3>1. pratiche[x].piano \in 0..Len(plans) /\ pratiche[x].perse \subseteq {"stato", "docs"}
      BY <2>1 DEF PraticaDemo
    <3>2. pratiche[x].perse \cup Perde(w, pratiche[x]) \in SUBSET {"stato", "docs"}
      BY <2>4, <3>1
    <3> DEFINE st == lette[w].scrive.stato
               dc == lette[w].scrive.docs
               pi == pratiche[x].piano
               sg == SegueDopo(w, pratiche[x])
               pe == pratiche[x].perse \cup Perde(w, pratiche[x])
    <3>3. pratiche'[x] = [stato |-> st, docs |-> dc, piano |-> pi, segue |-> sg, perse |-> pe]
      BY <1>3, <2>5
    <3>4. /\ st \in StatoPratica /\ dc \in Nat /\ pi \in 0..Len(plans)
          /\ sg \in {"si", "interrotta", "altrui", "finita"} /\ pe \in SUBSET {"stato", "docs"}
      BY <2>2, <2>3, <3>1, <3>2
    <3> HIDE DEF st, dc, pi, sg, pe
    <3> QED BY <3>3, <3>4 DEF PraticaDemo
  <2> QED BY <1>2, <2>1, <2>5
<1>5. TipiPratiche'
  <2>1. pratiche' \in [DOMAIN pratiche' -> PraticaDemo]
    BY <1>1, <1>4 DEF Sostituisce
  <2> QED BY <1>1, <2>1 DEF Tipi, TipiPratiche
<1> QED BY <1>1, <1>2, <1>3, <1>5

\* A replacement does not lose what it does not say it lost.
LEMMA PerdeNulla ==
  ASSUME NEW w, NEW d
  PROVE  /\ "stato" \notin d.perse \cup Perde(w, d) =>
              "stato" \notin d.perse /\ d.stato = lette[w].letto.stato
         /\ "docs" \notin d.perse \cup Perde(w, d) =>
              "docs" \notin d.perse /\ d.docs = lette[w].letto.docs
BY DEF Perde

LEMMA TipiConta ==
  ASSUME Tipi, NEW p \in Processi, passo[p] = "elenca", lettaMale' \in BOOLEAN,
         NEW S \in SUBSET DOMAIN pratiche, Conta(p, S)
  PROVE  Tipi'
<1>1. Cardinality(S) \in Nat
  BY FS_Subset, FS_CardinalityType DEF Tipi, TipiPratiche
<1>2. needed(Cardinality(S)) \in 0..Target
  BY <1>1, DemoAssumption DEF needed
<1>3. S \subseteq PraticaId
  BY DEF Tipi, TipiPratiche
<1>4. /\ mancano' = [mancano EXCEPT ![p] = needed(Cardinality(S))]
      /\ UNCHANGED <<pratiche, corrente, resto, lette>>
  BY DEF Conta
<1>5. p \notin DOMAIN lette
  BY DEF Tipi, TipiLette, Pendente, PassiLettura
<1>6. TipiProcessi'
  <2>1. CASE Cardinality(S) >= Target
    BY <1>2, <1>3, <1>4, <2>1 DEF Tipi, TipiProcessi, Conta, Va, Passi, PassiLettura
  <2>2. CASE ~(Cardinality(S) >= Target)
    BY <1>2, <1>3, <1>4, <2>2 DEF Tipi, TipiProcessi, Conta, Va, Passi, PassiLettura
  <2> QED BY <2>1, <2>2
<1>7. TipiLette'
  <2>1. \A q \in Processi : q # p => passo'[q] = passo[q]
    BY DEF Conta, Va, Tipi, TipiProcessi
  <2>2. TipiLette
    BY DEF Tipi
  <2> QED BY <1>4, <1>5, <2>1, <2>2, TipiLetteSenza
<1> QED BY <1>4, <1>6, <1>7 DEF Tipi, TipiPratiche

\* A step that adds a pratica to the collection.
LEMMA TipiNuova ==
  ASSUME TipiPratiche, NEW x \in PraticaId, NEW v \in PraticaDemo,
         pratiche' = Con(pratiche, x, v)
  PROVE  TipiPratiche'
<1>1. DOMAIN pratiche' = DOMAIN pratiche \cup {x}
  BY MappaCon
<1>2. IsFiniteSet(DOMAIN pratiche')
  BY <1>1, FS_AddElement DEF TipiPratiche
<1>3. pratiche' \in [DOMAIN pratiche' -> PraticaDemo]
  BY MappaConTipo DEF TipiPratiche
<1> QED BY <1>1, <1>2, <1>3 DEF TipiPratiche

LEMMA TipiCrea ==
  ASSUME Tipi, NEW p \in Processi, Crea(p)
  PROVE  Tipi'
<1>1. PICK x \in Nuovi, i \in Indici :
       /\ pratiche' = Con(pratiche, x,
            [stato |-> "BOZZA", docs |-> 0, piano |-> i, perse |-> {},
             segue |-> IF plans[i] = << >> THEN "finita" ELSE "si"])
       /\ corrente' = [corrente EXCEPT ![p] = x]
       /\ resto' = [resto EXCEPT ![p] = plans[i]]
       /\ Va(p, IF plans[i] = << >> THEN "annota" ELSE "primo")
  BY DEF Crea
<1>2. x \in PraticaId /\ x # Nessuna
  BY DemoAssumption DEF Nuovi
<1>3. i \in 1..12 /\ plans[i] \in Seq(StatoPratica)
  <2>1. DOMAIN plans = 1..12
    BY DEF plans
  <2> QED BY <2>1, DemoAssumption, PianiAmmessi DEF Ammesso
<1>4. TipiPratiche'
  <2> DEFINE v == [stato |-> "BOZZA", docs |-> 0, piano |-> i, perse |-> {},
                   segue |-> IF plans[i] = << >> THEN "finita" ELSE "si"]
  <2>1. v \in PraticaDemo
    <3>1. i \in 0..Len(plans) /\ (IF plans[i] = << >> THEN "finita" ELSE "si") \in {"si", "finita"}
      BY <1>3, PianiAmmessi
    <3> HIDE DEF PraticaDemo
    <3> QED BY <3>1, TipiPratica
  <2> HIDE DEF v
  <2>2. pratiche' = Con(pratiche, x, v)
    BY <1>1 DEF v
  <2> QED BY <2>1, <2>2, <1>2, TipiNuova DEF Tipi
<1>5. mancano[p] - 1 \in 0..Target /\ mancano' = [mancano EXCEPT ![p] = @ - 1]
  BY DemoAssumption DEF Crea, Prossima, Tipi, TipiProcessi
<1>6. files' = files /\ lettaMale' = lettaMale /\ lette' = lette /\ passo[p] = "crea"
  BY DEF Crea
<1>7. TipiProcessi'
  <2>1. CASE plans[i] = << >>
    <3>1. passo' = [passo EXCEPT ![p] = "annota"]
      BY <1>1, <2>1 DEF Va
    <3> QED BY <3>1, <1>1, <1>2, <1>3, <1>5, <1>6, <2>1
            DEF Tipi, TipiProcessi, Passi, PassiLettura
  <2>2. CASE plans[i] # << >>
    <3>1. passo' = [passo EXCEPT ![p] = "primo"]
      BY <1>1, <2>2 DEF Va
    <3> QED BY <3>1, <1>1, <1>2, <1>3, <1>5, <1>6, <2>2
            DEF Tipi, TipiProcessi, Passi, PassiLettura
  <2> QED BY <2>1, <2>2
<1>8. TipiLette'
  <2>1. p \notin DOMAIN lette
    BY <1>6 DEF Tipi, TipiLette, Pendente, PassiLettura
  <2>2. \A q \in Processi : q # p => /\ passo'[q] = passo[q] /\ corrente'[q] = corrente[q]
                                     /\ resto'[q] = resto[q]
    BY <1>1 DEF Va, Tipi, TipiProcessi
  <2>3. TipiLette
    BY DEF Tipi
  <2> QED BY <1>6, <2>1, <2>2, <2>3, TipiLetteSenza
<1> QED BY <1>4, <1>7, <1>8 DEF Tipi

\* The table never leads from a state to itself.
LEMMA Irriflessiva == \A s \in StatoPratica : s \notin allowedTransitions[s]
BY DEF allowedTransitions, successoriVisto, StatoPratica

LEMMA TipiMuove ==
  ASSUME Tipi, NEW p \in Processi, MuoveLegge(p) \/ Muove(p) \/ MuoveFallisce(p)
  PROVE  Tipi'
<1>1. /\ passo[p] \in {"primo", "muove"} /\ resto[p] # << >> /\ resto[p] \in Seq(StatoPratica)
      /\ Head(resto[p]) \in StatoPratica
  <2>1. /\ passo[p] \in {"primo", "muove"} /\ resto[p] # << >> /\ resto[p] \in Seq(StatoPratica)
    BY DEF MuoveLegge, Muove, MuoveFallisce, Tipi, TipiProcessi
  <2> QED BY <2>1
<1>2. CASE MuoveLegge(p)
  <2> DEFINE x == corrente[p]
  <2>1. /\ x \in DOMAIN pratiche /\ Transizione(pratiche[x], Head(resto[p]))
        /\ Legge(p, x, Head(resto[p]), pratiche[x].docs)
        /\ UNCHANGED <<pratiche, passo, mancano, corrente, resto, files, lettaMale>>
    BY <1>2 DEF MuoveLegge
  <2>2. pratiche[x].stato \in StatoPratica /\ pratiche[x].docs \in Nat
    BY <2>1 DEF Tipi, TipiPratiche, PraticaDemo
  <2>3. Head(resto[p]) # pratiche[x].stato
    BY <2>1, <2>2, Irriflessiva DEF Transizione
  <2>4. p \notin Gestori
    BY DemoAssumption
  <2> HIDE DEF x
  <2>5. x = corrente[p]
    BY DEF x
  <2> QED BY <1>1, <2>1, <2>2, <2>3, <2>4, <2>5, TipiLegge DEF PassiLettura
<1>3. CASE Muove(p)
  <2>1. /\ Sostituisce(p) /\ resto' = [resto EXCEPT ![p] = Tail(@)]
        /\ passo' = [passo EXCEPT ![p] = IF passo[p] = "primo" \/ Len(resto[p]) = 1
                                         THEN "annota" ELSE "muove"]
        /\ UNCHANGED <<mancano, corrente, files, lettaMale>>
    BY <1>3 DEF Muove, Va
  <2>2. TipiPratiche' /\ lette' = Senza(lette, p)
    BY <2>1, SostituisceEffetto
  <2>3. TipiLette'
    <3>1. \A q \in Processi : q # p => /\ passo'[q] = passo[q] /\ corrente'[q] = corrente[q]
                                       /\ resto'[q] = resto[q]
      BY <2>1 DEF Tipi, TipiProcessi
    <3>2. TipiLette
      BY DEF Tipi
    <3> QED BY <2>2, <3>1, <3>2, TipiLetteSenza
  <2>4. TipiProcessi'
    <3>1. Tail(resto[p]) \in Seq(StatoPratica) /\ (Tail(resto[p]) = << >> <=> Len(resto[p]) = 1)
      BY <1>1, Coda
    <3> QED BY <1>1, <2>1, <3>1 DEF Tipi, TipiProcessi, Passi, PassiLettura
  <2> QED BY <2>2, <2>3, <2>4 DEF Tipi
<1>4. CASE MuoveFallisce(p)
  <2>1. /\ lette' = Senza(lette, p) /\ resto' = [resto EXCEPT ![p] = << >>]
        /\ passo' = [passo EXCEPT ![p] = IF passo[p] = "primo" THEN "crea" ELSE "annota"]
        /\ UNCHANGED <<mancano, corrente, files, lettaMale>>
    BY <1>4 DEF MuoveFallisce, Va
  <2>2. TipiPratiche'
    <3>1. DOMAIN pratiche' = DOMAIN pratiche
          /\ \A x \in DOMAIN pratiche : \/ pratiche'[x] = pratiche[x]
                                        \/ pratiche'[x] = [pratiche[x] EXCEPT !.segue = "interrotta"]
      BY <1>4 DEF MuoveFallisce
    <3>2. \A x \in DOMAIN pratiche : pratiche'[x] \in PraticaDemo
      BY <3>1, TipiPratica DEF Tipi, TipiPratiche
    <3>3. pratiche' \in [DOMAIN pratiche' -> PraticaDemo]
      BY <1>4, <3>1, <3>2 DEF MuoveFallisce
    <3> QED BY <3>1, <3>3 DEF Tipi, TipiPratiche
  <2>3. TipiLette'
    <3>1. \A q \in Processi : q # p => /\ passo'[q] = passo[q] /\ corrente'[q] = corrente[q]
                                       /\ resto'[q] = resto[q]
      BY <2>1 DEF Tipi, TipiProcessi
    <3>2. TipiLette
      BY DEF Tipi
    <3> QED BY <2>1, <3>1, <3>2, TipiLetteSenza
  <2>4. TipiProcessi'
    <3>1. << >> \in Seq(StatoPratica)
      OBVIOUS
    <3> QED BY <1>1, <2>1, <3>1 DEF Tipi, TipiProcessi, Passi, PassiLettura
  <2> QED BY <2>2, <2>3, <2>4 DEF Tipi
<1> QED BY <1>2, <1>3, <1>4

\* A replacement, or its failure, by a writer that then goes on.
LEMMA TipiSostituisce ==
  ASSUME Tipi, NEW w, Sostituisce(w) \/ Rinuncia(w), TipiProcessi',
         \A q \in Processi : q # w => /\ passo'[q] = passo[q] /\ corrente'[q] = corrente[q]
                                      /\ resto'[q] = resto[q]
  PROVE  Tipi'
<1>1. TipiPratiche' /\ lette' = Senza(lette, w)
  <2>1. CASE Sostituisce(w)
    BY <2>1, SostituisceEffetto
  <2>2. CASE Rinuncia(w)
    BY <2>2 DEF Rinuncia, Tipi, TipiPratiche
  <2> QED BY <2>1, <2>2
<1>2. TipiLette
  BY DEF Tipi
<1>3. TipiLette'
  BY <1>1, <1>2, TipiLetteSenza
<1> QED BY <1>1, <1>3 DEF Tipi

LEMMA TipiAnnota ==
  ASSUME Tipi, NEW p \in Processi, AnnotaLegge(p) \/ Annota(p) \/ VersoFile(p)
  PROVE  Tipi'
<1>1. passo[p] = "annota"
  BY DEF AnnotaLegge, Annota, VersoFile
<1>2. CASE AnnotaLegge(p)
  <2> DEFINE x == corrente[p]
  <2>1. /\ x \in DOMAIN pratiche
        /\ Legge(p, x, pratiche[x].stato, pratiche[x].docs)
        /\ UNCHANGED <<pratiche, passo, mancano, corrente, resto, files, lettaMale>>
    BY <1>2 DEF AnnotaLegge
  <2>2. pratiche[x].stato \in StatoPratica /\ pratiche[x].docs \in Nat
    BY <2>1 DEF Tipi, TipiPratiche, PraticaDemo
  <2>3. p \notin Gestori
    BY DemoAssumption
  <2> HIDE DEF x
  <2>4. x = corrente[p]
    BY DEF x
  <2> QED BY <1>1, <2>1, <2>2, <2>3, <2>4, TipiLegge DEF PassiLettura
<1>3. CASE Annota(p)
  <2>1. /\ Sostituisce(p) \/ Rinuncia(p)
        /\ passo' = IF resto[p] = << >> THEN passo ELSE [passo EXCEPT ![p] = "muove"]
        /\ UNCHANGED <<mancano, corrente, resto, files, lettaMale>>
    BY <1>3 DEF Annota, Va
  <2>2. TipiProcessi'
    BY <1>1, <2>1 DEF Tipi, TipiProcessi, Passi, PassiLettura
  <2>3. \A q \in Processi : q # p => passo'[q] = passo[q]
    BY <2>1 DEF Tipi, TipiProcessi
  <2> QED BY <2>1, <2>2, <2>3, TipiSostituisce
<1>4. CASE VersoFile(p)
  <2>1. /\ resto[p] = << >> /\ p \notin DOMAIN lette
        /\ passo' = [passo EXCEPT ![p] = "documenta"]
        /\ UNCHANGED <<pratiche, mancano, corrente, resto, lette, lettaMale>>
    BY <1>4 DEF VersoFile, Va
  <2>2. PICK F \in SUBSET {corrente[p]} : files' = [files EXCEPT ![p] = F]
    BY <1>4 DEF VersoFile
  <2>3. corrente[p] \in PraticaId
    BY <1>1 DEF Tipi, TipiProcessi, PassiLettura
  <2>4. TipiProcessi'
    BY <2>1, <2>2, <2>3 DEF Tipi, TipiProcessi, Passi, PassiLettura
  <2>5. TipiLette'
    <3>1. \A q \in Processi : q # p => passo'[q] = passo[q]
      BY <2>1 DEF Tipi, TipiProcessi
    <3>2. TipiLette
      BY DEF Tipi
    <3> QED BY <2>1, <3>1, <3>2, TipiLetteSenza
  <2> QED BY <2>1, <2>4, <2>5 DEF Tipi, TipiPratiche
<1> QED BY <1>2, <1>3, <1>4

LEMMA TipiFile ==
  ASSUME Tipi, NEW p \in Processi,
         AllegaLegge(p) \/ Allega(p) \/ \E x \in PraticaId : Guarda(p, x)
  PROVE  Tipi'
<1>1. CASE AllegaLegge(p)
  <2> DEFINE x == corrente[p]
  <2>1. /\ passo[p] = "allega" /\ x \in DOMAIN pratiche
        /\ Legge(p, x, pratiche[x].stato, pratiche[x].docs + 1)
        /\ UNCHANGED <<pratiche, passo, mancano, corrente, resto, files, lettaMale>>
    BY <1>1 DEF AllegaLegge
  <2>2. pratiche[x].stato \in StatoPratica /\ pratiche[x].docs + 1 \in Nat
    BY <2>1 DEF Tipi, TipiPratiche, PraticaDemo
  <2>3. p \notin Gestori
    BY DemoAssumption
  <2> HIDE DEF x
  <2>4. x = corrente[p]
    BY DEF x
  <2> QED BY <2>1, <2>2, <2>3, <2>4, TipiLegge DEF PassiLettura
<1>2. CASE Allega(p)
  <2>1. /\ Sostituisce(p) \/ Rinuncia(p)
        /\ passo[p] = "allega" /\ passo' = [passo EXCEPT ![p] = "documenta"]
        /\ UNCHANGED <<mancano, corrente, resto, files, lettaMale>>
    BY <1>2 DEF Allega, Va
  <2>2. TipiProcessi'
    BY <2>1 DEF Tipi, TipiProcessi, Passi, PassiLettura
  <2>3. \A q \in Processi : q # p => passo'[q] = passo[q]
    BY <2>1 DEF Tipi, TipiProcessi
  <2> QED BY <2>1, <2>2, <2>3, TipiSostituisce
<1>3. ASSUME NEW x \in PraticaId, Guarda(p, x) PROVE Tipi'
  <2>1. x # Nessuna
    BY DemoAssumption
  <2>2. /\ passo[p] = "documenta" /\ files' = [files EXCEPT ![p] = @ \ {x}]
        /\ UNCHANGED <<pratiche, mancano, resto, lette, lettaMale>>
        /\ \/ passo' = passo /\ corrente' = corrente
           \/ /\ passo' = [passo EXCEPT ![p] = "allega"]
              /\ corrente' = [corrente EXCEPT ![p] = x]
    BY <1>3 DEF Guarda, Va
  <2>3. resto[p] = << >> /\ p \notin DOMAIN lette
    BY <2>2 DEF Tipi, TipiProcessi, TipiLette, Pendente, PassiLettura
  <2>4. TipiProcessi'
    BY <2>1, <2>2, <2>3 DEF Tipi, TipiProcessi, Passi, PassiLettura
  <2>5. TipiLette'
    <3>1. \A q \in Processi : q # p => passo'[q] = passo[q] /\ corrente'[q] = corrente[q]
      BY <2>2 DEF Tipi, TipiProcessi
    <3>2. TipiLette
      BY DEF Tipi
    <3> QED BY <2>2, <2>3, <3>1, <3>2, TipiLetteSenza
  <2> QED BY <2>2, <2>4, <2>5 DEF Tipi, TipiPratiche
<1> QED BY <1>1, <1>2, <1>3

LEMMA TipiFerma ==
  ASSUME Tipi, NEW p \in Processi, Ferma(p)
  PROVE  Tipi'
<1>1. /\ DOMAIN pratiche' = DOMAIN pratiche
      /\ \A x \in DOMAIN pratiche :
           \/ pratiche'[x] = pratiche[x]
           \/ pratiche'[x] = [pratiche[x] EXCEPT !.segue = "interrotta"]
  BY DEF Ferma
<1>2. TipiPratiche'
  <2>1. \A x \in DOMAIN pratiche : pratiche'[x] \in PraticaDemo
    BY <1>1, TipiPratica DEF Tipi, TipiPratiche
  <2>2. pratiche' \in [DOMAIN pratiche' -> PraticaDemo]
    BY <1>1, <2>1 DEF Ferma
  <2> QED BY <1>1, <2>2 DEF Tipi, TipiPratiche
<1>3. /\ passo' = [passo EXCEPT ![p] = "spento"]
      /\ mancano' = [mancano EXCEPT ![p] = 0]
      /\ corrente' = [corrente EXCEPT ![p] = Nessuna]
      /\ resto' = [resto EXCEPT ![p] = << >>]
      /\ files' = [files EXCEPT ![p] = {}]
      /\ lette' = Senza(lette, p) /\ lettaMale' = lettaMale
  BY DEF Ferma, Va
<1>4. TipiProcessi'
  <2>1. << >> \in Seq(StatoPratica) /\ 0 \in 0..Target
    BY DemoAssumption
  <2> QED BY <1>3, <2>1 DEF Tipi, TipiProcessi, Passi, PassiLettura
<1>5. TipiLette'
  <2>1. \A q \in Processi : q # p => /\ passo'[q] = passo[q] /\ corrente'[q] = corrente[q]
                                     /\ resto'[q] = resto[q]
    BY <1>3 DEF Tipi, TipiProcessi
  <2>2. TipiLette
    BY DEF Tipi
  <2> QED BY <1>3, <2>1, <2>2, TipiLetteSenza
<1> QED BY <1>2, <1>4, <1>5 DEF Tipi

LEMMA TipiUtente ==
  ASSUME Tipi, NEW x \in PraticaId, CreaUtente(x) \/ EliminaUtente(x)
  PROVE  Tipi'
<1>1. UNCHANGED <<passo, mancano, corrente, resto, files, lette, lettaMale>>
  BY DEF CreaUtente, EliminaUtente
<1>2. CASE CreaUtente(x)
  <2> DEFINE v == [stato |-> "BOZZA", docs |-> 0, piano |-> 0, perse |-> {},
                   segue |-> "finita"]
  <2>1. pratiche' = Con(pratiche, x, v)
    BY <1>2 DEF CreaUtente
  <2>2. v \in PraticaDemo
    <3>1. 0 \in 0..Len(plans) /\ "finita" \in {"si", "finita"}
      BY PianiAmmessi
    <3> HIDE DEF PraticaDemo
    <3> QED BY <3>1, TipiPratica
  <2> HIDE DEF v
  <2>3. TipiPratiche'
    BY <2>1, <2>2, TipiNuova DEF Tipi
  <2> QED BY <1>1, <2>3 DEF Tipi, TipiProcessi, TipiLette, Pendente
<1>3. CASE EliminaUtente(x)
  <2>1. pratiche' = Senza(pratiche, x)
    BY <1>3 DEF EliminaUtente
  <2>2. DOMAIN pratiche' = DOMAIN pratiche \ {x}
    BY <2>1, MappaSenza
  <2>3. pratiche' \in [DOMAIN pratiche' -> PraticaDemo]
    <3>1. pratiche \in [DOMAIN pratiche -> PraticaDemo]
      BY DEF Tipi, TipiPratiche
    <3> QED BY <2>1, <3>1, MappaSenzaTipo
  <2>4. IsFiniteSet(DOMAIN pratiche')
    <3>1. IsFiniteSet(DOMAIN pratiche)
      BY DEF Tipi, TipiPratiche
    <3> QED BY <2>2, <3>1, FS_RemoveElement
  <2>5. TipiPratiche'
    BY <2>2, <2>3, <2>4 DEF Tipi, TipiPratiche
  <2> QED BY <1>1, <2>5 DEF Tipi, TipiProcessi, TipiLette, Pendente
<1> QED BY <1>2, <1>3

LEMMA TipiRichiesta ==
  ASSUME Tipi, NEW h \in Gestori, Richiesta(h)
  PROVE  Tipi'
<1>1. h \notin Processi
  BY DemoAssumption
<1>2. UNCHANGED <<passo, mancano, corrente, resto, files, lettaMale>>
  BY DEF Richiesta, EliminaFile, AltraModifica, CambiaStato, Conclude
<1>3. CASE Conclude(h)
  <2>1. TipiProcessi'
    BY <1>2 DEF Tipi, TipiProcessi
  <2> QED BY <1>2, <1>3, <2>1, TipiSostituisce DEF Conclude
<1>4. ASSUME NEW x \in PraticaId, NEW stato \in StatoPratica, NEW docs \in Nat,
             x \in DOMAIN pratiche, Legge(h, x, stato, docs), docs <= pratiche[x].docs,
             UNCHANGED pratiche
      PROVE  Tipi'
  BY <1>1, <1>2, <1>4, TipiLegge
<1>5. \A x \in DOMAIN pratiche : pratiche[x].stato \in StatoPratica /\ pratiche[x].docs \in Nat
  BY DEF Tipi, TipiPratiche, PraticaDemo
<1>6. ASSUME NEW x \in PraticaId, EliminaFile(h, x) PROVE Tipi'
  <2>1. /\ x \in DOMAIN pratiche /\ pratiche[x].docs > 0 /\ UNCHANGED pratiche
        /\ Legge(h, x, pratiche[x].stato, pratiche[x].docs - 1)
    BY <1>6 DEF EliminaFile
  <2>2. pratiche[x].docs - 1 \in Nat /\ pratiche[x].docs - 1 <= pratiche[x].docs
    BY <1>5, <2>1
  <2> QED BY <1>4, <1>5, <2>1, <2>2
<1>7. ASSUME NEW x \in PraticaId, AltraModifica(h, x) PROVE Tipi'
  <2>1. /\ x \in DOMAIN pratiche /\ UNCHANGED pratiche
        /\ Legge(h, x, pratiche[x].stato, pratiche[x].docs)
    BY <1>7 DEF AltraModifica
  <2>2. pratiche[x].docs <= pratiche[x].docs
    BY <1>5, <2>1
  <2> QED BY <1>4, <1>5, <2>1, <2>2
<1>8. ASSUME NEW x \in PraticaId, NEW next \in Decisioni, CambiaStato(h, x, next) PROVE Tipi'
  <2>1. /\ x \in DOMAIN pratiche /\ UNCHANGED pratiche
        /\ Legge(h, x, next, pratiche[x].docs)
    BY <1>8 DEF CambiaStato
  <2>2. next \in StatoPratica /\ pratiche[x].docs <= pratiche[x].docs
    BY <1>5, <2>1, DemoAssumption
  <2> QED BY <1>4, <1>5, <2>1, <2>2
<1> QED BY <1>3, <1>6, <1>7, <1>8 DEF Richiesta

LEMMA TipiNext == Tipi /\ [Next]_vars => Tipi'
<1> SUFFICES ASSUME Tipi, [Next]_vars PROVE Tipi'
  OBVIOUS
<1>1. CASE UNCHANGED vars
  BY <1>1 DEF vars, Tipi, TipiPratiche, TipiProcessi, TipiLette, Pendente
<1>2. ASSUME NEW p \in Processi, NEW v \in {"elenca", "attivo", "crea"},
             passo' = [passo EXCEPT ![p] = v], passo[p] \notin PassiLettura, resto[p] = << >>,
             v = "elenca" => mancano[p] = 0,
             UNCHANGED <<pratiche, mancano, resto, files, lette, lettaMale>>,
             corrente' = corrente \/ corrente' = [corrente EXCEPT ![p] = Nessuna]
      PROVE  Tipi'
  <2>1. TipiProcessi'
    BY <1>2 DEF Tipi, TipiProcessi, Passi, PassiLettura
  <2>2. p \notin DOMAIN lette
    BY <1>2 DEF Tipi, TipiLette, Pendente
  <2>3. \A q \in Processi : q # p => passo'[q] = passo[q] /\ corrente'[q] = corrente[q]
    BY <1>2 DEF Tipi, TipiProcessi
  <2>4. TipiLette'
    <3>1. TipiLette
      BY DEF Tipi
    <3> QED BY <1>2, <2>2, <2>3, <3>1, TipiLetteSenza
  <2> QED BY <1>2, <2>1, <2>4 DEF Tipi, TipiPratiche
<1>3. ASSUME NEW p \in Processi,
             Avvia(p) \/ SenzaConto(p) \/ Prosegue(p) \/ Serve(p)
      PROVE  Tipi'
  <2>1. /\ \E v \in {"elenca", "attivo", "crea"} :
             passo' = [passo EXCEPT ![p] = v] /\ (v = "elenca" => mancano[p] = 0)
        /\ passo[p] \in {"spento", "elenca", "documenta", "crea"}
        /\ UNCHANGED <<pratiche, mancano, resto, files, lette, lettaMale>>
        /\ corrente' = corrente \/ corrente' = [corrente EXCEPT ![p] = Nessuna]
    BY <1>3 DEF Avvia, SenzaConto, Prosegue, Serve, Va, Tipi, TipiProcessi
  <2>2. resto[p] = << >> /\ passo[p] \notin PassiLettura
    BY <2>1 DEF Tipi, TipiProcessi, PassiLettura
  <2> QED BY <1>2, <2>1, <2>2
<1>4. ASSUME NEW p \in Processi, Semina(p) PROVE Tipi'
  <2>1. CASE Elenca(p)
    BY <2>1, TipiConta DEF Elenca, Tipi, TipiProcessi
  <2>2. CASE ElencaMale(p)
    BY <2>2, TipiConta DEF ElencaMale
  <2>3. CASE CreaFallisce(p)
    <3>1. mancano[p] - 1 \in 0..Target
      BY <2>3, DemoAssumption DEF CreaFallisce, Tipi, TipiProcessi
    <3> QED BY <2>3, <3>1 DEF CreaFallisce, Prossima, Tipi, TipiPratiche, TipiProcessi,
            TipiLette, Pendente
  <2> QED BY <1>3, <1>4, <2>1, <2>2, <2>3, TipiCrea, TipiMuove, TipiAnnota, TipiFile DEF Semina
<1> QED BY <1>1, <1>3, <1>4, TipiFerma, TipiUtente, TipiRichiesta DEF Next

\* What the database and the starts of the processes hold has the type that the
\* model states.
THEOREM TypeOKDemo == Spec => []TypeOK
<1>1. Spec => []Tipi
  BY TipiInit, TipiNext, PTL DEF Spec
<1> QED BY <1>1, TipiTypeOK, PTL


-----------------------------------------------------------------------------
(* What the steps do to the pratiche.                                      *)

\* A step that drives, creates, replaces or deletes nothing: at most a pratica
\* is left half way.
SoloLascia ==
  /\ DOMAIN pratiche' = DOMAIN pratiche
  /\ \A x \in DOMAIN pratiche :
       \/ pratiche'[x] = pratiche[x]
       \/ pratiche'[x] = [pratiche[x] EXCEPT !.segue = "interrotta"]

LEMMA EffettiPasso ==
  ASSUME [Next]_vars
  PROVE  \/ SoloLascia
         \/ \E w \in Processi : Sostituisce(w) /\ (Allega(w) \/ passo[w] # "allega")
         \/ \E h \in Gestori : Sostituisce(h)
         \/ \E p \in Processi : Crea(p)
         \/ \E x \in PraticaId : CreaUtente(x) \/ EliminaUtente(x)
<1>1. ASSUME pratiche' = pratiche PROVE SoloLascia
  BY <1>1 DEF SoloLascia
<1>2. CASE UNCHANGED vars
  BY <1>1, <1>2 DEF vars
<1>3. ASSUME NEW p \in Processi, MuoveFallisce(p) \/ Ferma(p) PROVE SoloLascia
  BY <1>3 DEF MuoveFallisce, Ferma, SoloLascia
<1>4. ASSUME NEW p \in Processi, Muove(p) \/ Annota(p) \/ Allega(p)
      PROVE  SoloLascia \/ (Sostituisce(p) /\ (Allega(p) \/ passo[p] # "allega"))
  BY <1>1, <1>4 DEF Muove, Annota, Rinuncia, Allega
<1>5. ASSUME NEW p \in Processi,
             \/ Avvia(p) \/ Elenca(p) \/ ElencaMale(p) \/ SenzaConto(p) \/ CreaFallisce(p)
             \/ MuoveLegge(p) \/ AnnotaLegge(p) \/ VersoFile(p) \/ AllegaLegge(p)
             \/ Prosegue(p) \/ Serve(p) \/ \E x \in PraticaId : Guarda(p, x)
      PROVE  SoloLascia
  <2>1. pratiche' = pratiche
    BY <1>5 DEF Avvia, Elenca, ElencaMale, SenzaConto, CreaFallisce, MuoveLegge, AnnotaLegge,
            VersoFile, AllegaLegge, Prosegue, Serve, Guarda, Conta
  <2> QED BY <1>1, <2>1
<1>6. ASSUME NEW h \in Gestori, Richiesta(h) PROVE SoloLascia \/ Sostituisce(h)
  <2>1. CASE Conclude(h)
    BY <1>1, <2>1 DEF Conclude, Rinuncia
  <2>2. CASE ~Conclude(h)
    <3>1. pratiche' = pratiche
      BY <1>6, <2>2 DEF Richiesta, EliminaFile, AltraModifica, CambiaStato
    <3> QED BY <1>1, <3>1
  <2> QED BY <2>1, <2>2
<1> QED BY <1>2, <1>3, <1>4, <1>5, <1>6 DEF Next, Semina

-----------------------------------------------------------------------------
(* How many pratiche and how many files are seeded.                        *)

\* A part of a finite set.
LEMMA ParteFinita ==
  ASSUME NEW S, IsFiniteSet(S), NEW T, T \subseteq S
  PROVE  /\ IsFiniteSet(T)
         /\ Cardinality(T) \in Nat
         /\ Cardinality(S) \in Nat
         /\ Cardinality(T) <= Cardinality(S)
BY FS_Subset, FS_CardinalityType

\* The pratiche of the plans and the ones to be created are finitely many.
LEMMA ContiFiniti ==
  ASSUME Tipi
  PROVE  /\ IsFiniteSet(Seminate) /\ Cardinality(Seminate) \in Nat
         /\ IsFiniteSet(Mancanti) /\ Cardinality(Mancanti) \in Nat
         /\ Seminate \subseteq DOMAIN pratiche
<1>1. IsFiniteSet(DOMAIN pratiche) /\ Seminate \subseteq DOMAIN pratiche
  BY DEF Tipi, TipiPratiche, Seminate
<1>2. IsFiniteSet(1..Target) /\ IsFiniteSet(Processi)
  BY DemoAssumption, FS_Interval
<1>3. IsFiniteSet(Processi \X (1..Target))
  BY <1>2, FS_Product
<1>4. Mancanti \subseteq Processi \X (1..Target)
  BY DEF Mancanti
<1> QED BY <1>1, <1>3, <1>4, ParteFinita

\* The bound on the pratiche.
Contate == ~lettaMale => Cardinality(Seminate) + Cardinality(Mancanti)
                           <= Target * Cardinality(Processi)

\* A step that adds none, and finds no more of them missing.
LEMMA ContateMeno ==
  ASSUME Tipi, Tipi', Contate, lettaMale' = lettaMale,
         Seminate' \subseteq Seminate, Mancanti' \subseteq Mancanti
  PROVE  Contate'
<1>1. /\ Cardinality(Seminate)' \in Nat /\ Cardinality(Seminate)' <= Cardinality(Seminate)
      /\ Cardinality(Mancanti)' \in Nat /\ Cardinality(Mancanti)' <= Cardinality(Mancanti)
      /\ Cardinality(Seminate) \in Nat /\ Cardinality(Mancanti) \in Nat
  BY ContiFiniti, ParteFinita
<1>2. Target * Cardinality(Processi) \in Nat
  BY DemoAssumption, FS_CardinalityType
<1> QED BY <1>1, <1>2 DEF Contate

\* The processes that look at a pratica, none of which is p, may seed a target
\* each; p what the list lacks.
LEMMA ContateElenca ==
  ASSUME Tipi, Tipi', Contate, NEW p \in Processi, Elenca(p)
  PROVE  Contate'
<1> DEFINE n == Cardinality(DOMAIN pratiche)
           DegliAltri == (Processi \ {p}) \X (1..Target)
           Suoi == {p} \X (1..Target - n)
<1>1. n \in Nat /\ Cardinality(Seminate)' = Cardinality(Seminate)
      /\ Cardinality(Seminate) \in Nat /\ Cardinality(Seminate) <= n
  <2>1. IsFiniteSet(DOMAIN pratiche) /\ Seminate \subseteq DOMAIN pratiche
    BY DEF Tipi, TipiPratiche, Seminate
  <2>2. pratiche' = pratiche
    BY DEF Elenca, Conta
  <2>3. Seminate' = Seminate
    BY <2>2 DEF Seminate
  <2> QED BY <2>1, <2>3, ParteFinita
<1>2. /\ mancano' = [mancano EXCEPT ![p] = needed(n)] /\ lettaMale' = lettaMale
      /\ mancano[p] = 0
  BY DEF Elenca, Conta, Tipi, TipiProcessi
<1>3. CASE n >= Target
  <2>1. mancano' = mancano
    BY <1>2, <1>3 DEF needed, Tipi, TipiProcessi
  <2>2. Mancanti' = Mancanti
    BY <2>1 DEF Mancanti
  <2> QED BY <1>1, <1>2, <2>2 DEF Contate
<1>4. CASE n < Target
  <2>1. mancano' = [mancano EXCEPT ![p] = Target - n]
    <3> HIDE DEF n
    <3>1. needed(n) = Target - n
      BY <1>1, <1>4, DemoAssumption DEF needed
    <3> QED BY <3>1, <1>2
  <2>2. Mancanti' \subseteq DegliAltri \cup Suoi
    <3> SUFFICES ASSUME NEW q \in Processi, NEW k \in 1..Target, k <= mancano'[q]
                 PROVE  <<q, k>> \in DegliAltri \cup Suoi
      BY DEF Mancanti
    <3>1. CASE q = p
      <4>1. k <= Target - n
        BY <2>1, <3>1 DEF Tipi, TipiProcessi
      <4> QED BY <3>1, <4>1, <1>1, <1>4, DemoAssumption
    <3>2. CASE q # p
      BY <3>2
    <3> QED BY <3>1, <3>2
  <2>3. /\ IsFiniteSet(DegliAltri)
        /\ Cardinality(DegliAltri) = (Cardinality(Processi) - 1) * Target
    <3>1. IsFiniteSet(Processi \ {p}) /\ Cardinality(Processi \ {p}) = Cardinality(Processi) - 1
      BY DemoAssumption, FS_RemoveElement
    <3>2. IsFiniteSet(1..Target) /\ Cardinality(1..Target) = Target
      <4>1. IsFiniteSet(1..Target) /\ Cardinality(1..Target) = IF 1 > Target THEN 0 ELSE Target - 1 + 1
        BY DemoAssumption, FS_Interval
      <4> QED BY <4>1, DemoAssumption
    <3>3. /\ IsFiniteSet(DegliAltri)
          /\ Cardinality(DegliAltri) = Cardinality(Processi \ {p}) * Cardinality(1..Target)
      BY <3>1, <3>2, FS_Product, Zenon
    <3> QED BY <3>1, <3>2, <3>3
  <2>4. IsFiniteSet(Suoi) /\ Cardinality(Suoi) = Target - n
    <3>1. IsFiniteSet({p}) /\ Cardinality({p}) = 1
      BY FS_Singleton
    <3>2. IsFiniteSet(1..Target - n) /\ Cardinality(1..Target - n) = Target - n
      <4>1. /\ Target - n \in Int
            /\ ~(1 > Target - n)
            /\ Target - n - 1 + 1 = Target - n
        BY <1>1, <1>4, DemoAssumption
      <4>2. /\ IsFiniteSet(1..Target - n)
            /\ Cardinality(1..Target - n) = IF 1 > Target - n THEN 0 ELSE Target - n - 1 + 1
        BY <4>1, FS_Interval
      <4> QED BY <4>1, <4>2
    <3>3. /\ IsFiniteSet(Suoi)
          /\ Cardinality(Suoi) = Cardinality({p}) * Cardinality(1..Target - n)
      BY <3>1, <3>2, FS_Product, Zenon
    <3>4. 1 * (Target - n) = Target - n
      BY <1>1, DemoAssumption
    <3> QED BY <3>1, <3>2, <3>3, <3>4
  <2>5. Cardinality(Mancanti)' \in Nat
        /\ Cardinality(Mancanti)' <= (Cardinality(Processi) - 1) * Target + (Target - n)
    <3>1. /\ IsFiniteSet(DegliAltri \cup Suoi)
          /\ Cardinality(DegliAltri \cup Suoi)
               = Cardinality(DegliAltri) + Cardinality(Suoi) - Cardinality(DegliAltri \cap Suoi)
      BY <2>3, <2>4, FS_Union
    <3>2. Cardinality(DegliAltri \cap Suoi) = 0
      <4>1. DegliAltri \cap Suoi = {}
        OBVIOUS
      <4> QED BY <4>1, FS_EmptySet
    <3>3. Cardinality(Mancanti') \in Nat /\ Cardinality(Mancanti') <= Cardinality(DegliAltri \cup Suoi)
          /\ Cardinality(DegliAltri \cup Suoi) \in Nat
      BY <2>2, <3>1, ParteFinita
    <3>4. Cardinality(Processi) \in Nat
      BY DemoAssumption, FS_CardinalityType
    <3> HIDE DEF DegliAltri, Suoi
    <3> QED BY <2>3, <2>4, <3>1, <3>2, <3>3, <3>4, <1>1, DemoAssumption
  <2>6. PICK c \in Nat : c = Cardinality(Processi)
    BY DemoAssumption, FS_CardinalityType
  <2>7. (c - 1) * Target + Target = Target * c
    BY DemoAssumption
  <2>8. Cardinality(Mancanti)' <= Target * c - n
    BY <2>5, <2>6, <2>7, <1>1, DemoAssumption
  <2>9. Target * c \in Int
    BY DemoAssumption
  <2>10. Cardinality(Seminate)' + Cardinality(Mancanti)' <= Target * c
    BY <1>1, <2>5, <2>8, <2>9
  <2> QED BY <2>6, <2>10 DEF Contate
<1> QED BY <1>1, <1>3, <1>4, DemoAssumption

\* A pratica is created for one that was missing.
LEMMA ContateCrea ==
  ASSUME Tipi, Tipi', Contate, NEW p \in Processi, Crea(p)
  PROVE  Contate'
<1> DEFINE m == <<p, mancano[p]>>
<1>1. PICK x \in Nuovi : \E v : pratiche' = Con(pratiche, x, v)
  BY DEF Crea
<1>2. /\ mancano' = [mancano EXCEPT ![p] = @ - 1] /\ lettaMale' = lettaMale
      /\ mancano[p] \in 1..Target
  BY DemoAssumption DEF Crea, Prossima, Tipi, TipiProcessi
<1>3. Seminate' \subseteq Seminate \cup {x}
  BY <1>1 DEF Seminate, Con
<1>4. m \in Mancanti /\ Mancanti' \subseteq Mancanti \ {m}
  <2>1. m \in Mancanti
    BY <1>2 DEF Mancanti
  <2>2. ASSUME NEW q \in Processi, NEW k \in 1..Target, k <= mancano'[q]
        PROVE  <<q, k>> \in Mancanti \ {m}
    <3>1. CASE q = p
      BY <1>2, <2>2, <3>1 DEF Tipi, TipiProcessi, Mancanti
    <3>2. CASE q # p
      BY <1>2, <2>2, <3>2 DEF Tipi, TipiProcessi, Mancanti
    <3> QED BY <3>1, <3>2
  <2>3. \A y \in Mancanti' : y = <<y[1], y[2]>> /\ y[1] \in Processi /\ y[2] \in 1..Target
                             /\ y[2] <= mancano'[y[1]]
    BY DEF Mancanti
  <2> QED BY <2>1, <2>2, <2>3
<1>5. /\ Cardinality(Seminate') <= Cardinality(Seminate) + 1
      /\ Cardinality(Seminate') \in Nat /\ Cardinality(Seminate) \in Nat
  <2>1. /\ IsFiniteSet(Seminate \cup {x})
        /\ Cardinality(Seminate \cup {x}) =
             IF x \in Seminate THEN Cardinality(Seminate) ELSE Cardinality(Seminate) + 1
        /\ Cardinality(Seminate) \in Nat
    BY ContiFiniti, FS_AddElement
  <2>2. Cardinality(Seminate') <= Cardinality(Seminate \cup {x}) /\ Cardinality(Seminate') \in Nat
    BY <1>3, <2>1, ParteFinita
  <2> QED BY <2>1, <2>2
<1>6. /\ Cardinality(Mancanti') <= Cardinality(Mancanti) - 1
      /\ Cardinality(Mancanti') \in Nat /\ Cardinality(Mancanti) \in Nat
  <2>1. /\ IsFiniteSet(Mancanti \ {m}) /\ Cardinality(Mancanti \ {m}) = Cardinality(Mancanti) - 1
        /\ Cardinality(Mancanti) \in Nat
    BY <1>4, ContiFiniti, FS_RemoveElement
  <2> QED BY <1>4, <2>1, ParteFinita
<1>7. PICK t : t = Target * Cardinality(Processi) /\ t \in Nat
  BY DemoAssumption, FS_CardinalityType
<1>8. ~lettaMale => Cardinality(Seminate') + Cardinality(Mancanti') <= t
  BY <1>5, <1>6, <1>7 DEF Contate
<1> QED BY <1>2, <1>7, <1>8 DEF Contate

\* The processes that are about to give pratica x a file.
Allegano(x) == {p \in Processi : passo[p] = "allega" /\ corrente[p] = x}

\* The files of a pratica, and those it is about to be given, unless a write
\* back undid a change of them.
FileContati ==
  \A x \in DOMAIN pratiche :
    "docs" \notin pratiche[x].perse =>
      pratiche[x].docs + Cardinality(Allegano(x)) <= Cardinality(Processi)

LEMMA AlleganoFinito ==
  ASSUME NEW x
  PROVE  /\ IsFiniteSet(Allegano(x)) /\ Cardinality(Allegano(x)) \in Nat
         /\ Cardinality(Processi) \in Nat
         /\ Cardinality(Allegano(x)) <= Cardinality(Processi)
<1>1. Allegano(x) \subseteq Processi
  BY DEF Allegano
<1> QED BY <1>1, DemoAssumption, ParteFinita
\* A step that gives no file, or writes back older ones.
FileMeno ==
  \A x \in DOMAIN pratiche' :
    \/ pratiche'[x].docs = 0
    \/ /\ x \in DOMAIN pratiche
       /\ "docs" \notin pratiche'[x].perse =>
            "docs" \notin pratiche[x].perse /\ pratiche'[x].docs <= pratiche[x].docs

\* Such a step, after which nobody new is about to give one.
LEMMA FileContatiMeno ==
  ASSUME Tipi, Tipi', FileContati, FileMeno,
         \A x \in DOMAIN pratiche' : pratiche'[x].docs = 0 \/ Allegano(x)' \subseteq Allegano(x)
  PROVE  FileContati'
<1> SUFFICES ASSUME NEW x \in DOMAIN pratiche', "docs" \notin pratiche'[x].perse
             PROVE  pratiche'[x].docs + Cardinality(Allegano(x)') <= Cardinality(Processi)
  BY DEF FileContati
<1>1. /\ Cardinality(Allegano(x)') \in Nat /\ Cardinality(Allegano(x)') <= Cardinality(Processi)
      /\ Cardinality(Processi) \in Nat
  <2>1. Allegano(x)' \subseteq Processi
    BY DEF Allegano
  <2> QED BY <2>1, DemoAssumption, ParteFinita
<1>2. CASE pratiche'[x].docs = 0
  BY <1>1, <1>2
<1>3. CASE pratiche'[x].docs # 0
  <2>1. /\ x \in DOMAIN pratiche /\ pratiche'[x].docs <= pratiche[x].docs
        /\ "docs" \notin pratiche[x].perse
        /\ Allegano(x)' \subseteq Allegano(x)
    BY <1>3 DEF FileMeno
  <2>2. Cardinality(Allegano(x)') <= Cardinality(Allegano(x)) /\ Cardinality(Allegano(x)) \in Nat
    BY <2>1, AlleganoFinito, ParteFinita
  <2>3. pratiche[x].docs \in Nat /\ pratiche'[x].docs \in Nat
    BY <2>1 DEF Tipi, TipiPratiche, PraticaDemo
  <2>4. pratiche[x].docs + Cardinality(Allegano(x)) <= Cardinality(Processi)
    BY <2>1 DEF FileContati
  <2> QED BY <1>1, <2>1, <2>2, <2>3, <2>4
<1> QED BY <1>2, <1>3

\* Whoever is not adding a file writes back no more than it read.
LEMMA FileSostituisce ==
  ASSUME Tipi, NEW w, Sostituisce(w), w \in Processi => passo[w] # "allega"
  PROVE  FileMeno
<1>1. w \in DOMAIN lette /\ lette[w] \in Lettura /\ lette[w].scrive.docs <= lette[w].letto.docs
  <2>1. w \in DOMAIN lette /\ lette[w] \in Lettura
    BY SostituisceEffetto
  <2>2. lette[w].letto.docs \in Nat
    BY <2>1 DEF Lettura, Documento
  <2>3. CASE w \in Processi
    <3>1. lette[w].scrive.docs = lette[w].letto.docs
      BY <2>1, <2>3 DEF Tipi, TipiLette, Pendente
    <3> QED BY <2>1, <2>2, <3>1
  <2>4. CASE w \notin Processi
    BY <2>1, <2>4 DEF Tipi, TipiLette
  <2> QED BY <2>3, <2>4
<1>2. SUFFICES ASSUME NEW x \in DOMAIN pratiche, "docs" \notin pratiche'[x].perse
      PROVE  "docs" \notin pratiche[x].perse /\ pratiche'[x].docs <= pratiche[x].docs
  <2>1. DOMAIN pratiche' = DOMAIN pratiche
    BY SostituisceEffetto
  <2> QED BY <2>1 DEF FileMeno
<1>3. CASE x = lette[w].id
  <2>1. /\ pratiche'[x].docs = lette[w].scrive.docs
        /\ pratiche'[x].perse = pratiche[x].perse \cup Perde(w, pratiche[x])
    BY <1>3, SostituisceEffetto
  <2>2. "docs" \notin pratiche[x].perse /\ pratiche[x].docs = lette[w].letto.docs
    BY <1>2, <2>1, PerdeNulla
  <2> QED BY <1>1, <2>1, <2>2
<1>4. CASE x # lette[w].id
  <2>1. pratiche'[x] = pratiche[x]
    BY <1>4, SostituisceEffetto
  <2>2. pratiche[x].docs \in Nat
    BY DEF Tipi, TipiPratiche, PraticaDemo
  <2> QED BY <1>2, <2>1, <2>2
<1> QED BY <1>3, <1>4

LEMMA FileContatiAllega ==
  ASSUME Tipi, Tipi', FileContati, NEW p \in Processi, Allega(p)
  PROVE  FileContati'
<1> DEFINE y == corrente[p]
<1>1. /\ passo[p] = "allega" /\ passo' = [passo EXCEPT ![p] = "documenta"]
      /\ corrente' = corrente
  BY DEF Allega, Va
<1>2. \A x : Allegano(x)' \subseteq Allegano(x)
  BY <1>1 DEF Allegano, Tipi, TipiProcessi
<1>3. CASE Rinuncia(p)
  <2>1. \A x \in DOMAIN pratiche : pratiche[x].docs \in Nat
    BY DEF Tipi, TipiPratiche, PraticaDemo
  <2>2. FileMeno
    BY <1>3, <2>1 DEF Rinuncia, FileMeno
  <2> QED BY <1>2, <2>2, FileContatiMeno
<1>4. CASE Sostituisce(p)
  <2>0. DOMAIN pratiche' = DOMAIN pratiche /\ p \in DOMAIN lette
    BY <1>4, SostituisceEffetto
  <2> SUFFICES ASSUME NEW x \in DOMAIN pratiche, "docs" \notin pratiche'[x].perse
               PROVE  pratiche'[x].docs + Cardinality(Allegano(x)') <= Cardinality(Processi)
    BY <2>0 DEF FileContati
  <2>1. pratiche[x].docs \in Nat
    BY DEF Tipi, TipiPratiche, PraticaDemo
  <2>2. /\ IsFiniteSet(Allegano(x)) /\ Cardinality(Allegano(x)) \in Nat
        /\ Cardinality(Processi) \in Nat
    BY AlleganoFinito
  <2>3. y = lette[p].id /\ lette[p].scrive.docs = lette[p].letto.docs + 1
    BY <1>1, <2>0 DEF Tipi, TipiLette, Pendente
  <2>4. CASE x = y
    <3>1. Allegano(x)' \subseteq Allegano(x) \ {p} /\ p \in Allegano(x)
      BY <1>1, <2>4 DEF Allegano, Tipi, TipiProcessi
    <3>2. /\ IsFiniteSet(Allegano(x) \ {p})
          /\ Cardinality(Allegano(x) \ {p}) = Cardinality(Allegano(x)) - 1
      BY <2>2, <3>1, FS_RemoveElement
    <3>3. Cardinality(Allegano(x)') <= Cardinality(Allegano(x)) - 1 /\ Cardinality(Allegano(x)') \in Nat
      BY <3>1, <3>2, ParteFinita
    <3>4. /\ pratiche'[x].docs = lette[p].scrive.docs
          /\ pratiche'[x].perse = pratiche[x].perse \cup Perde(p, pratiche[x])
      BY <1>4, <2>3, <2>4, SostituisceEffetto
    <3>5. "docs" \notin pratiche[x].perse /\ pratiche[x].docs = lette[p].letto.docs
      BY <3>4, PerdeNulla
    <3>6. pratiche[x].docs + Cardinality(Allegano(x)) <= Cardinality(Processi)
      BY <3>5 DEF FileContati
    <3>7. pratiche'[x].docs = pratiche[x].docs + 1
      BY <2>3, <3>4, <3>5
    <3> QED BY <2>1, <2>2, <3>3, <3>6, <3>7
  <2>5. CASE x # y
    <3>1. Cardinality(Allegano(x)') <= Cardinality(Allegano(x)) /\ Cardinality(Allegano(x)') \in Nat
      BY <1>2, <2>2, ParteFinita
    <3>2. pratiche'[x] = pratiche[x]
      BY <1>4, <2>3, <2>5, SostituisceEffetto
    <3>3. pratiche[x].docs + Cardinality(Allegano(x)) <= Cardinality(Processi)
      BY <3>2 DEF FileContati
    <3> QED BY <2>1, <2>2, <3>1, <3>2, <3>3
  <2> QED BY <2>4, <2>5
<1> QED BY <1>3, <1>4 DEF Allega

\* A step other than a look at the files, and after which they have not grown.
LEMMA AlleganoMeno ==
  ASSUME Tipi, NEW p \in Processi, passo'[p] # "allega",
         \A q \in Processi : q # p => passo'[q] = passo[q] /\ corrente'[q] = corrente[q]
  PROVE  \A y : Allegano(y)' \subseteq Allegano(y)
BY DEF Allegano

LEMMA FileContatiGuarda ==
  ASSUME Tipi, Tipi', FileContati, NEW p \in Processi, NEW x \in PraticaId, Guarda(p, x)
  PROVE  FileContati'
<1>1. pratiche' = pratiche /\ \A y \in DOMAIN pratiche : pratiche[y].docs \in Nat
  BY DEF Guarda, Tipi, TipiPratiche, PraticaDemo
<1>2. FileMeno
  BY <1>1 DEF FileMeno
<1>3. CASE x \in DOMAIN pratiche /\ SenzaFile(x)
  <2>1. pratiche[x].docs = 0
    BY <1>3 DEF SenzaFile
  <2>2. /\ corrente' = [corrente EXCEPT ![p] = x] /\ passo' = [passo EXCEPT ![p] = "allega"]
    BY <1>3 DEF Guarda, Va
  <2>3. \A y : y # x => Allegano(y)' \subseteq Allegano(y)
    BY <2>2 DEF Allegano, Tipi, TipiProcessi
  <2> QED BY <1>1, <1>2, <2>1, <2>3, FileContatiMeno
<1>4. CASE ~(x \in DOMAIN pratiche /\ SenzaFile(x))
  <2>1. passo' = passo /\ corrente' = corrente
    BY <1>4 DEF Guarda
  <2> QED BY <1>1, <2>1 DEF FileContati, Allegano
<1> QED BY <1>3, <1>4

\* The other steps leave the processes that are about to add a file as they
\* were, or take one away.
LEMMA AlleganoPasso ==
  ASSUME Tipi, [Next]_vars,
         ~\E p \in Processi : Allega(p) \/ \E x \in PraticaId : Guarda(p, x)
  PROVE  \A y : Allegano(y)' \subseteq Allegano(y)
<1>1. CASE passo' = passo /\ corrente' = corrente
  BY <1>1 DEF Allegano
<1>2. CASE \/ UNCHANGED vars \/ \E x \in PraticaId : CreaUtente(x) \/ EliminaUtente(x)
           \/ \E h \in Gestori : Richiesta(h)
  <2>1. passo' = passo /\ corrente' = corrente
    BY <1>2 DEF vars, CreaUtente, EliminaUtente, Richiesta, EliminaFile, AltraModifica,
            CambiaStato, Conclude
  <2> QED BY <1>1, <2>1
<1>3. ASSUME NEW p \in Processi, Avvia(p) \/ Semina(p) \/ Ferma(p)
      PROVE  \A y : Allegano(y)' \subseteq Allegano(y)
  <2>1. CASE MuoveLegge(p) \/ AnnotaLegge(p) \/ AllegaLegge(p) \/ CreaFallisce(p)
    BY <1>1, <2>1 DEF MuoveLegge, AnnotaLegge, AllegaLegge, CreaFallisce
  <2>2. CASE Annota(p)
    <3>1. /\ corrente' = corrente /\ passo[p] = "annota"
          /\ passo' = passo \/ passo' = [passo EXCEPT ![p] = "muove"]
      BY <2>2 DEF Annota, Va
    <3> QED BY <3>1, AlleganoMeno DEF Tipi, TipiProcessi
  <2>3. CASE \/ Avvia(p) \/ SenzaConto(p) \/ Elenca(p) \/ ElencaMale(p) \/ Muove(p)
             \/ MuoveFallisce(p) \/ VersoFile(p) \/ Prosegue(p) \/ Serve(p) \/ Ferma(p)
    <3>1. /\ \E v \in {"elenca", "attivo", "crea", "documenta", "annota", "muove", "spento"} :
               passo' = [passo EXCEPT ![p] = v]
          /\ corrente' = corrente \/ corrente' = [corrente EXCEPT ![p] = Nessuna]
      BY <2>3 DEF Avvia, SenzaConto, Elenca, ElencaMale, Muove, MuoveFallisce, VersoFile,
              Prosegue, Serve, Ferma, Conta, Va
    <3> QED BY <3>1, AlleganoMeno DEF Tipi, TipiProcessi
  <2>4. CASE Crea(p)
    <3>1. PICK x \in Nuovi, v \in {"annota", "primo"} :
            corrente' = [corrente EXCEPT ![p] = x] /\ passo' = [passo EXCEPT ![p] = v]
      BY <2>4 DEF Crea, Va
    <3> QED BY <3>1, AlleganoMeno DEF Tipi, TipiProcessi
  <2> QED BY <1>3, <2>1, <2>2, <2>3, <2>4 DEF Semina
<1> QED BY <1>2, <1>3 DEF Next

LEMMA FileContatiPasso ==
  ASSUME Tipi, Tipi', FileContati, [Next]_vars
  PROVE  FileContati'
<1>0. \A x \in DOMAIN pratiche : pratiche[x] \in PraticaDemo /\ pratiche[x].docs \in Nat
  BY DEF Tipi, TipiPratiche, PraticaDemo
<1>1. CASE \E p \in Processi : Allega(p) \/ \E x \in PraticaId : Guarda(p, x)
  BY <1>1, FileContatiAllega, FileContatiGuarda
<1>2. CASE ~\E p \in Processi : Allega(p) \/ \E x \in PraticaId : Guarda(p, x)
  <2>1. \A y : Allegano(y)' \subseteq Allegano(y)
    BY <1>2, AlleganoPasso
  <2>2. CASE SoloLascia
    <3>1. FileMeno
      BY <1>0, <2>2 DEF SoloLascia, FileMeno, PraticaDemo
    <3> QED BY <2>1, <3>1, FileContatiMeno
  <2>3. ASSUME NEW w, Sostituisce(w), w \in Processi => passo[w] # "allega"
        PROVE  FileContati'
    BY <2>1, <2>3, FileSostituisce, FileContatiMeno
  <2>4. ASSUME NEW p \in Processi, Crea(p) PROVE FileContati'
    <3>1. PICK x \in Nuovi : \E v : pratiche' = Con(pratiche, x, v) /\ v.docs = 0
      BY <2>4 DEF Crea
    <3>2. FileMeno
      BY <1>0, <3>1 DEF Con, FileMeno
    <3> QED BY <2>1, <3>2, FileContatiMeno
  <2>5. ASSUME NEW x \in PraticaId, CreaUtente(x) PROVE FileContati'
    <3>1. PICK v : pratiche' = Con(pratiche, x, v) /\ v.docs = 0
      BY <2>5 DEF CreaUtente
    <3>2. FileMeno
      BY <1>0, <3>1 DEF Con, FileMeno
    <3> QED BY <2>1, <3>2, FileContatiMeno
  <2>6. ASSUME NEW x \in PraticaId, EliminaUtente(x) PROVE FileContati'
    <3>1. FileMeno
      BY <1>0, <2>6 DEF EliminaUtente, Senza, Restrict, FileMeno
    <3> QED BY <2>1, <3>1, FileContatiMeno
  <2> QED BY <1>2, <2>2, <2>3, <2>4, <2>5, <2>6, EffettiPasso, DemoAssumption
<1> QED BY <1>1, <1>2

\* A step that creates none of the plans' pratiche.
LEMMA SeminatePasso ==
  ASSUME Tipi, [Next]_vars, ~\E p \in Processi : Crea(p)
  PROVE  Seminate' \subseteq Seminate
<1>1. \A x \in DOMAIN pratiche : pratiche[x] \in PraticaDemo
  BY DEF Tipi, TipiPratiche
<1>2. ASSUME DOMAIN pratiche' \subseteq DOMAIN pratiche,
             \A y \in DOMAIN pratiche' : pratiche'[y].piano = pratiche[y].piano
      PROVE  Seminate' \subseteq Seminate
  BY <1>2 DEF Seminate
<1>3. CASE SoloLascia
  BY <1>1, <1>2, <1>3 DEF SoloLascia, PraticaDemo
<1>4. ASSUME NEW w, Sostituisce(w) PROVE Seminate' \subseteq Seminate
  <2>1. /\ DOMAIN pratiche' = DOMAIN pratiche
        /\ \A y \in DOMAIN pratiche : pratiche'[y].piano = pratiche[y].piano
    BY <1>4, SostituisceEffetto
  <2> QED BY <1>2, <2>1
<1>5. ASSUME NEW x \in PraticaId, CreaUtente(x) PROVE Seminate' \subseteq Seminate
  <2>1. PICK v : pratiche' = Con(pratiche, x, v) /\ v.piano = 0
    BY <1>5 DEF CreaUtente
  <2> QED BY <2>1 DEF Con, Seminate
<1>6. ASSUME NEW x \in PraticaId, EliminaUtente(x) PROVE Seminate' \subseteq Seminate
  BY <1>6 DEF EliminaUtente, Senza, Restrict, Seminate
<1> QED BY <1>3, <1>4, <1>5, <1>6, EffettiPasso

LEMMA MancantiPasso ==
  ASSUME Tipi, [Next]_vars, ~\E p \in Processi : Elenca(p) \/ ElencaMale(p) \/ Crea(p)
  PROVE  Mancanti' \subseteq Mancanti /\ lettaMale' = lettaMale
<1>1. ASSUME mancano' = mancano PROVE Mancanti' \subseteq Mancanti
  BY <1>1 DEF Mancanti
<1>2. ASSUME NEW p \in Processi,
             mancano' = [mancano EXCEPT ![p] = @ - 1] \/ mancano' = [mancano EXCEPT ![p] = 0]
      PROVE  Mancanti' \subseteq Mancanti
  <2>1. \A q \in Processi : mancano'[q] <= mancano[q] /\ mancano[q] \in Nat /\ mancano'[q] \in Int
    BY <1>2, DemoAssumption DEF Tipi, TipiProcessi
  <2>2. \A q \in Processi, k \in 1..Target : k <= mancano'[q] => k <= mancano[q]
    BY <2>1
  <2> QED BY <2>2 DEF Mancanti
<1>3. CASE UNCHANGED vars
  BY <1>1, <1>3 DEF vars
<1>4. ASSUME NEW p \in Processi, CreaFallisce(p) \/ Ferma(p)
      PROVE  Mancanti' \subseteq Mancanti /\ lettaMale' = lettaMale
  BY <1>2, <1>4 DEF CreaFallisce, Prossima, Ferma
<1>5. ASSUME NEW p \in Processi,
             \/ Avvia(p) \/ SenzaConto(p) \/ MuoveLegge(p) \/ Muove(p) \/ MuoveFallisce(p)
             \/ AnnotaLegge(p) \/ Annota(p) \/ VersoFile(p) \/ AllegaLegge(p) \/ Allega(p)
             \/ Prosegue(p) \/ Serve(p) \/ \E x \in PraticaId : Guarda(p, x)
      PROVE  mancano' = mancano /\ lettaMale' = lettaMale
  BY <1>5 DEF Avvia, SenzaConto, MuoveLegge, Muove, MuoveFallisce, AnnotaLegge, Annota,
          VersoFile, AllegaLegge, Allega, Prosegue, Serve, Guarda
<1>6. ASSUME \/ \E x \in PraticaId : CreaUtente(x) \/ EliminaUtente(x)
             \/ \E h \in Gestori : Richiesta(h)
      PROVE  mancano' = mancano /\ lettaMale' = lettaMale
  BY <1>6 DEF CreaUtente, EliminaUtente, Richiesta, EliminaFile, AltraModifica, CambiaStato,
          Conclude
<1> QED BY <1>1, <1>3, <1>4, <1>5, <1>6 DEF Next, Semina

LEMMA ContatePasso ==
  ASSUME Tipi, Tipi', Contate, [Next]_vars
  PROVE  Contate'
<1>1. ASSUME NEW p \in Processi, ElencaMale(p) PROVE Contate'
  BY <1>1 DEF ElencaMale, Contate
<1>2. CASE ~\E p \in Processi : Elenca(p) \/ ElencaMale(p) \/ Crea(p)
  BY <1>2, SeminatePasso, MancantiPasso, ContateMeno
<1> QED BY <1>1, <1>2, ContateCrea, ContateElenca

\* However starts overlap, stop and begin again, each seeds at most the target;
\* and it adds at most one file to a pratica, unless a write back undoes a
\* change of its files.
THEOREM DemoLimitateDemo == Spec => []DemoLimitate
<1> DEFINE Inv == Tipi /\ Contate /\ FileContati
<1>1. Init => Inv
  <2> SUFFICES ASSUME Init PROVE Inv
    OBVIOUS
  <2>1. Tipi
    BY TipiInit
  <2>2. Seminate = {} /\ Mancanti = {}
    BY DEF Init, Seminate, Mancanti
  <2>3. Cardinality(Seminate) + Cardinality(Mancanti) = 0
    BY <2>2, FS_EmptySet
  <2>4. Target * Cardinality(Processi) \in Nat
    BY DemoAssumption, FS_CardinalityType
  <2>5. Contate
    BY <2>3, <2>4 DEF Contate
  <2>6. FileContati
    BY DEF Init, FileContati
  <2> QED BY <2>1, <2>5, <2>6
<1>2. Inv /\ [Next]_vars => Inv'
  BY TipiNext, ContatePasso, FileContatiPasso
<1>3. Inv => DemoLimitate
  <2> SUFFICES ASSUME Inv, NEW x \in DOMAIN pratiche, "docs" \notin pratiche[x].perse
               PROVE  pratiche[x].docs <= Cardinality(Processi)
    BY DEF DemoLimitate, Contate
  <2>1. pratiche[x].docs \in Nat
    BY DEF Tipi, TipiPratiche, PraticaDemo
  <2>2. Cardinality(Allegano(x)) \in Nat /\ Cardinality(Processi) \in Nat
    BY AlleganoFinito
  <2> QED BY <2>1, <2>2 DEF FileContati
<1> QED BY <1>1, <1>2, <1>3, PTL DEF Spec

-----------------------------------------------------------------------------
(* The plans to their end.                                                 *)

\* The state before move k + 1 of plan s.
Dopo(s, k) == IF k = 0 THEN "BOZZA" ELSE s[k]

\* What is left, r, is what plan s has after its first k states.
Resta(s, k, r) ==
  /\ k \in 0..Len(s) - 1 /\ Len(r) = Len(s) - k
  /\ \A j \in 1..Len(r) : r[j] = s[k + j]

\* A pratica that is being driven through r: nobody stopped, and unless somebody
\* else changed it, or a write back did, it is where its plan has come to.
Guidata(d, r) ==
  /\ d.piano \in 1..12 /\ d.segue \in {"si", "altrui"}
  /\ \E k \in Nat :
       /\ Resta(plans[d.piano], k, r)
       /\ d.segue = "si" /\ "stato" \notin d.perse => d.stato = Dopo(plans[d.piano], k)

\* A pratica that was driven to the end of its plan is in its last state.
Giunta(d) ==
  (d.piano # 0 /\ d.segue = "finita" /\ "stato" \notin d.perse) =>
     d.stato = Dopo(plans[d.piano], Len(plans[d.piano]))

\* A pratica that somebody must be driving.
Attesa(d) == d.piano # 0 /\ d.segue = "si" /\ "stato" \notin d.perse

\* Process p is driving pratica x.
Guida(p, x) == corrente[p] = x /\ resto[p] # << >>

\* The inductive invariant of PianoCompiuto.
Condotte ==
  /\ \A p \in Processi : resto[p] # << >> /\ corrente[p] \in DOMAIN pratiche =>
       Guidata(pratiche[corrente[p]], resto[p])
  /\ \A x \in DOMAIN pratiche : \A p, q \in Processi : Guida(p, x) /\ Guida(q, x) => p = q
  /\ \A x \in DOMAIN pratiche :
       /\ Giunta(pratiche[x])
       /\ Attesa(pratiche[x]) => \E p \in Processi : Guida(p, x)

\* The first state of what is left is the next one of the plan, and the table
\* allows it.
LEMMA ProssimoStato ==
  ASSUME NEW d \in PraticaDemo, NEW r \in Seq(StatoPratica), r # << >>,
         NEW k \in Nat, d.piano \in 1..12, Resta(plans[d.piano], k, r)
  PROVE  /\ Head(r) = Dopo(plans[d.piano], k + 1)
         /\ d.stato = Dopo(plans[d.piano], k) => Transizione(d, Head(r))
         /\ Len(r) = 1 <=> k + 1 = Len(plans[d.piano])
         /\ Len(r) # 1 => Resta(plans[d.piano], k + 1, Tail(r))
<1> DEFINE s == plans[d.piano]
<1>1. Ammesso(s)
  BY PianiAmmessi
<1> HIDE DEF s
<1>2. Resta(s, k, r)
  BY DEF s
<1>3. /\ Len(r) \in Nat \ {0} /\ Head(r) = r[1] /\ Len(Tail(r)) = Len(r) - 1
      /\ \A j \in 1..Len(r) - 1 : Tail(r)[j] = r[j + 1]
  BY Coda
<1>4. Len(s) \in Nat /\ s \in Seq(StatoPratica)
  BY <1>1 DEF Ammesso
<1>5. /\ k \in 0..Len(s) - 1 /\ Len(r) = Len(s) - k
      /\ \A j \in 1..Len(r) : r[j] = s[k + j]
  BY <1>2 DEF Resta
<1>6. Head(r) = s[k + 1] /\ k + 1 \in 1..Len(s)
  BY <1>3, <1>4, <1>5
<1>7. Head(r) = Dopo(s, k + 1)
  BY <1>6 DEF Dopo
<1>8. ASSUME d.stato = Dopo(s, k) PROVE Transizione(d, Head(r))
  <2>1. CASE k = 0
    <3>1. s # << >>
      BY <1>4, <1>6
    <3> QED BY <1>1, <1>6, <1>8, <2>1, <3>1 DEF Dopo, Transizione, Ammesso
  <2>2. CASE k # 0
    <3>1. k \in 1..Len(s) - 1
      BY <1>4, <1>5, <2>2
    <3> QED BY <1>1, <1>6, <1>8, <2>2, <3>1 DEF Dopo, Transizione, Ammesso
  <2> QED BY <2>1, <2>2
<1>9. Len(r) = 1 <=> k + 1 = Len(s)
  BY <1>3, <1>4, <1>5
<1>10. ASSUME Len(r) # 1 PROVE Resta(s, k + 1, Tail(r))
  <2>1. k + 1 \in 0..Len(s) - 1 /\ Len(Tail(r)) = Len(s) - (k + 1)
    BY <1>3, <1>4, <1>5, <1>10
  <2>2. ASSUME NEW j \in 1..Len(Tail(r)) PROVE Tail(r)[j] = s[k + 1 + j]
    <3>1. j + 1 \in 1..Len(r) /\ Tail(r)[j] = r[j + 1] /\ k + (j + 1) = k + 1 + j
      BY <1>3, <2>2
    <3> QED BY <3>1, <1>5
  <2> QED BY <2>1, <2>2 DEF Resta
<1> QED BY <1>7, <1>8, <1>9, <1>10 DEF s

\* A whole plan is left of a new pratica.
LEMMA RestaTutto ==
  ASSUME NEW i \in 1..12, plans[i] # << >>
  PROVE  Resta(plans[i], 0, plans[i])
<1>1. plans[i] \in Seq(StatoPratica)
  BY PianiAmmessi DEF Ammesso
<1>2. Len(plans[i]) \in Nat \ {0}
  BY <1>1, Coda
<1> QED BY <1>2 DEF Resta

\* Steps of a process that drives nothing, and leaves the pratiche as they were.
LEMMA CondotteUguali ==
  ASSUME Tipi, Condotte, NEW p \in Processi, resto[p] = << >>, resto' = resto,
         NEW w, corrente' = [corrente EXCEPT ![p] = w] \/ corrente' = corrente,
         pratiche' = pratiche
  PROVE  Condotte'
<1>1. \A q \in Processi : \A x : Guida(q, x)' <=> Guida(q, x)
  BY DEF Guida, Tipi, TipiProcessi
<1>2. \A q \in Processi : resto[q] # << >> => corrente'[q] = corrente[q]
  BY DEF Tipi, TipiProcessi
<1>3. \A q \in Processi : resto'[q] # << >> /\ corrente'[q] \in DOMAIN pratiche' =>
       Guidata(pratiche'[corrente'[q]], resto'[q])
  BY <1>2 DEF Condotte
<1>4. \A x \in DOMAIN pratiche' : \A q, t \in Processi : Guida(q, x)' /\ Guida(t, x)' => q = t
  BY <1>1 DEF Condotte
<1>5. \A x \in DOMAIN pratiche' :
       /\ Giunta(pratiche'[x])
       /\ Attesa(pratiche'[x]) => \E q \in Processi : Guida(q, x)'
  BY <1>1 DEF Condotte
<1> QED BY <1>3, <1>4, <1>5 DEF Condotte

\* What the steps that drive nothing do to a pratica d, which becomes e: somebody
\* else changes its state, or a write back undoes a change, or neither.
Innocua(d, e) ==
  /\ e.piano = d.piano
  /\ \/ e.segue = "altrui"
     \/ /\ e.segue = d.segue
        /\ "stato" \notin e.perse => "stato" \notin d.perse /\ e.stato = d.stato

LEMMA InnocuaGuidata ==
  ASSUME NEW d, NEW e, Innocua(d, e)
  PROVE  /\ \A r : Guidata(d, r) => Guidata(e, r)
         /\ Giunta(d) => Giunta(e)
         /\ Attesa(e) => Attesa(d)
<1>1. ASSUME NEW r, Guidata(d, r) PROVE Guidata(e, r)
  <2>1. PICK k \in Nat :
          /\ Resta(plans[d.piano], k, r)
          /\ d.segue = "si" /\ "stato" \notin d.perse => d.stato = Dopo(plans[d.piano], k)
    BY <1>1 DEF Guidata
  <2> QED BY <1>1, <2>1 DEF Guidata, Innocua
<1>2. Giunta(d) => Giunta(e)
  BY DEF Giunta, Innocua
<1>3. Attesa(e) => Attesa(d)
  BY DEF Attesa, Innocua
<1> QED BY <1>1, <1>2, <1>3

\* Steps that drive nothing, nor take a pratica from who drives it.
LEMMA CondotteIgnare ==
  ASSUME Tipi, Condotte, resto' = resto, corrente' = corrente,
         DOMAIN pratiche' \subseteq DOMAIN pratiche,
         \A x \in DOMAIN pratiche' : Innocua(pratiche[x], pratiche'[x])
  PROVE  Condotte'
<1>1. \A q \in Processi : \A x : Guida(q, x)' <=> Guida(q, x)
  BY DEF Guida
<1>2. \A q \in Processi : resto'[q] # << >> /\ corrente'[q] \in DOMAIN pratiche' =>
       Guidata(pratiche'[corrente'[q]], resto'[q])
  BY InnocuaGuidata DEF Condotte
<1>3. \A x \in DOMAIN pratiche' : \A q, t \in Processi : Guida(q, x)' /\ Guida(t, x)' => q = t
  BY <1>1 DEF Condotte
<1>4. \A x \in DOMAIN pratiche' :
       /\ Giunta(pratiche'[x])
       /\ Attesa(pratiche'[x]) => \E q \in Processi : Guida(q, x)'
  BY <1>1, InnocuaGuidata DEF Condotte
<1> QED BY <1>2, <1>3, <1>4 DEF Condotte

\* A replacement that is not a move of the seeding.
LEMMA CondotteSostituisce ==
  ASSUME Tipi, Condotte, NEW w, Sostituisce(w), resto' = resto, corrente' = corrente,
         w \in Processi => passo[w] \in {"annota", "allega"}
  PROVE  Condotte'
<1>1. /\ w \in DOMAIN lette /\ DOMAIN pratiche' = DOMAIN pratiche
      /\ w \in Gestori \/ lette[w].scrive.stato = lette[w].letto.stato
  <2>1. w \in DOMAIN lette /\ DOMAIN pratiche' = DOMAIN pratiche
    BY SostituisceEffetto
  <2> QED BY <2>1 DEF Tipi, TipiLette, Pendente
<1>2. ASSUME NEW x \in DOMAIN pratiche, x = lette[w].id
      PROVE  Innocua(pratiche[x], pratiche'[x])
  <2>1. /\ pratiche'[x].stato = lette[w].scrive.stato
        /\ pratiche'[x].piano = pratiche[x].piano
        /\ pratiche'[x].segue = SegueDopo(w, pratiche[x])
        /\ pratiche'[x].perse = pratiche[x].perse \cup Perde(w, pratiche[x])
    BY <1>2, SostituisceEffetto
  <2>2. CASE lette[w].scrive.stato = lette[w].letto.stato
    <3>1. pratiche'[x].segue = pratiche[x].segue
      BY <2>1, <2>2 DEF SegueDopo
    <3>2. "stato" \notin pratiche'[x].perse =>
            "stato" \notin pratiche[x].perse /\ pratiche[x].stato = lette[w].letto.stato
      BY <2>1, PerdeNulla
    <3> QED BY <2>1, <2>2, <3>1, <3>2 DEF Innocua
  <2>3. CASE lette[w].scrive.stato # lette[w].letto.stato
    <3>1. pratiche'[x].segue = "altrui"
      BY <1>1, <2>1, <2>3 DEF SegueDopo
    <3> QED BY <2>1, <3>1 DEF Innocua
  <2> QED BY <2>2, <2>3
<1>3. ASSUME NEW x \in DOMAIN pratiche, x # lette[w].id
      PROVE  Innocua(pratiche[x], pratiche'[x])
  <2>1. pratiche'[x] = pratiche[x]
    BY <1>3, SostituisceEffetto
  <2> QED BY <2>1 DEF Innocua
<1> QED BY <1>1, <1>2, <1>3, CondotteIgnare

\* A process stops driving: what it drove, if still there, was left half way,
\* changed by somebody else or by a write back, or has come to its end.
LEMMA CondotteLascia ==
  ASSUME Tipi, Condotte, NEW p \in Processi, resto' = [resto EXCEPT ![p] = << >>],
         NEW w, corrente' = [corrente EXCEPT ![p] = w] \/ corrente' = corrente,
         DOMAIN pratiche' = DOMAIN pratiche,
         \A x \in DOMAIN pratiche :
           /\ pratiche'[x].piano = pratiche[x].piano
           /\ ~Guida(p, x) => pratiche'[x] = pratiche[x]
           /\ Guida(p, x) =>
                \/ pratiche'[x].segue \in {"interrotta", "altrui"}
                \/ "stato" \in pratiche'[x].perse
                \/ /\ pratiche'[x].segue = "finita"
                   /\ pratiche'[x].stato = Dopo(plans[pratiche[x].piano],
                                                Len(plans[pratiche[x].piano]))
  PROVE  Condotte'
<1>1. /\ resto'[p] = << >>
      /\ \A q \in Processi : q # p => resto'[q] = resto[q] /\ corrente'[q] = corrente[q]
  BY DEF Tipi, TipiProcessi
<1>2. \A q \in Processi : \A x : Guida(q, x)' <=> (q # p /\ Guida(q, x))
  BY <1>1 DEF Guida
<1>4. \A q \in Processi : resto'[q] # << >> /\ corrente'[q] \in DOMAIN pratiche' =>
        Guidata(pratiche'[corrente'[q]], resto'[q])
  <2> SUFFICES ASSUME NEW q \in Processi, resto'[q] # << >>, corrente'[q] \in DOMAIN pratiche'
               PROVE  Guidata(pratiche'[corrente'[q]], resto'[q])
    OBVIOUS
  <2>1. q # p /\ resto'[q] = resto[q] /\ corrente'[q] = corrente[q]
    BY <1>1
  <2>2. Guida(q, corrente[q]) /\ ~Guida(p, corrente[q])
    BY <2>1 DEF Condotte, Guida
  <2>3. Guidata(pratiche[corrente[q]], resto[q])
    BY <2>1 DEF Condotte
  <2>4. pratiche'[corrente[q]] = pratiche[corrente[q]]
    BY <2>1, <2>2
  <2> QED BY <2>1, <2>3, <2>4
<1>5. \A x \in DOMAIN pratiche' : \A q, t \in Processi : Guida(q, x)' /\ Guida(t, x)' => q = t
  BY <1>2 DEF Condotte
<1>6. ASSUME NEW x \in DOMAIN pratiche'
      PROVE  /\ Giunta(pratiche'[x])
             /\ Attesa(pratiche'[x]) => \E q \in Processi : Guida(q, x)'
  <2>1. CASE Guida(p, x)
    BY <2>1 DEF Giunta, Attesa
  <2>2. CASE ~Guida(p, x)
    <3>1. pratiche'[x] = pratiche[x]
      BY <2>2
    <3>2. Giunta(pratiche'[x])
      BY <3>1 DEF Condotte
    <3>3. Attesa(pratiche'[x]) => \E q \in Processi : q # p /\ Guida(q, x)
      BY <2>2, <3>1 DEF Condotte
    <3> QED BY <3>2, <3>3, <1>2
  <2> QED BY <2>1, <2>2
<1> QED BY <1>4, <1>5, <1>6 DEF Condotte

\* A move that is not the last of its plan, of a pratica that is still there or
\* not.
LEMMA CondotteAvanza ==
  ASSUME Tipi, Condotte, NEW p \in Processi, NEW x, Guida(p, x),
         Len(resto[p]) # 1, resto' = [resto EXCEPT ![p] = Tail(@)], corrente' = corrente,
         DOMAIN pratiche' = DOMAIN pratiche,
         \A y \in DOMAIN pratiche : y # x => pratiche'[y] = pratiche[y],
         x \in DOMAIN pratiche =>
           /\ pratiche'[x].stato = Head(resto[p]) /\ pratiche'[x].segue = pratiche[x].segue
           /\ pratiche'[x].piano = pratiche[x].piano
  PROVE  Condotte'
<1>1. resto[p] \in Seq(StatoPratica) /\ resto[p] # << >> /\ corrente[p] = x
  BY DEF Tipi, TipiProcessi, Guida
<1>2. ASSUME x \in DOMAIN pratiche
      PROVE  Guidata(pratiche'[x], Tail(resto[p])) /\ ~(pratiche[x].segue = "finita")
  <2>1. Guidata(pratiche[x], resto[p]) /\ pratiche[x] \in PraticaDemo
    BY <1>1, <1>2 DEF Condotte, Tipi, TipiPratiche
  <2>2. PICK k \in Nat : Resta(plans[pratiche[x].piano], k, resto[p])
    BY <2>1 DEF Guidata
  <2>3. /\ pratiche[x].piano \in 1..12 /\ pratiche[x].segue \in {"si", "altrui"}
    BY <2>1 DEF Guidata
  <2>4. /\ Head(resto[p]) = Dopo(plans[pratiche[x].piano], k + 1)
        /\ Resta(plans[pratiche[x].piano], k + 1, Tail(resto[p]))
    BY <1>1, <2>1, <2>2, <2>3, ProssimoStato
  <2> QED BY <1>2, <2>3, <2>4 DEF Guidata
<1>3. /\ Tail(resto[p]) # << >> /\ resto'[p] = Tail(resto[p])
      /\ \A q \in Processi : q # p => resto'[q] = resto[q]
  BY <1>1, Coda DEF Tipi, TipiProcessi
<1>4. \A q \in Processi : \A y : Guida(q, y)' <=> Guida(q, y)
  BY <1>1, <1>3 DEF Guida
<1>5. \A q \in Processi : resto'[q] # << >> /\ corrente'[q] \in DOMAIN pratiche' =>
        Guidata(pratiche'[corrente'[q]], resto'[q])
  <2> SUFFICES ASSUME NEW q \in Processi, resto'[q] # << >>, corrente'[q] \in DOMAIN pratiche'
               PROVE  Guidata(pratiche'[corrente'[q]], resto'[q])
    OBVIOUS
  <2>1. CASE q = p
    BY <1>1, <1>2, <1>3, <2>1
  <2>2. CASE q # p
    <3>1. resto'[q] = resto[q] /\ corrente'[q] = corrente[q] /\ Guida(q, corrente[q])
      BY <1>3, <2>2 DEF Guida
    <3>2. corrente[q] # x
      BY <2>2, <3>1 DEF Condotte
    <3> QED BY <3>1, <3>2 DEF Condotte
  <2> QED BY <2>1, <2>2
<1>6. \A y \in DOMAIN pratiche' : \A q, t \in Processi : Guida(q, y)' /\ Guida(t, y)' => q = t
  BY <1>4 DEF Condotte
<1>7. ASSUME NEW y \in DOMAIN pratiche'
      PROVE  /\ Giunta(pratiche'[y])
             /\ Attesa(pratiche'[y]) => \E q \in Processi : Guida(q, y)'
  <2>1. CASE y = x
    BY <1>2, <1>4, <2>1 DEF Giunta
  <2>2. CASE y # x
    BY <1>4, <2>2 DEF Condotte
  <2> QED BY <2>1, <2>2
<1> QED BY <1>5, <1>6, <1>7 DEF Condotte

LEMMA CondotteMuove ==
  ASSUME Tipi, Condotte, NEW p \in Processi, Muove(p)
  PROVE  Condotte'
<1> DEFINE x == corrente[p]
<1>1. /\ passo[p] \in {"primo", "muove"} /\ Sostituisce(p) /\ corrente' = corrente
      /\ resto' = [resto EXCEPT ![p] = Tail(@)] /\ p \notin Gestori
      /\ resto[p] # << >> /\ resto[p] \in Seq(StatoPratica)
  BY DemoAssumption DEF Muove, Tipi, TipiProcessi
<1>2. /\ p \in DOMAIN lette /\ DOMAIN pratiche' = DOMAIN pratiche /\ lette[p].id = x
      /\ lette[p].scrive.stato = Head(resto[p])
      /\ lette[p].scrive.stato # lette[p].letto.stato
  <2>1. p \in DOMAIN lette /\ DOMAIN pratiche' = DOMAIN pratiche
    BY <1>1, SostituisceEffetto
  <2> QED BY <1>1, <2>1 DEF Tipi, TipiLette, Pendente
<1>3. Guida(p, x) /\ \A y : Guida(p, y) <=> y = x
  BY <1>1 DEF Guida
<1>4. \A y \in DOMAIN pratiche : y # x => pratiche'[y] = pratiche[y]
  BY <1>1, <1>2, SostituisceEffetto
<1>5. x \in DOMAIN pratiche =>
        /\ pratiche'[x].stato = Head(resto[p]) /\ pratiche'[x].piano = pratiche[x].piano
        /\ pratiche'[x].segue = IF Len(resto[p]) = 1 /\ pratiche[x].segue = "si"
                               THEN "finita" ELSE pratiche[x].segue
  <2> SUFFICES ASSUME x \in DOMAIN pratiche
               PROVE  /\ pratiche'[x].stato = Head(resto[p])
                      /\ pratiche'[x].piano = pratiche[x].piano
                      /\ pratiche'[x].segue = IF Len(resto[p]) = 1 /\ pratiche[x].segue = "si"
                                             THEN "finita" ELSE pratiche[x].segue
    OBVIOUS
  <2>1. /\ pratiche'[x].stato = lette[p].scrive.stato
        /\ pratiche'[x].piano = pratiche[x].piano
        /\ pratiche'[x].segue = SegueDopo(p, pratiche[x])
    BY <1>1, <1>2, SostituisceEffetto
  <2> QED BY <1>1, <1>2, <2>1 DEF SegueDopo
<1> HIDE DEF x
<1>6. CASE Len(resto[p]) # 1
  BY <1>1, <1>2, <1>3, <1>4, <1>5, <1>6, CondotteAvanza
<1>7. CASE Len(resto[p]) = 1
  <2>1. resto' = [resto EXCEPT ![p] = << >>]
    <3>1. Tail(resto[p]) = << >>
      BY <1>1, <1>7, Coda
    <3> QED BY <1>1, <3>1
  <2>2. ASSUME x \in DOMAIN pratiche
        PROVE  /\ pratiche[x].segue \in {"si", "altrui"}
               /\ Head(resto[p]) = Dopo(plans[pratiche[x].piano], Len(plans[pratiche[x].piano]))
    <3>1. Guidata(pratiche[x], resto[p]) /\ pratiche[x] \in PraticaDemo
      BY <1>1, <2>2 DEF x, Condotte, Tipi, TipiPratiche
    <3> QED BY <1>1, <1>7, <3>1, ProssimoStato DEF Guidata
  <2>3. ASSUME NEW y \in DOMAIN pratiche
        PROVE  /\ pratiche'[y].piano = pratiche[y].piano
               /\ ~Guida(p, y) => pratiche'[y] = pratiche[y]
               /\ Guida(p, y) =>
                    \/ pratiche'[y].segue \in {"interrotta", "altrui"}
                    \/ /\ pratiche'[y].segue = "finita"
                       /\ pratiche'[y].stato = Dopo(plans[pratiche[y].piano],
                                                    Len(plans[pratiche[y].piano]))
    <3>1. CASE y = x
      BY <1>3, <1>5, <1>7, <2>2, <2>3, <3>1
    <3>2. CASE y # x
      BY <1>3, <1>4, <2>3, <3>2
    <3> QED BY <3>1, <3>2
  <2> QED BY <1>1, <1>2, <2>1, <2>3, CondotteLascia
<1> QED BY <1>6, <1>7

LEMMA CondotteMuoveFallisce ==
  ASSUME Tipi, Condotte, NEW p \in Processi, MuoveFallisce(p)
  PROVE  Condotte'
<1>1. /\ resto[p] # << >> /\ resto[p] \in Seq(StatoPratica) /\ corrente' = corrente
      /\ resto' = [resto EXCEPT ![p] = << >>] /\ DOMAIN pratiche' = DOMAIN pratiche
  BY DEF MuoveFallisce, Tipi, TipiProcessi
<1>2. \A y : Guida(p, y) <=> y = corrente[p]
  BY <1>1 DEF Guida
<1>3. ASSUME NEW y \in DOMAIN pratiche, y # corrente[p]
      PROVE  pratiche'[y] = pratiche[y]
  BY <1>3 DEF MuoveFallisce
<1>4. ASSUME NEW y \in DOMAIN pratiche, y = corrente[p]
      PROVE  /\ pratiche'[y].piano = pratiche[y].piano
             /\ \/ pratiche'[y].segue \in {"interrotta", "altrui"}
                \/ "stato" \in pratiche'[y].perse
  <2>1. Guidata(pratiche[y], resto[p]) /\ pratiche[y] \in PraticaDemo
    BY <1>1, <1>4 DEF Condotte, Tipi, TipiPratiche
  <2>2. /\ pratiche[y].segue \in {"si", "altrui"}
        /\ pratiche[y].segue = "si" /\ "stato" \notin pratiche[y].perse =>
             Transizione(pratiche[y], Head(resto[p]))
    <3>1. PICK k \in Nat :
            /\ Resta(plans[pratiche[y].piano], k, resto[p])
            /\ pratiche[y].segue = "si" /\ "stato" \notin pratiche[y].perse =>
                 pratiche[y].stato = Dopo(plans[pratiche[y].piano], k)
      BY <2>1 DEF Guidata
    <3>2. pratiche[y].piano \in 1..12 /\ pratiche[y].segue \in {"si", "altrui"}
      BY <2>1 DEF Guidata
    <3> QED BY <1>1, <2>1, <3>1, <3>2, ProssimoStato
  <2>3. pratiche'[y] = IF /\ pratiche[y].segue = "si"
                          /\ p \in DOMAIN lette \/ Transizione(pratiche[y], Head(resto[p]))
                       THEN [pratiche[y] EXCEPT !.segue = "interrotta"]
                       ELSE pratiche[y]
    BY <1>4 DEF MuoveFallisce
  <2> QED BY <2>1, <2>2, <2>3 DEF PraticaDemo
<1> QED BY <1>1, <1>2, <1>3, <1>4, CondotteLascia

LEMMA CondotteFerma ==
  ASSUME Tipi, Condotte, NEW p \in Processi, Ferma(p)
  PROVE  Condotte'
<1>1. /\ corrente' = [corrente EXCEPT ![p] = Nessuna]
      /\ resto' = [resto EXCEPT ![p] = << >>]
      /\ DOMAIN pratiche' = DOMAIN pratiche
  BY DEF Ferma
<1>2. ASSUME NEW x \in DOMAIN pratiche
      PROVE  /\ pratiche'[x].piano = pratiche[x].piano
             /\ ~Guida(p, x) => pratiche'[x] = pratiche[x]
             /\ Guida(p, x) => pratiche'[x].segue \in {"interrotta", "altrui"}
  <2>1. pratiche[x] \in PraticaDemo
    BY DEF Tipi, TipiPratiche
  <2>2. Guida(p, x) => pratiche[x].segue \in {"si", "altrui"}
    BY DEF Condotte, Guida, Guidata
  <2>3. pratiche'[x] = IF Guida(p, x) /\ pratiche[x].segue = "si"
                       THEN [pratiche[x] EXCEPT !.segue = "interrotta"] ELSE pratiche[x]
    BY DEF Ferma, Guida
  <2> QED BY <2>1, <2>2, <2>3 DEF PraticaDemo
<1> QED BY <1>1, <1>2, CondotteLascia

\* A new pratica, that its creator drives if it has a plan.
LEMMA CondotteNuova ==
  ASSUME Tipi, Condotte, NEW x \in Nuovi, NEW v, pratiche' = Con(pratiche, x, v),
         Giunta(v),
         \/ /\ UNCHANGED <<corrente, resto>> /\ v.piano = 0
         \/ \E p \in Processi :
              /\ resto[p] = << >> /\ corrente' = [corrente EXCEPT ![p] = x]
              /\ \E r : /\ resto' = [resto EXCEPT ![p] = r]
                        /\ IF r = << >> THEN v.segue = "finita" ELSE Guidata(v, r)
  PROVE  Condotte'
<1>1. /\ DOMAIN pratiche' = DOMAIN pratiche \cup {x} /\ pratiche'[x] = v
      /\ \A y \in DOMAIN pratiche : y # x => pratiche'[y] = pratiche[y]
      /\ x \notin DOMAIN pratiche
  BY DEF Con, Nuovi
<1>2. \A q \in Processi : corrente[q] # x
  BY DEF Nuovi
<1>3. CASE UNCHANGED <<corrente, resto>> /\ v.piano = 0
  <2>1. \A q \in Processi : \A y : Guida(q, y)' <=> Guida(q, y)
    BY <1>3 DEF Guida
  <2>2. \A q \in Processi : resto'[q] # << >> /\ corrente'[q] \in DOMAIN pratiche' =>
          Guidata(pratiche'[corrente'[q]], resto'[q])
    BY <1>1, <1>2, <1>3 DEF Condotte
  <2>3. \A y \in DOMAIN pratiche' : \A q, t \in Processi : Guida(q, y)' /\ Guida(t, y)' => q = t
    <3>1. \A q \in Processi : ~Guida(q, x)
      BY <1>2 DEF Guida
    <3> QED BY <1>1, <2>1, <3>1 DEF Condotte
  <2>4. \A y \in DOMAIN pratiche' :
          /\ Giunta(pratiche'[y])
          /\ Attesa(pratiche'[y]) => \E q \in Processi : Guida(q, y)'
    BY <1>1, <1>3, <2>1 DEF Condotte, Attesa
  <2> QED BY <2>2, <2>3, <2>4 DEF Condotte
<1>4. ASSUME NEW p \in Processi, resto[p] = << >>, corrente' = [corrente EXCEPT ![p] = x],
             NEW r, resto' = [resto EXCEPT ![p] = r],
             IF r = << >> THEN v.segue = "finita" ELSE Guidata(v, r)
      PROVE  Condotte'
  <2>1. /\ resto'[p] = r /\ corrente'[p] = x
        /\ \A q \in Processi : q # p => resto'[q] = resto[q] /\ corrente'[q] = corrente[q]
    BY <1>4 DEF Tipi, TipiProcessi
  <2>2. \A q \in Processi : \A y \in DOMAIN pratiche :
          Guida(q, y)' <=> Guida(q, y)
    BY <1>1, <1>4, <2>1 DEF Guida
  <2>3. \A q \in Processi : Guida(q, x)' => q = p
    BY <1>2, <2>1 DEF Guida
  <2>4. \A q \in Processi : resto'[q] # << >> /\ corrente'[q] \in DOMAIN pratiche' =>
          Guidata(pratiche'[corrente'[q]], resto'[q])
    <3> SUFFICES ASSUME NEW q \in Processi, resto'[q] # << >>, corrente'[q] \in DOMAIN pratiche'
                 PROVE  Guidata(pratiche'[corrente'[q]], resto'[q])
      OBVIOUS
    <3>1. CASE q = p
      BY <1>1, <1>4, <2>1, <3>1
    <3>2. CASE q # p
      BY <1>1, <1>2, <2>1, <3>2 DEF Condotte
    <3> QED BY <3>1, <3>2
  <2>5. \A y \in DOMAIN pratiche' : \A q, t \in Processi : Guida(q, y)' /\ Guida(t, y)' => q = t
    BY <1>1, <2>2, <2>3 DEF Condotte
  <2>6. ASSUME NEW y \in DOMAIN pratiche'
        PROVE  /\ Giunta(pratiche'[y])
               /\ Attesa(pratiche'[y]) => \E q \in Processi : Guida(q, y)'
    <3>1. CASE y = x
      <4>1. r # << >> => Guida(p, x)'
        BY <2>1 DEF Guida
      <4> QED BY <1>1, <1>4, <3>1, <4>1 DEF Attesa
    <3>2. CASE y # x
      BY <1>1, <2>2, <3>2 DEF Condotte
    <3> QED BY <3>1, <3>2
  <2> QED BY <2>4, <2>5, <2>6 DEF Condotte
<1> QED BY <1>3, <1>4

LEMMA CondotteCrea ==
  ASSUME Tipi, Condotte, NEW p \in Processi, Crea(p)
  PROVE  Condotte'
<1>1. resto[p] = << >>
  BY DEF Crea, Tipi, TipiProcessi
<1>2. PICK x \in Nuovi, i \in Indici :
       /\ pratiche' = Con(pratiche, x,
            [stato |-> "BOZZA", docs |-> 0, piano |-> i, perse |-> {},
             segue |-> IF plans[i] = << >> THEN "finita" ELSE "si"])
       /\ corrente' = [corrente EXCEPT ![p] = x]
       /\ resto' = [resto EXCEPT ![p] = plans[i]]
  BY DEF Crea
<1>3. i \in 1..12
  <2>1. DOMAIN plans = 1..12
    BY DEF plans
  <2> QED BY <2>1, DemoAssumption
<1> DEFINE v == [stato |-> "BOZZA", docs |-> 0, piano |-> i, perse |-> {},
                 segue |-> IF plans[i] = << >> THEN "finita" ELSE "si"]
<1>4. /\ v.piano = i /\ v.stato = "BOZZA"
      /\ v.segue = IF plans[i] = << >> THEN "finita" ELSE "si"
  OBVIOUS
<1>5. pratiche' = Con(pratiche, x, v)
  BY <1>2
<1> HIDE DEF v
<1>6. Giunta(v)
  <2>1. plans[i] = << >> => Len(plans[i]) = 0
    OBVIOUS
  <2> QED BY <1>4, <2>1 DEF Giunta, Dopo
<1>7. plans[i] # << >> => Guidata(v, plans[i])
  <2> SUFFICES ASSUME plans[i] # << >> PROVE Guidata(v, plans[i])
    OBVIOUS
  <2>1. Resta(plans[i], 0, plans[i]) /\ v.stato = Dopo(plans[i], 0)
    BY <1>3, <1>4, RestaTutto DEF Dopo
  <2> QED BY <1>3, <1>4, <2>1 DEF Guidata
<1>8. IF plans[i] = << >> THEN v.segue = "finita" ELSE Guidata(v, plans[i])
  BY <1>4, <1>7
<1> QED BY <1>1, <1>2, <1>5, <1>6, <1>8, CondotteNuova

LEMMA CondotteUtente ==
  ASSUME Tipi, Condotte, NEW x \in PraticaId, CreaUtente(x) \/ EliminaUtente(x)
  PROVE  Condotte'
<1>1. corrente' = corrente /\ resto' = resto
  BY DEF CreaUtente, EliminaUtente
<1>2. CASE CreaUtente(x)
  <2>1. PICK v : pratiche' = Con(pratiche, x, v) /\ v.piano = 0
    BY <1>2 DEF CreaUtente
  <2>2. x \in Nuovi
    BY <1>2 DEF CreaUtente
  <2>3. Giunta(v)
    BY <2>1 DEF Giunta
  <2> QED BY <1>1, <2>1, <2>2, <2>3, CondotteNuova
<1>3. CASE EliminaUtente(x)
  <2>1. /\ DOMAIN pratiche' \subseteq DOMAIN pratiche
        /\ \A y \in DOMAIN pratiche' : pratiche'[y] = pratiche[y]
    BY <1>3 DEF EliminaUtente, Senza, Restrict
  <2> QED BY <1>1, <2>1, CondotteIgnare DEF Innocua
<1> QED BY <1>2, <1>3

LEMMA CondottePasso ==
  ASSUME Tipi, Condotte, [Next]_vars
  PROVE  Condotte'
<1>1. ASSUME pratiche' = pratiche, corrente' = corrente, resto' = resto PROVE Condotte'
  BY <1>1, CondotteIgnare DEF Innocua
<1>2. CASE UNCHANGED vars
  BY <1>1, <1>2 DEF vars
<1>3. ASSUME NEW p \in Processi,
             \/ Avvia(p) \/ SenzaConto(p) \/ Elenca(p) \/ ElencaMale(p) \/ CreaFallisce(p)
             \/ MuoveLegge(p) \/ AnnotaLegge(p) \/ VersoFile(p) \/ AllegaLegge(p)
             \/ Prosegue(p)
      PROVE  Condotte'
  <2>1. pratiche' = pratiche /\ corrente' = corrente /\ resto' = resto
    BY <1>3 DEF Avvia, SenzaConto, Elenca, ElencaMale, CreaFallisce, MuoveLegge, AnnotaLegge,
            VersoFile, AllegaLegge, Prosegue, Conta
  <2> QED BY <1>1, <2>1
<1>4. ASSUME NEW p \in Processi, Serve(p) \/ \E x \in PraticaId : Guarda(p, x)
      PROVE  Condotte'
  <2>1. /\ pratiche' = pratiche /\ resto' = resto /\ resto[p] = << >>
        /\ (\E w : corrente' = [corrente EXCEPT ![p] = w]) \/ corrente' = corrente
    BY <1>4 DEF Serve, Guarda, Tipi, TipiProcessi
  <2> QED BY <2>1, CondotteUguali
<1>5. ASSUME NEW p \in Processi, Annota(p) \/ Allega(p) PROVE Condotte'
  <2>1. /\ corrente' = corrente /\ resto' = resto /\ passo[p] \in {"annota", "allega"}
        /\ Sostituisce(p) \/ Rinuncia(p)
    BY <1>5 DEF Annota, Allega
  <2>2. CASE Rinuncia(p)
    BY <1>1, <2>1, <2>2 DEF Rinuncia
  <2>3. CASE Sostituisce(p)
    BY <2>1, <2>3, CondotteSostituisce
  <2> QED BY <2>1, <2>2, <2>3
<1>6. ASSUME NEW h \in Gestori, Richiesta(h) PROVE Condotte'
  <2>1. corrente' = corrente /\ resto' = resto /\ h \notin Processi
    BY <1>6, DemoAssumption DEF Richiesta, EliminaFile, AltraModifica, CambiaStato, Conclude
  <2>2. CASE Sostituisce(h)
    BY <2>1, <2>2, CondotteSostituisce
  <2>3. CASE ~Sostituisce(h)
    <3>1. pratiche' = pratiche
      BY <1>6, <2>3 DEF Richiesta, EliminaFile, AltraModifica, CambiaStato, Conclude, Rinuncia
    <3> QED BY <1>1, <2>1, <3>1
  <2> QED BY <2>2, <2>3
<1> QED BY <1>2, <1>3, <1>4, <1>5, <1>6, CondotteCrea, CondotteMuove, CondotteMuoveFallisce,
        CondotteFerma, CondotteUtente DEF Next, Semina

\* Of the pratiche whose state no write back undid and nobody else changed, one
\* that the seeding has driven to the end of its plan is in the last state of
\* that plan, and one that neither a stop nor a failed call has left half way is
\* being driven by a process, however starts and requests overlap between the
\* read and the replacement of a document.
THEOREM PianoCompiutoDemo == Spec => []PianoCompiuto
<1> DEFINE Inv == Tipi /\ Condotte
<1>1. Init => Inv
  <2> SUFFICES ASSUME Init PROVE Condotte
    BY TipiInit
  <2>1. DOMAIN pratiche = {}
    BY DEF Init
  <2> QED BY <2>1 DEF Condotte
<1>2. Inv /\ [Next]_vars => Inv'
  BY TipiNext, CondottePasso
<1>3. Inv => PianoCompiuto
  <2> SUFFICES ASSUME Inv, NEW x \in DOMAIN pratiche, pratiche[x].piano # 0,
                      pratiche[x].segue # "altrui", "stato" \notin pratiche[x].perse
               PROVE  LET i == pratiche[x].piano IN
                      /\ pratiche[x].segue = "finita" =>
                           pratiche[x].stato = IF plans[i] = << >> THEN "BOZZA"
                                               ELSE plans[i][Len(plans[i])]
                      /\ pratiche[x].segue = "si" =>
                           \E p \in Processi : corrente[p] = x /\ resto[p] # << >>
    BY DEF PianoCompiuto
  <2>1. pratiche[x].piano \in 1..12
    BY PianiAmmessi DEF Tipi, TipiPratiche, PraticaDemo
  <2>2. plans[pratiche[x].piano] = << >> <=> Len(plans[pratiche[x].piano]) = 0
    BY <2>1, PianiAmmessi DEF Ammesso
  <2>3. /\ Giunta(pratiche[x])
        /\ pratiche[x].segue = "si" => \E p \in Processi : Guida(p, x)
    BY DEF Condotte, Attesa
  <2> QED BY <2>2, <2>3 DEF Giunta, Dopo, Guida
<1> QED BY <1>1, <1>2, <1>3, PTL DEF Spec

-----------------------------------------------------------------------------
(* The starts (Avvio).                                                     *)

Conti == UNION {[D -> Avvii!Conto] : D \in SUBSET Avvii!Email}

Archivio == [conti : Conti, regole : SUBSET Regole]

\* The type of the state, and where a process is with which store.
TipiAvvio ==
  /\ ambiente \in Ambienti
  /\ passoAvvio \in [Processi -> {"spento", "apre", "semina", "attivo"}]
  /\ usa \in [Processi -> {"nessuno", "mongo", "memory"}]
  /\ daFare \in [Processi -> SUBSET Semi]
  /\ db \in Archivio
  /\ mem \in [Processi -> Archivio]
  /\ confermate \subseteq Regole
  /\ \A p \in Processi :
       /\ passoAvvio[p] = "spento" <=> usa[p] = "nessuno"
       /\ passoAvvio[p] = "apre" => usa[p] = "mongo"
       /\ passoAvvio[p] \in {"spento", "attivo"} => daFare[p] = {}
       /\ usa[p] # "memory" => mem[p] = Avvii!Vuoto

LEMMA TipiAvvioTypeOK == Avvii!AvvioAssumption /\ TipiAvvio => Avvii!TypeOK
<1> SUFFICES ASSUME Avvii!AvvioAssumption, TipiAvvio PROVE Avvii!TypeOK
  OBVIOUS
<1>1. ASSUME NEW c \in Archivio PROVE Avvii!Contenuto(c)
  <2>1. PICK D \in SUBSET Avvii!Email : c.conti \in [D -> Avvii!Conto]
    BY DEF Archivio, Conti
  <2>2. c.regole \subseteq Regole
    BY DEF Archivio
  <2> QED BY <2>1, <2>2 DEF Avvii!Contenuto
<1>2. Avvii!Contenuto(db) /\ \A p \in Processi : Avvii!Contenuto(mem[p])
  BY <1>1 DEF TipiAvvio
<1> QED BY <1>2 DEF TipiAvvio, Avvii!TypeOK

\* Nothing is lost from an archive c that becomes d: no account or id, and no
\* password becomes missing.  A role may become that of an administrator or, if
\* the account is not a seed, of an applicant; and a seed account is never born
\* as an applicant.
Cresce(c, d) ==
  /\ \A e \in DOMAIN c.conti :
       /\ e \in DOMAIN d.conti
       /\ d.conti[e].id = c.conti[e].id
       /\ \/ d.conti[e].ruolo \in {c.conti[e].ruolo, "ADMIN"}
          \/ d.conti[e].ruolo = "RICHIEDENTE" /\ e \in Altri
       /\ c.conti[e].password # "nessuna" => d.conti[e].password # "nessuna"
  /\ \A e \in DOMAIN d.conti \ DOMAIN c.conti :
       e \in Semi => d.conti[e].ruolo # "RICHIEDENTE"

LEMMA SemiNonAltri == \A e \in Semi : e \notin Altri
BY SeminaAssumption DEF Avvii!AvvioAssumption

LEMMA CresceUguale == \A c : Cresce(c, c)
BY DEF Cresce

\* An account that is inserted, or whose fields are set, and the rest as it is.
LEMMA ContiCon ==
  ASSUME NEW c \in Conti, NEW e \in Avvii!Email, NEW v \in Avvii!Conto
  PROVE  Con(c, e, v) \in Conti
<1>1. PICK D \in SUBSET Avvii!Email : c \in [D -> Avvii!Conto]
  BY DEF Conti
<1>2. Con(c, e, v) \in [D \cup {e} -> Avvii!Conto]
  BY <1>1 DEF Con
<1> QED BY <1>2 DEF Conti

LEMMA ContiTipo ==
  ASSUME NEW c \in Conti, NEW e \in DOMAIN c
  PROVE  e \in Avvii!Email /\ c[e] \in Avvii!Conto
BY DEF Conti

\* What an upsert of account e leaves.
Aggiornato(c, d, e, ruolo, pw) ==
  /\ DOMAIN d = DOMAIN c \cup {e}
  /\ \A x \in DOMAIN c : x # e => d[x] = c[x]
  /\ d[e] \in Avvii!Conto /\ d[e].password = pw
  /\ IF e \in DOMAIN c
     THEN d[e].id = c[e].id /\ d[e].ruolo = c[e].ruolo
     ELSE d[e].ruolo = ruolo

LEMMA UpsertConti ==
  ASSUME NEW c \in Conti, NEW e \in Avvii!Email, NEW id \in Ident,
         NEW ruolo \in {"BACKOFFICE", "ADMIN", "RICHIEDENTE"}, NEW pw \in {"seme", "script"},
         NEW d, d = Avvii!Upsert(c, e, id, ruolo, pw)
  PROVE  d \in Conti /\ Aggiornato(c, d, e, ruolo, pw)
<1>1. CASE e \in DOMAIN c
  <2>1. c[e] \in Avvii!Conto
    BY <1>1, ContiTipo
  <2>2. d = [c EXCEPT ![e].password = pw]
    BY <1>1 DEF Avvii!Upsert
  <2>3. [c[e] EXCEPT !.password = pw] \in Avvii!Conto
    BY <2>1 DEF Avvii!Conto
  <2>4. d \in Conti
    <3>1. PICK D \in SUBSET Avvii!Email : c \in [D -> Avvii!Conto]
      BY DEF Conti
    <3>2. d \in [D -> Avvii!Conto]
      BY <1>1, <2>2, <2>3, <3>1
    <3> QED BY <3>2 DEF Conti
  <2>5. DOMAIN d = DOMAIN c /\ d[e] = [c[e] EXCEPT !.password = pw]
        /\ \A x \in DOMAIN c : x # e => d[x] = c[x]
    BY <1>1, <2>2
  <2>6. /\ [c[e] EXCEPT !.password = pw].id = c[e].id
        /\ [c[e] EXCEPT !.password = pw].ruolo = c[e].ruolo
        /\ [c[e] EXCEPT !.password = pw].password = pw
    BY <2>1 DEF Avvii!Conto
  <2> QED BY <1>1, <2>3, <2>4, <2>5, <2>6 DEF Aggiornato
<1>2. CASE e \notin DOMAIN c
  <2> DEFINE v == [id |-> id, ruolo |-> ruolo, password |-> pw]
  <2>1. d = Con(c, e, v)
    BY <1>2 DEF Avvii!Upsert, Avvii!Con, Con
  <2>2. v \in Avvii!Conto /\ v.ruolo = ruolo /\ v.password = pw
    BY DEF Avvii!Conto
  <2>3. /\ DOMAIN d = DOMAIN c \cup {e} /\ d[e] = v
        /\ \A x \in DOMAIN c : x # e => d[x] = c[x]
    BY <2>1 DEF Con
  <2>4. d \in Conti
    BY <2>1, <2>2, ContiCon
  <2> HIDE DEF v
  <2> QED BY <1>2, <2>2, <2>3, <2>4 DEF Aggiornato
<1> QED BY <1>1, <1>2

\* What is written of account e.
Scritto(a, d, e) ==
  /\ d \in Archivio /\ Cresce(a, d)
  /\ e \in DOMAIN d.conti /\ d.conti[e].password # "nessuna"
  /\ d.regole = a.regole

LEMMA UpsertCresce ==
  ASSUME NEW a \in Archivio, NEW e \in Avvii!Email, NEW id \in Ident,
         NEW ruolo \in {"BACKOFFICE", "ADMIN"}, NEW pw \in {"seme", "script"},
         NEW d, d = [a EXCEPT !.conti = Avvii!Upsert(@, e, id, ruolo, pw)]
  PROVE  Scritto(a, d, e)
<1> DEFINE c == Avvii!Upsert(a.conti, e, id, ruolo, pw)
<1>1. a.conti \in Conti
  BY DEF Archivio
<1>2. /\ c \in Conti /\ DOMAIN c = DOMAIN a.conti \cup {e}
      /\ \A x \in DOMAIN a.conti : x # e => c[x] = a.conti[x]
      /\ c[e] \in Avvii!Conto /\ c[e].password = pw
      /\ e \in DOMAIN a.conti => c[e].id = a.conti[e].id /\ c[e].ruolo = a.conti[e].ruolo
      /\ e \notin DOMAIN a.conti => c[e].ruolo = ruolo
  <2>1. c = Avvii!Upsert(a.conti, e, id, ruolo, pw)
    OBVIOUS
  <2> HIDE DEF c
  <2>2. c \in Conti /\ Aggiornato(a.conti, c, e, ruolo, pw)
    BY <1>1, <2>1, UpsertConti
  <2> QED BY <2>2 DEF Aggiornato
<1> HIDE DEF c
<1>3. d \in Archivio /\ d.conti = c /\ d.regole = a.regole
  <2>1. d = [a EXCEPT !.conti = c]
    BY DEF c
  <2> QED BY <1>2, <2>1 DEF Archivio
<1>4. Cresce(a, d)
  BY <1>2, <1>3 DEF Cresce
<1> QED BY <1>2, <1>3, <1>4 DEF Scritto

LEMMA RegistraCresce ==
  ASSUME NEW a \in Archivio, NEW e \in Avvii!Email \ DOMAIN a.conti,
         NEW v \in Avvii!Conto, e \notin Semi,
         NEW d, d = [a EXCEPT !.conti = Avvii!Con(@, e, v)]
  PROVE  d \in Archivio /\ Cresce(a, d) /\ d.regole = a.regole
<1> DEFINE c == Avvii!Con(a.conti, e, v)
<1>1. c \in Conti
  BY ContiCon DEF Archivio, Con, Avvii!Con
<1>2. /\ DOMAIN c = DOMAIN a.conti \cup {e}
      /\ \A x \in DOMAIN a.conti : c[x] = a.conti[x]
  BY DEF Avvii!Con
<1>3. d \in Archivio /\ d.conti = c /\ d.regole = a.regole
  <2>1. d = [a EXCEPT !.conti = c]
    OBVIOUS
  <2> HIDE DEF c
  <2> QED BY <1>1, <2>1 DEF Archivio
<1> HIDE DEF c
<1>4. Cresce(a, d)
  BY <1>2, <1>3 DEF Cresce
<1> QED BY <1>3, <1>4

LEMMA PasswordCresce ==
  ASSUME NEW a \in Archivio, NEW e \in DOMAIN a.conti,
         NEW d, d = [a EXCEPT !.conti[e].password = "scelta"]
  PROVE  d \in Archivio /\ Cresce(a, d) /\ d.regole = a.regole
<1> DEFINE w == [a.conti[e] EXCEPT !.password = "scelta"]
           c == [a.conti EXCEPT ![e] = w]
<1>1. PICK D \in SUBSET Avvii!Email : a.conti \in [D -> Avvii!Conto]
  BY DEF Archivio, Conti
<1>2. /\ w \in Avvii!Conto /\ w.id = a.conti[e].id /\ w.ruolo = a.conti[e].ruolo
      /\ w.password # "nessuna"
  BY <1>1 DEF Avvii!Conto
<1>3. d = [a EXCEPT !.conti = c]
  BY <1>1 DEF Archivio
<1> HIDE DEF w
<1>4. c \in [D -> Avvii!Conto] /\ c[e] = w /\ \A x \in D : x # e => c[x] = a.conti[x]
  BY <1>1, <1>2
<1> HIDE DEF c
<1>5. d \in Archivio /\ d.conti = c /\ d.regole = a.regole
  BY <1>3, <1>4 DEF Archivio, Conti
<1>6. Cresce(a, d)
  BY <1>1, <1>2, <1>4, <1>5 DEF Cresce
<1> QED BY <1>5, <1>6

\* The archive a process writes is the one it has opened.
LEMMA ScriveTipo ==
  ASSUME TipiAvvio, NEW p \in Processi, NEW c \in Archivio, Avvii!Scrive(p, c),
         UNCHANGED usa, usa[p] # "nessuno", Cresce(Avvii!Vista(p), c)
  PROVE  /\ db' \in Archivio /\ mem' \in [Processi -> Archivio]
         /\ \A q \in Processi : usa'[q] # "memory" => mem'[q] = Avvii!Vuoto
         /\ Cresce(db, db') /\ \A q \in Processi : Cresce(mem[q], mem'[q])
         /\ Avvii!Vista(p)' = c
<1>1. CASE usa[p] = "mongo"
  BY <1>1, CresceUguale DEF Avvii!Scrive, Avvii!Vista, TipiAvvio
<1>2. CASE usa[p] = "memory"
  <2>1. mem' = [mem EXCEPT ![p] = c] /\ db' = db
    BY <1>2 DEF Avvii!Scrive
  <2>2. Avvii!Vista(p) = mem[p]
    BY <1>2 DEF Avvii!Vista
  <2> QED BY <1>2, <2>1, <2>2, CresceUguale DEF Avvii!Vista, TipiAvvio
<1> QED BY <1>1, <1>2 DEF TipiAvvio

\* What a process has opened is an archive.
LEMMA VistaTipo ==
  ASSUME TipiAvvio, NEW p \in Processi
  PROVE  Avvii!Vista(p) \in Archivio
BY DEF Avvii!Vista, TipiAvvio

Presente(a, e) ==
  /\ e \in DOMAIN a.conti
  /\ a.conti[e].ruolo # "RICHIEDENTE" /\ a.conti[e].password # "nessuna"

\* What process q has seeded.
Seminato(q) ==
  /\ usa[q] = "mongo" /\ passoAvvio[q] = "apre" =>
       \A e \in Semi \ daFare[q] : Presente(db, e)
  /\ usa[q] = "mongo" /\ passoAvvio[q] \in {"semina", "attivo"} =>
       \A e \in Semi : Presente(db, e)
  /\ usa[q] = "memory" =>
       \A e \in Semi :
         /\ e \in DOMAIN mem[q].conti /\ mem[q].conti[e].ruolo # "RICHIEDENTE"
         /\ Avvii!SeminaAncora /\ e \notin daFare[q] => mem[q].conti[e].password # "nessuna"

Seminati ==
  /\ \A e \in Semi \cap DOMAIN db.conti : db.conti[e].ruolo # "RICHIEDENTE"
  /\ \A q \in Processi : Seminato(q)

\* What the processes that do not move have stays, and so does what they have
\* seeded.
LEMMA SeminatiCresce ==
  ASSUME TipiAvvio, Seminati, ambiente' = ambiente, Cresce(db, db'),
         \A q \in Processi :
           \/ /\ usa'[q] = usa[q] /\ passoAvvio'[q] = passoAvvio[q] /\ daFare'[q] = daFare[q]
              /\ Cresce(mem[q], mem'[q])
           \/ Seminato(q)'
  PROVE  Seminati'
<1>1. \A e \in Semi \cap DOMAIN db'.conti : db'.conti[e].ruolo # "RICHIEDENTE"
  BY SemiNonAltri DEF Seminati, Cresce
<1>2. \A e \in Semi : Presente(db, e) => Presente(db', e)
  BY SemiNonAltri DEF Presente, Cresce
<1>3. Avvii!SeminaAncora' <=> Avvii!SeminaAncora
  BY DEF Avvii!SeminaAncora, Avvii!SemeAbilitato
<1>4. ASSUME NEW q \in Processi,
             usa'[q] = usa[q], passoAvvio'[q] = passoAvvio[q], daFare'[q] = daFare[q],
             Cresce(mem[q], mem'[q])
      PROVE  Seminato(q)'
  <2>1. Seminato(q) /\ Cresce(mem[q], mem'[q])
    BY <1>4 DEF Seminati
  <2>2. \A e \in Semi : e \in DOMAIN mem[q].conti /\ mem[q].conti[e].ruolo # "RICHIEDENTE" =>
          /\ e \in DOMAIN mem'[q].conti /\ mem'[q].conti[e].ruolo # "RICHIEDENTE"
          /\ mem[q].conti[e].password # "nessuna" => mem'[q].conti[e].password # "nessuna"
    BY <2>1, SemiNonAltri DEF Cresce
  <2> QED BY <1>2, <1>3, <1>4, <2>1, <2>2 DEF Seminato
<1> QED BY <1>1, <1>4 DEF Seminati

\* Where the starts are: the type, and what has been seeded.
InvAvvio == TipiAvvio /\ Seminati

LEMMA VuotoArchivio == Avvii!Vuoto \in Archivio
<1>1. << >> \in [{} -> Avvii!Conto]
  OBVIOUS
<1> QED BY <1>1 DEF Avvii!Vuoto, Archivio, Conti

\* A process begins to serve, or to seed once more.
LEMMA InvApreServer ==
  ASSUME InvAvvio, NEW p \in Processi, passoAvvio[p] = "apre", daFare[p] = {},
         Avvii!ApreServer(p), UNCHANGED <<ambiente, usa, db, mem, confermate>>
  PROVE  InvAvvio' /\ Cresce(db, db')
<1> USE DEF InvAvvio
<1>1. /\ passoAvvio' = [passoAvvio EXCEPT ![p] = IF Avvii!SeminaAncora THEN "semina" ELSE "attivo"]
      /\ daFare' = [daFare EXCEPT ![p] = IF Avvii!SeminaAncora THEN Semi ELSE {}]
  BY DEF Avvii!ApreServer, Avvii!Va
<1>2. TipiAvvio' /\ passoAvvio'[p] \in {"semina", "attivo"} /\ usa[p] = "mongo"
  BY <1>1 DEF TipiAvvio
<1>3. \A e \in Semi : Presente(db, e)
  BY <1>2 DEF Seminati, Seminato
<1>4. Seminato(p)'
  BY <1>2, <1>3 DEF Seminato, Presente
<1>5. Cresce(db, db') /\ \A q \in Processi : Cresce(mem[q], mem'[q])
  BY CresceUguale
<1> QED BY <1>1, <1>2, <1>4, <1>5, SeminatiCresce DEF TipiAvvio

\* A process works from its memory.
LEMMA InvUsaMemory ==
  ASSUME InvAvvio, NEW p \in Processi, Avvii!UsaMemory(p), UNCHANGED <<ambiente, confermate>>
  PROVE  InvAvvio' /\ db' = db
<1> USE DEF InvAvvio
<1>1. PICK f \in [Semi -> Ident] :
        mem' = [mem EXCEPT ![p] = [Avvii!Vuoto EXCEPT !.conti =
                  [e \in Semi |-> [id |-> f[e], ruolo |-> "BACKOFFICE", password |-> "nessuna"]]]]
  BY DEF Avvii!UsaMemory
<1> DEFINE c == [e \in Semi |-> [id |-> f[e], ruolo |-> "BACKOFFICE", password |-> "nessuna"]]
           a == [Avvii!Vuoto EXCEPT !.conti = c]
<1>2. /\ passoAvvio' = [passoAvvio EXCEPT ![p] = IF Avvii!SeminaAncora THEN "semina" ELSE "attivo"]
      /\ daFare' = [daFare EXCEPT ![p] = IF Avvii!SeminaAncora THEN Semi ELSE {}]
      /\ usa' = [usa EXCEPT ![p] = "memory"] /\ db' = db
  BY DEF Avvii!UsaMemory, Avvii!ApreServer, Avvii!Va
<1>3. c \in [Semi -> Avvii!Conto] /\ DOMAIN c = Semi
      /\ \A e \in Semi : c[e].ruolo = "BACKOFFICE"
  BY DEF Avvii!Conto
<1>4. c \in Conti
  BY <1>3 DEF Conti, Avvii!Email
<1>5. mem' = [mem EXCEPT ![p] = a]
  BY <1>1
<1> HIDE DEF c
<1>6. a \in Archivio /\ a.conti = c
  BY <1>4 DEF Archivio, Avvii!Vuoto
<1> HIDE DEF a
<1>7. TipiAvvio'
  BY <1>2, <1>5, <1>6 DEF TipiAvvio
<1>8. Seminato(p)'
  <2>1. /\ mem'[p].conti = c /\ usa'[p] = "memory"
        /\ daFare'[p] = IF Avvii!SeminaAncora THEN Semi ELSE {}
    BY <1>2, <1>5, <1>6 DEF TipiAvvio
  <2>2. Avvii!SeminaAncora' <=> Avvii!SeminaAncora
    BY DEF Avvii!SeminaAncora, Avvii!SemeAbilitato
  <2> QED BY <1>3, <2>1, <2>2 DEF Seminato
<1>9. Cresce(db, db') /\ \A q \in Processi : q # p => Cresce(mem[q], mem'[q])
  BY <1>2, <1>5, CresceUguale DEF TipiAvvio
<1> QED BY <1>2, <1>7, <1>8, <1>9, SeminatiCresce DEF TipiAvvio

\* A process stops.
LEMMA InvSpenta ==
  ASSUME InvAvvio, NEW p \in Processi, usa' = [usa EXCEPT ![p] = "nessuno"],
         passoAvvio' = [passoAvvio EXCEPT ![p] = "spento"],
         daFare' = [daFare EXCEPT ![p] = {}],
         \/ mem' = [mem EXCEPT ![p] = Avvii!Vuoto] 
         \/ mem' = mem /\ usa[p] # "memory",
         UNCHANGED <<ambiente, db, confermate>>
  PROVE  InvAvvio'
<1> USE DEF InvAvvio
<1>1. mem' = [mem EXCEPT ![p] = Avvii!Vuoto]
  BY DEF TipiAvvio
<1>2. TipiAvvio'
  BY <1>1, VuotoArchivio DEF TipiAvvio
<1>3. Seminato(p)'
  BY DEF Seminato, TipiAvvio
<1>4. Cresce(db, db') /\ \A q \in Processi : q # p => Cresce(mem[q], mem'[q])
  BY <1>1, CresceUguale DEF TipiAvvio
<1> QED BY <1>2, <1>3, <1>4, SeminatiCresce DEF TipiAvvio

LEMMA InvRipiego ==
  ASSUME InvAvvio, NEW p \in Processi, passoAvvio[p] \in {"spento", "apre"},
         Avvii!Ripiego(p), UNCHANGED <<ambiente, confermate>>
  PROVE  InvAvvio' /\ db' = db
<1>1. CASE ambiente.produzione
  <2>1. usa[p] # "memory"
    BY DEF InvAvvio, TipiAvvio
  <2> QED BY <1>1, <2>1, InvSpenta DEF Avvii!Ripiego, Avvii!Va
<1>2. CASE ~ambiente.produzione
  BY <1>2, InvUsaMemory DEF Avvii!Ripiego
<1> QED BY <1>1, <1>2

\* The seed carries an id when it makes an account.
LEMMA IdPerIdent ==
  ASSUME NEW c \in Conti, NEW e, NEW id \in Avvii!IdPer(c, e)
  PROVE  id \in Ident
BY ContiTipo DEF Avvii!IdPer, Avvii!Conto

LEMMA InvSeminaMongo ==
  ASSUME InvAvvio, NEW p \in Processi, NEW e \in Semi, Avvii!SeminaMongo(p, e)
  PROVE  InvAvvio' /\ Cresce(db, db') /\ db'.regole = db.regole
<1> USE DEF InvAvvio
<1>1. PICK id \in Avvii!IdPer(db.conti, e) :
        db' = [db EXCEPT !.conti = Avvii!Upsert(@, e, id, "BACKOFFICE", "seme")]
  BY DEF Avvii!SeminaMongo
<1>2. /\ passoAvvio[p] = "apre" /\ usa[p] = "mongo"
      /\ daFare' = [daFare EXCEPT ![p] = @ \ {e}]
      /\ UNCHANGED <<ambiente, passoAvvio, usa, mem, confermate>>
  BY DEF Avvii!SeminaMongo, TipiAvvio
<1>3. id \in Ident /\ db \in Archivio /\ e \in Avvii!Email
  BY IdPerIdent DEF TipiAvvio, Archivio, Avvii!Email
<1>4. /\ db' \in Archivio /\ Cresce(db, db') /\ db'.regole = db.regole
      /\ e \in DOMAIN db'.conti /\ db'.conti[e].password # "nessuna"
  <2>1. Scritto(db, db', e)
    BY <1>1, <1>3, UpsertCresce
  <2> QED BY <2>1 DEF Scritto
<1>5. TipiAvvio'
  BY <1>2, <1>4 DEF TipiAvvio
<1>6. Presente(db', e)
  BY <1>4, SemiNonAltri DEF Presente, Cresce, Seminati
<1>7. Seminato(p)'
  <2>1. \A x \in Semi \ daFare[p] : Presente(db, x)
    BY <1>2 DEF Seminati, Seminato
  <2>2. \A x \in Semi \ daFare[p] : Presente(db', x)
    BY <1>4, <2>1, SemiNonAltri DEF Presente, Cresce
  <2>3. daFare'[p] = daFare[p] \ {e}
    BY <1>2 DEF TipiAvvio
  <2> QED BY <1>2, <1>6, <2>2, <2>3 DEF Seminato
<1>8. \A q \in Processi : Cresce(mem[q], mem'[q])
  BY <1>2, CresceUguale
<1> QED BY <1>2, <1>4, <1>5, <1>7, <1>8, SeminatiCresce DEF TipiAvvio

\* What a serving process, or one that seeds once more, writes: it adds to what
\* it has opened.
LEMMA InvScrive ==
  ASSUME InvAvvio, NEW p \in Processi, passoAvvio[p] \in {"semina", "attivo"},
         NEW a \in Archivio, Avvii!Scrive(p, a), Cresce(Avvii!Vista(p), a),
         UNCHANGED <<ambiente, usa>>, confermate' \subseteq Regole,
         \/ UNCHANGED <<passoAvvio, daFare>>
         \/ \E e \in Semi : Avvii!Fatto(p, e) /\ Presente(a, e) /\ passoAvvio[p] = "semina"
  PROVE  InvAvvio' /\ Cresce(db, db') /\ Avvii!Vista(p)' = a
<1> USE DEF InvAvvio
<1>1. usa[p] \in {"mongo", "memory"}
  BY DEF TipiAvvio
<1>2. /\ db' \in Archivio /\ mem' \in [Processi -> Archivio]
      /\ \A q \in Processi : usa'[q] # "memory" => mem'[q] = Avvii!Vuoto
      /\ Cresce(db, db') /\ \A q \in Processi : Cresce(mem[q], mem'[q])
      /\ Avvii!Vista(p)' = a
  BY <1>1, ScriveTipo
<1>3. Avvii!SeminaAncora' <=> Avvii!SeminaAncora
  BY DEF Avvii!SeminaAncora, Avvii!SemeAbilitato
<1>4. \A x \in Semi : Presente(db, x) => Presente(db', x)
  BY <1>2, SemiNonAltri DEF Presente, Cresce
<1>5. \A x \in Semi : x \in DOMAIN mem[p].conti /\ mem[p].conti[x].ruolo # "RICHIEDENTE" =>
        /\ x \in DOMAIN mem'[p].conti /\ mem'[p].conti[x].ruolo # "RICHIEDENTE"
        /\ mem[p].conti[x].password # "nessuna" => mem'[p].conti[x].password # "nessuna"
  BY <1>2, SemiNonAltri DEF Cresce
<1>6. CASE UNCHANGED <<passoAvvio, daFare>>
  <2>1. TipiAvvio'
    BY <1>2, <1>6 DEF TipiAvvio
  <2>2. Seminato(p)'
    BY <1>3, <1>4, <1>5, <1>6 DEF Seminati, Seminato
  <2> QED BY <1>2, <1>6, <2>1, <2>2, SeminatiCresce
<1>7. ASSUME NEW e \in Semi, Avvii!Fatto(p, e), Presente(a, e), passoAvvio[p] = "semina"
      PROVE  InvAvvio'
  <2>1. /\ daFare' = [daFare EXCEPT ![p] = @ \ {e}]
        /\ \/ passoAvvio' = passoAvvio
           \/ daFare[p] = {e} /\ passoAvvio' = [passoAvvio EXCEPT ![p] = "attivo"]
    BY <1>7 DEF Avvii!Fatto, Avvii!Va
  <2>2. TipiAvvio'
    BY <1>2, <1>7, <2>1 DEF TipiAvvio
  <2>3. daFare'[p] = daFare[p] \ {e} /\ passoAvvio'[p] \in {"semina", "attivo"}
    BY <1>7, <2>1 DEF TipiAvvio
  <2>4. usa[p] = "memory" => Presente(mem'[p], e)
    BY <1>2, <1>7 DEF Avvii!Vista
  <2>5. Seminato(p) /\ usa' = usa
    BY DEF Seminati
  <2>6. ASSUME usa[p] = "mongo" PROVE Seminato(p)'
    <3>1. \A x \in Semi : Presente(db', x)
      BY <1>4, <1>7, <2>5, <2>6 DEF Seminato
    <3> QED BY <2>3, <2>5, <2>6, <3>1 DEF Seminato
  <2>7. ASSUME usa[p] = "memory" PROVE Seminato(p)'
    <3>1. \A x \in Semi :
            /\ x \in DOMAIN mem'[p].conti /\ mem'[p].conti[x].ruolo # "RICHIEDENTE"
            /\ Avvii!SeminaAncora /\ x \notin daFare[p] \ {e} =>
                 mem'[p].conti[x].password # "nessuna"
      BY <1>5, <2>4, <2>5, <2>7 DEF Seminato, Presente
    <3> QED BY <1>3, <2>3, <2>5, <2>7, <3>1 DEF Seminato
  <2>8. Seminato(p)'
    BY <1>1, <2>6, <2>7
  <2> QED BY <1>2, <2>1, <2>2, <2>8, SeminatiCresce DEF TipiAvvio
<1> QED BY <1>2, <1>6, <1>7

LEMMA InvSeminaServer ==
  ASSUME InvAvvio, NEW p \in Processi, NEW e \in Semi, Avvii!SeminaServer(p, e)
  PROVE  InvAvvio' /\ Cresce(db, db') /\ Avvii!Vista(p)'.regole = Avvii!Vista(p).regole
<1> DEFINE v == Avvii!Vista(p)
<1>1. PICK id \in Avvii!IdPer(v.conti, e) :
        Avvii!Scrive(p, [v EXCEPT !.conti = Avvii!Upsert(@, e, id, "BACKOFFICE", "seme")])
  BY DEF Avvii!SeminaServer
<1>2. v \in Archivio
  BY VistaTipo DEF InvAvvio
<1>3. /\ passoAvvio[p] = "semina" /\ Avvii!Fatto(p, e) /\ UNCHANGED <<ambiente, usa, confermate>>
  BY DEF Avvii!SeminaServer
<1>4. \A x \in Semi \cap DOMAIN v.conti : v.conti[x].ruolo # "RICHIEDENTE"
  BY <1>3 DEF InvAvvio, TipiAvvio, Seminati, Seminato, Avvii!Vista
<1> HIDE DEF v
<1> DEFINE a == [v EXCEPT !.conti = Avvii!Upsert(@, e, id, "BACKOFFICE", "seme")]
<1>5. id \in Ident /\ e \in Avvii!Email
  BY <1>1, <1>2, IdPerIdent DEF Archivio, Avvii!Email
<1>6. /\ a \in Archivio /\ Cresce(v, a) /\ a.regole = v.regole
      /\ e \in DOMAIN a.conti /\ a.conti[e].password # "nessuna"
  <2>1. Scritto(v, a, e)
    BY <1>2, <1>5, UpsertCresce
  <2> QED BY <2>1 DEF Scritto
<1>7. Avvii!Scrive(p, a)
  BY <1>1
<1> HIDE DEF a
<1>8. Presente(a, e)
  BY <1>4, <1>6, SemiNonAltri DEF Presente, Cresce
<1>9. confermate' \subseteq Regole
  BY <1>3 DEF InvAvvio, TipiAvvio
<1>10. InvAvvio' /\ Cresce(db, db') /\ Avvii!Vista(p)' = a
  BY <1>3, <1>6, <1>7, <1>8, <1>9, InvScrive DEF v
<1> QED BY <1>6, <1>10 DEF v

LEMMA InvSeminaServerFallisce ==
  ASSUME InvAvvio, NEW p \in Processi, NEW e \in Semi, Avvii!SeminaServerFallisce(p, e)
  PROVE  InvAvvio'
<1> USE DEF InvAvvio
<1>1. /\ usa[p] = "mongo" /\ passoAvvio[p] = "semina"
      /\ UNCHANGED <<ambiente, usa, db, mem, confermate>>
      /\ daFare' = [daFare EXCEPT ![p] = @ \ {e}]
      /\ \/ passoAvvio' = passoAvvio
         \/ daFare[p] = {e} /\ passoAvvio' = [passoAvvio EXCEPT ![p] = "attivo"]
  BY DEF Avvii!SeminaServerFallisce, Avvii!Fatto, Avvii!Va
<1>2. TipiAvvio'
  BY <1>1 DEF TipiAvvio
<1>3. Seminato(p)'
  BY <1>1 DEF Seminati, Seminato, Presente
<1>4. Cresce(db, db') /\ \A q \in Processi : Cresce(mem[q], mem'[q])
  BY <1>1, CresceUguale
<1> QED BY <1>1, <1>2, <1>3, <1>4, SeminatiCresce DEF TipiAvvio

\* The requests that a serving process accepts.
LEMMA InvRichieste ==
  ASSUME InvAvvio, NEW p \in Processi,
         \/ \E e \in Avvii!Email : Avvii!CambiaPassword(p, e) \/ Avvii!Registra(p, e)
         \/ \E x \in Regole : Avvii!BloccaIP(p, x) \/ Avvii!SbloccaIP(p, x)
  PROVE  /\ InvAvvio' /\ Cresce(db, db') /\ usa[p] # "nessuno"
         /\ UNCHANGED <<ambiente, usa>>
         /\ \/ /\ Avvii!Vista(p)'.regole = Avvii!Vista(p).regole
               /\ confermate' = confermate
            \/ \E x \in Regole :
                 /\ Avvii!Vista(p)'.regole = Avvii!Vista(p).regole \cup {x}
                 /\ confermate' = confermate \cup {x}
            \/ \E x \in Regole :
                 /\ Avvii!Vista(p)'.regole = Avvii!Vista(p).regole \ {x}
                 /\ confermate' = confermate \ {x}
<1> DEFINE v == Avvii!Vista(p)
<1>1. v \in Archivio /\ confermate \subseteq Regole
  BY VistaTipo DEF InvAvvio, TipiAvvio
<1>2. /\ passoAvvio[p] = "attivo" /\ usa[p] # "nessuno"
      /\ UNCHANGED <<ambiente, usa, passoAvvio, daFare>>
  BY DEF Avvii!CambiaPassword, Avvii!Registra, Avvii!BloccaIP, Avvii!SbloccaIP,
         InvAvvio, TipiAvvio
<1>3. \A e \in Semi : e \in DOMAIN v.conti
  BY <1>2 DEF InvAvvio, Seminati, Seminato, Presente, Avvii!Vista, TipiAvvio
<1>4. ASSUME NEW a \in Archivio, Avvii!Scrive(p, a), Cresce(v, a), confermate' \subseteq Regole
      PROVE  InvAvvio' /\ Cresce(db, db') /\ Avvii!Vista(p)' = a
  BY <1>2, <1>4, InvScrive
<1> HIDE DEF v
<1>5. ASSUME NEW e \in Avvii!Email, Avvii!CambiaPassword(p, e)
      PROVE  /\ InvAvvio' /\ Cresce(db, db') /\ Avvii!Vista(p)'.regole = v.regole
             /\ confermate' = confermate
  <2> DEFINE a == [v EXCEPT !.conti[e].password = "scelta"]
  <2>1. Avvii!Scrive(p, a) /\ e \in DOMAIN v.conti /\ confermate' = confermate
    BY <1>5 DEF Avvii!CambiaPassword, v
  <2>2. a \in Archivio /\ Cresce(v, a) /\ a.regole = v.regole
    BY <1>1, <2>1, PasswordCresce
  <2> HIDE DEF a
  <2> QED BY <1>1, <1>4, <2>1, <2>2
<1>6. ASSUME NEW e \in Avvii!Email, Avvii!Registra(p, e)
      PROVE  /\ InvAvvio' /\ Cresce(db, db') /\ Avvii!Vista(p)'.regole = v.regole
             /\ confermate' = confermate
  <2>1. PICK id \in Ident :
          Avvii!Scrive(p, [v EXCEPT !.conti = Avvii!Con(@, e,
            [id |-> id, ruolo |-> "RICHIEDENTE", password |-> "scelta"])])
    BY <1>6 DEF Avvii!Registra, v
  <2> DEFINE w == [id |-> id, ruolo |-> "RICHIEDENTE", password |-> "scelta"]
             a == [v EXCEPT !.conti = Avvii!Con(@, e, w)]
  <2>2. Avvii!Scrive(p, a)
    BY <2>1
  <2>3. e \notin DOMAIN v.conti /\ e \notin Semi /\ confermate' = confermate
    BY <1>3, <1>6 DEF Avvii!Registra, v
  <2>4. w \in Avvii!Conto
    BY DEF Avvii!Conto
  <2> HIDE DEF w
  <2>5. a \in Archivio /\ Cresce(v, a) /\ a.regole = v.regole
    BY <1>1, <2>3, <2>4, RegistraCresce
  <2> HIDE DEF a
  <2> QED BY <1>1, <1>4, <2>2, <2>3, <2>5
<1>7. ASSUME NEW x \in Regole, Avvii!BloccaIP(p, x)
      PROVE  /\ InvAvvio' /\ Cresce(db, db') /\ Avvii!Vista(p)'.regole = v.regole \cup {x}
             /\ confermate' = confermate \cup {x}
  <2> DEFINE a == [v EXCEPT !.regole = v.regole \cup {x}]
  <2>1. Avvii!Scrive(p, a) /\ confermate' = confermate \cup {x}
    BY <1>7 DEF Avvii!BloccaIP, v
  <2>2. a \in Archivio /\ a.conti = v.conti /\ a.regole = v.regole \cup {x}
    BY <1>1 DEF Archivio
  <2> HIDE DEF a
  <2>3. Cresce(v, a)
    BY <2>2 DEF Cresce
  <2> QED BY <1>1, <1>4, <2>1, <2>2, <2>3
<1>8. ASSUME NEW x \in Regole, Avvii!SbloccaIP(p, x)
      PROVE  /\ InvAvvio' /\ Cresce(db, db') /\ Avvii!Vista(p)'.regole = v.regole \ {x}
             /\ confermate' = confermate \ {x}
  <2> DEFINE a == [v EXCEPT !.regole = v.regole \ {x}]
  <2>1. Avvii!Scrive(p, a) /\ confermate' = confermate \ {x}
    BY <1>8 DEF Avvii!SbloccaIP, v
  <2>2. a \in Archivio /\ a.conti = v.conti /\ a.regole = v.regole \ {x}
    BY <1>1 DEF Archivio
  <2> HIDE DEF a
  <2>3. Cresce(v, a)
    BY <2>2 DEF Cresce
  <2> QED BY <1>1, <1>4, <2>1, <2>2, <2>3
<1> QED BY <1>2, <1>5, <1>6, <1>7, <1>8 DEF v

\* Either script writes an account.
LEMMA InvScript ==
  ASSUME InvAvvio, NEW e \in Avvii!Email, NEW ruolo, Avvii!Script(e, ruolo),
         ruolo = "ADMIN" \/ (ruolo = "RICHIEDENTE" /\ e \in Altri)
  PROVE  InvAvvio' /\ Cresce(db, db') /\ db'.regole = db.regole
<1>1. PICK id \in Avvii!IdPer(db.conti, e) :
        db' = [db EXCEPT !.conti =
                 [Avvii!Upsert(@, e, id, ruolo, "script") EXCEPT ![e].ruolo = ruolo]]
  BY DEF Avvii!Script
<1>2. UNCHANGED <<ambiente, passoAvvio, usa, daFare, mem, confermate>>
  BY DEF Avvii!Script
<1>3. db \in Archivio /\ db.conti \in Conti
  BY DEF InvAvvio, TipiAvvio, Archivio
<1>4. id \in Ident
  BY <1>1, <1>3, IdPerIdent
<1> DEFINE c == Avvii!Upsert(db.conti, e, id, ruolo, "script")
           w == [c[e] EXCEPT !.ruolo = ruolo]
           k == [c EXCEPT ![e] = w]
<1>5. db' = [db EXCEPT !.conti = k]
  BY <1>1
<1>6. c \in Conti /\ Aggiornato(db.conti, c, e, ruolo, "script")
  <2> HIDE DEF Conti
  <2> QED BY <1>3, <1>4, UpsertConti
<1> HIDE DEF c
<1>7. w \in Avvii!Conto /\ w.id = c[e].id /\ w.ruolo = ruolo /\ w.password = "script"
  BY <1>6 DEF Aggiornato, Avvii!Conto
<1> HIDE DEF w
<1>8. /\ k \in Conti /\ DOMAIN k = DOMAIN c /\ k[e] = w
      /\ \A x \in DOMAIN c : x # e => k[x] = c[x]
  <2>1. PICK D \in SUBSET Avvii!Email : c \in [D -> Avvii!Conto]
    BY <1>6 DEF Conti
  <2>2. e \in D
    BY <1>6, <2>1 DEF Aggiornato
  <2>3. k \in [D -> Avvii!Conto]
    BY <1>7, <2>1
  <2> QED BY <2>1, <2>2, <2>3 DEF Conti
<1> HIDE DEF k
<1>9. db' \in Archivio /\ db'.conti = k /\ db'.regole = db.regole
  BY <1>3, <1>5, <1>8 DEF Archivio
<1>10. Cresce(db, db')
  BY <1>6, <1>7, <1>8, <1>9, SemiNonAltri DEF Cresce, Aggiornato
<1>11. TipiAvvio'
  BY <1>2, <1>9 DEF InvAvvio, TipiAvvio
<1>12. \A q \in Processi : Cresce(mem[q], mem'[q])
  BY <1>2, CresceUguale
<1> QED BY <1>2, <1>9, <1>10, <1>11, <1>12, SeminatiCresce DEF InvAvvio

\* In production nobody works from memory, and the rules of the database are the
\* ones that were added and not removed.
Produzione ==
  ambiente.produzione => /\ \A p \in Processi : usa[p] # "memory"
                         /\ db.regole = confermate

\* Every step keeps the invariant, and loses nothing from the database.
LEMMA PassoAvvio ==
  ASSUME InvAvvio, Produzione, [Avvii!Next]_Avvii!vars
  PROVE  InvAvvio' /\ Produzione' /\ Cresce(db, db')
<1>1. CASE UNCHANGED Avvii!vars
  <2>1. UNCHANGED <<ambiente, passoAvvio, usa, daFare, db, mem, confermate>>
    BY <1>1 DEF Avvii!vars
  <2>2. Cresce(db, db') /\ \A q \in Processi : Cresce(mem[q], mem'[q])
    BY <2>1, CresceUguale
  <2>3. TipiAvvio'
    BY <2>1 DEF InvAvvio, TipiAvvio
  <2> QED BY <2>1, <2>2, <2>3, SeminatiCresce DEF InvAvvio, Produzione
<1>2. ASSUME NEW p \in Processi, Avvii!AvviaSenzaUri(p)
      PROVE  InvAvvio' /\ Produzione' /\ Cresce(db, db')
  <2>1. Avvii!UsaMemory(p) /\ UNCHANGED <<ambiente, confermate>> /\ ~ambiente.produzione
    BY <1>2 DEF Avvii!AvviaSenzaUri
  <2>2. InvAvvio' /\ db' = db
    BY <2>1, InvUsaMemory
  <2> QED BY <2>1, <2>2, CresceUguale DEF Produzione
<1>3. ASSUME NEW p \in Processi, Avvii!AvviaConnesso(p)
      PROVE  InvAvvio' /\ Produzione' /\ Cresce(db, db')
  <2>1. /\ passoAvvio[p] = "spento" /\ passoAvvio' = [passoAvvio EXCEPT ![p] = "apre"]
        /\ usa' = [usa EXCEPT ![p] = "mongo"] /\ daFare' = [daFare EXCEPT ![p] = Semi]
        /\ UNCHANGED <<ambiente, db, mem, confermate>>
    BY <1>3 DEF Avvii!AvviaConnesso, Avvii!Va
  <2>2. TipiAvvio'
    BY <2>1 DEF InvAvvio, TipiAvvio
  <2>3. Seminato(p)'
    BY <2>1 DEF InvAvvio, TipiAvvio, Seminato
  <2>4. Cresce(db, db') /\ \A q \in Processi : Cresce(mem[q], mem'[q])
    BY <2>1, CresceUguale
  <2>5. InvAvvio'
    BY <2>1, <2>2, <2>3, <2>4, SeminatiCresce DEF InvAvvio, TipiAvvio
  <2>6. Produzione'
    BY <2>1 DEF Produzione, InvAvvio, TipiAvvio
  <2> QED BY <2>4, <2>5, <2>6
<1>4. ASSUME NEW p \in Processi, passoAvvio[p] \in {"spento", "apre"}, Avvii!Ripiego(p),
             UNCHANGED <<ambiente, confermate>>
      PROVE  InvAvvio' /\ Produzione' /\ Cresce(db, db')
  <2>1. InvAvvio' /\ db' = db
    BY <1>4, InvRipiego
  <2>2. ambiente.produzione => usa' = [usa EXCEPT ![p] = "nessuno"]
    BY <1>4 DEF Avvii!Ripiego
  <2>3. Produzione'
    BY <1>4, <2>1, <2>2 DEF Produzione, InvAvvio, TipiAvvio
  <2> QED BY <2>1, <2>3, CresceUguale
<1>5. ASSUME NEW p \in Processi, Avvii!Aperto(p)
      PROVE  InvAvvio' /\ Produzione' /\ Cresce(db, db')
  BY <1>5, InvApreServer DEF Avvii!Aperto, Produzione
<1>6. ASSUME NEW p \in Processi, Avvii!Ferma(p)
      PROVE  InvAvvio' /\ Produzione' /\ Cresce(db, db')
  <2>1. /\ usa' = [usa EXCEPT ![p] = "nessuno"]
        /\ passoAvvio' = [passoAvvio EXCEPT ![p] = "spento"]
        /\ daFare' = [daFare EXCEPT ![p] = {}] /\ mem' = [mem EXCEPT ![p] = Avvii!Vuoto]
        /\ UNCHANGED <<ambiente, db, confermate>>
    BY <1>6 DEF Avvii!Ferma, Avvii!Va
  <2>2. InvAvvio'
    BY <2>1, InvSpenta
  <2>3. Produzione'
    BY <2>1 DEF Produzione, InvAvvio, TipiAvvio
  <2> QED BY <2>1, <2>2, <2>3, CresceUguale
<1>7. ASSUME NEW p \in Processi, NEW e \in Semi,
             \/ Avvii!SeminaMongo(p, e) \/ Avvii!SeminaServer(p, e)
             \/ Avvii!SeminaServerFallisce(p, e)
      PROVE  InvAvvio' /\ Produzione' /\ Cresce(db, db')
  <2>1. ambiente' = ambiente /\ usa' = usa /\ confermate' = confermate
    BY <1>7 DEF Avvii!SeminaMongo, Avvii!SeminaServer, Avvii!SeminaServerFallisce
  <2>2. CASE Avvii!SeminaMongo(p, e)
    BY <2>1, <2>2, InvSeminaMongo DEF Produzione
  <2>3. CASE Avvii!SeminaServer(p, e)
    <3>1. InvAvvio' /\ Cresce(db, db') /\ Avvii!Vista(p)'.regole = Avvii!Vista(p).regole
      BY <2>3, InvSeminaServer
    <3>2. usa[p] # "nessuno"
      BY <2>3 DEF Avvii!SeminaServer, InvAvvio, TipiAvvio
    <3>3. ambiente.produzione => Avvii!Vista(p) = db /\ Avvii!Vista(p)' = db'
      BY <2>1, <3>2 DEF Produzione, InvAvvio, TipiAvvio, Avvii!Vista
    <3> QED BY <2>1, <3>1, <3>3 DEF Produzione
  <2>4. CASE Avvii!SeminaServerFallisce(p, e)
    <3>1. db' = db
      BY <2>4 DEF Avvii!SeminaServerFallisce
    <3> QED BY <2>1, <2>4, <3>1, InvSeminaServerFallisce, CresceUguale DEF Produzione
  <2> QED BY <1>7, <2>2, <2>3, <2>4
<1>8. ASSUME NEW p \in Processi,
         \/ \E e \in Avvii!Email : Avvii!CambiaPassword(p, e) \/ Avvii!Registra(p, e)
         \/ \E x \in Regole : Avvii!BloccaIP(p, x) \/ Avvii!SbloccaIP(p, x)
      PROVE  InvAvvio' /\ Produzione' /\ Cresce(db, db')
  <2>1. /\ InvAvvio' /\ Cresce(db, db') /\ usa[p] # "nessuno"
        /\ UNCHANGED <<ambiente, usa>>
        /\ \/ /\ Avvii!Vista(p)'.regole = Avvii!Vista(p).regole
              /\ confermate' = confermate
           \/ \E x \in Regole :
                 /\ Avvii!Vista(p)'.regole = Avvii!Vista(p).regole \cup {x}
                 /\ confermate' = confermate \cup {x}
           \/ \E x \in Regole :
                 /\ Avvii!Vista(p)'.regole = Avvii!Vista(p).regole \ {x}
                 /\ confermate' = confermate \ {x}
    BY <1>8, InvRichieste
  <2>2. ambiente.produzione => Avvii!Vista(p) = db /\ Avvii!Vista(p)' = db'
    BY <2>1 DEF Produzione, InvAvvio, TipiAvvio, Avvii!Vista
  <2> QED BY <2>1, <2>2 DEF Produzione
<1>9. ASSUME NEW e \in Avvii!Email, Avvii!CreaAdmin(e) \/ Avvii!SeminaUtente(e)
      PROVE  InvAvvio' /\ Produzione' /\ Cresce(db, db')
  <2>1. PICK ruolo : /\ Avvii!Script(e, ruolo)
                     /\ ruolo = "ADMIN" \/ (ruolo = "RICHIEDENTE" /\ e \in Altri)
    BY <1>9 DEF Avvii!CreaAdmin, Avvii!SeminaUtente
  <2>2. ambiente' = ambiente /\ usa' = usa /\ confermate' = confermate
    BY <2>1 DEF Avvii!Script
  <2> QED BY <2>1, <2>2, InvScript DEF Produzione
<1>10. ASSUME NEW p \in Processi, Avvii!AvviaNonConnesso(p) \/ Avvii!SeminaMongoFallisce(p)
       PROVE  InvAvvio' /\ Produzione' /\ Cresce(db, db')
  BY <1>4, <1>10 DEF Avvii!AvviaNonConnesso, Avvii!SeminaMongoFallisce
<1> QED BY <1>1, <1>2, <1>3, <1>5, <1>6, <1>7, <1>8, <1>9, <1>10 DEF Avvii!Next

LEMMA InitAvvio == Avvii!Init => InvAvvio /\ Produzione
<1> SUFFICES ASSUME Avvii!Init PROVE InvAvvio /\ Produzione
  OBVIOUS
<1>1. TipiAvvio
  BY VuotoArchivio DEF Avvii!Init, TipiAvvio
<1>2. DOMAIN db.conti = {} /\ db.regole = {} /\ confermate = {}
      /\ \A p \in Processi : usa[p] = "nessuno"
  BY DEF Avvii!Init, Avvii!Vuoto
<1> QED BY <1>1, <1>2 DEF InvAvvio, Seminati, Seminato, Produzione

\* What the properties of the starts need of it.
LEMMA AvvioDaInv ==
  ASSUME Avvii!AvvioAssumption, InvAvvio, Produzione
  PROVE  /\ Avvii!TypeOK
         /\ Avvii!BlocchiDuranoInProduzione
         /\ Avvii!SemiPresenti
<1>1. Avvii!TypeOK
  BY TipiAvvioTypeOK DEF InvAvvio
<1>2. Avvii!BlocchiDuranoInProduzione
  BY DEF InvAvvio, TipiAvvio, Produzione, Avvii!BlocchiDuranoInProduzione, Avvii!Vista
<1>3. Avvii!SemiPresenti
  <2> SUFFICES ASSUME NEW p \in Processi, passoAvvio[p] = "attivo",
                      usa[p] = "mongo" \/ Avvii!SeminaAncora, NEW e \in Semi
               PROVE  Presente(Avvii!Vista(p), e)
    BY DEF Avvii!SemiPresenti, Presente
  <2>1. Seminato(p) /\ daFare[p] = {} /\ usa[p] \in {"mongo", "memory"}
    BY DEF InvAvvio, Seminati, TipiAvvio
  <2> QED BY <2>1 DEF Seminato, Presente, Avvii!Vista
<1> QED BY <1>1, <1>2, <1>3

-----------------------------------------------------------------------------
(* The script seed_demo_data (ScriptSeed).                                 *)

\* A document, stored or held by a request, belongs to an account that is
\* stored, and is as its timeline says.
Sua(p, accounts) ==
  p \in [id : {p.id}, utente : accounts, stato : {p.stato}, evento : {p.stato},
         nomina : BOOLEAN]

\* What a run carries: accounts that are stored, one for every turn of its first
\* loop, and in its second loop at least one.
Portata(c, accounts) ==
  /\ c \in [passo : {"ferma", "utenti", "pratiche"}, utenti : Nat, n : Nat, i : Nat,
            userIDs : Seq(accounts)]
  /\ c.passo = "utenti" => c.utenti # 0 /\ Len(c.userIDs) = c.i - 1
                             /\ c.i <= c.utenti + 1
  /\ c.passo = "pratiche" => c.i # 0 /\ c.userIDs # << >>

Posseduto(accounts, docs, runs, held) ==
  /\ docs = [n \in DOMAIN docs |-> docs[n]]
  /\ \A n \in DOMAIN docs : Sua(docs[n], accounts)
  /\ runs = [r \in Corse |-> runs[r]]
  /\ \A r \in Corse : Portata(runs[r], accounts)
  /\ held = [q \in RichiesteSeme |-> held[q]]
  /\ \A q \in RichiesteSeme : held[q] # Script!Niente => Sua(held[q].doc, accounts)

InvSeme ==
  /\ conti = [k \in DOMAIN conti |-> conti[k]]
  /\ Posseduto(Range(conti), praticheSeme, corsa, letta)

\* Accounts are only added.
LEMMA PiuConti ==
  ASSUME NEW A, NEW B, A \subseteq B, NEW docs, NEW runs, NEW held,
         Posseduto(A, docs, runs, held)
  PROVE  Posseduto(B, docs, runs, held)
<1>1. \A p : Sua(p, A) => Sua(p, B)
  BY DEF Sua
<1>2. ASSUME NEW c, Portata(c, A) PROVE Portata(c, B)
  BY <1>2 DEF Portata
<1> QED BY <1>1, <1>2 DEF Posseduto

\* A turn of the first loop.
LEMMA TurnoUtenti ==
  ASSUME NEW A, NEW B, NEW s \in Seq(B),
         NEW c \in [passo : {"ferma", "utenti", "pratiche"}, utenti : Nat, n : Nat, i : Nat,
                   userIDs : Seq(A)]
  PROVE  [c EXCEPT !.i = @ + 1, !.userIDs = s] \in
           [passo : {"ferma", "utenti", "pratiche"}, utenti : Nat, n : Nat, i : Nat,
            userIDs : Seq(B)]
<1> DEFINE S == Seq(A)
           T == Seq(B)
<1> HIDE DEF S, T
<1>1. s \in T
  BY DEF T
<1>2. /\ DOMAIN c = {"passo", "utenti", "n", "i", "userIDs"}
      /\ c.passo \in {"ferma", "utenti", "pratiche"}
      /\ c.utenti \in Nat /\ c.n \in Nat /\ c.i \in Nat
  BY DEF S
<1> DEFINE k == c.i + 1
           d == [c EXCEPT !.i = k, !.userIDs = s]
<1>3. k \in Nat
  BY <1>2
<1> HIDE DEF k
<1>4. d \in [passo : {"ferma", "utenti", "pratiche"}, utenti : Nat, n : Nat, i : Nat,
            userIDs : T]
  BY <1>1, <1>2, <1>3
<1> QED BY <1>4 DEF T, k

\* The upsert of an account keeps the one that is there.
LEMMA UpsertScript ==
  ASSUME NEW f, NEW k, NEW v, k \in DOMAIN f => v = f[k]
  PROVE  /\ Range(f) \subseteq Range(Script!Con(f, k, v))
         /\ v \in Range(Script!Con(f, k, v))
         /\ Script!Con(f, k, v) = [x \in DOMAIN Script!Con(f, k, v) |->
                                     Script!Con(f, k, v)[x]]
BY DEF Script!Con, Range

LEMMA SemeInit == Script!Init => InvSeme
<1> SUFFICES ASSUME Script!Init PROVE InvSeme
  OBVIOUS
<1> USE DEF Script!Init
<1>1. conti = [k \in DOMAIN conti |-> conti[k]] /\ DOMAIN praticheSeme = {}
  OBVIOUS
<1>2. \A r \in Corse : Portata(corsa[r], Range(conti))
  BY DEF Portata, Script!Ferma
<1> QED BY <1>1, <1>2 DEF InvSeme, Posseduto

LEMMA SemeCorsa ==
  ASSUME NEW A, NEW docs, NEW runs, NEW held, Posseduto(A, docs, runs, held),
         NEW r \in Corse, NEW c, Portata(c, A)
  PROVE  Posseduto(A, docs, [runs EXCEPT ![r] = c], held)
<1>1. /\ [runs EXCEPT ![r] = c] = [x \in Corse |-> IF x = r THEN c ELSE runs[x]]
  BY DEF Posseduto
<1> QED BY <1>1 DEF Posseduto

LEMMA FermaPortata == ASSUME NEW A PROVE Portata(Script!Ferma, A)
BY DEF Portata, Script!Ferma

LEMMA LanciaSeme ==
  ASSUME InvSeme, NEW r \in Corse, NEW utenti \in 1..MaxUtenti,
         NEW n \in 1..MaxPratiche, Script!Lancia(r, utenti, n)
  PROVE  InvSeme'
<1> DEFINE c == [Script!Ferma EXCEPT !.passo = "utenti", !.utenti = utenti, !.n = n, !.i = 1]
<1>1. Portata(c, Range(conti))
  <2>1. c.passo = "utenti" /\ c.utenti = utenti /\ c.i = 1 /\ c.userIDs = << >>
    BY DEF Script!Ferma
  <2>2. utenti \in Nat \ {0} /\ n \in Nat
    OBVIOUS
  <2>3. Len(c.userIDs) = 0
    BY <2>1
  <2>4. c \in [passo : {"ferma", "utenti", "pratiche"}, utenti : Nat, n : Nat, i : Nat,
              userIDs : Seq(Range(conti))]
    BY <2>2, FermaPortata DEF Portata
  <2> HIDE DEF c
  <2> QED BY <2>1, <2>2, <2>3, <2>4 DEF Portata
<1>2. corsa' = [corsa EXCEPT ![r] = c] /\ UNCHANGED <<conti, praticheSeme, letta>>
  BY DEF Script!Lancia
<1> HIDE DEF c
<1> QED BY <1>1, <1>2, SemeCorsa DEF InvSeme

LEMMA UpsertUtenteSeme ==
  ASSUME InvSeme, NEW r \in Corse, Script!UpsertUtente(r)
  PROVE  InvSeme'
<1> DEFINE c == corsa[r]
<1>1. PICK nuovo \in Script!Nuovi :
        LET conto == IF c.i \in DOMAIN conti THEN conti[c.i] ELSE nuovo IN
        /\ conti' = Script!Con(conti, c.i, conto)
        /\ corsa' = [corsa EXCEPT ![r].i = @ + 1,
                                  ![r].userIDs = Append(@, Script!IdUtente(conto, nuovo))]
  BY DEF Script!UpsertUtente
<1> DEFINE conto == IF c.i \in DOMAIN conti THEN conti[c.i] ELSE nuovo
           d == [c EXCEPT !.i = @ + 1, !.userIDs = Append(@, conto)]
<1>2. /\ c.passo = "utenti" /\ c.i <= c.utenti
      /\ UNCHANGED <<praticheSeme, letta>>
  BY DEF Script!UpsertUtente
<1>3. /\ conti' = Script!Con(conti, c.i, conto)
      /\ corsa' = [corsa EXCEPT ![r] = d]
  BY <1>1 DEF Script!IdUtente, InvSeme, Posseduto, Portata
<1>4. c.i \in DOMAIN conti => conto = conti[c.i]
  OBVIOUS
<1>5. Portata(c, Range(conti))
  BY DEF InvSeme, Posseduto
<1> HIDE DEF conto, c
<1>6. /\ Range(conti) \subseteq Range(conti')
      /\ conto \in Range(conti')
      /\ conti' = [k \in DOMAIN conti' |-> conti'[k]]
  BY <1>3, <1>4, UpsertScript
<1>7. Portata(d, Range(conti'))
  <2>1. /\ d.passo = c.passo /\ d.utenti = c.utenti /\ d.i = c.i + 1
        /\ d.userIDs = Append(c.userIDs, conto)
    BY <1>5 DEF Portata
  <2>2. c.userIDs \in Seq(Range(conti')) /\ Len(c.userIDs) \in Nat
    BY <1>5, <1>6 DEF Portata
  <2>3. /\ Append(c.userIDs, conto) \in Seq(Range(conti'))
        /\ Len(Append(c.userIDs, conto)) = Len(c.userIDs) + 1
    BY <2>2, <1>6
  <2>4. /\ c.utenti \in Nat /\ c.n \in Nat /\ c.i \in Nat
        /\ c.utenti # 0 /\ Len(c.userIDs) = c.i - 1
    BY <1>2, <1>5 DEF Portata
  <2>5. d \in [passo : {"ferma", "utenti", "pratiche"}, utenti : Nat, n : Nat, i : Nat,
              userIDs : Seq(Range(conti'))]
    BY <1>5, <2>3, TurnoUtenti DEF Portata
  <2> HIDE DEF d
  <2>6. Len(d.userIDs) = d.i - 1 /\ d.i <= d.utenti + 1
    BY <2>1, <2>2, <2>3, <2>4, <1>2
  <2> QED BY <2>1, <2>4, <2>5, <2>6, <1>2 DEF Portata
<1>8. Posseduto(Range(conti'), praticheSeme, corsa, letta)
  BY <1>6, PiuConti DEF InvSeme
<1> HIDE DEF d
<1> QED BY <1>2, <1>3, <1>6, <1>7, <1>8, SemeCorsa DEF InvSeme

LEMMA FineUtentiSeme ==
  ASSUME InvSeme, NEW r \in Corse, Script!FineUtenti(r)
  PROVE  InvSeme'
<1> DEFINE c == [corsa[r] EXCEPT !.passo = "pratiche", !.i = 1]
<1>1. corsa' = [corsa EXCEPT ![r] = c] /\ UNCHANGED <<conti, praticheSeme, letta>>
  BY DEF Script!FineUtenti, InvSeme, Posseduto, Portata
<1>2. Portata(c, Range(conti))
  <2>1. Portata(corsa[r], Range(conti))
    BY DEF InvSeme, Posseduto
  <2>2. /\ corsa[r].passo = "utenti" /\ corsa[r].i > corsa[r].utenti
    BY DEF Script!FineUtenti
  <2>3. corsa[r].userIDs # << >>
    BY <2>1, <2>2 DEF Portata
  <2>4. /\ c.passo = "pratiche" /\ c.i = 1 /\ c.userIDs = corsa[r].userIDs
        /\ c \in [passo : {"pratiche"}, utenti : {corsa[r].utenti}, n : {corsa[r].n},
                  i : {1}, userIDs : {corsa[r].userIDs}]
    BY <2>1 DEF Portata
  <2> HIDE DEF c
  <2> QED BY <2>1, <2>3, <2>4 DEF Portata
<1> HIDE DEF c
<1> QED BY <1>1, <1>2, SemeCorsa DEF InvSeme

LEMMA UpsertPraticaSeme ==
  ASSUME InvSeme, NEW r \in Corse, Script!UpsertPratica(r)
  PROVE  InvSeme'
<1> DEFINE c == corsa[r]
           A == Range(conti)
           stato == Script!pick(Script!states, c.i)
           utente == Script!pick(c.userIDs, c.i)
<1>1. PICK nuovo \in Script!Nuovi :
        LET p == IF c.i \in DOMAIN praticheSeme THEN praticheSeme[c.i]
                 ELSE [id |-> nuovo, utente |-> utente, stato |-> stato, evento |-> stato,
                       nomina |-> TRUE]
        IN  praticheSeme' = Script!Con(praticheSeme, c.i,
              [Script!ConSeme(p, stato, nuovo) EXCEPT !.utente = Script!Proprietario(p, utente)])
  BY DEF Script!UpsertPratica
<1> DEFINE p == IF c.i \in DOMAIN praticheSeme THEN praticheSeme[c.i]
                ELSE [id |-> nuovo, utente |-> utente, stato |-> stato, evento |-> stato,
                      nomina |-> TRUE]
           d == [Script!ConSeme(p, stato, nuovo) EXCEPT !.utente = Script!Proprietario(p, utente)]
           e == [corsa[r] EXCEPT !.i = @ + 1]
<1>2. /\ c.passo = "pratiche" /\ UNCHANGED <<conti, letta>>
      /\ corsa' = [corsa EXCEPT ![r] = e]
  BY DEF Script!UpsertPratica, InvSeme, Posseduto, Portata
<1>3. Portata(c, A) /\ Posseduto(A, praticheSeme, corsa, letta)
  BY DEF InvSeme, Posseduto
<1>4. Portata(e, A)
  BY <1>2, <1>3 DEF Portata
<1>5. utente \in A
  <2>1. c.userIDs \in Seq(A) /\ Len(c.userIDs) \in Nat \ {0} /\ c.i \in Nat \ {0}
    BY <1>2, <1>3 DEF Portata
  <2>2. ((c.i - 1) % Len(c.userIDs)) + 1 \in 1..Len(c.userIDs)
    <3> HIDE DEF c
    <3> QED BY <2>1
  <2> QED BY <2>1, <2>2 DEF Script!pick
<1> HIDE DEF utente, stato
<1>6. Sua(p, A)
  BY <1>3, <1>5 DEF Posseduto, Sua
<1>7. praticheSeme' = Script!Con(praticheSeme, c.i, d)
  BY <1>1
<1>8. Sua(d, A)
  <2> HIDE DEF p
  <2>1. /\ d \in [id : {p.id}, utente : A, stato : {stato}, evento : {stato},
                  nomina : BOOLEAN]
        /\ d.id = p.id /\ d.stato = stato
    BY <1>6 DEF Sua, Script!ConSeme, Script!Proprietario
  <2> HIDE DEF d
  <2> QED BY <2>1 DEF Sua
<1> HIDE DEF d, c, A
<1>9. Posseduto(A, praticheSeme', corsa, letta)
  BY <1>3, <1>7, <1>8 DEF Posseduto, Script!Con
<1> HIDE DEF e
<1>10. Posseduto(A, praticheSeme', corsa', letta)
  BY <1>2, <1>4, <1>9, SemeCorsa
<1> QED BY <1>2, <1>10 DEF InvSeme, A

LEMMA FinisceSeme ==
  ASSUME InvSeme, NEW r \in Corse, Script!Finisce(r)
  PROVE  InvSeme'
BY FermaPortata, SemeCorsa DEF Script!Finisce, InvSeme

LEMMA LeggeSeme ==
  ASSUME InvSeme, NEW q \in RichiesteSeme, NEW n, NEW next, Script!Legge(q, n, next)
  PROVE  InvSeme'
<1> DEFINE d == [praticheSeme[n] EXCEPT !.stato = next, !.evento = next, !.nomina = TRUE]
           l == [n |-> n, doc |-> d]
<1>1. /\ n \in DOMAIN praticheSeme
      /\ letta' = [letta EXCEPT ![q] = l]
      /\ UNCHANGED <<conti, praticheSeme, corsa>>
  BY DEF Script!Legge
<1>2. Sua(praticheSeme[n], Range(conti))
  BY <1>1 DEF InvSeme, Posseduto
<1>3. Sua(d, Range(conti)) /\ l.doc = d
  <2> DEFINE p == praticheSeme[n]
  <2> HIDE DEF p
  <2>1. /\ d \in [id : {p.id}, utente : Range(conti), stato : {next}, evento : {next},
                  nomina : BOOLEAN]
        /\ d.id = p.id /\ d.stato = next
    BY <1>2 DEF Sua, p
  <2>2. l.doc = d
    OBVIOUS
  <2> HIDE DEF d, l
  <2> QED BY <2>1, <2>2 DEF Sua
<1> HIDE DEF d, l
<1>4. letta' = [x \in RichiesteSeme |-> IF x = q THEN l ELSE letta[x]]
  BY <1>1 DEF InvSeme, Posseduto
<1> QED BY <1>1, <1>3, <1>4 DEF InvSeme, Posseduto

LEMMA SostituisceSeme ==
  ASSUME InvSeme, NEW q \in RichiesteSeme, Script!Sostituisce(q)
  PROVE  InvSeme'
<1> USE DEF InvSeme, Posseduto
<1>1. /\ letta[q] # Script!Niente
      /\ praticheSeme' = [praticheSeme EXCEPT ![letta[q].n] = letta[q].doc]
      /\ letta' = [letta EXCEPT ![q] = Script!Niente]
      /\ UNCHANGED <<conti, corsa>>
  BY DEF Script!Sostituisce
<1>2. Sua(letta[q].doc, Range(conti))
  BY <1>1
<1>3. praticheSeme' = [n \in DOMAIN praticheSeme |->
                         IF n = letta[q].n THEN letta[q].doc ELSE praticheSeme[n]]
  BY <1>1
<1>4. letta' = [x \in RichiesteSeme |-> IF x = q THEN Script!Niente ELSE letta[x]]
  BY <1>1
<1> QED BY <1>1, <1>2, <1>3, <1>4

LEMMA PassoSeme ==
  ASSUME InvSeme, [Script!Next]_Script!vars
  PROVE  InvSeme'
<1>1. CASE UNCHANGED Script!vars
  BY <1>1 DEF Script!vars, InvSeme, Posseduto
<1>2. ASSUME NEW r \in Corse,
             \/ \E utenti \in 1..MaxUtenti, n \in 1..MaxPratiche :
                  Script!Lancia(r, utenti, n)
             \/ Script!UpsertUtente(r) \/ Script!FineUtenti(r)
             \/ Script!UpsertPratica(r) \/ Script!Finisce(r)
      PROVE  InvSeme'
  BY <1>2, LanciaSeme, UpsertUtenteSeme, FineUtentiSeme, UpsertPraticaSeme, FinisceSeme
<1>3. ASSUME NEW q \in RichiesteSeme,
             \/ \E n \in 1..MaxPratiche, next \in DecisioniSeme : Script!Legge(q, n, next)
             \/ Script!Sostituisce(q)
      PROVE  InvSeme'
  BY <1>3, LeggeSeme, SostituisceSeme
<1> QED BY <1>1, <1>2, <1>3 DEF Script!Next

-----------------------------------------------------------------------------
(* The type of the script's state.                                         *)

\* A map of values T, with some of the keys K.
Mappa(f, K, T) == DOMAIN f \subseteq K /\ f \in [DOMAIN f -> T]

CorsaTipata(c) ==
  /\ c.utenti \in 0..MaxUtenti /\ c.n \in 0..MaxPratiche
  /\ c.passo = "pratiche" => Len(c.userIDs) = c.utenti

TipiSeme ==
  /\ Mappa(conti, 1..MaxUtenti, IdentSeme)
  /\ Mappa(praticheSeme, 1..MaxPratiche, Script!PraticaSeme)
  /\ \A r \in Corse : CorsaTipata(corsa[r])
  /\ \A q \in RichiesteSeme :
       letta[q] # Script!Niente =>
         letta[q].n \in DOMAIN praticheSeme /\ letta[q].doc \in Script!PraticaSeme

LEMMA TypeOKSeme == InvSeme /\ TipiSeme => Script!TypeOK
<1> SUFFICES ASSUME InvSeme, TipiSeme PROVE Script!TypeOK
  OBVIOUS
<1>1. /\ DOMAIN conti \subseteq 1..MaxUtenti /\ Script!Range(conti) \subseteq IdentSeme
      /\ DOMAIN praticheSeme \subseteq 1..MaxPratiche
      /\ Script!Range(praticheSeme) \subseteq Script!PraticaSeme
  BY DEF TipiSeme, Mappa, Script!Range
<1>2. Range(conti) \subseteq IdentSeme
  BY DEF TipiSeme, Mappa, Range
<1>3. ASSUME NEW r \in Corse
      PROVE  /\ corsa[r] \in Script!Corsa
             /\ corsa[r].passo = "utenti" => Len(corsa[r].userIDs) = corsa[r].i - 1
             /\ corsa[r].passo = "pratiche" => Len(corsa[r].userIDs) = corsa[r].utenti
  <2>1. Portata(corsa[r], Range(conti)) /\ CorsaTipata(corsa[r])
    BY DEF InvSeme, Posseduto, TipiSeme
  <2>2. corsa[r].userIDs \in Seq(IdentSeme)
    BY <1>2, <2>1 DEF Portata
  <2> QED BY <2>1, <2>2 DEF Portata, CorsaTipata, Script!Corsa
<1>4. corsa \in [Corse -> Script!Corsa]
  BY <1>3 DEF InvSeme, Posseduto
<1> QED BY <1>1, <1>3, <1>4 DEF TipiSeme, Script!TypeOK

LEMMA MappaConSeme ==
  ASSUME NEW f, NEW K, NEW T, Mappa(f, K, T), NEW k \in K, NEW v \in T
  PROVE  Mappa(Script!Con(f, k, v), K, T)
<1>1. f \in [DOMAIN f -> T] /\ DOMAIN f \subseteq K
  BY DEF Mappa
<1>2. Script!Con(f, k, v) = [x \in DOMAIN f \cup {k} |-> IF x = k THEN v ELSE f[x]]
  BY Zenon DEF Script!Con
<1>3. \A x \in DOMAIN f \cup {k} : (IF x = k THEN v ELSE f[x]) \in T
  BY <1>1
<1>4. /\ DOMAIN Script!Con(f, k, v) = DOMAIN f \cup {k}
      /\ Script!Con(f, k, v) \in [DOMAIN f \cup {k} -> T]
  BY <1>2, <1>3
<1> QED BY <1>1, <1>4 DEF Mappa

\* The seed states are states.
LEMMA StatiSeme ==
  ASSUME NEW i \in Nat \ {0}
  PROVE  Script!pick(Script!states, i) \in Script!StatoPratica
<1>1. Len(Script!states) = 12
  BY DEF Script!states
<1>2. ((i - 1) % 12) + 1 \in 1..12
  OBVIOUS
<1>3. \A j \in 1..12 : Script!states[j] \in Script!StatoPratica
  BY DEF Script!states, Script!StatoPratica
<1> QED BY <1>1, <1>2, <1>3 DEF Script!pick

LEMMA SuccessoriSeme ==
  ASSUME NEW p, NEW next, Script!Transizione(p, next), p.stato \in Script!StatoPratica
  PROVE  next \in Script!StatoPratica
BY DEF Script!Transizione, Script!allowedTransitions, Script!successoriVisto, Script!StatoPratica

LEMMA PassoTipiSeme ==
  ASSUME InvSeme, TipiSeme, [Script!Next]_Script!vars
  PROVE  TipiSeme'
<1> USE DEF TipiSeme
<1>0. MaxUtenti \in Nat /\ MaxPratiche \in Nat
  BY SeminaAssumption
<1>1. ASSUME NEW r \in Corse, NEW c, CorsaTipata(c), corsa' = [corsa EXCEPT ![r] = c]
      PROVE  \A q \in Corse : CorsaTipata(corsa'[q])
  <2>1. corsa' = [x \in Corse |-> IF x = r THEN c ELSE corsa[x]]
    BY <1>1 DEF InvSeme, Posseduto
  <2> QED BY <1>1, <2>1
<1>2. ASSUME NEW r \in Corse
      PROVE  Portata(corsa[r], Range(conti)) /\ CorsaTipata(corsa[r])
  BY DEF InvSeme, Posseduto
<1>3. CASE UNCHANGED Script!vars
  BY <1>3 DEF Script!vars
<1>4. ASSUME NEW r \in Corse, NEW utenti \in 1..MaxUtenti, NEW n \in 1..MaxPratiche,
             Script!Lancia(r, utenti, n)
      PROVE  TipiSeme'
  <2>1. PICK c : c = [Script!Ferma EXCEPT !.passo = "utenti", !.utenti = utenti, !.n = n, !.i = 1]
    OBVIOUS
  <2>2. c.passo = "utenti" /\ c.utenti = utenti /\ c.n = n
    BY <2>1 DEF Script!Ferma
  <2>3. CorsaTipata(c)
    BY <1>0, <2>2 DEF CorsaTipata
  <2> QED BY <1>1, <1>4, <2>1, <2>3 DEF Script!Lancia
<1>5. ASSUME NEW r \in Corse, Script!UpsertUtente(r)
      PROVE  TipiSeme'
  <2>1. PICK c : c = corsa[r]
    OBVIOUS
  <2>2. Portata(c, Range(conti)) /\ CorsaTipata(c) /\ c.passo = "utenti" /\ c.i <= c.utenti
        /\ UNCHANGED <<praticheSeme, letta>>
    BY <1>2, <1>5, <2>1 DEF Script!UpsertUtente
  <2>3. c.i \in 1..MaxUtenti
    <3>1. Len(c.userIDs) \in Nat /\ Len(c.userIDs) = c.i - 1 /\ c.i \in Nat
      BY <2>2 DEF Portata
    <3> QED BY <1>0, <2>2, <3>1 DEF CorsaTipata
  <2>4. PICK nuovo \in Script!Nuovi :
          /\ conti' = Script!Con(conti, c.i, IF c.i \in DOMAIN conti THEN conti[c.i] ELSE nuovo)
          /\ \E s : corsa' = [corsa EXCEPT ![r] = [c EXCEPT !.i = @ + 1, !.userIDs = s]]
    <3>1. PICK nuovo \in Script!Nuovi :
            LET conto == IF c.i \in DOMAIN conti THEN conti[c.i] ELSE nuovo IN
            /\ conti' = Script!Con(conti, c.i, conto)
            /\ corsa' = [corsa EXCEPT ![r].i = @ + 1,
                                      ![r].userIDs = Append(@, Script!IdUtente(conto, nuovo))]
      BY <1>5, <2>1 DEF Script!UpsertUtente
    <3>2. PICK conto : conto = IF c.i \in DOMAIN conti THEN conti[c.i] ELSE nuovo
      OBVIOUS
    <3>3. corsa' = [corsa EXCEPT ![r] =
              [c EXCEPT !.i = @ + 1, !.userIDs = Append(c.userIDs, Script!IdUtente(conto, nuovo))]]
      BY <2>1, <2>2, <3>1, <3>2 DEF InvSeme, Posseduto, Portata
    <3> QED BY <3>1, <3>3
  <2>5. nuovo \in IdentSeme
    BY DEF Script!Nuovi
  <2>6. Mappa(conti', 1..MaxUtenti, IdentSeme)
    <3>1. PICK v : v = IF c.i \in DOMAIN conti THEN conti[c.i] ELSE nuovo
      OBVIOUS
    <3>2. v \in IdentSeme
      BY <2>5, <3>1 DEF TipiSeme, Mappa
    <3>3. conti' = Script!Con(conti, c.i, v)
      BY <2>4, <3>1
    <3> QED BY <2>3, <3>2, <3>3, MappaConSeme DEF TipiSeme
  <2>7. PICK s : corsa' = [corsa EXCEPT ![r] = [c EXCEPT !.i = @ + 1, !.userIDs = s]]
    BY <2>4
  <2>8. PICK d : d = [c EXCEPT !.i = @ + 1, !.userIDs = s]
    OBVIOUS
  <2>9. d.passo = "utenti" /\ d.utenti = c.utenti /\ d.n = c.n
    BY <2>2, <2>8 DEF Portata
  <2>10. CorsaTipata(d)
    BY <2>2, <2>9 DEF CorsaTipata
  <2> QED BY <1>1, <2>2, <2>6, <2>7, <2>8, <2>10
<1>6. ASSUME NEW r \in Corse, Script!FineUtenti(r)
      PROVE  TipiSeme'
  <2>1. PICK c, d : c = corsa[r] /\ d = [c EXCEPT !.passo = "pratiche", !.i = 1]
    OBVIOUS
  <2>2. Portata(c, Range(conti)) /\ CorsaTipata(c) /\ c.passo = "utenti" /\ c.i > c.utenti
        /\ UNCHANGED <<conti, praticheSeme, letta>>
    BY <1>2, <1>6, <2>1 DEF Script!FineUtenti
  <2>3. corsa' = [corsa EXCEPT ![r] = d]
    BY <1>6, <2>1 DEF Script!FineUtenti, InvSeme, Posseduto, Portata
  <2>4. d.utenti = c.utenti /\ d.n = c.n /\ d.userIDs = c.userIDs
    BY <2>1, <2>2 DEF Portata
  <2>5. Len(c.userIDs) = c.utenti
    BY <2>2 DEF Portata, CorsaTipata
  <2>6. CorsaTipata(d)
    BY <2>2, <2>4, <2>5 DEF CorsaTipata
  <2> QED BY <1>1, <2>2, <2>3, <2>6
<1>7. ASSUME NEW r \in Corse, Script!UpsertPratica(r)
      PROVE  TipiSeme'
  <2>1. PICK c, d : c = corsa[r] /\ d = [c EXCEPT !.i = @ + 1]
    OBVIOUS
  <2>2. Portata(c, Range(conti)) /\ CorsaTipata(c) /\ c.passo = "pratiche" /\ c.i <= c.n
        /\ UNCHANGED <<conti, letta>>
    BY <1>2, <1>7, <2>1 DEF Script!UpsertPratica
  <2>3. corsa' = [corsa EXCEPT ![r] = d]
    BY <1>7, <2>1 DEF Script!UpsertPratica, InvSeme, Posseduto, Portata
  <2>4. d.utenti = c.utenti /\ d.n = c.n /\ d.userIDs = c.userIDs
    BY <2>1, <2>2 DEF Portata
  <2>5. CorsaTipata(d)
    BY <2>2, <2>4 DEF CorsaTipata
  <2>6. c.i \in 1..MaxPratiche /\ c.i \in Nat \ {0}
    BY <1>0, <2>2 DEF Portata, CorsaTipata
  <2>7. PICK stato, utente : /\ stato = Script!pick(Script!states, c.i)
                             /\ utente = Script!pick(c.userIDs, c.i)
    OBVIOUS
  <2>17. PICK nuovo \in Script!Nuovi :
           LET p == IF c.i \in DOMAIN praticheSeme THEN praticheSeme[c.i]
                    ELSE [id |-> nuovo, utente |-> utente, stato |-> stato, evento |-> stato,
                       nomina |-> TRUE]
           IN  praticheSeme' = Script!Con(praticheSeme, c.i,
                 [Script!ConSeme(p, stato, nuovo) EXCEPT !.utente = Script!Proprietario(p, utente)])
    BY <1>7, <2>1, <2>7 DEF Script!UpsertPratica
  <2>8. stato \in Script!StatoPratica
    BY <2>6, <2>7, StatiSeme
  <2>9. utente \in IdentSeme
    <3>1. c.userIDs \in Seq(Range(conti)) /\ Len(c.userIDs) \in Nat \ {0}
      BY <2>2 DEF Portata
    <3>2. PICK n \in Nat \ {0} : n = Len(c.userIDs)
      BY <3>1
    <3>3. ((c.i - 1) % n) + 1 \in 1..n
      <4>1. PICK k \in Nat \ {0} : k = c.i
        BY <2>6
      <4> QED BY <4>1
    <3>4. utente \in Range(conti)
      BY <2>7, <3>1, <3>2, <3>3 DEF Script!pick
    <3> QED BY <3>4 DEF Mappa, Range
  <2>10. PICK p : /\ p = IF c.i \in DOMAIN praticheSeme THEN praticheSeme[c.i]
                         ELSE [id |-> nuovo, utente |-> utente, stato |-> stato, evento |-> stato,
                       nomina |-> TRUE]
                  /\ praticheSeme' = Script!Con(praticheSeme, c.i,
                       [Script!ConSeme(p, stato, nuovo) EXCEPT !.utente = Script!Proprietario(p, utente)])
    BY <2>17
  <2>11. p \in Script!PraticaSeme
    BY <2>8, <2>9, <2>10 DEF Script!PraticaSeme, Script!Nuovi, Mappa
  <2>12. PICK z : z = [Script!ConSeme(p, stato, nuovo) EXCEPT
                         !.utente = Script!Proprietario(p, utente)]
    OBVIOUS
  <2>13. z \in Script!PraticaSeme
    BY <2>8, <2>11, <2>12 DEF Script!PraticaSeme, Script!ConSeme, Script!Proprietario
  <2>14. praticheSeme' = Script!Con(praticheSeme, c.i, z)
    BY <2>10, <2>12
  <2>15. Mappa(praticheSeme', 1..MaxPratiche, Script!PraticaSeme)
    BY <2>6, <2>13, <2>14, MappaConSeme
  <2>16. DOMAIN praticheSeme \subseteq DOMAIN praticheSeme'
    BY <2>14 DEF Script!Con
  <2> QED BY <1>1, <2>2, <2>3, <2>5, <2>15, <2>16
<1>8. ASSUME NEW r \in Corse, Script!Finisce(r)
      PROVE  TipiSeme'
  <2>1. CorsaTipata(Script!Ferma)
    BY <1>0 DEF CorsaTipata, Script!Ferma
  <2> QED BY <1>1, <1>8, <2>1 DEF Script!Finisce
<1>9. ASSUME NEW q \in RichiesteSeme, NEW n, NEW next, Script!Legge(q, n, next)
      PROVE  TipiSeme'
  <2>1. PICK p, d : /\ p = praticheSeme[n]
                    /\ d = [p EXCEPT !.stato = next, !.evento = next, !.nomina = TRUE]
                    /\ n \in DOMAIN praticheSeme
    BY <1>9 DEF Script!Legge
  <2>2. p \in Script!PraticaSeme /\ p.stato \in Script!StatoPratica
    BY <2>1 DEF Mappa, Script!PraticaSeme
  <2>3. next \in Script!StatoPratica
    BY <1>9, <2>1, <2>2, SuccessoriSeme DEF Script!Legge
  <2>4. d \in Script!PraticaSeme
    BY <2>1, <2>2, <2>3 DEF Script!PraticaSeme
  <2>5. PICK l : l = [n |-> n, doc |-> d]
    OBVIOUS
  <2>6. l.n = n /\ l.doc = d
    BY <2>5
  <2>7. letta' = [x \in RichiesteSeme |-> IF x = q THEN l ELSE letta[x]]
        /\ UNCHANGED <<conti, praticheSeme, corsa>>
    BY <1>9, <2>1, <2>5 DEF Script!Legge, InvSeme, Posseduto
  <2> QED BY <2>1, <2>4, <2>6, <2>7
<1>10. ASSUME NEW q \in RichiesteSeme, Script!Sostituisce(q)
       PROVE  TipiSeme'
  <2>1. /\ letta[q] # Script!Niente /\ UNCHANGED <<conti, corsa>>
        /\ praticheSeme' = [praticheSeme EXCEPT ![letta[q].n] = letta[q].doc]
        /\ letta' = [letta EXCEPT ![q] = Script!Niente]
    BY <1>10 DEF Script!Sostituisce
  <2>2. letta[q].n \in DOMAIN praticheSeme /\ letta[q].doc \in Script!PraticaSeme
    BY <2>1
  <2>3. /\ DOMAIN praticheSeme' = DOMAIN praticheSeme
        /\ Mappa(praticheSeme', 1..MaxPratiche, Script!PraticaSeme)
    BY <2>1, <2>2 DEF Mappa
  <2>4. letta' = [x \in RichiesteSeme |-> IF x = q THEN Script!Niente ELSE letta[x]]
    BY <2>1 DEF InvSeme, Posseduto
  <2> QED BY <2>1, <2>3, <2>4
<1> QED BY <1>3, <1>4, <1>5, <1>6, <1>7, <1>8, <1>9, <1>10 DEF Script!Next

LEMMA InitTipiSeme == Script!Init => TipiSeme
<1> SUFFICES ASSUME Script!Init PROVE TipiSeme
  OBVIOUS
<1>1. MaxUtenti \in Nat /\ MaxPratiche \in Nat
  BY SeminaAssumption
<1>2. CorsaTipata(Script!Ferma)
  BY <1>1 DEF CorsaTipata, Script!Ferma
<1>3. /\ Mappa(conti, 1..MaxUtenti, IdentSeme)
      /\ Mappa(praticheSeme, 1..MaxPratiche, Script!PraticaSeme)
  BY DEF Script!Init, Mappa
<1> QED BY <1>2, <1>3 DEF Script!Init, TipiSeme

-----------------------------------------------------------------------------
(* The parts together (Semina).                                            *)

InvSemina ==
  /\ Tipi
  /\ InvAvvio /\ Produzione
  /\ InvSeme /\ TipiSeme

\* A step is one of each part, or leaves it alone.
LEMMA PassoDelleParti ==
  ASSUME [NextSemina]_varsSemina
  PROVE  [Next]_vars /\ [Avvii!Next]_Avvii!vars /\ [Script!Next]_Script!vars
<1>1. UNCHANGED varsAvvio <=> UNCHANGED Avvii!vars
  BY DEF varsAvvio, Avvii!vars
<1>2. UNCHANGED varsSeme <=> UNCHANGED Script!vars
  BY DEF varsSeme, Script!vars
<1>3. CASE UNCHANGED varsSemina
  BY <1>1, <1>2, <1>3 DEF varsSemina
<1>4. CASE NextSemina
  BY <1>1, <1>2, <1>4 DEF NextSemina, PassoBozze, PassoPiani, PassoSoli
<1> QED BY <1>3, <1>4

LEMMA SeminaIniziale == InitSemina => InvSemina
BY TipiInit, InitAvvio, SemeInit, InitTipiSeme DEF InitSemina, InvSemina

LEMMA SeminaPasso == InvSemina /\ [NextSemina]_varsSemina => InvSemina'
<1> SUFFICES ASSUME InvSemina, [NextSemina]_varsSemina PROVE InvSemina'
  OBVIOUS
<1>1. [Next]_vars /\ [Avvii!Next]_Avvii!vars /\ [Script!Next]_Script!vars
  BY PassoDelleParti
<1>2. Tipi'
  BY <1>1, TipiNext DEF InvSemina
<1>3. InvAvvio' /\ Produzione'
  BY <1>1, PassoAvvio DEF InvSemina
<1>4. InvSeme' /\ TipiSeme'
  BY <1>1, PassoSeme, PassoTipiSeme DEF InvSemina
<1> QED BY <1>2, <1>3, <1>4 DEF InvSemina

\* Whoever seeds, starts or runs the script, every variable keeps its type: a
\* process is off, opens the database, seeds or serves, and holds what is its
\* own; a run of the script has an account for every turn of its first loop.
THEOREM TypeSeminaSemina == SpecSemina => []TypeSemina
<1>1. InvSemina => TypeSemina
  BY TipiTypeOK, AvvioDaInv, TypeOKSeme, SeminaAssumption DEF InvSemina, TypeSemina
<1> QED BY <1>1, SeminaIniziale, SeminaPasso, PTL DEF SpecSemina

\* In production whoever serves applies exactly the block rules that were added
\* and not removed, through whatever process and before whatever stop.
THEOREM BlocchiDuranoSemina == SpecSemina => []BlocchiDuranoInProduzione
<1>1. InvSemina => BlocchiDuranoInProduzione
  BY AvvioDaInv, SeminaAssumption DEF InvSemina, BlocchiDuranoInProduzione
<1> QED BY <1>1, SeminaIniziale, SeminaPasso, PTL DEF SpecSemina

\* Whoever serves finds every seed account usable, however many starts were cut
\* short.
THEOREM SemiPresentiSemina == SpecSemina => []SemiPresenti
<1>1. InvSemina => SemiPresenti
  BY AvvioDaInv, SeminaAssumption DEF InvSemina, SemiPresenti
<1> QED BY <1>1, SeminaIniziale, SeminaPasso, PTL DEF SpecSemina

\* No start and neither script, alone or with others, removes an account or gives
\* it another id.  An account becomes an administrator or, if it is not a seed, an
\* applicant; no other change of a role happens.
THEOREM IdentitaStabileSemina == SpecSemina => IdentitaStabile
<1>1. InvSemina /\ [NextSemina]_varsSemina =>
        [\A e \in DOMAIN db.conti :
           /\ e \in DOMAIN db'.conti
           /\ db'.conti[e].id = db.conti[e].id
           /\ db'.conti[e].ruolo \in {db.conti[e].ruolo, "ADMIN"}
                \cup {x \in {"RICHIEDENTE"} : e \in Altri}]_Avvii!vars
  BY PassoDelleParti, PassoAvvio DEF InvSemina, Cresce
<1> QED BY <1>1, SeminaIniziale, SeminaPasso, PTL
        DEF SpecSemina, IdentitaStabile, Avvii!IdentitaStabile

\* What the script writes belongs to an account that exists and is as its timeline
\* says, for any number of runs with any counts, next to any requests of the
\* server (seed_demo_data/main.go:112).
THEOREM SemeCoerenteSemina == SpecSemina => []SemeCoerente
<1>1. InvSemina => SemeCoerente
  BY DEF InvSemina, InvSeme, Posseduto, Sua, SemeCoerente, Script!SemeCoerente, Range,
         Script!Range
<1> QED BY <1>1, SeminaIniziale, SeminaPasso, PTL DEF SpecSemina

=============================================================================
