---------------------------------- MODULE Demo ----------------------------------
(***************************************************************************)
(* The demo pratiche that a start outside production writes before it      *)
(* serves (ensureSeedDemoPratiche), over the database that processes       *)
(* share.  The seeding counts the pratiche of the demo applicant, creates  *)
(* the ones that are missing, and drives each along a plan of states, one  *)
(* store call at a time.  A process may stop between two calls, another    *)
(* may be serving or seeding, and the calls may fail.                      *)
(*                                                                         *)
(* ChangePraticaState, AssignOperatore, AddNota, AddDocumento and          *)
(* DeleteDocumento read the document and replace it as a whole: two calls, *)
(* of a start as of a request, so that a write back undoes what was stored *)
(* since its read.  An insert, and the deletion of a draft, are one call.  *)
(*                                                                         *)
(* Left out: operators, notes, priorities and the other contents, so that  *)
(* the calls that write these write back what they read.  The index of a   *)
(* pratica picks its plan, notes, operator and file by remainders; here    *)
(* each of these picks is free.                                            *)
(***************************************************************************)
EXTENDS PraticaDoc, Mappe, FiniteSets

CONSTANTS Processi, PraticaId,
          Gestori,   \* handlers of requests that replace a document
          Target,    \* targetCount
          Indici,    \* the plans that are picked from
          Decisioni  \* the states that other requests lead to

VARIABLES pratiche,   \* id -> pratica of the demo applicant
          passo,      \* process -> where its start is
          mancano,    \* process -> pratiche it has still to create
          corrente,   \* process -> the pratica it is at, or Nessuna
          resto,      \* process -> states it has still to drive it through
          files,      \* process -> pratiche it may still have to give a file
          lette,      \* process or handler -> what it read and will write back
          lettaMale   \* has a list come back short (history)

vars == <<pratiche, passo, mancano, corrente, resto, files, lette, lettaMale>>

Nessuna == "nessuna"

\* Mutant: the state that awaits the payment is left out.
PianoPagamentoDiretto == <<"INVIATA", "IN_LAVORAZIONE", "APPROVATA">>

PianoPagamento == <<"INVIATA", "IN_LAVORAZIONE", "APPROVATA", "ATTENDE_PAGAMENTO">>

PianoVisto ==
  PianoPagamento \o <<"PAGAMENTO_RICEVUTO", "VISTO_IN_ELABORAZIONE", "VISTO_EMESSO">>

plans ==
  << << >>,
     <<"INVIATA">>,
     <<"INVIATA", "IN_LAVORAZIONE">>,
     <<"INVIATA", "IN_LAVORAZIONE", "INTEGRAZIONE_RICHIESTA">>,
     <<"INVIATA", "IN_LAVORAZIONE", "SOSPESA">>,
     <<"INVIATA", "RIFIUTATA">>,
     <<"ANNULLATA">>,
     PianoPagamento,
     Append(PianoVisto, "COMPLETATA"),
     PianoVisto,
     <<"INVIATA", "IN_LAVORAZIONE", "INTEGRAZIONE_RICHIESTA", "IN_LAVORAZIONE",
       "APPROVATA">>,
     <<"INVIATA", "IN_LAVORAZIONE", "APPROVATA">> >>

ASSUME DemoAssumption ==
  /\ IsFiniteSet(Processi)
  /\ Gestori \cap Processi = {}
  /\ Target \in Nat \ {0}
  /\ Indici \subseteq DOMAIN plans
  /\ Decisioni \subseteq StatoPratica
  /\ Nessuna \notin PraticaId

\* What is stored of a pratica, and read and written as a whole.
Documento == [stato : StatoPratica,
              docs  : Nat]                    \* files of the seeding

PraticaDemo == [stato : StatoPratica,
                docs  : Nat,
                piano : 0..Len(plans),        \* its plan; 0: not seeded
                segue : {"si", "interrotta", "altrui", "finita"},
                  \* history: being driven; left by a stop or a failed call;
                  \* changed by someone else; driven to the end
                perse : SUBSET {"stato", "docs"}]
                  \* history: what a write back undid

\* A document between its read and its replacement.
Lettura == [id : PraticaId, letto : Documento, scrive : Documento]

TypeOK ==
  /\ DOMAIN pratiche \subseteq PraticaId
  /\ \A x \in DOMAIN pratiche : pratiche[x] \in PraticaDemo
  /\ passo \in [Processi -> {"spento", "elenca", "crea", "primo", "muove", "annota",
                             "documenta", "allega", "attivo"}]
  /\ mancano \in [Processi -> 0..Target]
  /\ corrente \in [Processi -> PraticaId \cup {Nessuna}]
  /\ files \in [Processi -> SUBSET PraticaId]
  /\ DOMAIN lette \subseteq Processi \cup Gestori
  /\ \A w \in DOMAIN lette :
       /\ lette[w] \in Lettura
       /\ w \in Processi => /\ passo[w] \in {"primo", "muove", "annota", "allega"}
                           /\ corrente[w] = lette[w].id
  /\ \A p \in Processi :
       /\ resto[p] # << >> => passo[p] \in {"primo", "muove", "annota"}
       /\ passo[p] \in {"primo", "muove", "annota", "allega"} => corrente[p] # Nessuna

Init ==
  /\ pratiche = << >>
  /\ passo = [p \in Processi |-> "spento"]
  /\ mancano = [p \in Processi |-> 0]
  /\ corrente = [p \in Processi |-> Nessuna]
  /\ resto = [p \in Processi |-> << >>]
  /\ files = [p \in Processi |-> {}]
  /\ lette = << >>
  /\ lettaMale = FALSE

Va(p, dove) == passo' = [passo EXCEPT ![p] = dove]

\* Ids of a new pratica: nobody has them any more.
Nuovi == PraticaId \ (DOMAIN pratiche
                        \cup {lette[w].id : w \in DOMAIN lette}
                        \cup UNION {{corrente[p]} \cup files[p] : p \in Processi})

-----------------------------------------------------------------------------
(* The two calls of a whole-document write.                                *)

\* GetPratica for a writer w, which will store stato and docs.
Legge(w, x, stato, docs) ==
  /\ w \notin DOMAIN lette
  /\ lette' = Con(lette, w,
       [id     |-> x,
        letto  |-> [stato |-> pratiche[x].stato, docs |-> pratiche[x].docs],
        scrive |-> [stato |-> stato, docs |-> docs]])

\* What w undoes in d: what d no longer has as w read it.
Perde(w, d) == {f \in {"stato", "docs"} : d[f] # lette[w].letto[f]}

\* A state that w changes is the next of a plan, or someone else's change.
SegueDopo(w, d) ==
  IF lette[w].scrive.stato = lette[w].letto.stato
  THEN d.segue
  ELSE IF w \in Gestori
       THEN "altrui"
       ELSE IF Len(resto[w]) = 1 /\ d.segue = "si" THEN "finita" ELSE d.segue

\* ReplaceOne by id: over whatever is stored by now.  A pratica that is gone
\* stays so, and that is no error.
Sostituisce(w) ==
  /\ w \in DOMAIN lette
  /\ pratiche' = [x \in DOMAIN pratiche |->
       IF x = lette[w].id
       THEN [stato |-> lette[w].scrive.stato, docs |-> lette[w].scrive.docs,
             piano |-> pratiche[x].piano,
             segue |-> SegueDopo(w, pratiche[x]),
             perse |-> pratiche[x].perse \cup Perde(w, pratiche[x])]
       ELSE pratiche[x]]
  /\ lette' = Senza(lette, w)

\* Either call fails, or the first finds no document.
Rinuncia(w) == pratiche' = pratiche /\ lette' = Senza(lette, w)

-----------------------------------------------------------------------------
(* The seeding.                                                            *)

Avvia(p) ==
  /\ passo[p] = "spento"
  /\ Va(p, "elenca")
  /\ UNCHANGED <<pratiche, mancano, corrente, resto, files, lette, lettaMale>>

\* The demo account is not there and cannot be created or read.
SenzaConto(p) ==
  /\ passo[p] = "elenca"
  /\ Va(p, "attivo")
  /\ UNCHANGED <<pratiche, mancano, corrente, resto, files, lette, lettaMale>>

\* Mutant: the pratiche that exist are not subtracted.
NeededTutte(n) == IF n >= Target THEN 0 ELSE Target

\* Mutant: a list longer than the target is not looked for.
NeededSenzaSoglia(n) == Target - n

needed(n) == IF n >= Target THEN 0 ELSE Target - n

\* The pratiche of the list are S: enough of them, and some are given a file,
\* or some are missing.
Conta(p, S) ==
  /\ mancano' = [mancano EXCEPT ![p] = needed(Cardinality(S))]
  /\ IF Cardinality(S) >= Target
     THEN /\ Va(p, "documenta")
          /\ \E F \in SUBSET S : files' = [files EXCEPT ![p] = F]
     ELSE Va(p, "crea") /\ UNCHANGED files
  /\ UNCHANGED <<pratiche, corrente, resto, lette>>

Elenca(p) ==
  /\ passo[p] = "elenca"
  /\ Conta(p, DOMAIN pratiche)
  /\ UNCHANGED lettaMale

\* Find fails, or its cursor stops early: ListPraticheByUser returns what it
\* has, and no error.
ElencaMale(p) ==
  /\ passo[p] = "elenca"
  /\ \E S \in SUBSET DOMAIN pratiche : S # DOMAIN pratiche /\ Conta(p, S)
  /\ lettaMale' = TRUE

Prossima(p) == mancano' = [mancano EXCEPT ![p] = @ - 1]

Crea(p) ==
  /\ passo[p] = "crea" /\ mancano[p] > 0
  /\ \E x \in Nuovi, i \in Indici :
       /\ pratiche' = Con(pratiche, x,
            [stato |-> "BOZZA", docs |-> 0, piano |-> i, perse |-> {},
             segue |-> IF plans[i] = << >> THEN "finita" ELSE "si"])
       /\ corrente' = [corrente EXCEPT ![p] = x]
       /\ resto' = [resto EXCEPT ![p] = plans[i]]
       /\ Va(p, IF plans[i] = << >> THEN "annota" ELSE "primo")
  /\ Prossima(p)
  /\ UNCHANGED <<files, lette, lettaMale>>

CreaFallisce(p) ==
  /\ passo[p] = "crea" /\ mancano[p] > 0
  /\ Prossima(p)
  /\ UNCHANGED <<pratiche, passo, corrente, resto, files, lette, lettaMale>>

\* ChangePraticaState to the next state of the plan reads the pratica, which
\* the table lets move, ...
MuoveLegge(p) ==
  LET x == corrente[p] IN
  /\ passo[p] \in {"primo", "muove"}
  /\ x \in DOMAIN pratiche
  /\ Transizione(pratiche[x], Head(resto[p]))
  /\ Legge(p, x, Head(resto[p]), pratiche[x].docs)
  /\ UNCHANGED <<pratiche, passo, mancano, corrente, resto, files, lettaMale>>

\* ... and replaces it.  The first state may be followed by an assignment, the
\* last one by notes (at most two; here any number).
Muove(p) ==
  /\ passo[p] \in {"primo", "muove"}
  /\ Sostituisce(p)
  /\ resto' = [resto EXCEPT ![p] = Tail(@)]
  /\ Va(p, IF passo[p] = "primo" \/ Len(resto[p]) = 1 THEN "annota" ELSE "muove")
  /\ UNCHANGED <<mancano, corrente, files, lettaMale>>

\* The table refuses the step, the draft was deleted, or either call fails.  A
\* first step that fails leaves the pratica as it is (continue); a later one
\* ends its plan (break).
MuoveFallisce(p) ==
  /\ passo[p] \in {"primo", "muove"}
  /\ pratiche' = [x \in DOMAIN pratiche |->
       IF /\ x = corrente[p] /\ pratiche[x].segue = "si"
          /\ p \in DOMAIN lette \/ Transizione(pratiche[x], Head(resto[p]))
       THEN [pratiche[x] EXCEPT !.segue = "interrotta"]
       ELSE pratiche[x]]
  /\ lette' = Senza(lette, p)
  /\ resto' = [resto EXCEPT ![p] = << >>]
  /\ Va(p, IF passo[p] = "primo" THEN "crea" ELSE "annota")
  /\ UNCHANGED <<mancano, corrente, files, lettaMale>>

\* AssignOperatore or AddNota reads the pratica, ...
AnnotaLegge(p) ==
  LET x == corrente[p] IN
  /\ passo[p] = "annota"
  /\ x \in DOMAIN pratiche
  /\ Legge(p, x, pratiche[x].stato, pratiche[x].docs)
  /\ UNCHANGED <<pratiche, passo, mancano, corrente, resto, files, lettaMale>>

\* ... and writes it back, or fails; whatever it answers, on with the plan.
Annota(p) ==
  /\ passo[p] = "annota"
  /\ p \in DOMAIN lette \/ resto[p] # << >>
  /\ Sostituisce(p) \/ Rinuncia(p)
  /\ IF resto[p] = << >> THEN UNCHANGED passo ELSE Va(p, "muove")
  /\ UNCHANGED <<mancano, corrente, resto, files, lettaMale>>

\* After the notes, some pratiche are given a file.
VersoFile(p) ==
  /\ passo[p] = "annota" /\ resto[p] = << >> /\ p \notin DOMAIN lette
  /\ Va(p, "documenta")
  /\ \E F \in SUBSET {corrente[p]} : files' = [files EXCEPT ![p] = F]
  /\ UNCHANGED <<pratiche, mancano, corrente, resto, lette, lettaMale>>

SenzaFile(x) == pratiche[x].docs = 0

\* seedDemoDocumento: ListDocumenti finds none, ...
Guarda(p, x) ==
  /\ passo[p] = "documenta" /\ x \in files[p]
  /\ files' = [files EXCEPT ![p] = @ \ {x}]
  /\ IF x \in DOMAIN pratiche /\ SenzaFile(x)
     THEN Va(p, "allega") /\ corrente' = [corrente EXCEPT ![p] = x]
     ELSE UNCHANGED <<passo, corrente>>
  /\ UNCHANGED <<pratiche, mancano, resto, lette, lettaMale>>

\* ... AddDocumento reads the pratica once more ...
AllegaLegge(p) ==
  LET x == corrente[p] IN
  /\ passo[p] = "allega"
  /\ x \in DOMAIN pratiche
  /\ Legge(p, x, pratiche[x].stato, pratiche[x].docs + 1)
  /\ UNCHANGED <<pratiche, passo, mancano, corrente, resto, files, lettaMale>>

\* ... and replaces it with one that has a file more, or fails.
Allega(p) ==
  /\ passo[p] = "allega"
  /\ Sostituisce(p) \/ Rinuncia(p)
  /\ Va(p, "documenta")
  /\ UNCHANGED <<mancano, corrente, resto, files, lettaMale>>

\* With nothing left to do for this pratica, the next; after the last, serve.
Prosegue(p) ==
  /\ passo[p] = "documenta" /\ files[p] = {}
  /\ Va(p, "crea")
  /\ UNCHANGED <<pratiche, mancano, corrente, resto, files, lette, lettaMale>>

Serve(p) ==
  /\ passo[p] = "crea" /\ mancano[p] = 0
  /\ Va(p, "attivo")
  /\ corrente' = [corrente EXCEPT ![p] = Nessuna]
  /\ UNCHANGED <<pratiche, mancano, resto, files, lette, lettaMale>>

\* The process stops, or crashes.
Ferma(p) ==
  /\ passo[p] # "spento"
  /\ Va(p, "spento")
  /\ pratiche' = [x \in DOMAIN pratiche |->
       IF x = corrente[p] /\ resto[p] # << >> /\ pratiche[x].segue = "si"
       THEN [pratiche[x] EXCEPT !.segue = "interrotta"] ELSE pratiche[x]]
  /\ mancano' = [mancano EXCEPT ![p] = 0]
  /\ corrente' = [corrente EXCEPT ![p] = Nessuna]
  /\ resto' = [resto EXCEPT ![p] = << >>]
  /\ files' = [files EXCEPT ![p] = {}]
  /\ lette' = Senza(lette, p)
  /\ UNCHANGED lettaMale

-----------------------------------------------------------------------------
(* The requests that a serving process accepts.                            *)

QualcunoServe == \E p \in Processi : passo[p] = "attivo"

\* The demo applicant creates a pratica of his own, ...
CreaUtente(x) ==
  /\ QualcunoServe /\ x \in Nuovi
  /\ pratiche' = Con(pratiche, x, [stato |-> "BOZZA", docs |-> 0, piano |-> 0,
                                   perse |-> {}, segue |-> "finita"])
  /\ UNCHANGED <<passo, mancano, corrente, resto, files, lette, lettaMale>>

\* ... or deletes a draft.
EliminaUtente(x) ==
  /\ QualcunoServe /\ x \in DOMAIN pratiche /\ pratiche[x].stato = "BOZZA"
  /\ pratiche' = Senza(pratiche, x)
  /\ UNCHANGED <<passo, mancano, corrente, resto, files, lette, lettaMale>>

\* A handler h reads a pratica: to delete a file, ...
EliminaFile(h, x) ==
  /\ QualcunoServe /\ x \in DOMAIN pratiche /\ pratiche[x].docs > 0
  /\ Legge(h, x, pratiche[x].stato, pratiche[x].docs - 1)
  /\ UNCHANGED <<pratiche, passo, mancano, corrente, resto, files, lettaMale>>

\* ... to change its state (an operator, or the applicant who submits), ...
CambiaStato(h, x, next) ==
  /\ QualcunoServe /\ x \in DOMAIN pratiche /\ Transizione(pratiche[x], next)
  /\ Legge(h, x, next, pratiche[x].docs)
  /\ UNCHANGED <<pratiche, passo, mancano, corrente, resto, files, lettaMale>>

\* ... or to change something else: the draft, the operator, a note.
AltraModifica(h, x) ==
  /\ QualcunoServe /\ x \in DOMAIN pratiche
  /\ Legge(h, x, pratiche[x].stato, pratiche[x].docs)
  /\ UNCHANGED <<pratiche, passo, mancano, corrente, resto, files, lettaMale>>

\* ... and replaces it.  Its call fails, or its process stops: nothing is
\* stored.
Conclude(h) ==
  /\ h \in DOMAIN lette
  /\ Sostituisce(h) \/ Rinuncia(h)
  /\ UNCHANGED <<passo, mancano, corrente, resto, files, lettaMale>>

-----------------------------------------------------------------------------

Semina(p) ==
  \/ Elenca(p) \/ ElencaMale(p) \/ SenzaConto(p)
  \/ Crea(p) \/ CreaFallisce(p)
  \/ MuoveLegge(p) \/ Muove(p) \/ MuoveFallisce(p)
  \/ AnnotaLegge(p) \/ Annota(p) \/ VersoFile(p)
  \/ \E x \in PraticaId : Guarda(p, x)
  \/ AllegaLegge(p) \/ Allega(p) \/ Prosegue(p) \/ Serve(p)

Richiesta(h) ==
  \/ \E x \in PraticaId : EliminaFile(h, x) \/ AltraModifica(h, x)
  \/ \E x \in PraticaId, next \in Decisioni : CambiaStato(h, x, next)
  \/ Conclude(h)

Next ==
  \/ \E p \in Processi : Avvia(p) \/ Semina(p) \/ Ferma(p)
  \/ \E x \in PraticaId : CreaUtente(x) \/ EliminaUtente(x)
  \/ \E h \in Gestori : Richiesta(h)

Spec == Init /\ [][Next]_vars

-----------------------------------------------------------------------------
(* Properties.                                                             *)

\* The pratiche of the plans, and those still to be created.
Seminate == {x \in DOMAIN pratiche : pratiche[x].piano # 0}

Mancanti == {m \in Processi \X (1..Target) : m[2] <= mancano[m[1]]}

\* Starts that overlap, or that follow one another after stops at any call,
\* seed at most the target each, however the applicant creates and deletes in
\* between, unless a list came back short.  (Those still to be created count:
\* needed, server.go:249.)  The look at the files of a pratica, the read and the
\* write of AddDocumento are three calls, so that each start may add a file to
\* it, and no more than that, unless a write back undid a deletion or an
\* addition of files.
DemoLimitate ==
  /\ ~lettaMale =>
       Cardinality(Seminate) + Cardinality(Mancanti) <= Target * Cardinality(Processi)
  /\ \A x \in DOMAIN pratiche :
       "docs" \notin pratiche[x].perse => pratiche[x].docs <= Cardinality(Processi)

\* A pratica that the seeding drove to the end of its plan, and nobody else
\* changed, is in the last state of that plan, unless a write back undid a
\* change of its state: the transition table allows every plan, and a stop, a
\* failed call or a write back of an earlier state, such as another start's
\* AddDocumento, is the only way to leave one half way.
PianoCompiuto ==
  \A x \in DOMAIN pratiche :
    LET i == pratiche[x].piano IN
    (i # 0 /\ pratiche[x].segue # "altrui" /\ "stato" \notin pratiche[x].perse) =>
      /\ pratiche[x].segue = "finita" =>
           pratiche[x].stato = IF plans[i] = << >> THEN "BOZZA" ELSE plans[i][Len(plans[i])]
      /\ pratiche[x].segue = "si" =>
           \E p \in Processi : corrente[p] = x /\ resto[p] # << >>

=============================================================================
