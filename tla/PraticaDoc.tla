------------------------------ MODULE PraticaDoc ------------------------------
(***************************************************************************)
(* The pratica (visa application) as one document, and what each operation *)
(* of the DataStore computes from the document it read.  Both stores share *)
(* these computations line for line: MemoryStore applies them under one    *)
(* mutex, MongoStore between a FindOne and a ReplaceOne.  The modules      *)
(* PraticaMemory and PraticaMongo add that difference.                     *)
(*                                                                         *)
(* Abstracted: free texts (notes, messages), timestamps (a *time.Time that *)
(* is nil or not becomes a Boolean), prices and names.                     *)
(***************************************************************************)
EXTENDS Naturals, Sequences

CONSTANTS Utenti,       \* applicants (role RICHIEDENTE)
          Operatori,    \* users an operator can be assigned from
          Dati,         \* contents the editable fields of a draft may have
          Documenti     \* uploaded files (one uuid each)

StatoPratica ==
  {"BOZZA", "INVIATA", "IN_LAVORAZIONE", "INTEGRAZIONE_RICHIESTA", "SOSPESA",
   "APPROVATA", "RIFIUTATA", "ATTENDE_PAGAMENTO", "PAGAMENTO_RICEVUTO",
   "VISTO_IN_ELABORAZIONE", "VISTO_EMESSO", "COMPLETATA", "ANNULLATA"}

\* Mutant: a visa that was issued can still be revoked.
successoriVistoRevocabile == {"COMPLETATA", "ANNULLATA"}

\* The table's entry of StatoVistoEmesso.
successoriVisto == {"COMPLETATA"}

\* The transition table; a state without an entry has no successor.
allowedTransitions ==
  [s \in StatoPratica |->
     CASE s = "BOZZA"                  -> {"ANNULLATA", "INVIATA"}
       [] s = "INVIATA"                -> {"IN_LAVORAZIONE", "RIFIUTATA"}
       [] s = "IN_LAVORAZIONE"         -> {"SOSPESA", "INTEGRAZIONE_RICHIESTA",
                                           "APPROVATA", "RIFIUTATA"}
       [] s = "INTEGRAZIONE_RICHIESTA" -> {"APPROVATA", "IN_LAVORAZIONE"}
       [] s = "SOSPESA"                -> {"IN_LAVORAZIONE", "RIFIUTATA"}
       [] s = "APPROVATA"              -> {"ATTENDE_PAGAMENTO"}
       [] s = "ATTENDE_PAGAMENTO"      -> {"PAGAMENTO_RICEVUTO"}
       [] s = "PAGAMENTO_RICEVUTO"     -> {"VISTO_IN_ELABORAZIONE"}
       [] s = "VISTO_IN_ELABORAZIONE"  -> {"VISTO_EMESSO"}
       [] s = "VISTO_EMESSO"           -> successoriVisto
       [] OTHER                        -> {}]

\* The Go zero value of a state or an operator id.
Vuoto == ""

TipoEvento == {"PRATICA_CREATA", "STATO_CAMBIATO", "ASSEGNAZIONE_OPERATORE",
               "NOTA_AGGIUNTA"}

EventoPratica == [tipo : TipoEvento,
                  da   : StatoPratica \cup {Vuoto},
                  a    : StatoPratica \cup {Vuoto}]

Evento(tipo, da, a) == [tipo |-> tipo, da |-> da, a |-> a]

Pratica == [utente     : Utenti,
            operatore  : Operatori \cup {Vuoto},
            dati       : Dati,
            stato      : StatoPratica,
            inviata    : BOOLEAN,          \* InviatoIl # nil
            completata : BOOLEAN,          \* CompletatoIl # nil
            documenti  : SUBSET Documenti,
            eventi     : Seq(EventoPratica)]

-----------------------------------------------------------------------------
(* What the store operations write, from the document p they read.         *)

\* Mutant: the document is stored with the zero value of its state.
NuovaPraticaSenzaStato(u, d) ==
  [utente     |-> u,
   operatore  |-> Vuoto,
   dati       |-> d,
   stato      |-> Vuoto,
   inviata    |-> FALSE,
   completata |-> FALSE,
   documenti  |-> {},
   eventi     |-> <<Evento("PRATICA_CREATA", Vuoto, "BOZZA")>>]

NuovaPratica(u, d) ==
  [utente     |-> u,
   operatore  |-> Vuoto,
   dati       |-> d,
   stato      |-> "BOZZA",
   inviata    |-> FALSE,
   completata |-> FALSE,
   documenti  |-> {},
   eventi     |-> <<Evento("PRATICA_CREATA", Vuoto, "BOZZA")>>]

Transizione(p, next) == next \in allowedTransitions[p.stato]

ConStato(p, next) ==
  [p EXCEPT !.stato      = next,
            !.inviata    = @ \/ next = "INVIATA",
            !.completata = @ \/ next = "COMPLETATA",
            !.eventi     = Append(@, Evento("STATO_CAMBIATO", p.stato, next))]

\* Mutant: the check on the owner without the check on the state.
SoloProprietario(p, u) == p.utente = u

\* Who may edit, delete or submit a draft.
BozzaDi(p, u) == p.utente = u /\ p.stato = "BOZZA"

ConDati(p, d) == [p EXCEPT !.dati = d]

ConOperatore(p, o) ==
  [p EXCEPT !.operatore = o,
            !.eventi = Append(@, Evento("ASSEGNAZIONE_OPERATORE", Vuoto, Vuoto))]

ConNota(p) ==
  [p EXCEPT !.eventi = Append(@, Evento("NOTA_AGGIUNTA", Vuoto, Vuoto))]

ConDocumento(p, d) == [p EXCEPT !.documenti = @ \cup {d}]

SenzaDocumento(p, d) == [p EXCEPT !.documenti = @ \ {d}]

\* RequestDocumento first looks for these states.  SOSPESA has no transition
\* to INTEGRAZIONE_RICHIESTA, so from SOSPESA its ChangePraticaState fails.
Richiedibile(p) == p.stato \in {"IN_LAVORAZIONE", "SOSPESA"}

-----------------------------------------------------------------------------
(* Consistency of one document: its timeline explains its state.           *)

\* Positions of the timeline that set the state (creation included).
Cambi(log) == {i \in 1..Len(log) : log[i].a # Vuoto}

\* The last position before n that set the state is i.
UltimoPrima(log, n, i) ==
  /\ i \in Cambi(log)
  /\ i < n
  /\ \A k \in Cambi(log) : k < n => k <= i

\* Every change in the timeline starts from the state the timeline had
\* reached, and the table allows it.
Catena(log) ==
  \A j \in Cambi(log) :
    \/ j = 1 /\ log[j] = Evento("PRATICA_CREATA", Vuoto, "BOZZA")
    \/ /\ log[j].tipo = "STATO_CAMBIATO"
       /\ \E i \in Cambi(log) : UltimoPrima(log, j, i) /\ log[i].a = log[j].da
       /\ log[j].da \in StatoPratica
       /\ log[j].a \in allowedTransitions[log[j].da]

\* Replaying the timeline gives the stored state.
StatoSpiegato(p) ==
  \E i \in Cambi(p.eventi) :
    /\ UltimoPrima(p.eventi, Len(p.eventi) + 1, i)
    /\ p.eventi[i].a = p.stato

\* The timeline has gone through state s.
Passata(p, s) == \E i \in 1..Len(p.eventi) : p.eventi[i].a = s

\* The milestones: nothing is paid, issued or completed without having been
\* submitted, approved and paid for.
DopoPagamento == {"PAGAMENTO_RICEVUTO", "VISTO_IN_ELABORAZIONE",
                  "VISTO_EMESSO", "COMPLETATA"}

DopoApprovazione == DopoPagamento \cup {"APPROVATA", "ATTENDE_PAGAMENTO"}

Tappe(p) ==
  /\ p.stato \notin {"BOZZA", "ANNULLATA"} => Passata(p, "INVIATA")
  /\ p.stato \in DopoApprovazione => Passata(p, "APPROVATA")
  /\ p.stato \in DopoPagamento => Passata(p, "PAGAMENTO_RICEVUTO")

\* The two dates agree with the timeline.
DateSpiegate(p) ==
  /\ p.inviata <=> Passata(p, "INVIATA")
  /\ p.completata <=> Passata(p, "COMPLETATA")

\* A pratica is submitted at most once.
InvioUnico(p) ==
  /\ \A i, j \in Cambi(p.eventi) :
       p.eventi[i].a = "INVIATA" /\ p.eventi[j].a = "INVIATA" => i = j
  /\ p.stato = "BOZZA" => ~Passata(p, "INVIATA")

Coerente(p) ==
  /\ Catena(p.eventi)
  /\ StatoSpiegato(p)
  /\ Tappe(p)
  /\ DateSpiegate(p)
  /\ InvioUnico(p)

=============================================================================
