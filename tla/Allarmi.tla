--------------------------------- MODULE Allarmi ---------------------------------
(***************************************************************************)
(* The log of security events, the login lock that feeds it, and the       *)
(* stream that shows administrators how serious the last minutes were.  A  *)
(* login tells the lock its outcome, then writes an event and ignores      *)
(* whether that worked; every few seconds the stream reads the list of     *)
(* events, counts those in its window, and sends the snapshot when it      *)
(* differs from the one it sent before.                                    *)
(*                                                                         *)
(* The list of MongoStore holds the newest LimiteLista events only; when   *)
(* the query fails, or its cursor stops, a part of those, or none.  An     *)
(* event is its kind and its time, and a number that tells it from its     *)
(* equals (both stores sort by time, so the order of insertion is left     *)
(* out); every kind but two is "ALTRO", that of a login that succeeds too. *)
(* Logins come here from an address that the rate limiter lets through     *)
(* (Accessi has the others).                                               *)
(***************************************************************************)
EXTENDS Accessi, Integers

CONSTANTS FinestraAllarme,   \* SECURITY_ALERT_WINDOW_MINUTES
          SogliaAllarme,     \* SECURITY_ALERT_FAILED_THRESHOLD, as set
          LimiteLista,       \* events a list of MongoStore returns (1000)
          MaxEventi          \* bound on the events of the log

ASSUME AllarmiAssumption ==
  /\ FinestraAllarme \in Int /\ SogliaAllarme \in Int
  /\ LimiteLista \in Nat /\ MaxEventi \in Nat

VARIABLES store,      \* the DataStore main() has chosen: "memory" or "mongo"
          eventi,     \* the log, a set of events
          sospesi,    \* login -> event it is about to write
          mostrato,   \* what the client of the stream shows; Chiuso without one
          persi       \* has an event not been written (history)

varsAllarmi == <<vars, store, eventi, sospesi, mostrato, persi>>

Tipo == {"LOGIN_FAILED", "LOGIN_LOCKED", "ALTRO"}

SecurityEvent == [tipo : Tipo, quando : Ore, n : 1..MaxEventi]

\* An event about to be written; quando is 0 until the store sets CreatoIl.
Sospeso == [tipo : Tipo, quando : {0} \cup Ore]

Chiuso == [gravita |-> "chiuso", falliti |-> 0, bloccati |-> 0]

Snapshot == [gravita : {"ok", "warning", "critical"}, falliti : Nat, bloccati : Nat]

TypeAllarmi ==
  /\ TypeOK
  /\ store \in {"memory", "mongo"}
  /\ eventi \subseteq SecurityEvent
  /\ DOMAIN sospesi \subseteq Richieste \ DOMAIN volo
  /\ sospesi \in [DOMAIN sospesi -> Sospeso]
  /\ mostrato \in Snapshot \cup {Chiuso}
  /\ persi \in BOOLEAN

InitLog ==
  /\ store \in {"memory", "mongo"}
  /\ eventi = {}
  /\ sospesi = << >>
  /\ mostrato = Chiuso
  /\ persi = FALSE

InitAllarmi == Init /\ InitLog

-----------------------------------------------------------------------------
(* Logins, with the event each of them writes.                             *)

Sospendi(r, tipo) == sospesi' = Con(sospesi, r, [tipo |-> tipo, quando |-> 0])

\* Bound: a login starts while the log has room for the events of all.
LoginArriva(r, e) ==
  /\ r \notin DOMAIN sospesi
  /\ Cardinality(eventi) + Cardinality(DOMAIN volo \cup DOMAIN sospesi) < MaxEventi
  /\ ArrivaSenzaLimite(r, e)
  /\ UNCHANGED <<eventi, sospesi, mostrato, persi>>

\* A login without an e-mail is refused before the tracker is asked.
LoginSenzaEmail(r) ==
  /\ Libera(r) /\ r \notin DOMAIN sospesi
  /\ Cardinality(eventi) + Cardinality(DOMAIN volo \cup DOMAIN sospesi) < MaxEventi
  /\ Sospendi(r, "LOGIN_FAILED")
  /\ UNCHANGED <<vars, eventi, mostrato, persi>>

LoginIsLocked(r) ==
  /\ IsLocked(r)
  /\ IF Bloccata(volo[r].email)
     THEN Sospendi(r, "LOGIN_LOCKED")
     ELSE UNCHANGED sospesi
  /\ UNCHANGED <<eventi, mostrato, persi>>

\* What RecordFailure answers: is the account locked now?
ChiudeConto(e) ==
  LET n == EntryDi(e) IN ora < n.lockedUntil \/ ora < Conta(n).lockedUntil

LoginFallito(r) ==
  /\ RecordFailure(r)
  /\ Sospendi(r, IF ChiudeConto(volo[r].email) THEN "LOGIN_LOCKED" ELSE "LOGIN_FAILED")
  /\ UNCHANGED <<eventi, mostrato, persi>>

LoginNonConta(r) ==
  /\ NonConta(r)
  /\ Sospendi(r, "LOGIN_FAILED")
  /\ UNCHANGED <<eventi, mostrato, persi>>

LoginRiuscito(r) ==
  /\ Clear(r)
  /\ Sospendi(r, "ALTRO")
  /\ UNCHANGED <<eventi, mostrato, persi>>

-----------------------------------------------------------------------------
(* The log.                                                                *)

Aggiungi(tipo, quando) ==
  LET uguali == {e \in eventi : e.tipo = tipo /\ e.quando = quando}
      nuovo == [tipo |-> tipo, quando |-> quando, n |-> Cardinality(uguali) + 1]
  IN  eventi' = eventi \cup {nuovo}

\* MemoryStore stamps and appends under its mutex.
AddMemory(r) ==
  /\ store = "memory"
  /\ r \in DOMAIN sospesi
  /\ Aggiungi(sospesi[r].tipo, ora)
  /\ sospesi' = Senza(sospesi, r)
  /\ UNCHANGED <<vars, mostrato, persi>>

\* MongoStore stamps ...
AddTimbra(r) ==
  /\ store = "mongo"
  /\ r \in DOMAIN sospesi
  /\ sospesi[r].quando = 0
  /\ sospesi' = [sospesi EXCEPT ![r].quando = ora]
  /\ UNCHANGED <<vars, eventi, mostrato, persi>>

\* Mutant: the event keeps the zero value of its time.
AddInserisceSenzaData(r) ==
  /\ r \in DOMAIN sospesi
  /\ sospesi[r].quando # 0
  /\ Aggiungi(sospesi[r].tipo, 0)
  /\ sospesi' = Senza(sospesi, r)
  /\ UNCHANGED <<vars, mostrato, persi>>

\* ... and inserts; other events may be inserted in between.
AddInserisce(r) ==
  /\ r \in DOMAIN sospesi
  /\ sospesi[r].quando # 0
  /\ Aggiungi(sospesi[r].tipo, sospesi[r].quando)
  /\ sospesi' = Senza(sospesi, r)
  /\ UNCHANGED <<vars, mostrato, persi>>

\* The insertion fails, or the process stops: recordSecurityEvent ignores it.
AddFallisce(r) ==
  /\ store = "mongo"
  /\ r \in DOMAIN sospesi
  /\ sospesi' = Senza(sospesi, r)
  /\ persi' = TRUE
  /\ UNCHANGED <<vars, eventi, mostrato>>

\* Another handler writes an event of its own.
AltroEvento ==
  /\ Cardinality(eventi) + Cardinality(DOMAIN volo \cup DOMAIN sospesi) < MaxEventi
  /\ Aggiungi("ALTRO", ora)
  /\ UNCHANGED <<vars, sospesi, mostrato, persi>>

-----------------------------------------------------------------------------
(* Lists and snapshots.                                                    *)

\* Mutant: the list of MongoStore is sorted the wrong way round.
ListePrimaVecchi ==
  IF store = "memory" THEN {eventi}
  ELSE {S \in SUBSET eventi :
          /\ Cardinality(S) <= LimiteLista
          /\ S # eventi => Cardinality(S) = LimiteLista
          /\ \A e \in S, f \in eventi \ S : e.quando <= f.quando}

\* ListSecurityEvents, when nothing fails: of events of one instant any may be
\* left out.
Liste ==
  IF store = "memory" THEN {eventi}
  ELSE {S \in SUBSET eventi :
          /\ Cardinality(S) <= LimiteLista
          /\ S # eventi => Cardinality(S) = LimiteLista
          /\ \A e \in S, f \in eventi \ S : e.quando >= f.quando}

\* What a reader gets: nothing tells it that the query has failed, or that its
\* cursor has stopped before the end.
Letture == IF store = "memory" THEN Liste ELSE UNION {SUBSET lista : lista \in Liste}

Finestra(lista) == {e \in lista : e.quando + FinestraAllarme >= ora}

Quanti(lista, tipo) == Cardinality({e \in Finestra(lista) : e.tipo = tipo})

SogliaUsata == IF SogliaAllarme <= 0 THEN 5 ELSE SogliaAllarme

Gravita(falliti, bloccati) ==
  IF bloccati > 0 THEN "critical"
  ELSE IF falliti >= SogliaUsata THEN "warning" ELSE "ok"

\* buildSecurityAlertSnapshot
SnapshotDi(lista) ==
  LET falliti == Quanti(lista, "LOGIN_FAILED")
      bloccati == Quanti(lista, "LOGIN_LOCKED")
  IN  [gravita |-> Gravita(falliti, bloccati), falliti |-> falliti, bloccati |-> bloccati]

-----------------------------------------------------------------------------
(* The stream.                                                             *)

\* Mutant: snapshots are told apart by the failures only.
FirmaSoloFalliti(s) == <<s.falliti>>

\* What makes a snapshot worth sending.
Firma(s) == <<s.gravita, s.falliti, s.bloccati>>

\* What the client shows after a beat that reads this list.
DopoBattito(lista) ==
  LET s == SnapshotDi(lista)
  IN  IF Firma(s) = Firma(mostrato) THEN mostrato ELSE s

Apre ==
  /\ mostrato = Chiuso
  /\ \E lista \in Letture : mostrato' = SnapshotDi(lista)
  /\ UNCHANGED <<vars, eventi, sospesi, persi>>

Battito ==
  /\ mostrato # Chiuso
  /\ \E lista \in Letture : mostrato' = DopoBattito(lista)
  /\ UNCHANGED <<vars, eventi, sospesi, persi>>

Chiude ==
  /\ mostrato # Chiuso
  /\ mostrato' = Chiuso
  /\ UNCHANGED <<vars, eventi, sospesi, persi>>

-----------------------------------------------------------------------------

Scrive(r) == AddMemory(r) \/ AddTimbra(r) \/ AddInserisce(r)

Passa == Tick /\ UNCHANGED <<eventi, sospesi, mostrato, persi>>

NextAllarmi ==
  /\ \/ Passa
     \/ \E r \in Richieste :
          \/ \E e \in Email : LoginArriva(r, e)
          \/ LoginSenzaEmail(r)
          \/ LoginIsLocked(r) \/ LoginFallito(r) \/ LoginNonConta(r) \/ LoginRiuscito(r)
          \/ Scrive(r) \/ AddFallisce(r)
     \/ AltroEvento
     \/ Apre \/ Battito \/ Chiude
  /\ UNCHANGED store

SpecAllarmi == InitAllarmi /\ [][NextAllarmi]_varsAllarmi

-----------------------------------------------------------------------------
(* Properties.                                                             *)

\* Nothing that happened is on its way to the log, or lost, and the window
\* fits in a list.
LogCompleto ==
  /\ sospesi = << >>
  /\ ~persi
  /\ store = "memory" \/ Cardinality(Finestra(eventi)) <= LimiteLista

\* While an account is locked, the next beat that reads a whole list (one whose
\* query does not fail) shows "critical", whatever was sent before: the event
\* of the lock is in the window, if that is as long as the lock, in the list,
\* if the window fits in it, and the snapshot is not taken for the last one
\* that was sent.
BloccoSegnalato ==
  (/\ mostrato # Chiuso
   /\ LogCompleto
   /\ FinestraAllarme >= FinestraLock
   /\ \E e \in Email : Bloccata(e))
  => \A lista \in Liste : DopoBattito(lista).gravita = "critical"

\* When as many wrong passwords as the threshold were compared within the
\* window, on accounts that are locked or not, the next beat that reads a whole
\* list (one whose query does not fail) does not show "ok".
TentativiSegnalati ==
  (/\ mostrato # Chiuso
   /\ LogCompleto
   /\ \E e \in Email :
        Cardinality({v \in verifiche[e] : v.quando + FinestraAllarme >= ora})
          >= SogliaUsata)
  => \A lista \in Liste : DopoBattito(lista).gravita # "ok"

=============================================================================
