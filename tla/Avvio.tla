---------------------------------- MODULE Avvio ----------------------------------
(***************************************************************************)
(* How a process starts, and what of its work is there when it starts      *)
(* again.  main chooses the store: MongoDB, or, outside production, a      *)
(* MemoryStore when no URI is set or when the database cannot be opened.   *)
(* Opening it seeds three back-office accounts (MongoStore.seedBackoffice- *)
(* Users); NewServer then seeds them once more if BACKOFFICE_SEED_ENABLED  *)
(* says so.  Several processes may share the database; each may stop at    *)
(* any step, and what only its memory held is gone.  Two scripts write     *)
(* accounts to the database by hand: create_admin_user, and seed_demo_data *)
(* (whose pratiche are in ScriptSeed).                                     *)
(*                                                                         *)
(* An account is its id, role and password.  Of a password only who set it *)
(* is kept, and of the ids (uuids) only whether an e-mail keeps its own.   *)
(* The rest of what a store holds is represented by the block rules.  The  *)
(* stores know their accounts by e-mail here, and the seeds are written in *)
(* any order.                                                              *)
(***************************************************************************)
EXTENDS Mappe, Naturals, FiniteSets

CONSTANTS Processi,
          Semi,         \* e-mails of the seeded back-office accounts
          Altri,        \* e-mails of other accounts
          Ident,        \* ids of accounts
          Regole,       \* targets of block rules
          Ambienti      \* the environments in which the processes may run

VARIABLES ambiente,   \* the environment, the same for every process
          passo,      \* process -> where it is
          usa,        \* process -> the store it has opened
          daFare,     \* process -> seed accounts still to be written
          db,         \* the database
          mem,        \* process -> its MemoryStore
          confermate  \* block rules added and not removed (history)

vars == <<ambiente, passo, usa, daFare, db, mem, confermate>>

Ambiente == [produzione : BOOLEAN,               \* ENVIRONMENT is "production"
             uri : BOOLEAN,                      \* a MongoDB URI is set
             seme : {"true", "false", "unset"},  \* BACKOFFICE_SEED_ENABLED
             hash : BOOLEAN]                     \* bcrypt hashes the seed password

AvvioAssumption == Ambienti \subseteq Ambiente /\ Semi \cap Altri = {}

Email == Semi \cup Altri

Conto == [id : Ident,
          ruolo : {"BACKOFFICE", "ADMIN", "RICHIEDENTE"},
          password : {"nessuna", "seme", "scelta", "script"}]

Contenuto(c) ==
  /\ DOMAIN c.conti \subseteq Email
  /\ c.conti \in [DOMAIN c.conti -> Conto]
  /\ c.regole \subseteq Regole

Vuoto == [conti |-> << >>, regole |-> {}]

TypeOK ==
  /\ ambiente \in Ambienti
  /\ passo \in [Processi -> {"spento", "apre", "semina", "attivo"}]
  /\ usa \in [Processi -> {"nessuno", "mongo", "memory"}]
  /\ daFare \in [Processi -> SUBSET Semi]
  /\ Contenuto(db)
  /\ DOMAIN mem = Processi /\ \A p \in Processi : Contenuto(mem[p])
  /\ confermate \subseteq Regole
  /\ \A p \in Processi :
       /\ passo[p] = "spento" <=> usa[p] = "nessuno"
       /\ passo[p] \in {"spento", "attivo"} => daFare[p] = {}
       /\ usa[p] # "memory" => mem[p] = Vuoto

Init ==
  /\ ambiente \in Ambienti
  /\ passo = [p \in Processi |-> "spento"]
  /\ usa = [p \in Processi |-> "nessuno"]
  /\ daFare = [p \in Processi |-> {}]
  /\ db = Vuoto
  /\ mem = [p \in Processi |-> Vuoto]
  /\ confermate = {}

Va(p, dove) == passo' = [passo EXCEPT ![p] = dove]

\* What p reads, and writes.
Vista(p) == IF usa[p] = "mongo" THEN db ELSE mem[p]

Scrive(p, c) ==
  IF usa[p] = "mongo"
  THEN db' = c /\ UNCHANGED mem
  ELSE mem' = [mem EXCEPT ![p] = c] /\ UNCHANGED db

-----------------------------------------------------------------------------
(* The store.                                                              *)

\* shouldSeedBackofficeUsers
SemeAbilitato ==
  \/ ambiente.seme = "true"
  \/ ambiente.seme = "unset" /\ ~ambiente.produzione

\* ensureSeedBackofficeUsers goes on to the seeds.
SeminaAncora == SemeAbilitato /\ ambiente.hash

\* NewServer seeds, or not, and the process serves.
ApreServer(p) ==
  /\ Va(p, IF SeminaAncora THEN "semina" ELSE "attivo")
  /\ daFare' = [daFare EXCEPT ![p] = IF SeminaAncora THEN Semi ELSE {}]

\* A new MemoryStore has the three accounts, without a password.
UsaMemory(p) ==
  /\ usa' = [usa EXCEPT ![p] = "memory"]
  /\ \E f \in [Semi -> Ident] :
       mem' = [mem EXCEPT ![p] = [Vuoto EXCEPT !.conti =
                   [e \in Semi |-> [id |-> f[e], ruolo |-> "BACKOFFICE",
                                    password |-> "nessuna"]]]]
  /\ ApreServer(p)
  /\ UNCHANGED db

\* Mutant: the process falls back to the MemoryStore in production too.
RipiegoSempre(p) == UsaMemory(p)

\* The database cannot be opened: in production the process exits.
Ripiego(p) ==
  IF ambiente.produzione
  THEN /\ Va(p, "spento")
       /\ usa' = [usa EXCEPT ![p] = "nessuno"]
       /\ daFare' = [daFare EXCEPT ![p] = {}]
       /\ UNCHANGED <<db, mem>>
  ELSE UsaMemory(p)

AvviaSenzaUri(p) ==
  /\ passo[p] = "spento" /\ ~ambiente.uri /\ ~ambiente.produzione
  /\ UsaMemory(p)
  /\ UNCHANGED <<ambiente, confermate>>

AvviaConnesso(p) ==
  /\ passo[p] = "spento" /\ ambiente.uri
  /\ Va(p, "apre")
  /\ usa' = [usa EXCEPT ![p] = "mongo"]
  /\ daFare' = [daFare EXCEPT ![p] = Semi]
  /\ UNCHANGED <<ambiente, db, mem, confermate>>

AvviaNonConnesso(p) ==
  /\ passo[p] = "spento" /\ ambiente.uri
  /\ Ripiego(p)
  /\ UNCHANGED <<ambiente, confermate>>

-----------------------------------------------------------------------------
(* The seeds.                                                              *)

\* UpdateOne with upsert: the id and the role are $setOnInsert.
Upsert(c, e, id, ruolo, password) ==
  IF e \in DOMAIN c
  THEN [c EXCEPT ![e].password = password]
  ELSE Con(c, e, [id |-> id, ruolo |-> ruolo, password |-> password])

\* The id a seed carries counts only when the account is inserted.
IdPer(c, e) == IF e \in DOMAIN c THEN {c[e].id} ELSE Ident

\* MongoStore.seedBackofficeUsers: one UpdateOne, and when it was the last ...
SeminaMongo(p, e) ==
  /\ passo[p] = "apre" /\ e \in daFare[p] /\ ambiente.hash
  /\ \E id \in IdPer(db.conti, e) :
       db' = [db EXCEPT !.conti = Upsert(@, e, id, "BACKOFFICE", "seme")]
  /\ daFare' = [daFare EXCEPT ![p] = @ \ {e}]
  /\ UNCHANGED <<ambiente, passo, usa, mem, confermate>>

\* Mutant: the store is open while its seeds are still being written.
ApertoSubito(p) ==
  /\ passo[p] = "apre"
  /\ ApreServer(p)
  /\ UNCHANGED <<ambiente, usa, db, mem, confermate>>

\* ... the store is open.
Aperto(p) ==
  /\ passo[p] = "apre" /\ daFare[p] = {}
  /\ ApreServer(p)
  /\ UNCHANGED <<ambiente, usa, db, mem, confermate>>

\* An index, the hash or a seed fails.
SeminaMongoFallisce(p) ==
  /\ passo[p] = "apre"
  /\ Ripiego(p)
  /\ UNCHANGED <<ambiente, confermate>>

Fatto(p, e) ==
  /\ daFare' = [daFare EXCEPT ![p] = @ \ {e}]
  /\ IF daFare[p] = {e} THEN Va(p, "attivo") ELSE UNCHANGED passo

\* ensureSeedBackofficeUsers: GetUserByEmail, then UpdateUserPassword or
\* CreateUser.  Accounts are never removed, so the two calls are one here.
SeminaServer(p, e) ==
  /\ passo[p] = "semina" /\ e \in daFare[p]
  /\ \E id \in IdPer(Vista(p).conti, e) :
       Scrive(p, [Vista(p) EXCEPT !.conti = Upsert(@, e, id, "BACKOFFICE", "seme")])
  /\ Fatto(p, e)
  /\ UNCHANGED <<ambiente, usa, confermate>>

\* One of the calls fails: it is logged.
SeminaServerFallisce(p, e) ==
  /\ usa[p] = "mongo"
  /\ passo[p] = "semina" /\ e \in daFare[p]
  /\ Fatto(p, e)
  /\ UNCHANGED <<ambiente, usa, db, mem, confermate>>

\* A script upserts an account by e-mail: only the id is $setOnInsert.
Script(e, ruolo) ==
  /\ ambiente.uri
  /\ \E id \in IdPer(db.conti, e) :
       db' = [db EXCEPT !.conti =
                [Upsert(@, e, id, ruolo, "script") EXCEPT ![e].ruolo = ruolo]]
  /\ UNCHANGED <<ambiente, passo, usa, daFare, mem, confermate>>

\* scripts/seed_demo_data: an applicant, whatever the account was.
SeminaUtente(e) == e \in Altri /\ Script(e, "RICHIEDENTE")

\* Mutant: the script writes the id of an account it finds.
CreaAdminNuovoId(e) ==
  /\ ambiente.uri
  /\ \E id \in Ident :
       db' = [db EXCEPT !.conti =
                Con(@, e, [id |-> id, ruolo |-> "ADMIN", password |-> "script"])]
  /\ UNCHANGED <<ambiente, passo, usa, daFare, mem, confermate>>

\* scripts/create_admin_user.go
CreaAdmin(e) == Script(e, "ADMIN")

-----------------------------------------------------------------------------
(* What an active process does, and its end.                               *)

\* An applicant registers.
Registra(p, e) ==
  /\ passo[p] = "attivo"
  /\ e \in Altri \ DOMAIN Vista(p).conti
  /\ \E id \in Ident :
       Scrive(p, [Vista(p) EXCEPT !.conti =
         Con(@, e, [id |-> id, ruolo |-> "RICHIEDENTE", password |-> "scelta"])])
  /\ UNCHANGED <<ambiente, passo, usa, daFare, confermate>>

\* A user chooses a password (handleResetPassword).
CambiaPassword(p, e) ==
  /\ passo[p] = "attivo"
  /\ e \in DOMAIN Vista(p).conti
  /\ Scrive(p, [Vista(p) EXCEPT !.conti[e].password = "scelta"])
  /\ UNCHANGED <<ambiente, passo, usa, daFare, confermate>>

BloccaIP(p, x) ==
  /\ passo[p] = "attivo"
  /\ Scrive(p, [Vista(p) EXCEPT !.regole = @ \cup {x}])
  /\ confermate' = confermate \cup {x}
  /\ UNCHANGED <<ambiente, passo, usa, daFare>>

\* A rule the store does not have is answered "not found".
SbloccaIP(p, x) ==
  /\ passo[p] = "attivo"
  /\ x \in Vista(p).regole
  /\ Scrive(p, [Vista(p) EXCEPT !.regole = @ \ {x}])
  /\ confermate' = confermate \ {x}
  /\ UNCHANGED <<ambiente, passo, usa, daFare>>

\* The process stops, or crashes.
Ferma(p) ==
  /\ passo[p] # "spento"
  /\ Va(p, "spento")
  /\ usa' = [usa EXCEPT ![p] = "nessuno"]
  /\ daFare' = [daFare EXCEPT ![p] = {}]
  /\ mem' = [mem EXCEPT ![p] = Vuoto]
  /\ UNCHANGED <<ambiente, db, confermate>>

-----------------------------------------------------------------------------

Next ==
  \/ \E p \in Processi :
       \/ AvviaSenzaUri(p) \/ AvviaConnesso(p) \/ AvviaNonConnesso(p)
       \/ Aperto(p) \/ SeminaMongoFallisce(p) \/ Ferma(p)
       \/ \E e \in Semi :
            SeminaMongo(p, e) \/ SeminaServer(p, e) \/ SeminaServerFallisce(p, e)
       \/ \E e \in Email : CambiaPassword(p, e) \/ Registra(p, e)
       \/ \E x \in Regole : BloccaIP(p, x) \/ SbloccaIP(p, x)
  \/ \E e \in Email : CreaAdmin(e) \/ SeminaUtente(e)

Spec == Init /\ [][Next]_vars

-----------------------------------------------------------------------------
(* Properties.                                                             *)

\* In production, whatever process serves applies the block rules that were
\* added and not removed, through whichever process and before whichever stop.
BlocchiDuranoInProduzione ==
  ambiente.produzione =>
    \A p \in Processi : passo[p] = "attivo" => Vista(p).regole = confermate

\* A process that serves finds every seed account, able to enter the back
\* office, however many starts were cut short before; from its memory it does
\* so only when seeding is enabled and the seed password can be hashed.
SemiPresenti ==
  \A p \in Processi :
    (passo[p] = "attivo" /\ (usa[p] = "mongo" \/ SeminaAncora)) =>
      \A e \in Semi :
        /\ e \in DOMAIN Vista(p).conti
        /\ Vista(p).conti[e].ruolo # "RICHIEDENTE"
        /\ Vista(p).conti[e].password # "nessuna"

\* No start and neither script, alone or at the same time as others, removes an
\* account or gives it another id: pratiche and sessions go on naming it.  Roles
\* are less stable: create_admin_user makes any account an ADMIN, and
\* seed_demo_data makes one that is not a seed an applicant again; a seed never
\* becomes an applicant.
IdentitaStabile ==
  [][\A e \in DOMAIN db.conti :
       /\ e \in DOMAIN db'.conti
       /\ db'.conti[e].id = db.conti[e].id
       /\ db'.conti[e].ruolo \in {db.conti[e].ruolo, "ADMIN"}
            \cup {x \in {"RICHIEDENTE"} : e \in Altri}]_vars

\* A start never replaces the password a user has chosen unless seeding is
\* enabled (README.md:175 "`BACKOFFICE_SEED_ENABLED=true|false` (default:
\* `true` fuori da production)").
SemeSoloSeAbilitato ==
  [][\A e \in DOMAIN db.conti :
       (db.conti[e].password = "scelta" /\ ~SemeAbilitato)
         => db'.conti[e].password # "seme"]_vars

=============================================================================
