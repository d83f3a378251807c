-------------------------------- MODULE PolicyIP --------------------------------
(***************************************************************************)
(* The allow list and the block list of addresses and networks, kept by    *)
(* the back office, and the decision the middleware of the auth endpoints  *)
(* takes on the address of a client.  The decision reads the two lists in  *)
(* two calls; a bulk revocation reads a list and removes its rules one by  *)
(* one.  Reading a list drops its expired rules, unless that deletion      *)
(* fails; and when the query fails, or its cursor stops, the reader gets a *)
(* part of the list, or nothing, and cannot tell.                          *)
(*                                                                         *)
(* A target is what normalizeBlockTarget returns: an address, or a network *)
(* with its prefix; only its prefix length, and the clients it covers, are *)
(* kept.  The two lists have the same operations, here with the list as a  *)
(* parameter.  Both stores do each of them in one call.                    *)
(***************************************************************************)
EXTENDS Mappe, Naturals

CONSTANTS Bersagli,    \* targets
          Esatti,      \* those that are one address
          Prefisso,    \* target -> prefix length (an address has the full one)
          Pieno,       \* the length of an address: 32, or 128
          Clienti,
          Copre,       \* target -> clients it matches
          Richieste,   \* handlers in flight at one time
          MaxIstante   \* bound on the clock

Nessuno == "nessuno"

PolicyAssumption ==
  /\ Nessuno \notin Bersagli
  /\ Esatti \subseteq Bersagli
  /\ Pieno \in Nat /\ MaxIstante \in Nat
  /\ Prefisso \in [Bersagli -> 0..Pieno]
  /\ \A b \in Esatti : Prefisso[b] = Pieno
  /\ Copre \in [Bersagli -> SUBSET Clienti]

VARIABLES regole,    \* list -> target -> AllowedAt or BlockedAt
          scadute,   \* list -> targets whose ExpiresAt has passed
          ora,       \* the clock
          volo       \* handler -> what it has read and does next

vars == <<regole, scadute, ora, volo>>

\* The allow list has handlers of its own, with the same code as the block list.
Liste == {"block", "allow"}

\* A decision between its two lists, or a bulk revocation.
InVolo == [passo    : {"ammessi", "bulk"},
           cliente  : Clienti \cup {Nessuno},
           bloccati : SUBSET Bersagli,             \* block list as read
           blocco   : Bersagli \cup {Nessuno},     \* best match in it
           lista    : Liste,
           resto    : SUBSET Bersagli]             \* rules still to revoke

TypeOK ==
  /\ DOMAIN regole = Liste
  /\ DOMAIN scadute = Liste
  /\ \A l \in Liste :
       /\ DOMAIN regole[l] \subseteq Bersagli
       /\ regole[l] \in [DOMAIN regole[l] -> 0..MaxIstante]
       /\ scadute[l] \subseteq DOMAIN regole[l]
  /\ ora \in 0..MaxIstante
  /\ DOMAIN volo \subseteq Richieste
  /\ volo \in [DOMAIN volo -> InVolo]

Init ==
  /\ regole = [l \in Liste |-> << >>]
  /\ scadute = [l \in Liste |-> {}]
  /\ ora = 0
  /\ volo = << >>

Libera(r) == r \notin DOMAIN volo

Attende(r, passo) == r \in DOMAIN volo /\ volo[r].passo = passo

Segue(r, lavoro) == volo' = Con(volo, r, lavoro)

Finisci(r) == volo' = Senza(volo, r)

-----------------------------------------------------------------------------
(* The lists.                                                              *)

Mutata(l, f) == regole' = [regole EXCEPT ![l] = f]

\* Stores a rule, or renews it.  Time passes between two rules or does not
\* (MongoStore keeps milliseconds).
Upsert(l, b, t) ==
  /\ t \in {ora, ora + 1} /\ t <= MaxIstante
  /\ ora' = t
  /\ Mutata(l, Con(regole[l], b, t))
  /\ scadute' = [scadute EXCEPT ![l] = @ \ {b}]
  /\ UNCHANGED volo

Toglie(l, b) ==
  /\ Mutata(l, Senza(regole[l], b))
  /\ scadute' = [scadute EXCEPT ![l] = @ \ {b}]

Remove(l, b) ==
  /\ b \in DOMAIN regole[l]
  /\ Toglie(l, b)
  /\ UNCHANGED <<ora, volo>>

Scade(l, b) ==
  /\ b \in DOMAIN regole[l] \ scadute[l]
  /\ scadute' = [scadute EXCEPT ![l] = @ \cup {b}]
  /\ UNCHANGED <<regole, ora, volo>>

\* What a list holds ...
Valide(l) == DOMAIN regole[l] \ scadute[l]

\* ... what a read of it may return (over MemoryStore, all of it) ...
Letture(l) == SUBSET Valide(l)

\* ... and what the read leaves stored.
Pulisce(l) ==
  \/ /\ Mutata(l, Restrict(regole[l], Valide(l)))
     /\ scadute' = [scadute EXCEPT ![l] = {}]
  \/ UNCHANGED <<regole, scadute>>

-----------------------------------------------------------------------------
(* The decision.                                                           *)

Toccano(B, c) == {b \in B : c \in Copre[b]}

\* In what was read of a list: the longest prefix; among equal ones the newest
\* rule; if those are equally new, the first the store returned.
Migliori(l, lette, c) ==
  {b \in Toccano(lette, c) :
     \A a \in Toccano(lette, c) :
       \/ Prefisso[a] < Prefisso[b]
       \/ Prefisso[a] = Prefisso[b] /\ regole[l][a] <= regole[l][b]}

\* bestBlockedMatch, bestAllowedMatch.
Scelta(l, lette, c) ==
  IF Toccano(lette, c) = {} THEN {Nessuno} ELSE Migliori(l, lette, c)

\* Mutant: on a tie the allow rule wins.
AzioneParitaAllow(blocco, ammesso) ==
  IF \/ blocco \in Esatti
     \/ /\ blocco # Nessuno
        /\ ammesso \notin Esatti
        /\ ammesso # Nessuno => Prefisso[blocco] > Prefisso[ammesso]
  THEN "block" ELSE "allow"

\* evaluateClientIPPolicy, from the two best matches.
Azione(blocco, ammesso) ==
  IF \/ blocco \in Esatti
     \/ /\ blocco # Nessuno
        /\ ammesso \notin Esatti
        /\ ammesso # Nessuno => Prefisso[blocco] >= Prefisso[ammesso]
  THEN "block" ELSE "allow"

ValutaBlocked(r, c, lette, m) ==
  /\ Libera(r)
  /\ lette \in Letture("block")
  /\ m \in Scelta("block", lette, c)
  /\ Pulisce("block")
  /\ Segue(r, [passo |-> "ammessi", cliente |-> c, bloccati |-> lette,
               blocco |-> m, lista |-> "allow", resto |-> {}])
  /\ UNCHANGED ora

\* With what it reads of the second list the request goes on, or is answered
\* 403, as Azione(volo[r].blocco, m) says of the best match m in it.
ValutaAllowed(r) ==
  /\ Attende(r, "ammessi")
  /\ Pulisce("allow")
  /\ Finisci(r)
  /\ UNCHANGED ora

-----------------------------------------------------------------------------
(* Bulk revocation, with revoke_all or unblock_all.  (Given targets, it is *)
(* a sequence of Remove.)                                                  *)

BulkList(r, l) ==
  /\ Libera(r)
  /\ Pulisce(l)
  /\ \E lette \in Letture(l) :
       Segue(r, [passo |-> "bulk", cliente |-> Nessuno, bloccati |-> {},
                 blocco |-> Nessuno, lista |-> l, resto |-> lette])
  /\ UNCHANGED ora

\* One of the targets listed, found or not.
BulkRemove(r, b) ==
  /\ Attende(r, "bulk")
  /\ b \in volo[r].resto
  /\ Toglie(volo[r].lista, b)
  /\ Segue(r, [volo[r] EXCEPT !.resto = @ \ {b}])
  /\ UNCHANGED ora

BulkFine(r) ==
  /\ Attende(r, "bulk")
  /\ volo[r].resto = {}
  /\ Finisci(r)
  /\ UNCHANGED <<regole, scadute, ora>>

ListIPs(l) ==
  /\ scadute[l] # {}
  /\ Pulisce(l)
  /\ UNCHANGED <<ora, volo>>

-----------------------------------------------------------------------------

Next ==
  \/ \E l \in Liste :
       \/ \E b \in Bersagli : \/ \E t \in 0..MaxIstante : Upsert(l, b, t)
                              \/ Remove(l, b)
                              \/ Scade(l, b)
       \/ ListIPs(l)
       \/ \E r \in Richieste : BulkList(r, l)
  \/ \E r \in Richieste :
       \/ \E c \in Clienti, lette \in SUBSET Bersagli, m \in Bersagli \cup {Nessuno} :
            ValutaBlocked(r, c, lette, m)
       \/ ValutaAllowed(r)
       \/ \E b \in Bersagli : BulkRemove(r, b)
       \/ BulkFine(r)

Spec == Init /\ [][Next]_vars

-----------------------------------------------------------------------------
(* Properties.                                                             *)

PiuLungo(b, B) == \A a \in B : Prefisso[a] <= Prefisso[b]

\* What a decision means for what it reads of the two lists, however they were
\* built: a request about to be decided is blocked when some matching block rule
\* is at least as long as every matching allow rule, and only then; the one
\* exception is an address in the allow list against a network of full length in
\* the block list.
PrecedenzaPrefissi ==
  \A r \in Richieste : Attende(r, "ammessi") =>
    \A lette \in Letture("allow") :
      LET B == Toccano(volo[r].bloccati, volo[r].cliente)
          A == Toccano(lette, volo[r].cliente)
          vince == \E b \in B : PiuLungo(b, A)
      IN  \A m \in Scelta("allow", lette, volo[r].cliente) :
            CASE Azione(volo[r].blocco, m) = "block" -> vince
              [] Azione(volo[r].blocco, m) = "allow" ->
                   \/ ~vince
                   \/ /\ A \cap Esatti # {}
                      /\ \E b \in B \ Esatti : Prefisso[b] = Pieno

\* README.md:110: "block exact > allow exact > CIDR con prefisso piu
\* specifico; in caso di pareggio CIDR vince block".  Said of what is read.
DecisioneDocumentata ==
  \A r \in Richieste : Attende(r, "ammessi") =>
    \A lette \in Letture("allow") :
      LET B == Toccano(volo[r].bloccati, volo[r].cliente)
          A == Toccano(lette, volo[r].cliente)
      IN  \A m \in Scelta("allow", lette, volo[r].cliente) :
            Azione(volo[r].blocco, m) =
              IF B \cap Esatti # {} THEN "block"
              ELSE IF A \cap Esatti # {} THEN "allow"
              ELSE IF \E b \in B : PiuLungo(b, A) THEN "block"
              ELSE "allow"

=============================================================================
