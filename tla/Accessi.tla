--------------------------------- MODULE Accessi ---------------------------------
(***************************************************************************)
(* The two limits on a login: the rate limiter of the auth endpoints, per  *)
(* address (simpleRateLimiter), and the lock of an account after repeated  *)
(* failures (loginLockTracker).  Both are maps under a mutex, looked at    *)
(* again at every call; nothing runs in the background.  A login asks the  *)
(* limiter, then the tracker, then compares the password (bcrypt: slow, no *)
(* lock held), then reports the outcome to the tracker: other logins of    *)
(* the same account run in between.                                        *)
(*                                                                         *)
(* Time is a clock of ticks that starts at 1; 0 is Go's zero time.         *)
(***************************************************************************)
EXTENDS Mappe, Naturals, FiniteSets

CONSTANTS Email,
          Indirizzi,     \* addresses of clients
          Richieste,     \* logins in flight at one time
          Limite,        \* AUTH_RATE_LIMIT_RPM
          FinestraRate,  \* its window (one minute)
          MaxTentativi,  \* AUTH_LOCK_MAX_ATTEMPTS
          FinestraLock,  \* AUTH_LOCK_WINDOW_MINUTES
          MaxOra         \* bound on the clock

ASSUME AccessiAssumption ==
  /\ Limite \in Nat \ {0} /\ FinestraRate \in Nat \ {0}
  /\ MaxTentativi \in Nat \ {0} /\ FinestraLock \in Nat \ {0}
  /\ MaxOra \in Nat \ {0}
  /\ IsFiniteSet(Richieste)

VARIABLES ora,
          bucket,      \* address -> [count, resetAt]
          entries,     \* e-mail -> [count, windowStart, lockedUntil]
          volo,        \* login -> what it does next
          ammesse,     \* address -> requests let through (history)
          verifiche    \* e-mail -> wrong passwords compared since the last
                       \* success (history)

vars == <<ora, bucket, entries, volo, ammesse, verifiche>>

Ore == 1..MaxOra

Bucket == [count : 0..Limite, resetAt : Nat]

Entry == [count : Nat, windowStart : Nat, lockedUntil : Nat]

NuovaEntry(t) == [count |-> 0, windowStart |-> t, lockedUntil |-> 0]

InVolo == [passo : {"lock", "password"}, email : Email]

\* What a history holds: the tick of each, and a number that tells it from
\* its equals.
Segno == [quando : Ore, n : Nat \ {0}]

TypeOK ==
  /\ ora \in Ore
  /\ DOMAIN bucket \subseteq Indirizzi
  /\ bucket \in [DOMAIN bucket -> Bucket]
  /\ DOMAIN entries \subseteq Email
  /\ entries \in [DOMAIN entries -> Entry]
  /\ DOMAIN volo \subseteq Richieste
  /\ volo \in [DOMAIN volo -> InVolo]
  /\ ammesse \in [Indirizzi -> SUBSET Segno]
  /\ verifiche \in [Email -> SUBSET Segno]

Init ==
  /\ ora = 1
  /\ bucket = << >>
  /\ entries = << >>
  /\ volo = << >>
  /\ ammesse = [k \in Indirizzi |-> {}]
  /\ verifiche = [e \in Email |-> {}]

Tick ==
  /\ ora < MaxOra
  /\ ora' = ora + 1
  /\ UNCHANGED <<bucket, entries, volo, ammesse, verifiche>>

Libera(r) == r \notin DOMAIN volo

Attende(r, passo) == r \in DOMAIN volo /\ volo[r].passo = passo

Finisci(r) == volo' = Senza(volo, r)

\* The history s with one more, now.
Segnata(s) == s \cup {[quando |-> ora, n |-> Cardinality(s) + 1]}

-----------------------------------------------------------------------------
(* The rate limiter.                                                       *)

\* Mutant: the end of the window is compared the wrong way round.
BucketDiSempreNuovo(k) ==
  IF k \in DOMAIN bucket /\ ora > bucket[k].resetAt
  THEN bucket[k]
  ELSE [count |-> 0, resetAt |-> ora + FinestraRate]

\* The bucket of k, or a new one when its window is over.
BucketDi(k) ==
  IF k \in DOMAIN bucket /\ ora <= bucket[k].resetAt
  THEN bucket[k]
  ELSE [count |-> 0, resetAt |-> ora + FinestraRate]

\* A request of address k that the limiter refuses: it stores the bucket.
Rifiutata(k) ==
  /\ BucketDi(k).count >= Limite
  /\ bucket' = Con(bucket, k, BucketDi(k))
  /\ UNCHANGED <<ora, entries, volo, ammesse, verifiche>>

Ammetti(k) ==
  /\ BucketDi(k).count < Limite
  /\ bucket' = Con(bucket, k, [BucketDi(k) EXCEPT !.count = @ + 1])
  /\ ammesse' = [ammesse EXCEPT ![k] = Segnata(@)]

\* A request to one of the other auth endpoints.
Altra(k) ==
  /\ Ammetti(k)
  /\ UNCHANGED <<ora, entries, volo, verifiche>>

Arriva(r, k, e) ==
  /\ Libera(r)
  /\ Ammetti(k)
  /\ volo' = Con(volo, r, [passo |-> "lock", email |-> e])
  /\ UNCHANGED <<ora, entries, verifiche>>

\* An address in the allow list does not reach the limiter.
ArrivaSenzaLimite(r, e) ==
  /\ Libera(r)
  /\ volo' = Con(volo, r, [passo |-> "lock", email |-> e])
  /\ UNCHANGED <<ora, bucket, entries, ammesse, verifiche>>

-----------------------------------------------------------------------------
(* The lock.                                                               *)

Bloccata(e) == e \in DOMAIN entries /\ ora < entries[e].lockedUntil

\* IsLocked drops the entry of a lock that is over.
IsLocked(r) ==
  /\ Attende(r, "lock")
  /\ LET e == volo[r].email IN
       /\ IF Bloccata(e)
          THEN Finisci(r)
          ELSE volo' = [volo EXCEPT ![r].passo = "password"]
       /\ entries' = IF /\ e \in DOMAIN entries
                        /\ entries[e].lockedUntil # 0
                        /\ ora > entries[e].lockedUntil
                     THEN Senza(entries, e)
                     ELSE entries
  /\ UNCHANGED <<ora, bucket, ammesse, verifiche>>

\* The entry of e, or a new one when its window is over (the lock it may hold
\* is then forgotten too).
EntryDi(e) ==
  IF e \in DOMAIN entries /\ ora - entries[e].windowStart <= FinestraLock
  THEN entries[e]
  ELSE NuovaEntry(ora)

\* Mutant: the lock starts one failure late.
ContaTardi(n) ==
  [n EXCEPT !.count = @ + 1,
            !.lockedUntil = IF n.count >= MaxTentativi THEN ora + FinestraLock ELSE @]

Conta(n) ==
  [n EXCEPT !.count = @ + 1,
            !.lockedUntil = IF n.count + 1 >= MaxTentativi THEN ora + FinestraLock ELSE @]

\* A wrong password: RecordFailure counts it, unless the account was locked
\* while the password was compared.
RecordFailure(r) ==
  /\ Attende(r, "password")
  /\ LET e == volo[r].email
         n == EntryDi(e)
     IN  /\ entries' = IF ora < n.lockedUntil THEN entries
                                               ELSE Con(entries, e, Conta(n))
         /\ verifiche' = [verifiche EXCEPT ![e] = Segnata(@)]
  /\ Finisci(r)
  /\ UNCHANGED <<ora, bucket, ammesse>>

\* The login succeeds.
Clear(r) ==
  /\ Attende(r, "password")
  /\ entries' = Senza(entries, volo[r].email)
  /\ verifiche' = [verifiche EXCEPT ![volo[r].email] = {}]
  /\ Finisci(r)
  /\ UNCHANGED <<ora, bucket, ammesse>>

\* The password is right, but the account is not verified or the code of the
\* second factor is wrong: the tracker is not told.
NonConta(r) ==
  /\ Attende(r, "password")
  /\ Finisci(r)
  /\ UNCHANGED <<ora, bucket, entries, ammesse, verifiche>>

-----------------------------------------------------------------------------

Next ==
  \/ Tick
  \/ \E k \in Indirizzi : Rifiutata(k) \/ Altra(k)
  \/ \E r \in Richieste, e \in Email :
       \/ \E k \in Indirizzi : Arriva(r, k, e)
       \/ ArrivaSenzaLimite(r, e)
  \/ \E r \in Richieste : IsLocked(r) \/ RecordFailure(r) \/ Clear(r) \/ NonConta(r)

Spec == Init /\ [][Next]_vars

-----------------------------------------------------------------------------
(* Properties.                                                             *)

\* How many of the history s are in the window of length n that starts at t.
Quante(s, t, n) == Cardinality({a \in s : t <= a.quando /\ a.quando <= t + n})

\* In no interval as long as the window does an address get more than twice
\* the limit through (the last of one window and the first of the next); once
\* is what AUTH_RATE_LIMIT_RPM names.
RateRispettato ==
  \A k \in Indirizzi, t \in Ore : Quante(ammesse[k], t, FinestraRate) <= 2 * Limite

\* In no interval as long as the window of the lock, however logins overlap,
\* are more wrong passwords of an account compared since its last successful
\* login (which clears the count) than two thresholds, each exceeded by the
\* logins already past the lock when it closes.  This needs no more than
\* MaxTentativi + 1 logins in flight; for more of them the bound is higher.
TentativiLimitati ==
  Cardinality(Richieste) <= MaxTentativi + 1 =>
    \A e \in Email, t \in Ore :
      Quante(verifiche[e], t, FinestraLock)
        <= 2 * (MaxTentativi + Cardinality(Richieste) - 1)

=============================================================================
