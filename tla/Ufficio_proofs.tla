----------------------------- MODULE Ufficio_proofs -----------------------------
(***************************************************************************)
(* For any number of addresses, accounts and overlapping logins, any       *)
(* limits, windows and thresholds, and over both stores: what the two      *)
(* limits on a login promise, and what the stream of alarms shows of it.   *)
(* Then what else the back office sets and looks at: the decision of the   *)
(* IP lists, the pages of a list, and a walk through them.                 *)
(***************************************************************************)
EXTENDS Ufficio, FiniteSetTheorems, Sequences, TLAPS

-----------------------------------------------------------------------------
(* Counting.                                                               *)

\* A part of a finite set.
LEMMA ParteFinita ==
  ASSUME NEW S, IsFiniteSet(S), NEW T, T \subseteq S
  PROVE  /\ IsFiniteSet(T)
         /\ Cardinality(T) \in Nat
         /\ Cardinality(S) \in Nat
         /\ Cardinality(T) <= Cardinality(S)
BY FS_Subset, FS_CardinalityType

\* One element more, at most.
LEMMA UnoInPiu ==
  ASSUME NEW S, IsFiniteSet(S), NEW x
  PROVE  /\ IsFiniteSet(S \cup {x})
         /\ Cardinality(S) \in Nat
         /\ Cardinality(S \cup {x}) \in Nat
         /\ Cardinality(S \cup {x}) <= Cardinality(S) + 1
         /\ x \notin S => Cardinality(S \cup {x}) = Cardinality(S) + 1
<1>1. /\ IsFiniteSet(S \cup {x})
      /\ Cardinality(S \cup {x}) = IF x \in S THEN Cardinality(S) ELSE Cardinality(S) + 1
  BY FS_AddElement
<1>2. Cardinality(S) \in Nat
  BY FS_CardinalityType
<1> QED BY <1>1, <1>2

\* What is in one of two sets, at most.
LEMMA DueParti ==
  ASSUME NEW S, IsFiniteSet(S), NEW T, IsFiniteSet(T), NEW U, U \subseteq S \cup T
  PROVE  Cardinality(U) <= Cardinality(S) + Cardinality(T)
<1>1. /\ IsFiniteSet(S \cup T)
      /\ Cardinality(S \cup T) = Cardinality(S) + Cardinality(T) - Cardinality(S \cap T)
  BY FS_Union
<1>2. Cardinality(S \cap T) \in Nat
  BY ParteFinita
<1>3. Cardinality(U) \in Nat /\ Cardinality(U) <= Cardinality(S \cup T)
  BY <1>1, ParteFinita
<1>4. Cardinality(S) \in Nat /\ Cardinality(T) \in Nat
  BY FS_CardinalityType
<1> QED BY <1>1, <1>2, <1>3, <1>4

-----------------------------------------------------------------------------
(* The types of the state of the logins.                                   *)

\* A map of values T, with some of the keys K.
Mappa(f, K, T) == DOMAIN f \subseteq K /\ f \in [DOMAIN f -> T]

LEMMA MappaCon ==
  ASSUME NEW f, NEW K, NEW T, Mappa(f, K, T), NEW k \in K, NEW v \in T
  PROVE  Mappa(Con(f, k, v), K, T)
BY DEF Mappa, Con

LEMMA MappaSenza ==
  ASSUME NEW f, NEW K, NEW T, Mappa(f, K, T), NEW k
  PROVE  Mappa(Senza(f, k), K, T)
BY DEF Mappa, Senza, Restrict

\* TypeOK of Accessi, with histories that are finite.
Storie(h, K) ==
  /\ h = [k \in K |-> h[k]]
  /\ \A k \in K : h[k] \subseteq Segno /\ IsFiniteSet(h[k])

TipiAccessi ==
  /\ ora \in Ore
  /\ Mappa(bucket, Indirizzi, Bucket)
  /\ Mappa(entries, Email, Entry)
  /\ Mappa(volo, Richieste, InVolo)
  /\ Storie(ammesse, Indirizzi)
  /\ Storie(verifiche, Email)

LEMMA TipiAccessiTypeOK == TipiAccessi => TypeOK
<1> SUFFICES ASSUME TipiAccessi PROVE TypeOK
  OBVIOUS
<1>1. ammesse \in [Indirizzi -> SUBSET Segno] /\ verifiche \in [Email -> SUBSET Segno]
  BY DEF TipiAccessi, Storie
<1> QED BY <1>1 DEF TipiAccessi, Mappa, TypeOK

LEMMA StorieSegnata ==
  ASSUME NEW K, NEW h, Storie(h, K), NEW k \in K, ora \in Ore,
         NEW g, g = [h EXCEPT ![k] = Segnata(h[k])]
  PROVE  Storie(g, K)
<1>1. /\ g = [x \in K |-> g[x]]
      /\ g[k] = Segnata(h[k])
      /\ \A x \in K : x # k => g[x] = h[x]
  BY DEF Storie
<1>2. Segnata(h[k]) \subseteq Segno /\ IsFiniteSet(Segnata(h[k]))
  <2>1. Cardinality(h[k]) + 1 \in Nat \ {0}
    BY FS_CardinalityType DEF Storie
  <2>2. [quando |-> ora, n |-> Cardinality(h[k]) + 1] \in Segno
    BY <2>1 DEF Segno
  <2> QED BY <2>2, FS_AddElement DEF Storie, Segnata
<1> QED BY <1>1, <1>2 DEF Storie

LEMMA BucketTipo ==
  ASSUME TipiAccessi, NEW k \in Indirizzi
  PROVE  BucketDi(k) \in Bucket
<1>1. ora \in Nat /\ FinestraRate \in Nat /\ Limite \in Nat
  BY AccessiAssumption DEF TipiAccessi, Ore
<1>2. [count |-> 0, resetAt |-> ora + FinestraRate] \in Bucket
  BY <1>1 DEF Bucket
<1> QED BY <1>2 DEF TipiAccessi, Mappa, BucketDi

LEMMA AmmettiTipi ==
  ASSUME TipiAccessi, NEW k \in Indirizzi, Ammetti(k)
  PROVE  Mappa(bucket', Indirizzi, Bucket) /\ Storie(ammesse', Indirizzi)
<1>1. PICK b \in Bucket : b = BucketDi(k)
  BY BucketTipo
<1>2. [b EXCEPT !.count = @ + 1] \in Bucket
  BY <1>1, AccessiAssumption DEF Ammetti, Bucket
<1>3. Mappa(bucket', Indirizzi, Bucket)
  BY <1>1, <1>2, MappaCon DEF Ammetti, TipiAccessi
<1>4. ammesse' = [ammesse EXCEPT ![k] = Segnata(ammesse[k])]
  BY DEF Ammetti
<1> QED BY <1>3, <1>4, StorieSegnata DEF TipiAccessi

LEMMA EntryTipo ==
  ASSUME TipiAccessi, NEW e \in Email
  PROVE  EntryDi(e) \in Entry /\ Conta(EntryDi(e)) \in Entry
<1>1. ora \in Nat /\ FinestraLock \in Nat
  BY AccessiAssumption DEF TipiAccessi, Ore
<1>2. PICK n : n = EntryDi(e)
  OBVIOUS
<1>3. n \in Entry
  BY <1>1, <1>2 DEF TipiAccessi, Mappa, EntryDi, NuovaEntry, Entry
<1>4. Conta(n) \in Entry
  <2>1. n.count + 1 \in Nat /\ n.lockedUntil \in Nat /\ ora + FinestraLock \in Nat
    BY <1>1, <1>3 DEF Entry
  <2>2. PICK l \in Nat :
          l = IF n.count + 1 >= MaxTentativi THEN ora + FinestraLock ELSE n.lockedUntil
    BY <2>1
  <2>3. Conta(n) = [n EXCEPT !.count = n.count + 1, !.lockedUntil = l]
    BY <2>2 DEF Conta
  <2> QED BY <1>3, <2>1, <2>3 DEF Entry
<1> QED BY <1>2, <1>3, <1>4

LEMMA TipiAccessiPasso == TipiAccessi /\ [Next]_vars => TipiAccessi'
<1> SUFFICES ASSUME TipiAccessi, [Next]_vars PROVE TipiAccessi'
  OBVIOUS
<1>1. CASE Tick
  <2>1. ora' \in Ore
    BY <1>1, AccessiAssumption DEF Tick, TipiAccessi, Ore
  <2> QED BY <1>1, <2>1 DEF Tick, TipiAccessi
<1>2. ASSUME NEW k \in Indirizzi, Rifiutata(k)
      PROVE  TipiAccessi'
  <2>1. Mappa(bucket', Indirizzi, Bucket)
    BY <1>2, BucketTipo, MappaCon DEF Rifiutata, TipiAccessi
  <2> QED BY <1>2, <2>1 DEF Rifiutata, TipiAccessi
<1>3. ASSUME NEW k \in Indirizzi, Altra(k)
      PROVE  TipiAccessi'
  BY <1>3, AmmettiTipi DEF Altra, TipiAccessi
<1>4. ASSUME NEW r \in Richieste, NEW e \in Email,
             volo' = Con(volo, r, [passo |-> "lock", email |-> e])
      PROVE  Mappa(volo', Richieste, InVolo)
  <2>1. [passo |-> "lock", email |-> e] \in InVolo
    BY DEF InVolo
  <2> QED BY <1>4, <2>1, MappaCon DEF TipiAccessi
<1>5. ASSUME NEW r \in Richieste, NEW e \in Email, NEW k \in Indirizzi, Arriva(r, k, e)
      PROVE  TipiAccessi'
  BY <1>4, <1>5, AmmettiTipi DEF Arriva, TipiAccessi
<1>6. ASSUME NEW r \in Richieste, NEW e \in Email, ArrivaSenzaLimite(r, e)
      PROVE  TipiAccessi'
  BY <1>4, <1>6 DEF ArrivaSenzaLimite, TipiAccessi
<1>7. ASSUME NEW r \in Richieste, Finisci(r)
      PROVE  Mappa(volo', Richieste, InVolo)
  BY <1>7, MappaSenza DEF Finisci, TipiAccessi
<1>8. ASSUME NEW r \in Richieste, r \in DOMAIN volo
      PROVE  volo[r] \in InVolo /\ volo[r].email \in Email
  BY <1>8 DEF TipiAccessi, Mappa, InVolo
<1>9. ASSUME NEW r \in Richieste, IsLocked(r)
      PROVE  TipiAccessi'
  <2>1. Mappa(entries', Email, Entry)
    BY <1>9, MappaSenza DEF IsLocked, TipiAccessi
  <2>2. Mappa([volo EXCEPT ![r].passo = "password"], Richieste, InVolo)
    BY <1>8, <1>9 DEF IsLocked, Attende, TipiAccessi, Mappa, InVolo
  <2>3. Mappa(volo', Richieste, InVolo)
    BY <1>7, <1>9, <2>2 DEF IsLocked
  <2> QED BY <1>9, <2>1, <2>3 DEF IsLocked, TipiAccessi
<1>10. ASSUME NEW r \in Richieste, RecordFailure(r)
       PROVE  TipiAccessi'
  <2>1. PICK e \in Email : e = volo[r].email
    BY <1>8, <1>10 DEF RecordFailure, Attende
  <2>2. Mappa(entries', Email, Entry)
    BY <1>10, <2>1, EntryTipo, MappaCon DEF RecordFailure, TipiAccessi
  <2>3. verifiche' = [verifiche EXCEPT ![e] = Segnata(verifiche[e])]
    BY <1>10, <2>1 DEF RecordFailure
  <2>4. Storie(verifiche', Email)
    BY <2>3, StorieSegnata DEF TipiAccessi
  <2>5. Mappa(volo', Richieste, InVolo)
    BY <1>7, <1>10 DEF RecordFailure
  <2> QED BY <1>10, <2>2, <2>4, <2>5 DEF RecordFailure, TipiAccessi
<1>11. ASSUME NEW r \in Richieste, Clear(r)
       PROVE  TipiAccessi'
  <2>1. PICK e \in Email : e = volo[r].email
    BY <1>8, <1>11 DEF Clear, Attende
  <2>2. verifiche' = [verifiche EXCEPT ![e] = {}]
    BY <1>11, <2>1 DEF Clear
  <2>3. Storie(verifiche', Email)
    BY <2>2, FS_EmptySet DEF TipiAccessi, Storie
  <2>4. Mappa(volo', Richieste, InVolo)
    BY <1>7, <1>11 DEF Clear
  <2>5. Mappa(entries', Email, Entry)
    BY <1>11, MappaSenza DEF Clear, TipiAccessi
  <2> QED BY <1>11, <2>3, <2>4, <2>5 DEF Clear, TipiAccessi
<1>12. ASSUME NEW r \in Richieste, NonConta(r)
       PROVE  TipiAccessi'
  BY <1>7, <1>12 DEF NonConta, TipiAccessi
<1>13. CASE UNCHANGED vars
  BY <1>13 DEF vars, TipiAccessi
<1> QED BY <1>1, <1>2, <1>3, <1>5, <1>6, <1>9, <1>10, <1>11, <1>12, <1>13 DEF Next

LEMMA TipiAccessiInit == Init => TipiAccessi
<1> SUFFICES ASSUME Init PROVE TipiAccessi
  OBVIOUS
<1>1. ora \in Ore
  BY AccessiAssumption DEF Init, Ore
<1>2. Storie(ammesse, Indirizzi) /\ Storie(verifiche, Email)
  BY FS_EmptySet DEF Init, Storie
<1> QED BY <1>1, <1>2 DEF Init, TipiAccessi, Mappa

\* The variables of the limits keep their types, and the histories are finite.
THEOREM TypeOKAccessi == Spec => []TypeOK
BY TipiAccessiInit, TipiAccessiPasso, TipiAccessiTypeOK, PTL DEF Spec

-----------------------------------------------------------------------------
(* The rate limiter.  The limit alone is not inductive: it needs to know   *)
(* that the bucket counts what its own window let through, and that the    *)
(* window before it let through no more than the limit in the stretch the  *)
(* next requests can share an interval with.                               *)

Dal(s, i) == {a \in s : i <= a.quando}
Fra(s, i, j) == {a \in s : i <= a.quando /\ a.quando < j}

\* The start of the window of bucket b.
Inizio(b) == b.resetAt - FinestraRate

\* Bucket b, at time h, accounts for the history s of its address.
Tiene(b, s, h) ==
  /\ b \in Bucket
  /\ Inizio(b) \in Nat /\ Inizio(b) <= h
  /\ \A a \in s : a.quando <= b.resetAt
  /\ Cardinality(Dal(s, Inizio(b))) <= b.count
  /\ Cardinality(Fra(s, Inizio(b) - FinestraRate, Inizio(b))) <= Limite

Storia(s, h) ==
  /\ IsFiniteSet(s)
  /\ \A a \in s : a.quando \in Nat /\ a.quando <= h

EntroLimite(s) == \A t \in Nat : Quante(s, t, FinestraRate) <= 2 * Limite

\* The whole of it, for the buckets b, the histories m and the clock h.
Limitati(b, m, h) ==
  \A k \in Indirizzi :
    /\ Storia(m[k], h)
    /\ EntroLimite(m[k])
    /\ IF k \in DOMAIN b THEN Tiene(b[k], m[k], h) ELSE m[k] = {}

\* The bucket a request finds accounts for the history, and is not over.
LEMMA BucketTiene ==
  ASSUME ora \in Nat, NEW k \in Indirizzi, Limitati(bucket, ammesse, ora)
  PROVE  /\ Tiene(BucketDi(k), ammesse[k], ora)
         /\ ora <= BucketDi(k).resetAt
<1> DEFINE s == ammesse[k]
           nuovo == [count |-> 0, resetAt |-> ora + FinestraRate]
<1>0. FinestraRate \in Nat \ {0} /\ Limite \in Nat \ {0}
  BY AccessiAssumption
<1>1. Storia(s, ora) /\ IF k \in DOMAIN bucket THEN Tiene(bucket[k], s, ora) ELSE s = {}
  BY DEF Limitati
<1> HIDE DEF s
<1>2. CASE k \in DOMAIN bucket /\ ora <= bucket[k].resetAt
  BY <1>1, <1>2 DEF BucketDi, s
<1>3. CASE ~(k \in DOMAIN bucket /\ ora <= bucket[k].resetAt)
  <2>1. BucketDi(k) = nuovo
    BY <1>3 DEF BucketDi
  <2>2. nuovo \in Bucket /\ Inizio(nuovo) = ora /\ nuovo.resetAt = ora + FinestraRate
    BY <1>0 DEF Bucket, Inizio
  <2>3. nuovo.count = 0
    OBVIOUS
  <2> HIDE DEF nuovo
  <2>4. \A a \in s : a.quando < ora \/ s = {}
    BY <1>0, <1>1, <1>3 DEF Tiene, Bucket, Storia
  <2>5. \A a \in s : a.quando <= nuovo.resetAt
    BY <1>0, <1>1, <2>2 DEF Storia
  <2>6. Dal(s, ora) = {}
    BY <1>1, <2>4 DEF Dal, Storia
  <2>7. Cardinality(Fra(s, ora - FinestraRate, ora)) <= Limite
    <3>1. CASE k \in DOMAIN bucket
      <4>1. PICK b : b = bucket[k]
        OBVIOUS
      <4>2. Tiene(b, s, ora) /\ b.resetAt < ora /\ b.count <= Limite /\ b.count \in Nat
        BY <1>0, <1>1, <1>3, <3>1, <4>1 DEF Tiene, Bucket
      <4>3. Fra(s, ora - FinestraRate, ora) \subseteq Dal(s, Inizio(b))
        BY <1>0, <1>1, <4>2 DEF Fra, Dal, Inizio, Tiene, Bucket, Storia
      <4>4. IsFiniteSet(Dal(s, Inizio(b)))
        BY <1>1, ParteFinita DEF Dal, Storia
      <4>5. /\ Cardinality(Fra(s, ora - FinestraRate, ora)) \in Nat
            /\ Cardinality(Dal(s, Inizio(b))) \in Nat
            /\ Cardinality(Fra(s, ora - FinestraRate, ora)) <= Cardinality(Dal(s, Inizio(b)))
        BY <4>3, <4>4, ParteFinita
      <4> QED BY <1>0, <4>2, <4>5 DEF Tiene
    <3>2. CASE k \notin DOMAIN bucket
      <4>1. Fra(s, ora - FinestraRate, ora) = {}
        BY <1>1, <3>2 DEF Fra
      <4> QED BY <1>0, <4>1, FS_EmptySet
    <3> QED BY <3>1, <3>2
  <2>8. Cardinality(Dal(s, ora)) <= nuovo.count
    BY <2>3, <2>6, FS_EmptySet
  <2>9. Tiene(nuovo, s, ora)
    BY <2>2, <2>5, <2>7, <2>8 DEF Tiene
  <2> QED BY <1>0, <2>1, <2>2, <2>9 DEF s
<1> QED BY <1>2, <1>3

\* One request more, in a bucket with room.
LEMMA TieneUnaInPiu ==
  ASSUME NEW h \in Nat, NEW b, NEW s, Tiene(b, s, h), Storia(s, h), EntroLimite(s),
         h <= b.resetAt, b.count < Limite, NEW x, x.quando = h
  PROVE  /\ Tiene([b EXCEPT !.count = @ + 1], s \cup {x}, h)
         /\ Storia(s \cup {x}, h)
         /\ EntroLimite(s \cup {x})
<1> DEFINE c == [b EXCEPT !.count = @ + 1]
           z == s \cup {x}
<1>0. /\ FinestraRate \in Nat \ {0} /\ Limite \in Nat \ {0}
      /\ b.count \in Nat /\ b.resetAt \in Nat
  BY AccessiAssumption DEF Tiene, Bucket
<1>1. /\ c \in Bucket /\ c.count = b.count + 1 /\ c.resetAt = b.resetAt
      /\ Inizio(c) = Inizio(b)
  BY <1>0 DEF Tiene, Bucket, Inizio
<1> HIDE DEF c
<1>2. PICK i \in Nat : i = Inizio(b) /\ i <= h /\ h <= i + FinestraRate
  BY <1>0 DEF Tiene, Inizio
<1>3. Storia(z, h)
  BY UnoInPiu DEF Storia
<1>4. /\ IsFiniteSet(Dal(s, i)) /\ IsFiniteSet(Fra(s, i - FinestraRate, i))
      /\ Cardinality(Fra(s, i - FinestraRate, i)) \in Nat
      /\ Cardinality(Fra(s, i - FinestraRate, i)) <= Limite
  BY <1>2, ParteFinita DEF Dal, Fra, Storia, Tiene
<1>5. Dal(z, i) = Dal(s, i) \cup {x}
  BY <1>2 DEF Dal
<1>6. /\ IsFiniteSet(Dal(z, i)) /\ Cardinality(Dal(z, i)) \in Nat
      /\ Cardinality(Dal(z, i)) <= b.count + 1
  <2>1. /\ Cardinality(Dal(s, i)) \in Nat /\ Cardinality(Dal(s, i)) <= b.count
        /\ Cardinality(Dal(s, i) \cup {x}) \in Nat
        /\ Cardinality(Dal(s, i) \cup {x}) <= Cardinality(Dal(s, i)) + 1
        /\ IsFiniteSet(Dal(s, i) \cup {x})
    BY <1>2, <1>4, UnoInPiu DEF Tiene
  <2>2. Cardinality(Dal(s, i) \cup {x}) <= b.count + 1
    BY <2>1, <1>0
  <2> QED BY <2>1, <2>2, <1>5, Zenon
<1>7. Fra(z, i - FinestraRate, i) = Fra(s, i - FinestraRate, i)
  BY <1>2 DEF Fra
<1>8. Tiene(c, z, h)
  <2>1. \A a \in z : a.quando <= c.resetAt
    BY <1>1 DEF Tiene
  <2> QED BY <1>1, <1>2, <1>4, <1>6, <1>7, <2>1 DEF Tiene
<1>9. ASSUME NEW t \in Nat
      PROVE  Quante(z, t, FinestraRate) <= 2 * Limite
  <2> DEFINE U == {a \in z : t <= a.quando /\ a.quando <= t + FinestraRate}
  <2>1. CASE t <= h /\ h <= t + FinestraRate
    <3>1. U \subseteq Dal(z, i) \cup Fra(z, i - FinestraRate, i)
      BY <1>0, <1>2, <1>3, <2>1 DEF Dal, Fra, Storia
    <3>2. Cardinality(U) <= Cardinality(Dal(z, i)) + Cardinality(Fra(z, i - FinestraRate, i))
      BY <1>4, <1>6, <1>7, <3>1, DueParti
    <3>3. Cardinality(U) \in Nat
      BY <1>3, ParteFinita DEF Storia
    <3> HIDE DEF U
    <3>4. Cardinality(U) <= 2 * Limite
      BY <1>0, <1>4, <1>6, <1>7, <3>2, <3>3
    <3> QED BY <3>4 DEF Quante, U
  <2>2. CASE ~(t <= h /\ h <= t + FinestraRate)
    <3>1. U = {a \in s : t <= a.quando /\ a.quando <= t + FinestraRate}
      BY <2>2
    <3> QED BY <3>1 DEF EntroLimite, Quante
  <2> QED BY <2>1, <2>2
<1> QED BY <1>3, <1>8, <1>9 DEF EntroLimite, c

Tempo == ora \in Nat \ {0}

InvRate == Tempo /\ Limitati(bucket, ammesse, ora) /\ ammesse = [k \in Indirizzi |-> ammesse[k]]

\* A request that stores the bucket it found.
LEMMA RifiutataLimitati ==
  ASSUME InvRate, NEW k \in Indirizzi, Rifiutata(k)
  PROVE  InvRate'
<1>1. PICK b : b = BucketDi(k)
  OBVIOUS
<1>2. Tiene(b, ammesse[k], ora)
  BY <1>1, BucketTiene DEF InvRate, Tempo
<1>3. bucket' = Con(bucket, k, b) /\ UNCHANGED <<ora, ammesse>>
  BY <1>1 DEF Rifiutata
<1>4. /\ DOMAIN bucket' = DOMAIN bucket \cup {k} /\ bucket'[k] = b
      /\ \A x \in DOMAIN bucket : x # k => bucket'[x] = bucket[x]
  BY <1>3 DEF Con
<1>5. Limitati(bucket', ammesse, ora)
  BY <1>2, <1>4 DEF InvRate, Limitati
<1> QED BY <1>3, <1>5 DEF InvRate, Tempo

LEMMA AmmettiLimitati ==
  ASSUME InvRate, NEW k \in Indirizzi, Ammetti(k), UNCHANGED ora
  PROVE  InvRate'
<1>1. PICK b, x : b = BucketDi(k) /\ x = [quando |-> ora, n |-> Cardinality(ammesse[k]) + 1]
  OBVIOUS
<1>2. Tiene(b, ammesse[k], ora) /\ ora <= b.resetAt /\ b.count < Limite
  BY <1>1, BucketTiene DEF InvRate, Tempo, Ammetti
<1>3. PICK c : c = [b EXCEPT !.count = @ + 1]
  OBVIOUS
<1>4. /\ bucket' = Con(bucket, k, c)
      /\ ammesse' = [ammesse EXCEPT ![k] = ammesse[k] \cup {x}]
  BY <1>1, <1>3 DEF Ammetti, Segnata, InvRate
<1>5. x.quando = ora
  BY <1>1
<1>6. /\ Tiene(c, ammesse[k] \cup {x}, ora)
      /\ Storia(ammesse[k] \cup {x}, ora)
      /\ EntroLimite(ammesse[k] \cup {x})
  BY <1>2, <1>3, <1>5, TieneUnaInPiu DEF InvRate, Limitati, Tempo
<1>7. /\ DOMAIN bucket' = DOMAIN bucket \cup {k} /\ bucket'[k] = c
      /\ \A y \in DOMAIN bucket : y # k => bucket'[y] = bucket[y]
  BY <1>4 DEF Con
<1>8. /\ ammesse' = [y \in Indirizzi |-> ammesse'[y]]
      /\ ammesse'[k] = ammesse[k] \cup {x}
      /\ \A y \in Indirizzi : y # k => ammesse'[y] = ammesse[y]
  BY <1>4 DEF InvRate
<1>9. Limitati(bucket', ammesse', ora)
  BY <1>6, <1>7, <1>8 DEF InvRate, Limitati
<1> QED BY <1>8, <1>9 DEF InvRate, Tempo

\* Time passes.
LEMMA TickLimitati ==
  ASSUME InvRate, Tick
  PROVE  InvRate'
<1>1. ora \in Nat /\ ora' = ora + 1 /\ UNCHANGED <<bucket, ammesse>>
  BY DEF InvRate, Tempo, Tick
<1>2. ASSUME NEW k \in Indirizzi
      PROVE  Storia(ammesse[k], ora')
  BY <1>1 DEF InvRate, Limitati, Storia
<1>3. ASSUME NEW k \in Indirizzi, k \in DOMAIN bucket
      PROVE  Tiene(bucket[k], ammesse[k], ora')
  BY <1>1, <1>3 DEF InvRate, Limitati, Tiene
<1>4. Limitati(bucket, ammesse, ora')
  BY <1>2, <1>3 DEF InvRate, Limitati
<1> QED BY <1>1, <1>4 DEF InvRate, Tempo

LEMMA RateIniziale == Init => InvRate
<1> SUFFICES ASSUME Init PROVE InvRate
  OBVIOUS
<1>1. IsFiniteSet({}) /\ Cardinality({}) = 0
  BY FS_EmptySet
<1>2. Limite \in Nat
  BY AccessiAssumption
<1>3. \A t \in Nat : Quante({}, t, FinestraRate) = 0
  BY <1>1 DEF Quante
<1>4. Storia({}, ora) /\ EntroLimite({})
  BY <1>1, <1>2, <1>3 DEF Storia, EntroLimite
<1>5. DOMAIN bucket = {} /\ \A k \in Indirizzi : ammesse[k] = {}
  BY DEF Init
<1> QED BY <1>4, <1>5 DEF Init, InvRate, Tempo, Limitati

LEMMA RatePasso == InvRate /\ [Next]_vars => InvRate'
<1> SUFFICES ASSUME InvRate, [Next]_vars PROVE InvRate'
  OBVIOUS
<1>1. CASE Tick
  BY <1>1, TickLimitati
<1>2. ASSUME NEW k \in Indirizzi, Rifiutata(k) PROVE InvRate'
  BY <1>2, RifiutataLimitati
<1>3. ASSUME NEW k \in Indirizzi, Altra(k) PROVE InvRate'
  BY <1>3, AmmettiLimitati DEF Altra
<1>4. ASSUME NEW r \in Richieste, NEW e \in Email, NEW k \in Indirizzi, Arriva(r, k, e)
      PROVE  InvRate'
  BY <1>4, AmmettiLimitati DEF Arriva
<1>5. CASE UNCHANGED <<ora, bucket, ammesse>>
  BY <1>5 DEF InvRate, Tempo
<1>6. ASSUME NEW r \in Richieste, NEW e \in Email, ArrivaSenzaLimite(r, e)
      PROVE  UNCHANGED <<ora, bucket, ammesse>>
  BY <1>6 DEF ArrivaSenzaLimite
<1>7. ASSUME NEW r \in Richieste,
             IsLocked(r) \/ RecordFailure(r) \/ Clear(r) \/ NonConta(r)
      PROVE  UNCHANGED <<ora, bucket, ammesse>>
  BY <1>7 DEF IsLocked, RecordFailure, Clear, NonConta
<1> QED BY <1>1, <1>2, <1>3, <1>4, <1>5, <1>6, <1>7 DEF Next, vars

\* In no interval as long as the window does an address get more than twice
\* the limit through, for any limit, any window and any number of addresses:
\* an interval meets at most two windows.
THEOREM RateRispettatoAccessi == Spec => []RateRispettato
<1>1. InvRate => RateRispettato
  BY DEF InvRate, Limitati, EntroLimite, RateRispettato, Ore
<1> QED BY <1>1, RateIniziale, RatePasso, PTL DEF Spec

-----------------------------------------------------------------------------
(* The lock.  The wrong passwords of an account fall into windows of the   *)
(* tracker, which are more than FinestraLock apart.  In one window they    *)
(* are a threshold, plus the logins that were past the lock when it closed *)
(* - plus, when the lock was set on the first tick of its window, those    *)
(* of a second lock on the last.                                           *)

R == Cardinality(Richieste)

\* A threshold, exceeded by the logins already past the lock.
Soglia == MaxTentativi + R - 1

\* The logins of e past the lock: they have still to tell their outcome.
Passati(v, e) == {r \in DOMAIN v : v[r].passo = "password" /\ v[r].email = e}

\* While the lock is closed they only become fewer.
Attesi(P, l, h) == IF h < l THEN Cardinality(P) ELSE 0

\* No entry: what the next window can share an interval with.
Pulita(s, h) ==
  /\ \A a \in s : a.quando < h
  /\ Cardinality(Dal(s, h - FinestraLock)) <= Soglia

\* Entry x, not locked: every failure of its window is counted.
Aperta(x, s) ==
  /\ x.lockedUntil = 0
  /\ x.count < MaxTentativi
  /\ Cardinality(Dal(s, x.windowStart)) <= x.count

\* Locked once in its window.
ChiusaUnaVolta(x, s, P, h) ==
  LET w == x.windowStart
      l == x.lockedUntil
  IN  /\ w + FinestraLock <= l
      /\ x.count >= MaxTentativi
      /\ \A a \in s : a.quando < l
      /\ Cardinality(Dal(s, w)) + Attesi(P, l, h) <= Soglia
      /\ l = w + FinestraLock => Cardinality(Dal(s, w + 1)) + Attesi(P, l, h) <= R - 1

\* Locked on the first tick of its window, and again on the last.
ChiusaDueVolte(x, s, P, h) ==
  LET w == x.windowStart
      l == x.lockedUntil
  IN  /\ l = w + 2 * FinestraLock
      /\ w + FinestraLock <= h
      /\ Cardinality(Dal(s, w)) + Attesi(P, l, h) <= Soglia + R
      /\ Cardinality(Dal(s, w + 1)) + Attesi(P, l, h) <= 2 * R - 1
      /\ Cardinality(Dal(s, w + FinestraLock)) + Attesi(P, l, h) <= R

Contata(x, s, P, h) ==
  /\ x \in Entry
  /\ x.windowStart <= h
  /\ \A a \in s : a.quando <= x.windowStart + FinestraLock
  /\ Cardinality(Fra(s, x.windowStart - FinestraLock, x.windowStart)) <= Soglia
  /\ Aperta(x, s) \/ ChiusaUnaVolta(x, s, P, h) \/ ChiusaDueVolte(x, s, P, h)

EntroSoglie(s) == \A t \in Nat : Quante(s, t, FinestraLock) <= 2 * Soglia

\* The account e, with the entries m, the history s and the logins P past its
\* lock, at time h.
Conto(e, m, s, P, h) ==
  /\ Storia(s, h)
  /\ EntroSoglie(s)
  /\ IF e \in DOMAIN m THEN Contata(m[e], s, P, h) ELSE Pulita(s, h)

\* The constants, with as many logins in flight as the property allows.
Numeri ==
  /\ MaxTentativi \in Nat \ {0} /\ FinestraLock \in Nat \ {0}
  /\ R \in Nat /\ R <= MaxTentativi + 1

\* One more now, seen from i.
LEMMA DalUnaInPiu ==
  ASSUME NEW h \in Nat, NEW s, Storia(s, h), NEW y, y.quando = h, NEW i \in Int
  PROVE  /\ Cardinality(Dal(s, i)) \in Nat
         /\ Cardinality(Dal(s \cup {y}, i)) \in Nat
         /\ Cardinality(Dal(s \cup {y}, i)) <= Cardinality(Dal(s, i)) + 1
<1>1. IsFiniteSet(Dal(s, i))
  BY ParteFinita DEF Storia, Dal
<1>2. Dal(s \cup {y}, i) \subseteq Dal(s, i) \cup {y}
  BY DEF Dal
<1>3. /\ IsFiniteSet(Dal(s, i) \cup {y}) /\ Cardinality(Dal(s, i)) \in Nat
      /\ Cardinality(Dal(s, i) \cup {y}) \in Nat
      /\ Cardinality(Dal(s, i) \cup {y}) <= Cardinality(Dal(s, i)) + 1
  BY <1>1, UnoInPiu
<1>4. /\ Cardinality(Dal(s \cup {y}, i)) \in Nat
      /\ Cardinality(Dal(s \cup {y}, i)) <= Cardinality(Dal(s, i) \cup {y})
  BY <1>2, <1>3, ParteFinita
<1> QED BY <1>3, <1>4

\* What is seen from later is less.
LEMMA DalMeno ==
  ASSUME NEW h, NEW s, Storia(s, h), NEW i \in Int, NEW j \in Int, i <= j, NEW k
  PROVE  /\ Cardinality(Dal(s, i)) \in Nat
         /\ Cardinality(Dal(s, j)) \in Nat
         /\ Cardinality(Dal(s, j)) <= Cardinality(Dal(s, i))
         /\ Cardinality(Fra(s, j, k)) \in Nat
         /\ Cardinality(Fra(s, j, k)) <= Cardinality(Dal(s, i))
<1>1. IsFiniteSet(Dal(s, i))
  BY ParteFinita DEF Storia, Dal
<1>2. Dal(s, j) \subseteq Dal(s, i) /\ Fra(s, j, k) \subseteq Dal(s, i)
  BY DEF Dal, Fra, Storia
<1> QED BY <1>1, <1>2, ParteFinita

\* One login the less past the lock.
LEMMA UnoInMeno ==
  ASSUME NEW P, P \subseteq Richieste, NEW r \in P
  PROVE  /\ Cardinality(P) \in Nat /\ Cardinality(P) <= R /\ R \in Nat
         /\ Cardinality(P \ {r}) = Cardinality(P) - 1
         /\ Cardinality(P \ {r}) \in Nat
<1>1. IsFiniteSet(Richieste)
  BY AccessiAssumption
<1>2. IsFiniteSet(P) /\ Cardinality(P) \in Nat /\ Cardinality(P) <= R /\ R \in Nat
  BY <1>1, ParteFinita DEF R
<1>3. Cardinality(P \ {r}) = Cardinality(P) - 1
  BY <1>2, FS_RemoveElement
<1>4. Cardinality(P \ {r}) \in Nat
  BY <1>2, ParteFinita
<1> QED BY <1>2, <1>3, <1>4

\* An interval meets the window of x and at most the one before.
LEMMA SoglieTengono ==
  ASSUME Numeri, NEW h \in Nat, NEW s, Storia(s, h), EntroSoglie(s), NEW y, y.quando = h,
         Storia(s \cup {y}, h), NEW x, NEW P, P \subseteq Richieste,
         Contata(x, s \cup {y}, P, h)
  PROVE  EntroSoglie(s \cup {y})
<1> DEFINE z == s \cup {y}
<1>1. PICK w \in Nat : w = x.windowStart /\ w <= h
  BY DEF Contata, Entry
<1>2. Cardinality(P) \in Nat
  BY ParteFinita, AccessiAssumption
<1>3. \A l : Attesi(P, l, h) \in Nat
  BY <1>2 DEF Attesi
<1>4. /\ IsFiniteSet(Dal(z, w)) /\ IsFiniteSet(Fra(z, w - FinestraLock, w))
      /\ Cardinality(Dal(z, w)) \in Nat
      /\ Cardinality(Fra(z, w - FinestraLock, w)) \in Nat
  BY ParteFinita DEF Storia, Dal, Fra
<1>5. Cardinality(Fra(z, w - FinestraLock, w)) <= Soglia
  BY <1>1 DEF Contata
<1>6. /\ Cardinality(Dal(z, w)) <= 2 * Soglia
      /\ Cardinality(Dal(z, w)) <= Soglia \/ w + FinestraLock <= h
  <2>1. CASE Aperta(x, z)
    BY <1>1, <1>4, <2>1 DEF Aperta, Numeri, Soglia, Contata, Entry
  <2>2. CASE ChiusaUnaVolta(x, z, P, h)
    BY <1>1, <1>3, <1>4, <2>2 DEF ChiusaUnaVolta, Numeri, Soglia
  <2>3. CASE ChiusaDueVolte(x, z, P, h)
    BY <1>1, <1>3, <1>4, <2>3 DEF ChiusaDueVolte, Numeri, Soglia
  <2> QED BY <2>1, <2>2, <2>3 DEF Contata
<1> HIDE DEF z
<1>7. ASSUME NEW t \in Nat
      PROVE  Quante(z, t, FinestraLock) <= 2 * Soglia
  <2> DEFINE U == {a \in z : t <= a.quando /\ a.quando <= t + FinestraLock}
  <2>0. IsFiniteSet(U) /\ Cardinality(U) \in Nat /\ Quante(z, t, FinestraLock) = Cardinality(U)
    BY ParteFinita DEF Storia, Quante, z
  <2>1. CASE ~(t <= h /\ h <= t + FinestraLock)
    <3>1. U = {a \in s : t <= a.quando /\ a.quando <= t + FinestraLock}
      BY <2>1 DEF z
    <3> QED BY <3>1, <2>0 DEF EntroSoglie, Quante
  <2>2. CASE t <= h /\ h <= t + FinestraLock /\ w <= t
    <3>1. U \subseteq Dal(z, w)
      BY <1>1, <2>2 DEF Dal, Storia, z
    <3>2. Cardinality(U) <= Cardinality(Dal(z, w))
      BY <1>4, <3>1, ParteFinita
    <3> HIDE DEF U
    <3> QED BY <1>4, <1>6, <2>0, <3>2 DEF Numeri, Soglia
  <2>3. CASE t <= h /\ h <= t + FinestraLock /\ t < w
    <3>1. U \subseteq Dal(z, w) \cup Fra(z, w - FinestraLock, w)
      BY <1>1, <2>3 DEF Dal, Fra, Storia, Numeri, z
    <3>2. Cardinality(U) <= Cardinality(Dal(z, w)) + Cardinality(Fra(z, w - FinestraLock, w))
      BY <1>4, <3>1, DueParti
    <3>3. Cardinality(Dal(z, w)) <= Soglia
      BY <1>1, <1>6, <2>3 DEF Numeri
    <3> HIDE DEF U
    <3> QED BY <1>4, <1>5, <2>0, <3>2, <3>3 DEF Numeri, Soglia
  <2> QED BY <1>1, <2>1, <2>2, <2>3
<1> QED BY <1>7 DEF EntroSoglie, z

\* What RecordFailure makes of an entry.
LEMMA ContaCampi ==
  ASSUME ora \in Nat, FinestraLock \in Nat, NEW n \in Entry
  PROVE  /\ Conta(n) \in Entry
         /\ Conta(n).count = n.count + 1
         /\ Conta(n).windowStart = n.windowStart
         /\ Conta(n).lockedUntil =
              IF n.count + 1 >= MaxTentativi THEN ora + FinestraLock ELSE n.lockedUntil
<1> DEFINE l == IF n.count + 1 >= MaxTentativi THEN ora + FinestraLock ELSE n.lockedUntil
<1>1. l \in Nat
  BY DEF Entry
<1>2. Conta(n) = [n EXCEPT !.count = n.count + 1, !.lockedUntil = l]
  BY DEF Conta, Entry
<1>3. PICK m : m = [n EXCEPT !.count = n.count + 1]
  OBVIOUS
<1>4. /\ m \in Entry /\ m.count = n.count + 1 /\ m.windowStart = n.windowStart
  BY <1>3 DEF Entry
<1>5. Conta(n) = [m EXCEPT !.lockedUntil = l]
  BY <1>2, <1>3 DEF Entry
<1> HIDE DEF l
<1>6. /\ Conta(n) \in Entry /\ Conta(n).count = m.count
      /\ Conta(n).windowStart = m.windowStart /\ Conta(n).lockedUntil = l
  BY <1>1, <1>4, <1>5 DEF Entry
<1> QED BY <1>4, <1>6 DEF l

\* A wrong password that opens a window.
LEMMA NuovaContata ==
  ASSUME Numeri, ora \in Nat, NEW s, Storia(s, ora), Pulita(s, ora), NEW y, y.quando = ora,
         NEW P, P \subseteq Richieste, NEW r \in P
  PROVE  Contata(Conta(NuovaEntry(ora)), s \cup {y}, P \ {r}, ora)
<1> DEFINE z == s \cup {y}
           x == Conta(NuovaEntry(ora))
<1>1. /\ x.count = 1 /\ x.windowStart = ora
      /\ x.lockedUntil = IF 1 >= MaxTentativi THEN ora + FinestraLock ELSE 0
      /\ x \in Entry
  <2>1. PICK n : n = NuovaEntry(ora)
    OBVIOUS
  <2>2. n \in Entry /\ n.count = 0 /\ n.windowStart = ora /\ n.lockedUntil = 0
    BY <2>1 DEF NuovaEntry, Entry
  <2> QED BY <2>1, <2>2, ContaCampi DEF Numeri
<1> HIDE DEF x
<1>2. /\ \A a \in z : a.quando \in Nat /\ a.quando <= ora
      /\ \A a \in s : a.quando \in Nat /\ a.quando < ora
  BY DEF Storia, Pulita
<1>3. Cardinality(Fra(z, ora - FinestraLock, ora)) <= Soglia
  <2>1. Fra(z, ora - FinestraLock, ora) = Fra(s, ora - FinestraLock, ora)
    BY DEF Fra
  <2>2. /\ Cardinality(Fra(s, ora - FinestraLock, ora)) \in Nat
        /\ Cardinality(Dal(s, ora - FinestraLock)) \in Nat
        /\ Cardinality(Fra(s, ora - FinestraLock, ora))
             <= Cardinality(Dal(s, ora - FinestraLock))
    BY DalMeno DEF Numeri
  <2>3. Soglia \in Int
    BY DEF Soglia, Numeri
  <2>4. Cardinality(Fra(s, ora - FinestraLock, ora)) <= Soglia
    BY <2>2, <2>3 DEF Pulita
  <2> QED BY <2>1, <2>4
<1>4. Cardinality(Dal(z, ora)) \in Nat /\ Cardinality(Dal(z, ora)) <= 1
  <2>1. Dal(s, ora) = {}
    BY <1>2 DEF Dal
  <2>2. Cardinality(Dal(s, ora)) = 0
    BY <2>1, FS_EmptySet
  <2> QED BY <2>2, DalUnaInPiu
<1>5. Cardinality(Dal(z, ora + 1)) = 0
  <2>1. Dal(z, ora + 1) = {}
    BY <1>2 DEF Dal
  <2> QED BY <2>1, FS_EmptySet
<1>6. \A a \in z : a.quando <= ora + FinestraLock /\ a.quando < ora + FinestraLock
  BY <1>2 DEF Numeri
<1> HIDE DEF z
<1>7. CASE MaxTentativi > 1
  <2>1. Aperta(x, z)
    BY <1>1, <1>4, <1>7 DEF Aperta, Numeri
  <2> QED BY <1>1, <1>3, <1>6, <2>1 DEF Contata, z, x
<1>8. CASE MaxTentativi = 1
  <2>1. /\ Cardinality(P \ {r}) \in Nat /\ Cardinality(P \ {r}) <= R - 1 /\ R \in Nat
    BY UnoInMeno
  <2>2. Attesi(P \ {r}, x.lockedUntil, ora) = Cardinality(P \ {r})
    BY <1>1, <1>8 DEF Attesi, Numeri
  <2>3. ChiusaUnaVolta(x, z, P \ {r}, ora)
    BY <1>1, <1>4, <1>5, <1>6, <1>8, <2>1, <2>2 DEF ChiusaUnaVolta, Soglia, Numeri
  <2> QED BY <1>1, <1>3, <1>6, <2>3 DEF Contata, z, x
<1> QED BY <1>7, <1>8 DEF Numeri

\* When a window is over, and a login that had passed the lock still has to
\* tell its outcome, the window held no more than a threshold as seen from the
\* next one.
LEMMA FinestraFinita ==
  ASSUME Numeri, ora \in Nat, NEW s, Storia(s, ora), NEW P, P \subseteq Richieste,
         NEW r \in P, NEW x, Contata(x, s, P, ora), ora > x.windowStart + FinestraLock
  PROVE  Pulita(s, ora)
<1>1. PICK w, l : w = x.windowStart /\ l = x.lockedUntil
  OBVIOUS
<1>2. w \in Nat /\ l \in Nat /\ ora > w + FinestraLock /\ FinestraLock \in Nat \ {0}
  BY <1>1 DEF Contata, Entry, Numeri
<1>3. \A a \in s : a.quando < ora
  BY <1>1, <1>2 DEF Contata, Storia
<1>4. Cardinality(P) \in Nat /\ Cardinality(P) >= 1 /\ R \in Nat
  <2>1. /\ Cardinality(P) \in Nat /\ R \in Nat
        /\ Cardinality(P \ {r}) = Cardinality(P) - 1 /\ Cardinality(P \ {r}) \in Nat
    BY UnoInMeno
  <2> QED BY <2>1
<1>5. /\ Cardinality(Dal(s, w)) \in Nat
      /\ Cardinality(Dal(s, w + 1)) \in Nat
      /\ Cardinality(Dal(s, ora - FinestraLock)) \in Nat
      /\ Cardinality(Dal(s, ora - FinestraLock)) <= Cardinality(Dal(s, w))
      /\ Cardinality(Dal(s, ora - FinestraLock)) <= Cardinality(Dal(s, w + 1))
  BY <1>2, DalMeno
<1>6. CASE Aperta(x, s)
  BY <1>1, <1>2, <1>3, <1>4, <1>5, <1>6 DEF Aperta, Pulita, Soglia, Numeri, Contata, Entry
<1>7. CASE ChiusaUnaVolta(x, s, P, ora)
  <2>1. Cardinality(Dal(s, w)) + Attesi(P, l, ora) <= Soglia /\ Attesi(P, l, ora) \in Nat
    BY <1>1, <1>4, <1>7 DEF ChiusaUnaVolta, Attesi
  <2> QED BY <1>3, <1>4, <1>5, <2>1 DEF Pulita, Soglia, Numeri
<1>8. CASE ChiusaDueVolte(x, s, P, ora)
  <2>1. CASE ora < l
    <3>1. Cardinality(Dal(s, w + 1)) + Cardinality(P) <= 2 * R - 1
      BY <1>1, <1>8, <2>1 DEF ChiusaDueVolte, Attesi
    <3> QED BY <1>3, <1>4, <1>5, <3>1 DEF Pulita, Soglia, Numeri
  <2>2. CASE ~(ora < l)
    <3>1. ora - FinestraLock >= w + FinestraLock
      BY <1>1, <1>2, <1>8, <2>2 DEF ChiusaDueVolte
    <3>2. /\ Cardinality(Dal(s, w + FinestraLock)) \in Nat
          /\ Cardinality(Dal(s, ora - FinestraLock)) <= Cardinality(Dal(s, w + FinestraLock))
      <4>1. PICK i \in Int, j \in Int : i = w + FinestraLock /\ j = ora - FinestraLock
        BY <1>2
      <4>2. /\ Cardinality(Dal(s, i)) \in Nat
            /\ Cardinality(Dal(s, j)) <= Cardinality(Dal(s, i))
        BY <3>1, <4>1, DalMeno
      <4> QED BY <4>1, <4>2
    <3>3. Cardinality(Dal(s, w + FinestraLock)) <= R
      BY <1>1, <1>8, <2>2, <3>2 DEF ChiusaDueVolte, Attesi
    <3> QED BY <1>3, <1>4, <1>5, <3>2, <3>3 DEF Pulita, Soglia, Numeri
  <2> QED BY <2>1, <2>2
<1> QED BY <1>6, <1>7, <1>8 DEF Contata

\* A wrong password while the account is locked: not counted.
LEMMA NonContata ==
  ASSUME Numeri, ora \in Nat, NEW s, Storia(s, ora), NEW y, y.quando = ora,
         NEW P, P \subseteq Richieste, NEW r \in P, NEW x, Contata(x, s, P, ora),
         ora <= x.windowStart + FinestraLock, ora < x.lockedUntil
  PROVE  Contata(x, s \cup {y}, P \ {r}, ora)
<1> DEFINE z == s \cup {y}
<1>1. PICK w, l : w = x.windowStart /\ l = x.lockedUntil
  OBVIOUS
<1>2. /\ w \in Nat /\ l \in Nat /\ w <= ora /\ ora <= w + FinestraLock /\ ora < l
      /\ FinestraLock \in Nat \ {0}
  BY <1>1 DEF Contata, Entry, Numeri
<1>3. /\ Cardinality(P) \in Nat /\ R \in Nat /\ Cardinality(P \ {r}) \in Nat
      /\ Cardinality(P \ {r}) = Cardinality(P) - 1
  BY UnoInMeno
<1>4. /\ Attesi(P, l, ora) = Cardinality(P)
      /\ Attesi(P \ {r}, l, ora) = Cardinality(P \ {r})
  BY <1>2 DEF Attesi
<1>5. ASSUME NEW i \in Int
      PROVE  /\ Cardinality(Dal(s, i)) \in Nat /\ Cardinality(Dal(z, i)) \in Nat
             /\ \A n \in Int : Cardinality(Dal(s, i)) + Cardinality(P) <= n =>
                               Cardinality(Dal(z, i)) + Cardinality(P \ {r}) <= n
  <2>1. /\ Cardinality(Dal(s, i)) \in Nat /\ Cardinality(Dal(z, i)) \in Nat
        /\ Cardinality(Dal(z, i)) <= Cardinality(Dal(s, i)) + 1
    BY DalUnaInPiu
  <2>2. ASSUME NEW n \in Int, Cardinality(Dal(s, i)) + Cardinality(P) <= n
        PROVE  Cardinality(Dal(z, i)) + Cardinality(P \ {r}) <= n
    BY <1>3, <2>1, <2>2
  <2> QED BY <2>1, <2>2
<1>6. Fra(z, w - FinestraLock, w) = Fra(s, w - FinestraLock, w)
  BY <1>2 DEF Fra
<1>7. \A a \in z : a.quando <= w + FinestraLock
  BY <1>1, <1>2 DEF Contata
<1>8. (\A a \in s : a.quando < l) => \A a \in z : a.quando < l
  BY <1>2
<1> HIDE DEF z
<1>9. /\ Soglia \in Int /\ Soglia + R \in Int /\ R - 1 \in Int /\ 2 * R - 1 \in Int
       /\ R \in Int /\ w \in Int /\ w + 1 \in Int /\ w + FinestraLock \in Int
  BY <1>2, <1>3 DEF Soglia, Numeri
<1>10. ~Aperta(x, s)
  BY <1>1, <1>2 DEF Aperta
<1>11. CASE ChiusaUnaVolta(x, s, P, ora)
  <2>1. ChiusaUnaVolta(x, z, P \ {r}, ora)
    <3>0. /\ Cardinality(Dal(s, w)) + Cardinality(P) <= Soglia
          /\ l = w + FinestraLock => Cardinality(Dal(s, w + 1)) + Cardinality(P) <= R - 1
      BY <1>1, <1>4, <1>11 DEF ChiusaUnaVolta
    <3>1. Cardinality(Dal(z, w)) + Attesi(P \ {r}, l, ora) <= Soglia
      BY <1>2, <1>4, <1>5, <1>9, <3>0
    <3>2. l = w + FinestraLock =>
            Cardinality(Dal(z, w + 1)) + Attesi(P \ {r}, l, ora) <= R - 1
      BY <1>4, <1>5, <1>9, <3>0
    <3> QED BY <1>1, <1>8, <1>11, <3>1, <3>2 DEF ChiusaUnaVolta
  <2> QED BY <1>1, <1>6, <1>7, <2>1 DEF Contata, z
<1>12. CASE ChiusaDueVolte(x, s, P, ora)
  <2>1. ChiusaDueVolte(x, z, P \ {r}, ora)
    <3>0. /\ Cardinality(Dal(s, w)) + Cardinality(P) <= Soglia + R
          /\ Cardinality(Dal(s, w + 1)) + Cardinality(P) <= 2 * R - 1
          /\ Cardinality(Dal(s, w + FinestraLock)) + Cardinality(P) <= R
      BY <1>1, <1>4, <1>12 DEF ChiusaDueVolte
    <3>1. Cardinality(Dal(z, w)) + Attesi(P \ {r}, l, ora) <= Soglia + R
      BY <1>2, <1>4, <1>5, <1>9, <3>0
    <3>2. Cardinality(Dal(z, w + 1)) + Attesi(P \ {r}, l, ora) <= 2 * R - 1
      BY <1>4, <1>5, <1>9, <3>0
    <3>3. Cardinality(Dal(z, w + FinestraLock)) + Attesi(P \ {r}, l, ora) <= R
      BY <1>4, <1>5, <1>9, <3>0
    <3> QED BY <1>1, <1>12, <3>1, <3>2, <3>3 DEF ChiusaDueVolte
  <2> QED BY <1>1, <1>6, <1>7, <2>1 DEF Contata, z
<1> QED BY <1>10, <1>11, <1>12 DEF Contata

\* A wrong password while the account is not locked: counted.
LEMMA AncoraContata ==
  ASSUME Numeri, ora \in Nat, NEW s, Storia(s, ora), NEW y, y.quando = ora,
         NEW P, P \subseteq Richieste, NEW r \in P, NEW x, Contata(x, s, P, ora),
         ora <= x.windowStart + FinestraLock, ~(ora < x.lockedUntil)
  PROVE  Contata(Conta(x), s \cup {y}, P \ {r}, ora)
<1> DEFINE z == s \cup {y}
           c == Conta(x)
<1>1. PICK w, l, n : w = x.windowStart /\ l = x.lockedUntil /\ n = x.count
  OBVIOUS
<1>2. /\ w \in Nat /\ l \in Nat /\ n \in Nat /\ w <= ora /\ ora <= w + FinestraLock
      /\ l <= ora /\ FinestraLock \in Nat \ {0} /\ x \in Entry
  BY <1>1 DEF Contata, Entry, Numeri
<1>3. /\ c \in Entry /\ c.count = n + 1 /\ c.windowStart = w
      /\ c.lockedUntil = IF n + 1 >= MaxTentativi THEN ora + FinestraLock ELSE l
  BY <1>1, <1>2, ContaCampi
<1> HIDE DEF c
<1>4. /\ Cardinality(P) \in Nat /\ Cardinality(P) <= R /\ R \in Nat
      /\ Cardinality(P \ {r}) \in Nat
      /\ Cardinality(P \ {r}) = Cardinality(P) - 1
  BY UnoInMeno
<1>5. Attesi(P \ {r}, ora + FinestraLock, ora) = Cardinality(P \ {r})
  BY <1>2 DEF Attesi
<1>6. Cardinality(P \ {r}) <= R - 1
  BY <1>4
<1>7. ASSUME NEW i \in Int
      PROVE  /\ Cardinality(Dal(s, i)) \in Nat /\ Cardinality(Dal(z, i)) \in Nat
             /\ Cardinality(Dal(z, i)) <= Cardinality(Dal(s, i)) + 1
  BY DalUnaInPiu
<1>8. Fra(z, w - FinestraLock, w) = Fra(s, w - FinestraLock, w)
  BY <1>2 DEF Fra
<1>9. /\ \A a \in z : a.quando \in Nat /\ a.quando <= ora
      /\ \A a \in z : a.quando <= w + FinestraLock /\ a.quando < ora + FinestraLock
  BY <1>1, <1>2 DEF Contata, Storia
<1> HIDE DEF z
<1>10. ASSUME Aperta(c, z) \/ ChiusaUnaVolta(c, z, P \ {r}, ora)
                 \/ ChiusaDueVolte(c, z, P \ {r}, ora)
       PROVE  Contata(c, z, P \ {r}, ora)
  BY <1>1, <1>2, <1>3, <1>8, <1>9, <1>10 DEF Contata
<1>11. CASE Aperta(x, s)
  <2>1. /\ Cardinality(Dal(z, w)) \in Nat /\ Cardinality(Dal(z, w)) <= n + 1
        /\ n < MaxTentativi /\ l = 0
    <3>1. Cardinality(Dal(s, w)) <= n /\ n < MaxTentativi /\ l = 0
      BY <1>1, <1>11 DEF Aperta
    <3>2. /\ Cardinality(Dal(s, w)) \in Nat /\ Cardinality(Dal(z, w)) \in Nat
          /\ Cardinality(Dal(z, w)) <= Cardinality(Dal(s, w)) + 1
      BY <1>2, <1>7
    <3> QED BY <1>2, <3>1, <3>2
  <2>2. CASE n + 1 < MaxTentativi
    <3>1. Aperta(c, z)
      BY <1>2, <1>3, <2>1, <2>2 DEF Aperta, Numeri
    <3> QED BY <1>10, <3>1 DEF z, c
  <2>3. CASE ~(n + 1 < MaxTentativi)
    <3>1. n + 1 = MaxTentativi /\ c.lockedUntil = ora + FinestraLock
      BY <1>2, <1>3, <2>1, <2>3 DEF Numeri
    <3>2. Cardinality(Dal(z, w)) + Cardinality(P \ {r}) <= Soglia
      BY <1>2, <1>4, <1>6, <2>1, <3>1 DEF Soglia, Numeri
    <3>3. ora = w => Cardinality(Dal(z, w + 1)) = 0
      <4>1. ora = w => Dal(z, w + 1) = {}
        BY <1>2, <1>9 DEF Dal
      <4> QED BY <4>1, FS_EmptySet
    <3>4. ChiusaUnaVolta(c, z, P \ {r}, ora)
      BY <1>2, <1>3, <1>4, <1>5, <1>6, <1>9, <3>1, <3>2, <3>3 DEF ChiusaUnaVolta, Numeri
    <3> QED BY <1>10, <3>4 DEF z, c
  <2> QED BY <2>2, <2>3
<1>12. CASE ChiusaUnaVolta(x, s, P, ora)
  <2>1. /\ l = w + FinestraLock /\ ora = w + FinestraLock /\ n >= MaxTentativi
        /\ \A a \in s : a.quando < ora
    BY <1>1, <1>2, <1>12 DEF ChiusaUnaVolta
  <2>2. Cardinality(Dal(s, w)) <= Soglia /\ Cardinality(Dal(s, w + 1)) <= R - 1
    <3>1. Attesi(P, l, ora) = 0
      BY <1>2 DEF Attesi
    <3>2. /\ Cardinality(Dal(s, w)) + Attesi(P, l, ora) <= Soglia
          /\ Cardinality(Dal(s, w + 1)) + Attesi(P, l, ora) <= R - 1
      BY <1>1, <1>12, <2>1 DEF ChiusaUnaVolta
    <3>3. Cardinality(Dal(s, w)) \in Nat /\ Cardinality(Dal(s, w + 1)) \in Nat
      BY <1>2, <1>7
    <3> QED BY <3>1, <3>2, <3>3
  <2>3. c.lockedUntil = w + 2 * FinestraLock /\ c.lockedUntil = ora + FinestraLock
    BY <1>2, <1>3, <2>1 DEF Numeri
  <2>4. Cardinality(Dal(s, ora)) = 0
    <3>1. Dal(s, ora) = {}
      BY <1>9, <2>1 DEF Dal, z
    <3> QED BY <3>1, FS_EmptySet
  <2>5. /\ Cardinality(Dal(z, w)) <= Soglia + 1
        /\ Cardinality(Dal(z, w + 1)) <= R
        /\ Cardinality(Dal(z, ora)) <= 1
    <3>1. /\ Cardinality(Dal(s, w)) \in Nat /\ Cardinality(Dal(z, w)) \in Nat
          /\ Cardinality(Dal(z, w)) <= Cardinality(Dal(s, w)) + 1
      BY <1>2, <1>7
    <3>2. /\ Cardinality(Dal(s, w + 1)) \in Nat /\ Cardinality(Dal(z, w + 1)) \in Nat
          /\ Cardinality(Dal(z, w + 1)) <= Cardinality(Dal(s, w + 1)) + 1
      BY <1>2, <1>7
    <3>3. Cardinality(Dal(z, ora)) <= Cardinality(Dal(s, ora)) + 1
      BY <1>7
    <3>4. Soglia \in Int
      BY <1>4 DEF Soglia, Numeri
    <3> QED BY <1>4, <2>2, <2>4, <3>1, <3>2, <3>3, <3>4
  <2>6. /\ Cardinality(Dal(z, w)) + Cardinality(P \ {r}) <= Soglia + R
        /\ Cardinality(Dal(z, w + 1)) + Cardinality(P \ {r}) <= 2 * R - 1
        /\ Cardinality(Dal(z, ora)) + Cardinality(P \ {r}) <= R
    <3>1. /\ Cardinality(Dal(z, w)) \in Nat /\ Cardinality(Dal(z, w + 1)) \in Nat
          /\ Cardinality(Dal(z, ora)) \in Nat /\ Soglia \in Int
      BY <1>2, <1>4, <1>7 DEF Soglia, Numeri
    <3> QED BY <1>4, <1>6, <2>5, <3>1
  <2>7. ChiusaDueVolte(c, z, P \ {r}, ora)
    BY <1>2, <1>3, <1>5, <2>1, <2>3, <2>6 DEF ChiusaDueVolte
  <2> QED BY <1>10, <2>7 DEF z, c
<1>13. ~ChiusaDueVolte(x, s, P, ora)
  BY <1>1, <1>2 DEF ChiusaDueVolte
<1> QED BY <1>11, <1>12, <1>13 DEF Contata

\* Later, or with other logins past the lock once it is open, nothing is lost.
LEMMA ContataDopo ==
  ASSUME NEW h \in Nat, NEW k \in Nat, h <= k, NEW s, Storia(s, h),
         NEW P, P \subseteq Richieste, NEW Q, Q \subseteq Richieste,
         NEW x, Contata(x, s, P, h), k < x.lockedUntil => Q \subseteq P, Numeri
  PROVE  Contata(x, s, Q, k)
<1>1. PICK w, l : w = x.windowStart /\ l = x.lockedUntil
  OBVIOUS
<1>2. w \in Nat /\ l \in Nat /\ w <= h /\ FinestraLock \in Nat
  BY <1>1 DEF Contata, Entry, Numeri
<1>3. IsFiniteSet(P) /\ Cardinality(P) \in Nat /\ Cardinality(Q) \in Nat
  BY ParteFinita, AccessiAssumption
<1>4. k < l => Cardinality(Q) <= Cardinality(P)
  BY <1>1, <1>3, ParteFinita
<1>5. /\ Attesi(P, l, h) \in Nat /\ Attesi(Q, l, k) \in Nat
      /\ Attesi(Q, l, k) <= Attesi(P, l, h)
  BY <1>2, <1>3, <1>4 DEF Attesi
<1>6. ASSUME NEW i \in Int, NEW n \in Int, Cardinality(Dal(s, i)) + Attesi(P, l, h) <= n
      PROVE  Cardinality(Dal(s, i)) + Attesi(Q, l, k) <= n
  <2>1. Cardinality(Dal(s, i)) \in Nat
    BY DalMeno
  <2> QED BY <1>5, <1>6, <2>1
<1>7. /\ Soglia \in Int /\ Soglia + R \in Int /\ R - 1 \in Int /\ 2 * R - 1 \in Int
      /\ R \in Int /\ w \in Int /\ w + 1 \in Int /\ w + FinestraLock \in Int
  BY <1>2 DEF Soglia, Numeri
<1>8. ChiusaUnaVolta(x, s, P, h) => ChiusaUnaVolta(x, s, Q, k)
  BY <1>1, <1>6, <1>7 DEF ChiusaUnaVolta
<1>9. ChiusaDueVolte(x, s, P, h) => ChiusaDueVolte(x, s, Q, k)
  BY <1>1, <1>2, <1>6, <1>7 DEF ChiusaDueVolte
<1>10. x.windowStart <= k
  BY <1>1, <1>2
<1> QED BY <1>8, <1>9, <1>10 DEF Contata

LEMMA PulitaDopo ==
  ASSUME NEW h \in Nat, NEW k \in Nat, h <= k, NEW s, Storia(s, h), Pulita(s, h), Numeri
  PROVE  Pulita(s, k)
<1>1. PICK i \in Int, j \in Int : i = h - FinestraLock /\ j = k - FinestraLock /\ i <= j
  BY DEF Numeri
<1>2. Soglia \in Int
  BY DEF Soglia, Numeri
<1>3. \A a \in s : a.quando < k
  BY DEF Pulita, Storia
<1>4. /\ Cardinality(Dal(s, i)) \in Nat /\ Cardinality(Dal(s, j)) \in Nat
      /\ Cardinality(Dal(s, j)) <= Cardinality(Dal(s, i))
  BY <1>1, DalMeno
<1>5. Cardinality(Dal(s, j)) <= Soglia
  BY <1>1, <1>2, <1>4 DEF Pulita
<1> QED BY <1>1, <1>3, <1>5 DEF Pulita

\* When a lock is over, its window is too.
LEMMA BloccoFinito ==
  ASSUME Numeri, NEW h \in Nat, NEW s, Storia(s, h), NEW P, P \subseteq Richieste,
         NEW x, Contata(x, s, P, h), x.lockedUntil # 0, h > x.lockedUntil
  PROVE  Pulita(s, h)
<1>1. PICK w, l : w = x.windowStart /\ l = x.lockedUntil
  OBVIOUS
<1>2. w \in Nat /\ l \in Nat /\ l < h /\ FinestraLock \in Nat \ {0}
  BY <1>1 DEF Contata, Entry, Numeri
<1>3. CASE ChiusaUnaVolta(x, s, P, h)
  <2>1. /\ Cardinality(Dal(s, w)) + Attesi(P, l, h) <= Soglia
        /\ Attesi(P, l, h) = 0 /\ w + FinestraLock <= l
        /\ \A a \in s : a.quando < l
    BY <1>1, <1>2, <1>3 DEF ChiusaUnaVolta, Attesi
  <2>2. PICK j \in Int : j = h - FinestraLock /\ w <= j
    BY <1>2, <2>1
  <2>3. /\ Cardinality(Dal(s, w)) \in Nat /\ Cardinality(Dal(s, j)) \in Nat
        /\ Cardinality(Dal(s, j)) <= Cardinality(Dal(s, w))
    BY <1>2, <2>2, DalMeno
  <2>4. Soglia \in Int
    BY DEF Soglia, Numeri
  <2>5. Cardinality(Dal(s, j)) <= Soglia
    BY <2>1, <2>3, <2>4
  <2> QED BY <1>2, <2>1, <2>2, <2>5 DEF Pulita, Storia
<1>4. CASE ChiusaDueVolte(x, s, P, h)
  <2>1. \A a \in s : a.quando \in Nat /\ a.quando < h - FinestraLock /\ a.quando < h
    BY <1>1, <1>2, <1>4 DEF ChiusaDueVolte, Contata, Storia
  <2>2. Dal(s, h - FinestraLock) = {}
    BY <1>2, <2>1 DEF Dal
  <2>3. 0 <= Soglia
    BY DEF Soglia, Numeri
  <2> QED BY <2>1, <2>2, <2>3, FS_EmptySet DEF Pulita
<1>5. ~Aperta(x, s)
  BY DEF Aperta
<1> QED BY <1>3, <1>4, <1>5 DEF Contata

-----------------------------------------------------------------------------

\* The logins in flight are typed.
VoloTipato(v) == DOMAIN v \subseteq Richieste /\ v \in [DOMAIN v -> InVolo]

InvLock ==
  /\ Tempo
  /\ VoloTipato(volo)
  /\ verifiche = [e \in Email |-> verifiche[e]]
  /\ \A e \in Email : Conto(e, entries, verifiche[e], Passati(volo, e), ora)

LEMMA PassatiRichieste ==
  ASSUME NEW v, VoloTipato(v), NEW e
  PROVE  Passati(v, e) \subseteq Richieste
BY DEF VoloTipato, Passati

\* A login that ends: it is past its lock no more, and no other changes.
LEMMA PassatiFinisci ==
  ASSUME VoloTipato(volo), NEW r, Finisci(r)
  PROVE  /\ VoloTipato(volo')
         /\ \A e : Passati(volo', e) = Passati(volo, e) \ {r}
<1>1. /\ DOMAIN volo' = DOMAIN volo \ {r}
      /\ \A q \in DOMAIN volo : q # r => volo'[q] = volo[q]
  BY DEF Finisci, Senza, Restrict
<1>2. volo' \in [DOMAIN volo' -> InVolo]
  BY DEF Finisci, VoloTipato, Senza, Restrict
<1> QED BY <1>1, <1>2 DEF VoloTipato, Passati

\* A login that arrives is not past the lock yet.
LEMMA PassatiArriva ==
  ASSUME VoloTipato(volo), NEW r \in Richieste, Libera(r), NEW e \in Email,
         volo' = Con(volo, r, [passo |-> "lock", email |-> e])
  PROVE  /\ VoloTipato(volo')
         /\ \A x : Passati(volo', x) = Passati(volo, x)
<1> DEFINE l == [passo |-> "lock", email |-> e]
<1>1. l \in InVolo /\ l.passo # "password"
  BY DEF InVolo
<1>2. volo' = Con(volo, r, l)
  OBVIOUS
<1> HIDE DEF l
<1>3. /\ DOMAIN volo' = DOMAIN volo \cup {r} /\ volo'[r] = l
      /\ \A q \in DOMAIN volo : q # r => volo'[q] = volo[q]
  BY <1>2 DEF Con
<1>4. volo' \in [DOMAIN volo' -> InVolo]
  BY <1>1, <1>2 DEF VoloTipato, Con
<1> QED BY <1>1, <1>3, <1>4 DEF VoloTipato, Passati, Libera

\* What leaves the entries and the histories alone, and lets no login of a
\* locked account past its lock, keeps the invariant.
LEMMA LockFermo ==
  ASSUME Numeri, InvLock, ora' \in Nat, ora <= ora', UNCHANGED <<entries, verifiche>>,
         VoloTipato(volo'),
         \A e \in Email : e \in DOMAIN entries =>
           (ora' < entries[e].lockedUntil => Passati(volo', e) \subseteq Passati(volo, e))
  PROVE  InvLock'
<1>1. ora \in Nat \ {0} /\ ora' \in Nat \ {0}
  BY DEF InvLock, Tempo
<1>2. ASSUME NEW e \in Email
      PROVE  Conto(e, entries, verifiche[e], Passati(volo', e), ora')
  <2>1. /\ Storia(verifiche[e], ora) /\ EntroSoglie(verifiche[e])
        /\ IF e \in DOMAIN entries
           THEN Contata(entries[e], verifiche[e], Passati(volo, e), ora)
           ELSE Pulita(verifiche[e], ora)
    BY DEF InvLock, Conto
  <2>2. Storia(verifiche[e], ora')
    BY <1>1, <2>1 DEF Storia
  <2>3. Passati(volo, e) \subseteq Richieste /\ Passati(volo', e) \subseteq Richieste
    BY PassatiRichieste DEF InvLock
  <2>4. CASE e \in DOMAIN entries
    <3>1. Contata(entries[e], verifiche[e], Passati(volo', e), ora')
      BY <1>1, <2>1, <2>3, <2>4, ContataDopo
    <3> QED BY <2>1, <2>2, <2>4, <3>1 DEF Conto
  <2>5. CASE e \notin DOMAIN entries
    <3>1. Pulita(verifiche[e], ora')
      BY <1>1, <2>1, <2>5, PulitaDopo
    <3> QED BY <2>1, <2>2, <2>5, <3>1 DEF Conto
  <2> QED BY <2>4, <2>5
<1> QED BY <1>1, <1>2 DEF InvLock, Tempo

\* A wrong password, counted, not counted, or the first of a new window.
LEMMA FallitaContata ==
  ASSUME Numeri, ora \in Nat, NEW e, NEW m, NEW s, NEW P, P \subseteq Richieste, NEW r \in P,
         m = entries, Conto(e, m, s, P, ora), NEW y, y.quando = ora, NEW k,
         k = IF ora < EntryDi(e).lockedUntil THEN m ELSE Con(m, e, Conta(EntryDi(e)))
  PROVE  Conto(e, k, s \cup {y}, P \ {r}, ora)
<1>1. /\ Storia(s, ora) /\ EntroSoglie(s) /\ Storia(s \cup {y}, ora)
  BY UnoInPiu DEF Conto, Storia
<1>2. P \ {r} \subseteq Richieste
  OBVIOUS
<1>3. ASSUME NEW x, Contata(x, s \cup {y}, P \ {r}, ora), e \in DOMAIN k, k[e] = x
      PROVE  Conto(e, k, s \cup {y}, P \ {r}, ora)
  BY <1>1, <1>2, <1>3, SoglieTengono DEF Conto
<1>4. PICK n : n = EntryDi(e)
  OBVIOUS
<1>5. ASSUME ~(ora < n.lockedUntil)
      PROVE  e \in DOMAIN k /\ k[e] = Conta(n)
  BY <1>4, <1>5 DEF Con
<1>6. CASE e \in DOMAIN m /\ ora - m[e].windowStart <= FinestraLock
  <2>1. n = m[e] /\ Contata(n, s, P, ora)
    BY <1>4, <1>6 DEF EntryDi, Conto
  <2>2. n.windowStart \in Nat /\ ora <= n.windowStart + FinestraLock
    BY <1>6, <2>1 DEF Contata, Entry, Numeri
  <2>3. CASE ora < n.lockedUntil
    <3>1. Contata(n, s \cup {y}, P \ {r}, ora)
      BY <1>1, <2>1, <2>2, <2>3, NonContata
    <3> QED BY <1>3, <1>4, <1>6, <2>1, <2>3, <3>1
  <2>4. CASE ~(ora < n.lockedUntil)
    <3>1. Contata(Conta(n), s \cup {y}, P \ {r}, ora)
      BY <1>1, <2>1, <2>2, <2>4, AncoraContata
    <3> QED BY <1>3, <1>5, <2>4, <3>1
  <2> QED BY <2>3, <2>4
<1>7. CASE ~(e \in DOMAIN m /\ ora - m[e].windowStart <= FinestraLock)
  <2>1. n = NuovaEntry(ora) /\ n.lockedUntil = 0
    BY <1>4, <1>7 DEF EntryDi, NuovaEntry
  <2>2. Pulita(s, ora)
    <3>1. CASE e \in DOMAIN m
      <4>1. Contata(m[e], s, P, ora)
        BY <3>1 DEF Conto
      <4>2. ora > m[e].windowStart + FinestraLock
        BY <1>7, <3>1, <4>1 DEF Contata, Entry, Numeri
      <4> QED BY <1>1, <4>1, <4>2, FinestraFinita
    <3>2. CASE e \notin DOMAIN m
      BY <3>2 DEF Conto
    <3> QED BY <3>1, <3>2
  <2>3. Contata(Conta(n), s \cup {y}, P \ {r}, ora)
    BY <1>1, <2>1, <2>2, NuovaContata
  <2> QED BY <1>3, <1>5, <2>1, <2>3
<1> QED BY <1>6, <1>7

\* One account changes; of the others, at most the entry of none.
LEMMA LockUno ==
  ASSUME Numeri, InvLock, UNCHANGED ora, VoloTipato(volo'), NEW e \in Email,
         DOMAIN verifiche' = Email, verifiche' = [x \in DOMAIN verifiche' |-> verifiche'[x]],
         \A x \in Email : x # e => verifiche'[x] = verifiche[x],
         \A x \in Email : x # e => (x \in DOMAIN entries' <=> x \in DOMAIN entries),
         \A x \in DOMAIN entries : x # e => entries'[x] = entries[x],
         \A x \in Email : x # e => Passati(volo', x) = Passati(volo, x),
         Conto(e, entries', verifiche'[e], Passati(volo', e), ora)
  PROVE  InvLock'
<1>1. ASSUME NEW x \in Email, x # e
      PROVE  Conto(x, entries', verifiche'[x], Passati(volo', x), ora)
  BY <1>1 DEF InvLock, Conto
<1>2. \A x \in Email : Conto(x, entries', verifiche'[x], Passati(volo', x), ora')
  BY <1>1
<1> QED BY <1>2 DEF InvLock, Tempo

LEMMA LockRecordFailure ==
  ASSUME Numeri, InvLock, NEW r \in Richieste, RecordFailure(r)
  PROVE  InvLock'
<1>1. PICK e, y : e = volo[r].email /\ y = [quando |-> ora, n |-> Cardinality(verifiche[e]) + 1]
  OBVIOUS
<1>2. /\ r \in DOMAIN volo /\ volo[r] \in InVolo /\ e \in Email
      /\ volo[r].passo = "password" /\ ora \in Nat /\ y.quando = ora
  BY <1>1 DEF RecordFailure, Attende, InvLock, VoloTipato, InVolo, Tempo
<1>3. /\ entries' = IF ora < EntryDi(e).lockedUntil THEN entries
                                                    ELSE Con(entries, e, Conta(EntryDi(e)))
      /\ verifiche' = [verifiche EXCEPT ![e] = verifiche[e] \cup {y}]
      /\ Finisci(r) /\ UNCHANGED ora
  BY <1>1, <1>2 DEF RecordFailure, Segnata, InvLock
<1>4. /\ VoloTipato(volo')
      /\ \A x : Passati(volo', x) = Passati(volo, x) \ {r}
  BY <1>3, PassatiFinisci DEF InvLock
<1>5. r \in Passati(volo, e) /\ \A x : x # e => r \notin Passati(volo, x)
  BY <1>1, <1>2 DEF Passati
<1>6. /\ DOMAIN verifiche' = Email
      /\ verifiche' = [x \in DOMAIN verifiche' |-> verifiche'[x]]
      /\ verifiche'[e] = verifiche[e] \cup {y}
      /\ \A x \in Email : x # e => verifiche'[x] = verifiche[x]
  BY <1>2, <1>3 DEF InvLock
<1>7. /\ \A x \in Email : x # e => (x \in DOMAIN entries' <=> x \in DOMAIN entries)
      /\ \A x \in DOMAIN entries : x # e => entries'[x] = entries[x]
  BY <1>3 DEF Con
<1>8. Conto(e, entries, verifiche[e], Passati(volo, e), ora)
  BY <1>2 DEF InvLock
<1>9. Passati(volo, e) \subseteq Richieste
  BY PassatiRichieste DEF InvLock
<1>10. Conto(e, entries', verifiche[e] \cup {y}, Passati(volo, e) \ {r}, ora)
  BY <1>2, <1>3, <1>5, <1>8, <1>9, FallitaContata
<1>11. Conto(e, entries', verifiche'[e], Passati(volo', e), ora)
  BY <1>4, <1>6, <1>10
<1>12. \A x \in Email : x # e => Passati(volo', x) = Passati(volo, x)
  BY <1>4, <1>5
<1> QED BY <1>2, <1>3, <1>4, <1>6, <1>7, <1>11, <1>12, LockUno

\* Nothing to show of an account without wrong passwords.
LEMMA ContoVuoto ==
  ASSUME Numeri, NEW e, NEW m, e \notin DOMAIN m, NEW P, NEW h \in Nat
  PROVE  Conto(e, m, {}, P, h)
<1>1. IsFiniteSet({}) /\ Cardinality({}) = 0
  BY FS_EmptySet
<1>2. 0 <= Soglia /\ 0 <= 2 * Soglia
  BY DEF Soglia, Numeri
<1>3. \A t \in Nat : Quante({}, t, FinestraLock) = 0
  BY <1>1 DEF Quante
<1>4. Dal({}, h - FinestraLock) = {}
  BY DEF Dal
<1> QED BY <1>1, <1>2, <1>3, <1>4 DEF Conto, Storia, EntroSoglie, Pulita

LEMMA LockClear ==
  ASSUME Numeri, InvLock, NEW r \in Richieste, Clear(r)
  PROVE  InvLock'
<1>1. PICK e : e = volo[r].email
  OBVIOUS
<1>2. r \in DOMAIN volo /\ volo[r] \in InVolo /\ e \in Email /\ ora \in Nat
  BY <1>1 DEF Clear, Attende, InvLock, VoloTipato, InVolo, Tempo
<1>3. /\ entries' = Senza(entries, e)
      /\ verifiche' = [verifiche EXCEPT ![e] = {}]
      /\ Finisci(r) /\ UNCHANGED ora
  BY <1>1 DEF Clear
<1>4. /\ VoloTipato(volo')
      /\ \A x : Passati(volo', x) = Passati(volo, x) \ {r}
  BY <1>3, PassatiFinisci DEF InvLock
<1>5. \A x : x # e => r \notin Passati(volo, x)
  BY <1>1, <1>2 DEF Passati
<1>6. /\ DOMAIN verifiche' = Email
      /\ verifiche' = [x \in DOMAIN verifiche' |-> verifiche'[x]]
      /\ verifiche'[e] = {}
      /\ \A x \in Email : x # e => verifiche'[x] = verifiche[x]
  BY <1>2, <1>3 DEF InvLock
<1>7. /\ DOMAIN entries' = DOMAIN entries \ {e}
      /\ \A x \in DOMAIN entries : x # e => entries'[x] = entries[x]
  BY <1>3 DEF Senza, Restrict
<1>8. Conto(e, entries', {}, Passati(volo', e), ora)
  BY <1>2, <1>7, ContoVuoto
<1>9. \A x \in Email : x # e => Passati(volo', x) = Passati(volo, x)
  BY <1>4, <1>5
<1> QED BY <1>2, <1>3, <1>4, <1>6, <1>7, <1>8, <1>9, LockUno

\* A login asks the tracker: while the account is locked it ends, and else it
\* goes on; a lock that is over is dropped.
LEMMA LockIsLocked ==
  ASSUME Numeri, InvLock, NEW r \in Richieste, IsLocked(r)
  PROVE  InvLock'
<1>1. PICK e : e = volo[r].email
  OBVIOUS
<1>2. /\ r \in DOMAIN volo /\ volo[r] \in InVolo /\ e \in Email /\ ora \in Nat
      /\ UNCHANGED <<ora, verifiche>> /\ volo[r].passo = "lock"
  BY <1>1 DEF IsLocked, Attende, InvLock, VoloTipato, InVolo, Tempo
<1>3. /\ VoloTipato(volo')
      /\ \A x : x # e => Passati(volo', x) = Passati(volo, x)
      /\ Bloccata(e) => Passati(volo', e) \subseteq Passati(volo, e)
  <2>1. CASE Bloccata(e)
    <3>1. Finisci(r)
      BY <1>1, <2>1 DEF IsLocked
    <3>2. \A x : r \notin Passati(volo, x)
      BY <1>2 DEF Passati
    <3> QED BY <3>1, <3>2, PassatiFinisci DEF InvLock
  <2>2. CASE ~Bloccata(e)
    <3>1. volo' = [volo EXCEPT ![r].passo = "password"]
      BY <1>1, <2>2 DEF IsLocked
    <3>2. /\ DOMAIN volo' = DOMAIN volo
          /\ volo'[r] = [volo[r] EXCEPT !.passo = "password"]
          /\ \A q \in DOMAIN volo : q # r => volo'[q] = volo[q]
      BY <1>2, <3>1
    <3>3. volo'[r] \in InVolo /\ volo'[r].email = e
      BY <1>1, <1>2, <3>2 DEF InVolo
    <3>4. volo' \in [DOMAIN volo' -> InVolo]
      BY <3>1, <3>2, <3>3 DEF InvLock, VoloTipato
    <3>5. VoloTipato(volo')
      BY <3>2, <3>4 DEF InvLock, VoloTipato
    <3>6. ASSUME NEW x, x # e
          PROVE  Passati(volo', x) = Passati(volo, x)
      BY <1>2, <3>2, <3>3, <3>6, <1>1 DEF Passati
    <3> QED BY <2>2, <3>5, <3>6
  <2> QED BY <2>1, <2>2
<1>4. Conto(e, entries, verifiche[e], Passati(volo, e), ora)
  BY <1>2 DEF InvLock
<1>5. /\ Passati(volo, e) \subseteq Richieste /\ Passati(volo', e) \subseteq Richieste
  BY <1>3, PassatiRichieste DEF InvLock
<1>6. CASE e \in DOMAIN entries /\ entries[e].lockedUntil # 0 /\ ora > entries[e].lockedUntil
  <2>1. entries' = Senza(entries, e)
    BY <1>1, <1>6 DEF IsLocked
  <2>2. /\ DOMAIN entries' = DOMAIN entries \ {e}
        /\ \A x \in DOMAIN entries : x # e => entries'[x] = entries[x]
    BY <2>1 DEF Senza, Restrict
  <2>3. /\ Storia(verifiche[e], ora) /\ EntroSoglie(verifiche[e])
        /\ Contata(entries[e], verifiche[e], Passati(volo, e), ora)
    BY <1>4, <1>6 DEF Conto
  <2>4. Pulita(verifiche[e], ora)
    BY <1>2, <1>5, <1>6, <2>3, BloccoFinito
  <2>5. Conto(e, entries', verifiche'[e], Passati(volo', e), ora)
    BY <1>2, <2>2, <2>3, <2>4 DEF Conto
  <2> QED BY <1>2, <1>3, <2>2, <2>5, LockUno DEF InvLock
<1>7. CASE ~(/\ e \in DOMAIN entries /\ entries[e].lockedUntil # 0
             /\ ora > entries[e].lockedUntil)
  <2>1. entries' = entries
    BY <1>1, <1>7 DEF IsLocked
  <2>2. ASSUME NEW x \in Email, x \in DOMAIN entries, ora' < entries[x].lockedUntil
        PROVE  Passati(volo', x) \subseteq Passati(volo, x)
    BY <1>2, <1>3, <2>2 DEF Bloccata
  <2> QED BY <1>2, <1>3, <2>1, <2>2, LockFermo
<1> QED BY <1>6, <1>7

LEMMA LockIniziale == Numeri /\ Init => InvLock
<1> SUFFICES ASSUME Numeri, Init PROVE InvLock
  OBVIOUS
<1>1. ora = 1 /\ DOMAIN volo = {} /\ DOMAIN entries = {}
      /\ verifiche = [e \in Email |-> {}]
  BY DEF Init
<1>2. \A e \in Email : Conto(e, entries, verifiche[e], Passati(volo, e), ora)
  BY <1>1, ContoVuoto
<1>3. VoloTipato(volo)
  BY DEF Init, VoloTipato
<1> QED BY <1>1, <1>2, <1>3 DEF InvLock, Tempo

LEMMA LockPasso == Numeri /\ InvLock /\ [Next]_vars => InvLock'
<1> SUFFICES ASSUME Numeri, InvLock, [Next]_vars PROVE InvLock'
  OBVIOUS
<1>0. ora \in Nat /\ VoloTipato(volo)
  BY DEF InvLock, Tempo
<1>1. CASE Tick
  BY <1>0, <1>1, LockFermo DEF Tick
<1>2. ASSUME NEW k \in Indirizzi, Rifiutata(k) \/ Altra(k) PROVE InvLock'
  BY <1>0, <1>2, LockFermo DEF Rifiutata, Altra
<1>3. ASSUME NEW r \in Richieste, NEW e \in Email, Libera(r),
             volo' = Con(volo, r, [passo |-> "lock", email |-> e]),
             UNCHANGED <<ora, entries, verifiche>>
      PROVE  InvLock'
  <2>1. VoloTipato(volo') /\ \A x : Passati(volo', x) = Passati(volo, x)
    BY <1>0, <1>3, PassatiArriva
  <2> QED BY <1>0, <1>3, <2>1, LockFermo
<1>4. ASSUME NEW r \in Richieste, NEW e \in Email, NEW k \in Indirizzi, Arriva(r, k, e)
      PROVE  InvLock'
  BY <1>3, <1>4 DEF Arriva
<1>5. ASSUME NEW r \in Richieste, NEW e \in Email, ArrivaSenzaLimite(r, e)
      PROVE  InvLock'
  BY <1>3, <1>5 DEF ArrivaSenzaLimite
<1>6. ASSUME NEW r \in Richieste, IsLocked(r) \/ RecordFailure(r) \/ Clear(r)
      PROVE  InvLock'
  BY <1>6, LockIsLocked, LockRecordFailure, LockClear
<1>7. ASSUME NEW r \in Richieste, NonConta(r)
      PROVE  InvLock'
  <2>1. VoloTipato(volo') /\ \A x : Passati(volo', x) \subseteq Passati(volo, x)
    BY <1>0, <1>7, PassatiFinisci DEF NonConta
  <2> QED BY <1>0, <1>7, <2>1, LockFermo DEF NonConta
<1>8. CASE UNCHANGED vars
  BY <1>8 DEF vars, InvLock, Tempo
<1> QED BY <1>1, <1>2, <1>4, <1>5, <1>6, <1>7, <1>8 DEF Next

\* In no interval as long as the window of the lock are more wrong passwords
\* of an account compared than two thresholds, each exceeded by the logins
\* already past the lock - with as many logins in flight as the threshold and
\* one more, any threshold, any window and any number of accounts.
THEOREM TentativiLimitatiAccessi == Spec => []TentativiLimitati
<1>0. MaxTentativi \in Nat \ {0} /\ FinestraLock \in Nat \ {0} /\ R \in Nat
  BY AccessiAssumption, FS_CardinalityType DEF R
<1>1. CASE ~(R <= MaxTentativi + 1)
  <2>1. TentativiLimitati
    BY <1>1 DEF TentativiLimitati, R
  <2> QED BY <2>1, PTL
<1>2. CASE R <= MaxTentativi + 1
  <2>1. Numeri
    BY <1>0, <1>2 DEF Numeri
  <2>2. InvLock => TentativiLimitati
    BY DEF InvLock, Conto, EntroSoglie, TentativiLimitati, Ore, Soglia, R
  <2> QED BY <2>1, <2>2, LockIniziale, LockPasso, PTL DEF Spec
<1> QED BY <1>1, <1>2

-----------------------------------------------------------------------------
(* The log of security events and the stream of alarms.                    *)

Uguali(ev, tipo, t) == {x \in ev : x.tipo = tipo /\ x.quando = t}

\* The numbers of the events tell equal ones apart.
LogBuono(ev) ==
  /\ IsFiniteSet(ev)
  /\ \A x \in ev : /\ x.tipo \in Tipo /\ x.quando \in Nat /\ x.n \in Nat
                   /\ x.n <= Cardinality(Uguali(ev, x.tipo, x.quando))

SospesiBuoni(so, v, h) ==
  /\ DOMAIN so \subseteq Richieste \ DOMAIN v
  /\ \A r \in DOMAIN so : so[r] \in [tipo : Tipo, quando : Nat] /\ so[r].quando <= h

\* The entries, as far as the alarms depend on them.
EntryBuona(x, h) ==
  /\ x \in Entry
  /\ x.lockedUntil <= h + FinestraLock

\* The events not yet written, or written, that speak of a failed login.
FallitiScritti(ev, t) == {x \in ev : x.tipo # "ALTRO" /\ t <= x.quando}

FallitiSospesi(so, t) ==
  {r \in DOMAIN so : so[r].tipo # "ALTRO" /\ (so[r].quando = 0 \/ t <= so[r].quando)}

\* A lock until l has its event: in the log, or on its way there.
Tracciato(l, ev, so) ==
  \/ \E x \in ev : x.tipo = "LOGIN_LOCKED" /\ l <= x.quando + FinestraLock
  \/ \E r \in DOMAIN so :
       /\ so[r].tipo = "LOGIN_LOCKED"
       /\ so[r].quando = 0 \/ l <= so[r].quando + FinestraLock

\* Every wrong password since t has its event: in the log, or on its way.
Segnalata(s, t, ev, so) ==
  Cardinality(Dal(s, t))
    <= Cardinality(FallitiScritti(ev, t)) + Cardinality(FallitiSospesi(so, t))

InvLog ==
  /\ ora \in Nat \ {0}
  /\ VoloTipato(volo)
  /\ verifiche = [e \in Email |-> verifiche[e]]
  /\ \A e \in Email : Storia(verifiche[e], ora)
  /\ DOMAIN entries \subseteq Email
  /\ \A e \in DOMAIN entries : EntryBuona(entries[e], ora)
  /\ LogBuono(eventi)
  /\ SospesiBuoni(sospesi, volo, ora)

\* Unless an event was lost.
InvTracce ==
  /\ persi \in BOOLEAN
  /\ persi \/ \A e \in DOMAIN entries :
                entries[e].lockedUntil = 0 \/ Tracciato(entries[e].lockedUntil, eventi, sospesi)
  /\ persi \/ \A e \in Email, t \in Int : Segnalata(verifiche[e], t, eventi, sospesi)

\* Any list of MongoStore into which the window fits holds all of it.
LEMMA FinestraIntera ==
  ASSUME ora \in Nat, LogBuono(eventi), NEW lista \in Liste,
         store = "memory" \/ Cardinality(Finestra(eventi)) <= LimiteLista
  PROVE  Finestra(lista) = Finestra(eventi)
<1>1. CASE store = "memory"
  BY <1>1 DEF Liste
<1>2. CASE store # "memory"
  <2>1. /\ lista \subseteq eventi
        /\ lista # eventi => Cardinality(lista) = LimiteLista
        /\ \A e \in lista, f \in eventi \ lista : e.quando >= f.quando
    BY <1>2 DEF Liste
  <2>2. ASSUME NEW f \in Finestra(eventi), f \notin lista
        PROVE  FALSE
    <3>1. /\ f \in eventi /\ Cardinality(lista) = LimiteLista
          /\ IsFiniteSet(lista) /\ IsFiniteSet(Finestra(eventi))
      BY <2>1, <2>2, ParteFinita DEF Finestra, LogBuono
    <3>2. \A e \in lista : e \in Finestra(eventi)
      BY <2>1, <2>2, <3>1, AllarmiAssumption DEF Finestra, LogBuono
    <3>3. lista \cup {f} \subseteq Finestra(eventi)
      BY <2>2, <3>2
    <3>4. /\ Cardinality(lista \cup {f}) = LimiteLista + 1
          /\ Cardinality(lista \cup {f}) <= Cardinality(Finestra(eventi))
          /\ Cardinality(Finestra(eventi)) \in Nat
      BY <2>2, <3>1, <3>3, UnoInPiu, ParteFinita
    <3> QED BY <1>2, <3>4, AllarmiAssumption
  <2> QED BY <2>1, <2>2 DEF Finestra
<1> QED BY <1>1, <1>2

\* What the numbers of a list are.
LEMMA QuantiNaturali ==
  ASSUME LogBuono(eventi), NEW lista \in Letture, NEW tipo
  PROVE  /\ IsFiniteSet({e \in Finestra(lista) : e.tipo = tipo})
         /\ Quanti(lista, tipo) \in Nat
         /\ Quanti(lista, tipo) = 0 <=> {e \in Finestra(lista) : e.tipo = tipo} = {}
<1>1. lista \subseteq eventi
  BY DEF Letture, Liste
<1>2. IsFiniteSet({e \in Finestra(lista) : e.tipo = tipo})
  BY <1>1, ParteFinita DEF LogBuono, Finestra
<1> QED BY <1>2, FS_EmptySet, FS_CardinalityType DEF Quanti

\* A whole list is one of the parts that a read may return.
LEMMA ListaLetta == ASSUME NEW lista \in Liste PROVE lista \in Letture
BY DEF Letture

\* The beat shows how serious the list is, whatever was sent before.
LEMMA BattitoMostra ==
  ASSUME NEW lista
  PROVE  /\ DopoBattito(lista).gravita =
              Gravita(Quanti(lista, "LOGIN_FAILED"), Quanti(lista, "LOGIN_LOCKED"))
         /\ SnapshotDi(lista).gravita =
              Gravita(Quanti(lista, "LOGIN_FAILED"), Quanti(lista, "LOGIN_LOCKED"))
<1>1. PICK s : s = SnapshotDi(lista)
  OBVIOUS
<1>2. s.gravita = Gravita(Quanti(lista, "LOGIN_FAILED"), Quanti(lista, "LOGIN_LOCKED"))
  BY <1>1 DEF SnapshotDi
<1>3. Firma(s) = Firma(mostrato) => s.gravita = mostrato.gravita
  BY DEF Firma
<1>4. DopoBattito(lista) = IF Firma(s) = Firma(mostrato) THEN mostrato ELSE s
  BY <1>1 DEF DopoBattito
<1> QED BY <1>1, <1>2, <1>3, <1>4

\* The two properties, from the invariant.
LEMMA BloccoDaInv == InvLog /\ InvTracce => BloccoSegnalato
<1> SUFFICES ASSUME InvLog, InvTracce, LogCompleto, FinestraAllarme >= FinestraLock,
                    NEW e \in Email, Bloccata(e), NEW lista \in Liste
             PROVE  DopoBattito(lista).gravita = "critical"
  BY DEF BloccoSegnalato
<1>0. lista \in Letture
  BY ListaLetta
<1>1. PICK l \in Nat : l = entries[e].lockedUntil /\ ora < l /\ e \in DOMAIN entries
  BY DEF Bloccata, InvLog, EntryBuona, Entry
<1>2. DOMAIN sospesi = {} /\ ~persi /\ ora \in Nat
  BY DEF LogCompleto, InvLog
<1>3. PICK x \in eventi : x.tipo = "LOGIN_LOCKED" /\ l <= x.quando + FinestraLock
  BY <1>1, <1>2 DEF InvTracce, Tracciato, InvLog
<1>4. x \in Finestra(eventi)
  BY <1>1, <1>2, <1>3, AllarmiAssumption, AccessiAssumption DEF Finestra, InvLog, LogBuono
<1>5. x \in Finestra(lista)
  BY <1>2, <1>4, FinestraIntera DEF InvLog, LogCompleto
<1>6. Quanti(lista, "LOGIN_LOCKED") \in Nat /\ Quanti(lista, "LOGIN_LOCKED") # 0
  BY <1>0, <1>3, <1>5, QuantiNaturali DEF InvLog
<1> QED BY <1>6, BattitoMostra DEF Gravita

LEMMA TentativiDaInv == InvLog /\ InvTracce => TentativiSegnalati
<1> DEFINE Passate(e) == {v \in verifiche[e] : v.quando + FinestraAllarme >= ora}
<1> SUFFICES ASSUME InvLog, InvTracce, LogCompleto,
                    NEW e \in Email, Cardinality(Passate(e)) >= SogliaUsata,
                    NEW lista \in Liste
             PROVE  DopoBattito(lista).gravita # "ok"
  BY DEF TentativiSegnalati
<1>0. lista \in Letture
  BY ListaLetta
<1>1. DOMAIN sospesi = {} /\ ~persi /\ ora \in Nat
  BY DEF LogCompleto, InvLog
<1>2. PICK t \in Int : t = ora - FinestraAllarme
  BY <1>1, AllarmiAssumption
<1>3. Passate(e) = Dal(verifiche[e], t)
  BY <1>1, <1>2, AllarmiAssumption DEF Dal, InvLog, Storia
<1>4. Segnalata(verifiche[e], t, eventi, sospesi)
  BY <1>1 DEF InvTracce
<1>5. FallitiSospesi(sospesi, t) = {}
  BY <1>1 DEF FallitiSospesi
<1>6. /\ IsFiniteSet(FallitiScritti(eventi, t))
      /\ Cardinality(FallitiScritti(eventi, t)) \in Nat
  BY ParteFinita DEF FallitiScritti, InvLog, LogBuono
<1>7. Cardinality(Dal(verifiche[e], t)) \in Nat
  BY ParteFinita DEF Dal, InvLog, Storia
<1>8. Cardinality(FallitiScritti(eventi, t)) >= SogliaUsata
  <2>1. Cardinality(FallitiSospesi(sospesi, t)) = 0
    BY <1>5, FS_EmptySet
  <2>2. SogliaUsata \in Nat
    BY AllarmiAssumption DEF SogliaUsata
  <2>3. Cardinality(Dal(verifiche[e], t)) >= SogliaUsata
    BY <1>3
  <2>4. Cardinality(Dal(verifiche[e], t)) <= Cardinality(FallitiScritti(eventi, t))
    BY <1>4, <1>6, <1>7, <2>1 DEF Segnalata
  <2> QED BY <1>6, <1>7, <2>2, <2>3, <2>4
<1> HIDE DEF Passate
<1>9. Finestra(lista) = Finestra(eventi)
  BY <1>1, FinestraIntera DEF InvLog, LogCompleto
<1>10. Quanti(lista, "LOGIN_FAILED") \in Nat /\ Quanti(lista, "LOGIN_LOCKED") \in Nat
  BY <1>0, QuantiNaturali DEF InvLog
<1>11. CASE Quanti(lista, "LOGIN_LOCKED") # 0
  BY <1>10, <1>11, BattitoMostra DEF Gravita
<1>12. CASE Quanti(lista, "LOGIN_LOCKED") = 0
  <2>1. {x \in Finestra(lista) : x.tipo = "LOGIN_LOCKED"} = {}
    BY <1>0, <1>12, QuantiNaturali DEF InvLog
  <2>2. ASSUME NEW x
        PROVE  x \in FallitiScritti(eventi, t)
                 <=> x \in {y \in Finestra(lista) : y.tipo = "LOGIN_FAILED"}
    BY <1>1, <1>2, <1>9, <2>1, AllarmiAssumption
       DEF FallitiScritti, Finestra, InvLog, LogBuono, Tipo
  <2>3. FallitiScritti(eventi, t) = {y \in Finestra(lista) : y.tipo = "LOGIN_FAILED"}
    BY <2>2
  <2>4. Quanti(lista, "LOGIN_FAILED") = Cardinality(FallitiScritti(eventi, t))
    BY <2>3 DEF Quanti
  <2> QED BY <1>8, <1>10, <1>12, <2>4, BattitoMostra, AllarmiAssumption
          DEF Gravita, SogliaUsata
<1> QED BY <1>11, <1>12

\* One event more: it is not one of the log.
LEMMA LogCresce ==
  ASSUME NEW ev, LogBuono(ev), NEW tipo \in Tipo, NEW q \in Nat, NEW x,
         x = [tipo |-> tipo, quando |-> q, n |-> Cardinality(Uguali(ev, tipo, q)) + 1]
  PROVE  LogBuono(ev \cup {x}) /\ x \notin ev
<1>1. x.tipo = tipo /\ x.quando = q /\ x.n = Cardinality(Uguali(ev, tipo, q)) + 1
  OBVIOUS
<1>2. IsFiniteSet(ev) /\ IsFiniteSet(ev \cup {x})
  BY UnoInPiu DEF LogBuono
<1>3. \A u, t : /\ IsFiniteSet(Uguali(ev, u, t)) /\ IsFiniteSet(Uguali(ev \cup {x}, u, t))
                /\ Cardinality(Uguali(ev, u, t)) \in Nat
                /\ Cardinality(Uguali(ev \cup {x}, u, t)) \in Nat
                /\ Cardinality(Uguali(ev, u, t)) <= Cardinality(Uguali(ev \cup {x}, u, t))
  <2> TAKE u, t
  <2>1. IsFiniteSet(Uguali(ev \cup {x}, u, t))
    BY <1>2, ParteFinita DEF Uguali
  <2>2. Uguali(ev, u, t) \subseteq Uguali(ev \cup {x}, u, t)
    BY DEF Uguali
  <2> QED BY <2>1, <2>2, ParteFinita
<1>4. x \notin ev
  BY <1>1, <1>3 DEF LogBuono
<1>5. Cardinality(Uguali(ev \cup {x}, tipo, q)) = Cardinality(Uguali(ev, tipo, q)) + 1
  <2>1. Uguali(ev \cup {x}, tipo, q) = Uguali(ev, tipo, q) \cup {x}
    BY <1>1 DEF Uguali
  <2>2. x \notin Uguali(ev, tipo, q)
    BY <1>4 DEF Uguali
  <2>3. Cardinality(Uguali(ev, tipo, q) \cup {x}) = Cardinality(Uguali(ev, tipo, q)) + 1
    BY <1>3, <2>2, UnoInPiu
  <2> QED BY <2>1, <2>3
<1> HIDE DEF Uguali
<1>6. ASSUME NEW y \in ev \cup {x}
      PROVE  /\ y.tipo \in Tipo /\ y.quando \in Nat /\ y.n \in Nat
             /\ y.n <= Cardinality(Uguali(ev \cup {x}, y.tipo, y.quando))
  <2>1. CASE y = x
    BY <1>1, <1>3, <1>5, <2>1
  <2>2. CASE y \in ev
    <3>1. /\ y.tipo \in Tipo /\ y.quando \in Nat /\ y.n \in Nat
          /\ y.n <= Cardinality(Uguali(ev, y.tipo, y.quando))
      BY <2>2 DEF LogBuono
    <3>2. PICK u, t : u = y.tipo /\ t = y.quando
      OBVIOUS
    <3>3. /\ Cardinality(Uguali(ev, u, t)) \in Nat
          /\ Cardinality(Uguali(ev \cup {x}, u, t)) \in Nat
          /\ Cardinality(Uguali(ev, u, t)) <= Cardinality(Uguali(ev \cup {x}, u, t))
      BY <1>3
    <3> QED BY <3>1, <3>2, <3>3
  <2> QED BY <2>1, <2>2
<1> QED BY <1>2, <1>4, <1>6 DEF LogBuono

\* The counts of failures are those of finite sets.
LEMMA FallitiFiniti ==
  ASSUME NEW ev, LogBuono(ev), NEW so, DOMAIN so \subseteq Richieste, NEW t
  PROVE  /\ IsFiniteSet(FallitiScritti(ev, t)) /\ IsFiniteSet(FallitiSospesi(so, t))
         /\ Cardinality(FallitiScritti(ev, t)) \in Nat
         /\ Cardinality(FallitiSospesi(so, t)) \in Nat
<1>1. FallitiScritti(ev, t) \subseteq ev /\ IsFiniteSet(ev)
  BY DEF FallitiScritti, LogBuono
<1>2. FallitiSospesi(so, t) \subseteq Richieste /\ IsFiniteSet(Richieste)
  BY AccessiAssumption DEF FallitiSospesi
<1> QED BY <1>1, <1>2, ParteFinita

\* The events of a history stay enough while their number does not fall, seen
\* from no later than now.
LEMMA SegnalataResta ==
  ASSUME NEW h \in Nat, NEW s, Storia(s, h), NEW t \in Int, NEW ev, NEW so,
         Segnalata(s, t, ev, so), NEW ew, LogBuono(ew),
         NEW sw, DOMAIN sw \subseteq Richieste,
         t <= h => Cardinality(FallitiScritti(ev, t)) + Cardinality(FallitiSospesi(so, t))
                     <= Cardinality(FallitiScritti(ew, t)) + Cardinality(FallitiSospesi(sw, t)),
         LogBuono(ev), DOMAIN so \subseteq Richieste
  PROVE  Segnalata(s, t, ew, sw)
<1>1. PICK a \in Nat, b \in Nat, c \in Nat, d \in Nat :
        /\ a = Cardinality(FallitiScritti(ev, t)) /\ b = Cardinality(FallitiSospesi(so, t))
        /\ c = Cardinality(FallitiScritti(ew, t)) /\ d = Cardinality(FallitiSospesi(sw, t))
  BY FallitiFiniti
<1>2. PICK k \in Nat : k = Cardinality(Dal(s, t))
  BY ParteFinita DEF Dal, Storia
<1>3. CASE t <= h
  <2>1. a + b <= c + d
    BY <1>1, <1>3
  <2>2. k <= a + b
    BY <1>1, <1>2 DEF Segnalata
  <2>3. k <= c + d
    BY <2>1, <2>2
  <2> QED BY <1>1, <1>2, <2>3 DEF Segnalata
<1>4. CASE ~(t <= h)
  <2>1. Dal(s, t) = {}
    BY <1>4 DEF Dal, Storia
  <2>2. k = 0
    BY <1>2, <2>1, FS_EmptySet
  <2> QED BY <1>1, <1>2, <2>2 DEF Segnalata
<1> QED BY <1>3, <1>4

\* A login that leaves an event to write, and nothing else in the log.
LEMMA AccodaTracce ==
  ASSUME InvLog, InvTracce, NEW r \in Richieste, r \notin DOMAIN sospesi,
         NEW tipo \in Tipo, Sospendi(r, tipo), UNCHANGED <<ora, eventi, persi>>,
         \A e \in DOMAIN entries' :
           \/ entries'[e].lockedUntil = 0
           \/ e \in DOMAIN entries /\ entries'[e].lockedUntil = entries[e].lockedUntil
           \/ tipo = "LOGIN_LOCKED",
         \A e \in Email :
           \/ verifiche'[e] \subseteq verifiche[e]
           \/ /\ tipo # "ALTRO"
              /\ \E y : y.quando = ora /\ verifiche'[e] = verifiche[e] \cup {y}
  PROVE  InvTracce'
<1>1. /\ DOMAIN sospesi' = DOMAIN sospesi \cup {r}
      /\ sospesi'[r].tipo = tipo /\ sospesi'[r].quando = 0
      /\ \A q \in DOMAIN sospesi : q # r => sospesi'[q] = sospesi[q]
  BY DEF Sospendi, Con
<1>2. DOMAIN sospesi \subseteq Richieste /\ DOMAIN sospesi' \subseteq Richieste
      /\ LogBuono(eventi) /\ ora \in Nat
  BY <1>1 DEF InvLog, SospesiBuoni
<1>3. CASE persi
  BY <1>3 DEF InvTracce
<1>4. CASE ~persi
  <2>1. ASSUME NEW l, Tracciato(l, eventi, sospesi)
        PROVE  Tracciato(l, eventi, sospesi')
    BY <1>1, <2>1 DEF Tracciato
  <2>2. ASSUME NEW l, tipo = "LOGIN_LOCKED"
        PROVE  Tracciato(l, eventi, sospesi')
    BY <1>1, <2>2 DEF Tracciato
  <2>3. ASSUME NEW e \in DOMAIN entries'
        PROVE  \/ entries'[e].lockedUntil = 0
               \/ Tracciato(entries'[e].lockedUntil, eventi, sospesi')
    BY <1>4, <2>1, <2>2 DEF InvTracce
  <2>4. ASSUME NEW e \in Email, NEW t \in Int
        PROVE  Segnalata(verifiche'[e], t, eventi, sospesi')
    <3>1. Storia(verifiche[e], ora) /\ Segnalata(verifiche[e], t, eventi, sospesi)
      BY <1>4 DEF InvLog, InvTracce
    <3>2. PICK a \in Nat, b \in Nat, c \in Nat, k \in Nat :
            /\ a = Cardinality(FallitiScritti(eventi, t))
            /\ b = Cardinality(FallitiSospesi(sospesi, t))
            /\ c = Cardinality(FallitiSospesi(sospesi', t))
            /\ k = Cardinality(Dal(verifiche[e], t))
      <4>1. Cardinality(Dal(verifiche[e], t)) \in Nat
        BY <3>1, ParteFinita DEF Dal, Storia
      <4> QED BY <4>1, <1>2, FallitiFiniti
    <3>3. k <= a + b
      BY <3>1, <3>2 DEF Segnalata
    <3>4. IsFiniteSet(FallitiSospesi(sospesi, t)) /\ IsFiniteSet(FallitiSospesi(sospesi', t))
      BY <1>2, FallitiFiniti
    <3>5. b <= c
      <4>1. FallitiSospesi(sospesi, t) \subseteq FallitiSospesi(sospesi', t)
        BY <1>1 DEF FallitiSospesi
      <4> QED BY <3>2, <3>4, <4>1, ParteFinita
    <3>6. CASE verifiche'[e] \subseteq verifiche[e]
      <4>1. Dal(verifiche'[e], t) \subseteq Dal(verifiche[e], t)
        BY <3>6 DEF Dal
      <4>2. IsFiniteSet(Dal(verifiche[e], t))
        BY <3>1, ParteFinita DEF Dal, Storia
      <4>3. /\ Cardinality(Dal(verifiche'[e], t)) \in Nat
            /\ Cardinality(Dal(verifiche'[e], t)) <= k
        BY <3>2, <4>1, <4>2, ParteFinita
      <4>4. Cardinality(Dal(verifiche'[e], t)) <= a + c
        BY <3>3, <3>5, <4>3
      <4> QED BY <3>2, <4>4 DEF Segnalata
    <3>7. ASSUME NEW y, y.quando = ora, verifiche'[e] = verifiche[e] \cup {y}, tipo # "ALTRO"
          PROVE  Segnalata(verifiche'[e], t, eventi, sospesi')
      <4>1. /\ Cardinality(Dal(verifiche[e] \cup {y}, t)) \in Nat
            /\ Cardinality(Dal(verifiche[e] \cup {y}, t)) <= k + 1
        BY <1>2, <3>1, <3>2, <3>7, DalUnaInPiu
      <4>2. FallitiSospesi(sospesi', t) = FallitiSospesi(sospesi, t) \cup {r}
        BY <1>1, <3>7 DEF FallitiSospesi
      <4>3. r \notin FallitiSospesi(sospesi, t)
        BY DEF FallitiSospesi
      <4>4. c = b + 1
        BY <3>2, <3>4, <4>2, <4>3, UnoInPiu
      <4>5. Cardinality(Dal(verifiche[e] \cup {y}, t)) <= a + c
        BY <3>3, <4>1, <4>4
      <4> QED BY <3>2, <3>7, <4>5 DEF Segnalata
    <3> QED BY <3>6, <3>7
  <2> QED BY <2>3, <2>4 DEF InvTracce
<1> QED BY <1>3, <1>4

\* The log or what is on its way to it changes: nothing that speaks of a
\* failure is lost.
LEMMA TracceRestano ==
  ASSUME InvLog, InvTracce, LogBuono(eventi'), DOMAIN sospesi' \subseteq Richieste,
         UNCHANGED <<entries, verifiche, persi>>,
         \A l \in Nat : l <= ora + FinestraLock =>
                (Tracciato(l, eventi, sospesi) => Tracciato(l, eventi', sospesi')),
         \A t \in Int : t <= ora =>
           Cardinality(FallitiScritti(eventi, t)) + Cardinality(FallitiSospesi(sospesi, t))
             <= Cardinality(FallitiScritti(eventi', t)) + Cardinality(FallitiSospesi(sospesi', t))
  PROVE  InvTracce'
<1>1. ASSUME NEW e \in DOMAIN entries, Tracciato(entries[e].lockedUntil, eventi, sospesi)
      PROVE  Tracciato(entries[e].lockedUntil, eventi', sospesi')
  BY <1>1 DEF InvLog, EntryBuona, Entry
<1>2. ASSUME NEW e \in Email, NEW t \in Int, Segnalata(verifiche[e], t, eventi, sospesi)
      PROVE  Segnalata(verifiche[e], t, eventi', sospesi')
  BY <1>2, SegnalataResta DEF InvLog, SospesiBuoni
<1> QED BY <1>1, <1>2 DEF InvTracce

\* An event is written with its time q: the login no longer holds it.
LEMMA ScritturaTracce ==
  ASSUME InvLog, InvTracce, NEW r \in DOMAIN sospesi, NEW q \in Nat,
         q = ora \/ (q = sospesi[r].quando /\ q # 0),
         Aggiungi(sospesi[r].tipo, q), sospesi' = Senza(sospesi, r),
         UNCHANGED <<vars, persi>>
  PROVE  InvLog' /\ InvTracce'
<1>0. PICK tipo \in Tipo : tipo = sospesi[r].tipo
  BY DEF InvLog, SospesiBuoni
<1>1. PICK x : /\ tipo = sospesi[r].tipo
               /\ x = [tipo |-> tipo, quando |-> q,
                       n |-> Cardinality(Uguali(eventi, tipo, q)) + 1]
  BY <1>0
<1>2. eventi' = eventi \cup {x} /\ x.tipo = tipo /\ x.quando = q
  BY <1>1 DEF Aggiungi, Uguali
<1>3. LogBuono(eventi') /\ x \notin eventi
  BY <1>1, <1>2, LogCresce DEF InvLog
<1>4. /\ DOMAIN sospesi' = DOMAIN sospesi \ {r}
      /\ \A p \in DOMAIN sospesi : p # r => sospesi'[p] = sospesi[p]
  BY DEF Senza, Restrict
<1>5. UNCHANGED <<ora, entries, volo, verifiche>>
  BY DEF vars
<1>6. SospesiBuoni(sospesi', volo, ora)
  BY <1>4 DEF InvLog, SospesiBuoni
<1>7. InvLog'
  BY <1>3, <1>5, <1>6 DEF InvLog, VoloTipato
<1>8. ASSUME NEW l \in Nat, l <= ora + FinestraLock, Tracciato(l, eventi, sospesi)
      PROVE  Tracciato(l, eventi', sospesi')
  <2>1. CASE \E y \in eventi : y.tipo = "LOGIN_LOCKED" /\ l <= y.quando + FinestraLock
    BY <1>2, <2>1 DEF Tracciato
  <2>2. ASSUME NEW p \in DOMAIN sospesi, sospesi[p].tipo = "LOGIN_LOCKED",
               sospesi[p].quando = 0 \/ l <= sospesi[p].quando + FinestraLock
        PROVE  Tracciato(l, eventi', sospesi')
    <3>1. CASE p # r
      BY <1>4, <2>2, <3>1 DEF Tracciato
    <3>2. CASE p = r
      BY <1>1, <1>2, <1>8, <2>2, <3>2, AccessiAssumption DEF Tracciato, InvLog, SospesiBuoni
    <3> QED BY <3>1, <3>2
  <2> QED BY <1>8, <2>1, <2>2 DEF Tracciato
<1>9. ASSUME NEW t \in Int, t <= ora
      PROVE  Cardinality(FallitiScritti(eventi, t)) + Cardinality(FallitiSospesi(sospesi, t))
               <= Cardinality(FallitiScritti(eventi', t)) + Cardinality(FallitiSospesi(sospesi', t))
  <2>1. /\ DOMAIN sospesi \subseteq Richieste /\ DOMAIN sospesi' \subseteq Richieste
        /\ LogBuono(eventi)
    BY <1>4 DEF InvLog, SospesiBuoni
  <2>2. PICK a \in Nat, b \in Nat, c \in Nat, d \in Nat :
          /\ a = Cardinality(FallitiScritti(eventi, t))
          /\ b = Cardinality(FallitiSospesi(sospesi, t))
          /\ c = Cardinality(FallitiScritti(eventi', t))
          /\ d = Cardinality(FallitiSospesi(sospesi', t))
    BY <1>3, <2>1, FallitiFiniti
  <2>3. /\ IsFiniteSet(FallitiScritti(eventi, t)) /\ IsFiniteSet(FallitiScritti(eventi', t))
        /\ IsFiniteSet(FallitiSospesi(sospesi, t))
    BY <1>3, <2>1, FallitiFiniti
  <2>4. FallitiSospesi(sospesi', t) = FallitiSospesi(sospesi, t) \ {r}
    BY <1>4 DEF FallitiSospesi
  <2>5. FallitiScritti(eventi, t) \subseteq FallitiScritti(eventi', t)
    BY <1>2 DEF FallitiScritti
  <2>6. a <= c
    BY <2>2, <2>3, <2>5, ParteFinita
  <2>7. CASE r \notin FallitiSospesi(sospesi, t)
    <3>1. FallitiSospesi(sospesi', t) = FallitiSospesi(sospesi, t)
      BY <2>4, <2>7
    <3> QED BY <2>2, <2>6, <3>1
  <2>8. CASE r \in FallitiSospesi(sospesi, t)
    <3>1. d = b - 1
      BY <2>2, <2>3, <2>4, <2>8, FS_RemoveElement
    <3>2. FallitiScritti(eventi', t) = FallitiScritti(eventi, t) \cup {x}
      BY <1>1, <1>2, <1>9, <2>8 DEF FallitiScritti, FallitiSospesi, InvLog, SospesiBuoni
    <3>3. x \notin FallitiScritti(eventi, t)
      BY <1>3 DEF FallitiScritti
    <3>4. c = a + 1
      BY <2>2, <2>3, <3>2, <3>3, UnoInPiu
    <3>5. a + b <= c + d
      BY <3>1, <3>4
    <3> QED BY <2>2, <3>5
  <2> QED BY <2>7, <2>8
<1>10. DOMAIN sospesi' \subseteq Richieste
  BY <1>6 DEF SospesiBuoni
<1>11. InvTracce'
  BY <1>3, <1>5, <1>8, <1>9, <1>10, TracceRestano
<1> QED BY <1>7, <1>11

\* MongoStore stamps an event.
LEMMA TimbraTracce ==
  ASSUME InvLog, InvTracce, NEW r \in Richieste, AddTimbra(r)
  PROVE  InvLog' /\ InvTracce'
<1>1. /\ r \in DOMAIN sospesi /\ sospesi[r].quando = 0
      /\ UNCHANGED <<ora, entries, volo, verifiche, eventi, persi>>
      /\ sospesi' = [sospesi EXCEPT ![r].quando = ora]
  BY DEF AddTimbra, vars
<1>2. /\ DOMAIN sospesi' = DOMAIN sospesi
      /\ sospesi'[r] = [sospesi[r] EXCEPT !.quando = ora]
      /\ \A p \in DOMAIN sospesi : p # r => sospesi'[p] = sospesi[p]
  BY <1>1
<1>3. /\ sospesi'[r].quando = ora /\ ora \in Nat
      /\ sospesi'[r] \in [tipo : Tipo, quando : Nat]
      /\ sospesi'[r].tipo = sospesi[r].tipo
  BY <1>1, <1>2 DEF InvLog, SospesiBuoni
<1>4. SospesiBuoni(sospesi', volo, ora)
  BY <1>1, <1>2, <1>3 DEF InvLog, SospesiBuoni
<1>5. InvLog'
  BY <1>1, <1>4 DEF InvLog, VoloTipato
<1>6. ASSUME NEW l \in Nat, l <= ora + FinestraLock, Tracciato(l, eventi, sospesi)
      PROVE  Tracciato(l, eventi', sospesi')
  <2>1. CASE \E y \in eventi : y.tipo = "LOGIN_LOCKED" /\ l <= y.quando + FinestraLock
    BY <1>1, <2>1 DEF Tracciato
  <2>2. ASSUME NEW p \in DOMAIN sospesi, sospesi[p].tipo = "LOGIN_LOCKED",
               sospesi[p].quando = 0 \/ l <= sospesi[p].quando + FinestraLock
        PROVE  Tracciato(l, eventi', sospesi')
    BY <1>2, <1>3, <1>6, <2>2 DEF Tracciato
  <2> QED BY <1>6, <2>1, <2>2 DEF Tracciato
<1>7. ASSUME NEW t \in Int, t <= ora
      PROVE  Cardinality(FallitiScritti(eventi, t)) + Cardinality(FallitiSospesi(sospesi, t))
               <= Cardinality(FallitiScritti(eventi', t)) + Cardinality(FallitiSospesi(sospesi', t))
  <2>1. FallitiSospesi(sospesi', t) = FallitiSospesi(sospesi, t)
    BY <1>1, <1>2, <1>3, <1>7 DEF FallitiSospesi
  <2>2. DOMAIN sospesi \subseteq Richieste /\ LogBuono(eventi)
    BY DEF InvLog, SospesiBuoni
  <2>3. PICK a \in Nat, b \in Nat : /\ a = Cardinality(FallitiScritti(eventi, t))
                                    /\ b = Cardinality(FallitiSospesi(sospesi, t))
    BY <2>2, FallitiFiniti
  <2>4. a + b <= a + b
    OBVIOUS
  <2> QED BY <1>1, <2>1, <2>3, <2>4
<1>8. DOMAIN sospesi' \subseteq Richieste /\ LogBuono(eventi')
  BY <1>1, <1>4 DEF InvLog, SospesiBuoni
<1>9. InvTracce'
  BY <1>1, <1>6, <1>7, <1>8, TracceRestano
<1> QED BY <1>5, <1>9

\* An insertion that fails: from then on nothing is promised.
LEMMA FallisceTracce ==
  ASSUME InvLog, NEW r \in Richieste, AddFallisce(r)
  PROVE  InvLog' /\ InvTracce'
<1>1. /\ sospesi' = Senza(sospesi, r) /\ persi' = TRUE
      /\ UNCHANGED <<ora, entries, volo, verifiche, eventi>>
  BY DEF AddFallisce, vars
<1>2. /\ DOMAIN sospesi' = DOMAIN sospesi \ {r}
      /\ \A p \in DOMAIN sospesi : p # r => sospesi'[p] = sospesi[p]
  BY <1>1 DEF Senza, Restrict
<1>3. SospesiBuoni(sospesi', volo, ora)
  BY <1>2 DEF InvLog, SospesiBuoni
<1>4. InvLog'
  BY <1>1, <1>3 DEF InvLog, VoloTipato
<1> QED BY <1>1, <1>4 DEF InvTracce

\* An event of another handler.
LEMMA AltroTracce ==
  ASSUME InvLog, InvTracce, AltroEvento
  PROVE  InvLog' /\ InvTracce'
<1>1. UNCHANGED <<ora, entries, volo, verifiche, sospesi, persi>> /\ ora \in Nat
  BY DEF AltroEvento, vars, InvLog
<1>2. PICK x : x = [tipo |-> "ALTRO", quando |-> ora,
                    n |-> Cardinality(Uguali(eventi, "ALTRO", ora)) + 1]
  OBVIOUS
<1>3. eventi' = eventi \cup {x}
  BY <1>2 DEF AltroEvento, Aggiungi, Uguali
<1>4. "ALTRO" \in Tipo
  BY DEF Tipo
<1>5. LogBuono(eventi')
  BY <1>1, <1>2, <1>3, <1>4, LogCresce DEF InvLog
<1>6. InvLog'
  BY <1>1, <1>5 DEF InvLog, VoloTipato, SospesiBuoni
<1>7. \A l : Tracciato(l, eventi, sospesi) => Tracciato(l, eventi', sospesi')
  BY <1>1, <1>3 DEF Tracciato
<1>8. ASSUME NEW t \in Int
      PROVE  Cardinality(FallitiScritti(eventi, t)) + Cardinality(FallitiSospesi(sospesi, t))
               <= Cardinality(FallitiScritti(eventi', t)) + Cardinality(FallitiSospesi(sospesi', t))
  <2>1. FallitiScritti(eventi', t) = FallitiScritti(eventi, t)
    BY <1>2, <1>3 DEF FallitiScritti
  <2>2. DOMAIN sospesi \subseteq Richieste /\ LogBuono(eventi)
    BY DEF InvLog, SospesiBuoni
  <2>3. PICK a \in Nat, b \in Nat : /\ a = Cardinality(FallitiScritti(eventi, t))
                                    /\ b = Cardinality(FallitiSospesi(sospesi, t))
    BY <2>2, FallitiFiniti
  <2>4. a + b <= a + b
    OBVIOUS
  <2> QED BY <1>1, <2>1, <2>3, <2>4
<1>9. DOMAIN sospesi' \subseteq Richieste
  BY <1>1 DEF InvLog, SospesiBuoni
<1>10. InvTracce'
  BY <1>1, <1>5, <1>7, <1>8, <1>9, TracceRestano
<1> QED BY <1>6, <1>10

\* Time passes.
LEMMA PassaTracce ==
  ASSUME InvLog, InvTracce, Passa
  PROVE  InvLog' /\ InvTracce'
<1>1. /\ ora \in Nat /\ ora' = ora + 1
      /\ UNCHANGED <<entries, volo, verifiche, eventi, sospesi, persi>>
  BY DEF Passa, Tick, InvLog
<1>2. \A e \in Email : Storia(verifiche[e], ora')
  BY <1>1 DEF InvLog, Storia
<1>3. \A e \in DOMAIN entries : EntryBuona(entries[e], ora')
  BY <1>1, AccessiAssumption DEF InvLog, EntryBuona, Entry
<1>4. SospesiBuoni(sospesi, volo, ora')
  BY <1>1 DEF InvLog, SospesiBuoni
<1>5. InvLog'
  BY <1>1, <1>2, <1>3, <1>4 DEF InvLog, VoloTipato
<1> QED BY <1>1, <1>5 DEF InvTracce

\* The history of every account stays one, and the logins in flight well
\* formed: a login that changes nothing but its own account.
LEMMA LogUno ==
  ASSUME InvLog, VoloTipato(volo'), DOMAIN volo' \subseteq DOMAIN volo,
         UNCHANGED <<ora, eventi>>, NEW e \in Email,
         NEW s, Storia(s, ora), verifiche' = [verifiche EXCEPT ![e] = s],
         DOMAIN entries' \subseteq DOMAIN entries \cup {e},
         \A x \in DOMAIN entries' :
           (x \in DOMAIN entries /\ entries'[x] = entries[x]) \/ EntryBuona(entries'[x], ora),
         SospesiBuoni(sospesi', volo', ora)
  PROVE  InvLog'
<1>1. /\ verifiche' = [x \in Email |-> verifiche'[x]]
      /\ \A x \in Email : verifiche'[x] = verifiche[x] \/ verifiche'[x] = s
  BY DEF InvLog
<1>2. \A x \in Email : Storia(verifiche'[x], ora)
  BY <1>1 DEF InvLog
<1>3. \A x \in DOMAIN entries' : EntryBuona(entries'[x], ora)
  BY DEF InvLog
<1> QED BY <1>1, <1>2, <1>3 DEF InvLog

\* A login ends with an event to write.
LEMMA SospendeBuoni ==
  ASSUME InvLog, NEW r \in Richieste, Attende(r, "password") \/ Attende(r, "lock"), Finisci(r),
         NEW tipo \in Tipo, Sospendi(r, tipo)
  PROVE  /\ SospesiBuoni(sospesi', volo', ora)
         /\ VoloTipato(volo') /\ DOMAIN volo' \subseteq DOMAIN volo
         /\ r \notin DOMAIN sospesi
         /\ volo[r].email \in Email /\ volo[r] \in InVolo
<1>1. /\ DOMAIN volo' = DOMAIN volo \ {r} /\ VoloTipato(volo')
  BY PassatiFinisci DEF Finisci, InvLog, Senza, Restrict
<1>2. r \in DOMAIN volo
  BY DEF Attende
<1>3. PICK x : x = [tipo |-> tipo, quando |-> 0] /\ sospesi' = Con(sospesi, r, x)
  BY DEF Sospendi
<1>4. /\ DOMAIN sospesi' = DOMAIN sospesi \cup {r} /\ sospesi'[r] = x
      /\ \A q \in DOMAIN sospesi : q # r => sospesi'[q] = sospesi[q]
  BY <1>3 DEF Con
<1>5. x \in [tipo : Tipo, quando : Nat] /\ x.quando = 0
  BY <1>3
<1>6. \A q \in DOMAIN sospesi' : /\ sospesi'[q] \in [tipo : Tipo, quando : Nat]
                                 /\ sospesi'[q].quando <= ora
  BY <1>4, <1>5 DEF InvLog, SospesiBuoni
<1>7. SospesiBuoni(sospesi', volo', ora)
  BY <1>1, <1>4, <1>6 DEF InvLog, SospesiBuoni
<1>8. volo[r].email \in Email /\ volo[r] \in InVolo
  BY <1>2 DEF InvLog, VoloTipato, InVolo
<1> QED BY <1>1, <1>2, <1>7, <1>8 DEF InvLog, SospesiBuoni

\* A wrong password: if it locks the account, its event says so.
LEMMA FallitoTracce ==
  ASSUME InvLog, InvTracce, NEW r \in Richieste, LoginFallito(r)
  PROVE  InvLog' /\ InvTracce'
<1>1. PICK e, n, tipo : /\ e = volo[r].email /\ n = EntryDi(e)
                        /\ tipo = IF ChiudeConto(e) THEN "LOGIN_LOCKED" ELSE "LOGIN_FAILED"
  OBVIOUS
<1>2. /\ Attende(r, "password") /\ Finisci(r) /\ Sospendi(r, tipo)
      /\ UNCHANGED <<ora, eventi, persi>>
      /\ entries' = IF ora < n.lockedUntil THEN entries ELSE Con(entries, e, Conta(n))
      /\ verifiche' = [verifiche EXCEPT ![e] = Segnata(verifiche[e])]
  BY <1>1 DEF LoginFallito, RecordFailure
<1>3. tipo \in Tipo /\ tipo # "ALTRO"
  BY <1>1 DEF Tipo
<1>4. /\ SospesiBuoni(sospesi', volo', ora) /\ VoloTipato(volo')
      /\ DOMAIN volo' \subseteq DOMAIN volo /\ r \notin DOMAIN sospesi /\ e \in Email
  BY <1>1, <1>2, <1>3, SospendeBuoni
<1>5. ora \in Nat /\ FinestraLock \in Nat /\ MaxTentativi \in Nat
  BY AccessiAssumption DEF InvLog
<1>6. /\ n \in Entry /\ n.lockedUntil <= ora + FinestraLock
      /\ \/ n.lockedUntil = 0
         \/ e \in DOMAIN entries /\ n.lockedUntil = entries[e].lockedUntil
  <2>1. CASE e \in DOMAIN entries /\ ora - entries[e].windowStart <= FinestraLock
    BY <1>1, <2>1 DEF EntryDi, InvLog, EntryBuona
  <2>2. CASE ~(e \in DOMAIN entries /\ ora - entries[e].windowStart <= FinestraLock)
    <3>1. n = NuovaEntry(ora)
      BY <1>1, <2>2 DEF EntryDi
    <3> QED BY <3>1, <1>5 DEF NuovaEntry, Entry
  <2> QED BY <2>1, <2>2
<1>7. PICK m : m = Conta(n)
  OBVIOUS
<1>8. /\ m \in Entry
      /\ m.lockedUntil = IF n.count + 1 >= MaxTentativi THEN ora + FinestraLock
                                                        ELSE n.lockedUntil
  BY <1>5, <1>6, <1>7, ContaCampi
<1>9. EntryBuona(m, ora)
  BY <1>5, <1>6, <1>8 DEF EntryBuona
<1>11. PICK y : /\ y = [quando |-> ora, n |-> Cardinality(verifiche[e]) + 1]
                /\ Segnata(verifiche[e]) = verifiche[e] \cup {y}
  BY DEF Segnata
<1>12. y.quando = ora
  BY <1>11
<1>13. Storia(verifiche[e] \cup {y}, ora)
  BY <1>4, <1>5, <1>12, UnoInPiu DEF InvLog, Storia
<1>14. /\ DOMAIN entries' \subseteq DOMAIN entries \cup {e}
       /\ \A x \in DOMAIN entries' : \/ x \in DOMAIN entries /\ entries'[x] = entries[x]
                                     \/ ora >= n.lockedUntil /\ entries'[x] = m
  BY <1>2, <1>5, <1>6, <1>7 DEF Con, Entry
<1>15. InvLog'
  BY <1>2, <1>4, <1>9, <1>11, <1>13, <1>14, LogUno
<1>16. ASSUME ora >= n.lockedUntil, m.lockedUntil # n.lockedUntil
       PROVE  tipo = "LOGIN_LOCKED"
  <2>1. m.lockedUntil > ora
    BY <1>5, <1>8, <1>16, AccessiAssumption
  <2>2. ChiudeConto(e)
    BY <1>1, <1>7, <2>1 DEF ChiudeConto
  <2> QED BY <1>1, <2>2
<1>17. ASSUME NEW x \in DOMAIN entries'
       PROVE  \/ entries'[x].lockedUntil = 0
              \/ x \in DOMAIN entries /\ entries'[x].lockedUntil = entries[x].lockedUntil
              \/ tipo = "LOGIN_LOCKED"
  <2>1. CASE ora < n.lockedUntil
    BY <1>2, <2>1
  <2>2. CASE ~(ora < n.lockedUntil)
    <3>1. ora >= n.lockedUntil /\ entries' = Con(entries, e, m)
      BY <1>2, <1>5, <1>6, <1>7, <2>2 DEF Entry
    <3>2. x # e => x \in DOMAIN entries /\ entries'[x] = entries[x]
      BY <3>1 DEF Con
    <3>3. x = e => entries'[x] = m
      BY <3>1 DEF Con
    <3> QED BY <1>6, <1>16, <3>1, <3>2, <3>3
  <2> QED BY <2>1, <2>2
<1>18. ASSUME NEW x \in Email
       PROVE  \/ verifiche'[x] \subseteq verifiche[x]
              \/ /\ tipo # "ALTRO"
                 /\ \E z : z.quando = ora /\ verifiche'[x] = verifiche[x] \cup {z}
  <2>1. verifiche' = [verifiche EXCEPT ![e] = verifiche[e] \cup {y}] /\ DOMAIN verifiche = Email
    BY <1>2, <1>11 DEF InvLog
  <2>2. CASE x = e
    BY <1>3, <1>4, <1>12, <2>1, <2>2
  <2>3. CASE x # e
    BY <2>1, <2>3
  <2> QED BY <2>2, <2>3
<1>19. InvTracce'
  BY <1>2, <1>3, <1>4, <1>17, <1>18, AccodaTracce
<1> QED BY <1>15, <1>19

\* A login with another mistake, or one that succeeds.
LEMMA NonContaTracce ==
  ASSUME InvLog, InvTracce, NEW r \in Richieste, LoginNonConta(r)
  PROVE  InvLog' /\ InvTracce'
<1>1. /\ Attende(r, "password") /\ Finisci(r) /\ Sospendi(r, "LOGIN_FAILED")
      /\ UNCHANGED <<ora, eventi, persi, entries, verifiche>>
  BY DEF LoginNonConta, NonConta
<1>2. "LOGIN_FAILED" \in Tipo
  BY DEF Tipo
<1>3. /\ SospesiBuoni(sospesi', volo', ora) /\ VoloTipato(volo') /\ r \notin DOMAIN sospesi
  BY <1>1, <1>2, SospendeBuoni
<1>4. InvLog'
  BY <1>1, <1>3 DEF InvLog
<1>5. InvTracce'
  BY <1>1, <1>2, <1>3, AccodaTracce
<1> QED BY <1>4, <1>5

LEMMA RiuscitoTracce ==
  ASSUME InvLog, InvTracce, NEW r \in Richieste, LoginRiuscito(r)
  PROVE  InvLog' /\ InvTracce'
<1>1. PICK e : e = volo[r].email
  OBVIOUS
<1>2. /\ Attende(r, "password") /\ Finisci(r) /\ Sospendi(r, "ALTRO")
      /\ UNCHANGED <<ora, eventi, persi>>
      /\ entries' = Senza(entries, e) /\ verifiche' = [verifiche EXCEPT ![e] = {}]
  BY <1>1 DEF LoginRiuscito, Clear
<1>3. "ALTRO" \in Tipo
  BY DEF Tipo
<1>4. /\ SospesiBuoni(sospesi', volo', ora) /\ VoloTipato(volo')
      /\ DOMAIN volo' \subseteq DOMAIN volo /\ r \notin DOMAIN sospesi /\ e \in Email
  BY <1>1, <1>2, <1>3, SospendeBuoni
<1>5. /\ DOMAIN entries' = DOMAIN entries \ {e}
      /\ \A x \in DOMAIN entries : x # e => entries'[x] = entries[x]
  BY <1>2 DEF Senza, Restrict
<1>6. Storia({}, ora)
  BY FS_EmptySet DEF Storia
<1>7. InvLog'
  BY <1>2, <1>4, <1>5, <1>6, LogUno
<1>8. \A x \in Email : verifiche'[x] \subseteq verifiche[x]
  BY <1>2 DEF InvLog
<1>9. InvTracce'
  BY <1>2, <1>3, <1>4, <1>5, <1>8, AccodaTracce
<1> QED BY <1>7, <1>9

\* A login that arrives.
LEMMA ArrivaTracce ==
  ASSUME InvLog, InvTracce, NEW r \in Richieste, NEW e \in Email, LoginArriva(r, e)
  PROVE  InvLog' /\ InvTracce'
<1>1. /\ Libera(r) /\ volo' = Con(volo, r, [passo |-> "lock", email |-> e])
      /\ r \notin DOMAIN sospesi
      /\ UNCHANGED <<ora, entries, verifiche, eventi, sospesi, persi>>
  BY DEF LoginArriva, ArrivaSenzaLimite
<1>2. VoloTipato(volo')
  BY <1>1, PassatiArriva DEF InvLog
<1>3. DOMAIN volo' = DOMAIN volo \cup {r}
  BY <1>1 DEF Con
<1>4. SospesiBuoni(sospesi', volo', ora)
  BY <1>1, <1>3 DEF InvLog, SospesiBuoni
<1>5. InvLog'
  BY <1>1, <1>2, <1>4 DEF InvLog
<1> QED BY <1>1, <1>5 DEF InvTracce

\* A login without an e-mail is about to write its event.
LEMMA SenzaEmailTracce ==
  ASSUME InvLog, InvTracce, NEW r \in Richieste, LoginSenzaEmail(r)
  PROVE  InvLog' /\ InvTracce'
<1>1. /\ r \notin DOMAIN volo /\ r \notin DOMAIN sospesi
      /\ Sospendi(r, "LOGIN_FAILED") /\ UNCHANGED <<vars, eventi, persi>>
  BY DEF LoginSenzaEmail, Libera
<1>2. SospesiBuoni(sospesi', volo, ora)
  <2>1. /\ DOMAIN sospesi' = DOMAIN sospesi \cup {r}
        /\ \A x \in DOMAIN sospesi : sospesi'[x] = sospesi[x]
        /\ sospesi'[r] = [tipo |-> "LOGIN_FAILED", quando |-> 0]
    BY <1>1 DEF Sospendi, Con
  <2> QED BY <1>1, <2>1 DEF InvLog, SospesiBuoni, Tipo
<1>3. InvLog'
  BY <1>1, <1>2 DEF InvLog, vars, VoloTipato
<1>4. InvTracce'
  BY <1>1, AccodaTracce DEF vars, InvLog, Tipo
<1> QED BY <1>3, <1>4

\* A login asks the tracker; a lock that is over is dropped.
LEMMA IsLockedTracce ==
  ASSUME InvLog, InvTracce, NEW r \in Richieste, LoginIsLocked(r)
  PROVE  InvLog' /\ InvTracce'
<1>1. PICK e : e = volo[r].email
  OBVIOUS
<1>2. /\ Attende(r, "lock") /\ UNCHANGED <<ora, verifiche, eventi, persi>>
      /\ entries' = entries \/ entries' = Senza(entries, e)
  BY <1>1 DEF LoginIsLocked, IsLocked
<1>3. /\ DOMAIN entries' \subseteq DOMAIN entries
      /\ \A x \in DOMAIN entries' : entries'[x] = entries[x]
  <2>1. CASE entries' = entries
    BY <2>1
  <2>2. CASE entries' = Senza(entries, e)
    <3>1. /\ DOMAIN entries' = DOMAIN entries \ {e}
          /\ \A x \in DOMAIN entries : x # e => entries'[x] = entries[x]
      BY <2>2 DEF Senza, Restrict
    <3> QED BY <3>1
  <2> QED BY <1>2, <2>1, <2>2
<1>4. CASE Bloccata(e)
  <2>1. Finisci(r) /\ Sospendi(r, "LOGIN_LOCKED")
    BY <1>1, <1>4 DEF LoginIsLocked, IsLocked
  <2>2. "LOGIN_LOCKED" \in Tipo
    BY DEF Tipo
  <2>3. /\ SospesiBuoni(sospesi', volo', ora) /\ VoloTipato(volo') /\ r \notin DOMAIN sospesi
    BY <1>2, <2>1, <2>2, SospendeBuoni
  <2>4. InvLog'
    BY <1>2, <1>3, <2>3 DEF InvLog
  <2>5. InvTracce'
    BY <1>2, <1>3, <2>1, <2>2, <2>3, AccodaTracce
  <2> QED BY <2>4, <2>5
<1>5. CASE ~Bloccata(e)
  <2>1. UNCHANGED sospesi /\ volo' = [volo EXCEPT ![r].passo = "password"]
    BY <1>1, <1>5 DEF LoginIsLocked, IsLocked
  <2>2. /\ DOMAIN volo' = DOMAIN volo /\ r \in DOMAIN volo /\ volo[r] \in InVolo
    BY <1>2, <2>1 DEF Attende, InvLog, VoloTipato
  <2>3. [volo[r] EXCEPT !.passo = "password"] \in InVolo
    BY <2>2 DEF InVolo
  <2>4. VoloTipato(volo')
    BY <2>1, <2>2, <2>3 DEF InvLog, VoloTipato
  <2>5. InvLog'
    BY <1>2, <1>3, <2>1, <2>2, <2>4 DEF InvLog, SospesiBuoni
  <2>6. InvTracce'
    BY <1>2, <1>3, <2>1 DEF InvTracce
  <2> QED BY <2>5, <2>6
<1> QED BY <1>4, <1>5

LEMMA TracceIniziali == InitAllarmi => InvLog /\ InvTracce
<1> SUFFICES ASSUME InitAllarmi PROVE InvLog /\ InvTracce
  OBVIOUS
<1>1. /\ ora = 1 /\ DOMAIN volo = {} /\ DOMAIN entries = {} /\ DOMAIN sospesi = {}
      /\ verifiche = [e \in Email |-> {}] /\ eventi = {} /\ persi = FALSE
  BY DEF InitAllarmi, Init, InitLog
<1>2. VoloTipato(volo)
  BY DEF InitAllarmi, Init, VoloTipato
<1>3. Storia({}, ora) /\ LogBuono({})
  BY FS_EmptySet DEF Storia, LogBuono
<1>4. InvLog
  BY <1>1, <1>2, <1>3 DEF InvLog, SospesiBuoni
<1>5. ASSUME NEW e \in Email, NEW t \in Int
      PROVE  Segnalata(verifiche[e], t, eventi, sospesi)
  <2>1. Dal(verifiche[e], t) = {} /\ FallitiScritti(eventi, t) = {}
        /\ FallitiSospesi(sospesi, t) = {}
    BY <1>1 DEF Dal, FallitiScritti, FallitiSospesi
  <2> QED BY <2>1, FS_EmptySet DEF Segnalata
<1>6. InvTracce
  BY <1>1, <1>5 DEF InvTracce
<1> QED BY <1>4, <1>6

LEMMA TraccePasso ==
  InvLog /\ InvTracce /\ [NextAllarmi]_varsAllarmi => (InvLog /\ InvTracce)'
<1> SUFFICES ASSUME InvLog, InvTracce, [NextAllarmi]_varsAllarmi
             PROVE  InvLog' /\ InvTracce'
  OBVIOUS
<1>1. CASE Passa
  BY <1>1, PassaTracce
<1>2. ASSUME NEW r \in Richieste, NEW e \in Email, LoginArriva(r, e)
      PROVE  InvLog' /\ InvTracce'
  BY <1>2, ArrivaTracce
<1>3. ASSUME NEW r \in Richieste,
             \/ LoginIsLocked(r) \/ LoginFallito(r) \/ LoginNonConta(r) \/ LoginRiuscito(r)
      PROVE  InvLog' /\ InvTracce'
  BY <1>3, IsLockedTracce, FallitoTracce, NonContaTracce, RiuscitoTracce
<1>4. ASSUME NEW r \in Richieste, AddMemory(r)
      PROVE  InvLog' /\ InvTracce'
  BY <1>4, ScritturaTracce DEF AddMemory, InvLog
<1>5. ASSUME NEW r \in Richieste, AddInserisce(r)
      PROVE  InvLog' /\ InvTracce'
  <2>1. PICK q \in Nat : q = sospesi[r].quando
    BY <1>5 DEF AddInserisce, InvLog, SospesiBuoni
  <2> QED BY <1>5, <2>1, ScritturaTracce DEF AddInserisce
<1>6. ASSUME NEW r \in Richieste, AddTimbra(r) \/ AddFallisce(r)
      PROVE  InvLog' /\ InvTracce'
  BY <1>6, TimbraTracce, FallisceTracce
<1>7. CASE AltroEvento
  BY <1>7, AltroTracce
<1>8. CASE UNCHANGED <<vars, eventi, sospesi, persi>>
  BY <1>8 DEF vars, InvLog, InvTracce, VoloTipato
<1>9. Apre \/ Battito \/ Chiude => UNCHANGED <<vars, eventi, sospesi, persi>>
  BY DEF Apre, Battito, Chiude
<1>10. ASSUME NEW r \in Richieste, LoginSenzaEmail(r)
       PROVE  InvLog' /\ InvTracce'
  BY <1>10, SenzaEmailTracce
<1> QED BY <1>1, <1>2, <1>3, <1>4, <1>5, <1>6, <1>7, <1>8, <1>9, <1>10
        DEF NextAllarmi, varsAllarmi, Scrive

\* Under both stores and whatever the limit of a list, an account that is
\* locked shows in an alarm whose list is whole: its event has been written, and
\* no lock lasts longer than the window that the alarm looks back.
THEOREM BloccoSegnalatoAllarmi == SpecAllarmi => []BloccoSegnalato
<1> QED BY TracceIniziali, TraccePasso, BloccoDaInv, PTL DEF SpecAllarmi

\* As many wrong passwords as the threshold show in such an alarm: each of them,
\* however logins overlap, wrote an event of its own.
THEOREM TentativiSegnalatiAllarmi == SpecAllarmi => []TentativiSegnalati
<1> QED BY TracceIniziali, TraccePasso, TentativiDaInv, PTL DEF SpecAllarmi

-----------------------------------------------------------------------------
(* The types of the log and of the stream.  The number of an event needs   *)
(* to know that the log keeps room for the events of all logins.           *)

InAttesaDi(v, so) == DOMAIN v \cup DOMAIN so

Spazio(ev, v, so) ==
  /\ IsFiniteSet(InAttesaDi(v, so))
  /\ Cardinality(ev) + Cardinality(InAttesaDi(v, so)) <= MaxEventi

TipiLog ==
  /\ store \in {"memory", "mongo"}
  /\ eventi \subseteq SecurityEvent
  /\ Mappa(sospesi, Richieste \ DOMAIN volo, Sospeso)
  /\ mostrato \in Snapshot \cup {Chiuso}
  /\ persi \in BOOLEAN
  /\ Spazio(eventi, volo, sospesi)

LEMMA TypeAllarmiDaInv == TipiAccessi /\ TipiLog => TypeAllarmi
<1> SUFFICES ASSUME TipiAccessi, TipiLog PROVE TypeAllarmi
  OBVIOUS
<1>1. TypeOK
  BY TipiAccessiTypeOK
<1> QED BY <1>1 DEF TipiLog, Mappa, TypeAllarmi

\* What the stream shows of a list.
LEMMA MostraSnapshot ==
  ASSUME LogBuono(eventi), NEW lista \in Letture
  PROVE  SnapshotDi(lista) \in Snapshot
<1>1. /\ Quanti(lista, "LOGIN_FAILED") \in Nat
      /\ Quanti(lista, "LOGIN_LOCKED") \in Nat
  BY QuantiNaturali
<1>2. PICK f \in Nat, b \in Nat : /\ f = Quanti(lista, "LOGIN_FAILED")
                                 /\ b = Quanti(lista, "LOGIN_LOCKED")
  BY <1>1
<1>3. Gravita(f, b) \in {"ok", "warning", "critical"}
  BY DEF Gravita
<1> QED BY <1>2, <1>3 DEF SnapshotDi, Snapshot

\* A login moves from its password to its event, or to nothing.
LEMMA SpazioResta ==
  ASSUME NEW ev, NEW v, NEW so, NEW w, NEW to, Spazio(ev, v, so), IsFiniteSet(ev),
         InAttesaDi(w, to) \subseteq InAttesaDi(v, so)
  PROVE  Spazio(ev, w, to)
<1>1. /\ IsFiniteSet(InAttesaDi(w, to))
      /\ Cardinality(InAttesaDi(w, to)) \in Nat
      /\ Cardinality(InAttesaDi(v, so)) \in Nat
      /\ Cardinality(InAttesaDi(w, to)) <= Cardinality(InAttesaDi(v, so))
  BY ParteFinita DEF Spazio
<1>2. Cardinality(ev) \in Nat
  BY FS_CardinalityType
<1> QED BY <1>1, <1>2, AllarmiAssumption DEF Spazio

\* An event of the log, while the log has room for it.
LEMMA EventoTipato ==
  ASSUME eventi \subseteq SecurityEvent, IsFiniteSet(eventi),
         Cardinality(eventi) < MaxEventi, NEW tipo \in Tipo, NEW q \in Ore,
         Aggiungi(tipo, q)
  PROVE  /\ eventi' \subseteq SecurityEvent
         /\ IsFiniteSet(eventi')
         /\ Cardinality(eventi') \in Nat
         /\ Cardinality(eventi') <= Cardinality(eventi) + 1
<1>1. PICK u : u = {e \in eventi : e.tipo = tipo /\ e.quando = q}
  OBVIOUS
<1>2. /\ Cardinality(u) \in Nat /\ Cardinality(eventi) \in Nat
      /\ Cardinality(u) <= Cardinality(eventi)
  BY <1>1, ParteFinita
<1>3. PICK x : x = [tipo |-> tipo, quando |-> q, n |-> Cardinality(u) + 1]
  OBVIOUS
<1>4. eventi' = eventi \cup {x}
  BY <1>1, <1>3 DEF Aggiungi
<1>5. Cardinality(u) + 1 \in 1..MaxEventi
  BY <1>2, AllarmiAssumption
<1>6. x \in SecurityEvent
  BY <1>3, <1>5 DEF SecurityEvent
<1> QED BY <1>4, <1>6, UnoInPiu

\* A login with an event on its way is one the log keeps room for.
LEMMA PostoLibero ==
  ASSUME Spazio(eventi, volo, sospesi), IsFiniteSet(eventi),
         NEW r, r \in InAttesaDi(volo, sospesi)
  PROVE  Cardinality(eventi) < MaxEventi
<1>1. PICK A : A = InAttesaDi(volo, sospesi)
  OBVIOUS
<1>2. IsFiniteSet(A) /\ Cardinality(A) \in Nat /\ Cardinality(A) # 0
  BY <1>1, FS_CardinalityType, FS_EmptySet DEF Spazio
<1>3. Cardinality(eventi) \in Nat /\ MaxEventi \in Nat
  BY FS_CardinalityType, AllarmiAssumption
<1> QED BY <1>1, <1>2, <1>3 DEF Spazio

\* The event of login r is written.
LEMMA ScrittoTipato ==
  ASSUME TipiAccessi, TipiLog, InvLog, NEW r \in DOMAIN sospesi, NEW q \in Ore,
         Aggiungi(sospesi[r].tipo, q), sospesi' = Senza(sospesi, r),
         UNCHANGED <<volo, store, mostrato, persi>>
  PROVE  TipiLog'
<1>1. sospesi[r].tipo \in Tipo /\ r \notin DOMAIN volo /\ IsFiniteSet(eventi)
  BY DEF TipiLog, Mappa, Sospeso, InvLog, LogBuono
<1>2. r \in InAttesaDi(volo, sospesi)
  BY DEF InAttesaDi
<1>3. Cardinality(eventi) < MaxEventi
  BY <1>1, <1>2, PostoLibero DEF TipiLog
<1>4. /\ eventi' \subseteq SecurityEvent /\ IsFiniteSet(eventi')
      /\ Cardinality(eventi') \in Nat /\ Cardinality(eventi') <= Cardinality(eventi) + 1
  BY <1>1, <1>3, EventoTipato DEF TipiLog
<1>5. Mappa(sospesi', Richieste \ DOMAIN volo, Sospeso)
  BY MappaSenza DEF TipiLog
<1>6. InAttesaDi(volo, sospesi') = InAttesaDi(volo, sospesi) \ {r}
  BY <1>1 DEF InAttesaDi, Senza, Restrict
<1>7. Spazio(eventi', volo, sospesi')
  <2>1. PICK A : A = InAttesaDi(volo, sospesi)
    OBVIOUS
  <2>2. /\ IsFiniteSet(A \ {r}) /\ Cardinality(A \ {r}) = Cardinality(A) - 1
        /\ Cardinality(A) \in Nat
    BY <1>2, <2>1, FS_RemoveElement, FS_CardinalityType DEF TipiLog, Spazio
  <2>3. Cardinality(eventi) \in Nat /\ Cardinality(eventi) + Cardinality(A) <= MaxEventi
    BY <1>1, <2>1, FS_CardinalityType DEF TipiLog, Spazio
  <2>4. Cardinality(eventi') + Cardinality(A \ {r}) <= MaxEventi
    BY <1>4, <2>2, <2>3, AllarmiAssumption
  <2> QED BY <1>6, <2>1, <2>2, <2>4 DEF Spazio
<1> QED BY <1>4, <1>5, <1>7 DEF TipiLog

\* The event of a login is on its way.
LEMMA SospesoTipato ==
  ASSUME TipiAccessi, TipiLog, InvLog, NEW r \in DOMAIN volo, NEW tipo \in Tipo,
         Sospendi(r, tipo), Finisci(r), UNCHANGED <<store, eventi, mostrato, persi>>
  PROVE  TipiLog'
<1>1. DOMAIN volo' = DOMAIN volo \ {r} /\ r \in Richieste
  BY DEF Finisci, Senza, Restrict, TipiAccessi, Mappa
<1>2. [tipo |-> tipo, quando |-> 0] \in Sospeso
  BY DEF Sospeso
<1>3. Mappa(sospesi, Richieste \ DOMAIN volo', Sospeso)
  BY <1>1 DEF TipiLog, Mappa
<1>4. Mappa(sospesi', Richieste \ DOMAIN volo', Sospeso)
  BY <1>1, <1>2, <1>3, MappaCon DEF Sospendi
<1>5. InAttesaDi(volo', sospesi') \subseteq InAttesaDi(volo, sospesi)
  BY <1>1 DEF InAttesaDi, Sospendi, Con
<1>6. Spazio(eventi', volo', sospesi')
  BY <1>5, SpazioResta DEF TipiLog, InvLog, LogBuono
<1> QED BY <1>4, <1>6 DEF TipiLog

LEMMA LogPasso ==
  ASSUME TipiAccessi, TipiLog, InvLog, [NextAllarmi]_varsAllarmi
  PROVE  TipiLog'
<1> USE DEF TipiLog
<1>0. IsFiniteSet(eventi)
  BY DEF InvLog, LogBuono
<1>1. CASE UNCHANGED <<volo, store, eventi, sospesi, mostrato, persi>>
  BY <1>1
<1>2. ASSUME UNCHANGED store, NEW r \in Richieste, NEW e \in Email, LoginArriva(r, e)
      PROVE  TipiLog'
  <2>1. DOMAIN volo' = DOMAIN volo \cup {r}
    BY <1>2 DEF LoginArriva, ArrivaSenzaLimite, Con
  <2>2. Mappa(sospesi', Richieste \ DOMAIN volo', Sospeso)
    BY <1>2, <2>1 DEF LoginArriva, Mappa
  <2>3. InAttesaDi(volo', sospesi') = InAttesaDi(volo, sospesi) \cup {r}
    BY <1>2, <2>1 DEF LoginArriva, InAttesaDi
  <2>4. Spazio(eventi, volo', sospesi')
    <3>1. PICK A : A = InAttesaDi(volo, sospesi)
      OBVIOUS
    <3>2. /\ IsFiniteSet(A \cup {r}) /\ Cardinality(A \cup {r}) \in Nat
          /\ Cardinality(A) \in Nat
          /\ Cardinality(A \cup {r}) <= Cardinality(A) + 1
      BY <3>1, UnoInPiu DEF Spazio
    <3>3. Cardinality(eventi) \in Nat /\ Cardinality(eventi) + Cardinality(A) < MaxEventi
      BY <1>0, <1>2, <3>1, FS_CardinalityType DEF LoginArriva, InAttesaDi
    <3> QED BY <2>3, <3>1, <3>2, <3>3, AllarmiAssumption DEF Spazio
  <2> QED BY <1>2, <2>2, <2>4 DEF LoginArriva
<1>3. ASSUME UNCHANGED store, NEW r \in Richieste, LoginIsLocked(r)
      PROVE  TipiLog'
  <2>1. r \in DOMAIN volo /\ UNCHANGED <<eventi, mostrato, persi>>
    BY <1>3 DEF LoginIsLocked, IsLocked, Attende
  <2>2. CASE Bloccata(volo[r].email)
    <3>1. Finisci(r) /\ Sospendi(r, "LOGIN_LOCKED")
      BY <1>3, <2>2 DEF LoginIsLocked, IsLocked
    <3>2. "LOGIN_LOCKED" \in Tipo
      BY DEF Tipo
    <3> QED BY <1>3, <2>1, <3>1, <3>2, SospesoTipato
  <2>3. CASE ~Bloccata(volo[r].email)
    <3>1. DOMAIN volo' = DOMAIN volo /\ UNCHANGED sospesi
      BY <1>3, <2>3 DEF LoginIsLocked, IsLocked
    <3> QED BY <1>3, <2>1, <3>1 DEF Spazio, InAttesaDi
  <2> QED BY <2>2, <2>3
<1>4. ASSUME UNCHANGED store, NEW r \in Richieste,
             LoginFallito(r) \/ LoginNonConta(r) \/ LoginRiuscito(r)
      PROVE  TipiLog'
  <2>1. /\ r \in DOMAIN volo /\ Finisci(r) /\ UNCHANGED <<eventi, mostrato, persi>>
        /\ \E tipo \in Tipo : Sospendi(r, tipo)
    BY <1>4 DEF LoginFallito, LoginNonConta, LoginRiuscito, RecordFailure, NonConta, Clear,
                Attende, Tipo
  <2> QED BY <1>4, <2>1, SospesoTipato
<1>5. ASSUME UNCHANGED store, NEW r \in Richieste, AddMemory(r)
      PROVE  TipiLog'
  BY <1>5, ScrittoTipato DEF AddMemory, vars, TipiAccessi
<1>6. ASSUME UNCHANGED store, NEW r \in Richieste, AddInserisce(r)
      PROVE  TipiLog'
  <2>1. r \in DOMAIN sospesi /\ sospesi[r].quando \in Ore
    BY <1>6 DEF AddInserisce, Mappa, Sospeso
  <2> QED BY <1>6, <2>1, ScrittoTipato DEF AddInserisce, vars
<1>7. ASSUME UNCHANGED store, NEW r \in Richieste, AddTimbra(r)
      PROVE  TipiLog'
  <2>1. Mappa(sospesi', Richieste \ DOMAIN volo, Sospeso) /\ DOMAIN sospesi' = DOMAIN sospesi
    BY <1>7 DEF AddTimbra, Mappa, Sospeso, TipiAccessi
  <2> QED BY <1>7, <2>1 DEF AddTimbra, vars, Spazio, InAttesaDi
<1>8. ASSUME UNCHANGED store, NEW r \in Richieste, AddFallisce(r)
      PROVE  TipiLog'
  <2>1. Mappa(sospesi', Richieste \ DOMAIN volo, Sospeso)
    BY <1>8, MappaSenza DEF AddFallisce
  <2>2. InAttesaDi(volo', sospesi') \subseteq InAttesaDi(volo, sospesi)
    BY <1>8 DEF AddFallisce, InAttesaDi, Senza, Restrict, vars
  <2>3. Spazio(eventi, volo', sospesi')
    BY <1>0, <2>2, SpazioResta
  <2> QED BY <1>8, <2>1, <2>3 DEF AddFallisce, vars
<1>9. ASSUME UNCHANGED store, AltroEvento
      PROVE  TipiLog'
  <2>1. PICK A : A = InAttesaDi(volo, sospesi)
    OBVIOUS
  <2>2. Cardinality(eventi) + Cardinality(A) < MaxEventi /\ Cardinality(eventi) \in Nat
        /\ Cardinality(A) \in Nat /\ MaxEventi \in Nat
    BY <1>0, <1>9, <2>1, FS_CardinalityType, AllarmiAssumption
       DEF AltroEvento, InAttesaDi, Spazio
  <2>3. ora \in Ore /\ "ALTRO" \in Tipo
    BY DEF TipiAccessi, Tipo
  <2>4. /\ eventi' \subseteq SecurityEvent /\ Cardinality(eventi') \in Nat
        /\ Cardinality(eventi') <= Cardinality(eventi) + 1
    BY <1>0, <1>9, <2>2, <2>3, EventoTipato DEF AltroEvento
  <2>5. Cardinality(eventi') + Cardinality(A) <= MaxEventi
    BY <2>2, <2>4
  <2>6. Spazio(eventi', volo', sospesi')
    BY <1>9, <2>1, <2>5 DEF AltroEvento, vars, Spazio
  <2> QED BY <1>9, <2>4, <2>6 DEF AltroEvento, vars
<1>10. ASSUME UNCHANGED store, Apre \/ Battito \/ Chiude
       PROVE  TipiLog'
  <2>1. UNCHANGED <<volo, eventi, sospesi, persi>>
    BY <1>10 DEF Apre, Battito, Chiude, vars
  <2>2. ASSUME NEW lista, SnapshotDi(lista) \in Snapshot
        PROVE  DopoBattito(lista) \in Snapshot \cup {Chiuso}
    BY <2>2 DEF DopoBattito
  <2>3. \A lista \in Letture : SnapshotDi(lista) \in Snapshot
    BY MostraSnapshot DEF InvLog
  <2>4. mostrato' \in Snapshot \cup {Chiuso}
    BY <1>10, <2>2, <2>3 DEF Apre, Battito, Chiude
  <2> QED BY <1>10, <2>1, <2>4
<1>11. Passa => UNCHANGED <<volo, eventi, sospesi, mostrato, persi>>
  BY DEF Passa, Tick
<1>12. ASSUME UNCHANGED store, NEW r \in Richieste, LoginSenzaEmail(r)
       PROVE  TipiLog'
  <2>1. PICK A : A = InAttesaDi(volo, sospesi)
    OBVIOUS
  <2>2. /\ r \in Richieste \ DOMAIN volo
        /\ Cardinality(eventi) + Cardinality(A) < MaxEventi
        /\ Sospendi(r, "LOGIN_FAILED") /\ UNCHANGED <<volo, eventi, mostrato, persi>>
    BY <1>12, <2>1 DEF LoginSenzaEmail, Libera, InAttesaDi, vars
  <2>3. [tipo |-> "LOGIN_FAILED", quando |-> 0] \in Sospeso
    BY DEF Sospeso, Tipo
  <2>4. Mappa(sospesi', Richieste \ DOMAIN volo', Sospeso)
    BY <2>2, <2>3, MappaCon DEF Sospendi
  <2>5. InAttesaDi(volo', sospesi') = A \cup {r}
    BY <2>1, <2>2 DEF InAttesaDi, Sospendi, Con
  <2>6. /\ IsFiniteSet(A \cup {r}) /\ Cardinality(A \cup {r}) \in Nat
        /\ Cardinality(A) \in Nat /\ Cardinality(A \cup {r}) <= Cardinality(A) + 1
        /\ Cardinality(eventi) \in Nat
    BY <1>0, <2>1, UnoInPiu, FS_CardinalityType DEF Spazio
  <2>7. Spazio(eventi', volo', sospesi')
    BY <2>2, <2>5, <2>6, AllarmiAssumption DEF Spazio
  <2> QED BY <1>12, <2>2, <2>4, <2>7
<1> QED BY <1>1, <1>2, <1>3, <1>4, <1>5, <1>6, <1>7, <1>8, <1>9, <1>10, <1>11, <1>12
        DEF NextAllarmi, varsAllarmi, vars, Scrive

LEMMA LogIniziale == InitAllarmi => TipiLog
<1> SUFFICES ASSUME InitAllarmi PROVE TipiLog
  OBVIOUS
<1>1. InAttesaDi(volo, sospesi) = {}
  BY DEF InitAllarmi, Init, InitLog, InAttesaDi
<1>2. Spazio(eventi, volo, sospesi)
  BY <1>1, FS_EmptySet, AllarmiAssumption DEF InitAllarmi, InitLog, Spazio
<1>3. sospesi = << >> /\ store \in {"memory", "mongo"} /\ eventi = {} /\ mostrato = Chiuso
      /\ persi = FALSE
  BY DEF InitAllarmi, InitLog
<1>4. Mappa(sospesi, Richieste \ DOMAIN volo, Sospeso)
  BY <1>3 DEF Mappa
<1> QED BY <1>2, <1>3, <1>4 DEF TipiLog

-----------------------------------------------------------------------------
(* The IP lists and the decision on a client (PolicyIP).                   *)

\* A list: its rules and those that have expired.
Lista(rules, expired) ==
  /\ DOMAIN rules \subseteq Bersagli
  /\ rules \in [DOMAIN rules -> 0..MaxIstante]
  /\ expired \subseteq DOMAIN rules

\* What a decision has found in the block list: a matching rule at least as
\* long as the others, or none if none matches.
Scelto(v) ==
  LET B == Policy!Toccano(v.bloccati, v.cliente) IN
  /\ v.blocco = Policy!Nessuno <=> B = {}
  /\ v.blocco # Policy!Nessuno => v.blocco \in B /\ Policy!PiuLungo(v.blocco, B)

InVoloIP(flight) ==
  /\ DOMAIN flight \subseteq Gestori
  /\ flight \in [DOMAIN flight -> Policy!InVolo]
  /\ \A r \in DOMAIN flight : flight[r].passo = "ammessi" => Scelto(flight[r])

InvIP ==
  /\ regole \in [Policy!Liste -> Range(regole)]
  /\ scadute \in [Policy!Liste -> Range(scadute)]
  /\ \A l \in Policy!Liste : Lista(regole[l], scadute[l])
  /\ oraIP \in 0..MaxIstante
  /\ InVoloIP(voloIP)

LEMMA InvTypeOKIP == Policy!PolicyAssumption /\ InvIP => Policy!TypeOK
BY DEF InvIP, Lista, InVoloIP, Policy!TypeOK

-----------------------------------------------------------------------------
(* One list, or one handler, changes.                                      *)

LEMMA ListaCambia ==
  ASSUME InvIP, NEW l \in Policy!Liste, NEW f, NEW e, Lista(f, e),
         Policy!Mutata(l, f), scadute' = [scadute EXCEPT ![l] = e],
         oraIP' \in 0..MaxIstante, InVoloIP(voloIP')
  PROVE  InvIP'
<1>1. /\ regole' = [x \in Policy!Liste |-> IF x = l THEN f ELSE regole[x]]
      /\ scadute' = [x \in Policy!Liste |-> IF x = l THEN e ELSE scadute[x]]
  BY DEF InvIP, Policy!Mutata
<1>2. \A x \in Policy!Liste : Lista(regole'[x], scadute'[x])
  BY <1>1 DEF InvIP
<1>3. /\ regole' \in [Policy!Liste -> Range(regole')]
      /\ scadute' \in [Policy!Liste -> Range(scadute')]
  BY <1>1 DEF Range
<1> QED BY <1>2, <1>3 DEF InvIP

LEMMA ListaMutata ==
  ASSUME InvIP, NEW l \in Policy!Liste, NEW f, NEW e, Lista(f, e),
         Policy!Mutata(l, f), scadute' = [scadute EXCEPT ![l] = e],
         UNCHANGED <<oraIP, voloIP>>
  PROVE  InvIP'
<1>1. oraIP' \in 0..MaxIstante /\ InVoloIP(voloIP')
  BY DEF InvIP
<1> QED BY <1>1, ListaCambia

\* A rule is removed.
LEMMA TogliePiu ==
  ASSUME NEW f, NEW e, Lista(f, e), NEW b
  PROVE  Lista(Policy!Senza(f, b), e \ {b})
BY DEF Lista, Policy!Senza, Policy!Restrict

\* The expired rules are dropped.
LEMMA PuliscePiu ==
  ASSUME NEW f, NEW e, Lista(f, e)
  PROVE  Lista(Policy!Restrict(f, DOMAIN f \ e), {})
BY DEF Lista, Policy!Restrict

LEMMA SegueIP ==
  ASSUME InVoloIP(voloIP), NEW r \in Gestori, NEW v \in Policy!InVolo,
         v.passo = "ammessi" => Scelto(v), Policy!Segue(r, v)
  PROVE  InVoloIP(voloIP')
BY DEF InVoloIP, Policy!Segue, Policy!Con

LEMMA FinisciIP ==
  ASSUME InVoloIP(voloIP), NEW r, Policy!Finisci(r)
  PROVE  InVoloIP(voloIP')
BY DEF InVoloIP, Policy!Finisci, Policy!Senza, Policy!Restrict

-----------------------------------------------------------------------------
(* The actions.                                                            *)

LEMMA UpsertIP ==
  ASSUME InvIP, NEW l \in Policy!Liste, NEW b \in Bersagli, NEW t \in 0..MaxIstante,
         Policy!Upsert(l, b, t)
  PROVE  InvIP'
<1> DEFINE f == Policy!Con(regole[l], b, t)
           e == scadute[l] \ {b}
<1>1. Lista(f, e)
  BY DEF InvIP, Lista, Policy!Con
<1>2. /\ Policy!Mutata(l, f) /\ scadute' = [scadute EXCEPT ![l] = e]
      /\ oraIP' = t /\ voloIP' = voloIP
  BY DEF Policy!Upsert, InvIP
<1>3. InVoloIP(voloIP')
  BY <1>2 DEF InvIP
<1> QED BY <1>1, <1>2, <1>3, ListaCambia

LEMMA RemoveIP ==
  ASSUME InvIP, NEW l \in Policy!Liste, NEW b, Policy!Remove(l, b)
  PROVE  InvIP'
<1> DEFINE f == Policy!Senza(regole[l], b)
           e == scadute[l] \ {b}
<1>1. Lista(f, e)
  BY TogliePiu DEF InvIP
<1>2. /\ Policy!Mutata(l, f) /\ scadute' = [scadute EXCEPT ![l] = e]
      /\ UNCHANGED <<oraIP, voloIP>>
  BY DEF Policy!Remove, Policy!Toglie, InvIP
<1> QED BY <1>1, <1>2, ListaMutata

LEMMA ScadeIP ==
  ASSUME InvIP, NEW l \in Policy!Liste, NEW b, Policy!Scade(l, b)
  PROVE  InvIP'
<1> DEFINE e == scadute[l] \cup {b}
<1>1. Lista(regole[l], e)
  BY DEF InvIP, Lista, Policy!Scade
<1>2. /\ Policy!Mutata(l, regole[l]) /\ scadute' = [scadute EXCEPT ![l] = e]
      /\ UNCHANGED <<oraIP, voloIP>>
  BY DEF Policy!Scade, Policy!Mutata, InvIP
<1> QED BY <1>1, <1>2, ListaMutata

\* A list is read: the expired rules go, or stay, and the handler goes on.
LEMMA PulisceIP ==
  ASSUME InvIP, NEW l \in Policy!Liste, Policy!Pulisce(l), UNCHANGED oraIP,
         InVoloIP(voloIP')
  PROVE  InvIP'
<1> DEFINE f == Policy!Restrict(regole[l], Policy!Valide(l))
<1>1. Lista(f, {})
  BY PuliscePiu DEF InvIP, Policy!Valide
<1>2. CASE Policy!Mutata(l, f) /\ scadute' = [scadute EXCEPT ![l] = {}]
  <2>1. oraIP' \in 0..MaxIstante
    BY DEF InvIP
  <2> QED BY <1>1, <1>2, <2>1, ListaCambia
<1>3. CASE UNCHANGED <<regole, scadute>>
  BY <1>3 DEF InvIP
<1> QED BY <1>2, <1>3 DEF Policy!Pulisce

\* What the code may choose in a list is a longest matching rule of it.
LEMMA SceltaPiuLunga ==
  ASSUME Policy!PolicyAssumption, NEW l, NEW lette, lette \subseteq Bersagli,
         NEW c, NEW m \in Policy!Scelta(l, lette, c)
  PROVE  LET A == Policy!Toccano(lette, c) IN
         /\ m = Policy!Nessuno <=> A = {}
         /\ m # Policy!Nessuno => m \in A /\ Policy!PiuLungo(m, A)
<1> DEFINE A == Policy!Toccano(lette, c)
<1>1. CASE A = {}
  BY <1>1 DEF Policy!Scelta
<1>2. CASE A # {}
  <2>1. m \in A /\ \A a \in A : Prefisso[a] < Prefisso[m] \/ Prefisso[a] = Prefisso[m]
    BY <1>2 DEF Policy!Scelta, Policy!Migliori
  <2>2. A \subseteq Bersagli
    BY DEF Policy!Toccano
  <2>3. \A a \in A : Prefisso[a] \in Nat
    BY <2>2 DEF Policy!PolicyAssumption
  <2>4. Policy!PiuLungo(m, A)
    BY <2>1, <2>3 DEF Policy!PiuLungo
  <2>5. m # Policy!Nessuno
    BY <2>1, <2>2 DEF Policy!PolicyAssumption
  <2> QED BY <1>2, <2>1, <2>4, <2>5
<1> QED BY <1>1, <1>2

LEMMA LettureIP ==
  ASSUME InvIP, NEW l \in Policy!Liste, NEW lette \in Policy!Letture(l)
  PROVE  lette \subseteq Bersagli
BY DEF InvIP, Lista, Policy!Letture, Policy!Valide

LEMMA ValutaBlockedIP ==
  ASSUME Policy!PolicyAssumption, InvIP, NEW r \in Gestori, NEW c \in Clienti,
         NEW lette, NEW m \in Bersagli \cup {Policy!Nessuno},
         Policy!ValutaBlocked(r, c, lette, m)
  PROVE  InvIP'
<1> DEFINE v == [passo |-> "ammessi", cliente |-> c, bloccati |-> lette,
                 blocco |-> m, lista |-> "allow", resto |-> {}]
<1>1. /\ lette \in Policy!Letture("block") /\ m \in Policy!Scelta("block", lette, c)
      /\ Policy!Pulisce("block")
      /\ Policy!Segue(r, v) /\ UNCHANGED oraIP
  BY DEF Policy!ValutaBlocked
<1>2. "block" \in Policy!Liste /\ "allow" \in Policy!Liste
  BY DEF Policy!Liste
<1>3. lette \subseteq Bersagli
  BY <1>1, <1>2, LettureIP
<1>4. v \in Policy!InVolo
  BY <1>2, <1>3 DEF Policy!InVolo
<1>5. Scelto(v)
  BY <1>1, <1>3, SceltaPiuLunga DEF Scelto
<1> HIDE DEF v
<1>6. InVoloIP(voloIP')
  BY <1>1, <1>4, <1>5, SegueIP DEF InvIP
<1> QED BY <1>1, <1>2, <1>6, PulisceIP

LEMMA ValutaAllowedIP ==
  ASSUME InvIP, NEW r, Policy!ValutaAllowed(r)
  PROVE  InvIP'
<1>1. Policy!Finisci(r) /\ Policy!Pulisce("allow") /\ UNCHANGED oraIP
  BY DEF Policy!ValutaAllowed
<1>2. InVoloIP(voloIP')
  BY <1>1, FinisciIP DEF InvIP
<1> QED BY <1>1, <1>2, PulisceIP DEF Policy!Liste

LEMMA BulkListIP ==
  ASSUME InvIP, NEW r \in Gestori, NEW l \in Policy!Liste, Policy!BulkList(r, l)
  PROVE  InvIP'
<1>0. PICK lette \in Policy!Letture(l) :
        Policy!Segue(r, [passo |-> "bulk", cliente |-> Policy!Nessuno, bloccati |-> {},
                         blocco |-> Policy!Nessuno, lista |-> l, resto |-> lette])
  BY DEF Policy!BulkList
<1> DEFINE v == [passo |-> "bulk", cliente |-> Policy!Nessuno, bloccati |-> {},
                 blocco |-> Policy!Nessuno, lista |-> l, resto |-> lette]
<1>1. Policy!Pulisce(l) /\ Policy!Segue(r, v) /\ UNCHANGED oraIP
  BY <1>0 DEF Policy!BulkList
<1>2. v \in Policy!InVolo /\ v.passo = "bulk"
  BY LettureIP DEF Policy!InVolo
<1> HIDE DEF v
<1>3. InVoloIP(voloIP')
  BY <1>1, <1>2, SegueIP DEF InvIP
<1> QED BY <1>1, <1>3, PulisceIP

LEMMA BulkRemoveIP ==
  ASSUME InvIP, NEW r \in Gestori, NEW b, Policy!BulkRemove(r, b)
  PROVE  InvIP'
<1> DEFINE l == voloIP[r].lista
           v == [voloIP[r] EXCEPT !.resto = @ \ {b}]
           f == Policy!Senza(regole[l], b)
           e == scadute[l] \ {b}
<1>1. /\ r \in DOMAIN voloIP /\ voloIP[r].passo = "bulk"
      /\ Policy!Toglie(l, b) /\ Policy!Segue(r, v) /\ UNCHANGED oraIP
  BY DEF Policy!BulkRemove, Policy!Attende
<1>2. voloIP[r] \in Policy!InVolo
  BY <1>1 DEF InvIP, InVoloIP
<1>3. v \in Policy!InVolo /\ v.passo = "bulk" /\ l \in Policy!Liste
  BY <1>1, <1>2 DEF Policy!InVolo
<1> HIDE DEF v
<1>4. InVoloIP(voloIP')
  BY <1>1, <1>3, SegueIP DEF InvIP
<1> HIDE DEF l
<1>5. Lista(f, e)
  BY <1>3, TogliePiu DEF InvIP
<1>6. /\ Policy!Mutata(l, f) /\ scadute' = [scadute EXCEPT ![l] = e]
      /\ oraIP' \in 0..MaxIstante
  BY <1>1 DEF Policy!Toglie, InvIP
<1> QED BY <1>3, <1>4, <1>5, <1>6, ListaCambia

LEMMA NextIP ==
  Policy!PolicyAssumption /\ InvIP /\ [Policy!Next]_Policy!vars => InvIP'
<1> SUFFICES ASSUME Policy!PolicyAssumption, InvIP, [Policy!Next]_Policy!vars
             PROVE  InvIP'
  OBVIOUS
<1>1. CASE UNCHANGED Policy!vars
  BY <1>1 DEF Policy!vars, InvIP
<1>2. ASSUME NEW l \in Policy!Liste, NEW b \in Bersagli,
             \/ \E t \in 0..MaxIstante : Policy!Upsert(l, b, t)
             \/ Policy!Remove(l, b) \/ Policy!Scade(l, b)
      PROVE  InvIP'
  BY <1>2, UpsertIP, RemoveIP, ScadeIP
<1>3. ASSUME NEW l \in Policy!Liste, Policy!ListIPs(l)
      PROVE  InvIP'
  <2>1. InVoloIP(voloIP')
    BY <1>3 DEF Policy!ListIPs, InvIP
  <2> QED BY <1>3, <2>1, PulisceIP DEF Policy!ListIPs
<1>4. ASSUME NEW r \in Gestori, NEW l \in Policy!Liste, Policy!BulkList(r, l)
      PROVE  InvIP'
  BY <1>4, BulkListIP
<1>5. ASSUME NEW r \in Gestori,
             \/ \E c \in Clienti, lette \in SUBSET Bersagli,
                   m \in Bersagli \cup {Policy!Nessuno} :
                  Policy!ValutaBlocked(r, c, lette, m)
             \/ Policy!ValutaAllowed(r)
      PROVE  InvIP'
  BY <1>5, ValutaBlockedIP, ValutaAllowedIP
<1>6. ASSUME NEW r \in Gestori, NEW b \in Bersagli, Policy!BulkRemove(r, b)
      PROVE  InvIP'
  BY <1>6, BulkRemoveIP
<1>7. ASSUME NEW r \in Gestori, Policy!BulkFine(r)
      PROVE  InvIP'
  <2>1. InVoloIP(voloIP')
    BY <1>7, FinisciIP DEF Policy!BulkFine, InvIP
  <2> QED BY <1>7, <2>1 DEF Policy!BulkFine, InvIP
<1> QED BY <1>1, <1>2, <1>3, <1>4, <1>5, <1>6, <1>7 DEF Policy!Next

LEMMA InitIP == Policy!PolicyAssumption /\ Policy!Init => InvIP
<1> SUFFICES ASSUME Policy!PolicyAssumption, Policy!Init PROVE InvIP
  OBVIOUS
<1>1. /\ \A l \in Policy!Liste : Lista(regole[l], scadute[l])
      /\ InVoloIP(voloIP)
  BY DEF Policy!Init, Lista, InVoloIP
<1> QED BY <1>1 DEF Policy!Init, InvIP, Policy!PolicyAssumption, Range

\* Of two best matches, the decision is "block" when the blocked one is at least
\* as long as every matching allow rule, except against an exact allow rule.
LEMMA AzionePrecede ==
  ASSUME Policy!PolicyAssumption, NEW B, NEW A, B \subseteq Bersagli, A \subseteq Bersagli,
         NEW p, p = Policy!Nessuno <=> B = {},
         p # Policy!Nessuno => p \in B /\ Policy!PiuLungo(p, B),
         NEW m, m = Policy!Nessuno <=> A = {},
         m # Policy!Nessuno => m \in A /\ Policy!PiuLungo(m, A)
  PROVE  /\ Policy!Azione(p, m) \in {"block", "allow"}
         /\ Policy!Azione(p, m) = "block" => \E b \in B : Policy!PiuLungo(b, A)
         /\ Policy!Azione(p, m) = "allow" =>
              \/ ~\E b \in B : Policy!PiuLungo(b, A)
              \/ /\ A \cap Esatti # {}
                 /\ \E b \in B \ Esatti : Prefisso[b] = Pieno
<1> USE DEF Policy!PiuLungo
<1>1. /\ \A x \in Bersagli : Prefisso[x] \in Nat /\ Prefisso[x] <= Pieno
      /\ \A x \in Esatti : x \in Bersagli /\ Prefisso[x] = Pieno
      /\ Pieno \in Nat /\ Policy!Nessuno \notin Bersagli
  BY DEF Policy!PolicyAssumption
<1> DEFINE batte ==
      \/ p \in Esatti
      \/ /\ p # Policy!Nessuno
         /\ m \notin Esatti
         /\ m # Policy!Nessuno => Prefisso[p] >= Prefisso[m]
<1>2. Policy!Azione(p, m) = IF batte THEN "block" ELSE "allow"
  BY DEF Policy!Azione
<1>3. ASSUME batte PROVE \E b \in B : Policy!PiuLungo(b, A)
  <2>1. p \in B
    BY <1>1, <1>3
  <2>2. \A a \in A : Prefisso[a] <= Prefisso[p]
    <3>1. CASE p \in Esatti
      BY <1>1, <3>1
    <3>2. CASE p \notin Esatti
      BY <1>1, <1>3, <3>2, <2>1
    <3> QED BY <3>1, <3>2
  <2> QED BY <2>1, <2>2
<1>4. ASSUME ~batte, \E b \in B : Policy!PiuLungo(b, A)
      PROVE  A \cap Esatti # {} /\ \E b \in B \ Esatti : Prefisso[b] = Pieno
  <2>1. PICK b \in B : Policy!PiuLungo(b, A)
    BY <1>4
  <2>2. p \in B \ Esatti /\ p # Policy!Nessuno /\ Prefisso[b] <= Prefisso[p]
    BY <2>1, <1>4
  <2>3. m \in A \cap Esatti
    <3>1. CASE m \in Esatti
      BY <3>1, <1>1
    <3>2. CASE m \notin Esatti
      <4>1. m \in A /\ Prefisso[p] < Prefisso[m]
        BY <3>2, <2>2, <1>4, <1>1
      <4>2. Prefisso[m] <= Prefisso[b]
        BY <4>1, <2>1
      <4> QED BY <4>1, <4>2, <2>1, <2>2, <1>1
    <3> QED BY <3>1, <3>2
  <2>4. Prefisso[p] = Pieno
    BY <2>1, <2>2, <2>3, <1>1
  <2> QED BY <2>2, <2>3, <2>4
<1> HIDE DEF batte
<1> QED BY <1>2, <1>3, <1>4

\* What a decision means, from the invariant.
LEMMA PrecedenzaDaInv ==
  Policy!PolicyAssumption /\ InvIP => Policy!PrecedenzaPrefissi
<1> SUFFICES ASSUME Policy!PolicyAssumption, InvIP, NEW r \in Gestori, Policy!Attende(r, "ammessi"),
                    NEW lette \in Policy!Letture("allow"),
                    NEW m \in Policy!Scelta("allow", lette, voloIP[r].cliente)
             PROVE
      LET B == Policy!Toccano(voloIP[r].bloccati, voloIP[r].cliente)
          A == Policy!Toccano(lette, voloIP[r].cliente)
          vince == \E b \in B : Policy!PiuLungo(b, A)
      IN  CASE Policy!Azione(voloIP[r].blocco, m) = "block" -> vince
            [] Policy!Azione(voloIP[r].blocco, m) = "allow" ->
                 \/ ~vince
                 \/ /\ A \cap Esatti # {}
                    /\ \E b \in B \ Esatti : Prefisso[b] = Pieno
  BY DEF Policy!PrecedenzaPrefissi
<1> DEFINE B == Policy!Toccano(voloIP[r].bloccati, voloIP[r].cliente)
           A == Policy!Toccano(lette, voloIP[r].cliente)
           p == voloIP[r].blocco
<1>1. /\ r \in DOMAIN voloIP /\ voloIP[r] \in Policy!InVolo /\ Scelto(voloIP[r])
  BY DEF InvIP, InVoloIP, Policy!Attende
<1>2. lette \subseteq Bersagli
  BY LettureIP DEF Policy!Liste
<1>3. B \subseteq Bersagli /\ A \subseteq Bersagli
  BY <1>1, <1>2 DEF Policy!Toccano, Policy!InVolo
<1>4. /\ p = Policy!Nessuno <=> B = {}
      /\ p # Policy!Nessuno => p \in B /\ Policy!PiuLungo(p, B)
  BY <1>1 DEF Scelto
<1>5. /\ m = Policy!Nessuno <=> A = {}
      /\ m # Policy!Nessuno => m \in A /\ Policy!PiuLungo(m, A)
  BY <1>2, SceltaPiuLunga
<1> HIDE DEF A, B, p
<1>6. /\ Policy!Azione(p, m) \in {"block", "allow"}
      /\ Policy!Azione(p, m) = "block" => \E b \in B : Policy!PiuLungo(b, A)
      /\ Policy!Azione(p, m) = "allow" =>
           \/ ~\E b \in B : Policy!PiuLungo(b, A)
           \/ /\ A \cap Esatti # {}
              /\ \E b \in B \ Esatti : Prefisso[b] = Pieno
  BY <1>3, <1>4, <1>5, AzionePrecede
<1> QED BY <1>6 DEF A, B, p

-----------------------------------------------------------------------------
(* The pages of a list (Paginazione).                                      *)

\* An int that fits is kept, and one that does not comes out negative.
LEMMA AvvolgeEntra ==
  ASSUME MaxInt \in Nat, NEW n \in 0..2 * MaxInt
  PROVE  /\ Pagine!Avvolge(n) \in Int
         /\ n <= MaxInt => Pagine!Avvolge(n) = n
         /\ n > MaxInt => Pagine!Avvolge(n) < 0
<1> DEFINE k == Pagine!Interi
<1>1. k = 2 * MaxInt + 2 /\ k \in Nat \ {0} /\ n < k
  BY DEF Pagine!Interi
<1>2. n % k = n
  <2> HIDE DEF k
  <2> QED BY <1>1
<1> QED BY <1>1, <1>2 DEF Pagine!Avvolge

LEMMA AvvolgeIntero ==
  ASSUME MaxInt \in Nat, NEW n \in Int
  PROVE  Pagine!Avvolge(n) \in Int /\ Pagine!Avvolge(n) <= MaxInt
<1> DEFINE k == Pagine!Interi
<1>1. k = 2 * MaxInt + 2 /\ k \in Nat \ {0}
  BY DEF Pagine!Interi
<1>2. n % k \in 0..k - 1
  <2> HIDE DEF k
  <2> QED BY <1>1
<1> QED BY <1>1, <1>2 DEF Pagine!Avvolge

\* The cardinality that Paginazione takes from FiniteSets is that of this module.
LEMMA StessaCardinalita == \A S : Pagine!Cardinality(S) = Cardinality(S)
BY DEF Pagine!Cardinality, Cardinality

LEMMA ProdottoNat ==
  ASSUME NEW a \in Nat, NEW b \in Nat
  PROVE  a * b \in Nat
OBVIOUS

\* The positions of a page are those between its bounds.
LEMMA QuozienteTra ==
  ASSUME NEW i \in Nat, NEW k \in Nat, NEW d \in Nat \ {0}
  PROVE  i \div d = k <=> k * d <= i /\ i < k * d + d
<1> DEFINE q == i \div d
           m == i % d
<1>1. q \in Nat /\ m \in 0..d - 1 /\ i = d * q + m
  OBVIOUS
<1> HIDE DEF q, m
<1>2. ASSUME q = k PROVE k * d <= i /\ i < k * d + d
  BY <1>1, <1>2
<1>3. ASSUME q < k PROVE ~(k * d <= i)
  <2>1. (k - q - 1) * d \in Nat
    BY <1>1, <1>3, ProdottoNat
  <2>2. k * d = d * q + d + (k - q - 1) * d
    BY <1>1
  <2> QED BY <1>1, <2>1, <2>2
<1>4. ASSUME q > k PROVE ~(i < k * d + d)
  <2>1. (q - k - 1) * d \in Nat
    BY <1>1, <1>4, ProdottoNat
  <2>2. d * q = k * d + d + (q - k - 1) * d
    BY <1>1
  <2> QED BY <1>1, <2>1, <2>2
<1> QED BY <1>1, <1>2, <1>3, <1>4 DEF q

LEMMA Parametri ==
  ASSUME Pagine!PaginazioneAssumption, NEW p \in 0..MaxInt, NEW d \in 0..MaxInt
  PROVE  /\ Pagine!Pagina(p) \in 1..MaxInt
         /\ Pagine!Dimensione(d) \in 1..Massima
BY DEF Pagine!PaginazioneAssumption, Pagine!Pagina, Pagine!Dimensione

\* A page whose arithmetic fits: the bounds, and the positions between them.
LEMMA PaginaCheEntra ==
  ASSUME MaxInt \in Nat, NEW total \in 0..MaxInt, NEW page \in 1..MaxInt,
         NEW pageSize \in 1..MaxInt, Pagine!Entra(total, page, pageSize),
         NEW b, b = Pagine!paginateBounds(total, page, pageSize)
  PROVE  /\ Pagine!Valida(b, total)
         /\ Pagine!Posizioni(b) = Pagine!DellaPagina(total, page, pageSize)
<1> DEFINE inizio == (page - 1) * pageSize
           s == Pagine!Avvolge(inizio)
           e == Pagine!Avvolge(s + pageSize)
<1>1. inizio \in Nat /\ inizio <= MaxInt /\ total + pageSize <= MaxInt
  <2>1. page - 1 \in Nat /\ pageSize \in Nat
    OBVIOUS
  <2>2. inizio \in Nat
    BY <2>1, ProdottoNat
  <2> QED BY <2>2 DEF Pagine!Entra
<1>2. b = IF total <= 0 THEN [start |-> 0, end |-> 0]
          ELSE IF s >= total THEN [start |-> total, end |-> total]
          ELSE [start |-> s, end |-> IF e > total THEN total ELSE e]
  BY DEF Pagine!paginateBounds
<1>3. Pagine!DellaPagina(total, page, pageSize) =
        {i \in 0..total - 1 : inizio <= i /\ i < inizio + pageSize}
  <2>1. \A i \in 0..total - 1 : i \div pageSize = page - 1 <=>
                                  inizio <= i /\ i < inizio + pageSize
    <3>1. page - 1 \in Nat /\ pageSize \in Nat \ {0}
      OBVIOUS
    <3>2. \A i \in 0..total - 1 : i \in Nat
      OBVIOUS
    <3> QED BY <3>1, <3>2, QuozienteTra
  <2> QED BY <2>1 DEF Pagine!DellaPagina
<1> HIDE DEF inizio
<1>4. s = inizio
  BY <1>1, AvvolgeEntra
<1>5. inizio < total => e = inizio + pageSize
  <2>1. inizio < total => inizio + pageSize \in 0..2 * MaxInt /\ inizio + pageSize <= MaxInt
    BY <1>1
  <2> QED BY <1>4, <2>1, AvvolgeEntra
<1> HIDE DEF s, e
<1>6. CASE total = 0
  <2>1. b.start = 0 /\ b.end = 0
    BY <1>2, <1>6
  <2> QED BY <2>1, <1>3, <1>6 DEF Pagine!Valida, Pagine!Posizioni
<1>7. CASE total # 0 /\ inizio >= total
  <2>1. b.start = total /\ b.end = total
    BY <1>2, <1>4, <1>7
  <2> QED BY <2>1, <1>1, <1>3, <1>7 DEF Pagine!Valida, Pagine!Posizioni
<1>8. CASE total # 0 /\ inizio < total
  <2>1. b = [start |-> inizio, end |-> IF e > total THEN total ELSE e]
    BY <1>1, <1>2, <1>4, <1>8
  <2>2. /\ b.start = inizio /\ b.end = IF e > total THEN total ELSE e
        /\ e = inizio + pageSize
    BY <2>1, <1>5, <1>8
  <2> QED BY <2>2, <1>1, <1>3, <1>8 DEF Pagine!Valida, Pagine!Posizioni
<1> QED BY <1>1, <1>6, <1>7, <1>8

\* No page is longer than its size, also when the arithmetic wraps.
LEMMA PaginaNonPiuLunga ==
  ASSUME MaxInt \in Nat, NEW total \in 0..MaxInt, NEW page \in 1..MaxInt,
         NEW pageSize \in 1..MaxInt,
         NEW b, b = Pagine!paginateBounds(total, page, pageSize),
         Pagine!Valida(b, total)
  PROVE  /\ b.start \in Nat /\ b.end \in Nat /\ b.start <= b.end
         /\ b.end - b.start <= pageSize
<1> DEFINE s == Pagine!Avvolge((page - 1) * pageSize)
           e == Pagine!Avvolge(s + pageSize)
<1>1. b = IF total <= 0 THEN [start |-> 0, end |-> 0]
          ELSE IF s >= total THEN [start |-> total, end |-> total]
          ELSE [start |-> s, end |-> IF e > total THEN total ELSE e]
  BY DEF Pagine!paginateBounds
<1>2. s \in Int /\ s <= MaxInt
  <2>1. (page - 1) * pageSize \in Int
    OBVIOUS
  <2> QED BY <2>1, AvvolgeIntero
<1> HIDE DEF s
<1>3. e \in Int /\ s + pageSize \in Int
  BY <1>2, AvvolgeIntero
<1>4. s >= 0 => (IF s + pageSize <= MaxInt THEN e = s + pageSize ELSE e < 0)
  <2>1. s >= 0 => s + pageSize \in 0..2 * MaxInt
    BY <1>2
  <2> QED BY <1>2, <1>3, <2>1, AvvolgeEntra
<1> HIDE DEF e
<1>5. CASE total <= 0
  BY <1>1, <1>5
<1>6. CASE ~(total <= 0) /\ s >= total
  BY <1>1, <1>2, <1>6
<1>7. CASE ~(total <= 0) /\ ~(s >= total)
  <2>1. b.start = s /\ b.end = IF e > total THEN total ELSE e
    BY <1>1, <1>7
  <2>2. 0 <= s /\ s <= b.end /\ b.end <= total
    BY <2>1 DEF Pagine!Valida
  <2> QED BY <2>1, <2>2, <1>2, <1>3, <1>4, <1>7
<1> QED BY <1>5, <1>6, <1>7

TipiPagine ==
  /\ richiesta \in [totale : 0..MaxInt, pagina : 0..MaxInt, dimensione : 0..MaxInt]
  /\ \/ esito = Pagine!InAttesa
     \/ esito = Pagine!Risposta(Pagine!Pagina(richiesta.pagina),
                                Pagine!Dimensione(richiesta.dimensione))

\* A page, from the types of the request.
LEMMA PaginaDaTipi ==
  Pagine!PaginazioneAssumption /\ TipiPagine => Pagine!PaginaEsatta
<1> SUFFICES ASSUME Pagine!PaginazioneAssumption, TipiPagine, esito # Pagine!InAttesa
             PROVE  LET page == Pagine!Pagina(richiesta.pagina)
                        pageSize == Pagine!Dimensione(richiesta.dimensione)
                    IN  /\ Pagine!Entra(richiesta.totale, page, pageSize) =>
                             esito = [tipo |-> "pagina",
                                      posizioni |-> Pagine!DellaPagina(
                                        richiesta.totale, page, pageSize)]
                        /\ Cardinality(esito.posizioni) <= Massima
  BY StessaCardinalita DEF Pagine!PaginaEsatta
<1> DEFINE total == richiesta.totale
           page == Pagine!Pagina(richiesta.pagina)
           pageSize == Pagine!Dimensione(richiesta.dimensione)
           b == Pagine!paginateBounds(total, page, pageSize)
<1>1. /\ MaxInt \in Nat /\ total \in 0..MaxInt /\ page \in 1..MaxInt
      /\ pageSize \in 1..Massima /\ pageSize \in 1..MaxInt /\ Massima \in Nat
  <2>1. /\ total \in 0..MaxInt /\ richiesta.pagina \in 0..MaxInt
        /\ richiesta.dimensione \in 0..MaxInt
    BY DEF TipiPagine
  <2>2. page \in 1..MaxInt /\ pageSize \in 1..Massima
    BY <2>1, Parametri
  <2> QED BY <2>1, <2>2 DEF Pagine!PaginazioneAssumption
<1>2. esito = IF Pagine!Valida(b, total)
              THEN [tipo |-> "pagina", posizioni |-> Pagine!Posizioni(b)]
              ELSE [tipo |-> "panico", posizioni |-> {}]
  BY DEF TipiPagine, Pagine!Risposta
<1> HIDE DEF total, page, pageSize, b
<1>3. ASSUME Pagine!Entra(total, page, pageSize)
      PROVE  esito = [tipo |-> "pagina",
                      posizioni |-> Pagine!DellaPagina(total, page, pageSize)]
  <2>1. /\ Pagine!Valida(b, total)
        /\ Pagine!Posizioni(b) = Pagine!DellaPagina(total, page, pageSize)
    BY <1>1, <1>3, PaginaCheEntra DEF b
  <2> QED BY <1>2, <2>1
<1>4. Cardinality(esito.posizioni) <= Massima
  <2>1. CASE Pagine!Valida(b, total)
    <3>1. /\ b.start \in Nat /\ b.end \in Nat /\ b.start <= b.end
          /\ b.end - b.start <= pageSize
      BY <1>1, <2>1, PaginaNonPiuLunga DEF b
    <3>2. Cardinality(b.start .. b.end - 1) = b.end - b.start
      <4> DEFINE u == b.start
                 v == b.end - 1
      <4>1. u \in Int /\ v \in Int
        BY <3>1
      <4> HIDE DEF u, v
      <4>2. Cardinality(u .. v) = IF u > v THEN 0 ELSE v - u + 1
        BY <4>1, FS_Interval
      <4> QED BY <3>1, <4>2 DEF u, v
    <3>3. esito.posizioni = b.start .. b.end - 1
      BY <1>2, <2>1 DEF Pagine!Posizioni
    <3> QED BY <1>1, <3>1, <3>2, <3>3
  <2>2. CASE ~Pagine!Valida(b, total)
    <3>1. Cardinality(esito.posizioni) = 0
      BY <1>2, <2>2, FS_EmptySet
    <3> QED BY <1>1, <3>1
  <2> QED BY <2>1, <2>2
<1>5. Pagine!Entra(total, page, pageSize) =>
        esito = [tipo |-> "pagina",
                 posizioni |-> Pagine!DellaPagina(total, page, pageSize)]
  BY <1>3
<1> QED BY <1>4, <1>5 DEF total, page, pageSize

LEMMA TipiPaginaIniziali == Pagine!Init => TipiPagine
BY DEF Pagine!Init, TipiPagine

LEMMA TipiPaginaPasso == TipiPagine /\ [Pagine!Next]_Pagine!vars => TipiPagine'
BY DEF TipiPagine, Pagine!Next, Pagine!Risponde, Pagine!vars, Pagine!Risposta

-----------------------------------------------------------------------------
(* A walk through the pages of a list that changes (Elenchi).              *)

Distinti(m) == \A x, y \in DOMAIN m : x # y => m[x] # m[y]

Avanti(o, k, j) == IF o = "asc" THEN k <= j ELSE k >= j

\* The items before x, and the place of x in the list.
Prima(o, m, x) == {y \in DOMAIN m : y # x /\ Avanti(o, m[y], m[x])}

Posto(o, m, x) == Cardinality(Prima(o, m, x))

\* A list of Int keys as the sort returns it.
Ordinata(o, m, s) ==
  /\ s \in [1..Cardinality(DOMAIN m) -> DOMAIN m]
  /\ {s[i] : i \in 1..Cardinality(DOMAIN m)} = DOMAIN m
  /\ \A i, j \in 1..Cardinality(DOMAIN m) : i < j => Avanti(o, m[s[i]], m[s[j]])

Elenco(m) == m \in [DOMAIN m -> Int] /\ IsFiniteSet(DOMAIN m)

LEMMA PostoNat ==
  ASSUME NEW m, Elenco(m), NEW o, NEW x
  PROVE  Posto(o, m, x) \in Nat /\ IsFiniteSet(Prima(o, m, x))
<1>1. Prima(o, m, x) \subseteq DOMAIN m
  BY DEF Prima
<1> QED BY <1>1, FS_Subset, FS_CardinalityType DEF Posto, Elenco

\* When no two keys are equal, the sort puts every item in its place.
LEMMA PostoOrdinata ==
  ASSUME NEW m, Elenco(m), Distinti(m), NEW o, NEW s, Ordinata(o, m, s),
         NEW i \in 1..Cardinality(DOMAIN m)
  PROVE  Posto(o, m, s[i]) = i - 1
<1> DEFINE n == Cardinality(DOMAIN m)
<1>1. n \in Nat
  BY FS_CardinalityType DEF Elenco
<1>2. \A j, k \in 1..n : s[j] = s[k] => j = k
  <2>1. s \in Surjection(1..n, DOMAIN m)
    BY DEF Ordinata, Surjection
  <2>2. IsFiniteSet(1..n) /\ Cardinality(1..n) = n
    BY <1>1, FS_Interval
  <2>3. s \in Injection(1..n, DOMAIN m)
    BY <2>1, <2>2, FS_SurjSameCardinalityImpliesInj
  <2> QED BY <2>3 DEF Injection, IsInjective
<1>3. /\ \A j \in 1..n : s[j] \in DOMAIN m
      /\ \A y \in DOMAIN m : m[y] \in Int
      /\ \A y \in DOMAIN m : \E j \in 1..n : s[j] = y
      /\ \A j, k \in 1..n : j < k => Avanti(o, m[s[j]], m[s[k]])
  BY DEF Ordinata, Elenco
<1> HIDE DEF n
<1>4. i \in 1..n
  BY DEF n
<1>5. Prima(o, m, s[i]) = {s[j] : j \in 1..i - 1}
  <2>1. ASSUME NEW y \in Prima(o, m, s[i])
        PROVE  y \in {s[j] : j \in 1..i - 1}
    <3>1. y \in DOMAIN m /\ y # s[i] /\ Avanti(o, m[y], m[s[i]])
      BY <2>1 DEF Prima
    <3>2. PICK j \in 1..n : s[j] = y
      BY <3>1, <1>3
    <3>3. ~(i < j)
      <4> SUFFICES ASSUME i < j PROVE FALSE
        OBVIOUS
      <4>1. Avanti(o, m[s[i]], m[y])
        BY <1>3, <1>4, <3>2
      <4>2. m[s[i]] = m[y]
        BY <1>3, <1>4, <3>1, <4>1 DEF Avanti
      <4> QED BY <4>2, <3>1, <1>3, <1>4 DEF Distinti
    <3>4. j # i
      BY <3>1, <3>2
    <3>5. j \in 1..i - 1
      BY <3>2, <3>3, <3>4, <1>1, <1>4
    <3> QED BY <3>2, <3>5
  <2>2. ASSUME NEW j \in 1..i - 1
        PROVE  s[j] \in Prima(o, m, s[i])
    <3>1. j \in 1..n /\ j < i
      BY <1>1, <1>4
    <3> QED BY <3>1, <1>2, <1>3, <1>4 DEF Prima
  <2> QED BY <2>1, <2>2
<1>6. Cardinality({s[j] : j \in 1..i - 1}) = i - 1
  <2> DEFINE T == {s[j] : j \in 1..i - 1}
             f == [j \in 1..i - 1 |-> s[j]]
  <2>1. \A j \in 1..i - 1 : j \in 1..n
    BY <1>1, <1>4
  <2>2. f \in Bijection(1..i - 1, T)
    <3>1. f \in [1..i - 1 -> T] /\ \A t \in T : \E j \in 1..i - 1 : f[j] = t
      OBVIOUS
    <3>2. \A j, k \in 1..i - 1 : f[j] = f[k] => j = k
      BY <2>1, <1>2
    <3> HIDE DEF f, T
    <3> QED BY <3>1, <3>2 DEF Bijection, Injection, Surjection, IsInjective
  <2>3. IsFiniteSet(1..i - 1) /\ Cardinality(1..i - 1) = i - 1
    <3> DEFINE k == i - 1
    <3>1. k \in Nat
      BY <1>1, <1>4
    <3> HIDE DEF k
    <3>2. IsFiniteSet(1..k) /\ Cardinality(1..k) = k
      BY <3>1, FS_Interval
    <3> QED BY <3>2 DEF k
  <2> HIDE DEF T, f
  <2>4. Cardinality(T) = i - 1
    BY <2>2, <2>3, FS_Bijection DEF ExistsBijection
  <2> QED BY <2>4 DEF T
<1> QED BY <1>5, <1>6 DEF Posto

-----------------------------------------------------------------------------
(* The invariant.                                                          *)

\* Types, and the next page begins within the longest list.
TipiCammino(m, o, d, p, v, dd, ini, acc) ==
  /\ DOMAIN m \subseteq Id /\ m \in [DOMAIN m -> Chiavi]
  /\ o \in {"asc", "desc"} /\ d \in Dimensioni /\ p \in Nat
  /\ dd \subseteq v /\ v \subseteq Id /\ ini \subseteq Id
  /\ acc \subseteq Cammino!Evento
  /\ p # 0 => (p - 1) * d <= Cardinality(Id)

\* While items have only entered: those listed when the walk began are still
\* there, and were shown if their place is before the next page.
Coperti(m, o, d, p, v, ini) ==
  /\ Distinti(m) /\ ini \subseteq DOMAIN m /\ v \subseteq DOMAIN m
  /\ \A x \in ini : p = 0 \/ Posto(o, m, x) < (p - 1) * d => x \in v

\* While they entered after all others: what was shown is before the next page.
Alle(m, o, d, p, v, dd) ==
  /\ dd = {}
  /\ p # 0 => \A x \in v : Posto(o, m, x) < (p - 1) * d

Camminato(m, o, d, p, v, dd, ini, acc) ==
  /\ TipiCammino(m, o, d, p, v, dd, ini, acc)
  /\ acc \subseteq {"entraPrima"} => Coperti(m, o, d, p, v, ini)
  /\ acc = {} => Alle(m, o, d, p, v, dd)

InvCammino ==
  Camminato(elenco, ordine, dimensione, pagina, visti, doppi, iniziali, accaduto)

\* What the module takes from FiniteSets, Functions and the helpers.
LEMMA StessiOperatori ==
  /\ \A S : Cammino!Cardinality(S) = Cardinality(S)
  /\ \A S : Cammino!IsFiniteSet(S) <=> IsFiniteSet(S)
  /\ \A f : Cammino!Range(f) = {f[i] : i \in DOMAIN f}
BY DEF Cammino!Cardinality, Cardinality, Cammino!IsFiniteSet, IsFiniteSet, Cammino!Range

LEMMA AssunzioneCammino ==
  Cammino!ElenchiAssumption =>
    /\ IsFiniteSet(Id) /\ Chiavi \subseteq Int /\ MaxInt \in Nat
    /\ Dimensioni \subseteq Nat \ {0}
    /\ \A d \in Dimensioni : Cardinality(Id) + d <= MaxInt
BY StessiOperatori DEF Cammino!ElenchiAssumption

LEMMA ElencoFinito ==
  ASSUME Cammino!ElenchiAssumption, NEW m, DOMAIN m \subseteq Id, m \in [DOMAIN m -> Chiavi]
  PROVE  /\ Elenco(m)
         /\ Cardinality(DOMAIN m) \in Nat /\ Cardinality(Id) \in Nat
         /\ Cardinality(DOMAIN m) <= Cardinality(Id)
<1>1. IsFiniteSet(DOMAIN m) /\ Cardinality(DOMAIN m) <= Cardinality(Id)
  BY AssunzioneCammino, FS_Subset
<1> QED BY <1>1, AssunzioneCammino, FS_CardinalityType DEF Elenco

\* The positions of a page of the walk.
LEMMA PosizioniCammino ==
  ASSUME MaxInt \in Nat, NEW n \in Nat, NEW p \in Nat \ {0}, NEW d \in Nat \ {0},
         (p - 1) * d <= MaxInt, n + d <= MaxInt
  PROVE  Cammino!Paging!Posizioni(Cammino!Paging!paginateBounds(n, p, d)) =
           {i \in 0..n - 1 : (p - 1) * d <= i /\ i < (p - 1) * d + d}
<1> DEFINE inizio == (p - 1) * d
           b == Pagine!paginateBounds(n, p, d)
<1>1. inizio \in Nat /\ inizio \in 0..2 * MaxInt /\ inizio <= MaxInt
  <2>1. p - 1 \in Nat
    OBVIOUS
  <2>2. inizio \in Nat
    BY <2>1, ProdottoNat
  <2> HIDE DEF inizio
  <2>3. inizio <= MaxInt
    BY DEF inizio
  <2> QED BY <2>2, <2>3
<1>2. b = LET start == Pagine!Avvolge(inizio)
              end == Pagine!Avvolge(start + d)
          IN  IF n <= 0 THEN [start |-> 0, end |-> 0]
              ELSE IF start >= n THEN [start |-> n, end |-> n]
              ELSE [start |-> start, end |-> IF end > n THEN n ELSE end]
  BY DEF Pagine!paginateBounds
<1> HIDE DEF inizio, b
<1>3. Pagine!Avvolge(inizio) = inizio
  BY <1>1, AvvolgeEntra
<1>4. inizio < n => Pagine!Avvolge(inizio + d) = inizio + d
  <2>1. inizio < n => inizio + d \in 0..2 * MaxInt /\ inizio + d <= MaxInt
    BY <1>1
  <2> QED BY <2>1, AvvolgeEntra
<1>5. b.start .. b.end - 1 = {i \in 0..n - 1 : inizio <= i /\ i < inizio + d}
  <2>1. CASE n = 0
    <3>1. b.start = 0 /\ b.end = 0
      BY <1>2, <2>1
    <3> QED BY <3>1, <2>1
  <2>2. CASE n # 0 /\ inizio >= n
    <3>1. b.start = n /\ b.end = n
      BY <1>2, <1>3, <2>2
    <3> QED BY <3>1, <1>1, <2>2
  <2>3. CASE n # 0 /\ inizio < n
    <3>1. b = [start |-> inizio, end |-> IF inizio + d > n THEN n ELSE inizio + d]
      BY <1>1, <1>2, <1>3, <1>4, <2>3
    <3>2. b.start = inizio /\ b.end = IF inizio + d > n THEN n ELSE inizio + d
      BY <3>1
    <3> QED BY <3>2, <1>1, <2>3
  <2> QED BY <2>1, <2>2, <2>3, <1>1
<1>6. Cammino!Paging!Posizioni(Cammino!Paging!paginateBounds(n, p, d)) =
        b.start .. b.end - 1
  BY DEF b, Cammino!Paging!Posizioni, Cammino!Paging!paginateBounds,
         Cammino!Paging!Avvolge, Cammino!Paging!Interi,
         Pagine!paginateBounds, Pagine!Avvolge, Pagine!Interi
<1> QED BY <1>5, <1>6 DEF inizio

\* A page shows items of the list; when no two keys are equal, those whose place
\* belongs to it.
LEMMA PaginaDelCammino ==
  ASSUME Cammino!ElenchiAssumption, InvCammino, pagina # 0,
         NEW s \in Cammino!SortPratiche
  PROVE  /\ Len(s) = Cardinality(DOMAIN elenco)
         /\ Cammino!PaginaDi(s) \subseteq DOMAIN elenco
         /\ Distinti(elenco) =>
              \A x \in DOMAIN elenco :
                x \in Cammino!PaginaDi(s) <=>
                  /\ (pagina - 1) * dimensione <= Posto(ordine, elenco, x)
                  /\ Posto(ordine, elenco, x) < (pagina - 1) * dimensione + dimensione
<1> DEFINE n == Cardinality(DOMAIN elenco)
           inizio == (pagina - 1) * dimensione
<1>1. /\ TipiCammino(elenco, ordine, dimensione, pagina, visti, doppi, iniziali, accaduto)
      /\ Elenco(elenco) /\ n \in Nat /\ n <= Cardinality(Id) /\ Cardinality(Id) \in Nat
      /\ MaxInt \in Nat /\ Cardinality(Id) + dimensione <= MaxInt
      /\ dimensione \in Nat \ {0} /\ pagina \in Nat \ {0}
  BY ElencoFinito, AssunzioneCammino DEF InvCammino, Camminato, TipiCammino
<1>2. Ordinata(ordine, elenco, s)
  BY StessiOperatori DEF Cammino!SortPratiche, Cammino!Precede, Ordinata, Avanti
<1>3. Len(s) = n
  <2>1. s \in [1..n -> DOMAIN elenco]
    BY <1>2 DEF Ordinata
  <2> HIDE DEF n
  <2>2. s \in Seq(DOMAIN elenco) /\ DOMAIN s = 1..n
    BY <1>1, <2>1
  <2> QED BY <1>1, <2>2
<1>4. inizio \in Nat /\ inizio <= Cardinality(Id)
  <2>1. pagina - 1 \in Nat
    BY <1>1
  <2> QED BY <1>1, <2>1, ProdottoNat DEF TipiCammino
<1> DEFINE P == {i \in 0..n - 1 : inizio <= i /\ i < inizio + dimensione}
<1>5. Cammino!PaginaDi(s) = {s[i + 1] : i \in P}
  <2>1. inizio <= MaxInt /\ n + dimensione <= MaxInt
    BY <1>1, <1>4
  <2>2. Cammino!Paging!Posizioni(Cammino!Paging!paginateBounds(n, pagina, dimensione)) = P
    BY <1>1, <2>1, PosizioniCammino
  <2> QED BY <1>3, <2>2 DEF Cammino!PaginaDi
<1>6. /\ \A i \in 1..n : s[i] \in DOMAIN elenco
      /\ \A x \in DOMAIN elenco : \E i \in 1..n : s[i] = x
  BY <1>2 DEF Ordinata
<1> HIDE DEF n, inizio
<1>7. \A i \in P : i + 1 \in 1..n
  BY <1>1
<1>8. Cammino!PaginaDi(s) \subseteq DOMAIN elenco
  BY <1>5, <1>6, <1>7
<1>9. ASSUME Distinti(elenco), NEW x \in DOMAIN elenco
      PROVE  x \in Cammino!PaginaDi(s) <=>
               /\ inizio <= Posto(ordine, elenco, x)
               /\ Posto(ordine, elenco, x) < inizio + dimensione
  <2>1. \A i \in 1..n : Posto(ordine, elenco, s[i]) = i - 1
    BY <1>1, <1>2, <1>9, PostoOrdinata DEF n
  <2>2. ASSUME x \in Cammino!PaginaDi(s)
        PROVE  /\ inizio <= Posto(ordine, elenco, x)
               /\ Posto(ordine, elenco, x) < inizio + dimensione
    <3>1. PICK i \in P : x = s[i + 1]
      BY <2>2, <1>5
    <3>2. Posto(ordine, elenco, x) = i
      BY <3>1, <2>1, <1>7, <1>1
    <3> QED BY <3>1, <3>2
  <2>3. ASSUME inizio <= Posto(ordine, elenco, x),
               Posto(ordine, elenco, x) < inizio + dimensione
        PROVE  x \in Cammino!PaginaDi(s)
    <3>1. PICK i \in 1..n : s[i] = x
      BY <1>6
    <3>2. Posto(ordine, elenco, x) = i - 1
      BY <3>1, <2>1
    <3>3. i - 1 \in P /\ x = s[(i - 1) + 1]
      BY <3>1, <3>2, <2>3, <1>1
    <3> QED BY <3>3, <1>5
  <2> QED BY <2>2, <2>3
<1> QED BY <1>3, <1>8, <1>9 DEF n, inizio

LEMMA EntraCammino ==
  ASSUME Cammino!ElenchiAssumption, InvCammino, NEW id \in Id, NEW k \in Chiavi,
         Cammino!Entra(id, k)
  PROVE  InvCammino'
<1> DEFINE f == Cammino!Con(elenco, id, k)
           E == IF \A x \in DOMAIN elenco : ~Avanti(ordine, k, elenco[x])
                THEN {} ELSE {"entraPrima"}
<1>1. /\ pagina # 0 /\ id \notin DOMAIN elenco /\ elenco' = f
      /\ accaduto' = accaduto \cup E
                       \cup (IF Cammino!Pari(elenco') THEN {"pari"} ELSE {})
      /\ UNCHANGED <<ordine, dimensione, pagina, visti, doppi, iniziali>>
  BY DEF Cammino!Entra, Cammino!Cammina, Cammino!Annota, Cammino!Resta, Cammino!Precede, Avanti
<1>2. TipiCammino(elenco, ordine, dimensione, pagina, visti, doppi, iniziali, accaduto)
  BY DEF InvCammino, Camminato
<1>3. /\ DOMAIN f = DOMAIN elenco \cup {id} /\ f[id] = k
      /\ \A x \in DOMAIN elenco : f[x] = elenco[x]
      /\ f \in [DOMAIN f -> Chiavi] /\ DOMAIN f \subseteq Id
  BY <1>1, <1>2 DEF Cammino!Con, TipiCammino
<1> HIDE DEF f
<1>4. TipiCammino(f, ordine, dimensione, pagina, visti, doppi, iniziali, accaduto')
  BY <1>1, <1>2, <1>3 DEF TipiCammino, Cammino!Evento
<1>5. Elenco(elenco) /\ Elenco(f)
  BY <1>2, <1>4, ElencoFinito DEF TipiCammino
<1>6. ASSUME NEW x \in DOMAIN elenco
      PROVE  /\ Posto(ordine, elenco, x) \in Nat /\ Posto(ordine, f, x) \in Nat
             /\ Posto(ordine, elenco, x) <= Posto(ordine, f, x)
             /\ E = {} => Posto(ordine, f, x) = Posto(ordine, elenco, x)
  <2>1. Prima(ordine, elenco, x) \subseteq Prima(ordine, f, x)
    BY <1>1, <1>3 DEF Prima
  <2>2. E = {} => Prima(ordine, f, x) = Prima(ordine, elenco, x)
    <3> SUFFICES ASSUME E = {} PROVE Prima(ordine, f, x) = Prima(ordine, elenco, x)
      OBVIOUS
    <3>1. ~Avanti(ordine, k, elenco[x])
      OBVIOUS
    <3> QED BY <1>1, <1>3, <3>1 DEF Prima
  <2> HIDE DEF E
  <2>3. /\ Posto(ordine, elenco, x) \in Nat /\ Posto(ordine, f, x) \in Nat
        /\ IsFiniteSet(Prima(ordine, f, x))
    BY <1>5, PostoNat
  <2>4. Posto(ordine, elenco, x) <= Posto(ordine, f, x)
    BY <2>1, <2>3, FS_Subset DEF Posto
  <2> QED BY <2>2, <2>3, <2>4 DEF Posto
<1>7. ASSUME accaduto' \subseteq {"entraPrima"}
      PROVE  Coperti(f, ordine, dimensione, pagina, visti, iniziali)
  <2>1. accaduto \subseteq {"entraPrima"} /\ ~Cammino!Pari(f)
    BY <1>1, <1>7
  <2>2. Coperti(elenco, ordine, dimensione, pagina, visti, iniziali)
    BY <2>1 DEF InvCammino, Camminato
  <2>3. Distinti(f)
    BY <2>1 DEF Cammino!Pari, Distinti
  <2>4. iniziali \subseteq DOMAIN f /\ visti \subseteq DOMAIN f
    BY <2>2, <1>3 DEF Coperti
  <2>5. ASSUME NEW x \in iniziali,
               pagina = 0 \/ Posto(ordine, f, x) < (pagina - 1) * dimensione
        PROVE  x \in visti
    <3>1. x \in DOMAIN elenco
      BY <2>2 DEF Coperti
    <3>2. (pagina - 1) * dimensione \in Int
      BY <1>2, AssunzioneCammino DEF TipiCammino
    <3>3. Posto(ordine, elenco, x) < (pagina - 1) * dimensione
      BY <1>1, <1>6, <2>5, <3>1, <3>2
    <3> QED BY <2>2, <3>3 DEF Coperti
  <2> QED BY <2>3, <2>4, <2>5 DEF Coperti
<1>8. ASSUME accaduto' = {}
      PROVE  Alle(f, ordine, dimensione, pagina, visti, doppi)
  <2>1. accaduto = {} /\ E = {}
    BY <1>1, <1>8
  <2>2. /\ Alle(elenco, ordine, dimensione, pagina, visti, doppi)
        /\ visti \subseteq DOMAIN elenco
    BY <2>1 DEF InvCammino, Camminato, Coperti
  <2> HIDE DEF E
  <2> QED BY <2>1, <2>2, <1>6 DEF Alle
<1> QED BY <1>1, <1>4, <1>7, <1>8 DEF InvCammino, Camminato

\* After an item has left, or changed its key, only the types are claimed.
LEMMA AltroCammino ==
  ASSUME InvCammino, DOMAIN elenco' \subseteq Id, elenco' \in [DOMAIN elenco' -> Chiavi],
         NEW e \in {"esce", "cambia"}, Cammino!Annota({e}), Cammino!Resta
  PROVE  InvCammino'
<1>1. /\ accaduto' \subseteq accaduto \cup {e, "pari"} /\ e \in accaduto'
      /\ UNCHANGED <<ordine, dimensione, pagina, visti, doppi, iniziali>>
  BY DEF Cammino!Annota, Cammino!Resta
<1>2. TipiCammino(elenco, ordine, dimensione, pagina, visti, doppi, iniziali, accaduto)
  BY DEF InvCammino, Camminato
<1>3. TipiCammino(elenco', ordine', dimensione', pagina', visti', doppi', iniziali',
                  accaduto')
  BY <1>1, <1>2 DEF TipiCammino, Cammino!Evento
<1>4. ~(accaduto' \subseteq {"entraPrima"}) /\ accaduto' # {}
  BY <1>1
<1> QED BY <1>3, <1>4 DEF InvCammino, Camminato

LEMMA EsceCammino ==
  ASSUME InvCammino, NEW id \in Id,
         Cammino!Esce(id) \/ \E k \in Chiavi : Cammino!CambiaChiave(id, k)
  PROVE  InvCammino'
<1>1. elenco \in [DOMAIN elenco -> Chiavi] /\ DOMAIN elenco \subseteq Id
  BY DEF InvCammino, Camminato, TipiCammino
<1>2. CASE Cammino!Esce(id)
  <2>1. DOMAIN elenco' \subseteq Id /\ elenco' \in [DOMAIN elenco' -> Chiavi]
    BY <1>1, <1>2 DEF Cammino!Esce, Cammino!Senza, Cammino!Restrict
  <2> QED BY <1>2, <2>1, AltroCammino DEF Cammino!Esce
<1>3. ASSUME NEW k \in Chiavi, Cammino!CambiaChiave(id, k)
      PROVE  InvCammino'
  <2>1. DOMAIN elenco' \subseteq Id /\ elenco' \in [DOMAIN elenco' -> Chiavi]
    BY <1>1, <1>3 DEF Cammino!CambiaChiave
  <2> QED BY <1>3, <2>1, AltroCammino DEF Cammino!CambiaChiave
<1> QED BY <1>2, <1>3

LEMMA LeggeCammino ==
  ASSUME Cammino!ElenchiAssumption, InvCammino, Cammino!Legge
  PROVE  InvCammino'
<1> DEFINE n == Cardinality(DOMAIN elenco)
           inizio == (pagina - 1) * dimensione
           posto(x) == Posto(ordine, elenco, x)
<1>1. PICK s \in Cammino!SortPratiche :
        /\ visti' = visti \cup Cammino!PaginaDi(s)
        /\ doppi' = doppi \cup (visti \cap Cammino!PaginaDi(s))
        /\ pagina' = IF pagina * dimensione >= Len(s) THEN 0 ELSE pagina + 1
  BY DEF Cammino!Legge
<1>2. pagina # 0 /\ UNCHANGED <<elenco, ordine, dimensione, iniziali, accaduto>>
  BY DEF Cammino!Legge, Cammino!Cammina
<1> DEFINE Q == Cammino!PaginaDi(s)
<1>3. /\ Len(s) = n /\ Q \subseteq DOMAIN elenco
      /\ Distinti(elenco) =>
           \A x \in DOMAIN elenco :
             x \in Q <=> inizio <= posto(x) /\ posto(x) < inizio + dimensione
  BY <1>2, PaginaDelCammino
<1>4. /\ TipiCammino(elenco, ordine, dimensione, pagina, visti, doppi, iniziali, accaduto)
      /\ Elenco(elenco) /\ n \in Nat /\ n <= Cardinality(Id) /\ Cardinality(Id) \in Nat
      /\ dimensione \in Nat \ {0} /\ pagina \in Nat \ {0}
  BY <1>2, ElencoFinito, AssunzioneCammino DEF InvCammino, Camminato, TipiCammino
<1>5. /\ inizio \in Int /\ pagina * dimensione = inizio + dimensione
      /\ (pagina + 1 - 1) * dimensione = inizio + dimensione
  BY <1>4
<1>6. \A x \in DOMAIN elenco : posto(x) \in Nat
  BY <1>4, PostoNat
<1> HIDE DEF Q, n, inizio
<1>7. /\ visti' = visti \cup Q /\ doppi' = doppi \cup (visti \cap Q)
      /\ \/ pagina' = 0 /\ inizio + dimensione >= n
         \/ /\ pagina' = pagina + 1 /\ pagina' # 0
            /\ inizio + dimensione < n
            /\ (pagina' - 1) * dimensione = inizio + dimensione
  BY <1>1, <1>3, <1>4, <1>5 DEF Q
<1>8. TipiCammino(elenco, ordine, dimensione, pagina', visti', doppi', iniziali, accaduto)
  BY <1>3, <1>4, <1>5, <1>7 DEF TipiCammino
<1>9. ASSUME accaduto \subseteq {"entraPrima"}
      PROVE  Coperti(elenco, ordine, dimensione, pagina', visti', iniziali)
  <2>1. /\ Distinti(elenco) /\ iniziali \subseteq DOMAIN elenco
        /\ visti \subseteq DOMAIN elenco
        /\ \A x \in iniziali : posto(x) < inizio => x \in visti
    BY <1>9 DEF InvCammino, Camminato, Coperti, inizio
  <2>2. ASSUME NEW x \in iniziali,
               pagina' = 0 \/ posto(x) < (pagina' - 1) * dimensione
        PROVE  x \in visti'
    <3>1. x \in DOMAIN elenco
      BY <2>1
    <3>2. posto(x) < inizio + dimensione
      <4>1. posto(x) < n
        <5>1. \E i \in 1..n : s[i] = x
          BY <3>1, StessiOperatori DEF Cammino!SortPratiche, n
        <5>2. PICK i \in 1..n : s[i] = x
          BY <5>1
        <5>3. Ordinata(ordine, elenco, s)
          BY StessiOperatori DEF Cammino!SortPratiche, Cammino!Precede, Ordinata, Avanti
        <5>4. posto(x) = i - 1
          BY <5>2, <5>3, <1>4, <2>1, PostoOrdinata DEF n
        <5> QED BY <5>4, <1>4
      <4> QED BY <4>1, <2>2, <1>4, <1>5, <1>6, <1>7, <3>1
    <3>3. CASE posto(x) < inizio
      BY <3>3, <2>1, <1>7
    <3>4. CASE ~(posto(x) < inizio)
      BY <3>1, <3>2, <3>4, <1>3, <1>5, <1>6, <1>7, <2>1
    <3> QED BY <3>3, <3>4
  <2> QED BY <2>1, <2>2, <1>3, <1>7 DEF Coperti
<1>10. ASSUME accaduto = {}
       PROVE  Alle(elenco, ordine, dimensione, pagina', visti', doppi')
  <2>1. /\ Distinti(elenco) /\ visti \subseteq DOMAIN elenco
        /\ doppi = {} /\ \A x \in visti : posto(x) < inizio
    BY <1>2, <1>10 DEF InvCammino, Camminato, Coperti, Alle, inizio
  <2>2. \A x \in Q : inizio <= posto(x) /\ posto(x) < inizio + dimensione
    BY <2>1, <1>3
  <2>3. visti \cap Q = {}
    BY <2>1, <2>2, <1>5, <1>6
  <2>4. \A x \in visti' : posto(x) < inizio + dimensione
    BY <2>1, <2>2, <1>4, <1>5, <1>6, <1>7
  <2> QED BY <2>1, <2>3, <2>4, <1>7 DEF Alle
<1> QED BY <1>2, <1>8, <1>9, <1>10 DEF InvCammino, Camminato

LEMMA InitCammino == Cammino!ElenchiAssumption /\ Cammino!Init => InvCammino
<1> SUFFICES ASSUME Cammino!ElenchiAssumption, Cammino!Init PROVE InvCammino
  OBVIOUS
<1>1. PICK S \in SUBSET Id : elenco \in [S -> Chiavi]
  BY DEF Cammino!Init
<1>2. /\ ordine \in {"asc", "desc"} /\ dimensione \in Dimensioni /\ pagina = 1
      /\ visti = {} /\ doppi = {} /\ iniziali = DOMAIN elenco
      /\ accaduto = IF Cammino!Pari(elenco) THEN {"pari"} ELSE {}
  BY DEF Cammino!Init
<1>3. elenco \in [DOMAIN elenco -> Chiavi] /\ DOMAIN elenco \subseteq Id
  BY <1>1
<1>4. Elenco(elenco) /\ Cardinality(Id) \in Nat
  BY <1>3, ElencoFinito
<1>5. dimensione \in Nat /\ (pagina - 1) * dimensione = 0
  BY <1>2, AssunzioneCammino
<1>6. TipiCammino(elenco, ordine, dimensione, pagina, visti, doppi, iniziali, accaduto)
  BY <1>2, <1>3, <1>4, <1>5 DEF TipiCammino, Cammino!Evento
<1>7. ASSUME accaduto \subseteq {"entraPrima"}
      PROVE  Coperti(elenco, ordine, dimensione, pagina, visti, iniziali)
  <2>1. Distinti(elenco)
    BY <1>2, <1>7 DEF Cammino!Pari, Distinti
  <2>2. \A x \in DOMAIN elenco : Posto(ordine, elenco, x) \in Nat
    BY <1>4, PostoNat
  <2> QED BY <1>2, <1>5, <2>1, <2>2 DEF Coperti
<1>8. Alle(elenco, ordine, dimensione, pagina, visti, doppi)
  BY <1>2 DEF Alle
<1> QED BY <1>6, <1>7, <1>8 DEF InvCammino, Camminato

LEMMA NextCammino ==
  Cammino!ElenchiAssumption /\ InvCammino /\ [Cammino!Next]_Cammino!vars => InvCammino'
<1> SUFFICES ASSUME Cammino!ElenchiAssumption, InvCammino, [Cammino!Next]_Cammino!vars
             PROVE  InvCammino'
  OBVIOUS
<1>1. CASE UNCHANGED Cammino!vars
  BY <1>1 DEF Cammino!vars, InvCammino
<1>2. CASE Cammino!Legge
  BY <1>2, LeggeCammino
<1>3. ASSUME NEW id \in Id,
             Cammino!Esce(id) \/ \E k \in Chiavi : Cammino!CambiaChiave(id, k)
      PROVE  InvCammino'
  BY <1>3, EsceCammino
<1>4. ASSUME NEW id \in Id, NEW k \in Chiavi, Cammino!Entra(id, k)
      PROVE  InvCammino'
  BY <1>4, EntraCammino
<1> QED BY <1>1, <1>2, <1>3, <1>4 DEF Cammino!Next

\* The types of a walk, and what it shows, from the invariant.
LEMMA CamminoDaInv == InvCammino => Cammino!TypeOK /\ Cammino!CamminoEsatto
<1>1. InvCammino => Cammino!TypeOK
  BY DEF InvCammino, Camminato, TipiCammino, Cammino!TypeOK
<1>2. InvCammino => Cammino!CamminoEsatto
  BY DEF InvCammino, Camminato, Coperti, Alle, Cammino!CamminoEsatto
<1> QED BY <1>1, <1>2

-----------------------------------------------------------------------------
(* The parts together (Ufficio).                                           *)

\* What the parts that rest are like.
Riposo ==
  /\ store = "memory" /\ eventi = {} /\ sospesi = << >> /\ mostrato = Chiuso
  /\ persi = FALSE

InvUfficio ==
  /\ TipiAccessi
  /\ IF caso = "allarmi" THEN InvLog /\ InvTracce /\ TipiLog ELSE Riposo
  /\ InvIP
  /\ InvCammino
  /\ IF caso = "pagina" THEN TipiPagine ELSE esito = Pagine!InAttesa

\* The assumptions of the parts.
LEMMA AssunzioniUfficio ==
  Policy!PolicyAssumption /\ Cammino!ElenchiAssumption /\ Pagine!PaginazioneAssumption
BY UfficioAssumption

LEMMA UfficioIniziale == InitUfficio => InvUfficio
<1> SUFFICES ASSUME InitUfficio PROVE InvUfficio
  OBVIOUS
<1>1. InitAllarmi /\ Init
  BY DEF InitUfficio, InitAllarmi
<1>2. TipiAccessi
  BY <1>1, TipiAccessiInit
<1>3. InvLog /\ InvTracce /\ TipiLog
  BY <1>1, TracceIniziali, LogIniziale
<1>4. caso # "allarmi" => Riposo
  BY DEF InitUfficio, InitAllarmi, InitLog, Riposo
<1>5. InvIP /\ InvCammino
  BY AssunzioniUfficio, InitIP, InitCammino DEF InitUfficio
<1>6. IF caso = "pagina" THEN TipiPagine ELSE esito = Pagine!InAttesa
  BY TipiPaginaIniziali DEF InitUfficio
<1> QED BY <1>2, <1>3, <1>4, <1>5, <1>6 DEF InvUfficio

\* A step is one of each part, or leaves it alone.
LEMMA PassoDelleParti ==
  ASSUME [NextUfficio]_varsUfficio
  PROVE  /\ UNCHANGED caso
         /\ IF caso = "allarmi" THEN [NextAllarmi]_varsAllarmi
            ELSE [Next]_vars /\ UNCHANGED varsLog
         /\ [Policy!Next]_Policy!vars
         /\ [Cammino!Next]_Cammino!vars
         /\ IF caso = "pagina" THEN [Pagine!Next]_Pagine!vars ELSE UNCHANGED varsPagina
<1> USE DEF varsAllarmi, varsLog, varsIP, varsElenco, varsPagina
<1>1. UNCHANGED varsIP <=> UNCHANGED Policy!vars
  BY DEF Policy!vars
<1>2. UNCHANGED varsElenco <=> UNCHANGED Cammino!vars
  BY DEF Cammino!vars
<1>3. UNCHANGED varsPagina <=> UNCHANGED Pagine!vars
  BY DEF Pagine!vars
<1>4. UNCHANGED varsAllarmi <=> UNCHANGED vars /\ UNCHANGED varsLog
  OBVIOUS
<1> USE DEF varsUfficio
<1>5. CASE UNCHANGED varsUfficio
  BY <1>1, <1>2, <1>3, <1>4, <1>5
<1>6. CASE NextUfficio
  BY <1>1, <1>2, <1>3, <1>4, <1>6 DEF NextUfficio
<1> QED BY <1>5, <1>6

\* A step of the alarms is one of the logins, or leaves them alone.
LEMMA PassoAccessi == [NextAllarmi]_varsAllarmi => [Next]_vars
<1> SUFFICES ASSUME [NextAllarmi]_varsAllarmi PROVE [Next]_vars
  OBVIOUS
<1>1. ASSUME NEW r \in Richieste, NEW e \in Email, LoginArriva(r, e)
      PROVE  Next
  BY <1>1 DEF LoginArriva, Next
<1>2. ASSUME NEW r \in Richieste,
             LoginIsLocked(r) \/ LoginFallito(r) \/ LoginNonConta(r) \/ LoginRiuscito(r)
      PROVE  Next
  BY <1>2 DEF LoginIsLocked, LoginFallito, LoginNonConta, LoginRiuscito, Next
<1>3. ASSUME NEW r \in Richieste, LoginSenzaEmail(r) \/ Scrive(r) \/ AddFallisce(r)
      PROVE  UNCHANGED vars
  BY <1>3 DEF LoginSenzaEmail, Scrive, AddMemory, AddTimbra, AddInserisce, AddFallisce
<1>4. AltroEvento \/ Apre \/ Battito \/ Chiude => UNCHANGED vars
  BY DEF AltroEvento, Apre, Battito, Chiude
<1>5. Passa => Next
  BY DEF Passa, Next
<1>6. CASE UNCHANGED varsAllarmi
  BY <1>6 DEF varsAllarmi
<1> QED BY <1>1, <1>2, <1>3, <1>4, <1>5, <1>6 DEF NextAllarmi

LEMMA UfficioPasso == InvUfficio /\ [NextUfficio]_varsUfficio => InvUfficio'
<1> SUFFICES ASSUME InvUfficio, [NextUfficio]_varsUfficio PROVE InvUfficio'
  OBVIOUS
<1>1. /\ UNCHANGED caso
      /\ IF caso = "allarmi" THEN [NextAllarmi]_varsAllarmi
         ELSE [Next]_vars /\ UNCHANGED varsLog
      /\ [Policy!Next]_Policy!vars
      /\ [Cammino!Next]_Cammino!vars
      /\ IF caso = "pagina" THEN [Pagine!Next]_Pagine!vars ELSE UNCHANGED varsPagina
  BY PassoDelleParti
<1>2. [Next]_vars
  BY <1>1, PassoAccessi
<1>3. TipiAccessi'
  BY <1>2, TipiAccessiPasso DEF InvUfficio
<1>4. ASSUME caso = "allarmi"
      PROVE  InvLog' /\ InvTracce' /\ TipiLog'
  BY <1>1, <1>4, TraccePasso, LogPasso DEF InvUfficio
<1>5. ASSUME caso # "allarmi"
      PROVE  Riposo'
  BY <1>1, <1>5 DEF InvUfficio, Riposo, varsLog
<1>6. InvIP'
  BY <1>1, AssunzioniUfficio, NextIP DEF InvUfficio
<1>7. InvCammino'
  BY <1>1, AssunzioniUfficio, NextCammino DEF InvUfficio
<1>8. (IF caso = "pagina" THEN TipiPagine ELSE esito = Pagine!InAttesa)'
  BY <1>1, TipiPaginaPasso DEF InvUfficio, varsPagina
<1>9. (IF caso = "allarmi" THEN InvLog /\ InvTracce /\ TipiLog ELSE Riposo)'
  BY <1>1, <1>4, <1>5
<1> QED BY <1>3, <1>6, <1>7, <1>8, <1>9 DEF InvUfficio

\* Every variable keeps its type: the times of the buckets and of the entries,
\* the events of the log, whose numbers stay within its bound because a login
\* starts only while there is room for its event, and what the stream shows.
THEOREM TypeUfficioUfficio == SpecUfficio => []TypeUfficio
<1>1. InvUfficio => TypeUfficio
  <2> SUFFICES ASSUME InvUfficio PROVE TypeUfficio
    OBVIOUS
  <2>1. TypeAllarmi
    <3>1. CASE caso = "allarmi"
      BY <3>1, TypeAllarmiDaInv DEF InvUfficio
    <3>2. CASE caso # "allarmi"
      <4>1. TypeOK /\ Riposo
        BY <3>2, TipiAccessiTypeOK DEF InvUfficio
      <4>2. DOMAIN sospesi = {} /\ sospesi \in [DOMAIN sospesi -> Sospeso]
        BY <4>1 DEF Riposo
      <4> QED BY <4>1, <4>2 DEF Riposo, TypeAllarmi
    <3> QED BY <3>1, <3>2
  <2>2. Policy!TypeOK /\ Cammino!TypeOK
    BY AssunzioniUfficio, InvTypeOKIP, CamminoDaInv DEF InvUfficio
  <2> QED BY <2>1, <2>2 DEF TypeUfficio
<1> QED BY <1>1, UfficioIniziale, UfficioPasso, PTL DEF SpecUfficio

\* However the lists were built, changed and emptied, and whatever happens to
\* them between the two calls of a decision, the longest rule decides, and
\* among equally long ones the block (README.md:110, with its one exception).
THEOREM PrecedenzaPrefissiUfficio == SpecUfficio => []PrecedenzaPrefissi
<1>1. InvUfficio => PrecedenzaPrefissi
  BY AssunzioniUfficio, PrecedenzaDaInv DEF InvUfficio, PrecedenzaPrefissi
<1> QED BY <1>1, UfficioIniziale, UfficioPasso, PTL DEF SpecUfficio

\* For integers of any width and any sizes: as long as its arithmetic fits, a page
\* is exactly the items whose positions belong to it; and a page that the code
\* answers is never longer than the largest, also when it does not
\* (paginateBounds, server.go:3474).
THEOREM PaginaEsattaUfficio == SpecUfficio => []PaginaEsatta
<1>1. InvUfficio => PaginaEsatta
  <2> SUFFICES ASSUME InvUfficio PROVE PaginaEsatta
    OBVIOUS
  <2>1. CASE caso = "pagina"
    BY <2>1, AssunzioniUfficio, PaginaDaTipi DEF InvUfficio, PaginaEsatta
  <2>2. CASE caso # "pagina"
    BY <2>2 DEF InvUfficio, PaginaEsatta, Pagine!PaginaEsatta
  <2> QED BY <2>1, <2>2
<1> QED BY <1>1, UfficioIniziale, UfficioPasso, PTL DEF SpecUfficio

\* For lists, keys and pages of any number and size, in either direction: a walk
\* that is over has shown every item listed when it began, whatever entered
\* meanwhile, and, if all entered after the others, none twice
\* (sortPratiche, server.go:1543; paginateBounds, server.go:3474).
THEOREM CamminoEsattoUfficio == SpecUfficio => []CamminoEsatto
<1>1. InvUfficio => CamminoEsatto
  BY CamminoDaInv DEF InvUfficio, CamminoEsatto
<1> QED BY <1>1, UfficioIniziale, UfficioPasso, PTL DEF SpecUfficio

=============================================================================
