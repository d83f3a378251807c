--------------------------------- MODULE Elenchi ---------------------------------
(***************************************************************************)
(* A client of the back office walks through a list page by page while     *)
(* other requests change it.  Every page is computed afresh: the store     *)
(* lists everything, the handler filters and sorts it (sort.Slice, which   *)
(* is not stable, with `!less` for "desc"), and answers one slice and the  *)
(* total.  The client goes on until page * page_size reaches the total.    *)
(*                                                                         *)
(* An item is its id and its sort key.  `elenco` holds the items that pass *)
(* the filter: one that starts or stops to match it enters or leaves.      *)
(***************************************************************************)
EXTENDS Mappe, Integers, FiniteSets, Sequences

CONSTANTS Id,            \* items
          Chiavi,        \* values of the sort key
          Dimensioni,    \* page sizes a client may ask for
          MaxInt         \* the largest int

\* The walk is of lists whose pages do not overflow.
ElenchiAssumption ==
  /\ IsFiniteSet(Id) /\ Chiavi \subseteq Int /\ MaxInt \in Nat
  /\ Dimensioni \subseteq Nat \ {0}
  /\ \A d \in Dimensioni : Cardinality(Id) + d <= MaxInt

Paging == INSTANCE Paginazione WITH
  Predefinita <- 25, Massima <- 200, richiesta <- 0, esito <- 0

VARIABLES elenco,      \* id -> sort key
          ordine,      \* "asc" or "desc"
          dimensione,  \* page_size
          pagina,      \* next page to ask for; 0 when the walk is over
          visti,       \* ids answered so far
          doppi,       \* ids answered on two pages
          iniziali,    \* ids listed when the walk began (history)
          accaduto     \* what happened to the list since (history)

vars == <<elenco, ordine, dimensione, pagina, visti, doppi, iniziali, accaduto>>

\* An item left; a key changed; two keys are equal; an item entered before one
\* that was listed already.
Evento == {"esce", "cambia", "pari", "entraPrima"}

TypeOK ==
  /\ DOMAIN elenco \subseteq Id
  /\ elenco \in [DOMAIN elenco -> Chiavi]
  /\ ordine \in {"asc", "desc"}
  /\ dimensione \in Dimensioni
  /\ pagina \in Nat
  /\ doppi \subseteq visti /\ visti \subseteq Id
  /\ iniziali \subseteq Id
  /\ accaduto \subseteq Evento

\* May an item with key k come before one with key j?
Precede(k, j) == IF ordine = "asc" THEN k <= j ELSE k >= j

Pari(m) == \E x, y \in DOMAIN m : x # y /\ m[x] = m[y]

Init ==
  /\ \E S \in SUBSET Id : elenco \in [S -> Chiavi]
  /\ ordine \in {"asc", "desc"}
  /\ dimensione \in Dimensioni
  /\ pagina = 1
  /\ visti = {}
  /\ doppi = {}
  /\ iniziali = DOMAIN elenco
  /\ accaduto = IF Pari(elenco) THEN {"pari"} ELSE {}

Cammina == pagina # 0

Resta == UNCHANGED <<ordine, dimensione, pagina, visti, doppi, iniziali>>

\* What a change makes true of the walk.
Annota(eventi) ==
  accaduto' = accaduto \cup eventi \cup (IF Pari(elenco') THEN {"pari"} ELSE {})

\* A pratica is created, or starts to match the filter.
Entra(id, k) ==
  /\ Cammina
  /\ id \notin DOMAIN elenco
  /\ elenco' = Con(elenco, id, k)
  /\ Annota(IF \A x \in DOMAIN elenco : ~Precede(k, elenco[x]) THEN {} ELSE {"entraPrima"})
  /\ Resta

\* A draft is deleted, or stops to match.
Esce(id) ==
  /\ Cammina
  /\ id \in DOMAIN elenco
  /\ elenco' = Senza(elenco, id)
  /\ Annota({"esce"})
  /\ Resta

\* The state or the priority the list is sorted by changes.
CambiaChiave(id, k) ==
  /\ Cammina
  /\ id \in DOMAIN elenco
  /\ elenco[id] # k
  /\ elenco' = [elenco EXCEPT ![id] = k]
  /\ Annota({"cambia"})
  /\ Resta

\* Mutant: the list is not sorted (the maps of MemoryStore have no order).
SortPraticheNon ==
  {s \in [1..Cardinality(DOMAIN elenco) -> DOMAIN elenco] : Range(s) = DOMAIN elenco}

\* The orders the sort may return: equal keys come out in any.
SortPratiche ==
  {s \in [1..Cardinality(DOMAIN elenco) -> DOMAIN elenco] :
     /\ Range(s) = DOMAIN elenco
     /\ \A i \in DOMAIN s, j \in DOMAIN s : i < j => Precede(elenco[s[i]], elenco[s[j]])}

\* The items of the page the client asks for.
PaginaDi(s) ==
  LET b == Paging!paginateBounds(Len(s), pagina, dimensione)
  IN  {s[i + 1] : i \in Paging!Posizioni(b)}

Legge ==
  /\ Cammina
  /\ \E s \in SortPratiche :
       /\ visti' = visti \cup PaginaDi(s)
       /\ doppi' = doppi \cup (visti \cap PaginaDi(s))
       /\ pagina' = IF pagina * dimensione >= Len(s) THEN 0 ELSE pagina + 1
  /\ UNCHANGED <<elenco, ordine, dimensione, iniziali, accaduto>>

Next ==
  \/ Legge
  \/ \E id \in Id :
       \/ Esce(id)
       \/ \E k \in Chiavi : Entra(id, k) \/ CambiaChiave(id, k)

Spec == Init /\ [][Next]_vars

-----------------------------------------------------------------------------
(* Properties.                                                             *)

\* A walk that is over has shown every item that was listed when it began, if
\* none left, no key changed and no two keys were equal: items that enter,
\* wherever they do, only push others to later pages.  And it has shown no item
\* twice, if moreover none entered before others: a list of pratiche by date,
\* oldest first, while new ones are created.
CamminoEsatto ==
  /\ (pagina = 0 /\ accaduto \subseteq {"entraPrima"}) => iniziali \subseteq visti
  /\ accaduto = {} => doppi = {}

=============================================================================
