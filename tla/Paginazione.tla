------------------------------- MODULE Paginazione -------------------------------
(***************************************************************************)
(* One page of a list: what the handlers of the back-office lists make of  *)
(* `page` and `page_size` (parsePagination), the bounds of the slice they  *)
(* answer (paginateBounds), and the slice itself.  Integers are those of   *)
(* Go, from -MaxInt - 1 to MaxInt, and wrap: (page - 1) * pageSize is      *)
(* computed in them, and a slice whose bounds are out of order or of range *)
(* panics.                                                                 *)
(***************************************************************************)
EXTENDS Integers, FiniteSets

CONSTANTS MaxInt,       \* the largest int, 2^63 - 1
          Predefinita,  \* page size when none is given (25)
          Massima       \* largest page size (200)

VARIABLES richiesta,    \* [totale, pagina, dimensione]: the list, the parameters
          esito         \* what the handler answers

vars == <<richiesta, esito>>

PaginazioneAssumption ==
  /\ MaxInt \in Nat /\ Predefinita \in 1..Massima /\ Massima \in 1..MaxInt

\* The number of values of an int.
Interi == 2 * (MaxInt + 1)

\* A result of arithmetic, kept to the bits of an int.
Avvolge(n) ==
  LET m == n % Interi IN IF m > MaxInt THEN m - Interi ELSE m

\* A parameter that is missing, or that strconv.Atoi refuses, is 0 here.
Pagina(raw) == IF raw > 0 THEN raw ELSE 1

Dimensione(raw) ==
  IF raw > 0 THEN (IF raw > Massima THEN Massima ELSE raw) ELSE Predefinita

\* The slice [start, end) of a list of `total` items, from 0.
paginateBounds(total, page, pageSize) ==
  LET start == Avvolge((page - 1) * pageSize)
      end == Avvolge(start + pageSize)
  IN  IF total <= 0 THEN [start |-> 0, end |-> 0]
      ELSE IF start >= total THEN [start |-> total, end |-> total]
      ELSE [start |-> start, end |-> IF end > total THEN total ELSE end]

\* May the slice be taken, or does the handler panic?
Valida(b, total) == 0 <= b.start /\ b.start <= b.end /\ b.end <= total

Posizioni(b) == b.start .. b.end - 1

-----------------------------------------------------------------------------

InAttesa == [tipo |-> "attesa", posizioni |-> {}]

Init ==
  /\ richiesta \in [totale : 0..MaxInt, pagina : 0..MaxInt, dimensione : 0..MaxInt]
  /\ esito = InAttesa

Risposta(page, pageSize) ==
  LET b == paginateBounds(richiesta.totale, page, pageSize)
  IN  IF Valida(b, richiesta.totale)
      THEN [tipo |-> "pagina", posizioni |-> Posizioni(b)]
      ELSE [tipo |-> "panico", posizioni |-> {}]

\* Mutant: the parameters are used as they come.
RispondeAlGrezzo ==
  /\ esito = InAttesa
  /\ esito' = Risposta(richiesta.pagina, richiesta.dimensione)
  /\ UNCHANGED richiesta

\* Any of the listing handlers.
Risponde ==
  /\ esito = InAttesa
  /\ esito' = Risposta(Pagina(richiesta.pagina), Dimensione(richiesta.dimensione))
  /\ UNCHANGED richiesta

Next == Risponde

Spec == Init /\ [][Next]_vars

-----------------------------------------------------------------------------
(* Properties.                                                             *)

\* The items of a page, by their definition.
DellaPagina(total, page, pageSize) ==
  {i \in 0..total - 1 : i \div pageSize = page - 1}

\* The arithmetic of a request stays within an int.
Entra(total, page, pageSize) ==
  (page - 1) * pageSize <= MaxInt /\ total + pageSize <= MaxInt

\* Every page of every list is the items whose position belongs to it: none
\* is answered on two pages or on none, the last page is cut, and one beyond
\* it is empty, as long as (page - 1) * pageSize does not overflow.  When it
\* does, the slice may panic, or be another page; never is it longer than the
\* largest page.
PaginaEsatta ==
  esito # InAttesa =>
    LET page == Pagina(richiesta.pagina)
        pageSize == Dimensione(richiesta.dimensione)
    IN  /\ Entra(richiesta.totale, page, pageSize) =>
             esito = [tipo |-> "pagina",
                      posizioni |-> DellaPagina(richiesta.totale, page, pageSize)]
        /\ Cardinality(esito.posizioni) <= Massima

=============================================================================
