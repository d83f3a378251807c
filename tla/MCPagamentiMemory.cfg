\* Two handlers over MemoryStore; one payment with two events, one nobody pays.
SPECIFICATION FairSpec
CONSTANTS
  p1 = p1  t1 = t1  t2 = t2  e1 = e1  e2 = e2  r1 = r1  r2 = r2
  PraticaId = {p1}
  Utenti = {}
  Operatori = {}
  Dati = {}
  Documenti = {}
  Token = {t1, t2}
  Eventi = {e1, e2}
  TokenDi <- UnPagamento
  Richieste = {r1, r2}
  Store = "memory"
  Guasti = FALSE
INVARIANTS MarcatoConfermato AvvisoVeritiero
PROPERTIES PagataSiCompleta
CHECK_DEADLOCK FALSE
