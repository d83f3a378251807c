\* A payment of a pratica that is not waiting for it.
SPECIFICATION Spec
CONSTANTS
  p1 = p1  t1 = t1  t2 = t2  e1 = e1  e2 = e2  r1 = r1  r2 = r2
  PraticaId = {p1}
  Utenti = {}
  Operatori = {}
  Dati = {}
  Documenti = {}
  Token = {t1}
  Eventi = {e1, e2}
  TokenDi <- UnPagamento
  Richieste = {r1}
  Store = "mongo"
  Guasti = TRUE
INVARIANTS AvvisoVero
CHECK_DEADLOCK FALSE
