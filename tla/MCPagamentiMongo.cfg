\* Two handlers over MongoStore, calls that fail, crashes.
SPECIFICATION Spec
CONSTANTS
  p1 = p1  t1 = t1  t2 = t2  e1 = e1  e2 = e2  r1 = r1  r2 = r2
  PraticaId = {p1}
  Utenti = {}
  Operatori = {}
  Dati = {}
  Documenti = {}
  Token = {t1}
  Eventi = {e1, e2}
  TokenDi <- UnPagamento
  Richieste = {r1, r2}
  Store = "mongo"
  Guasti = TRUE
INVARIANTS TypeOK ConfermaUnica RimborsoDopoConferma
PROPERTIES ImplementaRegistro
SYMMETRY Simmetria
CHECK_DEADLOCK FALSE
