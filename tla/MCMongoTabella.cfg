\* Two handlers over MongoStore leave the transition table.
SPECIFICATION SpecIstanze
CONSTANTS
  p1 = p1  ada = ada  olga = olga  d1 = d1  f1 = f1  r1 = r1  r2 = r2  r3 = r3
  PraticaId = {p1}
  Utenti = {ada}
  Operatori = {olga}
  Dati = {d1}
  Documenti = {f1}
  Richieste = {r1, r2, r3}
  MaxEventi = 9
PROPERTIES StatoSegueTabella
CHECK_DEADLOCK FALSE
