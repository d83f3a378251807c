\* Two handlers over MemoryStore, through the whole workflow, with files and operators.
SPECIFICATION FairSpec
CONSTANTS
  p1 = p1  ada = ada  olga = olga  d1 = d1  f1 = f1  r1 = r1  r2 = r2
  PraticaId = {p1}
  Utenti = {ada}
  Operatori = {olga}
  Dati = {d1}
  Documenti = {f1}
  Richieste = {r1, r2}
  MaxEventi = 10
  MaxContorno = 4
INVARIANTS TypeOK PraticheCoerenti
PROPERTIES ImplementaCicloVita VistoInviatoSiCompleta
CHECK_DEADLOCK FALSE
