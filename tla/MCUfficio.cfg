\* Logins of one account overlap, over more than two windows; a short log, with
\* events stamped before they are inserted; IP decisions while the rules change;
\* a walk over a list that changes; every page of every list.
SPECIFICATION SpecUfficio
CONSTANTS
  ada = ada  k1 = k1  r1 = r1  r2 = r2  r3 = r3  c1 = c1  ip = ip  ip32 = ip32  rete24 = rete24
  Email = {ada}
  Indirizzi = {k1}
  Richieste = {r1, r2}
  Limite = 2
  FinestraRate = 1
  MaxTentativi = 2
  FinestraLock = 1
  MaxOra = 5
  OraAllarmi = 3
  FinestraAllarme = 1
  SogliaAllarme = 1
  LimiteLista = 2
  MaxEventi = 3
  Bersagli <- BersagliMC
  Esatti = {ip}
  Prefisso <- PrefissoMC
  Pieno = 32
  Clienti = {c1}
  Copre <- CopreMC
  Gestori = {r3}
  MaxIstante = 0
  MaxInt = 31
  Predefinita = 3
  Massima = 8
  Id = {r1, r2, r3}
  Chiavi = {1, 2, 3}
  Dimensioni = {1, 2}
INVARIANTS TypeUfficio RateRispettato TentativiLimitati BloccoSegnalato
  TentativiSegnalati PrecedenzaPrefissi CamminoEsatto PaginaEsatta
SYMMETRY Simmetria
CHECK_DEADLOCK FALSE
