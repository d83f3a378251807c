\* Two handlers over each store; over MongoStore calls fail and processes crash;
\* an access token lives three ticks.
SPECIFICATION SpecIdentita
CONSTANTS
  ada = ada  t1 = t1  t2 = t2  t3 = t3  t4 = t4  r1 = r1  r2 = r2  k1 = k1  k2 = k2
  SessioneId = {t1, t2, t3, t4}
  Scadono = {t1}
  Utenti = {ada}
  Richieste = {r1, r2}
  Durata = 3
  Token = {t2, t3, t4}
  Segreti = {k1, k2}
  TokenFattore = 2
INVARIANTS TypeIdentita ErediLimitati RevocaTutteChiude RevocaEntroDurata
  TokenUnaVolta SoloConToken InvitoCompleto SecondoFattoreUsabile
PROPERTIES ChiusaResta
SYMMETRY Simmetria
CHECK_DEADLOCK FALSE
