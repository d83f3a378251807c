\* Starts that stop and start again, with the accounts and the pratiche they
\* seed; two runs of the script beside a request of the server.
SPECIFICATION SpecSemina
CONSTANTS
  pa = pa  pb = pb  n1 = n1  n2 = n2  n3 = n3  n4 = n4  n5 = n5  u1 = u1  u2 = u2
  y1 = y1  op = op  adm = adm  ope = ope  ada = ada  x1 = x1  qa = qa
  Utenti = {}
  Operatori = {op}
  Dati = {}
  Documenti = {}
  Processi = {pa, pb}
  PraticaId = {n1, n2, n3, y1}
  Target = 2
  Indici = {1, 5, 6, 7, 9, 11}
  Guidate = {y1}
  Gestori = {qa}
  MaxFile = 1
  Semi = {adm, ope}
  Altri = {ada}
  Ident = {u1, u2}
  Regole = {x1}
  Ambienti <- AmbientiMC
  Corse = {pa, pb}
  RichiesteSeme = {qa}
  IdentSeme = {n1, n2, n3, n4, n5}
  MaxUtenti = 2
  MaxPratiche = 2
  Decisioni = {"BOZZA", "INVIATA", "IN_LAVORAZIONE", "INTEGRAZIONE_RICHIESTA", "SOSPESA",
    "APPROVATA", "RIFIUTATA", "ATTENDE_PAGAMENTO", "PAGAMENTO_RICEVUTO",
    "VISTO_IN_ELABORAZIONE", "VISTO_EMESSO", "COMPLETATA", "ANNULLATA"}
  DecisioniSeme = {"INVIATA", "IN_LAVORAZIONE"}
INVARIANTS TypeSemina DemoLimitate PianoCompiuto BlocchiDuranoInProduzione
  SemiPresenti SemeCoerente
PROPERTIES IdentitaStabile
SYMMETRY Simmetria
CHECK_DEADLOCK FALSE
