\* The documented order of precedence.
SPECIFICATION Spec
CONSTANTS
  c1 = c1  ip = ip  ip32 = ip32  rete24 = rete24  rete16 = rete16  r1 = r1  r2 = r2
  Bersagli = {ip, ip32, rete24}
  Esatti = {ip}
  Prefisso <- PrefissoMC
  Pieno = 32
  Clienti = {c1}
  Copre <- CopreMC
  Richieste = {r1}
  MaxIstante = 1
INVARIANTS DecisioneDocumentata
CHECK_DEADLOCK FALSE
