CONSTANTS
  K = 2
  J = 1
  Clienti = {c1, c2}
  MaxCambi = 1
  POS_MIN_CHQUEUE = 0
  MaxAperture = 1
  MaxChiusure = 1
  Quit = FALSE
  NULL = NULL
  c1 = c1
  c2 = c2
SPECIFICATION Spec
SYMMETRY Simmetria
INVARIANTS
  TypeOK
  CodaCoerente
  ServizioEsclusivo
  MinQueueAttiva
  SonnoCassieri
  LavoriCasse
PROPERTY
  ImplementaSportelli
CHECK_DEADLOCK FALSE
