CONSTANTS
  C = 2
  E = 1
  K = 1
  J = 1
  Acquisti = {0, 1}
  Segnali = {3}
  MaxSegnali = 1
  MaxCambi = 0
  POS_MIN_CHQUEUE = 1
  NULL = NULL
  MaxVisite = 2
SPECIFICATION Spec
INVARIANTS
  LogConcorde
  FermoSoloBloccato
  FermoSpiegato
CHECK_DEADLOCK FALSE
