CONSTANTS
  K = 1
  J = 1
  Clienti = {c1, c2}
  MaxCambi = 0
  POS_MIN_CHQUEUE = 0
  MaxAperture = 1
  MaxChiusure = 1
  Quit = TRUE
  NULL = NULL
  c1 = c1
  c2 = c2
SPECIFICATION FairSpec
PROPERTIES
  CodaAvanza
  ChiusuraEseguita
  ChiusuraRaggiungeCassieri
CHECK_DEADLOCK FALSE
