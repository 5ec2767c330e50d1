CONSTANTS
  K = 1
  J = 1
  Clienti = {c1}
  MaxCambi = 10
  POS_MIN_CHQUEUE = 1
  MaxAperture = 0
  MaxChiusure = 0
  Quit = FALSE
  NULL = NULL
  c1 = c1
SPECIFICATION FairSpec
PROPERTY
  ServitoEsce
CHECK_DEADLOCK FALSE
