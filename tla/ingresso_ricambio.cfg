CONSTANTS
  C = 3
  E = 2
  Acquisti = {0}
  Segnali = {}
  MaxSegnali = 0
SPECIFICATION FairSpec
INVARIANT
  SonnoSoloSenzaLavoro
PROPERTIES
  RicambioContinuo
  PermessoArriva
CHECK_DEADLOCK FALSE
