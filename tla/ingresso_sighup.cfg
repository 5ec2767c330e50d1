CONSTANTS
  C = 2
  E = 1
  Acquisti = {0}
  Segnali = {1}
  MaxSegnali = 1
SPECIFICATION FairSpec
PROPERTY
  SighupTermina
CHECK_DEADLOCK FALSE
