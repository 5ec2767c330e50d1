CONSTANTS
  Segnali = {1, 3}
  MaxSegnali = 2
  MaxSocket = 2
  MaxAvvii = 2
  MaxCadute = 1
SPECIFICATION FairSpec
INVARIANTS
  TypeOK
  FileRimosso
PROPERTIES
  SegnaliInoltrati
  FineVista
  RinunciaSenzaDirettore
  AttesaUtile
CHECK_DEADLOCK FALSE
