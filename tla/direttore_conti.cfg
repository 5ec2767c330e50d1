CONSTANTS
  K = 2
  J = 2
  S1 = 1
  S2 = 2
  MaxCoda = 2
  MaxSocket = 1
  MaxJobs = 1
  Quit = FALSE
SPECIFICATION Spec
INVARIANTS
  TypeOK
  ContatoriCoerenti
PROPERTY
  RestaAlmenoUna
CHECK_DEADLOCK FALSE
