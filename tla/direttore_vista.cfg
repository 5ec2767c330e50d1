CONSTANTS
  K = 2
  J = 2
  S1 = 2
  S2 = 2
  MaxCoda = 1
  MaxSocket = 1
  MaxJobs = 0
  Quit = TRUE
SPECIFICATION FairSpec
INVARIANT
  NotificatoreUnito
PROPERTY
  VistaAggiornata
CHECK_DEADLOCK FALSE
