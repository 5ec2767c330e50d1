CONSTANTS
  C = 2
  E = 1
  Acquisti = {0, 1}
  Segnali = {1, 3}
  MaxSegnali = 2
SPECIFICATION FairSpec
INVARIANTS
  TypeOK
  ConservazioneLavori
  BilancioIngressi
  AttiviPlausibili
  PermessoUnico
PROPERTIES
  StatoMonotono
  ImplementaNegozio
  SoftTermina
  ChiusuraRaggiungeTutti
CHECK_DEADLOCK FALSE
