CONSTANTS
  Segnali = {1, 3}
  MaxSegnali = 2
  MaxSocket = 2
  MaxAvvii = 2
  MaxCadute = 1
SPECIFICATION Spec
INVARIANT
  AlPiuCinque
CHECK_DEADLOCK FALSE
