CONSTANTS
  Code = {q1, q2}
  Elem = {a, b, c}
  Nodi = {n1, n2, n3}
  NULL = NULL
  q1 = q1
  q2 = q2
  a = a
  b = b
  c = c
  n1 = n1
  n2 = n2
  n3 = n3
SPECIFICATION Spec
SYMMETRY Simmetria
INVARIANTS
  TypeOK
  ListaDoppia
  NodiConservati
PROPERTY
  ImplementaFifo
CHECK_DEADLOCK FALSE
