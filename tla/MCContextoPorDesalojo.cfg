SPECIFICATION Spec
CONSTANTS
  p1 = p1
  p2 = p2
  Procesos = {p1, p2}
  CantCpus = 1
  MaxVueltas <- MCMaxVueltas
  Nadie = nadie
INVARIANTS ContextoPorDesalojo
CHECK_DEADLOCK FALSE
