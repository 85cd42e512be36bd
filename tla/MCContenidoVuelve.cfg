SPECIFICATION Spec
CONSTANTS
  p1 = p1
  p2 = p2
  p3 = p3
  s1 = s1
  s2 = s2
  Procesos = {p1, p2, p3}
  Tamanio <- MCTamanio
  TamPagina = 16
  CantFrames = 3
  CantEntradas = 3
  CantSwap = 3
  UsaSwap <- MCTodosUsanSwap
  Suspensiones = {s1}
  Escriben = {p1, p2}
  Datos = {0, 1}
  Cero = 0
  Nadie = nadie
INVARIANTS ContenidoVuelve
CHECK_DEADLOCK FALSE
