SPECIFICATION SpecJusta
CONSTANTS
  p1 = p1
  p2 = p2
  p3 = p3
  s1 = s1
  s2 = s2
  Procesos = {p1, p2, p3}
  Tamanio <- MCTamanio
  TamPagina = 16
  CantFrames = 2
  CantEntradas = 3
  CantSwap = 2
  UsaSwap <- MCTodosUsanSwap
  Suspensiones = {s1, s2}
  Escriben = {p1}
  Datos = {0}
  Cero = 0
  Nadie = nadie
INVARIANTS TypeOK  PaginaEnUnLugar
PROPERTIES PedidoRespondido
CHECK_DEADLOCK FALSE
