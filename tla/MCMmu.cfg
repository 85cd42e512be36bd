SPECIFICATION Spec
CONSTANTS
  c1 = c1
  c2 = c2
  p1 = p1
  p2 = p2
  CPUs = {c1, c2}
  Procesos = {p1, p2}
  PaginasP1 = 3
  CantPaginas <- MCPaginas
  CantMarcos = 4
  TablaInicial <- MCTabla
  TablaUnica = FALSE
  Datos = {0, 1, 2}
  Cero = 0
  SinFinal <- MCSinFinal
  EntradasTlb <- MCTlb
  EntradasCache <- MCCache
  ReemplazoTlb <- MCReemplazoTlb
  ReemplazoCache <- MCReemplazoCache
  ReemplazoC1 = "CLOCK-M"
  SeSuspenden = {}
  Nadie = nadie
INVARIANTS TypeOK TraduccionPropia LeeLoQueEscribio GuardadoTrasIO
PROPERTIES VictimaJusta
CONSTRAINT Interesa
CHECK_DEADLOCK FALSE
