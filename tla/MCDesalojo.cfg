SPECIFICATION Spec
CONSTANTS
  p1 = p1
  p2 = p2
  Procesos = {p1, p2}
  CantCpus = 2
  MaxVueltas <- MCMaxVueltas
  Nadie = nadie
INVARIANTS TypeOK EnUnaCpu MensajeEnExec PedidoBienDirigido UnDesalojoPorPedido
CHECK_DEADLOCK FALSE
