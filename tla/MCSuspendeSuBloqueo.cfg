SPECIFICATION Spec
CONSTANTS
  MaxBloqueos = 2
  MaxDumps = 1
  SePierdenIOs = FALSE
INVARIANTS SuspendeSuBloqueo
CHECK_DEADLOCK FALSE
