SPECIFICATION Spec
CONSTANTS
  MaxProcesos = 2
  MaxSyscalls = 1
  Cpus = {c1, c2}
  Pesos = {1}
  Estimaciones = {1}
  ALGORITMO_CORTO_PLAZO = "FIFO"
  ALGORITMO_INGRESO_A_READY = "FIFO"
  SePierdenAvisos = FALSE
  ConTimer = {0}
  Nadie = Nadie
INVARIANTS FinalizaConConfirmacion
CHECK_DEADLOCK FALSE
