SPECIFICATION Spec
CONSTANTS
  MaxProcesos = 2
  MaxSyscalls = 2
  Cpus = {c1, c2}
  Pesos = {1}
  Estimaciones = {1}
  ALGORITMO_CORTO_PLAZO = "FIFO"
  ALGORITMO_INGRESO_A_READY = "FIFO"
  SePierdenAvisos = FALSE
  ConTimer = {0}
  Nadie = Nadie
SYMMETRY SimetriaCpus
INVARIANTS TypeOK  NingunoPerdido LiberadoSoloEnTimers SemaforosCuentan TokensDeInicio SemaforoGarantiza CpuExclusiva SyscallEncuentraProceso
PROPERTIES CumpleCicloDeVida
CHECK_DEADLOCK FALSE
