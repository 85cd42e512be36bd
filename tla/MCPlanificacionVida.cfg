SPECIFICATION SpecJusta
CONSTANTS
  MaxProcesos = 2
  MaxSyscalls = 1
  Cpus = {c1}
  Pesos = {1, 2}
  Estimaciones = {1, 2}
  ALGORITMO_CORTO_PLAZO = "SJF"
  ALGORITMO_INGRESO_A_READY = "PMCP"
  SePierdenAvisos = TRUE
  ConTimer = {0}
  Nadie = Nadie
INVARIANTS ColasOrdenadas
PROPERTIES TodoProcesoTermina
CHECK_DEADLOCK FALSE
