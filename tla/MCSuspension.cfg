SPECIFICATION SpecJusta
CONSTANTS
  MaxBloqueos = 3
  MaxDumps = 1
  SePierdenIOs = TRUE
INVARIANTS TypeOK DecisionVigente
PROPERTIES NadieQuedaEsperando
CHECK_DEADLOCK FALSE
