SPECIFICATION SpecJusta
CONSTANTS
  p1 = p1
  p2 = p2
  d1 = d1
  d2 = d2
  n = n
  Procesos = {p1, p2}
  Disp = {d1, d2}
  Nombre <- MCNombre
  MaxHilos = 2
  MaxUsos <- MCMaxUsos
  SeSuspenden = {p2}
  Nadie = nadie
INVARIANTS TypeOK EsperaRespondida ListaSinLiberadas RespuestaPropia NingunoOlvidado
PROPERTIES EsperaTermina
CHECK_DEADLOCK FALSE
