SPECIFICATION Spec
CONSTANTS
  NADA = NADA
  CERO = CERO
  p1 = p1
  p2 = p2
  p3 = p3
  Pid = {p1, p2}
  Paginas <- DosDos
  NMarcos = 4
  MaxPaginas = 2
  MaxSusp = 2
INVARIANTS
  InicioCorrecto
CHECK_DEADLOCK FALSE
