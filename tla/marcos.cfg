SPECIFICATION Spec
CONSTANTS
  NADA = NADA
  CERO = CERO
  p1 = p1
  p2 = p2
  p3 = p3
  Pid = {p1, p2, p3}
  Paginas <- UnoUnoDos
  NMarcos = 3
  MaxPaginas = 2
  MaxSusp = 2
INVARIANTS
  TiposMemoria
  MarcosExactos
  ContenidoIntacto
  SwapExacto
PROPERTIES
  CumpleResidencia
SYMMETRY Iguales
CHECK_DEADLOCK FALSE
