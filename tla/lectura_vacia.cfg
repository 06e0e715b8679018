SPECIFICATION Spec
CONSTANTS
  c1 = c1
  c2 = c2
  p1 = p1
  p2 = p2
  NADA = NADA
  Cpu = {c1, c2}
  Pid = {p1, p2}
  Pagina = {0, 1, 2, 3, 4}
  NMarcos = 5
  Formas <- Pequenias
  CERO = 0
  VACIO = VACIO
  Valor = {0, 1}
  Configs <- SinCache
PROPERTIES
  SiempreLlega
CHECK_DEADLOCK FALSE
