SPECIFICATION Spec
CONSTANTS
  c1 = c1
  c2 = c2
  p1 = p1
  p2 = p2
  p3 = p3
  NADA = NADA
  CPUs = {c1, c2}
  Pids = {p1, p2, p3}
  Estimaciones = {1, 2}
  EstimacionInicial = 2
  Regimenes <- SoloConPausas
INVARIANTS
  HayAQuienDesalojar
CHECK_DEADLOCK FALSE
