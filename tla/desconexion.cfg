SPECIFICATION SpecDesconexion
CONSTANTS
  MaxPids = 2
  MaxSyscalls = 3
  c1 = c1
  c2 = c2
  i1 = i1
  i2 = i2
  disco = disco
  NADA = NADA
  CPUs = {c1}
  Instancias = {i1, i2}
  NombresIO = {disco}
  NombreIO <- AmbosDisco
  CPUsAlInicio <- UnaCPU
  IOsAlInicio <- UnaIO
  Algoritmo = "FIFO"
  PMCP = FALSE
  Estimaciones = {1}
  EstimacionInicial = 1
  Tamanios = {1}
  Capacidad = 2
  Programa <- ProgramaDosIO
  Suspension = TRUE
  FallaDump = TRUE
  FetchLento = TRUE
  PausaDump = TRUE
  SeApagan = {i1}
INVARIANTS
  TiposDesconexion
  SeccionesCriticas
  NadieEnColaMuerta
CHECK_DEADLOCK FALSE
