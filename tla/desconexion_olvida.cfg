SPECIFICATION SpecDesconexion
CONSTANTS
  MaxPids = 2
  MaxSyscalls = 3
  c1 = c1
  c2 = c2
  i1 = i1
  i2 = i2
  disco = disco
  NADA = NADA
  CPUs = {c1}
  Instancias = {i1}
  NombresIO = {disco}
  NombreIO <- SoloI1
  CPUsAlInicio <- UnaCPU
  IOsAlInicio <- UnaIO
  Algoritmo = "FIFO"
  PMCP = FALSE
  Estimaciones = {1}
  EstimacionInicial = 1
  Tamanios = {1}
  Capacidad = 2
  Programa <- ProgramaDosIO
  Suspension = FALSE
  FallaDump = FALSE
  FetchLento = FALSE
  PausaDump = FALSE
  SeApagan = {i1}
INVARIANTS
  NadieOlvidado
CHECK_DEADLOCK FALSE
