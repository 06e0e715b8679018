SPECIFICATION SpecJusta
CONSTANTS
  MaxPids = 1
  MaxSyscalls = 3
  c1 = c1
  c2 = c2
  i1 = i1
  i2 = i2
  disco = disco
  NADA = NADA
  CPUs = {c1}
  Instancias = {i1}
  NombresIO = {disco}
  NombreIO <- SoloI1
  CPUsAlInicio <- UnaCPU
  IOsAlInicio <- UnaIO
  Algoritmo = "FIFO"
  PMCP = FALSE
  Estimaciones = {1}
  EstimacionInicial = 1
  Tamanios = {1}
  Capacidad = 3
  Programa <- ProgramaSoloDump
  Suspension = FALSE
  FallaDump = TRUE
  FetchLento = TRUE
  PausaDump = FALSE
PROPERTIES
  CPUSeLibera
CHECK_DEADLOCK FALSE
