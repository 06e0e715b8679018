SPECIFICATION SpecJusta
CONSTANTS
  MaxPids = 2
  MaxSyscalls = 3
  c1 = c1
  c2 = c2
  i1 = i1
  i2 = i2
  disco = disco
  NADA = NADA
  CPUs = {c1}
  Instancias = {i1}
  NombresIO = {disco}
  NombreIO <- SoloI1
  CPUsAlInicio <- UnaCPU
  IOsAlInicio <- UnaIO
  Algoritmo = "FIFO"
  PMCP = TRUE
  Estimaciones = {1}
  EstimacionInicial = 1
  Tamanios = {1, 2}
  Capacidad = 2
  Programa <- ProgramaDosEsperas
  Suspension = TRUE
  FallaDump = FALSE
  FetchLento = TRUE
  PausaDump = FALSE
INVARIANTS
  UnaSolaCola
  SemReadyExacto
  ResidenciaCorrecta
  UnoEnMemoria
PROPERTIES
  OrdenDeLlegada
  CumpleCicloDeVida
  Terminacion
  CPUSeLibera
