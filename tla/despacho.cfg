SPECIFICATION Spec
CONSTANTS
  MaxPids = 3
  MaxSyscalls = 3
  c1 = c1
  c2 = c2
  i1 = i1
  i2 = i2
  disco = disco
  NADA = NADA
  CPUs = {c1, c2}
  Instancias = {i1, i2}
  NombresIO = {disco}
  NombreIO <- AmbosDisco
  CPUsAlInicio <- UnaCPU
  IOsAlInicio <- NadieIO
  Algoritmo = "SJF"
  PMCP = FALSE
  Estimaciones = {1}
  EstimacionInicial = 1
  Tamanios = {1}
  Capacidad = 3
  Programa <- ProgramaCadena
  Suspension = FALSE
  FallaDump = FALSE
  FetchLento = TRUE
  PausaDump = FALSE
INVARIANTS
  TypeOK
  UnaCpuPorProceso
  SemCpusExacto
  SinPanico
  PCCorrecto
  FinEncuentraBloqueado
  InstanciaExclusiva
  EsperaUnica
  AlguienServira
SYMMETRY Simetria
