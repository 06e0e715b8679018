--------------------------- MODULE EstadoKernel ---------------------------
(***************************************************************************)
(* The state every part of the kernel shares (globals/kernel/globals.go),  *)
(* the state-change helpers (estadosController.go) and the                 *)
(* abstraction of the memory module that the kernel calls over HTTP.       *)
(*                                                                         *)
(* Grain: a step is one critical section, or a change of state: two queues *)
(* and the entry of the process, three sections that are one step where    *)
(* the goroutine keeps ProcesosMutex[pid] over them.  Where it does not    *)
(* (the dispatch, the block of a dump) the entry is a step apart. The      *)
(* mutexes a goroutine keeps across a call (ProcesosMutex[pid],            *)
(* ListaIOsMutex, SuspReadyMutex and NewMutex) are modelled; the ones      *)
(* taken and released around a few assignments (Ready, Execute, Blocked,   *)
(* SuspBlocked, ListaCPUs, Cantidad SesionesIO) are the atomicity of the   *)
(* step that takes them.                                                   *)
(***************************************************************************)
EXTENDS Colas, FiniteSets

CONSTANTS
  MaxPids,          \* bound: how many processes are ever created
  MaxSyscalls,      \* bound: syscalls of one process, the last one is EXIT
  CPUs,             \* the CPU modules that may connect
  Instancias,       \* the IO modules that may connect
  NombresIO,        \* the device names a program may ask for
  NombreIO,         \* NombreIO[i] is the device name instance i serves
  CPUsAlInicio,     \* CPUs connected before ENTER, in handshake order
  IOsAlInicio,      \* instances connected before ENTER, by device name
  Algoritmo,        \* scheduler_algorithm: "FIFO" or "SJF" (SRT is not here)
  PMCP,             \* ready_ingress_algorithm is PMCP (smallest first)
  Estimaciones,     \* values an Est_Sgte may take; only their order matters
  EstimacionInicial,\* initial_estimate
  Tamanios,         \* sizes of the processes, in frames; none is empty
  Capacidad,        \* frames of the memory module
  Programa,         \* Programa[p][n]: what the n-th syscall of p may be
  Suspension,       \* suspension_time is short enough for timers to expire
                    \* (the short-term tests set it to two minutes)
  FallaDump,        \* the memory module may answer a dump with an error
  FetchLento,       \* a CPU's first fetch outlasts the end of its dispatch
  PausaDump,        \* a timer may expire between BloquearProceso and the
                    \* Lock that follows it in manejarDUMP_MEMORY
  NADA              \* no entry, no owner

NINGUNO == -1
Pid == 0 .. MaxPids - 1
Numero == 1 .. MaxSyscalls
Syscalls == {"IO", "EXIT", "DUMP", "INIT"}
Estados ==
  {"NEW", "READY", "EXECUTE", "BLOCKED", "SUSP_BLOCKED", "SUSP_READY"}

\* A process (Proceso).  The PC counts syscalls, and none follows EXIT.
Procesos == [estado : Estados, PC : 0 .. MaxSyscalls - 1, tam : Tamanios,
             est : Estimaciones]

\* At least one process, one syscall (EXIT) and one estimate; what connects
\* before ENTER connects once, a device instance under its own name; every
\* program ends in EXIT.
ASSUME ConstantesOK ==
  /\ MaxPids \in Nat \ {0} /\ MaxSyscalls \in Nat \ {0}
  /\ NombreIO \in [Instancias -> NombresIO]
  /\ CPUsAlInicio \in Seq(CPUs)
  /\ \A j, k \in DOMAIN CPUsAlInicio :
       CPUsAlInicio[j] = CPUsAlInicio[k] => j = k
  /\ IOsAlInicio \in [NombresIO -> Seq(Instancias)]
  /\ \A d \in NombresIO : \A k \in DOMAIN IOsAlInicio[d] :
       NombreIO[IOsAlInicio[d][k]] = d
  /\ Algoritmo \in {"FIFO", "SJF"}
  /\ EstimacionInicial \in Estimaciones
  /\ Tamanios \subseteq Nat \ {0} /\ Capacidad \in Nat
  /\ IsFiniteSet(CPUs)
  /\ Programa \in [Pid -> [Numero -> SUBSET Syscalls]]
  /\ \A p \in Pid : Programa[p][MaxSyscalls] = {"EXIT"}
  /\ {PMCP, Suspension, FallaDump, FetchLento, PausaDump} \subseteq BOOLEAN

VARIABLES
  mapa,        \* MapaProcesos: pid -> process, or NADA
  cola,        \* the six queues: Cola_new, Cola_ready, ...
  pidCounter,  \* PIDCounter
  mutexProc,   \* ProcesosMutex[pid]: the goroutine that holds it, or NADA
  mutexIOs,    \* ListaIOsMutex: the goroutine that holds it, or NADA
  fugaReady,   \* ReadyMutex was left locked by ready_a_execute
  semCpus,     \* Sem_Cpus
  semReady,    \* Sem_ProcesosEnReady
  semPasar,    \* Sem_PasarProcesoAReady
  avisosCpu,   \* LiberarCPU calls past the unlock, not yet past the Signal
  listaCPUs,   \* ListaCPUs, in the order of the handshakes
  libre,       \* EstaLibre of each CPU
  corto,       \* the short-term planner's goroutine
  largo,       \* the long-term planner's goroutine
  temporizador,\* the goroutines BloquearProceso starts, by pid and syscall
  sesiones,    \* CantidadSesionesIO
  manejador,   \* the goroutine serving the syscall of each CPU
  finIO,       \* the goroutine serving the end of IO of each instance
  instanciasIO,\* MapaIOs[nombre].Instancias, in the order of the handshakes
  esperaIO,    \* MapaIOs[nombre].ColaProcesosEsperando
  enIO,        \* PidProcesoActual of each instance
  ejecuta,     \* what each CPU module runs: pid and PC
  dispositivo, \* what each IO module is sleeping for: a pid
  memoria,     \* where the memory module keeps each process
  emitidas,    \* history: syscalls the program of each process has issued
  panico       \* the kernel died of a nil dereference or a bad index

procesosVars == <<mapa, cola, pidCounter>>
mutexVars    == <<mutexProc, mutexIOs, fugaReady>>
semVars      == <<semCpus, semReady, semPasar, avisosCpu>>
cpuVars      == <<listaCPUs, libre>>
ioVars       == <<instanciasIO, esperaIO, enIO>>
vars == <<procesosVars, mutexVars, semVars, cpuVars, ioVars, corto, largo,
          temporizador, sesiones, manejador, finIO, ejecuta, dispositivo,
          memoria, emitidas, panico>>
---------------------------------------------------------------------------
(* The goroutines that can hold a mutex. *)

GCorto      == <<"corto", NADA, NADA>>
GLargo      == <<"largo", NADA, NADA>>
GSyscall(c) == <<"syscall", c, NADA>>
GFinIO(i)   == <<"finIO", i, NADA>>
GDesconexion(i) == <<"desconexion", i, NADA>>
GTimer(p, n) == <<"timer", p, n>>
Goroutines ==
  {GCorto, GLargo} \cup {GSyscall(c) : c \in CPUs}
    \cup {GFinIO(i) : i \in Instancias}
    \cup {GDesconexion(i) : i \in Instancias}
    \cup {GTimer(p, n) : p \in Pid, n \in Numero}

ASSUME NadaOK == NADA \notin Goroutines \cup Procesos \cup CPUs

\* The long-term planner holds SuspReadyMutex, or NewMutex, exactly here.
TieneSuspReady == largo.pc \in {"susp", "susp_mueve"}
TieneNew       == largo.pc \in {"new", "new_mueve"}

\* Resting values of the goroutine records.
CortoEsperando == [pc |-> "espera_cpu", cpu |-> NADA, pid |-> NINGUNO, PC |-> 0]
SinSyscall == [pc |-> "inactivo", op |-> "EXIT", pid |-> NINGUNO, n |-> 0,
               io |-> NADA, nuevo |-> NINGUNO]
SinFin     == [pc |-> "inactivo", pid |-> NINGUNO]
SinTimer   == [pc |-> "inactivo", sesion |-> 0]
Ociosa     == [pid |-> NINGUNO, PC |-> 0]

Panico ==
  /\ panico' = TRUE
  /\ UNCHANGED <<procesosVars, mutexVars, semVars, cpuVars, ioVars, corto,
                 largo, temporizador, sesiones, manejador, finIO, ejecuta,
                 dispositivo, memoria, emitidas>>
---------------------------------------------------------------------------
(* Changes of state. *)

\* Mutant of MoverDe: added to the second queue, not taken out of the first.
CopiarA(e, f, p) ==
  [cola EXCEPT ![f] = IF Esta(cola[e], p) THEN Agregar(@, p) ELSE @]

\* What the state-change functions do to the two queues ...
MoverDe(e, f, p) ==
  [cola EXCEPT ![e] = Quitar(@, p),
               ![f] = IF Esta(cola[e], p) THEN Agregar(@, p) ELSE @]

\* ... and whether they go on to cambiar_estado or return false.
Movible(e, f, p) == Esta(cola[e], p) /\ ~Esta(cola[f], p)

\* Mutant of ConEstado: the entry is built anew, its PC lost.
ConEstadoSinPC(p, e) == [mapa EXCEPT ![p].estado = e, ![p].PC = 0]

\* cambiar_estado: the entry, with its new state.
ConEstado(p, e) == [mapa EXCEPT ![p].estado = e]

\* execute_a_blocked also updates the burst estimate (actualizar_rafagas):
\* the weighted mean of a measured time, so any estimate may follow.
Bloqueado(p) ==
  IF Algoritmo = "FIFO" THEN {ConEstado(p, "BLOCKED")}
  ELSE {[mapa EXCEPT ![p].estado = "BLOCKED", ![p].est = r] :
          r \in Estimaciones}
---------------------------------------------------------------------------
(* The memory module, as the kernel sees it: a process is outside, in      *)
(* frames or in swap, and is let in when its frames are free.              *)

Lugares == {"fuera", "ram", "swap"}

\* Frames taken: the table is the kernel's, sizes do not change.
Ocupados ==
  SumFunction([p \in {p \in Pid : memoria[p] = "ram" /\ mapa[p] # NADA} |->
                 mapa[p].tam])

Cabe(p) == Ocupados + mapa[p].tam <= Capacidad

\* ReanudarProceso refuses a process that is not suspended.
Readmite(p) == memoria[p] = "swap" /\ Cabe(p)
===========================================================================
