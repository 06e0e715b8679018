------------------------- MODULE PropiedadesKernel -------------------------
(***************************************************************************)
(* What the kernel must guarantee under FIFO and SJF.                      *)
(***************************************************************************)
EXTENDS Kernel

PCsCorto == {"espera_cpu", "espera_ready", "elige_cpu", "elige_pid",
             "lee_pcb", "envia", "a_execute", "cambia"}
PCsSyscall == {"inactivo", "libera", "fin_memoria", "fin_cola", "fin_log",
               "fin_mapa", "io_lista", "io_proceso", "io_bloquea", "dump_mira",
               "dump_bloquea", "dump_cambia", "dump_toma", "dump_vuelve",
               "init_crea", "init_new", "init_reenvia"}
PidONinguno == Pid \cup {NINGUNO}

\* The record of each goroutine.
RegistroCorto == [pc : PCsCorto, cpu : CPUs \cup {NADA}, pid : PidONinguno,
                  PC : 0 .. MaxSyscalls - 1]
RegistroTimer == [pc : {"inactivo", "duerme", "suspende", "mueve"}, sesion : Nat]
RegistroSyscall == [pc : PCsSyscall, op : Syscalls, pid : PidONinguno,
                    n : 0 .. MaxSyscalls, io : NombresIO \cup {NADA},
                    nuevo : PidONinguno]
RegistroFin == [pc : {"inactivo", "lista", "proceso", "mueve", "instancia"},
                pid : PidONinguno]

TiposTabla ==
  /\ mapa \in [Pid -> Procesos \cup {NADA}]
  /\ cola \in [Estados -> Seq(Pid)]
  /\ pidCounter \in 1 .. MaxPids
  /\ sesiones \in [Pid -> Nat]
  /\ memoria \in [Pid -> Lugares]
  /\ emitidas \in [Pid -> 0 .. MaxSyscalls]

TiposSincronizacion ==
  /\ mutexProc \in [Pid -> Goroutines \cup {NADA}]
  /\ mutexIOs \in Goroutines \cup {NADA} /\ fugaReady \in BOOLEAN
  /\ semCpus \in Nat /\ semReady \in Nat /\ semPasar \in Nat
  /\ avisosCpu \in Nat

TiposPlanificadores ==
  /\ corto \in RegistroCorto
  /\ largo \in [pc : {"espera", "susp", "susp_mueve", "new", "new_mueve"},
                pid : PidONinguno]
  /\ temporizador \in [Pid -> [Numero -> RegistroTimer]]
  /\ panico \in BOOLEAN

TiposCpus ==
  /\ listaCPUs \in Seq(CPUs) /\ libre \in [CPUs -> BOOLEAN]
  /\ ejecuta \in [CPUs -> [pid : PidONinguno, PC : 0 .. MaxSyscalls - 1]]
  /\ manejador \in [CPUs -> RegistroSyscall]

TiposIO ==
  /\ finIO \in [Instancias -> RegistroFin]
  /\ instanciasIO \in [NombresIO -> Seq(Instancias)]
  /\ esperaIO \in [NombresIO -> Seq(Pid)]
  /\ enIO \in [Instancias -> PidONinguno]
  /\ dispositivo \in [Instancias -> PidONinguno]

\* Every variable keeps its type; a program never resumes past its EXIT.
TypeOK ==
  /\ TiposTabla
  /\ TiposSincronizacion
  /\ TiposPlanificadores
  /\ TiposCpus
  /\ TiposIO
---------------------------------------------------------------------------
(* The table, the queues and the memory module agree. *)

\* FinalizarProceso is past its call to the memory module.
PCsFin == {"fin_cola", "fin_log", "fin_mapa"}

\* A process is between two steps of a change of state.
EnTransicion(p) ==
  \/ corto.pc = "cambia" /\ corto.pid = p
  \/ \E c \in CPUs :
       \/ /\ manejador[c].pid = p
          /\ manejador[c].pc \in {"fin_log", "fin_mapa", "dump_cambia"}
       \/ manejador[c].nuevo = p /\ manejador[c].pc = "init_new"

VecesEn(e, p) == Cardinality({i \in DOMAIN cola[e] : cola[e][i] = p})

\* A process is once in the queue of its state and in no other, except while
\* a change of state is under way: whatever planners, timers, syscalls and
\* devices do in whatever order.
UnaSolaCola ==
  \A p \in Pid : ~EnTransicion(p) =>
    \A e \in Estados :
      VecesEn(e, p) = IF mapa[p] # NADA /\ mapa[p].estado = e THEN 1 ELSE 0

\* A process of a state that needs its frames has them, and one in SUSP_BLOCKED
\* or SUSP_READY is in swap; the memory module only differs while one of the
\* three calls that move it is under way.
MemoriaAlDia(p) ==
  \/ \E c \in CPUs : manejador[c].pid = p
                     /\ manejador[c].pc \in PCsFin
  \/ \E n \in Numero : temporizador[p][n].pc = "mueve"
  \/ largo.pc \in {"susp_mueve", "new_mueve"} /\ largo.pid = p
  \/ memoria[p] = IF mapa[p] = NADA \/ mapa[p].estado = "NEW" THEN "fuera"
                  ELSE IF mapa[p].estado \in {"SUSP_BLOCKED", "SUSP_READY"}
                  THEN "swap" ELSE "ram"

ResidenciaCorrecta == \A p \in Pid : MemoriaAlDia(p)

\* Who uses the frames of p now: its program, on a CPU; the handler that ends or
\* dumps it; a timer that suspends it; the long-term planner, which may choose it.
UsanMemoria(p) ==
  {<<"programa", c>> : c \in {d \in CPUs : ejecuta[d].pid = p}}
    \cup {<<"fin", c>> : c \in {d \in CPUs : /\ manejador[d].pid = p
                                             /\ manejador[d].pc = "fin_memoria"}}
    \cup {<<"dump", c>> : c \in {d \in CPUs : /\ manejador[d].pid = p
                                              /\ manejador[d].pc = "dump_vuelve"}}
    \cup {<<"baja", n>> : n \in {m \in Numero : temporizador[p][m].pc = "suspende"}}
    \cup {<<"sube", e>> : e \in {f \in {"SUSP_READY", "NEW"} :
             /\ largo.pc = IF f = "NEW" THEN "new" ELSE "susp"
             /\ Esta(cola[f], p)}}

\* Where each of them takes the process to be.
DondeLaUsa(u) ==
  IF u[1] # "sube" THEN "ram" ELSE IF u[2] = "NEW" THEN "fuera" ELSE "swap"

\* The memory module has no lock for a whole call: what it is asked about one
\* process, and what the program reads and writes there, are right because the
\* kernel asks for one thing at a time and of a process that is where the call
\* supposes (SuspenderProceso, ReanudarProceso, AlmacenarProceso,
\* FinalizarProceso, MemoryDump).
UnoEnMemoria ==
  \A p \in Pid : \A u \in UsanMemoria(p) :
    /\ memoria[p] = DondeLaUsa(u)
    /\ \A v \in UsanMemoria(p) : u = v
---------------------------------------------------------------------------
(* Processors. *)

\* CPUs in the hands of a program or of the handler of its syscall.
Ocupa(c, p) ==
  ejecuta[c].pid = p
    \/ (manejador[c].pid = p /\ manejador[c].pc \notin {"inactivo", "libera"})

\* A program runs on one CPU at a time, and the kernel has that CPU marked as
\* taken.  A syscall that is past FinalizarProceso, or past the move to READY,
\* no longer counts.
UnaCpuPorProceso ==
  /\ \A c \in CPUs : ejecuta[c].pid # NINGUNO =>
       /\ ~libre[c]
       /\ manejador[c].pc = "inactivo"
  /\ \A c, d \in CPUs, p \in Pid : Ocupa(c, p) /\ Ocupa(d, p) => c = d

\* Sem_Cpus counts the free CPUs: tokens waiting, signals under way and the
\* token the planner spent before it took a CPU add up to the CPUs marked free.
SemCpusExacto ==
  semCpus + avisosCpu
    + (IF corto.pc \in {"espera_ready", "elige_cpu"} THEN 1 ELSE 0)
  = Cardinality({c \in CPUs : libre[c]})

\* Sem_ProcesosEnReady counts READY: tokens waiting and the token of the round
\* under way.  So ready[0] exists whenever the planner takes it.
SemReadyExacto ==
  semReady
    + (IF corto.pc \in {"elige_cpu", "elige_pid", "lee_pcb", "envia",
                        "a_execute"} THEN 1 ELSE 0)
  = Len(cola["READY"])

\* No nil dereference, no index out of range.
SinPanico == ~panico

\* The CPU resumes a program where its last syscall left it.
PCCorrecto ==
  \A c \in CPUs :
    ejecuta[c].pid # NINGUNO => ejecuta[c].PC = emitidas[ejecuta[c].pid]
---------------------------------------------------------------------------
(* Devices. *)

\* The end of an IO, when it gets to look at its process, finds it blocked,
\* although the request goes out before the process leaves EXECUTE and the
\* device may answer at once.
FinEncuentraBloqueado ==
  \A i \in Instancias :
    LET p == finIO[i].pid IN
    \/ finIO[i].pc = "mueve"
    \/ finIO[i].pc = "proceso" /\ mutexProc[p] = NADA
    => mapa[p] # NADA /\ mapa[p].estado \in {"BLOCKED", "SUSP_BLOCKED"}

\* The process an instance works for: sleeping, or its end being handled.
Atiende(i, p) ==
  \/ dispositivo[i] = p
  \/ finIO[i].pid = p /\ finIO[i].pc \in {"lista", "proceso", "mueve"}

\* An instance works for at most one process, the one the kernel has noted.
InstanciaExclusiva ==
  \A i \in Instancias : \A p \in Pid : Atiende(i, p) =>
    /\ enIO[i] = p
    /\ \A q \in Pid : Atiende(i, q) => q = p

\* The handler of p is between the request and the block.
PorBloquear(p) ==
  \E c \in CPUs : manejador[c].pid = p /\ manejador[c].pc = "io_bloquea"

\* The number of places that will end the IO of p.
Pendientes(p) ==
  Cardinality({i \in Instancias : Atiende(i, p)})
    + Cardinality({x \in NombresIO \X (1 .. MaxPids) :
                     x[2] \in DOMAIN esperaIO[x[1]] /\ esperaIO[x[1]][x[2]] = p})

\* The handler of a dump of p is at work, and will take it out of BLOCKED.
PorDump(p) ==
  \E c \in CPUs : /\ manejador[c].pid = p /\ manejador[c].op = "DUMP"
                  /\ manejador[c].pc \notin {"inactivo", "libera"}

\* A process that waits for a device is in exactly one place that will end its
\* wait: one instance or one queue.  One that does not wait is in none.
EsperaUnica ==
  \A p \in Pid :
    Pendientes(p) =
      IF \/ PorBloquear(p)
         \/ /\ mapa[p] # NADA
            /\ mapa[p].estado \in {"BLOCKED", "SUSP_BLOCKED"}
            /\ ~PorDump(p)
      THEN 1 ELSE 0

\* While a process waits in the queue of a device, some instance of it is at
\* work, and its end will serve the queue: a device that connects later does
\* not.
AlguienServira ==
  \A d \in NombresIO : esperaIO[d] # <<>> =>
    \E k \in DOMAIN instanciasIO[d] :
      LET i == instanciasIO[d][k] IN
      dispositivo[i] # NINGUNO \/ finIO[i].pc # "inactivo"
---------------------------------------------------------------------------
(* What a step may never do. *)

\* p waits in READY and q does not wait before it.
Delante(s, p, q) == Esta(s, p) /\ (Esta(s, q) => Posicion(s, p) < Posicion(s, q))

\* Nobody overtakes a process of READY (FIFO): whoever arrives later, from
\* NEW, SUSP_READY, a device or a dump, goes behind it and leaves after it.
OrdenDeLlegada ==
  [][\A p, q \in Pid :
       p # q /\ Delante(cola["READY"], p, q) /\ Esta(cola'["READY"], p) =>
         /\ Delante(cola'["READY"], p, q)
         /\ Esta(cola["READY"], q) => Esta(cola'["READY"], q)]_vars
---------------------------------------------------------------------------
(* What must happen, under Equidad. *)

\* Every process that is created ends: it is admitted, dispatched, woken and
\* resumed as often as its program needs.
Terminacion ==
  \A p \in Pid : mapa[p] # NADA ~> mapa[p] = NADA

\* "En todas las syscalls la CPU se libera" (but INIT_PROC's).
CPUSeLibera ==
  \A c \in CPUs :
    manejador[c].pc # "inactivo" /\ manejador[c].op # "INIT" ~> libre[c]
---------------------------------------------------------------------------
(* The life of a process, from the kernel's state.  A process changes when  *)
(* the memory module does: it is out of frames before its state says so,    *)
(* and in them before it reaches READY.                                     *)

EstadoVisible(p) ==
  IF p >= pidCounter THEN "SIN_CREAR"
  ELSE IF \/ mapa[p] = NADA
          \/ \E c \in CPUs : manejador[c].pid = p
                             /\ manejador[c].pc \in PCsFin
  THEN "EXIT"
  ELSE IF \E n \in Numero : temporizador[p][n].pc = "mueve" THEN "SUSP_BLOCKED"
  ELSE IF largo.pc \in {"susp_mueve", "new_mueve"} /\ largo.pid = p THEN "READY"
  ELSE mapa[p].estado

TamVisible(p) ==
  IF EstadoVisible(p) \in {"SIN_CREAR", "EXIT"} THEN 0 ELSE mapa[p].tam

Vida == INSTANCE CicloDeVida
          WITH Procesadores <- Cardinality(CPUs),
               estado <- [p \in Pid |-> EstadoVisible(p)],
               tam <- [p \in Pid |-> TamVisible(p)]

\* The kernel implements the life cycle: whatever the planners, timers and
\* handlers do together, each process goes from state to state along the arrows
\* of the seven-state diagram, enters only into free frames and executes only
\* where there is a CPU for it.
CumpleCicloDeVida == Vida!Spec
===========================================================================
