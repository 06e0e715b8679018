------------------------- MODULE InvariantesKernel -------------------------
(***************************************************************************)
(* What is true of every reachable state beside the properties, and makes  *)
(* them inductive: which process a goroutine has in hand, which mutex it   *)
(* holds, which CPU and which device it has taken.                         *)
(***************************************************************************)
EXTENDS PropiedadesKernel

PCsIO      == {"io_lista", "io_proceso", "io_bloquea"}
PCsReanuda == PCsIO \cup {"dump_mira", "dump_bloquea", "dump_cambia",
                          "dump_toma", "dump_vuelve", "init_crea", "init_new",
                          "init_reenvia"}

\* A goroutine at work names a process, and a syscall after which the program
\* goes on is not its last one.
CortoNombra ==
  corto.pc \in {"lee_pcb", "envia", "a_execute", "cambia"} => corto.pid \in Pid

LargoNombra == largo.pc \in {"susp_mueve", "new_mueve"} => largo.pid \in Pid

ManejadorNombra ==
  \A c \in CPUs :
    /\ manejador[c].pc # "inactivo" =>
         manejador[c].pid \in Pid /\ manejador[c].n \in Numero
    /\ manejador[c].pc \in PCsReanuda => manejador[c].n < MaxSyscalls
    /\ manejador[c].pc \in PCsIO => manejador[c].io \in NombresIO
    /\ manejador[c].pc = "init_new" => manejador[c].nuevo \in Pid

FinNombra == \A i \in Instancias : finIO[i].pc # "inactivo" => finIO[i].pid \in Pid

\* Whoever is inside the critical section of a process holds its mutex.
CortoEsDueno == corto.pc = "cambia" => mutexProc[corto.pid] = GCorto

ManejadorEsDueno ==
  \A c \in CPUs : manejador[c].pc \in {"io_bloquea", "dump_vuelve"} =>
    mutexProc[manejador[c].pid] = GSyscall(c)

TimerEsDueno ==
  \A p \in Pid, n \in Numero : temporizador[p][n].pc \in {"suspende", "mueve"} =>
    mutexProc[p] = GTimer(p, n)

FinEsDueno ==
  \A i \in Instancias : finIO[i].pc = "mueve" =>
    mutexProc[finIO[i].pid] = GFinIO(i)

\* A process looked up under its mutex is still there while the mutex is held.
SigueVivo ==
  /\ \A c \in CPUs : manejador[c].pc = "io_bloquea" =>
       mapa[manejador[c].pid] # NADA
  /\ \A p \in Pid, n \in Numero :
       temporizador[p][n].pc \in {"suspende", "mueve"} => mapa[p] # NADA
  /\ \A i \in Instancias : finIO[i].pc = "mueve" => mapa[finIO[i].pid] # NADA

Nombran == CortoNombra /\ LargoNombra /\ ManejadorNombra /\ FinNombra

Duenos == CortoEsDueno /\ ManejadorEsDueno /\ TimerEsDueno /\ FinEsDueno

\* Each critical section of ProcesosMutex[pid] is entered by one goroutine at a
\* time, and the process it looked up is there to the end.
SeccionesCriticas == Duenos /\ SigueVivo

\* The strengthening of TypeOK.
InvTipos == TypeOK /\ Nombran /\ Duenos /\ SigueVivo
---------------------------------------------------------------------------
(* Processors. *)

\* A free CPU is connected; one that runs a program, that a handler will give
\* back or that the short-term planner has chosen is connected and not free,
\* and it is in one of the three situations only.
Conectada(c) == Esta(listaCPUs, c)

LibreConectada == \A c \in CPUs : libre[c] => Conectada(c)

ManejadorTiene ==
  \A c \in CPUs : manejador[c].pc # "inactivo" => Conectada(c) /\ ~libre[c]

EjecutaTiene ==
  \A c \in CPUs : ejecuta[c].pid # NINGUNO =>
    Conectada(c) /\ ~libre[c] /\ manejador[c].pc = "inactivo"

CortoTiene ==
  corto.pc \in {"elige_pid", "lee_pcb", "envia"} =>
    /\ corto.cpu \in CPUs /\ Conectada(corto.cpu) /\ ~libre[corto.cpu]
    /\ ejecuta[corto.cpu].pid = NINGUNO
    /\ manejador[corto.cpu].pc = "inactivo"

\* The strengthening of SemCpusExacto.
InvCpus ==
  SemCpusExacto /\ LibreConectada /\ ManejadorTiene /\ EjecutaTiene /\ CortoTiene
---------------------------------------------------------------------------
(* Devices. *)

NombreCorrecto ==
  \A d \in NombresIO : \A k \in DOMAIN instanciasIO[d] :
    NombreIO[instanciasIO[d][k]] = d

OcupadaConectada ==
  \A i \in Instancias : enIO[i] # NINGUNO => Esta(instanciasIO[NombreIO[i]], i)

DispositivoAnotado ==
  \A i \in Instancias : dispositivo[i] # NINGUNO =>
    enIO[i] = dispositivo[i] /\ finIO[i].pc = "inactivo"

FinAnotado ==
  \A i \in Instancias : finIO[i].pc # "inactivo" =>
    enIO[i] = finIO[i].pid /\ dispositivo[i] = NINGUNO

\* The strengthening of InstanciaExclusiva.
InvIO ==
  NombreCorrecto /\ OcupadaConectada /\ DispositivoAnotado /\ FinAnotado
---------------------------------------------------------------------------
(* Processes: who has each one in hand, and what it may then be. *)

\* Nothing is promised of a CPU that answers before its dispatch is over, nor
\* of a timer that slips between BloquearProceso and the Lock that follows it.
Regimen == FetchLento /\ ~PausaDump

\* The handler of CPU c serves a syscall of p, or has just created p.
Maneja(c, p) ==
  manejador[c].pid = p /\ manejador[c].pc \notin {"inactivo", "libera"}
Crea(c, p) == manejador[c].nuevo = p /\ manejador[c].pc = "init_new"

\* A planner has p in hand; the CPU of the short-term one runs it already; a
\* timer is suspending it.
CortoTrae(p) ==
  corto.pid = p /\ corto.pc \in {"lee_pcb", "envia", "a_execute", "cambia"}
Despacha(p)  == corto.pid = p /\ corto.pc \in {"a_execute", "cambia"}
LargoTrae(p) == largo.pid = p /\ largo.pc \in {"susp_mueve", "new_mueve"}
Suspende(p)  ==
  \E n \in Numero : temporizador[p][n].pc \in {"suspende", "mueve"}

Vivo(p, S) == mapa[p] # NADA /\ mapa[p].estado \in S

\* The state of the process whose syscall the handler of c serves: a dump
\* blocks it, and FinalizarProceso looks at no state.
EstadoEn(c) ==
  IF manejador[c].op = "DUMP"
       /\ manejador[c].pc \notin {"dump_mira", "dump_bloquea", "dump_cambia"}
  THEN "BLOCKED" ELSE "EXECUTE"

\* Whether p is in the queue of S, and in no other.
SoloEn(p, S) == \A e \in Estados : Esta(cola[e], p) <=> e \in S

SinRepetidos(s) == \A j, k \in DOMAIN s : s[j] = s[k] => j = k

ColasSinRepetidos ==
  /\ \A e \in Estados : SinRepetidos(cola[e])
  /\ \A d \in NombresIO : SinRepetidos(esperaIO[d])

\* UnaSolaCola, and where a process is while its state changes.
Ubicado(p) ==
  /\ ~EnTransicion(p) =>
       SoloEn(p, IF mapa[p] = NADA THEN {} ELSE {mapa[p].estado})
  /\ corto.pc = "cambia" /\ corto.pid = p => SoloEn(p, {"EXECUTE"})
  /\ \A c \in CPUs :
       /\ Maneja(c, p) /\ manejador[c].pc \in {"fin_log", "fin_mapa"} =>
            SoloEn(p, {})
       /\ Maneja(c, p) /\ manejador[c].pc = "dump_cambia" =>
            SoloEn(p, {"BLOCKED"})
       /\ Crea(c, p) => SoloEn(p, {})

\* One CPU at most has p, and one handler at most has just created it.
UnaMano(p) ==
  \A c, d \in CPUs :
    (Ocupa(c, p) /\ Ocupa(d, p)) \/ (Crea(c, p) /\ Crea(d, p)) => c = d

\* The state of a process agrees with whoever has it in hand; nobody suspends
\* or admits one whose syscall is being served.
ManoCpu(p) ==
  \A c \in CPUs :
    /\ Maneja(c, p) => Vivo(p, {EstadoEn(c)})
    /\ ejecuta[c].pid = p =>
         Vivo(p, {IF Despacha(p) THEN "READY" ELSE "EXECUTE"})
    /\ Crea(c, p) => Vivo(p, {"NEW"})

ManoPlanificador(p) ==
  /\ CortoTrae(p) => Vivo(p, {"READY"})
  /\ Despacha(p) => corto.cpu \in CPUs /\ ejecuta[corto.cpu].pid = p
  /\ LargoTrae(p) =>
       /\ Vivo(p, {IF largo.pc = "new_mueve" THEN "NEW" ELSE "SUSP_READY"})
       /\ \A c \in CPUs : ~Crea(c, p)
  /\ Suspende(p) => Vivo(p, {"BLOCKED"}) /\ \A c \in CPUs : ~Maneja(c, p)

\* The PC of a process is the number of syscalls it has issued: on its CPU, in
\* its handler, in the planner's hand and, when nobody has it, in the table.
PCAlDia(p) ==
  /\ \A c \in CPUs :
       /\ ejecuta[c].pid = p => ejecuta[c].PC = emitidas[p]
       /\ Maneja(c, p) => manejador[c].n = emitidas[p]
       /\ Maneja(c, p) /\ manejador[c].pc = "io_bloquea" =>
            mapa[p].PC = emitidas[p]
  /\ corto.pc = "envia" /\ corto.pid = p => corto.PC = emitidas[p]
  /\ mapa[p] # NADA /\ mapa[p].estado # "EXECUTE"
       /\ (\A c \in CPUs : ~Maneja(c, p)) => mapa[p].PC = emitidas[p]

SinCrear(p) == p >= pidCounter => mapa[p] = NADA /\ emitidas[p] = 0

\* p waits for a device, in an instance or in a queue, and in one of them only.
Pendiente(p) ==
  \/ \E i \in Instancias : Atiende(i, p)
  \/ \E d \in NombresIO : Esta(esperaIO[d], p)

UnSoloLugar(p) ==
  /\ \A i, j \in Instancias : Atiende(i, p) /\ Atiende(j, p) => i = j
  /\ \A d, e \in NombresIO :
       Esta(esperaIO[d], p) /\ Esta(esperaIO[e], p) => d = e
  /\ \A i \in Instancias, d \in NombresIO :
       ~(Atiende(i, p) /\ Esta(esperaIO[d], p))

\* Who waits is blocked, or about to be, by a syscall IO.
DebeEsperar(p) ==
  PorBloquear(p) \/ (Vivo(p, {"BLOCKED", "SUSP_BLOCKED"}) /\ ~PorDump(p))

EsperaJusta(p) == Pendiente(p) <=> DebeEsperar(p)

\* What each handler serves; one whose dump failed keeps the mutex for ever.
OpDelPc ==
  \A c \in CPUs :
    /\ manejador[c].pc \in {"dump_mira", "dump_bloquea", "dump_cambia",
                            "dump_toma", "dump_vuelve"} =>
         manejador[c].op = "DUMP"
    /\ manejador[c].op = "DUMP" =>
         manejador[c].pc \notin PCsIO \cup {"init_crea", "init_new",
                                            "init_reenvia"}
    /\ manejador[c].op = "DUMP"
         /\ manejador[c].pc \in {"fin_memoria"} \cup PCsFin =>
         mutexProc[manejador[c].pid] = GSyscall(c)

EnMano(p) ==
  Ubicado(p) /\ UnaMano(p) /\ ManoCpu(p) /\ ManoPlanificador(p) /\ PCAlDia(p)
    /\ SinCrear(p)

EnOrden(p) == EnMano(p) /\ UnSoloLugar(p) /\ EsperaJusta(p)

\* The strengthening of UnaSolaCola, UnaCpuPorProceso, PCCorrecto, EsperaUnica
\* and FinEncuentraBloqueado.
InvProcesos == ColasSinRepetidos /\ OpDelPc /\ \A p \in Pid : EnOrden(p)

\* An instance that is taken is at work: what AlguienServira adds.
OcupadaTrabaja ==
  \A i \in Instancias : enIO[i] # NINGUNO =>
    dispositivo[i] # NINGUNO \/ finIO[i].pc # "inactivo"
---------------------------------------------------------------------------
(* Memory: where the memory module keeps each process. *)

\* The three moves between the call to the memory module and the change of
\* state that follows it: FinalizarProceso, a suspension, an admission.
Liberado(p) ==
  \E c \in CPUs : manejador[c].pid = p /\ manejador[c].pc \in PCsFin
Bajando(p) == \E n \in Numero : temporizador[p][n].pc = "mueve"

\* Where a process of each state is.
LugarDe(p) ==
  IF mapa[p] = NADA \/ mapa[p].estado = "NEW" THEN "fuera"
  ELSE IF mapa[p].estado \in {"SUSP_BLOCKED", "SUSP_READY"} THEN "swap" ELSE "ram"

LugarEsperado(p) ==
  IF Liberado(p) THEN "fuera" ELSE IF Bajando(p) THEN "swap"
  ELSE IF LargoTrae(p) THEN "ram" ELSE LugarDe(p)

\* The strengthening of ResidenciaCorrecta: during a move the memory module is
\* already where the move ends.
InvResidencia == \A p \in Pid : memoria[p] = LugarEsperado(p)
---------------------------------------------------------------------------
(* The order of READY. *)

\* The process of a round is the first of READY until ready_a_execute takes it
\* out: who arrives meanwhile goes behind it.
CabezaElegida ==
  corto.pc \in {"lee_pcb", "envia", "a_execute"} =>
    cola["READY"] # <<>> /\ cola["READY"][1] = corto.pid
---------------------------------------------------------------------------
(* The processes in EXECUTE have a CPU each. *)

\* A process of EXECUTE is on a CPU, or in the handler of its syscall.
EjecutaEnCpu ==
  \A p \in Pid : Vivo(p, {"EXECUTE"}) => \E c \in CPUs : Ocupa(c, p)
===========================================================================
