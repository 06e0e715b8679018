-------------------------- MODULE PlanificadorSRT --------------------------
(***************************************************************************)
(* The short-term planner under SRT (corto.go) with the CPUs it interrupts *)
(* (cpu.go): one goroutine that is told to look again over a channel of    *)
(* one place, and that dispatches to a free CPU or takes the CPU from a    *)
(* longer process.                                                         *)
(*                                                                         *)
(* Grain: a step is one critical section, or a move between two queues.    *)
(* The memory module always has room and nothing is suspended:             *)
(* suspension_time is two minutes in the tests of SRT.  A device is free   *)
(* for whoever asks for it.                                                *)
(***************************************************************************)
EXTENDS Colas, FiniteSets

CONSTANTS
  CPUs, Pids,
  Estimaciones,      \* values of Est_Sgte, in units of time; 0 is no time left
  EstimacionInicial, \* initial_estimate
  Regimenes,         \* see below
  NADA

(* A regime: what is connected and run, and how slow the kernel may be.    *)
(*   cpus      ListaCPUs, in the order of the handshakes                   *)
(*   programa  the instructions of each process that comes, EXIT at the    *)
(*             end                                                         *)
(*   pausas    any goroutine may be slow.  If not, only instructions,      *)
(*             devices, arrivals and the answer to an interruption take    *)
(*             time: a round of the planner, the handler of a syscall and  *)
(*             the end of the round of a CPU are done before the next of   *)
(*             those                                                       *)
Operaciones == {"CPU", "IO", "DUMP", "INIT", "EXIT"}

ASSUME RegimenesOK ==
  /\ Estimaciones \subseteq Nat \ {0} /\ EstimacionInicial \in Estimaciones
  /\ \A r \in Regimenes :
       /\ r.cpus \in Seq(CPUs) /\ r.pausas \in BOOLEAN
       /\ DOMAIN r.programa \subseteq Pids
       /\ \A p \in DOMAIN r.programa :
            /\ r.programa[p] \in Seq(Operaciones) \ {<<>>}
            /\ Last(r.programa[p]) = "EXIT"

\* NADA is what the map has in the place of a process that ended.
ASSUME NadaOK ==
  NADA \notin [estado : {"NEW", "READY", "EXECUTE", "BLOCKED"}, PC : Int, est : Estimaciones]

VARIABLES
  regimen,
  mapa,      \* MapaProcesos: pid -> [estado, PC, est], or NADA
  ready,     \* Cola_ready
  execute,   \* Cola_execute
  restante,  \* rafagaRestante: the estimate less the time in EXECUTE, 0 at least
  libre,     \* EstaLibre of each CPU
  pidActual, \* PIDActual of each CPU
  aviso,     \* SrtReplanificarChan, of one place
  porAvisar, \* goroutines about to call NotificarReplanifSRT
  srt,       \* the goroutine of planificadorSRT
  manejadores, \* goroutines that serve a syscall
  enIO,      \* processes whose request a device has
  cpu,       \* the CPU modules
  hecho,     \* history: instructions each process has executed
  panico     \* the kernel died

kernelVars == <<mapa, ready, execute, restante>>
cpusVars == <<libre, pidActual>>
vars == <<regimen, kernelVars, cpusVars, aviso, porAvisar, srt, manejadores,
          enIO, cpu, hecho, panico>>

NINGUNO == -1

ListaCPUs == ToSet(regimen.cpus)

SrtEsperando == [pc |-> "espera", cpu |-> NADA, exec |-> NADA, pid |-> NADA, PC |-> 0]

\* The main loop of a CPU (pc, pid, PC, res), ColaDeEjecucion, the variables it
\* shares with RecibirInterrupcion, and this handler (int, resp).
CpuOciosa ==
  [pc |-> "libre", pid |-> NADA, PC |-> 0, res |-> "cede", cola |-> <<>>,
   hay |-> FALSE, envie |-> FALSE, pcInt |-> NINGUNO, int |-> "no", resp |-> NINGUNO]

Panico ==
  /\ panico' = TRUE
  /\ UNCHANGED <<regimen, kernelVars, cpusVars, aviso, porAvisar, srt, manejadores,
                 enIO, cpu, hecho>>

SalirDeExecute(p) ==
  execute' = Quitar(execute, p) /\ restante' = [restante EXCEPT ![p] = 0]

EnExecute(p) == mapa[p] # NADA /\ mapa[p].estado = "EXECUTE"

\* ordenarReadyPorRafaga; it dereferences every process.
Ordenes == Ordenadas(ready, LAMBDA p : mapa[p].est)

\* ProcesosMutex[p] is taken from one step to another only during a dump.
Tomado(p) == \E h \in manejadores : h.pid = p /\ h.pc = "vuelca"

Faltan(s) == \E p \in ToSet(s) : mapa[p] = NADA
---------------------------------------------------------------------------
(* NotificarReplanifSRT: a send that is dropped when the place is taken. *)

\* Mutant of Avisar: every send is kept.
AvisarSinTope ==
  /\ porAvisar > 0 /\ porAvisar' = porAvisar - 1
  /\ aviso' = aviso + 1
  /\ UNCHANGED <<regimen, kernelVars, cpusVars, srt, manejadores, enIO, cpu, hecho,
                 panico>>

\* Mutant of Avisar: the channel has no place, so a planner that is busy
\* does not hear.
AvisarSinBuffer ==
  /\ porAvisar > 0 /\ porAvisar' = porAvisar - 1
  /\ aviso' = IF srt.pc = "espera" THEN 1 ELSE aviso
  /\ UNCHANGED <<regimen, kernelVars, cpusVars, srt, manejadores, enIO, cpu, hecho,
                 panico>>

Avisar ==
  /\ porAvisar > 0 /\ porAvisar' = porAvisar - 1
  /\ aviso' = 1
  /\ UNCHANGED <<regimen, kernelVars, cpusVars, srt, manejadores, enIO, cpu, hecho,
                 panico>>

\* new_a_ready, by the long-term planner.
Llegar(p) ==
  /\ p \in DOMAIN regimen.programa /\ mapa[p] # NADA /\ mapa[p].estado = "NEW"
  /\ mapa' = [mapa EXCEPT ![p].estado = "READY"] /\ ready' = Agregar(ready, p)
  /\ porAvisar' = porAvisar + 1
  /\ UNCHANGED <<regimen, execute, restante, cpusVars, aviso, srt, manejadores, enIO,
                 cpu, hecho, panico>>

\* manejarFinIO.
FinIO(p) ==
  /\ p \in enIO /\ ~Tomado(p) /\ enIO' = enIO \ {p}
  /\ IF mapa[p] # NADA /\ mapa[p].estado = "BLOCKED"
     THEN /\ mapa' = [mapa EXCEPT ![p].estado = "READY"] /\ ready' = Agregar(ready, p)
          /\ porAvisar' = porAvisar + 1
     ELSE UNCHANGED <<mapa, ready, porAvisar>>
  /\ UNCHANGED <<regimen, execute, restante, cpusVars, aviso, srt, manejadores, cpu,
                 hecho, panico>>

\* time.Since(UltimoCambioDeEstado) grows.
PasarTiempo(p) ==
  /\ EnExecute(p) /\ restante[p] > 0
  /\ restante' = [restante EXCEPT ![p] = @ - 1]
  /\ UNCHANGED <<regimen, mapa, ready, execute, cpusVars, aviso, porAvisar, srt,
                 manejadores, enIO, cpu, hecho, panico>>
---------------------------------------------------------------------------
(* planificadorSRT. *)

SigueEn(pc) == srt' = [srt EXCEPT !.pc = pc]

HayLibre == \E c \in ListaCPUs : libre[c]

Despertar ==
  /\ srt.pc = "espera" /\ aviso > 0
  /\ aviso' = aviso - 1 /\ SigueEn("mira")
  /\ UNCHANGED <<regimen, kernelVars, cpusVars, porAvisar, manejadores, enIO, cpu,
                 hecho, panico>>

\* Each branch of the loop looks again: nothing is done when a CPU is freed, or
\* a process arrives, between the first and the second.
Mirar ==
  /\ srt.pc = "mira"
  /\ SigueEn(IF ready # <<>> /\ HayLibre THEN "elige" ELSE "mira_otra")
  /\ UNCHANGED <<regimen, kernelVars, cpusVars, aviso, porAvisar, manejadores, enIO,
                 cpu, hecho, panico>>

MirarOtra ==
  /\ srt.pc = "mira_otra"
  /\ SigueEn(IF ready # <<>> /\ ~HayLibre THEN "compara" ELSE "espera")
  /\ UNCHANGED <<regimen, kernelVars, cpusVars, aviso, porAvisar, manejadores, enIO,
                 cpu, hecho, panico>>

\* ejecutarUnProcesoSjf, up to the dispatch: the first free CPU and the process
\* with the shortest estimate.  Only this goroutine takes either.
Elegir ==
  LET i == CHOOSE i \in DOMAIN regimen.cpus :
             /\ libre[regimen.cpus[i]]
             /\ \A j \in 1 .. i - 1 : ~libre[regimen.cpus[j]]
      c == regimen.cpus[i]
  IN /\ srt.pc = "elige"
     /\ IF Faltan(ready) THEN Panico
        ELSE /\ libre' = [libre EXCEPT ![c] = FALSE]
             /\ \E s \in Ordenes :
                  /\ ready' = s
                  /\ srt' = [srt EXCEPT !.pc = "envia", !.cpu = c, !.pid = s[1],
                                        !.PC = mapa[s[1]].PC]
             /\ UNCHANGED <<regimen, mapa, execute, restante, pidActual, aviso, porAvisar,
                            manejadores, enIO, cpu, hecho, panico>>

\* Enviar_proceso_a_cpu.
Enviar ==
  LET c == srt.cpu IN
  /\ srt.pc = "envia"
  /\ cpu' = [cpu EXCEPT ![c].cola = Append(@, [pid |-> srt.pid, PC |-> srt.PC])]
  /\ pidActual' = [pidActual EXCEPT ![c] = srt.pid]
  /\ SigueEn("a_execute")
  /\ UNCHANGED <<regimen, kernelVars, libre, aviso, porAvisar, manejadores, enIO, hecho,
                 panico>>

\* ready_a_execute: only this goroutine takes processes out of READY, so it is
\* there; cambiar_estado dereferences it.
ReadyAExecute ==
  LET p == srt.pid IN
  /\ srt.pc = "a_execute" /\ ~Tomado(p)
  /\ IF mapa[p] = NADA THEN Panico
     ELSE /\ ready' = Quitar(ready, p) /\ execute' = Agregar(execute, p)
          /\ mapa' = [mapa EXCEPT ![p].estado = "EXECUTE"]
          /\ restante' = [restante EXCEPT ![p] = mapa[p].est]
          /\ srt' = SrtEsperando
          /\ UNCHANGED <<regimen, cpusVars, aviso, porAvisar, manejadores, enIO, cpu,
                         hecho, panico>>

\* buscarProcesoEnExecuteDeMenorRafagaRestante: the first of those.
DeMenorRestante ==
  execute[CHOOSE i \in DOMAIN execute :
    /\ \A j \in DOMAIN execute : restante[execute[i]] <= restante[execute[j]]
    /\ \A j \in 1 .. i - 1 : restante[execute[i]] < restante[execute[j]]]

\* Mutant of Comparar: READY is not ordered.
CompararSinOrdenar ==
  /\ srt.pc = "compara"
  /\ IF execute = <<>> \/ Faltan(execute) \/ Faltan(ready) THEN Panico
     ELSE /\ srt' = IF mapa[ready[1]].est < restante[DeMenorRestante]
                    THEN [srt EXCEPT !.pc = "busca", !.exec = DeMenorRestante]
                    ELSE SrtEsperando
          /\ UNCHANGED <<regimen, kernelVars, cpusVars, aviso, porAvisar, manejadores,
                         enIO, cpu, hecho, panico>>

\* verificarDesalojo: Cola_execute[0] is an index out of range when the process
\* of a CPU that is not free yet has already left EXECUTE.
Comparar ==
  /\ srt.pc = "compara"
  /\ IF execute = <<>> \/ Faltan(execute) \/ Faltan(ready) THEN Panico
     ELSE /\ \E s \in Ordenes :
               /\ ready' = s
               /\ srt' = IF mapa[s[1]].est < restante[DeMenorRestante]
                         THEN [srt EXCEPT !.pc = "busca", !.exec = DeMenorRestante]
                         ELSE SrtEsperando
          /\ UNCHANGED <<regimen, mapa, execute, restante, cpusVars, aviso, porAvisar,
                         manejadores, enIO, cpu, hecho, panico>>

\* desalojarYEnviarProceso.  BuscarCpuPorPID, and Cola_ready[0] as it is now.
Buscar ==
  LET suyas == {c \in ListaCPUs : ~libre[c] /\ pidActual[c] = srt.exec} IN
  /\ srt.pc = "busca"
  /\ CASE suyas = {} -> srt' = SrtEsperando /\ UNCHANGED panico
       [] suyas # {} /\ mapa[ready[1]] = NADA -> panico' = TRUE /\ UNCHANGED srt
       [] OTHER ->
            /\ \E c \in suyas :
                 srt' = [srt EXCEPT !.pc = "mira_exec", !.cpu = c, !.pid = ready[1],
                                    !.PC = mapa[ready[1]].PC]
            /\ UNCHANGED panico
  /\ UNCHANGED <<regimen, kernelVars, cpusVars, aviso, porAvisar, manejadores, enIO,
                 cpu, hecho>>

\* A process that is no longer in EXECUTE is taken to have left its CPU.
MirarExec ==
  /\ srt.pc = "mira_exec" /\ ~Tomado(srt.exec)
  /\ SigueEn(IF EnExecute(srt.exec) THEN "interrumpe" ELSE "envia")
  /\ UNCHANGED <<regimen, kernelVars, cpusVars, aviso, porAvisar, manejadores, enIO,
                 cpu, hecho, panico>>

\* enviar_interrupcion_a_cpu, and RecibirInterrupcion up to its Wait.
Interrumpir ==
  /\ srt.pc = "interrumpe"
  /\ cpu' = [cpu EXCEPT ![srt.cpu].hay = TRUE, ![srt.cpu].int = "espera",
                         ![srt.cpu].resp = NINGUNO]
  /\ SigueEn("respuesta")
  /\ UNCHANGED <<regimen, kernelVars, cpusVars, aviso, porAvisar, manejadores, enIO,
                 hecho, panico>>

\* Mutant of Recibir: the process is not looked at again.
RecibirSinMirar ==
  /\ srt.pc = "respuesta" /\ cpu[srt.cpu].int = "hecho" /\ ~Tomado(srt.exec)
  /\ cpu' = [cpu EXCEPT ![srt.cpu].int = "no"]
  /\ srt' = [srt EXCEPT !.pc = "actualiza"]
  /\ UNCHANGED <<regimen, kernelVars, cpusVars, aviso, porAvisar, manejadores, enIO,
                 hecho, panico>>

\* The answer: nothing more is done for a process that left EXECUTE by itself.
Recibir ==
  /\ srt.pc = "respuesta" /\ cpu[srt.cpu].int = "hecho" /\ ~Tomado(srt.exec)
  /\ cpu' = [cpu EXCEPT ![srt.cpu].int = "no"]
  /\ srt' = IF EnExecute(srt.exec) THEN [srt EXCEPT !.pc = "actualiza"] ELSE SrtEsperando
  /\ UNCHANGED <<regimen, kernelVars, cpusVars, aviso, porAvisar, manejadores, enIO,
                 hecho, panico>>

\* Mutant of Actualizar: the PC of the answer is not kept.
ActualizarSinPC ==
  /\ srt.pc = "actualiza" /\ SigueEn("desaloja")
  /\ UNCHANGED <<regimen, kernelVars, cpusVars, aviso, porAvisar, manejadores, enIO,
                 cpu, hecho, panico>>

\* ActualizarPC: an answer with an error was decoded as nil.
Actualizar ==
  /\ srt.pc = "actualiza" /\ ~Tomado(srt.exec)
  /\ IF mapa[srt.exec] = NADA \/ cpu[srt.cpu].resp = NINGUNO THEN Panico
     ELSE /\ mapa' = [mapa EXCEPT ![srt.exec].PC = cpu[srt.cpu].resp]
          /\ SigueEn("desaloja")
          /\ UNCHANGED <<regimen, ready, execute, restante, cpusVars, aviso, porAvisar,
                         manejadores, enIO, cpu, hecho, panico>>

\* execute_a_ready: the queues, then the state.
Desalojar ==
  LET p == srt.exec IN
  /\ srt.pc = "desaloja"
  /\ IF Esta(execute, p)
     THEN /\ SalirDeExecute(p) /\ ready' = Agregar(ready, p)
          /\ SigueEn("desaloja_estado")
     ELSE SigueEn("envia") /\ UNCHANGED <<execute, restante, ready>>
  /\ UNCHANGED <<regimen, mapa, cpusVars, aviso, porAvisar, manejadores, enIO,
                 cpu, hecho, panico>>

DesalojarEstado ==
  /\ srt.pc = "desaloja_estado" /\ ~Tomado(srt.exec)
  /\ IF mapa[srt.exec] = NADA THEN Panico
     ELSE /\ mapa' = [mapa EXCEPT ![srt.exec].estado = "READY"]
          /\ SigueEn("envia")
          /\ UNCHANGED <<regimen, ready, execute, restante, cpusVars, aviso, porAvisar,
                         manejadores, enIO, cpu, hecho, panico>>

\* The planner is in the middle of a round, and not waiting for a CPU.
EnRonda == srt.pc \notin {"espera", "respuesta"}

\* A CPU has issued a syscall, or was interrupted, and its round is not over.
Cediendo(c) ==
  \/ cpu[c].pc = "cede"
  \/ cpu[c].pc = "control" /\ cpu[c].res = "cede"

PasoSRT ==
  /\ ~regimen.pausas => manejadores = {} /\ \A c \in ListaCPUs : ~Cediendo(c)
  /\ \/ Despertar \/ Mirar \/ MirarOtra \/ Elegir \/ Enviar \/ ReadyAExecute
     \/ Comparar \/ Buscar \/ MirarExec \/ Interrumpir \/ Recibir \/ Actualizar
     \/ Desalojar \/ DesalojarEstado
---------------------------------------------------------------------------
(* A CPU: its main loop, an instruction at a time, and RecibirInterrupcion. *)

Programa(p) == regimen.programa[p]

\* The head of ColaDeEjecucion.  An instruction that cannot be fetched ends the
\* round and the kernel is not told.
Tomar(c) ==
  LET m == cpu[c]
      pcb == Head(m.cola)
  IN
  /\ m.pc = "libre" /\ m.cola # <<>>
  /\ cpu' = [cpu EXCEPT ![c] =
       IF pcb.PC < Len(Programa(pcb.pid))
       THEN [m EXCEPT !.cola = Tail(m.cola), !.pc = "ejecuta", !.pid = pcb.pid, !.PC = pcb.PC]
       ELSE [m EXCEPT !.cola = Tail(m.cola)]]
  /\ UNCHANGED <<regimen, kernelVars, cpusVars, aviso, porAvisar, srt, manejadores, enIO,
                 hecho, panico>>

\* Execute.  A syscall starts its handler in the kernel; all but INIT_PROC set
\* EnvieSyscallBloqueante.
Ejecutar(c) ==
  LET m == cpu[c]
      op == Programa(m.pid)[m.PC + 1]
  IN /\ m.pc = "ejecuta"
     /\ hecho' = [hecho EXCEPT ![m.pid] = @ + 1]
     /\ cpu' = [cpu EXCEPT ![c] =
          [m EXCEPT !.pc = "control", !.PC = m.PC + 1,
                    !.res = IF op = "CPU" THEN "sigue" ELSE "cede",
                    !.envie = m.envie \/ op \in {"IO", "DUMP", "EXIT"}]]
     /\ manejadores' = IF op = "CPU" THEN manejadores
          ELSE manejadores \cup
                 {[op |-> op, pc |-> "entra", pid |-> m.pid, cpu |-> c, PC |-> m.PC + 1]}
     /\ UNCHANGED <<regimen, kernelVars, cpusVars, aviso, porAvisar, srt, enIO, panico>>

\* The loop waits for ColaDeEjecucion.
Vacia(m) == [m EXCEPT !.pc = "libre", !.pid = NADA, !.PC = 0, !.res = "cede"]

\* Check interrupts: Signal waits for RecibirInterrupcion.
Controlar(c) ==
  LET m == cpu[c] IN
  /\ m.pc = "control"
  /\ m.hay => m.int = "espera"
  /\ cpu' = [cpu EXCEPT ![c] =
       CASE m.hay -> [m EXCEPT !.pcInt = m.PC, !.int = "sigue", !.pc = "cede"]
         [] ~m.hay /\ m.res = "sigue" ->
              [Vacia(m) EXCEPT !.cola = Append(@, [pid |-> m.pid, PC |-> m.PC])]
         [] OTHER -> [m EXCEPT !.pc = "cede"]]
  /\ UNCHANGED <<regimen, kernelVars, cpusVars, aviso, porAvisar, srt, manejadores, enIO,
                 hecho, panico>>

\* Mutant of Ceder: HayInterrupcion stays.
CederSinReset(c) ==
  /\ cpu[c].pc = "cede"
  /\ cpu' = [cpu EXCEPT ![c] = [Vacia(@) EXCEPT !.envie = FALSE]]
  /\ UNCHANGED <<regimen, kernelVars, cpusVars, aviso, porAvisar, srt, manejadores, enIO,
                 hecho, panico>>

\* PONERSE_ESPERA, and the end of the round.
Ceder(c) ==
  /\ cpu[c].pc = "cede"
  /\ cpu' = [cpu EXCEPT ![c] = [Vacia(@) EXCEPT !.hay = FALSE, !.envie = FALSE]]
  /\ UNCHANGED <<regimen, kernelVars, cpusVars, aviso, porAvisar, srt, manejadores, enIO,
                 hecho, panico>>

\* RecibirInterrupcion after its Wait: what it reads of EnvieSyscallBloqueante
\* races with the end of the round.
Responder(c) ==
  /\ cpu[c].int = "sigue"
  /\ cpu' = [cpu EXCEPT ![c].int = "hecho", ![c].pcInt = NINGUNO,
               ![c].resp = IF cpu[c].envie THEN NINGUNO ELSE cpu[c].pcInt]
  /\ UNCHANGED <<regimen, kernelVars, cpusVars, aviso, porAvisar, srt, manejadores, enIO,
                 hecho, panico>>

PasoCPU(c) ==
  /\ ~regimen.pausas => ~EnRonda
  /\ Tomar(c) \/ Ejecutar(c) \/ Controlar(c) \/ Ceder(c) \/ Responder(c)
---------------------------------------------------------------------------
(* The handlers of the syscalls (syscallHandler.go). *)

Sigue(h, pc) == manejadores' = (manejadores \ {h}) \cup {[h EXCEPT !.pc = pc]}

Termina(h) == manejadores' = manejadores \ {h}

\* BloquearProceso, when the process is in Cola_execute; the estimate is
\* updated with a measured time.
Bloquear(p, conPC) ==
  \E e \in Estimaciones :
    /\ mapa' = [mapa EXCEPT ![p] = [estado |-> "BLOCKED", PC |-> conPC, est |-> e]]
    /\ SalirDeExecute(p)

\* manejarIO.  "No se atiende IO" returns without freeing the CPU.
AtenderIO(h) ==
  LET p == h.pid IN
  /\ h.op = "IO" /\ h.pc = "entra" /\ ~Tomado(p)
  /\ IF EnExecute(p)
     THEN /\ enIO' = enIO \cup {p} /\ Sigue(h, "libera")
          /\ IF Esta(execute, p) THEN Bloquear(p, h.PC)
             ELSE /\ mapa' = [mapa EXCEPT ![p].PC = h.PC]
                  /\ UNCHANGED <<execute, restante>>
     ELSE Termina(h) /\ UNCHANGED <<mapa, execute, restante, enIO>>
  /\ UNCHANGED <<regimen, ready, cpusVars, aviso, porAvisar, srt, cpu, hecho,
                 panico>>

\* manejarDUMP_MEMORY: BLOCKED while the memory module writes ...
AtenderDump(h) ==
  LET p == h.pid IN
  /\ h.op = "DUMP" /\ h.pc = "entra"
  /\ CASE mapa[p] = NADA -> Termina(h) /\ UNCHANGED <<mapa, execute, restante>>
       [] mapa[p] # NADA /\ Esta(execute, p) ->
            Bloquear(p, mapa[p].PC) /\ Sigue(h, "vuelca")
       [] OTHER -> Sigue(h, "libera") /\ UNCHANGED <<mapa, execute, restante>>
  /\ UNCHANGED <<regimen, ready, cpusVars, aviso, porAvisar, srt, enIO, cpu,
                 hecho, panico>>

\* ... with the process mutex locked; then READY, and the planner is told,
\* before the CPU is free.  A state that changed meanwhile returns without it.
TerminarDump(h) ==
  LET p == h.pid IN
  /\ h.op = "DUMP" /\ h.pc = "vuelca"
  /\ CASE mapa[p] = NADA -> Sigue(h, "libera") /\ UNCHANGED <<mapa, ready, porAvisar>>
       [] mapa[p] # NADA /\ mapa[p].estado = "BLOCKED" ->
            /\ mapa' = [mapa EXCEPT ![p].estado = "READY", ![p].PC = h.PC]
            /\ ready' = Agregar(ready, p) /\ porAvisar' = porAvisar + 1
            /\ Sigue(h, "libera")
       [] OTHER -> /\ mapa' = [mapa EXCEPT ![p].PC = h.PC] /\ Termina(h)
                   /\ UNCHANGED <<ready, porAvisar>>
  /\ UNCHANGED <<regimen, execute, restante, cpusVars, aviso, srt, enIO, cpu, hecho,
                 panico>>

\* manejarInit_Proc: the process goes back to its CPU, whatever became of it.
AtenderInit(h) ==
  /\ h.op = "INIT" /\ Termina(h)
  /\ cpu' = [cpu EXCEPT ![h.cpu].cola = Append(@, [pid |-> h.pid, PC |-> h.PC])]
  /\ pidActual' = [pidActual EXCEPT ![h.cpu] = h.pid]
  /\ UNCHANGED <<regimen, kernelVars, libre, aviso, porAvisar, srt, enIO, hecho, panico>>

\* manejarEXIT: FinalizarProceso looks only in EXECUTE ...
FinEnCola(h) ==
  /\ h.op = "EXIT" /\ h.pc = "entra"
  /\ SalirDeExecute(h.pid) /\ Sigue(h, "mapa")
  /\ UNCHANGED <<regimen, mapa, ready, cpusVars, aviso, porAvisar, srt, enIO,
                 cpu, hecho, panico>>

\* ... and log_exit dereferences the process.
FinEnMapa(h) ==
  /\ h.op = "EXIT" /\ h.pc = "mapa" /\ ~Tomado(h.pid)
  /\ IF mapa[h.pid] = NADA THEN Panico
     ELSE /\ mapa' = [mapa EXCEPT ![h.pid] = NADA] /\ Sigue(h, "libera")
          /\ UNCHANGED <<regimen, ready, execute, restante, cpusVars, aviso, porAvisar,
                         srt, enIO, cpu, hecho, panico>>

\* LiberarCPU.
Liberar(h) ==
  /\ h.pc = "libera" /\ Termina(h)
  /\ libre' = [libre EXCEPT ![h.cpu] = TRUE] /\ porAvisar' = porAvisar + 1
  /\ UNCHANGED <<regimen, kernelVars, pidActual, aviso, srt, enIO, cpu, hecho, panico>>

PasoManejador(h) ==
  \/ AtenderIO(h) \/ AtenderDump(h) \/ TerminarDump(h) \/ AtenderInit(h)
  \/ FinEnCola(h) \/ FinEnMapa(h) \/ Liberar(h)
---------------------------------------------------------------------------

Init ==
  /\ regimen \in Regimenes
  /\ mapa = [p \in Pids |-> [estado |-> "NEW", PC |-> 0, est |-> EstimacionInicial]]
  /\ ready = <<>> /\ execute = <<>> /\ restante = [p \in Pids |-> 0]
  /\ libre = [c \in CPUs |-> TRUE] /\ pidActual = [c \in CPUs |-> NADA]
  /\ aviso = 0 /\ porAvisar = 0 /\ srt = SrtEsperando
  /\ manejadores = {} /\ enIO = {}
  /\ cpu = [c \in CPUs |-> CpuOciosa]
  /\ hecho = [p \in Pids |-> 0] /\ panico = FALSE

PasoEntorno(p) == Llegar(p) \/ FinIO(p)

Next ==
  /\ ~panico
  /\ \/ PasoSRT \/ Avisar
     \/ \E p \in Pids : PasoEntorno(p) \/ PasarTiempo(p)
     \/ \E h \in manejadores : PasoManejador(h)
     \/ \E c \in ListaCPUs : PasoCPU(c)

Spec == Init /\ [][Next]_vars

\* Goroutines run, processes are admitted and devices answer.  Time need not
\* pass.
SpecJusta ==
  /\ Spec
  /\ WF_vars(~panico /\ PasoSRT) /\ WF_vars(~panico /\ Avisar)
  /\ WF_vars(~panico /\ \E h \in manejadores : PasoManejador(h))
  /\ \A p \in Pids : WF_vars(~panico /\ PasoEntorno(p))
  /\ \A c \in CPUs : WF_vars(~panico /\ c \in ListaCPUs /\ PasoCPU(c))
===========================================================================
