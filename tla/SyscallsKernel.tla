-------------------------- MODULE SyscallsKernel --------------------------
(***************************************************************************)
(* The syscalls: the CPU module issues one (Execute in cpu/utils) and goes *)
(* idle; the kernel serves it in a goroutine of its own (syscallHandler.go)*)
(* and, except for INIT_PROC, gives the CPU back at the end.               *)
(***************************************************************************)
EXTENDS PlanificadorLargo, PlanificadorMedio, EntradaSalida

\* The first step of each handler.
Entrada == [IO |-> "io_lista", EXIT |-> "fin_memoria", DUMP |-> "dump_mira",
            INIT |-> "init_crea"]

\* FinalizarProceso's estadoAnterior.
EstadoAnterior(op) == IF op = "DUMP" THEN "BLOCKED" ELSE "EXECUTE"

En(c, pc) == manejador[c].pc = pc

Pasar(c, pc) == manejador' = [manejador EXCEPT ![c].pc = pc]

\* Mutant of HandshakeCPU: a CPU may register again.
HandshakeRepetido(c) ==
  /\ listaCPUs' = Append(listaCPUs, c)
  /\ libre' = [libre EXCEPT ![c] = TRUE]
  /\ semCpus' = semCpus + 1
  /\ UNCHANGED <<procesosVars, mutexVars, semReady, semPasar, avisosCpu,
                 ioVars, corto, largo, temporizador, sesiones, manejador,
                 finIO, ejecuta, dispositivo, memoria, emitidas, panico>>

\* RecibirHandshakeCPU.  The code appends whoever calls (agregarAListaCPUs); a
\* CPU that comes back under its name is not in the model.
HandshakeCPU(c) ==
  /\ ~Esta(listaCPUs, c)
  /\ listaCPUs' = Append(listaCPUs, c)
  /\ libre' = [libre EXCEPT ![c] = TRUE]
  /\ semCpus' = semCpus + 1
  /\ UNCHANGED <<procesosVars, mutexVars, semReady, semPasar, avisosCpu,
                 ioVars, corto, largo, temporizador, sesiones, manejador,
                 finIO, ejecuta, dispositivo, memoria, emitidas, panico>>

\* The bound on processes leaves room for one more INIT_PROC.
QuedanPids ==
  pidCounter + Cardinality({c \in CPUs : En(c, "init_crea")}) < MaxPids

\* The program reaches its next syscall (PC counts syscalls: the instructions
\* in between do not reach the kernel).
EmitirSyscall(c) ==
  LET p == ejecuta[c].pid
      n == ejecuta[c].PC + 1
  IN /\ p # NINGUNO /\ En(c, "inactivo")
     /\ FetchLento =>
          ~(corto.cpu = c /\ corto.pc \in {"a_execute", "cambia"})
     /\ \E op \in Programa[p][n] :
          /\ op = "INIT" => QuedanPids
          /\ \E io \in IF op = "IO" THEN NombresIO ELSE {NADA} :
               manejador' = [manejador EXCEPT ![c] =
                 [pc |-> Entrada[op], op |-> op, pid |-> p, n |-> n, io |-> io,
                  nuevo |-> NINGUNO]]
     /\ ejecuta' = [ejecuta EXCEPT ![c] = Ociosa]
     /\ emitidas' = [emitidas EXCEPT ![p] = n]
     /\ UNCHANGED <<procesosVars, mutexVars, semVars, cpuVars, ioVars, corto,
                    largo, temporizador, sesiones, finIO, dispositivo, memoria,
                    panico>>
---------------------------------------------------------------------------
(* LiberarCPU: the flag under ListaCPUsMutex, then the signal. *)

MarcarLibre(c) ==
  /\ En(c, "libera")
  /\ libre' = [libre EXCEPT ![c] = TRUE]
  /\ avisosCpu' = avisosCpu + 1
  /\ manejador' = [manejador EXCEPT ![c] = SinSyscall]
  /\ UNCHANGED <<procesosVars, mutexVars, semCpus, semReady, semPasar,
                 listaCPUs, ioVars, corto, largo, temporizador, sesiones,
                 finIO, ejecuta, dispositivo, memoria, emitidas, panico>>

AvisarCpuLibre ==
  /\ avisosCpu > 0
  /\ avisosCpu' = avisosCpu - 1
  /\ semCpus' = semCpus + 1
  /\ UNCHANGED <<procesosVars, mutexVars, semReady, semPasar, cpuVars, ioVars,
                 corto, largo, temporizador, sesiones, manejador, finIO,
                 ejecuta, dispositivo, memoria, emitidas, panico>>
---------------------------------------------------------------------------
(* FinalizarProceso, for EXIT, for IO on a device that is not there and for *)
(* a dump that failed.                                                      *)

FinEnMemoria(c) ==
  /\ En(c, "fin_memoria")
  /\ memoria' = [memoria EXCEPT ![manejador[c].pid] = "fuera"]
  /\ Pasar(c, "fin_cola")
  /\ UNCHANGED <<procesosVars, mutexVars, semVars, cpuVars, ioVars, corto,
                 largo, temporizador, sesiones, finIO, ejecuta, dispositivo,
                 emitidas, panico>>

\* eliminar_proceso_de(estadoAnterior).
FinEnCola(c) ==
  /\ En(c, "fin_cola")
  /\ cola' = [cola EXCEPT ![EstadoAnterior(manejador[c].op)] =
                Quitar(@, manejador[c].pid)]
  /\ Pasar(c, "fin_log")
  /\ UNCHANGED <<mapa, pidCounter, mutexVars, semVars, cpuVars, ioVars, corto,
                 largo, temporizador, sesiones, finIO, ejecuta, dispositivo,
                 memoria, emitidas, panico>>

\* Metrics and log_exit, a nil dereference if the process is gone.
FinEnLog(c) ==
  LET p == manejador[c].pid IN
  /\ En(c, "fin_log") /\ mutexProc[p] = NADA
  /\ IF mapa[p] = NADA THEN Panico
     ELSE /\ Pasar(c, "fin_mapa")
          /\ UNCHANGED <<procesosVars, mutexVars, semVars, cpuVars, ioVars,
                         corto, largo, temporizador, sesiones, finIO, ejecuta,
                         dispositivo, memoria, emitidas, panico>>

\* Mutant of FinEnMapa: the long-term planner is not woken.
FinEnMapaSinAviso(c) ==
  LET p == manejador[c].pid IN
  /\ En(c, "fin_mapa") /\ mutexProc[p] = NADA
  /\ mapa' = [mapa EXCEPT ![p] = NADA]
  /\ Pasar(c, "libera")
  /\ UNCHANGED <<cola, pidCounter, mutexVars, semVars, cpuVars, ioVars, corto,
                 largo, temporizador, sesiones, finIO, ejecuta, dispositivo,
                 memoria, emitidas, panico>>

\* eliminar_de_mapa_procesos, whether it is there or not, and the signal.
FinEnMapa(c) ==
  LET p == manejador[c].pid IN
  /\ En(c, "fin_mapa") /\ mutexProc[p] = NADA
  /\ mapa' = [mapa EXCEPT ![p] = NADA]
  /\ semPasar' = semPasar + 1
  /\ Pasar(c, "libera")
  /\ UNCHANGED <<cola, pidCounter, mutexVars, semCpus, semReady, avisosCpu,
                 cpuVars, ioVars, corto, largo, temporizador, sesiones, finIO,
                 ejecuta, dispositivo, memoria, emitidas, panico>>
---------------------------------------------------------------------------
(* manejarIO *)

IOTomarLista(c) ==
  /\ En(c, "io_lista") /\ mutexIOs = NADA
  /\ mutexIOs' = GSyscall(c)
  /\ Pasar(c, "io_proceso")
  /\ UNCHANGED <<procesosVars, mutexProc, fugaReady, semVars, cpuVars, ioVars,
                 corto, largo, temporizador, sesiones, finIO, ejecuta,
                 dispositivo, memoria, emitidas, panico>>

EnExecute(p) == mapa[p] # NADA /\ mapa[p].estado = "EXECUTE"

\* The process is gone or not in EXECUTE: the handler returns, and does not
\* give the CPU back.
IODescartar(c) ==
  LET p == manejador[c].pid IN
  /\ En(c, "io_proceso") /\ mutexProc[p] = NADA /\ ~EnExecute(p)
  /\ mutexIOs' = NADA
  /\ manejador' = [manejador EXCEPT ![c] = SinSyscall]
  /\ UNCHANGED <<procesosVars, mutexProc, fugaReady, semVars, cpuVars, ioVars,
                 corto, largo, temporizador, sesiones, finIO, ejecuta,
                 dispositivo, memoria, emitidas, panico>>

\* No instance of the device: FinalizarProceso, then LiberarCPU.
IOInexistente(c) ==
  LET m == manejador[c] IN
  /\ En(c, "io_proceso") /\ mutexProc[m.pid] = NADA /\ EnExecute(m.pid)
  /\ ~ExisteIO(m.io)
  /\ mutexIOs' = NADA
  /\ Pasar(c, "fin_memoria")
  /\ UNCHANGED <<procesosVars, mutexProc, fugaReady, semVars, cpuVars, ioVars,
                 corto, largo, temporizador, sesiones, finIO, ejecuta,
                 dispositivo, memoria, emitidas, panico>>

\* Mutant of IOSolicitar: the process mutex is released before the block.
IOSolicitarSinLock(c) ==
  LET m == manejador[c] IN
  /\ En(c, "io_proceso") /\ mutexProc[m.pid] = NADA /\ EnExecute(m.pid)
  /\ ExisteIO(m.io)
  /\ mapa' = [mapa EXCEPT ![m.pid].PC = m.n]
  /\ mutexIOs' = NADA
  /\ Pasar(c, "io_bloquea")
  /\ \/ /\ Libres(m.io) # {}
        /\ Solicitar(PrimeraLibre(m.io), m.pid)
        /\ UNCHANGED esperaIO
     \/ /\ Libres(m.io) = {}
        /\ esperaIO' = [esperaIO EXCEPT ![m.io] = Append(@, m.pid)]
        /\ UNCHANGED <<enIO, dispositivo, sesiones>>
  /\ UNCHANGED <<cola, pidCounter, mutexProc, fugaReady, semVars, cpuVars,
                 instanciasIO, corto, largo, temporizador, finIO, ejecuta,
                 memoria, emitidas, panico>>

\* A free instance gets the request, otherwise the process queues; the PC is
\* saved; ListaIOsMutex is released and the process mutex kept.
IOSolicitar(c) ==
  LET m == manejador[c] IN
  /\ En(c, "io_proceso") /\ mutexProc[m.pid] = NADA /\ EnExecute(m.pid)
  /\ ExisteIO(m.io)
  /\ mapa' = [mapa EXCEPT ![m.pid].PC = m.n]
  /\ mutexIOs' = NADA
  /\ mutexProc' = [mutexProc EXCEPT ![m.pid] = GSyscall(c)]
  /\ Pasar(c, "io_bloquea")
  /\ \/ /\ Libres(m.io) # {}
        /\ Solicitar(PrimeraLibre(m.io), m.pid)
        /\ UNCHANGED esperaIO
     \/ /\ Libres(m.io) = {}
        /\ esperaIO' = [esperaIO EXCEPT ![m.io] = Append(@, m.pid)]
        /\ UNCHANGED <<enIO, dispositivo, sesiones>>
  /\ UNCHANGED <<cola, pidCounter, fugaReady, semVars, cpuVars, instanciasIO,
                 corto, largo, temporizador, finIO, ejecuta, memoria, emitidas,
                 panico>>

\* Mutant of IOBloquear: no LiberarCPU.
IOBloquearSinLiberar(c) ==
  LET m == manejador[c]
      ok == Movible("EXECUTE", "BLOCKED", m.pid)
  IN /\ En(c, "io_bloquea")
     /\ cola' = MoverDe("EXECUTE", "BLOCKED", m.pid)
     /\ mapa' \in IF ok THEN Bloqueado(m.pid) ELSE {mapa}
     /\ temporizador' = IF ok THEN ConTimer(m.pid, m.n) ELSE temporizador
     /\ mutexProc' = [mutexProc EXCEPT ![m.pid] = NADA]
     /\ manejador' = [manejador EXCEPT ![c] = SinSyscall]
     /\ UNCHANGED <<pidCounter, mutexIOs, fugaReady, semVars, cpuVars, ioVars,
                    corto, largo, sesiones, finIO, ejecuta, dispositivo,
                    memoria, emitidas, panico>>

\* BloquearProceso, whose result is ignored, and the unlock.
IOBloquear(c) ==
  LET m == manejador[c]
      ok == Movible("EXECUTE", "BLOCKED", m.pid)
  IN /\ En(c, "io_bloquea")
     /\ cola' = MoverDe("EXECUTE", "BLOCKED", m.pid)
     /\ mapa' \in IF ok THEN Bloqueado(m.pid) ELSE {mapa}
     /\ temporizador' = IF ok THEN ConTimer(m.pid, m.n) ELSE temporizador
     /\ mutexProc' = [mutexProc EXCEPT ![m.pid] = NADA]
     /\ Pasar(c, "libera")
     /\ UNCHANGED <<pidCounter, mutexIOs, fugaReady, semVars, cpuVars, ioVars,
                    corto, largo, sesiones, finIO, ejecuta, dispositivo,
                    memoria, emitidas, panico>>
---------------------------------------------------------------------------
(* manejarDUMP_MEMORY *)

\* A missing process returns with its mutex locked and keeps the CPU.
DumpMirar(c) ==
  LET p == manejador[c].pid IN
  /\ En(c, "dump_mira") /\ mutexProc[p] = NADA
  /\ mutexProc' = IF mapa[p] = NADA
                  THEN [mutexProc EXCEPT ![p] = GSyscall(c)] ELSE mutexProc
  /\ manejador' = [manejador EXCEPT ![c] =
                     IF mapa[p] = NADA THEN SinSyscall
                     ELSE [@ EXCEPT !.pc = "dump_bloquea"]]
  /\ UNCHANGED <<procesosVars, mutexIOs, fugaReady, semVars, cpuVars, ioVars,
                 corto, largo, temporizador, sesiones, finIO, ejecuta,
                 dispositivo, memoria, emitidas, panico>>

\* BloquearProceso without the process mutex: the queues first ...
DumpBloquear(c) ==
  LET p == manejador[c].pid IN
  /\ En(c, "dump_bloquea")
  /\ cola' = MoverDe("EXECUTE", "BLOCKED", p)
  /\ Pasar(c, IF Movible("EXECUTE", "BLOCKED", p) THEN "dump_cambia"
              ELSE "libera")
  /\ UNCHANGED <<mapa, pidCounter, mutexVars, semVars, cpuVars, ioVars, corto,
                 largo, temporizador, sesiones, finIO, ejecuta, dispositivo,
                 memoria, emitidas, panico>>

\* ... then the state (a nil dereference if the process is gone) and the timer.
DumpCambiar(c) ==
  LET m == manejador[c] IN
  /\ En(c, "dump_cambia")
  /\ IF mapa[m.pid] = NADA THEN Panico
     ELSE
        /\ mapa' \in Bloqueado(m.pid)
        /\ temporizador' = ConTimer(m.pid, m.n)
        /\ Pasar(c, "dump_toma")
        /\ UNCHANGED <<cola, pidCounter, mutexVars, semVars, cpuVars, ioVars,
                       corto, largo, sesiones, finIO, ejecuta, dispositivo,
                       memoria, emitidas, panico>>

\* EnviarDumpMemory, with the process mutex held during the call.  When it
\* fails FinalizarProceso follows, which takes the same mutex.
EnviarDump(c) ==
  LET p == manejador[c].pid IN
  /\ En(c, "dump_toma") /\ mutexProc[p] = NADA
  /\ mutexProc' = [mutexProc EXCEPT ![p] = GSyscall(c)]
  /\ \/ Pasar(c, "dump_vuelve")
     \/ FallaDump /\ Pasar(c, "fin_memoria")
  /\ UNCHANGED <<procesosVars, mutexIOs, fugaReady, semVars, cpuVars, ioVars,
                 corto, largo, temporizador, sesiones, finIO, ejecuta,
                 dispositivo, memoria, emitidas, panico>>

\* The dump is done: back to READY, unless the process is gone.  One that is
\* no longer in BLOCKED ends the handler, which keeps the CPU.
DumpVolver(c) ==
  LET m == manejador[c]
      existe == mapa[m.pid] # NADA
      ok == existe /\ Movible("BLOCKED", "READY", m.pid)
  IN /\ En(c, "dump_vuelve") /\ ~fugaReady
     /\ cola' = IF existe THEN MoverDe("BLOCKED", "READY", m.pid) ELSE cola
     /\ mapa' = IF existe
                THEN [mapa EXCEPT ![m.pid].PC = m.n,
                                  ![m.pid].estado = IF ok THEN "READY" ELSE @]
                ELSE mapa
     /\ semReady' = IF ok THEN semReady + 1 ELSE semReady
     /\ mutexProc' = [mutexProc EXCEPT ![m.pid] = NADA]
     /\ manejador' = [manejador EXCEPT ![c] =
                        IF existe /\ ~ok THEN SinSyscall
                        ELSE [@ EXCEPT !.pc = "libera"]]
     /\ UNCHANGED <<pidCounter, mutexIOs, fugaReady, semCpus, semPasar,
                    avisosCpu, cpuVars, ioVars, corto, largo, temporizador,
                    sesiones, finIO, ejecuta, dispositivo, memoria, emitidas,
                    panico>>
---------------------------------------------------------------------------
(* manejarInit_Proc *)

\* CrearProcesoNuevo: the pid and its entry in the table ...
InitCrear(c) ==
  /\ En(c, "init_crea") /\ pidCounter < MaxPids
  /\ pidCounter' = pidCounter + 1
  /\ \E t \in Tamanios :
       mapa' = [mapa EXCEPT ![pidCounter] = ProcesoNuevo(t)]
  /\ manejador' = [manejador EXCEPT ![c].pc = "init_new",
                                    ![c].nuevo = pidCounter]
  /\ UNCHANGED <<cola, mutexVars, semVars, cpuVars, ioVars, corto, largo,
                 temporizador, sesiones, finIO, ejecuta, dispositivo, memoria,
                 emitidas, panico>>

\* ... then NEW, under NewMutex, and the signal.
InitAgregarNew(c) ==
  LET p == manejador[c].nuevo IN
  /\ En(c, "init_new") /\ ~TieneNew /\ PuedeOrdenar(Append(cola["NEW"], p))
  /\ \E s \in NewCon(p) : cola' = [cola EXCEPT !["NEW"] = s]
  /\ semPasar' = semPasar + 1
  /\ Pasar(c, "init_reenvia")
  /\ UNCHANGED <<mapa, pidCounter, mutexVars, semCpus, semReady, avisosCpu,
                 cpuVars, ioVars, corto, largo, temporizador, sesiones, finIO,
                 ejecuta, dispositivo, memoria, emitidas, panico>>

\* Mutant of InitReenviar: LiberarCPU follows, as in the other syscalls.
InitReenviarYLiberar(c) ==
  LET m == manejador[c] IN
  /\ En(c, "init_reenvia")
  /\ ejecuta' = [ejecuta EXCEPT ![c] = [pid |-> m.pid, PC |-> m.n]]
  /\ Pasar(c, "libera")
  /\ UNCHANGED <<procesosVars, mutexVars, semVars, cpuVars, ioVars, corto,
                 largo, temporizador, sesiones, finIO, dispositivo, memoria,
                 emitidas, panico>>

\* The same process goes back to the same CPU, from the PC of the syscall.
InitReenviar(c) ==
  LET m == manejador[c] IN
  /\ En(c, "init_reenvia")
  /\ ejecuta' = [ejecuta EXCEPT ![c] = [pid |-> m.pid, PC |-> m.n]]
  /\ manejador' = [manejador EXCEPT ![c] = SinSyscall]
  /\ UNCHANGED <<procesosVars, mutexVars, semVars, cpuVars, ioVars, corto,
                 largo, temporizador, sesiones, finIO, dispositivo, memoria,
                 emitidas, panico>>

PasoSyscall(c) ==
  \/ MarcarLibre(c)
  \/ FinEnMemoria(c) \/ FinEnCola(c) \/ FinEnLog(c)
  \/ FinEnMapa(c)
  \/ IOTomarLista(c) \/ IODescartar(c) \/ IOInexistente(c) \/ IOSolicitar(c)
  \/ IOBloquear(c)
  \/ DumpMirar(c) \/ DumpBloquear(c) \/ DumpCambiar(c) \/ EnviarDump(c)
  \/ DumpVolver(c)
  \/ InitCrear(c) \/ InitAgregarNew(c) \/ InitReenviar(c)
===========================================================================
