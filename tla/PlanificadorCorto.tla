------------------------- MODULE PlanificadorCorto -------------------------
(***************************************************************************)
(* The short-term planner (corto.go) under FIFO and SJF: one goroutine     *)
(* that waits for a free CPU and for a process in READY, picks both and    *)
(* dispatches.  The process changes to EXECUTE after the CPU has it.       *)
(***************************************************************************)
EXTENDS EstadoKernel

\* Mutant of EsperarCpu: Sem_Cpus is taken without waiting.
EsperarCpuSinFicha ==
  /\ corto.pc = "espera_cpu"
  /\ semCpus' = semCpus - 1
  /\ corto' = [corto EXCEPT !.pc = "espera_ready"]
  /\ UNCHANGED <<procesosVars, mutexVars, semReady, semPasar, avisosCpu,
                 cpuVars, ioVars, largo, temporizador, sesiones, manejador,
                 finIO, ejecuta, dispositivo, memoria, emitidas, panico>>

\* planificadorFIFO / planificadorSJF: Wait(Sem_Cpus).
EsperarCpu ==
  /\ corto.pc = "espera_cpu" /\ semCpus > 0
  /\ semCpus' = semCpus - 1
  /\ corto' = [corto EXCEPT !.pc = "espera_ready"]
  /\ UNCHANGED <<procesosVars, mutexVars, semReady, semPasar, avisosCpu,
                 cpuVars, ioVars, largo, temporizador, sesiones, manejador,
                 finIO, ejecuta, dispositivo, memoria, emitidas, panico>>

\* Mutant of EsperarReady: no Wait(Sem_ProcesosEnReady).
EsperarReadySinFicha ==
  /\ corto.pc = "espera_ready"
  /\ corto' = [corto EXCEPT !.pc = "elige_cpu"]
  /\ UNCHANGED <<procesosVars, mutexVars, semVars, cpuVars, ioVars, largo,
                 temporizador, sesiones, manejador, finIO, ejecuta,
                 dispositivo, memoria, emitidas, panico>>

\* Wait(Sem_ProcesosEnReady).
EsperarReady ==
  /\ corto.pc = "espera_ready" /\ semReady > 0
  /\ semReady' = semReady - 1
  /\ corto' = [corto EXCEPT !.pc = "elige_cpu"]
  /\ UNCHANGED <<procesosVars, mutexVars, semCpus, semPasar, avisosCpu,
                 cpuVars, ioVars, largo, temporizador, sesiones, manejador,
                 finIO, ejecuta, dispositivo, memoria, emitidas, panico>>

\* elegirCPUlibre: the first free CPU in the order of the handshakes; with
\* none, the round is abandoned and both tokens are spent.
ElegirCpu ==
  LET libres == {k \in DOMAIN listaCPUs : libre[listaCPUs[k]]}
      primera == listaCPUs[CHOOSE k \in libres : \A j \in libres : k <= j]
  IN /\ corto.pc = "elige_cpu"
     /\ corto' = IF libres = {} THEN CortoEsperando
                 ELSE [corto EXCEPT !.pc = "elige_pid", !.cpu = primera]
     /\ libre' = IF libres = {} THEN libre
                 ELSE [libre EXCEPT ![primera] = FALSE]
     /\ UNCHANGED <<procesosVars, mutexVars, semVars, listaCPUs, ioVars, largo,
                    temporizador, sesiones, manejador, finIO, ejecuta,
                    dispositivo, memoria, emitidas, panico>>

\* ordenarReadyPorRafaga, in SJF only.
OrdenesReady ==
  IF Algoritmo = "FIFO" THEN {cola["READY"]}
  ELSE Ordenadas(cola["READY"], LAMBDA p : mapa[p].est)

\* Cola_ready[0], under ReadyMutex: an empty queue is an index out of range.
ElegirPid ==
  /\ corto.pc = "elige_pid" /\ ~fugaReady
  /\ IF cola["READY"] = <<>> THEN Panico
     ELSE
        /\ \E s \in OrdenesReady :
             /\ cola' = [cola EXCEPT !["READY"] = s]
             /\ corto' = [corto EXCEPT !.pc = "lee_pcb", !.pid = s[1]]
        /\ UNCHANGED <<mapa, pidCounter, mutexVars, semVars, cpuVars, ioVars,
                       largo, temporizador, sesiones, manejador, finIO,
                       ejecuta, dispositivo, memoria, emitidas, panico>>

\* The PC is read under the process mutex, which a missing process leaks.
LeerPcb ==
  LET p == corto.pid IN
  /\ corto.pc = "lee_pcb" /\ mutexProc[p] = NADA
  /\ IF mapa[p] = NADA
     THEN /\ mutexProc' = [mutexProc EXCEPT ![p] = GCorto]
          /\ corto' = CortoEsperando
     ELSE /\ corto' = [corto EXCEPT !.pc = "envia", !.PC = mapa[p].PC]
          /\ UNCHANGED mutexProc
  /\ UNCHANGED <<procesosVars, mutexIOs, fugaReady, semVars, cpuVars, ioVars,
                 largo, temporizador, sesiones, manejador, finIO, ejecuta,
                 dispositivo, memoria, emitidas, panico>>

\* Enviar_proceso_a_cpu: from here on the CPU executes the process.
EnviarProceso ==
  /\ corto.pc = "envia"
  /\ ejecuta' = [ejecuta EXCEPT ![corto.cpu] =
                   [pid |-> corto.pid, PC |-> corto.PC]]
  /\ corto' = [corto EXCEPT !.pc = "a_execute"]
  /\ UNCHANGED <<procesosVars, mutexVars, semVars, cpuVars, ioVars, largo,
                 temporizador, sesiones, manejador, finIO, dispositivo,
                 memoria, emitidas, panico>>

\* ready_a_execute up to the queues.  A pid that is not in READY returns with
\* the process mutex and ReadyMutex locked, one already in EXECUTE with the
\* process mutex locked.
ReadyAExecute ==
  LET p == corto.pid IN
  /\ corto.pc = "a_execute" /\ mutexProc[p] = NADA /\ ~fugaReady
  /\ mutexProc' = [mutexProc EXCEPT ![p] = GCorto]
  /\ cola' = MoverDe("READY", "EXECUTE", p)
  /\ fugaReady' = ~Esta(cola["READY"], p)
  /\ corto' = IF Movible("READY", "EXECUTE", p)
              THEN [corto EXCEPT !.pc = "cambia"] ELSE CortoEsperando
  /\ UNCHANGED <<mapa, pidCounter, mutexIOs, semVars, cpuVars, ioVars, largo,
                 temporizador, sesiones, manejador, finIO, ejecuta,
                 dispositivo, memoria, emitidas, panico>>

\* cambiar_estado(READY, EXECUTE), a nil dereference if the process is gone,
\* and the unlock.
CambiarAExecute ==
  LET p == corto.pid IN
  /\ corto.pc = "cambia"
  /\ IF mapa[p] = NADA THEN Panico
     ELSE
        /\ mapa' = ConEstado(p, "EXECUTE")
        /\ mutexProc' = [mutexProc EXCEPT ![p] = NADA]
        /\ corto' = CortoEsperando
        /\ UNCHANGED <<cola, pidCounter, mutexIOs, fugaReady, semVars, cpuVars,
                       ioVars, largo, temporizador, sesiones, manejador, finIO,
                       ejecuta, dispositivo, memoria, emitidas, panico>>

PasoCorto ==
  \/ EsperarCpu \/ EsperarReady \/ ElegirCpu \/ ElegirPid \/ LeerPcb
  \/ EnviarProceso \/ ReadyAExecute \/ CambiarAExecute
===========================================================================
