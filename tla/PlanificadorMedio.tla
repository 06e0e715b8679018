------------------------- MODULE PlanificadorMedio -------------------------
(***************************************************************************)
(* The medium-term planner (medio.go): every block starts a goroutine that *)
(* sleeps suspension_time and then suspends the process, if the session    *)
(* counter it noted has not moved and the process is BLOCKED.              *)
(***************************************************************************)
EXTENDS EstadoKernel

\* The timer that BloquearProceso starts for the n-th syscall of p; one whose
\* sleep outlasts everything else is left out.
ConTimer(p, n) ==
  IF Suspension
  THEN [temporizador EXCEPT ![p][n] = [pc |-> "duerme", sesion |-> sesiones[p]]]
  ELSE temporizador

\* The few instructions of manejarDUMP_MEMORY between BloquearProceso and the
\* Lock that follows it.
EntreBloqueoYLock(p) ==
  \E c \in CPUs : /\ manejador[c].pid = p
                  /\ manejador[c].pc \in {"dump_cambia", "dump_toma"}

\* Mutant of DespertarTimer: it does not wait for the process mutex.
DespertarTimerSinLock(p, n) ==
  LET t == temporizador[p][n]
      suspende == /\ mapa[p] # NADA
                  /\ sesiones[p] = t.sesion
                  /\ mapa[p].estado = "BLOCKED"
  IN /\ t.pc = "duerme"
     /\ temporizador' = [temporizador EXCEPT ![p][n] =
                           IF suspende THEN [t EXCEPT !.pc = "suspende"]
                           ELSE SinTimer]
     /\ mutexProc' = IF suspende
                     THEN [mutexProc EXCEPT ![p] = GTimer(p, n)]
                     ELSE mutexProc
     /\ UNCHANGED <<procesosVars, mutexIOs, fugaReady, semVars, cpuVars,
                    ioVars, corto, largo, sesiones, manejador, finIO, ejecuta,
                    dispositivo, memoria, emitidas, panico>>

\* Mutant of DespertarTimer: it does not look at the state.
DespertarTimerSinEstado(p, n) ==
  LET t == temporizador[p][n]
      suspende == mapa[p] # NADA /\ sesiones[p] = t.sesion
  IN /\ t.pc = "duerme" /\ mutexProc[p] = NADA
     /\ PausaDump \/ ~EntreBloqueoYLock(p)
     /\ temporizador' = [temporizador EXCEPT ![p][n] =
                           IF suspende THEN [t EXCEPT !.pc = "suspende"]
                           ELSE SinTimer]
     /\ mutexProc' = IF suspende
                     THEN [mutexProc EXCEPT ![p] = GTimer(p, n)]
                     ELSE mutexProc
     /\ UNCHANGED <<procesosVars, mutexIOs, fugaReady, semVars, cpuVars,
                    ioVars, corto, largo, sesiones, manejador, finIO, ejecuta,
                    dispositivo, memoria, emitidas, panico>>

\* sigueBloqueado: the sleep ends, at any time, and the timer decides.  If it
\* goes on it keeps the process mutex during the call to the memory module.
DespertarTimer(p, n) ==
  LET t == temporizador[p][n]
      suspende == /\ mapa[p] # NADA
                  /\ sesiones[p] = t.sesion
                  /\ mapa[p].estado = "BLOCKED"
  IN /\ t.pc = "duerme" /\ mutexProc[p] = NADA
     /\ PausaDump \/ ~EntreBloqueoYLock(p)
     /\ temporizador' = [temporizador EXCEPT ![p][n] =
                           IF suspende THEN [t EXCEPT !.pc = "suspende"]
                           ELSE SinTimer]
     /\ mutexProc' = IF suspende
                     THEN [mutexProc EXCEPT ![p] = GTimer(p, n)]
                     ELSE mutexProc
     /\ UNCHANGED <<procesosVars, mutexIOs, fugaReady, semVars, cpuVars,
                    ioVars, corto, largo, sesiones, manejador, finIO, ejecuta,
                    dispositivo, memoria, emitidas, panico>>

\* Mutant of SuspenderEnMemoria: the memory module is not told.
SuspenderSinMemoria(p, n) ==
  /\ temporizador[p][n].pc = "suspende"
  /\ temporizador' = [temporizador EXCEPT ![p][n].pc = "mueve"]
  /\ UNCHANGED <<procesosVars, mutexVars, semVars, cpuVars, ioVars, corto,
                 largo, sesiones, manejador, finIO, ejecuta, dispositivo,
                 memoria, emitidas, panico>>

\* enviar_suspension_proceso_a_memoria: the pages go to swap, if there are any.
SuspenderEnMemoria(p, n) ==
  /\ temporizador[p][n].pc = "suspende"
  /\ memoria' = [memoria EXCEPT ![p] = IF @ = "fuera" THEN @ ELSE "swap"]
  /\ temporizador' = [temporizador EXCEPT ![p][n].pc = "mueve"]
  /\ UNCHANGED <<procesosVars, mutexVars, semVars, cpuVars, ioVars, corto,
                 largo, sesiones, manejador, finIO, ejecuta, dispositivo,
                 emitidas, panico>>

\* blocked_a_susp_blocked, the signal to the long-term planner, the unlock.
BlockedASuspBlocked(p, n) ==
  /\ temporizador[p][n].pc = "mueve"
  /\ cola' = MoverDe("BLOCKED", "SUSP_BLOCKED", p)
  /\ mapa' = IF Movible("BLOCKED", "SUSP_BLOCKED", p)
             THEN ConEstado(p, "SUSP_BLOCKED") ELSE mapa
  /\ semPasar' = semPasar + 1
  /\ mutexProc' = [mutexProc EXCEPT ![p] = NADA]
  /\ temporizador' = [temporizador EXCEPT ![p][n] = SinTimer]
  /\ UNCHANGED <<pidCounter, mutexIOs, fugaReady, semCpus, semReady,
                 avisosCpu, cpuVars, ioVars, corto, largo, sesiones, manejador,
                 finIO, ejecuta, dispositivo, memoria, emitidas, panico>>

PasoTimer(p, n) ==
  \/ DespertarTimer(p, n) \/ SuspenderEnMemoria(p, n)
  \/ BlockedASuspBlocked(p, n)
===========================================================================
