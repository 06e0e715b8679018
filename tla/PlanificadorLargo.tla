------------------------- MODULE PlanificadorLargo -------------------------
(***************************************************************************)
(* The long-term planner (largo.go): one goroutine, woken by a signal,     *)
(* that lets processes of SUSP_READY, and when none is left of NEW, into   *)
(* READY while the memory module has room.                                 *)
(***************************************************************************)
EXTENDS EstadoKernel

\* ordenar_new / ordenar_susp_ready: the queue by size under PMCP.  Sorting
\* takes the mutexes of the processes it compares.
PorTamanio(e) ==
  IF PMCP THEN Ordenadas(cola[e], LAMBDA p : mapa[p].tam) ELSE {cola[e]}

PuedeOrdenar(s) ==
  PMCP /\ Len(s) > 1 => \A i \in DOMAIN s : mutexProc[s[i]] = NADA

\* pasar_procesos_a_ready: Wait, then Lock of SuspReadyMutex, which nobody
\* else keeps.
DespertarLargo ==
  /\ largo.pc = "espera" /\ semPasar > 0
  /\ semPasar' = semPasar - 1
  /\ largo' = [largo EXCEPT !.pc = "susp"]
  /\ UNCHANGED <<procesosVars, mutexVars, semCpus, semReady, avisosCpu,
                 cpuVars, ioVars, corto, temporizador, sesiones, manejador,
                 finIO, ejecuta, dispositivo, memoria, emitidas, panico>>

\* pasar_desde_susp_ready, one round: the first of SUSP_READY asks the memory
\* module to come back.  Refused, it stays and the planner waits again.
IntentarReanudar ==
  /\ largo.pc = "susp" /\ cola["SUSP_READY"] # <<>>
  /\ PuedeOrdenar(cola["SUSP_READY"])
  /\ \E s \in PorTamanio("SUSP_READY") :
       /\ cola' = [cola EXCEPT !["SUSP_READY"] = s]
       /\ \/ /\ Readmite(s[1])
             /\ memoria' = [memoria EXCEPT ![s[1]] = "ram"]
             /\ largo' = [pc |-> "susp_mueve", pid |-> s[1]]
          \/ /\ ~Readmite(s[1])
             /\ largo' = [largo EXCEPT !.pc = "espera"]
             /\ UNCHANGED memoria
  /\ UNCHANGED <<mapa, pidCounter, mutexVars, semVars, cpuVars, ioVars, corto,
                 temporizador, sesiones, manejador, finIO, ejecuta,
                 dispositivo, emitidas, panico>>

\* susp_ready_a_ready and Avisar_proceso_en_ready, whose call ignores the
\* result of the first: a pid that is not there leaves its mutex locked.  The
\* process itself is not checked: a missing one is a nil dereference.
SuspReadyAReady ==
  LET p == largo.pid
      ok == Movible("SUSP_READY", "READY", p)
  IN /\ largo.pc = "susp_mueve" /\ mutexProc[p] = NADA /\ ~fugaReady
     /\ IF ok /\ mapa[p] = NADA THEN Panico
        ELSE
          /\ cola' = MoverDe("SUSP_READY", "READY", p)
          /\ mapa' = IF ok THEN ConEstado(p, "READY") ELSE mapa
          /\ mutexProc' = IF ok THEN mutexProc
                          ELSE [mutexProc EXCEPT ![p] = GLargo]
          /\ semReady' = semReady + 1
          /\ largo' = [largo EXCEPT !.pc = "susp"]
          /\ UNCHANGED <<pidCounter, mutexIOs, fugaReady, semCpus, semPasar,
                         avisosCpu, cpuVars, ioVars, corto, temporizador,
                         sesiones, manejador, finIO, ejecuta, dispositivo,
                         memoria, emitidas, panico>>

\* SUSP_READY was seen empty: SuspReadyMutex is released, NewMutex taken.
SuspReadyVacia ==
  /\ largo.pc = "susp" /\ cola["SUSP_READY"] = <<>>
  /\ largo' = [largo EXCEPT !.pc = "new"]
  /\ UNCHANGED <<procesosVars, mutexVars, semVars, cpuVars, ioVars, corto,
                 temporizador, sesiones, manejador, finIO, ejecuta,
                 dispositivo, memoria, emitidas, panico>>

\* pasar_desde_new, one round.  SUSP_READY is not looked at again: the check
\* is commented out.
IntentarIniciar ==
  /\ largo.pc = "new" /\ cola["NEW"] # <<>> /\ PuedeOrdenar(cola["NEW"])
  /\ \E s \in PorTamanio("NEW") :
       /\ mutexProc[s[1]] = NADA
       /\ cola' = [cola EXCEPT !["NEW"] = s]
       /\ \/ /\ Cabe(s[1])
             /\ memoria' = [memoria EXCEPT ![s[1]] = "ram"]
             /\ largo' = [pc |-> "new_mueve", pid |-> s[1]]
          \/ /\ ~Cabe(s[1])
             /\ largo' = [largo EXCEPT !.pc = "espera"]
             /\ UNCHANGED memoria
  /\ UNCHANGED <<mapa, pidCounter, mutexVars, semVars, cpuVars, ioVars, corto,
                 temporizador, sesiones, manejador, finIO, ejecuta,
                 dispositivo, emitidas, panico>>

\* new_a_ready and Avisar_proceso_en_ready.
NewAReady ==
  LET p == largo.pid
      ok == Movible("NEW", "READY", p)
  IN /\ largo.pc = "new_mueve" /\ mutexProc[p] = NADA /\ ~fugaReady
     /\ IF ok /\ mapa[p] = NADA THEN Panico
        ELSE
          /\ cola' = MoverDe("NEW", "READY", p)
          /\ mapa' = IF ok THEN ConEstado(p, "READY") ELSE mapa
          /\ mutexProc' = IF ok THEN mutexProc
                          ELSE [mutexProc EXCEPT ![p] = GLargo]
          /\ semReady' = semReady + 1
          /\ largo' = [largo EXCEPT !.pc = "new"]
          /\ UNCHANGED <<pidCounter, mutexIOs, fugaReady, semCpus, semPasar,
                         avisosCpu, cpuVars, ioVars, corto, temporizador,
                         sesiones, manejador, finIO, ejecuta, dispositivo,
                         memoria, emitidas, panico>>

NewVacia ==
  /\ largo.pc = "new" /\ cola["NEW"] = <<>>
  /\ largo' = [largo EXCEPT !.pc = "espera"]
  /\ UNCHANGED <<procesosVars, mutexVars, semVars, cpuVars, ioVars, corto,
                 temporizador, sesiones, manejador, finIO, ejecuta,
                 dispositivo, memoria, emitidas, panico>>

PasoLargo ==
  \/ DespertarLargo \/ IntentarReanudar \/ SuspReadyAReady \/ SuspReadyVacia
  \/ IntentarIniciar \/ NewAReady \/ NewVacia
---------------------------------------------------------------------------
(* What the syscall handlers call in largo.go. *)

\* crear_estructuras_proceso, for a size t.
ProcesoNuevo(t) ==
  [estado |-> "NEW", PC |-> 0, tam |-> t, est |-> EstimacionInicial]

\* agregar_a_new: append under NewMutex, then sort under PMCP.
NewCon(p) ==
  LET s == Append(cola["NEW"], p) IN
  IF PMCP THEN Ordenadas(s, LAMBDA q : mapa[q].tam) ELSE {s}
===========================================================================
