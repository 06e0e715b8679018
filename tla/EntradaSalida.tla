--------------------------- MODULE EntradaSalida ---------------------------
(***************************************************************************)
(* The devices: the kernel's table of IO modules (handshakeHandler.go,     *)
(* ioHandler.go) and the IO module that sleeps and reports (io/utils).     *)
(* The disconnection of a device is in Desconexiones.                      *)
(***************************************************************************)
EXTENDS EstadoKernel

\* Mutants of Libres: the pid is not looked at; the test is the wrong way round.
LibresTodas(nombre) == DOMAIN instanciasIO[nombre]
LibresAlReves(nombre) ==
  {k \in DOMAIN instanciasIO[nombre] : enIO[instanciasIO[nombre][k]] # NINGUNO}

\* BuscarInstanciaIOLibre: the first instance of the device without a pid.
Libres(nombre) ==
  {k \in DOMAIN instanciasIO[nombre] : enIO[instanciasIO[nombre][k]] = NINGUNO}

PrimeraLibre(nombre) ==
  instanciasIO[nombre][CHOOSE k \in Libres(nombre) :
                         \A j \in Libres(nombre) : k <= j]

\* VerificarExistenciaIO.
ExisteIO(nombre) == instanciasIO[nombre] # <<>>

\* EnviarSolicitudIO to instance i for p: the IO module starts sleeping, and
\* the session counter of p goes up.
Solicitar(i, p) ==
  /\ enIO' = [enIO EXCEPT ![i] = p]
  /\ dispositivo' = [dispositivo EXCEPT ![i] = p]
  /\ sesiones' = [sesiones EXCEPT ![p] = @ + 1]

\* RecibirHandshakeIO.  Processes already waiting are not served.
HandshakeIO(i) ==
  /\ mutexIOs = NADA /\ ~Esta(instanciasIO[NombreIO[i]], i)
  /\ instanciasIO' = [instanciasIO EXCEPT ![NombreIO[i]] = Append(@, i)]
  /\ enIO' = [enIO EXCEPT ![i] = NINGUNO]
  /\ UNCHANGED <<procesosVars, mutexVars, semVars, cpuVars, esperaIO, corto,
                 largo, temporizador, sesiones, manejador, finIO, ejecuta,
                 dispositivo, memoria, emitidas, panico>>

\* The IO module's sleep ends: EnviarFinalizacionIOAKernel, and the kernel
\* starts manejarFinIO.
TerminarIO(i) ==
  /\ dispositivo[i] # NINGUNO /\ finIO[i].pc = "inactivo"
  /\ finIO' = [finIO EXCEPT ![i] = [pc |-> "lista", pid |-> dispositivo[i]]]
  /\ dispositivo' = [dispositivo EXCEPT ![i] = NINGUNO]
  /\ UNCHANGED <<procesosVars, mutexVars, semVars, cpuVars, ioVars, corto,
                 largo, temporizador, sesiones, manejador, ejecuta, memoria,
                 emitidas, panico>>

\* manejarFinIO: ListaIOsMutex is kept to the end.
FinIOTomarLista(i) ==
  /\ finIO[i].pc = "lista" /\ mutexIOs = NADA
  /\ mutexIOs' = GFinIO(i)
  /\ finIO' = [finIO EXCEPT ![i].pc = "proceso"]
  /\ UNCHANGED <<procesosVars, mutexProc, fugaReady, semVars, cpuVars, ioVars,
                 corto, largo, temporizador, sesiones, manejador, ejecuta,
                 dispositivo, memoria, emitidas, panico>>

\* The process is looked up under its mutex.  A missing one ends the handler,
\* the instance still taken; one that is not blocked is left as it is.
FinIOMirarProceso(i) ==
  LET p == finIO[i].pid
      bloqueado == mapa[p] # NADA
                     /\ mapa[p].estado \in {"BLOCKED", "SUSP_BLOCKED"}
  IN /\ finIO[i].pc = "proceso" /\ mutexProc[p] = NADA
     /\ mutexProc' = IF bloqueado THEN [mutexProc EXCEPT ![p] = GFinIO(i)]
                     ELSE mutexProc
     /\ mutexIOs' = IF mapa[p] = NADA THEN NADA ELSE mutexIOs
     /\ finIO' = [finIO EXCEPT ![i] =
                    IF mapa[p] = NADA THEN SinFin
                    ELSE [@ EXCEPT !.pc = IF bloqueado THEN "mueve"
                                          ELSE "instancia"]]
     /\ UNCHANGED <<procesosVars, fugaReady, semVars, cpuVars, ioVars, corto,
                    largo, temporizador, sesiones, manejador, ejecuta,
                    dispositivo, memoria, emitidas, panico>>

\* The end of both moves: on failure the handler returns, the instance still
\* taken.
FinIOMovido(i, ok) ==
  /\ mutexProc' = [mutexProc EXCEPT ![finIO[i].pid] = NADA]
  /\ mutexIOs' = IF ok THEN mutexIOs ELSE NADA
  /\ finIO' = [finIO EXCEPT ![i] = IF ok THEN [@ EXCEPT !.pc = "instancia"]
                                   ELSE SinFin]

\* Susp_blocked_a_Susp_ready waits for SuspReadyMutex with both mutexes held,
\* and signals the long-term planner.
SuspBlockedASuspReady(i) ==
  LET p == finIO[i].pid
      ok == Movible("SUSP_BLOCKED", "SUSP_READY", p)
  IN /\ finIO[i].pc = "mueve" /\ mapa[p].estado = "SUSP_BLOCKED"
     /\ ~TieneSuspReady
     /\ cola' = MoverDe("SUSP_BLOCKED", "SUSP_READY", p)
     /\ mapa' = IF ok THEN ConEstado(p, "SUSP_READY") ELSE mapa
     /\ semPasar' = IF ok THEN semPasar + 1 ELSE semPasar
     /\ FinIOMovido(i, ok)
     /\ UNCHANGED <<pidCounter, fugaReady, semCpus, semReady, avisosCpu,
                    cpuVars, ioVars, corto, largo, temporizador, sesiones,
                    manejador, ejecuta, dispositivo, memoria, emitidas,
                    panico>>

\* Mutant of BlockedAReady: no Avisar_proceso_en_ready.
BlockedAReadySinAviso(i) ==
  LET p == finIO[i].pid
      ok == Movible("BLOCKED", "READY", p)
  IN /\ finIO[i].pc = "mueve" /\ mapa[p].estado = "BLOCKED" /\ ~fugaReady
     /\ cola' = MoverDe("BLOCKED", "READY", p)
     /\ mapa' = IF ok THEN ConEstado(p, "READY") ELSE mapa
     /\ FinIOMovido(i, ok)
     /\ UNCHANGED <<pidCounter, fugaReady, semVars, cpuVars, ioVars, corto,
                    largo, temporizador, sesiones, manejador, ejecuta,
                    dispositivo, memoria, emitidas, panico>>

\* Blocked_a_ready and Avisar_proceso_en_ready.
BlockedAReady(i) ==
  LET p == finIO[i].pid
      ok == Movible("BLOCKED", "READY", p)
  IN /\ finIO[i].pc = "mueve" /\ mapa[p].estado = "BLOCKED" /\ ~fugaReady
     /\ cola' = MoverDe("BLOCKED", "READY", p)
     /\ mapa' = IF ok THEN ConEstado(p, "READY") ELSE mapa
     /\ semReady' = IF ok THEN semReady + 1 ELSE semReady
     /\ FinIOMovido(i, ok)
     /\ UNCHANGED <<pidCounter, fugaReady, semCpus, semPasar, avisosCpu,
                    cpuVars, ioVars, corto, largo, temporizador, sesiones,
                    manejador, ejecuta, dispositivo, memoria, emitidas,
                    panico>>

\* Mutant of LiberarInstancia: the process that is served stays in the queue.
LiberarInstanciaSinSacar(i) ==
  LET nombre == NombreIO[i] IN
  /\ finIO[i].pc = "instancia"
  /\ mutexIOs' = NADA
  /\ finIO' = [finIO EXCEPT ![i] = SinFin]
  /\ \/ /\ esperaIO[nombre] = <<>>
        /\ enIO' = [enIO EXCEPT ![i] = NINGUNO]
        /\ UNCHANGED <<dispositivo, sesiones>>
     \/ /\ esperaIO[nombre] # <<>>
        /\ Solicitar(i, Head(esperaIO[nombre]))
  /\ UNCHANGED <<procesosVars, mutexProc, fugaReady, semVars, cpuVars,
                 esperaIO, instanciasIO, corto, largo, temporizador, manejador,
                 ejecuta, memoria, emitidas, panico>>

\* The instance is freed, or goes to the first process waiting for the
\* device; ListaIOsMutex is released.
LiberarInstancia(i) ==
  LET nombre == NombreIO[i] IN
  /\ finIO[i].pc = "instancia" /\ Esta(instanciasIO[nombre], i)
  /\ mutexIOs' = NADA
  /\ finIO' = [finIO EXCEPT ![i] = SinFin]
  /\ \/ /\ esperaIO[nombre] = <<>>
        /\ enIO' = [enIO EXCEPT ![i] = NINGUNO]
        /\ UNCHANGED <<esperaIO, dispositivo, sesiones>>
     \/ /\ esperaIO[nombre] # <<>>
        /\ Solicitar(i, Head(esperaIO[nombre]))
        /\ esperaIO' = [esperaIO EXCEPT ![nombre] = Tail(@)]
  /\ UNCHANGED <<procesosVars, mutexProc, fugaReady, semVars, cpuVars,
                 instanciasIO, corto, largo, temporizador, manejador, ejecuta,
                 memoria, emitidas, panico>>

PasoFinIO(i) ==
  \/ FinIOTomarLista(i) \/ FinIOMirarProceso(i) \/ SuspBlockedASuspReady(i)
  \/ BlockedAReady(i) \/ LiberarInstancia(i)
===========================================================================
