--------------------------- MODULE Desconexiones ---------------------------
(***************************************************************************)
(* The kernel when IO modules shut down: the signal in the module (io.go), *)
(* its message with the pid it had then, and DesconexionIO, which keeps    *)
(* ListaIOsMutex while it ends processes, but not their mutexes.           *)
(*                                                                         *)
(* Two cuts.  A module that shut down stays down: one that comes back is   *)
(* another member of Instancias.  And nothing follows a handler that gave  *)
(* up ("abandonada"), which leaves an instance in the table that is no     *)
(* longer there, or another one twice.                                     *)
(***************************************************************************)
EXTENDS Kernel

CONSTANT SeApagan \* bound: the IO modules that may shut down

ASSUME SeApaganOK == SeApagan \subseteq Instancias

VARIABLE
  desconexion \* each IO module and its handler: where it is, the pid being
              \* ended, the state it was seen in, who else has to end

todo == <<vars, desconexion>>

EnLinea == [pc |-> "en_linea", pid |-> NINGUNO, estado |-> "BLOCKED",
            espera |-> <<>>]

EnDesconexion(i, pc) == desconexion[i].pc = pc

\* Signal in the module: it sends the pid it is sleeping for, or -1.
RecibirSenal(i) ==
  /\ i \in SeApagan
  /\ EnDesconexion(i, "en_linea") /\ Esta(instanciasIO[NombreIO[i]], i)
  /\ desconexion' = [desconexion EXCEPT ![i].pc = "lista",
                                        ![i].pid = dispositivo[i]]
  /\ UNCHANGED vars

\* The answer has come: the module exits, and a sleep it was in dies with it.
Apagar(i) ==
  /\ EnDesconexion(i, "apaga")
  /\ desconexion' = [desconexion EXCEPT ![i] = [EnLinea EXCEPT !.pc = "apagada"]]
  /\ dispositivo' = [dispositivo EXCEPT ![i] = NINGUNO]
  /\ UNCHANGED <<procesosVars, mutexVars, semVars, cpuVars, ioVars, corto,
                 largo, temporizador, sesiones, manejador, finIO, ejecuta,
                 memoria, emitidas, panico>>
---------------------------------------------------------------------------
(* DesconexionIO *)

\* Mutant of ConElla: counted as if the instance were out of the table already.
ConEllaFuera(i) ==
  IF instanciasIO[NombreIO[i]] = <<>> THEN esperaIO[NombreIO[i]] ELSE <<>>

\* Without the last instance everyone who waits for the device has to end.
ConElla(i) ==
  IF Len(instanciasIO[NombreIO[i]]) = 1 THEN esperaIO[NombreIO[i]] ELSE <<>>

\* Lock of ListaIOsMutex; the process, if the module had one, is looked up
\* without its mutex.  A missing one ends the handler.
DescTomarLista(i) ==
  LET p == desconexion[i].pid
      siguiente == [desconexion[i] EXCEPT !.espera = ConElla(i)]
  IN /\ EnDesconexion(i, "lista") /\ mutexIOs = NADA
     /\ \/ /\ p = NINGUNO
           /\ mutexIOs' = GDesconexion(i)
           /\ desconexion' = [desconexion EXCEPT ![i] =
                                [siguiente EXCEPT !.pc = "espera"]]
        \/ /\ p # NINGUNO /\ mapa[p] # NADA
           /\ mutexIOs' = GDesconexion(i)
           /\ desconexion' = [desconexion EXCEPT ![i] =
                [siguiente EXCEPT !.pc = "fin_memoria", !.estado = mapa[p].estado]]
        \/ /\ p # NINGUNO /\ mapa[p] = NADA
           /\ desconexion' = [desconexion EXCEPT ![i].pc = "abandonada"]
           /\ UNCHANGED mutexIOs
     /\ UNCHANGED <<procesosVars, mutexProc, fugaReady, semVars, cpuVars, ioVars,
                    corto, largo, temporizador, sesiones, manejador, finIO,
                    ejecuta, dispositivo, memoria, emitidas, panico>>

\* FinalizarProceso, with the state seen before ...
DescFinEnMemoria(i) ==
  /\ EnDesconexion(i, "fin_memoria")
  /\ memoria' = [memoria EXCEPT ![desconexion[i].pid] = "fuera"]
  /\ desconexion' = [desconexion EXCEPT ![i].pc = "fin_cola"]
  /\ UNCHANGED <<procesosVars, mutexVars, semVars, cpuVars, ioVars, corto,
                 largo, temporizador, sesiones, manejador, finIO, ejecuta,
                 dispositivo, emitidas, panico>>

\* ... eliminar_proceso_de the queue of that state, under its mutex ...
DescFinEnCola(i) ==
  LET e == desconexion[i].estado IN
  /\ EnDesconexion(i, "fin_cola")
  /\ e = "SUSP_READY" => ~TieneSuspReady
  /\ e = "READY" => ~fugaReady
  /\ cola' = [cola EXCEPT ![e] = Quitar(@, desconexion[i].pid)]
  /\ desconexion' = [desconexion EXCEPT ![i].pc = "fin_log"]
  /\ UNCHANGED <<mapa, pidCounter, mutexVars, semVars, cpuVars, ioVars, corto,
                 largo, temporizador, sesiones, manejador, finIO, ejecuta,
                 dispositivo, memoria, emitidas, panico>>

\* ... log_exit, which dereferences nil if the process is gone meanwhile: that
\* ends the goroutine of an HTTP request, the deferred Unlock done ...
DescFinEnLog(i) ==
  LET p == desconexion[i].pid IN
  /\ EnDesconexion(i, "fin_log") /\ mutexProc[p] = NADA
  /\ desconexion' = [desconexion EXCEPT
                       ![i].pc = IF mapa[p] = NADA THEN "abandonada" ELSE "fin_mapa"]
  /\ mutexIOs' = IF mapa[p] = NADA THEN NADA ELSE mutexIOs
  /\ UNCHANGED <<procesosVars, mutexProc, fugaReady, semVars, cpuVars, ioVars,
                 corto, largo, temporizador, sesiones, manejador, finIO, ejecuta,
                 dispositivo, memoria, emitidas, panico>>

\* Mutant of DescFinEnMapa: without the process mutex.
DescFinEnMapaSinLock(i) ==
  /\ EnDesconexion(i, "fin_mapa")
  /\ mapa' = [mapa EXCEPT ![desconexion[i].pid] = NADA]
  /\ semPasar' = semPasar + 1
  /\ desconexion' = [desconexion EXCEPT ![i].pc = "espera"]
  /\ UNCHANGED <<cola, pidCounter, mutexVars, semCpus, semReady, avisosCpu,
                 cpuVars, ioVars, corto, largo, temporizador, sesiones,
                 manejador, finIO, ejecuta, dispositivo, memoria, emitidas,
                 panico>>

\* ... and the entry of the table.
DescFinEnMapa(i) ==
  LET p == desconexion[i].pid IN
  /\ EnDesconexion(i, "fin_mapa") /\ mutexProc[p] = NADA
  /\ mapa' = [mapa EXCEPT ![p] = NADA]
  /\ semPasar' = semPasar + 1
  /\ desconexion' = [desconexion EXCEPT ![i].pc = "espera"]
  /\ UNCHANGED <<cola, pidCounter, mutexVars, semCpus, semReady, avisosCpu,
                 cpuVars, ioVars, corto, largo, temporizador, sesiones,
                 manejador, finIO, ejecuta, dispositivo, memoria, emitidas,
                 panico>>

\* The next of the queue is looked up under its mutex, and ended if it exists.
DescEspera(i) ==
  LET q == Head(desconexion[i].espera)
      resto == [desconexion[i] EXCEPT !.espera = Tail(@)]
  IN /\ EnDesconexion(i, "espera") /\ desconexion[i].espera # <<>>
     /\ mutexProc[q] = NADA
     /\ desconexion' = [desconexion EXCEPT ![i] =
          IF mapa[q] = NADA THEN resto
          ELSE [resto EXCEPT !.pc = "fin_memoria", !.pid = q,
                             !.estado = mapa[q].estado]]
     /\ UNCHANGED vars

\* The instance leaves the table.  The entry of a device without instances is
\* deleted and put back at once: its queue stays.
DescGuardar(i) ==
  /\ EnDesconexion(i, "espera") /\ desconexion[i].espera = <<>>
  /\ instanciasIO' = [instanciasIO EXCEPT ![NombreIO[i]] = Quitar(@, i)]
  /\ mutexIOs' = NADA
  /\ desconexion' = [desconexion EXCEPT ![i].pc = "apaga"]
  /\ UNCHANGED <<procesosVars, mutexProc, fugaReady, semVars, cpuVars, esperaIO,
                 enIO, corto, largo, temporizador, sesiones, manejador, finIO,
                 ejecuta, dispositivo, memoria, emitidas, panico>>

\* manejarFinIO does not find the instance any more: it stops there.
FinIOSinInstancia(i) ==
  /\ finIO[i].pc = "instancia" /\ ~Esta(instanciasIO[NombreIO[i]], i)
  /\ mutexIOs' = NADA
  /\ finIO' = [finIO EXCEPT ![i] = SinFin]
  /\ UNCHANGED <<procesosVars, mutexProc, fugaReady, semVars, cpuVars, ioVars,
                 corto, largo, temporizador, sesiones, manejador, ejecuta,
                 dispositivo, memoria, emitidas, panico, desconexion>>

PasoDesconexion(i) ==
  \/ RecibirSenal(i) \/ DescTomarLista(i) \/ DescFinEnMemoria(i)
  \/ DescFinEnCola(i) \/ DescFinEnLog(i) \/ DescFinEnMapa(i) \/ DescEspera(i)
  \/ DescGuardar(i) \/ Apagar(i) \/ FinIOSinInstancia(i)
---------------------------------------------------------------------------

InitDesconexion == Init /\ desconexion = [i \in Instancias |-> EnLinea]

\* PasoEntorno, with modules that do not come back.
EntornoEnLinea ==
  \/ \E c \in CPUs : HandshakeCPU(c) \/ EmitirSyscall(c)
  \/ \E i \in Instancias :
       TerminarIO(i) \/ (EnDesconexion(i, "en_linea") /\ HandshakeIO(i))

NextDesconexion ==
  /\ ~panico /\ \A i \in Instancias : ~EnDesconexion(i, "abandonada")
  /\ \/ (PasoKernel \/ EntornoEnLinea) /\ UNCHANGED desconexion
     \/ \E i \in Instancias : PasoDesconexion(i)

SpecDesconexion == InitDesconexion /\ [][NextDesconexion]_todo
===========================================================================
