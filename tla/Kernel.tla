------------------------------ MODULE Kernel ------------------------------
(***************************************************************************)
(* The kernel under FIFO and SJF: planners, timers, syscall handlers and   *)
(* device handlers, with the CPU, IO and memory modules around it.         *)
(***************************************************************************)
EXTENDS PlanificadorCorto, SyscallsKernel

\* IniciarPlanificadorLargoPlazo: after ENTER both planners run and the first
\* process is in NEW, its signal sent.  Some CPUs and devices are connected by
\* then, the others connect at any time.
Init ==
  /\ \E t \in Tamanios :
       mapa = [p \in Pid |-> IF p = 0 THEN ProcesoNuevo(t) ELSE NADA]
  /\ cola = [e \in Estados |-> IF e = "NEW" THEN <<0>> ELSE <<>>]
  /\ pidCounter = 1
  /\ mutexProc = [p \in Pid |-> NADA] /\ mutexIOs = NADA /\ fugaReady = FALSE
  /\ semCpus = Len(CPUsAlInicio) /\ semReady = 0 /\ semPasar = 1 /\ avisosCpu = 0
  /\ listaCPUs = CPUsAlInicio
  /\ libre = [c \in CPUs |-> Esta(CPUsAlInicio, c)]
  /\ corto = CortoEsperando /\ largo = [pc |-> "espera", pid |-> NINGUNO]
  /\ temporizador = [p \in Pid |-> [n \in Numero |-> SinTimer]]
  /\ sesiones = [p \in Pid |-> 0]
  /\ manejador = [c \in CPUs |-> SinSyscall]
  /\ finIO = [i \in Instancias |-> SinFin]
  /\ instanciasIO = IOsAlInicio
  /\ esperaIO = [d \in NombresIO |-> <<>>]
  /\ enIO = [i \in Instancias |-> NINGUNO]
  /\ ejecuta = [c \in CPUs |-> Ociosa]
  /\ dispositivo = [i \in Instancias |-> NINGUNO]
  /\ memoria = [p \in Pid |-> "fuera"]
  /\ emitidas = [p \in Pid |-> 0]
  /\ panico = FALSE

\* Every process the bound allows, or that the programs chose to start, has
\* exited: the kernel goes on waiting for requests.
Terminado ==
  /\ \A p \in Pid : mapa[p] = NADA
  /\ \A c \in CPUs : En(c, "inactivo") /\ ejecuta[c] = Ociosa

\* The kernel's own goroutines.
PasoKernel ==
  \/ PasoCorto \/ PasoLargo \/ AvisarCpuLibre
  \/ \E p \in Pid, n \in Numero : PasoTimer(p, n)
  \/ \E c \in CPUs : PasoSyscall(c)
  \/ \E i \in Instancias : PasoFinIO(i)

\* The modules around it.
PasoEntorno ==
  \/ \E c \in CPUs : HandshakeCPU(c) \/ EmitirSyscall(c)
  \/ \E i \in Instancias : HandshakeIO(i) \/ TerminarIO(i)

Reposo == Terminado /\ UNCHANGED vars

Next ==
  \/ ~panico /\ (PasoKernel \/ PasoEntorno)
  \/ Reposo

Spec == Init /\ [][Next]_vars

\* Goroutines run, sleeps end, CPUs connect and run the programs.  Weak
\* fairness is enough for the mutexes because the bounded programs take each
\* of them finitely often.
Equidad ==
  /\ WF_vars(~panico /\ PasoCorto) /\ WF_vars(~panico /\ PasoLargo)
  /\ WF_vars(~panico /\ AvisarCpuLibre)
  /\ \A p \in Pid, n \in Numero : WF_vars(~panico /\ PasoTimer(p, n))
  /\ \A c \in CPUs : /\ WF_vars(~panico /\ PasoSyscall(c))
                     /\ WF_vars(~panico /\ HandshakeCPU(c))
                     /\ WF_vars(~panico /\ EmitirSyscall(c))
  /\ \A i \in Instancias : /\ WF_vars(~panico /\ PasoFinIO(i))
                           /\ WF_vars(~panico /\ TerminarIO(i))

SpecJusta == Spec /\ Equidad
===========================================================================
