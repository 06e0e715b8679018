--------------------------- MODULE PruebasKernel ---------------------------
(*************************************************************************)
(* What follows from InvProcesos under Regimen, and what it takes to     *)
(* prove the rest: Spec => []SemReadyExacto (the count of the semaphore  *)
(* and the length of READY move together), []SinPanico (no lookup fails, *)
(* no index is out of range), []AlguienServira (whoever waits on a       *)
(* device has an instance that will look at the queue, InvServicio) and  *)
(* []ResidenciaCorrecta (the memory module has a process just where the  *)
(* state of the process says, InvResidencia) and []UnoEnMemoria (nobody  *)
(* uses the memory of a process that another one moves).                 *)
(*                                                                       *)
(* Spec => CumpleCicloDeVida, the refinement: InvVida adds to these that *)
(* a process of EXECUTE has a CPU (EjecutaEnCpu), so that a dispatch     *)
(* finds a processor free; the frames that Cabe counts are those of the  *)
(* processes the life cycle has in memory (MarcosSonOcupados), so that   *)
(* an admission fits.  Under FIFO, Spec => OrdenDeLlegada: READY only    *)
(* grows at its end and only its first leaves it, as ready[0] is still   *)
(* the first when ready_a_execute takes it out (CabezaElegida).          *)
(*************************************************************************)
EXTENDS PruebasProcesos

USE DEF procesosVars, mutexVars, semVars, cpuVars, ioVars

---------------------------------------------------------------------------
(* The safety properties that InvProcesos states. *)

\* The invariant of the kernel: types and owners, processors, devices,
\* processes.
InvKernel == InvTipos /\ InvCpus /\ InvIO /\ InvProcesos

\* The invariant of the kernel, in the regimes it is stated for.
THEOREM InvKernelSiempre == ASSUME Regimen PROVE Spec => []InvKernel
<1>1. Init => InvCpus /\ InvIO /\ InvProcesos
  BY InicioCpus, InicioIO, InicioProcesos
<1>2. InvTipos /\ InvCpus /\ [Next]_vars => InvCpus'
  BY PasoInvCpus
<1>3. InvTipos /\ InvIO /\ [Next]_vars => InvIO'
  BY PasoInvIO
<1>4. InvTipos /\ InvTipos' /\ InvCpus /\ InvIO /\ InvProcesos /\ [Next]_vars => InvProcesos'
  BY PasoInvProcesos
<1>5. InvTipos /\ InvCpus /\ InvIO /\ InvProcesos => InvKernel
  BY DEF InvKernel
<1> QED
  BY <1>1, <1>2, <1>3, <1>4, <1>5, InvTiposSiempre, PTL DEF Spec

\* A process runs on one CPU at most, with its handler or without, and the
\* kernel has that CPU marked as taken (elegirCPUlibre, LiberarCPU).
THEOREM UnaCpu == ASSUME Regimen PROVE Spec => []UnaCpuPorProceso
<1>1. InvKernel => UnaCpuPorProceso
  BY DEF InvKernel, InvCpus, EjecutaTiene, InvProcesos, EnOrden, EnMano, UnaMano,
         UnaCpuPorProceso
<1> QED
  BY <1>1, InvKernelSiempre, PTL

\* A CPU that is given a process resumes it where its last syscall left it
\* (Enviar_proceso_a_cpu, manejarInit_Proc).
THEOREM PCExacto == ASSUME Regimen PROVE Spec => []PCCorrecto
<1>1. InvKernel => PCCorrecto
  <2> SUFFICES ASSUME InvKernel, NEW c \in CPUs, ejecuta[c].pid # NINGUNO
               PROVE  ejecuta[c].PC = emitidas[ejecuta[c].pid]
    BY DEF PCCorrecto
  <2>1. PICK p \in Pid : p = ejecuta[c].pid
    BY DEF InvKernel, InvTipos, TypeOK, TiposCpus, PidONinguno
  <2> QED
    BY <2>1 DEF InvKernel, InvProcesos, EnOrden, EnMano, PCAlDia
<1> QED
  BY <1>1, InvKernelSiempre, PTL

\* Who is in a queue without repetitions is there once.
LEMMA UnaVez ==
  ASSUME NEW e \in Estados, NEW p \in Pid, SinRepetidos(cola[e])
  PROVE  VecesEn(e, p) = IF Esta(cola[e], p) THEN 1 ELSE 0
<1> DEFINE S == {i \in DOMAIN cola[e] : cola[e][i] = p}
<1>1. CASE Esta(cola[e], p)
  <2>1. PICK k \in DOMAIN cola[e] : cola[e][k] = p
    BY <1>1 DEF Esta
  <2>2. S = {k}
    BY <2>1 DEF SinRepetidos
  <2> QED
    BY <1>1, <2>2, FS_Singleton DEF VecesEn
<1>2. CASE ~Esta(cola[e], p)
  <2>1. S = {}
    BY <1>2 DEF Esta
  <2> QED
    BY <1>2, <2>1, FS_EmptySet DEF VecesEn
<1> QED
  BY <1>1, <1>2

\* A process is once in the queue of its state and in no other, except while
\* one of the state-change functions is at work on it.
THEOREM SoloUnaCola == ASSUME Regimen PROVE Spec => []UnaSolaCola
<1>1. InvKernel => UnaSolaCola
  <2> SUFFICES ASSUME InvKernel, NEW p \in Pid, ~EnTransicion(p), NEW e \in Estados
               PROVE  VecesEn(e, p) = IF mapa[p] # NADA /\ mapa[p].estado = e THEN 1 ELSE 0
    BY DEF UnaSolaCola
  <2>1. VecesEn(e, p) = IF Esta(cola[e], p) THEN 1 ELSE 0
    BY UnaVez DEF InvKernel, InvProcesos, ColasSinRepetidos
  <2>2. SoloEn(p, IF mapa[p] = NADA THEN {} ELSE {mapa[p].estado})
    BY DEF InvKernel, InvProcesos, EnOrden, EnMano, Ubicado
  <2> QED
    BY <2>1, <2>2 DEF SoloEn
<1> QED
  BY <1>1, InvKernelSiempre, PTL

\* manejarFinIO finds its process blocked, although the request went out before
\* BloquearProceso.
THEOREM FinEncuentraSuProceso == ASSUME Regimen PROVE Spec => []FinEncuentraBloqueado
<1>1. InvKernel => FinEncuentraBloqueado
  <2> SUFFICES ASSUME InvKernel, NEW i \in Instancias,
                      \/ finIO[i].pc = "mueve"
                      \/ finIO[i].pc = "proceso" /\ mutexProc[finIO[i].pid] = NADA
               PROVE  /\ mapa[finIO[i].pid] # NADA
                      /\ mapa[finIO[i].pid].estado \in {"BLOCKED", "SUSP_BLOCKED"}
    BY DEF FinEncuentraBloqueado
  <2>1. PICK p \in Pid : p = finIO[i].pid
    BY DEF InvKernel, InvTipos, Nombran, FinNombra
  <2>2. CASE finIO[i].pc = "mueve"
    BY <2>1, <2>2, FinMovible DEF InvKernel
  <2>3. CASE finIO[i].pc = "proceso" /\ mutexProc[p] = NADA
    <3>1. Atiende(i, p) /\ \A c \in CPUs : mutexProc[p] # GSyscall(c)
      BY <2>1, <2>3, NadaNoEsDueno DEF Atiende
    <3> QED
      BY <2>1, <3>1, FinEncuentra DEF InvKernel
  <2> QED
    BY <2>1, <2>2, <2>3
<1> QED
  BY <1>1, InvKernelSiempre, PTL

\* A queue without repetitions holds at most every process the bound allows.
LEMMA ColaAcotada ==
  ASSUME NEW s \in Seq(Pid), SinRepetidos(s)
  PROVE  Len(s) <= MaxPids
<1>1. Len(s) \in Nat /\ DOMAIN s = 1 .. Len(s) /\ s \in [1 .. Len(s) -> Pid]
  OBVIOUS
<1>2. s \in Injection(1 .. Len(s), Pid)
  BY <1>1 DEF SinRepetidos, Injection, IsInjective
<1>3. /\ IsFiniteSet(Pid) /\ Cardinality(Pid) = MaxPids
      /\ Cardinality(1 .. Len(s)) = Len(s)
  <2>1. MaxPids \in Nat /\ MaxPids > 0
    BY ConstantesOK
  <2>2. IsFiniteSet(Pid) /\ Cardinality(Pid) = MaxPids
    BY <2>1, FS_Interval DEF Pid
  <2>3. \A n \in Nat : Cardinality(1 .. n) = n
    BY FS_Interval
  <2> QED
    BY <1>1, <2>2, <2>3
<1> QED
  BY <1>2, <1>3, FS_Injection

\* Who waits for a device is in one instance or one queue of a device, and in
\* one only (manejarIO, manejarFinIO).
THEOREM EsperaEnUnLugar == ASSUME Regimen PROVE Spec => []EsperaUnica
<1>1. InvKernel => EsperaUnica
  <2> SUFFICES ASSUME InvKernel, NEW p \in Pid
               PROVE  Pendientes(p) = IF DebeEsperar(p) THEN 1 ELSE 0
    BY DEF EsperaUnica, DebeEsperar, Vivo
  <2> DEFINE A == {i \in Instancias : Atiende(i, p)}
             B == {x \in NombresIO \X (1 .. MaxPids) :
                     x[2] \in DOMAIN esperaIO[x[1]] /\ esperaIO[x[1]][x[2]] = p}
  <2>1. UnSoloLugar(p) /\ EsperaJusta(p)
    BY DEF InvKernel, InvProcesos, EnOrden
  <2>2. \A d \in NombresIO : esperaIO[d] \in Seq(Pid) /\ SinRepetidos(esperaIO[d])
    BY TiposDeProcesos DEF InvKernel, InvProcesos, ColasSinRepetidos
  <2>3. \A d \in NombresIO : \A k \in DOMAIN esperaIO[d] : k \in 1 .. MaxPids
    <3> TAKE d \in NombresIO
    <3>1. DOMAIN esperaIO[d] = 1 .. Len(esperaIO[d]) /\ Len(esperaIO[d]) \in Nat
      BY <2>2
    <3>2. Len(esperaIO[d]) <= MaxPids /\ MaxPids \in Nat
      BY <2>2, ColaAcotada, ConstantesOK
    <3> QED
      BY <3>1, <3>2
  <2>4. \A x \in B : Esta(esperaIO[x[1]], p) /\ x[1] \in NombresIO
    BY DEF Esta
  <2>5. \A d \in NombresIO : Esta(esperaIO[d], p) => \E k \in DOMAIN esperaIO[d] : <<d, k>> \in B
    BY <2>3 DEF Esta
  <2>6. Pendientes(p) = Cardinality(A) + Cardinality(B)
    BY DEF Pendientes
  <2> HIDE DEF A, B
  <2>7. CASE ~DebeEsperar(p)
    <3>1. A = {}
      BY <2>1, <2>7 DEF EsperaJusta, Pendiente, A
    <3>2. B = {}
      BY <2>1, <2>4, <2>7 DEF EsperaJusta, Pendiente
    <3> QED
      BY <2>6, <2>7, <3>1, <3>2, FS_EmptySet
  <2>8. CASE DebeEsperar(p)
    <3>1. CASE \E i \in Instancias : Atiende(i, p)
      <4>1. PICK i \in Instancias : Atiende(i, p)
        BY <3>1
      <4>2. A = {i}
        BY <2>1, <4>1 DEF UnSoloLugar, A
      <4>3. B = {}
        BY <2>1, <2>4, <4>1 DEF UnSoloLugar
      <4>4. Cardinality(A) = 1 /\ Cardinality(B) = 0
        BY <4>2, <4>3, FS_EmptySet, FS_Singleton
      <4> QED
        BY <2>6, <2>8, <4>4
    <3>2. CASE \E d \in NombresIO : Esta(esperaIO[d], p)
      <4>1. PICK d \in NombresIO : Esta(esperaIO[d], p)
        BY <3>2
      <4>2. A = {}
        BY <2>1, <4>1 DEF UnSoloLugar, A
      <4>3. PICK k \in DOMAIN esperaIO[d] : <<d, k>> \in B
        BY <2>5, <4>1
      <4>4. esperaIO[d][k] = p
        BY <4>3 DEF B
      <4>5. ASSUME NEW x \in B PROVE x = <<d, k>>
        <5>1. x[1] = d /\ x = <<x[1], x[2]>>
          BY <2>1, <2>4, <4>1 DEF UnSoloLugar, B
        <5>2. x[2] \in DOMAIN esperaIO[d] /\ esperaIO[d][x[2]] = p
          BY <5>1 DEF B
        <5>3. x[2] = k
          BY <2>2, <4>4, <5>2 DEF SinRepetidos
        <5> QED
          BY <5>1, <5>3
      <4>6. B = {<<d, k>>}
        BY <4>3, <4>5
      <4>7. Cardinality(A) = 0 /\ Cardinality(B) = 1
        BY <4>2, <4>6, FS_EmptySet, FS_Singleton
      <4> QED
        BY <2>6, <2>8, <4>7
    <3> QED
      BY <2>1, <2>8, <3>1, <3>2 DEF EsperaJusta, Pendiente
  <2> QED
    BY <2>7, <2>8
<1> QED
  BY <1>1, InvKernelSiempre, PTL

---------------------------------------------------------------------------
(* The semaphore of READY; no step panics. *)

\* elegirCPUlibre finds a CPU: the token the planner spent on Sem_Cpus is one.
LEMMA HayCpuLibre ==
  ASSUME InvTipos, InvCpus, corto.pc = "elige_cpu"
  PROVE  {k \in DOMAIN listaCPUs : libre[listaCPUs[k]]} # {}
<1>1. Cardinality(CpusLibres) # 0
  BY TiposDeCpus, LibresFinitas DEF InvCpus, SemCpusExacto, CpusLibres
<1>2. CpusLibres # {}
  BY <1>1, FS_EmptySet
<1>3. \E c \in CPUs : libre[c]
  BY <1>2 DEF CpusLibres
<1> QED
  BY <1>3 DEF InvCpus, LibreConectada, Conectada, Esta

\* The token of the round under way, on READY.
FichaReady ==
  IF corto.pc \in {"elige_cpu", "elige_pid", "lee_pcb", "envia", "a_execute"}
  THEN 1 ELSE 0

\* The types of READY, its semaphore and the planner's round.
LEMMA TiposDeReady ==
  ASSUME InvTipos
  PROVE  /\ semReady \in Nat /\ cola \in [Estados -> Seq(Pid)]
         /\ cola["READY"] \in Seq(Pid) /\ Len(cola["READY"]) \in Nat
<1>1. semReady \in Nat /\ cola \in [Estados -> Seq(Pid)]
  BY DEF InvTipos, TypeOK, TiposSincronizacion, TiposTabla
<1>2. cola["READY"] \in Seq(Pid)
  BY <1>1 DEF Estados
<1> QED
  BY <1>1, <1>2

\* A step that lets nobody into READY or out of it, and neither gives nor
\* takes a token.
LEMMA ReadyQuieta ==
  ASSUME SemReadyExacto, semReady' = semReady, cola'["READY"] = cola["READY"],
         FichaReady' = FichaReady
  PROVE  SemReadyExacto'
BY DEF SemReadyExacto, FichaReady

\* Whoever enters READY is announced.
LEMMA ReadyCrece ==
  ASSUME InvTipos, InvProcesos, SemReadyExacto, NEW e \in Estados \ {"READY"},
         NEW p \in Pid, Movible(e, "READY", p), cola' = MoverDe(e, "READY", p),
         semReady' = semReady + 1, corto' = corto
  PROVE  SemReadyExacto'
<1>1. Len(cola'["READY"]) = Len(cola["READY"]) + 1
  BY MoverDeExacto, TiposDeReady DEF InvProcesos, Estados
<1> QED
  BY <1>1, TiposDeReady DEF SemReadyExacto

\* A move between two other queues leaves READY as it was.
LEMMA MoverDeOtras ==
  ASSUME cola \in [Estados -> Seq(Pid)], NEW e \in Estados \ {"READY"},
         NEW f \in Estados \ {"READY"}, NEW p, cola' = MoverDe(e, f, p)
  PROVE  cola'["READY"] = cola["READY"]
BY DEF MoverDe, Estados

\* The short-term planner keeps the count, and does not die.
LEMMA PasoCortoReady ==
  ASSUME InvKernel, SemReadyExacto, PasoCorto
  PROVE  SemReadyExacto' /\ panico' = panico
<1> USE DEF InvKernel
<1>1. CASE EsperarCpu
  <2>1. UNCHANGED <<semReady, cola, panico>> /\ FichaReady' = FichaReady
    BY <1>1, TiposDeCpus DEF EsperarCpu, FichaReady
  <2> QED
    BY <2>1, ReadyQuieta
<1>2. CASE EsperarReady
  <2>1. /\ UNCHANGED <<cola, panico>> /\ semReady' = semReady - 1
        /\ corto.pc = "espera_ready" /\ corto'.pc = "elige_cpu"
    BY <1>2, TiposDeCpus DEF EsperarReady
  <2> QED
    BY <2>1, TiposDeReady DEF SemReadyExacto
<1>3. CASE ElegirCpu
  <2>1. corto.pc = "elige_cpu" /\ corto'.pc = "elige_pid" /\ UNCHANGED <<semReady, cola, panico>>
    BY <1>3, HayCpuLibre, TiposDeCpus DEF ElegirCpu
  <2> QED
    BY <2>1, ReadyQuieta DEF FichaReady
<1>4. CASE ElegirPid
  <2>1. corto.pc = "elige_pid" /\ UNCHANGED semReady
    BY <1>4 DEF ElegirPid, Panico
  <2>2. cola["READY"] # <<>>
    BY <2>1, TiposDeReady DEF SemReadyExacto
  <2>3. PICK s \in OrdenesReady : /\ cola' = [cola EXCEPT !["READY"] = s]
                                 /\ corto' = [corto EXCEPT !.pc = "lee_pcb", !.pid = s[1]]
    BY <1>4, <2>2 DEF ElegirPid
  <2>4. panico' = panico /\ esperaIO' = esperaIO
    BY <1>4, <2>2 DEF ElegirPid
  <2>5. Len(cola'["READY"]) = Len(cola["READY"])
    BY <2>2, <2>3, <2>4, OrdenarCola, TiposDeProcesos
       DEF OrdenesReady, Ordenadas, InvProcesos, Estados
  <2>6. corto'.pc = "lee_pcb"
    BY <2>3, TiposDeCpus
  <2> QED
    BY <2>1, <2>4, <2>5, <2>6 DEF SemReadyExacto
<1>5. CASE LeerPcb
  <2>1. PICK p \in Pid : p = corto.pid
    BY <1>5 DEF LeerPcb, InvTipos, Nombran, CortoNombra
  <2>2. mapa[p] # NADA
    BY <1>5, <2>1 DEF LeerPcb, InvProcesos, EnOrden, EnMano, ManoPlanificador,
                      CortoTrae, Vivo
  <2>3. /\ corto' = [corto EXCEPT !.pc = "envia", !.PC = mapa[p].PC]
        /\ corto.pc = "lee_pcb" /\ UNCHANGED <<semReady, cola, panico>>
    BY <1>5, <2>1, <2>2 DEF LeerPcb
  <2>4. corto'.pc = "envia"
    BY <2>3, TiposDeCpus DEF RegistroCorto
  <2> QED
    BY <2>3, <2>4, ReadyQuieta DEF FichaReady
<1>6. CASE EnviarProceso
  <2>1. corto.pc = "envia" /\ corto'.pc = "a_execute" /\ UNCHANGED <<semReady, cola, panico>>
    BY <1>6, TiposDeCpus DEF EnviarProceso
  <2> QED
    BY <2>1, ReadyQuieta DEF FichaReady
<1>7. CASE ReadyAExecute
  <2>1. PICK p \in Pid : p = corto.pid
    BY <1>7 DEF ReadyAExecute, InvTipos, Nombran, CortoNombra
  <2>2. Movible("READY", "EXECUTE", p)
    BY <1>7, <2>1, DespachoMovible DEF ReadyAExecute
  <2>3. /\ corto.pc = "a_execute" /\ corto'.pc = "cambia"
        /\ UNCHANGED <<semReady, panico>> /\ cola' = MoverDe("READY", "EXECUTE", p)
    BY <1>7, <2>1, <2>2, TiposDeCpus DEF ReadyAExecute
  <2>4. Len(cola'["READY"]) = Len(cola["READY"]) - 1
    BY <2>2, <2>3, MoverDeExacto, TiposDeReady DEF InvProcesos, Estados
  <2> QED
    BY <2>3, <2>4, TiposDeReady DEF SemReadyExacto
<1>8. CASE CambiarAExecute
  <2>1. PICK p \in Pid : p = corto.pid
    BY <1>8 DEF CambiarAExecute, InvTipos, Nombran, CortoNombra
  <2>2. mapa[p] # NADA
    BY <1>8, <2>1 DEF CambiarAExecute, InvProcesos, EnOrden, EnMano, ManoPlanificador,
                      CortoTrae, Vivo
  <2>3. corto.pc = "cambia" /\ corto'.pc = "espera_cpu" /\ UNCHANGED <<semReady, cola, panico>>
    BY <1>8, <2>1, <2>2, TiposDeCpus DEF CambiarAExecute, CortoEsperando
  <2> QED
    BY <2>3, ReadyQuieta DEF FichaReady
<1> QED
  BY <1>1, <1>2, <1>3, <1>4, <1>5, <1>6, <1>7, <1>8 DEF PasoCorto

\* The long-term planner announces whom it lets into READY, and does not die.
LEMMA PasoLargoReady ==
  ASSUME InvKernel, SemReadyExacto, PasoLargo
  PROVE  SemReadyExacto' /\ panico' = panico
<1> USE DEF InvKernel
<1>1. CASE DespertarLargo \/ SuspReadyVacia \/ NewVacia
  BY <1>1, ReadyQuieta DEF DespertarLargo, SuspReadyVacia, NewVacia, FichaReady
<1>2. CASE IntentarReanudar \/ IntentarIniciar
  <2>1. UNCHANGED <<semReady, panico, corto>>
    BY <1>2 DEF IntentarReanudar, IntentarIniciar
  <2>2. cola'["READY"] = cola["READY"]
    BY <1>2, TiposDeReady DEF IntentarReanudar, IntentarIniciar, Estados
  <2> QED
    BY <2>1, <2>2, ReadyQuieta DEF FichaReady
<1>3. CASE SuspReadyAReady
  <2>0. PICK p \in Pid : p = largo.pid
    BY <1>3 DEF SuspReadyAReady, InvTipos, Nombran, LargoNombra
  <2>1. mapa[p] # NADA /\ Movible("SUSP_READY", "READY", p)
    BY <1>3, <2>0, LargoEncuentra DEF SuspReadyAReady
  <2>2. /\ cola' = MoverDe("SUSP_READY", "READY", p) /\ semReady' = semReady + 1
        /\ UNCHANGED <<corto, panico>>
    BY <1>3, <2>0, <2>1 DEF SuspReadyAReady
  <2> QED
    BY <2>1, <2>2, ReadyCrece DEF Estados
<1>4. CASE NewAReady
  <2>0. PICK p \in Pid : p = largo.pid
    BY <1>4 DEF NewAReady, InvTipos, Nombran, LargoNombra
  <2>1. mapa[p] # NADA /\ Movible("NEW", "READY", p)
    BY <1>4, <2>0, LargoEncuentra DEF NewAReady
  <2>2. /\ cola' = MoverDe("NEW", "READY", p) /\ semReady' = semReady + 1
        /\ UNCHANGED <<corto, panico>>
    BY <1>4, <2>0, <2>1 DEF NewAReady
  <2> QED
    BY <2>1, <2>2, ReadyCrece DEF Estados
<1> QED
  BY <1>1, <1>2, <1>3, <1>4 DEF PasoLargo

\* A timer touches neither READY nor its count.
LEMMA PasoTimerReady ==
  ASSUME InvTipos, SemReadyExacto, NEW p \in Pid, NEW n \in Numero, PasoTimer(p, n)
  PROVE  SemReadyExacto' /\ panico' = panico
<1>1. /\ UNCHANGED <<semReady, corto, panico>>
      /\ cola' = cola \/ cola' = MoverDe("BLOCKED", "SUSP_BLOCKED", p)
  BY DEF PasoTimer, DespertarTimer, SuspenderEnMemoria, BlockedASuspBlocked
<1>2. cola'["READY"] = cola["READY"]
  BY <1>1, MoverDeOtras, TiposDeReady DEF Estados
<1> QED
  BY <1>1, <1>2, ReadyQuieta DEF FichaReady

\* The handlers of the syscalls: only the end of a dump lets a process into
\* READY, and it announces it.
LEMMA PasoSyscallReady ==
  ASSUME InvKernel, SemReadyExacto, NEW c \in CPUs, PasoSyscall(c)
  PROVE  SemReadyExacto' /\ panico' = panico
<1> USE DEF InvKernel
<1>1. CASE \/ MarcarLibre(c) \/ FinEnMemoria(c) \/ FinEnMapa(c) \/ IOTomarLista(c)
           \/ IODescartar(c) \/ IOInexistente(c) \/ IOSolicitar(c) \/ DumpMirar(c)
           \/ EnviarDump(c) \/ InitCrear(c) \/ InitReenviar(c)
  <2>1. UNCHANGED <<semReady, corto, panico, cola>>
    BY <1>1 DEF MarcarLibre, FinEnMemoria, FinEnMapa, IOTomarLista, IODescartar,
         IOInexistente, IOSolicitar, DumpMirar, EnviarDump, InitCrear, InitReenviar
  <2> QED
    BY <2>1, ReadyQuieta DEF FichaReady
<1>2. CASE FinEnCola(c) \/ InitAgregarNew(c) \/ IOBloquear(c) \/ DumpBloquear(c)
  <2>1. UNCHANGED <<semReady, corto, panico>>
    BY <1>2 DEF FinEnCola, InitAgregarNew, IOBloquear, DumpBloquear
  <2>2. cola'["READY"] = cola["READY"]
    <3>1. CASE FinEnCola(c) \/ InitAgregarNew(c)
      BY <3>1, TiposDeReady DEF FinEnCola, InitAgregarNew, EstadoAnterior, Estados
    <3>2. CASE IOBloquear(c) \/ DumpBloquear(c)
      <4>1. cola' = MoverDe("EXECUTE", "BLOCKED", manejador[c].pid)
        BY <3>2 DEF IOBloquear, DumpBloquear
      <4> QED
        BY <4>1, MoverDeOtras, TiposDeReady DEF Estados
    <3> QED
      BY <1>2, <3>1, <3>2
  <2> QED
    BY <2>1, <2>2, ReadyQuieta DEF FichaReady
<1>3. CASE FinEnLog(c)
  <2>1. UNCHANGED <<semReady, corto, cola>>
    BY <1>3 DEF FinEnLog, Panico
  <2> QED
    BY <1>3, <2>1, ReadyQuieta, FinEnLogProcesos DEF FichaReady
<1>4. CASE DumpCambiar(c)
  <2>1. UNCHANGED <<semReady, corto, cola>>
    BY <1>4 DEF DumpCambiar, Panico
  <2> QED
    BY <1>4, <2>1, ReadyQuieta, DumpCambiarProcesos DEF FichaReady
<1>5. CASE DumpVolver(c)
  <2>0. manejador[c].pc = "dump_vuelve"
    BY <1>5 DEF DumpVolver, En
  <2>1. PICK p \in Pid : Servido(c, p)
    BY <2>0, AlServir
  <2>2. mapa[p] # NADA /\ Movible("BLOCKED", "READY", p)
    BY <2>0, <2>1, DumpEncuentra
  <2>3. /\ cola' = MoverDe("BLOCKED", "READY", p) /\ semReady' = semReady + 1
        /\ UNCHANGED <<corto, panico>>
    BY <1>5, <2>1, <2>2 DEF DumpVolver, Servido
  <2> QED
    BY <2>2, <2>3, ReadyCrece DEF Estados
<1> QED
  BY <1>1, <1>2, <1>3, <1>4, <1>5 DEF PasoSyscall

\* The end of an IO announces the process it lets into READY.
LEMMA PasoFinIOReady ==
  ASSUME InvKernel, SemReadyExacto, NEW i \in Instancias, PasoFinIO(i)
  PROVE  SemReadyExacto' /\ panico' = panico
<1> USE DEF InvKernel
<1>1. CASE FinIOTomarLista(i) \/ FinIOMirarProceso(i) \/ LiberarInstancia(i)
  <2>1. UNCHANGED <<semReady, corto, panico, cola>>
    BY <1>1 DEF FinIOTomarLista, FinIOMirarProceso, LiberarInstancia
  <2> QED
    BY <2>1, ReadyQuieta DEF FichaReady
<1>2. CASE SuspBlockedASuspReady(i)
  <2>1. /\ UNCHANGED <<semReady, corto, panico>>
        /\ cola' = MoverDe("SUSP_BLOCKED", "SUSP_READY", finIO[i].pid)
    BY <1>2 DEF SuspBlockedASuspReady
  <2>2. cola'["READY"] = cola["READY"]
    BY <2>1, MoverDeOtras, TiposDeReady DEF Estados
  <2> QED
    BY <2>1, <2>2, ReadyQuieta DEF FichaReady
<1>3. CASE BlockedAReady(i)
  <2>1. PICK p \in Pid : p = finIO[i].pid
    BY <1>3 DEF BlockedAReady, InvTipos, Nombran, FinNombra
  <2>2. finIO[i].pc = "mueve" /\ mapa[p].estado = "BLOCKED"
    BY <1>3, <2>1 DEF BlockedAReady
  <2>3. Movible("BLOCKED", "READY", p)
    BY <2>1, <2>2, FinMovible DEF Movible, SoloEn, Estados
  <2>4. /\ cola' = MoverDe("BLOCKED", "READY", p) /\ semReady' = semReady + 1
        /\ UNCHANGED <<corto, panico>>
    BY <1>3, <2>1, <2>3 DEF BlockedAReady
  <2> QED
    BY <2>3, <2>4, ReadyCrece DEF Estados
<1> QED
  BY <1>1, <1>2, <1>3 DEF PasoFinIO

\* No step loses the count of READY, and none dies.
LEMMA PasoReady ==
  ASSUME InvKernel, SemReadyExacto, [Next]_vars
  PROVE  SemReadyExacto' /\ panico' = panico
<1>1. CASE \/ AvisarCpuLibre \/ UNCHANGED vars
           \/ \E c \in CPUs : HandshakeCPU(c) \/ EmitirSyscall(c)
           \/ \E i \in Instancias : HandshakeIO(i) \/ TerminarIO(i)
  <2>1. UNCHANGED <<semReady, corto, panico, cola>>
    BY <1>1 DEF AvisarCpuLibre, HandshakeCPU, EmitirSyscall, HandshakeIO, TerminarIO, vars
  <2> QED
    BY <2>1, ReadyQuieta DEF FichaReady
<1>2. CASE PasoCorto \/ PasoLargo
  BY <1>2, PasoCortoReady, PasoLargoReady
<1>3. CASE \E p \in Pid, n \in Numero : PasoTimer(p, n)
  BY <1>3, PasoTimerReady DEF InvKernel
<1>4. CASE \E c \in CPUs : PasoSyscall(c)
  BY <1>4, PasoSyscallReady
<1>5. CASE \E i \in Instancias : PasoFinIO(i)
  BY <1>5, PasoFinIOReady
<1> QED
  BY <1>1, <1>2, <1>3, <1>4, <1>5 DEF Next, PasoKernel, PasoEntorno, Reposo

\* At the start READY is empty and its semaphore 0.
LEMMA InicioReady == ASSUME Init PROVE SemReadyExacto
<1>1. cola["READY"] = <<>>
  BY DEF Init, Estados
<1> QED
  BY <1>1 DEF Init, SemReadyExacto, CortoEsperando

\* Sem_ProcesosEnReady counts READY, with the token of the round under way.
THEOREM ReadyContada == ASSUME Regimen PROVE Spec => []SemReadyExacto
<1>1. Init => SemReadyExacto
  BY InicioReady
<1>2. InvKernel /\ SemReadyExacto /\ [Next]_vars => SemReadyExacto'
  BY PasoReady
<1> QED
  BY <1>1, <1>2, InvKernelSiempre, PTL DEF Spec

\* No goroutine of the kernel dereferences a process that is gone or takes the
\* first of an empty READY.
THEOREM NadieMuere == ASSUME Regimen PROVE Spec => []SinPanico
<1>1. Init => SinPanico
  BY DEF Init, SinPanico
<1>2. InvKernel /\ SemReadyExacto /\ SinPanico /\ [Next]_vars => SinPanico'
  BY PasoReady DEF SinPanico
<1> QED
  BY <1>1, <1>2, InvKernelSiempre, ReadyContada, PTL DEF Spec

---------------------------------------------------------------------------
(* Whoever waits on a device will be served. *)

\* Instance i is at work: its end is being handled, or it sleeps.
Trabaja(i) == dispositivo[i] # NINGUNO \/ finIO[i].pc # "inactivo"

\* The strengthening of AlguienServira.
InvServicio == OcupadaTrabaja /\ AlguienServira

\* A step after which whoever was at work still is, and nobody new waits.
LEMMA ServicioSigue ==
  ASSUME InvTipos, InvServicio, instanciasIO' = instanciasIO,
         \A d \in NombresIO : esperaIO'[d] # <<>> => esperaIO[d] # <<>>,
         \A i \in Instancias : Trabaja(i) => \/ Trabaja(i)'
                                             \/ /\ enIO'[i] = NINGUNO
                                                /\ esperaIO'[NombreIO[i]] = <<>>,
         \A i \in Instancias : enIO'[i] # NINGUNO => enIO[i] # NINGUNO \/ Trabaja(i)',
         NombreCorrecto
  PROVE  InvServicio'
<1>1. OcupadaTrabaja'
  BY DEF InvServicio, OcupadaTrabaja, Trabaja
<1>2. ASSUME NEW d \in NombresIO, esperaIO'[d] # <<>>
      PROVE  \E k \in DOMAIN instanciasIO'[d] : Trabaja(instanciasIO[d][k])'
  <2>1. PICK k \in DOMAIN instanciasIO[d] : Trabaja(instanciasIO[d][k])
    BY <1>2 DEF InvServicio, AlguienServira, Trabaja
  <2>2. PICK i \in Instancias : i = instanciasIO[d][k]
    BY <2>1, TiposDeIO
  <2>3. NombreIO[i] = d
    BY <2>1, <2>2 DEF NombreCorrecto
  <2>4. Trabaja(i)'
    BY <1>2, <2>1, <2>2, <2>3
  <2> QED
    BY <2>1, <2>2, <2>4 DEF Trabaja
<1>3. AlguienServira'
  BY <1>2 DEF AlguienServira, Trabaja
<1> QED
  BY <1>1, <1>3 DEF InvServicio

\* A step that touches no device.
LEMMA ServicioQuieto ==
  ASSUME InvServicio, UNCHANGED <<instanciasIO, esperaIO, enIO, dispositivo, finIO>>
  PROVE  InvServicio'
BY DEF InvServicio, OcupadaTrabaja, AlguienServira

\* A process queues for a device only when all its instances are taken, and
\* those are at work.
LEMMA IOSolicitarServicio ==
  ASSUME InvTipos, InvIO, InvServicio, NEW c \in CPUs, IOSolicitar(c)
  PROVE  InvServicio'
<1>0. PICK d \in NombresIO : d = manejador[c].io
  BY DEF IOSolicitar, En, InvTipos, Nombran, ManejadorNombra, PCsIO
<1>1. UNCHANGED <<instanciasIO, finIO>> /\ instanciasIO[d] # <<>>
  BY <1>0 DEF IOSolicitar, ExisteIO
<1>2. CASE Libres(d) # {} /\ Solicitar(PrimeraLibre(d), manejador[c].pid)
               /\ UNCHANGED esperaIO
  <2>1. PICK i \in Instancias : i = PrimeraLibre(d)
    BY <1>2, LibreOciosa
  <2>2. PICK p \in Pid : p = manejador[c].pid
    BY DEF IOSolicitar, En, InvTipos, Nombran, ManejadorNombra
  <2>3. /\ enIO' = [enIO EXCEPT ![i] = p] /\ dispositivo' = [dispositivo EXCEPT ![i] = p]
    BY <1>2, <2>1, <2>2 DEF Solicitar
  <2>4. dispositivo'[i] # NINGUNO /\ \A j \in Instancias \ {i} :
          enIO'[j] = enIO[j] /\ dispositivo'[j] = dispositivo[j]
    BY <2>2, <2>3, TiposDeIO DEF Pid, NINGUNO
  <2> QED
    BY <1>1, <1>2, <2>4, ServicioSigue DEF Trabaja, InvIO
<1>3. CASE /\ Libres(d) = {} /\ esperaIO' = [esperaIO EXCEPT ![d] = Append(@, manejador[c].pid)]
           /\ UNCHANGED <<enIO, dispositivo>>
  <2>1. instanciasIO[d] \in Seq(Instancias)
    BY TiposDeIO
  <2>2. 1 \in DOMAIN instanciasIO[d]
    BY <1>1, <2>1
  <2>3. enIO[instanciasIO[d][1]] # NINGUNO /\ instanciasIO[d][1] \in Instancias
    BY <1>3, <2>1, <2>2 DEF Libres
  <2>4. Trabaja(instanciasIO[d][1])
    BY <2>3 DEF InvServicio, OcupadaTrabaja, Trabaja
  <2>5. \A e \in NombresIO \ {d} : esperaIO'[e] = esperaIO[e]
    BY <1>3, TiposDeIO
  <2> QED
    BY <1>1, <1>3, <2>2, <2>4, <2>5
       DEF InvServicio, OcupadaTrabaja, AlguienServira, Trabaja
<1> QED
  BY <1>0, <1>2, <1>3 DEF IOSolicitar

\* The handler of an end of IO goes on to LiberarInstancia, which serves the
\* queue or leaves it empty.
LEMMA PasoFinIOServicio ==
  ASSUME InvKernel, InvServicio, NEW i \in Instancias, PasoFinIO(i)
  PROVE  InvServicio'
<1> USE DEF InvKernel
<1>0. /\ instanciasIO' = instanciasIO /\ finIO[i].pc # "inactivo"
      /\ NombreCorrecto /\ finIO \in [Instancias -> RegistroFin]
  BY TiposDeIO DEF PasoFinIO, FinIOTomarLista, FinIOMirarProceso, SuspBlockedASuspReady,
                   BlockedAReady, LiberarInstancia, InvIO
<1>p. PICK p \in Pid : p = finIO[i].pid
  BY <1>0 DEF InvTipos, Nombran, FinNombra
<1>1. ASSUME UNCHANGED <<esperaIO, enIO, dispositivo>>, finIO'[i].pc # "inactivo",
             \A j \in Instancias \ {i} : finIO'[j] = finIO[j]
      PROVE  InvServicio'
  BY <1>0, <1>1, ServicioSigue DEF Trabaja
<1>2. CASE FinIOTomarLista(i)
  <2>1. UNCHANGED <<esperaIO, enIO, dispositivo>> /\ finIO' = [finIO EXCEPT ![i].pc = "proceso"]
    BY <1>2 DEF FinIOTomarLista
  <2>2. finIO'[i].pc = "proceso" /\ \A j \in Instancias \ {i} : finIO'[j] = finIO[j]
    BY <1>0, <2>1 DEF RegistroFin
  <2> QED
    BY <1>1, <2>1, <2>2
<1>3. CASE FinIOMirarProceso(i)
  <2>1. finIO[i].pc = "proceso" /\ mutexProc[p] = NADA
    BY <1>3, <1>p DEF FinIOMirarProceso
  <2>2. Atiende(i, p) /\ \A c \in CPUs : mutexProc[p] # GSyscall(c)
    BY <1>p, <2>1, NadaNoEsDueno DEF Atiende
  <2>3. mapa[p] # NADA /\ mapa[p].estado \in {"BLOCKED", "SUSP_BLOCKED"}
    BY <2>2, FinEncuentra
  <2>4. UNCHANGED <<esperaIO, enIO, dispositivo>>
        /\ finIO' = [finIO EXCEPT ![i] = [@ EXCEPT !.pc = "mueve"]]
    BY <1>3, <1>p, <2>3 DEF FinIOMirarProceso
  <2>5. finIO'[i].pc = "mueve" /\ \A j \in Instancias \ {i} : finIO'[j] = finIO[j]
    BY <1>0, <2>4 DEF RegistroFin
  <2> QED
    BY <1>1, <2>4, <2>5
<1>4. CASE SuspBlockedASuspReady(i) \/ BlockedAReady(i)
  <2>1. finIO[i].pc = "mueve"
    BY <1>4 DEF SuspBlockedASuspReady, BlockedAReady
  <2>2. SoloEn(p, {mapa[p].estado})
    BY <1>p, <2>1, FinMovible
  <2>3. \E e, f \in Estados : Movible(e, f, p) /\ FinIOMovido(i, Movible(e, f, p))
    BY <1>4, <1>p, <2>2
       DEF SuspBlockedASuspReady, BlockedAReady, Movible, SoloEn, Estados
  <2>4. UNCHANGED <<esperaIO, enIO, dispositivo>>
        /\ finIO' = [finIO EXCEPT ![i] = [@ EXCEPT !.pc = "instancia"]]
    BY <1>4, <2>3 DEF SuspBlockedASuspReady, BlockedAReady, FinIOMovido
  <2>5. finIO'[i].pc = "instancia" /\ \A j \in Instancias \ {i} : finIO'[j] = finIO[j]
    BY <1>0, <2>4 DEF RegistroFin
  <2> QED
    BY <1>1, <2>4, <2>5
<1>5. CASE LiberarInstancia(i)
  <2>0. PICK d \in NombresIO : d = NombreIO[i]
    BY TiposDeIO
  <2>1. finIO' = [finIO EXCEPT ![i] = SinFin]
    BY <1>5 DEF LiberarInstancia
  <2>2. \A j \in Instancias \ {i} : finIO'[j] = finIO[j]
    BY <1>0, <2>1
  <2>3. CASE esperaIO[d] = <<>>
    <3>1. enIO' = [enIO EXCEPT ![i] = NINGUNO] /\ UNCHANGED <<esperaIO, dispositivo>>
      BY <1>5, <2>0, <2>3 DEF LiberarInstancia
    <3>2. enIO'[i] = NINGUNO /\ \A j \in Instancias \ {i} : enIO'[j] = enIO[j]
      BY <3>1, TiposDeIO
    <3> QED
      BY <1>0, <2>0, <2>2, <2>3, <3>1, <3>2, ServicioSigue DEF Trabaja
  <2>4. CASE esperaIO[d] # <<>>
    <3>1. PICK q \in Pid : q = Head(esperaIO[d])
      BY <2>4, TiposDeIO
    <3>2. /\ enIO' = [enIO EXCEPT ![i] = q] /\ dispositivo' = [dispositivo EXCEPT ![i] = q]
          /\ esperaIO' = [esperaIO EXCEPT ![d] = Tail(@)]
      BY <1>5, <2>0, <2>4, <3>1 DEF LiberarInstancia, Solicitar
    <3>3. /\ dispositivo'[i] # NINGUNO
          /\ \A j \in Instancias \ {i} : enIO'[j] = enIO[j] /\ dispositivo'[j] = dispositivo[j]
      BY <3>1, <3>2, TiposDeIO DEF Pid, NINGUNO
    <3>4. \A e \in NombresIO : esperaIO'[e] # <<>> => esperaIO[e] # <<>>
      BY <2>4, <3>2, TiposDeIO
    <3> QED
      BY <1>0, <2>2, <3>3, <3>4, ServicioSigue DEF Trabaja
  <2> QED
    BY <2>3, <2>4
<1> QED
  BY <1>2, <1>3, <1>4, <1>5 DEF PasoFinIO

\* A device that connects or wakes up.
LEMMA PasoDispositivoServicio ==
  ASSUME InvTipos, InvIO, InvServicio, NEW i \in Instancias, HandshakeIO(i) \/ TerminarIO(i)
  PROVE  InvServicio'
<1>1. CASE TerminarIO(i)
  <2>1. /\ UNCHANGED <<instanciasIO, esperaIO, enIO>>
        /\ finIO' = [finIO EXCEPT ![i] = [pc |-> "lista", pid |-> dispositivo[i]]]
        /\ dispositivo' = [dispositivo EXCEPT ![i] = NINGUNO]
    BY <1>1 DEF TerminarIO
  <2>2. /\ finIO'[i].pc = "lista"
        /\ \A j \in Instancias \ {i} : finIO'[j] = finIO[j] /\ dispositivo'[j] = dispositivo[j]
    BY <2>1, TiposDeIO
  <2> QED
    BY <2>1, <2>2, ServicioSigue DEF Trabaja, InvIO
<1>2. CASE HandshakeIO(i)
  <2> DEFINE d == NombreIO[i]
             s == instanciasIO[d]
  <2>1. /\ UNCHANGED <<dispositivo, finIO, esperaIO>>
        /\ instanciasIO' = [instanciasIO EXCEPT ![d] = Append(s, i)]
        /\ enIO' = [enIO EXCEPT ![i] = NINGUNO]
    BY <1>2 DEF HandshakeIO
  <2>2. OcupadaTrabaja'
    BY <2>1, TiposDeIO DEF InvServicio, OcupadaTrabaja
  <2>3. d \in NombresIO /\ s \in Seq(Instancias)
    BY TiposDeIO
  <2>4. DOMAIN s \subseteq DOMAIN Append(s, i) /\ \A k \in DOMAIN s : Append(s, i)[k] = s[k]
    BY <2>3
  <2>5. /\ instanciasIO'[d] = Append(s, i)
        /\ \A f \in NombresIO \ {d} : instanciasIO'[f] = instanciasIO[f]
    BY <2>1, <2>3, TiposDeIO
  <2>6. \A f \in NombresIO : \A k \in DOMAIN instanciasIO[f] :
          k \in DOMAIN instanciasIO'[f] /\ instanciasIO'[f][k] = instanciasIO[f][k]
    BY <2>4, <2>5
  <2>7. AlguienServira'
    BY <2>1, <2>6 DEF InvServicio, AlguienServira
  <2> QED
    BY <2>2, <2>7 DEF InvServicio
<1> QED
  BY <1>1, <1>2

\* No step leaves a queue of a device with nobody at work.
LEMMA PasoServicio ==
  ASSUME InvKernel, InvServicio, [Next]_vars PROVE InvServicio'
<1> USE DEF InvKernel
<1>1. CASE PasoCorto
  BY <1>1, ServicioQuieto DEF PasoCorto, EsperarCpu, EsperarReady, ElegirCpu,
     ElegirPid, LeerPcb, EnviarProceso, ReadyAExecute, CambiarAExecute, Panico
<1>2. CASE PasoLargo
  BY <1>2, ServicioQuieto DEF PasoLargo, DespertarLargo, IntentarReanudar,
     SuspReadyAReady, SuspReadyVacia, IntentarIniciar, NewAReady, NewVacia,
     Panico
<1>3. CASE AvisarCpuLibre
  BY <1>3, ServicioQuieto DEF AvisarCpuLibre
<1>4. CASE \E p \in Pid, n \in Numero : PasoTimer(p, n)
  BY <1>4, ServicioQuieto DEF PasoTimer, DespertarTimer, SuspenderEnMemoria,
                        BlockedASuspBlocked
<1>5. ASSUME NEW c \in CPUs, PasoSyscall(c), ~IOSolicitar(c) PROVE InvServicio'
  BY <1>5, ServicioQuieto DEF PasoSyscall, MarcarLibre, FinEnMemoria, FinEnCola,
     FinEnLog, FinEnMapa, IOTomarLista, IODescartar, IOInexistente, IOBloquear, DumpMirar,
     DumpBloquear, DumpCambiar, EnviarDump, DumpVolver, InitCrear,
     InitAgregarNew, InitReenviar, Panico
<1>6. CASE \E i \in Instancias : PasoFinIO(i)
  BY <1>6, PasoFinIOServicio
<1>7. CASE \E c \in CPUs : HandshakeCPU(c) \/ EmitirSyscall(c)
  BY <1>7, ServicioQuieto DEF HandshakeCPU, EmitirSyscall
<1>8. CASE \E i \in Instancias : HandshakeIO(i) \/ TerminarIO(i)
  BY <1>8, PasoDispositivoServicio
<1>9. CASE UNCHANGED vars
  BY <1>9, ServicioQuieto DEF vars
<1> QED
  BY <1>1, <1>2, <1>3, <1>4, <1>5, <1>6, <1>7, <1>8, <1>9, IOSolicitarServicio
     DEF Next, PasoKernel, PasoEntorno, Reposo

\* While a process waits in the queue of a device, an instance of it is at
\* work, whose end will serve the queue (manejarFinIO).
THEOREM QuienEsperaSeraServido == ASSUME Regimen PROVE Spec => []AlguienServira
<1>1. Init => InvServicio
  BY DEF Init, InvServicio, OcupadaTrabaja, AlguienServira
<1>2. InvKernel /\ InvServicio /\ [Next]_vars => InvServicio'
  BY PasoServicio
<1>3. InvServicio => AlguienServira
  BY DEF InvServicio
<1> QED
  BY <1>1, <1>2, <1>3, InvKernelSiempre, PTL DEF Spec

---------------------------------------------------------------------------
(* Where the memory module has each process. *)

\* A step that moves no pages and changes nobody's expected place.
LEMMA ResidenciaSigue ==
  ASSUME InvResidencia, memoria' = memoria,
         \A p \in Pid : LugarEsperado(p)' = LugarEsperado(p)
  PROVE  InvResidencia'
BY DEF InvResidencia

\* A step that touches nobody's place.
LEMMA ResidenciaQuieta ==
  ASSUME InvResidencia, UNCHANGED <<memoria, mapa, temporizador, largo>>,
         \A p \in Pid : Liberado(p)' <=> Liberado(p)
  PROVE  InvResidencia'
BY DEF InvResidencia, LugarEsperado, Bajando, LargoTrae, LugarDe

\* One process changes to a state that is kept in the same place.
LEMMA ResidenciaMismoLugar ==
  ASSUME InvResidencia, NEW p \in Pid, \A q \in Pid \ {p} : mapa'[q] = mapa[q],
         LugarDe(p)' = LugarDe(p), memoria' = memoria,
         \A q \in Pid : /\ Liberado(q)' <=> Liberado(q)
                        /\ Bajando(q)' <=> Bajando(q)
                        /\ LargoTrae(q)' <=> LargoTrae(q)
  PROVE  InvResidencia'
<1>1. \A q \in Pid : LugarDe(q)' = LugarDe(q)
  BY DEF LugarDe
<1>2. \A q \in Pid : LugarEsperado(q)' = LugarEsperado(q)
  BY <1>1 DEF LugarEsperado
<1> QED
  BY <1>2, ResidenciaSigue

\* A handler outside FinalizarProceso frees nobody.
LEMMA LiberadoIgual ==
  ASSUME NEW c \in CPUs, \A d \in CPUs \ {c} : manejador'[d] = manejador[d],
         manejador[c].pc \notin PCsFin, manejador'[c].pc \notin PCsFin
  PROVE  \A p \in Pid : Liberado(p)' <=> Liberado(p)
BY DEF Liberado

\* The types of the memory module's record and of the long-term planner.
LEMMA TiposDeLugar ==
  ASSUME InvTipos
  PROVE  /\ memoria \in [Pid -> Lugares]
         /\ largo \in [pc : {"espera", "susp", "susp_mueve", "new", "new_mueve"},
                       pid : PidONinguno]
BY DEF InvTipos, TypeOK, TiposTabla, TiposPlanificadores

\* A dispatch changes no place: READY and EXECUTE are both in frames.
LEMMA PasoCortoResidencia ==
  ASSUME InvKernel, InvResidencia, PasoCorto
  PROVE  InvResidencia'
<1> USE DEF InvKernel
<1>1. UNCHANGED <<memoria, temporizador, largo, manejador>>
  BY DEF PasoCorto, EsperarCpu, EsperarReady, ElegirCpu,
     ElegirPid, LeerPcb, EnviarProceso, ReadyAExecute, CambiarAExecute, Panico
<1>2. CASE mapa' = mapa
  BY <1>1, <1>2, ResidenciaQuieta DEF Liberado
<1>3. CASE mapa' # mapa
  <2>1. CambiarAExecute /\ mapa' = ConEstado(corto.pid, "EXECUTE")
    BY <1>3 DEF PasoCorto, EsperarCpu, EsperarReady, ElegirCpu,
       ElegirPid, LeerPcb, EnviarProceso, ReadyAExecute, CambiarAExecute, Panico
  <2>2. PICK p \in Pid : p = corto.pid
    BY <2>1 DEF CambiarAExecute, InvTipos, Nombran, CortoNombra
  <2>3. mapa[p] # NADA /\ mapa[p].estado = "READY"
    BY <2>1, <2>2 DEF CambiarAExecute, InvProcesos, EnOrden, EnMano, ManoPlanificador,
                      CortoTrae, Vivo
  <2>4. /\ mapa'[p] # NADA /\ mapa'[p].estado = "EXECUTE"
        /\ \A q \in Pid \ {p} : mapa'[q] = mapa[q]
    BY <2>1, <2>2, <2>3, ConEstadoExacto, TiposDeProcesos DEF Estados
  <2>5. LugarDe(p)' = LugarDe(p)
    BY <2>3, <2>4 DEF LugarDe
  <2> QED
    BY <1>1, <2>4, <2>5, ResidenciaMismoLugar DEF Liberado, Bajando, LargoTrae
<1> QED
  BY <1>2, <1>3

\* The memory module lets in the head of SUSP_READY or of NEW.
LEMMA AdmitirResidencia ==
  ASSUME InvKernel, InvResidencia, NEW e \in {"SUSP_READY", "NEW"}, NEW s \in PorTamanio(e),
         cola[e] # <<>>, cola' = [cola EXCEPT ![e] = s], largo.pc \in {"susp", "new"},
         UNCHANGED <<mapa, manejador, temporizador, esperaIO>>,
         \/ /\ memoria' = [memoria EXCEPT ![s[1]] = "ram"]
            /\ largo' = [pc |-> IF e = "NEW" THEN "new_mueve" ELSE "susp_mueve", pid |-> s[1]]
         \/ memoria' = memoria /\ largo' = [largo EXCEPT !.pc = "espera"]
  PROVE  InvResidencia'
<1> USE DEF InvKernel
<1>1. \A p \in Pid : ~LargoTrae(p)
  BY DEF LargoTrae
<1>2. CASE memoria' = memoria /\ largo' = [largo EXCEPT !.pc = "espera"]
  <2>1. \A p \in Pid : ~LargoTrae(p)'
    BY <1>2, TiposDeLugar DEF LargoTrae
  <2> QED
    BY <1>1, <1>2, <2>1 DEF InvResidencia, LugarEsperado, LugarDe, Liberado, Bajando
<1>3. CASE /\ memoria' = [memoria EXCEPT ![s[1]] = "ram"]
           /\ largo' = [pc |-> IF e = "NEW" THEN "new_mueve" ELSE "susp_mueve", pid |-> s[1]]
  <2>e. e \in Estados \ {"EXECUTE", "BLOCKED"}
    BY DEF Estados
  <2>0. s[1] \in Pid /\ Esta(cola[e], s[1])
    BY <2>e, OrdenarCola, TiposDeProcesos DEF PorTamanio, Ordenadas, InvProcesos
  <2>1. PICK p \in Pid : p = s[1] /\ Esta(cola[e], p)
    BY <2>0
  <2>2. mapa[p] # NADA /\ mapa[p].estado = e
    BY <2>e, <2>1, AlEstarEnCola DEF InvProcesos, EnOrden
  <2>3. \A c \in CPUs : ~Maneja(c, p)
    BY <2>2, EstadoEnDos DEF InvProcesos, EnOrden, EnMano, ManoCpu, Vivo
  <2>4. ~Suspende(p)
    BY <2>2 DEF InvProcesos, EnOrden, EnMano, ManoPlanificador, Vivo
  <2>5. ~Liberado(p) /\ ~Bajando(p)
    BY <2>3, <2>4 DEF Liberado, Maneja, PCsFin, Bajando, Suspende
  <2>6. LargoTrae(p)' /\ \A q \in Pid \ {p} : ~LargoTrae(q)'
    BY <1>3, <2>1 DEF LargoTrae
  <2>7. memoria'[p] = "ram" /\ \A q \in Pid \ {p} : memoria'[q] = memoria[q]
    BY <1>3, <2>1, TiposDeLugar
  <2>8. ~Liberado(p)' /\ ~Bajando(p)'
    BY <2>5 DEF Liberado, Bajando
  <2>9. memoria'[p] = LugarEsperado(p)'
    BY <2>6, <2>7, <2>8 DEF LugarEsperado
  <2>10. \A q \in Pid \ {p} : LugarEsperado(q)' = LugarEsperado(q)
    BY <1>1, <2>6 DEF LugarEsperado, LugarDe, Liberado, Bajando
  <2> QED
    BY <2>7, <2>9, <2>10 DEF InvResidencia
<1> QED
  BY <1>2, <1>3

\* The process that was let in reaches READY.
LEMMA LlegarResidencia ==
  ASSUME InvKernel, InvResidencia, NEW p \in Pid, p = largo.pid,
         NEW e \in {"SUSP_READY", "NEW"},
         largo.pc = IF e = "NEW" THEN "new_mueve" ELSE "susp_mueve",
         mapa' = ConEstado(p, "READY"), largo'.pc \in {"susp", "new"},
         UNCHANGED <<memoria, manejador, temporizador>>
  PROVE  InvResidencia'
<1> USE DEF InvKernel
<1>1. mapa[p] # NADA /\ mapa[p].estado = e
  BY LargoEncuentra
<1>2. LargoTrae(p) /\ \A q \in Pid \ {p} : ~LargoTrae(q)
  BY DEF LargoTrae
<1>3. \A q \in Pid : ~LargoTrae(q)'
  BY DEF LargoTrae
<1>4. ~Liberado(p) /\ ~Bajando(p)
  BY <1>1, EstadoEnDos DEF Liberado, Bajando, Maneja, PCsFin, Suspende, InvProcesos,
     EnOrden, EnMano, ManoCpu, ManoPlanificador, Vivo
<1>5. /\ mapa'[p] # NADA /\ mapa'[p].estado = "READY"
      /\ \A q \in Pid \ {p} : mapa'[q] = mapa[q]
  BY <1>1, ConEstadoExacto, TiposDeProcesos DEF Estados
<1>6. memoria[p] = "ram"
  BY <1>2, <1>4 DEF InvResidencia, LugarEsperado
<1>7. LugarEsperado(p)' = "ram"
  BY <1>3, <1>4, <1>5 DEF LugarEsperado, LugarDe, Liberado, Bajando
<1>8. \A q \in Pid \ {p} : LugarEsperado(q)' = LugarEsperado(q)
  BY <1>2, <1>3, <1>5 DEF LugarEsperado, LugarDe, Liberado, Bajando
<1> QED
  BY <1>6, <1>7, <1>8 DEF InvResidencia

\* The long-term planner has the pages brought in before the process reaches
\* READY.
LEMMA PasoLargoResidencia ==
  ASSUME InvKernel, InvResidencia, PasoLargo
  PROVE  InvResidencia'
<1> USE DEF InvKernel
<1>1. CASE DespertarLargo \/ SuspReadyVacia \/ NewVacia
  <2>1. UNCHANGED <<memoria, mapa, temporizador, manejador>>
    BY <1>1 DEF DespertarLargo, SuspReadyVacia, NewVacia
  <2>2. \A p \in Pid : ~LargoTrae(p) /\ ~LargoTrae(p)'
    BY <1>1, TiposDeLugar DEF DespertarLargo, SuspReadyVacia, NewVacia, LargoTrae
  <2> QED
    BY <2>1, <2>2 DEF InvResidencia, LugarEsperado, LugarDe, Liberado, Bajando
<1>2. CASE IntentarReanudar
  BY <1>2, AdmitirResidencia DEF IntentarReanudar
<1>3. CASE IntentarIniciar
  BY <1>3, AdmitirResidencia DEF IntentarIniciar
<1>4. CASE SuspReadyAReady
  <2>0. PICK p \in Pid : p = largo.pid
    BY <1>4 DEF SuspReadyAReady, InvTipos, Nombran, LargoNombra
  <2>1. mapa[p] # NADA /\ Movible("SUSP_READY", "READY", p) /\ largo.pc = "susp_mueve"
    BY <1>4, <2>0, LargoEncuentra DEF SuspReadyAReady
  <2>2. largo'.pc = "susp"
    BY <1>4, <2>0, <2>1, TiposDeLugar DEF SuspReadyAReady
  <2> QED
    BY <1>4, <2>0, <2>1, <2>2, LlegarResidencia DEF SuspReadyAReady
<1>5. CASE NewAReady
  <2>0. PICK p \in Pid : p = largo.pid
    BY <1>5 DEF NewAReady, InvTipos, Nombran, LargoNombra
  <2>1. mapa[p] # NADA /\ Movible("NEW", "READY", p) /\ largo.pc = "new_mueve"
    BY <1>5, <2>0, LargoEncuentra DEF NewAReady
  <2>2. largo'.pc = "new"
    BY <1>5, <2>0, <2>1, TiposDeLugar DEF NewAReady
  <2> QED
    BY <1>5, <2>0, <2>1, <2>2, LlegarResidencia DEF NewAReady
<1> QED
  BY <1>1, <1>2, <1>3, <1>4, <1>5 DEF PasoLargo

\* A process that a timer is suspending is in nobody else's hands.
LEMMA AlSuspender ==
  ASSUME InvProcesos, NEW p \in Pid, Suspende(p)
  PROVE  /\ Vivo(p, {"BLOCKED"}) /\ EnOrden(p) /\ ~Liberado(p) /\ ~LargoTrae(p)
<1>1. Vivo(p, {"BLOCKED"}) /\ EnOrden(p) /\ \A c \in CPUs : ~Maneja(c, p)
  BY DEF InvProcesos, EnOrden, EnMano, ManoPlanificador
<1>2. ~LargoTrae(p)
  BY <1>1 DEF EnOrden, EnMano, ManoPlanificador, Vivo
<1> QED
  BY <1>1, <1>2 DEF Liberado, Maneja, PCsFin

\* A suspension takes the pages to swap, then the process to SUSP_BLOCKED.
LEMMA PasoTimerResidencia ==
  ASSUME InvKernel, InvResidencia, NEW p \in Pid, NEW n \in Numero, PasoTimer(p, n)
  PROVE  InvResidencia'
<1> USE DEF InvKernel
<1>0. UNCHANGED <<manejador, largo>>
  BY DEF PasoTimer, DespertarTimer, SuspenderEnMemoria, BlockedASuspBlocked
<1>1. CASE DespertarTimer(p, n)
  <2>1. PICK x \in {SinTimer, [temporizador[p][n] EXCEPT !.pc = "suspende"]} :
          temporizador' = [temporizador EXCEPT ![p][n] = x]
    BY <1>1 DEF DespertarTimer
  <2>2. temporizador[p][n].pc = "duerme" /\ UNCHANGED <<memoria, mapa>>
    BY <1>1 DEF DespertarTimer
  <2>3. x.pc # "mueve"
    <3>1. CASE x = SinTimer
      BY <3>1 DEF SinTimer
    <3>2. CASE x = [temporizador[p][n] EXCEPT !.pc = "suspende"]
      BY <2>2, <3>2
    <3> QED
      BY <2>1, <3>1, <3>2
  <2>4. /\ \A q \in Pid \ {p} : temporizador'[q] = temporizador[q]
        /\ temporizador'[p][n] = x
        /\ \A k \in Numero \ {n} : temporizador'[p][k] = temporizador[p][k]
    BY <2>1, TimerExacto
  <2>5. \A q \in Pid : Bajando(q)' <=> Bajando(q)
    BY <2>2, <2>3, <2>4 DEF Bajando
  <2> QED
    BY <1>0, <2>2, <2>5 DEF InvResidencia, LugarEsperado, LugarDe, LargoTrae, Liberado
<1>2. CASE SuspenderEnMemoria(p, n)
  <2>1. Suspende(p)
    BY <1>2 DEF SuspenderEnMemoria, Suspende
  <2>2. ~Liberado(p) /\ ~LargoTrae(p) /\ mapa[p] # NADA /\ mapa[p].estado = "BLOCKED"
    BY <2>1, AlSuspender DEF Vivo
  <2>3. memoria[p] # "fuera"
    BY <2>2 DEF InvResidencia, LugarEsperado, LugarDe
  <2>p. PICK x : x = [temporizador[p][n] EXCEPT !.pc = "mueve"]
    OBVIOUS
  <2>4. temporizador' = [temporizador EXCEPT ![p][n] = x]
    BY <1>2, <2>p DEF SuspenderEnMemoria
  <2>m. mapa' = mapa
    BY <1>2 DEF SuspenderEnMemoria
  <2>5. x.pc = "mueve"
    BY <2>p, TiposDeProcesos
  <2>6. Bajando(p)' /\ \A q \in Pid \ {p} : Bajando(q)' <=> Bajando(q)
    <3>1. /\ \A q \in Pid \ {p} : temporizador'[q] = temporizador[q]
          /\ temporizador'[p][n] = x
          /\ \A k \in Numero \ {n} : temporizador'[p][k] = temporizador[p][k]
      BY <2>4, TimerExacto
    <3> QED
      BY <2>5, <3>1 DEF Bajando
  <2>7. memoria'[p] = "swap" /\ \A q \in Pid \ {p} : memoria'[q] = memoria[q]
    BY <1>2, <2>3, TiposDeLugar DEF SuspenderEnMemoria
  <2> QED
    BY <1>0, <2>2, <2>m, <2>6, <2>7
       DEF InvResidencia, LugarEsperado, LugarDe, LargoTrae, Liberado
<1>3. CASE BlockedASuspBlocked(p, n)
  <2>1. Suspende(p) /\ Bajando(p) /\ memoria' = memoria
    BY <1>3 DEF BlockedASuspBlocked, Suspende, Bajando
  <2>2. Vivo(p, {"BLOCKED"}) /\ EnOrden(p) /\ ~Liberado(p) /\ ~LargoTrae(p)
    BY <2>1, AlSuspender
  <2>3. SoloEn(p, {"BLOCKED"})
    <3>1. \A c \in CPUs : ~Maneja(c, p)
      BY <2>1, <2>2 DEF EnOrden, EnMano, ManoPlanificador
    <3> QED
      BY <2>2, <3>1, AlEstarSuelto DEF EnOrden, Vivo
  <2>4. mapa' = ConEstado(p, "SUSP_BLOCKED")
    BY <1>3, <2>3 DEF BlockedASuspBlocked, Movible, SoloEn, Estados
  <2>5. /\ mapa'[p] # NADA /\ mapa'[p].estado = "SUSP_BLOCKED"
        /\ \A q \in Pid \ {p} : mapa'[q] = mapa[q]
    BY <2>2, <2>4, ConEstadoExacto, TiposDeProcesos DEF Estados, Vivo
  <2>6. \A q \in Pid \ {p} : temporizador'[q] = temporizador[q]
    BY <1>3, TimerExacto DEF BlockedASuspBlocked
  <2>7. memoria[p] = "swap"
    BY <2>1, <2>2 DEF InvResidencia, LugarEsperado
  <2>8. LugarEsperado(p)' = "swap"
    BY <1>0, <2>2, <2>5 DEF LugarEsperado, LugarDe, LargoTrae, Liberado
  <2>9. \A q \in Pid \ {p} : LugarEsperado(q)' = LugarEsperado(q)
    BY <1>0, <2>5, <2>6 DEF LugarEsperado, LugarDe, LargoTrae, Liberado, Bajando
  <2> QED
    BY <2>1, <2>7, <2>8, <2>9 DEF InvResidencia
<1> QED
  BY <1>1, <1>2, <1>3 DEF PasoTimer

\* The end of an IO moves its process between two states of the same place.
LEMMA PasoFinIOResidencia ==
  ASSUME InvKernel, InvResidencia, NEW i \in Instancias, PasoFinIO(i)
  PROVE  InvResidencia'
<1> USE DEF InvKernel
<1>0. UNCHANGED <<memoria, manejador, largo, temporizador>>
  BY DEF PasoFinIO, FinIOTomarLista, FinIOMirarProceso, SuspBlockedASuspReady,
     BlockedAReady, LiberarInstancia
<1>1. CASE FinIOTomarLista(i) \/ FinIOMirarProceso(i) \/ LiberarInstancia(i)
  <2>1. mapa' = mapa
    BY <1>1 DEF FinIOTomarLista, FinIOMirarProceso, LiberarInstancia
  <2> QED
    BY <1>0, <2>1, ResidenciaQuieta DEF Liberado
<1>2. CASE SuspBlockedASuspReady(i) \/ BlockedAReady(i)
  <2>1. finIO[i].pc = "mueve"
    BY <1>2 DEF SuspBlockedASuspReady, BlockedAReady
  <2>2. PICK p \in Pid : p = finIO[i].pid
    BY <2>1 DEF InvTipos, Nombran, FinNombra
  <2>3. PICK e \in {"READY", "SUSP_READY"} :
          /\ mapa[p].estado = (IF e = "READY" THEN "BLOCKED" ELSE "SUSP_BLOCKED")
          /\ mapa' = IF Movible(mapa[p].estado, e, p) THEN ConEstado(p, e) ELSE mapa
    BY <1>2, <2>2 DEF SuspBlockedASuspReady, BlockedAReady
  <2>4. mapa[p] # NADA /\ SoloEn(p, {mapa[p].estado})
    BY <2>1, <2>2, FinMovible
  <2>5. Movible(mapa[p].estado, e, p)
    BY <2>3, <2>4 DEF SoloEn, Movible, Estados
  <2>6. /\ mapa'[p] # NADA /\ mapa'[p].estado = e
        /\ \A q \in Pid \ {p} : mapa'[q] = mapa[q]
    BY <2>3, <2>4, <2>5, ConEstadoExacto, TiposDeProcesos DEF Estados
  <2>7. LugarDe(p)' = LugarDe(p)
    BY <2>3, <2>4, <2>6 DEF LugarDe
  <2> QED
    BY <1>0, <2>6, <2>7, ResidenciaMismoLugar DEF Liberado, Bajando, LargoTrae
<1> QED
  BY <1>1, <1>2 DEF PasoFinIO

\* FinalizarProceso: the memory module frees the process, and only then it
\* leaves the table.
LEMMA FinEnMemoriaResidencia ==
  ASSUME InvKernel, InvResidencia, NEW c \in CPUs, FinEnMemoria(c)
  PROVE  InvResidencia'
<1> USE DEF InvKernel
<1>0. manejador[c].pc = "fin_memoria"
  BY DEF FinEnMemoria, En
<1>1. PICK p \in Pid : Servido(c, p)
  BY <1>0, AlServir
<1>2. /\ memoria' = [memoria EXCEPT ![p] = "fuera"] /\ Pasar(c, "fin_cola")
      /\ UNCHANGED <<mapa, largo, temporizador>>
  BY <1>1 DEF FinEnMemoria, Servido
<1>3. memoria'[p] = "fuera" /\ \A q \in Pid \ {p} : memoria'[q] = memoria[q]
  BY <1>2, TiposDeLugar
<1>4. /\ manejador'[c].pc = "fin_cola" /\ manejador'[c].pid = p /\ manejador[c].pid = p
      /\ \A d \in CPUs \ {c} : manejador'[d] = manejador[d]
  BY <1>1, <1>2, PasoDeManejador DEF Servido
<1>5. Liberado(p)' /\ \A q \in Pid \ {p} : Liberado(q)' <=> Liberado(q)
  BY <1>4 DEF Liberado, PCsFin
<1> QED
  BY <1>2, <1>3, <1>5 DEF InvResidencia, LugarEsperado, LugarDe, LargoTrae, Bajando

\* The process leaves the table once its frames are free.
LEMMA FinEnMapaResidencia ==
  ASSUME InvKernel, InvResidencia, NEW c \in CPUs, FinEnMapa(c)
  PROVE  InvResidencia'
<1> USE DEF InvKernel
<1>0. manejador[c].pc = "fin_mapa"
  BY DEF FinEnMapa, En
<1>1. PICK p \in Pid : Servido(c, p)
  BY <1>0, AlServir
<1>2. /\ mapa' = [mapa EXCEPT ![p] = NADA] /\ Pasar(c, "libera")
      /\ UNCHANGED <<memoria, largo, temporizador>>
  BY <1>1 DEF FinEnMapa, Servido
<1>3. mapa'[p] = NADA /\ \A q \in Pid \ {p} : mapa'[q] = mapa[q]
  BY <1>2, TiposDeProcesos
<1>4. /\ manejador'[c].pc = "libera" /\ manejador[c].pid = p /\ manejador'[c].pid = p
      /\ \A d \in CPUs \ {c} : manejador'[d] = manejador[d]
  BY <1>1, <1>2, PasoDeManejador DEF Servido
<1>5. Liberado(p) /\ \A q \in Pid \ {p} : Liberado(q)' <=> Liberado(q)
  BY <1>0, <1>4 DEF Liberado, PCsFin
<1>6. ~LargoTrae(p) /\ ~Bajando(p)
  BY <1>1 DEF Servido, SoloManeja, Suspende, Bajando
<1>7. memoria[p] = "fuera"
  BY <1>5 DEF InvResidencia, LugarEsperado
<1>8. ~Liberado(p)'
  BY <1>1, <1>4 DEF Servido, SoloManeja, Maneja, Liberado, PCsFin
<1>9. LugarEsperado(p)' = "fuera"
  BY <1>2, <1>3, <1>6, <1>8 DEF LugarEsperado, LugarDe, LargoTrae, Bajando
<1>10. \A q \in Pid \ {p} : LugarEsperado(q)' = LugarEsperado(q)
  BY <1>2, <1>3, <1>5 DEF LugarEsperado, LugarDe, LargoTrae, Bajando
<1> QED
  BY <1>2, <1>7, <1>9, <1>10 DEF InvResidencia

\* A handler that goes on to another step, inside FinalizarProceso or outside
\* it, frees nobody.
LEMMA LiberadoPasando ==
  ASSUME InvTipos, NEW c \in CPUs, NEW s, Pasar(c, s),
         s \in PCsFin <=> manejador[c].pc \in PCsFin
  PROVE  \A p \in Pid : Liberado(p)' <=> Liberado(p)
<1>1. /\ manejador'[c].pc = s /\ manejador'[c].pid = manejador[c].pid
      /\ \A d \in CPUs \ {c} : manejador'[d] = manejador[d]
  BY PasoDeManejador
<1> QED
  BY <1>1 DEF Liberado

\* The handler of c changes the state of its process to one that is kept in
\* the same place.
LEMMA ManejadorMismoLugar ==
  ASSUME InvKernel, InvResidencia, NEW c \in CPUs, NEW s, Pasar(c, s),
         s \notin PCsFin, manejador[c].pc \notin PCsFin,
         NEW p \in Pid, \A q \in Pid \ {p} : mapa'[q] = mapa[q], LugarDe(p)' = LugarDe(p),
         \A q \in Pid : Bajando(q)' <=> Bajando(q), UNCHANGED <<memoria, largo>>
  PROVE  InvResidencia'
<1>1. \A q \in Pid : Liberado(q)' <=> Liberado(q)
  BY LiberadoPasando DEF InvKernel
<1>2. \A q \in Pid : LargoTrae(q)' <=> LargoTrae(q)
  BY DEF LargoTrae
<1> QED
  BY <1>1, <1>2, ResidenciaMismoLugar

\* The steps of a handler that move neither a process nor its pages.
LEMMA ManejadorResidencia ==
  ASSUME InvKernel, InvResidencia, NEW c \in CPUs,
         \/ MarcarLibre(c) \/ FinEnCola(c) \/ FinEnLog(c) \/ IOTomarLista(c) \/ IODescartar(c)
         \/ IOInexistente(c) \/ DumpMirar(c) \/ DumpBloquear(c) \/ EnviarDump(c)
         \/ InitAgregarNew(c) \/ InitReenviar(c)
  PROVE  InvResidencia'
<1> USE DEF InvKernel
<1>1. UNCHANGED <<memoria, mapa, temporizador, largo>>
  BY DEF MarcarLibre, FinEnCola, FinEnLog, Panico, IOTomarLista, IODescartar,
         IOInexistente, DumpMirar, DumpBloquear, EnviarDump, InitAgregarNew, InitReenviar
<1>2. CASE MarcarLibre(c) \/ IODescartar(c) \/ InitReenviar(c) \/ DumpMirar(c)
  <2>1. /\ manejador[c].pc \in {"libera", "io_proceso", "init_reenvia", "dump_mira"}
        /\ \/ manejador' = [manejador EXCEPT ![c] = SinSyscall]
           \/ manejador' = [manejador EXCEPT ![c].pc = "dump_bloquea"]
    BY <1>2 DEF MarcarLibre, IODescartar, InitReenviar, DumpMirar, En
  <2>2. /\ manejador'[c].pc \in {"inactivo", "dump_bloquea"}
        /\ \A d \in CPUs \ {c} : manejador'[d] = manejador[d]
    <3>1. CASE manejador' = [manejador EXCEPT ![c] = SinSyscall]
      BY <3>1, TiposDeCpus DEF SinSyscall
    <3>2. CASE manejador' = [manejador EXCEPT ![c].pc = "dump_bloquea"]
      BY <3>2, PasoDeManejador DEF Pasar
    <3> QED
      BY <2>1, <3>1, <3>2
  <2> QED
    BY <1>1, <2>1, <2>2, LiberadoIgual, ResidenciaQuieta DEF PCsFin
<1>3. CASE FinEnCola(c)
  <2>1. Pasar(c, "fin_log") /\ manejador[c].pc = "fin_cola"
    BY <1>3 DEF FinEnCola, En
  <2> QED
    BY <1>1, <2>1, LiberadoPasando, ResidenciaQuieta DEF PCsFin
<1>4. CASE FinEnLog(c)
  <2>1. manejador[c].pc = "fin_log" /\ (Pasar(c, "fin_mapa") \/ manejador' = manejador)
    BY <1>4 DEF FinEnLog, En, Panico
  <2>2. \A q \in Pid : Liberado(q)' <=> Liberado(q)
    BY <2>1, LiberadoPasando DEF PCsFin, Liberado
  <2> QED
    BY <1>1, <2>2, ResidenciaQuieta
<1>5. CASE IOTomarLista(c) \/ IOInexistente(c) \/ DumpBloquear(c) \/ EnviarDump(c)
           \/ InitAgregarNew(c)
  <2>1. /\ manejador[c].pc \in {"io_lista", "io_proceso", "dump_bloquea", "dump_toma",
                                "init_new"}
        /\ \E s \in {"io_proceso", "fin_memoria", "dump_cambia", "libera", "dump_vuelve",
                     "init_reenvia"} : Pasar(c, s)
    BY <1>5 DEF IOTomarLista, IOInexistente, DumpBloquear, EnviarDump, InitAgregarNew, En
  <2> QED
    BY <1>1, <2>1, LiberadoPasando, ResidenciaQuieta DEF PCsFin
<1> QED
  BY <1>2, <1>3, <1>4, <1>5

\* manejarIO saves the PC: no place changes.
LEMMA IOSolicitarResidencia ==
  ASSUME InvKernel, InvResidencia, NEW c \in CPUs, IOSolicitar(c)
  PROVE  InvResidencia'
<1> USE DEF InvKernel
<1>0. manejador[c].pc = "io_proceso"
  BY DEF IOSolicitar, En
<1>1. PICK p \in Pid : Servido(c, p)
  BY <1>0, AlServir
<1>2. /\ mapa' = [mapa EXCEPT ![p].PC = manejador[c].n] /\ Pasar(c, "io_bloquea")
      /\ mutexProc' = [mutexProc EXCEPT ![p] = GSyscall(c)]
      /\ UNCHANGED <<memoria, largo, temporizador>>
  BY <1>1 DEF IOSolicitar, Servido
<1>3. mapa[p] # NADA
  BY <1>1 DEF Servido, Vivo
<1>4. mapa'[p] # NADA /\ mapa'[p].estado = mapa[p].estado /\ \A q \in Pid \ {p} : mapa'[q] = mapa[q]
  <2>1. mapa[p] \in Procesos /\ manejador[c].n \in 0 .. MaxSyscalls - 1
    BY <1>0, <1>3, TiposDeCpus, TiposDeProcesos, ConstantesOK
       DEF InvTipos, Nombran, ManejadorNombra, PCsReanuda, PCsIO, Numero
  <2>2. mapa'[p] = [mapa[p] EXCEPT !.PC = manejador[c].n]
    BY <1>2, TiposDeProcesos
  <2>3. mapa'[p] \in Procesos
    BY <2>1, <2>2 DEF Procesos
  <2> QED
    BY <1>2, <1>3, <2>3, ConPCExacto, TiposDeProcesos, NadaOK
<1>5. LugarDe(p)' = LugarDe(p)
  BY <1>3, <1>4 DEF LugarDe
<1> QED
  BY <1>0, <1>2, <1>4, <1>5, ManejadorMismoLugar DEF PCsFin, Bajando

\* BloquearProceso starts a timer, which sleeps.
LEMMA TimerNoBaja ==
  ASSUME InvTipos, InvCpus, InvProcesos, NEW c \in CPUs, NEW p \in Pid, Servido(c, p),
         temporizador' = ConTimer(p, manejador[c].n)
  PROVE  \A q \in Pid : Bajando(q)' <=> Bajando(q)
<1>1. manejador[c].n \in Numero
  BY DEF Servido, Maneja, InvTipos, Nombran, ManejadorNombra
<1>2. (\A q \in Pid \ {p} : temporizador'[q] = temporizador[q]) /\ (Suspende(p)' => Suspende(p))
  BY <1>1, TimerDuerme
<1>3. ~Suspende(p)
  BY DEF Servido, SoloManeja
<1> QED
  BY <1>2, <1>3 DEF Bajando, Suspende

\* BloquearProceso changes no place: BLOCKED keeps its frames.
LEMMA BloquearResidencia ==
  ASSUME InvKernel, InvResidencia, NEW c \in CPUs, IOBloquear(c) \/ DumpCambiar(c)
  PROVE  InvResidencia'
<1> USE DEF InvKernel
<1>0. manejador[c].pc \in {"io_bloquea", "dump_cambia"}
  BY DEF IOBloquear, DumpCambiar, En
<1>1. PICK p \in Pid : Servido(c, p)
  BY <1>0, AlServir
<1>2. mapa[p] # NADA /\ mapa[p].estado \in {"EXECUTE", "BLOCKED"}
  BY <1>1, EstadoEnDos DEF Servido, Vivo
<1>3. /\ mapa' \in Bloqueado(p) /\ temporizador' = ConTimer(p, manejador[c].n)
      /\ Pasar(c, "libera") \/ Pasar(c, "dump_toma")
      /\ UNCHANGED <<memoria, largo>>
  <2>1. CASE IOBloquear(c)
    <3>1. Movible("EXECUTE", "BLOCKED", p)
      BY <1>1, <2>1, IOBloquearMovible DEF IOBloquear, En
    <3> QED
      BY <1>1, <2>1, <3>1 DEF IOBloquear, Servido
  <2>2. CASE DumpCambiar(c)
    BY <1>1, <1>2, <2>2 DEF DumpCambiar, Servido
  <2> QED
    BY <2>1, <2>2
<1>4. /\ mapa'[p] # NADA /\ mapa'[p].estado = "BLOCKED"
      /\ \A q \in Pid \ {p} : mapa'[q] = mapa[q]
  BY <1>2, <1>3, BloqueadoExacto, TiposDeProcesos
<1>5. LugarDe(p)' = LugarDe(p)
  BY <1>2, <1>4 DEF LugarDe
<1>6. \A q \in Pid : Bajando(q)' <=> Bajando(q)
  BY <1>1, <1>3, TimerNoBaja
<1> QED
  BY <1>0, <1>3, <1>4, <1>5, <1>6, ManejadorMismoLugar DEF PCsFin

\* The end of a dump changes no place.
LEMMA DumpVolverResidencia ==
  ASSUME InvKernel, InvResidencia, NEW c \in CPUs, DumpVolver(c)
  PROVE  InvResidencia'
<1> USE DEF InvKernel
<1>0. manejador[c].pc = "dump_vuelve"
  BY DEF DumpVolver, En
<1>1. PICK p \in Pid : Servido(c, p)
  BY <1>0, AlServir
<1>2. mapa[p] # NADA /\ Movible("BLOCKED", "READY", p) /\ mapa[p].estado = "BLOCKED"
  BY <1>0, <1>1, DumpEncuentra
<1>3. /\ mapa' = [mapa EXCEPT ![p].PC = manejador[c].n, ![p].estado = "READY"]
      /\ Pasar(c, "libera") /\ UNCHANGED <<memoria, largo, temporizador>>
  BY <1>1, <1>2 DEF DumpVolver, Servido, Pasar
<1>4. /\ mapa'[p] # NADA /\ mapa'[p].estado = "READY"
      /\ \A q \in Pid \ {p} : mapa'[q] = mapa[q]
  <2>1. mapa[p] \in Procesos /\ manejador[c].n \in 0 .. MaxSyscalls - 1
    BY <1>0, <1>2, TiposDeCpus, TiposDeProcesos, ConstantesOK
       DEF InvTipos, Nombran, ManejadorNombra, PCsReanuda, Numero
  <2>2. /\ mapa'[p] = [mapa[p] EXCEPT !.PC = manejador[c].n, !.estado = "READY"]
        /\ \A q \in Pid \ {p} : mapa'[q] = mapa[q]
    BY <1>3, TiposDeProcesos
  <2>3. mapa'[p] \in Procesos /\ mapa'[p].estado = "READY"
    BY <2>1, <2>2 DEF Procesos, Estados
  <2> QED
    BY <2>2, <2>3, NadaOK
<1>5. LugarDe(p)' = LugarDe(p)
  BY <1>2, <1>4 DEF LugarDe
<1> QED
  BY <1>0, <1>3, <1>4, <1>5, ManejadorMismoLugar DEF PCsFin, Bajando

\* A process that is created is in NEW, and the memory module does not know it.
LEMMA InitCrearResidencia ==
  ASSUME InvKernel, InvResidencia, NEW c \in CPUs, InitCrear(c)
  PROVE  InvResidencia'
<1> USE DEF InvKernel
<1>1. PICK t \in Tamanios : mapa' = [mapa EXCEPT ![pidCounter] = ProcesoNuevo(t)]
  BY DEF InitCrear
<1>2. PICK r \in Pid : r = pidCounter
  BY TiposDeProcesos, ConstantesOK DEF InitCrear, Pid
<1>3. /\ manejador[c].pc = "init_crea" /\ UNCHANGED <<memoria, largo, temporizador>>
      /\ manejador' = [manejador EXCEPT ![c].pc = "init_new", ![c].nuevo = r]
  BY <1>2 DEF InitCrear, En
<1>4. /\ manejador'[c].pc = "init_new" /\ \A d \in CPUs \ {c} : manejador'[d] = manejador[d]
  BY <1>3, TiposDeCpus
<1>5. mapa[r] = NADA
  BY <1>2 DEF InvProcesos, EnOrden, EnMano, SinCrear, Pid
<1>6. mapa'[r].estado = "NEW" /\ \A q \in Pid \ {r} : mapa'[q] = mapa[q]
  BY <1>1, <1>2, TiposDeProcesos DEF ProcesoNuevo
<1>7. LugarDe(r)' = LugarDe(r)
  BY <1>5, <1>6 DEF LugarDe
<1>8. \A q \in Pid : Liberado(q)' <=> Liberado(q)
  BY <1>3, <1>4, LiberadoIgual DEF PCsFin
<1> QED
  BY <1>3, <1>6, <1>7, <1>8, ResidenciaMismoLugar DEF Bajando, LargoTrae

\* No handler of a syscall leaves a process out of its place.
LEMMA PasoSyscallResidencia ==
  ASSUME InvKernel, InvResidencia, NEW c \in CPUs, PasoSyscall(c)
  PROVE  InvResidencia'
BY FinEnMemoriaResidencia, FinEnMapaResidencia, ManejadorResidencia, IOSolicitarResidencia,
   BloquearResidencia, DumpVolverResidencia, InitCrearResidencia DEF PasoSyscall

\* No step leaves a process out of the place its state asks for.
LEMMA PasoResidencia ==
  ASSUME InvKernel, InvResidencia, [Next]_vars
  PROVE  InvResidencia'
<1>1. CASE \/ AvisarCpuLibre \/ UNCHANGED vars \/ \E c \in CPUs : HandshakeCPU(c)
           \/ \E i \in Instancias : HandshakeIO(i) \/ TerminarIO(i)
  <2>1. UNCHANGED <<memoria, mapa, temporizador, largo, manejador>>
    BY <1>1 DEF AvisarCpuLibre, HandshakeCPU, HandshakeIO, TerminarIO, vars
  <2> QED
    BY <2>1, ResidenciaQuieta DEF Liberado
<1>2. CASE \E c \in CPUs : EmitirSyscall(c)
  <2>1. PICK c \in CPUs : EmitirSyscall(c)
    BY <1>2
  <2>2. /\ UNCHANGED <<memoria, mapa, temporizador, largo>> /\ manejador[c].pc = "inactivo"
        /\ \E op \in Programa[ejecuta[c].pid][ejecuta[c].PC + 1] : \E io :
             manejador' = [manejador EXCEPT ![c] =
               [pc |-> Entrada[op], op |-> op, pid |-> ejecuta[c].pid,
                n |-> ejecuta[c].PC + 1, io |-> io, nuevo |-> NINGUNO]]
    BY <2>1 DEF EmitirSyscall, En
  <2>3. /\ ejecuta[c].pid \in Pid /\ ejecuta[c].PC + 1 \in Numero
    BY <2>1, TiposDeCpus, ConstantesOK DEF EmitirSyscall, PidONinguno, Numero, InvKernel
  <2>4. \A op \in Programa[ejecuta[c].pid][ejecuta[c].PC + 1] :
          Entrada[op] \in {"io_lista", "fin_memoria", "dump_mira", "init_crea"}
    BY <2>3, ConstantesOK DEF Entrada, Syscalls
  <2>5. /\ manejador'[c].pc \in {"io_lista", "fin_memoria", "dump_mira", "init_crea"}
        /\ \A d \in CPUs \ {c} : manejador'[d] = manejador[d]
    BY <2>2, <2>4, TiposDeCpus DEF InvKernel
  <2> QED
    BY <2>2, <2>5, LiberadoIgual, ResidenciaQuieta DEF PCsFin
<1>3. CASE PasoCorto \/ PasoLargo
  BY <1>3, PasoCortoResidencia, PasoLargoResidencia
<1>4. CASE \E p \in Pid, n \in Numero : PasoTimer(p, n)
  BY <1>4, PasoTimerResidencia
<1>5. CASE \E c \in CPUs : PasoSyscall(c)
  BY <1>5, PasoSyscallResidencia
<1>6. CASE \E i \in Instancias : PasoFinIO(i)
  BY <1>6, PasoFinIOResidencia
<1> QED
  BY <1>1, <1>2, <1>3, <1>4, <1>5, <1>6 DEF Next, PasoKernel, PasoEntorno, Reposo

\* At the start every process is out of memory.
LEMMA InicioResidencia == ASSUME Init PROVE InvResidencia
<1>1. \A p \in Pid : ~Liberado(p) /\ ~Bajando(p) /\ ~LargoTrae(p)
  BY DEF Init, Liberado, PCsFin, SinSyscall, Bajando, SinTimer, LargoTrae
<1>2. \A p \in Pid : LugarDe(p) = "fuera"
  BY DEF Init, LugarDe, ProcesoNuevo
<1> QED
  BY <1>1, <1>2 DEF Init, InvResidencia, LugarEsperado

\* The memory module has each process where its state says: out of memory in
\* NEW and once it has finished, in swap while it is suspended, in its frames
\* otherwise.
THEOREM CadaUnoEnSuLugar == ASSUME Regimen PROVE Spec => []ResidenciaCorrecta
<1>1. Init => InvResidencia
  BY InicioResidencia
<1>2. InvKernel /\ InvResidencia /\ [Next]_vars => InvResidencia'
  BY PasoResidencia
<1>3. InvResidencia => ResidenciaCorrecta
  BY DEF InvResidencia, LugarEsperado, ResidenciaCorrecta, MemoriaAlDia, Liberado, Bajando,
         LargoTrae, LugarDe
<1> QED
  BY <1>1, <1>2, <1>3, InvKernelSiempre, PTL DEF Spec

---------------------------------------------------------------------------
(* Who uses the memory of a process. *)

\* Whoever uses the memory of p, by its first component, and where p then is.
LEMMA QuienUsa ==
  ASSUME NEW p \in Pid, NEW u \in UsanMemoria(p)
  PROVE  \/ \E c \in CPUs : u = <<"programa", c>> /\ ejecuta[c].pid = p
         \/ \E c \in CPUs : /\ u = <<"fin", c>> /\ manejador[c].pid = p
                            /\ manejador[c].pc = "fin_memoria"
         \/ \E c \in CPUs : /\ u = <<"dump", c>> /\ manejador[c].pid = p
                            /\ manejador[c].pc = "dump_vuelve"
         \/ \E n \in Numero : u = <<"baja", n>> /\ temporizador[p][n].pc = "suspende"
         \/ u = <<"sube", "SUSP_READY">> /\ largo.pc = "susp" /\ Esta(cola["SUSP_READY"], p)
         \/ u = <<"sube", "NEW">> /\ largo.pc = "new" /\ Esta(cola["NEW"], p)
BY DEF UsanMemoria

\* Who is seen in SUSP_READY or NEW is of that state.
LEMMA EnColaEsDe ==
  ASSUME InvKernel, NEW p \in Pid, NEW e \in {"SUSP_READY", "NEW"}, Esta(cola[e], p)
  PROVE  Vivo(p, {e})
<1>1. Ubicado(p) /\ e \in Estados
  BY DEF InvKernel, InvProcesos, EnOrden, EnMano, Estados
<1>2. ~EnTransicion(p)
  BY <1>1 DEF EnTransicion, Ubicado, SoloEn, Maneja, Crea
<1> QED
  BY <1>1, <1>2 DEF Ubicado, SoloEn, Vivo

\* CPUs and handlers that use the memory of p: one at a time.
DeCpu(u, p, c) ==
  \/ u = <<"programa", c>> /\ ejecuta[c].pid = p
  \/ u = <<"fin", c>> /\ manejador[c].pid = p /\ manejador[c].pc = "fin_memoria"
  \/ u = <<"dump", c>> /\ manejador[c].pid = p /\ manejador[c].pc = "dump_vuelve"

LEMMA UnaCpuUsa ==
  ASSUME InvKernel, NEW p \in Pid, NEW c \in CPUs, NEW d \in CPUs, NEW u, NEW v,
         DeCpu(u, p, c), DeCpu(v, p, d)
  PROVE  u = v
<1>1. UnaMano(p) /\ EjecutaTiene /\ p # NINGUNO
  BY ConstantesOK DEF InvKernel, InvCpus, InvProcesos, EnOrden, EnMano, Pid, NINGUNO
<1>2. Ocupa(c, p) /\ Ocupa(d, p)
  BY DEF DeCpu, Ocupa
<1>3. c = d
  BY <1>1, <1>2 DEF UnaMano
<1>4. ejecuta[c].pid = p => manejador[c].pc = "inactivo"
  BY <1>1 DEF EjecutaTiene
<1> QED
  BY <1>3, <1>4 DEF DeCpu

\* The timers that suspend p hold its mutex, so there is one.
LEMMA UnTimer ==
  ASSUME InvKernel, NEW p \in Pid, NEW n \in Numero, NEW m \in Numero,
         temporizador[p][n].pc \in {"suspende", "mueve"},
         temporizador[p][m].pc \in {"suspende", "mueve"}
  PROVE  n = m
<1>1. mutexProc[p] = GTimer(p, n) /\ mutexProc[p] = GTimer(p, m)
  BY DEF InvKernel, InvTipos, Duenos, TimerEsDueno
<1> QED
  BY <1>1 DEF GTimer

\* A handler at work on p, or a CPU that executes it, and nobody suspends it.
LEMMA SinTimerNiLargo ==
  ASSUME InvKernel, NEW p \in Pid, NEW c \in CPUs, NEW u, DeCpu(u, p, c)
  PROVE  ~Suspende(p) /\ ~LargoTrae(p) /\ Vivo(p, {"READY", "EXECUTE", "BLOCKED"})
<1>1. ManoCpu(p) /\ ManoPlanificador(p)
  BY DEF InvKernel, InvProcesos, EnOrden, EnMano
<1>2. Vivo(p, {"READY", "EXECUTE", "BLOCKED"})
  BY <1>1 DEF DeCpu, ManoCpu, Maneja, EstadoEn, Vivo
<1>3. ~LargoTrae(p)
  BY <1>1, <1>2 DEF ManoPlanificador, Vivo
<1>4. ~Suspende(p)
  BY <1>1 DEF DeCpu, ManoCpu, ManoPlanificador, Maneja, Vivo
<1> QED
  BY <1>2, <1>3, <1>4

\* Nobody uses a process whose place is changing.
LEMMA UsadoEnSuLugar ==
  ASSUME InvKernel, NEW p \in Pid, NEW u \in UsanMemoria(p)
  PROVE  ~Liberado(p) /\ ~Bajando(p) /\ ~LargoTrae(p)
<1>1. ManoCpu(p) /\ ManoPlanificador(p) /\ UnaMano(p) /\ EjecutaTiene
  BY DEF InvKernel, InvCpus, InvProcesos, EnOrden, EnMano
<1>2. ASSUME NEW d \in CPUs, manejador[d].pid = p, manejador[d].pc \in PCsFin
      PROVE  Maneja(d, p) /\ Ocupa(d, p) /\ Vivo(p, {"EXECUTE", "BLOCKED"})
  BY <1>1, <1>2 DEF Maneja, Ocupa, PCsFin, ManoCpu, EstadoEn, Vivo
<1>3. CASE \E c \in CPUs : DeCpu(u, p, c)
  <2>1. PICK c \in CPUs : DeCpu(u, p, c)
    BY <1>3
  <2>2. ~Suspende(p) /\ ~LargoTrae(p)
    BY <2>1, SinTimerNiLargo
  <2>3. ASSUME NEW d \in CPUs, manejador[d].pid = p, manejador[d].pc \in PCsFin PROVE FALSE
    <3>1. Ocupa(d, p) /\ Ocupa(c, p)
      BY <1>2, <2>1, <2>3 DEF DeCpu, Ocupa
    <3>2. d = c
      BY <1>1, <3>1 DEF UnaMano
    <3> QED
      BY <1>1, <2>1, <2>3, <3>2, ConstantesOK DEF DeCpu, EjecutaTiene, PCsFin, Pid, NINGUNO
  <2> QED
    BY <2>2, <2>3 DEF Liberado, Bajando, Suspende
<1>4. CASE \E n \in Numero : u = <<"baja", n>> /\ temporizador[p][n].pc = "suspende"
  <2>1. PICK n \in Numero : temporizador[p][n].pc = "suspende"
    BY <1>4
  <2>2. Vivo(p, {"BLOCKED"}) /\ \A c \in CPUs : ~Maneja(c, p)
    BY <1>1, <2>1 DEF ManoPlanificador, Suspende
  <2>3. ~Bajando(p)
    BY <2>1, UnTimer DEF Bajando
  <2> QED
    BY <1>1, <1>2, <2>2, <2>3 DEF Liberado, ManoPlanificador, Vivo
<1>5. CASE \E e \in {"SUSP_READY", "NEW"} :
             /\ u = <<"sube", e>> /\ largo.pc \in {"susp", "new"} /\ Esta(cola[e], p)
  <2>1. PICK e \in {"SUSP_READY", "NEW"} : largo.pc \in {"susp", "new"} /\ Esta(cola[e], p)
    BY <1>5
  <2>2. Vivo(p, {e})
    BY <2>1, EnColaEsDe
  <2> QED
    BY <1>1, <1>2, <2>1, <2>2 DEF Liberado, Bajando, LargoTrae, Suspende, ManoPlanificador, Vivo
<1> QED
  BY <1>3, <1>4, <1>5, QuienUsa DEF DeCpu

\* Two uses of the same process are the same.
LEMMA UnSoloUso ==
  ASSUME InvKernel, NEW p \in Pid, NEW u \in UsanMemoria(p), NEW v \in UsanMemoria(p)
  PROVE  u = v
<1>1. ManoPlanificador(p)
  BY DEF InvKernel, InvProcesos, EnOrden, EnMano
<1> DEFINE Timer(w) == \E n \in Numero : w = <<"baja", n>> /\ temporizador[p][n].pc = "suspende"
           Sube(w) == \E e \in {"SUSP_READY", "NEW"} :
                        /\ w = <<"sube", e>> /\ Esta(cola[e], p)
                        /\ largo.pc = IF e = "NEW" THEN "new" ELSE "susp"
<1>2. \A w \in UsanMemoria(p) : (\E c \in CPUs : DeCpu(w, p, c)) \/ Timer(w) \/ Sube(w)
  BY QuienUsa DEF DeCpu
<1>3. ASSUME NEW w, \E c \in CPUs : DeCpu(w, p, c)
      PROVE  ~Suspende(p) /\ Vivo(p, {"READY", "EXECUTE", "BLOCKED"})
  BY <1>3, SinTimerNiLargo
<1>4. ASSUME NEW w, Timer(w) PROVE Suspende(p) /\ Vivo(p, {"BLOCKED"})
  BY <1>1, <1>4 DEF Suspende, ManoPlanificador
<1>5. ASSUME NEW w, Sube(w) PROVE Vivo(p, {"SUSP_READY", "NEW"})
  BY <1>5, EnColaEsDe DEF Vivo
<1>6. ASSUME Timer(u), Timer(v) PROVE u = v
  BY <1>6, UnTimer
<1>7. ASSUME Sube(u), Sube(v) PROVE u = v
  BY <1>7
<1>8. ASSUME \E c \in CPUs : DeCpu(u, p, c), \E d \in CPUs : DeCpu(v, p, d) PROVE u = v
  BY <1>8, UnaCpuUsa
<1> HIDE DEF Timer, Sube
<1> QED
  BY <1>2, <1>3, <1>4, <1>5, <1>6, <1>7, <1>8 DEF Vivo

\* The process is where each use takes it to be.
LEMMA UsoEnSuLugar ==
  ASSUME InvKernel, InvResidencia, NEW p \in Pid, NEW u \in UsanMemoria(p)
  PROVE  memoria[p] = DondeLaUsa(u)
<1>1. memoria[p] = LugarDe(p)
  BY UsadoEnSuLugar DEF InvResidencia, LugarEsperado
<1>2. CASE \E c \in CPUs : DeCpu(u, p, c)
  BY <1>1, <1>2, SinTimerNiLargo DEF DeCpu, LugarDe, Vivo, DondeLaUsa
<1>3. CASE \E n \in Numero : u = <<"baja", n>> /\ temporizador[p][n].pc = "suspende"
  <2>1. Vivo(p, {"BLOCKED"})
    BY <1>3 DEF Suspende, ManoPlanificador, InvKernel, InvProcesos, EnOrden, EnMano
  <2> QED
    BY <1>1, <1>3, <2>1 DEF LugarDe, Vivo, DondeLaUsa
<1>4. CASE \E e \in {"SUSP_READY", "NEW"} : u = <<"sube", e>> /\ Esta(cola[e], p)
  BY <1>1, <1>4, EnColaEsDe DEF LugarDe, Vivo, DondeLaUsa
<1> QED
  BY <1>2, <1>3, <1>4, QuienUsa DEF DeCpu

\* The memory module is asked for one thing at a time about a process, which is
\* where the request takes it to be, and by nobody while its program runs.
THEOREM UnoPorVezEnMemoria == ASSUME Regimen PROVE Spec => []UnoEnMemoria
<1>1. Init => InvResidencia
  BY InicioResidencia
<1>2. InvKernel /\ InvResidencia /\ [Next]_vars => InvResidencia'
  BY PasoResidencia
<1>3. InvKernel /\ InvResidencia => UnoEnMemoria
  BY UsoEnSuLugar, UnSoloUso DEF UnoEnMemoria
<1> QED
  BY <1>1, <1>2, <1>3, InvKernelSiempre, PTL DEF Spec

---------------------------------------------------------------------------
(* The life of a process: what CicloDeVida sees. *)

\* The sum that CicloDeVida takes is the sum the kernel takes.
LEMMA SumaIgual ==
  ASSUME NEW f
  PROVE  Vida!SumFunction(f) = SumFunction(f)
BY DEF Vida!SumFunction, Vida!SumFunctionOnSet, Vida!FoldFunctionOnSet,
       Vida!MapThenFoldSet, SumFunction, SumFunctionOnSet, FoldFunctionOnSet,
       MapThenFoldSet

\* The invariant under which a step of the kernel is one of the life cycle.
InvVida == InvKernel /\ InvResidencia /\ EjecutaEnCpu

\* What CicloDeVida sees of p does not change.
VisibleIgual(p) ==
  EstadoVisible(p)' = EstadoVisible(p) /\ TamVisible(p)' = TamVisible(p)

\* A step is not seen of p if nothing that decides its state moves.
LEMMA VisibleSigue ==
  ASSUME NEW p, p >= pidCounter' <=> p >= pidCounter,
         mapa'[p] = NADA <=> mapa[p] = NADA,
         mapa[p] # NADA => mapa'[p].estado = mapa[p].estado /\ mapa'[p].tam = mapa[p].tam,
         Liberado(p)' <=> Liberado(p), Bajando(p)' <=> Bajando(p),
         LargoTrae(p)' <=> LargoTrae(p)
  PROVE  VisibleIgual(p)
<1>1. EstadoVisible(p)' = EstadoVisible(p)
  BY DEF EstadoVisible, Liberado, Bajando, LargoTrae
<1>2. EstadoVisible(p) \notin {"SIN_CREAR", "EXIT"} => mapa[p] # NADA
  BY DEF EstadoVisible
<1> QED
  BY <1>1, <1>2 DEF VisibleIgual, TamVisible

\* The life cycle stands still.
LEMMA VidaQuieta ==
  ASSUME \A p \in Pid : VisibleIgual(p)
  PROVE  UNCHANGED Vida!vida
BY DEF VisibleIgual, Vida!vida

\* One process changes its state.
LEMMA VidaCambia ==
  ASSUME NEW p \in Pid, \A q \in Pid \ {p} : VisibleIgual(q),
         NEW de, NEW a, EstadoVisible(p) = de, EstadoVisible(p)' = a,
         TamVisible(p)' = TamVisible(p)
  PROVE  Vida!Cambiar(p, de, a)
BY DEF VisibleIgual, Vida!Cambiar

\* What is seen of a process of the table that nobody is moving.
LEMMA VisibleAsi ==
  ASSUME NEW p, ~(p >= pidCounter), mapa[p] # NADA, ~Liberado(p), ~Bajando(p), ~LargoTrae(p)
  PROVE  EstadoVisible(p) = mapa[p].estado
BY DEF EstadoVisible, Liberado, Bajando, LargoTrae

\* Its frames, until it is freed.
LEMMA TamAsi ==
  ASSUME NEW p \in Pid, ~(p >= pidCounter), mapa[p] # NADA, ~Liberado(p),
         mapa \in [Pid -> Procesos \cup {NADA}]
  PROVE  TamVisible(p) = mapa[p].tam
<1>1. mapa[p].estado \in Estados
  BY DEF Procesos
<1>2. EstadoVisible(p) \notin {"SIN_CREAR", "EXIT"}
  BY <1>1 DEF EstadoVisible, Liberado, Estados
<1> QED
  BY <1>2 DEF TamVisible

\* The frames that are taken are those of the resident processes.
LEMMA ResidentesSon ==
  ASSUME InvKernel, InvResidencia
  PROVE  Vida!Residentes = {p \in Pid : memoria[p] = "ram" /\ mapa[p] # NADA}
<1> USE DEF InvKernel
<1>1. ASSUME NEW p \in Pid
      PROVE  EstadoVisible(p) \in {"READY", "EXECUTE", "BLOCKED"}
               <=> memoria[p] = "ram" /\ mapa[p] # NADA
  <2>1. memoria[p] = LugarEsperado(p) /\ EnOrden(p)
    BY DEF InvResidencia, InvProcesos
  <2>2. CASE p >= pidCounter
    BY <2>1, <2>2 DEF EnOrden, EnMano, SinCrear, EstadoVisible
  <2>3. CASE ~(p >= pidCounter) /\ (mapa[p] = NADA \/ Liberado(p))
    BY <2>1, <2>3 DEF EstadoVisible, LugarEsperado, Liberado
  <2>4. CASE ~(p >= pidCounter) /\ mapa[p] # NADA /\ ~Liberado(p) /\ Bajando(p)
    BY <2>1, <2>4 DEF EstadoVisible, LugarEsperado, Liberado, Bajando
  <2>5. CASE ~(p >= pidCounter) /\ mapa[p] # NADA /\ ~Liberado(p) /\ ~Bajando(p) /\ LargoTrae(p)
    BY <2>1, <2>5 DEF EstadoVisible, LugarEsperado, Liberado, Bajando, LargoTrae
  <2>6. CASE ~(p >= pidCounter) /\ mapa[p] # NADA /\ ~Liberado(p) /\ ~Bajando(p) /\ ~LargoTrae(p)
    <3>1. EstadoVisible(p) = mapa[p].estado /\ mapa[p].estado \in Estados
      BY <2>6, VisibleAsi, TiposDeProcesos DEF Procesos
    <3> QED
      BY <2>1, <2>6, <3>1 DEF LugarEsperado, LugarDe, Estados
  <2> QED
    BY <2>2, <2>3, <2>4, <2>5, <2>6
<1> QED
  BY <1>1 DEF Vida!Residentes, Vida!En

\* The frames given in the life cycle are those the memory module has taken.
LEMMA MarcosSonOcupados ==
  ASSUME InvKernel, InvResidencia
  PROVE  Vida!Marcos(Vida!Residentes) = Ocupados
<1> USE DEF InvKernel
<1> DEFINE R == {p \in Pid : memoria[p] = "ram" /\ mapa[p] # NADA}
<1>1. ASSUME NEW p \in R PROVE TamVisible(p) = mapa[p].tam
  <2>1. EnOrden(p) /\ memoria[p] = LugarEsperado(p)
    BY DEF InvResidencia, InvProcesos
  <2>2. ~(p >= pidCounter) /\ ~Liberado(p)
    BY <2>1 DEF EnOrden, EnMano, SinCrear, LugarEsperado
  <2> QED
    BY <2>2, TamAsi, TiposDeProcesos
<1>2. [p \in R |-> [q \in Pid |-> TamVisible(q)][p]] = [p \in R |-> mapa[p].tam]
  BY <1>1
<1>3. Vida!Marcos(Vida!Residentes) = Vida!SumFunction([p \in R |-> mapa[p].tam])
  BY <1>2, ResidentesSon DEF Vida!Marcos
<1> QED
  BY <1>3, SumaIgual DEF Ocupados

\* Both modules count the same way.
LEMMA CardinalIgual ==
  ASSUME NEW S
  PROVE  Vida!Cardinality(S) = Cardinality(S)
BY DEF Vida!Cardinality, Cardinality

\* When a dispatch ends, fewer processes are in EXECUTE than there are CPUs:
\* each has its own, and none of them is the one of the process dispatched.
LEMMA HayProcesador ==
  ASSUME InvKernel, EjecutaEnCpu, NEW p \in Pid, corto.pc = "cambia", corto.pid = p
  PROVE  Vida!Cardinality(Vida!En({"EXECUTE"})) < Cardinality(CPUs)
<1> USE DEF InvKernel
<1> DEFINE quien(c) == IF ejecuta[c].pid # NINGUNO THEN ejecuta[c].pid ELSE manejador[c].pid
           E == Vida!En({"EXECUTE"})
           Q == {quien(c) : c \in CPUs}
<1>1. Vivo(p, {"READY"}) /\ corto.cpu \in CPUs /\ ejecuta[corto.cpu].pid = p
  BY DEF InvProcesos, EnOrden, EnMano, ManoPlanificador, CortoTrae, Despacha
<1>2. p \in Q
  BY <1>1 DEF NINGUNO, Pid
<1>3. ASSUME NEW q \in Pid, EstadoVisible(q) = "EXECUTE"
      PROVE  q \in Q /\ q # p
  <2>1. Vivo(q, {"EXECUTE"})
    BY <1>3 DEF EstadoVisible, Vivo
  <2>2. PICK c \in CPUs : Ocupa(c, q)
    BY <2>1 DEF EjecutaEnCpu
  <2>3. q = quien(c)
    BY <2>2 DEF Ocupa, InvCpus, EjecutaTiene, NINGUNO, Pid
  <2> QED
    BY <1>1, <2>1, <2>3 DEF Vivo
<1>4. E \subseteq Q \ {p}
  BY <1>3 DEF Vida!En
<1> HIDE DEF E, Q
<1>5. IsFiniteSet(Q) /\ Cardinality(Q) <= Cardinality(CPUs)
  <2> DEFINE f == [c \in CPUs |-> quien(c)]
  <2>1. f \in Surjection(CPUs, Q)
    BY DEF Surjection, Q
  <2> QED
    BY <2>1, FS_Surjection, ConstantesOK
<1>6. IsFiniteSet(Q \ {p}) /\ Cardinality(Q \ {p}) = Cardinality(Q) - 1
  BY <1>2, <1>5, FS_RemoveElement
<1>7. IsFiniteSet(E) /\ Cardinality(E) <= Cardinality(Q \ {p})
  BY <1>4, <1>6, FS_Subset
<1>8. Cardinality(E) \in Nat /\ Cardinality(Q) \in Nat /\ Cardinality(CPUs) \in Nat
  BY <1>5, <1>7, FS_CardinalityType, ConstantesOK
<1>9. Cardinality(E) < Cardinality(CPUs)
  BY <1>5, <1>6, <1>7, <1>8
<1> QED
  BY <1>9, CardinalIgual DEF E

---------------------------------------------------------------------------
(* Every step of the kernel is a step of the life cycle, or is not seen. *)

\* A step of the life cycle, or none.
PasoVida == [Vida!Next]_Vida!vida

\* A step of which nothing is seen is a stutter of the life cycle.
LEMMA VidaSigue == ASSUME \A p \in Pid : VisibleIgual(p) PROVE PasoVida
BY VidaQuieta DEF PasoVida

\* Who does not come to EXECUTE keeps its CPU, if it is still in EXECUTE.
LEMMA EjecutaSigue ==
  ASSUME EjecutaEnCpu,
         \A q \in Pid : Vivo(q, {"EXECUTE"})' => Vivo(q, {"EXECUTE"}),
         \A q \in Pid, c \in CPUs : Ocupa(c, q) /\ Vivo(q, {"EXECUTE"})' => Ocupa(c, q)'
  PROVE  EjecutaEnCpu'
BY DEF EjecutaEnCpu

\* A step that changes neither a process nor who has it.
LEMMA VidaIgual ==
  ASSUME InvVida, UNCHANGED <<mapa, pidCounter, manejador, temporizador, largo, ejecuta>>
  PROVE  EjecutaEnCpu' /\ PasoVida
<1>1. \A p \in Pid : VisibleIgual(p)
  BY VisibleSigue DEF Liberado, Bajando, LargoTrae
<1>2. EjecutaEnCpu'
  BY EjecutaSigue DEF InvVida, Vivo, Ocupa
<1> QED
  BY <1>1, <1>2, VidaSigue

\* The end of a dispatch is Despachar; the rest of a round is not seen.
LEMMA PasoCortoVida ==
  ASSUME InvVida, PasoCorto
  PROVE  EjecutaEnCpu' /\ PasoVida
<1> USE DEF InvVida, InvKernel
<1>0. UNCHANGED <<pidCounter, manejador, temporizador, largo>>
  BY DEF PasoCorto, EsperarCpu, EsperarReady, ElegirCpu, ElegirPid, LeerPcb, EnviarProceso,
         ReadyAExecute, CambiarAExecute, Panico
<1>1. CASE UNCHANGED <<mapa, ejecuta>>
  BY <1>0, <1>1, VidaIgual
<1>2. CASE EnviarProceso
  <2>1. /\ mapa' = mapa /\ corto.pc = "envia"
        /\ ejecuta' = [ejecuta EXCEPT ![corto.cpu] = [pid |-> corto.pid, PC |-> corto.PC]]
    BY <1>2 DEF EnviarProceso
  <2>2. corto.cpu \in CPUs /\ ejecuta[corto.cpu].pid = NINGUNO
    BY <2>1 DEF InvCpus, CortoTiene
  <2>3. \A c \in CPUs : c # corto.cpu => ejecuta'[c] = ejecuta[c]
    BY <2>1, TiposDeCpus
  <2>4. ASSUME NEW q \in Pid, NEW c \in CPUs, Ocupa(c, q) PROVE Ocupa(c, q)'
    BY <1>0, <2>2, <2>3, <2>4 DEF Ocupa, NINGUNO, Pid
  <2>5. EjecutaEnCpu'
    BY <2>1, <2>4, EjecutaSigue DEF Vivo
  <2>6. \A p \in Pid : VisibleIgual(p)
    BY <1>0, <2>1, VisibleSigue DEF Liberado, Bajando, LargoTrae
  <2> QED
    BY <2>5, <2>6, VidaSigue
<1>3. CASE CambiarAExecute
  <2>1. corto.pc = "cambia"
    BY <1>3 DEF CambiarAExecute
  <2>2. PICK p \in Pid : p = corto.pid
    BY <2>1 DEF InvTipos, Nombran, CortoNombra
  <2>3. /\ EnOrden(p) /\ Vivo(p, {"READY"})
        /\ corto.cpu \in CPUs /\ ejecuta[corto.cpu].pid = p
    BY <2>1, <2>2 DEF InvProcesos, EnOrden, EnMano, ManoPlanificador, CortoTrae, Despacha
  <2>4. mapa' = ConEstado(p, "EXECUTE") /\ ejecuta' = ejecuta
    BY <1>3, <2>2, <2>3 DEF CambiarAExecute, Vivo
  <2>5. /\ mapa'[p] # NADA /\ mapa'[p].estado = "EXECUTE" /\ mapa'[p].tam = mapa[p].tam
        /\ \A q \in Pid \ {p} : mapa'[q] = mapa[q]
    BY <2>3, <2>4, ConEstadoExacto, TiposDeProcesos DEF Estados, Vivo
  <2>6. ~(p >= pidCounter) /\ ~Liberado(p) /\ ~Bajando(p) /\ ~LargoTrae(p)
    BY <2>3, EstadoEnDos DEF EnOrden, EnMano, ManoCpu, ManoPlanificador, SinCrear, Vivo,
       Liberado, Maneja, PCsFin, Bajando, Suspende
  <2>7. \A q \in Pid \ {p} : VisibleIgual(q)
    BY <1>0, <2>5, VisibleSigue DEF Liberado, Bajando, LargoTrae
  <2>8. EstadoVisible(p) = "READY" /\ TamVisible(p) = mapa[p].tam
    BY <2>3, <2>6, VisibleAsi, TamAsi, TiposDeProcesos DEF Vivo
  <2>9. EstadoVisible(p)' = "EXECUTE"
    BY <1>0, <2>5, <2>6 DEF EstadoVisible, Liberado, Bajando, LargoTrae
  <2>10. TamVisible(p)' = TamVisible(p)
    BY <2>5, <2>8, <2>9 DEF TamVisible
  <2>11. Vida!Cambiar(p, "READY", "EXECUTE")
    BY <2>7, <2>8, <2>9, <2>10, VidaCambia
  <2>h. Vida!Cardinality(Vida!En({"EXECUTE"})) < Cardinality(CPUs)
    BY <2>1, <2>2, HayProcesador
  <2>12. Vida!Despachar(p)
    BY <2>11, <2>h DEF Vida!Despachar
  <2>13. EjecutaEnCpu'
    <3>1. \A q \in Pid \ {p} : Vivo(q, {"EXECUTE"})' => Vivo(q, {"EXECUTE"})
      BY <2>5 DEF Vivo
    <3>2. PICK c \in CPUs : Ocupa(c, p)'
      <4>1. PICK c \in CPUs : c = corto.cpu
        BY <2>3
      <4>2. Ocupa(c, p)'
        BY <2>3, <2>4, <4>1 DEF Ocupa
      <4> QED
        BY <4>2
    <3>3. \A q \in Pid, d \in CPUs : Ocupa(d, q) => Ocupa(d, q)'
      BY <1>0, <2>4 DEF Ocupa
    <3>4. ASSUME NEW q \in Pid, Vivo(q, {"EXECUTE"})' PROVE \E d \in CPUs : Ocupa(d, q)'
      <4>1. CASE q = p
        BY <3>2, <4>1
      <4>2. CASE q # p
        BY <3>1, <3>3, <3>4, <4>2 DEF EjecutaEnCpu
      <4> QED
        BY <4>1, <4>2
    <3> QED
      BY <3>4 DEF EjecutaEnCpu
  <2> QED
    BY <2>12, <2>13 DEF PasoVida, Vida!Next
<1> QED
  BY <1>1, <1>2, <1>3 DEF PasoCorto, EsperarCpu, EsperarReady, ElegirCpu, ElegirPid, LeerPcb,
     ReadyAExecute, Panico

\* The memory module lets the head of SUSP_READY or of NEW in: Entrar.
LEMMA AdmitirVida ==
  ASSUME InvVida, NEW e \in {"SUSP_READY", "NEW"}, NEW s \in PorTamanio(e),
         cola[e] # <<>>, cola' = [cola EXCEPT ![e] = s], largo.pc \in {"susp", "new"},
         UNCHANGED <<mapa, pidCounter, manejador, temporizador, ejecuta, esperaIO>>,
         \/ /\ Cabe(s[1])
            /\ largo' = [pc |-> IF e = "NEW" THEN "new_mueve" ELSE "susp_mueve", pid |-> s[1]]
         \/ largo' = [largo EXCEPT !.pc = "espera"]
  PROVE  EjecutaEnCpu' /\ PasoVida
<1> USE DEF InvVida, InvKernel
<1>1. \A q \in Pid : ~LargoTrae(q)
  BY DEF LargoTrae
<1>2. EjecutaEnCpu'
  BY EjecutaSigue DEF Vivo, Ocupa
<1>3. CASE largo' = [largo EXCEPT !.pc = "espera"]
  <2>1. \A q \in Pid : ~LargoTrae(q)'
    BY <1>3, TiposDeLugar DEF LargoTrae
  <2>2. \A q \in Pid : VisibleIgual(q)
    BY <1>1, <2>1, VisibleSigue DEF Liberado, Bajando
  <2> QED
    BY <1>2, <2>2, VidaSigue
<1>4. CASE /\ Cabe(s[1])
           /\ largo' = [pc |-> IF e = "NEW" THEN "new_mueve" ELSE "susp_mueve", pid |-> s[1]]
  <2>e. e \in Estados \ {"EXECUTE", "BLOCKED"}
    BY DEF Estados
  <2>0. s[1] \in Pid /\ Esta(cola[e], s[1])
    BY <2>e, OrdenarCola, TiposDeProcesos DEF PorTamanio, Ordenadas, InvProcesos
  <2>1. PICK p \in Pid : p = s[1] /\ Esta(cola[e], p)
    BY <2>0
  <2>2. EnOrden(p) /\ mapa[p] # NADA /\ mapa[p].estado = e
    BY <2>e, <2>1, AlEstarEnCola DEF InvProcesos, EnOrden
  <2>3. ~(p >= pidCounter) /\ ~Liberado(p) /\ ~Bajando(p)
    BY <2>2, EstadoEnDos DEF EnOrden, EnMano, ManoCpu, ManoPlanificador, SinCrear, Vivo,
       Liberado, Maneja, PCsFin, Bajando, Suspende
  <2>4. LargoTrae(p)' /\ \A q \in Pid \ {p} : ~LargoTrae(q)'
    BY <1>4, <2>1 DEF LargoTrae
  <2>5. \A q \in Pid \ {p} : VisibleIgual(q)
    BY <1>1, <2>4, VisibleSigue DEF Liberado, Bajando
  <2>6. EstadoVisible(p) = e /\ TamVisible(p) = mapa[p].tam
    BY <1>1, <2>2, <2>3, VisibleAsi, TamAsi, TiposDeProcesos
  <2>7. EstadoVisible(p)' = "READY"
    BY <2>2, <2>3, <2>4 DEF EstadoVisible, Liberado, Bajando, LargoTrae
  <2>8. TamVisible(p)' = TamVisible(p)
    BY <2>6, <2>7 DEF TamVisible
  <2>9. Vida!Cambiar(p, e, "READY")
    BY <2>5, <2>6, <2>7, <2>8, VidaCambia
  <2>10. Vida!Marcos(Vida!Residentes) + TamVisible(p) <= Capacidad
    BY <1>4, <2>1, <2>6, MarcosSonOcupados DEF Cabe
  <2>11. Vida!Entrar(p, e)
    BY <2>9, <2>10 DEF Vida!Entrar
  <2> QED
    BY <1>2, <2>11 DEF PasoVida, Vida!Next
<1> QED
  BY <1>3, <1>4

\* Its arrival at READY is not seen: it is seen there since it was let in.
LEMMA LlegarVida ==
  ASSUME InvVida, NEW p \in Pid, p = largo.pid, NEW e \in {"SUSP_READY", "NEW"},
         largo.pc = IF e = "NEW" THEN "new_mueve" ELSE "susp_mueve",
         mapa' = ConEstado(p, "READY"), largo'.pc \in {"susp", "new"},
         UNCHANGED <<pidCounter, manejador, temporizador, ejecuta>>
  PROVE  EjecutaEnCpu' /\ PasoVida
<1> USE DEF InvVida, InvKernel
<1>1. mapa[p] # NADA /\ mapa[p].estado = e /\ ~(p >= pidCounter)
  BY LargoEncuentra
<1>2. LargoTrae(p) /\ \A q \in Pid \ {p} : ~LargoTrae(q)
  BY DEF LargoTrae
<1>3. \A q \in Pid : ~LargoTrae(q)'
  BY DEF LargoTrae
<1>4. ~Liberado(p) /\ ~Bajando(p)
  BY <1>1, EstadoEnDos DEF Liberado, Bajando, Maneja, PCsFin, Suspende, InvProcesos,
     EnOrden, EnMano, ManoCpu, ManoPlanificador, Vivo
<1>5. /\ mapa'[p] # NADA /\ mapa'[p].estado = "READY" /\ mapa'[p].tam = mapa[p].tam
      /\ \A q \in Pid \ {p} : mapa'[q] = mapa[q]
  BY <1>1, ConEstadoExacto, TiposDeProcesos DEF Estados
<1>6. EstadoVisible(p) = "READY"
  BY <1>1, <1>2, <1>4 DEF EstadoVisible, Liberado, Bajando, LargoTrae
<1>7. EstadoVisible(p)' = "READY"
  BY <1>1, <1>3, <1>4, <1>5 DEF EstadoVisible, Liberado, Bajando, LargoTrae
<1>8. VisibleIgual(p)
  BY <1>5, <1>6, <1>7 DEF VisibleIgual, TamVisible
<1>9. \A q \in Pid \ {p} : VisibleIgual(q)
  BY <1>2, <1>3, <1>5, VisibleSigue DEF Liberado, Bajando
<1>10. EjecutaEnCpu'
  BY <1>5, EjecutaSigue DEF Vivo, Ocupa
<1> QED
  BY <1>8, <1>9, <1>10, VidaSigue

\* The long-term planner: Entrar is seen when the memory module admits.
LEMMA PasoLargoVida ==
  ASSUME InvVida, PasoLargo
  PROVE  EjecutaEnCpu' /\ PasoVida
<1> USE DEF InvVida, InvKernel
<1>1. CASE DespertarLargo \/ SuspReadyVacia \/ NewVacia
  <2>1. UNCHANGED <<pidCounter, mapa, temporizador, manejador, ejecuta>>
    BY <1>1 DEF DespertarLargo, SuspReadyVacia, NewVacia
  <2>2. \A p \in Pid : ~LargoTrae(p) /\ ~LargoTrae(p)'
    BY <1>1, TiposDeLugar DEF DespertarLargo, SuspReadyVacia, NewVacia, LargoTrae
  <2>3. \A p \in Pid : VisibleIgual(p)
    BY <2>1, <2>2, VisibleSigue DEF Liberado, Bajando
  <2>4. EjecutaEnCpu'
    BY <2>1, EjecutaSigue DEF Vivo, Ocupa
  <2> QED
    BY <2>3, <2>4, VidaSigue
<1>2. CASE IntentarReanudar
  BY <1>2, AdmitirVida DEF IntentarReanudar, Readmite
<1>3. CASE IntentarIniciar
  BY <1>3, AdmitirVida DEF IntentarIniciar
<1>4. CASE SuspReadyAReady
  <2>0. PICK p \in Pid : p = largo.pid
    BY <1>4 DEF SuspReadyAReady, InvTipos, Nombran, LargoNombra
  <2>1. mapa[p] # NADA /\ Movible("SUSP_READY", "READY", p) /\ largo.pc = "susp_mueve"
    BY <1>4, <2>0, LargoEncuentra DEF SuspReadyAReady
  <2>2. largo'.pc = "susp"
    BY <1>4, <2>0, <2>1, TiposDeLugar DEF SuspReadyAReady
  <2> QED
    BY <1>4, <2>0, <2>1, <2>2, LlegarVida DEF SuspReadyAReady
<1>5. CASE NewAReady
  <2>0. PICK p \in Pid : p = largo.pid
    BY <1>5 DEF NewAReady, InvTipos, Nombran, LargoNombra
  <2>1. mapa[p] # NADA /\ Movible("NEW", "READY", p) /\ largo.pc = "new_mueve"
    BY <1>5, <2>0, LargoEncuentra DEF NewAReady
  <2>2. largo'.pc = "new"
    BY <1>5, <2>0, <2>1, TiposDeLugar DEF NewAReady
  <2> QED
    BY <1>5, <2>0, <2>1, <2>2, LlegarVida DEF NewAReady
<1> QED
  BY <1>1, <1>2, <1>3, <1>4, <1>5 DEF PasoLargo

\* One timer at most is suspending p: it holds the mutex of p.
LEMMA UnSoloTimer ==
  ASSUME InvTipos, NEW p \in Pid, NEW n \in Numero, NEW k \in Numero,
         temporizador[p][n].pc \in {"suspende", "mueve"},
         temporizador[p][k].pc \in {"suspende", "mueve"}
  PROVE  n = k
BY DEF InvTipos, Duenos, TimerEsDueno, GTimer

\* A process changes between states that are not EXECUTE: the CPUs are as before.
LEMMA EjecutaIgual ==
  ASSUME EjecutaEnCpu, UNCHANGED <<manejador, ejecuta>>, NEW p \in Pid,
         \A q \in Pid \ {p} : mapa'[q] = mapa[q], ~Vivo(p, {"EXECUTE"})'
  PROVE  EjecutaEnCpu'
BY EjecutaSigue DEF Vivo, Ocupa

\* A suspension is seen when the memory module has the pages in swap.
LEMMA PasoTimerVida ==
  ASSUME InvVida, NEW p \in Pid, NEW n \in Numero, PasoTimer(p, n)
  PROVE  EjecutaEnCpu' /\ PasoVida
<1> USE DEF InvVida, InvKernel
<1>0. UNCHANGED <<pidCounter, manejador, largo, ejecuta>>
  BY DEF PasoTimer, DespertarTimer, SuspenderEnMemoria, BlockedASuspBlocked
<1>1. CASE DespertarTimer(p, n)
  <2>1. PICK x \in {SinTimer, [temporizador[p][n] EXCEPT !.pc = "suspende"]} :
          temporizador' = [temporizador EXCEPT ![p][n] = x]
    BY <1>1 DEF DespertarTimer
  <2>2. temporizador[p][n].pc = "duerme" /\ mapa' = mapa
    BY <1>1 DEF DespertarTimer
  <2>3. x.pc # "mueve"
    <3>1. CASE x = SinTimer
      BY <3>1 DEF SinTimer
    <3>2. CASE x = [temporizador[p][n] EXCEPT !.pc = "suspende"]
      BY <2>2, <3>2
    <3> QED
      BY <2>1, <3>1, <3>2
  <2>4. /\ \A q \in Pid \ {p} : temporizador'[q] = temporizador[q]
        /\ temporizador'[p][n] = x
        /\ \A k \in Numero \ {n} : temporizador'[p][k] = temporizador[p][k]
    BY <2>1, TimerExacto
  <2>5. \A q \in Pid : Bajando(q)' <=> Bajando(q)
    BY <2>2, <2>3, <2>4 DEF Bajando
  <2>6. \A q \in Pid : VisibleIgual(q)
    BY <1>0, <2>2, <2>5, VisibleSigue DEF Liberado, LargoTrae
  <2>7. EjecutaEnCpu'
    BY <1>0, <2>2, EjecutaSigue DEF Vivo, Ocupa
  <2> QED
    BY <2>6, <2>7, VidaSigue
<1>2. CASE SuspenderEnMemoria(p, n)
  <2>1. Suspende(p) /\ temporizador[p][n].pc = "suspende" /\ mapa' = mapa
    BY <1>2 DEF SuspenderEnMemoria, Suspende
  <2>2. ~Liberado(p) /\ ~LargoTrae(p) /\ mapa[p] # NADA /\ mapa[p].estado = "BLOCKED"
        /\ ~(p >= pidCounter)
    BY <2>1, AlSuspender DEF Vivo, EnOrden, EnMano, SinCrear
  <2>3. ~Bajando(p)
    BY <2>1, UnSoloTimer DEF Bajando
  <2>p. PICK x : x = [temporizador[p][n] EXCEPT !.pc = "mueve"]
    OBVIOUS
  <2>4. temporizador' = [temporizador EXCEPT ![p][n] = x]
    BY <1>2, <2>p DEF SuspenderEnMemoria
  <2>5. x.pc = "mueve"
    BY <2>p, TiposDeProcesos
  <2>6. Bajando(p)' /\ \A q \in Pid \ {p} : Bajando(q)' <=> Bajando(q)
    <3>1. /\ \A q \in Pid \ {p} : temporizador'[q] = temporizador[q]
          /\ temporizador'[p][n] = x
          /\ \A k \in Numero \ {n} : temporizador'[p][k] = temporizador[p][k]
      BY <2>4, TimerExacto
    <3> QED
      BY <2>5, <3>1 DEF Bajando
  <2>7. \A q \in Pid \ {p} : VisibleIgual(q)
    BY <1>0, <2>1, <2>6, VisibleSigue DEF Liberado, LargoTrae
  <2>8. EstadoVisible(p) = "BLOCKED" /\ TamVisible(p) = mapa[p].tam
    BY <2>2, <2>3, VisibleAsi, TamAsi, TiposDeProcesos
  <2>9. EstadoVisible(p)' = "SUSP_BLOCKED"
    BY <1>0, <2>1, <2>2, <2>6 DEF EstadoVisible, Liberado, Bajando, LargoTrae
  <2>10. TamVisible(p)' = TamVisible(p)
    BY <2>1, <2>8, <2>9 DEF TamVisible
  <2>11. Vida!Suspender(p)
    BY <2>7, <2>8, <2>9, <2>10, VidaCambia DEF Vida!Suspender
  <2>12. EjecutaEnCpu'
    BY <1>0, <2>1, EjecutaSigue DEF Vivo, Ocupa
  <2> QED
    BY <2>11, <2>12 DEF PasoVida, Vida!Next
<1>3. CASE BlockedASuspBlocked(p, n)
  <2>1. Suspende(p) /\ Bajando(p)
    BY <1>3 DEF BlockedASuspBlocked, Suspende, Bajando
  <2>2. /\ Vivo(p, {"BLOCKED"}) /\ EnOrden(p) /\ ~Liberado(p) /\ ~LargoTrae(p)
        /\ ~(p >= pidCounter)
    BY <2>1, AlSuspender DEF Vivo, EnOrden, EnMano, SinCrear
  <2>3. SoloEn(p, {"BLOCKED"})
    <3>1. \A c \in CPUs : ~Maneja(c, p)
      BY <2>1, <2>2 DEF EnOrden, EnMano, ManoPlanificador
    <3> QED
      BY <2>2, <3>1, AlEstarSuelto DEF EnOrden, Vivo
  <2>4. mapa' = ConEstado(p, "SUSP_BLOCKED")
    BY <1>3, <2>3 DEF BlockedASuspBlocked, Movible, SoloEn, Estados
  <2>5. /\ mapa'[p] # NADA /\ mapa'[p].estado = "SUSP_BLOCKED" /\ mapa'[p].tam = mapa[p].tam
        /\ \A q \in Pid \ {p} : mapa'[q] = mapa[q]
    BY <2>2, <2>4, ConEstadoExacto, TiposDeProcesos DEF Estados, Vivo
  <2>6. \A q \in Pid \ {p} : temporizador'[q] = temporizador[q]
    BY <1>3, TimerExacto DEF BlockedASuspBlocked
  <2>7. \A q \in Pid \ {p} : VisibleIgual(q)
    BY <1>0, <2>5, <2>6, VisibleSigue DEF Liberado, LargoTrae, Bajando
  <2>8. EstadoVisible(p) = "SUSP_BLOCKED"
    BY <2>1, <2>2 DEF EstadoVisible, Liberado, Bajando, LargoTrae, Vivo
  <2>9. EstadoVisible(p)' = "SUSP_BLOCKED"
    BY <1>0, <2>2, <2>5 DEF EstadoVisible, Liberado, Bajando, LargoTrae
  <2>10. VisibleIgual(p)
    BY <2>5, <2>8, <2>9 DEF VisibleIgual, TamVisible
  <2>11. EjecutaEnCpu'
    BY <1>0, <2>5, EjecutaIgual DEF Vivo
  <2> QED
    BY <2>7, <2>10, <2>11, VidaSigue
<1> QED
  BY <1>1, <1>2, <1>3 DEF PasoTimer

\* The end of an IO is Desbloquear.
LEMMA PasoFinIOVida ==
  ASSUME InvVida, NEW i \in Instancias, PasoFinIO(i)
  PROVE  EjecutaEnCpu' /\ PasoVida
<1> USE DEF InvVida, InvKernel
<1>0. UNCHANGED <<pidCounter, manejador, largo, temporizador, ejecuta>>
  BY DEF PasoFinIO, FinIOTomarLista, FinIOMirarProceso, SuspBlockedASuspReady,
     BlockedAReady, LiberarInstancia
<1>1. CASE FinIOTomarLista(i) \/ FinIOMirarProceso(i) \/ LiberarInstancia(i)
  <2>1. mapa' = mapa
    BY <1>1 DEF FinIOTomarLista, FinIOMirarProceso, LiberarInstancia
  <2> QED
    BY <1>0, <2>1, VidaIgual
<1>2. CASE SuspBlockedASuspReady(i) \/ BlockedAReady(i)
  <2>1. finIO[i].pc = "mueve"
    BY <1>2 DEF SuspBlockedASuspReady, BlockedAReady
  <2>2. PICK p \in Pid : p = finIO[i].pid
    BY <2>1 DEF InvTipos, Nombran, FinNombra
  <2>3. PICK e \in {"READY", "SUSP_READY"}, d \in {"BLOCKED", "SUSP_BLOCKED"} :
          /\ mapa[p].estado = d /\ d = (IF e = "READY" THEN "BLOCKED" ELSE "SUSP_BLOCKED")
          /\ mapa' = IF Movible(d, e, p) THEN ConEstado(p, e) ELSE mapa
    BY <1>2, <2>2 DEF SuspBlockedASuspReady, BlockedAReady
  <2>4. /\ mapa[p] # NADA /\ SoloEn(p, {d}) /\ Suelto(p) /\ ~LargoTrae(p)
        /\ ~(p >= pidCounter) /\ mutexProc[p] = GFinIO(i)
    BY <2>1, <2>2, <2>3, FinMovible
  <2>5. Movible(d, e, p)
    BY <2>3, <2>4 DEF SoloEn, Movible, Estados
  <2>6. /\ mapa'[p] # NADA /\ mapa'[p].estado = e /\ mapa'[p].tam = mapa[p].tam
        /\ \A q \in Pid \ {p} : mapa'[q] = mapa[q]
    BY <2>3, <2>4, <2>5, ConEstadoExacto, TiposDeProcesos DEF Estados
  <2>7. ~Liberado(p)
    BY <2>4 DEF Suelto, Liberado, Maneja, PCsFin
  <2>8. ~Bajando(p)
    BY <2>4 DEF Bajando, InvTipos, Duenos, TimerEsDueno, GTimer, GFinIO
  <2>9. \A q \in Pid \ {p} : VisibleIgual(q)
    BY <1>0, <2>6, VisibleSigue DEF Liberado, LargoTrae, Bajando
  <2>10. EstadoVisible(p) = d /\ TamVisible(p) = mapa[p].tam
    BY <2>3, <2>4, <2>7, <2>8, VisibleAsi, TamAsi, TiposDeProcesos
  <2>11. EstadoVisible(p)' = e
    BY <1>0, <2>4, <2>6, <2>7, <2>8 DEF EstadoVisible, Liberado, Bajando, LargoTrae
  <2>12. TamVisible(p)' = TamVisible(p)
    BY <2>6, <2>10, <2>11 DEF TamVisible
  <2>13. Vida!Cambiar(p, d, e)
    BY <2>9, <2>10, <2>11, <2>12, VidaCambia
  <2>14. Vida!Desbloquear(p)
    BY <2>3, <2>13 DEF Vida!Desbloquear
  <2>15. EjecutaEnCpu'
    BY <1>0, <2>6, EjecutaIgual DEF Vivo
  <2> QED
    BY <2>14, <2>15 DEF PasoVida, Vida!Next
<1> QED
  BY <1>1, <1>2 DEF PasoFinIO

\* A handler that goes on keeps its process on the CPU.
LEMMA EjecutaPasando ==
  ASSUME InvVida, NEW c \in CPUs, NEW s, Pasar(c, s), s \notin {"inactivo", "libera"},
         ejecuta' = ejecuta, \A q \in Pid : Vivo(q, {"EXECUTE"})' => Vivo(q, {"EXECUTE"})
  PROVE  EjecutaEnCpu'
<1>1. /\ manejador'[c].pc = s /\ manejador'[c].pid = manejador[c].pid
      /\ \A d \in CPUs \ {c} : manejador'[d] = manejador[d]
  BY PasoDeManejador DEF InvVida, InvKernel
<1>2. \A q \in Pid, d \in CPUs : Ocupa(d, q) => Ocupa(d, q)'
  BY <1>1 DEF Ocupa
<1> QED
  BY <1>2, EjecutaSigue DEF InvVida

\* One that lets its process go leaves it out of EXECUTE.
LEMMA EjecutaSoltando ==
  ASSUME InvVida, NEW c \in CPUs, NEW p \in Pid, p = manejador[c].pid,
         \A d \in CPUs \ {c} : manejador'[d] = manejador[d], ejecuta' = ejecuta,
         \A q \in Pid \ {p} : mapa'[q] = mapa[q], ~Vivo(p, {"EXECUTE"})'
  PROVE  EjecutaEnCpu'
<1>1. \A q \in Pid : Vivo(q, {"EXECUTE"})' => q # p /\ Vivo(q, {"EXECUTE"})
  BY DEF Vivo
<1>2. \A q \in Pid \ {p}, d \in CPUs : Ocupa(d, q) => Ocupa(d, q)'
  BY DEF Ocupa
<1> QED
  BY <1>1, <1>2, EjecutaSigue DEF InvVida

\* The steps of a handler that are not seen.
LEMMA PasandoVida ==
  ASSUME InvVida, NEW c \in CPUs, NEW s, Pasar(c, s), s \notin {"inactivo", "libera"},
         s \in PCsFin <=> manejador[c].pc \in PCsFin,
         UNCHANGED <<mapa, pidCounter, ejecuta, temporizador, largo>>
  PROVE  EjecutaEnCpu' /\ PasoVida
<1>1. \A q \in Pid : Liberado(q)' <=> Liberado(q)
  BY LiberadoPasando DEF InvVida, InvKernel
<1>2. \A q \in Pid : VisibleIgual(q)
  BY <1>1, VisibleSigue DEF Bajando, LargoTrae
<1>3. EjecutaEnCpu'
  BY EjecutaPasando DEF Vivo
<1> QED
  BY <1>2, <1>3, VidaSigue

\* The steps of a handler that move neither its process nor its pages.
LEMMA ManejadorVida ==
  ASSUME InvVida, NEW c \in CPUs,
         \/ MarcarLibre(c) \/ FinEnCola(c) \/ FinEnLog(c) \/ IOTomarLista(c) \/ IODescartar(c)
         \/ IOInexistente(c) \/ DumpMirar(c) \/ DumpBloquear(c) \/ EnviarDump(c)
         \/ InitAgregarNew(c) \/ InitReenviar(c)
  PROVE  EjecutaEnCpu' /\ PasoVida
<1> USE DEF InvVida, InvKernel
<1>1. UNCHANGED <<mapa, pidCounter, temporizador, largo>>
  BY DEF MarcarLibre, FinEnCola, FinEnLog, Panico, IOTomarLista, IODescartar,
         IOInexistente, DumpMirar, DumpBloquear, EnviarDump, InitAgregarNew, InitReenviar
<1>2. CASE MarcarLibre(c) \/ InitReenviar(c)
  <2>1. /\ manejador[c].pc \in {"libera", "init_reenvia"}
        /\ manejador' = [manejador EXCEPT ![c] = SinSyscall]
    BY <1>2 DEF MarcarLibre, InitReenviar, En
  <2>2. /\ manejador'[c].pc = "inactivo" /\ \A d \in CPUs \ {c} : manejador'[d] = manejador[d]
    BY <2>1, TiposDeCpus DEF SinSyscall
  <2>3. \A q \in Pid : VisibleIgual(q)
    BY <1>1, <2>1, <2>2, LiberadoIgual, VisibleSigue DEF PCsFin, Bajando, LargoTrae
  <2>4. ASSUME NEW q \in Pid, NEW d \in CPUs, Ocupa(d, q) PROVE Ocupa(d, q)'
    <3>1. CASE MarcarLibre(c)
      <4>1. ejecuta' = ejecuta /\ manejador[c].pc = "libera"
        BY <3>1 DEF MarcarLibre, En
      <4> QED
        BY <2>2, <2>4, <4>1 DEF Ocupa
    <3>2. CASE InitReenviar(c)
      <4>1. /\ ejecuta' = [ejecuta EXCEPT ![c] = [pid |-> manejador[c].pid,
                                                  PC |-> manejador[c].n]]
            /\ manejador[c].pc = "init_reenvia"
        BY <3>2 DEF InitReenviar, En
      <4>2. /\ ejecuta'[c].pid = manejador[c].pid
            /\ \A e \in CPUs \ {c} : ejecuta'[e] = ejecuta[e]
        BY <4>1, TiposDeCpus
      <4>3. ejecuta[c].pid = NINGUNO
        BY <4>1 DEF InvCpus, EjecutaTiene
      <4> QED
        BY <2>2, <2>4, <4>2, <4>3 DEF Ocupa, NINGUNO, Pid
    <3> QED
      BY <1>2, <3>1, <3>2
  <2>5. EjecutaEnCpu'
    BY <1>1, <2>4, EjecutaSigue DEF Vivo
  <2> QED
    BY <2>3, <2>5, VidaSigue
<1>3. CASE IODescartar(c) \/ DumpMirar(c)
  <2>1. manejador[c].pc \in {"io_proceso", "dump_mira"}
    BY <1>3 DEF IODescartar, DumpMirar, En
  <2>2. PICK p \in Pid : Servido(c, p)
    BY <2>1, AlServir
  <2>3. mapa[p] # NADA /\ mapa[p].estado = "EXECUTE"
    BY <2>1, <2>2 DEF Servido, Vivo, InvProcesos, OpDelPc, EstadoEn, PCsIO
  <2>4. DumpMirar(c) /\ Pasar(c, "dump_bloquea") /\ ejecuta' = ejecuta
    BY <1>3, <2>2, <2>3 DEF IODescartar, DumpMirar, EnExecute, Servido, Pasar
  <2> QED
    BY <1>1, <2>4, PasandoVida DEF DumpMirar, En, PCsFin
<1>4. CASE FinEnCola(c)
  <2>1. Pasar(c, "fin_log") /\ manejador[c].pc = "fin_cola" /\ ejecuta' = ejecuta
    BY <1>4 DEF FinEnCola, En
  <2> QED
    BY <1>1, <2>1, PasandoVida DEF PCsFin
<1>5. CASE FinEnLog(c)
  <2>1. /\ manejador[c].pc = "fin_log" /\ ejecuta' = ejecuta
        /\ Pasar(c, "fin_mapa") \/ manejador' = manejador
    BY <1>5 DEF FinEnLog, En, Panico
  <2> QED
    BY <1>1, <2>1, PasandoVida, VidaIgual DEF PCsFin
<1>6. CASE DumpBloquear(c)
  <2>1. manejador[c].pc = "dump_bloquea" /\ ejecuta' = ejecuta
    BY <1>6 DEF DumpBloquear, En
  <2>2. PICK p \in Pid : Servido(c, p)
    BY <2>1, AlServir
  <2>3. Movible("EXECUTE", "BLOCKED", p)
    BY <2>1, <2>2, IOBloquearMovible
  <2>4. Pasar(c, "dump_cambia")
    BY <1>6, <2>2, <2>3 DEF DumpBloquear, Servido
  <2> QED
    BY <1>1, <2>1, <2>4, PasandoVida DEF PCsFin
<1>7. CASE IOTomarLista(c) \/ IOInexistente(c) \/ EnviarDump(c) \/ InitAgregarNew(c)
  <2>1. /\ manejador[c].pc \in {"io_lista", "io_proceso", "dump_toma", "init_new"}
        /\ ejecuta' = ejecuta
        /\ \E s \in {"io_proceso", "fin_memoria", "dump_vuelve", "init_reenvia"} : Pasar(c, s)
    BY <1>7 DEF IOTomarLista, IOInexistente, EnviarDump, InitAgregarNew, En
  <2> QED
    BY <1>1, <2>1, PasandoVida DEF PCsFin
<1> QED
  BY <1>2, <1>3, <1>4, <1>5, <1>6, <1>7

\* The handler of c moves its process from one state to another.
LEMMA ManejadorCambia ==
  ASSUME InvVida, NEW c \in CPUs, NEW p \in Pid, Servido(c, p), NEW s, Pasar(c, s),
         s \notin PCsFin, manejador[c].pc \notin PCsFin,
         NEW de, NEW a \in {"READY", "BLOCKED"}, mapa[p] # NADA, mapa[p].estado = de,
         mapa'[p] # NADA, mapa'[p].estado = a, mapa'[p].tam = mapa[p].tam,
         \A q \in Pid \ {p} : mapa'[q] = mapa[q],
         \A q \in Pid : Bajando(q)' <=> Bajando(q),
         UNCHANGED <<pidCounter, largo, ejecuta>>
  PROVE  EjecutaEnCpu' /\ Vida!Cambiar(p, de, a)
<1> USE DEF InvVida, InvKernel
<1>1. \A q \in Pid : Liberado(q)' <=> Liberado(q)
  BY LiberadoPasando
<1>2. ~(p >= pidCounter) /\ ~LargoTrae(p) /\ ~Bajando(p)
  BY DEF Servido, SoloManeja, Suspende, Bajando
<1>3. ~Liberado(p)
  <2>1. ASSUME NEW d \in CPUs, manejador[d].pid = p, manejador[d].pc \in PCsFin PROVE FALSE
    BY <2>1 DEF Servido, SoloManeja, Maneja, PCsFin
  <2> QED
    BY <2>1 DEF Liberado
<1>4. \A q \in Pid \ {p} : VisibleIgual(q)
  BY <1>1, VisibleSigue DEF LargoTrae
<1>5. EstadoVisible(p) = de /\ TamVisible(p) = mapa[p].tam
  BY <1>2, <1>3, VisibleAsi, TamAsi, TiposDeProcesos
<1>6. ~Liberado(p)' /\ ~Bajando(p)' /\ ~LargoTrae(p)'
  BY <1>1, <1>2, <1>3 DEF LargoTrae
<1>7. EstadoVisible(p)' = a
  BY <1>2, <1>6 DEF EstadoVisible, Liberado, Bajando, LargoTrae
<1>8. TamVisible(p)' = TamVisible(p)
  BY <1>5, <1>7 DEF TamVisible
<1>9. Vida!Cambiar(p, de, a)
  BY <1>4, <1>5, <1>7, <1>8, VidaCambia
<1>10. EjecutaEnCpu'
  <2>1. \A d \in CPUs \ {c} : manejador'[d] = manejador[d]
    BY PasoDeManejador
  <2> QED
    BY <2>1, EjecutaSoltando DEF Servido, Vivo
<1> QED
  BY <1>9, <1>10

\* BloquearProceso is Bloquear.
LEMMA BloquearVida ==
  ASSUME InvVida, NEW c \in CPUs, IOBloquear(c) \/ DumpCambiar(c)
  PROVE  EjecutaEnCpu' /\ PasoVida
<1> USE DEF InvVida, InvKernel
<1>0. manejador[c].pc \in {"io_bloquea", "dump_cambia"}
  BY DEF IOBloquear, DumpCambiar, En
<1>1. PICK p \in Pid : Servido(c, p)
  BY <1>0, AlServir
<1>2. mapa[p] # NADA /\ mapa[p].estado = "EXECUTE"
  BY <1>0, <1>1 DEF Servido, Vivo, EstadoEn, InvProcesos, OpDelPc, PCsIO
<1>3. /\ mapa' \in Bloqueado(p) /\ temporizador' = ConTimer(p, manejador[c].n)
      /\ Pasar(c, "libera") \/ Pasar(c, "dump_toma")
      /\ UNCHANGED <<pidCounter, largo, ejecuta>>
  <2>1. CASE IOBloquear(c)
    <3>1. Movible("EXECUTE", "BLOCKED", p)
      BY <1>1, <2>1, IOBloquearMovible DEF IOBloquear, En
    <3> QED
      BY <1>1, <2>1, <3>1 DEF IOBloquear, Servido
  <2>2. CASE DumpCambiar(c)
    BY <1>1, <1>2, <2>2 DEF DumpCambiar, Servido
  <2> QED
    BY <2>1, <2>2
<1>4. /\ mapa'[p] # NADA /\ mapa'[p].estado = "BLOCKED" /\ mapa'[p].tam = mapa[p].tam
      /\ \A q \in Pid \ {p} : mapa'[q] = mapa[q]
  BY <1>2, <1>3, BloqueadoExacto, TiposDeProcesos
<1>5. \A q \in Pid : Bajando(q)' <=> Bajando(q)
  BY <1>1, <1>3, TimerNoBaja
<1>6. EjecutaEnCpu' /\ Vida!Cambiar(p, "EXECUTE", "BLOCKED")
  BY <1>0, <1>1, <1>2, <1>3, <1>4, <1>5, ManejadorCambia DEF PCsFin
<1> QED
  BY <1>6 DEF PasoVida, Vida!Next, Vida!Bloquear

\* The end of a dump is Desbloquear.
LEMMA DumpVolverVida ==
  ASSUME InvVida, NEW c \in CPUs, DumpVolver(c)
  PROVE  EjecutaEnCpu' /\ PasoVida
<1> USE DEF InvVida, InvKernel
<1>0. manejador[c].pc = "dump_vuelve"
  BY DEF DumpVolver, En
<1>1. PICK p \in Pid : Servido(c, p)
  BY <1>0, AlServir
<1>2. mapa[p] # NADA /\ Movible("BLOCKED", "READY", p) /\ mapa[p].estado = "BLOCKED"
  BY <1>0, <1>1, DumpEncuentra
<1>3. /\ mapa' = [mapa EXCEPT ![p].PC = manejador[c].n, ![p].estado = "READY"]
      /\ Pasar(c, "libera") /\ UNCHANGED <<pidCounter, largo, temporizador, ejecuta>>
  BY <1>1, <1>2 DEF DumpVolver, Servido, Pasar
<1>4. /\ mapa'[p] # NADA /\ mapa'[p].estado = "READY" /\ mapa'[p].tam = mapa[p].tam
      /\ \A q \in Pid \ {p} : mapa'[q] = mapa[q]
  <2>1. mapa[p] \in Procesos /\ manejador[c].n \in 0 .. MaxSyscalls - 1
    BY <1>0, <1>2, TiposDeCpus, TiposDeProcesos, ConstantesOK
       DEF InvTipos, Nombran, ManejadorNombra, PCsReanuda, Numero
  <2>2. /\ mapa'[p] = [mapa[p] EXCEPT !.PC = manejador[c].n, !.estado = "READY"]
        /\ \A q \in Pid \ {p} : mapa'[q] = mapa[q]
    BY <1>3, TiposDeProcesos
  <2>3. mapa'[p] \in Procesos /\ mapa'[p].estado = "READY" /\ mapa'[p].tam = mapa[p].tam
    BY <2>1, <2>2 DEF Procesos, Estados
  <2> QED
    BY <2>2, <2>3, NadaOK
<1>5. EjecutaEnCpu' /\ Vida!Cambiar(p, "BLOCKED", "READY")
  BY <1>0, <1>1, <1>2, <1>3, <1>4, ManejadorCambia DEF PCsFin, Bajando
<1> QED
  BY <1>5 DEF PasoVida, Vida!Next, Vida!Desbloquear

\* The PC that an IO saves is not seen.
LEMMA IOSolicitarVida ==
  ASSUME InvVida, NEW c \in CPUs, IOSolicitar(c)
  PROVE  EjecutaEnCpu' /\ PasoVida
<1> USE DEF InvVida, InvKernel
<1>0. manejador[c].pc = "io_proceso"
  BY DEF IOSolicitar, En
<1>1. PICK p \in Pid : Servido(c, p)
  BY <1>0, AlServir
<1>2. /\ mapa' = [mapa EXCEPT ![p].PC = manejador[c].n] /\ Pasar(c, "io_bloquea")
      /\ UNCHANGED <<pidCounter, largo, temporizador, ejecuta>>
  BY <1>1 DEF IOSolicitar, Servido
<1>3. mapa[p] # NADA
  BY <1>1 DEF Servido, Vivo
<1>4. /\ mapa'[p] # NADA /\ mapa'[p].estado = mapa[p].estado /\ mapa'[p].tam = mapa[p].tam
      /\ \A q \in Pid \ {p} : mapa'[q] = mapa[q]
  <2>1. mapa[p] \in Procesos /\ manejador[c].n \in 0 .. MaxSyscalls - 1
    BY <1>0, <1>3, TiposDeCpus, TiposDeProcesos, ConstantesOK
       DEF InvTipos, Nombran, ManejadorNombra, PCsReanuda, PCsIO, Numero
  <2>2. /\ mapa'[p] = [mapa[p] EXCEPT !.PC = manejador[c].n]
        /\ \A q \in Pid \ {p} : mapa'[q] = mapa[q]
    BY <1>2, TiposDeProcesos
  <2>3. mapa'[p] \in Procesos /\ mapa'[p].estado = mapa[p].estado /\ mapa'[p].tam = mapa[p].tam
    BY <2>1, <2>2 DEF Procesos
  <2> QED
    BY <2>2, <2>3, NadaOK
<1>5. \A q \in Pid : Liberado(q)' <=> Liberado(q)
  BY <1>0, <1>2, LiberadoPasando DEF PCsFin
<1>6. \A q \in Pid : VisibleIgual(q)
  <2> TAKE q \in Pid
  <2>1. mapa'[q] = NADA <=> mapa[q] = NADA
    BY <1>3, <1>4
  <2>2. mapa[q] # NADA => mapa'[q].estado = mapa[q].estado /\ mapa'[q].tam = mapa[q].tam
    BY <1>4
  <2> QED
    BY <1>2, <1>5, <2>1, <2>2, VisibleSigue DEF Bajando, LargoTrae
<1>7. \A q \in Pid : Vivo(q, {"EXECUTE"})' => Vivo(q, {"EXECUTE"})
  BY <1>3, <1>4 DEF Vivo
<1>8. EjecutaEnCpu'
  BY <1>2, <1>7, EjecutaPasando
<1> QED
  BY <1>6, <1>8, VidaSigue

\* FinalizarProceso is seen, Salir, when the memory module frees the process.
LEMMA FinEnMemoriaVida ==
  ASSUME InvVida, NEW c \in CPUs, FinEnMemoria(c)
  PROVE  EjecutaEnCpu' /\ PasoVida
<1> USE DEF InvVida, InvKernel
<1>0. manejador[c].pc = "fin_memoria"
  BY DEF FinEnMemoria, En
<1>1. PICK p \in Pid : Servido(c, p)
  BY <1>0, AlServir
<1>2. Pasar(c, "fin_cola") /\ UNCHANGED <<mapa, pidCounter, largo, temporizador, ejecuta>>
  BY DEF FinEnMemoria
<1>3. /\ manejador'[c].pc = "fin_cola" /\ manejador'[c].pid = p /\ manejador[c].pid = p
      /\ \A d \in CPUs \ {c} : manejador'[d] = manejador[d]
  BY <1>1, <1>2, PasoDeManejador DEF Servido
<1>4. Liberado(p)' /\ \A q \in Pid \ {p} : Liberado(q)' <=> Liberado(q)
  BY <1>3 DEF Liberado, PCsFin
<1>5. /\ ~(p >= pidCounter) /\ ~LargoTrae(p) /\ ~Bajando(p)
      /\ mapa[p] # NADA /\ mapa[p].estado \in {"EXECUTE", "BLOCKED"}
  BY <1>1, EstadoEnDos DEF Servido, SoloManeja, Suspende, Bajando, Vivo
<1>6. ~Liberado(p)
  <2>1. ASSUME NEW d \in CPUs, manejador[d].pid = p, manejador[d].pc \in PCsFin PROVE FALSE
    BY <1>0, <1>1, <2>1 DEF Servido, SoloManeja, Maneja, PCsFin
  <2> QED
    BY <2>1 DEF Liberado
<1>7. \A q \in Pid \ {p} : VisibleIgual(q)
  BY <1>2, <1>4, VisibleSigue DEF Bajando, LargoTrae
<1>8. EstadoVisible(p) \in {"EXECUTE", "BLOCKED"}
  BY <1>5, <1>6, VisibleAsi
<1>9. EstadoVisible(p)' = "EXIT"
  BY <1>2, <1>4, <1>5 DEF EstadoVisible, Liberado
<1>10. TamVisible(p)' = 0
  BY <1>9 DEF TamVisible
<1>11. Vida!Salir(p)
  BY <1>7, <1>8, <1>9, <1>10 DEF Vida!Salir, VisibleIgual
<1>12. EjecutaEnCpu'
  BY <1>2, EjecutaPasando DEF Vivo
<1> QED
  BY <1>11, <1>12 DEF PasoVida, Vida!Next

\* That it leaves the table is not.
LEMMA FinEnMapaVida ==
  ASSUME InvVida, NEW c \in CPUs, FinEnMapa(c)
  PROVE  EjecutaEnCpu' /\ PasoVida
<1> USE DEF InvVida, InvKernel
<1>0. manejador[c].pc = "fin_mapa"
  BY DEF FinEnMapa, En
<1>1. PICK p \in Pid : Servido(c, p)
  BY <1>0, AlServir
<1>2. /\ mapa' = [mapa EXCEPT ![p] = NADA] /\ Pasar(c, "libera")
      /\ UNCHANGED <<pidCounter, largo, temporizador, ejecuta>>
  BY <1>1 DEF FinEnMapa, Servido
<1>3. mapa'[p] = NADA /\ \A q \in Pid \ {p} : mapa'[q] = mapa[q]
  BY <1>2, TiposDeProcesos
<1>4. /\ manejador'[c].pc = "libera" /\ manejador[c].pid = p /\ manejador'[c].pid = p
      /\ \A d \in CPUs \ {c} : manejador'[d] = manejador[d]
  BY <1>1, <1>2, PasoDeManejador DEF Servido
<1>5. Liberado(p) /\ \A q \in Pid \ {p} : Liberado(q)' <=> Liberado(q)
  BY <1>0, <1>4 DEF Liberado, PCsFin
<1>6. \A q \in Pid \ {p} : VisibleIgual(q)
  BY <1>2, <1>3, <1>5, VisibleSigue DEF Bajando, LargoTrae
<1>7. ~(p >= pidCounter)
  BY <1>1 DEF Servido
<1>8. EstadoVisible(p) = "EXIT" /\ EstadoVisible(p)' = "EXIT"
  BY <1>2, <1>3, <1>5, <1>7 DEF EstadoVisible, Liberado
<1>9. VisibleIgual(p)
  BY <1>8 DEF VisibleIgual, TamVisible
<1>10. EjecutaEnCpu'
  BY <1>2, <1>3, <1>4, EjecutaSoltando DEF Vivo
<1> QED
  BY <1>6, <1>9, <1>10, VidaSigue

\* CrearProcesoNuevo is Crear.
LEMMA InitCrearVida ==
  ASSUME InvVida, NEW c \in CPUs, InitCrear(c)
  PROVE  EjecutaEnCpu' /\ PasoVida
<1> USE DEF InvVida, InvKernel
<1>1. PICK t \in Tamanios : mapa' = [mapa EXCEPT ![pidCounter] = ProcesoNuevo(t)]
  BY DEF InitCrear
<1>2. PICK r \in Pid : r = pidCounter
  BY TiposDeProcesos, ConstantesOK DEF InitCrear, Pid
<1>3. /\ manejador[c].pc = "init_crea" /\ UNCHANGED <<largo, temporizador, ejecuta>>
      /\ manejador' = [manejador EXCEPT ![c].pc = "init_new", ![c].nuevo = r]
      /\ pidCounter' = r + 1
  BY <1>2 DEF InitCrear, En
<1>4. /\ manejador'[c].pc = "init_new" /\ manejador'[c].pid = manejador[c].pid
      /\ \A d \in CPUs \ {c} : manejador'[d] = manejador[d]
  BY <1>3, TiposDeCpus DEF RegistroSyscall
<1>5. EnOrden(r) /\ mapa[r] = NADA
  BY <1>2 DEF InvProcesos, EnOrden, EnMano, SinCrear, Pid
<1>6. /\ mapa'[r] = ProcesoNuevo(t) /\ \A q \in Pid \ {r} : mapa'[q] = mapa[q]
  BY <1>1, <1>2, TiposDeProcesos
<1>7. mapa'[r] # NADA /\ mapa'[r].estado = "NEW" /\ mapa'[r].tam = t
  <2>1. ProcesoNuevo(t) \in Procesos
    BY ConstantesOK DEF ProcesoNuevo, Procesos, Estados
  <2> QED
    BY <1>6, <2>1, NadaOK DEF ProcesoNuevo
<1>8. \A q \in Pid : Liberado(q)' <=> Liberado(q)
  BY <1>3, <1>4, LiberadoIgual DEF PCsFin
<1>9. ~Liberado(r) /\ ~Bajando(r) /\ ~LargoTrae(r)
  BY <1>5, EstadoEnDos DEF EnOrden, EnMano, ManoCpu, ManoPlanificador, Vivo,
     Liberado, Maneja, PCsFin, Bajando, Suspende
<1>10. \A q \in Pid \ {r} : q >= pidCounter' <=> q >= pidCounter
  BY <1>2, <1>3 DEF Pid
<1>11. \A q \in Pid \ {r} : VisibleIgual(q)
  BY <1>3, <1>6, <1>8, <1>10, VisibleSigue DEF Bajando, LargoTrae
<1>12. EstadoVisible(r) = "SIN_CREAR" /\ ~(r >= pidCounter')
  BY <1>2, <1>3 DEF EstadoVisible, Pid
<1>13. ~Liberado(r)' /\ ~Bajando(r)' /\ ~LargoTrae(r)'
  BY <1>3, <1>8, <1>9 DEF Bajando, LargoTrae
<1>14. EstadoVisible(r)' = "NEW"
  BY <1>7, <1>12, <1>13 DEF EstadoVisible, Liberado, Bajando, LargoTrae
<1>15. TamVisible(r)' = t
  BY <1>7, <1>14 DEF TamVisible
<1>16. ASSUME NEW q \in Pid, q < r PROVE EstadoVisible(q) # "SIN_CREAR"
  <2>1. ~(q >= pidCounter)
    BY <1>2, <1>16 DEF Pid
  <2>2. mapa[q] # NADA => mapa[q].estado \in Estados
    BY TiposDeProcesos DEF Procesos
  <2> QED
    BY <2>1, <2>2 DEF EstadoVisible, Estados
<1>17. Vida!Crear(r)
  BY <1>11, <1>12, <1>14, <1>15, <1>16 DEF Vida!Crear, VisibleIgual
<1>18. EjecutaEnCpu'
  <2>1. \A q \in Pid : Vivo(q, {"EXECUTE"})' => Vivo(q, {"EXECUTE"})
    BY <1>6, <1>7 DEF Vivo
  <2>2. \A q \in Pid, d \in CPUs : Ocupa(d, q) => Ocupa(d, q)'
    BY <1>3, <1>4 DEF Ocupa
  <2> QED
    BY <2>1, <2>2, EjecutaSigue
<1> QED
  BY <1>17, <1>18 DEF PasoVida, Vida!Next

\* The steps of a handler.
LEMMA PasoSyscallVida ==
  ASSUME InvVida, NEW c \in CPUs, PasoSyscall(c)
  PROVE  EjecutaEnCpu' /\ PasoVida
BY ManejadorVida, BloquearVida, DumpVolverVida, IOSolicitarVida, FinEnMemoriaVida,
   FinEnMapaVida, InitCrearVida DEF PasoSyscall

\* A program that issues a syscall goes from its CPU to a handler.
LEMMA EmitirSyscallVida ==
  ASSUME InvVida, NEW c \in CPUs, EmitirSyscall(c)
  PROVE  EjecutaEnCpu' /\ PasoVida
<1> USE DEF InvVida, InvKernel
<1>1. /\ UNCHANGED <<mapa, pidCounter, temporizador, largo>> /\ manejador[c].pc = "inactivo"
      /\ ejecuta' = [ejecuta EXCEPT ![c] = Ociosa]
      /\ \E op \in Programa[ejecuta[c].pid][ejecuta[c].PC + 1] : \E io :
           manejador' = [manejador EXCEPT ![c] =
             [pc |-> Entrada[op], op |-> op, pid |-> ejecuta[c].pid,
              n |-> ejecuta[c].PC + 1, io |-> io, nuevo |-> NINGUNO]]
  BY DEF EmitirSyscall, En
<1>2. ejecuta[c].pid \in Pid /\ ejecuta[c].PC + 1 \in Numero
  BY TiposDeCpus, ConstantesOK DEF EmitirSyscall, PidONinguno, Numero
<1>3. \A op \in Programa[ejecuta[c].pid][ejecuta[c].PC + 1] :
        Entrada[op] \in {"io_lista", "fin_memoria", "dump_mira", "init_crea"}
  BY <1>2, ConstantesOK DEF Entrada, Syscalls
<1>4. /\ manejador'[c].pc \in {"io_lista", "fin_memoria", "dump_mira", "init_crea"}
      /\ manejador'[c].pid = ejecuta[c].pid
      /\ \A d \in CPUs \ {c} : manejador'[d] = manejador[d]
  BY <1>1, <1>3, TiposDeCpus
<1>5. \A d \in CPUs \ {c} : ejecuta'[d] = ejecuta[d]
  BY <1>1, TiposDeCpus
<1>6. \A p \in Pid : VisibleIgual(p)
  BY <1>1, <1>4, LiberadoIgual, VisibleSigue DEF PCsFin, Bajando, LargoTrae
<1>7. \A q \in Pid, d \in CPUs : Ocupa(d, q) => Ocupa(d, q)'
  BY <1>1, <1>4, <1>5 DEF Ocupa
<1>8. EjecutaEnCpu'
  BY <1>1, <1>7, EjecutaSigue DEF Vivo
<1> QED
  BY <1>6, <1>8, VidaSigue

\* Every step of the kernel is a step of the life cycle, or is not seen.
LEMMA PasoDeVida ==
  ASSUME InvVida, [Next]_vars
  PROVE  EjecutaEnCpu' /\ PasoVida
<1>1. CASE \/ AvisarCpuLibre \/ UNCHANGED vars \/ \E c \in CPUs : HandshakeCPU(c)
           \/ \E i \in Instancias : HandshakeIO(i) \/ TerminarIO(i)
  <2>1. UNCHANGED <<mapa, pidCounter, manejador, temporizador, largo, ejecuta>>
    BY <1>1 DEF AvisarCpuLibre, HandshakeCPU, HandshakeIO, TerminarIO, vars
  <2> QED
    BY <2>1, VidaIgual
<1>2. CASE \E c \in CPUs : EmitirSyscall(c)
  BY <1>2, EmitirSyscallVida
<1>3. CASE PasoCorto \/ PasoLargo
  BY <1>3, PasoCortoVida, PasoLargoVida
<1>4. CASE \E p \in Pid, n \in Numero : PasoTimer(p, n)
  BY <1>4, PasoTimerVida
<1>5. CASE \E c \in CPUs : PasoSyscall(c)
  BY <1>5, PasoSyscallVida
<1>6. CASE \E i \in Instancias : PasoFinIO(i)
  BY <1>6, PasoFinIOVida
<1> QED
  BY <1>1, <1>2, <1>3, <1>4, <1>5, <1>6 DEF Next, PasoKernel, PasoEntorno, Reposo

\* The kernel starts with one process, in NEW.
LEMMA InicioVida == ASSUME Init PROVE EjecutaEnCpu /\ Vida!Init
<1>1. PICK t \in Tamanios : mapa = [p \in Pid |-> IF p = 0 THEN ProcesoNuevo(t) ELSE NADA]
  BY DEF Init
<1>2. pidCounter = 1 /\ \A p \in Pid : ~Liberado(p) /\ ~Bajando(p) /\ ~LargoTrae(p)
  BY DEF Init, Liberado, PCsFin, SinSyscall, Bajando, SinTimer, LargoTrae
<1>3. 0 \in Pid /\ mapa[0] = ProcesoNuevo(t) /\ ProcesoNuevo(t) \in Procesos
  BY <1>1, ConstantesOK DEF Pid, ProcesoNuevo, Procesos, Estados
<1>4. mapa[0] # NADA /\ mapa[0].estado = "NEW" /\ mapa[0].tam = t
  BY <1>3, NadaOK DEF ProcesoNuevo
<1>5. \A p \in Pid : p >= pidCounter <=> p # 0
  BY <1>2 DEF Pid
<1>6. \A p \in Pid : EstadoVisible(p) = IF p = 0 THEN "NEW" ELSE "SIN_CREAR"
  BY <1>2, <1>4, <1>5 DEF EstadoVisible, Liberado, Bajando, LargoTrae
<1>7. \A p \in Pid : TamVisible(p) = IF p = 0 THEN t ELSE 0
  BY <1>4, <1>6 DEF TamVisible
<1>8. EjecutaEnCpu
  BY <1>1, <1>4 DEF EjecutaEnCpu, Vivo
<1> QED
  BY <1>6, <1>7, <1>8 DEF Vida!Init

\* The kernel implements CicloDeVida: whatever planners, timers, handlers and
\* devices do together, each process goes along the arrows of the diagram of
\* seven states, enters only into free frames, and executes only where there
\* is a CPU for it.
THEOREM CicloCumplido == ASSUME Regimen PROVE Spec => CumpleCicloDeVida
<1>1. Init => InvResidencia /\ EjecutaEnCpu /\ Vida!Init
  BY InicioResidencia, InicioVida
<1>2. InvKernel /\ InvResidencia /\ EjecutaEnCpu /\ [Next]_vars =>
        InvResidencia' /\ EjecutaEnCpu' /\ [Vida!Next]_Vida!vida
  BY PasoResidencia, PasoDeVida DEF InvVida, PasoVida
<1> QED
  BY <1>1, <1>2, InvKernelSiempre, PTL DEF Spec, CumpleCicloDeVida, Vida!Spec

---------------------------------------------------------------------------
(* The order of READY. *)

\* The three things that may happen to a queue kept in the order of arrival:
\* nothing, somebody comes in at the end, the first leaves.
Avanza(s, t) ==
  \/ t = s
  \/ \E p \in Pid : ~Esta(s, p) /\ t = Append(s, p)
  \/ /\ s # <<>> /\ Len(t) = Len(s) - 1
     /\ \A k \in 1 .. Len(s) - 1 : t[k] = s[k + 1]

\* In a queue without repetitions a process is in one position.
LEMMA PosicionUnica ==
  ASSUME NEW s \in Seq(Pid), SinRepetidos(s), NEW k \in 1 .. Len(s), NEW p, s[k] = p
  PROVE  Esta(s, p) /\ Posicion(s, p) = k
<1>1. Esta(s, p)
  BY DEF Esta
<1>2. Posicion(s, p) \in DOMAIN s /\ s[Posicion(s, p)] = p
  BY DEF Posicion
<1> QED
  BY <1>1, <1>2 DEF SinRepetidos

\* None of the three lets anybody overtake.
LEMMA NadieSeCuela ==
  ASSUME NEW s \in Seq(Pid), NEW t \in Seq(Pid), SinRepetidos(s), SinRepetidos(t),
         Avanza(s, t), NEW p \in Pid, NEW q \in Pid, p # q, Delante(s, p, q), Esta(t, p)
  PROVE  Delante(t, p, q) /\ (Esta(s, q) => Esta(t, q))
<1>1. PICK i \in 1 .. Len(s) : s[i] = p /\ Posicion(s, p) = i
  <2>1. PICK i \in 1 .. Len(s) : s[i] = p
    BY DEF Delante, Esta
  <2> QED
    BY <2>1, PosicionUnica
<1>2. PICK k \in 1 .. Len(t) : t[k] = p /\ Posicion(t, p) = k
  <2>1. PICK k \in 1 .. Len(t) : t[k] = p
    BY DEF Esta
  <2> QED
    BY <2>1, PosicionUnica
<1>3. ASSUME Esta(s, q)
      PROVE  \E j \in 1 .. Len(s) : s[j] = q /\ i < j
  <2>1. PICK j \in 1 .. Len(s) : s[j] = q
    BY <1>3 DEF Esta
  <2>2. Posicion(s, q) = j
    BY <2>1, PosicionUnica
  <2> QED
    BY <1>1, <1>3, <2>1, <2>2 DEF Delante
<1>4. CASE t = s
  BY <1>4
<1>5. CASE \E r \in Pid : ~Esta(s, r) /\ t = Append(s, r)
  <2>1. PICK r \in Pid : ~Esta(s, r) /\ t = Append(s, r)
    BY <1>5
  <2>2. Len(t) = Len(s) + 1 /\ t[Len(s) + 1] = r /\ \A j \in 1 .. Len(s) : t[j] = s[j]
    BY <2>1
  <2>3. Posicion(t, p) = i /\ i \in 1 .. Len(s)
    BY <1>1, <2>2, PosicionUnica
  <2>4. ASSUME Esta(s, q) PROVE Esta(t, q)
    <3>1. PICK j \in 1 .. Len(s) : s[j] = q /\ i < j
      BY <1>3, <2>4
    <3>2. j \in 1 .. Len(t) /\ t[j] = q
      BY <2>2, <3>1
    <3> QED
      BY <3>2 DEF Esta
  <2>5. ASSUME Esta(t, q) PROVE i < Posicion(t, q)
    <3>1. PICK j \in 1 .. Len(t) : t[j] = q
      BY <2>5 DEF Esta
    <3>2. Posicion(t, q) = j
      BY <3>1, PosicionUnica
    <3>3. CASE j = Len(s) + 1
      BY <2>3, <3>2, <3>3
    <3>4. CASE j # Len(s) + 1
      <4>1. j \in 1 .. Len(s) /\ s[j] = q
        BY <2>2, <3>1, <3>4
      <4>2. Esta(s, q) /\ Posicion(s, q) = j
        BY <4>1, PosicionUnica
      <4> QED
        BY <1>1, <3>2, <4>2 DEF Delante
    <3> QED
      BY <3>3, <3>4
  <2> QED
    BY <2>3, <2>4, <2>5 DEF Delante
<1>6. CASE /\ s # <<>> /\ Len(t) = Len(s) - 1
           /\ \A j \in 1 .. Len(s) - 1 : t[j] = s[j + 1]
  <2>1. k + 1 \in 1 .. Len(s) /\ s[k + 1] = p
    BY <1>2, <1>6
  <2>2. i = k + 1
    BY <1>1, <2>1, PosicionUnica
  <2>3. ASSUME Esta(s, q) PROVE Esta(t, q)
    <3>1. PICK j \in 1 .. Len(s) : s[j] = q /\ i < j
      BY <1>3, <2>3
    <3>2. j - 1 \in 1 .. Len(t) /\ t[j - 1] = s[(j - 1) + 1] /\ (j - 1) + 1 = j
      BY <1>6, <3>1
    <3> QED
      BY <3>1, <3>2 DEF Esta
  <2>4. ASSUME Esta(t, q) PROVE k < Posicion(t, q)
    <3>1. PICK j \in 1 .. Len(t) : t[j] = q
      BY <2>4 DEF Esta
    <3>2. Posicion(t, q) = j
      BY <3>1, PosicionUnica
    <3>3. j + 1 \in 1 .. Len(s) /\ s[j + 1] = q
      BY <1>6, <3>1
    <3>4. Esta(s, q) /\ Posicion(s, q) = j + 1
      BY <3>3, PosicionUnica
    <3> QED
      BY <1>1, <2>2, <3>2, <3>4 DEF Delante
  <2> QED
    BY <1>2, <2>3, <2>4 DEF Delante
<1> QED
  BY <1>4, <1>5, <1>6 DEF Avanza

\* The invariant under which READY keeps its order.
InvReady == InvKernel /\ SemReadyExacto /\ CabezaElegida

\* A step that does not touch READY, nor the round under way.
LEMMA CabezaQuieta ==
  ASSUME CabezaElegida, cola'["READY"] = cola["READY"], corto' = corto
  PROVE  CabezaElegida' /\ Avanza(cola["READY"], cola'["READY"])
BY DEF CabezaElegida, Avanza

\* Somebody comes into READY from another queue: at the end.
LEMMA CabezaCrece ==
  ASSUME InvReady, NEW e \in Estados \ {"READY"}, NEW p \in Pid, Movible(e, "READY", p),
         cola' = MoverDe(e, "READY", p), corto' = corto
  PROVE  CabezaElegida' /\ Avanza(cola["READY"], cola'["READY"])
<1>1. cola["READY"] \in Seq(Pid) /\ ~Esta(cola["READY"], p)
  BY TiposDeReady DEF InvReady, InvKernel, Movible
<1>2. cola'["READY"] = Append(cola["READY"], p)
  BY <1>1, TiposDeReady DEF InvReady, InvKernel, MoverDe, Movible, Agregar, Estados
<1>3. cola["READY"] # <<>> => cola'["READY"] # <<>> /\ cola'["READY"][1] = cola["READY"][1]
  BY <1>1, <1>2
<1> QED
  BY <1>1, <1>2, <1>3 DEF InvReady, CabezaElegida, Avanza

\* The short-term planner takes the first of READY: from lee_pcb on nobody but
\* itself could have changed which one that is.
LEMMA PasoCortoCabeza ==
  ASSUME InvReady, PasoCorto
  PROVE  CabezaElegida' /\ (Algoritmo = "FIFO" => Avanza(cola["READY"], cola'["READY"]))
<1> USE DEF InvReady, InvKernel
<1>1. CASE EsperarCpu \/ EsperarReady \/ ElegirCpu
  <2>1. cola' = cola /\ corto'.pc \notin {"lee_pcb", "envia", "a_execute"}
    <3>1. CASE EsperarCpu \/ EsperarReady
      <4>1. EsperarCpu => corto'.pc = "espera_ready"
        BY TiposDeCpus DEF EsperarCpu
      <4>2. EsperarReady => corto'.pc = "elige_cpu"
        BY TiposDeCpus DEF EsperarReady
      <4>3. cola' = cola
        BY <3>1 DEF EsperarCpu, EsperarReady
      <4> QED
        BY <3>1, <4>1, <4>2, <4>3
    <3>2. CASE ElegirCpu
      BY <3>2, HayCpuLibre, TiposDeCpus DEF ElegirCpu
    <3> QED
      BY <1>1, <3>1, <3>2
  <2> QED
    BY <2>1 DEF CabezaElegida, Avanza
<1>2. CASE ElegirPid
  <2>1. corto.pc = "elige_pid"
    BY <1>2 DEF ElegirPid
  <2>2. cola["READY"] # <<>>
    BY <2>1, TiposDeReady DEF SemReadyExacto
  <2>3. PICK s \in OrdenesReady : /\ cola' = [cola EXCEPT !["READY"] = s]
                                 /\ corto' = [corto EXCEPT !.pc = "lee_pcb", !.pid = s[1]]
    BY <1>2, <2>2 DEF ElegirPid
  <2>4. esperaIO' = esperaIO
    BY <1>2, <2>2 DEF ElegirPid
  <2>5. Len(cola'["READY"]) = Len(cola["READY"])
    BY <2>2, <2>3, <2>4, OrdenarCola, TiposDeProcesos
       DEF OrdenesReady, Ordenadas, InvProcesos, Estados
  <2>6. cola'["READY"] = s /\ corto'.pid = s[1]
    BY <2>3, TiposDeReady, TiposDeCpus DEF Estados, RegistroCorto
  <2>7. cola'["READY"] # <<>>
    BY <2>2, <2>5, TiposDeReady
  <2>8. Algoritmo = "FIFO" => s = cola["READY"]
    BY <2>3 DEF OrdenesReady
  <2> QED
    BY <2>6, <2>7, <2>8 DEF CabezaElegida, Avanza
<1>3. CASE LeerPcb \/ EnviarProceso
  <2>1. /\ cola' = cola /\ corto.pc \in {"lee_pcb", "envia"}
        /\ corto'.pc \in {"lee_pcb", "envia", "a_execute"} => corto'.pid = corto.pid
    <3>1. CASE LeerPcb
      <4>1. corto' = CortoEsperando => corto'.pc = "espera_cpu"
        BY DEF CortoEsperando
      <4>2. corto' = [corto EXCEPT !.pc = "envia", !.PC = mapa[corto.pid].PC]
              => corto'.pid = corto.pid
        BY TiposDeCpus DEF RegistroCorto
      <4> QED
        BY <3>1, <4>1, <4>2 DEF LeerPcb
    <3>2. CASE EnviarProceso
      <4>1. corto'.pid = corto.pid
        BY <3>2, TiposDeCpus DEF EnviarProceso, RegistroCorto
      <4> QED
        BY <3>2, <4>1 DEF EnviarProceso
    <3> QED
      BY <1>3, <3>1, <3>2
  <2> QED
    BY <2>1 DEF CabezaElegida, Avanza
<1>4. CASE ReadyAExecute
  <2>1. PICK p \in Pid : p = corto.pid
    BY <1>4 DEF ReadyAExecute, InvTipos, Nombran, CortoNombra
  <2>2. Movible("READY", "EXECUTE", p)
    BY <1>4, <2>1, DespachoMovible DEF ReadyAExecute
  <2>3. /\ corto.pc = "a_execute" /\ corto'.pc = "cambia"
        /\ cola' = MoverDe("READY", "EXECUTE", p)
    BY <1>4, <2>1, <2>2, TiposDeCpus DEF ReadyAExecute
  <2>4. PICK s \in Seq(Pid) : s = cola["READY"] /\ s # <<>> /\ s[1] = p /\ SinRepetidos(s)
    BY <2>1, <2>3, TiposDeReady DEF CabezaElegida, InvProcesos, ColasSinRepetidos, Estados
  <2>5. cola'["READY"] = Quitar(s, p)
    BY <2>3, <2>4, TiposDeReady DEF MoverDe, Estados
  <2>6. 1 \in 1 .. Len(s) /\ Len(s) \in Nat
    BY <2>4
  <2>7. Esta(s, p) /\ Posicion(s, p) = 1
    BY <2>4, <2>6, PosicionUnica
  <2>8. /\ Len(Quitar(s, p)) = Len(s) - 1
        /\ \A k \in 1 .. Len(s) - 1 : Quitar(s, p)[k] = s[k + 1]
    BY <2>6, <2>7, QuitarElementos
  <2> QED
    BY <2>3, <2>4, <2>5, <2>8 DEF CabezaElegida, Avanza
<1>5. CASE CambiarAExecute
  <2>1. corto.pc = "cambia" /\ cola' = cola
    BY <1>5 DEF CambiarAExecute, Panico
  <2>2. corto'.pc \in {"cambia", "espera_cpu"}
    BY <1>5, TiposDeCpus DEF CambiarAExecute, Panico, CortoEsperando
  <2> QED
    BY <2>1, <2>2 DEF CabezaElegida, Avanza
<1> QED
  BY <1>1, <1>2, <1>3, <1>4, <1>5 DEF PasoCorto

\* The long-term planner lets processes in at the end of READY.
LEMMA PasoLargoCabeza ==
  ASSUME InvReady, PasoLargo
  PROVE  CabezaElegida' /\ Avanza(cola["READY"], cola'["READY"])
<1> USE DEF InvReady, InvKernel
<1>1. CASE DespertarLargo \/ SuspReadyVacia \/ NewVacia \/ IntentarReanudar \/ IntentarIniciar
  <2>1. corto' = corto /\ cola'["READY"] = cola["READY"]
    BY <1>1, TiposDeReady
       DEF DespertarLargo, SuspReadyVacia, NewVacia, IntentarReanudar, IntentarIniciar, Estados
  <2> QED
    BY <2>1, CabezaQuieta
<1>2. CASE SuspReadyAReady \/ NewAReady
  <2>0. PICK p \in Pid : p = largo.pid
    BY <1>2 DEF SuspReadyAReady, NewAReady, InvTipos, Nombran, LargoNombra
  <2>1. PICK e \in {"SUSP_READY", "NEW"} :
          /\ largo.pc = IF e = "NEW" THEN "new_mueve" ELSE "susp_mueve"
          /\ IF e = "NEW" THEN NewAReady ELSE SuspReadyAReady
    BY <1>2 DEF SuspReadyAReady, NewAReady
  <2>2. mapa[p] # NADA /\ Movible(e, "READY", p)
    BY <2>0, <2>1, LargoEncuentra
  <2>3. cola' = MoverDe(e, "READY", p) /\ corto' = corto
    BY <2>0, <2>1, <2>2 DEF SuspReadyAReady, NewAReady
  <2> QED
    BY <2>2, <2>3, CabezaCrece DEF Estados
<1> QED
  BY <1>1, <1>2 DEF PasoLargo

\* Of the handlers, the end of a dump does too; the others do not touch READY.
LEMMA PasoSyscallCabeza ==
  ASSUME InvReady, NEW c \in CPUs, PasoSyscall(c)
  PROVE  CabezaElegida' /\ Avanza(cola["READY"], cola'["READY"])
<1> USE DEF InvReady, InvKernel
<1>1. CASE \/ MarcarLibre(c) \/ FinEnMemoria(c) \/ FinEnMapa(c) \/ IOTomarLista(c)
           \/ IODescartar(c) \/ IOInexistente(c) \/ IOSolicitar(c) \/ DumpMirar(c)
           \/ EnviarDump(c) \/ InitCrear(c) \/ InitReenviar(c) \/ FinEnLog(c) \/ DumpCambiar(c)
  <2>1. UNCHANGED <<corto, cola>>
    BY <1>1 DEF MarcarLibre, FinEnMemoria, FinEnMapa, IOTomarLista, IODescartar, IOInexistente,
         IOSolicitar, DumpMirar, EnviarDump, InitCrear, InitReenviar, FinEnLog, DumpCambiar,
         Panico
  <2> QED
    BY <2>1, CabezaQuieta
<1>2. CASE FinEnCola(c) \/ InitAgregarNew(c)
  <2>1. corto' = corto /\ cola'["READY"] = cola["READY"]
    BY <1>2, TiposDeReady DEF FinEnCola, InitAgregarNew, EstadoAnterior, Estados
  <2> QED
    BY <2>1, CabezaQuieta
<1>3. CASE IOBloquear(c) \/ DumpBloquear(c)
  <2>1. corto' = corto /\ cola' = MoverDe("EXECUTE", "BLOCKED", manejador[c].pid)
    BY <1>3 DEF IOBloquear, DumpBloquear
  <2> QED
    BY <2>1, MoverDeOtras, TiposDeReady, CabezaQuieta DEF Estados
<1>4. CASE DumpVolver(c)
  <2>0. manejador[c].pc = "dump_vuelve"
    BY <1>4 DEF DumpVolver, En
  <2>1. PICK p \in Pid : Servido(c, p)
    BY <2>0, AlServir
  <2>2. mapa[p] # NADA /\ Movible("BLOCKED", "READY", p)
    BY <2>0, <2>1, DumpEncuentra
  <2>3. cola' = MoverDe("BLOCKED", "READY", p) /\ corto' = corto
    BY <1>4, <2>1, <2>2 DEF DumpVolver, Servido
  <2> QED
    BY <2>2, <2>3, CabezaCrece DEF Estados
<1> QED
  BY <1>1, <1>2, <1>3, <1>4 DEF PasoSyscall

\* So does the end of an IO.
LEMMA PasoFinIOCabeza ==
  ASSUME InvReady, NEW i \in Instancias, PasoFinIO(i)
  PROVE  CabezaElegida' /\ Avanza(cola["READY"], cola'["READY"])
<1> USE DEF InvReady, InvKernel
<1>1. CASE FinIOTomarLista(i) \/ FinIOMirarProceso(i) \/ LiberarInstancia(i)
  BY <1>1, CabezaQuieta DEF FinIOTomarLista, FinIOMirarProceso, LiberarInstancia
<1>2. CASE SuspBlockedASuspReady(i)
  <2>1. corto' = corto /\ cola' = MoverDe("SUSP_BLOCKED", "SUSP_READY", finIO[i].pid)
    BY <1>2 DEF SuspBlockedASuspReady
  <2> QED
    BY <2>1, MoverDeOtras, TiposDeReady, CabezaQuieta DEF Estados
<1>3. CASE BlockedAReady(i)
  <2>1. PICK p \in Pid : p = finIO[i].pid
    BY <1>3 DEF BlockedAReady, InvTipos, Nombran, FinNombra
  <2>2. finIO[i].pc = "mueve" /\ mapa[p].estado = "BLOCKED"
    BY <1>3, <2>1 DEF BlockedAReady
  <2>3. Movible("BLOCKED", "READY", p)
    BY <2>1, <2>2, FinMovible DEF Movible, SoloEn, Estados
  <2>4. cola' = MoverDe("BLOCKED", "READY", p) /\ corto' = corto
    BY <1>3, <2>1, <2>3 DEF BlockedAReady
  <2> QED
    BY <2>3, <2>4, CabezaCrece DEF Estados
<1> QED
  BY <1>1, <1>2, <1>3 DEF PasoFinIO

\* Every step.
LEMMA PasoCabeza ==
  ASSUME InvReady, [Next]_vars
  PROVE  CabezaElegida' /\ (Algoritmo = "FIFO" => Avanza(cola["READY"], cola'["READY"]))
<1>1. CASE \/ AvisarCpuLibre \/ UNCHANGED vars
           \/ \E c \in CPUs : HandshakeCPU(c) \/ EmitirSyscall(c)
           \/ \E i \in Instancias : HandshakeIO(i) \/ TerminarIO(i)
  <2>1. UNCHANGED <<corto, cola>>
    BY <1>1 DEF AvisarCpuLibre, HandshakeCPU, EmitirSyscall, HandshakeIO, TerminarIO, vars
  <2> QED
    BY <2>1, CabezaQuieta DEF InvReady
<1>2. CASE PasoCorto \/ PasoLargo
  BY <1>2, PasoCortoCabeza, PasoLargoCabeza
<1>3. CASE \E p \in Pid, n \in Numero : PasoTimer(p, n)
  <2>1. PICK p \in Pid, n \in Numero : PasoTimer(p, n)
    BY <1>3
  <2>2. corto' = corto /\ (cola' = cola \/ cola' = MoverDe("BLOCKED", "SUSP_BLOCKED", p))
    BY <2>1 DEF PasoTimer, DespertarTimer, SuspenderEnMemoria, BlockedASuspBlocked
  <2>3. cola'["READY"] = cola["READY"]
    BY <2>2, MoverDeOtras, TiposDeReady DEF InvReady, InvKernel, Estados
  <2> QED
    BY <2>2, <2>3, CabezaQuieta DEF InvReady
<1>4. CASE \E c \in CPUs : PasoSyscall(c)
  BY <1>4, PasoSyscallCabeza
<1>5. CASE \E i \in Instancias : PasoFinIO(i)
  BY <1>5, PasoFinIOCabeza
<1> QED
  BY <1>1, <1>2, <1>3, <1>4, <1>5 DEF Next, PasoKernel, PasoEntorno, Reposo

\* Under FIFO nobody overtakes a process that waits in READY: whoever comes in
\* later, from NEW, from swap, from a device or from a dump, leaves later.
THEOREM NadieSeAdelanta ==
  ASSUME Regimen, Algoritmo = "FIFO"
  PROVE  Spec => OrdenDeLlegada
<1>1. Init => CabezaElegida
  BY DEF Init, CabezaElegida, CortoEsperando
<1>2. InvKernel /\ SemReadyExacto /\ CabezaElegida /\ [Next]_vars => CabezaElegida'
  BY PasoCabeza DEF InvReady
<1>3. InvKernel /\ InvKernel' /\ SemReadyExacto /\ CabezaElegida /\ [Next]_vars =>
        [\A p, q \in Pid :
           p # q /\ Delante(cola["READY"], p, q) /\ Esta(cola'["READY"], p) =>
             /\ Delante(cola'["READY"], p, q)
             /\ Esta(cola["READY"], q) => Esta(cola'["READY"], q)]_vars
  <2> SUFFICES ASSUME InvKernel, InvKernel', SemReadyExacto, CabezaElegida, [Next]_vars,
                      NEW p \in Pid, NEW q \in Pid, p # q,
                      Delante(cola["READY"], p, q), Esta(cola'["READY"], p)
               PROVE  /\ Delante(cola'["READY"], p, q)
                      /\ Esta(cola["READY"], q) => Esta(cola'["READY"], q)
    OBVIOUS
  <2>1. Avanza(cola["READY"], cola'["READY"])
    BY PasoCabeza DEF InvReady
  <2>2. cola["READY"] \in Seq(Pid) /\ SinRepetidos(cola["READY"])
    BY TiposDeReady DEF InvKernel, InvProcesos, ColasSinRepetidos, Estados
  <2>3. cola'["READY"] \in Seq(Pid) /\ SinRepetidos(cola'["READY"])
    BY DEF InvKernel, InvTipos, TypeOK, TiposTabla, InvProcesos, ColasSinRepetidos, Estados
  <2> QED
    BY <2>1, <2>2, <2>3, NadieSeCuela
<1> QED
  BY <1>1, <1>2, <1>3, InvKernelSiempre, ReadyContada, PTL DEF Spec, OrdenDeLlegada
===========================================================================
