-------------------------- MODULE PruebasProcesos --------------------------
(*************************************************************************)
(* Spec => []SemCpusExacto.  The count alone is not inductive:           *)
(* MarcarLibre adds one to both sides only if the CPU was not free       *)
(* already, and a handshake only if the CPU is new.  InvCpus adds that   *)
(* whoever has a CPU has one that is connected and not free.             *)
(*                                                                       *)
(* Spec => []InstanciaExclusiva.  A request goes only to an instance     *)
(* whose PidProcesoActual is -1; that such an instance is neither        *)
(* sleeping nor having its end handled is what InvIO keeps, with every   *)
(* instance filed under its own device name.                             *)
(*                                                                       *)
(* InvProcesos, that every process is in the hands of one goroutine, in  *)
(* the one queue of its state, with the program counter of its last      *)
(* syscall and with at most one wait, is inductive under Regimen.  A     *)
(* step concerns few processes: EnOrden(p) states the invariant of one   *)
(* process, SoloToca says that a step that keeps p in order and does not *)
(* concern the others keeps InvProcesos, and each action's lemma shows   *)
(* the one or two processes it concerns to be in order after it.         *)
(*************************************************************************)
EXTENDS PruebasTipos

USE DEF procesosVars, mutexVars, semVars, cpuVars, ioVars, RegistroCorto,
        RegistroSyscall, RegistroFin

\* The CPUs that elegirCPUlibre may take.
CpusLibres == {c \in CPUs : libre[c]}

\* The free CPUs are finitely many.
LEMMA LibresFinitas ==
  /\ IsFiniteSet(CpusLibres) /\ Cardinality(CpusLibres) \in Nat
  /\ \A S \in SUBSET CPUs : IsFiniteSet(S) /\ Cardinality(S) \in Nat
<1>1. \A S \in SUBSET CPUs : IsFiniteSet(S) /\ Cardinality(S) \in Nat
  BY FS_Subset, FS_CardinalityType, ConstantesOK
<1> QED
  BY <1>1 DEF CpusLibres

\* elegirCPUlibre takes one of them.
LEMMA TomarUna ==
  ASSUME libre \in [CPUs -> BOOLEAN], NEW c \in CPUs, libre[c],
         libre' = [libre EXCEPT ![c] = FALSE]
  PROVE  Cardinality(CpusLibres') = Cardinality(CpusLibres) - 1
<1>1. CpusLibres' = CpusLibres \ {c} /\ c \in CpusLibres
  BY DEF CpusLibres
<1> QED
  BY <1>1, LibresFinitas, FS_RemoveElement

\* LiberarCPU, and a handshake, add one.
LEMMA SoltarUna ==
  ASSUME libre \in [CPUs -> BOOLEAN], NEW c \in CPUs, ~libre[c],
         libre' = [libre EXCEPT ![c] = TRUE]
  PROVE  Cardinality(CpusLibres') = Cardinality(CpusLibres) + 1
<1>1. CpusLibres' = CpusLibres \cup {c} /\ c \notin CpusLibres
  BY DEF CpusLibres
<1> QED
  BY <1>1, LibresFinitas, FS_AddElement

\* The token of the round under way.
Ficha == IF corto.pc \in {"espera_ready", "elige_cpu"} THEN 1 ELSE 0

\* A step that neither takes nor gives back a CPU: the counts stand, and who
\* had a CPU has it.
LEMMA CpusQuietas ==
  ASSUME InvCpus, UNCHANGED <<semCpus, avisosCpu, listaCPUs, libre, ejecuta>>,
         Ficha' = Ficha,
         \A c \in CPUs : manejador[c].pc = "inactivo" =>
                           manejador'[c].pc = "inactivo",
         corto' = corto \/ CortoTiene'
  PROVE  InvCpus'
<1>1. SemCpusExacto'
  BY DEF InvCpus, SemCpusExacto, Ficha
<1>2. LibreConectada' /\ ManejadorTiene' /\ EjecutaTiene'
  BY DEF InvCpus, LibreConectada, ManejadorTiene, EjecutaTiene, Conectada
<1>3. CortoTiene'
  BY DEF InvCpus, CortoTiene, Conectada
<1> QED
  BY <1>1, <1>2, <1>3 DEF InvCpus
---------------------------------------------------------------------------
(* The CPUs after ENTER. *)

\* The CPUs connected before ENTER are free, and Sem_Cpus counts them.
LEMMA InicioCpus == ASSUME Init PROVE InvCpus
<1>1. SemCpusExacto
  <2> DEFINE n == Len(CPUsAlInicio)
             S == {c \in CPUs : libre[c]}
  <2>1. n \in Nat /\ DOMAIN CPUsAlInicio = 1 .. n /\ CPUsAlInicio \in [1 .. n -> CPUs]
    BY ConstantesOK
  <2>2. S = {c \in CPUs : \E k \in 1 .. n : CPUsAlInicio[k] = c}
    BY <2>1 DEF Init, Esta
  <2>3. CPUsAlInicio \in [1 .. n -> S]
    BY <2>1, <2>2
  <2>4. CPUsAlInicio \in Bijection(1 .. n, S)
    <3>1. \A a, b \in 1 .. n : CPUsAlInicio[a] = CPUsAlInicio[b] => a = b
      BY <2>1, ConstantesOK
    <3>2. \A t \in S : \E s \in 1 .. n : CPUsAlInicio[s] = t
      BY <2>2
    <3> QED
      BY <2>3, <3>1, <3>2 DEF Bijection, Injection, Surjection, IsInjective
  <2>5. ExistsBijection(1 .. n, S)
    BY <2>4 DEF ExistsBijection
  <2>6. IsFiniteSet(1 .. n) /\ Cardinality(1 .. n) = n
    BY <2>1, FS_Interval
  <2>7. Cardinality(S) = n
    BY <2>5, <2>6, FS_Bijection
  <2> QED
    BY <2>1, <2>7 DEF Init, SemCpusExacto, CortoEsperando
<1>2. LibreConectada /\ ManejadorTiene /\ EjecutaTiene /\ CortoTiene
  BY DEF Init, LibreConectada, ManejadorTiene, EjecutaTiene, CortoTiene,
         Conectada, SinSyscall, Ociosa, CortoEsperando
<1> QED
  BY <1>1, <1>2 DEF InvCpus
---------------------------------------------------------------------------
(* Steps that take or give back a CPU. *)

\* The types of a processor's state, from InvTipos.
LEMMA TiposDeCpus ==
  ASSUME InvTipos
  PROVE  /\ libre \in [CPUs -> BOOLEAN] /\ listaCPUs \in Seq(CPUs)
         /\ ejecuta \in [CPUs -> [pid : PidONinguno, PC : 0 .. MaxSyscalls - 1]]
         /\ manejador \in [CPUs -> RegistroSyscall] /\ corto \in RegistroCorto
         /\ semCpus \in Nat /\ avisosCpu \in Nat
BY DEF InvTipos, TypeOK, TiposCpus, TiposPlanificadores, TiposSincronizacion

\* Every step of the short-term planner keeps InvCpus.
LEMMA PasoCortoCpus == ASSUME InvTipos, InvCpus, PasoCorto PROVE InvCpus'
<1>1. CASE EsperarCpu
  <2>1. /\ UNCHANGED <<avisosCpu, listaCPUs, libre, ejecuta, manejador>>
        /\ corto.pc = "espera_cpu" /\ corto'.pc = "espera_ready"
        /\ semCpus' = semCpus - 1
    BY <1>1, TiposDeCpus DEF EsperarCpu
  <2>2. SemCpusExacto'
    BY <2>1, TiposDeCpus, LibresFinitas
       DEF InvCpus, SemCpusExacto, CpusLibres
  <2> QED
    BY <2>1, <2>2 DEF InvCpus, LibreConectada, ManejadorTiene, EjecutaTiene,
                      CortoTiene, Conectada
<1>2. CASE EsperarReady \/ ElegirPid \/ LeerPcb \/ ReadyAExecute \/ CambiarAExecute
  <2>1. UNCHANGED <<semCpus, avisosCpu, listaCPUs, libre, ejecuta, manejador>>
    BY <1>2 DEF EsperarReady, ElegirPid, LeerPcb, ReadyAExecute,
                CambiarAExecute, Panico
  <2>2. \/ corto' = corto
        \/ corto.pc = "espera_ready" /\ corto'.pc = "elige_cpu"
        \/ /\ corto.pc \in {"elige_pid", "lee_pcb"}
           /\ corto'.pc \in {"lee_pcb", "envia"} /\ corto'.cpu = corto.cpu
        \/ /\ corto.pc \in {"lee_pcb", "a_execute", "cambia"}
           /\ corto'.pc \in {"espera_cpu", "cambia"}
    <3>1. CASE EsperarReady
      BY <3>1, TiposDeCpus DEF EsperarReady
    <3>2. CASE ElegirPid
      BY <3>2, TiposDeCpus DEF ElegirPid, Panico
    <3>3. CASE LeerPcb
      <4>1. CASE mapa[corto.pid] = NADA
        BY <3>3, <4>1, TiposDeCpus DEF LeerPcb, CortoEsperando
      <4>2. CASE mapa[corto.pid] # NADA
        BY <3>3, <4>2, TiposDeCpus DEF LeerPcb
      <4> QED
        BY <4>1, <4>2
    <3>4. CASE ReadyAExecute
      BY <3>4, TiposDeCpus DEF ReadyAExecute, CortoEsperando
    <3>5. CASE CambiarAExecute
      BY <3>5, TiposDeCpus DEF CambiarAExecute, CortoEsperando, Panico
    <3> QED
      BY <1>2, <3>1, <3>2, <3>3, <3>4, <3>5
  <2>3. Ficha' = Ficha
    BY <2>2 DEF Ficha
  <2>4. corto' = corto \/ CortoTiene'
    BY <2>1, <2>2 DEF InvCpus, CortoTiene, Conectada
  <2> QED
    BY <2>1, <2>3, <2>4, CpusQuietas
<1>3. CASE ElegirCpu
  <2> DEFINE libres == {k \in DOMAIN listaCPUs : libre[listaCPUs[k]]}
             k0 == CHOOSE k \in libres : \A j \in libres : k <= j
             c == listaCPUs[k0]
  <2>1. \E d \in CPUs : libre[d]
    <3>1. Cardinality(CpusLibres) # 0
      BY <1>3, TiposDeCpus, LibresFinitas
         DEF InvCpus, SemCpusExacto, CpusLibres, ElegirCpu
    <3>2. CpusLibres # {}
      BY <3>1, FS_EmptySet
    <3> QED
      BY <3>2 DEF CpusLibres
  <2>2. libres # {} /\ libres \subseteq Nat
    <3>1. DOMAIN listaCPUs \subseteq Nat
      BY TiposDeCpus
    <3> QED
      BY <2>1, <3>1 DEF InvCpus, LibreConectada, Conectada, Esta
  <2>3. k0 \in libres
    BY <2>2, MinimoExiste
  <2>4. c \in CPUs /\ libre[c] /\ Conectada(c)
    <3>1. k0 \in DOMAIN listaCPUs /\ libre[listaCPUs[k0]]
      BY <2>3
    <3> HIDE DEF k0
    <3> QED
      BY <3>1, TiposDeCpus DEF Conectada, Esta
  <2>5. /\ UNCHANGED <<semCpus, avisosCpu, listaCPUs, ejecuta, manejador>>
        /\ libre' = [libre EXCEPT ![c] = FALSE]
        /\ corto' = [corto EXCEPT !.pc = "elige_pid", !.cpu = c]
        /\ corto.pc = "elige_cpu"
    BY <1>3, <2>2 DEF ElegirCpu
  <2> HIDE DEF c
  <2>6. corto'.pc = "elige_pid" /\ corto'.cpu = c
    BY <2>5, TiposDeCpus
  <2>7. SemCpusExacto'
    <3>1. Cardinality(CpusLibres') = Cardinality(CpusLibres) - 1
      BY <2>4, <2>5, TiposDeCpus, TomarUna
    <3> QED
      BY <2>5, <2>6, <3>1, TiposDeCpus, LibresFinitas
         DEF InvCpus, SemCpusExacto, CpusLibres
  <2>8. manejador[c].pc = "inactivo" /\ ejecuta[c].pid = NINGUNO
    BY <2>4 DEF InvCpus, ManejadorTiene, EjecutaTiene
  <2> QED
    BY <2>4, <2>5, <2>6, <2>7, <2>8, TiposDeCpus
       DEF InvCpus, LibreConectada, ManejadorTiene, EjecutaTiene, CortoTiene,
           Conectada
<1>4. CASE EnviarProceso
  <2>1. /\ UNCHANGED <<semCpus, avisosCpu, listaCPUs, libre, manejador>>
        /\ corto.pc = "envia" /\ corto'.pc = "a_execute"
        /\ ejecuta' = [ejecuta EXCEPT ![corto.cpu] =
                         [pid |-> corto.pid, PC |-> corto.PC]]
    BY <1>4, TiposDeCpus DEF EnviarProceso
  <2> QED
    BY <2>1, TiposDeCpus
       DEF InvCpus, SemCpusExacto, LibreConectada, ManejadorTiene,
           EjecutaTiene, CortoTiene, Conectada
<1> QED
  BY <1>1, <1>2, <1>3, <1>4 DEF PasoCorto

\* Every step of the handler of a syscall keeps InvCpus.
LEMMA PasoSyscallCpus ==
  ASSUME InvTipos, InvCpus, NEW c \in CPUs, PasoSyscall(c)
  PROVE  InvCpus'
<1>1. CASE MarcarLibre(c)
  <2>1. /\ UNCHANGED <<semCpus, listaCPUs, ejecuta, corto>>
        /\ avisosCpu' = avisosCpu + 1 /\ libre' = [libre EXCEPT ![c] = TRUE]
        /\ manejador' = [manejador EXCEPT ![c] = SinSyscall]
        /\ manejador[c].pc = "libera"
    BY <1>1 DEF MarcarLibre, En
  <2>2. ~libre[c] /\ Conectada(c) /\ ejecuta[c].pid = NINGUNO
    BY <2>1 DEF InvCpus, ManejadorTiene, EjecutaTiene
  <2>3. SemCpusExacto'
    <3>1. Cardinality(CpusLibres') = Cardinality(CpusLibres) + 1
      BY <2>1, <2>2, TiposDeCpus, SoltarUna
    <3> QED
      BY <2>1, <3>1, TiposDeCpus, LibresFinitas
         DEF InvCpus, SemCpusExacto, CpusLibres
  <2> QED
    BY <2>1, <2>2, <2>3, TiposDeCpus
       DEF InvCpus, LibreConectada, ManejadorTiene, EjecutaTiene, CortoTiene,
           Conectada, SinSyscall
<1>2. CASE InitReenviar(c)
  <2>1. /\ UNCHANGED <<semCpus, avisosCpu, listaCPUs, libre, corto>>
        /\ ejecuta' = [ejecuta EXCEPT ![c] =
                         [pid |-> manejador[c].pid, PC |-> manejador[c].n]]
        /\ manejador' = [manejador EXCEPT ![c] = SinSyscall]
        /\ manejador[c].pc = "init_reenvia"
    BY <1>2 DEF InitReenviar, En
  <2> QED
    BY <2>1, TiposDeCpus
       DEF InvCpus, SemCpusExacto, LibreConectada, ManejadorTiene,
           EjecutaTiene, CortoTiene, Conectada, SinSyscall
<1>3. CASE ~MarcarLibre(c) /\ ~InitReenviar(c)
  <2>1. UNCHANGED <<semCpus, avisosCpu, listaCPUs, libre, ejecuta, corto>>
    BY <1>3 DEF PasoSyscall, FinEnMemoria, FinEnCola, FinEnLog, FinEnMapa,
                IOTomarLista,
                IODescartar, IOInexistente, IOSolicitar, IOBloquear, DumpMirar,
                DumpBloquear, DumpCambiar, EnviarDump, DumpVolver, InitCrear,
                InitAgregarNew, Panico
  <2>2. manejador[c].pc # "inactivo"
    BY <1>3 DEF PasoSyscall, FinEnMemoria, FinEnCola, FinEnLog, FinEnMapa,
                IOTomarLista,
                IODescartar, IOInexistente, IOSolicitar, IOBloquear, DumpMirar,
                DumpBloquear, DumpCambiar, EnviarDump, DumpVolver, InitCrear,
                InitAgregarNew, En
  <2>3. \A d \in CPUs : d # c => manejador'[d] = manejador[d]
    BY <1>3, TiposDeCpus
       DEF PasoSyscall, FinEnMemoria, FinEnCola, FinEnLog, FinEnMapa, IOTomarLista,
           IODescartar, IOInexistente, IOSolicitar, IOBloquear, DumpMirar,
           DumpBloquear, DumpCambiar, EnviarDump, DumpVolver, InitCrear,
           InitAgregarNew, Panico, Pasar
  <2>4. Ficha' = Ficha
    BY <2>1 DEF Ficha
  <2> QED
    BY <2>1, <2>2, <2>3, <2>4, CpusQuietas
<1> QED
  BY <1>1, <1>2, <1>3

\* A CPU that connects, or leaves its program for a syscall, keeps InvCpus.
LEMMA PasoCPUCpus ==
  ASSUME InvTipos, InvCpus, NEW c \in CPUs, HandshakeCPU(c) \/ EmitirSyscall(c)
  PROVE  InvCpus'
<1>1. CASE HandshakeCPU(c)
  <2>1. /\ UNCHANGED <<avisosCpu, ejecuta, corto, manejador>>
        /\ semCpus' = semCpus + 1 /\ libre' = [libre EXCEPT ![c] = TRUE]
        /\ listaCPUs' = Append(listaCPUs, c) /\ ~Conectada(c)
    BY <1>1 DEF HandshakeCPU, Conectada
  <2>2. /\ ~libre[c] /\ manejador[c].pc = "inactivo" /\ ejecuta[c].pid = NINGUNO
        /\ corto.pc \in {"elige_pid", "lee_pcb", "envia"} => corto.cpu # c
    BY <2>1 DEF InvCpus, LibreConectada, ManejadorTiene, EjecutaTiene, CortoTiene
  <2>3. SemCpusExacto'
    <3>1. Cardinality(CpusLibres') = Cardinality(CpusLibres) + 1
      BY <2>1, <2>2, TiposDeCpus, SoltarUna
    <3> QED
      BY <2>1, <3>1, TiposDeCpus, LibresFinitas
         DEF InvCpus, SemCpusExacto, CpusLibres
  <2>4. \A d \in CPUs : (Conectada(d) \/ d = c) => Conectada(d)'
    <3> DEFINE n == Len(listaCPUs)
    <3>1. /\ n \in Nat /\ DOMAIN listaCPUs = 1 .. n
          /\ DOMAIN listaCPUs' = 1 .. n + 1 /\ listaCPUs'[n + 1] = c
          /\ \A k \in 1 .. n : listaCPUs'[k] = listaCPUs[k]
      BY <2>1, TiposDeCpus
    <3> QED
      BY <3>1 DEF Conectada, Esta
  <2> QED
    BY <2>1, <2>2, <2>3, <2>4, TiposDeCpus
       DEF InvCpus, LibreConectada, ManejadorTiene, EjecutaTiene, CortoTiene
<1>2. CASE EmitirSyscall(c)
  <2>1. /\ UNCHANGED <<semCpus, avisosCpu, listaCPUs, libre, corto>>
        /\ ejecuta' = [ejecuta EXCEPT ![c] = Ociosa] /\ ejecuta[c].pid # NINGUNO
        /\ \A d \in CPUs : d # c => manejador'[d] = manejador[d]
    BY <1>2, TiposDeCpus DEF EmitirSyscall
  <2>2. Conectada(c) /\ ~libre[c]
        /\ (corto.pc \in {"elige_pid", "lee_pcb", "envia"} => corto.cpu # c)
    BY <2>1 DEF InvCpus, EjecutaTiene, CortoTiene
  <2> QED
    BY <2>1, <2>2, TiposDeCpus
       DEF InvCpus, SemCpusExacto, LibreConectada, ManejadorTiene,
           EjecutaTiene, CortoTiene, Conectada, Ociosa
<1> QED
  BY <1>1, <1>2
---------------------------------------------------------------------------
(* The theorem about the CPUs. *)

\* No step of anybody breaks InvCpus.
LEMMA PasoInvCpus == ASSUME InvTipos, InvCpus, [Next]_vars PROVE InvCpus'
<1>1. CASE PasoCorto
  BY <1>1, PasoCortoCpus
<1>2. CASE AvisarCpuLibre
  <2>1. /\ UNCHANGED <<listaCPUs, libre, ejecuta, corto, manejador>>
        /\ semCpus' = semCpus + 1 /\ avisosCpu' = avisosCpu - 1
    BY <1>2 DEF AvisarCpuLibre
  <2>2. SemCpusExacto'
    BY <2>1, TiposDeCpus, LibresFinitas
       DEF InvCpus, SemCpusExacto, CpusLibres
  <2> QED
    BY <2>1, <2>2 DEF InvCpus, LibreConectada, ManejadorTiene, EjecutaTiene,
                      CortoTiene, Conectada
<1>3. CASE \E c \in CPUs : PasoSyscall(c)
  BY <1>3, PasoSyscallCpus
<1>4. CASE \E c \in CPUs : HandshakeCPU(c) \/ EmitirSyscall(c)
  BY <1>4, PasoCPUCpus
<1>5. ASSUME UNCHANGED <<semCpus, avisosCpu, listaCPUs, libre, ejecuta, corto,
                         manejador>>
      PROVE  InvCpus'
  BY <1>5, CpusQuietas DEF Ficha
<1>6. CASE PasoLargo
  BY <1>5, <1>6 DEF PasoLargo, DespertarLargo, IntentarReanudar,
                    SuspReadyAReady, SuspReadyVacia, IntentarIniciar,
                    NewAReady, NewVacia, Panico
<1>7. CASE \E p \in Pid, n \in Numero : PasoTimer(p, n)
  BY <1>5, <1>7 DEF PasoTimer, DespertarTimer, SuspenderEnMemoria,
                    BlockedASuspBlocked
<1>8. CASE \E i \in Instancias : PasoFinIO(i)
  BY <1>5, <1>8 DEF PasoFinIO, FinIOTomarLista, FinIOMirarProceso,
                    SuspBlockedASuspReady, BlockedAReady, LiberarInstancia
<1>9. CASE \E i \in Instancias : HandshakeIO(i) \/ TerminarIO(i)
  BY <1>5, <1>9 DEF HandshakeIO, TerminarIO
<1>10. CASE UNCHANGED vars
  BY <1>5, <1>10 DEF vars
<1> QED
  BY <1>1, <1>2, <1>3, <1>4, <1>6, <1>7, <1>8, <1>9, <1>10
     DEF Next, PasoKernel, PasoEntorno, Reposo

\* Sem_Cpus counts the free CPUs (ListaCPUs' EstaLibre) whatever the handlers,
\* handshakes and planner do in whatever order: no CPU is forgotten and the
\* planner never finds all of them taken.
THEOREM CpusContadas == Spec => []SemCpusExacto
<1>1. Init => InvCpus
  BY InicioCpus
<1>2. InvTipos /\ InvCpus /\ [Next]_vars => InvCpus'
  BY PasoInvCpus
<1>3. InvCpus => SemCpusExacto
  BY DEF InvCpus
<1> QED
  BY <1>1, <1>2, <1>3, InvTiposSiempre, PTL DEF Spec
---------------------------------------------------------------------------
(* Devices. *)

\* The types the devices' lemmas use.
LEMMA TiposDeIO ==
  ASSUME InvTipos
  PROVE  /\ finIO \in [Instancias -> RegistroFin]
         /\ instanciasIO \in [NombresIO -> Seq(Instancias)]
         /\ esperaIO \in [NombresIO -> Seq(Pid)]
         /\ enIO \in [Instancias -> PidONinguno]
         /\ dispositivo \in [Instancias -> PidONinguno]
         /\ NombreIO \in [Instancias -> NombresIO]
         /\ \A p \in Pid : p # NINGUNO
BY ConstantesOK DEF InvTipos, TypeOK, TiposIO, Pid, NINGUNO

\* No device involved.
LEMMA IOQuieta ==
  ASSUME InvIO, UNCHANGED <<instanciasIO, enIO, dispositivo, finIO>>
  PROVE  InvIO'
BY DEF InvIO, NombreCorrecto, OcupadaConectada, DispositivoAnotado, FinAnotado

\* Devices connected before ENTER are idle.
LEMMA InicioIO == ASSUME Init PROVE InvIO
BY ConstantesOK DEF Init, InvIO, NombreCorrecto, OcupadaConectada,
                    DispositivoAnotado, FinAnotado, SinFin

\* The instance that BuscarInstanciaIOLibre finds is connected and idle.
LEMMA LibreOciosa ==
  ASSUME InvTipos, InvIO, NEW d \in NombresIO, Libres(d) # {}
  PROVE  /\ PrimeraLibre(d) \in Instancias
         /\ NombreIO[PrimeraLibre(d)] = d /\ Esta(instanciasIO[d], PrimeraLibre(d))
         /\ dispositivo[PrimeraLibre(d)] = NINGUNO
         /\ finIO[PrimeraLibre(d)].pc = "inactivo"
<1> DEFINE k0 == CHOOSE k \in Libres(d) : \A j \in Libres(d) : k <= j
           i  == instanciasIO[d][k0]
<1>1. PrimeraLibre(d) = i
  BY DEF PrimeraLibre
<1>2. instanciasIO[d] \in Seq(Instancias)
  BY TiposDeIO
<1>3. Libres(d) \subseteq Nat
  BY <1>2 DEF Libres
<1>4. k0 \in Libres(d)
  BY <1>3, MinimoExiste
<1> HIDE DEF k0
<1>5. k0 \in DOMAIN instanciasIO[d] /\ enIO[i] = NINGUNO /\ i \in Instancias
  BY <1>2, <1>4 DEF Libres
<1>6. NombreIO[i] = d /\ Esta(instanciasIO[d], i)
  BY <1>5 DEF InvIO, NombreCorrecto, Esta
<1>7. dispositivo[i] = NINGUNO
  BY <1>5 DEF InvIO, DispositivoAnotado
<1>8. finIO[i].pc = "inactivo"
  BY <1>5, TiposDeIO DEF InvIO, FinAnotado, InvTipos, Nombran, FinNombra
<1> QED
  BY <1>1, <1>5, <1>6, <1>7, <1>8

\* The request of manejarIO keeps InvIO.
LEMMA IOSolicitarIO ==
  ASSUME InvTipos, InvIO, NEW c \in CPUs, IOSolicitar(c)
  PROVE  InvIO'
<1> DEFINE m == manejador[c]
           i == PrimeraLibre(m.io)
<1>1. m.io \in NombresIO /\ m.pid \in Pid
  BY DEF IOSolicitar, En, InvTipos, Nombran, ManejadorNombra, PCsIO
<1>2. CASE Libres(m.io) = {}
  BY <1>2, IOQuieta DEF IOSolicitar
<1>3. CASE Libres(m.io) # {}
  <2>1. /\ i \in Instancias /\ NombreIO[i] = m.io /\ Esta(instanciasIO[m.io], i)
        /\ dispositivo[i] = NINGUNO /\ finIO[i].pc = "inactivo"
    BY <1>1, <1>3, LibreOciosa
  <2>2. /\ enIO' = [enIO EXCEPT ![i] = m.pid]
        /\ dispositivo' = [dispositivo EXCEPT ![i] = m.pid]
        /\ UNCHANGED <<instanciasIO, finIO>>
    BY <1>3 DEF IOSolicitar, Solicitar
  <2> HIDE DEF i, m
  <2> QED
    BY <2>1, <2>2, TiposDeIO
       DEF InvIO, NombreCorrecto, OcupadaConectada, DispositivoAnotado, FinAnotado
<1> QED
  BY <1>2, <1>3

\* Every step of manejarFinIO keeps InvIO.
LEMMA PasoFinIOIO ==
  ASSUME InvTipos, InvIO, NEW i \in Instancias, PasoFinIO(i)
  PROVE  InvIO'
<1>1. CASE ~LiberarInstancia(i)
  <2>1. /\ UNCHANGED <<instanciasIO, enIO, dispositivo>>
        /\ finIO[i].pc # "inactivo"
    BY <1>1 DEF PasoFinIO, FinIOTomarLista, FinIOMirarProceso,
                SuspBlockedASuspReady, BlockedAReady
  <2>2. \A j \in Instancias : j # i => finIO'[j] = finIO[j]
    BY <1>1, TiposDeIO
       DEF PasoFinIO, FinIOTomarLista, FinIOMirarProceso,
           SuspBlockedASuspReady, BlockedAReady, FinIOMovido
  <2>3. finIO'[i].pc = "inactivo" \/ finIO'[i].pid = finIO[i].pid
    <3>1. CASE FinIOTomarLista(i)
      BY <3>1, TiposDeIO DEF FinIOTomarLista
    <3>2. CASE FinIOMirarProceso(i)
      BY <3>2, TiposDeIO DEF FinIOMirarProceso, SinFin
    <3>3. CASE SuspBlockedASuspReady(i) \/ BlockedAReady(i)
      BY <3>3, TiposDeIO DEF SuspBlockedASuspReady, BlockedAReady, FinIOMovido,
                             SinFin
    <3> QED
      BY <1>1, <3>1, <3>2, <3>3 DEF PasoFinIO
  <2> QED
    BY <2>1, <2>2, <2>3
       DEF InvIO, NombreCorrecto, OcupadaConectada, DispositivoAnotado, FinAnotado
<1>2. CASE LiberarInstancia(i)
  <2>1. /\ finIO[i].pc = "instancia" /\ UNCHANGED instanciasIO
        /\ finIO' = [finIO EXCEPT ![i] = SinFin]
    BY <1>2 DEF LiberarInstancia
  <2>2. \/ enIO' = [enIO EXCEPT ![i] = NINGUNO] /\ dispositivo' = dispositivo
        \/ \E p : /\ enIO' = [enIO EXCEPT ![i] = p]
                  /\ dispositivo' = [dispositivo EXCEPT ![i] = p]
    BY <1>2 DEF LiberarInstancia, Solicitar
  <2>3. /\ dispositivo[i] = NINGUNO /\ enIO[i] # NINGUNO
        /\ Esta(instanciasIO[NombreIO[i]], i)
    BY <2>1, TiposDeIO
       DEF InvIO, FinAnotado, OcupadaConectada, InvTipos, Nombran, FinNombra
  <2>4. CASE enIO' = [enIO EXCEPT ![i] = NINGUNO] /\ dispositivo' = dispositivo
    BY <2>1, <2>3, <2>4, TiposDeIO
       DEF InvIO, NombreCorrecto, OcupadaConectada, DispositivoAnotado,
           FinAnotado, SinFin
  <2>5. CASE \E p : /\ enIO' = [enIO EXCEPT ![i] = p]
                    /\ dispositivo' = [dispositivo EXCEPT ![i] = p]
    BY <2>1, <2>3, <2>5, TiposDeIO
       DEF InvIO, NombreCorrecto, OcupadaConectada, DispositivoAnotado,
           FinAnotado, SinFin
  <2> QED
    BY <2>2, <2>4, <2>5
<1> QED
  BY <1>1, <1>2

\* A device that connects or wakes up keeps InvIO.
LEMMA PasoDispositivoIO ==
  ASSUME InvTipos, InvIO, NEW i \in Instancias, HandshakeIO(i) \/ TerminarIO(i)
  PROVE  InvIO'
<1>1. CASE HandshakeIO(i)
  <2> DEFINE d == NombreIO[i]
             s == instanciasIO[d]
  <2>1. /\ UNCHANGED <<dispositivo, finIO>>
        /\ instanciasIO' = [instanciasIO EXCEPT ![d] = Append(s, i)]
        /\ enIO' = [enIO EXCEPT ![i] = NINGUNO] /\ ~Esta(s, i)
    BY <1>1 DEF HandshakeIO
  <2>2. enIO[i] = NINGUNO /\ enIO' = enIO
    BY <2>1, TiposDeIO DEF InvIO, OcupadaConectada
  <2>3. d \in NombresIO /\ s \in Seq(Instancias)
    BY TiposDeIO
  <2>4. /\ DOMAIN Append(s, i) = 1 .. Len(s) + 1 /\ DOMAIN s = 1 .. Len(s)
        /\ Append(s, i)[Len(s) + 1] = i /\ Len(s) \in Nat
        /\ \A k \in 1 .. Len(s) : Append(s, i)[k] = s[k]
    BY <2>3
  <2>5. /\ instanciasIO'[d] = Append(s, i)
        /\ \A f \in NombresIO : f # d => instanciasIO'[f] = instanciasIO[f]
    BY <2>1, <2>3, TiposDeIO
  <2>6. NombreCorrecto'
    <3>1. \A k \in DOMAIN Append(s, i) : NombreIO[Append(s, i)[k]] = d
      BY <2>3, <2>4 DEF InvIO, NombreCorrecto
    <3> QED
      BY <2>5, <3>1 DEF InvIO, NombreCorrecto
  <2>7. OcupadaConectada'
    <3>1. \A j \in Instancias : Esta(s, j) => Esta(Append(s, i), j)
      BY <2>4 DEF Esta
    <3> QED
      BY <2>2, <2>5, <3>1, TiposDeIO DEF InvIO, OcupadaConectada
  <2> QED
    BY <2>1, <2>2, <2>6, <2>7 DEF InvIO, DispositivoAnotado, FinAnotado
<1>2. CASE TerminarIO(i)
  <2>1. /\ dispositivo[i] # NINGUNO /\ UNCHANGED <<instanciasIO, enIO>>
        /\ finIO' = [finIO EXCEPT ![i] = [pc |-> "lista", pid |-> dispositivo[i]]]
        /\ dispositivo' = [dispositivo EXCEPT ![i] = NINGUNO]
    BY <1>2 DEF TerminarIO
  <2> QED
    BY <2>1, TiposDeIO
       DEF InvIO, NombreCorrecto, OcupadaConectada, DispositivoAnotado, FinAnotado
<1> QED
  BY <1>1, <1>2
---------------------------------------------------------------------------
(* The theorem about the devices. *)

\* No step of anybody breaks InvIO.
LEMMA PasoInvIO == ASSUME InvTipos, InvIO, [Next]_vars PROVE InvIO'
<1>1. CASE PasoCorto
  BY <1>1, IOQuieta DEF PasoCorto, EsperarCpu, EsperarReady, ElegirCpu,
     ElegirPid, LeerPcb, EnviarProceso, ReadyAExecute, CambiarAExecute, Panico
<1>2. CASE PasoLargo
  BY <1>2, IOQuieta DEF PasoLargo, DespertarLargo, IntentarReanudar,
     SuspReadyAReady, SuspReadyVacia, IntentarIniciar, NewAReady, NewVacia,
     Panico
<1>3. CASE AvisarCpuLibre
  BY <1>3, IOQuieta DEF AvisarCpuLibre
<1>4. CASE \E p \in Pid, n \in Numero : PasoTimer(p, n)
  BY <1>4, IOQuieta DEF PasoTimer, DespertarTimer, SuspenderEnMemoria,
                        BlockedASuspBlocked
<1>5. ASSUME NEW c \in CPUs, PasoSyscall(c), ~IOSolicitar(c) PROVE InvIO'
  BY <1>5, IOQuieta DEF PasoSyscall, MarcarLibre, FinEnMemoria, FinEnCola,
     FinEnLog, FinEnMapa, IOTomarLista, IODescartar, IOInexistente, IOBloquear, DumpMirar,
     DumpBloquear, DumpCambiar, EnviarDump, DumpVolver, InitCrear,
     InitAgregarNew, InitReenviar, Panico
<1>6. CASE \E i \in Instancias : PasoFinIO(i)
  BY <1>6, PasoFinIOIO
<1>7. CASE \E c \in CPUs : HandshakeCPU(c) \/ EmitirSyscall(c)
  BY <1>7, IOQuieta DEF HandshakeCPU, EmitirSyscall
<1>8. CASE \E i \in Instancias : HandshakeIO(i) \/ TerminarIO(i)
  BY <1>8, PasoDispositivoIO
<1>9. CASE UNCHANGED vars
  BY <1>9, IOQuieta DEF vars
<1> QED
  BY <1>1, <1>2, <1>3, <1>4, <1>5, <1>6, <1>7, <1>8, <1>9, IOSolicitarIO
     DEF Next, PasoKernel, PasoEntorno, Reposo

\* An IO module (InstanciaIO) works for at most one process, the one noted as
\* its PidProcesoActual, from the request to the end of manejarFinIO, however
\* requests, ends and connections interleave.
THEOREM InstanciaParaUno == Spec => []InstanciaExclusiva
<1>1. Init => InvIO
  BY InicioIO
<1>2. InvTipos /\ InvIO /\ [Next]_vars => InvIO'
  BY PasoInvIO
<1>3. InvTipos /\ InvIO => InstanciaExclusiva
  BY TiposDeIO
     DEF InvIO, DispositivoAnotado, FinAnotado, InstanciaExclusiva, Atiende
<1> QED
  BY <1>1, <1>2, <1>3, InvTiposSiempre, PTL DEF Spec

---------------------------------------------------------------------------
(* Who a step does not concern. *)

\* What the handler of c does to q does not change what is known of q.
Fase(pc) ==
  IF pc \in {"fin_log", "fin_mapa"} THEN "sin_cola"
  ELSE IF pc \in {"dump_cambia", "io_bloquea"} THEN pc ELSE "otra"

\* What the handler of c knows of q does not change.
MismaMano(c, q) ==
  \/ manejador'[c] = manejador[c]
  \/ ~Maneja(c, q) /\ ~Maneja(c, q)' /\ ~Crea(c, q) /\ ~Crea(c, q)'
  \/ /\ Maneja(c, q) /\ Maneja(c, q)' /\ ~Crea(c, q) /\ ~Crea(c, q)'
     /\ manejador'[c].n = manejador[c].n /\ manejador'[c].op = manejador[c].op
     /\ EstadoEn(c)' = EstadoEn(c)
     /\ Fase(manejador'[c].pc) = Fase(manejador[c].pc)

\* The step does not concern q.
AjenoTabla(q) ==
  /\ mapa'[q] = mapa[q] /\ emitidas'[q] = emitidas[q]
  /\ q >= pidCounter' => q >= pidCounter
  /\ \A e \in Estados : Esta(cola'[e], q) <=> Esta(cola[e], q)

\* Nobody takes q in hand or lets it go.
AjenoManos(q) ==
  /\ \A c \in CPUs : MismaMano(c, q)
  /\ \A c \in CPUs : \/ ejecuta'[c] = ejecuta[c]
                     \/ ejecuta[c].pid # q /\ ejecuta'[c].pid # q
  /\ corto' = corto \/ (~CortoTrae(q) /\ ~CortoTrae(q)')
  /\ largo' = largo \/ (~LargoTrae(q) /\ ~LargoTrae(q)')
  /\ Suspende(q)' => Suspende(q)

\* Nothing changes in where q waits.
AjenoEspera(q) ==
  /\ \A i \in Instancias : Atiende(i, q)' <=> Atiende(i, q)
  /\ \A d \in NombresIO : Esta(esperaIO'[d], q) <=> Esta(esperaIO[d], q)

\* Who is neither moved nor taken in hand by a step is in order after it.
LEMMA AjenoSigueEnMano ==
  ASSUME NEW q \in Pid, EnMano(q), AjenoTabla(q), AjenoManos(q)
  PROVE  EnMano(q)'
<1> USE DEF AjenoTabla, AjenoManos
<1>0. /\ corto'.pc = "cambia" /\ corto'.pid = q <=> corto.pc = "cambia" /\ corto.pid = q
      /\ CortoTrae(q)' <=> CortoTrae(q)
      /\ Despacha(q)' <=> Despacha(q)
      /\ LargoTrae(q)' <=> LargoTrae(q)
      /\ corto'.pc = "envia" /\ corto'.pid = q =>
              corto.pc = "envia" /\ corto.pid = q /\ corto' = corto
  BY DEF CortoTrae, Despacha, LargoTrae
<1>1. \A c \in CPUs : /\ Maneja(c, q)' <=> Maneja(c, q)
                      /\ Crea(c, q)' <=> Crea(c, q)
                      /\ Maneja(c, q) => /\ manejador'[c].n = manejador[c].n
                                         /\ EstadoEn(c)' = EstadoEn(c)
                                         /\ Fase(manejador'[c].pc) = Fase(manejador[c].pc)
                      /\ ejecuta'[c].pid = q <=> ejecuta[c].pid = q
                      /\ ejecuta[c].pid = q => ejecuta'[c] = ejecuta[c]
  BY DEF MismaMano, Maneja, Crea, EstadoEn
<1>2. \A c \in CPUs : Maneja(c, q) =>
        /\ manejador'[c].pc \in {"fin_log", "fin_mapa"} <=>
             manejador[c].pc \in {"fin_log", "fin_mapa"}
        /\ manejador'[c].pc = "dump_cambia" <=> manejador[c].pc = "dump_cambia"
        /\ manejador'[c].pc = "io_bloquea" <=> manejador[c].pc = "io_bloquea"
  BY <1>1 DEF Fase
<1>3. EnTransicion(q)' <=> EnTransicion(q)
  BY <1>0, <1>1, <1>2 DEF EnTransicion, Maneja, Crea
<1>4. \A S : SoloEn(q, S)' <=> SoloEn(q, S)
  BY DEF SoloEn
<1>5. Ubicado(q)'
  BY <1>0, <1>1, <1>2, <1>3, <1>4 DEF EnMano, Ubicado, SoloEn
<1>6. \A c \in CPUs : Ocupa(c, q)' <=> Ocupa(c, q)
  BY <1>1 DEF Ocupa, Maneja
<1>7. UnaMano(q)'
  BY <1>1, <1>6 DEF EnMano, UnaMano
<1>8. ManoCpu(q)'
  BY <1>0, <1>1 DEF EnMano, ManoCpu, Vivo
<1>9. ManoPlanificador(q)'
  <2>1. CortoTrae(q)' => Vivo(q, {"READY"})'
    BY <1>0 DEF EnMano, ManoPlanificador, Vivo
  <2>2. Despacha(q)' => corto'.cpu \in CPUs /\ ejecuta'[corto'.cpu].pid = q
    BY <1>0, <1>1 DEF EnMano, ManoPlanificador, Despacha, CortoTrae
  <2>3. LargoTrae(q)' =>
          /\ Vivo(q, {IF largo.pc = "new_mueve" THEN "NEW" ELSE "SUSP_READY"})'
          /\ \A c \in CPUs : ~Crea(c, q)'
    BY <1>0, <1>1 DEF EnMano, ManoPlanificador, Vivo
  <2>4. Suspende(q)' => Vivo(q, {"BLOCKED"})' /\ \A c \in CPUs : ~Maneja(c, q)'
    BY <1>1 DEF EnMano, ManoPlanificador, Vivo
  <2> QED
    BY <2>1, <2>2, <2>3, <2>4 DEF ManoPlanificador
<1>10. PCAlDia(q)'
  BY <1>0, <1>1, <1>2 DEF EnMano, PCAlDia
<1>11. SinCrear(q)'
  BY DEF EnMano, SinCrear
<1> QED
  BY <1>5, <1>7, <1>8, <1>9, <1>10, <1>11 DEF EnMano

\* The same with what it waits for: a step that does not concern q keeps
\* EnOrden(q).
LEMMA AjenoSigue ==
  ASSUME NEW q \in Pid, EnOrden(q), AjenoTabla(q), AjenoManos(q), AjenoEspera(q)
  PROVE  EnOrden(q)'
<1>1. EnMano(q)'
  BY AjenoSigueEnMano DEF EnOrden
<1>2. UnSoloLugar(q)'
  BY DEF EnOrden, UnSoloLugar, AjenoEspera
<1>3. /\ Pendiente(q)' <=> Pendiente(q)
      /\ Vivo(q, {"BLOCKED", "SUSP_BLOCKED"})' <=> Vivo(q, {"BLOCKED", "SUSP_BLOCKED"})
  BY DEF Pendiente, AjenoEspera, AjenoTabla, Vivo
<1>4. ASSUME NEW c \in CPUs
      PROVE  /\ manejador'[c].pid = q /\ manejador'[c].pc = "io_bloquea" <=>
                  manejador[c].pid = q /\ manejador[c].pc = "io_bloquea"
             /\ Maneja(c, q)' /\ manejador'[c].op = "DUMP" <=>
                  Maneja(c, q) /\ manejador[c].op = "DUMP"
  BY DEF AjenoManos, MismaMano, Maneja, Fase
<1>5. (PorBloquear(q)' <=> PorBloquear(q)) /\ (PorDump(q)' <=> PorDump(q))
  BY <1>4 DEF PorBloquear, PorDump, Maneja
<1> QED
  BY <1>1, <1>2, <1>3, <1>5 DEF EnOrden, EsperaJusta, DebeEsperar

\* The handler of c has p in hand and nobody else has.
SoloManeja(c, p) ==
  /\ Maneja(c, p) /\ \A d \in CPUs \ {c} : ~Maneja(d, p)
  /\ \A d \in CPUs : ejecuta[d].pid # p /\ ~Crea(d, p)
  /\ ~CortoTrae(p) /\ ~LargoTrae(p) /\ ~Suspende(p)

\* The program of p runs on c and nobody has p in hand but the planner that
\* dispatched it there.
SoloEjecuta(c, p) ==
  /\ ejecuta[c].pid = p /\ \A d \in CPUs \ {c} : ejecuta[d].pid # p
  /\ \A d \in CPUs : ~Maneja(d, p) /\ ~Crea(d, p)
  /\ CortoTrae(p) => Despacha(p) /\ corto.cpu = c
  /\ ~LargoTrae(p) /\ ~Suspende(p)

\* No CPU, handler or dispatch has p.
Suelto(p) ==
  /\ \A d \in CPUs : ejecuta[d].pid # p /\ ~Maneja(d, p) /\ ~Crea(d, p)
  /\ ~Despacha(p)

\* The queue of a process whose syscall the handler of c serves.
ColaEn(c) ==
  IF manejador[c].pc \in {"fin_log", "fin_mapa"} THEN {}
  ELSE IF manejador[c].pc = "dump_cambia" THEN {"BLOCKED"} ELSE {EstadoEn(c)}

\* The process of a handler is in EXECUTE or, during its dump, in BLOCKED.
LEMMA EstadoEnDos == \A c : EstadoEn(c) \in {"BLOCKED", "EXECUTE"}
BY DEF EstadoEn

\* The process of a handler is in that handler's hands only.
LEMMA AlManejar ==
  ASSUME InvCpus, NEW p \in Pid, EnMano(p), NEW c \in CPUs, Maneja(c, p)
  PROVE  /\ SoloManeja(c, p) /\ Vivo(p, {EstadoEn(c)}) /\ SoloEn(p, ColaEn(c))
         /\ manejador[c].n = emitidas[p] /\ ~(p >= pidCounter)
<1>1. Vivo(p, {EstadoEn(c)}) /\ manejador[c].n = emitidas[p]
  BY DEF EnMano, ManoCpu, PCAlDia
<1>2. \A d \in CPUs \ {c} : ~Maneja(d, p) /\ ejecuta[d].pid # p
  BY DEF EnMano, UnaMano, Ocupa, Maneja
<1>3. ejecuta[c].pid # p
  BY DEF InvCpus, EjecutaTiene, Maneja, Pid, NINGUNO
<1>4. (\A d \in CPUs : ~Crea(d, p)) /\ ~CortoTrae(p) /\ ~LargoTrae(p) /\ ~Suspende(p)
  BY <1>1, EstadoEnDos DEF EnMano, ManoCpu, ManoPlanificador, Vivo
<1>5. SoloManeja(c, p)
  BY <1>2, <1>3, <1>4 DEF SoloManeja
<1>6. SoloEn(p, ColaEn(c))
  <2>1. CASE manejador[c].pc \in {"fin_log", "fin_mapa", "dump_cambia"}
    BY <2>1 DEF EnMano, Ubicado, ColaEn
  <2>2. CASE manejador[c].pc \notin {"fin_log", "fin_mapa", "dump_cambia"}
    <3>1. ~EnTransicion(p)
      BY <1>5, <2>2 DEF EnTransicion, SoloManeja, Maneja, Crea, CortoTrae
    <3> QED
      BY <1>1, <2>2, <3>1 DEF EnMano, Ubicado, ColaEn, Vivo
  <2> QED
    BY <2>1, <2>2
<1>7. ~(p >= pidCounter)
  BY <1>1 DEF EnMano, SinCrear, Vivo
<1> QED
  BY <1>1, <1>5, <1>6, <1>7

\* A step that leaves p with one handler alone leaves it in order.
LEMMA QuedaManejado ==
  ASSUME NEW p \in Pid, NEW c \in CPUs, SoloManeja(c, p)',
         Vivo(p, {EstadoEn(c)})', SoloEn(p, ColaEn(c))',
         manejador'[c].n = emitidas'[p],
         manejador'[c].pc = "io_bloquea" => mapa'[p].PC = emitidas'[p],
         ~(p >= pidCounter')
  PROVE  EnMano(p)'
<1>1. Ubicado(p)'
  <2>1. EnTransicion(p)' <=> manejador'[c].pc \in {"fin_log", "fin_mapa", "dump_cambia"}
    BY DEF EnTransicion, SoloManeja, Maneja, Crea, CortoTrae
  <2> QED
    BY <2>1 DEF SoloManeja, Ubicado, ColaEn, Vivo, CortoTrae
<1>2. UnaMano(p)'
  BY DEF UnaMano, SoloManeja, Ocupa, Maneja
<1>3. ManoCpu(p)'
  BY DEF ManoCpu, SoloManeja
<1>4. ManoPlanificador(p)'
  BY DEF ManoPlanificador, SoloManeja, CortoTrae, Despacha
<1>5. PCAlDia(p)'
  BY DEF PCAlDia, SoloManeja, CortoTrae
<1>6. SinCrear(p)'
  BY DEF SinCrear
<1> QED
  BY <1>1, <1>2, <1>3, <1>4, <1>5, <1>6 DEF EnMano

\* The process of a CPU is in no other hands than the planner's that sent it
\* there.
LEMMA AlEjecutar ==
  ASSUME InvCpus, NEW p \in Pid, EnMano(p), NEW c \in CPUs, ejecuta[c].pid = p
  PROVE  /\ SoloEjecuta(c, p) /\ ejecuta[c].PC = emitidas[p]
         /\ Vivo(p, {IF Despacha(p) THEN "READY" ELSE "EXECUTE"})
         /\ corto.pc # "cambia" \/ corto.pid # p =>
              SoloEn(p, {IF Despacha(p) THEN "READY" ELSE "EXECUTE"})
         /\ Despacha(p) => mapa[p].PC = emitidas[p]
         /\ ~(p >= pidCounter)
<1>1. Vivo(p, {IF Despacha(p) THEN "READY" ELSE "EXECUTE"})
  BY DEF EnMano, ManoCpu
<1>2. \A d \in CPUs \ {c} : ~Maneja(d, p) /\ ejecuta[d].pid # p
  BY DEF EnMano, UnaMano, Ocupa, Maneja
<1>3. ~Maneja(c, p)
  BY DEF InvCpus, EjecutaTiene, Maneja, Pid, NINGUNO
<1>4. CortoTrae(p) => Despacha(p) /\ corto.cpu = c
  BY <1>1, <1>2 DEF EnMano, ManoPlanificador, Vivo
<1>5. (\A d \in CPUs : ~Crea(d, p)) /\ ~LargoTrae(p) /\ ~Suspende(p)
  BY <1>1 DEF EnMano, ManoCpu, ManoPlanificador, Vivo
<1>6. SoloEjecuta(c, p)
  BY <1>2, <1>3, <1>4, <1>5 DEF SoloEjecuta
<1>7. ASSUME corto.pc # "cambia" \/ corto.pid # p PROVE ~EnTransicion(p)
  BY <1>6, <1>7 DEF EnTransicion, SoloEjecuta, Maneja, Crea
<1>8. ~(p >= pidCounter)
  BY <1>1 DEF EnMano, SinCrear, Vivo
<1> QED
  BY <1>1, <1>6, <1>7, <1>8 DEF EnMano, Ubicado, Vivo, PCAlDia, SoloEjecuta

\* A step that leaves p running on one CPU alone leaves it in order.
LEMMA QuedaEjecutando ==
  ASSUME NEW p \in Pid, NEW c \in CPUs, SoloEjecuta(c, p)',
         ejecuta'[c].PC = emitidas'[p],
         Vivo(p, {IF Despacha(p) THEN "READY" ELSE "EXECUTE"})',
         Despacha(p)' => mapa'[p].PC = emitidas'[p],
         SoloEn(p, {IF corto.pc = "a_execute" /\ corto.pid = p THEN "READY"
                    ELSE "EXECUTE"})',
         ~(p >= pidCounter')
  PROVE  EnMano(p)'
<1>1. Ubicado(p)'
  <2>1. EnTransicion(p)' <=> corto'.pc = "cambia" /\ corto'.pid = p
    BY DEF EnTransicion, SoloEjecuta, Maneja, Crea
  <2> QED
    BY <2>1 DEF SoloEjecuta, Ubicado, Vivo, Despacha
<1>2. UnaMano(p)'
  BY DEF UnaMano, SoloEjecuta, Ocupa, Maneja
<1>3. ManoCpu(p)'
  BY DEF ManoCpu, SoloEjecuta
<1>4. ManoPlanificador(p)'
  BY DEF ManoPlanificador, SoloEjecuta, CortoTrae, Despacha
<1>5. PCAlDia(p)'
  BY DEF PCAlDia, SoloEjecuta, Vivo, Despacha, CortoTrae
<1>6. SinCrear(p)'
  BY DEF SinCrear
<1> QED
  BY <1>1, <1>2, <1>3, <1>4, <1>5, <1>6 DEF EnMano

\* A step that leaves p with no CPU and no handler leaves it in order, in the
\* queue of its state.
LEMMA QuedaSuelto ==
  ASSUME NEW p \in Pid, Suelto(p)', mapa'[p] # NADA,
         mapa'[p].estado # "EXECUTE", SoloEn(p, {mapa[p].estado})',
         mapa'[p].PC = emitidas'[p],
         CortoTrae(p)' => mapa'[p].estado = "READY",
         corto'.pc = "envia" /\ corto'.pid = p => corto'.PC = emitidas'[p],
         LargoTrae(p)' => mapa'[p].estado = IF largo'.pc = "new_mueve" THEN "NEW"
                                            ELSE "SUSP_READY",
         Suspende(p)' => mapa'[p].estado = "BLOCKED",
         ~(p >= pidCounter')
  PROVE  EnMano(p)'
<1>1. Ubicado(p)'
  <2>1. ~EnTransicion(p)'
    BY DEF EnTransicion, Suelto, Maneja, Crea, Despacha
  <2> QED
    BY <2>1 DEF Suelto, Ubicado, Despacha
<1>2. UnaMano(p)'
  BY DEF UnaMano, Suelto, Ocupa, Maneja
<1>3. ManoCpu(p)'
  BY DEF ManoCpu, Suelto
<1>4. ManoPlanificador(p)'
  BY DEF ManoPlanificador, Suelto, Vivo
<1>5. PCAlDia(p)'
  BY DEF PCAlDia, Suelto
<1>6. SinCrear(p)'
  BY DEF SinCrear
<1> QED
  BY <1>1, <1>2, <1>3, <1>4, <1>5, <1>6 DEF EnMano

\* A process of a state in which no CPU has it is where its state says.
LEMMA AlEstarSuelto ==
  ASSUME NEW p \in Pid, EnMano(p), mapa[p] # NADA,
         \/ mapa[p].estado \in {"SUSP_BLOCKED", "SUSP_READY"}
         \/ mapa[p].estado = "READY" /\ ~Despacha(p)
         \/ mapa[p].estado = "BLOCKED" /\ \A c \in CPUs : ~Maneja(c, p)
         \/ mapa[p].estado = "NEW" /\ \A c \in CPUs : ~Crea(c, p)
  PROVE  /\ Suelto(p) /\ SoloEn(p, {mapa[p].estado})
         /\ mapa[p].PC = emitidas[p] /\ ~(p >= pidCounter)
         /\ CortoTrae(p) => mapa[p].estado = "READY"
         /\ LargoTrae(p) => mapa[p].estado = IF largo.pc = "new_mueve" THEN "NEW"
                                             ELSE "SUSP_READY"
         /\ Suspende(p) => mapa[p].estado = "BLOCKED"
<1>1. ~Despacha(p)
  BY DEF EnMano, ManoPlanificador, Vivo, CortoTrae, Despacha
<1>2. \A d \in CPUs : ejecuta[d].pid # p /\ ~Maneja(d, p) /\ ~Crea(d, p)
  BY <1>1, EstadoEnDos DEF EnMano, ManoCpu, Vivo
<1>3. ~EnTransicion(p)
  BY <1>1, <1>2 DEF EnTransicion, Maneja, Crea, Despacha
<1>4. SoloEn(p, {mapa[p].estado}) /\ mapa[p].PC = emitidas[p] /\ ~(p >= pidCounter)
  BY <1>2, <1>3 DEF EnMano, Ubicado, PCAlDia, SinCrear
<1> QED
  BY <1>1, <1>2, <1>4 DEF Suelto, EnMano, ManoPlanificador, Vivo

\* In NEW, READY, SUSP_BLOCKED and SUSP_READY there are only processes of that
\* state.
LEMMA AlEstarEnCola ==
  ASSUME NEW p \in Pid, EnMano(p), NEW e \in Estados \ {"EXECUTE", "BLOCKED"},
         Esta(cola[e], p)
  PROVE  mapa[p] # NADA /\ mapa[p].estado = e /\ \A c \in CPUs : ~Crea(c, p)
<1>1. ~EnTransicion(p)
  BY DEF EnTransicion, EnMano, Ubicado, SoloEn, Maneja, Crea
<1> QED
  BY <1>1 DEF EnMano, Ubicado, SoloEn, EnTransicion, Crea

---------------------------------------------------------------------------
(* What it waits for, and from EnOrden of one process to that of all. *)

\* A process whose syscall is being served waits for a device if it is about
\* to block; one that no handler has, if it is blocked.
LEMMA EsperaManejado ==
  ASSUME NEW p, NEW c \in CPUs, OpDelPc, SoloManeja(c, p), Vivo(p, {EstadoEn(c)})
  PROVE  DebeEsperar(p) <=> manejador[c].pc = "io_bloquea"
<1>1. PorBloquear(p) <=> manejador[c].pc = "io_bloquea"
  BY DEF PorBloquear, SoloManeja, Maneja
<1>2. manejador[c].op = "DUMP" => PorDump(p)
  BY DEF PorDump, SoloManeja, Maneja
<1>3. manejador[c].op # "DUMP" => ~Vivo(p, {"BLOCKED", "SUSP_BLOCKED"})
  BY DEF Vivo, EstadoEn
<1> QED
  BY <1>1, <1>2, <1>3 DEF DebeEsperar

\* After a step that leaves p with a handler, p is to wait exactly when the
\* handler of an IO is about to block it.
LEMMA EsperaManejadoDespues ==
  ASSUME NEW p, NEW c \in CPUs, OpDelPc', SoloManeja(c, p)', Vivo(p, {EstadoEn(c)})'
  PROVE  DebeEsperar(p)' <=> manejador'[c].pc = "io_bloquea"
<1>1. PorBloquear(p)' <=> manejador'[c].pc = "io_bloquea"
  BY DEF PorBloquear, SoloManeja, Maneja
<1>2. manejador'[c].op = "DUMP" => PorDump(p)'
  BY DEF PorDump, SoloManeja, Maneja
<1>3. manejador'[c].op # "DUMP" => ~Vivo(p, {"BLOCKED", "SUSP_BLOCKED"})'
  BY DEF Vivo, EstadoEn
<1> QED
  BY <1>1, <1>2, <1>3 DEF DebeEsperar

\* Without a handler, who must wait for a device is who is blocked.
LEMMA EsperaLibre ==
  ASSUME NEW p, \A c \in CPUs : ~Maneja(c, p)
  PROVE  DebeEsperar(p) <=> Vivo(p, {"BLOCKED", "SUSP_BLOCKED"})
BY DEF DebeEsperar, PorBloquear, PorDump, Maneja

\* The same after the step.
LEMMA EsperaLibreDespues ==
  ASSUME NEW p, \A c \in CPUs : ~Maneja(c, p)'
  PROVE  DebeEsperar(p)' <=> Vivo(p, {"BLOCKED", "SUSP_BLOCKED"})'
BY DEF DebeEsperar, PorBloquear, PorDump, Maneja

\* Who does not move in or out of a device waits as before.
LEMMA EsperaSigue ==
  ASSUME NEW p \in Pid, EnOrden(p), AjenoEspera(p), EnMano(p)',
         DebeEsperar(p)' <=> DebeEsperar(p)
  PROVE  EnOrden(p)'
BY DEF EnOrden, EsperaJusta, UnSoloLugar, Pendiente, AjenoEspera

\* The step concerns q in no way.
Ajeno(q) == AjenoTabla(q) /\ AjenoManos(q) /\ AjenoEspera(q)

\* A step that concerns p alone keeps InvProcesos if it keeps p in order.
LEMMA SoloToca ==
  ASSUME InvProcesos, NEW p \in Pid, \A q \in Pid \ {p} : Ajeno(q),
         EnOrden(p)', ColasSinRepetidos', OpDelPc'
  PROVE  InvProcesos'
<1>1. ASSUME NEW q \in Pid, q # p PROVE EnOrden(q)'
  BY <1>1, AjenoSigue DEF InvProcesos, Ajeno
<1> QED
  BY <1>1 DEF InvProcesos

\* A step that concerns nobody keeps InvProcesos.
LEMMA NoToca ==
  ASSUME InvProcesos, \A q \in Pid : Ajeno(q), ColasSinRepetidos', OpDelPc'
  PROVE  InvProcesos'
<1>1. ASSUME NEW q \in Pid PROVE EnOrden(q)'
  BY <1>1, AjenoSigue DEF InvProcesos, Ajeno
<1> QED
  BY <1>1 DEF InvProcesos

\* The mutex of a failed dump stays with its handler, when the one that
\* changes hands belongs to nobody or to another.
LEMMA DumpFallidoSigue ==
  ASSUME InvTipos, OpDelPc, NEW d \in CPUs, manejador'[d] = manejador[d],
         NEW p \in Pid, \A q \in Pid \ {p} : mutexProc'[q] = mutexProc[q],
         mutexProc[p] # GSyscall(d),
         manejador[d].op = "DUMP", manejador[d].pc \in {"fin_memoria"} \cup PCsFin
  PROVE  mutexProc'[manejador[d].pid] = GSyscall(d)
<1>1. mutexProc[manejador[d].pid] = GSyscall(d)
  BY DEF OpDelPc
<1>2. manejador[d].pid \in Pid
  BY DEF InvTipos, Nombran, ManejadorNombra, PCsFin
<1> QED
  BY <1>1, <1>2

\* A step that moves no handler and takes no mutex of one keeps OpDelPc.
LEMMA OpSigue ==
  ASSUME InvTipos, OpDelPc, manejador' = manejador, NEW p \in Pid,
         \A q \in Pid \ {p} : mutexProc'[q] = mutexProc[q],
         \A d \in CPUs : mutexProc[p] # GSyscall(d)
  PROVE  OpDelPc'
<1>1. ASSUME NEW d \in CPUs, manejador[d].op = "DUMP",
             manejador[d].pc \in {"fin_memoria"} \cup PCsFin
      PROVE  mutexProc'[manejador[d].pid] = GSyscall(d)
  BY <1>1, DumpFallidoSigue
<1> QED
  BY <1>1 DEF OpDelPc

\* What OpDelPc says of one handler.
OpDe(c) ==
  /\ manejador[c].pc \in {"dump_mira", "dump_bloquea", "dump_cambia",
                          "dump_toma", "dump_vuelve"} =>
       manejador[c].op = "DUMP"
  /\ manejador[c].op = "DUMP" =>
       manejador[c].pc \notin PCsIO \cup {"init_crea", "init_new",
                                          "init_reenvia"}
  /\ manejador[c].op = "DUMP"
       /\ manejador[c].pc \in {"fin_memoria"} \cup PCsFin =>
       mutexProc[manejador[c].pid] = GSyscall(c)

\* A step of the handler of c, which moves the mutex of its own process only,
\* keeps OpDelPc for the others.
LEMMA OpSigueOtros ==
  ASSUME InvTipos, OpDelPc, NEW c \in CPUs,
         \A d \in CPUs \ {c} : manejador'[d] = manejador[d],
         NEW p \in Pid, \A q \in Pid \ {p} : mutexProc'[q] = mutexProc[q],
         \/ mutexProc'[p] = mutexProc[p]
         \/ \A d \in CPUs \ {c} : mutexProc[p] # GSyscall(d),
         OpDe(c)'
  PROVE  OpDelPc'
<1>1. ASSUME NEW d \in CPUs \ {c}, manejador[d].op = "DUMP",
             manejador[d].pc \in {"fin_memoria"} \cup PCsFin
      PROVE  mutexProc'[manejador[d].pid] = GSyscall(d)
  <2>1. mutexProc[manejador[d].pid] = GSyscall(d) /\ manejador[d].pid \in Pid
    BY <1>1 DEF OpDelPc, InvTipos, Nombran, ManejadorNombra, PCsFin
  <2> QED
    BY <1>1, <2>1, DumpFallidoSigue
<1>2. ASSUME NEW d \in CPUs \ {c} PROVE OpDe(d)'
  BY <1>1, <1>2 DEF OpDelPc, OpDe
<1>3. \A d \in CPUs : OpDe(d)'
  BY <1>2
<1> QED
  BY <1>3 DEF OpDelPc, OpDe

\* The types of the process table, queues, mutexes and timers, from InvTipos.
LEMMA TiposDeProcesos ==
  ASSUME InvTipos
  PROVE  /\ mapa \in [Pid -> Procesos \cup {NADA}] /\ cola \in [Estados -> Seq(Pid)]
         /\ mutexProc \in [Pid -> Goroutines \cup {NADA}]
         /\ esperaIO \in [NombresIO -> Seq(Pid)] /\ emitidas \in [Pid -> 0 .. MaxSyscalls]
         /\ pidCounter \in 1 .. MaxPids
         /\ temporizador \in [Pid -> [Numero -> RegistroTimer]]
BY DEF InvTipos, TypeOK, TiposTabla, TiposSincronizacion, TiposIO, TiposPlanificadores

\* A step that leaves the devices alone changes no wait.
LEMMA EsperaQuieta ==
  ASSUME UNCHANGED <<dispositivo, finIO, esperaIO>>
  PROVE  \A q : AjenoEspera(q)
BY DEF AjenoEspera, Atiende, Esta

\* A step that leaves table and queues alone changes nobody's place.
LEMMA TablaQuieta ==
  ASSUME UNCHANGED <<mapa, cola, pidCounter, emitidas>>
  PROVE  \A q : AjenoTabla(q)
BY DEF AjenoTabla, Esta

\* A step that moves no goroutine changes nobody's hands.
LEMMA ManosQuietas ==
  ASSUME UNCHANGED <<manejador, ejecuta, corto, largo, temporizador>>
  PROVE  \A q : AjenoManos(q)
BY DEF AjenoManos, MismaMano, Suspende

\* A step that changes nothing of this.
LEMMA TodoQuieto ==
  ASSUME InvProcesos,
         UNCHANGED <<mapa, cola, pidCounter, emitidas, manejador, ejecuta, corto,
                     largo, temporizador, dispositivo, finIO, esperaIO, mutexProc>>
  PROVE  InvProcesos'
<1>1. \A q \in Pid : Ajeno(q)
  BY EsperaQuieta, TablaQuieta, ManosQuietas DEF Ajeno
<1>2. ColasSinRepetidos' /\ OpDelPc'
  BY DEF InvProcesos, ColasSinRepetidos, SinRepetidos, OpDelPc
<1> QED
  BY <1>1, <1>2, NoToca

\* The sort of a queue changes nobody's place.
LEMMA OrdenarCola ==
  ASSUME cola \in [Estados -> Seq(Pid)], ColasSinRepetidos, esperaIO' = esperaIO,
         NEW e \in Estados, NEW s,
         \/ s = cola[e]
         \/ /\ s \in [DOMAIN cola[e] -> {cola[e][i] : i \in DOMAIN cola[e]}]
            /\ \A i \in DOMAIN cola[e] : Esta(s, cola[e][i]),
         cola' = [cola EXCEPT ![e] = s], cola[e] # <<>>
  PROVE  /\ \A q, g : g \in Estados => (Esta(cola'[g], q) <=> Esta(cola[g], q))
         /\ ColasSinRepetidos' /\ s[1] \in Pid /\ Esta(cola[e], s[1])
         /\ \A g \in Estados : Len(cola'[g]) = Len(cola[g])
<1>1. cola[e] \in Seq(Pid) /\ SinRepetidos(cola[e])
  BY DEF ColasSinRepetidos
<1>2. /\ SinRepetidos(s) /\ s \in Seq(Pid) /\ Len(s) = Len(cola[e])
      /\ \A q : Esta(s, q) <=> Esta(cola[e], q)
  BY <1>1, OrdenExacto
<1>3. cola'[e] = s /\ \A g \in Estados : g # e => cola'[g] = cola[g]
  OBVIOUS
<1>4. 1 \in DOMAIN s
  BY <1>1, <1>2
<1>5. s[1] \in Pid /\ Esta(s, s[1])
  BY <1>2, <1>4 DEF Esta
<1> QED
  BY <1>2, <1>3, <1>5 DEF ColasSinRepetidos

\* The first three waits of the short-term planner name nobody.
LEMMA CortoSinNadie ==
  ASSUME InvTipos, InvProcesos, EsperarCpu \/ EsperarReady \/ ElegirCpu
  PROVE  InvProcesos'
<1>1. /\ UNCHANGED <<mapa, cola, pidCounter, emitidas, manejador, ejecuta, largo,
                     temporizador, dispositivo, finIO, esperaIO, mutexProc>>
      /\ corto.pc \in {"espera_cpu", "espera_ready", "elige_cpu"}
      /\ corto'.pc \in {"espera_cpu", "espera_ready", "elige_cpu", "elige_pid"}
  <2>1. CASE EsperarCpu
    BY <2>1, TiposDeCpus DEF EsperarCpu
  <2>3. CASE EsperarReady
    BY <2>3, TiposDeCpus DEF EsperarReady
  <2>2. CASE ElegirCpu
    BY <2>2, TiposDeCpus DEF ElegirCpu, CortoEsperando
  <2> QED
    BY <2>1, <2>2, <2>3
<1>2. \A q \in Pid : AjenoManos(q)
  BY <1>1 DEF AjenoManos, MismaMano, CortoTrae, Suspende
<1>3. \A q \in Pid : Ajeno(q)
  BY <1>1, <1>2, EsperaQuieta, TablaQuieta DEF Ajeno
<1>4. ColasSinRepetidos' /\ OpDelPc'
  BY <1>1 DEF InvProcesos, ColasSinRepetidos, SinRepetidos, OpDelPc
<1> QED
  BY <1>3, <1>4, NoToca

\* Cola_ready[0] is a process of READY in nobody's hands (or the step is a
\* panic, which changes no process).
LEMMA ElegirPidProcesos == ASSUME InvTipos, InvProcesos, ElegirPid PROVE InvProcesos'
<1>1. CASE cola["READY"] = <<>>
  BY <1>1, TodoQuieto DEF ElegirPid, Panico
<1>2. CASE cola["READY"] # <<>>
  <2>1. PICK s \in OrdenesReady : /\ cola' = [cola EXCEPT !["READY"] = s]
                                 /\ corto' = [corto EXCEPT !.pc = "lee_pcb", !.pid = s[1]]
    BY <1>2 DEF ElegirPid
  <2>2. /\ UNCHANGED <<mapa, pidCounter, emitidas, manejador, ejecuta, largo,
                     temporizador, dispositivo, finIO, esperaIO, mutexProc>>
        /\ corto.pc = "elige_pid"
    BY <1>2 DEF ElegirPid
  <2>3. /\ \A q, g : g \in Estados => (Esta(cola'[g], q) <=> Esta(cola[g], q))
        /\ ColasSinRepetidos' /\ s[1] \in Pid /\ Esta(cola["READY"], s[1])
    BY <1>2, <2>1, <2>2, OrdenarCola, TiposDeProcesos
       DEF OrdenesReady, Ordenadas, InvProcesos, Estados
  <2> DEFINE p == s[1]
  <2> HIDE DEF p
  <2>4. corto'.pc = "lee_pcb" /\ corto'.pid = p
    BY <2>1, TiposDeCpus DEF p
  <2>5. p \in Pid /\ EnOrden(p)
    BY <2>3 DEF InvProcesos, p
  <2>6. \A q \in Pid : AjenoTabla(q) /\ AjenoEspera(q) /\ (q # p => AjenoManos(q))
    BY <2>2, <2>3, <2>4, EsperaQuieta DEF AjenoTabla, AjenoManos, MismaMano, CortoTrae, Suspende
  <2>7. mapa[p] # NADA /\ mapa[p].estado = "READY"
    BY <2>3, <2>5, AlEstarEnCola DEF EnOrden, Estados, p
  <2>8. Suelto(p) /\ SoloEn(p, {mapa[p].estado}) /\ mapa[p].PC = emitidas[p] /\ ~(p >= pidCounter)
        /\ ~LargoTrae(p) /\ ~Suspende(p)
    BY <2>2, <2>5, <2>7, AlEstarSuelto DEF EnOrden, Despacha
  <2>9. EnMano(p)'
    <3>1. Suelto(p)' /\ ~LargoTrae(p)' /\ ~Suspende(p)'
      BY <2>2, <2>4, <2>8 DEF Suelto, Maneja, Crea, Despacha, LargoTrae, Suspende
    <3>2. SoloEn(p, {mapa[p].estado})'
      BY <2>2, <2>3, <2>8 DEF SoloEn
    <3> QED
      BY <2>2, <2>4, <2>5, <2>7, <2>8, <3>1, <3>2, QuedaSuelto
  <2>10. DebeEsperar(p)' <=> DebeEsperar(p)
    BY <2>2 DEF DebeEsperar, PorBloquear, PorDump, Vivo
  <2>11. EnOrden(p)'
    BY <2>5, <2>6, <2>9, <2>10, EsperaSigue
  <2>12. OpDelPc'
    BY <2>2 DEF InvProcesos, OpDelPc
  <2> QED
    BY <2>3, <2>5, <2>6, <2>11, <2>12, SoloToca DEF Ajeno
<1> QED
  BY <1>1, <1>2

\* The PC the planner reads is the one of the last syscall.
LEMMA LeerPcbProcesos == ASSUME InvTipos, InvProcesos, LeerPcb PROVE InvProcesos'
<1>0. PICK p \in Pid : p = corto.pid
  BY DEF LeerPcb, InvTipos, Nombran, CortoNombra
<1>1. p \in Pid /\ corto.pc = "lee_pcb" /\ CortoTrae(p)
  BY <1>0 DEF LeerPcb, CortoTrae
<1>2. EnOrden(p) /\ Vivo(p, {"READY"})
  BY <1>1 DEF InvProcesos, EnOrden, EnMano, ManoPlanificador
<1>3. /\ UNCHANGED <<mapa, cola, pidCounter, emitidas, manejador, ejecuta, largo,
                     temporizador, dispositivo, finIO, esperaIO, mutexProc>>
      /\ corto' = [corto EXCEPT !.pc = "envia", !.PC = mapa[p].PC]
  BY <1>0, <1>2 DEF LeerPcb, Vivo
<1>4. corto'.pc = "envia" /\ corto'.pid = p /\ corto'.PC = mapa[p].PC
  BY <1>0, <1>3, TiposDeCpus
<1>6. \A q \in Pid : AjenoTabla(q) /\ AjenoEspera(q) /\ (q # p => AjenoManos(q))
  BY <1>3, <1>4, <1>0, EsperaQuieta, TablaQuieta DEF AjenoManos, MismaMano, CortoTrae, Suspende
<1>7. Suelto(p) /\ SoloEn(p, {mapa[p].estado}) /\ mapa[p].PC = emitidas[p] /\ ~(p >= pidCounter)
      /\ ~LargoTrae(p) /\ ~Suspende(p)
  BY <1>1, <1>2, AlEstarSuelto DEF EnOrden, Despacha, Vivo
<1>8. EnMano(p)'
  <2>1. Suelto(p)' /\ ~LargoTrae(p)' /\ ~Suspende(p)'
    BY <1>3, <1>4, <1>7 DEF Suelto, Maneja, Crea, Despacha, LargoTrae, Suspende
  <2>2. SoloEn(p, {mapa[p].estado})'
    BY <1>3, <1>7 DEF SoloEn
  <2> QED
    BY <1>1, <1>2, <1>3, <1>4, <1>7, <2>1, <2>2, QuedaSuelto DEF Vivo
<1>9. DebeEsperar(p)' <=> DebeEsperar(p)
  BY <1>3 DEF DebeEsperar, PorBloquear, PorDump, Vivo
<1>10. EnOrden(p)'
  BY <1>1, <1>2, <1>6, <1>8, <1>9, EsperaSigue
<1>11. ColasSinRepetidos' /\ OpDelPc'
  BY <1>3 DEF InvProcesos, ColasSinRepetidos, SinRepetidos, OpDelPc
<1> QED
  BY <1>1, <1>6, <1>10, <1>11, SoloToca DEF Ajeno

---------------------------------------------------------------------------
(* The planners. *)

\* Enviar_proceso_a_cpu: the process runs while it is still in READY.
LEMMA EnviarProcesoProcesos ==
  ASSUME InvTipos, InvCpus, InvProcesos, EnviarProceso
  PROVE  InvProcesos'
<1>0. PICK p \in Pid : p = corto.pid
  BY DEF EnviarProceso, InvTipos, Nombran, CortoNombra
<1>c. PICK c \in CPUs : c = corto.cpu
  BY DEF EnviarProceso, InvCpus, CortoTiene
<1>1. /\ UNCHANGED <<mapa, cola, pidCounter, emitidas, manejador, largo,
                     temporizador, dispositivo, finIO, esperaIO, mutexProc>>
      /\ corto.pc = "envia" /\ corto'.pc = "a_execute" /\ corto'.pid = p
      /\ corto'.cpu = c /\ corto.cpu = c
      /\ ejecuta' = [ejecuta EXCEPT ![c] = [pid |-> p, PC |-> corto.PC]]
      /\ ejecuta[c].pid = NINGUNO
  BY <1>0, <1>c, TiposDeCpus DEF EnviarProceso, InvCpus, CortoTiene
<1>2. EnOrden(p) /\ Vivo(p, {"READY"}) /\ corto.PC = emitidas[p]
  BY <1>0, <1>1 DEF InvProcesos, EnOrden, EnMano, ManoPlanificador, CortoTrae, PCAlDia
<1>3. /\ ejecuta'[c].pid = p /\ ejecuta'[c].PC = emitidas[p]
      /\ \A d \in CPUs \ {c} : ejecuta'[d] = ejecuta[d]
  BY <1>1, <1>2, TiposDeCpus
<1>4. \A q \in Pid : AjenoTabla(q) /\ AjenoEspera(q) /\ (q # p => AjenoManos(q))
  BY <1>0, <1>1, <1>3, EsperaQuieta, TablaQuieta
     DEF AjenoManos, MismaMano, CortoTrae, Suspende, Pid, NINGUNO
<1>5. /\ Suelto(p) /\ SoloEn(p, {"READY"}) /\ mapa[p].PC = emitidas[p]
      /\ ~(p >= pidCounter) /\ ~LargoTrae(p) /\ ~Suspende(p)
  BY <1>0, <1>1, <1>2, AlEstarSuelto DEF EnOrden, Despacha, Vivo
<1>6. EnMano(p)'
  <2>1. SoloEjecuta(c, p)'
    BY <1>1, <1>3, <1>5 DEF SoloEjecuta, Suelto, Maneja, Crea, Despacha, CortoTrae,
                            LargoTrae, Suspende
  <2>2. SoloEn(p, {"READY"})' /\ Vivo(p, {"READY"})'
    BY <1>1, <1>2, <1>5 DEF SoloEn, Vivo
  <2> QED
    BY <1>1, <1>3, <1>5, <2>1, <2>2, QuedaEjecutando DEF Despacha
<1>7. DebeEsperar(p)' <=> DebeEsperar(p)
  BY <1>1 DEF DebeEsperar, PorBloquear, PorDump, Vivo
<1>8. EnOrden(p)'
  BY <1>2, <1>4, <1>6, <1>7, EsperaSigue
<1>9. ColasSinRepetidos' /\ OpDelPc'
  BY <1>1 DEF InvProcesos, ColasSinRepetidos, SinRepetidos, OpDelPc
<1> QED
  BY <1>4, <1>8, <1>9, SoloToca DEF Ajeno

\* The process of a dispatch is still in READY when ready_a_execute runs.
LEMMA DespachoMovible ==
  ASSUME InvCpus, InvProcesos, corto.pc = "a_execute", NEW p \in Pid, p = corto.pid
  PROVE  /\ EnOrden(p) /\ Despacha(p) /\ Movible("READY", "EXECUTE", p)
         /\ SoloEn(p, {"READY"}) /\ Vivo(p, {"READY"}) /\ mapa[p].PC = emitidas[p]
         /\ ~(p >= pidCounter) /\ corto.cpu \in CPUs /\ ejecuta[corto.cpu].pid = p
         /\ SoloEjecuta(corto.cpu, p) /\ ejecuta[corto.cpu].PC = emitidas[p]
<1>1. EnOrden(p) /\ Despacha(p)
  BY DEF InvProcesos, Despacha
<1>2. corto.cpu \in CPUs /\ ejecuta[corto.cpu].pid = p
  BY <1>1 DEF EnOrden, EnMano, ManoPlanificador
<1>3. /\ SoloEjecuta(corto.cpu, p) /\ ejecuta[corto.cpu].PC = emitidas[p] /\ Vivo(p, {"READY"})
      /\ SoloEn(p, {"READY"}) /\ mapa[p].PC = emitidas[p] /\ ~(p >= pidCounter)
  BY <1>1, <1>2, AlEjecutar DEF EnOrden
<1> QED
  BY <1>1, <1>2, <1>3 DEF Movible, SoloEn, Estados

\* ready_a_execute finds the process in READY, and moves it.
LEMMA ReadyAExecuteProcesos ==
  ASSUME InvTipos, InvCpus, InvProcesos, ReadyAExecute
  PROVE  InvProcesos'
<1>0. PICK p \in Pid : p = corto.pid
  BY DEF ReadyAExecute, InvTipos, Nombran, CortoNombra
<1>1. /\ UNCHANGED <<mapa, pidCounter, emitidas, manejador, largo, ejecuta,
                     temporizador, dispositivo, finIO, esperaIO>>
      /\ corto.pc = "a_execute" /\ mutexProc[p] = NADA
      /\ mutexProc' = [mutexProc EXCEPT ![p] = GCorto]
      /\ cola' = MoverDe("READY", "EXECUTE", p)
  BY <1>0 DEF ReadyAExecute
<1>2. EnOrden(p) /\ Despacha(p)
  BY <1>0, <1>1, DespachoMovible
<1>3. PICK c \in CPUs : c = corto.cpu /\ ejecuta[c].pid = p
  BY <1>0, <1>1, DespachoMovible
<1>4. /\ SoloEjecuta(c, p) /\ ejecuta[c].PC = emitidas[p] /\ Vivo(p, {"READY"})
      /\ SoloEn(p, {"READY"}) /\ mapa[p].PC = emitidas[p] /\ ~(p >= pidCounter)
  BY <1>0, <1>1, <1>3, DespachoMovible
<1>5. Movible("READY", "EXECUTE", p)
  BY <1>0, <1>1, DespachoMovible
<1>6. corto' = [corto EXCEPT !.pc = "cambia"]
  BY <1>0, <1>5 DEF ReadyAExecute
<1>7. corto'.pc = "cambia" /\ corto'.pid = p /\ corto'.cpu = c
  BY <1>0, <1>3, <1>6, TiposDeCpus
<1>8. /\ \A g \in Estados : SinRepetidos(cola'[g])
      /\ \A q \in Pid \ {p} : \A g \in Estados : Esta(cola'[g], q) <=> Esta(cola[g], q)
      /\ \A g \in Estados : Esta(cola'[g], p) <=> g = "EXECUTE" \/ (g # "READY" /\ Esta(cola[g], p))
  BY <1>1, <1>5, MoverDeExacto, TiposDeProcesos DEF InvProcesos, Estados
<1>9. \A q \in Pid \ {p} : AjenoTabla(q) /\ AjenoManos(q)
  BY <1>0, <1>1, <1>7, <1>8 DEF AjenoTabla, AjenoManos, MismaMano, CortoTrae, Suspende
<1>10. \A q \in Pid : AjenoEspera(q)
  BY <1>1, EsperaQuieta
<1>11. EnMano(p)'
  <2>1. SoloEjecuta(c, p)'
    BY <1>1, <1>4, <1>7 DEF SoloEjecuta, Maneja, Crea, Despacha, CortoTrae, LargoTrae, Suspende
  <2>2. SoloEn(p, {"EXECUTE"})' /\ Vivo(p, {"READY"})'
    BY <1>1, <1>4, <1>8 DEF SoloEn, Vivo
  <2> QED
    BY <1>1, <1>4, <1>7, <2>1, <2>2, QuedaEjecutando DEF Despacha
<1>12. DebeEsperar(p)' <=> DebeEsperar(p)
  BY <1>1 DEF DebeEsperar, PorBloquear, PorDump, Vivo
<1>13. EnOrden(p)'
  BY <1>2, <1>10, <1>11, <1>12, EsperaSigue
<1>14. ColasSinRepetidos'
  BY <1>1, <1>8 DEF InvProcesos, ColasSinRepetidos
<1>15. OpDelPc'
  <2>1. /\ \A d \in CPUs : mutexProc[p] # GSyscall(d)
        /\ \A q \in Pid \ {p} : mutexProc'[q] = mutexProc[q]
    BY <1>1, NadaNoEsDueno, TiposDeProcesos
  <2> QED
    BY <1>1, <2>1, OpSigue DEF InvProcesos
<1> QED
  BY <1>9, <1>10, <1>13, <1>14, <1>15, SoloToca DEF Ajeno

\* cambiar_estado finds the process in the table.
LEMMA CambiarAExecuteProcesos ==
  ASSUME InvTipos, InvCpus, InvProcesos, CambiarAExecute
  PROVE  InvProcesos'
<1>0. PICK p \in Pid : p = corto.pid
  BY DEF CambiarAExecute, InvTipos, Nombran, CortoNombra
<1>1. corto.pc = "cambia"
  BY DEF CambiarAExecute
<1>2. EnOrden(p) /\ Despacha(p) /\ mutexProc[p] = GCorto
  BY <1>0, <1>1 DEF InvProcesos, Despacha, InvTipos, Duenos, CortoEsDueno
<1>3. PICK c \in CPUs : c = corto.cpu /\ ejecuta[c].pid = p
  BY <1>2 DEF EnOrden, EnMano, ManoPlanificador
<1>4. /\ SoloEjecuta(c, p) /\ ejecuta[c].PC = emitidas[p] /\ Vivo(p, {"READY"})
      /\ mapa[p].PC = emitidas[p] /\ ~(p >= pidCounter)
  BY <1>1, <1>2, <1>3, AlEjecutar DEF EnOrden
<1>5. /\ UNCHANGED <<cola, pidCounter, emitidas, manejador, largo, ejecuta,
                     temporizador, dispositivo, finIO, esperaIO>>
      /\ mutexProc' = [mutexProc EXCEPT ![p] = NADA]
      /\ mapa' = ConEstado(p, "EXECUTE") /\ corto' = CortoEsperando
  BY <1>0, <1>4 DEF CambiarAExecute, Vivo
<1>6. corto'.pc = "espera_cpu" /\ SoloEn(p, {"EXECUTE"})
  BY <1>0, <1>1, <1>2, <1>5 DEF CortoEsperando, EnOrden, EnMano, Ubicado
<1>7. /\ mapa'[p] # NADA /\ mapa'[p].estado = "EXECUTE"
      /\ \A q \in Pid \ {p} : mapa'[q] = mapa[q]
  BY <1>4, <1>5, ConEstadoExacto, TiposDeProcesos DEF Vivo, Estados
<1>8. \A q \in Pid \ {p} : AjenoTabla(q) /\ AjenoManos(q)
  BY <1>0, <1>5, <1>6, <1>7 DEF AjenoTabla, AjenoManos, MismaMano, CortoTrae, Suspende, Esta
<1>9. \A q \in Pid : AjenoEspera(q)
  BY <1>5, EsperaQuieta
<1>10. EnMano(p)'
  <2>1. SoloEjecuta(c, p)'
    BY <1>5, <1>4, <1>6 DEF SoloEjecuta, Maneja, Crea, CortoTrae, LargoTrae, Suspende
  <2>2. SoloEn(p, {"EXECUTE"})' /\ Vivo(p, {"EXECUTE"})'
    BY <1>5, <1>6, <1>7 DEF SoloEn, Vivo
  <2> QED
    BY <1>4, <1>5, <1>6, <2>1, <2>2, QuedaEjecutando DEF Despacha
<1>11. DebeEsperar(p)' <=> DebeEsperar(p)
  BY <1>4, <1>5, <1>7 DEF DebeEsperar, PorBloquear, PorDump, Vivo
<1>12. EnOrden(p)'
  BY <1>2, <1>9, <1>10, <1>11, EsperaSigue
<1>13. ColasSinRepetidos'
  BY <1>5 DEF InvProcesos, ColasSinRepetidos
<1>14. OpDelPc'
  <2>1. /\ \A d \in CPUs : mutexProc[p] # GSyscall(d)
        /\ \A q \in Pid \ {p} : mutexProc'[q] = mutexProc[q]
    BY <1>2, <1>5, DuenosDistintos, TiposDeProcesos
  <2> QED
    BY <1>5, <2>1, OpSigue DEF InvProcesos
<1> QED
  BY <1>8, <1>9, <1>12, <1>13, <1>14, SoloToca DEF Ajeno

\* The long-term planner wakes up, changes of queue or goes back to sleep.
LEMMA LargoSinNadie ==
  ASSUME InvTipos, InvProcesos, DespertarLargo \/ SuspReadyVacia \/ NewVacia
  PROVE  InvProcesos'
<1>1. /\ UNCHANGED <<mapa, cola, pidCounter, emitidas, manejador, ejecuta, corto,
                     temporizador, dispositivo, finIO, esperaIO, mutexProc>>
      /\ largo.pc \notin {"susp_mueve", "new_mueve"}
      /\ largo'.pc \notin {"susp_mueve", "new_mueve"}
  BY DEF DespertarLargo, SuspReadyVacia, NewVacia, InvTipos, TypeOK, TiposPlanificadores
<1>2. \A q \in Pid : AjenoManos(q)
  BY <1>1 DEF AjenoManos, MismaMano, LargoTrae, Suspende
<1>3. \A q \in Pid : Ajeno(q)
  BY <1>1, <1>2, EsperaQuieta, TablaQuieta DEF Ajeno
<1>4. ColasSinRepetidos' /\ OpDelPc'
  BY <1>1 DEF InvProcesos, ColasSinRepetidos, SinRepetidos, OpDelPc
<1> QED
  BY <1>3, <1>4, NoToca

\* The first of SUSP_READY or of NEW is chosen, or refused.
LEMMA LargoElige ==
  ASSUME InvTipos, InvProcesos, NEW e \in {"SUSP_READY", "NEW"}, NEW s \in PorTamanio(e),
         cola[e] # <<>>, cola' = [cola EXCEPT ![e] = s],
         UNCHANGED <<mapa, pidCounter, emitidas, manejador, ejecuta, corto,
                     temporizador, dispositivo, finIO, esperaIO, mutexProc>>,
         largo.pc \notin {"susp_mueve", "new_mueve"},
         \/ largo'.pc = "espera"
         \/ /\ largo'.pc = IF e = "NEW" THEN "new_mueve" ELSE "susp_mueve"
            /\ largo'.pid = s[1]
  PROVE  InvProcesos'
<1>1. /\ \A q, g : g \in Estados => (Esta(cola'[g], q) <=> Esta(cola[g], q))
      /\ ColasSinRepetidos' /\ s[1] \in Pid /\ Esta(cola[e], s[1])
  <2>1. e \in Estados /\ ColasSinRepetidos /\ cola \in [Estados -> Seq(Pid)]
    BY TiposDeProcesos DEF InvProcesos, Estados
  <2>2. \/ s = cola[e]
        \/ /\ s \in [DOMAIN cola[e] -> {cola[e][i] : i \in DOMAIN cola[e]}]
           /\ \A i \in DOMAIN cola[e] : Esta(s, cola[e][i])
    BY DEF PorTamanio, Ordenadas
  <2> QED
    BY <2>1, <2>2, OrdenarCola
<1>2. PICK p \in Pid : p = s[1]
  BY <1>1
<1>3. \A q \in Pid : AjenoTabla(q) /\ AjenoEspera(q) /\ (q # p => AjenoManos(q))
  BY <1>1, <1>2, EsperaQuieta DEF AjenoTabla, AjenoManos, MismaMano, LargoTrae, Suspende
<1>4. EnOrden(p) /\ mapa[p] # NADA /\ mapa[p].estado = e /\ \A c \in CPUs : ~Crea(c, p)
  BY <1>1, <1>2, AlEstarEnCola DEF InvProcesos, EnOrden, Estados
<1>5. /\ Suelto(p) /\ SoloEn(p, {e}) /\ mapa[p].PC = emitidas[p] /\ ~(p >= pidCounter)
      /\ ~CortoTrae(p) /\ ~Suspende(p)
  BY <1>4, AlEstarSuelto DEF EnOrden
<1>6. EnMano(p)'
  <2>1. Suelto(p)' /\ ~CortoTrae(p)' /\ ~Suspende(p)' /\ SoloEn(p, {mapa[p].estado})'
    BY <1>1, <1>4, <1>5 DEF Suelto, Maneja, Crea, Despacha, CortoTrae, Suspende, SoloEn
  <2>2. LargoTrae(p)' => mapa'[p].estado = IF largo'.pc = "new_mueve" THEN "NEW"
                                           ELSE "SUSP_READY"
    BY <1>4 DEF LargoTrae
  <2> QED
    BY <1>4, <1>5, <2>1, <2>2, QuedaSuelto DEF CortoTrae
<1>7. DebeEsperar(p)' <=> DebeEsperar(p)
  BY DEF DebeEsperar, PorBloquear, PorDump, Vivo
<1>8. EnOrden(p)'
  BY <1>3, <1>4, <1>6, <1>7, EsperaSigue
<1>9. OpDelPc'
  BY DEF InvProcesos, OpDelPc
<1> QED
  BY <1>1, <1>3, <1>8, <1>9, SoloToca DEF Ajeno

\* pasar_desde_susp_ready takes a process of SUSP_READY in hand, or none.
LEMMA IntentarReanudarProcesos ==
  ASSUME InvTipos, InvProcesos, IntentarReanudar PROVE InvProcesos'
<1>1. PICK s \in PorTamanio("SUSP_READY") :
        /\ cola' = [cola EXCEPT !["SUSP_READY"] = s]
        /\ \/ largo' = [pc |-> "susp_mueve", pid |-> s[1]]
           \/ largo' = [largo EXCEPT !.pc = "espera"]
  BY DEF IntentarReanudar
<1>2. \/ largo'.pc = "espera"
      \/ largo'.pc = "susp_mueve" /\ largo'.pid = s[1]
  BY <1>1 DEF InvTipos, TypeOK, TiposPlanificadores
<1> QED
  BY <1>1, <1>2, LargoElige DEF IntentarReanudar

\* pasar_desde_new takes a process of NEW in hand, or none.
LEMMA IntentarIniciarProcesos ==
  ASSUME InvTipos, InvProcesos, IntentarIniciar PROVE InvProcesos'
<1>1. PICK s \in PorTamanio("NEW") :
        /\ cola' = [cola EXCEPT !["NEW"] = s]
        /\ \/ largo' = [pc |-> "new_mueve", pid |-> s[1]]
           \/ largo' = [largo EXCEPT !.pc = "espera"]
  BY DEF IntentarIniciar
<1>2. \/ largo'.pc = "espera"
      \/ largo'.pc = "new_mueve" /\ largo'.pid = s[1]
  BY <1>1 DEF InvTipos, TypeOK, TiposPlanificadores
<1> QED
  BY <1>1, <1>2, LargoElige DEF IntentarIniciar

\* What the long-term planner has in hand is where it was found.
LEMMA LargoEncuentra ==
  ASSUME InvProcesos, NEW p \in Pid, p = largo.pid, NEW e \in {"SUSP_READY", "NEW"},
         largo.pc = IF e = "NEW" THEN "new_mueve" ELSE "susp_mueve"
  PROVE  /\ EnOrden(p) /\ mapa[p] # NADA /\ mapa[p].estado = e
         /\ Suelto(p) /\ SoloEn(p, {e}) /\ mapa[p].PC = emitidas[p] /\ ~(p >= pidCounter)
         /\ ~CortoTrae(p) /\ ~Suspende(p) /\ Movible(e, "READY", p)
<1>1. EnOrden(p) /\ Vivo(p, {e}) /\ \A c \in CPUs : ~Crea(c, p)
  BY DEF InvProcesos, EnOrden, EnMano, ManoPlanificador, LargoTrae
<1>2. /\ Suelto(p) /\ SoloEn(p, {e}) /\ mapa[p].PC = emitidas[p] /\ ~(p >= pidCounter)
      /\ ~CortoTrae(p) /\ ~Suspende(p)
  BY <1>1, AlEstarSuelto DEF EnOrden, Vivo
<1> QED
  BY <1>1, <1>2 DEF Vivo, Movible, SoloEn, Estados

\* It moves to READY.
LEMMA LargoMueve ==
  ASSUME InvTipos, InvProcesos, NEW p \in Pid, p = largo.pid,
         NEW e \in {"SUSP_READY", "NEW"},
         largo.pc = IF e = "NEW" THEN "new_mueve" ELSE "susp_mueve",
         cola' = MoverDe(e, "READY", p), mapa' = ConEstado(p, "READY"),
         UNCHANGED <<pidCounter, emitidas, manejador, ejecuta, corto, mutexProc,
                     temporizador, dispositivo, finIO, esperaIO>>,
         largo'.pc \in {"susp", "new"}
  PROVE  InvProcesos'
<1>1. /\ EnOrden(p) /\ mapa[p] # NADA /\ mapa[p].estado = e
      /\ Suelto(p) /\ SoloEn(p, {e}) /\ mapa[p].PC = emitidas[p] /\ ~(p >= pidCounter)
      /\ ~CortoTrae(p) /\ ~Suspende(p) /\ Movible(e, "READY", p)
  BY LargoEncuentra
<1>2. /\ \A g \in Estados : SinRepetidos(cola'[g])
      /\ \A q \in Pid \ {p} : \A g \in Estados : Esta(cola'[g], q) <=> Esta(cola[g], q)
      /\ \A g \in Estados : Esta(cola'[g], p) <=> g = "READY" \/ (g # e /\ Esta(cola[g], p))
  <2>1. e \in Estados /\ "READY" \in Estados /\ e # "READY" /\ ColasSinRepetidos
    BY DEF InvProcesos, Estados
  <2> QED
    BY <1>1, <2>1, MoverDeExacto, TiposDeProcesos
<1>3. /\ mapa'[p] # NADA /\ mapa'[p].estado = "READY" /\ mapa'[p].PC = mapa[p].PC
      /\ \A q \in Pid \ {p} : mapa'[q] = mapa[q]
  BY <1>1, ConEstadoExacto, TiposDeProcesos DEF Estados
<1>4. \A q \in Pid : AjenoEspera(q)
  BY EsperaQuieta
<1>5. \A q \in Pid \ {p} : AjenoTabla(q) /\ AjenoManos(q)
  BY <1>2, <1>3 DEF AjenoTabla, AjenoManos, MismaMano, LargoTrae, Suspende
<1>6. Suelto(p)'
  BY <1>1 DEF Suelto, Maneja, Crea, Despacha
<1>7. EnMano(p)'
  <2>1. ~CortoTrae(p)' /\ ~Suspende(p)' /\ ~LargoTrae(p)'
    BY <1>1 DEF CortoTrae, LargoTrae, Suspende
  <2>2. SoloEn(p, {mapa[p].estado})'
    BY <1>1, <1>2, <1>3 DEF SoloEn
  <2> QED
    BY <1>1, <1>3, <1>6, <2>1, <2>2, QuedaSuelto DEF CortoTrae
<1>8. DebeEsperar(p)' <=> DebeEsperar(p)
  BY <1>1, <1>3, <1>6, EsperaLibre, EsperaLibreDespues DEF Suelto, Vivo
<1>9. EnOrden(p)'
  BY <1>1, <1>4, <1>7, <1>8, EsperaSigue
<1>10. ColasSinRepetidos' /\ OpDelPc'
  BY <1>2 DEF InvProcesos, ColasSinRepetidos, OpDelPc
<1> QED
  BY <1>4, <1>5, <1>9, <1>10, SoloToca DEF Ajeno

\* The process that was resumed goes from SUSP_READY to READY.
LEMMA SuspReadyAReadyProcesos ==
  ASSUME InvTipos, InvProcesos, SuspReadyAReady PROVE InvProcesos'
<1>0. PICK p \in Pid : p = largo.pid
  BY DEF SuspReadyAReady, InvTipos, Nombran, LargoNombra
<1>1. mapa[p] # NADA /\ Movible("SUSP_READY", "READY", p) /\ largo.pc = "susp_mueve"
  BY <1>0, LargoEncuentra DEF SuspReadyAReady
<1>2. largo'.pc = "susp"
  BY <1>0, <1>1 DEF SuspReadyAReady, InvTipos, TypeOK, TiposPlanificadores
<1> QED
  BY <1>0, <1>1, <1>2, LargoMueve DEF SuspReadyAReady

\* The process that was admitted goes from NEW to READY.
LEMMA NewAReadyProcesos ==
  ASSUME InvTipos, InvProcesos, NewAReady PROVE InvProcesos'
<1>0. PICK p \in Pid : p = largo.pid
  BY DEF NewAReady, InvTipos, Nombran, LargoNombra
<1>1. mapa[p] # NADA /\ Movible("NEW", "READY", p) /\ largo.pc = "new_mueve"
  BY <1>0, LargoEncuentra DEF NewAReady
<1>2. largo'.pc = "new"
  BY <1>0, <1>1 DEF NewAReady, InvTipos, TypeOK, TiposPlanificadores
<1> QED
  BY <1>0, <1>1, <1>2, LargoMueve DEF NewAReady

\* No step of the long-term planner breaks InvProcesos.
LEMMA PasoLargoProcesos ==
  ASSUME InvTipos, InvProcesos, PasoLargo PROVE InvProcesos'
BY LargoSinNadie, IntentarReanudarProcesos, SuspReadyAReadyProcesos,
   IntentarIniciarProcesos, NewAReadyProcesos DEF PasoLargo

\* No step of the short-term planner breaks InvProcesos.
LEMMA PasoCortoProcesos ==
  ASSUME InvTipos, InvCpus, InvProcesos, PasoCorto PROVE InvProcesos'
BY CortoSinNadie, ElegirPidProcesos, LeerPcbProcesos, EnviarProcesoProcesos,
   ReadyAExecuteProcesos, CambiarAExecuteProcesos DEF PasoCorto

\* A timer that changes is one of p.
LEMMA TimerExacto ==
  ASSUME InvTipos, NEW p \in Pid, NEW n \in Numero, NEW x,
         temporizador' = [temporizador EXCEPT ![p][n] = x]
  PROVE  /\ \A q \in Pid \ {p} : temporizador'[q] = temporizador[q]
         /\ temporizador'[p][n] = x
         /\ \A k \in Numero \ {n} : temporizador'[p][k] = temporizador[p][k]
BY TiposDeProcesos

\* A step of a timer that does not start to suspend its process.
LEMMA TimerQuieto ==
  ASSUME InvTipos, InvProcesos, NEW p \in Pid, NEW n \in Numero,
         \A q \in Pid \ {p} : temporizador'[q] = temporizador[q],
         \A k \in Numero \ {n} : temporizador'[p][k] = temporizador[p][k],
         temporizador'[p][n].pc \in {"suspende", "mueve"} =>
           temporizador[p][n].pc \in {"suspende", "mueve"},
         UNCHANGED <<mapa, cola, pidCounter, emitidas, manejador, ejecuta, corto,
                     largo, dispositivo, finIO, esperaIO, mutexProc>>
  PROVE  InvProcesos'
<1>1. \A q \in Pid : Suspende(q)' => Suspende(q)
  BY DEF Suspende
<1>2. \A q \in Pid : Ajeno(q)
  BY <1>1, EsperaQuieta, TablaQuieta DEF Ajeno, AjenoManos, MismaMano
<1>3. ColasSinRepetidos' /\ OpDelPc'
  BY DEF InvProcesos, ColasSinRepetidos, SinRepetidos, OpDelPc
<1> QED
  BY <1>2, <1>3, NoToca

\* sigueBloqueado never goes on while a syscall of the process is being served:
\* what blocks it in a handler is a dump, which keeps the mutex.
LEMMA BloqueadoSinManejador ==
  ASSUME InvTipos, InvProcesos, NEW p \in Pid, Vivo(p, {"BLOCKED"}),
         mutexProc[p] = NADA, ~EntreBloqueoYLock(p)
  PROVE  \A c \in CPUs : ~Maneja(c, p)
<1> SUFFICES ASSUME NEW c \in CPUs, Maneja(c, p) PROVE FALSE
  OBVIOUS
<1>1. EstadoEn(c) = "BLOCKED"
  BY DEF InvProcesos, EnOrden, EnMano, ManoCpu, Vivo
<1>2. /\ manejador[c].op = "DUMP" /\ manejador[c].pid = p
      /\ manejador[c].pc \notin {"inactivo", "libera", "dump_mira", "dump_bloquea",
                                 "dump_cambia", "dump_toma"}
  BY <1>1 DEF EstadoEn, Maneja, EntreBloqueoYLock
<1>3. mutexProc[p] # GSyscall(c)
  BY NadaNoEsDueno
<1>4. manejador[c].pc \notin {"dump_vuelve", "fin_memoria"} \cup PCsFin
  BY <1>2, <1>3 DEF InvProcesos, OpDelPc, InvTipos, Duenos, ManejadorEsDueno
<1>5. manejador[c].pc \notin PCsIO \cup {"init_crea", "init_new", "init_reenvia"}
  BY <1>2 DEF InvProcesos, OpDelPc
<1>6. manejador[c].pc \in PCsSyscall
  BY DEF InvTipos, TypeOK, TiposCpus, RegistroSyscall
<1> QED
  BY <1>2, <1>4, <1>5, <1>6 DEF PCsSyscall, PCsFin, PCsIO

\* sigueBloqueado: a timer that goes on has a blocked process that no handler
\* serves.
LEMMA DespertarTimerProcesos ==
  ASSUME InvTipos, InvProcesos, ~PausaDump, NEW p \in Pid, NEW n \in Numero,
         DespertarTimer(p, n)
  PROVE  InvProcesos'
<1>1. /\ UNCHANGED <<mapa, cola, pidCounter, emitidas, manejador, ejecuta, corto,
                     largo, dispositivo, finIO, esperaIO>>
      /\ temporizador[p][n].pc = "duerme" /\ mutexProc[p] = NADA
      /\ ~EntreBloqueoYLock(p)
  BY DEF DespertarTimer
<1> DEFINE t == temporizador[p][n]
           sigue == mapa[p] # NADA /\ sesiones[p] = t.sesion /\ mapa[p].estado = "BLOCKED"
<1>2. CASE ~sigue
  <2>1. temporizador' = [temporizador EXCEPT ![p][n] = SinTimer] /\ mutexProc' = mutexProc
    BY <1>2 DEF DespertarTimer
  <2> HIDE DEF sigue, t
  <2>2. SinTimer.pc = "inactivo"
    BY DEF SinTimer
  <2> QED
    BY <1>1, <2>1, <2>2, TimerExacto, TimerQuieto
<1>3. CASE sigue
  <2>1. /\ temporizador' = [temporizador EXCEPT ![p][n] = [t EXCEPT !.pc = "suspende"]]
        /\ mutexProc' = [mutexProc EXCEPT ![p] = GTimer(p, n)]
        /\ mapa[p] # NADA /\ mapa[p].estado = "BLOCKED"
    BY <1>3 DEF DespertarTimer
  <2> HIDE DEF sigue, t
  <2>2. \A q \in Pid \ {p} : temporizador'[q] = temporizador[q]
    BY <2>1, TimerExacto
  <2>3. \A c \in CPUs : ~Maneja(c, p)
    BY <1>1, <2>1, BloqueadoSinManejador DEF Vivo
  <2>4. EnOrden(p)
    BY DEF InvProcesos
  <2>5. /\ Suelto(p) /\ SoloEn(p, {"BLOCKED"}) /\ mapa[p].PC = emitidas[p]
        /\ ~(p >= pidCounter) /\ ~CortoTrae(p) /\ ~LargoTrae(p)
    BY <2>1, <2>3, <2>4, AlEstarSuelto DEF EnOrden
  <2>6. \A q \in Pid : AjenoTabla(q) /\ AjenoEspera(q) /\ (q # p => AjenoManos(q))
    BY <1>1, <2>2, EsperaQuieta, TablaQuieta DEF AjenoManos, MismaMano, Suspende
  <2>7. EnMano(p)'
    <3>1. Suelto(p)' /\ ~CortoTrae(p)' /\ ~LargoTrae(p)' /\ SoloEn(p, {mapa[p].estado})'
      BY <1>1, <2>1, <2>5 DEF Suelto, Maneja, Crea, Despacha, CortoTrae, LargoTrae, SoloEn
    <3> QED
      BY <1>1, <2>1, <2>5, <3>1, QuedaSuelto DEF CortoTrae
  <2>8. DebeEsperar(p)' <=> DebeEsperar(p)
    BY <1>1 DEF DebeEsperar, PorBloquear, PorDump, Vivo
  <2>9. EnOrden(p)'
    BY <2>4, <2>6, <2>7, <2>8, EsperaSigue
  <2>10. OpDelPc'
    <3>1. /\ \A d \in CPUs : mutexProc[p] # GSyscall(d)
          /\ \A q \in Pid \ {p} : mutexProc'[q] = mutexProc[q]
      BY <1>1, <2>1, NadaNoEsDueno, TiposDeProcesos
    <3> QED
      BY <1>1, <3>1, OpSigue DEF InvProcesos
  <2>11. ColasSinRepetidos'
    BY <1>1 DEF InvProcesos, ColasSinRepetidos
  <2> QED
    BY <2>6, <2>9, <2>10, <2>11, SoloToca DEF Ajeno
<1> QED
  BY <1>2, <1>3

\* The call to the memory module changes no process of the kernel.
LEMMA SuspenderEnMemoriaProcesos ==
  ASSUME InvTipos, InvProcesos, NEW p \in Pid, NEW n \in Numero,
         SuspenderEnMemoria(p, n)
  PROVE  InvProcesos'
<1>1. /\ UNCHANGED <<mapa, cola, pidCounter, emitidas, manejador, ejecuta, corto,
                     largo, dispositivo, finIO, esperaIO, mutexProc>>
      /\ temporizador[p][n].pc = "suspende"
      /\ temporizador' = [temporizador EXCEPT ![p][n] =
                            [temporizador[p][n] EXCEPT !.pc = "mueve"]]
  BY DEF SuspenderEnMemoria
<1> QED
  BY <1>1, TimerExacto, TimerQuieto

\* blocked_a_susp_blocked finds the process in BLOCKED, as its mutex has been
\* kept.
LEMMA BlockedASuspBlockedProcesos ==
  ASSUME InvTipos, InvProcesos, NEW p \in Pid, NEW n \in Numero,
         BlockedASuspBlocked(p, n)
  PROVE  InvProcesos'
<1>1. /\ UNCHANGED <<pidCounter, emitidas, manejador, ejecuta, corto,
                     largo, dispositivo, finIO, esperaIO>>
      /\ temporizador[p][n].pc = "mueve"
      /\ temporizador' = [temporizador EXCEPT ![p][n] = SinTimer]
      /\ mutexProc' = [mutexProc EXCEPT ![p] = NADA]
      /\ cola' = MoverDe("BLOCKED", "SUSP_BLOCKED", p)
  BY DEF BlockedASuspBlocked
<1>2. Suspende(p) /\ EnOrden(p) /\ Vivo(p, {"BLOCKED"}) /\ \A c \in CPUs : ~Maneja(c, p)
  BY <1>1 DEF Suspende, InvProcesos, EnOrden, EnMano, ManoPlanificador
<1>3. /\ Suelto(p) /\ SoloEn(p, {"BLOCKED"}) /\ mapa[p].PC = emitidas[p]
      /\ ~(p >= pidCounter) /\ ~CortoTrae(p) /\ ~LargoTrae(p)
  BY <1>2, AlEstarSuelto DEF EnOrden, Vivo
<1>4. Movible("BLOCKED", "SUSP_BLOCKED", p)
  BY <1>3 DEF Movible, SoloEn, Estados
<1>5. mapa' = ConEstado(p, "SUSP_BLOCKED")
  BY <1>4 DEF BlockedASuspBlocked
<1>6. /\ \A g \in Estados : SinRepetidos(cola'[g])
      /\ \A q \in Pid \ {p} : \A g \in Estados : Esta(cola'[g], q) <=> Esta(cola[g], q)
      /\ \A g \in Estados : Esta(cola'[g], p) <=>
                              g = "SUSP_BLOCKED" \/ (g # "BLOCKED" /\ Esta(cola[g], p))
  BY <1>1, <1>4, MoverDeExacto, TiposDeProcesos DEF InvProcesos, Estados
<1>7. /\ mapa'[p] # NADA /\ mapa'[p].estado = "SUSP_BLOCKED" /\ mapa'[p].PC = mapa[p].PC
      /\ \A q \in Pid \ {p} : mapa'[q] = mapa[q]
  BY <1>2, <1>5, ConEstadoExacto, TiposDeProcesos DEF Estados, Vivo
<1>8. \A q \in Pid : AjenoEspera(q)
  BY <1>1, EsperaQuieta
<1>9. mutexProc[p] = GTimer(p, n)
  BY <1>1 DEF InvTipos, Duenos, TimerEsDueno
<1>10. \A k \in Numero \ {n} : temporizador[p][k].pc \notin {"suspende", "mueve"}
  BY <1>9, DuenosDistintos DEF InvTipos, Duenos, TimerEsDueno
<1>11. ~Suspende(p)' /\ \A q \in Pid \ {p} : temporizador'[q] = temporizador[q]
  <2>1. /\ \A q \in Pid \ {p} : temporizador'[q] = temporizador[q]
        /\ temporizador'[p][n].pc = "inactivo"
        /\ \A k \in Numero \ {n} : temporizador'[p][k] = temporizador[p][k]
    <3>1. SinTimer.pc = "inactivo"
      BY DEF SinTimer
    <3>2. temporizador' = [temporizador EXCEPT ![p][n] = SinTimer]
      BY <1>1
    <3>3. /\ \A q \in Pid \ {p} : temporizador'[q] = temporizador[q]
          /\ temporizador'[p][n] = SinTimer
          /\ \A k \in Numero \ {n} : temporizador'[p][k] = temporizador[p][k]
      BY <3>2, TimerExacto
    <3> QED
      BY <3>1, <3>3
  <2> QED
    BY <1>10, <2>1 DEF Suspende
<1>12. \A q \in Pid \ {p} : AjenoTabla(q) /\ AjenoManos(q)
  BY <1>1, <1>6, <1>7, <1>11 DEF AjenoTabla, AjenoManos, MismaMano, Suspende
<1>13. Suelto(p)'
  BY <1>1, <1>3 DEF Suelto, Maneja, Crea, Despacha
<1>14. EnMano(p)'
  <2>1. ~CortoTrae(p)' /\ ~LargoTrae(p)'
    BY <1>1, <1>3 DEF CortoTrae, LargoTrae
  <2>2. SoloEn(p, {mapa[p].estado})'
    BY <1>3, <1>6, <1>7 DEF SoloEn
  <2> QED
    BY <1>1, <1>3, <1>7, <1>11, <1>13, <2>1, <2>2, QuedaSuelto DEF CortoTrae
<1>15. DebeEsperar(p)' <=> DebeEsperar(p)
  BY <1>2, <1>7, <1>13, EsperaLibre, EsperaLibreDespues DEF Suelto, Vivo
<1>16. EnOrden(p)'
  BY <1>2, <1>8, <1>14, <1>15, EsperaSigue
<1>17. ColasSinRepetidos'
  BY <1>1, <1>6 DEF InvProcesos, ColasSinRepetidos
<1>18. OpDelPc'
  <2>1. /\ \A d \in CPUs : mutexProc[p] # GSyscall(d)
        /\ \A q \in Pid \ {p} : mutexProc'[q] = mutexProc[q]
    BY <1>1, <1>9, DuenosDistintos, TiposDeProcesos
  <2> QED
    BY <1>1, <2>1, OpSigue DEF InvProcesos
<1> QED
  BY <1>8, <1>12, <1>16, <1>17, <1>18, SoloToca DEF Ajeno

\* No step of a suspension timer breaks InvProcesos.
LEMMA PasoTimerProcesos ==
  ASSUME InvTipos, InvProcesos, ~PausaDump, NEW p \in Pid, NEW n \in Numero,
         PasoTimer(p, n)
  PROVE  InvProcesos'
BY DespertarTimerProcesos, SuspenderEnMemoriaProcesos, BlockedASuspBlockedProcesos
   DEF PasoTimer

---------------------------------------------------------------------------
(* The handlers of syscalls. *)

\* What a handler that goes on to s leaves as it was.
LEMMA PasoDeManejador ==
  ASSUME InvTipos, NEW c \in CPUs, NEW s, Pasar(c, s)
  PROVE  /\ manejador'[c].pc = s /\ manejador'[c].pid = manejador[c].pid
         /\ manejador'[c].op = manejador[c].op /\ manejador'[c].n = manejador[c].n
         /\ \A d \in CPUs \ {c} : manejador'[d] = manejador[d]
BY PasarExacto, TiposDeCpus DEF Pasar

\* A handler that goes on keeps OpDelPc if its next step is one of its syscall.
LEMMA OpSiguePasando ==
  ASSUME InvTipos, OpDelPc, NEW c \in CPUs, NEW s, Pasar(c, s), mutexProc' = mutexProc,
         s \in {"dump_mira", "dump_bloquea", "dump_cambia", "dump_toma", "dump_vuelve"} =>
           manejador[c].op = "DUMP",
         manejador[c].op = "DUMP" =>
           s \notin PCsIO \cup {"init_crea", "init_new", "init_reenvia"},
         manejador[c].op = "DUMP" /\ s \in {"fin_memoria"} \cup PCsFin =>
           manejador[c].pc \in {"fin_memoria"} \cup PCsFin
  PROVE  OpDelPc'
<1>1. /\ manejador'[c].pc = s /\ manejador'[c].pid = manejador[c].pid
      /\ manejador'[c].op = manejador[c].op
      /\ \A d \in CPUs \ {c} : manejador'[d] = manejador[d]
  BY PasoDeManejador
<1>2. OpDe(c)'
  BY <1>1 DEF OpDelPc, OpDe
<1>3. \A d \in CPUs \ {c} : OpDe(d)'
  BY <1>1 DEF OpDelPc, OpDe
<1> QED
  BY <1>2, <1>3 DEF OpDelPc, OpDe

\* The handler of c goes on to s, of the same phase, and changes nothing that
\* matters to a process.
LEMMA MismaFase ==
  ASSUME InvTipos, InvProcesos, NEW c \in CPUs, NEW s, Pasar(c, s),
         UNCHANGED <<mapa, cola, pidCounter, emitidas, ejecuta, corto, largo,
                     temporizador, dispositivo, finIO, esperaIO>>,
         manejador[c].pc \notin {"inactivo", "libera", "init_new"},
         s \notin {"inactivo", "libera", "init_new"},
         Fase(s) = Fase(manejador[c].pc), EstadoEn(c)' = EstadoEn(c), OpDelPc'
  PROVE  InvProcesos'
<1>1. /\ manejador'[c].pc = s /\ manejador'[c].pid = manejador[c].pid
      /\ manejador'[c].op = manejador[c].op /\ manejador'[c].n = manejador[c].n
      /\ \A d \in CPUs \ {c} : manejador'[d] = manejador[d]
  BY PasoDeManejador
<1>2. \A q : MismaMano(c, q)
  BY <1>1 DEF MismaMano, Maneja, Crea
<1>3. \A q \in Pid : AjenoManos(q)
  <2>1. \A q \in Pid, d \in CPUs : MismaMano(d, q)
    BY <1>1, <1>2 DEF MismaMano
  <2> QED
    BY <2>1 DEF AjenoManos, Suspende
<1>4. \A q \in Pid : Ajeno(q)
  BY <1>3, EsperaQuieta, TablaQuieta DEF Ajeno
<1>5. ColasSinRepetidos'
  BY DEF InvProcesos, ColasSinRepetidos, SinRepetidos
<1> QED
  BY <1>4, <1>5, NoToca

\* manejarIO takes ListaIOsMutex: no process changes.
LEMMA IOTomarListaProcesos ==
  ASSUME InvTipos, InvProcesos, NEW c \in CPUs, IOTomarLista(c) PROVE InvProcesos'
<1>1. /\ Pasar(c, "io_proceso") /\ mutexProc' = mutexProc /\ manejador[c].pc = "io_lista"
      /\ UNCHANGED <<mapa, cola, pidCounter, emitidas, ejecuta, corto, largo,
                     temporizador, dispositivo, finIO, esperaIO>>
  BY DEF IOTomarLista, En
<1>2. manejador[c].op # "DUMP"
  BY <1>1 DEF InvProcesos, OpDelPc, PCsIO
<1>3. EstadoEn(c)' = EstadoEn(c)
  BY <1>1, <1>2, PasoDeManejador DEF EstadoEn
<1>4. OpDelPc'
  BY <1>1, <1>2, OpSiguePasando DEF InvProcesos
<1> QED
  BY <1>1, <1>3, <1>4, MismaFase DEF Fase

\* manejarIO without such a device goes on to FinalizarProceso.
LEMMA IOInexistenteProcesos ==
  ASSUME InvTipos, InvProcesos, NEW c \in CPUs, IOInexistente(c) PROVE InvProcesos'
<1>1. /\ Pasar(c, "fin_memoria") /\ mutexProc' = mutexProc /\ manejador[c].pc = "io_proceso"
      /\ UNCHANGED <<mapa, cola, pidCounter, emitidas, ejecuta, corto, largo,
                     temporizador, dispositivo, finIO, esperaIO>>
  BY DEF IOInexistente, En
<1>2. manejador[c].op # "DUMP"
  BY <1>1 DEF InvProcesos, OpDelPc, PCsIO
<1>3. EstadoEn(c)' = EstadoEn(c)
  BY <1>1, <1>2, PasoDeManejador DEF EstadoEn
<1>4. OpDelPc'
  BY <1>1, <1>2, OpSiguePasando DEF InvProcesos
<1> QED
  BY <1>1, <1>3, <1>4, MismaFase DEF Fase

\* FinalizarProceso tells the memory module: no process of the kernel changes.
LEMMA FinEnMemoriaProcesos ==
  ASSUME InvTipos, InvProcesos, NEW c \in CPUs, FinEnMemoria(c) PROVE InvProcesos'
<1>1. /\ Pasar(c, "fin_cola") /\ mutexProc' = mutexProc /\ manejador[c].pc = "fin_memoria"
      /\ UNCHANGED <<mapa, cola, pidCounter, emitidas, ejecuta, corto, largo,
                     temporizador, dispositivo, finIO, esperaIO>>
  BY DEF FinEnMemoria, En
<1>3. EstadoEn(c)' = EstadoEn(c)
  BY <1>1, PasoDeManejador DEF EstadoEn
<1>4. OpDelPc'
  BY <1>1, OpSiguePasando DEF InvProcesos, PCsIO
<1> QED
  BY <1>1, <1>3, <1>4, MismaFase DEF Fase

\* log_exit finds the process: nobody but its handler takes it off the table.
LEMMA FinEnLogProcesos ==
  ASSUME InvTipos, InvProcesos, NEW c \in CPUs, FinEnLog(c)
  PROVE  InvProcesos' /\ panico' = panico
<1>0. PICK p \in Pid : p = manejador[c].pid
  BY DEF FinEnLog, En, InvTipos, Nombran, ManejadorNombra
<1>1. manejador[c].pc = "fin_log" /\ Maneja(c, p)
  BY <1>0 DEF FinEnLog, En, Maneja
<1>2. mapa[p] # NADA
  BY <1>1 DEF InvProcesos, EnOrden, EnMano, ManoCpu, Vivo
<1>3. /\ Pasar(c, "fin_mapa") /\ mutexProc' = mutexProc /\ panico' = panico
      /\ UNCHANGED <<mapa, cola, pidCounter, emitidas, ejecuta, corto, largo,
                     temporizador, dispositivo, finIO, esperaIO>>
  BY <1>0, <1>2 DEF FinEnLog
<1>4. EstadoEn(c)' = EstadoEn(c)
  BY <1>1, <1>3, PasoDeManejador DEF EstadoEn
<1>5. OpDelPc'
  BY <1>1, <1>3, OpSiguePasando DEF InvProcesos, PCsIO, PCsFin
<1> QED
  BY <1>1, <1>3, <1>4, <1>5, MismaFase DEF Fase

\* manejarDUMP_MEMORY finds its process in the table.
LEMMA DumpMirarProcesos ==
  ASSUME InvTipos, InvProcesos, NEW c \in CPUs, DumpMirar(c) PROVE InvProcesos'
<1>0. PICK p \in Pid : p = manejador[c].pid
  BY DEF DumpMirar, En, InvTipos, Nombran, ManejadorNombra
<1>1. manejador[c].pc = "dump_mira" /\ Maneja(c, p)
  BY <1>0 DEF DumpMirar, En, Maneja
<1>2. mapa[p] # NADA
  BY <1>1 DEF InvProcesos, EnOrden, EnMano, ManoCpu, Vivo
<1>3. /\ Pasar(c, "dump_bloquea") /\ mutexProc' = mutexProc
      /\ UNCHANGED <<mapa, cola, pidCounter, emitidas, ejecuta, corto, largo,
                     temporizador, dispositivo, finIO, esperaIO>>
  BY <1>0, <1>2 DEF DumpMirar, Pasar
<1>4. EstadoEn(c)' = EstadoEn(c)
  BY <1>1, <1>3, PasoDeManejador DEF EstadoEn
<1>5. OpDelPc'
  BY <1>1, <1>3, OpSiguePasando DEF InvProcesos, PCsIO, PCsFin, OpDelPc
<1> QED
  BY <1>1, <1>3, <1>4, <1>5, MismaFase DEF Fase

\* The dump is asked for with the mutex of the process, which a failed one keeps.
LEMMA EnviarDumpProcesos ==
  ASSUME InvTipos, InvProcesos, NEW c \in CPUs, EnviarDump(c) PROVE InvProcesos'
<1>0. PICK p \in Pid : p = manejador[c].pid
  BY DEF EnviarDump, En, InvTipos, Nombran, ManejadorNombra
<1>1. PICK s \in {"dump_vuelve", "fin_memoria"} : Pasar(c, s)
  BY DEF EnviarDump
<1>2. /\ manejador[c].pc = "dump_toma" /\ mutexProc[p] = NADA
      /\ mutexProc' = [mutexProc EXCEPT ![p] = GSyscall(c)]
      /\ UNCHANGED <<mapa, cola, pidCounter, emitidas, ejecuta, corto, largo,
                     temporizador, dispositivo, finIO, esperaIO>>
  BY <1>0 DEF EnviarDump, En
<1>3. manejador[c].op = "DUMP"
  BY <1>2 DEF InvProcesos, OpDelPc
<1>4. EstadoEn(c)' = EstadoEn(c)
  BY <1>1, <1>2, PasoDeManejador DEF EstadoEn
<1>5. OpDelPc'
  <2>1. /\ \A q \in Pid \ {p} : mutexProc'[q] = mutexProc[q]
        /\ mutexProc'[p] = GSyscall(c) /\ \A d \in CPUs : mutexProc[p] # GSyscall(d)
    BY <1>2, TiposDeProcesos, NadaNoEsDueno
  <2>2. /\ manejador'[c].pc = s /\ manejador'[c].pid = p /\ manejador'[c].op = "DUMP"
        /\ \A d \in CPUs \ {c} : manejador'[d] = manejador[d]
    BY <1>0, <1>1, <1>3, PasoDeManejador
  <2>3. OpDe(c)'
    BY <2>1, <2>2 DEF OpDe, PCsIO
  <2> QED
    BY <2>1, <2>2, <2>3, OpSigueOtros DEF InvProcesos
<1> QED
  BY <1>1, <1>2, <1>4, <1>5, MismaFase DEF Fase

\* What is known of the process whose syscall the handler of c serves.
Servido(c, p) ==
  /\ p = manejador[c].pid /\ Maneja(c, p) /\ EnOrden(p) /\ SoloManeja(c, p)
  /\ Vivo(p, {EstadoEn(c)}) /\ SoloEn(p, ColaEn(c))
  /\ manejador[c].n = emitidas[p] /\ ~(p >= pidCounter)

\* A handler at work serves a process, and knows what Servido says.
LEMMA AlServir ==
  ASSUME InvTipos, InvCpus, InvProcesos, NEW c \in CPUs,
         manejador[c].pc \notin {"inactivo", "libera"}
  PROVE  \E p \in Pid : Servido(c, p)
<1>1. PICK p \in Pid : p = manejador[c].pid
  BY DEF InvTipos, Nombran, ManejadorNombra
<1>2. Maneja(c, p) /\ EnOrden(p)
  BY <1>1 DEF Maneja, InvProcesos
<1> QED
  BY <1>1, <1>2, AlManejar DEF EnOrden, Servido

\* It concerns nobody but that process.
LEMMA AjenosAlManejador ==
  ASSUME NEW c \in CPUs, NEW p, manejador[c].pid = p,
         manejador'[c].pid = p \/ manejador'[c].pc = "inactivo",
         manejador[c].pc # "init_new", manejador'[c].pc # "init_new",
         \A d \in CPUs \ {c} : manejador'[d] = manejador[d],
         UNCHANGED <<ejecuta, corto, largo>>,
         \A q \in Pid \ {p} : temporizador'[q] = temporizador[q]
  PROVE  \A q \in Pid \ {p} : AjenoManos(q)
<1>1. \A q \in Pid \ {p}, d \in CPUs : MismaMano(d, q)
  BY DEF MismaMano, Maneja, Crea
<1>2. \A q \in Pid \ {p} : Suspende(q)' => Suspende(q)
  BY DEF Suspende
<1> QED
  BY <1>1, <1>2 DEF AjenoManos

\* The handler still has its process, and nobody else has.
LEMMA SigueSolo ==
  ASSUME NEW c \in CPUs, NEW p, SoloManeja(c, p), manejador'[c].pid = p,
         manejador'[c].pc \notin {"inactivo", "libera", "init_new"},
         \A d \in CPUs \ {c} : manejador'[d] = manejador[d],
         UNCHANGED <<ejecuta, corto, largo>>, Suspende(p)' => Suspende(p)
  PROVE  SoloManeja(c, p)'
BY DEF SoloManeja, Maneja, Crea, CortoTrae, LargoTrae

\* The handler lets go of its process, and nobody has it.
LEMMA QuedaSinNadie ==
  ASSUME NEW c \in CPUs, NEW p, SoloManeja(c, p),
         manejador'[c].pc \in {"inactivo", "libera"},
         \A d \in CPUs \ {c} : manejador'[d] = manejador[d],
         UNCHANGED <<ejecuta, corto, largo>>, Suspende(p)' => Suspende(p)
  PROVE  Suelto(p)' /\ ~CortoTrae(p)' /\ ~LargoTrae(p)' /\ ~Suspende(p)'
BY DEF SoloManeja, Maneja, Crea, CortoTrae, LargoTrae, Suelto, Despacha

\* BloquearProceso suspends nobody.
LEMMA TimerDuerme ==
  ASSUME InvTipos, NEW p \in Pid, NEW n \in Numero, temporizador' = ConTimer(p, n)
  PROVE  /\ \A q \in Pid \ {p} : temporizador'[q] = temporizador[q]
         /\ Suspende(p)' => Suspende(p)
<1>1. CASE temporizador' = temporizador
  BY <1>1 DEF Suspende
<1>2. CASE Suspension
  <2>1. temporizador' = [temporizador EXCEPT ![p][n] =
                           [pc |-> "duerme", sesion |-> sesiones[p]]]
    BY <1>2 DEF ConTimer
  <2> DEFINE x == [pc |-> "duerme", sesion |-> sesiones[p]]
  <2>2. x.pc = "duerme"
    OBVIOUS
  <2> HIDE DEF x
  <2>3. /\ \A q \in Pid \ {p} : temporizador'[q] = temporizador[q]
        /\ temporizador'[p][n] = x
        /\ \A k \in Numero \ {n} : temporizador'[p][k] = temporizador[p][k]
    BY <2>1, TimerExacto DEF x
  <2> QED
    BY <2>2, <2>3 DEF Suspende
<1> QED
  BY <1>1, <1>2 DEF ConTimer

\* A process that is deleted is nowhere.
LEMMA QuedaBorrado ==
  ASSUME NEW p \in Pid, Suelto(p)', mapa'[p] = NADA, SoloEn(p, {})',
         ~CortoTrae(p)', ~LargoTrae(p)', ~Suspende(p)', ~(p >= pidCounter')
  PROVE  EnMano(p)'
<1>1. Ubicado(p)'
  <2>1. ~EnTransicion(p)'
    BY DEF EnTransicion, Suelto, Maneja, Crea, Despacha
  <2> QED
    BY <2>1 DEF Suelto, Ubicado, Despacha
<1>2. UnaMano(p)'
  BY DEF UnaMano, Suelto, Ocupa, Maneja
<1>3. ManoCpu(p)'
  BY DEF ManoCpu, Suelto
<1>4. ManoPlanificador(p)'
  BY DEF ManoPlanificador, Suelto
<1>5. PCAlDia(p)' /\ SinCrear(p)'
  BY DEF PCAlDia, Suelto, CortoTrae, SinCrear
<1> QED
  BY <1>1, <1>2, <1>3, <1>4, <1>5 DEF EnMano

\* LiberarCPU ends a handler that has let its process go.
LEMMA MarcarLibreProcesos ==
  ASSUME InvTipos, InvProcesos, NEW c \in CPUs, MarcarLibre(c) PROVE InvProcesos'
<1>1. /\ UNCHANGED <<mapa, cola, pidCounter, emitidas, ejecuta, corto, largo,
                     temporizador, dispositivo, finIO, esperaIO, mutexProc>>
      /\ manejador[c].pc = "libera"
      /\ manejador' = [manejador EXCEPT ![c] = SinSyscall]
  BY DEF MarcarLibre, En
<1>2. /\ manejador'[c] = SinSyscall /\ \A d \in CPUs \ {c} : manejador'[d] = manejador[d]
      /\ SinSyscall.pc = "inactivo" /\ SinSyscall.op = "EXIT"
  BY <1>1, TiposDeCpus DEF SinSyscall
<1>3. \A q \in Pid, d \in CPUs : MismaMano(d, q)
  BY <1>1, <1>2 DEF MismaMano, Maneja, Crea
<1>4. \A q \in Pid : Ajeno(q)
  BY <1>1, <1>3, EsperaQuieta, TablaQuieta DEF Ajeno, AjenoManos, Suspende
<1>5. ColasSinRepetidos'
  BY <1>1 DEF InvProcesos, ColasSinRepetidos, SinRepetidos
<1>6. OpDelPc'
  <2>1. OpDe(c)'
    BY <1>2 DEF OpDe
  <2>2. \A d \in CPUs \ {c} : OpDe(d)'
    BY <1>1, <1>2 DEF OpDe, InvProcesos, OpDelPc
  <2> QED
    BY <2>1, <2>2 DEF OpDe, OpDelPc
<1> QED
  BY <1>4, <1>5, <1>6, NoToca

\* eliminar_proceso_de takes the process out of the queue it is in.
LEMMA FinEnColaProcesos ==
  ASSUME InvTipos, InvCpus, InvProcesos, NEW c \in CPUs, FinEnCola(c) PROVE InvProcesos'
<1>0. manejador[c].pc = "fin_cola"
  BY DEF FinEnCola, En
<1>1. PICK p \in Pid : Servido(c, p)
  BY <1>0, AlServir
<1>2. PICK e \in Estados : e = EstadoEn(c)
  BY EstadoEnDos DEF Estados
<1>3. /\ cola' = [cola EXCEPT ![e] = Quitar(cola[e], p)] /\ Pasar(c, "fin_log")
      /\ UNCHANGED <<mapa, pidCounter, emitidas, ejecuta, corto, largo,
                     temporizador, dispositivo, finIO, esperaIO, mutexProc>>
  BY <1>0, <1>1, <1>2 DEF FinEnCola, Servido, EstadoEn, EstadoAnterior
<1>4. /\ manejador'[c].pc = "fin_log" /\ manejador'[c].pid = p
      /\ manejador'[c].op = manejador[c].op /\ manejador'[c].n = manejador[c].n
      /\ \A d \in CPUs \ {c} : manejador'[d] = manejador[d]
  BY <1>1, <1>3, PasoDeManejador DEF Servido
<1>5. SoloEn(p, {e})
  BY <1>0, <1>1, <1>2 DEF Servido, ColaEn
<1>6. /\ SinRepetidos(Quitar(cola[e], p)) /\ cola'[e] = Quitar(cola[e], p)
      /\ \A q : Esta(cola'[e], q) <=> Esta(cola[e], q) /\ q # p
      /\ \A g \in Estados \ {e} : cola'[g] = cola[g]
  <2>1. cola[e] \in Seq(Pid) /\ SinRepetidos(cola[e]) /\ cola \in [Estados -> Seq(Pid)]
    BY TiposDeProcesos DEF InvProcesos, ColasSinRepetidos
  <2> QED
    BY <1>3, <2>1, QuitarExacto
<1>7. \A q \in Pid \ {p} : AjenoTabla(q)
  BY <1>3, <1>6 DEF AjenoTabla, Esta
<1>8. \A q \in Pid \ {p} : AjenoManos(q)
  BY <1>0, <1>1, <1>3, <1>4, AjenosAlManejador DEF Servido
<1>9. \A q \in Pid : AjenoEspera(q)
  BY <1>3, EsperaQuieta
<1>10. SoloManeja(c, p)' /\ Vivo(p, {EstadoEn(c)})'
  <2>1. EstadoEn(c)' = EstadoEn(c) /\ (Suspende(p)' => Suspende(p))
    BY <1>0, <1>3, <1>4 DEF EstadoEn, Suspende
  <2> QED
    BY <1>1, <1>3, <1>4, <2>1, SigueSolo DEF Servido, Vivo
<1>11. EnMano(p)'
  <2>1. SoloEn(p, ColaEn(c))'
    BY <1>4, <1>5, <1>6 DEF SoloEn, ColaEn
  <2> QED
    BY <1>1, <1>3, <1>4, <1>10, <2>1, QuedaManejado DEF Servido
<1>12. OpDelPc'
  BY <1>0, <1>3, OpSiguePasando DEF InvProcesos, PCsFin, PCsIO
<1>13. DebeEsperar(p)' <=> DebeEsperar(p)
  BY <1>0, <1>1, <1>4, <1>10, <1>12, EsperaManejado, EsperaManejadoDespues
     DEF Servido, InvProcesos
<1>14. EnOrden(p)'
  BY <1>1, <1>9, <1>11, <1>13, EsperaSigue DEF Servido
<1>15. ColasSinRepetidos'
  BY <1>3, <1>6 DEF InvProcesos, ColasSinRepetidos
<1> QED
  BY <1>7, <1>8, <1>9, <1>12, <1>14, <1>15, SoloToca DEF Ajeno

\* eliminar_de_mapa_procesos takes the process off the table, and nobody has it
\* any more.
LEMMA FinEnMapaProcesos ==
  ASSUME InvTipos, InvCpus, InvProcesos, NEW c \in CPUs, FinEnMapa(c) PROVE InvProcesos'
<1>0. manejador[c].pc = "fin_mapa"
  BY DEF FinEnMapa, En
<1>1. PICK p \in Pid : Servido(c, p)
  BY <1>0, AlServir
<1>2. /\ mapa' = [mapa EXCEPT ![p] = NADA] /\ Pasar(c, "libera")
      /\ UNCHANGED <<cola, pidCounter, emitidas, ejecuta, corto, largo,
                     temporizador, dispositivo, finIO, esperaIO, mutexProc>>
  BY <1>1 DEF FinEnMapa, Servido
<1>3. /\ manejador'[c].pc = "libera" /\ manejador'[c].pid = p
      /\ \A d \in CPUs \ {c} : manejador'[d] = manejador[d]
  BY <1>1, <1>2, PasoDeManejador DEF Servido
<1>4. mapa'[p] = NADA /\ \A q \in Pid \ {p} : mapa'[q] = mapa[q]
  BY <1>2, TiposDeProcesos
<1>5. \A q \in Pid \ {p} : AjenoTabla(q) /\ AjenoManos(q)
  <2>1. \A q \in Pid \ {p} : AjenoTabla(q)
    BY <1>2, <1>4 DEF AjenoTabla, Esta
  <2> QED
    BY <1>0, <1>1, <1>2, <1>3, <2>1, AjenosAlManejador DEF Servido
<1>6. \A q \in Pid : AjenoEspera(q)
  BY <1>2, EsperaQuieta
<1>7. Suelto(p)' /\ ~CortoTrae(p)' /\ ~LargoTrae(p)' /\ ~Suspende(p)'
  BY <1>1, <1>2, <1>3, QuedaSinNadie DEF Servido, Suspende
<1>8. SoloEn(p, {})'
  BY <1>0, <1>1, <1>2 DEF Servido, SoloEn, ColaEn
<1>9. EnMano(p)'
  BY <1>1, <1>2, <1>4, <1>7, <1>8, QuedaBorrado DEF Servido
<1>10. DebeEsperar(p)' <=> DebeEsperar(p)
  BY <1>0, <1>1, <1>4, <1>7, EsperaManejado, EsperaLibreDespues
     DEF Servido, InvProcesos, Suelto, Vivo
<1>11. EnOrden(p)'
  BY <1>1, <1>6, <1>9, <1>10, EsperaSigue DEF Servido
<1>12. ColasSinRepetidos'
  BY <1>2 DEF InvProcesos, ColasSinRepetidos
<1>13. OpDelPc'
  BY <1>2, OpSiguePasando DEF InvProcesos, PCsFin, PCsIO
<1> QED
  BY <1>5, <1>6, <1>11, <1>12, <1>13, SoloToca DEF Ajeno

\* A syscall passes the process from its CPU to a handler; with FetchLento its
\* dispatch is over by then.
LEMMA EmitirSyscallProcesos ==
  ASSUME InvTipos, InvCpus, InvProcesos, FetchLento, NEW c \in CPUs, EmitirSyscall(c)
  PROVE  InvProcesos'
<1>1. PICK p \in Pid : p = ejecuta[c].pid
  BY TiposDeCpus DEF EmitirSyscall, PidONinguno
<1>2. PICK op \in Syscalls : \E io : manejador' = [manejador EXCEPT ![c] =
                 [pc |-> Entrada[op], op |-> op, pid |-> p, n |-> ejecuta[c].PC + 1,
                  io |-> io, nuevo |-> NINGUNO]]
  <2>1. PICK op \in Programa[p][ejecuta[c].PC + 1] :
                 \E io : manejador' = [manejador EXCEPT ![c] =
                 [pc |-> Entrada[op], op |-> op, pid |-> p, n |-> ejecuta[c].PC + 1,
                  io |-> io, nuevo |-> NINGUNO]]
    BY <1>1 DEF EmitirSyscall
  <2>2. ejecuta[c].PC + 1 \in Numero
    BY TiposDeCpus, ConstantesOK DEF Numero
  <2>3. op \in Syscalls
    BY <2>1, <2>2, ConstantesOK
  <2> QED
    BY <2>1, <2>3
<1>3. /\ manejador[c].pc = "inactivo" /\ ejecuta' = [ejecuta EXCEPT ![c] = Ociosa]
      /\ emitidas' = [emitidas EXCEPT ![p] = ejecuta[c].PC + 1]
      /\ ~(corto.cpu = c /\ corto.pc \in {"a_execute", "cambia"})
      /\ UNCHANGED <<mapa, cola, pidCounter, corto, largo, temporizador, dispositivo,
                     finIO, esperaIO, mutexProc>>
  BY <1>1 DEF EmitirSyscall, En
<1>4. EnOrden(p)
  BY DEF InvProcesos
<1>5. /\ SoloEjecuta(c, p) /\ ejecuta[c].PC = emitidas[p] /\ ~(p >= pidCounter)
      /\ ~CortoTrae(p) /\ Vivo(p, {"EXECUTE"}) /\ SoloEn(p, {"EXECUTE"})
  <2>1. SoloEjecuta(c, p) /\ ejecuta[c].PC = emitidas[p] /\ ~(p >= pidCounter)
    BY <1>1, <1>4, AlEjecutar DEF EnOrden
  <2>2. ~CortoTrae(p)
    BY <1>3, <2>1 DEF SoloEjecuta, Despacha
  <2> QED
    BY <1>1, <1>4, <2>1, <2>2, AlEjecutar DEF EnOrden, CortoTrae, Despacha
<1>6. /\ manejador'[c].pc = Entrada[op] /\ manejador'[c].op = op /\ manejador'[c].pid = p
      /\ manejador'[c].n = ejecuta[c].PC + 1
      /\ \A d \in CPUs \ {c} : manejador'[d] = manejador[d]
  BY <1>2, TiposDeCpus
<1>7. /\ Entrada[op] \in {"io_lista", "fin_memoria", "dump_mira", "init_crea"}
      /\ Entrada[op] = "dump_mira" <=> op = "DUMP"
  BY DEF Entrada, Syscalls
<1>8. /\ ejecuta'[c].pid = NINGUNO /\ \A d \in CPUs \ {c} : ejecuta'[d] = ejecuta[d]
      /\ emitidas'[p] = ejecuta[c].PC + 1 /\ \A q \in Pid \ {p} : emitidas'[q] = emitidas[q]
      /\ NINGUNO \notin Pid
  BY <1>3, TiposDeCpus, TiposDeProcesos DEF Ociosa, Pid, NINGUNO
<1>9. \A q \in Pid \ {p} : AjenoTabla(q)
  BY <1>3, <1>8 DEF AjenoTabla, Esta
<1>10. \A q \in Pid \ {p} : AjenoManos(q)
  <2>1. \A q \in Pid \ {p}, d \in CPUs : MismaMano(d, q)
    BY <1>3, <1>6, <1>7 DEF MismaMano, Maneja, Crea
  <2> QED
    BY <1>1, <1>3, <1>8, <2>1 DEF AjenoManos, Suspende
<1>11. \A q \in Pid : AjenoEspera(q)
  BY <1>3, EsperaQuieta
<1>12. SoloManeja(c, p)'
  <2>1. Maneja(c, p)' /\ ~Crea(c, p)'
    BY <1>6, <1>7 DEF Maneja, Crea
  <2>2. \A d \in CPUs \ {c} : ~Maneja(d, p)' /\ ~Crea(d, p)' /\ ejecuta'[d].pid # p
    BY <1>5, <1>6, <1>8 DEF SoloEjecuta, Maneja, Crea
  <2> QED
    BY <1>3, <1>5, <1>8, <2>1, <2>2 DEF SoloManeja, SoloEjecuta, CortoTrae, LargoTrae, Suspende
<1>13. EstadoEn(c)' = "EXECUTE" /\ ColaEn(c)' = {"EXECUTE"}
  BY <1>6, <1>7 DEF EstadoEn, ColaEn
<1>14. EnMano(p)'
  <2>1. Vivo(p, {EstadoEn(c)})' /\ SoloEn(p, ColaEn(c))'
    BY <1>3, <1>5, <1>13 DEF Vivo, SoloEn
  <2> QED
    BY <1>3, <1>5, <1>6, <1>7, <1>8, <1>12, <2>1, QuedaManejado
<1>15. OpDelPc'
  <2>1. OpDe(c)'
    BY <1>6, <1>7 DEF OpDe, PCsFin, PCsIO
  <2>2. \A d \in CPUs \ {c} : OpDe(d)'
    BY <1>3, <1>6 DEF OpDe, InvProcesos, OpDelPc
  <2> QED
    BY <2>1, <2>2 DEF OpDe, OpDelPc
<1>16. DebeEsperar(p)' <=> DebeEsperar(p)
  <2>1. ~DebeEsperar(p)
    BY <1>5, EsperaLibre DEF SoloEjecuta, Vivo
  <2>2. ~DebeEsperar(p)'
    BY <1>3, <1>5, <1>6, <1>7, <1>12, <1>13, <1>15, EsperaManejadoDespues DEF Vivo
  <2> QED
    BY <2>1, <2>2
<1>17. EnOrden(p)'
  BY <1>4, <1>11, <1>14, <1>16, EsperaSigue
<1>18. ColasSinRepetidos'
  BY <1>3 DEF InvProcesos, ColasSinRepetidos
<1> QED
  BY <1>9, <1>10, <1>11, <1>15, <1>17, <1>18, SoloToca DEF Ajeno

\* The PC of p is saved, and nothing else changes.
LEMMA ConPCExacto ==
  ASSUME mapa \in [Pid -> Procesos \cup {NADA}], NEW p \in Pid, mapa[p] # NADA,
         NEW n, mapa' = [mapa EXCEPT ![p].PC = n]
  PROVE  /\ mapa'[p].estado = mapa[p].estado /\ mapa'[p].PC = n /\ mapa'[p].tam = mapa[p].tam
         /\ \A q \in Pid \ {p} : mapa'[q] = mapa[q]
<1>1. mapa[p] \in Procesos
  OBVIOUS
<1>2. mapa'[p] = [mapa[p] EXCEPT !.PC = n] /\ \A q \in Pid \ {p} : mapa'[q] = mapa[q]
  OBVIOUS
<1> QED
  BY <1>1, <1>2 DEF Procesos

\* IO on a device: the request goes out, or waits in the queue, before the
\* process leaves EXECUTE, and it is in that one place.
LEMMA IOSolicitarProcesos ==
  ASSUME InvTipos, InvTipos', InvCpus, InvIO, InvProcesos, NEW c \in CPUs, IOSolicitar(c)
  PROVE  InvProcesos'
<1>0. manejador[c].pc = "io_proceso"
  BY DEF IOSolicitar, En
<1>1. PICK p \in Pid : Servido(c, p)
  BY <1>0, AlServir
<1>2. PICK d \in NombresIO : d = manejador[c].io
  BY <1>0 DEF InvTipos, Nombran, ManejadorNombra, PCsIO
<1>3. /\ mapa' = [mapa EXCEPT ![p].PC = manejador[c].n] /\ Pasar(c, "io_bloquea")
      /\ mutexProc[p] = NADA /\ mutexProc' = [mutexProc EXCEPT ![p] = GSyscall(c)]
      /\ UNCHANGED <<cola, pidCounter, emitidas, ejecuta, corto, largo,
                     temporizador, finIO>>
  BY <1>1 DEF IOSolicitar, Servido
<1>4. /\ manejador'[c].pc = "io_bloquea" /\ manejador'[c].pid = p
      /\ manejador'[c].op = manejador[c].op /\ manejador'[c].n = manejador[c].n
      /\ manejador[c].op # "DUMP"
      /\ \A k \in CPUs \ {c} : manejador'[k] = manejador[k]
  BY <1>0, <1>1, <1>3, PasoDeManejador DEF Servido, InvProcesos, OpDelPc, PCsIO
<1>5. EstadoEn(c) = "EXECUTE" /\ EstadoEn(c)' = "EXECUTE"
  BY <1>4 DEF EstadoEn
<1>6. mapa[p] # NADA /\ mapa[p].estado = "EXECUTE" /\ SoloEn(p, {"EXECUTE"})
  BY <1>0, <1>1, <1>5 DEF Servido, Vivo, ColaEn
<1>7. /\ mapa'[p] # NADA /\ mapa'[p].estado = "EXECUTE" /\ mapa'[p].PC = emitidas[p]
      /\ \A q \in Pid \ {p} : mapa'[q] = mapa[q]
  <2>1. /\ mapa'[p].estado = "EXECUTE" /\ mapa'[p].PC = manejador[c].n
        /\ \A q \in Pid \ {p} : mapa'[q] = mapa[q]
    BY <1>3, <1>6, ConPCExacto, TiposDeProcesos
  <2>2. mapa'[p] # NADA
    BY <1>4 DEF InvTipos, SigueVivo
  <2> QED
    BY <1>1, <2>1, <2>2 DEF Servido
<1>8. \A q \in Pid \ {p} : AjenoTabla(q)
  BY <1>3, <1>7 DEF AjenoTabla, Esta
<1>9. \A q \in Pid \ {p} : AjenoManos(q)
  BY <1>0, <1>1, <1>3, <1>4, AjenosAlManejador DEF Servido
<1>10. SoloManeja(c, p)'
  BY <1>1, <1>3, <1>4, SigueSolo DEF Servido, Suspende
<1>11. Vivo(p, {EstadoEn(c)})'
  BY <1>5, <1>7 DEF Vivo
<1>12. EnMano(p)'
  <2>1. SoloEn(p, ColaEn(c))'
    BY <1>3, <1>4, <1>5, <1>6 DEF SoloEn, ColaEn
  <2> QED
    BY <1>1, <1>3, <1>4, <1>7, <1>10, <1>11, <2>1, QuedaManejado DEF Servido
<1>13. OpDelPc'
  <2>1. /\ \A q \in Pid \ {p} : mutexProc'[q] = mutexProc[q]
        /\ \A k \in CPUs : mutexProc[p] # GSyscall(k)
    BY <1>3, TiposDeProcesos, NadaNoEsDueno
  <2>2. OpDe(c)'
    BY <1>4 DEF OpDe
  <2> QED
    BY <1>4, <2>1, <2>2, OpSigueOtros DEF InvProcesos
<1>14. DebeEsperar(p)'
  BY <1>4, <1>10, <1>11, <1>13, EsperaManejadoDespues
<1>15. ~Pendiente(p)
  BY <1>0, <1>1, EsperaManejado DEF Servido, EnOrden, EsperaJusta, InvProcesos
<1>16. /\ UnSoloLugar(p)' /\ Pendiente(p)' /\ \A q \in Pid \ {p} : AjenoEspera(q)
       /\ \A e \in NombresIO : SinRepetidos(esperaIO'[e])
  <2>1. CASE Libres(d) # {}
    <3>1. PICK i \in Instancias : i = PrimeraLibre(d)
      BY <2>1, LibreOciosa
    <3>2. dispositivo[i] = NINGUNO /\ finIO[i].pc = "inactivo"
      BY <2>1, <3>1, LibreOciosa
    <3>3. dispositivo' = [dispositivo EXCEPT ![i] = p] /\ esperaIO' = esperaIO
      BY <1>1, <1>2, <2>1, <3>1 DEF IOSolicitar, Solicitar, Servido
    <3>4. dispositivo'[i] = p /\ \A j \in Instancias \ {i} : dispositivo'[j] = dispositivo[j]
      BY <3>3, TiposDeIO
    <3>5. /\ \A j \in Instancias : Atiende(j, p)' <=> j = i
          /\ \A q \in Pid \ {p}, j \in Instancias : Atiende(j, q)' <=> Atiende(j, q)
      BY <1>3, <1>15, <3>2, <3>4, TiposDeIO DEF Atiende, Pendiente
    <3> QED
      BY <1>15, <3>3, <3>5
         DEF UnSoloLugar, Pendiente, AjenoEspera, InvProcesos, ColasSinRepetidos, Esta
  <2>2. CASE Libres(d) = {}
    <3>1. esperaIO' = [esperaIO EXCEPT ![d] = Append(esperaIO[d], p)] /\ dispositivo' = dispositivo
      BY <1>1, <1>2, <2>2 DEF IOSolicitar, Servido
    <3>2. esperaIO[d] \in Seq(Pid) /\ SinRepetidos(esperaIO[d]) /\ ~Esta(esperaIO[d], p)
      BY <1>15, TiposDeProcesos DEF InvProcesos, ColasSinRepetidos, Pendiente
    <3>3. /\ SinRepetidos(esperaIO'[d])
          /\ \A q : Esta(esperaIO'[d], q) <=> Esta(esperaIO[d], q) \/ q = p
          /\ \A e \in NombresIO \ {d} : esperaIO'[e] = esperaIO[e]
      BY <3>1, <3>2, AppendExacto, TiposDeProcesos
    <3>4. \A e \in NombresIO : Esta(esperaIO'[e], p) <=> e = d
      BY <1>15, <3>3 DEF Pendiente, Esta
    <3>5. \A q \in Pid \ {p}, e \in NombresIO : Esta(esperaIO'[e], q) <=> Esta(esperaIO[e], q)
      BY <3>3 DEF Esta
    <3>6. \A q \in Pid, j \in Instancias : Atiende(j, q)' <=> Atiende(j, q)
      BY <1>3, <3>1 DEF Atiende
    <3> QED
      BY <1>15, <3>3, <3>4, <3>5, <3>6
         DEF UnSoloLugar, Pendiente, AjenoEspera, InvProcesos, ColasSinRepetidos
  <2> QED
    BY <2>1, <2>2
<1>17. EnOrden(p)'
  BY <1>12, <1>14, <1>16 DEF EnOrden, EsperaJusta
<1>18. ColasSinRepetidos'
  BY <1>3, <1>16 DEF InvProcesos, ColasSinRepetidos
<1> QED
  BY <1>8, <1>9, <1>13, <1>16, <1>17, <1>18, SoloToca DEF Ajeno

\* Every call of execute_a_blocked finds the process where it looks for it.
LEMMA IOBloquearMovible ==
  ASSUME InvProcesos, NEW c \in CPUs, NEW p \in Pid, Servido(c, p),
         manejador[c].pc \in {"io_bloquea", "dump_bloquea"}
  PROVE  Movible("EXECUTE", "BLOCKED", p) /\ EstadoEn(c) = "EXECUTE" /\ SoloEn(p, {"EXECUTE"})
<1>1. EstadoEn(c) = "EXECUTE"
  BY DEF InvProcesos, OpDelPc, EstadoEn, PCsIO
<1>2. SoloEn(p, {"EXECUTE"})
  BY <1>1 DEF Servido, ColaEn
<1> QED
  BY <1>1, <1>2 DEF SoloEn, Movible, Estados

\* BloquearProceso finds the process of an IO in EXECUTE and leaves it in
\* BLOCKED.
LEMMA IOBloquearProcesos ==
  ASSUME InvTipos, InvCpus, InvProcesos, NEW c \in CPUs, IOBloquear(c)
  PROVE  InvProcesos'
<1>0. manejador[c].pc = "io_bloquea"
  BY DEF IOBloquear, En
<1>1. PICK p \in Pid : Servido(c, p)
  BY <1>0, AlServir
<1>2. Movible("EXECUTE", "BLOCKED", p) /\ SoloEn(p, {"EXECUTE"}) /\ EstadoEn(c) = "EXECUTE"
  BY <1>0, <1>1, IOBloquearMovible
<1>3. /\ cola' = MoverDe("EXECUTE", "BLOCKED", p) /\ mapa' \in Bloqueado(p)
      /\ temporizador' = ConTimer(p, manejador[c].n) /\ Pasar(c, "libera")
      /\ mutexProc' = [mutexProc EXCEPT ![p] = NADA]
      /\ UNCHANGED <<pidCounter, emitidas, ejecuta, corto, largo, dispositivo, finIO,
                     esperaIO>>
  BY <1>1, <1>2 DEF IOBloquear, Servido
<1>4. /\ manejador'[c].pc = "libera" /\ manejador'[c].pid = p
      /\ manejador'[c].op = manejador[c].op
      /\ \A d \in CPUs \ {c} : manejador'[d] = manejador[d]
  BY <1>1, <1>3, PasoDeManejador DEF Servido
<1>5. /\ mapa'[p] # NADA /\ mapa'[p].estado = "BLOCKED" /\ mapa'[p].PC = mapa[p].PC
      /\ \A q \in Pid \ {p} : mapa'[q] = mapa[q]
  BY <1>1, <1>3, BloqueadoExacto, TiposDeProcesos DEF Servido, Vivo
<1>6. /\ \A g \in Estados : SinRepetidos(cola'[g])
      /\ \A q \in Pid \ {p} : \A g \in Estados : Esta(cola'[g], q) <=> Esta(cola[g], q)
      /\ \A g \in Estados :
           Esta(cola'[g], p) <=> g = "BLOCKED" \/ (g # "EXECUTE" /\ Esta(cola[g], p))
  BY <1>2, <1>3, MoverDeExacto, TiposDeProcesos DEF InvProcesos, Estados
<1>7. (\A q \in Pid \ {p} : temporizador'[q] = temporizador[q]) /\ (Suspende(p)' => Suspende(p))
  <2>1. manejador[c].n \in Numero
    BY <1>0 DEF InvTipos, Nombran, ManejadorNombra
  <2> QED
    BY <1>3, <2>1, TimerDuerme
<1>8. \A q \in Pid \ {p} : AjenoTabla(q)
  BY <1>3, <1>5, <1>6 DEF AjenoTabla
<1>9. \A q \in Pid \ {p} : AjenoManos(q)
  BY <1>0, <1>1, <1>3, <1>4, <1>7, AjenosAlManejador DEF Servido
<1>10. \A q \in Pid : AjenoEspera(q)
  BY <1>3, EsperaQuieta
<1>11. Suelto(p)' /\ ~CortoTrae(p)' /\ ~LargoTrae(p)' /\ ~Suspende(p)'
  BY <1>1, <1>3, <1>4, <1>7, QuedaSinNadie DEF Servido
<1>12. EnMano(p)'
  <2>1. SoloEn(p, {mapa[p].estado})'
    BY <1>2, <1>5, <1>6 DEF SoloEn
  <2>2. mapa'[p].PC = emitidas'[p]
    BY <1>0, <1>1, <1>3, <1>5 DEF Servido, EnOrden, EnMano, PCAlDia
  <2> QED
    BY <1>1, <1>3, <1>5, <1>11, <2>1, <2>2, QuedaSuelto DEF Servido, CortoTrae
<1>13. DebeEsperar(p)' <=> DebeEsperar(p)
  BY <1>0, <1>1, <1>5, <1>11, EsperaManejado, EsperaLibreDespues
     DEF Servido, InvProcesos, Suelto, Vivo
<1>14. EnOrden(p)'
  BY <1>1, <1>10, <1>12, <1>13, EsperaSigue DEF Servido
<1>15. OpDelPc'
  <2>1. mutexProc[p] = GSyscall(c)
    BY <1>0, <1>1 DEF Servido, InvTipos, Duenos, ManejadorEsDueno
  <2>2. /\ \A q \in Pid \ {p} : mutexProc'[q] = mutexProc[q]
        /\ \A d \in CPUs \ {c} : mutexProc[p] # GSyscall(d)
    BY <1>3, <2>1, TiposDeProcesos, DuenosDistintos
  <2>3. OpDe(c)'
    BY <1>4 DEF OpDe, PCsIO, PCsFin
  <2> QED
    BY <1>4, <2>2, <2>3, OpSigueOtros DEF InvProcesos
<1>16. ColasSinRepetidos'
  BY <1>3, <1>6 DEF InvProcesos, ColasSinRepetidos
<1> QED
  BY <1>8, <1>9, <1>10, <1>14, <1>15, <1>16, SoloToca DEF Ajeno

\* BloquearProceso, for a dump, moves the process to BLOCKED before its state.
LEMMA DumpBloquearProcesos ==
  ASSUME InvTipos, InvCpus, InvProcesos, NEW c \in CPUs, DumpBloquear(c)
  PROVE  InvProcesos'
<1>0. manejador[c].pc = "dump_bloquea"
  BY DEF DumpBloquear, En
<1>1. PICK p \in Pid : Servido(c, p)
  BY <1>0, AlServir
<1>2. Movible("EXECUTE", "BLOCKED", p) /\ SoloEn(p, {"EXECUTE"}) /\ EstadoEn(c) = "EXECUTE"
  BY <1>0, <1>1, IOBloquearMovible
<1>3. /\ cola' = MoverDe("EXECUTE", "BLOCKED", p) /\ Pasar(c, "dump_cambia")
      /\ UNCHANGED <<mapa, pidCounter, emitidas, ejecuta, corto, largo, dispositivo, finIO,
                     esperaIO, temporizador, mutexProc>>
  BY <1>1, <1>2 DEF DumpBloquear, Servido
<1>4. /\ manejador'[c].pc = "dump_cambia" /\ manejador'[c].pid = p
      /\ manejador'[c].op = manejador[c].op /\ manejador'[c].n = manejador[c].n
      /\ \A d \in CPUs \ {c} : manejador'[d] = manejador[d]
  BY <1>1, <1>3, PasoDeManejador DEF Servido
<1>6. /\ \A g \in Estados : SinRepetidos(cola'[g])
      /\ \A q \in Pid \ {p} : \A g \in Estados : Esta(cola'[g], q) <=> Esta(cola[g], q)
      /\ \A g \in Estados :
           Esta(cola'[g], p) <=> g = "BLOCKED" \/ (g # "EXECUTE" /\ Esta(cola[g], p))
  BY <1>2, <1>3, MoverDeExacto, TiposDeProcesos DEF InvProcesos, Estados
<1>8. \A q \in Pid \ {p} : AjenoTabla(q)
  BY <1>3, <1>6 DEF AjenoTabla
<1>9. \A q \in Pid \ {p} : AjenoManos(q)
  BY <1>0, <1>1, <1>3, <1>4, AjenosAlManejador DEF Servido
<1>10. \A q \in Pid : AjenoEspera(q)
  BY <1>3, EsperaQuieta
<1>11. SoloManeja(c, p)'
  BY <1>1, <1>3, <1>4, SigueSolo DEF Servido, Suspende
<1>12. Vivo(p, {EstadoEn(c)})' /\ ColaEn(c)' = {"BLOCKED"}
  BY <1>1, <1>2, <1>3, <1>4 DEF Vivo, EstadoEn, ColaEn, Servido
<1>13. EnMano(p)'
  <2>1. SoloEn(p, ColaEn(c))'
    BY <1>2, <1>6, <1>12 DEF SoloEn
  <2> QED
    BY <1>1, <1>3, <1>4, <1>11, <1>12, <2>1, QuedaManejado DEF Servido
<1>14. OpDelPc'
  BY <1>0, <1>3, OpSiguePasando DEF InvProcesos, OpDelPc, PCsIO, PCsFin
<1>15. DebeEsperar(p)' <=> DebeEsperar(p)
  BY <1>0, <1>1, <1>4, <1>11, <1>12, <1>14, EsperaManejado, EsperaManejadoDespues
     DEF Servido, InvProcesos
<1>16. EnOrden(p)'
  BY <1>1, <1>10, <1>13, <1>15, EsperaSigue DEF Servido
<1>17. ColasSinRepetidos'
  BY <1>3, <1>6 DEF InvProcesos, ColasSinRepetidos
<1> QED
  BY <1>8, <1>9, <1>10, <1>14, <1>16, <1>17, SoloToca DEF Ajeno

\* ... and then its state; it is still in the table.
LEMMA DumpCambiarProcesos ==
  ASSUME InvTipos, InvCpus, InvProcesos, NEW c \in CPUs, DumpCambiar(c)
  PROVE  InvProcesos' /\ panico' = panico
<1>0. manejador[c].pc = "dump_cambia"
  BY DEF DumpCambiar, En
<1>1. PICK p \in Pid : Servido(c, p)
  BY <1>0, AlServir
<1>2. mapa[p] # NADA
  BY <1>1 DEF Servido, Vivo
<1>3. /\ mapa' \in Bloqueado(p) /\ Pasar(c, "dump_toma") /\ panico' = panico
      /\ temporizador' = ConTimer(p, manejador[c].n)
      /\ UNCHANGED <<cola, pidCounter, emitidas, ejecuta, corto, largo, dispositivo, finIO,
                     esperaIO, mutexProc>>
  BY <1>1, <1>2 DEF DumpCambiar, Servido
<1>4. /\ manejador'[c].pc = "dump_toma" /\ manejador'[c].pid = p
      /\ manejador'[c].op = manejador[c].op /\ manejador'[c].n = manejador[c].n
      /\ manejador[c].op = "DUMP"
      /\ \A d \in CPUs \ {c} : manejador'[d] = manejador[d]
  BY <1>0, <1>1, <1>3, PasoDeManejador DEF Servido, InvProcesos, OpDelPc
<1>5. /\ mapa'[p] # NADA /\ mapa'[p].estado = "BLOCKED"
      /\ \A q \in Pid \ {p} : mapa'[q] = mapa[q]
  BY <1>2, <1>3, BloqueadoExacto, TiposDeProcesos
<1>7. (\A q \in Pid \ {p} : temporizador'[q] = temporizador[q]) /\ (Suspende(p)' => Suspende(p))
  <2>1. manejador[c].n \in Numero
    BY <1>0 DEF InvTipos, Nombran, ManejadorNombra
  <2> QED
    BY <1>3, <2>1, TimerDuerme
<1>8. \A q \in Pid \ {p} : AjenoTabla(q)
  BY <1>3, <1>5 DEF AjenoTabla, Esta
<1>9. \A q \in Pid \ {p} : AjenoManos(q)
  BY <1>0, <1>1, <1>3, <1>4, <1>7, AjenosAlManejador DEF Servido
<1>10. \A q \in Pid : AjenoEspera(q)
  BY <1>3, EsperaQuieta
<1>11. SoloManeja(c, p)'
  BY <1>1, <1>3, <1>4, <1>7, SigueSolo DEF Servido
<1>12. EstadoEn(c)' = "BLOCKED" /\ ColaEn(c)' = {"BLOCKED"} /\ ColaEn(c) = {"BLOCKED"}
  BY <1>0, <1>4 DEF EstadoEn, ColaEn
<1>13. EnMano(p)'
  <2>1. SoloEn(p, ColaEn(c))' /\ Vivo(p, {EstadoEn(c)})'
    BY <1>1, <1>3, <1>5, <1>12 DEF SoloEn, Vivo, Servido
  <2> QED
    BY <1>1, <1>3, <1>4, <1>11, <2>1, QuedaManejado DEF Servido
<1>14. OpDelPc'
  BY <1>0, <1>3, <1>4, OpSiguePasando DEF InvProcesos, PCsIO, PCsFin
<1>15. DebeEsperar(p)' <=> DebeEsperar(p)
  <2>1. ~DebeEsperar(p)
    BY <1>0, <1>1, EsperaManejado DEF Servido, InvProcesos
  <2>2. Vivo(p, {EstadoEn(c)})'
    BY <1>5, <1>12 DEF Vivo
  <2> QED
    BY <1>4, <1>11, <1>14, <2>1, <2>2, EsperaManejadoDespues
<1>16. EnOrden(p)'
  BY <1>1, <1>10, <1>13, <1>15, EsperaSigue DEF Servido
<1>17. ColasSinRepetidos'
  BY <1>3 DEF InvProcesos, ColasSinRepetidos
<1> QED
  BY <1>3, <1>8, <1>9, <1>10, <1>14, <1>16, <1>17, SoloToca DEF Ajeno

\* The end of a dump finds its process in BLOCKED, where it left it.
LEMMA DumpEncuentra ==
  ASSUME InvProcesos, NEW c \in CPUs, NEW p \in Pid, Servido(c, p),
         manejador[c].pc = "dump_vuelve"
  PROVE  /\ mapa[p] # NADA /\ Movible("BLOCKED", "READY", p)
         /\ mapa[p].estado = "BLOCKED" /\ SoloEn(p, {"BLOCKED"})
<1>1. EstadoEn(c) = "BLOCKED"
  BY DEF InvProcesos, OpDelPc, EstadoEn
<1> QED
  BY <1>1 DEF Servido, ColaEn, Vivo, SoloEn, Movible, Estados

\* The end of a dump returns its process to READY with the PC of the syscall.
LEMMA DumpVolverProcesos ==
  ASSUME InvTipos, InvTipos', InvCpus, InvProcesos, NEW c \in CPUs, DumpVolver(c)
  PROVE  InvProcesos'
<1>0. manejador[c].pc = "dump_vuelve"
  BY DEF DumpVolver, En
<1>1. PICK p \in Pid : Servido(c, p)
  BY <1>0, AlServir
<1>2. /\ mapa[p] # NADA /\ Movible("BLOCKED", "READY", p) /\ SoloEn(p, {"BLOCKED"})
  BY <1>0, <1>1, DumpEncuentra
<1>3. /\ cola' = MoverDe("BLOCKED", "READY", p) /\ Pasar(c, "libera")
      /\ mapa' = [mapa EXCEPT ![p].PC = manejador[c].n, ![p].estado = "READY"]
      /\ mutexProc' = [mutexProc EXCEPT ![p] = NADA]
      /\ UNCHANGED <<pidCounter, emitidas, ejecuta, corto, largo, dispositivo, finIO,
                     esperaIO, temporizador>>
  BY <1>1, <1>2 DEF DumpVolver, Servido, Pasar
<1>4. /\ manejador'[c].pc = "libera" /\ manejador'[c].pid = p
      /\ manejador'[c].op = manejador[c].op
      /\ \A d \in CPUs \ {c} : manejador'[d] = manejador[d]
  BY <1>1, <1>3, PasoDeManejador DEF Servido
<1>5. /\ mapa'[p] # NADA /\ mapa'[p].estado = "READY" /\ mapa'[p].PC = emitidas[p]
      /\ \A q \in Pid \ {p} : mapa'[q] = mapa[q]
  <2>1. mapa[p] \in Procesos /\ manejador[c].n \in 0 .. MaxSyscalls - 1
    BY <1>0, <1>2, TiposDeCpus, TiposDeProcesos, ConstantesOK
       DEF InvTipos, Nombran, ManejadorNombra, PCsReanuda, Numero
  <2>2. /\ mapa'[p] = [mapa[p] EXCEPT !.PC = manejador[c].n, !.estado = "READY"]
        /\ \A q \in Pid \ {p} : mapa'[q] = mapa[q]
    BY <1>3, TiposDeProcesos
  <2>3. mapa'[p] \in Procesos /\ mapa'[p].estado = "READY" /\ mapa'[p].PC = manejador[c].n
    BY <2>1, <2>2 DEF Procesos, Estados
  <2> QED
    BY <1>1, <2>2, <2>3, NadaOK DEF Servido
<1>6. /\ \A g \in Estados : SinRepetidos(cola'[g])
      /\ \A q \in Pid \ {p} : \A g \in Estados : Esta(cola'[g], q) <=> Esta(cola[g], q)
      /\ \A g \in Estados : Esta(cola'[g], p) <=> g = "READY" \/ (g # "BLOCKED" /\ Esta(cola[g], p))
  BY <1>2, <1>3, MoverDeExacto, TiposDeProcesos DEF InvProcesos, Estados
<1>8. \A q \in Pid \ {p} : AjenoTabla(q)
  BY <1>3, <1>5, <1>6 DEF AjenoTabla
<1>9. \A q \in Pid \ {p} : AjenoManos(q)
  BY <1>0, <1>1, <1>3, <1>4, AjenosAlManejador DEF Servido
<1>10. \A q \in Pid : AjenoEspera(q)
  BY <1>3, EsperaQuieta
<1>11. Suelto(p)' /\ ~CortoTrae(p)' /\ ~LargoTrae(p)' /\ ~Suspende(p)'
  BY <1>1, <1>3, <1>4, QuedaSinNadie DEF Servido, Suspende
<1>12. EnMano(p)'
  <2>1. SoloEn(p, {mapa[p].estado})'
    BY <1>2, <1>5, <1>6 DEF SoloEn
  <2> QED
    BY <1>1, <1>3, <1>5, <1>11, <2>1, QuedaSuelto DEF Servido, CortoTrae
<1>13. DebeEsperar(p)' <=> DebeEsperar(p)
  BY <1>0, <1>1, <1>5, <1>11, EsperaManejado, EsperaLibreDespues
     DEF Servido, InvProcesos, Suelto, Vivo
<1>14. EnOrden(p)'
  BY <1>1, <1>10, <1>12, <1>13, EsperaSigue DEF Servido
<1>15. OpDelPc'
  <2>1. mutexProc[p] = GSyscall(c)
    BY <1>0, <1>1 DEF Servido, InvTipos, Duenos, ManejadorEsDueno
  <2>2. /\ \A q \in Pid \ {p} : mutexProc'[q] = mutexProc[q]
        /\ \A d \in CPUs \ {c} : mutexProc[p] # GSyscall(d)
    BY <1>3, <2>1, TiposDeProcesos, DuenosDistintos
  <2>3. OpDe(c)'
    BY <1>4 DEF OpDe, PCsIO, PCsFin
  <2> QED
    BY <1>4, <2>2, <2>3, OpSigueOtros DEF InvProcesos
<1>16. ColasSinRepetidos'
  BY <1>3, <1>6 DEF InvProcesos, ColasSinRepetidos
<1> QED
  BY <1>8, <1>9, <1>10, <1>14, <1>15, <1>16, SoloToca DEF Ajeno

---------------------------------------------------------------------------
(* The end of an IO, the handshakes, and the whole step. *)

\* Nobody has p in hand.
Olvidado(p) ==
  /\ \A d \in CPUs : ejecuta[d].pid # p /\ ~Maneja(d, p) /\ ~Crea(d, p)
  /\ ~CortoTrae(p) /\ ~LargoTrae(p) /\ ~Suspende(p)

\* Nobody knows of a pid that has not been given out.
LEMMA SinCrearOlvidado ==
  ASSUME NEW r \in Pid, EnMano(r), r >= pidCounter
  PROVE  /\ mapa[r] = NADA /\ emitidas[r] = 0
         /\ Olvidado(r) /\ SoloEn(r, {})
<1>1. mapa[r] = NADA /\ emitidas[r] = 0
  BY DEF EnMano, SinCrear
<1>2. Olvidado(r)
  BY <1>1 DEF EnMano, ManoCpu, ManoPlanificador, Vivo, Olvidado
<1>3. ~EnTransicion(r)
  BY <1>2 DEF EnTransicion, Olvidado, Maneja, Crea, CortoTrae
<1> QED
  BY <1>1, <1>2, <1>3 DEF EnMano, Ubicado

\* A process that has just been created is in the hands of its creator.
LEMMA QuedaCreado ==
  ASSUME NEW r \in Pid, NEW c \in CPUs, manejador'[c].pc = "init_new",
         manejador'[c].nuevo = r, \A d \in CPUs \ {c} : ~Crea(d, r)',
         \A d \in CPUs : ejecuta'[d].pid # r /\ ~Maneja(d, r)',
         ~CortoTrae(r)', ~LargoTrae(r)', ~Suspende(r)', Vivo(r, {"NEW"})',
         mapa'[r].PC = emitidas'[r], SoloEn(r, {})', ~(r >= pidCounter')
  PROVE  EnMano(r)'
<1>1. Ubicado(r)'
  <2>1. EnTransicion(r)'
    BY DEF EnTransicion
  <2> QED
    BY <2>1 DEF Ubicado, CortoTrae
<1>2. UnaMano(r)'
  BY DEF UnaMano, Ocupa, Maneja
<1>3. ManoCpu(r)'
  BY DEF ManoCpu
<1>4. ManoPlanificador(r)'
  BY DEF ManoPlanificador, CortoTrae, Despacha
<1>5. PCAlDia(r)' /\ SinCrear(r)'
  BY DEF PCAlDia, CortoTrae, SinCrear
<1> QED
  BY <1>1, <1>2, <1>3, <1>4, <1>5 DEF EnMano

\* What a handler of INIT_PROC does to others than the process it creates.
LEMMA AjenosAlCrear ==
  ASSUME NEW c \in CPUs, NEW r \in Pid, manejador[c].op # "DUMP",
         manejador[c].pc \in {"init_crea", "init_new"},
         manejador'[c].pc \in {"init_new", "init_reenvia"},
         manejador[c].pc = "init_new" => manejador[c].nuevo = r,
         manejador'[c].nuevo = r, manejador'[c].pid = manejador[c].pid,
         manejador'[c].op = manejador[c].op, manejador'[c].n = manejador[c].n,
         \A d \in CPUs \ {c} : manejador'[d] = manejador[d],
         UNCHANGED <<ejecuta, corto, largo, temporizador>>
  PROVE  \A q \in Pid \ {r} : AjenoManos(q)
<1>1. Fase(manejador'[c].pc) = Fase(manejador[c].pc) /\ EstadoEn(c)' = EstadoEn(c)
  BY DEF Fase, EstadoEn
<1>2. \A q \in Pid \ {r} : MismaMano(c, q)
  BY <1>1 DEF MismaMano, Maneja, Crea
<1>3. \A q \in Pid \ {r}, d \in CPUs : MismaMano(d, q)
  BY <1>2 DEF MismaMano
<1> QED
  BY <1>3 DEF AjenoManos, Suspende

\* CrearProcesoNuevo gives out a pid nobody knows of.
LEMMA InitCrearProcesos ==
  ASSUME InvTipos, InvProcesos, NEW c \in CPUs, InitCrear(c) PROVE InvProcesos'
<1>1. PICK t \in Tamanios : mapa' = [mapa EXCEPT ![pidCounter] = ProcesoNuevo(t)]
  BY DEF InitCrear
<1>2. PICK r \in Pid : r = pidCounter
  BY TiposDeProcesos, ConstantesOK DEF InitCrear, Pid
<1>3. /\ manejador[c].pc = "init_crea" /\ pidCounter' = r + 1
      /\ manejador' = [manejador EXCEPT ![c].pc = "init_new", ![c].nuevo = r]
      /\ UNCHANGED <<cola, emitidas, ejecuta, corto, largo, dispositivo, finIO,
                     esperaIO, temporizador, mutexProc>>
  BY <1>2 DEF InitCrear, En
<1>4. /\ manejador'[c].pc = "init_new" /\ manejador'[c].nuevo = r
      /\ manejador'[c].pid = manejador[c].pid /\ manejador'[c].op = manejador[c].op
      /\ manejador'[c].n = manejador[c].n
      /\ \A d \in CPUs \ {c} : manejador'[d] = manejador[d]
  BY <1>3, TiposDeCpus
<1>5. manejador[c].op # "DUMP"
  BY <1>3 DEF InvProcesos, OpDelPc
<1>6. /\ r >= pidCounter /\ ~(r >= pidCounter')
      /\ \A q \in Pid \ {r} : q >= pidCounter' => q >= pidCounter
  BY <1>2, <1>3 DEF Pid
<1>7. EnOrden(r) /\ mapa[r] = NADA /\ emitidas[r] = 0 /\ Olvidado(r) /\ SoloEn(r, {})
  BY <1>6, SinCrearOlvidado DEF InvProcesos, EnOrden
<1>8. /\ mapa'[r] = ProcesoNuevo(t) /\ \A q \in Pid \ {r} : mapa'[q] = mapa[q]
  BY <1>1, <1>2, TiposDeProcesos
<1>9. mapa'[r] # NADA /\ mapa'[r].estado = "NEW" /\ mapa'[r].PC = 0
  <2>1. ProcesoNuevo(t) \in Procesos
    BY CeroEsPC, ConstantesOK DEF ProcesoNuevo, Procesos, Estados
  <2> QED
    BY <1>8, <2>1, NadaOK DEF ProcesoNuevo
<1>10. \A q \in Pid \ {r} : AjenoTabla(q)
  BY <1>3, <1>6, <1>8 DEF AjenoTabla, Esta
<1>11. \A q \in Pid \ {r} : AjenoManos(q)
  BY <1>3, <1>4, <1>5, AjenosAlCrear
<1>12. \A q \in Pid : AjenoEspera(q)
  BY <1>3, EsperaQuieta
<1>13. manejador[c].pid # r
  BY <1>3, <1>7 DEF Olvidado, Maneja
<1>14. \A d \in CPUs : ejecuta'[d].pid # r /\ ~Maneja(d, r)'
  BY <1>3, <1>4, <1>7, <1>13 DEF Olvidado, Maneja
<1>15. EnMano(r)'
  <2>1. \A d \in CPUs \ {c} : ~Crea(d, r)'
    BY <1>4, <1>7 DEF Olvidado, Crea
  <2>2. ~CortoTrae(r)' /\ ~LargoTrae(r)' /\ ~Suspende(r)'
    BY <1>3, <1>7 DEF Olvidado, CortoTrae, LargoTrae, Suspende
  <2>3. Vivo(r, {"NEW"})' /\ SoloEn(r, {})'
    BY <1>3, <1>7, <1>9 DEF Vivo, SoloEn
  <2> QED
    BY <1>3, <1>4, <1>6, <1>7, <1>9, <1>14, <2>1, <2>2, <2>3, QuedaCreado
<1>16. DebeEsperar(r)' <=> DebeEsperar(r)
  BY <1>7, <1>9, <1>14, EsperaLibre, EsperaLibreDespues DEF Olvidado, Vivo
<1>17. EnOrden(r)'
  BY <1>7, <1>12, <1>15, <1>16, EsperaSigue
<1>18. ColasSinRepetidos'
  BY <1>3 DEF InvProcesos, ColasSinRepetidos
<1>19. OpDelPc'
  <2>1. OpDe(c)'
    BY <1>4, <1>5 DEF OpDe
  <2>2. \A d \in CPUs \ {c} : OpDe(d)'
    BY <1>3, <1>4 DEF OpDe, InvProcesos, OpDelPc
  <2> QED
    BY <2>1, <2>2 DEF OpDe, OpDelPc
<1> QED
  BY <1>10, <1>11, <1>12, <1>17, <1>18, <1>19, SoloToca DEF Ajeno

\* agregar_a_new: the new process joins NEW, the others keep their place.
LEMMA AgregarANew ==
  ASSUME InvTipos, ColasSinRepetidos, NEW r \in Pid, ~Esta(cola["NEW"], r), NEW s \in NewCon(r)
  PROVE  SinRepetidos(s) /\ \A q : Esta(s, q) <=> Esta(cola["NEW"], q) \/ q = r
<1> DEFINE a == Append(cola["NEW"], r)
<1>1. /\ SinRepetidos(a) /\ a \in Seq(Pid)
      /\ \A q : Esta(a, q) <=> Esta(cola["NEW"], q) \/ q = r
  <2>1. cola["NEW"] \in Seq(Pid) /\ SinRepetidos(cola["NEW"])
    BY TiposDeProcesos DEF ColasSinRepetidos, Estados
  <2> QED
    BY <2>1, AppendExacto
<1>2. \/ s = a
      \/ s \in [DOMAIN a -> {a[i] : i \in DOMAIN a}] /\ \A i \in DOMAIN a : Esta(s, a[i])
  BY DEF NewCon, Ordenadas
<1> HIDE DEF a
<1> QED
  BY <1>1, <1>2, OrdenExacto

\* The new process enters NEW, once.
LEMMA InitAgregarNewProcesos ==
  ASSUME InvTipos, InvProcesos, NEW c \in CPUs, InitAgregarNew(c) PROVE InvProcesos'
<1>0. manejador[c].pc = "init_new"
  BY DEF InitAgregarNew, En
<1>1. PICK r \in Pid : r = manejador[c].nuevo
  BY <1>0 DEF InvTipos, Nombran, ManejadorNombra
<1>2. PICK s \in NewCon(r) : cola' = [cola EXCEPT !["NEW"] = s]
  BY <1>1 DEF InitAgregarNew
<1>3. /\ Pasar(c, "init_reenvia")
      /\ UNCHANGED <<mapa, pidCounter, emitidas, ejecuta, corto, largo, dispositivo, finIO,
                     esperaIO, temporizador, mutexProc>>
  BY DEF InitAgregarNew
<1>4. /\ manejador'[c].pc = "init_reenvia" /\ manejador'[c].nuevo = r
      /\ manejador'[c].pid = manejador[c].pid /\ manejador'[c].op = manejador[c].op
      /\ manejador'[c].n = manejador[c].n
      /\ \A d \in CPUs \ {c} : manejador'[d] = manejador[d]
  BY <1>1, <1>3, PasarExacto, TiposDeCpus DEF Pasar
<1>5. manejador[c].op # "DUMP"
  BY <1>0 DEF InvProcesos, OpDelPc
<1>6. Crea(c, r) /\ EnOrden(r)
  BY <1>0, <1>1 DEF Crea, InvProcesos
<1>7. mapa[r] # NADA /\ mapa[r].estado = "NEW" /\ SoloEn(r, {}) /\ ~LargoTrae(r)
  BY <1>6 DEF EnOrden, EnMano, ManoCpu, ManoPlanificador, Ubicado, Vivo
<1>8. /\ \A d \in CPUs : ejecuta[d].pid # r /\ ~Maneja(d, r)
      /\ \A d \in CPUs \ {c} : ~Crea(d, r)
      /\ ~CortoTrae(r) /\ ~Suspende(r)
  BY <1>6, <1>7, EstadoEnDos DEF EnOrden, EnMano, ManoCpu, ManoPlanificador, UnaMano, Vivo
<1>9. mapa[r].PC = emitidas[r] /\ ~(r >= pidCounter)
  BY <1>6, <1>7, <1>8 DEF EnOrden, EnMano, PCAlDia, SinCrear
<1>10. /\ SinRepetidos(cola'["NEW"])
       /\ \A q : Esta(cola'["NEW"], q) <=> Esta(cola["NEW"], q) \/ q = r
       /\ \A g \in Estados \ {"NEW"} : cola'[g] = cola[g]
  <2>1. SinRepetidos(s) /\ \A q : Esta(s, q) <=> Esta(cola["NEW"], q) \/ q = r
    BY <1>7, AgregarANew DEF InvProcesos, SoloEn, Estados
  <2>2. cola'["NEW"] = s /\ \A g \in Estados \ {"NEW"} : cola'[g] = cola[g]
    BY <1>2, TiposDeProcesos DEF Estados
  <2> QED
    BY <2>1, <2>2
<1>11. \A q \in Pid \ {r} : AjenoTabla(q)
  BY <1>3, <1>10 DEF AjenoTabla, Esta
<1>12. \A q \in Pid \ {r} : AjenoManos(q)
  BY <1>0, <1>1, <1>3, <1>4, <1>5, AjenosAlCrear
<1>13. \A q \in Pid : AjenoEspera(q)
  BY <1>3, EsperaQuieta
<1>14. Suelto(r)' /\ ~CortoTrae(r)' /\ ~LargoTrae(r)' /\ ~Suspende(r)'
  <2>1. manejador[c].pid # r
    BY <1>0, <1>8 DEF Maneja
  <2> QED
    BY <1>3, <1>4, <1>7, <1>8, <2>1
       DEF Suelto, Maneja, Crea, CortoTrae, LargoTrae, Suspende, Despacha
<1>15. EnMano(r)'
  <2>1. SoloEn(r, {mapa[r].estado})'
    BY <1>3, <1>7, <1>10 DEF SoloEn, Esta
  <2> QED
    BY <1>3, <1>7, <1>9, <1>14, <2>1, QuedaSuelto DEF CortoTrae
<1>16. DebeEsperar(r)' <=> DebeEsperar(r)
  BY <1>3, <1>8, <1>14, EsperaLibre, EsperaLibreDespues DEF Suelto, Vivo
<1>17. EnOrden(r)'
  BY <1>6, <1>13, <1>15, <1>16, EsperaSigue
<1>18. ColasSinRepetidos'
  BY <1>3, <1>10 DEF InvProcesos, ColasSinRepetidos
<1>19. OpDelPc'
  BY <1>0, <1>3, <1>5, OpSiguePasando DEF InvProcesos, PCsFin
<1> QED
  BY <1>11, <1>12, <1>13, <1>17, <1>18, <1>19, SoloToca DEF Ajeno

\* INIT_PROC returns its process to the CPU it came from.
LEMMA InitReenviarProcesos ==
  ASSUME InvTipos, InvCpus, InvProcesos, NEW c \in CPUs, InitReenviar(c)
  PROVE  InvProcesos'
<1>0. manejador[c].pc = "init_reenvia"
  BY DEF InitReenviar, En
<1>1. PICK p \in Pid : Servido(c, p)
  BY <1>0, AlServir
<1>2. /\ ejecuta' = [ejecuta EXCEPT ![c] = [pid |-> p, PC |-> manejador[c].n]]
      /\ manejador' = [manejador EXCEPT ![c] = SinSyscall]
      /\ UNCHANGED <<mapa, cola, pidCounter, emitidas, corto, largo, dispositivo, finIO,
                     esperaIO, temporizador, mutexProc>>
  BY <1>1 DEF InitReenviar, Servido
<1>3. /\ manejador'[c].pc = "inactivo" /\ manejador'[c].op = "EXIT"
      /\ \A d \in CPUs \ {c} : manejador'[d] = manejador[d]
  BY <1>2, TiposDeCpus DEF SinSyscall
<1>4. /\ ejecuta'[c].pid = p /\ ejecuta'[c].PC = emitidas[p]
      /\ \A d \in CPUs \ {c} : ejecuta'[d] = ejecuta[d]
  BY <1>1, <1>2, TiposDeCpus DEF Servido
<1>5. ejecuta[c].pid = NINGUNO /\ NINGUNO \notin Pid
  BY <1>0 DEF InvCpus, EjecutaTiene, Pid, NINGUNO
<1>6. EstadoEn(c) = "EXECUTE" /\ ColaEn(c) = {"EXECUTE"}
  BY <1>0 DEF InvProcesos, OpDelPc, EstadoEn, ColaEn
<1>7. \A q \in Pid \ {p} : AjenoTabla(q) /\ AjenoManos(q)
  <2>1. \A q \in Pid \ {p}, d \in CPUs : MismaMano(d, q)
    BY <1>0, <1>1, <1>3 DEF MismaMano, Maneja, Crea, Servido
  <2> QED
    BY <1>2, <1>4, <1>5, <2>1, TablaQuieta DEF AjenoManos, Suspende
<1>8. \A q \in Pid : AjenoEspera(q)
  BY <1>2, EsperaQuieta
<1>9. SoloEjecuta(c, p)' /\ ~CortoTrae(p)' /\ \A d \in CPUs : ~Maneja(d, p)'
  BY <1>1, <1>2, <1>3, <1>4
     DEF Servido, SoloManeja, SoloEjecuta, Maneja, Crea, CortoTrae, LargoTrae, Suspende
<1>10. Vivo(p, {"EXECUTE"})' /\ Vivo(p, {"EXECUTE"}) /\ SoloEn(p, {"EXECUTE"})'
  BY <1>1, <1>2, <1>6 DEF Servido, Vivo, SoloEn
<1>11. EnMano(p)'
  <2>1. ~Despacha(p)' /\ ~(corto'.pc = "a_execute" /\ corto'.pid = p)
    BY <1>9 DEF CortoTrae, Despacha
  <2> QED
    BY <1>1, <1>2, <1>4, <1>9, <1>10, <2>1, QuedaEjecutando DEF Servido
<1>12. DebeEsperar(p)' <=> DebeEsperar(p)
  BY <1>0, <1>1, <1>9, <1>10, EsperaManejado, EsperaLibreDespues
     DEF Servido, InvProcesos, Vivo
<1>13. EnOrden(p)'
  BY <1>1, <1>8, <1>11, <1>12, EsperaSigue DEF Servido
<1>14. ColasSinRepetidos'
  BY <1>2 DEF InvProcesos, ColasSinRepetidos
<1>15. OpDelPc'
  <2>1. OpDe(c)'
    BY <1>3 DEF OpDe
  <2>2. \A d \in CPUs \ {c} : OpDe(d)'
    BY <1>2, <1>3 DEF OpDe, InvProcesos, OpDelPc
  <2> QED
    BY <2>1, <2>2 DEF OpDe, OpDelPc
<1> QED
  BY <1>7, <1>8, <1>13, <1>14, <1>15, SoloToca DEF Ajeno

\* The handler of an IO finds its process in EXECUTE.
LEMMA IODescartarNunca ==
  ASSUME InvTipos, InvCpus, InvProcesos, NEW c \in CPUs PROVE ~IODescartar(c)
<1> SUFFICES ASSUME IODescartar(c) PROVE FALSE
  OBVIOUS
<1>0. manejador[c].pc = "io_proceso"
  BY DEF IODescartar, En
<1>1. PICK p \in Pid : Servido(c, p)
  BY <1>0, AlServir
<1>2. EstadoEn(c) = "EXECUTE"
  BY <1>0 DEF InvProcesos, OpDelPc, EstadoEn, PCsIO
<1> QED
  BY <1>1, <1>2 DEF IODescartar, EnExecute, Servido, Vivo

\* No step of a syscall's handler breaks InvProcesos.
LEMMA PasoSyscallProcesos ==
  ASSUME InvTipos, InvTipos', InvCpus, InvIO, InvProcesos, NEW c \in CPUs, PasoSyscall(c)
  PROVE  InvProcesos'
BY MarcarLibreProcesos, FinEnMemoriaProcesos, FinEnColaProcesos, FinEnLogProcesos,
   FinEnMapaProcesos, IOTomarListaProcesos, IODescartarNunca, IOInexistenteProcesos,
   IOSolicitarProcesos, IOBloquearProcesos, DumpMirarProcesos, DumpBloquearProcesos,
   DumpCambiarProcesos, EnviarDumpProcesos, DumpVolverProcesos, InitCrearProcesos,
   InitAgregarNewProcesos, InitReenviarProcesos
   DEF PasoSyscall

\* The steps of a device that neither take a process nor let it go.
LEMMA AtiendeIgual ==
  ASSUME InvTipos, InvProcesos,
         UNCHANGED <<mapa, cola, pidCounter, emitidas, manejador, ejecuta, corto,
                     largo, temporizador, esperaIO>>,
         \A q \in Pid, j \in Instancias : Atiende(j, q)' <=> Atiende(j, q),
         NEW p \in Pid, \A q \in Pid \ {p} : mutexProc'[q] = mutexProc[q],
         \A d \in CPUs : mutexProc[p] # GSyscall(d)
  PROVE  InvProcesos'
<1>1. \A q \in Pid : Ajeno(q)
  BY TablaQuieta, ManosQuietas DEF Ajeno, AjenoEspera, AjenoManos, MismaMano, Suspende
<1>2. ColasSinRepetidos'
  BY DEF InvProcesos, ColasSinRepetidos
<1>3. OpDelPc'
  BY OpSigue DEF InvProcesos
<1> QED
  BY <1>1, <1>2, <1>3, NoToca

\* A sleep that ends, and manejarFinIO taking ListaIOsMutex: the instance still
\* has its process.
LEMMA TerminarIOProcesos ==
  ASSUME InvTipos, InvProcesos, NEW i \in Instancias,
         TerminarIO(i) \/ FinIOTomarLista(i)
  PROVE  InvProcesos'
<1>1. /\ UNCHANGED <<mapa, cola, pidCounter, emitidas, manejador, ejecuta, corto,
                     largo, temporizador, esperaIO, mutexProc>>
      /\ \A q \in Pid, j \in Instancias : Atiende(j, q)' <=> Atiende(j, q)
  <2>1. CASE TerminarIO(i)
    <3>1. /\ finIO' = [finIO EXCEPT ![i] = [pc |-> "lista", pid |-> dispositivo[i]]]
          /\ dispositivo' = [dispositivo EXCEPT ![i] = NINGUNO]
          /\ finIO[i].pc = "inactivo"
          /\ UNCHANGED <<mapa, cola, pidCounter, emitidas, manejador, ejecuta, corto,
                     largo, temporizador, esperaIO, mutexProc>>
      BY <2>1 DEF TerminarIO
    <3>2. /\ finIO'[i].pc = "lista" /\ finIO'[i].pid = dispositivo[i]
          /\ dispositivo'[i] = NINGUNO
          /\ \A j \in Instancias \ {i} : finIO'[j] = finIO[j] /\ dispositivo'[j] = dispositivo[j]
      BY <3>1, TiposDeIO
    <3> QED
      BY <3>1, <3>2, TiposDeIO DEF Atiende
  <2>2. CASE FinIOTomarLista(i)
    <3>1. /\ finIO' = [finIO EXCEPT ![i].pc = "proceso"] /\ finIO[i].pc = "lista"
          /\ UNCHANGED <<mapa, cola, pidCounter, emitidas, manejador, ejecuta, corto,
                     largo, temporizador, esperaIO, mutexProc, dispositivo>>
      BY <2>2 DEF FinIOTomarLista
    <3>2. /\ finIO'[i].pc = "proceso" /\ finIO'[i].pid = finIO[i].pid
          /\ \A j \in Instancias \ {i} : finIO'[j] = finIO[j]
      BY <3>1, TiposDeIO DEF RegistroFin
    <3> QED
      BY <3>1, <3>2, TiposDeIO DEF Atiende
  <2> QED
    BY <2>1, <2>2
<1>2. \A q \in Pid : Ajeno(q)
  BY <1>1, TablaQuieta DEF Ajeno, AjenoEspera, AjenoManos, MismaMano, Suspende
<1>3. ColasSinRepetidos' /\ OpDelPc'
  BY <1>1 DEF InvProcesos, ColasSinRepetidos, OpDelPc
<1> QED
  BY <1>2, <1>3, NoToca

\* The process an end of IO is about is blocked, and no handler has it, once
\* its mutex is not a handler's.
LEMMA FinEncuentra ==
  ASSUME InvTipos, InvProcesos, NEW i \in Instancias, NEW p \in Pid, Atiende(i, p),
         \A c \in CPUs : mutexProc[p] # GSyscall(c)
  PROVE  /\ EnOrden(p) /\ mapa[p] # NADA /\ mapa[p].estado \in {"BLOCKED", "SUSP_BLOCKED"}
         /\ \A c \in CPUs : ~Maneja(c, p)
<1>1. EnOrden(p) /\ DebeEsperar(p)
  BY DEF InvProcesos, EnOrden, EsperaJusta, Pendiente
<1>2. ~PorBloquear(p)
  BY DEF PorBloquear, InvTipos, Duenos, ManejadorEsDueno
<1>3. Vivo(p, {"BLOCKED", "SUSP_BLOCKED"}) /\ ~PorDump(p)
  BY <1>1, <1>2 DEF DebeEsperar
<1>4. ASSUME NEW c \in CPUs, Maneja(c, p) PROVE FALSE
  <2>1. Vivo(p, {EstadoEn(c)})
    BY <1>1, <1>4 DEF EnOrden, EnMano, ManoCpu
  <2>2. manejador[c].op # "DUMP"
    BY <1>3, <1>4 DEF PorDump, Maneja
  <2> QED
    BY <1>3, <2>1, <2>2 DEF Vivo, EstadoEn
<1> QED
  BY <1>1, <1>3, <1>4 DEF Vivo

\* manejarFinIO finds its process blocked, and takes its mutex.
LEMMA FinIOMirarProcesoProcesos ==
  ASSUME InvTipos, InvProcesos, NEW i \in Instancias, FinIOMirarProceso(i)
  PROVE  InvProcesos'
<1>1. PICK p \in Pid : p = finIO[i].pid
  BY DEF FinIOMirarProceso, InvTipos, Nombran, FinNombra
<1>2. finIO[i].pc = "proceso" /\ mutexProc[p] = NADA
  BY <1>1 DEF FinIOMirarProceso
<1>3. \A d \in CPUs : mutexProc[p] # GSyscall(d)
  BY <1>2, NadaNoEsDueno
<1>4. mapa[p] # NADA /\ mapa[p].estado \in {"BLOCKED", "SUSP_BLOCKED"}
  BY <1>1, <1>2, <1>3, FinEncuentra DEF Atiende
<1>5. /\ mutexProc' = [mutexProc EXCEPT ![p] = GFinIO(i)]
      /\ finIO' = [finIO EXCEPT ![i] = [finIO[i] EXCEPT !.pc = "mueve"]]
      /\ UNCHANGED <<mapa, cola, pidCounter, emitidas, manejador, ejecuta, corto,
                     largo, temporizador, esperaIO, dispositivo>>
  BY <1>1, <1>4 DEF FinIOMirarProceso
<1>6. /\ finIO'[i].pc = "mueve" /\ finIO'[i].pid = p
      /\ \A j \in Instancias \ {i} : finIO'[j] = finIO[j]
  BY <1>1, <1>5, TiposDeIO DEF RegistroFin
<1>7. \A q \in Pid, j \in Instancias : Atiende(j, q)' <=> Atiende(j, q)
  BY <1>1, <1>2, <1>5, <1>6 DEF Atiende
<1>8. \A q \in Pid \ {p} : mutexProc'[q] = mutexProc[q]
  BY <1>5, TiposDeProcesos
<1> QED
  BY <1>3, <1>5, <1>7, <1>8, AtiendeIgual

\* Both moves of an end of IO find the process in the queue of its state.
LEMMA FinMovible ==
  ASSUME InvTipos, InvIO, InvProcesos, NEW i \in Instancias, finIO[i].pc = "mueve",
         NEW p \in Pid, p = finIO[i].pid
  PROVE  /\ mutexProc[p] = GFinIO(i) /\ \A d \in CPUs : mutexProc[p] # GSyscall(d)
         /\ Atiende(i, p) /\ dispositivo[i] = NINGUNO
         /\ EnOrden(p) /\ mapa[p] # NADA /\ mapa[p].estado \in {"BLOCKED", "SUSP_BLOCKED"}
         /\ Suelto(p) /\ SoloEn(p, {mapa[p].estado}) /\ mapa[p].PC = emitidas[p]
         /\ ~(p >= pidCounter) /\ ~CortoTrae(p) /\ ~LargoTrae(p)
         /\ Suspende(p) => mapa[p].estado = "BLOCKED"
<1>1. mutexProc[p] = GFinIO(i) /\ \A d \in CPUs : mutexProc[p] # GSyscall(d)
  BY DuenosDistintos DEF InvTipos, Duenos, FinEsDueno
<1>2. Atiende(i, p) /\ dispositivo[i] = NINGUNO
  BY DEF Atiende, InvIO, FinAnotado
<1>3. /\ EnOrden(p) /\ mapa[p] # NADA /\ mapa[p].estado \in {"BLOCKED", "SUSP_BLOCKED"}
      /\ \A c \in CPUs : ~Maneja(c, p)
  BY <1>1, <1>2, FinEncuentra
<1>4. /\ Suelto(p) /\ SoloEn(p, {mapa[p].estado}) /\ mapa[p].PC = emitidas[p]
      /\ ~(p >= pidCounter) /\ ~CortoTrae(p) /\ ~LargoTrae(p)
      /\ Suspende(p) => mapa[p].estado = "BLOCKED"
  BY <1>3, AlEstarSuelto DEF EnOrden
<1> QED
  BY <1>1, <1>2, <1>3, <1>4

\* The process leaves the device and its blocked state together.
LEMMA FinMueve ==
  ASSUME InvTipos, InvIO, InvProcesos, NEW i \in Instancias, finIO[i].pc = "mueve",
         NEW p \in Pid, p = finIO[i].pid,
         NEW e \in {"BLOCKED", "SUSP_BLOCKED"}, NEW f \in {"READY", "SUSP_READY"},
         mapa[p].estado = e, e = "BLOCKED" <=> f = "READY",
         cola' = MoverDe(e, f, p), mapa' = ConEstado(p, f),
         mutexProc' = [mutexProc EXCEPT ![p] = NADA],
         finIO' = [finIO EXCEPT ![i] = [finIO[i] EXCEPT !.pc = "instancia"]],
         UNCHANGED <<pidCounter, emitidas, manejador, ejecuta, corto,
                     largo, temporizador, esperaIO, dispositivo>>
  PROVE  InvProcesos'
<1>0. e \in Estados /\ f \in Estados /\ e # f /\ ColasSinRepetidos
  BY DEF Estados, InvProcesos
<1>1. /\ mutexProc[p] = GFinIO(i) /\ \A d \in CPUs : mutexProc[p] # GSyscall(d)
      /\ Atiende(i, p) /\ dispositivo[i] = NINGUNO /\ EnOrden(p) /\ mapa[p] # NADA
      /\ Suelto(p) /\ SoloEn(p, {e}) /\ mapa[p].PC = emitidas[p]
      /\ ~(p >= pidCounter) /\ ~CortoTrae(p) /\ ~LargoTrae(p)
  BY FinMovible
<1>2. Movible(e, f, p)
  BY <1>0, <1>1 DEF SoloEn, Movible
<1>3. /\ \A g \in Estados : SinRepetidos(cola'[g])
      /\ \A q \in Pid \ {p} : \A g \in Estados : Esta(cola'[g], q) <=> Esta(cola[g], q)
      /\ \A g \in Estados : Esta(cola'[g], p) <=> g = f \/ (g # e /\ Esta(cola[g], p))
  BY <1>0, <1>2, MoverDeExacto, TiposDeProcesos
<1>4. /\ mapa'[p] # NADA /\ mapa'[p].estado = f /\ mapa'[p].PC = mapa[p].PC
      /\ \A q \in Pid \ {p} : mapa'[q] = mapa[q]
  BY <1>0, <1>1, ConEstadoExacto, TiposDeProcesos
<1>5. /\ finIO'[i].pc = "instancia" /\ \A j \in Instancias \ {i} : finIO'[j] = finIO[j]
  BY TiposDeIO DEF RegistroFin
<1>6. ~Suspende(p)
  BY <1>1, DuenosDistintos DEF Suspende, InvTipos, Duenos, TimerEsDueno
<1>7. \A q \in Pid \ {p} : AjenoTabla(q) /\ AjenoManos(q) /\ AjenoEspera(q)
  <2>1. \A q \in Pid \ {p} : AjenoTabla(q) /\ AjenoManos(q)
    BY <1>3, <1>4 DEF AjenoTabla, AjenoManos, MismaMano, Suspende
  <2>2. \A q \in Pid \ {p} : AjenoEspera(q)
    BY <1>1, <1>5, TiposDeIO DEF AjenoEspera, Atiende
  <2> QED
    BY <2>1, <2>2
<1>8. Suelto(p)' /\ ~CortoTrae(p)' /\ ~LargoTrae(p)' /\ ~Suspende(p)'
  BY <1>1, <1>6 DEF Suelto, Maneja, Crea, CortoTrae, LargoTrae, Suspende, Despacha
<1>9. EnMano(p)'
  <2>1. SoloEn(p, {mapa[p].estado})'
    BY <1>1, <1>3, <1>4 DEF SoloEn
  <2> QED
    BY <1>1, <1>4, <1>8, <2>1, QuedaSuelto DEF CortoTrae
<1>10. /\ \A j \in Instancias : ~Atiende(j, p)'
       /\ \A d \in NombresIO : ~Esta(esperaIO'[d], p)
  <2>1. /\ \A j \in Instancias : Atiende(j, p) => j = i
        /\ \A d \in NombresIO : ~Esta(esperaIO[d], p)
    BY <1>1 DEF EnOrden, UnSoloLugar
  <2> QED
    BY <1>1, <1>5, <2>1, TiposDeIO DEF Atiende
<1>11. ~DebeEsperar(p)'
  BY <1>4, <1>8, EsperaLibreDespues DEF Suelto, Vivo
<1>12. EnOrden(p)'
  BY <1>9, <1>10, <1>11 DEF EnOrden, EsperaJusta, Pendiente, UnSoloLugar
<1>13. ColasSinRepetidos'
  BY <1>3 DEF InvProcesos, ColasSinRepetidos
<1>14. OpDelPc'
  <2>1. \A q \in Pid \ {p} : mutexProc'[q] = mutexProc[q]
    BY TiposDeProcesos
  <2> QED
    BY <1>1, <2>1, OpSigue DEF InvProcesos
<1> QED
  BY <1>7, <1>12, <1>13, <1>14, SoloToca DEF Ajeno

\* Susp_blocked_a_Susp_ready: the wait is over.
LEMMA SuspBlockedASuspReadyProcesos ==
  ASSUME InvTipos, InvIO, InvProcesos, NEW i \in Instancias, SuspBlockedASuspReady(i)
  PROVE  InvProcesos'
<1>1. PICK p \in Pid : p = finIO[i].pid
  BY DEF SuspBlockedASuspReady, InvTipos, Nombran, FinNombra
<1>2. finIO[i].pc = "mueve" /\ mapa[p].estado = "SUSP_BLOCKED"
  BY <1>1 DEF SuspBlockedASuspReady
<1>3. Movible("SUSP_BLOCKED", "SUSP_READY", p)
  BY <1>1, <1>2, FinMovible DEF Movible, SoloEn, Estados
<1> QED
  BY <1>1, <1>2, <1>3, FinMueve DEF SuspBlockedASuspReady, FinIOMovido

\* Blocked_a_ready: the wait is over.
LEMMA BlockedAReadyProcesos ==
  ASSUME InvTipos, InvIO, InvProcesos, NEW i \in Instancias, BlockedAReady(i)
  PROVE  InvProcesos'
<1>1. PICK p \in Pid : p = finIO[i].pid
  BY DEF BlockedAReady, InvTipos, Nombran, FinNombra
<1>2. finIO[i].pc = "mueve" /\ mapa[p].estado = "BLOCKED"
  BY <1>1 DEF BlockedAReady
<1>3. Movible("BLOCKED", "READY", p)
  BY <1>1, <1>2, FinMovible DEF Movible, SoloEn, Estados
<1> QED
  BY <1>1, <1>2, <1>3, FinMueve DEF BlockedAReady, FinIOMovido

\* The first process of the queue goes from it to the instance.
LEMMA LiberarInstanciaProcesos ==
  ASSUME InvTipos, InvIO, InvProcesos, NEW i \in Instancias, LiberarInstancia(i)
  PROVE  InvProcesos'
<1>1. PICK d \in NombresIO : d = NombreIO[i]
  BY TiposDeIO
<1>2. /\ finIO[i].pc = "instancia" /\ finIO' = [finIO EXCEPT ![i] = SinFin]
      /\ UNCHANGED <<mapa, cola, pidCounter, emitidas, manejador, ejecuta, corto,
                     largo, temporizador, mutexProc>>
  BY DEF LiberarInstancia
<1>3. /\ finIO'[i].pc = "inactivo" /\ \A j \in Instancias \ {i} : finIO'[j] = finIO[j]
      /\ dispositivo[i] = NINGUNO
  BY <1>2, TiposDeIO DEF SinFin, InvIO, FinAnotado
<1>4. OpDelPc'
  BY <1>2 DEF InvProcesos, OpDelPc
<1>5. \A q \in Pid : AjenoTabla(q) /\ AjenoManos(q)
  BY <1>2, TablaQuieta DEF AjenoManos, MismaMano, Suspende
<1>6. CASE esperaIO[d] = <<>>
  <2>1. UNCHANGED <<esperaIO, dispositivo>>
    BY <1>1, <1>6 DEF LiberarInstancia
  <2>2. \A q \in Pid : AjenoEspera(q)
    BY <1>2, <1>3, <2>1, TiposDeIO DEF AjenoEspera, Atiende
  <2>3. ColasSinRepetidos'
    BY <1>2, <2>1 DEF InvProcesos, ColasSinRepetidos
  <2> QED
    BY <1>4, <1>5, <2>2, <2>3, NoToca DEF Ajeno
<1>7. CASE esperaIO[d] # <<>>
  <2>0. esperaIO[d] \in Seq(Pid) /\ SinRepetidos(esperaIO[d])
    BY TiposDeProcesos DEF InvProcesos, ColasSinRepetidos
  <2>1. PICK p \in Pid : p = Head(esperaIO[d])
    BY <1>7, <2>0, TailExacto
  <2>2. /\ SinRepetidos(Tail(esperaIO[d])) /\ Esta(esperaIO[d], p)
        /\ \A q : Esta(Tail(esperaIO[d]), q) <=> Esta(esperaIO[d], q) /\ q # p
    BY <1>7, <2>0, <2>1, TailExacto
  <2>3. /\ dispositivo' = [dispositivo EXCEPT ![i] = p]
        /\ esperaIO' = [esperaIO EXCEPT ![d] = Tail(esperaIO[d])]
    BY <1>1, <1>7, <2>1 DEF LiberarInstancia, Solicitar
  <2>4. /\ dispositivo'[i] = p /\ \A j \in Instancias \ {i} : dispositivo'[j] = dispositivo[j]
        /\ esperaIO'[d] = Tail(esperaIO[d])
        /\ \A e \in NombresIO \ {d} : esperaIO'[e] = esperaIO[e]
    BY <2>3, TiposDeIO
  <2>5. EnOrden(p)
    BY DEF InvProcesos
  <2>6. /\ \A j \in Instancias : ~Atiende(j, p)
        /\ \A e \in NombresIO : Esta(esperaIO[e], p) => e = d
    BY <2>2, <2>5 DEF EnOrden, UnSoloLugar
  <2>7. \A j \in Instancias : Atiende(j, p)' <=> j = i
    BY <1>3, <2>4, <2>6 DEF Atiende
  <2>8. \A e \in NombresIO : ~Esta(esperaIO'[e], p)
    <3>1. ~Esta(esperaIO'[d], p)
      BY <2>2, <2>4
    <3>2. \A e \in NombresIO \ {d} : ~Esta(esperaIO'[e], p)
      BY <2>4, <2>6
    <3> QED
      BY <3>1, <3>2
  <2>9. \A q \in Pid \ {p} : AjenoEspera(q)
    <3>1. \A q \in Pid \ {p}, j \in Instancias : Atiende(j, q)' <=> Atiende(j, q)
      BY <1>2, <1>3, <2>4, TiposDeIO DEF Atiende
    <3>2. \A q \in Pid \ {p}, e \in NombresIO : Esta(esperaIO'[e], q) <=> Esta(esperaIO[e], q)
      <4>1. \A q \in Pid \ {p} : Esta(esperaIO'[d], q) <=> Esta(esperaIO[d], q)
        BY <2>2, <2>4
      <4>2. \A q \in Pid \ {p}, e \in NombresIO \ {d} :
              Esta(esperaIO'[e], q) <=> Esta(esperaIO[e], q)
        BY <2>4
      <4> QED
        BY <4>1, <4>2
    <3> QED
      BY <3>1, <3>2 DEF AjenoEspera
  <2>10. EnMano(p)'
    BY <1>5, <2>5, AjenoSigueEnMano DEF EnOrden
  <2>11. DebeEsperar(p)' <=> DebeEsperar(p)
    BY <1>2 DEF DebeEsperar, PorBloquear, PorDump, Vivo
  <2>12. DebeEsperar(p)
    BY <2>2, <2>5 DEF EnOrden, EsperaJusta, Pendiente
  <2>13. EnOrden(p)'
    BY <2>7, <2>8, <2>10, <2>11, <2>12 DEF EnOrden, UnSoloLugar, EsperaJusta, Pendiente
  <2>14. ColasSinRepetidos'
    BY <1>2, <2>2, <2>4 DEF InvProcesos, ColasSinRepetidos
  <2> QED
    BY <1>4, <1>5, <2>9, <2>13, <2>14, SoloToca DEF Ajeno
<1> QED
  BY <1>6, <1>7

\* No step of the end of an IO breaks InvProcesos.
LEMMA PasoFinIOProcesos ==
  ASSUME InvTipos, InvIO, InvProcesos, NEW i \in Instancias, PasoFinIO(i)
  PROVE  InvProcesos'
BY TerminarIOProcesos, FinIOMirarProcesoProcesos, SuspBlockedASuspReadyProcesos,
   BlockedAReadyProcesos, LiberarInstanciaProcesos DEF PasoFinIO

\* The steps that concern no process: handshakes and signals.
LEMMA QuietosProcesos ==
  ASSUME InvProcesos,
         \/ AvisarCpuLibre
         \/ \E c \in CPUs : HandshakeCPU(c)
         \/ \E i \in Instancias : HandshakeIO(i)
         \/ UNCHANGED vars
  PROVE  InvProcesos'
<1>1. UNCHANGED <<mapa, cola, pidCounter, emitidas, manejador, ejecuta, corto,
                     largo, temporizador, dispositivo, finIO, esperaIO, mutexProc>>
  BY DEF AvisarCpuLibre, HandshakeCPU, HandshakeIO, vars
<1> QED
  BY <1>1, TodoQuieto

\* Every step keeps InvProcesos.
LEMMA PasoInvProcesos ==
  ASSUME Regimen, InvTipos, InvTipos', InvCpus, InvIO, InvProcesos, [Next]_vars
  PROVE  InvProcesos'
<1>1. CASE \E p \in Pid, n \in Numero : PasoTimer(p, n)
  BY <1>1, PasoTimerProcesos DEF Regimen
<1>2. CASE \E c \in CPUs : PasoSyscall(c)
  BY <1>2, PasoSyscallProcesos
<1>3. CASE \E i \in Instancias : PasoFinIO(i) \/ TerminarIO(i)
  BY <1>3, PasoFinIOProcesos, TerminarIOProcesos
<1>4. CASE \E c \in CPUs : EmitirSyscall(c)
  BY <1>4, EmitirSyscallProcesos DEF Regimen
<1>5. CASE PasoCorto \/ PasoLargo
  BY <1>5, PasoCortoProcesos, PasoLargoProcesos
<1> QED
  BY <1>1, <1>2, <1>3, <1>4, <1>5, QuietosProcesos
     DEF Next, PasoKernel, PasoEntorno, Reposo

\* At first there is one process, in NEW.
LEMMA InicioProcesos == ASSUME Init PROVE InvProcesos
<1>1. \A e \in Estados : cola[e] = IF e = "NEW" THEN <<0>> ELSE <<>>
  BY DEF Init
<1>2. \A e \in Estados, p \in Pid : Esta(cola[e], p) <=> e = "NEW" /\ p = 0
  BY <1>1 DEF Esta, Pid
<1>3. ColasSinRepetidos
  BY <1>1 DEF Init, ColasSinRepetidos, SinRepetidos
<1>4. OpDelPc
  BY DEF Init, OpDelPc, SinSyscall, PCsFin
<1>5. PICK t \in Tamanios : mapa = [p \in Pid |-> IF p = 0 THEN ProcesoNuevo(t) ELSE NADA]
  BY DEF Init
<1>6. ProcesoNuevo(t) # NADA /\ ProcesoNuevo(t).estado = "NEW" /\ ProcesoNuevo(t).PC = 0
  <2>1. ProcesoNuevo(t) \in Procesos
    BY CeroEsPC, ConstantesOK DEF ProcesoNuevo, Procesos, Estados
  <2> QED
    BY <2>1, NadaOK DEF ProcesoNuevo
<1>7. /\ \A c \in CPUs : manejador[c].pc = "inactivo" /\ ejecuta[c].pid = NINGUNO
      /\ corto.pc = "espera_cpu" /\ largo.pc = "espera"
      /\ \A p \in Pid, n \in Numero : temporizador[p][n].pc = "inactivo"
  BY DEF Init, SinSyscall, Ociosa, CortoEsperando, SinTimer
<1>8. ASSUME NEW p \in Pid PROVE EnOrden(p)
  <2>1. /\ \A c \in CPUs : ~Maneja(c, p) /\ ~Crea(c, p) /\ ejecuta[c].pid # p
        /\ ~CortoTrae(p) /\ ~Despacha(p) /\ ~LargoTrae(p) /\ ~Suspende(p)
    BY <1>7 DEF Maneja, Crea, CortoTrae, Despacha, LargoTrae, Suspende, Pid, NINGUNO
  <2>2. mapa[p] = IF p = 0 THEN ProcesoNuevo(t) ELSE NADA
    BY <1>5
  <2>3. Ubicado(p)
    <3>1. SoloEn(p, IF mapa[p] = NADA THEN {} ELSE {mapa[p].estado})
      BY <1>2, <1>6, <2>2 DEF SoloEn
    <3> QED
      BY <1>7, <2>1, <3>1 DEF Ubicado
  <2>4. UnaMano(p) /\ ManoCpu(p) /\ ManoPlanificador(p)
    BY <2>1 DEF UnaMano, Ocupa, Maneja, ManoCpu, ManoPlanificador
  <2>5. PCAlDia(p) /\ SinCrear(p)
    BY <1>6, <1>7, <2>1, <2>2 DEF PCAlDia, SinCrear, Init, Pid
  <2>6. ~Pendiente(p) /\ UnSoloLugar(p)
    BY DEF Init, Pendiente, UnSoloLugar, Atiende, Esta, SinFin, Pid, NINGUNO
  <2>7. ~DebeEsperar(p)
    BY <1>6, <2>1, <2>2, EsperaLibre DEF Vivo
  <2> QED
    BY <2>3, <2>4, <2>5, <2>6, <2>7 DEF EnOrden, EnMano, EsperaJusta
<1> QED
  BY <1>3, <1>4, <1>8 DEF InvProcesos
===========================================================================
