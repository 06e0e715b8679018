--------------------------- MODULE PruebasTipos ---------------------------
(***************************************************************************)
(* Spec => []TypeOK.  TypeOK alone is not inductive: a step moves the      *)
(* process its goroutine named earlier, and writes the entry it looked up  *)
(* under a mutex it has kept since.  InvTipos adds who names which process *)
(* and who holds which mutex; the proof goes action by action.             *)
(***************************************************************************)
EXTENDS InvariantesKernel, LemasKernel

USE DEF procesosVars, mutexVars, semVars, cpuVars, ioVars, RegistroCorto,
        RegistroTimer, RegistroSyscall, RegistroFin

---------------------------------------------------------------------------
(* The state after ENTER. *)

\* The state after ENTER (IniciarPlanificadorLargoPlazo) satisfies InvTipos.
LEMMA InicioInv == ASSUME Init PROVE InvTipos
<1>1. TiposTabla
  <2>1. 0 \in Pid /\ 1 \in 1 .. MaxPids
    BY ConstantesOK DEF Pid
  <2>2. ASSUME NEW t \in Tamanios PROVE ProcesoNuevo(t) \in Procesos
    BY CeroEsPC, ConstantesOK DEF ProcesoNuevo, Procesos, Estados
  <2>3. mapa \in [Pid -> Procesos \cup {NADA}]
    BY <2>2 DEF Init
  <2>4. cola \in [Estados -> Seq(Pid)]
    <3>1. <<0>> \in Seq(Pid) /\ <<>> \in Seq(Pid)
      BY <2>1
    <3> QED
      BY <3>1 DEF Init
  <2> QED
    BY <2>1, <2>3, <2>4, CeroEsPC DEF Init, TiposTabla, Lugares
<1>2. TiposSincronizacion
  <2>1. Len(CPUsAlInicio) \in Nat
    BY ConstantesOK
  <2> QED
    BY <2>1 DEF Init, TiposSincronizacion
<1>3. TiposPlanificadores
  BY Reposos DEF Init, TiposPlanificadores, PidONinguno
<1>4. TiposCpus
  BY Reposos, ConstantesOK DEF Init, TiposCpus, Esta
<1>5. TiposIO
  <2>1. <<>> \in Seq(Pid)
    OBVIOUS
  <2> QED
    BY <2>1, Reposos, ConstantesOK DEF Init, TiposIO, PidONinguno
<1>6. Nombran
  BY DEF Init, Nombran, CortoNombra, LargoNombra, ManejadorNombra, FinNombra,
         CortoEsperando, SinSyscall, SinFin, PCsIO, PCsReanuda
<1>7. Duenos /\ SigueVivo
  BY DEF Init, Duenos, CortoEsDueno, ManejadorEsDueno, TimerEsDueno, FinEsDueno,
         SigueVivo, CortoEsperando, SinSyscall, SinTimer, SinFin
<1> QED
  BY <1>1, <1>2, <1>3, <1>4, <1>5, <1>6, <1>7 DEF InvTipos, TypeOK

---------------------------------------------------------------------------
(* The short-term planner. *)

\* Every step of the short-term planner (EjecutarPlanificadorCortoPlazo) keeps
\* InvTipos.
LEMMA PasoCortoInv ==
  ASSUME InvTipos, PasoCorto
  PROVE  InvTipos'
<1>1. CASE EsperarCpu
  <2>c. corto' = [corto EXCEPT !.pc = "espera_ready"]
    BY <1>1 DEF EsperarCpu
  <2>e. UNCHANGED <<largo, temporizador, panico, manejador, finIO>>
    BY <1>1 DEF EsperarCpu
  <2>t. corto \in RegistroCorto
    BY DEF InvTipos, TypeOK, TiposPlanificadores
  <2>1. TiposSincronizacion'
    BY <1>1 DEF InvTipos, TypeOK, TiposSincronizacion, EsperarCpu
  <2>2. TiposPlanificadores'
    BY <2>c, <2>e, <2>t, Reposos DEF InvTipos, TypeOK, TiposPlanificadores,
           PCsCorto, PidONinguno
  <2>3. TiposTabla' /\ TiposCpus' /\ TiposIO'
    BY <1>1 DEF InvTipos, TypeOK, TiposTabla, TiposCpus, TiposIO, EsperarCpu
  <2>4. Nombran'
    BY <2>c, <2>e, <2>t DEF InvTipos, Nombran, CortoNombra, LargoNombra,
           ManejadorNombra, FinNombra, CortoEsperando
  <2>5. Duenos'
    BY <1>1, <2>c, <2>t DEF InvTipos, Duenos, CortoEsDueno, ManejadorEsDueno,
           TimerEsDueno, FinEsDueno, CortoEsperando, EsperarCpu
  <2>6. SigueVivo'
    BY <1>1 DEF InvTipos, SigueVivo, EsperarCpu
  <2> QED
    BY <2>1, <2>2, <2>3, <2>4, <2>5, <2>6 DEF InvTipos, TypeOK
<1>2. CASE EsperarReady
  <2>c. corto' = [corto EXCEPT !.pc = "elige_cpu"]
    BY <1>2 DEF EsperarReady
  <2>e. UNCHANGED <<largo, temporizador, panico, manejador, finIO>>
    BY <1>2 DEF EsperarReady
  <2>t. corto \in RegistroCorto
    BY DEF InvTipos, TypeOK, TiposPlanificadores
  <2>1. TiposSincronizacion'
    BY <1>2 DEF InvTipos, TypeOK, TiposSincronizacion, EsperarReady
  <2>2. TiposPlanificadores'
    BY <2>c, <2>e, <2>t, Reposos DEF InvTipos, TypeOK, TiposPlanificadores,
           PCsCorto, PidONinguno
  <2>3. TiposTabla' /\ TiposCpus' /\ TiposIO'
    BY <1>2 DEF InvTipos, TypeOK, TiposTabla, TiposCpus, TiposIO, EsperarReady
  <2>4. Nombran'
    BY <2>c, <2>e, <2>t DEF InvTipos, Nombran, CortoNombra, LargoNombra,
           ManejadorNombra, FinNombra, CortoEsperando
  <2>5. Duenos'
    BY <1>2, <2>c, <2>t DEF InvTipos, Duenos, CortoEsDueno, ManejadorEsDueno,
           TimerEsDueno, FinEsDueno, CortoEsperando, EsperarReady
  <2>6. SigueVivo'
    BY <1>2 DEF InvTipos, SigueVivo, EsperarReady
  <2> QED
    BY <2>1, <2>2, <2>3, <2>4, <2>5, <2>6 DEF InvTipos, TypeOK
<1>3. CASE ElegirCpu
  <2>e. UNCHANGED <<largo, temporizador, panico, manejador, finIO>>
    BY <1>3 DEF ElegirCpu
  <2>t. corto \in RegistroCorto
    BY DEF InvTipos, TypeOK, TiposPlanificadores
  <2>c. \/ corto' = CortoEsperando
        \/ \E c \in CPUs :
             corto' = [corto EXCEPT !.pc = "elige_pid", !.cpu = c]
    <3> DEFINE libres == {k \in DOMAIN listaCPUs : libre[listaCPUs[k]]}
               primera == listaCPUs[CHOOSE k \in libres : \A j \in libres : k <= j]
    <3>1. /\ DOMAIN listaCPUs = 1 .. Len(listaCPUs) /\ Len(listaCPUs) \in Nat
          /\ \A k \in DOMAIN listaCPUs : listaCPUs[k] \in CPUs
      BY DEF InvTipos, TypeOK, TiposCpus
    <3>2. libres \subseteq Nat
      BY <3>1
    <3>3. libres # {} => (CHOOSE k \in libres : \A j \in libres : k <= j) \in libres
      BY <3>2, MinimoExiste
    <3>4. libres # {} => primera \in CPUs
      BY <3>1, <3>3
    <3>5. corto' = IF libres = {} THEN CortoEsperando
                   ELSE [corto EXCEPT !.pc = "elige_pid", !.cpu = primera]
      BY <1>3 DEF ElegirCpu
    <3> HIDE DEF libres, primera
    <3> QED
      BY <3>4, <3>5
  <2>q. corto'.pc = "espera_cpu" \/ corto'.pc = "elige_pid"
    <3>1. CASE corto' = CortoEsperando
      BY <3>1, <2>t DEF CortoEsperando
    <3>2. CASE \E c \in CPUs :
                 corto' = [corto EXCEPT !.pc = "elige_pid", !.cpu = c]
      BY <3>2, <2>t DEF CortoEsperando
    <3> QED
      BY <3>1, <3>2, <2>c
  <2>1. TiposPlanificadores'
    BY <2>c, <2>e, <2>t, Reposos DEF InvTipos, TypeOK, TiposPlanificadores,
           PCsCorto, PidONinguno
  <2>2. TiposCpus'
    BY <1>3 DEF InvTipos, TypeOK, TiposCpus, ElegirCpu
  <2>3. TiposTabla' /\ TiposSincronizacion' /\ TiposIO'
    BY <1>3 DEF InvTipos, TypeOK, TiposTabla, TiposSincronizacion, TiposIO,
           ElegirCpu
  <2>4. Nombran'
    BY <2>q, <2>e DEF InvTipos, Nombran, CortoNombra, LargoNombra,
           ManejadorNombra, FinNombra
  <2>5. Duenos'
    BY <1>3, <2>q DEF InvTipos, Duenos, CortoEsDueno, ManejadorEsDueno,
           TimerEsDueno, FinEsDueno, ElegirCpu
  <2>6. SigueVivo'
    BY <1>3 DEF InvTipos, SigueVivo, ElegirCpu
  <2> QED
    BY <2>1, <2>2, <2>3, <2>4, <2>5, <2>6 DEF InvTipos, TypeOK
<1>4. CASE ElegirPid
  <2>t. corto \in RegistroCorto
    BY DEF InvTipos, TypeOK, TiposPlanificadores
  <2>f. UNCHANGED <<largo, temporizador, manejador, finIO>> /\ panico' \in BOOLEAN
    BY <1>4 DEF InvTipos, TypeOK, TiposPlanificadores, ElegirPid, Panico
  <2>c. \/ corto' = corto
        \/ \E p \in Pid : corto' = [corto EXCEPT !.pc = "lee_pcb", !.pid = p]
    BY <1>4, OrdenesReadySonColas DEF InvTipos, TypeOK, TiposTabla, ElegirPid,
           Panico
  <2>q. corto'.pc # "cambia"
    BY <1>4, <2>c, <2>t DEF ElegirPid, Panico
  <2>1. TiposTabla'
    BY <1>4, OrdenesReadySonColas DEF InvTipos, TypeOK, TiposTabla, Estados,
           ElegirPid, Panico
  <2>2. TiposPlanificadores'
    BY <2>c, <2>t, <2>f DEF InvTipos, TypeOK, TiposPlanificadores, PCsCorto,
           PidONinguno
  <2>3. TiposSincronizacion' /\ TiposCpus' /\ TiposIO'
    BY <1>4 DEF InvTipos, TypeOK, TiposSincronizacion, TiposCpus, TiposIO,
           ElegirPid, Panico
  <2>4. Nombran'
    BY <2>c, <2>f, <2>t DEF InvTipos, Nombran, CortoNombra, LargoNombra,
           ManejadorNombra, FinNombra
  <2>5. Duenos'
    BY <1>4, <2>q DEF InvTipos, Duenos, CortoEsDueno, ManejadorEsDueno,
           TimerEsDueno, FinEsDueno, ElegirPid, Panico
  <2>6. SigueVivo'
    BY <1>4 DEF InvTipos, SigueVivo, ElegirPid, Panico
  <2> QED
    BY <2>1, <2>2, <2>3, <2>4, <2>5, <2>6 DEF InvTipos, TypeOK
<1>5. CASE LeerPcb
  <2>a. corto.pid \in Pid
    BY <1>5 DEF InvTipos, Nombran, CortoNombra, LeerPcb
  <2>t. corto \in RegistroCorto
    BY DEF InvTipos, TypeOK, TiposPlanificadores
  <2>e. UNCHANGED <<largo, temporizador, panico, manejador, finIO>>
    BY <1>5 DEF LeerPcb
  <2>v. mapa[corto.pid] # NADA => mapa[corto.pid].PC \in 0 .. MaxSyscalls - 1
    BY <2>a DEF InvTipos, TypeOK, TiposTabla, Procesos
  <2>c. \/ corto' = CortoEsperando
        \/ /\ mapa[corto.pid] # NADA
           /\ corto' = [corto EXCEPT !.pc = "envia", !.PC = mapa[corto.pid].PC]
    BY <1>5 DEF LeerPcb
  <2>q. \/ corto'.pc = "espera_cpu"
        \/ corto'.pc = "envia" /\ corto'.pid = corto.pid
    <3>1. CASE corto' = CortoEsperando
      BY <3>1, <2>t DEF CortoEsperando
    <3>2. CASE corto' = [corto EXCEPT !.pc = "envia", !.PC = mapa[corto.pid].PC]
      BY <3>2, <2>t DEF CortoEsperando
    <3> QED
      BY <3>1, <3>2, <2>c
  <2>d. /\ mutexProc[corto.pid] = NADA
        /\ mutexProc' \in {mutexProc, [mutexProc EXCEPT ![corto.pid] = GCorto]}
    BY <1>5 DEF LeerPcb
  <2>1. TiposSincronizacion'
    BY <1>5, <2>a DEF InvTipos, TypeOK, TiposSincronizacion, Goroutines,
           LeerPcb
  <2>2. TiposPlanificadores'
    BY <2>c, <2>v, <2>e, <2>t, Reposos DEF InvTipos, TypeOK,
           TiposPlanificadores, PCsCorto
  <2>3. TiposTabla' /\ TiposCpus' /\ TiposIO'
    BY <1>5 DEF InvTipos, TypeOK, TiposTabla, TiposCpus, TiposIO, LeerPcb
  <2>4. Nombran'
    BY <2>a, <2>q, <2>e DEF InvTipos, Nombran, CortoNombra, LargoNombra,
           ManejadorNombra, FinNombra
  <2>5. Duenos'
    <3>1. ManejadorEsDueno' /\ TimerEsDueno' /\ FinEsDueno'
      BY <2>a, <2>d, <2>e, DuenosAlTomar
    <3>2. CortoEsDueno'
      BY <2>q DEF CortoEsDueno
    <3> QED
      BY <3>1, <3>2 DEF Duenos
  <2>6. SigueVivo'
    BY <1>5 DEF InvTipos, SigueVivo, LeerPcb
  <2> QED
    BY <2>1, <2>2, <2>3, <2>4, <2>5, <2>6 DEF InvTipos, TypeOK
<1>6. CASE EnviarProceso
  <2>a. corto.pid \in Pid
    BY <1>6 DEF InvTipos, Nombran, CortoNombra, EnviarProceso
  <2>c. corto' = [corto EXCEPT !.pc = "a_execute"]
    BY <1>6 DEF EnviarProceso
  <2>e. UNCHANGED <<largo, temporizador, panico, manejador, finIO>>
    BY <1>6 DEF EnviarProceso
  <2>t. corto \in RegistroCorto
    BY DEF InvTipos, TypeOK, TiposPlanificadores
  <2>1. TiposPlanificadores'
    BY <2>c, <2>e, <2>t DEF InvTipos, TypeOK, TiposPlanificadores, PCsCorto
  <2>2. TiposCpus'
    BY <1>6, <2>a, <2>t DEF InvTipos, TypeOK, TiposCpus, PidONinguno,
           EnviarProceso
  <2>3. TiposTabla' /\ TiposSincronizacion' /\ TiposIO'
    BY <1>6 DEF InvTipos, TypeOK, TiposTabla, TiposSincronizacion, TiposIO,
           EnviarProceso
  <2>4. Nombran'
    BY <2>a, <2>c, <2>e, <2>t DEF InvTipos, Nombran, CortoNombra, LargoNombra,
           ManejadorNombra, FinNombra
  <2>5. Duenos'
    BY <1>6, <2>c, <2>t DEF InvTipos, Duenos, CortoEsDueno, ManejadorEsDueno,
           TimerEsDueno, FinEsDueno, EnviarProceso
  <2>6. SigueVivo'
    BY <1>6 DEF InvTipos, SigueVivo, EnviarProceso
  <2> QED
    BY <2>1, <2>2, <2>3, <2>4, <2>5, <2>6 DEF InvTipos, TypeOK
<1>7. CASE ReadyAExecute
  <2>a. corto.pid \in Pid
    BY <1>7 DEF InvTipos, Nombran, CortoNombra, ReadyAExecute
  <2>b. mutexProc \in [Pid -> Goroutines \cup {NADA}]
    BY DEF InvTipos, TypeOK, TiposSincronizacion
  <2>t. corto \in RegistroCorto
    BY DEF InvTipos, TypeOK, TiposPlanificadores
  <2>e. UNCHANGED <<largo, temporizador, panico, manejador, finIO>>
    BY <1>7 DEF ReadyAExecute
  <2>c. \/ corto' = CortoEsperando
        \/ corto' = [corto EXCEPT !.pc = "cambia"]
    BY <1>7 DEF ReadyAExecute
  <2>f. mutexProc[corto.pid] = NADA /\ mutexProc' = [mutexProc EXCEPT ![corto.pid] = GCorto]
    BY <1>7 DEF ReadyAExecute
  <2>d. mutexProc' \in {mutexProc, [mutexProc EXCEPT ![corto.pid] = GCorto]}
    BY <2>f
  <2>1. TiposTabla'
    BY <1>7, <2>a, MoverDeEsColas DEF InvTipos, TypeOK, TiposTabla, Estados,
           ReadyAExecute
  <2>2. TiposSincronizacion'
    <3>1. fugaReady' \in BOOLEAN
      BY <1>7, Zenon DEF ReadyAExecute
    <3>2. mutexProc' \in [Pid -> Goroutines \cup {NADA}]
      BY <2>b, <2>d DEF Goroutines
    <3>3. UNCHANGED <<mutexIOs, semCpus, semReady, semPasar, avisosCpu>>
      BY <1>7 DEF ReadyAExecute
    <3> QED
      BY <3>1, <3>2, <3>3 DEF InvTipos, TypeOK, TiposSincronizacion
  <2>3. TiposPlanificadores'
    BY <2>c, <2>e, <2>t, Reposos DEF InvTipos, TypeOK, TiposPlanificadores,
           PCsCorto
  <2>4. TiposCpus' /\ TiposIO'
    BY <1>7 DEF InvTipos, TypeOK, TiposCpus, TiposIO, ReadyAExecute
  <2>5. Nombran'
    BY <2>a, <2>c, <2>e, <2>t DEF InvTipos, Nombran, CortoNombra, LargoNombra,
           ManejadorNombra, FinNombra, CortoEsperando
  <2>6. Duenos'
    <3>1. ManejadorEsDueno' /\ TimerEsDueno' /\ FinEsDueno'
      BY <2>a, <2>d, <2>e, DuenosAlTomar, <2>f
    <3>2. CortoEsDueno'
      BY <2>a, <2>b, <2>c, <2>f, <2>t DEF CortoEsDueno, CortoEsperando
    <3> QED
      BY <3>1, <3>2 DEF Duenos
  <2>7. SigueVivo'
    BY <1>7 DEF InvTipos, SigueVivo, ReadyAExecute
  <2> QED
    BY <2>1, <2>2, <2>3, <2>4, <2>5, <2>6, <2>7 DEF InvTipos, TypeOK
<1>8. CASE CambiarAExecute
  <2>a. corto.pid \in Pid
    BY <1>8 DEF InvTipos, Nombran, CortoNombra, CambiarAExecute, Panico
  <2>t. corto \in RegistroCorto
    BY DEF InvTipos, TypeOK, TiposPlanificadores
  <2>c. \/ corto' = CortoEsperando
        \/ corto' = corto
    BY <1>8 DEF CambiarAExecute, Panico
  <2>f. UNCHANGED <<largo, temporizador, manejador, finIO>> /\ panico' \in BOOLEAN
    BY <1>8 DEF InvTipos, TypeOK, TiposPlanificadores, CambiarAExecute, Panico
  <2>v. \A q \in Pid : mapa[q] # NADA => mapa'[q] # NADA
    BY <1>8, <2>a, ConEstadoEsTabla DEF InvTipos, TypeOK, TiposTabla, Estados,
           CambiarAExecute, Panico
  <2>1. TiposTabla'
    BY <1>8, <2>a, ConEstadoEsTabla DEF InvTipos, TypeOK, TiposTabla, Estados,
           CambiarAExecute, Panico
  <2>2. TiposSincronizacion'
    BY <1>8 DEF InvTipos, TypeOK, TiposSincronizacion, CambiarAExecute, Panico
  <2>3. TiposPlanificadores'
    BY <2>c, <2>f, <2>t, Reposos DEF InvTipos, TypeOK, TiposPlanificadores
  <2>4. TiposCpus' /\ TiposIO'
    BY <1>8 DEF InvTipos, TypeOK, TiposCpus, TiposIO, CambiarAExecute, Panico
  <2>5. Nombran'
    BY <2>c, <2>f, <2>t, <2>a DEF InvTipos, Nombran, CortoNombra, LargoNombra,
           ManejadorNombra, FinNombra, CortoEsperando
  <2>6. Duenos'
    <3>1. CASE mapa[corto.pid] = NADA
      BY <1>8, <3>1 DEF InvTipos, Duenos, CortoEsDueno, ManejadorEsDueno,
                        TimerEsDueno, FinEsDueno, CambiarAExecute, Panico
    <3>2. CASE mapa[corto.pid] # NADA
      <4>1. /\ mutexProc' \in {mutexProc, [mutexProc EXCEPT ![corto.pid] = NADA]}
            /\ corto' = CortoEsperando
        BY <1>8, <3>2 DEF CambiarAExecute
      <4>2. mutexProc[corto.pid] = GCorto
        BY <1>8 DEF CambiarAExecute, InvTipos, Duenos, CortoEsDueno
      <4>3. ManejadorEsDueno' /\ TimerEsDueno' /\ FinEsDueno'
        BY <2>a, <2>f, <4>1, <4>2, DuenosAlSoltar, DuenosDistintos
      <4>4. CortoEsDueno'
        BY <4>1 DEF CortoEsDueno, CortoEsperando
      <4> QED
        BY <4>3, <4>4 DEF Duenos
    <3> QED
      BY <3>1, <3>2
  <2>7. SigueVivo'
    BY <2>f, <2>v, SiguenVivos
  <2> QED
    BY <2>1, <2>2, <2>3, <2>4, <2>5, <2>6, <2>7 DEF InvTipos, TypeOK
<1> QED
  BY <1>1, <1>2, <1>3, <1>4, <1>5, <1>6, <1>7, <1>8 DEF PasoCorto

---------------------------------------------------------------------------
(* The long-term planner. *)

\* Every step of the long-term planner (pasar_procesos_a_ready) keeps
\* InvTipos.
LEMMA PasoLargoInv ==
  ASSUME InvTipos, PasoLargo
  PROVE  InvTipos'
<1>1. CASE DespertarLargo
  <2>t. largo \in [pc : {"espera", "susp", "susp_mueve", "new", "new_mueve"},
                  pid : PidONinguno]
    BY DEF InvTipos, TypeOK, TiposPlanificadores
  <2>c. largo' = [largo EXCEPT !.pc = "susp"]
    BY <1>1 DEF DespertarLargo
  <2>e. UNCHANGED <<corto, temporizador, panico, manejador, finIO>>
    BY <1>1 DEF DespertarLargo
  <2>1. TiposSincronizacion'
    BY <1>1 DEF InvTipos, TypeOK, TiposSincronizacion, DespertarLargo
  <2>2. TiposPlanificadores'
    BY <2>c, <2>e, <2>t DEF InvTipos, TypeOK, TiposPlanificadores
  <2>3. TiposTabla' /\ TiposCpus' /\ TiposIO'
    BY <1>1 DEF InvTipos, TypeOK, TiposTabla, TiposCpus, TiposIO,
           DespertarLargo
  <2>4. Nombran'
    BY <2>c, <2>e, <2>t DEF InvTipos, Nombran, CortoNombra, LargoNombra,
           ManejadorNombra, FinNombra
  <2>5. Duenos'
    BY <1>1 DEF InvTipos, Duenos, CortoEsDueno, ManejadorEsDueno,
           TimerEsDueno, FinEsDueno, DespertarLargo
  <2>6. SigueVivo'
    BY <1>1 DEF InvTipos, SigueVivo, DespertarLargo
  <2> QED
    BY <2>1, <2>2, <2>3, <2>4, <2>5, <2>6 DEF InvTipos, TypeOK
<1>2. CASE IntentarReanudar
  <2>t. largo \in [pc : {"espera", "susp", "susp_mueve", "new", "new_mueve"},
                  pid : PidONinguno]
    BY DEF InvTipos, TypeOK, TiposPlanificadores
  <2>e. UNCHANGED <<corto, temporizador, panico, manejador, finIO>>
    BY <1>2 DEF IntentarReanudar
  <2>s. PICK s \in PorTamanio("SUSP_READY") :
        /\ cola' = [cola EXCEPT !["SUSP_READY"] = s]
        /\ \/ /\ memoria' = [memoria EXCEPT ![s[1]] = "ram"]
              /\ largo' = [pc |-> "susp_mueve", pid |-> s[1]]
           \/ memoria' = memoria /\ largo' = [largo EXCEPT !.pc = "espera"]
    BY <1>2 DEF IntentarReanudar
  <2>x. s \in Seq(Pid) /\ s[1] \in Pid
    BY <1>2, PorTamanioSonColas DEF InvTipos, TypeOK, TiposTabla, Estados,
           IntentarReanudar
  <2>c. \/ largo' = [pc |-> "susp_mueve", pid |-> s[1]]
        \/ largo' = [largo EXCEPT !.pc = "espera"]
    BY <2>s
  <2>1. TiposTabla'
    BY <1>2, <2>s, <2>x DEF InvTipos, TypeOK, TiposTabla, Estados, Lugares,
           IntentarReanudar
  <2>2. TiposPlanificadores'
    <3>1. CASE largo' = [pc |-> "susp_mueve", pid |-> s[1]]
      BY <3>1, <2>t, <2>x, <2>e DEF InvTipos, TypeOK, TiposPlanificadores,
             PidONinguno
    <3>2. CASE largo' = [largo EXCEPT !.pc = "espera"]
      BY <3>2, <2>t, <2>x, <2>e DEF InvTipos, TypeOK, TiposPlanificadores,
             PidONinguno
    <3> QED
      BY <3>1, <3>2, <2>c
  <2>3. TiposSincronizacion' /\ TiposCpus' /\ TiposIO'
    BY <1>2 DEF InvTipos, TypeOK, TiposSincronizacion, TiposCpus, TiposIO,
           IntentarReanudar
  <2>4. Nombran'
    <3>1. CASE largo' = [pc |-> "susp_mueve", pid |-> s[1]]
      BY <3>1, <2>t, <2>x, <2>e DEF InvTipos, Nombran, CortoNombra,
             LargoNombra, ManejadorNombra, FinNombra
    <3>2. CASE largo' = [largo EXCEPT !.pc = "espera"]
      BY <3>2, <2>t, <2>x, <2>e DEF InvTipos, Nombran, CortoNombra,
             LargoNombra, ManejadorNombra, FinNombra
    <3> QED
      BY <3>1, <3>2, <2>c
  <2>5. Duenos'
    BY <1>2 DEF InvTipos, Duenos, CortoEsDueno, ManejadorEsDueno,
           TimerEsDueno, FinEsDueno, IntentarReanudar
  <2>6. SigueVivo'
    BY <1>2 DEF InvTipos, SigueVivo, IntentarReanudar
  <2> QED
    BY <2>1, <2>2, <2>3, <2>4, <2>5, <2>6 DEF InvTipos, TypeOK
<1>3. CASE SuspReadyAReady
  <2>a. largo.pid \in Pid
    BY <1>3 DEF InvTipos, Nombran, LargoNombra, SuspReadyAReady, Panico
  <2>t. largo \in [pc : {"espera", "susp", "susp_mueve", "new", "new_mueve"},
                  pid : PidONinguno]
    BY DEF InvTipos, TypeOK, TiposPlanificadores
  <2>f. UNCHANGED <<corto, temporizador, manejador, finIO>> /\ panico' \in BOOLEAN
    BY <1>3 DEF InvTipos, TypeOK, TiposPlanificadores, SuspReadyAReady, Panico
  <2>e. UNCHANGED <<corto, manejador, temporizador, finIO>>
    BY <2>f
  <2>c. largo' = largo \/ largo' = [largo EXCEPT !.pc = "susp"]
    BY <1>3 DEF SuspReadyAReady, Panico
  <2>d. /\ mutexProc[largo.pid] = NADA
        /\ mutexProc' \in {mutexProc, [mutexProc EXCEPT ![largo.pid] = GLargo]}
    BY <1>3 DEF SuspReadyAReady, Panico
  <2>m. \/ mapa' = mapa
        \/ mapa[largo.pid] # NADA /\ mapa' = ConEstado(largo.pid, "READY")
    BY <1>3 DEF SuspReadyAReady, Panico
  <2>w. cola' = cola \/ cola' = MoverDe("SUSP_READY", "READY", largo.pid)
    BY <1>3 DEF SuspReadyAReady, Panico
  <2>x. cola' \in [Estados -> Seq(Pid)]
    BY <2>a, <2>w, MoverDeEsColas DEF InvTipos, TypeOK, TiposTabla, Estados
  <2>y. mapa' \in [Pid -> Procesos \cup {NADA}]
    BY <2>a, <2>m, ConEstadoEsTabla DEF InvTipos, TypeOK, TiposTabla, Estados
  <2>v. \A q \in Pid : mapa[q] # NADA => mapa'[q] # NADA
    BY <2>a, <2>m, ConEstadoEsTabla DEF InvTipos, TypeOK, TiposTabla, Estados
  <2>1. TiposTabla'
    BY <1>3, <2>x, <2>y DEF InvTipos, TypeOK, TiposTabla, SuspReadyAReady,
           Panico
  <2>2. TiposSincronizacion'
    BY <1>3, <2>a DEF InvTipos, TypeOK, TiposSincronizacion, Goroutines,
           SuspReadyAReady, Panico
  <2>3. TiposPlanificadores'
    BY <2>c, <2>f, <2>t DEF InvTipos, TypeOK, TiposPlanificadores
  <2>4. TiposCpus' /\ TiposIO'
    BY <1>3 DEF InvTipos, TypeOK, TiposCpus, TiposIO, SuspReadyAReady, Panico
  <2>5. Nombran'
    BY <2>c, <2>f, <2>t, <2>a DEF InvTipos, Nombran, CortoNombra, LargoNombra,
           ManejadorNombra, FinNombra
  <2>6. Duenos'
    <3>1. CortoEsDueno' /\ ManejadorEsDueno' /\ TimerEsDueno' /\ FinEsDueno'
      BY <2>a, <2>d, <2>e, DuenosAlTomar, <2>f
    <3> QED
      BY <3>1 DEF Duenos
  <2>7. SigueVivo'
    BY <2>f, <2>v, SiguenVivos
  <2> QED
    BY <2>1, <2>2, <2>3, <2>4, <2>5, <2>6, <2>7 DEF InvTipos, TypeOK
<1>4. CASE SuspReadyVacia
  <2>t. largo \in [pc : {"espera", "susp", "susp_mueve", "new", "new_mueve"},
                  pid : PidONinguno]
    BY DEF InvTipos, TypeOK, TiposPlanificadores
  <2>c. largo' = [largo EXCEPT !.pc = "new"]
    BY <1>4 DEF SuspReadyVacia
  <2>e. UNCHANGED <<corto, temporizador, panico, manejador, finIO>>
    BY <1>4 DEF SuspReadyVacia
  <2>1. TiposPlanificadores'
    BY <2>c, <2>e, <2>t DEF InvTipos, TypeOK, TiposPlanificadores
  <2>2. TiposTabla' /\ TiposSincronizacion' /\ TiposCpus' /\ TiposIO'
    BY <1>4 DEF InvTipos, TypeOK, TiposTabla, TiposSincronizacion, TiposCpus,
           TiposIO, SuspReadyVacia
  <2>3. Nombran'
    BY <2>c, <2>e, <2>t DEF InvTipos, Nombran, CortoNombra, LargoNombra,
           ManejadorNombra, FinNombra
  <2>4. Duenos'
    BY <1>4 DEF InvTipos, Duenos, CortoEsDueno, ManejadorEsDueno,
           TimerEsDueno, FinEsDueno, SuspReadyVacia
  <2>5. SigueVivo'
    BY <1>4 DEF InvTipos, SigueVivo, SuspReadyVacia
  <2> QED
    BY <2>1, <2>2, <2>3, <2>4, <2>5 DEF InvTipos, TypeOK
<1>5. CASE IntentarIniciar
  <2>t. largo \in [pc : {"espera", "susp", "susp_mueve", "new", "new_mueve"},
                  pid : PidONinguno]
    BY DEF InvTipos, TypeOK, TiposPlanificadores
  <2>e. UNCHANGED <<corto, temporizador, panico, manejador, finIO>>
    BY <1>5 DEF IntentarIniciar
  <2>s. PICK s \in PorTamanio("NEW") :
        /\ cola' = [cola EXCEPT !["NEW"] = s]
        /\ \/ /\ memoria' = [memoria EXCEPT ![s[1]] = "ram"]
              /\ largo' = [pc |-> "new_mueve", pid |-> s[1]]
           \/ memoria' = memoria /\ largo' = [largo EXCEPT !.pc = "espera"]
    BY <1>5 DEF IntentarIniciar
  <2>x. s \in Seq(Pid) /\ s[1] \in Pid
    BY <1>5, PorTamanioSonColas DEF InvTipos, TypeOK, TiposTabla, Estados,
           IntentarIniciar
  <2>c. \/ largo' = [pc |-> "new_mueve", pid |-> s[1]]
        \/ largo' = [largo EXCEPT !.pc = "espera"]
    BY <2>s
  <2>1. TiposTabla'
    BY <1>5, <2>s, <2>x DEF InvTipos, TypeOK, TiposTabla, Estados, Lugares,
           IntentarIniciar
  <2>2. TiposPlanificadores'
    <3>1. CASE largo' = [pc |-> "new_mueve", pid |-> s[1]]
      BY <3>1, <2>t, <2>x, <2>e DEF InvTipos, TypeOK, TiposPlanificadores,
             PidONinguno
    <3>2. CASE largo' = [largo EXCEPT !.pc = "espera"]
      BY <3>2, <2>t, <2>x, <2>e DEF InvTipos, TypeOK, TiposPlanificadores,
             PidONinguno
    <3> QED
      BY <3>1, <3>2, <2>c
  <2>3. TiposSincronizacion' /\ TiposCpus' /\ TiposIO'
    BY <1>5 DEF InvTipos, TypeOK, TiposSincronizacion, TiposCpus, TiposIO,
           IntentarIniciar
  <2>4. Nombran'
    <3>1. CASE largo' = [pc |-> "new_mueve", pid |-> s[1]]
      BY <3>1, <2>t, <2>x, <2>e DEF InvTipos, Nombran, CortoNombra,
             LargoNombra, ManejadorNombra, FinNombra
    <3>2. CASE largo' = [largo EXCEPT !.pc = "espera"]
      BY <3>2, <2>t, <2>x, <2>e DEF InvTipos, Nombran, CortoNombra,
             LargoNombra, ManejadorNombra, FinNombra
    <3> QED
      BY <3>1, <3>2, <2>c
  <2>5. Duenos'
    BY <1>5 DEF InvTipos, Duenos, CortoEsDueno, ManejadorEsDueno,
           TimerEsDueno, FinEsDueno, IntentarIniciar
  <2>6. SigueVivo'
    BY <1>5 DEF InvTipos, SigueVivo, IntentarIniciar
  <2> QED
    BY <2>1, <2>2, <2>3, <2>4, <2>5, <2>6 DEF InvTipos, TypeOK
<1>6. CASE NewAReady
  <2>a. largo.pid \in Pid
    BY <1>6 DEF InvTipos, Nombran, LargoNombra, NewAReady, Panico
  <2>t. largo \in [pc : {"espera", "susp", "susp_mueve", "new", "new_mueve"},
                  pid : PidONinguno]
    BY DEF InvTipos, TypeOK, TiposPlanificadores
  <2>f. UNCHANGED <<corto, temporizador, manejador, finIO>> /\ panico' \in BOOLEAN
    BY <1>6 DEF InvTipos, TypeOK, TiposPlanificadores, NewAReady, Panico
  <2>e. UNCHANGED <<corto, manejador, temporizador, finIO>>
    BY <2>f
  <2>c. largo' = largo \/ largo' = [largo EXCEPT !.pc = "new"]
    BY <1>6 DEF NewAReady, Panico
  <2>d. /\ mutexProc[largo.pid] = NADA
        /\ mutexProc' \in {mutexProc, [mutexProc EXCEPT ![largo.pid] = GLargo]}
    BY <1>6 DEF NewAReady, Panico
  <2>m. \/ mapa' = mapa
        \/ mapa[largo.pid] # NADA /\ mapa' = ConEstado(largo.pid, "READY")
    BY <1>6 DEF NewAReady, Panico
  <2>w. cola' = cola \/ cola' = MoverDe("NEW", "READY", largo.pid)
    BY <1>6 DEF NewAReady, Panico
  <2>x. cola' \in [Estados -> Seq(Pid)]
    BY <2>a, <2>w, MoverDeEsColas DEF InvTipos, TypeOK, TiposTabla, Estados
  <2>y. mapa' \in [Pid -> Procesos \cup {NADA}]
    BY <2>a, <2>m, ConEstadoEsTabla DEF InvTipos, TypeOK, TiposTabla, Estados
  <2>v. \A q \in Pid : mapa[q] # NADA => mapa'[q] # NADA
    BY <2>a, <2>m, ConEstadoEsTabla DEF InvTipos, TypeOK, TiposTabla, Estados
  <2>1. TiposTabla'
    BY <1>6, <2>x, <2>y DEF InvTipos, TypeOK, TiposTabla, NewAReady, Panico
  <2>2. TiposSincronizacion'
    BY <1>6, <2>a DEF InvTipos, TypeOK, TiposSincronizacion, Goroutines,
           NewAReady, Panico
  <2>3. TiposPlanificadores'
    BY <2>c, <2>f, <2>t DEF InvTipos, TypeOK, TiposPlanificadores
  <2>4. TiposCpus' /\ TiposIO'
    BY <1>6 DEF InvTipos, TypeOK, TiposCpus, TiposIO, NewAReady, Panico
  <2>5. Nombran'
    BY <2>c, <2>f, <2>t, <2>a DEF InvTipos, Nombran, CortoNombra, LargoNombra,
           ManejadorNombra, FinNombra
  <2>6. Duenos'
    <3>1. CortoEsDueno' /\ ManejadorEsDueno' /\ TimerEsDueno' /\ FinEsDueno'
      BY <2>a, <2>d, <2>e, DuenosAlTomar, <2>f
    <3> QED
      BY <3>1 DEF Duenos
  <2>7. SigueVivo'
    BY <2>f, <2>v, SiguenVivos
  <2> QED
    BY <2>1, <2>2, <2>3, <2>4, <2>5, <2>6, <2>7 DEF InvTipos, TypeOK
<1>7. CASE NewVacia
  <2>t. largo \in [pc : {"espera", "susp", "susp_mueve", "new", "new_mueve"},
                  pid : PidONinguno]
    BY DEF InvTipos, TypeOK, TiposPlanificadores
  <2>c. largo' = [largo EXCEPT !.pc = "espera"]
    BY <1>7 DEF NewVacia
  <2>e. UNCHANGED <<corto, temporizador, panico, manejador, finIO>>
    BY <1>7 DEF NewVacia
  <2>1. TiposPlanificadores'
    BY <2>c, <2>e, <2>t DEF InvTipos, TypeOK, TiposPlanificadores
  <2>2. TiposTabla' /\ TiposSincronizacion' /\ TiposCpus' /\ TiposIO'
    BY <1>7 DEF InvTipos, TypeOK, TiposTabla, TiposSincronizacion, TiposCpus,
           TiposIO, NewVacia
  <2>3. Nombran'
    BY <2>c, <2>e, <2>t DEF InvTipos, Nombran, CortoNombra, LargoNombra,
           ManejadorNombra, FinNombra
  <2>4. Duenos'
    BY <1>7 DEF InvTipos, Duenos, CortoEsDueno, ManejadorEsDueno,
           TimerEsDueno, FinEsDueno, NewVacia
  <2>5. SigueVivo'
    BY <1>7 DEF InvTipos, SigueVivo, NewVacia
  <2> QED
    BY <2>1, <2>2, <2>3, <2>4, <2>5 DEF InvTipos, TypeOK
<1> QED
  BY <1>1, <1>2, <1>3, <1>4, <1>5, <1>6, <1>7 DEF PasoLargo

---------------------------------------------------------------------------
(* The medium-term planner: timers. *)

\* Every step of a suspension timer (sigueBloqueado) keeps InvTipos.
LEMMA PasoTimerInv ==
  ASSUME InvTipos, NEW p \in Pid, NEW n \in Numero, PasoTimer(p, n)
  PROVE  InvTipos'
<1>1. CASE DespertarTimer(p, n)
  <2>t. temporizador \in [Pid -> [Numero -> RegistroTimer]]
    BY DEF InvTipos, TypeOK, TiposPlanificadores
  <2>e. UNCHANGED <<corto, largo, panico, manejador, finIO>>
    BY <1>1 DEF DespertarTimer
  <2>a. p \in Pid
    OBVIOUS
  <2>m. mapa' = mapa
    BY <1>1 DEF DespertarTimer
  <2>d. /\ mutexProc[p] = NADA
        /\ mutexProc' \in {mutexProc, [mutexProc EXCEPT ![p] = GTimer(p, n)]}
    BY <1>1 DEF DespertarTimer
  <2>c. \/ temporizador' = [temporizador EXCEPT ![p][n] = SinTimer]
        \/ /\ mapa[p] # NADA /\ mutexProc' = [mutexProc EXCEPT ![p] = GTimer(p, n)]
           /\ temporizador' =
                [temporizador EXCEPT ![p][n] = [temporizador[p][n] EXCEPT !.pc = "suspende"]]
    BY <1>1 DEF DespertarTimer
  <2>o. \A q \in Pid, k \in Numero :
          q # p \/ k # n => temporizador'[q][k] = temporizador[q][k]
    BY <2>t, <2>c
  <2>q. \/ temporizador'[p][n] = SinTimer
        \/ mapa[p] # NADA /\ mutexProc' = [mutexProc EXCEPT ![p] = GTimer(p, n)]
    BY <2>t, <2>c
  <2>1. TiposSincronizacion'
    BY <1>1 DEF InvTipos, TypeOK, TiposSincronizacion, Goroutines,
           DespertarTimer
  <2>2. TiposPlanificadores'
    <3>1. CASE temporizador' = [temporizador EXCEPT ![p][n] = SinTimer]
      BY <3>1, <2>e, <2>t, Reposos DEF InvTipos, TypeOK, TiposPlanificadores
    <3>2. CASE temporizador' =
                 [temporizador EXCEPT ![p][n] = [temporizador[p][n] EXCEPT !.pc = "suspende"]]
      BY <3>2, <2>e, <2>t, Reposos DEF InvTipos, TypeOK, TiposPlanificadores
    <3> QED
      BY <3>1, <3>2, <2>c
  <2>3. TiposTabla' /\ TiposCpus' /\ TiposIO'
    BY <1>1 DEF InvTipos, TypeOK, TiposTabla, TiposCpus, TiposIO,
           DespertarTimer
  <2>4. Nombran'
    BY <2>e DEF InvTipos, Nombran, CortoNombra, LargoNombra, ManejadorNombra,
           FinNombra
  <2>5. Duenos'
    <3>1. CortoEsDueno' /\ ManejadorEsDueno' /\ FinEsDueno'
      BY <2>a, <2>d, <2>e, DuenosAlTomar
    <3>2. mutexProc \in [Pid -> Goroutines \cup {NADA}]
      BY DEF InvTipos, TypeOK, TiposSincronizacion
    <3>3. ASSUME NEW r \in Pid, NEW k \in Numero,
                 temporizador'[r][k].pc \in {"suspende", "mueve"}
          PROVE  mutexProc'[r] = GTimer(r, k)
      <4>1. CASE r = p /\ k = n
        BY <2>q, <3>2, <3>3, <4>1 DEF SinTimer
      <4>2. CASE r # p \/ k # n
        <5>1. mutexProc[r] = GTimer(r, k)
          BY <2>o, <3>3, <4>2 DEF InvTipos, Duenos, TimerEsDueno
        <5>2. r # p
          BY <2>d, <5>1, NadaNoEsDueno
        <5> QED
          BY <2>d, <3>2, <5>1, <5>2
      <4> QED
        BY <4>1, <4>2
    <3> QED
      BY <3>1, <3>3 DEF Duenos, TimerEsDueno
  <2>6. SigueVivo'
    <3>1. CASE temporizador'[p][n] = SinTimer
      BY <2>e, <2>o, <2>m, <3>1 DEF SigueVivo, SinTimer, InvTipos
    <3>2. CASE mapa[p] # NADA
      BY <2>e, <2>o, <2>m, <3>2 DEF SigueVivo, InvTipos
    <3> QED
      BY <2>q, <3>1, <3>2
  <2> QED
    BY <2>1, <2>2, <2>3, <2>4, <2>5, <2>6 DEF InvTipos, TypeOK
<1>2. CASE SuspenderEnMemoria(p, n)
  <2>t. temporizador \in [Pid -> [Numero -> RegistroTimer]]
    BY DEF InvTipos, TypeOK, TiposPlanificadores
  <2>e. UNCHANGED <<corto, largo, panico, manejador, finIO>>
    BY <1>2 DEF SuspenderEnMemoria
  <2>c. temporizador' = [temporizador EXCEPT ![p][n].pc = "mueve"]
    BY <1>2 DEF SuspenderEnMemoria
  <2>1. TiposTabla'
    BY <1>2 DEF InvTipos, TypeOK, TiposTabla, Lugares, SuspenderEnMemoria
  <2>2. TiposPlanificadores'
    BY <2>c, <2>e, <2>t DEF InvTipos, TypeOK, TiposPlanificadores
  <2>3. TiposSincronizacion' /\ TiposCpus' /\ TiposIO'
    BY <1>2 DEF InvTipos, TypeOK, TiposSincronizacion, TiposCpus, TiposIO,
           SuspenderEnMemoria
  <2>4. Nombran'
    BY <2>e DEF InvTipos, Nombran, CortoNombra, LargoNombra, ManejadorNombra,
           FinNombra
  <2>5. Duenos'
    BY <1>2, <2>c, <2>t, <2>e DEF InvTipos, Duenos, CortoEsDueno,
           ManejadorEsDueno, TimerEsDueno, FinEsDueno, SuspenderEnMemoria
  <2>6. SigueVivo'
    BY <1>2, <2>c, <2>t DEF InvTipos, SigueVivo, SuspenderEnMemoria
  <2> QED
    BY <2>1, <2>2, <2>3, <2>4, <2>5, <2>6 DEF InvTipos, TypeOK
<1>3. CASE BlockedASuspBlocked(p, n)
  <2>t. temporizador \in [Pid -> [Numero -> RegistroTimer]]
    BY DEF InvTipos, TypeOK, TiposPlanificadores
  <2>e. UNCHANGED <<corto, largo, panico, manejador, finIO>>
    BY <1>3 DEF BlockedASuspBlocked
  <2>c. temporizador' = [temporizador EXCEPT ![p][n] = SinTimer]
    BY <1>3 DEF BlockedASuspBlocked
  <2>d. mutexProc' \in {mutexProc, [mutexProc EXCEPT ![p] = NADA]}
        /\ mutexProc' = [mutexProc EXCEPT ![p] = NADA]
    BY <1>3 DEF BlockedASuspBlocked
  <2>g. mutexProc[p] = GTimer(p, n) /\ mapa[p] # NADA
    BY <1>3 DEF InvTipos, Duenos, TimerEsDueno, SigueVivo, BlockedASuspBlocked
  <2>m. mapa' = mapa \/ mapa' = ConEstado(p, "SUSP_BLOCKED")
    BY <1>3 DEF BlockedASuspBlocked
  <2>x. cola' \in [Estados -> Seq(Pid)]
    BY <1>3, MoverDeEsColas DEF InvTipos, TypeOK, TiposTabla, Estados,
           BlockedASuspBlocked
  <2>y. mapa' \in [Pid -> Procesos \cup {NADA}]
    BY <2>g, <2>m, ConEstadoEsTabla DEF InvTipos, TypeOK, TiposTabla, Estados
  <2>v. \A q \in Pid : mapa[q] # NADA => mapa'[q] # NADA
    BY <2>g, <2>m, ConEstadoEsTabla DEF InvTipos, TypeOK, TiposTabla, Estados
  <2>1. TiposTabla'
    BY <1>3, <2>x, <2>y DEF InvTipos, TypeOK, TiposTabla, BlockedASuspBlocked
  <2>2. TiposSincronizacion'
    BY <1>3 DEF InvTipos, TypeOK, TiposSincronizacion, BlockedASuspBlocked
  <2>3. TiposPlanificadores'
    BY <2>c, <2>e, <2>t, Reposos DEF InvTipos, TypeOK, TiposPlanificadores
  <2>4. TiposCpus' /\ TiposIO'
    BY <1>3 DEF InvTipos, TypeOK, TiposCpus, TiposIO, BlockedASuspBlocked
  <2>5. Nombran'
    BY <2>e DEF InvTipos, Nombran, CortoNombra, LargoNombra, ManejadorNombra,
           FinNombra
  <2>6. Duenos'
    <3>1. CortoEsDueno' /\ ManejadorEsDueno' /\ FinEsDueno'
      <4>1. /\ mutexProc[p] # GCorto
            /\ \A c \in CPUs : mutexProc[p] # GSyscall(c)
            /\ \A i \in Instancias : mutexProc[p] # GFinIO(i)
        BY <2>g, DuenosDistintos
      <4> QED
        BY <2>d, <2>e, <4>1, DuenosAlSoltar
    <3>2. TimerEsDueno'
      <4>1. \A q \in Pid, k \in Numero :
              /\ temporizador'[q][k].pc \in {"suspende", "mueve"}
              => q # p /\ mutexProc[q] = GTimer(q, k)
        BY <2>c, <2>t, <2>g, DuenosDistintos
           DEF InvTipos, Duenos, TimerEsDueno, SinTimer
      <4>2. mutexProc \in [Pid -> Goroutines \cup {NADA}]
        BY DEF InvTipos, TypeOK, TiposSincronizacion
      <4> QED
        BY <2>d, <4>1, <4>2 DEF TimerEsDueno
    <3> QED
      BY <3>1, <3>2 DEF Duenos
  <2>7. SigueVivo'
    <3>1. \A q \in Pid, k \in Numero :
            temporizador'[q][k].pc \in {"suspende", "mueve"} => mapa[q] # NADA
      BY <2>c, <2>t DEF InvTipos, SigueVivo, SinTimer
    <3> QED
      BY <2>e, <2>v, <3>1 DEF InvTipos, SigueVivo, Nombran, ManejadorNombra,
                              FinNombra
  <2> QED
    BY <2>1, <2>2, <2>3, <2>4, <2>5, <2>6, <2>7 DEF InvTipos, TypeOK
<1> QED
  BY <1>1, <1>2, <1>3 DEF PasoTimer

---------------------------------------------------------------------------
(* The end of an IO. *)

\* Every step of the end of an IO (manejarFinIO) keeps InvTipos.
LEMMA PasoFinIOInv ==
  ASSUME InvTipos, NEW i \in Instancias, PasoFinIO(i)
  PROVE  InvTipos'
<1>1. CASE FinIOTomarLista(i)
  <2>a. finIO[i].pid \in Pid
    BY <1>1 DEF InvTipos, Nombran, FinNombra, FinIOTomarLista
  <2>t. finIO \in [Instancias -> RegistroFin]
    BY DEF InvTipos, TypeOK, TiposIO
  <2>e. UNCHANGED <<corto, largo, panico, manejador, temporizador>>
    BY <1>1 DEF FinIOTomarLista
  <2>c. finIO' = [finIO EXCEPT ![i].pc = "proceso"]
    BY <1>1 DEF FinIOTomarLista
  <2>1. TiposSincronizacion'
    BY <1>1 DEF InvTipos, TypeOK, TiposSincronizacion, Goroutines, GFinIO,
           FinIOTomarLista
  <2>2. TiposIO'
    BY <1>1 DEF InvTipos, TypeOK, TiposIO, FinIOTomarLista
  <2>3. TiposTabla' /\ TiposPlanificadores' /\ TiposCpus'
    BY <1>1 DEF InvTipos, TypeOK, TiposTabla, TiposPlanificadores, TiposCpus,
           FinIOTomarLista
  <2>4. Nombran'
    BY <2>a, <2>c, <2>e, <2>t DEF InvTipos, Nombran, CortoNombra, LargoNombra,
           ManejadorNombra, FinNombra
  <2>5. Duenos'
    BY <1>1, <2>c, <2>t DEF InvTipos, Duenos, CortoEsDueno, ManejadorEsDueno,
           TimerEsDueno, FinEsDueno, FinIOTomarLista
  <2>6. SigueVivo'
    BY <1>1, <2>c, <2>t DEF InvTipos, SigueVivo, FinIOTomarLista
  <2> QED
    BY <2>1, <2>2, <2>3, <2>4, <2>5, <2>6 DEF InvTipos, TypeOK
<1>2. CASE FinIOMirarProceso(i)
  <2>a. finIO[i].pid \in Pid
    BY <1>2 DEF InvTipos, Nombran, FinNombra, FinIOMirarProceso
  <2>t. finIO \in [Instancias -> RegistroFin]
    BY DEF InvTipos, TypeOK, TiposIO
  <2>e. UNCHANGED <<corto, largo, panico, manejador, temporizador>>
    BY <1>2 DEF FinIOMirarProceso
  <2>b. mutexProc \in [Pid -> Goroutines \cup {NADA}]
    BY DEF InvTipos, TypeOK, TiposSincronizacion
  <2>d. /\ mutexProc[finIO[i].pid] = NADA
        /\ mutexProc' \in {mutexProc, [mutexProc EXCEPT ![finIO[i].pid] = GFinIO(i)]}
    BY <1>2 DEF FinIOMirarProceso
  <2>s. mutexProc' \in [Pid -> Goroutines \cup {NADA}]
    BY <2>b, <2>d DEF Goroutines
  <2>u. mutexIOs' \in Goroutines \cup {NADA}
    BY <1>2 DEF InvTipos, TypeOK, TiposSincronizacion, FinIOMirarProceso
  <2>c. \/ finIO' = [finIO EXCEPT ![i] = SinFin]
        \/ finIO' = [finIO EXCEPT ![i] = [finIO[i] EXCEPT !.pc = "instancia"]]
        \/ /\ finIO' = [finIO EXCEPT ![i] = [finIO[i] EXCEPT !.pc = "mueve"]]
           /\ mapa[finIO[i].pid] # NADA
           /\ mutexProc' = [mutexProc EXCEPT ![finIO[i].pid] = GFinIO(i)]
    BY <1>2 DEF FinIOMirarProceso
  <2>z. finIO' \in [Instancias -> RegistroFin]
    BY <2>c, <2>t, Reposos
  <2>o. /\ finIO'[i].pc = "mueve" =>
             /\ mapa[finIO'[i].pid] # NADA
             /\ mutexProc' = [mutexProc EXCEPT ![finIO[i].pid] = GFinIO(i)]
        /\ finIO'[i].pid = finIO[i].pid \/ finIO'[i].pc = "inactivo"
        /\ \A j \in Instancias : j # i => finIO'[j] = finIO[j]
    BY <2>c, <2>t DEF SinFin
  <2>1. TiposSincronizacion'
    BY <1>2, <2>s, <2>u DEF InvTipos, TypeOK, TiposSincronizacion,
           FinIOMirarProceso
  <2>2. TiposIO'
    BY <1>2, <2>z DEF InvTipos, TypeOK, TiposIO, FinIOMirarProceso
  <2>3. TiposTabla' /\ TiposPlanificadores' /\ TiposCpus'
    BY <1>2 DEF InvTipos, TypeOK, TiposTabla, TiposPlanificadores, TiposCpus,
           FinIOMirarProceso
  <2>4. Nombran'
    BY <2>a, <2>o, <2>e, <2>t DEF InvTipos, Nombran, CortoNombra, LargoNombra,
           ManejadorNombra, FinNombra
  <2>5. Duenos'
    <3>1. CortoEsDueno' /\ ManejadorEsDueno' /\ TimerEsDueno'
      BY <2>a, <2>d, <2>e, DuenosAlTomar
    <3>2. FinEsDueno'
      <4>1. ASSUME NEW j \in Instancias, j # i, finIO'[j].pc = "mueve"
            PROVE  mutexProc'[finIO'[j].pid] = GFinIO(j)
        <5>1. finIO'[j] = finIO[j] /\ finIO[j].pid \in Pid
              /\ mutexProc[finIO[j].pid] = GFinIO(j)
          BY <2>o, <4>1 DEF InvTipos, Duenos, FinEsDueno, Nombran, FinNombra
        <5>2. finIO[j].pid # finIO[i].pid
          BY <2>d, <5>1, NadaNoEsDueno
        <5> QED
          BY <2>b, <2>d, <5>1, <5>2
      <4>2. finIO'[i].pc = "mueve" => mutexProc'[finIO'[i].pid] = GFinIO(i)
        BY <2>a, <2>b, <2>o
      <4> QED
        BY <4>1, <4>2 DEF FinEsDueno
    <3> QED
      BY <3>1, <3>2 DEF Duenos
  <2>6. SigueVivo'
    <3>1. mapa' = mapa
      BY <1>2 DEF FinIOMirarProceso
    <3> QED
      BY <2>e, <2>o, <3>1 DEF InvTipos, SigueVivo
  <2> QED
    BY <2>1, <2>2, <2>3, <2>4, <2>5, <2>6 DEF InvTipos, TypeOK
<1>3. CASE SuspBlockedASuspReady(i)
  <2>a. finIO[i].pid \in Pid
    BY <1>3 DEF InvTipos, Nombran, FinNombra, SuspBlockedASuspReady,
           FinIOMovido
  <2>t. finIO \in [Instancias -> RegistroFin]
    BY DEF InvTipos, TypeOK, TiposIO
  <2>e. UNCHANGED <<corto, largo, panico, manejador, temporizador>>
    BY <1>3 DEF SuspBlockedASuspReady, FinIOMovido
  <2>c. \/ finIO' = [finIO EXCEPT ![i] = [finIO[i] EXCEPT !.pc = "instancia"]]
        \/ finIO' = [finIO EXCEPT ![i] = SinFin]
    BY <1>3 DEF SuspBlockedASuspReady, FinIOMovido
  <2>z. finIO' \in [Instancias -> RegistroFin]
    <3>1. CASE finIO' = [finIO EXCEPT ![i] = [finIO[i] EXCEPT !.pc = "instancia"]]
      BY <3>1, <2>t, Reposos
    <3>2. CASE finIO' = [finIO EXCEPT ![i] = SinFin]
      BY <3>2, <2>t, Reposos
    <3> QED
      BY <3>1, <3>2, <2>c
  <2>o. /\ finIO'[i].pc # "mueve"
        /\ finIO'[i].pid = finIO[i].pid \/ finIO'[i].pc = "inactivo"
        /\ \A j \in Instancias : j # i => finIO'[j] = finIO[j]
    <3>1. CASE finIO' = [finIO EXCEPT ![i] = [finIO[i] EXCEPT !.pc = "instancia"]]
      BY <3>1, <2>t DEF SinFin
    <3>2. CASE finIO' = [finIO EXCEPT ![i] = SinFin]
      BY <3>2, <2>t DEF SinFin
    <3> QED
      BY <3>1, <3>2, <2>c
  <2>d. /\ mutexProc' \in {mutexProc, [mutexProc EXCEPT ![finIO[i].pid] = NADA]}
        /\ mutexProc' = [mutexProc EXCEPT ![finIO[i].pid] = NADA]
    BY <1>3 DEF SuspBlockedASuspReady, FinIOMovido
  <2>g. mutexProc[finIO[i].pid] = GFinIO(i) /\ mapa[finIO[i].pid] # NADA
    BY <1>3 DEF InvTipos, Duenos, FinEsDueno, SigueVivo,
           SuspBlockedASuspReady, FinIOMovido
  <2>s. mutexProc' \in [Pid -> Goroutines \cup {NADA}]
    BY <2>d DEF InvTipos, TypeOK, TiposSincronizacion
  <2>u. /\ mutexIOs' \in Goroutines \cup {NADA}
        /\ semReady' \in Nat /\ semPasar' \in Nat
    BY <1>3 DEF InvTipos, TypeOK, TiposSincronizacion, SuspBlockedASuspReady,
           FinIOMovido
  <2>m. mapa' = mapa \/ mapa' = ConEstado(finIO[i].pid, "SUSP_READY")
    BY <1>3 DEF SuspBlockedASuspReady, FinIOMovido
  <2>x. cola' \in [Estados -> Seq(Pid)]
    BY <1>3, <2>a, MoverDeEsColas DEF InvTipos, TypeOK, TiposTabla, Estados,
           SuspBlockedASuspReady, FinIOMovido
  <2>y. mapa' \in [Pid -> Procesos \cup {NADA}]
    BY <2>a, <2>g, <2>m, ConEstadoEsTabla DEF InvTipos, TypeOK, TiposTabla,
           Estados
  <2>v. \A q \in Pid : mapa[q] # NADA => mapa'[q] # NADA
    BY <2>a, <2>g, <2>m, ConEstadoEsTabla DEF InvTipos, TypeOK, TiposTabla,
           Estados
  <2>1. TiposTabla'
    BY <1>3, <2>x, <2>y DEF InvTipos, TypeOK, TiposTabla,
           SuspBlockedASuspReady, FinIOMovido
  <2>2. TiposSincronizacion'
    BY <1>3, <2>s, <2>u DEF InvTipos, TypeOK, TiposSincronizacion,
           SuspBlockedASuspReady, FinIOMovido
  <2>3. TiposIO'
    BY <1>3, <2>z DEF InvTipos, TypeOK, TiposIO, SuspBlockedASuspReady,
           FinIOMovido
  <2>4. TiposPlanificadores' /\ TiposCpus'
    BY <1>3 DEF InvTipos, TypeOK, TiposPlanificadores, TiposCpus,
           SuspBlockedASuspReady, FinIOMovido
  <2>5. Nombran'
    BY <2>a, <2>o, <2>e, <2>t DEF InvTipos, Nombran, CortoNombra, LargoNombra,
           ManejadorNombra, FinNombra
  <2>6. Duenos'
    <3>1. CortoEsDueno' /\ ManejadorEsDueno' /\ TimerEsDueno'
      <4>1. /\ mutexProc[finIO[i].pid] # GCorto
            /\ \A c \in CPUs : mutexProc[finIO[i].pid] # GSyscall(c)
            /\ \A n \in Numero : mutexProc[finIO[i].pid] # GTimer(finIO[i].pid, n)
        BY <2>a, <2>g, DuenosDistintos
      <4> QED
        BY <2>a, <2>d, <2>e, <4>1, DuenosAlSoltar
    <3>2. FinEsDueno'
      <4>1. ASSUME NEW j \in Instancias, finIO'[j].pc = "mueve"
            PROVE  finIO'[j] = finIO[j] /\ finIO[j].pid # finIO[i].pid
                   /\ mutexProc[finIO[j].pid] = GFinIO(j)
        BY <2>o, <2>g, <4>1, DuenosDistintos DEF InvTipos, Duenos, FinEsDueno
      <4>2. mutexProc \in [Pid -> Goroutines \cup {NADA}]
        BY DEF InvTipos, TypeOK, TiposSincronizacion
      <4>3. \A j \in Instancias : finIO[j].pc = "mueve" => finIO[j].pid \in Pid
        BY DEF InvTipos, Nombran, FinNombra
      <4> QED
        BY <2>d, <4>1, <4>2, <4>3 DEF FinEsDueno
    <3> QED
      BY <3>1, <3>2 DEF Duenos
  <2>7. SigueVivo'
    <3>1. \A j \in Instancias : finIO'[j].pc = "mueve" => finIO'[j] = finIO[j]
      BY <2>o
    <3> QED
      BY <2>e, <2>v, <3>1 DEF InvTipos, SigueVivo, Nombran, ManejadorNombra,
                              FinNombra
  <2> QED
    BY <2>1, <2>2, <2>3, <2>4, <2>5, <2>6, <2>7 DEF InvTipos, TypeOK
<1>4. CASE BlockedAReady(i)
  <2>a. finIO[i].pid \in Pid
    BY <1>4 DEF InvTipos, Nombran, FinNombra, BlockedAReady, FinIOMovido
  <2>t. finIO \in [Instancias -> RegistroFin]
    BY DEF InvTipos, TypeOK, TiposIO
  <2>e. UNCHANGED <<corto, largo, panico, manejador, temporizador>>
    BY <1>4 DEF BlockedAReady, FinIOMovido
  <2>c. \/ finIO' = [finIO EXCEPT ![i] = [finIO[i] EXCEPT !.pc = "instancia"]]
        \/ finIO' = [finIO EXCEPT ![i] = SinFin]
    BY <1>4 DEF BlockedAReady, FinIOMovido
  <2>z. finIO' \in [Instancias -> RegistroFin]
    <3>1. CASE finIO' = [finIO EXCEPT ![i] = [finIO[i] EXCEPT !.pc = "instancia"]]
      BY <3>1, <2>t, Reposos
    <3>2. CASE finIO' = [finIO EXCEPT ![i] = SinFin]
      BY <3>2, <2>t, Reposos
    <3> QED
      BY <3>1, <3>2, <2>c
  <2>o. /\ finIO'[i].pc # "mueve"
        /\ finIO'[i].pid = finIO[i].pid \/ finIO'[i].pc = "inactivo"
        /\ \A j \in Instancias : j # i => finIO'[j] = finIO[j]
    <3>1. CASE finIO' = [finIO EXCEPT ![i] = [finIO[i] EXCEPT !.pc = "instancia"]]
      BY <3>1, <2>t DEF SinFin
    <3>2. CASE finIO' = [finIO EXCEPT ![i] = SinFin]
      BY <3>2, <2>t DEF SinFin
    <3> QED
      BY <3>1, <3>2, <2>c
  <2>d. /\ mutexProc' \in {mutexProc, [mutexProc EXCEPT ![finIO[i].pid] = NADA]}
        /\ mutexProc' = [mutexProc EXCEPT ![finIO[i].pid] = NADA]
    BY <1>4 DEF BlockedAReady, FinIOMovido
  <2>g. mutexProc[finIO[i].pid] = GFinIO(i) /\ mapa[finIO[i].pid] # NADA
    BY <1>4 DEF InvTipos, Duenos, FinEsDueno, SigueVivo, BlockedAReady,
           FinIOMovido
  <2>s. mutexProc' \in [Pid -> Goroutines \cup {NADA}]
    BY <2>d DEF InvTipos, TypeOK, TiposSincronizacion
  <2>u. /\ mutexIOs' \in Goroutines \cup {NADA}
        /\ semReady' \in Nat /\ semPasar' \in Nat
    BY <1>4 DEF InvTipos, TypeOK, TiposSincronizacion, BlockedAReady,
           FinIOMovido
  <2>m. mapa' = mapa \/ mapa' = ConEstado(finIO[i].pid, "READY")
    BY <1>4 DEF BlockedAReady, FinIOMovido
  <2>x. cola' \in [Estados -> Seq(Pid)]
    BY <1>4, <2>a, MoverDeEsColas DEF InvTipos, TypeOK, TiposTabla, Estados,
           BlockedAReady, FinIOMovido
  <2>y. mapa' \in [Pid -> Procesos \cup {NADA}]
    BY <2>a, <2>g, <2>m, ConEstadoEsTabla DEF InvTipos, TypeOK, TiposTabla,
           Estados
  <2>v. \A q \in Pid : mapa[q] # NADA => mapa'[q] # NADA
    BY <2>a, <2>g, <2>m, ConEstadoEsTabla DEF InvTipos, TypeOK, TiposTabla,
           Estados
  <2>1. TiposTabla'
    BY <1>4, <2>x, <2>y DEF InvTipos, TypeOK, TiposTabla, BlockedAReady,
           FinIOMovido
  <2>2. TiposSincronizacion'
    BY <1>4, <2>s, <2>u DEF InvTipos, TypeOK, TiposSincronizacion,
           BlockedAReady, FinIOMovido
  <2>3. TiposIO'
    BY <1>4, <2>z DEF InvTipos, TypeOK, TiposIO, BlockedAReady, FinIOMovido
  <2>4. TiposPlanificadores' /\ TiposCpus'
    BY <1>4 DEF InvTipos, TypeOK, TiposPlanificadores, TiposCpus,
           BlockedAReady, FinIOMovido
  <2>5. Nombran'
    BY <2>a, <2>o, <2>e, <2>t DEF InvTipos, Nombran, CortoNombra, LargoNombra,
           ManejadorNombra, FinNombra
  <2>6. Duenos'
    <3>1. CortoEsDueno' /\ ManejadorEsDueno' /\ TimerEsDueno'
      <4>1. /\ mutexProc[finIO[i].pid] # GCorto
            /\ \A c \in CPUs : mutexProc[finIO[i].pid] # GSyscall(c)
            /\ \A n \in Numero : mutexProc[finIO[i].pid] # GTimer(finIO[i].pid, n)
        BY <2>a, <2>g, DuenosDistintos
      <4> QED
        BY <2>a, <2>d, <2>e, <4>1, DuenosAlSoltar
    <3>2. FinEsDueno'
      <4>1. ASSUME NEW j \in Instancias, finIO'[j].pc = "mueve"
            PROVE  finIO'[j] = finIO[j] /\ finIO[j].pid # finIO[i].pid
                   /\ mutexProc[finIO[j].pid] = GFinIO(j)
        BY <2>o, <2>g, <4>1, DuenosDistintos DEF InvTipos, Duenos, FinEsDueno
      <4>2. mutexProc \in [Pid -> Goroutines \cup {NADA}]
        BY DEF InvTipos, TypeOK, TiposSincronizacion
      <4>3. \A j \in Instancias : finIO[j].pc = "mueve" => finIO[j].pid \in Pid
        BY DEF InvTipos, Nombran, FinNombra
      <4> QED
        BY <2>d, <4>1, <4>2, <4>3 DEF FinEsDueno
    <3> QED
      BY <3>1, <3>2 DEF Duenos
  <2>7. SigueVivo'
    <3>1. \A j \in Instancias : finIO'[j].pc = "mueve" => finIO'[j] = finIO[j]
      BY <2>o
    <3> QED
      BY <2>e, <2>v, <3>1 DEF InvTipos, SigueVivo, Nombran, ManejadorNombra,
                              FinNombra
  <2> QED
    BY <2>1, <2>2, <2>3, <2>4, <2>5, <2>6, <2>7 DEF InvTipos, TypeOK
<1>5. CASE LiberarInstancia(i)
  <2>t. finIO \in [Instancias -> RegistroFin]
    BY DEF InvTipos, TypeOK, TiposIO
  <2>e. UNCHANGED <<corto, largo, panico, manejador, temporizador>>
    BY <1>5 DEF LiberarInstancia
  <2>c. finIO' = [finIO EXCEPT ![i] = SinFin]
    BY <1>5 DEF LiberarInstancia
  <2>z. finIO' \in [Instancias -> RegistroFin]
    BY <2>c, <2>t, Reposos
  <2>h. /\ sesiones' \in [Pid -> Nat]
        /\ esperaIO' \in [NombresIO -> Seq(Pid)]
        /\ enIO' \in [Instancias -> PidONinguno]
        /\ dispositivo' \in [Instancias -> PidONinguno]
    <3> DEFINE d == NombreIO[i]
    <3>1. /\ sesiones \in [Pid -> Nat]
          /\ esperaIO \in [NombresIO -> Seq(Pid)]
          /\ enIO \in [Instancias -> PidONinguno]
          /\ dispositivo \in [Instancias -> PidONinguno]
      BY DEF InvTipos, TypeOK, TiposTabla, TiposIO
    <3>2. d \in NombresIO
      BY ConstantesOK
    <3>3. CASE esperaIO[d] = <<>>
      BY <1>5, <3>1, <3>3 DEF LiberarInstancia, PidONinguno
    <3>4. CASE esperaIO[d] # <<>>
      <4>1. /\ Head(esperaIO[d]) \in Pid
            /\ Tail(esperaIO[d]) \in Seq(Pid)
        BY <3>1, <3>2, <3>4
      <4>2. /\ sesiones' = [sesiones EXCEPT ![Head(esperaIO[d])] = @ + 1]
            /\ esperaIO' = [esperaIO EXCEPT ![d] = Tail(esperaIO[d])]
            /\ enIO' = [enIO EXCEPT ![i] = Head(esperaIO[d])]
            /\ dispositivo' = [dispositivo EXCEPT ![i] = Head(esperaIO[d])]
        BY <1>5, <3>4 DEF LiberarInstancia, Solicitar
      <4> HIDE DEF d
      <4>3. sesiones' \in [Pid -> Nat]
        BY <3>1, <4>1, <4>2
      <4>4. esperaIO' \in [NombresIO -> Seq(Pid)]
        BY <3>1, <3>2, <4>1, <4>2
      <4>5. /\ enIO' \in [Instancias -> PidONinguno]
            /\ dispositivo' \in [Instancias -> PidONinguno]
        BY <3>1, <4>1, <4>2 DEF PidONinguno
      <4> QED
        BY <4>3, <4>4, <4>5
    <3> QED
      BY <3>3, <3>4
  <2>1. TiposTabla'
    BY <1>5, <2>h DEF InvTipos, TypeOK, TiposTabla, LiberarInstancia
  <2>2. TiposSincronizacion'
    BY <1>5 DEF InvTipos, TypeOK, TiposSincronizacion, LiberarInstancia
  <2>3. TiposIO'
    BY <1>5, <2>h, <2>z DEF InvTipos, TypeOK, TiposIO, LiberarInstancia
  <2>4. TiposPlanificadores' /\ TiposCpus'
    BY <1>5 DEF InvTipos, TypeOK, TiposPlanificadores, TiposCpus,
           LiberarInstancia
  <2>5. Nombran'
    BY <2>c, <2>e, <2>t DEF InvTipos, Nombran, CortoNombra, LargoNombra,
           ManejadorNombra, FinNombra, SinFin
  <2>6. Duenos'
    BY <1>5, <2>c, <2>t DEF InvTipos, Duenos, CortoEsDueno, ManejadorEsDueno,
           TimerEsDueno, FinEsDueno, SinFin, LiberarInstancia
  <2>7. SigueVivo'
    BY <1>5, <2>c, <2>t DEF InvTipos, SigueVivo, SinFin, LiberarInstancia
  <2> QED
    BY <2>1, <2>2, <2>3, <2>4, <2>5, <2>6, <2>7 DEF InvTipos, TypeOK
<1> QED
  BY <1>1, <1>2, <1>3, <1>4, <1>5 DEF PasoFinIO

---------------------------------------------------------------------------
(* Syscalls. *)

\* Every step of the handler of a syscall (syscallHandler.go) keeps InvTipos.
LEMMA PasoSyscallInv ==
  ASSUME InvTipos, NEW c \in CPUs, PasoSyscall(c)
  PROVE  InvTipos'
<1>1. CASE MarcarLibre(c)
  <2>k. manejador[c].pc = "libera"
    BY <1>1 DEF En, MarcarLibre
  <2>a. manejador[c].pid \in Pid /\ manejador[c].n \in Numero
    BY <1>1 DEF En, InvTipos, Nombran, ManejadorNombra, MarcarLibre
  <2>t. manejador \in [CPUs -> RegistroSyscall]
    BY DEF InvTipos, TypeOK, TiposCpus
  <2>e. UNCHANGED <<corto, largo, panico, temporizador, finIO>>
    BY <1>1 DEF MarcarLibre
  <2>c. manejador' = [manejador EXCEPT ![c] = SinSyscall]
    BY <1>1 DEF MarcarLibre
  <2>z. manejador' \in [CPUs -> RegistroSyscall]
    BY <2>c, <2>t, Reposos DEF PCsSyscall
  <2>1. TiposSincronizacion'
    BY <1>1 DEF InvTipos, TypeOK, TiposSincronizacion, MarcarLibre
  <2>2. TiposCpus'
    BY <1>1, <2>z DEF InvTipos, TypeOK, TiposCpus, MarcarLibre
  <2>3. TiposTabla' /\ TiposPlanificadores' /\ TiposIO'
    BY <1>1 DEF InvTipos, TypeOK, TiposTabla, TiposPlanificadores, TiposIO,
           MarcarLibre
  <2>4. Nombran'
    BY <2>a, <2>c, <2>e, <2>k, <2>t DEF InvTipos, Nombran, CortoNombra,
           LargoNombra, ManejadorNombra, FinNombra, PCsIO, PCsReanuda,
           SinSyscall
  <2>5. Duenos'
    BY <1>1, <2>c, <2>t DEF InvTipos, Duenos, CortoEsDueno, ManejadorEsDueno,
           TimerEsDueno, FinEsDueno, SinSyscall, MarcarLibre
  <2>6. SigueVivo'
    BY <1>1, <2>c, <2>t DEF InvTipos, SigueVivo, SinSyscall, MarcarLibre
  <2> QED
    BY <2>1, <2>2, <2>3, <2>4, <2>5, <2>6 DEF InvTipos, TypeOK
<1>2. CASE FinEnMemoria(c)
  <2>k. manejador[c].pc = "fin_memoria"
    BY <1>2 DEF En, FinEnMemoria, Pasar
  <2>a. manejador[c].pid \in Pid /\ manejador[c].n \in Numero
    BY <1>2 DEF En, InvTipos, Nombran, ManejadorNombra, FinEnMemoria, Pasar
  <2>t. manejador \in [CPUs -> RegistroSyscall]
    BY DEF InvTipos, TypeOK, TiposCpus
  <2>e. UNCHANGED <<corto, largo, panico, temporizador, finIO>>
    BY <1>2 DEF FinEnMemoria, Pasar
  <2>c. manejador' = [manejador EXCEPT ![c].pc = "fin_cola"]
    BY <1>2 DEF Pasar, FinEnMemoria
  <2>z. manejador' \in [CPUs -> RegistroSyscall]
    BY <2>c, <2>t, Reposos DEF PCsSyscall
  <2>1. TiposTabla'
    BY <1>2 DEF InvTipos, TypeOK, TiposTabla, Lugares, FinEnMemoria, Pasar
  <2>2. TiposCpus'
    BY <1>2, <2>z DEF InvTipos, TypeOK, TiposCpus, FinEnMemoria, Pasar
  <2>3. TiposSincronizacion' /\ TiposPlanificadores' /\ TiposIO'
    BY <1>2 DEF InvTipos, TypeOK, TiposSincronizacion, TiposPlanificadores,
           TiposIO, FinEnMemoria, Pasar
  <2>4. Nombran'
    BY <2>a, <2>c, <2>e, <2>k, <2>t DEF InvTipos, Nombran, CortoNombra,
           LargoNombra, ManejadorNombra, FinNombra, PCsIO, PCsReanuda,
           SinSyscall
  <2>5. Duenos'
    BY <1>2, <2>c, <2>t DEF InvTipos, Duenos, CortoEsDueno, ManejadorEsDueno,
           TimerEsDueno, FinEsDueno, SinSyscall, FinEnMemoria, Pasar
  <2>6. SigueVivo'
    BY <1>2, <2>c, <2>t DEF InvTipos, SigueVivo, SinSyscall, FinEnMemoria,
           Pasar
  <2> QED
    BY <2>1, <2>2, <2>3, <2>4, <2>5, <2>6 DEF InvTipos, TypeOK
<1>3. CASE FinEnCola(c)
  <2>k. manejador[c].pc = "fin_cola"
    BY <1>3 DEF En, FinEnCola, Pasar
  <2>a. manejador[c].pid \in Pid /\ manejador[c].n \in Numero
    BY <1>3 DEF En, InvTipos, Nombran, ManejadorNombra, FinEnCola, Pasar
  <2>t. manejador \in [CPUs -> RegistroSyscall]
    BY DEF InvTipos, TypeOK, TiposCpus
  <2>e. UNCHANGED <<corto, largo, panico, temporizador, finIO>>
    BY <1>3 DEF FinEnCola, Pasar
  <2>c. manejador' = [manejador EXCEPT ![c].pc = "fin_log"]
    BY <1>3 DEF Pasar, FinEnCola
  <2>z. manejador' \in [CPUs -> RegistroSyscall]
    BY <2>c, <2>t, Reposos DEF PCsSyscall
  <2>x. cola' \in [Estados -> Seq(Pid)]
    BY <1>3, QuitarEsCola DEF InvTipos, TypeOK, TiposTabla, Estados,
           EstadoAnterior, FinEnCola, Pasar
  <2>1. TiposTabla'
    BY <1>3, <2>x DEF InvTipos, TypeOK, TiposTabla, FinEnCola, Pasar
  <2>2. TiposCpus'
    BY <1>3, <2>z DEF InvTipos, TypeOK, TiposCpus, FinEnCola, Pasar
  <2>3. TiposSincronizacion' /\ TiposPlanificadores' /\ TiposIO'
    BY <1>3 DEF InvTipos, TypeOK, TiposSincronizacion, TiposPlanificadores,
           TiposIO, FinEnCola, Pasar
  <2>4. Nombran'
    BY <2>a, <2>c, <2>e, <2>k, <2>t DEF InvTipos, Nombran, CortoNombra,
           LargoNombra, ManejadorNombra, FinNombra, PCsIO, PCsReanuda,
           SinSyscall
  <2>5. Duenos'
    BY <1>3, <2>c, <2>t DEF InvTipos, Duenos, CortoEsDueno, ManejadorEsDueno,
           TimerEsDueno, FinEsDueno, SinSyscall, FinEnCola, Pasar
  <2>6. SigueVivo'
    BY <1>3, <2>c, <2>t DEF InvTipos, SigueVivo, SinSyscall, FinEnCola, Pasar
  <2> QED
    BY <2>1, <2>2, <2>3, <2>4, <2>5, <2>6 DEF InvTipos, TypeOK
<1>3a. CASE FinEnLog(c)
  <2>a. manejador[c].pid \in Pid /\ manejador[c].n \in Numero
    BY <1>3a DEF En, InvTipos, Nombran, ManejadorNombra, FinEnLog, Panico,
           Pasar
  <2>t. manejador \in [CPUs -> RegistroSyscall]
    BY DEF InvTipos, TypeOK, TiposCpus
  <2>e. UNCHANGED <<corto, largo, temporizador, finIO>>
    BY <1>3a DEF FinEnLog, Panico, Pasar
  <2>c. \/ manejador' = manejador /\ mapa' = mapa
        \/ manejador' = [manejador EXCEPT ![c].pc = "fin_mapa"]
    BY <1>3a DEF FinEnLog, Panico, Pasar
  <2>z. manejador' \in [CPUs -> RegistroSyscall]
    BY <2>c, <2>t DEF PCsSyscall
  <2>k. manejador[c].pc = "fin_log"
    BY <1>3a DEF En, FinEnLog, Panico, Pasar
  <2>q. /\ manejador'[c].pc \in {"fin_log", "fin_mapa"}
        /\ manejador'[c].pid = manejador[c].pid /\ manejador'[c].n = manejador[c].n
        /\ \A d \in CPUs : d # c => manejador'[d] = manejador[d]
    BY <2>c, <2>k, <2>t
  <2>1. TiposTabla'
    BY <1>3a DEF InvTipos, TypeOK, TiposTabla, FinEnLog, Panico, Pasar
  <2>2. TiposSincronizacion'
    BY <1>3a DEF InvTipos, TypeOK, TiposSincronizacion, FinEnLog, Panico,
           Pasar
  <2>3. TiposPlanificadores'
    BY <1>3a DEF InvTipos, TypeOK, TiposPlanificadores, Panico, FinEnLog,
           Pasar
  <2>4. TiposCpus'
    BY <1>3a, <2>z DEF InvTipos, TypeOK, TiposCpus, Panico, FinEnLog, Pasar
  <2>5. TiposIO'
    BY <1>3a DEF InvTipos, TypeOK, TiposIO, FinEnLog, Panico, Pasar
  <2>6. Nombran'
    BY <2>a, <2>q, <2>e DEF InvTipos, Nombran, CortoNombra, LargoNombra,
           ManejadorNombra, FinNombra, PCsIO, PCsReanuda
  <2>7. Duenos'
    BY <1>3a, <2>q DEF InvTipos, Duenos, CortoEsDueno, ManejadorEsDueno,
           TimerEsDueno, FinEsDueno, FinEnLog, Panico, Pasar
  <2>8. SigueVivo'
    <3>1. \A q \in Pid : mapa[q] # NADA => mapa'[q] # NADA \/ mutexProc[q] = NADA
      BY <1>3a, <2>a DEF FinEnLog, Panico, InvTipos, TypeOK, TiposTabla
    <3>2. \A d \in CPUs : manejador'[d].pc = "io_bloquea" => manejador'[d] = manejador[d]
      BY <2>q
    <3> QED
      BY <2>e, <3>1, <3>2, NadaNoEsDueno
         DEF InvTipos, SigueVivo, Duenos, ManejadorEsDueno, TimerEsDueno,
             FinEsDueno, Nombran, ManejadorNombra, FinNombra
  <2> QED
    BY <2>1, <2>2, <2>3, <2>4, <2>5, <2>6, <2>7, <2>8 DEF InvTipos, TypeOK
<1>4. CASE FinEnMapa(c)
  <2>a. manejador[c].pid \in Pid /\ manejador[c].n \in Numero
    BY <1>4 DEF En, InvTipos, Nombran, ManejadorNombra, FinEnMapa, Pasar
  <2>t. manejador \in [CPUs -> RegistroSyscall]
    BY DEF InvTipos, TypeOK, TiposCpus
  <2>e. UNCHANGED <<corto, largo, temporizador, finIO>>
    BY <1>4 DEF FinEnMapa, Pasar
  <2>c. manejador' = [manejador EXCEPT ![c].pc = "libera"]
    BY <1>4 DEF FinEnMapa, Pasar
  <2>z. manejador' \in [CPUs -> RegistroSyscall]
    BY <2>c, <2>t DEF PCsSyscall
  <2>k. manejador[c].pc = "fin_mapa"
    BY <1>4 DEF En, FinEnMapa, Pasar
  <2>q. /\ manejador'[c].pc \in {"fin_mapa", "libera"}
        /\ manejador'[c].pid = manejador[c].pid /\ manejador'[c].n = manejador[c].n
        /\ \A d \in CPUs : d # c => manejador'[d] = manejador[d]
    BY <2>c, <2>k, <2>t
  <2>1. TiposTabla'
    BY <1>4 DEF InvTipos, TypeOK, TiposTabla, FinEnMapa, Pasar
  <2>2. TiposSincronizacion'
    BY <1>4 DEF InvTipos, TypeOK, TiposSincronizacion, FinEnMapa, Pasar
  <2>3. TiposPlanificadores'
    BY <1>4 DEF InvTipos, TypeOK, TiposPlanificadores, FinEnMapa,
           Pasar
  <2>4. TiposCpus'
    BY <1>4, <2>z DEF InvTipos, TypeOK, TiposCpus, FinEnMapa, Pasar
  <2>5. TiposIO'
    BY <1>4 DEF InvTipos, TypeOK, TiposIO, FinEnMapa, Pasar
  <2>6. Nombran'
    BY <2>a, <2>q, <2>e DEF InvTipos, Nombran, CortoNombra, LargoNombra,
           ManejadorNombra, FinNombra, PCsIO, PCsReanuda
  <2>7. Duenos'
    BY <1>4, <2>q DEF InvTipos, Duenos, CortoEsDueno, ManejadorEsDueno,
           TimerEsDueno, FinEsDueno, FinEnMapa, Pasar
  <2>8. SigueVivo'
    <3>1. \A q \in Pid : mapa[q] # NADA => mapa'[q] # NADA \/ mutexProc[q] = NADA
      BY <1>4, <2>a DEF FinEnMapa, InvTipos, TypeOK, TiposTabla
    <3>2. \A d \in CPUs : manejador'[d].pc = "io_bloquea" => manejador'[d] = manejador[d]
      BY <2>q
    <3> QED
      BY <2>e, <3>1, <3>2, NadaNoEsDueno
         DEF InvTipos, SigueVivo, Duenos, ManejadorEsDueno, TimerEsDueno,
             FinEsDueno, Nombran, ManejadorNombra, FinNombra
  <2> QED
    BY <2>1, <2>2, <2>3, <2>4, <2>5, <2>6, <2>7, <2>8 DEF InvTipos, TypeOK
<1>5. CASE IOTomarLista(c)
  <2>k. manejador[c].pc = "io_lista"
    BY <1>5 DEF En, IOTomarLista, Pasar
  <2>a. manejador[c].pid \in Pid /\ manejador[c].n \in Numero
    BY <1>5 DEF En, InvTipos, Nombran, ManejadorNombra, IOTomarLista, Pasar
  <2>t. manejador \in [CPUs -> RegistroSyscall]
    BY DEF InvTipos, TypeOK, TiposCpus
  <2>e. UNCHANGED <<corto, largo, panico, temporizador, finIO>>
    BY <1>5 DEF IOTomarLista, Pasar
  <2>c. manejador' = [manejador EXCEPT ![c].pc = "io_proceso"]
    BY <1>5 DEF Pasar, IOTomarLista
  <2>z. manejador' \in [CPUs -> RegistroSyscall]
    BY <2>c, <2>t, Reposos DEF PCsSyscall
  <2>1. TiposSincronizacion'
    BY <1>5 DEF InvTipos, TypeOK, TiposSincronizacion, Goroutines,
           IOTomarLista, Pasar
  <2>2. TiposCpus'
    BY <1>5, <2>z DEF InvTipos, TypeOK, TiposCpus, IOTomarLista, Pasar
  <2>3. TiposTabla' /\ TiposPlanificadores' /\ TiposIO'
    BY <1>5 DEF InvTipos, TypeOK, TiposTabla, TiposPlanificadores, TiposIO,
           IOTomarLista, Pasar
  <2>4. Nombran'
    BY <2>a, <2>c, <2>e, <2>k, <2>t DEF InvTipos, Nombran, CortoNombra,
           LargoNombra, ManejadorNombra, FinNombra, PCsIO, PCsReanuda,
           SinSyscall
  <2>5. Duenos'
    BY <1>5, <2>c, <2>t DEF InvTipos, Duenos, CortoEsDueno, ManejadorEsDueno,
           TimerEsDueno, FinEsDueno, SinSyscall, IOTomarLista, Pasar
  <2>6. SigueVivo'
    BY <1>5, <2>c, <2>t DEF InvTipos, SigueVivo, SinSyscall, IOTomarLista,
           Pasar
  <2> QED
    BY <2>1, <2>2, <2>3, <2>4, <2>5, <2>6 DEF InvTipos, TypeOK
<1>6. CASE IODescartar(c)
  <2>k. manejador[c].pc = "io_proceso"
    BY <1>6 DEF En, IODescartar
  <2>a. manejador[c].pid \in Pid /\ manejador[c].n \in Numero
    BY <1>6 DEF En, InvTipos, Nombran, ManejadorNombra, IODescartar
  <2>t. manejador \in [CPUs -> RegistroSyscall]
    BY DEF InvTipos, TypeOK, TiposCpus
  <2>e. UNCHANGED <<corto, largo, panico, temporizador, finIO>>
    BY <1>6 DEF IODescartar
  <2>c. manejador' = [manejador EXCEPT ![c] = SinSyscall]
    BY <1>6 DEF IODescartar
  <2>z. manejador' \in [CPUs -> RegistroSyscall]
    BY <2>c, <2>t, Reposos DEF PCsSyscall
  <2>1. TiposSincronizacion'
    BY <1>6 DEF InvTipos, TypeOK, TiposSincronizacion, IODescartar
  <2>2. TiposCpus'
    BY <1>6, <2>z DEF InvTipos, TypeOK, TiposCpus, IODescartar
  <2>3. TiposTabla' /\ TiposPlanificadores' /\ TiposIO'
    BY <1>6 DEF InvTipos, TypeOK, TiposTabla, TiposPlanificadores, TiposIO,
           IODescartar
  <2>4. Nombran'
    BY <2>a, <2>c, <2>e, <2>k, <2>t DEF InvTipos, Nombran, CortoNombra,
           LargoNombra, ManejadorNombra, FinNombra, PCsIO, PCsReanuda,
           SinSyscall
  <2>5. Duenos'
    BY <1>6, <2>c, <2>t DEF InvTipos, Duenos, CortoEsDueno, ManejadorEsDueno,
           TimerEsDueno, FinEsDueno, SinSyscall, IODescartar
  <2>6. SigueVivo'
    BY <1>6, <2>c, <2>t DEF InvTipos, SigueVivo, SinSyscall, IODescartar
  <2> QED
    BY <2>1, <2>2, <2>3, <2>4, <2>5, <2>6 DEF InvTipos, TypeOK
<1>7. CASE IOInexistente(c)
  <2>k. manejador[c].pc = "io_proceso"
    BY <1>7 DEF En, IOInexistente, Pasar
  <2>a. manejador[c].pid \in Pid /\ manejador[c].n \in Numero
    BY <1>7 DEF En, InvTipos, Nombran, ManejadorNombra, IOInexistente, Pasar
  <2>t. manejador \in [CPUs -> RegistroSyscall]
    BY DEF InvTipos, TypeOK, TiposCpus
  <2>e. UNCHANGED <<corto, largo, panico, temporizador, finIO>>
    BY <1>7 DEF IOInexistente, Pasar
  <2>c. manejador' = [manejador EXCEPT ![c].pc = "fin_memoria"]
    BY <1>7 DEF Pasar, IOInexistente
  <2>z. manejador' \in [CPUs -> RegistroSyscall]
    BY <2>c, <2>t, Reposos DEF PCsSyscall
  <2>1. TiposSincronizacion'
    BY <1>7 DEF InvTipos, TypeOK, TiposSincronizacion, IOInexistente, Pasar
  <2>2. TiposCpus'
    BY <1>7, <2>z DEF InvTipos, TypeOK, TiposCpus, IOInexistente, Pasar
  <2>3. TiposTabla' /\ TiposPlanificadores' /\ TiposIO'
    BY <1>7 DEF InvTipos, TypeOK, TiposTabla, TiposPlanificadores, TiposIO,
           IOInexistente, Pasar
  <2>4. Nombran'
    BY <2>a, <2>c, <2>e, <2>k, <2>t DEF InvTipos, Nombran, CortoNombra,
           LargoNombra, ManejadorNombra, FinNombra, PCsIO, PCsReanuda,
           SinSyscall
  <2>5. Duenos'
    BY <1>7, <2>c, <2>t DEF InvTipos, Duenos, CortoEsDueno, ManejadorEsDueno,
           TimerEsDueno, FinEsDueno, SinSyscall, IOInexistente, Pasar
  <2>6. SigueVivo'
    BY <1>7, <2>c, <2>t DEF InvTipos, SigueVivo, SinSyscall, IOInexistente,
           Pasar
  <2> QED
    BY <2>1, <2>2, <2>3, <2>4, <2>5, <2>6 DEF InvTipos, TypeOK
<1>8. CASE IOSolicitar(c)
  <2>k. manejador[c].pc = "io_proceso"
    BY <1>8 DEF En, IOSolicitar
  <2>a. manejador[c].pid \in Pid /\ manejador[c].n \in Numero
    BY <1>8 DEF En, InvTipos, Nombran, ManejadorNombra, IOSolicitar
  <2>t. manejador \in [CPUs -> RegistroSyscall]
    BY DEF InvTipos, TypeOK, TiposCpus
  <2>e. UNCHANGED <<corto, largo, panico, temporizador, finIO>>
    BY <1>8 DEF IOSolicitar
  <2>c. manejador' = [manejador EXCEPT ![c].pc = "io_bloquea"]
    BY <1>8 DEF Pasar, IOSolicitar
  <2>z. manejador' \in [CPUs -> RegistroSyscall]
    BY <2>c, <2>t, Reposos DEF PCsSyscall
  <2>i. /\ mapa[manejador[c].pid] # NADA /\ manejador[c].io \in NombresIO
        /\ manejador[c].n < MaxSyscalls
    BY <1>8, <2>k DEF EnExecute, InvTipos, Nombran, ManejadorNombra, PCsIO,
           PCsReanuda, IOSolicitar
  <2>r. manejador[c].n \in 0 .. MaxSyscalls - 1
    BY <2>a, <2>i, ConstantesOK DEF Numero
  <2>q. \/ /\ Libres(manejador[c].io) # {}
           /\ enIO' = [enIO EXCEPT ![PrimeraLibre(manejador[c].io)] = manejador[c].pid]
           /\ dispositivo' =
                [dispositivo EXCEPT ![PrimeraLibre(manejador[c].io)] = manejador[c].pid]
           /\ sesiones' = [sesiones EXCEPT ![manejador[c].pid] = @ + 1]
           /\ esperaIO' = esperaIO
        \/ /\ esperaIO' = [esperaIO EXCEPT ![manejador[c].io] =
                                  Append(esperaIO[manejador[c].io], manejador[c].pid)]
           /\ UNCHANGED <<enIO, dispositivo, sesiones>>
    BY <1>8 DEF Solicitar, IOSolicitar
  <2>y. mapa' \in [Pid -> Procesos \cup {NADA}] /\ (\A q \in Pid : mapa[q] # NADA => mapa'[q] # NADA)
    <3>1. mapa[manejador[c].pid] \in Procesos
      BY <2>a, <2>i DEF InvTipos, TypeOK, TiposTabla
    <3>2. [mapa[manejador[c].pid] EXCEPT !.PC = manejador[c].n] \in Procesos
      BY <2>r, <3>1 DEF Procesos
    <3>3. mapa' = [mapa EXCEPT ![manejador[c].pid] = [mapa[manejador[c].pid] EXCEPT !.PC = manejador[c].n]]
      BY <1>8 DEF IOSolicitar
    <3> QED
      BY <3>2, <3>3, NadaOK DEF InvTipos, TypeOK, TiposTabla
  <2>v. \A q \in Pid : mapa[q] # NADA => mapa'[q] # NADA
    BY <2>y
  <2>h. sesiones' \in [Pid -> Nat]
    <3>1. CASE UNCHANGED <<enIO, dispositivo, sesiones>>
      BY <2>q, <2>a, <3>1 DEF InvTipos, TypeOK, TiposTabla
    <3>2. CASE Libres(manejador[c].io) # {} /\ esperaIO' = esperaIO
      BY <2>q, <2>a, <3>2 DEF InvTipos, TypeOK, TiposTabla
    <3> QED
      BY <2>q, <3>1, <3>2
  <2>l. Libres(manejador[c].io) # {} => PrimeraLibre(manejador[c].io) \in Instancias
    <3>1. instanciasIO[manejador[c].io] \in Seq(Instancias)
      BY <2>i DEF InvTipos, TypeOK, TiposIO
    <3>2. /\ Libres(manejador[c].io) \subseteq DOMAIN instanciasIO[manejador[c].io]
          /\ DOMAIN instanciasIO[manejador[c].io] = 1 .. Len(instanciasIO[manejador[c].io])
          /\ Len(instanciasIO[manejador[c].io]) \in Nat
      BY <3>1 DEF Libres
    <3>3. ASSUME Libres(manejador[c].io) # {}
          PROVE  (CHOOSE k \in Libres(manejador[c].io) :
                    \A j \in Libres(manejador[c].io) : k <= j)
                   \in Libres(manejador[c].io)
      <4>1. Libres(manejador[c].io) \subseteq Nat
        BY <3>2
      <4> QED
        BY <3>3, <4>1, MinimoExiste
    <3>4. \A k \in DOMAIN instanciasIO[manejador[c].io] :
            instanciasIO[manejador[c].io][k] \in Instancias
      BY <3>1
    <3> DEFINE k0 == CHOOSE k \in Libres(manejador[c].io) :
                       \A j \in Libres(manejador[c].io) : k <= j
    <3>5. PrimeraLibre(manejador[c].io) = instanciasIO[manejador[c].io][k0]
      BY DEF PrimeraLibre
    <3>6. Libres(manejador[c].io) # {} => k0 \in Libres(manejador[c].io)
      BY <3>3
    <3> HIDE DEF k0
    <3> QED
      BY <3>2, <3>4, <3>5, <3>6
  <2>j. enIO' \in [Instancias -> PidONinguno] /\ dispositivo' \in [Instancias -> PidONinguno]
    <3>1. CASE UNCHANGED <<enIO, dispositivo>>
      BY <3>1, <2>a, <2>l DEF InvTipos, TypeOK, TiposIO, PidONinguno
    <3>2. CASE /\ Libres(manejador[c].io) # {}
               /\ enIO' = [enIO EXCEPT ![PrimeraLibre(manejador[c].io)] = manejador[c].pid]
               /\ dispositivo' =
                    [dispositivo EXCEPT ![PrimeraLibre(manejador[c].io)] = manejador[c].pid]
      BY <3>2, <2>a, <2>l DEF InvTipos, TypeOK, TiposIO, PidONinguno
    <3> QED
      BY <3>1, <3>2, <2>q
  <2>x. esperaIO' \in [NombresIO -> Seq(Pid)]
    <3>1. CASE esperaIO' = esperaIO
      BY <3>1, <2>a, <2>i DEF InvTipos, TypeOK, TiposIO
    <3>2. CASE esperaIO' = [esperaIO EXCEPT ![manejador[c].io] =
                              Append(esperaIO[manejador[c].io], manejador[c].pid)]
      BY <3>2, <2>a, <2>i DEF InvTipos, TypeOK, TiposIO
    <3> QED
      BY <3>1, <3>2, <2>q
  <2>w. UNCHANGED <<finIO, instanciasIO>>
    BY <1>8 DEF IOSolicitar
  <2>s. mutexProc' \in [Pid -> Goroutines \cup {NADA}]
    BY <1>8, <2>a DEF InvTipos, TypeOK, TiposSincronizacion, Goroutines,
           IOSolicitar
  <2>d. /\ mutexProc[manejador[c].pid] = NADA
        /\ mutexProc' \in {mutexProc, [mutexProc EXCEPT ![manejador[c].pid] = GSyscall(c)]}
        /\ mutexProc' = [mutexProc EXCEPT ![manejador[c].pid] = GSyscall(c)]
    BY <1>8 DEF IOSolicitar
  <2>o. /\ manejador'[c].pid = manejador[c].pid
        /\ \A d \in CPUs : d # c => manejador'[d] = manejador[d]
    BY <2>c, <2>t
  <2>1. TiposTabla'
    BY <1>8, <2>y, <2>h DEF InvTipos, TypeOK, TiposTabla, IOSolicitar
  <2>2. TiposSincronizacion'
    BY <1>8, <2>s DEF InvTipos, TypeOK, TiposSincronizacion, IOSolicitar
  <2>3. TiposPlanificadores'
    BY <2>e DEF InvTipos, TypeOK, TiposPlanificadores
  <2>4. TiposCpus'
    BY <1>8, <2>z DEF InvTipos, TypeOK, TiposCpus, IOSolicitar
  <2>5. TiposIO'
    BY <2>j, <2>x, <2>w DEF InvTipos, TypeOK, TiposIO
  <2>6. Nombran'
    BY <2>a, <2>c, <2>e, <2>k, <2>t DEF InvTipos, Nombran, CortoNombra,
           LargoNombra, ManejadorNombra, FinNombra, PCsIO, PCsReanuda,
           SinSyscall
  <2>7. Duenos'
    <3>1. CortoEsDueno' /\ TimerEsDueno' /\ FinEsDueno'
      BY <2>a, <2>d, <2>e, DuenosAlTomar
    <3>2. mutexProc \in [Pid -> Goroutines \cup {NADA}]
      BY DEF InvTipos, TypeOK, TiposSincronizacion
    <3>3. ASSUME NEW j \in CPUs,
                 manejador'[j].pc \in {"io_bloquea", "dump_vuelve"}
          PROVE  mutexProc'[manejador'[j].pid] = GSyscall(j)
      <4>1. CASE j = c
        BY <2>a, <2>d, <2>o, <3>2, <3>3, <4>1
      <4>2. CASE j # c
        <5>1. /\ manejador'[j] = manejador[j] /\ manejador[j].pid \in Pid
              /\ mutexProc[manejador[j].pid] = GSyscall(j)
          BY <2>o, <3>3, <4>2
             DEF InvTipos, Duenos, ManejadorEsDueno, Nombran, ManejadorNombra
        <5>2. manejador[j].pid # manejador[c].pid
          BY <2>d, <5>1, NadaNoEsDueno
        <5> QED
          BY <2>d, <3>2, <5>1, <5>2
      <4> QED
        BY <4>1, <4>2
    <3> QED
      BY <3>1, <3>3 DEF Duenos, ManejadorEsDueno
  <2>8. SigueVivo'
    <3>1. \A d \in CPUs : manejador'[d].pc = "io_bloquea" => mapa'[manejador'[d].pid] # NADA
      <4>1. mapa'[manejador[c].pid] # NADA
        BY <2>a, <2>i, <2>v
      <4> QED
        BY <2>o, <2>v, <4>1 DEF InvTipos, SigueVivo, Nombran, ManejadorNombra
    <3> QED
      BY <2>e, <2>v, <3>1 DEF InvTipos, SigueVivo, Nombran, FinNombra
  <2> QED
    BY <2>1, <2>2, <2>3, <2>4, <2>5, <2>6, <2>7, <2>8 DEF InvTipos, TypeOK
<1>9. CASE IOBloquear(c)
  <2>k. manejador[c].pc = "io_bloquea"
    BY <1>9 DEF En, IOBloquear, Pasar
  <2>a. manejador[c].pid \in Pid /\ manejador[c].n \in Numero
    BY <1>9 DEF En, InvTipos, Nombran, ManejadorNombra, IOBloquear, Pasar
  <2>t. manejador \in [CPUs -> RegistroSyscall]
    BY DEF InvTipos, TypeOK, TiposCpus
  <2>e. UNCHANGED <<corto, largo, panico, finIO>>
    BY <1>9 DEF IOBloquear, Pasar
  <2>c. manejador' = [manejador EXCEPT ![c].pc = "libera"]
    BY <1>9 DEF Pasar, IOBloquear
  <2>z. manejador' \in [CPUs -> RegistroSyscall]
    BY <2>c, <2>t, Reposos DEF PCsSyscall
  <2>g. mutexProc[manejador[c].pid] = GSyscall(c) /\ mapa[manejador[c].pid] # NADA
    BY <2>k DEF InvTipos, Duenos, ManejadorEsDueno, SigueVivo
  <2>d. /\ mutexProc' \in {mutexProc, [mutexProc EXCEPT ![manejador[c].pid] = NADA]}
        /\ mutexProc' = [mutexProc EXCEPT ![manejador[c].pid] = NADA]
    BY <1>9 DEF IOBloquear, Pasar
  <2>o. /\ manejador'[c].pc \notin {"io_bloquea", "dump_vuelve"}
        /\ \A d \in CPUs : d # c => manejador'[d] = manejador[d]
    BY <2>c, <2>t DEF SinSyscall
  <2>n. TiposTabla /\ TiposPlanificadores
    BY DEF InvTipos, TypeOK
  <2>x. cola' \in [Estados -> Seq(Pid)]
    BY <1>9, <2>a, MoverDeEsColas DEF InvTipos, TypeOK, TiposTabla, Estados,
           IOBloquear, Pasar
  <2>m. mapa' = mapa \/ mapa' \in Bloqueado(manejador[c].pid)
    BY <1>9 DEF IOBloquear, Pasar
  <2>y. mapa' \in [Pid -> Procesos \cup {NADA}]
    BY <2>a, <2>g, <2>m, BloqueadoEsTabla DEF InvTipos, TypeOK, TiposTabla
  <2>v. \A q \in Pid : mapa[q] # NADA => mapa'[q] # NADA
    <3>1. CASE mapa' = mapa
      BY <3>1
    <3>2. CASE mapa' \in Bloqueado(manejador[c].pid)
      BY <2>a, <2>g, <3>2, BloqueadoEsTabla DEF InvTipos, TypeOK, TiposTabla
    <3> QED
      BY <2>m, <3>1, <3>2
  <2>h. /\ temporizador' \in [Pid -> [Numero -> RegistroTimer]]
        /\ \A q \in Pid, r \in Numero :
             \/ temporizador'[q][r] = temporizador[q][r]
             \/ temporizador'[q][r].pc = "duerme"
    <3>1. \/ temporizador' = temporizador
          \/ temporizador' = ConTimer(manejador[c].pid, manejador[c].n)
      BY <1>9 DEF IOBloquear
    <3>2. CASE temporizador' = temporizador
      BY <2>n, <3>2 DEF TiposPlanificadores
    <3>3. CASE temporizador' = ConTimer(manejador[c].pid, manejador[c].n)
      BY <2>a, <2>n, <3>3, TimerEmpieza
    <3> QED
      BY <3>1, <3>2, <3>3
  <2>f. \A q \in Pid, r \in Numero :
          temporizador'[q][r].pc \in {"suspende", "mueve"}
          => temporizador'[q][r] = temporizador[q][r]
    BY <2>h
  <2>1. TiposTabla'
    BY <1>9, <2>x, <2>y DEF InvTipos, TypeOK, TiposTabla, IOBloquear, Pasar
  <2>2. TiposSincronizacion'
    BY <1>9 DEF InvTipos, TypeOK, TiposSincronizacion, IOBloquear, Pasar
  <2>3. TiposPlanificadores'
    BY <2>e, <2>h DEF InvTipos, TypeOK, TiposPlanificadores
  <2>4. TiposCpus'
    BY <1>9, <2>z DEF InvTipos, TypeOK, TiposCpus, IOBloquear, Pasar
  <2>5. TiposIO'
    BY <1>9 DEF InvTipos, TypeOK, TiposIO, IOBloquear, Pasar
  <2>6. Nombran'
    BY <2>a, <2>c, <2>e, <2>k, <2>t DEF InvTipos, Nombran, CortoNombra,
           LargoNombra, ManejadorNombra, FinNombra, PCsIO, PCsReanuda,
           SinSyscall
  <2>7. Duenos'
    <3>1. CortoEsDueno' /\ FinEsDueno'
      <4>1. /\ mutexProc[manejador[c].pid] # GCorto
            /\ \A i \in Instancias : mutexProc[manejador[c].pid] # GFinIO(i)
        BY <2>a, <2>g, DuenosDistintos
      <4> QED
        BY <2>a, <2>d, <2>e, <4>1, DuenosAlSoltar
    <3>2. mutexProc \in [Pid -> Goroutines \cup {NADA}]
      BY DEF InvTipos, TypeOK, TiposSincronizacion
    <3>3. TimerEsDueno'
      <4>1. ASSUME NEW q \in Pid, NEW k \in Numero,
                   temporizador'[q][k].pc \in {"suspende", "mueve"}
            PROVE  mutexProc[q] = GTimer(q, k) /\ q # manejador[c].pid
        BY <2>f, <2>a, <2>g, <4>1, DuenosDistintos
           DEF InvTipos, Duenos, TimerEsDueno
      <4> QED
        BY <2>d, <3>2, <4>1 DEF TimerEsDueno
    <3>4. ManejadorEsDueno'
      <4>1. ASSUME NEW j \in CPUs,
                   manejador'[j].pc \in {"io_bloquea", "dump_vuelve"}
            PROVE  /\ manejador'[j] = manejador[j]
                   /\ manejador[j].pid \in Pid
                   /\ manejador[j].pid # manejador[c].pid
                   /\ mutexProc[manejador[j].pid] = GSyscall(j)
        BY <2>g, <2>o, <4>1, DuenosDistintos
           DEF InvTipos, Duenos, ManejadorEsDueno, Nombran, ManejadorNombra
      <4> QED
        BY <2>d, <3>2, <4>1 DEF ManejadorEsDueno
    <3> QED
      BY <3>1, <3>3, <3>4 DEF Duenos
  <2>8. SigueVivo'
    <3>1. \A d \in CPUs : manejador'[d].pc = "io_bloquea" => manejador'[d] = manejador[d]
      BY <2>o
    <3> QED
      BY <2>e, <2>f, <2>v, <3>1 DEF InvTipos, SigueVivo, Nombran, ManejadorNombra, FinNombra
  <2> QED
    BY <2>1, <2>2, <2>3, <2>4, <2>5, <2>6, <2>7, <2>8 DEF InvTipos, TypeOK
<1>10. CASE DumpMirar(c)
  <2>k. manejador[c].pc = "dump_mira"
    BY <1>10 DEF En, DumpMirar
  <2>a. manejador[c].pid \in Pid /\ manejador[c].n \in Numero
    BY <1>10 DEF En, InvTipos, Nombran, ManejadorNombra, DumpMirar
  <2>t. manejador \in [CPUs -> RegistroSyscall]
    BY DEF InvTipos, TypeOK, TiposCpus
  <2>e. UNCHANGED <<corto, largo, panico, temporizador, finIO>>
    BY <1>10 DEF DumpMirar
  <2>c. \/ manejador' = [manejador EXCEPT ![c] = SinSyscall]
        \/ manejador' = [manejador EXCEPT ![c].pc = "dump_bloquea"]
    BY <1>10 DEF DumpMirar
  <2>z. manejador' \in [CPUs -> RegistroSyscall]
    <3>1. CASE manejador' = [manejador EXCEPT ![c] = SinSyscall]
      BY <3>1, <2>t, Reposos DEF PCsSyscall
    <3>2. CASE manejador' = [manejador EXCEPT ![c].pc = "dump_bloquea"]
      BY <3>2, <2>t, Reposos DEF PCsSyscall
    <3> QED
      BY <3>1, <3>2, <2>c
  <2>q. /\ \/ manejador'[c] = SinSyscall
           \/ manejador'[c] = [manejador[c] EXCEPT !.pc = "dump_bloquea"]
        /\ \A d \in CPUs : d # c => manejador'[d] = manejador[d]
    BY <2>c, <2>t
  <2>o. /\ manejador'[c].pc \notin {"io_bloquea", "dump_vuelve"}
        /\ \A d \in CPUs : d # c => manejador'[d] = manejador[d]
    BY <2>q, <2>t DEF SinSyscall
  <2>d. /\ mutexProc[manejador[c].pid] = NADA
        /\ mutexProc' \in {mutexProc, [mutexProc EXCEPT ![manejador[c].pid] = GSyscall(c)]}
    BY <1>10 DEF DumpMirar
  <2>v. mapa' = mapa
    BY <1>10 DEF DumpMirar
  <2>s. mutexProc' \in [Pid -> Goroutines \cup {NADA}]
    BY <2>a, <2>d DEF InvTipos, TypeOK, TiposSincronizacion, Goroutines
  <2>1. TiposSincronizacion'
    BY <1>10, <2>s DEF InvTipos, TypeOK, TiposSincronizacion, DumpMirar
  <2>2. TiposPlanificadores'
    BY <2>e DEF InvTipos, TypeOK, TiposPlanificadores
  <2>3. TiposCpus'
    BY <1>10, <2>z DEF InvTipos, TypeOK, TiposCpus, DumpMirar
  <2>4. TiposTabla' /\ TiposIO'
    BY <1>10 DEF InvTipos, TypeOK, TiposTabla, TiposIO, DumpMirar
  <2>5. Nombran'
    BY <2>a, <2>q, <2>e, <2>k, <2>t DEF InvTipos, Nombran, CortoNombra,
           LargoNombra, ManejadorNombra, FinNombra, PCsIO, PCsReanuda,
           SinSyscall
  <2>6. Duenos'
    <3>1. CortoEsDueno' /\ TimerEsDueno' /\ FinEsDueno'
      BY <2>a, <2>d, <2>e, DuenosAlTomar
    <3>2. mutexProc \in [Pid -> Goroutines \cup {NADA}]
      BY DEF InvTipos, TypeOK, TiposSincronizacion
    <3>3. ASSUME NEW j \in CPUs,
                 manejador'[j].pc \in {"io_bloquea", "dump_vuelve"}
          PROVE  mutexProc'[manejador'[j].pid] = GSyscall(j)
      <4>1. CASE j = c
        BY <2>a, <2>d, <2>o, <3>2, <3>3, <4>1
      <4>2. CASE j # c
        <5>1. /\ manejador'[j] = manejador[j] /\ manejador[j].pid \in Pid
              /\ mutexProc[manejador[j].pid] = GSyscall(j)
          BY <2>o, <3>3, <4>2
             DEF InvTipos, Duenos, ManejadorEsDueno, Nombran, ManejadorNombra
        <5>2. manejador[j].pid # manejador[c].pid
          BY <2>d, <5>1, NadaNoEsDueno
        <5> QED
          BY <2>d, <3>2, <5>1, <5>2
      <4> QED
        BY <4>1, <4>2
    <3> QED
      BY <3>1, <3>3 DEF Duenos, ManejadorEsDueno
  <2>7. SigueVivo'
    <3>1. \A d \in CPUs : manejador'[d].pc = "io_bloquea" => manejador'[d] = manejador[d]
      BY <2>o
    <3> QED
      BY <2>e, <2>v, <3>1 DEF InvTipos, SigueVivo, Nombran, ManejadorNombra, FinNombra
  <2> QED
    BY <2>1, <2>2, <2>3, <2>4, <2>5, <2>6, <2>7 DEF InvTipos, TypeOK
<1>11. CASE DumpBloquear(c)
  <2>k. manejador[c].pc = "dump_bloquea"
    BY <1>11 DEF En, DumpBloquear, Pasar
  <2>a. manejador[c].pid \in Pid /\ manejador[c].n \in Numero
    BY <1>11 DEF En, InvTipos, Nombran, ManejadorNombra, DumpBloquear, Pasar
  <2>t. manejador \in [CPUs -> RegistroSyscall]
    BY DEF InvTipos, TypeOK, TiposCpus
  <2>e. UNCHANGED <<corto, largo, panico, temporizador, finIO>>
    BY <1>11 DEF DumpBloquear, Pasar
  <2>c. \/ manejador' = [manejador EXCEPT ![c].pc = "dump_cambia"]
        \/ manejador' = [manejador EXCEPT ![c].pc = "libera"]
    BY <1>11 DEF Pasar, DumpBloquear
  <2>z. manejador' \in [CPUs -> RegistroSyscall]
    BY <2>c, <2>t DEF PCsSyscall
  <2>q. /\ manejador'[c] \in {[manejador[c] EXCEPT !.pc = "dump_cambia"],
                            [manejador[c] EXCEPT !.pc = "libera"]}
        /\ \A d \in CPUs : d # c => manejador'[d] = manejador[d]
    BY <2>c, <2>t
  <2>v. mapa' = mapa
    BY <1>11 DEF DumpBloquear, Pasar
  <2>x. cola' \in [Estados -> Seq(Pid)]
    BY <1>11, <2>a, MoverDeEsColas DEF InvTipos, TypeOK, TiposTabla, Estados,
           DumpBloquear, Pasar
  <2>1. TiposTabla'
    BY <1>11, <2>x DEF InvTipos, TypeOK, TiposTabla, DumpBloquear, Pasar
  <2>2. TiposPlanificadores'
    BY <2>e DEF InvTipos, TypeOK, TiposPlanificadores
  <2>3. TiposCpus'
    BY <1>11, <2>z DEF InvTipos, TypeOK, TiposCpus, DumpBloquear, Pasar
  <2>4. TiposSincronizacion' /\ TiposIO'
    BY <1>11 DEF InvTipos, TypeOK, TiposSincronizacion, TiposIO, DumpBloquear,
           Pasar
  <2>5. Nombran'
    BY <2>a, <2>q, <2>e, <2>k, <2>t DEF InvTipos, Nombran, CortoNombra,
           LargoNombra, ManejadorNombra, FinNombra, PCsIO, PCsReanuda
  <2>6. Duenos'
    BY <1>11, <2>q DEF InvTipos, Duenos, CortoEsDueno, ManejadorEsDueno,
           TimerEsDueno, FinEsDueno, DumpBloquear, Pasar
  <2>7. SigueVivo'
    BY <2>e, <2>v, <2>q, <2>t DEF InvTipos, SigueVivo, Nombran,
           ManejadorNombra, FinNombra
  <2> QED
    BY <2>1, <2>2, <2>3, <2>4, <2>5, <2>6, <2>7 DEF InvTipos, TypeOK
<1>12. CASE DumpCambiar(c)
  <2>k. manejador[c].pc = "dump_cambia"
    BY <1>12 DEF En, DumpCambiar, Panico, Pasar
  <2>a. manejador[c].pid \in Pid /\ manejador[c].n \in Numero
    BY <1>12 DEF En, InvTipos, Nombran, ManejadorNombra, DumpCambiar, Panico,
           Pasar
  <2>t. manejador \in [CPUs -> RegistroSyscall]
    BY DEF InvTipos, TypeOK, TiposCpus
  <2>e. UNCHANGED <<corto, largo, finIO>>
    BY <1>12 DEF Panico, DumpCambiar, Pasar
  <2>n. TiposTabla /\ TiposPlanificadores
    BY DEF InvTipos, TypeOK
  <2>c. \/ UNCHANGED <<mapa, temporizador, manejador>>
        \/ /\ mapa[manejador[c].pid] # NADA
           /\ mapa' \in Bloqueado(manejador[c].pid)
           /\ temporizador' = ConTimer(manejador[c].pid, manejador[c].n)
           /\ manejador' = [manejador EXCEPT ![c].pc = "dump_toma"]
    BY <1>12 DEF Panico, Pasar, DumpCambiar
  <2>w. UNCHANGED <<cola, pidCounter, sesiones, memoria, emitidas, listaCPUs, libre, ejecuta, mutexProc>>
    BY <1>12 DEF Panico, DumpCambiar, Pasar
  <2>z. manejador' \in [CPUs -> RegistroSyscall]
    BY <2>c, <2>t DEF PCsSyscall
  <2>q. /\ manejador'[c] \in {manejador[c], [manejador[c] EXCEPT !.pc = "dump_toma"]}
        /\ \A d \in CPUs : d # c => manejador'[d] = manejador[d]
    BY <2>c, <2>t
  <2>o. /\ manejador'[c].pc \notin {"io_bloquea", "dump_vuelve"}
        /\ \A d \in CPUs : d # c => manejador'[d] = manejador[d]
    BY <2>q, <2>t, <2>k
  <2>y. /\ mapa' \in [Pid -> Procesos \cup {NADA}]
        /\ \A q \in Pid : mapa[q] # NADA => mapa'[q] # NADA
    <3>1. CASE mapa' = mapa
      BY <2>n, <3>1 DEF TiposTabla
    <3>2. CASE mapa' \in Bloqueado(manejador[c].pid) /\ mapa[manejador[c].pid] # NADA
      BY <2>a, <2>n, <3>2, BloqueadoEsTabla DEF TiposTabla
    <3> QED
      BY <2>c, <3>1, <3>2
  <2>v. \A q \in Pid : mapa[q] # NADA => mapa'[q] # NADA
    BY <2>y
  <2>h. /\ temporizador' \in [Pid -> [Numero -> RegistroTimer]]
        /\ \A q \in Pid, r \in Numero :
             \/ temporizador'[q][r] = temporizador[q][r]
             \/ temporizador'[q][r].pc = "duerme"
    <3>1. \/ temporizador' = temporizador
          \/ temporizador' = ConTimer(manejador[c].pid, manejador[c].n)
      BY <2>c
    <3>2. CASE temporizador' = temporizador
      BY <2>n, <3>2 DEF TiposPlanificadores
    <3>3. CASE temporizador' = ConTimer(manejador[c].pid, manejador[c].n)
      BY <2>a, <2>n, <3>3, TimerEmpieza
    <3> QED
      BY <3>1, <3>2, <3>3
  <2>f. \A q \in Pid, r \in Numero :
          temporizador'[q][r].pc \in {"suspende", "mueve"}
          => temporizador'[q][r] = temporizador[q][r]
    BY <2>h
  <2>1. TiposTabla'
    BY <2>w, <2>y DEF InvTipos, TypeOK, TiposTabla
  <2>2. TiposSincronizacion'
    BY <1>12 DEF InvTipos, TypeOK, TiposSincronizacion, DumpCambiar, Panico,
           Pasar
  <2>3. TiposPlanificadores'
    BY <1>12, <2>e, <2>h DEF InvTipos, TypeOK, TiposPlanificadores,
           DumpCambiar, Panico, Pasar
  <2>4. TiposCpus'
    BY <2>w, <2>z DEF InvTipos, TypeOK, TiposCpus
  <2>5. TiposIO'
    BY <1>12 DEF InvTipos, TypeOK, TiposIO, DumpCambiar, Panico, Pasar
  <2>6. Nombran'
    BY <2>a, <2>q, <2>e, <2>k, <2>t DEF InvTipos, Nombran, CortoNombra,
           LargoNombra, ManejadorNombra, FinNombra, PCsIO, PCsReanuda,
           SinSyscall
  <2>7. Duenos'
    <3>1. \A d \in CPUs : manejador'[d].pc \in {"io_bloquea", "dump_vuelve"}
            => manejador'[d] = manejador[d]
      BY <2>o
    <3> QED
      BY <2>e, <2>f, <2>w, <3>1
         DEF InvTipos, Duenos, CortoEsDueno, ManejadorEsDueno, TimerEsDueno,
             FinEsDueno
  <2>8. SigueVivo'
    <3>1. \A d \in CPUs : manejador'[d].pc = "io_bloquea" => manejador'[d] = manejador[d]
      BY <2>o
    <3> QED
      BY <2>e, <2>f, <2>v, <3>1 DEF InvTipos, SigueVivo, Nombran, ManejadorNombra, FinNombra
  <2> QED
    BY <2>1, <2>2, <2>3, <2>4, <2>5, <2>6, <2>7, <2>8 DEF InvTipos, TypeOK
<1>13. CASE EnviarDump(c)
  <2>k. manejador[c].pc = "dump_toma"
    BY <1>13 DEF En, EnviarDump
  <2>a. manejador[c].pid \in Pid /\ manejador[c].n \in Numero
    BY <1>13 DEF En, InvTipos, Nombran, ManejadorNombra, EnviarDump
  <2>t. manejador \in [CPUs -> RegistroSyscall]
    BY DEF InvTipos, TypeOK, TiposCpus
  <2>e. UNCHANGED <<corto, largo, panico, temporizador, finIO>>
    BY <1>13 DEF EnviarDump
  <2>c. \/ manejador' = [manejador EXCEPT ![c].pc = "dump_vuelve"]
        \/ manejador' = [manejador EXCEPT ![c].pc = "fin_memoria"]
    BY <1>13 DEF Pasar, EnviarDump
  <2>z. manejador' \in [CPUs -> RegistroSyscall]
    BY <2>c, <2>t DEF PCsSyscall
  <2>q. /\ manejador'[c] \in {[manejador[c] EXCEPT !.pc = "dump_vuelve"],
                            [manejador[c] EXCEPT !.pc = "fin_memoria"]}
        /\ \A d \in CPUs : d # c => manejador'[d] = manejador[d]
    BY <2>c, <2>t
  <2>o. /\ manejador'[c].pid = manejador[c].pid
        /\ \A d \in CPUs : d # c => manejador'[d] = manejador[d]
    BY <2>q, <2>t
  <2>d. /\ mutexProc[manejador[c].pid] = NADA
        /\ mutexProc' \in {mutexProc, [mutexProc EXCEPT ![manejador[c].pid] = GSyscall(c)]}
        /\ mutexProc' = [mutexProc EXCEPT ![manejador[c].pid] = GSyscall(c)]
    BY <1>13 DEF EnviarDump
  <2>v. mapa' = mapa
    BY <1>13 DEF EnviarDump
  <2>s. mutexProc' \in [Pid -> Goroutines \cup {NADA}]
    BY <2>a, <2>d DEF InvTipos, TypeOK, TiposSincronizacion, Goroutines
  <2>1. TiposSincronizacion'
    BY <1>13, <2>s DEF InvTipos, TypeOK, TiposSincronizacion, EnviarDump
  <2>2. TiposPlanificadores'
    BY <2>e DEF InvTipos, TypeOK, TiposPlanificadores
  <2>3. TiposCpus'
    BY <1>13, <2>z DEF InvTipos, TypeOK, TiposCpus, EnviarDump
  <2>4. TiposTabla' /\ TiposIO'
    BY <1>13 DEF InvTipos, TypeOK, TiposTabla, TiposIO, EnviarDump
  <2>5. Nombran'
    BY <2>a, <2>q, <2>e, <2>k, <2>t DEF InvTipos, Nombran, CortoNombra,
           LargoNombra, ManejadorNombra, FinNombra, PCsIO, PCsReanuda
  <2>6. Duenos'
    <3>1. CortoEsDueno' /\ TimerEsDueno' /\ FinEsDueno'
      BY <2>a, <2>d, <2>e, DuenosAlTomar
    <3>2. mutexProc \in [Pid -> Goroutines \cup {NADA}]
      BY DEF InvTipos, TypeOK, TiposSincronizacion
    <3>3. ASSUME NEW j \in CPUs,
                 manejador'[j].pc \in {"io_bloquea", "dump_vuelve"}
          PROVE  mutexProc'[manejador'[j].pid] = GSyscall(j)
      <4>1. CASE j = c
        BY <2>a, <2>d, <2>o, <3>2, <3>3, <4>1
      <4>2. CASE j # c
        <5>1. /\ manejador'[j] = manejador[j] /\ manejador[j].pid \in Pid
              /\ mutexProc[manejador[j].pid] = GSyscall(j)
          BY <2>o, <3>3, <4>2
             DEF InvTipos, Duenos, ManejadorEsDueno, Nombran, ManejadorNombra
        <5>2. manejador[j].pid # manejador[c].pid
          BY <2>d, <5>1, NadaNoEsDueno
        <5> QED
          BY <2>d, <3>2, <5>1, <5>2
      <4> QED
        BY <4>1, <4>2
    <3> QED
      BY <3>1, <3>3 DEF Duenos, ManejadorEsDueno
  <2>7. SigueVivo'
    <3>1. \A d \in CPUs : manejador'[d].pc = "io_bloquea" => manejador'[d] = manejador[d]
      BY <2>q, <2>t
    <3> QED
      BY <2>e, <2>v, <3>1 DEF InvTipos, SigueVivo, Nombran, ManejadorNombra, FinNombra
  <2> QED
    BY <2>1, <2>2, <2>3, <2>4, <2>5, <2>6, <2>7 DEF InvTipos, TypeOK
<1>14. CASE DumpVolver(c)
  <2>k. manejador[c].pc = "dump_vuelve"
    BY <1>14 DEF En, DumpVolver
  <2>a. manejador[c].pid \in Pid /\ manejador[c].n \in Numero
    BY <1>14 DEF En, InvTipos, Nombran, ManejadorNombra, DumpVolver
  <2>t. manejador \in [CPUs -> RegistroSyscall]
    BY DEF InvTipos, TypeOK, TiposCpus
  <2>e. UNCHANGED <<corto, largo, panico, temporizador, finIO>>
    BY <1>14 DEF DumpVolver
  <2>c. \/ manejador' = [manejador EXCEPT ![c] = SinSyscall]
        \/ manejador' = [manejador EXCEPT ![c].pc = "libera"]
    BY <1>14 DEF DumpVolver
  <2>z. manejador' \in [CPUs -> RegistroSyscall]
    <3>1. CASE manejador' = [manejador EXCEPT ![c] = SinSyscall]
      BY <3>1, <2>t, Reposos DEF PCsSyscall
    <3>2. CASE manejador' = [manejador EXCEPT ![c].pc = "libera"]
      BY <3>2, <2>t, Reposos DEF PCsSyscall
    <3> QED
      BY <3>1, <3>2, <2>c
  <2>q. /\ \/ manejador'[c] = SinSyscall
           \/ manejador'[c] = [manejador[c] EXCEPT !.pc = "libera"]
        /\ \A d \in CPUs : d # c => manejador'[d] = manejador[d]
    BY <2>c, <2>t
  <2>o. /\ manejador'[c].pc \notin {"io_bloquea", "dump_vuelve"}
        /\ \A d \in CPUs : d # c => manejador'[d] = manejador[d]
    BY <2>q, <2>t DEF SinSyscall
  <2>d. /\ mutexProc' \in {mutexProc, [mutexProc EXCEPT ![manejador[c].pid] = NADA]}
        /\ mutexProc' = [mutexProc EXCEPT ![manejador[c].pid] = NADA]
    BY <1>14 DEF DumpVolver
  <2>g. mutexProc[manejador[c].pid] = GSyscall(c)
    BY <2>k DEF InvTipos, Duenos, ManejadorEsDueno, SigueVivo
  <2>n. manejador[c].n \in 0 .. MaxSyscalls - 1
    <3>1. manejador[c].n < MaxSyscalls
      BY <2>k DEF InvTipos, Nombran, ManejadorNombra, PCsReanuda
    <3> QED
      BY <2>a, <3>1, ConstantesOK DEF Numero
  <2>x. cola' \in [Estados -> Seq(Pid)]
    <3>1. cola' = cola \/ cola' = MoverDe("BLOCKED", "READY", manejador[c].pid)
      BY <1>14 DEF DumpVolver
    <3> QED
      BY <2>a, <3>1, MoverDeEsColas DEF InvTipos, TypeOK, TiposTabla, Estados
  <2>y. /\ mapa' \in [Pid -> Procesos \cup {NADA}]
        /\ \A q \in Pid : mapa[q] # NADA => mapa'[q] # NADA
    <3>1. CASE mapa[manejador[c].pid] = NADA
      BY <1>14, <3>1 DEF DumpVolver, InvTipos, TypeOK, TiposTabla
    <3>2. CASE mapa[manejador[c].pid] # NADA
      <4>1. mapa[manejador[c].pid] \in Procesos
        BY <2>a, <3>2 DEF InvTipos, TypeOK, TiposTabla
      <4>2. PICK e \in {"READY", mapa[manejador[c].pid].estado} :
              mapa' = [mapa EXCEPT ![manejador[c].pid] =
                         [mapa[manejador[c].pid] EXCEPT !.PC = manejador[c].n,
                                                        !.estado = e]]
        BY <1>14, <2>a, <3>2, <4>1 DEF DumpVolver, InvTipos, TypeOK, TiposTabla
      <4>3. [mapa[manejador[c].pid] EXCEPT !.PC = manejador[c].n,
                                           !.estado = e] \in Procesos
        BY <2>n, <4>1 DEF Procesos, Estados
      <4> QED
        BY <4>2, <4>3, NadaOK DEF InvTipos, TypeOK, TiposTabla
    <3> QED
      BY <3>1, <3>2
  <2>v. \A q \in Pid : mapa[q] # NADA => mapa'[q] # NADA
    BY <2>y
  <2>s. mutexProc' \in [Pid -> Goroutines \cup {NADA}]
    BY <2>a, <2>d DEF InvTipos, TypeOK, TiposSincronizacion, Goroutines
  <2>1. TiposTabla'
    BY <1>14, <2>x, <2>y DEF InvTipos, TypeOK, TiposTabla, DumpVolver
  <2>2. TiposSincronizacion'
    BY <1>14, <2>s DEF InvTipos, TypeOK, TiposSincronizacion, DumpVolver
  <2>3. TiposPlanificadores'
    BY <2>e DEF InvTipos, TypeOK, TiposPlanificadores
  <2>4. TiposCpus'
    BY <1>14, <2>z DEF InvTipos, TypeOK, TiposCpus, DumpVolver
  <2>5. TiposIO'
    BY <1>14 DEF InvTipos, TypeOK, TiposIO, DumpVolver
  <2>6. Nombran'
    BY <2>a, <2>q, <2>e, <2>k, <2>t DEF InvTipos, Nombran, CortoNombra,
           LargoNombra, ManejadorNombra, FinNombra, PCsIO, PCsReanuda,
           SinSyscall
  <2>7. Duenos'
    <3>1. CortoEsDueno' /\ FinEsDueno'
      <4>1. /\ mutexProc[manejador[c].pid] # GCorto
            /\ \A i \in Instancias : mutexProc[manejador[c].pid] # GFinIO(i)
        BY <2>a, <2>g, DuenosDistintos
      <4> QED
        BY <2>a, <2>d, <2>e, <4>1, DuenosAlSoltar
    <3>2. mutexProc \in [Pid -> Goroutines \cup {NADA}]
      BY DEF InvTipos, TypeOK, TiposSincronizacion
    <3>3. TimerEsDueno'
      <4>1. ASSUME NEW q \in Pid, NEW k \in Numero,
                   temporizador'[q][k].pc \in {"suspende", "mueve"}
            PROVE  mutexProc[q] = GTimer(q, k) /\ q # manejador[c].pid
        BY <2>e, <2>a, <2>g, <4>1, DuenosDistintos
           DEF InvTipos, Duenos, TimerEsDueno
      <4> QED
        BY <2>d, <3>2, <4>1 DEF TimerEsDueno
    <3>4. ManejadorEsDueno'
      <4>1. ASSUME NEW j \in CPUs,
                   manejador'[j].pc \in {"io_bloquea", "dump_vuelve"}
            PROVE  /\ manejador'[j] = manejador[j]
                   /\ manejador[j].pid \in Pid
                   /\ manejador[j].pid # manejador[c].pid
                   /\ mutexProc[manejador[j].pid] = GSyscall(j)
        BY <2>g, <2>o, <4>1, DuenosDistintos
           DEF InvTipos, Duenos, ManejadorEsDueno, Nombran, ManejadorNombra
      <4> QED
        BY <2>d, <3>2, <4>1 DEF ManejadorEsDueno
    <3> QED
      BY <3>1, <3>3, <3>4 DEF Duenos
  <2>8. SigueVivo'
    <3>1. \A d \in CPUs : manejador'[d].pc = "io_bloquea" => manejador'[d] = manejador[d]
      BY <2>o
    <3> QED
      BY <2>e, <2>v, <3>1 DEF InvTipos, SigueVivo, Nombran, ManejadorNombra, FinNombra
  <2> QED
    BY <2>1, <2>2, <2>3, <2>4, <2>5, <2>6, <2>7, <2>8 DEF InvTipos, TypeOK
<1>15. CASE InitCrear(c)
  <2>k. manejador[c].pc = "init_crea"
    BY <1>15 DEF En, InitCrear
  <2>a. manejador[c].pid \in Pid /\ manejador[c].n \in Numero
    BY <1>15 DEF En, InvTipos, Nombran, ManejadorNombra, InitCrear
  <2>t. manejador \in [CPUs -> RegistroSyscall]
    BY DEF InvTipos, TypeOK, TiposCpus
  <2>e. UNCHANGED <<corto, largo, panico, temporizador, finIO>>
    BY <1>15 DEF InitCrear
  <2>c. manejador' =
          [manejador EXCEPT ![c] = [manejador[c] EXCEPT !.pc = "init_new",
                                                       !.nuevo = pidCounter]]
    BY <1>15, <2>t DEF InitCrear
  <2>r. pidCounter \in Pid /\ pidCounter' \in 1 .. MaxPids
    BY <1>15, ConstantesOK DEF Pid, InvTipos, TypeOK, TiposTabla, InitCrear
  <2>z. manejador' \in [CPUs -> RegistroSyscall]
    BY <2>c, <2>t, <2>r DEF PCsSyscall, PidONinguno
  <2>q. /\ manejador'[c].pc = "init_new" /\ manejador'[c].nuevo = pidCounter
        /\ manejador'[c].pid = manejador[c].pid /\ manejador'[c].n = manejador[c].n
        /\ \A d \in CPUs : d # c => manejador'[d] = manejador[d]
    BY <2>c, <2>t
  <2>y. /\ mapa' \in [Pid -> Procesos \cup {NADA}]
        /\ \A q \in Pid : mapa[q] # NADA => mapa'[q] # NADA
    <3>1. PICK t \in Tamanios :
            mapa' = [mapa EXCEPT ![pidCounter] = ProcesoNuevo(t)]
      BY <1>15 DEF InitCrear
    <3>2. ProcesoNuevo(t) \in Procesos
      BY CeroEsPC, ConstantesOK DEF ProcesoNuevo, Procesos, Estados
    <3> QED
      BY <2>r, <3>1, <3>2, NadaOK DEF InvTipos, TypeOK, TiposTabla
  <2>v. \A q \in Pid : mapa[q] # NADA => mapa'[q] # NADA
    BY <2>y
  <2>1. TiposTabla'
    BY <1>15, <2>y, <2>r DEF InvTipos, TypeOK, TiposTabla, InitCrear
  <2>2. TiposPlanificadores'
    BY <2>e DEF InvTipos, TypeOK, TiposPlanificadores
  <2>3. TiposCpus'
    BY <1>15, <2>z DEF InvTipos, TypeOK, TiposCpus, InitCrear
  <2>4. TiposSincronizacion' /\ TiposIO'
    BY <1>15 DEF InvTipos, TypeOK, TiposSincronizacion, TiposIO, InitCrear
  <2>5. Nombran'
    BY <2>a, <2>q, <2>e, <2>k, <2>t, <2>r DEF InvTipos, Nombran, CortoNombra,
           LargoNombra, ManejadorNombra, FinNombra, PCsIO, PCsReanuda
  <2>6. Duenos'
    BY <1>15, <2>q DEF InvTipos, Duenos, CortoEsDueno, ManejadorEsDueno,
           TimerEsDueno, FinEsDueno, InitCrear
  <2>7. SigueVivo'
    <3>1. \A d \in CPUs : manejador'[d].pc = "io_bloquea" => manejador'[d] = manejador[d]
      BY <2>q, <2>t
    <3> QED
      BY <2>e, <2>v, <3>1 DEF InvTipos, SigueVivo, Nombran, ManejadorNombra, FinNombra
  <2> QED
    BY <2>1, <2>2, <2>3, <2>4, <2>5, <2>6, <2>7 DEF InvTipos, TypeOK
<1>16. CASE InitAgregarNew(c)
  <2>k. manejador[c].pc = "init_new"
    BY <1>16 DEF En, InitAgregarNew, Pasar
  <2>a. manejador[c].pid \in Pid /\ manejador[c].n \in Numero
    BY <1>16 DEF En, InvTipos, Nombran, ManejadorNombra, InitAgregarNew, Pasar
  <2>t. manejador \in [CPUs -> RegistroSyscall]
    BY DEF InvTipos, TypeOK, TiposCpus
  <2>e. UNCHANGED <<corto, largo, panico, temporizador, finIO>>
    BY <1>16 DEF InitAgregarNew, Pasar
  <2>c. manejador' = [manejador EXCEPT ![c].pc = "init_reenvia"]
    BY <1>16 DEF Pasar, InitAgregarNew
  <2>z. manejador' \in [CPUs -> RegistroSyscall]
    BY <2>c, <2>t, Reposos DEF PCsSyscall
  <2>x. cola' \in [Estados -> Seq(Pid)]
    <3>1. PICK s \in NewCon(manejador[c].nuevo) : cola' = [cola EXCEPT !["NEW"] = s]
      BY <1>16 DEF InitAgregarNew
    <3>2. manejador[c].nuevo \in Pid
      BY <2>k DEF InvTipos, Nombran, ManejadorNombra
    <3> QED
      BY <3>1, <3>2, NewConSonColas DEF InvTipos, TypeOK, TiposTabla, Estados
  <2>1. TiposTabla'
    BY <1>16, <2>x DEF InvTipos, TypeOK, TiposTabla, InitAgregarNew, Pasar
  <2>2. TiposSincronizacion'
    BY <1>16 DEF InvTipos, TypeOK, TiposSincronizacion, InitAgregarNew, Pasar
  <2>3. TiposPlanificadores'
    BY <2>e DEF InvTipos, TypeOK, TiposPlanificadores
  <2>4. TiposCpus'
    BY <1>16, <2>z DEF InvTipos, TypeOK, TiposCpus, InitAgregarNew, Pasar
  <2>5. TiposIO'
    BY <1>16 DEF InvTipos, TypeOK, TiposIO, InitAgregarNew, Pasar
  <2>6. Nombran'
    BY <2>a, <2>c, <2>e, <2>k, <2>t DEF InvTipos, Nombran, CortoNombra,
           LargoNombra, ManejadorNombra, FinNombra, PCsIO, PCsReanuda,
           SinSyscall
  <2>7. Duenos'
    BY <1>16, <2>c, <2>t DEF InvTipos, Duenos, CortoEsDueno, ManejadorEsDueno,
           TimerEsDueno, FinEsDueno, SinSyscall, InitAgregarNew, Pasar
  <2>8. SigueVivo'
    BY <1>16, <2>c, <2>t DEF InvTipos, SigueVivo, SinSyscall, InitAgregarNew,
           Pasar
  <2> QED
    BY <2>1, <2>2, <2>3, <2>4, <2>5, <2>6, <2>7, <2>8 DEF InvTipos, TypeOK
<1>17. CASE InitReenviar(c)
  <2>k. manejador[c].pc = "init_reenvia"
    BY <1>17 DEF En, InitReenviar
  <2>a. manejador[c].pid \in Pid /\ manejador[c].n \in Numero
    BY <1>17 DEF En, InvTipos, Nombran, ManejadorNombra, InitReenviar
  <2>t. manejador \in [CPUs -> RegistroSyscall]
    BY DEF InvTipos, TypeOK, TiposCpus
  <2>e. UNCHANGED <<corto, largo, panico, temporizador, finIO>>
    BY <1>17 DEF InitReenviar
  <2>c. manejador' = [manejador EXCEPT ![c] = SinSyscall]
    BY <1>17 DEF InitReenviar
  <2>z. manejador' \in [CPUs -> RegistroSyscall]
    BY <2>c, <2>t, Reposos DEF PCsSyscall
  <2>n. manejador[c].n \in 0 .. MaxSyscalls - 1
    <3>1. manejador[c].n < MaxSyscalls
      BY <2>k DEF InvTipos, Nombran, ManejadorNombra, PCsReanuda
    <3> QED
      BY <2>a, <3>1, ConstantesOK DEF Numero
  <2>j. ejecuta' \in [CPUs -> [pid : PidONinguno, PC : 0 .. MaxSyscalls - 1]]
    BY <1>17, <2>a, <2>n DEF InvTipos, TypeOK, TiposCpus, PidONinguno,
           InitReenviar
  <2>1. TiposPlanificadores'
    BY <2>e DEF InvTipos, TypeOK, TiposPlanificadores
  <2>2. TiposCpus'
    BY <1>17, <2>z, <2>j DEF InvTipos, TypeOK, TiposCpus, InitReenviar
  <2>3. TiposTabla' /\ TiposSincronizacion' /\ TiposIO'
    BY <1>17 DEF InvTipos, TypeOK, TiposTabla, TiposSincronizacion, TiposIO,
           InitReenviar
  <2>4. Nombran'
    BY <2>a, <2>c, <2>e, <2>k, <2>t DEF InvTipos, Nombran, CortoNombra,
           LargoNombra, ManejadorNombra, FinNombra, PCsIO, PCsReanuda,
           SinSyscall
  <2>5. Duenos'
    BY <1>17, <2>c, <2>t DEF InvTipos, Duenos, CortoEsDueno, ManejadorEsDueno,
           TimerEsDueno, FinEsDueno, SinSyscall, InitReenviar
  <2>6. SigueVivo'
    BY <1>17, <2>c, <2>t DEF InvTipos, SigueVivo, SinSyscall, InitReenviar
  <2> QED
    BY <2>1, <2>2, <2>3, <2>4, <2>5, <2>6 DEF InvTipos, TypeOK
<1> QED
  BY <1>1, <1>2, <1>3, <1>3a, <1>4, <1>5, <1>6, <1>7, <1>8, <1>9, <1>10, <1>11,
     <1>12, <1>13, <1>14, <1>15, <1>16, <1>17 DEF PasoSyscall

---------------------------------------------------------------------------
(* The modules around the kernel. *)

\* A CPU that connects or issues a syscall keeps InvTipos.
LEMMA PasoCPUInv ==
  ASSUME InvTipos, NEW c \in CPUs, HandshakeCPU(c) \/ EmitirSyscall(c)
  PROVE  InvTipos'
<1>1. CASE HandshakeCPU(c)
  <2>e. UNCHANGED <<corto, largo, panico, temporizador, finIO, mutexProc>>
    BY <1>1 DEF HandshakeCPU
  <2>j. listaCPUs' \in Seq(CPUs)
    BY <1>1 DEF InvTipos, TypeOK, TiposCpus, HandshakeCPU
  <2>1. TiposSincronizacion'
    BY <1>1 DEF InvTipos, TypeOK, TiposSincronizacion, HandshakeCPU
  <2>2. TiposPlanificadores'
    BY <2>e DEF InvTipos, TypeOK, TiposPlanificadores
  <2>3. TiposCpus'
    BY <1>1, <2>j DEF InvTipos, TypeOK, TiposCpus, HandshakeCPU
  <2>4. TiposTabla' /\ TiposIO'
    BY <1>1 DEF InvTipos, TypeOK, TiposTabla, TiposIO, HandshakeCPU
  <2>5. Nombran'
    BY <1>1 DEF InvTipos, Nombran, CortoNombra, LargoNombra, ManejadorNombra,
           FinNombra, HandshakeCPU
  <2>6. Duenos'
    BY <1>1 DEF InvTipos, Duenos, CortoEsDueno, ManejadorEsDueno,
           TimerEsDueno, FinEsDueno, HandshakeCPU
  <2>7. SigueVivo'
    BY <1>1 DEF InvTipos, SigueVivo, HandshakeCPU
  <2> QED
    BY <2>1, <2>2, <2>3, <2>4, <2>5, <2>6, <2>7 DEF InvTipos, TypeOK
<1>2. CASE EmitirSyscall(c)
  <2>e. UNCHANGED <<corto, largo, panico, temporizador, finIO, mutexProc>>
    BY <1>2 DEF EmitirSyscall
  <2>v. mapa' = mapa
    BY <1>2 DEF EmitirSyscall
  <2>t. manejador \in [CPUs -> RegistroSyscall]
    BY DEF InvTipos, TypeOK, TiposCpus
  <2>a. /\ ejecuta[c].pid \in Pid /\ ejecuta[c].PC \in 0 .. MaxSyscalls - 1
        /\ ejecuta[c].PC + 1 \in Numero /\ ejecuta[c].PC + 1 \in 0 .. MaxSyscalls
    BY <1>2, ConstantesOK DEF Numero, PidONinguno, InvTipos, TypeOK,
           TiposCpus, EmitirSyscall
  <2>p. \E op \in Syscalls :
          \E io \in IF op = "IO" THEN NombresIO ELSE {NADA} :
            /\ op = "EXIT" \/ ejecuta[c].PC + 1 < MaxSyscalls
            /\ manejador' = [manejador EXCEPT ![c] =
                 [pc |-> Entrada[op], op |-> op, pid |-> ejecuta[c].pid,
                  n |-> ejecuta[c].PC + 1, io |-> io, nuevo |-> NINGUNO]]
    <3>1. PICK op \in Programa[ejecuta[c].pid][ejecuta[c].PC + 1] :
            \E io \in IF op = "IO" THEN NombresIO ELSE {NADA} :
              manejador' = [manejador EXCEPT ![c] =
                [pc |-> Entrada[op], op |-> op, pid |-> ejecuta[c].pid,
                 n |-> ejecuta[c].PC + 1, io |-> io, nuevo |-> NINGUNO]]
      BY <1>2 DEF EmitirSyscall
    <3>2. op \in Syscalls
      BY <2>a, ConstantesOK
    <3>3. op = "EXIT" \/ ejecuta[c].PC + 1 < MaxSyscalls
      <4>1. CASE ejecuta[c].PC + 1 = MaxSyscalls
        BY <2>a, <4>1, ConstantesOK
      <4>2. CASE ejecuta[c].PC + 1 # MaxSyscalls
        BY <2>a, <4>2, ConstantesOK DEF Numero
      <4> QED
        BY <4>1, <4>2
    <3> QED
      BY <3>1, <3>2, <3>3
  <2>q. /\ manejador'[c].pid \in Pid /\ manejador'[c].n \in Numero
        /\ manejador'[c].op \in Syscalls /\ manejador'[c].pc = Entrada[manejador'[c].op]
        /\ manejador'[c].op # "EXIT" => manejador'[c].n < MaxSyscalls
        /\ manejador'[c].op = "IO" => manejador'[c].io \in NombresIO
        /\ \A d \in CPUs : d # c => manejador'[d] = manejador[d]
    BY <2>a, <2>p, <2>t
  <2>i. manejador'[c].op \in {"IO", "EXIT", "DUMP", "INIT"}
    BY <2>q DEF Syscalls
  <2>z. manejador' \in [CPUs -> RegistroSyscall]
    <3>1. PICK op \in Syscalls, io \in NombresIO \cup {NADA} :
            manejador' = [manejador EXCEPT ![c] =
              [pc |-> Entrada[op], op |-> op, pid |-> ejecuta[c].pid,
               n |-> ejecuta[c].PC + 1, io |-> io, nuevo |-> NINGUNO]]
      BY <2>p
    <3>2. Entrada[op] \in PCsSyscall
      BY DEF Entrada, PCsSyscall, Syscalls
    <3> QED
      BY <2>a, <2>t, <3>1, <3>2 DEF PidONinguno
  <2>1. TiposTabla'
    BY <1>2, <2>a DEF InvTipos, TypeOK, TiposTabla, EmitirSyscall
  <2>2. TiposPlanificadores'
    BY <2>e DEF InvTipos, TypeOK, TiposPlanificadores
  <2>3. TiposCpus'
    BY <1>2, <2>z, Reposos DEF InvTipos, TypeOK, TiposCpus, EmitirSyscall
  <2>4. TiposSincronizacion' /\ TiposIO'
    BY <1>2 DEF InvTipos, TypeOK, TiposSincronizacion, TiposIO, EmitirSyscall
  <2>5. Nombran'
    BY <2>a, <2>q, <2>e, <2>i DEF InvTipos, Nombran, CortoNombra, LargoNombra,
           ManejadorNombra, FinNombra, PCsIO, PCsReanuda, Entrada
  <2>6. Duenos'
    BY <2>e, <2>q, <2>i DEF InvTipos, Duenos, CortoEsDueno, ManejadorEsDueno,
           TimerEsDueno, FinEsDueno, Entrada
  <2>7. SigueVivo'
    <3>1. \A d \in CPUs : manejador'[d].pc = "io_bloquea" => manejador'[d] = manejador[d]
      BY <2>q, <2>i DEF Entrada
    <3> QED
      BY <2>e, <2>v, <3>1
         DEF InvTipos, SigueVivo, Nombran, ManejadorNombra, FinNombra
  <2> QED
    BY <2>1, <2>2, <2>3, <2>4, <2>5, <2>6, <2>7 DEF InvTipos, TypeOK
<1> QED
  BY <1>1, <1>2

\* A device that connects or wakes up keeps InvTipos.
LEMMA PasoDispositivoInv ==
  ASSUME InvTipos, NEW i \in Instancias, HandshakeIO(i) \/ TerminarIO(i)
  PROVE  InvTipos'
<1>1. CASE HandshakeIO(i)
  <2>e. UNCHANGED <<corto, largo, panico, temporizador, finIO, mutexProc>>
    BY <1>1 DEF HandshakeIO
  <2>c. instanciasIO' =
          [instanciasIO EXCEPT ![NombreIO[i]] = Append(instanciasIO[NombreIO[i]], i)]
    BY <1>1 DEF HandshakeIO
  <2>n. NombreIO[i] \in NombresIO
    BY ConstantesOK
  <2>s. instanciasIO \in [NombresIO -> Seq(Instancias)]
    BY DEF InvTipos, TypeOK, TiposIO
  <2>a. Append(instanciasIO[NombreIO[i]], i) \in Seq(Instancias)
    BY <2>n, <2>s
  <2>j. instanciasIO' \in [NombresIO -> Seq(Instancias)]
    BY <2>a, <2>c, <2>n, <2>s
  <2>1. TiposPlanificadores'
    BY <2>e DEF InvTipos, TypeOK, TiposPlanificadores
  <2>2. TiposIO'
    BY <1>1, <2>j DEF InvTipos, TypeOK, TiposIO, PidONinguno, HandshakeIO
  <2>3. TiposTabla' /\ TiposSincronizacion' /\ TiposCpus'
    BY <1>1 DEF InvTipos, TypeOK, TiposTabla, TiposSincronizacion, TiposCpus,
           HandshakeIO
  <2>4. Nombran'
    BY <1>1 DEF InvTipos, Nombran, CortoNombra, LargoNombra, ManejadorNombra,
           FinNombra, HandshakeIO
  <2>5. Duenos'
    BY <1>1 DEF InvTipos, Duenos, CortoEsDueno, ManejadorEsDueno,
           TimerEsDueno, FinEsDueno, HandshakeIO
  <2>6. SigueVivo'
    BY <1>1 DEF InvTipos, SigueVivo, HandshakeIO
  <2> QED
    BY <2>1, <2>2, <2>3, <2>4, <2>5, <2>6 DEF InvTipos, TypeOK
<1>2. CASE TerminarIO(i)
  <2>e. UNCHANGED <<corto, largo, panico, temporizador, mutexProc>>
    BY <1>2 DEF TerminarIO
  <2>m. manejador' = manejador
    BY <1>2 DEF TerminarIO
  <2>v. mapa' = mapa
    BY <1>2 DEF TerminarIO
  <2>t. finIO \in [Instancias -> RegistroFin]
    BY DEF InvTipos, TypeOK, TiposIO
  <2>a. dispositivo[i] \in Pid
    BY <1>2 DEF InvTipos, TypeOK, TiposIO, PidONinguno, TerminarIO
  <2>z. finIO' \in [Instancias -> RegistroFin]
    BY <1>2, <2>a, <2>t DEF PidONinguno, TerminarIO
  <2>q. /\ finIO'[i].pc = "lista" /\ finIO'[i].pid \in Pid
        /\ \A j \in Instancias : j # i => finIO'[j] = finIO[j]
    BY <1>2, <2>a, <2>t DEF TerminarIO
  <2>1. TiposPlanificadores'
    BY <2>e DEF InvTipos, TypeOK, TiposPlanificadores
  <2>2. TiposIO'
    BY <1>2, <2>z DEF InvTipos, TypeOK, TiposIO, PidONinguno, TerminarIO
  <2>3. TiposTabla' /\ TiposSincronizacion' /\ TiposCpus'
    BY <1>2 DEF InvTipos, TypeOK, TiposTabla, TiposSincronizacion, TiposCpus,
           TerminarIO
  <2>4. Nombran'
    BY <2>q, <2>e, <2>m DEF InvTipos, Nombran, CortoNombra, LargoNombra,
           ManejadorNombra, FinNombra
  <2>5. Duenos'
    BY <2>q, <2>e, <2>m DEF InvTipos, Duenos, CortoEsDueno, ManejadorEsDueno,
           TimerEsDueno, FinEsDueno
  <2>6. SigueVivo'
    BY <2>q, <2>e, <2>m, <2>v DEF InvTipos, SigueVivo
  <2> QED
    BY <2>1, <2>2, <2>3, <2>4, <2>5, <2>6 DEF InvTipos, TypeOK
<1> QED
  BY <1>1, <1>2

\* The signal at the end of LiberarCPU keeps InvTipos.
LEMMA AvisarCpuLibreInv ==
  ASSUME InvTipos, AvisarCpuLibre
  PROVE  InvTipos'
<1>1. CASE AvisarCpuLibre
  <2>1. TiposSincronizacion'
    BY <1>1 DEF InvTipos, TypeOK, TiposSincronizacion, AvisarCpuLibre
  <2>2. TiposTabla' /\ TiposPlanificadores' /\ TiposCpus' /\ TiposIO'
    BY <1>1 DEF InvTipos, TypeOK, TiposTabla, TiposPlanificadores, TiposCpus,
           TiposIO, AvisarCpuLibre
  <2>3. Nombran'
    BY <1>1 DEF InvTipos, Nombran, CortoNombra, LargoNombra, ManejadorNombra,
           FinNombra, AvisarCpuLibre
  <2>4. Duenos'
    BY <1>1 DEF InvTipos, Duenos, CortoEsDueno, ManejadorEsDueno,
           TimerEsDueno, FinEsDueno, AvisarCpuLibre
  <2>5. SigueVivo'
    BY <1>1 DEF InvTipos, SigueVivo, AvisarCpuLibre
  <2> QED
    BY <2>1, <2>2, <2>3, <2>4, <2>5 DEF InvTipos, TypeOK
<1> QED
  BY <1>1
---------------------------------------------------------------------------
(* The theorem. *)

\* No step of anybody breaks InvTipos.
LEMMA PasoInvTipos == ASSUME InvTipos, [Next]_vars PROVE InvTipos'
<1>1. CASE PasoCorto
  BY <1>1, PasoCortoInv
<1>2. CASE PasoLargo
  BY <1>2, PasoLargoInv
<1>3. CASE AvisarCpuLibre
  BY <1>3, AvisarCpuLibreInv
<1>4. CASE \E p \in Pid, n \in Numero : PasoTimer(p, n)
  BY <1>4, PasoTimerInv
<1>5. CASE \E c \in CPUs : PasoSyscall(c)
  BY <1>5, PasoSyscallInv
<1>6. CASE \E i \in Instancias : PasoFinIO(i)
  BY <1>6, PasoFinIOInv
<1>7. CASE PasoEntorno
  BY <1>7, PasoCPUInv, PasoDispositivoInv DEF PasoEntorno
<1>8. CASE UNCHANGED vars
  <2> USE <1>8 DEF vars
  <2>1. TypeOK'
    BY DEF InvTipos, TypeOK, TiposTabla, TiposSincronizacion,
           TiposPlanificadores, TiposCpus, TiposIO
  <2>2. Nombran'
    BY DEF InvTipos, Nombran, CortoNombra, LargoNombra, ManejadorNombra,
           FinNombra
  <2>3. Duenos' /\ SigueVivo'
    BY DEF InvTipos, Duenos, CortoEsDueno, ManejadorEsDueno, TimerEsDueno,
           FinEsDueno, SigueVivo
  <2> QED
    BY <2>1, <2>2, <2>3 DEF InvTipos
<1> QED
  BY <1>1, <1>2, <1>3, <1>4, <1>5, <1>6, <1>7, <1>8
     DEF Next, PasoKernel, Reposo

\* InvTipos holds of every reachable state, whatever the processes, programs,
\* CPUs and devices: each goroutine works on a process that exists and holds
\* the mutex of its critical section.
THEOREM InvTiposSiempre == Spec => []InvTipos
<1>1. Init => InvTipos
  BY InicioInv
<1>2. InvTipos /\ [Next]_vars => InvTipos'
  BY PasoInvTipos
<1> QED
  BY <1>1, <1>2, PTL DEF Spec

\* Every variable keeps its type; in particular a program never resumes past
\* its EXIT (the PCs of MapaProcesos and of the CPUs).
THEOREM TipoCorrecto == Spec => []TypeOK
<1>1. InvTipos => TypeOK
  BY DEF InvTipos
<1> QED
  BY <1>1, InvTiposSiempre, PTL

\* Each critical section of ProcesosMutex[pid] (dispatch, block, suspension,
\* end of IO, dump) is entered by one goroutine at a time, and the process it
\* looked up in MapaProcesos is there to the end.
THEOREM SeccionesRespetadas == Spec => []SeccionesCriticas
<1>1. InvTipos => SeccionesCriticas
  BY DEF InvTipos, SeccionesCriticas
<1> QED
  BY <1>1, InvTiposSiempre, PTL
===========================================================================
