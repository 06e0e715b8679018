----------------------------- MODULE PruebasSRT -----------------------------
(***************************************************************************)
(* What is proved of the SRT planner, for every regime, program and        *)
(* estimate.                                                               *)
(*                                                                         *)
(* AvisoPendiente, of a planner that waits alone, is not inductive:        *)
(* InvAviso says what is true in the middle of a round.  Only "mira" and   *)
(* "elige" may have work to do that nobody announces; a round that goes on *)
(* has a process in READY, since no other goroutine takes one out, so that *)
(* the process it puts back there adds no work that was not there.         *)
(*                                                                         *)
(* TiposSRT is part of InvFormas: the queues hold a process once, and what *)
(* the planner carries from step to step is of the kind each step needs.   *)
(*                                                                         *)
(* SinPanicoSRT and ProgramaEnOrden are of a kernel that is Puntual, and   *)
(* follow from InvPuntual: for each process, the place it is in and the PC *)
(* it has there; for each CPU, the process the kernel has it with, and the *)
(* one handler or the one round that is about to take it away.             *)
(*                                                                         *)
(* NadieMasCorto follows from InvCorto: while nothing is announced, whom   *)
(* the planner has chosen is still the shortest.                           *)
(***************************************************************************)
EXTENDS PropiedadesSRT, SequenceTheorems, FiniteSetTheorems, WellFoundedInduction, TLAPS

\* There is work: a process in READY and a CPU for it.
HayTrabajo == ready # <<>> /\ HayLibre

Anunciado == aviso > 0 \/ porAvisar > 0

\* The steps of a round that has found a process in READY; of those, the ones
\* that have chosen it, and the ones that have found the CPU to take from another.
ConCPU ==
  {"mira_exec", "interrumpe", "respuesta", "actualiza", "desaloja", "desaloja_estado"}
ConPid == ConCPU \cup {"envia", "a_execute"}
ConReady == ConPid \cup {"elige", "compara", "busca"}

Estados == {"NEW", "READY", "EXECUTE", "BLOCKED"}

Procesos == [estado : Estados, PC : Int, est : Estimaciones]

Pcb == [pid : Pids, PC : Int]

TiposColas ==
  /\ regimen \in Regimenes
  /\ mapa \in [Pids -> Procesos \cup {NADA}]
  /\ ready \in Seq(Pids) /\ execute \in Seq(Pids)
  /\ aviso \in Nat /\ porAvisar \in Nat
  /\ libre \in [CPUs -> BOOLEAN]

TiposRonda ==
  /\ {"pc", "cpu", "exec", "pid", "PC"} \subseteq DOMAIN srt /\ srt.PC \in Int
  /\ srt.pc \in ConPid => srt.pid \in Pids
  /\ srt.pc \in ConCPU => srt.cpu \in CPUs

TipoCPU(m) ==
  /\ {"pc", "pid", "PC", "cola", "pcInt", "resp"} \subseteq DOMAIN m
  /\ m.PC \in Int /\ m.pcInt \in Int /\ m.resp \in Int /\ m.cola \in Seq(Pcb)
  /\ m.pc # "libre" => m.pid \in Pids

TiposCPUs == DOMAIN cpu = CPUs /\ \A c \in CPUs : TipoCPU(cpu[c])

TipoManejador(h) ==
  /\ {"pc", "pid", "cpu", "PC"} \subseteq DOMAIN h
  /\ h.pid \in Pids /\ h.cpu \in CPUs /\ h.PC \in Int

TiposManejadores == \A h \in manejadores : TipoManejador(h)

TiposAviso == TiposColas /\ TiposRonda /\ TiposCPUs /\ TiposManejadores

RondaConTrabajo ==
  /\ srt.pc \in ConReady => ready # <<>>
  /\ srt.pc = "elige" => HayLibre

TrabajoAnunciado ==
  UnaCPU /\ HayTrabajo => Anunciado \/ srt.pc \in {"mira", "elige"}

InvAviso == TiposAviso /\ RondaConTrabajo /\ TrabajoAnunciado
---------------------------------------------------------------------------

LEMMA QuitarDeCola ==
  ASSUME NEW s \in Seq(Pids), NEW p
  PROVE  Quitar(s, p) \in Seq(Pids)
<1>1. CASE ~Esta(s, p)
  BY <1>1 DEF Quitar
<1>2. CASE Esta(s, p)
  <2> DEFINE i == Posicion(s, p)
  <2>1. i \in 1 .. Len(s)
    BY <1>2 DEF Esta, Posicion
  <2>2. SubSeq(s, 1, i - 1) \in Seq(Pids) /\ SubSeq(s, i + 1, Len(s)) \in Seq(Pids)
    BY <2>1
  <2>3. Quitar(s, p) = SubSeq(s, 1, i - 1) \o SubSeq(s, i + 1, Len(s))
    BY <1>2 DEF Quitar, RemoveAt
  <2> QED
    BY <2>2, <2>3
<1> QED
  BY <1>1, <1>2

\* A queue that gets a process is a queue, and is not empty.
LEMMA AgregarACola ==
  ASSUME NEW s \in Seq(Pids), NEW p \in Pids
  PROVE  Agregar(s, p) \in Seq(Pids) /\ Agregar(s, p) # <<>>
BY DEF Agregar, Esta

\* READY in another order has the same processes; it is empty if READY is.
LEMMA OrdenDeCola ==
  ASSUME ready \in Seq(Pids), NEW s \in Ordenes
  PROVE  /\ s \in Seq(Pids) /\ (ready # <<>> <=> s # <<>>)
         /\ ready # <<>> => s[1] \in ToSet(ready) /\ s[1] \in Pids
<1>1. Len(ready) \in Nat /\ DOMAIN ready = 1 .. Len(ready)
  OBVIOUS
<1>2. s \in [1 .. Len(ready) -> ToSet(ready)]
  BY <1>1 DEF Ordenes, Ordenadas, ToSet
<1>3. ToSet(ready) \subseteq Pids
  BY <1>1 DEF ToSet
<1>4. s \in [1 .. Len(ready) -> Pids]
  BY <1>2, <1>3
<1>5. s \in Seq(Pids) /\ Len(s) = Len(ready)
  BY <1>1, <1>4, SeqDef, LenProperties
<1>6. ready # <<>> => 1 \in 1 .. Len(ready)
  BY <1>1
<1> QED
  BY <1>1, <1>2, <1>3, <1>5, <1>6

\* With one CPU, "some CPU is free" is about that one.
LEMMA LaCPU ==
  ASSUME regimen \in Regimenes, UnaCPU
  PROVE  /\ ListaCPUs = {regimen.cpus[1]} /\ DOMAIN regimen.cpus = {1}
         /\ regimen.cpus[1] \in CPUs
<1>1. regimen.cpus \in Seq(CPUs) /\ Len(regimen.cpus) = 1
  BY RegimenesOK DEF UnaCPU
<1> QED
  BY <1>1 DEF ListaCPUs, ToSet

LEMMA CPUsConectadas ==
  ASSUME regimen \in Regimenes PROVE ListaCPUs \subseteq CPUs
<1>1. regimen.cpus \in Seq(CPUs)
  BY RegimenesOK
<1> QED
  BY <1>1 DEF ListaCPUs, ToSet
---------------------------------------------------------------------------

LEMMA InicioAviso == Init => InvAviso
<1> SUFFICES ASSUME Init PROVE InvAviso
  OBVIOUS
<1>1. TiposColas
  <2>1. EstimacionInicial \in Estimaciones
    BY RegimenesOK
  <2> DEFINE pcb == [estado |-> "NEW", PC |-> 0, est |-> EstimacionInicial]
  <2>2. pcb \in Procesos
    BY <2>1 DEF Procesos, Estados
  <2> HIDE DEF pcb
  <2>3. mapa = [p \in Pids |-> pcb]
    BY DEF Init, pcb
  <2>4. mapa \in [Pids -> Procesos \cup {NADA}]
    BY <2>2, <2>3
  <2> QED
    BY <2>4 DEF Init, TiposColas
<1>2. TiposRonda /\ RondaConTrabajo
  BY DEF Init, TiposRonda, RondaConTrabajo, SrtEsperando, ConReady, ConPid, ConCPU
<1>3. TiposCPUs
  <2>1. TipoCPU(CpuOciosa)
    BY DEF TipoCPU, CpuOciosa, NINGUNO
  <2> QED
    BY <2>1 DEF Init, TiposCPUs
<1>4. TiposManejadores /\ TrabajoAnunciado
  BY DEF Init, TiposManejadores, TrabajoAnunciado, HayTrabajo
<1> QED
  BY <1>1, <1>2, <1>3, <1>4 DEF InvAviso, TiposAviso

\* A step of the planner that touches neither READY nor the CPUs, from a point
\* where the work is announced.
LEMMA RondaSigue ==
  ASSUME RondaConTrabajo, TrabajoAnunciado,
         UNCHANGED <<regimen, libre, aviso, porAvisar>>,
         ready = <<>> => ready' = <<>>,
         srt.pc \notin {"mira", "elige"}, srt'.pc \notin {"mira", "elige"},
         srt'.pc \in ConReady => ready' # <<>>
  PROVE  RondaConTrabajo' /\ TrabajoAnunciado'
BY DEF RondaConTrabajo, TrabajoAnunciado, HayTrabajo, HayLibre, Anunciado, UnaCPU, ListaCPUs

\* A step of another goroutine: READY only grows, no CPU is taken, and what is
\* new is announced.
LEMMA OtroPaso ==
  ASSUME TiposColas, RondaConTrabajo, TrabajoAnunciado,
         UNCHANGED <<regimen, srt, aviso>>,
         ready # <<>> => ready' # <<>>,
         \A c \in ListaCPUs : libre[c] => libre'[c],
         \/ porAvisar' = porAvisar + 1
         \/ porAvisar' = porAvisar /\ UNCHANGED <<ready, libre>>
  PROVE  RondaConTrabajo' /\ TrabajoAnunciado'
<1>1. (srt.pc = "elige" => HayLibre)'
  BY DEF RondaConTrabajo, HayLibre, ListaCPUs
<1>2. CASE porAvisar' = porAvisar + 1
  <2>1. Anunciado'
    BY <1>2 DEF TiposColas, Anunciado
  <2> QED
    BY <1>1, <2>1 DEF RondaConTrabajo, TrabajoAnunciado
<1>3. CASE porAvisar' = porAvisar /\ UNCHANGED <<ready, libre>>
  BY <1>1, <1>3 DEF RondaConTrabajo, TrabajoAnunciado, HayTrabajo, HayLibre, Anunciado, UnaCPU, ListaCPUs
<1> QED
  BY <1>2, <1>3

\* What a kernel that dies leaves behind is what was there.
LEMMA PanicoAviso ==
  ASSUME InvAviso, UNCHANGED <<regimen, kernelVars, cpusVars, aviso, porAvisar, srt,
                               manejadores, cpu>>
  PROVE  InvAviso'
BY DEF InvAviso, TiposAviso, TiposColas, TiposRonda, TiposCPUs, TiposManejadores,
       RondaConTrabajo, TrabajoAnunciado, HayTrabajo, HayLibre, Anunciado, UnaCPU,
       ListaCPUs, kernelVars, cpusVars
---------------------------------------------------------------------------
(* Types of what most steps leave alone. *)

LEMMA ColasQuietas ==
  ASSUME TiposColas, UNCHANGED <<regimen, kernelVars, aviso, porAvisar, libre>>
  PROVE  TiposColas'
BY DEF TiposColas, kernelVars

LEMMA CPUsQuietas ==
  ASSUME TiposCPUs, UNCHANGED cpu PROVE TiposCPUs'
BY DEF TiposCPUs

LEMMA ManejadoresQuietos ==
  ASSUME TiposManejadores, UNCHANGED manejadores PROVE TiposManejadores'
BY DEF TiposManejadores

\* A CPU that gets a process: Enviar_proceso_a_cpu and manejarInit_Proc.
LEMMA CPURecibe ==
  ASSUME TiposCPUs, NEW c, NEW p \in Pids, NEW n \in Int,
         cpu' = [cpu EXCEPT ![c].cola = Append(@, [pid |-> p, PC |-> n])]
  PROVE  TiposCPUs'
<1> DEFINE pcb == [pid |-> p, PC |-> n]
<1>1. pcb \in Pcb
  BY DEF Pcb
<1>2. cpu' = [cpu EXCEPT ![c] = [cpu[c] EXCEPT !.cola = Append(cpu[c].cola, pcb)]]
  OBVIOUS
<1> HIDE DEF pcb
<1>3. ASSUME c \in CPUs PROVE TipoCPU([cpu[c] EXCEPT !.cola = Append(cpu[c].cola, pcb)])
  BY <1>1, <1>3 DEF TiposCPUs, TipoCPU
<1> QED
  BY <1>2, <1>3 DEF TiposCPUs

\* A handler that goes on has the process and the CPU it had.
LEMMA ManejadorSigue ==
  ASSUME TiposManejadores, NEW h \in manejadores, NEW pc, Sigue(h, pc) \/ Termina(h)
  PROVE  TiposManejadores'
BY DEF TiposManejadores, TipoManejador, Sigue, Termina

\* A process of the map with another state, PC or estimate.
LEMMA MapaConOtro ==
  ASSUME TiposColas, NEW p, mapa[p] # NADA, NEW e \in Estados, NEW n \in Int,
         mapa' \in {[mapa EXCEPT ![p].estado = e], [mapa EXCEPT ![p].PC = n],
                    [mapa EXCEPT ![p].estado = e, ![p].PC = n]}
  PROVE  mapa' \in [Pids -> Procesos \cup {NADA}]
<1>1. mapa \in [Pids -> Procesos \cup {NADA}]
  BY DEF TiposColas
<1>2. PICK r : mapa' = [mapa EXCEPT ![p] = r] /\ (mapa[p] \in Procesos => r \in Procesos)
  BY DEF Procesos
<1> QED
  BY <1>1, <1>2
---------------------------------------------------------------------------
(* The steps of the planner. *)

\* The types, for a step that only moves the planner.
LEMMA SoloRonda ==
  ASSUME InvAviso, UNCHANGED <<regimen, kernelVars, cpusVars, aviso, porAvisar, manejadores>>
  PROVE  TiposColas' /\ TiposManejadores'
BY ColasQuietas, ManejadoresQuietos DEF InvAviso, TiposAviso, cpusVars

LEMMA DespertarAviso ==
  ASSUME InvAviso, Despertar PROVE InvAviso'
<1>1. TiposColas' /\ TiposRonda' /\ RondaConTrabajo'
  BY DEF InvAviso, TiposAviso, TiposColas, TiposRonda, RondaConTrabajo, Despertar, SigueEn,
         kernelVars, cpusVars, ConReady, ConPid, ConCPU
<1>2. TiposCPUs' /\ TiposManejadores'
  BY CPUsQuietas, ManejadoresQuietos DEF InvAviso, TiposAviso, Despertar
<1>3. TrabajoAnunciado'
  BY DEF InvAviso, TiposAviso, TiposRonda, TrabajoAnunciado, Despertar, SigueEn
<1> QED
  BY <1>1, <1>2, <1>3 DEF InvAviso, TiposAviso

LEMMA MirarAviso ==
  ASSUME InvAviso, Mirar PROVE InvAviso'
<1>1. TiposColas' /\ TiposManejadores' /\ TiposCPUs'
  BY SoloRonda, CPUsQuietas DEF InvAviso, TiposAviso, Mirar
<1>2. TiposRonda'
  BY DEF InvAviso, TiposAviso, TiposRonda, Mirar, SigueEn, ConPid, ConCPU
<1>3. /\ srt'.pc = IF ready # <<>> /\ HayLibre THEN "elige" ELSE "mira_otra"
      /\ ready' = ready /\ libre' = libre /\ regimen' = regimen
  BY DEF InvAviso, TiposAviso, TiposRonda, Mirar, SigueEn, kernelVars, cpusVars
<1>4. RondaConTrabajo' /\ TrabajoAnunciado'
  BY <1>3 DEF RondaConTrabajo, TrabajoAnunciado, HayTrabajo, HayLibre, ListaCPUs, ConReady,
              ConPid, ConCPU
<1> QED
  BY <1>1, <1>2, <1>4 DEF InvAviso, TiposAviso

\* A CPU and a process for it: with one CPU, the last of the CPUs.
LEMMA ElegirAviso ==
  ASSUME InvAviso, Elegir PROVE InvAviso'
<1>1. CASE Faltan(ready)
  BY <1>1, PanicoAviso DEF Elegir, Panico
<1>2. CASE ~Faltan(ready)
  <2> DEFINE i == CHOOSE i \in DOMAIN regimen.cpus :
                    /\ libre[regimen.cpus[i]]
                    /\ \A j \in 1 .. i - 1 : ~libre[regimen.cpus[j]]
             c == regimen.cpus[i]
  <2>1. PICK s \in Ordenes :
          /\ ready' = s
          /\ srt' = [srt EXCEPT !.pc = "envia", !.cpu = c, !.pid = s[1], !.PC = mapa[s[1]].PC]
    BY <1>2 DEF Elegir
  <2>2. /\ srt.pc = "elige" /\ libre' = [libre EXCEPT ![c] = FALSE]
        /\ UNCHANGED <<regimen, mapa, execute, restante, pidActual, aviso, porAvisar,
                       manejadores, enIO, cpu, hecho, panico>>
    BY <1>2 DEF Elegir
  <2> DEFINE n == mapa[s[1]].PC
  <2>3. UnaCPU => c = regimen.cpus[1]
    <3> SUFFICES ASSUME UnaCPU PROVE c = regimen.cpus[1]
      OBVIOUS
    <3>1. ListaCPUs = {regimen.cpus[1]} /\ DOMAIN regimen.cpus = {1}
      BY LaCPU DEF InvAviso, TiposAviso, TiposColas
    <3>2. libre[regimen.cpus[1]]
      BY <2>2, <3>1 DEF InvAviso, RondaConTrabajo, HayLibre
    <3>3. \E k \in DOMAIN regimen.cpus :
            libre[regimen.cpus[k]] /\ \A j \in 1 .. k - 1 : ~libre[regimen.cpus[j]]
      BY <3>1, <3>2
    <3>4. i \in DOMAIN regimen.cpus
      BY <3>3
    <3> QED
      BY <3>1, <3>4
  <2>4. s \in Seq(Pids) /\ s # <<>> /\ s[1] \in ToSet(ready) /\ s[1] \in Pids
    BY <2>1, <2>2, OrdenDeCola
       DEF InvAviso, TiposAviso, TiposColas, RondaConTrabajo, ConReady
  <2>5. n \in Int
    BY <1>2, <2>4 DEF Faltan, InvAviso, TiposAviso, TiposColas, Procesos
  <2> HIDE DEF c, n
  <2>6. TiposColas'
    BY <2>1, <2>2, <2>4 DEF InvAviso, TiposAviso, TiposColas
  <2>7. TiposRonda' /\ srt'.pc = "envia"
    BY <2>1, <2>4, <2>5 DEF InvAviso, TiposAviso, TiposRonda, ConPid, ConCPU, n
  <2>8. TiposCPUs' /\ TiposManejadores'
    BY <2>2, CPUsQuietas, ManejadoresQuietos DEF InvAviso, TiposAviso
  <2>9. RondaConTrabajo'
    BY <2>1, <2>4, <2>7 DEF RondaConTrabajo
  <2>10. TrabajoAnunciado'
    <3> SUFFICES ASSUME UnaCPU PROVE ~HayLibre'
      BY <2>2 DEF TrabajoAnunciado, HayTrabajo, UnaCPU
    <3>1. ListaCPUs' = {c} /\ c \in CPUs
      BY <2>2, <2>3, LaCPU DEF InvAviso, TiposAviso, TiposColas, ListaCPUs
    <3> QED
      BY <2>2, <3>1 DEF HayLibre, InvAviso, TiposAviso, TiposColas
  <2> QED
    BY <2>6, <2>7, <2>8, <2>9, <2>10 DEF InvAviso, TiposAviso
<1> QED
  BY <1>1, <1>2

LEMMA EnviarAviso ==
  ASSUME InvAviso, Enviar PROVE InvAviso'
<1>1. /\ srt.pc = "envia" /\ srt.pid \in Pids /\ srt.PC \in Int
      /\ srt' = [srt EXCEPT !.pc = "a_execute"]
      /\ UNCHANGED <<regimen, ready, libre, aviso, porAvisar>>
  BY DEF InvAviso, TiposAviso, TiposRonda, Enviar, SigueEn, ConPid, kernelVars
<1>2. TiposColas' /\ TiposManejadores'
  BY ColasQuietas, ManejadoresQuietos DEF InvAviso, TiposAviso, Enviar
<1>3. TiposCPUs'
  BY <1>1, CPURecibe DEF InvAviso, TiposAviso, Enviar
<1>4. TiposRonda' /\ srt'.pc = "a_execute"
  BY <1>1 DEF InvAviso, TiposAviso, TiposRonda, ConPid, ConCPU
<1>5. RondaConTrabajo' /\ TrabajoAnunciado'
  BY <1>1, <1>4, RondaSigue DEF InvAviso, RondaConTrabajo, ConReady, ConPid
<1> QED
  BY <1>2, <1>3, <1>4, <1>5 DEF InvAviso, TiposAviso

LEMMA ReadyAExecuteAviso ==
  ASSUME InvAviso, ReadyAExecute PROVE InvAviso'
<1> DEFINE p == srt.pid
<1>1. CASE mapa[p] = NADA
  BY <1>1, PanicoAviso DEF ReadyAExecute, Panico
<1>2. CASE mapa[p] # NADA
  <2>1. /\ srt.pc = "a_execute" /\ p \in Pids
        /\ ready' = Quitar(ready, p) /\ execute' = Agregar(execute, p)
        /\ mapa' = [mapa EXCEPT ![p].estado = "EXECUTE"] /\ srt' = SrtEsperando
        /\ UNCHANGED <<regimen, cpusVars, aviso, porAvisar, manejadores, cpu>>
    BY <1>2 DEF InvAviso, TiposAviso, TiposRonda, ReadyAExecute, ConPid
  <2> HIDE DEF p
  <2>2. mapa' \in [Pids -> Procesos \cup {NADA}]
    <3>1. "EXECUTE" \in Estados /\ 0 \in Int
      BY DEF Estados
    <3> QED
      BY <1>2, <2>1, <3>1, MapaConOtro, Zenon DEF InvAviso, TiposAviso
  <2>3. ready' \in Seq(Pids) /\ execute' \in Seq(Pids)
    BY <2>1, QuitarDeCola, AgregarACola DEF InvAviso, TiposAviso, TiposColas
  <2>4. TiposColas'
    BY <2>1, <2>2, <2>3 DEF InvAviso, TiposAviso, TiposColas, cpusVars
  <2>5. TiposCPUs' /\ TiposManejadores'
    BY <2>1, CPUsQuietas, ManejadoresQuietos DEF InvAviso, TiposAviso
  <2>6. TiposRonda'
    BY <2>1 DEF TiposRonda, SrtEsperando, ConPid, ConCPU
  <2>7. RondaConTrabajo' /\ TrabajoAnunciado'
    <3>1. ready # <<>> /\ srt'.pc = "espera"
      BY <2>1 DEF InvAviso, RondaConTrabajo, ConReady, ConPid, SrtEsperando
    <3> QED
      BY <2>1, <3>1, RondaSigue DEF InvAviso, ConReady, ConPid, ConCPU, cpusVars
  <2> QED
    BY <2>4, <2>5, <2>6, <2>7 DEF InvAviso, TiposAviso
<1> QED
  BY <1>1, <1>2

\* A READY in order and a process of it that is shorter, or the end of the round.
LEMMA CompararAviso ==
  ASSUME InvAviso, Comparar PROVE InvAviso'
<1>1. CASE execute = <<>> \/ Faltan(execute) \/ Faltan(ready)
  BY <1>1, PanicoAviso DEF Comparar, Panico
<1>2. CASE ~(execute = <<>> \/ Faltan(execute) \/ Faltan(ready))
  <2> DEFINE e == DeMenorRestante
  <2>1. PICK s \in Ordenes :
          /\ ready' = s
          /\ srt' = IF mapa[s[1]].est < restante[e] THEN [srt EXCEPT !.pc = "busca", !.exec = e]
                    ELSE SrtEsperando
    BY <1>2 DEF Comparar
  <2>2. srt.pc = "compara" /\ UNCHANGED <<regimen, mapa, execute, libre, aviso, porAvisar,
                                           manejadores, cpu>>
    BY <1>2 DEF Comparar, cpusVars
  <2> HIDE DEF e
  <2>3. s \in Seq(Pids) /\ (ready # <<>> <=> s # <<>>)
    BY OrdenDeCola DEF InvAviso, TiposAviso, TiposColas
  <2>4. TiposColas'
    BY <2>1, <2>2, <2>3 DEF InvAviso, TiposAviso, TiposColas
  <2>5. TiposCPUs' /\ TiposManejadores'
    BY <2>2, CPUsQuietas, ManejadoresQuietos DEF InvAviso, TiposAviso
  <2>6. TiposRonda' /\ srt'.pc \in {"busca", "espera"}
    BY <2>1 DEF InvAviso, TiposAviso, TiposRonda, SrtEsperando, ConPid, ConCPU
  <2>7. RondaConTrabajo' /\ TrabajoAnunciado'
    <3>1. ready # <<>>
      BY <2>2 DEF InvAviso, RondaConTrabajo, ConReady
    <3> QED
      BY <2>1, <2>2, <2>3, <2>6, <3>1, RondaSigue DEF InvAviso
  <2> QED
    BY <2>4, <2>5, <2>6, <2>7 DEF InvAviso, TiposAviso
<1> QED
  BY <1>1, <1>2

\* The first of READY and the CPU of the longest, or the end of the round.
LEMMA BuscarAviso ==
  ASSUME InvAviso, Buscar PROVE InvAviso'
<1>1. /\ srt.pc = "busca"
      /\ UNCHANGED <<regimen, kernelVars, cpusVars, aviso, porAvisar, manejadores, cpu>>
  BY DEF Buscar
<1>2. ready # <<>>
  BY <1>1 DEF InvAviso, RondaConTrabajo, ConReady
<1>3. CASE srt' = srt
  BY <1>1, <1>3, PanicoAviso
<1>4. CASE srt' = SrtEsperando
  <2>1. TiposRonda' /\ srt'.pc = "espera"
    BY <1>4 DEF TiposRonda, SrtEsperando, ConPid, ConCPU
  <2>2. TiposColas' /\ TiposManejadores' /\ TiposCPUs'
    BY <1>1, SoloRonda, CPUsQuietas DEF InvAviso, TiposAviso
  <2>3. RondaConTrabajo' /\ TrabajoAnunciado'
    BY <1>1, <1>2, <2>1, RondaSigue DEF InvAviso, kernelVars, cpusVars
  <2> QED
    BY <2>1, <2>2, <2>3 DEF InvAviso, TiposAviso
<1>5. ASSUME NEW c \in ListaCPUs, mapa[ready[1]] # NADA,
             srt' = [srt EXCEPT !.pc = "mira_exec", !.cpu = c, !.pid = ready[1],
                                !.PC = mapa[ready[1]].PC]
      PROVE  InvAviso'
  <2> DEFINE n == mapa[ready[1]].PC
  <2>1. c \in CPUs
    BY CPUsConectadas DEF InvAviso, TiposAviso, TiposColas
  <2>2. ready[1] \in Pids
    BY <1>2 DEF InvAviso, TiposAviso, TiposColas
  <2>3. n \in Int
    BY <1>5, <2>2 DEF InvAviso, TiposAviso, TiposColas, Procesos
  <2> HIDE DEF n
  <2>4. TiposRonda' /\ srt'.pc = "mira_exec"
    BY <1>5, <2>1, <2>2, <2>3 DEF InvAviso, TiposAviso, TiposRonda, n, ConPid, ConCPU
  <2>5. TiposColas' /\ TiposManejadores' /\ TiposCPUs'
    BY <1>1, SoloRonda, CPUsQuietas DEF InvAviso, TiposAviso
  <2>6. RondaConTrabajo' /\ TrabajoAnunciado'
    BY <1>1, <1>2, <2>4, RondaSigue DEF InvAviso, kernelVars, cpusVars
  <2> QED
    BY <2>4, <2>5, <2>6 DEF InvAviso, TiposAviso
<1>6. \/ srt' = srt \/ srt' = SrtEsperando
      \/ /\ mapa[ready[1]] # NADA
         /\ \E c \in ListaCPUs :
              srt' = [srt EXCEPT !.pc = "mira_exec", !.cpu = c, !.pid = ready[1],
                                 !.PC = mapa[ready[1]].PC]
  <2> DEFINE suyas == {c \in ListaCPUs : ~libre[c] /\ pidActual[c] = srt.exec}
  <2>1. CASE suyas = {}
    BY <2>1 DEF Buscar
  <2>2. CASE suyas # {} /\ mapa[ready[1]] = NADA
    BY <2>2 DEF Buscar
  <2>3. CASE suyas # {} /\ mapa[ready[1]] # NADA
    <3>1. \E c \in suyas :
            srt' = [srt EXCEPT !.pc = "mira_exec", !.cpu = c, !.pid = ready[1],
                               !.PC = mapa[ready[1]].PC]
      BY <2>3 DEF Buscar
    <3> QED
      BY <2>3, <3>1
  <2> QED
    BY <2>1, <2>2, <2>3
<1> QED
  BY <1>3, <1>4, <1>5, <1>6

\* The steps that leave the queues alone and go to the next point of the round,
\* or to its end.
LEMMA SigueRonda ==
  ASSUME InvAviso, NEW pc \in ConCPU \cup {"envia"}, srt.pc \in ConCPU,
         srt' = [srt EXCEPT !.pc = pc] \/ srt' = SrtEsperando,
         UNCHANGED <<regimen, ready, libre, aviso, porAvisar>>
  PROVE  TiposRonda' /\ RondaConTrabajo' /\ TrabajoAnunciado'
<1>1. ready # <<>>
  BY DEF InvAviso, RondaConTrabajo, ConReady, ConPid
<1>2. TiposRonda' /\ srt'.pc \notin {"mira", "elige"}
  BY DEF InvAviso, TiposAviso, TiposRonda, SrtEsperando, ConPid, ConCPU
<1>3. srt.pc \notin {"mira", "elige"}
  BY DEF ConCPU
<1> QED
  BY <1>1, <1>2, <1>3, RondaSigue DEF InvAviso

\* RecibirInterrupcion starts, or ends, in a CPU.
LEMMA InterrupcionTipos ==
  ASSUME TiposCPUs, NEW c, NEW i, NEW n \in Int,
         cpu' \in {[cpu EXCEPT ![c].int = i],
                   [cpu EXCEPT ![c].hay = TRUE, ![c].int = i, ![c].resp = n]}
  PROVE  TiposCPUs'
<1>1. PICK m : /\ cpu' = [cpu EXCEPT ![c] = m]
               /\ TipoCPU(cpu[c]) => TipoCPU(m)
  <2>1. CASE cpu' = [cpu EXCEPT ![c].int = i]
    <3> DEFINE m == [cpu[c] EXCEPT !.int = i]
    <3>1. TipoCPU(cpu[c]) => TipoCPU(m)
      BY DEF TipoCPU
    <3>2. cpu' = [cpu EXCEPT ![c] = m]
      BY <2>1
    <3> QED
      BY <3>1, <3>2
  <2>2. CASE cpu' = [cpu EXCEPT ![c].hay = TRUE, ![c].int = i, ![c].resp = n]
    <3> DEFINE m == [cpu[c] EXCEPT !.hay = TRUE, !.int = i, !.resp = n]
    <3>1. TipoCPU(cpu[c]) => TipoCPU(m)
      BY DEF TipoCPU
    <3>2. cpu' = [cpu EXCEPT ![c] = m]
      BY <2>2
    <3> QED
      BY <3>1, <3>2
  <2> QED
    BY <2>1, <2>2
<1> QED
  BY <1>1 DEF TiposCPUs

LEMMA InterrumpirAviso ==
  ASSUME InvAviso, MirarExec \/ Interrumpir \/ Recibir PROVE InvAviso'
<1>1. /\ TiposRonda' /\ RondaConTrabajo' /\ TrabajoAnunciado'
      /\ UNCHANGED <<regimen, kernelVars, cpusVars, aviso, porAvisar, manejadores>>
  <2>1. UNCHANGED <<regimen, kernelVars, cpusVars, aviso, porAvisar, manejadores>>
    BY DEF MirarExec, Interrumpir, Recibir
  <2>2. CASE MirarExec
    BY <2>1, <2>2, SigueRonda DEF MirarExec, SigueEn, kernelVars, cpusVars, ConCPU
  <2>3. CASE Interrumpir
    BY <2>1, <2>3, SigueRonda DEF Interrumpir, SigueEn, kernelVars, cpusVars, ConCPU
  <2>4. CASE Recibir
    BY <2>1, <2>4, SigueRonda DEF Recibir, kernelVars, cpusVars, ConCPU
  <2> QED
    BY <2>1, <2>2, <2>3, <2>4
<1>2. TiposColas' /\ TiposManejadores'
  BY <1>1, SoloRonda
<1>3. TiposCPUs'
  <2>1. -1 \in Int
    OBVIOUS
  <2>2. CASE MirarExec
    BY <2>2, CPUsQuietas DEF MirarExec, InvAviso, TiposAviso
  <2>3. CASE Interrumpir \/ Recibir
    <3> DEFINE c == srt.cpu
    <3>1. \/ cpu' = [cpu EXCEPT ![c].hay = TRUE, ![c].int = "espera", ![c].resp = -1]
          \/ cpu' = [cpu EXCEPT ![c].int = "no"]
      BY <2>3 DEF Interrumpir, Recibir, NINGUNO
    <3> HIDE DEF c
    <3> QED
      BY <2>1, <3>1, InterrupcionTipos DEF InvAviso, TiposAviso
  <2> QED
    BY <2>2, <2>3
<1> QED
  BY <1>1, <1>2, <1>3 DEF InvAviso, TiposAviso

\* The PC of the answer, and the state of the process that leaves.
LEMMA ActualizarAviso ==
  ASSUME InvAviso, Actualizar \/ DesalojarEstado PROVE InvAviso'
<1> DEFINE q == srt.exec
           n == cpu[srt.cpu].resp
<1>1. CASE Panico
  BY <1>1, PanicoAviso DEF Panico
<1>2. CASE ~Panico
  <2>1. /\ srt.pc \in {"actualiza", "desaloja_estado"} /\ mapa[q] # NADA
        /\ \/ srt' = [srt EXCEPT !.pc = "desaloja"]
           \/ srt' = [srt EXCEPT !.pc = "envia"]
        /\ mapa' \in {[mapa EXCEPT ![q].PC = n], [mapa EXCEPT ![q].estado = "READY"]}
        /\ UNCHANGED <<regimen, ready, execute, libre, aviso, porAvisar, manejadores, cpu>>
    BY <1>2 DEF Actualizar, DesalojarEstado, SigueEn, cpusVars
  <2>2. n \in Int
    BY <2>1 DEF InvAviso, TiposAviso, TiposRonda, TiposCPUs, TipoCPU, ConCPU
  <2> HIDE DEF q, n
  <2>3. mapa' \in [Pids -> Procesos \cup {NADA}]
    BY <2>1, <2>2, MapaConOtro, Zenon DEF InvAviso, TiposAviso, Estados
  <2>4. TiposColas'
    BY <2>1, <2>3 DEF InvAviso, TiposAviso, TiposColas
  <2>5. TiposCPUs' /\ TiposManejadores'
    BY <2>1, CPUsQuietas, ManejadoresQuietos DEF InvAviso, TiposAviso
  <2>6. TiposRonda' /\ RondaConTrabajo' /\ TrabajoAnunciado'
    BY <2>1, SigueRonda DEF ConCPU
  <2> QED
    BY <2>4, <2>5, <2>6 DEF InvAviso, TiposAviso
<1> QED
  BY <1>1, <1>2

\* The process that leaves EXECUTE goes to a READY that was not empty.
LEMMA DesalojarAviso ==
  ASSUME InvAviso, Desalojar PROVE InvAviso'
<1> DEFINE p == srt.exec
<1>1. /\ srt.pc = "desaloja"
      /\ UNCHANGED <<regimen, mapa, cpusVars, aviso, porAvisar, manejadores, cpu>>
  BY DEF Desalojar
<1>2. ready # <<>>
  BY <1>1 DEF InvAviso, RondaConTrabajo, ConReady, ConPid, ConCPU
<1>3. \/ execute' = execute /\ ready' = ready /\ srt' = [srt EXCEPT !.pc = "envia"]
      \/ /\ Esta(execute, p) /\ execute' = Quitar(execute, p) /\ ready' = Agregar(ready, p)
         /\ srt' = [srt EXCEPT !.pc = "desaloja_estado"]
  BY DEF Desalojar, SalirDeExecute, SigueEn
<1> HIDE DEF p
<1>4. Esta(execute, p) => p \in Pids
  BY DEF Esta, InvAviso, TiposAviso, TiposColas
<1>5. ready' \in Seq(Pids) /\ execute' \in Seq(Pids) /\ ready' # <<>>
  BY <1>2, <1>3, <1>4, QuitarDeCola, AgregarACola DEF InvAviso, TiposAviso, TiposColas
<1>6. TiposColas'
  BY <1>1, <1>5 DEF InvAviso, TiposAviso, TiposColas, cpusVars
<1>7. TiposCPUs' /\ TiposManejadores'
  BY <1>1, CPUsQuietas, ManejadoresQuietos DEF InvAviso, TiposAviso
<1>8. TiposRonda' /\ srt'.pc \in {"envia", "desaloja_estado"}
  BY <1>1, <1>3 DEF InvAviso, TiposAviso, TiposRonda, ConPid, ConCPU
<1>9. RondaConTrabajo' /\ TrabajoAnunciado'
  BY <1>1, <1>2, <1>5, <1>8, RondaSigue DEF InvAviso, cpusVars
<1> QED
  BY <1>6, <1>7, <1>8, <1>9 DEF InvAviso, TiposAviso

LEMMA MirarOtraAviso ==
  ASSUME InvAviso, MirarOtra PROVE InvAviso'
<1>1. TiposColas' /\ TiposManejadores' /\ TiposCPUs'
  BY SoloRonda, CPUsQuietas DEF InvAviso, TiposAviso, MirarOtra
<1>2. /\ srt.pc = "mira_otra" /\ srt'.pc \in {"compara", "espera"}
      /\ srt'.pc = "compara" => ready # <<>>
      /\ TiposRonda'
  BY DEF InvAviso, TiposAviso, TiposRonda, MirarOtra, SigueEn, ConPid, ConCPU
<1>3. UNCHANGED <<regimen, ready, libre, aviso, porAvisar>>
  BY DEF MirarOtra, kernelVars, cpusVars
<1>4. RondaConTrabajo' /\ TrabajoAnunciado'
  BY <1>2, <1>3, RondaSigue DEF InvAviso, ConReady, ConPid, ConCPU
<1> QED
  BY <1>1, <1>2, <1>4 DEF InvAviso, TiposAviso

LEMMA PasoSRTAviso ==
  ASSUME InvAviso, PasoSRT PROVE InvAviso'
BY DespertarAviso, MirarAviso, MirarOtraAviso, ElegirAviso, EnviarAviso, ReadyAExecuteAviso,
   CompararAviso, BuscarAviso, InterrumpirAviso, ActualizarAviso, DesalojarAviso
   DEF PasoSRT
---------------------------------------------------------------------------
(* The other goroutines, the CPUs and what comes from outside. *)

LEMMA AvisarAviso ==
  ASSUME InvAviso, Avisar PROVE InvAviso'
<1>1. TiposColas' /\ Anunciado'
  BY DEF InvAviso, TiposAviso, TiposColas, Anunciado, Avisar, kernelVars, cpusVars
<1>2. TiposCPUs' /\ TiposManejadores' /\ TiposRonda' /\ RondaConTrabajo'
  BY CPUsQuietas, ManejadoresQuietos
     DEF InvAviso, TiposAviso, TiposRonda, RondaConTrabajo, HayLibre, ListaCPUs, Avisar,
         kernelVars, cpusVars
<1> QED
  BY <1>1, <1>2 DEF InvAviso, TiposAviso, TrabajoAnunciado

\* A process arrives, its device ends or its time in EXECUTE grows.
LEMMA EntornoAviso ==
  ASSUME InvAviso, NEW p \in Pids, PasoEntorno(p) \/ PasarTiempo(p) PROVE InvAviso'
<1>1. UNCHANGED <<regimen, execute, cpusVars, aviso, srt, manejadores, cpu>>
  BY DEF PasoEntorno, Llegar, FinIO, PasarTiempo
<1>2. \/ UNCHANGED <<mapa, ready, porAvisar>>
      \/ /\ mapa[p] # NADA /\ mapa' = [mapa EXCEPT ![p].estado = "READY"]
         /\ ready' = Agregar(ready, p) /\ porAvisar' = porAvisar + 1
  BY DEF PasoEntorno, Llegar, FinIO, PasarTiempo
<1>3. mapa' \in [Pids -> Procesos \cup {NADA}]
  <2>1. "READY" \in Estados /\ 0 \in Int
    BY DEF Estados
  <2>2. CASE mapa[p] # NADA /\ mapa' = [mapa EXCEPT ![p].estado = "READY"]
    BY <2>1, <2>2, MapaConOtro, Zenon DEF InvAviso, TiposAviso
  <2> QED
    BY <1>2, <2>2 DEF InvAviso, TiposAviso, TiposColas
<1>4. ready' \in Seq(Pids) /\ (ready # <<>> => ready' # <<>>)
  BY <1>2, AgregarACola DEF InvAviso, TiposAviso, TiposColas
<1>5. TiposColas'
  BY <1>1, <1>2, <1>3, <1>4 DEF InvAviso, TiposAviso, TiposColas, cpusVars
<1>6. TiposCPUs' /\ TiposManejadores' /\ TiposRonda'
  BY <1>1, CPUsQuietas, ManejadoresQuietos DEF InvAviso, TiposAviso, TiposRonda
<1>7. RondaConTrabajo' /\ TrabajoAnunciado'
  <2>1. UNCHANGED <<regimen, srt, aviso, libre>>
    BY <1>1 DEF cpusVars
  <2>2. \/ porAvisar' = porAvisar + 1
        \/ porAvisar' = porAvisar /\ UNCHANGED <<ready, libre>>
    BY <1>2, <2>1, Zenon
  <2> QED
    BY <1>4, <2>1, <2>2, OtroPaso DEF InvAviso, TiposAviso
<1> QED
  BY <1>5, <1>6, <1>7 DEF InvAviso, TiposAviso

\* A step that touches neither the queues nor the planner.
LEMMA FueraDeRonda ==
  ASSUME InvAviso, UNCHANGED <<regimen, kernelVars, cpusVars, aviso, porAvisar, srt>>,
         TiposCPUs', TiposManejadores'
  PROVE  InvAviso'
<1>1. TiposColas' /\ TiposRonda'
  BY ColasQuietas DEF InvAviso, TiposAviso, TiposRonda, cpusVars
<1>2. RondaConTrabajo' /\ TrabajoAnunciado'
  BY OtroPaso DEF InvAviso, TiposAviso, kernelVars, cpusVars
<1> QED
  BY <1>1, <1>2 DEF InvAviso, TiposAviso

\* A CPU that changes to a machine of the right type.
LEMMA OtraMaquina ==
  ASSUME TiposCPUs, NEW c \in CPUs, NEW m, TipoCPU(m), cpu' = [cpu EXCEPT ![c] = m]
  PROVE  TiposCPUs'
BY DEF TiposCPUs

LEMMA CPUAviso ==
  ASSUME InvAviso, NEW c \in ListaCPUs, PasoCPU(c) PROVE InvAviso'
<1> DEFINE m == cpu[c]
<1>1. UNCHANGED <<regimen, kernelVars, cpusVars, aviso, porAvisar, srt>>
  BY DEF PasoCPU, Tomar, Ejecutar, Controlar, Ceder, Responder
<1>2. c \in CPUs /\ TiposCPUs /\ TipoCPU(m)
  BY CPUsConectadas DEF InvAviso, TiposAviso, TiposColas, TiposCPUs
<1>3. TiposCPUs'
  <2>1. CASE Tomar(c)
    <3>1. m.cola \in Seq(Pcb) /\ m.cola # <<>>
      BY <1>2, <2>1 DEF Tomar, TipoCPU
    <3>2. Head(m.cola) \in Pcb /\ Tail(m.cola) \in Seq(Pcb)
      BY <3>1
    <3>3. \/ cpu' = [cpu EXCEPT ![c] = [m EXCEPT !.cola = Tail(m.cola), !.pc = "ejecuta",
                                   !.pid = Head(m.cola).pid, !.PC = Head(m.cola).PC]]
          \/ cpu' = [cpu EXCEPT ![c] = [m EXCEPT !.cola = Tail(m.cola)]]
      <4>1. CASE Head(m.cola).PC < Len(Programa(Head(m.cola).pid))
        BY <2>1, <4>1, Zenon DEF Tomar
      <4>2. CASE ~(Head(m.cola).PC < Len(Programa(Head(m.cola).pid)))
        BY <2>1, <4>2, Zenon DEF Tomar
      <4> QED
        BY <4>1, <4>2
    <3>4. TipoCPU([m EXCEPT !.cola = Tail(m.cola)])
      BY <1>2, <3>2 DEF TipoCPU
    <3>5. TipoCPU([m EXCEPT !.cola = Tail(m.cola), !.pc = "ejecuta",
                            !.pid = Head(m.cola).pid, !.PC = Head(m.cola).PC])
      BY <1>2, <3>2 DEF TipoCPU, Pcb
    <3> QED
      BY <1>2, <3>3, <3>4, <3>5, OtraMaquina
  <2>2. CASE Ejecutar(c)
    <3> DEFINE op == Programa(m.pid)[m.PC + 1]
               r == IF op = "CPU" THEN "sigue" ELSE "cede"
               e == m.envie \/ op \in {"IO", "DUMP", "EXIT"}
    <3>1. cpu' = [cpu EXCEPT ![c] = [m EXCEPT !.pc = "control", !.PC = m.PC + 1,
                                              !.res = r, !.envie = e]]
      BY <2>2, Zenon DEF Ejecutar
    <3> HIDE DEF r, e
    <3>2. TipoCPU([m EXCEPT !.pc = "control", !.PC = m.PC + 1, !.res = r, !.envie = e])
      BY <1>2, <2>2 DEF TipoCPU, Ejecutar
    <3> QED
      BY <1>2, <3>1, <3>2, OtraMaquina
  <2>3. CASE Controlar(c)
    <3>1. m.pc = "control" /\ m.pid \in Pids
      BY <1>2, <2>3 DEF Controlar, TipoCPU
    <3> DEFINE pcb == [pid |-> m.pid, PC |-> m.PC]
    <3>2. pcb \in Pcb
      BY <1>2, <3>1 DEF Pcb, TipoCPU
    <3>3. \/ cpu' = [cpu EXCEPT ![c] = [m EXCEPT !.pcInt = m.PC, !.int = "sigue", !.pc = "cede"]]
          \/ cpu' = [cpu EXCEPT ![c] = [Vacia(m) EXCEPT !.cola = Append(Vacia(m).cola, pcb)]]
          \/ cpu' = [cpu EXCEPT ![c] = [m EXCEPT !.pc = "cede"]]
      BY <2>3 DEF Controlar
    <3> HIDE DEF pcb
    <3>4. TipoCPU([m EXCEPT !.pcInt = m.PC, !.int = "sigue", !.pc = "cede"])
      BY <1>2, <3>1 DEF TipoCPU
    <3>5. TipoCPU([Vacia(m) EXCEPT !.cola = Append(Vacia(m).cola, pcb)])
      BY <1>2, <3>2 DEF TipoCPU, Vacia
    <3>6. TipoCPU([m EXCEPT !.pc = "cede"])
      BY <1>2, <3>1 DEF TipoCPU
    <3> QED
      BY <1>2, <3>3, <3>4, <3>5, <3>6, OtraMaquina
  <2>4. CASE Ceder(c)
    <3>1. TipoCPU([Vacia(m) EXCEPT !.hay = FALSE, !.envie = FALSE])
      BY <1>2 DEF TipoCPU, Vacia
    <3>2. cpu' = [cpu EXCEPT ![c] = [Vacia(m) EXCEPT !.hay = FALSE, !.envie = FALSE]]
      BY <2>4 DEF Ceder
    <3> QED
      BY <1>2, <3>1, <3>2, OtraMaquina
  <2>5. CASE Responder(c)
    <3> DEFINE r == IF m.envie THEN NINGUNO ELSE m.pcInt
    <3>1. TipoCPU([m EXCEPT !.int = "hecho", !.pcInt = NINGUNO, !.resp = r])
      BY <1>2 DEF TipoCPU, NINGUNO
    <3>2. cpu' = [cpu EXCEPT ![c] = [m EXCEPT !.int = "hecho", !.pcInt = NINGUNO, !.resp = r]]
      BY <2>5 DEF Responder
    <3> QED
      BY <1>2, <3>1, <3>2, OtraMaquina
  <2> QED
    BY <2>1, <2>2, <2>3, <2>4, <2>5 DEF PasoCPU
<1>4. TiposManejadores'
  <2>1. CASE Ejecutar(c)
    <3>1. m.pid \in Pids /\ m.PC + 1 \in Int
      BY <1>2, <2>1 DEF TipoCPU, Ejecutar
    <3>2. PICK op : manejadores' \subseteq manejadores \cup
                      {[op |-> op, pc |-> "entra", pid |-> m.pid, cpu |-> c, PC |-> m.PC + 1]}
      BY <2>1 DEF Ejecutar
    <3>3. TipoManejador([op |-> op, pc |-> "entra", pid |-> m.pid, cpu |-> c, PC |-> m.PC + 1])
      BY <1>2, <3>1 DEF TipoManejador
    <3> QED
      BY <3>2, <3>3 DEF InvAviso, TiposAviso, TiposManejadores
  <2>2. CASE ~Ejecutar(c)
    BY <2>2, ManejadoresQuietos
       DEF InvAviso, TiposAviso, PasoCPU, Tomar, Controlar, Ceder, Responder
  <2> QED
    BY <2>1, <2>2
<1> QED
  BY <1>1, <1>3, <1>4, FueraDeRonda

\* A handler that changes the map and EXECUTE, and tells nobody: BloquearProceso,
\* FinalizarProceso and the new PC of a process.
LEMMA ManejadorCallado ==
  ASSUME InvAviso, UNCHANGED <<regimen, ready, cpusVars, aviso, porAvisar, srt, cpu>>,
         mapa' \in [Pids -> Procesos \cup {NADA}], execute' \in Seq(Pids), TiposManejadores'
  PROVE  InvAviso'
<1>1. TiposColas' /\ TiposCPUs' /\ TiposRonda'
  BY CPUsQuietas DEF InvAviso, TiposAviso, TiposColas, TiposRonda, cpusVars
<1>2. RondaConTrabajo' /\ TrabajoAnunciado'
  BY OtroPaso DEF InvAviso, TiposAviso, cpusVars
<1> QED
  BY <1>1, <1>2 DEF InvAviso, TiposAviso

LEMMA BloquearTipos ==
  ASSUME TiposColas, NEW p, NEW n \in Int, Bloquear(p, n)
  PROVE  mapa' \in [Pids -> Procesos \cup {NADA}] /\ execute' \in Seq(Pids)
<1>1. PICK e \in Estimaciones :
        mapa' = [mapa EXCEPT ![p] = [estado |-> "BLOCKED", PC |-> n, est |-> e]]
  BY DEF Bloquear
<1>2. [estado |-> "BLOCKED", PC |-> n, est |-> e] \in Procesos
  BY DEF Procesos, Estados
<1>3. mapa' \in [Pids -> Procesos \cup {NADA}]
  BY <1>1, <1>2 DEF TiposColas
<1>4. execute' \in Seq(Pids)
  BY QuitarDeCola DEF Bloquear, SalirDeExecute, TiposColas
<1> QED
  BY <1>3, <1>4

LEMMA AtenderIOAviso ==
  ASSUME InvAviso, NEW h \in manejadores, AtenderIO(h) PROVE InvAviso'
<1>1. TiposColas /\ TiposManejadores /\ h.PC \in Int
  BY DEF InvAviso, TiposAviso, TiposManejadores, TipoManejador
<1>2. TiposManejadores'
  BY <1>1, ManejadorSigue DEF AtenderIO
<1>3. mapa' \in [Pids -> Procesos \cup {NADA}] /\ execute' \in Seq(Pids)
  <2>1. CASE EnExecute(h.pid) /\ Esta(execute, h.pid)
    BY <1>1, <2>1, BloquearTipos DEF AtenderIO
  <2>2. CASE EnExecute(h.pid) /\ ~Esta(execute, h.pid)
    <3>1. mapa[h.pid] # NADA /\ mapa' = [mapa EXCEPT ![h.pid].PC = h.PC] /\ execute' = execute
      BY <2>2 DEF AtenderIO, EnExecute
    <3>2. "READY" \in Estados
      BY DEF Estados
    <3>3. mapa' \in [Pids -> Procesos \cup {NADA}]
      BY <1>1, <3>1, <3>2, MapaConOtro, Zenon
    <3> QED
      BY <1>1, <3>1, <3>3 DEF TiposColas
  <2>3. CASE ~EnExecute(h.pid)
    BY <1>1, <2>3 DEF AtenderIO, TiposColas
  <2> QED
    BY <2>1, <2>2, <2>3
<1> QED
  BY <1>2, <1>3, ManejadorCallado DEF AtenderIO

LEMMA AtenderDumpAviso ==
  ASSUME InvAviso, NEW h \in manejadores, AtenderDump(h) PROVE InvAviso'
<1> DEFINE p == h.pid
<1>1. TiposColas /\ TiposManejadores /\ p \in Pids
  BY DEF InvAviso, TiposAviso, TiposManejadores, TipoManejador
<1>2. TiposManejadores'
  <2>1. Sigue(h, "vuelca") \/ Sigue(h, "libera") \/ Termina(h)
    BY DEF AtenderDump
  <2> QED
    BY <1>1, <2>1, ManejadorSigue
<1>3. mapa' \in [Pids -> Procesos \cup {NADA}] /\ execute' \in Seq(Pids)
  <2>1. CASE mapa[p] # NADA /\ Bloquear(p, mapa[p].PC)
    <3>1. mapa[p].PC \in Int
      BY <1>1, <2>1 DEF TiposColas, Procesos
    <3> QED
      BY <1>1, <2>1, <3>1, BloquearTipos
  <2>2. CASE UNCHANGED <<mapa, execute>>
    BY <1>1, <2>2 DEF TiposColas
  <2> QED
    BY <2>1, <2>2 DEF AtenderDump
<1> QED
  BY <1>2, <1>3, ManejadorCallado DEF AtenderDump

LEMMA FinDeProcesoAviso ==
  ASSUME InvAviso, NEW h \in manejadores, FinEnCola(h) \/ FinEnMapa(h) PROVE InvAviso'
<1>1. CASE Panico
  BY <1>1, PanicoAviso DEF Panico
<1>2. CASE ~Panico
  <2>1. TiposManejadores'
    BY <1>2, ManejadorSigue DEF FinEnCola, FinEnMapa, InvAviso, TiposAviso
  <2>2. /\ mapa' \in {mapa, [mapa EXCEPT ![h.pid] = NADA]}
        /\ execute' \in {execute, Quitar(execute, h.pid)}
    BY <1>2 DEF FinEnCola, FinEnMapa, SalirDeExecute
  <2>3. mapa' \in [Pids -> Procesos \cup {NADA}] /\ execute' \in Seq(Pids)
    BY <2>2, QuitarDeCola DEF InvAviso, TiposAviso, TiposColas
  <2>4. UNCHANGED <<regimen, ready, cpusVars, aviso, porAvisar, srt, cpu>>
    BY <1>2 DEF FinEnCola, FinEnMapa
  <2> QED
    BY <2>1, <2>3, <2>4, ManejadorCallado
<1> QED
  BY <1>1, <1>2

\* The process of a dump is READY again, and that is announced.
LEMMA TerminarDumpAviso ==
  ASSUME InvAviso, NEW h \in manejadores, TerminarDump(h) PROVE InvAviso'
<1> DEFINE p == h.pid
<1>1. TiposColas /\ TiposManejadores /\ p \in Pids /\ h.PC \in Int
  BY DEF InvAviso, TiposAviso, TiposManejadores, TipoManejador
<1>2. UNCHANGED <<regimen, execute, restante, cpusVars, aviso, srt, cpu>>
  BY DEF TerminarDump
<1>3. TiposManejadores'
  <2>1. Sigue(h, "libera") \/ Termina(h)
    BY DEF TerminarDump
  <2> QED
    BY <1>1, <2>1, ManejadorSigue
<1>4. \/ UNCHANGED <<mapa, ready, porAvisar>>
      \/ /\ mapa[p] # NADA
         /\ mapa' \in {[mapa EXCEPT ![p].estado = "READY", ![p].PC = h.PC],
                       [mapa EXCEPT ![p].PC = h.PC]}
         /\ \/ ready' = Agregar(ready, p) /\ porAvisar' = porAvisar + 1
            \/ UNCHANGED <<ready, porAvisar>>
  BY DEF TerminarDump
<1> HIDE DEF p
<1>5. mapa' \in [Pids -> Procesos \cup {NADA}]
  <2>1. "READY" \in Estados
    BY DEF Estados
  <2>2. CASE mapa[p] # NADA /\ mapa' \in {[mapa EXCEPT ![p].estado = "READY", ![p].PC = h.PC],
                                            [mapa EXCEPT ![p].PC = h.PC]}
    BY <1>1, <2>1, <2>2, MapaConOtro, Zenon
  <2> QED
    BY <1>1, <1>4, <2>2 DEF TiposColas
<1>6. ready' \in Seq(Pids) /\ (ready # <<>> => ready' # <<>>)
  BY <1>1, <1>4, AgregarACola DEF TiposColas
<1>7. TiposColas'
  BY <1>1, <1>2, <1>4, <1>5, <1>6 DEF TiposColas, cpusVars
<1>8. TiposCPUs' /\ TiposRonda'
  BY <1>2, CPUsQuietas DEF InvAviso, TiposAviso, TiposRonda
<1>9. RondaConTrabajo' /\ TrabajoAnunciado'
  <2>1. UNCHANGED <<regimen, srt, aviso, libre>>
    BY <1>2 DEF cpusVars
  <2>2. \/ porAvisar' = porAvisar + 1
        \/ porAvisar' = porAvisar /\ UNCHANGED <<ready, libre>>
    BY <1>4, <2>1, Zenon
  <2> QED
    BY <1>6, <2>1, <2>2, OtroPaso DEF InvAviso, TiposAviso
<1> QED
  BY <1>3, <1>7, <1>8, <1>9 DEF InvAviso, TiposAviso

LEMMA AtenderInitAviso ==
  ASSUME InvAviso, NEW h \in manejadores, AtenderInit(h) PROVE InvAviso'
<1>1. h.pid \in Pids /\ h.PC \in Int
  BY DEF InvAviso, TiposAviso, TiposManejadores, TipoManejador
<1>2. TiposManejadores'
  BY ManejadorSigue DEF InvAviso, TiposAviso, AtenderInit
<1>3. TiposCPUs'
  BY <1>1, CPURecibe DEF InvAviso, TiposAviso, AtenderInit
<1>4. TiposColas' /\ TiposRonda'
  BY ColasQuietas DEF InvAviso, TiposAviso, TiposRonda, AtenderInit
<1>5. RondaConTrabajo' /\ TrabajoAnunciado'
  BY OtroPaso DEF InvAviso, TiposAviso, AtenderInit, kernelVars
<1> QED
  BY <1>2, <1>3, <1>4, <1>5 DEF InvAviso, TiposAviso

\* LiberarCPU: one more free CPU, and that is announced.
LEMMA LiberarAviso ==
  ASSUME InvAviso, NEW h \in manejadores, Liberar(h) PROVE InvAviso'
<1>1. TiposManejadores'
  BY ManejadorSigue DEF InvAviso, TiposAviso, Liberar
<1>2. TiposCPUs' /\ TiposRonda'
  BY CPUsQuietas DEF InvAviso, TiposAviso, TiposRonda, Liberar
<1>3. TiposColas'
  <2> DEFINE c == h.cpu
  <2>1. /\ libre' = [libre EXCEPT ![c] = TRUE] /\ porAvisar' = porAvisar + 1
        /\ libre \in [CPUs -> BOOLEAN] /\ porAvisar \in Nat
    BY DEF InvAviso, TiposAviso, TiposColas, Liberar
  <2> HIDE DEF c
  <2>3. libre' \in [CPUs -> BOOLEAN]
    BY <2>1
  <2>2. UNCHANGED <<regimen, mapa, ready, execute, aviso>>
    BY DEF Liberar, kernelVars
  <2> QED
    BY <2>1, <2>2, <2>3 DEF InvAviso, TiposAviso, TiposColas
<1>4. \A c \in ListaCPUs : libre[c] => libre'[c]
  BY CPUsConectadas DEF InvAviso, TiposAviso, TiposColas, Liberar
<1>5. RondaConTrabajo' /\ TrabajoAnunciado'
  BY <1>4, OtroPaso DEF InvAviso, TiposAviso, Liberar, kernelVars
<1> QED
  BY <1>1, <1>2, <1>3, <1>5 DEF InvAviso, TiposAviso

LEMMA ManejadorAviso ==
  ASSUME InvAviso, NEW h \in manejadores, PasoManejador(h) PROVE InvAviso'
BY AtenderIOAviso, AtenderDumpAviso, TerminarDumpAviso, AtenderInitAviso,
   FinDeProcesoAviso, LiberarAviso DEF PasoManejador
---------------------------------------------------------------------------

LEMMA PasoAviso == InvAviso /\ [Next]_vars => InvAviso'
<1> SUFFICES ASSUME InvAviso, [Next]_vars PROVE InvAviso'
  OBVIOUS
<1>1. CASE Next
  BY <1>1, PasoSRTAviso, AvisarAviso, EntornoAviso, ManejadorAviso, CPUAviso DEF Next
<1>2. CASE UNCHANGED vars
  BY <1>2, PanicoAviso DEF vars
<1> QED
  BY <1>1, <1>2

\* With one CPU, no notification of NotificarReplanifSRT is lost for good: a
\* planner that waits with a process in READY and the CPU free has one to hear,
\* whatever programs run and however slow each goroutine of the kernel is.
THEOREM AvisoSiempre == Spec => []AvisoPendiente
<1>1. InvAviso => AvisoPendiente
  BY DEF InvAviso, TrabajoAnunciado, HayTrabajo, Anunciado, AvisoPendiente
<1> QED
  BY <1>1, InicioAviso, PasoAviso, PTL DEF Spec
---------------------------------------------------------------------------
(* Queues as sequences without repetition. *)

\* Quitar takes out the place where the process is: those behind it move up.
LEMMA QuitarElementos ==
  ASSUME NEW s \in Seq(Pids), NEW p, Esta(s, p)
  PROVE  /\ Posicion(s, p) \in 1 .. Len(s) /\ s[Posicion(s, p)] = p
         /\ Quitar(s, p) \in Seq(Pids) /\ Len(Quitar(s, p)) = Len(s) - 1
         /\ \A k \in 1 .. Len(s) - 1 :
              Quitar(s, p)[k] = IF k < Posicion(s, p) THEN s[k] ELSE s[k + 1]
<1> DEFINE i == Posicion(s, p)
           n == Len(s)
           t == Quitar(s, p)
<1>1. i \in 1 .. n /\ s[i] = p /\ n \in Nat /\ DOMAIN s = 1 .. n
  BY DEF Esta, Posicion
<1>2. t = SubSeq(s, 1, i - 1) \o SubSeq(s, i + 1, n)
  BY DEF Quitar, RemoveAt
<1> HIDE DEF i, t
<1>3. /\ t \in Seq(Pids) /\ Len(t) = n - 1
      /\ \A k \in 1 .. n - 1 : t[k] = IF k < i THEN s[k] ELSE s[k + 1]
  <2> DEFINE a == SubSeq(s, 1, i - 1)
             b == SubSeq(s, i + 1, n)
  <2>a. a \in Seq(Pids) /\ Len(a) = i - 1 /\ \A k \in 1 .. i - 1 : a[k] = s[k]
    BY <1>1
  <2>b. b \in Seq(Pids) /\ Len(b) = n - i /\ \A k \in 1 .. n - i : b[k] = s[i + k]
    <3>1. /\ b \in Seq(Pids) /\ Len(b) = IF i + 1 <= n THEN n - (i + 1) + 1 ELSE 0
          /\ \A k \in 1 .. n - (i + 1) + 1 : b[k] = s[i + 1 + k - 1]
      <4>1. \A k \in i + 1 .. n : s[k] \in Pids
        BY <1>1
      <4>2. i + 1 \in Int /\ n \in Int
        BY <1>1
      <4> QED
        BY <4>1, <4>2, SubSeqProperties
    <3>2. \A k \in 1 .. n - i : i + 1 + k - 1 = i + k
      BY <1>1
    <3>3. n - (i + 1) + 1 = n - i /\ (~(i + 1 <= n) => n - i = 0)
      <4>1. \A k \in Nat : \A j \in 1 .. k :
              k - (j + 1) + 1 = k - j /\ (~(j + 1 <= k) => k - j = 0)
        OBVIOUS
      <4>2. n \in Nat /\ i \in 1 .. n
        BY <1>1
      <4> HIDE DEF n
      <4> QED
        BY <4>1, <4>2
    <3> HIDE DEF b
    <3> QED
      BY <3>1, <3>2, <3>3
  <2>1. /\ a \in Seq(Pids) /\ Len(a) = i - 1 /\ \A k \in 1 .. i - 1 : a[k] = s[k]
        /\ b \in Seq(Pids) /\ Len(b) = n - i /\ \A k \in 1 .. n - i : b[k] = s[i + k]
    BY <2>a, <2>b
  <2>t. t = a \o b
    BY <1>2
  <2> HIDE DEF a, b, n
  <2>2. t \in Seq(Pids) /\ Len(t) = n - 1
    <3>1. t \in Seq(Pids) /\ Len(t) = Len(a) + Len(b)
      BY <2>t, <2>1, ConcatProperties
    <3> QED
      BY <1>1, <2>1, <3>1
  <2>3. \A k \in 1 .. i - 1 : t[k] = a[k]
    BY <1>1, <2>t, <2>1
  <2>4. \A k \in i .. n - 1 : t[k] = b[k - (i - 1)]
    BY <1>1, <2>t, <2>1
  <2>5. \A k \in i .. n - 1 : t[k] = s[k + 1]
    <3> TAKE k \in i .. n - 1
    <3>1. k - (i - 1) \in 1 .. n - i /\ i + (k - (i - 1)) = k + 1
      BY <1>1
    <3> QED
      BY <2>1, <2>4, <3>1
  <2>6. \A k \in 1 .. n - 1 : k \in 1 .. i - 1 \/ (~(k < i) /\ k \in i .. n - 1)
    BY <1>1
  <2> QED
    BY <1>1, <2>1, <2>2, <2>3, <2>5, <2>6
<1> QED
  BY <1>1, <1>3 DEF i, t

\* Quitar takes out one process, once, and no other.
LEMMA QuitarExacto ==
  ASSUME NEW s \in Seq(Pids), IsInjective(s), NEW p
  PROVE  /\ IsInjective(Quitar(s, p))
         /\ \A q : Esta(Quitar(s, p), q) <=> Esta(s, q) /\ q # p
         /\ Len(Quitar(s, p)) = IF Esta(s, p) THEN Len(s) - 1 ELSE Len(s)
<1>1. CASE ~Esta(s, p)
  BY <1>1 DEF Quitar, Esta
<1>2. CASE Esta(s, p)
  <2> DEFINE i == Posicion(s, p)
             n == Len(s)
             t == Quitar(s, p)
  <2>1. i \in 1 .. n /\ s[i] = p /\ n \in Nat /\ DOMAIN s = 1 .. n
    BY <1>2, QuitarElementos
  <2>3. /\ Len(t) = n - 1 /\ DOMAIN t = 1 .. n - 1
        /\ \A k \in 1 .. n - 1 : t[k] = IF k < i THEN s[k] ELSE s[k + 1]
    BY <1>2, QuitarElementos
  <2> HIDE DEF i, t
  <2>4. IsInjective(t)
    BY <2>1, <2>3 DEF IsInjective
  <2>5. ASSUME NEW q PROVE Esta(t, q) <=> Esta(s, q) /\ q # p
    <3>1. ASSUME NEW k \in 1 .. n - 1, t[k] = q PROVE Esta(s, q) /\ q # p
      <4>1. CASE k < i
        BY <2>1, <2>3, <3>1, <4>1 DEF IsInjective, Esta
      <4>2. CASE ~(k < i)
        <5>1. k + 1 \in 1 .. n /\ s[k + 1] = q /\ k + 1 # i
          BY <2>1, <2>3, <3>1, <4>2
        <5> QED
          BY <2>1, <5>1 DEF IsInjective, Esta
      <4> QED
        BY <4>1, <4>2
    <3>2. ASSUME NEW k \in 1 .. n, s[k] = q, q # p PROVE Esta(t, q)
      <4>1. CASE k < i
        <5>1. k \in 1 .. n - 1 /\ t[k] = q
          BY <2>1, <2>3, <3>2, <4>1
        <5> QED
          BY <2>3, <5>1 DEF Esta
      <4>2. CASE ~(k < i)
        <5>1. k - 1 \in 1 .. n - 1 /\ t[k - 1] = s[(k - 1) + 1] /\ (k - 1) + 1 = k
          BY <2>1, <2>3, <3>2, <4>2
        <5> QED
          BY <2>3, <3>2, <5>1 DEF Esta
      <4> QED
        BY <4>1, <4>2
    <3> QED
      BY <2>1, <2>3, <3>1, <3>2 DEF Esta
  <2> QED
    BY <1>2, <2>3, <2>4, <2>5 DEF t
<1> QED
  BY <1>1, <1>2

\* An append adds one process, at the end, and no other.
LEMMA AppendExacto ==
  ASSUME NEW s \in Seq(Pids), IsInjective(s), NEW p \in Pids, ~Esta(s, p)
  PROVE  /\ IsInjective(Append(s, p)) /\ Append(s, p) \in Seq(Pids)
         /\ \A q : Esta(Append(s, p), q) <=> Esta(s, q) \/ q = p
         /\ Len(Append(s, p)) = Len(s) + 1
<1> DEFINE n == Len(s)
           t == Append(s, p)
<1>1. /\ n \in Nat /\ DOMAIN s = 1 .. n /\ DOMAIN t = 1 .. n + 1 /\ t[n + 1] = p
      /\ t \in Seq(Pids) /\ Len(t) = n + 1 /\ \A k \in 1 .. n : t[k] = s[k]
  OBVIOUS
<1> HIDE DEF t
<1>2. \A k \in 1 .. n + 1 : k = n + 1 \/ k \in 1 .. n
  BY <1>1
<1>3. n + 1 \in 1 .. n + 1 /\ \A k \in 1 .. n : k \in 1 .. n + 1
  BY <1>1
<1>4. \A k \in 1 .. n : s[k] # p
  BY <1>1 DEF Esta
<1>5. IsInjective(t)
  BY <1>1, <1>2, <1>4 DEF IsInjective
<1>6. \A q : Esta(t, q) <=> Esta(s, q) \/ q = p
  BY <1>1, <1>2, <1>3 DEF Esta
<1> QED
  BY <1>1, <1>5, <1>6 DEF t

\* A sort keeps everyone, once.
LEMMA OrdenExacto ==
  ASSUME NEW s \in Seq(Pids), IsInjective(s),
         NEW t \in [DOMAIN s -> {s[i] : i \in DOMAIN s}],
         \A i \in DOMAIN s : Esta(t, s[i])
  PROVE  /\ IsInjective(t) /\ t \in Seq(Pids) /\ Len(t) = Len(s)
         /\ \A q : Esta(t, q) <=> Esta(s, q)
<1> DEFINE n == Len(s)
           S == {s[i] : i \in DOMAIN s}
<1>1. n \in Nat /\ DOMAIN s = 1 .. n /\ t \in [1 .. n -> S]
  OBVIOUS
<1>2. t \in Seq(Pids) /\ Len(t) = n
  <2>1. S \subseteq Pids /\ t \in [1 .. n -> Pids]
    BY <1>1
  <2>2. t \in Seq(Pids)
    BY <1>1, <2>1, SeqDef
  <2> QED
    BY <1>1, <2>1, <2>2
<1>3. t \in Surjection(1 .. n, S)
  <2>1. \A y \in S : \E k \in 1 .. n : t[k] = y
    BY <1>1 DEF Esta
  <2> QED
    BY <1>1, <2>1 DEF Surjection
<1>4. s \in Bijection(1 .. n, S)
  <2>1. s \in [1 .. n -> S] /\ \A y \in S : \E k \in 1 .. n : s[k] = y
    BY <1>1
  <2>2. \A j, k \in 1 .. n : s[j] = s[k] => j = k
    BY <1>1 DEF IsInjective
  <2> QED
    BY <2>1, <2>2 DEF Bijection, Injection, Surjection, IsInjective
<1>5. IsFiniteSet(1 .. n) /\ Cardinality(1 .. n) = n
  <2> HIDE DEF n
  <2> QED
    BY <1>1, FS_Interval
<1>6. Cardinality(S) = n
  BY <1>4, <1>5, FS_Bijection DEF ExistsBijection
<1>7. t \in Injection(1 .. n, S)
  BY <1>3, <1>5, <1>6, FS_SurjSameCardinalityImpliesInj
<1>8. IsInjective(t)
  BY <1>1, <1>7 DEF Injection, IsInjective, IsInjective
<1>9. \A q : Esta(t, q) <=> Esta(s, q)
  BY <1>1 DEF Esta
<1> QED
  BY <1>2, <1>8, <1>9

\* A set of positions that is not empty has a first one.
LEMMA MinimoExiste ==
  ASSUME NEW S, S \subseteq Nat, S # {}
  PROVE  \E k \in S : \A j \in S : k <= j
<1> DEFINE R == {ss \in Nat \X Nat : ss[1] < ss[2]}
<1>1. IsWellFoundedOn(R, Nat)
  <2>1. OpToRel(<, Nat) = R
    BY Zenon DEF OpToRel
  <2> QED
    BY <2>1, NatLessThanWellFounded
<1>2. \A j, k \in Nat : j < k => <<j, k>> \in R
  OBVIOUS
<1> HIDE DEF R
<1>3. PICK k \in S : \A j \in S : ~ (<<j, k>> \in R)
  BY <1>1, WFMin
<1>4. \A j \in S : k <= j
  <2> TAKE j \in S
  <2>1. j \in Nat /\ k \in Nat
    OBVIOUS
  <2>2. ~ (j < k)
    BY <1>2, <1>3, <2>1, Zenon
  <2> QED
    BY <2>1, <2>2
<1> QED
  BY <1>4

---------------------------------------------------------------------------
(* Types: what AvisoPendiente did not need. *)

PcbNat == [pid : Pids, PC : Nat]

Maquinas ==
  [pc : {"libre", "ejecuta", "control", "cede"}, pid : Pids \cup {NADA}, PC : Nat,
   res : {"sigue", "cede"}, cola : Seq(PcbNat), hay : BOOLEAN,
   envie : BOOLEAN, pcInt : Nat \cup {NINGUNO}, int : {"no", "espera", "sigue", "hecho"},
   resp : Nat \cup {NINGUNO}]

Rondas ==
  [pc : {"espera", "mira", "mira_otra"} \cup ConReady, cpu : CPUs \cup {NADA},
   exec : Pids \cup {NADA}, pid : Pids \cup {NADA}, PC : Nat]

EsManejador(h) ==
  /\ h = [op |-> h.op, pc |-> h.pc, pid |-> h.pid, cpu |-> h.cpu, PC |-> h.PC]
  /\ h.PC \in Nat /\ h.cpu \in ListaCPUs

\* The steps of a round that have chosen whom to take out.
ConExec == ConCPU \cup {"busca"}

FormaRonda ==
  /\ srt \in Rondas
  /\ srt.pc \in ConExec => srt.exec \in Pids
  /\ srt.pc \in ConPid => srt.cpu \in ListaCPUs

FormaManejadores == \A h \in manejadores : EsManejador(h)

FormaCPUs == cpu \in [CPUs -> Maquinas] /\ pidActual \in [CPUs -> Pids \cup {NADA}]

FormaColas ==
  /\ IsInjective(ready) /\ IsInjective(execute) /\ aviso \in 0 .. 1
  /\ restante \in [Pids -> Nat] /\ hecho \in [Pids -> Nat] /\ enIO \subseteq Pids
  /\ \A p \in Pids : mapa[p] # NADA => mapa[p].PC \in Nat

InvFormas == InvAviso /\ FormaRonda /\ FormaManejadores /\ FormaCPUs /\ FormaColas

\* c has another machine.
Otra(c, m) ==
  /\ cpu' \in [CPUs -> Maquinas] /\ cpu'[c] = m
  /\ \A d \in CPUs : d # c => cpu'[d] = cpu[d]

LEMMA CambiaCPU ==
  ASSUME FormaCPUs, NEW c \in CPUs, NEW m \in Maquinas, cpu' = [cpu EXCEPT ![c] = m]
  PROVE  Otra(c, m)
BY DEF FormaCPUs, Otra

\* What an interruption has to do with.
MismaInt(m, n) == m.hay = n.hay /\ m.int = n.int /\ m.pcInt = n.pcInt /\ m.resp = n.resp

MismoLazo(m, n) ==
  /\ m.pc = n.pc /\ m.pid = n.pid /\ m.PC = n.PC /\ m.res = n.res /\ m.cola = n.cola
  /\ m.envie = n.envie

LEMMA EfectoTomar ==
  ASSUME FormaCPUs, NEW c \in CPUs, Tomar(c)
  PROVE  \E m \in Maquinas :
           /\ Otra(c, m) /\ MismaInt(m, cpu[c]) /\ m.envie = cpu[c].envie /\ m.res = cpu[c].res
           /\ m.cola = Tail(cpu[c].cola)
           /\ LET pcb == Head(cpu[c].cola) IN
              IF pcb.PC < Len(Programa(pcb.pid))
              THEN m.pc = "ejecuta" /\ m.pid = pcb.pid /\ m.PC = pcb.PC
              ELSE m.pc = "libre" /\ m.pid = cpu[c].pid
<1> DEFINE n == cpu[c]
           pcb == Head(n.cola)
           a == [n EXCEPT !.cola = Tail(n.cola), !.pc = "ejecuta", !.pid = pcb.pid, !.PC = pcb.PC]
           b == [n EXCEPT !.cola = Tail(n.cola)]
<1>1. n \in Maquinas /\ n.cola # <<>> /\ n.pc = "libre"
  BY DEF FormaCPUs, Tomar
<1>2. n.cola \in Seq(PcbNat)
  BY <1>1 DEF Maquinas
<1>3. Head(n.cola) \in PcbNat /\ Tail(n.cola) \in Seq(PcbNat)
  BY <1>1, <1>2
<1>4. pcb.pid \in Pids /\ pcb.PC \in Nat
  BY <1>3 DEF PcbNat
<1>5. CASE pcb.PC < Len(Programa(pcb.pid))
  <2>1. cpu' = [cpu EXCEPT ![c] = a]
    BY <1>5, Zenon DEF Tomar
  <2>2. a \in Maquinas /\ MismaInt(a, n) /\ a.envie = n.envie /\ a.res = n.res
    BY <1>1, <1>3, <1>4 DEF Maquinas, MismaInt
  <2>3. a.cola = Tail(n.cola) /\ a.pc = "ejecuta" /\ a.pid = pcb.pid /\ a.PC = pcb.PC
    BY <1>1 DEF Maquinas
  <2> HIDE DEF a
  <2>4. Otra(c, a)
    BY <2>1, <2>2, CambiaCPU
  <2> QED
    BY <1>5, <2>2, <2>3, <2>4
<1>6. CASE ~(pcb.PC < Len(Programa(pcb.pid)))
  <2>1. cpu' = [cpu EXCEPT ![c] = b]
    BY <1>6, Zenon DEF Tomar
  <2>2. b \in Maquinas /\ MismaInt(b, n) /\ b.envie = n.envie /\ b.res = n.res
    BY <1>1, <1>3 DEF Maquinas, MismaInt
  <2>3. b.cola = Tail(n.cola) /\ b.pc = "libre" /\ b.pid = n.pid
    BY <1>1 DEF Maquinas
  <2> HIDE DEF b
  <2>4. Otra(c, b)
    BY <2>1, <2>2, CambiaCPU
  <2> QED
    BY <1>6, <2>2, <2>3, <2>4
<1> QED
  BY <1>5, <1>6

\* The handler of a syscall, as it starts.
Nuevo(m, c, op) == [op |-> op, pc |-> "entra", pid |-> m.pid, cpu |-> c, PC |-> m.PC + 1]

LEMMA EfectoEjecutar ==
  ASSUME FormaCPUs, NEW c \in CPUs, Ejecutar(c)
  PROVE  \E m \in Maquinas :
           LET n  == cpu[c]
               op == Programa(n.pid)[n.PC + 1] IN
           /\ Otra(c, m) /\ MismaInt(m, n) /\ m.pid = n.pid /\ m.cola = n.cola
           /\ n.pc = "ejecuta" /\ m.pc = "control" /\ m.PC = n.PC + 1
           /\ m.res = (IF op = "CPU" THEN "sigue" ELSE "cede")
           /\ m.envie = (n.envie \/ op \in {"IO", "DUMP", "EXIT"})
           /\ hecho' = [hecho EXCEPT ![n.pid] = @ + 1]
           /\ manejadores' = IF op = "CPU" THEN manejadores ELSE manejadores \cup {Nuevo(n, c, op)}
<1> DEFINE n == cpu[c]
           op == Programa(n.pid)[n.PC + 1]
           r == IF op = "CPU" THEN "sigue" ELSE "cede"
           e == n.envie \/ op \in {"IO", "DUMP", "EXIT"}
           m == [n EXCEPT !.pc = "control", !.PC = n.PC + 1, !.res = r, !.envie = e]
<1>1. n \in Maquinas /\ n.pc = "ejecuta"
  BY DEF FormaCPUs, Ejecutar
<1>2. cpu' = [cpu EXCEPT ![c] = m]
  BY Zenon DEF Ejecutar
<1>3. /\ hecho' = [hecho EXCEPT ![n.pid] = @ + 1]
      /\ manejadores' = IF op = "CPU" THEN manejadores ELSE manejadores \cup {Nuevo(n, c, op)}
  BY Zenon DEF Ejecutar, Nuevo
<1>4. r \in {"sigue", "cede"} /\ e \in BOOLEAN /\ n.PC + 1 \in Nat
  BY <1>1 DEF Maquinas
<1> HIDE DEF r, e
<1>5. m \in Maquinas /\ MismaInt(m, n) /\ m.pid = n.pid /\ m.cola = n.cola
  BY <1>1, <1>4 DEF Maquinas, MismaInt
<1>6. m.pc = "control" /\ m.PC = n.PC + 1 /\ m.res = r /\ m.envie = e
  BY <1>1 DEF Maquinas
<1> HIDE DEF m
<1>7. Otra(c, m)
  BY <1>2, <1>5, CambiaCPU
<1> QED
  BY <1>1, <1>3, <1>5, <1>6, <1>7 DEF r, e

\* A process in the hands of a CPU that has executed an instruction of it.
Fuera(m) == [pid |-> m.pid, PC |-> m.PC]

LEMMA EfectoControlar ==
  ASSUME FormaCPUs, TiposCPUs, NEW c \in CPUs, Controlar(c)
  PROVE  \E m \in Maquinas :
           LET n == cpu[c] IN
           /\ Otra(c, m) /\ n.pc = "control" /\ m.hay = n.hay /\ m.resp = n.resp
           /\ m.envie = n.envie
           /\ \/ /\ n.hay /\ n.int = "espera" /\ m.pcInt = n.PC /\ m.int = "sigue"
                 /\ m.pc = "cede" /\ m.cola = n.cola /\ m.pid = n.pid /\ m.PC = n.PC
              \/ /\ ~n.hay /\ n.res = "sigue" /\ MismaInt(m, n) /\ m.pc = "libre"
                 /\ m.cola = Append(n.cola, Fuera(n))
              \/ /\ ~n.hay /\ n.res = "cede" /\ MismaInt(m, n)
                 /\ m.pc = "cede" /\ m.cola = n.cola /\ m.pid = n.pid /\ m.PC = n.PC
<1> DEFINE n == cpu[c]
           v == [n EXCEPT !.pc = "libre", !.pid = NADA, !.PC = 0, !.res = "cede"]
           k == Append(n.cola, Fuera(n))
           s == [n EXCEPT !.pcInt = n.PC, !.int = "sigue", !.pc = "cede"]
           t == [n EXCEPT !.pc = "libre", !.pid = NADA, !.PC = 0, !.res = "cede", !.cola = k]
           u == [n EXCEPT !.pc = "cede"]
<1>1. n \in Maquinas /\ n.pc = "control" /\ (n.hay => n.int = "espera") /\ n.pid \in Pids
  BY DEF FormaCPUs, Controlar, TiposCPUs, TipoCPU
<1>2. k \in Seq(PcbNat)
  <2>1. Fuera(n) \in PcbNat /\ n.cola \in Seq(PcbNat)
    BY <1>1 DEF Fuera, PcbNat, Maquinas
  <2> QED
    BY <2>1
<1>3. /\ n.hay => cpu' = [cpu EXCEPT ![c] = s]
      /\ ~n.hay /\ n.res = "sigue" => cpu' = [cpu EXCEPT ![c] = [v EXCEPT !.cola = Append(v.cola, Fuera(n))]]
      /\ ~n.hay /\ n.res = "cede" => cpu' = [cpu EXCEPT ![c] = u]
  <2>1. n.res \in {"sigue", "cede"} /\ n.hay \in BOOLEAN
    BY <1>1 DEF Maquinas
  <2>2. CASE n.hay
    BY <2>2 DEF Controlar
  <2>3. CASE ~n.hay /\ n.res = "sigue"
    BY <2>3, Zenon DEF Controlar, Vacia, Fuera
  <2>4. CASE ~n.hay /\ n.res = "cede"
    BY <2>4 DEF Controlar
  <2> QED
    BY <2>1, <2>2, <2>3, <2>4
<1>4. n.res \in {"sigue", "cede"} /\ n.hay \in BOOLEAN
  BY <1>1 DEF Maquinas
<1>5. CASE n.hay
  <2>1. s \in Maquinas /\ s.hay = n.hay /\ s.resp = n.resp /\ s.envie = n.envie
        /\ s.pcInt = n.PC /\ s.int = "sigue" /\ s.pc = "cede" /\ s.cola = n.cola
        /\ s.pid = n.pid /\ s.PC = n.PC
    BY <1>1 DEF Maquinas
  <2> HIDE DEF s
  <2>2. Otra(c, s)
    BY <1>3, <1>5, <2>1, CambiaCPU
  <2> QED
    BY <1>1, <1>5, <2>1, <2>2
<1>6. CASE ~n.hay /\ n.res = "sigue"
  <2>0. v.cola = n.cola /\ t = [v EXCEPT !.cola = k]
    BY <1>1 DEF Maquinas
  <2>1. t \in Maquinas /\ MismaInt(t, n) /\ t.envie = n.envie /\ t.pc = "libre" /\ t.cola = k
    BY <1>1, <1>2 DEF Maquinas, MismaInt
  <2>2. cpu' = [cpu EXCEPT ![c] = t]
    BY <1>3, <1>6, <2>0, Zenon
  <2> HIDE DEF t
  <2>3. Otra(c, t)
    BY <2>1, <2>2, CambiaCPU
  <2> QED
    BY <1>1, <1>6, <2>1, <2>3 DEF MismaInt
<1>7. CASE ~n.hay /\ n.res = "cede"
  <2>1. u \in Maquinas /\ MismaInt(u, n) /\ u.envie = n.envie /\ u.pc = "cede"
        /\ u.cola = n.cola /\ u.pid = n.pid /\ u.PC = n.PC
    BY <1>1 DEF Maquinas, MismaInt
  <2> HIDE DEF u
  <2>2. Otra(c, u)
    BY <1>3, <1>7, <2>1, CambiaCPU
  <2> QED
    BY <1>1, <1>7, <2>1, <2>2 DEF MismaInt
<1> QED
  BY <1>4, <1>5, <1>6, <1>7

LEMMA EfectoCeder ==
  ASSUME FormaCPUs, NEW c \in CPUs, Ceder(c)
  PROVE  \E m \in Maquinas :
           /\ Otra(c, m) /\ cpu[c].pc = "cede" /\ m.pc = "libre" /\ ~m.hay /\ ~m.envie
           /\ m.cola = cpu[c].cola /\ m.int = cpu[c].int /\ m.pcInt = cpu[c].pcInt
           /\ m.resp = cpu[c].resp
<1> DEFINE n == cpu[c]
           m == [n EXCEPT !.pc = "libre", !.pid = NADA, !.PC = 0, !.res = "cede",
                          !.hay = FALSE, !.envie = FALSE]
           v == [n EXCEPT !.pc = "libre", !.pid = NADA, !.PC = 0, !.res = "cede"]
<1>1. n \in Maquinas /\ n.pc = "cede"
  BY DEF FormaCPUs, Ceder
<1>2. cpu' = [cpu EXCEPT ![c] = [v EXCEPT !.hay = FALSE, !.envie = FALSE]]
  BY Zenon DEF Ceder, Vacia
<1>3. m = [v EXCEPT !.hay = FALSE, !.envie = FALSE]
  BY <1>1 DEF Maquinas
<1>4. /\ m \in Maquinas /\ m.pc = "libre" /\ ~m.hay /\ ~m.envie /\ m.cola = n.cola
      /\ m.int = n.int /\ m.pcInt = n.pcInt /\ m.resp = n.resp
  BY <1>1 DEF Maquinas
<1>5. cpu' = [cpu EXCEPT ![c] = m]
  BY <1>2, <1>3, Zenon
<1> HIDE DEF m
<1>6. Otra(c, m)
  BY <1>4, <1>5, CambiaCPU
<1> QED
  BY <1>1, <1>4, <1>6

LEMMA EfectoResponder ==
  ASSUME FormaCPUs, NEW c \in CPUs, Responder(c)
  PROVE  \E m \in Maquinas :
           /\ Otra(c, m) /\ cpu[c].int = "sigue" /\ m.int = "hecho" /\ m.hay = cpu[c].hay
           /\ MismoLazo(m, cpu[c])
           /\ m.resp = (IF cpu[c].envie THEN NINGUNO ELSE cpu[c].pcInt)
<1> DEFINE n == cpu[c]
           r == IF n.envie THEN NINGUNO ELSE n.pcInt
           m == [n EXCEPT !.int = "hecho", !.pcInt = NINGUNO, !.resp = r]
<1>1. n \in Maquinas /\ n.int = "sigue"
  BY DEF FormaCPUs, Responder
<1>2. cpu' = [cpu EXCEPT ![c] = m]
  BY DEF Responder
<1>3. r \in Nat \cup {NINGUNO}
  BY <1>1 DEF Maquinas
<1> HIDE DEF r
<1>4. m \in Maquinas /\ m.int = "hecho" /\ m.hay = n.hay /\ MismoLazo(m, n) /\ m.resp = r
  BY <1>1, <1>3 DEF Maquinas, MismoLazo
<1> HIDE DEF m
<1>5. Otra(c, m)
  BY <1>2, <1>4, CambiaCPU
<1> QED
  BY <1>1, <1>4, <1>5 DEF r

\* The two steps of the planner that touch what an interruption has to do with.
LEMMA EfectoInterrumpir ==
  ASSUME FormaCPUs, srt.cpu \in CPUs, Interrumpir
  PROVE  \E m \in Maquinas :
           /\ Otra(srt.cpu, m) /\ MismoLazo(m, cpu[srt.cpu]) /\ m.hay /\ m.int = "espera"
<1> DEFINE c == srt.cpu
           n == cpu[c]
           m == [n EXCEPT !.hay = TRUE, !.int = "espera", !.resp = NINGUNO]
<1>1. n \in Maquinas
  BY DEF FormaCPUs
<1>2. cpu' = [cpu EXCEPT ![c] = m]
  BY DEF Interrumpir
<1>3. m \in Maquinas /\ m.hay /\ m.int = "espera" /\ MismoLazo(m, n)
  BY <1>1 DEF Maquinas, MismoLazo
<1> HIDE DEF m, c
<1>4. Otra(c, m)
  BY <1>2, <1>3, CambiaCPU DEF c
<1> QED
  BY <1>3, <1>4 DEF c

LEMMA EfectoRecibir ==
  ASSUME FormaCPUs, srt.cpu \in CPUs, Recibir
  PROVE  \E m \in Maquinas :
           /\ Otra(srt.cpu, m) /\ MismoLazo(m, cpu[srt.cpu]) /\ m.int = "no"
           /\ m.hay = cpu[srt.cpu].hay /\ m.resp = cpu[srt.cpu].resp
<1> DEFINE c == srt.cpu
           n == cpu[c]
           m == [n EXCEPT !.int = "no"]
<1>1. n \in Maquinas
  BY DEF FormaCPUs
<1>2. cpu' = [cpu EXCEPT ![c] = m]
  BY DEF Recibir
<1>3. m \in Maquinas /\ m.hay = n.hay /\ m.int = "no" /\ MismoLazo(m, n) /\ m.resp = n.resp
  BY <1>1 DEF Maquinas, MismoLazo
<1> HIDE DEF m, c
<1>4. Otra(c, m)
  BY <1>2, <1>3, CambiaCPU DEF c
<1> QED
  BY <1>3, <1>4 DEF c

\* A CPU that gets a process: Enviar_proceso_a_cpu and manejarInit_Proc.
Entrega(c, p, n) ==
  /\ cpu' = [cpu EXCEPT ![c].cola = Append(@, [pid |-> p, PC |-> n])]
  /\ pidActual' = [pidActual EXCEPT ![c] = p]

LEMMA EfectoEntrega ==
  ASSUME FormaCPUs, NEW c \in CPUs, NEW p \in Pids, NEW n \in Nat, Entrega(c, p, n)
  PROVE  /\ \E m \in Maquinas :
              /\ Otra(c, m) /\ MismaInt(m, cpu[c]) /\ m.pc = cpu[c].pc /\ m.pid = cpu[c].pid
              /\ m.PC = cpu[c].PC /\ m.res = cpu[c].res /\ m.envie = cpu[c].envie
              /\ m.cola = Append(cpu[c].cola, [pid |-> p, PC |-> n])
         /\ pidActual' \in [CPUs -> Pids \cup {NADA}] /\ pidActual'[c] = p
         /\ \A d \in CPUs : d # c => pidActual'[d] = pidActual[d]
<1> DEFINE o == cpu[c]
           k == Append(o.cola, [pid |-> p, PC |-> n])
           m == [o EXCEPT !.cola = k]
<1>1. o \in Maquinas /\ o.cola \in Seq(PcbNat)
  BY DEF FormaCPUs, Maquinas
<1>2. k \in Seq(PcbNat)
  <2>1. [pid |-> p, PC |-> n] \in PcbNat
    BY DEF PcbNat
  <2> QED
    BY <1>1, <2>1
<1>3. cpu' = [cpu EXCEPT ![c] = m] /\ pidActual' = [pidActual EXCEPT ![c] = p]
  BY DEF Entrega
<1> HIDE DEF k
<1>4. m \in Maquinas /\ MismaInt(m, o) /\ m.pc = o.pc /\ m.pid = o.pid /\ m.PC = o.PC
      /\ m.res = o.res /\ m.envie = o.envie /\ m.cola = k
  BY <1>1, <1>2 DEF Maquinas, MismaInt
<1> HIDE DEF m
<1>5. Otra(c, m)
  BY <1>3, <1>4, CambiaCPU
<1>6. /\ pidActual' \in [CPUs -> Pids \cup {NADA}] /\ pidActual'[c] = p
      /\ \A d \in CPUs : d # c => pidActual'[d] = pidActual[d]
  BY <1>3 DEF FormaCPUs
<1> QED
  BY <1>4, <1>5, <1>6 DEF k

---------------------------------------------------------------------------
(* Types, step by step. *)

LEMMA CpusDeLista == ASSUME InvAviso PROVE ListaCPUs \subseteq CPUs
BY CPUsConectadas DEF InvAviso, TiposAviso, TiposColas

\* Who does not touch the CPUs.
LEMMA PasoFormaCPUs ==
  ASSUME InvFormas, [Next]_vars PROVE FormaCPUs'
<1>1. FormaCPUs /\ TiposCPUs /\ ListaCPUs \subseteq CPUs
  BY CpusDeLista DEF InvFormas, InvAviso, TiposAviso
<1>2. ASSUME NEW c \in ListaCPUs, PasoCPU(c) PROVE FormaCPUs'
  <2>1. c \in CPUs /\ pidActual' = pidActual
    BY <1>1, <1>2 DEF PasoCPU, Tomar, Ejecutar, Controlar, Ceder, Responder, cpusVars
  <2>2. \E m \in Maquinas : Otra(c, m)
    BY <1>1, <1>2, <2>1, EfectoTomar, EfectoEjecutar, EfectoControlar, EfectoCeder,
       EfectoResponder DEF PasoCPU
  <2> QED
    BY <1>1, <2>1, <2>2 DEF Otra, FormaCPUs
<1>3. CASE Interrumpir \/ Recibir
  <2>1. srt.cpu \in CPUs /\ pidActual' = pidActual
    BY <1>1, <1>3 DEF InvFormas, FormaRonda, Interrumpir, Recibir, cpusVars, ConPid, ConCPU
  <2>2. \E m \in Maquinas : Otra(srt.cpu, m)
    BY <1>1, <1>3, <2>1, EfectoInterrumpir, EfectoRecibir
  <2> QED
    BY <1>1, <2>1, <2>2 DEF Otra, FormaCPUs
<1>4. CASE Enviar
  <2> DEFINE c == srt.cpu
  <2>1. c \in CPUs /\ srt.pid \in Pids /\ srt.PC \in Nat
    BY <1>1, <1>4 DEF InvFormas, FormaRonda, InvAviso, TiposAviso, TiposRonda, Enviar,
                      ConPid, ConCPU, Rondas
  <2>2. Entrega(c, srt.pid, srt.PC)
    BY <1>4 DEF Enviar, Entrega
  <2> HIDE DEF c
  <2> QED
    BY <1>1, <2>1, <2>2, EfectoEntrega DEF Otra, FormaCPUs
<1>5. ASSUME NEW h \in manejadores, AtenderInit(h) PROVE FormaCPUs'
  <2> DEFINE c == h.cpu
  <2>1. c \in CPUs /\ h.pid \in Pids /\ h.PC \in Nat
    BY <1>1, <1>5 DEF InvFormas, FormaManejadores, EsManejador, InvAviso, TiposAviso,
                      TiposManejadores, TipoManejador
  <2>2. Entrega(c, h.pid, h.PC)
    BY <1>5 DEF AtenderInit, Entrega
  <2> HIDE DEF c
  <2> QED
    BY <1>1, <2>1, <2>2, EfectoEntrega DEF Otra, FormaCPUs
<1>6. CASE UNCHANGED <<cpu, pidActual>>
  BY <1>1, <1>6 DEF FormaCPUs
<1>7. ASSUME PasoSRT PROVE FormaCPUs'
  <2>1. CASE Despertar \/ Mirar \/ MirarOtra \/ MirarExec \/ Buscar
    BY <1>6, <2>1 DEF Despertar, Mirar, MirarOtra, MirarExec, Buscar, cpusVars
  <2>2. CASE Elegir \/ ReadyAExecute \/ Comparar
    BY <1>6, <2>2 DEF Elegir, ReadyAExecute, Comparar, Panico, cpusVars
  <2>3. CASE Actualizar \/ Desalojar \/ DesalojarEstado
    BY <1>6, <2>3 DEF Actualizar, Desalojar, DesalojarEstado, Panico, cpusVars
  <2> QED
    BY <1>3, <1>4, <1>7, <2>1, <2>2, <2>3 DEF PasoSRT
<1>8. ASSUME NEW h \in manejadores, PasoManejador(h) PROVE FormaCPUs'
  <2>1. CASE AtenderIO(h) \/ AtenderDump(h) \/ TerminarDump(h)
    BY <1>6, <2>1 DEF AtenderIO, AtenderDump, TerminarDump, cpusVars
  <2>2. CASE FinEnCola(h) \/ FinEnMapa(h) \/ Liberar(h)
    BY <1>6, <2>2 DEF FinEnCola, FinEnMapa, Liberar, Panico, cpusVars
  <2> QED
    BY <1>5, <1>8, <2>1, <2>2 DEF PasoManejador
<1>9. ASSUME NEW p \in Pids, PasoEntorno(p) \/ PasarTiempo(p) PROVE FormaCPUs'
  BY <1>6, <1>9 DEF PasoEntorno, Llegar, FinIO, PasarTiempo, cpusVars
<1>10. CASE Avisar
  BY <1>6, <1>10 DEF Avisar, cpusVars
<1>11. CASE UNCHANGED vars
  BY <1>6, <1>11 DEF vars, cpusVars
<1> QED
  BY <1>2, <1>7, <1>8, <1>9, <1>10, <1>11 DEF Next

\* The CPUs are the ones that connected before the first process.
LEMMA MismasCPUs ==
  ASSUME [Next]_vars PROVE regimen' = regimen /\ ListaCPUs' = ListaCPUs
<1>1. CASE PasoSRT
  BY <1>1 DEF PasoSRT, Despertar, Mirar, MirarOtra, Elegir, Enviar, ReadyAExecute, Comparar,
     Buscar, MirarExec, Interrumpir, Recibir, Actualizar, Desalojar, DesalojarEstado,
     Panico, ListaCPUs
<1>2. ASSUME NEW h \in manejadores, PasoManejador(h)
      PROVE  regimen' = regimen /\ ListaCPUs' = ListaCPUs
  BY <1>2 DEF PasoManejador, AtenderIO, AtenderDump, TerminarDump, AtenderInit, FinEnCola,
     FinEnMapa, Liberar, Panico, ListaCPUs
<1>3. ASSUME NEW c \in ListaCPUs, PasoCPU(c) PROVE regimen' = regimen /\ ListaCPUs' = ListaCPUs
  BY <1>3 DEF PasoCPU, Tomar, Ejecutar, Controlar, Ceder, Responder, ListaCPUs
<1>4. ASSUME NEW p \in Pids, PasoEntorno(p) \/ PasarTiempo(p)
      PROVE  regimen' = regimen /\ ListaCPUs' = ListaCPUs
  BY <1>4 DEF PasoEntorno, Llegar, FinIO, PasarTiempo, ListaCPUs
<1>5. CASE Avisar \/ UNCHANGED vars
  BY <1>5 DEF Avisar, vars, ListaCPUs
<1> QED
  BY <1>1, <1>2, <1>3, <1>4, <1>5 DEF Next

\* Handlers start in Ejecutar, and go on as they were.
LEMMA PasoFormaManejadores ==
  ASSUME InvFormas, [Next]_vars PROVE FormaManejadores'
<1>1. FormaManejadores /\ FormaCPUs /\ ListaCPUs \subseteq CPUs /\ ListaCPUs' = ListaCPUs
  BY CpusDeLista, MismasCPUs DEF InvFormas
<1>2. CASE manejadores' = manejadores
  BY <1>1, <1>2 DEF FormaManejadores, EsManejador
<1>3. ASSUME NEW c \in ListaCPUs, Ejecutar(c) PROVE FormaManejadores'
  <2>1. PICK op : manejadores' \subseteq manejadores \cup {Nuevo(cpu[c], c, op)}
    BY <1>1, <1>3, EfectoEjecutar
  <2>2. cpu[c] \in Maquinas
    BY <1>1, <1>3 DEF FormaCPUs
  <2>3. cpu[c].PC + 1 \in Nat
    BY <2>2 DEF Maquinas
  <2>4. ASSUME NEW h, h = Nuevo(cpu[c], c, op) PROVE EsManejador(h)
    BY <1>3, <2>3, <2>4 DEF EsManejador, Nuevo
  <2> QED
    BY <1>1, <2>1, <2>4 DEF FormaManejadores, EsManejador
<1>4. ASSUME NEW h \in manejadores, PasoManejador(h) PROVE FormaManejadores'
  <2>1. EsManejador(h)
    BY <1>1, <1>4 DEF FormaManejadores
  <2>2. ASSUME NEW pc PROVE EsManejador([h EXCEPT !.pc = pc])
    BY <2>1 DEF EsManejador
  <2>3. \/ manejadores' = manejadores \/ Termina(h) \/ \E pc : Sigue(h, pc)
    <3>1. CASE AtenderIO(h)
      BY <3>1 DEF AtenderIO
    <3>2. CASE AtenderDump(h)
      BY <3>2 DEF AtenderDump
    <3>3. CASE TerminarDump(h)
      BY <3>3 DEF TerminarDump
    <3>4. CASE AtenderInit(h) \/ FinEnCola(h) \/ FinEnMapa(h) \/ Liberar(h)
      BY <3>4 DEF AtenderInit, FinEnCola, FinEnMapa, Liberar, Panico
    <3> QED
      BY <1>4, <3>1, <3>2, <3>3, <3>4 DEF PasoManejador
  <2>4. \A g \in manejadores' : g \in manejadores \/ \E pc : g = [h EXCEPT !.pc = pc]
    BY <2>3 DEF Termina, Sigue
  <2> QED
    BY <1>1, <2>2, <2>4 DEF FormaManejadores, EsManejador
<1>5. ASSUME NEW c \in ListaCPUs, PasoCPU(c), ~Ejecutar(c) PROVE manejadores' = manejadores
  BY <1>5 DEF PasoCPU, Tomar, Controlar, Ceder, Responder
<1>6. ASSUME PasoSRT PROVE manejadores' = manejadores
  BY <1>6 DEF PasoSRT, Despertar, Mirar, MirarOtra, Elegir, Enviar, ReadyAExecute, Comparar,
     Buscar, MirarExec, Interrumpir, Recibir, Actualizar, Desalojar, DesalojarEstado, Panico
<1>7. ASSUME NEW p \in Pids, PasoEntorno(p) \/ PasarTiempo(p) PROVE manejadores' = manejadores
  BY <1>7 DEF PasoEntorno, Llegar, FinIO, PasarTiempo
<1>8. ASSUME Avisar \/ UNCHANGED vars PROVE manejadores' = manejadores
  BY <1>8 DEF Avisar, vars
<1> QED
  BY <1>2, <1>3, <1>4, <1>5, <1>6, <1>7, <1>8 DEF Next

---------------------------------------------------------------------------
(* What the planner chooses exists. *)

LEMMA OrdenMismos ==
  ASSUME ready \in Seq(Pids), IsInjective(ready), NEW s \in Ordenes
  PROVE  /\ s \in Seq(Pids) /\ IsInjective(s) /\ Len(s) = Len(ready)
         /\ \A q : Esta(s, q) <=> Esta(ready, q)
         /\ ready # <<>> => s # <<>> /\ s[1] \in Pids /\ Esta(ready, s[1])
<1>1. s \in [DOMAIN ready -> {ready[i] : i \in DOMAIN ready}] /\ \A i \in DOMAIN ready : Esta(s, ready[i])
  BY DEF Ordenes, Ordenadas
<1>2. /\ s \in Seq(Pids) /\ IsInjective(s) /\ Len(s) = Len(ready)
      /\ \A q : Esta(s, q) <=> Esta(ready, q)
  BY <1>1, OrdenExacto
<1>3. ASSUME ready # <<>> PROVE s # <<>> /\ s[1] \in Pids /\ Esta(ready, s[1])
  <2>1. s # <<>> /\ 1 \in DOMAIN s /\ s[1] \in Pids
    BY <1>2, <1>3
  <2>2. Esta(s, s[1])
    BY <2>1 DEF Esta
  <2> QED
    BY <1>2, <2>1, <2>2
<1> QED
  BY <1>2, <1>3

\* The first free CPU of ListaCPUs.
PrimeraLibre ==
  regimen.cpus[CHOOSE i \in DOMAIN regimen.cpus :
    /\ libre[regimen.cpus[i]]
    /\ \A j \in 1 .. i - 1 : ~libre[regimen.cpus[j]]]

LEMMA PrimeraLibreExiste ==
  ASSUME regimen \in Regimenes, HayLibre PROVE PrimeraLibre \in ListaCPUs /\ libre[PrimeraLibre]
<1> DEFINE s == regimen.cpus
           I == {i \in DOMAIN s : libre[s[i]]}
<1>1. s \in Seq(CPUs)
  BY RegimenesOK
<1> HIDE DEF s
<1>2. I \subseteq Nat /\ DOMAIN s = 1 .. Len(s) /\ Len(s) \in Nat
  BY <1>1
<1>3. ListaCPUs = {s[i] : i \in DOMAIN s}
  BY <1>2 DEF ListaCPUs, ToSet, s
<1>4. I # {}
  BY <1>3 DEF HayLibre
<1>5. PICK k \in I : \A j \in I : k <= j
  <2> HIDE DEF I
  <2> QED
    BY <1>2, <1>4, MinimoExiste
<1>6. \A j \in 1 .. k - 1 : ~libre[s[j]]
  <2> SUFFICES ASSUME NEW j \in 1 .. k - 1, libre[s[j]] PROVE FALSE
    OBVIOUS
  <2>1. j \in DOMAIN s /\ ~(k <= j)
    BY <1>2, <1>5
  <2> QED
    BY <1>5, <2>1
<1>7. \E i \in DOMAIN s : libre[s[i]] /\ \A j \in 1 .. i - 1 : ~libre[s[j]]
  BY <1>5, <1>6
<1> DEFINE i == CHOOSE i \in DOMAIN s : libre[s[i]] /\ \A j \in 1 .. i - 1 : ~libre[s[j]]
<1>8. i \in DOMAIN s /\ libre[s[i]]
  BY <1>7
<1>9. PrimeraLibre = s[i]
  BY DEF PrimeraLibre, s
<1> HIDE DEF i
<1> QED
  BY <1>3, <1>8, <1>9

LEMMA MenorRestanteExiste ==
  ASSUME execute \in Seq(Pids), execute # <<>>, restante \in [Pids -> Nat]
  PROVE  DeMenorRestante \in Pids /\ Esta(execute, DeMenorRestante)
<1> DEFINE D == DOMAIN execute
           v(i) == restante[execute[i]]
           V == {v(i) : i \in D}
<1>1. D = 1 .. Len(execute) /\ Len(execute) \in Nat /\ 1 \in D /\ \A i \in D : execute[i] \in Pids
  OBVIOUS
<1>2. V \subseteq Nat /\ V # {}
  BY <1>1
<1>3. PICK m \in V : \A w \in V : m <= w
  <2> HIDE DEF V
  <2> QED
    BY <1>2, MinimoExiste
<1> DEFINE I == {i \in D : v(i) = m}
<1>4. I \subseteq Nat /\ I # {}
  BY <1>1, <1>3
<1>5. PICK k \in I : \A j \in I : k <= j
  <2> HIDE DEF I
  <2> QED
    BY <1>4, MinimoExiste
<1>6. k \in D /\ v(k) = m /\ m \in Nat
  BY <1>2, <1>3, <1>5
<1>7. \A j \in D : v(k) <= v(j)
  BY <1>3, <1>6
<1>8. ASSUME NEW j \in 1 .. k - 1 PROVE v(k) < v(j)
  <2>1. j \in D /\ ~(k <= j)
    BY <1>1, <1>6
  <2>2. v(j) # m /\ m <= v(j) /\ v(j) \in Nat
    BY <1>1, <1>2, <1>3, <1>5, <2>1
  <2> QED
    BY <1>6, <2>2
<1>9. \E i \in D : (\A j \in D : v(i) <= v(j)) /\ (\A j \in 1 .. i - 1 : v(i) < v(j))
  BY <1>6, <1>7, <1>8
<1> DEFINE i == CHOOSE i \in D : (\A j \in D : v(i) <= v(j)) /\ (\A j \in 1 .. i - 1 : v(i) < v(j))
<1>10. i \in D
  BY <1>9
<1>11. DeMenorRestante = execute[i]
  BY DEF DeMenorRestante
<1> HIDE DEF i
<1> QED
  BY <1>1, <1>10, <1>11 DEF Esta

\* A round that goes on, and the steps that choose.
LEMMA EfectoSigueEn ==
  ASSUME srt \in Rondas, NEW pc, SigueEn(pc)
  PROVE  /\ srt' = [pc |-> pc, cpu |-> srt.cpu, exec |-> srt.exec, pid |-> srt.pid, PC |-> srt.PC]
         /\ srt'.pc = pc /\ srt'.cpu = srt.cpu /\ srt'.exec = srt.exec
         /\ srt'.pid = srt.pid /\ srt'.PC = srt.PC
BY DEF Rondas, SigueEn

LEMMA EfectoElegir ==
  ASSUME InvFormas, Elegir, ~Faltan(ready)
  PROVE  /\ \E c \in ListaCPUs, p \in Pids :
              /\ libre[c] /\ Esta(ready, p) /\ mapa[p] # NADA /\ mapa[p].PC \in Nat
              /\ libre' = [libre EXCEPT ![c] = FALSE]
              /\ srt'.pc = "envia" /\ srt'.cpu = c /\ srt'.exec = srt.exec /\ srt'.pid = p
              /\ srt'.PC = mapa[p].PC /\ srt' \in Rondas
         /\ ready' \in Seq(Pids) /\ IsInjective(ready') /\ Len(ready') = Len(ready)
         /\ \A q : Esta(ready', q) <=> Esta(ready, q)
         /\ UNCHANGED <<regimen, mapa, execute, restante, pidActual, aviso, porAvisar,
                        manejadores, enIO, cpu, hecho, panico>>
<1> DEFINE c == PrimeraLibre
<1>1. /\ ready \in Seq(Pids) /\ IsInjective(ready) /\ regimen \in Regimenes /\ HayLibre
      /\ ready # <<>> /\ srt.pc = "elige" /\ srt \in Rondas
  BY DEF InvFormas, InvAviso, TiposAviso, TiposColas, FormaColas, RondaConTrabajo, Elegir, ConReady,
         FormaRonda
<1>2. PICK s \in Ordenes :
        /\ ready' = s
        /\ srt' = [srt EXCEPT !.pc = "envia", !.cpu = c, !.pid = s[1], !.PC = mapa[s[1]].PC]
  BY DEF Elegir, PrimeraLibre
<1>3. /\ libre' = [libre EXCEPT ![c] = FALSE]
      /\ UNCHANGED <<regimen, mapa, execute, restante, pidActual, aviso, porAvisar,
                     manejadores, enIO, cpu, hecho, panico>>
  BY DEF Elegir, PrimeraLibre
<1> DEFINE p == s[1]
           n == mapa[p].PC
<1>4. /\ s \in Seq(Pids) /\ IsInjective(s) /\ Len(s) = Len(ready)
      /\ (\A q : Esta(s, q) <=> Esta(ready, q)) /\ p \in Pids /\ Esta(ready, p)
  BY <1>1, OrdenMismos
<1>5. mapa[p] # NADA /\ n \in Nat
  BY <1>4 DEF Faltan, ToSet, Esta, InvFormas, FormaColas
<1>6. c \in ListaCPUs /\ libre[c] /\ c \in CPUs
  BY <1>1, PrimeraLibreExiste, CPUsConectadas
<1> HIDE DEF c, p, n
<1>7. /\ srt'.pc = "envia" /\ srt'.cpu = c /\ srt'.exec = srt.exec /\ srt'.pid = p
      /\ srt'.PC = n /\ srt' \in Rondas
  BY <1>1, <1>2, <1>4, <1>5, <1>6 DEF Rondas, p, n, ConReady, ConPid
<1> QED
  BY <1>2, <1>3, <1>4, <1>5, <1>6, <1>7 DEF n

LEMMA EfectoComparar ==
  ASSUME InvFormas, Comparar, execute # <<>>, ~Faltan(execute), ~Faltan(ready)
  PROVE  /\ srt' = SrtEsperando \/
              \E e \in Pids :
                /\ Esta(execute, e) /\ srt'.pc = "busca" /\ srt'.exec = e /\ srt' \in Rondas
         /\ ready' \in Seq(Pids) /\ IsInjective(ready') /\ Len(ready') = Len(ready)
         /\ \A q : Esta(ready', q) <=> Esta(ready, q)
         /\ UNCHANGED <<regimen, mapa, execute, restante, cpusVars, aviso, porAvisar,
                        manejadores, enIO, cpu, hecho, panico>>
<1> DEFINE e == DeMenorRestante
<1>1. /\ ready \in Seq(Pids) /\ IsInjective(ready) /\ execute \in Seq(Pids)
      /\ restante \in [Pids -> Nat] /\ srt \in Rondas
  BY DEF InvFormas, InvAviso, TiposAviso, TiposColas, FormaColas, FormaRonda
<1>2. PICK s \in Ordenes :
        /\ ready' = s
        /\ srt' = IF mapa[s[1]].est < restante[e] THEN [srt EXCEPT !.pc = "busca", !.exec = e]
                  ELSE SrtEsperando
  BY DEF Comparar
<1>3. UNCHANGED <<regimen, mapa, execute, restante, cpusVars, aviso, porAvisar,
                  manejadores, enIO, cpu, hecho, panico>>
  BY DEF Comparar
<1>4. /\ s \in Seq(Pids) /\ IsInjective(s) /\ Len(s) = Len(ready)
      /\ (\A q : Esta(s, q) <=> Esta(ready, q))
  BY <1>1, OrdenMismos
<1>5. e \in Pids /\ Esta(execute, e)
  BY <1>1, MenorRestanteExiste
<1> HIDE DEF e
<1>6. \/ srt' = SrtEsperando
      \/ srt'.pc = "busca" /\ srt'.exec = e /\ srt' \in Rondas
  BY <1>1, <1>2, <1>5 DEF Rondas, ConReady
<1> QED
  BY <1>2, <1>3, <1>4, <1>5, <1>6

LEMMA EfectoBuscar ==
  ASSUME InvFormas, Buscar
  PROVE  /\ \/ srt' = SrtEsperando /\ panico' = panico
            \/ srt' = srt /\ panico' = TRUE /\ \E p \in Pids : Esta(ready, p) /\ mapa[p] = NADA
            \/ \E c \in ListaCPUs, p \in Pids :
                 /\ ~libre[c] /\ pidActual[c] = srt.exec
                 /\ Esta(ready, p) /\ mapa[p] # NADA /\ mapa[p].PC \in Nat
                 /\ srt'.pc = "mira_exec" /\ srt'.cpu = c /\ srt'.exec = srt.exec
                 /\ srt'.pid = p /\ srt'.PC = mapa[p].PC /\ srt' \in Rondas /\ panico' = panico
         /\ srt' = SrtEsperando => \A c \in ListaCPUs : libre[c] \/ pidActual[c] # srt.exec
         /\ UNCHANGED <<regimen, kernelVars, cpusVars, aviso, porAvisar, manejadores, enIO,
                        cpu, hecho>>
<1> DEFINE suyas == {c \in ListaCPUs : ~libre[c] /\ pidActual[c] = srt.exec}
           p == ready[1]
<1>1. ready \in Seq(Pids) /\ ready # <<>> /\ srt \in Rondas /\ srt.pc = "busca"
  BY DEF InvFormas, InvAviso, TiposAviso, TiposColas, RondaConTrabajo, Buscar, ConReady, FormaRonda
<1>2. p \in Pids /\ Esta(ready, p)
  <2>1. 1 \in DOMAIN ready
    BY <1>1
  <2> QED
    BY <1>1, <2>1 DEF Esta
<1>3. UNCHANGED <<regimen, kernelVars, cpusVars, aviso, porAvisar, manejadores, enIO,
                  cpu, hecho>>
  BY DEF Buscar
<1>4. srt # SrtEsperando
  BY <1>1 DEF SrtEsperando
<1>5. CASE suyas = {}
  <2>1. srt' = SrtEsperando /\ panico' = panico
    BY <1>5 DEF Buscar
  <2> QED
    BY <1>3, <1>5, <2>1
<1>6. CASE suyas # {} /\ mapa[p] = NADA
  <2>1. panico' = TRUE /\ srt' = srt
    BY <1>6 DEF Buscar
  <2> QED
    BY <1>2, <1>3, <1>4, <1>6, <2>1
<1>7. CASE suyas # {} /\ mapa[p] # NADA
  <2> DEFINE n == mapa[p].PC
  <2>1. PICK c \in suyas :
          srt' = [srt EXCEPT !.pc = "mira_exec", !.cpu = c, !.pid = p, !.PC = n]
    BY <1>7 DEF Buscar
  <2>2. panico' = panico
    BY <1>7 DEF Buscar
  <2>3. n \in Nat /\ c \in ListaCPUs /\ c \in CPUs
    BY <1>2, <1>7, CpusDeLista DEF InvFormas, FormaColas
  <2> HIDE DEF p, n
  <2>4. /\ srt'.pc = "mira_exec" /\ srt'.cpu = c /\ srt'.exec = srt.exec
        /\ srt'.pid = p /\ srt'.PC = n /\ srt' \in Rondas
    BY <1>1, <1>2, <2>1, <2>3 DEF Rondas, ConReady, ConPid, ConCPU
  <2>5. srt' # SrtEsperando
    BY <2>4 DEF SrtEsperando
  <2> QED
    BY <1>2, <1>3, <1>7, <2>2, <2>3, <2>4, <2>5 DEF n
<1> QED
  BY <1>5, <1>6, <1>7

LEMMA EsperandoForma == SrtEsperando \in Rondas /\ SrtEsperando.pc = "espera"
BY DEF SrtEsperando, Rondas

LEMMA PasoFormaRonda ==
  ASSUME InvFormas, [Next]_vars PROVE FormaRonda'
<1>1. FormaRonda /\ srt \in Rondas /\ ListaCPUs' = ListaCPUs
  BY MismasCPUs DEF InvFormas, FormaRonda
<1>2. CASE srt' = srt
  BY <1>1, <1>2 DEF FormaRonda
<1>3. CASE srt' = SrtEsperando
  BY <1>3, EsperandoForma DEF FormaRonda, ConExec, ConCPU, ConPid
<1>4. ASSUME NEW pc, SigueEn(pc), pc \in {"espera", "mira", "mira_otra"} \cup ConReady,
             pc \in ConExec => srt.pc \in ConExec, pc \in ConPid => srt.pc \in ConPid
      PROVE  FormaRonda'
  <2>1. /\ srt'.pc = pc /\ srt'.cpu = srt.cpu /\ srt'.exec = srt.exec /\ srt' \in Rondas
    BY <1>1, <1>4, EfectoSigueEn DEF Rondas
  <2> QED
    BY <1>1, <1>4, <2>1 DEF FormaRonda
<1>5. CASE Elegir
  <2>1. CASE ~Faltan(ready)
    BY <2>1, <1>1, <1>5, EfectoElegir DEF FormaRonda, ConExec, ConCPU
  <2> QED
    BY <2>1, <1>2, <1>5 DEF Elegir, Panico
<1>6. CASE Comparar
  <2>1. CASE ~(execute = <<>> \/ Faltan(execute) \/ Faltan(ready))
    BY <2>1, <1>1, <1>3, <1>6, EfectoComparar DEF FormaRonda, ConPid, ConCPU
  <2> QED
    BY <2>1, <1>2, <1>6 DEF Comparar, Panico
<1>7. CASE Buscar
  <2>1. srt.exec \in Pids
    BY <1>1, <1>7 DEF Buscar, FormaRonda, ConExec
  <2> QED
    BY <2>1, <1>1, <1>2, <1>3, <1>7, EfectoBuscar DEF FormaRonda
<1>8. ASSUME PasoSRT, ~Elegir, ~Comparar, ~Buscar PROVE FormaRonda'
  <2> USE DEF ConReady, ConExec, ConPid, ConCPU
  <2>1. CASE Despertar \/ Mirar \/ MirarOtra
    BY <1>4, <2>1 DEF Despertar, Mirar, MirarOtra
  <2>2. CASE Enviar \/ MirarExec \/ Interrumpir
    BY <1>4, <2>2 DEF Enviar, MirarExec, Interrumpir
  <2>3. CASE ReadyAExecute
    BY <1>2, <1>3, <2>3 DEF ReadyAExecute, Panico
  <2>4. CASE Recibir
    <3>1. srt.pc = "respuesta" /\ (srt' = SrtEsperando \/ SigueEn("actualiza"))
      BY <2>4 DEF Recibir, SigueEn
    <3> QED
      BY <1>3, <1>4, <3>1
  <2>5. CASE Actualizar \/ DesalojarEstado
    BY <1>2, <1>4, <2>5 DEF Actualizar, DesalojarEstado, Panico
  <2>6. CASE Desalojar
    BY <1>4, <2>6 DEF Desalojar
  <2> QED
    BY <1>8, <2>1, <2>2, <2>3, <2>4, <2>5, <2>6 DEF PasoSRT
<1>9. ASSUME NEW h \in manejadores, PasoManejador(h) PROVE srt' = srt
  BY <1>9 DEF PasoManejador, AtenderIO, AtenderDump, TerminarDump, AtenderInit, FinEnCola,
     FinEnMapa, Liberar, Panico
<1>10. ASSUME NEW c \in ListaCPUs, PasoCPU(c) PROVE srt' = srt
  BY <1>10 DEF PasoCPU, Tomar, Ejecutar, Controlar, Ceder, Responder
<1>11. ASSUME NEW p \in Pids, PasoEntorno(p) \/ PasarTiempo(p) PROVE srt' = srt
  BY <1>11 DEF PasoEntorno, Llegar, FinIO, PasarTiempo
<1>12. ASSUME Avisar \/ UNCHANGED vars PROVE srt' = srt
  BY <1>12 DEF Avisar, vars
<1> QED
  BY <1>2, <1>5, <1>6, <1>7, <1>8, <1>9, <1>10, <1>11, <1>12 DEF Next

---------------------------------------------------------------------------

LEMMA AgregarExacto ==
  ASSUME NEW s \in Seq(Pids), IsInjective(s), NEW p \in Pids
  PROVE  /\ IsInjective(Agregar(s, p)) /\ Agregar(s, p) \in Seq(Pids)
         /\ \A q : Esta(Agregar(s, p), q) <=> Esta(s, q) \/ q = p
BY AppendExacto DEF Agregar

\* One entry of the map changes.
LEMMA OtraEntrada ==
  ASSUME InvFormas, NEW p \in Pids, NEW v, mapa' = [mapa EXCEPT ![p] = v],
         v # NADA => v.PC \in Nat
  PROVE  \A q \in Pids : mapa'[q] # NADA => mapa'[q].PC \in Nat
BY DEF InvFormas, InvAviso, TiposAviso, TiposColas, FormaColas

\* The entry of a process, by its fields.
LEMMA Entrada ==
  ASSUME InvFormas, NEW p \in Pids, mapa[p] # NADA
  PROVE  /\ mapa[p] \in Procesos /\ mapa[p].PC \in Nat /\ mapa[p].est \in Estimaciones
         /\ mapa[p].est \in Nat
         /\ mapa[p] = [estado |-> mapa[p].estado, PC |-> mapa[p].PC, est |-> mapa[p].est]
<1>1. mapa[p] \in Procesos /\ mapa[p].PC \in Nat
  BY DEF InvFormas, InvAviso, TiposAviso, TiposColas, FormaColas
<1> QED
  BY <1>1, RegimenesOK DEF Procesos

\* An entry of the map, and not the mark of a process that ended.
LEMMA SinNada ==
  ASSUME NEW e \in Estados, NEW n \in Nat, NEW x \in Estimaciones,
         NEW v, v = [estado |-> e, PC |-> n, est |-> x]
  PROVE  v # NADA /\ v.estado = e /\ v.PC = n /\ v.est = x
<1>1. v \in [estado : {"NEW", "READY", "EXECUTE", "BLOCKED"}, PC : Int, est : Estimaciones]
  BY DEF Estados
<1> QED
  BY <1>1, NadaOK

LEMMA OtroEstado ==
  ASSUME InvFormas, NEW p \in Pids, mapa[p] # NADA, NEW e \in Estados,
         mapa' = [mapa EXCEPT ![p].estado = e]
  PROVE  /\ mapa'[p] = [estado |-> e, PC |-> mapa[p].PC, est |-> mapa[p].est]
         /\ mapa'[p] # NADA
         /\ \A q \in Pids : q # p => mapa'[q] = mapa[q]
         /\ \A q \in Pids : mapa'[q] # NADA => mapa'[q].PC \in Nat
<1> DEFINE v == [mapa[p] EXCEPT !.estado = e]
<1>1. mapa' = [mapa EXCEPT ![p] = v] /\ mapa \in [Pids -> Procesos \cup {NADA}]
  BY DEF InvFormas, InvAviso, TiposAviso, TiposColas
<1>2. v = [estado |-> e, PC |-> mapa[p].PC, est |-> mapa[p].est] /\ v.PC \in Nat
  <2>1. mapa[p] \in Procesos /\ mapa[p].PC \in Nat
    BY Entrada
  <2>2. v = [estado |-> e, PC |-> mapa[p].PC, est |-> mapa[p].est]
    BY <2>1 DEF Procesos
  <2> HIDE DEF v
  <2> QED
    BY <2>1, <2>2
<1> HIDE DEF v
<1>3. v # NADA
  <2>1. mapa[p].estado \in Estados /\ mapa[p].PC \in Nat /\ mapa[p].est \in Estimaciones
    BY Entrada DEF Procesos
  <2> QED
    BY <1>2, <2>1, SinNada
<1> QED
  BY <1>1, <1>2, <1>3, OtraEntrada

LEMMA OtroPC ==
  ASSUME InvFormas, NEW p \in Pids, mapa[p] # NADA, NEW n \in Nat, mapa' = [mapa EXCEPT ![p].PC = n]
  PROVE  /\ mapa'[p] = [estado |-> mapa[p].estado, PC |-> n, est |-> mapa[p].est]
         /\ mapa'[p] # NADA
         /\ \A q \in Pids : q # p => mapa'[q] = mapa[q]
         /\ \A q \in Pids : mapa'[q] # NADA => mapa'[q].PC \in Nat
<1> DEFINE v == [mapa[p] EXCEPT !.PC = n]
<1>1. mapa' = [mapa EXCEPT ![p] = v] /\ mapa \in [Pids -> Procesos \cup {NADA}]
  BY DEF InvFormas, InvAviso, TiposAviso, TiposColas
<1>2. v = [estado |-> mapa[p].estado, PC |-> n, est |-> mapa[p].est] /\ v.PC \in Nat
  <2>1. mapa[p] \in Procesos /\ mapa[p].PC \in Nat
    BY Entrada
  <2>2. v = [estado |-> mapa[p].estado, PC |-> n, est |-> mapa[p].est]
    BY <2>1 DEF Procesos
  <2> HIDE DEF v
  <2> QED
    BY <2>1, <2>2
<1> HIDE DEF v
<1>3. v # NADA
  <2>1. mapa[p].estado \in Estados /\ mapa[p].PC \in Nat /\ mapa[p].est \in Estimaciones
    BY Entrada DEF Procesos
  <2> QED
    BY <1>2, <2>1, SinNada
<1> QED
  BY <1>1, <1>2, <1>3, OtraEntrada

LEMMA OtroEstadoYPC ==
  ASSUME InvFormas, NEW p \in Pids, mapa[p] # NADA, NEW e \in Estados, NEW n \in Nat,
         mapa' = [mapa EXCEPT ![p].estado = e, ![p].PC = n]
  PROVE  /\ mapa'[p] = [estado |-> e, PC |-> n, est |-> mapa[p].est]
         /\ mapa'[p] # NADA
         /\ \A q \in Pids : q # p => mapa'[q] = mapa[q]
         /\ \A q \in Pids : mapa'[q] # NADA => mapa'[q].PC \in Nat
<1> DEFINE v == [mapa[p] EXCEPT !.estado = e, !.PC = n]
<1>1. mapa' = [mapa EXCEPT ![p] = v] /\ mapa \in [Pids -> Procesos \cup {NADA}]
  BY DEF InvFormas, InvAviso, TiposAviso, TiposColas
<1>2. v = [estado |-> e, PC |-> n, est |-> mapa[p].est] /\ v.PC \in Nat
  <2>1. mapa[p] \in Procesos /\ mapa[p].PC \in Nat
    BY Entrada
  <2>2. v = [estado |-> e, PC |-> n, est |-> mapa[p].est]
    <3> DEFINE m == mapa[p]
               w == [m EXCEPT !.estado = e]
    <3>1. w = [estado |-> e, PC |-> m.PC, est |-> m.est]
      BY <2>1 DEF Procesos
    <3>2. v = [w EXCEPT !.PC = n]
      BY <2>1 DEF Procesos
    <3> HIDE DEF w, v
    <3> QED
      BY <3>1, <3>2
  <2> HIDE DEF v
  <2> QED
    BY <2>1, <2>2
<1> HIDE DEF v
<1>3. v # NADA
  <2>1. mapa[p].estado \in Estados /\ mapa[p].PC \in Nat /\ mapa[p].est \in Estimaciones
    BY Entrada DEF Procesos
  <2> QED
    BY <1>2, <2>1, SinNada
<1> QED
  BY <1>1, <1>2, <1>3, OtraEntrada

LEMMA BloquearMapa ==
  ASSUME InvFormas, NEW p \in Pids, NEW n \in Nat, Bloquear(p, n)
  PROVE  /\ \E e \in Estimaciones : mapa'[p] = [estado |-> "BLOCKED", PC |-> n, est |-> e]
         /\ mapa'[p] # NADA /\ mapa'[p].estado = "BLOCKED" /\ mapa'[p].PC = n
         /\ \A q \in Pids : q # p => mapa'[q] = mapa[q]
         /\ \A q \in Pids : mapa'[q] # NADA => mapa'[q].PC \in Nat
         /\ SalirDeExecute(p)
<1>1. PICK e \in Estimaciones :
        mapa' = [mapa EXCEPT ![p] = [estado |-> "BLOCKED", PC |-> n, est |-> e]]
        /\ SalirDeExecute(p)
  BY DEF Bloquear
<1> DEFINE v == [estado |-> "BLOCKED", PC |-> n, est |-> e]
<1>2. mapa' = [mapa EXCEPT ![p] = v] /\ mapa \in [Pids -> Procesos \cup {NADA}] /\ v.PC \in Nat
  BY <1>1 DEF InvFormas, InvAviso, TiposAviso, TiposColas
<1>3. SalirDeExecute(p)
  BY <1>1
<1>5. v = [estado |-> "BLOCKED", PC |-> n, est |-> e]
  OBVIOUS
<1> HIDE DEF v
<1>4. /\ mapa'[p] = v /\ \A q \in Pids : q # p => mapa'[q] = mapa[q]
      /\ \A q \in Pids : mapa'[q] # NADA => mapa'[q].PC \in Nat
  BY <1>2, OtraEntrada
<1>6. v # NADA /\ v.estado = "BLOCKED" /\ v.PC = n
  BY <1>5, SinNada DEF Estados
<1> QED
  BY <1>3, <1>4, <1>5, <1>6

LEMMA EfectoSalir ==
  ASSUME InvFormas, NEW p \in Pids, SalirDeExecute(p)
  PROVE  /\ IsInjective(execute') /\ execute' \in Seq(Pids) /\ restante' \in [Pids -> Nat]
         /\ \A q : Esta(execute', q) <=> Esta(execute, q) /\ q # p
<1>1. execute \in Seq(Pids) /\ IsInjective(execute) /\ restante \in [Pids -> Nat]
  BY DEF InvFormas, FormaColas, InvAviso, TiposAviso, TiposColas
<1>2. execute' = Quitar(execute, p) /\ restante' = [restante EXCEPT ![p] = 0]
  BY DEF SalirDeExecute
<1>3. Quitar(execute, p) \in Seq(Pids)
  BY <1>1, QuitarDeCola
<1>4. /\ IsInjective(Quitar(execute, p))
      /\ \A q : Esta(Quitar(execute, p), q) <=> Esta(execute, q) /\ q # p
  BY <1>1, QuitarExacto
<1> QED
  BY <1>1, <1>2, <1>3, <1>4

LEMMA ReadyCrece ==
  ASSUME InvFormas, NEW p \in Pids, ready' = Agregar(ready, p)
  PROVE  /\ IsInjective(ready') /\ ready' \in Seq(Pids)
         /\ \A q : Esta(ready', q) <=> Esta(ready, q) \/ q = p
BY AgregarExacto DEF InvFormas, FormaColas, InvAviso, TiposAviso, TiposColas

LEMMA MismasColas ==
  ASSUME InvFormas, UNCHANGED <<mapa, ready, execute, restante, aviso, hecho, enIO>>
  PROVE  FormaColas'
BY DEF InvFormas, FormaColas

LEMMA ColasSRT ==
  ASSUME InvFormas, PasoSRT PROVE FormaColas'
<1>1. /\ FormaColas /\ ready \in Seq(Pids) /\ execute \in Seq(Pids) /\ InvAviso
      /\ srt \in Rondas /\ (srt.pc \in ConExec => srt.exec \in Pids)
      /\ (srt.pc \in ConPid => srt.pid \in Pids)
  BY DEF InvFormas, InvAviso, TiposAviso, TiposColas, TiposRonda, FormaRonda
<1>2. CASE Despertar
  BY <1>1, <1>2 DEF Despertar, FormaColas, kernelVars
<1>3. CASE Mirar \/ MirarOtra \/ Enviar \/ MirarExec \/ Interrumpir \/ Recibir \/ Buscar
  BY <1>1, <1>3, MismasColas
     DEF Mirar, MirarOtra, Enviar, MirarExec, Interrumpir, Recibir, Buscar, kernelVars
<1>4. CASE Elegir
  <2>1. CASE ~Faltan(ready)
    BY <2>1, <1>1, <1>4, EfectoElegir DEF FormaColas
  <2> QED
    BY <2>1, <1>4, MismasColas DEF Elegir, Panico, kernelVars
<1>5. CASE Comparar
  <2>1. CASE ~(execute = <<>> \/ Faltan(execute) \/ Faltan(ready))
    BY <2>1, <1>1, <1>5, EfectoComparar DEF FormaColas
  <2> QED
    BY <2>1, <1>5, MismasColas DEF Comparar, Panico, kernelVars
<1>6. CASE ReadyAExecute
  <2>1. CASE mapa[srt.pid] = NADA
    BY <2>1, <1>6, MismasColas DEF ReadyAExecute, Panico, kernelVars
  <2>2. CASE mapa[srt.pid] # NADA
    <3> DEFINE p == srt.pid
    <3>1. p \in Pids /\ mapa[p] # NADA
      BY <1>1, <1>6, <2>2 DEF ReadyAExecute, ConPid
    <3>2. /\ ready' = Quitar(ready, p) /\ execute' = Agregar(execute, p)
          /\ mapa' = [mapa EXCEPT ![p].estado = "EXECUTE"]
          /\ restante' = [restante EXCEPT ![p] = mapa[p].est]
          /\ UNCHANGED <<aviso, enIO, hecho>>
      BY <1>6, <2>2 DEF ReadyAExecute
    <3> HIDE DEF p
    <3>3. IsInjective(ready') /\ IsInjective(execute')
      BY <1>1, <3>1, <3>2, QuitarExacto, AgregarExacto DEF FormaColas
    <3>4. \A q \in Pids : mapa'[q] # NADA => mapa'[q].PC \in Nat
      BY <3>1, <3>2, OtroEstado DEF Estados
    <3>5. restante' \in [Pids -> Nat]
      BY <1>1, <3>1, <3>2, Entrada DEF FormaColas
    <3> QED
      BY <1>1, <3>2, <3>3, <3>4, <3>5 DEF FormaColas
  <2> QED
    BY <2>1, <2>2
<1>7. CASE Actualizar
  <2>1. CASE mapa[srt.exec] = NADA \/ cpu[srt.cpu].resp = NINGUNO
    BY <2>1, <1>7, MismasColas DEF Actualizar, Panico, kernelVars
  <2>2. CASE ~(mapa[srt.exec] = NADA \/ cpu[srt.cpu].resp = NINGUNO)
    <3>1. srt.exec \in Pids /\ srt.cpu \in CPUs /\ mapa[srt.exec] # NADA
      BY <1>1, <1>7, <2>2, CpusDeLista
         DEF Actualizar, ConExec, ConCPU, ConPid, InvFormas, FormaRonda
    <3>2. cpu[srt.cpu].resp \in Nat
      BY <2>2, <3>1 DEF InvFormas, FormaCPUs, Maquinas
    <3>3. mapa' = [mapa EXCEPT ![srt.exec].PC = cpu[srt.cpu].resp]
          /\ UNCHANGED <<ready, execute, restante, aviso, enIO, hecho>>
      BY <1>7, <2>2 DEF Actualizar
    <3>4. \A q \in Pids : mapa'[q] # NADA => mapa'[q].PC \in Nat
      BY <3>1, <3>2, <3>3, OtroPC
    <3> QED
      BY <1>1, <3>3, <3>4 DEF FormaColas
  <2> QED
    BY <2>1, <2>2
<1>8. CASE Desalojar
  <2>1. CASE Esta(execute, srt.exec)
    <3>1. /\ srt.exec \in Pids /\ SalirDeExecute(srt.exec) /\ ready' = Agregar(ready, srt.exec)
          /\ UNCHANGED <<mapa, aviso, enIO, hecho>>
      BY <1>1, <1>8, <2>1 DEF Desalojar, ConExec, ConCPU
    <3>2. IsInjective(ready') /\ IsInjective(execute') /\ restante' \in [Pids -> Nat]
      BY <3>1, EfectoSalir, ReadyCrece
    <3> QED
      BY <1>1, <3>1, <3>2 DEF FormaColas
  <2>2. CASE ~Esta(execute, srt.exec)
    BY <1>8, <2>2, MismasColas DEF Desalojar, kernelVars
  <2> QED
    BY <2>1, <2>2
<1>9. CASE DesalojarEstado
  <2>1. CASE mapa[srt.exec] = NADA
    BY <2>1, <1>9, MismasColas DEF DesalojarEstado, Panico, kernelVars
  <2>2. CASE mapa[srt.exec] # NADA
    <3>1. /\ srt.exec \in Pids /\ mapa' = [mapa EXCEPT ![srt.exec].estado = "READY"]
          /\ UNCHANGED <<ready, execute, restante, aviso, enIO, hecho>>
      BY <1>1, <1>9, <2>2 DEF DesalojarEstado, ConExec, ConCPU
    <3>2. \A q \in Pids : mapa'[q] # NADA => mapa'[q].PC \in Nat
      BY <2>2, <3>1, OtroEstado DEF Estados
    <3> QED
      BY <1>1, <3>1, <3>2 DEF FormaColas
  <2> QED
    BY <2>1, <2>2
<1> QED
  BY <1>2, <1>3, <1>4, <1>5, <1>6, <1>7, <1>8, <1>9 DEF PasoSRT

LEMMA ColasManejador ==
  ASSUME InvFormas, NEW h \in manejadores, PasoManejador(h) PROVE FormaColas'
<1> DEFINE p == h.pid
<1>1. /\ FormaColas /\ p \in Pids /\ h.PC \in Nat /\ enIO \subseteq Pids
  BY DEF InvFormas, InvAviso, TiposAviso, TiposManejadores, TipoManejador, FormaManejadores,
         EsManejador, FormaColas
<1>2. CASE AtenderIO(h)
  <2>1. CASE ~EnExecute(p)
    BY <1>2, <2>1, MismasColas DEF AtenderIO, kernelVars
  <2>2. CASE EnExecute(p)
    <3>1. enIO' \subseteq Pids /\ UNCHANGED <<ready, aviso, hecho>>
      BY <1>1, <1>2, <2>2 DEF AtenderIO
    <3>2. CASE Esta(execute, p)
      <4>1. Bloquear(p, h.PC)
        BY <1>2, <2>2, <3>2 DEF AtenderIO
      <4>2. (\A q \in Pids : mapa'[q] # NADA => mapa'[q].PC \in Nat) /\ SalirDeExecute(p)
        BY <1>1, <4>1, BloquearMapa
      <4>3. IsInjective(execute') /\ restante' \in [Pids -> Nat]
        BY <1>1, <4>2, EfectoSalir
      <4> QED
        BY <1>1, <3>1, <4>2, <4>3 DEF FormaColas
    <3>3. CASE ~Esta(execute, p)
      <4>1. mapa' = [mapa EXCEPT ![p].PC = h.PC] /\ UNCHANGED <<execute, restante>>
        BY <1>2, <2>2, <3>3 DEF AtenderIO
      <4>2. \A q \in Pids : mapa'[q] # NADA => mapa'[q].PC \in Nat
        BY <1>1, <2>2, <4>1, OtroPC DEF EnExecute
      <4> QED
        BY <1>1, <3>1, <4>1, <4>2 DEF FormaColas
    <3> QED
      BY <3>2, <3>3
  <2> QED
    BY <2>1, <2>2
<1>3. CASE AtenderDump(h)
  <2>1. CASE mapa[p] # NADA /\ Esta(execute, p)
    <3>1. Bloquear(p, mapa[p].PC) /\ mapa[p].PC \in Nat /\ UNCHANGED <<ready, aviso, hecho, enIO>>
      BY <1>1, <1>3, <2>1, Entrada DEF AtenderDump
    <3>2. (\A q \in Pids : mapa'[q] # NADA => mapa'[q].PC \in Nat) /\ SalirDeExecute(p)
      BY <1>1, <3>1, BloquearMapa
    <3>3. IsInjective(execute') /\ restante' \in [Pids -> Nat]
      BY <1>1, <3>2, EfectoSalir
    <3> QED
      BY <1>1, <3>1, <3>2, <3>3 DEF FormaColas
  <2>2. CASE ~(mapa[p] # NADA /\ Esta(execute, p))
    BY <1>3, <2>2, MismasColas DEF AtenderDump, kernelVars
  <2> QED
    BY <2>1, <2>2
<1>4. CASE TerminarDump(h)
  <2>1. CASE mapa[p] = NADA
    BY <1>4, <2>1, MismasColas DEF TerminarDump, kernelVars
  <2>2. CASE mapa[p] # NADA /\ mapa[p].estado = "BLOCKED"
    <3>1. /\ mapa' = [mapa EXCEPT ![p].estado = "READY", ![p].PC = h.PC]
          /\ ready' = Agregar(ready, p)
          /\ UNCHANGED <<execute, restante, aviso, hecho, enIO>>
      BY <1>4, <2>2 DEF TerminarDump
    <3>2. \A q \in Pids : mapa'[q] # NADA => mapa'[q].PC \in Nat
      BY <1>1, <2>2, <3>1, OtroEstadoYPC DEF Estados
    <3>3. IsInjective(ready')
      BY <1>1, <3>1, ReadyCrece
    <3> QED
      BY <1>1, <3>1, <3>2, <3>3 DEF FormaColas
  <2>3. CASE mapa[p] # NADA /\ mapa[p].estado # "BLOCKED"
    <3>1. /\ mapa' = [mapa EXCEPT ![p].PC = h.PC]
          /\ UNCHANGED <<ready, execute, restante, aviso, hecho, enIO>>
      BY <1>4, <2>3 DEF TerminarDump
    <3>2. \A q \in Pids : mapa'[q] # NADA => mapa'[q].PC \in Nat
      BY <1>1, <2>3, <3>1, OtroPC
    <3> QED
      BY <1>1, <3>1, <3>2 DEF FormaColas
  <2> QED
    BY <2>1, <2>2, <2>3
<1>5. CASE AtenderInit(h) \/ Liberar(h)
  BY <1>5, MismasColas DEF AtenderInit, Liberar, kernelVars
<1>6. CASE FinEnCola(h)
  <2>1. SalirDeExecute(p) /\ UNCHANGED <<mapa, ready, aviso, hecho, enIO>>
    BY <1>6 DEF FinEnCola
  <2>2. IsInjective(execute') /\ restante' \in [Pids -> Nat]
    BY <1>1, <2>1, EfectoSalir
  <2> QED
    BY <1>1, <2>1, <2>2 DEF FormaColas
<1>7. CASE FinEnMapa(h)
  <2>1. CASE mapa[p] = NADA
    BY <1>7, <2>1, MismasColas DEF FinEnMapa, Panico, kernelVars
  <2>2. CASE mapa[p] # NADA
    <3>1. mapa' = [mapa EXCEPT ![p] = NADA] /\ UNCHANGED <<ready, execute, restante, aviso, hecho, enIO>>
      BY <1>7, <2>2 DEF FinEnMapa
    <3>2. \A q \in Pids : mapa'[q] # NADA => mapa'[q].PC \in Nat
      BY <1>1, <3>1, OtraEntrada
    <3> QED
      BY <1>1, <3>1, <3>2 DEF FormaColas
  <2> QED
    BY <2>1, <2>2
<1> QED
  BY <1>2, <1>3, <1>4, <1>5, <1>6, <1>7 DEF PasoManejador

LEMMA ColasEntorno ==
  ASSUME InvFormas, NEW p \in Pids, PasoEntorno(p) \/ PasarTiempo(p) PROVE FormaColas'
<1>1. FormaColas
  BY DEF InvFormas
<1>2. ASSUME mapa[p] # NADA, mapa' = [mapa EXCEPT ![p].estado = "READY"], ready' = Agregar(ready, p),
             UNCHANGED <<execute, restante, aviso, hecho>>, enIO' \subseteq Pids
      PROVE  FormaColas'
  <2>1. \A q \in Pids : mapa'[q] # NADA => mapa'[q].PC \in Nat
    BY <1>2, OtroEstado DEF Estados
  <2>2. IsInjective(ready')
    BY <1>2, ReadyCrece
  <2> QED
    BY <1>1, <1>2, <2>1, <2>2 DEF FormaColas
<1>3. CASE Llegar(p)
  BY <1>1, <1>2, <1>3 DEF Llegar, FormaColas
<1>4. CASE FinIO(p)
  <2>1. enIO' \subseteq Pids /\ UNCHANGED <<execute, restante, aviso, hecho>>
    BY <1>1, <1>4 DEF FinIO, FormaColas
  <2>2. CASE mapa[p] # NADA /\ mapa[p].estado = "BLOCKED"
    BY <1>2, <1>4, <2>1, <2>2 DEF FinIO
  <2>3. CASE ~(mapa[p] # NADA /\ mapa[p].estado = "BLOCKED")
    BY <1>1, <1>4, <2>1, <2>3 DEF FinIO, FormaColas
  <2> QED
    BY <2>2, <2>3
<1>5. CASE PasarTiempo(p)
  <2>1. restante' = [restante EXCEPT ![p] = @ - 1] /\ restante[p] > 0
        /\ UNCHANGED <<mapa, ready, execute, aviso, hecho, enIO>>
    BY <1>5 DEF PasarTiempo
  <2>2. restante' \in [Pids -> Nat]
    BY <1>1, <2>1 DEF FormaColas
  <2> QED
    BY <1>1, <2>1, <2>2 DEF FormaColas
<1> QED
  BY <1>3, <1>4, <1>5 DEF PasoEntorno

LEMMA ColasCPU ==
  ASSUME InvFormas, NEW c \in ListaCPUs, PasoCPU(c) PROVE FormaColas'
<1>1. CASE Ejecutar(c)
  <2>1. hecho' = [hecho EXCEPT ![cpu[c].pid] = @ + 1]
        /\ UNCHANGED <<mapa, ready, execute, restante, aviso, enIO>>
    BY <1>1 DEF Ejecutar, kernelVars
  <2>2. hecho' \in [Pids -> Nat]
    <3> DEFINE x == cpu[c].pid
    <3>1. hecho \in [Pids -> Nat] /\ hecho' = [hecho EXCEPT ![x] = hecho[x] + 1]
      BY <2>1 DEF InvFormas, FormaColas
    <3>2. x \in Pids
      BY <1>1, CpusDeLista DEF Ejecutar, InvFormas, InvAviso, TiposAviso, TiposCPUs, TipoCPU
    <3> HIDE DEF x
    <3> QED
      BY <3>1, <3>2
  <2> QED
    BY <2>1, <2>2 DEF InvFormas, FormaColas
<1>2. CASE Tomar(c) \/ Controlar(c) \/ Ceder(c) \/ Responder(c)
  BY <1>2, MismasColas DEF Tomar, Controlar, Ceder, Responder, kernelVars
<1> QED
  BY <1>1, <1>2 DEF PasoCPU

LEMMA PasoFormaColas ==
  ASSUME InvFormas, [Next]_vars PROVE FormaColas'
<1>1. CASE Avisar
  BY <1>1 DEF Avisar, InvFormas, FormaColas, kernelVars
<1>2. CASE UNCHANGED vars
  BY <1>2, MismasColas DEF vars, kernelVars
<1> QED
  BY <1>1, <1>2, ColasSRT, ColasManejador, ColasEntorno, ColasCPU DEF Next

LEMMA PasoFormas == InvFormas /\ [Next]_vars => InvFormas'
BY PasoAviso, PasoFormaRonda, PasoFormaManejadores, PasoFormaCPUs, PasoFormaColas DEF InvFormas

LEMMA InicioFormas == Init => InvFormas
<1> SUFFICES ASSUME Init PROVE InvFormas
  OBVIOUS
<1>1. InvAviso
  BY InicioAviso
<1>2. FormaRonda
  BY EsperandoForma DEF Init, FormaRonda, ConExec, ConCPU, ConPid
<1>3. FormaManejadores
  BY DEF Init, FormaManejadores
<1>4. FormaCPUs
  <2>1. CpuOciosa \in Maquinas
    BY DEF CpuOciosa, Maquinas
  <2> QED
    BY <2>1 DEF Init, FormaCPUs
<1>5. FormaColas
  <2>1. IsInjective(ready) /\ IsInjective(execute)
    BY DEF Init, IsInjective
  <2>2. aviso \in 0 .. 1 /\ restante \in [Pids -> Nat] /\ hecho \in [Pids -> Nat] /\ enIO \subseteq Pids
    BY DEF Init
  <2>3. \A p \in Pids : mapa[p] # NADA => mapa[p].PC \in Nat
    BY DEF Init
  <2> QED
    BY <2>1, <2>2, <2>3 DEF FormaColas
<1> QED
  BY <1>1, <1>2, <1>3, <1>4, <1>5 DEF InvFormas

LEMMA FormasSiempre == Spec => []InvFormas
BY InicioFormas, PasoFormas, PTL DEF Spec

LEMMA FormasDanTipos == InvFormas => TiposSRT
<1> SUFFICES ASSUME InvFormas PROVE TiposSRT
  OBVIOUS
<1>1. /\ mapa \in [Pids -> Procesos \cup {NADA}] /\ ready \in Seq(Pids) /\ execute \in Seq(Pids)
      /\ porAvisar \in Nat
  BY DEF InvFormas, InvAviso, TiposAviso, TiposColas
<1>2. mapa \in [Pids -> [estado : {"NEW", "READY", "EXECUTE", "BLOCKED"}, PC : Nat,
                         est : Estimaciones] \cup {NADA}]
  <2>1. \A p \in Pids : mapa[p] # NADA =>
          mapa[p] \in [estado : {"NEW", "READY", "EXECUTE", "BLOCKED"}, PC : Nat, est : Estimaciones]
    BY Entrada DEF Procesos, Estados
  <2> QED
    BY <1>1, <2>1
<1>3. IsInjective(ready) /\ IsInjective(execute) /\ aviso \in 0 .. 1
  BY DEF InvFormas, FormaColas
<1>4. srt.pid \in Pids \cup {NADA} /\ srt.exec \in Pids \cup {NADA}
  BY DEF InvFormas, FormaRonda, Rondas
<1>5. \A h \in manejadores : h.pid \in Pids /\ h.cpu \in ListaCPUs
  BY DEF InvFormas, FormaManejadores, EsManejador, InvAviso, TiposAviso, TiposManejadores,
         TipoManejador
<1> QED
  BY <1>1, <1>2, <1>3, <1>4, <1>5 DEF TiposSRT

\* SRT keeps its types, for every regime, program and estimate: nobody is twice
\* in READY or EXECUTE whoever moves him, although the planner, devices, dumps
\* and arrivals fill them without a common lock; the channel keeps its one
\* place (corto.go, procesos.go, estadosController.go).
THEOREM TiposSRTSiempre == Spec => []TiposSRT
BY FormasSiempre, FormasDanTipos, PTL

---------------------------------------------------------------------------
(* A kernel that is Puntual: who has each CPU, and what is true of each      *)
(* process by the place it is in.                                          *)

\* The CPU has a process to execute.
Tiene(c) ==
  \/ cpu[c].cola # <<>> \/ cpu[c].pc = "ejecuta"
  \/ cpu[c].pc = "control" /\ cpu[c].res = "sigue"

\* A handler works for c.
Atendida(c) == \E h \in manejadores : h.cpu = c

\* c has answered an interruption, and its process is not out of EXECUTE yet.
Quitada(c) ==
  /\ srt.cpu = c
  /\ \/ srt.pc \in {"actualiza", "desaloja"}
     \/ srt.pc = "respuesta" /\ cpu[c].int \in {"sigue", "hecho"}

\* The planner has c for the process it dispatches, and has not sent it.
Vacante(c) == srt.cpu = c /\ srt.pc \in {"desaloja_estado", "envia"}

\* The kernel has p on c.
EnCPU(c, p) == ~libre[c] /\ pidActual[c] = p /\ ~Vacante(c)

Estado(p, e) == mapa[p] # NADA /\ mapa[p].estado = e

\* p has a program, and is not at its end.
Resta(p) == p \in DOMAIN regimen.programa /\ hecho[p] < Len(Programa(p))

\* Between the two steps of execute_a_ready, p is in READY and its state is not.
EnDesalojo(p) == srt.pc = "desaloja_estado" /\ srt.exec = p

ListoEnOrden(p) ==
  /\ mapa[p] # NADA /\ mapa[p].PC = hecho[p] /\ Resta(p)
  /\ ~Esta(execute, p) /\ p \notin enIO
  /\ \/ mapa[p].estado = "READY"
     \/ mapa[p].estado = "EXECUTE" /\ EnDesalojo(p)

EjecutaEnOrden(p) ==
  /\ Estado(p, "EXECUTE") /\ p \notin enIO
  /\ \E c \in ListaCPUs : EnCPU(c, p)

ColasEnOrden ==
  /\ \A p \in Pids : Esta(ready, p) => ListoEnOrden(p)
  /\ \A p \in Pids : Esta(execute, p) => EjecutaEnOrden(p)
  /\ \A p \in enIO : Estado(p, "BLOCKED") /\ mapa[p].PC = hecho[p] /\ Resta(p)

EnSuLugar ==
  \A p \in Pids :
    /\ Estado(p, "NEW") => mapa[p].PC = 0 /\ hecho[p] = 0
    /\ Estado(p, "READY") => Esta(ready, p)
    /\ Estado(p, "EXECUTE") =>
         \/ Esta(execute, p) \/ EnDesalojo(p)
         \/ \E h \in manejadores : h.pid = p /\ h.pc = "mapa"

\* The loop of a CPU.
LazoEnOrden(c) ==
  /\ cpu[c].pc = "libre" => Len(cpu[c].cola) <= 1
  /\ cpu[c].pc # "libre" => cpu[c].cola = <<>>
  /\ cpu[c].envie => Cediendo(c)
  /\ cpu[c].pc = "control" /\ cpu[c].res = "cede" => cpu[c].envie
  /\ ~(srt.pc = "respuesta" /\ srt.cpu = c) => cpu[c].int = "no" /\ ~cpu[c].hay

\* The process that a CPU has, and where.
Tramo(c) == IF cpu[c].cola # <<>> THEN Head(cpu[c].cola) ELSE Fuera(cpu[c])

TieneEnOrden(c) ==
  /\ ~libre[c] /\ ~Vacante(c) /\ ~Atendida(c)
  /\ Tramo(c).pid = pidActual[c] /\ Tramo(c).PC = hecho[pidActual[c]]
  /\ Resta(pidActual[c])
  /\ Esta(execute, pidActual[c]) \/ (srt.pc = "a_execute" /\ srt.cpu = c)

CPUEnOrden(c) ==
  /\ LazoEnOrden(c)
  /\ Tiene(c) => TieneEnOrden(c)
  /\ ~libre[c] /\ ~Vacante(c) => Tiene(c) \/ Atendida(c) \/ Quitada(c)

CPUsEnOrden == \A c \in ListaCPUs : CPUEnOrden(c)

UnoPorCPU == \A c, d \in ListaCPUs : \A p \in Pids : EnCPU(c, p) /\ EnCPU(d, p) => c = d

ManejadorEnOrden(h) ==
  /\ h.op \in {"IO", "DUMP", "EXIT"}
  /\ ~libre[h.cpu] /\ pidActual[h.cpu] = h.pid
  /\ h.PC = hecho[h.pid] /\ (h.op # "EXIT" => Resta(h.pid))
  /\ h.pc \in {"entra", "vuelca", "mapa", "libera"}
  /\ h.pc = "entra" => Esta(execute, h.pid)
  /\ h.pc = "vuelca" => h.op = "DUMP" /\ Estado(h.pid, "BLOCKED") /\ h.pid \notin enIO
  /\ h.pc = "mapa" => /\ h.op = "EXIT" /\ Estado(h.pid, "EXECUTE")
                      /\ ~Esta(execute, h.pid) /\ ~Esta(ready, h.pid)
  /\ h.pc = "libera" => ~EnExecute(h.pid)

ManejadoresEnOrden ==
  /\ \A h \in manejadores : ManejadorEnOrden(h)
  /\ \A h, g \in manejadores : h.cpu = g.cpu => h = g

\* An interruption under way.  Its process may leave EXECUTE by itself, with a
\* syscall that the CPU had executed before it looked.
RespuestaEnOrden ==
  srt.pc = "respuesta" =>
    LET c == srt.cpu
        m == cpu[c]
        e == srt.exec IN
    /\ pidActual[c] = e /\ m.int \in {"espera", "sigue", "hecho"}
    /\ Esta(execute, e) => ~libre[c]
    /\ ~libre[c] => Esta(execute, e) \/ Atendida(c)
    /\ m.int = "espera" => m.hay /\ (Tiene(c) \/ m.pc = "control")
    /\ m.int # "espera" =>
         /\ m.cola = <<>> /\ m.pc \in {"cede", "libre"} /\ (m.hay <=> m.pc = "cede")
         /\ Esta(execute, e) /\ ~Atendida(c) =>
              /\ ~m.envie /\ Resta(e)
              /\ m.int = "sigue" => m.pcInt = hecho[e]
              /\ m.int = "hecho" => m.resp = hecho[e]

\* The rest of a round: nobody else moves what it has looked at.
RondaEnOrden ==
  LET c == srt.cpu
      e == srt.exec IN
  /\ EnRonda => manejadores = {} /\ \A d \in ListaCPUs : ~Cediendo(d)
  /\ srt.pc = "compara" => ~HayLibre
  /\ srt.pc \in {"busca", "mira_exec", "interrumpe", "actualiza", "desaloja"} => Esta(execute, e)
  /\ srt.pc \in {"mira_exec", "interrumpe"} => ~libre[c] /\ pidActual[c] = e /\ Tiene(c)
  /\ srt.pc \in ConPid => /\ Esta(ready, srt.pid) /\ srt.PC = hecho[srt.pid]
                          /\ Estado(srt.pid, "READY")
  /\ srt.pc \in {"actualiza", "desaloja"} => ~libre[c] /\ pidActual[c] = e /\ ~Tiene(c) /\ Resta(e)
  /\ srt.pc = "actualiza" => cpu[c].resp = hecho[e]
  /\ srt.pc = "desaloja" => mapa[e].PC = hecho[e]
  /\ srt.pc \in {"desaloja_estado", "envia"} => ~libre[c] /\ ~Tiene(c)
  /\ srt.pc = "desaloja_estado" => Esta(ready, e) /\ EnExecute(e)
  /\ srt.pc = "a_execute" => ~libre[c] /\ Tiene(c) /\ pidActual[c] = srt.pid

InvPuntual ==
  /\ ~panico /\ ColasEnOrden /\ EnSuLugar /\ CPUsEnOrden /\ UnoPorCPU
  /\ ManejadoresEnOrden /\ RespuestaEnOrden /\ RondaEnOrden
---------------------------------------------------------------------------

\* What InvFormas says, at hand.
LEMMA Formas ==
  ASSUME InvFormas
  PROVE  /\ regimen \in Regimenes /\ ListaCPUs \subseteq CPUs
         /\ mapa \in [Pids -> Procesos \cup {NADA}]
         /\ ready \in Seq(Pids) /\ execute \in Seq(Pids) /\ enIO \subseteq Pids
         /\ IsInjective(ready) /\ IsInjective(execute)
         /\ libre \in [CPUs -> BOOLEAN] /\ hecho \in [Pids -> Nat]
         /\ cpu \in [CPUs -> Maquinas] /\ pidActual \in [CPUs -> Pids \cup {NADA}]
         /\ srt \in Rondas /\ (srt.pc \in ConExec => srt.exec \in Pids)
         /\ (srt.pc \in ConPid => srt.cpu \in ListaCPUs /\ srt.pid \in Pids)
         /\ \A h \in manejadores : EsManejador(h) /\ h.pid \in Pids /\ h.cpu \in ListaCPUs
<1>1. regimen \in Regimenes /\ ListaCPUs \subseteq CPUs
  BY CpusDeLista DEF InvFormas, InvAviso, TiposAviso, TiposColas
<1>2. /\ mapa \in [Pids -> Procesos \cup {NADA}]
      /\ ready \in Seq(Pids) /\ execute \in Seq(Pids) /\ libre \in [CPUs -> BOOLEAN]
  BY DEF InvFormas, InvAviso, TiposAviso, TiposColas
<1>3. /\ hecho \in [Pids -> Nat] /\ enIO \subseteq Pids
      /\ IsInjective(ready) /\ IsInjective(execute)
  BY DEF InvFormas, FormaColas
<1>4. cpu \in [CPUs -> Maquinas] /\ pidActual \in [CPUs -> Pids \cup {NADA}]
  BY DEF InvFormas, FormaCPUs
<1>5. /\ srt \in Rondas /\ (srt.pc \in ConExec => srt.exec \in Pids)
      /\ (srt.pc \in ConPid => srt.cpu \in ListaCPUs /\ srt.pid \in Pids)
  BY DEF InvFormas, FormaRonda, InvAviso, TiposAviso, TiposRonda
<1>6. \A h \in manejadores : EsManejador(h) /\ h.pid \in Pids /\ h.cpu \in ListaCPUs
  BY DEF InvFormas, FormaManejadores, EsManejador, InvAviso, TiposAviso, TiposManejadores,
         TipoManejador
<1> QED
  BY <1>1, <1>2, <1>3, <1>4, <1>5, <1>6

\* A process that is not over has its instruction, which is not INIT_PROC; one
\* that is not EXIT is followed by another.
LEMMA Instruccion ==
  ASSUME InvFormas, Puntual, NEW p \in Pids, Resta(p)
  PROVE  LET op == Programa(p)[hecho[p] + 1] IN
         /\ op \in {"CPU", "IO", "DUMP", "EXIT"}
         /\ op # "EXIT" => hecho[p] + 1 < Len(Programa(p))
<1> DEFINE s == Programa(p)
           n == hecho[p]
<1>1. s \in Seq(Operaciones) /\ s # <<>> /\ Last(s) = "EXIT" /\ ~Esta(s, "INIT")
  BY RegimenesOK, Formas DEF Programa, Puntual, Resta
<1>2. n \in Nat /\ n < Len(s)
  BY Formas DEF Resta
<1> HIDE DEF s, n
<1>3. n + 1 \in DOMAIN s /\ Len(s) \in Nat
  BY <1>1, <1>2
<1>4. s[n + 1] \in Operaciones /\ s[n + 1] # "INIT"
  BY <1>1, <1>3 DEF Esta
<1>5. s[n + 1] # "EXIT" => n + 1 # Len(s)
  BY <1>1 DEF Last
<1>6. s[n + 1] # "EXIT" => n + 1 < Len(s)
  BY <1>2, <1>3, <1>5
<1>7. s[n + 1] \in {"CPU", "IO", "DUMP", "EXIT"}
  BY <1>4 DEF Operaciones
<1> QED
  BY <1>6, <1>7 DEF s, n

\* What does not change, by what it depends on.
LEMMA MismoEnCPU ==
  ASSUME UNCHANGED <<libre, pidActual>>, \A c \in ListaCPUs : Vacante(c)' <=> Vacante(c)
  PROVE  \A c \in ListaCPUs : \A p : EnCPU(c, p)' <=> EnCPU(c, p)
BY DEF EnCPU

LEMMA MismasCPUsEnOrden ==
  ASSUME InvPuntual, UNCHANGED <<regimen, execute, libre, pidActual, srt, manejadores, cpu, hecho>>
  PROVE  CPUsEnOrden' /\ UnoPorCPU' /\ RespuestaEnOrden'
BY DEF InvPuntual, CPUsEnOrden, CPUEnOrden, LazoEnOrden, TieneEnOrden, Tiene,
       Atendida, Quitada, Vacante, Tramo,
       Fuera, Resta, Cediendo, ListaCPUs, UnoPorCPU, EnCPU, RespuestaEnOrden, Programa

\* A process comes to READY: from NEW, from a device.
LEMMA LlegaAReady ==
  ASSUME InvFormas, InvPuntual, NEW p \in Pids, mapa[p] # NADA,
         \/ mapa[p].estado = "NEW" /\ p \notin enIO /\ Resta(p)
         \/ p \in enIO,
         mapa' = [mapa EXCEPT ![p].estado = "READY"], ready' = Agregar(ready, p),
         enIO' = enIO \ {p},
         UNCHANGED <<regimen, execute, libre, pidActual, srt, manejadores, cpu, hecho, panico>>
  PROVE  InvPuntual'
<1>1. /\ ~panico /\ ColasEnOrden /\ EnSuLugar /\ ManejadoresEnOrden /\ RondaEnOrden
  BY DEF InvPuntual
<1>2. /\ mapa[p].estado \in {"NEW", "BLOCKED"} /\ mapa[p].PC = hecho[p] /\ Resta(p)
      /\ mapa[p].estado = "BLOCKED" => p \in enIO
  BY <1>1 DEF ColasEnOrden, EnSuLugar, Estado
<1>3. /\ mapa'[p] = [estado |-> "READY", PC |-> hecho[p], est |-> mapa[p].est]
      /\ \A q \in Pids : q # p => mapa'[q] = mapa[q]
      /\ mapa'[p] # NADA
  BY <1>2, OtroEstado DEF Estados
<1>4. mapa'[p] # NADA /\ mapa'[p].estado = "READY" /\ mapa'[p].PC = hecho[p]
  BY <1>3
<1>5. \A q : Esta(ready', q) <=> Esta(ready, q) \/ q = p
  BY ReadyCrece
<1>6. ~Esta(execute, p) /\ ~Esta(ready, p)
  BY <1>1, <1>2 DEF ColasEnOrden, ListoEnOrden, EjecutaEnOrden, Estado
<1>7. CPUsEnOrden' /\ UnoPorCPU' /\ RespuestaEnOrden'
  BY MismasCPUsEnOrden
<1>8. \A q \in Pids : (Resta(q)' <=> Resta(q)) /\ (EnDesalojo(q)' <=> EnDesalojo(q))
  BY DEF Resta, EnDesalojo, Programa
<1>9. \A c \in ListaCPUs : \A q : EnCPU(c, q)' <=> EnCPU(c, q)
  BY MismoEnCPU DEF Vacante
<1>10. \A q \in Pids : \A e : q # p => (Estado(q, e)' <=> Estado(q, e))
  BY <1>3 DEF Estado
<1>11. \A e : Estado(p, e)' <=> e = "READY"
  BY <1>4 DEF Estado
<1>12. ColasEnOrden'
  <2>1. ASSUME NEW q \in Pids, Esta(ready, q) \/ q = p PROVE ListoEnOrden(q)'
    <3>1. CASE q = p
      BY <1>2, <1>4, <1>6, <1>8, <3>1 DEF ListoEnOrden
    <3>2. CASE q # p
      BY <1>1, <1>3, <1>8, <2>1, <3>2 DEF ColasEnOrden, ListoEnOrden
    <3> QED
      BY <3>1, <3>2
  <2>2. ASSUME NEW q \in Pids, Esta(execute, q) PROVE EjecutaEnOrden(q)'
    BY <1>1, <1>6, <1>9, <1>10, <2>2 DEF ColasEnOrden, EjecutaEnOrden, ListaCPUs
  <2>3. ASSUME NEW q \in enIO', q # p
        PROVE  Estado(q, "BLOCKED")' /\ mapa'[q].PC = hecho'[q] /\ Resta(q)'
    <3>1. q \in enIO /\ q \in Pids
      BY <2>3, Formas
    <3> QED
      BY <1>1, <1>3, <1>8, <1>10, <2>3, <3>1 DEF ColasEnOrden
  <2> QED
    BY <1>5, <2>1, <2>2, <2>3 DEF ColasEnOrden
<1>13. EnSuLugar'
  <2> SUFFICES ASSUME NEW q \in Pids
               PROVE /\ Estado(q, "NEW")' => mapa'[q].PC = 0 /\ hecho'[q] = 0
                     /\ Estado(q, "READY")' => Esta(ready, q)'
                     /\ Estado(q, "EXECUTE")' =>
                          \/ Esta(execute, q)' \/ EnDesalojo(q)'
                          \/ \E h \in manejadores' : h.pid = q /\ h.pc = "mapa"
    BY DEF EnSuLugar
  <2>1. CASE q = p
    BY <1>5, <1>11, <2>1
  <2>2. CASE q # p
    BY <1>1, <1>3, <1>5, <1>8, <1>10, <2>2 DEF EnSuLugar
  <2> QED
    BY <2>1, <2>2
<1>14. ManejadoresEnOrden'
  <2>1. ASSUME NEW h \in manejadores PROVE ManejadorEnOrden(h)'
    <3>1. ManejadorEnOrden(h) /\ h.pid \in Pids
      BY <1>1, Formas DEF ManejadoresEnOrden
    <3>2. CASE h.pid = p
      <4>1. h.pc \in {"entra", "libera"}
        BY <1>2, <1>6, <3>1, <3>2 DEF ManejadorEnOrden, Estado
      <4> QED
        BY <1>4, <1>8, <3>1, <3>2, <4>1 DEF ManejadorEnOrden, EnExecute
    <3>3. CASE h.pid # p
      <4>1. EnExecute(h.pid)' <=> EnExecute(h.pid)
        BY <1>3, <3>1, <3>3 DEF EnExecute
      <4>2. Esta(ready, h.pid)' <=> Esta(ready, h.pid)
        BY <1>5, <3>3
      <4> QED
        BY <1>8, <1>10, <3>1, <3>3, <4>1, <4>2 DEF ManejadorEnOrden
    <3> QED
      BY <3>2, <3>3
  <2> QED
    BY <1>1, <2>1 DEF ManejadoresEnOrden
<1>15. RondaEnOrden'
  <2>1. srt.pc \in ConPid => srt.pid \in Pids
    BY Formas
  <2>2. srt.pc \in ConExec => srt.exec \in Pids
    BY Formas
  <2>3. srt.pc = "desaloja" => mapa'[srt.exec].PC = mapa[srt.exec].PC
    BY <1>1, <1>3, <1>6, <2>2 DEF RondaEnOrden, ConExec, ConCPU
  <2>4. srt.pc = "desaloja_estado" => EnExecute(srt.exec)' /\ Esta(ready, srt.exec)'
    BY <1>1, <1>2, <1>3, <1>5, <2>2 DEF RondaEnOrden, ConExec, ConCPU, EnExecute
  <2>5. srt.pc \in ConPid => Esta(ready, srt.pid)' /\ Estado(srt.pid, "READY")'
    BY <1>1, <1>5, <1>10, <1>11, <2>1 DEF RondaEnOrden
  <2>6. Resta(srt.exec)' <=> Resta(srt.exec)
    BY DEF Resta, Programa
  <2>7. \A c \in ListaCPUs : (Tiene(c)' <=> Tiene(c)) /\ (Cediendo(c)' <=> Cediendo(c))
    BY DEF Tiene, Cediendo
  <2>8. srt.pc \in ConPid => srt.cpu \in ListaCPUs
    BY Formas
  <2>9. (HayLibre' <=> HayLibre) /\ ListaCPUs' = ListaCPUs /\ (EnRonda' <=> EnRonda)
    BY DEF HayLibre, ListaCPUs, EnRonda
  <2> QED
    BY <1>1, <2>3, <2>4, <2>5, <2>6, <2>7, <2>8, <2>9 DEF RondaEnOrden, ConPid, ConCPU
<1> QED
  BY <1>1, <1>7, <1>12, <1>13, <1>14, <1>15 DEF InvPuntual

LEMMA EntornoPuntual ==
  ASSUME InvFormas, Puntual, InvPuntual,
         \/ \E p \in Pids : PasoEntorno(p) \/ PasarTiempo(p)
         \/ Avisar \/ UNCHANGED vars
  PROVE  InvPuntual'
<1>1. ASSUME NEW p \in Pids, Llegar(p) PROVE InvPuntual'
  <2>1. /\ p \in DOMAIN regimen.programa /\ mapa[p] # NADA /\ mapa[p].estado = "NEW"
        /\ mapa' = [mapa EXCEPT ![p].estado = "READY"] /\ ready' = Agregar(ready, p)
        /\ UNCHANGED <<regimen, execute, libre, pidActual, srt, manejadores, enIO, cpu, hecho, panico>>
    BY <1>1 DEF Llegar, cpusVars
  <2>2. p \notin enIO /\ hecho[p] = 0
    BY <2>1 DEF InvPuntual, ColasEnOrden, EnSuLugar, Estado
  <2>3. Resta(p)
    <3>1. Programa(p) \in Seq(Operaciones) /\ Programa(p) # <<>>
      BY <2>1, RegimenesOK, Formas DEF Programa
    <3>2. Len(Programa(p)) > 0
      BY <3>1
    <3> QED
      BY <2>1, <2>2, <3>2 DEF Resta
  <2>4. enIO' = enIO \ {p}
    BY <2>1, <2>2
  <2> QED
    BY <2>1, <2>2, <2>3, <2>4, LlegaAReady
<1>2. ASSUME NEW p \in Pids, FinIO(p) PROVE InvPuntual'
  <2>1. p \in enIO /\ mapa[p] # NADA /\ mapa[p].estado = "BLOCKED"
    BY <1>2 DEF FinIO, InvPuntual, ColasEnOrden, Estado
  <2>2. /\ mapa' = [mapa EXCEPT ![p].estado = "READY"] /\ ready' = Agregar(ready, p)
        /\ enIO' = enIO \ {p}
        /\ UNCHANGED <<regimen, execute, libre, pidActual, srt, manejadores, cpu, hecho, panico>>
    BY <1>2, <2>1 DEF FinIO, cpusVars
  <2> QED
    BY <2>1, <2>2, LlegaAReady
<1>3. ASSUME UNCHANGED <<regimen, mapa, ready, execute, libre, pidActual, srt, manejadores, enIO,
                         cpu, hecho, panico>>
      PROVE  InvPuntual'
  <2>1. CPUsEnOrden' /\ UnoPorCPU' /\ RespuestaEnOrden'
    BY <1>3, MismasCPUsEnOrden
  <2>2. ColasEnOrden'
    BY <1>3 DEF InvPuntual, ColasEnOrden, ListoEnOrden, EjecutaEnOrden, Estado, EnCPU, Vacante,
       EnDesalojo, Resta, Programa, ListaCPUs
  <2>3. EnSuLugar' /\ ManejadoresEnOrden'
    BY <1>3 DEF InvPuntual, EnSuLugar, ManejadoresEnOrden, ManejadorEnOrden, Estado, EnDesalojo,
       EnExecute, Resta, Programa
  <2>4. RondaEnOrden'
    BY <1>3 DEF InvPuntual, RondaEnOrden, Estado, Tiene, Cediendo, HayLibre, ListaCPUs, EnRonda,
       EnExecute, Resta, Programa
  <2>5. ~panico'
    BY <1>3 DEF InvPuntual
  <2> QED
    BY <2>1, <2>2, <2>3, <2>4, <2>5 DEF InvPuntual
<1>4. ASSUME NEW p \in Pids, PasarTiempo(p) PROVE InvPuntual'
  BY <1>3, <1>4 DEF PasarTiempo, cpusVars
<1>5. ASSUME Avisar \/ UNCHANGED vars PROVE InvPuntual'
  BY <1>3, <1>5 DEF Avisar, vars, kernelVars, cpusVars
<1> QED
  BY <1>1, <1>2, <1>4, <1>5 DEF PasoEntorno

---------------------------------------------------------------------------
(* The planner. *)

\* The steps that neither take a CPU nor ask it for its process.
Tranquilas == {"espera", "mira", "mira_otra", "compara", "elige", "busca", "mira_exec", "interrumpe"}

\* Whom a round finds: nobody else is at work.
LEMMA EnLaRonda ==
  ASSUME InvFormas, Puntual, InvPuntual, PasoSRT
  PROVE  /\ manejadores = {} /\ \A c \in ListaCPUs : ~Cediendo(c) /\ ~Atendida(c)
         /\ ~Faltan(ready) /\ ~Faltan(execute)
         /\ \A p : ~Tomado(p)
         /\ \A c \in ListaCPUs : ~libre[c] /\ ~Vacante(c) => Tiene(c) \/ Quitada(c)
         /\ \A p \in Pids : EnExecute(p) => Esta(execute, p) \/ EnDesalojo(p)
<1>1. manejadores = {} /\ \A c \in ListaCPUs : ~Cediendo(c)
  BY DEF PasoSRT, Puntual
<1>2. \A c \in ListaCPUs : ~Atendida(c)
  BY <1>1 DEF Atendida
<1>3. \A p : ~Tomado(p)
  BY <1>1 DEF Tomado
<1>4. ~Faltan(ready) /\ ~Faltan(execute)
  <2>1. \A p \in ToSet(ready) : p \in Pids /\ Esta(ready, p)
    BY Formas DEF ToSet, Esta
  <2>2. \A p \in ToSet(execute) : p \in Pids /\ Esta(execute, p)
    BY Formas DEF ToSet, Esta
  <2> QED
    BY <2>1, <2>2 DEF Faltan, InvPuntual, ColasEnOrden, ListoEnOrden, EjecutaEnOrden, Estado
<1>5. \A c \in ListaCPUs : ~libre[c] /\ ~Vacante(c) => Tiene(c) \/ Quitada(c)
  BY <1>2 DEF InvPuntual, CPUsEnOrden, CPUEnOrden
<1>6. \A p \in Pids : EnExecute(p) => Esta(execute, p) \/ EnDesalojo(p)
  BY <1>1 DEF InvPuntual, EnSuLugar, EnExecute, Estado
<1> QED
  BY <1>1, <1>2, <1>3, <1>4, <1>5, <1>6

LEMMA RondaTranquila ==
  ASSUME InvFormas, InvPuntual, srt.pc \in Tranquilas, srt'.pc \in Tranquilas,
         \A q : Esta(ready, q)' <=> Esta(ready, q),
         UNCHANGED <<regimen, mapa, execute, libre, pidActual, manejadores, enIO, cpu, hecho>>
  PROVE  /\ ColasEnOrden' /\ EnSuLugar' /\ CPUsEnOrden' /\ UnoPorCPU' /\ ManejadoresEnOrden'
         /\ RespuestaEnOrden'
<1>1. /\ \A q : ~EnDesalojo(q) /\ ~EnDesalojo(q)'
      /\ \A c : ~Vacante(c) /\ ~Vacante(c)' /\ ~Quitada(c) /\ ~Quitada(c)'
      /\ srt.pc # "respuesta" /\ srt'.pc # "respuesta" /\ srt.pc # "a_execute" /\ ListaCPUs' = ListaCPUs
  BY DEF Tranquilas, EnDesalojo, Vacante, Quitada, ListaCPUs
<1>2. ColasEnOrden' /\ EnSuLugar'
  BY <1>1 DEF InvPuntual, ColasEnOrden, ListoEnOrden, EjecutaEnOrden, EnSuLugar, Estado, EnCPU,
     Resta, Programa
<1>3. CPUsEnOrden'
  BY <1>1 DEF InvPuntual, CPUsEnOrden, CPUEnOrden, LazoEnOrden, TieneEnOrden, Tiene,
     Atendida, Tramo, Fuera,
     Resta, Programa, Cediendo
<1>4. UnoPorCPU'
  BY <1>1 DEF InvPuntual, UnoPorCPU, EnCPU
<1>5. ManejadoresEnOrden'
  BY DEF InvPuntual, ManejadoresEnOrden, ManejadorEnOrden, Estado, EnExecute, Resta, Programa
<1>6. RespuestaEnOrden'
  BY <1>1 DEF RespuestaEnOrden
<1> QED
  BY <1>2, <1>3, <1>4, <1>5, <1>6

LEMMA DespertarPuntual ==
  ASSUME InvFormas, Puntual, InvPuntual, PasoSRT, Despertar \/ Mirar \/ MirarOtra \/ MirarExec
  PROVE  InvPuntual'
<1>1. srt.pc \in Tranquilas /\ srt \in Rondas
  BY Formas DEF Despertar, Mirar, MirarOtra, MirarExec, Tranquilas
<1>2. /\ \E pc : SigueEn(pc)
      /\ UNCHANGED <<regimen, mapa, ready, execute, libre, pidActual, manejadores, enIO, cpu, hecho, panico>>
  BY DEF Despertar, Mirar, MirarOtra, MirarExec, kernelVars, cpusVars
<1>3. /\ srt'.cpu = srt.cpu /\ srt'.exec = srt.exec /\ srt'.pid = srt.pid /\ srt'.PC = srt.PC
  BY <1>1, <1>2, EfectoSigueEn
<1>4. CASE MirarExec
  <2>1. srt.pc = "mira_exec" /\ srt.exec \in Pids /\ Esta(execute, srt.exec)
    BY <1>4, Formas DEF MirarExec, InvPuntual, RondaEnOrden, ConExec, ConCPU
  <2>2. EnExecute(srt.exec)
    BY <2>1 DEF InvPuntual, ColasEnOrden, EjecutaEnOrden, Estado, EnExecute
  <2>3. srt'.pc = "interrumpe"
    BY <1>1, <1>4, <2>2, EfectoSigueEn DEF MirarExec
  <2>4. srt'.pc \in Tranquilas
    BY <2>3 DEF Tranquilas
  <2>5. RondaEnOrden'
    BY <1>2, <1>3, <2>1, <2>3, EnLaRonda
       DEF InvPuntual, RondaEnOrden, Estado, Tiene, Cediendo, ListaCPUs, EnRonda, ConPid, ConCPU
  <2> QED
    BY <1>1, <1>2, <2>4, <2>5, RondaTranquila DEF InvPuntual
<1>5. CASE ~MirarExec
  <2>1. srt'.pc \in {"mira", "elige", "mira_otra", "espera"} \/ (srt'.pc = "compara" /\ ~HayLibre)
    BY <1>1, <1>5, EfectoSigueEn DEF Despertar, Mirar, MirarOtra
  <2>2. srt'.pc \in Tranquilas
    BY <2>1 DEF Tranquilas
  <2>3. manejadores' = {} /\ \A d \in ListaCPUs' : ~Cediendo(d)'
    BY <1>2, EnLaRonda DEF ListaCPUs, Cediendo
  <2>4. srt'.pc = "compara" => ~HayLibre'
    BY <1>2, <2>1 DEF HayLibre, ListaCPUs
  <2>5. RondaEnOrden'
    BY <2>1, <2>3, <2>4 DEF RondaEnOrden, ConPid, ConCPU
  <2> QED
    BY <1>1, <1>2, <2>2, <2>5, RondaTranquila DEF InvPuntual
<1> QED
  BY <1>4, <1>5

LEMMA CompararPuntual ==
  ASSUME InvFormas, Puntual, InvPuntual, PasoSRT, Comparar PROVE InvPuntual'
<1>1. srt.pc = "compara" /\ srt.pc \in Tranquilas
  BY DEF Comparar, Tranquilas
<1>2. execute # <<>> /\ ~Faltan(execute) /\ ~Faltan(ready)
  <2>1. PICK c \in ListaCPUs : TRUE
    <3>1. regimen.cpus \in Seq(CPUs) /\ regimen.cpus # <<>>
      BY Formas, RegimenesOK DEF Puntual
    <3>2. regimen.cpus[1] \in ListaCPUs
      BY <3>1 DEF ListaCPUs, ToSet
    <3> QED
      BY <3>2
  <2>2. ~libre[c]
    BY <1>1 DEF InvPuntual, RondaEnOrden, HayLibre
  <2>3. Tiene(c)
    BY <1>1, <2>2, EnLaRonda DEF Vacante, Quitada
  <2>4. Esta(execute, pidActual[c])
    BY <1>1, <2>3 DEF InvPuntual, CPUsEnOrden, CPUEnOrden, TieneEnOrden
  <2>5. execute # <<>>
    BY <2>4 DEF Esta
  <2> QED
    BY <2>5, EnLaRonda
<1>3. /\ srt' = SrtEsperando \/
           \E e \in Pids :
             /\ Esta(execute, e) /\ srt'.pc = "busca" /\ srt'.exec = e /\ srt' \in Rondas
      /\ \A q : Esta(ready', q) <=> Esta(ready, q)
      /\ UNCHANGED <<regimen, mapa, execute, libre, pidActual, manejadores, enIO, cpu, hecho, panico>>
  BY <1>2, EfectoComparar DEF cpusVars
<1>4. srt'.pc \in Tranquilas /\ srt'.pc \in {"espera", "busca"}
  BY <1>3, EsperandoForma DEF Tranquilas
<1>5. manejadores' = {} /\ \A d \in ListaCPUs' : ~Cediendo(d)'
  BY <1>3, EnLaRonda DEF ListaCPUs, Cediendo
<1>6. srt'.pc = "busca" => Esta(execute', srt'.exec)
  BY <1>3, EsperandoForma
<1>7. RondaEnOrden'
  BY <1>4, <1>5, <1>6 DEF RondaEnOrden, ConPid, ConCPU
<1> QED
  BY <1>1, <1>3, <1>4, <1>7, RondaTranquila DEF InvPuntual

LEMMA BuscarPuntual ==
  ASSUME InvFormas, Puntual, InvPuntual, PasoSRT, Buscar PROVE InvPuntual'
<1>1. srt.pc = "busca" /\ srt.pc \in Tranquilas
  BY DEF Buscar, Tranquilas
<1>2. UNCHANGED <<regimen, mapa, ready, execute, libre, pidActual, manejadores, enIO, cpu, hecho>>
  BY EfectoBuscar DEF kernelVars, cpusVars
<1>3. \A p \in Pids : Esta(ready, p) =>
        /\ mapa[p] # NADA /\ mapa[p].PC = hecho[p] /\ Estado(p, "READY")
  BY <1>1 DEF InvPuntual, ColasEnOrden, ListoEnOrden, EnDesalojo, Estado
<1>4. manejadores' = {} /\ \A d \in ListaCPUs' : ~Cediendo(d)'
  BY <1>2, EnLaRonda DEF ListaCPUs, Cediendo
<1>5. CASE srt' = SrtEsperando
  <2>1. srt'.pc = "espera" /\ srt'.pc \in Tranquilas /\ panico' = panico
    BY <1>1, <1>3, <1>5, EfectoBuscar, EsperandoForma DEF Tranquilas
  <2>2. RondaEnOrden'
    BY <1>4, <2>1 DEF RondaEnOrden, ConPid, ConCPU
  <2> QED
    BY <1>1, <1>2, <2>1, <2>2, RondaTranquila DEF InvPuntual
<1>6. CASE srt' # SrtEsperando
  <2>1. PICK c \in ListaCPUs, p \in Pids :
          /\ ~libre[c] /\ pidActual[c] = srt.exec
          /\ Esta(ready, p) /\ mapa[p] # NADA /\ mapa[p].PC \in Nat
          /\ srt'.pc = "mira_exec" /\ srt'.cpu = c /\ srt'.exec = srt.exec
          /\ srt'.pid = p /\ srt'.PC = mapa[p].PC /\ srt' \in Rondas /\ panico' = panico
    BY <1>3, <1>6, EfectoBuscar
  <2>2. Tiene(c)
    BY <1>1, <2>1, EnLaRonda DEF Vacante, Quitada
  <2>3. Esta(execute, srt.exec)
    BY <1>1 DEF InvPuntual, RondaEnOrden
  <2>4. srt'.pc \in Tranquilas
    BY <2>1 DEF Tranquilas
  <2>5. Tiene(c)' /\ Estado(p, "READY")' /\ srt'.PC = hecho'[p] /\ Esta(ready', p)
    BY <1>2, <1>3, <2>1, <2>2 DEF Tiene, Estado
  <2>6. RondaEnOrden'
    BY <1>2, <1>4, <2>1, <2>3, <2>5 DEF RondaEnOrden, ConPid, ConCPU
  <2> QED
    BY <1>1, <1>2, <2>1, <2>4, <2>6, RondaTranquila DEF InvPuntual
<1> QED
  BY <1>5, <1>6

---------------------------------------------------------------------------
(* What a step leaves alone, by what each part of InvPuntual depends on.     *)

ProcesoEnOrden(p) ==
  /\ Esta(ready, p) => ListoEnOrden(p)
  /\ Esta(execute, p) => EjecutaEnOrden(p)
  /\ p \in enIO => Estado(p, "BLOCKED") /\ mapa[p].PC = hecho[p] /\ Resta(p)
  /\ Estado(p, "NEW") => mapa[p].PC = 0 /\ hecho[p] = 0
  /\ Estado(p, "READY") => Esta(ready, p)
  /\ Estado(p, "EXECUTE") =>
       \/ Esta(execute, p) \/ EnDesalojo(p)
       \/ \E h \in manejadores : h.pid = p /\ h.pc = "mapa"

LEMMA ProcesosEnOrden ==
  ASSUME InvPuntual PROVE \A p \in Pids : ProcesoEnOrden(p)
BY DEF InvPuntual, ColasEnOrden, EnSuLugar, ProcesoEnOrden

LEMMA ProcesosLuego ==
  ASSUME enIO' \subseteq Pids, \A p \in Pids : ProcesoEnOrden(p)'
  PROVE  ColasEnOrden' /\ EnSuLugar'
BY DEF ColasEnOrden, EnSuLugar, ProcesoEnOrden

MismoProceso(p) ==
  /\ mapa'[p] = mapa[p] /\ hecho'[p] = hecho[p]
  /\ (Esta(ready', p) <=> Esta(ready, p)) /\ (Esta(execute', p) <=> Esta(execute, p))
  /\ p \in enIO' <=> p \in enIO

MismaCPU(c) ==
  /\ cpu'[c] = cpu[c] /\ libre'[c] = libre[c] /\ pidActual'[c] = pidActual[c]
  /\ (Vacante(c)' <=> Vacante(c)) /\ (Atendida(c)' <=> Atendida(c)) /\ (Quitada(c) => Quitada(c)')
  /\ srt.pc = "respuesta" /\ srt.cpu = c => srt'.pc = "respuesta" /\ srt'.cpu = c

LEMMA OtroProceso ==
  ASSUME InvPuntual, regimen' = regimen, NEW p \in Pids, MismoProceso(p),
         EnDesalojo(p)' <=> EnDesalojo(p),
         \A c \in ListaCPUs : EnCPU(c, p) => EnCPU(c, p)',
         \A h \in manejadores : h.pid = p /\ h.pc = "mapa" => h \in manejadores'
  PROVE  ProcesoEnOrden(p)'
<1>1. ProcesoEnOrden(p) /\ ListaCPUs' = ListaCPUs
  BY ProcesosEnOrden DEF ListaCPUs
<1>2. (Resta(p)' <=> Resta(p)) /\ \A e : Estado(p, e)' <=> Estado(p, e)
  BY DEF MismoProceso, Resta, Programa, Estado
<1>3. ListoEnOrden(p) => ListoEnOrden(p)'
  BY <1>2 DEF MismoProceso, ListoEnOrden
<1>4. EjecutaEnOrden(p) => EjecutaEnOrden(p)'
  BY <1>1, <1>2 DEF MismoProceso, EjecutaEnOrden
<1> QED
  BY <1>1, <1>2, <1>3, <1>4 DEF ProcesoEnOrden, MismoProceso

LEMMA OtraCPU ==
  ASSUME InvPuntual, regimen' = regimen, NEW c \in ListaCPUs, MismaCPU(c),
         Tiene(c) => /\ hecho'[pidActual[c]] = hecho[pidActual[c]]
                     /\ Esta(execute', pidActual[c]) \/ (srt'.pc = "a_execute" /\ srt'.cpu = c)
  PROVE  CPUEnOrden(c)' /\ \A p : EnCPU(c, p)' <=> EnCPU(c, p)
<1>1. CPUEnOrden(c)
  BY DEF InvPuntual, CPUsEnOrden
<1>2. (Tiene(c)' <=> Tiene(c)) /\ (Cediendo(c)' <=> Cediendo(c)) /\ Tramo(c)' = Tramo(c)
  BY DEF MismaCPU, Tiene, Cediendo, Tramo, Fuera
<1>3. LazoEnOrden(c)'
  BY <1>1, <1>2 DEF CPUEnOrden, LazoEnOrden, MismaCPU
<1>4. Tiene(c)' => TieneEnOrden(c)'
  BY <1>1, <1>2 DEF CPUEnOrden, TieneEnOrden, MismaCPU, Resta, Programa
<1>5. \A p : EnCPU(c, p)' <=> EnCPU(c, p)
  BY DEF EnCPU, MismaCPU
<1> QED
  BY <1>1, <1>2, <1>3, <1>4, <1>5 DEF CPUEnOrden, MismaCPU

LEMMA OtroManejador ==
  ASSUME InvPuntual, regimen' = regimen, NEW h \in manejadores, MismoProceso(h.pid),
         libre'[h.cpu] = libre[h.cpu], pidActual'[h.cpu] = pidActual[h.cpu]
  PROVE  ManejadorEnOrden(h)'
<1>1. ManejadorEnOrden(h)
  BY DEF InvPuntual, ManejadoresEnOrden
<1>2. /\ Resta(h.pid)' <=> Resta(h.pid)
      /\ EnExecute(h.pid)' <=> EnExecute(h.pid)
      /\ \A e : Estado(h.pid, e)' <=> Estado(h.pid, e)
  BY DEF MismoProceso, Resta, Programa, Estado, EnExecute
<1> QED
  BY <1>1, <1>2 DEF ManejadorEnOrden, MismoProceso

\* Nothing is at work: a round that is over, or not at its ends.
LEMMA MismosManejadores == manejadores = {} /\ manejadores' = manejadores => ManejadoresEnOrden'
BY DEF ManejadoresEnOrden

LEMMA SinRonda ==
  ASSUME srt'.pc \in {"espera", "respuesta"},
         srt'.pc = "respuesta" => /\ Esta(ready', srt'.pid) /\ srt'.PC = hecho'[srt'.pid]
                                  /\ Estado(srt.pid, "READY")'
  PROVE  RondaEnOrden'
BY DEF RondaEnOrden, EnRonda, ConPid, ConCPU

\* A CPU that has nothing to do while the planner is at work waits for a process.
LEMMA Desocupada ==
  ASSUME InvFormas, NEW c \in CPUs, ~Tiene(c), ~Cediendo(c)
  PROVE  cpu[c].pc = "libre" /\ cpu[c].cola = <<>>
BY Formas DEF Tiene, Cediendo, Maquinas

LEMMA ElegirPuntual ==
  ASSUME InvFormas, Puntual, InvPuntual, PasoSRT, Elegir PROVE InvPuntual'
<1>1. srt.pc = "elige"
  BY DEF Elegir
<1>2. PICK c \in ListaCPUs, p \in Pids :
        /\ libre[c] /\ Esta(ready, p) /\ mapa[p] # NADA /\ mapa[p].PC \in Nat
        /\ libre' = [libre EXCEPT ![c] = FALSE]
        /\ srt'.pc = "envia" /\ srt'.cpu = c /\ srt'.exec = srt.exec /\ srt'.pid = p
        /\ srt'.PC = mapa[p].PC /\ srt' \in Rondas
  BY EnLaRonda, EfectoElegir
<1>3. /\ \A q : Esta(ready', q) <=> Esta(ready, q)
      /\ UNCHANGED <<regimen, mapa, execute, restante, pidActual, aviso, porAvisar,
                     manejadores, enIO, cpu, hecho, panico>>
  BY EnLaRonda, EfectoElegir
<1>4. /\ ListaCPUs' = ListaCPUs /\ c \in CPUs /\ ~libre'[c]
      /\ \A d \in ListaCPUs : d # c => libre'[d] = libre[d]
  BY <1>2, <1>3, Formas DEF ListaCPUs
<1>5. /\ \A d : ~Vacante(d) /\ (Vacante(d)' <=> d = c) /\ ~Quitada(d) /\ ~Quitada(d)'
      /\ \A q : ~EnDesalojo(q) /\ ~EnDesalojo(q)'
  BY <1>1, <1>2 DEF Vacante, Quitada, EnDesalojo
<1>6. \A d \in ListaCPUs : d # c => MismaCPU(d)
  BY <1>1, <1>3, <1>4, <1>5 DEF MismaCPU, Atendida
<1>7. \A q : ~EnCPU(c, q) /\ ~EnCPU(c, q)'
  BY <1>2, <1>5 DEF EnCPU
<1>8. ~Tiene(c) /\ \A d \in ListaCPUs : (Tiene(d)' <=> Tiene(d)) /\ (Cediendo(d)' <=> Cediendo(d))
  BY <1>2, <1>3 DEF InvPuntual, CPUsEnOrden, CPUEnOrden, TieneEnOrden, Tiene, Cediendo
<1>9. ASSUME NEW d \in ListaCPUs PROVE CPUEnOrden(d)' /\ \A q : EnCPU(d, q)' <=> EnCPU(d, q)
  <2>1. CASE d # c
    <3>1. Tiene(d) => TieneEnOrden(d)
      BY DEF InvPuntual, CPUsEnOrden, CPUEnOrden
    <3>2. Tiene(d) => Esta(execute', pidActual[d])
      BY <1>1, <1>3, <3>1 DEF TieneEnOrden
    <3> QED
      BY <1>3, <1>6, <2>1, <3>2, OtraCPU
  <2>2. CASE d = c
    <3>1. LazoEnOrden(c) /\ ~Tiene(c)' /\ Vacante(c)'
      BY <1>5, <1>8 DEF InvPuntual, CPUsEnOrden, CPUEnOrden
    <3>2. LazoEnOrden(c)'
      BY <1>1, <1>2, <1>3, <1>8, <3>1 DEF LazoEnOrden
    <3> QED
      BY <1>7, <2>2, <3>1, <3>2 DEF CPUEnOrden
  <2> QED
    BY <2>1, <2>2
<1>10. ColasEnOrden' /\ EnSuLugar'
  <2>1. ASSUME NEW q \in Pids PROVE ProcesoEnOrden(q)'
    BY <1>3, <1>5, <1>9, OtroProceso DEF MismoProceso
  <2> QED
    BY <1>3, <2>1, Formas, ProcesosLuego
<1>11. CPUsEnOrden' /\ UnoPorCPU'
  BY <1>4, <1>9 DEF InvPuntual, CPUsEnOrden, UnoPorCPU
<1>12. ManejadoresEnOrden'
  BY <1>3, EnLaRonda, MismosManejadores
<1>13. RespuestaEnOrden'
  BY <1>2 DEF RespuestaEnOrden
<1>14. RondaEnOrden'
  <2>1. Estado(p, "READY")' /\ mapa[p].PC = hecho[p] /\ ~Tiene(c)'
    BY <1>2, <1>3, <1>5, <1>8 DEF InvPuntual, ColasEnOrden, ListoEnOrden, Estado
  <2>2. manejadores' = {} /\ \A d \in ListaCPUs' : ~Cediendo(d)'
    BY <1>3, <1>4, <1>8, EnLaRonda
  <2> QED
    BY <1>2, <1>3, <1>4, <2>1, <2>2 DEF RondaEnOrden, ConPid, ConCPU
<1> QED
  BY <1>3, <1>10, <1>11, <1>12, <1>13, <1>14 DEF InvPuntual

LEMMA EnviarPuntual ==
  ASSUME InvFormas, Puntual, InvPuntual, PasoSRT, Enviar PROVE InvPuntual'
<1>1. srt.pc = "envia" /\ srt \in Rondas /\ srt.cpu \in ListaCPUs /\ srt.pid \in Pids
  BY Formas DEF Enviar, ConPid
<1>2. PICK c \in ListaCPUs, p \in Pids, n \in Nat : c = srt.cpu /\ p = srt.pid /\ n = srt.PC
  BY <1>1 DEF Rondas
<1>3. ~libre[c] /\ ~Tiene(c) /\ Esta(ready, p) /\ n = hecho[p] /\ Estado(p, "READY") /\ c \in CPUs
  BY <1>1, <1>2, Formas DEF InvPuntual, RondaEnOrden, ConPid
<1>4. /\ Entrega(c, p, n) /\ SigueEn("a_execute")
      /\ UNCHANGED <<regimen, mapa, ready, execute, restante, libre, manejadores, enIO, hecho, panico>>
  BY <1>2 DEF Enviar, Entrega, kernelVars
<1>5. srt'.pc = "a_execute" /\ srt'.cpu = c /\ srt'.pid = p /\ srt'.PC = n
  BY <1>1, <1>2, <1>4, EfectoSigueEn
<1>6. cpu[c].pc = "libre" /\ cpu[c].cola = <<>>
  BY <1>3, Desocupada, EnLaRonda
<1>7. /\ \E m \in Maquinas :
           /\ Otra(c, m) /\ MismaInt(m, cpu[c]) /\ m.pc = "libre" /\ m.envie = cpu[c].envie
           /\ m.cola = Append(cpu[c].cola, [pid |-> p, PC |-> n])
      /\ pidActual'[c] = p /\ \A d \in CPUs : d # c => pidActual'[d] = pidActual[d]
  <2>1. /\ \E m \in Maquinas :
             /\ Otra(c, m) /\ MismaInt(m, cpu[c]) /\ m.pc = cpu[c].pc /\ m.pid = cpu[c].pid
             /\ m.PC = cpu[c].PC /\ m.res = cpu[c].res /\ m.envie = cpu[c].envie
             /\ m.cola = Append(cpu[c].cola, [pid |-> p, PC |-> n])
        /\ pidActual' \in [CPUs -> Pids \cup {NADA}] /\ pidActual'[c] = p
        /\ \A d \in CPUs : d # c => pidActual'[d] = pidActual[d]
    BY <1>3, <1>4, EfectoEntrega DEF InvFormas
  <2> QED
    BY <1>6, <2>1
<1>8. PICK k : k = [pid |-> p, PC |-> n]
  OBVIOUS
<1>9. /\ cpu'[c].cola = <<k>> /\ cpu'[c].pc = "libre" /\ cpu'[c].envie = cpu[c].envie
      /\ cpu'[c].hay = cpu[c].hay /\ cpu'[c].int = cpu[c].int
      /\ \A d \in ListaCPUs : d # c => cpu'[d] = cpu[d] /\ pidActual'[d] = pidActual[d]
  <2>1. Append(cpu[c].cola, k) = <<k>>
    BY <1>6
  <2> QED
    BY <1>7, <1>8, <2>1, Formas DEF Otra, MismaInt
<1>10. Len(cpu'[c].cola) = 1 /\ Head(cpu'[c].cola) = k /\ cpu'[c].cola # <<>>
  BY <1>9
<1>11. /\ \A d : (Vacante(d) <=> d = c) /\ ~Vacante(d)' /\ ~Quitada(d) /\ ~Quitada(d)'
       /\ \A q : ~EnDesalojo(q) /\ ~EnDesalojo(q)'
       /\ ListaCPUs' = ListaCPUs
  BY <1>1, <1>2, <1>4, <1>5 DEF Vacante, Quitada, EnDesalojo, ListaCPUs
<1>12. \A d \in ListaCPUs : d # c => MismaCPU(d)
  BY <1>1, <1>4, <1>9, <1>11 DEF MismaCPU, Atendida
<1>13. \A q : ~EnCPU(c, q) /\ (EnCPU(c, q)' <=> q = p)
  BY <1>3, <1>4, <1>7, <1>11 DEF EnCPU
<1>14. ListoEnOrden(p)
  BY <1>3 DEF InvPuntual, ColasEnOrden
<1>15. CPUEnOrden(c)'
  <2>1. LazoEnOrden(c)
    BY DEF InvPuntual, CPUsEnOrden, CPUEnOrden
  <2>2. ~cpu[c].envie /\ cpu[c].int = "no" /\ ~cpu[c].hay
    BY <1>1, <1>6, <2>1 DEF LazoEnOrden, Cediendo
  <2>3. LazoEnOrden(c)'
    BY <1>9, <1>10, <2>2 DEF LazoEnOrden
  <2>4. Tiene(c)'
    BY <1>10 DEF Tiene
  <2>5. Tramo(c)' = k
    BY <1>10 DEF Tramo
  <2>6. ~Atendida(c)'
    BY <1>4, EnLaRonda DEF Atendida
  <2>7. Resta(p)'
    BY <1>4, <1>14 DEF ListoEnOrden, Resta, Programa
  <2>8. TieneEnOrden(c)'
    BY <1>3, <1>4, <1>5, <1>7, <1>8, <1>11, <2>5, <2>6, <2>7 DEF TieneEnOrden
  <2> QED
    BY <2>3, <2>4, <2>8 DEF CPUEnOrden
<1>16. ASSUME NEW d \in ListaCPUs, d # c
       PROVE  CPUEnOrden(d)' /\ \A q : EnCPU(d, q)' <=> EnCPU(d, q)
  <2>1. Tiene(d) => TieneEnOrden(d)
    BY DEF InvPuntual, CPUsEnOrden, CPUEnOrden
  <2>2. Tiene(d) => Esta(execute', pidActual[d])
    BY <1>1, <1>4, <2>1 DEF TieneEnOrden
  <2> QED
    BY <1>4, <1>12, <1>16, <2>2, OtraCPU
<1>17. ColasEnOrden' /\ EnSuLugar'
  <2>1. ASSUME NEW q \in Pids PROVE ProcesoEnOrden(q)'
    <3>1. \A d \in ListaCPUs : EnCPU(d, q) => EnCPU(d, q)'
      BY <1>13, <1>16
    <3> QED
      BY <1>4, <1>11, <3>1, OtroProceso DEF MismoProceso
  <2> QED
    BY <1>4, <2>1, Formas, ProcesosLuego
<1>18. UnoPorCPU'
  <2>1. ASSUME NEW d \in ListaCPUs, d # c, EnCPU(d, p) PROVE FALSE
    <3>1. ~libre[d] /\ pidActual[d] = p /\ ~Vacante(d)
      BY <2>1 DEF EnCPU
    <3>2. Tiene(d)
      BY <1>11, <3>1, EnLaRonda
    <3>3. Esta(execute, p)
      BY <1>1, <3>1, <3>2 DEF InvPuntual, CPUsEnOrden, CPUEnOrden, TieneEnOrden
    <3> QED
      BY <1>14, <3>3 DEF ListoEnOrden
  <2> QED
    BY <1>11, <1>13, <1>16, <2>1 DEF InvPuntual, UnoPorCPU
<1>19. ManejadoresEnOrden'
  BY <1>4, EnLaRonda, MismosManejadores
<1>20. RespuestaEnOrden'
  BY <1>5 DEF RespuestaEnOrden
<1>21. RondaEnOrden'
  <2>1. \A d \in ListaCPUs' : ~Cediendo(d)'
    <3>1. ~Cediendo(c)'
      BY <1>9 DEF Cediendo
    <3>2. \A d \in ListaCPUs : d # c => ~Cediendo(d)'
      BY <1>9, EnLaRonda DEF Cediendo
    <3> QED
      BY <1>11, <3>1, <3>2
  <2>2. manejadores' = {}
    BY <1>4, EnLaRonda
  <2>3. Tiene(c)' /\ Estado(p, "READY")' /\ Esta(ready', p) /\ n = hecho'[p]
    BY <1>3, <1>4, <1>10 DEF Tiene, Estado
  <2> QED
    BY <1>3, <1>4, <1>5, <1>7, <2>1, <2>2, <2>3 DEF RondaEnOrden, ConPid, ConCPU
<1> QED
  BY <1>4, <1>11, <1>15, <1>16, <1>17, <1>18, <1>19, <1>20, <1>21 DEF InvPuntual, CPUsEnOrden

LEMMA ReadyAExecutePuntual ==
  ASSUME InvFormas, Puntual, InvPuntual, PasoSRT, ReadyAExecute PROVE InvPuntual'
<1>1. srt.pc = "a_execute" /\ srt.cpu \in ListaCPUs /\ srt.pid \in Pids
  BY Formas DEF ReadyAExecute, ConPid
<1>2. PICK c \in ListaCPUs, p \in Pids : c = srt.cpu /\ p = srt.pid
  BY <1>1
<1>3. ~libre[c] /\ Tiene(c) /\ pidActual[c] = p /\ Esta(ready, p) /\ Estado(p, "READY") /\ mapa[p] # NADA
  BY <1>1, <1>2 DEF InvPuntual, RondaEnOrden, ConPid, Estado
<1>4. /\ ready' = Quitar(ready, p) /\ execute' = Agregar(execute, p)
      /\ mapa' = [mapa EXCEPT ![p].estado = "EXECUTE"] /\ srt' = SrtEsperando
      /\ UNCHANGED <<regimen, libre, pidActual, manejadores, enIO, cpu, hecho, panico>>
  BY <1>2, <1>3 DEF ReadyAExecute, cpusVars
<1>5. srt'.pc = "espera"
  BY <1>4, EsperandoForma
<1>6. /\ \A d : ~Vacante(d) /\ ~Vacante(d)' /\ ~Quitada(d) /\ ~Quitada(d)'
      /\ \A q : ~EnDesalojo(q) /\ ~EnDesalojo(q)'
      /\ ListaCPUs' = ListaCPUs
  BY <1>1, <1>4, <1>5 DEF Vacante, Quitada, EnDesalojo, ListaCPUs
<1>7. /\ \A q : Esta(ready', q) <=> Esta(ready, q) /\ q # p
      /\ \A q : Esta(execute', q) <=> Esta(execute, q) \/ q = p
  BY <1>4, Formas, QuitarExacto, AgregarExacto
<1>8. /\ mapa'[p] = [estado |-> "EXECUTE", PC |-> mapa[p].PC, est |-> mapa[p].est]
      /\ mapa'[p] # NADA /\ \A q \in Pids : q # p => mapa'[q] = mapa[q]
  BY <1>3, <1>4, OtroEstado DEF Estados
<1>9. \A e : Estado(p, e)' <=> e = "EXECUTE"
  BY <1>8 DEF Estado
<1>10. ListoEnOrden(p)
  BY <1>3 DEF InvPuntual, ColasEnOrden
<1>11. ASSUME NEW d \in ListaCPUs PROVE CPUEnOrden(d)' /\ \A q : EnCPU(d, q)' <=> EnCPU(d, q)
  <2>1. MismaCPU(d)
    BY <1>1, <1>4, <1>6 DEF MismaCPU, Atendida
  <2>2. Tiene(d) => TieneEnOrden(d)
    BY DEF InvPuntual, CPUsEnOrden, CPUEnOrden
  <2>3. Tiene(d) => Esta(execute', pidActual[d])
    BY <1>2, <1>3, <1>7, <2>2 DEF TieneEnOrden
  <2> QED
    BY <1>4, <2>1, <2>3, OtraCPU
<1>12. ProcesoEnOrden(p)'
  <2>1. EnCPU(c, p)'
    BY <1>3, <1>4, <1>6 DEF EnCPU
  <2>2. EjecutaEnOrden(p)'
    BY <1>4, <1>6, <1>9, <1>10, <2>1 DEF EjecutaEnOrden, ListoEnOrden
  <2>3. p \notin enIO'
    BY <1>4, <1>10 DEF ListoEnOrden
  <2> QED
    BY <1>7, <1>9, <2>2, <2>3 DEF ProcesoEnOrden
<1>13. ColasEnOrden' /\ EnSuLugar'
  <2>1. ASSUME NEW q \in Pids, q # p PROVE ProcesoEnOrden(q)'
    BY <1>4, <1>6, <1>7, <1>8, <1>11, <2>1, OtroProceso DEF MismoProceso
  <2> QED
    BY <1>4, <1>12, <2>1, Formas, ProcesosLuego
<1>14. CPUsEnOrden' /\ UnoPorCPU'
  BY <1>6, <1>11 DEF InvPuntual, CPUsEnOrden, UnoPorCPU
<1>15. ManejadoresEnOrden'
  BY <1>4, EnLaRonda, MismosManejadores
<1>16. RespuestaEnOrden'
  BY <1>5 DEF RespuestaEnOrden
<1>17. RondaEnOrden'
  BY <1>5, SinRonda
<1> QED
  BY <1>4, <1>13, <1>14, <1>15, <1>16, <1>17 DEF InvPuntual

\* The CPU of an interruption, whose loop goes on.
LEMMA MismoLazoCPU ==
  ASSUME InvPuntual, NEW c \in ListaCPUs, MismoLazo(cpu'[c], cpu[c]),
         UNCHANGED <<regimen, libre, pidActual, manejadores, hecho, execute>>,
         ~Vacante(c), ~Vacante(c)', srt.pc # "a_execute",
         Quitada(c) => Quitada(c)' \/ libre[c],
         (srt'.pc = "respuesta" /\ srt'.cpu = c) \/ (cpu'[c].int = "no" /\ ~cpu'[c].hay)
  PROVE  CPUEnOrden(c)' /\ \A p : EnCPU(c, p)' <=> EnCPU(c, p)
<1>1. CPUEnOrden(c)
  BY DEF InvPuntual, CPUsEnOrden
<1>2. (Tiene(c)' <=> Tiene(c)) /\ (Cediendo(c)' <=> Cediendo(c)) /\ Tramo(c)' = Tramo(c)
  BY DEF MismoLazo, Tiene, Cediendo, Tramo, Fuera
<1>3. LazoEnOrden(c)'
  BY <1>1, <1>2 DEF CPUEnOrden, LazoEnOrden, MismoLazo
<1>4. Tiene(c)' => TieneEnOrden(c)'
  BY <1>1, <1>2 DEF CPUEnOrden, TieneEnOrden, Resta, Programa, Atendida
<1>5. \A p : EnCPU(c, p)' <=> EnCPU(c, p)
  BY DEF EnCPU
<1> QED
  BY <1>1, <1>2, <1>3, <1>4, <1>5 DEF CPUEnOrden, Atendida

LEMMA InterrumpirPuntual ==
  ASSUME InvFormas, Puntual, InvPuntual, PasoSRT, Interrumpir PROVE InvPuntual'
<1>1. srt.pc = "interrumpe" /\ srt \in Rondas /\ srt.cpu \in ListaCPUs /\ srt.exec \in Pids
  BY Formas DEF Interrumpir, ConPid, ConExec, ConCPU
<1>2. PICK c \in ListaCPUs, e \in Pids : c = srt.cpu /\ e = srt.exec
  BY <1>1
<1>3. ~libre[c] /\ pidActual[c] = e /\ Tiene(c) /\ Esta(execute, e) /\ c \in CPUs
  BY <1>1, <1>2, Formas DEF InvPuntual, RondaEnOrden
<1>4. /\ SigueEn("respuesta")
      /\ UNCHANGED <<regimen, mapa, ready, execute, libre, pidActual, manejadores, enIO, hecho, panico>>
  BY DEF Interrumpir, kernelVars, cpusVars
<1>5. srt'.pc = "respuesta" /\ srt'.cpu = c /\ srt'.exec = e /\ srt'.pid = srt.pid /\ srt'.PC = srt.PC
  BY <1>1, <1>2, <1>4, EfectoSigueEn
<1>6. /\ MismoLazo(cpu'[c], cpu[c]) /\ cpu'[c].hay /\ cpu'[c].int = "espera"
      /\ \A d \in ListaCPUs : d # c => cpu'[d] = cpu[d]
  BY <1>2, <1>3, Formas, EfectoInterrumpir DEF InvFormas, Otra
<1>7. /\ \A d : ~Vacante(d) /\ ~Vacante(d)' /\ ~Quitada(d) /\ ~Quitada(d)'
      /\ \A q : ~EnDesalojo(q) /\ ~EnDesalojo(q)'
      /\ ListaCPUs' = ListaCPUs
  BY <1>1, <1>4, <1>5, <1>6 DEF Vacante, Quitada, EnDesalojo, ListaCPUs
<1>8. ASSUME NEW d \in ListaCPUs PROVE CPUEnOrden(d)' /\ \A q : EnCPU(d, q)' <=> EnCPU(d, q)
  <2>1. CASE d = c
    BY <1>1, <1>4, <1>5, <1>6, <1>7, <2>1, MismoLazoCPU
  <2>2. CASE d # c
    <3>1. MismaCPU(d)
      BY <1>1, <1>4, <1>6, <1>7, <2>2 DEF MismaCPU, Atendida
    <3>2. Tiene(d) => Esta(execute', pidActual[d])
      BY <1>1, <1>4 DEF InvPuntual, CPUsEnOrden, CPUEnOrden, TieneEnOrden
    <3> QED
      BY <1>4, <3>1, <3>2, OtraCPU
  <2> QED
    BY <2>1, <2>2
<1>9. ColasEnOrden' /\ EnSuLugar'
  <2>1. ASSUME NEW q \in Pids PROVE ProcesoEnOrden(q)'
    BY <1>4, <1>7, <1>8, OtroProceso DEF MismoProceso
  <2> QED
    BY <1>4, <2>1, Formas, ProcesosLuego
<1>10. CPUsEnOrden' /\ UnoPorCPU'
  BY <1>7, <1>8 DEF InvPuntual, CPUsEnOrden, UnoPorCPU
<1>11. ManejadoresEnOrden'
  BY <1>4, EnLaRonda, MismosManejadores
<1>12. Tiene(c)'
  BY <1>3, <1>6 DEF Tiene, MismoLazo
<1>13. RespuestaEnOrden'
  BY <1>3, <1>4, <1>5, <1>6, <1>12 DEF RespuestaEnOrden
<1>14. RondaEnOrden'
  <2>1. Esta(ready, srt.pid) /\ srt.PC = hecho[srt.pid] /\ Estado(srt.pid, "READY")
    BY <1>1 DEF InvPuntual, RondaEnOrden, ConPid, ConCPU
  <2>2. Estado(srt.pid, "READY")'
    BY <1>4, <1>5, <2>1 DEF Estado
  <2> QED
    BY <1>4, <1>5, <2>1, <2>2, SinRonda
<1> QED
  BY <1>4, <1>9, <1>10, <1>11, <1>13, <1>14 DEF InvPuntual

LEMMA RecibirPuntual ==
  ASSUME InvFormas, Puntual, InvPuntual, PasoSRT, Recibir PROVE InvPuntual'
<1>1. srt.pc = "respuesta" /\ srt \in Rondas /\ srt.cpu \in ListaCPUs /\ srt.exec \in Pids
  BY Formas DEF Recibir, ConPid, ConExec, ConCPU
<1>2. PICK c \in ListaCPUs, e \in Pids : c = srt.cpu /\ e = srt.exec
  BY <1>1
<1>3. /\ pidActual[c] = e /\ cpu[c].int = "hecho" /\ cpu[c].cola = <<>> /\ cpu[c].pc \in {"cede", "libre"}
      /\ cpu[c].hay <=> cpu[c].pc = "cede"
      /\ (Esta(execute, e) <=> ~libre[c])
      /\ Esta(execute, e) => Resta(e) /\ cpu[c].resp = hecho[e]
      /\ c \in CPUs
  BY <1>1, <1>2, Formas, EnLaRonda DEF Recibir, InvPuntual, RespuestaEnOrden
<1>4. cpu[c].pc = "libre" /\ ~cpu[c].hay /\ ~Tiene(c)
  BY <1>3, EnLaRonda DEF Cediendo, Tiene
<1>5. /\ srt' = IF EnExecute(e) THEN [srt EXCEPT !.pc = "actualiza"] ELSE SrtEsperando
      /\ UNCHANGED <<regimen, mapa, ready, execute, libre, pidActual, manejadores, enIO, hecho, panico>>
  BY <1>2 DEF Recibir, kernelVars, cpusVars
<1>6. /\ MismoLazo(cpu'[c], cpu[c]) /\ ~cpu'[c].hay /\ cpu'[c].int = "no" /\ cpu'[c].resp = cpu[c].resp
      /\ \A d \in ListaCPUs : d # c => cpu'[d] = cpu[d]
  BY <1>2, <1>3, <1>4, Formas, EfectoRecibir DEF InvFormas, Otra
<1>7. EnExecute(e) <=> Esta(execute, e)
  <2>1. EnExecute(e) => Esta(execute, e)
    BY <1>1, EnLaRonda DEF EnDesalojo
  <2>2. Esta(execute, e) => EnExecute(e)
    BY DEF InvPuntual, ColasEnOrden, EjecutaEnOrden, Estado, EnExecute
  <2> QED
    BY <2>1, <2>2
<1>8. /\ EnExecute(e) => /\ srt'.pc = "actualiza" /\ srt'.cpu = c /\ srt'.exec = e
                         /\ srt'.pid = srt.pid /\ srt'.PC = srt.PC
      /\ ~EnExecute(e) => srt'.pc = "espera"
  <2>1. CASE EnExecute(e)
    BY <1>1, <1>2, <1>5, <2>1, EfectoSigueEn DEF SigueEn
  <2>2. CASE ~EnExecute(e)
    BY <1>5, <2>2, EsperandoForma
  <2> QED
    BY <2>1, <2>2
<1>9. /\ \A d : ~Vacante(d) /\ ~Vacante(d)' /\ (Quitada(d) => d = c)
      /\ Quitada(c) => Quitada(c)' \/ libre[c]
      /\ \A q : ~EnDesalojo(q) /\ ~EnDesalojo(q)'
      /\ ListaCPUs' = ListaCPUs
  BY <1>1, <1>2, <1>3, <1>5, <1>7, <1>8 DEF Vacante, Quitada, EnDesalojo, ListaCPUs
<1>10. ASSUME NEW d \in ListaCPUs PROVE CPUEnOrden(d)' /\ \A q : EnCPU(d, q)' <=> EnCPU(d, q)
  <2>1. CASE d = c
    BY <1>1, <1>5, <1>6, <1>9, <2>1, MismoLazoCPU
  <2>2. CASE d # c
    <3>1. MismaCPU(d)
      BY <1>1, <1>2, <1>5, <1>6, <1>9, <2>2 DEF MismaCPU, Atendida
    <3>2. Tiene(d) => Esta(execute', pidActual[d])
      BY <1>1, <1>5 DEF InvPuntual, CPUsEnOrden, CPUEnOrden, TieneEnOrden
    <3> QED
      BY <1>5, <3>1, <3>2, OtraCPU
  <2> QED
    BY <2>1, <2>2
<1>11. ColasEnOrden' /\ EnSuLugar'
  <2>1. ASSUME NEW q \in Pids PROVE ProcesoEnOrden(q)'
    BY <1>5, <1>9, <1>10, OtroProceso DEF MismoProceso
  <2> QED
    BY <1>5, <2>1, Formas, ProcesosLuego
<1>12. CPUsEnOrden' /\ UnoPorCPU'
  BY <1>9, <1>10 DEF InvPuntual, CPUsEnOrden, UnoPorCPU
<1>13. ManejadoresEnOrden'
  BY <1>5, EnLaRonda, MismosManejadores
<1>14. RespuestaEnOrden'
  BY <1>8 DEF RespuestaEnOrden
<1>15. RondaEnOrden'
  <2>1. CASE EnExecute(e)
    <3>1. Esta(ready, srt.pid) /\ srt.PC = hecho[srt.pid] /\ Estado(srt.pid, "READY")
      BY <1>1 DEF InvPuntual, RondaEnOrden, ConPid, ConCPU
    <3>2. Estado(srt.pid, "READY")' /\ ~Tiene(c)' /\ Resta(e)'
      BY <1>3, <1>4, <1>5, <1>6, <1>7, <2>1, <3>1 DEF Estado, Tiene, MismoLazo, Resta, Programa
    <3>3. \A d \in ListaCPUs' : ~Cediendo(d)'
      <4>1. ~Cediendo(c)'
        BY <1>4, <1>6 DEF Cediendo, MismoLazo
      <4>2. \A d \in ListaCPUs : d # c => ~Cediendo(d)'
        BY <1>6, EnLaRonda DEF Cediendo
      <4> QED
        BY <1>9, <4>1, <4>2
    <3>4. manejadores' = {} /\ ~libre'[c] /\ pidActual'[c] = e /\ Esta(execute', e) /\ cpu'[c].resp = hecho'[e]
      BY <1>3, <1>5, <1>6, <1>7, <2>1, EnLaRonda
    <3>5. Esta(ready', srt.pid) /\ srt.PC = hecho'[srt.pid]
      BY <1>5, <3>1
    <3> QED
      BY <1>8, <2>1, <3>2, <3>3, <3>4, <3>5 DEF RondaEnOrden, ConPid, ConCPU
  <2>2. CASE ~EnExecute(e)
    BY <1>8, <2>2, SinRonda
  <2> QED
    BY <2>1, <2>2
<1> QED
  BY <1>5, <1>11, <1>12, <1>13, <1>14, <1>15 DEF InvPuntual

LEMMA ActualizarPuntual ==
  ASSUME InvFormas, Puntual, InvPuntual, PasoSRT, Actualizar PROVE InvPuntual'
<1>1. srt.pc = "actualiza" /\ srt \in Rondas /\ srt.cpu \in ListaCPUs /\ srt.exec \in Pids /\ srt.pid \in Pids
  BY Formas DEF Actualizar, ConPid, ConExec, ConCPU
<1>2. PICK c \in ListaCPUs, e \in Pids, p \in Pids, n \in Nat :
        c = srt.cpu /\ e = srt.exec /\ p = srt.pid /\ n = hecho[e]
  BY <1>1, Formas
<1>3. /\ Esta(execute, e) /\ ~libre[c] /\ pidActual[c] = e /\ ~Tiene(c) /\ Resta(e) /\ cpu[c].resp = n
      /\ Esta(ready, p) /\ srt.PC = hecho[p] /\ Estado(p, "READY")
  BY <1>1, <1>2 DEF InvPuntual, RondaEnOrden, ConPid, ConCPU
<1>4. Estado(e, "EXECUTE") /\ mapa[e] # NADA /\ e \notin enIO /\ ~Esta(ready, e) /\ e # p
  BY <1>3 DEF InvPuntual, ColasEnOrden, EjecutaEnOrden, ListoEnOrden, Estado
<1>5. /\ mapa' = [mapa EXCEPT ![e].PC = n] /\ SigueEn("desaloja")
      /\ UNCHANGED <<regimen, ready, execute, libre, pidActual, manejadores, enIO, cpu, hecho, panico>>
  <2>1. n # NINGUNO
    BY DEF NINGUNO
  <2> QED
    BY <1>2, <1>3, <1>4, <2>1 DEF Actualizar, cpusVars
<1>6. srt'.pc = "desaloja" /\ srt'.cpu = c /\ srt'.exec = e /\ srt'.pid = p /\ srt'.PC = srt.PC
  BY <1>1, <1>2, <1>5, EfectoSigueEn
<1>7. /\ mapa'[e] = [estado |-> mapa[e].estado, PC |-> n, est |-> mapa[e].est]
      /\ mapa'[e] # NADA /\ \A q \in Pids : q # e => mapa'[q] = mapa[q]
  BY <1>4, <1>5, OtroPC
<1>8. mapa'[e].PC = n /\ \A s : Estado(e, s)' <=> s = "EXECUTE"
  BY <1>4, <1>7 DEF Estado
<1>9. /\ \A d : ~Vacante(d) /\ ~Vacante(d)' /\ (Quitada(d) <=> d = c) /\ (Quitada(d)' <=> d = c)
      /\ \A q : ~EnDesalojo(q) /\ ~EnDesalojo(q)'
      /\ ListaCPUs' = ListaCPUs
  BY <1>1, <1>2, <1>5, <1>6 DEF Vacante, Quitada, EnDesalojo, ListaCPUs
<1>10. ASSUME NEW d \in ListaCPUs PROVE CPUEnOrden(d)' /\ \A q : EnCPU(d, q)' <=> EnCPU(d, q)
  <2>1. MismaCPU(d)
    BY <1>1, <1>5, <1>9 DEF MismaCPU, Atendida
  <2>2. Tiene(d) => Esta(execute', pidActual[d])
    BY <1>1, <1>5 DEF InvPuntual, CPUsEnOrden, CPUEnOrden, TieneEnOrden
  <2> QED
    BY <1>5, <2>1, <2>2, OtraCPU
<1>11. ColasEnOrden' /\ EnSuLugar'
  <2>1. ASSUME NEW q \in Pids, q # e PROVE ProcesoEnOrden(q)'
    BY <1>5, <1>7, <1>9, <1>10, <2>1, OtroProceso DEF MismoProceso
  <2>2. ProcesoEnOrden(e)'
    <3>1. EjecutaEnOrden(e)'
      BY <1>3, <1>4, <1>5, <1>8, <1>9, <1>10 DEF InvPuntual, ColasEnOrden, EjecutaEnOrden
    <3> QED
      BY <1>3, <1>4, <1>5, <1>8, <3>1 DEF ProcesoEnOrden
  <2> QED
    BY <1>5, <2>1, <2>2, Formas, ProcesosLuego
<1>12. CPUsEnOrden' /\ UnoPorCPU'
  BY <1>9, <1>10 DEF InvPuntual, CPUsEnOrden, UnoPorCPU
<1>13. ManejadoresEnOrden'
  BY <1>5, EnLaRonda, MismosManejadores
<1>14. RespuestaEnOrden'
  BY <1>6 DEF RespuestaEnOrden
<1>15. RondaEnOrden'
  <2>1. Estado(p, "READY")' /\ ~Tiene(c)' /\ Resta(e)'
    BY <1>2, <1>3, <1>4, <1>5, <1>7 DEF Estado, Tiene, Resta, Programa
  <2>2. \A d \in ListaCPUs' : ~Cediendo(d)'
    BY <1>5, <1>9, EnLaRonda DEF Cediendo
  <2>3. manejadores' = {} /\ ~libre'[c] /\ pidActual'[c] = e /\ Esta(execute', e) /\ mapa'[e].PC = hecho'[e]
    BY <1>2, <1>3, <1>5, <1>8, EnLaRonda
  <2>4. Esta(ready', p) /\ srt.PC = hecho'[p]
    BY <1>3, <1>5
  <2> QED
    BY <1>6, <2>1, <2>2, <2>3, <2>4 DEF RondaEnOrden, ConPid, ConCPU
<1> QED
  BY <1>5, <1>11, <1>12, <1>13, <1>14, <1>15 DEF InvPuntual

LEMMA DesalojarPuntual ==
  ASSUME InvFormas, Puntual, InvPuntual, PasoSRT, Desalojar PROVE InvPuntual'
<1>1. srt.pc = "desaloja" /\ srt \in Rondas /\ srt.cpu \in ListaCPUs /\ srt.exec \in Pids /\ srt.pid \in Pids
  BY Formas DEF Desalojar, ConPid, ConExec, ConCPU
<1>2. PICK c \in ListaCPUs, e \in Pids, p \in Pids : c = srt.cpu /\ e = srt.exec /\ p = srt.pid
  BY <1>1
<1>3. /\ Esta(execute, e) /\ ~libre[c] /\ pidActual[c] = e /\ ~Tiene(c) /\ Resta(e) /\ mapa[e].PC = hecho[e]
      /\ Esta(ready, p) /\ srt.PC = hecho[p] /\ Estado(p, "READY")
  BY <1>1, <1>2 DEF InvPuntual, RondaEnOrden, ConPid, ConCPU
<1>4. Estado(e, "EXECUTE") /\ mapa[e] # NADA /\ e \notin enIO /\ e # p
  BY <1>3 DEF InvPuntual, ColasEnOrden, EjecutaEnOrden, ListoEnOrden, Estado
<1>5. /\ SalirDeExecute(e) /\ ready' = Agregar(ready, e) /\ SigueEn("desaloja_estado")
      /\ UNCHANGED <<regimen, mapa, libre, pidActual, manejadores, enIO, cpu, hecho, panico>>
  BY <1>2, <1>3 DEF Desalojar, cpusVars
<1>6. srt'.pc = "desaloja_estado" /\ srt'.cpu = c /\ srt'.exec = e /\ srt'.pid = p /\ srt'.PC = srt.PC
  BY <1>1, <1>2, <1>5, EfectoSigueEn
<1>7. /\ \A q : Esta(ready', q) <=> Esta(ready, q) \/ q = e
      /\ \A q : Esta(execute', q) <=> Esta(execute, q) /\ q # e
  BY <1>5, ReadyCrece, EfectoSalir
<1>8. /\ \A d : ~Vacante(d) /\ (Vacante(d)' <=> d = c) /\ (Quitada(d) <=> d = c)
      /\ \A q : ~EnDesalojo(q) /\ (EnDesalojo(q)' <=> q = e)
      /\ ListaCPUs' = ListaCPUs
  BY <1>1, <1>2, <1>5, <1>6 DEF Vacante, Quitada, EnDesalojo, ListaCPUs
<1>9. EnCPU(c, e) /\ \A q : ~EnCPU(c, q)'
  BY <1>3, <1>8 DEF EnCPU
<1>10. ASSUME NEW d \in ListaCPUs, d # c
       PROVE  CPUEnOrden(d)' /\ \A q : EnCPU(d, q)' <=> EnCPU(d, q)
  <2>1. MismaCPU(d)
    BY <1>1, <1>5, <1>8, <1>10 DEF MismaCPU, Atendida
  <2>2. Tiene(d) => Esta(execute, pidActual[d]) /\ EnCPU(d, pidActual[d])
    BY <1>1 DEF InvPuntual, CPUsEnOrden, CPUEnOrden, TieneEnOrden, EnCPU
  <2>3. Tiene(d) => pidActual[d] # e
    BY <1>9, <1>10, <2>2 DEF InvPuntual, UnoPorCPU
  <2> QED
    BY <1>5, <1>7, <2>1, <2>2, <2>3, OtraCPU
<1>11. CPUEnOrden(c)'
  <2>1. LazoEnOrden(c)
    BY DEF InvPuntual, CPUsEnOrden, CPUEnOrden
  <2>2. LazoEnOrden(c)'
    BY <1>1, <1>5, <2>1 DEF LazoEnOrden, Cediendo
  <2>3. ~Tiene(c)' /\ Vacante(c)'
    BY <1>3, <1>5, <1>8 DEF Tiene
  <2> QED
    BY <2>2, <2>3 DEF CPUEnOrden
<1>12. ColasEnOrden' /\ EnSuLugar'
  <2>1. ASSUME NEW q \in Pids, q # e PROVE ProcesoEnOrden(q)'
    <3>1. MismoProceso(q) /\ (EnDesalojo(q)' <=> EnDesalojo(q))
      BY <1>5, <1>7, <1>8, <2>1 DEF MismoProceso
    <3>2. \A d \in ListaCPUs : EnCPU(d, q) => EnCPU(d, q)'
      BY <1>3, <1>10, <2>1 DEF EnCPU
    <3> QED
      BY <1>5, <3>1, <3>2, OtroProceso
  <2>2. ProcesoEnOrden(e)'
    <3>1. /\ ListoEnOrden(e)' /\ Esta(ready', e) /\ ~Esta(execute', e) /\ e \notin enIO'
          /\ EnDesalojo(e)'
      BY <1>3, <1>4, <1>5, <1>7, <1>8 DEF ListoEnOrden, Resta, Programa, Estado
    <3>2. \A s : Estado(e, s)' <=> s = "EXECUTE"
      BY <1>4, <1>5 DEF Estado
    <3> QED
      BY <3>1, <3>2 DEF ProcesoEnOrden
  <2> QED
    BY <1>5, <2>1, <2>2, Formas, ProcesosLuego
<1>13. CPUsEnOrden' /\ UnoPorCPU'
  BY <1>8, <1>9, <1>10, <1>11 DEF InvPuntual, CPUsEnOrden, UnoPorCPU
<1>14. ManejadoresEnOrden'
  BY <1>5, EnLaRonda, MismosManejadores
<1>15. RespuestaEnOrden'
  BY <1>6 DEF RespuestaEnOrden
<1>16. RondaEnOrden'
  <2>1. Estado(p, "READY")' /\ ~Tiene(c)' /\ EnExecute(e)'
    BY <1>3, <1>4, <1>5 DEF Estado, Tiene, EnExecute
  <2>2. \A d \in ListaCPUs' : ~Cediendo(d)'
    BY <1>5, <1>8, EnLaRonda DEF Cediendo
  <2>3. manejadores' = {} /\ ~libre'[c] /\ Esta(ready', e)
    BY <1>3, <1>5, <1>7, EnLaRonda
  <2>4. Esta(ready', p) /\ srt.PC = hecho'[p]
    BY <1>3, <1>5, <1>7
  <2> QED
    BY <1>6, <2>1, <2>2, <2>3, <2>4 DEF RondaEnOrden, ConPid, ConCPU
<1> QED
  BY <1>5, <1>12, <1>13, <1>14, <1>15, <1>16 DEF InvPuntual

LEMMA DesalojarEstadoPuntual ==
  ASSUME InvFormas, Puntual, InvPuntual, PasoSRT, DesalojarEstado PROVE InvPuntual'
<1>1. /\ srt.pc = "desaloja_estado" /\ srt \in Rondas /\ srt.cpu \in ListaCPUs
      /\ srt.exec \in Pids /\ srt.pid \in Pids
  BY Formas DEF DesalojarEstado, ConPid, ConExec, ConCPU
<1>2. PICK c \in ListaCPUs, e \in Pids, p \in Pids : c = srt.cpu /\ e = srt.exec /\ p = srt.pid
  BY <1>1
<1>3. /\ Esta(ready, e) /\ EnExecute(e) /\ ~libre[c] /\ ~Tiene(c)
      /\ Esta(ready, p) /\ srt.PC = hecho[p] /\ Estado(p, "READY")
  BY <1>1, <1>2 DEF InvPuntual, RondaEnOrden, ConPid, ConCPU
<1>4. mapa[e] # NADA /\ ListoEnOrden(e) /\ e # p
  BY <1>3 DEF InvPuntual, ColasEnOrden, Estado, EnExecute
<1>5. /\ mapa' = [mapa EXCEPT ![e].estado = "READY"] /\ SigueEn("envia")
      /\ UNCHANGED <<regimen, ready, execute, libre, pidActual, manejadores, enIO, cpu, hecho, panico>>
  BY <1>2, <1>4 DEF DesalojarEstado, cpusVars
<1>6. srt'.pc = "envia" /\ srt'.cpu = c /\ srt'.exec = e /\ srt'.pid = p /\ srt'.PC = srt.PC
  BY <1>1, <1>2, <1>5, EfectoSigueEn
<1>7. /\ mapa'[e] = [estado |-> "READY", PC |-> mapa[e].PC, est |-> mapa[e].est]
      /\ mapa'[e] # NADA /\ \A q \in Pids : q # e => mapa'[q] = mapa[q]
  BY <1>4, <1>5, OtroEstado DEF Estados
<1>8. mapa'[e].PC = mapa[e].PC /\ \A s : Estado(e, s)' <=> s = "READY"
  BY <1>7 DEF Estado
<1>9. /\ \A d : (Vacante(d)' <=> Vacante(d)) /\ ~Quitada(d)
      /\ \A q : (EnDesalojo(q) <=> q = e) /\ ~EnDesalojo(q)'
      /\ ListaCPUs' = ListaCPUs
  BY <1>1, <1>2, <1>5, <1>6 DEF Vacante, Quitada, EnDesalojo, ListaCPUs
<1>10. ASSUME NEW d \in ListaCPUs PROVE CPUEnOrden(d)' /\ \A q : EnCPU(d, q)' <=> EnCPU(d, q)
  <2>1. MismaCPU(d)
    BY <1>1, <1>5, <1>9 DEF MismaCPU, Atendida
  <2>2. Tiene(d) => Esta(execute', pidActual[d])
    BY <1>1, <1>5 DEF InvPuntual, CPUsEnOrden, CPUEnOrden, TieneEnOrden
  <2> QED
    BY <1>5, <2>1, <2>2, OtraCPU
<1>11. ColasEnOrden' /\ EnSuLugar'
  <2>1. ASSUME NEW q \in Pids, q # e PROVE ProcesoEnOrden(q)'
    BY <1>5, <1>7, <1>9, <1>10, <2>1, OtroProceso DEF MismoProceso
  <2>2. ProcesoEnOrden(e)'
    <3>1. /\ ListoEnOrden(e)' /\ Esta(ready', e) /\ ~Esta(execute', e) /\ e \notin enIO'
      BY <1>3, <1>4, <1>5, <1>7, <1>8 DEF ListoEnOrden, Resta, Programa, Estado
    <3> QED
      BY <1>8, <3>1 DEF ProcesoEnOrden
  <2> QED
    BY <1>5, <2>1, <2>2, Formas, ProcesosLuego
<1>12. CPUsEnOrden' /\ UnoPorCPU'
  BY <1>9, <1>10 DEF InvPuntual, CPUsEnOrden, UnoPorCPU
<1>13. ManejadoresEnOrden'
  BY <1>5, EnLaRonda, MismosManejadores
<1>14. RespuestaEnOrden'
  BY <1>6 DEF RespuestaEnOrden
<1>15. RondaEnOrden'
  <2>1. Estado(p, "READY")' /\ ~Tiene(c)'
    BY <1>2, <1>3, <1>4, <1>5, <1>7 DEF Estado, Tiene
  <2>2. \A d \in ListaCPUs' : ~Cediendo(d)'
    BY <1>5, <1>9, EnLaRonda DEF Cediendo
  <2>3. manejadores' = {} /\ ~libre'[c]
    BY <1>3, <1>5, EnLaRonda
  <2>4. Esta(ready', p) /\ srt.PC = hecho'[p]
    BY <1>3, <1>5
  <2> QED
    BY <1>6, <2>1, <2>2, <2>3, <2>4 DEF RondaEnOrden, ConPid, ConCPU
<1> QED
  BY <1>5, <1>11, <1>12, <1>13, <1>14, <1>15 DEF InvPuntual

LEMMA PasoSRTPuntual ==
  ASSUME InvFormas, Puntual, InvPuntual, PasoSRT PROVE InvPuntual'
BY DespertarPuntual, CompararPuntual, BuscarPuntual, ElegirPuntual, EnviarPuntual,
   ReadyAExecutePuntual, InterrumpirPuntual, RecibirPuntual, ActualizarPuntual, DesalojarPuntual,
   DesalojarEstadoPuntual DEF PasoSRT

---------------------------------------------------------------------------
(* The CPUs, between rounds of the planner. *)

LEMMA EntreRondas ==
  ASSUME InvPuntual, srt.pc \in {"espera", "respuesta"}
  PROVE  /\ \A d : ~Vacante(d) /\ \A q : ~EnDesalojo(q)
         /\ \A d : Quitada(d) <=> srt.pc = "respuesta" /\ srt.cpu = d /\ cpu[d].int \in {"sigue", "hecho"}
         /\ srt.pc # "a_execute"
         /\ \A d \in ListaCPUs : Tiene(d) => Esta(execute, pidActual[d]) /\ EnCPU(d, pidActual[d])
         /\ \A d \in ListaCPUs : CPUEnOrden(d)
         /\ \A h \in manejadores : EnCPU(h.cpu, h.pid)
<1>1. \A d : ~Vacante(d) /\ \A q : ~EnDesalojo(q)
  BY DEF Vacante, EnDesalojo
<1>2. \A d : Quitada(d) <=> srt.pc = "respuesta" /\ srt.cpu = d /\ cpu[d].int \in {"sigue", "hecho"}
  BY DEF Quitada
<1>3. \A d \in ListaCPUs : Tiene(d) => Esta(execute, pidActual[d]) /\ EnCPU(d, pidActual[d])
  BY DEF InvPuntual, CPUsEnOrden, CPUEnOrden, TieneEnOrden, EnCPU
<1>4. \A d \in ListaCPUs : CPUEnOrden(d)
  BY DEF InvPuntual, CPUsEnOrden
<1>5. \A h \in manejadores : EnCPU(h.cpu, h.pid)
  BY <1>1 DEF InvPuntual, ManejadoresEnOrden, ManejadorEnOrden, EnCPU
<1> QED
  BY <1>1, <1>2, <1>3, <1>4, <1>5

\* A step of c that is not the execution of an instruction.
LEMMA PasoDeCPU ==
  ASSUME InvFormas, InvPuntual, srt.pc \in {"espera", "respuesta"}, NEW c \in ListaCPUs,
         UNCHANGED <<regimen, mapa, ready, execute, libre, pidActual, srt, manejadores, enIO,
                     hecho, panico>>,
         \A d \in ListaCPUs : d # c => cpu'[d] = cpu[d],
         CPUEnOrden(c)', srt.pc = "respuesta" /\ srt.cpu = c => RespuestaEnOrden'
  PROVE  InvPuntual'
<1>1. /\ ListaCPUs' = ListaCPUs /\ \A q : ~EnDesalojo(q) /\ ~EnDesalojo(q)'
      /\ \A d : ~Vacante(d) /\ ~Vacante(d)'
  BY DEF ListaCPUs, EnDesalojo, Vacante
<1>2. \A d \in ListaCPUs : \A q : EnCPU(d, q)' <=> EnCPU(d, q)
  BY <1>1 DEF EnCPU
<1>3. ASSUME NEW d \in ListaCPUs, d # c PROVE CPUEnOrden(d)'
  <2>1. MismaCPU(d)
    BY <1>1, <1>3 DEF MismaCPU, Atendida, Quitada
  <2> QED
    BY <2>1, OtraCPU, EntreRondas
<1>4. CPUsEnOrden' /\ UnoPorCPU'
  BY <1>1, <1>2, <1>3 DEF InvPuntual, CPUsEnOrden, UnoPorCPU
<1>5. ColasEnOrden' /\ EnSuLugar'
  <2>1. ASSUME NEW q \in Pids PROVE ProcesoEnOrden(q)'
    BY <1>1, <1>2, OtroProceso DEF MismoProceso
  <2> QED
    BY <2>1, Formas, ProcesosLuego
<1>6. ManejadoresEnOrden'
  BY OtroManejador DEF MismoProceso, InvPuntual, ManejadoresEnOrden
<1>7. RespuestaEnOrden'
  <2>1. CASE srt.pc = "respuesta" /\ srt.cpu # c
    <3>1. PICK d \in ListaCPUs : d = srt.cpu /\ d # c
      BY <2>1, Formas DEF ConPid, ConCPU
    <3>2. cpu'[d] = cpu[d] /\ (Tiene(d)' <=> Tiene(d)) /\ (Atendida(d)' <=> Atendida(d))
      BY <3>1 DEF Tiene, Atendida
    <3>3. \A q : Resta(q)' <=> Resta(q)
      BY DEF Resta, Programa
    <3> QED
      BY <2>1, <3>1, <3>2, <3>3 DEF InvPuntual, RespuestaEnOrden
  <2>2. CASE srt.pc # "respuesta"
    BY <2>2 DEF RespuestaEnOrden
  <2> QED
    BY <2>1, <2>2
<1>8. RondaEnOrden'
  <2>1. srt.pc = "respuesta" => /\ Esta(ready, srt.pid) /\ srt.PC = hecho[srt.pid]
                                /\ Estado(srt.pid, "READY")
    BY DEF InvPuntual, RondaEnOrden, ConPid, ConCPU
  <2>2. Estado(srt.pid, "READY") => Estado(srt.pid, "READY")'
    BY DEF Estado
  <2> QED
    BY <2>1, <2>2, SinRonda
<1> QED
  BY <1>4, <1>5, <1>6, <1>7, <1>8 DEF InvPuntual

LEMMA TomarPuntual ==
  ASSUME InvFormas, InvPuntual, srt.pc \in {"espera", "respuesta"}, NEW c \in ListaCPUs, Tomar(c)
  PROVE  InvPuntual'
<1>1. /\ c \in CPUs /\ cpu[c].pc = "libre" /\ cpu[c].cola # <<>>
      /\ UNCHANGED <<regimen, mapa, ready, execute, libre, pidActual, srt, manejadores, enIO, hecho, panico>>
  BY Formas DEF Tomar, kernelVars, cpusVars
<1>2. Tiene(c) /\ LazoEnOrden(c) /\ TieneEnOrden(c)
  BY <1>1, EntreRondas DEF Tiene, CPUEnOrden
<1>3. PICK k : k = Head(cpu[c].cola)
  OBVIOUS
<1>4. k.pid = pidActual[c] /\ k.PC = hecho[pidActual[c]] /\ Resta(pidActual[c])
  BY <1>1, <1>2, <1>3 DEF TieneEnOrden, Tramo
<1>5. k.PC < Len(Programa(k.pid))
  BY <1>4 DEF Resta
<1>6. Tail(cpu[c].cola) = <<>>
  <2>1. cpu[c].cola \in Seq(PcbNat) /\ Len(cpu[c].cola) <= 1
    BY <1>1, <1>2, Formas DEF Maquinas, LazoEnOrden
  <2> QED
    BY <1>1, <2>1
<1>7. PICK m \in Maquinas :
        /\ Otra(c, m) /\ MismaInt(m, cpu[c]) /\ m.envie = cpu[c].envie /\ m.cola = <<>>
        /\ m.pc = "ejecuta" /\ m.pid = k.pid /\ m.PC = k.PC
  BY <1>1, <1>3, <1>5, <1>6, EfectoTomar DEF InvFormas
<1>8. cpu'[c] = m /\ \A d \in ListaCPUs : d # c => cpu'[d] = cpu[d]
  BY <1>7, Formas DEF Otra
<1>9. Tiene(c)' /\ Tramo(c)'.pid = k.pid /\ Tramo(c)'.PC = k.PC
  BY <1>7, <1>8 DEF Tiene, Tramo, Fuera
<1>10. CPUEnOrden(c)'
  <2>1. LazoEnOrden(c)'
    BY <1>1, <1>2, <1>7, <1>8 DEF LazoEnOrden, Cediendo, MismaInt
  <2>2. TieneEnOrden(c)'
    BY <1>1, <1>2, <1>4, <1>9 DEF TieneEnOrden, Vacante, Atendida, Resta, Programa
  <2> QED
    BY <1>9, <2>1, <2>2 DEF CPUEnOrden
<1>11. ASSUME srt.pc = "respuesta", srt.cpu = c PROVE RespuestaEnOrden'
  <2>1. cpu[c].int = "espera" /\ cpu[c].hay
    BY <1>1, <1>11 DEF InvPuntual, RespuestaEnOrden
  <2>2. cpu'[c].int = "espera" /\ cpu'[c].hay
    BY <1>7, <1>8, <2>1 DEF MismaInt
  <2> QED
    BY <1>1, <1>9, <1>11, <2>2 DEF InvPuntual, RespuestaEnOrden, Atendida
<1> QED
  BY <1>1, <1>8, <1>10, <1>11, PasoDeCPU

LEMMA ControlarPuntual ==
  ASSUME InvFormas, InvPuntual, srt.pc \in {"espera", "respuesta"}, NEW c \in ListaCPUs, Controlar(c)
  PROVE  InvPuntual'
<1>1. /\ c \in CPUs /\ cpu[c].pc = "control"
      /\ UNCHANGED <<regimen, mapa, ready, execute, libre, pidActual, srt, manejadores, enIO, hecho, panico>>
  BY Formas DEF Controlar, kernelVars, cpusVars
<1>2. CPUEnOrden(c) /\ LazoEnOrden(c) /\ cpu[c].cola = <<>>
  BY <1>1, EntreRondas DEF CPUEnOrden, LazoEnOrden
<1>3. PICK m \in Maquinas :
        LET n == cpu[c] IN
        /\ Otra(c, m) /\ m.hay = n.hay /\ m.resp = n.resp /\ m.envie = n.envie
        /\ \/ /\ n.hay /\ n.int = "espera" /\ m.pcInt = n.PC /\ m.int = "sigue"
              /\ m.pc = "cede" /\ m.cola = n.cola /\ m.pid = n.pid /\ m.PC = n.PC
           \/ /\ ~n.hay /\ n.res = "sigue" /\ MismaInt(m, n) /\ m.pc = "libre"
              /\ m.cola = Append(n.cola, Fuera(n))
           \/ /\ ~n.hay /\ n.res = "cede" /\ MismaInt(m, n)
              /\ m.pc = "cede" /\ m.cola = n.cola /\ m.pid = n.pid /\ m.PC = n.PC
  <2>1. FormaCPUs /\ TiposCPUs
    BY DEF InvFormas, InvAviso, TiposAviso
  <2> QED
    BY <1>1, <2>1, EfectoControlar
<1>4. cpu'[c] = m /\ \A d \in ListaCPUs : d # c => cpu'[d] = cpu[d]
  BY <1>3, Formas DEF Otra
<1>5. \A q : Resta(q)' <=> Resta(q)
  BY <1>1 DEF Resta, Programa
<1>6. Atendida(c)' <=> Atendida(c)
  BY <1>1 DEF Atendida
<1>7. CASE cpu[c].hay
  <2>1. /\ cpu[c].int = "espera" /\ m.pcInt = cpu[c].PC /\ m.int = "sigue" /\ m.hay
        /\ m.pc = "cede" /\ m.cola = <<>> /\ m.envie = cpu[c].envie
    BY <1>2, <1>3, <1>7
  <2>2. srt.pc = "respuesta" /\ srt.cpu = c
    BY <1>2, <1>7 DEF LazoEnOrden
  <2>3. ~Tiene(c)' /\ Quitada(c)'
    BY <1>1, <1>4, <2>1, <2>2 DEF Tiene, Quitada
  <2>4. CPUEnOrden(c)'
    <3>1. LazoEnOrden(c)'
      BY <1>1, <1>4, <2>1, <2>2 DEF LazoEnOrden, Cediendo
    <3> QED
      BY <2>3, <3>1 DEF CPUEnOrden
  <2>5. PICK e : e = srt.exec /\ pidActual[c] = e
    BY <2>2 DEF InvPuntual, RespuestaEnOrden
  <2>6. (Esta(execute, e) => ~libre[c]) /\ (~libre[c] => Esta(execute, e) \/ Atendida(c))
    BY <2>2, <2>5 DEF InvPuntual, RespuestaEnOrden
  <2>7. ASSUME Esta(execute, e), ~Atendida(c)
        PROVE  ~m.envie /\ Resta(e) /\ m.pcInt = hecho[e]
    <3>1. Tiene(c)
      <4>1. ~Quitada(c) /\ ~Vacante(c)
        BY <2>1, EntreRondas
      <4> QED
        BY <1>2, <2>6, <2>7, <4>1 DEF CPUEnOrden
    <3>2. TieneEnOrden(c) /\ cpu[c].res = "sigue"
      BY <1>1, <1>2, <3>1 DEF CPUEnOrden, Tiene
    <3>3. ~cpu[c].envie
      BY <1>1, <1>2, <3>2 DEF LazoEnOrden, Cediendo
    <3>4. cpu[c].PC = hecho[e] /\ Resta(e)
      BY <1>2, <2>5, <3>2 DEF TieneEnOrden, Tramo, Fuera
    <3> QED
      BY <2>1, <3>3, <3>4
  <2>8. RespuestaEnOrden'
    BY <1>1, <1>4, <1>5, <1>6, <2>1, <2>2, <2>5, <2>6, <2>7 DEF RespuestaEnOrden
  <2> QED
    BY <1>1, <1>4, <2>4, <2>8, PasoDeCPU
<1>8. CASE ~cpu[c].hay
  <2>1. ~(srt.pc = "respuesta" /\ srt.cpu = c)
    BY <1>1, <1>8 DEF InvPuntual, RespuestaEnOrden
  <2>2. CASE cpu[c].res = "sigue"
    <3>1. m.pc = "libre" /\ MismaInt(m, cpu[c]) /\ m.cola = <<Fuera(cpu[c])>> /\ m.envie = cpu[c].envie
      <4>1. MismaInt(m, cpu[c]) /\ m.pc = "libre" /\ m.cola = Append(<<>>, Fuera(cpu[c]))
        BY <1>2, <1>3, <1>8, <2>2
      <4>2. PICK k : k = Fuera(cpu[c])
        OBVIOUS
      <4> QED
        BY <1>3, <4>1, <4>2
    <3>2. PICK k : k = Fuera(cpu[c]) /\ m.cola = <<k>>
      BY <3>1
    <3>3. m.cola # <<>> /\ Len(m.cola) = 1 /\ Head(m.cola) = k
      BY <3>2
    <3>4. TieneEnOrden(c) /\ Tramo(c) = k
      BY <1>1, <1>2, <2>2, <3>2 DEF CPUEnOrden, Tiene, Tramo
    <3>5. Tiene(c)' /\ Tramo(c)' = k
      BY <1>4, <3>3 DEF Tiene, Tramo
    <3>6. TieneEnOrden(c)'
      BY <1>1, <1>5, <1>6, <3>4, <3>5 DEF TieneEnOrden, Vacante
    <3>7. LazoEnOrden(c)'
      BY <1>1, <1>2, <1>4, <2>2, <3>1, <3>3 DEF LazoEnOrden, Cediendo, MismaInt
    <3> QED
      BY <1>1, <1>4, <2>1, <3>5, <3>6, <3>7, PasoDeCPU DEF CPUEnOrden
  <2>3. CASE cpu[c].res = "cede"
    <3>1. m.pc = "cede" /\ MismaInt(m, cpu[c]) /\ m.cola = <<>> /\ m.envie = cpu[c].envie
      BY <1>2, <1>3, <1>8, <2>3
    <3>2. ~Tiene(c) /\ ~Tiene(c)' /\ (Quitada(c)' <=> Quitada(c)) /\ (Vacante(c)' <=> Vacante(c))
      BY <1>1, <1>2, <1>4, <2>3, <3>1 DEF Tiene, Quitada, Vacante, MismaInt
    <3>3. LazoEnOrden(c)'
      BY <1>1, <1>2, <1>4, <3>1 DEF LazoEnOrden, Cediendo, MismaInt
    <3>4. CPUEnOrden(c)'
      BY <1>1, <1>2, <1>6, <3>2, <3>3 DEF CPUEnOrden
    <3> QED
      BY <1>1, <1>4, <2>1, <3>4, PasoDeCPU
  <2>4. cpu[c].res \in {"sigue", "cede"}
    BY <1>1, Formas DEF Maquinas
  <2> QED
    BY <2>2, <2>3, <2>4
<1> QED
  BY <1>7, <1>8

LEMMA CederPuntual ==
  ASSUME InvFormas, InvPuntual, srt.pc \in {"espera", "respuesta"}, NEW c \in ListaCPUs, Ceder(c)
  PROVE  InvPuntual'
<1>1. /\ c \in CPUs /\ cpu[c].pc = "cede"
      /\ UNCHANGED <<regimen, mapa, ready, execute, libre, pidActual, srt, manejadores, enIO, hecho, panico>>
  BY Formas DEF Ceder, kernelVars, cpusVars
<1>2. CPUEnOrden(c) /\ LazoEnOrden(c) /\ cpu[c].cola = <<>>
  BY <1>1, EntreRondas DEF CPUEnOrden, LazoEnOrden
<1>3. PICK m \in Maquinas :
        /\ Otra(c, m) /\ m.pc = "libre" /\ ~m.hay /\ ~m.envie /\ m.cola = <<>>
        /\ m.int = cpu[c].int /\ m.pcInt = cpu[c].pcInt /\ m.resp = cpu[c].resp
  BY <1>1, <1>2, EfectoCeder DEF InvFormas
<1>4. cpu'[c] = m /\ \A d \in ListaCPUs : d # c => cpu'[d] = cpu[d]
  BY <1>3, Formas DEF Otra
<1>5. /\ ~Tiene(c) /\ ~Tiene(c)' /\ (Quitada(c)' <=> Quitada(c)) /\ (Vacante(c)' <=> Vacante(c))
      /\ (Atendida(c)' <=> Atendida(c)) /\ \A q : Resta(q)' <=> Resta(q)
  BY <1>1, <1>2, <1>3, <1>4 DEF Tiene, Quitada, Vacante, Atendida, Resta, Programa
<1>6. LazoEnOrden(c)'
  <2>1. Len(m.cola) = 0
    BY <1>3
  <2> QED
    BY <1>1, <1>2, <1>3, <1>4, <2>1 DEF LazoEnOrden
<1>7. CPUEnOrden(c)'
  BY <1>1, <1>2, <1>5, <1>6 DEF CPUEnOrden
<1>8. ASSUME srt.pc = "respuesta", srt.cpu = c PROVE RespuestaEnOrden'
  <2>1. cpu[c].int # "espera"
    BY <1>1, <1>5, <1>8 DEF InvPuntual, RespuestaEnOrden
  <2> QED
    BY <1>1, <1>3, <1>4, <1>5, <1>8, <2>1 DEF InvPuntual, RespuestaEnOrden
<1> QED
  BY <1>1, <1>4, <1>7, <1>8, PasoDeCPU

LEMMA ResponderPuntual ==
  ASSUME InvFormas, InvPuntual, srt.pc \in {"espera", "respuesta"}, NEW c \in ListaCPUs, Responder(c)
  PROVE  InvPuntual'
<1>1. /\ c \in CPUs /\ cpu[c].int = "sigue"
      /\ UNCHANGED <<regimen, mapa, ready, execute, libre, pidActual, srt, manejadores, enIO, hecho, panico>>
  BY Formas DEF Responder, kernelVars, cpusVars
<1>2. srt.pc = "respuesta" /\ srt.cpu = c
  BY <1>1, EntreRondas DEF CPUEnOrden, LazoEnOrden
<1>3. PICK m \in Maquinas :
        /\ Otra(c, m) /\ m.int = "hecho" /\ m.hay = cpu[c].hay /\ MismoLazo(m, cpu[c])
        /\ m.resp = (IF cpu[c].envie THEN NINGUNO ELSE cpu[c].pcInt)
  BY <1>1, EfectoResponder DEF InvFormas
<1>4. cpu'[c] = m /\ \A d \in ListaCPUs : d # c => cpu'[d] = cpu[d]
  BY <1>3, Formas DEF Otra
<1>5. Quitada(c)' /\ ~Vacante(c) /\ ~Vacante(c)'
  BY <1>1, <1>2, <1>3, <1>4 DEF Quitada, Vacante
<1>6. CPUEnOrden(c)'
  BY <1>1, <1>2, <1>3, <1>4, <1>5, MismoLazoCPU
<1>7. (Atendida(c)' <=> Atendida(c)) /\ \A q : Resta(q)' <=> Resta(q)
  BY <1>1 DEF Atendida, Resta, Programa
<1>8. RespuestaEnOrden'
  BY <1>1, <1>2, <1>3, <1>4, <1>7 DEF InvPuntual, RespuestaEnOrden, MismoLazo
<1> QED
  BY <1>1, <1>4, <1>6, <1>8, PasoDeCPU

LEMMA EjecutarPuntual ==
  ASSUME InvFormas, Puntual, InvPuntual, srt.pc \in {"espera", "respuesta"}, NEW c \in ListaCPUs,
         Ejecutar(c)
  PROVE  InvPuntual'
<1>1. /\ c \in CPUs /\ cpu[c].pc = "ejecuta"
      /\ UNCHANGED <<regimen, mapa, ready, execute, libre, pidActual, srt, enIO, panico>>
  BY Formas DEF Ejecutar, kernelVars, cpusVars
<1>2. LazoEnOrden(c) /\ cpu[c].cola = <<>> /\ Tiene(c) /\ TieneEnOrden(c)
  BY <1>1, EntreRondas DEF CPUEnOrden, LazoEnOrden, Tiene
<1>3. PICK p \in Pids, n \in Nat : p = pidActual[c] /\ n = hecho[p]
  <2>1. Esta(execute, pidActual[c]) /\ execute \in Seq(Pids)
    BY <1>2, EntreRondas, Formas
  <2>2. pidActual[c] \in Pids
    BY <2>1 DEF Esta
  <2> QED
    BY <2>2, Formas
<1>4. /\ cpu[c].pid = p /\ cpu[c].PC = n /\ Resta(p) /\ ~Atendida(c) /\ Esta(execute, p) /\ EnCPU(c, p)
      /\ ~libre[c] /\ ~Vacante(c)
  BY <1>2, <1>3, EntreRondas DEF TieneEnOrden, Tramo, Fuera
<1>5. PICK op : op = Programa(p)[n + 1]
  OBVIOUS
<1>6. op \in {"CPU", "IO", "DUMP", "EXIT"} /\ (op # "EXIT" => n + 1 < Len(Programa(p)))
  BY <1>3, <1>4, <1>5, Instruccion
<1>7. PICK m \in Maquinas :
        /\ Otra(c, m) /\ MismaInt(m, cpu[c]) /\ m.pid = p /\ m.cola = <<>>
        /\ m.pc = "control" /\ m.PC = n + 1
        /\ m.res = (IF op = "CPU" THEN "sigue" ELSE "cede")
        /\ m.envie = (cpu[c].envie \/ op \in {"IO", "DUMP", "EXIT"})
        /\ hecho' = [hecho EXCEPT ![p] = @ + 1]
        /\ manejadores' = IF op = "CPU" THEN manejadores ELSE manejadores \cup {Nuevo(cpu[c], c, op)}
  BY <1>1, <1>2, <1>4, <1>5, EfectoEjecutar DEF InvFormas
<1>8. cpu'[c] = m /\ \A d \in ListaCPUs : d # c => cpu'[d] = cpu[d]
  BY <1>7, Formas DEF Otra
<1>9. hecho'[p] = n + 1 /\ \A q \in Pids : q # p => hecho'[q] = hecho[q]
  BY <1>3, <1>7, Formas
<1>10. PICK k : /\ k = Nuevo(cpu[c], c, op)
                /\ k.op = op /\ k.pc = "entra" /\ k.pid = p /\ k.cpu = c /\ k.PC = n + 1
  <2>1. /\ Nuevo(cpu[c], c, op).op = op /\ Nuevo(cpu[c], c, op).pc = "entra"
        /\ Nuevo(cpu[c], c, op).pid = p /\ Nuevo(cpu[c], c, op).cpu = c
        /\ Nuevo(cpu[c], c, op).PC = n + 1
    BY <1>4 DEF Nuevo
  <2> QED
    BY <2>1
<1>11. /\ op = "CPU" => manejadores' = manejadores
       /\ op # "CPU" => manejadores' = manejadores \cup {k}
  BY <1>7, <1>10
<1>12. /\ ListaCPUs' = ListaCPUs /\ \A q : ~EnDesalojo(q) /\ ~EnDesalojo(q)'
       /\ \A d : ~Vacante(d) /\ ~Vacante(d)'
       /\ \A d \in ListaCPUs : \A q : EnCPU(d, q)' <=> EnCPU(d, q)
  BY <1>1 DEF ListaCPUs, EnDesalojo, Vacante, EnCPU
<1>13. \A q \in Pids : q # p => (Resta(q)' <=> Resta(q))
  BY <1>1, <1>9 DEF Resta, Programa
<1>14. op # "EXIT" => Resta(p)'
  BY <1>1, <1>4, <1>6, <1>9 DEF Resta, Programa
<1>15. ~cpu[c].envie
  BY <1>1, <1>2 DEF LazoEnOrden, Cediendo
<1>16. /\ Atendida(c)' <=> op # "CPU"
       /\ \A d : d # c => (Atendida(d)' <=> Atendida(d))
  BY <1>4, <1>10, <1>11 DEF Atendida
<1>17. CPUEnOrden(c)'
  <2>1. LazoEnOrden(c)'
    <3>1. CASE op = "CPU"
      BY <1>1, <1>2, <1>7, <1>8, <1>15, <3>1 DEF LazoEnOrden, Cediendo, MismaInt
    <3>2. CASE op # "CPU"
      BY <1>1, <1>2, <1>6, <1>7, <1>8, <3>2 DEF LazoEnOrden, Cediendo, MismaInt
    <3> QED
      BY <3>1, <3>2
  <2>2. CASE op = "CPU"
    <3>1. Tiene(c)' /\ Tramo(c)'.pid = p /\ Tramo(c)'.PC = n + 1
      BY <1>7, <1>8, <2>2 DEF Tiene, Tramo, Fuera
    <3>2. TieneEnOrden(c)'
      BY <1>1, <1>3, <1>4, <1>9, <1>12, <1>14, <1>16, <2>2, <3>1 DEF TieneEnOrden
    <3> QED
      BY <2>1, <3>1, <3>2 DEF CPUEnOrden
  <2>3. CASE op # "CPU"
    <3>1. ~Tiene(c)'
      BY <1>7, <1>8, <2>3 DEF Tiene
    <3> QED
      BY <1>16, <2>1, <2>3, <3>1 DEF CPUEnOrden
  <2> QED
    BY <2>2, <2>3
<1>18. ASSUME NEW d \in ListaCPUs, d # c PROVE CPUEnOrden(d)'
  <2>1. MismaCPU(d)
    BY <1>1, <1>8, <1>12, <1>16, <1>18 DEF MismaCPU, Quitada
  <2>2. ASSUME Tiene(d) PROVE hecho'[pidActual[d]] = hecho[pidActual[d]] /\ Esta(execute', pidActual[d])
    <3>1. Esta(execute, pidActual[d]) /\ EnCPU(d, pidActual[d])
      BY <2>2, EntreRondas
    <3>2. pidActual[d] \in Pids
      BY <3>1, Formas DEF Esta
    <3>3. pidActual[d] # p
      BY <1>4, <1>18, <3>1 DEF InvPuntual, UnoPorCPU
    <3> QED
      BY <1>1, <1>9, <3>1, <3>2, <3>3
  <2> QED
    BY <1>1, <2>1, <2>2, OtraCPU
<1>19. CPUsEnOrden' /\ UnoPorCPU'
  BY <1>12, <1>17, <1>18 DEF InvPuntual, CPUsEnOrden, UnoPorCPU
<1>20. EjecutaEnOrden(p) /\ ~Esta(ready, p)
  BY <1>4 DEF InvPuntual, ColasEnOrden, ListoEnOrden
<1>21. ColasEnOrden' /\ EnSuLugar'
  <2>1. ASSUME NEW q \in Pids, q # p PROVE ProcesoEnOrden(q)'
    BY <1>1, <1>9, <1>11, <1>12, <2>1, OtroProceso DEF MismoProceso
  <2>2. ProcesoEnOrden(p)'
    <3>1. \A e : Estado(p, e)' <=> Estado(p, e)
      BY <1>1 DEF Estado
    <3>2. \A e : Estado(p, e) => e = "EXECUTE"
      BY <1>20 DEF EjecutaEnOrden, Estado
    <3>3. EjecutaEnOrden(p)'
      BY <1>1, <1>12, <1>20, <3>1 DEF EjecutaEnOrden
    <3> QED
      BY <1>1, <1>4, <1>20, <3>1, <3>2, <3>3 DEF ProcesoEnOrden, EjecutaEnOrden
  <2> QED
    BY <1>1, <2>1, <2>2, Formas, ProcesosLuego
<1>22. ASSUME NEW h \in manejadores PROVE h.cpu # c /\ ManejadorEnOrden(h)'
  <2>1. h.cpu # c /\ h.cpu \in ListaCPUs /\ h.pid \in Pids /\ EnCPU(h.cpu, h.pid)
    BY <1>4, EntreRondas, Formas DEF Atendida
  <2>2. h.pid # p
    BY <1>4, <2>1 DEF InvPuntual, UnoPorCPU
  <2>3. MismoProceso(h.pid)
    BY <1>1, <1>9, <2>1, <2>2 DEF MismoProceso
  <2> QED
    BY <1>1, <2>1, <2>3, OtroManejador
<1>23. op # "CPU" => ManejadorEnOrden(k)'
  BY <1>1, <1>3, <1>4, <1>6, <1>9, <1>10, <1>14 DEF ManejadorEnOrden
<1>24. ManejadoresEnOrden'
  BY <1>10, <1>11, <1>22, <1>23 DEF InvPuntual, ManejadoresEnOrden
<1>25. RespuestaEnOrden'
  <2>1. CASE srt.pc = "respuesta" /\ srt.cpu = c
    <3>1. /\ pidActual[c] = srt.exec /\ cpu[c].int = "espera" /\ cpu[c].hay
          /\ (Esta(execute, srt.exec) => ~libre[c]) /\ (~libre[c] => Esta(execute, srt.exec) \/ Atendida(c))
      BY <1>1, <2>1 DEF InvPuntual, RespuestaEnOrden
    <3>2. cpu'[c].int = "espera" /\ cpu'[c].hay /\ cpu'[c].pc = "control"
      BY <1>7, <1>8, <3>1 DEF MismaInt
    <3> QED
      BY <1>1, <1>4, <2>1, <3>1, <3>2 DEF RespuestaEnOrden
  <2>2. CASE srt.pc = "respuesta" /\ srt.cpu # c
    <3>1. PICK d \in ListaCPUs, e \in Pids : d = srt.cpu /\ e = srt.exec /\ d # c
      BY <2>2, Formas DEF ConPid, ConExec, ConCPU
    <3>2. cpu'[d] = cpu[d] /\ (Tiene(d)' <=> Tiene(d)) /\ (Atendida(d)' <=> Atendida(d))
      BY <1>8, <1>16, <3>1 DEF Tiene
    <3>3. Esta(execute, e) => EnCPU(d, e)
      BY <1>12, <2>2, <3>1 DEF InvPuntual, RespuestaEnOrden, EnCPU
    <3>4. Esta(execute, e) => e # p
      BY <1>4, <3>1, <3>3 DEF InvPuntual, UnoPorCPU
    <3>5. Esta(execute, e) => hecho'[e] = hecho[e] /\ (Resta(e)' <=> Resta(e))
      BY <1>9, <1>13, <3>1, <3>4
    <3> QED
      BY <1>1, <2>2, <3>1, <3>2, <3>5 DEF InvPuntual, RespuestaEnOrden
  <2>3. CASE srt.pc # "respuesta"
    BY <1>1, <2>3 DEF RespuestaEnOrden
  <2> QED
    BY <2>1, <2>2, <2>3
<1>26. RondaEnOrden'
  <2>1. CASE srt.pc = "respuesta"
    <3>1. Esta(ready, srt.pid) /\ srt.PC = hecho[srt.pid] /\ Estado(srt.pid, "READY") /\ srt.pid \in Pids
      BY <2>1, Formas DEF InvPuntual, RondaEnOrden, ConPid, ConCPU
    <3>2. srt.pid # p
      BY <1>20, <3>1
    <3>3. Estado(srt.pid, "READY")'
      BY <1>1, <3>1 DEF Estado
    <3> QED
      BY <1>1, <1>9, <2>1, <3>1, <3>2, <3>3, SinRonda
  <2>2. CASE srt.pc # "respuesta"
    BY <1>1, <2>2, SinRonda
  <2> QED
    BY <2>1, <2>2
<1> QED
  BY <1>1, <1>19, <1>21, <1>24, <1>25, <1>26 DEF InvPuntual

LEMMA PasoCPUPuntual ==
  ASSUME InvFormas, Puntual, InvPuntual, NEW c \in ListaCPUs, PasoCPU(c) PROVE InvPuntual'
<1>1. srt.pc \in {"espera", "respuesta"}
  BY DEF PasoCPU, Puntual, EnRonda
<1> QED
  BY <1>1, TomarPuntual, EjecutarPuntual, ControlarPuntual, CederPuntual, ResponderPuntual DEF PasoCPU

---------------------------------------------------------------------------
(* The handlers. *)

\* A handler becomes what N has, and touches no process but its own.
LEMMA PasoDeManejador ==
  ASSUME InvFormas, InvPuntual, NEW h \in manejadores, NEW N,
         manejadores' = (manejadores \ {h}) \cup N,
         \A g \in N : g.cpu = h.cpu /\ ManejadorEnOrden(g)',
         \A g, f \in N : g = f,
         UNCHANGED <<regimen, pidActual, srt, cpu, hecho, panico>>,
         \A d \in ListaCPUs : d # h.cpu => libre'[d] = libre[d],
         N # {} => libre'[h.cpu] = libre[h.cpu],
         N = {} => libre'[h.cpu] /\ ~Esta(execute', h.pid),
         Esta(execute', h.pid) => Esta(execute, h.pid),
         \A q \in Pids : q # h.pid => MismoProceso(q),
         MismoProceso(h.pid) \/ ~Estado(h.pid, "READY"),
         ProcesoEnOrden(h.pid)', enIO' \subseteq Pids
  PROVE  InvPuntual'
<1>1. srt.pc \in {"espera", "respuesta"}
  BY DEF InvPuntual, RondaEnOrden, EnRonda
<1>2. PICK c \in ListaCPUs, p \in Pids : c = h.cpu /\ p = h.pid
  BY Formas
<1>3. ManejadorEnOrden(h) /\ EnCPU(c, p) /\ ~libre[c] /\ pidActual[c] = p /\ Atendida(c)
  BY <1>1, <1>2, EntreRondas DEF InvPuntual, ManejadoresEnOrden, ManejadorEnOrden, Atendida
<1>4. ASSUME NEW g \in manejadores, g # h
      PROVE  g.cpu # c /\ g.cpu \in ListaCPUs /\ g.pid \in Pids /\ g.pid # p
  <2>1. g.cpu # c /\ g.cpu \in ListaCPUs /\ g.pid \in Pids
    BY <1>2, <1>4, Formas DEF InvPuntual, ManejadoresEnOrden
  <2> QED
    BY <1>1, <1>2, <1>3, <2>1, EntreRondas DEF InvPuntual, UnoPorCPU
<1>5. /\ ListaCPUs' = ListaCPUs /\ \A q : ~EnDesalojo(q) /\ ~EnDesalojo(q)'
      /\ \A d : ~Vacante(d) /\ ~Vacante(d)' /\ (Quitada(d)' <=> Quitada(d))
      /\ \A d : (Tiene(d)' <=> Tiene(d)) /\ \A q : Resta(q)' <=> Resta(q)
  BY <1>1 DEF ListaCPUs, EnDesalojo, Vacante, Quitada, Tiene, Resta, Programa
<1>6. /\ \A d : d # c => (Atendida(d)' <=> Atendida(d))
      /\ Atendida(c)' <=> N # {}
  BY <1>2, <1>4 DEF Atendida
<1>7. /\ \A d \in ListaCPUs : \A q : EnCPU(d, q)' => EnCPU(d, q)
      /\ \A d \in ListaCPUs : \A q : d # c => (EnCPU(d, q)' <=> EnCPU(d, q))
      /\ \A q : EnCPU(c, q) => q = p
  BY <1>2, <1>3, <1>5 DEF EnCPU
<1>8. ASSUME NEW d \in ListaCPUs PROVE CPUEnOrden(d)'
  <2>1. CASE d # c
    <3>1. MismaCPU(d)
      BY <1>2, <1>5, <1>6, <2>1 DEF MismaCPU
    <3>2. ASSUME Tiene(d) PROVE Esta(execute', pidActual[d])
      <4>1. Esta(execute, pidActual[d]) /\ EnCPU(d, pidActual[d])
        BY <1>1, <3>2, EntreRondas
      <4>2. pidActual[d] \in Pids
        BY <4>1, Formas DEF Esta
      <4>3. pidActual[d] # p
        BY <1>3, <2>1, <4>1 DEF InvPuntual, UnoPorCPU
      <4> QED
        BY <1>2, <4>1, <4>2, <4>3 DEF MismoProceso
    <3> QED
      BY <3>1, <3>2, OtraCPU
  <2>2. CASE d = c
    <3>1. ~Tiene(c) /\ LazoEnOrden(c)
      BY <1>3 DEF InvPuntual, CPUsEnOrden, CPUEnOrden, TieneEnOrden
    <3>2. LazoEnOrden(c)'
      BY <3>1 DEF LazoEnOrden, Cediendo
    <3>3. ~libre'[c] => Atendida(c)'
      BY <1>2, <1>6
    <3> QED
      BY <1>5, <2>2, <3>1, <3>2, <3>3 DEF CPUEnOrden
  <2> QED
    BY <2>1, <2>2
<1>9. CPUsEnOrden' /\ UnoPorCPU'
  BY <1>5, <1>7, <1>8 DEF InvPuntual, CPUsEnOrden, UnoPorCPU
<1>10. ColasEnOrden' /\ EnSuLugar'
  <2>1. ASSUME NEW q \in Pids, q # p PROVE ProcesoEnOrden(q)'
    BY <1>2, <1>5, <1>7, <2>1, OtroProceso
  <2> QED
    BY <1>2, <2>1, ProcesosLuego
<1>11. ManejadoresEnOrden'
  <2>1. ASSUME NEW g \in manejadores, g # h PROVE ManejadorEnOrden(g)'
    BY <1>2, <1>4, <2>1, OtroManejador
  <2> QED
    BY <1>2, <1>4, <2>1 DEF InvPuntual, ManejadoresEnOrden
<1>12. RespuestaEnOrden'
  <2>1. CASE srt.pc = "respuesta"
    <3>1. PICK d \in ListaCPUs, e \in Pids : d = srt.cpu /\ e = srt.exec /\ pidActual[d] = e
      BY <2>1, Formas DEF ConPid, ConExec, ConCPU, InvPuntual, RespuestaEnOrden
    <3>2. Esta(execute', e) => Esta(execute, e)
      BY <1>2, <3>1 DEF MismoProceso
    <3>3. CASE d # c
      <4>1. ~libre[d] => e # p
        BY <1>3, <1>5, <3>1, <3>3 DEF InvPuntual, UnoPorCPU, EnCPU
      <4>2. libre'[d] = libre[d] /\ (~libre[d] => (Esta(execute', e) <=> Esta(execute, e)))
        BY <1>2, <3>1, <3>3, <4>1 DEF MismoProceso
      <4> QED
        BY <1>5, <1>6, <2>1, <3>1, <3>2, <3>3, <4>2 DEF InvPuntual, RespuestaEnOrden
    <3>4. CASE d = c
      <4>1. e = p /\ (Esta(execute', e) => N # {} /\ ~libre'[c] /\ Atendida(c)')
        BY <1>2, <1>3, <1>6, <3>1, <3>4
      <4>2. ~libre'[c] => Atendida(c)'
        BY <1>2, <1>6
      <4> QED
        BY <1>5, <2>1, <3>1, <3>4, <4>1, <4>2 DEF InvPuntual, RespuestaEnOrden
    <3> QED
      BY <3>3, <3>4
  <2>2. CASE srt.pc # "respuesta"
    BY <2>2 DEF RespuestaEnOrden
  <2> QED
    BY <2>1, <2>2
<1>13. RondaEnOrden'
  <2>1. CASE srt.pc = "respuesta"
    <3>1. Esta(ready, srt.pid) /\ srt.PC = hecho[srt.pid] /\ Estado(srt.pid, "READY") /\ srt.pid \in Pids
      BY <2>1, Formas DEF InvPuntual, RondaEnOrden, ConPid, ConCPU
    <3>2. MismoProceso(srt.pid)
      BY <1>2, <3>1
    <3>3. Estado(srt.pid, "READY")' /\ Esta(ready', srt.pid)
      BY <3>1, <3>2 DEF Estado, MismoProceso
    <3> QED
      BY <2>1, <3>1, <3>3, SinRonda
  <2>2. CASE srt.pc # "respuesta"
    BY <1>1, <2>2, SinRonda
  <2> QED
    BY <2>1, <2>2
<1> QED
  BY <1>9, <1>10, <1>11, <1>12, <1>13 DEF InvPuntual

\* A handler that goes on is the handler it was, at another step.
LEMMA PasaA ==
  ASSUME NEW h, EsManejador(h), NEW pc, Sigue(h, pc)
  PROVE  \E g : /\ manejadores' = (manejadores \ {h}) \cup {g}
                /\ g.op = h.op /\ g.pc = pc /\ g.pid = h.pid /\ g.cpu = h.cpu /\ g.PC = h.PC
<1> DEFINE r == [op |-> h.op, pc |-> pc, pid |-> h.pid, cpu |-> h.cpu, PC |-> h.PC]
<1>1. [h EXCEPT !.pc = pc] = r
  BY DEF EsManejador
<1>2. r.op = h.op /\ r.pc = pc /\ r.pid = h.pid /\ r.cpu = h.cpu /\ r.PC = h.PC
  OBVIOUS
<1> HIDE DEF r
<1>3. manejadores' = (manejadores \ {h}) \cup {r}
  BY <1>1, Zenon DEF Sigue
<1> QED
  BY <1>2, <1>3

\* What a handler that is at its first step knows.
LEMMA AlEntrar ==
  ASSUME InvFormas, InvPuntual, NEW h \in manejadores, h.pc = "entra"
  PROVE  /\ Esta(execute, h.pid) /\ ~Esta(ready, h.pid) /\ h.pid \notin enIO
         /\ Estado(h.pid, "EXECUTE") /\ mapa[h.pid] # NADA /\ mapa[h.pid].PC \in Nat
BY Formas, Entrada DEF InvPuntual, ManejadoresEnOrden, ManejadorEnOrden, ColasEnOrden, EjecutaEnOrden,
   ListoEnOrden, Estado

LEMMA AtenderIOPuntual ==
  ASSUME InvFormas, Puntual, InvPuntual, NEW h \in manejadores, AtenderIO(h) PROVE InvPuntual'
<1>1. PICK p \in Pids, n \in Nat : p = h.pid /\ n = h.PC
  BY Formas DEF EsManejador
<1>2. /\ h.op = "IO" /\ h.pc = "entra" /\ Esta(execute, p) /\ ~Esta(ready, p) /\ Estado(p, "EXECUTE")
      /\ n = hecho[p] /\ Resta(p) /\ ~libre[h.cpu] /\ pidActual[h.cpu] = p
  BY <1>1, AlEntrar DEF AtenderIO, InvPuntual, ManejadoresEnOrden, ManejadorEnOrden
<1>3. /\ enIO' = enIO \cup {p} /\ Sigue(h, "libera") /\ Bloquear(p, n)
      /\ UNCHANGED <<regimen, ready, libre, pidActual, srt, cpu, hecho, panico>>
  BY <1>1, <1>2 DEF AtenderIO, cpusVars, EnExecute, Estado
<1>4. PICK g : /\ manejadores' = (manejadores \ {h}) \cup {g}
               /\ g.op = h.op /\ g.pc = "libera" /\ g.pid = p /\ g.cpu = h.cpu /\ g.PC = n
  BY <1>1, <1>3, Formas, PasaA
<1>5. /\ mapa'[p] # NADA /\ mapa'[p].estado = "BLOCKED" /\ mapa'[p].PC = n
      /\ \A q \in Pids : q # p => mapa'[q] = mapa[q]
      /\ SalirDeExecute(p)
  BY <1>3, BloquearMapa
<1>6. /\ \A q : Esta(execute', q) <=> Esta(execute, q) /\ q # p
      /\ \A s : Estado(p, s)' <=> s = "BLOCKED"
      /\ Resta(p)'
  BY <1>2, <1>3, <1>5, EfectoSalir DEF Estado, Resta, Programa
<1>7. ManejadorEnOrden(g)'
  BY <1>2, <1>3, <1>4, <1>5, <1>6 DEF ManejadorEnOrden, EnExecute
<1>8. ProcesoEnOrden(p)'
  BY <1>2, <1>3, <1>5, <1>6 DEF ProcesoEnOrden
<1>9. \A q \in Pids : q # p => MismoProceso(q)
  BY <1>3, <1>5, <1>6 DEF MismoProceso
<1>10. ~Estado(p, "READY") /\ enIO' \subseteq Pids
  BY <1>2, <1>3, Formas DEF Estado
<1> DEFINE N == {g}
<1>11. /\ manejadores' = (manejadores \ {h}) \cup N /\ N # {}
       /\ \A f \in N : f.cpu = h.cpu /\ ManejadorEnOrden(f)'
       /\ \A f, k \in N : f = k
  BY <1>4, <1>7
<1> HIDE DEF N
<1> QED
  BY <1>1, <1>3, <1>6, <1>8, <1>9, <1>10, <1>11, PasoDeManejador

LEMMA AtenderDumpPuntual ==
  ASSUME InvFormas, Puntual, InvPuntual, NEW h \in manejadores, AtenderDump(h) PROVE InvPuntual'
<1>1. PICK p \in Pids, n \in Nat : p = h.pid /\ n = mapa[p].PC
  BY Formas, AlEntrar DEF AtenderDump
<1>2. /\ h.op = "DUMP" /\ h.pc = "entra" /\ Esta(execute, p) /\ ~Esta(ready, p) /\ Estado(p, "EXECUTE")
      /\ mapa[p] # NADA /\ p \notin enIO
      /\ h.PC = hecho[p] /\ Resta(p) /\ ~libre[h.cpu] /\ pidActual[h.cpu] = p
  BY <1>1, AlEntrar DEF AtenderDump, InvPuntual, ManejadoresEnOrden, ManejadorEnOrden
<1>3. /\ Sigue(h, "vuelca") /\ Bloquear(p, n)
      /\ UNCHANGED <<regimen, ready, libre, pidActual, srt, enIO, cpu, hecho, panico>>
  BY <1>1, <1>2 DEF AtenderDump, cpusVars
<1>4. PICK g : /\ manejadores' = (manejadores \ {h}) \cup {g}
               /\ g.op = h.op /\ g.pc = "vuelca" /\ g.pid = p /\ g.cpu = h.cpu /\ g.PC = h.PC
  BY <1>1, <1>3, Formas, PasaA
<1>5. /\ mapa'[p] # NADA /\ mapa'[p].estado = "BLOCKED"
      /\ \A q \in Pids : q # p => mapa'[q] = mapa[q]
      /\ SalirDeExecute(p)
  BY <1>3, BloquearMapa
<1>6. /\ \A q : Esta(execute', q) <=> Esta(execute, q) /\ q # p
      /\ \A s : Estado(p, s)' <=> s = "BLOCKED"
      /\ Resta(p)'
  BY <1>2, <1>3, <1>5, EfectoSalir DEF Estado, Resta, Programa
<1>7. ManejadorEnOrden(g)'
  BY <1>2, <1>3, <1>4, <1>6 DEF ManejadorEnOrden
<1>8. ProcesoEnOrden(p)'
  BY <1>2, <1>3, <1>6 DEF ProcesoEnOrden
<1>9. \A q \in Pids : q # p => MismoProceso(q)
  BY <1>3, <1>5, <1>6 DEF MismoProceso
<1>10. ~Estado(p, "READY") /\ enIO' \subseteq Pids
  BY <1>2, <1>3, Formas DEF Estado
<1> DEFINE N == {g}
<1>11. /\ manejadores' = (manejadores \ {h}) \cup N /\ N # {}
       /\ \A f \in N : f.cpu = h.cpu /\ ManejadorEnOrden(f)'
       /\ \A f, k \in N : f = k
  BY <1>4, <1>7
<1> HIDE DEF N
<1> QED
  BY <1>1, <1>3, <1>6, <1>8, <1>9, <1>10, <1>11, PasoDeManejador

LEMMA TerminarDumpPuntual ==
  ASSUME InvFormas, Puntual, InvPuntual, NEW h \in manejadores, TerminarDump(h) PROVE InvPuntual'
<1>1. PICK p \in Pids, n \in Nat : p = h.pid /\ n = h.PC
  BY Formas DEF EsManejador
<1>2. /\ h.op = "DUMP" /\ h.pc = "vuelca" /\ Estado(p, "BLOCKED") /\ mapa[p] # NADA /\ p \notin enIO
      /\ n = hecho[p] /\ Resta(p) /\ ~libre[h.cpu] /\ pidActual[h.cpu] = p
      /\ ~Esta(execute, p)
  BY <1>1 DEF TerminarDump, InvPuntual, ManejadoresEnOrden, ManejadorEnOrden, ColasEnOrden,
     EjecutaEnOrden, Estado
<1>3. /\ mapa' = [mapa EXCEPT ![p].estado = "READY", ![p].PC = n] /\ ready' = Agregar(ready, p)
      /\ Sigue(h, "libera")
      /\ UNCHANGED <<regimen, execute, libre, pidActual, srt, enIO, cpu, hecho, panico>>
  BY <1>1, <1>2 DEF TerminarDump, cpusVars, Estado
<1>4. PICK g : /\ manejadores' = (manejadores \ {h}) \cup {g}
               /\ g.op = h.op /\ g.pc = "libera" /\ g.pid = p /\ g.cpu = h.cpu /\ g.PC = n
  BY <1>1, <1>3, Formas, PasaA
<1>5. /\ mapa'[p] = [estado |-> "READY", PC |-> n, est |-> mapa[p].est] /\ mapa'[p] # NADA
      /\ \A q \in Pids : q # p => mapa'[q] = mapa[q]
  BY <1>2, <1>3, OtroEstadoYPC DEF Estados
<1>6. mapa'[p].estado = "READY" /\ mapa'[p].PC = n
  BY <1>5
<1>7. /\ \A q : Esta(ready', q) <=> Esta(ready, q) \/ q = p
      /\ \A s : Estado(p, s)' <=> s = "READY"
      /\ Resta(p)'
  BY <1>2, <1>3, <1>5, <1>6, ReadyCrece DEF Estado, Resta, Programa
<1>8. ManejadorEnOrden(g)'
  BY <1>2, <1>3, <1>4, <1>6, <1>7 DEF ManejadorEnOrden, EnExecute
<1>9. ProcesoEnOrden(p)'
  <2>1. ListoEnOrden(p)'
    BY <1>2, <1>3, <1>5, <1>6, <1>7 DEF ListoEnOrden
  <2> QED
    BY <1>2, <1>3, <1>7, <2>1 DEF ProcesoEnOrden
<1>10. \A q \in Pids : q # p => MismoProceso(q)
  BY <1>3, <1>5, <1>7 DEF MismoProceso
<1>11. ~Estado(p, "READY") /\ enIO' \subseteq Pids
  BY <1>2, <1>3, Formas DEF Estado
<1> DEFINE N == {g}
<1>12. /\ manejadores' = (manejadores \ {h}) \cup N /\ N # {}
       /\ \A f \in N : f.cpu = h.cpu /\ ManejadorEnOrden(f)'
       /\ \A f, k \in N : f = k
  BY <1>4, <1>8
<1> HIDE DEF N
<1> QED
  BY <1>1, <1>3, <1>9, <1>10, <1>11, <1>12, PasoDeManejador

LEMMA FinEnColaPuntual ==
  ASSUME InvFormas, Puntual, InvPuntual, NEW h \in manejadores, FinEnCola(h) PROVE InvPuntual'
<1>1. PICK p \in Pids, n \in Nat : p = h.pid /\ n = h.PC
  BY Formas DEF EsManejador
<1>2. /\ h.op = "EXIT" /\ h.pc = "entra" /\ Esta(execute, p) /\ ~Esta(ready, p) /\ Estado(p, "EXECUTE")
      /\ p \notin enIO /\ n = hecho[p] /\ ~libre[h.cpu] /\ pidActual[h.cpu] = p
  BY <1>1, AlEntrar DEF FinEnCola, InvPuntual, ManejadoresEnOrden, ManejadorEnOrden
<1>3. /\ SalirDeExecute(p) /\ Sigue(h, "mapa")
      /\ UNCHANGED <<regimen, mapa, ready, libre, pidActual, srt, enIO, cpu, hecho, panico>>
  BY <1>1 DEF FinEnCola, cpusVars
<1>4. PICK g : /\ manejadores' = (manejadores \ {h}) \cup {g}
               /\ g.op = h.op /\ g.pc = "mapa" /\ g.pid = p /\ g.cpu = h.cpu /\ g.PC = n
  BY <1>1, <1>3, Formas, PasaA
<1>5. /\ \A q : Esta(execute', q) <=> Esta(execute, q) /\ q # p
      /\ \A s : Estado(p, s)' <=> s = "EXECUTE"
  BY <1>2, <1>3, EfectoSalir DEF Estado
<1>6. ManejadorEnOrden(g)'
  BY <1>2, <1>3, <1>4, <1>5 DEF ManejadorEnOrden
<1>7. ProcesoEnOrden(p)'
  <2>1. \E f \in manejadores' : f.pid = p /\ f.pc = "mapa"
    BY <1>4
  <2> QED
    BY <1>2, <1>3, <1>5, <2>1 DEF ProcesoEnOrden
<1>8. \A q \in Pids : q # p => MismoProceso(q)
  BY <1>3, <1>5 DEF MismoProceso
<1>9. ~Estado(p, "READY") /\ enIO' \subseteq Pids
  BY <1>2, <1>3, Formas DEF Estado
<1> DEFINE N == {g}
<1>10. /\ manejadores' = (manejadores \ {h}) \cup N /\ N # {}
       /\ \A f \in N : f.cpu = h.cpu /\ ManejadorEnOrden(f)'
       /\ \A f, k \in N : f = k
  BY <1>4, <1>6
<1> HIDE DEF N
<1> QED
  BY <1>1, <1>3, <1>5, <1>7, <1>8, <1>9, <1>10, PasoDeManejador

LEMMA FinEnMapaPuntual ==
  ASSUME InvFormas, Puntual, InvPuntual, NEW h \in manejadores, FinEnMapa(h) PROVE InvPuntual'
<1>1. PICK p \in Pids, n \in Nat : p = h.pid /\ n = h.PC
  BY Formas DEF EsManejador
<1>2. /\ h.op = "EXIT" /\ h.pc = "mapa" /\ Estado(p, "EXECUTE") /\ ~Esta(execute, p) /\ ~Esta(ready, p)
      /\ mapa[p] # NADA /\ n = hecho[p] /\ ~libre[h.cpu] /\ pidActual[h.cpu] = p
  BY <1>1 DEF FinEnMapa, InvPuntual, ManejadoresEnOrden, ManejadorEnOrden, Estado
<1>3. p \notin enIO
  BY <1>2 DEF InvPuntual, ColasEnOrden, Estado
<1>4. /\ mapa' = [mapa EXCEPT ![p] = NADA] /\ Sigue(h, "libera")
      /\ UNCHANGED <<regimen, ready, execute, libre, pidActual, srt, enIO, cpu, hecho, panico>>
  BY <1>1, <1>2 DEF FinEnMapa, cpusVars
<1>5. PICK g : /\ manejadores' = (manejadores \ {h}) \cup {g}
               /\ g.op = h.op /\ g.pc = "libera" /\ g.pid = p /\ g.cpu = h.cpu /\ g.PC = n
  BY <1>1, <1>4, Formas, PasaA
<1>6. /\ mapa'[p] = NADA /\ \A q \in Pids : q # p => mapa'[q] = mapa[q]
      /\ \A s : ~Estado(p, s)'
  BY <1>4, Formas DEF Estado
<1>7. ManejadorEnOrden(g)'
  BY <1>2, <1>4, <1>5, <1>6 DEF ManejadorEnOrden, EnExecute
<1>8. ProcesoEnOrden(p)'
  BY <1>2, <1>3, <1>4, <1>6 DEF ProcesoEnOrden
<1>9. \A q \in Pids : q # p => MismoProceso(q)
  BY <1>4, <1>6 DEF MismoProceso
<1>10. ~Estado(p, "READY") /\ enIO' \subseteq Pids
  BY <1>2, <1>4, Formas DEF Estado
<1> DEFINE N == {g}
<1>11. /\ manejadores' = (manejadores \ {h}) \cup N /\ N # {}
       /\ \A f \in N : f.cpu = h.cpu /\ ManejadorEnOrden(f)'
       /\ \A f, k \in N : f = k
  BY <1>5, <1>7
<1> HIDE DEF N
<1> QED
  BY <1>1, <1>4, <1>8, <1>9, <1>10, <1>11, PasoDeManejador

LEMMA LiberarPuntual ==
  ASSUME InvFormas, Puntual, InvPuntual, NEW h \in manejadores, Liberar(h) PROVE InvPuntual'
<1>1. PICK p \in Pids, c \in ListaCPUs : p = h.pid /\ c = h.cpu
  BY Formas
<1>2. /\ h.pc = "libera" /\ Termina(h) /\ libre' = [libre EXCEPT ![c] = TRUE]
      /\ UNCHANGED <<regimen, mapa, ready, execute, pidActual, srt, enIO, cpu, hecho, panico>>
  BY <1>1 DEF Liberar, kernelVars
<1>3. ~EnExecute(p)
  BY <1>1, <1>2 DEF InvPuntual, ManejadoresEnOrden, ManejadorEnOrden
<1>4. ~Esta(execute, p)
  BY <1>3 DEF InvPuntual, ColasEnOrden, EjecutaEnOrden, Estado, EnExecute
<1>5. MismoProceso(p) /\ \A q \in Pids : q # p => MismoProceso(q)
  BY <1>2 DEF MismoProceso
<1>6. libre'[c] /\ \A d \in ListaCPUs : d # c => libre'[d] = libre[d]
  BY <1>1, <1>2, Formas
<1>7. ProcesoEnOrden(p)'
  <2>1. ProcesoEnOrden(p) /\ \A s : Estado(p, s)' <=> Estado(p, s)
    BY <1>2, ProcesosEnOrden DEF Estado
  <2>2. ~Estado(p, "EXECUTE")
    BY <1>3 DEF Estado, EnExecute
  <2>3. (Resta(p)' <=> Resta(p)) /\ (EnDesalojo(p)' <=> EnDesalojo(p))
    BY <1>2 DEF Resta, Programa, EnDesalojo
  <2>4. ListoEnOrden(p) => ListoEnOrden(p)'
    BY <1>2, <2>3 DEF ListoEnOrden
  <2> QED
    BY <1>2, <1>4, <2>1, <2>2, <2>3, <2>4 DEF ProcesoEnOrden
<1> DEFINE N == {}
<1>8. /\ manejadores' = (manejadores \ {h}) \cup N /\ N = {}
      /\ \A f \in N : f.cpu = h.cpu /\ ManejadorEnOrden(f)'
      /\ \A f, k \in N : f = k
  BY <1>2 DEF Termina
<1> HIDE DEF N
<1>9. enIO' \subseteq Pids
  BY <1>2, Formas
<1> QED
  BY <1>1, <1>2, <1>4, <1>5, <1>6, <1>7, <1>8, <1>9, PasoDeManejador

LEMMA PasoManejadorPuntual ==
  ASSUME InvFormas, Puntual, InvPuntual, NEW h \in manejadores, PasoManejador(h) PROVE InvPuntual'
<1>1. ~AtenderInit(h)
  BY DEF AtenderInit, InvPuntual, ManejadoresEnOrden, ManejadorEnOrden
<1> QED
  BY <1>1, AtenderIOPuntual, AtenderDumpPuntual, TerminarDumpPuntual, FinEnColaPuntual,
     FinEnMapaPuntual, LiberarPuntual DEF PasoManejador

---------------------------------------------------------------------------

LEMMA InicioPuntual ==
  ASSUME Init PROVE InvPuntual
<1>1. /\ \A p \in Pids : mapa[p] = [estado |-> "NEW", PC |-> 0, est |-> EstimacionInicial]
      /\ \A p \in Pids : hecho[p] = 0
      /\ ready = <<>> /\ execute = <<>> /\ enIO = {} /\ manejadores = {} /\ ~panico
      /\ srt.pc = "espera"
  BY EsperandoForma DEF Init
<1>2. \A c \in ListaCPUs : libre[c] /\ cpu[c] = CpuOciosa
  BY InicioFormas, Formas DEF Init
<1>3. \A p \in Pids : mapa[p] # NADA => mapa[p].estado = "NEW" /\ mapa[p].PC = 0
  BY <1>1
<1>4. \A p : ~Esta(ready, p) /\ ~Esta(execute, p)
  BY <1>1 DEF Esta
<1>5. ColasEnOrden /\ EnSuLugar
  BY <1>1, <1>3, <1>4 DEF ColasEnOrden, EnSuLugar, Estado
<1>6. \A c \in ListaCPUs : ~Tiene(c) /\ LazoEnOrden(c)
  <2> SUFFICES ASSUME NEW c \in ListaCPUs PROVE ~Tiene(c) /\ LazoEnOrden(c)
    OBVIOUS
  <2>1. /\ cpu[c].pc = "libre" /\ cpu[c].cola = <<>> /\ ~cpu[c].envie /\ ~cpu[c].hay
        /\ cpu[c].int = "no"
    BY <1>2 DEF CpuOciosa
  <2>2. Len(cpu[c].cola) = 0
    BY <2>1
  <2> QED
    BY <2>1, <2>2 DEF Tiene, LazoEnOrden
<1>7. CPUsEnOrden /\ UnoPorCPU
  BY <1>2, <1>6 DEF CPUsEnOrden, CPUEnOrden, UnoPorCPU, EnCPU
<1>8. ManejadoresEnOrden /\ RespuestaEnOrden
  BY <1>1 DEF ManejadoresEnOrden, RespuestaEnOrden
<1>9. RondaEnOrden
  BY <1>1 DEF RondaEnOrden, EnRonda, ConPid, ConCPU
<1> QED
  BY <1>1, <1>5, <1>7, <1>8, <1>9 DEF InvPuntual

LEMMA PasoPuntual ==
  ASSUME InvFormas, Puntual => InvPuntual, [Next]_vars PROVE Puntual' => InvPuntual'
<1>1. Puntual' <=> Puntual
  BY MismasCPUs DEF Puntual
<1>2. CASE ~Puntual
  BY <1>1, <1>2
<1>3. CASE Puntual
  <2>1. Puntual /\ InvPuntual
    BY <1>3
  <2>2. CASE PasoSRT
    BY <2>1, <2>2, PasoSRTPuntual
  <2>3. ASSUME NEW h \in manejadores, PasoManejador(h) PROVE InvPuntual'
    BY <2>1, <2>3, PasoManejadorPuntual
  <2>4. ASSUME NEW c \in ListaCPUs, PasoCPU(c) PROVE InvPuntual'
    BY <2>1, <2>4, PasoCPUPuntual
  <2>5. ASSUME \/ \E p \in Pids : PasoEntorno(p) \/ PasarTiempo(p)
               \/ Avisar \/ UNCHANGED vars
        PROVE  InvPuntual'
    BY <2>1, <2>5, EntornoPuntual
  <2> QED
    BY <2>2, <2>3, <2>4, <2>5 DEF Next
<1> QED
  BY <1>2, <1>3

LEMMA PuntualSiempre == Spec => [](Puntual => InvPuntual)
<1>1. Init => (Puntual => InvPuntual)
  BY InicioPuntual
<1>2. InvFormas /\ (Puntual => InvPuntual) /\ [Next]_vars => (Puntual => InvPuntual)'
  BY PasoPuntual
<1> QED
  BY <1>1, <1>2, FormasSiempre, PTL DEF Spec

\* SinPanicoSRT: whatever the programs, the CPUs and the pace of the devices, a
\* kernel that is Puntual does not die; what verificarDesalojo reads of EXECUTE,
\* and ActualizarPC of the answer of a CPU, is there.
THEOREM SinPanicoSRTSiempre == Spec => []SinPanicoSRT
<1>1. (Puntual => InvPuntual) => SinPanicoSRT
  BY DEF InvPuntual, SinPanicoSRT
<1> QED
  BY <1>1, PuntualSiempre, PTL

\* A process is in the hands of the CPU the kernel has it on, and of no other.
LEMMA TramosDeUno ==
  ASSUME InvFormas, InvPuntual, NEW p \in Pids, NEW t \in Tramos(p)
  PROVE  \E c \in ListaCPUs :
           /\ EnCPU(c, p) /\ t[3] = hecho[p]
           /\ t = IF cpu[c].cola # <<>> THEN <<c, 1, Head(cpu[c].cola).PC>>
                  ELSE <<c, "loop", cpu[c].PC>>
<1>1. ASSUME NEW c \in ListaCPUs, cpu[c].pc = "ejecuta", cpu[c].pid = p,
             t = <<c, "loop", cpu[c].PC>>
      PROVE  EnCPU(c, p) /\ t[3] = hecho[p] /\ cpu[c].cola = <<>>
  <2>1. LazoEnOrden(c) /\ TieneEnOrden(c)
    BY <1>1 DEF InvPuntual, CPUsEnOrden, CPUEnOrden, Tiene
  <2>2. cpu[c].cola = <<>>
    BY <1>1, <2>1 DEF LazoEnOrden
  <2>3. pidActual[c] = p /\ cpu[c].PC = hecho[p]
    BY <1>1, <2>1, <2>2 DEF TieneEnOrden, Tramo, Fuera
  <2> QED
    BY <1>1, <2>1, <2>2, <2>3 DEF TieneEnOrden, EnCPU
<1>2. ASSUME NEW c \in ListaCPUs, NEW i \in DOMAIN cpu[c].cola, cpu[c].cola[i].pid = p,
             t = <<c, i, cpu[c].cola[i].PC>>
      PROVE  /\ EnCPU(c, p) /\ t[3] = hecho[p] /\ cpu[c].cola # <<>>
             /\ t = <<c, 1, Head(cpu[c].cola).PC>>
  <2>1. PICK s \in Seq(PcbNat) : s = cpu[c].cola
    BY Formas DEF Maquinas
  <2>2. s # <<>> /\ i \in 1 .. Len(s)
    BY <1>2, <2>1
  <2>3. LazoEnOrden(c) /\ TieneEnOrden(c)
    BY <2>1, <2>2 DEF InvPuntual, CPUsEnOrden, CPUEnOrden, Tiene
  <2>4. Len(s) <= 1
    <3>1. Len(<<>>) = 0
      OBVIOUS
    <3> QED
      BY <2>1, <2>3, <3>1 DEF LazoEnOrden
  <2>5. i = 1 /\ s[i] = Head(s)
    BY <2>2, <2>4
  <2>6. pidActual[c] = p /\ Head(s).PC = hecho[p]
    BY <1>2, <2>1, <2>2, <2>3, <2>5 DEF TieneEnOrden, Tramo
  <2>7. t = <<c, 1, Head(s).PC>>
    BY <1>2, <2>1, <2>5
  <2> QED
    BY <2>1, <2>2, <2>3, <2>6, <2>7 DEF TieneEnOrden, EnCPU
<1>3. \/ \E c \in ListaCPUs : cpu[c].pc = "ejecuta" /\ cpu[c].pid = p /\ t = <<c, "loop", cpu[c].PC>>
      \/ \E c \in ListaCPUs : \E i \in DOMAIN cpu[c].cola :
           cpu[c].cola[i].pid = p /\ t = <<c, i, cpu[c].cola[i].PC>>
  BY DEF Tramos
<1>4. CASE \E c \in ListaCPUs : cpu[c].pc = "ejecuta" /\ cpu[c].pid = p /\ t = <<c, "loop", cpu[c].PC>>
  <2>1. PICK c \in ListaCPUs : cpu[c].pc = "ejecuta" /\ cpu[c].pid = p /\ t = <<c, "loop", cpu[c].PC>>
    BY <1>4
  <2> QED
    BY <1>1, <2>1
<1>5. CASE \E c \in ListaCPUs : \E i \in DOMAIN cpu[c].cola :
             cpu[c].cola[i].pid = p /\ t = <<c, i, cpu[c].cola[i].PC>>
  <2>1. PICK c \in ListaCPUs : \E i \in DOMAIN cpu[c].cola :
               cpu[c].cola[i].pid = p /\ t = <<c, i, cpu[c].cola[i].PC>>
    BY <1>5
  <2>2. PICK i \in DOMAIN cpu[c].cola : cpu[c].cola[i].pid = p /\ t = <<c, i, cpu[c].cola[i].PC>>
    BY <2>1
  <2> QED
    BY <1>2, <2>1, <2>2
<1> QED
  BY <1>3, <1>4, <1>5

\* ProgramaEnOrden: under a kernel that is Puntual, one CPU at most has a process,
\* and has it at the instruction after the last it executed, as the map has one
\* in READY: a preemption neither repeats nor skips an instruction.
THEOREM ProgramaEnOrdenSiempre == Spec => []ProgramaEnOrden
<1>1. InvFormas /\ (Puntual => InvPuntual) => ProgramaEnOrden
  <2> SUFFICES ASSUME InvFormas, InvPuntual, NEW p \in Pids
               PROVE  /\ Cardinality(Tramos(p)) <= 1
                      /\ \A t \in Tramos(p) : t[3] = hecho[p]
                      /\ mapa[p] # NADA /\ mapa[p].estado = "READY" => mapa[p].PC = hecho[p]
    BY DEF ProgramaEnOrden
  <2>1. \A t \in Tramos(p) : t[3] = hecho[p]
    BY TramosDeUno
  <2>2. \A t, u \in Tramos(p) : t = u
    <3> SUFFICES ASSUME NEW t \in Tramos(p), NEW u \in Tramos(p) PROVE t = u
      OBVIOUS
    <3>1. PICK c \in ListaCPUs :
            /\ EnCPU(c, p)
            /\ t = IF cpu[c].cola # <<>> THEN <<c, 1, Head(cpu[c].cola).PC>>
                   ELSE <<c, "loop", cpu[c].PC>>
      BY TramosDeUno
    <3>2. PICK d \in ListaCPUs :
            /\ EnCPU(d, p)
            /\ u = IF cpu[d].cola # <<>> THEN <<d, 1, Head(cpu[d].cola).PC>>
                   ELSE <<d, "loop", cpu[d].PC>>
      BY TramosDeUno
    <3>3. c = d
      BY <3>1, <3>2 DEF InvPuntual, UnoPorCPU
    <3> QED
      BY <3>1, <3>2, <3>3
  <2>3. Cardinality(Tramos(p)) <= 1
    <3>1. CASE Tramos(p) = {}
      BY <3>1, FS_EmptySet
    <3>2. CASE Tramos(p) # {}
      <4>1. PICK t : Tramos(p) = {t}
        BY <2>2, <3>2
      <4>2. Cardinality({t}) = 1
        BY FS_Singleton, Zenon
      <4> QED
        BY <4>1, <4>2
    <3> QED
      BY <3>1, <3>2
  <2>4. mapa[p] # NADA /\ mapa[p].estado = "READY" => mapa[p].PC = hecho[p]
    BY DEF InvPuntual, EnSuLugar, ColasEnOrden, ListoEnOrden, Estado
  <2> QED
    BY <2>1, <2>3, <2>4
<1> QED
  BY <1>1, PuntualSiempre, FormasSiempre, PTL

---------------------------------------------------------------------------
(* One CPU: the process in EXECUTE is the shortest, unless there is news.    *)

\* No process of READY is shorter than p.
ElMasCorto(p) == \A q \in Pids : Esta(ready, q) => mapa[p].est <= mapa[q].est

\* The process of EXECUTE that the planner is taking out is not shorter than p.
MasLargo(p) == Esta(execute, srt.exec) => mapa[p].est <= mapa[srt.exec].est

EjecutaElMasCorto ==
  \A p, q \in Pids : Esta(ready, p) /\ Esta(execute, q) => restante[q] <= mapa[p].est

InvCorto ==
  /\ \A p \in Pids : Esta(execute, p) => restante[p] <= mapa[p].est
  /\ srt.pc = "espera" => Anunciado \/ EjecutaElMasCorto
  /\ srt.pc = "busca" => Anunciado \/ (ElMasCorto(ready[1]) /\ MasLargo(ready[1]))
  /\ srt.pc \in ConPid => Anunciado \/ ElMasCorto(srt.pid)
  /\ srt.pc \in ConCPU => Anunciado \/ MasLargo(srt.pid)

LEMMA UnoEnExecute ==
  ASSUME InvFormas, InvPuntual, UnaCPU
  PROVE  /\ \E c \in ListaCPUs : \A d \in ListaCPUs : d = c
         /\ \A p, q \in Pids : Esta(execute, p) /\ Esta(execute, q) => p = q
         /\ HayLibre => \A p \in Pids : ~Esta(execute, p)
<1>1. PICK c \in ListaCPUs : \A d \in ListaCPUs : d = c
  BY Formas, LaCPU
<1>2. \A p \in Pids : Esta(execute, p) => EnCPU(c, p)
  BY <1>1 DEF InvPuntual, ColasEnOrden, EjecutaEnOrden
<1> QED
  BY <1>1, <1>2 DEF EnCPU, HayLibre

\* The estimates of READY and EXECUTE are numbers.
LEMMA Estimados ==
  ASSUME InvFormas, InvPuntual
  PROVE  /\ \A q \in Pids : Esta(ready, q) \/ Esta(execute, q) => mapa[q] # NADA /\ mapa[q].est \in Nat
         /\ restante \in [Pids -> Nat]
         /\ srt.pc \in ConPid => srt.pid \in Pids /\ Esta(ready, srt.pid)
         /\ srt.pc = "busca" => ready[1] \in Pids /\ Esta(ready, ready[1])
<1>1. \A q \in Pids : Esta(ready, q) \/ Esta(execute, q) => mapa[q] # NADA
  BY DEF InvPuntual, ColasEnOrden, ListoEnOrden, EjecutaEnOrden, Estado
<1>2. \A q \in Pids : mapa[q] # NADA => mapa[q].est \in Nat
  BY Entrada
<1>3. restante \in [Pids -> Nat]
  BY DEF InvFormas, FormaColas
<1>4. srt.pc \in ConPid => srt.pid \in Pids /\ Esta(ready, srt.pid)
  BY Formas DEF InvPuntual, RondaEnOrden
<1>5. srt.pc = "busca" => ready[1] \in Pids /\ Esta(ready, ready[1])
  <2>1. ready \in Seq(Pids) /\ (srt.pc = "busca" => ready # <<>>)
    BY DEF InvFormas, InvAviso, TiposAviso, TiposColas, RondaConTrabajo, ConReady
  <2> QED
    BY <2>1 DEF Esta
<1> QED
  BY <1>1, <1>2, <1>3, <1>4, <1>5

\* A step that leaves READY, and the choice of the planner, as they were.
LEMMA CortoSigue ==
  ASSUME InvFormas, InvPuntual, InvCorto, Anunciado => Anunciado',
         ready' = ready, restante' \in [Pids -> Nat],
         srt'.pid = srt.pid, srt'.exec = srt.exec,
         srt'.pc # srt.pc =>
           srt.pc \in ConPid /\ srt'.pc \in ConPid /\ (srt'.pc \in ConCPU => srt.pc \in ConCPU),
         \A q : Esta(execute', q) => Esta(execute, q),
         \A q \in Pids : Esta(execute', q) => restante'[q] <= restante[q],
         \A q \in Pids : Esta(ready, q) \/ Esta(execute', q) => mapa'[q].est = mapa[q].est
  PROVE  InvCorto'
<1>1. \A q \in Pids : /\ Esta(ready, q) \/ Esta(execute, q) => mapa[q].est \in Nat
                      /\ restante[q] \in Nat /\ restante'[q] \in Nat
  BY Estimados
<1>2. \A p \in Pids : Esta(execute', p) => restante'[p] <= mapa'[p].est
  <2> SUFFICES ASSUME NEW p \in Pids, Esta(execute', p) PROVE restante'[p] <= mapa'[p].est
    OBVIOUS
  <2>1. restante'[p] <= restante[p] /\ restante[p] <= mapa[p].est /\ mapa'[p].est = mapa[p].est
    BY DEF InvCorto
  <2> QED
    BY <1>1, <2>1
<1>3. EjecutaElMasCorto => EjecutaElMasCorto'
  <2> SUFFICES ASSUME EjecutaElMasCorto, NEW p \in Pids, NEW q \in Pids, Esta(ready, p), Esta(execute', q)
               PROVE  restante'[q] <= mapa'[p].est
    BY DEF EjecutaElMasCorto
  <2>1. restante'[q] <= restante[q] /\ restante[q] <= mapa[p].est /\ mapa'[p].est = mapa[p].est
    BY DEF EjecutaElMasCorto
  <2> QED
    BY <1>1, <2>1
<1>4. ASSUME NEW p \in Pids, Esta(ready, p)
      PROVE  /\ ElMasCorto(p) => \A q \in Pids : Esta(ready', q) => mapa'[p].est <= mapa'[q].est
             /\ MasLargo(p) /\ srt.exec \in Pids =>
                  (Esta(execute', srt'.exec) => mapa'[p].est <= mapa'[srt'.exec].est)
  BY <1>4 DEF ElMasCorto, MasLargo
<1>5. srt.pc \in ConCPU \cup {"busca"} => srt.exec \in Pids
  BY Formas DEF ConExec
<1>6. srt'.pc = "espera" => Anunciado' \/ EjecutaElMasCorto'
  BY <1>3 DEF InvCorto, ConPid, ConCPU
<1>7. srt'.pc = "busca" => Anunciado' \/ (ElMasCorto(ready[1])' /\ MasLargo(ready[1])')
  <2> SUFFICES ASSUME srt'.pc = "busca", ~Anunciado'
               PROVE  ElMasCorto(ready[1])' /\ MasLargo(ready[1])'
    OBVIOUS
  <2>1. srt.pc = "busca"
    BY DEF ConPid, ConCPU
  <2>2. ElMasCorto(ready[1]) /\ MasLargo(ready[1])
    BY <2>1 DEF InvCorto
  <2>3. PICK p \in Pids : p = ready[1] /\ Esta(ready, p)
    BY <2>1, Estimados
  <2>4. srt.exec \in Pids
    BY <1>5, <2>1
  <2> QED
    BY <1>4, <2>2, <2>3, <2>4 DEF ElMasCorto, MasLargo
<1>8. srt'.pc \in ConPid => Anunciado' \/ ElMasCorto(srt.pid)'
  <2> SUFFICES ASSUME srt'.pc \in ConPid, ~Anunciado'
               PROVE  ElMasCorto(srt.pid)'
    OBVIOUS
  <2>1. srt.pc \in ConPid
    OBVIOUS
  <2>2. ElMasCorto(srt.pid)
    BY <2>1 DEF InvCorto
  <2>3. PICK p \in Pids : p = srt.pid /\ Esta(ready, p)
    BY <2>1, Estimados
  <2> QED
    BY <1>4, <2>2, <2>3 DEF ElMasCorto
<1>9. srt'.pc \in ConCPU => Anunciado' \/ MasLargo(srt.pid)'
  <2> SUFFICES ASSUME srt'.pc \in ConCPU, ~Anunciado'
               PROVE  MasLargo(srt.pid)'
    OBVIOUS
  <2>1. srt.pc \in ConCPU /\ srt.pc \in ConPid
    BY DEF ConPid
  <2>2. MasLargo(srt.pid) /\ srt.exec \in Pids
    BY <1>5, <2>1 DEF InvCorto
  <2>3. PICK p \in Pids : p = srt.pid /\ Esta(ready, p)
    BY <2>1, Estimados
  <2> QED
    BY <1>4, <2>2, <2>3 DEF MasLargo
<1> QED
  BY <1>2, <1>6, <1>7, <1>8, <1>9 DEF InvCorto

\* A step that announces something.
LEMMA CortoAvisado ==
  ASSUME InvFormas, InvPuntual, InvCorto, Anunciado',
         \A q : Esta(execute', q) => Esta(execute, q),
         \A q \in Pids : Esta(execute', q) => restante'[q] = restante[q] /\ mapa'[q].est = mapa[q].est
  PROVE  InvCorto'
BY DEF InvCorto

\* A step that none of it is about.
LEMMA CortoIgual ==
  ASSUME InvFormas, InvPuntual, InvCorto, UNCHANGED <<kernelVars, aviso, porAvisar, srt>>
  PROVE  InvCorto'
<1>1. restante \in [Pids -> Nat]
  BY DEF InvFormas, FormaColas
<1>2. /\ UNCHANGED <<mapa, ready, execute, restante, srt>> /\ (Anunciado => Anunciado')
  BY DEF kernelVars, Anunciado
<1>3. \A q \in Pids : restante'[q] <= restante[q]
  BY <1>1, <1>2
<1> QED
  BY <1>1, <1>2, <1>3, CortoSigue

LEMMA EntornoCorto ==
  ASSUME InvFormas, InvPuntual, InvCorto,
         \/ \E p \in Pids : PasoEntorno(p) \/ PasarTiempo(p)
         \/ Avisar \/ UNCHANGED vars
  PROVE  InvCorto'
<1>1. restante \in [Pids -> Nat] /\ porAvisar \in Nat
  BY DEF InvFormas, FormaColas, InvAviso, TiposAviso, TiposColas
<1>2. ASSUME NEW p \in Pids, mapa[p] # NADA, mapa' = [mapa EXCEPT ![p].estado = "READY"],
             porAvisar' = porAvisar + 1, UNCHANGED <<execute, restante>>
      PROVE  InvCorto'
  <2>1. \A q \in Pids : mapa'[q].est = mapa[q].est
    <3>1. /\ mapa'[p] = [estado |-> "READY", PC |-> mapa[p].PC, est |-> mapa[p].est]
          /\ \A q \in Pids : q # p => mapa'[q] = mapa[q]
      BY <1>2, OtroEstado DEF Estados
    <3> QED
      BY <3>1
  <2>2. Anunciado'
    BY <1>1, <1>2 DEF Anunciado
  <2> QED
    BY <1>2, <2>1, <2>2, CortoAvisado
<1>3. ASSUME NEW p \in Pids, PasoEntorno(p) PROVE InvCorto'
  <2>1. CASE Llegar(p)
    BY <1>2, <2>1 DEF Llegar
  <2>2. CASE FinIO(p) /\ mapa[p] # NADA /\ mapa[p].estado = "BLOCKED"
    BY <1>2, <2>2 DEF FinIO
  <2>3. CASE FinIO(p) /\ ~(mapa[p] # NADA /\ mapa[p].estado = "BLOCKED")
    BY <2>3, CortoIgual DEF FinIO, kernelVars
  <2> QED
    BY <1>3, <2>1, <2>2, <2>3 DEF PasoEntorno
<1>4. ASSUME NEW p \in Pids, PasarTiempo(p) PROVE InvCorto'
  <2>1. /\ restante[p] > 0 /\ restante' = [restante EXCEPT ![p] = @ - 1]
        /\ UNCHANGED <<mapa, ready, execute, aviso, porAvisar, srt>>
    BY <1>4 DEF PasarTiempo
  <2>2. restante' \in [Pids -> Nat] /\ \A q \in Pids : restante'[q] <= restante[q]
    BY <1>1, <2>1
  <2>3. Anunciado => Anunciado'
    BY <2>1 DEF Anunciado
  <2> QED
    BY <2>1, <2>2, <2>3, CortoSigue
<1>5. CASE Avisar
  <2>1. Anunciado' /\ UNCHANGED <<mapa, execute, restante>>
    BY <1>5 DEF Avisar, Anunciado, kernelVars
  <2> QED
    BY <2>1, CortoAvisado
<1>6. CASE UNCHANGED vars
  BY <1>6, CortoIgual DEF vars
<1> QED
  BY <1>3, <1>4, <1>5, <1>6

LEMMA CPUCorta ==
  ASSUME InvFormas, InvPuntual, InvCorto, NEW c \in ListaCPUs, PasoCPU(c) PROVE InvCorto'
<1>1. UNCHANGED <<kernelVars, aviso, porAvisar, srt>>
  BY DEF PasoCPU, Tomar, Ejecutar, Controlar, Ceder, Responder
<1> QED
  BY <1>1, CortoIgual

\* A process leaves EXECUTE, and nobody else is concerned.
LEMMA SaleDeExecute ==
  ASSUME InvFormas, InvPuntual, InvCorto, NEW p \in Pids, ~Esta(ready, p), SalirDeExecute(p),
         \A q \in Pids : q # p => mapa'[q] = mapa[q],
         UNCHANGED <<ready, aviso, porAvisar, srt>>
  PROVE  InvCorto'
<1>1. /\ restante' \in [Pids -> Nat] /\ restante \in [Pids -> Nat]
      /\ \A q : Esta(execute', q) <=> Esta(execute, q) /\ q # p
  BY EfectoSalir DEF InvFormas, FormaColas
<1>2. restante' = [restante EXCEPT ![p] = 0]
  BY DEF SalirDeExecute
<1>3. \A q \in Pids : q # p => restante'[q] <= restante[q]
  BY <1>1, <1>2
<1>4. Anunciado => Anunciado'
  BY DEF Anunciado
<1> QED
  BY <1>1, <1>3, <1>4, CortoSigue

LEMMA BloquearCorto ==
  ASSUME InvFormas, InvPuntual, InvCorto, NEW p \in Pids, NEW n \in Nat, Bloquear(p, n),
         ~Esta(ready, p), UNCHANGED <<ready, aviso, porAvisar, srt>>
  PROVE  InvCorto'
BY BloquearMapa, SaleDeExecute

LEMMA ManejadorCorto ==
  ASSUME InvFormas, Puntual, InvPuntual, InvCorto, NEW h \in manejadores, PasoManejador(h)
  PROVE  InvCorto'
<1>1. h.pid \in Pids /\ h.PC \in Nat /\ ManejadorEnOrden(h)
  BY Formas DEF InvPuntual, ManejadoresEnOrden, EsManejador
<1>2. PICK p \in Pids : p = h.pid
  BY <1>1
<1>3. h.pc = "entra" =>
        /\ Esta(execute, p) /\ ~Esta(ready, p) /\ EnExecute(p) /\ mapa[p] # NADA /\ mapa[p].PC \in Nat
  BY <1>2, AlEntrar DEF EnExecute, Estado
<1>4. porAvisar \in Nat
  BY DEF InvFormas, InvAviso, TiposAviso, TiposColas
<1>5. CASE AtenderIO(h)
  <2>1. Bloquear(p, h.PC) /\ UNCHANGED <<ready, aviso, porAvisar, srt>>
    BY <1>2, <1>3, <1>5 DEF AtenderIO
  <2> QED
    BY <1>1, <1>3, <1>5, <2>1, BloquearCorto DEF AtenderIO
<1>6. CASE AtenderDump(h)
  <2>1. Bloquear(p, mapa[p].PC) /\ UNCHANGED <<ready, aviso, porAvisar, srt>>
    BY <1>2, <1>3, <1>6 DEF AtenderDump
  <2> QED
    BY <1>3, <1>6, <2>1, BloquearCorto DEF AtenderDump
<1>7. CASE TerminarDump(h)
  <2>1. mapa[p] # NADA /\ mapa[p].estado = "BLOCKED"
    BY <1>1, <1>2, <1>7 DEF TerminarDump, ManejadorEnOrden, Estado
  <2>2. /\ mapa' = [mapa EXCEPT ![p].estado = "READY", ![p].PC = h.PC]
        /\ porAvisar' = porAvisar + 1 /\ UNCHANGED <<execute, restante>>
    BY <1>2, <1>7, <2>1 DEF TerminarDump
  <2>3. /\ mapa'[p] = [estado |-> "READY", PC |-> h.PC, est |-> mapa[p].est]
        /\ \A q \in Pids : q # p => mapa'[q] = mapa[q]
    BY <1>1, <2>1, <2>2, OtroEstadoYPC DEF Estados
  <2>4. \A q \in Pids : mapa'[q].est = mapa[q].est
    BY <2>3
  <2>5. Anunciado' /\ UNCHANGED <<execute, restante>>
    BY <1>4, <2>2 DEF Anunciado
  <2> QED
    BY <2>4, <2>5, CortoAvisado
<1>8. CASE AtenderInit(h)
  BY <1>1, <1>8 DEF AtenderInit, ManejadorEnOrden
<1>9. CASE FinEnCola(h)
  <2>1. SalirDeExecute(p) /\ UNCHANGED <<mapa, ready, aviso, porAvisar, srt>> /\ ~Esta(ready, p)
    BY <1>2, <1>3, <1>9 DEF FinEnCola
  <2> QED
    BY <2>1, SaleDeExecute
<1>10. CASE FinEnMapa(h)
  <2>1. ~Esta(execute, p) /\ ~Esta(ready, p) /\ mapa[p] # NADA
    BY <1>1, <1>2, <1>10 DEF FinEnMapa, ManejadorEnOrden, Estado
  <2>2. /\ mapa' = [mapa EXCEPT ![p] = NADA]
        /\ UNCHANGED <<ready, execute, restante, aviso, porAvisar, srt>>
    BY <1>2, <1>10, <2>1 DEF FinEnMapa
  <2>3. \A q \in Pids : q # p => mapa'[q] = mapa[q]
    BY <2>2, Formas
  <2>4. /\ restante \in [Pids -> Nat] /\ UNCHANGED <<ready, execute, restante, srt>>
        /\ (Anunciado => Anunciado')
    BY <2>2 DEF InvFormas, FormaColas, Anunciado
  <2>5. \A q \in Pids : restante'[q] <= restante[q]
    BY <2>4
  <2> QED
    BY <2>1, <2>3, <2>4, <2>5, CortoSigue
<1>11. CASE Liberar(h)
  <2>1. Anunciado' /\ UNCHANGED <<mapa, execute, restante>>
    BY <1>4, <1>11 DEF Liberar, Anunciado, kernelVars
  <2> QED
    BY <2>1, CortoAvisado
<1> QED
  BY <1>5, <1>6, <1>7, <1>8, <1>9, <1>10, <1>11 DEF PasoManejador

\* READY in order begins with the shortest.
LEMMA PrimeroEsElMasCorto ==
  ASSUME InvFormas, ready # <<>>, NEW s \in Ordenes
  PROVE  /\ s[1] \in Pids /\ Esta(ready, s[1]) /\ s \in Seq(Pids) /\ s # <<>>
         /\ \A q : Esta(s, q) <=> Esta(ready, q)
         /\ \A q \in Pids : Esta(ready, q) /\ mapa[q].est \in Nat => mapa[s[1]].est <= mapa[q].est
<1>1. /\ s \in Seq(Pids) /\ Len(s) = Len(ready) /\ ready \in Seq(Pids)
      /\ \A q : Esta(s, q) <=> Esta(ready, q)
      /\ s # <<>> /\ s[1] \in Pids /\ Esta(ready, s[1])
  BY Formas, OrdenMismos
<1>2. \A i, j \in DOMAIN ready : i < j => mapa[s[i]].est <= mapa[s[j]].est
  BY DEF Ordenes, Ordenadas
<1>3. ASSUME NEW q \in Pids, Esta(ready, q), mapa[q].est \in Nat PROVE mapa[s[1]].est <= mapa[q].est
  <2>1. PICK i \in DOMAIN s : s[i] = q
    BY <1>1, <1>3 DEF Esta
  <2>2. 1 \in DOMAIN ready /\ i \in DOMAIN ready /\ (i = 1 \/ 1 < i)
    BY <1>1, <2>1
  <2>3. CASE i = 1
    BY <1>3, <2>1, <2>3
  <2>4. CASE 1 < i
    BY <1>2, <2>1, <2>2, <2>4
  <2> QED
    BY <2>2, <2>3, <2>4
<1> QED
  BY <1>1, <1>3

\* What is true of the queues where no process has been chosen.
LEMMA SinElegido ==
  ASSUME InvFormas, InvPuntual, InvCorto, UNCHANGED <<mapa, execute, restante>>,
         srt'.pc \in {"mira", "mira_otra", "elige", "compara"}
  PROVE  InvCorto'
BY DEF InvCorto, ConPid, ConCPU

LEMMA MirarCorto ==
  ASSUME InvFormas, InvPuntual, InvCorto, UnaCPU, Despertar \/ Mirar \/ MirarOtra
  PROVE  InvCorto'
<1>1. srt \in Rondas /\ UNCHANGED <<mapa, ready, execute, restante>>
  BY Formas DEF Despertar, Mirar, MirarOtra, kernelVars
<1>2. CASE srt'.pc \in {"mira", "mira_otra", "elige", "compara"}
  BY <1>1, <1>2, SinElegido
<1>3. CASE MirarOtra /\ srt'.pc = "espera"
  <2>1. ~(ready # <<>> /\ ~HayLibre)
    <3>1. ready # <<>> /\ ~HayLibre => SigueEn("compara")
      BY <1>3 DEF MirarOtra
    <3> QED
      BY <1>1, <1>3, <3>1, EfectoSigueEn
  <2>2. \A p, q \in Pids : ~(Esta(ready, p) /\ Esta(execute, q))
    BY <2>1, UnoEnExecute DEF Esta
  <2> QED
    BY <1>1, <1>3, <2>2 DEF InvCorto, EjecutaElMasCorto, ConPid, ConCPU
<1>4. srt'.pc \in {"mira", "mira_otra", "elige", "compara"} \/ (MirarOtra /\ srt'.pc = "espera")
  <2>1. CASE Despertar
    BY <1>1, <2>1, EfectoSigueEn DEF Despertar
  <2>2. CASE Mirar
    <3>1. SigueEn("elige") \/ SigueEn("mira_otra")
      BY <2>2 DEF Mirar
    <3> QED
      BY <1>1, <3>1, EfectoSigueEn
  <2>3. CASE MirarOtra
    <3>1. SigueEn("compara") \/ SigueEn("espera")
      BY <2>3 DEF MirarOtra
    <3> QED
      BY <1>1, <2>3, <3>1, EfectoSigueEn
  <2> QED
    BY <2>1, <2>2, <2>3
<1> QED
  BY <1>2, <1>3, <1>4

LEMMA ElegirCorto ==
  ASSUME InvFormas, Puntual, InvPuntual, InvCorto, PasoSRT, Elegir
  PROVE  InvCorto'
<1>1. ready # <<>> /\ srt \in Rondas
  BY Formas DEF Elegir, InvFormas, InvAviso, RondaConTrabajo, ConReady
<1>a. ~Faltan(ready)
  BY EnLaRonda
<1>2. PICK s \in Ordenes :
        /\ ready' = s
        /\ srt' = [srt EXCEPT !.pc = "envia", !.cpu = PrimeraLibre, !.pid = s[1], !.PC = mapa[s[1]].PC]
  BY <1>a DEF Elegir, PrimeraLibre
<1>b. UNCHANGED <<mapa, execute, restante>>
  BY <1>a DEF Elegir
<1>3. srt'.pc = "envia" /\ srt'.pid = s[1]
  BY <1>1, <1>2 DEF Rondas
<1>4. UNCHANGED <<mapa, execute, restante>> /\ ready' = s
  BY <1>2, <1>b
<1>5. \A q \in Pids : Esta(ready, q) => mapa[s[1]].est <= mapa[q].est
  BY <1>1, <1>2, PrimeroEsElMasCorto, Estimados
<1>6. \A q \in Pids : Esta(ready', q) => mapa'[srt'.pid].est <= mapa'[q].est
  BY <1>1, <1>2, <1>3, <1>4, <1>5, PrimeroEsElMasCorto
<1> QED
  BY <1>3, <1>4, <1>6 DEF InvCorto, ElMasCorto, ConPid, ConCPU

LEMMA EnviarCorto ==
  ASSUME InvFormas, InvPuntual, InvCorto, Enviar
  PROVE  InvCorto'
<1>1. /\ srt.pc = "envia" /\ SigueEn("a_execute") /\ srt \in Rondas
      /\ UNCHANGED <<mapa, ready, execute, restante>> /\ (Anunciado => Anunciado')
  BY Formas DEF Enviar, kernelVars, Anunciado
<1>2. srt'.pc = "a_execute" /\ srt'.pid = srt.pid /\ srt'.exec = srt.exec
  BY <1>1, EfectoSigueEn
<1>3. restante \in [Pids -> Nat] /\ \A q \in Pids : restante'[q] <= restante[q]
  BY <1>1, Estimados
<1> QED
  BY <1>1, <1>2, <1>3, CortoSigue DEF ConPid, ConCPU

LEMMA ReadyAExecuteCorto ==
  ASSUME InvFormas, InvPuntual, InvCorto, UnaCPU, ReadyAExecute
  PROVE  InvCorto'
<1>1. srt.pc = "a_execute" /\ srt.cpu \in ListaCPUs /\ srt.pid \in Pids /\ srt.pc \in ConPid
  BY Formas DEF ReadyAExecute, ConPid
<1>2. PICK c \in ListaCPUs, p \in Pids : c = srt.cpu /\ p = srt.pid
  BY <1>1
<1>3. ~libre[c] /\ pidActual[c] = p /\ Esta(ready, p) /\ mapa[p] # NADA /\ mapa[p].est \in Nat
  BY <1>1, <1>2, Estimados DEF InvPuntual, RondaEnOrden, ConPid
<1>4. \A q \in Pids : Esta(execute, q) => q = p
  BY <1>2, <1>3, UnoEnExecute DEF InvPuntual, ColasEnOrden, EjecutaEnOrden, EnCPU
<1>5. /\ ready' = Quitar(ready, p) /\ execute' = Agregar(execute, p)
      /\ mapa' = [mapa EXCEPT ![p].estado = "EXECUTE"] /\ srt' = SrtEsperando
      /\ restante' = [restante EXCEPT ![p] = mapa[p].est] /\ UNCHANGED <<aviso, porAvisar>>
  BY <1>2, <1>3 DEF ReadyAExecute
<1>6. /\ \A q : Esta(ready', q) <=> Esta(ready, q) /\ q # p
      /\ \A q : Esta(execute', q) <=> Esta(execute, q) \/ q = p
  BY <1>5, Formas, QuitarExacto, AgregarExacto
<1>7. srt'.pc = "espera" /\ restante'[p] = mapa[p].est /\ (Anunciado => Anunciado')
  BY <1>5, EsperandoForma, Estimados DEF Anunciado
<1>8. /\ mapa'[p] = [estado |-> "EXECUTE", PC |-> mapa[p].PC, est |-> mapa[p].est]
      /\ \A q \in Pids : q # p => mapa'[q] = mapa[q]
  BY <1>3, <1>5, OtroEstado DEF Estados
<1>9. \A q \in Pids : mapa'[q].est = mapa[q].est
  BY <1>8
<1>10. \A q \in Pids : Esta(execute', q) => q = p
  BY <1>4, <1>6
<1>11. Anunciado \/ ElMasCorto(p)
  BY <1>1, <1>2 DEF InvCorto
<1>12. Anunciado' \/ EjecutaElMasCorto'
  BY <1>6, <1>7, <1>9, <1>10, <1>11 DEF ElMasCorto, EjecutaElMasCorto
<1>13. \A q \in Pids : Esta(execute', q) => restante'[q] <= mapa'[q].est
  BY <1>3, <1>7, <1>9, <1>10
<1> QED
  BY <1>7, <1>12, <1>13 DEF InvCorto, ConPid, ConCPU

LEMMA CompararCorto ==
  ASSUME InvFormas, Puntual, InvPuntual, InvCorto, UnaCPU, PasoSRT, Comparar
  PROVE  InvCorto'
<1>1. ready # <<>> /\ srt \in Rondas /\ execute \in Seq(Pids) /\ restante \in [Pids -> Nat]
  BY Formas, Estimados DEF Comparar, InvFormas, InvAviso, RondaConTrabajo, ConReady
<1>2. ~panico'
  BY CompararPuntual DEF InvPuntual
<1>3. execute # <<>>
  BY <1>2 DEF Comparar, Panico
<1>4. PICK e \in Pids : e = DeMenorRestante /\ Esta(execute, e)
  BY <1>1, <1>3, MenorRestanteExiste
<1>5. PICK s \in Ordenes :
        /\ ready' = s
        /\ srt' = IF mapa[s[1]].est < restante[e] THEN [srt EXCEPT !.pc = "busca", !.exec = e]
                  ELSE SrtEsperando
  BY <1>3, <1>4, EnLaRonda DEF Comparar
<1>6. UNCHANGED <<mapa, execute, restante>>
  BY <1>3, EnLaRonda DEF Comparar
<1>7. PICK r \in Pids :
        /\ r = s[1] /\ Esta(ready, r) /\ mapa[r].est \in Nat
        /\ \A q \in Pids : Esta(ready, q) => mapa[r].est <= mapa[q].est
  BY <1>1, <1>5, PrimeroEsElMasCorto, Estimados
<1>8. \A q : Esta(ready', q) <=> Esta(ready, q)
  BY <1>1, <1>5, PrimeroEsElMasCorto
<1>9. \A q \in Pids : Esta(execute', q) <=> q = e
  BY <1>4, <1>6, UnoEnExecute
<1>10. mapa[e].est \in Nat /\ restante[e] \in Nat /\ restante[e] <= mapa[e].est
  BY <1>1, <1>4, Estimados DEF InvCorto
<1>11. CASE mapa[r].est < restante[e]
  <2>1. srt'.pc = "busca" /\ srt'.exec = e
    BY <1>1, <1>5, <1>7, <1>11 DEF Rondas
  <2>2. ready'[1] = r
    BY <1>5, <1>7
  <2>3. ElMasCorto(ready[1])'
    BY <1>6, <1>7, <1>8, <2>2 DEF ElMasCorto
  <2>4. MasLargo(ready[1])'
    BY <1>6, <1>7, <1>10, <1>11, <2>1, <2>2 DEF MasLargo
  <2> QED
    BY <1>6, <2>1, <2>3, <2>4 DEF InvCorto, ConPid, ConCPU
<1>12. CASE ~(mapa[r].est < restante[e])
  <2>1. srt'.pc = "espera"
    BY <1>5, <1>7, <1>12, EsperandoForma
  <2>2. \A p \in Pids : Esta(ready, p) => restante[e] <= mapa[p].est
    BY <1>7, <1>10, <1>12, Estimados
  <2>3. EjecutaElMasCorto'
    BY <1>6, <1>8, <1>9, <2>2 DEF EjecutaElMasCorto
  <2> QED
    BY <1>6, <2>1, <2>3 DEF InvCorto, ConPid, ConCPU
<1> QED
  BY <1>11, <1>12

LEMMA BuscarCorto ==
  ASSUME InvFormas, Puntual, InvPuntual, InvCorto, PasoSRT, Buscar
  PROVE  InvCorto'
<1>1. /\ srt.pc = "busca" /\ srt \in Rondas /\ UNCHANGED <<mapa, ready, execute, restante>>
      /\ (Anunciado => Anunciado')
  BY Formas DEF Buscar, kernelVars, Anunciado
<1>2. PICK e \in Pids, r \in Pids : e = srt.exec /\ r = ready[1] /\ Esta(ready, r)
  BY <1>1, Formas, Estimados DEF ConExec
<1>3. \E c \in ListaCPUs : ~libre[c] /\ pidActual[c] = e
  BY <1>1, <1>2 DEF InvPuntual, RondaEnOrden, ColasEnOrden, EjecutaEnOrden, EnCPU
<1>4. mapa[r] # NADA
  BY <1>2, Estimados
<1>5. PICK c : srt' = [srt EXCEPT !.pc = "mira_exec", !.cpu = c, !.pid = r, !.PC = mapa[r].PC]
  BY <1>2, <1>3, <1>4 DEF Buscar
<1>6. srt'.pc = "mira_exec" /\ srt'.pid = r /\ srt'.exec = e
  BY <1>1, <1>2, <1>5 DEF Rondas
<1>7. Anunciado \/ (ElMasCorto(r) /\ (Esta(execute, e) => mapa[r].est <= mapa[e].est))
  BY <1>1, <1>2 DEF InvCorto, MasLargo
<1>8. Anunciado' \/ (ElMasCorto(srt.pid)' /\ MasLargo(srt.pid)')
  BY <1>1, <1>6, <1>7 DEF ElMasCorto, MasLargo
<1> QED
  BY <1>1, <1>6, <1>8 DEF InvCorto, ConPid, ConCPU

\* The planner goes on with the same choice.
LEMMA EleccionSigue ==
  ASSUME InvFormas, InvPuntual, InvCorto, srt.pc \in ConCPU,
         NEW pc \in ConPid, SigueEn(pc) \/ srt' = [srt EXCEPT !.pc = pc],
         UNCHANGED <<ready, execute, restante, aviso, porAvisar>>,
         \A q \in Pids : Esta(ready, q) \/ Esta(execute, q) => mapa'[q].est = mapa[q].est
  PROVE  InvCorto'
<1>1. srt'.pc = pc /\ srt'.pid = srt.pid /\ srt'.exec = srt.exec
  BY Formas DEF SigueEn, Rondas
<1>2. restante \in [Pids -> Nat] /\ (Anunciado => Anunciado')
  BY Estimados DEF Anunciado
<1>3. \A q \in Pids : restante'[q] <= restante[q]
  BY <1>2
<1> QED
  BY <1>1, <1>2, <1>3, CortoSigue DEF ConPid

LEMMA InterrumpirCorto ==
  ASSUME InvFormas, InvPuntual, InvCorto, MirarExec \/ Interrumpir
  PROVE  InvCorto'
<1>1. srt.pc \in ConCPU /\ UNCHANGED <<mapa, ready, execute, restante, aviso, porAvisar>>
  BY DEF MirarExec, Interrumpir, kernelVars, ConCPU
<1>2. SigueEn("interrumpe") \/ SigueEn("envia") \/ SigueEn("respuesta")
  BY DEF MirarExec, Interrumpir
<1> QED
  BY <1>1, <1>2, EleccionSigue DEF ConPid, ConCPU

LEMMA RecibirCorto ==
  ASSUME InvFormas, InvPuntual, InvCorto, UnaCPU, Recibir
  PROVE  InvCorto'
<1>1. /\ srt.pc = "respuesta" /\ srt.pc \in ConCPU
      /\ UNCHANGED <<mapa, ready, execute, restante, aviso, porAvisar>>
  BY DEF Recibir, kernelVars, ConCPU
<1>2. CASE EnExecute(srt.exec)
  <2>1. srt' = [srt EXCEPT !.pc = "actualiza"]
    BY <1>2 DEF Recibir
  <2> QED
    BY <1>1, <2>1, EleccionSigue DEF ConPid, ConCPU
<1>3. CASE ~EnExecute(srt.exec)
  <2>1. srt'.pc = "espera"
    BY <1>3, EsperandoForma DEF Recibir
  <2>2. PICK c \in ListaCPUs : c = srt.cpu /\ pidActual[c] = srt.exec
    BY <1>1, Formas DEF ConPid, InvPuntual, RespuestaEnOrden
  <2>3. \A q \in Pids : ~Esta(execute, q)
    BY <1>3, <2>2, UnoEnExecute
       DEF InvPuntual, ColasEnOrden, EjecutaEnOrden, EnCPU, Estado, EnExecute
  <2> QED
    BY <1>1, <2>1, <2>3 DEF InvCorto, EjecutaElMasCorto, ConPid, ConCPU
<1> QED
  BY <1>2, <1>3

LEMMA ActualizarCorto ==
  ASSUME InvFormas, Puntual, InvPuntual, InvCorto, PasoSRT, Actualizar \/ DesalojarEstado
  PROVE  InvCorto'
<1>1. srt.pc \in ConCPU /\ srt.exec \in Pids
  BY Formas DEF Actualizar, DesalojarEstado, ConCPU, ConExec
<1>2. PICK e \in Pids : e = srt.exec
  BY <1>1
<1>3. CASE Actualizar
  <2>1. ~panico' /\ ~panico
    BY <1>3, ActualizarPuntual DEF InvPuntual
  <2>2. /\ mapa[e] # NADA /\ cpu[srt.cpu].resp # NINGUNO
        /\ mapa' = [mapa EXCEPT ![e].PC = cpu[srt.cpu].resp] /\ SigueEn("desaloja")
        /\ UNCHANGED <<ready, execute, restante, aviso, porAvisar>>
    BY <1>2, <1>3, <2>1 DEF Actualizar, Panico
  <2>3. cpu[srt.cpu].resp \in Nat
    BY <1>1, <2>2, Formas DEF ConPid, Maquinas
  <2>4. /\ mapa'[e] = [estado |-> mapa[e].estado, PC |-> cpu[srt.cpu].resp, est |-> mapa[e].est]
        /\ \A q \in Pids : q # e => mapa'[q] = mapa[q]
    BY <2>2, <2>3, OtroPC
  <2>5. \A q \in Pids : mapa'[q].est = mapa[q].est
    BY <2>4
  <2>6. SigueEn("desaloja") /\ UNCHANGED <<ready, execute, restante, aviso, porAvisar>>
    BY <2>2
  <2> QED
    BY <1>1, <2>5, <2>6, EleccionSigue DEF ConPid, ConCPU
<1>4. CASE DesalojarEstado
  <2>1. ~panico' /\ ~panico
    BY <1>4, DesalojarEstadoPuntual DEF InvPuntual
  <2>2. /\ mapa[e] # NADA
        /\ mapa' = [mapa EXCEPT ![e].estado = "READY"] /\ SigueEn("envia")
        /\ UNCHANGED <<ready, execute, restante, aviso, porAvisar>>
    BY <1>2, <1>4, <2>1 DEF DesalojarEstado, Panico
  <2>4. /\ mapa'[e] = [estado |-> "READY", PC |-> mapa[e].PC, est |-> mapa[e].est]
        /\ \A q \in Pids : q # e => mapa'[q] = mapa[q]
    BY <2>2, OtroEstado DEF Estados
  <2>5. \A q \in Pids : mapa'[q].est = mapa[q].est
    BY <2>4
  <2>6. SigueEn("envia") /\ UNCHANGED <<ready, execute, restante, aviso, porAvisar>>
    BY <2>2
  <2> QED
    BY <1>1, <2>5, <2>6, EleccionSigue DEF ConPid, ConCPU
<1> QED
  BY <1>3, <1>4

\* The process that goes back to READY was not the shorter of the two.
LEMMA DesalojarCorto ==
  ASSUME InvFormas, InvPuntual, InvCorto, Desalojar
  PROVE  InvCorto'
<1>1. /\ srt.pc = "desaloja" /\ srt.pc \in ConCPU /\ srt.pc \in ConPid /\ srt \in Rondas
      /\ srt.exec \in Pids /\ Esta(execute, srt.exec) /\ srt.pid \in Pids
  BY Formas DEF Desalojar, ConPid, ConCPU, ConExec, InvPuntual, RondaEnOrden
<1>2. PICK e \in Pids, p \in Pids : e = srt.exec /\ p = srt.pid
  BY <1>1
<1>3. /\ SalirDeExecute(e) /\ ready' = Agregar(ready, e) /\ SigueEn("desaloja_estado")
      /\ UNCHANGED <<mapa, aviso, porAvisar>>
  BY <1>1, <1>2 DEF Desalojar
<1>4. srt'.pc = "desaloja_estado" /\ srt'.pid = p /\ srt'.exec = e
  BY <1>1, <1>2, <1>3, EfectoSigueEn
<1>5. /\ \A q : Esta(ready', q) <=> Esta(ready, q) \/ q = e
      /\ \A q : Esta(execute', q) <=> Esta(execute, q) /\ q # e
  BY <1>3, ReadyCrece, EfectoSalir
<1>6. \A q \in Pids : q # e => restante'[q] = restante[q]
  BY <1>3, Estimados DEF SalirDeExecute
<1>7. Anunciado \/ (ElMasCorto(p) /\ mapa[p].est <= mapa[e].est)
  BY <1>1, <1>2 DEF InvCorto, MasLargo
<1>8. Anunciado' \/ ElMasCorto(srt.pid)'
  BY <1>3, <1>4, <1>5, <1>7 DEF ElMasCorto, Anunciado
<1>9. MasLargo(srt.pid)'
  BY <1>4, <1>5 DEF MasLargo
<1>10. \A q \in Pids : Esta(execute', q) => restante'[q] <= mapa'[q].est
  BY <1>3, <1>5, <1>6 DEF InvCorto
<1> QED
  BY <1>4, <1>8, <1>9, <1>10 DEF InvCorto

LEMMA PasoCorto ==
  ASSUME InvFormas, Puntual => InvPuntual, UnaCPU /\ Puntual => InvCorto, [Next]_vars
  PROVE  (UnaCPU /\ Puntual => InvCorto)'
<1>1. (UnaCPU /\ Puntual)' => UnaCPU /\ Puntual
  BY MismasCPUs DEF Puntual, UnaCPU
<1>2. SUFFICES ASSUME UnaCPU, Puntual, InvPuntual, InvCorto PROVE InvCorto'
  BY <1>1
<1>3. CASE PasoSRT
  BY <1>2, <1>3, MirarCorto, ElegirCorto, EnviarCorto, ReadyAExecuteCorto, CompararCorto,
     BuscarCorto, InterrumpirCorto, RecibirCorto, ActualizarCorto, DesalojarCorto DEF PasoSRT
<1>4. ASSUME NEW h \in manejadores, PasoManejador(h) PROVE InvCorto'
  BY <1>2, <1>4, ManejadorCorto
<1>5. ASSUME NEW c \in ListaCPUs, PasoCPU(c) PROVE InvCorto'
  BY <1>2, <1>5, CPUCorta
<1>6. ASSUME \/ \E p \in Pids : PasoEntorno(p) \/ PasarTiempo(p)
             \/ Avisar \/ UNCHANGED vars
      PROVE  InvCorto'
  BY <1>2, <1>6, EntornoCorto
<1> QED
  BY <1>3, <1>4, <1>5, <1>6 DEF Next

\* NadieMasCorto, for any programs, estimates and measured times: with one CPU,
\* a planner that is Puntual and has nothing left to hear has the shortest process
\* in EXECUTE, whatever came to READY during the rounds before.
THEOREM NadieMasCortoSiempre == Spec => []NadieMasCorto
<1>1. Init => (UnaCPU /\ Puntual => InvCorto)
  <2> SUFFICES ASSUME Init PROVE InvCorto
    OBVIOUS
  <2>1. execute = <<>> /\ srt.pc = "espera"
    BY EsperandoForma DEF Init
  <2>2. \A q : ~Esta(execute, q)
    BY <2>1 DEF Esta
  <2> QED
    BY <2>1, <2>2 DEF InvCorto, EjecutaElMasCorto, ConPid, ConCPU
<1>2. /\ InvFormas /\ (Puntual => InvPuntual) /\ (UnaCPU /\ Puntual => InvCorto) /\ [Next]_vars
      => (UnaCPU /\ Puntual => InvCorto)'
  BY PasoCorto
<1>3. InvFormas /\ (Puntual => InvPuntual) /\ (UnaCPU /\ Puntual => InvCorto) => NadieMasCorto
  <2> SUFFICES ASSUME InvFormas, Puntual, InvPuntual, InvCorto, srt.pc = "espera",
                      aviso = 0, porAvisar = 0,
                      NEW p \in ToSet(ready), NEW q \in ToSet(execute)
               PROVE  mapa[p].est >= restante[q]
    BY DEF NadieMasCorto
  <2>1. p \in Pids /\ q \in Pids /\ Esta(ready, p) /\ Esta(execute, q)
    BY Formas DEF ToSet, Esta
  <2>2. restante[q] <= mapa[p].est
    BY <2>1 DEF InvCorto, EjecutaElMasCorto, Anunciado
  <2> QED
    BY <2>1, <2>2, Estimados
<1> QED
  BY <1>1, <1>2, <1>3, FormasSiempre, PuntualSiempre, PTL DEF Spec
=============================================================================
