--------------------------- MODULE PropiedadesSRT ---------------------------
(***************************************************************************)
(* What SRT promises, and in which regime.                                 *)
(***************************************************************************)
EXTENDS PlanificadorSRT

UnaCPU == Len(regimen.cpus) = 1

\* The regime of what follows: the kernel does not fall behind, there is a CPU
\* before there is a process, and no program has INIT_PROC, whose handler sends
\* its process back to a CPU that may be taking another instead of it.
Puntual ==
  /\ ~regimen.pausas /\ regimen.cpus # <<>>
  /\ \A p \in DOMAIN regimen.programa : ~Esta(regimen.programa[p], "INIT")

\* Every variable keeps its type; the channel of the planner has one place.
TiposSRT ==
  /\ mapa \in [Pids -> [estado : {"NEW", "READY", "EXECUTE", "BLOCKED"}, PC : Nat,
                        est : Estimaciones] \cup {NADA}]
  /\ ready \in Seq(Pids) /\ execute \in Seq(Pids)
  /\ IsInjective(ready) /\ IsInjective(execute)
  /\ aviso \in 0 .. 1 /\ porAvisar \in Nat
  /\ srt.pid \in Pids \cup {NADA} /\ srt.exec \in Pids \cup {NADA}
  /\ \A h \in manejadores : h.pid \in Pids /\ h.cpu \in ListaCPUs

\* With one CPU no notification is missed although they are merged into one
\* (NotificarReplanifSRT): a planner that waits with a process in READY and the
\* CPU free has one to hear, whatever happened while it was busy.
AvisoPendiente ==
  UnaCPU /\ ~panico /\ srt.pc = "espera" /\ ready # <<>> /\ HayLibre =>
    aviso > 0 \/ porAvisar > 0

\* With one CPU, and a kernel that is Puntual, once the planner has nothing
\* left to hear, no process in READY is shorter than what is left of the
\* one in EXECUTE: neither the stale head of READY nor an interruption that came
\* too late leaves the wrong one there.
NadieMasCorto ==
  /\ UnaCPU /\ Puntual
  /\ srt.pc = "espera" /\ aviso = 0 /\ porAvisar = 0 /\ manejadores = {}
  => \A p \in ToSet(ready), q \in ToSet(execute) : mapa[p].est >= restante[q]

\* Where a process stands in its program, for the CPUs that have it.
Tramos(p) ==
  {<<c, "loop", cpu[c].PC>> : c \in {c \in ListaCPUs : cpu[c].pc = "ejecuta" /\ cpu[c].pid = p}}
  \cup UNION {{<<c, i, cpu[c].cola[i].PC>> : i \in {i \in DOMAIN cpu[c].cola : cpu[c].cola[i].pid = p}} :
              c \in ListaCPUs}

\* If the kernel is Puntual, no instruction is executed twice and none is
\* skipped by a preemption: one CPU at most has a process, at the instruction
\* that follows the last it executed, and so does the map for one in READY.
ProgramaEnOrden ==
  Puntual =>
    \A p \in Pids :
      /\ Cardinality(Tramos(p)) <= 1
      /\ \A t \in Tramos(p) : t[3] = hecho[p]
      /\ mapa[p] # NADA /\ mapa[p].estado = "READY" => mapa[p].PC = hecho[p]

\* If the kernel is Puntual, it does not die: what the planner reads of READY,
\* of EXECUTE and of the answer of the CPU is there.
SinPanicoSRT == Puntual => ~panico

\* If the kernel is Puntual, every process ends: neither the planner
\* nor a CPU waits forever for the other in the exchange of an interruption.
TerminacionSRT == Puntual => <>(\A p \in DOMAIN regimen.programa : mapa[p] = NADA)

\* verificarDesalojo looks for the process to take out where there is one.
HayAQuienDesalojar == srt.pc = "compara" => execute # <<>>
===========================================================================
