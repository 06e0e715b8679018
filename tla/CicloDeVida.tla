---------------------------- MODULE CicloDeVida ----------------------------
(***************************************************************************)
(* What the kernel promises about the life of a process, whatever the      *)
(* goroutines, locks and queues it is made of: the seven states and the    *)
(* steps between them, never more programs executing than processors, never*)
(* more frames given than the memory has.                                  *)
(***************************************************************************)
EXTENDS Integers, FiniteSets, Functions

CONSTANTS Pid, Procesadores, Capacidad, Tamanios

VARIABLES estado, tam

vida == <<estado, tam>>

En(S) == {p \in Pid : estado[p] \in S}

Residentes == En({"READY", "EXECUTE", "BLOCKED"})

\* The frames the processes of S have.
Marcos(S) == SumFunction([p \in S |-> tam[p]])

Init ==
  /\ \E t \in Tamanios : tam = [p \in Pid |-> IF p = 0 THEN t ELSE 0]
  /\ estado = [p \in Pid |-> IF p = 0 THEN "NEW" ELSE "SIN_CREAR"]

Cambiar(p, de, a) ==
  /\ estado[p] = de
  /\ estado' = [estado EXCEPT ![p] = a]
  /\ UNCHANGED tam

\* Pids are handed out in order.
Crear(p) ==
  /\ estado[p] = "SIN_CREAR"
  /\ \A q \in Pid : q < p => estado[q] # "SIN_CREAR"
  /\ estado' = [estado EXCEPT ![p] = "NEW"]
  /\ \E t \in Tamanios : tam' = [tam EXCEPT ![p] = t]

\* From NEW or SUSP_READY a process enters when its frames are free.
Entrar(p, de) ==
  /\ Marcos(Residentes) + tam[p] <= Capacidad
  /\ Cambiar(p, de, "READY")

Despachar(p) ==
  /\ Cardinality(En({"EXECUTE"})) < Procesadores
  /\ Cambiar(p, "READY", "EXECUTE")

Bloquear(p)   == Cambiar(p, "EXECUTE", "BLOCKED")
Suspender(p)  == Cambiar(p, "BLOCKED", "SUSP_BLOCKED")
Desbloquear(p) ==
  Cambiar(p, "BLOCKED", "READY") \/ Cambiar(p, "SUSP_BLOCKED", "SUSP_READY")

\* EXIT, a device that does not exist, or a dump that failed.
Salir(p) ==
  /\ estado[p] \in {"EXECUTE", "BLOCKED"}
  /\ estado' = [estado EXCEPT ![p] = "EXIT"]
  /\ tam' = [tam EXCEPT ![p] = 0]

Next == \E p \in Pid :
  \/ Crear(p) \/ Entrar(p, "NEW") \/ Entrar(p, "SUSP_READY") \/ Despachar(p)
  \/ Bloquear(p) \/ Suspender(p) \/ Desbloquear(p) \/ Salir(p)

Spec == Init /\ [][Next]_vida
===========================================================================
