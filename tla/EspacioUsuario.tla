-------------------------- MODULE EspacioUsuario --------------------------
(***************************************************************************)
(* What the CPUs and the memory module promise a program together: each    *)
(* page of its own space holds what the program wrote there last, zero     *)
(* before that, and a read is answered with it; the program gets the       *)
(* answer where answers get through (`llega`), and an empty one otherwise. *)
(* Neither frames, nor swap, nor translations, nor copies, nor other       *)
(* processes can be seen.                                                  *)
(***************************************************************************)
CONSTANTS Pid, Pagina, Valor, CERO, NADA, VACIO

VARIABLES
  contenido, \* contenido[p][k]: what page k of process p holds
  lectura,   \* what the last step read, or NADA
  llega      \* answers get to the program

vars == <<contenido, lectura, llega>>

Init ==
  /\ contenido = [p \in Pid |-> [k \in Pagina |-> CERO]] /\ lectura = NADA
  /\ llega \in BOOLEAN

Escribir(p, k, v) ==
  /\ contenido' = [contenido EXCEPT ![p][k] = v]
  /\ lectura' = NADA

Leer(p, k) ==
  /\ lectura' = [pid |-> p, pagina |-> k, respuesta |-> contenido[p][k],
                 valor |-> IF llega THEN contenido[p][k] ELSE VACIO]
  /\ UNCHANGED contenido

Terminar(p) ==
  /\ contenido' = [contenido EXCEPT ![p] = [k \in Pagina |-> CERO]]
  /\ lectura' = NADA

\* Any other step.
Otro == lectura' = NADA /\ UNCHANGED contenido

Next ==
  /\ \/ \E p \in Pid, k \in Pagina : Leer(p, k) \/ \E v \in Valor : Escribir(p, k, v)
     \/ \E p \in Pid : Terminar(p)
     \/ Otro
  /\ UNCHANGED llega

Spec == Init /\ [][Next]_vars
===========================================================================
