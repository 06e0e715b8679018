------------------------------- MODULE Colas -------------------------------
(***************************************************************************)
(* The queues of the kernel: sequences of pids without repetition, and the *)
(* helpers that change them (estadosController.go, corto.go).              *)
(***************************************************************************)
EXTENDS Integers, SequencesExt

Esta(s, p) == \E i \in DOMAIN s : s[i] = p

Posicion(s, p) == CHOOSE i \in DOMAIN s : s[i] = p

Quitar(s, p) == IF Esta(s, p) THEN RemoveAt(s, Posicion(s, p)) ELSE s

\* Mutant of Agregar: at the front.
AgregarAdelante(s, p) == IF Esta(s, p) THEN s ELSE <<p>> \o s

Agregar(s, p) == IF Esta(s, p) THEN s ELSE Append(s, p)

\* The orders sort.Slice may leave s in (it is not stable) for a key.
Ordenadas(s, clave(_)) ==
  {t \in [DOMAIN s -> {s[i] : i \in DOMAIN s}] :
     /\ \A i \in DOMAIN s : Esta(t, s[i])
     /\ \A i, j \in DOMAIN s : i < j => clave(t[i]) <= clave(t[j])}
===========================================================================
