---------------------------- MODULE Residencia ----------------------------
(***************************************************************************)
(* What the memory module promises about where a process is: outside, in   *)
(* frames, in swap, or gone; in frames only when they are enough for it    *)
(* and everyone else there.  It is the memory the kernel's model takes for *)
(* granted (EstadoKernel, Cabe).                                           *)
(***************************************************************************)
EXTENDS Integers, FiniteSets

CONSTANTS Pid, Paginas, NMarcos

VARIABLE lugar

vars == <<lugar>>

EnRam == {p \in Pid : lugar[p] = "ram"}

\* The pages of the processes of S.
PaginasDe(S) == UNION {{p} \X (0 .. Paginas[p] - 1) : p \in S}

Mudar(p, de, a) == lugar[p] = de /\ lugar' = [lugar EXCEPT ![p] = a]

\* There is a frame for each page, with p.
Entra(p) == Cardinality(PaginasDe(EnRam \cup {p})) <= NMarcos

Init == lugar = [p \in Pid |-> "fuera"]

Next == \E p \in Pid :
  \/ Entra(p) /\ (Mudar(p, "fuera", "ram") \/ Mudar(p, "swap", "ram"))
  \/ Mudar(p, "ram", "swap")
  \/ Mudar(p, "ram", "terminado") \/ Mudar(p, "swap", "terminado")

Spec == Init /\ [][Next]_vars
===========================================================================
