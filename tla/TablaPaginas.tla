--------------------------- MODULE TablaPaginas ---------------------------
(***************************************************************************)
(* The multi-level page table: how the memory module builds it             *)
(* (construirNivel), how it walks it (obtenerMarcoDesdeTabla) and how the  *)
(* CPU turns a page into the entries to walk it by                         *)
(* (ExtraerEntradasYDesplazamiento).                                       *)
(*                                                                         *)
(* A table of level 1 is the sequence of its pages; one of a higher level, *)
(* the sequence of its subtables.  The shape depends on the number of      *)
(* pages only; the frame of page k is kept apart (MemoriaVirtual).         *)
(***************************************************************************)
EXTENDS Integers, SequencesExt

NoHay == -1

Techo(a, b) == (a + b - 1) \div b

\* Mutant of EntradasDelNivel: the last subtable, when it is not full, is
\* forgotten.
EntradasEnteras(nivel, e, restantes) ==
  IF nivel = 1 THEN Min({restantes, e}) ELSE restantes \div e

\* construirNivel: entries of a table of this level when so many pages are
\* still to be placed.  At every level but the first they are the pages left
\* by the entries of ONE table, whatever the levels below.
EntradasDelNivel(nivel, e, restantes) ==
  IF nivel = 1 THEN Min({restantes, e}) ELSE Techo(restantes, e)

\* The loop of construirNivel: so many subtables, each from the page where the
\* one before ended.
Bucle(cant, desde, sub) ==
  LET hasta[i \in 0 .. cant] ==
        IF i = 0 THEN [tabla |-> <<>>, puestas |-> desde]
        ELSE LET antes == hasta[i - 1]
                 s == sub[antes.puestas]
             IN [tabla |-> Append(antes.tabla, s.tabla), puestas |-> s.puestas]
  IN hasta[cant]

\* construirNivel, for n pages of which `desde` are already placed: the table
\* and how many are placed after it (frameIndex).  At level 0, a page.
Nivel(niveles, e, n) ==
  LET nivel[l \in 0 .. niveles] ==
        [desde \in 0 .. n |->
           IF l = 0 THEN [tabla |-> desde, puestas |-> desde + 1]
           ELSE Bucle(EntradasDelNivel(l, e, n - desde), desde, nivel[l - 1])]
  IN nivel

\* crearTabla.
CrearTabla(niveles, e, n) == Nivel(niveles, e, n)[niveles][0].tabla

\* ExtraerEntradasYDesplazamiento: its inner loop, the power m of e.
Exp(e, m) ==
  LET exp[i \in 0 .. m] == IF i = 0 THEN 1 ELSE exp[i - 1] * e IN exp[m]

\* The entry of each level for a page.
Entradas(niveles, e, pagina) ==
  [x \in 1 .. niveles |-> (pagina \div Exp(e, niveles - x)) % e]

\* obtenerMarcoDesdeTabla: level by level.  An index beyond a table is an
\* error for the CPU, whether the code sees it (last level) or panics.
Recorrer(tabla, entradas) ==
  LET baja[i \in 0 .. Len(entradas)] ==
        IF i = 0 THEN [hay |-> TRUE, en |-> tabla]
        ELSE LET antes == baja[i - 1] IN
             IF antes.hay /\ entradas[i] < Len(antes.en)
             THEN [hay |-> TRUE, en |-> antes.en[entradas[i] + 1]]
             ELSE [hay |-> FALSE, en |-> <<>>]
      fin == baja[Len(entradas)]
  IN IF fin.hay THEN fin.en ELSE NoHay

PaginaHallada(niveles, e, n, pagina) ==
  Recorrer(CrearTabla(niveles, e, n), Entradas(niveles, e, pagina))

\* Every page of a process is found where the CPU looks for it, and nothing is
\* found where there is no page.
Alcanza(niveles, e, n) ==
  /\ \A k \in 0 .. n - 1 : PaginaHallada(niveles, e, n, k) = k
  /\ \A k \in n .. Exp(e, niveles) - 1 : PaginaHallada(niveles, e, n, k) = NoHay

\* The shapes for which that holds: every page has entries of its own, and
\* EntradasDelNivel is right for two levels and for pages that fit in one table
\* of level 2.
FormaBuena(niveles, e, n) == n <= Exp(e, niveles) /\ (niveles <= 2 \/ n <= e * e)
===========================================================================
