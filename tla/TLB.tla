-------------------------------- MODULE TLB --------------------------------
(***************************************************************************)
(* The translation lookaside buffer of a CPU (cpu/utils): a list of        *)
(* translations and a map from page to place in it.  The map is keyed by   *)
(* the page alone, whoever it belongs to.                                  *)
(*                                                                         *)
(* Of the timestamps only the order matters, and only under LRU: `orden`   *)
(* of an entry is 1 for the oldest.                                        *)
(***************************************************************************)
EXTENDS Integers, Sequences

\* NuevaTLB.  `indice` is PaginaIndex, 0 for a page that is not in it.
NuevaTLB(paginas) ==
  [entradas |-> <<>>, indice |-> [k \in paginas |-> 0], fifo |-> 1]

\* Mutant of EnTLB: whose the translation is does not matter.
EnTLBDeCualquiera(t, p, k) == t.indice[k] # 0

\* BuscarMarcoEnTLB: the translation of the page, if it is of this process.
EnTLB(t, p, k) == t.indice[k] # 0 /\ t.entradas[t.indice[k]].pid = p

MarcoEnTLB(t, k) == t.entradas[t.indice[k]].marco

ConOrden(e, n) == [pagina |-> e.pagina, pid |-> e.pid, marco |-> e.marco, orden |-> n]

\* The translation at i becomes the newest.
Usar(entradas, i) ==
  [j \in DOMAIN entradas |->
     IF j = i THEN ConOrden(entradas[j], Len(entradas))
     ELSE IF entradas[j].orden > entradas[i].orden
          THEN ConOrden(entradas[j], entradas[j].orden - 1) ELSE entradas[j]]

\* What a hit leaves.  FIFO never looks at the timestamps.
Acertada(t, alg, k) ==
  [entradas |-> IF alg = "LRU" THEN Usar(t.entradas, t.indice[k]) ELSE t.entradas,
   indice |-> t.indice, fifo |-> t.fifo]

Victima(t, alg) ==
  IF alg = "FIFO" THEN t.fifo
  ELSE CHOOSE i \in DOMAIN t.entradas :
         \A j \in DOMAIN t.entradas : t.entradas[i].orden <= t.entradas[j].orden

\* The new translation in the place of v.
Puesta(t, alg, v, nueva) ==
  LET puestas == [t.entradas EXCEPT ![v] = ConOrden(nueva, t.entradas[v].orden)]
  IN IF alg = "LRU" THEN Usar(puestas, v) ELSE puestas

Avanzada(t, cap, alg) == IF alg = "FIFO" THEN (t.fifo % cap) + 1 ELSE t.fifo

\* Mutant of ReemplazarEnTLB: the page of the victim stays in the map.
ReemplazarSinBorrar(t, cap, alg, nueva) ==
  LET v == Victima(t, alg) IN
  [entradas |-> Puesta(t, alg, v, nueva),
   indice   |-> [t.indice EXCEPT ![nueva.pagina] = v],
   fifo     |-> Avanzada(t, cap, alg)]

\* ReemplazarEnTLB: the page of the victim leaves the map, even when the map
\* says that another entry has it; then the new page is put.
ReemplazarEnTLB(t, cap, alg, nueva) ==
  LET v == Victima(t, alg) IN
  [entradas |-> Puesta(t, alg, v, nueva),
   indice   |-> [t.indice EXCEPT ![t.entradas[v].pagina] = 0, ![nueva.pagina] = v],
   fifo     |-> Avanzada(t, cap, alg)]

\* CargarTLB: at the end while there is room, although the page of another
\* process may be in the map; the entry of that one is then unreachable.
CargarTLB(t, cap, alg, p, k, marco) ==
  LET n == Len(t.entradas) + 1
      nueva == [pagina |-> k, pid |-> p, marco |-> marco,
                orden |-> IF alg = "LRU" THEN n ELSE 0]
  IN IF n <= cap
     THEN [entradas |-> Append(t.entradas, nueva),
           indice |-> [t.indice EXCEPT ![k] = n], fifo |-> t.fifo]
     ELSE ReemplazarEnTLB(t, cap, alg, nueva)

\* What must be true of it: the map leads from a page to an entry of that
\* page, and there are never more entries than places.
TLBFiel(t, cap) ==
  /\ Len(t.entradas) <= cap
  /\ t.fifo \in 1 .. cap
  /\ \A k \in DOMAIN t.indice :
       t.indice[k] # 0 => /\ t.indice[k] \in DOMAIN t.entradas
                          /\ t.entradas[t.indice[k]].pagina = k
===========================================================================
