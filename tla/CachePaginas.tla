--------------------------- MODULE CachePaginas ---------------------------
(***************************************************************************)
(* The page cache of a CPU (cpu/utils): a list of copies of pages, a map   *)
(* from page to place in it, keyed by the page alone, and the hand of the  *)
(* clock.  A page is one cell, so its content is one value.                *)
(***************************************************************************)
EXTENDS Integers, Sequences, FiniteSetsExt

\* NuevaCache.  `indice` is PaginaIndex, 0 for a page that is not in it.
NuevaCache(paginas) ==
  [entradas |-> <<>>, indice |-> [k \in paginas |-> 0], aguja |-> 1]

\* BuscarPaginaEnCache: a copy of another process is not a hit.
EnCache(m, p, k) == m.indice[k] # 0 /\ m.entradas[m.indice[k]].pid = p

Copia(m, k) == m.entradas[m.indice[k]]

\* EscribirCache and LeerDeCache, on the entry that was found or put.
Escrita(m, k, v) ==
  [entradas |-> [m.entradas EXCEPT ![m.indice[k]] =
     [pagina |-> k, pid |-> Copia(m, k).pid, contenido |-> v, r |-> TRUE, d |-> TRUE]],
   indice |-> m.indice, aguja |-> m.aguja]

Leida(m, k) ==
  [entradas |-> [m.entradas EXCEPT ![m.indice[k]] =
     [pagina |-> k, pid |-> Copia(m, k).pid, contenido |-> Copia(m, k).contenido,
      r |-> TRUE, d |-> Copia(m, k).d]],
   indice |-> m.indice, aguja |-> m.aguja]
---------------------------------------------------------------------------
(* Replacement. *)

\* The entry i places after the hand, for i from 0 to Len - 1.
Lugar(m, i) == ((m.aguja - 1 + i) % Len(m.entradas)) + 1

SinReferencia(e) ==
  [pagina |-> e.pagina, pid |-> e.pid, contenido |-> e.contenido, r |-> FALSE, d |-> e.d]

\* The entries from the hand to i places after it, referenced no more.
Pasadas(m, i) ==
  LET vistas == {Lugar(m, j) : j \in 0 .. i - 1}
  IN [j \in DOMAIN m.entradas |->
        IF j \in vistas THEN SinReferencia(m.entradas[j]) ELSE m.entradas[j]]

Vueltas(m) == 0 .. Len(m.entradas) - 1

SinR(m) == {i \in Vueltas(m) : ~m.entradas[Lugar(m, i)].r}

Limpias(m) == {i \in Vueltas(m) : ~m.entradas[Lugar(m, i)].d}

Elegida(m, i, saltos) ==
  [victima |-> Lugar(m, i), entradas |-> Pasadas(m, saltos)]

\* buscarVictimaCLOCK: the first that is not referenced; after a whole round,
\* the one at the hand.
VictimaCLOCK(m) ==
  IF SinR(m) # {} THEN Elegida(m, Min(SinR(m)), Min(SinR(m)))
  ELSE Elegida(m, 0, Len(m.entradas))

\* buscarVictimaCLOCKM: neither referenced nor modified; else the first not
\* referenced, clearing the bits of those before it; and again, now that no
\* bit is left.
VictimaCLOCKM(m) ==
  LET buenas == SinR(m) \cap Limpias(m) IN
  CASE buenas # {} -> Elegida(m, Min(buenas), 0)
    [] buenas = {} /\ SinR(m) # {} -> Elegida(m, Min(SinR(m)), Min(SinR(m)))
    [] OTHER -> Elegida(m, IF Limpias(m) = {} THEN 0 ELSE Min(Limpias(m)),
                        Len(m.entradas))

Elegir(m, alg) == IF alg = "CLOCK" THEN VictimaCLOCK(m) ELSE VictimaCLOCKM(m)

\* InsertarOReemplazarEnCache.  Its three cases:
\* the page is in the map, and its entry is overwritten, whoever it belongs to;
Sobrescribir(m, nueva) ==
  [entradas |-> [m.entradas EXCEPT ![m.indice[nueva.pagina]] = nueva],
   indice |-> m.indice, aguja |-> m.aguja]

\* there is room;
Agregar(m, nueva) ==
  [entradas |-> Append(m.entradas, nueva),
   indice   |-> [m.indice EXCEPT ![nueva.pagina] = Len(m.entradas) + 1],
   aguja    |-> m.aguja]

\* the entry of the victim is taken, and the hand goes after it.
Reemplazar(m, v, nueva) ==
  [entradas |-> [m.entradas EXCEPT ![v] = nueva],
   indice   |-> [m.indice EXCEPT ![m.entradas[v].pagina] = 0, ![nueva.pagina] = v],
   aguja    |-> (v % Len(m.entradas)) + 1]

\* The entries after the search of a victim.
Barrida(m, entradas) == [entradas |-> entradas, indice |-> m.indice, aguja |-> m.aguja]

\* What must be true of it: map and list say the same, so no page is there
\* twice, and there are never more entries than places.
CacheFiel(m, cap) ==
  /\ Len(m.entradas) <= cap
  /\ m.aguja \in 1 .. cap
  /\ \A k \in DOMAIN m.indice :
       m.indice[k] # 0 => /\ m.indice[k] \in DOMAIN m.entradas
                          /\ m.entradas[m.indice[k]].pagina = k
  /\ \A i \in DOMAIN m.entradas : m.indice[m.entradas[i].pagina] = i
===========================================================================
