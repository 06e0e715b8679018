------------------------------ MODULE Memoria ------------------------------
(***************************************************************************)
(* The memory module (memoria/utils): the table of processes, the frames   *)
(* and the swap file, with one goroutine per call.  The kernel's long-term *)
(* planner is one goroutine, so it has one call under way at most; its     *)
(* timers, which suspend, call at the same time.                           *)
(*                                                                         *)
(* A page holds CERO or what its program wrote there, <<p, k>>: what       *)
(* matters is whose it is and which page.  The tree of a page table is the *)
(* sequence of its leaves; TablaPaginas has the tree.  Errors of the file  *)
(* system are left out.                                                    *)
(***************************************************************************)
EXTENDS Integers, FiniteSets, SequencesExt

CONSTANTS
  Pid,       \* the processes
  Paginas,   \* Paginas[p]: pages of p, which may be none
  MaxPaginas, \* pages that a table has room for
  NMarcos,   \* frames of the memory
  MaxSusp,   \* bound: suspensions in a behaviour
  NADA, CERO

ASSUME MemoriaOK ==
  /\ Paginas \in [Pid -> 0 .. MaxPaginas] /\ NMarcos \in Nat
  /\ MaxPaginas \in Nat \ {0} /\ MaxSusp \in Nat \ {0}

Marco == 0 .. NMarcos - 1

\* The swap file never needs more, whoever is suspended.
Bloques == 0 .. MaxSusp * MaxPaginas - 1

\* The pages of the processes of S.
PaginasDe(S) == UNION {{p} \X (0 .. Paginas[p] - 1) : p \in S}

Contenidos == {CERO} \cup PaginasDe(Pid)

VARIABLES
  procesos, \* Procesos, a map from pid to [suspendido, tabla, inicio, cant]
  ocupados, \* MemoriaMarcosOcupados: the frames that are taken
  memoria,  \* Memoria, by frame
  indices,  \* IndicesSWAPOcupados
  archivo,  \* the swap file, by page
  llamada,  \* the goroutine serving a call about each process
  creados,  \* history: the processes that were admitted once
  escritas, \* history: the pages each program has written
  solapes,  \* history: a block was given that is not the first of the
            \* file, or while another process was in swap
  bajadas   \* bound: suspensions so far

datosVars == <<memoria, archivo>>
historiaVars == <<creados, escritas, solapes>>
vars == <<procesos, ocupados, indices, llamada, datosVars, historiaVars, bajadas>>

SinLlamada == [pc |-> "inactiva", marcos |-> <<>>, paginas |-> <<>>,
               inicio |-> 0, copia |-> NADA]

Inactiva(p) == llamada[p].pc = "inactiva"

Existe(p) == p \in DOMAIN procesos

Pasar(p, pc) == llamada' = [llamada EXCEPT ![p].pc = pc]

Terminar(p) == llamada' = [llamada EXCEPT ![p] = SinLlamada]

\* Mutant of LargoLibre: admission and resumption are not serialised.
LargoSiempreLibre == TRUE

\* The long-term planner of the kernel waits for the answer of one call
\* before it makes the next.
LargoLibre ==
  \A p \in Pid : llamada[p].pc \notin
    {"inic_asigna", "rean_lee", "rean_borra", "rean_tabla"}

PCsSuspende == {"susp_libera", "susp_reserva", "susp_escribe"}

\* In swap, or on the way there or back.
EnSwap ==
  {p \in Pid : Existe(p) /\ (procesos[p].suspendido \/ llamada[p].pc \in PCsSuspende)}
---------------------------------------------------------------------------
(* Frames. *)

\* buscarMarcosDisponibles: the first free frames, or no answer.  It compares
\* after adding one, so for no page it returns one frame, and needs one.
Encontrados(n) ==
  LET m == IF n = 0 THEN 1 ELSE n
      libres == Marco \ ocupados
  IN {s \in [1 .. m -> libres] :
        /\ \A i, j \in 1 .. m : i < j => s[i] < s[j]
        /\ \A f \in libres : f <= s[m] => \E i \in 1 .. m : s[i] = f}

\* AlmacenarProceso, up to the frames: with none the kernel is refused, and
\* asks again later.
IniciarProceso(p) ==
  /\ Inactiva(p) /\ p \notin creados /\ LargoLibre
  /\ \E marcos \in Encontrados(Paginas[p]) :
       llamada' = [llamada EXCEPT ![p].pc = "inic_asigna", ![p].marcos = marcos]
  /\ UNCHANGED <<procesos, ocupados, indices, datosVars, historiaVars, bajadas>>

\* asignarFramesAProceso and crearTabla, but for a process without pages; its
\* CantidadDePaginas is the number of frames found all the same.
IniciarAsignar(p) ==
  LET marcos == llamada[p].marcos
      tabla == IF Paginas[p] = 0 THEN <<>> ELSE marcos
  IN /\ llamada[p].pc = "inic_asigna"
     /\ ocupados' = ocupados \cup ToSet(tabla)
     /\ procesos' = [q \in DOMAIN procesos \cup {p} |->
          IF q = p THEN [suspendido |-> FALSE, tabla |-> tabla, inicio |-> 0,
                         cant |-> Len(marcos)]
          ELSE procesos[q]]
     /\ creados' = creados \cup {p}
     /\ Terminar(p)
     /\ UNCHANGED <<indices, datosVars, escritas, solapes, bajadas>>

\* The CPU that executes p writes in its page k (AccederEspacioUsuarioEscritura
\* or ActualizarPagina), through the page table.
Escribir(p, k) ==
  /\ Existe(p) /\ Inactiva(p) /\ ~procesos[p].suspendido /\ k < Paginas[p]
  /\ memoria' = [memoria EXCEPT ![procesos[p].tabla[k + 1]] = <<p, k>>]
  /\ escritas' = [escritas EXCEPT ![p] = @ \cup {k}]
  /\ UNCHANGED <<procesos, ocupados, indices, llamada, archivo, creados, solapes, bajadas>>

\* recorrerTablaYLiberarMarcos: the entries whose frame is taken, in order.
Ocupadas(p) ==
  LET ks == {k \in DOMAIN procesos[p].tabla : procesos[p].tabla[k] \in ocupados}
  IN CHOOSE s \in [1 .. Cardinality(ks) -> ks] :
       \A i, j \in DOMAIN s : i < j => s[i] < s[j]

MarcosDe(p) == ToSet(procesos[p].tabla)

\* Mutant of LiberarMarcos: freed as they are.
LiberarSinCeros(p) == ocupados' = ocupados \ MarcosDe(p) /\ UNCHANGED memoria

\* eliminarMarcosFisicos: their frames are set to zero and freed.
LiberarMarcos(p) ==
  /\ ocupados' = ocupados \ MarcosDe(p)
  /\ memoria' = [f \in Marco |-> IF f \in MarcosDe(p) \cap ocupados THEN CERO
                                 ELSE memoria[f]]
---------------------------------------------------------------------------
(* Suspension. *)

\* obtenerIndiceSwapDisponible: the first free block of n pages, or the end.
BloqueLibre(n) ==
  LET libres == {i \in 0 .. Len(indices) - n :
                   \A j \in 1 .. n : ~indices[i + j]}
  IN IF libres = {} THEN Len(indices) ELSE Min(libres)

Reservar(i, n) ==
  [j \in 1 .. Max({Len(indices), i + n}) |->
     IF j \in i + 1 .. i + n THEN TRUE ELSE indices[j]]

Desocupar(i, n) ==
  [j \in DOMAIN indices |-> IF j \in i + 1 .. i + n THEN FALSE ELSE indices[j]]

\* SuspenderProceso: the copy of the entry it will write back at the end.
SuspenderProceso(p) ==
  /\ Existe(p) /\ Inactiva(p) /\ ~procesos[p].suspendido
  /\ bajadas < MaxSusp
  /\ bajadas' = bajadas + 1
  /\ llamada' = [llamada EXCEPT ![p].pc = "susp_libera",
                   ![p].copia = [procesos[p] EXCEPT !.suspendido = TRUE]]
  /\ UNCHANGED <<procesos, ocupados, indices, datosVars, historiaVars>>

\* eliminarMarcosFisicos, which gives the pages with their numbers.
SuspenderLiberar(p) ==
  /\ llamada[p].pc = "susp_libera"
  /\ LiberarMarcos(p)
  /\ llamada' = [llamada EXCEPT ![p].pc = "susp_reserva",
       ![p].paginas = [j \in DOMAIN Ocupadas(p) |->
         [num |-> Ocupadas(p)[j] - 1,
          contenido |-> memoria[procesos[p].tabla[Ocupadas(p)[j]]]]]]
  /\ UNCHANGED <<procesos, indices, archivo, historiaVars, bajadas>>

\* escribirEnSWAP: the block ...
SuspenderReservar(p) ==
  LET n == Len(llamada[p].paginas) IN
  /\ llamada[p].pc = "susp_reserva"
  /\ indices' = Reservar(BloqueLibre(n), n)
  /\ llamada' = [llamada EXCEPT ![p].pc = "susp_escribe",
                                ![p].inicio = BloqueLibre(n)]
  /\ solapes' = (solapes \/ BloqueLibre(n) # 0 \/ EnSwap \ {p} # {})
  /\ UNCHANGED <<procesos, ocupados, datosVars, creados, escritas, bajadas>>

\* ... then page by page; InicioSWAP is set with page 0.
SuspenderEscribir(p) ==
  LET pagina == Head(llamada[p].paginas)
      inicio == llamada[p].inicio
  IN /\ llamada[p].pc = "susp_escribe" /\ llamada[p].paginas # <<>>
     /\ archivo' = [archivo EXCEPT ![inicio + pagina.num] = pagina.contenido]
     /\ procesos' = IF pagina.num = 0
                    THEN [procesos EXCEPT ![p].inicio = inicio] ELSE procesos
     /\ llamada' = [llamada EXCEPT ![p].paginas = Tail(@)]
     /\ UNCHANGED <<ocupados, indices, memoria, historiaVars, bajadas>>

\* The copy is written back, with the InicioSWAP of before.
SuspenderGuardar(p) ==
  /\ llamada[p].pc = "susp_escribe" /\ llamada[p].paginas = <<>>
  /\ procesos' = [procesos EXCEPT ![p] = llamada[p].copia]
  /\ Terminar(p)
  /\ UNCHANGED <<ocupados, indices, datosVars, historiaVars, bajadas>>
---------------------------------------------------------------------------
(* eliminarPaginasSWAP, for ReanudarProceso and FinalizarProceso: a page is *)
(* read, set to zero, and with each of them the whole block marked free.    *)

Siguiente == [rean_lee |-> "rean_borra", rean_borra |-> "rean_lee",
              fin_lee |-> "fin_borra", fin_borra |-> "fin_lee"]

\* Mutant of SwapLeer: one page too many.
SwapLeerDeMas(p) ==
  LET k == Len(llamada[p].paginas) IN
  /\ llamada[p].pc \in {"rean_lee", "fin_lee"} /\ k <= procesos[p].cant
  /\ llamada' = [llamada EXCEPT ![p].pc = Siguiente[@],
       ![p].paginas = Append(@, archivo[procesos[p].inicio + k])]
  /\ UNCHANGED <<procesos, ocupados, indices, datosVars, historiaVars, bajadas>>

SwapLeer(p) ==
  LET k == Len(llamada[p].paginas) IN
  /\ llamada[p].pc \in {"rean_lee", "fin_lee"} /\ k < procesos[p].cant
  /\ llamada' = [llamada EXCEPT ![p].pc = Siguiente[@],
       ![p].paginas = Append(@, archivo[procesos[p].inicio + k])]
  /\ UNCHANGED <<procesos, ocupados, indices, datosVars, historiaVars, bajadas>>

\* Mutant of SwapBorrar: the block stays marked.
SwapBorrarSinDesocupar(p) ==
  LET k == Len(llamada[p].paginas) - 1 IN
  /\ llamada[p].pc \in {"rean_borra", "fin_borra"}
  /\ archivo' = [archivo EXCEPT ![procesos[p].inicio + k] = CERO]
  /\ Pasar(p, Siguiente[llamada[p].pc])
  /\ UNCHANGED <<procesos, ocupados, indices, memoria, historiaVars, bajadas>>

SwapBorrar(p) ==
  LET k == Len(llamada[p].paginas) - 1 IN
  /\ llamada[p].pc \in {"rean_borra", "fin_borra"}
  /\ archivo' = [archivo EXCEPT ![procesos[p].inicio + k] = CERO]
  /\ indices' = Desocupar(procesos[p].inicio, procesos[p].cant)
  /\ Pasar(p, Siguiente[llamada[p].pc])
  /\ UNCHANGED <<procesos, ocupados, memoria, historiaVars, bajadas>>
---------------------------------------------------------------------------
(* Resumption and end. *)

\* Mutant of ReanudarProceso: whether it is suspended is not looked at.
ReanudarSinMirar(p) ==
  /\ Existe(p) /\ Inactiva(p) /\ LargoLibre
  /\ \E marcos \in Encontrados(procesos[p].cant) :
       llamada' = [llamada EXCEPT ![p].pc = "rean_lee", ![p].marcos = marcos]
  /\ UNCHANGED <<procesos, ocupados, indices, datosVars, historiaVars, bajadas>>

\* ReanudarProceso: without frames the kernel is refused.
ReanudarProceso(p) ==
  /\ Existe(p) /\ Inactiva(p) /\ LargoLibre /\ procesos[p].suspendido
  /\ \E marcos \in Encontrados(procesos[p].cant) :
       llamada' = [llamada EXCEPT ![p].pc = "rean_lee", ![p].marcos = marcos]
  /\ UNCHANGED <<procesos, ocupados, indices, datosVars, historiaVars, bajadas>>

\* escribirPaginas: page i goes to the i-th frame, which is marked taken.
ReanudarEscribir(p) ==
  LET marcos == llamada[p].marcos IN
  /\ llamada[p].pc = "rean_lee" /\ Len(llamada[p].paginas) = procesos[p].cant
  /\ memoria' = [f \in Marco |->
       IF f \in ToSet(marcos)
       THEN llamada[p].paginas[CHOOSE i \in DOMAIN marcos : marcos[i] = f]
       ELSE memoria[f]]
  /\ ocupados' = ocupados \cup ToSet(marcos)
  /\ Pasar(p, "rean_tabla")
  /\ UNCHANGED <<procesos, indices, archivo, historiaVars, bajadas>>

\* actualizarTablaPaginas, and the process is no longer suspended.
ReanudarTabla(p) ==
  /\ llamada[p].pc = "rean_tabla"
  /\ procesos' = [procesos EXCEPT ![p].suspendido = FALSE,
       ![p].tabla = [k \in DOMAIN @ |-> llamada[p].marcos[k]]]
  /\ Terminar(p)
  /\ UNCHANGED <<ocupados, indices, datosVars, historiaVars, bajadas>>

\* FinalizarProceso of a process in frames.
FinalizarProceso(p) ==
  /\ Existe(p) /\ Inactiva(p) /\ ~procesos[p].suspendido
  /\ LiberarMarcos(p)
  /\ procesos' = Restrict(procesos, DOMAIN procesos \ {p})
  /\ UNCHANGED <<indices, llamada, archivo, historiaVars, bajadas>>

\* FinalizarProceso of a suspended one (its device was disconnected) ...
FinalizarSuspendido(p) ==
  /\ Existe(p) /\ Inactiva(p) /\ procesos[p].suspendido
  /\ Pasar(p, "fin_lee")
  /\ UNCHANGED <<procesos, ocupados, indices, datosVars, historiaVars, bajadas>>

\* ... ends when its pages are out of the swap file.
FinalizarBorrado(p) ==
  /\ llamada[p].pc = "fin_lee" /\ Len(llamada[p].paginas) = procesos[p].cant
  /\ procesos' = Restrict(procesos, DOMAIN procesos \ {p})
  /\ Terminar(p)
  /\ UNCHANGED <<ocupados, indices, datosVars, historiaVars, bajadas>>
---------------------------------------------------------------------------

\* InicializarMemoria.
Init ==
  /\ procesos = [p \in {} |-> NADA]
  /\ ocupados = {} /\ memoria = [f \in Marco |-> CERO]
  /\ indices = <<>> /\ archivo = [b \in Bloques |-> CERO]
  /\ llamada = [p \in Pid |-> SinLlamada]
  /\ creados = {} /\ escritas = [p \in Pid |-> {}] /\ solapes = FALSE
  /\ bajadas = 0

Paso(p) ==
  \/ IniciarProceso(p) \/ IniciarAsignar(p)
  \/ \E k \in 0 .. Paginas[p] - 1 : Escribir(p, k)
  \/ SuspenderProceso(p) \/ SuspenderLiberar(p) \/ SuspenderReservar(p)
  \/ SuspenderEscribir(p) \/ SuspenderGuardar(p)
  \/ SwapLeer(p) \/ SwapBorrar(p)
  \/ ReanudarProceso(p) \/ ReanudarEscribir(p) \/ ReanudarTabla(p)
  \/ FinalizarProceso(p) \/ FinalizarSuspendido(p) \/ FinalizarBorrado(p)

Next == \E p \in Pid : Paso(p)

Spec == Init /\ [][Next]_vars
===========================================================================
