------------------------ MODULE PropiedadesMemoria ------------------------
(***************************************************************************)
(* What the memory module must guarantee while admissions, suspensions,    *)
(* resumptions and ends of several processes overlap.                      *)
(***************************************************************************)
EXTENDS Memoria

PCsLlamada == {"inactiva", "inic_asigna", "susp_libera", "susp_reserva",
               "susp_escribe", "rean_lee", "rean_borra", "rean_tabla",
               "fin_lee", "fin_borra"}

EntradaProceso == [suspendido : BOOLEAN, tabla : Seq(Marco), inicio : Bloques,
                   cant : Nat \ {0}]

\* Every variable keeps its type, no call handles more pages than its process
\* has, and no page is put beyond the swap file.
TiposMemoria ==
  /\ DOMAIN procesos \subseteq Pid
  /\ \A p \in DOMAIN procesos : procesos[p] \in EntradaProceso
  /\ ocupados \subseteq Marco /\ memoria \in [Marco -> Contenidos]
  /\ indices \in Seq(BOOLEAN) /\ Len(indices) <= Cardinality(Bloques)
  /\ archivo \in [Bloques -> Contenidos]
  /\ \A p \in Pid : /\ llamada[p].pc \in PCsLlamada
                    /\ llamada[p].marcos \in Seq(Marco)
                    /\ Existe(p) => Len(llamada[p].paginas) <= procesos[p].cant
                    /\ llamada[p].inicio \in Bloques
                    /\ llamada[p].copia \in EntradaProceso \cup {NADA}
  /\ creados \subseteq Pid /\ solapes \in BOOLEAN /\ bajadas \in 0 .. MaxSusp
  /\ \A p \in Pid : escritas[p] \subseteq 0 .. Paginas[p] - 1
---------------------------------------------------------------------------
(* Frames. *)

\* A suspension has the process out of the frames once they are freed, before
\* the entry says so; a resumption has it in once the pages are written, before
\* the table says so.
EnMarcos(p) ==
  /\ Existe(p)
  /\ \/ llamada[p].pc = "rean_tabla"
     \/ /\ ~procesos[p].suspendido
        /\ llamada[p].pc \notin {"susp_reserva", "susp_escribe"}

EnRam == {p \in Pid : EnMarcos(p)}

\* Where a process is.
Lugar(p) ==
  CASE EnMarcos(p) -> "ram"
    [] Existe(p) /\ ~EnMarcos(p) -> "swap"
    [] ~Existe(p) -> IF p \in creados THEN "terminado" ELSE "fuera"

Propios(p) ==
  IF llamada[p].pc = "rean_tabla" THEN ToSet(llamada[p].marcos) ELSE MarcosDe(p)

\* The frames marked as taken are those of the processes in memory, none is
\* shared and each process has as many as pages; and a free frame is zero.
\* buscarMarcosDisponibles releases its mutex before anybody marks what it
\* found, so it holds only because the kernel makes these calls one by one.
MarcosExactos ==
  /\ ocupados = UNION {Propios(p) : p \in EnRam}
  /\ \A p \in EnRam : Cardinality(Propios(p)) = Paginas[p]
  /\ \A p, q \in EnRam : p # q => Propios(p) \cap Propios(q) = {}
  /\ \A f \in Marco \ ocupados : memoria[f] = CERO

\* The module keeps the abstract promise about where processes are.
R == INSTANCE Residencia WITH lugar <- [p \in Pid |-> Lugar(p)]
CumpleResidencia == R!Spec
---------------------------------------------------------------------------
(* Contents. *)

PaginaDe(p, k) == IF k \in escritas[p] THEN <<p, k>> ELSE CERO

\* A process finds in each page what it wrote there and zero elsewhere,
\* whatever frames it had before and whoever had the ones it has now; as long
\* as every block of swap was the first of the file and nobody else was in
\* swap when it was given (InicioCorrecto shows why that is needed).
ContenidoIntacto ==
  ~solapes =>
    \A p \in EnRam : Inactiva(p) =>
      \A k \in 0 .. Paginas[p] - 1 :
        memoria[procesos[p].tabla[k + 1]] = PaginaDe(p, k)

EnReposo == \A p \in Pid : Inactiva(p)

\* Between calls, and as long as the same holds, the blocks marked as taken are
\* the pages of the suspended process and nothing is left of anybody else in
\* the file.
SwapExacto ==
  EnReposo /\ ~solapes =>
    /\ Cardinality({i \in DOMAIN indices : indices[i]}) =
         Cardinality(PaginasDe(EnSwap))
    /\ \A b \in Bloques : archivo[b] # CERO =>
         b + 1 \in DOMAIN indices /\ indices[b + 1]

\* InicioSWAP of a suspended process "guarda el indice donde inicia el proceso
\* en swap" (globals/memoria/globals.go:97).
InicioCorrecto ==
  \A p \in EnSwap : Inactiva(p) =>
    \A k \in 0 .. Paginas[p] - 1 :
      archivo[procesos[p].inicio + k] = PaginaDe(p, k)
===========================================================================
