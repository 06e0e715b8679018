--------------------------- MODULE PruebasMemoria ---------------------------
(***************************************************************************)
(* The memory module, for every number of processes, pages, frames and     *)
(* suspensions, when every process has pages: types (TiposMemoria), frames *)
(* (MarcosExactos), the refinement of Residencia and, at the end, contents *)
(* (ContenidoIntacto, SwapExacto).                                         *)
(*                                                                         *)
(* buscarMarcosDisponibles lets its mutex go before the frames it found    *)
(* are marked, and a suspension writes back an entry it copied long before.*)
(* So the invariant says what each call holds between two of its steps:    *)
(* the frames it found are still free, as there is one such call at most,  *)
(* and the copy has the table of the entry.  InvDatos adds the pages a     *)
(* call carries and how far the swap file has grown, InvContenidos where   *)
(* each page of a process is: in its frames, in a list or in the file.     *)
(***************************************************************************)
EXTENDS PropiedadesMemoria, FiniteSetTheorems, FunctionTheorems, SequenceTheorems,
  WellFoundedInduction, TLAPS

\* A process without pages has one frame found for it and none in its table.
ConPaginas == \A p \in Pid : Paginas[p] > 0

\* The tables p may have: as many frames as pages, all different.
Tablas(p) ==
  {s \in [1 .. Paginas[p] -> Marco] :
     \A i, j \in 1 .. Paginas[p] : s[i] = s[j] => i = j}

EsEntrada(e) ==
  e = [suspendido |-> e.suspendido, tabla |-> e.tabla, inicio |-> e.inicio,
       cant |-> e.cant]

EsLlamada(l) ==
  l = [pc |-> l.pc, marcos |-> l.marcos, paginas |-> l.paginas,
       inicio |-> l.inicio, copia |-> l.copia]

EntradaBuena(p) ==
  /\ EsEntrada(procesos[p]) /\ p \in creados
  /\ procesos[p].suspendido \in BOOLEAN
  /\ procesos[p].tabla \in Tablas(p) /\ procesos[p].cant = Paginas[p]

Entradas ==
  /\ DOMAIN procesos \subseteq Pid
  /\ \A p \in DOMAIN procesos : EntradaBuena(p)

PCsReanuda == {"rean_lee", "rean_borra", "rean_tabla"}
PCsLargo == PCsReanuda \cup {"inic_asigna"}

\* What the call about p holds between two of its steps.
LlamadaBuena(p) ==
  /\ EsLlamada(llamada[p]) /\ llamada[p].pc \in PCsLlamada
  /\ llamada[p].pc = "inic_asigna" => ~Existe(p)
  /\ llamada[p].pc \in PCsReanuda \cup {"fin_lee", "fin_borra"} =>
       Existe(p) /\ procesos[p].suspendido
  /\ llamada[p].pc \in PCsLargo => llamada[p].marcos \in Tablas(p)
  /\ llamada[p].pc \in PCsLargo \ {"rean_tabla"} =>
       ToSet(llamada[p].marcos) \cap ocupados = {}
  /\ llamada[p].pc \in PCsSuspende =>
       /\ Existe(p) /\ ~procesos[p].suspendido
       /\ EsEntrada(llamada[p].copia) /\ llamada[p].copia.suspendido = TRUE
       /\ llamada[p].copia.tabla = procesos[p].tabla
       /\ llamada[p].copia.cant = procesos[p].cant

Llamadas ==
  /\ DOMAIN llamada = Pid
  /\ \A p \in Pid : LlamadaBuena(p)

\* The kernel has one call of its long-term planner under way.
UnaDelLargo ==
  \A p, q \in Pid :
    llamada[p].pc \in PCsLargo /\ llamada[q].pc \in PCsLargo => p = q

\* MarcosExactos, frame by frame.
Reparto ==
  /\ ocupados \subseteq Marco /\ DOMAIN memoria = Marco
  /\ \A p \in Pid : EnMarcos(p) => Propios(p) \subseteq ocupados
  /\ \A f \in ocupados : \E p \in Pid : EnMarcos(p) /\ f \in Propios(p)
  /\ \A p, q \in Pid :
       EnMarcos(p) /\ EnMarcos(q) /\ p # q => Propios(p) \cap Propios(q) = {}
  /\ \A f \in Marco \ ocupados : memoria[f] = CERO

IInv == Entradas /\ Llamadas /\ UnaDelLargo /\ Reparto
---------------------------------------------------------------------------
(* The frames, as processes come and go. *)

\* A table has as many frames as its process pages.
LEMMA TamTabla ==
  ASSUME NEW p \in Pid, NEW s \in Tablas(p)
  PROVE  Cardinality(ToSet(s)) = Paginas[p] /\ ToSet(s) \subseteq Marco
<1>1. Paginas[p] \in Nat /\ DOMAIN s = 1 .. Paginas[p]
  BY MemoriaOK DEF Tablas
<1>2. s \in Bijection(1 .. Paginas[p], ToSet(s))
  <2>1. s \in [1 .. Paginas[p] -> ToSet(s)]
    BY <1>1 DEF Tablas, ToSet
  <2>2. \A i, j \in 1 .. Paginas[p] : s[i] = s[j] => i = j
    BY DEF Tablas
  <2>3. \A f \in ToSet(s) : \E i \in 1 .. Paginas[p] : s[i] = f
    BY <1>1 DEF ToSet
  <2> QED
    BY <2>1, <2>2, <2>3, Fun_IsBij
<1>3. IsFiniteSet(1 .. Paginas[p]) /\ Cardinality(1 .. Paginas[p]) = Paginas[p]
  BY <1>1, FS_Interval
<1>4. Cardinality(ToSet(s)) = Paginas[p]
  BY <1>2, <1>3, FS_Bijection, Fun_ExistsBij
<1> QED
  BY <1>1, <1>4 DEF Tablas, ToSet

\* What buscarMarcosDisponibles finds can be the table of the process.
LEMMA EncontradosLibres ==
  ASSUME NEW p \in Pid, Paginas[p] > 0, NEW s \in Encontrados(Paginas[p])
  PROVE  s \in Tablas(p) /\ ToSet(s) \cap ocupados = {}
<1> DEFINE n == Paginas[p]
<1>1. n \in Nat /\ n # 0
  BY MemoriaOK
<1>2. s \in [1 .. n -> Marco \ ocupados]
      /\ \A i, j \in 1 .. n : i < j => s[i] < s[j]
  BY <1>1 DEF Encontrados
<1>3. \A i \in 1 .. n : s[i] \in Int
  BY <1>2 DEF Marco
<1>4. \A i, j \in 1 .. n : s[i] = s[j] => i = j
  BY <1>1, <1>2, <1>3
<1> QED
  BY <1>2, <1>4 DEF Tablas, ToSet

\* A step that leaves every process where it is and with the frames it has.
LEMMA Quieto ==
  ASSUME Reparto, ocupados' = ocupados, DOMAIN memoria' = Marco,
         \A f \in Marco \ ocupados : memoria'[f] = memoria[f],
         \A q \in Pid : EnMarcos(q)' <=> EnMarcos(q),
         \A q \in Pid : EnMarcos(q) => Propios(q)' = Propios(q)
  PROVE  Reparto'
BY DEF Reparto

\* p comes with frames that were free.
LEMMA Entra ==
  ASSUME Reparto, NEW p \in Pid, ~EnMarcos(p), EnMarcos(p)',
         Propios(p)' \subseteq Marco, Propios(p)' \cap ocupados = {},
         ocupados' = ocupados \cup Propios(p)', DOMAIN memoria' = Marco,
         \A f \in Marco \ ocupados' : memoria'[f] = memoria[f],
         \A q \in Pid \ {p} : EnMarcos(q)' <=> EnMarcos(q),
         \A q \in Pid \ {p} : EnMarcos(q) => Propios(q)' = Propios(q)
  PROVE  Reparto'
<1>1. \A q \in Pid : EnMarcos(q)' /\ q # p => Propios(q)' = Propios(q) /\ EnMarcos(q)
  OBVIOUS
<1>2. \A q \in Pid : EnMarcos(q) => q # p /\ EnMarcos(q)' /\ Propios(q)' = Propios(q)
  OBVIOUS
<1>3. \A q \in Pid : EnMarcos(q)' => Propios(q)' \subseteq ocupados'
  BY <1>1 DEF Reparto
<1>4. \A f \in ocupados' : \E q \in Pid : EnMarcos(q)' /\ f \in Propios(q)'
  BY <1>2 DEF Reparto
<1>5. \A q, r \in Pid : EnMarcos(q)' /\ EnMarcos(r)' /\ q # r
        => Propios(q)' \cap Propios(r)' = {}
  BY <1>1 DEF Reparto
<1> QED
  BY <1>3, <1>4, <1>5 DEF Reparto

\* p leaves its frames, at zero.
LEMMA Sale ==
  ASSUME Reparto, NEW p \in Pid, EnMarcos(p), ~EnMarcos(p)',
         Propios(p) = MarcosDe(p), LiberarMarcos(p),
         \A q \in Pid \ {p} : EnMarcos(q)' <=> EnMarcos(q),
         \A q \in Pid \ {p} : EnMarcos(q) => Propios(q)' = Propios(q)
  PROVE  Reparto'
<1>1. \A q \in Pid : EnMarcos(q)' => q # p /\ Propios(q)' = Propios(q) /\ EnMarcos(q)
  OBVIOUS
<1>2. ocupados' = ocupados \ Propios(p)
  BY DEF LiberarMarcos
<1>3. \A q \in Pid : EnMarcos(q)' => Propios(q)' \subseteq ocupados'
  BY <1>1, <1>2 DEF Reparto
<1>4. \A f \in ocupados' : \E q \in Pid : EnMarcos(q)' /\ f \in Propios(q)'
  BY <1>2 DEF Reparto
<1>5. \A q, r \in Pid : EnMarcos(q)' /\ EnMarcos(r)' /\ q # r
        => Propios(q)' \cap Propios(r)' = {}
  BY <1>1 DEF Reparto
<1>6. DOMAIN memoria' = Marco /\ \A f \in Marco \ ocupados' : memoria'[f] = CERO
  BY <1>2 DEF LiberarMarcos, Reparto
<1> QED
  BY <1>2, <1>3, <1>4, <1>5, <1>6 DEF Reparto
---------------------------------------------------------------------------
(* One step of the call about p. *)

\* What it does with p, and with the frames, decides for everybody.
LEMMA LosDemas ==
  ASSUME IInv, NEW p \in Pid,
         DOMAIN llamada' = Pid, \A q \in Pid \ {p} : llamada'[q] = llamada[q],
         DOMAIN procesos' \subseteq Pid,
         \A q \in Pid \ {p} : q \in DOMAIN procesos' <=> q \in DOMAIN procesos,
         \A q \in DOMAIN procesos \ {p} : procesos'[q] = procesos[q],
         creados \subseteq creados',
         Existe(p)' => EntradaBuena(p)', LlamadaBuena(p)',
         llamada'[p].pc \in PCsLargo => llamada[p].pc \in PCsLargo \/ LargoLibre,
         ocupados' \subseteq ocupados \/ llamada[p].pc \in PCsLargo
  PROVE  /\ Entradas' /\ Llamadas' /\ UnaDelLargo'
         /\ \A q \in Pid \ {p} : EnMarcos(q)' <=> EnMarcos(q)
         /\ \A q \in Pid \ {p} : EnMarcos(q) => Propios(q)' = Propios(q)
<1>1. ASSUME NEW q \in Pid \ {p}
      PROVE  /\ Existe(q)' <=> Existe(q)
             /\ Existe(q) => procesos'[q] = procesos[q]
             /\ llamada'[q] = llamada[q]
  BY DEF Existe
<1>2. ASSUME NEW q \in Pid \ {p}, Existe(q)' PROVE EntradaBuena(q)'
  <2>1. EntradaBuena(q) /\ procesos'[q] = procesos[q]
    BY <1>1, <1>2 DEF IInv, Entradas, Existe
  <2> QED
    BY <2>1 DEF EntradaBuena
<1>3. Entradas'
  BY <1>2 DEF Entradas, Existe
<1>4. ASSUME NEW q \in Pid \ {p} PROVE LlamadaBuena(q)'
  <2>1. LlamadaBuena(q)
    BY DEF IInv, Llamadas
  <2>2. llamada[q].pc \in PCsLargo \ {"rean_tabla"} =>
          ToSet(llamada[q].marcos) \cap ocupados' = {}
    <3>1. llamada[q].pc \in PCsLargo => llamada[p].pc \notin PCsLargo
      BY DEF IInv, UnaDelLargo
    <3> QED
      BY <2>1, <3>1 DEF LlamadaBuena
  <2> QED
    BY <1>1, <2>1, <2>2 DEF LlamadaBuena, PCsLargo, PCsReanuda, PCsSuspende
<1>5. Llamadas'
  BY <1>4 DEF Llamadas
<1>6. UnaDelLargo'
  <2> SUFFICES ASSUME NEW q \in Pid \ {p}, llamada'[q].pc \in PCsLargo
               PROVE  llamada'[p].pc \notin PCsLargo
    BY DEF UnaDelLargo, IInv
  <2>1. llamada[q].pc \in PCsLargo /\ llamada[p].pc \notin PCsLargo
    BY DEF IInv, UnaDelLargo
  <2> QED
    BY <2>1 DEF LargoLibre, PCsLargo, PCsReanuda
<1>7. ASSUME NEW q \in Pid \ {p}
      PROVE  /\ EnMarcos(q)' <=> EnMarcos(q)
             /\ EnMarcos(q) => Propios(q)' = Propios(q)
  BY <1>1 DEF EnMarcos, Propios, MarcosDe, Existe
<1> QED
  BY <1>3, <1>5, <1>6, <1>7

\* A call that ended holds nothing.
LEMMA Ociosa ==
  ASSUME NEW p \in Pid, llamada'[p] = SinLlamada
  PROVE  LlamadaBuena(p)'
BY DEF LlamadaBuena, EsLlamada, SinLlamada, PCsLlamada, PCsLargo, PCsReanuda,
       PCsSuspende

\* A step that moves no frame.
LEMMA SinMarcos ==
  ASSUME IInv, NEW p \in Pid,
         DOMAIN llamada' = Pid, \A q \in Pid \ {p} : llamada'[q] = llamada[q],
         DOMAIN procesos' \subseteq Pid,
         \A q \in Pid \ {p} : q \in DOMAIN procesos' <=> q \in DOMAIN procesos,
         \A q \in DOMAIN procesos \ {p} : procesos'[q] = procesos[q],
         creados' = creados, ocupados' = ocupados, DOMAIN memoria' = Marco,
         \A f \in Marco \ ocupados : memoria'[f] = memoria[f],
         Existe(p)' => EntradaBuena(p)', LlamadaBuena(p)',
         llamada'[p].pc \in PCsLargo => llamada[p].pc \in PCsLargo \/ LargoLibre,
         EnMarcos(p)' <=> EnMarcos(p),
         EnMarcos(p) => Propios(p)' = Propios(p)
  PROVE  IInv'
<1>1. /\ Entradas' /\ Llamadas' /\ UnaDelLargo'
      /\ \A q \in Pid \ {p} : EnMarcos(q)' <=> EnMarcos(q)
      /\ \A q \in Pid \ {p} : EnMarcos(q) => Propios(q)' = Propios(q)
  BY LosDemas
<1>2. Reparto'
  BY <1>1, Quieto DEF IInv
<1> QED
  BY <1>1, <1>2 DEF IInv

\* A step that changes the call about p and nothing else the invariant reads.
LEMMA SoloLlamada ==
  ASSUME IInv, NEW p \in Pid,
         DOMAIN llamada' = Pid, \A q \in Pid \ {p} : llamada'[q] = llamada[q],
         UNCHANGED <<procesos, ocupados, memoria, creados>>,
         LlamadaBuena(p)',
         llamada'[p].pc \in PCsLargo => llamada[p].pc \in PCsLargo \/ LargoLibre,
         EnMarcos(p)' <=> EnMarcos(p),
         llamada'[p].pc = "rean_tabla" <=> llamada[p].pc = "rean_tabla",
         llamada[p].pc = "rean_tabla" => llamada'[p].marcos = llamada[p].marcos
  PROVE  IInv'
<1>1. Propios(p)' = Propios(p)
  BY DEF Propios, MarcosDe
<1>2. DOMAIN procesos' \subseteq Pid /\ DOMAIN memoria' = Marco
  BY DEF IInv, Entradas, Reparto
<1>3. Existe(p)' => EntradaBuena(p)'
  BY DEF IInv, Entradas, EntradaBuena, Existe
<1> QED
  BY <1>1, <1>2, <1>3, SinMarcos

LEMMA PasoIniciarProceso ==
  ASSUME IInv, ConPaginas, NEW p \in Pid, IniciarProceso(p) PROVE IInv'
<1>1. PICK marcos \in Encontrados(Paginas[p]) :
        llamada' = [llamada EXCEPT ![p].pc = "inic_asigna", ![p].marcos = marcos]
  BY DEF IniciarProceso
<1>2. marcos \in Tablas(p) /\ ToSet(marcos) \cap ocupados = {}
  BY EncontradosLibres DEF ConPaginas
<1>3. EsLlamada(llamada[p]) /\ DOMAIN llamada = Pid
  BY DEF IInv, Llamadas, LlamadaBuena
<1>4. /\ DOMAIN llamada' = Pid /\ \A q \in Pid \ {p} : llamada'[q] = llamada[q]
      /\ llamada'[p] = [[llamada[p] EXCEPT !.pc = "inic_asigna"] EXCEPT !.marcos = marcos]
  BY <1>1, <1>3
<1>5. EsLlamada(llamada'[p]) /\ llamada'[p].pc = "inic_asigna" /\ llamada'[p].marcos = marcos
  BY <1>3, <1>4 DEF EsLlamada
<1>6. ~Existe(p)
  BY DEF IniciarProceso, IInv, Entradas, EntradaBuena, Existe
<1>7. LlamadaBuena(p)'
  BY <1>2, <1>5, <1>6 DEF LlamadaBuena, IniciarProceso, Existe, PCsLlamada, PCsLargo,
       PCsReanuda, PCsSuspende
<1>8. /\ UNCHANGED <<procesos, ocupados, memoria, creados>> /\ LargoLibre
      /\ llamada[p].pc = "inactiva"
  BY DEF IniciarProceso, datosVars, historiaVars, Inactiva
<1>9. EnMarcos(p)' <=> EnMarcos(p)
  BY <1>5, <1>6, <1>8 DEF EnMarcos, Existe
<1> QED
  BY <1>4, <1>5, <1>7, <1>8, <1>9, SoloLlamada

LEMMA PasoIniciarAsignar ==
  ASSUME IInv, ConPaginas, NEW p \in Pid, IniciarAsignar(p) PROVE IInv'
<1> DEFINE marcos == llamada[p].marcos
<1>1. /\ llamada[p].pc = "inic_asigna" /\ DOMAIN llamada = Pid
      /\ marcos \in Tablas(p) /\ ToSet(marcos) \cap ocupados = {} /\ ~Existe(p)
  BY DEF IniciarAsignar, IInv, Llamadas, LlamadaBuena, PCsLargo
<1>2. Paginas[p] \in Nat /\ Paginas[p] # 0 /\ Len(marcos) = Paginas[p]
  BY <1>1, MemoriaOK DEF ConPaginas, Tablas
<1>3. /\ DOMAIN llamada' = Pid /\ \A q \in Pid \ {p} : llamada'[q] = llamada[q]
      /\ llamada'[p] = SinLlamada
  BY <1>1 DEF IniciarAsignar, Terminar
<1>4. /\ DOMAIN procesos' = DOMAIN procesos \cup {p}
      /\ \A q \in DOMAIN procesos \ {p} : procesos'[q] = procesos[q]
      /\ procesos'[p] = [suspendido |-> FALSE, tabla |-> marcos, inicio |-> 0,
                          cant |-> Len(marcos)]
  BY <1>2 DEF IniciarAsignar
<1>5. creados' = creados \cup {p} /\ memoria' = memoria
      /\ ocupados' = ocupados \cup ToSet(marcos)
  BY <1>2 DEF IniciarAsignar, datosVars
<1>6. EntradaBuena(p)'
  BY <1>1, <1>2, <1>4, <1>5 DEF EntradaBuena, EsEntrada, Tablas
<1>7. LlamadaBuena(p)'
  BY <1>3, Ociosa
<1>8. /\ EnMarcos(p)' /\ ~EnMarcos(p) /\ Propios(p)' = ToSet(marcos)
      /\ llamada'[p].pc \notin PCsLargo /\ llamada[p].pc \in PCsLargo
  BY <1>1, <1>3, <1>4 DEF EnMarcos, Existe, Propios, MarcosDe, SinLlamada, PCsLargo,
       PCsReanuda
<1>9. DOMAIN procesos' \subseteq Pid
  BY <1>4 DEF IInv, Entradas
<1>10. /\ Entradas' /\ Llamadas' /\ UnaDelLargo'
       /\ \A q \in Pid \ {p} : EnMarcos(q)' <=> EnMarcos(q)
       /\ \A q \in Pid \ {p} : EnMarcos(q) => Propios(q)' = Propios(q)
  BY <1>3, <1>4, <1>5, <1>6, <1>7, <1>8, <1>9, LosDemas
<1>11. ToSet(marcos) \subseteq Marco /\ DOMAIN memoria' = Marco /\ Reparto
  BY <1>1, <1>5, TamTabla DEF IInv, Reparto
<1>12. Reparto'
  BY <1>1, <1>5, <1>8, <1>10, <1>11, Entra
<1> QED
  BY <1>10, <1>12 DEF IInv

LEMMA PasoEscribir ==
  ASSUME IInv, NEW p \in Pid, NEW k \in 0 .. Paginas[p] - 1, Escribir(p, k)
  PROVE  IInv'
<1>1. Existe(p) /\ llamada[p].pc = "inactiva" /\ ~procesos[p].suspendido
  BY DEF Escribir, Inactiva
<1>2. procesos[p].tabla[k + 1] \in Propios(p) /\ EnMarcos(p)
  <2>1. k + 1 \in DOMAIN procesos[p].tabla
    BY <1>1, MemoriaOK DEF IInv, Entradas, EntradaBuena, Existe, Tablas
  <2> QED
    BY <1>1, <2>1 DEF EnMarcos, Propios, MarcosDe, ToSet
<1>3. procesos[p].tabla[k + 1] \in ocupados
  BY <1>2 DEF IInv, Reparto
<1>4. DOMAIN memoria' = Marco /\ \A f \in Marco \ ocupados : memoria'[f] = memoria[f]
  BY <1>3 DEF Escribir, IInv, Reparto
<1>5. UNCHANGED <<procesos, ocupados, llamada, creados>>
  BY DEF Escribir
<1>6. LlamadaBuena(p)' /\ DOMAIN llamada' = Pid
  BY <1>5 DEF IInv, Llamadas, LlamadaBuena, Existe
<1>7. (Existe(p)' => EntradaBuena(p)') /\ DOMAIN procesos' \subseteq Pid
  BY <1>5 DEF IInv, Entradas, EntradaBuena, Existe
<1>8. (EnMarcos(p)' <=> EnMarcos(p)) /\ Propios(p)' = Propios(p)
  BY <1>5 DEF EnMarcos, Existe, Propios, MarcosDe
<1> QED
  BY <1>4, <1>5, <1>6, <1>7, <1>8, SinMarcos

\* The copy that a suspension will write back.
LEMMA CopiaSuspendida ==
  ASSUME NEW e, EsEntrada(e), NEW copia, copia = [e EXCEPT !.suspendido = TRUE]
  PROVE  /\ EsEntrada(copia) /\ copia.suspendido = TRUE
         /\ copia.tabla = e.tabla /\ copia.cant = e.cant
BY DEF EsEntrada

LEMMA PasoSuspenderProceso ==
  ASSUME IInv, NEW p \in Pid, SuspenderProceso(p) PROVE IInv'
<1> DEFINE copia == [procesos[p] EXCEPT !.suspendido = TRUE]
<1>1. /\ EsLlamada(llamada[p]) /\ DOMAIN llamada = Pid /\ Existe(p)
      /\ EsEntrada(procesos[p]) /\ ~procesos[p].suspendido
      /\ llamada[p].pc = "inactiva"
  BY DEF SuspenderProceso, IInv, Llamadas, LlamadaBuena, Entradas, EntradaBuena,
       Existe, Inactiva
<1>2. /\ DOMAIN llamada' = Pid /\ \A q \in Pid \ {p} : llamada'[q] = llamada[q]
      /\ llamada'[p] = [[llamada[p] EXCEPT !.pc = "susp_libera"] EXCEPT !.copia = copia]
  BY <1>1 DEF SuspenderProceso
<1>3. /\ EsLlamada(llamada'[p]) /\ llamada'[p].pc = "susp_libera"
      /\ llamada'[p].copia = copia
  BY <1>1, <1>2 DEF EsLlamada
<1>4. /\ EsEntrada(copia) /\ copia.suspendido = TRUE
      /\ copia.tabla = procesos[p].tabla /\ copia.cant = procesos[p].cant
  BY <1>1, CopiaSuspendida
<1>5. UNCHANGED <<procesos, ocupados, memoria, creados>>
  BY DEF SuspenderProceso, datosVars, historiaVars
<1>6. LlamadaBuena(p)'
  BY <1>1, <1>3, <1>4, <1>5 DEF LlamadaBuena, Existe, PCsLlamada, PCsLargo, PCsReanuda,
       PCsSuspende
<1>7. EnMarcos(p)' <=> EnMarcos(p)
  BY <1>1, <1>3, <1>5 DEF EnMarcos, Existe
<1> QED
  BY <1>1, <1>2, <1>3, <1>5, <1>6, <1>7, SoloLlamada DEF PCsLargo, PCsReanuda

LEMMA PasoSuspenderLiberar ==
  ASSUME IInv, NEW p \in Pid, SuspenderLiberar(p) PROVE IInv'
<1> DEFINE l == llamada'[p]
<1>1. /\ LlamadaBuena(p) /\ DOMAIN llamada = Pid /\ llamada[p].pc = "susp_libera"
      /\ Existe(p) /\ EntradaBuena(p) /\ ~procesos[p].suspendido
  BY DEF SuspenderLiberar, IInv, Llamadas, LlamadaBuena, Entradas, Existe, PCsSuspende
<1>2. /\ DOMAIN llamada' = Pid /\ \A q \in Pid \ {p} : llamada'[q] = llamada[q]
      /\ EsLlamada(l) /\ l.pc = "susp_reserva" /\ l.copia = llamada[p].copia
  <2>1. PICK paginas : llamada' = [llamada EXCEPT ![p].pc = "susp_reserva",
                                                  ![p].paginas = paginas]
    BY DEF SuspenderLiberar
  <2>2. l = [[llamada[p] EXCEPT !.pc = "susp_reserva"] EXCEPT !.paginas = paginas]
    BY <1>1, <2>1
  <2> QED
    BY <1>1, <2>1, <2>2 DEF LlamadaBuena, EsLlamada
<1>3. procesos' = procesos /\ creados' = creados /\ LiberarMarcos(p)
  BY DEF SuspenderLiberar, historiaVars
<1>4. LlamadaBuena(p)' /\ EntradaBuena(p)'
  BY <1>1, <1>2, <1>3 DEF LlamadaBuena, EntradaBuena, Existe, PCsLlamada, PCsLargo,
       PCsReanuda, PCsSuspende
<1>5. /\ EnMarcos(p) /\ ~EnMarcos(p)' /\ Propios(p) = MarcosDe(p)
      /\ llamada'[p].pc \notin PCsLargo
  BY <1>1, <1>2, <1>3 DEF EnMarcos, Existe, Propios, PCsLargo, PCsReanuda
<1>6. DOMAIN procesos' \subseteq Pid /\ ocupados' \subseteq ocupados
  BY <1>3 DEF IInv, Entradas, LiberarMarcos
<1>7. /\ Entradas' /\ Llamadas' /\ UnaDelLargo'
      /\ \A q \in Pid \ {p} : EnMarcos(q)' <=> EnMarcos(q)
      /\ \A q \in Pid \ {p} : EnMarcos(q) => Propios(q)' = Propios(q)
  BY <1>2, <1>3, <1>4, <1>5, <1>6, LosDemas
<1>8. Reparto'
  BY <1>3, <1>5, <1>7, Sale DEF IInv
<1> QED
  BY <1>7, <1>8 DEF IInv

LEMMA PasoSuspenderReservar ==
  ASSUME IInv, NEW p \in Pid, SuspenderReservar(p) PROVE IInv'
<1> DEFINE l == llamada'[p]
<1>1. /\ LlamadaBuena(p) /\ DOMAIN llamada = Pid /\ llamada[p].pc = "susp_reserva"
  BY DEF SuspenderReservar, IInv, Llamadas
<1>2. /\ DOMAIN llamada' = Pid /\ \A q \in Pid \ {p} : llamada'[q] = llamada[q]
      /\ EsLlamada(l) /\ l.pc = "susp_escribe" /\ l.copia = llamada[p].copia
  <2>1. PICK inicio : llamada' = [llamada EXCEPT ![p].pc = "susp_escribe",
                                                 ![p].inicio = inicio]
    BY DEF SuspenderReservar
  <2>2. l = [[llamada[p] EXCEPT !.pc = "susp_escribe"] EXCEPT !.inicio = inicio]
    BY <1>1, <2>1
  <2> QED
    BY <1>1, <2>1, <2>2 DEF LlamadaBuena, EsLlamada
<1>3. UNCHANGED <<procesos, ocupados, memoria, creados>>
  BY DEF SuspenderReservar, datosVars
<1>4. LlamadaBuena(p)'
  BY <1>1, <1>2, <1>3 DEF LlamadaBuena, Existe, PCsLlamada, PCsLargo, PCsReanuda,
       PCsSuspende
<1>5. EnMarcos(p)' <=> EnMarcos(p)
  BY <1>1, <1>2, <1>3 DEF EnMarcos, Existe
<1> QED
  BY <1>1, <1>2, <1>3, <1>4, <1>5, SoloLlamada DEF PCsLargo, PCsReanuda

LEMMA PasoSuspenderEscribir ==
  ASSUME IInv, NEW p \in Pid, SuspenderEscribir(p) PROVE IInv'
<1> DEFINE l == llamada'[p]
<1>1. /\ LlamadaBuena(p) /\ DOMAIN llamada = Pid /\ llamada[p].pc = "susp_escribe"
      /\ Existe(p) /\ EntradaBuena(p) /\ ~procesos[p].suspendido
  BY DEF SuspenderEscribir, IInv, Llamadas, LlamadaBuena, Entradas, Existe, PCsSuspende
<1>2. /\ DOMAIN llamada' = Pid /\ \A q \in Pid \ {p} : llamada'[q] = llamada[q]
      /\ EsLlamada(l) /\ l.pc = "susp_escribe" /\ l.copia = llamada[p].copia
  <2>1. llamada' = [llamada EXCEPT ![p].paginas = Tail(@)]
    BY DEF SuspenderEscribir
  <2>2. l = [llamada[p] EXCEPT !.paginas = Tail(@)]
    BY <1>1, <2>1
  <2> QED
    BY <1>1, <2>1, <2>2 DEF LlamadaBuena, EsLlamada
<1>3. /\ DOMAIN procesos' = DOMAIN procesos
      /\ \A q \in DOMAIN procesos \ {p} : procesos'[q] = procesos[q]
      /\ EsEntrada(procesos'[p]) /\ procesos'[p].tabla = procesos[p].tabla
      /\ procesos'[p].suspendido = procesos[p].suspendido
      /\ procesos'[p].cant = procesos[p].cant
  <2>1. CASE procesos' = procesos
    BY <1>1, <2>1 DEF EntradaBuena
  <2>2. CASE procesos' = [procesos EXCEPT ![p].inicio = llamada[p].inicio]
    <3>1. procesos'[p] = [procesos[p] EXCEPT !.inicio = llamada[p].inicio]
      BY <1>1, <2>2 DEF Existe
    <3> QED
      BY <1>1, <2>2, <3>1 DEF EntradaBuena, EsEntrada
  <2> QED
    BY <2>1, <2>2 DEF SuspenderEscribir
<1>4. UNCHANGED <<ocupados, memoria, creados>>
  BY DEF SuspenderEscribir, historiaVars
<1>5. LlamadaBuena(p)' /\ EntradaBuena(p)'
  BY <1>1, <1>2, <1>3, <1>4 DEF LlamadaBuena, EntradaBuena, Existe, PCsLlamada, PCsLargo,
       PCsReanuda, PCsSuspende
<1>6. (EnMarcos(p)' <=> EnMarcos(p)) /\ Propios(p)' = Propios(p)
  BY <1>1, <1>2, <1>3 DEF EnMarcos, Existe, Propios, MarcosDe
<1>7. DOMAIN procesos' \subseteq Pid /\ DOMAIN memoria' = Marco
  BY <1>3, <1>4 DEF IInv, Entradas, Reparto
<1>8. llamada'[p].pc \notin PCsLargo
  BY <1>2 DEF PCsLargo, PCsReanuda
<1> QED
  BY <1>2, <1>3, <1>4, <1>5, <1>6, <1>7, <1>8, SinMarcos

LEMMA PasoSuspenderGuardar ==
  ASSUME IInv, NEW p \in Pid, SuspenderGuardar(p) PROVE IInv'
<1>1. /\ LlamadaBuena(p) /\ DOMAIN llamada = Pid /\ llamada[p].pc = "susp_escribe"
      /\ Existe(p) /\ EntradaBuena(p) /\ ~procesos[p].suspendido
  BY DEF SuspenderGuardar, IInv, Llamadas, LlamadaBuena, Entradas, Existe, PCsSuspende
<1>2. /\ DOMAIN llamada' = Pid /\ \A q \in Pid \ {p} : llamada'[q] = llamada[q]
      /\ llamada'[p] = SinLlamada
  BY <1>1 DEF SuspenderGuardar, Terminar
<1>3. /\ DOMAIN procesos' = DOMAIN procesos
      /\ \A q \in DOMAIN procesos \ {p} : procesos'[q] = procesos[q]
      /\ procesos'[p] = llamada[p].copia
  BY <1>1 DEF SuspenderGuardar, Existe
<1>4. /\ EsEntrada(procesos'[p]) /\ procesos'[p].suspendido = TRUE
      /\ procesos'[p].tabla = procesos[p].tabla /\ procesos'[p].cant = procesos[p].cant
  BY <1>1, <1>3 DEF LlamadaBuena, PCsSuspende
<1>5. UNCHANGED <<ocupados, memoria, creados>>
  BY DEF SuspenderGuardar, datosVars, historiaVars
<1>6. LlamadaBuena(p)' /\ EntradaBuena(p)'
  <2>1. LlamadaBuena(p)'
    BY <1>2, Ociosa
  <2>2. EntradaBuena(p)'
    BY <1>1, <1>4, <1>5 DEF EntradaBuena
  <2> QED
    BY <2>1, <2>2
<1>7. ~EnMarcos(p)' /\ ~EnMarcos(p)
  BY <1>1, <1>2, <1>4 DEF EnMarcos, SinLlamada
<1>8. DOMAIN procesos' \subseteq Pid /\ DOMAIN memoria' = Marco
  BY <1>3, <1>5 DEF IInv, Entradas, Reparto
<1>9. llamada'[p].pc \notin PCsLargo
  BY <1>2 DEF PCsLargo, PCsReanuda, SinLlamada
<1> QED
  BY <1>2, <1>3, <1>5, <1>6, <1>7, <1>8, <1>9, SinMarcos

LEMMA PasoSwapLeer ==
  ASSUME IInv, NEW p \in Pid, SwapLeer(p) PROVE IInv'
<1> DEFINE l == llamada'[p]
           pc == Siguiente[llamada[p].pc]
<1>1. /\ LlamadaBuena(p) /\ DOMAIN llamada = Pid
      /\ \/ llamada[p].pc = "rean_lee" /\ pc = "rean_borra"
         \/ llamada[p].pc = "fin_lee" /\ pc = "fin_borra"
  <2>1. llamada[p].pc = "rean_lee" \/ llamada[p].pc = "fin_lee"
    BY DEF SwapLeer
  <2>2. Siguiente["rean_lee"] = "rean_borra" /\ Siguiente["fin_lee"] = "fin_borra"
    BY DEF Siguiente
  <2> QED
    BY <2>1, <2>2 DEF IInv, Llamadas
<1>2. /\ DOMAIN llamada' = Pid /\ \A q \in Pid \ {p} : llamada'[q] = llamada[q]
      /\ EsLlamada(l) /\ l.pc = pc /\ l.marcos = llamada[p].marcos
  <2>1. PICK paginas :
          llamada' = [llamada EXCEPT ![p].pc = Siguiente[@], ![p].paginas = paginas]
    BY DEF SwapLeer
  <2>2. l = [[llamada[p] EXCEPT !.pc = pc] EXCEPT !.paginas = paginas]
    BY <1>1, <2>1
  <2> QED
    BY <1>1, <2>1, <2>2 DEF LlamadaBuena, EsLlamada
<1>3. UNCHANGED <<procesos, ocupados, memoria, creados>>
  BY DEF SwapLeer, datosVars, historiaVars
<1>4. LlamadaBuena(p)'
  BY <1>1, <1>2, <1>3 DEF LlamadaBuena, Existe, PCsLlamada, PCsLargo, PCsReanuda,
       PCsSuspende
<1>5. EnMarcos(p)' <=> EnMarcos(p)
  BY <1>1, <1>2, <1>3 DEF EnMarcos, Existe
<1> QED
  BY <1>1, <1>2, <1>3, <1>4, <1>5, SoloLlamada DEF PCsLargo, PCsReanuda

LEMMA PasoSwapBorrar ==
  ASSUME IInv, NEW p \in Pid, SwapBorrar(p) PROVE IInv'
<1> DEFINE l == llamada'[p]
           pc == Siguiente[llamada[p].pc]
<1>1. /\ LlamadaBuena(p) /\ DOMAIN llamada = Pid
      /\ \/ llamada[p].pc = "rean_borra" /\ pc = "rean_lee"
         \/ llamada[p].pc = "fin_borra" /\ pc = "fin_lee"
  <2>1. llamada[p].pc = "rean_borra" \/ llamada[p].pc = "fin_borra"
    BY DEF SwapBorrar
  <2>2. Siguiente["rean_borra"] = "rean_lee" /\ Siguiente["fin_borra"] = "fin_lee"
    BY DEF Siguiente
  <2> QED
    BY <2>1, <2>2 DEF IInv, Llamadas
<1>2. /\ DOMAIN llamada' = Pid /\ \A q \in Pid \ {p} : llamada'[q] = llamada[q]
      /\ EsLlamada(l) /\ l.pc = pc /\ l.marcos = llamada[p].marcos
  <2>1. llamada' = [llamada EXCEPT ![p].pc = pc]
    BY DEF SwapBorrar, Pasar
  <2>2. l = [llamada[p] EXCEPT !.pc = pc]
    BY <1>1, <2>1
  <2> QED
    BY <1>1, <2>1, <2>2 DEF LlamadaBuena, EsLlamada
<1>3. UNCHANGED <<procesos, ocupados, memoria, creados>>
  BY DEF SwapBorrar, historiaVars
<1>4. LlamadaBuena(p)'
  BY <1>1, <1>2, <1>3 DEF LlamadaBuena, Existe, PCsLlamada, PCsLargo, PCsReanuda,
       PCsSuspende
<1>5. EnMarcos(p)' <=> EnMarcos(p)
  BY <1>1, <1>2, <1>3 DEF EnMarcos, Existe
<1> QED
  BY <1>1, <1>2, <1>3, <1>4, <1>5, SoloLlamada DEF PCsLargo, PCsReanuda

LEMMA PasoReanudarProceso ==
  ASSUME IInv, ConPaginas, NEW p \in Pid, ReanudarProceso(p) PROVE IInv'
<1>1. /\ EsLlamada(llamada[p]) /\ DOMAIN llamada = Pid /\ Existe(p)
      /\ procesos[p].suspendido /\ procesos[p].cant = Paginas[p]
      /\ llamada[p].pc = "inactiva"
  BY DEF ReanudarProceso, IInv, Llamadas, LlamadaBuena, Entradas, EntradaBuena, Existe,
       Inactiva
<1>2. PICK marcos \in Encontrados(Paginas[p]) :
        llamada' = [llamada EXCEPT ![p].pc = "rean_lee", ![p].marcos = marcos]
  BY <1>1 DEF ReanudarProceso
<1>3. marcos \in Tablas(p) /\ ToSet(marcos) \cap ocupados = {}
  BY EncontradosLibres DEF ConPaginas
<1>4. /\ DOMAIN llamada' = Pid /\ \A q \in Pid \ {p} : llamada'[q] = llamada[q]
      /\ llamada'[p] = [[llamada[p] EXCEPT !.pc = "rean_lee"] EXCEPT !.marcos = marcos]
  BY <1>1, <1>2
<1>5. EsLlamada(llamada'[p]) /\ llamada'[p].pc = "rean_lee" /\ llamada'[p].marcos = marcos
  BY <1>1, <1>4 DEF EsLlamada
<1>6. UNCHANGED <<procesos, ocupados, memoria, creados>> /\ LargoLibre
  BY DEF ReanudarProceso, datosVars, historiaVars
<1>7. LlamadaBuena(p)'
  BY <1>1, <1>3, <1>5, <1>6 DEF LlamadaBuena, Existe, PCsLlamada, PCsLargo, PCsReanuda,
       PCsSuspende
<1>8. EnMarcos(p)' <=> EnMarcos(p)
  BY <1>1, <1>5, <1>6 DEF EnMarcos, Existe
<1> QED
  BY <1>1, <1>4, <1>5, <1>6, <1>7, <1>8, SoloLlamada

LEMMA PasoReanudarEscribir ==
  ASSUME IInv, NEW p \in Pid, ReanudarEscribir(p) PROVE IInv'
<1> DEFINE l == llamada'[p]
           marcos == llamada[p].marcos
<1>1. /\ LlamadaBuena(p) /\ DOMAIN llamada = Pid /\ llamada[p].pc = "rean_lee"
      /\ Existe(p) /\ EntradaBuena(p) /\ procesos[p].suspendido
      /\ marcos \in Tablas(p) /\ ToSet(marcos) \cap ocupados = {}
  BY DEF ReanudarEscribir, IInv, Llamadas, LlamadaBuena, Entradas, Existe, PCsLargo,
       PCsReanuda
<1>2. /\ DOMAIN llamada' = Pid /\ \A q \in Pid \ {p} : llamada'[q] = llamada[q]
      /\ EsLlamada(l) /\ l.pc = "rean_tabla" /\ l.marcos = marcos
  <2>1. llamada' = [llamada EXCEPT ![p].pc = "rean_tabla"]
    BY DEF ReanudarEscribir, Pasar
  <2>2. l = [llamada[p] EXCEPT !.pc = "rean_tabla"]
    BY <1>1, <2>1
  <2> QED
    BY <1>1, <2>1, <2>2 DEF LlamadaBuena, EsLlamada
<1>3. /\ procesos' = procesos /\ creados' = creados
      /\ ocupados' = ocupados \cup ToSet(marcos)
  BY DEF ReanudarEscribir, historiaVars
<1>4. DOMAIN memoria' = Marco /\ \A f \in Marco \ ToSet(marcos) : memoria'[f] = memoria[f]
  BY DEF ReanudarEscribir
<1>5. LlamadaBuena(p)'
  BY <1>1, <1>2, <1>3 DEF LlamadaBuena, Existe, PCsLlamada, PCsLargo, PCsReanuda,
       PCsSuspende
<1>6. EntradaBuena(p)' /\ DOMAIN procesos' \subseteq Pid
  BY <1>1, <1>3 DEF EntradaBuena, IInv, Entradas
<1>7. /\ EnMarcos(p)' /\ ~EnMarcos(p) /\ Propios(p)' = ToSet(marcos)
      /\ llamada[p].pc \in PCsLargo
  BY <1>1, <1>2, <1>3 DEF EnMarcos, Existe, Propios, PCsLargo, PCsReanuda
<1>8. /\ Entradas' /\ Llamadas' /\ UnaDelLargo'
      /\ \A q \in Pid \ {p} : EnMarcos(q)' <=> EnMarcos(q)
      /\ \A q \in Pid \ {p} : EnMarcos(q) => Propios(q)' = Propios(q)
  BY <1>2, <1>3, <1>5, <1>6, <1>7, LosDemas
<1>9. ToSet(marcos) \subseteq Marco /\ Reparto
  BY <1>1, TamTabla DEF IInv
<1>10. \A f \in Marco \ ocupados' : memoria'[f] = memoria[f]
  BY <1>3, <1>4
<1>11. Reparto'
  BY <1>1, <1>3, <1>4, <1>7, <1>8, <1>9, <1>10, Entra
<1> QED
  BY <1>8, <1>11 DEF IInv

LEMMA PasoReanudarTabla ==
  ASSUME IInv, NEW p \in Pid, ReanudarTabla(p) PROVE IInv'
<1> DEFINE e == procesos'[p]
           marcos == llamada[p].marcos
<1>1. /\ DOMAIN llamada = Pid /\ llamada[p].pc = "rean_tabla"
      /\ Existe(p) /\ EntradaBuena(p) /\ marcos \in Tablas(p)
  BY DEF ReanudarTabla, IInv, Llamadas, LlamadaBuena, Entradas, Existe, PCsLargo,
       PCsReanuda
<1>2. /\ DOMAIN llamada' = Pid /\ \A q \in Pid \ {p} : llamada'[q] = llamada[q]
      /\ llamada'[p] = SinLlamada
  BY <1>1 DEF ReanudarTabla, Terminar
<1>3. [k \in DOMAIN procesos[p].tabla |-> marcos[k]] = marcos
  BY <1>1 DEF EntradaBuena, Tablas
<1>4. /\ DOMAIN procesos' = DOMAIN procesos
      /\ \A q \in DOMAIN procesos \ {p} : procesos'[q] = procesos[q]
      /\ EsEntrada(e) /\ e.suspendido = FALSE /\ e.tabla = marcos
      /\ e.cant = procesos[p].cant
  <2>1. procesos' = [procesos EXCEPT ![p].suspendido = FALSE,
          ![p].tabla = [k \in DOMAIN @ |-> marcos[k]]]
    BY DEF ReanudarTabla
  <2>2. e = [[procesos[p] EXCEPT !.suspendido = FALSE] EXCEPT
               !.tabla = [k \in DOMAIN @ |-> marcos[k]]]
    BY <1>1, <2>1 DEF Existe
  <2>3. e = [[procesos[p] EXCEPT !.suspendido = FALSE] EXCEPT !.tabla = marcos]
    BY <1>1, <1>3, <2>2 DEF EntradaBuena, EsEntrada
  <2>4. /\ EsEntrada(e) /\ e.suspendido = FALSE /\ e.tabla = marcos
        /\ e.cant = procesos[p].cant
    BY <1>1, <2>3 DEF EntradaBuena, EsEntrada
  <2>5. /\ DOMAIN procesos' = DOMAIN procesos
        /\ \A q \in DOMAIN procesos \ {p} : procesos'[q] = procesos[q]
    BY <2>1
  <2> QED
    BY <2>4, <2>5
<1>5. UNCHANGED <<ocupados, memoria, creados>>
  BY DEF ReanudarTabla, datosVars, historiaVars
<1>6. LlamadaBuena(p)'
  BY <1>2, Ociosa
<1>7. EntradaBuena(p)'
  BY <1>1, <1>4, <1>5 DEF EntradaBuena
<1>8. EnMarcos(p)' /\ EnMarcos(p) /\ Propios(p)' = Propios(p)
  BY <1>1, <1>2, <1>4 DEF EnMarcos, Existe, Propios, MarcosDe, SinLlamada
<1>9. DOMAIN procesos' \subseteq Pid /\ DOMAIN memoria' = Marco
  BY <1>4, <1>5 DEF IInv, Entradas, Reparto
<1>10. llamada'[p].pc \notin PCsLargo
  BY <1>2 DEF PCsLargo, PCsReanuda, SinLlamada
<1> QED
  BY <1>2, <1>4, <1>5, <1>6, <1>7, <1>8, <1>9, <1>10, SinMarcos

LEMMA PasoFinalizarProceso ==
  ASSUME IInv, NEW p \in Pid, FinalizarProceso(p) PROVE IInv'
<1>1. /\ LlamadaBuena(p) /\ DOMAIN llamada = Pid /\ llamada[p].pc = "inactiva"
      /\ Existe(p) /\ ~procesos[p].suspendido
  BY DEF FinalizarProceso, IInv, Llamadas, Inactiva
<1>2. llamada' = llamada /\ creados' = creados /\ LiberarMarcos(p)
  BY DEF FinalizarProceso, historiaVars
<1>3. /\ DOMAIN procesos' = DOMAIN procesos \ {p} /\ ~Existe(p)'
      /\ \A q \in DOMAIN procesos \ {p} : procesos'[q] = procesos[q]
  BY DEF FinalizarProceso, Restrict, Existe
<1>4. LlamadaBuena(p)'
  BY <1>1, <1>2 DEF LlamadaBuena, PCsLargo, PCsReanuda, PCsSuspende
<1>5. EnMarcos(p) /\ ~EnMarcos(p)' /\ Propios(p) = MarcosDe(p)
  BY <1>1, <1>3 DEF EnMarcos, Propios
<1>6. /\ DOMAIN procesos' \subseteq Pid /\ ocupados' \subseteq ocupados
      /\ llamada'[p].pc \notin PCsLargo
  BY <1>1, <1>2, <1>3 DEF IInv, Entradas, LiberarMarcos, PCsLargo, PCsReanuda
<1>7. /\ Entradas' /\ Llamadas' /\ UnaDelLargo'
      /\ \A q \in Pid \ {p} : EnMarcos(q)' <=> EnMarcos(q)
      /\ \A q \in Pid \ {p} : EnMarcos(q) => Propios(q)' = Propios(q)
  BY <1>1, <1>2, <1>3, <1>4, <1>6, LosDemas
<1>8. Reparto'
  BY <1>2, <1>5, <1>7, Sale DEF IInv
<1> QED
  BY <1>7, <1>8 DEF IInv

LEMMA PasoFinalizarSuspendido ==
  ASSUME IInv, NEW p \in Pid, FinalizarSuspendido(p) PROVE IInv'
<1> DEFINE l == llamada'[p]
<1>1. /\ LlamadaBuena(p) /\ DOMAIN llamada = Pid /\ llamada[p].pc = "inactiva"
      /\ Existe(p) /\ procesos[p].suspendido
  BY DEF FinalizarSuspendido, IInv, Llamadas, Inactiva
<1>2. /\ DOMAIN llamada' = Pid /\ \A q \in Pid \ {p} : llamada'[q] = llamada[q]
      /\ EsLlamada(l) /\ l.pc = "fin_lee"
  <2>1. llamada' = [llamada EXCEPT ![p].pc = "fin_lee"]
    BY DEF FinalizarSuspendido, Pasar
  <2>2. l = [llamada[p] EXCEPT !.pc = "fin_lee"]
    BY <1>1, <2>1
  <2> QED
    BY <1>1, <2>1, <2>2 DEF LlamadaBuena, EsLlamada
<1>3. UNCHANGED <<procesos, ocupados, memoria, creados>>
  BY DEF FinalizarSuspendido, datosVars, historiaVars
<1>4. LlamadaBuena(p)'
  BY <1>1, <1>2, <1>3 DEF LlamadaBuena, Existe, PCsLlamada, PCsLargo, PCsReanuda,
       PCsSuspende
<1>5. EnMarcos(p)' <=> EnMarcos(p)
  BY <1>1, <1>2, <1>3 DEF EnMarcos, Existe
<1> QED
  BY <1>1, <1>2, <1>3, <1>4, <1>5, SoloLlamada DEF PCsLargo, PCsReanuda

LEMMA PasoFinalizarBorrado ==
  ASSUME IInv, NEW p \in Pid, FinalizarBorrado(p) PROVE IInv'
<1>1. /\ DOMAIN llamada = Pid /\ llamada[p].pc = "fin_lee" /\ procesos[p].suspendido
  BY DEF FinalizarBorrado, IInv, Llamadas, LlamadaBuena
<1>2. /\ DOMAIN llamada' = Pid /\ \A q \in Pid \ {p} : llamada'[q] = llamada[q]
      /\ llamada'[p] = SinLlamada
  BY <1>1 DEF FinalizarBorrado, Terminar
<1>3. /\ DOMAIN procesos' = DOMAIN procesos \ {p} /\ ~Existe(p)'
      /\ \A q \in DOMAIN procesos \ {p} : procesos'[q] = procesos[q]
  BY DEF FinalizarBorrado, Restrict, Existe
<1>4. UNCHANGED <<ocupados, memoria, creados>>
  BY DEF FinalizarBorrado, datosVars, historiaVars
<1>5. LlamadaBuena(p)'
  BY <1>2, Ociosa
<1>6. ~EnMarcos(p)' /\ ~EnMarcos(p)
  BY <1>1, <1>3 DEF EnMarcos
<1>7. DOMAIN procesos' \subseteq Pid /\ DOMAIN memoria' = Marco
  BY <1>3, <1>4 DEF IInv, Entradas, Reparto
<1>8. llamada'[p].pc \notin PCsLargo
  BY <1>2 DEF PCsLargo, PCsReanuda, SinLlamada
<1> QED
  BY <1>2, <1>3, <1>4, <1>5, <1>6, <1>7, <1>8, SinMarcos
---------------------------------------------------------------------------
(* The invariant. *)

LEMMA InvariantePaso ==
  ASSUME IInv, ConPaginas, [Next]_vars PROVE IInv'
<1>1. CASE UNCHANGED vars
  <2>1. UNCHANGED <<procesos, ocupados, memoria, llamada, creados>>
    BY <1>1 DEF vars, datosVars, historiaVars
  <2>2. Entradas' /\ UnaDelLargo'
    BY <2>1 DEF IInv, Entradas, EntradaBuena, UnaDelLargo
  <2>3. ASSUME NEW p \in Pid PROVE LlamadaBuena(p)'
    BY <2>1 DEF IInv, Llamadas, LlamadaBuena, Existe
  <2>4. Llamadas'
    BY <2>1, <2>3 DEF IInv, Llamadas
  <2>5. \A p \in Pid : (EnMarcos(p)' <=> EnMarcos(p)) /\ Propios(p)' = Propios(p)
    BY <2>1 DEF EnMarcos, Propios, MarcosDe, Existe
  <2>6. DOMAIN memoria' = Marco /\ Reparto
    BY <2>1 DEF IInv, Reparto
  <2>7. Reparto'
    BY <2>1, <2>5, <2>6, Quieto
  <2> QED
    BY <2>2, <2>4, <2>7 DEF IInv
<1>2. ASSUME NEW p \in Pid, Paso(p) PROVE IInv'
  <2>1. CASE IniciarProceso(p) \/ IniciarAsignar(p)
    BY <2>1, PasoIniciarProceso, PasoIniciarAsignar
  <2>2. CASE \E k \in 0 .. Paginas[p] - 1 : Escribir(p, k)
    BY <2>2, PasoEscribir
  <2>3. CASE SuspenderProceso(p) \/ SuspenderLiberar(p) \/ SuspenderReservar(p)
    BY <2>3, PasoSuspenderProceso, PasoSuspenderLiberar, PasoSuspenderReservar
  <2>4. CASE SuspenderEscribir(p) \/ SuspenderGuardar(p)
    BY <2>4, PasoSuspenderEscribir, PasoSuspenderGuardar
  <2>5. CASE SwapLeer(p) \/ SwapBorrar(p)
    BY <2>5, PasoSwapLeer, PasoSwapBorrar
  <2>6. CASE ReanudarProceso(p) \/ ReanudarEscribir(p) \/ ReanudarTabla(p)
    BY <2>6, PasoReanudarProceso, PasoReanudarEscribir, PasoReanudarTabla
  <2>7. CASE FinalizarProceso(p) \/ FinalizarSuspendido(p) \/ FinalizarBorrado(p)
    BY <2>7, PasoFinalizarProceso, PasoFinalizarSuspendido, PasoFinalizarBorrado
  <2> QED
    BY <1>2, <2>1, <2>2, <2>3, <2>4, <2>5, <2>6, <2>7 DEF Paso
<1> QED
  BY <1>1, <1>2 DEF Next

LEMMA InvarianteInicial == Init => IInv
<1> SUFFICES ASSUME Init PROVE IInv
  OBVIOUS
<1>1. \A p \in Pid : ~Existe(p) /\ ~EnMarcos(p) /\ llamada[p] = SinLlamada
  BY DEF Init, Existe, EnMarcos
<1>2. Entradas
  BY DEF Init, Entradas
<1>3. Llamadas /\ UnaDelLargo
  BY <1>1 DEF Init, Llamadas, LlamadaBuena, EsLlamada, SinLlamada, UnaDelLargo,
       PCsLlamada, PCsLargo, PCsReanuda, PCsSuspende
<1>4. Reparto
  BY <1>1 DEF Init, Reparto
<1> QED
  BY <1>2, <1>3, <1>4 DEF IInv

LEMMA ImplicaMarcosExactos == ASSUME IInv PROVE MarcosExactos
<1>1. \A p \in EnRam : p \in Pid /\ EnMarcos(p)
  BY DEF EnRam
<1>2. ocupados = UNION {Propios(p) : p \in EnRam}
  BY <1>1 DEF EnRam, IInv, Reparto
<1>3. ASSUME NEW p \in EnRam PROVE Cardinality(Propios(p)) = Paginas[p]
  <2>1. CASE llamada[p].pc = "rean_tabla"
    <3>1. llamada[p].marcos \in Tablas(p)
      BY <1>1, <2>1 DEF IInv, Llamadas, LlamadaBuena, PCsLargo, PCsReanuda
    <3> QED
      BY <1>1, <2>1, <3>1, TamTabla DEF Propios
  <2>2. CASE llamada[p].pc # "rean_tabla"
    <3>1. procesos[p].tabla \in Tablas(p)
      BY <1>1 DEF EnMarcos, Existe, IInv, Entradas, EntradaBuena
    <3> QED
      BY <1>1, <2>2, <3>1, TamTabla DEF Propios, MarcosDe
  <2> QED
    BY <2>1, <2>2
<1>4. /\ \A p, q \in EnRam : p # q => Propios(p) \cap Propios(q) = {}
      /\ \A f \in Marco \ ocupados : memoria[f] = CERO
  BY <1>1 DEF IInv, Reparto
<1> QED
  BY <1>2, <1>3, <1>4 DEF MarcosExactos

\* When every process has pages, the frames marked as taken are always those
\* of the processes in memory, each with as many as pages and none shared, and
\* the free ones are zero, for any number of processes, pages and frames: what
\* AlmacenarProceso, SuspenderProceso, ReanudarProceso and FinalizarProceso
\* must keep between them, though each lets go of its mutexes on the way.
THEOREM MarcosSiempre == ConPaginas => (Spec => []MarcosExactos)
<1> SUFFICES ASSUME ConPaginas PROVE Spec => []MarcosExactos
  OBVIOUS
<1>1. Init => IInv
  BY InvarianteInicial
<1>2. IInv /\ [Next]_vars => IInv'
  BY InvariantePaso
<1>3. IInv => MarcosExactos
  BY ImplicaMarcosExactos
<1> QED
  BY <1>1, <1>2, <1>3, PTL DEF Spec
---------------------------------------------------------------------------
(* Where processes are: the module implements Residencia. *)

\* One step leaves the calls, the entries and the history of the others.
LEMMA Ajenos ==
  ASSUME IInv, NEW p \in Pid, Paso(p), NEW q \in Pid \ {p}
  PROVE  /\ llamada'[q] = llamada[q]
         /\ Existe(q)' <=> Existe(q)
         /\ Existe(q) => procesos'[q] = procesos[q]
         /\ q \in creados' <=> q \in creados
<1>1. DOMAIN llamada = Pid
  BY DEF IInv, Llamadas
<1> USE <1>1 DEF Existe
<1>2. CASE IniciarProceso(p)
  BY <1>2 DEF IniciarProceso, historiaVars
<1>3. CASE IniciarAsignar(p)
  BY <1>3 DEF IniciarAsignar, Terminar
<1>4. CASE \E k \in 0 .. Paginas[p] - 1 : Escribir(p, k)
  BY <1>4 DEF Escribir
<1>5. CASE SuspenderProceso(p)
  BY <1>5 DEF SuspenderProceso, historiaVars
<1>6. CASE SuspenderLiberar(p)
  BY <1>6 DEF SuspenderLiberar, historiaVars
<1>7. CASE SuspenderReservar(p)
  BY <1>7 DEF SuspenderReservar
<1>8. CASE SuspenderEscribir(p)
  <2>1. procesos' = procesos \/ procesos' = [procesos EXCEPT ![p].inicio = llamada[p].inicio]
    BY <1>8 DEF SuspenderEscribir
  <2>2. (q \in DOMAIN procesos' <=> q \in DOMAIN procesos)
        /\ (q \in DOMAIN procesos => procesos'[q] = procesos[q])
    BY <2>1
  <2> QED
    BY <1>8, <2>2 DEF SuspenderEscribir, historiaVars
<1>9. CASE SuspenderGuardar(p)
  BY <1>9 DEF SuspenderGuardar, Terminar, historiaVars
<1>10. CASE SwapLeer(p)
  BY <1>10 DEF SwapLeer, historiaVars
<1>11. CASE SwapBorrar(p)
  BY <1>11 DEF SwapBorrar, Pasar, historiaVars
<1>12. CASE ReanudarProceso(p)
  BY <1>12 DEF ReanudarProceso, historiaVars
<1>13. CASE ReanudarEscribir(p)
  BY <1>13 DEF ReanudarEscribir, Pasar, historiaVars
<1>14. CASE ReanudarTabla(p)
  BY <1>14 DEF ReanudarTabla, Terminar, historiaVars
<1>15. CASE FinalizarProceso(p)
  BY <1>15 DEF FinalizarProceso, Restrict, historiaVars
<1>16. CASE FinalizarSuspendido(p)
  BY <1>16 DEF FinalizarSuspendido, Pasar, historiaVars
<1>17. CASE FinalizarBorrado(p)
  BY <1>17 DEF FinalizarBorrado, Terminar, Restrict, historiaVars
<1> QED
  BY <1>2, <1>3, <1>4, <1>5, <1>6, <1>7, <1>8, <1>9, <1>10, <1>11, <1>12, <1>13, <1>14,
     <1>15, <1>16, <1>17 DEF Paso

\* A process is admitted once.
InvCreados == \A p \in Pid : llamada[p].pc = "inic_asigna" => p \notin creados

\* The call about p once p was admitted is no admission.
LEMMA PasoCreados ==
  ASSUME IInv, InvCreados, NEW p \in Pid, Paso(p) PROVE InvCreados'
<1>1. \A q \in Pid \ {p} : llamada'[q].pc = "inic_asigna" => q \notin creados'
  BY Ajenos DEF InvCreados
<1>2. llamada'[p].pc = "inic_asigna" => p \notin creados'
  <2> SUFFICES ASSUME llamada'[p].pc = "inic_asigna" PROVE p \notin creados'
    OBVIOUS
  <2>0. DOMAIN llamada = Pid /\ EsLlamada(llamada[p])
    BY DEF IInv, Llamadas, LlamadaBuena
  <2>1. CASE IniciarProceso(p)
    BY <2>1 DEF IniciarProceso, historiaVars
  <2>2. CASE \E k \in 0 .. Paginas[p] - 1 : Escribir(p, k)
    BY <2>2 DEF Escribir, InvCreados
  <2>3. CASE FinalizarProceso(p)
    BY <2>3 DEF FinalizarProceso, InvCreados, historiaVars
  <2>4. ASSUME ~IniciarProceso(p), ~\E k \in 0 .. Paginas[p] - 1 : Escribir(p, k),
               ~FinalizarProceso(p)
        PROVE  FALSE
    <3>1. CASE IniciarAsignar(p) \/ SuspenderGuardar(p) \/ ReanudarTabla(p)
               \/ FinalizarBorrado(p)
      BY <2>0, <3>1 DEF IniciarAsignar, SuspenderGuardar, ReanudarTabla, FinalizarBorrado,
         Terminar, SinLlamada
    <3>2. CASE SwapLeer(p) \/ SwapBorrar(p)
      <4>1. llamada[p].pc \in DOMAIN Siguiente
            /\ llamada'[p].pc = Siguiente[llamada[p].pc]
        <5>1. CASE SwapLeer(p)
          <6>1. PICK paginas :
                  llamada' = [llamada EXCEPT ![p].pc = Siguiente[@], ![p].paginas = paginas]
            BY <5>1 DEF SwapLeer
          <6>2. llamada'[p] = [[llamada[p] EXCEPT !.pc = Siguiente[llamada[p].pc]]
                                 EXCEPT !.paginas = paginas]
            BY <2>0, <6>1
          <6>3. llamada[p].pc \in DOMAIN Siguiente
            BY <5>1 DEF SwapLeer, Siguiente
          <6> QED
            BY <2>0, <6>2, <6>3 DEF EsLlamada
        <5>2. CASE SwapBorrar(p)
          <6>1. llamada'[p] = [llamada[p] EXCEPT !.pc = Siguiente[llamada[p].pc]]
            BY <2>0, <5>2 DEF SwapBorrar, Pasar
          <6>2. llamada[p].pc \in DOMAIN Siguiente
            BY <5>2 DEF SwapBorrar, Siguiente
          <6> QED
            BY <2>0, <6>1, <6>2 DEF EsLlamada
        <5> QED
          BY <3>2, <5>1, <5>2
      <4> QED
        BY <4>1 DEF Siguiente
    <3>3. CASE SuspenderProceso(p)
      <4>1. PICK c : llamada'[p] = [[llamada[p] EXCEPT !.pc = "susp_libera"] EXCEPT !.copia = c]
        BY <2>0, <3>3 DEF SuspenderProceso
      <4> QED
        BY <2>0, <4>1 DEF EsLlamada
    <3>4. CASE SuspenderLiberar(p)
      <4>1. PICK c : llamada'[p] = [[llamada[p] EXCEPT !.pc = "susp_reserva"] EXCEPT !.paginas = c]
        BY <2>0, <3>4 DEF SuspenderLiberar
      <4> QED
        BY <2>0, <4>1 DEF EsLlamada
    <3>5. CASE SuspenderReservar(p)
      <4>1. PICK c : llamada'[p] = [[llamada[p] EXCEPT !.pc = "susp_escribe"] EXCEPT !.inicio = c]
        BY <2>0, <3>5 DEF SuspenderReservar
      <4> QED
        BY <2>0, <4>1 DEF EsLlamada
    <3>6. CASE SuspenderEscribir(p)
      <4>1. llamada'[p] = [llamada[p] EXCEPT !.paginas = Tail(@)]
        BY <2>0, <3>6 DEF SuspenderEscribir
      <4> QED
        BY <2>0, <3>6, <4>1 DEF EsLlamada, SuspenderEscribir
    <3>7. CASE ReanudarProceso(p)
      <4>1. PICK c : llamada'[p] = [[llamada[p] EXCEPT !.pc = "rean_lee"] EXCEPT !.marcos = c]
        BY <2>0, <3>7 DEF ReanudarProceso
      <4> QED
        BY <2>0, <4>1 DEF EsLlamada
    <3>8. CASE ReanudarEscribir(p) \/ FinalizarSuspendido(p)
      <4>1. PICK c \in {"rean_tabla", "fin_lee"} : llamada'[p] = [llamada[p] EXCEPT !.pc = c]
        BY <2>0, <3>8 DEF ReanudarEscribir, FinalizarSuspendido, Pasar
      <4> QED
        BY <2>0, <4>1 DEF EsLlamada
    <3> QED
      BY <2>4, <3>1, <3>2, <3>3, <3>4, <3>5, <3>6, <3>7, <3>8 DEF Paso
  <2> QED
    BY <2>1, <2>2, <2>3, <2>4
<1> QED
  BY <1>1, <1>2 DEF InvCreados

\* Processes with a table each, none with a frame of another, have no more
\* pages than there are frames.
LEMMA Caben ==
  ASSUME NEW S \in SUBSET Pid, NEW T, \A q \in S : T[q] \in Tablas(q),
         \A q, r \in S : q # r => ToSet(T[q]) \cap ToSet(T[r]) = {}
  PROVE  Cardinality(PaginasDe(S)) <= NMarcos
<1> DEFINE P == PaginasDe(S)
           f == [x \in P |-> T[x[1]][x[2] + 1]]
<1>1. ASSUME NEW x \in P
      PROVE  /\ x[1] \in S /\ x[2] \in 0 .. Paginas[x[1]] - 1 /\ x = <<x[1], x[2]>>
             /\ x[2] + 1 \in 1 .. Paginas[x[1]]
  <2>1. PICK q \in S : x \in {q} \X (0 .. Paginas[q] - 1)
    BY DEF PaginasDe
  <2>2. Paginas[q] \in Nat
    BY MemoriaOK
  <2> QED
    BY <2>1, <2>2
<1>2. ASSUME NEW x \in P
      PROVE  f[x] \in Marco /\ f[x] \in ToSet(T[x[1]])
  <2>1. T[x[1]] \in [1 .. Paginas[x[1]] -> Marco]
    BY <1>1 DEF Tablas
  <2>2. f[x] = T[x[1]][x[2] + 1] /\ x[2] + 1 \in DOMAIN T[x[1]]
    BY <1>1, <2>1
  <2> QED
    BY <1>1, <2>1, <2>2 DEF ToSet
<1>3. f \in [P -> Marco]
  BY <1>2
<1>4. ASSUME NEW x \in P, NEW y \in P, f[x] = f[y] PROVE x = y
  <2>1. x[1] = y[1]
    BY <1>1, <1>2, <1>4
  <2>2. T[x[1]][x[2] + 1] = T[x[1]][y[2] + 1]
    BY <1>4, <2>1
  <2>3. x[2] + 1 = y[2] + 1
    BY <1>1, <2>1, <2>2 DEF Tablas
  <2>4. x[2] = y[2]
    BY <1>1, <2>3
  <2> QED
    BY <1>1, <2>1, <2>4
<1>5. f \in Injection(P, Marco)
  BY <1>3, <1>4, Fun_IsInj
<1>6. IsFiniteSet(Marco) /\ Cardinality(Marco) = NMarcos
  BY FS_Interval, MemoriaOK DEF Marco
<1> QED
  BY <1>5, <1>6, FS_Injection

\* The frames of p, in the order of its pages.
TablaDe(p) ==
  IF llamada[p].pc = "rean_tabla" THEN llamada[p].marcos ELSE procesos[p].tabla

LEMMA CabenDespues == ASSUME IInv' PROVE Cardinality(PaginasDe(EnRam')) <= NMarcos
<1> DEFINE T == [q \in EnRam' |-> TablaDe(q)']
<1>1. \A q \in EnRam' : TablaDe(q)' \in Tablas(q)
  BY DEF EnRam, EnMarcos, Existe, TablaDe, IInv, Entradas, EntradaBuena, Llamadas,
     LlamadaBuena, PCsLargo, PCsReanuda
<1>2. \A q \in EnRam' : Propios(q)' = ToSet(T[q])
  BY DEF Propios, MarcosDe, TablaDe
<1>3. \A q, r \in EnRam' : q # r => ToSet(T[q]) \cap ToSet(T[r]) = {}
  BY <1>2 DEF IInv, Reparto, EnRam
<1>4. EnRam' \in SUBSET Pid
  BY DEF EnRam
<1> HIDE DEF T
<1> QED
  BY <1>1, <1>3, <1>4, Caben DEF T

\* What changes of where p is, when one step changes it.
LEMMA LugarAjeno ==
  ASSUME IInv, NEW p \in Pid, Paso(p), NEW q \in Pid \ {p}
  PROVE  Lugar(q)' = Lugar(q) /\ (EnMarcos(q)' <=> EnMarcos(q))
<1>1. /\ llamada'[q] = llamada[q] /\ (Existe(q)' <=> Existe(q))
      /\ (Existe(q) => procesos'[q] = procesos[q])
      /\ (q \in creados' <=> q \in creados)
  BY Ajenos
<1>2. EnMarcos(q)' <=> EnMarcos(q)
  BY <1>1 DEF EnMarcos
<1> QED
  BY <1>1, <1>2 DEF Lugar

\* Where p is, in its four places.
LEMMA Lugares ==
  ASSUME NEW p
  PROVE  /\ Lugar(p) = "ram" <=> EnMarcos(p)
         /\ Lugar(p) = "swap" <=> Existe(p) /\ ~EnMarcos(p)
         /\ Lugar(p) = "terminado" <=> ~Existe(p) /\ p \in creados
         /\ Lugar(p) = "fuera" <=> ~Existe(p) /\ p \notin creados
<1>1. EnMarcos(p) => Existe(p)
  BY DEF EnMarcos
<1>2. CASE EnMarcos(p)
  BY <1>1, <1>2 DEF Lugar
<1>3. CASE Existe(p) /\ ~EnMarcos(p)
  BY <1>3 DEF Lugar
<1>4. CASE ~Existe(p) /\ p \in creados
  BY <1>1, <1>4 DEF Lugar
<1>5. CASE ~Existe(p) /\ p \notin creados
  BY <1>1, <1>5 DEF Lugar
<1> QED
  BY <1>2, <1>3, <1>4, <1>5

\* Only an admission creates an entry, and the process was never admitted.
LEMMA QuienCrea ==
  ASSUME IInv, NEW p \in Pid, Paso(p), ~IniciarAsignar(p)
  PROVE  creados' = creados /\ (Existe(p)' => Existe(p))
<1> USE DEF Existe
<1>1. CASE IniciarProceso(p)
  BY <1>1 DEF IniciarProceso, historiaVars
<1>2. CASE \E k \in 0 .. Paginas[p] - 1 : Escribir(p, k)
  BY <1>2 DEF Escribir
<1>3. CASE SuspenderProceso(p) \/ SuspenderLiberar(p)
  BY <1>3 DEF SuspenderProceso, SuspenderLiberar, historiaVars
<1>4. CASE SuspenderReservar(p)
  BY <1>4 DEF SuspenderReservar
<1>5. CASE SuspenderEscribir(p)
  <2>1. procesos' = procesos \/ procesos' = [procesos EXCEPT ![p].inicio = llamada[p].inicio]
    BY <1>5 DEF SuspenderEscribir
  <2>2. DOMAIN procesos' = DOMAIN procesos
    BY <2>1
  <2> QED
    BY <1>5, <2>2 DEF SuspenderEscribir, historiaVars
<1>6. CASE SuspenderGuardar(p)
  BY <1>6 DEF SuspenderGuardar, historiaVars
<1>7. CASE SwapLeer(p) \/ SwapBorrar(p)
  BY <1>7 DEF SwapLeer, SwapBorrar, historiaVars
<1>8. CASE ReanudarProceso(p) \/ ReanudarEscribir(p) \/ ReanudarTabla(p)
  BY <1>8 DEF ReanudarProceso, ReanudarEscribir, ReanudarTabla, historiaVars
<1>9. CASE FinalizarProceso(p) \/ FinalizarSuspendido(p) \/ FinalizarBorrado(p)
  BY <1>9 DEF FinalizarProceso, FinalizarSuspendido, FinalizarBorrado, Restrict, historiaVars
<1> QED
  BY <1>1, <1>2, <1>3, <1>4, <1>5, <1>6, <1>7, <1>8, <1>9 DEF Paso

\* Both at the next state.
LEMMA LugaresDespues ==
  ASSUME NEW p
  PROVE  /\ Lugar(p)' = "ram" <=> EnMarcos(p)'
         /\ Lugar(p)' = "swap" <=> Existe(p)' /\ ~EnMarcos(p)'
         /\ Lugar(p)' = "terminado" <=> ~Existe(p)' /\ p \in creados'
         /\ Lugar(p)' = "fuera" <=> ~Existe(p)' /\ p \notin creados'
<1>1. EnMarcos(p)' => Existe(p)'
  BY DEF EnMarcos
<1>2. CASE EnMarcos(p)'
  BY <1>1, <1>2 DEF Lugar
<1>3. CASE Existe(p)' /\ ~EnMarcos(p)'
  BY <1>3 DEF Lugar
<1>4. CASE ~Existe(p)' /\ p \in creados'
  BY <1>1, <1>4 DEF Lugar
<1>5. CASE ~Existe(p)' /\ p \notin creados'
  BY <1>1, <1>5 DEF Lugar
<1> QED
  BY <1>2, <1>3, <1>4, <1>5

\* A step that takes p from a to b, as Residencia has it.
LEMMA Mudanza ==
  ASSUME IInv, IInv', NEW p \in Pid, Paso(p),
         NEW a, NEW b, Lugar(p) = a, Lugar(p)' = b,
         \/ a = b
         \/ a \in {"fuera", "swap"} /\ b = "ram"
         \/ a = "ram" /\ b \in {"swap", "terminado"}
         \/ a = "swap" /\ b = "terminado"
  PROVE  [R!Next]_R!vars
<1> DEFINE lugar == [q \in Pid |-> Lugar(q)]
<1>1. lugar' = [lugar EXCEPT ![p] = b] /\ lugar[p] = a
  <2>1. \A q \in Pid \ {p} : Lugar(q)' = Lugar(q)
    BY LugarAjeno
  <2> QED
    BY <2>1
<1>2. CASE a = b
  BY <1>1, <1>2 DEF R!vars
<1>3. CASE a # b
  <2>1. R!Mudar(p, a, b)
    BY <1>1 DEF R!Mudar
  <2>2. b = "ram" => R!Entra(p)
    <3> SUFFICES ASSUME b = "ram" PROVE R!Entra(p)
      OBVIOUS
    <3>1. Lugar(p)' = "ram" <=> EnMarcos(p)'
      BY LugaresDespues
    <3>2. \A q \in Pid \ {p} : EnMarcos(q)' <=> EnMarcos(q)
      BY LugarAjeno
    <3>3. \A q \in Pid : lugar[q] = "ram" <=> EnMarcos(q)
      BY Lugares
    <3>4. R!EnRam = {q \in Pid : EnMarcos(q)}
      BY <3>3 DEF R!EnRam
    <3>5. EnRam' = R!EnRam \cup {p}
      BY <3>1, <3>2, <3>4 DEF EnRam
    <3>6. Cardinality(PaginasDe(EnRam')) <= NMarcos
      BY CabenDespues
    <3>8. R!Cardinality(PaginasDe(EnRam')) = Cardinality(PaginasDe(EnRam'))
      BY DEF R!Cardinality, Cardinality
    <3>7. PaginasDe(EnRam') = R!PaginasDe(R!EnRam \cup {p})
      BY <3>5 DEF PaginasDe, R!PaginasDe
    <3> QED
      BY <3>6, <3>7, <3>8 DEF R!Entra
  <2> QED
    BY <1>3, <2>1, <2>2 DEF R!Next
<1> QED
  BY <1>2, <1>3

\* Every step of the module is one of Residencia, or none.
LEMMA PasoResidencia ==
  ASSUME IInv, IInv', InvCreados, NEW p \in Pid, Paso(p)
  PROVE  [R!Next]_R!vars
<1>1. Existe(p) => p \in creados
  BY DEF IInv, Entradas, EntradaBuena, Existe
<1>2. /\ Lugar(p)' = "ram" <=> EnMarcos(p)'
      /\ Lugar(p)' = "swap" <=> Existe(p)' /\ ~EnMarcos(p)'
      /\ Lugar(p)' = "terminado" <=> ~Existe(p)' /\ p \in creados'
      /\ Lugar(p)' = "fuera" <=> ~Existe(p)' /\ p \notin creados'
  BY LugaresDespues
<1>3. /\ Lugar(p) = "ram" <=> EnMarcos(p)
      /\ Lugar(p) = "swap" <=> Existe(p) /\ ~EnMarcos(p)
      /\ Lugar(p) = "terminado" <=> ~Existe(p) /\ p \in creados
      /\ Lugar(p) = "fuera" <=> ~Existe(p) /\ p \notin creados
  BY Lugares
<1>4. (EnMarcos(p) => Existe(p)) /\ (EnMarcos(p)' => Existe(p)')
  BY DEF EnMarcos
<1>5. CASE IniciarAsignar(p)
  <2>1. llamada[p].pc = "inic_asigna" /\ p \notin creados /\ ~Existe(p)
    BY <1>1, <1>5 DEF IniciarAsignar, InvCreados
  <2>2. /\ Existe(p)' /\ ~procesos'[p].suspendido
        /\ llamada'[p].pc = "inactiva"
    <3>1. DOMAIN llamada = Pid
      BY DEF IInv, Llamadas
    <3> QED
      BY <1>5, <3>1 DEF IniciarAsignar, Existe, Terminar, SinLlamada
  <2>3. EnMarcos(p)'
    BY <2>2 DEF EnMarcos
  <2> QED
    BY <1>2, <1>3, <2>1, <2>3, Mudanza
<1>6. CASE ~IniciarAsignar(p)
  <2>1. creados' = creados /\ (Existe(p)' => Existe(p))
    BY <1>6, QuienCrea
  <2>2. CASE Existe(p)'
    BY <1>2, <1>3, <2>1, <2>2, Mudanza
  <2>3. CASE ~Existe(p)' /\ Existe(p)
    BY <1>1, <1>2, <1>3, <2>1, <2>3, Mudanza
  <2>4. CASE ~Existe(p)' /\ ~Existe(p)
    BY <1>2, <1>3, <1>4, <2>1, <2>4, Mudanza
  <2> QED
    BY <2>2, <2>3, <2>4
<1> QED
  BY <1>5, <1>6

InvResidencia == IInv /\ InvCreados

LEMMA PasoInvResidencia ==
  ASSUME InvResidencia, ConPaginas, [Next]_vars PROVE InvResidencia'
<1>1. IInv'
  BY InvariantePaso DEF InvResidencia
<1>2. CASE UNCHANGED vars
  BY <1>1, <1>2 DEF vars, historiaVars, InvResidencia, InvCreados
<1>3. ASSUME NEW p \in Pid, Paso(p) PROVE InvResidencia'
  BY <1>1, <1>3, PasoCreados DEF InvResidencia
<1> QED
  BY <1>2, <1>3 DEF Next

\* When every process has pages, where processes are follows Residencia, for
\* any number of processes, pages and frames: IniciarProceso and
\* ReanudarProceso put one in frames only when these are enough for it and
\* everyone there, and one that ended (FinalizarProceso) never comes back.
THEOREM ResidenciaCumplida == ConPaginas => (Spec => CumpleResidencia)
<1> SUFFICES ASSUME ConPaginas PROVE Spec => CumpleResidencia
  OBVIOUS
<1>1. Init => InvResidencia /\ R!Init
  <2> SUFFICES ASSUME Init PROVE InvResidencia /\ R!Init
    OBVIOUS
  <2>1. IInv
    BY InvarianteInicial
  <2>2. InvCreados
    BY DEF Init, InvCreados
  <2>3. \A p \in Pid : Lugar(p) = "fuera"
    BY Lugares DEF Init, Existe
  <2> QED
    BY <2>1, <2>2, <2>3 DEF InvResidencia, R!Init
<1>2. InvResidencia /\ [Next]_vars => InvResidencia'
  BY PasoInvResidencia
<1>3. InvResidencia /\ InvResidencia' /\ [Next]_vars => [R!Next]_R!vars
  <2> SUFFICES ASSUME InvResidencia, InvResidencia', [Next]_vars
               PROVE  [R!Next]_R!vars
    OBVIOUS
  <2>1. CASE UNCHANGED vars
    <3>1. \A q \in Pid : (Existe(q)' <=> Existe(q)) /\ (EnMarcos(q)' <=> EnMarcos(q))
      BY <2>1 DEF vars, historiaVars, EnMarcos, Existe
    <3>2. \A q \in Pid : Lugar(q)' = Lugar(q)
      BY <2>1, <3>1 DEF Lugar, vars, historiaVars
    <3> QED
      BY <3>2 DEF R!vars
  <2>2. ASSUME NEW p \in Pid, Paso(p) PROVE [R!Next]_R!vars
    BY <2>2, PasoResidencia DEF InvResidencia
  <2> QED
    BY <2>1, <2>2 DEF Next
<1> QED
  BY <1>1, <1>2, <1>3, PTL DEF Spec, CumpleResidencia, R!Spec

---------------------------------------------------------------------------
(* What each step does to its call. *)

\* What each step does to the call it is of.
Registro(pc, marcos, paginas, inicio, copia) ==
  [pc |-> pc, marcos |-> marcos, paginas |-> paginas, inicio |-> inicio, copia |-> copia]

Campos(l, pc, marcos, paginas, inicio, copia) ==
  /\ l.pc = pc /\ l.marcos = marcos /\ l.paginas = paginas /\ l.inicio = inicio
  /\ l.copia = copia

LEMMA CamposRegistro ==
  ASSUME NEW a, NEW b, NEW c, NEW d, NEW e, NEW l, l = Registro(a, b, c, d, e)
  PROVE  l.pc = a /\ l.marcos = b /\ l.paginas = c /\ l.inicio = d /\ l.copia = e
BY DEF Registro

\* A call with one field changed, or its place and one more.
LEMMA CambiaUno ==
  ASSUME NEW l, EsLlamada(l), NEW a
  PROVE  [l EXCEPT !.pc = a] = Registro(a, l.marcos, l.paginas, l.inicio, l.copia)
BY DEF EsLlamada, Registro

LEMMA CambiaMarcos ==
  ASSUME NEW l, EsLlamada(l), NEW x
  PROVE  [l EXCEPT !.marcos = x] = Registro(l.pc, x, l.paginas, l.inicio, l.copia)
BY DEF EsLlamada, Registro

LEMMA CambiaPaginas ==
  ASSUME NEW l, EsLlamada(l), NEW x
  PROVE  [l EXCEPT !.paginas = x] = Registro(l.pc, l.marcos, x, l.inicio, l.copia)
BY DEF EsLlamada, Registro

LEMMA CambiaInicio ==
  ASSUME NEW l, EsLlamada(l), NEW x
  PROVE  [l EXCEPT !.inicio = x] = Registro(l.pc, l.marcos, l.paginas, x, l.copia)
BY DEF EsLlamada, Registro

LEMMA CambiaCopia ==
  ASSUME NEW l, EsLlamada(l), NEW x
  PROVE  [l EXCEPT !.copia = x] = Registro(l.pc, l.marcos, l.paginas, l.inicio, x)
BY DEF EsLlamada, Registro

LEMMA RegistroEsLlamada ==
  ASSUME NEW a, NEW b, NEW c, NEW d, NEW e PROVE EsLlamada(Registro(a, b, c, d, e))
BY DEF EsLlamada, Registro

LEMMA CambiaMarcosPc ==
  ASSUME NEW l, EsLlamada(l), NEW a, NEW x
  PROVE  [[l EXCEPT !.pc = a] EXCEPT !.marcos = x] = Registro(a, x, l.paginas, l.inicio, l.copia)
<1>1. PICK m : m = [l EXCEPT !.pc = a]
  OBVIOUS
<1>2. m = Registro(a, l.marcos, l.paginas, l.inicio, l.copia)
  BY <1>1, CambiaUno
<1>3. [m EXCEPT !.marcos = x] = Registro(m.pc, x, m.paginas, m.inicio, m.copia)
  BY <1>2, RegistroEsLlamada, CambiaMarcos
<1> QED
  BY <1>1, <1>2, <1>3, CamposRegistro

LEMMA CambiaPaginasPc ==
  ASSUME NEW l, EsLlamada(l), NEW a, NEW x
  PROVE  [[l EXCEPT !.pc = a] EXCEPT !.paginas = x] = Registro(a, l.marcos, x, l.inicio, l.copia)
<1>1. PICK m : m = [l EXCEPT !.pc = a]
  OBVIOUS
<1>2. m = Registro(a, l.marcos, l.paginas, l.inicio, l.copia)
  BY <1>1, CambiaUno
<1>3. [m EXCEPT !.paginas = x] = Registro(m.pc, m.marcos, x, m.inicio, m.copia)
  BY <1>2, RegistroEsLlamada, CambiaPaginas
<1> QED
  BY <1>1, <1>2, <1>3, CamposRegistro

LEMMA CambiaInicioPc ==
  ASSUME NEW l, EsLlamada(l), NEW a, NEW x
  PROVE  [[l EXCEPT !.pc = a] EXCEPT !.inicio = x] = Registro(a, l.marcos, l.paginas, x, l.copia)
<1>1. PICK m : m = [l EXCEPT !.pc = a]
  OBVIOUS
<1>2. m = Registro(a, l.marcos, l.paginas, l.inicio, l.copia)
  BY <1>1, CambiaUno
<1>3. [m EXCEPT !.inicio = x] = Registro(m.pc, m.marcos, m.paginas, x, m.copia)
  BY <1>2, RegistroEsLlamada, CambiaInicio
<1> QED
  BY <1>1, <1>2, <1>3, CamposRegistro

LEMMA CambiaCopiaPc ==
  ASSUME NEW l, EsLlamada(l), NEW a, NEW x
  PROVE  [[l EXCEPT !.pc = a] EXCEPT !.copia = x] = Registro(a, l.marcos, l.paginas, l.inicio, x)
<1>1. PICK m : m = [l EXCEPT !.pc = a]
  OBVIOUS
<1>2. m = Registro(a, l.marcos, l.paginas, l.inicio, l.copia)
  BY <1>1, CambiaUno
<1>3. [m EXCEPT !.copia = x] = Registro(m.pc, m.marcos, m.paginas, m.inicio, x)
  BY <1>2, RegistroEsLlamada, CambiaCopia
<1> QED
  BY <1>1, <1>2, <1>3, CamposRegistro

LEMMA LlamadaRegistro ==
  ASSUME IInv, NEW p \in Pid PROVE EsLlamada(llamada[p]) /\ DOMAIN llamada = Pid
BY DEF IInv, Llamadas, LlamadaBuena

\* The pages that leave the frames, with their contents.
Leidas(p) ==
  [j \in DOMAIN Ocupadas(p) |->
     [num |-> Ocupadas(p)[j] - 1,
      contenido |-> memoria[procesos[p].tabla[Ocupadas(p)[j]]]]]

LEMMA EfectoIniciarProceso ==
  ASSUME IInv, NEW p \in Pid, IniciarProceso(p)
  PROVE  \E m : Campos(llamada'[p], "inic_asigna", m, llamada[p].paginas,
                                      llamada[p].inicio, llamada[p].copia)
<1>1. PICK m : llamada' = [llamada EXCEPT ![p].pc = "inic_asigna", ![p].marcos = m]
  BY DEF IniciarProceso
<1>2. llamada'[p] = [[llamada[p] EXCEPT !.pc = "inic_asigna"] EXCEPT !.marcos = m]
  BY <1>1, LlamadaRegistro
<1>3. llamada'[p] = Registro("inic_asigna", m, llamada[p].paginas, llamada[p].inicio,
                             llamada[p].copia)
  BY <1>2, LlamadaRegistro, CambiaMarcosPc
<1> QED
  BY <1>3, CamposRegistro DEF Campos

LEMMA EfectoReanudarProceso ==
  ASSUME IInv, NEW p \in Pid, ReanudarProceso(p)
  PROVE  \E m : Campos(llamada'[p], "rean_lee", m, llamada[p].paginas,
                                      llamada[p].inicio, llamada[p].copia)
<1>1. PICK m : llamada' = [llamada EXCEPT ![p].pc = "rean_lee", ![p].marcos = m]
  BY DEF ReanudarProceso
<1>2. llamada'[p] = [[llamada[p] EXCEPT !.pc = "rean_lee"] EXCEPT !.marcos = m]
  BY <1>1, LlamadaRegistro
<1>3. llamada'[p] = Registro("rean_lee", m, llamada[p].paginas, llamada[p].inicio,
                             llamada[p].copia)
  BY <1>2, LlamadaRegistro, CambiaMarcosPc
<1> QED
  BY <1>3, CamposRegistro DEF Campos

LEMMA EfectoSuspenderProceso ==
  ASSUME IInv, NEW p \in Pid, SuspenderProceso(p)
  PROVE  Campos(llamada'[p], "susp_libera", llamada[p].marcos,
           llamada[p].paginas, llamada[p].inicio, [procesos[p] EXCEPT !.suspendido = TRUE])
<1> DEFINE x == [procesos[p] EXCEPT !.suspendido = TRUE]
<1>1. llamada' = [llamada EXCEPT ![p].pc = "susp_libera", ![p].copia = x]
  BY DEF SuspenderProceso
<1> HIDE DEF x
<1>2. llamada'[p] = [[llamada[p] EXCEPT !.pc = "susp_libera"] EXCEPT !.copia = x]
  BY <1>1, LlamadaRegistro
<1>3. llamada'[p] = Registro("susp_libera", llamada[p].marcos, llamada[p].paginas, llamada[p].inicio, x)
  BY <1>2, LlamadaRegistro, CambiaCopiaPc
<1> QED
  BY <1>3, CamposRegistro DEF Campos, x

LEMMA EfectoSuspenderLiberar ==
  ASSUME IInv, NEW p \in Pid, SuspenderLiberar(p)
  PROVE  Campos(llamada'[p], "susp_reserva", llamada[p].marcos,
           Leidas(p), llamada[p].inicio, llamada[p].copia)
<1> DEFINE x == Leidas(p)
<1>1. llamada' = [llamada EXCEPT ![p].pc = "susp_reserva", ![p].paginas = x]
  BY DEF SuspenderLiberar, Leidas
<1> HIDE DEF x
<1>2. llamada'[p] = [[llamada[p] EXCEPT !.pc = "susp_reserva"] EXCEPT !.paginas = x]
  BY <1>1, LlamadaRegistro
<1>3. llamada'[p] = Registro("susp_reserva", llamada[p].marcos, x, llamada[p].inicio, llamada[p].copia)
  BY <1>2, LlamadaRegistro, CambiaPaginasPc
<1> QED
  BY <1>3, CamposRegistro DEF Campos, x

LEMMA EfectoSuspenderReservar ==
  ASSUME IInv, NEW p \in Pid, SuspenderReservar(p)
  PROVE  Campos(llamada'[p], "susp_escribe", llamada[p].marcos,
           llamada[p].paginas, BloqueLibre(Len(llamada[p].paginas)), llamada[p].copia)
<1> DEFINE x == BloqueLibre(Len(llamada[p].paginas))
<1>1. llamada' = [llamada EXCEPT ![p].pc = "susp_escribe", ![p].inicio = x]
  BY DEF SuspenderReservar
<1> HIDE DEF x
<1>2. llamada'[p] = [[llamada[p] EXCEPT !.pc = "susp_escribe"] EXCEPT !.inicio = x]
  BY <1>1, LlamadaRegistro
<1>3. llamada'[p] = Registro("susp_escribe", llamada[p].marcos, llamada[p].paginas, x, llamada[p].copia)
  BY <1>2, LlamadaRegistro, CambiaInicioPc
<1> QED
  BY <1>3, CamposRegistro DEF Campos, x

LEMMA EfectoSuspenderEscribir ==
  ASSUME IInv, NEW p \in Pid, SuspenderEscribir(p)
  PROVE  Campos(llamada'[p], "susp_escribe", llamada[p].marcos, Tail(llamada[p].paginas),
                                llamada[p].inicio, llamada[p].copia)
<1>1. llamada'[p] = [llamada[p] EXCEPT !.paginas = Tail(llamada[p].paginas)]
  BY LlamadaRegistro DEF SuspenderEscribir
<1>2. llamada[p].pc = "susp_escribe" /\ EsLlamada(llamada[p])
  BY LlamadaRegistro DEF SuspenderEscribir
<1>3. llamada'[p] = Registro("susp_escribe", llamada[p].marcos, Tail(llamada[p].paginas),
                                llamada[p].inicio, llamada[p].copia)
  BY <1>1, <1>2, CambiaPaginas
<1> QED
  BY <1>3, CamposRegistro DEF Campos

LEMMA EfectoSwapLeer ==
  ASSUME IInv, NEW p \in Pid, SwapLeer(p)
  PROVE  Campos(llamada'[p], Siguiente[llamada[p].pc], llamada[p].marcos,
           Append(llamada[p].paginas,
                  archivo[procesos[p].inicio + Len(llamada[p].paginas)]),
           llamada[p].inicio, llamada[p].copia)
<1> DEFINE x == archivo[procesos[p].inicio + Len(llamada[p].paginas)]
<1>1. llamada' = [llamada EXCEPT ![p].pc = Siguiente[@], ![p].paginas = Append(@, x)]
  BY DEF SwapLeer
<1> HIDE DEF x
<1>2. llamada'[p] = [[llamada[p] EXCEPT !.pc = Siguiente[llamada[p].pc]]
                       EXCEPT !.paginas = Append(llamada[p].paginas, x)]
  BY <1>1, LlamadaRegistro DEF EsLlamada
<1>3. llamada'[p] = Registro(Siguiente[llamada[p].pc], llamada[p].marcos,
           Append(llamada[p].paginas, x), llamada[p].inicio, llamada[p].copia)
  BY <1>2, LlamadaRegistro, CambiaPaginasPc
<1>4. Campos(llamada'[p], Siguiente[llamada[p].pc], llamada[p].marcos,
             Append(llamada[p].paginas, x), llamada[p].inicio, llamada[p].copia)
  BY <1>3 DEF Campos, Registro
<1> QED
  BY <1>4 DEF x

LEMMA EfectoSwapBorrar ==
  ASSUME IInv, NEW p \in Pid, SwapBorrar(p)
  PROVE  Campos(llamada'[p], Siguiente[llamada[p].pc], llamada[p].marcos,
           llamada[p].paginas, llamada[p].inicio, llamada[p].copia)
<1>1. llamada'[p] = [llamada[p] EXCEPT !.pc = Siguiente[llamada[p].pc]]
  BY LlamadaRegistro DEF SwapBorrar, Pasar
<1>2. llamada'[p] = Registro(Siguiente[llamada[p].pc], llamada[p].marcos,
           llamada[p].paginas, llamada[p].inicio, llamada[p].copia)
  BY <1>1, LlamadaRegistro, CambiaUno
<1> QED
  BY <1>2, CamposRegistro DEF Campos

LEMMA EfectoReanudarEscribir ==
  ASSUME IInv, NEW p \in Pid, ReanudarEscribir(p)
  PROVE  Campos(llamada'[p], "rean_tabla", llamada[p].marcos,
           llamada[p].paginas, llamada[p].inicio, llamada[p].copia)
<1>1. llamada'[p] = [llamada[p] EXCEPT !.pc = "rean_tabla"]
  BY LlamadaRegistro DEF ReanudarEscribir, Pasar
<1>2. llamada'[p] = Registro("rean_tabla", llamada[p].marcos,
           llamada[p].paginas, llamada[p].inicio, llamada[p].copia)
  BY <1>1, LlamadaRegistro, CambiaUno
<1> QED
  BY <1>2, CamposRegistro DEF Campos

LEMMA EfectoFinalizarSuspendido ==
  ASSUME IInv, NEW p \in Pid, FinalizarSuspendido(p)
  PROVE  Campos(llamada'[p], "fin_lee", llamada[p].marcos,
           llamada[p].paginas, llamada[p].inicio, llamada[p].copia)
<1>1. llamada'[p] = [llamada[p] EXCEPT !.pc = "fin_lee"]
  BY LlamadaRegistro DEF FinalizarSuspendido, Pasar
<1>2. llamada'[p] = Registro("fin_lee", llamada[p].marcos,
           llamada[p].paginas, llamada[p].inicio, llamada[p].copia)
  BY <1>1, LlamadaRegistro, CambiaUno
<1> QED
  BY <1>2, CamposRegistro DEF Campos

LEMMA EfectoTerminar ==
  ASSUME IInv, NEW p \in Pid,
         \/ IniciarAsignar(p) \/ SuspenderGuardar(p) \/ ReanudarTabla(p)
         \/ FinalizarBorrado(p)
  PROVE  Campos(llamada'[p], "inactiva", <<>>, <<>>, 0, NADA)
BY LlamadaRegistro DEF IniciarAsignar, SuspenderGuardar, ReanudarTabla, FinalizarBorrado,
   Terminar, SinLlamada, Campos

\* Where a step of the swap file goes next.
LEMMA SiguienteEs ==
  /\ Siguiente["rean_lee"] = "rean_borra" /\ Siguiente["rean_borra"] = "rean_lee"
  /\ Siguiente["fin_lee"] = "fin_borra" /\ Siguiente["fin_borra"] = "fin_lee"
BY DEF Siguiente
\* Where the call is when each step is taken.
LEMMA Guardas ==
  ASSUME NEW p
  PROVE  /\ IniciarProceso(p) \/ SuspenderProceso(p) \/ ReanudarProceso(p)
              \/ FinalizarProceso(p) \/ FinalizarSuspendido(p) => llamada[p].pc = "inactiva"
         /\ IniciarAsignar(p) => llamada[p].pc = "inic_asigna"
         /\ SuspenderLiberar(p) => llamada[p].pc = "susp_libera"
         /\ SuspenderReservar(p) => llamada[p].pc = "susp_reserva"
         /\ SuspenderEscribir(p) \/ SuspenderGuardar(p) => llamada[p].pc = "susp_escribe"
         /\ SwapLeer(p) => llamada[p].pc \in {"rean_lee", "fin_lee"}
         /\ SwapBorrar(p) => llamada[p].pc \in {"rean_borra", "fin_borra"}
         /\ ReanudarEscribir(p) => llamada[p].pc = "rean_lee"
         /\ ReanudarTabla(p) => llamada[p].pc = "rean_tabla"
         /\ FinalizarBorrado(p) => llamada[p].pc = "fin_lee"
         /\ \A k : Escribir(p, k) => llamada[p].pc = "inactiva"
<1>1. IniciarProceso(p) => llamada[p].pc = "inactiva"
  BY DEF IniciarProceso, Inactiva
<1>2. SuspenderProceso(p) => llamada[p].pc = "inactiva"
  BY DEF SuspenderProceso, Inactiva
<1>3. ReanudarProceso(p) => llamada[p].pc = "inactiva"
  BY DEF ReanudarProceso, Inactiva
<1>4. FinalizarProceso(p) => llamada[p].pc = "inactiva"
  BY DEF FinalizarProceso, Inactiva
<1>5. FinalizarSuspendido(p) => llamada[p].pc = "inactiva"
  BY DEF FinalizarSuspendido, Inactiva
<1>6. IniciarAsignar(p) => llamada[p].pc = "inic_asigna"
  BY DEF IniciarAsignar
<1>7. SuspenderLiberar(p) => llamada[p].pc = "susp_libera"
  BY DEF SuspenderLiberar
<1>8. SuspenderReservar(p) => llamada[p].pc = "susp_reserva"
  BY DEF SuspenderReservar
<1>9. SuspenderEscribir(p) => llamada[p].pc = "susp_escribe"
  BY DEF SuspenderEscribir
<1>10. SuspenderGuardar(p) => llamada[p].pc = "susp_escribe"
  BY DEF SuspenderGuardar
<1>11. SwapLeer(p) => llamada[p].pc \in {"rean_lee", "fin_lee"}
  BY DEF SwapLeer
<1>12. SwapBorrar(p) => llamada[p].pc \in {"rean_borra", "fin_borra"}
  BY DEF SwapBorrar
<1>13. ReanudarEscribir(p) => llamada[p].pc = "rean_lee"
  BY DEF ReanudarEscribir
<1>14. ReanudarTabla(p) => llamada[p].pc = "rean_tabla"
  BY DEF ReanudarTabla
<1>15. FinalizarBorrado(p) => llamada[p].pc = "fin_lee"
  BY DEF FinalizarBorrado
<1>16. \A k : Escribir(p, k) => llamada[p].pc = "inactiva"
  BY DEF Escribir, Inactiva
<1> QED
  BY <1>1, <1>2, <1>3, <1>4, <1>5, <1>6, <1>7, <1>8, <1>9, <1>10, <1>11, <1>12, <1>13, <1>14, <1>15, <1>16

---------------------------------------------------------------------------
(* The data: what the calls carry, and the size of the swap file. *)

\* The pages of the swap file.
Cota == MaxSusp * MaxPaginas

\* The pages of p on their way to the swap file.
PaginasLeidas(p) == [num : 0 .. Paginas[p] - 1, contenido : Contenidos]

\* n pages from inicio are in the swap file.
CabeEn(inicio, n) == inicio \in Nat /\ inicio + n <= Cota

EntradaCabe(p) == CabeEn(procesos[p].inicio, Paginas[p])

PCsSwap == {"rean_lee", "rean_borra", "rean_tabla", "fin_lee", "fin_borra"}

\* The data of a call: pages and copy while it needs them, and no longer.
LlamadaDatos(p) ==
  /\ CabeEn(llamada[p].inicio, Paginas[p])
  /\ llamada[p].pc \notin PCsLargo => llamada[p].marcos = <<>>
  /\ IF llamada[p].pc \in PCsSuspende
     THEN CabeEn(llamada[p].copia.inicio, Paginas[p])
     ELSE llamada[p].copia = NADA
  /\ llamada[p].pc \in {"inactiva", "inic_asigna", "susp_libera"} =>
       llamada[p].paginas = <<>>
  /\ llamada[p].pc \in {"susp_reserva", "susp_escribe"} =>
       /\ llamada[p].paginas \in Seq(PaginasLeidas(p))
       /\ Len(llamada[p].paginas) <= Paginas[p]
  /\ llamada[p].pc \in PCsSwap =>
       /\ llamada[p].paginas \in Seq(Contenidos)
       /\ Len(llamada[p].paginas) <= Paginas[p]
  /\ llamada[p].pc \in {"susp_reserva", "rean_tabla"} =>
       Len(llamada[p].paginas) = Paginas[p]
  /\ llamada[p].pc \in {"rean_borra", "fin_borra"} => llamada[p].paginas # <<>>

\* Suspensions that have no block yet.
Espera == {p \in Pid : llamada[p].pc \in {"susp_libera", "susp_reserva"}}

\* The file grows with a suspension by the pages of one process, at most.
Cuenta ==
  /\ bajadas \in 0 .. MaxSusp /\ indices \in Seq(BOOLEAN)
  /\ IsFiniteSet(Espera) /\ Cardinality(Espera) <= bajadas
  /\ Len(indices) <= (bajadas - Cardinality(Espera)) * MaxPaginas

Contenido ==
  /\ memoria \in [Marco -> Contenidos] /\ archivo \in [Bloques -> Contenidos]
  /\ creados \subseteq Pid /\ solapes \in BOOLEAN
  /\ DOMAIN escritas = Pid /\ \A p \in Pid : escritas[p] \subseteq 0 .. Paginas[p] - 1

InvDatos ==
  /\ Contenido /\ Cuenta
  /\ \A p \in DOMAIN procesos : EntradaCabe(p)
  /\ \A p \in Pid : LlamadaDatos(p)
---------------------------------------------------------------------------
(* Numbers. *)

LEMMA PaginasEs ==
  ASSUME NEW p \in Pid
  PROVE  /\ Paginas[p] \in Nat /\ Paginas[p] <= MaxPaginas /\ Paginas[p] <= Cota
         /\ Cota \in Nat /\ MaxPaginas \in Nat
<1>1. Paginas[p] \in 0 .. MaxPaginas /\ MaxPaginas \in Nat \ {0} /\ MaxSusp \in Nat \ {0}
  BY MemoriaOK
<1>2. \A a, b \in Nat \ {0} : a * b >= b /\ a * b \in Nat
  OBVIOUS
<1>3. Cota \in Nat /\ Cota >= MaxPaginas
  BY <1>1, <1>2 DEF Cota
<1> QED
  BY <1>1, <1>3

LEMMA MaxDos ==
  ASSUME NEW a \in Int, NEW b \in Int
  PROVE  Max({a, b}) = IF a >= b THEN a ELSE b
<1>1. \A x \in {a, b} : (\A y \in {a, b} : x >= y) <=> x = (IF a >= b THEN a ELSE b)
  OBVIOUS
<1> DEFINE m == IF a >= b THEN a ELSE b
<1>2. m \in {a, b} /\ \A y \in {a, b} : m >= y
  OBVIOUS
<1> HIDE DEF m
<1>3. \A x \in {a, b} : (\A y \in {a, b} : x >= y) => x = m
  BY <1>1 DEF m
<1>4. Max({a, b}) = m
  BY <1>2, <1>3 DEF Max
<1> QED
  BY <1>4 DEF m

\* A set of numbers that is not empty has a least one.
LEMMA MinimoEsta ==
  ASSUME NEW S, S \subseteq Nat, S # {}
  PROVE  Min(S) \in S
<1> DEFINE Menor == {ss \in Nat \X Nat : ss[1] < ss[2]}
<1>1. IsWellFoundedOn(Menor, Nat)
  <2>1. OpToRel(<, Nat) = Menor
    BY Zenon DEF OpToRel
  <2> QED
    BY <2>1, NatLessThanWellFounded
<1>2. \A j, k \in Nat : j < k => <<j, k>> \in Menor
  OBVIOUS
<1> HIDE DEF Menor
<1>3. PICK k \in S : \A j \in S : ~ (<<j, k>> \in Menor)
  BY <1>1, WFMin
<1>4. \A j \in S : k <= j
  <2> TAKE j \in S
  <2>1. j \in Nat /\ k \in Nat
    OBVIOUS
  <2>2. ~ (j < k)
    BY <1>2, <1>3, <2>1, Zenon
  <2> QED
    BY <2>1, <2>2
<1> QED
  BY <1>4 DEF Min

\* A block begins inside the file as it is, or at its end.
LEMMA BloqueDentro ==
  ASSUME indices \in Seq(BOOLEAN), NEW n \in Nat
  PROVE  BloqueLibre(n) \in 0 .. Len(indices)
<1> DEFINE libres == {i \in 0 .. Len(indices) - n : \A j \in 1 .. n : ~indices[i + j]}
<1>1. Len(indices) \in Nat
  BY LenProperties
<1>2. libres \subseteq 0 .. Len(indices) /\ libres \subseteq Nat
  BY <1>1
<1>3. libres # {} => Min(libres) \in libres
  BY <1>2, MinimoEsta
<1> HIDE DEF libres
<1>4. BloqueLibre(n) = IF libres = {} THEN Len(indices) ELSE Min(libres)
  BY DEF BloqueLibre, libres
<1>5. CASE libres = {}
  BY <1>1, <1>4, <1>5
<1>6. CASE libres # {}
  BY <1>2, <1>3, <1>4, <1>6
<1> QED
  BY <1>5, <1>6

\* What reserving does to the file.
LEMMA ReservarEs ==
  ASSUME indices \in Seq(BOOLEAN), NEW n \in Nat, NEW i \in 0 .. Len(indices)
  PROVE  /\ Reservar(i, n) \in Seq(BOOLEAN)
         /\ Len(Reservar(i, n)) = IF Len(indices) >= i + n THEN Len(indices) ELSE i + n
         /\ \A j \in 1 .. Len(Reservar(i, n)) :
              Reservar(i, n)[j] = IF j \in i + 1 .. i + n THEN TRUE ELSE indices[j]
<1>1. Len(indices) \in Nat /\ indices \in [1 .. Len(indices) -> BOOLEAN]
  BY LenProperties
<1> DEFINE m == IF Len(indices) >= i + n THEN Len(indices) ELSE i + n
           s == [j \in 1 .. m |-> IF j \in i + 1 .. i + n THEN TRUE ELSE indices[j]]
<1>2. m \in Nat /\ Max({Len(indices), i + n}) = m
  BY <1>1, MaxDos
<1>3. Reservar(i, n) = s
  BY <1>2 DEF Reservar
<1>4. \A j \in 1 .. m : j \in i + 1 .. i + n \/ j \in 1 .. Len(indices)
  BY <1>1, <1>2
<1>5. s \in [1 .. m -> BOOLEAN]
  BY <1>1, <1>4
<1> HIDE DEF s, m
<1>6. s \in Seq(BOOLEAN) /\ Len(s) = m
  BY <1>2, <1>5
<1> USE DEF s, m
<1>7. \A j \in 1 .. m : s[j] = IF j \in i + 1 .. i + n THEN TRUE ELSE indices[j]
  OBVIOUS
<1> HIDE DEF s
<1> QED
  BY <1>2, <1>3, <1>6, <1>7

LEMMA DesocuparEs ==
  ASSUME indices \in Seq(BOOLEAN), NEW n, NEW i
  PROVE  /\ Desocupar(i, n) \in Seq(BOOLEAN) /\ Len(Desocupar(i, n)) = Len(indices)
         /\ \A j \in 1 .. Len(indices) :
              Desocupar(i, n)[j] = IF j \in i + 1 .. i + n THEN FALSE ELSE indices[j]
<1>1. Len(indices) \in Nat /\ indices \in [1 .. Len(indices) -> BOOLEAN]
  BY LenProperties
<1>2. Desocupar(i, n) \in [1 .. Len(indices) -> BOOLEAN]
  BY <1>1 DEF Desocupar
<1>3. Desocupar(i, n) \in Seq(BOOLEAN) /\ Len(Desocupar(i, n)) = Len(indices)
  BY <1>1, <1>2
<1>4. \A j \in 1 .. Len(indices) :
        Desocupar(i, n)[j] = IF j \in i + 1 .. i + n THEN FALSE ELSE indices[j]
  BY <1>1 DEF Desocupar
<1> QED
  BY <1>3, <1>4

\* A suspension finds all the pages of its process in frames.
LEMMA OcupadasTodas ==
  ASSUME IInv, NEW p \in Pid, llamada[p].pc = "susp_libera"
  PROVE  /\ Ocupadas(p) \in [1 .. Paginas[p] -> 1 .. Paginas[p]]
         /\ \A k \in 1 .. Paginas[p] : \E j \in 1 .. Paginas[p] : Ocupadas(p)[j] = k
<1> DEFINE n == Paginas[p]
           ks == {k \in DOMAIN procesos[p].tabla : procesos[p].tabla[k] \in ocupados}
           Orden(s) == \A i, j \in DOMAIN s : i < j => s[i] < s[j]
<1>1. /\ n \in Nat /\ Existe(p) /\ ~procesos[p].suspendido
      /\ procesos[p].tabla \in Tablas(p)
  BY PaginasEs DEF IInv, Llamadas, LlamadaBuena, PCsSuspende, Entradas, EntradaBuena,
     Existe
<1>2. EnMarcos(p) /\ Propios(p) = ToSet(procesos[p].tabla)
  BY <1>1 DEF EnMarcos, Propios, MarcosDe
<1>3. DOMAIN procesos[p].tabla = 1 .. n
      /\ \A k \in 1 .. n : procesos[p].tabla[k] \in ToSet(procesos[p].tabla)
  BY <1>1 DEF Tablas, ToSet
<1>4. ks = 1 .. n
  BY <1>2, <1>3 DEF IInv, Reparto
<1>5. IsFiniteSet(1 .. n) /\ Cardinality(1 .. n) = n
  BY <1>1, FS_Interval
<1>6. \E s \in [1 .. n -> 1 .. n] : Orden(s)
  <2> DEFINE id == [k \in 1 .. n |-> k]
  <2>1. id \in [1 .. n -> 1 .. n] /\ Orden(id)
    OBVIOUS
  <2> QED
    BY <2>1
<1>7. Ocupadas(p) = CHOOSE s \in [1 .. n -> 1 .. n] : Orden(s)
  BY <1>4, <1>5 DEF Ocupadas
<1>8. PICK s \in [1 .. n -> 1 .. n] : s = Ocupadas(p) /\ Orden(s)
  <2> HIDE DEF Orden
  <2> QED
    BY <1>6, <1>7
<1>9. \A i, j \in 1 .. n : s[i] = s[j] => i = j
  <2>1. \A i \in 1 .. n : s[i] \in Int /\ i \in Int
    OBVIOUS
  <2>2. \A i, j \in 1 .. n : i < j => s[i] < s[j]
    BY <1>8
  <2> QED
    BY <2>1, <2>2
<1>10. s \in Injection(1 .. n, 1 .. n)
  BY <1>9, Fun_IsInj
<1>11. s \in Surjection(1 .. n, 1 .. n)
  BY <1>5, <1>10, FS_Injection
<1> QED
  BY <1>8, <1>11 DEF Surjection

---------------------------------------------------------------------------
(* What a suspension reads, and the block it gets. *)

LEMMA LeidasEs ==
  ASSUME IInv, InvDatos, NEW p \in Pid, llamada[p].pc = "susp_libera"
  PROVE  /\ Leidas(p) \in Seq(PaginasLeidas(p)) /\ Len(Leidas(p)) = Paginas[p]
         /\ \A j \in 1 .. Paginas[p] :
              /\ Leidas(p)[j].num \in 0 .. Paginas[p] - 1
              /\ Leidas(p)[j].contenido = memoria[procesos[p].tabla[Leidas(p)[j].num + 1]]
         /\ \A k \in 0 .. Paginas[p] - 1 : \E j \in 1 .. Paginas[p] : Leidas(p)[j].num = k
<1> DEFINE n == Paginas[p]
           o == Ocupadas(p)
           t == procesos[p].tabla
<1>1. n \in Nat /\ o \in [1 .. n -> 1 .. n] /\ \A k \in 1 .. n : \E j \in 1 .. n : o[j] = k
  BY OcupadasTodas, PaginasEs
<1>2. t \in [1 .. n -> Marco] /\ memoria \in [Marco -> Contenidos]
  BY DEF IInv, Llamadas, LlamadaBuena, PCsSuspende, Entradas, EntradaBuena, Existe, Tablas,
     InvDatos, Contenido
<1> HIDE DEF n, o, t
<1>3. Leidas(p) = [j \in 1 .. n |-> [num |-> o[j] - 1, contenido |-> memoria[t[o[j]]]]]
  BY <1>1 DEF Leidas, o, t
<1>4. \A j \in 1 .. n : o[j] \in 1 .. n /\ o[j] - 1 \in 0 .. n - 1 /\ (o[j] - 1) + 1 = o[j]
  <2> TAKE j \in 1 .. n
  <2>1. o[j] \in 1 .. n
    BY <1>1
  <2>2. n \in Nat
    BY <1>1
  <2>3. \A x \in 1 .. n : x - 1 \in 0 .. n - 1 /\ (x - 1) + 1 = x
    BY <2>2
  <2> QED
    BY <2>1, <2>3
<1>5. \A j \in 1 .. n : memoria[t[o[j]]] \in Contenidos
  BY <1>2, <1>4
<1>6. Leidas(p) \in [1 .. n -> PaginasLeidas(p)]
  BY <1>3, <1>4, <1>5 DEF PaginasLeidas, n
<1>7. Leidas(p) \in Seq(PaginasLeidas(p)) /\ Len(Leidas(p)) = n
  BY <1>1, <1>6
<1>8. \A j \in 1 .. n : /\ Leidas(p)[j].num = o[j] - 1
                        /\ Leidas(p)[j].contenido = memoria[t[o[j]]]
  BY <1>3
<1>9. \A k \in 0 .. n - 1 : \E j \in 1 .. n : Leidas(p)[j].num = k
  <2> TAKE k \in 0 .. n - 1
  <2>1. k + 1 \in 1 .. n /\ k \in Int
    BY <1>1
  <2>2. PICK j \in 1 .. n : o[j] = k + 1
    BY <1>1, <2>1
  <2>3. Leidas(p)[j].num = k
    BY <1>8, <2>1, <2>2
  <2> QED
    BY <2>3
<1>10. \A j \in 1 .. n : /\ Leidas(p)[j].num \in 0 .. n - 1
                         /\ Leidas(p)[j].contenido = memoria[t[Leidas(p)[j].num + 1]]
  BY <1>4, <1>8
<1> QED
  BY <1>7, <1>9, <1>10 DEF n, t

\* The block a suspension gets is inside the file.
LEMMA BloqueCabe ==
  ASSUME InvDatos, NEW p \in Pid, p \in Espera, NEW n \in Nat, n <= MaxPaginas
  PROVE  /\ BloqueLibre(n) \in Nat /\ BloqueLibre(n) + n <= Cota
         /\ Len(Reservar(BloqueLibre(n), n)) <=
              (bajadas - Cardinality(Espera \ {p})) * MaxPaginas
         /\ Reservar(BloqueLibre(n), n) \in Seq(BOOLEAN)
<1> DEFINE c == Cardinality(Espera)
           b == BloqueLibre(n)
           l == Len(indices)
<1>1. /\ bajadas \in 0 .. MaxSusp /\ indices \in Seq(BOOLEAN) /\ IsFiniteSet(Espera)
      /\ c <= bajadas /\ l <= (bajadas - c) * MaxPaginas
  BY DEF InvDatos, Cuenta
<1>2. c \in Nat /\ l \in Nat /\ Cardinality(Espera \ {p}) = c - 1
      /\ Cardinality(Espera \ {p}) \in Nat
  BY <1>1, FS_CardinalityType, FS_RemoveElement, LenProperties
<1>3. b \in 0 .. l
  BY <1>1, BloqueDentro
<1>4. MaxPaginas \in Nat /\ MaxSusp \in Nat /\ Cota = MaxSusp * MaxPaginas
  BY MemoriaOK DEF Cota
<1> HIDE DEF c, b, l
<1>5. bajadas - c \in Nat /\ bajadas - (c - 1) \in Nat /\ bajadas - (c - 1) <= MaxSusp
      /\ bajadas - (c - 1) = (bajadas - c) + 1
  BY <1>1, <1>2, <1>4
<1>6. \A x, m \in Nat : (x + 1) * m = x * m + m /\ x * m \in Nat
  OBVIOUS
<1>7. \A x, y, m \in Nat : x <= y => x * m <= y * m
  OBVIOUS
<1>8. l + n <= (bajadas - (c - 1)) * MaxPaginas
  <2>1. (bajadas - (c - 1)) * MaxPaginas = (bajadas - c) * MaxPaginas + MaxPaginas
        /\ (bajadas - c) * MaxPaginas \in Nat
    BY <1>4, <1>5, <1>6
  <2> QED
    BY <1>1, <1>2, <1>4, <2>1
<1>9. (bajadas - (c - 1)) * MaxPaginas <= Cota /\ (bajadas - (c - 1)) * MaxPaginas \in Nat
  BY <1>4, <1>5, <1>6, <1>7
<1>10. b \in Nat /\ b + n <= l + n /\ l <= l + n
  BY <1>2, <1>3
<1>11. Reservar(b, n) \in Seq(BOOLEAN) /\ Len(Reservar(b, n)) <= l + n
  <2>1. /\ Reservar(b, n) \in Seq(BOOLEAN)
        /\ Len(Reservar(b, n)) = IF l >= b + n THEN l ELSE b + n
    BY <1>1, <1>3, ReservarEs DEF l
  <2> QED
    BY <1>2, <1>10, <2>1
<1>12. Cota \in Nat /\ Len(Reservar(b, n)) \in Nat
  BY <1>9, <1>11, <1>4, LenProperties
<1> DEFINE m == (bajadas - (c - 1)) * MaxPaginas
<1> HIDE DEF m
<1>13. l + n <= m /\ m <= Cota /\ m \in Nat
  BY <1>8, <1>9 DEF m
<1>14. b + n <= Cota /\ Len(Reservar(b, n)) <= m
  BY <1>2, <1>3, <1>10, <1>11, <1>12, <1>13
<1> QED
  BY <1>2, <1>10, <1>11, <1>14 DEF b, m

\* What a step does to the suspensions without a block.
LEMMA EsperaSinCambio ==
  ASSUME IInv, NEW p \in Pid, Paso(p),
         llamada'[p].pc \in {"susp_libera", "susp_reserva"} <=>
           llamada[p].pc \in {"susp_libera", "susp_reserva"}
  PROVE  Espera' = Espera
<1>1. \A q \in Pid \ {p} : llamada'[q] = llamada[q]
  BY Ajenos
<1> QED
  BY <1>1 DEF Espera

LEMMA CuentaIgual ==
  ASSUME Cuenta, Espera' = Espera, bajadas' = bajadas,
         indices' \in Seq(BOOLEAN), Len(indices') = Len(indices)
  PROVE  Cuenta'
BY DEF Cuenta

LEMMA PasoCuenta ==
  ASSUME IInv, InvDatos, NEW p \in Pid, Paso(p) PROVE Cuenta'
<1>1. Cuenta /\ LlamadaBuena(p) /\ LlamadaDatos(p) /\ indices \in Seq(BOOLEAN)
  BY DEF InvDatos, IInv, Llamadas, Cuenta
<1>2. CASE IniciarProceso(p)
  <2>1. llamada'[p].pc = "inic_asigna" /\ llamada[p].pc = "inactiva"
    BY <1>2, EfectoIniciarProceso, Guardas DEF Campos
  <2> QED
    BY <1>1, <1>2, <2>1, EsperaSinCambio, CuentaIgual DEF IniciarProceso
<1>3. CASE ReanudarProceso(p)
  <2>1. llamada'[p].pc = "rean_lee" /\ llamada[p].pc = "inactiva"
    BY <1>3, EfectoReanudarProceso, Guardas DEF Campos
  <2> QED
    BY <1>1, <1>3, <2>1, EsperaSinCambio, CuentaIgual DEF ReanudarProceso
<1>4. CASE \/ IniciarAsignar(p) \/ SuspenderGuardar(p) \/ ReanudarTabla(p)
           \/ FinalizarBorrado(p)
  <2>1. llamada'[p].pc = "inactiva"
    BY <1>4, EfectoTerminar, Guardas DEF Campos
  <2>2. llamada[p].pc \in {"inic_asigna", "susp_escribe", "rean_tabla", "fin_lee"}
    BY <1>4, Guardas
  <2>3. bajadas' = bajadas /\ indices' = indices
    BY <1>4 DEF IniciarAsignar, SuspenderGuardar, ReanudarTabla, FinalizarBorrado
  <2> QED
    BY <1>1, <2>1, <2>2, <2>3, EsperaSinCambio, CuentaIgual
<1>5. CASE (\E k \in 0 .. Paginas[p] - 1 : Escribir(p, k)) \/ FinalizarProceso(p)
  <2>1. llamada' = llamada /\ bajadas' = bajadas /\ indices' = indices
    BY <1>5 DEF Escribir, FinalizarProceso
  <2> QED
    BY <1>1, <2>1, EsperaSinCambio, CuentaIgual
<1>6. CASE SuspenderProceso(p)
  <2>1. llamada'[p].pc = "susp_libera" /\ llamada[p].pc = "inactiva"
    BY <1>6, EfectoSuspenderProceso, Guardas DEF Campos
  <2>2. Espera' = Espera \cup {p} /\ p \notin Espera
    <3>1. \A q \in Pid \ {p} : llamada'[q] = llamada[q]
      BY Ajenos
    <3> QED
      BY <2>1, <3>1 DEF Espera
  <2>3. /\ bajadas < MaxSusp /\ bajadas' = bajadas + 1 /\ indices' = indices
        /\ bajadas \in 0 .. MaxSusp /\ MaxSusp \in Nat
    BY <1>1, <1>6, MemoriaOK DEF SuspenderProceso, Cuenta
  <2>4. /\ IsFiniteSet(Espera) /\ Cardinality(Espera) \in Nat
        /\ IsFiniteSet(Espera') /\ Cardinality(Espera') = Cardinality(Espera) + 1
    BY <1>1, <2>2, FS_AddElement, FS_CardinalityType DEF Cuenta
  <2>5. bajadas' - Cardinality(Espera') = bajadas - Cardinality(Espera)
    BY <2>3, <2>4
  <2> QED
    BY <1>1, <2>3, <2>4, <2>5 DEF Cuenta
<1>7. CASE SuspenderLiberar(p)
  <2>1. llamada'[p].pc = "susp_reserva" /\ llamada[p].pc = "susp_libera"
    BY <1>7, EfectoSuspenderLiberar, Guardas DEF Campos
  <2> QED
    BY <1>1, <1>7, <2>1, EsperaSinCambio, CuentaIgual DEF SuspenderLiberar
<1>8. CASE SuspenderReservar(p)
  <2> DEFINE n == Len(llamada[p].paginas)
  <2>1. llamada'[p].pc = "susp_escribe" /\ llamada[p].pc = "susp_reserva"
    BY <1>8, EfectoSuspenderReservar, Guardas DEF Campos
  <2>2. Espera' = Espera \ {p} /\ p \in Espera
    <3>1. \A q \in Pid \ {p} : llamada'[q] = llamada[q]
      BY Ajenos
    <3> QED
      BY <2>1, <3>1 DEF Espera
  <2>3. n \in Nat /\ n <= MaxPaginas
    BY <1>1, <2>1, PaginasEs DEF LlamadaDatos
  <2>4. /\ Len(indices') <= (bajadas - Cardinality(Espera \ {p})) * MaxPaginas
        /\ indices' \in Seq(BOOLEAN) /\ bajadas' = bajadas
    <3> HIDE DEF n
    <3>1. indices' = Reservar(BloqueLibre(n), n) /\ bajadas' = bajadas
      BY <1>8 DEF SuspenderReservar, n
    <3> QED
      BY <2>2, <2>3, <3>1, BloqueCabe
  <2>5. /\ IsFiniteSet(Espera) /\ Cardinality(Espera) \in Nat
        /\ IsFiniteSet(Espera') /\ Cardinality(Espera') = Cardinality(Espera) - 1
    BY <1>1, <2>2, FS_RemoveElement, FS_CardinalityType DEF Cuenta
  <2>6. bajadas \in 0 .. MaxSusp /\ Cardinality(Espera) <= bajadas /\ MaxSusp \in Nat
    BY <1>1, MemoriaOK DEF Cuenta
  <2>7. Cardinality(Espera') <= bajadas'
    BY <2>4, <2>5, <2>6
  <2> QED
    BY <2>2, <2>4, <2>5, <2>6, <2>7 DEF Cuenta
<1>9. CASE SuspenderEscribir(p)
  <2>1. llamada'[p].pc = "susp_escribe" /\ llamada[p].pc = "susp_escribe"
    BY <1>9, EfectoSuspenderEscribir, Guardas DEF Campos
  <2> QED
    BY <1>1, <1>9, <2>1, EsperaSinCambio, CuentaIgual DEF SuspenderEscribir
<1>10. CASE SwapLeer(p)
  <2>1. /\ llamada'[p].pc \in {"rean_borra", "fin_borra"}
        /\ llamada[p].pc \in {"rean_lee", "fin_lee"}
    BY <1>10, EfectoSwapLeer, Guardas, SiguienteEs DEF Campos
  <2> QED
    BY <1>1, <1>10, <2>1, EsperaSinCambio, CuentaIgual DEF SwapLeer
<1>11. CASE SwapBorrar(p)
  <2>1. /\ llamada'[p].pc \in {"rean_lee", "fin_lee"}
        /\ llamada[p].pc \in {"rean_borra", "fin_borra"}
    BY <1>11, EfectoSwapBorrar, Guardas, SiguienteEs DEF Campos
  <2>2. indices' \in Seq(BOOLEAN) /\ Len(indices') = Len(indices) /\ bajadas' = bajadas
    BY <1>1, <1>11, DesocuparEs DEF SwapBorrar
  <2> QED
    BY <1>1, <2>1, <2>2, EsperaSinCambio, CuentaIgual
<1>12. CASE ReanudarEscribir(p)
  <2>1. llamada'[p].pc = "rean_tabla" /\ llamada[p].pc = "rean_lee"
    BY <1>12, EfectoReanudarEscribir, Guardas DEF Campos
  <2> QED
    BY <1>1, <1>12, <2>1, EsperaSinCambio, CuentaIgual DEF ReanudarEscribir
<1>13. CASE FinalizarSuspendido(p)
  <2>1. llamada'[p].pc = "fin_lee" /\ llamada[p].pc = "inactiva"
    BY <1>13, EfectoFinalizarSuspendido, Guardas DEF Campos
  <2> QED
    BY <1>1, <1>13, <2>1, EsperaSinCambio, CuentaIgual DEF FinalizarSuspendido
<1> QED
  BY <1>2, <1>3, <1>4, <1>5, <1>6, <1>7, <1>8, <1>9, <1>10, <1>11, <1>12, <1>13 DEF Paso

---------------------------------------------------------------------------
(* The data after a step. *)

\* A process in swap, or on its way, has the entry the invariant gives it.
LEMMA EntradaDe ==
  ASSUME IInv, InvDatos, NEW p \in Pid, Existe(p)
  PROVE  /\ EsEntrada(procesos[p]) /\ procesos[p].cant = Paginas[p]
         /\ procesos[p].tabla \in Tablas(p) /\ EntradaCabe(p)
BY DEF IInv, Entradas, EntradaBuena, Existe, InvDatos

\* The page of the file a step reads or clears.
LEMMA PaginaEnArchivo ==
  ASSUME NEW p \in Pid, NEW i, CabeEn(i, Paginas[p]), NEW k \in Nat, k < Paginas[p]
  PROVE  i + k \in Bloques /\ i \in Nat
BY PaginasEs DEF CabeEn, Bloques, Cota

LEMMA CeroCabe == ASSUME NEW p \in Pid PROVE CabeEn(0, Paginas[p])
BY PaginasEs DEF CabeEn

LEMMA PasoEntradaCabe ==
  ASSUME IInv, InvDatos, NEW p \in Pid, Paso(p), Existe(p)' PROVE EntradaCabe(p)'
<1>1. Existe(p) => EntradaCabe(p)
  BY DEF InvDatos, Existe
<1>2. LlamadaDatos(p) /\ LlamadaBuena(p)
  BY DEF InvDatos, IInv, Llamadas
<1>3. CASE IniciarAsignar(p)
  <2>1. procesos'[p].inicio = 0
    BY <1>3 DEF IniciarAsignar
  <2> QED
    BY <2>1, CeroCabe DEF EntradaCabe
<1>4. CASE SuspenderEscribir(p)
  <2>1. Existe(p) /\ EsEntrada(procesos[p])
    BY <1>2, <1>4, Guardas, EntradaDe DEF LlamadaBuena, PCsSuspende
  <2>2. CASE procesos' = procesos
    BY <1>1, <2>1, <2>2 DEF EntradaCabe
  <2>3. CASE procesos' = [procesos EXCEPT ![p].inicio = llamada[p].inicio]
    <3>1. procesos'[p] = [procesos[p] EXCEPT !.inicio = llamada[p].inicio]
      BY <2>1, <2>3 DEF Existe
    <3>2. procesos'[p].inicio = llamada[p].inicio
      BY <2>1, <3>1 DEF EsEntrada
    <3> QED
      BY <1>2, <3>2 DEF LlamadaDatos, EntradaCabe
  <2> QED
    BY <1>4, <2>2, <2>3 DEF SuspenderEscribir
<1>5. CASE SuspenderGuardar(p)
  <2>1. llamada[p].pc \in PCsSuspende /\ Existe(p)
    BY <1>2, <1>5, Guardas DEF LlamadaBuena, PCsSuspende
  <2>2. procesos'[p] = llamada[p].copia
    BY <1>5, <2>1 DEF SuspenderGuardar, Existe
  <2> QED
    BY <1>2, <2>1, <2>2 DEF LlamadaDatos, EntradaCabe
<1>6. CASE ReanudarTabla(p)
  <2>1. Existe(p) /\ EsEntrada(procesos[p])
    BY <1>2, <1>6, Guardas, EntradaDe DEF LlamadaBuena, PCsReanuda
  <2>2. PICK t : procesos' = [procesos EXCEPT ![p].suspendido = FALSE, ![p].tabla = t]
    BY <1>6 DEF ReanudarTabla
  <2>3. procesos'[p] = [[procesos[p] EXCEPT !.suspendido = FALSE] EXCEPT !.tabla = t]
    BY <2>1, <2>2 DEF Existe
  <2>4. procesos'[p].inicio = procesos[p].inicio
    BY <2>1, <2>3 DEF EsEntrada
  <2> QED
    BY <1>1, <2>1, <2>4 DEF EntradaCabe
<1>7. CASE FinalizarProceso(p) \/ FinalizarBorrado(p)
  BY <1>7 DEF FinalizarProceso, FinalizarBorrado, Restrict, Existe
<1>8. ASSUME procesos' = procesos PROVE EntradaCabe(p)'
  BY <1>1, <1>8 DEF EntradaCabe, Existe
<1>9. CASE IniciarProceso(p) \/ SuspenderProceso(p) \/ SuspenderLiberar(p)
  BY <1>8, <1>9 DEF IniciarProceso, SuspenderProceso, SuspenderLiberar
<1>10. CASE SuspenderReservar(p) \/ SwapLeer(p) \/ SwapBorrar(p)
  BY <1>8, <1>10 DEF SuspenderReservar, SwapLeer, SwapBorrar
<1>11. CASE ReanudarProceso(p) \/ ReanudarEscribir(p) \/ FinalizarSuspendido(p)
  BY <1>8, <1>11 DEF ReanudarProceso, ReanudarEscribir, FinalizarSuspendido
<1>12. CASE \E k \in 0 .. Paginas[p] - 1 : Escribir(p, k)
  BY <1>8, <1>12 DEF Escribir
<1> QED
  BY <1>3, <1>4, <1>5, <1>6, <1>7, <1>9, <1>10, <1>11, <1>12 DEF Paso

LEMMA PasoLlamadaDatos ==
  ASSUME IInv, InvDatos, NEW p \in Pid, Paso(p) PROVE LlamadaDatos(p)'
<1>1. LlamadaDatos(p) /\ LlamadaBuena(p)
  BY DEF InvDatos, IInv, Llamadas
<1>n. Paginas[p] \in Nat /\ Paginas[p] <= MaxPaginas
  BY PaginasEs
<1>c. Contenidos' = Contenidos
  BY DEF Contenidos, PaginasDe
<1> USE DEF PCsLargo, PCsReanuda, PCsSuspende, PCsSwap
<1>2. CASE IniciarProceso(p)
  BY <1>1, <1>2, EfectoIniciarProceso, Guardas DEF Campos, LlamadaDatos
<1>3. CASE ReanudarProceso(p)
  <2>1. llamada[p].paginas = <<>> /\ llamada[p].copia = NADA
        /\ CabeEn(llamada[p].inicio, Paginas[p])
    BY <1>1, <1>3, Guardas DEF LlamadaDatos
  <2>2. <<>> \in Seq(Contenidos) /\ Len(<<>>) = 0
    OBVIOUS
  <2>3. llamada'[p].pc = "rean_lee" /\ llamada'[p].paginas = <<>>
        /\ llamada'[p].copia = NADA /\ llamada'[p].inicio = llamada[p].inicio
    BY <1>3, <2>1, EfectoReanudarProceso DEF Campos
  <2> QED
    BY <1>n, <1>c, <2>1, <2>2, <2>3 DEF LlamadaDatos
<1>4. CASE \/ IniciarAsignar(p) \/ SuspenderGuardar(p) \/ ReanudarTabla(p)
           \/ FinalizarBorrado(p)
  BY <1>4, EfectoTerminar, CeroCabe DEF Campos, LlamadaDatos
<1>5. CASE (\E k \in 0 .. Paginas[p] - 1 : Escribir(p, k)) \/ FinalizarProceso(p)
  <2>1. llamada' = llamada
    BY <1>5 DEF Escribir, FinalizarProceso
  <2> QED
    BY <1>1, <2>1 DEF LlamadaDatos
<1>6. CASE SuspenderProceso(p)
  <2>1. PICK c : c = [procesos[p] EXCEPT !.suspendido = TRUE]
    OBVIOUS
  <2>2. CabeEn(c.inicio, Paginas[p])
    <3>1. Existe(p)
      BY <1>6 DEF SuspenderProceso
    <3>2. c.inicio = procesos[p].inicio
      BY <2>1, <3>1, EntradaDe DEF EsEntrada
    <3> QED
      BY <3>1, <3>2, EntradaDe DEF EntradaCabe
  <2>3. Campos(llamada'[p], "susp_libera", llamada[p].marcos, llamada[p].paginas,
               llamada[p].inicio, c)
    BY <1>6, <2>1, EfectoSuspenderProceso
  <2> QED
    BY <1>1, <1>6, <2>2, <2>3, Guardas DEF Campos, LlamadaDatos
<1>7. CASE SuspenderLiberar(p)
  <2>1. llamada[p].pc = "susp_libera"
    BY <1>7, Guardas
  <2>2. PICK s : s = Leidas(p)
    OBVIOUS
  <2>3. s \in Seq(PaginasLeidas(p)) /\ Len(s) = Paginas[p]
    BY <2>1, <2>2, LeidasEs
  <2>4. Campos(llamada'[p], "susp_reserva", llamada[p].marcos, s, llamada[p].inicio,
               llamada[p].copia)
    BY <1>7, <2>2, EfectoSuspenderLiberar
  <2>5. PaginasLeidas(p)' = PaginasLeidas(p)
    BY DEF PaginasLeidas, Contenidos, PaginasDe
  <2> QED
    BY <1>1, <1>n, <2>1, <2>3, <2>4, <2>5 DEF Campos, LlamadaDatos
<1>8. CASE SuspenderReservar(p)
  <2>1. llamada[p].pc = "susp_reserva" /\ p \in Espera
    BY <1>8, Guardas DEF Espera
  <2>2. PICK i : i = BloqueLibre(Paginas[p])
    OBVIOUS
  <2>3. CabeEn(i, Paginas[p])
    BY <1>n, <2>1, <2>2, BloqueCabe DEF CabeEn
  <2>4. Len(llamada[p].paginas) = Paginas[p]
    BY <1>1, <2>1 DEF LlamadaDatos
  <2>5. Campos(llamada'[p], "susp_escribe", llamada[p].marcos, llamada[p].paginas, i,
               llamada[p].copia)
    BY <1>8, <2>2, <2>4, EfectoSuspenderReservar
  <2>6. PaginasLeidas(p)' = PaginasLeidas(p)
    BY DEF PaginasLeidas, Contenidos, PaginasDe
  <2> QED
    BY <1>1, <2>1, <2>3, <2>5, <2>6 DEF Campos, LlamadaDatos
<1>9. CASE SuspenderEscribir(p)
  <2>1. llamada[p].pc = "susp_escribe" /\ llamada[p].paginas # <<>>
    BY <1>9, Guardas DEF SuspenderEscribir
  <2>2. PICK s : s = Tail(llamada[p].paginas)
    OBVIOUS
  <2>3. s \in Seq(PaginasLeidas(p)) /\ Len(s) <= Paginas[p]
    <3>1. llamada[p].paginas \in Seq(PaginasLeidas(p)) /\ Len(llamada[p].paginas) <= Paginas[p]
      BY <1>1, <2>1 DEF LlamadaDatos
    <3>2. Len(s) = Len(llamada[p].paginas) - 1 /\ s \in Seq(PaginasLeidas(p))
      BY <2>1, <2>2, <3>1, HeadTailProperties
    <3>3. Len(llamada[p].paginas) \in Nat
      BY <3>1, LenProperties
    <3> QED
      BY <1>n, <3>1, <3>2, <3>3
  <2>4. Campos(llamada'[p], "susp_escribe", llamada[p].marcos, s, llamada[p].inicio,
               llamada[p].copia)
    BY <1>9, <2>2, EfectoSuspenderEscribir
  <2>5. PaginasLeidas(p)' = PaginasLeidas(p)
    BY DEF PaginasLeidas, Contenidos, PaginasDe
  <2> QED
    BY <1>1, <2>1, <2>3, <2>4, <2>5 DEF Campos, LlamadaDatos
<1>10. CASE SwapLeer(p)
  <2> DEFINE k == Len(llamada[p].paginas)
  <2>1. /\ llamada[p].pc \in {"rean_lee", "fin_lee"} /\ Existe(p)
        /\ llamada[p].paginas \in Seq(Contenidos)
    BY <1>1, <1>10, Guardas DEF LlamadaBuena, LlamadaDatos
  <2>2. k \in Nat /\ k < Paginas[p]
    BY <1>10, <2>1, EntradaDe, LenProperties DEF SwapLeer
  <2>3. PICK x : x = archivo[procesos[p].inicio + k]
    OBVIOUS
  <2>4. x \in Contenidos
    <3>1. procesos[p].inicio + k \in Bloques
      BY <2>1, <2>2, EntradaDe, PaginaEnArchivo DEF EntradaCabe
    <3> QED
      BY <2>3, <3>1 DEF InvDatos, Contenido
  <2>5. PICK s : s = Append(llamada[p].paginas, x)
    OBVIOUS
  <2>6. s \in Seq(Contenidos) /\ Len(s) = k + 1 /\ s # <<>>
    BY <2>1, <2>4, <2>5, AppendProperties
  <2>7. PICK pc \in {"rean_borra", "fin_borra"} :
          Campos(llamada'[p], pc, llamada[p].marcos, s, llamada[p].inicio, llamada[p].copia)
                 /\ (pc = "rean_borra" <=> llamada[p].pc = "rean_lee")
    BY <1>10, <2>1, <2>3, <2>5, EfectoSwapLeer, SiguienteEs
  <2>8. Len(s) <= Paginas[p]
    BY <1>n, <2>2, <2>6
  <2>9. /\ llamada'[p].pc \in {"rean_borra", "fin_borra"} /\ llamada'[p].paginas = s
        /\ llamada'[p].inicio = llamada[p].inicio /\ llamada'[p].copia = llamada[p].copia
        /\ llamada'[p].marcos = llamada[p].marcos
        /\ llamada'[p].pc = "rean_borra" <=> llamada[p].pc = "rean_lee"
    BY <2>7 DEF Campos
  <2>10. /\ CabeEn(llamada[p].inicio, Paginas[p]) /\ llamada[p].copia = NADA
         /\ llamada[p].pc # "rean_lee" => llamada[p].marcos = <<>>
    BY <1>1, <2>1 DEF LlamadaDatos
  <2> QED
    BY <1>c, <2>6, <2>8, <2>9, <2>10 DEF LlamadaDatos
<1>11. CASE SwapBorrar(p)
  <2>1. llamada[p].pc \in {"rean_borra", "fin_borra"}
    BY <1>11, Guardas
  <2>2. PICK pc \in {"rean_lee", "fin_lee"} :
          Campos(llamada'[p], pc, llamada[p].marcos, llamada[p].paginas, llamada[p].inicio,
                 llamada[p].copia) /\ (pc = "rean_lee" <=> llamada[p].pc = "rean_borra")
    BY <1>11, <2>1, EfectoSwapBorrar, SiguienteEs
  <2>3. /\ llamada'[p].pc \in {"rean_lee", "fin_lee"}
        /\ llamada'[p].paginas = llamada[p].paginas
        /\ llamada'[p].inicio = llamada[p].inicio /\ llamada'[p].copia = llamada[p].copia
        /\ llamada'[p].marcos = llamada[p].marcos
        /\ llamada'[p].pc = "rean_lee" <=> llamada[p].pc = "rean_borra"
    BY <2>2 DEF Campos
  <2>4. /\ CabeEn(llamada[p].inicio, Paginas[p]) /\ llamada[p].copia = NADA
        /\ llamada[p].pc # "rean_borra" => llamada[p].marcos = <<>>
        /\ llamada[p].paginas \in Seq(Contenidos) /\ Len(llamada[p].paginas) <= Paginas[p]
    BY <1>1, <2>1 DEF LlamadaDatos
  <2> QED
    BY <1>c, <2>3, <2>4 DEF LlamadaDatos
<1>12. CASE ReanudarEscribir(p)
  <2>1. llamada[p].pc = "rean_lee" /\ Existe(p)
    BY <1>1, <1>12, Guardas DEF LlamadaBuena
  <2>2. Len(llamada[p].paginas) = Paginas[p]
    BY <1>12, <2>1, EntradaDe DEF ReanudarEscribir
  <2> QED
    BY <1>1, <1>12, <2>1, <2>2, EfectoReanudarEscribir DEF Campos, LlamadaDatos
<1>13. CASE FinalizarSuspendido(p)
  <2>1. llamada[p].paginas = <<>> /\ llamada[p].copia = NADA
        /\ CabeEn(llamada[p].inicio, Paginas[p]) /\ llamada[p].marcos = <<>>
    BY <1>1, <1>13, Guardas DEF LlamadaDatos
  <2>2. <<>> \in Seq(Contenidos) /\ Len(<<>>) = 0
    OBVIOUS
  <2>3. llamada'[p].pc = "fin_lee" /\ llamada'[p].paginas = <<>>
        /\ llamada'[p].marcos = <<>>
        /\ llamada'[p].copia = NADA /\ llamada'[p].inicio = llamada[p].inicio
    BY <1>13, <2>1, EfectoFinalizarSuspendido DEF Campos
  <2> QED
    BY <1>n, <1>c, <2>1, <2>2, <2>3 DEF LlamadaDatos
<1> QED
  BY <1>2, <1>3, <1>4, <1>5, <1>6, <1>7, <1>8, <1>9, <1>10, <1>11, <1>12, <1>13 DEF Paso

LEMMA EsContenido ==
  ASSUME NEW p \in Pid, NEW k \in 0 .. Paginas[p] - 1 PROVE <<p, k>> \in Contenidos
BY DEF Contenidos, PaginasDe

\* Freeing frames leaves contents in memory.
LEMMA LiberarContenido ==
  ASSUME NEW p \in Pid, LiberarMarcos(p), memoria \in [Marco -> Contenidos]
  PROVE  memoria' \in [Marco -> Contenidos]
<1>1. CERO \in Contenidos
  BY DEF Contenidos
<1> QED
  BY <1>1 DEF LiberarMarcos

\* A page of the file overwritten.
LEMMA CambiaArchivo ==
  ASSUME archivo \in [Bloques -> Contenidos], NEW i, NEW x \in Contenidos,
         archivo' = [archivo EXCEPT ![i] = x]
  PROVE  archivo' \in [Bloques -> Contenidos]
OBVIOUS

LEMMA PasoContenido ==
  ASSUME IInv, InvDatos, NEW p \in Pid, Paso(p) PROVE Contenido'
<1>1. /\ memoria \in [Marco -> Contenidos] /\ archivo \in [Bloques -> Contenidos]
      /\ creados \subseteq Pid /\ solapes \in BOOLEAN
      /\ DOMAIN escritas = Pid /\ \A q \in Pid : escritas[q] \subseteq 0 .. Paginas[q] - 1
      /\ LlamadaDatos(p) /\ LlamadaBuena(p)
  BY DEF InvDatos, Contenido, IInv, Llamadas
<1>2. Contenidos' = Contenidos /\ CERO \in Contenidos
  BY DEF Contenidos, PaginasDe
<1>3. ASSUME UNCHANGED <<creados, escritas, solapes>>,
             memoria' \in [Marco -> Contenidos], archivo' \in [Bloques -> Contenidos]
      PROVE  Contenido'
  BY <1>1, <1>2, <1>3 DEF Contenido
<1>4. CASE IniciarProceso(p) \/ SuspenderProceso(p)
  BY <1>1, <1>3, <1>4 DEF IniciarProceso, SuspenderProceso, datosVars, historiaVars
<1>5. CASE ReanudarProceso(p) \/ FinalizarSuspendido(p)
  BY <1>1, <1>3, <1>5 DEF ReanudarProceso, FinalizarSuspendido, datosVars, historiaVars
<1>6. CASE SuspenderGuardar(p) \/ ReanudarTabla(p) \/ FinalizarBorrado(p) \/ SwapLeer(p)
  BY <1>1, <1>3, <1>6 DEF SuspenderGuardar, ReanudarTabla, FinalizarBorrado, SwapLeer,
     datosVars, historiaVars
<1>7. CASE IniciarAsignar(p)
  <2>1. UNCHANGED <<memoria, archivo, escritas, solapes>> /\ creados' = creados \cup {p}
    BY <1>7 DEF IniciarAsignar, datosVars
  <2> QED
    BY <1>1, <1>2, <2>1 DEF Contenido
<1>8. CASE \E k \in 0 .. Paginas[p] - 1 : Escribir(p, k)
  <2>1. PICK k \in 0 .. Paginas[p] - 1 : Escribir(p, k)
    BY <1>8
  <2>2. PICK f : f = procesos[p].tabla[k + 1]
    OBVIOUS
  <2>3. /\ memoria' = [memoria EXCEPT ![f] = <<p, k>>]
        /\ escritas' = [escritas EXCEPT ![p] = @ \cup {k}]
        /\ UNCHANGED <<archivo, creados, solapes>>
    BY <2>1, <2>2 DEF Escribir
  <2>4. memoria' \in [Marco -> Contenidos]
    BY <1>1, <2>3, EsContenido
  <2>5. DOMAIN escritas' = Pid /\ \A q \in Pid : escritas'[q] \subseteq 0 .. Paginas[q] - 1
    BY <1>1, <2>3
  <2> QED
    BY <1>1, <1>2, <2>3, <2>4, <2>5 DEF Contenido
<1>9. CASE SuspenderLiberar(p)
  <2>1. LiberarMarcos(p) /\ UNCHANGED <<archivo, creados, escritas, solapes>>
    BY <1>9 DEF SuspenderLiberar, historiaVars
  <2> QED
    BY <1>1, <1>3, <2>1, LiberarContenido
<1>10. CASE FinalizarProceso(p)
  <2>1. LiberarMarcos(p) /\ UNCHANGED <<archivo, creados, escritas, solapes>>
    BY <1>10 DEF FinalizarProceso, historiaVars
  <2> QED
    BY <1>1, <1>3, <2>1, LiberarContenido
<1>11. CASE SuspenderReservar(p)
  <2>1. UNCHANGED <<memoria, archivo, creados, escritas>> /\ solapes' \in BOOLEAN
    BY <1>1, <1>11 DEF SuspenderReservar, datosVars
  <2> QED
    BY <1>1, <1>2, <2>1 DEF Contenido
<1>12. CASE SuspenderEscribir(p)
  <2>1. PICK g : g = Head(llamada[p].paginas)
    OBVIOUS
  <2>2. llamada[p].paginas \in Seq(PaginasLeidas(p)) /\ llamada[p].paginas # <<>>
    BY <1>1, <1>12, Guardas DEF LlamadaDatos, SuspenderEscribir
  <2>3. g \in PaginasLeidas(p)
    BY <2>1, <2>2, HeadTailProperties
  <2>4. g.contenido \in Contenidos
    BY <2>3 DEF PaginasLeidas
  <2>5. archivo' = [archivo EXCEPT ![llamada[p].inicio + g.num] = g.contenido]
        /\ UNCHANGED <<memoria, creados, escritas, solapes>>
    BY <1>12, <2>1 DEF SuspenderEscribir, historiaVars
  <2>6. archivo' \in [Bloques -> Contenidos]
    BY <1>1, <2>4, <2>5, CambiaArchivo
  <2> QED
    BY <1>1, <1>3, <2>5, <2>6
<1>13. CASE SwapBorrar(p)
  <2>1. PICK i : archivo' = [archivo EXCEPT ![i] = CERO]
    BY <1>13 DEF SwapBorrar
  <2>2. archivo' \in [Bloques -> Contenidos]
    BY <1>1, <1>2, <2>1, CambiaArchivo
  <2> QED
    BY <1>1, <1>3, <1>13, <2>2 DEF SwapBorrar, historiaVars
<1>14. CASE ReanudarEscribir(p)
  <2> DEFINE marcos == llamada[p].marcos
             paginas == llamada[p].paginas
  <2>1. llamada[p].pc = "rean_lee" /\ marcos \in Tablas(p) /\ Existe(p)
    BY <1>1, <1>14, Guardas DEF LlamadaBuena, PCsLargo, PCsReanuda
  <2>2. paginas \in Seq(Contenidos) /\ Len(paginas) = Paginas[p]
    BY <1>1, <1>14, <2>1, EntradaDe DEF LlamadaDatos, PCsSwap, ReanudarEscribir
  <2>3. DOMAIN marcos = 1 .. Paginas[p]
    BY <2>1 DEF Tablas
  <2> HIDE DEF marcos, paginas
  <2>4. \A f \in ToSet(marcos) : (CHOOSE i \in DOMAIN marcos : marcos[i] = f) \in 1 .. Paginas[p]
    BY <2>3 DEF ToSet
  <2>5. \A i \in 1 .. Paginas[p] : paginas[i] \in Contenidos
    BY <2>2, ElementOfSeq
  <2>6. memoria' = [f \in Marco |->
          IF f \in ToSet(marcos) THEN paginas[CHOOSE i \in DOMAIN marcos : marcos[i] = f]
          ELSE memoria[f]]
        /\ UNCHANGED <<archivo, creados, escritas, solapes>>
    BY <1>14 DEF ReanudarEscribir, marcos, paginas, historiaVars
  <2>7. memoria' \in [Marco -> Contenidos]
    BY <1>1, <2>4, <2>5, <2>6
  <2> QED
    BY <1>1, <1>3, <2>6, <2>7
<1> QED
  BY <1>4, <1>5, <1>6, <1>7, <1>8, <1>9, <1>10, <1>11, <1>12, <1>13, <1>14 DEF Paso

\* The others keep their data, since their calls and entries stay.
LEMMA DatosAjenos ==
  ASSUME IInv, InvDatos, NEW p \in Pid, Paso(p), NEW q \in Pid \ {p}
  PROVE  LlamadaDatos(q)' /\ (Existe(q)' => EntradaCabe(q)')
<1>1. /\ llamada'[q] = llamada[q] /\ (Existe(q)' <=> Existe(q))
      /\ Existe(q) => procesos'[q] = procesos[q]
  BY Ajenos
<1>2. LlamadaDatos(q) /\ (Existe(q) => EntradaCabe(q))
  BY DEF InvDatos, Existe
<1>3. Contenidos' = Contenidos /\ PaginasLeidas(q)' = PaginasLeidas(q)
  BY DEF Contenidos, PaginasDe, PaginasLeidas
<1>4. LlamadaDatos(q)'
  BY <1>1, <1>2, <1>3 DEF LlamadaDatos
<1> QED
  BY <1>1, <1>2, <1>4 DEF EntradaCabe

LEMMA PasoInvDatos ==
  ASSUME IInv, IInv', InvDatos, [Next]_vars PROVE InvDatos'
<1>1. CASE UNCHANGED vars
  <2>1. UNCHANGED <<procesos, memoria, indices, archivo, llamada, creados, escritas,
                    solapes, bajadas>>
    BY <1>1 DEF vars, datosVars, historiaVars
  <2>2. Contenidos' = Contenidos
    BY DEF Contenidos, PaginasDe
  <2>3. Contenido' /\ Cuenta'
    BY <2>1, <2>2 DEF InvDatos, Contenido, Cuenta, Espera
  <2>4. ASSUME NEW q \in Pid PROVE LlamadaDatos(q)' /\ (Existe(q)' => EntradaCabe(q)')
    <3>1. LlamadaDatos(q) /\ (Existe(q) => EntradaCabe(q))
      BY DEF InvDatos, Existe
    <3>2. PaginasLeidas(q)' = PaginasLeidas(q)
      BY <2>2 DEF PaginasLeidas
    <3> QED
      BY <2>1, <2>2, <3>1, <3>2 DEF LlamadaDatos, EntradaCabe, Existe
  <2>5. DOMAIN procesos' \subseteq Pid
    BY DEF IInv, Entradas
  <2> QED
    BY <2>3, <2>4, <2>5 DEF InvDatos, Existe
<1>2. ASSUME NEW p \in Pid, Paso(p) PROVE InvDatos'
  <2>1. Contenido' /\ Cuenta'
    BY <1>2, PasoContenido, PasoCuenta
  <2>2. \A q \in Pid : LlamadaDatos(q)'
    BY <1>2, DatosAjenos, PasoLlamadaDatos
  <2>3. \A q \in Pid : Existe(q)' => EntradaCabe(q)'
    BY <1>2, DatosAjenos, PasoEntradaCabe
  <2>4. DOMAIN procesos' \subseteq Pid
    BY DEF IInv, Entradas
  <2> QED
    BY <2>1, <2>2, <2>3, <2>4 DEF InvDatos, Existe
<1> QED
  BY <1>1, <1>2 DEF Next

LEMMA InvDatosInicial == Init => InvDatos
<1> SUFFICES ASSUME Init PROVE InvDatos
  OBVIOUS
<1>1. \A p \in Pid : llamada[p] = SinLlamada
  BY DEF Init
<1>2. Contenido
  BY DEF Init, Contenido, Contenidos
<1>3. Espera = {}
  BY <1>1 DEF Espera, SinLlamada
<1>4. Cuenta
  <2>1. IsFiniteSet({}) /\ Cardinality({}) = 0
    BY FS_EmptySet
  <2>2. indices = <<>> /\ bajadas = 0 /\ MaxSusp \in Nat /\ MaxPaginas \in Nat
    BY MemoriaOK DEF Init
  <2>3. <<>> \in Seq(BOOLEAN) /\ Len(<<>>) = 0
    OBVIOUS
  <2> QED
    BY <1>3, <2>1, <2>2, <2>3 DEF Cuenta
<1>5. ASSUME NEW p \in Pid PROVE LlamadaDatos(p)
  BY <1>1, CeroCabe DEF LlamadaDatos, SinLlamada, PCsLargo, PCsReanuda, PCsSuspende, PCsSwap
<1> QED
  BY <1>2, <1>4, <1>5 DEF InvDatos, Init

\* An entry of a process with pages has its type.
LEMMA EntradaTipo ==
  ASSUME NEW p \in Pid, Paginas[p] > 0, NEW e, EsEntrada(e), e.suspendido \in BOOLEAN,
         e.tabla \in Tablas(p), e.cant = Paginas[p], CabeEn(e.inicio, Paginas[p])
  PROVE  e \in EntradaProceso
<1>1. Paginas[p] \in Nat /\ Cota \in Nat
  BY PaginasEs
<1>2. e.inicio \in Bloques
  BY <1>1 DEF CabeEn, Bloques, Cota
<1>3. e.tabla \in Seq(Marco)
  BY <1>1 DEF Tablas
<1>4. e.cant \in Nat \ {0}
  BY <1>1
<1>5. PICK a, b, c, d : a = e.suspendido /\ b = e.tabla /\ c = e.inicio /\ d = e.cant
  OBVIOUS
<1>6. e = [suspendido |-> a, tabla |-> b, inicio |-> c, cant |-> d]
  BY <1>5 DEF EsEntrada
<1> QED
  BY <1>2, <1>3, <1>4, <1>5, <1>6 DEF EntradaProceso

LEMMA ImplicaTipos == ASSUME IInv, InvDatos, ConPaginas PROVE TiposMemoria
<1>1. ASSUME NEW p \in DOMAIN procesos PROVE procesos[p] \in EntradaProceso
  <2>1. p \in Pid /\ EntradaBuena(p) /\ EntradaCabe(p) /\ Paginas[p] > 0
    BY DEF IInv, Entradas, InvDatos, ConPaginas
  <2> QED
    BY <2>1, EntradaTipo DEF EntradaBuena, EntradaCabe
<1>2. Len(indices) <= Cardinality(Bloques)
  <2>1. Cota \in Nat /\ MaxPaginas \in Nat /\ MaxSusp \in Nat
    BY MemoriaOK DEF Cota
  <2>2. Cardinality(Bloques) = Cota
    <3>1. Bloques = 0 .. Cota - 1 /\ 0 \in Int /\ Cota - 1 \in Int
      BY <2>1 DEF Bloques, Cota
    <3>2. Cardinality(0 .. Cota - 1) = IF 0 > Cota - 1 THEN 0 ELSE (Cota - 1) - 0 + 1
      BY <3>1, FS_Interval, Zenon
    <3> QED
      BY <2>1, <3>1, <3>2
  <2>3. /\ bajadas \in 0 .. MaxSusp /\ Cardinality(Espera) \in Nat
        /\ Cardinality(Espera) <= bajadas /\ Len(indices) \in Nat
        /\ Len(indices) <= (bajadas - Cardinality(Espera)) * MaxPaginas
    BY FS_CardinalityType, LenProperties DEF InvDatos, Cuenta
  <2>4. PICK x : x = bajadas - Cardinality(Espera)
    OBVIOUS
  <2>5. x \in Nat /\ x <= MaxSusp /\ Len(indices) <= x * MaxPaginas
    BY <2>1, <2>3, <2>4
  <2>6. \A a, b, m \in Nat : a <= b => a * m <= b * m /\ a * m \in Nat
    OBVIOUS
  <2>7. x * MaxPaginas <= Cota /\ x * MaxPaginas \in Nat
    BY <2>1, <2>5, <2>6 DEF Cota
  <2> QED
    BY <2>1, <2>2, <2>3, <2>5, <2>7
<1>3. ASSUME NEW p \in Pid
      PROVE  /\ llamada[p].pc \in PCsLlamada
             /\ llamada[p].marcos \in Seq(Marco)
             /\ Existe(p) => Len(llamada[p].paginas) <= procesos[p].cant
             /\ llamada[p].inicio \in Bloques
             /\ llamada[p].copia \in EntradaProceso \cup {NADA}
  <2>1. /\ LlamadaBuena(p) /\ LlamadaDatos(p) /\ Paginas[p] > 0 /\ Paginas[p] \in Nat
        /\ Cota \in Nat
    BY PaginasEs DEF IInv, Llamadas, InvDatos, ConPaginas
  <2>2. llamada[p].pc \in PCsLlamada
    BY <2>1 DEF LlamadaBuena
  <2>3. llamada[p].marcos \in Seq(Marco)
    <3>1. CASE llamada[p].pc \in PCsLargo
      BY <2>1, <3>1 DEF LlamadaBuena, Tablas
    <3>2. CASE llamada[p].pc \notin PCsLargo
      <4>1. llamada[p].marcos = <<>>
        BY <2>1, <3>2 DEF LlamadaDatos
      <4> QED
        BY <4>1
    <3> QED
      BY <3>1, <3>2
  <2>4. Existe(p) => Len(llamada[p].paginas) <= procesos[p].cant
    <3>1. Existe(p) => procesos[p].cant = Paginas[p]
      BY EntradaDe
    <3>2. llamada[p].pc \in {"inactiva", "inic_asigna", "susp_libera"} =>
            Len(llamada[p].paginas) <= Paginas[p]
      BY <2>1 DEF LlamadaDatos
    <3>3. llamada[p].pc \in PCsSwap \cup {"susp_reserva", "susp_escribe"} =>
            Len(llamada[p].paginas) <= Paginas[p]
      BY <2>1 DEF LlamadaDatos, PCsSwap
    <3> QED
      BY <2>2, <3>1, <3>2, <3>3 DEF PCsLlamada, PCsSwap
  <2>5. llamada[p].inicio \in Bloques
    BY <2>1 DEF LlamadaDatos, CabeEn, Bloques, Cota
  <2>6. llamada[p].copia \in EntradaProceso \cup {NADA}
    <3>1. CASE llamada[p].pc \in PCsSuspende
      <4>1. /\ Existe(p) /\ EsEntrada(llamada[p].copia) /\ llamada[p].copia.suspendido = TRUE
            /\ llamada[p].copia.tabla = procesos[p].tabla
            /\ llamada[p].copia.cant = procesos[p].cant
            /\ CabeEn(llamada[p].copia.inicio, Paginas[p])
        BY <2>1, <3>1 DEF LlamadaBuena, LlamadaDatos
      <4> QED
        BY <2>1, <4>1, EntradaDe, EntradaTipo
    <3>2. CASE llamada[p].pc \notin PCsSuspende
      BY <2>1, <3>2 DEF LlamadaDatos
    <3> QED
      BY <3>1, <3>2
  <2> QED
    BY <2>2, <2>3, <2>4, <2>5, <2>6
<1> QED
  BY <1>1, <1>2, <1>3 DEF TiposMemoria, IInv, Entradas, Reparto, InvDatos, Contenido, Cuenta

\* When every process has pages, every variable of the module keeps its type,
\* for any number of processes, pages, frames and suspensions: no call of
\* eliminarPaginasSWAP reads more pages than its process has, and no block of
\* obtenerIndiceSwapDisponible reaches beyond what so many suspensions of
\* processes of at most MaxPaginas pages can need.
THEOREM TiposDeMemoria == ConPaginas => (Spec => []TiposMemoria)
<1> SUFFICES ASSUME ConPaginas PROVE Spec => []TiposMemoria
  OBVIOUS
<1>1. Init => IInv /\ InvDatos
  BY InvarianteInicial, InvDatosInicial
<1>2. IInv /\ InvDatos /\ [Next]_vars => IInv' /\ InvDatos'
  BY InvariantePaso, PasoInvDatos
<1>3. IInv /\ InvDatos => TiposMemoria
  BY ImplicaTipos
<1> QED
  BY <1>1, <1>2, <1>3, PTL DEF Spec
---------------------------------------------------------------------------
(* The contents of frames and swap. *)

\* It has a block of the swap file.
EnArchivo(p) ==
  Existe(p) /\ (procesos[p].suspendido \/ llamada[p].pc = "susp_escribe")

\* One process at most has, and without any the file is as new.
UnoEnArchivo == \A p, q \in Pid : EnArchivo(p) /\ EnArchivo(q) => p = q

ArchivoVacio ==
  (\A p \in Pid : ~EnArchivo(p)) =>
    /\ \A b \in Bloques : archivo[b] = CERO
    /\ \A i \in DOMAIN indices : ~indices[i]

\* Every block is the first.
Inicios(p) ==
  /\ llamada[p].inicio = 0
  /\ llamada[p].pc \in PCsSuspende => llamada[p].copia.inicio = 0
  /\ Existe(p) => procesos[p].inicio = 0

\* In frames it has what it wrote ...
EnSusMarcos(p) ==
  EnMarcos(p) =>
    \A k \in 0 .. Paginas[p] - 1 : memoria[TablaDe(p)[k + 1]] = PaginaDe(p, k)

\* The page k is among those its suspension still has to write.
Lleva(p, k) ==
  \E j \in 1 .. Len(llamada[p].paginas) : llamada[p].paginas[j].num = k

\* ... on the way to the file too ...
EnViaje(p) ==
  llamada[p].pc \in {"susp_reserva", "susp_escribe"} =>
    /\ \A j \in 1 .. Len(llamada[p].paginas) :
         llamada[p].paginas[j].contenido = PaginaDe(p, llamada[p].paginas[j].num)
    /\ llamada[p].pc = "susp_reserva" => \A k \in 0 .. Paginas[p] - 1 : Lleva(p, k)

\* The pages that left the file.
Salidas(p) ==
  IF llamada[p].pc \in {"rean_borra", "fin_borra"} THEN Len(llamada[p].paginas) - 1
  ELSE Len(llamada[p].paginas)

\* The first n pages of the file are taken, and no others.
Marcado(n) ==
  /\ n <= Len(indices)
  /\ \A i \in 1 .. Len(indices) : indices[i] <=> i <= n

\* ... and in the file, or already read from it.
EnSuBloque(p) ==
  /\ Existe(p) /\ procesos[p].suspendido =>
       /\ \A j \in 1 .. Len(llamada[p].paginas) :
            llamada[p].paginas[j] = PaginaDe(p, j - 1)
       /\ \A b \in Bloques :
            archivo[b] = IF b < Salidas(p) THEN CERO ELSE PaginaDe(p, b)
       /\ Marcado(IF Salidas(p) = 0 THEN Paginas[p] ELSE 0)
  /\ llamada[p].pc = "susp_escribe" =>
       /\ \A b \in Bloques : Lleva(p, b) \/ archivo[b] = PaginaDe(p, b)
       /\ Marcado(Paginas[p])

\* Who was not admitted wrote nothing.
SinEscribir == \A p \in Pid : p \notin creados => escritas[p] = {}

SinSolapes ==
  /\ UnoEnArchivo /\ ArchivoVacio
  /\ \A p \in Pid : Inicios(p) /\ EnSusMarcos(p) /\ EnViaje(p) /\ EnSuBloque(p)

InvContenidos == SinEscribir /\ (~solapes => SinSolapes)
---------------------------------------------------------------------------
(* What each step touches. *)

LEMMA QuienArchivo ==
  ASSUME NEW p \in Pid, Paso(p), ~SuspenderEscribir(p), ~SwapBorrar(p)
  PROVE  archivo' = archivo /\ (~SuspenderReservar(p) => indices' = indices)
<1>1. CASE IniciarProceso(p) \/ IniciarAsignar(p)
  BY <1>1 DEF IniciarProceso, IniciarAsignar, datosVars
<1>2. CASE \E k \in 0 .. Paginas[p] - 1 : Escribir(p, k)
  BY <1>2 DEF Escribir
<1>3. CASE SuspenderProceso(p) \/ SuspenderLiberar(p) \/ SuspenderReservar(p)
  BY <1>3 DEF SuspenderProceso, SuspenderLiberar, SuspenderReservar, datosVars
<1>4. CASE SuspenderGuardar(p) \/ SwapLeer(p)
  BY <1>4 DEF SuspenderGuardar, SwapLeer, datosVars
<1>5. CASE ReanudarProceso(p) \/ ReanudarEscribir(p) \/ ReanudarTabla(p)
  BY <1>5 DEF ReanudarProceso, ReanudarEscribir, ReanudarTabla, datosVars
<1>6. CASE FinalizarProceso(p) \/ FinalizarSuspendido(p) \/ FinalizarBorrado(p)
  BY <1>6 DEF FinalizarProceso, FinalizarSuspendido, FinalizarBorrado, datosVars
<1> QED
  BY <1>1, <1>2, <1>3, <1>4, <1>5, <1>6 DEF Paso

LEMMA QuienMemoria ==
  ASSUME NEW p \in Pid, Paso(p), ~SuspenderLiberar(p), ~FinalizarProceso(p),
         ~ReanudarEscribir(p), ~\E k \in 0 .. Paginas[p] - 1 : Escribir(p, k)
  PROVE  memoria' = memoria
<1>1. CASE IniciarProceso(p) \/ IniciarAsignar(p)
  BY <1>1 DEF IniciarProceso, IniciarAsignar, datosVars
<1>3. CASE SuspenderProceso(p) \/ SuspenderReservar(p)
  BY <1>3 DEF SuspenderProceso, SuspenderReservar, datosVars
<1>4. CASE SuspenderEscribir(p) \/ SuspenderGuardar(p) \/ SwapLeer(p) \/ SwapBorrar(p)
  BY <1>4 DEF SuspenderEscribir, SuspenderGuardar, SwapLeer, SwapBorrar, datosVars
<1>5. CASE ReanudarProceso(p) \/ ReanudarTabla(p)
  BY <1>5 DEF ReanudarProceso, ReanudarTabla, datosVars
<1>6. CASE FinalizarSuspendido(p) \/ FinalizarBorrado(p)
  BY <1>6 DEF FinalizarSuspendido, FinalizarBorrado, datosVars
<1> QED
  BY <1>1, <1>3, <1>4, <1>5, <1>6 DEF Paso

\* Only p writes pages of p, and only reserving notes a block.
LEMMA QuienHistoria ==
  ASSUME NEW p \in Pid, Paso(p), DOMAIN escritas = Pid
  PROVE  /\ \A q \in Pid \ {p} : escritas'[q] = escritas[q]
         /\ (~\E k \in 0 .. Paginas[p] - 1 : Escribir(p, k)) => escritas' = escritas
         /\ ~SuspenderReservar(p) => solapes' = solapes
         /\ solapes => solapes'
<1>1. CASE IniciarProceso(p) \/ IniciarAsignar(p)
  BY <1>1 DEF IniciarProceso, IniciarAsignar, historiaVars
<1>2. CASE \E k \in 0 .. Paginas[p] - 1 : Escribir(p, k)
  <2>1. PICK k \in 0 .. Paginas[p] - 1 : Escribir(p, k)
    BY <1>2
  <2>2. escritas' = [escritas EXCEPT ![p] = @ \cup {k}] /\ solapes' = solapes
    BY <2>1 DEF Escribir
  <2> QED
    BY <1>2, <2>2
<1>3. CASE SuspenderProceso(p) \/ SuspenderLiberar(p)
  BY <1>3 DEF SuspenderProceso, SuspenderLiberar, historiaVars
<1>7. CASE SuspenderReservar(p)
  <2>1. escritas' = escritas /\ (solapes => solapes')
    BY <1>7 DEF SuspenderReservar
  <2> QED
    BY <1>7, <2>1
<1>4. CASE SuspenderEscribir(p) \/ SuspenderGuardar(p) \/ SwapLeer(p) \/ SwapBorrar(p)
  BY <1>4 DEF SuspenderEscribir, SuspenderGuardar, SwapLeer, SwapBorrar, historiaVars
<1>5. CASE ReanudarProceso(p) \/ ReanudarEscribir(p) \/ ReanudarTabla(p)
  BY <1>5 DEF ReanudarProceso, ReanudarEscribir, ReanudarTabla, historiaVars
<1>6. CASE FinalizarProceso(p) \/ FinalizarSuspendido(p) \/ FinalizarBorrado(p)
  BY <1>6 DEF FinalizarProceso, FinalizarSuspendido, FinalizarBorrado, historiaVars
<1> QED
  BY <1>1, <1>2, <1>3, <1>4, <1>5, <1>6, <1>7 DEF Paso

\* Entries that a step leaves as they are.
LEMMA EntradasQuietas ==
  ASSUME NEW p \in Pid,
         \/ IniciarProceso(p) \/ \E k \in 0 .. Paginas[p] - 1 : Escribir(p, k)
         \/ SuspenderProceso(p) \/ SuspenderLiberar(p) \/ SuspenderReservar(p)
         \/ SwapLeer(p) \/ SwapBorrar(p) \/ ReanudarProceso(p) \/ ReanudarEscribir(p)
         \/ FinalizarSuspendido(p)
  PROVE  procesos' = procesos
<1>1. (\E k \in 0 .. Paginas[p] - 1 : Escribir(p, k)) => procesos' = procesos
  BY DEF Escribir
<1> QED
  BY <1>1 DEF IniciarProceso, SuspenderProceso, SuspenderLiberar, SuspenderReservar,
     SwapLeer, SwapBorrar, ReanudarProceso, ReanudarEscribir, FinalizarSuspendido

LEMMA EfectoEscribirEntrada ==
  ASSUME IInv, NEW p \in Pid, SuspenderEscribir(p)
  PROVE  /\ Existe(p) /\ Existe(p)' /\ ~procesos[p].suspendido /\ ~procesos'[p].suspendido
         /\ procesos'[p].tabla = procesos[p].tabla
         /\ procesos'[p].inicio \in {procesos[p].inicio, llamada[p].inicio}
<1>1. Existe(p) /\ EsEntrada(procesos[p]) /\ ~procesos[p].suspendido
  <2>1. LlamadaBuena(p) /\ llamada[p].pc \in PCsSuspende
    BY Guardas DEF IInv, Llamadas, PCsSuspende
  <2> QED
    BY <2>1 DEF LlamadaBuena, IInv, Entradas, EntradaBuena, Existe
<1>2. procesos' = procesos \/ procesos' = [procesos EXCEPT ![p].inicio = llamada[p].inicio]
  BY DEF SuspenderEscribir
<1>3. CASE procesos' = procesos
  BY <1>1, <1>3 DEF Existe
<1>4. CASE procesos' = [procesos EXCEPT ![p].inicio = llamada[p].inicio]
  <2>1. procesos'[p] = [procesos[p] EXCEPT !.inicio = llamada[p].inicio] /\ Existe(p)'
    BY <1>1, <1>4 DEF Existe
  <2> QED
    BY <1>1, <2>1 DEF EsEntrada
<1> QED
  BY <1>2, <1>3, <1>4

LEMMA EfectoGuardarEntrada ==
  ASSUME IInv, NEW p \in Pid, SuspenderGuardar(p)
  PROVE  Existe(p) /\ Existe(p)' /\ procesos'[p] = llamada[p].copia /\ procesos'[p].suspendido
<1>1. LlamadaBuena(p) /\ llamada[p].pc \in PCsSuspende
  BY Guardas DEF IInv, Llamadas, PCsSuspende
<1>2. Existe(p) /\ llamada[p].copia.suspendido = TRUE
  BY <1>1 DEF LlamadaBuena
<1> QED
  BY <1>2 DEF SuspenderGuardar, Existe

LEMMA EfectoTablaEntrada ==
  ASSUME IInv, NEW p \in Pid, ReanudarTabla(p)
  PROVE  /\ Existe(p) /\ procesos[p].suspendido /\ Existe(p)' /\ ~procesos'[p].suspendido
         /\ procesos'[p].inicio = procesos[p].inicio
         /\ procesos'[p].tabla = llamada[p].marcos
<1>1. LlamadaBuena(p) /\ llamada[p].pc = "rean_tabla"
  BY Guardas DEF IInv, Llamadas
<1>2. /\ Existe(p) /\ procesos[p].suspendido /\ llamada[p].marcos \in Tablas(p)
      /\ EsEntrada(procesos[p]) /\ procesos[p].tabla \in Tablas(p)
  BY <1>1 DEF LlamadaBuena, PCsReanuda, PCsLargo, IInv, Entradas, EntradaBuena, Existe
<1>3. PICK t : t = [k \in DOMAIN procesos[p].tabla |-> llamada[p].marcos[k]]
  OBVIOUS
<1>4. t = llamada[p].marcos
  BY <1>2, <1>3 DEF Tablas
<1>5. procesos' = [procesos EXCEPT ![p].suspendido = FALSE, ![p].tabla = t]
  <2>1. procesos' = [procesos EXCEPT ![p].suspendido = FALSE,
                     ![p].tabla = [k \in DOMAIN @ |-> llamada[p].marcos[k]]]
    BY DEF ReanudarTabla
  <2> QED
    BY <1>2, <1>3, <2>1 DEF Existe
<1>6. procesos'[p] = [[procesos[p] EXCEPT !.suspendido = FALSE] EXCEPT !.tabla = t]
      /\ Existe(p)'
  BY <1>2, <1>5 DEF Existe
<1> QED
  BY <1>2, <1>4, <1>6 DEF EsEntrada

\* Who has a block after a step had one, or has just got it.
LEMMA QuienReserva ==
  ASSUME IInv, NEW p \in Pid, Paso(p), EnArchivo(p)'
  PROVE  EnArchivo(p) \/ SuspenderReservar(p)
<1> SUFFICES ASSUME ~SuspenderReservar(p) PROVE EnArchivo(p)
  OBVIOUS
<1>1. CASE \/ IniciarProceso(p) \/ SuspenderProceso(p) \/ SuspenderLiberar(p)
           \/ ReanudarProceso(p) \/ ReanudarEscribir(p) \/ FinalizarSuspendido(p)
  <2>1. procesos' = procesos
    BY <1>1, EntradasQuietas
  <2>2. llamada'[p].pc # "susp_escribe"
    BY <1>1, EfectoIniciarProceso, EfectoSuspenderProceso, EfectoSuspenderLiberar,
       EfectoReanudarProceso, EfectoReanudarEscribir, EfectoFinalizarSuspendido DEF Campos
  <2> QED
    BY <2>1, <2>2 DEF EnArchivo, Existe
<1>2. CASE SwapLeer(p) \/ SwapBorrar(p)
  <2>1. procesos' = procesos
    BY <1>2, EntradasQuietas
  <2>2. llamada'[p].pc # "susp_escribe"
    BY <1>2, Guardas, EfectoSwapLeer, EfectoSwapBorrar, SiguienteEs DEF Campos
  <2> QED
    BY <2>1, <2>2 DEF EnArchivo, Existe
<1>3. CASE \E k \in 0 .. Paginas[p] - 1 : Escribir(p, k)
  BY <1>3 DEF Escribir, EnArchivo, Existe
<1>4. CASE SuspenderEscribir(p) \/ SuspenderGuardar(p)
  BY <1>4, Guardas, EfectoEscribirEntrada, EfectoGuardarEntrada DEF EnArchivo
<1>5. CASE ReanudarTabla(p)
  BY <1>5, EfectoTablaEntrada DEF EnArchivo
<1>6. CASE FinalizarProceso(p) \/ FinalizarBorrado(p)
  BY <1>6 DEF FinalizarProceso, FinalizarBorrado, Restrict, EnArchivo, Existe
<1>7. CASE IniciarAsignar(p)
  <2>1. llamada'[p].pc = "inactiva"
    BY <1>7, EfectoTerminar DEF Campos
  <2>2. ~procesos'[p].suspendido
    BY <1>7 DEF IniciarAsignar
  <2> QED
    BY <2>1, <2>2 DEF EnArchivo
<1> QED
  BY <1>1, <1>2, <1>3, <1>4, <1>5, <1>6, <1>7 DEF Paso

\* The others keep theirs.
LEMMA ArchivoAjeno ==
  ASSUME IInv, NEW p \in Pid, Paso(p), NEW q \in Pid \ {p}
  PROVE  EnArchivo(q)' <=> EnArchivo(q)
BY Ajenos DEF EnArchivo

\* A block that is the first, with nobody else in swap.
LEMMA ReservarSolo ==
  ASSUME NEW p \in Pid, SuspenderReservar(p), ~solapes'
  PROVE  /\ ~solapes /\ BloqueLibre(Len(llamada[p].paginas)) = 0
         /\ \A q \in Pid \ {p} : ~EnArchivo(q)
<1>1. ~solapes /\ BloqueLibre(Len(llamada[p].paginas)) = 0 /\ EnSwap \ {p} = {}
  BY DEF SuspenderReservar
<1>2. \A q \in Pid \ {p} : ~EnArchivo(q)
  BY <1>1 DEF EnSwap, EnArchivo, PCsSuspende
<1> QED
  BY <1>1, <1>2

LEMMA TablaPropia ==
  ASSUME IInv, NEW q \in Pid, EnMarcos(q)
  PROVE  /\ TablaDe(q) \in Tablas(q)
         /\ \A k \in 0 .. Paginas[q] - 1 : TablaDe(q)[k + 1] \in Propios(q)
<1>1. TablaDe(q) \in Tablas(q)
  BY DEF EnMarcos, Existe, TablaDe, IInv, Entradas, EntradaBuena, Llamadas, LlamadaBuena,
     PCsLargo, PCsReanuda
<1>2. Propios(q) = ToSet(TablaDe(q))
  BY DEF Propios, MarcosDe, TablaDe
<1>3. Paginas[q] \in Nat /\ DOMAIN TablaDe(q) = 1 .. Paginas[q]
  BY <1>1, PaginasEs DEF Tablas
<1>4. \A k \in 0 .. Paginas[q] - 1 : k + 1 \in 1 .. Paginas[q]
  BY <1>3
<1> QED
  BY <1>1, <1>2, <1>3, <1>4 DEF ToSet

\* p loses its frames from where its table says.
LEMMA QuienLibera ==
  ASSUME IInv, NEW p \in Pid, SuspenderLiberar(p) \/ FinalizarProceso(p)
  PROVE  LiberarMarcos(p) /\ EnMarcos(p) /\ Propios(p) = MarcosDe(p)
<1>1. CASE SuspenderLiberar(p)
  <2>1. LiberarMarcos(p) /\ llamada[p].pc = "susp_libera"
    BY <1>1 DEF SuspenderLiberar
  <2>2. Existe(p) /\ ~procesos[p].suspendido
    BY <2>1 DEF IInv, Llamadas, LlamadaBuena, PCsSuspende
  <2> QED
    BY <2>1, <2>2 DEF EnMarcos, Propios
<1>2. CASE FinalizarProceso(p)
  BY <1>2 DEF FinalizarProceso, EnMarcos, Propios, Inactiva
<1> QED
  BY <1>1, <1>2

\* Nobody touches the frames of somebody else.
LEMMA MemoriaAjena ==
  ASSUME IInv, NEW p \in Pid, Paso(p), NEW q \in Pid \ {p}, EnMarcos(q), NEW f \in Propios(q)
  PROVE  memoria'[f] = memoria[f]
<1>1. f \in ocupados /\ f \in Marco /\ (EnMarcos(p) => f \notin Propios(p))
  BY DEF IInv, Reparto
<1>2. CASE \E k \in 0 .. Paginas[p] - 1 : Escribir(p, k)
  <2>1. PICK k \in 0 .. Paginas[p] - 1 : Escribir(p, k)
    BY <1>2
  <2>2. EnMarcos(p) /\ TablaDe(p) = procesos[p].tabla
    BY <2>1 DEF Escribir, EnMarcos, TablaDe, Inactiva
  <2>3. PICK g : g = procesos[p].tabla[k + 1]
    OBVIOUS
  <2>4. g \in Propios(p)
    BY <2>2, <2>3, TablaPropia
  <2>5. memoria' = [memoria EXCEPT ![g] = <<p, k>>]
    BY <2>1, <2>3 DEF Escribir
  <2> QED
    BY <1>1, <2>2, <2>4, <2>5
<1>3. CASE SuspenderLiberar(p) \/ FinalizarProceso(p)
  <2>1. LiberarMarcos(p) /\ f \notin MarcosDe(p)
    BY <1>1, <1>3, QuienLibera
  <2> QED
    BY <1>1, <2>1 DEF LiberarMarcos
<1>4. CASE ReanudarEscribir(p)
  <2>1. f \notin ToSet(llamada[p].marcos)
    BY <1>1, <1>4, Guardas DEF IInv, Llamadas, LlamadaBuena, PCsLargo, PCsReanuda
  <2> QED
    BY <1>1, <1>4, <2>1 DEF ReanudarEscribir
<1> QED
  BY <1>2, <1>3, <1>4, QuienMemoria

LEMMA MarcosAjenos ==
  ASSUME IInv, InvDatos, NEW p \in Pid, Paso(p), NEW q \in Pid \ {p}, EnSusMarcos(q)
  PROVE  EnSusMarcos(q)'
<1> SUFFICES ASSUME EnMarcos(q)'
             PROVE  \A k \in 0 .. Paginas[q] - 1 :
                      memoria'[TablaDe(q)'[k + 1]] = PaginaDe(q, k)'
  BY DEF EnSusMarcos
<1>1. EnMarcos(q) /\ TablaDe(q)' = TablaDe(q)
  BY Ajenos DEF EnMarcos, TablaDe
<1>2. escritas'[q] = escritas[q]
  BY QuienHistoria DEF InvDatos, Contenido
<1>3. ASSUME NEW k \in 0 .. Paginas[q] - 1
      PROVE  memoria'[TablaDe(q)'[k + 1]] = PaginaDe(q, k)'
  <2>1. TablaDe(q)[k + 1] \in Propios(q)
    BY <1>1, TablaPropia
  <2>2. memoria'[TablaDe(q)[k + 1]] = memoria[TablaDe(q)[k + 1]]
    BY <1>1, <2>1, MemoriaAjena
  <2>3. memoria[TablaDe(q)[k + 1]] = PaginaDe(q, k)
    BY <1>1 DEF EnSusMarcos
  <2> QED
    BY <1>1, <1>2, <2>2, <2>3 DEF PaginaDe
<1> QED
  BY <1>3

\* p stays in frames, with the same table, memory and pages.
LEMMA MarcosQuietos ==
  ASSUME NEW p, EnSusMarcos(p), memoria' = memoria, escritas' = escritas,
         EnMarcos(p)' => EnMarcos(p) /\ TablaDe(p)' = TablaDe(p)
  PROVE  EnSusMarcos(p)'
BY DEF EnSusMarcos, PaginaDe

LEMMA PasoEnSusMarcos ==
  ASSUME IInv, IInv', InvDatos, InvCreados, SinEscribir, NEW p \in Pid, Paso(p),
         EnSusMarcos(p), EnSuBloque(p)
  PROVE  EnSusMarcos(p)'
<1>0. DOMAIN escritas = Pid /\ LlamadaBuena(p) /\ LlamadaDatos(p)
      /\ Paginas[p] \in Nat /\ DOMAIN memoria = Marco
  BY PaginasEs DEF InvDatos, Contenido, IInv, Llamadas, Reparto
<1>1. CASE IniciarAsignar(p)
  <2> SUFFICES ASSUME NEW k \in 0 .. Paginas[p] - 1
               PROVE  memoria'[TablaDe(p)'[k + 1]] = PaginaDe(p, k)'
    BY DEF EnSusMarcos
  <2>1. /\ llamada[p].pc = "inic_asigna" /\ p \notin creados
        /\ llamada[p].marcos \in Tablas(p) /\ ToSet(llamada[p].marcos) \cap ocupados = {}
    BY <1>0, <1>1, Guardas DEF InvCreados, LlamadaBuena, PCsLargo, PCsReanuda
  <2>2. escritas[p] = {} /\ escritas' = escritas /\ memoria' = memoria
    BY <1>1, <2>1 DEF SinEscribir, IniciarAsignar, datosVars
  <2>3. PaginaDe(p, k)' = CERO
    BY <2>2 DEF PaginaDe
  <2>4. llamada'[p].pc = "inactiva"
    BY <1>1, EfectoTerminar DEF Campos
  <2>5. procesos'[p].tabla = llamada[p].marcos
    BY <1>1, <2>1 DEF IniciarAsignar
  <2>6. TablaDe(p)' = llamada[p].marcos
    BY <2>4, <2>5 DEF TablaDe
  <2>7. k + 1 \in 1 .. Paginas[p]
    BY <1>0
  <2>8. llamada[p].marcos[k + 1] \in Marco \ ocupados
    BY <2>1, <2>7 DEF Tablas, ToSet
  <2> QED
    BY <2>2, <2>3, <2>6, <2>8 DEF IInv, Reparto
<1>2. CASE \E k \in 0 .. Paginas[p] - 1 : Escribir(p, k)
  <2>1. PICK k \in 0 .. Paginas[p] - 1 : Escribir(p, k)
    BY <1>2
  <2>2. /\ EnMarcos(p) /\ TablaDe(p) = procesos[p].tabla
        /\ llamada' = llamada /\ procesos' = procesos
    BY <2>1 DEF Escribir, EnMarcos, TablaDe, Inactiva
  <2>3. TablaDe(p)' = TablaDe(p)
    BY <2>2 DEF TablaDe
  <2>4. PICK t : t = TablaDe(p)
    OBVIOUS
  <2>5. /\ memoria' = [memoria EXCEPT ![t[k + 1]] = <<p, k>>]
        /\ escritas' = [escritas EXCEPT ![p] = @ \cup {k}]
    BY <2>1, <2>2, <2>4 DEF Escribir
  <2>6. t \in Tablas(p)
    BY <2>2, <2>4, TablaPropia
  <2>7. ASSUME NEW m \in 0 .. Paginas[p] - 1 PROVE memoria'[t[m + 1]] = PaginaDe(p, m)'
    <3>1. m + 1 \in 1 .. Paginas[p] /\ k + 1 \in 1 .. Paginas[p]
      BY <1>0
    <3>2. t[m + 1] \in Marco /\ (t[m + 1] = t[k + 1] => m + 1 = k + 1)
      BY <2>6, <3>1 DEF Tablas
    <3>3. m + 1 = k + 1 => m = k
      OBVIOUS
    <3>4. memoria[t[m + 1]] = PaginaDe(p, m)
      BY <2>2, <2>4 DEF EnSusMarcos
    <3>5. escritas'[p] = escritas[p] \cup {k}
      BY <1>0, <2>5
    <3>6. CASE m = k
      <4>1. memoria'[t[m + 1]] = <<p, m>>
        BY <1>0, <2>5, <3>2, <3>6
      <4> QED
        BY <3>5, <3>6, <4>1 DEF PaginaDe
    <3>7. CASE m # k
      <4>1. memoria'[t[m + 1]] = memoria[t[m + 1]]
        BY <1>0, <2>5, <3>2, <3>3, <3>7
      <4> QED
        BY <3>4, <3>5, <3>7, <4>1 DEF PaginaDe
    <3> QED
      BY <3>6, <3>7
  <2> QED
    BY <2>3, <2>4, <2>7 DEF EnSusMarcos
<1>3. CASE ReanudarEscribir(p)
  <2> DEFINE marcos == llamada[p].marcos
             paginas == llamada[p].paginas
  <2> SUFFICES ASSUME NEW k \in 0 .. Paginas[p] - 1
               PROVE  memoria'[TablaDe(p)'[k + 1]] = PaginaDe(p, k)'
    BY DEF EnSusMarcos
  <2>1. /\ llamada[p].pc = "rean_lee" /\ marcos \in Tablas(p)
        /\ Existe(p) /\ procesos[p].suspendido
    BY <1>0, <1>3, Guardas DEF LlamadaBuena, PCsLargo, PCsReanuda
  <2>2. Len(paginas) = Paginas[p] /\ \A j \in 1 .. Paginas[p] : paginas[j] = PaginaDe(p, j - 1)
    BY <1>3, <2>1, EntradaDe DEF ReanudarEscribir, EnSuBloque
  <2>3. llamada'[p].pc = "rean_tabla" /\ llamada'[p].marcos = marcos /\ escritas' = escritas
    BY <1>3, EfectoReanudarEscribir DEF Campos, ReanudarEscribir, historiaVars
  <2>4. TablaDe(p)' = marcos
    BY <2>3 DEF TablaDe
  <2>5. memoria' = [f \in Marco |->
          IF f \in ToSet(marcos) THEN paginas[CHOOSE i \in DOMAIN marcos : marcos[i] = f]
          ELSE memoria[f]]
    BY <1>3 DEF ReanudarEscribir
  <2> HIDE DEF marcos, paginas
  <2>6. k + 1 \in 1 .. Paginas[p] /\ DOMAIN marcos = 1 .. Paginas[p] /\ (k + 1) - 1 = k
    BY <1>0, <2>1 DEF Tablas
  <2>7. marcos[k + 1] \in Marco /\ marcos[k + 1] \in ToSet(marcos)
    BY <2>1, <2>6 DEF Tablas, ToSet
  <2>8. (CHOOSE i \in DOMAIN marcos : marcos[i] = marcos[k + 1]) = k + 1
    BY <2>1, <2>6 DEF Tablas
  <2>9. memoria'[marcos[k + 1]] = paginas[k + 1]
    BY <2>5, <2>7, <2>8
  <2> QED
    BY <2>2, <2>3, <2>4, <2>6, <2>9 DEF PaginaDe
<1>4. CASE ReanudarTabla(p)
  <2>1. llamada[p].pc = "rean_tabla" /\ Existe(p)
    BY <1>4, Guardas, EfectoTablaEntrada
  <2>2. EnMarcos(p) /\ TablaDe(p) = llamada[p].marcos
    BY <2>1 DEF EnMarcos, TablaDe
  <2>3. llamada'[p].pc = "inactiva" /\ procesos'[p].tabla = llamada[p].marcos
    BY <1>4, EfectoTerminar, EfectoTablaEntrada DEF Campos
  <2>4. TablaDe(p)' = TablaDe(p)
    BY <2>2, <2>3 DEF TablaDe
  <2> QED
    BY <1>4, <2>2, <2>4, MarcosQuietos DEF ReanudarTabla, datosVars, historiaVars
<1>5. CASE \/ SuspenderLiberar(p) \/ SuspenderReservar(p) \/ SuspenderEscribir(p)
           \/ SuspenderGuardar(p) \/ FinalizarProceso(p) \/ FinalizarBorrado(p)
  <2>1. ~EnMarcos(p)'
    <3>1. CASE SuspenderLiberar(p)
      <4>1. llamada'[p].pc = "susp_reserva"
        BY <3>1, EfectoSuspenderLiberar DEF Campos
      <4> QED
        BY <4>1 DEF EnMarcos
    <3>2. CASE SuspenderReservar(p) \/ SuspenderEscribir(p)
      <4>1. llamada'[p].pc = "susp_escribe"
        BY <3>2, EfectoSuspenderReservar, EfectoSuspenderEscribir DEF Campos
      <4> QED
        BY <4>1 DEF EnMarcos
    <3>3. CASE SuspenderGuardar(p)
      <4>1. llamada'[p].pc = "inactiva" /\ procesos'[p].suspendido
        BY <3>3, EfectoTerminar, EfectoGuardarEntrada DEF Campos
      <4> QED
        BY <4>1 DEF EnMarcos
    <3>4. CASE FinalizarProceso(p) \/ FinalizarBorrado(p)
      BY <3>4 DEF FinalizarProceso, FinalizarBorrado, Restrict, EnMarcos, Existe
    <3> QED
      BY <1>5, <3>1, <3>2, <3>3, <3>4
  <2> QED
    BY <2>1 DEF EnSusMarcos
<1>6. CASE \/ IniciarProceso(p) \/ SuspenderProceso(p) \/ ReanudarProceso(p)
           \/ FinalizarSuspendido(p)
  <2>1. procesos' = procesos
    BY <1>6, EntradasQuietas
  <2>2. /\ llamada'[p].pc \in {"inic_asigna", "susp_libera", "rean_lee", "fin_lee"}
        /\ llamada[p].pc = "inactiva"
    BY <1>6, Guardas, EfectoIniciarProceso, EfectoSuspenderProceso, EfectoReanudarProceso,
       EfectoFinalizarSuspendido DEF Campos
  <2>3. EnMarcos(p)' => EnMarcos(p) /\ TablaDe(p)' = TablaDe(p)
    BY <2>1, <2>2 DEF EnMarcos, TablaDe, Existe
  <2>4. memoria' = memoria /\ escritas' = escritas
    BY <1>6 DEF IniciarProceso, SuspenderProceso, ReanudarProceso, FinalizarSuspendido,
       datosVars, historiaVars
  <2> QED
    BY <2>3, <2>4, MarcosQuietos
<1>7. CASE SwapLeer(p) \/ SwapBorrar(p)
  <2>1. procesos' = procesos
    BY <1>7, EntradasQuietas
  <2>2. llamada[p].pc \in {"rean_lee", "fin_lee", "rean_borra", "fin_borra"}
        /\ llamada'[p].pc \in {"rean_lee", "fin_lee", "rean_borra", "fin_borra"}
    BY <1>7, Guardas, EfectoSwapLeer, EfectoSwapBorrar, SiguienteEs DEF Campos
  <2>3. Existe(p) /\ procesos[p].suspendido
    BY <1>0, <2>2 DEF LlamadaBuena, PCsReanuda
  <2>4. ~EnMarcos(p)'
    BY <2>1, <2>2, <2>3 DEF EnMarcos
  <2> QED
    BY <2>4 DEF EnSusMarcos
<1> QED
  BY <1>1, <1>2, <1>3, <1>4, <1>5, <1>6, <1>7 DEF Paso

LEMMA PasoInicios ==
  ASSUME IInv, InvDatos, ~solapes', NEW p \in Pid, Paso(p), Inicios(p)
  PROVE  Inicios(p)'
<1>0. LlamadaBuena(p) /\ LlamadaDatos(p)
  BY DEF InvDatos, IInv, Llamadas
<1> USE DEF PCsSuspende
<1>1. CASE \/ IniciarProceso(p) \/ SuspenderLiberar(p) \/ ReanudarProceso(p)
           \/ ReanudarEscribir(p) \/ FinalizarSuspendido(p)
  <2>1. procesos' = procesos
    BY <1>1, EntradasQuietas
  <2>2. /\ llamada'[p].inicio = llamada[p].inicio /\ llamada'[p].copia = llamada[p].copia
        /\ llamada'[p].pc \in PCsSuspende => llamada[p].pc \in PCsSuspende
    BY <1>1, Guardas, EfectoIniciarProceso, EfectoSuspenderLiberar, EfectoReanudarProceso,
       EfectoReanudarEscribir, EfectoFinalizarSuspendido DEF Campos
  <2> QED
    BY <2>1, <2>2 DEF Inicios, Existe
<1>2. CASE SwapLeer(p) \/ SwapBorrar(p)
  <2>1. procesos' = procesos
    BY <1>2, EntradasQuietas
  <2>2. llamada'[p].inicio = llamada[p].inicio /\ llamada'[p].pc \notin PCsSuspende
    BY <1>2, Guardas, EfectoSwapLeer, EfectoSwapBorrar, SiguienteEs DEF Campos
  <2> QED
    BY <2>1, <2>2 DEF Inicios, Existe
<1>3. CASE \E k \in 0 .. Paginas[p] - 1 : Escribir(p, k)
  BY <1>3 DEF Escribir, Inicios, Existe
<1>4. CASE SuspenderProceso(p)
  <2>1. procesos' = procesos /\ Existe(p)
    BY <1>4, EntradasQuietas DEF SuspenderProceso
  <2>2. PICK c : c = [procesos[p] EXCEPT !.suspendido = TRUE]
    OBVIOUS
  <2>3. c.inicio = procesos[p].inicio
    BY <2>1, <2>2, EntradaDe DEF EsEntrada
  <2>4. llamada'[p].inicio = llamada[p].inicio /\ llamada'[p].copia = c
    BY <1>4, <2>2, EfectoSuspenderProceso DEF Campos
  <2> QED
    BY <2>1, <2>3, <2>4 DEF Inicios, Existe
<1>5. CASE SuspenderReservar(p)
  <2>1. procesos' = procesos
    BY <1>5, EntradasQuietas
  <2>2. /\ llamada'[p].inicio = 0 /\ llamada'[p].copia = llamada[p].copia
        /\ llamada[p].pc \in PCsSuspende
    BY <1>5, Guardas, ReservarSolo, EfectoSuspenderReservar DEF Campos
  <2> QED
    BY <2>1, <2>2 DEF Inicios, Existe
<1>6. CASE SuspenderEscribir(p)
  <2>1. /\ llamada'[p].inicio = llamada[p].inicio /\ llamada'[p].copia = llamada[p].copia
        /\ llamada[p].pc \in PCsSuspende
    BY <1>6, Guardas, EfectoSuspenderEscribir DEF Campos
  <2> QED
    BY <1>6, <2>1, EfectoEscribirEntrada DEF Inicios
<1>7. CASE \/ IniciarAsignar(p) \/ SuspenderGuardar(p) \/ ReanudarTabla(p)
           \/ FinalizarBorrado(p)
  <2>1. llamada'[p].pc = "inactiva" /\ llamada'[p].inicio = 0
    BY <1>7, EfectoTerminar DEF Campos
  <2>2. Existe(p)' => procesos'[p].inicio = 0
    <3>1. CASE IniciarAsignar(p)
      BY <3>1 DEF IniciarAsignar
    <3>2. CASE SuspenderGuardar(p)
      BY <3>2, Guardas, EfectoGuardarEntrada DEF Inicios
    <3>3. CASE ReanudarTabla(p)
      BY <3>3, EfectoTablaEntrada DEF Inicios
    <3>4. CASE FinalizarBorrado(p)
      BY <3>4 DEF FinalizarBorrado, Restrict, Existe
    <3> QED
      BY <1>7, <3>1, <3>2, <3>3, <3>4
  <2> QED
    BY <2>1, <2>2 DEF Inicios
<1>8. CASE FinalizarProceso(p)
  BY <1>8 DEF FinalizarProceso, Restrict, Existe, Inicios
<1> QED
  BY <1>1, <1>2, <1>3, <1>4, <1>5, <1>6, <1>7, <1>8 DEF Paso

LEMMA PasoUno ==
  ASSUME IInv, UnoEnArchivo, ~solapes', NEW p \in Pid, Paso(p)
  PROVE  UnoEnArchivo'
<1>1. \A q \in Pid \ {p} : EnArchivo(q)' <=> EnArchivo(q)
  BY ArchivoAjeno
<1>2. CASE SuspenderReservar(p)
  BY <1>1, <1>2, ReservarSolo DEF UnoEnArchivo
<1>3. CASE ~SuspenderReservar(p)
  BY <1>1, <1>3, QuienReserva DEF UnoEnArchivo
<1> QED
  BY <1>2, <1>3

\* What is beyond the pages of a process was never written.
LEMMA PaginaDeMas ==
  ASSUME InvDatos, NEW p \in Pid, NEW b \in Nat, b >= Paginas[p]
  PROVE  PaginaDe(p, b) = CERO
<1>1. escritas[p] \subseteq 0 .. Paginas[p] - 1 /\ Paginas[p] \in Nat
  BY PaginasEs DEF InvDatos, Contenido
<1> QED
  BY <1>1 DEF PaginaDe

LEMMA PasoVacio ==
  ASSUME IInv, InvDatos, ConPaginas, UnoEnArchivo, ArchivoVacio, ~solapes',
         NEW p \in Pid, Paso(p), EnSuBloque(p)
  PROVE  ArchivoVacio'
<1> SUFFICES ASSUME \A q \in Pid : ~EnArchivo(q)'
             PROVE  /\ \A b \in Bloques : archivo'[b] = CERO
                    /\ \A i \in DOMAIN indices' : ~indices'[i]
  BY DEF ArchivoVacio
<1>1. ~SuspenderReservar(p)
  <2> SUFFICES ASSUME SuspenderReservar(p) PROVE FALSE
    OBVIOUS
  <2>1. llamada'[p].pc = "susp_escribe" /\ procesos' = procesos
    BY EfectoSuspenderReservar, EntradasQuietas DEF Campos
  <2>2. Existe(p)
    BY Guardas DEF IInv, Llamadas, LlamadaBuena, PCsSuspende
  <2> QED
    BY <2>1, <2>2 DEF EnArchivo, Existe
<1>2. \A q \in Pid \ {p} : ~EnArchivo(q)
  BY ArchivoAjeno
<1>3. CASE ~EnArchivo(p)
  <2>1. ~SuspenderEscribir(p) /\ ~SwapBorrar(p)
    <3>1. ~SuspenderEscribir(p)
      BY <1>3, Guardas, EfectoEscribirEntrada DEF EnArchivo
    <3>2. SwapBorrar(p) => Existe(p) /\ procesos[p].suspendido
      BY Guardas DEF IInv, Llamadas, LlamadaBuena, PCsReanuda
    <3> QED
      BY <1>3, <3>1, <3>2 DEF EnArchivo
  <2>2. archivo' = archivo /\ indices' = indices
    BY <1>1, <2>1, QuienArchivo
  <2> QED
    BY <1>2, <1>3, <2>2 DEF ArchivoVacio
<1>4. CASE EnArchivo(p)
  <2>1. ReanudarTabla(p) \/ FinalizarBorrado(p)
    <3>1. CASE \/ IniciarProceso(p) \/ SuspenderProceso(p) \/ SuspenderLiberar(p)
               \/ (\E k \in 0 .. Paginas[p] - 1 : Escribir(p, k)) \/ SwapLeer(p)
               \/ SwapBorrar(p) \/ ReanudarProceso(p) \/ ReanudarEscribir(p)
               \/ FinalizarSuspendido(p)
      <4>1. procesos' = procesos /\ llamada[p].pc # "susp_escribe"
        BY <3>1, EntradasQuietas, Guardas
      <4> QED
        BY <1>4, <4>1 DEF EnArchivo, Existe
    <3>2. CASE IniciarAsignar(p)
      <4>1. ~Existe(p)
        BY <3>2, Guardas DEF IInv, Llamadas, LlamadaBuena
      <4> QED
        BY <1>4, <4>1 DEF EnArchivo
    <3>3. CASE SuspenderEscribir(p)
      <4>1. llamada'[p].pc = "susp_escribe"
        BY <3>3, EfectoSuspenderEscribir DEF Campos
      <4> QED
        BY <3>3, <4>1, EfectoEscribirEntrada DEF EnArchivo
    <3>4. CASE SuspenderGuardar(p)
      BY <3>4, EfectoGuardarEntrada DEF EnArchivo
    <3>5. CASE FinalizarProceso(p)
      BY <1>4, <3>5, Guardas DEF FinalizarProceso, EnArchivo
    <3> QED
      BY <1>1, <3>1, <3>2, <3>3, <3>4, <3>5 DEF Paso
  <2>2. /\ Existe(p) /\ procesos[p].suspendido
        /\ llamada[p].pc \in {"rean_tabla", "fin_lee"}
        /\ Len(llamada[p].paginas) = Paginas[p]
    <3>1. CASE ReanudarTabla(p)
      BY <3>1, Guardas, EfectoTablaEntrada DEF InvDatos, LlamadaDatos
    <3>2. CASE FinalizarBorrado(p)
      <4>1. llamada[p].pc = "fin_lee" /\ Len(llamada[p].paginas) = procesos[p].cant
        BY <3>2 DEF FinalizarBorrado
      <4>2. Existe(p) /\ procesos[p].suspendido
        BY <4>1 DEF IInv, Llamadas, LlamadaBuena
      <4> QED
        BY <4>1, <4>2, EntradaDe
    <3> QED
      BY <2>1, <3>1, <3>2
  <2>3. Salidas(p) = Paginas[p] /\ Paginas[p] # 0 /\ Paginas[p] \in Nat
    BY <2>2, PaginasEs DEF Salidas, ConPaginas
  <2>4. \A b \in Bloques : archivo[b] = CERO
    <3> TAKE b \in Bloques
    <3>1. b \in Nat /\ archivo[b] = IF b < Paginas[p] THEN CERO ELSE PaginaDe(p, b)
      BY <2>2, <2>3 DEF EnSuBloque, Bloques
    <3> QED
      BY <2>3, <3>1, PaginaDeMas
  <2>5. \A i \in 1 .. Len(indices) : ~indices[i]
    BY <2>2, <2>3 DEF EnSuBloque, Marcado
  <2>6. DOMAIN indices = 1 .. Len(indices)
    BY DEF InvDatos, Cuenta
  <2>7. archivo' = archivo /\ indices' = indices
    BY <2>1 DEF ReanudarTabla, FinalizarBorrado, datosVars
  <2> QED
    BY <2>4, <2>5, <2>6, <2>7
<1> QED
  BY <1>3, <1>4

LEMMA PasoEnViaje ==
  ASSUME IInv, InvDatos, NEW p \in Pid, Paso(p), EnSusMarcos(p), EnViaje(p)
  PROVE  EnViaje(p)'
<1>0. LlamadaDatos(p) /\ LlamadaBuena(p) /\ Paginas[p] \in Nat /\ DOMAIN escritas = Pid
  BY PaginasEs DEF InvDatos, IInv, Llamadas, Contenido
<1>1. CASE SuspenderLiberar(p)
  <2>1. llamada[p].pc = "susp_libera"
    BY <1>1, Guardas
  <2>2. EnMarcos(p) /\ TablaDe(p) = procesos[p].tabla
    BY <1>0, <2>1 DEF LlamadaBuena, PCsSuspende, EnMarcos, TablaDe
  <2> DEFINE s == Leidas(p)
  <2>4. /\ llamada'[p].pc = "susp_reserva" /\ llamada'[p].paginas = s
        /\ escritas' = escritas
    BY <1>1, EfectoSuspenderLiberar DEF Campos, SuspenderLiberar, historiaVars
  <2>5. /\ Len(s) = Paginas[p]
        /\ \A j \in 1 .. Paginas[p] :
             /\ s[j].num \in 0 .. Paginas[p] - 1
             /\ s[j].contenido = memoria[procesos[p].tabla[s[j].num + 1]]
        /\ \A k \in 0 .. Paginas[p] - 1 : \E j \in 1 .. Paginas[p] : s[j].num = k
    BY <2>1, LeidasEs
  <2> HIDE DEF s
  <2>6. \A j \in 1 .. Paginas[p] : s[j].contenido = PaginaDe(p, s[j].num)
    BY <2>2, <2>5 DEF EnSusMarcos
  <2> QED
    BY <2>4, <2>5, <2>6 DEF EnViaje, Lleva, PaginaDe
<1>2. CASE SuspenderReservar(p)
  <2>1. /\ llamada'[p].pc = "susp_escribe" /\ llamada'[p].paginas = llamada[p].paginas
        /\ llamada[p].pc = "susp_reserva" /\ escritas' = escritas
    BY <1>2, Guardas, EfectoSuspenderReservar DEF Campos, SuspenderReservar
  <2> QED
    BY <2>1 DEF EnViaje, PaginaDe
<1>3. CASE SuspenderEscribir(p)
  <2>1. /\ llamada[p].pc = "susp_escribe" /\ llamada[p].paginas # <<>>
        /\ escritas' = escritas
    BY <1>3, Guardas DEF SuspenderEscribir, historiaVars
  <2>2. PICK s : s = Tail(llamada[p].paginas)
    OBVIOUS
  <2>3. llamada'[p].pc = "susp_escribe" /\ llamada'[p].paginas = s
    BY <1>3, <2>2, EfectoSuspenderEscribir DEF Campos
  <2>4. llamada[p].paginas \in Seq(PaginasLeidas(p)) /\ Len(llamada[p].paginas) \in Nat
    BY <1>0, <2>1, LenProperties DEF LlamadaDatos
  <2>5. /\ Len(s) = Len(llamada[p].paginas) - 1
        /\ \A j \in 1 .. Len(s) : s[j] = llamada[p].paginas[j + 1]
    BY <2>1, <2>2, <2>4, HeadTailProperties
  <2>6. \A j \in 1 .. Len(s) : s[j].contenido = PaginaDe(p, s[j].num)
    <3> TAKE j \in 1 .. Len(s)
    <3>1. j + 1 \in 1 .. Len(llamada[p].paginas)
      BY <2>4, <2>5
    <3> QED
      BY <2>1, <2>5, <3>1 DEF EnViaje
  <2> QED
    BY <2>1, <2>3, <2>6 DEF EnViaje, PaginaDe
<1>4. CASE (\E k \in 0 .. Paginas[p] - 1 : Escribir(p, k)) \/ FinalizarProceso(p)
  <2>1. llamada' = llamada /\ llamada[p].pc = "inactiva"
    BY <1>4, Guardas DEF Escribir, FinalizarProceso
  <2> QED
    BY <2>1 DEF EnViaje
<1>5. CASE \/ IniciarProceso(p) \/ SuspenderProceso(p) \/ ReanudarProceso(p)
           \/ ReanudarEscribir(p) \/ FinalizarSuspendido(p)
  <2>1. llamada'[p].pc \notin {"susp_reserva", "susp_escribe"}
    BY <1>5, EfectoIniciarProceso, EfectoSuspenderProceso, EfectoReanudarProceso,
       EfectoReanudarEscribir, EfectoFinalizarSuspendido DEF Campos
  <2> QED
    BY <2>1 DEF EnViaje
<1>6. CASE SwapLeer(p) \/ SwapBorrar(p)
  <2>1. llamada'[p].pc \notin {"susp_reserva", "susp_escribe"}
    BY <1>6, Guardas, EfectoSwapLeer, EfectoSwapBorrar, SiguienteEs DEF Campos
  <2> QED
    BY <2>1 DEF EnViaje
<1>7. CASE \/ IniciarAsignar(p) \/ SuspenderGuardar(p) \/ ReanudarTabla(p)
           \/ FinalizarBorrado(p)
  <2>1. llamada'[p].pc = "inactiva"
    BY <1>7, EfectoTerminar DEF Campos
  <2> QED
    BY <2>1 DEF EnViaje
<1> QED
  BY <1>1, <1>2, <1>3, <1>4, <1>5, <1>6, <1>7 DEF Paso

LEMMA BloqueAjeno ==
  ASSUME IInv, InvDatos, UnoEnArchivo, ~solapes', NEW p \in Pid, Paso(p),
         NEW q \in Pid \ {p}, EnSuBloque(q)
  PROVE  EnSuBloque(q)'
<1>0. llamada[q].pc = "susp_escribe" => Existe(q)
  BY DEF IInv, Llamadas, LlamadaBuena, PCsSuspende
<1>1. /\ llamada'[q] = llamada[q] /\ (Existe(q)' <=> Existe(q))
      /\ Existe(q) => procesos'[q] = procesos[q]
  BY Ajenos
<1>2. CASE ~EnArchivo(q)
  BY <1>0, <1>1, <1>2 DEF EnArchivo, EnSuBloque
<1>3. CASE EnArchivo(q)
  <2>1. ~EnArchivo(p)
    BY <1>3 DEF UnoEnArchivo
  <2>2. ~SuspenderReservar(p)
    BY <1>3, ReservarSolo
  <2>3. ~SuspenderEscribir(p)
    BY <2>1, Guardas, EfectoEscribirEntrada DEF EnArchivo
  <2>4. SwapBorrar(p) => Existe(p) /\ procesos[p].suspendido
    BY Guardas DEF IInv, Llamadas, LlamadaBuena, PCsReanuda
  <2>5. archivo' = archivo /\ indices' = indices
    BY <2>1, <2>2, <2>3, <2>4, QuienArchivo DEF EnArchivo
  <2>6. escritas'[q] = escritas[q]
    BY QuienHistoria DEF InvDatos, Contenido
  <2>7. Salidas(q)' = Salidas(q) /\ \A b : Lleva(q, b)' <=> Lleva(q, b)
    BY <1>1 DEF Salidas, Lleva
  <2>8. \A b : PaginaDe(q, b)' = PaginaDe(q, b)
    BY <2>6 DEF PaginaDe
  <2>9. \A n : Marcado(n)' <=> Marcado(n)
    BY <2>5 DEF Marcado
  <2> QED
    BY <1>1, <2>5, <2>7, <2>8, <2>9 DEF EnSuBloque
<1> QED
  BY <1>2, <1>3

\* p stays in the file with its pages and the call where it was with them.
LEMMA BloqueQuieto ==
  ASSUME NEW p, EnSuBloque(p), archivo' = archivo, indices' = indices, escritas' = escritas,
         Existe(p)' /\ procesos'[p].suspendido => Existe(p) /\ procesos[p].suspendido,
         llamada'[p].paginas = llamada[p].paginas, Salidas(p)' = Salidas(p),
         llamada'[p].pc # "susp_escribe"
  PROVE  EnSuBloque(p)'
<1>1. \A n : Marcado(n)' <=> Marcado(n)
  BY DEF Marcado
<1>2. \A b : PaginaDe(p, b)' = PaginaDe(p, b)
  BY DEF PaginaDe
<1> QED
  BY <1>1, <1>2 DEF EnSuBloque

\* p has no block after the step.
LEMMA SinBloque ==
  ASSUME NEW p, ~(Existe(p)' /\ procesos'[p].suspendido), llamada'[p].pc # "susp_escribe"
  PROVE  EnSuBloque(p)'
BY DEF EnSuBloque

LEMMA BloqueReservado ==
  ASSUME IInv, InvDatos, ArchivoVacio, ~solapes', NEW p \in Pid,
         SuspenderReservar(p), EnViaje(p)
  PROVE  EnSuBloque(p)'
<1> DEFINE n == Paginas[p]
<1>0. /\ LlamadaDatos(p) /\ LlamadaBuena(p) /\ n \in Nat /\ DOMAIN archivo = Bloques
      /\ indices \in Seq(BOOLEAN) /\ Len(indices) \in Nat /\ DOMAIN indices = 1 .. Len(indices)
  BY PaginasEs, LenProperties DEF InvDatos, IInv, Llamadas, Contenido, Cuenta
<1>1. /\ llamada[p].pc = "susp_reserva" /\ Len(llamada[p].paginas) = n
      /\ Existe(p) /\ ~procesos[p].suspendido
  BY <1>0, Guardas DEF LlamadaDatos, LlamadaBuena, PCsSuspende
<1>2. BloqueLibre(n) = 0 /\ \A q \in Pid : ~EnArchivo(q)
  BY <1>1, ReservarSolo DEF EnArchivo
<1>3. (\A b \in Bloques : archivo[b] = CERO) /\ (\A i \in 1 .. Len(indices) : ~indices[i])
  BY <1>0, <1>2 DEF ArchivoVacio
<1>4. /\ llamada'[p].pc = "susp_escribe" /\ llamada'[p].paginas = llamada[p].paginas
      /\ procesos' = procesos /\ archivo' = archivo /\ escritas' = escritas
      /\ indices' = Reservar(0, n)
  BY <1>1, <1>2, EfectoSuspenderReservar DEF Campos, SuspenderReservar, datosVars
<1>5. Marcado(n)'
  <2>1. /\ Len(indices') = IF Len(indices) >= 0 + n THEN Len(indices) ELSE 0 + n
        /\ \A j \in 1 .. Len(indices') :
             indices'[j] = IF j \in 0 + 1 .. 0 + n THEN TRUE ELSE indices[j]
    <3>1. 0 \in 0 .. Len(indices)
      BY <1>0
    <3>2. /\ Len(Reservar(0, n)) = IF Len(indices) >= 0 + n THEN Len(indices) ELSE 0 + n
          /\ \A j \in 1 .. Len(Reservar(0, n)) :
               Reservar(0, n)[j] = IF j \in 0 + 1 .. 0 + n THEN TRUE ELSE indices[j]
      BY <1>0, <3>1, ReservarEs
    <3> QED
      BY <1>4, <3>2
  <2>2. n <= Len(indices')
    BY <1>0, <2>1
  <2>3. ASSUME NEW j \in 1 .. Len(indices') PROVE indices'[j] <=> j <= n
    <3>1. CASE j <= n
      <4>1. j \in 0 + 1 .. 0 + n
        BY <1>0, <3>1
      <4> QED
        BY <2>1, <3>1, <4>1
    <3>2. CASE ~ (j <= n)
      <4>1. j \in 1 .. Len(indices) /\ j \notin 0 + 1 .. 0 + n
        BY <1>0, <2>1, <3>2
      <4> QED
        BY <1>3, <2>1, <3>2, <4>1
    <3> QED
      BY <3>1, <3>2
  <2> QED
    BY <2>2, <2>3 DEF Marcado
<1>6. ASSUME NEW b \in Bloques PROVE Lleva(p, b)' \/ archivo'[b] = PaginaDe(p, b)'
  <2>1. b \in Nat
    BY DEF Bloques
  <2>2. CASE b < n
    <3>1. b \in 0 .. n - 1
      BY <1>0, <2>1, <2>2
    <3>2. Lleva(p, b)
      BY <1>1, <3>1 DEF EnViaje
    <3> QED
      BY <1>4, <3>2 DEF Lleva
  <2>3. CASE ~ (b < n)
    <3>1. PaginaDe(p, b) = CERO
      BY <1>0, <2>1, <2>3, PaginaDeMas
    <3> QED
      BY <1>3, <1>4, <3>1 DEF PaginaDe
  <2> QED
    BY <2>2, <2>3
<1> QED
  BY <1>1, <1>4, <1>5, <1>6 DEF EnSuBloque, Existe

LEMMA BloqueEscrito ==
  ASSUME IInv, InvDatos, NEW p \in Pid, SuspenderEscribir(p), EnViaje(p), Inicios(p),
         EnSuBloque(p)
  PROVE  EnSuBloque(p)'
<1> DEFINE s == llamada[p].paginas
<1>1. /\ llamada[p].pc = "susp_escribe" /\ s # <<>> /\ s \in Seq(PaginasLeidas(p))
      /\ llamada[p].inicio = 0 /\ Len(s) \in Nat /\ DOMAIN archivo = Bloques
  BY Guardas, LenProperties DEF InvDatos, LlamadaDatos, SuspenderEscribir, Inicios, Contenido
<1>2. PICK t : t = Tail(s)
  OBVIOUS
<1>3. PICK g : g = Head(s)
  OBVIOUS
<1>4. llamada'[p].pc = "susp_escribe" /\ llamada'[p].paginas = t
  BY <1>2, EfectoSuspenderEscribir DEF Campos
<1>5. /\ archivo' = [archivo EXCEPT ![llamada[p].inicio + g.num] = g.contenido]
      /\ indices' = indices /\ escritas' = escritas
  BY <1>3 DEF SuspenderEscribir, historiaVars
<1>6. ~procesos'[p].suspendido
  BY EfectoEscribirEntrada
<1> HIDE DEF s
<1>7. /\ Len(s) >= 1 /\ g = s[1] /\ g \in PaginasLeidas(p) /\ Len(t) = Len(s) - 1
      /\ \A j \in 1 .. Len(t) : t[j] = s[j + 1]
  BY <1>1, <1>2, <1>3, HeadTailProperties
<1>8. llamada[p].inicio + g.num = g.num /\ g.num \in Nat
  <2>1. g.num \in 0 .. Paginas[p] - 1
    BY <1>7 DEF PaginasLeidas
  <2> QED
    BY <1>1, <2>1
<1>9. g.contenido = PaginaDe(p, g.num)
  <2>1. 1 \in 1 .. Len(s)
    BY <1>1, <1>7
  <2> QED
    BY <1>1, <1>7, <2>1 DEF EnViaje, s
<1>10. ASSUME NEW b \in Bloques PROVE Lleva(p, b)' \/ archivo'[b] = PaginaDe(p, b)'
  <2>1. PaginaDe(p, b)' = PaginaDe(p, b)
    BY <1>5 DEF PaginaDe
  <2>2. CASE b = g.num
    BY <1>1, <1>5, <1>8, <1>9, <2>1, <2>2
  <2>3. CASE b # g.num
    <3>1. archivo'[b] = archivo[b]
      BY <1>1, <1>5, <1>8, <2>3
    <3>2. CASE Lleva(p, b)
      <4>1. PICK j \in 1 .. Len(s) : s[j].num = b
        BY <3>2 DEF Lleva, s
      <4>2. j # 1
        BY <1>7, <2>3, <4>1
      <4>3. j - 1 \in 1 .. Len(t) /\ (j - 1) + 1 = j
        BY <1>1, <1>7, <4>2
      <4>4. t[j - 1].num = b
        BY <1>7, <4>1, <4>3
      <4> QED
        BY <1>4, <4>3, <4>4 DEF Lleva
    <3>3. CASE ~Lleva(p, b)
      BY <1>1, <2>1, <3>1, <3>3 DEF EnSuBloque
    <3> QED
      BY <3>2, <3>3
  <2> QED
    BY <2>2, <2>3
<1>11. Marcado(Paginas[p])'
  BY <1>1, <1>5 DEF EnSuBloque, Marcado
<1> QED
  BY <1>6, <1>10, <1>11 DEF EnSuBloque

LEMMA BloqueGuardado ==
  ASSUME IInv, InvDatos, NEW p \in Pid, SuspenderGuardar(p), EnSuBloque(p)
  PROVE  EnSuBloque(p)'
<1>1. llamada[p].pc = "susp_escribe" /\ llamada[p].paginas = <<>>
  BY DEF SuspenderGuardar
<1>2. llamada'[p].pc = "inactiva" /\ llamada'[p].paginas = <<>>
  BY EfectoTerminar DEF Campos
<1>3. archivo' = archivo /\ indices' = indices /\ escritas' = escritas
  BY DEF SuspenderGuardar, datosVars, historiaVars
<1>4. Len(<<>>) = 0 /\ 1 .. 0 = {}
  OBVIOUS
<1>5. Salidas(p)' = 0
  BY <1>2, <1>4 DEF Salidas
<1>6. Marcado(Paginas[p])'
  BY <1>1, <1>3 DEF EnSuBloque, Marcado
<1>7. \A b \in Bloques : archivo'[b] = IF b < 0 THEN CERO ELSE PaginaDe(p, b)'
  <2> TAKE b \in Bloques
  <2>1. ~ (b < 0)
    BY DEF Bloques
  <2>2. archivo[b] = PaginaDe(p, b)
    BY <1>1, <1>4 DEF EnSuBloque, Lleva
  <2> QED
    BY <1>3, <2>1, <2>2 DEF PaginaDe
<1> QED
  BY <1>2, <1>4, <1>5, <1>6, <1>7 DEF EnSuBloque

LEMMA BloqueLeido ==
  ASSUME IInv, InvDatos, NEW p \in Pid, SwapLeer(p), Inicios(p), EnSuBloque(p)
  PROVE  EnSuBloque(p)'
<1> DEFINE s == llamada[p].paginas
           k == Len(s)
<1>1. /\ llamada[p].pc \in {"rean_lee", "fin_lee"} /\ s \in Seq(Contenidos)
      /\ Existe(p) /\ procesos[p].suspendido /\ procesos[p].inicio = 0
  BY Guardas DEF InvDatos, LlamadaDatos, IInv, Llamadas, LlamadaBuena, PCsReanuda, PCsSwap,
     Inicios
<1>2. k \in Nat /\ k < Paginas[p] /\ Paginas[p] \in Nat /\ Paginas[p] <= Cota /\ Cota \in Nat
  BY <1>1, EntradaDe, LenProperties, PaginasEs DEF SwapLeer
<1>3. PICK x : x = archivo[procesos[p].inicio + k]
  OBVIOUS
<1>4. PICK t : t = Append(s, x)
  OBVIOUS
<1>5. llamada'[p].pc \in {"rean_borra", "fin_borra"} /\ llamada'[p].paginas = t
  BY <1>1, <1>3, <1>4, EfectoSwapLeer, SiguienteEs DEF Campos
<1>6. /\ archivo' = archivo /\ indices' = indices /\ escritas' = escritas
      /\ procesos' = procesos
  BY DEF SwapLeer, datosVars, historiaVars
<1> HIDE DEF s
<1>7. /\ Len(t) = k + 1 /\ t[k + 1] = x
      /\ \A j \in 1 .. k : t[j] = s[j]
  BY <1>1, <1>4, AppendProperties
<1>8. Salidas(p) = k /\ Salidas(p)' = k
  <2>1. Salidas(p) = k
    BY <1>1 DEF Salidas, s
  <2>2. Salidas(p)' = Len(t) - 1
    BY <1>5 DEF Salidas
  <2> HIDE DEF k
  <2> QED
    BY <1>2, <1>7, <2>1, <2>2
<1>9. x = PaginaDe(p, k)
  <2>1. k \in Bloques /\ ~ (k < k) /\ procesos[p].inicio + k = k
    BY <1>1, <1>2 DEF Bloques, Cota
  <2> QED
    BY <1>1, <1>3, <1>8, <2>1 DEF EnSuBloque
<1>10. ASSUME NEW j \in 1 .. Len(t) PROVE t[j] = PaginaDe(p, j - 1)'
  <2>1. PaginaDe(p, j - 1)' = PaginaDe(p, j - 1)
    BY <1>6 DEF PaginaDe
  <2>2. CASE j = k + 1
    <3>1. j - 1 = k
      BY <1>2, <2>2
    <3> QED
      BY <1>7, <1>9, <2>1, <2>2, <3>1
  <2>3. CASE j # k + 1
    <3>1. j \in 1 .. k
      BY <1>2, <1>7, <2>3
    <3>2. s[j] = PaginaDe(p, j - 1)
      BY <1>1, <3>1 DEF EnSuBloque, s
    <3> QED
      BY <1>7, <2>1, <3>1, <3>2
  <2> QED
    BY <2>2, <2>3
<1>11. \A b \in Bloques : archivo'[b] = IF b < Salidas(p)' THEN CERO ELSE PaginaDe(p, b)'
  BY <1>1, <1>6, <1>8 DEF EnSuBloque, PaginaDe
<1>12. Marcado(IF Salidas(p) = 0 THEN Paginas[p] ELSE 0)'
  BY <1>1, <1>6, <1>8 DEF EnSuBloque, Marcado
<1> QED
  BY <1>5, <1>10, <1>11, <1>12 DEF EnSuBloque

LEMMA BloqueBorrado ==
  ASSUME IInv, InvDatos, NEW p \in Pid, SwapBorrar(p), Inicios(p), EnSuBloque(p)
  PROVE  EnSuBloque(p)'
<1> DEFINE s == llamada[p].paginas
           k == Len(s) - 1
<1>1. /\ llamada[p].pc \in {"rean_borra", "fin_borra"} /\ s \in Seq(Contenidos) /\ s # <<>>
      /\ Existe(p) /\ procesos[p].suspendido /\ procesos[p].inicio = 0
      /\ indices \in Seq(BOOLEAN) /\ Len(indices) \in Nat /\ DOMAIN archivo = Bloques
  BY Guardas, LenProperties
     DEF InvDatos, LlamadaDatos, IInv, Llamadas, LlamadaBuena, PCsReanuda, PCsSwap,
     Inicios, Cuenta, Contenido
<1>2. Len(s) \in Nat /\ Len(s) # 0 /\ k \in Nat /\ Paginas[p] \in Nat
  <2>1. Len(s) \in Nat /\ Len(s) # 0
    BY <1>1, EmptySeq, LenProperties
  <2> QED
    BY <2>1, PaginasEs
<1>3. llamada'[p].pc \in {"rean_lee", "fin_lee"} /\ llamada'[p].paginas = s
  BY <1>1, EfectoSwapBorrar, SiguienteEs DEF Campos
<1>4. Salidas(p) = k /\ Salidas(p)' = k + 1 /\ Salidas(p)' # 0
  BY <1>1, <1>2, <1>3 DEF Salidas
<1>5. /\ archivo' = [archivo EXCEPT ![procesos[p].inicio + k] = CERO]
      /\ indices' = Desocupar(procesos[p].inicio, Paginas[p])
      /\ escritas' = escritas /\ procesos' = procesos
  BY <1>1, EntradaDe DEF SwapBorrar, historiaVars
<1> HIDE DEF s
<1>6. \A j \in 1 .. Len(s) : s[j] = PaginaDe(p, j - 1)'
  BY <1>1, <1>5 DEF EnSuBloque, PaginaDe, s
<1>7. ASSUME NEW b \in Bloques
      PROVE  archivo'[b] = IF b < k + 1 THEN CERO ELSE PaginaDe(p, b)'
  <2>1. b \in Nat /\ procesos[p].inicio + k = k
    BY <1>1, <1>2 DEF Bloques
  <2>2. archivo[b] = IF b < k THEN CERO ELSE PaginaDe(p, b)
    BY <1>1, <1>4 DEF EnSuBloque
  <2>3. PaginaDe(p, b)' = PaginaDe(p, b)
    BY <1>5 DEF PaginaDe
  <2>4. archivo'[b] = IF b = k THEN CERO ELSE archivo[b]
    BY <1>1, <1>5, <2>1
  <2>5. b < k + 1 <=> b < k \/ b = k
    BY <1>2, <2>1
  <2> HIDE DEF k
  <2> QED
    BY <2>2, <2>3, <2>4, <2>5
<1>8. Marcado(0)'
  <2>0. /\ Len(Desocupar(0, Paginas[p])) = Len(indices)
        /\ \A j \in 1 .. Len(indices) :
             Desocupar(0, Paginas[p])[j] =
               IF j \in 0 + 1 .. 0 + Paginas[p] THEN FALSE ELSE indices[j]
    <3>1. indices \in Seq(BOOLEAN)
      BY <1>1
    <3>2. PICK n : n = Paginas[p]
      OBVIOUS
    <3>3. /\ Len(Desocupar(0, n)) = Len(indices)
          /\ \A j \in 1 .. Len(indices) :
               Desocupar(0, n)[j] = IF j \in 0 + 1 .. 0 + n THEN FALSE ELSE indices[j]
      BY <3>1, DesocuparEs
    <3> QED
      BY <3>2, <3>3
  <2>1. /\ Len(indices') = Len(indices)
        /\ \A j \in 1 .. Len(indices) :
             indices'[j] = IF j \in 0 + 1 .. 0 + Paginas[p] THEN FALSE ELSE indices[j]
    BY <1>1, <1>5, <2>0
  <2>2. ASSUME NEW j \in 1 .. Len(indices) PROVE ~indices'[j]
    <3>1. CASE j <= Paginas[p]
      <4>1. j \in 0 + 1 .. 0 + Paginas[p]
        BY <1>2, <3>1
      <4> QED
        BY <2>1, <4>1
    <3>2. CASE ~ (j <= Paginas[p])
      <4>1. j \notin 0 + 1 .. 0 + Paginas[p] /\ ~ (j <= 0)
        BY <1>2, <3>2
      <4>2. ~indices[j]
        BY <1>1, <3>2, <4>1 DEF EnSuBloque, Marcado
      <4> QED
        BY <2>1, <4>1, <4>2
    <3> QED
      BY <3>1, <3>2
  <2>3. \A j \in 1 .. Len(indices) : ~ (j <= 0)
    BY <1>1
  <2> QED
    BY <1>1, <2>1, <2>2, <2>3 DEF Marcado
<1> HIDE DEF k
<1>9. (\A b \in Bloques : archivo'[b] = IF b < Salidas(p)' THEN CERO ELSE PaginaDe(p, b)')
      /\ Marcado(IF Salidas(p) = 0 THEN Paginas[p] ELSE 0)'
  BY <1>4, <1>7, <1>8
<1> QED
  BY <1>3, <1>6, <1>9 DEF EnSuBloque

LEMMA PasoEnSuBloque ==
  ASSUME IInv, InvDatos, ArchivoVacio, ~solapes', NEW p \in Pid, Paso(p),
         Inicios(p), EnViaje(p), EnSuBloque(p)
  PROVE  EnSuBloque(p)'
<1>0. LlamadaDatos(p) /\ LlamadaBuena(p)
  BY DEF InvDatos, IInv, Llamadas
<1>1. CASE SuspenderReservar(p)
  BY <1>1, BloqueReservado
<1>2. CASE SuspenderEscribir(p)
  BY <1>2, BloqueEscrito
<1>3. CASE SuspenderGuardar(p)
  BY <1>3, BloqueGuardado
<1>4. CASE SwapLeer(p)
  BY <1>4, BloqueLeido
<1>5. CASE SwapBorrar(p)
  BY <1>5, BloqueBorrado
<1>6. CASE ReanudarProceso(p) \/ FinalizarSuspendido(p)
  <2>1. /\ llamada[p].pc = "inactiva" /\ llamada'[p].pc \in {"rean_lee", "fin_lee"}
        /\ llamada'[p].paginas = llamada[p].paginas
    BY <1>6, Guardas, EfectoReanudarProceso, EfectoFinalizarSuspendido DEF Campos
  <2>2. Salidas(p)' = Salidas(p)
    BY <2>1 DEF Salidas
  <2>3. procesos' = procesos
    BY <1>6, EntradasQuietas
  <2>4. archivo' = archivo /\ indices' = indices /\ escritas' = escritas
    BY <1>6 DEF ReanudarProceso, FinalizarSuspendido, datosVars, historiaVars
  <2> QED
    BY <2>1, <2>2, <2>3, <2>4, BloqueQuieto DEF Existe
<1>7. CASE ReanudarEscribir(p)
  <2>1. /\ llamada[p].pc = "rean_lee" /\ llamada'[p].pc = "rean_tabla"
        /\ llamada'[p].paginas = llamada[p].paginas
    BY <1>7, Guardas, EfectoReanudarEscribir DEF Campos
  <2>2. Salidas(p)' = Salidas(p)
    BY <2>1 DEF Salidas
  <2>3. procesos' = procesos
    BY <1>7, EntradasQuietas
  <2>4. archivo' = archivo /\ indices' = indices /\ escritas' = escritas
    BY <1>7 DEF ReanudarEscribir, historiaVars
  <2> QED
    BY <2>1, <2>2, <2>3, <2>4, BloqueQuieto DEF Existe
<1>8. CASE SuspenderProceso(p) \/ SuspenderLiberar(p)
  <2>1. procesos' = procesos /\ ~procesos[p].suspendido
    <3>1. SuspenderLiberar(p) => ~procesos[p].suspendido
      BY <1>0, Guardas DEF LlamadaBuena, PCsSuspende
    <3> QED
      BY <1>8, <3>1, EntradasQuietas DEF SuspenderProceso
  <2>2. llamada'[p].pc # "susp_escribe"
    BY <1>8, EfectoSuspenderProceso, EfectoSuspenderLiberar DEF Campos
  <2> QED
    BY <2>1, <2>2, SinBloque
<1>9. CASE IniciarProceso(p)
  <2>1. /\ llamada'[p].pc = "inic_asigna" /\ llamada'[p].paginas = llamada[p].paginas
        /\ llamada[p].pc = "inactiva" /\ procesos' = procesos
    BY <1>9, Guardas, EfectoIniciarProceso, EntradasQuietas DEF Campos
  <2>2. Salidas(p)' = Salidas(p)
    BY <2>1 DEF Salidas
  <2>3. archivo' = archivo /\ indices' = indices /\ escritas' = escritas
    BY <1>9 DEF IniciarProceso, datosVars, historiaVars
  <2> QED
    BY <2>1, <2>2, <2>3, BloqueQuieto DEF Existe
<1>10. CASE \E k \in 0 .. Paginas[p] - 1 : Escribir(p, k)
  <2>1. ~procesos'[p].suspendido /\ llamada' = llamada /\ llamada[p].pc = "inactiva"
    BY <1>10, Guardas DEF Escribir
  <2> QED
    BY <2>1, SinBloque
<1>11. CASE IniciarAsignar(p) \/ ReanudarTabla(p) \/ FinalizarBorrado(p)
  <2>1. llamada'[p].pc = "inactiva"
    BY <1>11, EfectoTerminar DEF Campos
  <2>2. IniciarAsignar(p) => ~procesos'[p].suspendido
    BY DEF IniciarAsignar
  <2>3. FinalizarBorrado(p) => ~Existe(p)'
    BY DEF FinalizarBorrado, Restrict, Existe
  <2> QED
    BY <1>11, <2>1, <2>2, <2>3, EfectoTablaEntrada, SinBloque
<1>12. CASE FinalizarProceso(p)
  <2>1. ~Existe(p)' /\ llamada' = llamada /\ llamada[p].pc = "inactiva"
    BY <1>12, Guardas DEF FinalizarProceso, Restrict, Existe
  <2> QED
    BY <2>1, SinBloque
<1> QED
  BY <1>1, <1>2, <1>3, <1>4, <1>5, <1>6, <1>7, <1>8, <1>9, <1>10, <1>11, <1>12 DEF Paso

LEMMA PasoSinEscribir ==
  ASSUME IInv, InvDatos, SinEscribir, NEW p \in Pid, Paso(p) PROVE SinEscribir'
<1>1. \A q \in Pid \ {p} : escritas'[q] = escritas[q] /\ (q \in creados' <=> q \in creados)
  BY Ajenos, QuienHistoria DEF InvDatos, Contenido
<1>2. p \notin creados' => escritas'[p] = {}
  <2>1. CASE \E k \in 0 .. Paginas[p] - 1 : Escribir(p, k)
    <3>1. Existe(p) /\ creados' = creados
      BY <2>1 DEF Escribir
    <3>2. p \in creados
      BY <3>1 DEF IInv, Entradas, EntradaBuena, Existe
    <3> QED
      BY <3>1, <3>2
  <2>2. CASE ~\E k \in 0 .. Paginas[p] - 1 : Escribir(p, k)
    <3>1. escritas' = escritas
      BY <2>2, QuienHistoria DEF InvDatos, Contenido
    <3>2. p \in creados => p \in creados'
      BY QuienCrea DEF IniciarAsignar
    <3> QED
      BY <3>1, <3>2 DEF SinEscribir
  <2> QED
    BY <2>1, <2>2
<1> QED
  BY <1>1, <1>2 DEF SinEscribir

InvTodo == IInv /\ InvCreados /\ InvDatos /\ InvContenidos

LEMMA PasoInvContenidos ==
  ASSUME InvTodo, ConPaginas, IInv', NEW p \in Pid, Paso(p) PROVE InvContenidos'
<1>0. IInv /\ InvCreados /\ InvDatos /\ SinEscribir /\ DOMAIN escritas = Pid
  BY DEF InvTodo, InvContenidos, InvDatos, Contenido
<1>1. SinEscribir'
  BY <1>0, PasoSinEscribir
<1>2. ASSUME ~solapes' PROVE SinSolapes'
  <2>1. ~solapes
    BY <1>0, <1>2, QuienHistoria
  <2>2. /\ UnoEnArchivo /\ ArchivoVacio
        /\ \A q \in Pid : Inicios(q) /\ EnSusMarcos(q) /\ EnViaje(q) /\ EnSuBloque(q)
    BY <2>1 DEF InvTodo, InvContenidos, SinSolapes
  <2>3. UnoEnArchivo' /\ ArchivoVacio'
    BY <1>0, <1>2, <2>2, PasoUno, PasoVacio
  <2>4. Inicios(p)' /\ EnSusMarcos(p)' /\ EnViaje(p)' /\ EnSuBloque(p)'
    BY <1>0, <1>2, <2>2, PasoInicios, PasoEnSusMarcos, PasoEnViaje, PasoEnSuBloque
  <2>5. ASSUME NEW q \in Pid \ {p}
        PROVE  Inicios(q)' /\ EnSusMarcos(q)' /\ EnViaje(q)' /\ EnSuBloque(q)'
    <3>1. /\ llamada'[q] = llamada[q] /\ (Existe(q)' <=> Existe(q))
          /\ Existe(q) => procesos'[q] = procesos[q]
      BY <1>0, Ajenos
    <3>2. escritas'[q] = escritas[q]
      BY <1>0, QuienHistoria
    <3>3. Inicios(q)'
      BY <2>2, <3>1 DEF Inicios
    <3>4. EnViaje(q)'
      BY <2>2, <3>1, <3>2 DEF EnViaje, PaginaDe, Lleva
    <3>5. EnSusMarcos(q)' /\ EnSuBloque(q)'
      BY <1>0, <1>2, <2>2, MarcosAjenos, BloqueAjeno
    <3> QED
      BY <3>3, <3>4, <3>5
  <2> QED
    BY <2>3, <2>4, <2>5 DEF SinSolapes
<1> QED
  BY <1>1, <1>2 DEF InvContenidos

LEMMA PasoInvTodo == ASSUME InvTodo, ConPaginas, [Next]_vars PROVE InvTodo'
<1>1. IInv' /\ InvCreados' /\ InvDatos'
  BY InvariantePaso, PasoInvResidencia, PasoInvDatos DEF InvTodo, InvResidencia
<1>2. CASE UNCHANGED vars
  <2>1. UNCHANGED <<procesos, memoria, indices, archivo, llamada, creados, escritas, solapes>>
    BY <1>2 DEF vars, datosVars, historiaVars
  <2>2. SinEscribir' <=> SinEscribir
    BY <2>1 DEF SinEscribir
  <2>3. UnoEnArchivo' <=> UnoEnArchivo
    BY <2>1 DEF UnoEnArchivo, EnArchivo, Existe
  <2>4. ArchivoVacio' <=> ArchivoVacio
    BY <2>1 DEF ArchivoVacio, EnArchivo, Existe
  <2>5. \A q \in Pid : (EnMarcos(q)' <=> EnMarcos(q)) /\ TablaDe(q)' = TablaDe(q)
                       /\ (Existe(q)' <=> Existe(q)) /\ Salidas(q)' = Salidas(q)
    BY <2>1 DEF EnMarcos, TablaDe, Existe, Salidas
  <2>6. \A q \in Pid : \A k : PaginaDe(q, k)' = PaginaDe(q, k) /\ (Lleva(q, k)' <=> Lleva(q, k))
    BY <2>1 DEF PaginaDe, Lleva
  <2>7. \A n : Marcado(n)' <=> Marcado(n)
    BY <2>1 DEF Marcado
  <2>8. ASSUME NEW q \in Pid, Inicios(q) /\ EnSusMarcos(q) /\ EnViaje(q) /\ EnSuBloque(q)
        PROVE  Inicios(q)' /\ EnSusMarcos(q)' /\ EnViaje(q)' /\ EnSuBloque(q)'
    <3>1. Inicios(q)'
      BY <2>1, <2>5, <2>8 DEF Inicios
    <3>2. EnSusMarcos(q)'
      BY <2>1, <2>5, <2>6, <2>8 DEF EnSusMarcos
    <3>3. EnViaje(q)'
      BY <2>1, <2>6, <2>8 DEF EnViaje
    <3>4. EnSuBloque(q)'
      BY <2>1, <2>5, <2>6, <2>7, <2>8 DEF EnSuBloque
    <3> QED
      BY <3>1, <3>2, <3>3, <3>4
  <2>9. SinSolapes => SinSolapes'
    BY <2>3, <2>4, <2>8 DEF SinSolapes
  <2> QED
    BY <1>1, <2>1, <2>2, <2>9 DEF InvTodo, InvContenidos
<1>3. ASSUME NEW p \in Pid, Paso(p) PROVE InvTodo'
  BY <1>1, <1>3, PasoInvContenidos DEF InvTodo
<1> QED
  BY <1>2, <1>3 DEF Next

LEMMA InvTodoInicial == Init => InvTodo
<1> SUFFICES ASSUME Init PROVE InvTodo
  OBVIOUS
<1>1. IInv /\ InvDatos
  BY InvarianteInicial, InvDatosInicial
<1>2. InvCreados /\ SinEscribir
  BY DEF Init, InvCreados, SinEscribir
<1>3. \A p \in Pid : ~Existe(p) /\ llamada[p] = SinLlamada
  BY DEF Init, Existe
<1>4. UnoEnArchivo /\ ArchivoVacio
  BY <1>3 DEF Init, UnoEnArchivo, ArchivoVacio, EnArchivo
<1>5. \A p \in Pid : Inicios(p) /\ EnSusMarcos(p) /\ EnViaje(p) /\ EnSuBloque(p)
  BY <1>3 DEF Inicios, EnSusMarcos, EnMarcos, EnViaje, EnSuBloque, SinLlamada, PCsSuspende
<1> QED
  BY <1>1, <1>2, <1>4, <1>5 DEF InvTodo, InvContenidos, SinSolapes

LEMMA ImplicaContenido == ASSUME InvTodo PROVE ContenidoIntacto
<1> SUFFICES ASSUME ~solapes, NEW p \in EnRam, Inactiva(p), NEW k \in 0 .. Paginas[p] - 1
             PROVE  memoria[procesos[p].tabla[k + 1]] = PaginaDe(p, k)
  BY DEF ContenidoIntacto
<1>1. p \in Pid /\ EnMarcos(p) /\ TablaDe(p) = procesos[p].tabla
  BY DEF EnRam, TablaDe, Inactiva
<1>2. EnSusMarcos(p)
  BY <1>1 DEF InvTodo, InvContenidos, SinSolapes
<1> QED
  BY <1>1, <1>2 DEF EnSusMarcos

LEMMA ImplicaSwap == ASSUME InvTodo PROVE SwapExacto
<1> SUFFICES ASSUME EnReposo, ~solapes
             PROVE  /\ Cardinality({i \in DOMAIN indices : indices[i]}) =
                         Cardinality(PaginasDe(EnSwap))
                    /\ \A b \in Bloques : archivo[b] # CERO =>
                         b + 1 \in DOMAIN indices /\ indices[b + 1]
  BY DEF SwapExacto
<1> DEFINE marcados == {i \in DOMAIN indices : indices[i]}
<1>1. /\ UnoEnArchivo /\ ArchivoVacio /\ \A p \in Pid : EnSuBloque(p)
      /\ DOMAIN indices = 1 .. Len(indices) /\ Len(indices) \in Nat
  BY LenProperties DEF InvTodo, InvContenidos, SinSolapes, InvDatos, Cuenta
<1>2. EnSwap = {p \in Pid : EnArchivo(p)}
  BY DEF EnReposo, Inactiva, EnSwap, EnArchivo, PCsSuspende
<1>3. CASE \A p \in Pid : ~EnArchivo(p)
  <2>1. marcados = {} /\ PaginasDe(EnSwap) = {}
    BY <1>1, <1>2, <1>3 DEF ArchivoVacio, PaginasDe
  <2>2. \A b \in Bloques : archivo[b] = CERO
    BY <1>1, <1>3 DEF ArchivoVacio
  <2> QED
    BY <2>1, <2>2
<1>4. ASSUME NEW p \in Pid, EnArchivo(p)
      PROVE  /\ Cardinality(marcados) = Cardinality(PaginasDe(EnSwap))
             /\ \A b \in Bloques : archivo[b] # CERO =>
                  b + 1 \in DOMAIN indices /\ indices[b + 1]
  <2> DEFINE n == Paginas[p]
  <2>1. llamada[p].pc = "inactiva" /\ llamada[p].paginas = <<>>
    BY DEF EnReposo, Inactiva, InvTodo, InvDatos, LlamadaDatos
  <2>2. Salidas(p) = 0 /\ n \in Nat
    BY <2>1, PaginasEs DEF Salidas
  <2>3. Existe(p) /\ procesos[p].suspendido
    BY <1>4, <2>1 DEF EnArchivo
  <2>4. /\ \A b \in Bloques : archivo[b] = IF b < 0 THEN CERO ELSE PaginaDe(p, b)
        /\ Marcado(n)
    BY <1>1, <2>2, <2>3 DEF EnSuBloque
  <2>5. marcados = 1 .. n
    BY <1>1, <2>2, <2>4 DEF Marcado
  <2>6. EnSwap = {p}
    BY <1>1, <1>2, <1>4 DEF UnoEnArchivo
  <2>7. PaginasDe(EnSwap) = {p} \X (0 .. n - 1)
    BY <2>6 DEF PaginasDe
  <2>8. Cardinality({p} \X (0 .. n - 1)) = n
    <3>1. IsFiniteSet({p}) /\ Cardinality({p}) = 1
      BY FS_Singleton
    <3>2. IsFiniteSet(0 .. n - 1) /\ Cardinality(0 .. n - 1) = n
      <4>1. n \in Nat /\ 0 \in Int /\ n - 1 \in Int
        BY <2>2
      <4>2. /\ IsFiniteSet(0 .. n - 1)
            /\ Cardinality(0 .. n - 1) = IF 0 > n - 1 THEN 0 ELSE (n - 1) - 0 + 1
        BY <4>1, FS_Interval, Zenon
      <4>3. (IF 0 > n - 1 THEN 0 ELSE (n - 1) - 0 + 1) = n
        BY <4>1
      <4> QED
        BY <4>2, <4>3
    <3> DEFINE uno == {p}
               paginas == 0 .. n - 1
    <3>0. IsFiniteSet(uno) /\ IsFiniteSet(paginas)
      BY <3>1, <3>2
    <3> HIDE DEF uno, paginas
    <3>4. Cardinality(uno \X paginas) = Cardinality(uno) * Cardinality(paginas)
      BY <3>0, FS_Product, Zenon
    <3>3. Cardinality({p} \X (0 .. n - 1)) = 1 * n
      BY <3>1, <3>2, <3>4, Zenon DEF uno, paginas
    <3> QED
      BY <2>2, <3>3
  <2>9. Cardinality(1 .. n) = n
    BY <2>2, FS_Interval
  <2>10. ASSUME NEW b \in Bloques, archivo[b] # CERO
         PROVE  b + 1 \in DOMAIN indices /\ indices[b + 1]
    <3>1. b \in Nat /\ archivo[b] = PaginaDe(p, b)
      BY <2>4 DEF Bloques
    <3>2. b < n
      BY <2>2, <2>10, <3>1, PaginaDeMas DEF InvTodo
    <3>3. b + 1 \in marcados
      BY <2>2, <2>5, <3>1, <3>2
    <3> QED
      BY <3>3
  <2> QED
    BY <2>5, <2>7, <2>8, <2>9, <2>10
<1> QED
  BY <1>3, <1>4

\* Where the whole invariant is needed.
LEMMA InvTodoSiempre == ConPaginas => (Spec => []InvTodo)
<1> SUFFICES ASSUME ConPaginas PROVE Spec => []InvTodo
  OBVIOUS
<1>1. InvTodo /\ [Next]_vars => InvTodo'
  BY PasoInvTodo
<1> QED
  BY <1>1, InvTodoInicial, PTL DEF Spec

\* When every process has pages, and as long as every block of swap was the
\* first of the file and given with nobody else in swap, a process in frames
\* finds in each page what it wrote there and zero elsewhere, for any number of
\* processes, pages, frames and suspensions: eliminarMarcosFisicos,
\* escribirEnSWAP, eliminarPaginasSWAP and escribirPaginas keep each page under
\* its number, in whatever frames the process comes back to.
THEOREM ContenidoSiempre == ConPaginas => (Spec => []ContenidoIntacto)
<1>1. InvTodo => ContenidoIntacto
  BY ImplicaContenido
<1> QED
  BY <1>1, InvTodoSiempre, PTL

\* With the same hypotheses, between calls the blocks marked as taken are as
\* many as the pages of the suspended process, and the file holds nothing
\* outside them: eliminarPaginasSWAP frees what obtenerIndiceSwapDisponible
\* gave, and leaves zeros.
THEOREM SwapSiempre == ConPaginas => (Spec => []SwapExacto)
<1>1. InvTodo => SwapExacto
  BY ImplicaSwap
<1> QED
  BY <1>1, InvTodoSiempre, PTL

===========================================================================
