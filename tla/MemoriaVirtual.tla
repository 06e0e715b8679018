-------------------------- MODULE MemoriaVirtual --------------------------
(***************************************************************************)
(* How the CPUs reach user space: READ and WRITE (Execute), the page cache *)
(* and the TLB of each CPU, and the requests to the memory module, which   *)
(* serves them one by one.  The kernel decides who is admitted, executed,  *)
(* suspended and ended, and acts between any two steps of a CPU, except on *)
(* the process that CPU executes.                                          *)
(*                                                                         *)
(* A page is one cell.  The configuration, of CPU and memory, is chosen at *)
(* the start, from those of Configs.                                       *)
(***************************************************************************)
EXTENDS TablaPaginas, TLB, CachePaginas

CONSTANTS
  Cpu, Pid,
  Pagina,    \* virtual pages, 0 .. n
  NMarcos,   \* frames of the memory
  Valor,     \* what a program may write
  Configs,   \* configurations
  NADA, CERO,
  VACIO      \* the content of an answer without the field `contenido`

(* A configuration:                                                        *)
(*   cache, algCache   Cache_entries (0: none) and Cache_replacement       *)
(*   tlb, algTlb       Tlb_entries (0: none) and Tlb_replacement           *)
(*   niveles, porTabla Number_of_levels and Entries_per_page               *)
(*   cpus              the CPUs that are connected                         *)
(*   paginas           pages of each process; 0 for one that never comes   *)
(*   alternan          processes are admitted while others live            *)
(*   medio             the kernel suspends processes                       *)

ASSUME MemoriaVirtualOK ==
  /\ NMarcos \in Nat \ {0}
  /\ Pagina \subseteq Nat /\ 0 \in Pagina
  /\ CERO \in Valor /\ VACIO \notin Valor
  /\ \A c \in Configs :
       /\ c.cache \in Nat /\ c.tlb \in Nat
       /\ c.algCache \in {"CLOCK", "CLOCK-M"} /\ c.algTlb \in {"FIFO", "LRU"}
       /\ c.niveles \in Nat \ {0} /\ c.porTabla \in Nat \ {0}
       /\ c.cpus \subseteq Cpu
       /\ c.paginas \in [Pid -> Nat]
       /\ \A p \in Pid : 0 .. c.paginas[p] - 1 \subseteq Pagina
       /\ c.alternan \in BOOLEAN /\ c.medio \in BOOLEAN

Marco == 0 .. NMarcos - 1

VARIABLES
  config,   \* the configuration
  procesos, \* Procesos: pid -> [suspendido, marcos, swap], or NADA
  terminados, \* history: the processes that ended; a pid is not used again
  memoria,  \* Memoria, by frame
  trabada,  \* MemoriaMutex was taken by a handler that panicked
  cache,    \* ElCache of each CPU
  tlb,      \* Tlb of each CPU
  instr,    \* what each CPU executes
  lectura   \* history: what the last step read and what was answered, or NADA

vars == <<config, procesos, terminados, memoria, trabada, cache, tlb, instr, lectura>>

SinInstr == [pc |-> "libre", pid |-> NADA, op |-> "", pagina |-> 0, valor |-> CERO,
             marco |-> NoHay, contenido |-> CERO, victima |-> 0, copia |-> NADA]

\* Between two instructions of p.
Entre(p) == [SinInstr EXCEPT !.pc = "fetch", !.pid = p]

Vive(p) == procesos[p] # NADA

Ejecuta(p) == \E c \in config.cpus : instr[c].pid = p

Ocupados ==
  UNION {ToSet(procesos[p].marcos) : p \in {q \in Pid : Vive(q) /\ ~procesos[q].suspendido}}

\* buscarMarcosDisponibles: the first n frames that are free, in order; none
\* when they are not enough.
Libres(n) ==
  LET libres == Marco \ Ocupados IN
  {marcos \in [1 .. n -> libres] :
     /\ \A i, j \in 1 .. n : i < j => marcos[i] < marcos[j]
     /\ \A f \in libres \ ToSet(marcos), i \in 1 .. n : marcos[i] < f}

Nada == lectura' = NADA
---------------------------------------------------------------------------
(* The kernel and the memory module. *)

\* AlmacenarProceso.
Admitir(p) ==
  /\ ~Vive(p) /\ p \notin terminados /\ config.paginas[p] > 0
  /\ config.alternan \/ \A q \in Pid : ~Vive(q)
  /\ \E marcos \in Libres(config.paginas[p]) :
       procesos' = [procesos EXCEPT ![p] =
         [suspendido |-> FALSE, marcos |-> marcos, swap |-> <<>>]]
  /\ Nada /\ UNCHANGED <<config, terminados, memoria, trabada, cache, tlb, instr>>

\* The short-term planner: nothing is emptied in the CPU.
Despachar(c, p) ==
  /\ instr[c].pc = "libre" /\ Vive(p) /\ ~procesos[p].suspendido /\ ~Ejecuta(p)
  /\ instr' = [instr EXCEPT ![c] = Entre(p)]
  /\ Nada /\ UNCHANGED <<config, procesos, terminados, memoria, trabada, cache, tlb>>

\* Mutant of Ceder: the process stays in the CPU.
CederSinLimpiar(c) ==
  /\ instr[c].pc = "fetch"
  /\ instr' = [instr EXCEPT ![c].pc = "libre"]
  /\ Nada /\ UNCHANGED <<config, procesos, terminados, memoria, trabada, cache, tlb>>

\* A syscall or an interruption: the CPU is free.
Ceder(c) ==
  /\ instr[c].pc = "fetch"
  /\ instr' = [instr EXCEPT ![c] = SinInstr]
  /\ Nada /\ UNCHANGED <<config, procesos, terminados, memoria, trabada, cache, tlb>>

\* eliminarMarcosFisicos: frames are set to zero.
Vaciar(marcos) ==
  /\ ~trabada
  /\ memoria' = [f \in Marco |-> IF f \in ToSet(marcos) THEN CERO ELSE memoria[f]]

\* SuspenderProceso: the page table keeps the frames it had.
Suspender(p) ==
  /\ config.medio /\ Vive(p) /\ ~procesos[p].suspendido /\ ~Ejecuta(p)
  /\ Vaciar(procesos[p].marcos)
  /\ procesos' = [procesos EXCEPT ![p].suspendido = TRUE,
       ![p].swap = [k \in DOMAIN procesos[p].marcos |-> memoria[procesos[p].marcos[k]]]]
  /\ Nada /\ UNCHANGED <<config, terminados, trabada, cache, tlb, instr>>

\* ReanudarProceso, in other frames perhaps.
Reanudar(p) ==
  /\ ~trabada /\ Vive(p) /\ procesos[p].suspendido
  /\ \E marcos \in Libres(config.paginas[p]) :
       /\ memoria' = [f \in Marco |->
            IF f \in ToSet(marcos)
            THEN procesos[p].swap[CHOOSE i \in DOMAIN marcos : marcos[i] = f]
            ELSE memoria[f]]
       /\ procesos' = [procesos EXCEPT ![p] =
            [suspendido |-> FALSE, marcos |-> marcos, swap |-> <<>>]]
  /\ Nada /\ UNCHANGED <<config, terminados, trabada, cache, tlb, instr>>

\* FinalizarProceso, after EXIT: nothing is emptied in the CPU.
Finalizar(p) ==
  /\ Vive(p) /\ ~Ejecuta(p)
  /\ IF procesos[p].suspendido THEN UNCHANGED memoria ELSE Vaciar(procesos[p].marcos)
  /\ procesos' = [procesos EXCEPT ![p] = NADA]
  /\ terminados' = terminados \cup {p}
  /\ Nada /\ UNCHANGED <<config, trabada, cache, tlb, instr>>
---------------------------------------------------------------------------
(* The CPU. *)

\* obtenerMarcoDesdeTabla.  Without an entry (the process ended) there is no
\* table; a suspended one answers with the frames it had.
MarcoDe(p, k) ==
  IF ~Vive(p) THEN NoHay
  ELSE LET hallada == PaginaHallada(config.niveles, config.porTabla, config.paginas[p], k)
       IN IF hallada = NoHay THEN NoHay ELSE procesos[p].marcos[hallada + 1]

\* ConseguirDireccionFisica: the frame, and the TLB it leaves.
Direccion(c, p, k) ==
  LET t == tlb[c]
      pedido == MarcoDe(p, k)
  IN CASE config.tlb > 0 /\ EnTLB(t, p, k) ->
            [marco |-> MarcoEnTLB(t, k), tlb |-> Acertada(t, config.algTlb, k)]
       [] config.tlb > 0 /\ ~EnTLB(t, p, k) /\ pedido # NoHay ->
            [marco |-> pedido,
             tlb |-> CargarTLB(t, config.tlb, config.algTlb, p, k, pedido)]
       [] OTHER -> [marco |-> pedido, tlb |-> t]

\* RespuestaContenido: of an answer with one field the CPU decodes `contenido`.
Decodificado(campo, v) == IF campo = "contenido" THEN v ELSE VACIO

\* A READ is answered this, by cache or memory, and the program gets that.
Leyo(p, k, respuesta, v) ==
  lectura' = [pid |-> p, pagina |-> k, respuesta |-> respuesta, valor |-> v]

\* A READ or a WRITE whose page is in the cache.
Acertar(c, op, k, v) ==
  LET p == instr[c].pid IN
  /\ instr[c].pc = "fetch" /\ k < config.paginas[p]
  /\ config.cache > 0 /\ EnCache(cache[c], p, k)
  /\ IF op = "WRITE"
     THEN cache' = [cache EXCEPT ![c] = Escrita(cache[c], k, v)] /\ Nada
     ELSE /\ cache' = [cache EXCEPT ![c] = Leida(cache[c], k)]
          /\ Leyo(p, k, Copia(cache[c], k).contenido, Copia(cache[c], k).contenido)
  /\ UNCHANGED <<config, procesos, terminados, memoria, trabada, tlb, instr>>

\* One whose page is not there, or without cache.
Fallar(c, op, k, v) ==
  LET p == instr[c].pid IN
  /\ instr[c].pc = "fetch" /\ k < config.paginas[p]
  /\ config.cache = 0 \/ ~EnCache(cache[c], p, k)
  /\ instr' = [instr EXCEPT ![c] =
       [Entre(p) EXCEPT !.pc = "traducir", !.op = op, !.pagina = k, !.valor = v]]
  /\ Nada /\ UNCHANGED <<config, procesos, terminados, memoria, trabada, cache, tlb>>

Traducir(c) ==
  LET d == Direccion(c, instr[c].pid, instr[c].pagina) IN
  /\ instr[c].pc = "traducir"
  /\ tlb' = [tlb EXCEPT ![c] = d.tlb]
  /\ instr' = [instr EXCEPT ![c].marco = d.marco,
       ![c].pc = IF config.cache > 0 THEN "pedir" ELSE "enviar"]
  /\ Nada /\ UNCHANGED <<config, procesos, terminados, memoria, trabada, cache>>

\* PedirContenidoPagina: without an address (-1) it rounds down to 0.
\* LeerPagina answers the page in `contenido`.
Pedir(c) ==
  LET f == IF instr[c].marco = NoHay THEN 0 ELSE instr[c].marco IN
  /\ instr[c].pc = "pedir" /\ ~trabada
  /\ instr' = [instr EXCEPT ![c].pc = "insertar",
                            ![c].contenido = Decodificado("contenido", memoria[f])]
  /\ Nada /\ UNCHANGED <<config, procesos, terminados, memoria, trabada, cache, tlb>>

\* The entry to put, with what the instruction then does to it.
Nueva(c) ==
  LET i == instr[c] IN
  [pagina |-> i.pagina, pid |-> i.pid, r |-> TRUE, d |-> i.op = "WRITE",
   contenido |-> IF i.op = "WRITE" THEN i.valor ELSE i.contenido]

\* The instruction ends with this cache.
Completar(c, nuevo) ==
  /\ cache' = [cache EXCEPT ![c] = nuevo]
  /\ instr' = [instr EXCEPT ![c] = Entre(instr[c].pid)]
  /\ IF instr[c].op = "READ"
     THEN Leyo(instr[c].pid, instr[c].pagina, instr[c].contenido, instr[c].contenido)
     ELSE Nada

\* InsertarOReemplazarEnCache.
InsertarEncima(c) ==
  /\ instr[c].pc = "insertar" /\ cache[c].indice[instr[c].pagina] # 0
  /\ Completar(c, Sobrescribir(cache[c], Nueva(c)))
  /\ UNCHANGED <<config, procesos, terminados, memoria, trabada, tlb>>

InsertarAlFinal(c) ==
  /\ instr[c].pc = "insertar" /\ cache[c].indice[instr[c].pagina] = 0
  /\ Len(cache[c].entradas) < config.cache
  /\ Completar(c, Agregar(cache[c], Nueva(c)))
  /\ UNCHANGED <<config, procesos, terminados, memoria, trabada, tlb>>

\* Mutant of ElegirVictima: a victim that was modified is not written.
ElegirSinEscribir(c) ==
  LET e == Elegir(cache[c], config.algCache) IN
  /\ instr[c].pc = "insertar" /\ cache[c].indice[instr[c].pagina] = 0
  /\ Len(cache[c].entradas) >= config.cache
  /\ Completar(c, Reemplazar(Barrida(cache[c], e.entradas), e.victima, Nueva(c)))
  /\ UNCHANGED <<config, procesos, terminados, memoria, trabada, tlb>>

\* The victim is replaced at once, or, when it was modified, its address is
\* looked for as that of any page of its process.
ElegirVictima(c) ==
  LET e == Elegir(cache[c], config.algCache)
      v == e.entradas[e.victima]
      d == Direccion(c, v.pid, v.pagina)
      barrida == Barrida(cache[c], e.entradas)
  IN /\ instr[c].pc = "insertar" /\ cache[c].indice[instr[c].pagina] = 0
     /\ Len(cache[c].entradas) >= config.cache
     /\ IF v.d
        THEN /\ tlb' = [tlb EXCEPT ![c] = d.tlb]
             /\ cache' = [cache EXCEPT ![c] = barrida]
             /\ instr' = [instr EXCEPT ![c].pc = "actualizar", ![c].victima = e.victima,
                                       ![c].marco = d.marco]
             /\ Nada
        ELSE Completar(c, Reemplazar(barrida, e.victima, Nueva(c))) /\ UNCHANGED tlb
     /\ UNCHANGED <<config, procesos, terminados, memoria, trabada>>

\* ActualizarPaginaMemoria: the memory module refuses an address that is not
\* that of a frame, as -1, and the content is lost.
ActualizarVictima(c) ==
  LET v == instr[c].victima
      f == instr[c].marco
  IN /\ instr[c].pc = "actualizar"
     /\ f = NoHay \/ ~trabada
     /\ memoria' = IF f = NoHay THEN memoria
                   ELSE [memoria EXCEPT ![f] = cache[c].entradas[v].contenido]
     /\ Completar(c, Reemplazar(cache[c], v, Nueva(c)))
     /\ UNCHANGED <<config, procesos, terminados, trabada, tlb>>

\* Without cache: AccederEspacioUsuarioLectura and Escritura copy the entry of
\* the process ...
Enviar(c) ==
  /\ instr[c].pc = "enviar" /\ instr[c].marco # NoHay
  /\ instr' = [instr EXCEPT ![c].pc = "acceder", ![c].copia = procesos[instr[c].pid]]
  /\ Nada /\ UNCHANGED <<config, procesos, terminados, memoria, trabada, cache, tlb>>

\* ... sleep, and put the copy back with the access.  A read is answered in
\* `dato`, which LeerPaginaMemoria does not decode.
Acceder(c) ==
  LET i == instr[c] IN
  /\ i.pc = "acceder" /\ ~trabada
  /\ procesos' = [procesos EXCEPT ![i.pid] = i.copia]
  /\ IF i.op = "WRITE"
     THEN memoria' = [memoria EXCEPT ![i.marco] = i.valor] /\ Nada
     ELSE /\ Leyo(i.pid, i.pagina, memoria[i.marco], Decodificado("dato", memoria[i.marco]))
          /\ UNCHANGED memoria
  /\ instr' = [instr EXCEPT ![c] = Entre(i.pid)]
  /\ UNCHANGED <<config, terminados, trabada, cache, tlb>>

\* Without an address leer and escribir index Memoria with -1 and panic with
\* MemoriaMutex taken; the CPU gets an error and goes on.
EnviarSinMarco(c) ==
  /\ instr[c].pc = "enviar" /\ instr[c].marco = NoHay /\ ~trabada
  /\ trabada' = TRUE
  /\ instr' = [instr EXCEPT ![c] = Entre(instr[c].pid)]
  /\ Nada /\ UNCHANGED <<config, procesos, terminados, memoria, cache, tlb>>
---------------------------------------------------------------------------

Init ==
  /\ config \in Configs
  /\ procesos = [p \in Pid |-> NADA] /\ terminados = {}
  /\ memoria = [f \in Marco |-> CERO] /\ trabada = FALSE
  /\ cache = [c \in Cpu |-> NuevaCache(Pagina)]
  /\ tlb = [c \in Cpu |-> NuevaTLB(Pagina)]
  /\ instr = [c \in Cpu |-> SinInstr]
  /\ lectura = NADA

PasoCpu(c) ==
  \/ \E k \in Pagina : \/ Acertar(c, "READ", k, CERO) \/ Fallar(c, "READ", k, CERO)
                       \/ \E v \in Valor : Acertar(c, "WRITE", k, v) \/ Fallar(c, "WRITE", k, v)
  \/ Traducir(c) \/ Pedir(c)
  \/ InsertarEncima(c) \/ InsertarAlFinal(c) \/ ElegirVictima(c) \/ ActualizarVictima(c)
  \/ Enviar(c) \/ Acceder(c) \/ EnviarSinMarco(c)

PasoKernel(p) ==
  \/ Admitir(p) \/ Suspender(p) \/ Reanudar(p) \/ Finalizar(p)

Next ==
  \/ \E c \in config.cpus :
       PasoCpu(c) \/ Ceder(c) \/ \E p \in Pid : Despachar(c, p)
  \/ \E p \in Pid : PasoKernel(p)

Spec == Init /\ [][Next]_vars
===========================================================================
