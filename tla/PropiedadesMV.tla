--------------------------- MODULE PropiedadesMV ---------------------------
(***************************************************************************)
(* What a program may rely on when it reads and writes its pages.          *)
(***************************************************************************)
EXTENDS MemoriaVirtual

CONSTANT Formas \* shapes of page tables: <<levels, entries, pages>>

PCsInstr == {"libre", "fetch", "traducir", "pedir", "insertar", "actualizar",
             "enviar", "acceder"}

Proceso == [suspendido : BOOLEAN, marcos : Seq(Marco), swap : Seq(Valor)]

Lectura == [pid : Pid, pagina : Pagina, respuesta : Valor, valor : Valor \cup {VACIO}]

ASSUME FormasOK == Formas \subseteq (Nat \ {0}) \X (Nat \ {0}) \X Nat

ASSUME NADAAparte == NADA \notin Pid /\ NADA \notin Proceso

\* Every variable keeps its type.
TiposMV ==
  /\ config \in Configs
  /\ procesos \in [Pid -> Proceso \cup {NADA}]
  /\ terminados \subseteq Pid
  /\ memoria \in [Marco -> Valor] /\ trabada \in BOOLEAN
  /\ \A c \in Cpu :
       /\ instr[c].pc \in PCsInstr
       /\ instr[c].pid \in Pid \cup {NADA}
       /\ (instr[c].pid = NADA) = (instr[c].pc = "libre")
       /\ instr[c].pagina \in Pagina /\ instr[c].valor \in Valor
       /\ instr[c].marco \in Marco \cup {NoHay}
       /\ instr[c].contenido \in Valor
  /\ lectura \in Lectura \cup {NADA}

\* While a replacement is under way the page to put is in no entry, the cache
\* is full and the victim is one of its entries: the modified copy that is
\* written to memory is the one that leaves.
VictimaEnCurso(c) ==
  instr[c].pc = "actualizar" =>
    /\ cache[c].indice[instr[c].pagina] = 0
    /\ Len(cache[c].entradas) = config.cache
    /\ instr[c].victima \in DOMAIN cache[c].entradas

\* The maps of TLB and cache, which are keyed by page alone, never lead to an
\* entry of another page; the cache has no page twice and neither has more
\* entries than places, whatever processes alternate, and in the middle of a
\* replacement too (buscarVictima..., ReemplazarEnTLB, CargarTLB).
IndicesFieles ==
  \A c \in Cpu :
    /\ config.tlb > 0 => TLBFiel(tlb[c], config.tlb)
    /\ config.cache > 0 => CacheFiel(cache[c], config.cache) /\ VictimaEnCurso(c)
---------------------------------------------------------------------------

\* Every shape has every page where the CPU looks for it, if it is a good one,
\* and never leads a page with indexes of its own to another page.
FormasAlcanzan ==
  \A f \in Formas :
    /\ FormaBuena(f[1], f[2], f[3]) => Alcanza(f[1], f[2], f[3])
    /\ \A k \in 0 .. Exp(f[2], f[1]) - 1 : PaginaHallada(f[1], f[2], f[3], k) \in {k, NoHay}

\* The page table a process gets has every page where the CPU looks for it
\* (crearTabla, ExtraerEntradasYDesplazamiento, obtenerMarcoDesdeTabla), when
\* its shape is a good one: those of the processes that live, and every shape of
\* Formas.  None leads a page with indexes of its own to another page.
TablaAlcanza ==
  /\ FormasAlcanzan
  /\ \A p \in Pid :
       Vive(p) /\ FormaBuena(config.niveles, config.porTabla, config.paginas[p]) =>
         \A k \in Pagina \cap 0 .. Exp(config.porTabla, config.niveles) - 1 :
           MarcoDe(p, k) = IF k < config.paginas[p] THEN procesos[p].marcos[k + 1] ELSE NoHay

\* The frame a CPU is about to read or write is one of the process it does it
\* for: its own, or that of the victim it writes back, if it still lives.
AccesoPropio ==
  \A c \in config.cpus :
    LET i == instr[c]
        de == IF i.pc = "actualizar" THEN cache[c].entradas[i.victima].pid ELSE i.pid
    IN i.pc \in {"pedir", "actualizar", "enviar", "acceder"} /\ i.marco # NoHay =>
         /\ Vive(de) /\ ~procesos[de].suspendido
         /\ i.marco \in ToSet(procesos[de].marcos)

\* With a TLB nobody is suspended; with a cache there is one CPU and a process
\* at a time; with both, one process.
SinMezcla(g) ==
  /\ g.tlb > 0 => ~g.medio
  /\ g.cache > 0 => ~g.alternan /\ \A c, d \in g.cpus : c = d
  /\ g.cache > 0 /\ g.tlb > 0 =>
       \A p, q \in Pid : g.paginas[p] > 0 /\ g.paginas[q] > 0 => p = q

\* Every page has entries of its own; with a cache, where the CPU looks for it
\* (without one, an instruction that finds no frame reads nothing).
TablaBuena(g) ==
  \A p \in Pid :
    /\ g.paginas[p] <= Exp(g.porTabla, g.niveles)
    /\ g.cache > 0 => FormaBuena(g.niveles, g.porTabla, g.paginas[p])

\* The configurations for which AccesoPropio holds, and what follows: those of
\* pruebas/.
Regulares == \A g \in Configs : TablaBuena(g) /\ SinMezcla(g)

\* The page as its program sees it: in the cache of a CPU, in swap or in its
\* frame.
Visto(p, k) ==
  LET cpus == {c \in config.cpus : config.cache > 0 /\ EnCache(cache[c], p, k)} IN
  CASE ~Vive(p) \/ k >= config.paginas[p] -> CERO
    [] OTHER ->
       IF cpus # {} THEN Copia(cache[CHOOSE c \in cpus : TRUE], k).contenido
       ELSE IF procesos[p].suspendido THEN procesos[p].swap[k + 1]
       ELSE memoria[procesos[p].marcos[k + 1]]

\* CPUs and memory implement the user space: every page holds what its program
\* wrote there last, and a READ is answered with it, by cache or memory.  The
\* answer gets to the program with a cache only: without one it is lost on the
\* way (AccederEspacioUsuarioLectura, LeerPaginaMemoria).
E == INSTANCE EspacioUsuario WITH
       contenido <- [p \in Pid |-> [k \in Pagina |-> Visto(p, k)]],
       llega <- config.cache > 0
CumpleEspacioUsuario == E!Spec

\* What it should be, with or without a cache: a program reads what it wrote.
F == INSTANCE EspacioUsuario WITH
       contenido <- [p \in Pid |-> [k \in Pagina |-> Visto(p, k)]],
       llega <- TRUE
SiempreLlega == F!Spec

\* The mutex of the memory module is left taken (leer and escribir with no frame
\* to index) only where the CPU finds no frame for a page its process has: when
\* some process has a page table of a bad shape.  A process that is suspended
\* or ends, and a translation that is old, never lead there.
MemoriaLibre ==
  trabada => \E p \in Pid : ~FormaBuena(config.niveles, config.porTabla, config.paginas[p])
===========================================================================
