# conurbanOS: TLA+ models, checks and proofs

conurbanOS simulates an operating system with four programs that talk over
HTTP: a **kernel** (process table, three planners, syscalls, devices), any
number of **CPUs** (instruction cycle, TLB, page cache), any number of **IO**
modules (each one an instance of a named device) and a **memory** (frames,
multi-level page tables, swap file, dumps). Every HTTP handler is a goroutine
of its own, so all of them run against each other and against the planners.

This directory holds the models of that code, the TLC runs that check them,
and TLAPS proofs about the kernel, the CPUs and the memory for any number of
processes, CPUs, devices and frames. Names in the modules are the ones of the source where TLA+ allows it.

    tlc -workers 2 -config despacho.cfg MCKernel      one run
    tlc -workers 2 -config marcos.cfg MCMemoria
    tlc -workers 2 -config srt.cfg MCPlanificadorSRT
    tlc -workers 2 -config espacio.cfg MCMemoriaVirtual
    tlapm PruebasTipos.tla                            the proofs of one module

## 1. Inventory

### Kernel (`kernel/`, `globals/kernel/`)

| part | state | operations |
|---|---|---|
| process table and queues (`estadosController.go`, `globals.go`) | `MapaProcesos`, one mutex per pid (`ProcesosMutex`), six queues with a mutex each, `PIDCounter` | one function per arrow of the seven-state diagram |
| short-term planner (`corto.go`, `comunicacion.go`) | `Sem_Cpus`, `Sem_ProcesosEnReady`, `ListaCPUs` | a loop: wait for a CPU, wait for a process, choose both, dispatch; FIFO and SJF |
| short-term planner, SRT (`corto.go`, `procesos.go`) | `SrtReplanificarChan`, of one place | a loop: wait for a notification, look at READY and the CPUs, dispatch, or interrupt the CPU of a longer process and dispatch there |
| long-term planner (`largo.go`) | `Sem_PasarProcesosAReady` | a loop: while memory accepts, SUSP_READY then NEW to READY; creation and end of a process |
| medium-term planner (`medio.go`) | `CantidadSesionesIO` | every block starts a goroutine that sleeps `suspension_time` and suspends the process if it is still blocked |
| syscalls (`syscallHandler.go`, `misc.go`) | (the tables above) | IO, INIT_PROC, DUMP_MEMORY, EXIT, `LiberarCPU` |
| devices (`ioHandler.go`, `handshakeHandler.go`) | `MapaIOs`: instances, `PidProcesoActual`, `ColaProcesosEsperando`; `ListaIOsMutex` | handshake, request, end of an IO, disconnection |

How they interact: the planners and the handlers share the table, the queues
and the mutexes, and wake each other through three counting semaphores. The
kernel calls memory (admit, suspend, resume, end, dump) synchronously, keeping
mutexes meanwhile; it calls CPUs and devices, which answer later with a call of
their own.

What is hard: a change of state is several critical sections (queue, queue,
table entry); the request to a device goes out before the process is blocked;
a dispatch goes out before the process is in EXECUTE; the flag of a CPU and
`Sem_Cpus` move separately; timers of an old block meet a new one; early
returns that leave a mutex locked or a CPU taken.

What makes it correct: each process is in one queue, that of its state; states
follow the diagram; no CPU and no device serves two; semaphores count what they
stand for; a program resumes after its last syscall; memory and kernel agree on
where a process is; every process ends and every CPU is given back.

### CPU (`cpu/`, `globals/cpu/`)

State: the process and PC it executes, a pending interruption, the TLB (FIFO or
LRU) and the page cache (CLOCK or CLOCK-M). Operations: fetch, decode, execute,
check interruption; translation of addresses through TLB and page tables;
reads and writes through the cache, with write-back. Hard: interruption against
a syscall that is already under way; entries that outlive their process; an
error in fetch or decode that abandons a program. Correct when it runs the
instructions of one program in order, a cached page is written back before it
is dropped, and no process sees the page of another.

### IO (`io/`)

State: the request it sleeps for. Operations: handshake, sleep and report the
end, report its disconnection on a signal. Correct when each request gets one
end.

### Memory (`memoria/`, `globals/memoria/`)

State: `Procesos` (page table, `Suspendido`, `InicioSWAP`,
`CantidadDePaginas`), the frames taken, the bytes, the swap file and its taken
blocks, metrics. Operations: admission, suspension, resumption, end, dump;
instruction, read, write, page read, page update, page-table walk. Hard: each
structure has a mutex of its own that is released between steps, entries are
copied out of a Go map and written back later, and suspensions (the kernel's
timers) overlap with admissions, resumptions and ends. Correct when each frame
has one owner, a process finds what it wrote, and swap holds each suspended
page once.

### Not core

Configuration files, logging, metrics and the instruction files: read or
written, nothing depends on them.

## 2. Modules

    Colas                     queues of pids and what the kernel does to them
      EstadoKernel            constants, variables, what memory does for the kernel
        PlanificadorCorto     short-term planner, FIFO and SJF
        PlanificadorLargo     long-term planner
        PlanificadorMedio     block and timers
        EntradaSalida         devices, kernel side and IO module
          SyscallsKernel      the four syscalls, LiberarCPU, what a CPU does
            Kernel            composition, Spec, fairness
              PropiedadesKernel -- INSTANCE --> CicloDeVida   (abstract life of a process)
                InvariantesKernel   the inductive strengthenings
                  MCKernel          instances for TLC
                  LemasKernel, PruebasTipos, PruebasProcesos, PruebasKernel   proofs
              Desconexiones         the kernel when IO modules shut down
                PropiedadesDesconexion
                  MCDesconexiones, PruebasDesconexion
      PlanificadorSRT         SRT, the loop of a CPU and its interruptions
        PropiedadesSRT
          MCPlanificadorSRT, PruebasSRT
    TablaPaginas              page tables: built, walked, and the entries of a page
    TLB, CachePaginas         their lists, indexes and replacement, as functions
      MemoriaVirtual          READ and WRITE of the CPUs and the memory that serves them
        PropiedadesMV -- INSTANCE --> EspacioUsuario    (what a program sees)
          MCMemoriaVirtual, PruebasMMU
    Memoria                   processes, frames, swap file
      PropiedadesMemoria -- INSTANCE --> Residencia     (where each process is)
        MCMemoria, PruebasMemoria

**Grain.** A step of the kernel is one critical section, or what a goroutine
does between two of them, with one exception: a change of state
(`blocked_a_ready` and its sisters) is a section for each queue and the write of
`Estado_Actual`, and is one step where the goroutine keeps `ProcesosMutex[pid]`
over all of it: nobody else can move that process meanwhile, and what others do to
the same queues, which is to add and take out other pids, commutes with it. The
dispatch and the block of a dump do not keep it; there the two queues are one
step (nobody else has the process) and `cambiar_estado` another. Mutexes kept across a call or across several steps
(`ProcesosMutex[pid]`, `ListaIOsMutex`, `SuspReadyMutex`, `NewMutex`, and
`ReadyMutex` where an early return leaks it: `fugaReady`) are variables, so
waiting for them and leaking them is in the model. The ones taken around a few
assignments are the atomicity of the step. Each goroutine has a record with a
program counter: `corto`, `largo`, `temporizador[p][n]` (the timer of the n-th
syscall of p), `manejador[c]` (the syscall CPU c issued: it has at most one,
because it goes idle after it), `finIO[i]`, and in `Desconexiones`
`desconexion[i]` (the module from its signal on, and then its handler).

A step of the memory module is one critical section too, and finer where the
code lets another call in: the swap file is read, erased and written page by
page. `eliminarMarcosFisicos` and `escribirPaginas` are one step each although
they lock frame by frame: nobody but the process's own call looks at those
frames before they are free, or after they were found.

In `PlanificadorSRT` the planner's round is cut wherever it releases its
mutexes, `execute_a_ready` between the queues and the state, the loop of a CPU
at the fetch, the execution, the check of interruptions and the end of the
round, and `RecibirInterrupcion` at its `Wait`: what it reads of
`EnvieSyscallBloqueante` afterwards races with the end of the round, and the
model has both orders. In `MemoriaVirtual` an instruction is cut at each request
to the memory module and at its delay; the kernel admits, suspends, resumes and
ends processes between any two of those steps, except the one the CPU executes.

**Errors kept as they are.** A nil dereference or a bad index is `panico` and
stops the model. Early returns keep what the code forgets: a locked process
mutex (`LeerPcb`, `DumpMirar`, `SuspReadyAReady`), `ReadyMutex`
(`ReadyAExecute`), a CPU (`IODescartar`, `DumpVolver`).

**State and code.** `mapa`, `cola`, `pidCounter`, `mutexProc`, `mutexIOs`,
`semCpus`, `semReady`, `semPasar`, `listaCPUs`, `libre`, `sesiones`,
`instanciasIO`, `esperaIO`, `enIO` are the globals of
`globals/kernel/globals.go`. `ejecuta` and `dispositivo` are what CPUs and IO
modules are doing, `memoria` where the memory module has a process. In
`Memoria`, `procesos`, `ocupados`, `memoria`, `indices`, `archivo` are
`Procesos`, `MemoriaMarcosOcupados`, `Memoria` by frame, `IndicesSWAPOcupados`
and the swap file by page. History variables (`emitidas`, `creados`,
`escritas`, `solapes`, `hecho`, `lectura`, `terminados`) are only read by
properties, except `creados` and `terminados`, which keep a pid from being used
twice, as the kernel's counter does. In `PlanificadorSRT`, `aviso` is what
`SrtReplanificarChan` holds, `porAvisar` the goroutines about to send,
`manejadores` the ones that serve a syscall (any number: an abandoned one stays),
`cpu[c]` the loop, `ColaDeEjecucion` and the globals of `globals/cpu`,
`restante` the estimate less the time in EXECUTE. In `MemoriaVirtual`,
`cache[c]`, `tlb[c]` are `ElCache` and `Tlb`, `instr[c]` the locals of
`Execute`, `trabada` says that a handler died with `MemoriaMutex`.

**What a process does.** A program is its sequence of syscalls, any member of
`Programa[p][n]`; instructions between syscalls change nothing the kernel sees.
The burst estimate after a block is any of `Estimaciones`, since it comes from
a clock. The sleep of a timer or of a device ends at any time.

**The two views of memory.** The kernel's model lets a process in when
`Ocupados + tam <= Capacidad` and takes it to swap and back. `Residencia` states
that promise on its own, and `Memoria`, with its frames and mutexes, is checked,
and proved, to implement it. Sizes start at 1 in all models, because a process without pages
behaves otherwise in the memory module: `buscarMarcosDisponibles(0)` returns a
frame, and each resumption of such a process takes one that no table holds.

`EspacioUsuario` is the other promise: each page holds what its program wrote
there last, a READ is answered with it, and the program gets that answer where
answers get through (`llega`). They do not without a cache:
`AccederEspacioUsuarioLectura` answers in the JSON field `dato` and
`LeerPaginaMemoria` decodes `contenido` (`Decodificado`), so the content it gets
is always empty (`VACIO`). With a cache the CPU asks `LeerPagina` for the whole page,
which answers in `contenido`. `lectura` notes both, what a READ was answered and
what the program got. `MemoriaVirtual` implements the promise with `llega` where
there is a cache (`CumpleEspacioUsuario`), with caches, TLBs, page tables,
frames and swap; there swap is a copy per process, since `Memoria` is where the
file and its blocks are. `SiempreLlega`, the same promise with `llega` always,
is what it should be, and is violated.

## 3. Runs

| run | what it asks | bounds |
|---|---|---|
| `despacho` | types, one CPU per process, `Sem_Cpus`, no panic, PCs; the end of an IO finds its process, instances are not shared, one wait per process, somebody will serve the queue | 3 processes, each started by the one before, 2 CPUs (one connects later), 1 device with 2 instances that connect at any time, SJF |
| `ciclo` | one queue per process, `Sem_ProcesosEnReady`, READY is FIFO, memory and kernel agree on where each process is, memory is asked for one thing at a time about a process, refinement of `CicloDeVida`, every process ends, every CPU is given back | 2 processes of 1 or 2 frames in 2, PMCP, 1 CPU, IO and dumps, one process blocks twice, timers, fairness |
| `desconexion` | types, critical sections, nobody alive in the queue of a device without instances | 2 processes, 1 CPU, 2 instances of a device of which one connects later and the other shuts down at any time, IO, dumps that fail, timers, also in the gap of the dump |
| `marcos` | types, frames, contents, swap, refinement of `Residencia` | 3 processes of 1, 1, 2 pages in 3 frames, 2 suspensions |
| `srt` | types, no notification missed, nobody shorter waits, programs in order, no panic, every process ends | four regimes: 1 CPU and 2 processes, 2 CPUs and 2, both with dumps, 1 CPU and 3 processes, and 1 CPU with dumps, INIT_PROC and slow goroutines; estimates 1 and 2 |
| `espacio` | types, faithful indexes, page tables, own frames, the mutex of memory, refinement of `EspacioUsuario` | eight configurations of cache, TLB, levels and CPUs; 2 processes of up to 5 pages; shapes of page tables up to 4 levels, 4 entries, 20 pages |
| `desconexion_olvida` | **violated**: `NadieOlvidado` | 2 processes, 1 CPU, 1 instance, which shuts down |
| `dump_falla` | **violated**: `CPUSeLibera` | 1 process, 1 CPU, a dump fails |
| `dos_en_swap` | **violated**: `InicioCorrecto` | 2 processes of 2 pages |
| `srt_panico` | **violated**: `HayAQuienDesalojar` | 1 CPU, 2 processes, one of them dumps |
| `cache_ajena` | **violated**: `CumpleEspacioUsuario` | 1 CPU with a cache of 2 pages, 2 processes |
| `lectura_vacia` | **violated**: `SiempreLlega` | 1 CPU without cache |

**Why the bounds are enough.** The conflicts of the kernel are between two
processes and a shared thing: two for one CPU, one device, one frame. Two
processes (or two and a parent that starts them) and one of each resource reach
every one of them; a third process makes queues of two, which order, priority
and hand-over need (`despacho`). Three syscalls per program are a block, a second
block and EXIT: in `ciclo` one process does an IO and then a dump, which the timer
of the IO, still asleep, may take for its own block. A second block that queues for
a device needs more processes than `ciclo` has; it is reached by the theorems only
(`UnaSolaCola`, `ResidenciaCorrecta`, `UnoEnMemoria`), like a dump after an IO
with disconnections. `despacho` has one estimate: SJF then sorts nothing, and
since `sort.Slice` keeps no order among equals, every order of READY is tried. In
`ciclo` READY is entered from NEW, from SUSP_READY, from a device and from a dump,
and PMCP sorts the two processes in SUSP_READY. In memory, three processes in
three frames give fragmented and permuted frames, and two suspensions of a
two-page process give a block of swap that is used again. Bounds are the
constants `MaxPids`, `MaxSyscalls`, `MaxSusp` and `SeApagan`; nothing else is cut
(`MaxPaginas` is what a page table has room for, and any number in the proofs). In `marcos`
the two processes of one page can be exchanged, so TLC uses that symmetry, and in
`despacho` the two instances, which connect late and are chosen in the order they
did; `despacho` has no temporal property, and that of `marcos` is a refinement
without fairness. In `espacio` caches and TLBs
of two places for processes of two and three pages give hits, misses,
replacements of clean and modified victims, and pages of the same number of both
processes. In `srt` two processes are one in EXECUTE and one that arrives, the
third makes READY have an order.

**Deadlock** is checked where it is a question: in `despacho` and `ciclo` the
only state without a step would be everyone waiting on everyone
(`Terminado` stutters). `desconexion` may block, on a device that is not there
or a dump that failed; in `Memoria` a run ends when every process has ended.

**Fairness** (`Equidad`): weak, for each goroutine of the kernel, for the timers
and the sleep of a device (they end), for CPUs (they connect, and run their
program to its next syscall). The Go scheduler gives that. Weak fairness is
enough for the mutexes because a bounded program takes each of them finitely
often. IO modules need not connect. `SpecJusta` of `PlanificadorSRT` is the same:
weak for the planner, the senders, the handlers as a whole, the devices and
admissions of each process and each CPU; time (`PasarTiempo`) need not pass.

**Timing assumptions**, each a constant:

* `FetchLento`: after a dispatch a CPU fetches its first instruction from
  memory, which sleeps `memory_delay` and costs an HTTP round trip, while the
  planner has a few instructions left before `ready_a_execute`. TRUE lets the
  planner finish first. FALSE (`desconexion_olvida`) lets the syscall overtake:
  the handler of IO then drops the syscall and the CPU is never freed, EXIT
  removes a process that the planner is still moving. `TipoCorrecto`,
  `SeccionesRespetadas`, `CpusContadas`, `InstanciaParaUno` and the theorems of
  `PruebasDesconexion` hold either way; those of `PruebasKernel` need it TRUE, as
  do the passing runs of the same properties.
* `PausaDump`: `manejarDUMP_MEMORY` starts the timer and locks the process a
  few instructions later; a stale timer must expire exactly there to go first.
  TRUE in `desconexion`.
* `Suspension`: FALSE leaves timers out, as the short-term tests do with a
  `suspension_time` of two minutes.
* `FallaDump`: whether the memory module may refuse a dump.
* `pausas`, of a regime of SRT: any goroutine may be slow. FALSE says that a
  round of the planner, the handler of a syscall and the end of the round of a
  CPU are done before the next instruction, device or arrival; only
  instructions (a second each), devices, arrivals and the answer to an
  interruption take time. `AvisoPendiente` holds in both. `NadieMasCorto`,
  `ProgramaEnOrden`, `SinPanicoSRT` and `TerminacionSRT` are about a kernel that
  is `Puntual`: no slow goroutine, no program with INIT_PROC (see below), and
  a CPU before the first process (without one, the planner takes a process
  that nobody has for one to evict, and reads an empty EXECUTE).

**Configurations of `espacio`.** They are those of `pruebas/` in small, and the
ones under which the code keeps its promise: a cache with one process at a time
on one CPU, which may be suspended between its instructions; a TLB without cache
while processes alternate and nobody is suspended; neither, with everything;
both, with one process. The shipped `planif_med_largo_*` is not one of them: it
has a cache and a TLB on a CPU that several processes share (`cache_ajena`).
With a TLB and suspensions a hit reads the frame the process had before. These
conditions are `SinMezcla` of a configuration (`PropiedadesMV`); TLC evaluates it
and of their tables `TablaBuena` on the eight of `espacio` (`TodasRegulares`),
and finds `SinMezcla` false, and `TablaBuena` true, of that of `cache_ajena`
(`AjenasConMezcla`).

**Findings.**

* A refused dump (`dump_falla`): `manejarDUMP_MEMORY` holds
  `ProcesosMutex[pid]` and calls `FinalizarProceso`, which locks it again.
* `InicioSWAP` (`dos_en_swap`): `SuspenderProceso` overwrites the entry with
  the copy it made before. Every process comes back from block 0 of the file.
  Alone in swap, with its block at 0, nobody notices.
* The pid of a disconnection (`desconexion_olvida`): the module sends the pid it
  sleeps for when the signal comes, -1 if none, and `DesconexionIO` believes it.
  A process that is given to the instance before the handler has
  `ListaIOsMutex` stays BLOCKED for ever, on no device and in no queue.
* SRT in an empty EXECUTE (`srt_panico`): `verificarDesalojo` takes "no CPU is
  free" for "somebody executes". During a dump, or between `BloquearProceso` and
  `LiberarCPU`, EXECUTE is empty, and the kernel ends.
* A READ without cache (`lectura_vacia`): the memory module answers in `dato`
  (`instruccionesController.go:114-117`), the CPU decodes `contenido`
  (`cpu/utils/utils.go:1024`, `globals/cpu/globals.go:195`), finds none, and
  reports an empty content as what it read. No error anywhere; a WRITE works.
* The cache of somebody else (`cache_ajena`): the index of the cache is keyed by
  page alone; a miss whose page another process has there overwrites its entry,
  and what it had written is lost.

Seen while modelling, and not runs:

* The opposite of the stale pid of a disconnection: a process whose IO ended
  meanwhile, and that is READY by then, is ended as well. Its token of
  `Sem_ProcesosEnReady` stays, and the short-term planner later takes
  `Cola_ready[0]` of an empty queue, which ends the kernel. With that,
  `SinPanico`, `SemReadyExacto`, `UnaSolaCola`, `ResidenciaCorrecta`,
  `FinEncuentraBloqueado` and `AlguienServira` hold without disconnections only.
* `DesconexionIO` deletes the entry of a device without instances and puts it
  back in the next line, queue included. The processes in it have ended; an
  instance that connects later is given them, and the end of such an IO finds no
  process and leaves the instance taken for ever.
* The session counter (`CantidadSesionesIO`) counts requests to devices, not
  blocks. A block that waits for an instance, or a dump, is taken for the
  previous one and may be suspended too early; once the device takes the
  process the counter moves, and the timer of that very block does nothing.
* `pasar_desde_new` does not give SUSP_READY the priority its comment asks for,
  because the check is commented out (`largo.go:249-257`); the model follows it.
* `construirNivel` is right for two levels, or when the pages fit one table of
  the second level (`FormaBuena`). With the three levels of four entries of
  `mem_cache_*` and `mem_tlb_*`, pages from 16 on have no frame where the CPU
  looks: without cache the memory handler panics with `MemoriaMutex` taken, with
  cache the CPU reads frame 0.
* Nothing refuses a process with more pages than entries to the power of levels
  (16 with the two levels of four of `planif_*`). `crearTabla` gives the first
  table more entries than `entries_per_page`, and the CPU, which takes each index
  modulo that number, reads page 16 in the frame of page 0. No configuration of
  the runs has such a process (`TablaBuena`); with one TLC finds
  `CumpleEspacioUsuario` violated at once.
* SRT with two or more CPUs: two notifications merged into one dispatch one
  process, and a CPU stays idle beside READY until the next. The connection of
  a CPU does not notify at all.
* SRT looks for the process in EXECUTE with the smallest time left, and takes
  out that one.
* INIT_PROC under SRT: `manejarInit_Proc` sends its process back to the CPU
  whatever became of it. If an interruption comes while the CPU executes the
  INIT_PROC, the planner takes the process to READY and another to the CPU, and
  the first is in the queue of the CPU all the same: it runs outside EXECUTE, and
  once more when it is dispatched. No goroutine need be slow for that.
* SRT with slow goroutines (`pausas`): an interruption that reaches a CPU after
  its check blocks the planner until another instruction ends there; an answer
  with an error is a nil dereference if the process is in EXECUTE by then; an IO
  of a process that is being preempted is dropped and its CPU never freed;
  an EXIT that arrives after the preemption removes a process that is still in
  READY.

**Mutants.** Every property of a passing run has a definition of the code in a
broken form (next to the original, `\* Mutant of ...`): a lock not taken, a
signal forgotten, a test the wrong way round, a read that goes one too far. TLC
finds the property violated with it.

`ContenidoIntacto` and `SwapExacto` carry the condition `~solapes`: every block
of swap so far was the first of the file and was given while nobody else was in
swap. That is what the code needs to be right, given the fault of `InicioSWAP`;
`MarcosExactos` and the refinement hold without it.

## 4. Proofs

| theorem | module | says |
|---|---|---|
| `TipoCorrecto` | `PruebasTipos` | `Spec => []TypeOK` |
| `SeccionesRespetadas` | `PruebasTipos` | `Spec => []SeccionesCriticas` |
| `CpusContadas` | `PruebasProcesos` | `Spec => []SemCpusExacto` |
| `InstanciaParaUno` | `PruebasProcesos` | `Spec => []InstanciaExclusiva` |
| `InvKernelSiempre` | `PruebasKernel` | `Regimen => (Spec => []InvKernel)`, on which the next eleven rest |
| `UnaCpu` | `PruebasKernel` | `Spec => []UnaCpuPorProceso` |
| `PCExacto` | `PruebasKernel` | `Spec => []PCCorrecto` |
| `SoloUnaCola` | `PruebasKernel` | `Spec => []UnaSolaCola` |
| `FinEncuentraSuProceso` | `PruebasKernel` | `Spec => []FinEncuentraBloqueado` |
| `EsperaEnUnLugar` | `PruebasKernel` | `Spec => []EsperaUnica` |
| `ReadyContada` | `PruebasKernel` | `Spec => []SemReadyExacto` |
| `NadieMuere` | `PruebasKernel` | `Spec => []SinPanico` |
| `QuienEsperaSeraServido` | `PruebasKernel` | `Spec => []AlguienServira` |
| `CadaUnoEnSuLugar` | `PruebasKernel` | `Spec => []ResidenciaCorrecta` |
| `UnoPorVezEnMemoria` | `PruebasKernel` | `Spec => []UnoEnMemoria` |
| `CicloCumplido` | `PruebasKernel` | `Spec => CumpleCicloDeVida`, the refinement of `CicloDeVida` |
| `NadieSeAdelanta` | `PruebasKernel` | `Spec => OrdenDeLlegada`, under FIFO |
| `TiposConDesconexion` | `PruebasDesconexion` | `SpecDesconexion => []TiposDesconexion` |
| `SeccionesConDesconexion` | `PruebasDesconexion` | `SpecDesconexion => []SeccionesCriticas` |
| `NadieEnColaMuertaSiempre` | `PruebasDesconexion` | `SpecDesconexion => []NadieEnColaMuerta` |
| `AvisoSiempre` | `PruebasSRT` | `Spec => []AvisoPendiente` |
| `TiposSRTSiempre` | `PruebasSRT` | `Spec => []TiposSRT` |
| `SinPanicoSRTSiempre` | `PruebasSRT` | `Spec => []SinPanicoSRT` |
| `ProgramaEnOrdenSiempre` | `PruebasSRT` | `Spec => []ProgramaEnOrden` |
| `NadieMasCortoSiempre` | `PruebasSRT` | `Spec => []NadieMasCorto` |
| `IndicesSiempreFieles` | `PruebasMMU` | `Spec => []IndicesFieles` |
| `TablaSiempreAlcanza` | `PruebasMMU` | `Spec => []TablaAlcanza` |
| `TiposSiempreMV` | `PruebasMMU` | `Regulares => (Spec => []TiposMV)` |
| `AccesoSiemprePropio` | `PruebasMMU` | `Regulares => (Spec => []AccesoPropio)` |
| `SiempreMemoriaLibre` | `PruebasMMU` | `Regulares => (Spec => []MemoriaLibre)` |
| `CumpleEspacio` | `PruebasMMU` | `Regulares => (Spec => CumpleEspacioUsuario)`, the refinement of `EspacioUsuario`: pages hold what was written last and a READ is answered with it; the program gets the answer with a cache only |
| `MarcosSiempre` | `PruebasMemoria` | `ConPaginas => (Spec => []MarcosExactos)` |
| `ResidenciaCumplida` | `PruebasMemoria` | `ConPaginas => (Spec => CumpleResidencia)`, the refinement of `Residencia` |
| `TiposDeMemoria` | `PruebasMemoria` | `ConPaginas => (Spec => []TiposMemoria)` |
| `ContenidoSiempre` | `PruebasMemoria` | `ConPaginas => (Spec => []ContenidoIntacto)` |
| `SwapSiempre` | `PruebasMemoria` | `ConPaginas => (Spec => []SwapExacto)` |

`TipoCorrecto`, `SeccionesRespetadas`, `CpusContadas`, `InstanciaParaUno` and
the three of `PruebasDesconexion` are from `ConstantesOK`, `NadaOK` and, for
disconnections, `SeApaganOK`, and nothing else: any number of processes,
syscalls, CPUs (finite) and devices, any programs, FIFO or SJF, and every value
of the timing constants; so they hold in the degraded regime too. Those of
`PruebasKernel` have one hypothesis more, `Regimen == FetchLento /\ ~PausaDump`,
the timing assumptions of section 3 under which the code keeps these promises:
without `FetchLento` a syscall overtakes its own dispatch and its process is in
READY while a handler blocks it; with `PausaDump` a stale timer takes the
process of a dump to SUSP_BLOCKED, and its CPU is lost. The runs `despacho` and
`ciclo`, which check the same properties, are in that regime.
The five of `PruebasSRT` are from `RegimenesOK`: any programs, estimates and
regimes. `AvisoPendiente` and `TiposSRT` include slow goroutines;
`SinPanicoSRT`, `ProgramaEnOrden` and `NadieMasCorto` say themselves, with
`Puntual` (section 3) and one CPU for the last, which regimes they are about, and no hypothesis is added to them. `IndicesSiempreFieles` and
`TablaSiempreAlcanza` are from `MemoriaVirtualOK`, and the second from `FormasOK`
(shapes are of natural numbers): any configuration, CPUs, pages, processes and
frames. The other four of `PruebasMMU` add `Regulares` (below) and `NADAAparte`. `MarcosSiempre` is from
`MemoriaOK` and `ConPaginas`, that every process has at least one page: any
number of processes, pages, frames and suspensions. Without `ConPaginas` it is
false, since a resumption of a process without pages marks a frame that no
table holds.

**Why types need an invariant.** `TypeOK` is not inductive: a handler indexes
the table by the pid in its record, so the record must name a process while it
is at work; a mutex is set to `NADA` by whoever leaves the section, so it must
be the owner; a process read under its mutex is updated later, so it must still
be there. `InvTipos` is `TypeOK` with those three families (`Nombran`,
`Duenos`, `SigueVivo`). The argument for the last two: each section is entered
where the mutex is `NADA` (`DuenosAlTomar`), so nobody else was inside, and left
by its owner (`DuenosAlSoltar`), so nobody else is affected (`DuenosDistintos`:
the goroutines are pairwise different and none is `NADA`); and the only step
that deletes an entry needs its mutex free. `SeccionesCriticas` is that part on
its own: what the timers, device ends and syscalls read stays true for as long
as they rely on it.

**Disconnections.** `InvDesconexion` adds to `InvTipos` the record of each
disconnection and the pid in its hand. Every step of the kernel is one of `Next`,
so `PasoInvTipos` is reused as it is; a step of a disconnection leaves the
goroutines and the process mutexes alone, and the one that deletes an entry
waits for its mutex (`GoroutinesIgual`). So of all that a disconnection breaks,
the critical sections are not part.

**The queue of a device that is gone.** `DesconexionIO` notes the queue when it
takes `ListaIOsMutex` (`ConElla`) and takes the instance out last. In between,
`ColaContada`: if it is the last instance, whoever is in the queue has ended or is
still to be ended by the handler (`PorTerminar`). That rests on `ListaEsDuena`,
that a request, an end of IO and a disconnection are never inside at once, so
nobody queues behind what was noted and the number of instances stays what it was;
and on `Creados`, that a pid that ended is not used again. Once the instance is
out, the queue has nobody alive (`ColaMuerta`), and manejarIO lets nobody in.

**Counting CPUs.** `SemCpusExacto` relates a counter, a counter of signals under
way and a token in the planner's hand to the number of flags. Each step changes
one flag (`TomarUna`, `SoltarUna`: the cardinality changes by one, for which
the flag must have been the other way). That is `InvCpus`: a free CPU is
connected; the one the planner has chosen, one that executes and one whose
handler is at work are connected and not free, and each is in one of the three
situations only.

**Devices.** `InvIO`: an instance at work, or whose end is being handled, is the
one the kernel has noted, never both at once, and is in the list of its name. So
the instance `BuscarInstanciaIOLibre` returns is idle.

**Processes.** The properties of section 3 about a process (one queue, one CPU,
one wait, the PC, what the end of an IO finds) depend on each other: the handler
of an IO finds its process in EXECUTE because no other CPU has it, which is so
because READY had it once, which is so because whoever moved it there found it
in one queue, which is so because nobody else had it in hand. `InvProcesos` says
all of it at once and is inductive under `Regimen`. `EnOrden(p)` is the invariant
of one process: the queues it is in, also while its state changes (`Ubicado`);
one CPU or handler (`UnaMano`); a state that agrees with whoever has it (`ManoCpu`,
`ManoPlanificador`); the PC in every place that holds one (`PCAlDia`); and its
place in the devices (`UnSoloLugar`, `EsperaJusta`). A step concerns one process,
two for `INIT_PROC`: what it does not concern stays in order
(`AjenoSigue`, `SoloToca`, `NoToca`), so each action has a lemma about the one
it moves. Where two goroutines could have the same process the mutexes decide:
a handler of IO holds `ProcesosMutex[pid]` from the request to the block, so
that neither the end of the IO nor a timer is inside; a timer looks at the state
under the mutex and keeps it; the end of a dump finds its process in BLOCKED
because no timer is inside and no device has it.

**READY.** `SemReadyExacto` needs that each of the four ways into READY really
moves the process (`MoverDeExacto`: the length grows by one, which it does not
if it was there already) and that the planner takes out the one it chose. From
it, `ready[0]` exists, and with `InvProcesos` every lookup succeeds: `SinPanico`.
`OrdenDeLlegada` needs that the process chosen at the beginning of a round is
still the first when `ready_a_execute` removes it by pid (`CabezaElegida`): then
a step leaves READY as it is, appends to it or takes its first (`Avanza`), and
none of those lets anybody overtake (`NadieSeCuela`, about sequences).

**Who will serve a queue.** `InvServicio` adds to `AlguienServira` that an instance
the kernel has noted as taken is at work (`OcupadaTrabaja`). A process joins a
queue only when every instance of the device is taken, so one of them works; and
the only step that frees an instance is the end of an IO that found the queue
empty.

**Where memory has a process.** `InvResidencia` is stronger than
`ResidenciaCorrecta` during the three calls that move a process: there memory is
already where the move ends (`LugarEsperado`). Each call moves one process, and
nobody else has it in hand, by `InvProcesos`.

**What memory is asked.** `Memoria` and `MemoriaVirtual` take for granted that the
calls about one process do not overlap, and that its program neither reads nor
writes meanwhile (their guards `Inactiva` and `~Ejecuta(p)`): the memory module has
no lock for a whole call. `UnoEnMemoria` is that promise on the kernel's side, and
`UnoPorVezEnMemoria` proves it: whoever uses the memory of a process
(`UsanMemoria`: its program, a handler, a timer, the long-term planner) is alone
and finds it in frames, in swap or outside as its request supposes. CPUs and
handlers are one by `UnaMano`, timers by the mutex of the process (`UnTimer`), and
the four kinds ask for different states (`UnSoloUso`); then no move is under way
(`UsadoEnSuLugar`) and `InvResidencia` says where the process is. A process may be
chosen by the planner while it is in SUSP_READY or NEW, so `UsanMemoria` counts it
from then on, and not only during the call.

**The life cycle.** `CicloCumplido` is proved step by step under `InvVida`:
`InvKernel`, `InvResidencia` and `EjecutaEnCpu`, that a process of EXECUTE is on a
CPU or with a handler. Each action of the kernel is one of `CicloDeVida`
(`CambiarAExecute` is `Despachar`, the two blocks are `Bloquear`, the answer of
memory to an admission is `Entrar`, its end of a process `Salir`, ...) or leaves
what the life cycle sees as it was (`VisibleIgual`). A dispatch finds a
processor: the processes in EXECUTE map to CPUs, one to one and none to the CPU
just chosen (`HayProcesador`). An admission fits: the frames memory has taken,
by which `Cabe` decides, are the sum of those of the processes the life cycle has
in memory (`MarcosSonOcupados`), also in the middle of a suspension.

**Notifications of SRT.** `AvisoPendiente` speaks of a planner that waits, and
is not inductive: what it may forget at the end of a round depends on what it
saw at the start. `InvAviso` follows the round. `TrabajoAnunciado`: with one CPU,
whenever there is work (a process in READY and the CPU free) somebody has
announced it, a token in the channel or a goroutine about to send one, unless
the planner is about to look or has looked and is about to dispatch.
`RondaConTrabajo`: a round that goes on past its look has a process in READY,
and one that is choosing has a free CPU. Work appears with an arrival or with a
freed CPU, and both come with a sender; a sender leaves the channel full; only
`Despertar` empties it, and then the planner looks at everything. A round that
puts a process back into READY had one there already, so it adds no work; a
dispatch takes the only CPU, which is why the property stops at one.

**Preemption.** `InvFormas` gives the types: `TiposSRT`, the record of each step
of a round (`FormaRonda`), of each loop of a CPU and of each handler. `InvPuntual`
is what is true of a `Puntual` kernel, and inductive with `InvFormas`. It says, of
each process, the place it is in and what the map has of it there (`ColasEnOrden`,
`EnSuLugar`): READY and a device hold one at the instruction after its last;
one in EXECUTE has a CPU. Of each CPU, that what it has is the process the kernel
has it with, at that instruction, and that no handler works for it (`CPUsEnOrden`,
`UnoPorCPU`); a CPU that is taken and has no process has a handler at work, or
is the one being interrupted. Of each handler, that its process is where its step
expects it (`ManejadoresEnOrden`). The exchange of an interruption is
`RespuestaEnOrden`: its process may leave EXECUTE by a syscall the CPU had sent
before it looked, and then the handler of that syscall is at work or the CPU is
free; if it is still in EXECUTE, the PC in the answer is that of its next
instruction. `RondaEnOrden` follows the rest of a round: what it read of READY
and EXECUTE before it released a mutex is there when it is used. Each action
changes the place of one or two processes and one CPU, so the lemmas about the
others are stated once (`OtroProceso`, `OtraCPU`, `OtroManejador`). TLC checked
`InvPuntual` on instances like those of `srt`, in the regimes that are `Puntual`, before it was proved.

**The shortest.** A planner that waits has the shortest in EXECUTE, unless
somebody is about to tell it otherwise; to show it, `InvCorto` follows the choice
through the round: as long as nothing is announced, whom the planner has sorted to
the front of READY is still the shortest there, and not longer than the one it
is taking out. READY grows only with an announcement; time only shortens what
is left in EXECUTE (`restante` starts at the estimate); and the process that
comes back to READY was the longer one. If it blocked instead while its CPU was
asked, EXECUTE is empty, with one CPU (`UnoEnExecute`), and the CPU it leaves is
announced.

**Indexes of TLB and cache.** `InvMMU` is `IndicesFieles` with types, and with
`EnCurso`: the victim of a replacement is chosen in one step and used in another,
after a request to memory, and by then it must still be an entry, the cache full
and the new page in no entry. One lemma per operation (hit, load, replacement,
overwriting, append, sweep of the clock) says that it keeps map and list in
agreement, for lists of any elements. A victim exists because the list is full:
under LRU there is a least timestamp, under CLOCK and CLOCK-M a least distance
from the hand.

**Page tables.** `TablaAlcanza` is about two loops inside a recursion
(`construirNivel`), two nested loops that take a page apart
(`ExtraerEntradasYDesplazamiento`) and the walk (`obtenerMarcoDesdeTabla`), for
every number of levels, entries and pages. All are recursive functions, and the
library's theorems about those cannot be used (they have an operator as a
parameter). So each function is first shown to exist and to obey its rule
(`ExpSiguiente`, `BucleHecho`, `NivelRegla`, `RecorrerRegla`): the set of the
lengths for which there is a function with that rule holds 0 and the successor
of each member (`Induccion`, from the least number that is missing). With the
rules:

* a table of level 1 takes the next pages, as many as entries or as are left
  (`NivelUno`); one of level 2, with one subtable for every `e` pages left, takes
  all that are left (`NivelDos`); and so one of a higher level places everything in
  its first subtable (`NivelAlto`, `NivelesAltos`), which is why a page from
  `e * e` on has nothing at its indexes there;
* on the way down, as long as the page has zeros above level 2, the walk is at
  the first subtable of each level (`BajadaSiempre`), and the last two entries are
  quotient and remainder by `e` (`HalladaHonda`, `HalladaEnUno`).

`Hallada` says what is found for every shape and page below `e` to the power of
levels, and `HalladaSiBuena` that it is right for the good ones.

**User space.** `Regulares` is `TablaBuena` and `SinMezcla` of every configuration: any number
of CPUs, processes, pages, frames and places, of either algorithm, with

* no more pages than the table has indexes for and, with a cache, a good shape:
  two conditions on numbers, from which the tables lead to the page asked for or,
  without a cache, to no frame (`Hallada`);
* a cache on one CPU with one process at a time, a TLB without suspensions, and
  both with one process.

Each condition is there for a reason: the run `cache_ajena` shows processes that
alternate over a cache, and two CPUs with caches would not see each other's
writes; a translation outlives the suspension of its process; with both, the
TLB still has the frame of a victim whose process ended, and that frame may be
another's; and a cache whose table leads nowhere reads frame 0.

The invariant is `InvTodo`, in three layers that are each a theorem. `InvTiposMV`:
types, and who each thing is about; a translation or a copy is of a page its process
has (`TraduccionBien`, `CopiaBien`). `InvAcceso`: whose each frame is. A
translation of a process that lives leads to the frame of its page, and so does what an
instruction has looked up, because the process it executes is neither suspended nor
ended meanwhile (`NadieLoEjecuta`); the copy of the entry that an access without cache puts back
is still the entry. A victim has the frame of its page if its process lives, and
none if it ended, in which case its content is refused, and nobody misses it. `InvReparto`
and `InvCopias`: no frame is of two pages and a free one holds zero; a copy that was not
modified is what memory keeps of the page; the page an instruction brings is not in
the cache, and what was read of it is what is kept.

`MemoriaLibre` rests on the first two layers: `InvLibre` says that an instruction
that goes to memory without a frame is one of a table of a bad shape. The CPU
looks for a page its process has, while the process lives (`Ejecutado`), so there
is a table; with a good shape the table leads to the frame of the page
(`TablasAlcanzan`), and a translation of the TLB always has one (`SinMarcoEsMala`).

The refinement is then one lemma per action (`...Todo`): it is a read, a write or an
end of `EspacioUsuario`, or changes nothing a program sees. What a program sees of
a page is the copy in the cache, and otherwise what is kept in its frame or in
swap (`VistoEs`); so a hit reads the page; a miss reads what is kept, because there is no copy; a
victim that was modified leaves the cache for its frame (`Vuelca`), one that was not
leaves nothing behind; a suspension moves what is kept to swap and a resumption
to other frames; the first write of a process finds zero, since frames are given free.
An instruction of a cache that inserts and modifies in one step is a write
(`SoloCambia`), also when it replaces.

**Frames.** `MarcosExactos` says which process has which frames, and a call in
the middle has more: frames it found and has not marked, a copy of the entry it
will write back. `IInv` adds both (`LlamadaBuena`): the frames found are as many
as pages, different and still free, which holds because only one call of the
long-term planner is under way (`UnaDelLargo`) and only those mark frames; and
the copy has the table of the entry, because nobody else changes the table of a
process that is being suspended. `Reparto` is the property frame by frame, and
a step does one of three things to it: nothing (`Quieto`), a process that comes
with free frames (`Entra`) or one that leaves its own, at zero (`Sale`). The
other processes, and their calls, are the same for every action (`LosDemas`). A
table is a bijection from the pages to its frames, hence their number.

**Where processes are.** A step of `Memoria` changes the place of the process of
its call only (`LugarAjeno`), and `PasoResidencia` has one case per way to move.
What `Residencia` asks of an arrival, that there is a frame for each page, comes
from the frames themselves: whoever is in them has a table, tables are
one to one and share nothing, so pages map one to one to frames (`Caben`). That
a process is admitted once, and never after it ended, is `InvCreados`.

**Types of memory.** `InvDatos` says what a call carries at each step
(`LlamadaDatos`): the pages of a suspension, numbered from 0, at most as many as
the process has; a block inside the file; a copy of the entry while it suspends,
and nothing afterwards. Whether a block is inside is a matter of counting
(`Cuenta`): first fit makes the file longer by one process at most, once per
suspension, so it is never longer than `MaxPaginas` for each suspension that has
its block already.

**Contents of frames and swap.** `ContenidoIntacto` and `SwapExacto` speak of the
time before two blocks can overlap (`~solapes`, section 3). Until then every block
is the first of the file (`Inicios`) and one process at most has it
(`UnoEnArchivo`), so the file is that of this process, or as new
(`ArchivoVacio`). `InvContenidos` follows a page of a process through all the
places it can be in: its frames (`EnSusMarcos`), the list a suspension carries
(`EnViaje`), the file, and the list read from it while its block is not deleted
or deleted in part (`EnSuBloque`). A step moves pages of the process of its call
(`PasoEnSusMarcos`, `PasoEnViaje`, `PasoEnSuBloque`); the frames of the others
are not among those it touches, by `IInv`, and the file is not theirs, by
`UnoEnArchivo`. `SinEscribir`, that a process writes only once it was admitted, is
what makes the pages of a new one zero. Once a block is not the first of the
file there is nothing of the kind to prove: the finding about `InicioSWAP`.

Each module has one lemma per group of actions (one step per action in it), one
that puts them together, and the theorem, with the temporal step by PTL. The
lemmas about queues and sorting (`LemasKernel`) say that taking out, adding,
moving and reordering give queues again.

**What stays with TLC.** Liveness and anything with ENABLED (`Terminacion`,
`CPUSeLibera`, `TerminacionSRT`). Every safety property of a passing run is a
theorem.
That the frames counted by the kernel and by its life cycle are the same is
proved because both are the same sum over equal functions; nothing is proved
about sums themselves, which are folds.

## 5. Not modelled, and why

* What follows a `DesconexionIO` that returned early ("abandonada": its process
  had ended): it has shifted the instances of the slice that the table still
  names, so that one is there twice, or one that is gone. And an IO module that
  comes back under its name is another member of `Instancias`.
* SRT together with the long- and medium-term planners: suspensions take
  minutes in its tests, and memory has room.
* Inside a page: offsets, the 64 bytes `EscribirCache` compares with whatever
  the page size, and bytes widened by `string(byte)`. A page is one cell that is
  read and written whole.
* A CPU that is restarted under its name. `agregarAListaCPUs` appends whoever
  calls (`handshakeHandler.go:67-78`): the list then has it twice and `Sem_Cpus` one
  more, which `SemCpusExacto` would not survive (it is its mutant). Each CPU of the
  model registers once.
* Disconnections under SJF: `ordenarReadyPorRafaga` dereferences the entry of
  every pid of READY (`corto.go:197`), so one that `DesconexionIO` ended there
  ends the kernel. The model leaves the order of READY open and the runs with
  disconnections are FIFO.
* Errors of `Decode`, of requests between modules, and the instructions NOOP and
  GOTO beyond what they are to the planner (an instruction, a place in a program).
* Memory dump: it changes nothing in memory; the kernel's side is modelled.
* Concurrent access to Go maps (`MapaProcesos`, `Procesos`, `MetricasMap`
  without a lock of the whole map): the runtime may stop the program. Each
  access to one pid is taken as atomic.
* Errors of the file system and of HTTP (a module that is down), logs, metrics,
  configuration.

## 6. Plan

Done, in this order: kernel core (FIFO, SJF), its life cycle, its proofs; the
memory module and its abstract promise; SRT with the loop of a CPU; TLB, cache
and page tables with the user space they implement; proofs about both;
disconnections of IO modules, with their proof; the proof about frames; the
proofs of the kernel's safety properties and of its refinement; the types, the
refinement and the contents of the memory module; preemption in SRT; user space,
from frames to its refinement; page tables of every shape; what memory takes for
granted of the kernel (`UnoEnMemoria`).

1. Composition of `Kernel` and `Memoria` in place of the abstract memory. Each side
   of it is proved: `Kernel` makes one request at a time about a process, and
   `Memoria`, of such requests, implements `Residencia`.

The properties of the new modules join the runs above where the instance is the
same, so that the set stays small.
