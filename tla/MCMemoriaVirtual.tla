------------------------- MODULE MCMemoriaVirtual -------------------------
(* Small instances of the memory of the programs for TLC, one for each kind
   of configuration in pruebas/. *)
EXTENDS PropiedadesMV, TLC

CONSTANTS c1, c2, p1, p2

Base ==
  [cache |-> 0, algCache |-> "CLOCK", tlb |-> 0, algTlb |-> "FIFO", niveles |-> 2,
   porTabla |-> 2, cpus |-> {c1}, paginas |-> (p1 :> 3 @@ p2 :> 2),
   alternan |-> FALSE, medio |-> FALSE]

\* mem_cache_clock, mem_cache_clockm: cache and no TLB, one CPU, a process at
\* a time, suspended between two of its instructions.
ConCache == [Base EXCEPT !.cache = 2, !.medio = TRUE]
ConCacheM == [ConCache EXCEPT !.algCache = "CLOCK-M"]

\* mem_tlb_fifo, mem_tlb_lru: TLB and no cache; here the processes alternate.
ConTLB == [Base EXCEPT !.tlb = 2, !.alternan = TRUE,
                       !.paginas = (p1 :> 2 @@ p2 :> 2)]
ConTLBLRU == [ConTLB EXCEPT !.algTlb = "LRU"]

\* Two CPUs, each with its TLB.
DosTLB == [Base EXCEPT !.tlb = 1, !.cpus = {c1, c2}, !.alternan = TRUE,
                       !.paginas = (p1 :> 2 @@ p2 :> 1)]

\* mem_swap, and the fourth CPU of estabilidad_general: neither, one level.
SinNada == [Base EXCEPT !.niveles = 1, !.porTabla = 4, !.cpus = {c1, c2},
                        !.alternan = TRUE, !.medio = TRUE,
                        !.paginas = (p1 :> 2 @@ p2 :> 1)]

\* Cache and TLB, one process.
ConAmbas == [Base EXCEPT !.cache = 2, !.tlb = 2, !.algTlb = "LRU",
                         !.paginas = (p1 :> 3 @@ p2 :> 0)]

\* Three levels, and a page beyond those of a table of the second.
TresNiveles == [Base EXCEPT !.niveles = 3, !.paginas = (p1 :> 5 @@ p2 :> 0)]

Todas == {ConCache, ConCacheM, ConTLB, ConTLBLRU, DosTLB, SinNada, ConAmbas,
           TresNiveles}

ASSUME TodasRegulares == \A g \in Todas : TablaBuena(g) /\ SinMezcla(g)

\* planif_med_largo_fifo: one CPU with a cache, and two processes.
DosConCache == {[ConCache EXCEPT !.alternan = TRUE, !.medio = FALSE]}

ASSUME AjenasConMezcla == \A g \in DosConCache : TablaBuena(g) /\ ~SinMezcla(g)

\* mem_swap: without a cache, one process.
SinCache == {[SinNada EXCEPT !.cpus = {c1}, !.alternan = FALSE, !.medio = FALSE]}

\* Every shape of up to four levels and four entries, with up to 20 pages.
Pequenias == (1 .. 4) \X (1 .. 4) \X (0 .. 20)
===========================================================================
