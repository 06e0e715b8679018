----------------------- MODULE PropiedadesDesconexion -----------------------
(***************************************************************************)
(* What the kernel keeps, and what it loses, when IO modules shut down.    *)
(***************************************************************************)
EXTENDS Desconexiones, InvariantesKernel

RegistroDesconexion ==
  [pc : {"en_linea", "lista", "fin_memoria", "fin_cola", "fin_log", "fin_mapa",
         "espera", "abandonada", "apaga", "apagada"},
   pid : PidONinguno, estado : Estados, espera : Seq(Pid)]

\* Every variable keeps its type, the record of a disconnection as well.
TiposDesconexion == TypeOK /\ desconexion \in [Instancias -> RegistroDesconexion]

\* A device without instances has no live process in its queue: whoever came
\* in time to be queued was ended with the last instance, and whoever came
\* later found no device.
NadieEnColaMuerta ==
  \A d \in NombresIO : instanciasIO[d] = <<>> =>
    \A k \in DOMAIN esperaIO[d] : mapa[esperaIO[d][k]] = NADA

\* p waits for a device: not for a dump, not for its handler.
EsperaDispositivo(p) ==
  /\ mapa[p] # NADA /\ mapa[p].estado \in {"BLOCKED", "SUSP_BLOCKED"}
  /\ ~PorDump(p)

\* "Cuando se desconecta un IO, se pasa a exit el proceso que estaba en el IO"
\* (kernel/utils/handlers/ioHandler.go:139): nobody is left waiting with no
\* place that will end its wait.
NadieOlvidado == \A p \in Pid : EsperaDispositivo(p) => Pendientes(p) > 0
===========================================================================
