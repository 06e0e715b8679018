------------------------- MODULE MCPlanificadorSRT -------------------------
(* Small instances of SRT for TLC. *)
EXTENDS PropiedadesSRT

CONSTANTS c1, c2, p1, p2, p3

Dos(p, q) == (p1 :> p @@ p2 :> q)

\* planif_corto_srt with one CPU and with two: IO, or a dump, between bursts.
Nominal ==
  [cpus |-> <<c1>>, pausas |-> FALSE,
   programa |-> Dos(<<"CPU", "IO", "CPU", "EXIT">>, <<"IO", "CPU", "DUMP", "EXIT">>)]
NominalDos ==
  [cpus |-> <<c1, c2>>, pausas |-> FALSE,
   programa |-> Dos(<<"CPU", "DUMP", "EXIT">>, <<"IO", "CPU", "EXIT">>)]

\* Three processes, so that READY has an order.
NominalTres ==
  [cpus |-> <<c1>>, pausas |-> FALSE,
   programa |-> Dos(<<"CPU", "EXIT">>, <<"IO", "EXIT">>) @@ p3 :> <<"IO", "EXIT">>]

\* estabilidad_general, with a single CPU, has dumps and new processes too.
ConPausas ==
  [cpus |-> <<c1>>, pausas |-> TRUE,
   programa |-> Dos(<<"INIT", "EXIT">>, <<"DUMP", "IO", "EXIT">>)]

Todos == {Nominal, NominalDos, NominalTres, ConPausas}
SoloConPausas == {ConPausas}
===========================================================================
