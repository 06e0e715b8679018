----------------------------- MODULE MCKernel -----------------------------
(* Small instances of the kernel for TLC. *)
EXTENDS InvariantesKernel

CONSTANTS c1, c2, i1, i2, disco

SoloI1 == (i1 :> disco)
AmbosDisco == (i1 :> disco @@ i2 :> disco)

UnaCPU == <<c1>>
NadieIO == (disco :> <<>>)
UnaIO == (disco :> <<i1>>)

\* Each process starts the next one and uses a device: three want it at once.
ProgramaCadena ==
  [p \in Pid |->
    IF p < MaxPids - 1 THEN <<{"INIT"}, {"IO"}, {"EXIT"}>>
    ELSE <<{"IO"}, {"EXIT"}, {"EXIT"}>>]

\* Each process waits, for a device or for a dump, and one waits twice: both
\* may be suspended.
ProgramaDosEsperas ==
  [p \in Pid |->
    IF p = 0 THEN <<{"INIT"}, {"IO", "DUMP"}, {"EXIT"}>>
    ELSE <<{"IO"}, {"DUMP"}, {"EXIT"}>>]

\* The two instances of the device can be exchanged: both connect late, and the
\* choice of one (Libres) goes by the order in which they did.
Simetria == Permutations({i1, i2})

\* One dump.
ProgramaSoloDump == [p \in Pid |-> <<{"DUMP"}, {"EXIT"}, {"EXIT"}>>]
===========================================================================
