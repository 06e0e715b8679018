-------------------------- MODULE MCDesconexiones --------------------------
(* Small instances of the kernel with devices that shut down, for TLC. *)
EXTENDS MCKernel, PropiedadesDesconexion

\* Both processes use the device, one of them dumps.
ProgramaDosIO ==
  [p \in Pid |->
    IF p = 0 THEN <<{"INIT"}, {"IO"}, {"EXIT"}>>
    ELSE <<{"IO", "DUMP"}, {"EXIT"}, {"EXIT"}>>]
===========================================================================
