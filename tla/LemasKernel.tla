---------------------------- MODULE LemasKernel ----------------------------
(***************************************************************************)
(* Lemmas the proofs rest on: what the queue operators return, the types   *)
(* of the resting values, and when a mutex stays with its owner.           *)
(***************************************************************************)
EXTENDS InvariantesKernel, SequenceTheorems, FiniteSetTheorems, WellFoundedInduction,
  TLAPS

USE DEF RegistroCorto, RegistroTimer, RegistroSyscall, RegistroFin

\* Quitar returns a sequence of what it was given.
LEMMA QuitarDeSecuencia ==
  ASSUME NEW T, NEW s \in Seq(T), NEW p
  PROVE  Quitar(s, p) \in Seq(T)
<1>1. CASE ~Esta(s, p)
  BY <1>1 DEF Quitar
<1>2. CASE Esta(s, p)
  <2> DEFINE i == Posicion(s, p)
  <2>1. i \in 1 .. Len(s)
    BY <1>2 DEF Esta, Posicion
  <2>2. SubSeq(s, 1, i - 1) \in Seq(T) /\ SubSeq(s, i + 1, Len(s)) \in Seq(T)
    BY <2>1
  <2>3. Quitar(s, p) = SubSeq(s, 1, i - 1) \o SubSeq(s, i + 1, Len(s))
    BY <1>2 DEF Quitar, RemoveAt
  <2> QED
    BY <2>2, <2>3
<1> QED
  BY <1>1, <1>2

\* eliminarProcesoDeCola returns a queue.
LEMMA QuitarEsCola ==
  ASSUME NEW s \in Seq(Pid), NEW p
  PROVE  Quitar(s, p) \in Seq(Pid)
BY QuitarDeSecuencia

\* agregarProcesoACola returns a queue.
LEMMA AgregarEsCola ==
  ASSUME NEW s \in Seq(Pid), NEW p \in Pid
  PROVE  Agregar(s, p) \in Seq(Pid)
BY DEF Agregar

\* The state-change functions leave six queues.
LEMMA MoverDeEsColas ==
  ASSUME cola \in [Estados -> Seq(Pid)],
         NEW e \in Estados, NEW f \in Estados, e # f, NEW p \in Pid
  PROVE  MoverDe(e, f, p) \in [Estados -> Seq(Pid)]
<1>1. Quitar(cola[e], p) \in Seq(Pid)
  BY QuitarEsCola
<1>2. Agregar(cola[f], p) \in Seq(Pid) /\ cola[f] \in Seq(Pid)
  BY AgregarEsCola
<1> QED
  BY <1>1, <1>2 DEF MoverDe

\* A sorted queue is a queue; one that is not empty has a first process.
LEMMA OrdenEsCola ==
  ASSUME NEW s \in Seq(Pid),
         NEW t \in [DOMAIN s -> {s[i] : i \in DOMAIN s}]
  PROVE  t \in Seq(Pid) /\ (s # <<>> => t[1] \in Pid)
<1>1. Len(s) \in Nat /\ DOMAIN s = 1 .. Len(s)
  OBVIOUS
<1>2. {s[i] : i \in DOMAIN s} \subseteq Pid
  BY <1>1
<1>3. t \in [1 .. Len(s) -> Pid]
  BY <1>1, <1>2
<1>4. t \in Seq(Pid)
  BY <1>1, <1>3, SeqDef
<1>5. s # <<>> => 1 \in 1 .. Len(s)
  BY <1>1
<1> QED
  BY <1>3, <1>4, <1>5

\* What the sort of READY leaves is a queue, and not an empty one.
LEMMA OrdenesReadySonColas ==
  ASSUME cola \in [Estados -> Seq(Pid)], NEW s \in OrdenesReady,
         cola["READY"] # <<>>
  PROVE  s \in Seq(Pid) /\ s[1] \in Pid
<1> DEFINE r == cola["READY"]
<1>1. r \in Seq(Pid) /\ (r # <<>> => r[1] \in Pid)
  BY DEF Estados
<1>2. s = r \/ s \in [DOMAIN r -> {r[i] : i \in DOMAIN r}]
  BY DEF OrdenesReady, Ordenadas
<1> QED
  BY <1>1, <1>2, OrdenEsCola

\* Nor do the sorts of NEW and SUSP_READY.
LEMMA PorTamanioSonColas ==
  ASSUME cola \in [Estados -> Seq(Pid)], NEW e \in Estados,
         NEW s \in PorTamanio(e), cola[e] # <<>>
  PROVE  s \in Seq(Pid) /\ s[1] \in Pid
<1> DEFINE r == cola[e]
<1>1. r \in Seq(Pid) /\ (r # <<>> => r[1] \in Pid)
  OBVIOUS
<1>2. s = r \/ s \in [DOMAIN r -> {r[i] : i \in DOMAIN r}]
  BY DEF PorTamanio, Ordenadas
<1> QED
  BY <1>1, <1>2, OrdenEsCola

\* agregar_a_new leaves a queue.
LEMMA NewConSonColas ==
  ASSUME cola \in [Estados -> Seq(Pid)], NEW p \in Pid, NEW s \in NewCon(p)
  PROVE  s \in Seq(Pid)
<1> DEFINE r == Append(cola["NEW"], p)
<1>1. r \in Seq(Pid)
  BY DEF Estados
<1>2. s = r \/ s \in [DOMAIN r -> {r[i] : i \in DOMAIN r}]
  BY DEF NewCon, Ordenadas
<1> QED
  BY <1>1, <1>2, OrdenEsCola

\* actualizar_rafagas leaves every estimate one of the values it may take, and
\* nobody disappears.
LEMMA BloqueadoEsTabla ==
  ASSUME mapa \in [Pid -> Procesos \cup {NADA}], NEW p \in Pid,
         mapa[p] # NADA, NEW m \in Bloqueado(p)
  PROVE  /\ m \in [Pid -> Procesos \cup {NADA}]
         /\ \A q \in Pid : mapa[q] # NADA => m[q] # NADA
<1>1. mapa[p] \in Procesos
  OBVIOUS
<1>2. CASE m = ConEstado(p, "BLOCKED")
  BY <1>1, <1>2, NadaOK DEF ConEstado, Procesos, Estados
<1>3. CASE ~(m = ConEstado(p, "BLOCKED"))
  <2>1. PICK r \in Estimaciones :
          m = [mapa EXCEPT ![p].estado = "BLOCKED", ![p].est = r]
    BY <1>3 DEF Bloqueado
  <2> QED
    BY <1>1, <2>1, NadaOK DEF Procesos, Estados
<1> QED
  BY <1>2, <1>3

\* A set of positions that is not empty has a first one.
LEMMA MinimoExiste ==
  ASSUME NEW S, S \subseteq Nat, S # {}
  PROVE  (CHOOSE k \in S : \A j \in S : k <= j) \in S
<1> DEFINE R == {ss \in Nat \X Nat : ss[1] < ss[2]}
<1>1. IsWellFoundedOn(R, Nat)
  <2>1. OpToRel(<, Nat) = R
    BY Zenon DEF OpToRel
  <2> QED
    BY <2>1, NatLessThanWellFounded
<1>2. \A j, k \in Nat : j < k => <<j, k>> \in R
  OBVIOUS
<1> HIDE DEF R
<1>3. PICK k \in S : \A j \in S : ~ (<<j, k>> \in R)
  BY <1>1, WFMin
<1>4. \A j \in S : k <= j
  <2> TAKE j \in S
  <2>1. j \in Nat /\ k \in Nat
    OBVIOUS
  <2>2. ~ (j < k)
    BY <1>2, <1>3, <2>1, Zenon
  <2> QED
    BY <2>1, <2>2
<1> QED
  BY <1>4
---------------------------------------------------------------------------
(* Resting values. *)

\* PC 0 is a PC, whatever the bound.
LEMMA CeroEsPC == 0 \in 0 .. MaxSyscalls - 1 /\ 0 \in 0 .. MaxSyscalls
BY ConstantesOK

\* What the goroutines and the CPUs go back to has the type of their records.
LEMMA Reposos ==
  /\ CortoEsperando \in RegistroCorto
  /\ SinSyscall \in [pc : PCsSyscall, op : Syscalls, pid : PidONinguno,
                     n : 0 .. MaxSyscalls, io : NombresIO \cup {NADA},
                     nuevo : PidONinguno]
  /\ SinFin \in RegistroFin
  /\ SinTimer \in RegistroTimer
  /\ Ociosa \in [pid : PidONinguno, PC : 0 .. MaxSyscalls - 1]
BY CeroEsPC DEF CortoEsperando, SinSyscall, SinFin, SinTimer, Ociosa, PCsCorto,
                PCsSyscall, Syscalls, PidONinguno

\* A process whose state changes is still a process, and is still there.
LEMMA ConEstadoEsTabla ==
  ASSUME mapa \in [Pid -> Procesos \cup {NADA}], NEW p \in Pid,
         mapa[p] # NADA, NEW e \in Estados
  PROVE  /\ ConEstado(p, e) \in [Pid -> Procesos \cup {NADA}]
         /\ \A q \in Pid : mapa[q] # NADA => ConEstado(p, e)[q] # NADA
<1>1. mapa[p] \in Procesos
  OBVIOUS
<1>2. [mapa[p] EXCEPT !.estado = e] \in Procesos
  BY <1>1 DEF Procesos
<1>3. ConEstado(p, e) = [mapa EXCEPT ![p] = [mapa[p] EXCEPT !.estado = e]]
  BY DEF ConEstado
<1> QED
  BY <1>2, <1>3, NadaOK

\* BloquearProceso starts the timer of the syscall and touches no other.
LEMMA TimerEmpieza ==
  ASSUME TiposTabla, TiposPlanificadores, NEW p \in Pid, NEW n \in Numero
  PROVE  /\ ConTimer(p, n) \in
              [Pid -> [Numero -> RegistroTimer]]
         /\ \A q \in Pid, k \in Numero :
              \/ ConTimer(p, n)[q][k] = temporizador[q][k]
              \/ ConTimer(p, n)[q][k].pc = "duerme"
<1> DEFINE nuevo == [pc |-> "duerme", sesion |-> sesiones[p]]
<1>1. nuevo \in RegistroTimer
  BY DEF TiposTabla
<1>2. temporizador \in [Pid -> [Numero -> RegistroTimer]]
  BY DEF TiposPlanificadores
<1>3. \/ ConTimer(p, n) = temporizador
      \/ ConTimer(p, n) = [temporizador EXCEPT ![p][n] = nuevo]
  BY DEF ConTimer
<1>4. nuevo.pc = "duerme"
  OBVIOUS
<1> HIDE DEF nuevo
<1>5. CASE ConTimer(p, n) = temporizador
  BY <1>2, <1>5
<1>6. CASE ConTimer(p, n) = [temporizador EXCEPT ![p][n] = nuevo]
  <2> DEFINE fila == [temporizador[p] EXCEPT ![n] = nuevo]
  <2>1. ConTimer(p, n) = [temporizador EXCEPT ![p] = fila]
    BY <1>6
  <2>2. fila \in [Numero -> RegistroTimer]
    BY <1>1, <1>2
  <2>3. \A k \in Numero : fila[k] = temporizador[p][k] \/ fila[k] = nuevo
    BY <1>2
  <2> HIDE DEF fila
  <2> QED
    BY <1>2, <1>4, <2>1, <2>2, <2>3
<1> QED
  BY <1>3, <1>5, <1>6

---------------------------------------------------------------------------
(* Owners of the mutexes of the processes. *)

\* A free mutex has no owner.
LEMMA NadaNoEsDueno ==
  /\ NADA # GCorto
  /\ \A c \in CPUs : NADA # GSyscall(c)
  /\ \A p \in Pid, n \in Numero : NADA # GTimer(p, n)
  /\ \A i \in Instancias : NADA # GFinIO(i)
BY NadaOK DEF Goroutines

\* Goroutines of different kinds, or of different CPUs, timers or devices,
\* are different owners.
LEMMA DuenosDistintos ==
  /\ \A c \in CPUs : GCorto # GSyscall(c)
  /\ \A p \in Pid, n \in Numero : GCorto # GTimer(p, n)
  /\ \A i \in Instancias : GCorto # GFinIO(i)
  /\ \A c \in CPUs, p \in Pid, n \in Numero : GSyscall(c) # GTimer(p, n)
  /\ \A c \in CPUs, i \in Instancias : GSyscall(c) # GFinIO(i)
  /\ \A i \in Instancias, p \in Pid, n \in Numero : GFinIO(i) # GTimer(p, n)
  /\ \A c, d \in CPUs : GSyscall(c) = GSyscall(d) => c = d
  /\ \A i, j \in Instancias : GFinIO(i) = GFinIO(j) => i = j
  /\ \A p, q \in Pid, n, k \in Numero : GTimer(p, n) = GTimer(q, k) => p = q /\ n = k
BY DEF GCorto, GSyscall, GTimer, GFinIO

\* A goroutine that does not move keeps its mutexes if the one that changes
\* hands, that of p, was not its own.
LEMMA CortoSigueDueno ==
  ASSUME mutexProc \in [Pid -> Goroutines \cup {NADA}],
         CortoNombra, CortoEsDueno, corto' = corto, NEW p \in Pid, NEW g,
         mutexProc' \in {mutexProc, [mutexProc EXCEPT ![p] = g]},
         mutexProc[p] # GCorto
  PROVE  CortoEsDueno'
BY DEF CortoNombra, CortoEsDueno

LEMMA ManejadorSigueDueno ==
  ASSUME mutexProc \in [Pid -> Goroutines \cup {NADA}],
         ManejadorNombra, ManejadorEsDueno, manejador' = manejador,
         NEW p \in Pid, NEW g,
         mutexProc' \in {mutexProc, [mutexProc EXCEPT ![p] = g]},
         \A c \in CPUs : mutexProc[p] # GSyscall(c)
  PROVE  ManejadorEsDueno'
BY DEF ManejadorNombra, ManejadorEsDueno, GSyscall

LEMMA TimerSigueDueno ==
  ASSUME mutexProc \in [Pid -> Goroutines \cup {NADA}],
         TimerEsDueno, temporizador' = temporizador, NEW p \in Pid, NEW g,
         mutexProc' \in {mutexProc, [mutexProc EXCEPT ![p] = g]},
         \A n \in Numero : mutexProc[p] # GTimer(p, n)
  PROVE  TimerEsDueno'
BY DEF TimerEsDueno, GTimer

LEMMA FinSigueDueno ==
  ASSUME mutexProc \in [Pid -> Goroutines \cup {NADA}],
         FinNombra, FinEsDueno, finIO' = finIO, NEW p \in Pid, NEW g,
         mutexProc' \in {mutexProc, [mutexProc EXCEPT ![p] = g]},
         \A i \in Instancias : mutexProc[p] # GFinIO(i)
  PROVE  FinEsDueno'
BY DEF FinNombra, FinEsDueno, GFinIO
\* When the mutex of p, free, is taken or stays free, whoever does not move
\* remains the owner of what it owned.
LEMMA DuenosAlTomar ==
  ASSUME InvTipos, NEW p \in Pid, NEW g, mutexProc[p] = NADA,
         mutexProc' \in {mutexProc, [mutexProc EXCEPT ![p] = g]}
  PROVE  /\ corto' = corto => CortoEsDueno'
         /\ manejador' = manejador => ManejadorEsDueno'
         /\ temporizador' = temporizador => TimerEsDueno'
         /\ finIO' = finIO => FinEsDueno'
<1>1. mutexProc \in [Pid -> Goroutines \cup {NADA}]
  BY DEF InvTipos, TypeOK, TiposSincronizacion
<1>2. CortoNombra /\ CortoEsDueno /\ ManejadorNombra /\ ManejadorEsDueno
      /\ TimerEsDueno /\ FinNombra /\ FinEsDueno
  BY DEF InvTipos, Duenos, Nombran
<1>3. ASSUME corto' = corto PROVE CortoEsDueno'
  BY <1>1, <1>2, <1>3, CortoSigueDueno, NadaNoEsDueno
<1>4. ASSUME manejador' = manejador PROVE ManejadorEsDueno'
  BY <1>1, <1>2, <1>4, ManejadorSigueDueno, NadaNoEsDueno
<1>5. ASSUME temporizador' = temporizador PROVE TimerEsDueno'
  BY <1>1, <1>2, <1>5, TimerSigueDueno, NadaNoEsDueno
<1>6. ASSUME finIO' = finIO PROVE FinEsDueno'
  BY <1>1, <1>2, <1>6, FinSigueDueno, NadaNoEsDueno
<1> QED
  BY <1>3, <1>4, <1>5, <1>6

\* When its owner gives the mutex of p back, neither do the others lose theirs.
LEMMA DuenosAlSoltar ==
  ASSUME InvTipos, NEW p \in Pid,
         mutexProc' \in {mutexProc, [mutexProc EXCEPT ![p] = NADA]}
  PROVE  /\ corto' = corto /\ mutexProc[p] # GCorto => CortoEsDueno'
         /\ manejador' = manejador /\ (\A c \in CPUs : mutexProc[p] # GSyscall(c))
              => ManejadorEsDueno'
         /\ temporizador' = temporizador /\ (\A n \in Numero : mutexProc[p] # GTimer(p, n))
              => TimerEsDueno'
         /\ finIO' = finIO /\ (\A i \in Instancias : mutexProc[p] # GFinIO(i))
              => FinEsDueno'
<1>1. mutexProc \in [Pid -> Goroutines \cup {NADA}]
  BY DEF InvTipos, TypeOK, TiposSincronizacion
<1>2. CortoNombra /\ CortoEsDueno /\ ManejadorNombra /\ ManejadorEsDueno
      /\ TimerEsDueno /\ FinNombra /\ FinEsDueno
  BY DEF InvTipos, Duenos, Nombran
<1>3. ASSUME corto' = corto, mutexProc[p] # GCorto PROVE CortoEsDueno'
  BY <1>1, <1>2, <1>3, CortoSigueDueno
<1>4. ASSUME manejador' = manejador,
              \A c \in CPUs : mutexProc[p] # GSyscall(c)
       PROVE  ManejadorEsDueno'
  BY <1>1, <1>2, <1>4, ManejadorSigueDueno
<1>5. ASSUME temporizador' = temporizador,
              \A n \in Numero : mutexProc[p] # GTimer(p, n)
       PROVE  TimerEsDueno'
  BY <1>1, <1>2, <1>5, TimerSigueDueno
<1>6. ASSUME finIO' = finIO,
              \A i \in Instancias : mutexProc[p] # GFinIO(i)
       PROVE  FinEsDueno'
  BY <1>1, <1>2, <1>6, FinSigueDueno
<1> QED
  BY <1>3, <1>4, <1>5, <1>6

\* When no process disappears, the ones in the hands of a goroutine that does
\* not move are still there.
LEMMA SiguenVivos ==
  ASSUME InvTipos, \A q \in Pid : mapa[q] # NADA => mapa'[q] # NADA,
         UNCHANGED <<manejador, temporizador, finIO>>
  PROVE  SigueVivo'
BY DEF InvTipos, SigueVivo, Nombran, ManejadorNombra, FinNombra

---------------------------------------------------------------------------
(* What the queue operators do, exactly: who is where, and how often. *)

\* Quitar takes out the place where the process is: those behind it move up.
LEMMA QuitarElementos ==
  ASSUME NEW s \in Seq(Pid), NEW p, Esta(s, p)
  PROVE  /\ Posicion(s, p) \in 1 .. Len(s) /\ s[Posicion(s, p)] = p
         /\ Quitar(s, p) \in Seq(Pid) /\ Len(Quitar(s, p)) = Len(s) - 1
         /\ \A k \in 1 .. Len(s) - 1 :
              Quitar(s, p)[k] = IF k < Posicion(s, p) THEN s[k] ELSE s[k + 1]
<1> DEFINE i == Posicion(s, p)
           n == Len(s)
           t == Quitar(s, p)
<1>1. i \in 1 .. n /\ s[i] = p /\ n \in Nat /\ DOMAIN s = 1 .. n
  BY DEF Esta, Posicion
<1>2. t = SubSeq(s, 1, i - 1) \o SubSeq(s, i + 1, n)
  BY DEF Quitar, RemoveAt
<1> HIDE DEF i, t
<1>3. /\ t \in Seq(Pid) /\ Len(t) = n - 1
      /\ \A k \in 1 .. n - 1 : t[k] = IF k < i THEN s[k] ELSE s[k + 1]
  <2> DEFINE a == SubSeq(s, 1, i - 1)
             b == SubSeq(s, i + 1, n)
  <2>a. a \in Seq(Pid) /\ Len(a) = i - 1 /\ \A k \in 1 .. i - 1 : a[k] = s[k]
    BY <1>1
  <2>b. b \in Seq(Pid) /\ Len(b) = n - i /\ \A k \in 1 .. n - i : b[k] = s[i + k]
    <3>1. /\ b \in Seq(Pid) /\ Len(b) = IF i + 1 <= n THEN n - (i + 1) + 1 ELSE 0
          /\ \A k \in 1 .. n - (i + 1) + 1 : b[k] = s[i + 1 + k - 1]
      <4>1. \A k \in i + 1 .. n : s[k] \in Pid
        BY <1>1
      <4>2. i + 1 \in Int /\ n \in Int
        BY <1>1
      <4> QED
        BY <4>1, <4>2, SubSeqProperties
    <3>2. \A k \in 1 .. n - i : i + 1 + k - 1 = i + k
      BY <1>1
    <3>3. n - (i + 1) + 1 = n - i /\ (~(i + 1 <= n) => n - i = 0)
      <4>1. \A k \in Nat : \A j \in 1 .. k :
              k - (j + 1) + 1 = k - j /\ (~(j + 1 <= k) => k - j = 0)
        OBVIOUS
      <4>2. n \in Nat /\ i \in 1 .. n
        BY <1>1
      <4> HIDE DEF n
      <4> QED
        BY <4>1, <4>2
    <3> HIDE DEF b
    <3> QED
      BY <3>1, <3>2, <3>3
  <2>1. /\ a \in Seq(Pid) /\ Len(a) = i - 1 /\ \A k \in 1 .. i - 1 : a[k] = s[k]
        /\ b \in Seq(Pid) /\ Len(b) = n - i /\ \A k \in 1 .. n - i : b[k] = s[i + k]
    BY <2>a, <2>b
  <2>t. t = a \o b
    BY <1>2
  <2> HIDE DEF a, b, n
  <2>2. t \in Seq(Pid) /\ Len(t) = n - 1
    <3>1. t \in Seq(Pid) /\ Len(t) = Len(a) + Len(b)
      BY <2>t, <2>1, ConcatProperties
    <3> QED
      BY <1>1, <2>1, <3>1
  <2>3. \A k \in 1 .. i - 1 : t[k] = a[k]
    BY <1>1, <2>t, <2>1
  <2>4. \A k \in i .. n - 1 : t[k] = b[k - (i - 1)]
    BY <1>1, <2>t, <2>1
  <2>5. \A k \in i .. n - 1 : t[k] = s[k + 1]
    <3> TAKE k \in i .. n - 1
    <3>1. k - (i - 1) \in 1 .. n - i /\ i + (k - (i - 1)) = k + 1
      BY <1>1
    <3> QED
      BY <2>1, <2>4, <3>1
  <2>6. \A k \in 1 .. n - 1 : k \in 1 .. i - 1 \/ (~(k < i) /\ k \in i .. n - 1)
    BY <1>1
  <2> QED
    BY <1>1, <2>1, <2>2, <2>3, <2>5, <2>6
<1> QED
  BY <1>1, <1>3 DEF i, t

\* Quitar takes out one process, once, and no other.
LEMMA QuitarExacto ==
  ASSUME NEW s \in Seq(Pid), SinRepetidos(s), NEW p
  PROVE  /\ SinRepetidos(Quitar(s, p))
         /\ \A q : Esta(Quitar(s, p), q) <=> Esta(s, q) /\ q # p
         /\ Len(Quitar(s, p)) = IF Esta(s, p) THEN Len(s) - 1 ELSE Len(s)
<1>1. CASE ~Esta(s, p)
  BY <1>1 DEF Quitar, Esta
<1>2. CASE Esta(s, p)
  <2> DEFINE i == Posicion(s, p)
             n == Len(s)
             t == Quitar(s, p)
  <2>1. i \in 1 .. n /\ s[i] = p /\ n \in Nat /\ DOMAIN s = 1 .. n
    BY <1>2, QuitarElementos
  <2>3. /\ Len(t) = n - 1 /\ DOMAIN t = 1 .. n - 1
        /\ \A k \in 1 .. n - 1 : t[k] = IF k < i THEN s[k] ELSE s[k + 1]
    BY <1>2, QuitarElementos
  <2> HIDE DEF i, t
  <2>4. SinRepetidos(t)
    BY <2>1, <2>3 DEF SinRepetidos
  <2>5. ASSUME NEW q PROVE Esta(t, q) <=> Esta(s, q) /\ q # p
    <3>1. ASSUME NEW k \in 1 .. n - 1, t[k] = q PROVE Esta(s, q) /\ q # p
      <4>1. CASE k < i
        BY <2>1, <2>3, <3>1, <4>1 DEF SinRepetidos, Esta
      <4>2. CASE ~(k < i)
        <5>1. k + 1 \in 1 .. n /\ s[k + 1] = q /\ k + 1 # i
          BY <2>1, <2>3, <3>1, <4>2
        <5> QED
          BY <2>1, <5>1 DEF SinRepetidos, Esta
      <4> QED
        BY <4>1, <4>2
    <3>2. ASSUME NEW k \in 1 .. n, s[k] = q, q # p PROVE Esta(t, q)
      <4>1. CASE k < i
        <5>1. k \in 1 .. n - 1 /\ t[k] = q
          BY <2>1, <2>3, <3>2, <4>1
        <5> QED
          BY <2>3, <5>1 DEF Esta
      <4>2. CASE ~(k < i)
        <5>1. k - 1 \in 1 .. n - 1 /\ t[k - 1] = s[(k - 1) + 1] /\ (k - 1) + 1 = k
          BY <2>1, <2>3, <3>2, <4>2
        <5> QED
          BY <2>3, <3>2, <5>1 DEF Esta
      <4> QED
        BY <4>1, <4>2
    <3> QED
      BY <2>1, <2>3, <3>1, <3>2 DEF Esta
  <2> QED
    BY <1>2, <2>3, <2>4, <2>5 DEF t
<1> QED
  BY <1>1, <1>2

\* An append adds one process, at the end, and no other.
LEMMA AppendExacto ==
  ASSUME NEW s \in Seq(Pid), SinRepetidos(s), NEW p \in Pid, ~Esta(s, p)
  PROVE  /\ SinRepetidos(Append(s, p)) /\ Append(s, p) \in Seq(Pid)
         /\ \A q : Esta(Append(s, p), q) <=> Esta(s, q) \/ q = p
         /\ Len(Append(s, p)) = Len(s) + 1
<1> DEFINE n == Len(s)
           t == Append(s, p)
<1>1. /\ n \in Nat /\ DOMAIN s = 1 .. n /\ DOMAIN t = 1 .. n + 1 /\ t[n + 1] = p
      /\ t \in Seq(Pid) /\ Len(t) = n + 1 /\ \A k \in 1 .. n : t[k] = s[k]
  OBVIOUS
<1> HIDE DEF t
<1>2. \A k \in 1 .. n + 1 : k = n + 1 \/ k \in 1 .. n
  BY <1>1
<1>3. n + 1 \in 1 .. n + 1 /\ \A k \in 1 .. n : k \in 1 .. n + 1
  BY <1>1
<1>4. \A k \in 1 .. n : s[k] # p
  BY <1>1 DEF Esta
<1>5. SinRepetidos(t)
  BY <1>1, <1>2, <1>4 DEF SinRepetidos
<1>6. \A q : Esta(t, q) <=> Esta(s, q) \/ q = p
  BY <1>1, <1>2, <1>3 DEF Esta
<1> QED
  BY <1>1, <1>5, <1>6 DEF t

\* A sort keeps everyone, once.
LEMMA OrdenExacto ==
  ASSUME NEW s \in Seq(Pid), SinRepetidos(s),
         NEW t \in [DOMAIN s -> {s[i] : i \in DOMAIN s}],
         \A i \in DOMAIN s : Esta(t, s[i])
  PROVE  /\ SinRepetidos(t) /\ t \in Seq(Pid) /\ Len(t) = Len(s)
         /\ \A q : Esta(t, q) <=> Esta(s, q)
<1> DEFINE n == Len(s)
           S == {s[i] : i \in DOMAIN s}
<1>1. n \in Nat /\ DOMAIN s = 1 .. n /\ t \in [1 .. n -> S]
  OBVIOUS
<1>2. t \in Seq(Pid) /\ Len(t) = n
  <2>1. S \subseteq Pid /\ t \in [1 .. n -> Pid]
    BY <1>1
  <2>2. t \in Seq(Pid)
    BY <1>1, <2>1, SeqDef
  <2> QED
    BY <1>1, <2>1, <2>2
<1>3. t \in Surjection(1 .. n, S)
  <2>1. \A y \in S : \E k \in 1 .. n : t[k] = y
    BY <1>1 DEF Esta
  <2> QED
    BY <1>1, <2>1 DEF Surjection
<1>4. s \in Bijection(1 .. n, S)
  <2>1. s \in [1 .. n -> S] /\ \A y \in S : \E k \in 1 .. n : s[k] = y
    BY <1>1
  <2>2. \A j, k \in 1 .. n : s[j] = s[k] => j = k
    BY <1>1 DEF SinRepetidos
  <2> QED
    BY <2>1, <2>2 DEF Bijection, Injection, Surjection, IsInjective
<1>5. IsFiniteSet(1 .. n) /\ Cardinality(1 .. n) = n
  <2> HIDE DEF n
  <2> QED
    BY <1>1, FS_Interval
<1>6. Cardinality(S) = n
  BY <1>4, <1>5, FS_Bijection DEF ExistsBijection
<1>7. t \in Injection(1 .. n, S)
  BY <1>3, <1>5, <1>6, FS_SurjSameCardinalityImpliesInj
<1>8. SinRepetidos(t)
  BY <1>1, <1>7 DEF Injection, IsInjective, SinRepetidos
<1>9. \A q : Esta(t, q) <=> Esta(s, q)
  BY <1>1 DEF Esta
<1> QED
  BY <1>2, <1>8, <1>9

\* The head leaves, and nobody else.
LEMMA TailExacto ==
  ASSUME NEW s \in Seq(Pid), SinRepetidos(s), s # <<>>
  PROVE  /\ SinRepetidos(Tail(s)) /\ Head(s) \in Pid /\ Esta(s, Head(s))
         /\ \A q : Esta(Tail(s), q) <=> Esta(s, q) /\ q # Head(s)
<1> DEFINE n == Len(s)
           t == Tail(s)
<1>1. /\ n \in Nat /\ n > 0 /\ DOMAIN s = 1 .. n /\ Head(s) = s[1]
      /\ DOMAIN t = 1 .. n - 1 /\ \A k \in 1 .. n - 1 : t[k] = s[k + 1]
      /\ Head(s) \in Pid
  OBVIOUS
<1> HIDE DEF t
<1>2. SinRepetidos(t)
  BY <1>1 DEF SinRepetidos
<1>3. \A k \in 1 .. n - 1 : k + 1 \in 1 .. n /\ k + 1 # 1
  BY <1>1
<1>4. \A k \in 1 .. n : k = 1 \/ (k - 1 \in 1 .. n - 1 /\ t[k - 1] = s[k])
  BY <1>1
<1>5. 1 \in 1 .. n
  BY <1>1
<1>6. ASSUME NEW q PROVE Esta(t, q) <=> Esta(s, q) /\ q # Head(s)
  <2>1. ASSUME Esta(t, q) PROVE Esta(s, q) /\ q # Head(s)
    BY <1>1, <1>3, <1>5, <2>1 DEF Esta, SinRepetidos
  <2>2. ASSUME Esta(s, q), q # Head(s) PROVE Esta(t, q)
    <3>1. PICK k \in 1 .. n : s[k] = q
      BY <1>1, <2>2 DEF Esta
    <3> QED
      BY <1>1, <1>4, <2>2, <3>1 DEF Esta
  <2> QED
    BY <2>1, <2>2
<1> QED
  BY <1>1, <1>2, <1>5, <1>6 DEF t, Esta

\* The state-change functions move p and nobody else.
LEMMA MoverDeExacto ==
  ASSUME cola \in [Estados -> Seq(Pid)], ColasSinRepetidos,
         NEW e \in Estados, NEW f \in Estados, e # f, NEW p \in Pid,
         Movible(e, f, p), cola' = MoverDe(e, f, p)
  PROVE  /\ \A g \in Estados : SinRepetidos(cola'[g])
         /\ \A q \in Pid \ {p} : \A g \in Estados : Esta(cola'[g], q) <=> Esta(cola[g], q)
         /\ \A g \in Estados : Esta(cola'[g], p) <=> g = f \/ (g # e /\ Esta(cola[g], p))
         /\ \A g \in Estados : Len(cola'[g]) = IF g = e THEN Len(cola[g]) - 1
                                               ELSE IF g = f THEN Len(cola[g]) + 1
                                               ELSE Len(cola[g])
<1>1. /\ cola' = [cola EXCEPT ![e] = Quitar(cola[e], p), ![f] = Append(cola[f], p)]
      /\ Esta(cola[e], p) /\ ~Esta(cola[f], p)
  BY DEF MoverDe, Movible, Agregar
<1>2. /\ cola'[e] = Quitar(cola[e], p) /\ cola'[f] = Append(cola[f], p)
      /\ \A g \in Estados : g # e /\ g # f => cola'[g] = cola[g]
  BY <1>1
<1>3. \A g \in Estados : cola[g] \in Seq(Pid) /\ SinRepetidos(cola[g])
  BY DEF ColasSinRepetidos
<1>4. /\ SinRepetidos(cola'[e])
      /\ \A q : Esta(cola'[e], q) <=> Esta(cola[e], q) /\ q # p
      /\ Len(cola'[e]) = Len(cola[e]) - 1
  BY <1>1, <1>2, <1>3, QuitarExacto
<1>5. /\ SinRepetidos(cola'[f])
      /\ \A q : Esta(cola'[f], q) <=> Esta(cola[f], q) \/ q = p
      /\ Len(cola'[f]) = Len(cola[f]) + 1
  BY <1>1, <1>2, <1>3, AppendExacto
<1> QED
  BY <1>1, <1>2, <1>3, <1>4, <1>5

\* cambiar_estado changes the state of p, and nothing else.
LEMMA ConEstadoExacto ==
  ASSUME mapa \in [Pid -> Procesos \cup {NADA}], NEW p \in Pid, mapa[p] # NADA,
         NEW e \in Estados, mapa' = ConEstado(p, e)
  PROVE  /\ mapa'[p] # NADA /\ mapa'[p].estado = e /\ mapa'[p].PC = mapa[p].PC
         /\ mapa'[p].tam = mapa[p].tam
         /\ \A q \in Pid \ {p} : mapa'[q] = mapa[q]
<1>1. mapa[p] \in Procesos
  OBVIOUS
<1>2. mapa'[p] = [mapa[p] EXCEPT !.estado = e] /\ \A q \in Pid \ {p} : mapa'[q] = mapa[q]
  BY DEF ConEstado
<1>3. mapa'[p] \in Procesos /\ mapa'[p].estado = e /\ mapa'[p].PC = mapa[p].PC
      /\ mapa'[p].tam = mapa[p].tam
  BY <1>1, <1>2 DEF Procesos
<1> QED
  BY <1>2, <1>3, NadaOK

\* So does execute_a_blocked, but for the estimate.
LEMMA BloqueadoExacto ==
  ASSUME mapa \in [Pid -> Procesos \cup {NADA}], NEW p \in Pid, mapa[p] # NADA,
         mapa' \in Bloqueado(p)
  PROVE  /\ mapa'[p] # NADA /\ mapa'[p].estado = "BLOCKED"
         /\ mapa'[p].PC = mapa[p].PC /\ mapa'[p].tam = mapa[p].tam
         /\ \A q \in Pid \ {p} : mapa'[q] = mapa[q]
<1>1. mapa[p] \in Procesos
  OBVIOUS
<1>2. CASE mapa' = ConEstado(p, "BLOCKED")
  BY <1>2, ConEstadoExacto DEF Estados
<1>3. CASE ~(mapa' = ConEstado(p, "BLOCKED"))
  <2>1. PICK r \in Estimaciones :
          mapa' = [mapa EXCEPT ![p].estado = "BLOCKED", ![p].est = r]
    BY <1>3 DEF Bloqueado
  <2>2. /\ mapa'[p] = [mapa[p] EXCEPT !.estado = "BLOCKED", !.est = r]
        /\ \A q \in Pid \ {p} : mapa'[q] = mapa[q]
    BY <2>1
  <2>3. mapa'[p] \in Procesos /\ mapa'[p].estado = "BLOCKED" /\ mapa'[p].PC = mapa[p].PC
        /\ mapa'[p].tam = mapa[p].tam
    BY <1>1, <2>2 DEF Procesos, Estados
  <2> QED
    BY <2>2, <2>3, NadaOK
<1> QED
  BY <1>2, <1>3

\* A handler that goes on changes its pc only.
LEMMA PasarExacto ==
  ASSUME manejador \in [CPUs -> RegistroSyscall], NEW c \in CPUs, NEW s,
         manejador' = [manejador EXCEPT ![c].pc = s]
  PROVE  /\ manejador'[c].pc = s /\ manejador'[c].pid = manejador[c].pid
         /\ manejador'[c].op = manejador[c].op /\ manejador'[c].n = manejador[c].n
         /\ manejador'[c].io = manejador[c].io
         /\ manejador'[c].nuevo = manejador[c].nuevo
         /\ \A d \in CPUs \ {c} : manejador'[d] = manejador[d]
BY DEF RegistroSyscall
===========================================================================
