------------------------- MODULE PruebasDesconexion -------------------------
(***************************************************************************)
(* The critical sections of the processes stay exclusive when IO modules   *)
(* shut down: the handler of a disconnection ends processes whose mutexes  *)
(* it does not hold, but it deletes an entry only when its mutex is free.  *)
(* And a device that lost its last instance has nobody alive in its queue. *)
(***************************************************************************)
EXTENDS PropiedadesDesconexion, PruebasTipos

USE DEF procesosVars, mutexVars, semVars, cpuVars, ioVars, RegistroFin

PCsDescFin == {"fin_memoria", "fin_cola", "fin_log", "fin_mapa"}

\* A handler that ends a process has one in hand.
DescNombra ==
  \A i \in Instancias : desconexion[i].pc \in PCsDescFin => desconexion[i].pid \in Pid

\* The strengthening of TiposDesconexion and SeccionesCriticas.
InvDesconexion ==
  /\ InvTipos
  /\ desconexion \in [Instancias -> RegistroDesconexion]
  /\ DescNombra

\* A step of a disconnection that leaves the goroutines of the kernel alone and
\* deletes no process but one whose mutex is free keeps their invariant.
LEMMA GoroutinesIgual ==
  ASSUME InvTipos, TypeOK', UNCHANGED <<corto, largo, manejador, temporizador,
                                        finIO, mutexProc>>,
         \A q \in Pid : mapa[q] # NADA => mapa'[q] # NADA \/ mutexProc[q] = NADA
  PROVE  InvTipos'
<1>1. Nombran' /\ Duenos'
  BY DEF InvTipos, Nombran, CortoNombra, LargoNombra, ManejadorNombra, FinNombra,
         Duenos, CortoEsDueno, ManejadorEsDueno, TimerEsDueno, FinEsDueno
<1>2. SigueVivo'
  BY NadaNoEsDueno
     DEF InvTipos, SigueVivo, Duenos, ManejadorEsDueno, TimerEsDueno, FinEsDueno,
         Nombran, ManejadorNombra, FinNombra
<1> QED
  BY <1>1, <1>2 DEF InvTipos

LEMMA InicioDesconexion == ASSUME InitDesconexion PROVE InvDesconexion
<1>1. InvTipos
  BY InicioInv DEF InitDesconexion
<1>2. EnLinea \in RegistroDesconexion
  BY DEF EnLinea, RegistroDesconexion, Estados, PidONinguno
<1>3. \A i \in Instancias : desconexion[i] = EnLinea
  BY DEF InitDesconexion
<1> QED
  BY <1>1, <1>2, <1>3 DEF InitDesconexion, InvDesconexion, DescNombra, EnLinea, PCsDescFin

\* Every step of a disconnection keeps the types of the kernel's variables, and
\* those of its own record.
LEMMA PasoDesconexionInv ==
  ASSUME InvDesconexion, NEW i \in Instancias, PasoDesconexion(i)
  PROVE  InvDesconexion'
<1> DEFINE r == desconexion[i]
<1>r. /\ desconexion \in [Instancias -> RegistroDesconexion]
      /\ r \in RegistroDesconexion /\ InvTipos /\ TypeOK
  BY DEF InvDesconexion, InvTipos
<1>v. InvTipos /\ UNCHANGED vars => InvTipos'
  BY PasoInvTipos
<1>g. GDesconexion(i) \in Goroutines
  BY DEF Goroutines
<1>1. CASE RecibirSenal(i)
  <2>1. dispositivo[i] \in PidONinguno
    BY <1>r DEF TypeOK, TiposIO
  <2> DEFINE s == [r EXCEPT !.pc = "lista", !.pid = dispositivo[i]]
  <2>3. s \in RegistroDesconexion /\ s.pc = "lista"
    BY <1>r, <2>1 DEF RegistroDesconexion
  <2>4. desconexion' = [desconexion EXCEPT ![i] = s]
    BY <1>1, <1>r DEF RecibirSenal
  <2>2. desconexion' \in [Instancias -> RegistroDesconexion] /\ DescNombra'
    BY <1>r, <2>3, <2>4 DEF InvDesconexion, DescNombra, PCsDescFin
  <2> QED
    BY <1>1, <1>r, <1>v, <2>2 DEF RecibirSenal, InvDesconexion
<1>2. CASE Apagar(i)
  <2> DEFINE s == [EnLinea EXCEPT !.pc = "apagada"]
  <2>4. "BLOCKED" \in Estados /\ NINGUNO \in PidONinguno /\ <<>> \in Seq(Pid)
    BY DEF Estados, PidONinguno
  <2>5. s \in RegistroDesconexion /\ s.pc = "apagada"
    BY <2>4 DEF EnLinea, RegistroDesconexion
  <2>6. desconexion' = [desconexion EXCEPT ![i] = s]
    BY <1>2 DEF Apagar
  <2>1. desconexion' \in [Instancias -> RegistroDesconexion] /\ DescNombra'
    BY <1>r, <2>5, <2>6 DEF InvDesconexion, DescNombra, PCsDescFin
  <2>2. TypeOK'
    BY <1>2, <1>r DEF Apagar, TypeOK, TiposTabla, TiposSincronizacion,
                      TiposPlanificadores, TiposCpus, TiposIO, PidONinguno
  <2>3. InvTipos'
    BY <1>2, <1>r, <2>2, GoroutinesIgual
       DEF Apagar
  <2> QED
    BY <2>1, <2>3 DEF InvDesconexion
<1>3. CASE DescTomarLista(i)
  <2>1. esperaIO[NombreIO[i]] \in Seq(Pid)
    BY <1>r, ConstantesOK DEF TypeOK, TiposIO
  <2>2. ConElla(i) \in Seq(Pid)
    BY <2>1 DEF ConElla
  <2>3. r.pid # NINGUNO => r.pid \in Pid
    BY <1>r DEF RegistroDesconexion, PidONinguno
  <2>4. r.pid \in Pid /\ mapa[r.pid] # NADA => mapa[r.pid].estado \in Estados
    BY <1>r DEF TypeOK, TiposTabla, Procesos
  <2>8. \E s \in RegistroDesconexion :
          /\ desconexion' = [desconexion EXCEPT ![i] = s]
          /\ s.pc \in PCsDescFin => s.pid \in Pid
    <3>1. CASE r.pid = NINGUNO
      <4> DEFINE t == [[r EXCEPT !.espera = ConElla(i)] EXCEPT !.pc = "espera"]
      <4>1. t \in RegistroDesconexion /\ t.pc \notin PCsDescFin
        BY <1>r, <2>2 DEF RegistroDesconexion, PCsDescFin
      <4>2. desconexion' = [desconexion EXCEPT ![i] = t]
        BY <1>3, <3>1 DEF DescTomarLista
      <4> QED
        BY <4>1, <4>2
    <3>2. CASE r.pid # NINGUNO /\ mapa[r.pid] # NADA
      <4> DEFINE t == [[r EXCEPT !.espera = ConElla(i)]
                         EXCEPT !.pc = "fin_memoria", !.estado = mapa[r.pid].estado]
      <4>1. t \in RegistroDesconexion /\ t.pid \in Pid
        BY <1>r, <2>2, <2>3, <2>4, <3>2 DEF RegistroDesconexion
      <4>2. desconexion' = [desconexion EXCEPT ![i] = t]
        BY <1>3, <3>2 DEF DescTomarLista
      <4> QED
        BY <4>1, <4>2
    <3>3. CASE r.pid # NINGUNO /\ mapa[r.pid] = NADA
      <4> DEFINE t == [r EXCEPT !.pc = "abandonada"]
      <4>1. t \in RegistroDesconexion /\ t.pc \notin PCsDescFin
        BY <1>r DEF RegistroDesconexion, PCsDescFin
      <4>2. desconexion' = [desconexion EXCEPT ![i] = t]
        BY <1>3, <1>r, <3>3 DEF DescTomarLista
      <4> QED
        BY <4>1, <4>2
    <3> QED
      BY <3>1, <3>2, <3>3
  <2>5. desconexion' \in [Instancias -> RegistroDesconexion] /\ DescNombra'
    BY <1>r, <2>8 DEF InvDesconexion, DescNombra
  <2>6. TypeOK'
    BY <1>3, <1>r, <1>g DEF DescTomarLista, TypeOK, TiposTabla, TiposSincronizacion,
       TiposPlanificadores, TiposCpus, TiposIO
  <2>7. InvTipos'
    BY <1>3, <1>r, <2>6, GoroutinesIgual DEF DescTomarLista
  <2> QED
    BY <2>5, <2>7 DEF InvDesconexion
<1>4. CASE DescFinEnMemoria(i)
  <2>1. desconexion' \in [Instancias -> RegistroDesconexion] /\ DescNombra'
    BY <1>4, <1>r DEF DescFinEnMemoria, EnDesconexion, RegistroDesconexion,
                      InvDesconexion, DescNombra, PCsDescFin
  <2>2. TypeOK'
    BY <1>4, <1>r DEF DescFinEnMemoria, TypeOK, TiposTabla, TiposSincronizacion,
       TiposPlanificadores, TiposCpus, TiposIO, Lugares
  <2>3. InvTipos'
    BY <1>4, <1>r, <2>2, GoroutinesIgual DEF DescFinEnMemoria
  <2> QED
    BY <2>1, <2>3 DEF InvDesconexion
<1>5. CASE DescFinEnCola(i)
  <2>1. desconexion' \in [Instancias -> RegistroDesconexion] /\ DescNombra'
    BY <1>5, <1>r DEF DescFinEnCola, EnDesconexion, RegistroDesconexion,
                      InvDesconexion, DescNombra, PCsDescFin
  <2>2. r.estado \in Estados
    BY <1>r DEF RegistroDesconexion
  <2>3. cola' \in [Estados -> Seq(Pid)]
    BY <1>5, <1>r, <2>2, QuitarEsCola DEF DescFinEnCola, TypeOK, TiposTabla
  <2>4. TypeOK'
    BY <1>5, <1>r, <2>3 DEF DescFinEnCola, TypeOK, TiposTabla, TiposSincronizacion,
       TiposPlanificadores, TiposCpus, TiposIO
  <2>5. InvTipos'
    BY <1>5, <1>r, <2>4, GoroutinesIgual DEF DescFinEnCola
  <2> QED
    BY <2>1, <2>5 DEF InvDesconexion
<1>6. CASE DescFinEnLog(i)
  <2>1. desconexion' \in [Instancias -> RegistroDesconexion] /\ DescNombra'
    BY <1>6, <1>r DEF DescFinEnLog, EnDesconexion, RegistroDesconexion,
                      InvDesconexion, DescNombra, PCsDescFin
  <2>2. TypeOK'
    BY <1>6, <1>r DEF DescFinEnLog, TypeOK, TiposTabla, TiposSincronizacion,
       TiposPlanificadores, TiposCpus, TiposIO
  <2>3. InvTipos'
    BY <1>6, <1>r, <2>2, GoroutinesIgual DEF DescFinEnLog
  <2> QED
    BY <2>1, <2>3 DEF InvDesconexion
<1>7. CASE DescFinEnMapa(i)
  <2>1. desconexion' \in [Instancias -> RegistroDesconexion] /\ DescNombra'
    BY <1>7, <1>r DEF DescFinEnMapa, RegistroDesconexion, InvDesconexion, DescNombra,
                      PCsDescFin
  <2>5. TiposTabla'
    BY <1>7, <1>r DEF DescFinEnMapa, TypeOK, TiposTabla
  <2>6. TiposSincronizacion'
    BY <1>7, <1>r DEF DescFinEnMapa, TypeOK, TiposSincronizacion
  <2>2. TypeOK'
    BY <1>7, <1>r, <2>5, <2>6
       DEF DescFinEnMapa, TypeOK, TiposPlanificadores, TiposCpus, TiposIO
  <2>3. \A q \in Pid : mapa[q] # NADA => mapa'[q] # NADA \/ mutexProc[q] = NADA
    BY <1>7, <1>r DEF DescFinEnMapa, TypeOK, TiposTabla
  <2>4. InvTipos'
    BY <1>7, <1>r, <2>2, <2>3, GoroutinesIgual DEF DescFinEnMapa
  <2> QED
    BY <2>1, <2>4 DEF InvDesconexion
<1>8. CASE DescEspera(i)
  <2>1. r.espera \in Seq(Pid) /\ r.espera # <<>>
    BY <1>8, <1>r DEF DescEspera, RegistroDesconexion
  <2>2. Head(r.espera) \in Pid /\ Tail(r.espera) \in Seq(Pid)
    BY <2>1
  <2>3. mapa[Head(r.espera)] # NADA => mapa[Head(r.espera)].estado \in Estados
    BY <1>r, <2>2 DEF TypeOK, TiposTabla, Procesos
  <2>4. desconexion' \in [Instancias -> RegistroDesconexion] /\ DescNombra'
    BY <1>8, <1>r, <2>2, <2>3
       DEF DescEspera, EnDesconexion, RegistroDesconexion, PidONinguno, InvDesconexion,
           DescNombra, PCsDescFin
  <2> QED
    BY <1>8, <1>r, <1>v, <2>4 DEF DescEspera, InvDesconexion
<1>9. CASE DescGuardar(i)
  <2>1. desconexion' \in [Instancias -> RegistroDesconexion] /\ DescNombra'
    BY <1>9, <1>r DEF DescGuardar, RegistroDesconexion, InvDesconexion, DescNombra,
                      PCsDescFin
  <2>2. instanciasIO' \in [NombresIO -> Seq(Instancias)]
    BY <1>9, <1>r, ConstantesOK, QuitarDeSecuencia DEF DescGuardar, TypeOK, TiposIO
  <2>3. TypeOK'
    BY <1>9, <1>r, <2>2 DEF DescGuardar, TypeOK, TiposTabla, TiposSincronizacion,
       TiposPlanificadores, TiposCpus, TiposIO
  <2>4. InvTipos'
    BY <1>9, <1>r, <2>3, GoroutinesIgual DEF DescGuardar
  <2> QED
    BY <2>1, <2>4 DEF InvDesconexion
<1>10. CASE FinIOSinInstancia(i)
  <2>1. finIO \in [Instancias -> RegistroFin] /\ SinFin \in RegistroFin
    BY <1>r, Reposos DEF TypeOK, TiposIO
  <2>2. finIO' \in [Instancias -> RegistroFin]
    BY <1>10, <2>1 DEF FinIOSinInstancia
  <2>3. TypeOK'
    BY <1>10, <1>r, <2>2 DEF FinIOSinInstancia, TypeOK, TiposTabla,
       TiposSincronizacion, TiposPlanificadores, TiposCpus, TiposIO
  <2>4. Nombran' /\ Duenos' /\ SigueVivo'
    BY <1>10, <1>r, <2>1
       DEF FinIOSinInstancia, InvTipos, Nombran, CortoNombra, LargoNombra,
           ManejadorNombra, FinNombra, Duenos, CortoEsDueno, ManejadorEsDueno,
           TimerEsDueno, FinEsDueno, SigueVivo, SinFin
  <2> QED
    BY <1>10, <2>3, <2>4
       DEF InvDesconexion, InvTipos, FinIOSinInstancia, DescNombra
<1> QED
  BY <1>1, <1>2, <1>3, <1>4, <1>5, <1>6, <1>7, <1>8, <1>9, <1>10 DEF PasoDesconexion

LEMMA PasoInvDesconexion ==
  ASSUME InvDesconexion, [NextDesconexion]_todo PROVE InvDesconexion'
<1>1. ASSUME PasoKernel \/ EntornoEnLinea, ~panico, UNCHANGED desconexion
      PROVE  InvDesconexion'
  <2>1. Next
    BY <1>1 DEF Next, EntornoEnLinea, PasoEntorno
  <2> QED
    BY <1>1, <2>1, PasoInvTipos DEF InvDesconexion, DescNombra
<1>2. ASSUME NEW i \in Instancias, PasoDesconexion(i) PROVE InvDesconexion'
  BY <1>2, PasoDesconexionInv
<1>3. CASE UNCHANGED todo
  BY <1>3, PasoInvTipos DEF todo, InvDesconexion, DescNombra
<1> QED
  BY <1>1, <1>2, <1>3 DEF NextDesconexion

\* InvDesconexion holds of every reachable state, whatever connects and shuts
\* down in whatever order.
THEOREM InvDesconexionSiempre == SpecDesconexion => []InvDesconexion
<1>1. InitDesconexion => InvDesconexion
  BY InicioDesconexion
<1>2. InvDesconexion /\ [NextDesconexion]_todo => InvDesconexion'
  BY PasoInvDesconexion
<1> QED
  BY <1>1, <1>2, PTL DEF SpecDesconexion

\* Every variable keeps its type when modules shut down.
THEOREM TiposConDesconexion == SpecDesconexion => []TiposDesconexion
<1>1. InvDesconexion => TiposDesconexion
  BY DEF InvDesconexion, InvTipos, TiposDesconexion
<1> QED
  BY <1>1, InvDesconexionSiempre, PTL

\* DesconexionIO ends processes without holding their mutexes, with a state it
\* read before: even so no goroutine loses the process of its critical section
\* (dispatch, block, suspension, end of IO, dump) and none enters it twice.
THEOREM SeccionesConDesconexion == SpecDesconexion => []SeccionesCriticas
<1>1. InvDesconexion => SeccionesCriticas
  BY DEF InvDesconexion, InvTipos, SeccionesCriticas
<1> QED
  BY <1>1, InvDesconexionSiempre, PTL
---------------------------------------------------------------------------
(* The queue of a device that is gone. *)

PCsConLista == PCsDescFin \cup {"espera"}

\* Whoever is inside the critical section of ListaIOsMutex holds it.
ListaEsDuena ==
  /\ \A c \in CPUs : manejador[c].pc = "io_proceso" => mutexIOs = GSyscall(c)
  /\ \A i \in Instancias :
       /\ finIO[i].pc \in {"proceso", "mueve", "instancia"} => mutexIOs = GFinIO(i)
       /\ desconexion[i].pc \in PCsConLista => mutexIOs = GDesconexion(i)

\* Who lives, or is in a queue, was created: a pid is not used again.
Creados ==
  \A p \in Pid :
    mapa[p] # NADA \/ (\E d \in NombresIO : Esta(esperaIO[d], p)) => p < pidCounter

\* The handler has still to end p.
PorTerminar(i, p) ==
  \/ desconexion[i].pc \in PCsDescFin /\ desconexion[i].pid = p
  \/ Esta(desconexion[i].espera, p)

\* What ConElla noted is all that has to end: nobody enters the queue meanwhile.
ColaContada ==
  \A i \in Instancias, p \in Pid :
    /\ desconexion[i].pc \in PCsConLista
    /\ Len(instanciasIO[NombreIO[i]]) = 1 /\ Esta(esperaIO[NombreIO[i]], p)
    => mapa[p] = NADA \/ PorTerminar(i, p)

\* NadieEnColaMuerta, of each process.
ColaMuerta ==
  \A d \in NombresIO, p \in Pid :
    instanciasIO[d] = <<>> /\ Esta(esperaIO[d], p) => mapa[p] = NADA

\* The strengthening of NadieEnColaMuerta.
InvCola == ListaEsDuena /\ Creados /\ ColaContada /\ ColaMuerta

\* The handler of a disconnection is nobody else.
LEMMA DesconexionEsOtra ==
  /\ \A i \in Instancias : GDesconexion(i) # NADA
  /\ \A i \in Instancias, c \in CPUs : GDesconexion(i) # GSyscall(c)
  /\ \A i, j \in Instancias : GDesconexion(i) # GFinIO(j)
  /\ \A i, j \in Instancias : GDesconexion(i) = GDesconexion(j) => i = j
BY NadaOK DEF Goroutines, GDesconexion, GSyscall, GFinIO

\* A step that creates nobody but the next pid, and that does not let a handler
\* forget anybody, keeps InvCola if it leaves queues and instances alone, or
\* adds to them while no handler has the list.
LEMMA ColaSigue ==
  ASSUME InvDesconexion, InvCola, ListaEsDuena', pidCounter' \in Nat,
         pidCounter <= pidCounter',
         \A p \in Pid : mapa'[p] # NADA =>
           mapa[p] # NADA \/ (pidCounter <= p /\ p < pidCounter'),
         \A i \in Instancias : desconexion'[i].pc \in PCsConLista =>
           /\ desconexion[i].pc \in PCsConLista
           /\ \A p \in Pid : PorTerminar(i, p) => PorTerminar(i, p)' \/ mapa'[p] = NADA,
         \/ UNCHANGED <<esperaIO, instanciasIO>>
         \/ /\ \A i \in Instancias : mutexIOs # GDesconexion(i)
            /\ \A d \in NombresIO :
                 /\ \A p \in Pid : Esta(esperaIO'[d], p) =>
                      Esta(esperaIO[d], p) \/ (mapa[p] # NADA /\ instanciasIO[d] # <<>>)
                 /\ instanciasIO'[d] = <<>> => instanciasIO[d] = <<>>
  PROVE  InvCola'
<1>1. /\ pidCounter \in Nat /\ \A p \in Pid : p \in Nat
      /\ NombreIO \in [Instancias -> NombresIO]
  BY ConstantesOK DEF InvDesconexion, InvTipos, TypeOK, TiposTabla, Pid
<1>2. \A p \in Pid : mapa[p] # NADA => p < pidCounter
  BY DEF InvCola, Creados
<1>3. \A d \in NombresIO, p \in Pid : Esta(esperaIO[d], p) => p < pidCounter
  BY DEF InvCola, Creados
<1>4. \A d \in NombresIO, p \in Pid : Esta(esperaIO'[d], p) => p < pidCounter
  BY <1>2, <1>3
<1>5. \A p \in Pid : p < pidCounter /\ mapa[p] = NADA => mapa'[p] = NADA
  BY <1>1
<1>6. Creados'
  <2>1. \A p \in Pid : mapa'[p] # NADA => p < pidCounter'
    BY <1>1, <1>2
  <2>2. \A d \in NombresIO, p \in Pid : Esta(esperaIO'[d], p) => p < pidCounter'
    BY <1>1, <1>4
  <2> QED
    BY <2>1, <2>2 DEF Creados
<1>7. ColaContada'
  <2> SUFFICES ASSUME NEW i \in Instancias, NEW p \in Pid,
                      desconexion'[i].pc \in PCsConLista,
                      Len(instanciasIO'[NombreIO[i]]) = 1,
                      Esta(esperaIO'[NombreIO[i]], p)
               PROVE  mapa'[p] = NADA \/ PorTerminar(i, p)'
    BY DEF ColaContada
  <2>1. desconexion[i].pc \in PCsConLista /\ mutexIOs = GDesconexion(i)
    BY DEF InvCola, ListaEsDuena
  <2>2. UNCHANGED <<esperaIO, instanciasIO>>
    BY <2>1
  <2>3. mapa[p] = NADA \/ PorTerminar(i, p)
    BY <2>1, <2>2 DEF InvCola, ColaContada
  <2>4. p < pidCounter
    BY <1>1, <1>4
  <2> QED
    BY <1>5, <2>3, <2>4
<1>8. ColaMuerta'
  <2> SUFFICES ASSUME NEW d \in NombresIO, NEW p \in Pid, instanciasIO'[d] = <<>>,
                      Esta(esperaIO'[d], p)
               PROVE  mapa'[p] = NADA
    BY DEF ColaMuerta
  <2>1. instanciasIO[d] = <<>> /\ Esta(esperaIO[d], p)
    OBVIOUS
  <2>2. mapa[p] = NADA
    BY <2>1 DEF InvCola, ColaMuerta
  <2> QED
    BY <1>4, <1>5, <2>2
<1> QED
  BY <1>6, <1>7, <1>8 DEF InvCola

\* Nobody is inside while the mutex is free.
LEMMA NadieConLista ==
  ASSUME ListaEsDuena, mutexIOs = NADA
  PROVE  /\ \A c \in CPUs : manejador[c].pc # "io_proceso"
         /\ \A i \in Instancias : finIO[i].pc \notin {"proceso", "mueve", "instancia"}
         /\ \A i \in Instancias : desconexion[i].pc \notin PCsConLista
BY NadaNoEsDueno, DesconexionEsOtra DEF ListaEsDuena

\* A kernel that leaves devices and ListaIOsMutex alone keeps InvCola.
LEMMA ColaQuieta ==
  ASSUME InvDesconexion, InvCola,
         UNCHANGED <<mutexIOs, esperaIO, instanciasIO, pidCounter, desconexion>>,
         \A c \in CPUs : manejador'[c].pc = "io_proceso" => manejador[c].pc = "io_proceso",
         \A i \in Instancias : finIO'[i].pc \in {"proceso", "mueve", "instancia"} =>
           finIO[i].pc \in {"proceso", "mueve", "instancia"},
         \A p \in Pid : mapa'[p] # NADA => mapa[p] # NADA
  PROVE  InvCola'
<1>1. ListaEsDuena'
  BY DEF InvCola, ListaEsDuena
<1>2. pidCounter' \in Nat /\ pidCounter <= pidCounter'
  BY ConstantesOK DEF InvDesconexion, InvTipos, TypeOK, TiposTabla
<1> QED
  BY <1>1, <1>2, ColaSigue DEF PorTerminar

\* A change of state brings nobody back.
LEMMA NadieRevive ==
  ASSUME TypeOK, NEW p \in Pid, mapa[p] # NADA, NEW x,
         mapa' = [mapa EXCEPT ![p] = x]
  PROVE  \A q \in Pid : mapa'[q] # NADA => mapa[q] # NADA
BY DEF TypeOK, TiposTabla

LEMMA PasoCortoCola ==
  ASSUME InvDesconexion, InvCola, PasoCorto, UNCHANGED desconexion PROVE InvCola'
<1>1. UNCHANGED <<mutexIOs, esperaIO, instanciasIO, pidCounter, manejador, finIO>>
  BY DEF PasoCorto, EsperarCpu, EsperarReady, ElegirCpu, ElegirPid, LeerPcb,
         EnviarProceso, ReadyAExecute, CambiarAExecute, Panico
<1>2. TypeOK /\ CortoNombra
  BY DEF InvDesconexion, InvTipos, Nombran
<1>3. mapa' = mapa \/ CambiarAExecute
  BY DEF PasoCorto, EsperarCpu, EsperarReady, ElegirCpu, ElegirPid, LeerPcb,
         EnviarProceso, ReadyAExecute, Panico
<1>4. ASSUME CambiarAExecute
      PROVE  \A p \in Pid : mapa'[p] # NADA => mapa[p] # NADA
  BY <1>2, <1>4 DEF CambiarAExecute, CortoNombra, ConEstado, Panico, TypeOK, TiposTabla
<1> QED
  BY <1>1, <1>3, <1>4, ColaQuieta

LEMMA PasoLargoCola ==
  ASSUME InvDesconexion, InvCola, PasoLargo, UNCHANGED desconexion PROVE InvCola'
<1>1. UNCHANGED <<mutexIOs, esperaIO, instanciasIO, pidCounter, manejador, finIO>>
  BY DEF PasoLargo, DespertarLargo, IntentarReanudar, SuspReadyAReady, SuspReadyVacia,
         IntentarIniciar, NewAReady, NewVacia, Panico
<1>2. TypeOK /\ LargoNombra
  BY DEF InvDesconexion, InvTipos, Nombran
<1>3. mapa' = mapa \/ SuspReadyAReady \/ NewAReady
  BY DEF PasoLargo, DespertarLargo, IntentarReanudar, SuspReadyVacia, IntentarIniciar,
         NewVacia
<1>4. ASSUME SuspReadyAReady \/ NewAReady
      PROVE  \A p \in Pid : mapa'[p] # NADA => mapa[p] # NADA
  <2>1. largo.pid \in Pid
    BY <1>2, <1>4 DEF LargoNombra, SuspReadyAReady, NewAReady
  <2>2. mapa' = mapa \/ (mapa[largo.pid] # NADA /\ mapa' = ConEstado(largo.pid, "READY"))
    BY <1>4 DEF SuspReadyAReady, NewAReady, Panico
  <2> QED
    BY <1>2, <2>1, <2>2 DEF ConEstado, TypeOK, TiposTabla
<1> QED
  BY <1>1, <1>3, <1>4, ColaQuieta

LEMMA PasoTimerCola ==
  ASSUME InvDesconexion, InvCola, NEW p \in Pid, NEW n \in Numero, PasoTimer(p, n),
         UNCHANGED desconexion
  PROVE  InvCola'
<1>1. UNCHANGED <<mutexIOs, esperaIO, instanciasIO, pidCounter, manejador, finIO>>
  BY DEF PasoTimer, DespertarTimer, SuspenderEnMemoria, BlockedASuspBlocked
<1>2. TypeOK /\ SigueVivo
  BY DEF InvDesconexion, InvTipos
<1>3. mapa' = mapa \/ (mapa[p] # NADA /\ mapa' = ConEstado(p, "SUSP_BLOCKED"))
  BY <1>2 DEF PasoTimer, DespertarTimer, SuspenderEnMemoria, BlockedASuspBlocked,
              SigueVivo
<1>4. \A q \in Pid : mapa'[q] # NADA => mapa[q] # NADA
  BY <1>2, <1>3 DEF ConEstado, TypeOK, TiposTabla
<1> QED
  BY <1>1, <1>4, ColaQuieta

\* The handlers of syscalls that do not take ListaIOsMutex, nor create.
SyscallSinLista(c) ==
  \/ MarcarLibre(c) \/ FinEnMemoria(c) \/ FinEnCola(c) \/ FinEnLog(c) \/ FinEnMapa(c)
  \/ IOBloquear(c) \/ DumpMirar(c) \/ DumpBloquear(c) \/ DumpCambiar(c)
  \/ EnviarDump(c) \/ DumpVolver(c) \/ InitAgregarNew(c) \/ InitReenviar(c)

LEMMA SyscallSinListaCola ==
  ASSUME InvDesconexion, InvCola, NEW c \in CPUs, SyscallSinLista(c),
         UNCHANGED desconexion
  PROVE  InvCola'
<1>1. UNCHANGED <<mutexIOs, esperaIO, instanciasIO, pidCounter, finIO>>
  BY DEF SyscallSinLista, MarcarLibre, FinEnMemoria, FinEnCola, FinEnLog, FinEnMapa,
         IOBloquear, DumpMirar, DumpBloquear, DumpCambiar, EnviarDump, DumpVolver,
         InitAgregarNew, InitReenviar, Panico
<1>2. TypeOK /\ SigueVivo /\ ManejadorNombra /\ manejador \in [CPUs -> RegistroSyscall]
  BY DEF InvDesconexion, InvTipos, Nombran, TypeOK, TiposCpus
<1>3. \A d \in CPUs : manejador'[d].pc = "io_proceso" => manejador[d].pc = "io_proceso"
  <2>1. CASE manejador' = manejador
    BY <2>1
  <2>2. CASE manejador' = [manejador EXCEPT ![c] = SinSyscall]
    BY <1>2, <2>2 DEF SinSyscall
  <2>3. CASE \E s : s # "io_proceso" /\ Pasar(c, s)
    BY <1>2, <2>3 DEF Pasar
  <2>4. MarcarLibre(c) \/ InitReenviar(c) => manejador' = [manejador EXCEPT ![c] = SinSyscall]
    BY DEF MarcarLibre, InitReenviar
  <2>5. FinEnMemoria(c) \/ FinEnCola(c) \/ FinEnMapa(c) \/ IOBloquear(c)
          \/ InitAgregarNew(c) => \E s : s # "io_proceso" /\ Pasar(c, s)
    BY DEF FinEnMemoria, FinEnCola, FinEnMapa, IOBloquear, InitAgregarNew
  <2>6. FinEnLog(c) \/ DumpCambiar(c) \/ EnviarDump(c) \/ DumpBloquear(c) =>
          manejador' = manejador \/ \E s : s # "io_proceso" /\ Pasar(c, s)
    BY DEF FinEnLog, DumpCambiar, EnviarDump, DumpBloquear, Panico
  <2>7. CASE DumpMirar(c)
    BY <1>2, <2>7 DEF DumpMirar, SinSyscall
  <2>8. CASE DumpVolver(c)
    BY <1>2, <2>8 DEF DumpVolver, SinSyscall
  <2> QED
    BY <2>1, <2>2, <2>3, <2>4, <2>5, <2>6, <2>7, <2>8 DEF SyscallSinLista
<1>4. manejador[c].pc # "inactivo" /\ manejador[c].pid \in Pid
  BY <1>2 DEF SyscallSinLista, MarcarLibre, FinEnMemoria, FinEnCola, FinEnLog, FinEnMapa,
         IOBloquear, DumpMirar, DumpBloquear, DumpCambiar, EnviarDump, DumpVolver,
         InitAgregarNew, InitReenviar, En, ManejadorNombra
<1>5. \A q \in Pid : mapa'[q] # NADA => mapa[q] # NADA
  <2>1. \/ mapa' = mapa \/ FinEnMapa(c) \/ IOBloquear(c) \/ DumpCambiar(c)
        \/ DumpVolver(c)
    BY DEF SyscallSinLista, MarcarLibre, FinEnMemoria, FinEnCola, FinEnLog, DumpMirar,
           DumpBloquear, EnviarDump, InitAgregarNew, InitReenviar, Panico
  <2>2. CASE FinEnMapa(c)
    BY <1>2, <1>4, <2>2 DEF FinEnMapa, TypeOK, TiposTabla
  <2>3. CASE IOBloquear(c) \/ DumpCambiar(c)
    <3>1. mapa' = mapa \/ (mapa[manejador[c].pid] # NADA /\ mapa' \in Bloqueado(manejador[c].pid))
      BY <1>2, <2>3 DEF IOBloquear, DumpCambiar, SigueVivo, En, Panico
    <3> QED
      BY <1>2, <1>4, <3>1 DEF Bloqueado, ConEstado, TypeOK, TiposTabla
  <2>4. CASE DumpVolver(c)
    BY <1>2, <1>4, <2>4 DEF DumpVolver, TypeOK, TiposTabla
  <2> QED
    BY <2>1, <2>2, <2>3, <2>4
<1> QED
  BY <1>1, <1>3, <1>5, ColaQuieta

\* CPUs that connect, answer or are given back.
LEMMA PasoCPUCola ==
  ASSUME InvDesconexion, InvCola, UNCHANGED desconexion,
         AvisarCpuLibre \/ \E c \in CPUs : HandshakeCPU(c) \/ EmitirSyscall(c)
  PROVE  InvCola'
<1>1. UNCHANGED <<mutexIOs, esperaIO, instanciasIO, pidCounter, finIO, mapa>>
  BY DEF AvisarCpuLibre, HandshakeCPU, EmitirSyscall
<1>2. TypeOK /\ manejador \in [CPUs -> RegistroSyscall]
  BY DEF InvDesconexion, InvTipos, TypeOK, TiposCpus
<1>3. ASSUME NEW c \in CPUs, EmitirSyscall(c)
      PROVE  \A d \in CPUs : manejador'[d].pc = "io_proceso" => manejador[d].pc = "io_proceso"
  <2> DEFINE p == ejecuta[c].pid
             n == ejecuta[c].PC + 1
  <2>1. p \in Pid /\ n \in Numero
    BY <1>2, <1>3, ConstantesOK DEF EmitirSyscall, TypeOK, TiposCpus, PidONinguno, Numero
  <2>2. Programa[p][n] \subseteq Syscalls
    BY <2>1, ConstantesOK
  <2>3. PICK op \in Programa[p][n] : \E io :
          manejador' = [manejador EXCEPT ![c] =
            [pc |-> Entrada[op], op |-> op, pid |-> p, n |-> n, io |-> io,
             nuevo |-> NINGUNO]]
    BY <1>3 DEF EmitirSyscall
  <2>4. Entrada[op] # "io_proceso"
    BY <2>2, <2>3 DEF Entrada, Syscalls
  <2> QED
    BY <1>2, <2>3, <2>4
<1>4. (AvisarCpuLibre \/ \E c \in CPUs : HandshakeCPU(c)) => manejador' = manejador
  BY DEF AvisarCpuLibre, HandshakeCPU
<1> QED
  BY <1>1, <1>3, <1>4, ColaQuieta

\* INIT_PROC creates the next pid.
LEMMA InitCrearCola ==
  ASSUME InvDesconexion, InvCola, NEW c \in CPUs, InitCrear(c), UNCHANGED desconexion
  PROVE  InvCola'
<1>1. /\ UNCHANGED <<mutexIOs, esperaIO, instanciasIO, finIO>>
      /\ pidCounter' = pidCounter + 1 /\ pidCounter < MaxPids
  BY DEF InitCrear
<1>2. /\ TypeOK /\ manejador \in [CPUs -> RegistroSyscall] /\ pidCounter \in Nat
      /\ mapa \in [Pid -> Procesos \cup {NADA}]
  BY ConstantesOK DEF InvDesconexion, InvTipos, TypeOK, TiposCpus, TiposTabla
<1>3. \A d \in CPUs : manejador'[d].pc = "io_proceso" => manejador[d].pc = "io_proceso"
  <2>1. manejador' = [manejador EXCEPT ![c].pc = "init_new", ![c].nuevo = pidCounter]
    BY DEF InitCrear
  <2> QED
    BY <1>2, <2>1
<1>4. ListaEsDuena'
  BY <1>1, <1>3 DEF InvCola, ListaEsDuena
<1>5. \A p \in Pid : mapa'[p] # NADA =>
        mapa[p] # NADA \/ (pidCounter <= p /\ p < pidCounter')
  <2>1. PICK x : mapa' = [mapa EXCEPT ![pidCounter] = x]
    BY DEF InitCrear
  <2> QED
    BY <1>1, <1>2, <2>1
<1> QED
  BY <1>1, <1>2, <1>4, <1>5, ColaSigue DEF PorTerminar

\* Lock of ListaIOsMutex, by manejarIO.
LEMMA IOTomarListaCola ==
  ASSUME InvDesconexion, InvCola, NEW c \in CPUs, IOTomarLista(c), UNCHANGED desconexion
  PROVE  InvCola'
<1>1. /\ UNCHANGED <<esperaIO, instanciasIO, pidCounter, finIO, mapa>>
      /\ mutexIOs = NADA /\ mutexIOs' = GSyscall(c)
      /\ manejador' = [manejador EXCEPT ![c].pc = "io_proceso"]
  BY DEF IOTomarLista, Pasar
<1>2. manejador \in [CPUs -> RegistroSyscall] /\ pidCounter \in Nat
  BY ConstantesOK DEF InvDesconexion, InvTipos, TypeOK, TiposCpus, TiposTabla
<1>3. \A d \in CPUs \ {c} : manejador'[d] = manejador[d]
  BY <1>1, <1>2
<1>4. ListaEsDuena'
  BY <1>1, <1>3, NadieConLista DEF InvCola, ListaEsDuena
<1> QED
  BY <1>1, <1>2, <1>4, ColaSigue DEF PorTerminar

\* manejarIO, to the unlock: nobody queues for a device without instances.
LEMMA IOConListaCola ==
  ASSUME InvDesconexion, InvCola, NEW c \in CPUs, UNCHANGED desconexion,
         IODescartar(c) \/ IOInexistente(c) \/ IOSolicitar(c)
  PROVE  InvCola'
<1> DEFINE m == manejador[c]
<1>1. /\ UNCHANGED <<instanciasIO, pidCounter, finIO>> /\ mutexIOs' = NADA
      /\ m.pc = "io_proceso"
  BY DEF IODescartar, IOInexistente, IOSolicitar, En
<1>2. /\ manejador \in [CPUs -> RegistroSyscall] /\ pidCounter \in Nat /\ TypeOK
      /\ m.pid \in Pid /\ m.io \in NombresIO
  BY <1>1, ConstantesOK DEF InvDesconexion, InvTipos, TypeOK, TiposCpus, TiposTabla,
       Nombran, ManejadorNombra, PCsIO
<1>3. /\ manejador'[c].pc # "io_proceso"
      /\ \A d \in CPUs \ {c} : manejador'[d] = manejador[d]
  <2>1. CASE manejador' = [manejador EXCEPT ![c] = SinSyscall]
    BY <1>2, <2>1 DEF SinSyscall
  <2>2. CASE \E s : s # "io_proceso" /\ Pasar(c, s)
    BY <1>2, <2>2 DEF Pasar
  <2>3. IOInexistente(c) \/ IOSolicitar(c) => \E s : s # "io_proceso" /\ Pasar(c, s)
    BY DEF IOInexistente, IOSolicitar
  <2> QED
    BY <2>1, <2>2, <2>3 DEF IODescartar
<1>4. mutexIOs = GSyscall(c)
  BY <1>1 DEF InvCola, ListaEsDuena
<1>5. ListaEsDuena'
  <2>1. /\ \A d \in CPUs \ {c} : manejador[d].pc # "io_proceso"
        /\ \A i \in Instancias : finIO[i].pc \notin {"proceso", "mueve", "instancia"}
        /\ \A i \in Instancias : desconexion[i].pc \notin PCsConLista
    BY <1>4, DesconexionEsOtra, DuenosDistintos DEF InvCola, ListaEsDuena
  <2> QED
    BY <1>1, <1>3, <2>1 DEF ListaEsDuena
<1>6. \A p \in Pid : mapa'[p] # NADA => mapa[p] # NADA
  <2>1. CASE IOSolicitar(c)
    BY <1>2, <2>1 DEF IOSolicitar, EnExecute, TypeOK, TiposTabla
  <2>2. CASE ~IOSolicitar(c)
    BY <2>2 DEF IODescartar, IOInexistente
  <2> QED
    BY <2>1, <2>2
<1>7. \A d \in NombresIO, p \in Pid : Esta(esperaIO'[d], p) =>
        Esta(esperaIO[d], p) \/ (mapa[p] # NADA /\ instanciasIO[d] # <<>>)
  <2>1. \/ esperaIO' = esperaIO
        \/ /\ esperaIO' = [esperaIO EXCEPT ![m.io] = Append(@, m.pid)]
           /\ mapa[m.pid] # NADA /\ instanciasIO[m.io] # <<>>
    BY DEF IODescartar, IOInexistente, IOSolicitar, EnExecute, ExisteIO
  <2>2. CASE esperaIO' = esperaIO
    BY <2>2
  <2>3. CASE /\ esperaIO' = [esperaIO EXCEPT ![m.io] = Append(@, m.pid)]
             /\ mapa[m.pid] # NADA /\ instanciasIO[m.io] # <<>>
    <3> DEFINE s == esperaIO[m.io]
    <3>1. esperaIO \in [NombresIO -> Seq(Pid)] /\ s \in Seq(Pid)
      BY <1>2 DEF TypeOK, TiposIO
    <3>2. \A p \in Pid : Esta(Append(s, m.pid), p) => Esta(s, p) \/ p = m.pid
      BY <3>1 DEF Esta
    <3>3. /\ esperaIO'[m.io] = Append(s, m.pid)
          /\ \A d \in NombresIO \ {m.io} : esperaIO'[d] = esperaIO[d]
      BY <1>2, <2>3, <3>1
    <3> HIDE DEF s
    <3> QED
      BY <2>3, <3>2, <3>3 DEF s
  <2> QED
    BY <2>1, <2>2, <2>3
<1>8. \A i \in Instancias : mutexIOs # GDesconexion(i)
  BY <1>4, DesconexionEsOtra
<1> QED
  BY <1>1, <1>2, <1>5, <1>6, <1>7, <1>8, ColaSigue DEF PorTerminar

LEMMA PasoSyscallCola ==
  ASSUME InvDesconexion, InvCola, NEW c \in CPUs, PasoSyscall(c), UNCHANGED desconexion
  PROVE  InvCola'
BY SyscallSinListaCola, InitCrearCola, IOTomarListaCola, IOConListaCola
   DEF PasoSyscall, SyscallSinLista

\* manejarFinIO keeps InvCola: a queue only gets shorter.
LEMMA PasoFinIOCola ==
  ASSUME InvDesconexion, InvCola, NEW i \in Instancias, UNCHANGED desconexion,
         PasoFinIO(i)
  PROVE  InvCola'
<1>1. UNCHANGED <<instanciasIO, pidCounter, manejador>>
  BY DEF PasoFinIO, FinIOTomarLista, FinIOMirarProceso, SuspBlockedASuspReady,
         BlockedAReady, LiberarInstancia
<1>2. /\ finIO \in [Instancias -> RegistroFin] /\ pidCounter \in Nat /\ TypeOK
      /\ SigueVivo /\ FinNombra
  BY ConstantesOK DEF InvDesconexion, InvTipos, TypeOK, TiposIO, TiposTabla, Nombran
<1>3. \A j \in Instancias \ {i} : finIO'[j] = finIO[j]
  BY <1>2 DEF PasoFinIO, FinIOTomarLista, FinIOMirarProceso, SuspBlockedASuspReady,
              BlockedAReady, LiberarInstancia, FinIOMovido
<1>4. \/ mutexIOs = NADA /\ mutexIOs' = GFinIO(i)
      \/ /\ finIO[i].pc \in {"proceso", "mueve", "instancia"}
         /\ mutexIOs' = mutexIOs
      \/ /\ finIO[i].pc \in {"proceso", "mueve", "instancia"}
         /\ mutexIOs' = NADA /\ finIO'[i].pc = "inactivo"
  <2>1. CASE FinIOTomarLista(i)
    BY <2>1 DEF FinIOTomarLista
  <2>2. CASE FinIOMirarProceso(i)
    BY <1>2, <2>2 DEF FinIOMirarProceso, SinFin
  <2>3. CASE SuspBlockedASuspReady(i) \/ BlockedAReady(i)
    BY <1>2, <2>3 DEF SuspBlockedASuspReady, BlockedAReady, FinIOMovido, SinFin
  <2>4. CASE LiberarInstancia(i)
    BY <1>2, <2>4 DEF LiberarInstancia, SinFin
  <2> QED
    BY <2>1, <2>2, <2>3, <2>4 DEF PasoFinIO
<1>5. ListaEsDuena'
  <2>1. CASE mutexIOs = NADA /\ mutexIOs' = GFinIO(i)
    BY <1>1, <1>3, <2>1, NadieConLista DEF InvCola, ListaEsDuena
  <2>2. CASE /\ finIO[i].pc \in {"proceso", "mueve", "instancia"}
             /\ mutexIOs' = mutexIOs
    BY <1>1, <1>3, <2>2 DEF InvCola, ListaEsDuena
  <2>3. CASE /\ finIO[i].pc \in {"proceso", "mueve", "instancia"}
             /\ mutexIOs' = NADA /\ finIO'[i].pc = "inactivo"
    <3>1. /\ \A c \in CPUs : manejador[c].pc # "io_proceso"
          /\ \A j \in Instancias \ {i} :
               finIO[j].pc \notin {"proceso", "mueve", "instancia"}
          /\ \A j \in Instancias : desconexion[j].pc \notin PCsConLista
      BY <2>3, DesconexionEsOtra, DuenosDistintos DEF InvCola, ListaEsDuena
    <3> QED
      BY <1>1, <1>3, <2>3, <3>1 DEF ListaEsDuena
  <2> QED
    BY <1>4, <2>1, <2>2, <2>3
<1>6. \A p \in Pid : mapa'[p] # NADA => mapa[p] # NADA
  <2>1. \/ mapa' = mapa
        \/ \E e : finIO[i].pc = "mueve" /\ mapa' = ConEstado(finIO[i].pid, e)
    BY DEF PasoFinIO, FinIOTomarLista, FinIOMirarProceso, SuspBlockedASuspReady,
           BlockedAReady, LiberarInstancia
  <2> QED
    BY <1>2, <2>1 DEF ConEstado, SigueVivo, FinNombra, TypeOK, TiposTabla
<1>7. \A d \in NombresIO, p \in Pid : Esta(esperaIO'[d], p) => Esta(esperaIO[d], p)
  <2> DEFINE d == NombreIO[i]
             s == esperaIO[d]
  <2>1. \/ esperaIO' = esperaIO
        \/ s # <<>> /\ esperaIO' = [esperaIO EXCEPT ![d] = Tail(@)]
    BY DEF PasoFinIO, FinIOTomarLista, FinIOMirarProceso, SuspBlockedASuspReady,
           BlockedAReady, LiberarInstancia
  <2>2. d \in NombresIO /\ esperaIO \in [NombresIO -> Seq(Pid)] /\ s \in Seq(Pid)
    BY <1>2, ConstantesOK DEF TypeOK, TiposIO
  <2>3. s # <<>> => \A p \in Pid : Esta(Tail(s), p) => Esta(s, p)
    BY <2>2 DEF Esta
  <2>4. CASE s # <<>> /\ esperaIO' = [esperaIO EXCEPT ![d] = Tail(@)]
    <3>1. esperaIO'[d] = Tail(s) /\ \A f \in NombresIO \ {d} : esperaIO'[f] = esperaIO[f]
      BY <2>2, <2>4
    <3> HIDE DEF s, d
    <3> QED
      BY <2>3, <2>4, <3>1 DEF s
  <2> QED
    BY <2>1, <2>4
<1>8. \A j \in Instancias : mutexIOs # GDesconexion(j)
  <2>1. mutexIOs = NADA \/ mutexIOs = GFinIO(i)
    BY <1>4 DEF InvCola, ListaEsDuena
  <2> QED
    BY <2>1, DesconexionEsOtra
<1> QED
  BY <1>1, <1>2, <1>5, <1>6, <1>7, <1>8, ColaSigue DEF PorTerminar

\* A device that connects, and one that wakes up.
LEMMA PasoDispositivoCola ==
  ASSUME InvDesconexion, InvCola, NEW i \in Instancias, UNCHANGED desconexion,
         HandshakeIO(i) \/ TerminarIO(i)
  PROVE  InvCola'
<1>t. TypeOK /\ pidCounter \in Nat
  BY ConstantesOK DEF InvDesconexion, InvTipos, TypeOK, TiposTabla
<1>1. CASE TerminarIO(i)
  <2>1. finIO \in [Instancias -> RegistroFin]
    BY <1>t DEF TypeOK, TiposIO
  <2> QED
    BY <1>1, <2>1, ColaQuieta DEF TerminarIO
<1>2. CASE HandshakeIO(i)
  <2>1. /\ UNCHANGED <<mutexIOs, esperaIO, pidCounter, mapa, manejador, finIO>>
        /\ mutexIOs = NADA
        /\ instanciasIO' = [instanciasIO EXCEPT ![NombreIO[i]] = Append(@, i)]
    BY <1>2 DEF HandshakeIO
  <2>2. ListaEsDuena'
    BY <2>1 DEF InvCola, ListaEsDuena
  <2>3. instanciasIO \in [NombresIO -> Seq(Instancias)] /\ NombreIO[i] \in NombresIO
    BY <1>t, ConstantesOK DEF TypeOK, TiposIO
  <2>4. Append(instanciasIO[NombreIO[i]], i) # <<>>
    BY <2>3
  <2>5. \A d \in NombresIO : instanciasIO'[d] = <<>> => instanciasIO[d] = <<>>
    BY <2>1, <2>3, <2>4
  <2> QED
    BY <1>t, <2>1, <2>2, <2>5, DesconexionEsOtra, ColaSigue DEF PorTerminar
<1> QED
  BY <1>1, <1>2

\* A step of the kernel or of its modules, when no IO module shuts down.
LEMMA PasoKernelCola ==
  ASSUME InvDesconexion, InvCola, PasoKernel \/ EntornoEnLinea, UNCHANGED desconexion
  PROVE  InvCola'
BY PasoCortoCola, PasoLargoCola, PasoTimerCola, PasoCPUCola, PasoSyscallCola,
   PasoFinIOCola, PasoDispositivoCola
   DEF PasoKernel, EntornoEnLinea
---------------------------------------------------------------------------

\* A handler that gives ListaIOsMutex back, or takes it, leaves it to one owner.
LEMMA DuenaAlDesconectar ==
  ASSUME InvCola, NEW i \in Instancias, UNCHANGED <<manejador, finIO>>,
         \A j \in Instancias \ {i} : desconexion'[j] = desconexion[j],
         \/ mutexIOs = NADA /\ mutexIOs' = GDesconexion(i)
         \/ mutexIOs' = mutexIOs /\ (desconexion'[i].pc \in PCsConLista =>
                                       desconexion[i].pc \in PCsConLista)
         \/ /\ desconexion[i].pc \in PCsConLista
            /\ mutexIOs' = NADA /\ desconexion'[i].pc \notin PCsConLista
  PROVE  ListaEsDuena'
<1>1. CASE mutexIOs = NADA /\ mutexIOs' = GDesconexion(i)
  BY <1>1, NadieConLista DEF InvCola, ListaEsDuena
<1>2. CASE mutexIOs' = mutexIOs /\ (desconexion'[i].pc \in PCsConLista =>
                                      desconexion[i].pc \in PCsConLista)
  BY <1>2 DEF InvCola, ListaEsDuena
<1>3. CASE /\ desconexion[i].pc \in PCsConLista
           /\ mutexIOs' = NADA /\ desconexion'[i].pc \notin PCsConLista
  <2>1. /\ \A c \in CPUs : manejador[c].pc # "io_proceso"
        /\ \A j \in Instancias : finIO[j].pc \notin {"proceso", "mueve", "instancia"}
        /\ \A j \in Instancias \ {i} : desconexion[j].pc \notin PCsConLista
    BY <1>3, DesconexionEsOtra DEF InvCola, ListaEsDuena
  <2> QED
    BY <1>3, <2>1 DEF ListaEsDuena
<1> QED
  BY <1>1, <1>2, <1>3

\* Taking one out leaves nobody only where there was one at most.
LEMMA QuitarDejaVacia ==
  ASSUME NEW T, NEW s \in Seq(T), NEW x, Quitar(s, x) = <<>>
  PROVE  s = <<>> \/ Len(s) = 1
<1>1. CASE ~Esta(s, x)
  BY <1>1 DEF Quitar
<1>2. CASE Esta(s, x)
  <2> DEFINE k == Posicion(s, x)
  <2>1. k \in 1 .. Len(s)
    BY <1>2 DEF Esta, Posicion
  <2>2. Quitar(s, x) = SubSeq(s, 1, k - 1) \o SubSeq(s, k + 1, Len(s))
    BY <1>2 DEF Quitar, RemoveAt
  <2>3. Len(Quitar(s, x)) = Len(s) - 1
    <3> DEFINE a == SubSeq(s, 1, k - 1)
               b == SubSeq(s, k + 1, Len(s))
    <3>1. /\ Len(a) = k - 1 /\ Len(b) = Len(s) - k
          /\ a \in Seq(T) /\ b \in Seq(T) /\ k \in Int /\ Len(s) \in Int
      BY <2>1
    <3> HIDE DEF a, b, k
    <3>2. Len(a \o b) = Len(a) + Len(b)
      BY <3>1
    <3>3. Len(a \o b) = Len(s) - 1
      BY <3>1, <3>2
    <3> QED
      BY <2>2, <3>3 DEF a, b
  <2>4. Len(Quitar(s, x)) = 0 /\ Len(s) \in Nat
    OBVIOUS
  <2> HIDE DEF k
  <2>5. Len(s) - 1 = 0
    BY <2>3, <2>4
  <2> QED
    BY <2>4, <2>5
<1> QED
  BY <1>1, <1>2

\* From the signal to the lock of ListaIOsMutex.
LEMMA TomarListaCola ==
  ASSUME InvDesconexion, InvCola, NEW i \in Instancias,
         RecibirSenal(i) \/ Apagar(i) \/ DescTomarLista(i)
  PROVE  InvCola'
<1> DEFINE r == desconexion[i]
<1>1. /\ UNCHANGED <<esperaIO, instanciasIO, pidCounter, mapa, manejador, finIO>>
      /\ desconexion \in [Instancias -> RegistroDesconexion] /\ pidCounter \in Nat
      /\ NombreIO[i] \in NombresIO
  BY ConstantesOK
     DEF RecibirSenal, Apagar, DescTomarLista, vars, InvDesconexion, InvTipos, TypeOK,
         TiposTabla
<1>2. \A j \in Instancias \ {i} : desconexion'[j] = desconexion[j]
  BY <1>1 DEF RecibirSenal, Apagar, DescTomarLista
<1>3. ASSUME mutexIOs' = mutexIOs, desconexion'[i].pc \notin PCsConLista PROVE InvCola'
  <2>1. ListaEsDuena'
    BY <1>1, <1>2, <1>3, DuenaAlDesconectar
  <2> QED
    BY <1>1, <1>2, <1>3, <2>1, ColaSigue DEF PorTerminar
<1>4. CASE RecibirSenal(i)
  <2>1. desconexion'[i].pc = "lista" /\ mutexIOs' = mutexIOs
    BY <1>1, <1>4 DEF RecibirSenal, vars, RegistroDesconexion
  <2> QED
    BY <1>3, <2>1 DEF PCsConLista, PCsDescFin
<1>5. CASE Apagar(i)
  <2>1. desconexion'[i].pc = "apagada" /\ mutexIOs' = mutexIOs
    BY <1>1, <1>5 DEF Apagar, EnLinea
  <2> QED
    BY <1>3, <2>1 DEF PCsConLista, PCsDescFin
<1>6. CASE DescTomarLista(i) /\ mutexIOs' = mutexIOs
  <2>1. mutexIOs = NADA /\ GDesconexion(i) # NADA
    BY <1>6, DesconexionEsOtra DEF DescTomarLista
  <2>2. desconexion' = [desconexion EXCEPT ![i].pc = "abandonada"]
    BY <1>6, <2>1 DEF DescTomarLista
  <2>3. desconexion'[i].pc = "abandonada"
    BY <1>1, <2>2 DEF RegistroDesconexion
  <2> QED
    BY <1>3, <1>6, <2>3 DEF PCsConLista, PCsDescFin
<1>7. CASE DescTomarLista(i) /\ ~(mutexIOs' = mutexIOs)
  <2>1. mutexIOs = NADA /\ mutexIOs' = GDesconexion(i)
    BY <1>7 DEF DescTomarLista
  <2>2. desconexion'[i].espera = ConElla(i)
    <3> DEFINE con == [r EXCEPT !.espera = ConElla(i)]
               sinPid == [con EXCEPT !.pc = "espera"]
               conPid == [con EXCEPT !.pc = "fin_memoria", !.estado = mapa[r.pid].estado]
    <3>1. desconexion' \in {[desconexion EXCEPT ![i] = sinPid],
                            [desconexion EXCEPT ![i] = conPid]}
      BY <1>7 DEF DescTomarLista
    <3>2. sinPid.espera = ConElla(i) /\ conPid.espera = ConElla(i)
      BY <1>1 DEF RegistroDesconexion
    <3> HIDE DEF sinPid, conPid
    <3> QED
      BY <1>1, <3>1, <3>2
  <2>3. ListaEsDuena'
    BY <1>1, <1>2, <2>1, DuenaAlDesconectar
  <2>4. ColaContada'
    <3> SUFFICES ASSUME NEW j \in Instancias, NEW p \in Pid,
                        desconexion'[j].pc \in PCsConLista,
                        Len(instanciasIO'[NombreIO[j]]) = 1,
                        Esta(esperaIO'[NombreIO[j]], p)
                 PROVE  PorTerminar(j, p)'
      BY DEF ColaContada
    <3>1. j = i
      BY <1>2, <2>1, NadieConLista DEF InvCola
    <3>2. ConElla(i) = esperaIO[NombreIO[i]]
      BY <1>1, <3>1 DEF ConElla
    <3> QED
      BY <1>1, <2>2, <3>1, <3>2 DEF PorTerminar
  <2>5. Creados' /\ ColaMuerta'
    BY <1>1 DEF InvCola, Creados, ColaMuerta
  <2> QED
    BY <2>3, <2>4, <2>5 DEF InvCola
<1> QED
  BY <1>4, <1>5, <1>6, <1>7

\* The handler forgets nobody it has not ended.
LEMMA TerminarCola ==
  ASSUME InvDesconexion, InvCola, NEW i \in Instancias,
         \/ DescFinEnMemoria(i) \/ DescFinEnCola(i) \/ DescFinEnLog(i)
         \/ DescFinEnMapa(i) \/ DescEspera(i)
  PROVE  InvCola'
<1> DEFINE r == desconexion[i]
           s == desconexion'[i]
<1>1. /\ UNCHANGED <<esperaIO, instanciasIO, pidCounter, manejador, finIO>>
      /\ desconexion \in [Instancias -> RegistroDesconexion] /\ pidCounter \in Nat
      /\ r.espera \in Seq(Pid) /\ r.pc \in PCsConLista /\ TypeOK
      /\ r.pc \in PCsDescFin => r.pid \in Pid
  <2>1. UNCHANGED <<esperaIO, instanciasIO, pidCounter, manejador, finIO>>
    BY DEF DescFinEnMemoria, DescFinEnCola, DescFinEnLog, DescFinEnMapa, DescEspera, vars
  <2>2. TypeOK /\ desconexion \in [Instancias -> RegistroDesconexion]
    BY DEF InvDesconexion, InvTipos
  <2>3. pidCounter \in Nat
    BY <2>2, ConstantesOK DEF TypeOK, TiposTabla
  <2>4. r.pc \in PCsConLista
    BY DEF DescFinEnMemoria, DescFinEnCola, DescFinEnLog, DescFinEnMapa, DescEspera,
           EnDesconexion, PCsConLista, PCsDescFin
  <2>5. r.espera \in Seq(Pid) /\ (r.pc \in PCsDescFin => r.pid \in Pid)
    BY <2>2 DEF RegistroDesconexion, DescNombra, InvDesconexion
  <2> QED
    BY <2>1, <2>2, <2>3, <2>4, <2>5
<1>2. \A j \in Instancias \ {i} : desconexion'[j] = desconexion[j]
  BY <1>1 DEF DescFinEnMemoria, DescFinEnCola, DescFinEnLog, DescFinEnMapa, DescEspera
<1>3. \A p \in Pid : mapa'[p] # NADA => mapa[p] # NADA
  <2>1. CASE DescFinEnMapa(i)
    BY <1>1, <2>1 DEF DescFinEnMapa, TypeOK, TiposTabla
  <2>2. CASE ~DescFinEnMapa(i)
    BY <2>2 DEF DescFinEnMemoria, DescFinEnCola, DescFinEnLog, DescEspera, vars
  <2> QED
    BY <2>1, <2>2
<1>4. /\ s.pc \in PCsConLista => mutexIOs' = mutexIOs
      /\ s.pc \notin PCsConLista => mutexIOs' = NADA
      /\ s.pc \in PCsConLista =>
           \A p \in Pid : PorTerminar(i, p) => PorTerminar(i, p)' \/ mapa'[p] = NADA
  <2>1. ASSUME NEW pc \in PCsDescFin, r.pc \in PCsDescFin, mutexIOs' = mutexIOs,
               desconexion' = [desconexion EXCEPT ![i].pc = pc]
        PROVE  /\ s.pc \in PCsConLista /\ mutexIOs' = mutexIOs
               /\ \A p \in Pid : PorTerminar(i, p) => PorTerminar(i, p)'
    <3>1. s.pc = pc /\ s.pid = r.pid /\ s.espera = r.espera
      BY <1>1, <2>1 DEF RegistroDesconexion
    <3> QED
      BY <2>1, <3>1 DEF PorTerminar, PCsConLista
  <2>2. CASE DescFinEnMemoria(i) \/ DescFinEnCola(i)
    BY <2>1, <2>2 DEF DescFinEnMemoria, DescFinEnCola, EnDesconexion, PCsDescFin
  <2>3. CASE DescFinEnLog(i)
    <3>1. CASE mapa[r.pid] # NADA
      BY <2>1, <2>3, <3>1 DEF DescFinEnLog, EnDesconexion, PCsDescFin
    <3>2. CASE mapa[r.pid] = NADA
      <4>1. desconexion' = [desconexion EXCEPT ![i].pc = "abandonada"] /\ mutexIOs' = NADA
        BY <2>3, <3>2 DEF DescFinEnLog
      <4>2. s.pc = "abandonada"
        BY <1>1, <4>1 DEF RegistroDesconexion
      <4> QED
        BY <4>1, <4>2 DEF PCsConLista, PCsDescFin
    <3> QED
      BY <3>1, <3>2
  <2>4. CASE DescFinEnMapa(i)
    <3>1. /\ desconexion' = [desconexion EXCEPT ![i].pc = "espera"]
          /\ mutexIOs' = mutexIOs /\ r.pc = "fin_mapa"
          /\ mapa' = [mapa EXCEPT ![r.pid] = NADA]
      BY <2>4 DEF DescFinEnMapa, EnDesconexion
    <3>2. s.pc = "espera" /\ s.espera = r.espera
      BY <1>1, <3>1 DEF RegistroDesconexion
    <3>3. mapa'[r.pid] = NADA
      BY <1>1, <3>1 DEF PCsDescFin, TypeOK, TiposTabla
    <3> QED
      BY <3>1, <3>2, <3>3 DEF PorTerminar, PCsConLista
  <2>5. CASE DescEspera(i)
    <3> DEFINE e == r.espera
               q == Head(e)
    <3>1. /\ e # <<>> /\ r.pc = "espera" /\ UNCHANGED <<mutexIOs, mapa>>
          /\ desconexion' = [desconexion EXCEPT ![i] =
               IF mapa[q] = NADA THEN [r EXCEPT !.espera = Tail(@)]
               ELSE [[r EXCEPT !.espera = Tail(@)]
                       EXCEPT !.pc = "fin_memoria", !.pid = q, !.estado = mapa[q].estado]]
      BY <2>5 DEF DescEspera, EnDesconexion, vars
    <3>2. \A p \in Pid : Esta(e, p) => p = q \/ Esta(Tail(e), p)
      <4>1. /\ Len(e) \in Nat /\ DOMAIN e = 1 .. Len(e) /\ q = e[1]
            /\ DOMAIN Tail(e) = 1 .. Len(e) - 1
            /\ \A k \in 1 .. Len(e) - 1 : Tail(e)[k] = e[k + 1]
        BY <1>1, <3>1
      <4>2. \A k \in 1 .. Len(e) : k = 1 \/ (k - 1 \in 1 .. Len(e) - 1 /\ (k - 1) + 1 = k)
        BY <4>1
      <4> HIDE DEF e, q
      <4>3. \A k \in 1 .. Len(e) : k = 1 \/ Tail(e)[k - 1] = e[k]
        BY <4>1, <4>2
      <4> QED
        BY <4>1, <4>2, <4>3 DEF Esta
    <3>3. /\ s.espera = Tail(e)
          /\ mapa[q] = NADA => s.pc = "espera"
          /\ mapa[q] # NADA => s.pc = "fin_memoria" /\ s.pid = q
      BY <1>1, <3>1 DEF RegistroDesconexion
    <3>4. r.pc \notin PCsDescFin
      BY <3>1 DEF PCsDescFin
    <3> HIDE DEF e, q, s
    <3>5. s.pc \in PCsConLista
      BY <3>3 DEF PCsConLista, PCsDescFin
    <3>6. ASSUME NEW p \in Pid, PorTerminar(i, p)
          PROVE  PorTerminar(i, p)' \/ mapa'[p] = NADA
      <4>1. Esta(e, p)
        BY <3>4, <3>6 DEF PorTerminar, e
      <4>2. CASE Esta(Tail(e), p)
        BY <3>3, <4>2 DEF PorTerminar, s
      <4>3. CASE p = q
        BY <3>1, <3>3, <4>3 DEF PorTerminar, PCsDescFin, s
      <4> QED
        BY <3>2, <4>1, <4>2, <4>3
    <3> QED
      BY <3>1, <3>5, <3>6
  <2> QED
    BY <2>2, <2>3, <2>4, <2>5
<1>5. ListaEsDuena'
  BY <1>1, <1>2, <1>4, DuenaAlDesconectar
<1>6. \A j \in Instancias : desconexion'[j].pc \in PCsConLista =>
        /\ desconexion[j].pc \in PCsConLista
        /\ \A p \in Pid : PorTerminar(j, p) => PorTerminar(j, p)' \/ mapa'[p] = NADA
  BY <1>1, <1>2, <1>4 DEF PorTerminar
<1> QED
  BY <1>1, <1>3, <1>5, <1>6, ColaSigue

\* The instance leaves the table when nobody of the queue lives, if it is the
\* last one.
LEMMA GuardarCola ==
  ASSUME InvDesconexion, InvCola, NEW i \in Instancias, DescGuardar(i)
  PROVE  InvCola'
<1> DEFINE d == NombreIO[i]
<1>1. /\ UNCHANGED <<esperaIO, pidCounter, mapa, manejador, finIO>>
      /\ desconexion[i].pc = "espera" /\ desconexion[i].espera = <<>>
      /\ instanciasIO' = [instanciasIO EXCEPT ![d] = Quitar(@, i)]
      /\ mutexIOs' = NADA /\ desconexion' = [desconexion EXCEPT ![i].pc = "apaga"]
  BY DEF DescGuardar, EnDesconexion
<1>2. /\ desconexion \in [Instancias -> RegistroDesconexion]
      /\ instanciasIO \in [NombresIO -> Seq(Instancias)] /\ d \in NombresIO
  BY ConstantesOK DEF InvDesconexion, InvTipos, TypeOK, TiposIO
<1>3. /\ desconexion'[i].pc = "apaga"
      /\ \A j \in Instancias \ {i} : desconexion'[j] = desconexion[j]
  BY <1>1, <1>2 DEF RegistroDesconexion
<1>4. ListaEsDuena'
  BY <1>1, <1>3, DuenaAlDesconectar DEF PCsConLista, PCsDescFin
<1>5. ColaContada'
  <2>1. \A j \in Instancias : desconexion'[j].pc \notin PCsConLista
    BY <1>1, <1>3, <1>4, DesconexionEsOtra DEF ListaEsDuena
  <2> QED
    BY <2>1 DEF ColaContada
<1>6. ColaMuerta'
  <2> SUFFICES ASSUME NEW f \in NombresIO, NEW p \in Pid, instanciasIO'[f] = <<>>,
                      Esta(esperaIO[f], p)
               PROVE  mapa[p] = NADA
    BY <1>1 DEF ColaMuerta
  <2>1. CASE instanciasIO[f] = <<>>
    BY <2>1 DEF InvCola, ColaMuerta
  <2>2. CASE instanciasIO[f] # <<>>
    <3>1. f = d /\ Quitar(instanciasIO[d], i) = <<>>
      BY <1>1, <1>2, <2>2
    <3>2. Len(instanciasIO[d]) = 1
      BY <1>2, <2>2, <3>1, QuitarDejaVacia
    <3>3. ~PorTerminar(i, p)
      BY <1>1 DEF PorTerminar, PCsDescFin, Esta
    <3> QED
      BY <1>1, <3>1, <3>2, <3>3 DEF InvCola, ColaContada, PCsConLista
  <2> QED
    BY <2>1, <2>2
<1>7. Creados'
  BY <1>1 DEF InvCola, Creados
<1> QED
  BY <1>4, <1>5, <1>6, <1>7 DEF InvCola

\* The end of an IO that finds no instance.
LEMMA SinInstanciaCola ==
  ASSUME InvDesconexion, InvCola, NEW i \in Instancias, FinIOSinInstancia(i)
  PROVE  InvCola'
<1>1. /\ UNCHANGED <<esperaIO, instanciasIO, pidCounter, mapa, manejador, desconexion>>
      /\ finIO[i].pc = "instancia" /\ mutexIOs' = NADA
      /\ finIO' = [finIO EXCEPT ![i] = SinFin]
  BY DEF FinIOSinInstancia
<1>2. finIO \in [Instancias -> RegistroFin] /\ pidCounter \in Nat
  BY ConstantesOK DEF InvDesconexion, InvTipos, TypeOK, TiposIO, TiposTabla
<1>3. /\ finIO'[i].pc = "inactivo"
      /\ \A j \in Instancias \ {i} : finIO'[j] = finIO[j]
  BY <1>1, <1>2 DEF SinFin
<1>4. ListaEsDuena'
  <2>1. /\ \A c \in CPUs : manejador[c].pc # "io_proceso"
        /\ \A j \in Instancias \ {i} : finIO[j].pc \notin {"proceso", "mueve", "instancia"}
        /\ \A j \in Instancias : desconexion[j].pc \notin PCsConLista
    BY <1>1, DesconexionEsOtra, DuenosDistintos DEF InvCola, ListaEsDuena
  <2> QED
    BY <1>1, <1>3, <2>1 DEF ListaEsDuena
<1> QED
  BY <1>1, <1>2, <1>4, ColaSigue DEF PorTerminar

LEMMA PasoInvCola ==
  ASSUME InvDesconexion, InvCola, [NextDesconexion]_todo PROVE InvCola'
<1>1. ASSUME PasoKernel \/ EntornoEnLinea, UNCHANGED desconexion PROVE InvCola'
  BY <1>1, PasoKernelCola
<1>2. ASSUME NEW i \in Instancias, PasoDesconexion(i) PROVE InvCola'
  BY <1>2, TomarListaCola, TerminarCola, GuardarCola, SinInstanciaCola
     DEF PasoDesconexion
<1>3. CASE UNCHANGED todo
  BY <1>3, ColaQuieta DEF todo, vars
<1> QED
  BY <1>1, <1>2, <1>3 DEF NextDesconexion

LEMMA InicioCola == ASSUME InitDesconexion PROVE InvCola
<1>1. \A i \in Instancias : desconexion[i].pc = "en_linea"
  BY DEF InitDesconexion, EnLinea
<1>2. ListaEsDuena
  BY <1>1 DEF InitDesconexion, Init, ListaEsDuena, SinSyscall, SinFin, PCsConLista,
              PCsDescFin
<1>3. \A d \in NombresIO, p \in Pid : ~Esta(esperaIO[d], p)
  BY DEF InitDesconexion, Init, Esta
<1>4. Creados
  BY <1>3 DEF InitDesconexion, Init, Creados, Pid
<1>5. \A i \in Instancias : desconexion[i].pc \notin PCsConLista
  BY <1>1 DEF PCsConLista, PCsDescFin
<1> QED
  BY <1>2, <1>3, <1>4, <1>5 DEF InvCola, ColaContada, ColaMuerta

\* A device without instances has no live process in its queue, however the
\* disconnections, the requests, the ends of IO and the handshakes interleave:
\* DesconexionIO ends everybody who waited with its last instance, and whoever
\* comes later finds no device.
THEOREM NadieEnColaMuertaSiempre == SpecDesconexion => []NadieEnColaMuerta
<1>1. InitDesconexion => InvCola
  BY InicioCola
<1>2. InvDesconexion /\ InvCola /\ [NextDesconexion]_todo => InvCola'
  BY PasoInvCola
<1>3. InvDesconexion /\ InvCola => NadieEnColaMuerta
  <2> SUFFICES ASSUME InvDesconexion, InvCola, NEW d \in NombresIO,
                      instanciasIO[d] = <<>>, NEW k \in DOMAIN esperaIO[d]
               PROVE  mapa[esperaIO[d][k]] = NADA
    BY DEF NadieEnColaMuerta
  <2>1. esperaIO[d] \in Seq(Pid)
    BY DEF InvDesconexion, InvTipos, TypeOK, TiposIO
  <2>2. esperaIO[d][k] \in Pid /\ Esta(esperaIO[d], esperaIO[d][k])
    BY <2>1 DEF Esta
  <2> QED
    BY <2>2 DEF InvCola, ColaMuerta
<1> QED
  BY <1>1, <1>2, <1>3, InvDesconexionSiempre, PTL DEF SpecDesconexion
=============================================================================
