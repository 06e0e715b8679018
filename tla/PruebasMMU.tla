----------------------------- MODULE PruebasMMU -----------------------------
(***************************************************************************)
(* For every number of CPUs, processes, pages, frames and places of TLB    *)
(* and cache:                                                              *)
(*   Spec => []IndicesFieles, in every configuration: the maps of TLB and  *)
(* cache, keyed by page alone, agree with the lists;                       *)
(*   Spec => []TablaAlcanza, in every configuration: page tables lead to   *)
(* the page asked for, by induction over levels, subtables and entries;    *)
(*   and, when the configurations are regular, Spec => []TiposMV,          *)
(* Spec => []AccesoPropio (frames are those of the process),               *)
(* Spec => []MemoriaLibre (the mutex of memory) and                        *)
(* Spec => CumpleEspacioUsuario (a page holds what was written last, and a *)
(* READ is answered with it).                                              *)
(*                                                                         *)
(* The invariant grows with each: InvMMU (lists and maps, the victim that  *)
(* is decided in one step and used in another), InvTiposMV (who each       *)
(* variable is about), InvAcceso (whose the frames are), InvLibre beside   *)
(* them and, with them in InvTodo, InvReparto and InvCopias (what each     *)
(* page and copy holds).                                                   *)
(***************************************************************************)
EXTENDS PropiedadesMV, SequenceTheorems, WellFoundedInduction, TLAPS

\* A sequence, of whatever.
Lista(s) == s \in Seq({s[i] : i \in DOMAIN s})

TipoTLB(t) ==
  /\ Lista(t.entradas) /\ t.fifo \in Nat
  /\ t.indice \in [Pagina -> Nat]
  /\ \A i \in DOMAIN t.entradas : t.entradas[i].orden \in Nat

TipoCache(m) ==
  /\ Lista(m.entradas) /\ m.aguja \in Nat
  /\ m.indice \in [Pagina -> Nat]
  /\ \A i \in DOMAIN m.entradas : m.entradas[i].pagina \in Pagina

TLBBuena(t, cap) == TipoTLB(t) /\ TLBFiel(t, cap)

CacheBuena(m, cap) == TipoCache(m) /\ CacheFiel(m, cap)
---------------------------------------------------------------------------
(* Sequences. *)

LEMMA ListaLargo ==
  ASSUME NEW s, Lista(s) PROVE Len(s) \in Nat /\ DOMAIN s = 1 .. Len(s)
BY LenProperties DEF Lista

LEMMA FuncionEsLista ==
  ASSUME NEW n \in Nat, NEW s, DOMAIN s = 1 .. n, s = [i \in DOMAIN s |-> s[i]]
  PROVE  Lista(s) /\ Len(s) = n
<1> DEFINE S == {s[i] : i \in DOMAIN s}
<1>1. s \in [1 .. n -> S]
  <2>1. \A i \in 1 .. n : s[i] \in S
    OBVIOUS
  <2> QED
    BY <2>1
<1> HIDE DEF S
<1>2. s \in Seq(S)
  BY <1>1, SeqDef
<1>3. Len(s) = n
  BY <1>1, <1>2, LenProperties
<1> QED
  BY <1>2, <1>3 DEF Lista, S

LEMMA AppendEsLista ==
  ASSUME NEW s, Lista(s), NEW e
  PROVE  /\ Lista(Append(s, e)) /\ Len(Append(s, e)) = Len(s) + 1
         /\ \A i \in DOMAIN s : Append(s, e)[i] = s[i]
         /\ Append(s, e)[Len(s) + 1] = e
<1> DEFINE S == {s[i] : i \in DOMAIN s} \cup {e}
           a == Append(s, e)
<1>1. s \in Seq(S)
  BY SeqMonotonic DEF Lista
<1>2. e \in S
  OBVIOUS
<1> HIDE DEF S
<1>3. /\ a \in Seq(S) /\ Len(a) = Len(s) + 1
      /\ \A i \in 1 .. Len(s) : a[i] = s[i]
      /\ a[Len(s) + 1] = e
  BY <1>1, <1>2, AppendProperties
<1>4. Len(a) \in Nat /\ a \in [1 .. Len(a) -> S]
  BY <1>3, LenProperties
<1>5. DOMAIN a = 1 .. Len(a) /\ a = [i \in DOMAIN a |-> a[i]]
  BY <1>4
<1>6. Lista(a)
  BY <1>4, <1>5, FuncionEsLista
<1> QED
  BY <1>3, <1>6, ListaLargo

LEMMA ExceptEsLista ==
  ASSUME NEW s, Lista(s), NEW v, NEW e
  PROVE  /\ Lista([s EXCEPT ![v] = e]) /\ Len([s EXCEPT ![v] = e]) = Len(s)
         /\ DOMAIN [s EXCEPT ![v] = e] = DOMAIN s
         /\ \A i \in DOMAIN s : [s EXCEPT ![v] = e][i] = IF i = v THEN e ELSE s[i]
<1> DEFINE a == [s EXCEPT ![v] = e]
<1>1. Len(s) \in Nat /\ DOMAIN s = 1 .. Len(s)
  BY ListaLargo
<1>2. DOMAIN a = DOMAIN s /\ a = [i \in DOMAIN a |-> a[i]]
  OBVIOUS
<1>3. Lista(a) /\ Len(a) = Len(s)
  BY <1>1, <1>2, FuncionEsLista
<1> QED
  BY <1>2, <1>3

\* A set of numbers that is not empty has a least one.
LEMMA MinimoExiste ==
  ASSUME NEW S, S \subseteq Nat, S # {}
  PROVE  \E k \in S : \A j \in S : k <= j
<1> DEFINE R == {ss \in Nat \X Nat : ss[1] < ss[2]}
<1>1. IsWellFoundedOn(R, Nat)
  <2>1. OpToRel(<, Nat) = R
    BY Zenon DEF OpToRel
  <2> QED
    BY <2>1, NatLessThanWellFounded
<1>2. \A j, k \in Nat : j < k => <<j, k>> \in R
  OBVIOUS
<1> HIDE DEF R
<1>3. PICK k \in S : \A j \in S : ~ (<<j, k>> \in R)
  BY <1>1, WFMin
<1>4. \A j \in S : k <= j
  <2> TAKE j \in S
  <2>1. j \in Nat /\ k \in Nat
    OBVIOUS
  <2>2. ~ (j < k)
    BY <1>2, <1>3, <2>1, Zenon
  <2> QED
    BY <2>1, <2>2
<1> QED
  BY <1>4

LEMMA MinEsta ==
  ASSUME NEW S, S \subseteq Nat, S # {} PROVE Min(S) \in S
BY MinimoExiste DEF Min
---------------------------------------------------------------------------
(* The page table. *)

\* Induction on the numbers, over a set.
LEMMA Induccion ==
  ASSUME NEW S, 0 \in S, \A n \in Nat : n \in S => n + 1 \in S
  PROVE  Nat \subseteq S
<1> SUFFICES ASSUME Nat \ S # {} PROVE FALSE
  OBVIOUS
<1>1. PICK k \in Nat \ S : \A j \in Nat \ S : k <= j
  BY MinimoExiste
<1>2. k # 0 /\ k - 1 \in Nat
  OBVIOUS
<1>3. k - 1 \in S
  BY <1>1, <1>2
<1> QED
  BY <1>2, <1>3

\* The inner loop of ExtraerEntradasYDesplazamiento computes something.
LEMMA ExpExiste ==
  ASSUME NEW e, NEW m \in Nat
  PROVE  \E h : h = [i \in 0 .. m |-> IF i = 0 THEN 1 ELSE h[i - 1] * e]
<1> DEFINE B(a) == a * e
           Es(j, h) == h = [i \in 0 .. j |-> IF i = 0 THEN 1 ELSE B(h[i - 1])]
           S == {j \in Nat : \E h : Es(j, h)}
<1> HIDE DEF B
<1>1. 0 \in S
  <2>1. Es(0, [i \in 0 .. 0 |-> 1])
    OBVIOUS
  <2> QED
    BY <2>1
<1>2. ASSUME NEW j \in Nat, j \in S PROVE j + 1 \in S
  <2>1. PICK h : Es(j, h)
    BY <1>2
  <2> DEFINE g == [i \in 0 .. j + 1 |-> IF i <= j THEN h[i] ELSE B(h[j])]
  <2>2. \A i \in 0 .. j + 1 : g[i] = IF i = 0 THEN 1 ELSE B(g[i - 1])
    <3>1. h[0] = 1 /\ \A i \in 1 .. j : h[i] = B(h[i - 1])
      BY <2>1
    <3> QED
      BY <3>1
  <2>3. Es(j + 1, g)
    BY <2>2
  <2> HIDE DEF g, Es
  <2> QED
    BY <2>3
<1>3. m \in S
  BY <1>1, <1>2, Induccion
<1> QED
  BY <1>3 DEF B

\* What it computes is the same whatever the loop it is a part of.
LEMMA ExpUnico ==
  ASSUME NEW e, NEW m \in Nat, NEW h,
         h = [i \in 0 .. m |-> IF i = 0 THEN 1 ELSE h[i - 1] * e], NEW j \in 0 .. m
  PROVE  Exp(e, j) = h[j]
<1> DEFINE g == CHOOSE h1 : h1 = [i \in 0 .. j |-> IF i = 0 THEN 1 ELSE h1[i - 1] * e]
<1>1. g = [i \in 0 .. j |-> IF i = 0 THEN 1 ELSE g[i - 1] * e]
  <2>1. j \in Nat
    OBVIOUS
  <2> QED
    BY <2>1, ExpExiste
<1>2. Exp(e, j) = g[j]
  BY DEF Exp
<1> HIDE DEF g
<1> DEFINE S == {i \in Nat : i <= j => g[i] = h[i]}
<1>3. 0 \in S
  BY <1>1
<1>4. ASSUME NEW i \in Nat, i \in S PROVE i + 1 \in S
  <2> SUFFICES ASSUME i + 1 <= j PROVE g[i + 1] = h[i + 1]
    OBVIOUS
  <2>1. g[i] = h[i]
    BY <1>4
  <2>2. g[i + 1] = g[i] * e
    BY <1>1
  <2>3. h[i + 1] = h[i] * e
    OBVIOUS
  <2> QED
    BY <2>1, <2>2, <2>3
<1>5. Nat \subseteq S
  <2> HIDE DEF S
  <2> QED
    BY <1>3, <1>4, Induccion
<1>6. j \in Nat /\ j <= j
  OBVIOUS
<1> QED
  BY <1>2, <1>5, <1>6

LEMMA ExpCero == ASSUME NEW e PROVE Exp(e, 0) = 1
<1>1. PICK h : h = [i \in 0 .. 0 |-> IF i = 0 THEN 1 ELSE h[i - 1] * e]
  BY ExpExiste
<1>2. Exp(e, 0) = h[0]
  BY <1>1, ExpUnico
<1> QED
  BY <1>1, <1>2

LEMMA ExpSiguiente ==
  ASSUME NEW e, NEW m \in Nat PROVE Exp(e, m + 1) = Exp(e, m) * e
<1>0. m + 1 \in Nat
  OBVIOUS
<1>1. PICK h : h = [i \in 0 .. m + 1 |-> IF i = 0 THEN 1 ELSE h[i - 1] * e]
  BY <1>0, ExpExiste
<1>2. Exp(e, m + 1) = h[m + 1] /\ Exp(e, m) = h[m]
  BY <1>1, ExpUnico
<1> QED
  BY <1>1, <1>2

LEMMA ExpTipo ==
  ASSUME NEW e \in Nat \ {0}, NEW m \in Nat PROVE Exp(e, m) \in Nat \ {0}
<1> DEFINE S == {j \in Nat : Exp(e, j) \in Nat \ {0}}
<1>1. 0 \in S
  BY ExpCero
<1>2. ASSUME NEW j \in Nat, j \in S PROVE j + 1 \in S
  <2>1. Exp(e, j) \in Nat \ {0} /\ Exp(e, j + 1) = Exp(e, j) * e
    BY <1>2, ExpSiguiente
  <2>2. \A a, b \in Nat \ {0} : a * b \in Nat \ {0}
    OBVIOUS
  <2> QED
    BY <2>1, <2>2
<1>3. m \in S
  BY <1>1, <1>2, Induccion
<1> QED
  BY <1>3

\* Division.
LEMMA Division ==
  ASSUME NEW a \in Nat, NEW b \in Nat \ {0}
  PROVE  /\ a \div b \in Nat /\ a % b \in 0 .. b - 1
         /\ a = (b * (a \div b)) + (a % b)
<1>1. a \div b \in Nat
  OBVIOUS
<1>2. a % b \in 0 .. b - 1
  OBVIOUS
<1>3. a = (b * (a \div b)) + (a % b)
  OBVIOUS
<1> QED
  BY <1>1, <1>2, <1>3

LEMMA DivisionMenor ==
  ASSUME NEW a \in Nat, NEW b \in Nat \ {0}, NEW c \in Nat, a < b * c
  PROVE  a \div b < c
OBVIOUS

LEMMA ProductoMonotono ==
  ASSUME NEW a \in Nat, NEW b \in Nat, NEW c \in Nat, a <= b PROVE a * c <= b * c
OBVIOUS

LEMMA TechoMayor ==
  ASSUME NEW a \in Nat, NEW b \in Nat \ {0}, NEW q \in Nat
  PROVE  /\ Techo(a, b) \in Nat
         /\ q < Techo(a, b) <=> q * b < a
<1> DEFINE t == Techo(a, b)
           r == (a + b - 1) % b
<1>1. t \in Nat /\ r \in 0 .. b - 1 /\ a + b - 1 = (b * t) + r
  <2>1. a + b - 1 \in Nat
    OBVIOUS
  <2> QED
    BY <2>1, Division DEF Techo
<1> HIDE DEF t, r
<1>2. ASSUME q < t PROVE q * b < a
  <2>1. (q + 1) * b <= t * b
    BY <1>1, <1>2, ProductoMonotono
  <2>2. (q + 1) * b = (q * b) + b
    OBVIOUS
  <2>3. t * b = b * t
    BY <1>1
  <2> QED
    BY <1>1, <2>1, <2>2, <2>3
<1>3. ASSUME ~ (q < t) PROVE ~ (q * b < a)
  <2>1. t * b <= q * b
    BY <1>1, <1>3, ProductoMonotono
  <2> QED
    BY <1>1, <2>1
<1> QED
  BY <1>1, <1>2, <1>3 DEF t

\* A sequence and one more element.
LEMMA ListaAgregada ==
  ASSUME NEW n \in Nat, NEW f
  PROVE  Append([x \in 1 .. n |-> f[x]], f[n + 1]) = [x \in 1 .. n + 1 |-> f[x]]
<1> DEFINE A == {f[x] : x \in 1 .. n + 1}
           s == [x \in 1 .. n |-> f[x]]
           t == [x \in 1 .. n + 1 |-> f[x]]
<1>1. s \in Seq(A) /\ Len(s) = n
  <2>1. s \in [1 .. n -> A]
    OBVIOUS
  <2> QED
    BY <2>1, LenProperties
<1>2. f[n + 1] \in A
  OBVIOUS
<1>3. Append(s, f[n + 1]) \in Seq(A) /\ Len(Append(s, f[n + 1])) = n + 1
  BY <1>1, <1>2, AppendProperties
<1>4. \A i \in 1 .. n + 1 : Append(s, f[n + 1])[i] = t[i]
  BY <1>1, <1>2, AppendProperties
<1>5. t \in Seq(A) /\ Len(t) = n + 1
  <2>1. t \in [1 .. n + 1 -> A] /\ n + 1 \in Nat
    OBVIOUS
  <2> QED
    BY <2>1, LenProperties
<1>6. Append(s, f[n + 1]) = t
  <2> HIDE DEF s, t, A
  <2> QED
    BY <1>3, <1>4, <1>5, SeqEqual
<1> QED
  BY <1>6

\* Where each turn of the loop of construirNivel ends.
Encadena(cant, sub, pos) == \A i \in 0 .. cant - 1 : sub[pos[i]].puestas = pos[i + 1]

\* The loop, when that is known.
LEMMA BucleHecho ==
  ASSUME NEW cant \in Nat, NEW sub, NEW pos, Encadena(cant, sub, pos)
  PROVE  /\ Len(Bucle(cant, pos[0], sub).tabla) = cant
         /\ \A x \in 1 .. cant : Bucle(cant, pos[0], sub).tabla[x] = sub[pos[x - 1]].tabla
         /\ Bucle(cant, pos[0], sub).puestas = pos[cant]
<1> DEFINE f == [x \in 1 .. cant |-> sub[pos[x - 1]].tabla]
           g == [i \in 0 .. cant |-> [tabla |-> [x \in 1 .. i |-> f[x]], puestas |-> pos[i]]]
           Turno(antes) ==
             [tabla |-> Append(antes.tabla, sub[antes.puestas].tabla),
              puestas |-> sub[antes.puestas].puestas]
           Es(h) ==
             h = [i \in 0 .. cant |->
                    IF i = 0 THEN [tabla |-> <<>>, puestas |-> pos[0]] ELSE Turno(h[i - 1])]
           h == CHOOSE h1 : Es(h1)
<1>1. \A i \in 1 .. cant : g[i] = Turno(g[i - 1])
  <2> TAKE i \in 1 .. cant
  <2> DEFINE j == i - 1
  <2>1. j \in Nat /\ j + 1 = i /\ j = i - 1 /\ j \in 0 .. cant - 1 /\ j \in 0 .. cant
    OBVIOUS
  <2>2. g[j].tabla = [x \in 1 .. j |-> f[x]] /\ g[j].puestas = pos[j]
    BY <2>1
  <2>3. sub[pos[j]].puestas = pos[i] /\ sub[pos[j]].tabla = f[i]
    BY <2>1 DEF Encadena
  <2>4. Append([x \in 1 .. j |-> f[x]], f[j + 1]) = [x \in 1 .. j + 1 |-> f[x]]
    <3> HIDE DEF f, j
    <3> QED
      BY <2>1, ListaAgregada
  <2>5. g[i] = [tabla |-> [x \in 1 .. i |-> f[x]], puestas |-> pos[i]]
    OBVIOUS
  <2> HIDE DEF g, f, j
  <2>6. Append(g[j].tabla, sub[g[j].puestas].tabla) = [x \in 1 .. i |-> f[x]]
    BY <2>1, <2>2, <2>3, <2>4
  <2>7. sub[g[j].puestas].puestas = pos[i]
    BY <2>2, <2>3
  <2>8. Turno(g[j]) = [tabla |-> [x \in 1 .. i |-> f[x]], puestas |-> pos[i]]
    BY <2>6, <2>7, Zenon
  <2> QED
    BY <2>1, <2>5, <2>8, Zenon
<1>2. g[0] = [tabla |-> <<>>, puestas |-> pos[0]]
  <2>1. [x \in 1 .. 0 |-> f[x]] = <<>>
    <3> HIDE DEF f
    <3> QED
      OBVIOUS
  <2> QED
    BY <2>1
<1>3. Es(g)
  <2>1. g = [i \in 0 .. cant |-> g[i]]
    OBVIOUS
  <2> HIDE DEF Turno, g
  <2>2. g = [i \in 0 .. cant |->
               IF i = 0 THEN [tabla |-> <<>>, puestas |-> pos[0]] ELSE Turno(g[i - 1])]
    <3>1. \A i \in 0 .. cant :
            g[i] = IF i = 0 THEN [tabla |-> <<>>, puestas |-> pos[0]] ELSE Turno(g[i - 1])
      <4> TAKE i \in 0 .. cant
      <4>1. CASE i = 0
        BY <1>2, <4>1
      <4>2. CASE i # 0
        <5>1. i \in 1 .. cant
          BY <4>2
        <5> QED
          BY <1>1, <4>2, <5>1
      <4> QED
        BY <4>1, <4>2
    <3> QED
      BY <2>1, <3>1
  <2> QED
    BY <2>2
<1>4. Es(h)
  <2> HIDE DEF Es, g
  <2> QED
    BY <1>3
<1>5. Bucle(cant, pos[0], sub) = h[cant]
  BY DEF Bucle
<1>6. h[0] = g[0] /\ \A i \in 1 .. cant : h[i] = Turno(h[i - 1])
  <2> HIDE DEF Turno, h, g
  <2> QED
    BY <1>2, <1>4
<1> HIDE DEF h, g, Turno
<1> DEFINE S == {i \in Nat : i <= cant => h[i] = g[i]}
<1>7. 0 \in S
  BY <1>6
<1>8. ASSUME NEW i \in Nat, i \in S PROVE i + 1 \in S
  <2> SUFFICES ASSUME i + 1 <= cant PROVE h[i + 1] = g[i + 1]
    OBVIOUS
  <2>1. h[i + 1] = Turno(h[i]) /\ g[i + 1] = Turno(g[i])
    BY <1>1, <1>6
  <2> QED
    BY <1>8, <2>1
<1>9. Nat \subseteq S
  <2> HIDE DEF S
  <2> QED
    BY <1>7, <1>8, Induccion
<1>10. h[cant] = g[cant]
  BY <1>9
<1>11. g[cant].tabla = f /\ g[cant].puestas = pos[cant]
  <2> USE DEF g
  <2>1. g[cant] = [tabla |-> [x \in 1 .. cant |-> f[x]], puestas |-> pos[cant]]
    OBVIOUS
  <2>2. [x \in 1 .. cant |-> f[x]] = f
    OBVIOUS
  <2> HIDE DEF f, g
  <2> QED
    BY <2>1, <2>2
<1>12. Len(f) = cant
  <2>1. DOMAIN f = 1 .. cant /\ f = [i \in DOMAIN f |-> f[i]]
    OBVIOUS
  <2> HIDE DEF f
  <2> QED
    BY <2>1, FuncionEsLista
<1>13. \A x \in 1 .. cant : f[x] = sub[pos[x - 1]].tabla
  OBVIOUS
<1> HIDE DEF f
<1> QED
  BY <1>5, <1>10, <1>11, <1>12, <1>13

\* construirNivel, level by level.
LEMMA NivelRegla ==
  ASSUME NEW niveles \in Nat, NEW e, NEW n \in Nat, NEW d \in 0 .. n
  PROVE  /\ Nivel(niveles, e, n)[0][d].tabla = d
         /\ Nivel(niveles, e, n)[0][d].puestas = d + 1
         /\ \A l \in 1 .. niveles :
              Nivel(niveles, e, n)[l][d] =
                Bucle(EntradasDelNivel(l, e, n - d), d, Nivel(niveles, e, n)[l - 1])
<1> DEFINE nivel == Nivel(niveles, e, n)
<1> DEFINE B(l, sub, j1) ==
             IF l = 0 THEN [tabla |-> j1, puestas |-> j1 + 1]
             ELSE Bucle(EntradasDelNivel(l, e, n - j1), j1, sub)
           Es(j, h) == h = [l \in 0 .. j |-> [j1 \in 0 .. n |-> B(l, h[l - 1], j1)]]
           S == {j \in Nat : \E h : Es(j, h)}
<1>1. 0 \in S
  <2> DEFINE g == [l \in 0 .. 0 |-> [j1 \in 0 .. n |-> B(l, 0, j1)]]
  <2>1. \A l, x, y, j1 : l = 0 => B(l, x, j1) = B(l, y, j1)
    BY Zenon
  <2> HIDE DEF B
  <2>2. Es(0, g)
    <3>1. \A l \in 0 .. 0 : g[l] = [j1 \in 0 .. n |-> B(l, g[l - 1], j1)]
      BY <2>1
    <3>2. g = [l \in 0 .. 0 |-> g[l]]
      OBVIOUS
    <3> HIDE DEF g
    <3> QED
      BY <3>1, <3>2
  <2> HIDE DEF g, Es
  <2> QED
    BY <2>2
<1>2. ASSUME NEW j \in Nat, j \in S PROVE j + 1 \in S
  <2> HIDE DEF B
  <2>1. PICK h : Es(j, h)
    BY <1>2
  <2> DEFINE g == [l \in 0 .. j + 1 |->
                     IF l <= j THEN h[l] ELSE [j1 \in 0 .. n |-> B(l, h[j], j1)]]
  <2>2. \A l \in 0 .. j + 1 : g[l] = [j1 \in 0 .. n |-> B(l, g[l - 1], j1)]
    <3> TAKE l \in 0 .. j + 1
    <3>1. CASE l = 0
      <4>1. h[l] = [j1 \in 0 .. n |-> B(l, h[l - 1], j1)] /\ g[l] = h[l]
        BY <2>1, <3>1
      <4>2. \A x, y, j1 : B(l, x, j1) = B(l, y, j1)
        BY <3>1, Zenon DEF B
      <4> HIDE DEF g
      <4>3. \A j1 \in 0 .. n : B(l, h[l - 1], j1) = B(l, g[l - 1], j1)
        BY <4>2
      <4>4. [j1 \in 0 .. n |-> B(l, h[l - 1], j1)] = [j1 \in 0 .. n |-> B(l, g[l - 1], j1)]
        BY <4>3, Zenon
      <4> QED
        BY <4>1, <4>4, Zenon
    <3>2. CASE l \in 1 .. j
      <4>0. l \in 0 .. j /\ l <= j
        BY <3>2
      <4>1. h[l] = [j1 \in 0 .. n |-> B(l, h[l - 1], j1)] /\ g[l] = h[l]
        BY <2>1, <4>0, Zenon
      <4>2. g[l - 1] = h[l - 1]
        BY <3>2
      <4> QED
        BY <4>1, <4>2
    <3>3. CASE l = j + 1
      <4>1. g[l] = [j1 \in 0 .. n |-> B(l, h[j], j1)] /\ g[l - 1] = h[j]
        BY <3>3
      <4> QED
        BY <4>1
    <3> QED
      BY <3>1, <3>2, <3>3
  <2>3. Es(j + 1, g)
    <3>1. g = [l \in 0 .. j + 1 |-> g[l]]
      OBVIOUS
    <3> HIDE DEF g
    <3> QED
      BY <2>2, <3>1
  <2> HIDE DEF g, Es
  <2> QED
    BY <2>3
<1>3. niveles \in S
  <2> HIDE DEF S
  <2> QED
    BY <1>1, <1>2, Induccion
<1>4. nivel = CHOOSE h : Es(niveles, h)
  BY DEF Nivel
<1>5. Es(niveles, nivel)
  <2> HIDE DEF Es, nivel
  <2> QED
    BY <1>3, <1>4
<1> HIDE DEF B, nivel
<1>6. \A l \in 0 .. niveles : nivel[l][d] = B(l, nivel[l - 1], d)
  <2>1. \A l \in 0 .. niveles : nivel[l] = [j1 \in 0 .. n |-> B(l, nivel[l - 1], j1)]
    BY <1>5, Zenon
  <2> QED
    BY <2>1, Zenon
<1>7. nivel[0][d] = [tabla |-> d, puestas |-> d + 1]
  <2>1. 0 \in 0 .. niveles
    OBVIOUS
  <2>2. \A x, j1 : B(0, x, j1) = [tabla |-> j1, puestas |-> j1 + 1]
    BY Zenon DEF B
  <2> QED
    BY <1>6, <2>1, <2>2, Zenon
<1>8. ASSUME NEW l \in 1 .. niveles
      PROVE  nivel[l][d] = Bucle(EntradasDelNivel(l, e, n - d), d, nivel[l - 1])
  <2>1. l \in 0 .. niveles /\ l # 0
    OBVIOUS
  <2>2. \A x : B(l, x, d) = Bucle(EntradasDelNivel(l, e, n - d), d, x)
    BY <2>1, Zenon DEF B
  <2> QED
    BY <1>6, <2>1, <2>2, Zenon
<1>9. nivel[0][d].tabla = d /\ nivel[0][d].puestas = d + 1
  BY <1>7
<1> QED
  BY <1>8, <1>9 DEF nivel

\* Pages that fit.
Menor(a, b) == IF a <= b THEN a ELSE b

LEMMA MinDeDos ==
  ASSUME NEW a \in Nat, NEW b \in Nat PROVE Min({a, b}) = Menor(a, b)
<1>1. Min({a, b}) \in {a, b} /\ \A x \in {a, b} : Min({a, b}) <= x
  BY DEF Min
<1> QED
  BY <1>1 DEF Menor

\* A table of level 1: its pages, one after another.
FormaUno(niveles, e, n, d) ==
  /\ Len(Nivel(niveles, e, n)[1][d].tabla) = Menor(n - d, e)
  /\ \A x \in 1 .. Menor(n - d, e) : Nivel(niveles, e, n)[1][d].tabla[x] = d + x - 1
  /\ Nivel(niveles, e, n)[1][d].puestas = d + Menor(n - d, e)

LEMMA NivelUno ==
  ASSUME NEW niveles \in Nat \ {0}, NEW e \in Nat \ {0}, NEW n \in Nat, NEW d \in 0 .. n
  PROVE  FormaUno(niveles, e, n, d)
<1> DEFINE nivel == Nivel(niveles, e, n)
           cant == Menor(n - d, e)
           sub == nivel[0]
           pos == [i \in 0 .. cant |-> d + i]
<1>1. cant \in Nat /\ d + cant <= n /\ n - d \in Nat /\ niveles \in Nat
  BY DEF Menor
<1>2. nivel[1][d] = Bucle(cant, d, sub)
  <2>1. 1 \in 1 .. niveles /\ 1 - 1 = 0
    OBVIOUS
  <2>2. EntradasDelNivel(1, e, n - d) = cant
    BY <1>1, MinDeDos DEF EntradasDelNivel
  <2> HIDE DEF cant
  <2> QED
    BY <1>1, <2>1, <2>2, NivelRegla
<1>3. ASSUME NEW j \in 0 .. n PROVE sub[j].tabla = j /\ sub[j].puestas = j + 1
  BY <1>1, NivelRegla
<1> HIDE DEF cant, sub, nivel
<1>4. Encadena(cant, sub, pos)
  BY <1>1, <1>3 DEF Encadena
<1>5. pos[0] = d /\ pos[cant] = d + cant
  BY <1>1
<1>6. \A x \in 1 .. cant : sub[pos[x - 1]].tabla = d + x - 1
  BY <1>1, <1>3
<1> HIDE DEF pos
<1>7. /\ Len(Bucle(cant, pos[0], sub).tabla) = cant
      /\ \A x \in 1 .. cant : Bucle(cant, pos[0], sub).tabla[x] = sub[pos[x - 1]].tabla
      /\ Bucle(cant, pos[0], sub).puestas = pos[cant]
  BY <1>1, <1>4, BucleHecho
<1> QED
  BY <1>2, <1>5, <1>6, <1>7 DEF cant, nivel, FormaUno

\* A table of level 2: tables of e pages, until there are no more pages.
FormaDos(niveles, e, n, d) ==
  /\ Len(Nivel(niveles, e, n)[2][d].tabla) = Techo(n - d, e)
  /\ \A x \in 1 .. Techo(n - d, e) :
       Nivel(niveles, e, n)[2][d].tabla[x] =
         Nivel(niveles, e, n)[1][Menor(n, d + (x - 1) * e)].tabla
  /\ Nivel(niveles, e, n)[2][d].puestas = n

LEMMA NivelDos ==
  ASSUME NEW niveles \in Nat, niveles >= 2, NEW e \in Nat \ {0}, NEW n \in Nat,
         NEW d \in 0 .. n
  PROVE  FormaDos(niveles, e, n, d)
<1> DEFINE nivel == Nivel(niveles, e, n)
           cant == Techo(n - d, e)
           sub == nivel[1]
           pos == [i \in 0 .. cant |-> Menor(n, d + i * e)]
<1>1. n - d \in Nat /\ cant \in Nat
  BY TechoMayor
<1>2. nivel[2][d] = Bucle(cant, d, sub)
  <2>1. 2 \in 1 .. niveles /\ 2 - 1 = 1
    OBVIOUS
  <2>2. EntradasDelNivel(2, e, n - d) = cant
    BY DEF EntradasDelNivel
  <2> HIDE DEF cant
  <2> QED
    BY <2>1, <2>2, NivelRegla
<1>3. \A q \in Nat : q < cant <=> q * e < n - d
  BY <1>1, TechoMayor
<1>4. ASSUME NEW j \in 0 .. n PROVE sub[j].puestas = j + Menor(n - j, e)
  <2>1. niveles \in Nat \ {0}
    OBVIOUS
  <2> QED
    BY <2>1, NivelUno DEF FormaUno
<1> HIDE DEF cant, sub, nivel
<1>5. ASSUME NEW i \in 0 .. cant - 1 PROVE sub[pos[i]].puestas = pos[i + 1]
  <2>1. i * e < n - d /\ i * e \in Nat /\ (i + 1) * e = i * e + e
    BY <1>1, <1>3
  <2>2. pos[i] = d + i * e /\ pos[i] \in 0 .. n
    BY <2>1, <1>1 DEF Menor
  <2>3. pos[i + 1] = Menor(n, d + i * e + e)
    BY <2>1, <1>1
  <2> HIDE DEF pos
  <2>4. sub[pos[i]].puestas = pos[i] + Menor(n - pos[i], e)
    BY <1>4, <2>2
  <2> QED
    BY <2>1, <2>2, <2>3, <2>4 DEF Menor
<1>6. pos[0] = d /\ pos[cant] = n
  <2>1. cant * e >= n - d /\ cant * e \in Nat
    BY <1>1, <1>3
  <2>2. pos[0] = Menor(n, d + 0 * e) /\ pos[cant] = Menor(n, d + cant * e)
    BY <1>1
  <2> HIDE DEF pos
  <2> QED
    BY <1>1, <2>1, <2>2 DEF Menor
<1>7. \A x \in 1 .. cant : pos[x - 1] = Menor(n, d + (x - 1) * e)
  BY <1>1
<1> HIDE DEF pos
<1>8. /\ Len(Bucle(cant, pos[0], sub).tabla) = cant
      /\ \A x \in 1 .. cant : Bucle(cant, pos[0], sub).tabla[x] = sub[pos[x - 1]].tabla
      /\ Bucle(cant, pos[0], sub).puestas = pos[cant]
  BY <1>1, <1>5, BucleHecho DEF Encadena
<1> QED
  BY <1>2, <1>6, <1>7, <1>8 DEF cant, sub, nivel, FormaDos

\* Every table of a level places all the pages that are left.
Completa(niveles, e, n, l) == \A j \in 0 .. n : Nivel(niveles, e, n)[l][j].puestas = n

\* Those of the higher levels place every page in their first subtable.
FormaAlta(niveles, e, n, l, d) ==
  /\ Len(Nivel(niveles, e, n)[l][d].tabla) = Techo(n - d, e)
  /\ \A x \in 1 .. Techo(n - d, e) :
       /\ x = 1 => Nivel(niveles, e, n)[l][d].tabla[x] = Nivel(niveles, e, n)[l - 1][d].tabla
       /\ x # 1 => Nivel(niveles, e, n)[l][d].tabla[x] = Nivel(niveles, e, n)[l - 1][n].tabla
  /\ Nivel(niveles, e, n)[l][d].puestas = n

\* What a level of NivelRegla and BucleHecho say, by name.
EsBucle(niveles, e, n, l, d) ==
  Nivel(niveles, e, n)[l][d] =
    Bucle(EntradasDelNivel(l, e, n - d), d, Nivel(niveles, e, n)[l - 1])

LEMMA NivelEsBucle ==
  ASSUME NEW niveles \in Nat, NEW e, NEW n \in Nat, NEW d \in 0 .. n, NEW l \in 1 .. niveles
  PROVE  EsBucle(niveles, e, n, l, d)
BY NivelRegla DEF EsBucle

BucleDa(cant, sub, pos) ==
  /\ Len(Bucle(cant, pos[0], sub).tabla) = cant
  /\ \A x \in 1 .. cant : Bucle(cant, pos[0], sub).tabla[x] = sub[pos[x - 1]].tabla
  /\ Bucle(cant, pos[0], sub).puestas = pos[cant]

LEMMA BucleEncadenado ==
  ASSUME NEW cant \in Nat, NEW sub, NEW pos, Encadena(cant, sub, pos)
  PROVE  BucleDa(cant, sub, pos)
BY BucleHecho DEF BucleDa

LEMMA NivelAlto ==
  ASSUME NEW niveles \in Nat, NEW e \in Nat \ {0}, NEW n \in Nat, NEW l \in 3 .. niveles,
         NEW d \in 0 .. n, Completa(niveles, e, n, l - 1)
  PROVE  FormaAlta(niveles, e, n, l, d)
<1> DEFINE nivel == Nivel(niveles, e, n)
           cant == Techo(n - d, e)
           sub == nivel[l - 1]
           pos == [i \in 0 .. cant |-> IF i = 0 THEN d ELSE n]
<1>0. n - d \in Nat
  OBVIOUS
<1>1. n - d \in Nat /\ cant \in Nat
  BY <1>0, TechoMayor
<1>2. nivel[l][d] = Bucle(cant, d, sub)
  <2>1. l \in 1 .. niveles
    OBVIOUS
  <2>2. EntradasDelNivel(l, e, n - d) = cant
    BY DEF EntradasDelNivel
  <2>3. EsBucle(niveles, e, n, l, d)
    BY <2>1, NivelEsBucle
  <2> HIDE DEF cant
  <2> QED
    BY <2>2, <2>3 DEF EsBucle
<1>3. 0 < cant <=> 0 * e < n - d
  BY <1>1, TechoMayor
<1> HIDE DEF cant
<1>4. \A i \in 0 .. cant - 1 : sub[pos[i]].puestas = pos[i + 1]
  BY <1>1 DEF Completa
<1>5. pos[0] = d /\ pos[cant] = n
  BY <1>1, <1>3
<1>6. \A x \in 1 .. cant : pos[x - 1] = IF x = 1 THEN d ELSE n
  BY <1>1
<1> HIDE DEF pos, sub, nivel
<1>7. BucleDa(cant, sub, pos)
  <2>1. Encadena(cant, sub, pos)
    BY <1>4 DEF Encadena
  <2> QED
    BY <1>1, <2>1, BucleEncadenado
<1> QED
  BY <1>2, <1>5, <1>6, <1>7 DEF cant, sub, nivel, FormaAlta, BucleDa

LEMMA NivelesAltos ==
  ASSUME NEW niveles \in Nat, niveles >= 2, NEW e \in Nat \ {0}, NEW n \in Nat,
         NEW l \in 2 .. niveles
  PROVE  Completa(niveles, e, n, l)
<1> DEFINE S == {i \in Nat : i + 2 <= niveles => Completa(niveles, e, n, i + 2)}
<1>1. 0 \in S
  <2>1. ASSUME NEW j \in 0 .. n PROVE Nivel(niveles, e, n)[2][j].puestas = n
    BY NivelDos DEF FormaDos
  <2>2. Completa(niveles, e, n, 2)
    BY <2>1 DEF Completa
  <2> QED
    BY <2>2
<1>2. ASSUME NEW i \in Nat, i \in S PROVE i + 1 \in S
  <2> SUFFICES ASSUME i + 1 + 2 <= niveles PROVE Completa(niveles, e, n, i + 1 + 2)
    OBVIOUS
  <2>1. PICK m \in 3 .. niveles : m = i + 1 + 2
    OBVIOUS
  <2>2. Completa(niveles, e, n, m - 1)
    <3>1. i + 2 = m - 1
      BY <2>1
    <3> QED
      BY <1>2, <3>1
  <2> HIDE DEF S
  <2>3. ASSUME NEW j \in 0 .. n PROVE FormaAlta(niveles, e, n, m, j)
    BY <2>2, NivelAlto
  <2> QED
    BY <2>1, <2>3 DEF Completa, FormaAlta
<1>3. Nat \subseteq S
  <2> HIDE DEF S
  <2> QED
    BY <1>1, <1>2, Induccion
<1>4. l - 2 \in Nat /\ (l - 2) + 2 = l
  OBVIOUS
<1> QED
  BY <1>3, <1>4

\* What obtenerMarcoDesdeTabla has after each level: a table or, after the last,
\* an entry; or nothing.
Recorre(tabla, entradas, m, h) ==
  /\ h[0].hay /\ h[0].en = tabla
  /\ \A i \in 1 .. m :
       /\ h[i - 1].hay /\ entradas[i] < Len(h[i - 1].en) =>
            h[i].hay /\ h[i].en = h[i - 1].en[entradas[i] + 1]
       /\ ~ (h[i - 1].hay /\ entradas[i] < Len(h[i - 1].en)) => ~ h[i].hay

LEMMA RecorrerRegla ==
  ASSUME NEW tabla, NEW entradas, Len(entradas) \in Nat
  PROVE  \E h : /\ Recorre(tabla, entradas, Len(entradas), h)
                /\ h[Len(entradas)].hay => Recorrer(tabla, entradas) = h[Len(entradas)].en
                /\ ~ h[Len(entradas)].hay => Recorrer(tabla, entradas) = NoHay
<1> DEFINE m == Len(entradas)
           a0 == [hay |-> TRUE, en |-> tabla]
           B(i, antes) == IF antes.hay /\ entradas[i] < Len(antes.en)
                          THEN [hay |-> TRUE, en |-> antes.en[entradas[i] + 1]]
                          ELSE [hay |-> FALSE, en |-> <<>>]
           Es(j, h) ==
             h = [i \in 0 .. j |->
                    IF i = 0 THEN a0 ELSE B(i, h[i - 1])]
           S == {j \in Nat : \E h : Es(j, h)}
<1> HIDE DEF m
<1>1. 0 \in S
  <2> HIDE DEF B, a0
  <2> DEFINE g == [i \in 0 .. 0 |-> a0]
  <2>1. Es(0, g)
    OBVIOUS
  <2> HIDE DEF g, Es
  <2> QED
    BY <2>1
<1>2. ASSUME NEW j \in Nat, j \in S PROVE j + 1 \in S
  <2> HIDE DEF B, a0
  <2>1. PICK h : Es(j, h)
    BY <1>2
  <2> DEFINE g == [i \in 0 .. j + 1 |-> IF i <= j THEN h[i] ELSE B(i, h[j])]
  <2>2. \A i \in 0 .. j + 1 :
          g[i] = IF i = 0 THEN a0 ELSE B(i, g[i - 1])
    <3>1. h[0] = a0 /\ \A i \in 1 .. j : h[i] = B(i, h[i - 1])
      BY <2>1
    <3> QED
      BY <3>1
  <2>3. Es(j + 1, g)
    BY <2>2
  <2> HIDE DEF g, Es
  <2> QED
    BY <2>3
<1>3. m \in S
  <2> HIDE DEF S
  <2>1. m \in Nat
    BY DEF m
  <2> QED
    BY <1>1, <1>2, <2>1, Induccion
<1> DEFINE h == CHOOSE h1 : Es(m, h1)
<1>4. Es(m, h)
  <2> HIDE DEF Es
  <2> QED
    BY <1>3
<1>5. Recorrer(tabla, entradas) = IF h[m].hay THEN h[m].en ELSE NoHay
  BY DEF Recorrer, m
<1> HIDE DEF h
<1>6. h[0] = a0 /\ \A i \in 1 .. m : h[i] = B(i, h[i - 1])
  <2> HIDE DEF B, a0
  <2> QED
    BY <1>3, <1>4
<1>7. ASSUME NEW i \in 1 .. m
      PROVE  /\ h[i - 1].hay /\ entradas[i] < Len(h[i - 1].en) =>
                  h[i].hay /\ h[i].en = h[i - 1].en[entradas[i] + 1]
             /\ ~ (h[i - 1].hay /\ entradas[i] < Len(h[i - 1].en)) => ~ h[i].hay
  <2>1. h[i] = B(i, h[i - 1])
    BY <1>6
  <2>2. CASE h[i - 1].hay /\ entradas[i] < Len(h[i - 1].en)
    BY <2>1, <2>2
  <2>3. CASE ~ (h[i - 1].hay /\ entradas[i] < Len(h[i - 1].en))
    BY <2>1, <2>3
  <2> QED
    BY <2>2, <2>3
<1>8. Recorre(tabla, entradas, m, h)
  BY <1>6, <1>7 DEF Recorre
<1> QED
  BY <1>5, <1>8 DEF m

\* The table of a level that places the pages from the first one on, and how many
\* entries it has; those that find no page left have none.
Tabla(niveles, e, n, l) == Nivel(niveles, e, n)[l][0].tabla

LEMMA LargosDeTabla ==
  ASSUME NEW niveles \in Nat, NEW e \in Nat \ {0}, NEW n \in Nat, NEW l \in 2 .. niveles
  PROVE  /\ Len(Tabla(niveles, e, n, l)) = Techo(n, e)
         /\ Len(Nivel(niveles, e, n)[l][n].tabla) = 0
<1>1. Techo(n - n, e) = 0
  <2>1. n - n = 0 /\ 0 \in Nat
    OBVIOUS
  <2>2. Techo(0, e) \in Nat /\ (0 < Techo(0, e) <=> 0 * e < 0)
    BY <2>1, TechoMayor
  <2> QED
    BY <2>1, <2>2
<1>2. n - 0 = n /\ 0 \in 0 .. n /\ n \in 0 .. n
  OBVIOUS
<1>3. CASE l = 2
  <2>1. niveles >= 2
    OBVIOUS
  <2>2. FormaDos(niveles, e, n, 0) /\ FormaDos(niveles, e, n, n)
    BY <1>2, <2>1, NivelDos
  <2> QED
    BY <1>1, <1>2, <1>3, <2>2 DEF Tabla, FormaDos
<1>4. CASE l # 2
  <2>1. l \in 3 .. niveles /\ niveles >= 2 /\ l - 1 \in 2 .. niveles
    BY <1>4
  <2>2. Completa(niveles, e, n, l - 1)
    BY <2>1, NivelesAltos
  <2>3. FormaAlta(niveles, e, n, l, 0) /\ FormaAlta(niveles, e, n, l, n)
    BY <1>2, <2>1, <2>2, NivelAlto
  <2> QED
    BY <1>1, <1>2, <2>3 DEF Tabla, FormaAlta
<1> QED
  BY <1>3, <1>4

\* Above the second level, every page is under the first subtable.
LEMMA SubtablasDeTabla ==
  ASSUME NEW niveles \in Nat, NEW e \in Nat \ {0}, NEW n \in Nat, NEW l \in 3 .. niveles,
         NEW q \in Nat, q < Techo(n, e)
  PROVE  /\ q = 0 => Tabla(niveles, e, n, l)[q + 1] = Tabla(niveles, e, n, l - 1)
         /\ q # 0 => Len(Tabla(niveles, e, n, l)[q + 1]) = 0
<1>1. l - 1 \in 2 .. niveles /\ niveles >= 2 /\ 0 \in 0 .. n /\ n - 0 = n
  OBVIOUS
<1>2. Completa(niveles, e, n, l - 1)
  BY <1>1, NivelesAltos
<1>3. q + 1 \in 1 .. Techo(n, e)
  BY TechoMayor
<1>4. FormaAlta(niveles, e, n, l, 0)
  BY <1>1, <1>2, NivelAlto
<1>5. Len(Nivel(niveles, e, n)[l - 1][n].tabla) = 0
  BY <1>1, LargosDeTabla
<1>6. (q = 0 <=> q + 1 = 1) /\ n - 0 = n
  OBVIOUS
<1> QED
  BY <1>1, <1>3, <1>4, <1>5, <1>6 DEF Tabla, FormaAlta

\* The entry of a level, for a page that its table and those below can hold.
LEMMA EntradaAlcanzada ==
  ASSUME NEW e \in Nat \ {0}, NEW m \in Nat, NEW k \in Nat, k < Exp(e, m + 1)
  PROVE  /\ (k \div Exp(e, m)) % e = k \div Exp(e, m)
         /\ k \div Exp(e, m) = 0 <=> k < Exp(e, m)
<1> DEFINE b == Exp(e, m)
           q == k \div b
<1>1. b \in Nat \ {0} /\ Exp(e, m + 1) = b * e
  BY ExpTipo, ExpSiguiente
<1> HIDE DEF b
<1>2. q \in Nat /\ k % b \in 0 .. b - 1 /\ k = (b * q) + (k % b)
  BY <1>1, Division
<1>3. q < e
  <2>1. k < b * e
    BY <1>1
  <2> QED
    BY <1>1, <2>1, DivisionMenor
<1> HIDE DEF q
<1>4. q % e = q
  BY <1>2, <1>3
<1>5. q = 0 => k < b
  BY <1>1, <1>2
<1>6. q # 0 => b <= k
  <2> SUFFICES ASSUME 1 <= q PROVE b <= k
    BY <1>2
  <2>1. 1 * b <= q * b
    BY <1>1, <1>2, ProductoMonotono
  <2> QED
    BY <1>1, <1>2, <2>1
<1>7. k \div Exp(e, m) = q /\ Exp(e, m) = b
  BY DEF q, b
<1> QED
  BY <1>1, <1>2, <1>4, <1>5, <1>6, <1>7

LEMMA EntradasSon ==
  ASSUME NEW niveles \in Nat, NEW e \in Nat \ {0}, NEW k \in Nat
  PROVE  /\ Len(Entradas(niveles, e, k)) = niveles
         /\ \A x \in 1 .. niveles :
              /\ Entradas(niveles, e, k)[x] = (k \div Exp(e, niveles - x)) % e
              /\ Entradas(niveles, e, k)[x] \in Nat
<1> DEFINE s == Entradas(niveles, e, k)
<1>1. DOMAIN s = 1 .. niveles /\ s = [x \in DOMAIN s |-> s[x]]
  BY DEF Entradas
<1>2. Len(s) = niveles
  <2> HIDE DEF s
  <2> QED
    BY <1>1, FuncionEsLista
<1>3. ASSUME NEW x \in 1 .. niveles PROVE s[x] = (k \div Exp(e, niveles - x)) % e /\ s[x] \in Nat
  <2>1. s[x] = (k \div Exp(e, niveles - x)) % e
    BY DEF Entradas
  <2>2. niveles - x \in Nat
    OBVIOUS
  <2>3. Exp(e, niveles - x) \in Nat \ {0}
    BY <2>2, ExpTipo
  <2>4. k \div Exp(e, niveles - x) \in Nat
    BY <2>3, Division
  <2>5. (k \div Exp(e, niveles - x)) % e \in 0 .. e - 1
    BY <2>4, Division
  <2> QED
    BY <2>1, <2>5
<1> QED
  BY <1>2, <1>3

\* After i levels the walk is at the table that holds every page, while the entries
\* are zero; and nowhere, if one was not or there is no page.
Bajada(niveles, e, n, k, h, i) ==
  IF 0 < n /\ k < Exp(e, niveles - i)
  THEN h[i].hay /\ h[i].en = Tabla(niveles, e, n, niveles - i)
  ELSE h[i].hay => Len(h[i].en) = 0

LEMMA BajadaComienza ==
  ASSUME NEW niveles \in Nat, niveles >= 2, NEW e \in Nat \ {0}, NEW n \in Nat,
         NEW k \in Nat, k < Exp(e, niveles), NEW h,
         Recorre(Tabla(niveles, e, n, niveles), Entradas(niveles, e, k), niveles, h)
  PROVE  Bajada(niveles, e, n, k, h, 0)
<1>1. h[0].hay /\ h[0].en = Tabla(niveles, e, n, niveles) /\ niveles - 0 = niveles
  BY DEF Recorre
<1>2. niveles \in 2 .. niveles
  OBVIOUS
<1>3. Len(Tabla(niveles, e, n, niveles)) = Techo(n, e)
  BY <1>2, LargosDeTabla
<1>4. 0 < n \/ Techo(n, e) = 0
  <2>1. Techo(n, e) \in Nat /\ (0 < Techo(n, e) <=> 0 * e < n)
    BY TechoMayor
  <2> QED
    BY <2>1
<1> QED
  BY <1>1, <1>3, <1>4 DEF Bajada

LEMMA BajadaSigue ==
  ASSUME NEW niveles \in Nat, niveles >= 2, NEW e \in Nat \ {0}, NEW n \in Nat,
         NEW k \in Nat, k < Exp(e, niveles), NEW h,
         Recorre(Tabla(niveles, e, n, niveles), Entradas(niveles, e, k), niveles, h),
         NEW i \in 0 .. niveles - 3, Bajada(niveles, e, n, k, h, i)
  PROVE  Bajada(niveles, e, n, k, h, i + 1)
<1>1. PICK l \in 3 .. niveles : l = niveles - i
  OBVIOUS
<1>2. PICK m \in 2 .. niveles : m = l - 1 /\ m = niveles - (i + 1) /\ l = m + 1
  BY <1>1
<1>3. PICK q \in Nat : q = Entradas(niveles, e, k)[i + 1]
                       /\ q = (k \div Exp(e, m)) % e
  <2>1. PICK j \in 1 .. niveles : j = i + 1
    OBVIOUS
  <2>2. /\ Entradas(niveles, e, k)[j] = (k \div Exp(e, niveles - j)) % e
        /\ Entradas(niveles, e, k)[j] \in Nat
    BY EntradasSon, Zenon
  <2> QED
    BY <1>2, <2>1, <2>2
<1>4. /\ h[i].hay /\ q < Len(h[i].en) => h[i + 1].hay /\ h[i + 1].en = h[i].en[q + 1]
      /\ ~ (h[i].hay /\ q < Len(h[i].en)) => ~ h[i + 1].hay
  <2>1. PICK j \in 1 .. niveles : j = i + 1 /\ j - 1 = i
    OBVIOUS
  <2>2. Entradas(niveles, e, k)[j] = q
    BY <1>3, <2>1
  <2>3. /\ h[j - 1].hay /\ Entradas(niveles, e, k)[j] < Len(h[j - 1].en) =>
             h[j].hay /\ h[j].en = h[j - 1].en[Entradas(niveles, e, k)[j] + 1]
        /\ ~ (h[j - 1].hay /\ Entradas(niveles, e, k)[j] < Len(h[j - 1].en)) => ~ h[j].hay
    BY DEF Recorre
  <2> QED
    BY <2>1, <2>2, <2>3
<1>5. Exp(e, l) = Exp(e, m) * e /\ Exp(e, m) \in Nat \ {0}
  <2>1. m \in Nat
    BY <1>2
  <2>2. Exp(e, m + 1) = Exp(e, m) * e /\ Exp(e, m) \in Nat \ {0}
    BY <2>1, ExpSiguiente, ExpTipo
  <2> QED
    BY <1>2, <2>2
<1>6. CASE 0 < n /\ k < Exp(e, l)
  <2>1. h[i].hay /\ h[i].en = Tabla(niveles, e, n, l)
    BY <1>1, <1>6 DEF Bajada
  <2>2. Len(Tabla(niveles, e, n, l)) = Techo(n, e)
    BY LargosDeTabla
  <2>3. q = k \div Exp(e, m) /\ (q = 0 <=> k < Exp(e, m))
    BY <1>2, <1>3, <1>6, EntradaAlcanzada
  <2>4. CASE k < Exp(e, m)
    <3>1. q < Techo(n, e)
      <4>1. Techo(n, e) \in Nat /\ (0 < Techo(n, e) <=> 0 * e < n)
        BY TechoMayor
      <4> QED
        BY <1>6, <2>3, <2>4, <4>1
    <3>2. Tabla(niveles, e, n, l)[q + 1] = Tabla(niveles, e, n, l - 1)
      BY <2>3, <2>4, <3>1, SubtablasDeTabla
    <3>3. h[i + 1].hay /\ h[i + 1].en = Tabla(niveles, e, n, m)
      BY <1>2, <1>4, <2>1, <2>2, <3>1, <3>2
    <3> QED
      BY <1>2, <1>6, <2>4, <3>3 DEF Bajada
  <2>5. CASE ~ (k < Exp(e, m))
    <3>1. h[i + 1].hay => Len(h[i + 1].en) = 0
      <4> SUFFICES ASSUME h[i + 1].hay PROVE Len(h[i + 1].en) = 0
        OBVIOUS
      <4>1. q < Techo(n, e) /\ h[i + 1].en = Tabla(niveles, e, n, l)[q + 1]
        BY <1>4, <2>1, <2>2
      <4> QED
        BY <2>3, <2>5, <4>1, SubtablasDeTabla
    <3> QED
      BY <1>2, <2>5, <3>1 DEF Bajada
  <2> QED
    BY <2>4, <2>5
<1>7. CASE ~ (0 < n /\ k < Exp(e, l))
  <2>1. h[i].hay => Len(h[i].en) = 0
    BY <1>1, <1>7 DEF Bajada
  <2>2. ~ h[i + 1].hay
    BY <1>4, <2>1
  <2>3. ~ (0 < n /\ k < Exp(e, m))
    <3>1. \A a, b \in Nat \ {0} : a <= a * b
      OBVIOUS
    <3>2. Exp(e, m) <= Exp(e, l)
      BY <1>5, <3>1
    <3> QED
      BY <1>5, <1>7, <3>2
  <2> QED
    BY <1>2, <2>2, <2>3 DEF Bajada
<1> QED
  BY <1>6, <1>7

\* Down to the second level.
LEMMA BajadaSiempre ==
  ASSUME NEW niveles \in Nat, niveles >= 2, NEW e \in Nat \ {0}, NEW n \in Nat,
         NEW k \in Nat, k < Exp(e, niveles), NEW h,
         Recorre(Tabla(niveles, e, n, niveles), Entradas(niveles, e, k), niveles, h)
  PROVE  Bajada(niveles, e, n, k, h, niveles - 2)
<1> DEFINE S == {i \in Nat : i <= niveles - 2 => Bajada(niveles, e, n, k, h, i)}
<1>1. 0 \in S
  BY BajadaComienza
<1>2. ASSUME NEW i \in Nat, i \in S PROVE i + 1 \in S
  <2> SUFFICES ASSUME i + 1 <= niveles - 2 PROVE Bajada(niveles, e, n, k, h, i + 1)
    OBVIOUS
  <2>1. i \in 0 .. niveles - 3 /\ Bajada(niveles, e, n, k, h, i)
    BY <1>2
  <2> HIDE DEF S
  <2> QED
    BY <2>1, BajadaSigue
<1>3. Nat \subseteq S
  <2> HIDE DEF S
  <2> QED
    BY <1>1, <1>2, Induccion
<1>4. niveles - 2 \in Nat /\ niveles - 2 <= niveles - 2
  OBVIOUS
<1> QED
  BY <1>3, <1>4

\* The last two levels.
LEMMA HalladaHonda ==
  ASSUME NEW niveles \in Nat, niveles >= 2, NEW e \in Nat \ {0}, NEW n \in Nat,
         NEW k \in Nat, k < Exp(e, niveles)
  PROVE  /\ k < n /\ k < e * e => PaginaHallada(niveles, e, n, k) = k
         /\ ~ (k < n /\ k < e * e) => PaginaHallada(niveles, e, n, k) = NoHay
<1> DEFINE ent == Entradas(niveles, e, k)
           tabla == Tabla(niveles, e, n, niveles)
<1>1. Len(ent) = niveles
  BY EntradasSon
<1>2. PaginaHallada(niveles, e, n, k) = Recorrer(tabla, ent)
  BY DEF PaginaHallada, CrearTabla, Tabla
<1> HIDE DEF tabla
<1>3. PICK h : /\ Recorre(tabla, ent, niveles, h)
               /\ h[niveles].hay => Recorrer(tabla, ent) = h[niveles].en
               /\ ~ h[niveles].hay => Recorrer(tabla, ent) = NoHay
  <2> HIDE DEF ent
  <2>1. \E h : /\ Recorre(tabla, ent, Len(ent), h)
               /\ h[Len(ent)].hay => Recorrer(tabla, ent) = h[Len(ent)].en
               /\ ~ h[Len(ent)].hay => Recorrer(tabla, ent) = NoHay
    BY <1>1, RecorrerRegla
  <2> QED
    BY <1>1, <2>1
<1>4. Bajada(niveles, e, n, k, h, niveles - 2)
  BY <1>3, BajadaSiempre DEF tabla
<1>5. Exp(e, 0) = 1 /\ Exp(e, 1) = e /\ Exp(e, 2) = e * e
  <2>1. Exp(e, 0) = 1 /\ Exp(e, 0 + 1) = Exp(e, 0) * e
    BY ExpCero, ExpSiguiente
  <2>2. Exp(e, 1 + 1) = Exp(e, 1) * e
    BY ExpSiguiente
  <2> QED
    BY <2>1, <2>2
<1>6. PICK q \in Nat, r \in 0 .. e - 1 : q = k \div e /\ r = k % e /\ k = (e * q) + r
  BY Division
<1>7. ent[niveles] = r
  <2>1. PICK x \in 1 .. niveles : x = niveles
    OBVIOUS
  <2>2. ent[x] = (k \div Exp(e, niveles - x)) % e
    BY EntradasSon, Zenon
  <2>3. k \div 1 = k /\ niveles - x = 0
    BY <2>1
  <2> QED
    BY <1>5, <1>6, <2>1, <2>2, <2>3
<1>8. PICK s \in Nat : s = ent[niveles - 1] /\ s = q % e
  <2>1. PICK x \in 1 .. niveles : x = niveles - 1
    OBVIOUS
  <2>2. ent[x] = (k \div Exp(e, niveles - x)) % e /\ ent[x] \in Nat
    BY EntradasSon, Zenon
  <2>3. niveles - x = 1
    BY <2>1
  <2> QED
    BY <1>5, <1>6, <2>1, <2>2, <2>3
<1> DEFINE t1 == h[niveles - 2]
           t2 == h[niveles - 1]
           t3 == h[niveles]
<1>9. /\ t1.hay /\ s < Len(t1.en) => t2.hay /\ t2.en = t1.en[s + 1]
      /\ ~ (t1.hay /\ s < Len(t1.en)) => ~ t2.hay
  <2>1. PICK x \in 1 .. niveles : x = niveles - 1 /\ x - 1 = niveles - 2
    OBVIOUS
  <2>2. /\ h[x - 1].hay /\ ent[x] < Len(h[x - 1].en) =>
             h[x].hay /\ h[x].en = h[x - 1].en[ent[x] + 1]
        /\ ~ (h[x - 1].hay /\ ent[x] < Len(h[x - 1].en)) => ~ h[x].hay
    BY <1>3 DEF Recorre
  <2> QED
    BY <1>8, <2>1, <2>2
<1>10. /\ t2.hay /\ r < Len(t2.en) => t3.hay /\ t3.en = t2.en[r + 1]
       /\ ~ (t2.hay /\ r < Len(t2.en)) => ~ t3.hay
  <2>1. PICK x \in 1 .. niveles : x = niveles /\ x - 1 = niveles - 1
    OBVIOUS
  <2>2. /\ h[x - 1].hay /\ ent[x] < Len(h[x - 1].en) =>
             h[x].hay /\ h[x].en = h[x - 1].en[ent[x] + 1]
        /\ ~ (h[x - 1].hay /\ ent[x] < Len(h[x - 1].en)) => ~ h[x].hay
    BY <1>3 DEF Recorre
  <2> QED
    BY <1>7, <2>1, <2>2
<1> HIDE DEF ent, t1, t2, t3
<1>11. CASE ~ (0 < n /\ k < e * e)
  <2>1. t1.hay => Len(t1.en) = 0
    <3>1. niveles - (niveles - 2) = 2
      OBVIOUS
    <3> QED
      BY <1>4, <1>5, <1>11, <3>1 DEF Bajada, t1
  <2>2. ~ t3.hay
    BY <1>9, <1>10, <2>1
  <2> QED
    BY <1>2, <1>3, <1>11, <2>2 DEF t3
<1>12. CASE 0 < n /\ k < e * e
  <2>1. t1.hay /\ t1.en = Tabla(niveles, e, n, 2)
    <3>1. niveles - (niveles - 2) = 2
      OBVIOUS
    <3> QED
      BY <1>4, <1>5, <1>12, <3>1 DEF Bajada, t1
  <2>2. s = q
    <3>1. q < e
      BY <1>6, <1>12, DivisionMenor
    <3> QED
      BY <1>6, <1>8, <3>1
  <2>3. FormaDos(niveles, e, n, 0) /\ 0 \in 0 .. n /\ n - 0 = n
    <3>1. 0 \in 0 .. n /\ n - 0 = n
      OBVIOUS
    <3> QED
      BY <3>1, NivelDos
  <2>4. Len(t1.en) = Techo(n, e)
    BY <2>1, <2>3 DEF FormaDos, Tabla
  <2>5. q < Techo(n, e) <=> q * e < n
    BY TechoMayor
  <2>6. q * e \in Nat /\ q * e = e * q
    OBVIOUS
  <2>7. CASE q * e < n
    <3>1. PICK d \in 0 .. n : d = q * e
      BY <2>6, <2>7
    <3>2. t2.hay /\ t2.en = Nivel(niveles, e, n)[1][d].tabla
      <4>1. t2.hay /\ t2.en = Nivel(niveles, e, n)[2][0].tabla[q + 1]
        BY <1>9, <2>1, <2>2, <2>4, <2>5, <2>7 DEF Tabla
      <4>2. q + 1 \in 1 .. Techo(n - 0, e)
        BY <2>3, <2>5, <2>7, TechoMayor
      <4>3. Menor(n, 0 + ((q + 1) - 1) * e) = d
        BY <2>6, <2>7, <3>1 DEF Menor
      <4> QED
        BY <2>3, <4>1, <4>2, <4>3 DEF FormaDos
    <3>3. FormaUno(niveles, e, n, d)
      <4>1. niveles \in Nat \ {0}
        OBVIOUS
      <4> QED
        BY <4>1, NivelUno
    <3>4. Len(t2.en) = Menor(n - d, e)
      BY <3>2, <3>3 DEF FormaUno
    <3>5. r < Menor(n - d, e) <=> k < n
      BY <1>6, <2>6, <3>1 DEF Menor
    <3>6. CASE k < n
      <4>1. t3.hay /\ t3.en = Nivel(niveles, e, n)[1][d].tabla[r + 1]
        BY <1>10, <3>2, <3>4, <3>5, <3>6
      <4>2. r + 1 \in 1 .. Menor(n - d, e)
        BY <3>5, <3>6 DEF Menor
      <4>3. Nivel(niveles, e, n)[1][d].tabla[r + 1] = d + (r + 1) - 1
        BY <3>3, <4>2 DEF FormaUno
      <4>4. d + (r + 1) - 1 = k
        BY <1>6, <2>6, <3>1
      <4> QED
        BY <1>2, <1>3, <1>12, <3>6, <4>1, <4>3, <4>4 DEF t3
    <3>7. CASE ~ (k < n)
      <4>1. ~ t3.hay
        BY <1>10, <3>4, <3>5, <3>7
      <4> QED
        BY <1>2, <1>3, <3>7, <4>1 DEF t3
    <3> QED
      BY <3>6, <3>7
  <2>8. CASE ~ (q * e < n)
    <3>1. ~ t3.hay
      BY <1>9, <1>10, <2>2, <2>4, <2>5, <2>8
    <3>2. ~ (k < n)
      BY <1>6, <2>6, <2>8
    <3> QED
      BY <1>2, <1>3, <3>1, <3>2 DEF t3
  <2> QED
    BY <2>7, <2>8
<1> QED
  BY <1>11, <1>12

\* A table of one level.
LEMMA HalladaEnUno ==
  ASSUME NEW e \in Nat \ {0}, NEW n \in Nat, NEW k \in Nat, k < Exp(e, 1)
  PROVE  /\ k < n => PaginaHallada(1, e, n, k) = k
         /\ ~ (k < n) => PaginaHallada(1, e, n, k) = NoHay
<1> DEFINE ent == Entradas(1, e, k)
           tabla == Tabla(1, e, n, 1)
<1>0. 1 \in Nat /\ 1 \in 1 .. 1
  OBVIOUS
<1>1. Len(ent) = 1
  BY <1>0, EntradasSon
<1>2. PaginaHallada(1, e, n, k) = Recorrer(tabla, ent)
  BY DEF PaginaHallada, CrearTabla, Tabla
<1> HIDE DEF tabla
<1>3. PICK h : /\ Recorre(tabla, ent, 1, h)
               /\ h[1].hay => Recorrer(tabla, ent) = h[1].en
               /\ ~ h[1].hay => Recorrer(tabla, ent) = NoHay
  <2> HIDE DEF ent
  <2>1. \E h : /\ Recorre(tabla, ent, Len(ent), h)
               /\ h[Len(ent)].hay => Recorrer(tabla, ent) = h[Len(ent)].en
               /\ ~ h[Len(ent)].hay => Recorrer(tabla, ent) = NoHay
    <3>1. Len(ent) \in Nat
      BY <1>1
    <3> QED
      BY <3>1, RecorrerRegla
  <2> QED
    BY <1>1, <2>1
<1>4. Exp(e, 0) = 1 /\ Exp(e, 1) = e
  <2>1. Exp(e, 0) = 1 /\ Exp(e, 0 + 1) = Exp(e, 0) * e
    BY ExpCero, ExpSiguiente
  <2> QED
    BY <2>1
<1>5. ent[1] = k
  <2>1. PICK x \in 1 .. 1 : x = 1
    OBVIOUS
  <2>2. ent[x] = (k \div Exp(e, 1 - x)) % e
    BY <1>0, EntradasSon, Zenon
  <2>3. k \div 1 = k /\ 1 - x = 0 /\ k % e = k
    BY <1>4, <2>1
  <2> QED
    BY <1>4, <2>1, <2>2, <2>3
<1>6. h[0].hay /\ h[0].en = tabla
  BY <1>3 DEF Recorre
<1>7. /\ k < Len(tabla) => h[1].hay /\ h[1].en = tabla[k + 1]
      /\ ~ (k < Len(tabla)) => ~ h[1].hay
  <2>1. PICK x \in 1 .. 1 : x = 1 /\ x - 1 = 0
    OBVIOUS
  <2>2. /\ h[x - 1].hay /\ ent[x] < Len(h[x - 1].en) =>
             h[x].hay /\ h[x].en = h[x - 1].en[ent[x] + 1]
        /\ ~ (h[x - 1].hay /\ ent[x] < Len(h[x - 1].en)) => ~ h[x].hay
    BY <1>3 DEF Recorre
  <2> HIDE DEF ent
  <2> QED
    BY <1>5, <1>6, <2>1, <2>2
<1>8. FormaUno(1, e, n, 0) /\ n - 0 = n
  <2>1. 1 \in Nat \ {0} /\ 0 \in 0 .. n /\ n - 0 = n
    OBVIOUS
  <2> QED
    BY <2>1, NivelUno
<1>9. Len(tabla) = Menor(n, e)
  BY <1>8 DEF FormaUno, tabla, Tabla
<1>10. k < Menor(n, e) <=> k < n
  BY <1>4 DEF Menor
<1>11. CASE k < n
  <2>1. k + 1 \in 1 .. Menor(n - 0, e)
    BY <1>8, <1>10, <1>11 DEF Menor
  <2>2. tabla[k + 1] = 0 + (k + 1) - 1
    BY <1>8, <2>1 DEF FormaUno, tabla, Tabla
  <2>3. 0 + (k + 1) - 1 = k
    OBVIOUS
  <2> QED
    BY <1>2, <1>3, <1>7, <1>9, <1>10, <1>11, <2>2, <2>3
<1>12. CASE ~ (k < n)
  BY <1>2, <1>3, <1>7, <1>9, <1>10, <1>12
<1> QED
  BY <1>11, <1>12

\* Every page that a table of the second level reaches is found, and no other page
\* is, however many levels there are.
LEMMA Hallada ==
  ASSUME NEW niveles \in Nat \ {0}, NEW e \in Nat \ {0}, NEW n \in Nat,
         NEW k \in Nat, k < Exp(e, niveles)
  PROVE  /\ k < n /\ (niveles = 1 \/ k < e * e) => PaginaHallada(niveles, e, n, k) = k
         /\ ~ (k < n /\ (niveles = 1 \/ k < e * e)) => PaginaHallada(niveles, e, n, k) = NoHay
<1>1. CASE niveles = 1
  <2>1. k < Exp(e, 1)
    BY <1>1
  <2> QED
    BY <1>1, <2>1, HalladaEnUno
<1>2. CASE niveles >= 2
  BY <1>2, HalladaHonda
<1> QED
  BY <1>1, <1>2

\* A good shape leads to every page, and any shape to no other.
LEMMA HalladaSiBuena ==
  ASSUME NEW niveles \in Nat \ {0}, NEW e \in Nat \ {0}, NEW n \in Nat,
         NEW k \in Nat, k < Exp(e, niveles), FormaBuena(niveles, e, n)
  PROVE  /\ k < n => PaginaHallada(niveles, e, n, k) = k
         /\ ~ (k < n) => PaginaHallada(niveles, e, n, k) = NoHay
<1>1. Exp(e, 0) = 1 /\ Exp(e, 0 + 1) = Exp(e, 0) * e /\ Exp(e, 1 + 1) = Exp(e, 1) * e
  BY ExpCero, ExpSiguiente
<1>2. Exp(e, 2) = e * e
  BY <1>1
<1>3. k < n => niveles = 1 \/ k < e * e
  <2>0. niveles <= 2 \/ n <= e * e
    BY DEF FormaBuena
  <2>1. CASE niveles <= 2
    <3>1. niveles = 1 \/ niveles = 2
      BY <2>1
    <3> QED
      BY <1>2, <3>1
  <2>2. CASE n <= e * e
    <3>1. e * e \in Nat
      OBVIOUS
    <3> QED
      BY <2>2, <3>1
  <2> QED
    BY <2>0, <2>1, <2>2
<1> QED
  BY <1>3, Hallada
---------------------------------------------------------------------------
(* The TLB. *)

LEMMA TLBNueva == ASSUME NEW cap \in Nat \ {0} PROVE TLBBuena(NuevaTLB(Pagina), cap)
<1>1. Lista(<<>>) /\ Len(<<>>) = 0
  BY DEF Lista
<1> QED
  BY <1>1 DEF TLBBuena, TipoTLB, TLBFiel, NuevaTLB

\* A use changes no page.
LEMMA UsarMantiene ==
  ASSUME NEW s, Lista(s), \A i \in DOMAIN s : s[i].orden \in Nat,
         NEW v \in DOMAIN s
  PROVE  /\ Lista(Usar(s, v)) /\ Len(Usar(s, v)) = Len(s)
         /\ \A i \in DOMAIN s : /\ Usar(s, v)[i].pagina = s[i].pagina
                                /\ Usar(s, v)[i].orden \in Nat
<1> DEFINE u == Usar(s, v)
<1>1. Len(s) \in Nat /\ DOMAIN s = 1 .. Len(s)
  BY ListaLargo
<1>2. DOMAIN u = DOMAIN s /\ u = [i \in DOMAIN u |-> u[i]]
  BY DEF Usar
<1>3. Lista(u) /\ Len(u) = Len(s)
  BY <1>1, <1>2, FuncionEsLista
<1>4. ASSUME NEW i \in DOMAIN s
      PROVE  u[i].pagina = s[i].pagina /\ u[i].orden \in Nat
  <2>1. /\ s[i].orden \in Nat /\ s[v].orden \in Nat /\ Len(s) \in Nat
    BY <1>1
  <2>2. \A n : ConOrden(s[i], n).pagina = s[i].pagina /\ ConOrden(s[i], n).orden = n
    BY DEF ConOrden
  <2>3. CASE i = v
    BY <2>1, <2>2, <2>3 DEF Usar
  <2>4. CASE i # v /\ s[i].orden > s[v].orden
    <3>1. u[i] = ConOrden(s[i], s[i].orden - 1) /\ s[i].orden - 1 \in Nat
      BY <2>1, <2>4 DEF Usar
    <3> QED
      BY <2>2, <3>1
  <2>5. CASE i # v /\ ~(s[i].orden > s[v].orden)
    BY <2>1, <2>5 DEF Usar
  <2> QED
    BY <2>3, <2>4, <2>5
<1> QED
  BY <1>3, <1>4

LEMMA AcertadaBuena ==
  ASSUME NEW cap \in Nat \ {0}, NEW t, TLBBuena(t, cap), NEW alg, NEW k \in Pagina,
         t.indice[k] # 0
  PROVE  TLBBuena(Acertada(t, alg, k), cap)
<1> DEFINE i == t.indice[k]
<1>1. i \in DOMAIN t.entradas
  BY DEF TLBBuena, TipoTLB, TLBFiel
<1>2. CASE alg # "LRU"
  BY <1>2 DEF TLBBuena, TipoTLB, TLBFiel, Acertada
<1>3. CASE alg = "LRU"
  <2> DEFINE u == Usar(t.entradas, i)
  <2>1. /\ Lista(u) /\ Len(u) = Len(t.entradas)
        /\ \A j \in DOMAIN t.entradas : u[j].pagina = t.entradas[j].pagina /\ u[j].orden \in Nat
    BY <1>1, UsarMantiene DEF TLBBuena, TipoTLB
  <2>2. DOMAIN u = DOMAIN t.entradas
    BY <2>1, ListaLargo DEF TLBBuena, TipoTLB
  <2>3. /\ Acertada(t, alg, k).entradas = u
        /\ Acertada(t, alg, k).indice = t.indice /\ Acertada(t, alg, k).fifo = t.fifo
    BY <1>3 DEF Acertada
  <2> HIDE DEF u
  <2> QED
    BY <2>1, <2>2, <2>3 DEF TLBBuena, TipoTLB, TLBFiel
<1> QED
  BY <1>2, <1>3

\* The victim is one of the entries: the next of the round, or the oldest.
LEMMA VictimaEsta ==
  ASSUME NEW cap \in Nat \ {0}, NEW t, TLBBuena(t, cap), Len(t.entradas) = cap, NEW alg
  PROVE  Victima(t, alg) \in DOMAIN t.entradas
<1> DEFINE s == t.entradas
<1>1. DOMAIN s = 1 .. cap
  BY ListaLargo DEF TLBBuena, TipoTLB
<1>2. CASE alg = "FIFO"
  BY <1>1, <1>2 DEF Victima, TLBBuena, TLBFiel
<1>3. CASE alg # "FIFO"
  <2> DEFINE S == {s[i].orden : i \in DOMAIN s}
  <2>1. S \subseteq Nat /\ S # {}
    <3>1. 1 \in DOMAIN s
      BY <1>1
    <3> QED
      BY <3>1 DEF TLBBuena, TipoTLB
  <2>2. PICK n \in S : \A j \in S : n <= j
    BY <2>1, MinimoExiste
  <2>3. \E i \in DOMAIN s : \A j \in DOMAIN s : s[i].orden <= s[j].orden
    BY <2>2
  <2> QED
    BY <1>3, <2>3 DEF Victima
<1> QED
  BY <1>2, <1>3

\* The new translation is in the place of the victim, and the others in theirs.
LEMMA PuestaMantiene ==
  ASSUME NEW t, TipoTLB(t), NEW alg, NEW v \in DOMAIN t.entradas, NEW nueva
  PROVE  LET q == Puesta(t, alg, v, nueva) IN
         /\ Lista(q) /\ Len(q) = Len(t.entradas) /\ DOMAIN q = DOMAIN t.entradas
         /\ \A i \in DOMAIN t.entradas :
              /\ q[i].pagina = IF i = v THEN nueva.pagina ELSE t.entradas[i].pagina
              /\ q[i].orden \in Nat
<1> DEFINE s == t.entradas
           e == ConOrden(nueva, s[v].orden)
           a == [s EXCEPT ![v] = e]
           q == Puesta(t, alg, v, nueva)
<1>1. Lista(s) /\ \A i \in DOMAIN s : s[i].orden \in Nat
  BY DEF TipoTLB
<1>2. e.pagina = nueva.pagina /\ e.orden = s[v].orden
  BY DEF ConOrden
<1> HIDE DEF e
<1>3. /\ Lista(a) /\ Len(a) = Len(s) /\ DOMAIN a = DOMAIN s
      /\ \A i \in DOMAIN s : a[i] = IF i = v THEN e ELSE s[i]
  BY <1>1, ExceptEsLista
<1>4. q = IF alg = "LRU" THEN Usar(a, v) ELSE a
  BY DEF Puesta, e
<1> HIDE DEF a, q
<1>5. \A i \in DOMAIN a : a[i].orden \in Nat
  BY <1>1, <1>2, <1>3
<1>6. CASE alg = "LRU"
  <2>1. /\ Lista(q) /\ Len(q) = Len(a)
        /\ \A i \in DOMAIN a : q[i].pagina = a[i].pagina /\ q[i].orden \in Nat
    BY <1>3, <1>4, <1>5, <1>6, UsarMantiene
  <2>2. DOMAIN q = DOMAIN s
    BY <1>1, <1>3, <2>1, ListaLargo
  <2> QED
    BY <1>2, <1>3, <2>1, <2>2 DEF q
<1>7. CASE alg # "LRU"
  BY <1>2, <1>3, <1>4, <1>5, <1>7 DEF q
<1> QED
  BY <1>6, <1>7

LEMMA ReemplazarEnTLBBuena ==
  ASSUME NEW cap \in Nat \ {0}, NEW t, TLBBuena(t, cap), Len(t.entradas) = cap, NEW alg,
         NEW nueva, nueva.pagina \in Pagina
  PROVE  TLBBuena(ReemplazarEnTLB(t, cap, alg, nueva), cap)
<1> DEFINE v == Victima(t, alg)
           s == t.entradas
           q == Puesta(t, alg, v, nueva)
           ind == [t.indice EXCEPT ![s[v].pagina] = 0, ![nueva.pagina] = v]
           f == Avanzada(t, cap, alg)
           r == ReemplazarEnTLB(t, cap, alg, nueva)
<1>1. v \in DOMAIN s /\ DOMAIN s = 1 .. cap
  BY VictimaEsta, ListaLargo DEF TLBBuena, TipoTLB
<1>2. r.entradas = q /\ r.indice = ind /\ r.fifo = f
  BY DEF ReemplazarEnTLB
<1> HIDE DEF v, r
<1>3. /\ Lista(q) /\ Len(q) = Len(s) /\ DOMAIN q = DOMAIN s
      /\ \A i \in DOMAIN s : /\ q[i].pagina = IF i = v THEN nueva.pagina ELSE s[i].pagina
                             /\ q[i].orden \in Nat
  BY <1>1, PuestaMantiene DEF TLBBuena
<1> HIDE DEF q
<1>4. f \in 1 .. cap
  <2>1. t.fifo \in 1 .. cap
    BY DEF TLBBuena, TLBFiel
  <2>2. (t.fifo % cap) + 1 \in 1 .. cap
    BY <2>1
  <2> QED
    BY <2>1, <2>2 DEF Avanzada
<1>5. ind \in [Pagina -> Nat]
  BY <1>1 DEF TLBBuena, TipoTLB
<1>6. \A k \in Pagina : ind[k] # 0 => ind[k] \in DOMAIN s /\ q[ind[k]].pagina = k
  <2> SUFFICES ASSUME NEW k \in Pagina, ind[k] # 0
               PROVE  ind[k] \in DOMAIN s /\ q[ind[k]].pagina = k
    OBVIOUS
  <2>1. CASE k = nueva.pagina
    <3>1. ind[k] = v
      BY <2>1 DEF TLBBuena, TipoTLB
    <3> QED
      BY <1>1, <1>3, <2>1, <3>1
  <2>2. CASE k # nueva.pagina
    <3>1. ind[k] = t.indice[k] /\ k # s[v].pagina
      BY <2>2 DEF TLBBuena, TipoTLB
    <3>2. ind[k] \in DOMAIN s /\ s[ind[k]].pagina = k
      BY <3>1 DEF TLBBuena, TipoTLB, TLBFiel
    <3> QED
      BY <1>3, <3>1, <3>2
  <2> QED
    BY <2>1, <2>2
<1> HIDE DEF ind, f
<1>7. TipoTLB(r)
  BY <1>2, <1>3, <1>4, <1>5 DEF TipoTLB
<1>8. TLBFiel(r, cap)
  BY <1>2, <1>3, <1>4, <1>5, <1>6 DEF TLBFiel
<1> QED
  BY <1>7, <1>8 DEF TLBBuena, r

LEMMA CargarTLBBuena ==
  ASSUME NEW cap \in Nat \ {0}, NEW t, TLBBuena(t, cap), NEW alg, NEW p, NEW k \in Pagina,
         NEW marco
  PROVE  TLBBuena(CargarTLB(t, cap, alg, p, k, marco), cap)
<1> DEFINE n == Len(t.entradas) + 1
           nueva == [pagina |-> k, pid |-> p, marco |-> marco,
                     orden |-> IF alg = "LRU" THEN n ELSE 0]
           r == CargarTLB(t, cap, alg, p, k, marco)
<1>1. Len(t.entradas) \in 0 .. cap /\ DOMAIN t.entradas = 1 .. Len(t.entradas)
  BY ListaLargo DEF TLBBuena, TipoTLB, TLBFiel
<1>2. nueva.pagina = k /\ nueva.orden \in Nat
  BY <1>1
<1>3. CASE n <= cap
  <2>1. /\ r.entradas = Append(t.entradas, nueva)
        /\ r.indice = [t.indice EXCEPT ![k] = n] /\ r.fifo = t.fifo
    BY <1>3 DEF CargarTLB
  <2> HIDE DEF nueva, r
  <2>2. /\ Lista(r.entradas) /\ Len(r.entradas) = n
        /\ \A i \in DOMAIN t.entradas : r.entradas[i] = t.entradas[i]
        /\ r.entradas[n] = nueva
    BY <2>1, AppendEsLista DEF TLBBuena, TipoTLB
  <2>3. DOMAIN r.entradas = 1 .. n
    BY <2>2, ListaLargo
  <2>4. TipoTLB(r)
    BY <1>1, <1>2, <2>1, <2>2, <2>3 DEF TLBBuena, TipoTLB
  <2>5. \A j \in Pagina : r.indice[j] # 0 =>
          r.indice[j] \in 1 .. n /\ r.entradas[r.indice[j]].pagina = j
    BY <1>1, <1>2, <2>1, <2>2 DEF TLBBuena, TipoTLB, TLBFiel
  <2>6. TLBFiel(r, cap)
    BY <1>3, <2>1, <2>2, <2>3, <2>4, <2>5 DEF TLBBuena, TLBFiel, TipoTLB
  <2> QED
    BY <2>4, <2>6 DEF TLBBuena, r
<1>4. CASE ~(n <= cap)
  <2>1. r = ReemplazarEnTLB(t, cap, alg, nueva)
    BY <1>4 DEF CargarTLB
  <2>2. Len(t.entradas) = cap
    BY <1>1, <1>4
  <2> HIDE DEF nueva, r
  <2> QED
    BY <1>2, <2>1, <2>2, ReemplazarEnTLBBuena DEF r
<1> QED
  BY <1>3, <1>4

\* What ConseguirDireccionFisica leaves in the TLB of a CPU.
LEMMA DireccionBuena ==
  ASSUME config.tlb \in Nat \ {0}, NEW c \in Cpu, TLBBuena(tlb[c], config.tlb),
         NEW p, NEW k \in Pagina
  PROVE  TLBBuena(Direccion(c, p, k).tlb, config.tlb)
<1> DEFINE t == tlb[c]
           pedido == MarcoDe(p, k)
<1>1. CASE EnTLB(t, p, k)
  <2>1. Direccion(c, p, k).tlb = Acertada(t, config.algTlb, k)
    BY <1>1 DEF Direccion
  <2> QED
    BY <1>1, <2>1, AcertadaBuena DEF EnTLB
<1>2. CASE ~EnTLB(t, p, k) /\ pedido # NoHay
  <2>1. Direccion(c, p, k).tlb = CargarTLB(t, config.tlb, config.algTlb, p, k, pedido)
    BY <1>2 DEF Direccion
  <2> QED
    BY <2>1, CargarTLBBuena
<1>3. CASE ~EnTLB(t, p, k) /\ ~(pedido # NoHay)
  BY <1>3 DEF Direccion
<1> QED
  BY <1>1, <1>2, <1>3
---------------------------------------------------------------------------
(* The page cache. *)

LEMMA CacheNueva == ASSUME NEW cap \in Nat \ {0} PROVE CacheBuena(NuevaCache(Pagina), cap)
<1>1. Lista(<<>>) /\ Len(<<>>) = 0 /\ DOMAIN <<>> = {}
  BY DEF Lista
<1> QED
  BY <1>1 DEF CacheBuena, TipoCache, CacheFiel, NuevaCache

\* The same pages in the same places, under the same map.
LEMMA MismasPaginas ==
  ASSUME NEW cap, NEW m, CacheBuena(m, cap), NEW n,
         Lista(n.entradas), Len(n.entradas) = Len(m.entradas),
         n.indice = m.indice, n.aguja = m.aguja,
         \A i \in DOMAIN m.entradas : n.entradas[i].pagina = m.entradas[i].pagina
  PROVE  CacheBuena(n, cap)
<1>1. DOMAIN n.entradas = DOMAIN m.entradas
  BY ListaLargo DEF CacheBuena, TipoCache
<1> QED
  BY <1>1 DEF CacheBuena, TipoCache, CacheFiel

\* An entry of the page that the map says is there: EscribirCache, LeerDeCache
\* and the page that is overwritten.
LEMMA EnSuLugar ==
  ASSUME NEW cap, NEW m, CacheBuena(m, cap), NEW k \in Pagina, NEW v, v = m.indice[k],
         v # 0, NEW nueva, nueva.pagina = k, NEW n, n.indice = m.indice, n.aguja = m.aguja,
         n.entradas = [m.entradas EXCEPT ![v] = nueva]
  PROVE  CacheBuena(n, cap)
<1>1. v \in DOMAIN m.entradas /\ m.entradas[v].pagina = k
  BY DEF CacheBuena, TipoCache, CacheFiel
<1>2. /\ Lista(n.entradas) /\ Len(n.entradas) = Len(m.entradas)
      /\ \A i \in DOMAIN m.entradas : n.entradas[i] = IF i = v THEN nueva ELSE m.entradas[i]
  <2> DEFINE s == m.entradas
             a == [s EXCEPT ![v] = nueva]
  <2>1. Lista(s)
    BY DEF CacheBuena, TipoCache
  <2>2. /\ Lista(a) /\ Len(a) = Len(s) /\ DOMAIN a = DOMAIN s
        /\ \A i \in DOMAIN s : a[i] = IF i = v THEN nueva ELSE s[i]
    BY <1>1, <2>1, ExceptEsLista
  <2>3. n.entradas = a
    OBVIOUS
  <2> HIDE DEF a
  <2> QED
    BY <2>2, <2>3
<1>3. \A i \in DOMAIN m.entradas : n.entradas[i].pagina = m.entradas[i].pagina
  BY <1>1, <1>2
<1> QED
  BY <1>2, <1>3, MismasPaginas

\* The victim is one of the entries, and its search changes only bits.
LEMMA ElegirMantiene ==
  ASSUME NEW m, TipoCache(m), m.entradas # <<>>, m.aguja \in Nat \ {0}, NEW alg
  PROVE  LET e == Elegir(m, alg) IN
         /\ e.victima \in DOMAIN m.entradas
         /\ Lista(e.entradas) /\ Len(e.entradas) = Len(m.entradas)
         /\ DOMAIN e.entradas = DOMAIN m.entradas
         /\ \A i \in DOMAIN m.entradas : e.entradas[i].pagina = m.entradas[i].pagina
<1> DEFINE s == m.entradas
<1>1. Lista(s) /\ Len(s) \in Nat \ {0} /\ DOMAIN s = 1 .. Len(s)
  <2>1. Lista(s) /\ Len(s) \in Nat /\ DOMAIN s = 1 .. Len(s)
    BY ListaLargo DEF TipoCache
  <2>2. Len(s) # 0
    BY <2>1 DEF Lista
  <2> QED
    BY <2>1, <2>2
<1>2. \A i \in Nat : Lugar(m, i) \in DOMAIN s
  <2> SUFFICES ASSUME NEW i \in Nat PROVE ((m.aguja - 1 + i) % Len(s)) + 1 \in 1 .. Len(s)
    BY <1>1 DEF Lugar
  <2>1. m.aguja - 1 + i \in Int
    OBVIOUS
  <2>2. (m.aguja - 1 + i) % Len(s) \in 0 .. Len(s) - 1
    BY <1>1, <2>1
  <2> QED
    BY <1>1, <2>2
<1>3. \A n : /\ Lista(Pasadas(m, n)) /\ Len(Pasadas(m, n)) = Len(s)
             /\ DOMAIN Pasadas(m, n) = DOMAIN s
             /\ \A i \in DOMAIN s : Pasadas(m, n)[i].pagina = s[i].pagina
  <2> TAKE n
  <2> DEFINE q == Pasadas(m, n)
  <2>1. DOMAIN q = DOMAIN s /\ q = [i \in DOMAIN q |-> q[i]]
    BY DEF Pasadas
  <2>2. Lista(q) /\ Len(q) = Len(s)
    BY <1>1, <2>1, FuncionEsLista
  <2>3. \A i \in DOMAIN s : q[i].pagina = s[i].pagina
    <3>1. \A i \in DOMAIN s : q[i] \in {s[i], SinReferencia(s[i])}
      BY DEF Pasadas
    <3> QED
      BY <3>1 DEF SinReferencia
  <2> QED
    BY <2>1, <2>2, <2>3
<1>4. \E i \in Nat : \E n : Elegir(m, alg) = Elegida(m, i, n)
  <2>1. Vueltas(m) \subseteq Nat /\ SinR(m) \subseteq Nat /\ Limpias(m) \subseteq Nat
    BY <1>1 DEF Vueltas, SinR, Limpias
  <2>2. VictimaCLOCK(m) \in {Elegida(m, Min(SinR(m)), Min(SinR(m))), Elegida(m, 0, Len(s))}
        /\ (SinR(m) = {} => VictimaCLOCK(m) = Elegida(m, 0, Len(s)))
    BY DEF VictimaCLOCK
  <2>3. \E i \in Nat : \E n : VictimaCLOCK(m) = Elegida(m, i, n)
    BY <2>1, <2>2, MinEsta
  <2> DEFINE buenas == SinR(m) \cap Limpias(m)
  <2>4. \E i \in Nat : \E n : VictimaCLOCKM(m) = Elegida(m, i, n)
    <3>1. CASE buenas # {}
      <4>1. VictimaCLOCKM(m) = Elegida(m, Min(buenas), 0) /\ Min(buenas) \in Nat
        BY <2>1, <3>1, MinEsta DEF VictimaCLOCKM
      <4> QED
        BY <4>1
    <3>2. CASE buenas = {} /\ SinR(m) # {}
      <4>1. VictimaCLOCKM(m) = Elegida(m, Min(SinR(m)), Min(SinR(m))) /\ Min(SinR(m)) \in Nat
        BY <2>1, <3>2, MinEsta DEF VictimaCLOCKM
      <4> QED
        BY <4>1
    <3>3. CASE buenas = {} /\ SinR(m) = {}
      <4> DEFINE i == IF Limpias(m) = {} THEN 0 ELSE Min(Limpias(m))
      <4>1. VictimaCLOCKM(m) = Elegida(m, i, Len(s))
        BY <3>3 DEF VictimaCLOCKM
      <4>2. i \in Nat
        BY <2>1, MinEsta
      <4> QED
        BY <4>1, <4>2
    <3> QED
      BY <3>1, <3>2, <3>3
  <2> QED
    BY <2>3, <2>4 DEF Elegir
<1>5. PICK i \in Nat : \E n : Elegir(m, alg) = Elegida(m, i, n)
  BY <1>4
<1>6. PICK n : Elegir(m, alg) = Elegida(m, i, n)
  BY <1>5
<1>7. Elegir(m, alg).victima = Lugar(m, i) /\ Elegir(m, alg).entradas = Pasadas(m, n)
  BY <1>6 DEF Elegida
<1> QED
  BY <1>2, <1>3, <1>5, <1>7

LEMMA AgregarBuena ==
  ASSUME NEW cap \in Nat, NEW m, CacheBuena(m, cap), NEW nueva, nueva.pagina \in Pagina,
         m.indice[nueva.pagina] = 0, Len(m.entradas) < cap
  PROVE  CacheBuena(Agregar(m, nueva), cap)
<1> DEFINE s == m.entradas
           n == Len(s) + 1
           r == Agregar(m, nueva)
<1>1. Len(s) \in Nat /\ DOMAIN s = 1 .. Len(s)
  BY ListaLargo DEF CacheBuena, TipoCache
<1>2. r.entradas = Append(s, nueva) /\ r.aguja = m.aguja
      /\ r.indice = [m.indice EXCEPT ![nueva.pagina] = n]
  BY DEF Agregar
<1> HIDE DEF r
<1>3. /\ Lista(r.entradas) /\ Len(r.entradas) = n
      /\ \A i \in DOMAIN s : r.entradas[i] = s[i]
      /\ r.entradas[n] = nueva
  BY <1>2, AppendEsLista DEF CacheBuena, TipoCache
<1>4. DOMAIN r.entradas = 1 .. n
  BY <1>3, ListaLargo
<1>5. TipoCache(r)
  BY <1>1, <1>2, <1>3, <1>4 DEF CacheBuena, TipoCache
<1>6. \A k \in Pagina : r.indice[k] # 0 =>
        r.indice[k] \in 1 .. n /\ r.entradas[r.indice[k]].pagina = k
  BY <1>1, <1>2, <1>3 DEF CacheBuena, TipoCache, CacheFiel
<1>7. \A i \in 1 .. n : r.indice[r.entradas[i].pagina] = i
  <2>1. r.indice[r.entradas[n].pagina] = n
    BY <1>2, <1>3 DEF CacheBuena, TipoCache
  <2>2. ASSUME NEW i \in DOMAIN s PROVE r.indice[r.entradas[i].pagina] = i
    <3>1. m.indice[s[i].pagina] = i /\ s[i].pagina \in Pagina /\ i # 0
      BY <1>1 DEF CacheBuena, TipoCache, CacheFiel
    <3>2. s[i].pagina # nueva.pagina
      BY <3>1
    <3> QED
      BY <1>2, <1>3, <3>1, <3>2 DEF CacheBuena, TipoCache
  <2> QED
    BY <1>1, <2>1, <2>2
<1>8. CacheFiel(r, cap)
  BY <1>1, <1>2, <1>3, <1>4, <1>5, <1>6, <1>7 DEF CacheBuena, TipoCache, CacheFiel
<1> QED
  BY <1>5, <1>8 DEF CacheBuena, r

LEMMA ReemplazarBuena ==
  ASSUME NEW cap \in Nat \ {0}, NEW m, CacheBuena(m, cap), Len(m.entradas) = cap,
         NEW v \in DOMAIN m.entradas, NEW nueva, nueva.pagina \in Pagina,
         m.indice[nueva.pagina] = 0
  PROVE  CacheBuena(Reemplazar(m, v, nueva), cap)
<1> DEFINE s == m.entradas
           vieja == s[v].pagina
           r == Reemplazar(m, v, nueva)
<1>1. DOMAIN s = 1 .. cap
  BY ListaLargo DEF CacheBuena, TipoCache
<1>2. /\ r.entradas = [s EXCEPT ![v] = nueva] /\ r.aguja = (v % Len(s)) + 1
      /\ r.indice = [m.indice EXCEPT ![vieja] = 0, ![nueva.pagina] = v]
  BY DEF Reemplazar
<1> HIDE DEF r
<1>3. /\ Lista(r.entradas) /\ Len(r.entradas) = cap /\ DOMAIN r.entradas = DOMAIN s
      /\ \A i \in DOMAIN s : r.entradas[i] = IF i = v THEN nueva ELSE s[i]
  <2> DEFINE a == [s EXCEPT ![v] = nueva]
  <2>1. Lista(s)
    BY DEF CacheBuena, TipoCache
  <2>2. /\ Lista(a) /\ Len(a) = Len(s) /\ DOMAIN a = DOMAIN s
        /\ \A i \in DOMAIN s : a[i] = IF i = v THEN nueva ELSE s[i]
    BY <2>1, ExceptEsLista
  <2>3. r.entradas = a
    BY <1>2
  <2> HIDE DEF a
  <2> QED
    BY <2>2, <2>3
<1>4. r.aguja \in 1 .. cap
  <2>1. v % cap \in 0 .. cap - 1
    BY <1>1
  <2> QED
    BY <1>2, <2>1
<1>5. TipoCache(r)
  <2>1. r.indice \in [Pagina -> Nat] /\ r.aguja \in Nat
    BY <1>1, <1>2, <1>4 DEF CacheBuena, TipoCache
  <2>2. \A i \in DOMAIN s : r.entradas[i].pagina \in Pagina
    BY <1>3 DEF CacheBuena, TipoCache
  <2> QED
    BY <1>3, <2>1, <2>2 DEF TipoCache
<1>6. /\ r.indice[nueva.pagina] = v
      /\ \A k \in Pagina \ {nueva.pagina} : r.indice[k] = IF k = vieja THEN 0 ELSE m.indice[k]
  BY <1>2 DEF CacheBuena, TipoCache
<1>7. ASSUME NEW k \in Pagina, r.indice[k] # 0
      PROVE  r.indice[k] \in DOMAIN s /\ r.entradas[r.indice[k]].pagina = k
  <2>1. CASE k = nueva.pagina
    BY <1>3, <1>6, <2>1
  <2>2. CASE k # nueva.pagina
    <3>1. r.indice[k] = m.indice[k] /\ k # vieja
      BY <1>6, <1>7, <2>2
    <3>2. m.indice[k] \in DOMAIN s /\ s[m.indice[k]].pagina = k
      BY <1>7, <3>1 DEF CacheBuena, TipoCache, CacheFiel
    <3> QED
      BY <1>3, <3>1, <3>2
  <2> QED
    BY <2>1, <2>2
<1>8. ASSUME NEW i \in DOMAIN s PROVE r.indice[r.entradas[i].pagina] = i
  <2>1. CASE i = v
    BY <1>3, <1>6, <2>1
  <2>2. CASE i # v
    <3>1. /\ m.indice[s[i].pagina] = i /\ m.indice[vieja] = v
          /\ s[i].pagina \in Pagina /\ i # 0
      BY <1>1 DEF CacheBuena, TipoCache, CacheFiel
    <3>2. s[i].pagina # vieja /\ s[i].pagina # nueva.pagina
      BY <2>2, <3>1
    <3> QED
      BY <1>3, <1>6, <2>2, <3>1, <3>2
  <2> QED
    BY <2>1, <2>2
<1>9. CacheFiel(r, cap)
  BY <1>3, <1>4, <1>5, <1>7, <1>8 DEF CacheFiel, TipoCache
<1> QED
  BY <1>5, <1>9 DEF CacheBuena, r
---------------------------------------------------------------------------
(* The invariant. *)

\* The points of an instruction at which its page is one of the process.
ConPagina == {"traducir", "pedir", "insertar", "actualizar"}

TipoInstr(i) ==
  /\ {"pc", "pid", "op", "pagina", "valor", "marco", "contenido", "victima"} \subseteq DOMAIN i
  /\ i.pc \in ConPagina => i.pagina \in Pagina
  /\ config.cache = 0 => i.pc \notin {"pedir", "insertar", "actualizar"}

\* With a victim chosen, the cache is full and the page is not in it.
EnCurso(c) ==
  instr[c].pc = "actualizar" =>
    /\ cache[c].indice[instr[c].pagina] = 0
    /\ Len(cache[c].entradas) = config.cache
    /\ instr[c].victima \in DOMAIN cache[c].entradas

InvMMU ==
  /\ config \in Configs
  /\ DOMAIN instr = Cpu /\ DOMAIN cache = Cpu /\ DOMAIN tlb = Cpu
  /\ \A c \in Cpu :
       /\ TipoInstr(instr[c])
       /\ config.tlb > 0 => TLBBuena(tlb[c], config.tlb)
       /\ config.cache > 0 => CacheBuena(cache[c], config.cache) /\ EnCurso(c)

LEMMA Configuracion ==
  ASSUME config \in Configs
  PROVE  config.tlb \in Nat /\ config.cache \in Nat /\ config.cpus \subseteq Cpu
BY MemoriaVirtualOK

LEMMA InicioMMU == Init => InvMMU
<1> SUFFICES ASSUME Init PROVE InvMMU
  OBVIOUS
<1>1. config \in Configs /\ DOMAIN instr = Cpu /\ DOMAIN cache = Cpu /\ DOMAIN tlb = Cpu
  BY DEF Init
<1>2. config.tlb \in Nat /\ config.cache \in Nat
  BY <1>1, Configuracion
<1>3. ASSUME NEW c \in Cpu
      PROVE  /\ instr[c].pc = "libre" /\ TipoInstr(instr[c])
             /\ tlb[c] = NuevaTLB(Pagina) /\ cache[c] = NuevaCache(Pagina)
  BY DEF Init, TipoInstr, SinInstr, ConPagina
<1> QED
  BY <1>1, <1>2, <1>3, TLBNueva, CacheNueva DEF InvMMU, EnCurso

\* Between two instructions there is no page.
LEMMA EntreTipos ==
  ASSUME NEW p PROVE TipoInstr(Entre(p)) /\ Entre(p).pc = "fetch"
BY DEF TipoInstr, Entre, SinInstr, ConPagina

\* A step that leaves CPUs, caches and TLBs alone.
LEMMA MMUQuieta ==
  ASSUME InvMMU, UNCHANGED <<config, cache, tlb, instr>>
  PROVE  InvMMU'
BY DEF InvMMU, TipoInstr, EnCurso

\* A step of a CPU changes what that CPU has.
LEMMA UnaMMU ==
  ASSUME InvMMU, NEW c \in Cpu, NEW i, NEW m, NEW t, UNCHANGED config,
         instr' = [instr EXCEPT ![c] = i] \/ (instr' = instr /\ i = instr[c]),
         cache' = [cache EXCEPT ![c] = m] \/ (cache' = cache /\ m = cache[c]),
         tlb' = [tlb EXCEPT ![c] = t] \/ (tlb' = tlb /\ t = tlb[c]),
         TipoInstr(i),
         config.tlb > 0 => TLBBuena(t, config.tlb),
         config.cache > 0 =>
           /\ CacheBuena(m, config.cache)
           /\ i.pc = "actualizar" => /\ m.indice[i.pagina] = 0
                                     /\ Len(m.entradas) = config.cache
                                     /\ i.victima \in DOMAIN m.entradas
  PROVE  InvMMU'
<1>1. DOMAIN instr' = Cpu /\ DOMAIN cache' = Cpu /\ DOMAIN tlb' = Cpu /\ config' \in Configs
  BY DEF InvMMU
<1>2. instr'[c] = i /\ cache'[c] = m /\ tlb'[c] = t
  BY DEF InvMMU
<1>3. \A d \in Cpu \ {c} : instr'[d] = instr[d] /\ cache'[d] = cache[d] /\ tlb'[d] = tlb[d]
  BY DEF InvMMU
<1>4. ASSUME NEW d \in Cpu
      PROVE  (/\ TipoInstr(instr[d])
              /\ config.tlb > 0 => TLBBuena(tlb[d], config.tlb)
              /\ config.cache > 0 => CacheBuena(cache[d], config.cache) /\ EnCurso(d))'
  <2>1. CASE d = c
    BY <1>2, <2>1 DEF TipoInstr, EnCurso
  <2>2. CASE d # c
    BY <1>3, <2>2 DEF InvMMU, TipoInstr, EnCurso
  <2> QED
    BY <2>1, <2>2
<1> QED
  BY <1>1, <1>4 DEF InvMMU
---------------------------------------------------------------------------
(* The steps. *)

LEMMA Partes ==
  ASSUME InvMMU, NEW c \in Cpu
  PROVE  /\ TipoInstr(instr[c]) /\ config \in Configs
         /\ config.tlb \in Nat /\ config.cache \in Nat
         /\ config.tlb > 0 => TLBBuena(tlb[c], config.tlb)
         /\ config.cache > 0 => CacheBuena(cache[c], config.cache) /\ EnCurso(c)
BY Configuracion DEF InvMMU

\* A step that changes only where the CPU is, and does not choose a victim.
LEMMA SoloInstr ==
  ASSUME InvMMU, NEW c \in Cpu, UNCHANGED <<config, cache, tlb>>, NEW i,
         instr' = [instr EXCEPT ![c] = i], TipoInstr(i), i.pc # "actualizar"
  PROVE  InvMMU'
BY Partes, UnaMMU

LEMMA KernelMMU ==
  ASSUME InvMMU, NEW p \in Pid, PasoKernel(p) PROVE InvMMU'
BY MMUQuieta DEF PasoKernel, Admitir, Suspender, Reanudar, Finalizar

LEMMA DespachoMMU ==
  ASSUME InvMMU, NEW c \in Cpu, NEW p, Despachar(c, p) \/ Ceder(c) PROVE InvMMU'
<1>1. TipoInstr(SinInstr) /\ SinInstr.pc = "libre"
  BY DEF TipoInstr, SinInstr, ConPagina
<1>2. /\ UNCHANGED <<config, cache, tlb>>
      /\ instr' = [instr EXCEPT ![c] = Entre(p)] \/ instr' = [instr EXCEPT ![c] = SinInstr]
  BY DEF Despachar, Ceder
<1> QED
  BY <1>1, <1>2, EntreTipos, SoloInstr

LEMMA AcertarMMU ==
  ASSUME InvMMU, NEW c \in Cpu, NEW op, NEW k \in Pagina, NEW v, Acertar(c, op, k, v)
  PROVE  InvMMU'
<1> DEFINE m == cache[c]
           n == IF op = "WRITE" THEN Escrita(m, k, v) ELSE Leida(m, k)
<1>1. /\ instr[c].pc = "fetch" /\ m.indice[k] # 0 /\ config.cache > 0
      /\ cache' = [cache EXCEPT ![c] = n] /\ UNCHANGED <<config, tlb, instr>>
  BY DEF Acertar, EnCache
<1>2. CacheBuena(m, config.cache) /\ config.cache \in Nat
  BY <1>1, Partes
<1>3. CacheBuena(Escrita(m, k, v), config.cache)
  <2> DEFINE e == [pagina |-> k, pid |-> Copia(m, k).pid, contenido |-> v, r |-> TRUE, d |-> TRUE]
             q == Escrita(m, k, v)
  <2>1. /\ q.indice = m.indice /\ q.aguja = m.aguja
        /\ q.entradas = [m.entradas EXCEPT ![m.indice[k]] = e]
    BY DEF Escrita
  <2>2. e.pagina = k
    OBVIOUS
  <2> HIDE DEF e, q, m
  <2>3. CacheBuena(q, config.cache)
    BY <1>1, <1>2, <2>1, <2>2, EnSuLugar
  <2> QED
    BY <2>3 DEF q
<1>4. CacheBuena(Leida(m, k), config.cache)
  <2> DEFINE e == [pagina |-> k, pid |-> Copia(m, k).pid, contenido |-> Copia(m, k).contenido,
                   r |-> TRUE, d |-> Copia(m, k).d]
             q == Leida(m, k)
  <2>1. /\ q.indice = m.indice /\ q.aguja = m.aguja
        /\ q.entradas = [m.entradas EXCEPT ![m.indice[k]] = e]
    BY DEF Leida
  <2>2. e.pagina = k
    OBVIOUS
  <2> HIDE DEF e, q, m
  <2>3. CacheBuena(q, config.cache)
    BY <1>1, <1>2, <2>1, <2>2, EnSuLugar
  <2> QED
    BY <2>3 DEF q
<1>5. CacheBuena(n, config.cache)
  BY <1>3, <1>4
<1> HIDE DEF n
<1> QED
  BY <1>1, <1>5, Partes, UnaMMU

LEMMA FallarMMU ==
  ASSUME InvMMU, NEW c \in Cpu, NEW op, NEW k \in Pagina, NEW v, Fallar(c, op, k, v)
  PROVE  InvMMU'
<1> DEFINE i == [Entre(instr[c].pid) EXCEPT !.pc = "traducir", !.op = op, !.pagina = k,
                                            !.valor = v]
<1>1. instr' = [instr EXCEPT ![c] = i] /\ UNCHANGED <<config, cache, tlb>>
  BY DEF Fallar
<1>2. TipoInstr(i) /\ i.pc = "traducir"
  BY DEF TipoInstr, Entre, SinInstr, ConPagina
<1> HIDE DEF i
<1> QED
  BY <1>1, <1>2, SoloInstr

\* ConseguirDireccionFisica changes only the TLB.
LEMMA TraducirMMU ==
  ASSUME InvMMU, NEW c \in Cpu, Traducir(c) PROVE InvMMU'
<1> DEFINE p == instr[c].pid
           k == instr[c].pagina
           d == Direccion(c, p, k)
           pc == IF config.cache > 0 THEN "pedir" ELSE "enviar"
           i == [instr[c] EXCEPT !.marco = d.marco, !.pc = pc]
<1>1. /\ instr[c].pc = "traducir" /\ UNCHANGED <<config, cache>>
      /\ tlb' = [tlb EXCEPT ![c] = d.tlb] /\ instr' = [instr EXCEPT ![c] = i]
  BY DEF Traducir
<1>2. k \in Pagina
  BY <1>1, Partes DEF TipoInstr, ConPagina
<1> HIDE DEF p, k
<1>3. config.tlb > 0 => TLBBuena(d.tlb, config.tlb)
  BY <1>2, Partes, DireccionBuena
<1> HIDE DEF d
<1>4. TipoInstr(i) /\ i.pc # "actualizar"
  BY <1>1, <1>2, Partes DEF TipoInstr, ConPagina, k
<1> HIDE DEF i
<1> QED
  BY <1>1, <1>3, <1>4, Partes, UnaMMU

\* The requests to the memory module change what the CPU knows, and go on.
LEMMA PedidosMMU ==
  ASSUME InvMMU, NEW c \in Cpu, Pedir(c) \/ Enviar(c) \/ Acceder(c) \/ EnviarSinMarco(c)
  PROVE  InvMMU'
<1>1. UNCHANGED <<config, cache, tlb>>
  BY DEF Pedir, Enviar, Acceder, EnviarSinMarco
<1>2. CASE Pedir(c)
  <2> DEFINE v == memoria[IF instr[c].marco = NoHay THEN 0 ELSE instr[c].marco]
             i == [instr[c] EXCEPT !.pc = "insertar", !.contenido = v]
  <2>1. instr[c].pc = "pedir" /\ instr' = [instr EXCEPT ![c] = i]
    BY <1>2 DEF Pedir, Decodificado
  <2>2. TipoInstr(i) /\ i.pc = "insertar"
    BY <2>1, Partes DEF TipoInstr, ConPagina
  <2> HIDE DEF i
  <2> QED
    BY <1>1, <2>1, <2>2, SoloInstr
<1>3. CASE Enviar(c)
  <2> DEFINE i == [instr[c] EXCEPT !.pc = "acceder", !.copia = procesos[instr[c].pid]]
  <2>1. instr' = [instr EXCEPT ![c] = i]
    BY <1>3 DEF Enviar
  <2>2. TipoInstr(i) /\ i.pc = "acceder"
    BY Partes DEF TipoInstr, ConPagina
  <2> HIDE DEF i
  <2> QED
    BY <1>1, <2>1, <2>2, SoloInstr
<1>4. CASE Acceder(c) \/ EnviarSinMarco(c)
  <2>1. instr' = [instr EXCEPT ![c] = Entre(instr[c].pid)]
    BY <1>4 DEF Acceder, EnviarSinMarco
  <2> QED
    BY <1>1, <2>1, EntreTipos, SoloInstr
<1> QED
  BY <1>2, <1>3, <1>4

\* An instruction that ends with a good cache.
LEMMA CompletarMMU ==
  ASSUME InvMMU, NEW c \in Cpu, UNCHANGED config, NEW m, Completar(c, m), UNCHANGED tlb,
         CacheBuena(m, config.cache)
  PROVE  InvMMU'
<1>1. /\ cache' = [cache EXCEPT ![c] = m]
      /\ instr' = [instr EXCEPT ![c] = Entre(instr[c].pid)]
  BY DEF Completar
<1> QED
  BY <1>1, EntreTipos, Partes, UnaMMU

LEMMA NuevaEsDeLaPagina ==
  ASSUME NEW c PROVE Nueva(c).pagina = instr[c].pagina
BY DEF Nueva

\* At "insertar" and "actualizar" there is a cache, and a page to put.
LEMMA AlInsertar ==
  ASSUME InvMMU, NEW c \in Cpu, instr[c].pc \in {"insertar", "actualizar"}
  PROVE  /\ config.cache \in Nat \ {0} /\ Nueva(c).pagina \in Pagina
         /\ CacheBuena(cache[c], config.cache) /\ EnCurso(c)
BY Partes, NuevaEsDeLaPagina DEF TipoInstr, ConPagina

LEMMA InsertarMMU ==
  ASSUME InvMMU, NEW c \in Cpu, InsertarEncima(c) \/ InsertarAlFinal(c)
  PROVE  InvMMU'
<1> DEFINE m == cache[c]
           e == Nueva(c)
<1>1. /\ UNCHANGED <<config, tlb>> /\ instr[c].pc = "insertar"
  BY DEF InsertarEncima, InsertarAlFinal
<1>2. /\ config.cache \in Nat \ {0} /\ e.pagina \in Pagina /\ e.pagina = instr[c].pagina
      /\ CacheBuena(m, config.cache)
  BY <1>1, AlInsertar, NuevaEsDeLaPagina
<1> HIDE DEF e
<1>3. CASE InsertarEncima(c)
  <2> DEFINE n == Sobrescribir(m, e)
  <2>1. m.indice[e.pagina] # 0 /\ Completar(c, n)
    BY <1>2, <1>3 DEF InsertarEncima, e
  <2>2. /\ n.indice = m.indice /\ n.aguja = m.aguja
        /\ n.entradas = [m.entradas EXCEPT ![m.indice[e.pagina]] = e]
    BY DEF Sobrescribir
  <2> HIDE DEF n, m
  <2>3. CacheBuena(n, config.cache)
    BY <1>2, <2>1, <2>2, EnSuLugar
  <2> QED
    BY <1>1, <2>1, <2>3, CompletarMMU
<1>4. CASE InsertarAlFinal(c)
  <2> DEFINE n == Agregar(m, e)
  <2>1. m.indice[e.pagina] = 0 /\ Completar(c, n) /\ Len(m.entradas) < config.cache
    BY <1>2, <1>4 DEF InsertarAlFinal, e
  <2>2. CacheBuena(n, config.cache)
    BY <1>2, <2>1, AgregarBuena
  <2> HIDE DEF n
  <2> QED
    BY <1>1, <2>1, <2>2, CompletarMMU
<1> QED
  BY <1>3, <1>4

\* The search of a victim, and what follows when it was not modified.
LEMMA ElegirVictimaMMU ==
  ASSUME InvMMU, NEW c \in Cpu, ElegirVictima(c) PROVE InvMMU'
<1> DEFINE m == cache[c]
           e == Elegir(m, config.algCache)
           w == e.victima
           b == Barrida(m, e.entradas)
           v == e.entradas[w]
           d == Direccion(c, v.pid, v.pagina)
<1>1. /\ instr[c].pc = "insertar" /\ m.indice[instr[c].pagina] = 0
      /\ Len(m.entradas) >= config.cache /\ UNCHANGED config
      /\ \/ /\ tlb' = [tlb EXCEPT ![c] = d.tlb] /\ cache' = [cache EXCEPT ![c] = b]
            /\ instr' = [instr EXCEPT ![c].pc = "actualizar", ![c].victima = w,
                                      ![c].marco = d.marco]
         \/ Completar(c, Reemplazar(b, w, Nueva(c))) /\ UNCHANGED tlb
  BY DEF ElegirVictima
<1>2. /\ config.cache \in Nat \ {0} /\ Nueva(c).pagina \in Pagina
      /\ CacheBuena(m, config.cache)
  BY <1>1, AlInsertar
<1>3. Len(m.entradas) = config.cache /\ DOMAIN m.entradas = 1 .. config.cache
  <2>1. Lista(m.entradas) /\ Len(m.entradas) <= config.cache
    BY <1>2 DEF CacheBuena, TipoCache, CacheFiel
  <2>2. Len(m.entradas) \in Nat /\ DOMAIN m.entradas = 1 .. Len(m.entradas)
    BY <2>1, ListaLargo
  <2> QED
    BY <1>1, <1>2, <2>1, <2>2
<1>4. /\ w \in DOMAIN m.entradas
      /\ Lista(e.entradas) /\ Len(e.entradas) = Len(m.entradas)
      /\ DOMAIN e.entradas = DOMAIN m.entradas
      /\ \A i \in DOMAIN m.entradas : e.entradas[i].pagina = m.entradas[i].pagina
  <2>1. m.entradas # <<>> /\ m.aguja \in Nat \ {0} /\ TipoCache(m)
    BY <1>2, <1>3 DEF CacheBuena, CacheFiel, TipoCache
  <2> HIDE DEF m
  <2> QED
    BY <2>1, ElegirMantiene
<1>5. v.pagina \in Pagina
  BY <1>2, <1>4 DEF CacheBuena, TipoCache
<1> HIDE DEF e, w
<1>6. b.entradas = e.entradas /\ b.indice = m.indice /\ b.aguja = m.aguja
  BY DEF Barrida
<1> HIDE DEF b
<1>7. CacheBuena(b, config.cache)
  BY <1>2, <1>4, <1>6, MismasPaginas
<1>8. CASE Completar(c, Reemplazar(b, w, Nueva(c))) /\ UNCHANGED tlb
  <2>1. b.indice[Nueva(c).pagina] = 0
    BY <1>1, <1>6, NuevaEsDeLaPagina
  <2>2. CacheBuena(Reemplazar(b, w, Nueva(c)), config.cache)
    BY <1>2, <1>3, <1>4, <1>6, <1>7, <2>1, ReemplazarBuena
  <2> QED
    BY <1>1, <1>8, <2>2, CompletarMMU
<1>9. CASE /\ tlb' = [tlb EXCEPT ![c] = d.tlb] /\ cache' = [cache EXCEPT ![c] = b]
           /\ instr' = [instr EXCEPT ![c].pc = "actualizar", ![c].victima = w,
                                     ![c].marco = d.marco]
  <2>1. config.tlb > 0 => TLBBuena(d.tlb, config.tlb)
    <3> HIDE DEF v
    <3> QED
      BY <1>5, Partes, DireccionBuena
  <2> HIDE DEF d
  <2> DEFINE i == [instr[c] EXCEPT !.pc = "actualizar", !.victima = w, !.marco = d.marco]
  <2>2. instr' = [instr EXCEPT ![c] = i]
    BY <1>9
  <2>3. TipoInstr(instr[c]) /\ instr[c].pagina \in Pagina
    BY <1>1, Partes DEF TipoInstr, ConPagina
  <2>4. TipoInstr(i) /\ i.victima = w /\ i.pagina = instr[c].pagina
    BY <1>2, <2>3 DEF TipoInstr
  <2>5. /\ b.indice[i.pagina] = 0 /\ Len(b.entradas) = config.cache
        /\ i.victima \in DOMAIN b.entradas
    BY <1>1, <1>3, <1>4, <1>6, <2>4
  <2> HIDE DEF i
  <2> QED
    BY <1>1, <1>7, <1>9, <2>1, <2>2, <2>4, <2>5, UnaMMU
<1> QED
  BY <1>1, <1>8, <1>9

LEMMA ActualizarVictimaMMU ==
  ASSUME InvMMU, NEW c \in Cpu, ActualizarVictima(c) PROVE InvMMU'
<1> DEFINE m == cache[c]
           w == instr[c].victima
           n == Reemplazar(m, w, Nueva(c))
<1>1. UNCHANGED <<config, tlb>> /\ instr[c].pc = "actualizar" /\ Completar(c, n)
  BY DEF ActualizarVictima
<1>2. /\ config.cache \in Nat \ {0} /\ Nueva(c).pagina \in Pagina
      /\ CacheBuena(m, config.cache) /\ EnCurso(c)
  BY <1>1, AlInsertar
<1>3. /\ m.indice[Nueva(c).pagina] = 0 /\ Len(m.entradas) = config.cache
      /\ w \in DOMAIN m.entradas
  BY <1>1, <1>2, NuevaEsDeLaPagina DEF EnCurso
<1> HIDE DEF w
<1>4. CacheBuena(n, config.cache)
  BY <1>2, <1>3, ReemplazarBuena
<1> HIDE DEF n
<1> QED
  BY <1>1, <1>4, CompletarMMU

LEMMA CpuMMU ==
  ASSUME InvMMU, NEW c \in Cpu, PasoCpu(c) PROVE InvMMU'
BY AcertarMMU, FallarMMU, TraducirMMU, PedidosMMU, InsertarMMU, ElegirVictimaMMU,
   ActualizarVictimaMMU DEF PasoCpu

LEMMA PasoMMU == InvMMU /\ [Next]_vars => InvMMU'
<1> SUFFICES ASSUME InvMMU, [Next]_vars PROVE InvMMU'
  OBVIOUS
<1>1. CASE Next
  <2>1. config.cpus \subseteq Cpu
    BY Configuracion DEF InvMMU
  <2> QED
    BY <1>1, <2>1, CpuMMU, DespachoMMU, KernelMMU DEF Next
<1>2. CASE UNCHANGED vars
  BY <1>2, MMUQuieta DEF vars
<1> QED
  BY <1>1, <1>2

\* The maps of TLB and page cache lead to entries of the page that is looked
\* for, no page is twice in a cache, no list outgrows its configuration and the
\* victim of a replacement is not lost while its page is being written.
THEOREM IndicesSiempreFieles == Spec => []IndicesFieles
<1>1. InvMMU => IndicesFieles
  BY DEF InvMMU, IndicesFieles, TLBBuena, CacheBuena, EnCurso, VictimaEnCurso
<1> QED
  BY <1>1, InicioMMU, PasoMMU, PTL DEF Spec

\* construirNivel, ExtraerEntradasYDesplazamiento and obtenerMarcoDesdeTabla agree,
\* for any levels, entries and pages: every page of a good shape is found where
\* the CPU looks for it, nothing is found where there is none, and no shape leads
\* to another page.
LEMMA FormasSiempre == FormasAlcanzan
<1> SUFFICES ASSUME NEW f \in Formas
             PROVE  /\ FormaBuena(f[1], f[2], f[3]) => Alcanza(f[1], f[2], f[3])
                    /\ \A k \in 0 .. Exp(f[2], f[1]) - 1 :
                         PaginaHallada(f[1], f[2], f[3], k) \in {k, NoHay}
  BY DEF FormasAlcanzan
<1>1. PICK l \in Nat \ {0}, e \in Nat \ {0}, n \in Nat : l = f[1] /\ e = f[2] /\ n = f[3]
  BY FormasOK
<1>2. Exp(e, l) \in Nat \ {0}
  <2>1. l \in Nat
    OBVIOUS
  <2> QED
    BY <2>1, ExpTipo
<1>3. ASSUME NEW k \in 0 .. Exp(e, l) - 1 PROVE PaginaHallada(l, e, n, k) \in {k, NoHay}
  <2>1. k \in Nat /\ k < Exp(e, l)
    BY <1>2
  <2> QED
    BY <2>1, Hallada
<1>4. ASSUME FormaBuena(l, e, n) PROVE Alcanza(l, e, n)
  <2>1. n <= Exp(e, l)
    BY <1>4 DEF FormaBuena
  <2>2. ASSUME NEW k \in 0 .. n - 1 PROVE PaginaHallada(l, e, n, k) = k
    <3>1. k \in Nat /\ k < Exp(e, l) /\ k < n
      BY <1>2, <2>1
    <3> QED
      BY <1>4, <3>1, HalladaSiBuena
  <2>3. ASSUME NEW k \in n .. Exp(e, l) - 1 PROVE PaginaHallada(l, e, n, k) = NoHay
    <3>1. k \in Nat /\ k < Exp(e, l) /\ ~ (k < n)
      BY <1>2
    <3> QED
      BY <1>4, <3>1, HalladaSiBuena
  <2> QED
    BY <2>2, <2>3 DEF Alcanza
<1> QED
  BY <1>1, <1>3, <1>4

\* The same of the tables of the processes that live, whatever the configuration.
LEMMA TablasAlcanzan ==
  ASSUME InvMMU, NEW p \in Pid, Vive(p), NEW k \in Pagina,
         FormaBuena(config.niveles, config.porTabla, config.paginas[p]),
         k \in 0 .. Exp(config.porTabla, config.niveles) - 1
  PROVE  MarcoDe(p, k) = IF k < config.paginas[p] THEN procesos[p].marcos[k + 1] ELSE NoHay
<1>1. config \in Configs
  BY DEF InvMMU
<1>2. /\ config.niveles \in Nat \ {0} /\ config.porTabla \in Nat \ {0}
      /\ config.paginas[p] \in Nat
  BY <1>1, MemoriaVirtualOK
<1>3. PICK l \in Nat \ {0}, e \in Nat \ {0}, n \in Nat :
        l = config.niveles /\ e = config.porTabla /\ n = config.paginas[p]
  BY <1>2
<1>4. k \in Nat /\ k < Exp(e, l)
  <2>1. l \in Nat
    OBVIOUS
  <2>2. Exp(e, l) \in Nat \ {0}
    BY <2>1, ExpTipo
  <2>3. k \in 0 .. Exp(e, l) - 1
    BY <1>3
  <2> QED
    BY <2>2, <2>3
<1>5. FormaBuena(l, e, n)
  BY <1>3
<1>6. /\ k < n => PaginaHallada(l, e, n, k) = k
      /\ ~ (k < n) => PaginaHallada(l, e, n, k) = NoHay
  BY <1>4, <1>5, HalladaSiBuena
<1>7. MarcoDe(p, k) = IF PaginaHallada(l, e, n, k) = NoHay THEN NoHay
                      ELSE procesos[p].marcos[PaginaHallada(l, e, n, k) + 1]
  BY <1>3 DEF MarcoDe
<1>8. k # NoHay
  BY <1>4 DEF NoHay
<1> QED
  BY <1>3, <1>6, <1>7, <1>8

\* The page table a process gets has every page where the CPU looks for it
\* (crearTabla, ExtraerEntradasYDesplazamiento, obtenerMarcoDesdeTabla), and
\* nothing where it has none, for every good shape and while it lives, in frames
\* or back in others; no shape leads a page with indexes of its own to another.
THEOREM TablaSiempreAlcanza == Spec => []TablaAlcanza
<1>1. InvMMU => TablaAlcanza
  <2> SUFFICES ASSUME InvMMU PROVE TablaAlcanza
    OBVIOUS
  <2>1. ASSUME NEW p \in Pid, Vive(p),
               FormaBuena(config.niveles, config.porTabla, config.paginas[p]),
               NEW k \in Pagina \cap 0 .. Exp(config.porTabla, config.niveles) - 1
        PROVE  MarcoDe(p, k) = IF k < config.paginas[p] THEN procesos[p].marcos[k + 1] ELSE NoHay
    BY <2>1, TablasAlcanzan
  <2> QED
    BY <2>1, FormasSiempre, Zenon DEF TablaAlcanza
<1> QED
  BY <1>1, InicioMMU, PasoMMU, PTL DEF Spec
---------------------------------------------------------------------------
(* What each variable of the memory of the programs may hold. *)

\* The points of an instruction at which it has a page.
EnOperacion == {"traducir", "pedir", "insertar", "actualizar", "enviar", "acceder"}

Instr ==
  [pc : PCsInstr, pid : Pid \cup {NADA}, op : {"", "READ", "WRITE"}, pagina : Pagina,
   valor : Valor, marco : Marco \cup {NoHay}, contenido : Valor, victima : Nat,
   copia : Proceso \cup {NADA}]

\* An entry of Procesos has as many frames as the process has pages, and as
\* much in swap when it is there.
Cuadra(p, r) ==
  r # NADA => /\ Len(r.marcos) = config.paginas[p]
              /\ r.suspendido => Len(r.swap) = config.paginas[p]

\* A page that its process has.
DeUnProceso(e) == e.pid \in Pid /\ e.pagina \in Pagina /\ e.pagina < config.paginas[e.pid]

InstrBien(i) ==
  /\ i \in Instr
  /\ (i.pid = NADA) = (i.pc = "libre")
  /\ i.pc \in EnOperacion => DeUnProceso(i) /\ i.op # ""
  /\ i.pc = "acceder" => i.marco # NoHay /\ Cuadra(i.pid, i.copia)

TraduccionBien(e) == DeUnProceso(e) /\ e.marco \in Marco

CopiaBien(e) == DeUnProceso(e) /\ e.contenido \in Valor

InvDatos ==
  /\ procesos \in [Pid -> Proceso \cup {NADA}]
  /\ \A p \in Pid : Cuadra(p, procesos[p])
  /\ terminados \subseteq Pid /\ trabada \in BOOLEAN
  /\ memoria \in [Marco -> Valor]
  /\ lectura \in Lectura \cup {NADA}

InvCpus ==
  \A c \in Cpu :
    /\ InstrBien(instr[c])
    /\ config.tlb > 0 => \A i \in DOMAIN tlb[c].entradas : TraduccionBien(tlb[c].entradas[i])
    /\ config.cache > 0 => \A i \in DOMAIN cache[c].entradas : CopiaBien(cache[c].entradas[i])

InvTiposMV == InvDatos /\ InvCpus

LEMMA Datos ==
  /\ NMarcos \in Nat \ {0} /\ Pagina \subseteq Nat /\ 0 \in Pagina /\ CERO \in Valor
  /\ Marco \subseteq Nat /\ NoHay \notin Marco
BY MemoriaVirtualOK DEF Marco, NoHay

LEMMA PaginasDe ==
  ASSUME config \in Configs, NEW p \in Pid
  PROVE  /\ config.paginas[p] \in Nat /\ 0 .. config.paginas[p] - 1 \subseteq Pagina
         /\ config.alternan \in BOOLEAN /\ config.medio \in BOOLEAN
         /\ config.cpus \subseteq Cpu
BY MemoriaVirtualOK

LEMMA TiposDeMV == InvMMU /\ InvTiposMV => TiposMV
BY DEF InvMMU, InvTiposMV, InvDatos, InvCpus, InstrBien, Instr, TiposMV

LEMMA SinInstrBien == InstrBien(SinInstr)
BY Datos, NADAAparte DEF InstrBien, Instr, SinInstr, PCsInstr, EnOperacion

LEMMA EntreBien == ASSUME NEW p \in Pid PROVE InstrBien(Entre(p))
<1>1. SinInstr \in Instr
  BY SinInstrBien DEF InstrBien
<1> DEFINE s == SinInstr
           e == [s EXCEPT !.pc = "fetch", !.pid = p]
<1>2. Entre(p) = e
  BY DEF Entre
<1> HIDE DEF s
<1>3. e \in Instr /\ e.pc = "fetch" /\ e.pid = p
  BY <1>1 DEF Instr, PCsInstr, s
<1> HIDE DEF e
<1> QED
  BY <1>2, <1>3, NADAAparte DEF InstrBien, EnOperacion

LEMMA InicioTiposMV == Init => InvTiposMV
<1> SUFFICES ASSUME Init PROVE InvTiposMV
  OBVIOUS
<1>1. InvDatos
  BY Datos DEF Init, InvDatos, Cuadra
<1>2. ASSUME NEW c \in Cpu
      PROVE  /\ instr[c] = SinInstr
             /\ DOMAIN tlb[c].entradas = {} /\ DOMAIN cache[c].entradas = {}
  <2>1. tlb[c].entradas = <<>> /\ cache[c].entradas = <<>>
    BY DEF Init, NuevaTLB, NuevaCache
  <2> QED
    BY <2>1 DEF Init
<1>3. InvCpus
  BY <1>2, SinInstrBien DEF InvCpus
<1> QED
  BY <1>1, <1>3 DEF InvTiposMV
---------------------------------------------------------------------------
(* What the steps of the kernel and the memory module leave. *)

LEMMA LibresSon ==
  ASSUME NEW n \in Nat, NEW marcos \in Libres(n)
  PROVE  /\ marcos \in Seq(Marco) /\ Len(marcos) = n /\ DOMAIN marcos = 1 .. n
         /\ \A i \in 1 .. n : marcos[i] \in Marco \ Ocupados
         /\ \A i, j \in 1 .. n : marcos[i] = marcos[j] => i = j
<1>1. /\ marcos \in [1 .. n -> Marco \ Ocupados]
      /\ \A i, j \in 1 .. n : i < j => marcos[i] < marcos[j]
  BY DEF Libres
<1>2. marcos \in [1 .. n -> Marco] /\ \A i \in 1 .. n : marcos[i] \in Nat
  BY <1>1, Datos
<1>3. marcos \in Seq(Marco)
  BY <1>2, SeqDef
<1>4. Len(marcos) = n
  BY <1>2, <1>3, LenProperties
<1>5. ASSUME NEW i \in 1 .. n, NEW j \in 1 .. n, marcos[i] = marcos[j] PROVE i = j
  <2>1. marcos[i] \in Nat /\ ~(marcos[i] < marcos[j]) /\ ~(marcos[j] < marcos[i])
    BY <1>2, <1>5
  <2>2. ~(i < j) /\ ~(j < i)
    BY <1>1, <2>1
  <2> QED
    BY <2>2
<1> QED
  BY <1>1, <1>2, <1>3, <1>4, <1>5

\* A step of the kernel: p gets another entry, and memory other contents.
LEMMA PasoDatos ==
  ASSUME InvMMU, InvTiposMV, NEW p \in Pid, NEW r \in Proceso \cup {NADA}, Cuadra(p, r),
         procesos' = [procesos EXCEPT ![p] = r],
         terminados' = terminados \/ terminados' = terminados \cup {p},
         memoria' \in [Marco -> Valor],
         UNCHANGED <<config, trabada, cache, tlb, instr>>, Nada
  PROVE  InvTiposMV'
<1>1. InvDatos'
  BY DEF InvTiposMV, InvDatos, Cuadra, Nada
<1>2. InvCpus'
  BY DEF InvTiposMV, InvCpus, InstrBien, Cuadra, DeUnProceso, TraduccionBien, CopiaBien
<1> QED
  BY <1>1, <1>2 DEF InvTiposMV

LEMMA EntradaDe ==
  ASSUME InvTiposMV, NEW p \in Pid, Vive(p)
  PROVE  LET r == procesos[p] IN
         /\ r \in Proceso /\ Cuadra(p, r)
         /\ r = [suspendido |-> r.suspendido, marcos |-> r.marcos, swap |-> r.swap]
         /\ r.suspendido \in BOOLEAN
         /\ r.marcos \in Seq(Marco) /\ r.swap \in Seq(Valor)
         /\ Len(r.marcos) = config.paginas[p] /\ DOMAIN r.marcos = 1 .. Len(r.marcos)
         /\ \A i \in DOMAIN r.marcos : r.marcos[i] \in Marco
         /\ DOMAIN r.swap = 1 .. Len(r.swap)
         /\ \A i \in DOMAIN r.swap : r.swap[i] \in Valor
         /\ r.suspendido => Len(r.swap) = config.paginas[p]
<1>1. procesos[p] \in Proceso /\ Cuadra(p, procesos[p])
  BY DEF InvTiposMV, InvDatos, Vive
<1>2. \A r \in Proceso :
        /\ r = [suspendido |-> r.suspendido, marcos |-> r.marcos, swap |-> r.swap]
        /\ r.suspendido \in BOOLEAN
        /\ r.marcos \in Seq(Marco) /\ r.swap \in Seq(Valor)
  BY DEF Proceso
<1>3. Cuadra(p, procesos[p]) /\ procesos[p] # NADA
  BY <1>1 DEF Vive
<1>4. \A S, s : s \in Seq(S) => DOMAIN s = 1 .. Len(s) /\ \A i \in DOMAIN s : s[i] \in S
  <2> TAKE S, s
  <2> HAVE s \in Seq(S)
  <2>1. Len(s) \in Nat /\ s \in [1 .. Len(s) -> S]
    BY LenProperties
  <2> QED
    BY <2>1
<1> QED
  BY <1>1, <1>2, <1>3, <1>4 DEF Cuadra

LEMMA AdmitirTipos ==
  ASSUME InvMMU, InvTiposMV, NEW p \in Pid, Admitir(p) PROVE InvTiposMV'
<1>1. PICK marcos \in Libres(config.paginas[p]) :
        procesos' = [procesos EXCEPT ![p] =
          [suspendido |-> FALSE, marcos |-> marcos, swap |-> <<>>]]
  BY DEF Admitir
<1>2. config.paginas[p] \in Nat
  BY PaginasDe DEF InvMMU
<1>3. marcos \in Seq(Marco) /\ Len(marcos) = config.paginas[p]
  BY <1>2, LibresSon
<1> DEFINE r == [suspendido |-> FALSE, marcos |-> marcos, swap |-> <<>>]
<1>4. r \in Proceso /\ Cuadra(p, r)
  BY <1>3 DEF Proceso, Cuadra
<1>5. memoria' \in [Marco -> Valor]
  BY DEF InvTiposMV, InvDatos, Admitir
<1>6. UNCHANGED <<config, terminados, trabada, cache, tlb, instr>> /\ Nada
  BY DEF Admitir
<1>7. procesos' = [procesos EXCEPT ![p] = r]
  BY <1>1
<1> HIDE DEF r
<1> QED
  BY <1>4, <1>5, <1>6, <1>7, PasoDatos

LEMMA VaciarTipos ==
  ASSUME InvTiposMV, NEW marcos, Vaciar(marcos) PROVE memoria' \in [Marco -> Valor]
BY Datos DEF Vaciar, InvTiposMV, InvDatos

\* The entry of a process that is suspended.
EnSwap(p) ==
  [suspendido |-> TRUE, marcos |-> procesos[p].marcos,
   swap |-> [k \in DOMAIN procesos[p].marcos |-> memoria[procesos[p].marcos[k]]]]

LEMMA SuspenderEfecto ==
  ASSUME InvMMU, InvTiposMV, NEW p \in Pid, Suspender(p)
  PROVE  /\ procesos' = [procesos EXCEPT ![p] = EnSwap(p)]
         /\ EnSwap(p) \in Proceso /\ Cuadra(p, EnSwap(p))
<1>1. Vive(p)
  BY DEF Suspender
<1> DEFINE r == procesos[p]
           s == [k \in DOMAIN r.marcos |-> memoria[r.marcos[k]]]
<1>2. /\ r = [suspendido |-> r.suspendido, marcos |-> r.marcos, swap |-> r.swap]
      /\ r.marcos \in Seq(Marco) /\ Len(r.marcos) = config.paginas[p]
      /\ DOMAIN r.marcos = 1 .. Len(r.marcos)
      /\ \A i \in DOMAIN r.marcos : r.marcos[i] \in Marco
  BY <1>1, EntradaDe, Zenon
<1>3. /\ procesos' = [procesos EXCEPT ![p].suspendido = TRUE, ![p].swap = s]
  BY DEF Suspender
<1>4. s \in Seq(Valor) /\ Len(s) = config.paginas[p]
  <2>1. memoria \in [Marco -> Valor] /\ Len(r.marcos) \in Nat
    BY <1>2, PaginasDe DEF InvTiposMV, InvDatos, InvMMU
  <2>2. s \in [1 .. Len(r.marcos) -> Valor]
    BY <1>2, <2>1
  <2> HIDE DEF s
  <2>3. s \in Seq(Valor)
    BY <2>1, <2>2, SeqDef
  <2> QED
    BY <1>2, <2>1, <2>2, <2>3, LenProperties
<1>5. DOMAIN procesos = Pid
  BY DEF InvTiposMV, InvDatos
<1> HIDE DEF s
<1>6. procesos' = [procesos EXCEPT ![p] =
                     [suspendido |-> TRUE, marcos |-> r.marcos, swap |-> s]]
  <2> DEFINE q == [suspendido |-> TRUE, marcos |-> r.marcos, swap |-> s]
             e == [r EXCEPT !.suspendido = TRUE, !.swap = s]
  <2>1. procesos' = [procesos EXCEPT ![p] = e]
    BY <1>3, <1>5
  <2>2. e = q
    <3>1. r \in Proceso
      BY <1>1, EntradaDe
    <3> HIDE DEF r
    <3>2. /\ e \in [suspendido : BOOLEAN, marcos : Seq(Marco), swap : Seq(Valor)]
          /\ e.suspendido = TRUE /\ e.marcos = r.marcos /\ e.swap = s
      BY <1>4, <3>1 DEF Proceso
    <3> HIDE DEF e
    <3> QED
      BY <3>2
  <2> HIDE DEF e
  <2> QED
    BY <2>1, <2>2
<1>7. EnSwap(p) = [suspendido |-> TRUE, marcos |-> r.marcos, swap |-> s]
  BY DEF EnSwap, s
<1> QED
  BY <1>2, <1>4, <1>6, <1>7 DEF Proceso, Cuadra

LEMMA SuspenderTipos ==
  ASSUME InvMMU, InvTiposMV, NEW p \in Pid, Suspender(p) PROVE InvTiposMV'
<1>1. /\ procesos' = [procesos EXCEPT ![p] = EnSwap(p)]
      /\ EnSwap(p) \in Proceso /\ Cuadra(p, EnSwap(p))
  BY SuspenderEfecto
<1>2. memoria' \in [Marco -> Valor]
  BY VaciarTipos DEF Suspender
<1>3. UNCHANGED <<config, terminados, trabada, cache, tlb, instr>> /\ Nada
  BY DEF Suspender
<1> QED
  BY <1>1, <1>2, <1>3, PasoDatos

\* ReanudarProceso puts each page in its new frame.
LEMMA ReanudarEfecto ==
  ASSUME InvMMU, InvTiposMV, NEW p \in Pid, Reanudar(p)
  PROVE  \E marcos \in Libres(config.paginas[p]) :
           /\ procesos' = [procesos EXCEPT ![p] =
                [suspendido |-> FALSE, marcos |-> marcos, swap |-> <<>>]]
           /\ memoria' \in [Marco -> Valor]
           /\ \A i \in 1 .. config.paginas[p] : memoria'[marcos[i]] = procesos[p].swap[i]
           /\ \A f \in Marco \ ToSet(marcos) : memoria'[f] = memoria[f]
<1>1. PICK marcos \in Libres(config.paginas[p]) :
        /\ memoria' = [f \in Marco |->
             IF f \in ToSet(marcos)
             THEN procesos[p].swap[CHOOSE i \in DOMAIN marcos : marcos[i] = f]
             ELSE memoria[f]]
        /\ procesos' = [procesos EXCEPT ![p] =
             [suspendido |-> FALSE, marcos |-> marcos, swap |-> <<>>]]
  BY DEF Reanudar
<1>2. config.paginas[p] \in Nat
  BY PaginasDe DEF InvMMU
<1>3. /\ DOMAIN marcos = 1 .. config.paginas[p]
      /\ \A i \in DOMAIN marcos : marcos[i] \in Marco
      /\ \A i, j \in DOMAIN marcos : marcos[i] = marcos[j] => i = j
  BY <1>2, LibresSon
<1>4. ToSet(marcos) = {marcos[i] : i \in DOMAIN marcos}
  BY DEF ToSet
<1>5. ASSUME NEW i \in DOMAIN marcos
      PROVE  /\ marcos[i] \in Marco /\ marcos[i] \in ToSet(marcos)
             /\ memoria'[marcos[i]] = procesos[p].swap[i]
  <2>1. (CHOOSE j \in DOMAIN marcos : marcos[j] = marcos[i]) = i
    BY <1>3
  <2>2. marcos[i] \in Marco /\ marcos[i] \in ToSet(marcos)
    BY <1>3, <1>4
  <2> QED
    BY <1>1, <2>1, <2>2
<1>6. Vive(p) /\ procesos[p].suspendido
  BY DEF Reanudar
<1>7. \A i \in DOMAIN marcos : procesos[p].swap[i] \in Valor
  BY <1>3, <1>6, EntradaDe
<1>8. \A f \in Marco \ ToSet(marcos) : memoria'[f] = memoria[f] /\ memoria[f] \in Valor
  BY <1>1 DEF InvTiposMV, InvDatos
<1>9. \A f \in Marco : memoria'[f] \in Valor
  BY <1>4, <1>5, <1>7, <1>8
<1>10. memoria' \in [Marco -> Valor]
  BY <1>1, <1>9
<1> QED
  BY <1>1, <1>3, <1>5, <1>8, <1>10

LEMMA ReanudarTipos ==
  ASSUME InvMMU, InvTiposMV, NEW p \in Pid, Reanudar(p) PROVE InvTiposMV'
<1>1. PICK marcos \in Libres(config.paginas[p]) :
        /\ procesos' = [procesos EXCEPT ![p] =
             [suspendido |-> FALSE, marcos |-> marcos, swap |-> <<>>]]
        /\ memoria' \in [Marco -> Valor]
  BY ReanudarEfecto
<1>2. config.paginas[p] \in Nat
  BY PaginasDe DEF InvMMU
<1>3. marcos \in Seq(Marco) /\ Len(marcos) = config.paginas[p]
  BY <1>2, LibresSon
<1> DEFINE r == [suspendido |-> FALSE, marcos |-> marcos, swap |-> <<>>]
<1>4. r \in Proceso /\ Cuadra(p, r)
  BY <1>3 DEF Proceso, Cuadra
<1>5. UNCHANGED <<config, terminados, trabada, cache, tlb, instr>> /\ Nada
  BY DEF Reanudar
<1>6. procesos' = [procesos EXCEPT ![p] = r]
  BY <1>1
<1> HIDE DEF r
<1> QED
  BY <1>1, <1>4, <1>5, <1>6, PasoDatos

LEMMA FinalizarTipos ==
  ASSUME InvMMU, InvTiposMV, NEW p \in Pid, Finalizar(p) PROVE InvTiposMV'
<1>1. memoria' \in [Marco -> Valor]
  BY VaciarTipos DEF Finalizar, InvTiposMV, InvDatos
<1>2. Cuadra(p, NADA)
  BY DEF Cuadra
<1>3. /\ procesos' = [procesos EXCEPT ![p] = NADA] /\ terminados' = terminados \cup {p}
      /\ UNCHANGED <<config, trabada, cache, tlb, instr>> /\ Nada
  BY DEF Finalizar
<1> QED
  BY <1>1, <1>2, <1>3, PasoDatos
---------------------------------------------------------------------------
(* Which translations there are after a use of the TLB. *)

MismaTraduccion(e, f) == e.pagina = f.pagina /\ e.pid = f.pid /\ e.marco = f.marco

EsDe(e, k, p, marco) == e.pagina = k /\ e.pid = p /\ e.marco = marco

LEMMA UsarTraduccion ==
  ASSUME NEW s, NEW v
  PROVE  DOMAIN Usar(s, v) = DOMAIN s
         /\ \A i \in DOMAIN s : MismaTraduccion(Usar(s, v)[i], s[i])
<1>1. ASSUME NEW i \in DOMAIN s PROVE MismaTraduccion(Usar(s, v)[i], s[i])
  <2>1. Usar(s, v)[i] = s[i] \/ \E n : Usar(s, v)[i] = ConOrden(s[i], n)
    BY DEF Usar
  <2>2. \A n : MismaTraduccion(ConOrden(s[i], n), s[i])
    BY DEF ConOrden, MismaTraduccion
  <2>3. MismaTraduccion(s[i], s[i])
    BY DEF MismaTraduccion
  <2> QED
    BY <2>1, <2>2, <2>3
<1> QED
  BY <1>1 DEF Usar

LEMMA AcertadaTraduccion ==
  ASSUME NEW t, NEW alg, NEW k
  PROVE  /\ DOMAIN Acertada(t, alg, k).entradas = DOMAIN t.entradas
         /\ \A i \in DOMAIN t.entradas :
              MismaTraduccion(Acertada(t, alg, k).entradas[i], t.entradas[i])
<1>1. \/ Acertada(t, alg, k).entradas = Usar(t.entradas, t.indice[k])
      \/ Acertada(t, alg, k).entradas = t.entradas
  BY DEF Acertada
<1>2. \A e : MismaTraduccion(e, e)
  BY DEF MismaTraduccion
<1> QED
  BY <1>1, <1>2, UsarTraduccion

LEMMA PuestaTraduccion ==
  ASSUME NEW t, TipoTLB(t), NEW alg, NEW v, NEW nueva
  PROVE  LET q == Puesta(t, alg, v, nueva) IN
         /\ DOMAIN q = DOMAIN t.entradas
         /\ \A i \in DOMAIN t.entradas :
              MismaTraduccion(q[i], IF i = v THEN nueva ELSE t.entradas[i])
<1> DEFINE s == t.entradas
           e == ConOrden(nueva, s[v].orden)
           a == [s EXCEPT ![v] = e]
           q == Puesta(t, alg, v, nueva)
<1>1. /\ DOMAIN a = DOMAIN s
      /\ \A i \in DOMAIN s : a[i] = IF i = v THEN e ELSE s[i]
  BY ExceptEsLista DEF TipoTLB
<1>2. MismaTraduccion(e, nueva)
  BY DEF ConOrden, MismaTraduccion
<1>3. q = Usar(a, v) \/ q = a
  BY DEF Puesta
<1> HIDE DEF e, a, q
<1>4. /\ DOMAIN q = DOMAIN a
      /\ \A i \in DOMAIN a : MismaTraduccion(q[i], a[i])
  <2>1. \A f : MismaTraduccion(f, f)
    BY DEF MismaTraduccion
  <2> QED
    BY <1>3, <2>1, UsarTraduccion
<1>5. \A i \in DOMAIN s : MismaTraduccion(q[i], IF i = v THEN nueva ELSE s[i])
  BY <1>1, <1>2, <1>4 DEF MismaTraduccion
<1> QED
  BY <1>1, <1>4, <1>5 DEF q

LEMMA CargarTraduccion ==
  ASSUME NEW cap \in Nat \ {0}, NEW t, TLBBuena(t, cap), NEW alg, NEW p, NEW k, NEW marco
  PROVE  LET r == CargarTLB(t, cap, alg, p, k, marco) IN
         \A i \in DOMAIN r.entradas :
           \/ EsDe(r.entradas[i], k, p, marco)
           \/ i \in DOMAIN t.entradas /\ MismaTraduccion(r.entradas[i], t.entradas[i])
<1> DEFINE n == Len(t.entradas) + 1
           nueva == [pagina |-> k, pid |-> p, marco |-> marco,
                     orden |-> IF alg = "LRU" THEN n ELSE 0]
           r == CargarTLB(t, cap, alg, p, k, marco)
           v == Victima(t, alg)
<1>1. EsDe(nueva, k, p, marco)
  BY DEF EsDe
<1>2. \/ r.entradas = Append(t.entradas, nueva)
      \/ r.entradas = Puesta(t, alg, v, nueva)
  <2>1. r.entradas = Append(t.entradas, nueva) \/ r = ReemplazarEnTLB(t, cap, alg, nueva)
    BY DEF CargarTLB
  <2>2. ReemplazarEnTLB(t, cap, alg, nueva).entradas = Puesta(t, alg, v, nueva)
    BY DEF ReemplazarEnTLB
  <2> QED
    BY <2>1, <2>2
<1>3. Lista(t.entradas) /\ TipoTLB(t)
  BY DEF TLBBuena, TipoTLB
<1> HIDE DEF nueva, r, v
<1>4. CASE r.entradas = Append(t.entradas, nueva)
  <2>1. /\ Lista(r.entradas) /\ Len(r.entradas) = n
        /\ \A i \in DOMAIN t.entradas : r.entradas[i] = t.entradas[i]
        /\ r.entradas[n] = nueva
    BY <1>3, <1>4, AppendEsLista
  <2>2. /\ DOMAIN r.entradas = 1 .. n /\ DOMAIN t.entradas = 1 .. Len(t.entradas)
        /\ Len(t.entradas) \in Nat
    BY <1>3, <2>1, ListaLargo
  <2>3. \A i \in DOMAIN r.entradas : i = n \/ i \in DOMAIN t.entradas
    BY <2>2
  <2> QED
    BY <1>1, <2>1, <2>3 DEF r, MismaTraduccion
<1>5. CASE r.entradas = Puesta(t, alg, v, nueva)
  <2>1. /\ DOMAIN r.entradas = DOMAIN t.entradas
        /\ \A i \in DOMAIN t.entradas :
             MismaTraduccion(r.entradas[i], IF i = v THEN nueva ELSE t.entradas[i])
    BY <1>3, <1>5, PuestaTraduccion
  <2>2. \A e : MismaTraduccion(e, nueva) => EsDe(e, k, p, marco)
    BY <1>1 DEF MismaTraduccion, EsDe
  <2>3. \A i \in DOMAIN r.entradas :
          \/ EsDe(r.entradas[i], k, p, marco)
          \/ i \in DOMAIN t.entradas /\ MismaTraduccion(r.entradas[i], t.entradas[i])
    BY <2>1, <2>2
  <2> QED
    BY <2>3 DEF r
<1> QED
  BY <1>2, <1>4, <1>5

\* The frame ConseguirDireccionFisica finds is the one of the table or that of
\* a translation of the page; those it leaves are the old ones and this one.
LEMMA DireccionTraduccion ==
  ASSUME NEW c \in Cpu, config.tlb \in Nat,
         config.tlb > 0 => TLBBuena(tlb[c], config.tlb),
         NEW p, NEW k \in Pagina
  PROVE  LET r == Direccion(c, p, k)
             s == tlb[c].entradas IN
         /\ \/ r.marco = MarcoDe(p, k)
            \/ config.tlb > 0 /\ \E j \in DOMAIN s : EsDe(s[j], k, p, r.marco)
         /\ \A i \in DOMAIN r.tlb.entradas :
              \/ MarcoDe(p, k) # NoHay /\ EsDe(r.tlb.entradas[i], k, p, MarcoDe(p, k))
              \/ i \in DOMAIN s /\ MismaTraduccion(r.tlb.entradas[i], s[i])
<1> DEFINE t == tlb[c]
           pedido == MarcoDe(p, k)
           r == Direccion(c, p, k)
<1>1. CASE config.tlb > 0 /\ EnTLB(t, p, k)
  <2>1. r.tlb = Acertada(t, config.algTlb, k) /\ r.marco = MarcoEnTLB(t, k)
    BY <1>1 DEF Direccion
  <2>2. /\ t.indice[k] \in DOMAIN t.entradas
        /\ EsDe(t.entradas[t.indice[k]], k, p, MarcoEnTLB(t, k))
    BY <1>1 DEF EnTLB, MarcoEnTLB, EsDe, TLBBuena, TipoTLB, TLBFiel
  <2> HIDE DEF r, t
  <2> QED
    BY <1>1, <2>1, <2>2, AcertadaTraduccion DEF r, t
<1>2. CASE config.tlb > 0 /\ ~EnTLB(t, p, k) /\ pedido # NoHay
  <2>1. /\ r.tlb = CargarTLB(t, config.tlb, config.algTlb, p, k, pedido)
        /\ r.marco = pedido
    BY <1>2 DEF Direccion
  <2> HIDE DEF pedido
  <2>2. \A i \in DOMAIN r.tlb.entradas :
          \/ EsDe(r.tlb.entradas[i], k, p, pedido)
          \/ i \in DOMAIN t.entradas /\ MismaTraduccion(r.tlb.entradas[i], t.entradas[i])
    BY <1>2, <2>1, CargarTraduccion
  <2> HIDE DEF r, t
  <2> QED
    BY <1>2, <2>1, <2>2 DEF r, t, pedido
<1>3. CASE ~(config.tlb > 0 /\ EnTLB(t, p, k))
           /\ ~(config.tlb > 0 /\ ~EnTLB(t, p, k) /\ pedido # NoHay)
  <2>1. r.tlb = t /\ r.marco = pedido
    BY <1>3 DEF Direccion
  <2>2. \A e : MismaTraduccion(e, e)
    BY DEF MismaTraduccion
  <2> HIDE DEF r, t
  <2> QED
    BY <2>1, <2>2 DEF r, t
<1> QED
  BY <1>1, <1>2, <1>3

SuMarco(p, k) == procesos[p].marcos[k + 1]

\* The page table leads to the frame of the page or to nothing.
LEMMA MarcoDeLaPagina ==
  ASSUME Regulares, InvMMU, InvTiposMV, NEW p \in Pid, NEW k \in Pagina,
         k < config.paginas[p]
  PROVE  /\ ~Vive(p) => MarcoDe(p, k) = NoHay
         /\ Vive(p) => /\ SuMarco(p, k) \in Marco
                       /\ \/ MarcoDe(p, k) = SuMarco(p, k)
                          \/ MarcoDe(p, k) = NoHay /\ config.cache = 0
<1>1. k \in 0 .. config.paginas[p] - 1 /\ config.paginas[p] \in Nat
  BY Datos, PaginasDe DEF InvMMU
<1> DEFINE h == PaginaHallada(config.niveles, config.porTabla, config.paginas[p], k)
<1>2. h = k \/ (h = NoHay /\ config.cache = 0)
  <2>1. /\ config \in Configs /\ config.cache \in Nat
        /\ config.niveles \in Nat \ {0} /\ config.porTabla \in Nat \ {0}
    BY MemoriaVirtualOK DEF InvMMU
  <2>2. /\ config.paginas[p] <= Exp(config.porTabla, config.niveles)
        /\ config.cache > 0 => FormaBuena(config.niveles, config.porTabla, config.paginas[p])
    <3>1. TablaBuena(config)
      BY <2>1, Zenon DEF Regulares
    <3> QED
      BY <3>1, Zenon DEF TablaBuena
  <2>3. PICK l \in Nat \ {0}, e \in Nat \ {0}, n \in Nat :
          l = config.niveles /\ e = config.porTabla /\ n = config.paginas[p]
    BY <1>1, <2>1
  <2>4. k \in Nat /\ k < n /\ k < Exp(e, l)
    <3>1. Exp(e, l) \in Nat \ {0}
      <4>1. l \in Nat
        OBVIOUS
      <4> QED
        BY <4>1, ExpTipo
    <3> QED
      BY <1>1, <2>2, <2>3, <3>1
  <2>5. PaginaHallada(l, e, n, k) \in {k, NoHay}
    BY <2>4, Hallada
  <2>6. FormaBuena(l, e, n) => PaginaHallada(l, e, n, k) = k
    BY <2>4, HalladaSiBuena
  <2>7. h = PaginaHallada(l, e, n, k) /\ (config.cache > 0 => FormaBuena(l, e, n))
    BY <2>2, <2>3
  <2> HIDE DEF h
  <2> QED
    BY <2>1, <2>5, <2>6, <2>7
<1>3. k # NoHay
  BY <1>1 DEF NoHay
<1>4. MarcoDe(p, k) = IF ~Vive(p) THEN NoHay
                      ELSE IF h = NoHay THEN NoHay ELSE procesos[p].marcos[h + 1]
  BY DEF MarcoDe
<1> HIDE DEF h
<1>5. Vive(p) => SuMarco(p, k) \in Marco
  <2> SUFFICES ASSUME Vive(p) PROVE SuMarco(p, k) \in Marco
    OBVIOUS
  <2>1. /\ Len(procesos[p].marcos) = config.paginas[p]
        /\ DOMAIN procesos[p].marcos = 1 .. Len(procesos[p].marcos)
        /\ \A i \in DOMAIN procesos[p].marcos : procesos[p].marcos[i] \in Marco
    BY EntradaDe
  <2>2. k + 1 \in 1 .. config.paginas[p]
    BY <1>1
  <2> QED
    BY <2>1, <2>2 DEF SuMarco
<1> QED
  BY <1>2, <1>3, <1>4, <1>5 DEF SuMarco

\* Types: the frame is a frame or none, and the translations are good ones.
LEMMA DireccionTipos ==
  ASSUME Regulares, InvMMU, InvTiposMV, NEW c \in Cpu, NEW p \in Pid, NEW k \in Pagina,
         k < config.paginas[p]
  PROVE  LET r == Direccion(c, p, k) IN
         /\ r.marco \in Marco \cup {NoHay}
         /\ config.tlb > 0 =>
              \A i \in DOMAIN r.tlb.entradas : TraduccionBien(r.tlb.entradas[i])
<1> DEFINE r == Direccion(c, p, k)
           s == tlb[c].entradas
           f == MarcoDe(p, k)
<1>1. f \in Marco \cup {NoHay}
  BY MarcoDeLaPagina
<1>2. /\ \/ r.marco = f
         \/ config.tlb > 0 /\ \E j \in DOMAIN s : EsDe(s[j], k, p, r.marco)
      /\ \A i \in DOMAIN r.tlb.entradas :
           \/ f # NoHay /\ EsDe(r.tlb.entradas[i], k, p, f)
           \/ i \in DOMAIN s /\ MismaTraduccion(r.tlb.entradas[i], s[i])
  <2>1. config.tlb \in Nat /\ (config.tlb > 0 => TLBBuena(tlb[c], config.tlb))
    BY Partes
  <2> QED
    BY <2>1, DireccionTraduccion
<1>3. config.tlb > 0 => \A i \in DOMAIN s : TraduccionBien(s[i])
  BY DEF InvTiposMV, InvCpus
<1> HIDE DEF r, s, f
<1>4. r.marco \in Marco \cup {NoHay}
  BY <1>1, <1>2, <1>3 DEF EsDe, TraduccionBien
<1>5. ASSUME config.tlb > 0, NEW i \in DOMAIN r.tlb.entradas
      PROVE  TraduccionBien(r.tlb.entradas[i])
  BY <1>1, <1>2, <1>3, <1>5 DEF EsDe, MismaTraduccion, TraduccionBien, DeUnProceso
<1> QED
  BY <1>4, <1>5 DEF r
---------------------------------------------------------------------------
(* Which copies there are after each operation of the cache. *)

MismaCopia(e, f) ==
  e.pagina = f.pagina /\ e.pid = f.pid /\ e.contenido = f.contenido /\ e.d = f.d

\* The copy of a page that is in the map, in its place.
LEMMA CopiaEnSuLugar ==
  ASSUME NEW cap, NEW m, CacheBuena(m, cap), NEW k \in Pagina, m.indice[k] # 0
  PROVE  /\ m.indice[k] \in DOMAIN m.entradas /\ m.entradas[m.indice[k]].pagina = k
         /\ Copia(m, k) = m.entradas[m.indice[k]]
BY DEF CacheBuena, TipoCache, CacheFiel, Copia

LEMMA EscritaCopias ==
  ASSUME NEW cap, NEW m, CacheBuena(m, cap), NEW k \in Pagina, m.indice[k] # 0, NEW v,
         NEW i, i = m.indice[k], NEW q, q = Escrita(m, k, v)
  PROVE  /\ DOMAIN q.entradas = DOMAIN m.entradas
         /\ q.entradas[i].pagina = k /\ q.entradas[i].pid = m.entradas[i].pid
         /\ q.entradas[i].contenido = v /\ q.entradas[i].d
         /\ \A j \in DOMAIN m.entradas \ {i} : q.entradas[j] = m.entradas[j]
<1> DEFINE e == [pagina |-> k, pid |-> Copia(m, k).pid, contenido |-> v, r |-> TRUE, d |-> TRUE]
<1>1. i \in DOMAIN m.entradas /\ Copia(m, k) = m.entradas[i] /\ Lista(m.entradas)
  BY CopiaEnSuLugar DEF CacheBuena, TipoCache
<1>2. q.entradas = [m.entradas EXCEPT ![i] = e]
  BY DEF Escrita
<1>3. /\ e.pagina = k /\ e.pid = m.entradas[i].pid /\ e.contenido = v /\ e.d
  BY <1>1
<1> HIDE DEF e
<1>4. /\ DOMAIN q.entradas = DOMAIN m.entradas /\ q.entradas[i] = e
      /\ \A j \in DOMAIN m.entradas \ {i} : q.entradas[j] = m.entradas[j]
  BY <1>1, <1>2
<1> QED
  BY <1>2, <1>3, <1>4

LEMMA LeidaCopias ==
  ASSUME NEW cap, NEW m, CacheBuena(m, cap), NEW k \in Pagina, m.indice[k] # 0
  PROVE  LET q == Leida(m, k) IN
         /\ DOMAIN q.entradas = DOMAIN m.entradas
         /\ \A j \in DOMAIN m.entradas : MismaCopia(q.entradas[j], m.entradas[j])
<1> DEFINE i == m.indice[k]
           e == [pagina |-> k, pid |-> Copia(m, k).pid, contenido |-> Copia(m, k).contenido,
                 r |-> TRUE, d |-> Copia(m, k).d]
           q == Leida(m, k)
<1>1. /\ i \in DOMAIN m.entradas /\ Copia(m, k) = m.entradas[i] /\ Lista(m.entradas)
      /\ m.entradas[i].pagina = k
  BY CopiaEnSuLugar DEF CacheBuena, TipoCache
<1>2. q.entradas = [m.entradas EXCEPT ![i] = e]
  BY DEF Leida
<1>3. MismaCopia(e, m.entradas[i]) /\ \A f : MismaCopia(f, f)
  BY <1>1 DEF MismaCopia
<1> HIDE DEF i, e, q
<1>4. /\ DOMAIN q.entradas = DOMAIN m.entradas /\ q.entradas[i] = e
      /\ \A j \in DOMAIN m.entradas \ {i} : q.entradas[j] = m.entradas[j]
  BY <1>1, <1>2
<1>5. \A j \in DOMAIN m.entradas : MismaCopia(q.entradas[j], m.entradas[j])
  BY <1>3, <1>4
<1> QED
  BY <1>2, <1>4, <1>5 DEF q

\* The new copy in the place of another.
LEMMA EncimaCopias ==
  ASSUME NEW m, Lista(m.entradas), NEW v \in DOMAIN m.entradas, NEW nueva
  PROVE  LET q == [m.entradas EXCEPT ![v] = nueva] IN
         /\ DOMAIN q = DOMAIN m.entradas /\ q[v] = nueva
         /\ \A j \in DOMAIN m.entradas \ {v} : q[j] = m.entradas[j]
OBVIOUS

LEMMA AgregarCopias ==
  ASSUME NEW m, TipoCache(m), NEW nueva
  PROVE  LET q == Agregar(m, nueva)
             n == Len(m.entradas) + 1 IN
         /\ DOMAIN q.entradas = DOMAIN m.entradas \cup {n} /\ n \notin DOMAIN m.entradas
         /\ q.entradas[n] = nueva
         /\ \A j \in DOMAIN m.entradas : q.entradas[j] = m.entradas[j]
<1> DEFINE s == m.entradas
           q == Agregar(m, nueva)
           n == Len(s) + 1
<1>1. q.entradas = Append(s, nueva)
  BY DEF Agregar
<1>2. Lista(s) /\ Len(s) \in Nat /\ DOMAIN s = 1 .. Len(s)
  BY ListaLargo DEF TipoCache
<1> HIDE DEF q
<1>3. /\ Lista(q.entradas) /\ Len(q.entradas) = n
      /\ \A i \in DOMAIN s : q.entradas[i] = s[i]
      /\ q.entradas[n] = nueva
  BY <1>1, <1>2, AppendEsLista
<1>4. DOMAIN q.entradas = 1 .. n
  BY <1>3, ListaLargo
<1>5. 1 .. n = 1 .. Len(s) \cup {n} /\ n \notin 1 .. Len(s)
  BY <1>2
<1> QED
  BY <1>1, <1>2, <1>3, <1>4, <1>5 DEF q

LEMMA ReemplazarCopias ==
  ASSUME NEW m, TipoCache(m), NEW v \in DOMAIN m.entradas, NEW nueva
  PROVE  LET q == Reemplazar(m, v, nueva) IN
         /\ DOMAIN q.entradas = DOMAIN m.entradas /\ q.entradas[v] = nueva
         /\ \A j \in DOMAIN m.entradas \ {v} : q.entradas[j] = m.entradas[j]
<1> DEFINE q == Reemplazar(m, v, nueva)
<1>1. q.entradas = [m.entradas EXCEPT ![v] = nueva]
  BY DEF Reemplazar
<1> HIDE DEF q
<1>2. /\ DOMAIN q.entradas = DOMAIN m.entradas /\ q.entradas[v] = nueva
      /\ \A j \in DOMAIN m.entradas \ {v} : q.entradas[j] = m.entradas[j]
  BY <1>1
<1> QED
  BY <1>1, <1>2 DEF q

LEMMA ElegirCopias ==
  ASSUME NEW m, NEW alg
  PROVE  LET q == Elegir(m, alg).entradas IN
         /\ DOMAIN q = DOMAIN m.entradas
         /\ \A j \in DOMAIN m.entradas : MismaCopia(q[j], m.entradas[j])
<1>1. \E n : Elegir(m, alg).entradas = Pasadas(m, n)
  <2>1. \A i, n : Elegida(m, i, n).entradas = Pasadas(m, n)
    BY DEF Elegida
  <2>2. \E i, n : Elegir(m, alg) = Elegida(m, i, n)
    BY DEF Elegir, VictimaCLOCK, VictimaCLOCKM
  <2> QED
    BY <2>1, <2>2
<1>2. PICK n : Elegir(m, alg).entradas = Pasadas(m, n)
  BY <1>1
<1>3. /\ DOMAIN Pasadas(m, n) = DOMAIN m.entradas
      /\ \A j \in DOMAIN m.entradas :
           Pasadas(m, n)[j] \in {m.entradas[j], SinReferencia(m.entradas[j])}
  BY DEF Pasadas
<1>4. \A f : MismaCopia(f, f) /\ MismaCopia(SinReferencia(f), f)
  BY DEF MismaCopia, SinReferencia
<1> QED
  BY <1>2, <1>3, <1>4
---------------------------------------------------------------------------
(* Types: the steps of a CPU. *)

LEMMA UnaCpuTipos ==
  ASSUME InvMMU, InvTiposMV, InvDatos', NEW c \in Cpu, NEW i, NEW m, NEW t, UNCHANGED config,
         instr' = [instr EXCEPT ![c] = i] \/ (instr' = instr /\ i = instr[c]),
         cache' = [cache EXCEPT ![c] = m] \/ (cache' = cache /\ m = cache[c]),
         tlb' = [tlb EXCEPT ![c] = t] \/ (tlb' = tlb /\ t = tlb[c]),
         InstrBien(i),
         config.tlb > 0 => \A j \in DOMAIN t.entradas : TraduccionBien(t.entradas[j]),
         config.cache > 0 => \A j \in DOMAIN m.entradas : CopiaBien(m.entradas[j])
  PROVE  InvTiposMV'
<1>1. instr'[c] = i /\ cache'[c] = m /\ tlb'[c] = t
  BY DEF InvMMU
<1>2. \A d \in Cpu \ {c} : instr'[d] = instr[d] /\ cache'[d] = cache[d] /\ tlb'[d] = tlb[d]
  BY DEF InvMMU
<1>3. ASSUME NEW d \in Cpu
      PROVE  /\ InstrBien(instr[d])'
             /\ config'.tlb > 0 =>
                  \A j \in DOMAIN tlb'[d].entradas : TraduccionBien(tlb[d].entradas[j])'
             /\ config'.cache > 0 =>
                  \A j \in DOMAIN cache'[d].entradas : CopiaBien(cache[d].entradas[j])'
  <2>1. CASE d = c
    BY <1>1, <2>1 DEF InstrBien, Cuadra, DeUnProceso, TraduccionBien, CopiaBien
  <2>2. CASE d # c
    <3>1. /\ InstrBien(instr[d])
          /\ config.tlb > 0 => \A j \in DOMAIN tlb[d].entradas : TraduccionBien(tlb[d].entradas[j])
          /\ config.cache > 0 => \A j \in DOMAIN cache[d].entradas : CopiaBien(cache[d].entradas[j])
      BY DEF InvTiposMV, InvCpus
    <3>2. instr'[d] = instr[d] /\ cache'[d] = cache[d] /\ tlb'[d] = tlb[d] /\ config' = config
      BY <1>2, <2>2
    <3> QED
      BY <3>1, <3>2 DEF InstrBien, Cuadra, DeUnProceso, TraduccionBien, CopiaBien
  <2> QED
    BY <2>1, <2>2
<1>4. InvCpus'
  BY <1>3 DEF InvCpus
<1> QED
  BY <1>4 DEF InvTiposMV

LEMMA PartesTipos ==
  ASSUME InvTiposMV, NEW c \in Cpu
  PROVE  /\ InstrBien(instr[c]) /\ instr[c] \in Instr
         /\ config.tlb > 0 =>
              \A i \in DOMAIN tlb[c].entradas : TraduccionBien(tlb[c].entradas[i])
         /\ config.cache > 0 =>
              \A i \in DOMAIN cache[c].entradas : CopiaBien(cache[c].entradas[i])
         /\ instr[c].pc # "libre" => instr[c].pid \in Pid
         /\ instr[c].pc \in EnOperacion =>
              DeUnProceso(instr[c]) /\ instr[c].pid \in Pid /\ instr[c].pagina \in Pagina
         /\ instr[c].valor \in Valor /\ instr[c].contenido \in Valor
         /\ instr[c].marco \in Marco \cup {NoHay}
BY DEF InvTiposMV, InvCpus, InstrBien, Instr, EnOperacion, DeUnProceso

LEMMA SoloInstrTipos ==
  ASSUME InvMMU, InvTiposMV, InvDatos', NEW c \in Cpu, NEW i,
         UNCHANGED <<config, cache, tlb>>, instr' = [instr EXCEPT ![c] = i], InstrBien(i)
  PROVE  InvTiposMV'
<1> DEFINE m == cache[c]
           t == tlb[c]
<1>1. /\ config.tlb > 0 => \A j \in DOMAIN t.entradas : TraduccionBien(t.entradas[j])
      /\ config.cache > 0 => \A j \in DOMAIN m.entradas : CopiaBien(m.entradas[j])
  BY PartesTipos
<1>2. /\ cache' = cache /\ m = cache[c] /\ tlb' = tlb /\ t = tlb[c] /\ config' = config
  OBVIOUS
<1> HIDE DEF m, t
<1> QED
  BY <1>1, <1>2, UnaCpuTipos

LEMMA InstrYTLBTipos ==
  ASSUME InvMMU, InvTiposMV, InvDatos', NEW c \in Cpu, NEW i, NEW t,
         UNCHANGED <<config, cache>>, instr' = [instr EXCEPT ![c] = i], InstrBien(i),
         tlb' = [tlb EXCEPT ![c] = t],
         config.tlb > 0 => \A j \in DOMAIN t.entradas : TraduccionBien(t.entradas[j])
  PROVE  InvTiposMV'
<1> DEFINE m == cache[c]
<1>1. config.cache > 0 => \A j \in DOMAIN m.entradas : CopiaBien(m.entradas[j])
  BY PartesTipos
<1>2. cache' = cache /\ m = cache[c] /\ config' = config
  OBVIOUS
<1> HIDE DEF m
<1> QED
  BY <1>1, <1>2, UnaCpuTipos

\* What is read and what the memory module keeps.
LEMMA DatosQuietos ==
  ASSUME InvDatos, UNCHANGED <<config, procesos, terminados, memoria, trabada>>,
         lectura' \in Lectura \cup {NADA}
  PROVE  InvDatos'
BY DEF InvDatos, Cuadra

LEMMA LeyoTipo ==
  ASSUME NEW p \in Pid, NEW k \in Pagina, NEW r \in Valor, NEW v \in Valor \cup {VACIO},
         Leyo(p, k, r, v)
  PROVE  lectura' \in Lectura \cup {NADA}
BY DEF Leyo, Lectura

LEMMA NadaTipo ==
  ASSUME Nada PROVE lectura' \in Lectura \cup {NADA}
BY DEF Nada

LEMMA DespachoTipos ==
  ASSUME InvMMU, InvTiposMV, NEW c \in Cpu,
         Ceder(c) \/ \E p \in Pid : Despachar(c, p)
  PROVE  InvTiposMV'
<1>1. /\ UNCHANGED <<config, procesos, terminados, memoria, trabada, cache, tlb>> /\ Nada
      /\ \/ \E p \in Pid : instr' = [instr EXCEPT ![c] = Entre(p)]
         \/ instr' = [instr EXCEPT ![c] = SinInstr]
  BY DEF Despachar, Ceder
<1>2. InvDatos'
  BY <1>1, DatosQuietos, NadaTipo DEF InvTiposMV
<1>3. PICK i : InstrBien(i) /\ instr' = [instr EXCEPT ![c] = i]
  BY <1>1, EntreBien, SinInstrBien
<1> QED
  BY <1>1, <1>2, <1>3, SoloInstrTipos

LEMMA AcertarTipos ==
  ASSUME InvMMU, InvTiposMV, NEW c \in Cpu, NEW op, NEW k \in Pagina, NEW v \in Valor,
         Acertar(c, op, k, v)
  PROVE  InvTiposMV'
<1> DEFINE m == cache[c]
           q == IF op = "WRITE" THEN Escrita(m, k, v) ELSE Leida(m, k)
           i == m.indice[k]
           p == instr[c].pid
<1>1. /\ instr[c].pc = "fetch" /\ i # 0 /\ config.cache > 0
      /\ cache' = [cache EXCEPT ![c] = q]
      /\ UNCHANGED <<config, procesos, terminados, memoria, trabada, tlb, instr>>
      /\ Nada \/ Leyo(p, k, Copia(m, k).contenido, Copia(m, k).contenido)
  BY DEF Acertar, EnCache
<1>2. CacheBuena(m, config.cache) /\ p \in Pid
  BY <1>1, Partes, PartesTipos
<1>3. i \in DOMAIN m.entradas /\ m.entradas[i].pagina = k /\ Copia(m, k) = m.entradas[i]
  BY <1>1, <1>2, CopiaEnSuLugar
<1>4. \A j \in DOMAIN m.entradas : CopiaBien(m.entradas[j])
  BY <1>1, PartesTipos
<1>5. InvDatos'
  <2>1. Copia(m, k).contenido \in Valor
    BY <1>3, <1>4 DEF CopiaBien
  <2> HIDE DEF m, p
  <2> QED
    BY <1>1, <1>2, <2>1, NadaTipo, LeyoTipo, DatosQuietos DEF InvTiposMV
<1>6. \A j \in DOMAIN Escrita(m, k, v).entradas : CopiaBien(Escrita(m, k, v).entradas[j])
  <2> DEFINE w == Escrita(m, k, v)
  <2>0. i = m.indice[k] /\ w = Escrita(m, k, v)
    OBVIOUS
  <2> HIDE DEF m, i, w
  <2>5. m.indice[k] # 0 /\ CacheBuena(m, config.cache)
    BY <1>1, <1>2, <2>0
  <2>1. /\ DOMAIN w.entradas = DOMAIN m.entradas
        /\ w.entradas[i].pagina = k /\ w.entradas[i].pid = m.entradas[i].pid
        /\ w.entradas[i].contenido = v
        /\ \A j \in DOMAIN m.entradas \ {i} : w.entradas[j] = m.entradas[j]
    BY <2>5, <2>0, EscritaCopias
  <2> HIDE DEF w, i, m
  <2>2. CopiaBien(w.entradas[i])
    BY <1>3, <1>4, <2>1 DEF CopiaBien, DeUnProceso
  <2> QED
    BY <1>4, <2>1, <2>2 DEF w
<1>7. \A j \in DOMAIN Leida(m, k).entradas : CopiaBien(Leida(m, k).entradas[j])
  <2> DEFINE w == Leida(m, k)
  <2>1. /\ DOMAIN w.entradas = DOMAIN m.entradas
        /\ \A j \in DOMAIN m.entradas : MismaCopia(w.entradas[j], m.entradas[j])
    BY <1>1, <1>2, LeidaCopias
  <2> HIDE DEF w, m
  <2> QED
    BY <1>4, <2>1 DEF CopiaBien, DeUnProceso, MismaCopia, w
<1>8. \A j \in DOMAIN q.entradas : CopiaBien(q.entradas[j])
  BY <1>6, <1>7
<1> HIDE DEF q
<1> QED
  BY <1>1, <1>5, <1>8, PartesTipos, UnaCpuTipos

LEMMA FallarTipos ==
  ASSUME InvMMU, InvTiposMV, NEW c \in Cpu, NEW op \in {"READ", "WRITE"}, NEW k \in Pagina,
         NEW v \in Valor, Fallar(c, op, k, v)
  PROVE  InvTiposMV'
<1> DEFINE p == instr[c].pid
           e == Entre(p)
           i == [e EXCEPT !.pc = "traducir", !.op = op, !.pagina = k, !.valor = v]
<1>1. /\ instr' = [instr EXCEPT ![c] = i] /\ k < config.paginas[p] /\ instr[c].pc = "fetch"
      /\ UNCHANGED <<config, procesos, terminados, memoria, trabada, cache, tlb>> /\ Nada
  BY DEF Fallar
<1>2. p \in Pid /\ p # NADA
  BY <1>1, PartesTipos, NADAAparte
<1> HIDE DEF p
<1>3. e \in Instr /\ e.pid = p
  <2>1. e \in Instr
    BY <1>2, EntreBien DEF InstrBien
  <2>2. e.pid = p
    BY DEF Entre, SinInstr
  <2> QED
    BY <2>1, <2>2
<1> HIDE DEF e
<1>4. i \in Instr /\ i.pc = "traducir" /\ i.pid = p /\ i.op = op /\ i.pagina = k
  BY <1>3 DEF Instr, PCsInstr
<1> HIDE DEF i
<1>5. InstrBien(i)
  BY <1>1, <1>2, <1>4 DEF InstrBien, EnOperacion, DeUnProceso
<1>6. InvDatos'
  BY <1>1, DatosQuietos, NadaTipo DEF InvTiposMV
<1> QED
  BY <1>1, <1>5, <1>6, SoloInstrTipos

\* An instruction that goes on to another point, with a frame or a content.
LEMMA SigueBien ==
  ASSUME NEW i, InstrBien(i), i.pc \in EnOperacion, NEW pc \in EnOperacion \ {"acceder"},
         NEW j \in Instr, j.pc = pc, j.pid = i.pid, j.op = i.op, j.pagina = i.pagina
  PROVE  InstrBien(j)
BY DEF InstrBien, EnOperacion, DeUnProceso

LEMMA TraducirTipos ==
  ASSUME Regulares, InvMMU, InvTiposMV, NEW c \in Cpu, Traducir(c) PROVE InvTiposMV'
<1> DEFINE p == instr[c].pid
           k == instr[c].pagina
           d == Direccion(c, p, k)
           pc == IF config.cache > 0 THEN "pedir" ELSE "enviar"
           e == instr[c]
           i == [e EXCEPT !.marco = d.marco, !.pc = pc]
<1>1. /\ instr[c].pc = "traducir"
      /\ UNCHANGED <<config, procesos, terminados, memoria, trabada, cache>> /\ Nada
      /\ tlb' = [tlb EXCEPT ![c] = d.tlb] /\ instr' = [instr EXCEPT ![c] = i]
  BY DEF Traducir
<1>2. p \in Pid /\ k \in Pagina /\ k < config.paginas[p] /\ InstrBien(e) /\ e \in Instr
  BY <1>1, PartesTipos DEF EnOperacion, DeUnProceso
<1>3. /\ d.marco \in Marco \cup {NoHay}
      /\ config.tlb > 0 => \A j \in DOMAIN d.tlb.entradas : TraduccionBien(d.tlb.entradas[j])
  BY <1>2, DireccionTipos
<1> HIDE DEF d
<1>4. InstrBien(i)
  <2>1. pc \in EnOperacion \ {"acceder"} /\ pc \in PCsInstr
    BY DEF EnOperacion, PCsInstr
  <2> HIDE DEF pc, e
  <2>2. i \in Instr /\ i.pc = pc /\ i.pid = e.pid /\ i.op = e.op /\ i.pagina = e.pagina
    BY <1>2, <1>3, <2>1 DEF Instr
  <2> HIDE DEF i
  <2> QED
    BY <1>1, <1>2, <2>1, <2>2, SigueBien DEF EnOperacion, e
<1> HIDE DEF i
<1>5. InvDatos'
  BY <1>1, DatosQuietos, NadaTipo DEF InvTiposMV
<1> HIDE DEF p, k, e, pc
<1> QED
  BY <1>1, <1>3, <1>4, <1>5, InstrYTLBTipos

LEMMA PedirTipos ==
  ASSUME InvMMU, InvTiposMV, NEW c \in Cpu, Pedir(c) PROVE InvTiposMV'
<1> DEFINE v == memoria[IF instr[c].marco = NoHay THEN 0 ELSE instr[c].marco]
           e == instr[c]
           i == [e EXCEPT !.pc = "insertar", !.contenido = v]
<1>1. /\ instr[c].pc = "pedir" /\ instr' = [instr EXCEPT ![c] = i] /\ Nada
      /\ UNCHANGED <<config, procesos, terminados, memoria, trabada, cache, tlb>>
  BY DEF Pedir, Decodificado
<1>2. InstrBien(e) /\ e \in Instr /\ e.marco \in Marco \cup {NoHay}
  BY PartesTipos
<1>3. v \in Valor
  <2>1. 0 \in Marco /\ memoria \in [Marco -> Valor]
    BY Datos DEF Marco, InvTiposMV, InvDatos
  <2> QED
    BY <1>2, <2>1
<1> HIDE DEF v
<1>4. InstrBien(i)
  <2> HIDE DEF e
  <2>1. /\ i \in Instr /\ i.pc = "insertar" /\ i.pid = e.pid /\ i.op = e.op
        /\ i.pagina = e.pagina
    BY <1>2, <1>3 DEF Instr, PCsInstr
  <2> HIDE DEF i
  <2> QED
    BY <1>1, <1>2, <2>1, SigueBien DEF EnOperacion, e
<1> HIDE DEF i
<1>5. InvDatos'
  BY <1>1, DatosQuietos, NadaTipo DEF InvTiposMV
<1> QED
  BY <1>1, <1>4, <1>5, SoloInstrTipos

LEMMA EnviarTipos ==
  ASSUME InvMMU, InvTiposMV, NEW c \in Cpu, Enviar(c) PROVE InvTiposMV'
<1> DEFINE e == instr[c]
           r == procesos[e.pid]
           i == [e EXCEPT !.pc = "acceder", !.copia = r]
<1>1. /\ instr[c].pc = "enviar" /\ instr[c].marco # NoHay
      /\ instr' = [instr EXCEPT ![c] = i] /\ Nada
      /\ UNCHANGED <<config, procesos, terminados, memoria, trabada, cache, tlb>>
  BY DEF Enviar
<1>2. /\ InstrBien(e) /\ e \in Instr /\ e.marco # NoHay /\ e.pc = "enviar"
      /\ r \in Proceso \cup {NADA} /\ Cuadra(e.pid, r)
  BY <1>1, PartesTipos DEF EnOperacion, InvTiposMV, InvDatos
<1>3. InstrBien(i)
  <2> HIDE DEF e, r
  <2>1. /\ i \in Instr /\ i.pc = "acceder" /\ i.pid = e.pid /\ i.op = e.op
        /\ i.pagina = e.pagina /\ i.marco = e.marco /\ i.copia = r
    BY <1>2 DEF Instr, PCsInstr
  <2> HIDE DEF i
  <2> QED
    BY <1>2, <2>1 DEF InstrBien, EnOperacion, DeUnProceso
<1> HIDE DEF i
<1>4. InvDatos'
  BY <1>1, DatosQuietos, NadaTipo DEF InvTiposMV
<1> QED
  BY <1>1, <1>3, <1>4, SoloInstrTipos

LEMMA AccederTipos ==
  ASSUME InvMMU, InvTiposMV, NEW c \in Cpu, Acceder(c) PROVE InvTiposMV'
<1> DEFINE i == instr[c]
<1>1. /\ i.pc = "acceder" /\ procesos' = [procesos EXCEPT ![i.pid] = i.copia]
      /\ \/ memoria' = [memoria EXCEPT ![i.marco] = i.valor] /\ Nada
         \/ Leyo(i.pid, i.pagina, memoria[i.marco], VACIO) /\ UNCHANGED memoria
      /\ instr' = [instr EXCEPT ![c] = Entre(i.pid)]
      /\ UNCHANGED <<config, terminados, trabada, cache, tlb>>
  BY DEF Acceder, Decodificado
<1>2. /\ i.pid \in Pid /\ i.pagina \in Pagina /\ i.marco \in Marco /\ i.valor \in Valor
      /\ i.copia \in Proceso \cup {NADA} /\ Cuadra(i.pid, i.copia)
  BY <1>1, PartesTipos DEF EnOperacion, InstrBien, Instr
<1> HIDE DEF i
<1>3. memoria' \in [Marco -> Valor] /\ memoria[i.marco] \in Valor
  BY <1>1, <1>2 DEF InvTiposMV, InvDatos
<1>4. lectura' \in Lectura \cup {NADA}
  BY <1>1, <1>2, <1>3, NadaTipo, LeyoTipo
<1>5. InvDatos'
  BY <1>1, <1>2, <1>3, <1>4 DEF InvTiposMV, InvDatos, Cuadra
<1> QED
  BY <1>1, <1>2, <1>5, EntreBien, SoloInstrTipos

LEMMA EnviarSinMarcoTipos ==
  ASSUME InvMMU, InvTiposMV, NEW c \in Cpu, EnviarSinMarco(c) PROVE InvTiposMV'
<1>1. /\ instr[c].pc = "enviar" /\ trabada' = TRUE /\ Nada
      /\ instr' = [instr EXCEPT ![c] = Entre(instr[c].pid)]
      /\ UNCHANGED <<config, procesos, terminados, memoria, cache, tlb>>
  BY DEF EnviarSinMarco
<1>2. instr[c].pid \in Pid
  BY <1>1, PartesTipos
<1>3. InvDatos'
  BY <1>1, NadaTipo DEF InvTiposMV, InvDatos, Cuadra
<1> QED
  BY <1>1, <1>2, <1>3, EntreBien, SoloInstrTipos

\* An instruction that ends with good copies.
LEMMA CompletarTipos ==
  ASSUME InvMMU, InvTiposMV, NEW c \in Cpu, instr[c].pc \in EnOperacion,
         NEW m, Completar(c, m), \A j \in DOMAIN m.entradas : CopiaBien(m.entradas[j]),
         UNCHANGED <<config, procesos, terminados, trabada, tlb>>,
         memoria' \in [Marco -> Valor]
  PROVE  InvTiposMV'
<1> DEFINE i == instr[c]
           t == tlb[c]
<1>1. /\ cache' = [cache EXCEPT ![c] = m] /\ instr' = [instr EXCEPT ![c] = Entre(i.pid)]
      /\ Leyo(i.pid, i.pagina, i.contenido, i.contenido) \/ Nada
  BY DEF Completar
<1>2. i.pid \in Pid /\ i.pagina \in Pagina /\ i.contenido \in Valor
  BY PartesTipos
<1>3. lectura' \in Lectura \cup {NADA}
  BY <1>1, <1>2, LeyoTipo, NadaTipo
<1>4. InvDatos'
  BY <1>3 DEF InvTiposMV, InvDatos, Cuadra
<1>5. /\ config.tlb > 0 => \A j \in DOMAIN t.entradas : TraduccionBien(t.entradas[j])
      /\ tlb' = tlb /\ t = tlb[c] /\ config' = config
  BY PartesTipos
<1>6. InstrBien(Entre(i.pid))
  BY <1>2, EntreBien
<1> HIDE DEF i, t
<1> QED
  BY <1>1, <1>4, <1>5, <1>6, UnaCpuTipos

LEMMA NuevaBien ==
  ASSUME InvTiposMV, NEW c \in Cpu, instr[c].pc \in EnOperacion
  PROVE  /\ CopiaBien(Nueva(c)) /\ Nueva(c).pid = instr[c].pid
         /\ Nueva(c).pagina = instr[c].pagina
         /\ instr[c].op = "WRITE" => Nueva(c).contenido = instr[c].valor /\ Nueva(c).d
         /\ instr[c].op # "WRITE" => Nueva(c).contenido = instr[c].contenido /\ ~Nueva(c).d
<1> DEFINE e == Nueva(c)
<1>1. /\ e.pid = instr[c].pid /\ e.pagina = instr[c].pagina
      /\ instr[c].op = "WRITE" => e.contenido = instr[c].valor /\ e.d
      /\ instr[c].op # "WRITE" => e.contenido = instr[c].contenido /\ ~e.d
  BY DEF Nueva
<1> HIDE DEF e
<1>2. CopiaBien(e)
  BY <1>1, PartesTipos DEF CopiaBien, DeUnProceso
<1> QED
  BY <1>1, <1>2 DEF e

LEMMA InsertarTipos ==
  ASSUME InvMMU, InvTiposMV, NEW c \in Cpu, InsertarEncima(c) \/ InsertarAlFinal(c)
  PROVE  InvTiposMV'
<1> DEFINE m == cache[c]
           e == Nueva(c)
<1>1. /\ UNCHANGED <<config, procesos, terminados, memoria, trabada, tlb>>
      /\ instr[c].pc = "insertar"
  BY DEF InsertarEncima, InsertarAlFinal
<1>2. /\ CopiaBien(e) /\ e.pagina \in Pagina /\ e.pagina = instr[c].pagina
      /\ CacheBuena(m, config.cache)
      /\ \A j \in DOMAIN m.entradas : CopiaBien(m.entradas[j])
  BY <1>1, AlInsertar, NuevaBien, PartesTipos DEF EnOperacion
<1>3. memoria' \in [Marco -> Valor] /\ instr[c].pc \in EnOperacion
  BY <1>1 DEF InvTiposMV, InvDatos, EnOperacion
<1> HIDE DEF e, m
<1>4. CASE InsertarEncima(c)
  <2> DEFINE n == Sobrescribir(m, e)
             v == m.indice[e.pagina]
  <2>1. v # 0 /\ Completar(c, n) /\ n.entradas = [m.entradas EXCEPT ![v] = e]
    BY <1>2, <1>4 DEF InsertarEncima, Sobrescribir, m, e
  <2>2. v \in DOMAIN m.entradas /\ Lista(m.entradas)
    BY <1>2, <2>1, CopiaEnSuLugar DEF CacheBuena, TipoCache
  <2> HIDE DEF n, v
  <2>3. \A j \in DOMAIN n.entradas : CopiaBien(n.entradas[j])
    <3>1. /\ DOMAIN n.entradas = DOMAIN m.entradas /\ n.entradas[v] = e
          /\ \A j \in DOMAIN m.entradas \ {v} : n.entradas[j] = m.entradas[j]
      BY <2>1, <2>2
    <3> QED
      BY <1>2, <3>1
  <2> QED
    BY <1>1, <1>3, <2>1, <2>3, CompletarTipos
<1>5. CASE InsertarAlFinal(c)
  <2> DEFINE n == Agregar(m, e)
             l == Len(m.entradas) + 1
  <2>1. Completar(c, n)
    BY <1>5 DEF InsertarAlFinal, m, e
  <2>2. /\ DOMAIN n.entradas = DOMAIN m.entradas \cup {l} /\ n.entradas[l] = e
        /\ \A j \in DOMAIN m.entradas : n.entradas[j] = m.entradas[j]
    BY <1>2, AgregarCopias DEF CacheBuena
  <2> HIDE DEF n, l
  <2>3. \A j \in DOMAIN n.entradas : CopiaBien(n.entradas[j])
    BY <1>2, <2>2
  <2> QED
    BY <1>1, <1>3, <2>1, <2>3, CompletarTipos
<1> QED
  BY <1>4, <1>5

\* The new copy in the place of the victim.
LEMMA ReemplazarTipos ==
  ASSUME NEW m, TipoCache(m), NEW v \in DOMAIN m.entradas, NEW nueva, CopiaBien(nueva),
         \A j \in DOMAIN m.entradas : CopiaBien(m.entradas[j])
  PROVE  \A j \in DOMAIN Reemplazar(m, v, nueva).entradas :
           CopiaBien(Reemplazar(m, v, nueva).entradas[j])
<1> DEFINE q == Reemplazar(m, v, nueva)
<1>1. /\ DOMAIN q.entradas = DOMAIN m.entradas /\ q.entradas[v] = nueva
      /\ \A j \in DOMAIN m.entradas \ {v} : q.entradas[j] = m.entradas[j]
  BY ReemplazarCopias
<1> HIDE DEF q
<1>2. \A j \in DOMAIN q.entradas : CopiaBien(q.entradas[j])
  BY <1>1
<1> QED
  BY <1>2 DEF q

\* What the search of a victim leaves, and who the victim is.
LEMMA Barrido ==
  ASSUME InvMMU, InvTiposMV, NEW c \in Cpu, instr[c].pc = "insertar",
         Len(cache[c].entradas) >= config.cache
  PROVE  LET m == cache[c]
             e == Elegir(m, config.algCache)
             b == Barrida(m, e.entradas) IN
         /\ e.victima \in DOMAIN m.entradas /\ e.victima \in Nat
         /\ b.entradas = e.entradas /\ b.indice = m.indice
         /\ CacheBuena(b, config.cache) /\ DOMAIN b.entradas = DOMAIN m.entradas
         /\ \A j \in DOMAIN m.entradas : MismaCopia(b.entradas[j], m.entradas[j])
         /\ \A j \in DOMAIN m.entradas : CopiaBien(b.entradas[j])
<1> DEFINE m == cache[c]
           e == Elegir(m, config.algCache)
           b == Barrida(m, e.entradas)
<1>1. /\ config.cache \in Nat \ {0} /\ CacheBuena(m, config.cache)
      /\ \A j \in DOMAIN m.entradas : CopiaBien(m.entradas[j])
  BY AlInsertar, PartesTipos
<1>2. Len(m.entradas) = config.cache /\ DOMAIN m.entradas = 1 .. config.cache
  <2>1. Lista(m.entradas) /\ Len(m.entradas) <= config.cache
    BY <1>1 DEF CacheBuena, TipoCache, CacheFiel
  <2>2. Len(m.entradas) \in Nat /\ DOMAIN m.entradas = 1 .. Len(m.entradas)
    BY <2>1, ListaLargo
  <2> QED
    BY <1>1, <2>1, <2>2
<1>3. /\ e.victima \in DOMAIN m.entradas
      /\ Lista(e.entradas) /\ Len(e.entradas) = Len(m.entradas)
      /\ DOMAIN e.entradas = DOMAIN m.entradas
      /\ \A i \in DOMAIN m.entradas : e.entradas[i].pagina = m.entradas[i].pagina
  <2>1. m.entradas # <<>> /\ m.aguja \in Nat \ {0} /\ TipoCache(m)
    BY <1>1, <1>2 DEF CacheBuena, CacheFiel, TipoCache
  <2> HIDE DEF m
  <2> QED
    BY <2>1, ElegirMantiene
<1>4. \A j \in DOMAIN m.entradas : MismaCopia(e.entradas[j], m.entradas[j])
  BY ElegirCopias
<1>5. b.entradas = e.entradas /\ b.indice = m.indice /\ b.aguja = m.aguja
  BY DEF Barrida
<1> HIDE DEF b, e, m
<1>6. CacheBuena(b, config.cache)
  BY <1>1, <1>3, <1>5, MismasPaginas
<1>7. \A j \in DOMAIN m.entradas : CopiaBien(b.entradas[j])
  BY <1>1, <1>4, <1>5 DEF MismaCopia, CopiaBien, DeUnProceso
<1>8. e.victima \in Nat
  BY <1>1, <1>2, <1>3
<1> QED
  BY <1>3, <1>4, <1>5, <1>6, <1>7, <1>8 DEF b, e, m

LEMMA ElegirVictimaTipos ==
  ASSUME Regulares, InvMMU, InvTiposMV, NEW c \in Cpu, ElegirVictima(c) PROVE InvTiposMV'
<1> DEFINE m == cache[c]
           e == Elegir(m, config.algCache)
           w == e.victima
           b == Barrida(m, e.entradas)
           v == e.entradas[w]
           d == Direccion(c, v.pid, v.pagina)
           j == instr[c]
           i == [j EXCEPT !.pc = "actualizar", !.victima = w, !.marco = d.marco]
<1>1. /\ j.pc = "insertar" /\ Len(m.entradas) >= config.cache
      /\ UNCHANGED <<config, procesos, terminados, memoria, trabada>>
      /\ \/ /\ tlb' = [tlb EXCEPT ![c] = d.tlb] /\ cache' = [cache EXCEPT ![c] = b]
            /\ instr' = [instr EXCEPT ![c] = i] /\ Nada
         \/ Completar(c, Reemplazar(b, w, Nueva(c))) /\ UNCHANGED tlb
  BY DEF ElegirVictima
<1>2. /\ w \in DOMAIN m.entradas /\ w \in Nat /\ b.entradas = e.entradas
      /\ CacheBuena(b, config.cache) /\ DOMAIN b.entradas = DOMAIN m.entradas
      /\ \A k \in DOMAIN m.entradas : CopiaBien(b.entradas[k])
  BY <1>1, Barrido
<1>3. v.pid \in Pid /\ v.pagina \in Pagina /\ v.pagina < config.paginas[v.pid]
  BY <1>2 DEF CopiaBien, DeUnProceso
<1> HIDE DEF e, w, b, v, m
<1>4. CASE Completar(c, Reemplazar(b, w, Nueva(c))) /\ UNCHANGED tlb
  <2>1. /\ CopiaBien(Nueva(c)) /\ j.pc \in EnOperacion
    BY <1>1, NuevaBien DEF EnOperacion
  <2> DEFINE q == Reemplazar(b, w, Nueva(c))
  <2>2. \A k \in DOMAIN q.entradas : CopiaBien(q.entradas[k])
    BY <1>2, <2>1, ReemplazarTipos DEF CacheBuena
  <2>3. memoria' \in [Marco -> Valor]
    BY <1>1 DEF InvTiposMV, InvDatos
  <2> HIDE DEF q
  <2>4. Completar(c, q)
    BY <1>4 DEF q
  <2> QED
    BY <1>1, <1>4, <2>1, <2>2, <2>3, <2>4, CompletarTipos
<1>5. CASE /\ tlb' = [tlb EXCEPT ![c] = d.tlb] /\ cache' = [cache EXCEPT ![c] = b]
           /\ instr' = [instr EXCEPT ![c] = i] /\ Nada
  <2>1. /\ d.marco \in Marco \cup {NoHay}
        /\ config.tlb > 0 => \A k \in DOMAIN d.tlb.entradas : TraduccionBien(d.tlb.entradas[k])
    BY <1>3, DireccionTipos
  <2>2. InstrBien(j) /\ j \in Instr
    BY PartesTipos
  <2> HIDE DEF d, j
  <2>3. /\ i \in Instr /\ i.pc = "actualizar" /\ i.pid = j.pid /\ i.op = j.op
        /\ i.pagina = j.pagina
    BY <1>2, <2>1, <2>2 DEF Instr, PCsInstr
  <2> HIDE DEF i
  <2>4. InstrBien(i)
    BY <1>1, <2>2, <2>3, SigueBien DEF EnOperacion
  <2>5. InvDatos'
    BY <1>1, <1>5, DatosQuietos, NadaTipo DEF InvTiposMV
  <2>6. config.cache > 0 => \A k \in DOMAIN b.entradas : CopiaBien(b.entradas[k])
    BY <1>2
  <2> QED
    BY <1>1, <1>5, <2>1, <2>4, <2>5, <2>6, UnaCpuTipos
<1> QED
  BY <1>1, <1>4, <1>5

LEMMA ActualizarVictimaTipos ==
  ASSUME InvMMU, InvTiposMV, NEW c \in Cpu, ActualizarVictima(c) PROVE InvTiposMV'
<1> DEFINE m == cache[c]
           w == instr[c].victima
           f == instr[c].marco
           n == Reemplazar(m, w, Nueva(c))
<1>1. /\ UNCHANGED <<config, procesos, terminados, trabada, tlb>>
      /\ instr[c].pc = "actualizar" /\ Completar(c, n)
      /\ memoria' = IF f = NoHay THEN memoria
                    ELSE [memoria EXCEPT ![f] = m.entradas[w].contenido]
  BY DEF ActualizarVictima
<1>2. /\ TipoCache(m) /\ w \in DOMAIN m.entradas /\ CopiaBien(Nueva(c))
      /\ \A j \in DOMAIN m.entradas : CopiaBien(m.entradas[j])
      /\ instr[c].pc \in EnOperacion
  BY <1>1, AlInsertar, NuevaBien, PartesTipos DEF EnCurso, CacheBuena, EnOperacion
<1>3. memoria' \in [Marco -> Valor]
  <2>1. f \in Marco \cup {NoHay} /\ m.entradas[w].contenido \in Valor
    BY <1>2, PartesTipos DEF CopiaBien
  <2> QED
    BY <1>1, <2>1 DEF InvTiposMV, InvDatos
<1> HIDE DEF m, w, f
<1>4. \A j \in DOMAIN n.entradas : CopiaBien(n.entradas[j])
  BY <1>2, ReemplazarTipos
<1> HIDE DEF n
<1> QED
  BY <1>1, <1>2, <1>3, <1>4, CompletarTipos

LEMMA TiposQuietos ==
  ASSUME InvTiposMV, UNCHANGED vars PROVE InvTiposMV'
BY DEF vars, InvTiposMV, InvDatos, InvCpus, InstrBien, Cuadra, DeUnProceso, TraduccionBien,
       CopiaBien

LEMMA PasoTiposMV ==
  ASSUME Regulares, InvMMU, InvTiposMV, [Next]_vars PROVE InvTiposMV'
<1>1. config.cpus \subseteq Cpu
  BY Configuracion DEF InvMMU
<1>2. ASSUME NEW c \in Cpu, PasoCpu(c) PROVE InvTiposMV'
  BY <1>2, Datos, AcertarTipos, FallarTipos, TraducirTipos, PedirTipos, InsertarTipos,
     ElegirVictimaTipos, ActualizarVictimaTipos, EnviarTipos, AccederTipos,
     EnviarSinMarcoTipos DEF PasoCpu
<1>3. ASSUME NEW p \in Pid, PasoKernel(p) PROVE InvTiposMV'
  BY <1>3, AdmitirTipos, SuspenderTipos, ReanudarTipos, FinalizarTipos DEF PasoKernel
<1>4. CASE Next
  BY <1>1, <1>2, <1>3, <1>4, DespachoTipos DEF Next
<1>5. CASE UNCHANGED vars
  BY <1>5, TiposQuietos
<1> QED
  BY <1>4, <1>5

\* Every variable of the memory of the programs keeps its type: the frames of a
\* process are frames, one for each page, every translation and every copy is
\* of a page that its process has, and nothing but values is read.
THEOREM TiposSiempreMV == Regulares => (Spec => []TiposMV)
<1> SUFFICES ASSUME Regulares PROVE Spec => []TiposMV
  OBVIOUS
<1> DEFINE I == InvMMU /\ InvTiposMV
<1>1. Init => I
  BY InicioMMU, InicioTiposMV
<1>2. I /\ [Next]_vars => I'
  BY PasoMMU, PasoTiposMV
<1>3. I => TiposMV
  BY TiposDeMV
<1> QED
  BY <1>1, <1>2, <1>3, PTL DEF Spec
---------------------------------------------------------------------------
(* Whose the frames are. *)

EnRam(p) == Vive(p) /\ ~procesos[p].suspendido

Usado(p) == Vive(p) \/ p \in terminados

\* A process that lives did not end; only the medium-term planner suspends,
\* and unless they alternate there is one.
InvProcesos ==
  /\ \A p \in Pid : Vive(p) => p \notin terminados /\ (procesos[p].suspendido => config.medio)
  /\ config.alternan \/ \A p, q \in Pid : Vive(p) /\ Vive(q) => p = q

\* A CPU that is connected executes a process that is in memory, no other
\* CPU's.
InvEjecucion ==
  \A c \in Cpu : instr[c].pid # NADA =>
    /\ c \in config.cpus /\ EnRam(instr[c].pid)
    /\ \A d \in Cpu \ {c} : instr[d].pid # instr[c].pid

\* The frame of an instruction is that of its page.
InstrVale(i) ==
  /\ i.pc \in {"pedir", "enviar", "acceder"} /\ i.marco # NoHay => i.marco = SuMarco(i.pid, i.pagina)
  /\ i.pc = "acceder" => i.copia = procesos[i.pid]

\* So is that of a translation, while the process lives.
TraduccionVale(e) == Usado(e.pid) /\ (Vive(e.pid) => e.marco = SuMarco(e.pid, e.pagina))

\* So is that of the victim; one whose process ended has none.
VictimaVale(i, m) ==
  i.pc = "actualizar" =>
    LET e == m.entradas[i.victima] IN
    i.marco = IF Vive(e.pid) THEN SuMarco(e.pid, e.pagina) ELSE NoHay

InvMarcos ==
  \A c \in Cpu :
    /\ InstrVale(instr[c]) /\ VictimaVale(instr[c], cache[c])
    /\ config.tlb > 0 => \A i \in DOMAIN tlb[c].entradas : TraduccionVale(tlb[c].entradas[i])
    /\ config.cache > 0 => \A i \in DOMAIN cache[c].entradas : Usado(cache[c].entradas[i].pid)

InvAcceso == InvProcesos /\ InvEjecucion /\ InvMarcos

InvTres == InvMMU /\ InvTiposMV /\ InvAcceso

LEMMA ConfigRegular ==
  ASSUME Regulares, config \in Configs
  PROVE  /\ config.tlb > 0 => ~config.medio
         /\ config.cache > 0 => ~config.alternan /\ \A c, d \in config.cpus : c = d
         /\ config.cache > 0 /\ config.tlb > 0 =>
              \A p, q \in Pid : config.paginas[p] > 0 /\ config.paginas[q] > 0 => p = q
BY DEF Regulares, SinMezcla

LEMMA InicioAcceso == Init => InvAcceso
<1> SUFFICES ASSUME Init PROVE InvAcceso
  OBVIOUS
<1>1. \A p \in Pid : ~Vive(p)
  BY DEF Init, Vive
<1>2. ASSUME NEW c \in Cpu
      PROVE  /\ instr[c].pc = "libre" /\ instr[c].pid = NADA
             /\ DOMAIN tlb[c].entradas = {} /\ DOMAIN cache[c].entradas = {}
  <2>1. tlb[c].entradas = <<>> /\ cache[c].entradas = <<>> /\ instr[c] = SinInstr
    BY DEF Init, NuevaTLB, NuevaCache
  <2>2. SinInstr.pc = "libre" /\ SinInstr.pid = NADA
    BY DEF SinInstr
  <2>3. DOMAIN <<>> = {}
    OBVIOUS
  <2> QED
    BY <2>1, <2>2, <2>3
<1> QED
  BY <1>1, <1>2 DEF InvAcceso, InvProcesos, InvEjecucion, InvMarcos, InstrVale, VictimaVale

\* The process of an instruction.
LEMMA Ejecutado ==
  ASSUME InvTres, NEW c \in Cpu, instr[c].pc # "libre"
  PROVE  /\ instr[c].pid \in Pid /\ instr[c].pid # NADA /\ c \in config.cpus
         /\ EnRam(instr[c].pid) /\ Vive(instr[c].pid)
         /\ \A d \in Cpu \ {c} : instr[d].pid # instr[c].pid
BY PartesTipos, NADAAparte DEF InvTres, InvAcceso, InvEjecucion, EnRam

\* With a cache the kernel acts only while nobody is executed.
LEMMA KernelConCache ==
  ASSUME Regulares, InvTres, NEW p \in Pid, PasoKernel(p), config.cache > 0
  PROVE  \A c \in Cpu : instr[c].pid = NADA
<1> SUFFICES ASSUME NEW c \in Cpu, instr[c].pid # NADA PROVE FALSE
  OBVIOUS
<1> DEFINE q == instr[c].pid
<1>1. c \in config.cpus /\ Vive(q) /\ q \in Pid
  BY PartesTipos, Ejecutado DEF InvTres, InvTiposMV, InvCpus, InstrBien
<1>2. Ejecuta(q)
  BY <1>1 DEF Ejecuta
<1>3. ~config.alternan /\ \A r, s \in Pid : Vive(r) /\ Vive(s) => r = s
  BY ConfigRegular DEF InvTres, InvMMU, InvAcceso, InvProcesos
<1>4. CASE Admitir(p)
  BY <1>1, <1>3, <1>4 DEF Admitir
<1>5. CASE Suspender(p) \/ Finalizar(p)
  BY <1>1, <1>2, <1>3, <1>5 DEF Suspender, Finalizar
<1>6. CASE Reanudar(p)
  <2>1. procesos[p].suspendido /\ Vive(p)
    BY <1>6 DEF Reanudar
  <2>2. ~procesos[q].suspendido
    BY DEF InvTres, InvAcceso, InvEjecucion, EnRam
  <2> QED
    BY <1>1, <1>3, <2>1, <2>2
<1> QED
  BY <1>4, <1>5, <1>6 DEF PasoKernel

LEMMA KernelSinVictima ==
  ASSUME Regulares, InvTres, NEW p \in Pid, PasoKernel(p)
  PROVE  \A c \in Cpu : instr[c].pc # "actualizar"
<1> SUFFICES ASSUME NEW c \in Cpu, instr[c].pc = "actualizar" PROVE FALSE
  OBVIOUS
<1>1. config.cache > 0
  BY Partes DEF InvTres, TipoInstr
<1> QED
  BY <1>1, KernelConCache, Ejecutado

\* A step of the kernel: the entry of p becomes r.
LEMMA KernelAcceso ==
  ASSUME Regulares, InvTres, NEW p \in Pid, PasoKernel(p), NEW r,
         procesos' = [procesos EXCEPT ![p] = r], UNCHANGED <<config, cache, tlb, instr>>,
         \A c \in Cpu : instr[c].pid # p,
         IF r = NADA THEN terminados' = terminados \cup {p}
         ELSE terminados' = terminados /\ p \notin terminados,
         r # NADA /\ r.suspendido => config.medio,
         r # NADA /\ ~config.alternan => \A q \in Pid : Vive(q) => q = p,
         config.tlb > 0 /\ r # NADA /\ Usado(p) => Vive(p) /\ r.marcos = procesos[p].marcos
  PROVE  InvAcceso'
<1>1. /\ procesos'[p] = r
      /\ \A q \in Pid \ {p} : procesos'[q] = procesos[q]
  BY DEF InvTres, InvTiposMV, InvDatos
<1>2. \A q \in Pid : Usado(q) => Usado(q)'
  BY <1>1 DEF Usado, Vive
<1>3. \A q \in Pid \ {p} : /\ Vive(q)' <=> Vive(q)
                           /\ \A k : SuMarco(q, k)' = SuMarco(q, k)
                           /\ EnRam(q)' <=> EnRam(q)
  BY <1>1 DEF Vive, SuMarco, EnRam
<1>4. Vive(p)' <=> r # NADA
  BY <1>1 DEF Vive
<1>5. InvProcesos'
  <2>1. \A q \in Pid : Vive(q)' => q \notin terminados' /\ (procesos'[q].suspendido => config.medio)
    <3> TAKE q \in Pid
    <3>1. CASE q = p
      BY <1>1, <1>4, <3>1
    <3>2. CASE q # p
      <4>1. Vive(q) => q \notin terminados /\ (procesos[q].suspendido => config.medio)
        BY DEF InvTres, InvAcceso, InvProcesos
      <4> QED
        BY <1>1, <1>3, <3>2, <4>1
    <3> QED
      BY <3>1, <3>2
  <2>2. ASSUME ~config.alternan, NEW q \in Pid, NEW s \in Pid, Vive(q)', Vive(s)'
        PROVE  q = s
    <3>1. Vive(q) /\ Vive(s) => q = s
      BY <2>2 DEF InvTres, InvAcceso, InvProcesos
    <3> QED
      BY <1>3, <1>4, <2>2, <3>1
  <2> QED
    BY <2>1, <2>2 DEF InvProcesos
<1>6. InvEjecucion'
  <2> SUFFICES ASSUME NEW c \in Cpu, instr[c].pid # NADA
               PROVE  /\ c \in config.cpus /\ EnRam(instr[c].pid)'
                      /\ \A d \in Cpu \ {c} : instr[d].pid # instr[c].pid
    BY DEF InvEjecucion, EnRam, Vive
  <2>1. /\ c \in config.cpus /\ EnRam(instr[c].pid) /\ instr[c].pid # p
        /\ \A d \in Cpu \ {c} : instr[d].pid # instr[c].pid
    BY DEF InvTres, InvAcceso, InvEjecucion
  <2>2. instr[c].pid \in Pid
    BY PartesTipos DEF InvTres, InvTiposMV, InvCpus, InstrBien
  <2>3. EnRam(instr[c].pid)' <=> procesos'[instr[c].pid] # NADA /\ ~procesos'[instr[c].pid].suspendido
    BY DEF EnRam, Vive
  <2>4. EnRam(instr[c].pid) <=> procesos[instr[c].pid] # NADA /\ ~procesos[instr[c].pid].suspendido
    BY DEF EnRam, Vive
  <2> QED
    BY <1>1, <2>1, <2>2, <2>3, <2>4
<1>7. ASSUME NEW c \in Cpu
      PROVE  /\ InstrVale(instr[c])' /\ VictimaVale(instr[c], cache[c])'
             /\ config.tlb > 0 =>
                  \A i \in DOMAIN tlb[c].entradas : TraduccionVale(tlb[c].entradas[i])'
             /\ config.cache > 0 =>
                  \A i \in DOMAIN cache[c].entradas : Usado(cache[c].entradas[i].pid)'
  <2>1. InstrVale(instr[c])'
    <3>1. InstrVale(instr[c]) /\ instr[c].pid # p
      BY DEF InvTres, InvAcceso, InvMarcos
    <3>2. instr[c].pc # "libre" => instr[c].pid \in Pid
      BY PartesTipos DEF InvTres
    <3>3. instr[c].pc # "libre" => procesos'[instr[c].pid] = procesos[instr[c].pid]
      BY <1>1, <3>1, <3>2
    <3> QED
      BY <3>1, <3>3 DEF InstrVale, SuMarco
  <2>2. VictimaVale(instr[c], cache[c])'
    BY KernelSinVictima DEF VictimaVale
  <2>3. ASSUME config.tlb > 0, NEW i \in DOMAIN tlb[c].entradas
        PROVE  TraduccionVale(tlb[c].entradas[i])'
    <3> DEFINE e == tlb[c].entradas[i]
    <3>1. TraduccionVale(e) /\ e.pid \in Pid
      BY <2>3, PartesTipos DEF InvTres, InvAcceso, InvMarcos, TraduccionBien, DeUnProceso
    <3>2. e' = e
      OBVIOUS
    <3> HIDE DEF e
    <3>3. Usado(e.pid)' /\ (Vive(e.pid)' => e.marco = SuMarco(e.pid, e.pagina)')
      <4>1. CASE e.pid # p
        BY <1>2, <1>3, <3>1, <3>2, <4>1 DEF TraduccionVale, Usado, Vive, SuMarco
      <4>2. CASE e.pid = p
        <5>1. Usado(p)' /\ (r # NADA => r.marcos = procesos[p].marcos /\ Vive(p))
          BY <1>2, <2>3, <3>1, <4>2 DEF TraduccionVale
        <5>2. Vive(p) => e.marco = SuMarco(p, e.pagina)
          BY <3>1, <4>2 DEF TraduccionVale
        <5> QED
          BY <1>1, <1>4, <3>2, <4>2, <5>1, <5>2 DEF SuMarco, Usado, Vive
      <4> QED
        BY <4>1, <4>2
    <3> QED
      BY <3>2, <3>3 DEF TraduccionVale, e
  <2>4. ASSUME config.cache > 0, NEW i \in DOMAIN cache[c].entradas
        PROVE  Usado(cache[c].entradas[i].pid)'
    <3>1. Usado(cache[c].entradas[i].pid) /\ cache[c].entradas[i].pid \in Pid
      BY <2>4, PartesTipos DEF InvTres, InvAcceso, InvMarcos, CopiaBien, DeUnProceso
    <3>2. UNCHANGED cache
      OBVIOUS
    <3> QED
      BY <1>2, <3>1, <3>2 DEF Usado, Vive
  <2> QED
    BY <2>1, <2>2, <2>3, <2>4
<1>8. InvMarcos'
  BY <1>7 DEF InvMarcos
<1> QED
  BY <1>5, <1>6, <1>8 DEF InvAcceso

LEMMA NadieLoEjecuta ==
  ASSUME InvTres, NEW p \in Pid, ~Ejecuta(p) \/ ~EnRam(p)
  PROVE  \A c \in Cpu : instr[c].pid # p
<1> SUFFICES ASSUME NEW c \in Cpu, instr[c].pid = p PROVE FALSE
  OBVIOUS
<1>1. p # NADA
  BY NADAAparte
<1>2. c \in config.cpus /\ EnRam(p)
  BY <1>1 DEF InvTres, InvAcceso, InvEjecucion
<1>3. Ejecuta(p)
  BY <1>2 DEF Ejecuta
<1> QED
  BY <1>2, <1>3

LEMMA AdmitirAcceso ==
  ASSUME Regulares, InvTres, NEW p \in Pid, Admitir(p) PROVE InvAcceso'
<1>1. PICK marcos \in Libres(config.paginas[p]) :
        procesos' = [procesos EXCEPT ![p] =
          [suspendido |-> FALSE, marcos |-> marcos, swap |-> <<>>]]
  BY DEF Admitir
<1> DEFINE r == [suspendido |-> FALSE, marcos |-> marcos, swap |-> <<>>]
<1>2. /\ ~Vive(p) /\ p \notin terminados /\ UNCHANGED <<config, cache, tlb, instr, terminados>>
      /\ config.alternan \/ \A q \in Pid : ~Vive(q)
  BY DEF Admitir
<1>3. \A c \in Cpu : instr[c].pid # p
  BY <1>2, NadieLoEjecuta DEF EnRam
<1>4. r # NADA /\ ~r.suspendido
  <2>1. config.paginas[p] \in Nat
    BY PaginasDe DEF InvTres, InvMMU
  <2>2. marcos \in Seq(Marco)
    BY <2>1, LibresSon
  <2>3. r \in Proceso
    BY <2>2 DEF Proceso
  <2>4. r # NADA
    BY <2>3, NADAAparte
  <2> QED
    BY <2>4
<1>5. procesos' = [procesos EXCEPT ![p] = r]
  BY <1>1
<1>6. PasoKernel(p) /\ ~Usado(p)
  BY <1>2 DEF PasoKernel, Usado
<1> HIDE DEF r
<1> QED
  BY <1>2, <1>3, <1>4, <1>5, <1>6, KernelAcceso

LEMMA SuspenderAcceso ==
  ASSUME Regulares, InvTres, NEW p \in Pid, Suspender(p) PROVE InvAcceso'
<1> DEFINE r == EnSwap(p)
<1>1. procesos' = [procesos EXCEPT ![p] = r] /\ r \in Proceso
  BY SuspenderEfecto DEF InvTres
<1>2. /\ config.medio /\ Vive(p) /\ ~Ejecuta(p)
      /\ UNCHANGED <<config, cache, tlb, instr, terminados>>
  BY DEF Suspender
<1>3. \A c \in Cpu : instr[c].pid # p
  BY <1>2, NadieLoEjecuta
<1>4. r # NADA /\ r.marcos = procesos[p].marcos
  BY <1>1, NADAAparte DEF EnSwap
<1>5. /\ p \notin terminados
      /\ config.alternan \/ \A q \in Pid : Vive(q) => q = p
  BY <1>2 DEF InvTres, InvAcceso, InvProcesos
<1>6. PasoKernel(p)
  BY DEF PasoKernel
<1> HIDE DEF r
<1> QED
  BY <1>1, <1>2, <1>3, <1>4, <1>5, <1>6, KernelAcceso

LEMMA ReanudarAcceso ==
  ASSUME Regulares, InvTres, NEW p \in Pid, Reanudar(p) PROVE InvAcceso'
<1>1. PICK marcos \in Libres(config.paginas[p]) :
        procesos' = [procesos EXCEPT ![p] =
          [suspendido |-> FALSE, marcos |-> marcos, swap |-> <<>>]]
  BY DEF Reanudar
<1> DEFINE r == [suspendido |-> FALSE, marcos |-> marcos, swap |-> <<>>]
<1>2. /\ Vive(p) /\ procesos[p].suspendido
      /\ UNCHANGED <<config, cache, tlb, instr, terminados>>
  BY DEF Reanudar
<1>3. \A c \in Cpu : instr[c].pid # p
  BY <1>2, NadieLoEjecuta DEF EnRam
<1>4. r # NADA /\ ~r.suspendido
  <2>1. config.paginas[p] \in Nat
    BY PaginasDe DEF InvTres, InvMMU
  <2>2. marcos \in Seq(Marco)
    BY <2>1, LibresSon
  <2>3. r \in Proceso
    BY <2>2 DEF Proceso
  <2>4. r # NADA
    BY <2>3, NADAAparte
  <2> QED
    BY <2>4
<1>5. procesos' = [procesos EXCEPT ![p] = r]
  BY <1>1
<1>6. /\ p \notin terminados /\ config.medio
      /\ config.alternan \/ \A q \in Pid : Vive(q) => q = p
  BY <1>2 DEF InvTres, InvAcceso, InvProcesos
<1>7. ~(config.tlb > 0)
  BY <1>6, ConfigRegular DEF InvTres, InvMMU
<1>8. PasoKernel(p)
  BY DEF PasoKernel
<1> HIDE DEF r
<1> QED
  BY <1>2, <1>3, <1>4, <1>5, <1>6, <1>7, <1>8, KernelAcceso

LEMMA FinalizarAcceso ==
  ASSUME Regulares, InvTres, NEW p \in Pid, Finalizar(p) PROVE InvAcceso'
<1>1. /\ Vive(p) /\ ~Ejecuta(p) /\ procesos' = [procesos EXCEPT ![p] = NADA]
      /\ terminados' = terminados \cup {p} /\ UNCHANGED <<config, cache, tlb, instr>>
  BY DEF Finalizar
<1>2. \A c \in Cpu : instr[c].pid # p
  BY <1>1, NadieLoEjecuta
<1>3. PasoKernel(p)
  BY DEF PasoKernel
<1> DEFINE r == NADA
<1>4. r = NADA /\ procesos' = [procesos EXCEPT ![p] = r]
  BY <1>1
<1> HIDE DEF r
<1> QED
  BY <1>1, <1>2, <1>3, <1>4, KernelAcceso
---------------------------------------------------------------------------
(* The steps of a CPU, which leave every process as it is. *)

LEMMA UnaCpuAcceso ==
  ASSUME InvTres, NEW c \in Cpu, NEW i, NEW m, NEW t,
         UNCHANGED <<config, procesos, terminados>>,
         instr' = [instr EXCEPT ![c] = i] \/ (instr' = instr /\ i = instr[c]),
         cache' = [cache EXCEPT ![c] = m] \/ (cache' = cache /\ m = cache[c]),
         tlb' = [tlb EXCEPT ![c] = t] \/ (tlb' = tlb /\ t = tlb[c]),
         i.pid # NADA =>
           /\ c \in config.cpus /\ EnRam(i.pid)
           /\ \A d \in Cpu \ {c} : instr[d].pid # i.pid,
         InstrVale(i), VictimaVale(i, m),
         config.tlb > 0 => \A j \in DOMAIN t.entradas : TraduccionVale(t.entradas[j]),
         config.cache > 0 => \A j \in DOMAIN m.entradas : Usado(m.entradas[j].pid)
  PROVE  InvAcceso'
<1>1. instr'[c] = i /\ cache'[c] = m /\ tlb'[c] = t
  BY DEF InvTres, InvMMU
<1>2. \A d \in Cpu \ {c} : instr'[d] = instr[d] /\ cache'[d] = cache[d] /\ tlb'[d] = tlb[d]
  BY DEF InvTres, InvMMU
<1>3. InvProcesos'
  BY DEF InvTres, InvAcceso, InvProcesos, Vive
<1>4. InvEjecucion'
  <2>1. ASSUME NEW d \in Cpu, instr'[d].pid # NADA
        PROVE  /\ d \in config.cpus /\ EnRam(instr'[d].pid)
               /\ \A x \in Cpu \ {d} : instr'[x].pid # instr'[d].pid
    <3>1. CASE d = c
      BY <1>1, <1>2, <2>1, <3>1
    <3>2. CASE d # c
      <4>1. /\ d \in config.cpus /\ EnRam(instr[d].pid) /\ instr'[d] = instr[d]
            /\ \A x \in Cpu \ {d} : instr[x].pid # instr[d].pid
        BY <1>2, <2>1, <3>2 DEF InvTres, InvAcceso, InvEjecucion
      <4>2. i.pid # instr[d].pid
        BY <2>1, <3>2, <4>1
      <4> QED
        BY <1>1, <1>2, <4>1, <4>2
    <3> QED
      BY <3>1, <3>2
  <2>2. \A p : EnRam(p)' <=> EnRam(p)
    BY DEF EnRam, Vive
  <2> QED
    BY <2>1, <2>2 DEF InvEjecucion, EnRam, Vive
<1>5. ASSUME NEW d \in Cpu
      PROVE  /\ InstrVale(instr[d])' /\ VictimaVale(instr[d], cache[d])'
             /\ config.tlb > 0 =>
                  \A j \in DOMAIN tlb'[d].entradas : TraduccionVale(tlb[d].entradas[j])'
             /\ config.cache > 0 =>
                  \A j \in DOMAIN cache'[d].entradas : Usado(cache[d].entradas[j].pid)'
  <2>1. CASE d = c
    BY <1>1, <2>1 DEF InstrVale, VictimaVale, TraduccionVale, SuMarco, Usado, Vive
  <2>2. CASE d # c
    <3>1. /\ InstrVale(instr[d]) /\ VictimaVale(instr[d], cache[d])
          /\ config.tlb > 0 => \A j \in DOMAIN tlb[d].entradas : TraduccionVale(tlb[d].entradas[j])
          /\ config.cache > 0 => \A j \in DOMAIN cache[d].entradas : Usado(cache[d].entradas[j].pid)
      BY DEF InvTres, InvAcceso, InvMarcos
    <3>2. instr'[d] = instr[d] /\ cache'[d] = cache[d] /\ tlb'[d] = tlb[d]
      BY <1>2, <2>2
    <3> QED
      BY <3>1, <3>2 DEF InstrVale, VictimaVale, TraduccionVale, SuMarco, Usado, Vive
  <2> QED
    BY <2>1, <2>2
<1>6. InvMarcos'
  BY <1>5 DEF InvMarcos
<1> QED
  BY <1>3, <1>4, <1>6 DEF InvAcceso

LEMMA PartesAcceso ==
  ASSUME InvTres, NEW c \in Cpu
  PROVE  /\ InstrVale(instr[c]) /\ VictimaVale(instr[c], cache[c])
         /\ config.tlb > 0 =>
              \A i \in DOMAIN tlb[c].entradas : TraduccionVale(tlb[c].entradas[i])
         /\ config.cache > 0 =>
              \A i \in DOMAIN cache[c].entradas : Usado(cache[c].entradas[i].pid)
BY DEF InvTres, InvAcceso, InvMarcos

\* A step of a CPU that goes on with its process.
LEMMA SigueAcceso ==
  ASSUME InvTres, NEW c \in Cpu, instr[c].pc # "libre", NEW i, NEW m, NEW t,
         UNCHANGED <<config, procesos, terminados>>,
         instr' = [instr EXCEPT ![c] = i] \/ (instr' = instr /\ i = instr[c]),
         cache' = [cache EXCEPT ![c] = m] \/ (cache' = cache /\ m = cache[c]),
         tlb' = [tlb EXCEPT ![c] = t] \/ (tlb' = tlb /\ t = tlb[c]),
         i.pid = instr[c].pid, InstrVale(i), VictimaVale(i, m),
         config.tlb > 0 => \A j \in DOMAIN t.entradas : TraduccionVale(t.entradas[j]),
         config.cache > 0 => \A j \in DOMAIN m.entradas : Usado(m.entradas[j].pid)
  PROVE  InvAcceso'
BY Ejecutado, UnaCpuAcceso

LEMMA EntreAcceso ==
  ASSUME NEW p, NEW m
  PROVE  /\ Entre(p).pc = "fetch" /\ Entre(p).pid = p
         /\ InstrVale(Entre(p)) /\ VictimaVale(Entre(p), m)
<1>1. Entre(p).pc = "fetch" /\ Entre(p).pid = p
  BY DEF Entre, SinInstr
<1> QED
  BY <1>1 DEF InstrVale, VictimaVale

\* One that changes only the instruction.
LEMMA SoloInstrAcceso ==
  ASSUME InvTres, NEW c \in Cpu, instr[c].pc # "libre", NEW i,
         UNCHANGED <<config, procesos, terminados, cache, tlb>>,
         instr' = [instr EXCEPT ![c] = i],
         i.pid = instr[c].pid, i.pc # "actualizar", InstrVale(i)
  PROVE  InvAcceso'
<1> DEFINE m == cache[c]
           t == tlb[c]
<1>1. /\ config.tlb > 0 => \A j \in DOMAIN t.entradas : TraduccionVale(t.entradas[j])
      /\ config.cache > 0 => \A j \in DOMAIN m.entradas : Usado(m.entradas[j].pid)
      /\ VictimaVale(i, m)
  BY PartesAcceso DEF VictimaVale
<1>2. cache' = cache /\ m = cache[c] /\ tlb' = tlb /\ t = tlb[c]
  OBVIOUS
<1> HIDE DEF m, t
<1> QED
  BY <1>1, <1>2, SigueAcceso

LEMMA DespachoAcceso ==
  ASSUME InvTres, NEW c \in config.cpus, c \in Cpu,
         Ceder(c) \/ \E p \in Pid : Despachar(c, p)
  PROVE  InvAcceso'
<1> DEFINE m == cache[c]
           t == tlb[c]
<1>1. UNCHANGED <<config, procesos, terminados, cache, tlb>>
  BY DEF Ceder, Despachar
<1>2. /\ config.tlb > 0 => \A j \in DOMAIN t.entradas : TraduccionVale(t.entradas[j])
      /\ config.cache > 0 => \A j \in DOMAIN m.entradas : Usado(m.entradas[j].pid)
      /\ cache' = cache /\ m = cache[c] /\ tlb' = tlb /\ t = tlb[c]
  BY <1>1, PartesAcceso
<1>3. CASE Ceder(c)
  <2> DEFINE i == SinInstr
  <2>1. i.pc = "libre" /\ i.pid = NADA /\ instr' = [instr EXCEPT ![c] = i]
    BY <1>3 DEF SinInstr, Ceder
  <2> HIDE DEF i, m, t
  <2>2. InstrVale(i) /\ VictimaVale(i, m)
    BY <2>1 DEF InstrVale, VictimaVale
  <2> QED
    BY <1>1, <1>2, <2>1, <2>2, UnaCpuAcceso
<1>4. ASSUME NEW p \in Pid, Despachar(c, p) PROVE InvAcceso'
  <2> DEFINE i == Entre(p)
  <2>1. /\ instr' = [instr EXCEPT ![c] = i] /\ ~Ejecuta(p) /\ EnRam(p)
    BY <1>4 DEF Despachar, EnRam
  <2>2. i.pid = p /\ InstrVale(i) /\ VictimaVale(i, m)
    BY EntreAcceso
  <2>3. \A d \in Cpu : instr[d].pid # p
    BY <2>1, NadieLoEjecuta
  <2> HIDE DEF i, m, t
  <2> QED
    BY <1>1, <1>2, <2>1, <2>2, <2>3, UnaCpuAcceso
<1> QED
  BY <1>3, <1>4

\* The frame ConseguirDireccionFisica finds is that of the page, or none; of a
\* process that ended, none, when there is no TLB to remember it.
LEMMA DireccionAcceso ==
  ASSUME Regulares, InvTres, NEW c \in Cpu, NEW p \in Pid, NEW k \in Pagina,
         k < config.paginas[p], Usado(p), Vive(p) \/ config.tlb = 0
  PROVE  LET r == Direccion(c, p, k) IN
         /\ Vive(p) => r.marco = SuMarco(p, k) \/ (r.marco = NoHay /\ config.cache = 0)
         /\ ~Vive(p) => r.marco = NoHay
         /\ config.tlb > 0 =>
              \A i \in DOMAIN r.tlb.entradas : TraduccionVale(r.tlb.entradas[i])
<1> DEFINE r == Direccion(c, p, k)
           s == tlb[c].entradas
           f == MarcoDe(p, k)
<1>1. /\ \/ r.marco = f
         \/ config.tlb > 0 /\ \E j \in DOMAIN s : EsDe(s[j], k, p, r.marco)
      /\ \A i \in DOMAIN r.tlb.entradas :
           \/ f # NoHay /\ EsDe(r.tlb.entradas[i], k, p, f)
           \/ i \in DOMAIN s /\ MismaTraduccion(r.tlb.entradas[i], s[i])
  <2>1. config.tlb \in Nat /\ (config.tlb > 0 => TLBBuena(tlb[c], config.tlb))
    BY Partes DEF InvTres
  <2> QED
    BY <2>1, DireccionTraduccion
<1>2. /\ ~Vive(p) => f = NoHay
      /\ Vive(p) => f = SuMarco(p, k) \/ (f = NoHay /\ config.cache = 0)
  BY MarcoDeLaPagina DEF InvTres
<1>3. config.tlb > 0 => \A i \in DOMAIN s : TraduccionVale(s[i])
  BY PartesAcceso
<1>4. config.tlb \in Nat
  BY Partes DEF InvTres
<1> HIDE DEF r, s, f
<1>5. Vive(p) => r.marco = SuMarco(p, k) \/ (r.marco = NoHay /\ config.cache = 0)
  BY <1>1, <1>2, <1>3 DEF EsDe, TraduccionVale
<1>6. ~Vive(p) => r.marco = NoHay
  BY <1>1, <1>2, <1>4
<1>7. ASSUME config.tlb > 0, NEW i \in DOMAIN r.tlb.entradas
      PROVE  TraduccionVale(r.tlb.entradas[i])
  <2>1. CASE f # NoHay /\ EsDe(r.tlb.entradas[i], k, p, f)
    BY <1>2, <2>1 DEF EsDe, TraduccionVale
  <2>2. CASE i \in DOMAIN s /\ MismaTraduccion(r.tlb.entradas[i], s[i])
    BY <1>3, <1>7, <2>2 DEF MismaTraduccion, TraduccionVale
  <2> QED
    BY <1>1, <2>1, <2>2
<1> QED
  BY <1>5, <1>6, <1>7 DEF r

\* A hit changes no page's owner.
LEMMA AcertarAcceso ==
  ASSUME InvTres, NEW c \in Cpu, NEW op, NEW k \in Pagina, NEW v, Acertar(c, op, k, v)
  PROVE  InvAcceso'
<1> DEFINE m == cache[c]
           q == IF op = "WRITE" THEN Escrita(m, k, v) ELSE Leida(m, k)
           i == m.indice[k]
           j == instr[c]
           t == tlb[c]
<1>1. /\ j.pc = "fetch" /\ i # 0 /\ config.cache > 0
      /\ cache' = [cache EXCEPT ![c] = q]
      /\ UNCHANGED <<config, procesos, terminados, memoria, trabada, tlb, instr>>
  BY DEF Acertar, EnCache
<1>2. CacheBuena(m, config.cache) /\ \A x \in DOMAIN m.entradas : Usado(m.entradas[x].pid)
  BY <1>1, Partes, PartesAcceso DEF InvTres
<1>3. i \in DOMAIN m.entradas
  BY <1>1, <1>2, CopiaEnSuLugar
<1>4. \A x \in DOMAIN Escrita(m, k, v).entradas : Usado(Escrita(m, k, v).entradas[x].pid)
  <2> DEFINE w == Escrita(m, k, v)
  <2>1. i = m.indice[k] /\ w = Escrita(m, k, v)
    OBVIOUS
  <2> HIDE DEF m, i, w
  <2>2. m.indice[k] # 0 /\ CacheBuena(m, config.cache)
    BY <1>1, <1>2, <2>1
  <2>3. /\ DOMAIN w.entradas = DOMAIN m.entradas /\ w.entradas[i].pid = m.entradas[i].pid
        /\ \A x \in DOMAIN m.entradas \ {i} : w.entradas[x] = m.entradas[x]
    BY <2>1, <2>2, EscritaCopias
  <2> QED
    BY <1>2, <1>3, <2>3 DEF w
<1>5. \A x \in DOMAIN Leida(m, k).entradas : Usado(Leida(m, k).entradas[x].pid)
  <2> DEFINE w == Leida(m, k)
  <2>1. /\ DOMAIN w.entradas = DOMAIN m.entradas
        /\ \A x \in DOMAIN m.entradas : MismaCopia(w.entradas[x], m.entradas[x])
    BY <1>1, <1>2, LeidaCopias
  <2> HIDE DEF w, m
  <2> QED
    BY <1>2, <2>1 DEF MismaCopia, w
<1>6. \A x \in DOMAIN q.entradas : Usado(q.entradas[x].pid)
  BY <1>4, <1>5
<1>7. /\ config.tlb > 0 => \A x \in DOMAIN t.entradas : TraduccionVale(t.entradas[x])
      /\ InstrVale(j) /\ VictimaVale(j, q)
      /\ j.pc # "libre" /\ j.pid = instr[c].pid
      /\ instr' = instr /\ j = instr[c] /\ tlb' = tlb /\ t = tlb[c]
  BY <1>1, PartesAcceso DEF VictimaVale
<1> HIDE DEF q, j, t, m
<1> QED
  BY <1>1, <1>6, <1>7, SigueAcceso

LEMMA FallarAcceso ==
  ASSUME InvTres, NEW c \in Cpu, NEW op, NEW k, NEW v, Fallar(c, op, k, v)
  PROVE  InvAcceso'
<1> DEFINE e == Entre(instr[c].pid)
           i == [e EXCEPT !.pc = "traducir", !.op = op, !.pagina = k, !.valor = v]
<1>1. /\ instr[c].pc = "fetch" /\ instr' = [instr EXCEPT ![c] = i]
      /\ UNCHANGED <<config, procesos, terminados, cache, tlb>>
  BY DEF Fallar
<1>2. i.pc = "traducir" /\ i.pid = instr[c].pid
  BY DEF Entre, SinInstr
<1> HIDE DEF i
<1>3. InstrVale(i)
  BY <1>2 DEF InstrVale
<1> QED
  BY <1>1, <1>2, <1>3, SoloInstrAcceso

LEMMA TraducirAcceso ==
  ASSUME Regulares, InvTres, NEW c \in Cpu, Traducir(c) PROVE InvAcceso'
<1> DEFINE e == instr[c]
           d == Direccion(c, e.pid, e.pagina)
           pc == IF config.cache > 0 THEN "pedir" ELSE "enviar"
           i == [e EXCEPT !.marco = d.marco, !.pc = pc]
           m == cache[c]
           t == d.tlb
<1>1. /\ e.pc = "traducir" /\ UNCHANGED <<config, procesos, terminados, cache>>
      /\ tlb' = [tlb EXCEPT ![c] = t] /\ instr' = [instr EXCEPT ![c] = i]
  BY DEF Traducir
<1>2. /\ e.pid \in Pid /\ e.pagina \in Pagina /\ e.pagina < config.paginas[e.pid]
      /\ Vive(e.pid) /\ Usado(e.pid) /\ e \in Instr
  BY <1>1, PartesTipos, Ejecutado DEF InvTres, EnOperacion, DeUnProceso, Usado
<1>3. /\ d.marco = SuMarco(e.pid, e.pagina) \/ d.marco = NoHay
      /\ config.tlb > 0 => \A x \in DOMAIN t.entradas : TraduccionVale(t.entradas[x])
  BY <1>2, DireccionAcceso
<1> HIDE DEF d
<1>4. /\ i.pid = e.pid /\ i.pagina = e.pagina /\ i.marco = d.marco
      /\ i.pc \in {"pedir", "enviar"}
  <2> HIDE DEF e
  <2> QED
    BY <1>2 DEF Instr
<1> HIDE DEF i
<1>5. InstrVale(i) /\ VictimaVale(i, m)
  BY <1>3, <1>4 DEF InstrVale, VictimaVale
<1>6. /\ config.cache > 0 => \A x \in DOMAIN m.entradas : Usado(m.entradas[x].pid)
      /\ cache' = cache /\ m = cache[c] /\ i.pid = instr[c].pid /\ instr[c].pc # "libre"
  BY <1>1, <1>4, PartesAcceso
<1> HIDE DEF t, m
<1> QED
  BY <1>1, <1>3, <1>5, <1>6, SigueAcceso

LEMMA PedidosAcceso ==
  ASSUME InvTres, NEW c \in Cpu,
         Pedir(c) \/ Enviar(c) \/ Acceder(c) \/ EnviarSinMarco(c)
  PROVE  InvAcceso' /\ UNCHANGED procesos
<1> DEFINE e == instr[c]
<1>1. UNCHANGED <<config, terminados, cache, tlb>>
  BY DEF Pedir, Enviar, Acceder, EnviarSinMarco
<1>2. e \in Instr /\ InstrVale(e)
  BY PartesTipos, PartesAcceso DEF InvTres
<1>3. CASE Pedir(c)
  <2> DEFINE v == memoria[IF e.marco = NoHay THEN 0 ELSE e.marco]
             i == [e EXCEPT !.pc = "insertar", !.contenido = v]
  <2>1. e.pc = "pedir" /\ instr' = [instr EXCEPT ![c] = i] /\ UNCHANGED procesos
    BY <1>3 DEF Pedir, Decodificado
  <2>2. i.pc = "insertar" /\ i.pid = e.pid
    <3> HIDE DEF e, v
    <3> QED
      BY <1>2 DEF Instr
  <2> HIDE DEF i
  <2>3. InstrVale(i)
    BY <2>2 DEF InstrVale
  <2> QED
    BY <1>1, <2>1, <2>2, <2>3, SoloInstrAcceso
<1>4. CASE Enviar(c)
  <2> DEFINE r == procesos[e.pid]
             i == [e EXCEPT !.pc = "acceder", !.copia = r]
  <2>1. e.pc = "enviar" /\ instr' = [instr EXCEPT ![c] = i] /\ UNCHANGED procesos
    BY <1>4 DEF Enviar
  <2>2. /\ i.pc = "acceder" /\ i.pid = e.pid /\ i.marco = e.marco /\ i.pagina = e.pagina
        /\ i.copia = procesos[e.pid]
    <3> HIDE DEF e
    <3> QED
      BY <1>2 DEF Instr
  <2> HIDE DEF i
  <2>3. InstrVale(i)
    BY <1>2, <2>1, <2>2 DEF InstrVale
  <2> QED
    BY <1>1, <2>1, <2>2, <2>3, SoloInstrAcceso
<1>5. CASE Acceder(c) \/ EnviarSinMarco(c)
  <2> DEFINE i == Entre(e.pid)
  <2>1. e.pc \in {"acceder", "enviar"} /\ instr' = [instr EXCEPT ![c] = i]
    BY <1>5 DEF Acceder, EnviarSinMarco
  <2>2. UNCHANGED procesos
    <3>1. CASE Acceder(c)
      <4>1. e.pc = "acceder" /\ procesos' = [procesos EXCEPT ![e.pid] = e.copia]
        BY <3>1 DEF Acceder
      <4>2. e.copia = procesos[e.pid]
        BY <1>2, <4>1 DEF InstrVale
      <4>3. procesos \in [Pid -> Proceso \cup {NADA}]
        BY DEF InvTres, InvTiposMV, InvDatos
      <4> QED
        BY <4>1, <4>2, <4>3
    <3> QED
      BY <1>5, <3>1 DEF EnviarSinMarco
  <2>3. i.pc = "fetch" /\ i.pid = e.pid /\ InstrVale(i)
    BY EntreAcceso
  <2> HIDE DEF i
  <2> QED
    BY <1>1, <2>1, <2>2, <2>3, SoloInstrAcceso
<1> QED
  BY <1>3, <1>4, <1>5

LEMMA CompletarAcceso ==
  ASSUME InvTres, NEW c \in Cpu, instr[c].pc \in EnOperacion, NEW m, Completar(c, m),
         UNCHANGED <<config, procesos, terminados, tlb>>,
         \A j \in DOMAIN m.entradas : Usado(m.entradas[j].pid)
  PROVE  InvAcceso'
<1> DEFINE i == Entre(instr[c].pid)
           t == tlb[c]
<1>1. /\ cache' = [cache EXCEPT ![c] = m] /\ instr' = [instr EXCEPT ![c] = i]
      /\ instr[c].pc # "libre"
  BY DEF Completar, EnOperacion
<1>2. /\ i.pid = instr[c].pid /\ InstrVale(i) /\ VictimaVale(i, m)
      /\ config.tlb > 0 => \A j \in DOMAIN t.entradas : TraduccionVale(t.entradas[j])
      /\ tlb' = tlb /\ t = tlb[c]
  BY EntreAcceso, PartesAcceso
<1> HIDE DEF i, t
<1> QED
  BY <1>1, <1>2, SigueAcceso

\* The entry an instruction puts is of its process.
LEMMA NuevaUsada ==
  ASSUME InvTres, NEW c \in Cpu, instr[c].pc \in EnOperacion PROVE Usado(Nueva(c).pid)
BY NuevaBien, Ejecutado DEF InvTres, EnOperacion, Usado

LEMMA InsertarAcceso ==
  ASSUME InvTres, NEW c \in Cpu, InsertarEncima(c) \/ InsertarAlFinal(c)
  PROVE  InvAcceso'
<1> DEFINE m == cache[c]
           e == Nueva(c)
<1>1. UNCHANGED <<config, procesos, terminados, tlb>> /\ instr[c].pc = "insertar"
  BY DEF InsertarEncima, InsertarAlFinal
<1>2. /\ Usado(e.pid) /\ e.pagina \in Pagina /\ e.pagina = instr[c].pagina
      /\ CacheBuena(m, config.cache) /\ instr[c].pc \in EnOperacion
      /\ \A j \in DOMAIN m.entradas : Usado(m.entradas[j].pid)
  BY <1>1, AlInsertar, NuevaUsada, NuevaEsDeLaPagina, PartesAcceso DEF InvTres, EnOperacion
<1> HIDE DEF e, m
<1>3. CASE InsertarEncima(c)
  <2> DEFINE n == Sobrescribir(m, e)
             v == m.indice[e.pagina]
  <2>1. v # 0 /\ Completar(c, n) /\ n.entradas = [m.entradas EXCEPT ![v] = e]
    BY <1>2, <1>3 DEF InsertarEncima, Sobrescribir, m, e
  <2>2. v \in DOMAIN m.entradas
    BY <1>2, <2>1, CopiaEnSuLugar
  <2> HIDE DEF n, v
  <2>3. \A j \in DOMAIN n.entradas : Usado(n.entradas[j].pid)
    BY <1>2, <2>1, <2>2
  <2> QED
    BY <1>1, <1>2, <2>1, <2>3, CompletarAcceso
<1>4. CASE InsertarAlFinal(c)
  <2> DEFINE n == Agregar(m, e)
             l == Len(m.entradas) + 1
  <2>1. Completar(c, n)
    BY <1>4 DEF InsertarAlFinal, m, e
  <2>2. /\ DOMAIN n.entradas = DOMAIN m.entradas \cup {l} /\ n.entradas[l] = e
        /\ \A j \in DOMAIN m.entradas : n.entradas[j] = m.entradas[j]
    BY <1>2, AgregarCopias DEF CacheBuena
  <2> HIDE DEF n, l
  <2>3. \A j \in DOMAIN n.entradas : Usado(n.entradas[j].pid)
    BY <1>2, <2>2
  <2> QED
    BY <1>1, <1>2, <2>1, <2>3, CompletarAcceso
<1> QED
  BY <1>3, <1>4

LEMMA ReemplazarAcceso ==
  ASSUME InvTres, NEW c \in Cpu, instr[c].pc \in EnOperacion, NEW m, TipoCache(m),
         NEW v \in DOMAIN m.entradas, Completar(c, Reemplazar(m, v, Nueva(c))),
         UNCHANGED <<config, procesos, terminados, tlb>>,
         \A j \in DOMAIN m.entradas : Usado(m.entradas[j].pid)
  PROVE  InvAcceso'
<1> DEFINE e == Nueva(c)
           q == Reemplazar(m, v, e)
<1>1. /\ DOMAIN q.entradas = DOMAIN m.entradas /\ q.entradas[v] = e
      /\ \A j \in DOMAIN m.entradas \ {v} : q.entradas[j] = m.entradas[j]
  BY ReemplazarCopias
<1>2. Usado(e.pid) /\ Completar(c, q)
  BY NuevaUsada
<1> HIDE DEF e, q
<1>3. \A j \in DOMAIN q.entradas : Usado(q.entradas[j].pid)
  BY <1>1, <1>2
<1> QED
  BY <1>2, <1>3, CompletarAcceso

\* Who the victim is: with a TLB, the process that is executed.
LEMMA DuenioDeLaVictima ==
  ASSUME Regulares, InvTres, NEW c \in Cpu, instr[c].pc = "insertar",
         NEW v, CopiaBien(v)
  PROVE  Vive(v.pid) \/ config.tlb = 0
<1> SUFFICES ASSUME config.tlb # 0 PROVE Vive(v.pid)
  OBVIOUS
<1> DEFINE q == instr[c].pid
<1>1. q \in Pid /\ Vive(q) /\ instr[c].pagina < config.paginas[q] /\ instr[c].pagina \in Nat
  BY Ejecutado, PartesTipos, Datos DEF InvTres, EnOperacion, DeUnProceso
<1>2. v.pid \in Pid /\ v.pagina \in Nat /\ v.pagina < config.paginas[v.pid]
  BY Datos DEF CopiaBien, DeUnProceso
<1>3. config.cache > 0 /\ config.tlb > 0
  BY AlInsertar, Partes DEF InvTres
<1>4. config.paginas[q] > 0 /\ config.paginas[v.pid] > 0
  <2>1. config.paginas[q] \in Nat /\ config.paginas[v.pid] \in Nat
    BY <1>1, <1>2, PaginasDe DEF InvTres, InvMMU
  <2> HIDE DEF q
  <2> QED
    BY <1>1, <1>2, <2>1
<1>5. v.pid = q
  BY <1>1, <1>2, <1>3, <1>4, ConfigRegular DEF InvTres, InvMMU
<1> QED
  BY <1>1, <1>5

LEMMA ElegirVictimaAcceso ==
  ASSUME Regulares, InvTres, NEW c \in Cpu, ElegirVictima(c) PROVE InvAcceso'
<1> DEFINE m == cache[c]
           e == Elegir(m, config.algCache)
           w == e.victima
           b == Barrida(m, e.entradas)
           v == e.entradas[w]
           d == Direccion(c, v.pid, v.pagina)
           j == instr[c]
           i == [j EXCEPT !.pc = "actualizar", !.victima = w, !.marco = d.marco]
<1>1. /\ j.pc = "insertar" /\ Len(m.entradas) >= config.cache
      /\ UNCHANGED <<config, procesos, terminados>>
      /\ \/ /\ tlb' = [tlb EXCEPT ![c] = d.tlb] /\ cache' = [cache EXCEPT ![c] = b]
            /\ instr' = [instr EXCEPT ![c] = i]
         \/ Completar(c, Reemplazar(b, w, Nueva(c))) /\ UNCHANGED tlb
  BY DEF ElegirVictima
<1>2. /\ w \in DOMAIN m.entradas /\ w \in Nat /\ b.entradas = e.entradas
      /\ CacheBuena(b, config.cache) /\ DOMAIN b.entradas = DOMAIN m.entradas
      /\ \A k \in DOMAIN m.entradas : MismaCopia(b.entradas[k], m.entradas[k])
      /\ \A k \in DOMAIN m.entradas : CopiaBien(b.entradas[k])
  BY <1>1, Barrido DEF InvTres
<1>3. config.cache \in Nat \ {0} /\ j.pc \in EnOperacion
  BY <1>1, AlInsertar DEF InvTres, EnOperacion
<1>4. \A k \in DOMAIN b.entradas : Usado(b.entradas[k].pid)
  <2>1. \A k \in DOMAIN m.entradas : Usado(m.entradas[k].pid)
    BY <1>3, PartesAcceso
  <2> HIDE DEF m, b
  <2> QED
    BY <1>2, <2>1 DEF MismaCopia
<1>5. /\ v = b.entradas[w] /\ CopiaBien(v) /\ Usado(v.pid)
      /\ v.pid \in Pid /\ v.pagina \in Pagina /\ v.pagina < config.paginas[v.pid]
  <2> HIDE DEF e, w, b
  <2> QED
    BY <1>2, <1>4 DEF CopiaBien, DeUnProceso
<1> HIDE DEF e, w, b, v, m
<1>6. CASE Completar(c, Reemplazar(b, w, Nueva(c))) /\ UNCHANGED tlb
  <2>1. w \in DOMAIN b.entradas /\ TipoCache(b)
    BY <1>2 DEF CacheBuena
  <2> QED
    BY <1>1, <1>3, <1>4, <1>6, <2>1, ReemplazarAcceso
<1>7. CASE /\ tlb' = [tlb EXCEPT ![c] = d.tlb] /\ cache' = [cache EXCEPT ![c] = b]
           /\ instr' = [instr EXCEPT ![c] = i]
  <2>1. Vive(v.pid) \/ config.tlb = 0
    BY <1>1, <1>5, DuenioDeLaVictima
  <2>2. /\ Vive(v.pid) => d.marco = SuMarco(v.pid, v.pagina) \/ (d.marco = NoHay /\ config.cache = 0)
        /\ ~Vive(v.pid) => d.marco = NoHay
        /\ config.tlb > 0 => \A k \in DOMAIN d.tlb.entradas : TraduccionVale(d.tlb.entradas[k])
    BY <1>5, <2>1, DireccionAcceso
  <2>3. j \in Instr
    BY PartesTipos DEF InvTres
  <2> HIDE DEF d
  <2>4. i.pc = "actualizar" /\ i.pid = j.pid /\ i.victima = w /\ i.marco = d.marco
    <3> HIDE DEF j
    <3> QED
      BY <2>3 DEF Instr
  <2> HIDE DEF i
  <2>5. InstrVale(i) /\ VictimaVale(i, b)
    BY <1>3, <1>5, <2>2, <2>4 DEF InstrVale, VictimaVale
  <2>6. instr[c].pc # "libre" /\ i.pid = instr[c].pid
    BY <1>1, <2>4
  <2>7. config.tlb > 0 => \A k \in DOMAIN d.tlb.entradas : TraduccionVale(d.tlb.entradas[k])
    BY <2>2
  <2> QED
    BY <1>1, <1>4, <1>7, <2>5, <2>6, <2>7, SigueAcceso
<1> QED
  BY <1>1, <1>6, <1>7

LEMMA ActualizarVictimaAcceso ==
  ASSUME InvTres, NEW c \in Cpu, ActualizarVictima(c) PROVE InvAcceso'
<1> DEFINE m == cache[c]
           w == instr[c].victima
<1>1. /\ UNCHANGED <<config, procesos, terminados, tlb>>
      /\ instr[c].pc = "actualizar" /\ Completar(c, Reemplazar(m, w, Nueva(c)))
  BY DEF ActualizarVictima
<1>2. /\ TipoCache(m) /\ w \in DOMAIN m.entradas /\ instr[c].pc \in EnOperacion
      /\ \A j \in DOMAIN m.entradas : Usado(m.entradas[j].pid)
  BY <1>1, AlInsertar, PartesAcceso DEF InvTres, EnCurso, CacheBuena, EnOperacion
<1> HIDE DEF m, w
<1> QED
  BY <1>1, <1>2, ReemplazarAcceso

LEMMA AccesoQuieto ==
  ASSUME InvAcceso, UNCHANGED vars PROVE InvAcceso'
<1>1. InvProcesos'
  BY DEF InvAcceso, InvProcesos, vars, Vive
<1>2. InvEjecucion'
  BY DEF InvAcceso, InvEjecucion, vars, EnRam, Vive
<1>3. InvMarcos'
  BY DEF InvAcceso, InvMarcos, vars, InstrVale, VictimaVale, TraduccionVale, SuMarco, Usado, Vive
<1> QED
  BY <1>1, <1>2, <1>3 DEF InvAcceso

LEMMA PasoAcceso ==
  ASSUME Regulares, InvTres, [Next]_vars PROVE InvAcceso'
<1>1. config.cpus \subseteq Cpu
  BY Configuracion DEF InvTres, InvMMU
<1>2. ASSUME NEW c \in Cpu, PasoCpu(c) PROVE InvAcceso'
  BY <1>2, AcertarAcceso, FallarAcceso, TraducirAcceso, PedidosAcceso, InsertarAcceso,
     ElegirVictimaAcceso, ActualizarVictimaAcceso DEF PasoCpu
<1>3. ASSUME NEW p \in Pid, PasoKernel(p) PROVE InvAcceso'
  BY <1>3, AdmitirAcceso, SuspenderAcceso, ReanudarAcceso, FinalizarAcceso DEF PasoKernel
<1>4. CASE Next
  BY <1>1, <1>2, <1>3, <1>4, DespachoAcceso DEF Next
<1>5. CASE UNCHANGED vars
  BY <1>5, AccesoQuieto DEF InvTres
<1> QED
  BY <1>4, <1>5

LEMMA InicioTres == Init => InvTres
BY InicioMMU, InicioTiposMV, InicioAcceso DEF InvTres

LEMMA PasoTres == ASSUME Regulares PROVE InvTres /\ [Next]_vars => InvTres'
BY PasoMMU, PasoTiposMV, PasoAcceso DEF InvTres

\* The frame of the page of a process that is in memory is one of its frames.
LEMMA EsSuyo ==
  ASSUME InvTiposMV, NEW p \in Pid, Vive(p), NEW k \in Pagina, k < config.paginas[p]
  PROVE  SuMarco(p, k) \in ToSet(procesos[p].marcos) /\ k + 1 \in DOMAIN procesos[p].marcos
<1>1. /\ Len(procesos[p].marcos) = config.paginas[p]
      /\ DOMAIN procesos[p].marcos = 1 .. Len(procesos[p].marcos)
  BY EntradaDe
<1>2. k + 1 \in 1 .. config.paginas[p]
  <2>1. Len(procesos[p].marcos) \in Nat
    BY EntradaDe, LenProperties
  <2> QED
    BY Datos, <1>1, <2>1
<1> QED
  BY <1>1, <1>2 DEF SuMarco, ToSet

LEMMA AccesoDeTres == ASSUME Regulares, InvTres PROVE AccesoPropio
<1> SUFFICES ASSUME NEW c \in config.cpus
             PROVE  LET i == instr[c]
                        de == IF i.pc = "actualizar" THEN cache[c].entradas[i.victima].pid
                              ELSE i.pid
                    IN i.pc \in {"pedir", "actualizar", "enviar", "acceder"} /\ i.marco # NoHay =>
                         /\ Vive(de) /\ ~procesos[de].suspendido
                         /\ i.marco \in ToSet(procesos[de].marcos)
  BY DEF AccesoPropio
<1> DEFINE i == instr[c]
<1>1. c \in Cpu
  BY Configuracion DEF InvTres, InvMMU
<1>2. CASE i.pc \in {"pedir", "enviar", "acceder"} /\ i.marco # NoHay
  <2>1. /\ i.pid \in Pid /\ Vive(i.pid) /\ EnRam(i.pid) /\ i.marco = SuMarco(i.pid, i.pagina)
        /\ i.pagina \in Pagina /\ i.pagina < config.paginas[i.pid]
    BY <1>1, <1>2, Ejecutado, PartesTipos, PartesAcceso
       DEF InvTres, EnOperacion, DeUnProceso, InstrVale
  <2>2. i.marco \in ToSet(procesos[i.pid].marcos)
    BY <2>1, EsSuyo DEF InvTres
  <2> QED
    BY <1>2, <2>1, <2>2 DEF EnRam
<1>3. CASE i.pc = "actualizar" /\ i.marco # NoHay
  <2> DEFINE v == cache[c].entradas[i.victima]
  <2>1. config.cache \in Nat \ {0} /\ i.victima \in DOMAIN cache[c].entradas
    BY <1>1, <1>3, AlInsertar DEF InvTres, EnCurso
  <2>2. v.pid \in Pid /\ v.pagina \in Pagina /\ v.pagina < config.paginas[v.pid]
    BY <1>1, <2>1, PartesTipos DEF InvTres, CopiaBien, DeUnProceso
  <2>3. Vive(v.pid) /\ i.marco = SuMarco(v.pid, v.pagina)
    BY <1>1, <1>3, PartesAcceso DEF VictimaVale
  <2>4. /\ i.pid \in Pid /\ EnRam(i.pid) /\ Vive(i.pid)
    BY <1>1, <1>3, Ejecutado
  <2>5. v.pid = i.pid
    BY <2>1, <2>2, <2>3, <2>4, ConfigRegular DEF InvTres, InvMMU, InvAcceso, InvProcesos
  <2>6. i.marco \in ToSet(procesos[v.pid].marcos)
    BY <2>2, <2>3, EsSuyo DEF InvTres
  <2> QED
    BY <1>3, <2>3, <2>4, <2>5, <2>6 DEF EnRam
<1> QED
  BY <1>2, <1>3

\* The frame that a CPU reads or writes is one of the process it does it for,
\* whatever the TLB remembers and whoever the victim belongs to.
THEOREM AccesoSiemprePropio == Regulares => (Spec => []AccesoPropio)
<1> SUFFICES ASSUME Regulares PROVE Spec => []AccesoPropio
  OBVIOUS
<1>1. InvTres => AccesoPropio
  BY AccesoDeTres
<1> QED
  BY <1>1, InicioTres, PasoTres, PTL DEF Spec
---------------------------------------------------------------------------
(* The mutex of the memory module. *)

\* Some process has a page table of a bad shape.
FormaMala == \E p \in Pid : ~FormaBuena(config.niveles, config.porTabla, config.paginas[p])

\* An instruction that goes to memory without a frame is one of a bad shape.
InvLibre ==
  /\ trabada => FormaMala
  /\ \A c \in Cpu : instr[c].pc = "enviar" /\ instr[c].marco = NoHay => FormaMala

\* A CPU finds no frame for a page its process has in a table of a bad shape only.
LEMMA SinMarcoEsMala ==
  ASSUME Regulares, InvTres, NEW c \in Cpu, instr[c].pc = "traducir",
         Direccion(c, instr[c].pid, instr[c].pagina).marco = NoHay
  PROVE  FormaMala
<1>1. PICK p, k : p = instr[c].pid /\ k = instr[c].pagina
  OBVIOUS
<1>2. /\ p \in Pid /\ k \in Pagina /\ k < config.paginas[p] /\ Vive(p)
  BY <1>1, PartesTipos, Ejecutado DEF InvTres, EnOperacion, DeUnProceso
<1>3. MarcoDe(p, k) = NoHay
  <2>1. config.tlb \in Nat /\ (config.tlb > 0 => TLBBuena(tlb[c], config.tlb))
    BY Partes DEF InvTres
  <2>2. \/ NoHay = MarcoDe(p, k)
        \/ config.tlb > 0 /\ \E j \in DOMAIN tlb[c].entradas :
                               EsDe(tlb[c].entradas[j], k, p, NoHay)
    BY <1>1, <1>2, <2>1, DireccionTraduccion
  <2>3. config.tlb > 0 => \A j \in DOMAIN tlb[c].entradas : tlb[c].entradas[j].marco # NoHay
    BY PartesTipos, Datos DEF InvTres, TraduccionBien
  <2> QED
    BY <2>2, <2>3 DEF EsDe
<1>4. SuMarco(p, k) \in Marco /\ NoHay \notin Marco
  BY <1>2, MarcoDeLaPagina, Datos DEF InvTres
<1>5. ASSUME FormaBuena(config.niveles, config.porTabla, config.paginas[p]) PROVE FALSE
  <2>1. /\ config.niveles \in Nat \ {0} /\ config.porTabla \in Nat \ {0}
        /\ config.paginas[p] \in Nat /\ k \in Nat
    BY <1>2, MemoriaVirtualOK DEF InvTres, InvMMU
  <2>2. config.paginas[p] <= Exp(config.porTabla, config.niveles)
    BY <1>5 DEF FormaBuena
  <2>3. PICK x \in Nat : x = Exp(config.porTabla, config.niveles)
    BY <2>1, ExpTipo
  <2>4. k \in 0 .. Exp(config.porTabla, config.niveles) - 1
    BY <1>2, <2>1, <2>2, <2>3
  <2>5. MarcoDe(p, k) = SuMarco(p, k)
    BY <1>2, <1>5, <2>4, TablasAlcanzan DEF InvTres, SuMarco
  <2> QED
    BY <1>3, <1>4, <2>5
<1> QED
  BY <1>2, <1>5 DEF FormaMala

\* A step after which the instruction of c, if it goes to memory without a frame,
\* is one of a bad shape.
LEMMA SigueLibre ==
  ASSUME InvLibre, UNCHANGED config, NEW c \in Cpu, NEW i,
         instr' = [instr EXCEPT ![c] = i], i.pc = "enviar" /\ i.marco = NoHay => FormaMala,
         trabada' => trabada \/ FormaMala
  PROVE  InvLibre'
<1>1. FormaMala' <=> FormaMala
  BY DEF FormaMala
<1>2. ASSUME NEW d \in Cpu, instr'[d].pc = "enviar", instr'[d].marco = NoHay PROVE FormaMala
  <2>1. CASE d = c /\ c \in DOMAIN instr
    BY <1>2, <2>1
  <2>2. CASE ~(d = c /\ c \in DOMAIN instr)
    BY <1>2, <2>2 DEF InvLibre
  <2> QED
    BY <2>1, <2>2
<1> QED
  BY <1>1, <1>2 DEF InvLibre

LEMMA PasoCpuLibre ==
  ASSUME Regulares, InvTres, InvLibre, NEW c \in Cpu, PasoCpu(c) PROVE InvLibre'
<1>1. instr[c] \in Instr /\ UNCHANGED config
  BY PartesTipos DEF InvTres, PasoCpu, Acertar, Fallar, Traducir, Pedir, InsertarEncima,
     InsertarAlFinal, ElegirVictima, ActualizarVictima, Enviar, Acceder, EnviarSinMarco
<1>2. \A p : Entre(p).pc = "fetch"
  BY DEF Entre, SinInstr
<1>3. ASSUME NEW op, NEW k, NEW v, Acertar(c, op, k, v) PROVE InvLibre'
  BY <1>3 DEF Acertar, InvLibre, FormaMala
<1>4. ASSUME NEW op, NEW k, NEW v, Fallar(c, op, k, v) PROVE InvLibre'
  <2>1. PICK i : i = [Entre(instr[c].pid) EXCEPT !.pc = "traducir", !.op = op, !.pagina = k,
                                                 !.valor = v]
    OBVIOUS
  <2>2. i.pc = "traducir"
    BY <2>1 DEF Entre, SinInstr
  <2> QED
    BY <1>4, <2>1, <2>2, SigueLibre DEF Fallar
<1>5. CASE Traducir(c)
  <2> DEFINE d == Direccion(c, instr[c].pid, instr[c].pagina)
  <2>1. PICK i : i = [instr[c] EXCEPT !.marco = d.marco,
                        !.pc = IF config.cache > 0 THEN "pedir" ELSE "enviar"]
    OBVIOUS
  <2>2. i.marco = d.marco
    BY <1>1, <2>1 DEF Instr
  <2>3. instr[c].pc = "traducir" /\ instr' = [instr EXCEPT ![c] = i] /\ UNCHANGED trabada
    BY <1>5, <2>1 DEF Traducir
  <2>4. i.marco = NoHay => FormaMala
    BY <2>2, <2>3, SinMarcoEsMala
  <2> QED
    BY <1>1, <2>3, <2>4, SigueLibre
<1>6. CASE Pedir(c)
  <2>1. PICK i : i = instr'[c]
    OBVIOUS
  <2>2. i.pc = "insertar" /\ instr' = [instr EXCEPT ![c] = i] /\ UNCHANGED trabada
    BY <1>1, <1>6, <2>1 DEF Pedir, Instr, InvTres, InvTiposMV, InvCpus, InvMMU
  <2> QED
    BY <1>1, <2>2, SigueLibre
<1>7. ASSUME NEW n, Completar(c, n), UNCHANGED trabada PROVE InvLibre'
  <2>1. PICK i : i = Entre(instr[c].pid)
    OBVIOUS
  <2> QED
    BY <1>1, <1>2, <1>7, <2>1, SigueLibre DEF Completar
<1>8. CASE InsertarEncima(c) \/ InsertarAlFinal(c) \/ ActualizarVictima(c)
  BY <1>7, <1>8 DEF InsertarEncima, InsertarAlFinal, ActualizarVictima
<1>9. CASE ElegirVictima(c)
  <2> DEFINE e == Elegir(cache[c], config.algCache)
  <2>1. PICK v, w, b, f : /\ v = e.entradas[e.victima] /\ w = e.victima
                          /\ b = Barrida(cache[c], e.entradas)
                          /\ f = Direccion(c, v.pid, v.pagina).marco
    OBVIOUS
  <2>2. CASE v.d
    <3>1. PICK i : i = [instr[c] EXCEPT !.pc = "actualizar", !.victima = w, !.marco = f]
      OBVIOUS
    <3>2. i.pc = "actualizar"
      BY <1>1, <3>1 DEF Instr
    <3>3. instr' = [instr EXCEPT ![c] = i] /\ UNCHANGED trabada
      BY <1>9, <2>1, <2>2, <3>1 DEF ElegirVictima
    <3> QED
      BY <1>1, <3>2, <3>3, SigueLibre
  <2>3. CASE ~v.d
    <3>1. Completar(c, Reemplazar(b, w, Nueva(c))) /\ UNCHANGED trabada
      BY <1>9, <2>1, <2>3 DEF ElegirVictima
    <3> QED
      BY <1>7, <3>1
  <2> QED
    BY <2>2, <2>3
<1>10. CASE Enviar(c)
  <2>1. PICK i : i = [instr[c] EXCEPT !.pc = "acceder", !.copia = procesos[instr[c].pid]]
    OBVIOUS
  <2>2. i.pc = "acceder"
    BY <1>1, <2>1 DEF Instr
  <2> QED
    BY <1>1, <1>10, <2>1, <2>2, SigueLibre DEF Enviar
<1>11. CASE Acceder(c)
  <2>1. PICK i : i = Entre(instr[c].pid)
    OBVIOUS
  <2> QED
    BY <1>1, <1>2, <1>11, <2>1, SigueLibre DEF Acceder
<1>12. CASE EnviarSinMarco(c)
  <2>1. PICK i : i = Entre(instr[c].pid)
    OBVIOUS
  <2>2. FormaMala
    BY <1>12 DEF EnviarSinMarco, InvLibre
  <2> QED
    BY <1>1, <1>2, <1>12, <2>1, <2>2, SigueLibre DEF EnviarSinMarco
<1> QED
  BY <1>3, <1>4, <1>5, <1>6, <1>8, <1>9, <1>10, <1>11, <1>12 DEF PasoCpu

LEMMA PasoLibre ==
  ASSUME Regulares, InvTres, InvLibre, [Next]_vars PROVE InvLibre'
<1>1. config.cpus \subseteq Cpu
  BY Configuracion DEF InvTres, InvMMU
<1>2. ASSUME NEW c \in Cpu, Ceder(c) PROVE InvLibre'
  <2>1. PICK i : i = SinInstr
    OBVIOUS
  <2>2. i.pc = "libre"
    BY <2>1 DEF SinInstr
  <2> QED
    BY <1>2, <2>1, <2>2, SigueLibre DEF Ceder
<1>3. ASSUME NEW c \in Cpu, NEW p \in Pid, Despachar(c, p) PROVE InvLibre'
  <2>1. PICK i : i = Entre(p)
    OBVIOUS
  <2>2. i.pc = "fetch"
    BY <2>1 DEF Entre, SinInstr
  <2> QED
    BY <1>3, <2>1, <2>2, SigueLibre DEF Despachar
<1>4. ASSUME UNCHANGED <<config, trabada, instr>> PROVE InvLibre'
  BY <1>4 DEF InvLibre, FormaMala
<1>5. ASSUME NEW p \in Pid, PasoKernel(p) PROVE InvLibre'
  <2>1. UNCHANGED <<config, trabada, instr>>
    BY <1>5 DEF PasoKernel, Admitir, Suspender, Reanudar, Finalizar
  <2> QED
    BY <1>4, <2>1
<1>6. CASE UNCHANGED vars
  BY <1>4, <1>6 DEF vars
<1>7. ASSUME NEW c \in Cpu, PasoCpu(c) PROVE InvLibre'
  BY <1>7, PasoCpuLibre
<1> QED
  BY <1>1, <1>2, <1>3, <1>5, <1>6, <1>7 DEF Next

\* With a regular configuration the mutex of the memory module is left taken only
\* where a process has a page table of a bad shape, whoever is suspended, resumed
\* or ended and whatever the TLB remembers.
THEOREM SiempreMemoriaLibre == Regulares => (Spec => []MemoriaLibre)
<1> SUFFICES ASSUME Regulares PROVE Spec => []MemoriaLibre
  OBVIOUS
<1> DEFINE I == InvTres /\ InvLibre
<1>1. ASSUME Init PROVE InvLibre
  <2>1. ~trabada
    BY <1>1 DEF Init
  <2>2. SinInstr.pc = "libre"
    BY DEF SinInstr
  <2>3. \A c \in Cpu : instr[c] = SinInstr
    BY <1>1 DEF Init
  <2>4. \A c \in Cpu : instr[c].pc # "enviar"
    BY <2>2, <2>3
  <2> QED
    BY <2>1, <2>4 DEF InvLibre
<1>2. Init => I
  BY <1>1, InicioTres
<1>3. I /\ [Next]_vars => I'
  BY PasoTres, PasoLibre
<1>4. I => MemoriaLibre
  BY DEF InvLibre, FormaMala, MemoriaLibre
<1> QED
  BY <1>2, <1>3, <1>4, PTL DEF Spec
---------------------------------------------------------------------------
(* What each page holds. *)

\* What the memory module keeps of a page.
Guardado(p, k) ==
  IF procesos[p].suspendido THEN procesos[p].swap[k + 1] ELSE memoria[SuMarco(p, k)]

\* No frame is of two pages, and a free one holds zero.
InvReparto ==
  /\ \A p, q \in Pid : EnRam(p) /\ EnRam(q) =>
       \A i \in DOMAIN procesos[p].marcos, j \in DOMAIN procesos[q].marcos :
         procesos[p].marcos[i] = procesos[q].marcos[j] => p = q /\ i = j
  /\ \A f \in Marco \ Ocupados : memoria[f] = CERO

\* A copy that was not modified is what is kept.
CopiaVale(e) == Vive(e.pid) /\ ~e.d => e.contenido = Guardado(e.pid, e.pagina)

\* No copy of the page of an instruction.
SinCopia(i, m) ==
  \A j \in DOMAIN m.entradas :
    ~(m.entradas[j].pid = i.pid /\ m.entradas[j].pagina = i.pagina)

\* While an instruction brings a page, the cache does not have it and what was
\* read of it is what is kept.
InstrCopia(i, m) ==
  /\ config.cache > 0 /\ i.pc \in EnOperacion =>
       i.pc \notin {"enviar", "acceder"} /\ SinCopia(i, m)
  /\ i.pc = "pedir" => i.marco # NoHay
  /\ i.pc \in {"insertar", "actualizar"} => i.contenido = Guardado(i.pid, i.pagina)

InvCopias ==
  \A c \in Cpu :
    /\ InstrCopia(instr[c], cache[c])
    /\ config.cache > 0 => \A j \in DOMAIN cache[c].entradas :
         c \in config.cpus /\ CopiaVale(cache[c].entradas[j])

InvTodo == InvTres /\ InvReparto /\ InvCopias

LEMMA InicioTodo == Init => InvTodo
<1> SUFFICES ASSUME Init PROVE InvTodo
  OBVIOUS
<1>1. \A p \in Pid : ~Vive(p) /\ ~EnRam(p)
  BY DEF Init, Vive, EnRam
<1>2. InvReparto
  BY <1>1 DEF Init, InvReparto
<1>3. ASSUME NEW c \in Cpu PROVE instr[c].pc = "libre" /\ DOMAIN cache[c].entradas = {}
  <2>1. cache[c].entradas = <<>> /\ instr[c] = SinInstr
    BY DEF Init, NuevaCache
  <2>2. SinInstr.pc = "libre"
    BY DEF SinInstr
  <2>3. DOMAIN <<>> = {}
    OBVIOUS
  <2> QED
    BY <2>1, <2>2, <2>3
<1>4. InvCopias
  BY <1>3 DEF InvCopias, InstrCopia, EnOperacion
<1> QED
  BY <1>2, <1>4, InicioTres DEF InvTodo

\* The frames that are taken.
LEMMA EstaOcupado ==
  \A f : f \in Ocupados <=>
    \E p \in Pid : EnRam(p) /\ \E i \in DOMAIN procesos[p].marcos : procesos[p].marcos[i] = f
BY DEF Ocupados, ToSet, EnRam

LEMMA EstaraOcupado ==
  \A f : f \in Ocupados' <=>
    \E p \in Pid : EnRam(p)' /\ \E i \in DOMAIN procesos'[p].marcos : procesos'[p].marcos[i] = f
BY DEF Ocupados, ToSet, EnRam, Vive
---------------------------------------------------------------------------
(* Frames: the steps of the kernel and of the memory module. *)

\* A process comes into memory, in frames that were free.
LEMMA EntraReparto ==
  ASSUME InvTres, InvReparto, NEW p \in Pid, ~EnRam(p), NEW marcos \in Libres(config.paginas[p]),
         procesos' = [procesos EXCEPT ![p] =
           [suspendido |-> FALSE, marcos |-> marcos, swap |-> <<>>]],
         \A f \in Marco \ ToSet(marcos) : memoria'[f] = memoria[f]
  PROVE  InvReparto'
<1> DEFINE n == config.paginas[p]
           r == [suspendido |-> FALSE, marcos |-> marcos, swap |-> <<>>]
<1>1. /\ DOMAIN marcos = 1 .. n /\ \A i \in 1 .. n : marcos[i] \in Marco \ Ocupados
      /\ \A i, j \in 1 .. n : marcos[i] = marcos[j] => i = j
      /\ marcos \in Seq(Marco)
  BY PaginasDe, LibresSon DEF InvTres, InvMMU
<1>2. /\ procesos'[p] = r /\ \A q \in Pid \ {p} : procesos'[q] = procesos[q]
  BY DEF InvTres, InvTiposMV, InvDatos
<1>3. procesos'[p].marcos = marcos
  BY <1>2
<1>4. \A q \in Pid \ {p} : EnRam(q)' <=> EnRam(q)
  BY <1>2 DEF EnRam, Vive
<1>5. EnRam(p)'
  <2>1. r \in Proceso /\ ~r.suspendido
    BY <1>1 DEF Proceso
  <2> QED
    BY <1>2, <2>1, NADAAparte DEF EnRam, Vive
<1>6. ASSUME NEW q \in Pid, NEW s \in Pid, EnRam(q)', EnRam(s)',
             NEW i \in DOMAIN procesos'[q].marcos, NEW j \in DOMAIN procesos'[s].marcos,
             procesos'[q].marcos[i] = procesos'[s].marcos[j]
      PROVE  q = s /\ i = j
  <2>1. CASE q = p /\ s = p
    BY <1>1, <1>3, <1>6, <2>1
  <2>2. CASE q = p /\ s # p
    <3>1. marcos[i] \notin Ocupados
      BY <1>1, <1>3, <1>6, <2>2
    <3>2. EnRam(s) /\ procesos'[s] = procesos[s]
      BY <1>2, <1>4, <1>6, <2>2
    <3> QED
      BY <1>3, <1>6, <2>2, <3>1, <3>2, EstaOcupado
  <2>3. CASE q # p /\ s = p
    <3>1. marcos[j] \notin Ocupados
      BY <1>1, <1>3, <1>6, <2>3
    <3>2. EnRam(q) /\ procesos'[q] = procesos[q]
      BY <1>2, <1>4, <1>6, <2>3
    <3> QED
      BY <1>3, <1>6, <2>3, <3>1, <3>2, EstaOcupado
  <2>4. CASE q # p /\ s # p
    <3>1. EnRam(q) /\ EnRam(s) /\ procesos'[q] = procesos[q] /\ procesos'[s] = procesos[s]
      BY <1>2, <1>4, <1>6, <2>4
    <3> QED
      BY <1>6, <3>1 DEF InvReparto
  <2> QED
    BY <2>1, <2>2, <2>3, <2>4
<1>7. ASSUME NEW f \in Marco \ Ocupados' PROVE memoria'[f] = CERO
  <2>1. f \notin ToSet(marcos)
    <3> SUFFICES ASSUME NEW i \in DOMAIN marcos, marcos[i] = f PROVE FALSE
      BY DEF ToSet
    <3> QED
      BY <1>3, <1>5, EstaraOcupado
  <2>2. f \notin Ocupados
    <3> SUFFICES ASSUME NEW q \in Pid, EnRam(q), NEW i \in DOMAIN procesos[q].marcos,
                        procesos[q].marcos[i] = f
                 PROVE  FALSE
      BY EstaOcupado
    <3>1. EnRam(q)' /\ procesos'[q] = procesos[q]
      BY <1>2, <1>4
    <3> QED
      BY <3>1, EstaraOcupado
  <2> QED
    BY <2>1, <2>2 DEF InvReparto
<1> QED
  BY <1>6, <1>7 DEF InvReparto

\* A process leaves memory, and its frames are set to zero.
LEMMA SaleReparto ==
  ASSUME InvTres, InvReparto, NEW p \in Pid, NEW r, procesos' = [procesos EXCEPT ![p] = r],
         r = NADA \/ r.suspendido,
         EnRam(p) => Vaciar(procesos[p].marcos), ~EnRam(p) => memoria' = memoria
  PROVE  InvReparto'
<1>1. /\ procesos'[p] = r /\ \A q \in Pid \ {p} : procesos'[q] = procesos[q]
  BY DEF InvTres, InvTiposMV, InvDatos
<1>2. ~EnRam(p)' /\ \A q \in Pid \ {p} : EnRam(q)' <=> EnRam(q)
  BY <1>1 DEF EnRam, Vive
<1>3. ASSUME NEW q \in Pid, NEW s \in Pid, EnRam(q)', EnRam(s)',
             NEW i \in DOMAIN procesos'[q].marcos, NEW j \in DOMAIN procesos'[s].marcos,
             procesos'[q].marcos[i] = procesos'[s].marcos[j]
      PROVE  q = s /\ i = j
  <2>1. q # p /\ s # p
    BY <1>2, <1>3
  <2>2. EnRam(q) /\ EnRam(s) /\ procesos'[q] = procesos[q] /\ procesos'[s] = procesos[s]
    BY <1>1, <1>2, <1>3, <2>1
  <2> QED
    BY <1>3, <2>2 DEF InvReparto
<1>4. ASSUME NEW f \in Marco \ Ocupados' PROVE memoria'[f] = CERO
  <2>1. CASE EnRam(p) /\ f \in ToSet(procesos[p].marcos)
    BY <2>1 DEF Vaciar
  <2>2. CASE ~(EnRam(p) /\ f \in ToSet(procesos[p].marcos))
    <3>1. f \notin Ocupados
      <4> SUFFICES ASSUME NEW q \in Pid, EnRam(q), NEW i \in DOMAIN procesos[q].marcos,
                          procesos[q].marcos[i] = f
                   PROVE  FALSE
        BY EstaOcupado
      <4>1. q # p
        BY <2>2 DEF ToSet
      <4>2. EnRam(q)' /\ procesos'[q] = procesos[q]
        BY <1>1, <1>2, <4>1
      <4> QED
        BY <4>2, EstaraOcupado
    <3>2. memoria'[f] = memoria[f]
      BY <2>2 DEF Vaciar
    <3> QED
      BY <3>1, <3>2 DEF InvReparto
  <2> QED
    BY <2>1, <2>2
<1> QED
  BY <1>3, <1>4 DEF InvReparto

\* A write in a frame that is taken.
LEMMA EscribeReparto ==
  ASSUME InvTres, InvReparto, UNCHANGED procesos, NEW f \in Ocupados, NEW x,
         memoria' = [memoria EXCEPT ![f] = x]
  PROVE  InvReparto'
<1>1. Ocupados' = Ocupados
  BY DEF Ocupados, Vive
<1>2. \A g \in Marco \ Ocupados : memoria'[g] = memoria[g]
  BY DEF InvTres, InvTiposMV, InvDatos
<1> QED
  BY <1>1, <1>2 DEF InvReparto, EnRam, Vive

LEMMA RepartoQuieto ==
  ASSUME InvReparto, UNCHANGED <<procesos, memoria>> PROVE InvReparto'
<1>1. Ocupados' = Ocupados
  BY DEF Ocupados, Vive
<1> QED
  BY <1>1 DEF InvReparto, EnRam, Vive
---------------------------------------------------------------------------
(* What is kept of each page, after each of them. *)

\* A page that its process has.
SuPagina(p, k) == p \in Pid /\ Vive(p) /\ k \in Pagina /\ k < config.paginas[p]

LEMMA PaginaEnRam ==
  ASSUME InvTres, NEW p, NEW k, SuPagina(p, k)
  PROVE  /\ k + 1 \in DOMAIN procesos[p].marcos /\ k + 1 \in 1 .. config.paginas[p]
         /\ SuMarco(p, k) \in Marco
         /\ EnRam(p) => SuMarco(p, k) \in Ocupados
         /\ k \in Nat
<1>1. k + 1 \in DOMAIN procesos[p].marcos
  BY EsSuyo DEF SuPagina, InvTres
<1>2. /\ Len(procesos[p].marcos) = config.paginas[p]
      /\ DOMAIN procesos[p].marcos = 1 .. Len(procesos[p].marcos)
      /\ \A i \in DOMAIN procesos[p].marcos : procesos[p].marcos[i] \in Marco
  BY EntradaDe DEF SuPagina, InvTres
<1>3. EnRam(p) => SuMarco(p, k) \in Ocupados
  BY <1>1, EstaOcupado DEF SuMarco, SuPagina
<1>4. k \in Nat
  BY Datos DEF SuPagina
<1> QED
  BY <1>1, <1>2, <1>3, <1>4 DEF SuMarco

\* Two pages in memory are in different frames.
LEMMA MarcosDistintos ==
  ASSUME InvTres, InvReparto, NEW p, NEW k, SuPagina(p, k), EnRam(p),
         NEW q, NEW j, SuPagina(q, j), EnRam(q), SuMarco(p, k) = SuMarco(q, j)
  PROVE  p = q /\ k = j
<1>1. k + 1 \in DOMAIN procesos[p].marcos /\ j + 1 \in DOMAIN procesos[q].marcos
      /\ k \in Nat /\ j \in Nat
  BY PaginaEnRam
<1>2. p = q /\ k + 1 = j + 1
  BY <1>1 DEF InvReparto, SuMarco, SuPagina
<1> QED
  BY <1>1, <1>2

\* A page is written in its frame, and only it.
LEMMA EscribeGuardado ==
  ASSUME InvTres, InvReparto, UNCHANGED procesos, NEW p, NEW k, SuPagina(p, k), EnRam(p),
         \A f \in Marco \ {SuMarco(p, k)} : memoria'[f] = memoria[f],
         NEW q, NEW j, SuPagina(q, j)
  PROVE  /\ q = p /\ j = k => Guardado(q, j)' = memoria'[SuMarco(p, k)]
         /\ ~(q = p /\ j = k) => Guardado(q, j)' = Guardado(q, j)
<1>1. SuMarco(q, j) \in Marco /\ SuMarco(q, j)' = SuMarco(q, j)
  BY PaginaEnRam DEF SuMarco
<1>2. EnRam(q) /\ SuMarco(q, j) = SuMarco(p, k) => q = p /\ j = k
  BY MarcosDistintos
<1>3. CASE procesos[q].suspendido
  BY <1>3 DEF Guardado, EnRam
<1>4. CASE ~procesos[q].suspendido
  <2>1. EnRam(q)
    BY <1>4 DEF EnRam, SuPagina
  <2>2. Guardado(q, j)' = memoria'[SuMarco(q, j)] /\ Guardado(q, j) = memoria[SuMarco(q, j)]
    BY <1>1, <1>4 DEF Guardado
  <2> QED
    BY <1>1, <1>2, <2>1, <2>2
<1> QED
  BY <1>3, <1>4

\* What is kept of the pages of the processes that a step of the kernel leaves
\* alone, when it changes only frames that are not theirs.
LEMMA OtrosGuardados ==
  ASSUME InvTres, InvReparto, NEW p \in Pid,
         \A q \in Pid \ {p} : procesos'[q] = procesos[q],
         \A f \in Ocupados : memoria'[f] = memoria[f] \/
           (EnRam(p) /\ f \in ToSet(procesos[p].marcos)),
         NEW q, NEW j, SuPagina(q, j), q # p
  PROVE  Guardado(q, j)' = Guardado(q, j)
<1>1. procesos'[q] = procesos[q]
  BY DEF SuPagina
<1>2. CASE procesos[q].suspendido
  BY <1>1, <1>2 DEF Guardado
<1>3. CASE ~procesos[q].suspendido
  <2>1. EnRam(q) /\ SuMarco(q, j) \in Ocupados /\ j + 1 \in DOMAIN procesos[q].marcos
    BY <1>3, PaginaEnRam DEF EnRam, SuPagina
  <2>2. ~(EnRam(p) /\ SuMarco(q, j) \in ToSet(procesos[p].marcos))
    <3> SUFFICES ASSUME EnRam(p), NEW i \in DOMAIN procesos[p].marcos,
                        procesos[p].marcos[i] = SuMarco(q, j)
                 PROVE  FALSE
      BY DEF ToSet
    <3> QED
      BY <2>1 DEF InvReparto, SuMarco, SuPagina
  <2> QED
    BY <1>1, <1>3, <2>1, <2>2 DEF Guardado, SuMarco
<1> QED
  BY <1>2, <1>3
---------------------------------------------------------------------------
(* What a program sees of its pages. *)

EsCopia(e, p, k) == e.pid = p /\ e.pagina = k

HayCopia(p, k) ==
  config.cache > 0 /\ \E c \in config.cpus :
    \E j \in DOMAIN cache[c].entradas : EsCopia(cache[c].entradas[j], p, k)

\* With a cache there is one CPU.
UnaConCache == config.cache > 0 => \A c, d \in config.cpus : c = d

\* A page is in the cache of a CPU when one of its entries is of it; there is
\* no other.
LEMMA EnCacheSi ==
  ASSUME InvMMU, NEW c \in Cpu, config.cache > 0, NEW p, NEW k \in Pagina
  PROVE  /\ EnCache(cache[c], p, k) <=>
              \E j \in DOMAIN cache[c].entradas : EsCopia(cache[c].entradas[j], p, k)
         /\ \A j \in DOMAIN cache[c].entradas :
              EsCopia(cache[c].entradas[j], p, k) => Copia(cache[c], k) = cache[c].entradas[j]
<1> DEFINE m == cache[c]
<1>1. CacheBuena(m, config.cache)
  BY Partes
<1>2. /\ \A j \in DOMAIN m.entradas : m.indice[m.entradas[j].pagina] = j
      /\ 0 \notin DOMAIN m.entradas
      /\ m.indice[k] # 0 => m.indice[k] \in DOMAIN m.entradas /\ m.entradas[m.indice[k]].pagina = k
  <2>1. 0 \notin DOMAIN m.entradas
    BY <1>1, ListaLargo DEF CacheBuena, TipoCache
  <2> QED
    BY <1>1, <2>1 DEF CacheBuena, TipoCache, CacheFiel
<1> HIDE DEF m
<1>3. EnCache(m, p, k) <=> \E j \in DOMAIN m.entradas : EsCopia(m.entradas[j], p, k)
  BY <1>2 DEF EnCache, EsCopia
<1>4. \A j \in DOMAIN m.entradas : EsCopia(m.entradas[j], p, k) => Copia(m, k) = m.entradas[j]
  BY <1>2 DEF Copia, EsCopia
<1> QED
  BY <1>3, <1>4 DEF m

\* It sees its copy, or what is kept; and nothing of what is not its own.
LEMMA VistoEs ==
  InvMMU /\ UnaConCache =>
    \A p \in Pid, k \in Pagina :
      /\ ~SuPagina(p, k) => Visto(p, k) = CERO
      /\ SuPagina(p, k) =>
           /\ ~HayCopia(p, k) => Visto(p, k) = Guardado(p, k)
           /\ config.cache > 0 => \A c \in config.cpus : \A j \in DOMAIN cache[c].entradas :
                EsCopia(cache[c].entradas[j], p, k) =>
                  Visto(p, k) = cache[c].entradas[j].contenido
<1> SUFFICES ASSUME InvMMU, UnaConCache, NEW p \in Pid, NEW k \in Pagina
             PROVE  /\ ~SuPagina(p, k) => Visto(p, k) = CERO
                    /\ SuPagina(p, k) =>
                         /\ ~HayCopia(p, k) => Visto(p, k) = Guardado(p, k)
                         /\ config.cache > 0 =>
                              \A c \in config.cpus : \A j \in DOMAIN cache[c].entradas :
                                EsCopia(cache[c].entradas[j], p, k) =>
                                  Visto(p, k) = cache[c].entradas[j].contenido
  OBVIOUS
<1> DEFINE s == {c \in config.cpus : config.cache > 0 /\ EnCache(cache[c], p, k)}
<1>1. config.paginas[p] \in Nat /\ k \in Nat /\ config.cpus \subseteq Cpu
  BY PaginasDe, Datos DEF InvMMU
<1>2. SuPagina(p, k) <=> Vive(p) /\ ~(k >= config.paginas[p])
  BY <1>1 DEF SuPagina
<1>3. Visto(p, k) =
        IF ~Vive(p) \/ k >= config.paginas[p] THEN CERO
        ELSE IF s # {} THEN Copia(cache[CHOOSE c \in s : TRUE], k).contenido
             ELSE Guardado(p, k)
  BY DEF Visto, Guardado, SuMarco
<1> HIDE DEF s
<1>4. ASSUME ~HayCopia(p, k) PROVE s = {}
  BY <1>1, <1>4, EnCacheSi DEF HayCopia, s
<1>5. ASSUME config.cache > 0, NEW c \in config.cpus, NEW j \in DOMAIN cache[c].entradas,
             EsCopia(cache[c].entradas[j], p, k)
      PROVE  s # {} /\ Copia(cache[CHOOSE d \in s : TRUE], k).contenido = cache[c].entradas[j].contenido
  <2>0. c \in Cpu
    BY <1>1
  <2>1. /\ EnCache(cache[c], p, k) <=>
             \E y \in DOMAIN cache[c].entradas : EsCopia(cache[c].entradas[y], p, k)
        /\ \A y \in DOMAIN cache[c].entradas :
             EsCopia(cache[c].entradas[y], p, k) => Copia(cache[c], k) = cache[c].entradas[y]
    BY <1>5, <2>0, EnCacheSi
  <2>4. EnCache(cache[c], p, k) /\ Copia(cache[c], k) = cache[c].entradas[j]
    BY <1>5, <2>1
  <2>2. s = {c}
    BY <1>5, <2>4 DEF s, UnaConCache
  <2>3. (CHOOSE d \in s : TRUE) = c
    BY <2>2
  <2> QED
    BY <2>2, <2>3, <2>4
<1> QED
  BY <1>2, <1>3, <1>4, <1>5

LEMMA VistoSera ==
  InvMMU' /\ UnaConCache' =>
    \A p \in Pid, k \in Pagina :
      /\ ~SuPagina(p, k)' => Visto(p, k)' = CERO
      /\ SuPagina(p, k)' =>
           /\ ~HayCopia(p, k)' => Visto(p, k)' = Guardado(p, k)'
           /\ config'.cache > 0 => \A c \in config'.cpus : \A j \in DOMAIN cache'[c].entradas :
                EsCopia(cache'[c].entradas[j], p, k) =>
                  Visto(p, k)' = cache'[c].entradas[j].contenido
<1>1. (InvMMU /\ UnaConCache =>
        \A p \in Pid, k \in Pagina :
          /\ ~SuPagina(p, k) => Visto(p, k) = CERO
          /\ SuPagina(p, k) =>
               /\ ~HayCopia(p, k) => Visto(p, k) = Guardado(p, k)
               /\ config.cache > 0 => \A c \in config.cpus : \A j \in DOMAIN cache[c].entradas :
                    EsCopia(cache[c].entradas[j], p, k) =>
                      Visto(p, k) = cache[c].entradas[j].contenido)'
  BY VistoEs, PTL
<1> QED
  BY <1>1 DEF EsCopia
---------------------------------------------------------------------------
(* The steps of the abstract user space. *)

Mapa == [p \in Pid |-> [k \in Pagina |-> Visto(p, k)]]

Igual == \A p \in Pid, k \in Pagina : Visto(p, k)' = Visto(p, k)

\* Page k of p is seen as v, and the others as they were.
SoloCambia(p, k, v) ==
  \A q \in Pid, j \in Pagina : Visto(q, j)' = IF q = p /\ j = k THEN v ELSE Visto(q, j)

LEMMA PasoOtro == ASSUME Igual, Nada, UNCHANGED config PROVE E!Next
<1>1. Mapa' = Mapa
  BY DEF Igual, Mapa
<1> QED
  BY <1>1 DEF Mapa, Nada, E!Next, E!Otro

LEMMA PasoLeer ==
  ASSUME Igual, UNCHANGED config, NEW p \in Pid, NEW k \in Pagina, NEW v,
         Leyo(p, k, Visto(p, k), v), v = IF config.cache > 0 THEN Visto(p, k) ELSE VACIO
  PROVE  E!Next
<1>1. Mapa' = Mapa
  BY DEF Igual, Mapa
<1>2. Mapa[p][k] = Visto(p, k)
  BY DEF Mapa
<1>3. E!Leer(p, k)
  BY <1>1, <1>2 DEF Mapa, Leyo, E!Leer
<1> QED
  BY <1>3 DEF E!Next

LEMMA PasoEscribir ==
  ASSUME NEW p \in Pid, NEW k \in Pagina, NEW v \in Valor, Nada, SoloCambia(p, k, v),
         UNCHANGED config
  PROVE  E!Next
<1>1. Mapa' = [Mapa EXCEPT ![p][k] = v]
  BY DEF Mapa, SoloCambia
<1>2. E!Escribir(p, k, v)
  BY <1>1 DEF Mapa, Nada, E!Escribir
<1> QED
  BY <1>2 DEF E!Next

LEMMA PasoTerminar ==
  ASSUME NEW p \in Pid, Nada, UNCHANGED config,
         \A q \in Pid, j \in Pagina : Visto(q, j)' = IF q = p THEN CERO ELSE Visto(q, j)
  PROVE  E!Next
<1>1. Mapa' = [Mapa EXCEPT ![p] = [k \in Pagina |-> CERO]]
  BY DEF Mapa
<1>2. E!Terminar(p)
  BY <1>1 DEF Mapa, Nada, E!Terminar
<1> QED
  BY <1>2 DEF E!Next
---------------------------------------------------------------------------
(* Contents: the steps of the kernel and of the memory module. *)

LEMMA UnaSola ==
  ASSUME Regulares, InvTres, InvTres', UNCHANGED config PROVE UnaConCache /\ UnaConCache'
<1>1. UnaConCache
  BY ConfigRegular DEF InvTres, InvMMU, UnaConCache
<1> QED
  BY <1>1 DEF UnaConCache

\* A page is seen as before when what is kept of it and the copies are the same.
LEMMA MismaVista ==
  ASSUME Regulares, InvTres, InvTres', UNCHANGED <<config, cache>>, NEW p \in Pid,
         NEW k \in Pagina, SuPagina(p, k)' <=> SuPagina(p, k),
         SuPagina(p, k) => Guardado(p, k)' = Guardado(p, k)
  PROVE  Visto(p, k)' = Visto(p, k)
<1>1. InvMMU /\ UnaConCache /\ InvMMU' /\ UnaConCache'
  BY UnaSola DEF InvTres
<1>2. HayCopia(p, k)' <=> HayCopia(p, k)
  BY DEF HayCopia, EsCopia
<1>3. CASE ~SuPagina(p, k)
  BY <1>1, <1>3, VistoEs, VistoSera
<1>4. CASE SuPagina(p, k) /\ ~HayCopia(p, k)
  BY <1>1, <1>2, <1>4, VistoEs, VistoSera
<1>5. CASE SuPagina(p, k) /\ HayCopia(p, k)
  <2>1. PICK c \in config.cpus :
          config.cache > 0 /\ \E j \in DOMAIN cache[c].entradas : EsCopia(cache[c].entradas[j], p, k)
    BY <1>5 DEF HayCopia
  <2>2. PICK j \in DOMAIN cache[c].entradas : EsCopia(cache[c].entradas[j], p, k)
    BY <2>1
  <2>3. Visto(p, k) = cache[c].entradas[j].contenido
    BY <1>1, <1>5, <2>1, <2>2, VistoEs
  <2>4. Visto(p, k)' = cache'[c].entradas[j].contenido
    <3>1. /\ SuPagina(p, k)' /\ config'.cache > 0 /\ c \in config'.cpus
          /\ j \in DOMAIN cache'[c].entradas /\ EsCopia(cache'[c].entradas[j], p, k)
      BY <1>5, <2>1, <2>2
    <3> QED
      BY <1>1, <3>1, VistoSera
  <2> QED
    BY <2>3, <2>4
<1> QED
  BY <1>3, <1>4, <1>5

\* What is kept of the pages that were there stays.
Conserva ==
  \A q \in Pid, k \in Pagina :
    Usado(q) /\ SuPagina(q, k)' => SuPagina(q, k) /\ Guardado(q, k)' = Guardado(q, k)

\* The instruction of a CPU during a step of the kernel has no page in its
\* cache.
LEMMA KernelInstrCopia ==
  ASSUME Regulares, InvTres, NEW p \in Pid, PasoKernel(p), NEW c \in Cpu
  PROVE  /\ instr[c].pc \notin {"pedir", "insertar", "actualizar"}
         /\ config.cache > 0 => instr[c].pc \notin EnOperacion
<1>1. config.cache \in Nat
  BY Partes DEF InvTres
<1>2. CASE config.cache > 0
  <2>1. instr[c].pid = NADA
    BY <1>2, KernelConCache
  <2>2. instr[c].pc = "libre"
    BY <2>1, PartesTipos DEF InvTres, InstrBien
  <2> QED
    BY <2>2 DEF EnOperacion
<1>3. CASE config.cache = 0
  BY <1>3, Partes DEF InvTres, TipoInstr
<1> QED
  BY <1>1, <1>2, <1>3

LEMMA KernelCopias ==
  ASSUME Regulares, InvTodo, NEW p \in Pid, PasoKernel(p), UNCHANGED <<config, cache, instr>>,
         Conserva
  PROVE  InvCopias'
<1> SUFFICES ASSUME NEW c \in Cpu
             PROVE  /\ InstrCopia(instr[c], cache[c])'
                    /\ config.cache > 0 => \A j \in DOMAIN cache[c].entradas :
                         c \in config.cpus /\ CopiaVale(cache[c].entradas[j])'
  BY DEF InvCopias
<1>1. InstrCopia(instr[c], cache[c])'
  BY KernelInstrCopia DEF InvTodo, InstrCopia
<1>2. ASSUME config.cache > 0, NEW j \in DOMAIN cache[c].entradas
      PROVE  c \in config.cpus /\ CopiaVale(cache[c].entradas[j])'
  <2> DEFINE e == cache[c].entradas[j]
  <2>1. /\ c \in config.cpus /\ CopiaVale(e) /\ Usado(e.pid)
        /\ e.pid \in Pid /\ e.pagina \in Pagina /\ e.pagina < config.paginas[e.pid]
    BY <1>2, PartesAcceso, PartesTipos
       DEF InvTodo, InvCopias, InvTres, CopiaBien, DeUnProceso
  <2>2. e' = e
    OBVIOUS
  <2> HIDE DEF e
  <2>3. ASSUME Vive(e.pid)', ~e.d PROVE e.contenido = Guardado(e.pid, e.pagina)'
    <3>1. SuPagina(e.pid, e.pagina)'
      BY <2>1, <2>2, <2>3 DEF SuPagina, Vive
    <3>2. SuPagina(e.pid, e.pagina) /\ Guardado(e.pid, e.pagina)' = Guardado(e.pid, e.pagina)
      BY <2>1, <2>2, <3>1 DEF Conserva, SuPagina, Vive, Guardado, SuMarco
    <3> QED
      BY <2>1, <2>3, <3>2 DEF CopiaVale, SuPagina
  <2>4. CopiaVale(e)'
    BY <2>2, <2>3 DEF CopiaVale
  <2> QED
    BY <2>1, <2>4 DEF e
<1> QED
  BY <1>1, <1>2

LEMMA OcupadosSon == ASSUME InvTiposMV PROVE Ocupados \subseteq Marco
<1> SUFFICES ASSUME NEW f \in Ocupados PROVE f \in Marco
  OBVIOUS
<1>1. PICK p \in Pid : EnRam(p) /\ \E i \in DOMAIN procesos[p].marcos : procesos[p].marcos[i] = f
  BY EstaOcupado
<1> QED
  BY <1>1, EntradaDe DEF EnRam

\* The pages of the other processes, in a step of the kernel for p.
LEMMA OtrosConservan ==
  ASSUME Regulares, InvTodo, InvTres', NEW p \in Pid, UNCHANGED <<config, cache>>,
         \A q \in Pid \ {p} : procesos'[q] = procesos[q],
         \A f \in Ocupados : memoria'[f] = memoria[f] \/
           (EnRam(p) /\ f \in ToSet(procesos[p].marcos)),
         NEW q \in Pid \ {p}, NEW k \in Pagina
  PROVE  /\ SuPagina(q, k)' <=> SuPagina(q, k)
         /\ SuPagina(q, k) => Guardado(q, k)' = Guardado(q, k)
         /\ Visto(q, k)' = Visto(q, k)
<1>1. SuPagina(q, k)' <=> SuPagina(q, k)
  BY DEF SuPagina, Vive
<1>2. SuPagina(q, k) => Guardado(q, k)' = Guardado(q, k)
  BY OtrosGuardados DEF InvTodo
<1> QED
  BY <1>1, <1>2, MismaVista DEF InvTodo

\* A process is admitted: its pages are zero, as before.
LEMMA AdmitirTodo ==
  ASSUME Regulares, InvTodo, InvTres', NEW p \in Pid, Admitir(p)
  PROVE  InvReparto' /\ InvCopias' /\ E!Next
<1>1. PICK marcos \in Libres(config.paginas[p]) :
        procesos' = [procesos EXCEPT ![p] =
          [suspendido |-> FALSE, marcos |-> marcos, swap |-> <<>>]]
  BY DEF Admitir
<1>2. /\ ~Vive(p) /\ p \notin terminados /\ Nada
      /\ UNCHANGED <<config, memoria, terminados, trabada, cache, tlb, instr>>
  BY DEF Admitir
<1>3. ~EnRam(p) /\ ~Usado(p) /\ PasoKernel(p)
  BY <1>2 DEF EnRam, Usado, PasoKernel
<1>4. InvReparto'
  BY <1>1, <1>2, <1>3, EntraReparto DEF InvTodo
<1>5. /\ \A q \in Pid \ {p} : procesos'[q] = procesos[q]
      /\ procesos'[p].marcos = marcos /\ ~procesos'[p].suspendido
  BY <1>1 DEF InvTodo, InvTres, InvTiposMV, InvDatos
<1>6. \A q \in Pid \ {p}, k \in Pagina :
        /\ SuPagina(q, k)' <=> SuPagina(q, k)
        /\ SuPagina(q, k) => Guardado(q, k)' = Guardado(q, k)
        /\ Visto(q, k)' = Visto(q, k)
  BY <1>2, <1>5, OtrosConservan
<1>7. Conserva
  BY <1>3, <1>6 DEF Conserva
<1>8. InvCopias'
  BY <1>2, <1>3, <1>7, KernelCopias
<1>9. ASSUME NEW k \in Pagina PROVE Visto(p, k)' = Visto(p, k)
  <2>1. InvMMU /\ UnaConCache /\ InvMMU' /\ UnaConCache'
    BY <1>2, UnaSola DEF InvTodo, InvTres
  <2>2. Visto(p, k) = CERO
    BY <1>2, <2>1, VistoEs DEF SuPagina
  <2>3. CASE ~SuPagina(p, k)'
    BY <2>1, <2>2, <2>3, VistoSera
  <2>4. CASE SuPagina(p, k)'
    <3>1. ~HayCopia(p, k)'
      <4> SUFFICES ASSUME config.cache > 0, NEW c \in config.cpus,
                          NEW j \in DOMAIN cache[c].entradas, EsCopia(cache[c].entradas[j], p, k)
                   PROVE  FALSE
        BY <1>2 DEF HayCopia, EsCopia
      <4>1. c \in Cpu
        BY Configuracion DEF InvTodo, InvTres, InvMMU
      <4>2. Usado(cache[c].entradas[j].pid)
        BY <4>1, PartesAcceso DEF InvTodo
      <4> QED
        BY <1>3, <4>2 DEF EsCopia
    <3>2. Visto(p, k)' = Guardado(p, k)'
      BY <2>1, <2>4, <3>1, VistoSera
    <3>3. Guardado(p, k)' = memoria'[marcos[k + 1]]
      BY <1>5 DEF Guardado, SuMarco
    <3>4. k + 1 \in 1 .. config.paginas[p] /\ config.paginas[p] \in Nat
      <4>1. config.paginas[p] \in Nat /\ k \in Nat
        BY PaginasDe, Datos DEF InvTodo, InvTres, InvMMU
      <4> QED
        BY <1>2, <2>4, <4>1 DEF SuPagina
    <3>5. marcos[k + 1] \in Marco \ Ocupados
      BY <3>4, LibresSon
    <3>6. memoria[marcos[k + 1]] = CERO
      BY <3>5 DEF InvTodo, InvReparto
    <3> QED
      BY <1>2, <2>2, <3>2, <3>3, <3>6
  <2> QED
    BY <2>3, <2>4
<1>10. Igual
  BY <1>6, <1>9 DEF Igual
<1> QED
  BY <1>2, <1>4, <1>8, <1>10, PasoOtro

\* A process that is suspended keeps its pages in swap.
LEMMA SuspenderTodo ==
  ASSUME Regulares, InvTodo, InvTres', NEW p \in Pid, Suspender(p)
  PROVE  InvReparto' /\ InvCopias' /\ E!Next
<1>1. procesos' = [procesos EXCEPT ![p] = EnSwap(p)]
  BY SuspenderEfecto DEF InvTodo, InvTres
<1>2. /\ Vive(p) /\ ~procesos[p].suspendido /\ Nada /\ Vaciar(procesos[p].marcos)
      /\ UNCHANGED <<config, terminados, trabada, cache, tlb, instr>>
  BY DEF Suspender
<1>3. EnRam(p) /\ PasoKernel(p) /\ EnSwap(p).suspendido
  BY <1>2 DEF EnRam, PasoKernel, EnSwap
<1>4. InvReparto'
  <2> DEFINE r == EnSwap(p)
  <2>1. procesos' = [procesos EXCEPT ![p] = r] /\ r.suspendido
    BY <1>1, <1>3
  <2> HIDE DEF r
  <2> QED
    BY <1>2, <1>3, <2>1, SaleReparto DEF InvTodo
<1>5. /\ \A q \in Pid \ {p} : procesos'[q] = procesos[q]
      /\ procesos'[p] = EnSwap(p)
  BY <1>1 DEF InvTodo, InvTres, InvTiposMV, InvDatos
<1>6. \A q \in Pid \ {p}, k \in Pagina :
        /\ SuPagina(q, k)' <=> SuPagina(q, k)
        /\ SuPagina(q, k) => Guardado(q, k)' = Guardado(q, k)
        /\ Visto(q, k)' = Visto(q, k)
  <2>1. \A f \in Ocupados : memoria'[f] = memoria[f] \/
          (EnRam(p) /\ f \in ToSet(procesos[p].marcos))
    <3>1. Ocupados \subseteq Marco
      BY OcupadosSon DEF InvTodo, InvTres
    <3> QED
      BY <1>2, <1>3, <3>1 DEF Vaciar
  <2> QED
    BY <1>2, <1>5, <2>1, OtrosConservan
<1>7. ASSUME NEW k \in Pagina
      PROVE  /\ SuPagina(p, k)' <=> SuPagina(p, k)
             /\ SuPagina(p, k) => Guardado(p, k)' = Guardado(p, k)
  <2>1. Vive(p)' /\ EnSwap(p) # NADA
    BY <1>5, SuspenderEfecto, NADAAparte DEF Vive, InvTodo, InvTres
  <2>2. SuPagina(p, k)' <=> SuPagina(p, k)
    BY <1>2, <2>1 DEF SuPagina
  <2>3. ASSUME SuPagina(p, k) PROVE Guardado(p, k)' = Guardado(p, k)
    <3>1. k + 1 \in DOMAIN procesos[p].marcos
      BY <2>3, PaginaEnRam DEF InvTodo
    <3>2. EnSwap(p).swap[k + 1] = memoria[procesos[p].marcos[k + 1]]
      BY <3>1 DEF EnSwap
    <3>3. Guardado(p, k)' = EnSwap(p).swap[k + 1]
      BY <1>3, <1>5 DEF Guardado
    <3>4. Guardado(p, k) = memoria[procesos[p].marcos[k + 1]]
      BY <1>2 DEF Guardado, SuMarco
    <3> QED
      BY <3>2, <3>3, <3>4
  <2> QED
    BY <2>2, <2>3
<1>8. \A k \in Pagina : Visto(p, k)' = Visto(p, k)
  BY <1>2, <1>7, MismaVista DEF InvTodo
<1>9. Conserva
  BY <1>6, <1>7 DEF Conserva
<1>10. InvCopias'
  BY <1>2, <1>3, <1>9, KernelCopias
<1>11. Igual
  BY <1>6, <1>8 DEF Igual
<1> QED
  BY <1>2, <1>4, <1>10, <1>11, PasoOtro

\* One that comes back has them in its new frames.
LEMMA ReanudarTodo ==
  ASSUME Regulares, InvTodo, InvTres', NEW p \in Pid, Reanudar(p)
  PROVE  InvReparto' /\ InvCopias' /\ E!Next
<1>1. PICK marcos \in Libres(config.paginas[p]) :
        /\ procesos' = [procesos EXCEPT ![p] =
             [suspendido |-> FALSE, marcos |-> marcos, swap |-> <<>>]]
        /\ \A i \in 1 .. config.paginas[p] : memoria'[marcos[i]] = procesos[p].swap[i]
        /\ \A f \in Marco \ ToSet(marcos) : memoria'[f] = memoria[f]
  BY ReanudarEfecto DEF InvTodo, InvTres
<1>2. /\ Vive(p) /\ procesos[p].suspendido /\ Nada
      /\ UNCHANGED <<config, terminados, trabada, cache, tlb, instr>>
  BY DEF Reanudar
<1>3. ~EnRam(p) /\ PasoKernel(p)
  BY <1>2 DEF EnRam, PasoKernel
<1>4. InvReparto'
  BY <1>1, <1>3, EntraReparto DEF InvTodo
<1>5. /\ \A q \in Pid \ {p} : procesos'[q] = procesos[q]
      /\ procesos'[p].marcos = marcos /\ ~procesos'[p].suspendido
      /\ procesos'[p] = [suspendido |-> FALSE, marcos |-> marcos, swap |-> <<>>]
  BY <1>1 DEF InvTodo, InvTres, InvTiposMV, InvDatos
<1>6. config.paginas[p] \in Nat
  BY PaginasDe DEF InvTodo, InvTres, InvMMU
<1>7. \A q \in Pid \ {p}, k \in Pagina :
        /\ SuPagina(q, k)' <=> SuPagina(q, k)
        /\ SuPagina(q, k) => Guardado(q, k)' = Guardado(q, k)
        /\ Visto(q, k)' = Visto(q, k)
  <2>1. \A f \in Ocupados : f \in Marco /\ f \notin ToSet(marcos)
    <3>1. \A i \in DOMAIN marcos : marcos[i] \notin Ocupados
      BY <1>6, LibresSon
    <3> QED
      BY <3>1, OcupadosSon DEF ToSet, InvTodo, InvTres
  <2> QED
    BY <1>1, <1>2, <1>5, <2>1, OtrosConservan
<1>8. ASSUME NEW k \in Pagina
      PROVE  /\ SuPagina(p, k)' <=> SuPagina(p, k)
             /\ SuPagina(p, k) => Guardado(p, k)' = Guardado(p, k)
  <2>1. Vive(p)'
    <3> DEFINE r == [suspendido |-> FALSE, marcos |-> marcos, swap |-> <<>>]
    <3>1. r \in Proceso
      BY <1>6, LibresSon DEF Proceso
    <3>2. r # NADA /\ procesos'[p] = r
      BY <1>5, <3>1, NADAAparte
    <3> HIDE DEF r
    <3> QED
      BY <3>2 DEF Vive
  <2>2. SuPagina(p, k)' <=> SuPagina(p, k)
    BY <1>2, <2>1 DEF SuPagina
  <2>3. ASSUME SuPagina(p, k) PROVE Guardado(p, k)' = Guardado(p, k)
    <3>1. k + 1 \in 1 .. config.paginas[p]
      BY <2>3, PaginaEnRam DEF InvTodo
    <3>2. Guardado(p, k)' = memoria'[marcos[k + 1]]
      BY <1>5 DEF Guardado, SuMarco
    <3>3. Guardado(p, k) = procesos[p].swap[k + 1]
      BY <1>2 DEF Guardado
    <3> QED
      BY <1>1, <3>1, <3>2, <3>3
  <2> QED
    BY <2>2, <2>3
<1>9. \A k \in Pagina : Visto(p, k)' = Visto(p, k)
  BY <1>2, <1>8, MismaVista DEF InvTodo
<1>10. Conserva
  BY <1>7, <1>8 DEF Conserva
<1>11. InvCopias'
  BY <1>2, <1>3, <1>10, KernelCopias
<1>12. Igual
  BY <1>7, <1>9 DEF Igual
<1> QED
  BY <1>2, <1>4, <1>11, <1>12, PasoOtro

\* One that ends has none.
LEMMA FinalizarTodo ==
  ASSUME Regulares, InvTodo, InvTres', NEW p \in Pid, Finalizar(p)
  PROVE  InvReparto' /\ InvCopias' /\ E!Next
<1>1. /\ Vive(p) /\ procesos' = [procesos EXCEPT ![p] = NADA] /\ Nada
      /\ procesos[p].suspendido => memoria' = memoria
      /\ ~procesos[p].suspendido => Vaciar(procesos[p].marcos)
      /\ UNCHANGED <<config, trabada, cache, tlb, instr>>
  BY DEF Finalizar
<1>2. PasoKernel(p) /\ (EnRam(p) <=> ~procesos[p].suspendido)
  BY <1>1 DEF EnRam, PasoKernel
<1>3. InvReparto'
  <2> DEFINE r == NADA
  <2>1. procesos' = [procesos EXCEPT ![p] = r] /\ r = NADA
    BY <1>1
  <2> HIDE DEF r
  <2> QED
    BY <1>1, <1>2, <2>1, SaleReparto DEF InvTodo
<1>4. /\ \A q \in Pid \ {p} : procesos'[q] = procesos[q]
      /\ procesos'[p] = NADA
  BY <1>1 DEF InvTodo, InvTres, InvTiposMV, InvDatos
<1>5. \A q \in Pid \ {p}, k \in Pagina :
        /\ SuPagina(q, k)' <=> SuPagina(q, k)
        /\ SuPagina(q, k) => Guardado(q, k)' = Guardado(q, k)
        /\ Visto(q, k)' = Visto(q, k)
  <2>1. \A f \in Ocupados : memoria'[f] = memoria[f] \/
          (EnRam(p) /\ f \in ToSet(procesos[p].marcos))
    <3>1. Ocupados \subseteq Marco
      BY OcupadosSon DEF InvTodo, InvTres
    <3> QED
      BY <1>1, <1>2, <3>1 DEF Vaciar
  <2> QED
    BY <1>1, <1>4, <2>1, OtrosConservan
<1>6. \A k \in Pagina : ~SuPagina(p, k)'
  BY <1>4 DEF SuPagina, Vive
<1>7. Conserva
  BY <1>5, <1>6 DEF Conserva
<1>8. InvCopias'
  BY <1>1, <1>2, <1>7, KernelCopias
<1>9. \A k \in Pagina : Visto(p, k)' = CERO
  BY <1>1, <1>6, UnaSola, VistoSera DEF InvTodo, InvTres
<1>10. \A q \in Pid, k \in Pagina : Visto(q, k)' = IF q = p THEN CERO ELSE Visto(q, k)
  BY <1>5, <1>9
<1> QED
  BY <1>1, <1>3, <1>8, <1>10, PasoTerminar
---------------------------------------------------------------------------
(* Contents: the steps of a CPU that change no page. *)

\* The copies of a CPU are the same, but for their references.
LEMMA MismasCopias ==
  ASSUME Regulares, InvTodo, InvTres', NEW c \in Cpu, NEW i, NEW n,
         UNCHANGED <<config, procesos, memoria>>,
         instr' = [instr EXCEPT ![c] = i] \/ (instr' = instr /\ i = instr[c]),
         cache' = [cache EXCEPT ![c] = n] \/ (cache' = cache /\ n = cache[c]),
         DOMAIN n.entradas = DOMAIN cache[c].entradas,
         \A j \in DOMAIN n.entradas : MismaCopia(n.entradas[j], cache[c].entradas[j]),
         InstrCopia(i, n)
  PROVE  InvReparto' /\ InvCopias' /\ Igual
<1>1. instr'[c] = i /\ cache'[c] = n
  BY DEF InvTodo, InvTres, InvMMU
<1>2. \A d \in Cpu \ {c} : instr'[d] = instr[d] /\ cache'[d] = cache[d]
  BY DEF InvTodo, InvTres, InvMMU
<1>3. ASSUME NEW d \in Cpu
      PROVE  /\ DOMAIN cache'[d].entradas = DOMAIN cache[d].entradas
             /\ \A j \in DOMAIN cache[d].entradas :
                  MismaCopia(cache'[d].entradas[j], cache[d].entradas[j])
  <2>1. CASE d = c
    BY <1>1, <2>1
  <2>2. CASE d # c
    <3>1. cache'[d] = cache[d]
      BY <1>2, <2>2
    <3> QED
      BY <3>1 DEF MismaCopia
  <2> QED
    BY <2>1, <2>2
<1>4. \A q, k : /\ SuPagina(q, k)' <=> SuPagina(q, k)
                /\ Guardado(q, k)' = Guardado(q, k)
  BY DEF SuPagina, Vive, Guardado, SuMarco
<1>5. InvReparto'
  BY RepartoQuieto DEF InvTodo
<1>6. InvCopias'
  <2> SUFFICES ASSUME NEW d \in Cpu
               PROVE  /\ InstrCopia(instr[d], cache[d])'
                      /\ config.cache > 0 => \A j \in DOMAIN cache'[d].entradas :
                           d \in config.cpus /\ CopiaVale(cache[d].entradas[j])'
    BY DEF InvCopias
  <2>1. InstrCopia(instr[d], cache[d])'
    <3>1. CASE d = c
      BY <1>1, <1>4, <3>1 DEF InstrCopia, SinCopia
    <3>2. CASE d # c
      <4>1. InstrCopia(instr[d], cache[d]) /\ instr'[d] = instr[d] /\ cache'[d] = cache[d]
        BY <1>2, <3>2 DEF InvTodo, InvCopias
      <4> QED
        BY <1>4, <4>1 DEF InstrCopia, SinCopia
    <3> QED
      BY <3>1, <3>2
  <2>2. ASSUME config.cache > 0, NEW j \in DOMAIN cache'[d].entradas
        PROVE  d \in config.cpus /\ CopiaVale(cache[d].entradas[j])'
    <3>1. PICK e, f : e = cache[d].entradas[j] /\ f = cache'[d].entradas[j]
      OBVIOUS
    <3>2. d \in config.cpus /\ CopiaVale(e) /\ MismaCopia(f, e)
      BY <1>3, <2>2, <3>1 DEF InvTodo, InvCopias
    <3>3. procesos'[f.pid] # NADA /\ ~f.d => f.contenido = Guardado(f.pid, f.pagina)
      BY <3>2 DEF CopiaVale, MismaCopia, Vive
    <3>4. CopiaVale(cache[d].entradas[j])' <=>
            (procesos'[f.pid] # NADA /\ ~f.d => f.contenido = Guardado(f.pid, f.pagina)')
      BY <3>1 DEF CopiaVale, Vive, Guardado, SuMarco
    <3> QED
      BY <1>4, <3>2, <3>3, <3>4
  <2> QED
    BY <2>1, <2>2
<1>7. Igual
  <2> SUFFICES ASSUME NEW p \in Pid, NEW k \in Pagina PROVE Visto(p, k)' = Visto(p, k)
    BY DEF Igual
  <2>1. InvMMU /\ UnaConCache /\ InvMMU' /\ UnaConCache' /\ config.cpus \subseteq Cpu
    BY UnaSola, Configuracion DEF InvTodo, InvTres, InvMMU
  <2>2. HayCopia(p, k)' <=> HayCopia(p, k)
    <3>1. \A d \in config.cpus :
            (\E j \in DOMAIN cache'[d].entradas : EsCopia(cache'[d].entradas[j], p, k)) <=>
              \E j \in DOMAIN cache[d].entradas : EsCopia(cache[d].entradas[j], p, k)
      BY <1>3, <2>1 DEF EsCopia, MismaCopia
    <3> QED
      BY <3>1 DEF HayCopia, EsCopia
  <2>3. CASE ~SuPagina(p, k)
    BY <1>4, <2>1, <2>3, VistoEs, VistoSera
  <2>4. CASE SuPagina(p, k) /\ ~HayCopia(p, k)
    BY <1>4, <2>1, <2>2, <2>4, VistoEs, VistoSera
  <2>5. CASE SuPagina(p, k) /\ HayCopia(p, k)
    <3>1. PICK d \in config.cpus : config.cache > 0 /\
            \E j \in DOMAIN cache[d].entradas : EsCopia(cache[d].entradas[j], p, k)
      BY <2>5 DEF HayCopia
    <3>2. PICK j \in DOMAIN cache[d].entradas : EsCopia(cache[d].entradas[j], p, k)
      BY <3>1
    <3>3. Visto(p, k) = cache[d].entradas[j].contenido
      BY <2>1, <2>5, <3>1, <3>2, VistoEs
    <3>4. /\ j \in DOMAIN cache'[d].entradas /\ EsCopia(cache'[d].entradas[j], p, k)
          /\ cache'[d].entradas[j].contenido = cache[d].entradas[j].contenido
      BY <1>3, <2>1, <3>2 DEF MismaCopia, EsCopia
    <3>5. Visto(p, k)' = cache'[d].entradas[j].contenido
      BY <1>4, <2>1, <2>5, <3>1, <3>4, VistoSera
    <3> QED
      BY <3>3, <3>4, <3>5
  <2> QED
    BY <2>3, <2>4, <2>5
<1> QED
  BY <1>5, <1>6, <1>7

\* The instruction alone changes.
LEMMA SoloInstrTodo ==
  ASSUME Regulares, InvTodo, InvTres', NEW c \in Cpu, NEW i,
         UNCHANGED <<config, procesos, memoria, cache>>,
         instr' = [instr EXCEPT ![c] = i], InstrCopia(i, cache[c])
  PROVE  InvReparto' /\ InvCopias' /\ Igual
<1> DEFINE n == cache[c]
<1>1. /\ cache' = cache /\ n = cache[c] /\ InstrCopia(i, n)
      /\ \A j \in DOMAIN n.entradas : MismaCopia(n.entradas[j], cache[c].entradas[j])
  BY DEF MismaCopia
<1> HIDE DEF n
<1> QED
  BY <1>1, MismasCopias

LEMMA EntreCopia ==
  ASSUME NEW i, i.pc \in {"libre", "fetch"}, NEW m PROVE InstrCopia(i, m)
BY DEF InstrCopia, EnOperacion

LEMMA DespachoTodo ==
  ASSUME Regulares, InvTodo, InvTres', NEW c \in Cpu, Ceder(c) \/ \E p \in Pid : Despachar(c, p)
  PROVE  InvReparto' /\ InvCopias' /\ E!Next
<1>1. UNCHANGED <<config, procesos, memoria, cache>> /\ Nada
  BY DEF Ceder, Despachar
<1>2. PICK i : i.pc \in {"libre", "fetch"} /\ instr' = [instr EXCEPT ![c] = i]
  <2>1. SinInstr.pc = "libre" /\ \A p : Entre(p).pc = "fetch"
    BY DEF SinInstr, Entre
  <2> QED
    BY <2>1 DEF Ceder, Despachar
<1>3. InstrCopia(i, cache[c])
  BY <1>2, EntreCopia
<1> QED
  BY <1>1, <1>2, <1>3, SoloInstrTodo, PasoOtro

LEMMA FallarTodo ==
  ASSUME Regulares, InvTodo, InvTres', NEW c \in Cpu, NEW op, NEW k \in Pagina, NEW v,
         Fallar(c, op, k, v)
  PROVE  InvReparto' /\ InvCopias' /\ E!Next
<1> DEFINE p == instr[c].pid
           e == Entre(p)
           i == [e EXCEPT !.pc = "traducir", !.op = op, !.pagina = k, !.valor = v]
<1>1. /\ instr' = [instr EXCEPT ![c] = i] /\ (config.cache = 0 \/ ~EnCache(cache[c], p, k))
      /\ UNCHANGED <<config, procesos, memoria, cache>> /\ Nada
  BY DEF Fallar
<1>2. i.pc = "traducir" /\ i.pid = p /\ i.pagina = k
  BY DEF Entre, SinInstr
<1> HIDE DEF i, p
<1>3. config.cache > 0 => SinCopia(i, cache[c])
  BY <1>1, <1>2, EnCacheSi DEF SinCopia, EsCopia, InvTodo, InvTres
<1>4. InstrCopia(i, cache[c])
  BY <1>2, <1>3 DEF InstrCopia
<1> QED
  BY <1>1, <1>4, SoloInstrTodo, PasoOtro

LEMMA TraducirTodo ==
  ASSUME Regulares, InvTodo, InvTres', NEW c \in Cpu, Traducir(c)
  PROVE  InvReparto' /\ InvCopias' /\ E!Next
<1> DEFINE e == instr[c]
           d == Direccion(c, e.pid, e.pagina)
           pc == IF config.cache > 0 THEN "pedir" ELSE "enviar"
           i == [e EXCEPT !.marco = d.marco, !.pc = pc]
<1>1. /\ e.pc = "traducir" /\ UNCHANGED <<config, procesos, memoria, cache>> /\ Nada
      /\ instr' = [instr EXCEPT ![c] = i]
  BY DEF Traducir
<1>2. /\ e.pid \in Pid /\ e.pagina \in Pagina /\ e.pagina < config.paginas[e.pid]
      /\ Vive(e.pid) /\ Usado(e.pid) /\ e \in Instr
  BY <1>1, PartesTipos, Ejecutado DEF InvTodo, InvTres, EnOperacion, DeUnProceso, Usado
<1>3. d.marco = SuMarco(e.pid, e.pagina) \/ (d.marco = NoHay /\ config.cache = 0)
  BY <1>2, DireccionAcceso DEF InvTodo
<1>4. SuMarco(e.pid, e.pagina) # NoHay
  BY <1>2, PaginaEnRam, Datos DEF InvTodo, SuPagina
<1>5. InstrCopia(e, cache[c])
  BY DEF InvTodo, InvCopias
<1> HIDE DEF d
<1>6. i.pid = e.pid /\ i.pagina = e.pagina /\ i.marco = d.marco /\ i.pc = pc
  <2> HIDE DEF e, pc
  <2> QED
    BY <1>2 DEF Instr
<1> HIDE DEF i, e
<1>7. InstrCopia(i, cache[c])
  BY <1>1, <1>3, <1>4, <1>5, <1>6 DEF InstrCopia, SinCopia, EnOperacion
<1> QED
  BY <1>1, <1>7, SoloInstrTodo, PasoOtro

\* The page that is brought is what the memory module keeps of it.
LEMMA PedirTodo ==
  ASSUME Regulares, InvTodo, InvTres', NEW c \in Cpu, Pedir(c)
  PROVE  InvReparto' /\ InvCopias' /\ E!Next
<1> DEFINE e == instr[c]
           v == memoria[IF e.marco = NoHay THEN 0 ELSE e.marco]
           i == [e EXCEPT !.pc = "insertar", !.contenido = v]
<1>1. /\ e.pc = "pedir" /\ UNCHANGED <<config, procesos, memoria, cache>> /\ Nada
      /\ instr' = [instr EXCEPT ![c] = i]
  BY DEF Pedir, Decodificado
<1>2. e \in Instr /\ EnRam(e.pid) /\ InstrVale(e) /\ InstrCopia(e, cache[c])
  BY <1>1, PartesTipos, PartesAcceso, Ejecutado DEF InvTodo, InvTres, InvCopias
<1>3. v = Guardado(e.pid, e.pagina)
  BY <1>1, <1>2 DEF InstrVale, InstrCopia, Guardado, EnRam
<1> HIDE DEF v
<1>4. i.pc = "insertar" /\ i.pid = e.pid /\ i.pagina = e.pagina /\ i.contenido = v
  <2> HIDE DEF e
  <2> QED
    BY <1>2 DEF Instr
<1> HIDE DEF i, e
<1>5. InstrCopia(i, cache[c])
  BY <1>1, <1>2, <1>3, <1>4 DEF InstrCopia, SinCopia, EnOperacion
<1> QED
  BY <1>1, <1>5, SoloInstrTodo, PasoOtro

LEMMA EnviarTodo ==
  ASSUME Regulares, InvTodo, InvTres', NEW c \in Cpu, Enviar(c) \/ EnviarSinMarco(c)
  PROVE  InvReparto' /\ InvCopias' /\ E!Next
<1> DEFINE e == instr[c]
<1>1. e.pc = "enviar" /\ UNCHANGED <<config, procesos, memoria, cache>> /\ Nada
  BY DEF Enviar, EnviarSinMarco
<1>2. e \in Instr /\ InstrCopia(e, cache[c])
  BY PartesTipos DEF InvTodo, InvTres, InvCopias
<1>3. CASE Enviar(c)
  <2> DEFINE r == procesos[e.pid]
             i == [e EXCEPT !.pc = "acceder", !.copia = r]
  <2>1. instr' = [instr EXCEPT ![c] = i]
    BY <1>3 DEF Enviar
  <2>2. i.pc = "acceder"
    <3> HIDE DEF e, r
    <3> QED
      BY <1>2 DEF Instr
  <2> HIDE DEF i
  <2>3. InstrCopia(i, cache[c])
    BY <1>1, <1>2, <2>2 DEF InstrCopia, EnOperacion
  <2> QED
    BY <1>1, <2>1, <2>3, SoloInstrTodo, PasoOtro
<1>4. CASE EnviarSinMarco(c)
  <2> DEFINE i == Entre(e.pid)
  <2>1. instr' = [instr EXCEPT ![c] = i] /\ i.pc = "fetch"
    BY <1>4 DEF EnviarSinMarco, Entre, SinInstr
  <2> HIDE DEF i
  <2>2. InstrCopia(i, cache[c])
    BY <2>1, EntreCopia
  <2> QED
    BY <1>1, <2>1, <2>2, SoloInstrTodo, PasoOtro
<1> QED
  BY <1>3, <1>4
---------------------------------------------------------------------------
(* Contents: reads and writes. *)

LEMMA SinCacheCopias ==
  ASSUME InvTres', config'.cache = 0 PROVE InvCopias'
<1>1. \A c \in Cpu : instr'[c].pc \notin {"pedir", "insertar", "actualizar"}
  BY DEF InvTres, InvMMU, TipoInstr
<1> QED
  BY <1>1 DEF InvCopias, InstrCopia

\* Without cache, the page of an instruction is read and written in its frame.
LEMMA AccederTodo ==
  ASSUME Regulares, InvTodo, InvTres', NEW c \in Cpu, Acceder(c)
  PROVE  InvReparto' /\ InvCopias' /\ E!Next
<1> DEFINE i == instr[c]
<1>0. PICK p, k : p = i.pid /\ k = i.pagina
  OBVIOUS
<1>1. /\ i.pc = "acceder" /\ instr' = [instr EXCEPT ![c] = Entre(p)]
      /\ \/ memoria' = [memoria EXCEPT ![i.marco] = i.valor] /\ Nada
         \/ Leyo(p, k, memoria[i.marco], VACIO) /\ UNCHANGED memoria
      /\ UNCHANGED <<config, cache>>
  BY <1>0 DEF Acceder, Decodificado
<1>2. UNCHANGED procesos
  BY PedidosAcceso DEF InvTodo
<1>3. /\ SuPagina(p, k) /\ EnRam(p) /\ i.marco = SuMarco(p, k) /\ i.valor \in Valor
      /\ p \in Pid /\ k \in Pagina
  <2>1. InstrBien(i) /\ i.marco # NoHay /\ InstrVale(i)
    BY <1>1, PartesTipos, PartesAcceso DEF InvTodo, InvTres, InstrBien
  <2> QED
    BY <1>0, <1>1, <2>1, PartesTipos, Ejecutado
       DEF InvTodo, InvTres, InstrVale, EnOperacion, DeUnProceso, SuPagina
<1>4. config.cache = 0
  <2>1. ~(config.cache > 0)
    BY <1>1 DEF InvTodo, InvCopias, InstrCopia, EnOperacion
  <2> QED
    BY <2>1, Partes DEF InvTodo, InvTres
<1>5. InvCopias'
  BY <1>1, <1>4, SinCacheCopias
<1> HIDE DEF i
<1>6. CASE Leyo(p, k, memoria[i.marco], VACIO) /\ UNCHANGED memoria
  <2>1. Visto(p, k) = memoria[i.marco]
    <3>1. ~HayCopia(p, k) /\ UnaConCache
      BY <1>4 DEF HayCopia, UnaConCache
    <3> QED
      BY <1>3, <3>1, VistoEs DEF InvTodo, InvTres, Guardado, EnRam
  <2>2. InstrCopia(Entre(p), cache[c])
    <3> DEFINE e == Entre(p)
    <3>1. e.pc = "fetch"
      BY DEF Entre, SinInstr
    <3> HIDE DEF e
    <3>2. InstrCopia(e, cache[c])
      BY <3>1, EntreCopia
    <3> QED
      BY <3>2 DEF e
  <2>3. InvReparto' /\ Igual
    BY <1>1, <1>2, <1>6, <2>2, SoloInstrTodo
  <2> QED
    BY <1>1, <1>3, <1>4, <1>5, <1>6, <2>1, <2>3, PasoLeer
<1>7. CASE memoria' = [memoria EXCEPT ![i.marco] = i.valor] /\ Nada
  <2>1. InvReparto'
    <3>1. SuMarco(p, k) \in Ocupados
      BY <1>3, PaginaEnRam DEF InvTodo
    <3> QED
      BY <1>2, <1>3, <1>7, <3>1, EscribeReparto DEF InvTodo
  <2>2. ASSUME NEW q \in Pid, NEW j \in Pagina
        PROVE  Visto(q, j)' = IF q = p /\ j = k THEN i.valor ELSE Visto(q, j)
    <3>1. /\ ~HayCopia(q, j) /\ ~HayCopia(q, j)'
          /\ InvMMU /\ InvMMU' /\ UnaConCache /\ UnaConCache'
      BY <1>1, <1>4 DEF HayCopia, UnaConCache, InvTodo, InvTres
    <3>2. SuPagina(q, j)' <=> SuPagina(q, j)
      BY <1>1, <1>2 DEF SuPagina, Vive
    <3>3. CASE ~SuPagina(q, j)
      BY <1>3, <3>1, <3>2, <3>3, VistoEs, VistoSera
    <3>4. CASE SuPagina(q, j)
      <4>1. Visto(q, j) = Guardado(q, j) /\ Visto(q, j)' = Guardado(q, j)'
        BY <3>1, <3>2, <3>4, VistoEs, VistoSera
      <4>2. Guardado(q, j)' = IF q = p /\ j = k THEN i.valor ELSE Guardado(q, j)
        <5>1. /\ \A f \in Marco \ {SuMarco(p, k)} : memoria'[f] = memoria[f]
              /\ memoria'[SuMarco(p, k)] = i.valor
          <6>1. SuMarco(p, k) \in Marco /\ memoria \in [Marco -> Valor]
            BY <1>3, PaginaEnRam DEF InvTodo, InvTres, InvTiposMV, InvDatos
          <6> QED
            BY <1>3, <1>7, <6>1
        <5> QED
          BY <1>2, <1>3, <3>4, <5>1, EscribeGuardado DEF InvTodo
      <4> QED
        BY <4>1, <4>2
    <3> QED
      BY <3>3, <3>4
  <2>3. SoloCambia(p, k, i.valor)
    BY <2>2 DEF SoloCambia
  <2> QED
    BY <1>1, <1>3, <1>5, <1>7, <2>1, <2>3, PasoEscribir
<1> QED
  BY <1>1, <1>6, <1>7

\* The copies of n are those of m, but for the entry v.
SalvoUna(n, m, v) ==
  /\ v \in DOMAIN n.entradas
  /\ \A j \in DOMAIN n.entradas \ {v} :
       j \in DOMAIN m.entradas /\ MismaCopia(n.entradas[j], m.entradas[j])
  /\ \A j \in DOMAIN m.entradas : j \in DOMAIN n.entradas

\* What is kept of the page of the entry v, if it is not page k of p, becomes
\* what that entry has; of the others, what it was.
Vuelca(m, v, p, k) ==
  \A q \in Pid, j \in Pagina : SuPagina(q, j) =>
    Guardado(q, j)' = IF v \in DOMAIN m.entradas /\ EsCopia(m.entradas[v], q, j)
                          /\ ~(q = p /\ j = k)
                      THEN m.entradas[v].contenido ELSE Guardado(q, j)

\* A page of a CPU's cache is put in place of the entry v, or of none, whose
\* content is then what is kept of its page.
LEMMA PonerTodo ==
  ASSUME Regulares, InvTodo, InvTres', NEW c \in config.cpus, config.cache > 0,
         UNCHANGED <<config, procesos>>, instr'[c].pc = "fetch", NEW n, cache'[c] = n,
         \A d \in Cpu \ {c} : instr'[d] = instr[d] /\ cache'[d] = cache[d],
         NEW m, m = cache[c], NEW v, SalvoUna(n, m, v), NEW x, x = n.entradas[v],
         NEW p, NEW k, SuPagina(p, k), EsCopia(x, p, k),
         ~x.d => x.contenido = Guardado(p, k), Vuelca(m, v, p, k)
  PROVE  InvCopias' /\ SoloCambia(p, k, x.contenido)
<1> USE DEF SalvoUna, Vuelca
<1>1. /\ c \in Cpu /\ InvMMU /\ InvMMU' /\ UnaConCache /\ UnaConCache'
      /\ \A d \in config.cpus : d = c
  BY UnaSola, Configuracion DEF InvTodo, InvTres, InvMMU, UnaConCache
<1>2. instr'[c].pc = "fetch" /\ cache'[c] = n
  OBVIOUS
<1>3. \A d \in Cpu \ {c} : instr'[d] = instr[d] /\ cache'[d] = cache[d]
  OBVIOUS
<1>4. \A q, j : SuPagina(q, j)' <=> SuPagina(q, j)
  BY DEF SuPagina, Vive
<1>5. p \in Pid /\ k \in Pagina
  BY DEF SuPagina
<1>6. InvCopias'
  <2> SUFFICES ASSUME NEW d \in Cpu
               PROVE  /\ InstrCopia(instr[d], cache[d])'
                      /\ \A j \in DOMAIN cache'[d].entradas :
                           d \in config.cpus /\ CopiaVale(cache[d].entradas[j])'
    BY DEF InvCopias
  <2>1. CASE d # c
    <3>1. instr'[d].pc = "libre" /\ DOMAIN cache'[d].entradas = {}
      <4>1. d \notin config.cpus
        BY <1>1, <2>1
      <4>2. instr[d].pc = "libre"
        BY <4>1, Ejecutado DEF InvTodo
      <4>3. DOMAIN cache[d].entradas = {}
        BY <4>1 DEF InvTodo, InvCopias
      <4> QED
        BY <1>3, <2>1, <4>2, <4>3
    <3> QED
      BY <3>1 DEF InstrCopia, EnOperacion
  <2>2. CASE d = c
    <3>1. InstrCopia(instr[d], cache[d])'
      BY <1>2, <2>2 DEF InstrCopia, EnOperacion
    <3>2. ASSUME NEW j \in DOMAIN n.entradas, NEW f, f = n.entradas[j],
                 Vive(f.pid), ~f.d
          PROVE  f.contenido = Guardado(f.pid, f.pagina)'
      <4>1. CASE j = v
        <5>1. f.pid = p /\ f.pagina = k /\ f.contenido = Guardado(p, k)
          BY <3>2, <4>1 DEF EsCopia
        <5>2. Guardado(p, k)' = Guardado(p, k)
          BY <1>5
        <5> QED
          BY <5>1, <5>2 DEF Guardado, SuMarco
      <4>2. CASE j # v
        <5>1. PICK e : e = m.entradas[j]
          OBVIOUS
        <5>2. j \in DOMAIN m.entradas /\ MismaCopia(f, e)
          BY <3>2, <4>2, <5>1
        <5>3. CopiaVale(e) /\ CopiaBien(e)
          BY <1>1, <5>1, <5>2, PartesTipos DEF InvTodo, InvTres, InvCopias
        <5>4. /\ SuPagina(f.pid, f.pagina) /\ f.contenido = Guardado(f.pid, f.pagina)
              /\ f.contenido = e.contenido /\ EsCopia(e, f.pid, f.pagina)
          BY <3>2, <5>2, <5>3
             DEF CopiaVale, CopiaBien, DeUnProceso, SuPagina, MismaCopia, EsCopia
        <5>5. PICK q, y : q = f.pid /\ y = f.pagina
          OBVIOUS
        <5>6. q \in Pid /\ y \in Pagina /\ SuPagina(q, y) /\ EsCopia(e, q, y)
          BY <5>4, <5>5 DEF SuPagina
        <5>7. v \in DOMAIN m.entradas /\ EsCopia(m.entradas[v], q, y) =>
                m.entradas[v].contenido = e.contenido
          <6>1. \A z \in DOMAIN cache[c].entradas : EsCopia(cache[c].entradas[z], q, y) =>
                  Copia(cache[c], y) = cache[c].entradas[z]
            BY <1>1, <5>6, EnCacheSi
          <6> QED
            BY <5>1, <5>2, <5>6, <6>1
        <5>8. Guardado(q, y)' = Guardado(q, y)
          BY <5>4, <5>5, <5>6, <5>7
        <5> QED
          BY <5>4, <5>5, <5>8 DEF Guardado, SuMarco
      <4> QED
        BY <4>1, <4>2
    <3>3. ASSUME NEW j \in DOMAIN cache'[d].entradas PROVE CopiaVale(cache[d].entradas[j])'
      <4>1. PICK f : f = n.entradas[j]
        OBVIOUS
      <4>2. j \in DOMAIN n.entradas /\ cache'[d].entradas[j] = f
        BY <1>2, <2>2, <3>3, <4>1
      <4>3. Vive(f.pid) /\ ~f.d => f.contenido = Guardado(f.pid, f.pagina)'
        BY <3>2, <4>1, <4>2
      <4>4. CopiaVale(cache[d].entradas[j])' <=>
              (procesos'[f.pid] # NADA /\ ~f.d => f.contenido = Guardado(f.pid, f.pagina)')
        BY <4>2 DEF CopiaVale, Vive
      <4> QED
        BY <4>3, <4>4 DEF Vive
    <3> QED
      BY <2>2, <3>1, <3>3
  <2> QED
    BY <2>1, <2>2
<1>7. ASSUME NEW q \in Pid, NEW j \in Pagina
      PROVE  Visto(q, j)' = IF q = p /\ j = k THEN x.contenido ELSE Visto(q, j)
  <2>1. CASE ~SuPagina(q, j)
    BY <1>1, <1>4, <2>1, VistoEs, VistoSera
  <2>2. CASE SuPagina(q, j) /\ q = p /\ j = k
    <3>1. EsCopia(cache'[c].entradas[v], p, k) /\ v \in DOMAIN cache'[c].entradas
      BY <1>2
    <3> QED
      BY <1>1, <1>2, <1>4, <2>2, <3>1, VistoSera
  <2>3. CASE SuPagina(q, j) /\ ~(q = p /\ j = k)
    <3>1. ASSUME NEW y \in DOMAIN m.entradas, y # v, EsCopia(m.entradas[y], q, j)
          PROVE  Visto(q, j)' = Visto(q, j)
      <4>1. MismaCopia(n.entradas[y], m.entradas[y]) /\ y \in DOMAIN n.entradas
        BY <3>1
      <4>2. Visto(q, j) = m.entradas[y].contenido
        BY <1>1, <2>3, <3>1, VistoEs
      <4>3. Visto(q, j)' = n.entradas[y].contenido
        <5>1. EsCopia(cache'[c].entradas[y], q, j) /\ y \in DOMAIN cache'[c].entradas
          BY <1>2, <3>1, <4>1 DEF MismaCopia, EsCopia
        <5> QED
          BY <1>1, <1>2, <1>4, <2>3, <5>1, VistoSera
      <4> QED
        BY <4>1, <4>2, <4>3 DEF MismaCopia
    <3>2. ASSUME \A y \in DOMAIN m.entradas : y # v => ~EsCopia(m.entradas[y], q, j)
          PROVE  Visto(q, j)' = Visto(q, j)
      <4>1. ~HayCopia(q, j)'
        <5>1. \A y \in DOMAIN n.entradas : ~EsCopia(n.entradas[y], q, j)
          <6>1. ~EsCopia(n.entradas[v], q, j)
            BY <2>3 DEF EsCopia
          <6> QED
            BY <3>2, <6>1 DEF EsCopia, MismaCopia
        <5> QED
          BY <1>1, <1>2, <5>1 DEF HayCopia, EsCopia
      <4>2. Visto(q, j)' = Guardado(q, j)'
        BY <1>1, <1>4, <2>3, <4>1, VistoSera
      <4>3. CASE v \in DOMAIN m.entradas /\ EsCopia(m.entradas[v], q, j)
        <5>1. Visto(q, j) = m.entradas[v].contenido
          BY <1>1, <2>3, <4>3, VistoEs
        <5> QED
          BY <2>3, <4>2, <4>3, <5>1
      <4>4. CASE ~(v \in DOMAIN m.entradas /\ EsCopia(m.entradas[v], q, j))
        <5>1. ~HayCopia(q, j)
          BY <1>1, <3>2, <4>4 DEF HayCopia
        <5>2. Visto(q, j) = Guardado(q, j)
          BY <1>1, <2>3, <5>1, VistoEs
        <5> QED
          BY <2>3, <4>2, <4>4, <5>2
      <4> QED
        BY <4>3, <4>4
    <3> QED
      BY <2>3, <3>1, <3>2
  <2> QED
    BY <2>1, <2>2, <2>3
<1> QED
  BY <1>6, <1>7 DEF SoloCambia

LEMMA AcertarLecturaTodo ==
  ASSUME Regulares, InvTodo, InvTres', NEW c \in Cpu, NEW k \in Pagina, NEW v,
         Acertar(c, "READ", k, v)
  PROVE  InvReparto' /\ InvCopias' /\ E!Next
<1>0. PICK p : p = instr[c].pid
  OBVIOUS
<1> DEFINE m == cache[c]
           i == instr[c]
           n == Leida(m, k)
<1>1. /\ i.pc = "fetch" /\ k < config.paginas[p] /\ config.cache > 0
      /\ EnCache(m, p, k) /\ m.indice[k] # 0
      /\ cache' = [cache EXCEPT ![c] = n]
      /\ Leyo(p, k, Copia(m, k).contenido, Copia(m, k).contenido)
      /\ UNCHANGED <<config, procesos, memoria, instr>>
  BY <1>0 DEF Acertar, EnCache
<1>2. CacheBuena(m, config.cache)
  BY <1>1, Partes DEF InvTodo, InvTres
<1>3. /\ DOMAIN n.entradas = DOMAIN m.entradas
      /\ \A j \in DOMAIN m.entradas : MismaCopia(n.entradas[j], m.entradas[j])
  BY <1>1, <1>2, LeidaCopias
<1>4. SuPagina(p, k) /\ p \in Pid /\ c \in config.cpus
  BY <1>0, <1>1, Ejecutado DEF InvTodo, SuPagina
<1>5. Visto(p, k) = Copia(m, k).contenido
  <2>1. PICK j \in DOMAIN m.entradas : EsCopia(m.entradas[j], p, k) /\ Copia(m, k) = m.entradas[j]
    BY <1>1, EnCacheSi DEF InvTodo, InvTres
  <2>2. InvMMU /\ UnaConCache
    BY <1>1, UnaSola DEF InvTodo, InvTres
  <2> QED
    BY <1>1, <1>4, <2>1, <2>2, VistoEs
<1>6. InstrCopia(i, n)
  BY <1>1, EntreCopia
<1> HIDE DEF n
<1>7. InvReparto' /\ InvCopias' /\ Igual
  BY <1>1, <1>3, <1>6, MismasCopias
<1> QED
  BY <1>1, <1>4, <1>5, <1>7, PasoLeer

LEMMA AcertarEscrituraTodo ==
  ASSUME Regulares, InvTodo, InvTres', NEW c \in Cpu, NEW k \in Pagina, NEW v \in Valor,
         Acertar(c, "WRITE", k, v)
  PROVE  InvReparto' /\ InvCopias' /\ E!Next
<1>0. PICK p, m, w, n, i :
        /\ p = instr[c].pid /\ i = instr[c] /\ m = cache[c] /\ w = m.indice[k]
        /\ n = Escrita(m, k, v)
  OBVIOUS
<1>1. /\ i.pc = "fetch" /\ k < config.paginas[p] /\ config.cache > 0
      /\ EnCache(m, p, k) /\ m.indice[k] # 0
      /\ cache' = [cache EXCEPT ![c] = n] /\ Nada
      /\ UNCHANGED <<config, procesos, memoria, instr>>
  BY <1>0 DEF Acertar, EnCache
<1>2. CacheBuena(m, config.cache)
  BY <1>0, <1>1, Partes DEF InvTodo, InvTres
<1>3. /\ DOMAIN n.entradas = DOMAIN m.entradas
      /\ n.entradas[w].pagina = k /\ n.entradas[w].pid = m.entradas[w].pid
      /\ n.entradas[w].contenido = v /\ n.entradas[w].d
      /\ \A j \in DOMAIN m.entradas \ {w} : n.entradas[j] = m.entradas[j]
  BY <1>0, <1>1, <1>2, EscritaCopias
<1>4. SuPagina(p, k) /\ p \in Pid /\ c \in config.cpus
  BY <1>0, <1>1, Ejecutado DEF InvTodo, SuPagina
<1>5. w \in DOMAIN m.entradas /\ EsCopia(m.entradas[w], p, k)
  BY <1>0, <1>1, <1>2, CopiaEnSuLugar DEF EnCache, EsCopia
<1>6. PICK x : x = n.entradas[w]
  OBVIOUS
<1>7. EsCopia(x, p, k) /\ x.contenido = v /\ x.d
  BY <1>3, <1>5, <1>6 DEF EsCopia
<1>8. Vuelca(m, w, p, k)
  <2>1. \A q, j : Guardado(q, j)' = Guardado(q, j)
    BY <1>1 DEF Guardado, SuMarco
  <2> QED
    BY <1>5, <2>1 DEF EsCopia, Vuelca
<1>12. SalvoUna(n, m, w)
  BY <1>3, <1>5 DEF MismaCopia, SalvoUna
<1>9. /\ instr'[c].pc = "fetch" /\ cache'[c] = n
      /\ \A d \in Cpu \ {c} : instr'[d] = instr[d] /\ cache'[d] = cache[d]
  BY <1>0, <1>1 DEF InvTodo, InvTres, InvMMU
<1>10. InvCopias' /\ SoloCambia(p, k, x.contenido)
  <2>1. /\ config.cache > 0 /\ UNCHANGED <<config, procesos>>
        /\ ~x.d => x.contenido = Guardado(p, k)
    BY <1>1, <1>7
  <2>2. /\ instr'[c].pc = "fetch" /\ cache'[c] = n /\ m = cache[c]
        /\ \A d \in Cpu \ {c} : instr'[d] = instr[d] /\ cache'[d] = cache[d]
    BY <1>0, <1>9
  <2>3. c \in config.cpus /\ SuPagina(p, k) /\ EsCopia(x, p, k)
    BY <1>4, <1>7
  <2> QED
    BY <1>6, <1>8, <1>12, <2>1, <2>2, <2>3, PonerTodo
<1>11. InvReparto'
  BY <1>1, RepartoQuieto DEF InvTodo
<1>13. SoloCambia(p, k, v)
  <2>1. x.contenido = v
    BY <1>7
  <2>2. SoloCambia(p, k, x.contenido)
    BY <1>10
  <2> QED
    BY <2>1, <2>2 DEF SoloCambia
<1>14. UNCHANGED config /\ Nada
  BY <1>1
<1>15. E!Next
  BY <1>4, <1>13, <1>14, PasoEscribir
<1> QED
  BY <1>10, <1>11, <1>15

\* An instruction that ends with its page in the place v of the cache.
LEMMA CompletarTodo ==
  ASSUME Regulares, InvTodo, InvTres', NEW c \in Cpu,
         instr[c].pc \in {"insertar", "actualizar"}, NEW n, Completar(c, n),
         UNCHANGED <<config, procesos>>,
         NEW m, m = cache[c], NEW v, SalvoUna(n, m, v), n.entradas[v] = Nueva(c),
         NEW p, p = instr[c].pid, NEW k, k = instr[c].pagina, Vuelca(m, v, p, k)
  PROVE  InvCopias' /\ E!Next
<1>1. PICK i, e, x : i = instr[c] /\ e = Entre(p) /\ x = Nueva(c)
  OBVIOUS
<1>2. /\ cache' = [cache EXCEPT ![c] = n] /\ instr' = [instr EXCEPT ![c] = e]
      /\ IF i.op = "READ" THEN Leyo(p, k, i.contenido, i.contenido) ELSE Nada
  BY <1>1 DEF Completar
<1>3. /\ SuPagina(p, k) /\ p \in Pid /\ k \in Pagina /\ c \in config.cpus
      /\ InstrBien(i) /\ i.pc \in EnOperacion /\ i.valor \in Valor
  BY <1>1, PartesTipos, Ejecutado DEF InvTodo, InvTres, EnOperacion, DeUnProceso, SuPagina
<1>4. config.cache > 0
  BY AlInsertar DEF InvTodo, InvTres
<1>5. i.contenido = Guardado(p, k) /\ \A j \in DOMAIN m.entradas : ~EsCopia(m.entradas[j], p, k)
  BY <1>1, <1>3, <1>4 DEF InvTodo, InvCopias, InstrCopia, SinCopia, EsCopia
<1>6. /\ EsCopia(x, p, k)
      /\ i.op = "WRITE" => x.contenido = i.valor /\ x.d
      /\ i.op = "READ" => x.contenido = i.contenido /\ ~x.d
      /\ i.op \in {"READ", "WRITE"}
  <2>1. i.op \in {"READ", "WRITE"}
    BY <1>3 DEF InstrBien, Instr
  <2> QED
    BY <1>1, <1>3, <2>1, NuevaBien DEF InvTodo, InvTres, EsCopia
<1>7. e.pc = "fetch"
  BY <1>1 DEF Entre, SinInstr
<1>8. x = n.entradas[v] /\ (~x.d => x.contenido = Guardado(p, k))
  BY <1>1, <1>5, <1>6
<1>9. /\ instr'[c].pc = "fetch" /\ cache'[c] = n
      /\ \A d \in Cpu \ {c} : instr'[d] = instr[d] /\ cache'[d] = cache[d]
  BY <1>2, <1>7 DEF InvTodo, InvTres, InvMMU
<1>10. InvCopias' /\ SoloCambia(p, k, x.contenido)
  BY <1>3, <1>4, <1>6, <1>8, <1>9, PonerTodo
<1>11. CASE i.op = "WRITE"
  BY <1>2, <1>3, <1>6, <1>10, <1>11, PasoEscribir
<1>12. CASE i.op = "READ"
  <2>1. Visto(p, k) = x.contenido
    <3>1. ~HayCopia(p, k)
      <4>1. \A d \in config.cpus : d = c
        BY <1>3, <1>4, UnaSola DEF UnaConCache, InvTodo
      <4> QED
        BY <1>5, <4>1 DEF HayCopia
    <3>2. InvMMU /\ UnaConCache
      BY UnaSola DEF InvTodo, InvTres
    <3> QED
      BY <1>3, <1>5, <1>6, <1>12, <3>1, <3>2, VistoEs
  <2>2. Igual
    BY <1>10, <2>1 DEF Igual, SoloCambia
  <2>3. Leyo(p, k, Visto(p, k), Visto(p, k))
    BY <1>2, <1>6, <1>12, <2>1
  <2> QED
    BY <1>3, <1>4, <1>10, <2>2, <2>3, PasoLeer
<1> QED
  BY <1>6, <1>10, <1>11, <1>12

\* With a cache, who lives is who is executed.
LEMMA UnoVive ==
  ASSUME Regulares, InvTres, config.cache > 0, NEW c \in Cpu, instr[c].pc # "libre",
         NEW q \in Pid, Vive(q)
  PROVE  q = instr[c].pid
BY Ejecutado, ConfigRegular DEF InvTres, InvMMU, InvAcceso, InvProcesos

\* What a CPU has when it is about to put a page.
LEMMA AlCompletar ==
  ASSUME Regulares, InvTodo, NEW c \in Cpu, instr[c].pc \in {"insertar", "actualizar"},
         NEW m, m = cache[c], NEW p, p = instr[c].pid, NEW k, k = instr[c].pagina
  PROVE  /\ config.cache > 0 /\ CacheBuena(m, config.cache)
         /\ Nueva(c).pagina = k /\ k \in Pagina /\ p \in Pid /\ EnRam(p)
         /\ \A j \in DOMAIN m.entradas :
              CopiaBien(m.entradas[j]) /\ CopiaVale(m.entradas[j]) /\ ~EsCopia(m.entradas[j], p, k)
         /\ \A q \in Pid : Vive(q) => q = p
<1>1. /\ config.cache > 0 /\ CacheBuena(m, config.cache)
      /\ Nueva(c).pagina = k /\ k \in Pagina /\ p \in Pid /\ EnRam(p)
  BY AlInsertar, NuevaEsDeLaPagina, PartesTipos, Ejecutado DEF InvTodo, InvTres, EnOperacion
<1>2. \A j \in DOMAIN m.entradas : CopiaBien(m.entradas[j]) /\ CopiaVale(m.entradas[j])
  BY <1>1, PartesTipos DEF InvTodo, InvTres, InvCopias
<1>3. \A j \in DOMAIN m.entradas : ~EsCopia(m.entradas[j], p, k)
  BY <1>1 DEF InvTodo, InvCopias, InstrCopia, SinCopia, EnOperacion, EsCopia
<1>4. \A q \in Pid : Vive(q) => q = p
  BY <1>1, UnoVive DEF InvTodo
<1> QED
  BY <1>1, <1>2, <1>3, <1>4

\* The entry that leaves is not one that was modified and lives.
LEMMA VuelcaNada ==
  ASSUME UNCHANGED <<config, procesos, memoria>>, NEW m, NEW v, NEW p, NEW k,
         v \in DOMAIN m.entradas =>
           CopiaVale(m.entradas[v]) /\ (Vive(m.entradas[v].pid) => ~m.entradas[v].d)
  PROVE  Vuelca(m, v, p, k)
<1> SUFFICES ASSUME NEW q \in Pid, NEW j \in Pagina, SuPagina(q, j)
             PROVE  Guardado(q, j)' =
                      IF v \in DOMAIN m.entradas /\ EsCopia(m.entradas[v], q, j)
                         /\ ~(q = p /\ j = k)
                      THEN m.entradas[v].contenido ELSE Guardado(q, j)
  BY DEF Vuelca
<1>1. Guardado(q, j)' = Guardado(q, j)
  BY DEF Guardado, SuMarco
<1>2. v \in DOMAIN m.entradas /\ EsCopia(m.entradas[v], q, j) =>
        m.entradas[v].contenido = Guardado(q, j)
  BY DEF EsCopia, CopiaVale, SuPagina
<1> QED
  BY <1>1, <1>2

LEMMA InsertarTodo ==
  ASSUME Regulares, InvTodo, InvTres', NEW c \in Cpu, InsertarEncima(c) \/ InsertarAlFinal(c)
  PROVE  InvReparto' /\ InvCopias' /\ E!Next
<1>0. PICK m, p, k, e :
        m = cache[c] /\ p = instr[c].pid /\ k = instr[c].pagina /\ e = Nueva(c)
  OBVIOUS
<1>1. UNCHANGED <<config, procesos, memoria>> /\ instr[c].pc = "insertar"
  BY DEF InsertarEncima, InsertarAlFinal
<1>2. /\ config.cache > 0 /\ CacheBuena(m, config.cache) /\ e.pagina = k /\ k \in Pagina
      /\ \A j \in DOMAIN m.entradas :
           CopiaBien(m.entradas[j]) /\ CopiaVale(m.entradas[j]) /\ ~EsCopia(m.entradas[j], p, k)
      /\ \A q \in Pid : Vive(q) => q = p
  BY <1>0, <1>1, AlCompletar
<1>3. InvReparto'
  BY <1>1, RepartoQuieto DEF InvTodo
<1>4. CASE InsertarEncima(c)
  <2>1. PICK n, v : n = Sobrescribir(m, e) /\ v = m.indice[k]
    OBVIOUS
  <2>2. v # 0 /\ Completar(c, n) /\ n.entradas = [m.entradas EXCEPT ![v] = e]
    BY <1>0, <1>2, <1>4, <2>1 DEF InsertarEncima, Sobrescribir
  <2>3. v \in DOMAIN m.entradas /\ m.entradas[v].pagina = k
    BY <1>2, <2>1, <2>2, CopiaEnSuLugar
  <2>4. /\ DOMAIN n.entradas = DOMAIN m.entradas /\ n.entradas[v] = e
        /\ \A j \in DOMAIN m.entradas \ {v} : n.entradas[j] = m.entradas[j]
    BY <2>2, <2>3
  <2>5. SalvoUna(n, m, v)
    BY <2>3, <2>4 DEF SalvoUna, MismaCopia
  <2>6. ~Vive(m.entradas[v].pid)
    BY <1>2, <2>3 DEF CopiaBien, DeUnProceso, EsCopia
  <2>7. Vuelca(m, v, p, k)
    BY <1>1, <1>2, <2>3, <2>6, VuelcaNada
  <2> QED
    BY <1>0, <1>1, <1>3, <2>2, <2>4, <2>5, <2>7, CompletarTodo
<1>5. CASE InsertarAlFinal(c)
  <2>1. PICK n, v : n = Agregar(m, e) /\ v = Len(m.entradas) + 1
    OBVIOUS
  <2>2. Completar(c, n)
    BY <1>0, <1>5, <2>1 DEF InsertarAlFinal
  <2>3. /\ DOMAIN n.entradas = DOMAIN m.entradas \cup {v} /\ v \notin DOMAIN m.entradas
        /\ n.entradas[v] = e
        /\ \A j \in DOMAIN m.entradas : n.entradas[j] = m.entradas[j]
    BY <1>2, <2>1, AgregarCopias DEF CacheBuena
  <2>4. SalvoUna(n, m, v)
    BY <2>3 DEF SalvoUna, MismaCopia
  <2>5. Vuelca(m, v, p, k)
    BY <1>1, <2>3, VuelcaNada
  <2> QED
    BY <1>0, <1>1, <1>3, <2>2, <2>3, <2>4, <2>5, CompletarTodo
<1> QED
  BY <1>4, <1>5

\* What the entry of the victim becomes.
LEMMA ReemplazarSalvoUna ==
  ASSUME NEW m, NEW b, TipoCache(b), DOMAIN b.entradas = DOMAIN m.entradas,
         \A j \in DOMAIN m.entradas : MismaCopia(b.entradas[j], m.entradas[j]),
         NEW v \in DOMAIN m.entradas, NEW e, NEW n, n = Reemplazar(b, v, e)
  PROVE  SalvoUna(n, m, v) /\ n.entradas[v] = e
<1>1. /\ DOMAIN n.entradas = DOMAIN b.entradas /\ n.entradas[v] = e
      /\ \A j \in DOMAIN b.entradas \ {v} : n.entradas[j] = b.entradas[j]
  BY ReemplazarCopias
<1> QED
  BY <1>1 DEF SalvoUna

LEMMA ElegirVictimaTodo ==
  ASSUME Regulares, InvTodo, InvTres', NEW c \in Cpu, ElegirVictima(c)
  PROVE  InvReparto' /\ InvCopias' /\ E!Next
<1>0. PICK m, p, k, j :
        m = cache[c] /\ p = instr[c].pid /\ k = instr[c].pagina /\ j = instr[c]
  OBVIOUS
<1> DEFINE e == Elegir(m, config.algCache)
           w == e.victima
           b == Barrida(m, e.entradas)
           v == e.entradas[w]
           d == Direccion(c, v.pid, v.pagina)
           i == [j EXCEPT !.pc = "actualizar", !.victima = w, !.marco = d.marco]
<1>1. /\ j.pc = "insertar" /\ Len(m.entradas) >= config.cache
      /\ UNCHANGED <<config, procesos, memoria>>
      /\ \/ /\ cache' = [cache EXCEPT ![c] = b] /\ instr' = [instr EXCEPT ![c] = i] /\ Nada
         \/ Completar(c, Reemplazar(b, w, Nueva(c))) /\ ~v.d
  BY <1>0 DEF ElegirVictima
<1>2. /\ w \in DOMAIN m.entradas /\ b.entradas = e.entradas
      /\ CacheBuena(b, config.cache) /\ DOMAIN b.entradas = DOMAIN m.entradas
      /\ \A y \in DOMAIN m.entradas : MismaCopia(b.entradas[y], m.entradas[y])
  BY <1>0, <1>1, Barrido DEF InvTodo, InvTres
<1>3. /\ config.cache > 0
      /\ \A y \in DOMAIN m.entradas : CopiaVale(m.entradas[y])
  BY <1>0, <1>1, AlCompletar
<1>4. v = b.entradas[w]
  BY <1>2
<1>5. InvReparto'
  BY <1>1, RepartoQuieto DEF InvTodo
<1> HIDE DEF e, w, b, v, d
<1>6. CASE /\ cache' = [cache EXCEPT ![c] = b] /\ instr' = [instr EXCEPT ![c] = i] /\ Nada
  <2>1. j \in Instr /\ InstrCopia(j, m)
    BY <1>0, PartesTipos DEF InvTodo, InvTres, InvCopias
  <2>2. /\ i.pc = "actualizar" /\ i.pid = j.pid /\ i.pagina = j.pagina
        /\ i.contenido = j.contenido
    BY <2>1 DEF Instr
  <2> HIDE DEF i
  <2>3. InstrCopia(i, b)
    BY <1>1, <1>2, <2>1, <2>2 DEF InstrCopia, SinCopia, MismaCopia, EnOperacion
  <2>4. Igual /\ InvCopias'
    BY <1>0, <1>1, <1>2, <1>6, <2>3, MismasCopias
  <2>5. UNCHANGED config
    BY <1>1
  <2> QED
    BY <1>5, <1>6, <2>4, <2>5, PasoOtro
<1>7. CASE Completar(c, Reemplazar(b, w, Nueva(c))) /\ ~v.d
  <2>1. PICK n, y : n = Reemplazar(b, w, Nueva(c)) /\ y = w
    OBVIOUS
  <2>2. SalvoUna(n, m, y) /\ n.entradas[y] = Nueva(c)
    BY <1>2, <2>1, ReemplazarSalvoUna DEF CacheBuena
  <2>3. ~m.entradas[y].d
    BY <1>2, <1>4, <1>7, <2>1 DEF MismaCopia
  <2>4. Vuelca(m, y, p, k)
    BY <1>1, <1>3, <2>3, VuelcaNada
  <2> QED
    BY <1>0, <1>1, <1>5, <1>7, <2>1, <2>2, <2>4, CompletarTodo
<1> QED
  BY <1>1, <1>6, <1>7

\* The victim's content goes to the frame of its page; if its process ended,
\* nowhere.
LEMMA ActualizarVictimaTodo ==
  ASSUME Regulares, InvTodo, InvTres', NEW c \in Cpu, ActualizarVictima(c)
  PROVE  InvReparto' /\ InvCopias' /\ E!Next
<1>0. PICK m, p, k, w, f, n :
        /\ m = cache[c] /\ p = instr[c].pid /\ k = instr[c].pagina
        /\ w = instr[c].victima /\ f = instr[c].marco /\ n = Reemplazar(m, w, Nueva(c))
  OBVIOUS
<1>1. /\ instr[c].pc = "actualizar" /\ UNCHANGED <<config, procesos>> /\ Completar(c, n)
      /\ memoria' = IF f = NoHay THEN memoria
                    ELSE [memoria EXCEPT ![f] = m.entradas[w].contenido]
  BY <1>0 DEF ActualizarVictima
<1>2. /\ CacheBuena(m, config.cache) /\ EnRam(p) /\ p \in Pid
      /\ \A j \in DOMAIN m.entradas :
           CopiaBien(m.entradas[j]) /\ CopiaVale(m.entradas[j]) /\ ~EsCopia(m.entradas[j], p, k)
      /\ \A q \in Pid : Vive(q) => q = p
  BY <1>0, <1>1, AlCompletar
<1>3. w \in DOMAIN m.entradas
  BY <1>0, <1>1, AlInsertar DEF InvTodo, InvTres, EnCurso
<1>4. PICK r, y, x : r = m.entradas[w].pid /\ y = m.entradas[w].pagina
                     /\ x = m.entradas[w].contenido
  OBVIOUS
<1>5. f = IF Vive(r) THEN SuMarco(r, y) ELSE NoHay
  BY <1>0, <1>1, <1>4, PartesAcceso DEF InvTodo, VictimaVale
<1>6. r \in Pid /\ (Vive(r) => SuPagina(r, y)) /\ EsCopia(m.entradas[w], r, y)
  BY <1>2, <1>3, <1>4 DEF CopiaBien, DeUnProceso, SuPagina, EsCopia
<1>7. SalvoUna(n, m, w) /\ n.entradas[w] = Nueva(c)
  <2>1. TipoCache(m) /\ \A j \in DOMAIN m.entradas : MismaCopia(m.entradas[j], m.entradas[j])
    BY <1>2 DEF CacheBuena, MismaCopia
  <2> QED
    BY <1>0, <1>3, <2>1, ReemplazarSalvoUna
<1>8. CASE ~Vive(r)
  <2>1. memoria' = memoria
    BY <1>1, <1>5, <1>8
  <2>2. Vuelca(m, w, p, k)
    BY <1>1, <1>2, <1>3, <1>4, <1>8, <2>1, VuelcaNada
  <2>3. InvReparto'
    BY <1>1, <2>1, RepartoQuieto DEF InvTodo
  <2> QED
    BY <1>0, <1>1, <1>7, <2>2, <2>3, CompletarTodo
<1>9. CASE Vive(r)
  <2>1. SuPagina(r, y) /\ EnRam(r)
    BY <1>2, <1>6, <1>9
  <2>2. f = SuMarco(r, y) /\ f \in Marco /\ f \in Ocupados /\ f # NoHay
    BY <1>5, <1>9, <2>1, PaginaEnRam, Datos DEF InvTodo
  <2>3. memoria' = [memoria EXCEPT ![f] = x] /\ memoria \in [Marco -> Valor]
    BY <1>1, <1>4, <2>2 DEF InvTodo, InvTres, InvTiposMV, InvDatos
  <2>4. InvReparto'
    BY <1>1, <2>2, <2>3, EscribeReparto DEF InvTodo
  <2>5. /\ \A g \in Marco \ {SuMarco(r, y)} : memoria'[g] = memoria[g]
        /\ memoria'[SuMarco(r, y)] = x
    BY <2>2, <2>3
  <2>6. ASSUME NEW q \in Pid, NEW j \in Pagina, SuPagina(q, j)
        PROVE  /\ q = r /\ j = y => Guardado(q, j)' = x
               /\ ~(q = r /\ j = y) => Guardado(q, j)' = Guardado(q, j)
    BY <1>1, <2>1, <2>5, <2>6, EscribeGuardado DEF InvTodo
  <2>7. \A q, j : EsCopia(m.entradas[w], q, j) <=> q = r /\ j = y
    BY <1>4 DEF EsCopia
  <2>8. ~(r = p /\ y = k)
    BY <1>2, <1>3, <1>6
  <2>9. Vuelca(m, w, p, k)
    BY <1>3, <1>4, <2>6, <2>7, <2>8 DEF Vuelca
  <2> QED
    BY <1>0, <1>1, <1>7, <2>4, <2>9, CompletarTodo
<1> QED
  BY <1>8, <1>9
---------------------------------------------------------------------------
(* The refinement. *)

\* A step of a CPU.
LEMMA CpuTodo ==
  ASSUME Regulares, InvTodo, InvTres', NEW c \in Cpu, PasoCpu(c)
  PROVE  InvReparto' /\ InvCopias' /\ E!Next
<1>1. CASE \E k \in Pagina : Acertar(c, "READ", k, CERO) \/ Fallar(c, "READ", k, CERO)
  BY <1>1, AcertarLecturaTodo, FallarTodo
<1>2. CASE \E k \in Pagina : \E v \in Valor : Acertar(c, "WRITE", k, v) \/ Fallar(c, "WRITE", k, v)
  BY <1>2, AcertarEscrituraTodo, FallarTodo
<1>3. CASE Traducir(c)
  BY <1>3, TraducirTodo
<1>4. CASE Pedir(c)
  BY <1>4, PedirTodo
<1>5. CASE InsertarEncima(c) \/ InsertarAlFinal(c)
  BY <1>5, InsertarTodo
<1>6. CASE ElegirVictima(c)
  BY <1>6, ElegirVictimaTodo
<1>7. CASE ActualizarVictima(c)
  BY <1>7, ActualizarVictimaTodo
<1>8. CASE Enviar(c) \/ EnviarSinMarco(c)
  BY <1>8, EnviarTodo
<1>9. CASE Acceder(c)
  BY <1>9, AccederTodo
<1> QED
  BY <1>1, <1>2, <1>3, <1>4, <1>5, <1>6, <1>7, <1>8, <1>9 DEF PasoCpu

\* A step of the kernel.
LEMMA KernelTodo ==
  ASSUME Regulares, InvTodo, InvTres', NEW p \in Pid, PasoKernel(p)
  PROVE  InvReparto' /\ InvCopias' /\ E!Next
BY AdmitirTodo, SuspenderTodo, ReanudarTodo, FinalizarTodo DEF PasoKernel

\* A step of nobody.
LEMMA QuietoTodo ==
  ASSUME InvTodo, UNCHANGED vars
  PROVE  InvReparto' /\ InvCopias' /\ Igual
<1>1. UNCHANGED <<config, procesos, memoria, cache, instr>>
  BY DEF vars
<1>2. InvReparto'
  BY <1>1, RepartoQuieto DEF InvTodo
<1>3. InvCopias'
  BY <1>1 DEF InvTodo, InvCopias, InstrCopia, SinCopia, CopiaVale, Guardado, SuMarco, Vive
<1>4. Igual
  BY <1>1 DEF Igual, Visto, Vive
<1> QED
  BY <1>2, <1>3, <1>4

LEMMA PasoTodo ==
  ASSUME Regulares, InvTodo, [Next]_vars
  PROVE  InvTodo' /\ [E!Next]_(E!vars)
<1>1. InvTres'
  BY PasoTres DEF InvTodo
<1>2. config.cpus \subseteq Cpu
  BY Configuracion DEF InvTodo, InvTres, InvMMU
<1>3. CASE \E c \in config.cpus :
             PasoCpu(c) \/ Ceder(c) \/ \E p \in Pid : Despachar(c, p)
  BY <1>1, <1>2, <1>3, CpuTodo, DespachoTodo DEF InvTodo
<1>4. CASE \E p \in Pid : PasoKernel(p)
  BY <1>1, <1>4, KernelTodo DEF InvTodo
<1>5. CASE UNCHANGED vars
  <2>1. InvReparto' /\ InvCopias' /\ Igual
    BY <1>5, QuietoTodo
  <2>2. Mapa' = Mapa
    BY <2>1 DEF Igual, Mapa
  <2>3. UNCHANGED E!vars
    BY <1>5, <2>2 DEF vars, E!vars, Mapa
  <2> QED
    BY <1>1, <2>1, <2>3 DEF InvTodo
<1> QED
  BY <1>3, <1>4, <1>5 DEF Next

LEMMA InicioEspacio == Init => E!Init
<1> SUFFICES ASSUME Init PROVE E!Init
  OBVIOUS
<1>1. \A p \in Pid, k \in Pagina : Visto(p, k) = CERO
  BY DEF Init, Visto, Vive
<1> QED
  BY <1>1 DEF Init, E!Init

\* With a regular configuration CPUs and memory implement the user space: a page
\* holds what its program wrote there last, and a READ is answered with it,
\* whatever is in TLB, cache or swap and whoever is admitted, suspended, resumed
\* or ended meanwhile.  With a cache the program gets that answer; without one
\* it gets an empty one (AccederEspacioUsuarioLectura, LeerPaginaMemoria).
THEOREM CumpleEspacio == Regulares => (Spec => CumpleEspacioUsuario)
<1> SUFFICES ASSUME Regulares PROVE Spec => CumpleEspacioUsuario
  OBVIOUS
<1>1. InvTodo /\ [Next]_vars => InvTodo' /\ [E!Next]_(E!vars)
  BY PasoTodo
<1> QED
  BY <1>1, InicioTodo, InicioEspacio, PTL DEF Spec, CumpleEspacioUsuario, E!Spec
===========================================================================
