---------------------------- MODULE MCMemoria -----------------------------
(* Small instances of the memory module for TLC. *)
EXTENDS PropiedadesMemoria

CONSTANTS p1, p2, p3

\* Two of one page and one of two, which do not fit together in three frames.
UnoUnoDos == (p1 :> 1 @@ p2 :> 1 @@ p3 :> 2)

\* The two of one page can be exchanged.
Iguales == Permutations({p1, p2})

\* Two processes of two pages.
DosDos == (p1 :> 2 @@ p2 :> 2)
===========================================================================
