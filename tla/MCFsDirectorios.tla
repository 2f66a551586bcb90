--------------------------- MODULE MCFsDirectorios ---------------------------
(* Small instances of FsDirectorios. *)
EXTENDS FsDirectorios, TLC

CONSTANTS a, b

(* Names, pairs of different names, names after "."; and "." itself. *)
MCRutas == [1 .. 1 -> Nombres] \cup {<<a, b>>, <<b, a>>}
           \cup {<<Punto>>} \cup {<<Punto, x>> : x \in Nombres}

Simetria == Permutations(Nombres)
=============================================================================
