---------------------------- MODULE MCFsServidor -----------------------------
(* Small instances of FsServidor. *)
EXTENDS FsServidor

CONSTANTS n1, n2, n3, n4, f1, f2

(* Two files of one block; n2 holds a replica of both. *)
MCBloques == <<[archivo |-> f1, nodos |-> {n1, n2}],
               [archivo |-> f2, nodos |-> {n2, n3}]>>
=============================================================================
