---------------------------- MODULE MCFileSystem ----------------------------
(* Small instances of FileSystem. *)
EXTENDS FileSystem, TLC

CONSTANTS n1, n2, n3, f1, f2, f3, f4, consola, worker

(* Room for a file of two blocks, or of one, but not for both. *)
MCTotal == n1 :> 3 @@ n2 :> 1 @@ n3 :> 1

(* A text of two blocks, a binary of one, a text with a line that is too   *)
(* long and a binary without content.                                      *)
MCContenido == f1 :> Texto(<<1, 1, 2>>, 1) @@ f2 :> Binario(1) @@ f3 :> Texto(<<3>>, 0) @@ f4 :> Binario(0)
=============================================================================
