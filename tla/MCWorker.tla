------------------------------ MODULE MCWorker -------------------------------
(* Small instances of Worker. *)
EXTENDS Worker

(* Two nodes with two blocks and one; three with one block each. *)
MCTareas == [w \in Nodos |-> IF w = 1 THEN <<1, 2>> ELSE <<w + 1>>]
=============================================================================
