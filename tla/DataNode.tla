------------------------------ MODULE DataNode ------------------------------
(***************************************************************************)
(* The DataNode processes (dataNode/src) and the connection of each one to *)
(* the FileSystem.  A DataNode serves its requests one at a time, in the   *)
(* order of the stream, out of a mapped file.                              *)
(***************************************************************************)
EXTENDS Integers, Sequences

CONSTANTS Nodes,       \* identifiers of the DataNodes
          Total,       \* Total[n]: blocks of node n
          NULL,        \* a pointer to nothing, and a block never written
          MaxDeaths    \* bound: how many DataNodes may die

ASSUME DataNodeAssumption ==
    /\ Total \in [Nodes -> Nat]
    /\ MaxDeaths \in Nat

VARIABLES vivo,        \* vivo[n]: the process runs
          disco,       \* disco[n][b]: what block b of the mapped file holds
          entrada,     \* entrada[n]: requests that n has not read
          salida,      \* salida[n]: answers that the FileSystem has not read
          muertes      \* how many DataNodes died, for the bound

dataNodeVars == <<vivo, disco, entrada, salida, muertes>>

BlocksOf(n) == 0 .. Total[n] - 1

SetBloque(b, c) == [op |-> "SET_BLOQUE", idBloque |-> b, contenido |-> c]
GetBloque(b, nro) == [op |-> "GET_BLOQUE", idBloque |-> b, nroBloque |-> nro]

SetBloqueOk == [op |-> "SET_BLOQUE_OK"]
GetBloqueOk(nro, c) == [op |-> "GET_BLOQUE_OK", nroBloque |-> nro, contenido |-> c]
Closed == [op |-> "FIN"]

DataNodeInit(conectados) ==
    /\ vivo = [n \in Nodes |-> n \in conectados]
    /\ disco = [n \in Nodes |-> [b \in BlocksOf(n) |-> NULL]]
    /\ entrada = [n \in Nodes |-> <<>>]
    /\ salida = [n \in Nodes |-> <<>>]
    /\ muertes = 0

Request(n, op) == vivo[n] /\ entrada[n] # <<>> /\ Head(entrada[n]).op = op

Answer(n, a) ==
    /\ entrada' = [entrada EXCEPT ![n] = Tail(@)]
    /\ salida' = [salida EXCEPT ![n] = Append(@, a)]

(* set_block: the content is in the file before the answer is sent. *)
SetBlock(n) ==
    /\ Request(n, "SET_BLOQUE")
    /\ disco' = [disco EXCEPT ![n][Head(entrada[n]).idBloque] = Head(entrada[n]).contenido]
    /\ Answer(n, SetBloqueOk)
    /\ UNCHANGED <<vivo, muertes>>

(* get_block: the number of the block in its file comes back with the      *)
(* content; the FileSystem knows the answer by that number only.           *)
GetBlock(n) ==
    /\ Request(n, "GET_BLOQUE")
    /\ LET p == Head(entrada[n])
       IN  Answer(n, GetBloqueOk(p.nroBloque, disco[n][p.idBloque]))
    /\ UNCHANGED <<vivo, disco, muertes>>

(* The end of a DataNode: what it has not read is lost.  What it has       *)
(* answered arrives before the end of the stream, unless unread requests   *)
(* make the kernel reset the connection.                                   *)
EndOf(n, answers) ==
    /\ vivo' = [vivo EXCEPT ![n] = FALSE]
    /\ entrada' = [entrada EXCEPT ![n] = <<>>]
    /\ salida' = [salida EXCEPT ![n] = Append(answers, Closed)]

NodeDies(n) ==
    /\ vivo[n] /\ muertes < MaxDeaths
    /\ muertes' = muertes + 1
    /\ \/ EndOf(n, salida[n])
       \/ entrada[n] # <<>> /\ EndOf(n, <<>>)
    /\ UNCHANGED disco

=============================================================================
