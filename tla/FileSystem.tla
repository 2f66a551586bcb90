----------------------------- MODULE FileSystem -----------------------------
(***************************************************************************)
(* The FileSystem and its DataNodes: the threads that write and read       *)
(* files, the threads that take answers, the nodes, and what must hold of  *)
(* blocks, free counts, nodos.bin and the files that are read back.        *)
(***************************************************************************)
EXTENDS FsRead

fsVars == <<fs, blockVars, activo, hilo, pedidos, lista, atencion>>
vars == <<fsVars, dataNodeVars>>

Init == \E conectados \in SUBSET Nodes :
    DataNodeInit(conectados) /\ WriteInit(conectados) /\ ReadInit(conectados)

(* A command is given to a thread that has none. *)
Command(t) ==
    \/ \E f \in Paths : EscribirArchivo(t, f) /\ UNCHANGED <<lista, atencion, dataNodeVars>>
    \/ \E f \in Paths : EliminarArchivo(t, f) /\ UNCHANGED <<lista, atencion, dataNodeVars>>
    \/ \E f \in Paths : LeerArchivo(t, f) /\ UNCHANGED dataNodeVars

(* The thread goes on with its command. *)
ThreadStep(t) ==
    \/ WriteLocally(t) /\ UNCHANGED <<lista, atencion, dataNodeVars>>
    \/ ReadLocally(t) /\ UNCHANGED dataNodeVars
    \/ SendBlock(t) /\ UNCHANGED <<lista, atencion, vivo, disco, salida, muertes>>
    \/ PedirBloque(t) /\ UNCHANGED <<vivo, disco, salida, muertes>>

NodeStep(n) == (SetBlock(n) \/ GetBlock(n)) /\ UNCHANGED fsVars

NodeLost(n) == NodeDies(n) /\ UNCHANGED fsVars

Next ==
    \/ \E t \in Hilos : Command(t) \/ ThreadStep(t)
    \/ \E n \in Nodes : Atender(n) \/ NodeStep(n) \/ NodeLost(n)

Spec == Init /\ [][Next]_vars

(* Threads are scheduled and nodes serve; nobody is made to give commands  *)
(* or to die.                                                              *)
FairSpec ==
    /\ Spec
    /\ \A t \in Hilos : WF_vars(ThreadStep(t))
    /\ \A n \in Nodes : WF_vars(Atender(n)) /\ WF_vars(NodeStep(n))

-----------------------------------------------------------------------------
(* What the variables hold. *)
Datos == [path : Paths, nro : Nat]
Replica == {r \in [nodo : Nodes, bloque : Nat] : r.bloque \in BlocksOf(r.nodo)}
Bloques == [finBytes : Nat, copias : Replica \X Replica]
Metadata(f) == [tamanio : {TamanioArchivo(Contenido[f])}, bloques : Seq(Bloques)]
Config == [libre : [Nodes -> Int], total : Int]
Lecturas == [nroBloque : Nat, idNodo : Nodes, oks : Nat, fallo : BOOLEAN,
             lectura : Datos \cup {NULL}]
Pedidos(n) == [op : {"SET_BLOQUE"}, idBloque : BlocksOf(n), contenido : Datos]
              \cup [op : {"GET_BLOQUE"}, idBloque : BlocksOf(n), nroBloque : Nat]
Respuestas == [op : {"SET_BLOQUE_OK", "FIN"}]
              \cup [op : {"GET_BLOQUE_OK"}, nroBloque : Nat, contenido : Datos \cup {NULL}]

ASSUME FileSystemAssumption ==
    NULL \notin Datos /\ NULL \notin Seq(Lecturas) /\ \A f \in Paths : NULL \notin Metadata(f)

(* Where a thread is: in no command, in a write, in a removal, in a read. *)
Escribiendo == {"reserva", "escribe", "espera", "guarda", "metadata", "bitmap"}
Liberando == {"libera", "guardaLibre"}
Leyendo == {"elige", "prepara", "pide", "aguarda", "revisa", "arma"}

LocalesDeHilo ==
    [pc : {"libre"} \cup Escribiendo \cup Liberando \cup Leyendo,
     path : Paths \cup {NULL},
     resultado : {"NADA", "OK", "ARCHIVO_EXISTENTE", "SIN_ESPACIO", "SIN_CONTENIDO_ESCRIBIR",
                  "NO_EXISTE", "ELIMINADO", "NODO_DESCONECTADO", "LEIDO"},
     leido : Seq(Datos \cup {NULL}), activos : SUBSET Nodes, res : Seq(Replica), j : Nat,
     anterior : Nodes \cup {NULL}, saltear : 0 .. 1, i : Nat \ {0}, cfg : Config \cup {NULL},
     libera : Seq(Replica), info : Seq(Bloques), exc : SUBSET Nodes, sel : Seq(Nodes)]

(* Every variable has its type: those of the process, those of the nodes   *)
(* and the local ones of the threads.                                      *)
ProcessTypeOK ==
    /\ fs \in {"up", "exit", "sigpipe", "segfault"}
    /\ libre \in [Nodes -> Int] /\ activo \in [Nodes -> BOOLEAN] /\ nodosBin \in Config
    /\ atencion \in [Nodes -> {"escucha", "desconecta", "fin"}]
    /\ bitmap = [n \in Nodes |-> bitmap[n]] /\ archivos = [f \in Paths |-> archivos[f]]
    /\ \A n \in Nodes : bitmap[n] \subseteq BlocksOf(n)
    /\ \A f \in Paths : archivos[f] \in Metadata(f) \cup {NULL}
    /\ semEscritura \in Nat /\ pedidos \in [dados : Nat, borra : BOOLEAN]
    /\ lista \in Seq(Lecturas) \cup {NULL}

NodesTypeOK ==
    /\ vivo \in [Nodes -> BOOLEAN] /\ salida \in [Nodes -> Seq(Respuestas)] /\ muertes \in Nat
    /\ disco = [n \in Nodes |-> disco[n]] /\ entrada = [n \in Nodes |-> entrada[n]]
    /\ \A n \in Nodes : disco[n] \in [BlocksOf(n) -> Datos \cup {NULL}]
    /\ \A n \in Nodes : entrada[n] \in Seq(Pedidos(n))

TypeOK == ProcessTypeOK /\ NodesTypeOK /\ hilo \in [Hilos -> LocalesDeHilo]

Listed(f) ==
    IF archivos[f] = NULL THEN {}
    ELSE {archivos[f].bloques[b].copias[c] : b \in DOMAIN archivos[f].bloques, c \in 1 .. 2}

(* No command is in course. *)
SinOrdenes == fs = "up" /\ \A t \in Hilos : hilo[t].pc = "libre"

ReservedBy(t) == {hilo[t].res[k] : k \in DOMAIN hilo[t].res}

(* A block of a node belongs to one file: the replicas of two files, of a  *)
(* file and of the reservation of a writer of another one, or of two       *)
(* writers, are never the same block.  fs_comandos.c:65 writes "en los     *)
(* bloques reservados", but the bits are set when everything is written.   *)
NoBlockShared ==
    /\ \A f, g \in Paths : f # g => Listed(f) \cap Listed(g) = {}
    /\ \A t \in Hilos, f \in Paths : hilo[t].path # f => ReservedBy(t) \cap Listed(f) = {}
    /\ \A t, u \in Hilos : t # u => ReservedBy(t) \cap ReservedBy(u) = {}

(* Within a file too every replica is a block of its own, and the copy of  *)
(* a block is on another node than its original, whatever nodes were full  *)
(* or tied when they were reserved.                                        *)
CopiesApart ==
    \A f \in Paths : archivos[f] # NULL =>
        LET info == archivos[f].bloques IN
        /\ Cardinality(Listed(f)) = 2 * Len(info)
        /\ \A b \in DOMAIN info : Cardinality(HoldersOf(info[b])) = 2

(* The free count of a node is the number of its blocks that no bit and no *)
(* reservation in course takes, and between commands the bits are those of *)
(* the blocks that files list: neither a failed reservation, nor a write,  *)
(* nor the removal of a file loses or gains room.                          *)
LibreIsFreeBlocks ==
    \A n \in Nodes :
        /\ libre[n] = Total[n] - Cardinality(bitmap[n] \cup
                      UNION {ReservedOn(hilo[t].res, n) : t \in Hilos})
        /\ SinOrdenes => bitmap[n] = {b \in BlocksOf(n) :
                             \E f \in Paths : Reserved(n, b) \in Listed(f)}

RoomFor(free, k, activos) ==
    MapThenSumSet(LAMBDA n : IF free[n] < k THEN free[n] ELSE k, activos) >= 2 * k

(* A write is refused for lack of room only if the blocks do not fit: with *)
(* at most one replica of each block on a node, the free blocks of the     *)
(* active nodes are too few.  The greedy choice of obtenerBloquesLibres    *)
(* never fails where another choice would do.                              *)
RefusedOnlyWithoutRoom ==
    [][\A t \in Hilos : SinEspacio(t) =>
          ~RoomFor(libre', Necesarios(t), hilo[t].activos)]_vars

(* Between commands nodos.bin holds the counts in memory, although it is   *)
(* read, changed and saved entry by entry, and their sum, although that is *)
(* updated by decrements; a removal decrements it too, and it is less      *)
(* than the sum ever after.                                                *)
BinIsTrue ==
    SinOrdenes =>
        /\ nodosBin.libre = libre
        /\ nodosBin.total <= SumOfNodes(libre)
        /\ ~pedidos.borra => nodosBin.total = SumOfNodes(libre)

(* Every replica that a file lists is on its node with the block's data,   *)
(* or on its way there, unless the node died: the metadata is written when *)
(* the last answer may still be missing.                                   *)
StoredOrSent ==
    \A f \in Paths : archivos[f] # NULL =>
        \A b \in DOMAIN archivos[f].bloques, c \in 1 .. 2 :
            LET r == archivos[f].bloques[b].copias[c]
                data == [path |-> f, nro |-> b]
            IN  vivo[r.nodo] => \/ disco[r.nodo][r.bloque] = data
                                \/ Contains(entrada[r.nodo], SetBloque(r.bloque, data))

(* The selection of nodes fails exactly when every holder of some block is *)
(* excluded: the resets of uso and the bound on the iterations lose no     *)
(* file that can be read.                                                  *)
SelectionFindsReplica ==
    \A t \in Hilos : hilo[t].pc = "elige" =>
        (ObtenerNodosALeer(BloquesLeidos(t), hilo[t].exc) = {}
         <=> \E b \in DOMAIN BloquesLeidos(t) : HoldersOf(BloquesLeidos(t)[b]) \subseteq hilo[t].exc)

NobodyDied == \A n \in Nodes : vivo[n]

(* A read that succeeds has received something for every block, also when  *)
(* a node dies between its requests, its answers and their check; while    *)
(* none has, what it returns are the blocks of its file, in their order,   *)
(* even if it follows a write whose answers are still missing, into blocks *)
(* that a removed file had.                                                *)
ReadsWhatWasWritten ==
    \A t \in Hilos : hilo[t].resultado = "LEIDO" =>
        /\ \A i \in DOMAIN hilo[t].leido : hilo[t].leido[i] # NULL
        /\ NobodyDied =>
              hilo[t].leido = [b \in DOMAIN archivos[hilo[t].path].bloques |->
                                  [path |-> hilo[t].path, nro |-> b]]

(* Every command ends, unless a node dies or the process does: no thread   *)
(* waits for an answer that was counted for another request.               *)
CommandsEnd ==
    \A t \in Hilos : hilo[t].pc # "libre" ~> (hilo[t].pc = "libre" \/ fs # "up" \/ ~NobodyDied)

=============================================================================
