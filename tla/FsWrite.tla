------------------------------ MODULE FsWrite -------------------------------
(***************************************************************************)
(* The state of the FileSystem process, escribirArchivo (cpfrom of the     *)
(* console, final store of a worker) and eliminarArchivo (rm).  Threads    *)
(* share every variable; a step is what a thread does between two points   *)
(* where another one can be seen: one block of the reservation, one        *)
(* message to a node, one wait, one reading or saving of nodos.bin, the    *)
(* metadata, the bitmaps.                                                  *)
(***************************************************************************)
EXTENDS DataNode, FsBlocks

CONSTANTS Hilos,        \* the threads: the console and one for each worker
          Consola,      \* the console, the only one that reads files
          Paths,        \* paths of files
          Contenido,    \* Contenido[f]: what is written to path f
          MaxPedidos    \* bound: how many commands are given

ASSUME FsWriteAssumption ==
    /\ Consola \in Hilos /\ MaxPedidos \in Nat /\ IsFiniteSet(Nodes)
    /\ \A f \in Paths : \/ Contenido[f].tipo = "TEXTO" /\ Contenido[f].lineas \in Seq(Nat)
                        \/ Contenido[f].tipo = "BINARIO" /\ Contenido[f].resto \in Nat

VARIABLES fs,           \* "up", or how the process ended
          libre,        \* libre[n]: t_nodo.libre
          activo,       \* activo[n]: t_nodo.activo
          bitmap,       \* bitmap[n]: the blocks whose bit is set
          nodosBin,     \* the file nodos.bin
          archivos,     \* archivos[f]: the metadata file of f, or NULL
          semEscritura, \* the semaphore that SET_BLOQUE_OK posts
          hilo,         \* hilo[t]: the local variables of thread t
          pedidos       \* commands given, for the bound; whether rm was one

blockVars == <<libre, bitmap, nodosBin, archivos, semEscritura>>

SumOfNodes(f) == MapThenSumSet(LAMBDA n : f[n], Nodes)

Idle(r) ==
    [pc |-> "libre", path |-> NULL, resultado |-> r, leido |-> <<>>,
     activos |-> {}, res |-> <<>>, j |-> 0, anterior |-> NULL, saltear |-> 0,
     i |-> 1, cfg |-> NULL, libera |-> <<>>, info |-> <<>>, exc |-> {}, sel |-> <<>>]

(* An empty file system whose nodes have all connected once; those outside *)
(* conectados have left since.                                             *)
WriteInit(conectados) ==
    /\ fs = "up"
    /\ libre = Total
    /\ activo = [n \in Nodes |-> n \in conectados]
    /\ bitmap = [n \in Nodes |-> {}]
    /\ nodosBin = [libre |-> Total, total |-> SumOfNodes(Total)]
    /\ archivos = [f \in Paths |-> NULL]
    /\ semEscritura = 1
    /\ hilo = [t \in Hilos |-> Idle("NADA")]
    /\ pedidos = [dados |-> 0, borra |-> FALSE]

At(t, pc) == fs = "up" /\ hilo[t].pc = pc

Ends(t, r) == hilo' = [hilo EXCEPT ![t] = Idle(r)]

Order(t, borra) ==
    /\ At(t, "libre") /\ pedidos.dados < MaxPedidos
    /\ pedidos' = [dados |-> pedidos.dados + 1, borra |-> pedidos.borra \/ borra]

(* The two passes over each content, made once. *)
BloquesContados == [f \in Paths |-> ObtenerBloquesNecesarios(Contenido[f])]
BloquesCortados == [f \in Paths |-> BloquesDe(Contenido[f])]

Necesarios(t) == BloquesContados[hilo[t].path]
BloquesDelHilo(t) == BloquesCortados[hilo[t].path]

-----------------------------------------------------------------------------
(* escribirArchivo up to the reservation. *)
EscribirArchivo(t, f) ==
    /\ Order(t, FALSE)
    /\ \/ /\ archivos[f] # NULL
          /\ Ends(t, "ARCHIVO_EXISTENTE")
          /\ UNCHANGED fs
       \/ /\ archivos[f] = NULL /\ RenglonInvalido(Contenido[f])
          /\ fs' = "exit"
          /\ UNCHANGED hilo
       \/ /\ archivos[f] = NULL /\ ~RenglonInvalido(Contenido[f])
          /\ hilo' = [hilo EXCEPT ![t] =
                [Idle("NADA") EXCEPT !.pc = "reserva", !.path = f,
                                     !.activos = {n \in Nodes : activo[n]}]]
          /\ UNCHANGED fs
    /\ UNCHANGED <<blockVars, activo>>

(* obtenerBloquesLibres, one turn of its loop: the node at the offset of   *)
(* the sorted list.  It serves a copy only if it did not serve the block   *)
(* before; otherwise the turn is repeated with the next node.              *)
Reserving(t, n) ==
    /\ At(t, "reserva") /\ hilo[t].j < 2 * Necesarios(t)
    /\ n \in hilo[t].activos
    /\ CanBeAt(hilo[t].activos, libre, n, hilo[t].saltear)
    /\ \E m \in Nodes : activo[m]

FreeOf(t, n) == FreeBlocks(n, BlocksOf(n), bitmap[n], hilo[t].res)

(* Faulty variant of SameNodeAsOriginal: the parity turned round. *)
SameNodeAsOriginalWrong(t, n) == hilo[t].anterior = n /\ ~IsCopy(hilo[t].j)

SameNodeAsOriginal(t, n) == hilo[t].anterior = n /\ IsCopy(hilo[t].j)

ReserveBlock(t, n) ==
    /\ Reserving(t, n) /\ FreeOf(t, n) # {} /\ ~SameNodeAsOriginal(t, n)
    /\ libre' = [libre EXCEPT ![n] = @ - 1]
    /\ hilo' = [hilo EXCEPT
          ![t].res = Append(@, Reserved(n, FirstOf(FreeOf(t, n)))),
          ![t].j = @ + 1, ![t].anterior = n, ![t].saltear = 0]
    /\ UNCHANGED <<fs, activo, bitmap, nodosBin, archivos, semEscritura, pedidos>>

(* Faulty variant of SkipNode: the turn is repeated without the offset. *)
SkipNodeAgain(t, n) ==
    /\ Reserving(t, n) /\ FreeOf(t, n) # {} /\ SameNodeAsOriginal(t, n)
    /\ hilo' = [hilo EXCEPT ![t].saltear = 0]
    /\ UNCHANGED <<fs, blockVars, activo, pedidos>>

SkipNode(t, n) ==
    /\ Reserving(t, n) /\ FreeOf(t, n) # {} /\ SameNodeAsOriginal(t, n)
    /\ hilo' = [hilo EXCEPT ![t].saltear = 1]
    /\ UNCHANGED <<fs, blockVars, activo, pedidos>>

NodeIsFull(t, n) ==
    /\ Reserving(t, n) /\ FreeOf(t, n) = {}
    /\ hilo' = [hilo EXCEPT ![t].j = @ + 1, ![t].saltear = 0]
    /\ UNCHANGED <<fs, blockVars, activo, pedidos>>

(* No node at the offset: the loop is left. *)
NoNodeLeft(t) ==
    /\ At(t, "reserva") /\ hilo[t].j < 2 * Necesarios(t)
    /\ hilo[t].saltear >= Cardinality(hilo[t].activos)
    /\ hilo' = [hilo EXCEPT ![t].j = 2 * Necesarios(t)]
    /\ UNCHANGED <<fs, blockVars, activo, pedidos>>

(* obtenerBitMapBloques finds no bitmap once every node is inactive. *)
NoBitMap(t) ==
    /\ At(t, "reserva") /\ hilo[t].j < 2 * Necesarios(t)
    /\ hilo[t].saltear < Cardinality(hilo[t].activos)
    /\ \A m \in Nodes : ~activo[m]
    /\ fs' = "exit"
    /\ UNCHANGED <<blockVars, activo, hilo, pedidos>>

ReservedOn(res, n) == {b \in BlocksOf(n) : Contains(res, Reserved(n, b))}

(* Faulty variant of RolledBack: the originals are given back, the copies  *)
(* are not.                                                                *)
RolledBackHalf(res) ==
    [n \in Nodes |-> libre[n] + Cardinality({k \in DOMAIN res : res[k].nodo = n /\ ~IsCopy(k)})]

(* What a reservation that fails gives back. *)
RolledBack(res) == [n \in Nodes |-> libre[n] + Cardinality(ReservedOn(res, n))]

SinEspacio(t) ==
    /\ At(t, "reserva") /\ hilo[t].j = 2 * Necesarios(t)
    /\ Len(hilo[t].res) # 2 * Necesarios(t)
    /\ libre' = RolledBack(hilo[t].res)
    /\ Ends(t, "SIN_ESPACIO")
    /\ UNCHANGED <<fs, activo, bitmap, nodosBin, archivos, semEscritura, pedidos>>

BlocksReserved(t) ==
    /\ At(t, "reserva") /\ hilo[t].j = 2 * Necesarios(t)
    /\ Len(hilo[t].res) = 2 * Necesarios(t)
    /\ \/ Necesarios(t) = 0 /\ Ends(t, "SIN_CONTENIDO_ESCRIBIR")
       \/ Necesarios(t) # 0 /\ hilo' = [hilo EXCEPT ![t].pc = "escribe"]
    /\ UNCHANGED <<fs, blockVars, activo, pedidos>>

-----------------------------------------------------------------------------
(* The send of a request.  To a node that died the first is lost, and a    *)
(* later one raises SIGPIPE, which nobody handles.                         *)
SendTo(n, request, next) ==
    \/ /\ vivo[n]
       /\ entrada' = [entrada EXCEPT ![n] = Append(@, request)]
       /\ next /\ UNCHANGED fs
    \/ ~vivo[n] /\ next /\ UNCHANGED <<fs, entrada>>
    \/ ~vivo[n] /\ fs' = "sigpipe" /\ UNCHANGED <<hilo, entrada>>

(* Faulty variant of DataOf: the copy gets the contents of the next block. *)
DataOfShifted(f, i) == [path |-> f, nro |-> i \div 2 + 1]

(* What replica i of the reservation holds: the block of the file. *)
DataOf(f, i) == [path |-> f, nro |-> (i + 1) \div 2]

(* escribirEnDataNode, of the original and of the copy of every block. *)
SendBlock(t) ==
    /\ At(t, "escribe")
    /\ LET h == hilo[t]
           nb == h.res[h.i]
       IN  SendTo(nb.nodo, SetBloque(nb.bloque, DataOf(h.path, h.i)),
                  hilo' = [hilo EXCEPT ![t].pc = "espera"])
    /\ UNCHANGED <<blockVars, activo, pedidos>>

(* Faulty variant of AwaitWrite: the semaphore is decremented without a    *)
(* wait.                                                                   *)
AwaitWriteUnguarded(t) ==
    /\ At(t, "espera")
    /\ semEscritura' = semEscritura - 1
    /\ hilo' = [hilo EXCEPT ![t].pc = "guarda", ![t].cfg = nodosBin]
    /\ UNCHANGED <<fs, libre, activo, bitmap, nodosBin, archivos, pedidos>>

(* sem_wait(&semEscritura), and actualizarConfigNodoEnBin opens the file. *)
AwaitWrite(t) ==
    /\ At(t, "espera") /\ semEscritura > 0
    /\ semEscritura' = semEscritura - 1
    /\ hilo' = [hilo EXCEPT ![t].pc = "guarda", ![t].cfg = nodosBin]
    /\ UNCHANGED <<fs, libre, activo, bitmap, nodosBin, archivos, pedidos>>

(* Faulty variant of UpdatedBin: the reservation already counted, the      *)
(* total is not.                                                           *)
UpdatedBinNode(cfg, n) == [cfg EXCEPT !.libre[n] = libre[n]]

(* The configuration that was read, with the node's count and the total. *)
UpdatedBin(cfg, n) ==
    [libre |-> [cfg.libre EXCEPT ![n] = libre[n]], total |-> cfg.total - 1]

ActualizarConfigNodoEnBin(t) ==
    /\ At(t, "guarda")
    /\ LET h == hilo[t] IN
       /\ nodosBin' = UpdatedBin(h.cfg, h.res[h.i].nodo)
       /\ hilo' = [hilo EXCEPT ![t].i = @ + 1, ![t].cfg = NULL,
             ![t].pc = IF h.i = 2 * Len(BloquesDelHilo(t)) THEN "metadata" ELSE "escribe"]
    /\ UNCHANGED <<fs, libre, activo, bitmap, archivos, semEscritura, pedidos>>

(* Faulty variant of BloquesInfo: the reservation read as the originals    *)
(* followed by the copies.                                                 *)
BloquesInfoHalves(t) ==
    LET len == Len(BloquesDelHilo(t)) IN
    [b \in 1 .. len |->
        Bloque(BloquesDelHilo(t)[b], hilo[t].res[b], hilo[t].res[b + len])]

(* bloquesInfo: the blocks that were written, with their replicas. *)
BloquesInfo(t) ==
    [b \in DOMAIN BloquesDelHilo(t) |->
        Bloque(BloquesDelHilo(t)[b], hilo[t].res[2 * b - 1], hilo[t].res[2 * b])]

CrearArchivoMetadata(t) ==
    /\ At(t, "metadata")
    /\ archivos' = [archivos EXCEPT ![hilo[t].path] =
          [tamanio |-> TamanioArchivo(Contenido[hilo[t].path]), bloques |-> BloquesInfo(t)]]
    /\ hilo' = [hilo EXCEPT ![t].pc = "bitmap"]
    /\ UNCHANGED <<fs, libre, activo, bitmap, nodosBin, semEscritura, pedidos>>

(* Faulty variant of BitsToSet: the originals only. *)
BitsOfOriginals(info) == {info[b].copias[1] : b \in DOMAIN info}

(* The bits to set: the block of every original and of every copy. *)
BitsToSet(info) == {info[b].copias[c] : b \in DOMAIN info, c \in 1 .. 2}

ActualizarBitMapBloques(t) ==
    /\ At(t, "bitmap")
    /\ bitmap' = [n \in Nodes |-> bitmap[n] \cup
          {b \in BlocksOf(n) : Reserved(n, b) \in BitsToSet(BloquesInfo(t))}]
    /\ Ends(t, "OK")
    /\ UNCHANGED <<fs, libre, activo, nodosBin, archivos, semEscritura, pedidos>>

-----------------------------------------------------------------------------
(* eliminarArchivo (rm of the console): the metadata goes first, then the  *)
(* bit and the count of every replica, and nodos.bin after each.           *)
Replicas(info) == [k \in 1 .. 2 * Len(info) |-> info[(k + 1) \div 2].copias[2 - (k % 2)]]

EliminarArchivo(t, f) ==
    /\ t = Consola /\ Order(t, archivos[f] # NULL)
    /\ \/ archivos[f] = NULL /\ Ends(t, "NO_EXISTE") /\ UNCHANGED archivos
       \/ /\ archivos[f] # NULL
          /\ archivos' = [archivos EXCEPT ![f] = NULL]
          /\ hilo' = [hilo EXCEPT ![t] = [Idle("NADA") EXCEPT !.pc = "libera",
                !.path = f, !.libera = Replicas(archivos[f].bloques)]]
    /\ UNCHANGED <<fs, libre, bitmap, nodosBin, semEscritura, activo>>

LiberarBloque(t) ==
    /\ At(t, "libera")
    /\ LET r == hilo[t].libera[hilo[t].i] IN
       /\ bitmap' = [bitmap EXCEPT ![r.nodo] = @ \ {r.bloque}]
       /\ libre' = [libre EXCEPT ![r.nodo] = @ + 1]
       /\ hilo' = [hilo EXCEPT ![t].pc = "guardaLibre", ![t].cfg = nodosBin]
    /\ UNCHANGED <<fs, activo, nodosBin, archivos, semEscritura, pedidos>>

(* actualizarConfigNodoEnBin again, which takes one off the total. *)
GuardarLibre(t) ==
    /\ At(t, "guardaLibre")
    /\ LET h == hilo[t] IN
       /\ nodosBin' = UpdatedBin(h.cfg, h.libera[h.i].nodo)
       /\ IF h.i = Len(h.libera) THEN Ends(t, "ELIMINADO")
          ELSE hilo' = [hilo EXCEPT ![t].i = @ + 1, ![t].pc = "libera", ![t].cfg = NULL]
    /\ UNCHANGED <<fs, libre, activo, bitmap, archivos, semEscritura, pedidos>>

(* The steps of both commands that leave every socket alone. *)
WriteLocally(t) ==
    \/ LiberarBloque(t) \/ GuardarLibre(t)
    \/ \E n \in Nodes : ReserveBlock(t, n) \/ SkipNode(t, n) \/ NodeIsFull(t, n)
    \/ NoNodeLeft(t) \/ NoBitMap(t) \/ SinEspacio(t) \/ BlocksReserved(t)
    \/ AwaitWrite(t) \/ ActualizarConfigNodoEnBin(t)
    \/ CrearArchivoMetadata(t) \/ ActualizarBitMapBloques(t)

=============================================================================
