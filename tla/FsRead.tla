------------------------------- MODULE FsRead -------------------------------
(***************************************************************************)
(* leerArchivo (cat, cpto and md5 of the console) and the threads that     *)
(* take the answers of the nodes (connection_handler_nodo).  Both use the  *)
(* global list lista; what they do under semLista is one step.             *)
(***************************************************************************)
EXTENDS FsWrite

VARIABLES lista,        \* the t_lectura of the read in course, or NULL
          atencion      \* atencion[n]: the thread that handles node n

ReadInit(conectados) ==
    /\ lista = NULL
    /\ atencion = [n \in Nodes |-> IF n \in conectados THEN "escucha" ELSE "fin"]

(* archivo->bloques: the metadata is read once, when the command begins. *)
BloquesLeidos(t) == hilo[t].info

Lectura(nro, n) == [nroBloque |-> nro, idNodo |-> n, oks |-> 0,
                    fallo |-> FALSE, lectura |-> NULL]

(* obtenerArchivoInfo: the file exists once its metadata does. *)
LeerArchivo(t, f) ==
    /\ t = Consola /\ Order(t, FALSE)
    /\ \/ archivos[f] = NULL /\ Ends(t, "NO_EXISTE")
       \/ /\ archivos[f] # NULL
          /\ hilo' = [hilo EXCEPT ![t] =
                [Idle("NADA") EXCEPT !.pc = "elige", !.path = f, !.info = archivos[f].bloques]]
    /\ UNCHANGED <<fs, blockVars, activo, lista, atencion>>

(* The selection, and a new lista for it. *)
ElegirNodos(t) ==
    /\ At(t, "elige")
    /\ \E sel \in ObtenerNodosALeer(BloquesLeidos(t), hilo[t].exc) :
          hilo' = [hilo EXCEPT ![t].pc = "prepara", ![t].sel = sel]
    /\ lista' = <<>>
    /\ UNCHANGED <<fs, blockVars, activo, atencion, pedidos>>

NoHayNodos(t) ==
    /\ At(t, "elige")
    /\ ObtenerNodosALeer(BloquesLeidos(t), hilo[t].exc) = {}
    /\ Ends(t, "NODO_DESCONECTADO")
    /\ UNCHANGED <<fs, blockVars, activo, lista, atencion, pedidos>>

(* The entries of lista, added without semLista. *)
PrepararLectura(t) ==
    /\ At(t, "prepara")
    /\ lista' = Append(lista, Lectura(Len(lista) + 1, hilo[t].sel[Len(lista) + 1]))
    /\ hilo' = [hilo EXCEPT ![t].i = 1,
          ![t].pc = IF Len(lista') = Len(hilo[t].sel) THEN "pide" ELSE "prepara"]
    /\ UNCHANGED <<fs, blockVars, activo, atencion, pedidos>>

(* A node that is no longer listed: it is excluded and the read restarts.  *)
ExcluirNodo(t) ==
    /\ At(t, "pide")
    /\ LET n == lista[hilo[t].i].idNodo IN
       /\ ~activo[n]
       /\ hilo' = [hilo EXCEPT ![t].exc = @ \cup {n}, ![t].pc = "elige"]
    /\ UNCHANGED <<fs, blockVars, activo, lista, atencion, pedidos>>

NextWait(h, last) == IF h.i = last THEN [h EXCEPT !.i = 1] ELSE [h EXCEPT !.i = @ + 1]

(* leerDeDataNode for block i. *)
PedirBloque(t) ==
    /\ At(t, "pide")
    /\ LET h == hilo[t]
           n == lista[h.i].idNodo
           last == Len(BloquesLeidos(t))
       IN  /\ activo[n]
           /\ SendTo(n, GetBloque(IdBloqueOn(BloquesLeidos(t)[h.i], n), h.i),
                     hilo' = [hilo EXCEPT ![t] = NextWait(h, last),
                                ![t].pc = IF h.i = last THEN "aguarda" ELSE "pide"])
    /\ UNCHANGED <<blockVars, activo, lista, atencion, pedidos>>

(* sem_wait(&lect->lecturaOk) for every block in turn. *)
EsperarLectura(t) ==
    /\ At(t, "aguarda")
    /\ LET h == hilo[t]
           last == Len(BloquesLeidos(t))
       IN  /\ lista[h.i].oks > 0
           /\ lista' = [lista EXCEPT ![h.i].oks = @ - 1]
           /\ hilo' = [hilo EXCEPT ![t] = NextWait(h, last),
                         ![t].pc = IF h.i = last THEN "revisa" ELSE "aguarda"]
    /\ UNCHANGED <<fs, blockVars, activo, atencion, pedidos>>

SomeReadFailed == \E i \in DOMAIN lista : lista[i].fallo

(* The check of lectFallo.  A read that failed leaves its lista behind. *)
RevisarLectura(t) ==
    /\ At(t, "revisa")
    /\ \/ SomeReadFailed /\ Ends(t, "NODO_DESCONECTADO")
       \/ ~SomeReadFailed /\ hilo' = [hilo EXCEPT ![t].pc = "arma"]
    /\ UNCHANGED <<fs, blockVars, activo, lista, atencion, pedidos>>

ArmarRespuesta(t) ==
    /\ At(t, "arma")
    /\ hilo' = [hilo EXCEPT ![t] =
          [Idle("LEIDO") EXCEPT !.path = hilo[t].path,
                                !.leido = [i \in DOMAIN lista |-> lista[i].lectura]]]
    /\ lista' = NULL
    /\ UNCHANGED <<fs, blockVars, activo, atencion, pedidos>>

ReadLocally(t) ==
    \/ ElegirNodos(t) \/ NoHayNodos(t) \/ PrepararLectura(t) \/ ExcluirNodo(t)
    \/ EsperarLectura(t) \/ RevisarLectura(t) \/ ArmarRespuesta(t)

-----------------------------------------------------------------------------
(* connection_handler_nodo and procesarPedidoNodo. *)
Arrives(n, op) ==
    /\ fs = "up" /\ atencion[n] = "escucha"
    /\ salida[n] # <<>> /\ Head(salida[n]).op = op

Taken(n) == salida' = [salida EXCEPT ![n] = Tail(@)]

EscrituraOk(n) ==
    /\ Arrives(n, "SET_BLOQUE_OK")
    /\ Taken(n)
    /\ semEscritura' = semEscritura + 1
    /\ UNCHANGED <<fs, libre, activo, bitmap, nodosBin, archivos, hilo, pedidos,
                   lista, atencion, vivo, disco, entrada, muertes>>

Matching(nro) == {i \in DOMAIN lista : lista[i].nroBloque = nro}

(* The answer of block nro: it goes to the entry of lista with that number *)
(* whatever node or file it was asked for.                                 *)
LecturaOk(n) ==
    /\ Arrives(n, "GET_BLOQUE_OK") /\ lista # NULL
    /\ LET a == Head(salida[n]) IN
       /\ Matching(a.nroBloque) # {}
       /\ lista' = [i \in DOMAIN lista |->
             IF i \in Matching(a.nroBloque)
             THEN [lista[i] EXCEPT !.lectura = a.contenido, !.oks = @ + 1]
             ELSE lista[i]]
    /\ Taken(n)
    /\ UNCHANGED <<fs, blockVars, activo, hilo, pedidos, atencion, vivo, disco, entrada, muertes>>

(* No read in course: list_size of a null list. *)
LecturaSinLista(n) ==
    /\ Arrives(n, "GET_BLOQUE_OK") /\ lista = NULL
    /\ fs' = "segfault"
    /\ UNCHANGED <<blockVars, activo, hilo, pedidos, lista, atencion, dataNodeVars>>

(* No entry with that number: the content stays in the stream, is taken    *)
(* for an operation nobody knows, and the socket is closed; the DataNode   *)
(* then ends.                                                              *)
PedidoInvalido(n) ==
    /\ Arrives(n, "GET_BLOQUE_OK") /\ lista # NULL
    /\ Matching(Head(salida[n]).nroBloque) = {}
    /\ EndOf(n, <<>>)
    /\ UNCHANGED <<fs, blockVars, activo, hilo, pedidos, lista, atencion, disco, muertes>>

(* The end of the stream: every entry of lista fails, whatever its node. *)
NodoDesconectado(n) ==
    /\ Arrives(n, "FIN")
    /\ Taken(n)
    /\ atencion' = [atencion EXCEPT ![n] = "desconecta"]
    /\ lista' = IF lista = NULL THEN NULL
                ELSE [i \in DOMAIN lista |-> [lista[i] EXCEPT !.fallo = TRUE, !.oks = @ + 1]]
    /\ UNCHANGED <<fs, blockVars, activo, hilo, pedidos, vivo, disco, entrada, muertes>>

(* Only then is the node marked as not connected. *)
EliminarNodo(n) ==
    /\ fs = "up" /\ atencion[n] = "desconecta"
    /\ atencion' = [atencion EXCEPT ![n] = "fin"]
    /\ activo' = [activo EXCEPT ![n] = FALSE]
    /\ UNCHANGED <<fs, blockVars, hilo, pedidos, lista, dataNodeVars>>

Atender(n) ==
    \/ EscrituraOk(n) \/ LecturaOk(n) \/ LecturaSinLista(n) \/ PedidoInvalido(n)
    \/ NodoDesconectado(n) \/ EliminarNodo(n)

=============================================================================
