----------------------------- MODULE FsServidor ------------------------------
(***************************************************************************)
(* The server of the FileSystem and its DataNodes: the accept thread, one  *)
(* handler thread for each connection, and what must hold of the list of   *)
(* nodes, of the table of files and of the stable state.                   *)
(***************************************************************************)
EXTENDS FsNodes

(* A DataNode starts and connects to the FileSystem. *)
Conectar(n, s) ==
    /\ conexion[s].estado = "no" /\ \A r \in 1 .. s - 1 : conexion[r].estado # "no"
    /\ \A r \in Sockets : conexion[r].nodo = n => conexion[r].estado # "abierta"
    /\ conexion' = [conexion EXCEPT ![s] = [nodo |-> n, estado |-> "abierta"]]
    /\ cola' = Append(cola, s)
    /\ UNCHANGED <<estadoVars, tablaVars, anteriores, nodos, nodosBin, servidor,
                   manejador, historiaNodos>>

(* It ends, perhaps before it was accepted. *)
Caer(s) ==
    /\ conexion[s].estado = "abierta"
    /\ Cardinality({r \in Sockets : conexion[r].estado = "cerrada"}) < MaxCaidas
    /\ conexion' = [conexion EXCEPT ![s].estado = "cerrada"]
    /\ UNCHANGED <<estadoVars, tablaVars, anteriores, nodos, nodosBin, cola, servidor,
                   manejador, historiaNodos>>

-----------------------------------------------------------------------------
(* lanzarHiloServidor, for a handshake NODE_HSK.                           *)

Llega(s) == servidor.pc = "accept" /\ cola # <<>> /\ s = Head(cola) /\ cola' = Tail(cola)

(* Faulty variant of Rechazable: a node that is connected is taken. *)
RechazableAnterior(n) == vieneDeNoEstado = 0 /\ n \notin nodosBin

(* A node of no earlier state (nodoPerteneceAEstadoAnterior), or one that  *)
(* is connected already.                                                   *)
Rechazable(n) ==
    \/ vieneDeNoEstado = 0 /\ n \notin nodosBin
    \/ BuscarNodoPorId(n)

Rechazar(s) ==
    /\ Llega(s) /\ Rechazable(conexion[s].nodo)
    /\ conexion' = [conexion EXCEPT ![s].estado = "rechazada"]
    /\ UNCHANGED <<estadoVars, tablaVars, anteriores, nodos, nodosBin, servidor,
                   manejador, historiaNodos>>

(* HSK_OK and the thread that handles the node, which runs from now on. *)
Aceptar(s) ==
    /\ Llega(s) /\ ~Rechazable(conexion[s].nodo)
    /\ manejador' = [manejador EXCEPT ![s].pc = "recv"]
    /\ servidor' = [Parado EXCEPT !.socket = s,
          !.pc = IF vieneDeNoEstado = 1 THEN "agregaNuevo" ELSE "agregaAnterior"]
    /\ temprano' = (temprano \/ principal.pc \in {"inicio", "tabla"})
    /\ UNCHANGED <<estadoVars, tablaVars, anteriores, nodos, nodosBin, conexion, choque>>

NodoAceptado == conexion[servidor.socket].nodo

(* Only now is it listed; guardarConfigNodoEnBin writes the whole list. *)
AgregarNuevo ==
    /\ servidor.pc = "agregaNuevo"
    /\ nodos' = Agregado(NodoAceptado, servidor.socket)
    /\ nodosBin' = nodosBin \cup {nodos'[i].id : i \in DOMAIN nodos'}
    /\ nodoInit' = nodoInit + 1
    /\ servidor' = Parado
    /\ UNCHANGED <<principal, vieneDeNoEstado, estadoEstable, tablaVars, anteriores,
                   redVars, manejador, historiaNodos>>

(* What thread r goes on with after block b: the next block of node n,     *)
(* whose count it reads, or nothing.                                       *)
Continua(r, b, n) ==
    LET c == Siguiente(b, n)
    IN  [r EXCEPT !.bloque = c, !.leido = IF c = Fin THEN 0 ELSE cantInstancias'[c]]

(* The accept thread goes on with habilitarBloques, or accepts again. *)
SigueHabilitando(b, n) ==
    servidor' = IF Siguiente(b, n) = Fin THEN Parado
                ELSE Continua([servidor EXCEPT !.pc = "habilita"], b, n)

AgregarAnterior ==
    /\ servidor.pc = "agregaAnterior"
    /\ nodos' = Agregado(NodoAceptado, servidor.socket)
    /\ UNCHANGED <<estadoVars, tablaVars, anteriores, nodosBin, redVars, manejador, historiaNodos>>
    /\ SigueHabilitando(0, NodoAceptado)

(* Two threads may update a count at the same time, as none takes a lock:  *)
(* the one that writes last wins.                                          *)
Contar(r, d) ==
    /\ cantInstancias' = [cantInstancias EXCEPT ![r.bloque] = r.leido + d]
    /\ choque' = IF cantInstancias[r.bloque] = r.leido THEN choque ELSE choque \cup {r.bloque}

(* Faulty variant of HabilitarBloque: the main thread is not told. *)
HabilitarSinPost(b) ==
    /\ servidor.pc = "habilita" /\ b = servidor.bloque
    /\ Contar(servidor, 1)
    /\ SigueHabilitando(b, NodoAceptado)
    /\ UNCHANGED <<estadoVars, tablaArchivos, semaforo, anteriores, nodos, nodosBin,
                   redVars, manejador, temprano>>

(* habilitarBloques, for one block of the node. *)
HabilitarBloque(b) ==
    /\ servidor.pc = "habilita" /\ b = servidor.bloque
    /\ Contar(servidor, 1)
    /\ semaforo' = [semaforo EXCEPT ![b] = @ + 1]
    /\ SigueHabilitando(b, NodoAceptado)
    /\ UNCHANGED <<estadoVars, tablaArchivos, anteriores, nodos, nodosBin, redVars,
                   manejador, temprano>>

Servidor ==
    \/ \E s \in Sockets : Rechazar(s) \/ Aceptar(s)
    \/ AgregarNuevo \/ AgregarAnterior
    \/ \E b \in IndicesDeBloque : HabilitarBloque(b)

-----------------------------------------------------------------------------
(* connection_handler_nodo, when recv finds the end of the stream.         *)

(* The node is looked up by its socket among those listed as connected. *)
NodoDesconectado(s) ==
    /\ manejador[s].pc = "recv" /\ conexion[s].estado = "cerrada"
    /\ UNCHANGED <<estadoVars, tablaVars, anteriores, nodos, nodosBin, redVars,
                   servidor, historiaNodos>>
    /\ LET n == BuscarNodoPorSocket(s)
           h == [manejador[s] EXCEPT !.pc = "resta", !.nodo = n]
       IN  manejador' = [manejador EXCEPT ![s] = IF n = NINGUNO THEN h ELSE Continua(h, 0, n)]

(* Faulty variant of DeshabilitarBloque: the last block of the table is    *)
(* left out.                                                               *)
DeshabilitarMenosUno(s) ==
    /\ manejador[s].pc = "resta" /\ manejador[s].bloque \in IndicesDeBloque
    /\ IF manejador[s].bloque = Len(Bloques) THEN UNCHANGED <<cantInstancias, choque>>
       ELSE Contar(manejador[s], -1)
    /\ manejador' = [manejador EXCEPT ![s] = Continua(@, @.bloque, @.nodo)]
    /\ UNCHANGED <<estadoVars, tablaArchivos, semaforo, anteriores, nodos, nodosBin,
                   redVars, servidor, temprano>>

(* One instance less of one block of the node. *)
DeshabilitarBloque(s) ==
    /\ manejador[s].pc = "resta" /\ manejador[s].bloque \in IndicesDeBloque
    /\ Contar(manejador[s], -1)
    /\ manejador' = [manejador EXCEPT ![s] = Continua(@, @.bloque, @.nodo)]
    /\ UNCHANGED <<estadoVars, tablaArchivos, semaforo, anteriores, nodos, nodosBin,
                   redVars, servidor, temprano>>

(* The entry stays in the list, as not connected; the thread ends. *)
EliminarNodo(s) ==
    /\ manejador[s].pc = "resta" /\ manejador[s].bloque = Fin
    /\ nodos' = Desactivado(manejador[s].nodo)
    /\ manejador' = [manejador EXCEPT ![s] = [SinHilo EXCEPT !.pc = "fin"]]
    /\ UNCHANGED <<estadoVars, tablaVars, anteriores, nodosBin, redVars, servidor, historiaNodos>>

Manejador(s) == NodoDesconectado(s) \/ DeshabilitarBloque(s) \/ EliminarNodo(s)

-----------------------------------------------------------------------------
ServidorNext ==
    \/ Principal
    \/ \E n \in Nodes, s \in Sockets : Conectar(n, s)
    \/ \E s \in Sockets : Caer(s)
    \/ Servidor
    \/ \E s \in Sockets : Manejador(s)

ServidorSpec == ServidorInit /\ [][ServidorNext]_servidorVars

(* The main thread and the one that accepts are scheduled; no node is made *)
(* to connect or to leave, and no handler is made to notice it.            *)
ServidorFairSpec == ServidorSpec /\ WF_servidorVars(Principal) /\ WF_servidorVars(Servidor)

-----------------------------------------------------------------------------
EstadoPrincipal == [pc : {"inicio", "nodos", "tabla", "bloques", "consola"}, i : Nat]
Nodo == [id : Nodes, socketNodo : Sockets, activo : BOOLEAN]
Conexion == [nodo : Nodes \cup {NINGUNO}, estado : {"no", "abierta", "cerrada", "rechazada"}]
HiloServidor == [pc : {"accept", "agregaNuevo", "agregaAnterior", "habilita"},
                 socket : Sockets \cup {0}, bloque : 1 .. Fin, leido : Int]
HiloNodo == [pc : {"no", "recv", "resta", "fin"},
             nodo : Nodes \cup {NINGUNO}, bloque : 1 .. Fin, leido : Int]

(* One entry of the list for each node: one that comes back takes the      *)
(* place it had.                                                           *)
UnaEntradaPorNodo ==
    /\ \A i, j \in DOMAIN nodos : nodos[i].id = nodos[j].id => i = j
    /\ \A i \in DOMAIN nodos : conexion[nodos[i].socketNodo].nodo = nodos[i].id

(* Types, and the list has one entry for each node, of one of its own      *)
(* connections.                                                            *)
ServidorOK ==
    /\ principal \in EstadoPrincipal
    /\ vieneDeNoEstado \in {0, 1} /\ estadoEstable \in {0, 1} /\ nodoInit \in Nat
    /\ anteriores \subseteq IndicesDeBloque /\ tablaArchivos \subseteq IndicesDeBloque
    /\ cantInstancias \in [IndicesDeBloque -> Int] /\ semaforo \in [IndicesDeBloque -> Nat]
    /\ nodos \in Seq(Nodo) /\ nodosBin \subseteq Nodes
    /\ conexion \in [Sockets -> Conexion] /\ cola \in Seq(Sockets)
    /\ servidor \in HiloServidor /\ manejador \in [Sockets -> HiloNodo]
    /\ temprano \in BOOLEAN /\ choque \subseteq IndicesDeBloque
    /\ UnaEntradaPorNodo

(* A handler thread that has not taken its node off the list yet. *)
EnCurso(s) == manejador[s].pc \in {"recv", "resta"}

(* A node has at most one such thread, whatever the order in which it      *)
(* leaves, comes back and is listed: its blocks are never taken off twice. *)
UnHiloPorNodo ==
    \A s, t \in Sockets :
        EnCurso(s) /\ EnCurso(t) /\ conexion[s].nodo = conexion[t].nodo => s = t

(* The nodes that are listed as connected. *)
Activos == {nodos[i].id : i \in {j \in DOMAIN nodos : nodos[j].activo}}

(* No thread is in the middle of an update. *)
Quieto == servidor.pc = "accept" /\ \A s \in Sockets : manejador[s].pc # "resta"

(* When every thread is done with what happened, the instances counted of  *)
(* a block are the connected nodes that hold it; it is why a file can be   *)
(* told to be available without a look at the nodes.  Left out are blocks  *)
(* of which two threads updated the count at once, as no lock is taken,    *)
(* and a node that was accepted before the table of files was made.        *)
InstanciasSonNodosActivos ==
    Quieto /\ ~temprano =>
        \A b \in tablaArchivos \ choque :
            cantInstancias[b] = Cardinality({n \in Activos : Holds(b, n)})

(* The stable state is announced with two nodes connected, or with every   *)
(* file of the earlier state available, as long as no node left before.    *)
EstableConDatos ==
    [][ (estadoEstable = 0 /\ estadoEstable' = 1 /\ \A s \in Sockets : conexion[s].estado # "cerrada")
          => IF vieneDeNoEstado = 1 THEN Cardinality(Activos) >= CantNodosEspera
             ELSE \A b \in IndicesDeBloque :
                    EstadoArchivo(Bloques[b].archivo) = 0 /\ \E n \in Activos : Holds(b, n)
      ]_servidorVars

(* What the main thread waits for is there. *)
ConDatos ==
    \/ vieneDeNoEstado = 1 /\ Cardinality(Activos) >= CantNodosEspera
    \/ vieneDeNoEstado = 0 /\ anteriores # {}
         /\ \A b \in IndicesDeBloque : \E n \in Activos : Holds(b, n)

(* Then the stable state comes, even if nodes leave meanwhile; a node that *)
(* was accepted before the table was made posts nothing and is waited for  *)
(* for ever.                                                               *)
SeEstabiliza == ConDatos ~> (estadoEstable = 1 \/ temprano)

=============================================================================
