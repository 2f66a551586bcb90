------------------------------- MODULE FsNodes -------------------------------
(***************************************************************************)
(* How the FileSystem comes to know its DataNodes: the main thread that    *)
(* waits for a stable state, the thread that accepts connections           *)
(* (lanzarHiloServidor), the thread of each connection, which notices its  *)
(* end (connection_handler_nodo), and the nodes, which connect, leave and  *)
(* connect again.  What a node stores is in the module FileSystem.  Files  *)
(* that are written after the start are not in the table of files.         *)
(***************************************************************************)
EXTENDS Integers, Sequences, FiniteSets

CONSTANTS
    Nodes,         \* identifiers of the DataNodes
    NINGUNO,       \* no node
    ArchivosPrevios, \* the files of an earlier state
    Bloques,       \* their blocks, in order: the file and its replicas
    EnBin,         \* the nodes that nodos.bin lists from the earlier state
    MaxConexiones, \* bound: connections during a run
    MaxCaidas      \* bound: nodes that leave

ASSUME FsNodesAssumption ==
    /\ NINGUNO \notin Nodes
    /\ EnBin \subseteq Nodes
    /\ Bloques \in Seq([archivo : ArchivosPrevios, nodos : SUBSET EnBin])
    /\ MaxConexiones \in Nat /\ MaxCaidas \in Nat

VARIABLES
    principal,        \* pc of the main thread, and what it has waited for
    vieneDeNoEstado,  \* 1: there is no earlier state
    estadoEstable,    \* 1: YAMA, workers and commands are served
    nodoInit,         \* semaphore: one post for each node of a new state
    anteriores,       \* the indices of Bloques whose metadata exists
    tablaArchivos,    \* the indices of Bloques whose file is in the table
    cantInstancias,   \* of every block of the table
    semaforo,         \* of every block of the table
    nodos,            \* the list of the nodes that connected, in order
    nodosBin,         \* the nodes that nodos.bin lists
    conexion,         \* every connection, by its socket
    cola,             \* connections that were not accepted yet
    servidor,         \* the thread that accepts
    manejador,        \* the thread of each connection
    temprano,         \* history: a node was accepted before the wait began
    choque            \* history: blocks of which an update was lost

estadoVars == <<principal, vieneDeNoEstado, estadoEstable, nodoInit>>
tablaVars == <<tablaArchivos, cantInstancias, semaforo>>
redVars == <<conexion, cola>>
historiaNodos == <<temprano, choque>>
servidorVars == <<estadoVars, tablaVars, anteriores, nodos, nodosBin, redVars,
                  servidor, manejador, historiaNodos>>

Sockets == 1 .. MaxConexiones
IndicesDeBloque == DOMAIN Bloques
Fin == Len(Bloques) + 1
CantNodosEspera == 2

Holds(b, n) == n \in Bloques[b].nodos

(* The next block after b with a replica on n that is in the table, or the *)
(* end.                                                                    *)
Siguiente(b, n) ==
    LET despues == {c \in tablaArchivos : c > b /\ Holds(c, n)}
    IN  IF despues = {} THEN Fin ELSE CHOOSE c \in despues : \A d \in despues : c <= d

-----------------------------------------------------------------------------
(* The list of nodes.                                                      *)

Entrada(n, s) == [id |-> n, socketNodo |-> s, activo |-> TRUE]

(* buscarNodoPorId: connected, as far as the list knows. *)
BuscarNodoPorId(n) == \E i \in DOMAIN nodos : nodos[i].id = n /\ nodos[i].activo

BuscarNodoPorSocket(s) ==
    LET found == {i \in DOMAIN nodos : nodos[i].socketNodo = s /\ nodos[i].activo}
    IN  IF found = {} THEN NINGUNO
        ELSE nodos[CHOOSE i \in found : \A j \in found : i <= j].id

(* Faulty variant of Agregado: an entry for every connection. *)
AgregadoSiempre(n, s) == Append(nodos, Entrada(n, s))

(* A node that was connected before keeps its entry. *)
Agregado(n, s) ==
    IF \E i \in DOMAIN nodos : nodos[i].id = n
    THEN [i \in DOMAIN nodos |-> IF nodos[i].id = n THEN Entrada(n, s) ELSE nodos[i]]
    ELSE Append(nodos, Entrada(n, s))

(* eliminarNodo: the entry of n is no longer that of a connected node.     *)
Desactivado(n) ==
    [i \in DOMAIN nodos |->
        IF nodos[i].id = n THEN [nodos[i] EXCEPT !.activo = FALSE] ELSE nodos[i]]

(* obtenerEstadoArchivo: -2 when a block of the file has no instance left. *)
EstadoArchivo(f) ==
    IF \E b \in tablaArchivos : Bloques[b].archivo = f /\ cantInstancias[b] = 0
    THEN -2 ELSE 0

-----------------------------------------------------------------------------
Parado == [pc |-> "accept", socket |-> 0, bloque |-> Fin, leido |-> 0]
SinHilo == [pc |-> "no", nodo |-> NINGUNO, bloque |-> Fin, leido |-> 0]

ServidorInit ==
    /\ principal = [pc |-> "inicio", i |-> 0]
    /\ vieneDeNoEstado = 0 /\ estadoEstable = 0 /\ nodoInit = 0
    /\ \/ anteriores = {} /\ nodosBin = {}
       \/ anteriores = IndicesDeBloque /\ nodosBin = EnBin
    /\ tablaArchivos = {}
    /\ cantInstancias = [b \in IndicesDeBloque |-> 0]
    /\ semaforo = [b \in IndicesDeBloque |-> 0]
    /\ nodos = <<>>
    /\ conexion = [s \in Sockets |-> [nodo |-> NINGUNO, estado |-> "no"]]
    /\ cola = <<>>
    /\ servidor = Parado
    /\ manejador = [s \in Sockets |-> SinHilo]
    /\ temprano = FALSE /\ choque = {}

-----------------------------------------------------------------------------
(* The main thread, inicializacionConNodos: the server already runs.       *)

Estable == principal' = [pc |-> "consola", i |-> 0] /\ estadoEstable' = 1

(* The directory of metadata is empty, or not. *)
MirarEstadoAnterior ==
    /\ principal.pc = "inicio"
    /\ \/ /\ anteriores = {}
          /\ vieneDeNoEstado' = 1
          /\ principal' = [pc |-> "nodos", i |-> 0]
       \/ /\ anteriores # {}
          /\ principal' = [pc |-> "tabla", i |-> 0]
          /\ UNCHANGED vieneDeNoEstado
    /\ UNCHANGED <<estadoEstable, nodoInit, tablaVars, anteriores, nodos, nodosBin,
                   redVars, servidor, manejador, historiaNodos>>

(* sem_wait(&nodoInit), as many times as nodes are waited for. *)
EsperarNodo ==
    /\ principal.pc = "nodos" /\ nodoInit > 0
    /\ nodoInit' = nodoInit - 1
    /\ IF principal.i + 1 = CantNodosEspera THEN Estable
       ELSE principal' = [principal EXCEPT !.i = @ + 1] /\ UNCHANGED estadoEstable
    /\ UNCHANGED <<vieneDeNoEstado, tablaVars, anteriores, nodos, nodosBin,
                   redVars, servidor, manejador, historiaNodos>>

(* obtenerNodosUnaInstanciaArchivos, one file, with no instance yet. *)
CargarArchivo ==
    /\ principal.pc = "tabla"
    /\ \E b \in IndicesDeBloque \ tablaArchivos :
          tablaArchivos' = tablaArchivos \cup
             {c \in IndicesDeBloque : Bloques[c].archivo = Bloques[b].archivo}
    /\ principal' = IF tablaArchivos' = IndicesDeBloque THEN [pc |-> "bloques", i |-> 1]
                                                ELSE principal
    /\ UNCHANGED <<vieneDeNoEstado, estadoEstable, nodoInit, cantInstancias, semaforo,
                   anteriores, nodos, nodosBin, redVars, servidor, manejador, historiaNodos>>

(* Faulty variant of EsperarBloque: the first block is waited for only. *)
EsperarUnBloque(b) ==
    /\ principal.pc = "bloques" /\ b = principal.i
    /\ semaforo[b] > 0
    /\ semaforo' = [semaforo EXCEPT ![b] = @ - 1]
    /\ Estable
    /\ UNCHANGED <<vieneDeNoEstado, nodoInit, tablaArchivos, cantInstancias, anteriores,
                   nodos, nodosBin, redVars, servidor, manejador, historiaNodos>>

(* esperarConexionNodos: sem_wait on every block of the table in order. *)
EsperarBloque(b) ==
    /\ principal.pc = "bloques" /\ b = principal.i
    /\ semaforo[b] > 0
    /\ semaforo' = [semaforo EXCEPT ![b] = @ - 1]
    /\ IF b = Len(Bloques) THEN Estable
       ELSE principal' = [principal EXCEPT !.i = @ + 1] /\ UNCHANGED estadoEstable
    /\ UNCHANGED <<vieneDeNoEstado, nodoInit, tablaArchivos, cantInstancias, anteriores,
                   nodos, nodosBin, redVars, servidor, manejador, historiaNodos>>

Principal ==
    \/ MirarEstadoAnterior \/ EsperarNodo \/ CargarArchivo
    \/ \E b \in IndicesDeBloque : EsperarBloque(b)

=============================================================================
