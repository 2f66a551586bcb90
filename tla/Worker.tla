------------------------------- MODULE Worker --------------------------------
(***************************************************************************)
(* The Worker processes of the nodes and the requests of one job.  A       *)
(* worker accepts a connection and forks a child that serves it until the  *)
(* client closes: transformation, local reduction, global reduction (for   *)
(* which it asks the workers of the other nodes for their files), final    *)
(* store, and the requests of other workers.  The child of a connection is *)
(* not the only one to hold its descriptor: the process that accepts never *)
(* closes it, and those forked later inherit it.                           *)
(***************************************************************************)
EXTENDS Integers, Sequences, FiniteSets

CONSTANTS
    Nodos,     \* the nodes of the job
    Host,      \* the node in charge of the global reduction
    Tareas,    \* the blocks that each node transforms
    MaxFallas  \* bound: signals, scripts that fail, and failures of the FS

ASSUME WorkerAssumption ==
    /\ IsFiniteSet(Nodos) /\ Host \in Nodos
    /\ \A w \in Nodos : Len(Tareas[w]) \in Nat \ {0} /\ DOMAIN Tareas[w] = 1 .. Len(Tareas[w])
    /\ MaxFallas \in Nat

VARIABLES
    aceptador,   \* the process of each node that accepts: "vivo" or "muerto"
    aceptadas,   \* the connections each one accepted, in order
    conexion,    \* of each connection: "no", "abierta", or "cerrada" by its client
    pedidos,     \* of each connection: requests not read yet
    respuestas,  \* of each connection: replies not read yet
    hijo,        \* the child that serves each connection
    disco,       \* the files of each node, and what they are made of
    almacenado,  \* what the FileSystem stored
    maestro,     \* the master: its stage and the nodes it waits for
    fallas,      \* how often something failed
    oculta       \* history: a failure was passed on as a success

redVars == <<conexion, pedidos, respuestas>>
vars == <<aceptador, aceptadas, redVars, hijo, disco, almacenado, maestro, fallas,
          oculta>>

(* The connection of the master to each worker, and that of the child of   *)
(* the host that reduces to each other one.                                *)
Conexiones == (Nodos \X {"M"}) \cup ((Nodos \ {Host}) \X {"R"})
De(w) == <<w, "M">>
Bloques == UNION {{Tareas[w][i] : i \in DOMAIN Tareas[w]} : w \in Nodos}
TR(b) == <<"T", b>>
RL(w) == <<"L", w>>
RG == <<"G", 0>>

(* The other nodes, in the order YAMA sends them. *)
Hermanos == CHOOSE s \in [1 .. Cardinality(Nodos) - 1 -> Nodos \ {Host}] :
               \A i, j \in DOMAIN s : s[i] = s[j] => i = j

Init ==
    /\ aceptador = [w \in Nodos |-> "vivo"]
    /\ aceptadas = [w \in Nodos |-> <<>>]
    /\ conexion = [c \in Conexiones |-> "no"]
    /\ pedidos = [c \in Conexiones |-> <<>>]
    /\ respuestas = [c \in Conexiones |-> <<>>]
    /\ hijo = [c \in Conexiones |-> [pc |-> "no", i |-> 0]]
    /\ disco = [w \in Nodos |-> <<>>]
    /\ almacenado = {}
    /\ maestro = [etapa |-> "T", pide |-> Nodos, espera |-> {}, bien |-> TRUE]
    /\ fallas = 0 /\ oculta = FALSE

-----------------------------------------------------------------------------
(* Processes and descriptors.                                              *)

Vivo(c) == hijo[c].pc \notin {"no", "muerto", "fin"}
Aceptada(c) == \E i \in DOMAIN aceptadas[c[1]] : aceptadas[c[1]][i] = c

(* Every process of the node holds the socket that listens. *)
Escucha(w) == aceptador[w] = "vivo" \/ \E c \in Conexiones : c[1] = w /\ Vivo(c)

(* The client finds the end of the stream: nobody at the node holds the    *)
(* connection.                                                             *)
Cortada(c) ==
    LET hechas == aceptadas[c[1]]
    IN  IF Aceptada(c)
        THEN /\ aceptador[c[1]] = "muerto"
             /\ \A i \in DOMAIN hechas :
                   (\E j \in 1 .. i : hechas[j] = c) => ~Vivo(hechas[i])
        ELSE ~Escucha(c[1])

Falla == fallas < MaxFallas /\ fallas' = fallas + 1

(* What script and sort or a reduction may end with. *)
Termina(ok) == IF ok THEN UNCHANGED fallas ELSE Falla

Responde(c, ok, datos) ==
    respuestas' = [respuestas EXCEPT ![c] = Append(@, [ok |-> ok, datos |-> datos])]

Guarda(w, nombre, datos) ==
    disco' = [disco EXCEPT ![w] =
                 [f \in DOMAIN disco[w] \cup {nombre} |->
                     IF f = nombre THEN datos ELSE disco[w][f]]]

Sigue(c, pc, i) == hijo' = [hijo EXCEPT ![c] = [pc |-> pc, i |-> i]]

(* The requests of the child of the host go with it. *)
CierraR(c) ==
    conexion' = [d \in Conexiones |->
        IF c = De(Host) /\ d[2] = "R" /\ conexion[d] = "abierta" THEN "cerrada" ELSE conexion[d]]

Muere(c) == Sigue(c, "muerto", 0) /\ CierraR(c)

-----------------------------------------------------------------------------
(* loadServer.                                                             *)

Pendientes(w) == {c \in Conexiones : c[1] = w /\ conexion[c] # "no" /\ ~Aceptada(c)}

(* Faulty variant of Aceptar: one client at a time, as without fork. *)
AceptarDeAUno(w) ==
    /\ aceptador[w] = "vivo"
    /\ \A c \in Conexiones : c[1] = w => ~Vivo(c)
    /\ \E c \in Pendientes(w) :
          /\ aceptadas' = [aceptadas EXCEPT ![w] = Append(@, c)]
          /\ Sigue(c, "lee", 0)
    /\ UNCHANGED <<aceptador, redVars, disco, almacenado, maestro, fallas, oculta>>

(* accept and fork. *)
Aceptar(w) ==
    /\ aceptador[w] = "vivo"
    /\ \E c \in Pendientes(w) :
          /\ aceptadas' = [aceptadas EXCEPT ![w] = Append(@, c)]
          /\ Sigue(c, "lee", 0)
    /\ UNCHANGED <<aceptador, redVars, disco, almacenado, maestro, fallas, oculta>>

(* readClientBuffer: the next request, or the end of the stream. *)
LeerPedido(c) ==
    /\ hijo[c].pc = "lee"
    /\ \/ /\ pedidos[c] # <<>>
          /\ pedidos' = [pedidos EXCEPT ![c] = Tail(@)]
          /\ Sigue(c, Head(pedidos[c]), 1)
       \/ /\ pedidos[c] = <<>> /\ conexion[c] = "cerrada"
          /\ Sigue(c, "fin", 0)
          /\ UNCHANGED pedidos
    /\ UNCHANGED <<aceptador, aceptadas, conexion, respuestas, disco, almacenado,
                   maestro, fallas, oculta>>

(* transformation, one block: the result is that of sort, the last command *)
(* of the pipe, and what the script left out is missing of the temporary.  *)
Transformar(c, guion, orden) ==
    LET w == c[1]
        b == Tareas[w][hijo[c].i]
    IN  /\ hijo[c].pc = "T"
        /\ Termina(guion /\ orden)
        /\ oculta' = (oculta \/ (orden /\ ~guion))
        /\ Guarda(w, TR(b), IF guion /\ orden THEN {b} ELSE {})
        /\ Responde(c, orden, {})
        /\ IF hijo[c].i = Len(Tareas[w]) THEN Sigue(c, "lee", 0)
                                         ELSE Sigue(c, "T", hijo[c].i + 1)
        /\ UNCHANGED <<aceptador, aceptadas, conexion, pedidos, almacenado, maestro>>

(* reduceFiles: it needs every file, merges them and reduces the result. *)
Reducir(c, archivos, salida, ok) ==
    LET w == c[1]
        todo == UNION {disco[w][f] : f \in archivos \cap DOMAIN disco[w]}
    IN  /\ ok => archivos \subseteq DOMAIN disco[w]
        /\ IF archivos \subseteq DOMAIN disco[w] THEN Termina(ok) ELSE UNCHANGED fallas
        /\ Guarda(w, salida, IF ok THEN todo ELSE {})
        /\ Responde(c, ok, {})
        /\ Sigue(c, "lee", 0)
        /\ UNCHANGED <<aceptador, aceptadas, conexion, pedidos, almacenado, maestro, oculta>>

ReducirLocal(c, ok) ==
    /\ hijo[c].pc = "L"
    /\ Reducir(c, {TR(Tareas[c[1]][i]) : i \in DOMAIN Tareas[c[1]]}, RL(c[1]), ok)

(* obtainNodeFile: without a connection it returns no name, and strcpy     *)
(* ends the child.                                                         *)
PedirArchivo(c) ==
    LET w == Hermanos[hijo[c].i]
    IN  /\ hijo[c].pc = "G" /\ hijo[c].i \in DOMAIN Hermanos
        /\ IF Escucha(w)
           THEN /\ conexion' = [conexion EXCEPT ![<<w, "R">>] = "abierta"]
                /\ pedidos' = [pedidos EXCEPT ![<<w, "R">>] = <<"R">>]
                /\ Sigue(c, "obtiene", hijo[c].i)
           ELSE Muere(c) /\ UNCHANGED pedidos
        /\ UNCHANGED <<aceptador, aceptadas, respuestas, disco, almacenado, maestro, fallas, oculta>>

(* The file is written under the name it has at the other node.  Without   *)
(* an answer its size is not initialized: the child ends, or writes        *)
(* anything.                                                               *)
ObtenerArchivo(c) ==
    LET w == Hermanos[hijo[c].i]
        r == <<w, "R">>
    IN  /\ hijo[c].pc = "obtiene"
        /\ UNCHANGED <<aceptador, aceptadas, pedidos, almacenado, maestro, fallas>>
        /\ \/ /\ respuestas[r] # <<>> /\ UNCHANGED oculta
              /\ respuestas' = [respuestas EXCEPT ![r] = <<>>]
              /\ Guarda(c[1], RL(w), Head(respuestas[r]).datos)
              /\ conexion' = [conexion EXCEPT ![r] = "cerrada"]
              /\ Sigue(c, "G", hijo[c].i + 1)
           \/ /\ respuestas[r] = <<>> /\ Cortada(r)
              /\ UNCHANGED respuestas
              /\ \/ Muere(c) /\ UNCHANGED <<disco, oculta>>
                 \/ /\ Guarda(c[1], RL(w), {}) /\ oculta' = TRUE
                    /\ conexion' = [conexion EXCEPT ![r] = "cerrada"]
                    /\ Sigue(c, "G", hijo[c].i + 1)

(* Faulty variant of ReducirGlobal: its own file is not among those merged.*)
ReducirSinAnfitrion(c, ok) ==
    /\ hijo[c].pc = "G" /\ hijo[c].i = Len(Hermanos) + 1
    /\ Reducir(c, {RL(w) : w \in Nodos \ {c[1]}}, RG, ok)

ReducirGlobal(c, ok) ==
    /\ hijo[c].pc = "G" /\ hijo[c].i = Len(Hermanos) + 1
    /\ Reducir(c, {RL(w) : w \in Nodos}, RG, ok)

(* sendNodeFile, to the child of the host; it ends if there is no file. *)
EnviarArchivo(c) ==
    LET w == c[1]
    IN  /\ hijo[c].pc = "R"
        /\ IF RL(w) \in DOMAIN disco[w]
           THEN Responde(c, TRUE, disco[w][RL(w)]) /\ Sigue(c, "lee", 0) /\ UNCHANGED conexion
           ELSE Muere(c) /\ UNCHANGED respuestas
        /\ UNCHANGED <<aceptador, aceptadas, pedidos, disco, almacenado, maestro, fallas, oculta>>

(* finalStorage: the FileSystem stores the result or refuses; it closes    *)
(* the connection, and the byte that is passed on is not initialized; or   *)
(* it does not listen, and the child ends.  It has the result: a child     *)
(* that did not reduce is not there to be asked.                           *)
Almacenar(c) ==
    /\ hijo[c].pc = "S"
    /\ UNCHANGED <<aceptador, aceptadas, pedidos, disco, maestro>>
    /\ \/ /\ almacenado' = disco[c[1]][RG]
          /\ Responde(c, TRUE, {}) /\ Sigue(c, "lee", 0)
          /\ UNCHANGED <<conexion, fallas, oculta>>
       \/ /\ Falla /\ UNCHANGED <<almacenado, conexion>>
          /\ \E ok \in BOOLEAN : Responde(c, ok, {}) /\ oculta' = (oculta \/ ok)
          /\ Sigue(c, "lee", 0)
       \/ Falla /\ Muere(c) /\ UNCHANGED <<almacenado, respuestas, oculta>>
Hijo(c) ==
    \/ LeerPedido(c) \/ PedirArchivo(c) \/ ObtenerArchivo(c) \/ EnviarArchivo(c)
    \/ Almacenar(c)
    \/ \E ok \in BOOLEAN : ReducirLocal(c, ok) \/ ReducirGlobal(c, ok)
    \/ \E guion, orden \in BOOLEAN : Transformar(c, guion, orden)

-----------------------------------------------------------------------------
(* Signals.                                                                *)

(* killWorkers, on SIGTERM: the children end with it (the first ten do,    *)
(* and there are fewer here).                                              *)
Terminar(w) ==
    /\ aceptador[w] = "vivo" /\ Falla
    /\ aceptador' = [aceptador EXCEPT ![w] = "muerto"]
    /\ hijo' = [c \in Conexiones |->
          IF c[1] = w /\ Vivo(c) THEN [pc |-> "muerto", i |-> 0] ELSE hijo[c]]
    /\ IF w = Host THEN CierraR(De(Host)) ELSE UNCHANGED conexion
    /\ UNCHANGED <<aceptadas, pedidos, respuestas, disco, almacenado, maestro, oculta>>

(* SIGKILL, which no handler gets, to the process that accepts or to a     *)
(* child.                                                                  *)
MatarAceptador(w) ==
    /\ aceptador[w] = "vivo" /\ Falla
    /\ aceptador' = [aceptador EXCEPT ![w] = "muerto"]
    /\ UNCHANGED <<aceptadas, redVars, hijo, disco, almacenado, maestro, oculta>>

MatarHijo(c) ==
    /\ Vivo(c) /\ Falla /\ Muere(c)
    /\ UNCHANGED <<aceptador, aceptadas, pedidos, respuestas, disco, almacenado, maestro, oculta>>

-----------------------------------------------------------------------------
(* The master, as far as the workers know it: a thread for every node in   *)
(* the transformation and in the local reduction, the host for the rest.   *)
(* What YAMA would plan again after a failure is another job.              *)

(* It connects for the transformation; later it uses what is connected. *)
Pedir(w) ==
    LET c == De(w)
    IN  /\ w \in maestro.pide
        /\ IF maestro.etapa = "T" /\ ~Escucha(w)
           THEN /\ maestro' = [maestro EXCEPT !.pide = @ \ {w}, !.bien = FALSE]
                /\ UNCHANGED <<conexion, pedidos>>
           ELSE /\ maestro' = [maestro EXCEPT !.pide = @ \ {w}, !.espera = @ \cup {w}]
                /\ conexion' = [conexion EXCEPT ![c] = "abierta"]
                /\ pedidos' = [pedidos EXCEPT ![c] = Append(@, maestro.etapa)]
        /\ UNCHANGED <<aceptador, aceptadas, respuestas, hijo, disco, almacenado, fallas, oculta>>

(* One byte for each block of a transformation, one for anything else; an  *)
(* error or the end of the stream ends the thread.  After the end of the   *)
(* stream only a transformation notices it: the byte that the other stages *)
(* compare was not initialized.                                            *)
Cuantas(w) == IF maestro.etapa = "T" THEN Len(Tareas[w]) ELSE 1

LeerRespuesta(w) ==
    LET c == De(w)
        bien == \A i \in DOMAIN respuestas[c] : respuestas[c][i].ok
        todas == Len(respuestas[c]) = Cuantas(w)
    IN  /\ w \in maestro.espera
        /\ ~bien \/ todas \/ Cortada(c)
        /\ \E basura \in BOOLEAN :
              /\ basura => respuestas[c] = <<>> /\ maestro.etapa # "T"
              /\ oculta' = (oculta \/ basura)
              /\ maestro' = [maestro EXCEPT !.espera = @ \ {w},
                                !.bien = @ /\ (basura \/ (bien /\ todas))]
        /\ respuestas' = [respuestas EXCEPT ![c] = <<>>]
        /\ UNCHANGED <<aceptador, aceptadas, conexion, pedidos, hijo, disco, almacenado, fallas>>

(* The threads have joined: the next stage, or the end of the master. *)
Avanzar ==
    LET despues == [T |-> "L", L |-> "G", G |-> "S", S |-> "fin"]
        e == IF maestro.bien THEN despues[maestro.etapa] ELSE "fin"
    IN  /\ maestro.etapa # "fin" /\ maestro.pide = {} /\ maestro.espera = {}
        /\ maestro' = [maestro EXCEPT !.etapa = e,
              !.pide = CASE e = "fin" -> {} [] e = "L" -> Nodos [] OTHER -> {Host}]
        /\ conexion' = [c \in Conexiones |->
              IF e = "fin" /\ c[2] = "M" /\ conexion[c] = "abierta" THEN "cerrada" ELSE conexion[c]]
        /\ UNCHANGED <<aceptador, aceptadas, pedidos, respuestas, hijo, disco, almacenado, fallas, oculta>>

Maestro == Avanzar \/ \E w \in Nodos : Pedir(w) \/ LeerRespuesta(w)

-----------------------------------------------------------------------------
Next ==
    \/ Maestro
    \/ \E w \in Nodos : Aceptar(w) \/ Terminar(w) \/ MatarAceptador(w)
    \/ \E c \in Conexiones : Hijo(c) \/ MatarHijo(c)

Spec == Init /\ [][Next]_vars

(* The processes are scheduled; no signal and no failure is due. *)
FairSpec ==
    /\ Spec /\ WF_vars(Maestro)
    /\ \A w \in Nodos : WF_vars(Aceptar(w))
    /\ \A c \in Conexiones : WF_vars(Hijo(c))

-----------------------------------------------------------------------------
(* A job that ends well has stored what every block was made into, through *)
(* the files of every node, whichever processes ended or reductions failed *)
(* on the way, unless a failure was passed on as a success: of a script in *)
(* the pipe, of the FileSystem, or of a worker that left as it was asked.  *)
ResultadoDeTodos ==
    maestro.etapa = "fin" /\ maestro.bien /\ ~oculta => almacenado = Bloques

(* All of the processes of the node are there, or none is. *)
Entero(w) ==
    LET hijos == {c \in Conexiones : c[1] = w}
    IN  IF aceptador[w] = "vivo" THEN \A c \in hijos : hijo[c].pc # "muerto"
                                 ELSE \A c \in hijos : ~Vivo(c)

(* The master is not left waiting for a worker, even though a child waits  *)
(* for the children of other workers, as long as a worker ends with all of *)
(* its processes.                                                          *)
SeResponde ==
    \A w \in Nodos : w \in maestro.espera ~> (w \notin maestro.espera \/ \E v \in Nodos : ~Entero(v))

(* master/src/transform.c: "Agrego recepcion de error si se mata el worker":*)
(* a master whose worker was killed in a transformation gets an error.     *)
MuerteSeNota ==
    \A w \in Nodos :
        (w \in maestro.espera /\ maestro.etapa = "T" /\ hijo[De(w)].pc = "muerto")
            ~> (w \notin maestro.espera)

=============================================================================
