------------------------------ MODULE WorkerProofs -----------------------------
(***************************************************************************)
(* The result of a job that ends well, for any number of nodes and of      *)
(* blocks, any order of the processes and any number of failures.          *)
(***************************************************************************)
EXTENDS Worker, SequenceTheorems, FiniteSetTheorems, TLAPS

Nombrado(w, f, datos) == f \in DOMAIN disco[w] /\ disco[w][f] = datos
Todo(w) == {Tareas[w][j] : j \in DOMAIN Tareas[w]}

(* A child that does not work on a request. *)
Quietos == {"no", "lee", "muerto", "fin"}
Etapas == {"T", "L", "G", "S", "fin"}
Respuesta == [ok : BOOLEAN, datos : {{}}]

(* What each stage leaves, and at whose node.                              *)
Transformado(w) == \A j \in DOMAIN Tareas[w] : Nombrado(w, TR(Tareas[w][j]), {Tareas[w][j]})
Reducido(w) == Nombrado(w, RL(w), Todo(w))
ReducidoTodo(w) == Nombrado(w, RG, Bloques)

Hecho(w) ==
    /\ maestro.etapa = "T" => Transformado(w)
    /\ maestro.etapa = "L" => Reducido(w)
    /\ maestro.etapa = "G" => ReducidoTodo(w)
    /\ maestro.etapa = "S" => almacenado = Bloques

Participa(e) == CASE e \in {"T", "L"} -> Nodos [] e \in {"G", "S"} -> {Host} [] OTHER -> {}

(* What the stages before left.                                            *)
EtapasPasadas ==
    /\ maestro.etapa # "T" => \A w \in Nodos : Transformado(w)
    /\ maestro.etapa \notin {"T", "L"} => \A w \in Nodos : Reducido(w)
    /\ maestro.etapa \in {"S", "fin"} => ReducidoTodo(Host)
    /\ maestro.etapa = "fin" => almacenado = Bloques

(* The files of the other nodes that a child that reduces them has.        *)
Traidos(w, i) ==
    \A j \in 1 .. i - 1 : Nombrado(w, RL(Hermanos[j]), Todo(Hermanos[j]))

(* The child of w is asked, works on the request, or has done it: as many  *)
(* replies as results, of which a good one says that the result is there.  *)
EnCurso(w) ==
    LET c == De(w)
        p == hijo[c].pc
        bien == \A i \in DOMAIN respuestas[c] : respuestas[c][i].ok
    IN  /\ pedidos[c] \in {<<>>, <<maestro.etapa>>}
        /\ pedidos[c] # <<>> => p \in Quietos /\ respuestas[c] = <<>>
        /\ Len(respuestas[c]) <= Cuantas(w)
        /\ p \notin Quietos =>
              /\ p = maestro.etapa \/ (maestro.etapa = "G" /\ p = "obtiene")
              /\ Len(respuestas[c]) = IF p = "T" THEN hijo[c].i - 1 ELSE 0
              /\ p = "T" => hijo[c].i \in DOMAIN Tareas[w]
              /\ p \in {"G", "obtiene"} => hijo[c].i \in 1 .. Len(Hermanos) + 1 /\ Traidos(w, hijo[c].i)
              /\ p = "obtiene" => hijo[c].i \in DOMAIN Hermanos
        /\ bien => IF maestro.etapa = "T"
                   THEN \A j \in DOMAIN respuestas[c] : Nombrado(w, TR(Tareas[w][j]), {Tareas[w][j]})
                   ELSE respuestas[c] # <<>> => Hecho(w)

EnReposo(w) == pedidos[De(w)] = <<>> /\ respuestas[De(w)] = <<>> /\ hijo[De(w)].pc \in Quietos

Atendido(w) ==
    IF w \in maestro.espera THEN EnCurso(w)
    ELSE EnReposo(w) /\ (w \in Participa(maestro.etapa) \ maestro.pide => Hecho(w))

(* The child that answers the host sends what its node reduced, and is not *)
(* asked before.                                                           *)
Hermano(w) ==
    LET r == <<w, "R">>
    IN  /\ pedidos[r] \in {<<>>, <<"R">>}
        /\ hijo[r].pc \in Quietos \cup {"R"}
        /\ respuestas[r] \in Seq({[ok |-> TRUE, datos |-> Todo(w)]})
        /\ maestro.etapa \in {"T", "L"} => pedidos[r] = <<>> /\ hijo[r].pc # "R"

(* The processes, and the stage of the master.                             *)
Procesos ==
    /\ DOMAIN hijo = Conexiones /\ DOMAIN pedidos = Conexiones
    /\ DOMAIN respuestas = Conexiones /\ DOMAIN disco = Nodos
    /\ aceptadas \in [Nodos -> Seq(Conexiones)]
    /\ \A c \in Conexiones : hijo[c].pc # "no" => Aceptada(c)
    /\ \A w \in Nodos : respuestas[De(w)] \in Seq(Respuesta)
    /\ maestro \in [etapa : Etapas, pide : SUBSET Nodos, espera : SUBSET Nodos, bien : BOOLEAN]
    /\ maestro.pide \cup maestro.espera \subseteq Participa(maestro.etapa)
    /\ maestro.pide \cap maestro.espera = {}

Avance ==
    /\ Procesos /\ EtapasPasadas
    /\ \A w \in Nodos : Atendido(w)
    /\ \A w \in Nodos \ {Host} : Hermano(w)

Fases == [etapa : Etapas, pide : SUBSET Nodos, espera : SUBSET Nodos, bien : BOOLEAN]

(* Nothing is promised of a job that failed, or whose failure is hidden.   *)
IInv == maestro \in Fases /\ (maestro.bien /\ ~oculta => Avance)

-----------------------------------------------------------------------------
LEMMA ConexionesDe ==
    /\ \A w \in Nodos : De(w) \in Conexiones /\ De(w)[1] = w
    /\ \A w \in Nodos \ {Host} : <<w, "R">> \in Conexiones
    /\ \A c \in Conexiones : (\E w \in Nodos : c = De(w)) \/ (\E w \in Nodos \ {Host} : c = <<w, "R">>)
    /\ \A v, w \in Nodos : (De(v) = De(w) => v = w) /\ De(v) # <<w, "R">>
    /\ \A c \in Conexiones : c[1] \in Nodos
BY DEF Conexiones, De

LEMMA TareasType ==
    ASSUME NEW w \in Nodos
    PROVE  Len(Tareas[w]) \in Nat \ {0} /\ DOMAIN Tareas[w] = 1 .. Len(Tareas[w])
BY WorkerAssumption

(* There is an order of the other nodes, and it leaves none out.           *)
LEMMA HermanosTodos ==
    /\ Len(Hermanos) \in Nat /\ DOMAIN Hermanos = 1 .. Len(Hermanos)
    /\ \A i \in DOMAIN Hermanos : Hermanos[i] \in Nodos \ {Host}
    /\ \A w \in Nodos \ {Host} : \E i \in DOMAIN Hermanos : Hermanos[i] = w
<1> DEFINE O == Nodos \ {Host}
           n == Cardinality(Nodos) - 1
           Orden(s) == \A i, j \in DOMAIN s : s[i] = s[j] => i = j
<1>1. IsFiniteSet(O) /\ Cardinality(O) = n /\ n \in Nat
  <2>1. IsFiniteSet(Nodos) /\ Host \in Nodos
    BY WorkerAssumption
  <2>2. IsFiniteSet(O) /\ Cardinality(O) = n
    BY <2>1, FS_RemoveElement
  <2>3. Cardinality(O) \in Nat
    BY <2>2, FS_CardinalityType
  <2> QED
    BY <2>2, <2>3
<1> HIDE DEF n, O
<1>2. PICK b : b \in Bijection(1 .. n, O)
  BY <1>1, FS_CardinalityType DEF ExistsBijection
<1>3. b \in [1 .. n -> O] /\ Orden(b)
  BY <1>2 DEF Bijection, Injection, IsInjective
<1>4. Hermanos = CHOOSE s \in [1 .. n -> O] : Orden(s)
  BY DEF Hermanos, n, O
<1>5. Hermanos \in [1 .. n -> O] /\ Orden(Hermanos)
  <2> HIDE DEF Orden
  <2> QED
    BY <1>3, <1>4
<1>6. Hermanos \in Seq(O) /\ Len(Hermanos) = n
  BY <1>1, <1>5
<1>7. ASSUME NEW w \in O PROVE \E i \in 1 .. n : Hermanos[i] = w
  <2> DEFINE R == {Hermanos[i] : i \in 1 .. n}
  <2>1. Hermanos \in Surjection(1 .. n, R) /\ Hermanos \in Injection(1 .. n, R)
    BY <1>5 DEF Surjection, Injection, IsInjective
  <2>2. IsFiniteSet(1 .. n) /\ Cardinality(1 .. n) = n
    <3>1. 1 \in Int /\ n \in Int
      BY <1>1
    <3>2. IsFiniteSet(1 .. n) /\ Cardinality(1 .. n) = IF 1 > n THEN 0 ELSE n - 1 + 1
      BY <3>1, FS_Interval
    <3> QED
      BY <1>1, <3>2
  <2>3. Cardinality(R) = n
    <3> HIDE DEF R
    <3> QED
      BY <2>1, <2>2, FS_Surjection
  <2>4. R \in SUBSET O
    BY <1>5
  <2>5. R = O
    <3> HIDE DEF R
    <3> QED
      BY <1>1, <2>3, <2>4, FS_Subset
  <2> QED
    BY <2>5
<1> QED
  BY <1>1, <1>5, <1>6, <1>7 DEF O

(* A file that is written, and the others.                                 *)
LEMMA GuardaDisco ==
    ASSUME DOMAIN disco = Nodos, NEW w \in Nodos, NEW f, NEW datos, Guarda(w, f, datos)
    PROVE  /\ DOMAIN disco' = Nodos
           /\ \A v \in Nodos \ {w} : disco'[v] = disco[v]
           /\ Nombrado(w, f, datos)'
           /\ \A g, d : g # f /\ Nombrado(w, g, d) => Nombrado(w, g, d)'
<1> DEFINE F == [g \in DOMAIN disco[w] \cup {f} |-> IF g = f THEN datos ELSE disco[w][g]]
<1>1. disco' = [disco EXCEPT ![w] = F]
  BY DEF Guarda
<1>2. f \in DOMAIN F /\ F[f] = datos
  OBVIOUS
<1>3. \A g : g # f /\ g \in DOMAIN disco[w] => g \in DOMAIN F /\ F[g] = disco[w][g]
  OBVIOUS
<1> HIDE DEF F
<1>4. disco'[w] = F /\ DOMAIN disco' = Nodos /\ \A v \in Nodos \ {w} : disco'[v] = disco[v]
  BY <1>1
<1> QED
  BY <1>2, <1>3, <1>4 DEF Nombrado

LEMMA Nombres ==
    /\ \A b, w : TR(b) # RL(w) /\ TR(b) # RG /\ RL(w) # RG
    /\ \A v, w : RL(v) = RL(w) => v = w
    /\ \A a, b : TR(a) = TR(b) => a = b
BY DEF TR, RL, RG

-----------------------------------------------------------------------------
(* What a step leaves as it is.                                            *)
LEMMA AtendidoIgual ==
    ASSUME NEW w \in Nodos, Atendido(w), disco'[w] = disco[w],
           pedidos'[De(w)] = pedidos[De(w)], respuestas'[De(w)] = respuestas[De(w)],
           hijo'[De(w)] = hijo[De(w)], UNCHANGED <<almacenado, maestro>>
    PROVE  Atendido(w)'
<1>1. /\ \A f, d : Nombrado(w, f, d)' <=> Nombrado(w, f, d)
      /\ Cuantas(w)' = Cuantas(w)
  BY DEF Nombrado, Cuantas
<1>2. (Transformado(w)' <=> Transformado(w)) /\ (Reducido(w)' <=> Reducido(w))
      /\ (ReducidoTodo(w)' <=> ReducidoTodo(w))
  BY <1>1 DEF Transformado, Reducido, ReducidoTodo
<1>3. Hecho(w)' <=> Hecho(w)
  BY <1>2 DEF Hecho
<1>4. EnReposo(w)' <=> EnReposo(w)
  BY DEF EnReposo
<1>5. \A i : Traidos(w, i)' <=> Traidos(w, i)
  BY <1>1 DEF Traidos
<1>6. EnCurso(w)' <=> EnCurso(w)
  BY <1>1, <1>3, <1>5 DEF EnCurso
<1> QED
  BY <1>3, <1>4, <1>6 DEF Atendido

LEMMA HermanoIgual ==
    ASSUME NEW w, Hermano(w), pedidos'[<<w, "R">>] = pedidos[<<w, "R">>],
           respuestas'[<<w, "R">>] = respuestas[<<w, "R">>],
           hijo'[<<w, "R">>] = hijo[<<w, "R">>], UNCHANGED maestro
    PROVE  Hermano(w)'
BY DEF Hermano

(* Only the connection of the master to v and the files of v change.       *)
LEMMA OtrosIguales ==
    ASSUME Avance, NEW v \in Nodos,
           \A c \in Conexiones \ {De(v)} :
               /\ pedidos'[c] = pedidos[c] /\ respuestas'[c] = respuestas[c]
               /\ hijo'[c] = hijo[c],
           \A w \in Nodos \ {v} : disco'[w] = disco[w],
           UNCHANGED <<almacenado, maestro>>
    PROVE  /\ \A w \in Nodos \ {v} : Atendido(w)'
           /\ \A w \in Nodos \ {Host} : Hermano(w)'
<1>1. ASSUME NEW w \in Nodos \ {v} PROVE Atendido(w)'
  <2>1. De(w) \in Conexiones \ {De(v)}
    BY ConexionesDe
  <2> QED
    BY <2>1, AtendidoIgual DEF Avance
<1>2. ASSUME NEW w \in Nodos \ {Host} PROVE Hermano(w)'
  <2>1. <<w, "R">> \in Conexiones \ {De(v)}
    BY ConexionesDe
  <2> QED
    BY <2>1, HermanoIgual DEF Avance
<1> QED
  BY <1>1, <1>2

LEMMA ProcesosIguales ==
    ASSUME Procesos, UNCHANGED <<aceptadas, maestro>>,
           DOMAIN hijo' = Conexiones, DOMAIN pedidos' = Conexiones,
           DOMAIN respuestas' = Conexiones, DOMAIN disco' = Nodos,
           \A c \in Conexiones : hijo'[c].pc # "no" => hijo[c].pc # "no",
           \A w \in Nodos : respuestas'[De(w)] \in Seq(Respuesta)
    PROVE  Procesos'
BY DEF Procesos, Aceptada

LEMMA PasadasIguales ==
    ASSUME EtapasPasadas, UNCHANGED <<disco, maestro>>,
           maestro.etapa = "fin" => almacenado' = almacenado
    PROVE  EtapasPasadas'
BY DEF EtapasPasadas, Transformado, Reducido, ReducidoTodo, Nombrado

(* A file that is written is not one that an earlier stage left.           *)
LEMMA PasadasGuarda ==
    ASSUME EtapasPasadas, DOMAIN disco = Nodos, UNCHANGED <<almacenado, maestro>>,
           NEW w \in Nodos, NEW f, NEW datos, Guarda(w, f, datos),
           maestro.etapa \notin {"S", "fin"},
           maestro.etapa # "T" => \A b : f # TR(b),
           maestro.etapa \notin {"T", "L"} => f # RL(w)
    PROVE  EtapasPasadas'
<1>1. /\ \A v \in Nodos \ {w} : disco'[v] = disco[v]
      /\ \A g, d : g # f /\ Nombrado(w, g, d) => Nombrado(w, g, d)'
  BY GuardaDisco
<1>2. ASSUME maestro.etapa # "T", NEW v \in Nodos PROVE Transformado(v)'
  BY <1>1, <1>2 DEF EtapasPasadas, Transformado, Nombrado
<1>3. ASSUME maestro.etapa \notin {"T", "L"}, NEW v \in Nodos PROVE Reducido(v)'
  BY <1>1, <1>3 DEF EtapasPasadas, Reducido, Nombrado
<1> QED
  BY <1>2, <1>3 DEF EtapasPasadas

(* Children that stop working, whatever makes them.                        *)
LEMMA HijosQuietos ==
    ASSUME Avance, Procesos', UNCHANGED <<pedidos, respuestas, disco, almacenado, maestro>>,
           \A c \in Conexiones : hijo'[c] = hijo[c] \/ hijo'[c].pc \in Quietos
    PROVE  Avance'
<1>1. ASSUME NEW w \in Nodos PROVE Atendido(w)'
  <2>1. CASE hijo'[De(w)] = hijo[De(w)]
    BY <2>1, AtendidoIgual DEF Avance
  <2>2. CASE hijo'[De(w)].pc \in Quietos
    <3>1. Atendido(w)
      BY DEF Avance
    <3>2. /\ \A f, d : Nombrado(w, f, d)' <=> Nombrado(w, f, d)
          /\ Cuantas(w)' = Cuantas(w)
      BY DEF Nombrado, Cuantas
    <3>3. Hecho(w)' <=> Hecho(w)
      BY <3>2 DEF Hecho, Transformado, Reducido, ReducidoTodo
    <3>4. EnCurso(w) => EnCurso(w)'
      BY <2>2, <3>2, <3>3 DEF EnCurso
    <3>5. EnReposo(w) => EnReposo(w)'
      BY <2>2 DEF EnReposo
    <3> QED
      BY <3>1, <3>3, <3>4, <3>5 DEF Atendido
  <2> QED
    BY <2>1, <2>2, ConexionesDe
<1>2. ASSUME NEW w \in Nodos \ {Host} PROVE Hermano(w)'
  <2>1. Hermano(w) /\ <<w, "R">> \in Conexiones
    BY ConexionesDe DEF Avance
  <2>2. CASE hijo'[<<w, "R">>].pc \in Quietos
    BY <2>1, <2>2 DEF Hermano, Quietos
  <2> QED
    BY <2>1, <2>2, HermanoIgual
<1>3. EtapasPasadas'
  BY PasadasIguales DEF Avance
<1> QED
  BY <1>1, <1>2, <1>3 DEF Avance

(* Only the child of a node that the master waits for works, at what its   *)
(* stage asks for.                                                         *)
LEMMA Trabaja ==
    ASSUME Avance, NEW c \in Conexiones, hijo[c].pc \in {"T", "L", "G", "obtiene", "S"}
    PROVE  \E w \in Nodos :
              /\ c = De(w) /\ w \in maestro.espera /\ EnCurso(w) /\ pedidos[c] = <<>>
              /\ maestro.etapa = IF hijo[c].pc = "obtiene" THEN "G" ELSE hijo[c].pc
              /\ maestro.etapa \in {"G", "S"} => w = Host
<1>1. hijo[c].pc \notin Quietos
  BY DEF Quietos
<1>2. ASSUME NEW w \in Nodos \ {Host}, c = <<w, "R">> PROVE FALSE
  BY <1>1, <1>2 DEF Avance, Hermano
<1>3. PICK w \in Nodos : c = De(w)
  BY <1>2, ConexionesDe
<1>4. w \in maestro.espera /\ EnCurso(w)
  BY <1>1, <1>3 DEF Avance, Atendido, EnReposo
<1>5. pedidos[c] = <<>>
  BY <1>1, <1>3, <1>4 DEF EnCurso
<1>6. maestro.etapa = IF hijo[c].pc = "obtiene" THEN "G" ELSE hijo[c].pc
  <2>1. maestro.etapa \in Etapas
    BY DEF Avance, Procesos
  <2> QED
    BY <1>1, <1>3, <1>4, <2>1 DEF EnCurso, Etapas
<1>7. maestro.etapa \in {"G", "S"} => w = Host
  BY <1>4 DEF Avance, Procesos, Participa
<1> QED
  BY <1>3, <1>4, <1>5, <1>6, <1>7

(* The reply of a child that is done with its request.                     *)
LEMMA RespuestaNueva ==
    ASSUME Procesos, NEW w \in Nodos, NEW ok \in BOOLEAN, Responde(De(w), ok, {})
    PROVE  LET s == respuestas[De(w)]
               t == respuestas'[De(w)]
           IN  /\ DOMAIN respuestas' = Conexiones
               /\ \A v \in Nodos : respuestas'[De(v)] \in Seq(Respuesta)
               /\ \A c \in Conexiones \ {De(w)} : respuestas'[c] = respuestas[c]
               /\ Len(s) \in Nat /\ DOMAIN s = 1 .. Len(s)
               /\ Len(t) = Len(s) + 1 /\ DOMAIN t = 1 .. Len(s) + 1
               /\ \A i \in DOMAIN s : t[i] = s[i]
               /\ t[Len(s) + 1].ok = ok
<1> DEFINE s == respuestas[De(w)]
           r == [ok |-> ok, datos |-> {}]
<1>1. s \in Seq(Respuesta) /\ r \in Respuesta /\ r.ok = ok
  BY DEF Procesos, Respuesta
<1>2. respuestas' = [respuestas EXCEPT ![De(w)] = Append(s, r)]
  BY DEF Responde
<1> HIDE DEF r
<1>3. /\ Append(s, r) \in Seq(Respuesta) /\ Len(s) \in Nat /\ DOMAIN s = 1 .. Len(s)
      /\ Len(Append(s, r)) = Len(s) + 1 /\ DOMAIN Append(s, r) = 1 .. Len(s) + 1
      /\ \A i \in DOMAIN s : Append(s, r)[i] = s[i]
      /\ Append(s, r)[Len(s) + 1] = r
  BY <1>1
<1>4. respuestas'[De(w)] = Append(s, r) /\ DOMAIN respuestas' = Conexiones
      /\ \A c \in Conexiones \ {De(w)} : respuestas'[c] = respuestas[c]
  BY <1>2, ConexionesDe DEF Procesos
<1> HIDE DEF s
<1>5. \A v \in Nodos : respuestas'[De(v)] \in Seq(Respuesta)
  BY <1>3, <1>4, ConexionesDe DEF Procesos
<1> QED
  BY <1>1, <1>3, <1>4, <1>5 DEF s

-----------------------------------------------------------------------------
(* The children.                                                           *)
LEMMA AceptarAvance == ASSUME Avance, NEW w \in Nodos, Aceptar(w) PROVE Avance'
<1>1. PICK c \in Pendientes(w) :
         /\ aceptadas' = [aceptadas EXCEPT ![w] = Append(@, c)]
         /\ Sigue(c, "lee", 0)
  BY DEF Aceptar
<1>2. /\ UNCHANGED <<pedidos, respuestas, disco, almacenado, maestro>>
      /\ c \in Conexiones /\ c[1] = w /\ Procesos
  BY DEF Aceptar, redVars, Pendientes, Avance
<1>3. /\ aceptadas' \in [Nodos -> Seq(Conexiones)]
      /\ \A v \in Nodos \ {w} : aceptadas'[v] = aceptadas[v]
      /\ \A i \in DOMAIN aceptadas[w] : i \in DOMAIN aceptadas'[w] /\ aceptadas'[w][i] = aceptadas[w][i]
      /\ \E i \in DOMAIN aceptadas'[w] : aceptadas'[w][i] = c
  <2>1. aceptadas[w] \in Seq(Conexiones) /\ aceptadas'[w] = Append(aceptadas[w], c)
    BY <1>1, <1>2 DEF Procesos
  <2>2. Len(aceptadas[w]) + 1 \in DOMAIN aceptadas'[w]
        /\ aceptadas'[w][Len(aceptadas[w]) + 1] = c
    BY <1>2, <2>1
  <2> QED
    BY <1>1, <1>2, <2>1, <2>2 DEF Procesos
<1>4. /\ DOMAIN hijo' = Conexiones /\ hijo'[c].pc = "lee"
      /\ \A d \in Conexiones \ {c} : hijo'[d] = hijo[d]
  BY <1>1, <1>2 DEF Procesos, Sigue
<1>5. \A d \in Conexiones : hijo'[d].pc # "no" => Aceptada(d)'
  <2> SUFFICES ASSUME NEW d \in Conexiones, hijo'[d].pc # "no" PROVE Aceptada(d)'
    OBVIOUS
  <2>1. CASE d = c
    BY <1>2, <1>3, <2>1 DEF Aceptada
  <2>2. CASE d # c
    <3>1. Aceptada(d) /\ d[1] \in Nodos
      BY <1>2, <1>4, <2>2, ConexionesDe DEF Procesos
    <3> QED
      BY <1>3, <3>1 DEF Aceptada
  <2> QED
    BY <2>1, <2>2
<1>6. Procesos'
  BY <1>2, <1>3, <1>4, <1>5 DEF Procesos
<1> QED
  BY <1>2, <1>4, <1>6, HijosQuietos DEF Quietos

(* What a child goes on with.                                              *)
LEMMA SigueHijo ==
    ASSUME Procesos, NEW c \in Conexiones, NEW p, NEW i, Sigue(c, p, i)
    PROVE  /\ DOMAIN hijo' = Conexiones /\ hijo'[c].pc = p /\ hijo'[c].i = i
           /\ \A d \in Conexiones \ {c} : hijo'[d] = hijo[d]
BY DEF Procesos, Sigue

LEMMA LeerPedidoAvance == ASSUME Avance, NEW c \in Conexiones, LeerPedido(c) PROVE Avance'
<1>1. Procesos /\ hijo[c].pc = "lee"
  BY DEF Avance, LeerPedido
<1>2. UNCHANGED <<aceptadas, respuestas, disco, almacenado, maestro>>
  BY DEF LeerPedido
<1>3. CASE UNCHANGED pedidos /\ Sigue(c, "fin", 0)
  <2>1. /\ DOMAIN hijo' = Conexiones /\ hijo'[c].pc = "fin"
        /\ \A d \in Conexiones \ {c} : hijo'[d] = hijo[d]
    BY <1>1, <1>3, SigueHijo
  <2>2. \A d \in Conexiones : hijo'[d].pc # "no" => hijo[d].pc # "no"
    BY <1>1, <2>1
  <2>3. Procesos'
    <3> HIDE DEF Conexiones
    <3>1. /\ DOMAIN pedidos = Conexiones /\ DOMAIN respuestas = Conexiones /\ DOMAIN disco = Nodos
          /\ \A w \in Nodos : respuestas[De(w)] \in Seq(Respuesta)
      BY <1>1 DEF Procesos
    <3> QED
      BY <1>1, <1>2, <1>3, <2>1, <2>2, <3>1, ProcesosIguales
  <2> QED
    BY <1>2, <1>3, <2>1, <2>3, HijosQuietos DEF Quietos
<1>4. CASE /\ pedidos[c] # <<>> /\ pedidos' = [pedidos EXCEPT ![c] = Tail(@)]
           /\ Sigue(c, Head(pedidos[c]), 1)
  <2> DEFINE p == Head(pedidos[c])
  <2>1. /\ DOMAIN hijo' = Conexiones /\ hijo'[c].pc = p /\ hijo'[c].i = 1
        /\ \A d \in Conexiones \ {c} : hijo'[d] = hijo[d]
    BY <1>1, <1>4, SigueHijo
  <2>2. /\ DOMAIN pedidos' = Conexiones /\ pedidos'[c] = Tail(pedidos[c])
        /\ \A d \in Conexiones \ {c} : pedidos'[d] = pedidos[d]
    BY <1>1, <1>4 DEF Procesos
  <2>3. Procesos'
    <3>1. /\ DOMAIN respuestas = Conexiones /\ DOMAIN disco = Nodos
          /\ \A w \in Nodos : respuestas[De(w)] \in Seq(Respuesta)
      BY <1>1 DEF Procesos
    <3>2. \A d \in Conexiones : hijo'[d].pc # "no" => hijo[d].pc # "no"
      BY <1>1, <2>1
    <3> QED
      BY <1>1, <1>2, <2>1, <2>2, <3>1, <3>2, ProcesosIguales
  <2>4. EtapasPasadas'
    BY <1>2, PasadasIguales DEF Avance
  <2>5. ASSUME NEW w \in Nodos \ {Host}, c = <<w, "R">> PROVE Avance'
    <3>1. pedidos[c] = <<"R">> /\ maestro.etapa \notin {"T", "L"}
      BY <1>4, <2>5 DEF Avance, Hermano
    <3>2. p = "R" /\ pedidos'[c] = <<>>
      BY <2>2, <3>1
    <3>3. Hermano(w)'
      BY <1>2, <2>1, <2>5, <3>1, <3>2 DEF Avance, Hermano
    <3>4. ASSUME NEW v \in Nodos PROVE Atendido(v)'
      <4>1. De(v) \in Conexiones \ {c}
        BY <2>5, ConexionesDe
      <4> QED
        BY <1>2, <2>1, <2>2, <4>1, AtendidoIgual DEF Avance
    <3>5. ASSUME NEW v \in Nodos \ {Host}, v # w PROVE Hermano(v)'
      <4>1. <<v, "R">> \in Conexiones \ {c}
        BY <2>5, <3>5, ConexionesDe
      <4> QED
        BY <1>2, <2>1, <2>2, <4>1, HermanoIgual DEF Avance
    <3> QED
      BY <2>3, <2>4, <3>3, <3>4, <3>5 DEF Avance
  <2>6. ASSUME NEW w \in Nodos, c = De(w) PROVE Avance'
    <3>1. Atendido(w)
      BY DEF Avance
    <3>2. w \in maestro.espera /\ EnCurso(w)
      BY <1>4, <2>6, <3>1 DEF Atendido, EnReposo
    <3>3. pedidos[c] = <<maestro.etapa>> /\ respuestas[c] = <<>>
      BY <1>4, <2>6, <3>2 DEF EnCurso
    <3>4. p = maestro.etapa /\ pedidos'[c] = <<>>
      BY <2>2, <3>3
    <3>5. 1 \in DOMAIN Tareas[w] /\ 1 \in 1 .. Len(Hermanos) + 1 /\ maestro.etapa # "obtiene"
          /\ Len(respuestas[c]) = 0 /\ Len(respuestas[c]) = 1 - 1
      BY <1>1, <3>3, TareasType, HermanosTodos DEF Procesos, Etapas
    <3>6. Traidos(w, 1)'
      BY DEF Traidos
    <3>7. EnCurso(w)'
      <4> HIDE DEF p
      <4>1. Cuantas(w)' = Cuantas(w) /\ (Hecho(w)' <=> Hecho(w))
        BY <1>2 DEF Cuantas, Hecho, Transformado, Reducido, ReducidoTodo, Nombrado
      <4>2. Len(respuestas[c]) <= Cuantas(w)
        BY <2>6, <3>2 DEF EnCurso
      <4>3. DOMAIN respuestas[c] = {}
        BY <3>3
      <4> QED
        BY <1>2, <2>1, <2>6, <3>3, <3>4, <3>5, <3>6, <4>1, <4>2, <4>3 DEF EnCurso
    <3>8. Atendido(w)'
      BY <1>2, <3>2, <3>7 DEF Atendido
    <3>9. /\ \A v \in Nodos \ {w} : Atendido(v)'
          /\ \A v \in Nodos \ {Host} : Hermano(v)'
      BY <1>2, <2>1, <2>2, <2>6, OtrosIguales
    <3> QED
      BY <2>3, <2>4, <3>8, <3>9 DEF Avance
  <2> QED
    BY <2>5, <2>6, ConexionesDe
<1> QED
  BY <1>3, <1>4 DEF LeerPedido

(* The child of w ends its request at a stage, with a file or without.     *)
LEMMA Termino ==
    ASSUME Avance, NEW w \in Nodos, w \in maestro.espera, EnCurso(w), pedidos[De(w)] = <<>>,
           hijo[De(w)].pc \notin Quietos, hijo[De(w)].pc # "T", maestro.etapa # "T",
           NEW ok \in BOOLEAN, Responde(De(w), ok, {}), Sigue(De(w), "lee", 0),
           UNCHANGED <<aceptadas, pedidos, maestro>>,
           DOMAIN disco' = Nodos, \A v \in Nodos \ {w} : disco'[v] = disco[v],
           \A v \in Nodos \ {w} : Atendido(v)', \A v \in Nodos \ {Host} : Hermano(v)',
           EtapasPasadas', ok => Hecho(w)'
    PROVE  Avance'
<1> DEFINE c == De(w)
<1>1. Procesos /\ c \in Conexiones /\ Len(respuestas[c]) = 0
  BY ConexionesDe DEF Avance, EnCurso
<1>2. /\ DOMAIN hijo' = Conexiones /\ hijo'[c].pc = "lee"
      /\ \A d \in Conexiones \ {c} : hijo'[d] = hijo[d]
  BY <1>1, SigueHijo
<1>3. /\ DOMAIN respuestas' = Conexiones
      /\ \A v \in Nodos : respuestas'[De(v)] \in Seq(Respuesta)
      /\ Len(respuestas'[c]) = 1 /\ DOMAIN respuestas'[c] = 1 .. 1
      /\ respuestas'[c][1].ok = ok
  <2>1. /\ DOMAIN respuestas' = Conexiones
        /\ \A v \in Nodos : respuestas'[De(v)] \in Seq(Respuesta)
        /\ Len(respuestas'[c]) = Len(respuestas[c]) + 1
        /\ DOMAIN respuestas'[c] = 1 .. Len(respuestas[c]) + 1
        /\ respuestas'[c][Len(respuestas[c]) + 1].ok = ok
    BY <1>1, RespuestaNueva
  <2>2. Len(respuestas[c]) + 1 = 1
    BY <1>1
  <2> QED
    BY <2>1, <2>2
<1>4. Procesos'
  <2>1. \A d \in Conexiones : hijo'[d].pc # "no" => hijo[d].pc # "no"
    BY <1>2 DEF Quietos
  <2> QED
    BY <1>1, <1>2, <1>3, <2>1, ProcesosIguales DEF Procesos
<1>5. EnCurso(w)'
  <2>1. Cuantas(w)' = 1
    BY DEF Cuantas
  <2>2. (\A i \in DOMAIN respuestas'[c] : respuestas'[c][i].ok) => Hecho(w)'
    <3>1. 1 \in DOMAIN respuestas'[c]
      BY <1>3
    <3> QED
      BY <1>3, <3>1
  <2> QED
    BY <1>2, <1>3, <2>1, <2>2 DEF EnCurso, Quietos
<1>6. Atendido(w)'
  BY <1>5 DEF Atendido
<1> QED
  BY <1>4, <1>6 DEF Avance

LEMMA TransformarAvance ==
    ASSUME Avance, NEW c \in Conexiones, NEW guion \in BOOLEAN, NEW orden \in BOOLEAN,
           Transformar(c, guion, orden), ~oculta'
    PROVE  Avance'
<1>1. hijo[c].pc = "T" /\ Procesos
  BY DEF Transformar, Avance
<1>2. PICK w \in Nodos :
         /\ c = De(w) /\ w \in maestro.espera /\ EnCurso(w) /\ pedidos[c] = <<>>
         /\ maestro.etapa = "T"
  BY <1>1, Trabaja
<1>3. PICK i : i = hijo[c].i
  OBVIOUS
<1> DEFINE b == Tareas[w][i]
           s == respuestas[c]
           datos == IF guion /\ orden THEN {b} ELSE {}
<1>4. c[1] = w /\ UNCHANGED <<aceptadas, pedidos, almacenado, maestro>>
      /\ Guarda(w, TR(b), datos) /\ Responde(De(w), orden, {}) /\ (orden => guion)
  BY <1>2, <1>3, ConexionesDe DEF Transformar
<1>5. /\ i \in 1 .. Len(Tareas[w]) /\ Len(Tareas[w]) \in Nat /\ DOMAIN Tareas[w] = 1 .. Len(Tareas[w])
      /\ Len(s) = i - 1
      /\ (\A j \in DOMAIN s : s[j].ok) =>
            \A j \in DOMAIN s : Nombrado(w, TR(Tareas[w][j]), {Tareas[w][j]})
  BY <1>1, <1>2, <1>3, TareasType DEF EnCurso, Quietos
<1>6. IF i = Len(Tareas[w]) THEN Sigue(c, "lee", 0) ELSE Sigue(c, "T", i + 1)
  BY <1>4, <1>3 DEF Transformar
<1>7. /\ DOMAIN disco' = Nodos /\ \A v \in Nodos \ {w} : disco'[v] = disco[v]
      /\ Nombrado(w, TR(b), datos)'
      /\ \A g, d : g # TR(b) /\ Nombrado(w, g, d) => Nombrado(w, g, d)'
  BY <1>1, <1>4, GuardaDisco DEF Procesos
<1>8. /\ DOMAIN respuestas' = Conexiones
      /\ \A v \in Nodos : respuestas'[De(v)] \in Seq(Respuesta)
      /\ \A d \in Conexiones \ {c} : respuestas'[d] = respuestas[d]
      /\ DOMAIN s = 1 .. Len(s)
      /\ Len(respuestas'[c]) = i /\ DOMAIN respuestas'[c] = 1 .. i
      /\ \A j \in DOMAIN s : respuestas'[c][j] = s[j]
      /\ respuestas'[c][i].ok = orden
  BY <1>1, <1>2, <1>4, <1>5, RespuestaNueva
<1>9. /\ DOMAIN hijo' = Conexiones /\ \A d \in Conexiones \ {c} : hijo'[d] = hijo[d]
      /\ hijo'[c].pc \in {"lee", "T"}
      /\ hijo'[c].pc = "T" => i # Len(Tareas[w]) /\ hijo'[c].i = i + 1
  BY <1>1, <1>6, SigueHijo
<1> HIDE DEF b, s
<1>10. Procesos'
  <2>1. \A d \in Conexiones : hijo'[d].pc # "no" => hijo[d].pc # "no"
    BY <1>1, <1>9
  <2>2. DOMAIN pedidos' = Conexiones
    BY <1>1, <1>4 DEF Procesos
  <2> QED
    BY <1>1, <1>4, <1>7, <1>8, <1>9, <2>1, <2>2, ProcesosIguales
<1>11. EtapasPasadas'
  BY <1>2, <1>4 DEF EtapasPasadas
<1>12. /\ \A v \in Nodos \ {w} : Atendido(v)'
       /\ \A v \in Nodos \ {Host} : Hermano(v)'
  BY <1>2, <1>4, <1>7, <1>8, <1>9, OtrosIguales
<1>13. ASSUME \A j \in DOMAIN respuestas'[c] : respuestas'[c][j].ok, NEW j \in 1 .. i
       PROVE  Nombrado(w, TR(Tareas[w][j]), {Tareas[w][j]})'
  <2>1. i \in DOMAIN respuestas'[c]
    BY <1>5, <1>8
  <2>2. orden /\ datos = {b}
    BY <1>4, <1>8, <1>13, <2>1
  <2>3. CASE Tareas[w][j] = b
    BY <1>7, <2>2, <2>3
  <2>4. CASE Tareas[w][j] # b
    <3>1. j \in 1 .. i - 1
      BY <1>5, <2>4 DEF b
    <3>2. \A k \in DOMAIN s : s[k].ok
      <4>1. \A k \in DOMAIN s : k \in DOMAIN respuestas'[c]
        BY <1>5, <1>8
      <4> QED
        BY <1>8, <1>13, <4>1
    <3>3. Nombrado(w, TR(Tareas[w][j]), {Tareas[w][j]})
      BY <1>5, <1>8, <3>1, <3>2
    <3>4. TR(Tareas[w][j]) # TR(b)
      BY <2>4, Nombres
    <3> QED
      BY <1>7, <3>3, <3>4
  <2> QED
    BY <2>3, <2>4
<1>14. EnCurso(w)'
  <2>1. Cuantas(w)' = Len(Tareas[w])
    BY <1>2, <1>4 DEF Cuantas
  <2>2. i <= Len(Tareas[w]) /\ (i # Len(Tareas[w]) => i + 1 \in DOMAIN Tareas[w])
        /\ i = (i + 1) - 1
    BY <1>5
  <2> QED
    BY <1>2, <1>4, <1>8, <1>9, <1>13, <2>1, <2>2 DEF EnCurso, Quietos
<1>15. Atendido(w)'
  BY <1>2, <1>4, <1>14 DEF Atendido
<1> QED
  BY <1>10, <1>11, <1>12, <1>15 DEF Avance

(* Children that end, whatever ends them.                                  *)
LEMMA MueranAvance ==
    ASSUME Avance, UNCHANGED <<aceptadas, pedidos, respuestas, disco, almacenado, maestro>>,
           DOMAIN hijo' = Conexiones,
           \A c \in Conexiones : hijo'[c] = hijo[c] \/ (hijo'[c].pc = "muerto" /\ hijo[c].pc # "no")
    PROVE  Avance'
<1>1. Procesos /\ DOMAIN pedidos' = Conexiones /\ DOMAIN respuestas' = Conexiones
      /\ DOMAIN disco' = Nodos /\ \A w \in Nodos : respuestas'[De(w)] \in Seq(Respuesta)
  BY DEF Avance, Procesos
<1>2. \A c \in Conexiones : hijo'[c].pc # "no" => hijo[c].pc # "no"
  OBVIOUS
<1>3. Procesos'
  BY <1>1, <1>2, ProcesosIguales
<1> QED
  BY <1>3, HijosQuietos DEF Quietos

LEMMA MuereAvance ==
    ASSUME Avance, NEW c \in Conexiones, hijo[c].pc # "no", Muere(c),
           UNCHANGED <<aceptadas, pedidos, respuestas, disco, almacenado, maestro>>
    PROVE  Avance'
<1>1. /\ DOMAIN hijo' = Conexiones /\ hijo'[c].pc = "muerto"
      /\ \A d \in Conexiones \ {c} : hijo'[d] = hijo[d]
  <2>1. Procesos /\ Sigue(c, "muerto", 0)
    BY DEF Avance, Muere
  <2> QED
    BY <2>1, SigueHijo
<1> QED
  BY <1>1, MueranAvance

(* A reduction: what it reads, writes and replies.                         *)
LEMMA ReducirAvance ==
    ASSUME Avance, NEW w \in Nodos, w \in maestro.espera, EnCurso(w), pedidos[De(w)] = <<>>,
           hijo[De(w)].pc \in {"L", "G"}, maestro.etapa = hijo[De(w)].pc,
           NEW archivos, NEW salida, NEW ok \in BOOLEAN,
           Reducir(De(w), archivos, salida, ok),
           salida = IF maestro.etapa = "L" THEN RL(w) ELSE RG,
           ok => UNION {disco[w][f] : f \in archivos}
                     = IF maestro.etapa = "L" THEN Todo(w) ELSE Bloques
    PROVE  Avance'
<1> DEFINE c == De(w)
           debe == IF maestro.etapa = "L" THEN Todo(w) ELSE Bloques
<1>0. PICK datos : datos = IF ok THEN UNION {disco[w][f] : f \in archivos \cap DOMAIN disco[w]}
                                 ELSE {}
  OBVIOUS
<1>1. Procesos /\ EtapasPasadas /\ c \in Conexiones /\ c[1] = w
  BY ConexionesDe DEF Avance
<1>2. /\ ok => archivos \subseteq DOMAIN disco[w]
      /\ Guarda(w, salida, datos)
      /\ Responde(c, ok, {}) /\ Sigue(c, "lee", 0)
      /\ UNCHANGED <<aceptadas, pedidos, almacenado, maestro>>
  BY <1>0, <1>1 DEF Reducir
<1>3. ok => datos = debe
  <2> SUFFICES ASSUME ok PROVE datos = debe
    OBVIOUS
  <2>1. archivos \cap DOMAIN disco[w] = archivos
    BY <1>2
  <2> QED
    BY <1>0, <2>1
<1>4. /\ DOMAIN disco' = Nodos /\ \A v \in Nodos \ {w} : disco'[v] = disco[v]
      /\ Nombrado(w, salida, datos)'
  BY <1>1, <1>2, GuardaDisco DEF Procesos
<1>5. EtapasPasadas'
  <2>1. \A b : salida # TR(b)
    BY Nombres
  <2>2. maestro.etapa \notin {"T", "L"} => salida # RL(w)
    BY Nombres
  <2>3. DOMAIN disco = Nodos /\ maestro.etapa \notin {"S", "fin"}
    BY <1>1 DEF Procesos
  <2> QED
    BY <1>1, <1>2, <2>1, <2>2, <2>3, PasadasGuarda
<1>6. /\ \A v \in Nodos \ {w} : Atendido(v)'
      /\ \A v \in Nodos \ {Host} : Hermano(v)'
  <2>1. \A d \in Conexiones \ {c} : hijo'[d] = hijo[d]
    BY <1>1, <1>2, SigueHijo
  <2>2. \A d \in Conexiones \ {c} : respuestas'[d] = respuestas[d]
    BY <1>1, <1>2, RespuestaNueva
  <2>3. \A d \in Conexiones \ {c} : pedidos'[d] = pedidos[d] /\ respuestas'[d] = respuestas[d]
                                    /\ hijo'[d] = hijo[d]
    BY <1>2, <2>1, <2>2
  <2>4. UNCHANGED <<almacenado, maestro>>
    BY <1>2
  <2> QED
    BY <1>4, <2>3, <2>4, OtrosIguales
<1>7. ok => Hecho(w)'
  <2> SUFFICES ASSUME ok PROVE Hecho(w)'
    OBVIOUS
  <2>2. CASE maestro.etapa = "L"
    <3>1. salida = RL(w) /\ datos = Todo(w)
      BY <1>3, <2>2
    <3>2. Reducido(w)'
      BY <1>4, <3>1 DEF Reducido
    <3> QED
      BY <1>2, <2>2, <3>2 DEF Hecho
  <2>3. CASE maestro.etapa = "G"
    <3>1. salida = RG /\ datos = Bloques
      BY <1>3, <2>3
    <3>2. ReducidoTodo(w)'
      BY <1>4, <3>1 DEF ReducidoTodo
    <3> QED
      BY <1>2, <2>3, <3>2 DEF Hecho
  <2> QED
    BY <2>2, <2>3
<1>8. hijo[c].pc \notin Quietos /\ hijo[c].pc # "T" /\ maestro.etapa # "T"
  BY DEF Quietos
<1> QED
  BY <1>2, <1>4, <1>5, <1>6, <1>7, <1>8, Termino

LEMMA ReducirLocalAvance ==
    ASSUME Avance, NEW c \in Conexiones, NEW ok \in BOOLEAN, ReducirLocal(c, ok)
    PROVE  Avance'
<1>1. PICK w \in Nodos :
         /\ c = De(w) /\ w \in maestro.espera /\ EnCurso(w) /\ pedidos[c] = <<>>
         /\ hijo[c].pc = "L" /\ maestro.etapa = "L"
  BY Trabaja DEF ReducirLocal
<1>2. PICK archivos : archivos = {TR(Tareas[c[1]][i]) : i \in DOMAIN Tareas[c[1]]}
  OBVIOUS
<1>3. Reducir(c, archivos, RL(w), ok) /\ c[1] = w
  <2>1. c[1] = w
    BY <1>1, ConexionesDe
  <2>2. Reducir(c, archivos, RL(c[1]), ok)
    BY <1>2 DEF ReducirLocal
  <2> QED
    BY <2>1, <2>2
<1>4. UNION {disco[w][f] : f \in archivos} = Todo(w)
  <2>1. Transformado(w)
    BY <1>1 DEF Avance, EtapasPasadas
  <2>2. \A i \in DOMAIN Tareas[w] : disco[w][TR(Tareas[w][i])] = {Tareas[w][i]}
    BY <2>1 DEF Transformado, Nombrado
  <2>3. UNION {disco[w][f] : f \in archivos}
           = UNION {{Tareas[w][i]} : i \in DOMAIN Tareas[w]}
    BY <1>2, <1>3, <2>2
  <2> QED
    BY <2>3 DEF Todo
<1> QED
  BY <1>1, <1>3, <1>4, ReducirAvance

LEMMA ReducirGlobalAvance ==
    ASSUME Avance, NEW c \in Conexiones, NEW ok \in BOOLEAN, ReducirGlobal(c, ok)
    PROVE  Avance'
<1>1. PICK w \in Nodos :
         /\ c = De(w) /\ w \in maestro.espera /\ EnCurso(w) /\ pedidos[c] = <<>>
         /\ hijo[c].pc = "G" /\ maestro.etapa = "G" /\ w = Host
  BY Trabaja DEF ReducirGlobal
<1>2. PICK archivos : archivos = {RL(v) : v \in Nodos}
  OBVIOUS
<1>3. Reducir(c, archivos, RG, ok) /\ hijo[c].i = Len(Hermanos) + 1
  BY <1>2 DEF ReducirGlobal
<1>4. ASSUME NEW v \in Nodos PROVE disco[Host][RL(v)] = Todo(v)
  <2>1. CASE v = Host
    BY <1>1, <2>1 DEF Avance, EtapasPasadas, Reducido, Nombrado
  <2>2. CASE v # Host
    <3>1. PICK j \in 1 .. Len(Hermanos) : Hermanos[j] = v
      BY <2>2, HermanosTodos
    <3>2. Traidos(Host, Len(Hermanos) + 1)
      BY <1>1, <1>3 DEF EnCurso, Quietos
    <3>3. j \in 1 .. (Len(Hermanos) + 1) - 1
      BY <3>1, HermanosTodos
    <3> QED
      BY <3>1, <3>2, <3>3 DEF Traidos, Nombrado
  <2> QED
    BY <2>1, <2>2
<1>5. UNION {disco[w][f] : f \in archivos} = Bloques
  <2>1. UNION {disco[w][f] : f \in archivos} = UNION {Todo(v) : v \in Nodos}
    BY <1>1, <1>2, <1>4
  <2> QED
    BY <2>1 DEF Todo, Bloques
<1> QED
  BY <1>1, <1>3, <1>5, ReducirAvance

(* The child of the host goes on with its files at the next node.          *)
LEMMA TrayendoAvance ==
    ASSUME Avance, Host \in maestro.espera, EnCurso(Host), pedidos[De(Host)] = <<>>,
           maestro.etapa = "G", hijo[De(Host)].pc \in {"G", "obtiene"},
           NEW p \in {"G", "obtiene"}, NEW i \in 1 .. Len(Hermanos) + 1,
           p = "obtiene" => i \in DOMAIN Hermanos,
           Sigue(De(Host), p, i), Traidos(Host, i)',
           NEW r, r \in (Nodos \ {Host}) \X {"R"}, Hermano(r[1])',
           DOMAIN pedidos' = Conexiones, DOMAIN respuestas' = Conexiones,
           \A d \in Conexiones \ {r} : pedidos'[d] = pedidos[d] /\ respuestas'[d] = respuestas[d],
           DOMAIN disco' = Nodos, \A v \in Nodos \ {Host} : disco'[v] = disco[v],
           EtapasPasadas', UNCHANGED <<aceptadas, almacenado, maestro>>
    PROVE  Avance'
<1> DEFINE c == De(Host)
<1>1. Procesos /\ Host \in Nodos /\ c \in Conexiones /\ r \in Conexiones /\ r # c
      /\ r[1] \in Nodos \ {Host} /\ r = <<r[1], "R">>
  BY WorkerAssumption, ConexionesDe DEF Avance
<1>2. /\ DOMAIN hijo' = Conexiones /\ hijo'[c].pc = p /\ hijo'[c].i = i
      /\ \A d \in Conexiones \ {c} : hijo'[d] = hijo[d]
  BY <1>1, SigueHijo
<1>3. respuestas[c] = <<>> /\ respuestas'[c] = <<>> /\ pedidos'[c] = <<>>
  <2>1. hijo[c].pc \notin Quietos /\ hijo[c].pc # "T"
    BY DEF Quietos
  <2>2. Len(respuestas[c]) = 0 /\ respuestas[c] \in Seq(Respuesta)
    <3>1. Len(respuestas[c]) = 0
      BY <2>1 DEF EnCurso
    <3>2. respuestas[c] \in Seq(Respuesta)
      BY <1>1 DEF Procesos
    <3> QED
      BY <3>1, <3>2
  <2>3. respuestas[c] = <<>>
    BY <2>2, EmptySeq
  <2> QED
    BY <1>1, <2>3
<1>4. Procesos'
  <2>1. ASSUME NEW v \in Nodos PROVE respuestas'[De(v)] \in Seq(Respuesta)
    <3>1. De(v) \in Conexiones \ {r}
      BY <1>1, ConexionesDe
    <3>2. respuestas'[De(v)] = respuestas[De(v)]
      BY <3>1
    <3> QED
      BY <1>1, <3>2 DEF Procesos
  <2>2. \A d \in Conexiones : hijo'[d].pc # "no" => hijo[d].pc # "no"
    BY <1>1, <1>2
  <2> QED
    BY <1>1, <1>2, <2>1, <2>2, ProcesosIguales
<1>5. EnCurso(Host)'
  <2>1. Cuantas(Host)' = 1 /\ Len(<<>>) = 0 /\ DOMAIN <<>> = {}
    BY DEF Cuantas
  <2> QED
    BY <1>2, <1>3, <2>1 DEF EnCurso, Quietos
<1>6. ASSUME NEW v \in Nodos \ {Host} PROVE Atendido(v)'
  <2>1. De(v) \in Conexiones \ {c, r}
    BY <1>1, ConexionesDe
  <2>2. Atendido(v)
    BY DEF Avance
  <2> QED
    BY <1>2, <2>1, <2>2, AtendidoIgual
<1>7. ASSUME NEW v \in Nodos \ {Host}, v # r[1] PROVE Hermano(v)'
  <2>1. <<v, "R">> \in Conexiones \ {c, r}
    BY <1>1, <1>7, ConexionesDe
  <2>2. Hermano(v)
    BY DEF Avance
  <2> QED
    BY <1>2, <2>1, <2>2, HermanoIgual
<1>8. Atendido(Host)'
  BY <1>5 DEF Atendido
<1> QED
  BY <1>4, <1>6, <1>7, <1>8 DEF Avance

LEMMA PedirArchivoAvance == ASSUME Avance, NEW c \in Conexiones, PedirArchivo(c) PROVE Avance'
<1>1. /\ c = De(Host) /\ Host \in maestro.espera /\ EnCurso(Host) /\ pedidos[c] = <<>>
      /\ hijo[c].pc = "G" /\ maestro.etapa = "G"
  BY Trabaja DEF PedirArchivo
<1>2. PICK i : i = hijo[c].i
  OBVIOUS
<1>3. PICK v : v = Hermanos[i]
  OBVIOUS
<1> DEFINE r == <<v, "R">>
<1>4. /\ i \in DOMAIN Hermanos /\ v \in Nodos \ {Host} /\ r \in Conexiones
      /\ UNCHANGED <<aceptadas, respuestas, disco, almacenado, maestro>> /\ Procesos
  BY <1>2, <1>3, HermanosTodos, ConexionesDe DEF PedirArchivo, Avance
<1>5. CASE Muere(c) /\ UNCHANGED pedidos
  BY <1>1, <1>4, <1>5, MuereAvance
<1>6. CASE pedidos' = [pedidos EXCEPT ![r] = <<"R">>] /\ Sigue(c, "obtiene", i)
  <2>1. /\ DOMAIN pedidos' = Conexiones /\ pedidos'[r] = <<"R">>
        /\ \A d \in Conexiones \ {r} : pedidos'[d] = pedidos[d] /\ respuestas'[d] = respuestas[d]
    BY <1>4, <1>6 DEF Procesos
  <2>2. Hermano(v)'
    <3>1. Hermano(v) /\ r # c
      BY <1>1, <1>4, ConexionesDe, WorkerAssumption DEF Avance
    <3>2. hijo'[r] = hijo[r]
      BY <1>1, <1>4, <1>6, <3>1, SigueHijo
    <3> QED
      BY <1>1, <1>4, <2>1, <3>1, <3>2 DEF Hermano
  <2>3. Traidos(Host, i)'
    <3>1. Traidos(Host, i)
      BY <1>1, <1>2 DEF EnCurso, Quietos
    <3> QED
      BY <1>4, <3>1 DEF Traidos, Nombrado
  <2>4. EtapasPasadas'
    BY <1>4, PasadasIguales DEF Avance
  <2>5. i \in 1 .. Len(Hermanos) + 1
    BY <1>1, <1>2 DEF EnCurso, Quietos
  <2>6. /\ DOMAIN respuestas' = Conexiones
        /\ DOMAIN disco' = Nodos /\ \A u \in Nodos \ {Host} : disco'[u] = disco[u]
    BY <1>4 DEF Procesos
  <2>7. r \in (Nodos \ {Host}) \X {"R"} /\ r[1] = v
    BY <1>4
  <2> HIDE DEF r
  <2> QED
    BY <1>1, <1>4, <1>6, <2>1, <2>2, <2>3, <2>4, <2>5, <2>6, <2>7, TrayendoAvance
<1> QED
  BY <1>2, <1>3, <1>5, <1>6 DEF PedirArchivo

LEMMA ObtenerArchivoAvance ==
    ASSUME Avance, NEW c \in Conexiones, ObtenerArchivo(c), ~oculta' PROVE Avance'
<1>1. /\ c = De(Host) /\ Host \in maestro.espera /\ EnCurso(Host) /\ pedidos[c] = <<>>
      /\ hijo[c].pc = "obtiene" /\ maestro.etapa = "G"
  BY Trabaja DEF ObtenerArchivo
<1>2. PICK i : i = hijo[c].i
  OBVIOUS
<1>3. PICK v : v = Hermanos[i]
  OBVIOUS
<1> DEFINE r == <<v, "R">>
<1>4. /\ i \in DOMAIN Hermanos /\ v \in Nodos \ {Host} /\ r \in Conexiones
      /\ Traidos(Host, i) /\ Procesos /\ Host \in Nodos
  BY <1>1, <1>2, <1>3, HermanosTodos, ConexionesDe, WorkerAssumption DEF EnCurso, Quietos, Avance
<1>5. UNCHANGED <<aceptadas, pedidos, almacenado, maestro>>
  BY DEF ObtenerArchivo
<1>6. CASE Muere(c) /\ UNCHANGED <<respuestas, disco>>
  BY <1>1, <1>5, <1>6, MuereAvance
<1>7. CASE /\ respuestas[r] # <<>> /\ respuestas' = [respuestas EXCEPT ![r] = <<>>]
           /\ Guarda(Host, RL(v), Head(respuestas[r]).datos)
           /\ Sigue(c, "G", i + 1)
  <2>1. Hermano(v) /\ r # c
    BY <1>1, <1>4, ConexionesDe DEF Avance
  <2>2. Head(respuestas[r]).datos = Todo(v)
    <3>1. Head(respuestas[r]) \in {[ok |-> TRUE, datos |-> Todo(v)]}
      BY <1>7, <2>1, HeadTailProperties DEF Hermano
    <3> QED
      BY <3>1
  <2>3. PICK datos : datos = Todo(v)
    OBVIOUS
  <2>4. /\ DOMAIN disco' = Nodos /\ \A u \in Nodos \ {Host} : disco'[u] = disco[u]
        /\ Nombrado(Host, RL(v), datos)'
        /\ \A g, d : g # RL(v) /\ Nombrado(Host, g, d) => Nombrado(Host, g, d)'
    BY <1>4, <1>7, <2>2, <2>3, GuardaDisco DEF Procesos
  <2>5. Traidos(Host, i + 1)'
    <3> SUFFICES ASSUME NEW j \in 1 .. (i + 1) - 1
                 PROVE  Nombrado(Host, RL(Hermanos[j]), Todo(Hermanos[j]))'
      BY DEF Traidos
    <3>1. CASE Hermanos[j] = v
      BY <2>3, <2>4, <3>1 DEF Todo, Nombrado
    <3>2. CASE Hermanos[j] # v
      <4>1. j \in 1 .. i - 1
        BY <1>3, <1>4, <3>2, HermanosTodos
      <4>2. Nombrado(Host, RL(Hermanos[j]), Todo(Hermanos[j])) /\ RL(Hermanos[j]) # RL(v)
        BY <1>4, <3>2, <4>1, Nombres DEF Traidos
      <4> QED
        BY <2>4, <4>2
    <3> QED
      BY <3>1, <3>2
  <2>6. EtapasPasadas'
    <3>1. RL(v) # RL(Host) /\ \A b : RL(v) # TR(b)
      BY <1>4, Nombres
    <3> QED
      BY <1>1, <1>4, <1>5, <1>7, <2>2, <3>1, PasadasGuarda DEF Avance, Procesos
  <2>7. /\ DOMAIN respuestas' = Conexiones /\ respuestas'[r] = <<>> /\ DOMAIN pedidos' = Conexiones
        /\ \A d \in Conexiones \ {r} : pedidos'[d] = pedidos[d] /\ respuestas'[d] = respuestas[d]
    BY <1>4, <1>5, <1>7 DEF Procesos
  <2>8. Hermano(v)'
    <3>1. hijo'[r] = hijo[r]
      BY <1>4, <1>7, <2>1, SigueHijo
    <3>2. <<>> \in Seq({[ok |-> TRUE, datos |-> Todo(v)]})
      OBVIOUS
    <3> QED
      BY <1>1, <1>5, <2>1, <2>7, <3>1, <3>2 DEF Hermano, Todo
  <2>9. i + 1 \in 1 .. Len(Hermanos) + 1 /\ r \in (Nodos \ {Host}) \X {"R"} /\ r[1] = v
    BY <1>4, HermanosTodos
  <2> HIDE DEF r
  <2> QED
    BY <1>1, <1>4, <1>5, <1>7, <2>4, <2>5, <2>6, <2>7, <2>8, <2>9, TrayendoAvance
<1> QED
  <2>1. c[1] = Host /\ oculta' # TRUE
    BY <1>1, <1>4, ConexionesDe
  <2> QED
    BY <1>2, <1>3, <1>6, <1>7, <2>1 DEF ObtenerArchivo

(* What the child of the host is sent is what the local reduction left.    *)
LEMMA EnviarArchivoAvance == ASSUME Avance, NEW c \in Conexiones, EnviarArchivo(c) PROVE Avance'
<1>1. PICK w \in Nodos \ {Host} : c = <<w, "R">>
  <2>1. hijo[c].pc = "R" /\ "R" \notin Quietos /\ "R" \notin Etapas
    BY DEF EnviarArchivo, Quietos, Etapas
  <2>2. maestro.etapa \in Etapas
    BY DEF Avance, Procesos
  <2>3. ASSUME NEW w \in Nodos, c = De(w) PROVE FALSE
    <3>1. Atendido(w)
      BY DEF Avance
    <3>2. CASE w \in maestro.espera
      BY <2>1, <2>2, <2>3, <3>1, <3>2 DEF Atendido, EnCurso
    <3>3. CASE w \notin maestro.espera
      BY <2>1, <2>3, <3>1, <3>3 DEF Atendido, EnReposo
    <3> QED
      BY <3>2, <3>3
  <2> QED
    BY <2>3, ConexionesDe
<1>2. /\ Procesos /\ hijo[c].pc = "R" /\ Hermano(w) /\ c[1] = w
      /\ UNCHANGED <<aceptadas, pedidos, disco, almacenado, maestro>>
  BY <1>1 DEF EnviarArchivo, Avance
<1>3. CASE Muere(c) /\ UNCHANGED respuestas
  BY <1>2, <1>3, MuereAvance
<1>4. CASE Responde(c, TRUE, disco[w][RL(w)]) /\ Sigue(c, "lee", 0)
  <2>1. /\ DOMAIN hijo' = Conexiones /\ hijo'[c].pc = "lee"
        /\ \A d \in Conexiones \ {c} : hijo'[d] = hijo[d]
    BY <1>2, <1>4, SigueHijo
  <2>2. disco[w][RL(w)] = Todo(w)
    BY <1>1, <1>2 DEF Hermano, Avance, EtapasPasadas, Reducido, Nombrado
  <2>3. /\ respuestas'[c] = Append(respuestas[c], [ok |-> TRUE, datos |-> Todo(w)])
        /\ DOMAIN respuestas' = Conexiones
        /\ \A d \in Conexiones \ {c} : respuestas'[d] = respuestas[d]
    BY <1>2, <1>4, <2>2 DEF Responde, Procesos
  <2>4. Procesos'
    <3>1. \A v \in Nodos : respuestas'[De(v)] \in Seq(Respuesta)
      <4>1. \A v \in Nodos : De(v) \in Conexiones \ {c}
        BY <1>1, ConexionesDe
      <4> QED
        BY <1>2, <2>3, <4>1 DEF Procesos
    <3>2. \A d \in Conexiones : hijo'[d].pc # "no" => hijo[d].pc # "no"
      BY <1>2, <2>1
    <3>3. DOMAIN pedidos' = Conexiones /\ DOMAIN disco' = Nodos
      BY <1>2 DEF Procesos
    <3> QED
      BY <1>2, <2>1, <2>3, <3>1, <3>2, <3>3, ProcesosIguales
  <2>5. EtapasPasadas'
    BY <1>2, PasadasIguales DEF Avance
  <2>6. Hermano(w)'
    <3>1. respuestas'[c] \in Seq({[ok |-> TRUE, datos |-> Todo(w)]})
      <4> DEFINE d == [ok |-> TRUE, datos |-> Todo(w)]
      <4>1. respuestas[c] \in Seq({d}) /\ d \in {d} /\ respuestas'[c] = Append(respuestas[c], d)
        BY <1>1, <1>2, <2>3 DEF Hermano
      <4> HIDE DEF d
      <4>2. respuestas'[c] \in Seq({d})
        BY <4>1
      <4> QED
        BY <4>2 DEF d
    <3> QED
      BY <1>1, <1>2, <2>1, <3>1 DEF Hermano, Quietos, Todo
  <2>7. ASSUME NEW v \in Nodos PROVE Atendido(v)'
    <3>1. De(v) \in Conexiones \ {c}
      BY <1>1, ConexionesDe
    <3> QED
      BY <1>2, <2>1, <2>3, <3>1, AtendidoIgual DEF Avance
  <2>8. ASSUME NEW v \in Nodos \ {Host}, v # w PROVE Hermano(v)'
    <3>1. <<v, "R">> \in Conexiones \ {c}
      BY <1>1, <2>8, ConexionesDe
    <3> QED
      BY <1>2, <2>1, <2>3, <3>1, HermanoIgual DEF Avance
  <2> QED
    BY <2>4, <2>5, <2>6, <2>7, <2>8 DEF Avance
<1> QED
  BY <1>2, <1>3, <1>4 DEF EnviarArchivo

(* The FileSystem has stored what the global reduction left, or the master *)
(* is told that it has not.                                                *)
LEMMA AlmacenarAvance ==
    ASSUME Avance, NEW c \in Conexiones, Almacenar(c), ~oculta' PROVE Avance'
<1>1. /\ c = De(Host) /\ Host \in maestro.espera /\ EnCurso(Host) /\ pedidos[c] = <<>>
      /\ hijo[c].pc = "S" /\ maestro.etapa = "S"
  BY Trabaja DEF Almacenar
<1>2. /\ UNCHANGED <<aceptadas, pedidos, disco, maestro>>
      /\ Procesos /\ Host \in Nodos /\ c[1] = Host
  BY <1>1, WorkerAssumption, ConexionesDe DEF Almacenar, Avance
<1>3. CASE Muere(c) /\ UNCHANGED <<almacenado, respuestas>>
  BY <1>1, <1>2, <1>3, MuereAvance
<1>4. ASSUME NEW ok \in BOOLEAN, Responde(c, ok, {}), Sigue(c, "lee", 0),
             ok => almacenado' = Bloques
      PROVE  Avance'
  <2>1. \A d \in Conexiones \ {c} : hijo'[d] = hijo[d]
    BY <1>2, <1>4, SigueHijo
  <2>2. \A d \in Conexiones \ {c} : respuestas'[d] = respuestas[d]
    BY <1>1, <1>2, <1>4, RespuestaNueva
  <2>3. ASSUME NEW v \in Nodos \ {Host} PROVE Atendido(v)'
    <3>1. De(v) \in Conexiones \ {c}
      BY <1>1, <1>2, ConexionesDe
    <3>2. v \notin maestro.espera /\ v \notin Participa(maestro.etapa)
      BY <1>1, <1>2 DEF Procesos, Participa
    <3>3. EnReposo(v)
      BY <3>2 DEF Avance, Atendido
    <3>4. EnReposo(v)'
      BY <1>2, <2>1, <2>2, <3>1, <3>3 DEF EnReposo
    <3> QED
      BY <1>2, <3>2, <3>4 DEF Atendido, Participa
  <2>4. ASSUME NEW v \in Nodos \ {Host} PROVE Hermano(v)'
    <3>1. <<v, "R">> \in Conexiones \ {c}
      BY <1>1, <1>2, ConexionesDe
    <3> QED
      BY <1>2, <2>1, <2>2, <3>1, HermanoIgual DEF Avance
  <2>5. EtapasPasadas'
    BY <1>1, <1>2, PasadasIguales DEF Avance
  <2>6. ok => Hecho(Host)'
    BY <1>1, <1>2, <1>4 DEF Hecho, Bloques
  <2>7. DOMAIN disco' = Nodos /\ \A v \in Nodos \ {Host} : disco'[v] = disco[v]
    BY <1>2 DEF Procesos
  <2>8. hijo[c].pc \notin Quietos /\ hijo[c].pc # "T" /\ maestro.etapa # "T"
    BY <1>1 DEF Quietos
  <2> QED
    BY <1>1, <1>2, <1>4, <2>3, <2>4, <2>5, <2>6, <2>7, <2>8, Termino
<1>5. disco[Host][RG] = Bloques
  BY <1>1 DEF Avance, EtapasPasadas, ReducidoTodo, Nombrado
<1>6. CASE \E ok \in BOOLEAN : Responde(c, ok, {}) /\ oculta' = (oculta \/ ok) /\ Sigue(c, "lee", 0)
  <2>1. Responde(c, FALSE, {}) /\ Sigue(c, "lee", 0)
    BY <1>6
  <2> QED
    BY <1>4, <2>1
<1>7. CASE almacenado' = disco[Host][RG] /\ Responde(c, TRUE, {}) /\ Sigue(c, "lee", 0)
  BY <1>4, <1>5, <1>7
<1> QED
  BY <1>2, <1>3, <1>6, <1>7 DEF Almacenar

-----------------------------------------------------------------------------
(* Signals, and the master.                                                *)
LEMMA MatarAvance ==
    ASSUME Avance, NEW c \in Conexiones, MatarHijo(c) PROVE Avance'
BY MuereAvance DEF MatarHijo, Vivo

LEMMA TerminarAvance ==
    ASSUME Avance, NEW w \in Nodos, Terminar(w) \/ MatarAceptador(w) PROVE Avance'
<1>1. UNCHANGED <<aceptadas, pedidos, respuestas, disco, almacenado, maestro>>
  BY DEF Terminar, MatarAceptador, redVars
<1>2. DOMAIN hijo' = Conexiones
  BY DEF Terminar, MatarAceptador, Avance, Procesos
<1>3. \A c \in Conexiones : hijo'[c] = hijo[c] \/ (hijo'[c].pc = "muerto" /\ hijo[c].pc # "no")
  BY DEF Terminar, MatarAceptador, Vivo
<1> QED
  BY <1>1, <1>2, <1>3, MueranAvance

LEMMA PedirAvance ==
    ASSUME Avance, NEW w \in Nodos, Pedir(w), maestro'.bien PROVE Avance'
<1> DEFINE c == De(w)
<1>1. /\ w \in maestro.pide /\ Procesos /\ c \in Conexiones
      /\ UNCHANGED <<aceptadas, respuestas, hijo, disco, almacenado>>
  BY ConexionesDe DEF Pedir, Avance
<1>2. maestro \in [etapa : Etapas, pide : SUBSET Nodos, espera : SUBSET Nodos, bien : BOOLEAN]
  BY <1>1 DEF Procesos
<1>3. /\ maestro' = [maestro EXCEPT !.pide = @ \ {w}, !.espera = @ \cup {w}]
      /\ pedidos' = [pedidos EXCEPT ![c] = Append(@, maestro.etapa)]
  <2>1. maestro' # [maestro EXCEPT !.pide = @ \ {w}, !.bien = FALSE]
    BY <1>2
  <2> QED
    BY <2>1 DEF Pedir
<1>4. /\ maestro'.etapa = maestro.etapa /\ maestro'.pide = maestro.pide \ {w}
      /\ maestro'.espera = maestro.espera \cup {w}
      /\ maestro' \in [etapa : Etapas, pide : SUBSET Nodos, espera : SUBSET Nodos, bien : BOOLEAN]
  BY <1>2, <1>3
<1>5. w \notin maestro.espera /\ w \in Participa(maestro.etapa)
  BY <1>1 DEF Procesos
<1>6. /\ DOMAIN pedidos' = Conexiones /\ pedidos'[c] = Append(pedidos[c], maestro.etapa)
      /\ \A d \in Conexiones \ {c} : pedidos'[d] = pedidos[d]
  BY <1>1, <1>3 DEF Procesos
<1>7. Procesos'
  <2>1. maestro'.pide \cup maestro'.espera \subseteq Participa(maestro.etapa)
    BY <1>1, <1>4, <1>5 DEF Procesos
  <2>2. maestro'.pide \cap maestro'.espera = {}
    BY <1>1, <1>4 DEF Procesos
  <2> QED
    BY <1>1, <1>4, <1>6, <2>1, <2>2 DEF Procesos, Participa, Aceptada
<1>8. EtapasPasadas'
  BY <1>1, <1>4 DEF Avance, EtapasPasadas, Transformado, Reducido, ReducidoTodo, Nombrado
<1>9. EnReposo(w)
  BY <1>5 DEF Avance, Atendido
<1>10. EnCurso(w)'
  <2>1. pedidos'[c] = <<maestro.etapa>> /\ respuestas'[c] = <<>> /\ hijo'[c].pc \in Quietos
    BY <1>1, <1>6, <1>9 DEF EnReposo
  <2>2. Cuantas(w)' \in Nat /\ Len(<<>>) = 0 /\ DOMAIN <<>> = {} /\ <<maestro.etapa>> # <<>>
    BY TareasType DEF Cuantas
  <2> QED
    BY <1>4, <2>1, <2>2 DEF EnCurso
<1>11. ASSUME NEW v \in Nodos, v # w PROVE Atendido(v)'
  <2>1. De(v) \in Conexiones \ {c} /\ Atendido(v)
    BY <1>11, ConexionesDe DEF Avance
  <2>2. /\ \A f, d : Nombrado(v, f, d)' <=> Nombrado(v, f, d)
        /\ Cuantas(v)' = Cuantas(v)
    BY <1>1, <1>4 DEF Nombrado, Cuantas
  <2>3. Hecho(v)' <=> Hecho(v)
    BY <1>1, <1>4, <2>2 DEF Hecho, Transformado, Reducido, ReducidoTodo
  <2>4. \A i : Traidos(v, i)' <=> Traidos(v, i)
    BY <2>2 DEF Traidos
  <2>5. EnCurso(v)' <=> EnCurso(v)
    BY <1>1, <1>4, <1>6, <2>1, <2>2, <2>3, <2>4 DEF EnCurso
  <2>6. EnReposo(v)' <=> EnReposo(v)
    BY <1>1, <1>6, <2>1 DEF EnReposo
  <2> QED
    BY <1>4, <1>11, <2>1, <2>3, <2>5, <2>6 DEF Atendido, Participa
<1>12. Atendido(w)'
  BY <1>4, <1>10 DEF Atendido
<1>13. ASSUME NEW v \in Nodos \ {Host} PROVE Hermano(v)'
  <2>1. <<v, "R">> \in Conexiones \ {c}
    BY ConexionesDe
  <2> QED
    BY <1>1, <1>4, <1>6, <2>1 DEF Avance, Hermano
<1> QED
  BY <1>7, <1>8, <1>11, <1>12, <1>13 DEF Avance

(* The replies of w are all there and good: it is done.                    *)
LEMMA LeerRespuestaAvance ==
    ASSUME Avance, NEW w \in Nodos, LeerRespuesta(w), maestro'.bien, ~oculta'
    PROVE  Avance'
<1> DEFINE c == De(w)
           s == respuestas[c]
           bien == \A i \in DOMAIN s : s[i].ok
           todas == Len(s) = Cuantas(w)
<1>1. /\ w \in maestro.espera /\ Procesos /\ c \in Conexiones
      /\ UNCHANGED <<aceptadas, pedidos, hijo, disco, almacenado>>
  BY ConexionesDe DEF LeerRespuesta, Avance
<1>2. maestro \in [etapa : Etapas, pide : SUBSET Nodos, espera : SUBSET Nodos, bien : BOOLEAN]
  BY <1>1 DEF Procesos
<1>3. /\ maestro' = [maestro EXCEPT !.espera = @ \ {w}, !.bien = @ /\ bien /\ todas]
      /\ respuestas' = [respuestas EXCEPT ![c] = <<>>]
  <2>1. PICK basura \in BOOLEAN :
           /\ oculta' = (oculta \/ basura)
           /\ maestro' = [maestro EXCEPT !.espera = @ \ {w}, !.bien = @ /\ (basura \/ (bien /\ todas))]
    BY DEF LeerRespuesta
  <2>2. basura = FALSE
    BY <2>1
  <2> QED
    BY <2>1, <2>2 DEF LeerRespuesta
<1>4. /\ maestro'.etapa = maestro.etapa /\ maestro'.pide = maestro.pide
      /\ maestro'.espera = maestro.espera \ {w}
      /\ maestro' \in [etapa : Etapas, pide : SUBSET Nodos, espera : SUBSET Nodos, bien : BOOLEAN]
      /\ bien /\ todas
  <2> HIDE DEF bien, todas
  <2>1. maestro'.bien = (maestro.bien /\ bien /\ todas)
    BY <1>2, <1>3
  <2> QED
    BY <1>2, <1>3, <2>1
<1>5. EnCurso(w) /\ w \in Participa(maestro.etapa) /\ w \notin maestro.pide
  BY <1>1 DEF Avance, Atendido, Procesos
<1>6. s \in Seq(Respuesta) /\ Len(s) \in Nat \ {0} /\ DOMAIN s = 1 .. Len(s)
  <2>1. Cuantas(w) \in Nat \ {0}
    BY TareasType DEF Cuantas
  <2> QED
    BY <1>1, <1>4, <2>1 DEF Procesos
<1>7. hijo[c].pc \in Quietos /\ pedidos[c] = <<>>
  <2>1. hijo[c].pc \in Quietos
    <3> SUFFICES ASSUME hijo[c].pc \notin Quietos PROVE FALSE
      OBVIOUS
    <3>1. Len(s) = IF hijo[c].pc = "T" THEN hijo[c].i - 1 ELSE 0
      BY <1>5 DEF EnCurso
    <3>2. hijo[c].pc = "T" /\ maestro.etapa = "T" /\ hijo[c].i \in DOMAIN Tareas[w]
      BY <1>5, <1>6, <3>1 DEF EnCurso
    <3>3. Len(s) = Len(Tareas[w])
      BY <1>4, <3>2 DEF Cuantas
    <3> QED
      BY <3>1, <3>2, <3>3, TareasType
  <2>2. s # <<>>
    BY <1>6
  <2> QED
    BY <1>5, <2>1, <2>2 DEF EnCurso
<1>8. Hecho(w)
  <2>1. CASE maestro.etapa = "T"
    <3>1. DOMAIN s = DOMAIN Tareas[w]
      BY <1>4, <1>6, <2>1, TareasType DEF Cuantas
    <3>2. Transformado(w)
      BY <1>4, <1>5, <2>1, <3>1 DEF EnCurso, Transformado
    <3> QED
      BY <2>1, <3>2 DEF Hecho
  <2>2. CASE maestro.etapa # "T"
    <3>1. s # <<>>
      BY <1>6
    <3> QED
      BY <1>4, <1>5, <2>2, <3>1 DEF EnCurso
  <2> QED
    BY <2>1, <2>2
<1>9. /\ DOMAIN respuestas' = Conexiones /\ respuestas'[c] = <<>>
      /\ \A d \in Conexiones \ {c} : respuestas'[d] = respuestas[d]
  BY <1>1, <1>3 DEF Procesos
<1> HIDE DEF s, bien, todas
<1>10. Procesos'
  <2>1. ASSUME NEW v \in Nodos PROVE respuestas'[De(v)] \in Seq(Respuesta)
    <3>1. CASE De(v) = c
      BY <1>9, <3>1, EmptySeq
    <3>2. CASE De(v) # c
      BY <1>1, <1>9, <3>2, ConexionesDe DEF Procesos
    <3> QED
      BY <3>1, <3>2
  <2>2. /\ maestro'.pide \cup maestro'.espera \subseteq Participa(maestro.etapa)
        /\ maestro'.pide \cap maestro'.espera = {}
    BY <1>1, <1>4 DEF Procesos
  <2> QED
    BY <1>1, <1>4, <1>9, <2>1, <2>2 DEF Procesos, Participa, Aceptada
<1>11. EtapasPasadas'
  BY <1>1, <1>4 DEF Avance, EtapasPasadas, Transformado, Reducido, ReducidoTodo, Nombrado
<1>12. Atendido(w)'
  <2>1. Hecho(w)'
    BY <1>1, <1>4, <1>8 DEF Hecho, Transformado, Reducido, ReducidoTodo, Nombrado
  <2>2. EnReposo(w)'
    BY <1>1, <1>7, <1>9 DEF EnReposo
  <2> QED
    BY <1>4, <2>1, <2>2 DEF Atendido
<1>13. ASSUME NEW v \in Nodos, v # w PROVE Atendido(v)'
  <2>1. De(v) \in Conexiones \ {c} /\ Atendido(v)
    BY <1>13, ConexionesDe DEF Avance
  <2>2. /\ \A f, d : Nombrado(v, f, d)' <=> Nombrado(v, f, d)
        /\ Cuantas(v)' = Cuantas(v)
    BY <1>1, <1>4 DEF Nombrado, Cuantas
  <2>3. Hecho(v)' <=> Hecho(v)
    BY <1>1, <1>4, <2>2 DEF Hecho, Transformado, Reducido, ReducidoTodo
  <2>4. \A i : Traidos(v, i)' <=> Traidos(v, i)
    BY <2>2 DEF Traidos
  <2>5. EnCurso(v)' <=> EnCurso(v)
    BY <1>1, <1>4, <1>9, <2>1, <2>2, <2>3, <2>4 DEF EnCurso
  <2>6. EnReposo(v)' <=> EnReposo(v)
    BY <1>1, <1>9, <2>1 DEF EnReposo
  <2> QED
    BY <1>4, <1>13, <2>1, <2>3, <2>5, <2>6 DEF Atendido, Participa
<1>14. ASSUME NEW v \in Nodos \ {Host} PROVE Hermano(v)'
  <2>1. <<v, "R">> \in Conexiones \ {c}
    BY ConexionesDe
  <2> QED
    BY <1>1, <1>4, <1>9, <2>1 DEF Avance, Hermano
<1> QED
  BY <1>10, <1>11, <1>12, <1>13, <1>14 DEF Avance

LEMMA AvanzarAvance == ASSUME Avance, Avanzar, maestro'.bien PROVE Avance'
<1> DEFINE despues == [T |-> "L", L |-> "G", G |-> "S", S |-> "fin"]
<1>1. /\ Procesos /\ maestro.etapa # "fin" /\ maestro.pide = {} /\ maestro.espera = {}
      /\ UNCHANGED <<aceptadas, pedidos, respuestas, hijo, disco, almacenado>>
  BY DEF Avanzar, Avance
<1>2. maestro \in [etapa : Etapas, pide : SUBSET Nodos, espera : SUBSET Nodos, bien : BOOLEAN]
  BY <1>1 DEF Procesos
<1>3. PICK e : e = despues[maestro.etapa]
  OBVIOUS
<1>4. /\ maestro.etapa \in {"T", "L", "G", "S"}
      /\ e = CASE maestro.etapa = "T" -> "L" [] maestro.etapa = "L" -> "G"
                [] maestro.etapa = "G" -> "S" [] OTHER -> "fin"
  BY <1>1, <1>2, <1>3 DEF Etapas
<1>5. /\ maestro'.etapa = e
      /\ maestro'.pide = CASE e = "fin" -> {} [] e = "L" -> Nodos [] OTHER -> {Host}
      /\ maestro'.espera = {} /\ maestro'.bien
      /\ maestro' \in [etapa : Etapas, pide : SUBSET Nodos, espera : SUBSET Nodos, bien : BOOLEAN]
  <2>1. maestro' = [maestro EXCEPT !.etapa = IF maestro.bien THEN e ELSE "fin",
           !.pide = CASE (IF maestro.bien THEN e ELSE "fin") = "fin" -> {}
                      [] (IF maestro.bien THEN e ELSE "fin") = "L" -> Nodos [] OTHER -> {Host}]
    BY <1>3 DEF Avanzar
  <2>2. maestro.bien
    BY <1>2, <2>1
  <2>3. maestro' = [maestro EXCEPT !.etapa = e,
           !.pide = CASE e = "fin" -> {} [] e = "L" -> Nodos [] OTHER -> {Host}]
    BY <2>1, <2>2
  <2>4. e \in Etapas /\ (CASE e = "fin" -> {} [] e = "L" -> Nodos [] OTHER -> {Host}) \in SUBSET Nodos
    BY <1>4, WorkerAssumption DEF Etapas
  <2> QED
    BY <1>1, <1>2, <2>2, <2>3, <2>4
<1> HIDE DEF despues
<1>6. maestro'.pide = Participa(e)
  BY <1>4, <1>5 DEF Participa
<1>7. Procesos'
  BY <1>1, <1>5, <1>6 DEF Procesos, Participa, Aceptada
<1>8. \A v \in Nodos : EnReposo(v) /\ (v \in Participa(maestro.etapa) => Hecho(v))
  BY <1>1 DEF Avance, Atendido
<1>9. EtapasPasadas'
  <2>1. CASE maestro.etapa = "T"
    <3>1. \A v \in Nodos : Transformado(v)
      BY <1>8, <2>1 DEF Participa, Hecho
    <3> QED
      BY <1>1, <1>4, <1>5, <2>1, <3>1 DEF EtapasPasadas, Transformado, Nombrado
  <2>2. CASE maestro.etapa = "L"
    <3>1. \A v \in Nodos : Reducido(v)
      BY <1>8, <2>2 DEF Participa, Hecho
    <3>2. \A v \in Nodos : Transformado(v)
      BY <2>2 DEF Avance, EtapasPasadas
    <3> QED
      BY <1>1, <1>4, <1>5, <2>2, <3>1, <3>2 DEF EtapasPasadas, Transformado, Reducido, Nombrado
  <2>3. CASE maestro.etapa = "G"
    <3>1. ReducidoTodo(Host)
      BY <1>8, <2>3, WorkerAssumption DEF Participa, Hecho
    <3>2. \A v \in Nodos : Transformado(v) /\ Reducido(v)
      BY <2>3 DEF Avance, EtapasPasadas
    <3> QED
      BY <1>1, <1>4, <1>5, <2>3, <3>1, <3>2
      DEF EtapasPasadas, Transformado, Reducido, ReducidoTodo, Nombrado
  <2>4. CASE maestro.etapa = "S"
    <3>1. almacenado = Bloques
      BY <1>8, <2>4, WorkerAssumption DEF Participa, Hecho
    <3>2. /\ \A v \in Nodos : Transformado(v) /\ Reducido(v)
          /\ ReducidoTodo(Host)
      BY <2>4 DEF Avance, EtapasPasadas
    <3> QED
      BY <1>1, <1>4, <1>5, <2>4, <3>1, <3>2
      DEF EtapasPasadas, Transformado, Reducido, ReducidoTodo, Nombrado
  <2> QED
    BY <1>4, <2>1, <2>2, <2>3, <2>4
<1>10. ASSUME NEW v \in Nodos PROVE Atendido(v)'
  <2>1. EnReposo(v)'
    BY <1>1, <1>8 DEF EnReposo
  <2>2. v \notin maestro'.espera /\ v \notin Participa(maestro'.etapa) \ maestro'.pide
    BY <1>5, <1>6
  <2> QED
    BY <2>1, <2>2 DEF Atendido, Participa
<1>11. ASSUME NEW v \in Nodos \ {Host} PROVE Hermano(v)'
  <2>1. e \in {"T", "L"} => maestro.etapa = "T"
    BY <1>4
  <2> QED
    BY <1>1, <1>5, <2>1 DEF Avance, Hermano
<1> QED
  BY <1>7, <1>9, <1>10, <1>11 DEF Avance

-----------------------------------------------------------------------------
LEMMA InitAvance == Init => Avance
<1> SUFFICES ASSUME Init PROVE Avance
  OBVIOUS
<1>1. /\ DOMAIN hijo = Conexiones /\ DOMAIN pedidos = Conexiones
      /\ DOMAIN respuestas = Conexiones /\ DOMAIN disco = Nodos
      /\ aceptadas \in [Nodos -> Seq(Conexiones)]
      /\ \A c \in Conexiones : hijo[c].pc = "no" /\ pedidos[c] = <<>> /\ respuestas[c] = <<>>
  <2>1. <<>> \in Seq(Conexiones)
    BY EmptySeq
  <2> QED
    BY <2>1 DEF Init
<1>2. /\ maestro.etapa = "T" /\ maestro.pide = Nodos /\ maestro.espera = {}
      /\ maestro \in [etapa : Etapas, pide : SUBSET Nodos, espera : SUBSET Nodos, bien : BOOLEAN]
  BY DEF Init, Etapas
<1>3. Procesos
  <2>1. \A v \in Nodos : respuestas[De(v)] \in Seq(Respuesta)
    <3>1. <<>> \in Seq(Respuesta)
      BY EmptySeq
    <3> QED
      BY <1>1, <3>1, ConexionesDe
  <2> QED
    BY <1>1, <1>2, <2>1 DEF Procesos, Participa
<1>4. EtapasPasadas
  BY <1>2 DEF EtapasPasadas
<1>5. ASSUME NEW v \in Nodos PROVE Atendido(v)
  BY <1>1, <1>2, ConexionesDe DEF Atendido, EnReposo, Quietos
<1>6. ASSUME NEW v \in Nodos \ {Host} PROVE Hermano(v)
  <2>1. <<>> \in Seq({[ok |-> TRUE, datos |-> Todo(v)]})
    BY EmptySeq
  <2>2. /\ pedidos[<<v, "R">>] = <<>> /\ respuestas[<<v, "R">>] = <<>>
        /\ hijo[<<v, "R">>].pc = "no"
    BY <1>1, ConexionesDe
  <2> QED
    BY <1>2, <2>1, <2>2 DEF Hermano, Quietos
<1> QED
  BY <1>3, <1>4, <1>5, <1>6 DEF Avance

(* A master that fails does not recover, and what was hidden stays so.     *)
LEMMA NoVuelve ==
    ASSUME maestro \in Fases, Next
    PROVE  maestro' \in Fases /\ (maestro'.bien /\ ~oculta' => maestro.bien /\ ~oculta)
<1>1. CASE Avanzar
  <2> DEFINE despues == [T |-> "L", L |-> "G", G |-> "S", S |-> "fin"]
  <2>1. PICK e : e = IF maestro.bien THEN despues[maestro.etapa] ELSE "fin"
    OBVIOUS
  <2>2. e \in Etapas
    BY <1>1, <2>1 DEF Avanzar, Fases, Etapas
  <2>3. PICK p : p = CASE e = "fin" -> {} [] e = "L" -> Nodos [] OTHER -> {Host}
    OBVIOUS
  <2>4. p \in SUBSET Nodos
    BY <2>2, <2>3, WorkerAssumption
  <2>5. maestro' = [maestro EXCEPT !.etapa = e, !.pide = p] /\ oculta' = oculta
    BY <1>1, <2>1, <2>3 DEF Avanzar
  <2> HIDE DEF despues
  <2> QED
    BY <2>2, <2>4, <2>5 DEF Fases
<1>2. ASSUME NEW w \in Nodos, Pedir(w)
      PROVE  maestro' \in Fases /\ (maestro'.bien => maestro.bien) /\ oculta' = oculta
  <2>1. \/ maestro' = [maestro EXCEPT !.pide = @ \ {w}, !.bien = FALSE]
        \/ maestro' = [maestro EXCEPT !.pide = @ \ {w}, !.espera = @ \cup {w}]
    BY <1>2 DEF Pedir
  <2>2. oculta' = oculta
    BY <1>2 DEF Pedir
  <2>3. CASE maestro' = [maestro EXCEPT !.pide = @ \ {w}, !.bien = FALSE]
    BY <2>2, <2>3 DEF Fases
  <2>4. CASE maestro' = [maestro EXCEPT !.pide = @ \ {w}, !.espera = @ \cup {w}]
    BY <2>2, <2>4 DEF Fases
  <2> QED
    BY <2>1, <2>3, <2>4
<1>3. ASSUME NEW w \in Nodos, LeerRespuesta(w)
      PROVE  maestro' \in Fases /\ (maestro'.bien => maestro.bien) /\ (~oculta' => ~oculta)
  <2>1. PICK basura \in BOOLEAN :
           /\ oculta' = (oculta \/ basura)
           /\ \E bien \in BOOLEAN :
                 maestro' = [maestro EXCEPT !.espera = @ \ {w}, !.bien = @ /\ bien]
    BY <1>3 DEF LeerRespuesta
  <2> QED
    BY <2>1 DEF Fases
<1>4. ASSUME ~Maestro PROVE maestro' = maestro /\ (~oculta' => ~oculta)
  <2>1. ASSUME NEW w \in Nodos, Aceptar(w) \/ Terminar(w) \/ MatarAceptador(w)
        PROVE  maestro' = maestro /\ oculta' = oculta
    BY <2>1 DEF Aceptar, Terminar, MatarAceptador
  <2>2. ASSUME NEW c \in Conexiones, MatarHijo(c)
        PROVE  maestro' = maestro /\ oculta' = oculta
    BY <2>2 DEF MatarHijo
  <2>3. ASSUME NEW c \in Conexiones, LeerPedido(c) \/ PedirArchivo(c) \/ EnviarArchivo(c)
        PROVE  maestro' = maestro /\ oculta' = oculta
    BY <2>3 DEF LeerPedido, PedirArchivo, EnviarArchivo
  <2>4. ASSUME NEW c \in Conexiones, ObtenerArchivo(c) \/ Almacenar(c)
        PROVE  maestro' = maestro /\ (~oculta' => ~oculta)
    <3>1. oculta' = oculta \/ oculta' = TRUE \/ \E ok \in BOOLEAN : oculta' = (oculta \/ ok)
      BY <2>4, Zenon DEF ObtenerArchivo, Almacenar
    <3>2. maestro' = maestro
      BY <2>4 DEF ObtenerArchivo, Almacenar
    <3>3. ASSUME ~oculta' PROVE ~oculta
      BY <3>1, <3>3, Zenon
    <3> QED
      BY <3>2, <3>3
  <2>5. ASSUME NEW c \in Conexiones, NEW ok \in BOOLEAN, ReducirLocal(c, ok) \/ ReducirGlobal(c, ok)
        PROVE  maestro' = maestro /\ oculta' = oculta
    BY <2>5 DEF ReducirLocal, ReducirGlobal, Reducir
  <2>6. ASSUME NEW c \in Conexiones, NEW guion \in BOOLEAN, NEW orden \in BOOLEAN,
               Transformar(c, guion, orden)
        PROVE  maestro' = maestro /\ (~oculta' => ~oculta)
    BY <2>6 DEF Transformar
  <2> QED
    BY <1>4, <2>1, <2>2, <2>3, <2>4, <2>5, <2>6 DEF Next, Hijo
<1> QED
  BY <1>1, <1>2, <1>3, <1>4 DEF Maestro

LEMMA InitIInv == Init => IInv
BY InitAvance DEF Init, IInv, Fases, Etapas

LEMMA NextIInv == IInv /\ [Next]_vars => IInv'
<1> SUFFICES ASSUME IInv, [Next]_vars PROVE IInv'
  OBVIOUS
<1>1. CASE UNCHANGED vars
  <2>1. UNCHANGED <<aceptadas, pedidos, respuestas, hijo, disco, almacenado, maestro, oculta>>
    BY <1>1 DEF vars, redVars
  <2>2. Avance => Avance'
    <3>1. Avance => DOMAIN hijo' = Conexiones
      BY <2>1 DEF Avance, Procesos
    <3> QED
      BY <2>1, <3>1, MueranAvance
  <2> QED
    BY <2>1, <2>2 DEF IInv, Fases
<1>2. CASE Next
  <2>1. maestro' \in Fases /\ (maestro'.bien /\ ~oculta' => maestro.bien /\ ~oculta)
    BY <1>2, NoVuelve DEF IInv
  <2>2. ASSUME maestro'.bien, ~oculta' PROVE Avance'
    <3>1. Avance
      BY <2>1, <2>2 DEF IInv
    <3>2. CASE Maestro
      BY <2>2, <3>1, <3>2, AvanzarAvance, PedirAvance, LeerRespuestaAvance DEF Maestro
    <3>3. ASSUME NEW w \in Nodos, Aceptar(w) \/ Terminar(w) \/ MatarAceptador(w) PROVE Avance'
      BY <3>1, <3>3, AceptarAvance, TerminarAvance
    <3>4. ASSUME NEW c \in Conexiones, MatarHijo(c) PROVE Avance'
      BY <3>1, <3>4, MatarAvance
    <3>5. ASSUME NEW c \in Conexiones, Hijo(c) PROVE Avance'
      BY <2>2, <3>1, <3>5, LeerPedidoAvance, PedirArchivoAvance, ObtenerArchivoAvance,
         EnviarArchivoAvance, AlmacenarAvance, ReducirLocalAvance, ReducirGlobalAvance,
         TransformarAvance DEF Hijo
    <3> QED
      BY <1>2, <3>2, <3>3, <3>4, <3>5 DEF Next
  <2> QED
    BY <2>1, <2>2 DEF IInv, Fases
<1> QED
  BY <1>1, <1>2

(* A job that ends well, and whose failures were all told, has stored what *)
(* every block of every node was made into.                                *)
THEOREM ResultOfAll == Spec => []ResultadoDeTodos
<1>1. IInv => ResultadoDeTodos
  BY DEF IInv, Avance, EtapasPasadas, ResultadoDeTodos
<1> QED
  BY <1>1, InitIInv, NextIInv, PTL DEF Spec
=============================================================================
