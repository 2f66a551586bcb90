------------------------------ MODULE FsProofs -------------------------------
(***************************************************************************)
(* The FileSystem process, its two parts that share no state:              *)
(*   its directories: they and the metadata of files keep their form, and  *)
(*     files are lost to no command that should not lose them, for tables, *)
(*     paths and numbers of files of any size;                             *)
(*   its server: the list of nodes is sound, every node has one handler    *)
(*     thread and instances are counted, for any number of nodes,          *)
(*     connections, files and departures.                                  *)
(***************************************************************************)
EXTENDS FsDirectorios, FsServidor, SequenceTheorems, Recursion

-----------------------------------------------------------------------------
(* Paths and tables: where a path leads, what existeDirectorio returns, and*)
(* that a change of one entry keeps a tree a tree.                         *)

Ruta == Seq(Nombres \cup {Punto})

(* The root is an index, and what is not found is none.                    *)
LEMMA IndicesNaturales ==
    0 \in Indices /\ Nadie \notin Indices /\ Indices \subseteq Nat
BY FsDirectoriosAssumption DEF Indices, Nadie

(* The child that is found has the name, and one is found if there is any. *)
LEMMA HijoEs ==
    ASSUME NEW t, NEW i, NEW x
    PROVE  /\ \/ Hijo(t, i, x) = Nadie
              \/ /\ i # Nadie /\ Hijo(t, i, x) \in Indices
                 /\ t[Hijo(t, i, x)].nombre = x /\ t[Hijo(t, i, x)].padre = i
           /\ \A j \in Indices :
                i # Nadie /\ t[j].nombre = x /\ t[j].padre = i => Hijo(t, i, x) # Nadie
<1> DEFINE hijos == {j \in Indices : t[j].nombre = x /\ t[j].padre = i}
<1>1. CASE i = Nadie \/ hijos = {}
  BY <1>1 DEF Hijo
<1>2. CASE i # Nadie /\ hijos # {}
  <2>1. PICK m \in hijos : \A k \in hijos : m <= k
    <3>1. hijos \in SUBSET Nat
      BY IndicesNaturales
    <3> HIDE DEF hijos
    <3> QED
      BY <1>2, <3>1, MenorNatural
  <2>2. Hijo(t, i, x) = CHOOSE j \in hijos : \A k \in hijos : j <= k
    BY <1>2 DEF Hijo
  <2>3. Hijo(t, i, x) \in hijos
    <3> HIDE DEF hijos
    <3> QED
      BY <2>1, <2>2
  <2> QED
    BY <1>2, <2>3, IndicesNaturales
<1> QED
  BY <1>1, <1>2

(* A child is an index, or nobody.                                         *)
LEMMA HijoTipo ==
    ASSUME NEW t, NEW i, NEW x
    PROVE  Hijo(t, i, x) \in Indices \cup {Nadie}
BY HijoEs

(* The function that Camino computes exists.                               *)
LEMMA CaminoHasta ==
    ASSUME NEW t, NEW p \in Ruta
    PROVE  \E h \in [0 .. Len(p) -> Indices \cup {Nadie}] :
              /\ h[0] = 0 /\ \A k \in 1 .. Len(p) : h[k] = Hijo(t, h[k - 1], p[k])
              /\ Camino(t, p) = h[Len(p)]
<1> DEFINE V == Indices \cup {Nadie}
           n == Len(p)
           paso == [k \in 1 .. n |-> [v \in V |-> Hijo(t, v, p[k])]]
           Es(h) == h = [k \in 0 .. n |-> IF k = 0 THEN 0 ELSE Hijo(t, h[k - 1], p[k])]
<1>1. n \in Nat
  BY DEF Ruta
<1>2. 0 \in V /\ paso \in [1 .. n -> [V -> V]]
  BY HijoTipo, IndicesNaturales
<1>3. \A v \in V, k \in 1 .. n : paso[k][v] = Hijo(t, v, p[k])
  OBVIOUS
<1>4. PICK g : g \in [0 .. n -> V] /\ g[0] = 0 /\ \A k \in 1 .. n : g[k] = paso[k][g[k - 1]]
  <2> HIDE DEF V, paso, n
  <2>1. \E g : PorPasos(g, n, V, 0, paso)
    BY <1>1, <1>2, Recursiva
  <2> QED
    BY <2>1 DEF PorPasos
<1>5. Es(g)
  <2>1. ASSUME NEW k \in 1 .. n PROVE g[k] = Hijo(t, g[k - 1], p[k])
    <3>1. k - 1 \in 0 .. n
      BY <1>1
    <3>2. g[k - 1] \in V
      BY <3>1, <1>4
    <3> QED
      BY <3>2, <1>3, <1>4
  <2>2. \A k \in 0 .. n : g[k] = IF k = 0 THEN 0 ELSE Hijo(t, g[k - 1], p[k])
    BY <1>1, <1>4, <2>1
  <2>3. g = [k \in 0 .. n |-> g[k]]
    BY <1>4
  <2> QED
    BY <2>2, <2>3
<1> DEFINE f == CHOOSE h : Es(h)
<1>6. Es(f)
  <2> HIDE DEF Es
  <2> QED
    BY <1>5
<1>7. Camino(t, p) = f[Len(p)]
  BY Zenon DEF Camino
<1>8. f = [k \in 0 .. n |-> IF k = 0 THEN 0 ELSE Hijo(t, f[k - 1], p[k])]
  BY <1>6
<1> HIDE DEF f
<1>9. /\ f \in [0 .. n -> V] /\ f[0] = 0
      /\ \A k \in 1 .. n : f[k] = Hijo(t, f[k - 1], p[k])
  BY <1>1, <1>8, HijoTipo, IndicesNaturales
<1> QED
  BY <1>7, <1>9

(* No names lead to the root.                                              *)
LEMMA CaminoVacio ==
    ASSUME NEW t
    PROVE  Camino(t, <<>>) = 0
<1>1. <<>> \in Ruta /\ Len(<<>>) = 0
  BY DEF Ruta
<1> QED
  BY <1>1, CaminoHasta

(* What Front and Last are of a path.                                      *)
LEMMA FrontEs ==
    ASSUME NEW p \in Ruta, p # <<>>
    PROVE  /\ Front(p) \in Ruta /\ Len(Front(p)) = Len(p) - 1
           /\ Len(p) \in Nat \ {0} /\ Last(p) = p[Len(p)]
           /\ \A k \in 1 .. Len(p) - 1 : Front(p)[k] = p[k]
<1>1. Len(p) \in Nat \ {0} /\ p \in Seq(Nombres \cup {Punto})
  BY DEF Ruta
<1>2. Len(p) - 1 \in Nat /\ Len(p) - 1 <= Len(p)
  BY <1>1
<1> DEFINE n == Len(p) - 1
<1>3. 1 \in Int /\ n \in Int /\ \A i \in 1 .. n : p[i] \in Nombres \cup {Punto}
  BY <1>1
<1>4. /\ SubSeq(p, 1, n) \in Seq(Nombres \cup {Punto})
      /\ Len(SubSeq(p, 1, n)) = n
      /\ \A k \in 1 .. n : SubSeq(p, 1, n)[k] = p[k]
  <2> HIDE DEF n
  <2>1. /\ SubSeq(p, 1, n) \in Seq(Nombres \cup {Punto})
        /\ Len(SubSeq(p, 1, n)) = IF 1 <= n THEN n - 1 + 1 ELSE 0
        /\ \A i \in 1 .. n - 1 + 1 : SubSeq(p, 1, n)[i] = p[1 + i - 1]
    BY <1>3, SubSeqProperties
  <2>2. n \in Nat
    BY <1>2 DEF n
  <2> QED
    BY <2>1, <2>2
<1> QED
  BY <1>1, <1>4 DEF Ruta, Front, Last

(* The last step of the way.                                               *)
LEMMA CaminoPaso ==
    ASSUME NEW t, NEW p \in Ruta, p # <<>>
    PROVE  Camino(t, p) = Hijo(t, Camino(t, Front(p)), Last(p))
<1> DEFINE n == Len(p)
<1>1. n \in Nat \ {0}
  BY FrontEs
<1>2. PICK h : /\ h[0] = 0 /\ \A k \in 1 .. n : h[k] = Hijo(t, h[k - 1], p[k])
               /\ Camino(t, p) = h[n]
  BY CaminoHasta
<1>3. PICK g : /\ g[0] = 0 /\ \A k \in 1 .. n - 1 : g[k] = Hijo(t, g[k - 1], Front(p)[k])
               /\ Camino(t, Front(p)) = g[n - 1]
  <2>1. Front(p) \in Ruta /\ Len(Front(p)) = n - 1
    BY FrontEs
  <2> HIDE DEF n
  <2> QED
    BY <2>1, CaminoHasta
<1> DEFINE S == {k \in 0 .. n - 1 : g[k] = h[k]}
<1>4. 0 \in S
  BY <1>1, <1>2, <1>3
<1>5. ASSUME NEW k \in 0 .. n - 1 - 1, k \in S PROVE k + 1 \in S
  <2>1. k + 1 \in 0 .. n - 1 /\ k + 1 \in 1 .. n /\ k + 1 - 1 = k /\ k + 1 \in 1 .. n - 1
    BY <1>1
  <2>2. g[k + 1] = Hijo(t, g[k], Front(p)[k + 1])
    BY <1>3, <2>1
  <2>3. h[k + 1] = Hijo(t, h[k], p[k + 1])
    BY <1>2, <2>1
  <2>4. Front(p)[k + 1] = p[k + 1]
    BY <2>1, FrontEs
  <2> QED
    BY <1>5, <2>1, <2>2, <2>3, <2>4
<1>6. n - 1 \in S
  <2>1. n - 1 \in Nat /\ n - 1 \in 0 .. n - 1
    BY <1>1
  <2> HIDE DEF S, n
  <2>2. \A k \in 0 .. n - 1 : k \in S
    BY <1>4, <1>5, <2>1, Hasta
  <2> QED
    BY <2>1, <2>2
<1>7. h[n] = Hijo(t, h[n - 1], p[n])
  BY <1>1, <1>2
<1> QED
  BY <1>2, <1>3, <1>6, <1>7, FrontEs

-----------------------------------------------------------------------------
(* Tables.                                                                 *)

Tabla == {t \in [Indices -> [nombre : Nombres \cup {NULL}, padre : Indices \cup {Nadie}]] :
             t[0] = [nombre |-> NULL, padre |-> Nadie]}

UsadosDe(t) == {i \in Indices \ {0} : t[i].padre # Nadie}

HermanosDistintos(t) ==
    \A i, j \in UsadosDe(t) :
       t[i].padre = t[j].padre /\ t[i].nombre = t[j].nombre => i = j

SinNombreDelPadre(t) ==
    \A i, j \in Indices : ~(t[j].padre = i /\ t[i].nombre = t[j].nombre)

(* What a way that ends well ends in.                                      *)
LEMMA CaminoFin ==
    ASSUME NEW t, NEW p \in Ruta, p # <<>>, Camino(t, p) # Nadie
    PROVE  /\ Camino(t, p) \in Indices /\ Camino(t, Front(p)) # Nadie
           /\ t[Camino(t, p)].nombre = Last(p)
           /\ t[Camino(t, p)].padre = Camino(t, Front(p))
<1>1. Camino(t, p) = Hijo(t, Camino(t, Front(p)), Last(p))
  BY CaminoPaso
<1> QED
  BY <1>1, HijoEs

(* A path leads to an index, or nowhere.                                   *)
LEMMA CaminoTipo ==
    ASSUME NEW t, NEW p \in Ruta
    PROVE  Camino(t, p) \in Indices \cup {Nadie}
<1>1. CASE p = <<>>
  BY <1>1, CaminoVacio, IndicesNaturales
<1>2. CASE p # <<>>
  BY <1>2, CaminoFin
<1> QED
  BY <1>1, <1>2

(* A way leads to the root, to a directory, or nowhere.                    *)
LEMMA CaminoUsado ==
    ASSUME NEW t \in Tabla, NEW p \in Ruta, Camino(t, p) # Nadie
    PROVE  Camino(t, p) \in UsadosDe(t) \cup {0}
<1>1. CASE p = <<>>
  BY <1>1, CaminoVacio
<1>2. CASE p # <<>>
  <2>1. Camino(t, p) \in Indices /\ t[Camino(t, p)].padre # Nadie
    BY <1>2, CaminoFin
  <2> QED
    BY <2>1 DEF UsadosDe
<1> QED
  BY <1>1, <1>2

(* A way stays the same when its directories do, and no two have one path. *)
LEMMA CaminoEstable ==
    ASSUME NEW t \in Tabla, NEW u \in Tabla,
           \A j \in UsadosDe(t) : u[j] = t[j],
           HermanosDistintos(u),
           NEW p \in Ruta, Camino(t, p) # Nadie
    PROVE  Camino(u, p) = Camino(t, p)
<1> DEFINE S == {k \in 0 .. Len(p) :
                   \A q \in Ruta : Len(q) = k /\ Camino(t, q) # Nadie
                                   => Camino(u, q) = Camino(t, q)}
<1>1. Len(p) \in Nat
  BY DEF Ruta
<1>2. 0 \in S
  <2>1. ASSUME NEW q \in Ruta, Len(q) = 0 PROVE q = <<>>
    BY <2>1 DEF Ruta
  <2> QED
    BY <1>1, <2>1, CaminoVacio
<1>3. ASSUME NEW k \in 0 .. Len(p) - 1, k \in S PROVE k + 1 \in S
  <2>1. SUFFICES ASSUME NEW q \in Ruta, Len(q) = k + 1, Camino(t, q) # Nadie
                 PROVE  Camino(u, q) = Camino(t, q)
    BY <1>1
  <2> DEFINE c == Camino(t, Front(q))
             j == Camino(t, q)
             i == Camino(u, q)
  <2>2. q # <<>> /\ Front(q) \in Ruta /\ Len(Front(q)) = k
    <3>1. q # <<>>
      BY <2>1
    <3> QED
      BY <3>1, <2>1, FrontEs
  <2>3. j \in Indices /\ c # Nadie /\ t[j].nombre = Last(q) /\ t[j].padre = c
    BY <2>1, <2>2, CaminoFin
  <2>4. Camino(u, Front(q)) = c
    BY <1>3, <2>2, <2>3
  <2>5. j \in UsadosDe(t) /\ u[j] = t[j] /\ j \in UsadosDe(u)
    BY <2>3 DEF UsadosDe, Tabla
  <2>6. i = Hijo(u, c, Last(q))
    BY <2>2, <2>4, CaminoPaso
  <2>7. i # Nadie /\ i \in Indices /\ u[i].nombre = Last(q) /\ u[i].padre = c
    <3> HIDE DEF c, i
    <3> QED
      BY <2>3, <2>5, <2>6, HijoEs
  <2>8. i \in UsadosDe(u)
    BY <2>3, <2>7 DEF UsadosDe, Tabla
  <2> HIDE DEF i, j, c
  <2>9. i = j
    BY <2>3, <2>5, <2>7, <2>8 DEF HermanosDistintos
  <2> QED
    BY <2>9 DEF i, j
<1>4. Len(p) \in S
  <2> HIDE DEF S
  <2>1. \A k \in 0 .. Len(p) : k \in S
    BY <1>1, <1>2, <1>3, Hasta
  <2> QED
    BY <1>1, <2>1
<1> QED
  BY <1>4

(* What one pass over the table returns.                                   *)
Vuelta == [indiceAnt : Indices, resultados : Nat]

Mira(s, x, j) ==
    IF tabla[j - 1] = [nombre |-> x, padre |-> s.indiceAnt]
    THEN [indiceAnt |-> j - 1, resultados |-> s.resultados + 1] ELSE s

(* A pass looks at the entries one after the other.                        *)
LEMMA PasadaHasta ==
    ASSUME NEW s \in Vuelta, NEW x
    PROVE  \E h : /\ h \in [0 .. MAX_DIR_FS -> Vuelta] /\ h[0] = s
                  /\ \A j \in 1 .. MAX_DIR_FS : h[j] = Mira(h[j - 1], x, j)
                  /\ Pasada(s, x) = h[MAX_DIR_FS]
<1> DEFINE n == MAX_DIR_FS
           paso == [j \in 1 .. n |-> [v \in Vuelta |-> Mira(v, x, j)]]
           Es(h) == h = [j \in 0 .. n |->
                          IF j = 0 THEN s
                          ELSE IF tabla[j - 1] = [nombre |-> x, padre |-> h[j - 1].indiceAnt]
                               THEN [indiceAnt |-> j - 1, resultados |-> h[j - 1].resultados + 1]
                               ELSE h[j - 1]]
<1>1. n \in Nat /\ \A j \in 1 .. n : j - 1 \in Indices
  BY FsDirectoriosAssumption DEF Indices
<1>2. \A v \in Vuelta, j \in 1 .. n : Mira(v, x, j) \in Vuelta
  BY <1>1 DEF Mira, Vuelta
<1>3. paso \in [1 .. n -> [Vuelta -> Vuelta]]
  BY <1>2
<1>4. PICK g : /\ g \in [0 .. n -> Vuelta] /\ g[0] = s
               /\ \A j \in 1 .. n : g[j] = paso[j][g[j - 1]]
  <2> HIDE DEF paso, n
  <2>1. \E g : PorPasos(g, n, Vuelta, s, paso)
    BY <1>1, <1>3, Recursiva
  <2> QED
    BY <2>1 DEF PorPasos
<1>5. Es(g)
  <2>1. ASSUME NEW j \in 1 .. n PROVE g[j] = Mira(g[j - 1], x, j)
    <3>1. j - 1 \in 0 .. n
      BY <1>1
    <3>2. g[j - 1] \in Vuelta
      BY <3>1, <1>4
    <3> QED
      BY <3>2, <1>4
  <2>2. \A j \in 0 .. n : g[j] = IF j = 0 THEN s ELSE Mira(g[j - 1], x, j)
    BY <1>1, <1>4, <2>1
  <2>3. g = [j \in 0 .. n |-> g[j]]
    BY <1>4
  <2> QED
    BY <2>2, <2>3 DEF Mira
<1> DEFINE f == CHOOSE h : Es(h)
<1>6. Es(f)
  <2> HIDE DEF Es
  <2> QED
    BY <1>5
<1>7. Pasada(s, x) = f[n]
  BY Zenon DEF Pasada
<1>8. f = [j \in 0 .. n |-> IF j = 0 THEN s ELSE Mira(f[j - 1], x, j)]
  BY <1>6 DEF Mira
<1> HIDE DEF f
<1>9. f[0] = s /\ \A j \in 1 .. n : f[j] = Mira(f[j - 1], x, j)
  BY <1>1, <1>8
<1>10. f \in [0 .. n -> Vuelta]
  <2> DEFINE S == {j \in 0 .. n : f[j] \in Vuelta}
  <2>1. 0 \in S
    BY <1>1, <1>9
  <2>2. ASSUME NEW j \in 0 .. n - 1, j \in S PROVE j + 1 \in S
    <3>1. j + 1 \in 1 .. n /\ j + 1 - 1 = j /\ j + 1 \in 0 .. n
      BY <1>1
    <3>2. f[j + 1] = Mira(f[j], x, j + 1)
      BY <1>9, <3>1
    <3> QED
      BY <2>2, <3>1, <3>2, <1>2
  <2>3. \A j \in 0 .. n : j \in S
    <3> HIDE DEF S
    <3> QED
      BY <1>1, <2>1, <2>2, Hasta
  <2> QED
    BY <1>8, <2>3
<1> QED
  BY <1>7, <1>9, <1>10

(* A pass finds the child that is there, once.                             *)
LEMMA PasadaUna ==
    ASSUME tabla \in Tabla, HermanosDistintos(tabla), SinNombreDelPadre(tabla),
           NEW s \in Vuelta, NEW x, Hijo(tabla, s.indiceAnt, x) # Nadie
    PROVE  Pasada(s, x) = [indiceAnt |-> Hijo(tabla, s.indiceAnt, x),
                           resultados |-> s.resultados + 1]
<1> DEFINE n == MAX_DIR_FS
           c == s.indiceAnt
           i == Hijo(tabla, c, x)
           r == [indiceAnt |-> i, resultados |-> s.resultados + 1]
<1>1. n \in Nat \ {0} /\ Indices = 0 .. n - 1
  BY FsDirectoriosAssumption DEF Indices
<1>2. c \in Indices /\ i \in Indices /\ tabla[i].nombre = x /\ tabla[i].padre = c
  BY HijoEs DEF Vuelta
<1>3. c # Nadie /\ i \in UsadosDe(tabla)
  <2>1. c # Nadie
    BY <1>2, IndicesNaturales
  <2> QED
    BY <1>2, <2>1 DEF UsadosDe, Tabla
<1>4. PICK h : /\ h[0] = s /\ \A j \in 1 .. n : h[j] = Mira(h[j - 1], x, j)
               /\ Pasada(s, x) = h[n]
  BY PasadaHasta
<1> DEFINE S == {j \in 0 .. n : h[j] = IF j <= i THEN s ELSE r}
<1>5. 0 \in S
  BY <1>1, <1>2, <1>4
<1>6. ASSUME NEW j \in 0 .. n - 1, j \in S PROVE j + 1 \in S
  <2>1. /\ j + 1 \in 1 .. n /\ j + 1 \in 0 .. n /\ j + 1 - 1 = j /\ j \in Indices
        /\ i \in Int /\ j \in Int
    BY <1>1, <1>2
  <2>2. h[j + 1] = Mira(h[j], x, j + 1)
    BY <1>4, <2>1
  <2>3. CASE j < i
    <3>1. h[j] = s
      BY <1>6, <2>1, <2>3
    <3>2. tabla[j] # [nombre |-> x, padre |-> c]
      <4>1. SUFFICES ASSUME tabla[j] = [nombre |-> x, padre |-> c] PROVE FALSE
        OBVIOUS
      <4>2. j # 0 /\ j \in UsadosDe(tabla) /\ tabla[j].nombre = x /\ tabla[j].padre = c
        BY <1>3, <2>1, <4>1 DEF UsadosDe, Tabla
      <4> HIDE DEF i, c
      <4> QED
        BY <1>2, <1>3, <2>3, <4>2 DEF HermanosDistintos
    <3>3. h[j + 1] = s
      BY <2>1, <2>2, <3>1, <3>2 DEF Mira
    <3> QED
      BY <2>1, <2>3, <3>3
  <2>4. CASE j = i
    <3>1. h[j] = s
      BY <1>6, <2>1, <2>4
    <3>2. tabla[j] = [nombre |-> x, padre |-> c]
      <4> HIDE DEF i, c
      <4> QED
        BY <1>2, <2>1, <2>4 DEF Tabla
    <3>3. h[j + 1] = r
      BY <2>1, <2>2, <2>4, <3>1, <3>2 DEF Mira
    <3> QED
      BY <2>1, <2>4, <3>3
  <2>5. CASE j > i
    <3>1. h[j] = r
      BY <1>6, <2>1, <2>5
    <3>2. tabla[j] # [nombre |-> x, padre |-> i]
      <4> HIDE DEF i, c
      <4> QED
        BY <1>2, <2>1 DEF SinNombreDelPadre
    <3>3. h[j + 1] = r
      <4>1. r.indiceAnt = i
        OBVIOUS
      <4> HIDE DEF r, i
      <4> QED
        BY <2>1, <2>2, <3>1, <3>2, <4>1 DEF Mira
    <3> QED
      BY <2>1, <2>5, <3>3
  <2> QED
    BY <2>1, <2>3, <2>4, <2>5
<1>7. n \in S
  <2> HIDE DEF S
  <2>1. \A j \in 0 .. n : j \in S
    BY <1>1, <1>5, <1>6, Hasta
  <2> QED
    BY <1>1, <2>1
<1>8. ~(n <= i)
  BY <1>1, <1>2
<1> QED
  BY <1>4, <1>7, <1>8

(* What is there exists, for existeDirectorio too.                         *)
THEOREM ExisteSiHay ==
    ASSUME tabla \in Tabla, HermanosDistintos(tabla), SinNombreDelPadre(tabla),
           NEW p \in Ruta, p # <<>>, Camino(tabla, p) # Nadie
    PROVE  ExisteDirectorio(p)
<1> DEFINE n == Len(p)
<1>1. n \in Nat \ {0}
  BY FrontEs
<1>2. CASE n = 1
  <2>1. Camino(tabla, p) \in Indices /\ tabla[Camino(tabla, p)].nombre = p[1]
    BY <1>2, CaminoFin, FrontEs
  <2> QED
    BY <1>2, <2>1 DEF ExisteDirectorio
<1>3. CASE n > 1
  <2>1. PICK c \in [0 .. n -> Indices \cup {Nadie}] :
          /\ c[0] = 0 /\ \A k \in 1 .. n : c[k] = Hijo(tabla, c[k - 1], p[k])
          /\ Camino(tabla, p) = c[n]
    BY CaminoHasta
  <2> DEFINE s0 == [indiceAnt |-> 0, resultados |-> 0]
             paso == [k \in 1 .. n |-> [v \in Vuelta |-> Pasada(v, p[k])]]
             Es(h) == h = [k \in 0 .. n |->
                            IF k = 0 THEN [indiceAnt |-> 0, resultados |-> 0]
                            ELSE Pasada(h[k - 1], p[k])]
  <2>2. s0 \in Vuelta
    BY IndicesNaturales DEF Vuelta
  <2>3. ASSUME NEW v \in Vuelta, NEW x PROVE Pasada(v, x) \in Vuelta
    <3>1. MAX_DIR_FS \in 0 .. MAX_DIR_FS
      BY FsDirectoriosAssumption
    <3>2. PICK h : h \in [0 .. MAX_DIR_FS -> Vuelta] /\ Pasada(v, x) = h[MAX_DIR_FS]
      BY PasadaHasta
    <3> QED
      BY <3>1, <3>2
  <2>4. paso \in [1 .. n -> [Vuelta -> Vuelta]]
    BY <2>3
  <2>5. PICK g : /\ g \in [0 .. n -> Vuelta] /\ g[0] = s0
                 /\ \A k \in 1 .. n : g[k] = paso[k][g[k - 1]]
    <3> HIDE DEF paso, n, s0
    <3>1. \E g : PorPasos(g, n, Vuelta, s0, paso)
      BY <1>1, <2>2, <2>4, Recursiva
    <3> QED
      BY <3>1 DEF PorPasos
  <2>6. Es(g)
    <3>1. ASSUME NEW k \in 1 .. n PROVE g[k] = Pasada(g[k - 1], p[k])
      <4>1. k - 1 \in 0 .. n
        BY <1>1
      <4>2. g[k - 1] \in Vuelta
        BY <4>1, <2>5
      <4> QED
        BY <4>2, <2>5
    <3>2. \A k \in 0 .. n : g[k] = IF k = 0 THEN s0 ELSE Pasada(g[k - 1], p[k])
      BY <1>1, <2>5, <3>1
    <3>3. g = [k \in 0 .. n |-> g[k]]
      BY <2>5
    <3> QED
      BY <3>2, <3>3
  <2> DEFINE f == CHOOSE h : Es(h)
  <2>7. Es(f)
    <3> HIDE DEF Es
    <3> QED
      BY <2>6
  <2>8. Len(p) > 1 /\ f[Len(p)].resultados = Len(p) => ExisteDirectorio(p)
    BY Zenon DEF ExisteDirectorio
  <2>9. f[0] = s0 /\ \A k \in 1 .. n : f[k] = Pasada(f[k - 1], p[k])
    <3>1. f = [k \in 0 .. n |-> IF k = 0 THEN s0 ELSE Pasada(f[k - 1], p[k])]
      BY <2>7
    <3> HIDE DEF f, s0
    <3> QED
      BY <1>1, <3>1
  <2> HIDE DEF f
  <2> DEFINE S == {k \in 0 .. n : c[k] # Nadie => f[k] = [indiceAnt |-> c[k], resultados |-> k]}
  <2>10. 0 \in S
    BY <1>1, <2>1, <2>9
  <2>11. ASSUME NEW k \in 0 .. n - 1, k \in S PROVE k + 1 \in S
    <3>1. SUFFICES ASSUME c[k + 1] # Nadie
                   PROVE  f[k + 1] = [indiceAnt |-> c[k + 1], resultados |-> k + 1]
      BY <1>1
    <3>2. k + 1 \in 1 .. n /\ k + 1 - 1 = k /\ k \in 0 .. n /\ k \in Nat
      BY <1>1
    <3>3. c[k + 1] = Hijo(tabla, c[k], p[k + 1]) /\ f[k + 1] = Pasada(f[k], p[k + 1])
      BY <2>1, <2>9, <3>2
    <3>4. c[k] # Nadie /\ c[k] \in Indices
      <4>1. c[k] # Nadie
        BY <3>1, <3>3, HijoEs
      <4> QED
        BY <2>1, <3>2, <4>1
    <3>5. f[k] = [indiceAnt |-> c[k], resultados |-> k] /\ f[k] \in Vuelta
      BY <2>11, <3>2, <3>4 DEF Vuelta
    <3>6. f[k].indiceAnt = c[k] /\ f[k].resultados = k
      BY <3>5
    <3> HIDE DEF S
    <3> QED
      BY <3>1, <3>3, <3>5, <3>6, PasadaUna
  <2>12. n \in S
    <3> HIDE DEF S
    <3>1. \A k \in 0 .. n : k \in S
      BY <1>1, <2>10, <2>11, Hasta
    <3> QED
      BY <1>1, <3>1
  <2>13. f[n].resultados = n
    BY <1>1, <2>1, <2>12
  <2> QED
    BY <1>3, <2>8, <2>13
<1>4. n = 1 \/ n > 1
  <2> HIDE DEF n
  <2> QED
    BY <1>1
<1> QED
  BY <1>2, <1>3, <1>4, Zenon

-----------------------------------------------------------------------------
(* A change of the table keeps a tree a tree.                              *)

EnArbol(t) ==
    /\ \A S \in SUBSET UsadosDe(t) : S # {} => \E i \in S : t[i].padre \notin S
    /\ \A i \in UsadosDe(t) : t[i].padre \in UsadosDe(t) \cup {0} /\ t[i].nombre # NULL

(* The table of a format is a tree.                                        *)
LEMMA EnArbolVacia ==
    /\ TablaVacia \in Tabla /\ EnArbol(TablaVacia) /\ UsadosDe(TablaVacia) = {}
    /\ HermanosDistintos(TablaVacia) /\ SinNombreDelPadre(TablaVacia)
<1>1. TablaVacia \in Tabla /\ UsadosDe(TablaVacia) = {}
  BY IndicesNaturales DEF TablaVacia, Tabla, UsadosDe
<1>2. \A j \in Indices : TablaVacia[j].padre \notin Indices
  BY IndicesNaturales DEF TablaVacia, Nadie
<1> QED
  BY <1>1, <1>2 DEF EnArbol, HermanosDistintos, SinNombreDelPadre

(* A table with another entry at i, and a change of one entry.             *)
ConEntrada(t, i, x, padre) == [t EXCEPT ![i] = [nombre |-> x, padre |-> padre]]

(* A change of one entry, not of the root, changes that entry.             *)
LEMMA UnaEntrada ==
    ASSUME NEW t \in Tabla, NEW i \in Indices \ {0},
           NEW x \in Nombres \cup {NULL}, NEW padre \in Indices \cup {Nadie}
    PROVE  LET u == ConEntrada(t, i, x, padre)
           IN  /\ u \in Tabla /\ u[i] = [nombre |-> x, padre |-> padre]
               /\ \A j \in Indices \ {i} : u[j] = t[j]
<1> DEFINE e == [nombre |-> x, padre |-> padre]
           V == [nombre : Nombres \cup {NULL}, padre : Indices \cup {Nadie}]
           u == [t EXCEPT ![i] = e]
<1>1. e \in V
  OBVIOUS
<1>2. t \in [Indices -> V] /\ t[0] = [nombre |-> NULL, padre |-> Nadie]
  BY DEF Tabla
<1>3. u \in [Indices -> V] /\ u[i] = e /\ \A j \in Indices \ {i} : u[j] = t[j]
  <2> HIDE DEF e, V
  <2> QED
    BY <1>1, <1>2
<1>4. u[0] = t[0]
  BY <1>3, IndicesNaturales
<1> QED
  BY <1>2, <1>3, <1>4 DEF Tabla, ConEntrada

(* A tree with a new entry, in a directory or in none, is a tree.          *)
LEMMA EnArbolCrear ==
    ASSUME NEW t \in Tabla, EnArbol(t),
           NEW i \in Indices \ {0}, t[i].padre = Nadie,
           NEW x \in Nombres, NEW padre \in UsadosDe(t) \cup {0, Nadie}
    PROVE  LET u == ConEntrada(t, i, x, padre)
           IN  /\ u \in Tabla /\ EnArbol(u) /\ UsadosDe(t) \subseteq UsadosDe(u)
               /\ \A j \in UsadosDe(t) : u[j] = t[j]
<1> DEFINE u == ConEntrada(t, i, x, padre)
<1>1. i \notin UsadosDe(t) /\ 0 \notin UsadosDe(t) /\ 0 # Nadie /\ i # Nadie
  BY IndicesNaturales DEF UsadosDe, Nadie
<1>2. /\ u \in Tabla /\ u[i] = [nombre |-> x, padre |-> padre]
      /\ \A j \in Indices \ {i} : u[j] = t[j]
  <2>1. padre \in Indices \cup {Nadie}
    BY IndicesNaturales DEF UsadosDe
  <2> QED
    BY <2>1, UnaEntrada
<1>3. x # NULL
  BY FsDirectoriosAssumption
<1>4. UsadosDe(t) \subseteq UsadosDe(u) /\ UsadosDe(u) \subseteq UsadosDe(t) \cup {i}
      /\ \A j \in UsadosDe(t) : u[j] = t[j]
  <2> HIDE DEF u
  <2> QED
    BY <1>1, <1>2 DEF UsadosDe
<1>5. i \in UsadosDe(u) => padre # Nadie
  BY <1>2 DEF UsadosDe
<1>6. ASSUME NEW j \in UsadosDe(u)
      PROVE  u[j].padre \in UsadosDe(u) \cup {0} /\ u[j].nombre # NULL
  <2> HIDE DEF u
  <2>1. CASE j = i
    BY <1>2, <1>3, <1>4, <1>5, <1>6, <2>1
  <2>2. CASE j # i
    BY <1>4, <1>6, <2>2 DEF EnArbol
  <2> QED
    BY <2>1, <2>2
<1>7. ASSUME NEW S \in SUBSET UsadosDe(u), S # {}
      PROVE  \E j \in S : u[j].padre \notin S
  <2> HIDE DEF u
  <2>1. CASE S \ {i} = {}
    <3>1. S = {i}
      BY <1>7, <2>1
    <3>2. u[i].padre # i
      BY <1>1, <1>2
    <3> QED
      BY <3>1, <3>2
  <2>2. CASE S \ {i} # {}
    <3>1. S \ {i} \in SUBSET UsadosDe(t)
      BY <1>4
    <3>2. PICK j \in S \ {i} : t[j].padre \notin S \ {i}
      BY <2>2, <3>1 DEF EnArbol
    <3>3. t[j].padre \in UsadosDe(t) \cup {0}
      BY <3>1 DEF EnArbol
    <3> QED
      BY <1>1, <1>4, <3>1, <3>2, <3>3
  <2> QED
    BY <2>1, <2>2
<1> QED
  BY <1>2, <1>4, <1>6, <1>7 DEF EnArbol

(* A tree without a directory that has no children is a tree.              *)
LEMMA EnArbolQuitar ==
    ASSUME NEW t \in Tabla, EnArbol(t),
           NEW i \in Indices \ {0}, \A j \in Indices \ {0} : t[j].padre # i
    PROVE  LET u == ConEntrada(t, i, NULL, Nadie)
           IN  /\ u \in Tabla /\ EnArbol(u) /\ UsadosDe(u) = UsadosDe(t) \ {i}
               /\ HermanosDistintos(t) => HermanosDistintos(u)
               /\ SinNombreDelPadre(t) => SinNombreDelPadre(u)
<1> DEFINE u == ConEntrada(t, i, NULL, Nadie)
<1>1. /\ u \in Tabla /\ u[i] = [nombre |-> NULL, padre |-> Nadie]
      /\ \A j \in Indices \ {i} : u[j] = t[j]
  BY UnaEntrada
<1>2. \A j \in Indices : t[j].padre # i
  BY IndicesNaturales DEF Tabla, Nadie
<1>3. 0 # Nadie /\ \A j \in Indices : j # Nadie
  BY IndicesNaturales DEF Nadie
<1> HIDE DEF u
<1>4. UsadosDe(u) = UsadosDe(t) \ {i}
  BY <1>1 DEF UsadosDe
<1>5. \A j \in UsadosDe(u) : u[j] = t[j] /\ j \in Indices
  BY <1>1, <1>4 DEF UsadosDe
<1>6. EnArbol(u)
  <2>1. \A j \in UsadosDe(u) : u[j].padre \in UsadosDe(u) \cup {0} /\ u[j].nombre # NULL
    BY <1>2, <1>4, <1>5 DEF EnArbol
  <2>2. \A S \in SUBSET UsadosDe(u) : S # {} => \E j \in S : u[j].padre \notin S
    BY <1>4, <1>5 DEF EnArbol
  <2> QED
    BY <2>1, <2>2 DEF EnArbol
<1>7. HermanosDistintos(t) => HermanosDistintos(u)
  BY <1>4, <1>5 DEF HermanosDistintos
<1>8. SinNombreDelPadre(t) => SinNombreDelPadre(u)
  BY <1>1, <1>2, <1>3 DEF SinNombreDelPadre
<1> QED
  BY <1>1, <1>4, <1>6, <1>7, <1>8 DEF u

(* A tree is one whatever its directories are called.                      *)
LEMMA EnArbolRenombrar ==
    ASSUME NEW t \in Tabla, EnArbol(t),
           NEW i \in UsadosDe(t), NEW x \in Nombres
    PROVE  LET u == ConEntrada(t, i, x, t[i].padre)
           IN  /\ u \in Tabla /\ EnArbol(u) /\ UsadosDe(u) = UsadosDe(t)
               /\ (\A j \in Indices : ~(t[j].padre = t[i].padre /\ t[j].nombre = x))
                  /\ HermanosDistintos(t) => HermanosDistintos(u)
<1> DEFINE u == ConEntrada(t, i, x, t[i].padre)
<1>1. /\ u \in Tabla /\ u[i] = [nombre |-> x, padre |-> t[i].padre]
      /\ \A j \in Indices \ {i} : u[j] = t[j]
  <2>1. i \in Indices \ {0} /\ t[i].padre \in Indices \cup {Nadie}
    BY DEF UsadosDe, Tabla
  <2> QED
    BY <2>1, UnaEntrada
<1>2. x # NULL
  BY FsDirectoriosAssumption
<1> HIDE DEF u
<1>3. \A j \in Indices : u[j].padre = t[j].padre /\ (j # i => u[j].nombre = t[j].nombre)
  BY <1>1 DEF UsadosDe
<1>4. UsadosDe(u) = UsadosDe(t) /\ UsadosDe(t) \subseteq Indices
  BY <1>3 DEF UsadosDe
<1>5. EnArbol(u)
  <2>1. \A j \in UsadosDe(u) : u[j].padre \in UsadosDe(u) \cup {0} /\ u[j].nombre # NULL
    BY <1>1, <1>2, <1>3, <1>4 DEF EnArbol
  <2>2. \A S \in SUBSET UsadosDe(u) : S # {} => \E j \in S : u[j].padre \notin S
    BY <1>3, <1>4 DEF EnArbol
  <2> QED
    BY <2>1, <2>2 DEF EnArbol
<1>6. (\A j \in Indices : ~(t[j].padre = t[i].padre /\ t[j].nombre = x))
      /\ HermanosDistintos(t) => HermanosDistintos(u)
  BY <1>1, <1>3, <1>4 DEF HermanosDistintos
<1> QED
  BY <1>1, <1>4, <1>5, <1>6 DEF u

-----------------------------------------------------------------------------
(* What commands are given.                                                *)

Carpetas == Indices \cup {Nadie}

Metadata == [Carpetas -> [Nombres -> Archivos \cup {NULL}]]

(* What commands are given, and what they look up, is of these types.      *)
LEMMA RutaDada ==
    ASSUME NEW p \in Rutas
    PROVE  /\ p \in Ruta /\ p # <<>> /\ Len(p) \in Nat \ {0}
           /\ ~DesdePunto(p) => Last(p) \in Nombres
           /\ p \in RutasArchivo => Last(p) \in Nombres
<1>1. p \in Ruta /\ p # <<>> /\ \A k \in 2 .. Len(p) : p[k] # Punto
  BY FsDirectoriosAssumption DEF Ruta
<1>2. /\ Len(p) \in Nat \ {0} /\ Last(p) = p[Len(p)]
      /\ \A k \in 1 .. Len(p) : p[k] \in Nombres \cup {Punto}
  BY <1>1, FrontEs DEF Ruta
<1>3. Len(p) = 1 => Last(p) = Head(p)
  BY <1>1, <1>2 DEF Ruta
<1> QED
  BY <1>1, <1>2, <1>3 DEF DesdePunto, RutasArchivo

(* The folder of a directory is that of an index, or of -1.                *)
LEMMA CarpetaTipo ==
    ASSUME NEW d \in Ruta
    PROVE  Carpeta(d) \in Carpetas
BY CaminoTipo, IndicesNaturales DEF Carpeta, ObtenerIndiceDir, Carpetas

(* So is the folder of a file, and what a command looks up.                *)
LEMMA CarpetaDeTipo ==
    ASSUME NEW p \in Rutas
    PROVE  /\ ObtenerDirArchivo(p) \in Ruta /\ Front(p) \in Ruta
           /\ CarpetaDe(p) \in Carpetas
           /\ ObtenerIndiceDirPadre(p) \in Carpetas
           /\ ObtenerIndiceDir(p) \in Carpetas
<1>1. p \in Ruta /\ p # <<>> /\ Front(p) \in Ruta
  BY RutaDada, FrontEs
<1>2. ObtenerDirArchivo(p) \in Ruta
  <2>1. <<Punto>> \in Ruta
    BY DEF Ruta
  <2> QED
    BY <1>1, <2>1 DEF ObtenerDirArchivo
<1> QED
  BY <1>1, <1>2, CarpetaTipo, CaminoTipo, IndicesNaturales
  DEF CarpetaDe, ObtenerIndiceDirPadre, ObtenerIndiceDir, Carpetas

(* What a thread in the middle of a command remembers.                     *)
LEMMA HiloTipo ==
    ASSUME NEW s \in EstadoHilo
    PROVE  /\ s.pc = "escribe" => s.ruta \in RutasArchivo
           /\ s.pc = "quita" => s.indice \in Indices
           /\ s.pc = "mueve" => s.indice \in Carpetas /\ s.nombre \in Nombres
BY DEF EstadoHilo, Libre, Carpetas

(* A write in a place changes that place.                                  *)
LEMMA PoneEs ==
    ASSUME NEW m \in Metadata, NEW i \in Carpetas, NEW x \in Nombres,
           NEW f \in Archivos \cup {NULL}
    PROVE  /\ [m EXCEPT ![i][x] = f] \in Metadata
           /\ \A k \in Carpetas, y \in Nombres :
                 [m EXCEPT ![i][x] = f][k][y] = IF k = i /\ y = x THEN f ELSE m[k][y]
BY DEF Metadata

(* A place has a file or nothing.                                          *)
LEMMA MetadataTipo ==
    ASSUME NEW m \in Metadata, NEW i \in Carpetas, NEW x \in Nombres
    PROVE  m[i][x] \in Archivos \cup {NULL}
BY DEF Metadata

Tipos ==
    /\ fs \in {"up", "segfault", "ub"}
    /\ tabla \in Tabla /\ md \in Metadata
    /\ hilo \in [Hilos -> EstadoHilo] /\ escritos \in 0 .. MaxEscrituras
    /\ repite \in BOOLEAN /\ sacado \in BOOLEAN /\ corte \in BOOLEAN
    /\ pisado \in BOOLEAN

(* Tipos is TypeOK, with the names of this module.                         *)
LEMMA TiposEs == TypeOK <=> Tipos
<1>1. TablaVacia[0] = [nombre |-> NULL, padre |-> Nadie]
  BY IndicesNaturales DEF TablaVacia
<1> QED
  BY <1>1 DEF TypeOK, Tipos, Tabla, Metadata, Carpetas

-----------------------------------------------------------------------------
(* Types.                                                                  *)

(* There are two threads.                                                  *)
LEMMA HilosTipo == Consola \in Hilos /\ Worker \in Hilos /\ Consola # Worker
BY FsDirectoriosAssumption DEF Hilos

(* A change of one thread leaves the other alone.                          *)
LEMMA HiloCambia ==
    ASSUME Tipos, NEW t \in Hilos, NEW s \in EstadoHilo, hilo' = [hilo EXCEPT ![t] = s]
    PROVE  /\ hilo' \in [Hilos -> EstadoHilo] /\ hilo'[t] = s
           /\ \A u \in Hilos \ {t} : hilo'[u] = hilo[u]
BY DEF Tipos

(* The end of the process leaves both threads free.                        *)
LEMMA TerminaTipo ==
    ASSUME Tipos, NEW como, Termina(como)
    PROVE  /\ fs' = como /\ hilo' \in [Hilos -> EstadoHilo]
           /\ \A t \in Hilos : hilo'[t] = Libre
           /\ corte' \in BOOLEAN /\ (corte => corte')
           /\ hilo[Consola].pc = "mueve" => corte'
<1>1. hilo' = [t \in Hilos |-> Libre] /\ Libre \in EstadoHilo
  BY DEF Termina, EstadoHilo
<1>2. corte' = (corte \/ hilo[Consola].pc = "mueve") /\ fs' = como
  BY DEF Termina
<1> QED
  BY <1>1, <1>2 DEF Tipos

(* The end of the process on a NULL list keeps the types.                  *)
LEMMA SigueNuloTipo ==
    ASSUME Tipos, SigueNulo
    PROVE  Tipos'
BY TerminaTipo DEF SigueNulo, Tipos

(* So does a write of metadata.                                            *)
LEMMA PoneTipo ==
    ASSUME Tipos, NEW i \in Carpetas, NEW x \in Nombres, NEW f \in Archivos \cup {NULL},
           Pone(i, x, f)
    PROVE  md' \in Metadata
BY PoneEs DEF Pone, Tipos

(* So does a change of one entry of the table.                             *)
LEMMA ConNombreTipo ==
    ASSUME Tipos, NEW i \in Indices \ {0}, NEW x \in Nombres \cup {NULL},
           NEW padre \in Indices \cup {Nadie}, ConNombre(i, x, padre)
    PROVE  tabla' \in Tabla
BY UnaEntrada DEF ConNombre, ConEntrada, Tipos

(* The entry that a new directory takes.                                   *)
LEMMA PrimerLibre ==
    ASSUME IndicesLibres # {}
    PROVE  LET i == CHOOSE i \in IndicesLibres : \A j \in IndicesLibres : i <= j
           IN  i \in Indices \ {0} /\ tabla[i].padre = Nadie
<1>1. IndicesLibres \in SUBSET Nat
  BY IndicesNaturales DEF IndicesLibres
<1>2. \E i \in IndicesLibres : \A j \in IndicesLibres : i <= j
  BY <1>1, MenorNatural
<1> DEFINE i == CHOOSE i \in IndicesLibres : \A j \in IndicesLibres : i <= j
<1>3. i \in IndicesLibres
  BY <1>2
<1> HIDE DEF i
<1>4. i \in Indices \ {0} /\ tabla[i].padre = Nadie
  BY <1>3 DEF IndicesLibres
<1> QED
  BY <1>4 DEF i

(* repite is kept, and says if a name is that of a parent.                 *)
LEMMA RepitenTipo ==
    ASSUME Tipos, Repiten
    PROVE  repite' \in BOOLEAN /\ (repite => repite') /\ (~repite' => SinNombreDelPadre(tabla'))
BY DEF Repiten, Tipos, SinNombreDelPadre

(* What creating a directory does.                                         *)
SinLugar ==
    Termina("ub") /\ UNCHANGED <<tabla, md, escritos, repite, sacado, pisado>>

Crea(p, i) ==
    /\ hilo[Consola] = Libre /\ ~ExisteDirectorio(p) /\ Repiten
    /\ i \in Indices \ {0} /\ tabla[i].padre = Nadie
    /\ Last(p) \in Nombres /\ ObtenerIndiceDirPadre(p) \in Carpetas
    /\ tabla' = ConEntrada(tabla, i, Last(p), ObtenerIndiceDirPadre(p))
    /\ UNCHANGED <<fs, hilo, corte, md, escritos, sacado, pisado>>

(* A new directory takes a free entry, or the process ends.                *)
LEMMA CrearEs ==
    ASSUME NEW p \in Rutas, CrearDirectorio(p)
    PROVE  SinLugar \/ \E i \in Indices : Crea(p, i)
<1>1. Last(p) \in Nombres /\ ObtenerIndiceDirPadre(p) \in Carpetas
  BY RutaDada, CarpetaDeTipo DEF CrearDirectorio, ExisteDirectorio
<1>2. CASE IndicesLibres = {}
  BY <1>2 DEF CrearDirectorio, SinLugar
<1>3. CASE IndicesLibres # {}
  BY <1>1, <1>3, PrimerLibre DEF CrearDirectorio, ConNombre, ConEntrada, Ordena, Crea
<1> QED
  BY <1>2, <1>3

(* Every step keeps the types.                                             *)
LEMMA TiposSiguen ==
    ASSUME Tipos, [Next]_vars
    PROVE  Tipos'
<1> USE DEF Carpetas
<1>1. ASSUME NEW p \in Rutas, CrearDirectorio(p) PROVE Tipos'
  <2>1. CASE SinLugar
    BY <2>1, TerminaTipo DEF Tipos, SinLugar
  <2>2. ASSUME NEW i \in Indices, Crea(p, i) PROVE Tipos'
    <3>1. tabla' \in Tabla
      BY <2>2, UnaEntrada DEF Tipos, Crea
    <3> QED
      BY <2>2, <3>1, RepitenTipo DEF Tipos, Crea
  <2> QED
    BY <1>1, <2>1, <2>2, CrearEs
<1>2. ASSUME NEW p \in Rutas, VerificarVacio(p) PROVE Tipos'
  <2>1. CASE SigueNulo
    BY <2>1, SigueNuloTipo
  <2>2. CASE ~SigueNulo
    <3> DEFINE s == [pc |-> "quita", indice |-> ObtenerIndiceDir(p)]
    <3>1. hilo' = [hilo EXCEPT ![Consola] = s] /\ s \in EstadoHilo
      BY <1>2, <2>2 DEF VerificarVacio, EstadoHilo
    <3>2. hilo' \in [Hilos -> EstadoHilo]
      BY <3>1, HiloCambia, HilosTipo
    <3> QED
      BY <1>2, <2>2, <3>2 DEF VerificarVacio, Tipos, historia
  <2> QED
    BY <2>1, <2>2
<1>3. ASSUME NEW p \in Rutas, NEW x \in Nombres, RenombrarDirectorio(p, x) PROVE Tipos'
  <2>1. tabla' \in Tabla
    <3> DEFINE i == ObtenerIndiceDir(p)
    <3>1. i \in Indices \ {0} /\ ConNombre(i, x, tabla[i].padre)
      BY <1>3 DEF RenombrarDirectorio
    <3>2. tabla[i].padre \in Indices \cup {Nadie}
      BY <3>1 DEF Tipos, Tabla
    <3> HIDE DEF i
    <3> QED
      BY <3>1, <3>2, ConNombreTipo
  <2> QED
    BY <1>3, <2>1, RepitenTipo DEF RenombrarDirectorio, Tipos, Escribiendo
<1>4. ASSUME QuitarDirectorio PROVE Tipos'
  <2>1. hilo[Consola].indice \in Indices
    BY <1>4, HiloTipo, HilosTipo DEF Tipos, QuitarDirectorio
  <2>2. hilo' \in [Hilos -> EstadoHilo]
    BY <1>4, HiloCambia, HilosTipo DEF QuitarDirectorio, EstadoHilo
  <2>3. tabla' \in Tabla
    <3>1. CASE hilo[Consola].indice = 0
      <4>1. tabla' = tabla
        BY <1>4, <3>1 DEF QuitarDirectorio, ConNombre, Tipos, Tabla
      <4> QED
        BY <4>1 DEF Tipos
    <3>2. CASE hilo[Consola].indice # 0
      BY <1>4, <2>1, <3>2, ConNombreTipo DEF QuitarDirectorio
    <3> QED
      BY <3>1, <3>2
  <2> QED
    BY <1>4, <2>2, <2>3 DEF QuitarDirectorio, Tipos, Escribiendo
<1>5. ASSUME Formatear PROVE Tipos'
  <2>1. TablaVacia \in Tabla /\ SinMetadata \in Metadata
    BY EnArbolVacia DEF SinMetadata, SinNada, Metadata
  <2>2. /\ fs' \in {"up", "segfault"} /\ hilo' \in [Hilos -> EstadoHilo] /\ corte' \in BOOLEAN
    BY <1>5, TerminaTipo DEF Formatear, Ordena, Tipos
  <2> QED
    BY <1>5, <2>1, <2>2 DEF Formatear, Tipos, Escribiendo
<1>6. ASSUME NEW t \in Hilos, NEW p \in RutasArchivo, SinDirectorio(t, p) PROVE Tipos'
  BY <1>6, SigueNuloTipo DEF SinDirectorio
<1>7. ASSUME NEW t \in Hilos, NEW p \in RutasArchivo, EscribirArchivo(t, p) PROVE Tipos'
  <2> DEFINE s == [pc |-> "escribe", ruta |-> p]
  <2>1. hilo' = [hilo EXCEPT ![t] = s] /\ s \in EstadoHilo
    BY <1>7 DEF EscribirArchivo, EstadoHilo
  <2>2. hilo' \in [Hilos -> EstadoHilo]
    BY <2>1, HiloCambia
  <2> QED
    BY <1>7, <2>2 DEF EscribirArchivo, Tipos, historia
<1>8. ASSUME NEW t \in Hilos, CrearArchivoMetadata(t) PROVE Tipos'
  <2>1. hilo[t].ruta \in RutasArchivo /\ hilo[t].ruta \in Rutas
    BY <1>8, HiloTipo DEF CrearArchivoMetadata, Tipos, RutasArchivo
  <2>2. escritos' \in 1 .. MaxEscrituras /\ escritos' \in 0 .. MaxEscrituras
    BY <1>8, FsDirectoriosAssumption DEF CrearArchivoMetadata, Tipos
  <2>3. md' \in Metadata
    <3>1. Pone(CarpetaDe(hilo[t].ruta), Last(hilo[t].ruta), escritos')
      BY <1>8 DEF CrearArchivoMetadata
    <3> QED
      BY <2>1, <2>2, <3>1, PoneTipo, CarpetaDeTipo, RutaDada DEF Archivos
  <2>4. hilo' \in [Hilos -> EstadoHilo]
    BY <1>8, HiloCambia DEF CrearArchivoMetadata, EstadoHilo
  <2> QED
    BY <1>8, <2>2, <2>3, <2>4 DEF CrearArchivoMetadata, Tipos, ExisteArchivo
<1>9. ASSUME NEW t \in Hilos, EscrituraFalla(t) PROVE Tipos'
  <2>1. hilo' \in [Hilos -> EstadoHilo]
    BY <1>9, HiloCambia DEF EscrituraFalla, EstadoHilo
  <2> QED
    BY <1>9, <2>1 DEF EscrituraFalla, Tipos, historia
<1>10. ASSUME NEW p \in RutasArchivo, EliminarArchivo(p) PROVE Tipos'
  <2>1. md' \in Metadata
    BY <1>10, PoneTipo, CarpetaDeTipo, RutaDada DEF EliminarArchivo, RutasArchivo
  <2> QED
    BY <1>10, <2>1 DEF EliminarArchivo, Tipos, historia
<1>11. ASSUME NEW p \in RutasArchivo, NEW x \in Nombres, RenombrarArchivo(p, x) PROVE Tipos'
  <2>1. Last(p) \in Nombres /\ 0 \in Carpetas
    BY RutaDada, IndicesNaturales DEF RutasArchivo
  <2>2. md' \in Metadata
    <3>1. md[0][Last(p)] \in Archivos \cup {NULL}
      BY <2>1, MetadataTipo DEF Tipos
    <3> DEFINE m == [md EXCEPT ![0][x] = md[0][Last(p)]]
    <3>2. m \in Metadata
      BY <2>1, <3>1, PoneEs DEF Tipos
    <3>3. md' = [m EXCEPT ![0][Last(p)] = NULL]
      BY <1>11 DEF RenombrarArchivo
    <3> HIDE DEF m
    <3> QED
      BY <2>1, <3>2, <3>3, PoneEs
  <2> QED
    BY <1>11, <2>2 DEF RenombrarArchivo, Tipos, historia
<1>12. ASSUME NEW p \in RutasArchivo, NEW d \in Rutas, CopiarMetadata(p, d) PROVE Tipos'
  <2>1. CASE SigueNulo
    BY <2>1, SigueNuloTipo
  <2>2. CASE ~SigueNulo
    <3> DEFINE o == ObtenerIndiceDirPadre(p)
               s == [pc |-> "mueve", indice |-> o, nombre |-> Last(p)]
    <3>1. p \in Rutas /\ Last(p) \in Nombres /\ o \in Carpetas /\ Carpeta(d) \in Carpetas
      BY RutaDada, CarpetaDeTipo, CarpetaTipo DEF RutasArchivo
    <3>2. Pone(Carpeta(d), Last(p), md[o][Last(p)]) /\ hilo' = [hilo EXCEPT ![Consola] = s]
          /\ UNCHANGED <<fs, tabla, escritos, historia>>
      BY <1>12, <2>2 DEF CopiarMetadata
    <3>3. s \in EstadoHilo
      BY <3>1 DEF EstadoHilo
    <3> HIDE DEF o
    <3>4. md' \in Metadata
      BY <3>1, <3>2, PoneTipo, MetadataTipo DEF Tipos
    <3>5. hilo' \in [Hilos -> EstadoHilo]
      BY <3>2, <3>3, HiloCambia, HilosTipo
    <3> QED
      BY <3>2, <3>4, <3>5 DEF Tipos, historia
  <2> QED
    BY <2>1, <2>2
<1>13. ASSUME BorrarOrigen PROVE Tipos'
  <2>1. md' \in Metadata
    BY <1>13, PoneTipo, HiloTipo, HilosTipo DEF BorrarOrigen, Tipos
  <2>2. hilo' \in [Hilos -> EstadoHilo]
    BY <1>13, HiloCambia, HilosTipo DEF BorrarOrigen, EstadoHilo
  <2> QED
    BY <1>13, <2>1, <2>2 DEF BorrarOrigen, Tipos, historia
<1>14. ASSUME Reiniciar PROVE Tipos'
  BY <1>14, TerminaTipo DEF Reiniciar, Tipos
<1>15. CASE UNCHANGED vars
  BY <1>15 DEF vars, historia, Tipos
<1> QED
  BY <1>1, <1>2, <1>3, <1>4, <1>5, <1>6, <1>7, <1>8, <1>9, <1>10, <1>11, <1>12, <1>13,
     <1>14, <1>15
  DEF Next, Directorios, DeArchivos

(* A formatted file system has the types.                                  *)
LEMMA TiposInit == Init => Tipos
<1>1. TablaVacia \in Tabla /\ SinMetadata \in Metadata
  BY EnArbolVacia DEF SinMetadata, SinNada, Metadata, Carpetas
<1>2. 0 \in 0 .. MaxEscrituras
  BY FsDirectoriosAssumption
<1> QED
  BY <1>1, <1>2 DEF Init, Tipos, EstadoHilo

(* The types hold in every state, for any table, paths and names.          *)
THEOREM TypeCorrect == Spec => []TypeOK
<1>1. Init => TypeOK
  BY TiposInit, TiposEs
<1>2. TypeOK /\ [Next]_vars => TypeOK'
  <2>1. Tipos' => TypeOK'
    BY TiposEs, PTL
  <2> QED
    BY <2>1, TiposEs, TiposSiguen
<1> QED
  BY <1>1, <1>2, PTL DEF Spec

-----------------------------------------------------------------------------
(* The inductive invariant.                                                *)

Arbol ==
    /\ EnArbol(tabla)
    /\ ~repite => HermanosDistintos(tabla) /\ SinNombreDelPadre(tabla)

(* What a write finds at its end is there, unless a directory went away.   *)
Escritores ==
    \A t \in Hilos : hilo[t].pc = "escribe" => CarpetaDe(hilo[t].ruta) # Nadie \/ sacado \/ repite

(* The directory that is being removed is still empty.                     *)
Quitando ==
    hilo[Consola].pc = "quita" =>
      LET q == hilo[Consola].indice
      IN  /\ q # 0 /\ \A j \in Indices \ {0} : tabla[j].padre # q
          /\ (\A x \in Nombres : md[q][x] = NULL) \/ sacado

(* No file has a number that is still to come.                             *)
Numerados ==
    \A i \in Carpetas, x \in Nombres : md[i][x] = NULL \/ md[i][x] <= escritos

EnDirectorios ==
    \A i \in Carpetas, x \in Nombres :
        md[i][x] # NULL => i \in UsadosDe(tabla) \cup {0} \/ sacado \/ repite

Origen(i, x) ==
    hilo[Consola].pc = "mueve" /\ hilo[Consola].indice = i /\ hilo[Consola].nombre = x

(* Of two places of a file one is where mv has it from.                    *)
Unicos ==
    \A i, k \in Carpetas, x, y \in Nombres :
        md[i][x] = md[k][y] /\ md[i][x] # NULL =>
          \/ i = k /\ x = y
          \/ corte \/ Origen(i, x) \/ Origen(k, y)

(* What mv is about to delete has its copy.                                *)
Copiado ==
    \A i \in Carpetas, x \in Nombres :
        Origen(i, x) => \/ pisado
                        \/ /\ md[i][x] # NULL
                           /\ \E k \in Carpetas, y \in Nombres :
                                md[k][y] = md[i][x] /\ ~(k = i /\ y = x)

Archivado == Numerados /\ EnDirectorios /\ Unicos /\ Copiado

IInv == Tipos /\ Arbol /\ Escritores /\ Quitando /\ Archivado

(* A formatted file system has the invariant.                              *)
LEMMA IInvInit == Init => IInv
<1>1. SUFFICES ASSUME Init PROVE IInv
  OBVIOUS
<1>2. Tipos /\ tabla = TablaVacia /\ hilo = [t \in Hilos |-> Libre] /\ Consola \in Hilos
  BY <1>1, TiposInit, HilosTipo DEF Init
<1>3. \A t \in Hilos : hilo[t].pc = "libre"
  BY <1>2 DEF Libre
<1>4. \A i \in Carpetas, x \in Nombres : md[i][x] = NULL
  BY <1>1 DEF Init, SinMetadata, SinNada, Carpetas
<1>5. Arbol
  BY <1>2, EnArbolVacia DEF Arbol
<1>6. Escritores /\ Quitando
  BY <1>2, <1>3 DEF Escritores, Quitando
<1>7. Archivado
  BY <1>2, <1>3, <1>4 DEF Archivado, Numerados, EnDirectorios, Unicos, Copiado, Origen
<1> QED
  BY <1>2, <1>5, <1>6, <1>7 DEF IInv

-----------------------------------------------------------------------------
(* Steps that leave a part of it alone.                                    *)

(* A step that changes nothing keeps it.                                   *)
LEMMA NadaCambia ==
    ASSUME IInv, UNCHANGED <<tabla, md, hilo, escritos, historia>>
    PROVE  Arbol' /\ Escritores' /\ Quitando' /\ Archivado'
BY DEF IInv, historia, Arbol, Escritores, Quitando, Archivado, Numerados, EnDirectorios,
       Unicos, Copiado, Origen, CarpetaDe, Carpeta, ObtenerIndiceDir

(* The process ends or is started.                                         *)
LEMMA Terminado ==
    ASSUME IInv, NEW como, Termina(como),
           UNCHANGED <<tabla, md, escritos, repite, sacado, pisado>>
    PROVE  Arbol' /\ Escritores' /\ Quitando' /\ Archivado'
<1>1. /\ \A t \in Hilos : hilo'[t].pc = "libre"
      /\ corte => corte'
      /\ hilo[Consola].pc = "mueve" => corte'
  BY TerminaTipo DEF IInv, Libre
<1>2. hilo'[Consola].pc = "libre"
  BY <1>1, HilosTipo
<1>3. Arbol' /\ Numerados' /\ EnDirectorios'
  BY DEF IInv, Archivado, Arbol, Numerados, EnDirectorios
<1>4. Escritores' /\ Quitando' /\ Copiado'
  BY <1>1, <1>2 DEF Escritores, Quitando, Copiado, Origen
<1>5. Unicos'
  BY <1>1 DEF IInv, Archivado, Unicos, Origen
<1> QED
  BY <1>3, <1>4, <1>5 DEF Archivado

(* A change of the table that only adds directories or names.              *)
LEMMA EscritoresSiguen ==
    ASSUME IInv, tabla' \in Tabla, \A j \in UsadosDe(tabla) : tabla'[j] = tabla[j],
           ~repite' => HermanosDistintos(tabla') /\ ~repite,
           UNCHANGED <<hilo, sacado>>
    PROVE  Escritores'
<1>1. SUFFICES ASSUME NEW t \in Hilos, hilo[t].pc = "escribe", ~sacado, ~repite'
               PROVE  CarpetaDe(hilo[t].ruta)' # Nadie
  BY DEF Escritores
<1>2. hilo[t].ruta \in Rutas /\ hilo'[t].ruta = hilo[t].ruta /\ tabla \in Tabla
  BY <1>1, HiloTipo DEF IInv, Tipos, RutasArchivo
<1> DEFINE d == ObtenerDirArchivo(hilo[t].ruta)
<1>3. d \in Ruta
  BY <1>2, CarpetaDeTipo
<1>4. CarpetaDe(hilo[t].ruta) # Nadie
  BY <1>1 DEF IInv, Escritores
<1>5. CASE DesdePunto(d)
  BY <1>2, <1>5 DEF CarpetaDe, Carpeta, Nadie
<1>6. CASE ~DesdePunto(d)
  <2>1. Camino(tabla, d) # Nadie
    BY <1>4, <1>6 DEF CarpetaDe, Carpeta, ObtenerIndiceDir
  <2>2. Camino(tabla', d) = Camino(tabla, d)
    <3> HIDE DEF d
    <3> QED
      BY <1>1, <1>2, <1>3, <2>1, CaminoEstable
  <2> QED
    BY <1>2, <1>6, <2>1, <2>2 DEF CarpetaDe, Carpeta, ObtenerIndiceDir
<1> QED
  BY <1>5, <1>6

(* crearDirectorio keeps the invariant: the new name is not that of a      *)
(* sibling, since what is there exists.                                    *)
LEMMA PasoCrear ==
    ASSUME IInv, NEW p \in Rutas, CrearDirectorio(p)
    PROVE  Arbol' /\ Escritores' /\ Quitando' /\ Archivado'
<1>1. CASE SinLugar
  BY <1>1, Terminado DEF SinLugar
<1>2. ASSUME NEW i \in Indices, Crea(p, i)
      PROVE  Arbol' /\ Escritores' /\ Quitando' /\ Archivado'
  <2> DEFINE padre == ObtenerIndiceDirPadre(p)
             x == Last(p)
  <2>1. /\ tabla \in Tabla /\ EnArbol(tabla) /\ i \in Indices \ {0} /\ tabla[i].padre = Nadie
        /\ x \in Nombres /\ tabla' = ConEntrada(tabla, i, x, padre)
        /\ p \in Ruta /\ p # <<>> /\ Front(p) \in Ruta
    BY <1>2, RutaDada, CarpetaDeTipo DEF Crea, IInv, Tipos, Arbol
  <2>2. padre \in UsadosDe(tabla) \cup {0, Nadie}
    BY <2>1, CaminoUsado DEF ObtenerIndiceDirPadre
  <2> HIDE DEF padre, x
  <2>3. /\ tabla' \in Tabla /\ EnArbol(tabla') /\ UsadosDe(tabla) \subseteq UsadosDe(tabla')
        /\ \A j \in UsadosDe(tabla) : tabla'[j] = tabla[j]
    BY <2>1, <2>2, EnArbolCrear
  <2>4. (repite => repite') /\ (~repite' => SinNombreDelPadre(tabla'))
    BY <1>2, RepitenTipo DEF Crea, IInv
  <2>5. ASSUME ~repite' PROVE HermanosDistintos(tabla')
    <3>1. HermanosDistintos(tabla) /\ SinNombreDelPadre(tabla)
      BY <2>4, <2>5 DEF IInv, Arbol
    <3>2. Camino(tabla, p) = Nadie
      BY <1>2, <2>1, <3>1, ExisteSiHay DEF Crea
    <3>3. /\ \A j \in Indices \ {i} : tabla'[j] = tabla[j]
          /\ tabla'[i] = [nombre |-> x, padre |-> padre]
      <4>1. padre \in Indices \cup {Nadie}
        BY <2>2, IndicesNaturales DEF UsadosDe
      <4> QED
        BY <2>1, <4>1, UnaEntrada
    <3>4. ASSUME NEW j \in UsadosDe(tabla), tabla[j].padre = padre, tabla[j].nombre = x PROVE FALSE
      <4>1. padre = Camino(tabla, Front(p))
        <5>1. CASE Len(p) = 1
          <6>1. Front(p) = <<>>
            BY <2>1, <5>1, FrontEs DEF Ruta
          <6> QED
            BY <5>1, <6>1, CaminoVacio DEF padre, ObtenerIndiceDirPadre
        <5>2. CASE Len(p) # 1
          BY <5>2 DEF padre, ObtenerIndiceDirPadre
        <5> QED
          BY <5>1, <5>2
      <4>2. Hijo(tabla, padre, x) = Nadie
        BY <2>1, <3>2, <4>1, CaminoPaso DEF x
      <4>3. padre # Nadie /\ j \in Indices
        BY <3>4 DEF UsadosDe
      <4> QED
        BY <3>4, <4>2, <4>3, HijoEs
    <3>5. \A j \in UsadosDe(tabla') : j = i \/ j \in UsadosDe(tabla)
      BY <3>3 DEF UsadosDe
    <3> QED
      BY <3>1, <3>3, <3>4, <3>5, <2>3 DEF HermanosDistintos
  <2>6. Arbol'
    BY <2>3, <2>4, <2>5 DEF Arbol
  <2>7. Escritores'
    BY <1>2, <2>3, <2>4, <2>5, EscritoresSiguen DEF Crea
  <2>8. Quitando'
    BY <1>2 DEF Crea, Quitando, Libre
  <2>9. Archivado'
    <3>1. UNCHANGED <<md, escritos, hilo, sacado, corte, pisado>>
      BY <1>2 DEF Crea
    <3>2. EnDirectorios'
      BY <2>3, <2>4, <3>1 DEF IInv, Archivado, EnDirectorios
    <3>3. Numerados' /\ Unicos' /\ Copiado'
      BY <3>1 DEF IInv, Archivado, Numerados, Unicos, Copiado, Origen
    <3> QED
      BY <3>2, <3>3 DEF Archivado
  <2> QED
    BY <2>6, <2>7, <2>8, <2>9
<1> QED
  BY <1>1, <1>2, CrearEs

(* The check of eliminarDirectorio: it leaves the thread with an empty     *)
(* directory.                                                              *)
LEMMA PasoVerificarVacio ==
    ASSUME IInv, NEW p \in Rutas, VerificarVacio(p)
    PROVE  Arbol' /\ Escritores' /\ Quitando' /\ Archivado'
<1>1. CASE SigueNulo
  BY <1>1, Terminado DEF SigueNulo
<1>2. CASE ~SigueNulo
  <2> DEFINE i == ObtenerIndiceDir(p)
  <2>1. /\ hilo[Consola] = Libre /\ i \in Indices \ {0} /\ Vacio(i)
        /\ hilo' = [hilo EXCEPT ![Consola] = [pc |-> "quita", indice |-> i]]
        /\ UNCHANGED <<fs, tabla, md, escritos, historia>>
    BY <1>2 DEF VerificarVacio, Ordena
  <2> HIDE DEF i
  <2>2. /\ hilo'[Consola].pc = "quita" /\ hilo'[Consola].indice = i
        /\ \A t \in Hilos : hilo'[t].pc = "escribe" => hilo'[t] = hilo[t]
    BY <2>1, HilosTipo DEF IInv, Tipos
  <2>3. Arbol' /\ Numerados' /\ EnDirectorios' /\ Unicos' /\ Copiado'
    BY <2>1, <2>2
    DEF IInv, historia, Archivado, Arbol, Numerados, EnDirectorios, Unicos, Copiado, Origen, Libre
  <2>4. Escritores'
    BY <2>1, <2>2 DEF IInv, historia, Escritores, CarpetaDe, Carpeta, ObtenerIndiceDir
  <2>5. Quitando'
    BY <2>1, <2>2 DEF Quitando, Vacio, SinNada
  <2> QED
    BY <2>3, <2>4, <2>5 DEF Archivado
<1> QED
  BY <1>1, <1>2

(* The removal of it: what was checked holds, or a write ended meanwhile.  *)
LEMMA PasoQuitar ==
    ASSUME IInv, QuitarDirectorio
    PROVE  Arbol' /\ Escritores' /\ Quitando' /\ Archivado'
<1> DEFINE q == hilo[Consola].indice
<1>1. /\ tabla \in Tabla /\ EnArbol(tabla) /\ q \in Indices \ {0}
      /\ \A j \in Indices \ {0} : tabla[j].padre # q
      /\ (\A x \in Nombres : md[q][x] = NULL) \/ sacado
      /\ tabla' = ConEntrada(tabla, q, NULL, Nadie)
      /\ UNCHANGED <<md, escritos, repite, corte, pisado>>
  BY HiloTipo, HilosTipo DEF IInv, Tipos, Arbol, Quitando, QuitarDirectorio, ConNombre, ConEntrada
<1> HIDE DEF q
<1>2. /\ tabla' \in Tabla /\ EnArbol(tabla') /\ UsadosDe(tabla') = UsadosDe(tabla) \ {q}
      /\ HermanosDistintos(tabla) => HermanosDistintos(tabla')
      /\ SinNombreDelPadre(tabla) => SinNombreDelPadre(tabla')
  BY <1>1, EnArbolQuitar
<1>3. /\ hilo[Consola].pc = "quita" /\ hilo'[Consola] = Libre
      /\ \A t \in Hilos : hilo'[t].pc = "escribe" => t = Worker
      /\ hilo'[Worker] = hilo[Worker]
      /\ sacado' = (sacado \/ hilo[Worker].pc = "escribe")
  BY HilosTipo DEF IInv, Tipos, QuitarDirectorio, Escribiendo, Libre, Hilos
<1>4. Arbol'
  BY <1>1, <1>2 DEF IInv, Arbol
<1>5. Escritores'
  BY <1>3 DEF Escritores
<1>6. Quitando'
  BY <1>3 DEF Quitando, Libre
<1>7. Archivado'
  <2>1. hilo'[Consola].pc # "mueve" /\ hilo[Consola].pc # "mueve"
    BY <1>3 DEF Libre
  <2>2. EnDirectorios'
    BY <1>1, <1>2, <1>3 DEF IInv, Archivado, EnDirectorios
  <2> QED
    BY <1>1, <2>1, <2>2 DEF IInv, Archivado, Numerados, Unicos, Copiado, Origen
<1> QED
  BY <1>4, <1>5, <1>6, <1>7

(* rename -d: the parent it looks for the name in is that of the entry.    *)
LEMMA PasoRenombrarDirectorio ==
    ASSUME IInv, NEW p \in Rutas, NEW x \in Nombres, RenombrarDirectorio(p, x)
    PROVE  Arbol' /\ Escritores' /\ Quitando' /\ Archivado'
<1> DEFINE i == ObtenerIndiceDir(p)
<1>1. /\ hilo[Consola] = Libre /\ i \in Indices \ {0}
      /\ \A j \in Indices : ~(tabla[j].padre = ObtenerIndiceDirPadre(p) /\ tabla[j].nombre = x)
      /\ tabla' = ConEntrada(tabla, i, x, tabla[i].padre)
      /\ sacado' = (sacado \/ Escribiendo) /\ Repiten
      /\ UNCHANGED <<fs, md, hilo, escritos, corte, pisado>>
  BY DEF RenombrarDirectorio, ConNombre, ConEntrada, Ordena
<1>2. /\ tabla \in Tabla /\ EnArbol(tabla) /\ p \in Ruta /\ p # <<>> /\ Front(p) \in Ruta
  BY RutaDada, CarpetaDeTipo DEF IInv, Tipos, Arbol
<1>3. i # Nadie /\ i = Camino(tabla, p)
  BY <1>1, IndicesNaturales DEF ObtenerIndiceDir
<1>4. i \in UsadosDe(tabla) /\ tabla[i].padre = Camino(tabla, Front(p))
  <2> HIDE DEF i
  <2> QED
    BY <1>1, <1>2, <1>3, CaminoUsado, CaminoFin
<1>5. Camino(tabla, Front(p)) = ObtenerIndiceDirPadre(p)
  <2>1. CASE Len(p) = 1
    <3>1. Front(p) \in Ruta /\ Len(Front(p)) = 0
      BY <1>2, <2>1, FrontEs
    <3>2. Front(p) = <<>>
      BY <3>1, EmptySeq DEF Ruta
    <3> QED
      BY <2>1, <3>2, CaminoVacio DEF ObtenerIndiceDirPadre
  <2>2. CASE Len(p) # 1
    BY <2>2 DEF ObtenerIndiceDirPadre
  <2> QED
    BY <2>1, <2>2
<1> HIDE DEF i
<1>6. /\ tabla' \in Tabla /\ EnArbol(tabla') /\ UsadosDe(tabla') = UsadosDe(tabla)
      /\ HermanosDistintos(tabla) => HermanosDistintos(tabla')
  BY <1>1, <1>2, <1>4, <1>5, EnArbolRenombrar
<1>7. (repite => repite') /\ (~repite' => SinNombreDelPadre(tabla'))
  BY <1>1, RepitenTipo DEF IInv
<1>8. Arbol'
  BY <1>6, <1>7 DEF IInv, Arbol
<1>9. Escritores'
  <2>1. hilo[Consola].pc # "escribe" /\ (hilo[Worker].pc = "escribe" => sacado')
    <3>1. hilo[Consola].pc # "escribe"
      BY <1>1 DEF Libre
    <3>2. hilo[Worker].pc = "escribe" => sacado'
      BY <1>1, Zenon DEF Escribiendo
    <3> QED
      BY <3>1, <3>2
  <2> QED
    BY <1>1, <2>1 DEF Escritores, Hilos
<1>10. Quitando' /\ Archivado'
  <2>1. /\ UNCHANGED <<md, escritos, hilo, corte, pisado>> /\ hilo[Consola].pc = "libre"
        /\ sacado => sacado'
    <3>1. sacado => sacado'
      BY <1>1, Zenon
    <3>2. hilo[Consola].pc = "libre"
      BY <1>1 DEF Libre
    <3> QED
      BY <1>1, <3>1, <3>2
  <2>2. EnDirectorios'
    BY <1>6, <1>7, <2>1 DEF IInv, Archivado, EnDirectorios
  <2>3. Numerados' /\ Unicos' /\ Copiado' /\ Quitando'
    BY <2>1 DEF IInv, Archivado, Numerados, Unicos, Copiado, Origen, Quitando
  <2> QED
    BY <2>2, <2>3 DEF Archivado
<1> QED
  BY <1>8, <1>9, <1>10

(* format: nothing is left.                                                *)
LEMMA PasoFormatear ==
    ASSUME IInv, Formatear
    PROVE  Arbol' /\ Escritores' /\ Quitando' /\ Archivado'
<1>1. /\ hilo[Consola] = Libre /\ tabla' = TablaVacia /\ md' = SinMetadata
      /\ sacado' = (sacado \/ Escribiendo) /\ UNCHANGED <<escritos, repite, pisado>>
  BY DEF Formatear, Ordena
<1>2. /\ \A t \in Hilos : hilo'[t] \in {Libre, hilo[t]}
      /\ hilo'[Consola] = Libre
  BY <1>1, TerminaTipo, HilosTipo DEF Formatear, IInv
<1>3. Arbol'
  BY <1>1, EnArbolVacia DEF Arbol
<1>4. Escritores'
  <2>1. hilo'[Consola].pc # "escribe" /\ (hilo'[Worker].pc = "escribe" => sacado')
    <3>1. hilo'[Consola].pc # "escribe"
      BY <1>2 DEF Libre
    <3>2. hilo'[Worker] = Libre \/ hilo'[Worker] = hilo[Worker]
      BY <1>2, HilosTipo
    <3>3. Libre.pc # "escribe"
      BY DEF Libre
    <3>4. hilo'[Worker].pc = "escribe" => sacado'
      BY <1>1, <3>2, <3>3, Zenon DEF Escribiendo
    <3> QED
      BY <3>1, <3>4
  <2> QED
    BY <2>1 DEF Escritores, Hilos
<1>5. Quitando'
  BY <1>2 DEF Quitando, Libre
<1>6. \A i \in Carpetas, x \in Nombres : md'[i][x] = NULL
  BY <1>1 DEF SinMetadata, SinNada, Carpetas
<1>7. Archivado'
  BY <1>2, <1>6 DEF Archivado, Numerados, EnDirectorios, Unicos, Copiado, Origen, Libre
<1> QED
  BY <1>3, <1>4, <1>5, <1>7

-----------------------------------------------------------------------------
(* Steps on files.                                                         *)

(* Steps of files leave the tree alone, and end or begin a write.          *)
LEMMA SinTabla ==
    ASSUME IInv, UNCHANGED <<tabla, repite>>, sacado => sacado',
           \A t \in Hilos : hilo'[t] = hilo[t] \/ hilo'[t].pc \notin {"escribe", "quita"}
    PROVE  Arbol' /\ Escritores'
<1>1. Arbol'
  BY DEF IInv, Arbol
<1>2. \A t \in Hilos : hilo'[t].pc = "escribe" => hilo'[t] = hilo[t]
  OBVIOUS
<1>3. Escritores'
  BY <1>2 DEF IInv, Escritores, CarpetaDe, Carpeta, ObtenerIndiceDir
<1> QED
  BY <1>1, <1>3

(* The beginning of a write keeps the invariant.                           *)
LEMMA PasoEscribir ==
    ASSUME IInv, NEW t \in Hilos, NEW p \in RutasArchivo, EscribirArchivo(t, p)
    PROVE  Arbol' /\ Escritores' /\ Quitando' /\ Archivado'
<1>1. /\ hilo[t] = Libre /\ CarpetaDe(p) # Nadie
      /\ hilo' = [hilo EXCEPT ![t] = [pc |-> "escribe", ruta |-> p]]
      /\ UNCHANGED <<fs, tabla, md, escritos, repite, sacado, corte, pisado>>
  BY DEF EscribirArchivo, Ordena, historia
<1>2. /\ hilo'[t].pc = "escribe" /\ hilo'[t].ruta = p
      /\ \A u \in Hilos \ {t} : hilo'[u] = hilo[u]
  BY <1>1 DEF IInv, Tipos
<1>3. Arbol' /\ Numerados' /\ EnDirectorios'
  BY <1>1 DEF IInv, Archivado, Arbol, Numerados, EnDirectorios
<1>4. Escritores'
  BY <1>1, <1>2 DEF IInv, Escritores, CarpetaDe, Carpeta, ObtenerIndiceDir
<1>5. \/ hilo'[Consola] = hilo[Consola]
      \/ hilo'[Consola].pc = "escribe" /\ hilo[Consola].pc = "libre"
  <2>1. CASE t = Consola
    BY <1>1, <1>2, <2>1 DEF Libre
  <2>2. CASE t # Consola
    BY <1>1, <1>2, <2>2, HilosTipo
  <2> QED
    BY <2>1, <2>2
<1>6. Quitando' /\ Unicos' /\ Copiado'
  BY <1>1, <1>5 DEF IInv, Archivado, Quitando, Unicos, Copiado, Origen
<1> QED
  BY <1>3, <1>4, <1>6 DEF Archivado

(* So does the end of one that fails.                                      *)
LEMMA PasoEscrituraFalla ==
    ASSUME IInv, NEW t \in Hilos, EscrituraFalla(t)
    PROVE  Arbol' /\ Escritores' /\ Quitando' /\ Archivado'
<1>1. /\ hilo[t].pc = "escribe" /\ hilo' = [hilo EXCEPT ![t] = Libre]
      /\ UNCHANGED <<fs, tabla, md, escritos, repite, sacado, corte, pisado>>
  BY DEF EscrituraFalla, historia
<1>2. /\ hilo'[t].pc = "libre" /\ \A u \in Hilos \ {t} : hilo'[u] = hilo[u]
  BY <1>1 DEF IInv, Tipos, Libre
<1>3. Arbol' /\ Escritores'
  BY <1>1, <1>2, SinTabla
<1>4. Numerados' /\ EnDirectorios'
  BY <1>1 DEF IInv, Archivado, Numerados, EnDirectorios
<1>5. \/ hilo'[Consola] = hilo[Consola]
      \/ hilo'[Consola].pc = "libre" /\ hilo[Consola].pc = "escribe"
  <2>1. CASE t = Consola
    BY <1>1, <1>2, <2>1
  <2>2. CASE t # Consola
    BY <1>1, <1>2, <2>2, HilosTipo
  <2> QED
    BY <2>1, <2>2
<1>6. Quitando' /\ Unicos' /\ Copiado'
  BY <1>1, <1>5 DEF IInv, Archivado, Quitando, Unicos, Copiado, Origen
<1> QED
  BY <1>3, <1>4, <1>6 DEF Archivado

(* Where CarpetaDe is found, there is a directory.                         *)
LEMMA CarpetaUsada ==
    ASSUME IInv, NEW d \in Ruta, Carpeta(d) # Nadie
    PROVE  Carpeta(d) \in UsadosDe(tabla) \cup {0}
BY CaminoUsado DEF IInv, Tipos, Carpeta, ObtenerIndiceDir

(* So does the end of one, in the folder that the path leads to then.      *)
LEMMA PasoCrearArchivo ==
    ASSUME IInv, NEW t \in Hilos, CrearArchivoMetadata(t)
    PROVE  Arbol' /\ Escritores' /\ Quitando' /\ Archivado'
<1> DEFINE p == hilo[t].ruta
           c == CarpetaDe(p)
           z == Last(p)
           f == escritos + 1
<1>1. /\ hilo[t].pc = "escribe" /\ escritos < MaxEscrituras /\ escritos' = f
      /\ md' = [md EXCEPT ![c][z] = f] /\ hilo' = [hilo EXCEPT ![t] = Libre]
      /\ pisado' = (pisado \/ md[c][z] # NULL)
      /\ sacado' = (sacado \/ hilo[Consola].pc = "quita")
      /\ UNCHANGED <<fs, tabla, repite, corte>>
  BY DEF CrearArchivoMetadata, Pone, ExisteArchivo
<1>2. p \in Rutas /\ z \in Nombres /\ c \in Carpetas /\ c = Carpeta(ObtenerDirArchivo(p))
      /\ ObtenerDirArchivo(p) \in Ruta
  <2>1. p \in RutasArchivo /\ p \in Rutas
    BY <1>1, HiloTipo DEF IInv, Tipos, RutasArchivo
  <2> HIDE DEF p
  <2> QED
    BY <2>1, RutaDada, CarpetaDeTipo DEF CarpetaDe
<1>3. c \in UsadosDe(tabla) \cup {0} \/ sacado \/ repite
  <2>1. c # Nadie \/ sacado \/ repite
    BY <1>1 DEF IInv, Escritores
  <2> HIDE DEF p, c
  <2> QED
    BY <1>2, <2>1, CarpetaUsada
<1> HIDE DEF p, c, z
<1>4. f \in Archivos /\ f # NULL /\ escritos \in Nat /\ escritos < f
  BY <1>1, FsDirectoriosAssumption DEF IInv, Tipos, Archivos
<1>5. \A k \in Carpetas, y \in Nombres : md'[k][y] = IF k = c /\ y = z THEN f ELSE md[k][y]
  BY <1>1, <1>2, <1>4, PoneEs DEF IInv, Tipos
<1>6. \A k \in Carpetas, y \in Nombres : md[k][y] # f
  BY <1>4 DEF IInv, Archivado, Numerados
<1>7. /\ hilo'[t].pc = "libre" /\ \A u \in Hilos \ {t} : hilo'[u] = hilo[u]
  BY <1>1 DEF IInv, Tipos, Libre
<1>8. (sacado => sacado') /\ (hilo[Consola].pc = "quita" => sacado')
  BY <1>1, Zenon
<1>9. (pisado => pisado') /\ (md[c][z] # NULL => pisado')
  BY <1>1, Zenon
<1>10. Arbol' /\ Escritores'
  BY <1>1, <1>7, <1>8, SinTabla
<1>11. \/ hilo'[Consola] = hilo[Consola]
       \/ hilo'[Consola].pc = "libre" /\ hilo[Consola].pc = "escribe"
  <2>1. CASE t = Consola
    BY <1>1, <1>7, <2>1
  <2>2. CASE t # Consola
    BY <1>1, <1>7, <2>2, HilosTipo
  <2> QED
    BY <2>1, <2>2
<1>12. Quitando'
  BY <1>1, <1>8, <1>11 DEF IInv, Quitando
<1>13. Numerados'
  <2>1. \A k \in Carpetas, y \in Nombres : md[k][y] = NULL \/ md[k][y] \in Nat
    BY MetadataTipo, FsDirectoriosAssumption DEF IInv, Tipos, Archivos
  <2> QED
    BY <1>1, <1>4, <1>5, <2>1 DEF IInv, Archivado, Numerados
<1>14. EnDirectorios'
  BY <1>1, <1>3, <1>5, <1>8 DEF IInv, Archivado, EnDirectorios
<1>15. Unicos'
  <2>1. \A i \in Carpetas, x \in Nombres : Origen(i, x) <=> Origen(i, x)'
    BY <1>11 DEF Origen
  <2> QED
    BY <1>1, <1>5, <1>6, <2>1 DEF IInv, Archivado, Unicos
<1>16. Copiado'
  <2>1. SUFFICES ASSUME NEW i \in Carpetas, NEW x \in Nombres, Origen(i, x)', ~pisado'
                 PROVE  /\ md'[i][x] # NULL
                        /\ \E k \in Carpetas, y \in Nombres :
                              md'[k][y] = md'[i][x] /\ ~(k = i /\ y = x)
    BY DEF Copiado
  <2>2. Origen(i, x)
    BY <1>11, <2>1 DEF Origen
  <2>3. md[c][z] = NULL
    BY <1>9, <2>1
  <2>4. md[i][x] # NULL
    BY <1>9, <2>1, <2>2 DEF IInv, Archivado, Copiado
  <2>5. PICK k \in Carpetas, y \in Nombres : md[k][y] = md[i][x] /\ ~(k = i /\ y = x)
    BY <1>9, <2>1, <2>2 DEF IInv, Archivado, Copiado
  <2>6. ~(i = c /\ x = z) /\ ~(k = c /\ y = z)
    BY <2>3, <2>4, <2>5
  <2>7. md'[i][x] = md[i][x] /\ md'[k][y] = md[k][y]
    BY <1>5, <2>6
  <2> QED
    BY <2>4, <2>5, <2>7
<1> QED
  BY <1>10, <1>12, <1>13, <1>14, <1>15, <1>16 DEF Archivado

(* rm keeps the invariant.                                                 *)
LEMMA PasoEliminar ==
    ASSUME IInv, NEW p \in RutasArchivo, EliminarArchivo(p)
    PROVE  Arbol' /\ Escritores' /\ Quitando' /\ Archivado'
<1> DEFINE c == CarpetaDe(p)
           z == Last(p)
<1>1. /\ hilo[Consola].pc = "libre" /\ md' = [md EXCEPT ![c][z] = NULL]
      /\ UNCHANGED <<fs, tabla, hilo, escritos, repite, sacado, corte, pisado>>
  BY DEF EliminarArchivo, Pone, Ordena, Libre, historia
<1>2. z \in Nombres /\ c \in Carpetas
  BY RutaDada, CarpetaDeTipo DEF RutasArchivo
<1> HIDE DEF c, z
<1>3. \A k \in Carpetas, y \in Nombres : md'[k][y] = NULL \/ md'[k][y] = md[k][y]
  BY <1>1, <1>2, PoneEs DEF IInv, Tipos
<1>4. Arbol' /\ Escritores'
  BY <1>1, SinTabla
<1>5. Quitando' /\ Copiado'
  BY <1>1 DEF Quitando, Copiado, Origen
<1>6. Numerados' /\ EnDirectorios' /\ Unicos'
  BY <1>1, <1>3 DEF IInv, Archivado, Numerados, EnDirectorios, Unicos, Origen
<1> QED
  BY <1>4, <1>5, <1>6 DEF Archivado

(* What the rename of a file does to the metadata of the root.             *)
LEMMA RenombrarEs ==
    ASSUME Tipos, NEW p \in RutasArchivo, NEW x \in Nombres, RenombrarArchivo(p, x)
    PROVE  /\ Last(p) \in Nombres /\ Last(p) # x /\ 0 \in Carpetas
           /\ md[0][Last(p)] # NULL
           /\ \A k \in Carpetas, y \in Nombres :
                md'[k][y] = IF k # 0 THEN md[k][y] ELSE IF y = Last(p) THEN NULL
                            ELSE IF y = x THEN md[0][Last(p)] ELSE md[k][y]
<1>1. Last(p) \in Nombres /\ 0 \in Carpetas
  BY RutaDada, IndicesNaturales DEF RutasArchivo, Carpetas
<1>2. md[CarpetaDe(p)][Last(p)] # NULL /\ md[CarpetaDe(p)][x] = NULL /\ md[0][Last(p)] # NULL
  BY DEF RenombrarArchivo, ExisteArchivo
<1> DEFINE m == [md EXCEPT ![0][x] = md[0][Last(p)]]
<1>3. md' = [m EXCEPT ![0][Last(p)] = NULL]
  BY DEF RenombrarArchivo
<1>4. md[0][Last(p)] \in Archivos \cup {NULL}
  BY <1>1, MetadataTipo DEF Tipos
<1>5. m \in Metadata
      /\ \A k \in Carpetas, y \in Nombres :
            m[k][y] = IF k = 0 /\ y = x THEN md[0][Last(p)] ELSE md[k][y]
  BY <1>1, <1>4, PoneEs DEF Tipos
<1> HIDE DEF m
<1>6. \A k \in Carpetas, y \in Nombres :
         md'[k][y] = IF k = 0 /\ y = Last(p) THEN NULL ELSE m[k][y]
  BY <1>1, <1>3, <1>5, PoneEs
<1> QED
  BY <1>1, <1>2, <1>5, <1>6

(* rename of a file keeps the invariant.                                   *)
LEMMA PasoRenombrarArchivo ==
    ASSUME IInv, NEW p \in RutasArchivo, NEW x \in Nombres, RenombrarArchivo(p, x)
    PROVE  Arbol' /\ Escritores' /\ Quitando' /\ Archivado'
<1>1. /\ hilo[Consola].pc = "libre"
      /\ UNCHANGED <<fs, tabla, hilo, escritos, repite, sacado, corte, pisado>>
  BY DEF RenombrarArchivo, Ordena, Libre, historia
<1> DEFINE z == Last(p)
<1>2. /\ z \in Nombres /\ z # x /\ 0 \in Carpetas /\ md[0][z] # NULL
      /\ \A k \in Carpetas, y \in Nombres :
                md'[k][y] = IF k # 0 THEN md[k][y] ELSE IF y = z THEN NULL
                            ELSE IF y = x THEN md[0][z] ELSE md[k][y]
  BY RenombrarEs DEF IInv
<1> HIDE DEF z
<1>3. Arbol' /\ Escritores'
  BY <1>1, SinTabla
<1>4. Quitando' /\ Copiado'
  BY <1>1 DEF Quitando, Copiado, Origen
<1>5. Numerados' /\ EnDirectorios'
  BY <1>1, <1>2 DEF IInv, Archivado, Numerados, EnDirectorios
<1>6. Unicos'
  BY <1>1, <1>2 DEF IInv, Archivado, Unicos, Origen
<1> QED
  BY <1>3, <1>4, <1>5, <1>6 DEF Archivado

(* What the first half of mv does, unless it ends the process.             *)
Copia(x, o, c) ==
    /\ hilo[Consola].pc = "libre" /\ x \in Nombres /\ o \in Carpetas /\ c \in Carpetas
    /\ c \in UsadosDe(tabla) \cup {0} /\ md[c][x] = NULL /\ md[o][x] # NULL
    /\ \A k \in Carpetas, y \in Nombres :
          md'[k][y] = IF k = c /\ y = x THEN md[o][x] ELSE md[k][y]
    /\ hilo'[Consola] = [pc |-> "mueve", indice |-> o, nombre |-> x]
    /\ \A t \in Hilos \ {Consola} : hilo'[t] = hilo[t]
    /\ UNCHANGED <<fs, tabla, escritos, repite, sacado, corte, pisado>>

(* CopiarMetadata does that.                                               *)
LEMMA CopiarEs ==
    ASSUME IInv, NEW p \in RutasArchivo, NEW d \in Rutas, CopiarMetadata(p, d), ~SigueNulo
    PROVE  Copia(Last(p), ObtenerIndiceDirPadre(p), Carpeta(d))
<1> DEFINE o == ObtenerIndiceDirPadre(p)
           c == Carpeta(d)
           x == Last(p)
<1>1. /\ hilo[Consola].pc = "libre" /\ c # Nadie /\ md[c][x] = NULL /\ md[o][x] # NULL
      /\ Pone(c, x, md[o][x])
      /\ hilo' = [hilo EXCEPT ![Consola] = [pc |-> "mueve", indice |-> o, nombre |-> x]]
      /\ UNCHANGED <<fs, tabla, escritos, repite, sacado, corte, pisado>>
  BY DEF CopiarMetadata, Ordena, Libre, Ocupado, historia
<1>2. x \in Nombres /\ o \in Carpetas /\ c \in Carpetas /\ d \in Ruta
  BY RutaDada, CarpetaDeTipo, CarpetaTipo DEF RutasArchivo
<1> HIDE DEF o, x
<1>3. c \in UsadosDe(tabla) \cup {0}
  BY <1>1, <1>2, CarpetaUsada
<1> HIDE DEF c
<1>4. \A k \in Carpetas, y \in Nombres :
          md'[k][y] = IF k = c /\ y = x THEN md[o][x] ELSE md[k][y]
  BY <1>1, <1>2, PoneEs, MetadataTipo DEF IInv, Tipos, Pone
<1>5. /\ hilo'[Consola] = [pc |-> "mueve", indice |-> o, nombre |-> x]
      /\ \A t \in Hilos \ {Consola} : hilo'[t] = hilo[t]
  BY <1>1, HilosTipo DEF IInv, Tipos
<1>6. Copia(x, o, c)
  BY <1>1, <1>2, <1>3, <1>4, <1>5 DEF Copia
<1> QED
  BY <1>6 DEF x, o, c

(* The first half of mv keeps the invariant.                               *)
LEMMA PasoCopiar ==
    ASSUME IInv, NEW p \in RutasArchivo, NEW d \in Rutas, CopiarMetadata(p, d)
    PROVE  Arbol' /\ Escritores' /\ Quitando' /\ Archivado'
<1>1. CASE SigueNulo
  BY <1>1, Terminado DEF SigueNulo
<1>2. ASSUME NEW x, NEW o, NEW c, Copia(x, o, c)
      PROVE  Arbol' /\ Escritores' /\ Quitando' /\ Archivado'
  <2>1. /\ hilo[Consola].pc = "libre" /\ x \in Nombres /\ o \in Carpetas /\ c \in Carpetas
        /\ c \in UsadosDe(tabla) \cup {0} /\ md[c][x] = NULL /\ md[o][x] # NULL
        /\ \A k \in Carpetas, y \in Nombres :
              md'[k][y] = IF k = c /\ y = x THEN md[o][x] ELSE md[k][y]
        /\ UNCHANGED <<fs, tabla, escritos, repite, sacado, corte, pisado>>
        /\ hilo'[Consola].pc = "mueve" /\ \A t \in Hilos \ {Consola} : hilo'[t] = hilo[t]
    BY <1>2 DEF Copia
  <2>2. Arbol' /\ Escritores'
    <3>1. \A t \in Hilos : hilo'[t] = hilo[t] \/ hilo'[t].pc \notin {"escribe", "quita"}
      BY <2>1
    <3> QED
      BY <2>1, <3>1, SinTabla
  <2>3. Quitando'
    BY <2>1 DEF Quitando
  <2>4. Numerados' /\ EnDirectorios'
    BY <2>1 DEF IInv, Archivado, Numerados, EnDirectorios
  <2>5. \A i \in Carpetas, y \in Nombres : ~Origen(i, y) /\ (Origen(i, y)' <=> i = o /\ y = x)
    BY <1>2, <2>1 DEF Origen, Copia
  <2>6. Unicos'
    BY <2>1, <2>5 DEF IInv, Archivado, Unicos
  <2>7. Copiado'
    <3>1. md'[o][x] = md[o][x] /\ md'[c][x] = md[o][x] /\ c # o
      BY <2>1
    <3> QED
      BY <2>1, <2>5, <3>1 DEF Copiado
  <2> QED
    BY <2>2, <2>3, <2>4, <2>6, <2>7 DEF Archivado
<1> QED
  BY <1>1, <1>2, CopiarEs

(* What the second half of mv does.                                        *)
LEMMA BorrarEs ==
    ASSUME Tipos, BorrarOrigen
    PROVE  \E o \in Carpetas, x \in Nombres :
             /\ Origen(o, x)
             /\ \A k \in Carpetas, y \in Nombres :
                   md'[k][y] = IF k = o /\ y = x THEN NULL ELSE md[k][y]
<1> DEFINE o == hilo[Consola].indice
           x == hilo[Consola].nombre
<1>1. hilo[Consola].pc = "mueve" /\ md' = [md EXCEPT ![o][x] = NULL] /\ o \in Carpetas /\ x \in Nombres
  BY HiloTipo, HilosTipo DEF BorrarOrigen, Pone, Tipos
<1>2. Origen(o, x)
  BY <1>1 DEF Origen
<1> HIDE DEF o, x
<1> QED
  BY <1>1, <1>2, PoneEs DEF Tipos

(* So does the second half.                                                *)
LEMMA PasoBorrar ==
    ASSUME IInv, BorrarOrigen
    PROVE  Arbol' /\ Escritores' /\ Quitando' /\ Archivado'
<1>1. PICK o \in Carpetas, x \in Nombres :
             /\ Origen(o, x)
             /\ \A k \in Carpetas, y \in Nombres :
                   md'[k][y] = IF k = o /\ y = x THEN NULL ELSE md[k][y]
  BY BorrarEs DEF IInv
<1>2. UNCHANGED <<fs, tabla, escritos, repite, sacado, corte, pisado>>
  BY DEF BorrarOrigen, historia
<1>3. hilo'[Consola].pc = "libre" /\ \A t \in Hilos \ {Consola} : hilo'[t] = hilo[t]
  BY HilosTipo DEF BorrarOrigen, IInv, Tipos, Libre
<1>4. Arbol' /\ Escritores'
  <2>1. \A t \in Hilos : hilo'[t] = hilo[t] \/ hilo'[t].pc \notin {"escribe", "quita"}
    BY <1>3
  <2> QED
    BY <1>2, <2>1, SinTabla
<1>5. Quitando' /\ Copiado'
  BY <1>3 DEF Quitando, Copiado, Origen
<1>6. Numerados' /\ EnDirectorios'
  BY <1>1, <1>2 DEF IInv, Archivado, Numerados, EnDirectorios
<1>7. Unicos'
  <2>1. \A i \in Carpetas, y \in Nombres : Origen(i, y) => i = o /\ y = x
    BY <1>1 DEF Origen
  <2> QED
    BY <1>1, <1>2, <2>1 DEF IInv, Archivado, Unicos
<1> QED
  BY <1>4, <1>5, <1>6, <1>7 DEF Archivado

(* Every step keeps the invariant.                                         *)
LEMMA IInvSigue ==
    ASSUME IInv, [Next]_vars
    PROVE  IInv'
<1>1. Tipos'
  BY TiposSiguen DEF IInv
<1>2. Arbol' /\ Escritores' /\ Quitando' /\ Archivado'
  <2>1. ASSUME NEW t \in Hilos, NEW p \in RutasArchivo, SinDirectorio(t, p)
        PROVE  Arbol' /\ Escritores' /\ Quitando' /\ Archivado'
    BY <2>1, Terminado DEF SinDirectorio, SigueNulo
  <2>2. ASSUME Reiniciar
        PROVE  Arbol' /\ Escritores' /\ Quitando' /\ Archivado'
    BY <2>2, Terminado DEF Reiniciar
  <2>3. CASE UNCHANGED vars
    BY <2>3, NadaCambia DEF vars
  <2> QED
    BY <2>1, <2>2, <2>3, PasoCrear, PasoVerificarVacio, PasoRenombrarDirectorio, PasoQuitar,
       PasoFormatear, PasoEscribir, PasoCrearArchivo, PasoEscrituraFalla, PasoEliminar,
       PasoRenombrarArchivo, PasoCopiar, PasoBorrar
    DEF Next, Directorios, DeArchivos
<1> QED
  BY <1>1, <1>2 DEF IInv

(* The invariant implies the property.                                     *)
LEMMA CuelgaSiIInv ==
    ASSUME IInv
    PROVE  CuelgaDeLaRaiz
<1>1. Usados = UsadosDe(tabla)
  BY DEF Usados, UsadosDe
<1>2. DirectoriosEnArbol
  BY <1>1 DEF IInv, Arbol, EnArbol, HermanosDistintos, DirectoriosEnArbol
<1>3. ArchivosEnDirectorios
  <2>1. SUFFICES ASSUME NEW f \in Archivos
                 PROVE  /\ \A l \in Lugares(f) : l[1] \in Usados \cup {0} \/ sacado \/ repite
                        /\ \A l, m \in Lugares(f) : l = m \/ Moviendo(f) \/ corte
    BY DEF ArchivosEnDirectorios
  <2>2. f # NULL
    BY FsDirectoriosAssumption DEF Archivos
  <2>3. \A l \in Lugares(f) : /\ l[1] \in Carpetas /\ l[2] \in Nombres /\ l = <<l[1], l[2]>>
                              /\ md[l[1]][l[2]] = f
    BY DEF Lugares, Carpetas
  <2>4. \A l \in Lugares(f) : l[1] \in Usados \cup {0} \/ sacado \/ repite
    BY <1>1, <2>2, <2>3 DEF IInv, Archivado, EnDirectorios
  <2>5. ASSUME NEW l \in Lugares(f), NEW m \in Lugares(f)
        PROVE  l = m \/ Moviendo(f) \/ corte
    <3>1. \/ l[1] = m[1] /\ l[2] = m[2]
          \/ corte \/ Origen(l[1], l[2]) \/ Origen(m[1], m[2])
      BY <2>2, <2>3 DEF IInv, Archivado, Unicos
    <3>2. Origen(l[1], l[2]) \/ Origen(m[1], m[2]) => Moviendo(f)
      BY <2>3 DEF Origen, Moviendo
    <3> QED
      BY <2>3, <3>1, <3>2
  <2> QED
    BY <2>4, <2>5
<1> QED
  BY <1>2, <1>3 DEF CuelgaDeLaRaiz

(* The inductive invariant holds in every state.                           *)
THEOREM Invariante == Spec => []IInv
BY IInvInit, IInvSigue, PTL DEF Spec

(* However directories and files are created, renamed, moved and removed,  *)
(* with a write at the same time and ends of the process in between,       *)
(* directories form a tree under the root with different names in each,    *)
(* and every file is in one directory (CuelgaDeLaRaiz).                    *)
THEOREM TodoCuelga == Spec => []CuelgaDeLaRaiz
BY Invariante, CuelgaSiIInv, PTL

(* What a step loses of the files: the property, for one step.             *)
LEMMA PasoConserva ==
    ASSUME IInv, [Next]_vars, NEW f \in Guardados \ Guardados'
    PROVE  \/ Formatear
           \/ \E p \in RutasArchivo : EliminarArchivo(p) /\ md[CarpetaDe(p)][Last(p)] = f
           \/ \E p \in RutasArchivo, x \in Nombres : Len(p) > 1 /\ RenombrarArchivo(p, x)
           \/ pisado'
<1>1. PICK i \in Carpetas, n \in Nombres : md[i][n] = f /\ f # NULL
  BY DEF Guardados, Carpetas
<1>2. \A k \in Carpetas, y \in Nombres : md'[k][y] # f
  BY <1>1 DEF Guardados, Carpetas
<1>3. md' # md
  BY <1>1, <1>2
<1>4. ASSUME NEW t \in Hilos, CrearArchivoMetadata(t) PROVE pisado'
  <2> DEFINE p == hilo[t].ruta
             c == CarpetaDe(p)
             z == Last(p)
  <2>1. p \in RutasArchivo /\ p \in Rutas /\ Pone(c, z, escritos')
        /\ pisado' = (pisado \/ md[c][z] # NULL)
    BY <1>4, HiloTipo DEF IInv, Tipos, CrearArchivoMetadata, RutasArchivo, ExisteArchivo
  <2>2. c \in Carpetas /\ z \in Nombres
    BY <2>1, CarpetaDeTipo, RutaDada
  <2>3. escritos' \in Archivos
    BY <1>4, FsDirectoriosAssumption DEF CrearArchivoMetadata, IInv, Tipos, Archivos
  <2> HIDE DEF c, z
  <2>4. i = c /\ n = z
    BY <1>1, <1>2, <2>1, <2>2, <2>3, PoneEs DEF Pone, IInv, Tipos
  <2> QED
    BY <1>1, <2>1, <2>4, Zenon
<1>5. ASSUME NEW p \in RutasArchivo, EliminarArchivo(p)
      PROVE  md[CarpetaDe(p)][Last(p)] = f
  <2>1. CarpetaDe(p) \in Carpetas /\ Last(p) \in Nombres /\ Pone(CarpetaDe(p), Last(p), NULL)
    BY <1>5, CarpetaDeTipo, RutaDada DEF EliminarArchivo, RutasArchivo
  <2>2. i = CarpetaDe(p) /\ n = Last(p)
    BY <1>1, <1>2, <2>1, PoneEs DEF Pone, IInv, Tipos
  <2> QED
    BY <1>1, <2>2
<1>6. ASSUME NEW p \in RutasArchivo, NEW x \in Nombres, RenombrarArchivo(p, x) PROVE Len(p) > 1
  <2>1. ASSUME Len(p) = 1 PROVE FALSE
    <3>1. Front(p) = <<>>
      BY <2>1, FrontEs, RutaDada DEF RutasArchivo, Ruta
    <3>2. CarpetaDe(p) = 0
      BY <2>1, <3>1, CaminoVacio
      DEF CarpetaDe, Carpeta, ObtenerDirArchivo, ObtenerIndiceDir, DesdePunto
    <3>3. md[0][x] = NULL
      BY <1>6, <3>2 DEF RenombrarArchivo
    <3> QED
      BY <1>1, <1>2, <1>6, <3>3, RenombrarEs DEF IInv
  <2>2. Len(p) \in Nat /\ Len(p) # 0 /\ Len(p) # 1
    BY <2>1, RutaDada DEF RutasArchivo
  <2>3. \A k \in Nat : k # 0 /\ k # 1 => k > 1
    OBVIOUS
  <2> QED
    BY <2>2, <2>3, Zenon
<1>7. ASSUME NEW p \in RutasArchivo, NEW d \in Rutas, CopiarMetadata(p, d) PROVE FALSE
  <2>1. ~SigueNulo
    BY <1>3 DEF SigueNulo
  <2>2. Copia(Last(p), ObtenerIndiceDirPadre(p), Carpeta(d))
    BY <1>7, <2>1, CopiarEs
  <2> QED
    BY <1>1, <1>2, <2>2 DEF Copia
<1>8. ASSUME BorrarOrigen PROVE pisado'
  <2>1. SUFFICES ASSUME ~pisado' PROVE FALSE
    OBVIOUS
  <2>2. ~pisado
    BY <1>8, <2>1 DEF BorrarOrigen, historia
  <2>3. PICK o \in Carpetas, x \in Nombres :
             /\ Origen(o, x)
             /\ \A k \in Carpetas, y \in Nombres :
                   md'[k][y] = IF k = o /\ y = x THEN NULL ELSE md[k][y]
    BY <1>8, BorrarEs DEF IInv
  <2>4. i = o /\ n = x
    BY <1>1, <1>2, <2>3
  <2>5. PICK k \in Carpetas, y \in Nombres : md[k][y] = md[o][x] /\ ~(k = o /\ y = x)
    BY <2>2, <2>3 DEF IInv, Archivado, Copiado
  <2> QED
    BY <1>1, <1>2, <2>3, <2>4, <2>5
<1>9. CASE Next
  <2>1. ASSUME NEW p \in Rutas, Directorios(p) PROVE FALSE
    BY <1>3, <2>1
    DEF Directorios, CrearDirectorio, VerificarVacio, SigueNulo, RenombrarDirectorio
  <2>2. ~QuitarDirectorio /\ ~Reiniciar
    BY <1>3 DEF QuitarDirectorio, Reiniciar
  <2>3. \A t \in Hilos, p \in RutasArchivo : ~SinDirectorio(t, p) /\ ~EscribirArchivo(t, p)
    BY <1>3 DEF SinDirectorio, SigueNulo, EscribirArchivo
  <2>4. \A t \in Hilos : ~EscrituraFalla(t)
    BY <1>3 DEF EscrituraFalla
  <2> QED
    BY <1>4, <1>5, <1>6, <1>7, <1>8, <1>9, <2>1, <2>2, <2>3, <2>4 DEF Next, DeArchivos
<1>10. CASE UNCHANGED vars
  BY <1>3, <1>10 DEF vars
<1> QED
  BY <1>9, <1>10

(* No command but the ones SeConservan names makes a file be lost.         *)
THEOREM NadaSePierde == Spec => SeConservan
<1>1. IInv /\ [Next]_vars =>
        [\A f \in Guardados \ Guardados' :
          \/ Formatear
          \/ \E p \in RutasArchivo : EliminarArchivo(p) /\ md[CarpetaDe(p)][Last(p)] = f
          \/ \E p \in RutasArchivo, x \in Nombres : Len(p) > 1 /\ RenombrarArchivo(p, x)
          \/ pisado']_vars
  BY PasoConserva
<1> QED
  BY <1>1, Invariante, PTL DEF Spec, SeConservan

-----------------------------------------------------------------------------
(* The server: its nodes, their threads and the instances of blocks.       *)

(* The accept thread has accepted s and not listed its node yet.           *)
EnAlta(s) == servidor.pc \in {"agregaNuevo", "agregaAnterior"} /\ servidor.socket = s

(* A socket that something refers to has been connected by a node.         *)
SocketsUsados ==
    /\ \A s \in Sockets : conexion[s].estado # "no" => conexion[s].nodo \in Nodes
    /\ \A i \in DOMAIN nodos : conexion[nodos[i].socketNodo].estado # "no"
    /\ \A k \in DOMAIN cola : conexion[cola[k]].estado # "no"
    /\ \A s \in Sockets : EnCurso(s) => conexion[s].estado # "no"
    /\ servidor.pc # "accept" =>
          servidor.socket \in Sockets /\ conexion[servidor.socket].estado # "no"

(* A node that is being listed is not listed as connected; the node of a   *)
(* thread is being listed, or its entry is of that connection; a thread    *)
(* takes off the list its own node or none.                                *)
HilosListados ==
    /\ servidor.pc \in {"agregaNuevo", "agregaAnterior"} => ~BuscarNodoPorId(NodoAceptado)
    /\ \A s \in Sockets : EnCurso(s) =>
          EnAlta(s) \/ \E i \in DOMAIN nodos : nodos[i] = Entrada(conexion[s].nodo, s)
    /\ \A s \in Sockets : manejador[s].pc = "resta" =>
          manejador[s].nodo \in {NINGUNO, conexion[s].nodo}

ServidorIInv == ServidorOK /\ SocketsUsados /\ HilosListados

-----------------------------------------------------------------------------
LEMMA HasSmallest ==
    ASSUME NEW S \in SUBSET Nat, S # {}
    PROVE  \E c \in S : \A d \in S : c <= d
<1>1. PICK c \in S : \A d \in S : ~(<<d, c>> \in OpToRel(<, Nat))
  BY NatLessThanWellFounded, WFMin
<1>2. \A d \in S : ~(d < c)
  BY <1>1 DEF OpToRel
<1> QED
  BY <1>2

LEMMA Indexes == Len(Bloques) \in Nat /\ IndicesDeBloque = 1 .. Len(Bloques) /\ Fin \in Nat \ {0}
BY FsNodesAssumption DEF IndicesDeBloque, Fin

LEMMA SiguienteType ==
    ASSUME tablaArchivos \subseteq IndicesDeBloque, NEW b, NEW n
    PROVE  Siguiente(b, n) \in IndicesDeBloque \cup {Fin} /\ Siguiente(b, n) \in 1 .. Fin
<1> DEFINE despues == {c \in tablaArchivos : c > b /\ Holds(c, n)}
<1>1. Siguiente(b, n) \in IndicesDeBloque \cup {Fin}
  <2>1. CASE despues = {}
    BY <2>1 DEF Siguiente
  <2>2. CASE despues # {}
    <3>1. despues \subseteq IndicesDeBloque
      OBVIOUS
    <3>2. Siguiente(b, n) = CHOOSE c \in despues : \A d \in despues : c <= d
      BY <2>2 DEF Siguiente
    <3> HIDE DEF despues
    <3>3. despues \in SUBSET Nat
      BY <3>1, Indexes
    <3>4. \E c \in despues : \A d \in despues : c <= d
      BY <2>2, <3>3, HasSmallest
    <3> QED
      BY <3>1, <3>2, <3>4
  <2> QED
    BY <2>1, <2>2
<1> QED
  BY <1>1, Indexes DEF Fin

(* Every node that is in the list is there once, so two threads that are   *)
(* not done with their node do not have the same one.                      *)
LEMMA IInvUnHilo == ServidorIInv => UnHiloPorNodo
<1> SUFFICES ASSUME ServidorIInv, NEW s \in Sockets, NEW t \in Sockets,
                    EnCurso(s), EnCurso(t), conexion[s].nodo = conexion[t].nodo
             PROVE  s = t
  BY DEF UnHiloPorNodo
<1> DEFINE EnLista(r) == \E i \in DOMAIN nodos : nodos[i] = Entrada(conexion[r].nodo, r)
<1>1. ASSUME NEW r \in Sockets, NEW q \in Sockets, EnAlta(r), EnLista(q)
      PROVE  conexion[r].nodo # conexion[q].nodo
  BY <1>1 DEF EnAlta, ServidorIInv, HilosListados, BuscarNodoPorId, NodoAceptado, Entrada
<1>2. CASE EnAlta(s) /\ EnAlta(t)
  BY <1>2 DEF EnAlta
<1>3. CASE EnLista(s) /\ EnLista(t)
  BY <1>3 DEF ServidorIInv, ServidorOK, UnaEntradaPorNodo, Entrada
<1>4. (EnAlta(s) \/ EnLista(s)) /\ (EnAlta(t) \/ EnLista(t))
  BY DEF ServidorIInv, HilosListados
<1> QED
  BY <1>1, <1>2, <1>3, <1>4

LEMMA ServidorInitIInv == ServidorInit => ServidorIInv
<1> SUFFICES ASSUME ServidorInit PROVE ServidorIInv
  OBVIOUS
<1> USE DEF ServidorInit
<1>1. ServidorOK
  <2>1. Parado \in HiloServidor /\ SinHilo \in HiloNodo
    BY Indexes DEF Parado, HiloServidor, SinHilo, HiloNodo
  <2>2. principal \in EstadoPrincipal /\ conexion \in [Sockets -> Conexion]
    BY DEF EstadoPrincipal, Conexion
  <2>3. nodosBin \subseteq Nodes /\ anteriores \subseteq IndicesDeBloque
    BY FsNodesAssumption
  <2>4. nodos \in Seq(Nodo) /\ cola \in Seq(Sockets) /\ DOMAIN nodos = {}
    OBVIOUS
  <2>5. cantInstancias \in [IndicesDeBloque -> Int] /\ semaforo \in [IndicesDeBloque -> Nat]
    OBVIOUS
  <2>6. UnaEntradaPorNodo
    BY <2>4 DEF UnaEntradaPorNodo
  <2> QED
    BY <2>1, <2>2, <2>3, <2>4, <2>5, <2>6 DEF ServidorOK
<1>2. SocketsUsados
  BY DEF SocketsUsados, EnCurso, Parado, SinHilo
<1>3. HilosListados
  BY DEF HilosListados, EnCurso, Parado, SinHilo
<1> QED
  BY <1>1, <1>2, <1>3 DEF ServidorIInv

-----------------------------------------------------------------------------
(* What only reads the list, the connections and the threads.              *)
LEMMA ListasIguales ==
    ASSUME ServidorIInv, UNCHANGED <<nodos, redVars, servidor, manejador>>
    PROVE  UnaEntradaPorNodo' /\ SocketsUsados' /\ HilosListados'
<1>1. UNCHANGED <<nodos, conexion, cola, servidor, manejador>>
  BY DEF redVars
<1>2. UnaEntradaPorNodo'
  BY <1>1 DEF ServidorIInv, ServidorOK, UnaEntradaPorNodo
<1>3. SocketsUsados'
  BY <1>1 DEF ServidorIInv, SocketsUsados, EnCurso
<1>4. HilosListados'
  BY <1>1 DEF ServidorIInv, HilosListados, EnCurso, EnAlta, BuscarNodoPorId, NodoAceptado
<1> QED
  BY <1>2, <1>3, <1>4

LEMMA PrincipalIInv == ASSUME ServidorIInv, Principal PROVE ServidorIInv'
<1> USE DEF tablaVars, estadoVars, historiaNodos
<1>1. UNCHANGED <<nodos, redVars, servidor, manejador>>
  BY DEF Principal, MirarEstadoAnterior, EsperarNodo, CargarArchivo, EsperarBloque
<1>2. ServidorOK /\ UNCHANGED <<nodos, conexion, cola, servidor, manejador>>
  BY <1>1 DEF ServidorIInv, redVars
<1>3. principal' \in EstadoPrincipal
  BY <1>2 DEF ServidorOK, EstadoPrincipal, Principal, Estable,
       MirarEstadoAnterior, EsperarNodo, CargarArchivo, EsperarBloque
<1>4. /\ vieneDeNoEstado' \in {0, 1} /\ estadoEstable' \in {0, 1} /\ nodoInit' \in Nat
      /\ anteriores' \subseteq IndicesDeBloque /\ tablaArchivos' \subseteq IndicesDeBloque
      /\ nodosBin' \subseteq Nodes /\ temprano' \in BOOLEAN /\ choque' \subseteq IndicesDeBloque
  BY <1>2 DEF ServidorOK, Principal, Estable,
       MirarEstadoAnterior, EsperarNodo, CargarArchivo, EsperarBloque
<1>5. cantInstancias' = cantInstancias
  BY DEF Principal, MirarEstadoAnterior, EsperarNodo, CargarArchivo, EsperarBloque
<1>6. semaforo' \in [IndicesDeBloque -> Nat]
  BY <1>2 DEF ServidorOK, Principal, MirarEstadoAnterior, EsperarNodo, CargarArchivo,
       EsperarBloque
<1>7. UnaEntradaPorNodo' /\ SocketsUsados' /\ HilosListados'
  BY <1>1, ListasIguales
<1> QED
  BY <1>2, <1>3, <1>4, <1>5, <1>6, <1>7 DEF ServidorIInv, ServidorOK

-----------------------------------------------------------------------------
(* A node uses a socket that nothing refers to.                            *)
LEMMA ConectarIInv ==
    ASSUME ServidorIInv, NEW n \in Nodes, NEW s \in Sockets, Conectar(n, s)
    PROVE  ServidorIInv'
<1> USE DEF tablaVars, estadoVars, historiaNodos
<1>1. ServidorOK /\ SocketsUsados /\ HilosListados
  BY DEF ServidorIInv
<1>2. /\ conexion[s].estado = "no"
      /\ conexion' = [conexion EXCEPT ![s] = [nodo |-> n, estado |-> "abierta"]]
      /\ cola' = Append(cola, s)
      /\ UNCHANGED <<nodos, servidor, manejador>>
  BY DEF Conectar
<1>3. /\ conexion' \in [Sockets -> Conexion]
      /\ conexion'[s] = [nodo |-> n, estado |-> "abierta"]
      /\ \A r \in Sockets \ {s} : conexion'[r] = conexion[r]
  BY <1>1, <1>2 DEF ServidorOK, Conexion
<1>4. /\ cola' \in Seq(Sockets) /\ DOMAIN cola' = 1 .. Len(cola) + 1
      /\ \A k \in DOMAIN cola : cola'[k] = cola[k]
      /\ cola'[Len(cola) + 1] = s /\ Len(cola) \in Nat /\ DOMAIN cola = 1 .. Len(cola)
  <2>1. cola \in Seq(Sockets)
    BY <1>1 DEF ServidorOK
  <2> QED
    BY <1>2, <2>1
<1>5. \A i \in DOMAIN nodos : nodos[i].socketNodo \in Sockets \ {s}
  <2>1. \A i \in DOMAIN nodos : nodos[i] \in Nodo
    BY <1>1 DEF ServidorOK
  <2> QED
    BY <1>1, <1>2, <2>1 DEF SocketsUsados, Nodo
<1>6. ~EnCurso(s) /\ (servidor.pc # "accept" => servidor.socket \in Sockets \ {s})
  BY <1>1, <1>2 DEF SocketsUsados
<1>7. UnaEntradaPorNodo'
  BY <1>1, <1>2, <1>3, <1>5 DEF ServidorOK, UnaEntradaPorNodo
<1>8. ServidorOK'
  BY <1>1, <1>3, <1>4, <1>7 DEF ServidorOK, Conectar
<1>9. SocketsUsados'
  <2>1. \A k \in DOMAIN cola' : conexion'[cola'[k]].estado # "no"
    <3> SUFFICES ASSUME NEW k \in DOMAIN cola' PROVE conexion'[cola'[k]].estado # "no"
      OBVIOUS
    <3>1. CASE k = Len(cola) + 1
      BY <1>3, <1>4, <3>1
    <3>2. CASE k \in DOMAIN cola
      <4>1. cola[k] \in Sockets
        BY <1>1, <3>2 DEF ServidorOK
      <4> QED
        BY <1>1, <1>3, <1>4, <3>2, <4>1 DEF SocketsUsados
    <3> QED
      BY <1>4, <3>1, <3>2
  <2>2. \A r \in Sockets : EnCurso(r)' => conexion'[r].estado # "no"
    BY <1>1, <1>2, <1>3 DEF SocketsUsados, EnCurso
  <2> QED
    BY <1>1, <1>2, <1>3, <1>5, <1>6, <2>1, <2>2 DEF SocketsUsados
<1>10. HilosListados'
  <2>1. \A r \in Sockets : manejador[r].pc = "resta" => EnCurso(r)
    BY DEF EnCurso
  <2>2. \A r \in Sockets : EnCurso(r)' <=> EnCurso(r)
    BY <1>2 DEF EnCurso
  <2>3. servidor.pc \in {"agregaNuevo", "agregaAnterior"}
           => ~BuscarNodoPorId(NodoAceptado)'
    BY <1>1, <1>2, <1>3, <1>6 DEF HilosListados, BuscarNodoPorId, NodoAceptado
  <2> QED
    BY <1>1, <1>2, <1>3, <1>6, <2>1, <2>2, <2>3 DEF HilosListados, EnAlta
<1> QED
  BY <1>8, <1>9, <1>10 DEF ServidorIInv

(* A step that changes only the state of the connection of a socket used.  *)
LEMMA ConexionTermina ==
    ASSUME ServidorIInv, NEW s \in Sockets, NEW e \in {"cerrada", "rechazada"},
           conexion[s].estado # "no",
           conexion' = [conexion EXCEPT ![s].estado = e],
           UNCHANGED <<nodos, servidor, manejador>>,
           cola' \in Seq(Sockets),
           \A k \in DOMAIN cola' : \E j \in DOMAIN cola : cola'[k] = cola[j]
    PROVE  /\ conexion' \in [Sockets -> Conexion] /\ UnaEntradaPorNodo'
           /\ SocketsUsados' /\ HilosListados'
<1>1. ServidorOK /\ SocketsUsados /\ HilosListados
  BY DEF ServidorIInv
<1>2. /\ conexion' \in [Sockets -> Conexion]
      /\ \A r \in Sockets : conexion'[r].nodo = conexion[r].nodo
      /\ \A r \in Sockets : conexion'[r].estado # "no" <=> conexion[r].estado # "no"
  BY <1>1 DEF ServidorOK, Conexion
<1>3. \A i \in DOMAIN nodos : nodos[i].socketNodo \in Sockets
  <2>1. \A i \in DOMAIN nodos : nodos[i] \in Nodo
    BY <1>1 DEF ServidorOK
  <2> QED
    BY <2>1 DEF Nodo
<1>4. UnaEntradaPorNodo'
  BY <1>1, <1>2, <1>3 DEF ServidorOK, UnaEntradaPorNodo
<1>5. SocketsUsados'
  <2>1. \A k \in DOMAIN cola' : conexion'[cola'[k]].estado # "no"
    <3> SUFFICES ASSUME NEW k \in DOMAIN cola' PROVE conexion'[cola'[k]].estado # "no"
      OBVIOUS
    <3>1. PICK j \in DOMAIN cola : cola'[k] = cola[j]
      OBVIOUS
    <3>2. cola[j] \in Sockets
      BY <1>1 DEF ServidorOK
    <3> QED
      BY <1>1, <1>2, <3>1, <3>2 DEF SocketsUsados
  <2>2. \A r \in Sockets : EnCurso(r)' => conexion'[r].estado # "no"
    BY <1>1, <1>2 DEF SocketsUsados, EnCurso
  <2> QED
    BY <1>1, <1>2, <1>3, <2>1, <2>2 DEF SocketsUsados
<1>6. HilosListados'
  <2>1. servidor.pc \in {"agregaNuevo", "agregaAnterior"}
           => servidor.socket \in Sockets /\ ~BuscarNodoPorId(NodoAceptado)
    BY <1>1 DEF SocketsUsados, HilosListados
  <2>2. servidor.pc \in {"agregaNuevo", "agregaAnterior"}
           => ~BuscarNodoPorId(NodoAceptado)'
    BY <1>2, <2>1 DEF BuscarNodoPorId, NodoAceptado
  <2> QED
    BY <1>1, <1>2, <2>2 DEF HilosListados, EnCurso, EnAlta
<1> QED
  BY <1>2, <1>4, <1>5, <1>6

LEMMA CaerIInv == ASSUME ServidorIInv, NEW s \in Sockets, Caer(s) PROVE ServidorIInv'
<1> USE DEF tablaVars, estadoVars, historiaNodos
<1>1. ServidorOK
  BY DEF ServidorIInv
<1>2. cola' = cola /\ cola' \in Seq(Sockets)
  BY <1>1 DEF Caer, ServidorOK
<1>3. /\ conexion' \in [Sockets -> Conexion] /\ UnaEntradaPorNodo'
      /\ SocketsUsados' /\ HilosListados'
  BY <1>2, ConexionTermina DEF Caer
<1> QED
  BY <1>1, <1>2, <1>3 DEF Caer, ServidorIInv, ServidorOK

-----------------------------------------------------------------------------
LEMMA LlegaCola ==
    ASSUME ServidorOK, NEW s \in Sockets, Llega(s)
    PROVE  /\ cola' \in Seq(Sockets)
           /\ \A k \in DOMAIN cola' : \E j \in DOMAIN cola : cola'[k] = cola[j]
           /\ \E j \in DOMAIN cola : cola[j] = s
<1>1. cola \in Seq(Sockets) /\ cola # <<>> /\ cola' = Tail(cola) /\ s = cola[1]
  BY DEF ServidorOK, Llega
<1>2. /\ Len(cola) \in Nat \ {0} /\ DOMAIN cola = 1 .. Len(cola)
      /\ cola' \in Seq(Sockets) /\ DOMAIN cola' = 1 .. Len(cola) - 1
      /\ \A k \in 1 .. Len(cola) - 1 : cola'[k] = cola[k + 1]
  BY <1>1
<1> QED
  BY <1>1, <1>2

LEMMA RechazarIInv == ASSUME ServidorIInv, NEW s \in Sockets, Rechazar(s) PROVE ServidorIInv'
<1> USE DEF tablaVars, estadoVars, historiaNodos
<1>1. ServidorOK /\ SocketsUsados
  BY DEF ServidorIInv
<1>2. /\ cola' \in Seq(Sockets)
      /\ \A k \in DOMAIN cola' : \E j \in DOMAIN cola : cola'[k] = cola[j]
      /\ \E j \in DOMAIN cola : cola[j] = s
  BY <1>1, LlegaCola DEF Rechazar
<1>3. conexion[s].estado # "no"
  BY <1>1, <1>2 DEF SocketsUsados
<1>4. /\ conexion' \in [Sockets -> Conexion] /\ UnaEntradaPorNodo'
      /\ SocketsUsados' /\ HilosListados'
  BY <1>2, <1>3, ConexionTermina DEF Rechazar
<1> QED
  BY <1>1, <1>2, <1>4 DEF Rechazar, ServidorIInv, ServidorOK

(* The node is not listed as connected when its thread starts.             *)
LEMMA AceptarIInv == ASSUME ServidorIInv, NEW s \in Sockets, Aceptar(s) PROVE ServidorIInv'
<1> USE DEF tablaVars, estadoVars, historiaNodos
<1>1. ServidorOK /\ SocketsUsados /\ HilosListados
  BY DEF ServidorIInv
<1>2. /\ UNCHANGED <<nodos, conexion>> /\ servidor.pc = "accept"
      /\ manejador' = [manejador EXCEPT ![s].pc = "recv"]
      /\ ~BuscarNodoPorId(conexion[s].nodo)
  BY DEF Aceptar, Rechazable, Llega
<1>3. servidor' \in HiloServidor /\ servidor'.socket = s
  <2>1. Parado \in HiloServidor
    BY Indexes DEF HiloServidor, Parado
  <2>2. PICK p \in {"agregaNuevo", "agregaAnterior"} :
           servidor' = [Parado EXCEPT !.socket = s, !.pc = p]
    BY DEF Aceptar
  <2> QED
    BY <2>1, <2>2 DEF HiloServidor
<1>4. /\ manejador' \in [Sockets -> HiloNodo] /\ manejador'[s].pc = "recv"
      /\ \A r \in Sockets \ {s} : manejador'[r] = manejador[r]
  BY <1>1, <1>2 DEF ServidorOK, HiloNodo
<1>5. /\ cola' \in Seq(Sockets)
      /\ \A k \in DOMAIN cola' : \E j \in DOMAIN cola : cola'[k] = cola[j]
      /\ \E j \in DOMAIN cola : cola[j] = s
  BY <1>1, LlegaCola DEF Aceptar
<1>6. conexion[s].estado # "no"
  BY <1>1, <1>5 DEF SocketsUsados
<1>7. UnaEntradaPorNodo'
  BY <1>1, <1>2 DEF ServidorOK, UnaEntradaPorNodo
<1>8. ServidorOK'
  BY <1>1, <1>3, <1>4, <1>5, <1>7 DEF Aceptar, ServidorOK
<1>9. SocketsUsados'
  <2>1. \A k \in DOMAIN cola' : conexion[cola'[k]].estado # "no"
    BY <1>1, <1>5 DEF SocketsUsados
  <2>2. \A r \in Sockets : EnCurso(r)' => conexion[r].estado # "no"
    BY <1>1, <1>4, <1>6 DEF SocketsUsados, EnCurso
  <2> QED
    BY <1>1, <1>2, <1>3, <1>6, <2>1, <2>2 DEF SocketsUsados
<1>10. HilosListados'
  <2>1. EnAlta(s)' /\ ~BuscarNodoPorId(NodoAceptado)'
    BY <1>2, <1>3 DEF Aceptar, Parado, EnAlta, BuscarNodoPorId, NodoAceptado
  <2>2. \A r \in Sockets \ {s} :
           EnCurso(r)' => \E i \in DOMAIN nodos : nodos[i] = Entrada(conexion[r].nodo, r)
    BY <1>1, <1>2, <1>4 DEF HilosListados, EnCurso, EnAlta
  <2> QED
    BY <1>1, <1>2, <1>4, <2>1, <2>2 DEF HilosListados
<1> QED
  BY <1>8, <1>9, <1>10 DEF ServidorIInv

-----------------------------------------------------------------------------
(* The list after the node of the connection being accepted is added.      *)
LEMMA AgregadoLista ==
    ASSUME ServidorOK, SocketsUsados, NEW n \in Nodes, NEW s \in Sockets,
           conexion[s].nodo = n, conexion[s].estado # "no",
           nodos' = Agregado(n, s), conexion' = conexion
    PROVE  /\ nodos' \in Seq(Nodo) /\ UnaEntradaPorNodo'
           /\ \A i \in DOMAIN nodos' : conexion[nodos'[i].socketNodo].estado # "no"
           /\ \E i \in DOMAIN nodos' : nodos'[i] = Entrada(n, s)
           /\ \A i \in DOMAIN nodos : nodos[i].id # n =>
                 i \in DOMAIN nodos' /\ nodos'[i] = nodos[i]
<1> DEFINE e == Entrada(n, s)
<1>1. /\ nodos \in Seq(Nodo) /\ Len(nodos) \in Nat /\ DOMAIN nodos = 1 .. Len(nodos)
      /\ \A i \in DOMAIN nodos : nodos[i] \in Nodo
  BY DEF ServidorOK
<1>2. e \in Nodo /\ e.id = n /\ e.socketNodo = s
  BY DEF Entrada, Nodo
<1>3. /\ \A i, j \in DOMAIN nodos : nodos[i].id = nodos[j].id => i = j
      /\ \A i \in DOMAIN nodos : conexion[nodos[i].socketNodo].nodo = nodos[i].id
      /\ \A i \in DOMAIN nodos : conexion[nodos[i].socketNodo].estado # "no"
  BY DEF ServidorOK, UnaEntradaPorNodo, SocketsUsados
<1>4. CASE \E i \in DOMAIN nodos : nodos[i].id = n
  <2>1. nodos' = [i \in DOMAIN nodos |-> IF nodos[i].id = n THEN e ELSE nodos[i]]
    BY <1>4 DEF Agregado
  <2> HIDE DEF e
  <2>2. /\ nodos' \in Seq(Nodo) /\ DOMAIN nodos' = DOMAIN nodos
        /\ \A i \in DOMAIN nodos :
              nodos'[i] = IF nodos[i].id = n THEN e ELSE nodos[i]
    BY <1>1, <1>2, <2>1
  <2>3. \A i \in DOMAIN nodos : nodos'[i].id = nodos[i].id
    BY <1>2, <2>2
  <2>4. UnaEntradaPorNodo'
    BY <1>2, <1>3, <2>2, <2>3 DEF UnaEntradaPorNodo
  <2> QED
    BY <1>2, <1>3, <1>4, <2>2, <2>4 DEF e
<1>5. CASE \A i \in DOMAIN nodos : nodos[i].id # n
  <2>1. nodos' = Append(nodos, e)
    BY <1>5 DEF Agregado
  <2> HIDE DEF e
  <2>2. /\ nodos' \in Seq(Nodo) /\ DOMAIN nodos' = 1 .. Len(nodos) + 1
        /\ \A i \in DOMAIN nodos : nodos'[i] = nodos[i]
        /\ nodos'[Len(nodos) + 1] = e
    BY <1>1, <1>2, <2>1
  <2>3. \A i \in DOMAIN nodos' : i \in DOMAIN nodos \/ i = Len(nodos) + 1
    BY <1>1, <2>2
  <2>4. UnaEntradaPorNodo'
    BY <1>2, <1>3, <1>5, <2>2, <2>3 DEF UnaEntradaPorNodo
  <2>5. \A i \in DOMAIN nodos : i \in DOMAIN nodos'
    BY <1>1, <2>2
  <2>6. Len(nodos) + 1 \in DOMAIN nodos'
    BY <1>1, <2>2
  <2> QED
    BY <1>2, <1>3, <2>2, <2>3, <2>4, <2>5, <2>6 DEF e
<1> QED
  BY <1>4, <1>5

(* After the accepted node is listed, the accept thread has another pc.    *)
LEMMA AgregarHilos ==
    ASSUME ServidorIInv, servidor.pc \in {"agregaNuevo", "agregaAnterior"},
           nodos' = Agregado(NodoAceptado, servidor.socket),
           UNCHANGED <<conexion, cola, manejador>>,
           servidor' \in HiloServidor, servidor'.pc \in {"accept", "habilita"},
           servidor'.pc = "habilita" => servidor'.socket = servidor.socket
    PROVE  /\ nodos' \in Seq(Nodo) /\ UnaEntradaPorNodo'
           /\ SocketsUsados' /\ HilosListados' /\ NodoAceptado \in Nodes
<1>1. ServidorOK /\ SocketsUsados /\ HilosListados
  BY DEF ServidorIInv
<1> DEFINE s == servidor.socket
           n == NodoAceptado
<1>2. /\ s \in Sockets /\ n \in Nodes /\ conexion[s].nodo = n /\ conexion[s].estado # "no"
      /\ ~BuscarNodoPorId(n)
  BY <1>1 DEF SocketsUsados, HilosListados, NodoAceptado
<1> HIDE DEF s, n
<1>3. /\ nodos' \in Seq(Nodo) /\ UnaEntradaPorNodo'
      /\ \A i \in DOMAIN nodos' : conexion[nodos'[i].socketNodo].estado # "no"
      /\ \E i \in DOMAIN nodos' : nodos'[i] = Entrada(n, s)
      /\ \A i \in DOMAIN nodos : nodos[i].id # n =>
            i \in DOMAIN nodos' /\ nodos'[i] = nodos[i]
  <2>1. nodos' = Agregado(n, s)
    BY DEF n, s
  <2> QED
    BY <1>1, <1>2, <2>1, AgregadoLista
<1>4. SocketsUsados'
  BY <1>1, <1>2, <1>3 DEF SocketsUsados, EnCurso, s
<1>5. HilosListados'
  <2>1. ASSUME NEW r \in Sockets, EnCurso(r)
        PROVE  \E i \in DOMAIN nodos' : nodos'[i] = Entrada(conexion[r].nodo, r)
    <3>1. CASE r = s
      BY <1>2, <1>3, <3>1
    <3>2. CASE r # s
      <4>1. PICK i \in DOMAIN nodos : nodos[i] = Entrada(conexion[r].nodo, r)
        BY <1>1, <2>1, <3>2 DEF HilosListados, EnAlta, s
      <4>2. nodos[i].id # n
        BY <1>2, <4>1 DEF BuscarNodoPorId, Entrada
      <4> QED
        BY <1>3, <4>1, <4>2
    <3> QED
      BY <3>1, <3>2
  <2> QED
    BY <1>1, <2>1 DEF HilosListados, EnCurso
<1> QED
  BY <1>2, <1>3, <1>4, <1>5 DEF n

LEMMA AgregarNuevoIInv == ASSUME ServidorIInv, AgregarNuevo PROVE ServidorIInv'
<1> USE DEF tablaVars, estadoVars, historiaNodos, redVars
<1>1. ServidorOK
  BY DEF ServidorIInv
<1>2. servidor' = Parado /\ Parado \in HiloServidor /\ Parado.pc = "accept"
  BY Indexes DEF AgregarNuevo, Parado, HiloServidor
<1>3. /\ nodos' \in Seq(Nodo) /\ UnaEntradaPorNodo'
      /\ SocketsUsados' /\ HilosListados'
  BY <1>2, AgregarHilos DEF AgregarNuevo
<1>4. nodosBin' \subseteq Nodes
  <2>1. \A i \in DOMAIN nodos' : nodos'[i] \in Nodo
    BY <1>3
  <2>2. \A i \in DOMAIN nodos' : nodos'[i].id \in Nodes
    BY <2>1 DEF Nodo
  <2> QED
    BY <1>1, <2>2 DEF AgregarNuevo, ServidorOK
<1> QED
  BY <1>1, <1>2, <1>3, <1>4 DEF AgregarNuevo, ServidorIInv, ServidorOK

(* The accept thread goes on with a block, or waits for connections.       *)
LEMMA SigueHabilitandoType ==
    ASSUME ServidorOK, NEW b, NEW n, SigueHabilitando(b, n),
           cantInstancias' \in [IndicesDeBloque -> Int]
    PROVE  /\ servidor' \in HiloServidor /\ servidor'.pc \in {"accept", "habilita"}
           /\ servidor'.pc = "habilita" => servidor'.socket = servidor.socket
<1>1. CASE Siguiente(b, n) = Fin
  BY <1>1, Indexes DEF SigueHabilitando, Parado, HiloServidor
<1>2. CASE Siguiente(b, n) # Fin
  <2>1. Siguiente(b, n) \in IndicesDeBloque /\ Siguiente(b, n) \in 1 .. Fin
    BY <1>2, SiguienteType DEF ServidorOK
  <2>2. servidor' = [[servidor EXCEPT !.pc = "habilita"]
                        EXCEPT !.bloque = Siguiente(b, n),
                               !.leido = cantInstancias'[Siguiente(b, n)]]
    BY <1>2 DEF SigueHabilitando, Continua
  <2>3. cantInstancias'[Siguiente(b, n)] \in Int
    BY <2>1
  <2>4. servidor \in HiloServidor
    BY DEF ServidorOK
  <2> QED
    BY <2>1, <2>2, <2>3, <2>4 DEF HiloServidor
<1> QED
  BY <1>1, <1>2

LEMMA AgregarAnteriorIInv == ASSUME ServidorIInv, AgregarAnterior PROVE ServidorIInv'
<1> USE DEF tablaVars, estadoVars, historiaNodos, redVars
<1>1. ServidorOK
  BY DEF ServidorIInv
<1>2. /\ servidor' \in HiloServidor /\ servidor'.pc \in {"accept", "habilita"}
      /\ servidor'.pc = "habilita" => servidor'.socket = servidor.socket
  BY <1>1, SigueHabilitandoType DEF AgregarAnterior, ServidorOK
<1>3. /\ nodos' \in Seq(Nodo) /\ UnaEntradaPorNodo'
      /\ SocketsUsados' /\ HilosListados'
  BY <1>2, AgregarHilos DEF AgregarAnterior
<1> QED
  BY <1>1, <1>2, <1>3 DEF AgregarAnterior, ServidorIInv, ServidorOK

LEMMA ContarType ==
    ASSUME ServidorOK, NEW r, r.bloque \in IndicesDeBloque, r.leido \in Int,
           NEW d \in {1, -1}, Contar(r, d)
    PROVE  cantInstancias' \in [IndicesDeBloque -> Int] /\ choque' \subseteq IndicesDeBloque
BY DEF Contar, ServidorOK

LEMMA HabilitarBloqueIInv ==
    ASSUME ServidorIInv, NEW b \in IndicesDeBloque, HabilitarBloque(b) PROVE ServidorIInv'
<1> USE DEF tablaVars, estadoVars, historiaNodos, redVars
<1>1. ServidorOK /\ SocketsUsados /\ HilosListados
  BY DEF ServidorIInv
<1>2. cantInstancias' \in [IndicesDeBloque -> Int] /\ choque' \subseteq IndicesDeBloque
  <2>1. servidor.bloque \in IndicesDeBloque /\ servidor.leido \in Int /\ Contar(servidor, 1)
    BY <1>1 DEF HabilitarBloque, ServidorOK, HiloServidor
  <2> QED
    BY <1>1, <2>1, ContarType
<1>3. /\ servidor' \in HiloServidor /\ servidor'.pc \in {"accept", "habilita"}
      /\ servidor'.pc = "habilita" => servidor'.socket = servidor.socket
  BY <1>1, <1>2, SigueHabilitandoType DEF HabilitarBloque
<1>4. UNCHANGED <<nodos, conexion, cola, manejador>> /\ servidor.pc = "habilita"
  BY DEF HabilitarBloque
<1>5. UnaEntradaPorNodo'
  BY <1>1, <1>4 DEF ServidorOK, UnaEntradaPorNodo
<1>6. SocketsUsados'
  BY <1>1, <1>3, <1>4 DEF SocketsUsados, EnCurso
<1>7. HilosListados'
  BY <1>1, <1>3, <1>4 DEF HilosListados, EnCurso, EnAlta
<1>8. semaforo' \in [IndicesDeBloque -> Nat]
  BY <1>1 DEF HabilitarBloque, ServidorOK
<1> QED
  BY <1>1, <1>2, <1>3, <1>4, <1>5, <1>6, <1>7, <1>8 DEF HabilitarBloque, ServidorIInv, ServidorOK

-----------------------------------------------------------------------------
LEMMA BuscarNodoPorSocketType ==
    ASSUME ServidorOK, NEW s \in Sockets
    PROVE  BuscarNodoPorSocket(s) \in {NINGUNO, conexion[s].nodo}
<1> DEFINE found == {i \in DOMAIN nodos : nodos[i].socketNodo = s /\ nodos[i].activo}
<1>1. CASE found = {}
  BY <1>1 DEF BuscarNodoPorSocket
<1>2. CASE found # {}
  <2>1. DOMAIN nodos = 1 .. Len(nodos) /\ Len(nodos) \in Nat
    BY DEF ServidorOK
  <2>2. PICK k : k = CHOOSE i \in found : \A j \in found : i <= j
    OBVIOUS
  <2>3. BuscarNodoPorSocket(s) = nodos[k].id
    BY <1>2, <2>2 DEF BuscarNodoPorSocket
  <2>4. found \in SUBSET Nat
    BY <2>1
  <2>5. k \in found
    <3> HIDE DEF found
    <3>1. \E i \in found : \A j \in found : i <= j
      BY <1>2, <2>4, HasSmallest
    <3> QED
      BY <2>2, <3>1
  <2> QED
    BY <2>3, <2>5 DEF ServidorOK, UnaEntradaPorNodo
<1> QED
  BY <1>1, <1>2

(* The thread goes on with a block, or has none left.                      *)
LEMMA ContinuaType ==
    ASSUME ServidorOK, NEW r \in HiloNodo, NEW b, NEW n,
           cantInstancias' \in [IndicesDeBloque -> Int]
    PROVE  /\ Continua(r, b, n) \in HiloNodo
           /\ Continua(r, b, n).pc = r.pc /\ Continua(r, b, n).nodo = r.nodo
<1> DEFINE c == Siguiente(b, n)
           l == IF c = Fin THEN 0 ELSE cantInstancias'[c]
<1>1. c \in 1 .. Fin /\ c \in IndicesDeBloque \cup {Fin}
  BY SiguienteType DEF ServidorOK
<1>2. l \in Int
  BY <1>1
<1>3. Continua(r, b, n) = [r EXCEPT !.bloque = c, !.leido = l]
  BY DEF Continua
<1> HIDE DEF c, l
<1> QED
  BY <1>1, <1>2, <1>3 DEF HiloNodo

(* A step of the thread of connection s, which looks for its node or has   *)
(* looked for it.                                                          *)
LEMMA HiloSigue ==
    ASSUME ServidorIInv, NEW s \in Sockets, EnCurso(s), NEW h \in HiloNodo,
           h.pc = "resta", h.nodo \in {NINGUNO, conexion[s].nodo},
           manejador' = [manejador EXCEPT ![s] = h],
           UNCHANGED <<nodos, conexion, cola, servidor>>
    PROVE  /\ manejador' \in [Sockets -> HiloNodo] /\ UnaEntradaPorNodo'
           /\ SocketsUsados' /\ HilosListados'
<1>1. ServidorOK /\ SocketsUsados /\ HilosListados
  BY DEF ServidorIInv
<1>2. /\ manejador' \in [Sockets -> HiloNodo] /\ manejador'[s] = h
      /\ \A r \in Sockets \ {s} : manejador'[r] = manejador[r]
  BY <1>1 DEF ServidorOK
<1>3. \A r \in Sockets : EnCurso(r)' <=> EnCurso(r)
  BY <1>2 DEF EnCurso
<1>4. UnaEntradaPorNodo'
  BY <1>1 DEF ServidorOK, UnaEntradaPorNodo
<1>5. SocketsUsados'
  BY <1>1, <1>3 DEF SocketsUsados
<1>6. HilosListados'
  BY <1>1, <1>2, <1>3 DEF HilosListados, EnAlta, BuscarNodoPorId, NodoAceptado
<1> QED
  BY <1>2, <1>4, <1>5, <1>6

LEMMA NodoDesconectadoIInv ==
    ASSUME ServidorIInv, NEW s \in Sockets, NodoDesconectado(s) PROVE ServidorIInv'
<1> USE DEF tablaVars, estadoVars, historiaNodos, redVars
<1>1. ServidorOK /\ EnCurso(s)
  BY DEF ServidorIInv, NodoDesconectado, EnCurso
<1> DEFINE n == BuscarNodoPorSocket(s)
           h == [manejador[s] EXCEPT !.pc = "resta", !.nodo = n]
           k == IF n = NINGUNO THEN h ELSE Continua(h, 0, n)
<1>2. manejador' = [manejador EXCEPT ![s] = k]
  BY DEF NodoDesconectado
<1>3. n \in {NINGUNO, conexion[s].nodo}
  BY <1>1, BuscarNodoPorSocketType
<1> HIDE DEF n
<1>4. conexion[s].nodo \in Nodes \cup {NINGUNO} /\ manejador[s] \in HiloNodo
  BY <1>1 DEF ServidorOK, Conexion
<1>5. h \in HiloNodo /\ h.pc = "resta" /\ h.nodo = n
  BY <1>3, <1>4 DEF HiloNodo
<1> HIDE DEF h
<1>6. cantInstancias' \in [IndicesDeBloque -> Int]
  BY <1>1 DEF ServidorOK, NodoDesconectado
<1>7. k \in HiloNodo /\ k.pc = "resta" /\ k.nodo \in {NINGUNO, conexion[s].nodo}
  BY <1>1, <1>3, <1>5, <1>6, ContinuaType
<1> HIDE DEF k
<1>8. /\ manejador' \in [Sockets -> HiloNodo] /\ UnaEntradaPorNodo'
      /\ SocketsUsados' /\ HilosListados'
  BY <1>1, <1>2, <1>7, HiloSigue DEF NodoDesconectado
<1> QED
  BY <1>1, <1>8 DEF NodoDesconectado, ServidorIInv, ServidorOK

LEMMA DeshabilitarBloqueIInv ==
    ASSUME ServidorIInv, NEW s \in Sockets, DeshabilitarBloque(s) PROVE ServidorIInv'
<1> USE DEF tablaVars, estadoVars, historiaNodos, redVars
<1>1. ServidorOK /\ HilosListados /\ EnCurso(s)
  BY DEF ServidorIInv, DeshabilitarBloque, EnCurso
<1> DEFINE r == manejador[s]
           k == Continua(r, r.bloque, r.nodo)
<1>2. r \in HiloNodo /\ r.pc = "resta" /\ r.nodo \in {NINGUNO, conexion[s].nodo}
  BY <1>1 DEF ServidorOK, HilosListados, DeshabilitarBloque
<1>3. cantInstancias' \in [IndicesDeBloque -> Int] /\ choque' \subseteq IndicesDeBloque
  <2>1. r.bloque \in IndicesDeBloque /\ r.leido \in Int /\ Contar(r, -1)
    BY <1>2 DEF DeshabilitarBloque, HiloNodo
  <2> QED
    BY <1>1, <2>1, ContarType
<1>4. manejador' = [manejador EXCEPT ![s] = k]
  BY <1>1 DEF DeshabilitarBloque, ServidorOK
<1> HIDE DEF r
<1>5. k \in HiloNodo /\ k.pc = "resta" /\ k.nodo \in {NINGUNO, conexion[s].nodo}
  BY <1>1, <1>2, <1>3, ContinuaType
<1> HIDE DEF k
<1>6. /\ manejador' \in [Sockets -> HiloNodo] /\ UnaEntradaPorNodo'
      /\ SocketsUsados' /\ HilosListados'
  BY <1>1, <1>4, <1>5, HiloSigue DEF DeshabilitarBloque
<1> QED
  BY <1>1, <1>3, <1>6 DEF DeshabilitarBloque, ServidorIInv, ServidorOK

(* The entry that is taken off is that of the thread that ends, as no      *)
(* other thread has its node.                                              *)
LEMMA EliminarNodoIInv == ASSUME ServidorIInv, NEW s \in Sockets, EliminarNodo(s) PROVE ServidorIInv'
<1> USE DEF tablaVars, estadoVars, historiaNodos, redVars
<1>1. ServidorOK /\ SocketsUsados /\ HilosListados /\ EnCurso(s) /\ UnHiloPorNodo
  BY IInvUnHilo DEF ServidorIInv, EliminarNodo, EnCurso
<1> DEFINE n == manejador[s].nodo
           h == [SinHilo EXCEPT !.pc = "fin"]
<1>2. n \in {NINGUNO, conexion[s].nodo}
  BY <1>1 DEF HilosListados, EliminarNodo
<1>3. h \in HiloNodo /\ h.pc = "fin"
  BY Indexes DEF SinHilo, HiloNodo
<1>4. /\ nodos' = [i \in DOMAIN nodos |->
                     IF nodos[i].id = n THEN [nodos[i] EXCEPT !.activo = FALSE] ELSE nodos[i]]
      /\ manejador' = [manejador EXCEPT ![s] = h]
      /\ UNCHANGED <<conexion, cola, servidor>>
  BY DEF EliminarNodo, Desactivado
<1> HIDE DEF n, h
<1>5. /\ manejador' \in [Sockets -> HiloNodo] /\ manejador'[s] = h
      /\ \A r \in Sockets \ {s} : manejador'[r] = manejador[r]
  BY <1>1, <1>3, <1>4 DEF ServidorOK
<1>6. /\ nodos' \in Seq(Nodo) /\ DOMAIN nodos' = DOMAIN nodos
      /\ \A i \in DOMAIN nodos :
            /\ nodos'[i].id = nodos[i].id /\ nodos'[i].socketNodo = nodos[i].socketNodo
            /\ nodos'[i].activo => nodos[i].activo
            /\ nodos[i].id # n => nodos'[i] = nodos[i]
  <2>1. /\ nodos \in Seq(Nodo) /\ Len(nodos) \in Nat /\ DOMAIN nodos = 1 .. Len(nodos)
        /\ \A i \in DOMAIN nodos : nodos[i] \in Nodo
    BY <1>1 DEF ServidorOK
  <2> DEFINE g(i) == [nodos[i] EXCEPT !.activo = FALSE]
  <2>2. ASSUME NEW i \in DOMAIN nodos
        PROVE  /\ g(i) \in Nodo /\ g(i).id = nodos[i].id
               /\ g(i).socketNodo = nodos[i].socketNodo /\ ~g(i).activo
    BY <2>1 DEF Nodo
  <2>3. nodos' = [i \in DOMAIN nodos |-> IF nodos[i].id = n THEN g(i) ELSE nodos[i]]
    BY <1>4
  <2> HIDE DEF g
  <2> QED
    BY <2>1, <2>2, <2>3
<1>7. UnaEntradaPorNodo'
  BY <1>1, <1>4, <1>6 DEF ServidorOK, UnaEntradaPorNodo
<1>8. \A r \in Sockets : EnCurso(r)' <=> r # s /\ EnCurso(r)
  BY <1>3, <1>5 DEF EnCurso
<1>9. SocketsUsados'
  BY <1>1, <1>4, <1>6, <1>8 DEF SocketsUsados
<1>10. HilosListados'
  <2>1. BuscarNodoPorId(NodoAceptado)' => BuscarNodoPorId(NodoAceptado)
    BY <1>4, <1>6 DEF BuscarNodoPorId, NodoAceptado
  <2>2. ASSUME NEW r \in Sockets, EnCurso(r), r # s
        PROVE  EnAlta(r) \/ \E i \in DOMAIN nodos' : nodos'[i] = Entrada(conexion[r].nodo, r)
    <3>1. conexion[r].nodo # n
      <4>1. conexion[r].nodo # conexion[s].nodo
        BY <1>1, <2>2 DEF UnHiloPorNodo
      <4>2. conexion[r].nodo # NINGUNO
        BY <1>1, <2>2, FsNodesAssumption DEF SocketsUsados
      <4> QED
        BY <1>2, <4>1, <4>2
    <3>2. ASSUME NEW i \in DOMAIN nodos, nodos[i] = Entrada(conexion[r].nodo, r)
          PROVE  nodos'[i] = nodos[i]
      BY <1>6, <3>1, <3>2 DEF Entrada
    <3> QED
      BY <1>1, <1>6, <2>2, <3>2 DEF HilosListados
  <2> QED
    BY <1>1, <1>3, <1>4, <1>5, <1>8, <2>1, <2>2 DEF HilosListados, EnAlta
<1> QED
  BY <1>1, <1>5, <1>6, <1>7, <1>9, <1>10 DEF EliminarNodo, ServidorIInv, ServidorOK

-----------------------------------------------------------------------------
LEMMA ServidorNextIInv == ServidorIInv /\ [ServidorNext]_servidorVars => ServidorIInv'
<1> SUFFICES ASSUME ServidorIInv, [ServidorNext]_servidorVars PROVE ServidorIInv'
  OBVIOUS
<1>1. CASE UNCHANGED servidorVars
  <2> USE DEF servidorVars, tablaVars, estadoVars, historiaNodos, redVars
  <2>1. UnaEntradaPorNodo' /\ SocketsUsados' /\ HilosListados'
    BY <1>1, ListasIguales
  <2> QED
    BY <1>1, <2>1 DEF ServidorIInv, ServidorOK
<1>2. CASE Principal
  BY <1>2, PrincipalIInv
<1>3. ASSUME NEW n \in Nodes, NEW s \in Sockets, Conectar(n, s) PROVE ServidorIInv'
  BY <1>3, ConectarIInv
<1>4. ASSUME NEW s \in Sockets, Caer(s) PROVE ServidorIInv'
  BY <1>4, CaerIInv
<1>5. CASE Servidor
  BY <1>5, RechazarIInv, AceptarIInv, AgregarNuevoIInv, AgregarAnteriorIInv,
     HabilitarBloqueIInv DEF Servidor
<1>6. ASSUME NEW s \in Sockets, Manejador(s) PROVE ServidorIInv'
  BY <1>6, NodoDesconectadoIInv, DeshabilitarBloqueIInv, EliminarNodoIInv DEF Manejador
<1> QED
  BY <1>1, <1>2, <1>3, <1>4, <1>5, <1>6 DEF ServidorNext

LEMMA SpecIInv == ServidorSpec => []ServidorIInv
BY ServidorInitIInv, ServidorNextIInv, PTL DEF ServidorSpec

(* The states of the server have their types, and its list has one entry   *)
(* for each node.                                                          *)
THEOREM ServidorTypeCorrect == ServidorSpec => []ServidorOK
BY SpecIInv, PTL DEF ServidorIInv

(* A node that leaves, comes back and is listed again, in whatever order   *)
(* its threads run, has one thread that can take it off the list.          *)
THEOREM OneHandlerPerNode == ServidorSpec => []UnHiloPorNodo
BY SpecIInv, IInvUnHilo, PTL

-----------------------------------------------------------------------------
(* How the instances of the blocks are counted, unless a node was accepted *)
(* before the table of files was made.                                     *)

(* There are no files without an earlier state, nor before it is looked at.*)
TablaHecha ==
    /\ principal.pc = "inicio" \/ vieneDeNoEstado = 1 => tablaArchivos = {}
    /\ principal.pc \in {"inicio", "tabla"} => vieneDeNoEstado = 0

(* While the table is not made, no node was accepted.                      *)
SinNodosAun ==
    principal.pc \in {"inicio", "tabla"} =>
        /\ servidor.pc = "accept" /\ nodos = <<>>
        /\ \A s \in Sockets : ~EnCurso(s)
        /\ \A b \in IndicesDeBloque : cantInstancias[b] = 0

(* The threads that update the counts are at a block of their node; the    *)
(* thread of a node that is being listed did not find it.                  *)
HilosEnBloque ==
    /\ servidor.pc = "agregaNuevo" => tablaArchivos = {}
    /\ servidor.pc = "habilita" =>
          servidor.bloque \in IndicesDeBloque /\ Holds(servidor.bloque, NodoAceptado)
    /\ \A s \in Sockets :
          IF manejador[s].pc = "resta" /\ manejador[s].nodo # NINGUNO
          THEN /\ ~EnAlta(s)
               /\ manejador[s].bloque \in IndicesDeBloque => Holds(manejador[s].bloque, manejador[s].nodo)
          ELSE manejador[s].bloque = Fin

(* The nodes that are listed as connected and hold b; whether the accept   *)
(* thread has to count its own yet; the threads that have counted theirs   *)
(* off but did not take it off the list.                                   *)
ActivosCon(b) == {n \in Activos : Holds(b, n)}
PorSumar(b) == servidor.pc = "habilita" /\ Holds(b, NodoAceptado) /\ servidor.bloque <= b
Restados(b) ==
    {s \in Sockets :
        /\ manejador[s].pc = "resta" /\ manejador[s].nodo # NINGUNO
        /\ Holds(b, manejador[s].nodo) /\ manejador[s].bloque > b}

Cuenta(b) ==
    Cardinality(ActivosCon(b)) - (IF PorSumar(b) THEN 1 ELSE 0) - Cardinality(Restados(b))

CuentaCierta == \A b \in tablaArchivos \ choque : cantInstancias[b] = Cuenta(b)

IConteo == ~temprano => TablaHecha /\ SinNodosAun /\ HilosEnBloque /\ CuentaCierta

(* The block that follows is of the node, and none of the node is left out.*)
LEMMA SiguienteSalta ==
    ASSUME tablaArchivos \subseteq IndicesDeBloque, NEW a \in Nat, NEW n
    PROVE  /\ Siguiente(a, n) # Fin => Siguiente(a, n) > a /\ Holds(Siguiente(a, n), n)
           /\ \A b \in tablaArchivos : Holds(b, n) =>
                 Siguiente(a, n) # Fin \/ ~(a < b)
           /\ \A b \in tablaArchivos : Holds(b, n) => (a < b <=> Siguiente(a, n) <= b)
<1> DEFINE despues == {c \in tablaArchivos : c > a /\ Holds(c, n)}
<1>1. tablaArchivos \subseteq Nat /\ \A c \in tablaArchivos : c < Fin
  BY Indexes DEF Fin
<1>2. CASE despues = {}
  <2>1. Siguiente(a, n) = Fin
    BY <1>2 DEF Siguiente
  <2>2. \A b \in tablaArchivos : Holds(b, n) => ~(a < b)
    BY <1>1, <1>2
  <2> QED
    BY <1>1, <2>1, <2>2, Indexes
<1>3. CASE despues # {}
  <2>1. PICK k : k = CHOOSE c \in despues : \A d \in despues : c <= d
    OBVIOUS
  <2>2. Siguiente(a, n) = k
    BY <1>3, <2>1 DEF Siguiente
  <2>3. despues \in SUBSET Nat
    BY <1>1
  <2>4. k \in despues /\ \A d \in despues : k <= d
    <3> HIDE DEF despues
    <3>1. \E c \in despues : \A d \in despues : c <= d
      BY <1>3, <2>3, HasSmallest
    <3> QED
      BY <2>1, <3>1
  <2>5. /\ k \in tablaArchivos /\ k > a /\ Holds(k, n)
        /\ \A b \in tablaArchivos : Holds(b, n) /\ a < b => k <= b
    BY <1>1, <2>4
  <2> HIDE DEF despues
  <2>6. \A b \in tablaArchivos : k <= b => a < b
    BY <1>1, <2>5
  <2>7. k # Fin
    BY <1>1, <2>5
  <2> QED
    BY <2>2, <2>5, <2>6, <2>7
<1> QED
  BY <1>2, <1>3

(* The nodes and the threads that are counted are finitely many.           *)
LEMMA ActivosFinito ==
    ASSUME ServidorOK PROVE IsFiniteSet(Activos) /\ Cardinality(Activos) \in Nat
<1> DEFINE J == {j \in DOMAIN nodos : nodos[j].activo}
           g == [j \in J |-> nodos[j].id]
<1>1. 1 \in Int /\ Len(nodos) \in Int /\ DOMAIN nodos = 1 .. Len(nodos)
  BY DEF ServidorOK
<1>2. IsFiniteSet(DOMAIN nodos)
  BY <1>1, FS_Interval
<1>3. IsFiniteSet(J)
  BY <1>2, FS_Subset
<1>4. g \in Surjection(J, Activos)
  BY DEF Surjection, Activos
<1> QED
  BY <1>3, <1>4, FS_Surjection, FS_CardinalityType

LEMMA CuentaFinita ==
    ASSUME ServidorOK, NEW b
    PROVE  /\ IsFiniteSet(ActivosCon(b)) /\ Cardinality(ActivosCon(b)) \in Nat
           /\ IsFiniteSet(Restados(b)) /\ Cardinality(Restados(b)) \in Nat
<1>1. IsFiniteSet(ActivosCon(b))
  BY ActivosFinito, FS_Subset DEF ActivosCon
<1>2. IsFiniteSet(Restados(b))
  <2>1. IsFiniteSet(Sockets)
    <3>1. 1 \in Int /\ MaxConexiones \in Int
      BY FsNodesAssumption
    <3> QED
      BY <3>1, FS_Interval DEF Sockets
  <2> QED
    BY <2>1, FS_Subset DEF Restados
<1> QED
  BY <1>1, <1>2, FS_CardinalityType

LEMMA InitIConteo == ServidorInit => IConteo
<1> SUFFICES ASSUME ServidorInit PROVE IConteo
  OBVIOUS
<1> USE DEF ServidorInit, Parado, SinHilo
<1>1. TablaHecha /\ SinNodosAun /\ HilosEnBloque /\ CuentaCierta
  BY DEF TablaHecha, SinNodosAun, HilosEnBloque, CuentaCierta, EnCurso
<1> QED
  BY <1>1 DEF IConteo

(* A step that leaves the counts, the list and the threads as they are.    *)
LEMMA ConteoIgual ==
    ASSUME IConteo,
           UNCHANGED <<temprano, choque, tablaArchivos, cantInstancias, nodos, servidor,
                       manejador>>,
           servidor.pc = "habilita" => NodoAceptado' = NodoAceptado,
           TablaHecha => TablaHecha',
           principal'.pc \in {"inicio", "tabla"} => principal.pc \in {"inicio", "tabla"}
    PROVE  IConteo'
<1> SUFFICES ASSUME ~temprano
             PROVE  TablaHecha' /\ SinNodosAun' /\ HilosEnBloque' /\ CuentaCierta'
  BY DEF IConteo
<1>1. TablaHecha /\ SinNodosAun /\ HilosEnBloque /\ CuentaCierta
  BY DEF IConteo
<1>2. SinNodosAun'
  BY <1>1 DEF SinNodosAun, EnCurso
<1>3. HilosEnBloque'
  BY <1>1 DEF HilosEnBloque, EnAlta
<1>4. CuentaCierta'
  BY <1>1 DEF CuentaCierta, Cuenta, ActivosCon, PorSumar, Restados, Activos
<1> QED
  BY <1>1, <1>2, <1>3, <1>4

LEMMA PrincipalConteo == ASSUME ServidorIInv, IConteo, Principal PROVE IConteo'
<1> USE DEF tablaVars, estadoVars, historiaNodos, redVars
<1>1. ServidorOK
  BY DEF ServidorIInv
<1>2. CASE MirarEstadoAnterior
  <2>1. TablaHecha => TablaHecha'
    BY <1>2 DEF MirarEstadoAnterior, TablaHecha
  <2> QED
    BY <1>2, <2>1, ConteoIgual DEF MirarEstadoAnterior, NodoAceptado
<1>3. CASE EsperarNodo
  <2>1. principal'.pc = "nodos" \/ principal'.pc = "consola"
    BY <1>1, <1>3 DEF EsperarNodo, Estable, ServidorOK, EstadoPrincipal
  <2>2. TablaHecha => TablaHecha'
    BY <1>3, <2>1 DEF EsperarNodo, TablaHecha
  <2> QED
    BY <1>3, <2>1, <2>2, ConteoIgual DEF EsperarNodo, NodoAceptado
<1>4. ASSUME NEW b \in IndicesDeBloque, EsperarBloque(b) PROVE IConteo'
  <2>1. principal'.pc = "bloques" \/ principal'.pc = "consola"
    BY <1>1, <1>4 DEF EsperarBloque, Estable, ServidorOK, EstadoPrincipal
  <2>2. TablaHecha => TablaHecha'
    BY <1>4, <2>1 DEF EsperarBloque, TablaHecha
  <2> QED
    BY <1>4, <2>1, <2>2, ConteoIgual DEF EsperarBloque, NodoAceptado
<1>5. CASE CargarArchivo
  <2> SUFFICES ASSUME ~temprano
               PROVE  TablaHecha' /\ SinNodosAun' /\ HilosEnBloque' /\ CuentaCierta'
    BY <1>5 DEF IConteo, CargarArchivo
  <2>1. TablaHecha /\ SinNodosAun /\ HilosEnBloque
    BY DEF IConteo
  <2>2. /\ principal.pc = "tabla" /\ principal'.pc \in {"tabla", "bloques"}
        /\ UNCHANGED <<vieneDeNoEstado, cantInstancias, choque, nodos, servidor, manejador,
                       conexion>>
    BY <1>5 DEF CargarArchivo
  <2>3. /\ servidor.pc = "accept" /\ nodos = <<>>
        /\ \A s \in Sockets : manejador[s].pc # "resta"
        /\ \A b \in IndicesDeBloque : cantInstancias[b] = 0
    BY <2>1, <2>2 DEF SinNodosAun, EnCurso
  <2>4. TablaHecha' /\ SinNodosAun'
    BY <2>1, <2>2, <2>3 DEF TablaHecha, SinNodosAun, EnCurso
  <2>5. HilosEnBloque'
    BY <2>1, <2>2, <2>3 DEF HilosEnBloque
  <2>6. CuentaCierta'
    <3> SUFFICES ASSUME NEW b \in tablaArchivos' PROVE (cantInstancias[b] = Cuenta(b))'
      BY DEF CuentaCierta
    <3>1. b \in IndicesDeBloque
      BY <1>1, <1>5 DEF CargarArchivo, ServidorOK
    <3>2. ActivosCon(b)' = {} /\ ~PorSumar(b)' /\ Restados(b)' = {}
      BY <2>2, <2>3 DEF ActivosCon, Activos, PorSumar, Restados
    <3>3. Cuenta(b)' = 0 - 0 - 0
      BY <3>2, FS_EmptySet DEF Cuenta
    <3> QED
      BY <2>2, <2>3, <3>1, <3>3
  <2> QED
    BY <2>4, <2>5, <2>6
<1> QED
  BY <1>2, <1>3, <1>4, <1>5 DEF Principal

(* The connection of the node that is accepted stays that of the node.     *)
LEMMA NodoAceptadoIgual ==
    ASSUME ServidorIInv, servidor.pc = "habilita",
           \/ \E n \in Nodes, s \in Sockets : Conectar(n, s)
           \/ \E s \in Sockets : Caer(s) \/ Rechazar(s)
    PROVE  NodoAceptado' = NodoAceptado
<1>1. ServidorOK /\ SocketsUsados
  BY DEF ServidorIInv
<1>2. servidor' = servidor
  BY DEF Conectar, Caer, Rechazar
<1> SUFFICES conexion'[servidor.socket].nodo = conexion[servidor.socket].nodo
  BY <1>2 DEF NodoAceptado
<1>3. servidor.socket \in Sockets /\ conexion[servidor.socket].estado # "no"
  BY <1>1 DEF SocketsUsados
<1>4. conexion \in [Sockets -> Conexion]
  BY <1>1 DEF ServidorOK
<1>5. ASSUME NEW n, NEW s \in Sockets, Conectar(n, s)
      PROVE  conexion'[servidor.socket] = conexion[servidor.socket]
  BY <1>3, <1>4, <1>5 DEF Conectar
<1>6. ASSUME NEW s \in Sockets, Caer(s) \/ Rechazar(s)
      PROVE  conexion'[servidor.socket].nodo = conexion[servidor.socket].nodo
  BY <1>3, <1>4, <1>6 DEF Caer, Rechazar, Conexion
<1> QED
  BY <1>5, <1>6

LEMMA RedConteo ==
    ASSUME ServidorIInv, IConteo,
           \/ \E n \in Nodes, s \in Sockets : Conectar(n, s)
           \/ \E s \in Sockets : Caer(s) \/ Rechazar(s)
    PROVE  IConteo'
<1> USE DEF tablaVars, estadoVars, historiaNodos
<1>1. UNCHANGED <<principal, vieneDeNoEstado, temprano, choque, tablaArchivos,
                  cantInstancias, nodos, servidor, manejador>>
  BY DEF Conectar, Caer, Rechazar
<1>2. TablaHecha => TablaHecha'
  BY <1>1 DEF TablaHecha
<1> QED
  BY <1>1, <1>2, NodoAceptadoIgual, ConteoIgual

LEMMA AceptarConteo == ASSUME ServidorIInv, IConteo, NEW s \in Sockets, Aceptar(s) PROVE IConteo'
<1> USE DEF tablaVars, estadoVars, historiaNodos
<1>1. ServidorOK /\ HilosListados
  BY DEF ServidorIInv
<1>2. /\ UNCHANGED <<principal, vieneDeNoEstado, tablaArchivos, cantInstancias, choque,
                     nodos, conexion>>
      /\ servidor.pc = "accept" /\ ~BuscarNodoPorId(conexion[s].nodo)
      /\ manejador' = [manejador EXCEPT ![s].pc = "recv"]
      /\ servidor'.pc \in {"agregaNuevo", "agregaAnterior"} /\ servidor'.socket = s
      /\ servidor'.pc = "agregaNuevo" => vieneDeNoEstado = 1
  BY DEF Aceptar, Rechazable, Llega, Parado
<1>3. ~EnCurso(s)
  BY <1>1, <1>2 DEF HilosListados, EnAlta, BuscarNodoPorId, Entrada
<1>4. /\ manejador'[s].pc = "recv" /\ manejador'[s].bloque = manejador[s].bloque
      /\ \A r \in Sockets \ {s} : manejador'[r] = manejador[r]
  BY <1>1, <1>2 DEF ServidorOK, HiloNodo
<1> SUFFICES ASSUME ~temprano, principal.pc \notin {"inicio", "tabla"}
             PROVE  TablaHecha' /\ SinNodosAun' /\ HilosEnBloque' /\ CuentaCierta'
  BY DEF IConteo, Aceptar
<1>5. TablaHecha /\ HilosEnBloque /\ CuentaCierta
  BY DEF IConteo
<1>6. TablaHecha' /\ SinNodosAun'
  BY <1>2, <1>5 DEF TablaHecha, SinNodosAun
<1>7. HilosEnBloque'
  <2>1. \A r \in Sockets \ {s} : ~EnAlta(r)'
    BY <1>2 DEF EnAlta
  <2>2. servidor'.pc = "agregaNuevo" => tablaArchivos' = {}
    BY <1>2, <1>5 DEF TablaHecha
  <2>3. manejador[s].bloque = Fin
    BY <1>3, <1>5 DEF HilosEnBloque, EnCurso
  <2> QED
    BY <1>2, <1>4, <1>5, <2>1, <2>2, <2>3 DEF HilosEnBloque
<1>8. CuentaCierta'
  <2>1. ASSUME NEW b PROVE ActivosCon(b)' = ActivosCon(b) /\ Restados(b)' = Restados(b)
    BY <1>2, <1>3, <1>4 DEF ActivosCon, Activos, Restados, EnCurso
  <2>2. ASSUME NEW b PROVE ~PorSumar(b) /\ ~PorSumar(b)'
    BY <1>2 DEF PorSumar
  <2> QED
    BY <1>2, <1>5, <2>1, <2>2 DEF CuentaCierta, Cuenta
<1> QED
  BY <1>6, <1>7, <1>8

(* Without files there is nothing to count.                                *)
LEMMA AgregarNuevoConteo == ASSUME ServidorIInv, IConteo, AgregarNuevo PROVE IConteo'
<1> USE DEF tablaVars, estadoVars, historiaNodos, redVars
<1>1. /\ UNCHANGED <<principal, vieneDeNoEstado, tablaArchivos, cantInstancias, choque,
                     manejador, temprano>>
      /\ servidor.pc = "agregaNuevo" /\ servidor'.pc = "accept"
  BY DEF AgregarNuevo, Parado
<1> SUFFICES ASSUME ~temprano
             PROVE  TablaHecha' /\ SinNodosAun' /\ HilosEnBloque' /\ CuentaCierta'
  BY <1>1 DEF IConteo
<1>2. TablaHecha /\ SinNodosAun /\ HilosEnBloque
  BY DEF IConteo
<1>3. TablaHecha' /\ SinNodosAun'
  BY <1>1, <1>2 DEF TablaHecha, SinNodosAun, EnCurso
<1>4. HilosEnBloque'
  BY <1>1, <1>2 DEF HilosEnBloque, EnAlta
<1>5. CuentaCierta'
  BY <1>1, <1>2 DEF HilosEnBloque, CuentaCierta
<1> QED
  BY <1>3, <1>4, <1>5

(* What the accept thread does next, as to the counts.                     *)
LEMMA SigueCuenta ==
    ASSUME ServidorOK, NEW a \in Nat, SigueHabilitando(a, NodoAceptado),
           UNCHANGED <<conexion, tablaArchivos>>
    PROVE  /\ servidor'.pc \in {"accept", "habilita"}
           /\ servidor'.pc = "habilita" =>
                 servidor'.bloque \in IndicesDeBloque /\ Holds(servidor'.bloque, NodoAceptado')
           /\ \A b \in tablaArchivos : PorSumar(b)' <=> Holds(b, NodoAceptado) /\ a < b
<1> DEFINE c == Siguiente(a, NodoAceptado)
<1>1. tablaArchivos \subseteq IndicesDeBloque
  BY DEF ServidorOK
<1>2. c \in IndicesDeBloque \cup {Fin}
  BY <1>1, SiguienteType
<1>3. /\ c # Fin => Holds(c, NodoAceptado)
      /\ \A b \in tablaArchivos : Holds(b, NodoAceptado) => c # Fin \/ ~(a < b)
      /\ \A b \in tablaArchivos : Holds(b, NodoAceptado) => (a < b <=> c <= b)
  BY <1>1, SiguienteSalta
<1>4. CASE c = Fin
  <2>1. servidor'.pc = "accept"
    BY <1>4 DEF SigueHabilitando, Parado
  <2> QED
    BY <1>3, <1>4, <2>1 DEF PorSumar
<1>5. CASE c # Fin
  <2>1. servidor' = Continua([servidor EXCEPT !.pc = "habilita"], a, NodoAceptado)
    BY <1>5 DEF SigueHabilitando
  <2>2. servidor' = [[servidor EXCEPT !.pc = "habilita"]
                        EXCEPT !.bloque = c, !.leido = cantInstancias'[c]]
    BY <1>5, <2>1 DEF Continua
  <2>3. servidor'.pc = "habilita" /\ servidor'.bloque = c /\ servidor'.socket = servidor.socket
    <3> HIDE DEF c
    <3> QED
      BY <2>2 DEF ServidorOK, HiloServidor
  <2>4. NodoAceptado' = NodoAceptado
    BY <2>3 DEF NodoAceptado
  <2> QED
    BY <1>2, <1>3, <1>5, <2>3, <2>4 DEF PorSumar
<1> QED
  BY <1>4, <1>5

LEMMA SigueLeido ==
    ASSUME ServidorOK, NEW a, SigueHabilitando(a, NodoAceptado), UNCHANGED conexion,
           servidor'.pc = "habilita"
    PROVE  /\ servidor'.leido = cantInstancias'[servidor'.bloque]
           /\ NodoAceptado' = NodoAceptado
<1> DEFINE c == Siguiente(a, NodoAceptado)
<1>1. c # Fin
  BY DEF SigueHabilitando, Parado
<1>2. servidor' = [[servidor EXCEPT !.pc = "habilita"]
                      EXCEPT !.bloque = c, !.leido = cantInstancias'[c]]
  BY <1>1 DEF SigueHabilitando, Continua
<1> HIDE DEF c
<1>3. servidor'.bloque = c /\ servidor'.leido = cantInstancias'[c]
      /\ servidor'.socket = servidor.socket
  BY <1>2 DEF ServidorOK, HiloServidor
<1> QED
  BY <1>3 DEF NodoAceptado

(* The node that is listed is one more, until it is counted one less.      *)
LEMMA AgregadoActivos ==
    ASSUME ServidorOK, NEW n \in Nodes, NEW s \in Sockets, nodos' = Agregado(n, s)
    PROVE  Activos' = Activos \cup {n}
<1>1. Len(nodos) \in Nat /\ DOMAIN nodos = 1 .. Len(nodos)
  BY DEF ServidorOK
<1>2. \A i, j \in DOMAIN nodos : nodos[i].id = nodos[j].id => i = j
  BY DEF ServidorOK, UnaEntradaPorNodo
<1> DEFINE e == Entrada(n, s)
<1>3. e.id = n /\ e.activo
  BY DEF Entrada
<1>4. CASE \E i \in DOMAIN nodos : nodos[i].id = n
  <2>1. nodos' = [i \in DOMAIN nodos |-> IF nodos[i].id = n THEN e ELSE nodos[i]]
    BY <1>4 DEF Agregado
  <2> HIDE DEF e
  <2>2. /\ DOMAIN nodos' = DOMAIN nodos
        /\ \A i \in DOMAIN nodos : nodos[i].id = n => nodos'[i] = e
        /\ \A i \in DOMAIN nodos : nodos[i].id # n => nodos'[i] = nodos[i]
    BY <2>1
  <2>3. ASSUME NEW m
        PROVE  m \in Activos' <=> m = n \/ m \in Activos
    BY <1>3, <1>4, <2>2 DEF Activos
  <2> QED
    BY <2>3
<1>5. CASE \A i \in DOMAIN nodos : nodos[i].id # n
  <2>1. nodos' = Append(nodos, e)
    BY <1>5 DEF Agregado
  <2>2. nodos \in Seq(Nodo) /\ e \in Nodo
    BY DEF ServidorOK, Entrada, Nodo
  <2> HIDE DEF e
  <2>3. /\ \A i \in DOMAIN nodos' : i \in DOMAIN nodos \/ i = Len(nodos) + 1
        /\ \A i \in DOMAIN nodos : i \in DOMAIN nodos' /\ nodos'[i] = nodos[i]
        /\ Len(nodos) + 1 \in DOMAIN nodos' /\ nodos'[Len(nodos) + 1] = e
    BY <1>1, <2>1, <2>2
  <2>4. ASSUME NEW m
        PROVE  m \in Activos' <=> m = n \/ m \in Activos
    BY <1>3, <2>3 DEF Activos
  <2> QED
    BY <2>4
<1> QED
  BY <1>4, <1>5

LEMMA AgregarAnteriorConteo == ASSUME ServidorIInv, IConteo, AgregarAnterior PROVE IConteo'
<1> USE DEF tablaVars, estadoVars, historiaNodos, redVars
<1> DEFINE n == NodoAceptado
<1>1. ServidorOK /\ SocketsUsados /\ HilosListados
  BY DEF ServidorIInv
<1>2. /\ UNCHANGED <<principal, vieneDeNoEstado, tablaArchivos, cantInstancias, choque,
                     conexion, manejador, temprano>>
      /\ servidor.pc = "agregaAnterior" /\ SigueHabilitando(0, NodoAceptado)
      /\ nodos' = Agregado(NodoAceptado, servidor.socket)
  BY DEF AgregarAnterior
<1>3. servidor.socket \in Sockets /\ n \in Nodes /\ ~BuscarNodoPorId(n)
  BY <1>1, <1>2 DEF SocketsUsados, HilosListados, NodoAceptado
<1>4. n \notin Activos /\ Activos' = Activos \cup {n}
  BY <1>1, <1>2, <1>3, AgregadoActivos DEF BuscarNodoPorId, Activos
<1>5. /\ servidor'.pc \in {"accept", "habilita"}
      /\ servidor'.pc = "habilita" =>
            servidor'.bloque \in IndicesDeBloque /\ Holds(servidor'.bloque, NodoAceptado')
      /\ \A b \in tablaArchivos : PorSumar(b)' <=> Holds(b, n) /\ 0 < b
  BY <1>1, <1>2, SigueCuenta
<1> SUFFICES ASSUME ~temprano
             PROVE  TablaHecha' /\ SinNodosAun' /\ HilosEnBloque' /\ CuentaCierta'
  BY <1>2 DEF IConteo
<1>6. TablaHecha /\ SinNodosAun /\ HilosEnBloque /\ CuentaCierta
  BY DEF IConteo
<1>7. TablaHecha' /\ SinNodosAun'
  BY <1>2, <1>6 DEF TablaHecha, SinNodosAun
<1>8. HilosEnBloque'
  <2>1. servidor'.pc # "agregaNuevo" /\ \A s \in Sockets : ~EnAlta(s)'
    BY <1>5 DEF EnAlta
  <2> QED
    BY <1>2, <1>5, <1>6, <2>1 DEF HilosEnBloque
<1> HIDE DEF n
<1>9. CuentaCierta'
  <2> SUFFICES ASSUME NEW b \in tablaArchivos \ choque
               PROVE  (cantInstancias[b] = Cuenta(b))'
    BY <1>2 DEF CuentaCierta
  <2>1. b \in IndicesDeBloque /\ 0 < b
    BY <1>1, Indexes DEF ServidorOK
  <2>2. cantInstancias'[b] = Cuenta(b)
    BY <1>2, <1>6 DEF CuentaCierta
  <2>3. Restados(b)' = Restados(b) /\ ~PorSumar(b) /\ (PorSumar(b)' <=> Holds(b, n))
    BY <1>2, <1>5, <2>1 DEF Restados, PorSumar
  <2>4. Cardinality(ActivosCon(b)) \in Nat /\ Cardinality(Restados(b)) \in Nat
    BY <1>1, CuentaFinita
  <2>5. CASE Holds(b, n)
    <3>1. ActivosCon(b)' = ActivosCon(b) \cup {n} /\ n \notin ActivosCon(b)
      BY <1>4, <2>5 DEF ActivosCon
    <3>2. Cardinality(ActivosCon(b)') = Cardinality(ActivosCon(b)) + 1
      BY <1>1, <3>1, CuentaFinita, FS_AddElement
    <3>3. Cuenta(b)' = (Cardinality(ActivosCon(b)) + 1) - 1 - Cardinality(Restados(b))
      <4>1. Cuenta(b)' = Cardinality(ActivosCon(b)') - 1 - Cardinality(Restados(b)')
        BY <2>3, <2>5 DEF Cuenta
      <4> QED
        BY <2>3, <3>2, <4>1
    <3>4. Cuenta(b) = Cardinality(ActivosCon(b)) - 0 - Cardinality(Restados(b))
      BY <2>3 DEF Cuenta
    <3> QED
      BY <2>2, <2>4, <3>3, <3>4
  <2>6. CASE ~Holds(b, n)
    <3>1. ActivosCon(b)' = ActivosCon(b)
      BY <1>4, <2>6 DEF ActivosCon
    <3> QED
      BY <2>2, <2>3, <2>6, <3>1 DEF Cuenta
  <2> QED
    BY <2>5, <2>6
<1> QED
  BY <1>7, <1>8, <1>9

(* An update that is not lost changes the count it read by one; of a       *)
(* block with one that is, nothing is said.                                *)
LEMMA ContarCuenta ==
    ASSUME ServidorOK, NEW r, r.bloque \in IndicesDeBloque, r.leido \in Int,
           NEW d \in {1, -1}, Contar(r, d), NEW b \in IndicesDeBloque, b \notin choque'
    PROVE  /\ b \notin choque
           /\ cantInstancias'[b] = IF b = r.bloque THEN cantInstancias[b] + d
                                                   ELSE cantInstancias[b]
<1>1. cantInstancias' = [cantInstancias EXCEPT ![r.bloque] = r.leido + d]
  BY DEF Contar
<1>2. b \notin choque /\ (b = r.bloque => cantInstancias[b] = r.leido)
  BY DEF Contar
<1>3. cantInstancias \in [IndicesDeBloque -> Int]
  BY DEF ServidorOK
<1> QED
  BY <1>1, <1>2, <1>3

LEMMA HabilitarBloqueConteo ==
    ASSUME ServidorIInv, IConteo, NEW a \in IndicesDeBloque, HabilitarBloque(a) PROVE IConteo'
<1> USE DEF tablaVars, estadoVars, historiaNodos, redVars
<1> DEFINE n == NodoAceptado
<1>1. ServidorOK /\ servidor \in HiloServidor /\ tablaArchivos \subseteq IndicesDeBloque
  BY DEF ServidorIInv, ServidorOK
<1>2. /\ UNCHANGED <<principal, vieneDeNoEstado, tablaArchivos, nodos, conexion,
                     manejador, temprano>>
      /\ servidor.pc = "habilita" /\ SigueHabilitando(a, NodoAceptado)
      /\ a = servidor.bloque /\ Contar(servidor, 1)
  BY DEF HabilitarBloque
<1>3. /\ servidor'.pc \in {"accept", "habilita"}
      /\ servidor'.pc = "habilita" =>
            servidor'.bloque \in IndicesDeBloque /\ Holds(servidor'.bloque, NodoAceptado')
      /\ \A b \in tablaArchivos : PorSumar(b)' <=> Holds(b, n) /\ a < b
  <2>1. a \in Nat
    BY Indexes
  <2> QED
    BY <1>1, <1>2, <2>1, SigueCuenta
<1> SUFFICES ASSUME ~temprano
             PROVE  TablaHecha' /\ SinNodosAun' /\ HilosEnBloque' /\ CuentaCierta'
  BY <1>2 DEF IConteo
<1>4. TablaHecha /\ SinNodosAun /\ HilosEnBloque /\ CuentaCierta
  BY DEF IConteo
<1>5. TablaHecha' /\ SinNodosAun'
  BY <1>2, <1>4 DEF TablaHecha, SinNodosAun
<1>6. HilosEnBloque'
  <2>1. servidor'.pc # "agregaNuevo" /\ \A s \in Sockets : ~EnAlta(s)'
    BY <1>3 DEF EnAlta
  <2> QED
    BY <1>2, <1>3, <1>4, <2>1 DEF HilosEnBloque
<1>7. Holds(a, n)
  BY <1>2, <1>4 DEF HilosEnBloque
<1> HIDE DEF n
<1>8. CuentaCierta'
  <2> SUFFICES ASSUME NEW b \in tablaArchivos, b \notin choque'
               PROVE  (cantInstancias[b] = Cuenta(b))'
    BY <1>2 DEF CuentaCierta
  <2>1. /\ b \notin choque
        /\ cantInstancias'[b] = IF b = a THEN cantInstancias[b] + 1 ELSE cantInstancias[b]
    <3>1. servidor.bloque \in IndicesDeBloque /\ servidor.leido \in Int /\ b \in IndicesDeBloque
      BY <1>1, <1>2 DEF HiloServidor
    <3> QED
      BY <1>1, <1>2, <3>1, ContarCuenta
  <2>2. cantInstancias[b] = Cuenta(b)
    BY <1>4, <2>1 DEF CuentaCierta
  <2>3. Restados(b)' = Restados(b) /\ ActivosCon(b)' = ActivosCon(b)
    BY <1>2 DEF Restados, ActivosCon, Activos
  <2>4. Cardinality(ActivosCon(b)) \in Nat /\ Cardinality(Restados(b)) \in Nat
    BY <1>1, CuentaFinita
  <2>5. /\ PorSumar(b) <=> Holds(b, n) /\ a <= b
        /\ PorSumar(b)' <=> Holds(b, n) /\ a < b
    BY <1>2, <1>3 DEF PorSumar, n
  <2>6. a \in Nat /\ b \in Nat
    BY <1>1, Indexes
  <2>7. CASE b = a
    <3>1. PorSumar(b) /\ ~PorSumar(b)'
      BY <1>7, <2>5, <2>6, <2>7
    <3>2. /\ Cuenta(b)' = Cardinality(ActivosCon(b)) - 0 - Cardinality(Restados(b))
          /\ Cuenta(b) = Cardinality(ActivosCon(b)) - 1 - Cardinality(Restados(b))
      BY <2>3, <3>1 DEF Cuenta
    <3> QED
      BY <2>1, <2>2, <2>4, <2>7, <3>2
  <2>8. CASE b # a
    <3>1. PorSumar(b)' <=> PorSumar(b)
      BY <2>5, <2>6, <2>8
    <3>2. Cuenta(b)' = Cuenta(b)
      BY <2>3, <3>1 DEF Cuenta
    <3> QED
      BY <2>1, <2>2, <2>8, <3>2
  <2> QED
    BY <2>7, <2>8
<1> QED
  BY <1>5, <1>6, <1>8

-----------------------------------------------------------------------------
(* A step of the thread of s that leaves the list as it is.                *)
LEMMA HiloConteo ==
    ASSUME ServidorOK, NEW s \in Sockets, NEW h, IConteo, ~temprano,
           manejador' = [manejador EXCEPT ![s] = h],
           UNCHANGED <<principal, vieneDeNoEstado, tablaArchivos, nodos, conexion, servidor>>,
           EnCurso(s), h.pc = "resta",
           IF h.nodo # NINGUNO
           THEN ~EnAlta(s) /\ (h.bloque \in IndicesDeBloque => Holds(h.bloque, h.nodo))
           ELSE h.bloque = Fin
    PROVE  /\ TablaHecha' /\ SinNodosAun' /\ HilosEnBloque'
           /\ \A b : ActivosCon(b)' = ActivosCon(b) /\ (PorSumar(b)' <=> PorSumar(b))
           /\ \A b : Restados(b)' \ {s} = Restados(b) \ {s}
           /\ \A b : s \in Restados(b)' <=> h.nodo # NINGUNO /\ Holds(b, h.nodo) /\ h.bloque > b
<1>1. TablaHecha /\ SinNodosAun /\ HilosEnBloque
  BY DEF IConteo
<1>2. manejador'[s] = h /\ \A r \in Sockets \ {s} : manejador'[r] = manejador[r]
  BY DEF ServidorOK
<1>3. TablaHecha' /\ SinNodosAun'
  BY <1>1 DEF TablaHecha, SinNodosAun
<1>4. HilosEnBloque'
  BY <1>1, <1>2 DEF HilosEnBloque, EnAlta, NodoAceptado
<1>5. \A b : ActivosCon(b)' = ActivosCon(b) /\ (PorSumar(b)' <=> PorSumar(b))
  BY DEF ActivosCon, Activos, PorSumar, NodoAceptado
<1>6. \A b : Restados(b)' \ {s} = Restados(b) \ {s}
  BY <1>2 DEF Restados
<1>7. \A b : s \in Restados(b)' <=> h.nodo # NINGUNO /\ Holds(b, h.nodo) /\ h.bloque > b
  BY <1>2 DEF Restados
<1> QED
  BY <1>1, <1>3, <1>4, <1>5, <1>6, <1>7

LEMMA ContinuaCuenta ==
    ASSUME NEW r \in HiloNodo, NEW a, NEW n
    PROVE  /\ Continua(r, a, n).bloque = Siguiente(a, n)
           /\ Continua(r, a, n).pc = r.pc /\ Continua(r, a, n).nodo = r.nodo
<1> DEFINE c == Siguiente(a, n)
           l == IF c = Fin THEN 0 ELSE cantInstancias'[c]
<1>1. Continua(r, a, n) = [r EXCEPT !.bloque = c, !.leido = l]
  BY DEF Continua
<1> HIDE DEF c, l
<1>2. Continua(r, a, n).bloque = c
  BY <1>1 DEF HiloNodo
<1>3. Continua(r, a, n).pc = r.pc /\ Continua(r, a, n).nodo = r.nodo
  BY <1>1 DEF HiloNodo
<1> QED
  BY <1>2, <1>3 DEF c

(* The node of a thread is found only if it is listed already; no block of *)
(* it has been counted off.                                                *)
LEMMA NodoDesconectadoConteo ==
    ASSUME ServidorIInv, IConteo, NEW s \in Sockets, NodoDesconectado(s) PROVE IConteo'
<1> USE DEF tablaVars, estadoVars, historiaNodos, redVars
<1> DEFINE n == BuscarNodoPorSocket(s)
           g == [manejador[s] EXCEPT !.pc = "resta", !.nodo = n]
           h == IF n = NINGUNO THEN g ELSE Continua(g, 0, n)
<1>1. ServidorOK /\ HilosListados /\ EnCurso(s) /\ manejador[s].pc = "recv"
  BY DEF ServidorIInv, NodoDesconectado, EnCurso
<1>2. /\ UNCHANGED <<principal, vieneDeNoEstado, tablaArchivos, cantInstancias, choque,
                     nodos, conexion, servidor, temprano>>
      /\ manejador' = [manejador EXCEPT ![s] = h]
  BY DEF NodoDesconectado
<1> SUFFICES ASSUME ~temprano
             PROVE  TablaHecha' /\ SinNodosAun' /\ HilosEnBloque' /\ CuentaCierta'
  BY <1>2 DEF IConteo
<1>3. HilosEnBloque /\ CuentaCierta
  BY DEF IConteo
<1>4. n # NINGUNO => ~EnAlta(s)
  <2>1. CASE {i \in DOMAIN nodos : nodos[i].socketNodo = s /\ nodos[i].activo} = {}
    BY <2>1 DEF BuscarNodoPorSocket
  <2>2. ASSUME NEW i \in DOMAIN nodos, nodos[i].socketNodo = s, nodos[i].activo
        PROVE  ~EnAlta(s)
    BY <1>1, <2>2 DEF HilosListados, EnAlta, BuscarNodoPorId, NodoAceptado, ServidorOK,
         UnaEntradaPorNodo
  <2> QED
    BY <2>1, <2>2
<1>5. n \in {NINGUNO, conexion[s].nodo}
  BY <1>1, BuscarNodoPorSocketType
<1> HIDE DEF n
<1>6. manejador[s] \in HiloNodo /\ conexion[s].nodo \in Nodes \cup {NINGUNO}
      /\ manejador[s].bloque = Fin
  BY <1>1, <1>3 DEF ServidorOK, Conexion, HilosEnBloque
<1>7. g \in HiloNodo /\ g.pc = "resta" /\ g.nodo = n /\ g.bloque = Fin
  BY <1>5, <1>6 DEF HiloNodo
<1> HIDE DEF g
<1>8. /\ h.pc = "resta" /\ h.nodo = n
      /\ h.bloque = IF n = NINGUNO THEN Fin ELSE Siguiente(0, n)
  BY <1>7, ContinuaCuenta
<1>9. /\ Siguiente(0, n) \in IndicesDeBloque => Holds(Siguiente(0, n), n)
      /\ \A b \in tablaArchivos : Holds(b, n) => Siguiente(0, n) <= b
  <2>1. tablaArchivos \subseteq IndicesDeBloque /\ 0 \in Nat
    BY <1>1 DEF ServidorOK
  <2>2. \A b \in IndicesDeBloque : 0 < b /\ b # Fin
    BY Indexes DEF Fin
  <2>3. /\ Siguiente(0, n) # Fin => Holds(Siguiente(0, n), n)
        /\ \A b \in tablaArchivos : Holds(b, n) => (0 < b <=> Siguiente(0, n) <= b)
    BY <2>1, SiguienteSalta
  <2> QED
    BY <2>1, <2>2, <2>3
<1> HIDE DEF h
<1>10. /\ TablaHecha' /\ SinNodosAun' /\ HilosEnBloque'
       /\ \A b : ActivosCon(b)' = ActivosCon(b) /\ (PorSumar(b)' <=> PorSumar(b))
       /\ \A b : Restados(b)' \ {s} = Restados(b) \ {s}
       /\ \A b : s \in Restados(b)' <=> h.nodo # NINGUNO /\ Holds(b, h.nodo) /\ h.bloque > b
  BY <1>1, <1>2, <1>4, <1>8, <1>9, HiloConteo
<1>11. CuentaCierta'
  <2> SUFFICES ASSUME NEW b \in tablaArchivos \ choque
               PROVE  (cantInstancias[b] = Cuenta(b))'
    BY <1>2 DEF CuentaCierta
  <2>1. b \in Nat /\ Siguiente(0, n) \in Nat
    BY <1>1, Indexes, SiguienteType DEF ServidorOK
  <2>2. s \notin Restados(b)'
    BY <1>8, <1>9, <1>10, <2>1
  <2>3. s \notin Restados(b)
    BY <1>1 DEF Restados
  <2>4. Restados(b)' = Restados(b)
    BY <1>10, <2>2, <2>3
  <2>5. Cuenta(b)' = Cuenta(b)
    BY <1>10, <2>4 DEF Cuenta
  <2> QED
    BY <1>2, <1>3, <2>5 DEF CuentaCierta
<1> QED
  BY <1>10, <1>11

LEMMA DeshabilitarBloqueConteo ==
    ASSUME ServidorIInv, IConteo, NEW s \in Sockets, DeshabilitarBloque(s) PROVE IConteo'
<1> USE DEF tablaVars, estadoVars, historiaNodos, redVars
<1> DEFINE r == manejador[s]
           a == r.bloque
           n == r.nodo
           h == Continua(r, a, n)
<1>1. ServidorOK /\ EnCurso(s) /\ r.pc = "resta" /\ a \in IndicesDeBloque /\ r \in HiloNodo
  BY DEF ServidorIInv, DeshabilitarBloque, EnCurso, ServidorOK
<1>2. /\ UNCHANGED <<principal, vieneDeNoEstado, tablaArchivos, nodos, conexion,
                     servidor, temprano>>
      /\ manejador' = [manejador EXCEPT ![s] = h] /\ Contar(r, -1)
  BY <1>1 DEF DeshabilitarBloque, ServidorOK
<1> SUFFICES ASSUME ~temprano
             PROVE  TablaHecha' /\ SinNodosAun' /\ HilosEnBloque' /\ CuentaCierta'
  BY <1>2 DEF IConteo
<1>3. HilosEnBloque /\ CuentaCierta
  BY DEF IConteo
<1>4. a # Fin /\ a \in Nat /\ r.leido \in Int
  BY <1>1, Indexes DEF Fin, HiloNodo
<1>5. n # NINGUNO /\ ~EnAlta(s) /\ Holds(a, n)
  BY <1>1, <1>3, <1>4 DEF HilosEnBloque
<1>6. h.pc = "resta" /\ h.nodo = n /\ h.bloque = Siguiente(a, n)
  BY <1>1, ContinuaCuenta
<1>7. /\ Siguiente(a, n) \in Nat
      /\ Siguiente(a, n) > a
      /\ Siguiente(a, n) \in IndicesDeBloque => Holds(Siguiente(a, n), n)
      /\ \A b \in tablaArchivos : Holds(b, n) => (a < b <=> Siguiente(a, n) <= b)
  <2>1. tablaArchivos \subseteq IndicesDeBloque
    BY <1>1 DEF ServidorOK
  <2>2. \A b \in IndicesDeBloque : b < Fin
    BY Indexes DEF Fin
  <2>3. /\ Siguiente(a, n) # Fin => Siguiente(a, n) > a /\ Holds(Siguiente(a, n), n)
        /\ \A b \in tablaArchivos : Holds(b, n) => (a < b <=> Siguiente(a, n) <= b)
    BY <1>4, <2>1, SiguienteSalta
  <2>4. Siguiente(a, n) \in 1 .. Fin
    BY <2>1, SiguienteType
  <2> QED
    BY <1>1, <2>2, <2>3, <2>4, Indexes
<1> HIDE DEF h, n, a, r
<1>8. /\ TablaHecha' /\ SinNodosAun' /\ HilosEnBloque'
      /\ \A b : ActivosCon(b)' = ActivosCon(b) /\ (PorSumar(b)' <=> PorSumar(b))
      /\ \A b : Restados(b)' \ {s} = Restados(b) \ {s}
      /\ \A b : s \in Restados(b)' <=> h.nodo # NINGUNO /\ Holds(b, h.nodo) /\ h.bloque > b
  BY <1>1, <1>2, <1>5, <1>6, <1>7, HiloConteo
<1>9. CuentaCierta'
  <2> SUFFICES ASSUME NEW b \in tablaArchivos, b \notin choque'
               PROVE  (cantInstancias[b] = Cuenta(b))'
    BY <1>2 DEF CuentaCierta
  <2>1. /\ b \notin choque
        /\ cantInstancias'[b] = IF b = a THEN cantInstancias[b] - 1 ELSE cantInstancias[b]
    <3>1. b \in IndicesDeBloque /\ cantInstancias[b] \in Int
      BY <1>1 DEF ServidorOK
    <3>2. r.bloque \in IndicesDeBloque /\ r.leido \in Int
      BY <1>1, <1>4 DEF a
    <3>3. cantInstancias'[b] = IF b = r.bloque THEN cantInstancias[b] + (-1)
                                              ELSE cantInstancias[b]
      BY <1>1, <1>2, <3>1, <3>2, ContarCuenta
    <3>4. b \notin choque
      BY <1>2 DEF Contar
    <3> QED
      BY <3>1, <3>3, <3>4 DEF a
  <2>2. cantInstancias[b] = Cuenta(b)
    BY <1>3, <2>1 DEF CuentaCierta
  <2>3. /\ Cardinality(ActivosCon(b)) \in Nat /\ Cardinality(Restados(b)) \in Nat
        /\ IsFiniteSet(Restados(b)) /\ b \in Nat
    BY <1>1, CuentaFinita, Indexes DEF ServidorOK
  <2>4. /\ s \in Restados(b) <=> Holds(b, n) /\ a > b
        /\ s \in Restados(b)' <=> Holds(b, n) /\ Siguiente(a, n) > b
    <3>1. s \in Restados(b) <=> Holds(b, n) /\ a > b
      BY <1>1, <1>5 DEF Restados, n, a, r
    <3> QED
      BY <1>5, <1>6, <1>8, <3>1
  <2>5. CASE b = a
    <3>1. s \notin Restados(b) /\ s \in Restados(b)'
      BY <1>4, <1>5, <1>7, <2>4, <2>5
    <3>2. Restados(b)' = Restados(b) \cup {s}
      BY <1>8, <3>1
    <3>3. Cardinality(Restados(b)') = Cardinality(Restados(b)) + 1
      BY <2>3, <3>1, <3>2, FS_AddElement
    <3> DEFINE p == IF PorSumar(b) THEN 1 ELSE 0
    <3>4. /\ Cuenta(b) = Cardinality(ActivosCon(b)) - p - Cardinality(Restados(b))
          /\ Cuenta(b)' = Cardinality(ActivosCon(b)) - p - (Cardinality(Restados(b)) + 1)
      BY <1>8, <3>3 DEF Cuenta
    <3>5. p \in Int
      OBVIOUS
    <3> HIDE DEF p
    <3> QED
      BY <2>1, <2>2, <2>3, <2>5, <3>4, <3>5
  <2>6. CASE b # a
    <3>1. s \in Restados(b)' <=> s \in Restados(b)
      BY <1>4, <1>7, <2>3, <2>4, <2>6
    <3>2. Restados(b)' = Restados(b)
      BY <1>8, <3>1
    <3>3. Cuenta(b)' = Cuenta(b)
      BY <1>8, <3>2 DEF Cuenta
    <3> QED
      BY <2>1, <2>2, <2>6, <3>3
  <2> QED
    BY <2>5, <2>6
<1> QED
  BY <1>8, <1>9

(* The node that is taken off the list was counted off every block.        *)
LEMMA EliminarNodoConteo ==
    ASSUME ServidorIInv, IConteo, NEW s \in Sockets, EliminarNodo(s) PROVE IConteo'
<1> USE DEF tablaVars, estadoVars, historiaNodos, redVars
<1> DEFINE n == manejador[s].nodo
           h == [SinHilo EXCEPT !.pc = "fin"]
<1>1. ServidorOK /\ HilosListados /\ SocketsUsados /\ EnCurso(s)
      /\ manejador[s].pc = "resta" /\ manejador[s].bloque = Fin
  BY DEF ServidorIInv, EliminarNodo, EnCurso
<1>2. /\ UNCHANGED <<principal, vieneDeNoEstado, tablaArchivos, cantInstancias, choque,
                     conexion, servidor, temprano>>
      /\ manejador' = [manejador EXCEPT ![s] = h] /\ nodos' = Desactivado(n)
  BY DEF EliminarNodo
<1>3. h.pc = "fin" /\ h.bloque = Fin
  BY DEF SinHilo
<1> SUFFICES ASSUME ~temprano
             PROVE  TablaHecha' /\ SinNodosAun' /\ HilosEnBloque' /\ CuentaCierta'
  BY <1>2 DEF IConteo
<1>4. TablaHecha /\ SinNodosAun /\ HilosEnBloque /\ CuentaCierta
  BY DEF IConteo
<1> HIDE DEF h
<1>5. manejador'[s] = h /\ \A r \in Sockets \ {s} : manejador'[r] = manejador[r]
  BY <1>1, <1>2 DEF ServidorOK
<1>6. TablaHecha' /\ SinNodosAun'
  BY <1>1, <1>2, <1>4 DEF TablaHecha, SinNodosAun
<1>7. HilosEnBloque'
  BY <1>2, <1>3, <1>4, <1>5 DEF HilosEnBloque, EnAlta, NodoAceptado
<1>8. Activos' = Activos \ {n}
  <2>1. /\ DOMAIN nodos' = DOMAIN nodos
        /\ \A i \in DOMAIN nodos : nodos[i].id # n => nodos'[i] = nodos[i]
    BY <1>2 DEF Desactivado
  <2>2. ASSUME NEW i \in DOMAIN nodos, nodos[i].id = n
        PROVE  nodos'[i].id = n /\ ~nodos'[i].activo
    <3>1. nodos'[i] = [nodos[i] EXCEPT !.activo = FALSE] /\ nodos[i] \in Nodo
      BY <1>1, <1>2, <2>2 DEF Desactivado, ServidorOK
    <3> QED
      BY <2>2, <3>1 DEF Nodo
  <2> HIDE DEF n
  <2>3. ASSUME NEW m PROVE m \in Activos' <=> m \in Activos /\ m # n
    BY <2>1, <2>2 DEF Activos
  <2> QED
    BY <2>3
<1>9. n # NINGUNO => n \in Activos
  <2> SUFFICES ASSUME n # NINGUNO PROVE n \in Activos
    OBVIOUS
  <2>1. n = conexion[s].nodo /\ ~EnAlta(s)
    BY <1>1, <1>4 DEF HilosListados, HilosEnBloque
  <2>2. PICK i \in DOMAIN nodos : nodos[i] = Entrada(conexion[s].nodo, s)
    BY <1>1, <2>1 DEF HilosListados
  <2> QED
    BY <2>1, <2>2 DEF Activos, Entrada
<1>10. NINGUNO \notin Activos
  <2>1. \A i \in DOMAIN nodos : nodos[i] \in Nodo
    BY <1>1 DEF ServidorOK
  <2>2. \A i \in DOMAIN nodos : nodos[i].id \in Nodes
    BY <2>1 DEF Nodo
  <2> QED
    BY <2>2, FsNodesAssumption DEF Activos
<1>11. CuentaCierta'
  <2> SUFFICES ASSUME NEW b \in tablaArchivos \ choque
               PROVE  (cantInstancias[b] = Cuenta(b))'
    BY <1>2 DEF CuentaCierta
  <2>1. /\ Cardinality(ActivosCon(b)) \in Nat /\ Cardinality(Restados(b)) \in Nat
        /\ IsFiniteSet(Restados(b)) /\ IsFiniteSet(ActivosCon(b)) /\ Fin > b
    <3>1. Fin > b
      BY <1>1, Indexes DEF ServidorOK, Fin
    <3> QED
      BY <1>1, <3>1, CuentaFinita
  <2>2. PorSumar(b)' <=> PorSumar(b)
    BY <1>2 DEF PorSumar, NodoAceptado
  <2>3. Restados(b)' = Restados(b) \ {s} /\ ActivosCon(b)' = ActivosCon(b) \ {n}
    <3>1. Restados(b)' = Restados(b) \ {s}
      BY <1>3, <1>5 DEF Restados
    <3> HIDE DEF n
    <3> QED
      BY <1>8, <3>1 DEF ActivosCon
  <2>4. s \in Restados(b) <=> n # NINGUNO /\ Holds(b, n)
    BY <1>1, <2>1 DEF Restados
  <2>5. n \in ActivosCon(b) <=> n # NINGUNO /\ Holds(b, n)
    BY <1>9, <1>10 DEF ActivosCon
  <2> HIDE DEF n
  <2>6. \/ /\ Cardinality(Restados(b)') = Cardinality(Restados(b))
           /\ Cardinality(ActivosCon(b)') = Cardinality(ActivosCon(b))
        \/ /\ Cardinality(Restados(b)') = Cardinality(Restados(b)) - 1
           /\ Cardinality(ActivosCon(b)') = Cardinality(ActivosCon(b)) - 1
    <3>1. CASE n # NINGUNO /\ Holds(b, n)
      <4>1. Cardinality(Restados(b)') = Cardinality(Restados(b)) - 1
        <5>1. IsFiniteSet(Restados(b)) /\ s \in Restados(b)
          BY <2>1, <2>4, <3>1
        <5>2. Cardinality(Restados(b) \ {s}) = Cardinality(Restados(b)) - 1
          BY <5>1, FS_RemoveElement
        <5> QED
          BY <2>3, <5>2, Zenon
      <4>2. Cardinality(ActivosCon(b)') = Cardinality(ActivosCon(b)) - 1
        <5>1. IsFiniteSet(ActivosCon(b)) /\ n \in ActivosCon(b)
          BY <2>1, <2>5, <3>1
        <5>2. Cardinality(ActivosCon(b) \ {n}) = Cardinality(ActivosCon(b)) - 1
          BY <5>1, FS_RemoveElement
        <5> QED
          BY <2>3, <5>2, Zenon
      <4> QED
        BY <4>1, <4>2
    <3>2. CASE ~(n # NINGUNO /\ Holds(b, n))
      <4>1. Restados(b)' = Restados(b) /\ ActivosCon(b)' = ActivosCon(b)
        BY <2>3, <2>4, <2>5, <3>2
      <4> QED
        BY <4>1
    <3> QED
      BY <3>1, <3>2
  <2> DEFINE p == IF PorSumar(b) THEN 1 ELSE 0
  <2>7. /\ Cuenta(b) = Cardinality(ActivosCon(b)) - p - Cardinality(Restados(b))
        /\ Cuenta(b)' = Cardinality(ActivosCon(b)') - p - Cardinality(Restados(b)')
    BY <2>2 DEF Cuenta
  <2>8. p \in Int
    OBVIOUS
  <2> HIDE DEF p
  <2>9. Cuenta(b)' = Cuenta(b)
    BY <2>1, <2>6, <2>7, <2>8
  <2> QED
    BY <1>2, <1>4, <2>9 DEF CuentaCierta
<1> QED
  BY <1>6, <1>7, <1>11

LEMMA NextIConteo == ServidorIInv /\ IConteo /\ [ServidorNext]_servidorVars => IConteo'
<1> SUFFICES ASSUME ServidorIInv, IConteo, [ServidorNext]_servidorVars PROVE IConteo'
  OBVIOUS
<1>1. CASE UNCHANGED servidorVars
  <2> USE DEF servidorVars, tablaVars, estadoVars, historiaNodos, redVars
  <2>1. TablaHecha => TablaHecha'
    BY <1>1 DEF TablaHecha
  <2> QED
    BY <1>1, <2>1, ConteoIgual DEF NodoAceptado
<1>2. CASE Principal
  BY <1>2, PrincipalConteo
<1>3. ASSUME NEW n \in Nodes, NEW s \in Sockets, Conectar(n, s) PROVE IConteo'
  BY <1>3, RedConteo
<1>4. ASSUME NEW s \in Sockets, Caer(s) PROVE IConteo'
  BY <1>4, RedConteo
<1>5. CASE Servidor
  BY <1>5, RedConteo, AceptarConteo, AgregarNuevoConteo, AgregarAnteriorConteo,
     HabilitarBloqueConteo DEF Servidor
<1>6. ASSUME NEW s \in Sockets, Manejador(s) PROVE IConteo'
  BY <1>6, NodoDesconectadoConteo, DeshabilitarBloqueConteo, EliminarNodoConteo DEF Manejador
<1> QED
  BY <1>1, <1>2, <1>3, <1>4, <1>5, <1>6 DEF ServidorNext

LEMMA IConteoInstancias == ServidorIInv /\ IConteo => InstanciasSonNodosActivos
<1> SUFFICES ASSUME ServidorIInv, IConteo, Quieto, ~temprano, NEW b \in tablaArchivos \ choque
             PROVE  cantInstancias[b] = Cardinality(ActivosCon(b))
  BY DEF InstanciasSonNodosActivos, ActivosCon
<1>1. Restados(b) = {} /\ ~PorSumar(b)
  BY DEF Quieto, Restados, PorSumar
<1>2. Cuenta(b) = Cardinality(ActivosCon(b)) - 0 - 0
  BY <1>1, FS_EmptySet DEF Cuenta
<1>3. Cardinality(ActivosCon(b)) \in Nat
  BY CuentaFinita DEF ServidorIInv
<1>4. cantInstancias[b] = Cuenta(b)
  BY DEF IConteo, CuentaCierta
<1> QED
  BY <1>2, <1>3, <1>4

(* Of every block, the instances counted are the connected nodes that hold *)
(* it, however many nodes come, leave and come back at once, as soon as no *)
(* thread is at work and if none lost an update.                           *)
THEOREM InstancesAreNodes == ServidorSpec => []InstanciasSonNodosActivos
<1>1. ServidorInit => ServidorIInv /\ IConteo
  BY ServidorInitIInv, InitIConteo
<1>2. ServidorIInv /\ IConteo /\ [ServidorNext]_servidorVars => ServidorIInv' /\ IConteo'
  BY ServidorNextIInv, NextIConteo
<1> QED
  BY <1>1, <1>2, IConteoInstancias, PTL DEF ServidorSpec

-----------------------------------------------------------------------------
(* What the main thread waits for before it announces the stable state, as *)
(* long as no thread noticed that a node left.                             *)

(* A thread ends with its connection; a connection that was not accepted   *)
(* has no thread and waits once.                                           *)
ColaNueva ==
    /\ \A s \in Sockets :
          manejador[s].pc \in {"resta", "fin"} => conexion[s].estado = "cerrada"
    /\ \A k \in DOMAIN cola : manejador[cola[k]].pc = "no"
    /\ \A j, k \in DOMAIN cola : cola[j] = cola[k] => j = k

SinBajas == \A s \in Sockets : manejador[s].pc \in {"no", "recv"}

(* The main thread waits for nodes of a new state or for blocks of the     *)
(* earlier one.                                                            *)
Espera ==
    /\ principal.pc = "nodos" => vieneDeNoEstado = 1
    /\ principal.pc \in {"inicio", "tabla", "bloques"} => vieneDeNoEstado = 0

(* The accept thread counts a block of a node that it has listed, and      *)
(* nobody else counts.                                                     *)
CuentaSolo ==
    servidor.pc = "habilita" =>
        /\ servidor.bloque \in IndicesDeBloque /\ Holds(servidor.bloque, NodoAceptado)
        /\ servidor.leido = cantInstancias[servidor.bloque]
        /\ NodoAceptado \in Activos

Esperado(b) == IF principal.pc = "bloques" /\ b < principal.i THEN 1 ELSE 0

(* Every post, taken or not, is for an instance or for a node.             *)
PostsFundados ==
    /\ \A b \in IndicesDeBloque : cantInstancias[b] >= semaforo[b] + Esperado(b)
    /\ \A b \in IndicesDeBloque : cantInstancias[b] > 0 => \E n \in Activos : Holds(b, n)
    /\ principal.pc \in {"inicio", "nodos"} =>
          Cardinality(Activos) >= nodoInit + principal.i

IAltas == ColaNueva /\ Espera /\ (SinBajas => CuentaSolo /\ PostsFundados)

LEMMA InitIAltas == ServidorInit => IAltas
<1> SUFFICES ASSUME ServidorInit PROVE IAltas
  OBVIOUS
<1> USE DEF ServidorInit, Parado, SinHilo
<1>1. ColaNueva /\ Espera /\ CuentaSolo
  BY DEF ColaNueva, Espera, CuentaSolo
<1>2. PostsFundados
  <2>1. DOMAIN nodos = {}
    OBVIOUS
  <2>2. Activos = {}
    BY <2>1 DEF Activos
  <2>3. Cardinality(Activos) = 0
    BY <2>2, FS_EmptySet
  <2> QED
    BY <2>3 DEF PostsFundados, Esperado
<1> QED
  BY <1>1, <1>2 DEF IAltas

LEMMA ColaNuevaStep == ASSUME ServidorIInv, ColaNueva, [ServidorNext]_servidorVars PROVE ColaNueva'
<1> USE DEF tablaVars, estadoVars, historiaNodos
<1>1. ServidorOK /\ SocketsUsados
  BY DEF ServidorIInv
<1>2. /\ manejador \in [Sockets -> HiloNodo] /\ conexion \in [Sockets -> Conexion]
      /\ cola \in Seq(Sockets) /\ Len(cola) \in Nat /\ DOMAIN cola = 1 .. Len(cola)
      /\ \A k \in DOMAIN cola : cola[k] \in Sockets
  BY <1>1 DEF ServidorOK
<1>3. CASE UNCHANGED <<conexion, cola, manejador>>
  BY <1>3 DEF ColaNueva
<1>4. UNCHANGED servidorVars \/ Principal \/ AgregarNuevo \/ AgregarAnterior
        \/ (\E b \in IndicesDeBloque : HabilitarBloque(b)) => UNCHANGED <<conexion, cola, manejador>>
  BY DEF servidorVars, redVars, Principal, MirarEstadoAnterior, EsperarNodo, CargarArchivo,
     EsperarBloque, AgregarNuevo, AgregarAnterior, HabilitarBloque
<1>5. ASSUME NEW n \in Nodes, NEW s \in Sockets, Conectar(n, s) PROVE ColaNueva'
  <2>1. conexion[s].estado = "no" /\ manejador' = manejador /\ cola' = Append(cola, s)
    BY <1>5 DEF Conectar
  <2>2. /\ conexion'[s].estado = "abierta"
        /\ \A r \in Sockets \ {s} : conexion'[r] = conexion[r]
    BY <1>2, <1>5 DEF Conectar
  <2>3. manejador[s].pc = "no"
    BY <1>1, <1>2, <2>1 DEF SocketsUsados, EnCurso, ColaNueva, HiloNodo
  <2>4. \A k \in DOMAIN cola : cola[k] # s
    BY <1>1, <2>1 DEF SocketsUsados
  <2>5. /\ \A k \in DOMAIN cola' : k \in DOMAIN cola \/ k = Len(cola) + 1
        /\ \A k \in DOMAIN cola : cola'[k] = cola[k]
        /\ cola'[Len(cola) + 1] = s
    BY <1>2, <2>1
  <2>6. \A k \in DOMAIN cola' : manejador[cola'[k]].pc = "no"
    BY <2>3, <2>5 DEF ColaNueva
  <2>7. \A j, k \in DOMAIN cola' : cola'[j] = cola'[k] => j = k
    BY <2>4, <2>5 DEF ColaNueva
  <2>8. \A r \in Sockets : manejador[r].pc \in {"resta", "fin"} => conexion'[r].estado = "cerrada"
    BY <2>2, <2>3 DEF ColaNueva
  <2> QED
    BY <2>1, <2>6, <2>7, <2>8 DEF ColaNueva
<1>6. ASSUME NEW s \in Sockets, Caer(s) PROVE ColaNueva'
  <2>1. \A r \in Sockets : conexion'[r].estado \in {conexion[r].estado, "cerrada"}
    BY <1>2, <1>6 DEF Caer, Conexion
  <2>2. UNCHANGED <<cola, manejador>>
    BY <1>6 DEF Caer
  <2> QED
    BY <2>1, <2>2 DEF ColaNueva
<1>7. ASSUME NEW s \in Sockets, Llega(s)
      PROVE  /\ manejador[s].pc = "no"
             /\ \A k \in DOMAIN cola' : manejador[cola'[k]].pc = "no" /\ cola'[k] # s
             /\ \A j, k \in DOMAIN cola' : cola'[j] = cola'[k] => j = k
  <2>1. cola # <<>> /\ cola' = Tail(cola) /\ s = cola[1]
    BY <1>2, <1>7 DEF Llega
  <2>2. /\ 1 \in DOMAIN cola /\ DOMAIN cola' = 1 .. Len(cola) - 1
        /\ \A k \in DOMAIN cola' : cola'[k] = cola[k + 1] /\ k + 1 \in DOMAIN cola
                                   /\ k \in Nat /\ k + 1 # 1
    BY <1>2, <2>1
  <2>3. /\ \A k \in DOMAIN cola : manejador[cola[k]].pc = "no"
        /\ \A j, k \in DOMAIN cola : cola[j] = cola[k] => j = k
    BY DEF ColaNueva
  <2>4. ASSUME NEW j \in DOMAIN cola', NEW k \in DOMAIN cola', cola'[j] = cola'[k]
        PROVE  j = k
    <3>1. j + 1 = k + 1 /\ j \in Nat /\ k \in Nat
      BY <2>2, <2>3, <2>4
    <3> QED
      BY <3>1
  <2>5. ASSUME NEW k \in DOMAIN cola' PROVE manejador[cola'[k]].pc = "no" /\ cola'[k] # s
    BY <2>1, <2>2, <2>3
  <2> QED
    BY <2>1, <2>2, <2>3, <2>4, <2>5
<1>8. ASSUME NEW s \in Sockets, Rechazar(s) PROVE ColaNueva'
  <2>1. \A r \in Sockets \ {s} : conexion'[r] = conexion[r]
    BY <1>2, <1>8 DEF Rechazar
  <2>2. manejador' = manejador /\ Llega(s)
    BY <1>8 DEF Rechazar
  <2> QED
    BY <1>7, <2>1, <2>2 DEF ColaNueva
<1>9. ASSUME NEW s \in Sockets, Aceptar(s) PROVE ColaNueva'
  <2>1. /\ manejador'[s].pc = "recv"
        /\ \A r \in Sockets \ {s} : manejador'[r] = manejador[r]
    BY <1>2, <1>9 DEF Aceptar, HiloNodo
  <2>2. conexion' = conexion /\ Llega(s)
    BY <1>9 DEF Aceptar
  <2>3. \A k \in DOMAIN cola' : cola'[k] \in Sockets
    BY <1>1, <2>2, LlegaCola
  <2> QED
    BY <1>7, <2>1, <2>2, <2>3 DEF ColaNueva
<1>10. ASSUME NEW s \in Sockets, Manejador(s) PROVE ColaNueva'
  <2>1. /\ \A r \in Sockets \ {s} : manejador'[r] = manejador[r]
        /\ UNCHANGED <<cola, conexion>>
    BY <1>2, <1>10 DEF Manejador, NodoDesconectado, DeshabilitarBloque, EliminarNodo, redVars
  <2>2. manejador[s].pc # "no" /\ conexion[s].estado = "cerrada"
    BY <1>10 DEF Manejador, NodoDesconectado, DeshabilitarBloque, EliminarNodo, ColaNueva
  <2>3. \A k \in DOMAIN cola : cola[k] # s
    BY <2>2 DEF ColaNueva
  <2> QED
    BY <1>2, <2>1, <2>2, <2>3 DEF ColaNueva
<1> QED
  BY <1>3, <1>4, <1>5, <1>6, <1>8, <1>9, <1>10 DEF ServidorNext, Servidor

LEMMA EsperaStep == ASSUME ServidorIInv, Espera, [ServidorNext]_servidorVars PROVE Espera'
<1> USE DEF tablaVars, estadoVars, historiaNodos, redVars
<1>1. principal \in EstadoPrincipal
  BY DEF ServidorIInv, ServidorOK
<1>2. CASE UNCHANGED <<principal, vieneDeNoEstado>>
  BY <1>2 DEF Espera
<1>3. CASE Principal
  <2>1. CASE MirarEstadoAnterior
    BY <2>1 DEF MirarEstadoAnterior, Espera
  <2>2. CASE EsperarNodo
    BY <1>1, <2>2 DEF EsperarNodo, Espera, Estable, EstadoPrincipal
  <2>3. CASE CargarArchivo
    BY <2>3 DEF CargarArchivo, Espera
  <2>4. ASSUME NEW b \in IndicesDeBloque, EsperarBloque(b) PROVE Espera'
    BY <1>1, <2>4 DEF EsperarBloque, Espera, Estable, EstadoPrincipal
  <2> QED
    BY <1>3, <2>1, <2>2, <2>3, <2>4 DEF Principal
<1>4. Principal \/ UNCHANGED <<principal, vieneDeNoEstado>>
  BY DEF ServidorNext, Servidor, Manejador, Conectar, Caer, Rechazar, Aceptar, AgregarNuevo,
     AgregarAnterior, HabilitarBloque, NodoDesconectado, DeshabilitarBloque, EliminarNodo, servidorVars
<1> QED
  BY <1>2, <1>3, <1>4

(* A step that posts nothing and lists no node.                            *)
LEMMA PostsIguales ==
    ASSUME PostsFundados, UNCHANGED <<cantInstancias, semaforo, nodoInit, nodos>>,
           UNCHANGED principal
    PROVE  PostsFundados'
BY DEF PostsFundados, Esperado, Activos

LEMMA PrincipalPosts ==
    ASSUME ServidorIInv, CuentaSolo, PostsFundados, Principal PROVE CuentaSolo' /\ PostsFundados'
<1> USE DEF tablaVars, estadoVars, historiaNodos, redVars
<1>1. ServidorOK /\ principal \in EstadoPrincipal /\ principal.i \in Nat
      /\ semaforo \in [IndicesDeBloque -> Nat] /\ cantInstancias \in [IndicesDeBloque -> Int]
  BY DEF ServidorIInv, ServidorOK, EstadoPrincipal
<1>2. UNCHANGED <<cantInstancias, nodos, servidor, conexion>>
  BY DEF Principal, MirarEstadoAnterior, EsperarNodo, CargarArchivo, EsperarBloque
<1>3. CuentaSolo'
  BY <1>2 DEF CuentaSolo, NodoAceptado, Activos
<1>4. Activos' = Activos
  BY <1>2 DEF Activos
<1>5. Cardinality(Activos) \in Nat
  BY <1>1, ActivosFinito
<1>6. CASE MirarEstadoAnterior
  <2>1. /\ principal.pc = "inicio" /\ principal'.pc \in {"nodos", "tabla"} /\ principal'.i = 0
        /\ UNCHANGED <<semaforo, nodoInit>>
    BY <1>6 DEF MirarEstadoAnterior
  <2>2. \A b \in IndicesDeBloque : Esperado(b)' = Esperado(b)
    BY <2>1 DEF Esperado
  <2>3. Cardinality(Activos) >= nodoInit + 0
    BY <1>1, <1>5, <2>1 DEF PostsFundados, ServidorOK
  <2> QED
    BY <1>2, <1>3, <1>4, <2>1, <2>2, <2>3 DEF PostsFundados
<1>7. CASE EsperarNodo
  <2>1. /\ principal.pc = "nodos" /\ nodoInit > 0 /\ nodoInit' = nodoInit - 1
        /\ principal'.pc = "consola" \/ (principal'.pc = "nodos" /\ principal'.i = principal.i + 1)
        /\ UNCHANGED semaforo
    BY <1>1, <1>7 DEF EsperarNodo, Estable, EstadoPrincipal
  <2>2. \A b \in IndicesDeBloque : Esperado(b)' = Esperado(b)
    BY <2>1 DEF Esperado
  <2>3. Cardinality(Activos) >= nodoInit + principal.i /\ nodoInit \in Nat
    BY <1>1, <2>1 DEF PostsFundados, ServidorOK
  <2>4. principal'.pc = "nodos" => Cardinality(Activos) >= nodoInit' + principal'.i
    BY <1>1, <1>5, <2>1, <2>3
  <2> QED
    BY <1>2, <1>3, <1>4, <2>1, <2>2, <2>4 DEF PostsFundados
<1>8. CASE CargarArchivo
  <2>1. /\ principal.pc = "tabla"
        /\ principal'.pc = "tabla" \/ (principal'.pc = "bloques" /\ principal'.i = 1)
        /\ UNCHANGED <<semaforo, nodoInit>>
    BY <1>8 DEF CargarArchivo
  <2>2. \A b \in IndicesDeBloque : Esperado(b)' = Esperado(b)
    <3>1. \A b \in IndicesDeBloque : ~(b < 1)
      BY Indexes
    <3> QED
      BY <2>1, <3>1 DEF Esperado
  <2> QED
    BY <1>2, <1>3, <1>4, <2>1, <2>2 DEF PostsFundados
<1>9. ASSUME NEW a \in IndicesDeBloque, EsperarBloque(a) PROVE PostsFundados'
  <2>1. /\ principal.pc = "bloques" /\ a = principal.i /\ semaforo[a] > 0
        /\ semaforo' = [semaforo EXCEPT ![a] = @ - 1]
        /\ principal'.pc = "consola" \/ (principal'.pc = "bloques" /\ principal'.i = a + 1)
        /\ UNCHANGED nodoInit
    BY <1>1, <1>9 DEF EsperarBloque, Estable, EstadoPrincipal
  <2>2. ASSUME NEW b \in IndicesDeBloque
        PROVE  cantInstancias[b] >= semaforo'[b] + Esperado(b)'
    <3>1. cantInstancias[b] >= semaforo[b] + Esperado(b)
      BY DEF PostsFundados
    <3>2. b \in Nat /\ a \in Nat /\ semaforo[b] \in Nat /\ cantInstancias[b] \in Int
      BY <1>1, Indexes
    <3>3. CASE b = a
      <4>1. Esperado(b) = 0 /\ Esperado(b)' \in {0, 1} /\ semaforo'[b] = semaforo[b] - 1
        BY <1>1, <2>1, <3>2, <3>3 DEF Esperado
      <4> QED
        BY <3>1, <3>2, <4>1
    <3>4. CASE b # a
      <4>1. semaforo'[b] = semaforo[b]
        BY <1>1, <2>1, <3>4
      <4>2. b < a + 1 => b < a
        BY <3>2, <3>4
      <4>3. Esperado(b)' \in {0, 1} /\ (Esperado(b)' = 1 => Esperado(b) = 1)
            /\ Esperado(b) \in {0, 1}
        BY <2>1, <4>2 DEF Esperado
      <4> QED
        BY <3>1, <3>2, <4>1, <4>3
    <3> QED
      BY <3>3, <3>4
  <2> QED
    BY <1>2, <1>4, <2>1, <2>2 DEF PostsFundados
<1> QED
  BY <1>3, <1>6, <1>7, <1>8, <1>9 DEF Principal

LEMMA ServidorPosts ==
    ASSUME ServidorIInv, CuentaSolo, PostsFundados, AgregarNuevo \/ AgregarAnterior
    PROVE  CuentaSolo' /\ PostsFundados'
<1> USE DEF tablaVars, estadoVars, historiaNodos, redVars
<1>1. ServidorOK /\ SocketsUsados /\ HilosListados
  BY DEF ServidorIInv
<1> DEFINE n == NodoAceptado
<1>2. /\ servidor.pc \in {"agregaNuevo", "agregaAnterior"}
      /\ nodos' = Agregado(n, servidor.socket)
      /\ UNCHANGED <<principal, cantInstancias, semaforo, tablaArchivos, conexion>>
      /\ nodoInit' \in {nodoInit, nodoInit + 1}
  BY DEF AgregarNuevo, AgregarAnterior
<1>3. servidor.socket \in Sockets /\ n \in Nodes /\ ~BuscarNodoPorId(n)
  BY <1>1, <1>2 DEF SocketsUsados, HilosListados, NodoAceptado
<1>4. n \notin Activos /\ Activos' = Activos \cup {n}
  BY <1>1, <1>2, <1>3, AgregadoActivos DEF BuscarNodoPorId, Activos
<1>5. Cardinality(Activos) \in Nat /\ Cardinality(Activos') = Cardinality(Activos) + 1
  BY <1>1, <1>4, ActivosFinito, FS_AddElement
<1>6. PostsFundados'
  <2>1. \A b \in IndicesDeBloque : Esperado(b)' = Esperado(b)
    BY <1>2 DEF Esperado
  <2>2. principal.pc \in {"inicio", "nodos"} => Cardinality(Activos)' >= nodoInit' + principal.i
    <3> SUFFICES ASSUME principal.pc \in {"inicio", "nodos"}
                 PROVE  Cardinality(Activos') >= nodoInit' + principal.i
      OBVIOUS
    <3>1. Cardinality(Activos) >= nodoInit + principal.i
      BY DEF PostsFundados
    <3>2. nodoInit \in Nat /\ principal.i \in Nat
      BY <1>1 DEF ServidorOK, EstadoPrincipal
    <3> QED
      BY <1>2, <1>5, <3>1, <3>2
  <2> HIDE DEF n
  <2> QED
    BY <1>2, <1>4, <2>1, <2>2 DEF PostsFundados
<1>7. CASE AgregarNuevo
  BY <1>6, <1>7 DEF AgregarNuevo, Parado, CuentaSolo
<1>8. CASE AgregarAnterior
  <2>1. SigueHabilitando(0, n) /\ 0 \in Nat
    BY <1>8 DEF AgregarAnterior
  <2>2. /\ servidor'.pc \in {"accept", "habilita"}
        /\ servidor'.pc = "habilita" =>
              /\ servidor'.bloque \in IndicesDeBloque /\ Holds(servidor'.bloque, NodoAceptado')
              /\ servidor'.leido = cantInstancias'[servidor'.bloque]
              /\ NodoAceptado' = n
    BY <1>1, <1>2, <2>1, SigueCuenta, SigueLeido
  <2>3. CuentaSolo'
    BY <1>4, <2>2 DEF CuentaSolo
  <2> QED
    BY <1>6, <2>3
<1> QED
  BY <1>7, <1>8

LEMMA HabilitarBloquePosts ==
    ASSUME ServidorIInv, CuentaSolo, PostsFundados, NEW a \in IndicesDeBloque, HabilitarBloque(a)
    PROVE  CuentaSolo' /\ PostsFundados'
<1> USE DEF tablaVars, estadoVars, historiaNodos, redVars
<1> DEFINE n == NodoAceptado
<1>1. ServidorOK
  BY DEF ServidorIInv
<1>2. /\ a = servidor.bloque /\ servidor.pc = "habilita" /\ Contar(servidor, 1)
      /\ SigueHabilitando(a, n) /\ semaforo' = [semaforo EXCEPT ![a] = @ + 1]
      /\ UNCHANGED <<principal, nodoInit, tablaArchivos, nodos, conexion>>
  BY DEF HabilitarBloque
<1>3. Holds(a, n) /\ servidor.leido = cantInstancias[a] /\ n \in Activos
  BY <1>2 DEF CuentaSolo
<1>4. Activos' = Activos /\ \A b \in IndicesDeBloque : Esperado(b)' = Esperado(b)
  BY <1>2 DEF Activos, Esperado
<1>5. CuentaSolo'
  <2>1. a \in Nat
    BY Indexes
  <2>2. /\ servidor'.pc \in {"accept", "habilita"}
        /\ servidor'.pc = "habilita" =>
              /\ servidor'.bloque \in IndicesDeBloque /\ Holds(servidor'.bloque, NodoAceptado')
              /\ servidor'.leido = cantInstancias'[servidor'.bloque]
              /\ NodoAceptado' = n
    BY <1>1, <1>2, <2>1, SigueCuenta, SigueLeido
  <2> QED
    BY <1>3, <1>4, <2>2 DEF CuentaSolo
<1> HIDE DEF n
<1>6. PostsFundados'
  <2>1. ASSUME NEW b \in IndicesDeBloque
        PROVE  /\ cantInstancias'[b] >= semaforo'[b] + Esperado(b)'
               /\ cantInstancias'[b] > 0 => \E m \in Activos : Holds(b, m)
    <3>1. /\ cantInstancias[b] >= semaforo[b] + Esperado(b)
          /\ cantInstancias[b] > 0 => \E m \in Activos : Holds(b, m)
      BY DEF PostsFundados
    <3>2. cantInstancias[b] \in Int /\ semaforo[b] \in Nat /\ Esperado(b) \in {0, 1}
      BY <1>1 DEF ServidorOK, Esperado
    <3>3. /\ cantInstancias' = [cantInstancias EXCEPT ![a] = cantInstancias[a] + 1]
          /\ cantInstancias \in [IndicesDeBloque -> Int] /\ semaforo \in [IndicesDeBloque -> Nat]
      BY <1>1, <1>2, <1>3 DEF Contar, ServidorOK
    <3>4. CASE b = a
      <4>1. cantInstancias'[b] = cantInstancias[b] + 1 /\ semaforo'[b] = semaforo[b] + 1
        BY <1>2, <3>3, <3>4
      <4> QED
        BY <1>3, <1>4, <3>1, <3>2, <3>4, <4>1
    <3>5. CASE b # a
      <4>1. cantInstancias'[b] = cantInstancias[b] /\ semaforo'[b] = semaforo[b]
        BY <1>2, <3>3, <3>5
      <4> QED
        BY <1>4, <3>1, <4>1
    <3> QED
      BY <3>4, <3>5
  <2> QED
    BY <1>2, <1>4, <2>1 DEF PostsFundados
<1> QED
  BY <1>5, <1>6

(* A thread that leaves is one that noticed it.                            *)
LEMMA NextIAltas == ServidorIInv /\ IAltas /\ [ServidorNext]_servidorVars => IAltas'
<1> SUFFICES ASSUME ServidorIInv, IAltas, [ServidorNext]_servidorVars PROVE IAltas'
  OBVIOUS
<1> USE DEF tablaVars, estadoVars, historiaNodos, redVars
<1>1. ColaNueva /\ ColaNueva' /\ Espera'
  BY ColaNuevaStep, EsperaStep DEF IAltas
<1>2. ServidorOK /\ SocketsUsados
  BY DEF ServidorIInv
<1>3. ASSUME NEW s \in Sockets, Manejador(s) PROVE ~SinBajas'
  <2> DEFINE h(p) == [manejador[s] EXCEPT !.pc = "resta", !.nodo = p]
  <2>1. manejador \in [Sockets -> HiloNodo]
    BY <1>2 DEF ServidorOK
  <2>2. CASE NodoDesconectado(s)
    <3> DEFINE p == BuscarNodoPorSocket(s)
    <3>1. manejador'[s] = IF p = NINGUNO THEN h(p) ELSE Continua(h(p), 0, p)
      BY <2>1, <2>2 DEF NodoDesconectado
    <3> HIDE DEF p
    <3>2. manejador'[s].pc = "resta"
      BY <2>1, <3>1 DEF Continua, HiloNodo
    <3> QED
      BY <3>2 DEF SinBajas
  <2>3. CASE DeshabilitarBloque(s)
    <3>1. /\ manejador[s].pc = "resta"
          /\ manejador'[s] = Continua(manejador[s], manejador[s].bloque, manejador[s].nodo)
      BY <2>1, <2>3 DEF DeshabilitarBloque
    <3>2. manejador'[s].pc = "resta"
      BY <2>1, <3>1, ContinuaCuenta
    <3> QED
      BY <3>2 DEF SinBajas
  <2>4. CASE EliminarNodo(s)
    <3>1. manejador'[s].pc = "fin"
      BY <2>1, <2>4 DEF EliminarNodo, SinHilo
    <3> QED
      BY <3>1 DEF SinBajas
  <2> QED
    BY <1>3, <2>2, <2>3, <2>4 DEF Manejador
<1> SUFFICES ASSUME SinBajas' PROVE CuentaSolo' /\ PostsFundados'
  BY <1>1 DEF IAltas
<1>4. \A s \in Sockets : ~Manejador(s)
  BY <1>3
<1>5. CASE \E s \in Sockets : Aceptar(s)
  <2>1. PICK s \in Sockets : Aceptar(s)
    BY <1>5
  <2>2. manejador[s].pc = "no"
    <3>1. \E j \in DOMAIN cola : cola[j] = s
      BY <1>2, <2>1, LlegaCola DEF Aceptar
    <3> QED
      BY <1>1, <3>1 DEF ColaNueva
  <2>3. \A r \in Sockets \ {s} : manejador'[r] = manejador[r]
    BY <1>2, <2>1 DEF Aceptar, ServidorOK
  <2>4. PostsFundados
    BY <2>2, <2>3 DEF IAltas, SinBajas
  <2>5. servidor'.pc # "habilita"
    BY <2>1 DEF Aceptar, Parado
  <2>6. UNCHANGED <<cantInstancias, semaforo, nodoInit, nodos, principal>>
    BY <2>1 DEF Aceptar
  <2> QED
    BY <2>4, <2>5, <2>6, PostsIguales DEF CuentaSolo
<1> SUFFICES ASSUME \A s \in Sockets : ~Aceptar(s) PROVE CuentaSolo' /\ PostsFundados'
  BY <1>5
<1>6. manejador' = manejador
  BY <1>4 DEF ServidorNext, servidorVars, Servidor, Principal, MirarEstadoAnterior, EsperarNodo,
     CargarArchivo, EsperarBloque, Conectar, Caer, Rechazar, AgregarNuevo, AgregarAnterior,
     HabilitarBloque
<1>7. CuentaSolo /\ PostsFundados
  BY <1>6 DEF IAltas, SinBajas
<1>8. CASE UNCHANGED servidorVars
  <2>1. CuentaSolo'
    BY <1>7, <1>8 DEF servidorVars, CuentaSolo, NodoAceptado, Activos
  <2> QED
    BY <1>7, <1>8, <2>1, PostsIguales DEF servidorVars
<1>9. CASE \/ \E n \in Nodes, s \in Sockets : Conectar(n, s)
           \/ \E s \in Sockets : Caer(s) \/ Rechazar(s)
  <2>1. UNCHANGED <<principal, nodoInit, cantInstancias, semaforo, nodos, servidor>>
    BY <1>9 DEF Conectar, Caer, Rechazar
  <2>2. CuentaSolo'
    BY <1>2, <1>7, <1>9, <2>1, NodoAceptadoIgual DEF CuentaSolo, Activos
  <2> QED
    BY <1>7, <2>1, <2>2, PostsIguales
<1> QED
  BY <1>4, <1>7, <1>8, <1>9, PrincipalPosts, ServidorPosts, HabilitarBloquePosts
     DEF ServidorNext, Servidor

(* What the step that announces the stable state finds.                    *)
LEMMA EstableStep ==
    ServidorIInv /\ IAltas /\ [ServidorNext]_servidorVars =>
      [ (estadoEstable = 0 /\ estadoEstable' = 1 /\ \A s \in Sockets : conexion[s].estado # "cerrada")
          => IF vieneDeNoEstado = 1 THEN Cardinality(Activos) >= CantNodosEspera
             ELSE \A b \in IndicesDeBloque :
                    EstadoArchivo(Bloques[b].archivo) = 0 /\ \E n \in Activos : Holds(b, n)
      ]_servidorVars
<1> USE DEF tablaVars, estadoVars, historiaNodos, redVars
<1> SUFFICES ASSUME ServidorIInv, IAltas, [ServidorNext]_servidorVars, estadoEstable = 0, estadoEstable' = 1,
                    \A s \in Sockets : conexion[s].estado # "cerrada"
             PROVE  IF vieneDeNoEstado = 1 THEN Cardinality(Activos) >= CantNodosEspera
                    ELSE \A b \in IndicesDeBloque :
                           /\ EstadoArchivo(Bloques[b].archivo) = 0
                           /\ \E n \in Activos : Holds(b, n)
  OBVIOUS
<1>1. ServidorOK /\ manejador \in [Sockets -> HiloNodo] /\ principal.i \in Nat
  BY DEF ServidorIInv, ServidorOK, EstadoPrincipal
<1>2. SinBajas
  BY <1>1 DEF IAltas, ColaNueva, SinBajas, HiloNodo
<1>3. PostsFundados /\ Espera
  BY <1>2 DEF IAltas
<1>4. EsperarNodo \/ \E b \in IndicesDeBloque : EsperarBloque(b)
  BY DEF ServidorNext, Servidor, Manejador, Conectar, Caer, Rechazar, Aceptar, AgregarNuevo,
     AgregarAnterior, HabilitarBloque, NodoDesconectado, DeshabilitarBloque, EliminarNodo,
     servidorVars, Principal, MirarEstadoAnterior, CargarArchivo
<1>5. CASE EsperarNodo
  <2>1. principal.pc = "nodos" /\ nodoInit > 0 /\ principal.i + 1 = 2
    BY <1>5 DEF EsperarNodo, CantNodosEspera
  <2>2. vieneDeNoEstado = 1 /\ Cardinality(Activos) >= nodoInit + principal.i
    BY <1>3, <2>1 DEF Espera, PostsFundados
  <2>3. nodoInit \in Nat /\ Cardinality(Activos) \in Nat
    BY <1>1, ActivosFinito DEF ServidorOK
  <2>4. Cardinality(Activos) >= CantNodosEspera
    BY <1>1, <2>1, <2>2, <2>3 DEF CantNodosEspera
  <2> QED
    BY <2>2, <2>4
<1>6. ASSUME NEW c \in IndicesDeBloque, EsperarBloque(c)
      PROVE  /\ vieneDeNoEstado = 0
             /\ \A b \in IndicesDeBloque :
                   /\ EstadoArchivo(Bloques[b].archivo) = 0
                   /\ \E n \in Activos : Holds(b, n)
  <2>1. /\ principal.pc = "bloques" /\ principal.i = c /\ semaforo[c] > 0
        /\ c = Len(Bloques)
    BY <1>6 DEF EsperarBloque
  <2>2. vieneDeNoEstado = 0
    BY <1>3, <2>1 DEF Espera
  <2>3. ASSUME NEW b \in IndicesDeBloque PROVE cantInstancias[b] > 0
    <3>1. cantInstancias[b] >= semaforo[b] + Esperado(b)
      BY <1>3 DEF PostsFundados
    <3>2. semaforo[b] \in Nat /\ cantInstancias[b] \in Int /\ b \in Nat /\ b <= c
      <4>1. semaforo[b] \in Nat /\ cantInstancias[b] \in Int
        BY <1>1 DEF ServidorOK
      <4>2. b \in Nat /\ b <= c
        BY <2>1, Indexes
      <4> QED
        BY <4>1, <4>2
    <3>3. Esperado(b) = IF b < c THEN 1 ELSE 0
      BY <2>1 DEF Esperado
    <3>4. CASE b = c
      BY <2>1, <3>1, <3>2, <3>3, <3>4
    <3>5. CASE b # c
      <4>1. Esperado(b) = 1
        BY <3>2, <3>3, <3>5
      <4> QED
        BY <3>1, <3>2, <4>1
    <3> QED
      BY <3>4, <3>5
  <2>4. \A b \in IndicesDeBloque : \E n \in Activos : Holds(b, n)
    BY <1>3, <2>3 DEF PostsFundados
  <2>5. \A b \in tablaArchivos : cantInstancias[b] # 0
    <3>1. tablaArchivos \subseteq IndicesDeBloque /\ \A b \in IndicesDeBloque : cantInstancias[b] \in Int
      BY <1>1 DEF ServidorOK
    <3> QED
      BY <2>3, <3>1
  <2>6. \A g : EstadoArchivo(g) = 0
    BY <2>5 DEF EstadoArchivo
  <2> QED
    BY <2>2, <2>4, <2>6
<1> QED
  BY <1>4, <1>5, <1>6

(* The stable state is announced with the nodes that it waits for, or with *)
(* an instance and a connected node for every block of the earlier state,  *)
(* as long as no node left.                                                *)
THEOREM StableWithData == ServidorSpec => EstableConDatos
<1>1. ServidorInit => ServidorIInv /\ IAltas
  BY ServidorInitIInv, InitIAltas
<1>2. ServidorIInv /\ IAltas /\ [ServidorNext]_servidorVars => ServidorIInv' /\ IAltas'
  BY ServidorNextIInv, NextIAltas
<1> QED
  BY <1>1, <1>2, EstableStep, PTL DEF ServidorSpec, EstableConDatos
=============================================================================
