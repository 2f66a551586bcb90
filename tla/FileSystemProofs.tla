-------------------------- MODULE FileSystemProofs --------------------------
(***************************************************************************)
(* Proofs about FileSystem, for any number of nodes, blocks, files and     *)
(* threads: the types of every variable, that the two passes over a        *)
(* content agree, that the replicas of a file are apart whatever is        *)
(* reserved at the same time, and that the selection of nodes is complete; *)
(* with the console alone, what relates the counts, the bitmaps and        *)
(* nodos.bin to the files, where the data of each block is, what a read    *)
(* returns, and that a write is refused only without room.                 *)
(***************************************************************************)
EXTENDS FileSystem, SequenceTheorems, FiniteSetTheorems, FunctionTheorems, Recursion

(* The first pass over the lines, step by step.                            *)
Cuenta == [i : Nat, restante : Int]
(* What counting the first k lines gives, for every k: CountBlocks's pass, *)
(* line by line.                                                           *)
LEMMA ContarHasta ==
    ASSUME NEW lineas \in Seq(Nat)
    PROVE  \E h : /\ h \in [0 .. Len(lineas) -> Cuenta]
                  /\ h[0] = [i |-> 0, restante |-> TamanioBloque]
                  /\ \A k \in 1 .. Len(lineas) : h[k] = CountLine(h[k - 1], lineas[k])
                  /\ CountedLines(lineas) = h[Len(lineas)]
<1> DEFINE n == Len(lineas)
           a == [i |-> 0, restante |-> TamanioBloque]
           paso == [k \in 1 .. n |-> [v \in Cuenta |-> CountLine(v, lineas[k])]]
           Es(h) == h = [k \in 0 .. n |-> IF k = 0 THEN a ELSE CountLine(h[k - 1], lineas[k])]
<1>1. n \in Nat /\ a \in Cuenta
  BY FsBlocksAssumption DEF Cuenta
<1>2. ASSUME NEW k \in 1 .. n, NEW v \in Cuenta PROVE CountLine(v, lineas[k]) \in Cuenta
  <2> DEFINE d == lineas[k]
  <2>1. d \in Nat /\ v.i \in Nat /\ v.restante \in Int
    BY DEF Cuenta
  <2>2. [v EXCEPT !.restante = @ - d] \in Cuenta
    BY <2>1 DEF Cuenta
  <2>3. [i |-> v.i + 1, restante |-> TamanioBloque - d] \in Cuenta
    BY <2>1, FsBlocksAssumption DEF Cuenta
  <2> QED
    BY <2>2, <2>3 DEF CountLine
<1>3. paso \in [1 .. n -> [Cuenta -> Cuenta]]
  BY <1>2
<1>4. PICK g : /\ g \in [0 .. n -> Cuenta] /\ g[0] = a
               /\ \A k \in 1 .. n : g[k] = paso[k][g[k - 1]]
  <2> HIDE DEF paso, n, a
  <2>1. \E g : PorPasos(g, n, Cuenta, a, paso)
    BY <1>1, <1>3, Recursiva
  <2> QED
    BY <2>1 DEF PorPasos
<1>5. Es(g)
  <2>1. ASSUME NEW k \in 1 .. n PROVE g[k] = CountLine(g[k - 1], lineas[k])
    <3>1. k - 1 \in 0 .. n
      BY <1>1
    <3>2. g[k - 1] \in Cuenta
      BY <3>1, <1>4
    <3> QED
      BY <3>2, <1>4
  <2> HIDE DEF a
  <2>2. \A k \in 0 .. n : g[k] = IF k = 0 THEN a ELSE CountLine(g[k - 1], lineas[k])
    BY <1>1, <1>4, <2>1
  <2>3. g = [k \in 0 .. n |-> g[k]]
    BY <1>4
  <2> QED
    BY <2>2, <2>3
<1> DEFINE f == CHOOSE h : Es(h)
<1>6. Es(f)
  <2> HIDE DEF Es
  <2> QED
    BY <1>5
<1>7. CountedLines(lineas) = f[n]
  BY Zenon DEF CountedLines
<1>8. f[0] = a /\ \A k \in 1 .. n : f[k] = CountLine(f[k - 1], lineas[k])
  <2> HIDE DEF a, f
  <2> QED
    BY <1>1, <1>6
<1>9. f \in [0 .. n -> Cuenta]
  <2> DEFINE S == {k \in 0 .. n : f[k] \in Cuenta}
  <2> HIDE DEF f, a
  <2>1. 0 \in S
    BY <1>1, <1>8
  <2>2. ASSUME NEW k \in 0 .. n - 1, k \in S PROVE k + 1 \in S
    <3>1. k + 1 \in 1 .. n /\ k + 1 - 1 = k /\ k + 1 \in 0 .. n
      BY <1>1
    <3>2. f[k + 1] = CountLine(f[k], lineas[k + 1])
      BY <1>8, <3>1
    <3> QED
      BY <2>2, <3>1, <3>2, <1>2
  <2>3. \A k \in 0 .. n : k \in S
    <3> HIDE DEF S
    <3> QED
      BY <1>1, <2>1, <2>2, Hasta
  <2>4. f = [k \in 0 .. n |-> f[k]]
    BY <1>6
  <2> QED
    BY <2>3, <2>4
<1> QED
  <2> HIDE DEF f
  <2> QED
    BY <1>7, <1>8, <1>9

(* The second pass, step by step.                                          *)
Corte == [llenos : Seq(Nat), finBytes : Nat]
(* What cutting the first k lines gives, for every k: CutText's pass, line *)
(* by line.                                                                *)
LEMMA CortarHasta ==
    ASSUME NEW lineas \in Seq(Nat)
    PROVE  \E h : /\ h \in [0 .. Len(lineas) -> Corte]
                  /\ h[0] = [llenos |-> <<>>, finBytes |-> 0]
                  /\ \A k \in 1 .. Len(lineas) : h[k] = CutLine(h[k - 1], lineas[k])
                  /\ CutLines(lineas) = h[Len(lineas)]
<1> DEFINE n == Len(lineas)
           a == [llenos |-> <<>>, finBytes |-> 0]
           paso == [k \in 1 .. n |-> [v \in Corte |-> CutLine(v, lineas[k])]]
           Es(h) == h = [k \in 0 .. n |-> IF k = 0 THEN a ELSE CutLine(h[k - 1], lineas[k])]
<1>1. n \in Nat /\ a \in Corte
  BY FsBlocksAssumption DEF Corte
<1>2. ASSUME NEW k \in 1 .. n, NEW v \in Corte PROVE CutLine(v, lineas[k]) \in Corte
  <2> DEFINE d == lineas[k]
  <2>1. d \in Nat /\ v.llenos \in Seq(Nat) /\ v.finBytes \in Nat
    BY DEF Corte
  <2>2. [v EXCEPT !.finBytes = @ + d] \in Corte
    <3>1. v.finBytes + d \in Nat
      BY <2>1
    <3> HIDE DEF d
    <3> QED
      BY <3>1 DEF Corte
  <2>3. [llenos |-> Append(v.llenos, v.finBytes), finBytes |-> d] \in Corte
    BY <2>1 DEF Corte
  <2> QED
    BY <2>2, <2>3 DEF CutLine
<1>3. paso \in [1 .. n -> [Corte -> Corte]]
  BY <1>2
<1>4. PICK g : /\ g \in [0 .. n -> Corte] /\ g[0] = a
               /\ \A k \in 1 .. n : g[k] = paso[k][g[k - 1]]
  <2> HIDE DEF paso, n, a
  <2>1. \E g : PorPasos(g, n, Corte, a, paso)
    BY <1>1, <1>3, Recursiva
  <2> QED
    BY <2>1 DEF PorPasos
<1>5. Es(g)
  <2>1. ASSUME NEW k \in 1 .. n PROVE g[k] = CutLine(g[k - 1], lineas[k])
    <3>1. k - 1 \in 0 .. n
      BY <1>1
    <3>2. g[k - 1] \in Corte
      BY <3>1, <1>4
    <3> QED
      BY <3>2, <1>4
  <2> HIDE DEF a
  <2>2. \A k \in 0 .. n : g[k] = IF k = 0 THEN a ELSE CutLine(g[k - 1], lineas[k])
    BY <1>1, <1>4, <2>1
  <2>3. g = [k \in 0 .. n |-> g[k]]
    BY <1>4
  <2> QED
    BY <2>2, <2>3
<1> DEFINE f == CHOOSE h : Es(h)
<1>6. Es(f)
  <2> HIDE DEF Es
  <2> QED
    BY <1>5
<1>7. CutLines(lineas) = f[n]
  BY Zenon DEF CutLines
<1>8. f[0] = a /\ \A k \in 1 .. n : f[k] = CutLine(f[k - 1], lineas[k])
  <2> HIDE DEF a, f
  <2> QED
    BY <1>1, <1>6
<1>9. f \in [0 .. n -> Corte]
  <2> DEFINE S == {k \in 0 .. n : f[k] \in Corte}
  <2> HIDE DEF f, a
  <2>1. 0 \in S
    BY <1>1, <1>8
  <2>2. ASSUME NEW k \in 0 .. n - 1, k \in S PROVE k + 1 \in S
    <3>1. k + 1 \in 1 .. n /\ k + 1 - 1 = k /\ k + 1 \in 0 .. n
      BY <1>1
    <3>2. f[k + 1] = CutLine(f[k], lineas[k + 1])
      BY <1>8, <3>1
    <3> QED
      BY <2>2, <3>1, <3>2, <1>2
  <2>3. \A k \in 0 .. n : k \in S
    <3> HIDE DEF S
    <3> QED
      BY <1>1, <2>1, <2>2, Hasta
  <2>4. f = [k \in 0 .. n |-> f[k]]
    BY <1>6
  <2> QED
    BY <2>3, <2>4
<1> QED
  <2> HIDE DEF f
  <2> QED
    BY <1>7, <1>8, <1>9

(* Both passes agree: the count of the first is the number of blocks of    *)
(* the second, whatever the lines.                                         *)
LEMMA TextoEnBloques ==
    ASSUME NEW lineas \in Seq(Nat)
    PROVE  /\ CutText(lineas) \in Seq(Nat)
           /\ CountedLines(lineas).i \in Nat
           /\ Len(CutText(lineas)) = CountedLines(lineas).i + 1
<1> DEFINE n == Len(lineas)
<1>1. PICK p : /\ p \in [0 .. n -> Cuenta] /\ p[0] = [i |-> 0, restante |-> TamanioBloque]
               /\ \A k \in 1 .. n : p[k] = CountLine(p[k - 1], lineas[k])
               /\ CountedLines(lineas) = p[n]
  BY ContarHasta
<1>2. PICK q : /\ q \in [0 .. n -> Corte] /\ q[0] = [llenos |-> <<>>, finBytes |-> 0]
               /\ \A k \in 1 .. n : q[k] = CutLine(q[k - 1], lineas[k])
               /\ CutLines(lineas) = q[n]
  BY CortarHasta
<1> DEFINE Iguales(a, b) == a.i = Len(b.llenos) /\ a.restante = TamanioBloque - b.finBytes
           S == {k \in 0 .. n : Iguales(p[k], q[k])}
<1>3. n \in Nat
  OBVIOUS
<1>4. 0 \in S
  BY <1>1, <1>2, <1>3, FsBlocksAssumption
<1>5. ASSUME NEW k \in 0 .. n - 1, k \in S PROVE k + 1 \in S
  <2> DEFINE a == p[k]
             b == q[k]
             d == lineas[k + 1]
  <2>1. k + 1 \in 1 .. n /\ (k + 1) - 1 = k /\ k \in 0 .. n
    BY <1>3
  <2>2. a \in Cuenta /\ b \in Corte /\ d \in Nat /\ Iguales(a, b)
    <3>1. a \in Cuenta /\ b \in Corte
      BY <2>1, <1>1, <1>2
    <3>2. d \in Nat
      BY <2>1
    <3> QED
      BY <3>1, <3>2, <1>5
  <2>3. p[k + 1] = CountLine(a, d) /\ q[k + 1] = CutLine(b, d)
    BY <2>1, <1>1, <1>2
  <2> HIDE DEF a, b, d
  <2>4. a.i \in Nat /\ a.restante \in Int /\ b.llenos \in Seq(Nat) /\ b.finBytes \in Nat
    BY <2>2 DEF Cuenta, Corte
  <2>5. CASE d <= a.restante
    <3>1. CountLine(a, d) = [a EXCEPT !.restante = @ - d] /\ CutLine(b, d) = [b EXCEPT !.finBytes = @ + d]
      BY <2>2, <2>5 DEF CountLine, CutLine
    <3>2. /\ [a EXCEPT !.restante = @ - d].i = a.i
          /\ [a EXCEPT !.restante = @ - d].restante = a.restante - d
          /\ [b EXCEPT !.finBytes = @ + d].llenos = b.llenos
          /\ [b EXCEPT !.finBytes = @ + d].finBytes = b.finBytes + d
      BY <2>2 DEF Cuenta, Corte
    <3>3. Iguales(CountLine(a, d), CutLine(b, d))
      BY <3>1, <3>2, <2>2, <2>4, FsBlocksAssumption
    <3> QED
      BY <2>1, <2>3, <3>3
  <2>6. CASE ~(d <= a.restante)
    <3>1. /\ CountLine(a, d) = [i |-> a.i + 1, restante |-> TamanioBloque - d]
          /\ CutLine(b, d) = [llenos |-> Append(b.llenos, b.finBytes), finBytes |-> d]
      BY <2>2, <2>6 DEF CountLine, CutLine
    <3>2. Len(Append(b.llenos, b.finBytes)) = Len(b.llenos) + 1
      BY <2>4
    <3>3. Iguales(CountLine(a, d), CutLine(b, d))
      BY <3>1, <3>2, <2>2
    <3> QED
      BY <2>1, <2>3, <3>3
  <2> QED
    BY <2>5, <2>6
<1>6. n \in S
  <2>1. \A k \in 0 .. n : k \in S
    <3> HIDE DEF S
    <3> QED
      BY <1>3, <1>4, <1>5, Hasta
  <2> QED
    BY <2>1, <1>3
<1>7. CountedLines(lineas) \in Cuenta /\ CutLines(lineas) \in Corte
  BY <1>1, <1>2, <1>3
<1> QED
  BY <1>1, <1>2, <1>6, <1>7 DEF Cuenta, Corte, CutText

(* What is needed for a file is what it is cut into.                       *)
LEMMA BloquesDeArchivo ==
    ASSUME NEW f \in Paths
    PROVE  /\ BloquesContados[f] \in Nat
           /\ BloquesCortados[f] \in Seq(Nat)
           /\ Len(BloquesCortados[f]) = BloquesContados[f]
<1> DEFINE c == Contenido[f]
           m == BloquesBinario(c.resto)
<1>1. BloquesContados[f] = ObtenerBloquesNecesarios(c) /\ BloquesCortados[f] = BloquesDe(c)
  BY DEF BloquesContados, BloquesCortados
<1>2. CASE c.tipo = "TEXTO" /\ c.lineas \in Seq(Nat)
  <2>1. ObtenerBloquesNecesarios(c) = CountedLines(c.lineas).i + 1 /\ BloquesDe(c) = CutText(c.lineas)
    BY <1>2 DEF ObtenerBloquesNecesarios, BloquesDe
  <2> QED
    BY <1>1, <1>2, <2>1, TextoEnBloques
<1>3. CASE c.tipo = "BINARIO" /\ c.resto \in Nat
  <2>1. m \in Nat /\ \A i \in 1 .. m : c.resto - (i - 1) * TamanioBloque \in Nat
    BY <1>3, FsBlocksAssumption, Z3 DEF BloquesBinario
  <2>2. ObtenerBloquesNecesarios(c) = m /\ BloquesDe(c) = CutBinary(c.resto)
    BY <1>3 DEF ObtenerBloquesNecesarios, BloquesDe
  <2>3. CutBinary(c.resto) \in [1 .. m -> Nat]
    BY <2>1, FsBlocksAssumption DEF CutBinary
  <2> HIDE DEF m
  <2>4. CutBinary(c.resto) \in Seq(Nat) /\ Len(CutBinary(c.resto)) = m
    BY <2>1, <2>3
  <2> QED
    BY <1>1, <2>1, <2>2, <2>4
<1> QED
  BY <1>2, <1>3, FsWriteAssumption

-----------------------------------------------------------------------------
(* The selection of the nodes to read from.                                *)

(* FirstOf is the least element of a set of numbers.                       *)
LEMMA PrimeroEs ==
    ASSUME NEW S \in SUBSET Nat, S # {}
    PROVE  FirstOf(S) \in S /\ \A c \in S : FirstOf(S) <= c
<1>1. \E b \in S : \A c \in S : b <= c
  BY MenorNatural
<1> QED
  BY <1>1 DEF FirstOf

(* The parts of a block's entry in a file's metadata.                      *)
LEMMA BloqueEs ==
    ASSUME NEW x \in Bloques
    PROVE  /\ x.finBytes \in Nat
           /\ \A c \in 1 .. 2 : x.copias[c] \in Replica /\ x.copias[c].nodo \in Nodes
           /\ HoldersOf(x) = {x.copias[1].nodo, x.copias[2].nodo}
           /\ HoldersOf(x) \subseteq Nodes
<1>1. x.copias \in Replica \X Replica /\ x.finBytes \in Nat
  BY DEF Bloques
<1>2. x.copias[1] \in Replica /\ x.copias[2] \in Replica
  BY <1>1
<1>3. \A r \in Replica : r.nodo \in Nodes
  BY DEF Replica
<1>4. 1 .. 2 = {1, 2}
  OBVIOUS
<1> QED
  BY <1>1, <1>2, <1>3, <1>4 DEF HoldersOf

(* FirstMentioned names one of the holders it chooses among.               *)
LEMMA MencionadoEs ==
    ASSUME NEW bloques \in Seq(Bloques), NEW b \in DOMAIN bloques,
           NEW S \in SUBSET HoldersOf(bloques[b]), S # {}
    PROVE  FirstMentioned(bloques, S) \in S
<1> DEFINE M(n) == Mentions(bloques, n)
<1>1. Len(bloques) \in Nat /\ b \in 1 .. Len(bloques)
  OBVIOUS
<1>2. ASSUME NEW n \in S PROVE M(n) \in SUBSET Nat /\ M(n) # {}
  <2>1. PICK c \in 1 .. 2 : bloques[b].copias[c].nodo = n
    BY DEF HoldersOf
  <2> DEFINE k == 2 * b - 2 + c
  <2>2. k \in 1 .. 2 * Len(bloques) /\ (k + 1) \div 2 = b /\ 2 - (k % 2) = c
    <3>1. c = 1 \/ c = 2
      OBVIOUS
    <3> QED
      BY <1>1, <3>1, Z3
  <2> HIDE DEF k
  <2>3. k \in M(n)
    BY <2>1, <2>2 DEF Mentions
  <2>4. M(n) \in SUBSET Nat
    BY <1>1 DEF Mentions
  <2> QED
    BY <2>3, <2>4
<1> DEFINE F == {FirstOf(M(n)) : n \in S}
<1>3. \A n \in S : FirstOf(M(n)) \in Nat
  <2> HIDE DEF M
  <2> QED
    BY <1>2, PrimeroEs
<1>4. F \in SUBSET Nat /\ F # {}
  BY <1>3
<1>5. PICK x \in F : \A y \in F : x <= y
  <2> HIDE DEF F
  <2> QED
    BY <1>4, MenorNatural
<1>6. \E n \in S : \A m \in S : FirstOf(M(n)) <= FirstOf(M(m))
  BY <1>5
<1> QED
  BY <1>6 DEF FirstMentioned

(* Where the selection is after some iterations.                           *)
Seleccion == [sel : Seq(Nodes), enUso : SUBSET Nodes]

(* What an iteration does: nothing is left to do, every usable node is in  *)
(* use, or one of them is taken.                                           *)
Sigue(bloques, exc, v, w) ==
    \/ Len(v.sel) = Len(bloques) /\ w = v
    \/ /\ Len(v.sel) < Len(bloques)
       /\ HoldersOf(bloques[Len(v.sel) + 1]) \subseteq exc \cup v.enUso
       /\ w \in Seleccion /\ w.sel = v.sel /\ w.enUso = {}
    \/ /\ Len(v.sel) < Len(bloques) /\ w \in Seleccion
       /\ \E n \in HoldersOf(bloques[Len(v.sel) + 1]) \ exc : w.sel = Append(v.sel, n)

(* One iteration of ObtenerNodosALeer: done, reset or one more node.       *)
LEMMA IteracionEs ==
    ASSUME NEW bloques \in Seq(Bloques), NEW exc, NEW v \in Seleccion,
           Len(v.sel) <= Len(bloques)
    PROVE  Sigue(bloques, exc, v, SelectIteration(bloques, exc, v))
<1> DEFINE w == SelectIteration(bloques, exc, v)
           b == Len(v.sel) + 1
           usable == HoldersOf(bloques[b]) \ (exc \cup v.enUso)
<1>1. v.sel \in Seq(Nodes) /\ v.enUso \in SUBSET Nodes /\ Len(v.sel) \in Nat /\ Len(bloques) \in Nat
  BY DEF Seleccion
<1>2. CASE Len(v.sel) = Len(bloques)
  BY <1>2 DEF SelectIteration, Sigue
<1>3. CASE Len(v.sel) # Len(bloques) /\ usable = {}
  <2>1. w = [v EXCEPT !.enUso = {}]
    BY <1>3, Zenon DEF SelectIteration
  <2>2. w \in Seleccion /\ w.sel = v.sel /\ w.enUso = {}
    BY <2>1 DEF Seleccion
  <2>3. Len(v.sel) < Len(bloques) /\ HoldersOf(bloques[b]) \subseteq exc \cup v.enUso
    BY <1>1, <1>3
  <2> HIDE DEF w
  <2>9. Sigue(bloques, exc, v, w)
    BY <1>1, <2>2, <2>3 DEF Sigue
  <2> QED
    BY <2>9 DEF w
<1>4. CASE Len(v.sel) # Len(bloques) /\ usable # {}
  <2> DEFINE n == FirstMentioned(bloques, usable)
  <2>1. b \in DOMAIN bloques /\ Len(v.sel) < Len(bloques)
    BY <1>1, <1>4
  <2>2. n \in usable
    <3>1. usable \in SUBSET HoldersOf(bloques[b])
      OBVIOUS
    <3> HIDE DEF usable, b
    <3> QED
      BY <1>4, <2>1, <3>1, MencionadoEs
  <2>3. w = [sel |-> Append(v.sel, n), enUso |-> v.enUso \cup {n}]
    BY <1>4, Zenon DEF SelectIteration
  <2> HIDE DEF n
  <2>4. bloques[b] \in Bloques
    BY <2>1
  <2>5. n \in Nodes
    BY <2>2, <2>4, BloqueEs
  <2>6. w \in Seleccion /\ w.sel = Append(v.sel, n)
    BY <1>1, <2>3, <2>5 DEF Seleccion
  <2>7. n \in HoldersOf(bloques[b]) \ exc
    BY <2>2
  <2> HIDE DEF w
  <2>9. Sigue(bloques, exc, v, w)
    BY <1>1, <2>1, <2>6, <2>7 DEF Sigue
  <2> QED
    BY <2>9 DEF w
<1> QED
  BY <1>1, <1>2, <1>3, <1>4

(* A selection goes on until it has a node for every block, or a block     *)
(* whose nodes are all excluded stops it.                                  *)
LEMMA SeleccionHasta ==
    ASSUME NEW bloques \in Seq(Bloques), NEW exc
    PROVE  \E h : /\ h \in [0 .. MaxIteraciones(bloques) -> Seleccion]
                  /\ h[0] = [sel |-> <<>>, enUso |-> {}]
                  /\ \A k \in 1 .. MaxIteraciones(bloques) :
                        /\ Len(h[k - 1].sel) <= Len(bloques)
                        /\ h[k] = SelectIteration(bloques, exc, h[k - 1])
                  /\ Len(h[MaxIteraciones(bloques)].sel) <= Len(bloques)
                  /\ Selection(bloques, exc) = h[MaxIteraciones(bloques)].sel
<1> DEFINE n == MaxIteraciones(bloques)
           V == {v \in Seleccion : Len(v.sel) <= Len(bloques)}
           a == [sel |-> <<>>, enUso |-> {}]
           It(v) == SelectIteration(bloques, exc, v)
           paso == [k \in 1 .. n |-> [v \in V |-> It(v)]]
           Es(h) == h = [k \in 0 .. n |-> IF k = 0 THEN a ELSE It(h[k - 1])]
<1>1. n \in Nat /\ Len(bloques) \in Nat
  BY DEF MaxIteraciones
<1>2. a \in V
  BY <1>1 DEF Seleccion
<1>3. ASSUME NEW v \in V PROVE It(v) \in V
  <2> DEFINE w == It(v)
  <2>1. v \in Seleccion /\ Len(v.sel) <= Len(bloques) /\ v.sel \in Seq(Nodes)
    BY DEF Seleccion
  <2>2. Sigue(bloques, exc, v, w)
    <3> HIDE DEF V
    <3> QED
      BY <2>1, IteracionEs
  <2>3. \A m : Len(v.sel) < Len(bloques) => Len(Append(v.sel, m)) <= Len(bloques)
    BY <2>1, <1>1
  <2> HIDE DEF w
  <2>4. w \in V
    BY <2>1, <2>2, <2>3 DEF Sigue
  <2> QED
    BY <2>4 DEF w
<1>4. paso \in [1 .. n -> [V -> V]]
  BY <1>3
<1>5. PICK g : g \in [0 .. n -> V] /\ g[0] = a /\ \A k \in 1 .. n : g[k] = paso[k][g[k - 1]]
  <2> HIDE DEF paso, n, V, a
  <2>1. \E g : PorPasos(g, n, V, a, paso)
    BY <1>1, <1>2, <1>4, Recursiva
  <2> QED
    BY <2>1 DEF PorPasos
<1> HIDE DEF V, a, It
<1>6. Es(g)
  <2>1. ASSUME NEW k \in 1 .. n PROVE g[k] = It(g[k - 1])
    <3>1. k - 1 \in 0 .. n
      BY <1>1
    <3>2. g[k - 1] \in V
      BY <3>1, <1>5
    <3> QED
      BY <3>2, <1>5
  <2>2. \A k \in 0 .. n : g[k] = IF k = 0 THEN a ELSE It(g[k - 1])
    BY <1>1, <1>5, <2>1
  <2>3. g = [k \in 0 .. n |-> g[k]]
    BY <1>5
  <2> QED
    BY <2>2, <2>3
<1> DEFINE f == CHOOSE h : Es(h)
<1>7. Es(f)
  <2> HIDE DEF Es
  <2> QED
    BY <1>6
<1>8. Selection(bloques, exc) = f[n].sel
  BY Zenon DEF Selection, It, a
<1> HIDE DEF f
<1>9. f[0] = a /\ \A k \in 1 .. n : f[k] = It(f[k - 1])
  BY <1>1, <1>7
<1>10. f \in [0 .. n -> V]
  <2> DEFINE S == {k \in 0 .. n : f[k] \in V}
  <2>1. 0 \in S
    BY <1>1, <1>2, <1>9
  <2>2. ASSUME NEW k \in 0 .. n - 1, k \in S PROVE k + 1 \in S
    <3>1. k + 1 \in 1 .. n /\ k + 1 - 1 = k /\ k + 1 \in 0 .. n
      BY <1>1
    <3>2. f[k + 1] = It(f[k])
      BY <1>9, <3>1
    <3> QED
      BY <2>2, <3>1, <3>2, <1>3
  <2>3. \A k \in 0 .. n : k \in S
    <3> HIDE DEF S
    <3> QED
      BY <1>1, <2>1, <2>2, Hasta
  <2>4. f = [k \in 0 .. n |-> f[k]]
    BY <1>7
  <2> QED
    BY <2>3, <2>4
<1>11. \A k \in 0 .. n : f[k] \in Seleccion /\ Len(f[k].sel) <= Len(bloques)
  BY <1>10 DEF V
<1>12. \A k \in 1 .. n : k - 1 \in 0 .. n
  BY <1>1
<1>13. f \in [0 .. n -> Seleccion]
  BY <1>10, <1>11
<1>14. 0 \in 0 .. n /\ n \in 0 .. n
  BY <1>1
<1> HIDE DEF n
<1>15. /\ f[0] = [sel |-> <<>>, enUso |-> {}]
       /\ \A k \in 1 .. n : Len(f[k - 1].sel) <= Len(bloques) /\ f[k] = SelectIteration(bloques, exc, f[k - 1])
       /\ Len(f[n].sel) <= Len(bloques) /\ Selection(bloques, exc) = f[n].sel
  BY <1>8, <1>9, <1>11, <1>12, <1>14 DEF a, It
<1> QED
  BY <1>13, <1>15 DEF n

(* Every iteration brings the selection nearer to its end, unless a block  *)
(* has no replica left: 2 * L iterations are enough for L blocks, and every *)
(* node that was taken holds its block and is not excluded.                *)
LEMMA SeleccionCompleta ==
    ASSUME NEW bloques \in Seq(Bloques), NEW exc
    PROVE  /\ ObtenerNodosALeer(bloques, exc) = {}
                <=> \E b \in DOMAIN bloques : HoldersOf(bloques[b]) \subseteq exc
           /\ \A sel \in ObtenerNodosALeer(bloques, exc) :
                /\ sel \in Seq(Nodes) /\ Len(sel) = Len(bloques)
                /\ \A b \in DOMAIN bloques : sel[b] \in HoldersOf(bloques[b]) \ exc
<1> DEFINE n == MaxIteraciones(bloques)
           L == Len(bloques)
           Perdido == \E b \in DOMAIN bloques : HoldersOf(bloques[b]) \subseteq exc
           Elegidos(v) == \A j \in 1 .. Len(v.sel) : v.sel[j] \in HoldersOf(bloques[j]) \ exc
           Extra(v) == IF v.enUso = {} THEN 1 ELSE 0
           Avance(v) == 2 * Len(v.sel) + Extra(v)
           Va(k, v) == Elegidos(v) /\ (Len(v.sel) = L \/ Perdido \/ Avance(v) >= k)
<1>1. L \in Nat /\ n = 2 * L /\ n \in Nat /\ DOMAIN bloques = 1 .. L
  BY DEF MaxIteraciones
<1>2. PICK h : /\ h \in [0 .. n -> Seleccion]
               /\ h[0] = [sel |-> <<>>, enUso |-> {}]
               /\ \A k \in 1 .. n : Len(h[k - 1].sel) <= L
                                    /\ h[k] = SelectIteration(bloques, exc, h[k - 1])
               /\ Len(h[n].sel) <= L
               /\ Selection(bloques, exc) = h[n].sel
  BY SeleccionHasta
<1> DEFINE S == {k \in 0 .. n : Va(k, h[k])}
<1>3. 0 \in S
  <2>1. Len(h[0].sel) = 0 /\ h[0].enUso = {}
    BY <1>2
  <2>2. Elegidos(h[0]) /\ Avance(h[0]) >= 0
    BY <2>1
  <2>3. Va(0, h[0])
    BY <2>2
  <2> HIDE DEF Va
  <2> QED
    BY <1>1, <2>3
<1>4. ASSUME NEW k \in 0 .. n - 1, k \in S PROVE k + 1 \in S
  <2> DEFINE v == h[k]
             w == h[k + 1]
             m == Len(v.sel)
  <2>1. k + 1 \in 1 .. n /\ (k + 1) - 1 = k /\ k \in 0 .. n /\ k + 1 \in 0 .. n /\ k \in Nat
    BY <1>1
  <2>2. v \in Seleccion /\ m <= L /\ Va(k, v)
    BY <2>1, <1>2, <1>4
  <2>3. v.sel \in Seq(Nodes) /\ m \in Nat
    BY <2>2 DEF Seleccion
  <2>4. Sigue(bloques, exc, v, w)
    <3>1. w = SelectIteration(bloques, exc, v)
      BY <2>1, <1>2
    <3>2. v \in Seleccion /\ Len(v.sel) <= Len(bloques)
      BY <2>2
    <3> HIDE DEF v, w
    <3> QED
      BY <3>1, <3>2, IteracionEs
  <2> HIDE DEF v, w
  <2>5. CASE m = L /\ w = v
    BY <2>1, <2>2, <2>5 DEF w
  <2>6. CASE /\ m < L /\ HoldersOf(bloques[m + 1]) \subseteq exc \cup v.enUso
             /\ w \in Seleccion /\ w.sel = v.sel /\ w.enUso = {}
    <3>1. m + 1 \in DOMAIN bloques
      BY <1>1, <2>3, <2>6
    <3>2. Perdido \/ v.enUso # {}
      BY <3>1, <2>6
    <3>3. Avance(w) = 2 * m + 1
      BY <2>6
    <3>4. Perdido \/ Avance(w) >= k + 1
      <4>1. v.enUso # {} => Extra(v) = 0
        OBVIOUS
      <4> HIDE DEF Extra
      <4>2. v.enUso # {} => Avance(v) = 2 * m
        BY <2>3, <4>1
      <4> HIDE DEF Perdido, Avance, Elegidos
      <4> QED
        BY <4>2, <3>2, <3>3, <2>1, <2>2, <2>3, <2>6
    <3>5. Elegidos(w)
      BY <2>2, <2>6
    <3>6. Va(k + 1, w)
      BY <3>4, <3>5
    <3> QED
      BY <3>6, <2>1 DEF w
  <2>7. CASE /\ m < L /\ w \in Seleccion
             /\ \E p \in HoldersOf(bloques[m + 1]) \ exc : w.sel = Append(v.sel, p)
    <3>1. PICK p \in HoldersOf(bloques[m + 1]) \ exc : w.sel = Append(v.sel, p)
      BY <2>7
    <3>2. /\ Len(w.sel) = m + 1 /\ w.sel[m + 1] = p
          /\ \A j \in 1 .. m : w.sel[j] = v.sel[j]
      BY <3>1, <2>3
    <3>3. Elegidos(w)
      BY <3>1, <3>2, <2>2, <2>3
    <3>4. Perdido \/ Avance(w) >= k + 1
      <4>0. Extra(v) \in 0 .. 1 /\ Extra(w) \in 0 .. 1
        OBVIOUS
      <4> HIDE DEF Extra
      <4>1. Avance(v) <= 2 * m + 1 /\ Avance(w) >= 2 * (m + 1)
        BY <4>0, <3>2, <2>3
      <4>2. Avance(v) \in Int /\ Avance(w) \in Int
        BY <4>0, <3>2, <2>3
      <4> HIDE DEF Perdido, Avance, Elegidos
      <4> QED
        BY <4>1, <4>2, <2>1, <2>2, <2>3, <2>7
    <3>5. Va(k + 1, w)
      BY <3>3, <3>4
    <3> QED
      BY <3>5, <2>1 DEF w
  <2> QED
    BY <2>4, <2>5, <2>6, <2>7 DEF Sigue
<1>5. Va(n, h[n])
  <2>1. \A k \in 0 .. n : k \in S
    <3> HIDE DEF S
    <3> QED
      BY <1>1, <1>3, <1>4, Hasta
  <2>2. n \in S
    <3> HIDE DEF S
    <3> QED
      BY <2>1, <1>1
  <2> HIDE DEF Va
  <2> QED
    BY <2>2
<1> DEFINE sel == Selection(bloques, exc)
<1>6. sel \in Seq(Nodes) /\ Len(sel) \in Nat
  BY <1>1, <1>2 DEF Seleccion
<1>7. \A j \in 1 .. Len(sel) : sel[j] \in HoldersOf(bloques[j]) \ exc
  BY <1>2, <1>5
<1>8. Len(sel) = L \/ Perdido
  <2>1. Len(sel) = L \/ Perdido \/ 2 * Len(sel) + 1 >= n
    <3>1. Avance(h[n]) <= 2 * Len(sel) + 1 /\ Avance(h[n]) \in Int
      BY <1>2, <1>6
    <3>2. Len(h[n].sel) = L \/ Perdido \/ Avance(h[n]) >= n
      BY <1>5
    <3> HIDE DEF Perdido, Avance, sel
    <3> QED
      BY <3>1, <3>2, <1>1, <1>2, <1>6 DEF sel
  <2> HIDE DEF sel, Perdido
  <2> QED
    BY <2>1, <1>1, <1>2, <1>6 DEF sel
<1>9. Perdido => Len(sel) # L
  BY <1>1, <1>7
<1>10. ObtenerNodosALeer(bloques, exc) = IF Len(sel) = L THEN {sel} ELSE {}
  <2> HIDE DEF sel
  <2> QED
    BY DEF ObtenerNodosALeer, sel
<1> QED
  <2> HIDE DEF sel
  <2> QED
    BY <1>1, <1>6, <1>7, <1>8, <1>9, <1>10

-----------------------------------------------------------------------------
(* The invariant of the threads, any number of them.                       *)

(* No block is reserved twice, and a copy is not on the node of its        *)
(* original, the replica before it.                                        *)
Separadas(res) ==
    \A k \in DOMAIN res : k % 2 = 0 => res[k].nodo # res[k - 1].nodo

(* What a writing thread has reserved.  A turn that reserved nothing       *)
(* leaves the reservation behind j for good, and it will be rolled back.   *)
ReservaBien(x) ==
    /\ x.pc \notin Escribiendo => x.res = <<>>
    /\ x.pc \in Escribiendo => x.path \in Paths /\ IsInjective(x.res)
    /\ x.pc = "reserva" =>
          /\ x.i = 1 /\ Len(x.res) <= x.j /\ x.j <= 2 * BloquesContados[x.path]
          /\ Len(x.res) = x.j => Separadas(x.res) /\ (x.j > 0 => x.anterior = x.res[x.j].nodo)
    /\ x.pc \in Escribiendo \ {"reserva"} =>
          /\ BloquesContados[x.path] > 0 /\ Len(x.res) = 2 * BloquesContados[x.path]
          /\ Separadas(x.res)
    /\ x.pc \in {"escribe", "espera", "guarda"} => x.i \in 1 .. 2 * BloquesContados[x.path]
    /\ x.pc = "guarda" => x.cfg \in Config

LiberaBien(x) ==
    /\ x.pc \notin Liberando => x.libera = <<>>
    /\ x.pc \in Liberando => x.i \in DOMAIN x.libera
    /\ x.pc = "guardaLibre" => x.cfg \in Config

Bien(x) == x \in LocalesDeHilo /\ ReservaBien(x) /\ LiberaBien(x)

(* What a reading thread and the list it reads into have in common.        *)
LecturaBien(x, l) ==
    /\ x.pc \in Leyendo => Len(x.info) > 0
    /\ x.pc \in Leyendo \ {"elige"} =>
         /\ l \in Seq(Lecturas) /\ Len(x.sel) = Len(x.info)
         /\ \A k \in DOMAIN x.sel : x.sel[k] \in HoldersOf(x.info[k])
         /\ \A k \in DOMAIN l : l[k].nroBloque = k
         /\ \A k \in DOMAIN l : k <= Len(x.sel) /\ l[k].idNodo = x.sel[k]
         /\ IF x.pc = "prepara" THEN Len(l) < Len(x.sel) ELSE Len(l) = Len(x.sel)
    /\ x.pc \in {"pide", "aguarda"} => x.i \in DOMAIN x.sel

(* The replicas of a file are blocks of their own, on two nodes each.      *)
Aparte(info) ==
    /\ \A b \in DOMAIN info : info[b].copias[1].nodo # info[b].copias[2].nodo
    /\ \A b, c \in DOMAIN info : \A x, y \in 1 .. 2 :
          info[b].copias[x] = info[c].copias[y] => b = c /\ x = y

HilosBien ==
    \A t \in Hilos :
        /\ ReservaBien(hilo[t]) /\ LiberaBien(hilo[t]) /\ LecturaBien(hilo[t], lista)
        /\ hilo[t].pc \in Leyendo => t = Consola

ArchivosBien ==
    \A f \in Paths : archivos[f] # NULL =>
        /\ Len(archivos[f].bloques) = BloquesContados[f] /\ BloquesContados[f] > 0
        /\ Aparte(archivos[f].bloques)

Inv == TypeOK /\ HilosBien /\ ArchivosBien

-----------------------------------------------------------------------------
(* The local variables of a thread, step by step.                          *)

Resultados == {"NADA", "OK", "ARCHIVO_EXISTENTE", "SIN_ESPACIO", "SIN_CONTENIDO_ESCRIBIR",
               "NO_EXISTE", "ELIMINADO", "NODO_DESCONECTADO", "LEIDO"}

(* A thread with no command is well formed.                                *)
LEMMA LibreBien ==
    ASSUME NEW r \in Resultados
    PROVE  /\ Bien(Idle(r)) /\ Idle(r).pc = "libre"
           /\ \A l : LecturaBien(Idle(r), l)
<1>1. Idle(r) \in LocalesDeHilo
  BY DEF Idle, LocalesDeHilo, Resultados
<1>2. Idle(r).pc = "libre" /\ Idle(r).res = <<>> /\ Idle(r).libera = <<>>
  BY DEF Idle
<1> HIDE DEF Idle
<1> QED
  BY <1>1, <1>2 DEF Bien, ReservaBien, LiberaBien, LecturaBien, Escribiendo, Liberando, Leyendo

(* A thread that begins to write is well formed.                           *)
LEMMA EmpiezaBien ==
    ASSUME NEW f \in Paths, NEW A \in SUBSET Nodes
    PROVE  Bien([Idle("NADA") EXCEPT !.pc = "reserva", !.path = f, !.activos = A])
<1> DEFINE y == [Idle("NADA") EXCEPT !.pc = "reserva", !.path = f, !.activos = A]
<1>1. Idle("NADA") \in LocalesDeHilo
  BY LibreBien DEF Bien, Resultados
<1>2. y \in LocalesDeHilo
  BY <1>1 DEF LocalesDeHilo, Escribiendo
<1>3. y.pc = "reserva" /\ y.path = f /\ y.res = <<>> /\ y.libera = <<>> /\ y.j = 0 /\ y.i = 1
  BY DEF Idle
<1>4. BloquesContados[f] \in Nat
  BY BloquesDeArchivo
<1> HIDE DEF y
<1>5. Bien(y)
  BY <1>2, <1>3, <1>4 DEF Bien, ReservaBien, LiberaBien, Escribiendo, Liberando, IsInjective, Separadas
<1> QED
  BY <1>5 DEF y

(* What the record of a thread says of its fields.                         *)
LEMMA CamposDeHilo ==
    ASSUME NEW x \in LocalesDeHilo
    PROVE  /\ x.res \in Seq(Replica) /\ x.libera \in Seq(Replica)
           /\ x.info \in Seq(Bloques) /\ x.sel \in Seq(Nodes)
           /\ x.j \in Nat /\ x.i \in Nat \ {0}
           /\ x.activos \in SUBSET Nodes /\ x.exc \in SUBSET Nodes
           /\ x.path \in Paths \cup {NULL} /\ x.cfg \in Config \cup {NULL}
           /\ x.anterior \in Nodes \cup {NULL}
BY DEF LocalesDeHilo

(* Reserving one more replica keeps a writer well formed: the only step    *)
(* where its replicas grow.                                                *)
LEMMA ReservarBien ==
    ASSUME NEW x, Bien(x), x.pc = "reserva", x.j < 2 * BloquesContados[x.path],
           NEW n \in Nodes, NEW b \in BlocksOf(n), ~Contains(x.res, Reserved(n, b)),
           ~(x.anterior = n /\ IsCopy(x.j))
    PROVE  Bien([x EXCEPT !.res = Append(@, Reserved(n, b)), !.j = @ + 1,
                          !.anterior = n, !.saltear = 0])
<1> DEFINE r == Reserved(n, b)
           y == [x EXCEPT !.res = Append(@, r), !.j = @ + 1, !.anterior = n, !.saltear = 0]
<1>1. x \in LocalesDeHilo /\ ReservaBien(x) /\ LiberaBien(x)
  BY DEF Bien
<1>2. /\ x.res \in Seq(Replica) /\ x.j \in Nat /\ Len(x.res) \in Nat
      /\ x.path \in Paths /\ IsInjective(x.res)
      /\ x.i = 1 /\ Len(x.res) <= x.j /\ x.libera = <<>> /\ BloquesContados[x.path] \in Nat
      /\ Len(x.res) = x.j => Separadas(x.res) /\ (x.j > 0 => x.anterior = x.res[x.j].nodo)
  BY <1>1, CamposDeHilo, BloquesDeArchivo DEF ReservaBien, LiberaBien, Escribiendo, Liberando
<1>3. r \in Replica /\ r.nodo = n
  <2>1. r.nodo = n /\ r.bloque = b /\ b \in Nat
    BY DataNodeAssumption DEF Reserved, BlocksOf
  <2>2. r \in [nodo : Nodes, bloque : Nat]
    BY <2>1 DEF Reserved
  <2> QED
    BY <2>1, <2>2 DEF Replica
<1> HIDE DEF r
<1>4. y \in LocalesDeHilo
  <2> DEFINE s == Append(x.res, r)
             j == x.j + 1
  <2>1. s \in Seq(Replica) /\ j \in Nat /\ 0 \in 0 .. 1
    BY <1>2, <1>3
  <2> HIDE DEF s, j
  <2>2. [x EXCEPT !.res = s, !.j = j, !.anterior = n, !.saltear = 0] \in LocalesDeHilo
    BY <1>1, <2>1 DEF LocalesDeHilo
  <2> QED
    BY <2>2 DEF s, j
<1>5. /\ y.pc = "reserva" /\ y.path = x.path /\ y.res = Append(x.res, r)
      /\ y.j = x.j + 1 /\ y.anterior = n /\ y.libera = <<>> /\ y.i = 1
  BY <1>1, <1>2 DEF LocalesDeHilo
<1> DEFINE s == Append(x.res, r)
           len == Len(x.res)
<1>6. /\ Len(s) = len + 1 /\ DOMAIN s = 1 .. len + 1 /\ s[len + 1] = r
      /\ \A k \in 1 .. len : s[k] = x.res[k] /\ s[k] # r
  BY <1>2, <1>3 DEF Contains, r
<1>7. IsInjective(s)
  BY <1>2, <1>6 DEF IsInjective
<1>8. len = x.j => Separadas(s) /\ n = s[x.j + 1].nodo
  <2>1. ASSUME len = x.j, NEW k \in 1 .. len + 1, k % 2 = 0 PROVE s[k].nodo # s[k - 1].nodo
    <3>1. CASE k \in 1 .. len
      <4>1. k - 1 \in 1 .. len
        BY <2>1, <3>1, <1>2
      <4>2. x.res[k].nodo # x.res[k - 1].nodo
        <5>1. k \in DOMAIN x.res /\ Separadas(x.res)
          BY <2>1, <3>1, <1>2
        <5> QED
          BY <2>1, <5>1 DEF Separadas
      <4> QED
        BY <3>1, <4>1, <4>2, <1>6, <1>2
    <3>2. CASE k = len + 1
      <4>1. x.j % 2 = 1 /\ x.j > 0
        BY <2>1, <3>2, <1>2
      <4>2. x.anterior # n /\ x.anterior = x.res[x.j].nodo
        BY <4>1, <2>1, <1>2 DEF IsCopy
      <4>3. s[k] = r /\ s[k - 1] = x.res[x.j]
        BY <3>2, <4>1, <2>1, <1>2, <1>6
      <4> QED
        BY <4>2, <4>3, <1>3
    <3>3. k \in 1 .. len \/ k = len + 1
      BY <1>2
    <3> QED
      BY <3>1, <3>2, <3>3
  <2>2. len = x.j => n = s[x.j + 1].nodo
    BY <1>3, <1>6
  <2> QED
    BY <2>1, <2>2, <1>6 DEF Separadas
<1> HIDE DEF y, s, len
<1>9. ReservaBien(y) /\ LiberaBien(y)
  BY <1>2, <1>5, <1>6, <1>7, <1>8 DEF ReservaBien, LiberaBien, Escribiendo, Liberando, s, len
<1> QED
  BY <1>4, <1>9 DEF Bien, y, r

(* A turn that reserves nothing: the next node is tried, or the replica is *)
(* given up, or every one that is left.                                    *)
LEMMA TurnoBien ==
    ASSUME NEW x, Bien(x), x.pc = "reserva", x.j < 2 * BloquesContados[x.path]
    PROVE  /\ Bien([x EXCEPT !.saltear = 0])
           /\ Bien([x EXCEPT !.saltear = 1])
           /\ Bien([x EXCEPT !.j = @ + 1, !.saltear = 0])
           /\ Bien([x EXCEPT !.j = 2 * BloquesContados[x.path]])
<1>1. x \in LocalesDeHilo /\ ReservaBien(x) /\ LiberaBien(x)
  BY DEF Bien
<1>2. /\ x.res \in Seq(Replica) /\ x.j \in Nat /\ Len(x.res) \in Nat
      /\ x.path \in Paths /\ IsInjective(x.res)
      /\ x.i = 1 /\ Len(x.res) <= x.j /\ x.libera = <<>> /\ BloquesContados[x.path] \in Nat
      /\ Len(x.res) = x.j => Separadas(x.res) /\ (x.j > 0 => x.anterior = x.res[x.j].nodo)
  BY <1>1, CamposDeHilo, BloquesDeArchivo DEF ReservaBien, LiberaBien, Escribiendo, Liberando
<1> DEFINE k == 2 * BloquesContados[x.path]
<1>3. ASSUME NEW s \in 0 .. 1, NEW j \in Nat, x.j <= j, j <= k
      PROVE  Bien([x EXCEPT !.j = j, !.saltear = s])
  <2> DEFINE y == [x EXCEPT !.j = j, !.saltear = s]
  <2>1. y \in LocalesDeHilo
    BY <1>1, <1>3 DEF LocalesDeHilo
  <2>2. /\ y.pc = "reserva" /\ y.path = x.path /\ y.res = x.res /\ y.j = j
        /\ y.anterior = x.anterior /\ y.libera = <<>> /\ y.i = 1
    BY <1>1, <1>2, <1>3 DEF LocalesDeHilo
  <2> HIDE DEF y
  <2>3. Len(y.res) = y.j => y.j = x.j
    BY <1>2, <1>3, <2>2
  <2>4. ReservaBien(y) /\ LiberaBien(y)
    BY <1>2, <1>3, <2>2, <2>3 DEF k, ReservaBien, LiberaBien, Escribiendo, Liberando
  <2>5. Bien(y)
    BY <2>1, <2>4 DEF Bien
  <2> QED
    BY <2>5 DEF y
<1>4. /\ x.saltear \in 0 .. 1 /\ x.j \in Nat /\ x = [x EXCEPT !.j = x.j]
      /\ x = [x EXCEPT !.saltear = x.saltear]
  BY <1>1 DEF LocalesDeHilo
<1>5. k \in Nat /\ x.j <= k /\ x.j + 1 \in Nat /\ x.j + 1 <= k /\ x.j <= x.j + 1
  BY <1>2
<1> HIDE DEF k
<1>6. \A s \in 0 .. 1 : Bien([x EXCEPT !.saltear = s])
  <2>1. ASSUME NEW s \in 0 .. 1 PROVE Bien([x EXCEPT !.saltear = s])
    <3> DEFINE y == [x EXCEPT !.saltear = s]
               j == x.j
    <3>1. y = [x EXCEPT !.j = j, !.saltear = s]
      BY <1>1 DEF LocalesDeHilo
    <3>2. j \in Nat /\ x.j <= j /\ j <= k
      BY <1>2, <1>5
    <3> HIDE DEF y, j
    <3>3. Bien(y)
      BY <3>1, <3>2, <1>3
    <3> QED
      BY <3>3 DEF y
  <2> QED
    BY <2>1
<1>7. Bien([x EXCEPT !.j = @ + 1, !.saltear = 0])
  <2> DEFINE y == [x EXCEPT !.j = @ + 1, !.saltear = 0]
             j == x.j + 1
  <2>1. y = [x EXCEPT !.j = j, !.saltear = 0] /\ j \in Nat /\ x.j <= j /\ j <= k /\ 0 \in 0 .. 1
    BY <1>5
  <2> HIDE DEF y, j
  <2>2. Bien(y)
    BY <2>1, <1>3
  <2> QED
    BY <2>2 DEF y
<1>8. Bien([x EXCEPT !.j = k])
  <2> DEFINE y == [x EXCEPT !.j = k]
             s == x.saltear
  <2>1. y = [x EXCEPT !.j = k, !.saltear = s] /\ s \in 0 .. 1
    BY <1>1 DEF LocalesDeHilo
  <2> HIDE DEF y, s
  <2>2. k <= k
    BY <1>5
  <2>3. s \in 0 .. 1
    BY <2>1
  <2>4. \A j \in Nat : x.j <= j /\ j <= k => Bien([x EXCEPT !.j = j, !.saltear = s])
    BY <1>3, <2>3
  <2>5. Bien([x EXCEPT !.j = k, !.saltear = s])
    BY <1>5, <2>2, <2>4
  <2>6. Bien(y)
    BY <2>1, <2>5
  <2> QED
    BY <2>6 DEF y
<1> QED
  BY <1>6, <1>7, <1>8 DEF k

(* The reservation is complete, and the first replica is sent.             *)
LEMMA ReservadoBien ==
    ASSUME NEW x, Bien(x), x.pc = "reserva", x.j = 2 * BloquesContados[x.path],
           Len(x.res) = x.j, BloquesContados[x.path] # 0
    PROVE  Bien([x EXCEPT !.pc = "escribe"])
<1> DEFINE y == [x EXCEPT !.pc = "escribe"]
<1>1. x \in LocalesDeHilo /\ ReservaBien(x) /\ LiberaBien(x)
  BY DEF Bien
<1>2. /\ x.path \in Paths /\ IsInjective(x.res) /\ Separadas(x.res) /\ x.i = 1
      /\ x.libera = <<>> /\ BloquesContados[x.path] \in Nat
  BY <1>1, BloquesDeArchivo DEF ReservaBien, LiberaBien, Escribiendo, Liberando
<1>3. y \in LocalesDeHilo
  BY <1>1 DEF LocalesDeHilo, Escribiendo
<1>4. y.pc = "escribe" /\ y.path = x.path /\ y.res = x.res /\ y.libera = <<>> /\ y.i = 1
  BY <1>1, <1>2 DEF LocalesDeHilo
<1> HIDE DEF y
<1>5. 1 \in 1 .. 2 * BloquesContados[x.path] /\ BloquesContados[x.path] > 0
  BY <1>2
<1>6. Bien(y)
  BY <1>2, <1>3, <1>4, <1>5 DEF Bien, ReservaBien, LiberaBien, Escribiendo, Liberando
<1> QED
  BY <1>6 DEF y

(* What holds of a thread that writes, whatever step of it comes next.     *)
LEMMA EscritorBien ==
    ASSUME NEW x, Bien(x), x.pc \in Escribiendo \ {"reserva"}
    PROVE  /\ x.path \in Paths /\ x.libera = <<>> /\ x.res \in Seq(Replica)
           /\ BloquesContados[x.path] \in Nat /\ BloquesContados[x.path] > 0
           /\ Len(x.res) = 2 * BloquesContados[x.path]
           /\ IsInjective(x.res) /\ Separadas(x.res)
           /\ \A y \in LocalesDeHilo :
                /\ y.pc \in Escribiendo \ {"reserva"} /\ y.path = x.path
                /\ y.res = x.res /\ y.libera = <<>>
                /\ y.pc \in {"escribe", "espera", "guarda"} => y.i \in 1 .. Len(x.res)
                /\ y.pc = "guarda" => y.cfg \in Config
                => Bien(y)
<1>1. x \in LocalesDeHilo /\ ReservaBien(x) /\ LiberaBien(x)
  BY DEF Bien
<1>2. /\ x.path \in Paths /\ x.libera = <<>> /\ x.res \in Seq(Replica)
      /\ BloquesContados[x.path] \in Nat /\ BloquesContados[x.path] > 0
      /\ Len(x.res) = 2 * BloquesContados[x.path]
      /\ IsInjective(x.res) /\ Separadas(x.res)
  BY <1>1, CamposDeHilo, BloquesDeArchivo DEF ReservaBien, LiberaBien, Escribiendo, Liberando
<1>3. ASSUME NEW y \in LocalesDeHilo, y.pc \in Escribiendo \ {"reserva"}, y.path = x.path,
             y.res = x.res, y.libera = <<>>,
             y.pc \in {"escribe", "espera", "guarda"} => y.i \in 1 .. Len(x.res),
             y.pc = "guarda" => y.cfg \in Config
      PROVE  Bien(y)
  BY <1>2, <1>3 DEF Bien, ReservaBien, LiberaBien, Escribiendo, Liberando
<1> QED
  BY <1>2, <1>3

(* The steps of a thread that sends its replicas, one by one.              *)
LEMMA EscribirBien ==
    ASSUME NEW x, Bien(x), NEW cfg \in Config
    PROVE  /\ x.pc = "escribe" => Bien([x EXCEPT !.pc = "espera"])
           /\ x.pc = "espera" => Bien([x EXCEPT !.pc = "guarda", !.cfg = cfg])
           /\ x.pc = "guarda" => \A pc \in {"metadata", "escribe"} :
                 (pc = "escribe" => x.i # Len(x.res))
                 => Bien([x EXCEPT !.i = @ + 1, !.cfg = NULL, !.pc = pc])
           /\ x.pc = "metadata" => Bien([x EXCEPT !.pc = "bitmap"])
<1>1. x \in LocalesDeHilo /\ ReservaBien(x)
  BY DEF Bien
<1>2. CASE x.pc = "escribe"
  <2> DEFINE y == [x EXCEPT !.pc = "espera"]
  <2>1. y \in LocalesDeHilo
    BY <1>1 DEF LocalesDeHilo, Escribiendo
  <2>2. x.i \in 1 .. Len(x.res) /\ x.libera = <<>>
    BY <1>1, <1>2, EscritorBien DEF ReservaBien, Escribiendo
  <2>3. y.pc = "espera" /\ y.path = x.path /\ y.res = x.res /\ y.libera = <<>> /\ y.i \in 1 .. Len(x.res)
    BY <1>1, <2>2 DEF LocalesDeHilo
  <2> HIDE DEF y
  <2>4. Bien(y)
    BY <1>2, <2>1, <2>3, EscritorBien DEF Escribiendo
  <2> QED
    BY <1>2, <2>4 DEF y
<1>3. CASE x.pc = "espera"
  <2> DEFINE y == [x EXCEPT !.pc = "guarda", !.cfg = cfg]
  <2>1. y \in LocalesDeHilo
    BY <1>1 DEF LocalesDeHilo, Escribiendo
  <2>2. x.i \in 1 .. Len(x.res) /\ x.libera = <<>>
    BY <1>1, <1>3, EscritorBien DEF ReservaBien, Escribiendo
  <2>3. /\ y.pc = "guarda" /\ y.path = x.path /\ y.res = x.res /\ y.libera = <<>>
        /\ y.i \in 1 .. Len(x.res) /\ y.cfg = cfg
    BY <1>1, <2>2 DEF LocalesDeHilo
  <2> HIDE DEF y
  <2>4. Bien(y)
    BY <1>3, <2>1, <2>3, EscritorBien DEF Escribiendo
  <2> QED
    BY <1>3, <2>4 DEF y
<1>4. CASE x.pc = "guarda"
  <2>1. x.i \in 1 .. Len(x.res) /\ x.libera = <<>> /\ x.i + 1 \in Nat \ {0} /\ Len(x.res) \in Nat
    BY <1>1, <1>4, EscritorBien DEF ReservaBien, Escribiendo
  <2>2. ASSUME NEW pc \in {"metadata", "escribe"}, pc = "escribe" => x.i # Len(x.res)
        PROVE  Bien([x EXCEPT !.i = @ + 1, !.cfg = NULL, !.pc = pc])
    <3> DEFINE i == x.i + 1
               y == [x EXCEPT !.i = i, !.cfg = NULL, !.pc = pc]
    <3>1. i \in Nat \ {0} /\ (pc = "escribe" => i \in 1 .. Len(x.res))
      BY <2>1, <2>2
    <3> HIDE DEF i
    <3>2. y \in LocalesDeHilo
      BY <1>1, <3>1 DEF LocalesDeHilo, Escribiendo
    <3>3. y.pc = pc /\ y.path = x.path /\ y.res = x.res /\ y.libera = <<>> /\ y.i = i
      BY <1>1, <2>1 DEF LocalesDeHilo
    <3> HIDE DEF y
    <3>4. Bien(y)
      BY <1>4, <3>1, <3>2, <3>3, EscritorBien DEF Escribiendo
    <3> QED
      BY <3>4 DEF y, i
  <2> QED
    BY <1>4, <2>2
<1>5. CASE x.pc = "metadata"
  <2> DEFINE y == [x EXCEPT !.pc = "bitmap"]
  <2>1. y \in LocalesDeHilo
    BY <1>1 DEF LocalesDeHilo, Escribiendo
  <2>2. x.libera = <<>>
    BY <1>5, EscritorBien DEF Escribiendo
  <2>3. y.pc = "bitmap" /\ y.path = x.path /\ y.res = x.res /\ y.libera = <<>>
    BY <1>1, <2>2 DEF LocalesDeHilo
  <2> HIDE DEF y
  <2>4. Bien(y)
    BY <1>5, <2>1, <2>3, EscritorBien DEF Escribiendo
  <2> QED
    BY <1>5, <2>4 DEF y
<1> QED
  BY <1>2, <1>3, <1>4, <1>5

(* The steps of a thread that frees the replicas of a file.                *)
LEMMA LiberarBien ==
    ASSUME NEW x, Bien(x), NEW cfg \in Config
    PROVE  /\ x.pc = "libera" => Bien([x EXCEPT !.pc = "guardaLibre", !.cfg = cfg])
           /\ x.pc = "guardaLibre" /\ x.i # Len(x.libera)
                 => Bien([x EXCEPT !.i = @ + 1, !.pc = "libera", !.cfg = NULL])
<1>1. x \in LocalesDeHilo /\ ReservaBien(x) /\ LiberaBien(x)
  BY DEF Bien
<1>2. CASE x.pc = "libera"
  <2> DEFINE y == [x EXCEPT !.pc = "guardaLibre", !.cfg = cfg]
  <2>1. x.res = <<>> /\ x.i \in DOMAIN x.libera
    BY <1>1, <1>2 DEF ReservaBien, LiberaBien, Escribiendo, Liberando
  <2>2. y \in LocalesDeHilo
    BY <1>1 DEF LocalesDeHilo, Liberando
  <2>3. y.pc = "guardaLibre" /\ y.res = <<>> /\ y.i = x.i /\ y.libera = x.libera /\ y.cfg = cfg
    BY <1>1, <2>1 DEF LocalesDeHilo
  <2> HIDE DEF y
  <2>4. Bien(y)
    BY <2>1, <2>2, <2>3 DEF Bien, ReservaBien, LiberaBien, Escribiendo, Liberando
  <2> QED
    BY <1>2, <2>4 DEF y
<1>3. CASE x.pc = "guardaLibre" /\ x.i # Len(x.libera)
  <2> DEFINE i == x.i + 1
             y == [x EXCEPT !.i = i, !.pc = "libera", !.cfg = NULL]
  <2>1. x.res = <<>> /\ x.i \in DOMAIN x.libera /\ x.libera \in Seq(Replica)
    BY <1>1, <1>3, CamposDeHilo DEF ReservaBien, LiberaBien, Escribiendo, Liberando
  <2>2. i \in Nat \ {0} /\ i \in DOMAIN x.libera
    BY <1>3, <2>1
  <2> HIDE DEF i
  <2>3. y \in LocalesDeHilo
    BY <1>1, <2>2 DEF LocalesDeHilo, Liberando
  <2>4. y.pc = "libera" /\ y.res = <<>> /\ y.i = i /\ y.libera = x.libera
    BY <1>1, <2>1 DEF LocalesDeHilo
  <2> HIDE DEF y
  <2>5. Bien(y)
    BY <2>2, <2>3, <2>4 DEF Bien, ReservaBien, LiberaBien, Escribiendo, Liberando
  <2> QED
    BY <1>3, <2>5 DEF y, i
<1> QED
  BY <1>2, <1>3

(* A thread that reads has reserved nothing and frees nothing.             *)
LEMMA LectorBien ==
    /\ \A x : Bien(x) /\ x.pc \in Leyendo => x.res = <<>> /\ x.libera = <<>>
    /\ \A y \in LocalesDeHilo : y.pc \in Leyendo /\ y.res = <<>> /\ y.libera = <<>> => Bien(y)
BY DEF Bien, ReservaBien, LiberaBien, Escribiendo, Liberando, Leyendo

(* The replicas that a removal frees are those of the file, two per block. *)
LEMMA ReplicasSon ==
    ASSUME NEW info \in Seq(Bloques)
    PROVE  /\ Replicas(info) \in Seq(Replica) /\ Len(Replicas(info)) = 2 * Len(info)
           /\ \A k \in 1 .. 2 * Len(info) : \E b \in DOMAIN info, c \in 1 .. 2 :
                 k = 2 * b - 2 + c /\ Replicas(info)[k] = info[b].copias[c]
           /\ \A b \in DOMAIN info, c \in 1 .. 2 :
                 /\ 2 * b - 2 + c \in 1 .. 2 * Len(info)
                 /\ Replicas(info)[2 * b - 2 + c] = info[b].copias[c]
<1> DEFINE r == Replicas(info)
           L == Len(info)
<1>1. L \in Nat /\ DOMAIN info = 1 .. L
  OBVIOUS
<1> HIDE DEF L
<1>2. \A k \in 1 .. 2 * L : /\ (k + 1) \div 2 \in 1 .. L /\ 2 - (k % 2) \in 1 .. 2
                            /\ k = 2 * ((k + 1) \div 2) - 2 + (2 - (k % 2))
  BY <1>1, Z3
<1>3. \A b \in 1 .. L, c \in 1 .. 2 : /\ 2 * b - 2 + c \in 1 .. 2 * L
                                      /\ (2 * b - 2 + c + 1) \div 2 = b
                                      /\ 2 - ((2 * b - 2 + c) % 2) = c
  <2>1. 1 .. 2 = {1, 2}
    OBVIOUS
  <2>2. ASSUME NEW b \in 1 .. L PROVE
             /\ 2 * b - 2 + 1 \in 1 .. 2 * L /\ 2 * b - 2 + 2 \in 1 .. 2 * L
             /\ (2 * b - 2 + 1 + 1) \div 2 = b /\ (2 * b - 2 + 2 + 1) \div 2 = b
             /\ 2 - ((2 * b - 2 + 1) % 2) = 1 /\ 2 - ((2 * b - 2 + 2) % 2) = 2
    BY <1>1, Z3
  <2> QED
    BY <2>1, <2>2
<1>4. \A b \in DOMAIN info, c \in 1 .. 2 : info[b].copias[c] \in Replica
  BY BloqueEs
<1>5. r = [k \in 1 .. 2 * L |-> info[(k + 1) \div 2].copias[2 - (k % 2)]]
  BY DEF Replicas, L
<1>6. r \in [1 .. 2 * L -> Replica]
  BY <1>1, <1>2, <1>4, <1>5
<1>7. r \in Seq(Replica) /\ Len(r) = 2 * L
  BY <1>1, <1>6
<1>8. ASSUME NEW k \in 1 .. 2 * L
      PROVE  \E b \in DOMAIN info, c \in 1 .. 2 : k = 2 * b - 2 + c /\ r[k] = info[b].copias[c]
  <2>1. r[k] = info[(k + 1) \div 2].copias[2 - (k % 2)]
    BY <1>5
  <2> QED
    BY <1>1, <1>2, <2>1
<1>9. ASSUME NEW b \in DOMAIN info, NEW c \in 1 .. 2
      PROVE  2 * b - 2 + c \in 1 .. 2 * L /\ r[2 * b - 2 + c] = info[b].copias[c]
  <2> DEFINE k == 2 * b - 2 + c
  <2>1. k \in 1 .. 2 * L /\ (k + 1) \div 2 = b /\ 2 - (k % 2) = c
    BY <1>1, <1>3
  <2> HIDE DEF k
  <2>2. k \in 1 .. 2 * L /\ r[k] = info[b].copias[c]
    BY <1>5, <2>1
  <2> QED
    BY <2>2 DEF k
<1> QED
  BY <1>7, <1>8, <1>9 DEF L

(* What a thread writes in the metadata: the blocks of its file, apart.    *)
LEMMA InfoEscrita ==
    ASSUME NEW t \in Hilos, Bien(hilo[t]), hilo[t].pc \in {"metadata", "bitmap"}
    PROVE  /\ BloquesInfo(t) \in Seq(Bloques) /\ Aparte(BloquesInfo(t))
           /\ Len(BloquesInfo(t)) = BloquesContados[hilo[t].path]
           /\ \A b \in DOMAIN BloquesInfo(t), c \in 1 .. 2 :
                 /\ 2 * b - 2 + c \in 1 .. Len(hilo[t].res)
                 /\ BloquesInfo(t)[b].copias[c] = hilo[t].res[2 * b - 2 + c]
<1> DEFINE x == hilo[t]
           N == BloquesContados[x.path]
           cortes == BloquesCortados[x.path]
           info == BloquesInfo(t)
<1>1. /\ x.path \in Paths /\ x.res \in Seq(Replica) /\ N \in Nat /\ Len(x.res) = 2 * N
      /\ IsInjective(x.res) /\ Separadas(x.res)
  BY EscritorBien DEF Escribiendo
<1>2. cortes \in Seq(Nat) /\ Len(cortes) = N
  BY <1>1, BloquesDeArchivo
<1>3. info = [b \in 1 .. N |-> Bloque(cortes[b], x.res[2 * b - 1], x.res[2 * b])]
  BY <1>2 DEF BloquesInfo, BloquesDelHilo
<1> HIDE DEF x, N, cortes, info
<1>4. ASSUME NEW b \in 1 .. N
      PROVE  /\ 2 * b - 1 \in 1 .. 2 * N /\ 2 * b \in 1 .. 2 * N /\ (2 * b) % 2 = 0
             /\ info[b] \in Bloques
             /\ info[b].copias[1] = x.res[2 * b - 1] /\ info[b].copias[2] = x.res[2 * b]
  <2>1. 2 * b - 1 \in 1 .. 2 * N /\ 2 * b \in 1 .. 2 * N /\ (2 * b) % 2 = 0
    BY <1>1
  <2>2. x.res[2 * b - 1] \in Replica /\ x.res[2 * b] \in Replica /\ cortes[b] \in Nat
    BY <1>1, <1>2, <2>1
  <2>3. info[b] = Bloque(cortes[b], x.res[2 * b - 1], x.res[2 * b])
    BY <1>3
  <2>4. info[b] \in Bloques
    BY <2>2, <2>3 DEF Bloque, Bloques
  <2> QED
    BY <2>1, <2>3, <2>4 DEF Bloque
<1>5. info \in Seq(Bloques) /\ Len(info) = N /\ DOMAIN info = 1 .. N
  BY <1>1, <1>3, <1>4
<1>6. ASSUME NEW b \in 1 .. N, NEW c \in 1 .. 2
      PROVE  2 * b - 2 + c \in 1 .. Len(x.res) /\ info[b].copias[c] = x.res[2 * b - 2 + c]
  <2>1. c = 1 \/ c = 2
    OBVIOUS
  <2>2. 2 * b - 2 + 1 = 2 * b - 1 /\ 2 * b - 2 + 2 = 2 * b
    OBVIOUS
  <2> QED
    BY <2>1, <2>2, <1>1, <1>4
<1>7. ASSUME NEW b \in 1 .. N PROVE info[b].copias[1].nodo # info[b].copias[2].nodo
  <2> DEFINE k == 2 * b
  <2>1. k \in DOMAIN x.res /\ k % 2 = 0
    BY <1>1, <1>4
  <2>2. x.res[k].nodo # x.res[k - 1].nodo
    <3> HIDE DEF k
    <3> QED
      BY <1>1, <2>1 DEF Separadas
  <2> QED
    BY <2>2, <1>4
<1>8. ASSUME NEW b \in 1 .. N, NEW c \in 1 .. N, NEW p \in 1 .. 2, NEW q \in 1 .. 2,
             info[b].copias[p] = info[c].copias[q]
      PROVE  b = c /\ p = q
  <2> DEFINE k == 2 * b - 2 + p
             l == 2 * c - 2 + q
  <2>1. k \in DOMAIN x.res /\ l \in DOMAIN x.res /\ x.res[k] = x.res[l]
    <3>1. k \in 1 .. Len(x.res) /\ info[b].copias[p] = x.res[k]
      BY <1>6
    <3>2. l \in 1 .. Len(x.res) /\ info[c].copias[q] = x.res[l]
      BY <1>6
    <3>3. DOMAIN x.res = 1 .. Len(x.res)
      BY <1>1
    <3>4. x.res[k] = x.res[l]
      BY <1>8, <3>1, <3>2, Zenon
    <3> QED
      BY <3>1, <3>2, <3>3, <3>4, Zenon
  <2>2. k = l
    <3> HIDE DEF k, l
    <3> QED
      BY <1>1, <2>1 DEF IsInjective
  <2> QED
    BY <2>2
<1>9. Aparte(info)
  BY <1>5, <1>7, <1>8 DEF Aparte
<1> QED
  BY <1>5, <1>6, <1>9 DEF x, N, info

-----------------------------------------------------------------------------
(* The steps, one lemma for each: what the invariant says of the threads   *)
(* and of the files after it.                                              *)

(* The types of what is not local to a thread, and the files.              *)
Compartido == ProcessTypeOK /\ NodesTypeOK /\ ArchivosBien

(* One thread moves on.                                                    *)
LEMMA HiloCambia ==
    ASSUME Inv, NEW t \in Hilos, NEW y, hilo' = [hilo EXCEPT ![t] = y],
           Bien(y), LecturaBien(y, lista'), y.pc \in Leyendo => t = Consola,
           lista' = lista \/ t = Consola, Compartido'
    PROVE  Inv'
<1>1. hilo \in [Hilos -> LocalesDeHilo] /\ HilosBien
  BY DEF Inv, TypeOK
<1>2. hilo' \in [Hilos -> LocalesDeHilo] /\ hilo'[t] = y /\ \A u \in Hilos : u # t => hilo'[u] = hilo[u]
  BY <1>1 DEF Bien
<1>3. ASSUME NEW u \in Hilos
      PROVE  /\ ReservaBien(hilo'[u]) /\ LiberaBien(hilo'[u]) /\ LecturaBien(hilo'[u], lista')
             /\ hilo'[u].pc \in Leyendo => u = Consola
  <2>1. CASE u = t
    BY <1>2, <2>1 DEF Bien
  <2>2. CASE u # t
    <3>1. /\ ReservaBien(hilo[u]) /\ LiberaBien(hilo[u]) /\ LecturaBien(hilo[u], lista)
          /\ hilo[u].pc \in Leyendo => u = Consola
      BY <1>1 DEF HilosBien
    <3>2. CASE lista' = lista
      BY <1>2, <2>2, <3>1, <3>2
    <3>3. CASE t = Consola
      <4>1. hilo[u].pc \notin Leyendo
        BY <2>2, <3>1, <3>3
      <4>2. LecturaBien(hilo[u], lista')
        BY <4>1 DEF LecturaBien, Leyendo
      <4> QED
        BY <1>2, <2>2, <3>1, <4>2
    <3> QED
      BY <3>2, <3>3
  <2> QED
    BY <2>1, <2>2
<1>4. HilosBien'
  BY <1>3 DEF HilosBien
<1> QED
  BY <1>2, <1>4 DEF Inv, TypeOK, Compartido

(* The blocks of a node are numbered from 0.                               *)
LEMMA BloquesDeNodo ==
    ASSUME NEW n \in Nodes
    PROVE  BlocksOf(n) \in SUBSET Nat /\ IsFiniteSet(BlocksOf(n)) /\ Cardinality(BlocksOf(n)) = Total[n]
<1>1. Total[n] \in Nat
  BY DataNodeAssumption
<1>2. 0 \in Int /\ Total[n] - 1 \in Int
  BY <1>1
<1>3. IsFiniteSet(0 .. Total[n] - 1)
      /\ Cardinality(0 .. Total[n] - 1) = IF 0 > Total[n] - 1 THEN 0 ELSE Total[n] - 1 - 0 + 1
  BY <1>2, FS_Interval
<1> QED
  BY <1>1, <1>3 DEF BlocksOf

(* What is not a thread's does not change, or changes well.                *)
LEMMA NadieSeMueve ==
    ASSUME Inv, UNCHANGED hilo, Compartido',
           lista' = lista \/ (hilo[Consola].pc \in Leyendo => LecturaBien(hilo[Consola], lista'))
    PROVE  Inv'
<1>1. hilo \in [Hilos -> LocalesDeHilo] /\ HilosBien
  BY DEF Inv, TypeOK
<1>2. ASSUME NEW u \in Hilos PROVE LecturaBien(hilo[u], lista')
  <2>1. LecturaBien(hilo[u], lista) /\ (hilo[u].pc \in Leyendo => u = Consola)
    BY <1>1 DEF HilosBien
  <2>2. hilo[u].pc \notin Leyendo => LecturaBien(hilo[u], lista')
    BY DEF LecturaBien, Leyendo
  <2> QED
    BY <2>1, <2>2
<1>3. HilosBien'
  BY <1>1, <1>2 DEF HilosBien
<1> QED
  BY <1>1, <1>3 DEF Inv, TypeOK, Compartido

(* A thread that is not reading has nothing to do with the list.           *)
LEMMA NoLee ==
    ASSUME NEW y, y.pc \notin Leyendo
    PROVE  \A l : LecturaBien(y, l)
BY DEF LecturaBien, Leyendo

(* What holds of the thread that takes a step.                             *)
LEMMA HiloBien ==
    ASSUME Inv, NEW t \in Hilos
    PROVE  /\ Bien(hilo[t]) /\ LecturaBien(hilo[t], lista)
           /\ hilo[t] \in LocalesDeHilo /\ (hilo[t].pc \in Leyendo => t = Consola)
           /\ hilo \in [Hilos -> LocalesDeHilo] /\ Compartido
BY DEF Inv, TypeOK, HilosBien, Bien, Compartido

(* Nothing shared changes but the state of the process and the commands.   *)
LEMMA NadaCompartido ==
    ASSUME Inv, UNCHANGED <<blockVars, activo, lista, atencion, dataNodeVars>>,
           fs' \in {"up", "exit", "sigpipe", "segfault"}, pedidos' \in [dados : Nat, borra : BOOLEAN]
    PROVE  Compartido'
<1>1. Compartido
  BY DEF Inv, TypeOK, Compartido
<1>2. ProcessTypeOK'
  BY <1>1 DEF Compartido, ProcessTypeOK, blockVars
<1>3. NodesTypeOK' /\ ArchivosBien'
  BY <1>1 DEF Compartido, NodesTypeOK, ArchivosBien, blockVars, dataNodeVars
<1> QED
  BY <1>2, <1>3 DEF Compartido

(* The command cpfrom preserves Inv.                                       *)
LEMMA PasoEscribirArchivo ==
    ASSUME Inv, NEW t \in Hilos, NEW f \in Paths, EscribirArchivo(t, f),
           UNCHANGED <<lista, atencion, dataNodeVars>>
    PROVE  Inv'
<1>1. pedidos \in [dados : Nat, borra : BOOLEAN] /\ fs = "up" /\ hilo \in [Hilos -> LocalesDeHilo]
  BY DEF Inv, TypeOK, ProcessTypeOK, EscribirArchivo, Order, At
<1>2. pedidos' \in [dados : Nat, borra : BOOLEAN]
  <2>1. pedidos' = [dados |-> pedidos.dados + 1, borra |-> pedidos.borra \/ FALSE]
    BY DEF EscribirArchivo, Order
  <2>2. pedidos.dados + 1 \in Nat /\ (pedidos.borra \/ FALSE) \in BOOLEAN
    BY <1>1
  <2> QED
    BY <2>1, <2>2
<1>3. Compartido'
  BY <1>1, <1>2, NadaCompartido DEF EscribirArchivo, blockVars
<1>4. CASE hilo' = hilo
  BY <1>3, <1>4, NadieSeMueve
<1>5. CASE Ends(t, "ARCHIVO_EXISTENTE")
  <2> DEFINE y == Idle("ARCHIVO_EXISTENTE")
  <2>1. hilo' = [hilo EXCEPT ![t] = y] /\ lista' = lista
    BY <1>5 DEF Ends
  <2>2. Bien(y) /\ LecturaBien(y, lista') /\ y.pc \notin Leyendo
    BY LibreBien DEF Resultados, Leyendo
  <2> HIDE DEF y
  <2> QED
    BY <1>3, <2>1, <2>2, HiloCambia
<1>6. CASE hilo' = [hilo EXCEPT ![t] = [Idle("NADA") EXCEPT !.pc = "reserva", !.path = f,
                                        !.activos = {n \in Nodes : activo[n]}]]
  <2> DEFINE A == {n \in Nodes : activo[n]}
             y == [Idle("NADA") EXCEPT !.pc = "reserva", !.path = f, !.activos = A]
  <2>1. hilo' = [hilo EXCEPT ![t] = y] /\ lista' = lista /\ A \in SUBSET Nodes
    BY <1>6
  <2> HIDE DEF A
  <2>2. Bien(y) /\ y.pc \notin Leyendo
    BY <2>1, EmpiezaBien DEF Idle, Leyendo
  <2> HIDE DEF y
  <2>3. LecturaBien(y, lista')
    BY <2>2, NoLee
  <2> QED
    BY <1>3, <2>1, <2>2, <2>3, HiloCambia
<1> QED
  BY <1>4, <1>5, <1>6 DEF EscribirArchivo

(* The local variables that make a node the next of the reservation.       *)
LEMMA ReservandoEs ==
    ASSUME Inv, NEW t \in Hilos, NEW n \in Nodes, Reserving(t, n)
    PROVE  hilo[t].pc = "reserva" /\ hilo[t].j < 2 * BloquesContados[hilo[t].path] /\ fs = "up"
BY DEF Reserving, At, Necesarios

(* A reservation preserves Inv.                                            *)
LEMMA PasoReserveBlock ==
    ASSUME Inv, NEW t \in Hilos, NEW n \in Nodes, ReserveBlock(t, n),
           UNCHANGED <<lista, atencion, dataNodeVars>>
    PROVE  Inv'
<1> DEFINE x == hilo[t]
           b == FirstOf(FreeOf(t, n))
           y == [x EXCEPT !.res = Append(@, Reserved(n, b)), !.j = @ + 1, !.anterior = n, !.saltear = 0]
<1>1. x.pc = "reserva" /\ x.j < 2 * BloquesContados[x.path] /\ Bien(x) /\ Compartido
      /\ hilo \in [Hilos -> LocalesDeHilo]
  BY ReservandoEs, HiloBien DEF ReserveBlock
<1>2. b \in BlocksOf(n) /\ b \notin bitmap[n] /\ ~Contains(x.res, Reserved(n, b))
  <2>1. FreeOf(t, n) \in SUBSET Nat /\ FreeOf(t, n) # {}
    <3>1. FreeOf(t, n) \subseteq BlocksOf(n)
      BY DEF FreeOf, FreeBlocks
    <3> QED
      BY <3>1, BloquesDeNodo DEF ReserveBlock
  <2>2. b \in FreeOf(t, n)
    BY <2>1, PrimeroEs
  <2> HIDE DEF b
  <2> QED
    BY <2>2 DEF FreeOf, FreeBlocks
<1>3. hilo' = [hilo EXCEPT ![t] = y]
  BY <1>1, Zenon DEF ReserveBlock
<1>4. y.pc \notin Leyendo
  BY <1>1 DEF LocalesDeHilo, Bien, Leyendo
<1>5. Bien(y)
  <2> HIDE DEF b
  <2>1. ~(x.anterior = n /\ IsCopy(x.j))
    BY DEF ReserveBlock, SameNodeAsOriginal
  <2> HIDE DEF x
  <2> QED
    BY <1>1, <1>2, <2>1, ReservarBien
<1>6. Compartido'
  <2>1. libre' \in [Nodes -> Int]
    BY <1>1 DEF Compartido, ProcessTypeOK, ReserveBlock
  <2> QED
    BY <1>1, <2>1 DEF Compartido, ProcessTypeOK, NodesTypeOK, ArchivosBien, ReserveBlock, dataNodeVars
<1> HIDE DEF y
<1>7. LecturaBien(y, lista')
  BY <1>4, NoLee
<1> QED
  BY <1>3, <1>4, <1>5, <1>6, <1>7, HiloCambia DEF ReserveBlock

(* A thread takes a step of its own: nothing shared changes.               *)
LEMMA PasoLocal ==
    ASSUME Inv, NEW t \in Hilos, NEW y, Bien(y), y.pc \notin Leyendo \/ t = Consola,
           LecturaBien(y, lista), hilo' = [hilo EXCEPT ![t] = y],
           UNCHANGED <<fs, blockVars, activo, pedidos, lista, atencion, dataNodeVars>>
    PROVE  Inv'
<1>1. Compartido'
  <2>1. fs \in {"up", "exit", "sigpipe", "segfault"} /\ pedidos \in [dados : Nat, borra : BOOLEAN]
    BY DEF Inv, TypeOK, ProcessTypeOK
  <2> QED
    BY <2>1, NadaCompartido
<1> QED
  BY <1>1, HiloCambia

(* Passing over a node, or finding none, preserves Inv.                    *)
LEMMA PasoTurno ==
    ASSUME Inv, NEW t \in Hilos,
           (\E n \in Nodes : SkipNode(t, n) \/ NodeIsFull(t, n)) \/ NoNodeLeft(t),
           UNCHANGED <<lista, atencion, dataNodeVars>>
    PROVE  Inv'
<1> DEFINE x == hilo[t]
<1>1. /\ x.pc = "reserva" /\ x.j < 2 * BloquesContados[x.path] /\ Bien(x)
      /\ x \in LocalesDeHilo
      /\ UNCHANGED <<fs, blockVars, activo, pedidos, lista, atencion, dataNodeVars>>
  BY ReservandoEs, HiloBien DEF SkipNode, NodeIsFull, NoNodeLeft, At, Necesarios
<1>2. ASSUME NEW y, Bien(y), y.pc = "reserva", hilo' = [hilo EXCEPT ![t] = y]
      PROVE  Inv'
  <2>1. LecturaBien(y, lista) /\ y.pc \notin Leyendo
    BY <1>2, NoLee DEF Leyendo
  <2> QED
    BY <1>1, <1>2, <2>1, PasoLocal
<1>3. ASSUME NEW n \in Nodes, SkipNode(t, n) PROVE Inv'
  <2> DEFINE y == [x EXCEPT !.saltear = 1]
  <2>1. hilo' = [hilo EXCEPT ![t] = y]
    BY <1>3, Zenon DEF SkipNode
  <2>2. y.pc = "reserva"
    BY <1>1 DEF LocalesDeHilo
  <2>3. Bien(y)
    <3> HIDE DEF x
    <3> QED
      BY <1>1, TurnoBien
  <2> HIDE DEF y
  <2> QED
    BY <2>1, <2>2, <2>3, <1>2
<1>4. ASSUME NEW n \in Nodes, NodeIsFull(t, n) PROVE Inv'
  <2> DEFINE y == [x EXCEPT !.j = @ + 1, !.saltear = 0]
  <2>1. hilo' = [hilo EXCEPT ![t] = y]
    BY <1>4, Zenon DEF NodeIsFull
  <2>2. y.pc = "reserva"
    BY <1>1 DEF LocalesDeHilo
  <2>3. Bien(y)
    <3> HIDE DEF x
    <3> QED
      BY <1>1, TurnoBien
  <2> HIDE DEF y
  <2> QED
    BY <2>1, <2>2, <2>3, <1>2
<1>5. CASE NoNodeLeft(t)
  <2> DEFINE y == [x EXCEPT !.j = 2 * BloquesContados[x.path]]
  <2>1. hilo' = [hilo EXCEPT ![t] = y]
    BY <1>5, Zenon DEF NoNodeLeft, Necesarios
  <2>2. y.pc = "reserva"
    BY <1>1 DEF LocalesDeHilo
  <2>3. Bien(y)
    <3> HIDE DEF x
    <3> QED
      BY <1>1, TurnoBien
  <2> HIDE DEF y
  <2> QED
    BY <2>1, <2>2, <2>3, <1>2
<1> QED
  BY <1>3, <1>4, <1>5

(* obtenerBitMapBloques without any active node preserves Inv.             *)
LEMMA PasoNoBitMap ==
    ASSUME Inv, NEW t \in Hilos, NoBitMap(t), UNCHANGED <<lista, atencion, dataNodeVars>>
    PROVE  Inv'
<1>1. Compartido'
  <2>1. pedidos \in [dados : Nat, borra : BOOLEAN]
    BY DEF Inv, TypeOK, ProcessTypeOK
  <2> QED
    BY <2>1, NadaCompartido DEF NoBitMap
<1> QED
  BY <1>1, NadieSeMueve DEF NoBitMap

(* The blocks of a node that a reservation holds are finitely many.        *)
LEMMA ReservadosEnNodo ==
    ASSUME NEW n \in Nodes, NEW res
    PROVE  /\ ReservedOn(res, n) \subseteq BlocksOf(n) /\ IsFiniteSet(ReservedOn(res, n))
           /\ Cardinality(ReservedOn(res, n)) \in Nat
<1>1. ReservedOn(res, n) \subseteq BlocksOf(n)
  BY DEF ReservedOn
<1>2. IsFiniteSet(BlocksOf(n))
  BY BloquesDeNodo
<1>3. IsFiniteSet(ReservedOn(res, n))
  BY <1>1, <1>2, FS_Subset
<1> QED
  BY <1>1, <1>3, FS_CardinalityType

(* A command ends, and what it shares has its type.                        *)
LEMMA PasoFinal ==
    ASSUME Inv, NEW t \in Hilos, NEW r \in Resultados, Ends(t, r), Compartido',
           lista' = lista \/ t = Consola
    PROVE  Inv'
<1> DEFINE y == Idle(r)
<1>1. hilo' = [hilo EXCEPT ![t] = y]
  BY DEF Ends
<1>2. Bien(y) /\ LecturaBien(y, lista') /\ y.pc \notin Leyendo
  BY LibreBien DEF Leyendo
<1> HIDE DEF y
<1> QED
  BY <1>1, <1>2, HiloCambia

(* A writer that gives up for lack of room preserves Inv.                  *)
LEMMA PasoSinEspacio ==
    ASSUME Inv, NEW t \in Hilos, SinEspacio(t), UNCHANGED <<lista, atencion, dataNodeVars>>
    PROVE  Inv'
<1>1. Compartido
  BY HiloBien
<1>2. libre' \in [Nodes -> Int]
  <2>1. libre \in [Nodes -> Int]
    BY <1>1 DEF Compartido, ProcessTypeOK
  <2>2. \A n \in Nodes : libre[n] + Cardinality(ReservedOn(hilo[t].res, n)) \in Int
    BY <2>1, ReservadosEnNodo
  <2> QED
    BY <2>2 DEF SinEspacio, RolledBack
<1>3. Compartido'
  BY <1>1, <1>2 DEF Compartido, ProcessTypeOK, NodesTypeOK, ArchivosBien, SinEspacio, dataNodeVars
<1> QED
  BY <1>3, PasoFinal DEF SinEspacio, Resultados

(* The end of the reservations preserves Inv: the replicas become the      *)
(* file's block list.                                                      *)
LEMMA PasoBlocksReserved ==
    ASSUME Inv, NEW t \in Hilos, BlocksReserved(t), UNCHANGED <<lista, atencion, dataNodeVars>>
    PROVE  Inv'
<1> DEFINE x == hilo[t]
<1>1. /\ Bien(x) /\ x.pc = "reserva" /\ x.j = 2 * BloquesContados[x.path] /\ Len(x.res) = x.j
      /\ UNCHANGED <<fs, blockVars, activo, pedidos, lista, atencion, dataNodeVars>>
      /\ fs \in {"up", "exit", "sigpipe", "segfault"} /\ pedidos \in [dados : Nat, borra : BOOLEAN]
  BY HiloBien DEF BlocksReserved, At, Necesarios, Inv, TypeOK, ProcessTypeOK
<1>2. CASE Ends(t, "SIN_CONTENIDO_ESCRIBIR")
  BY <1>1, <1>2, NadaCompartido, PasoFinal DEF Resultados
<1>3. CASE BloquesContados[x.path] # 0 /\ hilo' = [hilo EXCEPT ![t].pc = "escribe"]
  <2> DEFINE y == [x EXCEPT !.pc = "escribe"]
  <2>1. hilo' = [hilo EXCEPT ![t] = y] /\ y.pc \notin Leyendo
    BY <1>1, <1>3 DEF Bien, LocalesDeHilo, Leyendo
  <2>2. Bien(y)
    <3> HIDE DEF x
    <3> QED
      BY <1>1, <1>3, ReservadoBien
  <2> HIDE DEF y
  <2>3. LecturaBien(y, lista)
    BY <2>1, NoLee
  <2> QED
    BY <1>1, <2>1, <2>2, <2>3, PasoLocal
<1> QED
  BY <1>2, <1>3 DEF BlocksReserved, Necesarios

(* A request that is sent has its place in the stream of the node.         *)
LEMMA PedidoMandado ==
    ASSUME Inv, NEW n \in Nodes, NEW p \in Pedidos(n),
           entrada' = [entrada EXCEPT ![n] = Append(@, p)],
           UNCHANGED <<blockVars, activo, pedidos, lista, atencion, vivo, disco, salida, muertes, fs>>
    PROVE  Compartido'
<1>1. Compartido
  BY DEF Inv, TypeOK, Compartido
<1>2. entrada = [m \in Nodes |-> entrada[m]] /\ \A m \in Nodes : entrada[m] \in Seq(Pedidos(m))
  BY <1>1 DEF Compartido, NodesTypeOK
<1>3. \A m \in Nodes : entrada'[m] = IF m = n THEN Append(entrada[m], p) ELSE entrada[m]
  BY <1>2
<1>4. entrada' = [m \in Nodes |-> entrada'[m]]
  BY <1>2
<1>5. \A m \in Nodes : entrada'[m] \in Seq(Pedidos(m))
  BY <1>2, <1>3
<1>6. NodesTypeOK'
  BY <1>1, <1>4, <1>5 DEF Compartido, NodesTypeOK
<1> QED
  BY <1>1, <1>6 DEF Compartido, ProcessTypeOK, ArchivosBien, blockVars

(* A thread sends a request and goes on, or the process ends.              *)
LEMMA PasoManda ==
    ASSUME Inv, NEW t \in Hilos, NEW n \in Nodes, NEW p \in Pedidos(n), NEW y, Bien(y),
           y.pc \notin Leyendo \/ t = Consola, LecturaBien(y, lista),
           SendTo(n, p, hilo' = [hilo EXCEPT ![t] = y]),
           UNCHANGED <<blockVars, activo, pedidos, lista, atencion, vivo, disco, salida, muertes>>
    PROVE  Inv'
<1>1. pedidos \in [dados : Nat, borra : BOOLEAN] /\ fs \in {"up", "exit", "sigpipe", "segfault"}
  BY DEF Inv, TypeOK, ProcessTypeOK
<1>2. CASE /\ entrada' = [entrada EXCEPT ![n] = Append(@, p)]
           /\ hilo' = [hilo EXCEPT ![t] = y] /\ UNCHANGED fs
  BY <1>2, PedidoMandado, HiloCambia
<1>3. CASE hilo' = [hilo EXCEPT ![t] = y] /\ UNCHANGED <<fs, entrada>>
  <2>1. Compartido'
    BY <1>1, <1>3, NadaCompartido DEF dataNodeVars
  <2> QED
    BY <1>3, <2>1, HiloCambia
<1>4. CASE fs' = "sigpipe" /\ UNCHANGED <<hilo, entrada>>
  <2>1. Compartido'
    BY <1>1, <1>4, NadaCompartido DEF dataNodeVars
  <2> QED
    BY <1>4, <2>1, NadieSeMueve
<1> QED
  BY <1>2, <1>3, <1>4 DEF SendTo

(* A replica is sent to its node, with the block of the file that it is.   *)
LEMMA ReplicaMandada ==
    ASSUME NEW r \in Replica, NEW f \in Paths, NEW i \in Nat
    PROVE  r.nodo \in Nodes /\ SetBloque(r.bloque, DataOf(f, i)) \in Pedidos(r.nodo)
<1>1. r.nodo \in Nodes /\ r.bloque \in BlocksOf(r.nodo)
  BY DEF Replica
<1>2. (i + 1) \div 2 \in Nat
  OBVIOUS
<1>3. DataOf(f, i) \in Datos
  BY <1>2 DEF DataOf, Datos
<1> QED
  BY <1>1, <1>3 DEF SetBloque, Pedidos

(* Sending a block to its node preserves Inv.                              *)
LEMMA PasoSendBlock ==
    ASSUME Inv, NEW t \in Hilos, SendBlock(t),
           UNCHANGED <<lista, atencion, vivo, disco, salida, muertes>>
    PROVE  Inv'
<1> DEFINE x == hilo[t]
           r == x.res[x.i]
           y == [x EXCEPT !.pc = "espera"]
<1>1. Bien(x) /\ x.pc = "escribe" /\ x \in LocalesDeHilo
  BY HiloBien DEF SendBlock, At
<1>2. x.path \in Paths /\ x.i \in Nat /\ r \in Replica
  <2>1. x.i \in 1 .. Len(x.res) /\ x.res \in Seq(Replica) /\ x.path \in Paths
    <3> HIDE DEF x
    <3> QED
      BY <1>1, EscritorBien DEF Bien, ReservaBien, Escribiendo
  <2> QED
    BY <2>1
<1>3. r.nodo \in Nodes /\ SetBloque(r.bloque, DataOf(x.path, x.i)) \in Pedidos(r.nodo)
  <2> HIDE DEF x, r
  <2> QED
    BY <1>2, ReplicaMandada
<1>4. /\ SendTo(r.nodo, SetBloque(r.bloque, DataOf(x.path, x.i)), hilo' = [hilo EXCEPT ![t] = y])
      /\ UNCHANGED <<blockVars, activo, pedidos>>
  BY Zenon DEF SendBlock
<1>5. y.pc \notin Leyendo
  BY <1>1 DEF LocalesDeHilo, Leyendo
<1>6. Bien(y)
  <2>1. PICK cfg \in Config : TRUE
    BY DEF Inv, TypeOK, ProcessTypeOK
  <2> HIDE DEF x
  <2> QED
    BY <1>1, <2>1, EscribirBien
<1> HIDE DEF y, r, x
<1>7. LecturaBien(y, lista)
  BY <1>5, NoLee
<1> QED
  BY <1>3, <1>4, <1>5, <1>6, <1>7, PasoManda

(* The answer to a write preserves Inv.                                    *)
LEMMA PasoAwaitWrite ==
    ASSUME Inv, NEW t \in Hilos, AwaitWrite(t), UNCHANGED <<lista, atencion, dataNodeVars>>
    PROVE  Inv'
<1> DEFINE x == hilo[t]
           y == [x EXCEPT !.pc = "guarda", !.cfg = nodosBin]
<1>1. Bien(x) /\ x.pc = "espera" /\ x \in LocalesDeHilo /\ Compartido /\ nodosBin \in Config
  BY HiloBien DEF AwaitWrite, At, Compartido, ProcessTypeOK
<1>2. hilo' = [hilo EXCEPT ![t] = y]
  BY Zenon DEF AwaitWrite
<1>3. y.pc \notin Leyendo
  BY <1>1 DEF LocalesDeHilo, Leyendo
<1>4. Bien(y)
  <2> HIDE DEF x
  <2> QED
    BY <1>1, EscribirBien
<1>5. Compartido'
  <2>1. semEscritura' \in Nat
    BY <1>1 DEF Compartido, ProcessTypeOK, AwaitWrite
  <2> QED
    BY <1>1, <2>1 DEF Compartido, ProcessTypeOK, NodesTypeOK, ArchivosBien, AwaitWrite, dataNodeVars
<1> HIDE DEF y
<1>6. LecturaBien(y, lista')
  BY <1>3, NoLee
<1> QED
  BY <1>2, <1>3, <1>4, <1>5, <1>6, HiloCambia

(* The saving of nodos.bin keeps the type of what it holds.                *)
LEMMA BinGuardado ==
    ASSUME Inv, NEW cfg \in Config, NEW n \in Nodes,
           nodosBin' = UpdatedBin(cfg, n),
           UNCHANGED <<fs, libre, activo, bitmap, archivos, semEscritura, pedidos, lista, atencion,
                       dataNodeVars>>
    PROVE  Compartido'
<1>1. Compartido
  BY DEF Inv, TypeOK, Compartido
<1>2. cfg.libre \in [Nodes -> Int] /\ cfg.total \in Int /\ libre \in [Nodes -> Int]
  BY <1>1 DEF Config, Compartido, ProcessTypeOK
<1>3. nodosBin' \in Config
  BY <1>2 DEF UpdatedBin, Config
<1> QED
  BY <1>1, <1>3 DEF Compartido, ProcessTypeOK, NodesTypeOK, ArchivosBien, dataNodeVars

(* Saving nodos.bin during a write preserves Inv.                          *)
LEMMA PasoActualizarConfig ==
    ASSUME Inv, NEW t \in Hilos, ActualizarConfigNodoEnBin(t), UNCHANGED <<lista, atencion, dataNodeVars>>
    PROVE  Inv'
<1> DEFINE x == hilo[t]
           pc == IF x.i = 2 * Len(BloquesDelHilo(t)) THEN "metadata" ELSE "escribe"
           y == [x EXCEPT !.i = @ + 1, !.cfg = NULL, !.pc = pc]
           r == x.res[x.i]
<1>1. Bien(x) /\ x.pc = "guarda" /\ x \in LocalesDeHilo
  BY HiloBien DEF ActualizarConfigNodoEnBin, At
<1>2. /\ x.cfg \in Config /\ x.i \in 1 .. Len(x.res) /\ x.res \in Seq(Replica) /\ x.path \in Paths
      /\ Len(x.res) = 2 * BloquesContados[x.path]
  <2> HIDE DEF x
  <2> QED
    BY <1>1, EscritorBien DEF Bien, ReservaBien, Escribiendo
<1>3. r.nodo \in Nodes
  <2>1. r \in Replica
    BY <1>2
  <2> HIDE DEF r
  <2> QED
    BY <2>1 DEF Replica
<1>4. Len(x.res) = 2 * Len(BloquesDelHilo(t))
  BY <1>2, BloquesDeArchivo DEF BloquesDelHilo
<1>5. /\ nodosBin' = UpdatedBin(x.cfg, r.nodo)
      /\ hilo' = [hilo EXCEPT ![t] = y]
      /\ UNCHANGED <<fs, libre, activo, bitmap, archivos, semEscritura, pedidos, lista, atencion, dataNodeVars>>
  BY Zenon DEF ActualizarConfigNodoEnBin
<1>6. pc \in {"metadata", "escribe"} /\ (pc = "escribe" => x.i # Len(x.res))
  BY <1>4
<1> HIDE DEF pc
<1>7. y.pc \notin Leyendo
  BY <1>1, <1>6 DEF LocalesDeHilo, Leyendo
<1>8. Bien(y)
  <2> HIDE DEF x
  <2> QED
    BY <1>1, <1>2, <1>6, EscribirBien
<1>9. Compartido'
  <2> HIDE DEF x, r
  <2> QED
    BY <1>2, <1>3, <1>5, BinGuardado
<1> HIDE DEF y, x, r
<1>10. LecturaBien(y, lista')
  BY <1>7, NoLee
<1> QED
  BY <1>5, <1>7, <1>8, <1>9, <1>10, HiloCambia

(* The metadata of a file is written: the blocks that were reserved for    *)
(* it, which are apart.                                                    *)
LEMMA PasoCrearArchivoMetadata ==
    ASSUME Inv, NEW t \in Hilos, CrearArchivoMetadata(t), UNCHANGED <<lista, atencion, dataNodeVars>>
    PROVE  Inv'
<1> DEFINE x == hilo[t]
           y == [x EXCEPT !.pc = "bitmap"]
           info == BloquesInfo(t)
           meta == [tamanio |-> TamanioArchivo(Contenido[x.path]), bloques |-> info]
<1>1. Bien(x) /\ x.pc = "metadata" /\ x \in LocalesDeHilo /\ Compartido
  BY HiloBien DEF CrearArchivoMetadata, At
<1>2. x.path \in Paths /\ BloquesContados[x.path] > 0
  <2> HIDE DEF x
  <2> QED
    BY <1>1, EscritorBien DEF Escribiendo
<1>3. info \in Seq(Bloques) /\ Aparte(info) /\ Len(info) = BloquesContados[x.path]
  BY <1>1, InfoEscrita
<1>4. hilo' = [hilo EXCEPT ![t] = y] /\ archivos' = [archivos EXCEPT ![x.path] = meta]
  BY Zenon DEF CrearArchivoMetadata
<1>5. y.pc \notin Leyendo
  BY <1>1 DEF LocalesDeHilo, Leyendo
<1>6. Bien(y)
  <2>1. PICK cfg \in Config : TRUE
    BY <1>1 DEF Compartido, ProcessTypeOK
  <2> HIDE DEF x
  <2> QED
    BY <1>1, <2>1, EscribirBien
<1> HIDE DEF info
<1>7. meta \in Metadata(x.path) /\ meta.bloques = info
  BY <1>3 DEF Metadata
<1> HIDE DEF y, meta, x
<1>8. \A f \in Paths : archivos'[f] = IF f = x.path THEN meta ELSE archivos[f]
  BY <1>1, <1>4 DEF Compartido, ProcessTypeOK
<1>9. archivos' = [f \in Paths |-> archivos'[f]]
  BY <1>1, <1>4 DEF Compartido, ProcessTypeOK
<1>10. \A f \in Paths : archivos'[f] \in Metadata(f) \cup {NULL}
  BY <1>1, <1>7, <1>8 DEF Compartido, ProcessTypeOK
<1>11. ProcessTypeOK' /\ NodesTypeOK'
  BY <1>1, <1>9, <1>10 DEF Compartido, ProcessTypeOK, NodesTypeOK, CrearArchivoMetadata, dataNodeVars
<1>12. ArchivosBien'
  BY <1>1, <1>2, <1>3, <1>7, <1>8 DEF Compartido, ArchivosBien
<1>13. LecturaBien(y, lista')
  BY <1>5, NoLee
<1> QED
  BY <1>4, <1>5, <1>6, <1>11, <1>12, <1>13, HiloCambia DEF Compartido

(* Setting the bits of a written file preserves Inv.                       *)
LEMMA PasoActualizarBitMap ==
    ASSUME Inv, NEW t \in Hilos, ActualizarBitMapBloques(t), UNCHANGED <<lista, atencion, dataNodeVars>>
    PROVE  Inv'
<1>1. Compartido
  BY HiloBien
<1>2. /\ bitmap' = [n \in Nodes |-> bitmap'[n]]
      /\ \A n \in Nodes : bitmap'[n] \subseteq BlocksOf(n)
  BY <1>1 DEF Compartido, ProcessTypeOK, ActualizarBitMapBloques
<1>3. Compartido'
  BY <1>1, <1>2 DEF Compartido, ProcessTypeOK, NodesTypeOK, ArchivosBien, ActualizarBitMapBloques, dataNodeVars
<1> QED
  BY <1>3, PasoFinal DEF ActualizarBitMapBloques, Resultados

(* A file goes, and its replicas are to be freed.                          *)
LEMMA PasoEliminarArchivo ==
    ASSUME Inv, NEW t \in Hilos, NEW f \in Paths, EliminarArchivo(t, f),
           UNCHANGED <<lista, atencion, dataNodeVars>>
    PROVE  Inv'
<1>1. pedidos \in [dados : Nat, borra : BOOLEAN] /\ Compartido
  BY HiloBien DEF Compartido, ProcessTypeOK
<1>2. pedidos' \in [dados : Nat, borra : BOOLEAN]
  <2>1. pedidos' = [dados |-> pedidos.dados + 1, borra |-> pedidos.borra \/ (archivos[f] # NULL)]
    BY DEF EliminarArchivo, Order
  <2>2. pedidos.dados + 1 \in Nat /\ (pedidos.borra \/ (archivos[f] # NULL)) \in BOOLEAN
    BY <1>1
  <2> QED
    BY <2>1, <2>2
<1>3. CASE Ends(t, "NO_EXISTE") /\ UNCHANGED archivos
  <2>1. Compartido'
    BY <1>1, <1>2, <1>3 DEF EliminarArchivo, Compartido, ProcessTypeOK, NodesTypeOK, ArchivosBien, dataNodeVars
  <2> QED
    BY <1>3, <2>1, PasoFinal DEF Resultados
<1>4. CASE /\ archivos[f] # NULL /\ archivos' = [archivos EXCEPT ![f] = NULL]
           /\ hilo' = [hilo EXCEPT ![t] = [Idle("NADA") EXCEPT !.pc = "libera", !.path = f,
                                           !.libera = Replicas(archivos[f].bloques)]]
  <2> DEFINE L == Replicas(archivos[f].bloques)
             y == [Idle("NADA") EXCEPT !.pc = "libera", !.path = f, !.libera = L]
  <2>1. L \in Seq(Replica) /\ Len(L) > 0
    <3>1. archivos[f].bloques \in Seq(Bloques) /\ Len(archivos[f].bloques) > 0
      BY <1>1, <1>4 DEF Compartido, ProcessTypeOK, Metadata, ArchivosBien
    <3> QED
      BY <3>1, ReplicasSon
  <2> HIDE DEF L
  <2>2. Bien(y) /\ y.pc \notin Leyendo
    <3>1. Idle("NADA") \in LocalesDeHilo
      BY LibreBien DEF Bien, Resultados
    <3>2. y \in LocalesDeHilo
      BY <2>1, <3>1 DEF LocalesDeHilo, Liberando
    <3>3. y.pc = "libera" /\ y.res = <<>> /\ y.libera = L /\ y.i = 1
      BY DEF Idle
    <3> HIDE DEF y
    <3>4. 1 \in DOMAIN L
      BY <2>1
    <3> QED
      BY <3>2, <3>3, <3>4 DEF Bien, ReservaBien, LiberaBien, Escribiendo, Liberando, Leyendo
  <2>3. hilo' = [hilo EXCEPT ![t] = y]
    BY <1>4 DEF L
  <2> HIDE DEF y
  <2>4. \A g \in Paths : archivos'[g] = IF g = f THEN NULL ELSE archivos[g]
    BY <1>1, <1>4 DEF Compartido, ProcessTypeOK
  <2>5. archivos' = [g \in Paths |-> archivos'[g]]
    BY <1>1, <1>4 DEF Compartido, ProcessTypeOK
  <2>6. Compartido'
    <3>1. \A g \in Paths : archivos'[g] \in Metadata(g) \cup {NULL}
      BY <1>1, <2>4 DEF Compartido, ProcessTypeOK
    <3>2. ArchivosBien'
      BY <1>1, <2>4 DEF Compartido, ArchivosBien
    <3>3. ProcessTypeOK' /\ NodesTypeOK'
      BY <1>1, <1>2, <2>5, <3>1 DEF EliminarArchivo, Compartido, ProcessTypeOK, NodesTypeOK, dataNodeVars
    <3> QED
      BY <3>2, <3>3 DEF Compartido
  <2>7. LecturaBien(y, lista')
    BY <2>2, NoLee
  <2> QED
    BY <2>2, <2>3, <2>6, <2>7, HiloCambia
<1> QED
  BY <1>3, <1>4 DEF EliminarArchivo

(* Freeing a block of a removed file preserves Inv.                        *)
LEMMA PasoLiberarBloque ==
    ASSUME Inv, NEW t \in Hilos, LiberarBloque(t), UNCHANGED <<lista, atencion, dataNodeVars>>
    PROVE  Inv'
<1> DEFINE x == hilo[t]
           y == [x EXCEPT !.pc = "guardaLibre", !.cfg = nodosBin]
           r == x.libera[x.i]
<1>1. Bien(x) /\ x.pc = "libera" /\ x \in LocalesDeHilo /\ Compartido /\ nodosBin \in Config
  BY HiloBien DEF LiberarBloque, At, Compartido, ProcessTypeOK
<1>2. /\ hilo' = [hilo EXCEPT ![t] = y]
      /\ bitmap' = [bitmap EXCEPT ![r.nodo] = @ \ {r.bloque}]
      /\ libre' = [libre EXCEPT ![r.nodo] = @ + 1]
  BY Zenon DEF LiberarBloque
<1>3. y.pc \notin Leyendo
  BY <1>1 DEF LocalesDeHilo, Leyendo
<1>4. Bien(y)
  <2> HIDE DEF x
  <2> QED
    BY <1>1, LiberarBien
<1>5. Compartido'
  <2>3. r.nodo \in Nodes
    <3>1. r \in Replica
      BY <1>1, CamposDeHilo DEF Bien, LiberaBien, Liberando
    <3> HIDE DEF r
    <3> QED
      BY <3>1 DEF Replica
  <2> HIDE DEF r
  <2>1. /\ bitmap' = [n \in Nodes |-> bitmap'[n]]
        /\ \A n \in Nodes : bitmap'[n] \subseteq BlocksOf(n)
    BY <1>1, <1>2 DEF Compartido, ProcessTypeOK
  <2>2. libre' \in [Nodes -> Int]
    BY <1>1, <1>2, <2>3 DEF Compartido, ProcessTypeOK
  <2> QED
    BY <1>1, <2>1, <2>2 DEF Compartido, ProcessTypeOK, NodesTypeOK, ArchivosBien, LiberarBloque, dataNodeVars
<1> HIDE DEF y
<1>6. LecturaBien(y, lista')
  BY <1>3, NoLee
<1> QED
  BY <1>2, <1>3, <1>4, <1>5, <1>6, HiloCambia

(* Saving the count of a freed block preserves Inv.                        *)
LEMMA PasoGuardarLibre ==
    ASSUME Inv, NEW t \in Hilos, GuardarLibre(t), UNCHANGED <<lista, atencion, dataNodeVars>>
    PROVE  Inv'
<1> DEFINE x == hilo[t]
           y == [x EXCEPT !.i = @ + 1, !.pc = "libera", !.cfg = NULL]
           r == x.libera[x.i]
<1>1. Bien(x) /\ x.pc = "guardaLibre" /\ x \in LocalesDeHilo
  BY HiloBien DEF GuardarLibre, At
<1>2. x.cfg \in Config /\ r.nodo \in Nodes
  <2>1. x.cfg \in Config /\ x.i \in DOMAIN x.libera /\ x.libera \in Seq(Replica)
    BY <1>1, CamposDeHilo DEF Bien, LiberaBien, Liberando
  <2>2. r \in Replica
    BY <2>1
  <2> HIDE DEF r
  <2> QED
    BY <2>1, <2>2 DEF Replica
<1>3. /\ nodosBin' = UpdatedBin(x.cfg, r.nodo)
      /\ UNCHANGED <<fs, libre, activo, bitmap, archivos, semEscritura, pedidos, lista, atencion, dataNodeVars>>
      /\ IF x.i = Len(x.libera) THEN Ends(t, "ELIMINADO") ELSE hilo' = [hilo EXCEPT ![t] = y]
  BY Zenon DEF GuardarLibre
<1>4. Compartido'
  <2> HIDE DEF x, r
  <2> QED
    BY <1>2, <1>3, BinGuardado
<1>5. CASE x.i = Len(x.libera)
  <2> HIDE DEF x, r
  <2> QED
    BY <1>3, <1>4, <1>5, PasoFinal DEF Resultados
<1>6. CASE x.i # Len(x.libera)
  <2>1. Bien(y)
    <3>1. PICK cfg \in Config : TRUE
      BY <1>2
    <3> HIDE DEF x
    <3> QED
      BY <1>1, <1>6, <3>1, LiberarBien
  <2>2. y.pc \notin Leyendo
    BY <1>1 DEF LocalesDeHilo, Leyendo
  <2> HIDE DEF y, r
  <2>3. LecturaBien(y, lista')
    BY <2>2, NoLee
  <2> QED
    BY <1>3, <1>4, <1>6, <2>1, <2>2, <2>3, HiloCambia
<1> QED
  BY <1>5, <1>6

(* The command that reads a file preserves Inv.                            *)
LEMMA PasoLeerArchivo ==
    ASSUME Inv, NEW t \in Hilos, NEW f \in Paths, LeerArchivo(t, f), UNCHANGED dataNodeVars
    PROVE  Inv'
<1>1. pedidos \in [dados : Nat, borra : BOOLEAN] /\ Compartido /\ fs \in {"up", "exit", "sigpipe", "segfault"}
  BY HiloBien DEF Compartido, ProcessTypeOK
<1>2. pedidos' \in [dados : Nat, borra : BOOLEAN]
  <2>1. pedidos' = [dados |-> pedidos.dados + 1, borra |-> pedidos.borra \/ FALSE]
    BY DEF LeerArchivo, Order
  <2>2. pedidos.dados + 1 \in Nat /\ (pedidos.borra \/ FALSE) \in BOOLEAN
    BY <1>1
  <2> QED
    BY <2>1, <2>2
<1>3. Compartido' /\ lista' = lista /\ t = Consola
  BY <1>1, <1>2, NadaCompartido DEF LeerArchivo
<1>4. CASE Ends(t, "NO_EXISTE")
  BY <1>3, <1>4, PasoFinal DEF Resultados
<1>5. CASE /\ archivos[f] # NULL
           /\ hilo' = [hilo EXCEPT ![t] = [Idle("NADA") EXCEPT !.pc = "elige", !.path = f,
                                                              !.info = archivos[f].bloques]]
  <2> DEFINE info == archivos[f].bloques
             y == [Idle("NADA") EXCEPT !.pc = "elige", !.path = f, !.info = info]
  <2>1. info \in Seq(Bloques) /\ Len(info) > 0
    BY <1>1, <1>5 DEF Compartido, ProcessTypeOK, Metadata, ArchivosBien
  <2>2. hilo' = [hilo EXCEPT ![t] = y]
    BY <1>5
  <2> HIDE DEF info
  <2>3. y \in LocalesDeHilo
    <3>1. Idle("NADA") \in LocalesDeHilo
      BY LibreBien DEF Bien, Resultados
    <3> QED
      BY <2>1, <3>1 DEF LocalesDeHilo, Leyendo
  <2>4. y.pc = "elige" /\ y.res = <<>> /\ y.libera = <<>> /\ y.info = info
    BY DEF Idle
  <2> HIDE DEF y
  <2>5. Bien(y) /\ LecturaBien(y, lista')
    BY <2>1, <2>3, <2>4, LectorBien DEF LecturaBien, Leyendo
  <2> QED
    BY <1>3, <2>2, <2>5, HiloCambia
<1> QED
  BY <1>4, <1>5 DEF LeerArchivo

(* What holds of the console while it reads.                               *)
LEMMA LeyendoEs ==
    ASSUME Inv, NEW t \in Hilos, hilo[t].pc \in Leyendo
    PROVE  /\ t = Consola /\ hilo[t] \in LocalesDeHilo /\ hilo[t].res = <<>> /\ hilo[t].libera = <<>>
           /\ hilo[t].info \in Seq(Bloques) /\ hilo[t].sel \in Seq(Nodes) /\ Len(hilo[t].info) > 0
           /\ LecturaBien(hilo[t], lista) /\ Compartido
           /\ fs \in {"up", "exit", "sigpipe", "segfault"} /\ pedidos \in [dados : Nat, borra : BOOLEAN]
<1>1. Bien(hilo[t]) /\ LecturaBien(hilo[t], lista) /\ t = Consola /\ Compartido
  BY HiloBien
<1>2. /\ hilo[t] \in LocalesDeHilo /\ hilo[t].res = <<>> /\ hilo[t].libera = <<>>
      /\ hilo[t].info \in Seq(Bloques) /\ hilo[t].sel \in Seq(Nodes)
  BY <1>1, LectorBien, CamposDeHilo DEF Bien
<1>3. Len(hilo[t].info) > 0
  BY <1>1 DEF LecturaBien
<1> QED
  BY <1>1, <1>2, <1>3 DEF Compartido, ProcessTypeOK

(* The console goes on with its read.                                      *)
LEMMA PasoLector ==
    ASSUME Inv, NEW t \in Hilos, hilo[t].pc \in Leyendo, NEW y \in LocalesDeHilo, y.pc \in Leyendo,
           y.res = hilo[t].res, y.libera = hilo[t].libera, LecturaBien(y, lista'),
           hilo' = [hilo EXCEPT ![t] = y], Compartido'
    PROVE  Inv'
<1>1. t = Consola /\ y.res = <<>> /\ y.libera = <<>>
  BY LeyendoEs
<1>2. Bien(y)
  BY <1>1, LectorBien
<1> QED
  BY <1>1, <1>2, HiloCambia

(* The list of a read changes and nothing else that is shared does.        *)
LEMMA ListaCambia ==
    ASSUME Inv, UNCHANGED <<blockVars, activo, atencion, pedidos, fs, dataNodeVars>>,
           lista' \in Seq(Lecturas) \cup {NULL}
    PROVE  Compartido'
<1>1. Compartido
  BY DEF Inv, TypeOK, Compartido
<1> QED
  BY <1>1 DEF Compartido, ProcessTypeOK, NodesTypeOK, ArchivosBien, blockVars, dataNodeVars

(* Choosing the nodes of a read preserves Inv.                             *)
LEMMA PasoElegirNodos ==
    ASSUME Inv, NEW t \in Hilos, ElegirNodos(t), UNCHANGED dataNodeVars
    PROVE  Inv'
<1> DEFINE x == hilo[t]
<1>1. /\ x.pc = "elige" /\ x.pc \in Leyendo /\ lista' = <<>>
      /\ UNCHANGED <<blockVars, activo, atencion, pedidos, fs, dataNodeVars>>
  BY DEF ElegirNodos, At, Leyendo
<1>2. x \in LocalesDeHilo /\ x.info \in Seq(Bloques) /\ Len(x.info) > 0
  BY <1>1, LeyendoEs
<1>3. PICK sel \in ObtenerNodosALeer(x.info, x.exc) : hilo' = [hilo EXCEPT ![t].pc = "prepara", ![t].sel = sel]
  BY DEF ElegirNodos, BloquesLeidos
<1>4. /\ sel \in Seq(Nodes) /\ Len(sel) = Len(x.info)
      /\ \A k \in DOMAIN sel : sel[k] \in HoldersOf(x.info[k])
  <2>1. sel \in Seq(Nodes) /\ Len(sel) = Len(x.info)
        /\ \A b \in DOMAIN x.info : sel[b] \in HoldersOf(x.info[b])
    <3> HIDE DEF x
    <3> QED
      BY <1>2, SeleccionCompleta
  <2>2. DOMAIN sel = DOMAIN x.info
    BY <1>2, <2>1
  <2> QED
    BY <2>1, <2>2
<1> DEFINE y == [x EXCEPT !.pc = "prepara", !.sel = sel]
<1>5. y \in LocalesDeHilo
  BY <1>2, <1>4 DEF LocalesDeHilo, Leyendo
<1>6. /\ y.pc = "prepara" /\ y.sel = sel /\ y.info = x.info /\ y.res = x.res /\ y.libera = x.libera
      /\ hilo' = [hilo EXCEPT ![t] = y]
  BY <1>2, <1>3 DEF LocalesDeHilo
<1> HIDE DEF y
<1>7. LecturaBien(y, lista')
  <2>1. lista' \in Seq(Lecturas) /\ DOMAIN lista' = {} /\ Len(lista') = 0
    BY <1>1
  <2> QED
    BY <2>1, <1>2, <1>4, <1>6 DEF LecturaBien, Leyendo
<1>8. Compartido'
  BY <1>1, ListaCambia
<1> QED
  BY <1>1, <1>5, <1>6, <1>7, <1>8, PasoLector DEF Leyendo

(* The ends of a read, refused or answered, preserve Inv.                  *)
LEMMA PasoFinDeLectura ==
    ASSUME Inv, NEW t \in Hilos, NoHayNodos(t) \/ RevisarLectura(t) \/ ArmarRespuesta(t),
           UNCHANGED dataNodeVars
    PROVE  Inv'
<1> DEFINE x == hilo[t]
<1>1. /\ x.pc \in {"elige", "revisa", "arma"} /\ x.pc \in Leyendo
      /\ UNCHANGED <<blockVars, activo, atencion, pedidos, fs, dataNodeVars>>
      /\ lista' \in {lista, NULL}
  BY DEF NoHayNodos, RevisarLectura, ArmarRespuesta, At, Leyendo
<1>2. x \in LocalesDeHilo /\ LecturaBien(x, lista) /\ lista \in Seq(Lecturas) \cup {NULL} /\ t = Consola
  BY <1>1, LeyendoEs DEF Compartido, ProcessTypeOK
<1>3. Compartido'
  BY <1>1, <1>2, ListaCambia
<1>4. CASE Ends(t, "NODO_DESCONECTADO")
  BY <1>2, <1>3, <1>4, PasoFinal DEF Resultados
<1>5. CASE RevisarLectura(t) /\ hilo' = [hilo EXCEPT ![t].pc = "arma"]
  <2> DEFINE y == [x EXCEPT !.pc = "arma"]
  <2>1. x.pc = "revisa" /\ lista' = lista
    BY <1>5 DEF RevisarLectura, At
  <2>2. y \in LocalesDeHilo
    <3> HIDE DEF x
    <3>1. x \in LocalesDeHilo
      BY <1>2
    <3> QED
      BY <3>1 DEF LocalesDeHilo, Leyendo
  <2>3. /\ y.pc = "arma" /\ y.sel = x.sel /\ y.info = x.info /\ y.res = x.res /\ y.libera = x.libera
        /\ hilo' = [hilo EXCEPT ![t] = y]
    BY <1>2, <1>5 DEF LocalesDeHilo
  <2> HIDE DEF y
  <2>4. LecturaBien(y, lista')
    BY <1>2, <2>1, <2>3 DEF LecturaBien, Leyendo
  <2> QED
    BY <1>1, <1>3, <2>2, <2>3, <2>4, PasoLector DEF Leyendo
<1>6. CASE ArmarRespuesta(t)
  <2> DEFINE leido == [i \in DOMAIN lista |-> lista[i].lectura]
             y == [Idle("LEIDO") EXCEPT !.path = x.path, !.leido = leido]
  <2>1. lista \in Seq(Lecturas) /\ hilo' = [hilo EXCEPT ![t] = y]
    BY <1>2, <1>6 DEF LecturaBien, Leyendo, ArmarRespuesta, At
  <2>2. leido \in Seq(Datos \cup {NULL})
    <3>1. Len(lista) \in Nat /\ DOMAIN lista = 1 .. Len(lista)
      BY <2>1
    <3>2. \A i \in DOMAIN lista : lista[i].lectura \in Datos \cup {NULL}
      <4>1. \A i \in DOMAIN lista : lista[i] \in Lecturas
        BY <2>1
      <4>2. \A e \in Lecturas : e.lectura \in Datos \cup {NULL}
        BY DEF Lecturas
      <4> QED
        BY <4>1, <4>2
    <3>3. leido \in [1 .. Len(lista) -> Datos \cup {NULL}]
      BY <3>1, <3>2
    <3> QED
      BY <3>1, <3>3
  <2> HIDE DEF leido
  <2>3. x.path \in Paths \cup {NULL}
    BY <1>2, CamposDeHilo
  <2>4. y \in LocalesDeHilo
    <3>1. Idle("LEIDO") \in LocalesDeHilo
      BY LibreBien DEF Bien, Resultados
    <3> HIDE DEF x
    <3> QED
      BY <2>2, <2>3, <3>1 DEF LocalesDeHilo
  <2>5. y.pc = "libre" /\ y.res = <<>> /\ y.libera = <<>>
    BY DEF Idle
  <2> HIDE DEF y
  <2>6. Bien(y) /\ LecturaBien(y, lista') /\ y.pc \notin Leyendo
    BY <2>4, <2>5 DEF Bien, ReservaBien, LiberaBien, LecturaBien, Escribiendo, Liberando, Leyendo
  <2> QED
    BY <1>2, <1>3, <2>1, <2>6, HiloCambia
<1> QED
  BY <1>4, <1>5, <1>6 DEF NoHayNodos, RevisarLectura

(* Preparing the list of a read preserves Inv.                             *)
LEMMA PasoPrepararLectura ==
    ASSUME Inv, NEW t \in Hilos, PrepararLectura(t), UNCHANGED dataNodeVars
    PROVE  Inv'
<1> DEFINE x == hilo[t]
           k == Len(lista) + 1
           e == Lectura(k, x.sel[k])
           pc == IF Len(lista') = Len(x.sel) THEN "pide" ELSE "prepara"
           y == [x EXCEPT !.i = 1, !.pc = pc]
<1>1. /\ x.pc = "prepara" /\ x.pc \in Leyendo /\ lista' = Append(lista, e)
      /\ UNCHANGED <<blockVars, activo, atencion, pedidos, fs, dataNodeVars>>
      /\ hilo' = [hilo EXCEPT ![t].i = 1, ![t].pc = pc]
  BY DEF PrepararLectura, At, Leyendo
<1>2. /\ x \in LocalesDeHilo /\ LecturaBien(x, lista) /\ x.sel \in Seq(Nodes)
      /\ lista \in Seq(Lecturas) /\ Len(lista) < Len(x.sel) /\ Len(lista) \in Nat /\ Len(x.sel) \in Nat
      /\ Len(x.sel) = Len(x.info) /\ Len(x.info) > 0
  <2>1. x \in LocalesDeHilo /\ LecturaBien(x, lista) /\ x.sel \in Seq(Nodes) /\ Len(x.info) > 0
    BY <1>1, LeyendoEs
  <2>2. lista \in Seq(Lecturas) /\ Len(lista) < Len(x.sel) /\ Len(x.sel) = Len(x.info)
    BY <1>1, <2>1 DEF LecturaBien, Leyendo
  <2> QED
    BY <2>1, <2>2
<1>3. e \in Lecturas /\ e.nroBloque = k /\ e.idNodo = x.sel[k] /\ k <= Len(x.sel) /\ k \in Nat
  <2>1. k \in Nat /\ x.sel[k] \in Nodes /\ k <= Len(x.sel)
    BY <1>2
  <2> HIDE DEF k
  <2> QED
    BY <2>1 DEF Lectura, Lecturas
<1> HIDE DEF e
<1>4. /\ lista' \in Seq(Lecturas) /\ Len(lista') = k
      /\ \A j \in 1 .. k : lista'[j] = IF j = k THEN e ELSE lista[j]
  BY <1>1, <1>2, <1>3
<1>5. pc \in {"pide", "prepara"} /\ (pc = "prepara" => k < Len(x.sel)) /\ (pc = "pide" => k = Len(x.sel))
  BY <1>2, <1>3, <1>4
<1> HIDE DEF pc
<1>6. y \in LocalesDeHilo
  <2>1. x \in LocalesDeHilo
    BY <1>2
  <2>2. pc \in Leyendo /\ 1 \in Nat \ {0}
    BY <1>5 DEF Leyendo
  <2> HIDE DEF x
  <2> QED
    BY <2>1, <2>2 DEF LocalesDeHilo
<1>7. /\ y.pc = pc /\ y.i = 1 /\ y.sel = x.sel /\ y.info = x.info /\ y.res = x.res /\ y.libera = x.libera
      /\ hilo' = [hilo EXCEPT ![t] = y]
  <2>1. x \in LocalesDeHilo
    BY <1>2
  <2> QED
    BY <1>1, <2>1 DEF LocalesDeHilo
<1>8. LecturaBien(y, lista')
  <2>1. ASSUME NEW j \in DOMAIN lista'
        PROVE  lista'[j].nroBloque = j /\ j <= Len(x.sel) /\ lista'[j].idNodo = x.sel[j]
    <3>1. j \in 1 .. k
      BY <1>4
    <3>2. CASE j = k
      BY <3>1, <3>2, <1>3, <1>4
    <3>3. CASE j # k
      <4>1. j \in DOMAIN lista /\ lista'[j] = lista[j]
        BY <3>1, <3>3, <1>2, <1>4
      <4>2. lista[j].nroBloque = j /\ j <= Len(x.sel) /\ lista[j].idNodo = x.sel[j]
        BY <4>1, <1>1, <1>2 DEF LecturaBien, Leyendo
      <4> QED
        BY <4>1, <4>2
    <3> QED
      BY <3>2, <3>3
  <2>2. \A j \in DOMAIN x.sel : x.sel[j] \in HoldersOf(x.info[j])
    BY <1>1, <1>2 DEF LecturaBien, Leyendo
  <2>3. 1 \in DOMAIN x.sel
    BY <1>2
  <2> HIDE DEF y, k
  <2> QED
    BY <1>2, <1>4, <1>5, <1>7, <2>1, <2>2, <2>3 DEF LecturaBien, Leyendo
<1>9. Compartido'
  BY <1>1, <1>4, ListaCambia
<1> HIDE DEF y
<1> QED
  BY <1>1, <1>5, <1>6, <1>7, <1>8, <1>9, PasoLector DEF Leyendo

(* An entry of the list of a read: the node it names, which holds the      *)
(* block.                                                                  *)
LEMMA EntradaDeLista ==
    ASSUME Inv, NEW t \in Hilos, hilo[t].pc \in {"pide", "aguarda"}
    PROVE  LET x == hilo[t] IN
           /\ lista \in Seq(Lecturas) /\ Len(lista) = Len(x.sel) /\ Len(x.sel) = Len(x.info)
           /\ x.i \in DOMAIN lista /\ x.i \in 1 .. Len(x.info) /\ lista[x.i] \in Lecturas
           /\ lista[x.i].idNodo \in Nodes /\ lista[x.i].idNodo \in HoldersOf(x.info[x.i])
           /\ x.info[x.i] \in Bloques
<1> DEFINE x == hilo[t]
<1>1. /\ x \in LocalesDeHilo /\ LecturaBien(x, lista) /\ x.sel \in Seq(Nodes) /\ x.info \in Seq(Bloques)
  BY LeyendoEs DEF Leyendo
<1>2. /\ lista \in Seq(Lecturas) /\ Len(lista) = Len(x.sel) /\ Len(x.sel) = Len(x.info)
      /\ x.i \in DOMAIN x.sel
      /\ \A k \in DOMAIN x.sel : x.sel[k] \in HoldersOf(x.info[k])
      /\ \A k \in DOMAIN lista : lista[k].idNodo = x.sel[k]
  <2> HIDE DEF x
  <2> QED
    BY <1>1 DEF LecturaBien, Leyendo, x
<1>3. x.i \in DOMAIN lista /\ x.i \in 1 .. Len(x.info)
  BY <1>1, <1>2
<1>4. lista[x.i] \in Lecturas /\ x.info[x.i] \in Bloques
  BY <1>1, <1>2, <1>3
<1>5. lista[x.i].idNodo \in Nodes
  BY <1>4 DEF Lecturas
<1> QED
  BY <1>2, <1>3, <1>4, <1>5

(* Excluding a node that did not answer preserves Inv.                     *)
LEMMA PasoExcluirNodo ==
    ASSUME Inv, NEW t \in Hilos, ExcluirNodo(t), UNCHANGED dataNodeVars
    PROVE  Inv'
<1> DEFINE x == hilo[t]
           n == lista[x.i].idNodo
           exc == x.exc \cup {n}
           y == [x EXCEPT !.exc = exc, !.pc = "elige"]
<1>1. /\ x.pc = "pide" /\ x.pc \in Leyendo /\ lista' = lista
      /\ UNCHANGED <<blockVars, activo, atencion, pedidos, fs, dataNodeVars>>
      /\ hilo' = [hilo EXCEPT ![t].exc = @ \cup {n}, ![t].pc = "elige"]
  BY DEF ExcluirNodo, At, Leyendo
<1>2. x \in LocalesDeHilo /\ Len(x.info) > 0 /\ Compartido
  BY <1>1, LeyendoEs
<1>3. n \in Nodes
  BY <1>1, EntradaDeLista
<1>4. exc \in SUBSET Nodes
  BY <1>2, <1>3, CamposDeHilo
<1>5. hilo' = [hilo EXCEPT ![t] = y]
  BY <1>1, Zenon
<1> HIDE DEF exc
<1>6. y \in LocalesDeHilo /\ y.pc = "elige" /\ y.info = x.info /\ y.res = x.res /\ y.libera = x.libera
  <2>1. x \in LocalesDeHilo
    BY <1>2
  <2> HIDE DEF x
  <2> QED
    BY <1>4, <2>1 DEF LocalesDeHilo, Leyendo
<1> HIDE DEF y
<1>7. LecturaBien(y, lista')
  BY <1>2, <1>6 DEF LecturaBien
<1>8. Compartido'
  BY <1>1, <1>2, ListaCambia DEF Compartido, ProcessTypeOK
<1> QED
  BY <1>1, <1>5, <1>6, <1>7, <1>8, PasoLector DEF Leyendo

(* The next of the blocks that a thread asks or waits for.                 *)
LEMMA SiguienteBien ==
    ASSUME NEW x \in LocalesDeHilo, x.pc \in {"pide", "aguarda"}, NEW l, LecturaBien(x, l),
           NEW pc \in {"pide", "aguarda", "revisa"}
    PROVE  LET y == [NextWait(x, Len(x.info)) EXCEPT !.pc = pc] IN
           /\ y \in LocalesDeHilo /\ y.pc = pc /\ y.res = x.res /\ y.libera = x.libera
           /\ LecturaBien(y, l)
<1> DEFINE i == IF x.i = Len(x.info) THEN 1 ELSE x.i + 1
           y == [x EXCEPT !.i = i, !.pc = pc]
           z == [NextWait(x, Len(x.info)) EXCEPT !.pc = pc]
<1>1. x.sel \in Seq(Nodes) /\ x.info \in Seq(Bloques) /\ x.i \in Nat
  BY CamposDeHilo
<1>2. /\ Len(x.sel) = Len(x.info) /\ x.i \in 1 .. Len(x.info) /\ l \in Seq(Lecturas) /\ Len(l) = Len(x.sel)
      /\ \A k \in DOMAIN x.sel : x.sel[k] \in HoldersOf(x.info[k])
      /\ \A k \in DOMAIN l : l[k].nroBloque = k /\ k <= Len(x.sel) /\ l[k].idNodo = x.sel[k]
      /\ Len(x.info) > 0
  BY <1>1 DEF LecturaBien, Leyendo
<1>3. i \in 1 .. Len(x.info) /\ i \in Nat \ {0} /\ i \in DOMAIN x.sel
  BY <1>1, <1>2
<1>4. z = y
  BY DEF NextWait, LocalesDeHilo
<1> HIDE DEF i, z
<1>5. y \in LocalesDeHilo
  BY <1>3 DEF LocalesDeHilo, Leyendo
<1>6. y.pc = pc /\ y.i = i /\ y.sel = x.sel /\ y.info = x.info /\ y.res = x.res /\ y.libera = x.libera
  BY DEF LocalesDeHilo
<1> HIDE DEF y
<1>7. LecturaBien(y, l)
  BY <1>2, <1>3, <1>6 DEF LecturaBien, Leyendo
<1> QED
  BY <1>4, <1>5, <1>6, <1>7 DEF z

(* Asking a node for a block preserves Inv.                                *)
LEMMA PasoPedirBloque ==
    ASSUME Inv, NEW t \in Hilos, PedirBloque(t), UNCHANGED <<vivo, disco, salida, muertes>>
    PROVE  Inv'
<1> DEFINE x == hilo[t]
           n == lista[x.i].idNodo
           bi == x.info[x.i]
           id == IdBloqueOn(bi, n)
           last == Len(x.info)
           pc == IF x.i = last THEN "aguarda" ELSE "pide"
           y == [NextWait(x, last) EXCEPT !.pc = pc]
<1>1. x.pc = "pide" /\ x.pc \in Leyendo
  BY DEF PedirBloque, At, Leyendo
<1>2. /\ x \in LocalesDeHilo /\ LecturaBien(x, lista) /\ t = Consola /\ x.res = <<>> /\ x.libera = <<>>
      /\ hilo \in [Hilos -> LocalesDeHilo]
  BY <1>1, LeyendoEs, HiloBien
<1>3. n \in Nodes /\ n \in HoldersOf(bi) /\ bi \in Bloques /\ x.i \in Nat
  <2>1. n \in Nodes /\ n \in HoldersOf(bi) /\ bi \in Bloques /\ x.i \in 1 .. Len(x.info)
    BY <1>1, EntradaDeLista
  <2> QED
    BY <2>1
<1> HIDE DEF n, bi
<1>4. GetBloque(id, x.i) \in Pedidos(n)
  <2>1. /\ bi.copias[1] \in Replica /\ bi.copias[2] \in Replica
        /\ n \in {bi.copias[1].nodo, bi.copias[2].nodo}
    <3>1. 1 \in 1 .. 2 /\ 2 \in 1 .. 2
      OBVIOUS
    <3> QED
      BY <1>3, <3>1, BloqueEs
  <2>2. id \in BlocksOf(n)
    BY <2>1 DEF IdBloqueOn, Replica
  <2> HIDE DEF id, x
  <2> QED
    BY <1>3, <2>2 DEF GetBloque, Pedidos
<1>5. pc \in {"pide", "aguarda", "revisa"} /\ pc \in Leyendo
  BY DEF Leyendo
<1>6. /\ y \in LocalesDeHilo /\ y.pc = pc /\ y.res = x.res /\ y.libera = x.libera
      /\ LecturaBien(y, lista)
  <2> HIDE DEF pc, x
  <2> QED
    BY <1>1, <1>2, <1>5, SiguienteBien
<1>7. Bien(y)
  <2> HIDE DEF y
  <2> QED
    BY <1>2, <1>5, <1>6, LectorBien
<1>8. /\ SendTo(n, GetBloque(id, x.i), hilo' = [hilo EXCEPT ![t] = y])
      /\ UNCHANGED <<blockVars, activo, lista, atencion, pedidos>>
  <2>1. /\ SendTo(n, GetBloque(id, x.i), hilo' = [hilo EXCEPT ![t] = NextWait(x, last), ![t].pc = pc])
        /\ UNCHANGED <<blockVars, activo, lista, atencion, pedidos>>
    BY Zenon DEF PedirBloque, BloquesLeidos, n, bi
  <2>2. [hilo EXCEPT ![t] = NextWait(x, last), ![t].pc = pc] = [hilo EXCEPT ![t] = y]
    <3> HIDE DEF pc, last
    <3> QED
      BY <1>2
  <2> QED
    BY <2>1, <2>2, Zenon
<1> HIDE DEF y, id, x
<1> QED
  BY <1>2, <1>3, <1>4, <1>6, <1>7, <1>8, PasoManda

(* Waiting for the blocks of a read preserves Inv.                         *)
LEMMA PasoEsperarLectura ==
    ASSUME Inv, NEW t \in Hilos, EsperarLectura(t), UNCHANGED dataNodeVars
    PROVE  Inv'
<1> DEFINE x == hilo[t]
           last == Len(x.info)
           pc == IF x.i = last THEN "revisa" ELSE "aguarda"
           y == [NextWait(x, last) EXCEPT !.pc = pc]
           e == [lista[x.i] EXCEPT !.oks = @ - 1]
<1>1. /\ x.pc = "aguarda" /\ x.pc \in Leyendo /\ lista[x.i].oks > 0
      /\ lista' = [lista EXCEPT ![x.i] = e]
      /\ UNCHANGED <<blockVars, activo, atencion, pedidos, fs, dataNodeVars>>
  BY DEF EsperarLectura, At, Leyendo
<1>2. /\ x \in LocalesDeHilo /\ LecturaBien(x, lista) /\ hilo \in [Hilos -> LocalesDeHilo]
  BY <1>1, LeyendoEs, HiloBien
<1>3. lista \in Seq(Lecturas) /\ x.i \in DOMAIN lista /\ lista[x.i] \in Lecturas
  BY <1>1, EntradaDeLista
<1>4. e \in Lecturas /\ e.nroBloque = lista[x.i].nroBloque /\ e.idNodo = lista[x.i].idNodo
  <2> DEFINE d == lista[x.i]
             oks == d.oks - 1
  <2>1. d \in Lecturas /\ d.oks > 0
    BY <1>1, <1>3
  <2>2. oks \in Nat
    <3> HIDE DEF d
    <3> QED
      BY <2>1 DEF Lecturas
  <2> HIDE DEF d, oks
  <2>3. [d EXCEPT !.oks = oks] \in Lecturas
    BY <2>1, <2>2 DEF Lecturas
  <2>4. [d EXCEPT !.oks = oks].nroBloque = d.nroBloque /\ [d EXCEPT !.oks = oks].idNodo = d.idNodo
    BY <2>1 DEF Lecturas
  <2> QED
    BY <2>3, <2>4 DEF d, oks
<1> HIDE DEF e
<1>5. /\ lista' \in Seq(Lecturas) /\ Len(lista') = Len(lista)
      /\ \A k \in DOMAIN lista' : /\ k \in DOMAIN lista /\ lista'[k].nroBloque = lista[k].nroBloque
                                  /\ lista'[k].idNodo = lista[k].idNodo
  BY <1>1, <1>3, <1>4
<1>6. LecturaBien(x, lista')
  <2> HIDE DEF x
  <2> QED
    BY <1>2, <1>3, <1>5 DEF LecturaBien
<1>7. /\ y \in LocalesDeHilo /\ y.pc = pc /\ y.res = x.res /\ y.libera = x.libera
      /\ LecturaBien(y, lista')
  <2>1. pc \in {"pide", "aguarda", "revisa"}
    OBVIOUS
  <2> HIDE DEF pc, x
  <2> QED
    BY <1>1, <1>2, <1>6, <2>1, SiguienteBien
<1>8. hilo' = [hilo EXCEPT ![t] = y]
  <2>1. hilo' = [hilo EXCEPT ![t] = NextWait(x, last), ![t].pc = pc]
    BY Zenon DEF EsperarLectura, BloquesLeidos
  <2> HIDE DEF pc, last
  <2> QED
    BY <1>2, <2>1
<1>9. pc \in Leyendo
  BY DEF Leyendo
<1>10. Compartido'
  BY <1>1, <1>5, ListaCambia
<1> HIDE DEF y, pc
<1> QED
  BY <1>1, <1>7, <1>8, <1>9, <1>10, PasoLector

(* What an answer tells the list of the read in course.                    *)
LEMMA ListaRespondida ==
    ASSUME Inv, lista # NULL, lista' = [k \in DOMAIN lista |-> lista'[k]],
           \A k \in DOMAIN lista : /\ lista'[k] \in Lecturas
                                   /\ lista'[k].nroBloque = lista[k].nroBloque
                                   /\ lista'[k].idNodo = lista[k].idNodo
    PROVE  /\ lista' \in Seq(Lecturas) /\ Len(lista') = Len(lista)
           /\ hilo[Consola].pc \in Leyendo => LecturaBien(hilo[Consola], lista')
<1>1. lista \in Seq(Lecturas)
  BY DEF Inv, TypeOK, ProcessTypeOK
<1>2. Len(lista) \in Nat /\ DOMAIN lista = 1 .. Len(lista)
  BY <1>1
<1>3. lista' \in [1 .. Len(lista) -> Lecturas]
  BY <1>2
<1>4. lista' \in Seq(Lecturas) /\ Len(lista') = Len(lista) /\ DOMAIN lista' = DOMAIN lista
  BY <1>2, <1>3
<1>5. ASSUME hilo[Consola].pc \in Leyendo PROVE LecturaBien(hilo[Consola], lista')
  <2>1. LecturaBien(hilo[Consola], lista)
    BY FsWriteAssumption, HiloBien
  <2> QED
    BY <1>4, <2>1 DEF LecturaBien
<1> QED
  BY <1>4, <1>5

(* What the nodes have answered, once the first answer of one is taken.    *)
LEMMA RespuestaTomada ==
    ASSUME Inv, NEW n \in Nodes, NEW op, Arrives(n, op), Taken(n)
    PROVE  /\ salida' \in [Nodes -> Seq(Respuestas)] /\ Head(salida[n]) \in Respuestas
           /\ Head(salida[n]).op = op /\ fs = "up"
<1>1. salida \in [Nodes -> Seq(Respuestas)] /\ salida[n] # <<>>
  BY DEF Inv, TypeOK, NodesTypeOK, Arrives
<1>2. Tail(salida[n]) \in Seq(Respuestas) /\ Head(salida[n]) \in Respuestas
  BY <1>1
<1> QED
  BY <1>1, <1>2 DEF Taken, Arrives

(* A node's answer to a write, received, preserves Inv.                    *)
LEMMA PasoEscrituraOk ==
    ASSUME Inv, NEW n \in Nodes, EscrituraOk(n)
    PROVE  Inv'
<1>1. Compartido
  BY DEF Inv, TypeOK, Compartido
<1>2. salida' \in [Nodes -> Seq(Respuestas)]
  BY RespuestaTomada DEF EscrituraOk
<1>3. semEscritura' \in Nat
  BY <1>1 DEF Compartido, ProcessTypeOK, EscrituraOk
<1>4. Compartido'
  BY <1>1, <1>2, <1>3 DEF Compartido, ProcessTypeOK, NodesTypeOK, ArchivosBien, EscrituraOk
<1> QED
  BY <1>4, NadieSeMueve DEF EscrituraOk

(* A block received by the server thread preserves Inv.                    *)
LEMMA PasoLecturaOk ==
    ASSUME Inv, NEW n \in Nodes, LecturaOk(n)
    PROVE  Inv'
<1> DEFINE a == Head(salida[n])
<1>1. Compartido /\ lista # NULL /\ lista \in Seq(Lecturas)
  BY DEF Inv, TypeOK, Compartido, LecturaOk, ProcessTypeOK
<1>2. salida' \in [Nodes -> Seq(Respuestas)] /\ a \in Respuestas /\ a.op = "GET_BLOQUE_OK"
  BY RespuestaTomada DEF LecturaOk
<1>3. a.contenido \in Datos \cup {NULL}
  <2> HIDE DEF a
  <2> QED
    BY <1>2 DEF Respuestas
<1>4. lista' = [i \in DOMAIN lista |->
                  IF i \in Matching(a.nroBloque)
                  THEN [lista[i] EXCEPT !.lectura = a.contenido, !.oks = @ + 1] ELSE lista[i]]
  BY Zenon DEF LecturaOk
<1> HIDE DEF a
<1>5. ASSUME NEW k \in DOMAIN lista
      PROVE  /\ lista'[k] \in Lecturas /\ lista'[k].nroBloque = lista[k].nroBloque
             /\ lista'[k].idNodo = lista[k].idNodo
  <2> DEFINE d == lista[k]
             oks == d.oks + 1
             c == a.contenido
  <2>1. d \in Lecturas
    BY <1>1
  <2>2. lista'[k] = IF k \in Matching(a.nroBloque) THEN [d EXCEPT !.lectura = c, !.oks = oks] ELSE d
    BY <1>4
  <2>3. oks \in Nat /\ c \in Datos \cup {NULL}
    <3> HIDE DEF d
    <3> QED
      BY <1>3, <2>1 DEF Lecturas
  <2> HIDE DEF d, oks, c
  <2>4. [d EXCEPT !.lectura = c, !.oks = oks] \in Lecturas
    BY <2>1, <2>3 DEF Lecturas
  <2>5. /\ [d EXCEPT !.lectura = c, !.oks = oks].nroBloque = d.nroBloque
        /\ [d EXCEPT !.lectura = c, !.oks = oks].idNodo = d.idNodo
    BY <2>1 DEF Lecturas
  <2> QED
    BY <2>1, <2>2, <2>4, <2>5 DEF d
<1>6. lista' = [k \in DOMAIN lista |-> lista'[k]]
  BY <1>4
<1>7. /\ lista' \in Seq(Lecturas)
      /\ hilo[Consola].pc \in Leyendo => LecturaBien(hilo[Consola], lista')
  BY <1>1, <1>5, <1>6, ListaRespondida
<1>8. Compartido'
  BY <1>1, <1>2, <1>7 DEF Compartido, ProcessTypeOK, NodesTypeOK, ArchivosBien, LecturaOk, blockVars
<1> QED
  BY <1>7, <1>8, NadieSeMueve DEF LecturaOk

(* A disconnection, noticed, preserves Inv.                                *)
LEMMA PasoNodoDesconectado ==
    ASSUME Inv, NEW n \in Nodes, NodoDesconectado(n)
    PROVE  Inv'
<1>1. Compartido /\ lista \in Seq(Lecturas) \cup {NULL} /\ atencion \in [Nodes -> {"escucha", "desconecta", "fin"}]
  BY DEF Inv, TypeOK, Compartido, NodoDesconectado, ProcessTypeOK
<1>2. salida' \in [Nodes -> Seq(Respuestas)]
  BY RespuestaTomada DEF NodoDesconectado
<1>3. atencion' \in [Nodes -> {"escucha", "desconecta", "fin"}]
  BY <1>1 DEF NodoDesconectado
<1>4. CASE lista = NULL
  <2>1. lista' = lista
    BY <1>4 DEF NodoDesconectado
  <2>2. Compartido'
    BY <1>1, <1>2, <1>3, <2>1 DEF Compartido, ProcessTypeOK, NodesTypeOK, ArchivosBien, NodoDesconectado, blockVars
  <2> QED
    BY <2>1, <2>2, NadieSeMueve DEF NodoDesconectado
<1>5. CASE lista # NULL
  <2>1. lista' = [i \in DOMAIN lista |-> [lista[i] EXCEPT !.fallo = TRUE, !.oks = @ + 1]]
    BY <1>5 DEF NodoDesconectado
  <2>2. ASSUME NEW k \in DOMAIN lista
        PROVE  /\ lista'[k] \in Lecturas /\ lista'[k].nroBloque = lista[k].nroBloque
               /\ lista'[k].idNodo = lista[k].idNodo
    <3> DEFINE d == lista[k]
               oks == d.oks + 1
    <3>1. d \in Lecturas
      BY <1>1, <1>5
    <3>2. lista'[k] = [d EXCEPT !.fallo = TRUE, !.oks = oks]
      BY <2>1
    <3>3. oks \in Nat
      <4> HIDE DEF d
      <4> QED
        BY <3>1 DEF Lecturas
    <3> HIDE DEF d, oks
    <3>4. [d EXCEPT !.fallo = TRUE, !.oks = oks] \in Lecturas
      BY <3>1, <3>3 DEF Lecturas
    <3>5. /\ [d EXCEPT !.fallo = TRUE, !.oks = oks].nroBloque = d.nroBloque
          /\ [d EXCEPT !.fallo = TRUE, !.oks = oks].idNodo = d.idNodo
      BY <3>1 DEF Lecturas
    <3> QED
      BY <3>2, <3>4, <3>5 DEF d
  <2>3. lista' = [k \in DOMAIN lista |-> lista'[k]]
    BY <2>1
  <2>4. /\ lista' \in Seq(Lecturas)
        /\ hilo[Consola].pc \in Leyendo => LecturaBien(hilo[Consola], lista')
    BY <1>5, <2>2, <2>3, ListaRespondida
  <2>5. Compartido'
    BY <1>1, <1>2, <1>3, <2>4 DEF Compartido, ProcessTypeOK, NodesTypeOK, ArchivosBien, NodoDesconectado, blockVars
  <2> QED
    BY <2>4, <2>5, NadieSeMueve DEF NodoDesconectado
<1> QED
  BY <1>4, <1>5

(* A block that comes when no read is in course preserves Inv.             *)
LEMMA PasoLecturaSinLista ==
    ASSUME Inv, NEW n \in Nodes, LecturaSinLista(n)
    PROVE  Inv'
<1>1. pedidos \in [dados : Nat, borra : BOOLEAN]
  BY DEF Inv, TypeOK, ProcessTypeOK
<1>2. Compartido'
  BY <1>1, NadaCompartido DEF LecturaSinLista
<1> QED
  BY <1>2, NadieSeMueve DEF LecturaSinLista

(* The end of a node, as its process and the FileSystem see it.            *)
LEMMA NodoTermina ==
    ASSUME Inv, NEW n \in Nodes, NEW s \in Seq(Respuestas), EndOf(n, s),
           UNCHANGED <<fsVars, disco>>, muertes' \in Nat
    PROVE  Inv'
<1>1. Compartido
  BY DEF Inv, TypeOK, Compartido
<1>2. Closed \in Respuestas
  BY DEF Closed, Respuestas
<1>3. Append(s, Closed) \in Seq(Respuestas)
  BY <1>2
<1>4. vivo' \in [Nodes -> BOOLEAN]
  BY <1>1 DEF Compartido, NodesTypeOK, EndOf
<1>5. salida' \in [Nodes -> Seq(Respuestas)]
  BY <1>1, <1>3 DEF Compartido, NodesTypeOK, EndOf
<1>6. entrada = [m \in Nodes |-> entrada[m]] /\ \A m \in Nodes : entrada[m] \in Seq(Pedidos(m))
  BY <1>1 DEF Compartido, NodesTypeOK
<1>7. entrada' = [entrada EXCEPT ![n] = <<>>]
  BY DEF EndOf
<1>8. entrada' = [m \in Nodes |-> entrada'[m]]
  BY <1>6, <1>7
<1>9. ASSUME NEW m \in Nodes PROVE entrada'[m] \in Seq(Pedidos(m))
  <2>1. CASE m = n
    <3>1. entrada'[m] = <<>>
      BY <1>6, <1>7, <2>1
    <3> QED
      BY <3>1
  <2>2. CASE m # n
    <3>1. entrada'[m] = entrada[m]
      BY <1>6, <1>7, <2>2
    <3> QED
      BY <1>6, <3>1
  <2> QED
    BY <2>1, <2>2
<1>10. NodesTypeOK'
  BY <1>1, <1>4, <1>5, <1>8, <1>9 DEF Compartido, NodesTypeOK
<1>11. Compartido'
  BY <1>1, <1>10 DEF Compartido, ProcessTypeOK, ArchivosBien, fsVars, blockVars
<1> QED
  BY <1>11, NadieSeMueve DEF fsVars

(* A block whose number is in no entry of the list preserves Inv.          *)
LEMMA PasoPedidoInvalido ==
    ASSUME Inv, NEW n \in Nodes, PedidoInvalido(n)
    PROVE  Inv'
<1>1. muertes \in Nat
  BY DEF Inv, TypeOK, NodesTypeOK
<1>2. EndOf(n, <<>>) /\ UNCHANGED <<fsVars, disco>> /\ muertes' \in Nat
  BY <1>1 DEF PedidoInvalido, fsVars
<1>3. <<>> \in Seq(Respuestas)
  OBVIOUS
<1> QED
  BY <1>2, <1>3, NodoTermina

(* Forgetting a node preserves Inv.                                        *)
LEMMA PasoEliminarNodo ==
    ASSUME Inv, NEW n \in Nodes, EliminarNodo(n)
    PROVE  Inv'
<1>1. Compartido
  BY DEF Inv, TypeOK, Compartido
<1>2. /\ activo' \in [Nodes -> BOOLEAN]
      /\ atencion' \in [Nodes -> {"escucha", "desconecta", "fin"}]
  BY <1>1 DEF Compartido, ProcessTypeOK, EliminarNodo
<1>3. Compartido'
  BY <1>1, <1>2 DEF Compartido, ProcessTypeOK, NodesTypeOK, ArchivosBien, EliminarNodo, blockVars, dataNodeVars
<1> QED
  BY <1>3, NadieSeMueve DEF EliminarNodo

(* What a node reads from its socket is a request for one of its blocks.   *)
LEMMA PedidoLeido ==
    ASSUME Inv, NEW n \in Nodes, NEW op, Request(n, op)
    PROVE  /\ Head(entrada[n]) \in Pedidos(n) /\ Head(entrada[n]).op = op
           /\ Head(entrada[n]).idBloque \in BlocksOf(n)
           /\ Tail(entrada[n]) \in Seq(Pedidos(n))
           /\ op = "SET_BLOQUE" => Head(entrada[n]).contenido \in Datos
           /\ op = "GET_BLOQUE" => Head(entrada[n]).nroBloque \in Nat
<1> DEFINE p == Head(entrada[n])
<1>1. entrada[n] \in Seq(Pedidos(n)) /\ entrada[n] # <<>> /\ p.op = op
  BY DEF Inv, TypeOK, NodesTypeOK, Request
<1>2. p \in Pedidos(n) /\ Tail(entrada[n]) \in Seq(Pedidos(n))
  BY <1>1
<1> HIDE DEF p
<1>3. /\ p.idBloque \in BlocksOf(n)
      /\ op = "SET_BLOQUE" => p.contenido \in Datos
      /\ op = "GET_BLOQUE" => p.nroBloque \in Nat
  BY <1>1, <1>2 DEF Pedidos
<1> QED
  BY <1>1, <1>2, <1>3 DEF p

(* A node that serves the first request of its queue preserves Inv.        *)
LEMMA PasoRespuesta ==
    ASSUME Inv, NEW n \in Nodes, NEW op, Request(n, op), NEW a \in Respuestas, Answer(n, a),
           disco' = [m \in Nodes |-> disco'[m]],
           \A m \in Nodes : disco'[m] \in [BlocksOf(m) -> Datos \cup {NULL}],
           UNCHANGED <<vivo, muertes, fsVars>>
    PROVE  Inv'
<1>1. Compartido
  BY DEF Inv, TypeOK, Compartido
<1>2. salida' \in [Nodes -> Seq(Respuestas)]
  <2>1. salida \in [Nodes -> Seq(Respuestas)] /\ Append(salida[n], a) \in Seq(Respuestas)
    BY <1>1 DEF Compartido, NodesTypeOK
  <2> QED
    BY <2>1 DEF Answer
<1>3. entrada = [m \in Nodes |-> entrada[m]] /\ \A m \in Nodes : entrada[m] \in Seq(Pedidos(m))
  BY <1>1 DEF Compartido, NodesTypeOK
<1>4. entrada' = [entrada EXCEPT ![n] = Tail(entrada[n])]
  BY DEF Answer
<1>5. entrada' = [m \in Nodes |-> entrada'[m]]
  BY <1>3, <1>4
<1>6. ASSUME NEW m \in Nodes PROVE entrada'[m] \in Seq(Pedidos(m))
  <2>1. CASE m = n
    <3>1. entrada'[m] = Tail(entrada[m])
      BY <1>3, <1>4, <2>1
    <3> QED
      BY <2>1, <3>1, PedidoLeido
  <2>2. CASE m # n
    <3>1. entrada'[m] = entrada[m]
      BY <1>3, <1>4, <2>2
    <3> QED
      BY <1>3, <3>1
  <2> QED
    BY <2>1, <2>2
<1>7. NodesTypeOK'
  BY <1>1, <1>2, <1>5, <1>6 DEF Compartido, NodesTypeOK
<1>8. Compartido'
  BY <1>1, <1>7 DEF Compartido, ProcessTypeOK, ArchivosBien, fsVars, blockVars
<1> QED
  BY <1>8, NadieSeMueve DEF fsVars

(* Every step of a data node preserves Inv.                                *)
LEMMA PasoNodeStep ==
    ASSUME Inv, NEW n \in Nodes, NodeStep(n)
    PROVE  Inv'
<1> DEFINE p == Head(entrada[n])
<1>1. disco = [m \in Nodes |-> disco[m]] /\ \A m \in Nodes : disco[m] \in [BlocksOf(m) -> Datos \cup {NULL}]
  BY DEF Inv, TypeOK, NodesTypeOK
<1>2. CASE SetBlock(n)
  <2>1. Request(n, "SET_BLOQUE") /\ Answer(n, SetBloqueOk) /\ UNCHANGED <<vivo, muertes, fsVars>>
    BY <1>2 DEF SetBlock, NodeStep
  <2>2. disco' = [disco EXCEPT ![n][p.idBloque] = p.contenido]
    BY <1>2 DEF SetBlock
  <2>3. p.idBloque \in BlocksOf(n) /\ p.contenido \in Datos
    BY <2>1, PedidoLeido
  <2> HIDE DEF p
  <2>4. disco' = [m \in Nodes |-> disco'[m]]
    BY <1>1, <2>2
  <2>5. ASSUME NEW m \in Nodes PROVE disco'[m] \in [BlocksOf(m) -> Datos \cup {NULL}]
    <3>1. CASE m = n
      <4>1. disco'[m] = [disco[m] EXCEPT ![p.idBloque] = p.contenido]
        BY <1>1, <2>2, <3>1
      <4>2. disco[m] \in [BlocksOf(m) -> Datos \cup {NULL}]
        BY <1>1
      <4> QED
        BY <2>3, <4>1, <4>2
    <3>2. CASE m # n
      <4>1. disco'[m] = disco[m]
        BY <1>1, <2>2, <3>2
      <4> QED
        BY <1>1, <4>1
    <3> QED
      BY <3>1, <3>2
  <2>6. SetBloqueOk \in Respuestas
    BY DEF SetBloqueOk, Respuestas
  <2> QED
    BY <2>1, <2>4, <2>5, <2>6, PasoRespuesta
<1>3. CASE GetBlock(n)
  <2> DEFINE c == disco[n][p.idBloque]
  <2>1. Request(n, "GET_BLOQUE") /\ Answer(n, GetBloqueOk(p.nroBloque, c)) /\ UNCHANGED <<vivo, muertes, disco, fsVars>>
    BY <1>3 DEF GetBlock, NodeStep
  <2>2. p.idBloque \in BlocksOf(n) /\ p.nroBloque \in Nat
    BY <2>1, PedidoLeido
  <2> HIDE DEF p
  <2>3. c \in Datos \cup {NULL}
    BY <1>1, <2>2
  <2> HIDE DEF c
  <2>4. GetBloqueOk(p.nroBloque, c) \in Respuestas
    BY <2>2, <2>3 DEF GetBloqueOk, Respuestas
  <2>5. disco' = [m \in Nodes |-> disco'[m]] /\ \A m \in Nodes : disco'[m] \in [BlocksOf(m) -> Datos \cup {NULL}]
    BY <1>1, <2>1
  <2> QED
    BY <2>1, <2>4, <2>5, PasoRespuesta
<1> QED
  BY <1>2, <1>3 DEF NodeStep

(* The death of a data node preserves Inv.                                 *)
LEMMA PasoNodeLost ==
    ASSUME Inv, NEW n \in Nodes, NodeLost(n)
    PROVE  Inv'
<1>1. salida[n] \in Seq(Respuestas) /\ <<>> \in Seq(Respuestas)
  BY DEF Inv, TypeOK, NodesTypeOK
<1>2. muertes' \in Nat /\ UNCHANGED <<fsVars, disco>>
  BY DEF Inv, TypeOK, NodesTypeOK, NodeLost, NodeDies
<1>3. EndOf(n, salida[n]) \/ EndOf(n, <<>>)
  BY DEF NodeLost, NodeDies
<1> QED
  BY <1>1, <1>2, <1>3, NodoTermina

-----------------------------------------------------------------------------
(* The theorems.                                                           *)

(* A file system that has just been formatted.                             *)
LEMMA InitBien == Init => Inv
<1> SUFFICES ASSUME Init PROVE Inv
  OBVIOUS
<1>1. PICK conectados \in SUBSET Nodes :
        DataNodeInit(conectados) /\ WriteInit(conectados) /\ ReadInit(conectados)
  BY DEF Init
<1>2. ProcessTypeOK
  <2>1. libre \in [Nodes -> Int]
    BY <1>1, DataNodeAssumption DEF WriteInit
  <2>2. SumOfNodes(Total) \in Int
    <3>1. Total \in [Nodes -> Int]
      BY DataNodeAssumption
    <3>2. SumaDe(Total, Nodes) \in Int
      BY <3>1, FsWriteAssumption, SumaEntera
    <3> QED
      BY <3>2, Zenon DEF SumOfNodes, SumaDe
  <2>3. nodosBin \in Config
    BY <1>1, <2>1, <2>2 DEF WriteInit, Config
  <2> QED
    BY <1>1, <2>1, <2>3 DEF ProcessTypeOK, WriteInit, ReadInit
<1>3. NodesTypeOK
  BY <1>1 DEF NodesTypeOK, DataNodeInit
<1>4. \A t \in Hilos : hilo[t] = Idle("NADA")
  BY <1>1 DEF WriteInit
<1>5. Idle("NADA") \in LocalesDeHilo /\ Bien(Idle("NADA")) /\ LecturaBien(Idle("NADA"), lista)
      /\ Idle("NADA").pc = "libre"
  BY LibreBien DEF Resultados, Bien
<1>6. hilo \in [Hilos -> LocalesDeHilo]
  BY <1>1, <1>5 DEF WriteInit
<1>7. HilosBien
  BY <1>4, <1>5 DEF HilosBien, Bien, Leyendo
<1>8. ArchivosBien
  BY <1>1 DEF ArchivosBien, WriteInit
<1> QED
  BY <1>2, <1>3, <1>6, <1>7, <1>8 DEF Inv, TypeOK

(* Every command preserves Inv.                                            *)
LEMMA PasoCommand ==
    ASSUME Inv, NEW t \in Hilos, Command(t)
    PROVE  Inv'
BY PasoEscribirArchivo, PasoEliminarArchivo, PasoLeerArchivo DEF Command

(* Every step of a thread in a command preserves Inv.                      *)
LEMMA PasoThreadStep ==
    ASSUME Inv, NEW t \in Hilos, ThreadStep(t)
    PROVE  Inv'
<1>1. CASE WriteLocally(t) /\ UNCHANGED <<lista, atencion, dataNodeVars>>
  <2>1. CASE LiberarBloque(t)
    BY <1>1, <2>1, PasoLiberarBloque
  <2>2. CASE GuardarLibre(t)
    BY <1>1, <2>2, PasoGuardarLibre
  <2>3. CASE \E n \in Nodes : ReserveBlock(t, n) \/ SkipNode(t, n) \/ NodeIsFull(t, n)
    BY <1>1, <2>3, PasoReserveBlock, PasoTurno
  <2>4. CASE NoNodeLeft(t)
    BY <1>1, <2>4, PasoTurno
  <2>5. CASE NoBitMap(t)
    BY <1>1, <2>5, PasoNoBitMap
  <2>6. CASE SinEspacio(t)
    BY <1>1, <2>6, PasoSinEspacio
  <2>7. CASE BlocksReserved(t)
    BY <1>1, <2>7, PasoBlocksReserved
  <2>8. CASE AwaitWrite(t)
    BY <1>1, <2>8, PasoAwaitWrite
  <2>9. CASE ActualizarConfigNodoEnBin(t)
    BY <1>1, <2>9, PasoActualizarConfig
  <2>10. CASE CrearArchivoMetadata(t)
    BY <1>1, <2>10, PasoCrearArchivoMetadata
  <2>11. CASE ActualizarBitMapBloques(t)
    BY <1>1, <2>11, PasoActualizarBitMap
  <2> QED
    BY <1>1, <2>1, <2>2, <2>3, <2>4, <2>5, <2>6, <2>7, <2>8, <2>9, <2>10, <2>11 DEF WriteLocally
<1>2. CASE ReadLocally(t) /\ UNCHANGED dataNodeVars
  BY <1>2, PasoElegirNodos, PasoFinDeLectura, PasoPrepararLectura, PasoExcluirNodo,
     PasoEsperarLectura DEF ReadLocally
<1>3. CASE SendBlock(t) /\ UNCHANGED <<lista, atencion, vivo, disco, salida, muertes>>
  BY <1>3, PasoSendBlock
<1>4. CASE PedirBloque(t) /\ UNCHANGED <<vivo, disco, salida, muertes>>
  BY <1>4, PasoPedirBloque
<1> QED
  BY <1>1, <1>2, <1>3, <1>4 DEF ThreadStep

(* Every step of the thread that serves the nodes preserves Inv.           *)
LEMMA PasoAtender ==
    ASSUME Inv, NEW n \in Nodes, Atender(n)
    PROVE  Inv'
BY PasoEscrituraOk, PasoLecturaOk, PasoLecturaSinLista, PasoPedidoInvalido, PasoNodoDesconectado,
   PasoEliminarNodo DEF Atender

(* A stuttering step preserves Inv.                                        *)
LEMMA PasoQuieto ==
    ASSUME Inv, UNCHANGED vars
    PROVE  Inv'
<1>1. pedidos' \in [dados : Nat, borra : BOOLEAN] /\ fs' \in {"up", "exit", "sigpipe", "segfault"}
  BY DEF vars, fsVars, Inv, TypeOK, ProcessTypeOK
<1>2. UNCHANGED <<hilo, lista>> /\ UNCHANGED <<blockVars, activo, lista, atencion, dataNodeVars>>
  BY DEF vars, fsVars
<1>3. Compartido'
  BY <1>1, <1>2, NadaCompartido
<1> QED
  BY <1>2, <1>3, NadieSeMueve

(* Every step preserves Inv.                                               *)
LEMMA NextBien ==
    ASSUME Inv, [Next]_vars
    PROVE  Inv'
<1>1. CASE \E t \in Hilos : Command(t) \/ ThreadStep(t)
  BY <1>1, PasoCommand, PasoThreadStep
<1>2. CASE \E n \in Nodes : Atender(n) \/ NodeStep(n) \/ NodeLost(n)
  BY <1>2, PasoAtender, PasoNodeStep, PasoNodeLost
<1>3. CASE UNCHANGED vars
  BY <1>3, PasoQuieto
<1> QED
  BY <1>1, <1>2, <1>3 DEF Next

(* The invariant of the threads and of the files holds of every behaviour, *)
(* whatever the number of threads, nodes, files and blocks.                *)
THEOREM InvHolds == Spec => []Inv
<1>1. Init => Inv
  BY InitBien
<1>2. Inv /\ [Next]_vars => Inv'
  BY NextBien
<1> QED
  BY <1>1, <1>2, PTL DEF Spec

(* TypeOK: every variable of the file system keeps its type.               *)
THEOREM TypeCorrect == Spec => []TypeOK
<1>1. Inv => TypeOK
  BY DEF Inv
<1> QED
  BY <1>1, InvHolds, PTL

(* Two things are a set of two.                                            *)
LEMMA ParEs ==
    ASSUME NEW p, NEW q, p # q
    PROVE  Cardinality({p, q}) = 2
<1>1. {p, q} = {p} \cup {q} /\ q \notin {p}
  OBVIOUS
<1>2. IsFiniteSet({p}) /\ Cardinality({p}) = 1
  BY FS_Singleton
<1>3. Cardinality({p} \cup {q}) = 1 + 1
  BY <1>1, <1>2, FS_AddElement
<1>4. 1 + 1 = 2
  OBVIOUS
<1> QED
  BY <1>1, <1>3, <1>4, Zenon

(* A file whose replicas are apart has two of each block, on two nodes.    *)
LEMMA ReplicasDistintas ==
    ASSUME NEW info \in Seq(Bloques), Aparte(info)
    PROVE  /\ Cardinality({info[b].copias[c] : b \in DOMAIN info, c \in 1 .. 2}) = 2 * Len(info)
           /\ \A b \in DOMAIN info : Cardinality(HoldersOf(info[b])) = 2
<1> DEFINE T == {info[b].copias[c] : b \in DOMAIN info, c \in 1 .. 2}
           r == Replicas(info)
           n == 2 * Len(info)
<1>1. /\ r \in Seq(Replica) /\ Len(r) = n /\ n \in Nat
      /\ \A k \in 1 .. n : \E b \in DOMAIN info, c \in 1 .. 2 :
            k = 2 * b - 2 + c /\ r[k] = info[b].copias[c]
      /\ \A b \in DOMAIN info, c \in 1 .. 2 : 2 * b - 2 + c \in 1 .. n /\ r[2 * b - 2 + c] = info[b].copias[c]
  BY ReplicasSon
<1> HIDE DEF r, n
<1>2. \A x : x \in T <=> \E b \in DOMAIN info, c \in 1 .. 2 : x = info[b].copias[c]
  OBVIOUS
<1> HIDE DEF T
<1>3. r \in [1 .. n -> T]
  <2>1. r \in [1 .. n -> Replica]
    BY <1>1
  <2>2. \A k \in 1 .. n : r[k] \in T
    BY <1>1, <1>2
  <2> QED
    BY <2>1, <2>2
<1>4. \A k, l \in 1 .. n : r[k] = r[l] => k = l
  <2>1. ASSUME NEW k \in 1 .. n, NEW l \in 1 .. n, r[k] = r[l] PROVE k = l
    <3>1. PICK b \in DOMAIN info, c \in 1 .. 2 : k = 2 * b - 2 + c /\ r[k] = info[b].copias[c]
      BY <1>1
    <3>2. PICK d \in DOMAIN info, e \in 1 .. 2 : l = 2 * d - 2 + e /\ r[l] = info[d].copias[e]
      BY <1>1
    <3>3. info[b].copias[c] = info[d].copias[e]
      BY <2>1, <3>1, <3>2
    <3>4. b = d /\ c = e
      BY <3>3 DEF Aparte
    <3> QED
      BY <3>1, <3>2, <3>4
  <2> QED
    BY <2>1
<1>5. \A x \in T : \E k \in 1 .. n : r[k] = x
  <2>1. ASSUME NEW x \in T PROVE \E k \in 1 .. n : r[k] = x
    <3>1. PICK b \in DOMAIN info, c \in 1 .. 2 : x = info[b].copias[c]
      BY <1>2
    <3>2. 2 * b - 2 + c \in 1 .. n /\ r[2 * b - 2 + c] = x
      BY <1>1, <3>1
    <3> QED
      BY <3>2
  <2> QED
    BY <2>1
<1>6. r \in Bijection(1 .. n, T)
  BY <1>3, <1>4, <1>5, Fun_IsBij
<1>7. IsFiniteSet(1 .. n) /\ Cardinality(1 .. n) = n
  <2>1. n \in Nat
    BY <1>1
  <2> QED
    BY <2>1, FS_Interval
<1>8. Cardinality(T) = n
  BY <1>6, <1>7, FS_Bijection DEF ExistsBijection
<1>9. ASSUME NEW b \in DOMAIN info PROVE Cardinality(HoldersOf(info[b])) = 2
  <2> DEFINE p == info[b].copias[1].nodo
             q == info[b].copias[2].nodo
  <2>1. info[b] \in Bloques
    OBVIOUS
  <2>2. HoldersOf(info[b]) = {p, q} /\ p # q
    BY <2>1, BloqueEs DEF Aparte
  <2> HIDE DEF p, q
  <2>3. Cardinality({p, q}) = 2
    BY <2>2, ParEs
  <2> QED
    BY <2>2, <2>3, Zenon
<1> QED
  BY <1>8, <1>9 DEF T, n

(* Whatever nodes were full or tied when they were reserved, and whatever  *)
(* other threads reserve, the replicas of a file are apart.                *)
THEOREM ReplicasApart == Spec => []CopiesApart
<1>1. Inv => CopiesApart
  <2> SUFFICES ASSUME Inv, NEW f \in Paths, archivos[f] # NULL
               PROVE  /\ Cardinality(Listed(f)) = 2 * Len(archivos[f].bloques)
                      /\ \A b \in DOMAIN archivos[f].bloques :
                            Cardinality(HoldersOf(archivos[f].bloques[b])) = 2
    BY DEF CopiesApart
  <2>1. archivos[f] \in Metadata(f) /\ Aparte(archivos[f].bloques)
    BY DEF Inv, TypeOK, ProcessTypeOK, ArchivosBien
  <2>2. archivos[f].bloques \in Seq(Bloques)
    BY <2>1 DEF Metadata
  <2>3. Listed(f) = {archivos[f].bloques[b].copias[c] : b \in DOMAIN archivos[f].bloques, c \in 1 .. 2}
    BY DEF Listed
  <2>4. \A info \in Seq(Bloques) : Aparte(info) =>
           /\ Cardinality({info[b].copias[c] : b \in DOMAIN info, c \in 1 .. 2}) = 2 * Len(info)
           /\ \A b \in DOMAIN info : Cardinality(HoldersOf(info[b])) = 2
    BY ReplicasDistintas
  <2> DEFINE info == archivos[f].bloques
  <2> HIDE DEF info
  <2>5. info \in Seq(Bloques) /\ Aparte(info)
    BY <2>1, <2>2 DEF info
  <2>6. /\ Cardinality({info[b].copias[c] : b \in DOMAIN info, c \in 1 .. 2}) = 2 * Len(info)
        /\ \A b \in DOMAIN info : Cardinality(HoldersOf(info[b])) = 2
    BY <2>4, <2>5
  <2> QED
    BY <2>3, <2>6 DEF info
<1> QED
  BY <1>1, InvHolds, PTL

(* Whatever nodes a read excludes and however the metadata spreads the     *)
(* replicas, the selection fails only when a block has no holder left.     *)
THEOREM SelectionIsComplete == Spec => []SelectionFindsReplica
<1>1. Inv => SelectionFindsReplica
  <2> SUFFICES ASSUME Inv, NEW t \in Hilos
               PROVE  ObtenerNodosALeer(BloquesLeidos(t), hilo[t].exc) = {}
                      <=> \E b \in DOMAIN BloquesLeidos(t) :
                             HoldersOf(BloquesLeidos(t)[b]) \subseteq hilo[t].exc
    BY DEF SelectionFindsReplica
  <2>1. hilo[t] \in LocalesDeHilo
    BY HiloBien
  <2>2. BloquesLeidos(t) \in Seq(Bloques)
    BY <2>1, CamposDeHilo DEF BloquesLeidos
  <2> QED
    BY <2>2, SeleccionCompleta
<1> QED
  BY <1>1, InvHolds, PTL
-----------------------------------------------------------------------------
(***************************************************************************)
(* The console as the only thread that gives orders: each block belongs to *)
(* one file, the counts of free blocks are true, nodos.bin agrees with     *)
(* them between commands, and what a file lists is stored or sent.  With   *)
(* more threads none of these holds: the run files_race shows it.          *)
(* Consistente is the inductive invariant, next to Inv above.              *)
(***************************************************************************)

(* One thread: the console writes, removes and reads, and nothing else.    *)
UnHilo == Hilos = {Consola}

(* The command in course. *)
actual == hilo[Consola]

(* What a removal has still to free. *)
Desde == IF actual.pc = "guardaLibre" THEN actual.i + 1 ELSE actual.i
Pendientes == {actual.libera[k] : k \in Desde .. Len(actual.libera)}

(* The files whose bits are set: a writer lists its file before it sets    *)
(* the bits.                                                               *)
Marcada(f, r) == r \in Listed(f) /\ ~(actual.pc = "bitmap" /\ actual.path = f)

(* Whose a block is: of one file, of the file that is being written, or of *)
(* the one that is being removed.                                          *)
Duenios ==
    /\ \A f, g \in Paths : \A r \in Replica : r \in Listed(f) /\ r \in Listed(g) => f = g
    /\ actual.pc \in Escribiendo \ {"bitmap"} => archivos[actual.path] = NULL
    /\ actual.pc = "bitmap" => archivos[actual.path] # NULL
                               /\ archivos[actual.path].bloques = BloquesInfo(Consola)
    /\ \A f \in Paths : \A r \in ReservedBy(Consola) : r \in Listed(f) => f = actual.path
    /\ IsInjective(actual.libera)
    /\ \A f \in Paths : \A r \in Pendientes : r \notin Listed(f)

(* The bits that are set are those of the listed replicas and of those to  *)
(* free.                                                                   *)
Bits ==
    \A r \in Replica : r.bloque \in bitmap[r.nodo]
        <=> r \in Pendientes \/ \E f \in Paths : Marcada(f, r)

Libres ==
    \A n \in Nodes : libre[n] = Total[n] - Cardinality(bitmap[n] \cup ReservedOn(actual.res, n))

(* The last request to write block b of a node, if there is one, brings d; *)
(* if there is none, the node has it.                                      *)
EsSet(p, b) == p.op = "SET_BLOQUE" /\ p.idBloque = b
Llegara(n, b, d) ==
    \/ /\ \A k \in DOMAIN entrada[n] : ~EsSet(entrada[n][k], b)
       /\ disco[n][b] = d
    \/ \E k \in DOMAIN entrada[n] :
          /\ EsSet(entrada[n][k], b) /\ entrada[n][k].contenido = d
          /\ \A l \in DOMAIN entrada[n] : l > k => ~EsSet(entrada[n][l], b)

Llega(r, d) == vivo[r.nodo] => Llegara(r.nodo, r.bloque, d)

Mandados ==
    {k \in DOMAIN actual.res : \/ actual.pc \in {"metadata", "bitmap"}
                               \/ actual.pc \in {"espera", "guarda"} /\ k <= actual.i
                               \/ actual.pc = "escribe" /\ k < actual.i}

(* Data that a block of a node has, or will have: of the replicas that a   *)
(* file lists and of those that the writer has sent.                       *)
DebeArchivo(f, r, d) ==
    archivos[f] # NULL /\ \E b \in DOMAIN archivos[f].bloques, c \in 1 .. 2 :
        r = archivos[f].bloques[b].copias[c] /\ d = [path |-> f, nro |-> b]
DebeEscritor(r, d) ==
    \E k \in Mandados : r = actual.res[k] /\ d = DataOf(actual.path, k)
Debe(r, d) == DebeEscritor(r, d) \/ \E f \in Paths : DebeArchivo(f, r, d)

Guardado == \A r \in Replica, d \in Datos : Debe(r, d) => Llega(r, d)

(* The replicas that are counted in libre and not yet in nodos.bin. *)
Mandando == {"escribe", "espera", "guarda"}
Faltan == IF actual.pc = "reserva" THEN Len(actual.res)
          ELSE IF actual.pc \in Mandando THEN Len(actual.res) - (actual.i - 1) ELSE 0

BinLibre ==
    /\ actual.pc = "reserva" =>
          \A n \in Nodes : nodosBin.libre[n] = libre[n] + Cardinality(ReservedOn(actual.res, n))
    /\ actual.pc \in Mandando =>
          \A n \in Nodes : (\A k \in actual.i .. Len(actual.res) : actual.res[k].nodo # n)
                               => nodosBin.libre[n] = libre[n]
    /\ actual.pc = "guardaLibre" =>
          \A n \in Nodes : n # actual.libera[actual.i].nodo => nodosBin.libre[n] = libre[n]
    /\ actual.pc \notin Mandando \cup {"reserva", "guardaLibre"} => nodosBin.libre = libre
    /\ actual.pc \in {"guarda", "guardaLibre"} => actual.cfg = nodosBin

BinTotal ==
    /\ actual.pc \in Liberando => pedidos.borra
    /\ nodosBin.total <= SumOfNodes(libre) + Faltan
    /\ ~pedidos.borra => nodosBin.total = SumOfNodes(libre) + Faltan
    /\ actual.pc = "reserva" =>
          SumOfNodes(nodosBin.libre) = SumOfNodes(libre) + Len(actual.res)

-----------------------------------------------------------------------------
(* The only thread, and its command.                                       *)
LEMMA Solo ==
    ASSUME UnHilo, Inv
    PROVE  /\ Consola \in Hilos /\ \A t \in Hilos : t = Consola
           /\ Bien(actual) /\ LecturaBien(actual, lista) /\ actual \in LocalesDeHilo
           /\ Compartido /\ hilo \in [Hilos -> LocalesDeHilo]
BY FsWriteAssumption, HiloBien DEF UnHilo, actual

(* What a step leaves in the only thread is the command in course.         *)
LEMMA ActualEs ==
    ASSUME UnHilo, Inv, NEW t \in Hilos, NEW y, hilo' = [hilo EXCEPT ![t] = y]
    PROVE  actual' = y
BY Solo DEF actual

(* What a file lists are replicas, and the writer's are replicas too.      *)
LEMMA ListadasSon ==
    ASSUME Inv, NEW f \in Paths
    PROVE  /\ Listed(f) \subseteq Replica
           /\ archivos[f] # NULL => archivos[f].bloques \in Seq(Bloques)
           /\ archivos[f] # NULL => \A b \in DOMAIN archivos[f].bloques, c \in 1 .. 2 :
                 archivos[f].bloques[b].copias[c] \in Replica /\ archivos[f].bloques[b].copias[c] \in Listed(f)
           /\ archivos[f] # NULL => \A r \in Listed(f) : \E b \in DOMAIN archivos[f].bloques, c \in 1 .. 2 :
                 r = archivos[f].bloques[b].copias[c]
           /\ archivos[f] = NULL => Listed(f) = {}
<1>1. CASE archivos[f] = NULL
  BY <1>1 DEF Listed
<1>2. CASE archivos[f] # NULL
  <2>1. archivos[f] \in Metadata(f)
    BY <1>2 DEF Inv, TypeOK, ProcessTypeOK
  <2>2. archivos[f].bloques \in Seq(Bloques)
    BY <2>1 DEF Metadata
  <2> DEFINE info == archivos[f].bloques
  <2>3. Listed(f) = {info[b].copias[c] : b \in DOMAIN info, c \in 1 .. 2}
    BY <1>2 DEF Listed
  <2> HIDE DEF info
  <2>4. info \in Seq(Bloques)
    BY <2>2 DEF info
  <2>5. \A b \in DOMAIN info, c \in 1 .. 2 : info[b].copias[c] \in Replica
    BY <2>4, BloqueEs
  <2>6. Listed(f) \subseteq Replica
    BY <2>3, <2>5
  <2>7. \A b \in DOMAIN info, c \in 1 .. 2 : info[b].copias[c] \in Listed(f)
    BY <2>3
  <2>8. \A r \in Listed(f) : \E b \in DOMAIN info, c \in 1 .. 2 : r = info[b].copias[c]
    BY <2>3
  <2> QED
    BY <1>2, <2>4, <2>5, <2>6, <2>7, <2>8 DEF info
<1> QED
  BY <1>1, <1>2

(* The queues of a node hold requests that the node understands.           *)
LEMMA PedidosSon ==
    ASSUME Inv, NEW n \in Nodes
    PROVE  /\ entrada[n] \in Seq(Pedidos(n)) /\ entrada = [m \in Nodes |-> entrada[m]]
           /\ disco = [m \in Nodes |-> disco[m]] /\ disco[n] \in [BlocksOf(n) -> Datos \cup {NULL}]
           /\ vivo \in [Nodes -> BOOLEAN]
BY DEF Inv, TypeOK, NodesTypeOK

(* A replica is its node and its block.                                    *)
LEMMA ReplicaEs ==
    ASSUME NEW r \in Replica
    PROVE  r.nodo \in Nodes /\ r.bloque \in BlocksOf(r.nodo) /\ r = Reserved(r.nodo, r.bloque)
BY DEF Replica, Reserved

(* Reserved builds a replica.                                              *)
LEMMA ReservadoEs ==
    ASSUME NEW n \in Nodes, NEW b \in BlocksOf(n)
    PROVE  Reserved(n, b) \in Replica /\ Reserved(n, b).nodo = n /\ Reserved(n, b).bloque = b
<1>1. b \in Nat
  BY BloquesDeNodo
<1>2. Reserved(n, b) \in [nodo : Nodes, bloque : Nat] /\ Reserved(n, b).nodo = n /\ Reserved(n, b).bloque = b
  BY <1>1 DEF Reserved
<1> QED
  BY <1>2 DEF Replica

-----------------------------------------------------------------------------
(* What was sent arrives.                                                  *)

(* A step that leaves the nodes and their queues alone changes nothing.    *)
LEMMA LlegaQuieto ==
    ASSUME UNCHANGED <<vivo, disco, entrada>>, NEW r, NEW d, Llega(r, d)
    PROVE  Llega(r, d)'
BY DEF Llega, Llegara

(* A request for another block, or to read, changes nothing.               *)
LEMMA LlegaIgual ==
    ASSUME Inv, NEW r \in Replica, NEW d, Llega(r, d), NEW n \in Nodes, NEW p,
           entrada' = [entrada EXCEPT ![n] = Append(@, p)], UNCHANGED <<vivo, disco>>,
           ~(n = r.nodo /\ EsSet(p, r.bloque))
    PROVE  Llega(r, d)'
<1> DEFINE m == r.nodo
           b == r.bloque
           s == entrada[m]
<1>1. m \in Nodes
  BY ReplicaEs
<1>2. s \in Seq(Pedidos(m)) /\ entrada = [k \in Nodes |-> entrada[k]]
  BY <1>1, PedidosSon
<1>3. CASE n # m
  <2>1. entrada'[m] = entrada[m]
    BY <1>1, <1>2, <1>3
  <2> QED
    BY <2>1 DEF Llega, Llegara
<1>4. CASE n = m
  <2>1. entrada'[m] = Append(s, p)
    BY <1>1, <1>2, <1>4
  <2> DEFINE L == Len(s)
  <2>2. L \in Nat /\ DOMAIN s = 1 .. L
    BY <1>2
  <2>3. /\ DOMAIN entrada'[m] = 1 .. L + 1 /\ entrada'[m][L + 1] = p
        /\ \A k \in 1 .. L : entrada'[m][k] = s[k]
    BY <1>2, <2>1
  <2>4. ~EsSet(p, b)
    BY <1>4
  <2> HIDE DEF L, s, b, m
  <2>5. \A k \in 1 .. L + 1 : k \in 1 .. L \/ k = L + 1
    BY <2>2
  <2>6. ASSUME \A k \in DOMAIN s : ~EsSet(s[k], b)
        PROVE  \A k \in DOMAIN entrada'[m] : ~EsSet(entrada'[m][k], b)
    BY <2>2, <2>3, <2>4, <2>5, <2>6
  <2>7. ASSUME NEW k \in DOMAIN s, EsSet(s[k], b), s[k].contenido = d,
               \A l \in DOMAIN s : l > k => ~EsSet(s[l], b)
        PROVE  /\ k \in DOMAIN entrada'[m] /\ EsSet(entrada'[m][k], b) /\ entrada'[m][k].contenido = d
               /\ \A l \in DOMAIN entrada'[m] : l > k => ~EsSet(entrada'[m][l], b)
    <3>1. k \in 1 .. L + 1
      BY <2>2, <2>7
    <3> QED
      BY <2>2, <2>3, <2>4, <2>5, <2>7, <3>1
  <2>8. Llega(r, d) /\ UNCHANGED <<vivo, disco>>
    OBVIOUS
  <2>9. ASSUME Llegara(m, b, d) PROVE Llegara(m, b, d)'
    <3>1. CASE \A k \in DOMAIN s : ~EsSet(s[k], b) /\ disco[m][b] = d
      <4>1. CASE DOMAIN s = {}
        BY <2>6, <2>8, <2>9, <4>1 DEF Llegara, s, m, b
      <4> QED
        BY <2>6, <2>8, <3>1, <2>9, <4>1 DEF Llegara, s, m, b
    <3>2. CASE \E k \in DOMAIN s : /\ EsSet(s[k], b) /\ s[k].contenido = d
                                   /\ \A l \in DOMAIN s : l > k => ~EsSet(s[l], b)
      BY <2>7, <3>2 DEF Llegara, m, b
    <3> QED
      BY <3>1, <3>2, <2>6, <2>8, <2>9 DEF Llegara, s, m, b
  <2> QED
    BY <2>8, <2>9 DEF Llega, m, b
<1> QED
  BY <1>3, <1>4

(* The request that brings the data.                                       *)
LEMMA LlegaMandado ==
    ASSUME Inv, NEW r \in Replica, NEW d, 
           entrada' = [entrada EXCEPT ![r.nodo] = Append(@, SetBloque(r.bloque, d))]
    PROVE  Llega(r, d)'
<1> DEFINE m == r.nodo
           b == r.bloque
           p == SetBloque(b, d)
           L == Len(entrada[m])
<1>1. m \in Nodes
  BY ReplicaEs
<1>2. entrada[m] \in Seq(Pedidos(m)) /\ entrada = [k \in Nodes |-> entrada[k]]
  BY <1>1, PedidosSon
<1>3. entrada'[m] = Append(entrada[m], p)
  BY <1>1, <1>2
<1>4. L \in Nat /\ DOMAIN entrada'[m] = 1 .. L + 1 /\ entrada'[m][L + 1] = p
  BY <1>2, <1>3
<1>5. EsSet(p, b) /\ p.contenido = d
  BY DEF EsSet, SetBloque
<1> HIDE DEF m, b, p, L
<1>6. L + 1 \in DOMAIN entrada'[m] /\ \A l \in DOMAIN entrada'[m] : ~(l > L + 1)
  BY <1>4
<1>7. Llegara(m, b, d)'
  BY <1>4, <1>5, <1>6 DEF Llegara
<1> QED
  BY <1>7 DEF Llega, m, b

(* The end of a node: nothing is promised of it any more.                  *)
LEMMA LlegaFin ==
    ASSUME Inv, NEW r \in Replica, NEW d, Llega(r, d), NEW n \in Nodes, NEW s, EndOf(n, s),
           UNCHANGED disco
    PROVE  Llega(r, d)'
<1>1. r.nodo \in Nodes
  BY ReplicaEs
<1>2. CASE n = r.nodo
  <2>1. ~vivo'[r.nodo]
    BY <1>1, <1>2, PedidosSon DEF EndOf
  <2> QED
    BY <2>1 DEF Llega
<1>3. CASE n # r.nodo
  <2>1. vivo'[r.nodo] = vivo[r.nodo] /\ entrada'[r.nodo] = entrada[r.nodo] /\ disco' = disco
    BY <1>1, <1>3, PedidosSon DEF EndOf
  <2> QED
    BY <2>1 DEF Llega, Llegara
<1> QED
  BY <1>2, <1>3

(* A node serves the oldest request: what it brings is in the block then.  *)
LEMMA LlegaServido ==
    ASSUME Inv, NEW r \in Replica, NEW d, Llega(r, d), NEW n \in Nodes, NodeStep(n)
    PROVE  Llega(r, d)'
<1> DEFINE m == r.nodo
           b == r.bloque
           s == entrada[m]
           L == Len(s)
<1>1. m \in Nodes /\ b \in BlocksOf(m)
  BY ReplicaEs
<1>2. /\ s \in Seq(Pedidos(m)) /\ entrada = [k \in Nodes |-> entrada[k]]
      /\ disco = [k \in Nodes |-> disco[k]] /\ disco[m] \in [BlocksOf(m) -> Datos \cup {NULL}]
  BY <1>1, PedidosSon
<1>3. /\ entrada[n] # <<>> /\ entrada' = [entrada EXCEPT ![n] = Tail(entrada[n])] /\ UNCHANGED vivo
      /\ \/ /\ Head(entrada[n]).op = "SET_BLOQUE"
            /\ disco' = [disco EXCEPT ![n][Head(entrada[n]).idBloque] = Head(entrada[n]).contenido]
         \/ Head(entrada[n]).op = "GET_BLOQUE" /\ disco' = disco
  BY DEF NodeStep, SetBlock, GetBlock, Request, Answer
<1>4. CASE n # m
  <2>1. entrada'[m] = entrada[m] /\ disco'[m] = disco[m]
    BY <1>1, <1>2, <1>3, <1>4
  <2> QED
    BY <1>3, <2>1 DEF Llega, Llegara
<1>5. CASE n = m
  <2> DEFINE p == s[1]
             u == entrada'[m]
  <2>1. L \in Nat /\ L > 0 /\ DOMAIN s = 1 .. L /\ Head(s) = p /\ p \in Pedidos(m)
    BY <1>2, <1>3, <1>5
  <2>2. u = Tail(s)
    BY <1>1, <1>2, <1>3, <1>5
  <2>3. DOMAIN u = 1 .. L - 1 /\ \A k \in 1 .. L - 1 : u[k] = s[k + 1]
    BY <1>2, <2>1, <2>2
  <2>4. p.op = "SET_BLOQUE" => p.idBloque \in BlocksOf(m)
    BY <2>1 DEF Pedidos
  <2>5. disco'[m][b] = IF EsSet(p, b) THEN p.contenido ELSE disco[m][b]
    <3>1. CASE p.op = "SET_BLOQUE"
      <4>1. disco'[m] = [disco[m] EXCEPT ![p.idBloque] = p.contenido]
        <5>1. disco' = [disco EXCEPT ![m][p.idBloque] = p.contenido]
          BY <1>3, <1>5, <2>1, <3>1
        <5> HIDE DEF m, p
        <5> QED
          BY <1>1, <1>2, <5>1
      <4> HIDE DEF m, p, b
      <4> QED
        BY <1>1, <1>2, <2>4, <3>1, <4>1 DEF EsSet
    <3>2. CASE p.op # "SET_BLOQUE"
      <4>1. disco' = disco
        BY <1>3, <1>5, <2>1, <3>2
      <4> HIDE DEF m, p, b
      <4> QED
        BY <4>1, <3>2 DEF EsSet
    <3> QED
      BY <3>1, <3>2
  <2>6. Llega(r, d) /\ UNCHANGED vivo
    BY <1>3
  <2> HIDE DEF m, b, s, p, u, L
  <2>7. \A k \in 1 .. L - 1 : k + 1 \in 1 .. L
    BY <2>1
  <2>8. \A k \in 1 .. L : k = 1 \/ (k - 1 \in 1 .. L - 1 /\ k - 1 + 1 = k)
    BY <2>1
  <2>9. ASSUME \A k \in DOMAIN s : ~EsSet(s[k], b), disco[m][b] = d PROVE Llegara(m, b, d)'
    <3>1. \A k \in DOMAIN u : ~EsSet(u[k], b)
      BY <2>1, <2>3, <2>7, <2>9
    <3>2. 1 \in DOMAIN s
      BY <2>1
    <3>3. disco'[m][b] = d
      BY <2>5, <2>9, <3>2 DEF p
    <3> QED
      BY <3>1, <3>3 DEF Llegara, u
  <2>10. ASSUME NEW k \in DOMAIN s, EsSet(s[k], b), s[k].contenido = d,
                \A l \in DOMAIN s : l > k => ~EsSet(s[l], b)
         PROVE  Llegara(m, b, d)'
    <3>1. CASE k = 1
      <4>1. \A l \in DOMAIN u : ~EsSet(u[l], b)
        <5>1. ASSUME NEW l \in 1 .. L - 1 PROVE ~EsSet(u[l], b)
          <6>1. l + 1 \in DOMAIN s /\ l + 1 > k
            BY <2>1, <2>7, <3>1
          <6> QED
            BY <2>3, <2>10, <6>1
        <5> QED
          BY <2>3, <5>1
      <4>2. disco'[m][b] = d
        BY <2>5, <2>10, <3>1 DEF p
      <4> QED
        BY <4>1, <4>2 DEF Llegara, u
    <3>2. CASE k # 1
      <4>1. k - 1 \in DOMAIN u /\ u[k - 1] = s[k]
        BY <2>1, <2>3, <2>8, <3>2
      <4>2. ASSUME NEW l \in DOMAIN u, l > k - 1 PROVE ~EsSet(u[l], b)
        <5>1. l + 1 \in DOMAIN s /\ l + 1 > k /\ u[l] = s[l + 1]
          BY <2>1, <2>3, <2>7, <4>2
        <5> QED
          BY <2>10, <5>1
      <4> QED
        BY <2>10, <4>1, <4>2 DEF Llegara, u
    <3> QED
      BY <3>1, <3>2
  <2>11. Llegara(m, b, d) => Llegara(m, b, d)'
    BY <2>9, <2>10 DEF Llegara, s
  <2> QED
    BY <2>6, <2>11 DEF Llega, m, b
<1> QED
  BY <1>4, <1>5

(* Nothing that was promised is lost.                                      *)
Prometido == \A r \in Replica, d \in Datos : Llega(r, d) => Llega(r, d)'

(* What a block of a file holds is data.                                   *)
LEMMA DatosSon ==
    ASSUME NEW f \in Paths, NEW b \in Nat
    PROVE  [path |-> f, nro |-> b] \in Datos /\ DataOf(f, b) \in Datos
<1>1. (b + 1) \div 2 \in Nat
  OBVIOUS
<1> QED
  BY <1>1 DEF Datos, DataOf

(* Nothing new is promised.                                                *)
LEMMA GuardadoSigue ==
    ASSUME Guardado, Prometido, \A r \in Replica, d \in Datos : Debe(r, d)' => Debe(r, d)
    PROVE  Guardado'
<1>1. ASSUME NEW r \in Replica, NEW d \in Datos, Debe(r, d)' PROVE Llega(r, d)'
  <2>1. Debe(r, d)
    BY <1>1
  <2>2. Llega(r, d)
    BY <2>1 DEF Guardado
  <2> QED
    BY <2>2 DEF Prometido
<1> QED
  BY <1>1 DEF Guardado

-----------------------------------------------------------------------------
(* Steps that leave blocks and counts alone.                               *)

Consistente == Duenios /\ Bits /\ Libres /\ Guardado /\ BinLibre /\ BinTotal

(* All but the data. *)
Cuentas == Duenios /\ Bits /\ Libres /\ BinLibre /\ BinTotal

(* The only thread's command after a step.                                 *)
LEMMA SoloDespues ==
    ASSUME UnHilo, Inv'
    PROVE  /\ actual' \in LocalesDeHilo /\ ReservaBien(actual') /\ LiberaBien(actual')
           /\ actual' = hilo'[Consola]
BY FsWriteAssumption DEF Inv, TypeOK, HilosBien, actual

(* The thread's place in its command, its reservation and what it removes  *)
(* are as they were.                                                       *)
LEMMA IgualSigue ==
    ASSUME Cuentas, UNCHANGED <<libre, bitmap, nodosBin, archivos>>,
           pedidos'.borra = pedidos.borra,
           actual'.pc = actual.pc, actual'.path = actual.path, actual'.res = actual.res,
           actual'.i = actual.i, actual'.libera = actual.libera, actual'.cfg = actual.cfg
    PROVE  Cuentas' /\ \A r \in Replica, d \in Datos : Debe(r, d)' => Debe(r, d)
<1>1. \A f \in Paths : Listed(f)' = Listed(f)
  BY DEF Listed
<1>2. ReservedBy(Consola)' = ReservedBy(Consola)
  BY DEF ReservedBy, actual
<1>3. BloquesInfo(Consola)' = BloquesInfo(Consola)
  BY DEF BloquesInfo, BloquesDelHilo, actual
<1>4. Pendientes' = Pendientes
  BY DEF Pendientes, Desde
<1>5. Duenios'
  BY <1>1, <1>2, <1>3, <1>4 DEF Cuentas, Duenios
<1>6. Bits'
  BY <1>1, <1>4 DEF Cuentas, Bits, Marcada
<1>7. Libres'
  BY DEF Cuentas, Libres
<1>8. BinLibre'
  BY DEF Cuentas, BinLibre
<1>9. Faltan' = Faltan
  BY DEF Faltan
<1>10. BinTotal'
  BY <1>9 DEF Cuentas, BinTotal
<1>11. Mandados' = Mandados
  BY DEF Mandados
<1>12. ASSUME NEW r \in Replica, NEW d \in Datos, Debe(r, d)' PROVE Debe(r, d)
  BY <1>11, <1>12 DEF Debe, DebeEscritor, DebeArchivo
<1> QED
  BY <1>5, <1>6, <1>7, <1>8, <1>10, <1>12 DEF Cuentas

(* No write and no removal is in course. *)
Ocioso(x) == x.pc \notin Escribiendo \cup Liberando

(* A command that is not writing or removing has no replicas.              *)
LEMMA OciosoEs ==
    ASSUME NEW x, ReservaBien(x), LiberaBien(x), Ocioso(x)
    PROVE  x.res = <<>> /\ x.libera = <<>>
BY DEF ReservaBien, LiberaBien, Ocioso

(* A command that is not writing or removing is at none of their steps.    *)
LEMMA OciosoNoDebe ==
    ASSUME NEW x, Ocioso(x)
    PROVE  x.pc \notin {"reserva", "escribe", "espera", "guarda", "metadata", "bitmap", "libera",
                        "guardaLibre"}
BY DEF Ocioso, Escribiendo, Liberando

(* Between two commands, or in a read.                                     *)
LEMMA OciosoSigue ==
    ASSUME UnHilo, Inv, Inv', Cuentas, UNCHANGED <<libre, bitmap, nodosBin, archivos>>,
           pedidos.borra => pedidos'.borra, pedidos'.borra \in BOOLEAN, Ocioso(actual), Ocioso(actual')
    PROVE  Cuentas' /\ \A r \in Replica, d \in Datos : Debe(r, d)' => Debe(r, d)
<1>1. actual.res = <<>> /\ actual.libera = <<>>
  BY Solo, OciosoEs DEF Bien
<1>2. actual'.res = <<>> /\ actual'.libera = <<>>
  BY SoloDespues, OciosoEs
<1>3. actual.pc \notin {"reserva", "escribe", "espera", "guarda", "metadata", "bitmap", "libera",
                        "guardaLibre"}
  BY OciosoNoDebe
<1>4. actual'.pc \notin {"reserva", "escribe", "espera", "guarda", "metadata", "bitmap", "libera",
                        "guardaLibre"}
  BY OciosoNoDebe
<1>5. \A f \in Paths : Listed(f)' = Listed(f)
  BY DEF Listed
<1>6. ReservedBy(Consola)' = {}
  BY <1>2 DEF ReservedBy, actual
<1>7. Pendientes = {} /\ Pendientes' = {}
  <2>1. Desde = actual.i /\ Desde' = actual'.i
    BY <1>3, <1>4 DEF Desde
  <2>2. actual.i \in Nat \ {0} /\ actual'.i \in Nat \ {0}
    BY Solo, SoloDespues, CamposDeHilo
  <2> QED
    BY <1>1, <1>2, <2>1, <2>2 DEF Pendientes
<1>8. IsInjective(actual'.libera)
  BY <1>2 DEF IsInjective
<1>9. Duenios'
  BY <1>4, <1>5, <1>6, <1>7, <1>8 DEF Cuentas, Duenios, Escribiendo
<1>10. Bits'
  BY <1>3, <1>4, <1>5, <1>7 DEF Cuentas, Bits, Marcada
<1>11. Libres'
  BY <1>1, <1>2 DEF Cuentas, Libres
<1>12. BinLibre'
  BY <1>3, <1>4 DEF Cuentas, BinLibre, Mandando
<1>13. BinTotal'
  BY <1>3, <1>4 DEF Cuentas, BinTotal, Faltan, Mandando, Liberando
<1>14. ASSUME NEW r \in Replica, NEW d \in Datos, Debe(r, d)' PROVE Debe(r, d)
  <2>1. Mandados' = {}
    BY <1>2 DEF Mandados
  <2> QED
    BY <1>14, <2>1 DEF Debe, DebeEscritor, DebeArchivo
<1> QED
  BY <1>9, <1>10, <1>11, <1>12, <1>13, <1>14 DEF Cuentas

(* Neither the thread nor the blocks move.                                 *)
LEMMA OrdenQuieta ==
    ASSUME Consistente, Prometido, UNCHANGED <<hilo, libre, bitmap, nodosBin, archivos, pedidos>>
    PROVE  Consistente'
<1>1. actual' = actual
  BY DEF actual
<1>2. Cuentas' /\ \A r \in Replica, d \in Datos : Debe(r, d)' => Debe(r, d)
  BY <1>1, IgualSigue DEF Consistente, Cuentas
<1>3. Guardado'
  BY <1>2, GuardadoSigue DEF Consistente
<1> QED
  BY <1>2, <1>3 DEF Consistente, Cuentas

(* Steps that leave the nodes alone keep every promised block promised.    *)
LEMMA PrometidoQuieto ==
    ASSUME UNCHANGED <<vivo, disco, entrada>>
    PROVE  Prometido
BY LlegaQuieto DEF Prometido

(* The thread that serves the nodes preserves Consistente.                 *)
LEMMA OrdenAtender ==
    ASSUME Inv, Consistente, NEW n \in Nodes, Atender(n)
    PROVE  Consistente'
<1>1. UNCHANGED <<hilo, libre, bitmap, nodosBin, archivos, pedidos>>
  BY DEF Atender, EscrituraOk, LecturaOk, LecturaSinLista, PedidoInvalido, NodoDesconectado,
         EliminarNodo, blockVars
<1>2. CASE PedidoInvalido(n)
  <2>1. EndOf(n, <<>>) /\ UNCHANGED disco
    BY <1>2 DEF PedidoInvalido
  <2>2. Prometido
    BY <2>1, LlegaFin DEF Prometido
  <2> QED
    BY <1>1, <2>2, OrdenQuieta
<1>3. CASE ~PedidoInvalido(n)
  <2>1. UNCHANGED <<vivo, disco, entrada>>
    BY <1>3 DEF Atender, EscrituraOk, LecturaOk, LecturaSinLista, NodoDesconectado, EliminarNodo,
                dataNodeVars
  <2>2. Prometido
    BY <2>1, PrometidoQuieto
  <2> QED
    BY <1>1, <2>2, OrdenQuieta
<1> QED
  BY <1>2, <1>3

(* The steps of a node preserve Consistente: it writes what it was sent,   *)
(* in order.                                                               *)
LEMMA OrdenNodo ==
    ASSUME Inv, Consistente, NEW n \in Nodes, NodeStep(n) \/ NodeLost(n)
    PROVE  Consistente'
<1>1. UNCHANGED <<hilo, libre, bitmap, nodosBin, archivos, pedidos>>
  BY DEF NodeStep, NodeLost, fsVars, blockVars
<1>2. CASE NodeStep(n)
  <2>1. Prometido
    BY <1>2, LlegaServido DEF Prometido
  <2> QED
    BY <1>1, <2>1, OrdenQuieta
<1>3. CASE NodeLost(n)
  <2>1. \E s : EndOf(n, s) /\ UNCHANGED disco
    BY <1>3 DEF NodeLost, NodeDies
  <2>2. Prometido
    BY <2>1, LlegaFin DEF Prometido
  <2> QED
    BY <1>1, <2>2, OrdenQuieta
<1> QED
  BY <1>2, <1>3

(* A thread that is not writing or removing, before and after.             *)
LEMMA OrdenOciosa ==
    ASSUME UnHilo, Inv, Inv', Consistente, UNCHANGED <<libre, bitmap, nodosBin, archivos>>,
           pedidos.borra => pedidos'.borra, Ocioso(actual), Ocioso(actual'), Prometido
    PROVE  Consistente'
<1>1. pedidos'.borra \in BOOLEAN
  <2>1. pedidos' \in [dados : Nat, borra : BOOLEAN]
    BY DEF Inv, TypeOK, ProcessTypeOK
  <2> QED
    BY <2>1
<1>2. Cuentas' /\ \A r \in Replica, d \in Datos : Debe(r, d)' => Debe(r, d)
  BY <1>1, OciosoSigue DEF Consistente, Cuentas
<1>3. Guardado'
  BY <1>2, GuardadoSigue DEF Consistente
<1> QED
  BY <1>2, <1>3 DEF Consistente, Cuentas

(* A command that ends leaves the thread idle.                             *)
LEMMA FinOcioso ==
    ASSUME UnHilo, Inv, NEW r \in Resultados, Ends(Consola, r)
    PROVE  Ocioso(actual') /\ actual'.pc = "libre" /\ actual'.res = <<>> /\ actual'.libera = <<>>
           /\ actual'.path = NULL /\ actual'.i = 1 /\ actual' = Idle(r)
<1>1. actual' = Idle(r)
  BY Solo, ActualEs DEF Ends
<1>2. Idle(r).pc = "libre" /\ Idle(r).res = <<>> /\ Idle(r).libera = <<>> /\ Idle(r).path = NULL /\ Idle(r).i = 1
  BY DEF Idle
<1> QED
  BY <1>1, <1>2 DEF Ocioso, Escribiendo, Liberando

(* No command takes back that something was ordered removed.               *)
LEMMA PedidosCrecen ==
    ASSUME Inv, NEW t, NEW b \in BOOLEAN, Order(t, b)
    PROVE  /\ pedidos.borra => pedidos'.borra
           /\ b => pedidos'.borra
           /\ ~b => pedidos'.borra = pedidos.borra
           /\ fs = "up" /\ hilo[t].pc = "libre"
<1>1. pedidos \in [dados : Nat, borra : BOOLEAN]
  BY DEF Inv, TypeOK, ProcessTypeOK
<1> QED
  BY <1>1 DEF Order, At

(* The command that reads a file preserves Consistente.                    *)
LEMMA OrdenLeer ==
    ASSUME UnHilo, Inv, Inv', Consistente, NEW f \in Paths, LeerArchivo(Consola, f), UNCHANGED dataNodeVars
    PROVE  Consistente'
<1>1. Ocioso(actual) /\ (pedidos.borra => pedidos'.borra)
  BY PedidosCrecen DEF LeerArchivo, Ocioso, actual, Escribiendo, Liberando
<1>2. Ocioso(actual')
  <2>1. CASE Ends(Consola, "NO_EXISTE")
    BY <2>1, FinOcioso DEF Resultados
  <2>2. CASE ~Ends(Consola, "NO_EXISTE")
    <3> DEFINE y == [Idle("NADA") EXCEPT !.pc = "elige", !.path = f, !.info = archivos[f].bloques]
    <3>1. hilo' = [hilo EXCEPT ![Consola] = y]
      BY <2>2 DEF LeerArchivo
    <3>2. y.pc = "elige"
      BY DEF Idle
    <3> HIDE DEF y
    <3>3. actual' = y
      BY <3>1, Solo, ActualEs
    <3> QED
      BY <3>2, <3>3 DEF Ocioso, Escribiendo, Liberando
  <2> QED
    BY <2>1, <2>2
<1>3. UNCHANGED <<libre, bitmap, nodosBin, archivos, vivo, disco, entrada>>
  BY DEF LeerArchivo, blockVars, dataNodeVars
<1> QED
  BY <1>1, <1>2, <1>3, PrometidoQuieto, OrdenOciosa

(* A step of a read.                                                       *)
LEMMA LectorSigue ==
    ASSUME UnHilo, Inv, actual.pc \in Leyendo, NEW y, hilo' = [hilo EXCEPT ![Consola] = y],
           y.pc \in Leyendo \cup {"libre"}
    PROVE  Ocioso(actual) /\ Ocioso(actual')
BY Solo, ActualEs DEF Ocioso, Escribiendo, Liberando, Leyendo

(* The local steps of a read preserve Consistente.                         *)
LEMMA OrdenLectura ==
    ASSUME UnHilo, Inv, Inv', Consistente, ReadLocally(Consola), UNCHANGED dataNodeVars
    PROVE  Consistente'
<1> DEFINE x == actual
<1>1. /\ x \in LocalesDeHilo /\ x.pc \in Leyendo /\ hilo[Consola] = x
      /\ UNCHANGED <<libre, bitmap, nodosBin, archivos, pedidos, vivo, disco, entrada>>
  BY Solo DEF ReadLocally, ElegirNodos, NoHayNodos, PrepararLectura, ExcluirNodo, EsperarLectura,
     RevisarLectura, ArmarRespuesta, At, actual, Leyendo, blockVars, dataNodeVars
<1>2. Ocioso(actual) /\ Ocioso(actual')
  <2>1. CASE \E r \in Resultados : Ends(Consola, r)
    BY <1>1, <2>1, FinOcioso DEF Ocioso, Leyendo, Escribiendo, Liberando
  <2>2. CASE ElegirNodos(Consola)
    <3>1. PICK sel : hilo' = [hilo EXCEPT ![Consola] = [x EXCEPT !.pc = "prepara", !.sel = sel]]
      BY <2>2 DEF ElegirNodos, actual
    <3>2. [x EXCEPT !.pc = "prepara", !.sel = sel].pc \in Leyendo
      BY <1>1 DEF LocalesDeHilo, Leyendo
    <3> QED
      BY <1>1, <3>1, <3>2, LectorSigue
  <2>3. CASE PrepararLectura(Consola)
    <3>1. PICK pc \in {"pide", "prepara"} : hilo' = [hilo EXCEPT ![Consola] = [x EXCEPT !.i = 1, !.pc = pc]]
      BY <2>3, Zenon DEF PrepararLectura, actual
    <3>2. [x EXCEPT !.i = 1, !.pc = pc].pc \in Leyendo
      BY <1>1 DEF LocalesDeHilo, Leyendo
    <3> QED
      BY <1>1, <3>1, <3>2, LectorSigue
  <2>4. CASE ExcluirNodo(Consola)
    <3>1. PICK e : hilo' = [hilo EXCEPT ![Consola] = [x EXCEPT !.exc = e, !.pc = "elige"]]
      BY <2>4, Zenon DEF ExcluirNodo, actual
    <3>2. [x EXCEPT !.exc = e, !.pc = "elige"].pc \in Leyendo
      BY <1>1 DEF LocalesDeHilo, Leyendo
    <3> QED
      BY <1>1, <3>1, <3>2, LectorSigue
  <2>5. CASE EsperarLectura(Consola)
    <3> DEFINE pc == IF x.i = Len(x.info) THEN "revisa" ELSE "aguarda"
               y == [NextWait(x, Len(x.info)) EXCEPT !.pc = pc]
    <3>1. hilo' = [hilo EXCEPT ![Consola] = y]
      BY <2>5, Zenon DEF EsperarLectura, actual, BloquesLeidos
    <3>2. pc \in {"pide", "aguarda", "revisa"} /\ x.pc \in {"pide", "aguarda"} /\ LecturaBien(x, lista)
      BY <2>5, Solo DEF EsperarLectura, At, actual
    <3>3. y.pc = pc
      <4> HIDE DEF pc, x
      <4> QED
        BY <3>2, <1>1, SiguienteBien
    <3>4. y.pc \in Leyendo
      BY <3>2, <3>3 DEF Leyendo
    <3> HIDE DEF y
    <3> QED
      BY <1>1, <3>1, <3>4, LectorSigue
  <2>6. CASE RevisarLectura(Consola) /\ ~ \E r \in Resultados : Ends(Consola, r)
    <3>1. hilo' = [hilo EXCEPT ![Consola] = [x EXCEPT !.pc = "arma"]]
      BY <2>6 DEF RevisarLectura, actual, Resultados
    <3>2. [x EXCEPT !.pc = "arma"].pc \in Leyendo
      BY <1>1 DEF LocalesDeHilo, Leyendo
    <3> QED
      BY <1>1, <3>1, <3>2, LectorSigue
  <2>7. CASE ArmarRespuesta(Consola)
    <3> DEFINE y == [Idle("LEIDO") EXCEPT !.path = hilo[Consola].path,
                                          !.leido = [i \in DOMAIN lista |-> lista[i].lectura]]
    <3>1. hilo' = [hilo EXCEPT ![Consola] = y]
      BY <2>7 DEF ArmarRespuesta
    <3>2. y.pc = "libre"
      BY DEF Idle
    <3> HIDE DEF y
    <3> QED
      BY <1>1, <3>1, <3>2, LectorSigue
  <2>8. CASE NoHayNodos(Consola)
    BY <2>1, <2>8 DEF NoHayNodos, Resultados
  <2> QED
    BY <2>1, <2>2, <2>3, <2>4, <2>5, <2>6, <2>7, <2>8 DEF ReadLocally
<1> QED
  BY <1>1, <1>2, PrometidoQuieto, OrdenOciosa

-----------------------------------------------------------------------------
(* The sum of a function over the nodes.                                   *)
LEMMA SumaDeNodos ==
    ASSUME NEW f \in [Nodes -> Int]
    PROVE  /\ SumOfNodes(f) \in Int
           /\ \A n \in Nodes, d \in Int : SumOfNodes([f EXCEPT ![n] = @ + d]) = SumOfNodes(f) + d
<1>1. \A g : SumOfNodes(g) = SumaDe(g, Nodes)
  BY Zenon DEF SumOfNodes, SumaDe
<1>2. IsFiniteSet(Nodes)
  BY FsWriteAssumption
<1>3. SumaDe(f, Nodes) \in Int
  BY <1>2, SumaEntera
<1>4. ASSUME NEW n \in Nodes, NEW d \in Int
      PROVE  SumaDe([f EXCEPT ![n] = @ + d], Nodes) = SumaDe(f, Nodes) + d
  BY <1>2, SumaCambia
<1> QED
  BY <1>1, <1>3, <1>4

(* The types that the counts need.                                         *)
LEMMA CuentasSon ==
    ASSUME Inv
    PROVE  /\ libre \in [Nodes -> Int] /\ nodosBin \in Config /\ nodosBin.libre \in [Nodes -> Int]
           /\ nodosBin.total \in Int /\ SumOfNodes(libre) \in Int /\ SumOfNodes(nodosBin.libre) \in Int
           /\ \A n \in Nodes : bitmap[n] \subseteq BlocksOf(n)
           /\ pedidos.borra \in BOOLEAN
<1>1. libre \in [Nodes -> Int] /\ nodosBin \in Config /\ pedidos \in [dados : Nat, borra : BOOLEAN]
      /\ \A n \in Nodes : bitmap[n] \subseteq BlocksOf(n)
  BY DEF Inv, TypeOK, ProcessTypeOK
<1>2. nodosBin.libre \in [Nodes -> Int] /\ nodosBin.total \in Int
  BY <1>1 DEF Config
<1> QED
  BY <1>1, <1>2, SumaDeNodos

(* A request to read brings nothing.                                       *)
LEMMA PrometidoLeer ==
    ASSUME Inv, NEW n \in Nodes, NEW p, p.op # "SET_BLOQUE",
           entrada' = [entrada EXCEPT ![n] = Append(@, p)], UNCHANGED <<vivo, disco>>
    PROVE  Prometido
<1>1. ASSUME NEW r \in Replica, NEW d \in Datos, Llega(r, d) PROVE Llega(r, d)'
  <2>1. ~EsSet(p, r.bloque)
    BY DEF EsSet
  <2> QED
    BY <1>1, <2>1, LlegaIgual
<1> QED
  BY <1>1 DEF Prometido

(* A request for a block, queued behind the writes, preserves Consistente. *)
LEMMA OrdenPedirBloque ==
    ASSUME UnHilo, Inv, Inv', Consistente, PedirBloque(Consola), UNCHANGED <<vivo, disco, salida, muertes>>
    PROVE  Consistente'
<1> DEFINE x == actual
           n == lista[x.i].idNodo
           bi == x.info[x.i]
           last == Len(x.info)
           p == GetBloque(IdBloqueOn(bi, n), x.i)
           pc == IF x.i = last THEN "aguarda" ELSE "pide"
           y == [NextWait(x, last) EXCEPT !.pc = pc]
<1>1. /\ x.pc = "pide" /\ x.pc \in Leyendo /\ hilo[Consola] = x /\ x \in LocalesDeHilo
      /\ LecturaBien(x, lista) /\ Consola \in Hilos /\ hilo \in [Hilos -> LocalesDeHilo]
  BY Solo DEF PedirBloque, At, Leyendo, actual
<1>2. n \in Nodes
  BY <1>1, EntradaDeLista
<1>3. SendTo(n, p, hilo' = [hilo EXCEPT ![Consola] = y])
      /\ UNCHANGED <<blockVars, activo, lista, atencion, pedidos>>
  <2>1. /\ SendTo(n, p, hilo' = [hilo EXCEPT ![Consola] = NextWait(x, last), ![Consola].pc = pc])
        /\ UNCHANGED <<blockVars, activo, lista, atencion, pedidos>>
    BY Zenon DEF PedirBloque, BloquesLeidos, actual
  <2>2. [hilo EXCEPT ![Consola] = NextWait(x, last), ![Consola].pc = pc] = [hilo EXCEPT ![Consola] = y]
    <3> HIDE DEF pc, last, x
    <3> QED
      BY <1>1
  <2> QED
    BY <2>1, <2>2, Zenon
<1>4. y.pc \in Leyendo
  <2>1. pc \in {"pide", "aguarda", "revisa"} /\ pc \in Leyendo
    BY DEF Leyendo
  <2>2. y.pc = pc
    <3> HIDE DEF pc, x
    <3> QED
      BY <1>1, <2>1, SiguienteBien
  <2> QED
    BY <2>1, <2>2
<1>5. p.op # "SET_BLOQUE"
  BY DEF GetBloque
<1> HIDE DEF y, n, p
<1>6. CASE hilo' = hilo /\ entrada' = entrada
  <2>1. Prometido
    BY <1>6, PrometidoQuieto
  <2> QED
    BY <1>3, <1>6, <2>1, OrdenQuieta DEF blockVars
<1>7. CASE hilo' = [hilo EXCEPT ![Consola] = y]
           /\ (entrada' = entrada \/ entrada' = [entrada EXCEPT ![n] = Append(@, p)])
  <2>1. Prometido
    BY <1>2, <1>5, <1>7, PrometidoQuieto, PrometidoLeer
  <2>2. Ocioso(actual) /\ Ocioso(actual')
    BY <1>1, <1>4, <1>7, LectorSigue
  <2>3. UNCHANGED <<libre, bitmap, nodosBin, archivos, pedidos>>
    BY <1>3 DEF blockVars
  <2> QED
    BY <2>1, <2>2, <2>3, OrdenOciosa
<1> QED
  BY <1>3, <1>6, <1>7 DEF SendTo

-----------------------------------------------------------------------------
(* The reservation of a write.                                             *)

(* An empty reservation has no block of any node.                          *)
LEMMA NadaReservado ==
    ASSUME NEW n
    PROVE  ReservedOn(<<>>, n) = {} /\ Cardinality(ReservedOn(<<>>, n)) = 0
<1>1. ReservedOn(<<>>, n) = {}
  BY DEF ReservedOn, Contains
<1> QED
  BY <1>1, FS_EmptySet

(* The start of a write preserves Consistente.                             *)
LEMMA OrdenEmpieza ==
    ASSUME UnHilo, Inv, Inv', Consistente, actual.pc = "libre",
           UNCHANGED <<libre, bitmap, nodosBin, archivos, vivo, disco, entrada>>,
           pedidos'.borra = pedidos.borra, NEW f \in Paths, archivos[f] = NULL,
           actual'.pc = "reserva", actual'.path = f, actual'.res = <<>>, actual'.libera = <<>>
    PROVE  Consistente'
<1> USE DEF Consistente
<1>1. Ocioso(actual) /\ actual.res = <<>> /\ actual.libera = <<>>
  <2>1. Ocioso(actual)
    BY DEF Ocioso, Escribiendo, Liberando
  <2> QED
    BY <2>1, Solo, OciosoEs DEF Bien
<1>2. actual.i \in Nat \ {0} /\ actual'.i \in Nat \ {0}
  BY Solo, SoloDespues, CamposDeHilo
<1>3. Pendientes = {} /\ Pendientes' = {}
  BY <1>1, <1>2 DEF Pendientes, Desde
<1>4. \A g \in Paths : Listed(g)' = Listed(g)
  BY DEF Listed
<1>5. ReservedBy(Consola)' = {}
  BY DEF ReservedBy, actual
<1>6. Duenios'
  <2>1. IsInjective(actual'.libera)
    BY DEF IsInjective
  <2> QED
    BY <1>3, <1>4, <1>5, <2>1 DEF Duenios
<1>7. Bits'
  BY <1>3, <1>4 DEF Bits, Marcada
<1>8. Libres'
  BY <1>1 DEF Libres
<1>9. nodosBin.libre = libre /\ nodosBin.total <= SumOfNodes(libre)
      /\ (~pedidos.borra => nodosBin.total = SumOfNodes(libre))
  <2>1. Faltan = 0
    BY DEF Faltan, Mandando
  <2> QED
    BY <2>1, CuentasSon DEF BinLibre, BinTotal, Mandando
<1>10. BinLibre'
  <2>1. \A n \in Nodes : nodosBin'.libre[n] = libre'[n] + Cardinality(ReservedOn(actual'.res, n))
    BY <1>9, CuentasSon, NadaReservado
  <2> QED
    BY <2>1 DEF BinLibre, Mandando
<1>11. BinTotal'
  <2>1. Faltan' = 0 /\ Len(actual'.res) = 0
    BY DEF Faltan
  <2> QED
    BY <1>9, <2>1, CuentasSon DEF BinTotal, Liberando
<1>12. Guardado'
  <2>1. Mandados' = {}
    BY DEF Mandados
  <2>2. \A r \in Replica, d \in Datos : Debe(r, d)' => Debe(r, d)
    BY <2>1 DEF Debe, DebeEscritor, DebeArchivo
  <2> QED
    BY <2>2, PrometidoQuieto, GuardadoSigue
<1> QED
  BY <1>6, <1>7, <1>8, <1>10, <1>11, <1>12

(* The command cpfrom preserves Consistente.                               *)
LEMMA OrdenEscribir ==
    ASSUME UnHilo, Inv, Inv', Consistente, NEW f \in Paths, EscribirArchivo(Consola, f),
           UNCHANGED dataNodeVars
    PROVE  Consistente'
<1>1. /\ actual.pc = "libre" /\ pedidos'.borra = pedidos.borra
      /\ UNCHANGED <<libre, bitmap, nodosBin, archivos, vivo, disco, entrada>>
  BY PedidosCrecen DEF EscribirArchivo, actual, blockVars, dataNodeVars
<1>2. Ocioso(actual) /\ Prometido
  BY <1>1, PrometidoQuieto DEF Ocioso, Escribiendo, Liberando
<1>3. CASE Ends(Consola, "ARCHIVO_EXISTENTE")
  <2>1. Ocioso(actual')
    BY <1>3, FinOcioso DEF Resultados
  <2> QED
    BY <1>1, <1>2, <2>1, OrdenOciosa
<1>4. CASE hilo' = hilo
  <2>1. actual' = actual
    BY <1>4 DEF actual
  <2> QED
    BY <1>1, <1>2, <2>1, OrdenOciosa
<1>5. CASE /\ archivos[f] = NULL
           /\ hilo' = [hilo EXCEPT ![Consola] = [Idle("NADA") EXCEPT !.pc = "reserva", !.path = f,
                                        !.activos = {n \in Nodes : activo[n]}]]
  <2> DEFINE A == {n \in Nodes : activo[n]}
             y == [Idle("NADA") EXCEPT !.pc = "reserva", !.path = f, !.activos = A]
  <2>1. actual' = y
    BY <1>5, Solo, ActualEs
  <2>2. y.pc = "reserva" /\ y.path = f /\ y.res = <<>> /\ y.libera = <<>>
    <3> HIDE DEF A
    <3> QED
      BY DEF Idle
  <2> HIDE DEF y
  <2> QED
    BY <1>1, <1>5, <2>1, <2>2, OrdenEmpieza
<1> QED
  BY <1>3, <1>4, <1>5 DEF EscribirArchivo

(* A block reserved is one more block reserved on its node.                *)
LEMMA ReservadosCrecen ==
    ASSUME NEW res \in Seq(Replica), NEW n \in Nodes, NEW b \in BlocksOf(n), ~Contains(res, Reserved(n, b))
    PROVE  /\ b \notin ReservedOn(res, n)
           /\ ReservedOn(Append(res, Reserved(n, b)), n) = ReservedOn(res, n) \cup {b}
           /\ \A m \in Nodes : m # n => ReservedOn(Append(res, Reserved(n, b)), m) = ReservedOn(res, m)
<1> DEFINE r == Reserved(n, b)
           s == Append(res, r)
<1>1. \A e : Contains(s, e) <=> Contains(res, e) \/ e = r
  <2>1. Len(res) \in Nat /\ Len(s) = Len(res) + 1 /\ s[Len(res) + 1] = r
    OBVIOUS
  <2>2. \A k \in 1 .. Len(res) : s[k] = res[k]
    OBVIOUS
  <2> HIDE DEF s, r
  <2> QED
    BY <2>1, <2>2 DEF Contains
<1>2. \A m, c : Reserved(m, c) = r <=> m = n /\ c = b
  BY DEF Reserved
<1> HIDE DEF r, s
<1> QED
  BY <1>1, <1>2 DEF ReservedOn, r, s

(* Who reserves has nothing to free, and has sent nothing.                 *)
LEMMA ReservaEs ==
    ASSUME UnHilo, Inv, actual.pc = "reserva"
    PROVE  /\ actual.libera = <<>> /\ Pendientes = {} /\ Mandados = {} /\ actual.path \in Paths
           /\ actual.res \in Seq(Replica) /\ Len(actual.res) \in Nat /\ IsInjective(actual.res)
           /\ \A f, r : Marcada(f, r) <=> r \in Listed(f)
<1>1. actual.libera = <<>> /\ actual.path \in Paths /\ IsInjective(actual.res)
  BY Solo DEF Bien, LiberaBien, ReservaBien, Liberando, Escribiendo
<1>2. actual.res \in Seq(Replica) /\ actual.i \in Nat \ {0}
  BY Solo, CamposDeHilo
<1>3. Pendientes = {}
  BY <1>1, <1>2 DEF Pendientes, Desde
<1>4. Mandados = {}
  BY DEF Mandados
<1>5. \A f, r : Marcada(f, r) <=> r \in Listed(f)
  BY DEF Marcada
<1>6. Len(actual.res) \in Nat
  BY <1>2
<1> QED
  BY <1>1, <1>2, <1>3, <1>4, <1>5, <1>6

(* A reservation preserves Consistente: the block was of nobody.           *)
LEMMA OrdenReservar ==
    ASSUME UnHilo, Inv, Inv', Consistente, NEW n \in Nodes, ReserveBlock(Consola, n),
           UNCHANGED dataNodeVars
    PROVE  Consistente'
<1> USE DEF Consistente
<1> DEFINE x == actual
           b == FirstOf(FreeOf(Consola, n))
           r == Reserved(n, b)
           y == [x EXCEPT !.res = Append(@, r), !.j = @ + 1, !.anterior = n, !.saltear = 0]
<1>1. x.pc = "reserva" /\ x \in LocalesDeHilo /\ hilo[Consola] = x /\ Consola \in Hilos
  BY Solo, ReservandoEs DEF ReserveBlock, actual
<1>2. b \in BlocksOf(n) /\ b \notin bitmap[n] /\ ~Contains(x.res, r)
  <2>1. FreeOf(Consola, n) \in SUBSET Nat /\ FreeOf(Consola, n) # {}
    <3>1. FreeOf(Consola, n) \subseteq BlocksOf(n)
      BY DEF FreeOf, FreeBlocks
    <3> QED
      BY <3>1, BloquesDeNodo DEF ReserveBlock
  <2>2. b \in FreeOf(Consola, n)
    BY <2>1, PrimeroEs
  <2> HIDE DEF b
  <2> QED
    BY <2>2, <1>1 DEF FreeOf, FreeBlocks
<1>3. actual' = y
  <2>1. hilo' = [hilo EXCEPT ![Consola] = y]
    BY <1>1, Solo, Zenon DEF ReserveBlock
  <2> HIDE DEF y
  <2> QED
    BY <2>1, Solo, ActualEs
<1>4. /\ libre' = [libre EXCEPT ![n] = @ - 1] /\ UNCHANGED <<bitmap, nodosBin, archivos, pedidos>>
      /\ UNCHANGED <<vivo, disco, entrada>>
  BY DEF ReserveBlock, dataNodeVars
<1> HIDE DEF b
<1>5. /\ actual'.pc = "reserva" /\ actual'.path = x.path /\ actual'.res = Append(x.res, r)
      /\ actual'.libera = x.libera
  <2> HIDE DEF x, r
  <2> QED
    BY <1>1, <1>3 DEF LocalesDeHilo
<1> HIDE DEF y
<1>6. /\ x.libera = <<>> /\ Pendientes = {} /\ Mandados = {} /\ x.path \in Paths
      /\ x.res \in Seq(Replica) /\ Len(x.res) \in Nat /\ \A f, e : Marcada(f, e) <=> e \in Listed(f)
  BY <1>1, ReservaEs
<1>7. Pendientes' = {} /\ Mandados' = {} /\ actual'.i \in Nat \ {0}
  <2>1. actual'.i \in Nat \ {0}
    BY SoloDespues, CamposDeHilo
  <2> QED
    BY <1>5, <1>6, <2>1 DEF Pendientes, Desde, Mandados
<1>8. r \in Replica /\ r.nodo = n /\ r.bloque = b
  BY <1>2, ReservadoEs
<1>9. \A f \in Paths : Listed(f)' = Listed(f)
  BY <1>4 DEF Listed
<1>10. \A f \in Paths : r \notin Listed(f)
  BY <1>2, <1>6, <1>8 DEF Bits
<1>11. ReservedBy(Consola)' = ReservedBy(Consola) \cup {r}
  <2> DEFINE s == x.res
             u == Append(s, r)
  <2>1. Len(s) \in Nat /\ DOMAIN s = 1 .. Len(s) /\ DOMAIN u = 1 .. Len(s) + 1 /\ u[Len(s) + 1] = r
    BY <1>6
  <2>2. \A k \in 1 .. Len(s) : u[k] = s[k]
    BY <1>6
  <2>3. ReservedBy(Consola) = {s[k] : k \in DOMAIN s} /\ ReservedBy(Consola)' = {u[k] : k \in DOMAIN u}
    BY <1>5 DEF ReservedBy, actual
  <2>4. \A k \in 1 .. Len(s) + 1 : k \in 1 .. Len(s) \/ k = Len(s) + 1
    BY <2>1
  <2> HIDE DEF s, u, r
  <2> QED
    BY <2>1, <2>2, <2>3, <2>4
<1>12. Duenios'
  <2>1. IsInjective(actual'.libera)
    BY <1>5, <1>6 DEF IsInjective
  <2>2. \A f \in Paths : \A e \in ReservedBy(Consola)' : e \in Listed(f)' => f = actual'.path
    BY <1>5, <1>9, <1>10, <1>11 DEF Duenios
  <2>3. archivos'[actual'.path] = NULL
    BY <1>1, <1>4, <1>5 DEF Duenios, Escribiendo
  <2> QED
    BY <1>5, <1>7, <1>9, <2>1, <2>2, <2>3 DEF Duenios
<1>13. Bits'
  <2>1. \A f \in Paths, e \in Replica : Marcada(f, e)' <=> e \in Listed(f)
    BY <1>5, <1>9 DEF Marcada
  <2> QED
    BY <1>4, <1>6, <1>7, <2>1 DEF Bits
<1>14. /\ b \notin ReservedOn(x.res, n)
       /\ ReservedOn(actual'.res, n) = ReservedOn(x.res, n) \cup {b}
       /\ \A m \in Nodes : m # n => ReservedOn(actual'.res, m) = ReservedOn(x.res, m)
  BY <1>2, <1>5, <1>6, ReservadosCrecen
<1>15. Cardinality(ReservedOn(actual'.res, n)) = Cardinality(ReservedOn(x.res, n)) + 1
  BY <1>14, ReservadosEnNodo, FS_AddElement
<1>16. /\ Cardinality(bitmap[n] \cup ReservedOn(actual'.res, n)) = Cardinality(bitmap[n] \cup ReservedOn(x.res, n)) + 1
       /\ Cardinality(bitmap[n] \cup ReservedOn(x.res, n)) \in Nat
  <2> DEFINE S == bitmap[n] \cup ReservedOn(x.res, n)
  <2>1. S \subseteq BlocksOf(n)
    BY CuentasSon, ReservadosEnNodo
  <2>2. IsFiniteSet(S)
    BY <2>1, BloquesDeNodo, FS_Subset
  <2>3. b \notin S /\ bitmap[n] \cup ReservedOn(actual'.res, n) = S \cup {b}
    BY <1>2, <1>14
  <2> HIDE DEF S
  <2>4. Cardinality(S \cup {b}) = Cardinality(S) + 1 /\ Cardinality(S) \in Nat
    BY <2>2, <2>3, FS_AddElement, FS_CardinalityType
  <2> QED
    BY <2>3, <2>4 DEF S
<1>17. libre'[n] = libre[n] - 1 /\ libre[n] \in Int /\ \A m \in Nodes : m # n => libre'[m] = libre[m]
  BY <1>4, CuentasSon
<1>18. Libres'
  <2>1. ASSUME NEW m \in Nodes
        PROVE  libre'[m] = Total[m] - Cardinality(bitmap'[m] \cup ReservedOn(actual'.res, m))
    <3>1. Total[m] \in Nat
      BY DataNodeAssumption
    <3>2. libre[m] = Total[m] - Cardinality(bitmap[m] \cup ReservedOn(x.res, m))
      BY DEF Libres
    <3>3. CASE m = n
      BY <1>4, <1>16, <1>17, <3>1, <3>2, <3>3
    <3>4. CASE m # n
      BY <1>4, <1>14, <1>17, <3>1, <3>2, <3>4
    <3> QED
      BY <3>3, <3>4
  <2> QED
    BY <2>1 DEF Libres
<1>19. BinLibre'
  <2>1. ASSUME NEW m \in Nodes
        PROVE  nodosBin'.libre[m] = libre'[m] + Cardinality(ReservedOn(actual'.res, m))
    <3>1. nodosBin.libre[m] = libre[m] + Cardinality(ReservedOn(x.res, m))
      BY <1>1 DEF BinLibre
    <3>2. Cardinality(ReservedOn(x.res, m)) \in Nat
      BY ReservadosEnNodo
    <3>3. CASE m = n
      BY <1>4, <1>15, <1>17, <3>1, <3>2, <3>3
    <3>4. CASE m # n
      BY <1>4, <1>14, <1>17, <3>1, <3>4
    <3> QED
      BY <3>3, <3>4
  <2> QED
    BY <1>5, <2>1 DEF BinLibre, Mandando
<1>20. BinTotal'
  <2>1. SumOfNodes(libre') = SumOfNodes(libre) - 1 /\ SumOfNodes(libre) \in Int
    <3>1. ASSUME NEW d \in Int, d = -1 PROVE SumOfNodes(libre') = SumOfNodes(libre) + d
      <4>1. libre' = [libre EXCEPT ![n] = @ + d]
        BY <1>4, <3>1, CuentasSon
      <4>2. SumOfNodes([libre EXCEPT ![n] = @ + d]) = SumOfNodes(libre) + d
        BY CuentasSon, SumaDeNodos
      <4> QED
        BY <4>1, <4>2
    <3>2. SumOfNodes(libre') = SumOfNodes(libre) + (-1)
      BY <3>1
    <3> QED
      BY <3>2, CuentasSon
  <2>2. Faltan = Len(x.res) /\ Faltan' = Len(x.res) + 1 /\ Len(actual'.res) = Len(x.res) + 1
    BY <1>1, <1>5, <1>6 DEF Faltan
  <2>3. /\ nodosBin.total <= SumOfNodes(libre) + Faltan
        /\ (~pedidos.borra => nodosBin.total = SumOfNodes(libre) + Faltan)
        /\ SumOfNodes(nodosBin.libre) = SumOfNodes(libre) + Len(x.res)
    BY <1>1 DEF BinTotal
  <2>4. SumOfNodes(libre)' = SumOfNodes(libre')
    OBVIOUS
  <2>5. SumOfNodes(libre') + Faltan' = SumOfNodes(libre) + Faltan
    BY <2>1, <2>2, <1>6
  <2>6. SumOfNodes(libre') + Len(actual'.res) = SumOfNodes(libre) + Len(x.res)
    BY <2>1, <2>2, <1>6
  <2> QED
    BY <1>4, <1>5, <2>3, <2>4, <2>5, <2>6 DEF BinTotal, Liberando
<1>21. Guardado'
  <2>1. \A e \in Replica, d \in Datos : Debe(e, d)' => Debe(e, d)
    BY <1>4, <1>7 DEF Debe, DebeEscritor, DebeArchivo
  <2> QED
    BY <1>4, <2>1, PrometidoQuieto, GuardadoSigue
<1> QED
  BY <1>12, <1>13, <1>18, <1>19, <1>20, <1>21

(* The command goes on at the same place, with nothing else to write.      *)
LEMMA OrdenIgual ==
    ASSUME Consistente, Prometido, UNCHANGED <<libre, bitmap, nodosBin, archivos, pedidos>>,
           actual'.pc = actual.pc, actual'.path = actual.path, actual'.res = actual.res,
           actual'.i = actual.i, actual'.libera = actual.libera, actual'.cfg = actual.cfg
    PROVE  Consistente'
<1>1. Cuentas' /\ \A r \in Replica, d \in Datos : Debe(r, d)' => Debe(r, d)
  BY IgualSigue DEF Consistente, Cuentas
<1>2. Guardado'
  BY <1>1, GuardadoSigue DEF Consistente
<1> QED
  BY <1>1, <1>2 DEF Consistente, Cuentas

(* Passing over a node, or finding none, preserves Consistente.            *)
LEMMA OrdenTurno ==
    ASSUME UnHilo, Inv, Inv', Consistente, UNCHANGED dataNodeVars,
           (\E n \in Nodes : SkipNode(Consola, n) \/ NodeIsFull(Consola, n)) \/ NoNodeLeft(Consola)
    PROVE  Consistente'
<1> DEFINE x == actual
<1>1. /\ x \in LocalesDeHilo /\ hilo[Consola] = x /\ Prometido
      /\ UNCHANGED <<libre, bitmap, nodosBin, archivos, pedidos>>
  BY Solo, PrometidoQuieto DEF actual, SkipNode, NodeIsFull, NoNodeLeft, blockVars, dataNodeVars
<1>2. ASSUME NEW y, hilo' = [hilo EXCEPT ![Consola] = y], y.pc = x.pc, y.path = x.path, y.res = x.res,
             y.i = x.i, y.libera = x.libera, y.cfg = x.cfg
      PROVE  Consistente'
  <2>1. actual' = y
    BY <1>2, Solo, ActualEs
  <2> QED
    BY <1>1, <1>2, <2>1, OrdenIgual
<1>3. ASSUME NEW j, NEW s
      PROVE  \A y \in {[x EXCEPT !.saltear = s], [x EXCEPT !.j = j], [x EXCEPT !.j = j, !.saltear = s]} :
                /\ y.pc = x.pc /\ y.path = x.path /\ y.res = x.res
                /\ y.i = x.i /\ y.libera = x.libera /\ y.cfg = x.cfg
  <2> HIDE DEF x
  <2>1. x \in LocalesDeHilo
    BY <1>1
  <2> DEFINE Conserva(y) ==
                /\ y.pc = x.pc /\ y.path = x.path /\ y.res = x.res
                /\ y.i = x.i /\ y.libera = x.libera /\ y.cfg = x.cfg
  <2>2. Conserva([x EXCEPT !.saltear = s])
    BY <2>1 DEF LocalesDeHilo
  <2>3. Conserva([x EXCEPT !.j = j])
    BY <2>1 DEF LocalesDeHilo
  <2>4. Conserva([x EXCEPT !.j = j, !.saltear = s])
    BY <2>1 DEF LocalesDeHilo
  <2> QED
    BY <2>2, <2>3, <2>4
<1>4. ASSUME NEW n \in Nodes, SkipNode(Consola, n) PROVE Consistente'
  <2> DEFINE y == [x EXCEPT !.saltear = 1]
  <2>1. hilo' = [hilo EXCEPT ![Consola] = y]
    BY <1>1, <1>4, Zenon DEF SkipNode
  <2>2. /\ y.pc = x.pc /\ y.path = x.path /\ y.res = x.res
        /\ y.i = x.i /\ y.libera = x.libera /\ y.cfg = x.cfg
    BY <1>3
  <2> HIDE DEF y
  <2> QED
    BY <2>1, <2>2, <1>2
<1>5. ASSUME NEW n \in Nodes, NodeIsFull(Consola, n) PROVE Consistente'
  <2> DEFINE y == [x EXCEPT !.j = x.j + 1, !.saltear = 0]
  <2>1. hilo' = [hilo EXCEPT ![Consola] = y]
    BY <1>1, <1>5, Zenon DEF NodeIsFull
  <2>2. /\ y.pc = x.pc /\ y.path = x.path /\ y.res = x.res
        /\ y.i = x.i /\ y.libera = x.libera /\ y.cfg = x.cfg
    BY <1>3
  <2> HIDE DEF y
  <2> QED
    BY <2>1, <2>2, <1>2
<1>6. CASE NoNodeLeft(Consola)
  <2> DEFINE y == [x EXCEPT !.j = 2 * Necesarios(Consola)]
  <2>1. hilo' = [hilo EXCEPT ![Consola] = y]
    BY <1>1, <1>6, Zenon DEF NoNodeLeft
  <2>2. /\ y.pc = x.pc /\ y.path = x.path /\ y.res = x.res
        /\ y.i = x.i /\ y.libera = x.libera /\ y.cfg = x.cfg
    BY <1>3
  <2> HIDE DEF y
  <2> QED
    BY <2>1, <2>2, <1>2
<1> QED
  BY <1>4, <1>5, <1>6

(* Without any active node the program ends and nothing else changes.      *)
LEMMA OrdenSinBitMap ==
    ASSUME Consistente, NoBitMap(Consola), UNCHANGED dataNodeVars
    PROVE  Consistente'
BY OrdenQuieta, PrometidoQuieto DEF NoBitMap, blockVars, dataNodeVars

(* What is reserved is free: no bit of it is set.                          *)
LEMMA ReservadoLibre ==
    ASSUME UnHilo, Inv, Consistente, actual.pc = "reserva", NEW n \in Nodes
    PROVE  /\ bitmap[n] \cap ReservedOn(actual.res, n) = {}
           /\ Cardinality(bitmap[n] \cup ReservedOn(actual.res, n))
                = Cardinality(bitmap[n]) + Cardinality(ReservedOn(actual.res, n))
           /\ Cardinality(bitmap[n]) \in Nat /\ Cardinality(ReservedOn(actual.res, n)) \in Nat
<1>1. ASSUME NEW b \in bitmap[n], b \in ReservedOn(actual.res, n) PROVE FALSE
  <2> DEFINE r == Reserved(n, b)
  <2>1. b \in BlocksOf(n) /\ Contains(actual.res, r)
    BY <1>1 DEF ReservedOn
  <2>2. r \in Replica /\ r.nodo = n /\ r.bloque = b
    BY <2>1, ReservadoEs
  <2>3. PICK f \in Paths : r \in Listed(f)
    <3> HIDE DEF r
    <3> QED
      BY <1>1, <2>2, ReservaEs DEF Consistente, Bits
  <2>4. r \in ReservedBy(Consola)
    <3> HIDE DEF r
    <3>1. DOMAIN actual.res = 1 .. Len(actual.res)
      BY ReservaEs
    <3> QED
      BY <2>1, <3>1 DEF ReservedBy, actual, Contains
  <2>5. f = actual.path
    BY <2>3, <2>4 DEF Consistente, Duenios
  <2>6. archivos[f] = NULL
    BY <2>5 DEF Consistente, Duenios, Escribiendo
  <2> QED
    BY <2>3, <2>6 DEF Listed
<1>2. IsFiniteSet(bitmap[n])
  BY CuentasSon, BloquesDeNodo, FS_Subset
<1>3. IsFiniteSet(ReservedOn(actual.res, n))
  BY ReservadosEnNodo
<1>4. bitmap[n] \cap ReservedOn(actual.res, n) = {}
  BY <1>1
<1> DEFINE S == bitmap[n]
           T == ReservedOn(actual.res, n)
<1> HIDE DEF S, T
<1>5. Cardinality(S \cup T) = Cardinality(S) + Cardinality(T) - Cardinality(S \cap T)
  BY <1>2, <1>3, FS_Union DEF S, T
<1>6. Cardinality(S) \in Nat /\ Cardinality(T) \in Nat /\ Cardinality(S \cap T) = 0
  BY <1>2, <1>3, <1>4, FS_CardinalityType, FS_EmptySet DEF S, T
<1> QED
  BY <1>4, <1>5, <1>6 DEF S, T

(* The end of a write that sent nothing: the counts are those of nodos.bin *)
(* again.                                                                  *)
LEMMA OrdenSinEscritura ==
    ASSUME UnHilo, Inv, Inv', Consistente, actual.pc = "reserva",
           UNCHANGED <<bitmap, nodosBin, archivos, pedidos, vivo, disco, entrada>>,
           \A n \in Nodes : libre'[n] = libre[n] + Cardinality(ReservedOn(actual.res, n)),
           NEW r \in Resultados, Ends(Consola, r)
    PROVE  Consistente'
<1> USE DEF Consistente
<1>1. /\ Ocioso(actual') /\ actual'.pc = "libre" /\ actual'.res = <<>> /\ actual'.libera = <<>>
      /\ actual'.i = 1
  BY FinOcioso
<1>2. Pendientes = {} /\ Mandados = {} /\ \A f, e : Marcada(f, e) <=> e \in Listed(f)
  BY ReservaEs
<1>3. Pendientes' = {} /\ Mandados' = {} /\ ReservedBy(Consola)' = {} /\ IsInjective(actual'.libera)
  BY <1>1 DEF Pendientes, Desde, Mandados, ReservedBy, actual, IsInjective
<1>4. \A f \in Paths : Listed(f)' = Listed(f)
  BY DEF Listed
<1>5. Duenios'
  BY <1>1, <1>3, <1>4 DEF Duenios, Escribiendo
<1>6. Bits'
  BY <1>1, <1>2, <1>3, <1>4 DEF Bits, Marcada
<1>7. \A n \in Nodes : libre'[n] = nodosBin.libre[n]
  BY DEF BinLibre
<1>8. libre' = nodosBin.libre
  <2>1. libre' \in [Nodes -> Int] /\ nodosBin.libre \in [Nodes -> Int]
    <3>1. libre' \in [Nodes -> Int]
      BY DEF Inv, TypeOK, ProcessTypeOK
    <3> QED
      BY <3>1, CuentasSon
  <2>2. libre' = [n \in Nodes |-> libre'[n]] /\ nodosBin.libre = [n \in Nodes |-> nodosBin.libre[n]]
    BY <2>1
  <2> QED
    BY <1>7, <2>2
<1>9. Libres'
  <2>1. ASSUME NEW n \in Nodes
        PROVE  libre'[n] = Total[n] - Cardinality(bitmap'[n] \cup ReservedOn(actual'.res, n))
    <3>1. bitmap'[n] \cup ReservedOn(actual'.res, n) = bitmap[n]
      BY <1>1, NadaReservado
    <3>2. libre[n] = Total[n] - Cardinality(bitmap[n] \cup ReservedOn(actual.res, n)) /\ Total[n] \in Nat
      BY DataNodeAssumption DEF Libres
    <3>3. /\ Cardinality(bitmap[n] \cup ReservedOn(actual.res, n))
                = Cardinality(bitmap[n]) + Cardinality(ReservedOn(actual.res, n))
          /\ Cardinality(bitmap[n]) \in Nat /\ Cardinality(ReservedOn(actual.res, n)) \in Nat
      BY ReservadoLibre
    <3>4. libre'[n] = libre[n] + Cardinality(ReservedOn(actual.res, n))
      OBVIOUS
    <3>5. libre'[n] = Total[n] - Cardinality(bitmap[n])
      BY <3>2, <3>3, <3>4
    <3> QED
      BY <3>1, <3>5
  <2> QED
    BY <2>1 DEF Libres
<1>10. BinLibre'
  BY <1>1, <1>8 DEF BinLibre, Mandando
<1>11. BinTotal'
  <2>1. /\ nodosBin.total <= SumOfNodes(libre) + Len(actual.res)
        /\ (~pedidos.borra => nodosBin.total = SumOfNodes(libre) + Len(actual.res))
        /\ SumOfNodes(nodosBin.libre) = SumOfNodes(libre) + Len(actual.res)
    BY DEF BinTotal, Faltan
  <2>2. SumOfNodes(libre)' = SumOfNodes(nodosBin.libre) /\ SumOfNodes(nodosBin.libre) \in Int
    BY <1>8, CuentasSon
  <2>3. Faltan' = 0
    BY <1>1 DEF Faltan, Mandando
  <2> QED
    BY <1>1, <2>1, <2>2, <2>3 DEF BinTotal, Liberando
<1>12. Guardado'
  <2>1. \A e \in Replica, d \in Datos : Debe(e, d)' => Debe(e, d)
    BY <1>3 DEF Debe, DebeEscritor, DebeArchivo
  <2> QED
    BY <2>1, PrometidoQuieto, GuardadoSigue
<1> QED
  BY <1>5, <1>6, <1>9, <1>10, <1>11, <1>12

(* A writer that gives up gives back what it had reserved.                 *)
LEMMA OrdenSinEspacio ==
    ASSUME UnHilo, Inv, Inv', Consistente, SinEspacio(Consola), UNCHANGED dataNodeVars
    PROVE  Consistente'
<1>1. /\ actual.pc = "reserva" /\ libre' = RolledBack(actual.res) /\ Ends(Consola, "SIN_ESPACIO")
      /\ UNCHANGED <<bitmap, nodosBin, archivos, pedidos, vivo, disco, entrada>>
  BY DEF SinEspacio, At, actual, dataNodeVars
<1>2. \A n \in Nodes : libre'[n] = libre[n] + Cardinality(ReservedOn(actual.res, n))
  BY <1>1 DEF RolledBack
<1>3. "SIN_ESPACIO" \in Resultados
  BY DEF Resultados
<1> QED
  BY <1>1, <1>2, <1>3, OrdenSinEscritura

-----------------------------------------------------------------------------
(* The blocks are written, one replica at a time.                          *)

(* While nothing is reserved, listed or set, the blocks belong to whom     *)
(* they did.                                                               *)
LEMMA EscritorSigue ==
    ASSUME UnHilo, Inv, Inv', Consistente, UNCHANGED <<libre, bitmap, archivos>>,
           actual.pc \in Escribiendo \ {"bitmap"}, actual'.pc \in Escribiendo \ {"bitmap"},
           actual'.path = actual.path, actual'.res = actual.res
    PROVE  Duenios' /\ Bits' /\ Libres'
<1>1. actual.pc \notin Liberando /\ actual'.pc \notin Liberando
  BY DEF Escribiendo, Liberando
<1>2. actual.libera = <<>> /\ actual'.libera = <<>>
  BY <1>1, Solo, SoloDespues DEF Bien, LiberaBien
<1>3. actual.i \in Nat \ {0} /\ actual'.i \in Nat \ {0}
  BY Solo, SoloDespues, CamposDeHilo
<1>4. Pendientes = {} /\ Pendientes' = {}
  <2>1. Desde = actual.i /\ Desde' = actual'.i
    BY <1>1 DEF Desde, Liberando
  <2> QED
    BY <1>2, <1>3, <2>1 DEF Pendientes
<1>5. \A f \in Paths : Listed(f)' = Listed(f)
  BY DEF Listed
<1>6. ReservedBy(Consola)' = ReservedBy(Consola)
  BY DEF ReservedBy, actual
<1>7. IsInjective(actual'.libera)
  BY <1>2 DEF IsInjective
<1>8. actual'.pc # "bitmap" /\ actual.pc # "bitmap"
  OBVIOUS
<1>9. Duenios'
  BY <1>4, <1>5, <1>6, <1>7, <1>8 DEF Consistente, Duenios
<1>10. Bits'
  BY <1>4, <1>5, <1>8 DEF Consistente, Bits, Marcada
<1>11. Libres'
  BY DEF Consistente, Libres
<1> QED
  BY <1>9, <1>10, <1>11

(* The end of the reservations preserves Consistente.                      *)
LEMMA OrdenReservado ==
    ASSUME UnHilo, Inv, Inv', Consistente, BlocksReserved(Consola), UNCHANGED dataNodeVars
    PROVE  Consistente'
<1> DEFINE x == actual
<1>1. /\ x.pc = "reserva" /\ x \in LocalesDeHilo /\ hilo[Consola] = x /\ Len(x.res) = 2 * Necesarios(Consola)
      /\ UNCHANGED <<libre, bitmap, nodosBin, archivos, pedidos, vivo, disco, entrada>>
  BY Solo DEF BlocksReserved, At, actual, blockVars, dataNodeVars
<1>2. x.res \in Seq(Replica) /\ x.i = 1 /\ Len(x.res) \in Nat
  <2>1. Bien(x)
    BY Solo
  <2> HIDE DEF x
  <2> QED
    BY <1>1, <2>1, CamposDeHilo DEF Bien, ReservaBien
<1>3. CASE Necesarios(Consola) = 0 /\ Ends(Consola, "SIN_CONTENIDO_ESCRIBIR")
  <2>1. x.res = <<>>
    BY <1>1, <1>2, <1>3
  <2>2. \A n \in Nodes : libre'[n] = libre[n] + Cardinality(ReservedOn(x.res, n))
    BY <1>1, <2>1, NadaReservado, CuentasSon
  <2>3. "SIN_CONTENIDO_ESCRIBIR" \in Resultados
    BY DEF Resultados
  <2> QED
    BY <1>1, <1>3, <2>2, <2>3, OrdenSinEscritura
<1>4. CASE hilo' = [hilo EXCEPT ![Consola].pc = "escribe"]
  <2> DEFINE y == [x EXCEPT !.pc = "escribe"]
  <2>1. hilo' = [hilo EXCEPT ![Consola] = y]
    BY <1>1, <1>4
  <2>2. y.pc = "escribe" /\ y.path = x.path /\ y.res = x.res /\ y.i = x.i
    <3> HIDE DEF x
    <3> QED
      BY <1>1 DEF LocalesDeHilo
  <2> HIDE DEF y
  <2>3. actual' = y
    BY <2>1, Solo, ActualEs
  <2>4. /\ actual'.pc = "escribe" /\ actual'.path = x.path /\ actual'.res = x.res /\ actual'.i = 1
        /\ actual.pc \in Escribiendo \ {"bitmap"} /\ actual'.pc \in Escribiendo \ {"bitmap"}
    BY <1>1, <1>2, <2>2, <2>3 DEF Escribiendo
  <2>5. Duenios' /\ Bits' /\ Libres'
    BY <1>1, <2>4, EscritorSigue
  <2>6. BinLibre'
    <3>1. ASSUME NEW n \in Nodes, \A k \in 1 .. Len(x.res) : x.res[k].nodo # n
          PROVE  nodosBin.libre[n] = libre[n]
      <4>1. ReservedOn(x.res, n) = {}
        BY <3>1 DEF ReservedOn, Contains, Reserved
      <4>2. Cardinality(ReservedOn(x.res, n)) = 0
        BY <4>1, FS_EmptySet
      <4>3. nodosBin.libre[n] = libre[n] + Cardinality(ReservedOn(x.res, n))
        BY <1>1 DEF Consistente, BinLibre
      <4>4. libre[n] \in Int
        BY CuentasSon
      <4> QED
        BY <4>2, <4>3, <4>4
    <3> QED
      BY <1>1, <2>4, <3>1 DEF BinLibre, Mandando
  <2>7. BinTotal'
    <3>1. Faltan' = Faltan
      BY <1>1, <1>2, <2>4 DEF Faltan, Mandando
    <3> QED
      BY <1>1, <2>4, <3>1 DEF Consistente, BinTotal, Liberando
  <2>8. Guardado'
    <3>1. Mandados' = {}
      <4>1. DOMAIN x.res = 1 .. Len(x.res)
        BY <1>2
      <4> QED
        BY <2>4, <4>1, <1>2 DEF Mandados
    <3>2. \A e \in Replica, d \in Datos : Debe(e, d)' => Debe(e, d)
      BY <1>1, <3>1 DEF Debe, DebeEscritor, DebeArchivo
    <3> QED
      BY <1>1, <3>2, PrometidoQuieto, GuardadoSigue DEF Consistente
  <2> QED
    BY <2>5, <2>6, <2>7, <2>8 DEF Consistente
<1> QED
  BY <1>3, <1>4 DEF BlocksReserved

(* A writer that sends its blocks is at one of its replicas.               *)
LEMMA EscritorEs ==
    ASSUME UnHilo, Inv, actual.pc \in Mandando
    PROVE  /\ actual.i \in 1 .. Len(actual.res) /\ actual.res \in Seq(Replica) /\ Len(actual.res) \in Nat
           /\ DOMAIN actual.res = 1 .. Len(actual.res) /\ \A k \in DOMAIN actual.res : actual.res[k] \in Replica
           /\ actual.path \in Paths /\ IsInjective(actual.res)
           /\ actual.pc \in Escribiendo \ {"bitmap"} /\ (actual.pc = "guarda" => actual.cfg \in Config)
           /\ Len(actual.res) = 2 * Len(BloquesDelHilo(Consola))
<1> DEFINE x == actual
<1>1. Bien(x) /\ x.pc \in Escribiendo \ {"reserva"} /\ x.pc \in Escribiendo \ {"bitmap"}
  BY Solo DEF Mandando, Escribiendo
<1>2. BloquesDelHilo(Consola) = BloquesCortados[x.path]
  BY DEF BloquesDelHilo, actual
<1> HIDE DEF x
<1>3. /\ x.path \in Paths /\ x.res \in Seq(Replica) /\ IsInjective(x.res)
      /\ Len(x.res) = 2 * BloquesContados[x.path]
  BY <1>1, EscritorBien
<1>4. x.i \in 1 .. Len(x.res) /\ (x.pc = "guarda" => x.cfg \in Config)
  BY <1>1, <1>3 DEF Bien, ReservaBien, Mandando, x
<1>5. Len(x.res) = 2 * Len(BloquesDelHilo(Consola))
  BY <1>2, <1>3, BloquesDeArchivo
<1>6. Len(x.res) \in Nat /\ DOMAIN x.res = 1 .. Len(x.res) /\ \A k \in DOMAIN x.res : x.res[k] \in Replica
  BY <1>3
<1> QED
  BY <1>1, <1>3, <1>4, <1>5, <1>6 DEF x

(* The replicas of a writer are different, and those before the one it is  *)
(* sending were sent.                                                      *)
LEMMA OtraReplica ==
    ASSUME NEW res, IsInjective(res), NEW n \in Nat, DOMAIN res = 1 .. n,
           NEW i \in 1 .. n, NEW k \in {j \in DOMAIN res : j <= i}, k # i
    PROVE  res[k] # res[i] /\ k \in {j \in DOMAIN res : j < i}
BY DEF IsInjective

(* The request brings what the replica must hold, and disturbs no other:   *)
(* the block is of no file and of no other replica.                        *)
LEMMA GuardadoMandado ==
    ASSUME UnHilo, Inv, Consistente, actual.pc = "escribe", NEW r, r = actual.res[actual.i],
           \/ /\ entrada' = [entrada EXCEPT ![r.nodo] =
                    Append(@, SetBloque(r.bloque, DataOf(actual.path, actual.i)))]
           \/ (entrada' = entrada /\ ~vivo[r.nodo]),
           UNCHANGED <<vivo, disco, archivos>>,
           actual'.pc = "espera", actual'.path = actual.path, actual'.res = actual.res,
           actual'.i = actual.i
    PROVE  Guardado'
<1> DEFINE x == actual
           p == SetBloque(r.bloque, DataOf(x.path, x.i))
<1>1. /\ x.i \in 1 .. Len(x.res) /\ Len(x.res) \in Nat /\ DOMAIN x.res = 1 .. Len(x.res)
      /\ \A k \in DOMAIN x.res : x.res[k] \in Replica
      /\ x.path \in Paths /\ IsInjective(x.res) /\ x.pc \in Escribiendo \ {"bitmap"}
  BY EscritorEs DEF Mandando
<1>2. r \in Replica /\ r \in ReservedBy(Consola)
  BY <1>1 DEF ReservedBy, actual
<1>3. r.nodo \in Nodes
  BY <1>2, ReplicaEs
<1>4. ASSUME NEW e \in Replica, NEW d \in Datos, Llega(e, d), e # r PROVE Llega(e, d)'
  <2>1. CASE entrada' = entrada
    BY <1>4, <2>1, LlegaQuieto
  <2>2. CASE entrada' = [entrada EXCEPT ![r.nodo] = Append(@, p)]
    <3>1. ~(r.nodo = e.nodo /\ EsSet(p, e.bloque))
      BY <1>2, <1>4, ReplicaEs DEF EsSet, SetBloque
    <3> HIDE DEF p
    <3> QED
      BY <1>3, <1>4, <2>2, <3>1, LlegaIgual
  <2> QED
    BY <2>1, <2>2
<1>5. ASSUME NEW d, d = DataOf(x.path, x.i) PROVE Llega(r, d)'
  <2>1. CASE ~vivo[r.nodo]
    BY <2>1 DEF Llega
  <2>2. CASE entrada' = [entrada EXCEPT ![r.nodo] = Append(@, p)]
    <3>1. entrada' = [entrada EXCEPT ![r.nodo] = Append(@, SetBloque(r.bloque, d))]
      BY <1>5, <2>2
    <3> QED
      BY <1>2, <3>1, LlegaMandado
  <2> QED
    BY <2>1, <2>2
<1>6. Mandados = {k \in DOMAIN x.res : k < x.i} /\ Mandados' = {k \in DOMAIN x.res : k <= x.i}
  BY DEF Mandados
<1>7. ASSUME NEW e \in Replica, NEW d \in Datos, NEW f \in Paths, DebeArchivo(f, e, d)' PROVE Llega(e, d)'
  <2>1. DebeArchivo(f, e, d)
    BY <1>7 DEF DebeArchivo
  <2>2. Llega(e, d)
    BY <2>1 DEF Consistente, Guardado, Debe
  <2>3. e \in Listed(f) /\ archivos[f] # NULL
    <3>1. archivos[f] # NULL /\ \E b \in DOMAIN archivos[f].bloques, c \in 1 .. 2 :
              e = archivos[f].bloques[b].copias[c]
      BY <2>1 DEF DebeArchivo
    <3>2. \A b \in DOMAIN archivos[f].bloques, c \in 1 .. 2 :
              archivos[f].bloques[b].copias[c] \in Listed(f)
      BY <3>1, ListadasSon
    <3> QED
      BY <3>1, <3>2
  <2>4. archivos[x.path] = NULL
    BY <1>1 DEF Consistente, Duenios
  <2>5. e # r
    BY <1>2, <2>3, <2>4 DEF Consistente, Duenios
  <2> QED
    BY <1>4, <2>2, <2>5
<1>8. ASSUME NEW e \in Replica, NEW d \in Datos, DebeEscritor(e, d)' PROVE Llega(e, d)'
  <2>1. PICK k \in Mandados' : e = x.res[k] /\ d = DataOf(x.path, k)
    BY <1>8 DEF DebeEscritor
  <2>2. CASE k = x.i
    <3> HIDE DEF x
    <3>1. e = x.res[x.i] /\ d = DataOf(x.path, x.i)
      BY <2>1, <2>2
    <3>2. e = r
      BY <3>1 DEF x
    <3> QED
      BY <1>5, <3>1, <3>2
  <2>3. CASE k # x.i
    <3>1. x.res[k] # x.res[x.i] /\ k \in Mandados
      <4>1. k \in {j \in DOMAIN x.res : j <= x.i}
        BY <1>6, <2>1
      <4> QED
        BY <1>1, <1>6, <2>3, <4>1, OtraReplica
    <3>2. Llega(e, d)
      <4>1. Debe(e, d)
        BY <2>1, <3>1 DEF Debe, DebeEscritor
      <4> QED
        BY <4>1 DEF Consistente, Guardado
    <3> QED
      BY <1>4, <2>1, <3>1, <3>2
  <2> QED
    BY <2>2, <2>3
<1> QED
  BY <1>7, <1>8 DEF Guardado, Debe

(* Sending a block preserves Consistente: nothing promised is overwritten. *)
LEMMA OrdenMandar ==
    ASSUME UnHilo, Inv, Inv', Consistente, SendBlock(Consola), UNCHANGED <<vivo, disco, salida, muertes>>
    PROVE  Consistente'
<1> DEFINE x == actual
           r == x.res[x.i]
           n == r.nodo
           p == SetBloque(r.bloque, DataOf(x.path, x.i))
           y == [x EXCEPT !.pc = "espera"]
<1>1. /\ x.pc = "escribe" /\ x \in LocalesDeHilo /\ hilo[Consola] = x
      /\ UNCHANGED <<libre, bitmap, nodosBin, archivos, pedidos, activo>>
  BY Solo DEF SendBlock, At, actual, blockVars
<1>2. SendTo(n, p, hilo' = [hilo EXCEPT ![Consola] = y])
  BY <1>1, Zenon DEF SendBlock
<1>3. y.pc = "espera" /\ y.path = x.path /\ y.res = x.res /\ y.i = x.i
  <2> HIDE DEF x
  <2> QED
    BY <1>1 DEF LocalesDeHilo
<1>4. x.pc \in Mandando /\ x.pc \in Escribiendo \ {"bitmap"}
  BY <1>1 DEF Mandando, Escribiendo
<1> HIDE DEF y
<1>5. CASE hilo' = hilo /\ entrada' = entrada
  BY <1>1, <1>5, PrometidoQuieto, OrdenQuieta
<1>6. CASE /\ hilo' = [hilo EXCEPT ![Consola] = y]
           /\ entrada' = [entrada EXCEPT ![n] = Append(@, p)] \/ (entrada' = entrada /\ ~vivo[n])
  <2>1. actual' = y
    BY <1>6, Solo, ActualEs
  <2>2. /\ actual'.pc = "espera" /\ actual'.path = x.path /\ actual'.res = x.res /\ actual'.i = x.i
        /\ actual'.pc \in Escribiendo \ {"bitmap"}
    BY <1>3, <2>1 DEF Escribiendo
  <2>3. Duenios' /\ Bits' /\ Libres'
    BY <1>1, <1>4, <2>2, EscritorSigue
  <2>4. BinLibre'
    BY <1>1, <1>4, <2>2 DEF Consistente, BinLibre, Mandando
  <2>5. BinTotal'
    <3>1. Faltan' = Faltan
      BY <1>1, <2>2 DEF Faltan, Mandando
    <3> QED
      BY <1>1, <2>2, <3>1 DEF Consistente, BinTotal, Liberando
  <2>6. Guardado'
    BY <1>1, <1>6, <2>2, GuardadoMandado DEF n
  <2> QED
    BY <2>3, <2>4, <2>5, <2>6 DEF Consistente
<1> HIDE DEF n, p, y
<1>7. \/ hilo' = hilo /\ entrada' = entrada
      \/ /\ hilo' = [hilo EXCEPT ![Consola] = y]
         /\ entrada' = [entrada EXCEPT ![n] = Append(@, p)] \/ (entrada' = entrada /\ ~vivo[n])
  BY <1>2 DEF SendTo
<1> QED
  BY <1>5, <1>6, <1>7, Zenon

(* The answer to a write preserves Consistente.                            *)
LEMMA OrdenEsperar ==
    ASSUME UnHilo, Inv, Inv', Consistente, AwaitWrite(Consola), UNCHANGED dataNodeVars
    PROVE  Consistente'
<1> DEFINE x == actual
           y == [x EXCEPT !.pc = "guarda", !.cfg = nodosBin]
<1>1. /\ x.pc = "espera" /\ x \in LocalesDeHilo /\ hilo[Consola] = x
      /\ UNCHANGED <<libre, bitmap, nodosBin, archivos, pedidos, vivo, disco, entrada>>
  BY Solo DEF AwaitWrite, At, actual, dataNodeVars
<1>2. hilo' = [hilo EXCEPT ![Consola] = y]
  BY <1>1, Zenon DEF AwaitWrite
<1>3. y.pc = "guarda" /\ y.path = x.path /\ y.res = x.res /\ y.i = x.i /\ y.cfg = nodosBin
  <2> HIDE DEF x
  <2> QED
    BY <1>1 DEF LocalesDeHilo
<1>4. x.pc \in Mandando /\ x.pc \in Escribiendo \ {"bitmap"}
  BY <1>1 DEF Mandando, Escribiendo
<1> HIDE DEF y
<1>5. actual' = y
  BY <1>2, Solo, ActualEs
<1>6. /\ actual'.pc = "guarda" /\ actual'.path = x.path /\ actual'.res = x.res /\ actual'.i = x.i
      /\ actual'.cfg = nodosBin /\ actual'.pc \in Escribiendo \ {"bitmap"}
  BY <1>3, <1>5 DEF Escribiendo
<1>7. Duenios' /\ Bits' /\ Libres'
  BY <1>1, <1>4, <1>6, EscritorSigue
<1>8. BinLibre'
  BY <1>1, <1>4, <1>6 DEF Consistente, BinLibre, Mandando
<1>9. BinTotal'
  <2>1. Faltan' = Faltan
    BY <1>1, <1>6 DEF Faltan, Mandando
  <2> QED
    BY <1>1, <1>6, <2>1 DEF Consistente, BinTotal, Liberando
<1>10. Guardado'
  <2>1. Mandados' = Mandados
    BY <1>1, <1>6 DEF Mandados
  <2>2. \A e \in Replica, d \in Datos : Debe(e, d)' => Debe(e, d)
    BY <1>1, <1>6, <2>1 DEF Debe, DebeEscritor, DebeArchivo
  <2> QED
    BY <1>1, <2>2, PrometidoQuieto, GuardadoSigue DEF Consistente
<1> QED
  BY <1>7, <1>8, <1>9, <1>10 DEF Consistente

(* Saving nodos.bin during a write brings it one replica closer to memory. *)
LEMMA OrdenGuardar ==
    ASSUME UnHilo, Inv, Inv', Consistente, ActualizarConfigNodoEnBin(Consola), UNCHANGED dataNodeVars
    PROVE  Consistente'
<1> DEFINE x == actual
           r == x.res[x.i]
           n == r.nodo
           L == Len(x.res)
           pc == IF x.i = 2 * Len(BloquesDelHilo(Consola)) THEN "metadata" ELSE "escribe"
           y == [x EXCEPT !.i = @ + 1, !.cfg = NULL, !.pc = pc]
<1>1. /\ x.pc = "guarda" /\ x \in LocalesDeHilo /\ hilo[Consola] = x /\ x.cfg = nodosBin
      /\ UNCHANGED <<libre, bitmap, archivos, pedidos, vivo, disco, entrada>>
  BY Solo DEF ActualizarConfigNodoEnBin, At, actual, dataNodeVars, Consistente, BinLibre
<1>2. /\ x.i \in 1 .. L /\ L \in Nat /\ DOMAIN x.res = 1 .. L /\ \A k \in DOMAIN x.res : x.res[k] \in Replica
      /\ x.pc \in Mandando /\ x.pc \in Escribiendo \ {"bitmap"} /\ L = 2 * Len(BloquesDelHilo(Consola))
  BY <1>1, EscritorEs DEF Mandando
<1>3. n \in Nodes
  BY <1>2, ReplicaEs
<1>4. nodosBin' = UpdatedBin(nodosBin, n) /\ hilo' = [hilo EXCEPT ![Consola] = y]
  <2>1. nodosBin' = UpdatedBin(x.cfg, n) /\ hilo' = [hilo EXCEPT ![Consola] = y]
    BY <1>1, Zenon DEF ActualizarConfigNodoEnBin
  <2> QED
    BY <1>1, <2>1
<1>5. pc = IF x.i = L THEN "metadata" ELSE "escribe"
  BY <1>2
<1> HIDE DEF pc
<1>6. y.pc = pc /\ y.path = x.path /\ y.res = x.res /\ y.i = x.i + 1
  <2>1. pc \in {"metadata", "escribe"}
    BY <1>5
  <2> HIDE DEF x
  <2> QED
    BY <1>1, <2>1 DEF LocalesDeHilo
<1> HIDE DEF y
<1>7. actual' = y
  BY <1>4, Solo, ActualEs
<1>8. /\ actual'.pc = pc /\ actual'.path = x.path /\ actual'.res = x.res /\ actual'.i = x.i + 1
      /\ actual'.pc \in Escribiendo \ {"bitmap"}
  BY <1>5, <1>6, <1>7 DEF Escribiendo
<1>9. Duenios' /\ Bits' /\ Libres'
  BY <1>1, <1>2, <1>8, EscritorSigue
<1>10. /\ nodosBin'.total = nodosBin.total - 1 /\ nodosBin'.libre[n] = libre[n]
       /\ \A m \in Nodes : m # n => nodosBin'.libre[m] = nodosBin.libre[m]
       /\ nodosBin'.libre \in [Nodes -> Int]
  <2>1. nodosBin' = [libre |-> [nodosBin.libre EXCEPT ![n] = libre[n]], total |-> nodosBin.total - 1]
    BY <1>4, Zenon DEF UpdatedBin
  <2> HIDE DEF n
  <2> QED
    BY <1>3, <2>1, CuentasSon
<1> HIDE DEF n, L
<1>11. \A m \in Nodes : (\A k \in x.i + 1 .. L : x.res[k].nodo # m) => nodosBin'.libre[m] = libre[m]
  <2>1. ASSUME NEW m \in Nodes, m # n, \A k \in x.i + 1 .. L : x.res[k].nodo # m
        PROVE  nodosBin.libre[m] = libre[m]
    <3>1. x.res[x.i].nodo # m
      BY <2>1 DEF n
    <3>2. \A k \in x.i .. L : k = x.i \/ k \in x.i + 1 .. L
      BY <1>2
    <3>3. \A k \in x.i .. L : x.res[k].nodo # m
      BY <2>1, <3>1, <3>2
    <3> QED
      BY <1>2, <3>3 DEF Consistente, BinLibre, L
  <2> QED
    BY <1>10, <2>1
<1>12. BinLibre'
  <2>1. CASE x.i = L
    <3>1. \A m \in Nodes : nodosBin'.libre[m] = libre[m]
      <4>1. x.i + 1 .. L = {}
        BY <1>2, <2>1
      <4> QED
        BY <1>11, <4>1
    <3>2. nodosBin'.libre = libre
      <4>1. nodosBin'.libre = [m \in Nodes |-> nodosBin'.libre[m]] /\ libre = [m \in Nodes |-> libre[m]]
        BY <1>10, CuentasSon
      <4> QED
        BY <3>1, <4>1
    <3>3. actual'.pc = "metadata"
      BY <1>5, <1>8, <2>1
    <3> QED
      BY <1>1, <3>2, <3>3 DEF BinLibre, Mandando
  <2>2. CASE x.i # L
    <3>1. actual'.pc = "escribe"
      BY <1>5, <1>8, <2>2
    <3> QED
      BY <1>1, <1>8, <1>11, <3>1 DEF BinLibre, Mandando, L
  <2> QED
    BY <2>1, <2>2
<1>13. BinTotal'
  <2>1. Faltan = L - (x.i - 1)
    BY <1>1 DEF Faltan, Mandando, L
  <2>2. Faltan' = L - x.i
    <3>1. CASE x.i = L
      <4>1. Faltan' = 0
        BY <1>5, <1>8, <3>1 DEF Faltan, Mandando
      <4> QED
        BY <1>2, <3>1, <4>1
    <3>2. CASE x.i # L
      <4>1. Faltan' = L - (x.i + 1 - 1)
        <5>1. actual'.pc = "escribe" /\ actual'.i = x.i + 1 /\ Len(actual'.res) = L
          BY <1>5, <1>8, <3>2 DEF L
        <5>3. x.i \in Int /\ L \in Int
          BY <1>2
        <5>2. Faltan' = Len(actual'.res) - (actual'.i - 1)
          BY <5>1 DEF Faltan, Mandando
        <5> QED
          BY <5>1, <5>2, <5>3
      <4> QED
        BY <1>2, <4>1
    <3> QED
      BY <3>1, <3>2
  <2>3. SumOfNodes(libre)' = SumOfNodes(libre) /\ SumOfNodes(libre) \in Int /\ nodosBin.total \in Int
    BY <1>1, CuentasSon
  <2>4. /\ nodosBin.total <= SumOfNodes(libre) + Faltan
        /\ ~pedidos.borra => nodosBin.total = SumOfNodes(libre) + Faltan
    BY DEF Consistente, BinTotal
  <2>5. Faltan' = Faltan - 1 /\ Faltan \in Int
    BY <1>2, <2>1, <2>2
  <2> DEFINE s == SumOfNodes(libre)
             t == nodosBin.total
             u == nodosBin'.total
             k == Faltan
             l == Faltan'
  <2>7. s \in Int /\ t \in Int /\ u = t - 1 /\ l = k - 1 /\ k \in Int
    BY <1>10, <2>3, <2>5
  <2>8. t <= s + k /\ (~pedidos.borra => t = s + k)
    BY <2>4
  <2> HIDE DEF s, t, u, k, l
  <2>9. u <= s + l /\ (~pedidos.borra => u = s + l)
    BY <2>7, <2>8
  <2>6. actual'.pc \in {"metadata", "escribe"}
    BY <1>5, <1>8
  <2> QED
    BY <1>1, <2>3, <2>6, <2>9 DEF BinTotal, Liberando, s, u, l
<1>14. Guardado'
  <2>1. Mandados' = Mandados
    <3>1. Mandados = {k \in DOMAIN x.res : k <= x.i}
      BY <1>1 DEF Mandados
    <3>2. Mandados' = {k \in DOMAIN x.res : pc = "metadata" \/ k < x.i + 1}
      <4>1. pc \in {"metadata", "escribe"}
        BY <1>5
      <4> QED
        BY <1>8, <4>1 DEF Mandados
    <3>3. \A k \in 1 .. L : k <= x.i <=> pc = "metadata" \/ k < x.i + 1
      BY <1>2, <1>5
    <3> HIDE DEF x
    <3> QED
      BY <1>2, <3>1, <3>2, <3>3
  <2>2. \A e \in Replica, d \in Datos : Debe(e, d)' => Debe(e, d)
    BY <1>1, <1>8, <2>1 DEF Debe, DebeEscritor, DebeArchivo
  <2> QED
    BY <1>1, <2>2, PrometidoQuieto, GuardadoSigue DEF Consistente
<1> QED
  BY <1>9, <1>12, <1>13, <1>14 DEF Consistente

-----------------------------------------------------------------------------
(* The metadata and the bits of what was written.                          *)

(* Who has sent everything.                                                *)
LEMMA EscritoEs ==
    ASSUME UnHilo, Inv, actual.pc \in {"metadata", "bitmap"}
    PROVE  /\ actual.path \in Paths /\ actual.libera = <<>> /\ Pendientes = {} /\ actual.i \in Nat \ {0}
           /\ Mandados = DOMAIN actual.res /\ Faltan = 0
           /\ BloquesInfo(Consola) \in Seq(Bloques)
           /\ BitsToSet(BloquesInfo(Consola)) = ReservedBy(Consola)
           /\ \A b \in DOMAIN BloquesInfo(Consola), c \in 1 .. 2 :
                 \E k \in DOMAIN actual.res :
                     /\ BloquesInfo(Consola)[b].copias[c] = actual.res[k]
                     /\ [path |-> actual.path, nro |-> b] = DataOf(actual.path, k)
<1> DEFINE x == actual
           info == BloquesInfo(Consola)
           N == BloquesContados[x.path]
<1>1. Bien(x) /\ hilo[Consola] = x /\ Consola \in Hilos /\ x.pc \in Escribiendo \ {"reserva"}
      /\ x \in LocalesDeHilo
  BY Solo DEF actual, Escribiendo
<1>2. /\ x.path \in Paths /\ x.libera = <<>> /\ x.res \in Seq(Replica) /\ N \in Nat
      /\ Len(x.res) = 2 * N /\ x.i \in Nat \ {0}
  <2> HIDE DEF x
  <2> QED
    BY <1>1, EscritorBien, CamposDeHilo
<1>3. /\ info \in Seq(Bloques) /\ Len(info) = N
      /\ \A b \in DOMAIN info, c \in 1 .. 2 :
            /\ 2 * b - 2 + c \in 1 .. Len(x.res)
            /\ info[b].copias[c] = x.res[2 * b - 2 + c]
  BY <1>1, InfoEscrita
<1>4. Pendientes = {} /\ Mandados = DOMAIN x.res /\ Faltan = 0
  <2>1. Pendientes = {}
    BY <1>2 DEF Pendientes, Desde
  <2>2. Mandados = DOMAIN x.res
    BY DEF Mandados
  <2>3. Faltan = 0
    BY DEF Faltan, Mandando
  <2> QED
    BY <2>1, <2>2, <2>3
<1>5. DOMAIN x.res = 1 .. 2 * N /\ DOMAIN info = 1 .. N
  BY <1>2, <1>3
<1>6. ReservedBy(Consola) = {x.res[k] : k \in DOMAIN x.res}
  BY <1>1 DEF ReservedBy
<1> HIDE DEF info, N, x
<1>12. \A k \in 1 .. 2 * N : /\ (k + 1) \div 2 \in 1 .. N /\ 2 - (k % 2) \in 1 .. 2
                             /\ 2 * ((k + 1) \div 2) - 2 + (2 - (k % 2)) = k
  <2>1. N \in Nat
    BY <1>2
  <2> QED
    BY <2>1, Z3
<1>7. ASSUME NEW b \in DOMAIN info, NEW c \in 1 .. 2
      PROVE  \E k \in DOMAIN x.res : info[b].copias[c] = x.res[k] /\ [path |-> x.path, nro |-> b] = DataOf(x.path, k)
  <2> DEFINE k == 2 * b - 2 + c
  <2>1. k \in DOMAIN x.res /\ info[b].copias[c] = x.res[k]
    BY <1>2, <1>3, <1>5
  <2>2. (k + 1) \div 2 = b
    <3>1. b \in Nat /\ c \in {1, 2}
      BY <1>2, <1>5
    <3> QED
      BY <3>1, Z3
  <2> QED
    BY <2>1, <2>2 DEF DataOf
<1>8. ASSUME NEW k \in DOMAIN x.res
      PROVE  \E b \in DOMAIN info, c \in 1 .. 2 : info[b].copias[c] = x.res[k]
  <2> DEFINE b == (k + 1) \div 2
             c == 2 - (k % 2)
  <2>1. k \in 1 .. 2 * N
    BY <1>5
  <2>2. b \in 1 .. N /\ c \in 1 .. 2 /\ 2 * b - 2 + c = k
    BY <2>1, <1>12
  <2> HIDE DEF b, c
  <2>3. info[b].copias[c] = x.res[k]
    BY <1>3, <1>5, <2>2
  <2> QED
    BY <1>5, <2>2, <2>3
<1>9. BitsToSet(info) = {info[b].copias[c] : b \in DOMAIN info, c \in 1 .. 2}
  BY DEF BitsToSet
<1>10. \A e : e \in BitsToSet(info) <=> e \in ReservedBy(Consola)
  <2>1. ASSUME NEW e \in BitsToSet(info) PROVE e \in ReservedBy(Consola)
    <3>1. PICK b \in DOMAIN info, c \in 1 .. 2 : e = info[b].copias[c]
      BY <1>9
    <3>2. PICK k \in DOMAIN x.res : info[b].copias[c] = x.res[k]
      BY <1>7
    <3> QED
      BY <1>6, <3>1, <3>2
  <2>2. ASSUME NEW e \in ReservedBy(Consola) PROVE e \in BitsToSet(info)
    <3>1. PICK k \in DOMAIN x.res : e = x.res[k]
      BY <1>6
    <3>2. PICK b \in DOMAIN info, c \in 1 .. 2 : info[b].copias[c] = x.res[k]
      BY <1>8
    <3> QED
      BY <1>9, <3>1, <3>2
  <2> QED
    BY <2>1, <2>2
<1>11. BitsToSet(info) = ReservedBy(Consola)
  BY <1>10
<1> QED
  BY <1>2, <1>3, <1>4, <1>7, <1>11 DEF info, x

(* Listing the written file preserves Consistente: all its replicas are    *)
(* sent.                                                                   *)
LEMMA OrdenMetadata ==
    ASSUME UnHilo, Inv, Inv', Consistente, CrearArchivoMetadata(Consola), UNCHANGED dataNodeVars
    PROVE  Consistente'
<1> DEFINE x == actual
           p == x.path
           info == BloquesInfo(Consola)
           meta == [tamanio |-> TamanioArchivo(Contenido[p]), bloques |-> info]
           y == [x EXCEPT !.pc = "bitmap"]
<1>1. /\ x.pc = "metadata" /\ x \in LocalesDeHilo /\ hilo[Consola] = x
      /\ UNCHANGED <<libre, bitmap, nodosBin, pedidos, vivo, disco, entrada>>
  BY Solo DEF CrearArchivoMetadata, At, actual, dataNodeVars
<1>2. archivos' = [archivos EXCEPT ![p] = meta] /\ hilo' = [hilo EXCEPT ![Consola] = y]
  BY <1>1, Zenon DEF CrearArchivoMetadata
<1>3. y.pc = "bitmap" /\ y.path = p /\ y.res = x.res
  <2> HIDE DEF x
  <2> QED
    BY <1>1 DEF LocalesDeHilo
<1> HIDE DEF y
<1>4. actual' = y
  BY <1>2, Solo, ActualEs
<1>5. actual'.pc = "bitmap" /\ actual'.path = p /\ actual'.res = x.res
  BY <1>3, <1>4
<1>6. /\ p \in Paths /\ x.libera = <<>> /\ Pendientes = {} /\ Mandados = DOMAIN x.res /\ Faltan = 0
      /\ info \in Seq(Bloques) /\ BitsToSet(info) = ReservedBy(Consola)
      /\ \A b \in DOMAIN info, c \in 1 .. 2 : \E k \in DOMAIN x.res :
            info[b].copias[c] = x.res[k] /\ [path |-> p, nro |-> b] = DataOf(p, k)
  BY <1>1, EscritoEs
<1>7. /\ actual'.libera = <<>> /\ Pendientes' = {} /\ Mandados' = DOMAIN x.res /\ Faltan' = 0
  <2>1. actual'.libera = <<>>
    BY <1>5, SoloDespues DEF LiberaBien, Liberando
  <2>2. actual'.i \in Nat \ {0}
    BY SoloDespues, CamposDeHilo
  <2>3. Pendientes' = {}
    BY <1>5, <2>1, <2>2 DEF Pendientes, Desde
  <2>4. Mandados' = DOMAIN x.res
    BY <1>5 DEF Mandados
  <2>5. Faltan' = 0
    BY <1>5 DEF Faltan, Mandando
  <2> QED
    BY <2>1, <2>3, <2>4, <2>5
<1>8. BloquesInfo(Consola)' = info
  <2>1. BloquesDelHilo(Consola)' = BloquesDelHilo(Consola)
    BY <1>5 DEF BloquesDelHilo, actual
  <2> QED
    BY <1>5, <2>1 DEF BloquesInfo, actual
<1>9. ReservedBy(Consola)' = ReservedBy(Consola)
  BY <1>5 DEF ReservedBy, actual
<1>10. archivos[p] = NULL /\ Listed(p) = {}
  <2>1. archivos[p] = NULL
    BY <1>1 DEF Consistente, Duenios, Escribiendo
  <2> QED
    BY <2>1 DEF Listed
<1>11. /\ archivos'[p] = meta /\ meta # NULL /\ \A f \in Paths : f # p => archivos'[f] = archivos[f]
  <2>1. archivos = [f \in Paths |-> archivos[f]]
    BY DEF Inv, TypeOK, ProcessTypeOK
  <2>2. meta \in Metadata(p)
    BY <1>6 DEF Metadata
  <2>3. meta # NULL
    BY <1>6, <2>2, FileSystemAssumption
  <2> HIDE DEF meta, p
  <2> QED
    BY <1>2, <1>6, <2>1, <2>3
<1>12. Listed(p)' = ReservedBy(Consola) /\ \A f \in Paths : f # p => Listed(f)' = Listed(f)
  <2>1. archivos'[p].bloques = info
    BY <1>11
  <2>2. Listed(p)' = {info[b].copias[c] : b \in DOMAIN info, c \in 1 .. 2}
    <3>1. ASSUME NEW f, f = p PROVE Listed(f)' = {info[b].copias[c] : b \in DOMAIN info, c \in 1 .. 2}
      <4> HIDE DEF info, meta, p
      <4> QED
        BY <2>1, <1>11, <3>1 DEF Listed
    <3>2. p' = p
      BY <1>5
    <3> HIDE DEF p
    <3> QED
      BY <3>1, <3>2
  <2>3. BitsToSet(info) = {info[b].copias[c] : b \in DOMAIN info, c \in 1 .. 2}
    BY DEF BitsToSet
  <2>4. \A f \in Paths : f # p => Listed(f)' = Listed(f)
    <3> HIDE DEF info, meta, p
    <3>1. ASSUME NEW f \in Paths, f # p PROVE Listed(f)' = Listed(f)
      <4>1. archivos'[f] = archivos[f]
        BY <1>11, <3>1
      <4> QED
        BY <4>1 DEF Listed
    <3> QED
      BY <3>1
  <2> HIDE DEF info
  <2> QED
    BY <1>6, <2>2, <2>3, <2>4
<1>13. ASSUME NEW f \in Paths
       PROVE  Listed(f)' = IF f = p THEN ReservedBy(Consola) ELSE Listed(f)
  <2>1. p' = p
    BY <1>5
  <2> HIDE DEF p
  <2> QED
    BY <1>12, <2>1
<1> HIDE DEF meta, info
<1>14. Duenios'
  <2>1. ASSUME NEW f \in Paths, NEW g \in Paths, NEW r \in Replica, r \in Listed(f)', r \in Listed(g)'
        PROVE  f = g
    BY <1>6, <1>10, <1>13, <2>1 DEF Consistente, Duenios
  <2>2. archivos'[actual'.path] # NULL /\ archivos'[actual'.path].bloques = BloquesInfo(Consola)'
    BY <1>5, <1>8, <1>11 DEF meta
  <2>3. \A f \in Paths : \A r \in ReservedBy(Consola)' : r \in Listed(f)' => f = actual'.path
    BY <1>5, <1>9, <1>13 DEF Consistente, Duenios
  <2>4. IsInjective(actual'.libera)
    BY <1>7 DEF IsInjective
  <2> QED
    BY <1>5, <1>7, <2>1, <2>2, <2>3, <2>4 DEF Duenios
<1>15. Bits'
  <2>1. \A f \in Paths, r \in Replica : Marcada(f, r)' <=> Marcada(f, r)
    BY <1>1, <1>5, <1>10, <1>13 DEF Marcada
  <2> QED
    BY <1>1, <1>6, <1>7, <2>1 DEF Consistente, Bits
<1>16. Libres'
  BY <1>1, <1>5 DEF Consistente, Libres
<1>17. BinLibre'
  BY <1>1, <1>5 DEF Consistente, BinLibre, Mandando
<1>18. BinTotal'
  BY <1>1, <1>5, <1>6, <1>7 DEF Consistente, BinTotal, Liberando
<1>19. Guardado'
  <2>1. ASSUME NEW r \in Replica, NEW d \in Datos, DebeEscritor(r, d)' PROVE DebeEscritor(r, d)
    BY <1>5, <1>6, <1>7, <2>1 DEF DebeEscritor
  <2>2. ASSUME NEW r \in Replica, NEW d \in Datos, NEW f \in Paths, DebeArchivo(f, r, d)' PROVE Debe(r, d)
    <3>1. CASE f = p
      <4>1. archivos'[f].bloques = info
        BY <1>11, <3>1 DEF meta
      <4>2. PICK b \in DOMAIN info, c \in 1 .. 2 : r = info[b].copias[c] /\ d = [path |-> f, nro |-> b]
        BY <2>2, <4>1 DEF DebeArchivo
      <4>3. PICK k \in DOMAIN x.res : info[b].copias[c] = x.res[k] /\ [path |-> p, nro |-> b] = DataOf(p, k)
        BY <1>6
      <4>4. DebeEscritor(r, d)
        BY <1>6, <3>1, <4>2, <4>3 DEF DebeEscritor
      <4> QED
        BY <4>4 DEF Debe
    <3>2. CASE f # p
      <4>1. DebeArchivo(f, r, d)
        BY <1>11, <2>2, <3>2 DEF DebeArchivo
      <4> QED
        BY <4>1 DEF Debe
    <3> QED
      BY <3>1, <3>2
  <2>3. \A r \in Replica, d \in Datos : Debe(r, d)' => Debe(r, d)
    BY <2>1, <2>2 DEF Debe
  <2> QED
    BY <1>1, <2>3, PrometidoQuieto, GuardadoSigue DEF Consistente
<1> QED
  BY <1>14, <1>15, <1>16, <1>17, <1>18, <1>19 DEF Consistente

(* Setting the bits of the written file preserves Consistente.             *)
LEMMA OrdenBitMap ==
    ASSUME UnHilo, Inv, Inv', Consistente, ActualizarBitMapBloques(Consola), UNCHANGED dataNodeVars
    PROVE  Consistente'
<1> DEFINE x == actual
           p == x.path
           info == BloquesInfo(Consola)
<1>1. /\ x.pc = "bitmap" /\ x \in LocalesDeHilo /\ hilo[Consola] = x /\ Ends(Consola, "OK")
      /\ UNCHANGED <<libre, archivos, nodosBin, pedidos, vivo, disco, entrada>>
      /\ bitmap' = [n \in Nodes |-> bitmap[n] \cup {b \in BlocksOf(n) : Reserved(n, b) \in BitsToSet(info)}]
  BY Solo DEF ActualizarBitMapBloques, At, actual, dataNodeVars
<1>2. /\ Ocioso(actual') /\ actual'.pc = "libre" /\ actual'.res = <<>> /\ actual'.libera = <<>>
      /\ actual'.path = NULL /\ actual'.i = 1
  BY <1>1, FinOcioso DEF Resultados
<1>3. /\ p \in Paths /\ Pendientes = {} /\ Faltan = 0 /\ BitsToSet(info) = ReservedBy(Consola)
      /\ x.res \in Seq(Replica)
  BY <1>1, EscritoEs, CamposDeHilo
<1>4. Pendientes' = {} /\ Mandados' = {} /\ ReservedBy(Consola)' = {} /\ IsInjective(actual'.libera)
      /\ Faltan' = 0
  BY <1>2 DEF Pendientes, Desde, Mandados, ReservedBy, actual, IsInjective, Faltan, Mandando
<1>5. \A f \in Paths : Listed(f)' = Listed(f)
  BY <1>1 DEF Listed
<1>6. Listed(p) = BitsToSet(info)
  <2>1. archivos[p] # NULL /\ archivos[p].bloques = info
    BY <1>1 DEF Consistente, Duenios
  <2> HIDE DEF info
  <2> QED
    BY <2>1 DEF Listed, BitsToSet
<1>7. Duenios'
  BY <1>2, <1>4, <1>5 DEF Consistente, Duenios, Escribiendo
<1> HIDE DEF info
<1>8. Bits'
  <2>1. ASSUME NEW r \in Replica
        PROVE  r.bloque \in bitmap'[r.nodo] <=> \E f \in Paths : r \in Listed(f)
    <3>1. r.nodo \in Nodes /\ r.bloque \in BlocksOf(r.nodo) /\ r = Reserved(r.nodo, r.bloque)
      BY ReplicaEs
    <3>2. r.bloque \in bitmap'[r.nodo] <=> r.bloque \in bitmap[r.nodo] \/ r \in Listed(p)
      BY <1>1, <1>6, <3>1
    <3>3. r.bloque \in bitmap[r.nodo] <=> \E f \in Paths : r \in Listed(f) /\ f # p
      BY <1>1, <1>3 DEF Consistente, Bits, Marcada
    <3> QED
      BY <1>3, <3>2, <3>3
  <2>2. \A f \in Paths, r \in Replica : Marcada(f, r)' <=> r \in Listed(f)
    BY <1>2, <1>5 DEF Marcada
  <2> QED
    BY <1>4, <2>1, <2>2 DEF Bits
<1>9. Libres'
  <2>1. ASSUME NEW n \in Nodes
        PROVE  bitmap'[n] \cup ReservedOn(actual'.res, n) = bitmap[n] \cup ReservedOn(x.res, n)
    <3>1. ReservedOn(actual'.res, n) = {}
      BY <1>2, NadaReservado
    <3>2. \A e : Contains(x.res, e) <=> e \in ReservedBy(Consola)
      <4>1. DOMAIN x.res = 1 .. Len(x.res)
        BY <1>3
      <4> QED
        BY <1>1, <4>1 DEF Contains, ReservedBy
    <3>3. ReservedOn(x.res, n) = {b \in BlocksOf(n) : Reserved(n, b) \in BitsToSet(info)}
      BY <1>3, <3>2 DEF ReservedOn
    <3> QED
      BY <1>1, <3>1, <3>3
  <2> QED
    BY <1>1, <2>1 DEF Consistente, Libres
<1>10. BinLibre'
  BY <1>1, <1>2 DEF Consistente, BinLibre, Mandando
<1>11. BinTotal'
  BY <1>1, <1>2, <1>3, <1>4 DEF Consistente, BinTotal, Liberando
<1>12. Guardado'
  <2>1. \A r \in Replica, d \in Datos : Debe(r, d)' => Debe(r, d)
    BY <1>1, <1>4 DEF Debe, DebeEscritor, DebeArchivo
  <2> QED
    BY <1>1, <2>1, PrometidoQuieto, GuardadoSigue DEF Consistente
<1> QED
  BY <1>7, <1>8, <1>9, <1>10, <1>11, <1>12 DEF Consistente

-----------------------------------------------------------------------------
(* The removal of a file.                                                  *)

(* What a removal has: replicas to free, and no reservation.               *)
LEMMA LiberaEs ==
    ASSUME UnHilo, Inv, actual.pc \in Liberando
    PROVE  /\ actual.res = <<>> /\ Mandados = {} /\ Faltan = 0 /\ ReservedBy(Consola) = {}
           /\ actual.libera \in Seq(Replica) /\ actual.i \in 1 .. Len(actual.libera)
           /\ Len(actual.libera) \in Nat /\ DOMAIN actual.libera = 1 .. Len(actual.libera)
           /\ actual.libera[actual.i] \in Replica
           /\ \A f, r : Marcada(f, r) <=> r \in Listed(f)
<1> DEFINE x == actual
<1>1. Bien(x) /\ x \in LocalesDeHilo /\ hilo[Consola] = x
  BY Solo DEF actual
<1>2. x.pc \notin Escribiendo /\ x.pc # "bitmap" /\ x.pc \notin Mandando /\ x.pc # "reserva" /\ x.pc # "metadata"
  BY DEF Liberando, Escribiendo, Mandando
<1>3. x.res = <<>> /\ x.libera \in Seq(Replica) /\ x.i \in DOMAIN x.libera
  <2> HIDE DEF x
  <2> QED
    BY <1>1, <1>2, CamposDeHilo DEF Bien, ReservaBien, LiberaBien, x
<1>4. Len(x.libera) \in Nat /\ DOMAIN x.libera = 1 .. Len(x.libera) /\ x.libera[x.i] \in Replica
  BY <1>3
<1>5. Mandados = {} /\ ReservedBy(Consola) = {}
  BY <1>1, <1>3 DEF Mandados, ReservedBy
<1>6. Faltan = 0
  BY <1>2 DEF Faltan
<1>7. \A f, r : Marcada(f, r) <=> r \in Listed(f)
  BY <1>2 DEF Marcada
<1> QED
  BY <1>3, <1>4, <1>5, <1>6, <1>7

(* The replicas of a file are freed once each.                             *)
LEMMA ReplicasUnaVez ==
    ASSUME Inv, NEW f \in Paths, archivos[f] # NULL
    PROVE  LET s == Replicas(archivos[f].bloques) IN
           /\ s \in Seq(Replica) /\ Len(s) \in Nat /\ IsInjective(s)
           /\ \A r : r \in Listed(f) <=> \E k \in 1 .. Len(s) : r = s[k]
<1> DEFINE info == archivos[f].bloques
           s == Replicas(info)
<1>1. info \in Seq(Bloques) /\ Aparte(info)
  BY ListadasSon DEF Inv, ArchivosBien
<1>2. Listed(f) = {info[b].copias[c] : b \in DOMAIN info, c \in 1 .. 2}
  BY DEF Listed
<1> HIDE DEF info
<1>3. /\ s \in Seq(Replica) /\ Len(s) = 2 * Len(info)
      /\ \A k \in 1 .. 2 * Len(info) : \E b \in DOMAIN info, c \in 1 .. 2 :
            k = 2 * b - 2 + c /\ s[k] = info[b].copias[c]
      /\ \A b \in DOMAIN info, c \in 1 .. 2 :
            /\ 2 * b - 2 + c \in 1 .. 2 * Len(info)
            /\ s[2 * b - 2 + c] = info[b].copias[c]
  BY <1>1, ReplicasSon
<1> HIDE DEF s
<1>4. Len(s) \in Nat /\ DOMAIN s = 1 .. Len(s)
  BY <1>3
<1>5. ASSUME NEW k \in 1 .. Len(s), NEW l \in 1 .. Len(s), s[k] = s[l] PROVE k = l
  <2>1. PICK b \in DOMAIN info, c \in 1 .. 2 : k = 2 * b - 2 + c /\ s[k] = info[b].copias[c]
    BY <1>3
  <2>2. PICK a \in DOMAIN info, e \in 1 .. 2 : l = 2 * a - 2 + e /\ s[l] = info[a].copias[e]
    BY <1>3
  <2>3. info[b].copias[c] = info[a].copias[e]
    BY <1>5, <2>1, <2>2
  <2>4. b = a /\ c = e
    BY <1>1, <2>3 DEF Aparte
  <2> QED
    BY <2>1, <2>2, <2>4
<1>6. IsInjective(s)
  BY <1>4, <1>5 DEF IsInjective
<1>7. ASSUME NEW r PROVE r \in Listed(f) <=> \E k \in 1 .. Len(s) : r = s[k]
  <2>1. ASSUME r \in Listed(f) PROVE \E k \in 1 .. Len(s) : r = s[k]
    <3>1. PICK b \in DOMAIN info, c \in 1 .. 2 : r = info[b].copias[c]
      BY <1>2, <2>1
    <3>2. 2 * b - 2 + c \in 1 .. Len(s) /\ s[2 * b - 2 + c] = r
      BY <1>3, <3>1
    <3> QED
      BY <3>2
  <2>2. ASSUME NEW k \in 1 .. Len(s), r = s[k] PROVE r \in Listed(f)
    <3>1. PICK b \in DOMAIN info, c \in 1 .. 2 : s[k] = info[b].copias[c]
      BY <1>3
    <3> QED
      BY <1>2, <2>2, <3>1
  <2> QED
    BY <2>1, <2>2
<1> QED
  BY <1>3, <1>4, <1>6, <1>7 DEF s, info

(* The command that removes a file preserves Consistente: its replicas     *)
(* become those to free.                                                   *)
LEMMA OrdenEliminar ==
    ASSUME UnHilo, Inv, Inv', Consistente, NEW f \in Paths, EliminarArchivo(Consola, f),
           UNCHANGED dataNodeVars
    PROVE  Consistente'
<1>1. /\ actual.pc = "libre" /\ Ocioso(actual) /\ UNCHANGED <<libre, bitmap, nodosBin, vivo, disco, entrada>>
      /\ (pedidos.borra => pedidos'.borra) /\ (archivos[f] # NULL => pedidos'.borra)
  BY PedidosCrecen DEF EliminarArchivo, actual, dataNodeVars, Ocioso, Escribiendo, Liberando
<1>2. CASE archivos[f] = NULL
  <2>1. Ends(Consola, "NO_EXISTE") /\ UNCHANGED archivos
    BY <1>2 DEF EliminarArchivo
  <2>2. Ocioso(actual')
    BY <2>1, FinOcioso DEF Resultados
  <2> QED
    BY <1>1, <2>1, <2>2, PrometidoQuieto, OrdenOciosa
<1>3. CASE archivos[f] # NULL
  <2> USE DEF Consistente
  <2> DEFINE s == Replicas(archivos[f].bloques)
             y == [Idle("NADA") EXCEPT !.pc = "libera", !.path = f, !.libera = s]
  <2>1. archivos' = [archivos EXCEPT ![f] = NULL] /\ hilo' = [hilo EXCEPT ![Consola] = y]
    BY <1>3 DEF EliminarArchivo
  <2>2. /\ s \in Seq(Replica) /\ Len(s) \in Nat /\ IsInjective(s)
        /\ \A r : r \in Listed(f) <=> \E k \in 1 .. Len(s) : r = s[k]
    BY <1>3, ReplicasUnaVez
  <2> HIDE DEF s
  <2>3. y.pc = "libera" /\ y.path = f /\ y.libera = s /\ y.res = <<>> /\ y.i = 1
    BY DEF Idle
  <2> HIDE DEF y
  <2>4. actual' = y
    BY <2>1, Solo, ActualEs
  <2>5. /\ actual'.pc = "libera" /\ actual'.path = f /\ actual'.libera = s /\ actual'.res = <<>>
        /\ actual'.i = 1
    BY <2>3, <2>4
  <2>6. /\ actual.res = <<>> /\ actual.libera = <<>> /\ actual.i \in Nat \ {0}
    BY <1>1, Solo, OciosoEs, CamposDeHilo DEF Bien
  <2>7. Pendientes = {}
    BY <1>1, <2>6 DEF Pendientes, Desde
  <2>8. Pendientes' = Listed(f)
    <3>1. Pendientes' = {s[k] : k \in 1 .. Len(s)}
      BY <2>5 DEF Pendientes, Desde
    <3> QED
      BY <2>2, <3>1
  <2>9. ASSUME NEW g \in Paths PROVE Listed(g)' = IF g = f THEN {} ELSE Listed(g)
    <3>1. archivos'[g] = IF g = f THEN NULL ELSE archivos[g]
      <4>1. archivos = [h \in Paths |-> archivos[h]]
        BY DEF Inv, TypeOK, ProcessTypeOK
      <4> QED
        BY <2>1, <4>1
    <3> QED
      BY <3>1 DEF Listed
  <2>10. ReservedBy(Consola)' = {} /\ Mandados' = {}
    BY <2>5 DEF ReservedBy, Mandados, actual
  <2>11. Duenios'
    <3>1. \A g, h \in Paths : \A r \in Replica : r \in Listed(g)' /\ r \in Listed(h)' => g = h
      BY <2>9 DEF Duenios
    <3>2. \A g \in Paths : \A r \in Pendientes' : r \notin Listed(g)'
      <4>1. Listed(f) \subseteq Replica
        BY ListadasSon
      <4> QED
        BY <2>8, <2>9, <4>1 DEF Duenios
    <3> QED
      BY <2>2, <2>5, <2>10, <3>1, <3>2 DEF Duenios, Escribiendo
  <2>12. Bits'
    <3>1. \A g \in Paths, r \in Replica : Marcada(g, r)' <=> g # f /\ r \in Listed(g)
      BY <2>5, <2>9 DEF Marcada
    <3>2. \A g \in Paths, r \in Replica : Marcada(g, r) <=> r \in Listed(g)
      BY <1>1 DEF Marcada
    <3> QED
      BY <1>1, <2>7, <2>8, <3>1, <3>2 DEF Bits
  <2>13. Libres'
    BY <1>1, <2>5, <2>6 DEF Libres
  <2>14. BinLibre'
    BY <1>1, <2>5 DEF BinLibre, Mandando
  <2>15. BinTotal'
    <3>1. Faltan = 0 /\ Faltan' = 0
      BY <1>1, <2>5 DEF Faltan, Mandando
    <3> QED
      BY <1>1, <1>3, <2>5, <3>1 DEF BinTotal
  <2>16. Guardado'
    <3>1. ASSUME NEW r \in Replica, NEW d \in Datos, NEW g \in Paths, DebeArchivo(g, r, d)' PROVE Debe(r, d)
      <4>1. archivos = [h \in Paths |-> archivos[h]]
        BY DEF Inv, TypeOK, ProcessTypeOK
      <4>2. g # f /\ archivos'[g] = archivos[g]
        BY <2>1, <3>1, <4>1 DEF DebeArchivo
      <4>3. DebeArchivo(g, r, d)
        BY <3>1, <4>2 DEF DebeArchivo
      <4> QED
        BY <4>3 DEF Debe
    <3>2. \A r \in Replica, d \in Datos : Debe(r, d)' => Debe(r, d)
      BY <2>10, <3>1 DEF Debe, DebeEscritor
    <3> QED
      BY <1>1, <3>2, PrometidoQuieto, GuardadoSigue
  <2> QED
    BY <2>11, <2>12, <2>13, <2>14, <2>15, <2>16
<1> QED
  BY <1>2, <1>3

(* Freeing a block preserves Consistente: its bit was set, and nobody      *)
(* else's.                                                                 *)
LEMMA OrdenLiberar ==
    ASSUME UnHilo, Inv, Inv', Consistente, LiberarBloque(Consola), UNCHANGED dataNodeVars
    PROVE  Consistente'
<1> USE DEF Consistente
<1> DEFINE x == actual
           s == x.libera
           r == s[x.i]
           n == r.nodo
           b == r.bloque
           y == [x EXCEPT !.pc = "guardaLibre", !.cfg = nodosBin]
<1>1. /\ x.pc = "libera" /\ x.pc \in Liberando /\ x \in LocalesDeHilo /\ hilo[Consola] = x
      /\ UNCHANGED <<archivos, nodosBin, pedidos, vivo, disco, entrada>>
  BY Solo DEF LiberarBloque, At, actual, dataNodeVars, Liberando
<1>2. /\ bitmap' = [bitmap EXCEPT ![n] = @ \ {b}] /\ libre' = [libre EXCEPT ![n] = @ + 1]
      /\ hilo' = [hilo EXCEPT ![Consola] = y]
  BY <1>1, Zenon DEF LiberarBloque
<1>3. y.pc = "guardaLibre" /\ y.path = x.path /\ y.res = x.res /\ y.libera = s /\ y.i = x.i /\ y.cfg = nodosBin
  <2> HIDE DEF x
  <2> QED
    BY <1>1 DEF LocalesDeHilo, s
<1> HIDE DEF y
<1>4. actual' = y
  BY <1>2, Solo, ActualEs
<1>5. /\ actual'.pc = "guardaLibre" /\ actual'.path = x.path /\ actual'.res = x.res /\ actual'.libera = s
      /\ actual'.i = x.i /\ actual'.cfg = nodosBin
  BY <1>3, <1>4
<1>6. /\ x.res = <<>> /\ Mandados = {} /\ Faltan = 0 /\ ReservedBy(Consola) = {}
      /\ s \in Seq(Replica) /\ x.i \in 1 .. Len(s) /\ Len(s) \in Nat /\ DOMAIN s = 1 .. Len(s) /\ r \in Replica
      /\ \A f, e : Marcada(f, e) <=> e \in Listed(f)
  BY <1>1, LiberaEs
<1>7. n \in Nodes /\ b \in BlocksOf(n) /\ \A e \in Replica : e.nodo = n /\ e.bloque = b => e = r
  BY <1>6, ReplicaEs
<1>8. Pendientes = {s[k] : k \in x.i .. Len(s)} /\ Pendientes' = {s[k] : k \in x.i + 1 .. Len(s)}
  BY <1>1, <1>5 DEF Pendientes, Desde
<1>9. IsInjective(s)
  BY DEF Duenios
<1> HIDE DEF n, b, s, r
<1>10. r \in Pendientes /\ \A e : e \in Pendientes' <=> e \in Pendientes /\ e # r
  <2>1. /\ x.i \in x.i .. Len(s) /\ \A k \in x.i + 1 .. Len(s) : k \in x.i .. Len(s) /\ k # x.i
        /\ \A k \in x.i .. Len(s) : k \in DOMAIN s /\ (k = x.i \/ k \in x.i + 1 .. Len(s))
    BY <1>6
  <2> DEFINE I == x.i .. Len(s)
             J == x.i + 1 .. Len(s)
             i == x.i
  <2>2. r = s[i] /\ Pendientes = {s[k] : k \in I} /\ Pendientes' = {s[k] : k \in J}
    BY <1>8 DEF r
  <2> HIDE DEF I, J, i
  <2>3. i \in I /\ (\A k \in J : k \in I /\ k # i) /\ (\A k \in I : k \in DOMAIN s /\ (k = i \/ k \in J))
    BY <2>1 DEF I, J, i
  <2>4. \A k, l \in DOMAIN s : s[k] = s[l] => k = l
    BY <1>9 DEF IsInjective
  <2> QED
    BY <2>2, <2>3, <2>4
<1>11. b \in bitmap[n] /\ \A f \in Paths : r \notin Listed(f)
  <2>1. \A f \in Paths : r \notin Listed(f)
    BY <1>10 DEF Duenios
  <2>2. r.bloque \in bitmap[r.nodo]
    BY <1>6, <1>10 DEF Bits
  <2> QED
    BY <2>1, <2>2 DEF n, b
<1>12. \A f \in Paths : Listed(f)' = Listed(f)
  BY <1>1 DEF Listed
<1>13. ReservedBy(Consola)' = {} /\ Mandados' = {} /\ Faltan' = 0
  <2>1. ReservedBy(Consola)' = {} /\ Mandados' = {}
    BY <1>5, <1>6 DEF ReservedBy, Mandados, actual
  <2>2. Faltan' = 0
    BY <1>5 DEF Faltan, Mandando
  <2> QED
    BY <2>1, <2>2
<1>14. /\ \A m \in Nodes : bitmap'[m] = IF m = n THEN bitmap[m] \ {b} ELSE bitmap[m]
       /\ \A m \in Nodes : libre'[m] = IF m = n THEN libre[m] + 1 ELSE libre[m]
  <2>1. bitmap = [m \in Nodes |-> bitmap[m]] /\ libre \in [Nodes -> Int]
    BY DEF Inv, TypeOK, ProcessTypeOK
  <2> QED
    BY <1>2, <1>7, <2>1
<1>15. Duenios'
  <2>1. IsInjective(actual'.libera)
    BY <1>5, <1>9
  <2>2. \A f \in Paths : \A e \in Pendientes' : e \notin Listed(f)'
    BY <1>10, <1>12 DEF Duenios
  <2>3. actual'.pc \notin Escribiendo /\ actual'.pc # "bitmap"
    BY <1>5 DEF Escribiendo
  <2> QED
    BY <1>12, <1>13, <2>1, <2>2, <2>3 DEF Duenios
<1>16. Bits'
  <2>1. \A f \in Paths, e \in Replica : Marcada(f, e)' <=> e \in Listed(f)
    BY <1>5, <1>12 DEF Marcada
  <2>2. ASSUME NEW e \in Replica
        PROVE  e.bloque \in bitmap'[e.nodo] <=> e \in Pendientes' \/ \E f \in Paths : Marcada(f, e)'
    <3>1. e.nodo \in Nodes
      BY ReplicaEs
    <3>2. e.bloque \in bitmap[e.nodo] <=> e \in Pendientes \/ \E f \in Paths : e \in Listed(f)
      BY <1>6 DEF Bits
    <3>3. CASE e = r
      <4>1. e.nodo = n /\ e.bloque = b
        BY <3>3 DEF n, b
      <4>2. e.bloque \notin bitmap'[e.nodo]
        BY <1>7, <1>14, <4>1
      <4> QED
        BY <1>10, <1>11, <2>1, <3>3, <4>2
    <3>4. CASE e # r
      <4>1. e.bloque \in bitmap'[e.nodo] <=> e.bloque \in bitmap[e.nodo]
        BY <1>7, <1>14, <3>1, <3>4
      <4> QED
        BY <1>10, <2>1, <3>2, <3>4, <4>1
    <3> QED
      BY <3>3, <3>4
  <2> QED
    BY <2>2 DEF Bits
<1>17. Libres'
  <2>1. ASSUME NEW m \in Nodes
        PROVE  libre'[m] = Total[m] - Cardinality(bitmap'[m] \cup ReservedOn(actual'.res, m))
    <3>1. \A S : S \cup ReservedOn(<<>>, m) = S
      BY NadaReservado
    <3>2. libre[m] = Total[m] - Cardinality(bitmap[m]) /\ Total[m] \in Nat
      BY <1>6, <3>1, DataNodeAssumption DEF Libres
    <3>3. bitmap'[m] \cup ReservedOn(actual'.res, m) = bitmap'[m]
      BY <1>5, <1>6, <3>1
    <3>4. IsFiniteSet(bitmap[m])
      BY CuentasSon, BloquesDeNodo, FS_Subset
    <3>5. CASE m = n
      <4> DEFINE S == bitmap[m]
      <4>1. IsFiniteSet(S) /\ b \in S
        BY <1>11, <3>4, <3>5
      <4> HIDE DEF S
      <4>2. Cardinality(S \ {b}) = Cardinality(S) - 1 /\ Cardinality(S) \in Nat
        BY <4>1, FS_RemoveElement, FS_CardinalityType
      <4>3. bitmap'[m] = S \ {b} /\ libre'[m] = libre[m] + 1
        BY <1>14, <3>5 DEF S
      <4>4. libre[m] = Total[m] - Cardinality(S)
        BY <3>2 DEF S
      <4>5. libre'[m] = Total[m] - (Cardinality(S) - 1)
        BY <3>2, <4>2, <4>3, <4>4
      <4> QED
        BY <3>3, <4>2, <4>3, <4>5
    <3>6. CASE m # n
      BY <1>14, <3>2, <3>3, <3>6
    <3> QED
      BY <3>5, <3>6
  <2> QED
    BY <2>1 DEF Libres
<1>18. BinLibre'
  <2>1. nodosBin.libre = libre
    BY <1>1 DEF BinLibre, Mandando
  <2>2. actual'.libera[actual'.i].nodo = n
    BY <1>5 DEF n, r
  <2>3. \A m \in Nodes : m # n => nodosBin'.libre[m] = libre'[m]
    BY <1>1, <1>14, <2>1
  <2> QED
    BY <1>1, <1>5, <2>2, <2>3 DEF BinLibre, Mandando
<1>19. BinTotal'
  <2>1. SumOfNodes(libre)' = SumOfNodes(libre) + 1 /\ SumOfNodes(libre) \in Int /\ nodosBin.total \in Int
    <3>1. ASSUME NEW d \in Int, d = 1 PROVE SumOfNodes(libre') = SumOfNodes(libre) + d
      <4>1. libre' = [libre EXCEPT ![n] = @ + d]
        BY <1>2, <3>1
      <4>2. SumOfNodes([libre EXCEPT ![n] = @ + d]) = SumOfNodes(libre) + d
        BY <1>7, CuentasSon, SumaDeNodos
      <4> QED
        BY <4>1, <4>2
    <3>3. SumOfNodes(libre') = SumOfNodes(libre) + 1
      BY <3>1
    <3> QED
      BY <3>3, CuentasSon
  <2>2. nodosBin.total <= SumOfNodes(libre) /\ pedidos.borra
    BY <1>1, <1>6, <2>1 DEF BinTotal
  <2>3. nodosBin.total <= SumOfNodes(libre)' + 0
    BY <2>1, <2>2
  <2> QED
    BY <1>1, <1>5, <1>13, <2>2, <2>3 DEF BinTotal
<1>20. Guardado'
  <2>1. \A e \in Replica, d \in Datos : Debe(e, d)' => Debe(e, d)
    BY <1>1, <1>13 DEF Debe, DebeEscritor, DebeArchivo
  <2> QED
    BY <1>1, <2>1, PrometidoQuieto, GuardadoSigue
<1> QED
  BY <1>15, <1>16, <1>17, <1>18, <1>19, <1>20

(* Saving the count of a freed block preserves Consistente.                *)
LEMMA OrdenGuardarLibre ==
    ASSUME UnHilo, Inv, Inv', Consistente, GuardarLibre(Consola), UNCHANGED dataNodeVars
    PROVE  Consistente'
<1> USE DEF Consistente
<1> DEFINE x == actual
           s == x.libera
           n == s[x.i].nodo
           y == [x EXCEPT !.i = @ + 1, !.pc = "libera", !.cfg = NULL]
<1>1. /\ x.pc = "guardaLibre" /\ x.pc \in Liberando /\ x \in LocalesDeHilo /\ hilo[Consola] = x
      /\ x.cfg = nodosBin /\ UNCHANGED <<libre, bitmap, archivos, pedidos, vivo, disco, entrada>>
  BY Solo DEF GuardarLibre, At, actual, dataNodeVars, Liberando, BinLibre
<1>2. /\ nodosBin' = UpdatedBin(nodosBin, n)
      /\ IF x.i = Len(s) THEN Ends(Consola, "ELIMINADO") ELSE hilo' = [hilo EXCEPT ![Consola] = y]
  <2>1. /\ nodosBin' = UpdatedBin(x.cfg, n)
        /\ IF x.i = Len(s) THEN Ends(Consola, "ELIMINADO") ELSE hilo' = [hilo EXCEPT ![Consola] = y]
    BY <1>1, Zenon DEF GuardarLibre
  <2> QED
    BY <1>1, <2>1, Zenon
<1>3. y.pc = "libera" /\ y.res = x.res /\ y.libera = s /\ y.i = x.i + 1
  <2> HIDE DEF x
  <2> QED
    BY <1>1 DEF LocalesDeHilo, s
<1> HIDE DEF y
<1>4. /\ x.res = <<>> /\ Mandados = {} /\ Faltan = 0 /\ ReservedBy(Consola) = {}
      /\ s \in Seq(Replica) /\ x.i \in 1 .. Len(s) /\ Len(s) \in Nat /\ s[x.i] \in Replica
      /\ \A f, e : Marcada(f, e) <=> e \in Listed(f)
  BY <1>1, LiberaEs
<1>5. n \in Nodes
  BY <1>4, ReplicaEs
<1>6. /\ actual'.res = <<>> /\ actual'.pc \in {"libre", "libera"} /\ IsInjective(actual'.libera)
      /\ Pendientes' = Pendientes
  <2>1. Pendientes = {s[k] : k \in x.i + 1 .. Len(s)}
    BY <1>1 DEF Pendientes, Desde
  <2>2. CASE x.i = Len(s)
    <3>1. actual'.pc = "libre" /\ actual'.res = <<>> /\ actual'.libera = <<>> /\ actual'.i = 1
      BY <1>2, <2>2, FinOcioso DEF Resultados
    <3>2. Pendientes' = {}
      BY <3>1 DEF Pendientes, Desde
    <3>3. x.i + 1 .. Len(s) = {}
      BY <1>4, <2>2
    <3>4. IsInjective(actual'.libera)
      BY <3>1 DEF IsInjective
    <3> QED
      BY <2>1, <3>1, <3>2, <3>3, <3>4
  <2>3. CASE x.i # Len(s)
    <3>1. hilo' = [hilo EXCEPT ![Consola] = y]
      BY <1>2, <2>3
    <3>2. actual' = y
      BY <3>1, Solo, ActualEs
    <3>3. actual'.pc = "libera" /\ actual'.res = <<>> /\ actual'.libera = s /\ actual'.i = x.i + 1
      BY <1>3, <1>4, <3>2
    <3>4. Pendientes' = {s[k] : k \in x.i + 1 .. Len(s)}
      BY <3>3 DEF Pendientes, Desde
    <3>5. IsInjective(actual'.libera)
      BY <3>3 DEF Duenios
    <3> QED
      BY <2>1, <3>3, <3>4, <3>5
  <2> QED
    BY <2>2, <2>3
<1>7. ReservedBy(Consola)' = {} /\ Mandados' = {} /\ Faltan' = 0
  BY <1>6 DEF ReservedBy, Mandados, actual, Faltan, Mandando
<1>8. \A f \in Paths : Listed(f)' = Listed(f)
  BY <1>1 DEF Listed
<1>9. Duenios'
  <2>1. actual'.pc \notin Escribiendo /\ actual'.pc # "bitmap"
    BY <1>6 DEF Escribiendo
  <2> QED
    BY <1>6, <1>7, <1>8, <2>1 DEF Duenios
<1>10. Bits'
  <2>1. \A f \in Paths, e \in Replica : Marcada(f, e)' <=> e \in Listed(f)
    BY <1>6, <1>8 DEF Marcada
  <2> QED
    BY <1>1, <1>4, <1>6, <2>1 DEF Bits
<1>11. Libres'
  BY <1>1, <1>4, <1>6 DEF Libres
<1> HIDE DEF n, s, x
<1>12. /\ nodosBin'.total = nodosBin.total - 1 /\ nodosBin'.libre = libre
  <2>1. nodosBin' = [libre |-> [nodosBin.libre EXCEPT ![n] = libre[n]], total |-> nodosBin.total - 1]
    BY <1>2, Zenon DEF UpdatedBin
  <2>2. \A m \in Nodes : m # n => nodosBin.libre[m] = libre[m]
    BY <1>1 DEF BinLibre, n, s, x
  <2>3. nodosBin.libre \in [Nodes -> Int] /\ libre \in [Nodes -> Int]
    BY CuentasSon
  <2>4. [nodosBin.libre EXCEPT ![n] = libre[n]] = libre
    <3> DEFINE e == [nodosBin.libre EXCEPT ![n] = libre[n]]
    <3>1. e = [m \in Nodes |-> e[m]] /\ libre = [m \in Nodes |-> libre[m]]
      BY <2>3
    <3>2. \A m \in Nodes : e[m] = libre[m]
      BY <1>5, <2>2, <2>3
    <3>3. e = libre
      <4> HIDE DEF e
      <4> QED
        BY <3>1, <3>2
    <3> QED
      BY <3>3
  <2> QED
    BY <2>1, <2>4
<1>13. BinLibre'
  BY <1>1, <1>6, <1>12 DEF BinLibre, Mandando
<1>14. BinTotal'
  <2>1. SumOfNodes(libre)' = SumOfNodes(libre) /\ SumOfNodes(libre) \in Int /\ nodosBin.total \in Int
    BY <1>1, CuentasSon
  <2>2. nodosBin.total <= SumOfNodes(libre) + 0 /\ pedidos'.borra
    BY <1>1, <1>4 DEF BinTotal, x
  <2>3. nodosBin'.total <= SumOfNodes(libre)' + 0
    BY <1>12, <2>1, <2>2
  <2> QED
    BY <1>6, <1>7, <2>2, <2>3 DEF BinTotal
<1>15. Guardado'
  <2>1. \A e \in Replica, d \in Datos : Debe(e, d)' => Debe(e, d)
    BY <1>1, <1>7 DEF Debe, DebeEscritor, DebeArchivo
  <2> QED
    BY <1>1, <2>1, PrometidoQuieto, GuardadoSigue
<1> QED
  BY <1>9, <1>10, <1>11, <1>13, <1>14, <1>15

-----------------------------------------------------------------------------
(* The order of blocks and counts, from the start on.                      *)

(* An empty file system is consistent.                                     *)
LEMMA OrdenInicial ==
    ASSUME UnHilo, Init
    PROVE  Consistente
<1>1. Inv
  BY InitBien
<1>2. /\ libre = Total /\ bitmap = [n \in Nodes |-> {}] /\ archivos = [f \in Paths |-> NULL]
      /\ nodosBin = [libre |-> Total, total |-> SumOfNodes(Total)] /\ actual = Idle("NADA")
  BY FsWriteAssumption DEF Init, WriteInit, actual
<1>3. actual.pc = "libre" /\ actual.res = <<>> /\ actual.libera = <<>> /\ actual.i = 1
  BY <1>2 DEF Idle
<1>4. /\ Pendientes = {} /\ Mandados = {} /\ ReservedBy(Consola) = {} /\ Faltan = 0
      /\ IsInjective(actual.libera)
  BY <1>3 DEF Pendientes, Desde, Mandados, ReservedBy, actual, Faltan, Mandando, IsInjective
<1>5. \A f \in Paths : archivos[f] = NULL /\ Listed(f) = {}
  BY <1>2 DEF Listed
<1>6. Duenios
  BY <1>3, <1>4, <1>5 DEF Duenios, Escribiendo
<1>7. Bits
  <2>1. \A r \in Replica : bitmap[r.nodo] = {}
    BY <1>2, ReplicaEs
  <2> QED
    BY <1>4, <1>5, <2>1 DEF Bits, Marcada
<1>8. Libres
  <2>1. ASSUME NEW n \in Nodes PROVE libre[n] = Total[n] - Cardinality(bitmap[n] \cup ReservedOn(actual.res, n))
    <3>1. bitmap[n] \cup ReservedOn(actual.res, n) = {}
      BY <1>2, <1>3, NadaReservado
    <3>2. Total[n] \in Nat
      BY DataNodeAssumption
    <3>3. Cardinality(bitmap[n] \cup ReservedOn(actual.res, n)) = 0
      BY <3>1, FS_EmptySet
    <3> QED
      BY <1>2, <3>2, <3>3
  <2> QED
    BY <2>1 DEF Libres
<1>9. Guardado
  BY <1>4, <1>5 DEF Guardado, Debe, DebeEscritor, DebeArchivo
<1>10. nodosBin.libre = libre /\ nodosBin.total = SumOfNodes(libre) + 0
  <2>1. nodosBin.libre = libre /\ nodosBin.total = SumOfNodes(libre)
    BY <1>2
  <2> QED
    BY <1>1, <2>1, CuentasSon
<1>11. BinLibre
  BY <1>3, <1>10 DEF BinLibre, Mandando
<1>12. BinTotal
  <2>1. nodosBin.total <= SumOfNodes(libre) + 0
    BY <1>1, <1>10, CuentasSon
  <2> QED
    BY <1>3, <1>4, <1>10, <2>1 DEF BinTotal, Liberando
<1> QED
  BY <1>6, <1>7, <1>8, <1>9, <1>11, <1>12 DEF Consistente

(* Every command, and every step of one, preserves Consistente.            *)
LEMMA OrdenHilo ==
    ASSUME UnHilo, Inv, Inv', Consistente, NEW t \in Hilos, Command(t) \/ ThreadStep(t)
    PROVE  Consistente'
<1>1. t = Consola
  BY Solo
<1> HIDE DEF UnHilo
<1>2. ASSUME NEW f \in Paths, EscribirArchivo(Consola, f), UNCHANGED dataNodeVars PROVE Consistente'
  BY <1>2, OrdenEscribir
<1>3. ASSUME NEW f \in Paths, EliminarArchivo(Consola, f), UNCHANGED dataNodeVars PROVE Consistente'
  BY <1>3, OrdenEliminar
<1>4. ASSUME NEW f \in Paths, LeerArchivo(Consola, f), UNCHANGED dataNodeVars PROVE Consistente'
  BY <1>4, OrdenLeer
<1>5. CASE Command(t)
  BY <1>1, <1>2, <1>3, <1>4, <1>5 DEF Command
<1>6. ASSUME WriteLocally(Consola), UNCHANGED dataNodeVars PROVE Consistente'
  <2>1. CASE \E n \in Nodes : ReserveBlock(Consola, n)
    BY <1>6, <2>1, OrdenReservar
  <2>2. CASE (\E n \in Nodes : SkipNode(Consola, n) \/ NodeIsFull(Consola, n)) \/ NoNodeLeft(Consola)
    BY <1>6, <2>2, OrdenTurno
  <2>3. CASE NoBitMap(Consola)
    BY <1>6, <2>3, OrdenSinBitMap
  <2>4. CASE SinEspacio(Consola)
    BY <1>6, <2>4, OrdenSinEspacio
  <2>5. CASE BlocksReserved(Consola)
    BY <1>6, <2>5, OrdenReservado
  <2>6. CASE AwaitWrite(Consola)
    BY <1>6, <2>6, OrdenEsperar
  <2>7. CASE ActualizarConfigNodoEnBin(Consola)
    BY <1>6, <2>7, OrdenGuardar
  <2>8. CASE CrearArchivoMetadata(Consola)
    BY <1>6, <2>8, OrdenMetadata
  <2>9. CASE ActualizarBitMapBloques(Consola)
    BY <1>6, <2>9, OrdenBitMap
  <2>10. CASE LiberarBloque(Consola)
    BY <1>6, <2>10, OrdenLiberar
  <2>11. CASE GuardarLibre(Consola)
    BY <1>6, <2>11, OrdenGuardarLibre
  <2> QED
    BY <1>6, <2>1, <2>2, <2>3, <2>4, <2>5, <2>6, <2>7, <2>8, <2>9, <2>10, <2>11 DEF WriteLocally
<1>7. CASE ThreadStep(t)
  BY <1>1, <1>6, <1>7, OrdenLectura, OrdenMandar, OrdenPedirBloque DEF ThreadStep
<1> QED
  BY <1>5, <1>7

(* Every step preserves Consistente.                                       *)
LEMMA OrdenSiguiente ==
    ASSUME UnHilo, Inv, Inv', Consistente, [Next]_vars
    PROVE  Consistente'
<1>1. ASSUME NEW t \in Hilos, Command(t) \/ ThreadStep(t) PROVE Consistente'
  BY <1>1, OrdenHilo
<1>2. ASSUME NEW n \in Nodes, Atender(n) PROVE Consistente'
  BY <1>2, OrdenAtender
<1>3. ASSUME NEW n \in Nodes, NodeStep(n) \/ NodeLost(n) PROVE Consistente'
  BY <1>3, OrdenNodo
<1>4. CASE UNCHANGED vars
  BY <1>4, PrometidoQuieto, OrdenQuieta DEF vars, fsVars, blockVars, dataNodeVars
<1> QED
  BY <1>1, <1>2, <1>3, <1>4 DEF Next

(* With the console alone, the invariants of blocks, counts and data hold  *)
(* in every state: each block belongs to whom Duenios says, the bits are   *)
(* those of the listed replicas, libre counts what is free, what must be   *)
(* stored is or is on its way, and nodos.bin differs from memory only by   *)
(* the replicas in course.                                                 *)
THEOREM ConsistenteSiempre ==
    ASSUME UnHilo
    PROVE  Spec => []Consistente
<1>1. Init => Consistente
  BY OrdenInicial
<1>2. Inv /\ Inv' /\ Consistente /\ [Next]_vars => Consistente'
  BY OrdenSiguiente
<1>3. Spec => []Inv
  BY InvHolds
<1> QED
  BY <1>1, <1>2, <1>3, PTL DEF Spec

(* NoBlockShared: a block of a node belongs to one file, and is not        *)
(* reserved for another one while it is listed.                            *)
LEMMA SinCompartir ==
    ASSUME UnHilo, Inv, Consistente
    PROVE  NoBlockShared
<1>1. ASSUME NEW f \in Paths, NEW g \in Paths, f # g PROVE Listed(f) \cap Listed(g) = {}
  BY <1>1, ListadasSon DEF Consistente, Duenios
<1>2. ASSUME NEW t \in Hilos, NEW f \in Paths, hilo[t].path # f PROVE ReservedBy(t) \cap Listed(f) = {}
  <2>1. t = Consola /\ hilo[t] = actual
    BY Solo DEF actual
  <2> QED
    BY <1>2, <2>1 DEF Consistente, Duenios
<1>3. \A t, u \in Hilos : t = u
  BY Solo
<1> QED
  BY <1>1, <1>2, <1>3 DEF NoBlockShared

(* NoBlockShared, in every state, with the console alone.                  *)
THEOREM BlocksNotShared ==
    ASSUME UnHilo
    PROVE  Spec => []NoBlockShared
<1>1. Inv /\ Consistente => NoBlockShared
  BY SinCompartir
<1> QED
  BY <1>1, InvHolds, ConsistenteSiempre, PTL

(* LibreIsFreeBlocks: the count in memory is that of the free blocks, and  *)
(* between commands the bits are those of the blocks that files list.      *)
LEMMA LibresCuentan ==
    ASSUME UnHilo, Inv, Consistente
    PROVE  LibreIsFreeBlocks
<1>1. ASSUME NEW n \in Nodes
      PROVE  libre[n] = Total[n] - Cardinality(bitmap[n] \cup UNION {ReservedOn(hilo[t].res, n) : t \in Hilos})
  <2>1. {ReservedOn(hilo[t].res, n) : t \in Hilos} = {ReservedOn(actual.res, n)}
    BY DEF UnHilo, actual
  <2>2. UNION {ReservedOn(actual.res, n)} = ReservedOn(actual.res, n)
    OBVIOUS
  <2> QED
    BY <2>1, <2>2 DEF Consistente, Libres
<1>2. ASSUME NEW n \in Nodes, SinOrdenes
      PROVE  bitmap[n] = {b \in BlocksOf(n) : \E f \in Paths : Reserved(n, b) \in Listed(f)}
  <2>1. actual.pc = "libre"
    BY <1>2, Solo DEF SinOrdenes, actual
  <2>2. Pendientes = {} /\ \A f, r : Marcada(f, r) <=> r \in Listed(f)
    <3>1. actual.libera = <<>> /\ actual.i \in Nat \ {0}
      BY <2>1, Solo, OciosoEs, CamposDeHilo DEF Bien, Ocioso, Escribiendo, Liberando
    <3> QED
      BY <2>1, <3>1 DEF Pendientes, Desde, Marcada
  <2>3. ASSUME NEW b \in BlocksOf(n)
        PROVE  b \in bitmap[n] <=> \E f \in Paths : Reserved(n, b) \in Listed(f)
    <3> DEFINE r == Reserved(n, b)
    <3>1. r \in Replica /\ r.nodo = n /\ r.bloque = b
      BY ReservadoEs
    <3> HIDE DEF r
    <3>2. r.bloque \in bitmap[r.nodo] <=> \E f \in Paths : r \in Listed(f)
      BY <2>2, <3>1 DEF Consistente, Bits
    <3> QED
      BY <3>1, <3>2 DEF r
  <2>4. bitmap[n] \subseteq BlocksOf(n)
    BY CuentasSon
  <2> QED
    BY <2>3, <2>4
<1> QED
  BY <1>1, <1>2 DEF LibreIsFreeBlocks

(* LibreIsFreeBlocks, in every state, with the console alone.              *)
THEOREM FreeCountsAreTrue ==
    ASSUME UnHilo
    PROVE  Spec => []LibreIsFreeBlocks
<1>1. Inv /\ Consistente => LibreIsFreeBlocks
  BY LibresCuentan
<1> QED
  BY <1>1, InvHolds, ConsistenteSiempre, PTL

(* BinIsTrue: between commands nodos.bin holds the counts, and their sum   *)
(* until something is removed.                                             *)
LEMMA BinDiceVerdad ==
    ASSUME UnHilo, Inv, Consistente
    PROVE  BinIsTrue
<1>1. SUFFICES ASSUME SinOrdenes
               PROVE  /\ nodosBin.libre = libre /\ nodosBin.total <= SumOfNodes(libre)
                      /\ ~pedidos.borra => nodosBin.total = SumOfNodes(libre)
  BY DEF BinIsTrue
<1>2. actual.pc = "libre"
  BY <1>1, Solo DEF SinOrdenes, actual
<1>3. Faltan = 0 /\ nodosBin.libre = libre
  BY <1>2 DEF Faltan, Mandando, Consistente, BinLibre
<1>4. SumOfNodes(libre) \in Int /\ nodosBin.total \in Int
  BY CuentasSon
<1>5. nodosBin.total <= SumOfNodes(libre) + 0 /\ (~pedidos.borra => nodosBin.total = SumOfNodes(libre) + 0)
  BY <1>3 DEF Consistente, BinTotal
<1> QED
  BY <1>3, <1>4, <1>5

(* BinIsTrue, in every state, with the console alone.                      *)
THEOREM BinMatchesMemory ==
    ASSUME UnHilo
    PROVE  Spec => []BinIsTrue
<1>1. Inv /\ Consistente => BinIsTrue
  BY BinDiceVerdad
<1> QED
  BY <1>1, InvHolds, ConsistenteSiempre, PTL

(* StoredOrSent: what a file lists is on its node, or on its way there.    *)
LEMMA GuardadoOMandado ==
    ASSUME UnHilo, Inv, Consistente
    PROVE  StoredOrSent
<1>1. ASSUME NEW f \in Paths, archivos[f] # NULL, NEW b \in DOMAIN archivos[f].bloques, NEW c \in 1 .. 2,
             NEW r, r = archivos[f].bloques[b].copias[c], NEW d, d = [path |-> f, nro |-> b], vivo[r.nodo]
      PROVE  disco[r.nodo][r.bloque] = d \/ Contains(entrada[r.nodo], SetBloque(r.bloque, d))
  <2>1. r \in Replica /\ d \in Datos
    <3>1. r \in Replica /\ archivos[f].bloques \in Seq(Bloques)
      BY <1>1, ListadasSon
    <3>2. b \in Nat
      BY <3>1
    <3> QED
      BY <1>1, <3>1, <3>2, DatosSon
  <2>2. DebeArchivo(f, r, d)
    BY <1>1 DEF DebeArchivo
  <2>3. Llega(r, d)
    BY <2>1, <2>2 DEF Consistente, Guardado, Debe
  <2> DEFINE n == r.nodo
             s == entrada[n]
  <2>4. Llegara(n, r.bloque, d)
    BY <1>1, <2>3 DEF Llega
  <2>5. n \in Nodes /\ s \in Seq(Pedidos(n))
    BY <2>1, ReplicaEs, PedidosSon
  <2>6. ASSUME NEW k \in DOMAIN s, EsSet(s[k], r.bloque), s[k].contenido = d
        PROVE  Contains(s, SetBloque(r.bloque, d))
    <3>1. s[k] \in Pedidos(n) /\ k \in 1 .. Len(s)
      BY <2>5
    <3>2. s[k].op = "SET_BLOQUE" /\ s[k].idBloque = r.bloque
      BY <2>6 DEF EsSet
    <3>3. s[k] = SetBloque(r.bloque, d)
      <4> DEFINE p == s[k]
      <4> HIDE DEF s, n
      <4>1. p \in [op : {"SET_BLOQUE"}, idBloque : BlocksOf(n), contenido : Datos]
        BY <3>1, <3>2 DEF Pedidos
      <4>2. p = [op |-> p.op, idBloque |-> p.idBloque, contenido |-> p.contenido]
        <5> HIDE DEF p
        <5> QED
          BY <4>1
      <4> QED
        BY <2>6, <3>2, <4>2 DEF SetBloque
    <3> QED
      BY <3>1, <3>3 DEF Contains
  <2> QED
    BY <2>4, <2>6 DEF Llegara
<1> QED
  BY <1>1 DEF StoredOrSent

(* StoredOrSent, in every state, with the console alone.                   *)
THEOREM FilesAreStored ==
    ASSUME UnHilo
    PROVE  Spec => []StoredOrSent
<1>1. Inv /\ Consistente => StoredOrSent
  BY GuardadoOMandado
<1> QED
  BY <1>1, InvHolds, ConsistenteSiempre, PTL

-----------------------------------------------------------------------------
(***************************************************************************)
(* What a read returns, with the console as the only thread.  Leido is the *)
(* inductive invariant, next to Inv and Consistente: what the console      *)
(* reads is listed all the while, what is asked for was written, and while *)
(* no node has died there is one request or one answer for each block that *)
(* the read expects, and nothing left of an earlier one.                   *)
(***************************************************************************)

(* A node that lives is connected, and its thread takes its answers.       *)
Conectados ==
    \A n \in Nodes : vivo[n] =>
        /\ activo[n] /\ atencion[n] = "escucha"
        /\ \A k \in DOMAIN salida[n] : salida[n][k].op # "FIN"

(* What a read is about: the file, as it is listed all the while; and what *)
(* was read stays the result until the next command.                       *)
LeeArchivo ==
    /\ actual.pc \in Leyendo =>
        /\ actual.path \in Paths /\ archivos[actual.path] # NULL
        /\ actual.info = archivos[actual.path].bloques
    /\ actual.resultado = "LEIDO" => actual.pc = "libre"

(* Tails and appended elements of a queue.                                 *)
LEMMA ColaSon ==
    ASSUME NEW S, NEW s \in Seq(S)
    PROVE  /\ Len(s) \in Nat /\ DOMAIN s = 1 .. Len(s) /\ \A k \in DOMAIN s : s[k] \in S /\ k \in Nat
           /\ s # <<>> => /\ Len(s) > 0 /\ 1 \in DOMAIN s /\ Head(s) = s[1]
                          /\ Tail(s) \in Seq(S) /\ Len(Tail(s)) = Len(s) - 1
                          /\ \A k \in DOMAIN Tail(s) : k + 1 \in DOMAIN s /\ Tail(s)[k] = s[k + 1]
           /\ \A e \in S : /\ Append(s, e) \in Seq(S) /\ Len(Append(s, e)) = Len(s) + 1
                           /\ \A k \in DOMAIN s : k \in DOMAIN Append(s, e) /\ Append(s, e)[k] = s[k]
                           /\ \A k \in DOMAIN Append(s, e) :
                                 \/ k \in DOMAIN s /\ Append(s, e)[k] = s[k]
                                 \/ k = Len(s) + 1 /\ Append(s, e)[k] = e
<1>1. Len(s) \in Nat /\ DOMAIN s = 1 .. Len(s) /\ \A k \in DOMAIN s : s[k] \in S /\ k \in Nat
  OBVIOUS
<1>2. ASSUME s # <<>>
      PROVE  /\ Len(s) > 0 /\ 1 \in DOMAIN s /\ Head(s) = s[1]
             /\ Tail(s) \in Seq(S) /\ Len(Tail(s)) = Len(s) - 1
             /\ \A k \in DOMAIN Tail(s) : k + 1 \in DOMAIN s /\ Tail(s)[k] = s[k + 1]
  BY <1>2
<1>3. ASSUME NEW e \in S
      PROVE  /\ Append(s, e) \in Seq(S) /\ Len(Append(s, e)) = Len(s) + 1
             /\ \A k \in DOMAIN s : k \in DOMAIN Append(s, e) /\ Append(s, e)[k] = s[k]
             /\ \A k \in DOMAIN Append(s, e) : \/ k \in DOMAIN s /\ Append(s, e)[k] = s[k]
                                               \/ k = Len(s) + 1 /\ Append(s, e)[k] = e
  OBVIOUS
<1> QED
  BY <1>1, <1>2, <1>3

(* The queues of answers.                                                  *)
LEMMA SalidaEs ==
    ASSUME Inv, NEW n \in Nodes
    PROVE  /\ salida[n] \in Seq(Respuestas) /\ salida \in [Nodes -> Seq(Respuestas)]
           /\ atencion \in [Nodes -> {"escucha", "desconecta", "fin"}] /\ activo \in [Nodes -> BOOLEAN]
BY DEF Inv, TypeOK, NodesTypeOK, ProcessTypeOK

(* The thread of a node takes an answer: what is left was there.           *)
LEMMA QuedaTomada ==
    ASSUME Inv, NEW n \in Nodes, NEW op, Arrives(n, op), Taken(n), NEW m \in Nodes
    PROVE  \A k \in DOMAIN salida'[m] : \E j \in DOMAIN salida[m] :
              salida'[m][k] = salida[m][j] /\ (m # n => j = k) /\ (m = n => j = k + 1)
<1>1. salida[m] \in Seq(Respuestas) /\ salida \in [Nodes -> Seq(Respuestas)]
  BY SalidaEs
<1>2. CASE m # n
  <2>1. salida'[m] = salida[m]
    BY <1>1, <1>2 DEF Taken
  <2> QED
    BY <1>2, <2>1
<1>3. CASE m = n
  <2>1. salida'[m] = Tail(salida[m]) /\ salida[m] # <<>>
    BY <1>1, <1>3 DEF Taken, Arrives
  <2> QED
    BY <1>1, <1>3, <2>1, ColaSon
<1> QED
  BY <1>2, <1>3

(* A node answers: what is new comes last.                                 *)
LEMMA QuedaRespondida ==
    ASSUME Inv, NEW n \in Nodes, NEW a \in Respuestas, Answer(n, a), NEW m \in Nodes
    PROVE  /\ \A k \in DOMAIN salida'[m] : \/ k \in DOMAIN salida[m] /\ salida'[m][k] = salida[m][k]
                                           \/ m = n /\ k = Len(salida[m]) + 1 /\ salida'[m][k] = a
           /\ entrada[n] # <<>> => \A k \in DOMAIN entrada'[m] : \E j \in DOMAIN entrada[m] :
                 entrada'[m][k] = entrada[m][j] /\ (m # n => j = k) /\ (m = n => j = k + 1)
<1>1. salida[m] \in Seq(Respuestas) /\ salida \in [Nodes -> Seq(Respuestas)]
  BY SalidaEs
<1>2. entrada[m] \in Seq(Pedidos(m)) /\ entrada = [k \in Nodes |-> entrada[k]]
  BY PedidosSon
<1>3. CASE m # n
  <2>1. salida'[m] = salida[m] /\ entrada'[m] = entrada[m]
    BY <1>1, <1>2, <1>3 DEF Answer
  <2> QED
    BY <1>3, <2>1
<1>4. CASE m = n
  <2>1. salida'[m] = Append(salida[m], a) /\ entrada'[m] = Tail(entrada[m])
    BY <1>1, <1>2, <1>4 DEF Answer
  <2>2. \A k \in DOMAIN salida'[m] : \/ k \in DOMAIN salida[m] /\ salida'[m][k] = salida[m][k]
                                     \/ k = Len(salida[m]) + 1 /\ salida'[m][k] = a
    BY <1>1, <2>1, ColaSon
  <2>3. entrada[n] # <<>> => \A k \in DOMAIN entrada'[m] : k + 1 \in DOMAIN entrada[m] /\ entrada'[m][k] = entrada[m][k + 1]
    BY <1>2, <1>4, <2>1, ColaSon
  <2> QED
    BY <1>4, <2>2, <2>3
<1> QED
  BY <1>3, <1>4

(* The end of a node.                                                      *)
LEMMA QuedaTerminada ==
    ASSUME Inv, NEW n \in Nodes, NEW s, EndOf(n, s), NEW m \in Nodes
    PROVE  /\ ~vivo'[n]
           /\ m # n => vivo'[m] = vivo[m] /\ salida'[m] = salida[m] /\ entrada'[m] = entrada[m]
           /\ m = n => entrada'[m] = <<>> /\ salida'[m] = Append(s, Closed)
BY PedidosSon, SalidaEs DEF EndOf

(* What a node answers to a request to read.                               *)
LEMMA RespuestaEs ==
    ASSUME Inv, NEW n \in Nodes, GetBlock(n)
    PROVE  LET p == Head(entrada[n])
               a == GetBloqueOk(p.nroBloque, disco[n][p.idBloque])
           IN  /\ Request(n, "GET_BLOQUE") /\ Answer(n, a) /\ UNCHANGED <<vivo, muertes, disco>>
               /\ a \in Respuestas /\ a.op = "GET_BLOQUE_OK" /\ a.nroBloque = p.nroBloque
               /\ a.contenido = disco[n][p.idBloque] /\ p.idBloque \in BlocksOf(n) /\ p.nroBloque \in Nat
<1> DEFINE p == Head(entrada[n])
           c == disco[n][p.idBloque]
<1>1. Request(n, "GET_BLOQUE") /\ Answer(n, GetBloqueOk(p.nroBloque, c)) /\ UNCHANGED <<vivo, muertes, disco>>
  BY DEF GetBlock
<1>2. p.idBloque \in BlocksOf(n) /\ p.nroBloque \in Nat
  BY <1>1, PedidoLeido
<1> HIDE DEF p
<1>3. c \in Datos \cup {NULL}
  BY <1>2, PedidosSon
<1> HIDE DEF c
<1>4. /\ GetBloqueOk(p.nroBloque, c) \in Respuestas /\ GetBloqueOk(p.nroBloque, c).op = "GET_BLOQUE_OK"
      /\ GetBloqueOk(p.nroBloque, c).nroBloque = p.nroBloque /\ GetBloqueOk(p.nroBloque, c).contenido = c
  BY <1>2, <1>3 DEF GetBloqueOk, Respuestas
<1> QED
  BY <1>1, <1>2, <1>4 DEF p, c

(* The steps of the nodes and of their threads preserve Conectados.        *)
LEMMA ConectadosNodo ==
    ASSUME Inv, Conectados, NEW n \in Nodes, Atender(n) \/ NodeStep(n) \/ NodeLost(n)
    PROVE  Conectados'
<1>1. CASE EscrituraOk(n) \/ LecturaOk(n)
  <2>1. PICK op : Arrives(n, op) /\ Taken(n) /\ UNCHANGED <<vivo, activo, atencion>>
    BY <1>1 DEF EscrituraOk, LecturaOk
  <2>2. ASSUME NEW m \in Nodes, vivo'[m], NEW k \in DOMAIN salida'[m]
        PROVE  salida'[m][k].op # "FIN"
    <3>1. PICK j \in DOMAIN salida[m] : salida'[m][k] = salida[m][j]
      BY <2>1, <2>2, QuedaTomada
    <3> QED
      BY <2>1, <2>2, <3>1 DEF Conectados
  <2> QED
    BY <2>1, <2>2 DEF Conectados
<1>2. CASE LecturaSinLista(n)
  BY <1>2 DEF LecturaSinLista, dataNodeVars, Conectados
<1>3. CASE PedidoInvalido(n) \/ NodeLost(n)
  <2>1. PICK s : EndOf(n, s) /\ UNCHANGED <<activo, atencion>>
    BY <1>3 DEF PedidoInvalido, NodeLost, NodeDies, fsVars
  <2>2. ASSUME NEW m \in Nodes, vivo'[m]
        PROVE  m # n /\ vivo[m] /\ salida'[m] = salida[m]
    BY <2>1, <2>2, QuedaTerminada
  <2> QED
    BY <2>1, <2>2 DEF Conectados
<1>4. CASE NodoDesconectado(n)
  <2>1. Arrives(n, "FIN") /\ Taken(n) /\ UNCHANGED <<vivo, activo>> /\ atencion' = [atencion EXCEPT ![n] = "desconecta"]
    BY <1>4 DEF NodoDesconectado
  <2>2. ~vivo[n]
    <3>1. salida[n] \in Seq(Respuestas) /\ salida[n] # <<>> /\ Head(salida[n]).op = "FIN"
      BY <2>1, SalidaEs DEF Arrives
    <3>2. 1 \in DOMAIN salida[n] /\ salida[n][1].op = "FIN"
      BY <3>1, ColaSon
    <3> QED
      BY <3>2 DEF Conectados
  <2>3. ASSUME NEW m \in Nodes, vivo'[m]
        PROVE  vivo[m] /\ atencion'[m] = atencion[m] /\ salida'[m] = salida[m]
    BY <2>1, <2>2, <2>3, SalidaEs DEF Taken
  <2> QED
    BY <2>1, <2>3 DEF Conectados
<1>5. CASE EliminarNodo(n)
  <2>1. /\ UNCHANGED <<vivo, salida>> /\ atencion' = [atencion EXCEPT ![n] = "fin"]
        /\ activo' = [activo EXCEPT ![n] = FALSE] /\ atencion[n] = "desconecta"
    BY <1>5 DEF EliminarNodo, dataNodeVars
  <2>2. ASSUME NEW m \in Nodes, vivo'[m]
        PROVE  vivo[m] /\ atencion'[m] = atencion[m] /\ activo'[m] = activo[m]
    BY <2>1, <2>2, SalidaEs DEF Conectados
  <2> QED
    BY <2>1, <2>2 DEF Conectados
<1>6. CASE NodeStep(n)
  <2>1. PICK op : Request(n, op) /\ (\E a \in Respuestas : Answer(n, a) /\ a.op # "FIN") /\ UNCHANGED <<vivo, activo, atencion>>
    <3>1. CASE SetBlock(n)
      <4>1. SetBloqueOk \in Respuestas /\ SetBloqueOk.op # "FIN"
        BY DEF SetBloqueOk, Respuestas
      <4> QED
        BY <1>6, <3>1, <4>1 DEF SetBlock, NodeStep, fsVars
    <3>2. CASE GetBlock(n)
      BY <1>6, <3>2, RespuestaEs DEF GetBlock, NodeStep, fsVars
    <3> QED
      BY <1>6, <3>1, <3>2 DEF NodeStep
  <2>2. PICK a \in Respuestas : Answer(n, a) /\ a.op # "FIN"
    BY <2>1
  <2>3. ASSUME NEW m \in Nodes, vivo'[m], NEW k \in DOMAIN salida'[m]
        PROVE  salida'[m][k].op # "FIN"
    <3>1. \/ k \in DOMAIN salida[m] /\ salida'[m][k] = salida[m][k]
          \/ salida'[m][k] = a
      BY <2>2, <2>3, QuedaRespondida
    <3> QED
      BY <2>1, <2>2, <2>3, <3>1 DEF Conectados
  <2> QED
    BY <2>1, <2>3 DEF Conectados
<1> QED
  BY <1>1, <1>2, <1>3, <1>4, <1>5, <1>6 DEF Atender

(* Writing and removing are not reading, and end with other results.       *)
SigueAparte ==
    \/ UNCHANGED <<hilo, archivos, entrada>>
    \/ actual'.pc \notin Leyendo /\ actual'.resultado # "LEIDO"

(* A command that ends with another result than LEIDO.                     *)
LEMMA AparteFin ==
    ASSUME UnHilo, Inv, NEW r \in Resultados \ {"LEIDO"}, Ends(Consola, r)
    PROVE  SigueAparte
<1>1. actual' = Idle(r)
  BY FinOcioso
<1>2. Idle(r).pc = "libre" /\ Idle(r).resultado = r
  BY DEF Idle
<1> QED
  BY <1>1, <1>2 DEF SigueAparte, Leyendo

(* A step of the command that neither reads nor has read.                  *)
LEMMA AparteCambia ==
    ASSUME UnHilo, Inv, NEW y, hilo' = [hilo EXCEPT ![Consola] = y],
           y.pc \notin Leyendo, y.resultado # "LEIDO"
    PROVE  SigueAparte
BY Solo, ActualEs DEF SigueAparte

(* The orders to write and to remove.                                      *)
LEMMA AparteOrden ==
    ASSUME UnHilo, Inv, NEW f \in Paths, EscribirArchivo(Consola, f) \/ EliminarArchivo(Consola, f),
           UNCHANGED entrada
    PROVE  SigueAparte /\ actual.pc \notin Leyendo
<1>1. actual.pc \notin Leyendo
  BY DEF EscribirArchivo, EliminarArchivo, Order, At, actual, Leyendo
<1>2. CASE EscribirArchivo(Consola, f)
  <2>1. CASE UNCHANGED hilo
    BY <1>1, <1>2, <2>1 DEF EscribirArchivo, SigueAparte, blockVars
  <2>2. CASE Ends(Consola, "ARCHIVO_EXISTENTE")
    BY <1>1, <2>2, AparteFin DEF Resultados
  <2>3. CASE \E a : hilo' = [hilo EXCEPT ![Consola] = [Idle("NADA") EXCEPT !.pc = "reserva", !.path = f, !.activos = a]]
    <3>1. PICK a : hilo' = [hilo EXCEPT ![Consola] = [Idle("NADA") EXCEPT !.pc = "reserva", !.path = f, !.activos = a]]
      BY <2>3
    <3> DEFINE y == [Idle("NADA") EXCEPT !.pc = "reserva", !.path = f, !.activos = a]
    <3>2. y.pc = "reserva" /\ y.resultado = "NADA"
      BY DEF Idle
    <3> HIDE DEF y
    <3>3. y.pc \notin Leyendo /\ y.resultado # "LEIDO"
      BY <3>2 DEF Leyendo
    <3> QED
      BY <1>1, <3>1, <3>3, AparteCambia DEF y
  <2> QED
    BY <1>2, <2>1, <2>2, <2>3 DEF EscribirArchivo
<1>3. CASE EliminarArchivo(Consola, f)
  <2>1. CASE Ends(Consola, "NO_EXISTE")
    BY <1>1, <2>1, AparteFin DEF Resultados
  <2>2. CASE \E l : hilo' = [hilo EXCEPT ![Consola] = [Idle("NADA") EXCEPT !.pc = "libera", !.path = f, !.libera = l]]
    <3>1. PICK l : hilo' = [hilo EXCEPT ![Consola] = [Idle("NADA") EXCEPT !.pc = "libera", !.path = f, !.libera = l]]
      BY <2>2
    <3> DEFINE y == [Idle("NADA") EXCEPT !.pc = "libera", !.path = f, !.libera = l]
    <3>2. y.pc = "libera" /\ y.resultado = "NADA"
      BY DEF Idle
    <3> HIDE DEF y
    <3>3. y.pc \notin Leyendo /\ y.resultado # "LEIDO"
      BY <3>2 DEF Leyendo
    <3> QED
      BY <1>1, <3>1, <3>3, AparteCambia DEF y
  <2> QED
    BY <1>3, <2>1, <2>2 DEF EliminarArchivo
<1> QED
  BY <1>1, <1>2, <1>3

(* The steps of a reservation.                                             *)
LEMMA AparteReserva ==
    ASSUME UnHilo, Inv, LeeArchivo, UNCHANGED entrada,
           \/ \E n \in Nodes : ReserveBlock(Consola, n) \/ SkipNode(Consola, n) \/ NodeIsFull(Consola, n)
           \/ NoNodeLeft(Consola) \/ NoBitMap(Consola) \/ SinEspacio(Consola) \/ BlocksReserved(Consola)
    PROVE  SigueAparte /\ actual.pc \notin Leyendo
<1> DEFINE x == actual
<1>1. x.pc = "reserva" /\ x.pc \notin Leyendo /\ x \in LocalesDeHilo /\ x.resultado # "LEIDO"
  BY Solo DEF ReserveBlock, SkipNode, NodeIsFull, Reserving, NoNodeLeft, NoBitMap, SinEspacio,
     BlocksReserved, At, actual, Leyendo, LeeArchivo
<1>2. CASE NoBitMap(Consola)
  BY <1>1, <1>2 DEF NoBitMap, SigueAparte, blockVars
<1>3. CASE SinEspacio(Consola) \/ Ends(Consola, "SIN_CONTENIDO_ESCRIBIR")
  BY <1>1, <1>3, AparteFin DEF SinEspacio, Resultados
<1>4. CASE \E v1, v2, v3, v4 : hilo' = [hilo EXCEPT ![Consola].res = v1, ![Consola].j = v2,
                                             ![Consola].anterior = v3, ![Consola].saltear = v4]
  <2>1. PICK v1, v2, v3, v4 : hilo' = [hilo EXCEPT ![Consola].res = v1, ![Consola].j = v2,
                                             ![Consola].anterior = v3, ![Consola].saltear = v4]
    BY <1>4
  <2> DEFINE y == [x EXCEPT !.res = v1, !.j = v2, !.anterior = v3, !.saltear = v4]
  <2>2. hilo' = [hilo EXCEPT ![Consola] = y]
    BY <2>1, Zenon DEF actual
  <2>3. y.pc = x.pc /\ y.resultado = x.resultado
    BY <1>1 DEF LocalesDeHilo
  <2> HIDE DEF x, y
  <2> QED
    BY <1>1, <2>2, <2>3, AparteCambia DEF x
<1>5. CASE \E v1, v2 : hilo' = [hilo EXCEPT ![Consola].j = v1, ![Consola].saltear = v2]
  <2>1. PICK v1, v2 : hilo' = [hilo EXCEPT ![Consola].j = v1, ![Consola].saltear = v2]
    BY <1>5
  <2> DEFINE y == [x EXCEPT !.j = v1, !.saltear = v2]
  <2>2. hilo' = [hilo EXCEPT ![Consola] = y]
    BY <2>1, Zenon DEF actual
  <2>3. y.pc = x.pc /\ y.resultado = x.resultado
    BY <1>1 DEF LocalesDeHilo
  <2> HIDE DEF x, y
  <2> QED
    BY <1>1, <2>2, <2>3, AparteCambia DEF x
<1>6. CASE \E v : hilo' = [hilo EXCEPT ![Consola].saltear = v]
  <2>1. PICK v : hilo' = [hilo EXCEPT ![Consola].saltear = v]
    BY <1>6
  <2> DEFINE y == [x EXCEPT !.saltear = v]
  <2>2. hilo' = [hilo EXCEPT ![Consola] = y]
    BY <2>1, Zenon DEF actual
  <2>3. y.pc = x.pc /\ y.resultado = x.resultado
    BY <1>1 DEF LocalesDeHilo
  <2> HIDE DEF x, y
  <2> QED
    BY <1>1, <2>2, <2>3, AparteCambia DEF x
<1>7. CASE \E v : hilo' = [hilo EXCEPT ![Consola].j = v]
  <2>1. PICK v : hilo' = [hilo EXCEPT ![Consola].j = v]
    BY <1>7
  <2> DEFINE y == [x EXCEPT !.j = v]
  <2>2. hilo' = [hilo EXCEPT ![Consola] = y]
    BY <2>1, Zenon DEF actual
  <2>3. y.pc = x.pc /\ y.resultado = x.resultado
    BY <1>1 DEF LocalesDeHilo
  <2> HIDE DEF x, y
  <2> QED
    BY <1>1, <2>2, <2>3, AparteCambia DEF x
<1>8. CASE hilo' = [hilo EXCEPT ![Consola].pc = "escribe"]
  <2> DEFINE y == [x EXCEPT !.pc = "escribe"]
  <2>2. hilo' = [hilo EXCEPT ![Consola] = y]
    BY <1>8, Zenon DEF actual
  <2>3. y.pc = "escribe" /\ y.resultado = x.resultado
    BY <1>1 DEF LocalesDeHilo
  <2>4. "escribe" \notin Leyendo
    BY DEF Leyendo
  <2> HIDE DEF x, y
  <2> QED
    BY <1>1, <2>2, <2>3, <2>4, AparteCambia DEF x
<1>9. CASE \E n \in Nodes : ReserveBlock(Consola, n)
  <2>1. \E v1, v2, v3, v4 : hilo' = [hilo EXCEPT ![Consola].res = v1, ![Consola].j = v2,
                                             ![Consola].anterior = v3, ![Consola].saltear = v4]
    <3>1. PICK n \in Nodes : ReserveBlock(Consola, n)
      BY <1>9
    <3> DEFINE v1 == Append(hilo[Consola].res, Reserved(n, FirstOf(FreeOf(Consola, n))))
               v2 == hilo[Consola].j + 1
    <3>2. hilo' = [hilo EXCEPT ![Consola].res = v1, ![Consola].j = v2,
                               ![Consola].anterior = n, ![Consola].saltear = 0]
      BY <3>1, Zenon DEF ReserveBlock
    <3> HIDE DEF v1, v2
    <3> QED
      BY <3>2, Zenon
  <2> QED
    BY <1>4, <2>1
<1>10. CASE \E n \in Nodes : SkipNode(Consola, n)
  BY <1>6, <1>10, Zenon DEF SkipNode
<1>11. CASE \E n \in Nodes : NodeIsFull(Consola, n)
  BY <1>5, <1>11, Zenon DEF NodeIsFull
<1>12. CASE NoNodeLeft(Consola)
  BY <1>7, <1>12, Zenon DEF NoNodeLeft
<1>13. CASE BlocksReserved(Consola)
  BY <1>1, <1>3, <1>8, <1>13 DEF BlocksReserved
<1> QED
  BY <1>2, <1>3, <1>9, <1>10, <1>11, <1>12, <1>13

(* The steps of a write after its reservation, and of a removal.           *)
LEMMA AparteEscritura ==
    ASSUME UnHilo, Inv, LeeArchivo, UNCHANGED entrada,
           \/ AwaitWrite(Consola) \/ ActualizarConfigNodoEnBin(Consola)
           \/ CrearArchivoMetadata(Consola) \/ ActualizarBitMapBloques(Consola)
           \/ LiberarBloque(Consola) \/ GuardarLibre(Consola)
    PROVE  SigueAparte /\ actual.pc \notin Leyendo
<1> DEFINE x == actual
<1>1. x.pc \notin Leyendo /\ x \in LocalesDeHilo /\ x.resultado # "LEIDO"
  BY Solo DEF AwaitWrite, ActualizarConfigNodoEnBin, CrearArchivoMetadata, ActualizarBitMapBloques,
     LiberarBloque, GuardarLibre, At, actual, Leyendo, LeeArchivo
<1>2. CASE ActualizarBitMapBloques(Consola) \/ Ends(Consola, "ELIMINADO")
  BY <1>1, <1>2, AparteFin DEF ActualizarBitMapBloques, Resultados
<1>3. ASSUME NEW pc \in {"guarda", "guardaLibre"}, NEW v, hilo' = [hilo EXCEPT ![Consola].pc = pc, ![Consola].cfg = v]
      PROVE  SigueAparte /\ actual.pc \notin Leyendo
  <2> DEFINE y == [x EXCEPT !.pc = pc, !.cfg = v]
  <2>2. hilo' = [hilo EXCEPT ![Consola] = y]
    BY <1>3, Zenon DEF actual
  <2>3. y.pc = pc /\ y.resultado = x.resultado
    BY <1>1 DEF LocalesDeHilo
  <2>4. pc \notin Leyendo
    BY <1>3 DEF Leyendo
  <2> HIDE DEF x, y
  <2> QED
    BY <1>1, <2>2, <2>3, <2>4, AparteCambia DEF x
<1>4. ASSUME NEW pc \in {"metadata", "escribe"}, NEW v, NEW w, hilo' = [hilo EXCEPT ![Consola].i = v, ![Consola].cfg = w, ![Consola].pc = pc]
      PROVE  SigueAparte /\ actual.pc \notin Leyendo
  <2> DEFINE y == [x EXCEPT !.i = v, !.cfg = w, !.pc = pc]
  <2>2. hilo' = [hilo EXCEPT ![Consola] = y]
    BY <1>4, Zenon DEF actual
  <2>3. y.pc = pc /\ y.resultado = x.resultado
    BY <1>1 DEF LocalesDeHilo
  <2>4. pc \notin Leyendo
    BY <1>4 DEF Leyendo
  <2> HIDE DEF x, y
  <2> QED
    BY <1>1, <2>2, <2>3, <2>4, AparteCambia DEF x
<1>5. CASE \E v, w : hilo' = [hilo EXCEPT ![Consola].i = v, ![Consola].pc = "libera", ![Consola].cfg = w]
  <2>1. PICK v, w : hilo' = [hilo EXCEPT ![Consola].i = v, ![Consola].pc = "libera", ![Consola].cfg = w]
    BY <1>5
  <2> DEFINE y == [x EXCEPT !.i = v, !.pc = "libera", !.cfg = w]
  <2>2. hilo' = [hilo EXCEPT ![Consola] = y]
    BY <2>1, Zenon DEF actual
  <2>3. y.pc = "libera" /\ y.resultado = x.resultado
    BY <1>1 DEF LocalesDeHilo
  <2>4. "libera" \notin Leyendo
    BY DEF Leyendo
  <2> HIDE DEF x, y
  <2> QED
    BY <1>1, <2>2, <2>3, <2>4, AparteCambia DEF x
<1>6. CASE hilo' = [hilo EXCEPT ![Consola].pc = "bitmap"]
  <2> DEFINE y == [x EXCEPT !.pc = "bitmap"]
  <2>2. hilo' = [hilo EXCEPT ![Consola] = y]
    BY <1>6, Zenon DEF actual
  <2>3. y.pc = "bitmap" /\ y.resultado = x.resultado
    BY <1>1 DEF LocalesDeHilo
  <2>4. "bitmap" \notin Leyendo
    BY DEF Leyendo
  <2> HIDE DEF x, y
  <2> QED
    BY <1>1, <2>2, <2>3, <2>4, AparteCambia DEF x
<1>7. CASE AwaitWrite(Consola) \/ LiberarBloque(Consola)
  <2>1. \/ hilo' = [hilo EXCEPT ![Consola].pc = "guarda", ![Consola].cfg = nodosBin]
        \/ hilo' = [hilo EXCEPT ![Consola].pc = "guardaLibre", ![Consola].cfg = nodosBin]
    BY <1>7, Zenon DEF AwaitWrite, LiberarBloque
  <2> QED
    BY <1>3, <2>1
<1>8. CASE ActualizarConfigNodoEnBin(Consola)
  <2>1. PICK pc : /\ pc = IF actual.i = 2 * Len(BloquesDelHilo(Consola)) THEN "metadata" ELSE "escribe"
                  /\ hilo' = [hilo EXCEPT ![Consola].i = actual.i + 1, ![Consola].cfg = NULL, ![Consola].pc = pc]
    BY <1>8, Zenon DEF ActualizarConfigNodoEnBin, actual
  <2>2. pc \in {"metadata", "escribe"}
    BY <2>1
  <2> QED
    BY <1>4, <2>1, <2>2
<1>9. CASE CrearArchivoMetadata(Consola)
  BY <1>6, <1>9 DEF CrearArchivoMetadata
<1>10. CASE GuardarLibre(Consola)
  <2>1. Ends(Consola, "ELIMINADO") \/ \E v, w : hilo' = [hilo EXCEPT ![Consola].i = v, ![Consola].pc = "libera", ![Consola].cfg = w]
    BY <1>10, Zenon DEF GuardarLibre
  <2> QED
    BY <1>2, <1>5, <2>1
<1> QED
  BY <1>2, <1>7, <1>8, <1>9, <1>10

(* The sending of a block that is written.                                 *)
LEMMA AparteMandar ==
    ASSUME UnHilo, Inv, LeeArchivo, SendBlock(Consola)
    PROVE  /\ SigueAparte /\ actual.pc \notin Leyendo
           /\ \/ UNCHANGED entrada
              \/ \E n \in Nodes : \E p : /\ p \in Pedidos(n) /\ p.op = "SET_BLOQUE"
                                     /\ entrada' = [entrada EXCEPT ![n] = Append(@, p)]
<1> DEFINE x == actual
           nb == x.res[x.i]
           c == DataOf(x.path, x.i)
           p == SetBloque(nb.bloque, c)
           y == [x EXCEPT !.pc = "espera"]
<1>1. x.pc = "escribe" /\ x.pc \notin Leyendo /\ x \in LocalesDeHilo /\ x.resultado # "LEIDO"
      /\ ReservaBien(x)
  BY Solo DEF SendBlock, At, actual, Leyendo, LeeArchivo, Bien
<1>2. SendTo(nb.nodo, p, hilo' = [hilo EXCEPT ![Consola].pc = "espera"]) /\ UNCHANGED archivos
  BY Zenon DEF SendBlock, actual, blockVars
<1>3. nb \in Replica /\ c \in Datos
  <2>1. x.i \in Nat \ {0} /\ x.res \in Seq(Replica) /\ x.path \in Paths /\ x.i \in DOMAIN x.res
    BY <1>1, CamposDeHilo DEF ReservaBien, Escribiendo
  <2>2. nb \in Replica
    BY <2>1
  <2>3. c \in Datos
    <3> HIDE DEF x
    <3> QED
      BY <2>1, DatosSon
  <2> QED
    BY <2>2, <2>3
<1> HIDE DEF nb, c
<1>4. nb.nodo \in Nodes /\ p \in Pedidos(nb.nodo) /\ p.op = "SET_BLOQUE"
  BY <1>3, ReplicaEs DEF SetBloque, Pedidos
<1>5. ASSUME hilo' = [hilo EXCEPT ![Consola].pc = "espera"] PROVE SigueAparte
  <2>2. hilo' = [hilo EXCEPT ![Consola] = y]
    BY <1>5, Zenon DEF actual
  <2>3. y.pc = "espera" /\ y.resultado = x.resultado
    BY <1>1 DEF LocalesDeHilo
  <2>4. "espera" \notin Leyendo
    BY DEF Leyendo
  <2> HIDE DEF x, y
  <2> QED
    BY <1>1, <2>2, <2>3, <2>4, AparteCambia DEF x
<1>6. ASSUME UNCHANGED <<hilo, entrada>> PROVE SigueAparte
  BY <1>2, <1>6 DEF SigueAparte
<1>7. \/ UNCHANGED entrada
      \/ entrada' = [entrada EXCEPT ![nb.nodo] = Append(@, p)]
  BY <1>2 DEF SendTo
<1>8. SigueAparte
  BY <1>2, <1>5, <1>6 DEF SendTo
<1> HIDE DEF x, p
<1> QED
  BY <1>1, <1>4, <1>7, <1>8 DEF x

(* A step of a write or of a removal.                                      *)
NoLectora ==
    /\ SigueAparte /\ actual.pc \notin Leyendo
    /\ UNCHANGED <<lista, atencion, activo, vivo, disco, salida>>
    /\ \/ UNCHANGED entrada
       \/ \E n \in Nodes : \E p : /\ p \in Pedidos(n) /\ p.op = "SET_BLOQUE"
                              /\ entrada' = [entrada EXCEPT ![n] = Append(@, p)]

(* What a step of the console can be: of a write or a removal, or of a     *)
(* read.                                                                   *)
LEMMA NoLectoraEs ==
    ASSUME UnHilo, Inv, LeeArchivo, NEW t \in Hilos, Command(t) \/ ThreadStep(t)
    PROVE  \/ NoLectora
           \/ \E f \in Paths : LeerArchivo(Consola, f) /\ UNCHANGED dataNodeVars
           \/ ReadLocally(Consola) /\ UNCHANGED dataNodeVars
           \/ PedirBloque(Consola) /\ UNCHANGED <<vivo, disco, salida, muertes>>
<1>1. t = Consola
  BY Solo
<1>2. CASE \E f \in Paths : EscribirArchivo(Consola, f) /\ UNCHANGED <<lista, atencion, dataNodeVars>>
  <2>1. PICK f \in Paths : EscribirArchivo(Consola, f) /\ UNCHANGED <<lista, atencion, vivo, disco, salida, entrada>>
    BY <1>2 DEF dataNodeVars
  <2>2. SigueAparte /\ actual.pc \notin Leyendo
    BY <2>1, AparteOrden
  <2>3. UNCHANGED activo
    BY <2>1 DEF EscribirArchivo, EliminarArchivo
  <2> QED
    BY <2>1, <2>2, <2>3 DEF NoLectora
<1>3. CASE \E f \in Paths : EliminarArchivo(Consola, f) /\ UNCHANGED <<lista, atencion, dataNodeVars>>
  <2>1. PICK f \in Paths : EliminarArchivo(Consola, f) /\ UNCHANGED <<lista, atencion, vivo, disco, salida, entrada>>
    BY <1>3 DEF dataNodeVars
  <2>2. SigueAparte /\ actual.pc \notin Leyendo
    BY <2>1, AparteOrden
  <2>3. UNCHANGED activo
    BY <2>1 DEF EscribirArchivo, EliminarArchivo
  <2> QED
    BY <2>1, <2>2, <2>3 DEF NoLectora
<1>4. CASE WriteLocally(Consola) /\ UNCHANGED <<lista, atencion, dataNodeVars>>
  <2>1. UNCHANGED <<lista, atencion, vivo, disco, salida, entrada>>
    BY <1>4 DEF dataNodeVars
  <2>2. UNCHANGED activo
    BY <1>4 DEF WriteLocally, LiberarBloque, GuardarLibre, ReserveBlock, SkipNode, NodeIsFull,
                NoNodeLeft, NoBitMap, SinEspacio, BlocksReserved, AwaitWrite, ActualizarConfigNodoEnBin,
                CrearArchivoMetadata, ActualizarBitMapBloques
  <2>3. SigueAparte /\ actual.pc \notin Leyendo
    BY <1>4, <2>1, AparteReserva, AparteEscritura DEF WriteLocally
  <2> QED
    BY <2>1, <2>2, <2>3 DEF NoLectora
<1>5. CASE SendBlock(Consola) /\ UNCHANGED <<lista, atencion, vivo, disco, salida, muertes>>
  <2>1. UNCHANGED activo
    BY <1>5 DEF SendBlock
  <2> QED
    BY <1>5, <2>1, AparteMandar DEF NoLectora
<1>6. CASE Command(Consola)
  BY <1>2, <1>3, <1>6 DEF Command
<1>7. CASE ThreadStep(Consola)
  BY <1>4, <1>5, <1>7 DEF ThreadStep
<1> QED
  BY <1>1, <1>6, <1>7

-----------------------------------------------------------------------------
(* The steps of a read, one by one.                                        *)

(* The local variables that a read keeps until it ends.                    *)
MismaLectura ==
    /\ actual'.path = actual.path /\ actual'.info = actual.info
    /\ actual'.resultado = actual.resultado

(* LeerArchivo: the file is listed, and its blocks are kept.               *)
LEMMA LeerEs ==
    ASSUME UnHilo, Inv, NEW f \in Paths, LeerArchivo(Consola, f)
    PROVE  /\ actual.pc = "libre" /\ UNCHANGED <<archivos, activo, lista, atencion>>
           /\ \/ actual'.pc = "libre" /\ actual'.resultado = "NO_EXISTE"
              \/ /\ actual'.pc = "elige" /\ actual'.path = f /\ actual'.resultado = "NADA"
                 /\ archivos[f] # NULL /\ actual'.info = archivos[f].bloques
<1>1. actual.pc = "libre" /\ UNCHANGED <<archivos, activo, lista, atencion>>
  BY DEF LeerArchivo, Order, At, actual, blockVars
<1>2. CASE Ends(Consola, "NO_EXISTE")
  <2>1. actual' = Idle("NO_EXISTE")
    BY <1>2, FinOcioso DEF Resultados
  <2> QED
    BY <1>1, <2>1 DEF Idle
<1>3. CASE ~Ends(Consola, "NO_EXISTE")
  <2> DEFINE y == [Idle("NADA") EXCEPT !.pc = "elige", !.path = f, !.info = archivos[f].bloques]
  <2>1. archivos[f] # NULL /\ hilo' = [hilo EXCEPT ![Consola] = y]
    BY <1>3 DEF LeerArchivo
  <2>2. y.pc = "elige" /\ y.path = f /\ y.info = archivos[f].bloques /\ y.resultado = "NADA"
    BY DEF Idle
  <2> HIDE DEF y
  <2>3. actual' = y
    BY <2>1, Solo, ActualEs
  <2> QED
    BY <1>1, <2>1, <2>2, <2>3
<1> QED
  BY <1>2, <1>3

(* ElegirNodos: the list is new.                                           *)
LEMMA ElegirEs ==
    ASSUME UnHilo, Inv, ElegirNodos(Consola)
    PROVE  /\ actual.pc = "elige" /\ actual'.pc = "prepara" /\ MismaLectura /\ lista' = <<>>
           /\ UNCHANGED <<archivos, activo, atencion>>
<1> DEFINE x == actual
<1>1. x.pc = "elige" /\ lista' = <<>> /\ UNCHANGED <<archivos, activo, atencion>>
  BY DEF ElegirNodos, At, actual, blockVars
<1>2. PICK sel : hilo' = [hilo EXCEPT ![Consola] = [x EXCEPT !.pc = "prepara", !.sel = sel]]
  BY DEF ElegirNodos, actual
<1> DEFINE y == [x EXCEPT !.pc = "prepara", !.sel = sel]
<1>3. x \in LocalesDeHilo
  BY Solo
<1> HIDE DEF x
<1>4. y.pc = "prepara" /\ y.path = x.path /\ y.info = x.info /\ y.resultado = x.resultado
  BY <1>3 DEF LocalesDeHilo
<1>5. actual' = y
  BY <1>2, Solo, ActualEs
<1> HIDE DEF y
<1> QED
  BY <1>1, <1>4, <1>5 DEF MismaLectura, x

(* PrepararLectura: an entry for one more block.                           *)
LEMMA PrepararEs ==
    ASSUME UnHilo, Inv, PrepararLectura(Consola)
    PROVE  LET k == Len(lista) + 1
               e == Lectura(k, actual.sel[k])
           IN  /\ actual.pc = "prepara" /\ actual'.pc \in {"prepara", "pide"} /\ actual'.i = 1
               /\ MismaLectura /\ lista' = Append(lista, e) /\ lista \in Seq(Lecturas) /\ e \in Lecturas
               /\ actual'.sel = actual.sel /\ UNCHANGED <<archivos, activo, atencion>>
<1> DEFINE x == actual
           k == Len(lista) + 1
           e == Lectura(k, actual.sel[k])
<1>1. x.pc = "prepara" /\ lista' = Append(lista, e) /\ UNCHANGED <<archivos, activo, atencion>>
  BY DEF PrepararLectura, At, actual, blockVars
<1>2. PICK pc \in {"pide", "prepara"} : hilo' = [hilo EXCEPT ![Consola] = [x EXCEPT !.i = 1, !.pc = pc]]
  BY Zenon DEF PrepararLectura, actual
<1> DEFINE y == [x EXCEPT !.i = 1, !.pc = pc]
<1>3. x \in LocalesDeHilo /\ LecturaBien(x, lista) /\ x.sel \in Seq(Nodes)
  BY Solo, CamposDeHilo
<1>4. lista \in Seq(Lecturas) /\ e \in Lecturas
  <2>1. lista \in Seq(Lecturas) /\ Len(lista) < Len(x.sel)
    BY <1>1, <1>3 DEF LecturaBien, Leyendo
  <2>2. k \in Nat /\ x.sel[k] \in Nodes
    BY <1>3, <2>1
  <2> HIDE DEF k, x
  <2> QED
    BY <2>1, <2>2 DEF Lectura, Lecturas, x
<1> HIDE DEF x, e
<1>5. y.pc = pc /\ y.i = 1 /\ y.path = x.path /\ y.info = x.info /\ y.resultado = x.resultado /\ y.sel = x.sel
  BY <1>3 DEF LocalesDeHilo
<1>6. actual' = y
  BY <1>2, Solo, ActualEs
<1> HIDE DEF y
<1> QED
  BY <1>1, <1>4, <1>5, <1>6 DEF MismaLectura, x, e

(* ExcluirNodo: the node of the next request is not connected.             *)
LEMMA ExcluirEs ==
    ASSUME UnHilo, Inv, ExcluirNodo(Consola)
    PROVE  /\ actual.pc = "pide" /\ actual'.pc = "elige" /\ MismaLectura
           /\ UNCHANGED <<lista, archivos, activo, atencion>>
           /\ lista[actual.i].idNodo \in Nodes /\ ~activo[lista[actual.i].idNodo]
<1> DEFINE x == actual
<1>1. /\ x.pc = "pide" /\ ~activo[lista[x.i].idNodo] /\ UNCHANGED <<lista, archivos, activo, atencion>>
  BY DEF ExcluirNodo, At, actual, blockVars
<1>2. PICK exc : hilo' = [hilo EXCEPT ![Consola] = [x EXCEPT !.exc = exc, !.pc = "elige"]]
  BY Zenon DEF ExcluirNodo, actual
<1> DEFINE y == [x EXCEPT !.exc = exc, !.pc = "elige"]
<1>3. x \in LocalesDeHilo /\ lista[x.i].idNodo \in Nodes
  BY <1>1, Solo, EntradaDeLista DEF actual
<1> HIDE DEF x
<1>4. y.pc = "elige" /\ y.path = x.path /\ y.info = x.info /\ y.resultado = x.resultado
  BY <1>3 DEF LocalesDeHilo
<1>5. actual' = y
  BY <1>2, Solo, ActualEs
<1> HIDE DEF y
<1> QED
  BY <1>1, <1>3, <1>4, <1>5 DEF MismaLectura, x

(* The turn of the next block, in the requests and in the waits.           *)
ConTurno(x, pc) == [NextWait(x, Len(x.info)) EXCEPT !.pc = pc]

(* The turn passes to the next block, or to the first one.                 *)
LEMMA TurnoEs ==
    ASSUME UnHilo, Inv, NEW pc, actual.pc \in {"pide", "aguarda"},
           actual' = ConTurno(actual, pc)
    PROVE  /\ actual'.pc = pc /\ actual'.sel = actual.sel /\ MismaLectura
           /\ actual'.i = IF actual.i = Len(actual.info) THEN 1 ELSE actual.i + 1
<1> DEFINE x == actual
           i == IF x.i = Len(x.info) THEN 1 ELSE x.i + 1
           y == [x EXCEPT !.i = i, !.pc = pc]
           z == ConTurno(x, pc)
<1>1. x \in LocalesDeHilo
  BY Solo
<1>2. z = y
  BY <1>1 DEF NextWait, ConTurno, LocalesDeHilo
<1>3. actual' = z
  OBVIOUS
<1> HIDE DEF x, i, z
<1>4. y.pc = pc /\ y.i = i /\ y.path = x.path /\ y.info = x.info /\ y.resultado = x.resultado /\ y.sel = x.sel
  BY <1>1 DEF LocalesDeHilo
<1> HIDE DEF y
<1> QED
  BY <1>2, <1>3, <1>4 DEF MismaLectura, x, i

(* PedirBloque: the request for the replica of the node, and the turn.     *)
LEMMA PedirEs ==
    ASSUME UnHilo, Inv, PedirBloque(Consola)
    PROVE  LET i == actual.i
               n == lista[i].idNodo
               p == GetBloque(IdBloqueOn(actual.info[i], n), i)
               last == Len(actual.info)
           IN  /\ actual.pc = "pide" /\ n \in Nodes /\ activo[n] /\ UNCHANGED <<lista, archivos, activo, atencion>>
               /\ p \in Pedidos(n) /\ lista \in Seq(Lecturas) /\ i \in DOMAIN lista /\ i \in DOMAIN actual.info
               /\ actual.info[i] \in Bloques /\ n \in HoldersOf(actual.info[i])
               /\ \/ UNCHANGED <<hilo, entrada>>
                  \/ /\ \/ vivo[n] /\ entrada' = [entrada EXCEPT ![n] = Append(@, p)]
                        \/ ~vivo[n] /\ UNCHANGED entrada
                     /\ actual'.pc = (IF i = last THEN "aguarda" ELSE "pide")
                     /\ actual'.i = IF i = last THEN 1 ELSE i + 1
                     /\ MismaLectura /\ actual'.sel = actual.sel
<1> DEFINE x == actual
           n == lista[x.i].idNodo
           bi == x.info[x.i]
           id == IdBloqueOn(bi, n)
           p == GetBloque(id, x.i)
           last == Len(x.info)
           pc == IF x.i = last THEN "aguarda" ELSE "pide"
<1>1. /\ x.pc = "pide" /\ activo[n] /\ UNCHANGED <<lista, archivos, activo, atencion>>
      /\ SendTo(n, p, hilo' = [hilo EXCEPT ![Consola] = [NextWait(actual, last) EXCEPT !.pc = pc]])
  BY Zenon DEF PedirBloque, At, actual, blockVars, BloquesLeidos
<1>2. /\ n \in Nodes /\ n \in HoldersOf(bi) /\ bi \in Bloques /\ x.i \in 1 .. Len(x.info)
      /\ lista \in Seq(Lecturas) /\ x.i \in DOMAIN lista /\ x.info \in Seq(Bloques)
  BY <1>1, Solo, EntradaDeLista, LeyendoEs DEF actual, Leyendo
<1>3. x.i \in DOMAIN x.info /\ x.i \in Nat
  BY <1>2
<1> HIDE DEF n, bi
<1>4. p \in Pedidos(n)
  <2>1. /\ bi.copias[1] \in Replica /\ bi.copias[2] \in Replica
        /\ n \in {bi.copias[1].nodo, bi.copias[2].nodo}
    <3>1. 1 \in 1 .. 2 /\ 2 \in 1 .. 2
      OBVIOUS
    <3> QED
      BY <1>2, <3>1, BloqueEs
  <2>2. id \in BlocksOf(n)
    BY <2>1 DEF IdBloqueOn, Replica
  <2> HIDE DEF id, x
  <2> QED
    BY <1>3, <2>2 DEF GetBloque, Pedidos
<1> HIDE DEF p
<1>5. ASSUME hilo' = [hilo EXCEPT ![Consola] = [NextWait(actual, last) EXCEPT !.pc = pc]]
      PROVE  actual'.pc = pc /\ actual'.i = (IF x.i = last THEN 1 ELSE x.i + 1) /\ MismaLectura /\ actual'.sel = x.sel
  <2>1. PICK c : c = pc
    OBVIOUS
  <2> HIDE DEF pc
  <2>2. actual' = ConTurno(actual, c)
    <3> DEFINE y == ConTurno(actual, c)
    <3>1. hilo' = [hilo EXCEPT ![Consola] = y]
      BY <1>5, <2>1 DEF ConTurno
    <3> HIDE DEF y
    <3>2. actual' = y
      BY <3>1, Solo, ActualEs
    <3> QED
      BY <3>2 DEF y
  <2>3. actual.pc \in {"pide", "aguarda"}
    BY <1>1
  <2>4. /\ actual'.pc = c /\ actual'.sel = actual.sel /\ MismaLectura
        /\ actual'.i = IF actual.i = Len(actual.info) THEN 1 ELSE actual.i + 1
    BY <2>2, <2>3, TurnoEs
  <2> QED
    BY <2>1, <2>4 DEF x
<1>6. \/ UNCHANGED <<hilo, entrada>>
      \/ /\ \/ vivo[n] /\ entrada' = [entrada EXCEPT ![n] = Append(@, p)]
            \/ ~vivo[n] /\ UNCHANGED entrada
         /\ actual'.pc = pc /\ actual'.i = (IF x.i = last THEN 1 ELSE x.i + 1) /\ MismaLectura /\ actual'.sel = x.sel
  <2> HIDE DEF pc, last, x
  <2> QED
    BY <1>1, <1>5, Zenon DEF SendTo
<1> HIDE DEF pc, x
<1> QED
  BY <1>1, <1>2, <1>3, <1>4, <1>6 DEF pc, p, n, bi, x

(* EsperarLectura: one answer of the entry is taken, and the turn.         *)
LEMMA EsperarEs ==
    ASSUME UnHilo, Inv, EsperarLectura(Consola)
    PROVE  LET i == actual.i
               last == Len(actual.info)
           IN  /\ actual.pc = "aguarda" /\ UNCHANGED <<archivos, activo, atencion>>
               /\ lista \in Seq(Lecturas) /\ i \in DOMAIN lista /\ Len(lista) = last /\ i \in 1 .. last
               /\ lista[i].oks > 0 /\ lista' = [lista EXCEPT ![i] = [lista[i] EXCEPT !.oks = @ - 1]]
               /\ actual'.pc = (IF i = last THEN "revisa" ELSE "aguarda")
               /\ actual'.i = IF i = last THEN 1 ELSE i + 1
               /\ MismaLectura /\ actual'.sel = actual.sel
<1> DEFINE x == actual
           last == Len(x.info)
           pc == IF x.i = last THEN "revisa" ELSE "aguarda"
           e == [lista[x.i] EXCEPT !.oks = @ - 1]
<1>1. /\ x.pc = "aguarda" /\ lista[x.i].oks > 0 /\ UNCHANGED <<archivos, activo, atencion>>
      /\ lista' = [lista EXCEPT ![x.i] = e]
  BY DEF EsperarLectura, At, actual, blockVars
<1>2. hilo' = [hilo EXCEPT ![Consola] = [NextWait(actual, last) EXCEPT !.pc = pc]]
  BY Zenon DEF EsperarLectura, actual, BloquesLeidos
<1>3. lista \in Seq(Lecturas) /\ x.i \in DOMAIN lista /\ Len(lista) = last /\ x.i \in 1 .. last
  BY <1>1, Solo, EntradaDeLista DEF actual
<1>4. actual'.pc = pc /\ actual'.i = (IF x.i = last THEN 1 ELSE x.i + 1) /\ MismaLectura /\ actual'.sel = x.sel
  <2>1. PICK c : c = pc
    OBVIOUS
  <2> HIDE DEF pc
  <2>2. actual' = ConTurno(actual, c)
    <3> DEFINE y == ConTurno(actual, c)
    <3>1. hilo' = [hilo EXCEPT ![Consola] = y]
      BY <1>2, <2>1 DEF ConTurno
    <3> HIDE DEF y
    <3>2. actual' = y
      BY <3>1, Solo, ActualEs
    <3> QED
      BY <3>2 DEF y
  <2>3. actual.pc \in {"pide", "aguarda"}
    BY <1>1
  <2>4. /\ actual'.pc = c /\ actual'.sel = actual.sel /\ MismaLectura
        /\ actual'.i = IF actual.i = Len(actual.info) THEN 1 ELSE actual.i + 1
    BY <2>2, <2>3, TurnoEs
  <2> QED
    BY <2>1, <2>4 DEF x
<1> HIDE DEF x
<1> QED
  BY <1>1, <1>3, <1>4 DEF x

(* RevisarLectura: no entry failed, or the read ends.                      *)
LEMMA RevisarEs ==
    ASSUME UnHilo, Inv, RevisarLectura(Consola)
    PROVE  /\ actual.pc = "revisa" /\ UNCHANGED <<lista, archivos, activo, atencion>>
           /\ \/ actual'.pc = "libre" /\ actual'.resultado = "NODO_DESCONECTADO"
              \/ /\ \A i \in DOMAIN lista : ~lista[i].fallo
                 /\ actual'.pc = "arma" /\ MismaLectura /\ actual'.sel = actual.sel
<1> DEFINE x == actual
<1>1. x.pc = "revisa" /\ UNCHANGED <<lista, archivos, activo, atencion>>
  BY DEF RevisarLectura, At, actual, blockVars
<1>2. CASE Ends(Consola, "NODO_DESCONECTADO")
  <2>1. actual' = Idle("NODO_DESCONECTADO")
    BY <1>2, FinOcioso DEF Resultados
  <2> QED
    BY <1>1, <2>1 DEF Idle
<1>3. CASE ~SomeReadFailed /\ hilo' = [hilo EXCEPT ![Consola].pc = "arma"]
  <2> DEFINE y == [x EXCEPT !.pc = "arma"]
  <2>1. hilo' = [hilo EXCEPT ![Consola] = y]
    BY <1>3, Zenon DEF actual
  <2>2. x \in LocalesDeHilo
    BY Solo
  <2> HIDE DEF x
  <2>3. y.pc = "arma" /\ y.path = x.path /\ y.info = x.info /\ y.resultado = x.resultado /\ y.sel = x.sel
    BY <2>2 DEF LocalesDeHilo
  <2>4. actual' = y
    BY <2>1, Solo, ActualEs
  <2> HIDE DEF y
  <2> QED
    BY <1>1, <1>3, <2>3, <2>4 DEF MismaLectura, SomeReadFailed, x
<1> QED
  BY <1>2, <1>3 DEF RevisarLectura

(* ArmarRespuesta: what was read is what the entries hold.                 *)
LEMMA ArmarEs ==
    ASSUME UnHilo, Inv, ArmarRespuesta(Consola)
    PROVE  /\ actual.pc = "arma" /\ lista' = NULL /\ UNCHANGED <<archivos, activo, atencion>>
           /\ actual'.pc = "libre" /\ actual'.path = actual.path /\ actual'.resultado = "LEIDO"
           /\ actual'.leido = [i \in DOMAIN lista |-> lista[i].lectura]
<1> DEFINE leido == [i \in DOMAIN lista |-> lista[i].lectura]
           y == [Idle("LEIDO") EXCEPT !.path = actual.path, !.leido = leido]
<1>1. /\ actual.pc = "arma" /\ lista' = NULL /\ UNCHANGED <<archivos, activo, atencion>>
      /\ hilo' = [hilo EXCEPT ![Consola] = y]
  BY DEF ArmarRespuesta, At, actual, blockVars
<1> HIDE DEF leido
<1>2. y.pc = "libre" /\ y.path = actual.path /\ y.leido = leido /\ y.resultado = "LEIDO"
  BY DEF Idle
<1>3. actual' = y
  BY <1>1, Solo, ActualEs
<1> HIDE DEF y
<1> QED
  BY <1>1, <1>2, <1>3 DEF leido

(* NoHayNodos: the read ends.                                              *)
LEMMA NoHayEs ==
    ASSUME UnHilo, Inv, NoHayNodos(Consola)
    PROVE  /\ actual.pc = "elige" /\ UNCHANGED <<lista, archivos, activo, atencion>>
           /\ actual'.pc = "libre" /\ actual'.resultado = "NODO_DESCONECTADO"
<1>1. /\ actual.pc = "elige" /\ UNCHANGED <<lista, archivos, activo, atencion>>
      /\ Ends(Consola, "NODO_DESCONECTADO")
  BY DEF NoHayNodos, At, actual, blockVars
<1>2. actual' = Idle("NODO_DESCONECTADO")
  BY <1>1, FinOcioso DEF Resultados
<1> QED
  BY <1>1, <1>2 DEF Idle

(* The nodes and their threads leave the command alone.                    *)
LEMMA NodosAparte ==
    ASSUME NEW n \in Nodes, Atender(n) \/ NodeStep(n) \/ NodeLost(n)
    PROVE  UNCHANGED <<hilo, archivos>> /\ actual' = actual
<1>1. UNCHANGED <<hilo, archivos>>
  BY DEF Atender, EscrituraOk, LecturaOk, LecturaSinLista, PedidoInvalido, NodoDesconectado,
         EliminarNodo, blockVars, NodeStep, NodeLost, fsVars
<1> QED
  BY <1>1 DEF actual

(* Every step preserves LeeArchivo: what is read stays listed.             *)
LEMMA LeeArchivoSigue ==
    ASSUME UnHilo, Inv, LeeArchivo, [Next]_vars
    PROVE  LeeArchivo'
<1>1. ASSUME UNCHANGED <<hilo, archivos>> PROVE LeeArchivo'
  BY <1>1 DEF LeeArchivo, actual
<1>2. ASSUME actual'.pc \notin Leyendo, actual'.resultado # "LEIDO" PROVE LeeArchivo'
  BY <1>2 DEF LeeArchivo
<1>3. ASSUME actual.pc \in Leyendo, MismaLectura, UNCHANGED archivos, actual'.pc \in Leyendo PROVE LeeArchivo'
  <2>1. actual.pc # "libre"
    BY <1>3 DEF Leyendo
  <2> QED
    BY <1>3, <2>1 DEF LeeArchivo, MismaLectura
<1>4. CASE NoLectora
  BY <1>1, <1>2, <1>4 DEF NoLectora, SigueAparte
<1>5. CASE \E f \in Paths : LeerArchivo(Consola, f)
  <2>1. PICK f \in Paths : LeerArchivo(Consola, f)
    BY <1>5
  <2> QED
    BY <2>1, LeerEs DEF LeeArchivo, Leyendo
<1>6. CASE ReadLocally(Consola)
  <2>1. CASE ElegirNodos(Consola)
    BY <1>3, <2>1, ElegirEs DEF Leyendo
  <2>2. CASE NoHayNodos(Consola)
    BY <1>2, <2>2, NoHayEs DEF Leyendo
  <2>3. CASE PrepararLectura(Consola)
    BY <1>3, <2>3, PrepararEs DEF Leyendo
  <2>4. CASE ExcluirNodo(Consola)
    BY <1>3, <2>4, ExcluirEs DEF Leyendo
  <2>5. CASE EsperarLectura(Consola)
    BY <1>3, <2>5, EsperarEs DEF Leyendo
  <2>6. CASE RevisarLectura(Consola)
    BY <1>2, <1>3, <2>6, RevisarEs DEF Leyendo
  <2>7. CASE ArmarRespuesta(Consola)
    BY <2>7, ArmarEs DEF Leyendo, LeeArchivo
  <2> QED
    BY <1>6, <2>1, <2>2, <2>3, <2>4, <2>5, <2>6, <2>7 DEF ReadLocally
<1>7. CASE PedirBloque(Consola)
  BY <1>1, <1>3, <1>7, PedirEs DEF Leyendo
<1>8. ASSUME NEW t \in Hilos, Command(t) \/ ThreadStep(t) PROVE LeeArchivo'
  BY <1>4, <1>5, <1>6, <1>7, <1>8, NoLectoraEs
<1>9. ASSUME NEW n \in Nodes, Atender(n) \/ NodeStep(n) \/ NodeLost(n) PROVE LeeArchivo'
  BY <1>1, <1>9, NodosAparte
<1>10. CASE UNCHANGED vars
  BY <1>1, <1>10 DEF vars, fsVars, blockVars
<1> QED
  BY <1>8, <1>9, <1>10 DEF Next

(* The steps of the console leave the connections alone.                   *)
LEMMA HiloConectado ==
    ASSUME UnHilo, Inv, LeeArchivo, NEW t \in Hilos, Command(t) \/ ThreadStep(t)
    PROVE  UNCHANGED <<vivo, disco, salida, activo, atencion>>
<1>1. CASE NoLectora
  BY <1>1 DEF NoLectora
<1>2. CASE \E f \in Paths : LeerArchivo(Consola, f) /\ UNCHANGED dataNodeVars
  <2>1. PICK f \in Paths : LeerArchivo(Consola, f) /\ UNCHANGED dataNodeVars
    BY <1>2
  <2> QED
    BY <2>1, LeerEs DEF dataNodeVars
<1>3. CASE ReadLocally(Consola) /\ UNCHANGED dataNodeVars
  BY <1>3, ElegirEs, NoHayEs, PrepararEs, ExcluirEs, EsperarEs, RevisarEs, ArmarEs DEF ReadLocally, dataNodeVars
<1>4. CASE PedirBloque(Consola) /\ UNCHANGED <<vivo, disco, salida, muertes>>
  BY <1>4, PedirEs
<1> QED
  BY <1>1, <1>2, <1>3, <1>4, NoLectoraEs

(* Every step preserves Conectados.                                        *)
LEMMA ConectadosSigue ==
    ASSUME UnHilo, Inv, LeeArchivo, Conectados, [Next]_vars
    PROVE  Conectados'
<1>1. ASSUME NEW t \in Hilos, Command(t) \/ ThreadStep(t) PROVE Conectados'
  BY <1>1, HiloConectado DEF Conectados
<1>2. ASSUME NEW n \in Nodes, Atender(n) \/ NodeStep(n) \/ NodeLost(n) PROVE Conectados'
  BY <1>2, ConectadosNodo
<1>3. CASE UNCHANGED vars
  BY <1>3 DEF vars, fsVars, dataNodeVars, Conectados
<1> QED
  BY <1>1, <1>2, <1>3 DEF Next

-----------------------------------------------------------------------------
(* Every answer brings something: a block that is asked for was written    *)
(* before, or is being written by a request in front.                      *)
Escrito(n, b, k) ==
    disco[n][b] # NULL \/ \E j \in DOMAIN entrada[n] : j < k /\ EsSet(entrada[n][j], b)
SeLeeLoEscrito ==
    /\ \A n \in Nodes : \A k \in DOMAIN entrada[n] :
          entrada[n][k].op = "GET_BLOQUE" => Escrito(n, entrada[n][k].idBloque, k)
    /\ \A n \in Nodes : \A k \in DOMAIN salida[n] :
          salida[n][k].op = "GET_BLOQUE_OK" => salida[n][k].contenido # NULL

(* The queue of a node that is sent a request.                             *)
LEMMA QuedaMandada ==
    ASSUME Inv, NEW n \in Nodes, NEW p \in Pedidos(n), entrada' = [entrada EXCEPT ![n] = Append(@, p)],
           NEW m \in Nodes
    PROVE  /\ m # n => entrada'[m] = entrada[m]
           /\ Len(entrada[n]) \in Nat /\ \A k \in DOMAIN entrada[m] : k \in 1 .. Len(entrada[m])
           /\ \A k \in DOMAIN entrada[m] : k \in DOMAIN entrada'[m] /\ entrada'[m][k] = entrada[m][k]
           /\ \A k \in DOMAIN entrada'[m] : \/ k \in DOMAIN entrada[m] /\ entrada'[m][k] = entrada[m][k]
                                            \/ m = n /\ k = Len(entrada[n]) + 1 /\ entrada'[m][k] = p
<1>1. /\ entrada[m] \in Seq(Pedidos(m)) /\ entrada[n] \in Seq(Pedidos(n))
      /\ entrada = [k \in Nodes |-> entrada[k]]
  BY PedidosSon
<1>2. Len(entrada[n]) \in Nat /\ \A k \in DOMAIN entrada[m] : k \in 1 .. Len(entrada[m])
  BY <1>1
<1>3. CASE m # n
  <2>1. entrada'[m] = entrada[m]
    BY <1>1, <1>3
  <2> QED
    BY <1>2, <1>3, <2>1
<1>4. CASE m = n
  <2>1. entrada'[m] = Append(entrada[m], p)
    BY <1>1, <1>4
  <2> QED
    BY <1>1, <1>2, <1>4, <2>1, ColaSon
<1> QED
  BY <1>3, <1>4

(* The queue of a node that serves its first request.                      *)
LEMMA QuedaServida ==
    ASSUME Inv, NEW n \in Nodes, entrada[n] # <<>>, entrada' = [entrada EXCEPT ![n] = Tail(@)],
           NEW m \in Nodes
    PROVE  /\ m # n => entrada'[m] = entrada[m]
           /\ 1 \in DOMAIN entrada[n] /\ Head(entrada[n]) = entrada[n][1]
           /\ entrada[n][1] \in Pedidos(n)
           /\ \A k \in DOMAIN entrada'[n] : k \in Nat \ {0} /\ k + 1 \in DOMAIN entrada[n]
                                            /\ entrada'[n][k] = entrada[n][k + 1]
           /\ \A k \in DOMAIN entrada[n] : k \in Nat \ {0} /\ (k # 1 => k - 1 \in DOMAIN entrada'[n]
                                                                 /\ entrada'[n][k - 1] = entrada[n][k])
<1>1. /\ entrada[n] \in Seq(Pedidos(n)) /\ entrada = [k \in Nodes |-> entrada[k]]
  BY PedidosSon
<1>2. entrada'[n] = Tail(entrada[n]) /\ (m # n => entrada'[m] = entrada[m])
  BY <1>1
<1> DEFINE s == entrada[n]
           u == entrada'[n]
<1> HIDE DEF s, u
<1>3. s \in Seq(Pedidos(n)) /\ s # <<>> /\ u = Tail(s)
  BY <1>1, <1>2 DEF s, u
<1>4. /\ 1 \in DOMAIN s /\ Head(s) = s[1] /\ s[1] \in Pedidos(n)
      /\ \A k \in DOMAIN u : k \in Nat \ {0} /\ k + 1 \in DOMAIN s /\ u[k] = s[k + 1]
      /\ \A k \in DOMAIN s : k \in Nat \ {0} /\ (k # 1 => k - 1 \in DOMAIN u /\ u[k - 1] = s[k])
  BY <1>3
<1> QED
  BY <1>2, <1>4 DEF s, u

(* A request is sent: what was written in front of a read stays there.     *)
LEMMA EscritoMandado ==
    ASSUME Inv, SeLeeLoEscrito, NEW n \in Nodes, NEW p \in Pedidos(n),
           entrada' = [entrada EXCEPT ![n] = Append(@, p)], UNCHANGED <<disco, salida>>,
           p.op = "GET_BLOQUE" => Escrito(n, p.idBloque, Len(entrada[n]) + 1)
    PROVE  SeLeeLoEscrito'
<1>1. ASSUME NEW m \in Nodes, NEW b, NEW k, Escrito(m, b, k)
      PROVE  Escrito(m, b, k)'
  <2>1. \A j \in DOMAIN entrada[m] : j \in DOMAIN entrada'[m] /\ entrada'[m][j] = entrada[m][j]
    BY QuedaMandada
  <2> QED
    BY <1>1, <2>1 DEF Escrito
<1>2. ASSUME NEW m \in Nodes, NEW k \in DOMAIN entrada'[m], entrada'[m][k].op = "GET_BLOQUE"
      PROVE  Escrito(m, entrada[m][k].idBloque, k)'
  <2>1. CASE k \in DOMAIN entrada[m] /\ entrada'[m][k] = entrada[m][k]
    <3>1. Escrito(m, entrada[m][k].idBloque, k)
      BY <1>2, <2>1 DEF SeLeeLoEscrito
    <3>2. PICK b : b = entrada[m][k].idBloque
      OBVIOUS
    <3>3. Escrito(m, b, k)
      BY <3>1, <3>2 DEF Escrito
    <3>4. Escrito(m, b, k)'
      BY <1>1, <3>3
    <3> QED
      BY <2>1, <3>2, <3>4 DEF Escrito
  <2>2. CASE m = n /\ k = Len(entrada[n]) + 1 /\ entrada'[m][k] = p
    <3>1. PICK j : j = Len(entrada[n]) + 1
      OBVIOUS
    <3>2. Escrito(n, p.idBloque, j)
      BY <1>2, <2>2, <3>1
    <3>3. Escrito(n, p.idBloque, j)'
      BY <1>1, <3>2
    <3> QED
      BY <2>2, <3>1, <3>3
  <2> QED
    BY <1>2, <2>1, <2>2, QuedaMandada
<1>3. ASSUME NEW m \in Nodes, NEW k \in DOMAIN salida'[m], salida'[m][k].op = "GET_BLOQUE_OK"
      PROVE  salida'[m][k].contenido # NULL
  BY <1>3 DEF SeLeeLoEscrito
<1> QED
  BY <1>2, <1>3 DEF SeLeeLoEscrito

(* A node serves its first request.                                        *)
LEMMA EscritoServido ==
    ASSUME Inv, SeLeeLoEscrito, NEW n \in Nodes, NodeStep(n)
    PROVE  SeLeeLoEscrito'
<1> DEFINE p == entrada[n][1]
<1>1. /\ entrada[n] # <<>> /\ entrada' = [entrada EXCEPT ![n] = Tail(@)]
      /\ disco = [k \in Nodes |-> disco[k]]
  BY PedidosSon DEF NodeStep, SetBlock, GetBlock, Request, Answer
<1>2. /\ p = Head(entrada[n]) /\ p \in Pedidos(n) /\ 1 \in DOMAIN entrada[n]
      /\ \A k \in DOMAIN entrada'[n] : k \in Nat \ {0} /\ k + 1 \in DOMAIN entrada[n]
                                       /\ entrada'[n][k] = entrada[n][k + 1]
      /\ \A k \in DOMAIN entrada[n] : k \in Nat \ {0} /\ (k # 1 => k - 1 \in DOMAIN entrada'[n]
                                                            /\ entrada'[n][k - 1] = entrada[n][k])
      /\ \A m \in Nodes : m # n => entrada'[m] = entrada[m]
  BY <1>1, QuedaServida
<1>3. PICK q : q = p
  OBVIOUS
<1>4. /\ p.op = "SET_BLOQUE" => /\ q.idBloque \in BlocksOf(n) /\ q.contenido # NULL
                                /\ disco' = [disco EXCEPT ![n][q.idBloque] = q.contenido]
      /\ p.op # "SET_BLOQUE" => disco' = disco
      /\ p.op \in {"SET_BLOQUE", "GET_BLOQUE"}
  <2>1. CASE SetBlock(n)
    <3>1. Request(n, "SET_BLOQUE") /\ disco' = [disco EXCEPT ![n][q.idBloque] = q.contenido]
      BY <1>2, <1>3, <2>1 DEF SetBlock
    <3>2. q.idBloque \in BlocksOf(n) /\ q.contenido \in Datos /\ p.op = "SET_BLOQUE"
      BY <1>2, <1>3, <3>1, PedidoLeido
    <3> QED
      BY <3>1, <3>2, FileSystemAssumption
  <2>2. CASE GetBlock(n)
    <3>1. p.op = "GET_BLOQUE" /\ disco' = disco
      BY <1>2, <2>2 DEF GetBlock, Request
    <3> QED
      BY <3>1
  <2> QED
    BY <2>1, <2>2 DEF NodeStep
<1> HIDE DEF p
<1>5. ASSUME NEW m \in Nodes, NEW b \in BlocksOf(m)
      PROVE  /\ disco[m][b] # NULL => disco'[m][b] # NULL
             /\ m = n /\ EsSet(p, b) => disco'[m][b] # NULL
             /\ ~(m = n /\ EsSet(p, b)) => disco'[m][b] = disco[m][b]
  <2>1. disco[m] \in [BlocksOf(m) -> Datos \cup {NULL}] /\ disco[n] \in [BlocksOf(n) -> Datos \cup {NULL}]
    BY PedidosSon
  <2>2. CASE p.op = "SET_BLOQUE"
    <3>1. disco' = [disco EXCEPT ![n][q.idBloque] = q.contenido] /\ q.idBloque \in BlocksOf(n) /\ q.contenido # NULL
      BY <1>4, <2>2
    <3>2. EsSet(p, b) <=> q.idBloque = b
      BY <1>3, <2>2 DEF EsSet
    <3>3. disco'[m][b] = IF m = n /\ q.idBloque = b THEN q.contenido ELSE disco[m][b]
      BY <1>1, <2>1, <3>1
    <3> QED
      BY <3>1, <3>2, <3>3
  <2>3. CASE p.op # "SET_BLOQUE"
    BY <1>4, <2>3 DEF EsSet
  <2> QED
    BY <2>2, <2>3
<1>6. ASSUME NEW b \in BlocksOf(n), NEW k \in Nat \ {0}, Escrito(n, b, k + 1)
      PROVE  Escrito(n, b, k)'
  <2>1. CASE disco[n][b] # NULL
    BY <1>5, <2>1 DEF Escrito
  <2>2. CASE \E j \in DOMAIN entrada[n] : j < k + 1 /\ EsSet(entrada[n][j], b)
    <3>1. PICK j \in DOMAIN entrada[n] : j < k + 1 /\ EsSet(entrada[n][j], b)
      BY <2>2
    <3>2. CASE j = 1
      BY <1>5, <3>1, <3>2 DEF Escrito, p
    <3>3. CASE j # 1
      <4>1. j \in Nat \ {0} /\ j - 1 \in DOMAIN entrada'[n] /\ entrada'[n][j - 1] = entrada[n][j]
        BY <1>2, <3>3
      <4>2. j - 1 < k
        BY <3>1, <4>1
      <4> QED
        BY <3>1, <4>1, <4>2 DEF Escrito
    <3> QED
      BY <3>2, <3>3
  <2> QED
    BY <1>6, <2>1, <2>2 DEF Escrito
<1>7. ASSUME NEW m \in Nodes, NEW k \in DOMAIN entrada'[m], entrada'[m][k].op = "GET_BLOQUE"
      PROVE  Escrito(m, entrada[m][k].idBloque, k)'
  <2>1. CASE m = n
    <3>1. k \in Nat \ {0} /\ k + 1 \in DOMAIN entrada[n] /\ entrada'[n][k] = entrada[n][k + 1]
      BY <1>2, <1>7, <2>1
    <3>2. PICK b : b = entrada[n][k + 1].idBloque
      OBVIOUS
    <3>3. Escrito(n, b, k + 1)
      BY <1>7, <2>1, <3>1, <3>2 DEF SeLeeLoEscrito
    <3>4. b \in BlocksOf(n)
      <4>1. entrada[n] \in Seq(Pedidos(n))
        BY PedidosSon
      <4>2. entrada[n][k + 1] \in Pedidos(n)
        BY <3>1, <4>1
      <4> QED
        BY <3>2, <4>2 DEF Pedidos
    <3>5. Escrito(n, b, k)'
      BY <1>6, <3>1, <3>3, <3>4
    <3> QED
      BY <2>1, <3>1, <3>2, <3>5
  <2>2. CASE m # n
    <3>1. entrada'[m] = entrada[m]
      BY <1>2, <2>2
    <3>2. Escrito(m, entrada[m][k].idBloque, k)
      BY <1>7, <3>1 DEF SeLeeLoEscrito
    <3>3. entrada[m][k].idBloque \in BlocksOf(m)
      <4>1. entrada[m] \in Seq(Pedidos(m))
        BY PedidosSon
      <4>2. entrada[m][k] \in Pedidos(m)
        BY <1>7, <3>1, <4>1
      <4> QED
        BY <4>2 DEF Pedidos
    <3>4. disco'[m][entrada[m][k].idBloque] = disco[m][entrada[m][k].idBloque]
      BY <1>5, <2>2, <3>3
    <3> QED
      BY <3>1, <3>2, <3>4 DEF Escrito
  <2> QED
    BY <2>1, <2>2
<1>8. PICK a \in Respuestas : Answer(n, a) /\ (a.op = "GET_BLOQUE_OK" => a.contenido # NULL)
  <2>1. CASE SetBlock(n)
    <3>1. SetBloqueOk \in Respuestas /\ SetBloqueOk.op # "GET_BLOQUE_OK"
      BY DEF SetBloqueOk, Respuestas
    <3> QED
      BY <2>1, <3>1 DEF SetBlock
  <2>2. CASE GetBlock(n)
    <3>1. disco[n][p.idBloque] # NULL
      <4>1. Escrito(n, p.idBloque, 1)
        BY <1>2, <2>2 DEF SeLeeLoEscrito, p, GetBlock, Request
      <4>2. \A j \in DOMAIN entrada[n] : ~(j < 1)
        BY <1>2
      <4> QED
        BY <4>1, <4>2 DEF Escrito
    <3> QED
      BY <1>2, <2>2, <3>1, RespuestaEs
  <2> QED
    BY <2>1, <2>2 DEF NodeStep
<1>9. ASSUME NEW m \in Nodes, NEW k \in DOMAIN salida'[m], salida'[m][k].op = "GET_BLOQUE_OK"
      PROVE  salida'[m][k].contenido # NULL
  <2>1. (k \in DOMAIN salida[m] /\ salida'[m][k] = salida[m][k]) \/ salida'[m][k] = a
    BY <1>8, <1>9, QuedaRespondida
  <2> QED
    BY <1>8, <1>9, <2>1 DEF SeLeeLoEscrito
<1> QED
  BY <1>7, <1>9 DEF SeLeeLoEscrito

(* The block of the file that entry i of a read is about.                  *)
Dato(i) == [path |-> actual.path, nro |-> i]

(* What a read asks a node for is there, or will be when it is asked.      *)
LEMMA PedidaEsta ==
    ASSUME UnHilo, Inv, Consistente, LeeArchivo, actual.pc \in Leyendo, NEW i \in DOMAIN actual.info,
           NEW n \in HoldersOf(actual.info[i]), vivo[n]
    PROVE  /\ n \in Nodes /\ IdBloqueOn(actual.info[i], n) \in BlocksOf(n) /\ i \in Nat
           /\ Dato(i) \in Datos /\ Llegara(n, IdBloqueOn(actual.info[i], n), Dato(i))
<1>1. /\ actual.path \in Paths /\ archivos[actual.path] # NULL /\ actual.info = archivos[actual.path].bloques
  BY DEF LeeArchivo
<1>2. PICK f \in Paths : f = actual.path
  BY <1>1
<1>3. PICK bi : bi = actual.info[i]
  OBVIOUS
<1>4. PICK c \in 1 .. 2 : bi.copias[c].nodo = n /\ bi.copias[c].bloque = IdBloqueOn(bi, n)
  <2>1. bi.copias[1].nodo = n \/ bi.copias[2].nodo = n
    BY <1>3 DEF HoldersOf
  <2>2. CASE bi.copias[2].nodo = n
    BY <2>2 DEF IdBloqueOn
  <2>3. CASE bi.copias[2].nodo # n
    BY <2>1, <2>3 DEF IdBloqueOn
  <2> QED
    BY <2>2, <2>3
<1>5. PICK r : r = bi.copias[c]
  OBVIOUS
<1>6. r \in Replica /\ archivos[f].bloques \in Seq(Bloques) /\ r = archivos[f].bloques[i].copias[c]
      /\ i \in DOMAIN archivos[f].bloques /\ archivos[f] # NULL
  BY <1>1, <1>2, <1>3, <1>5, ListadasSon
<1>7. i \in Nat
  BY <1>6
<1>8. PICK d : d = [path |-> f, nro |-> i]
  OBVIOUS
<1>9. d \in Datos
  BY <1>7, <1>8, DatosSon
<1>10. DebeArchivo(f, r, d)
  BY <1>6, <1>8 DEF DebeArchivo
<1>11. Llega(r, d)
  BY <1>6, <1>9, <1>10 DEF Consistente, Guardado, Debe
<1>12. r.nodo = n /\ r.bloque = IdBloqueOn(bi, n)
  BY <1>4, <1>5
<1>13. Llegara(n, IdBloqueOn(bi, n), d)
  BY <1>11, <1>12 DEF Llega
<1>14. n \in Nodes /\ IdBloqueOn(bi, n) \in BlocksOf(n)
  BY <1>6, <1>12, ReplicaEs
<1> QED
  BY <1>2, <1>3, <1>7, <1>8, <1>9, <1>13, <1>14 DEF Dato

(* Every step preserves SeLeeLoEscrito.                                    *)
LEMMA EscritoSigue ==
    ASSUME UnHilo, Inv, Consistente, LeeArchivo, SeLeeLoEscrito, [Next]_vars
    PROVE  SeLeeLoEscrito'
<1>1. ASSUME UNCHANGED <<disco, entrada, salida>> PROVE SeLeeLoEscrito'
  BY <1>1 DEF SeLeeLoEscrito, Escrito
<1>2. CASE NoLectora
  <2>1. CASE UNCHANGED entrada
    BY <1>1, <1>2, <2>1 DEF NoLectora
  <2>2. ASSUME NEW n \in Nodes, NEW p, p \in Pedidos(n), p.op = "SET_BLOQUE",
               entrada' = [entrada EXCEPT ![n] = Append(@, p)]
        PROVE  SeLeeLoEscrito'
    BY <1>2, <2>2, EscritoMandado DEF NoLectora
  <2> QED
    BY <1>2, <2>1, <2>2, Zenon DEF NoLectora
<1>3. CASE PedirBloque(Consola) /\ UNCHANGED <<vivo, disco, salida, muertes>>
  <2> DEFINE n == lista[actual.i].idNodo
             p == GetBloque(IdBloqueOn(actual.info[actual.i], n), actual.i)
  <2>1. /\ actual.pc = "pide" /\ n \in Nodes /\ p \in Pedidos(n) /\ actual.i \in DOMAIN actual.info
        /\ n \in HoldersOf(actual.info[actual.i])
        /\ UNCHANGED entrada \/ (vivo[n] /\ entrada' = [entrada EXCEPT ![n] = Append(@, p)])
    BY <1>3, PedirEs
  <2>2. p.idBloque = IdBloqueOn(actual.info[actual.i], n)
    BY DEF GetBloque
  <2> HIDE DEF n, p
  <2>3. ASSUME vivo[n] PROVE Escrito(n, p.idBloque, Len(entrada[n]) + 1)
    <3>1. PICK b, d : b = p.idBloque /\ d = Dato(actual.i)
      OBVIOUS
    <3>2. Llegara(n, b, d) /\ d \in Datos
      BY <2>1, <2>2, <2>3, <3>1, PedidaEsta DEF Leyendo
    <3>3. d # NULL
      BY <3>2, FileSystemAssumption
    <3>4. entrada[n] \in Seq(Pedidos(n))
      BY <2>1, PedidosSon
    <3>5. \A k \in DOMAIN entrada[n] : k < Len(entrada[n]) + 1
      BY <3>4
    <3> QED
      BY <3>1, <3>2, <3>3, <3>5 DEF Llegara, Escrito
  <2>4. ASSUME vivo[n] /\ entrada' = [entrada EXCEPT ![n] = Append(@, p)] PROVE SeLeeLoEscrito'
    BY <1>3, <2>1, <2>3, <2>4, EscritoMandado
  <2> QED
    BY <1>1, <1>3, <2>1, <2>4
<1>4. ASSUME NEW t \in Hilos, Command(t) \/ ThreadStep(t) PROVE SeLeeLoEscrito'
  BY <1>1, <1>2, <1>3, <1>4, NoLectoraEs DEF dataNodeVars
<1>5. ASSUME NEW n \in Nodes, NEW op, Arrives(n, op), Taken(n), UNCHANGED <<disco, entrada>>
      PROVE  SeLeeLoEscrito'
  <2>1. ASSUME NEW m \in Nodes, NEW k \in DOMAIN salida'[m], salida'[m][k].op = "GET_BLOQUE_OK"
        PROVE  salida'[m][k].contenido # NULL
    <3>1. PICK j \in DOMAIN salida[m] : salida'[m][k] = salida[m][j]
      BY <1>5, QuedaTomada
    <3> QED
      BY <2>1, <3>1 DEF SeLeeLoEscrito
  <2> QED
    BY <1>5, <2>1 DEF SeLeeLoEscrito, Escrito
<1>6. ASSUME NEW n \in Nodes, NEW s, EndOf(n, s), UNCHANGED disco, s = <<>> \/ s = salida[n]
      PROVE  SeLeeLoEscrito'
  <2>1. ASSUME NEW m \in Nodes
        PROVE  /\ m # n => salida'[m] = salida[m] /\ entrada'[m] = entrada[m]
               /\ m = n => DOMAIN entrada'[m] = {} /\ salida'[m] = Append(s, Closed)
    <3>1. DOMAIN <<>> = {}
      OBVIOUS
    <3> QED
      BY <1>6, <3>1, QuedaTerminada
  <2>2. s \in Seq(Respuestas) /\ Closed \in Respuestas /\ Closed.op # "GET_BLOQUE_OK"
    <3>1. <<>> \in Seq(Respuestas)
      OBVIOUS
    <3>2. s \in Seq(Respuestas)
      BY <1>6, <3>1, SalidaEs
    <3> QED
      BY <3>2 DEF Closed, Respuestas
  <2>3. \A k \in DOMAIN s : k \in DOMAIN salida[n] /\ s[k] = salida[n][k]
    BY <1>6
  <2>4. ASSUME NEW k \in DOMAIN Append(s, Closed), Append(s, Closed)[k].op = "GET_BLOQUE_OK"
        PROVE  Append(s, Closed)[k].contenido # NULL
    <3>1. k \in DOMAIN s /\ Append(s, Closed)[k] = s[k]
      <4>1. \/ k \in DOMAIN s /\ Append(s, Closed)[k] = s[k]
            \/ k = Len(s) + 1 /\ Append(s, Closed)[k] = Closed
        BY <2>2, <2>4, ColaSon
      <4> QED
        BY <2>2, <2>4, <4>1
    <3> QED
      BY <2>3, <2>4, <3>1 DEF SeLeeLoEscrito
  <2>5. ASSUME NEW m \in Nodes, NEW k \in DOMAIN salida'[m], salida'[m][k].op = "GET_BLOQUE_OK"
        PROVE  salida'[m][k].contenido # NULL
    BY <2>1, <2>4, <2>5 DEF SeLeeLoEscrito
  <2>6. ASSUME NEW m \in Nodes, NEW k \in DOMAIN entrada'[m], entrada'[m][k].op = "GET_BLOQUE"
        PROVE  Escrito(m, entrada[m][k].idBloque, k)'
    <3>1. m # n /\ entrada'[m] = entrada[m]
      BY <2>1, <2>6
    <3> QED
      BY <1>6, <2>6, <3>1 DEF SeLeeLoEscrito, Escrito
  <2> QED
    BY <2>5, <2>6 DEF SeLeeLoEscrito
<1>7. ASSUME NEW n \in Nodes, Atender(n) PROVE SeLeeLoEscrito'
  <2>1. CASE EscrituraOk(n) \/ LecturaOk(n) \/ NodoDesconectado(n)
    BY <1>5, <2>1 DEF EscrituraOk, LecturaOk, NodoDesconectado
  <2>2. CASE LecturaSinLista(n) \/ EliminarNodo(n)
    BY <1>1, <2>2 DEF LecturaSinLista, EliminarNodo, dataNodeVars
  <2>3. CASE PedidoInvalido(n)
    BY <1>6, <2>3 DEF PedidoInvalido
  <2> QED
    BY <1>7, <2>1, <2>2, <2>3 DEF Atender
<1>8. ASSUME NEW n \in Nodes, NodeLost(n) PROVE SeLeeLoEscrito'
  BY <1>6, <1>8 DEF NodeLost, NodeDies
<1>9. CASE UNCHANGED vars
  BY <1>1, <1>9 DEF vars, dataNodeVars
<1> QED
  BY <1>4, <1>7, <1>8, <1>9, EscritoServido DEF Next

-----------------------------------------------------------------------------
(* What was read.                                                          *)

(* The console has waited for the answer of entry i.                       *)
Esperada(i) ==
    actual.pc \in {"revisa", "arma"} \/ (actual.pc = "aguarda" /\ i < actual.i)

(* An entry that was answered, and not by the end of a node, has data.     *)
Respondidas ==
    /\ lista # NULL => \A i \in DOMAIN lista :
          ~lista[i].fallo /\ (lista[i].oks > 0 \/ Esperada(i)) => lista[i].lectura # NULL
    /\ actual.pc = "arma" => \A i \in DOMAIN lista : lista[i].lectura # NULL

(* The list of a read, while there is one.                                 *)
LEMMA ListaEs ==
    ASSUME Inv
    PROVE  lista # NULL => /\ lista \in Seq(Lecturas) /\ Len(lista) \in Nat /\ DOMAIN lista = 1 .. Len(lista)
                           /\ \A i \in DOMAIN lista : lista[i] \in Lecturas /\ lista[i].oks \in Nat /\ i \in Nat
<1>1. lista \in Seq(Lecturas) \cup {NULL}
  BY DEF Inv, TypeOK, ProcessTypeOK
<1>2. ASSUME lista # NULL
      PROVE  /\ lista \in Seq(Lecturas) /\ Len(lista) \in Nat /\ DOMAIN lista = 1 .. Len(lista)
             /\ \A i \in DOMAIN lista : lista[i] \in Lecturas /\ i \in Nat
  BY <1>1, <1>2
<1>3. \A e \in Lecturas : e.oks \in Nat
  BY DEF Lecturas
<1> QED
  BY <1>2, <1>3

(* An answer with data is put in the entries of its number.                *)
LEMMA AnotadaEs ==
    ASSUME Inv, NEW n \in Nodes, LecturaOk(n), NEW a, a = Head(salida[n])
    PROVE  /\ lista # NULL /\ DOMAIN lista' = DOMAIN lista
           /\ 1 \in DOMAIN salida[n] /\ a = salida[n][1] /\ a.op = "GET_BLOQUE_OK"
           /\ \A i \in DOMAIN lista :
                /\ lista[i].nroBloque = a.nroBloque =>
                      /\ lista'[i].lectura = a.contenido /\ lista'[i].oks = lista[i].oks + 1
                      /\ lista'[i].fallo = lista[i].fallo /\ lista'[i].idNodo = lista[i].idNodo
                /\ lista[i].nroBloque # a.nroBloque => lista'[i] = lista[i]
<1>1. lista # NULL /\ Arrives(n, "GET_BLOQUE_OK")
  BY DEF LecturaOk
<1>2. salida[n] # <<>> /\ a.op = "GET_BLOQUE_OK" /\ salida[n] \in Seq(Respuestas)
  BY <1>1, SalidaEs DEF Arrives
<1>3. 1 \in DOMAIN salida[n] /\ a = salida[n][1]
  BY <1>2, ColaSon
<1>4. lista' = [i \in DOMAIN lista |->
                  IF i \in Matching(a.nroBloque)
                  THEN [lista[i] EXCEPT !.lectura = a.contenido, !.oks = @ + 1] ELSE lista[i]]
  BY Zenon DEF LecturaOk
<1>5. DOMAIN lista' = DOMAIN lista
  BY <1>4
<1>6. ASSUME NEW i \in DOMAIN lista
      PROVE  /\ lista[i].nroBloque = a.nroBloque =>
                    /\ lista'[i].lectura = a.contenido /\ lista'[i].oks = lista[i].oks + 1
                    /\ lista'[i].fallo = lista[i].fallo /\ lista'[i].idNodo = lista[i].idNodo
             /\ lista[i].nroBloque # a.nroBloque => lista'[i] = lista[i]
  <2>1. PICK d, c : d = lista[i] /\ c = a.contenido
    OBVIOUS
  <2>2. d \in Lecturas
    BY <1>1, <2>1, ListaEs
  <2>3. lista'[i] = IF d.nroBloque = a.nroBloque THEN [d EXCEPT !.lectura = c, !.oks = @ + 1] ELSE d
    BY <1>4, <2>1 DEF Matching
  <2>4. LET e == [d EXCEPT !.lectura = c, !.oks = @ + 1] IN
        e.lectura = c /\ e.oks = d.oks + 1 /\ e.fallo = d.fallo /\ e.idNodo = d.idNodo
    BY <2>2 DEF Lecturas
  <2> QED
    BY <2>1, <2>3, <2>4
<1> QED
  BY <1>1, <1>2, <1>3, <1>5, <1>6

(* The end of a node fails every entry.                                    *)
LEMMA FallidaEs ==
    ASSUME Inv, NEW n \in Nodes, NodoDesconectado(n), lista # NULL
    PROVE  /\ DOMAIN lista' = DOMAIN lista
           /\ \A i \in DOMAIN lista : lista'[i].fallo = TRUE /\ lista'[i].lectura = lista[i].lectura
<1>1. lista' = [i \in DOMAIN lista |-> [lista[i] EXCEPT !.fallo = TRUE, !.oks = @ + 1]]
  BY Zenon DEF NodoDesconectado
<1>2. ASSUME NEW i \in DOMAIN lista
      PROVE  lista'[i].fallo = TRUE /\ lista'[i].lectura = lista[i].lectura
  <2>1. PICK d : d = lista[i]
    OBVIOUS
  <2>2. d \in Lecturas
    BY <2>1, ListaEs
  <2>3. lista'[i] = [d EXCEPT !.fallo = TRUE, !.oks = @ + 1]
    BY <1>1, <2>1
  <2>4. LET e == [d EXCEPT !.fallo = TRUE, !.oks = @ + 1] IN e.fallo = TRUE /\ e.lectura = d.lectura
    BY <2>2 DEF Lecturas
  <2> QED
    BY <2>1, <2>3, <2>4
<1> QED
  BY <1>1, <1>2

(* The list of a command that reads is there.                              *)
LEMMA HayLista ==
    ASSUME UnHilo, Inv, actual.pc \in Leyendo \ {"elige"}
    PROVE  /\ lista # NULL /\ Len(lista) <= Len(actual.info) /\ Len(actual.info) \in Nat
           /\ actual.pc # "prepara" => Len(lista) = Len(actual.info) /\ DOMAIN lista = DOMAIN actual.info
           /\ actual.info \in Seq(Bloques) /\ actual.sel \in Seq(Nodes) /\ Len(actual.sel) = Len(actual.info)
           /\ \A i \in DOMAIN lista : /\ lista[i].nroBloque = i /\ lista[i].idNodo \in Nodes
                                      /\ lista[i].idNodo = actual.sel[i]
                                      /\ i \in DOMAIN actual.sel /\ i \in DOMAIN actual.info
<1> DEFINE x == actual
<1>1. x.info \in Seq(Bloques) /\ x.sel \in Seq(Nodes) /\ LecturaBien(x, lista)
  BY Solo, LeyendoEs DEF actual
<1> HIDE DEF x
<1>2. /\ lista \in Seq(Lecturas) /\ Len(x.sel) = Len(x.info)
      /\ \A k \in DOMAIN lista : lista[k].nroBloque = k
      /\ \A k \in DOMAIN lista : k <= Len(x.sel) /\ lista[k].idNodo = x.sel[k]
      /\ IF x.pc = "prepara" THEN Len(lista) < Len(x.sel) ELSE Len(lista) = Len(x.sel)
  BY <1>1 DEF LecturaBien, x
<1>3. lista # NULL
  BY <1>2, FileSystemAssumption
<1>4. \A k \in DOMAIN lista : k \in DOMAIN x.sel /\ k \in DOMAIN x.info /\ x.sel[k] \in Nodes
  BY <1>1, <1>2
<1>5. /\ Len(x.info) \in Nat /\ Len(lista) \in Nat /\ Len(lista) <= Len(x.info)
      /\ x.pc # "prepara" => Len(lista) = Len(x.info) /\ DOMAIN lista = DOMAIN x.info
  BY <1>1, <1>2
<1> QED
  BY <1>1, <1>2, <1>3, <1>4, <1>5 DEF x

(* Every step preserves Respondidas.                                       *)
LEMMA RespondidasSigue ==
    ASSUME UnHilo, Inv, LeeArchivo, SeLeeLoEscrito, Respondidas, [Next]_vars
    PROVE  Respondidas'
<1>1. ASSUME UNCHANGED lista, actual' = actual PROVE Respondidas'
  BY <1>1 DEF Respondidas, Esperada
<1>2. ASSUME UNCHANGED lista, actual'.pc \notin Leyendo \/ actual'.pc = "elige" PROVE Respondidas'
  BY <1>2 DEF Respondidas, Esperada, Leyendo
<1>3. CASE NoLectora
  BY <1>1, <1>2, <1>3 DEF NoLectora, SigueAparte, actual
<1>4. CASE \E f \in Paths : LeerArchivo(Consola, f)
  <2>1. PICK f \in Paths : LeerArchivo(Consola, f)
    BY <1>4
  <2> QED
    BY <1>2, <2>1, LeerEs DEF Leyendo
<1>5. CASE ElegirNodos(Consola)
  <2>1. lista' = <<>> /\ actual'.pc = "prepara"
    BY <1>5, ElegirEs
  <2>2. DOMAIN lista' = {}
    BY <2>1
  <2> QED
    BY <2>1, <2>2 DEF Respondidas
<1>6. CASE NoHayNodos(Consola)
  BY <1>2, <1>6, NoHayEs DEF Leyendo
<1>7. CASE PrepararLectura(Consola)
  <2> DEFINE e == Lectura(Len(lista) + 1, actual.sel[Len(lista) + 1])
  <2>1. /\ actual.pc = "prepara" /\ actual'.pc \in {"prepara", "pide"} /\ lista' = Append(lista, e)
        /\ lista \in Seq(Lecturas) /\ e \in Lecturas /\ e.oks = 0
    BY <1>7, PrepararEs DEF Lectura
  <2> HIDE DEF e
  <2>2. lista # NULL
    BY <2>1, FileSystemAssumption
  <2>3. ASSUME NEW i \in DOMAIN lista', ~lista'[i].fallo /\ (lista'[i].oks > 0 \/ Esperada(i)')
        PROVE  lista'[i].lectura # NULL
    <3>1. ~Esperada(i)'
      BY <2>1 DEF Esperada
    <3>2. (i \in DOMAIN lista /\ lista'[i] = lista[i]) \/ lista'[i] = e
      BY <2>1, <2>3, ColaSon
    <3> QED
      BY <2>1, <2>2, <2>3, <3>1, <3>2 DEF Respondidas
  <2> QED
    BY <2>1, <2>3 DEF Respondidas
<1>8. CASE ExcluirNodo(Consola)
  BY <1>2, <1>8, ExcluirEs
<1>9. CASE PedirBloque(Consola)
  <2>1. /\ actual.pc = "pide" /\ UNCHANGED lista
        /\ \/ UNCHANGED hilo
           \/ actual'.pc = (IF actual.i = Len(actual.info) THEN "aguarda" ELSE "pide")
              /\ actual'.i = IF actual.i = Len(actual.info) THEN 1 ELSE actual.i + 1
    BY <1>9, PedirEs
  <2>2. CASE UNCHANGED hilo
    BY <1>1, <2>1, <2>2 DEF actual
  <2>3. CASE actual'.pc = "pide" \/ (actual'.pc = "aguarda" /\ actual'.i = 1)
    <3>1. \A i \in DOMAIN lista : lista # NULL => ~Esperada(i)'
      BY <2>3, ListaEs DEF Esperada
    <3> QED
      BY <2>1, <2>3, <3>1 DEF Respondidas
  <2> QED
    BY <2>1, <2>2, <2>3
<1>10. CASE EsperarLectura(Consola)
  <2> DEFINE i == actual.i
             last == Len(actual.info)
  <2>1. /\ actual.pc = "aguarda" /\ lista \in Seq(Lecturas) /\ i \in DOMAIN lista /\ Len(lista) = last
        /\ lista[i].oks > 0 /\ lista' = [lista EXCEPT ![i] = [lista[i] EXCEPT !.oks = @ - 1]]
        /\ actual'.pc = (IF i = last THEN "revisa" ELSE "aguarda")
        /\ actual'.i = IF i = last THEN 1 ELSE i + 1
    BY <1>10, EsperarEs
  <2>2. lista # NULL /\ DOMAIN lista' = DOMAIN lista /\ DOMAIN lista = 1 .. last /\ last \in Nat
    BY <2>1, FileSystemAssumption
  <2>3. ASSUME NEW j \in DOMAIN lista
        PROVE  /\ lista'[j].fallo = lista[j].fallo /\ lista'[j].lectura = lista[j].lectura
               /\ lista'[j].oks > 0 => lista[j].oks > 0
    <3>1. PICK d : d = lista[i] /\ d \in Lecturas
      BY <2>1
    <3>2. LET e == [d EXCEPT !.oks = @ - 1] IN e.fallo = d.fallo /\ e.lectura = d.lectura
      BY <3>1 DEF Lecturas
    <3>3. lista'[j] = IF j = i THEN [d EXCEPT !.oks = @ - 1] ELSE lista[j]
      BY <2>1, <3>1
    <3> QED
      BY <2>1, <3>1, <3>2, <3>3
  <2>4. ASSUME NEW j \in DOMAIN lista, Esperada(j)' PROVE lista[j].oks > 0 \/ Esperada(j)
    <3>1. j = i \/ j < i
      <4> HIDE DEF last, i
      <4>1. CASE i = last
        BY <2>1, <2>2, <4>1
      <4>2. CASE i # last
        <5>1. j < i + 1
          BY <2>1, <2>4, <4>2 DEF Esperada
        <5> QED
          BY <2>1, <2>2, <5>1
      <4> QED
        BY <4>1, <4>2
    <3> QED
      BY <2>1, <3>1 DEF Esperada
  <2>5. actual'.pc # "arma"
    BY <2>1
  <2> HIDE DEF i, last
  <2> QED
    BY <2>2, <2>3, <2>4, <2>5 DEF Respondidas
<1>11. CASE RevisarLectura(Consola)
  <2>1. CASE actual'.pc = "libre"
    BY <1>2, <1>11, <2>1, RevisarEs DEF Leyendo
  <2>2. CASE actual'.pc = "arma"
    <3>1. actual.pc = "revisa" /\ UNCHANGED lista /\ \A i \in DOMAIN lista : ~lista[i].fallo
      BY <1>11, <2>2, RevisarEs
    <3>2. lista # NULL
      BY <3>1, HayLista DEF Leyendo
    <3>3. \A i \in DOMAIN lista : lista[i].lectura # NULL
      BY <3>1, <3>2 DEF Respondidas, Esperada
    <3> QED
      BY <3>1, <3>3 DEF Respondidas
  <2> QED
    BY <1>11, <2>1, <2>2, RevisarEs
<1>12. CASE ArmarRespuesta(Consola)
  <2>1. lista' = NULL /\ actual'.pc = "libre"
    BY <1>12, ArmarEs
  <2> QED
    BY <2>1 DEF Respondidas
<1>13. ASSUME NEW t \in Hilos, Command(t) \/ ThreadStep(t) PROVE Respondidas'
  BY <1>3, <1>4, <1>5, <1>6, <1>7, <1>8, <1>9, <1>10, <1>11, <1>12, <1>13, NoLectoraEs DEF ReadLocally
<1>14. ASSUME NEW n \in Nodes, LecturaOk(n) PROVE Respondidas'
  <2>1. PICK a : a = Head(salida[n])
    OBVIOUS
  <2>2. /\ lista # NULL /\ DOMAIN lista' = DOMAIN lista /\ a.contenido # NULL
        /\ \A i \in DOMAIN lista :
             /\ lista[i].nroBloque = a.nroBloque =>
                   /\ lista'[i].lectura = a.contenido /\ lista'[i].oks = lista[i].oks + 1
                   /\ lista'[i].fallo = lista[i].fallo
             /\ lista[i].nroBloque # a.nroBloque => lista'[i] = lista[i]
    BY <1>14, <2>1, AnotadaEs DEF SeLeeLoEscrito
  <2>3. actual' = actual
    BY <1>14, NodosAparte DEF Atender
  <2> QED
    BY <2>2, <2>3 DEF Respondidas, Esperada
<1>15. ASSUME NEW n \in Nodes, NodoDesconectado(n) PROVE Respondidas'
  <2>1. actual' = actual
    BY <1>15, NodosAparte DEF Atender
  <2>2. CASE lista = NULL
    BY <1>1, <1>15, <2>1, <2>2 DEF NodoDesconectado
  <2>3. CASE lista # NULL
    BY <1>15, <2>1, <2>3, FallidaEs DEF Respondidas
  <2> QED
    BY <2>2, <2>3
<1>16. ASSUME NEW n \in Nodes, Atender(n) \/ NodeStep(n) \/ NodeLost(n), ~LecturaOk(n), ~NodoDesconectado(n)
       PROVE  Respondidas'
  <2>1. UNCHANGED lista
    BY <1>16 DEF Atender, EscrituraOk, LecturaSinLista, PedidoInvalido, EliminarNodo, NodeStep, NodeLost, fsVars
  <2> QED
    BY <1>1, <1>16, <2>1, NodosAparte
<1>17. CASE UNCHANGED vars
  BY <1>1, <1>17 DEF vars, fsVars, actual
<1> QED
  BY <1>13, <1>14, <1>15, <1>16, <1>17 DEF Next

-----------------------------------------------------------------------------
(* What is on its way while nobody has died.                               *)

(* The read still expects the answer of entry i, from node n.              *)
Espera(n, i) ==
    /\ i \in DOMAIN actual.sel /\ lista[i].idNodo = n /\ lista[i].oks = 0
    /\ \/ actual.pc = "pide" /\ i < actual.i
       \/ actual.pc = "aguarda" /\ i >= actual.i

EsGet(p, i) == p.op = "GET_BLOQUE" /\ p.nroBloque = i
EsGetOk(a, i) == a.op = "GET_BLOQUE_OK" /\ a.nroBloque = i

(* On its way to a node: one request for each answer that is expected, for *)
(* the replica of the node, with no write behind it.                       *)
PedidoExacto(n, k, i) ==
    /\ Espera(n, i)
    /\ entrada[n][k].idBloque = IdBloqueOn(actual.info[i], n)
    /\ \A j \in DOMAIN entrada[n] : j > k => entrada[n][j].op # "SET_BLOQUE"
    /\ \A j \in DOMAIN entrada[n] : EsGet(entrada[n][j], i) => j = k
    /\ \A j \in DOMAIN salida[n] : ~EsGetOk(salida[n][j], i)
PedidosExactos ==
    \A n \in Nodes : \A k \in DOMAIN entrada[n] :
        entrada[n][k].op = "GET_BLOQUE" => PedidoExacto(n, k, entrada[n][k].nroBloque)

(* On its way back: one answer, with the block of the file.                *)
RespuestaExacta(n, k, i) ==
    /\ Espera(n, i) /\ salida[n][k].contenido = Dato(i)
    /\ \A j \in DOMAIN salida[n] : EsGetOk(salida[n][j], i) => j = k
RespuestasExactas ==
    \A n \in Nodes : \A k \in DOMAIN salida[n] :
        salida[n][k].op = "GET_BLOQUE_OK" => RespuestaExacta(n, k, salida[n][k].nroBloque)

(* What has arrived: nothing for a block not asked for, and the block of   *)
(* the file for one that was answered.                                     *)
EntradaExacta(i) ==
    /\ ~lista[i].fallo
    /\ actual.pc = "prepara" \/ (actual.pc = "pide" /\ i >= actual.i) => lista[i].oks = 0
    /\ lista[i].oks > 0 \/ Esperada(i) => lista[i].lectura = Dato(i)
ListaExacta ==
    actual.pc \in Leyendo \ {"elige"} => \A i \in DOMAIN lista : EntradaExacta(i)

Exacta == NobodyDied => PedidosExactos /\ RespuestasExactas /\ ListaExacta

(* No read is being served.                                                *)
NadaEnCamino ==
    \A n \in Nodes : /\ \A k \in DOMAIN entrada[n] : entrada[n][k].op # "GET_BLOQUE"
                     /\ \A k \in DOMAIN salida[n] : salida[n][k].op # "GET_BLOQUE_OK"

(* Outside of the requests and the waits no read is being served.          *)
LEMMA NadaEs ==
    ASSUME PedidosExactos, RespuestasExactas, actual.pc \notin {"pide", "aguarda"}
    PROVE  NadaEnCamino
BY DEF PedidosExactos, RespuestasExactas, PedidoExacto, RespuestaExacta, Espera, NadaEnCamino

(* When no read is being served, only the list can be wrong.               *)
LEMMA NadaBasta ==
    ASSUME NadaEnCamino', ListaExacta'
    PROVE  Exacta'
BY DEF PedidosExactos, RespuestasExactas, NadaEnCamino, Exacta

(* A step that leaves the read and its messages alone.                     *)
LEMMA ExactaQuieta ==
    ASSUME PedidosExactos, RespuestasExactas, ListaExacta, actual' = actual, UNCHANGED <<lista, entrada, salida>>
    PROVE  Exacta'
<1>1. \A n, i : Espera(n, i)' <=> Espera(n, i)
  BY DEF Espera
<1>2. PedidosExactos'
  BY <1>1 DEF PedidosExactos, PedidoExacto
<1>3. RespuestasExactas'
  BY <1>1 DEF RespuestasExactas, RespuestaExacta, Dato
<1>4. ListaExacta'
  BY DEF ListaExacta, EntradaExacta, Esperada, Dato
<1> QED
  BY <1>2, <1>3, <1>4 DEF Exacta

(* A write or a removal: nothing is read.                                  *)
LEMMA ExactaNoLectora ==
    ASSUME Inv, PedidosExactos, RespuestasExactas, NoLectora
    PROVE  Exacta'
<1>1. actual.pc \notin Leyendo /\ UNCHANGED salida
  BY DEF NoLectora
<1>2. NadaEnCamino
  BY <1>1, NadaEs DEF Leyendo
<1>3. ListaExacta'
  <2>1. actual'.pc \notin Leyendo
    BY <1>1 DEF NoLectora, SigueAparte, actual
  <2> QED
    BY <2>1 DEF ListaExacta
<1>4. ASSUME NEW n \in Nodes, NEW p, p \in Pedidos(n), p.op = "SET_BLOQUE",
             entrada' = [entrada EXCEPT ![n] = Append(@, p)]
      PROVE  NadaEnCamino'
  <2>1. ASSUME NEW m \in Nodes, NEW k \in DOMAIN entrada'[m] PROVE entrada'[m][k].op # "GET_BLOQUE"
    <3>1. (k \in DOMAIN entrada[m] /\ entrada'[m][k] = entrada[m][k]) \/ entrada'[m][k] = p
      BY <1>4, <2>1, QuedaMandada
    <3> QED
      BY <1>2, <1>4, <2>1, <3>1 DEF NadaEnCamino
  <2> QED
    BY <1>1, <1>2, <2>1 DEF NadaEnCamino
<1>5. CASE UNCHANGED entrada
  BY <1>1, <1>2, <1>3, <1>5, NadaBasta DEF NadaEnCamino
<1> QED
  BY <1>3, <1>4, <1>5, NadaBasta, Zenon DEF NoLectora

(* The steps of a read outside of the requests and the waits.              *)
LEMMA ExactaSinPedidos ==
    ASSUME UnHilo, Inv, PedidosExactos, RespuestasExactas, ListaExacta, UNCHANGED <<entrada, salida>>,
           \/ \E f \in Paths : LeerArchivo(Consola, f)
           \/ ElegirNodos(Consola) \/ NoHayNodos(Consola) \/ PrepararLectura(Consola)
           \/ RevisarLectura(Consola) \/ ArmarRespuesta(Consola)
    PROVE  Exacta'
<1>1. ASSUME actual.pc \notin {"pide", "aguarda"}, ListaExacta' PROVE Exacta'
  <2>1. NadaEnCamino
    BY <1>1, NadaEs
  <2> QED
    BY <1>1, <2>1, NadaBasta DEF NadaEnCamino
<1>2. ASSUME NEW f \in Paths, LeerArchivo(Consola, f) PROVE Exacta'
  <2>1. actual.pc = "libre" /\ actual'.pc \in {"libre", "elige"}
    BY <1>2, LeerEs
  <2> QED
    BY <1>1, <2>1 DEF ListaExacta, Leyendo
<1>3. CASE ElegirNodos(Consola)
  <2>1. actual.pc = "elige" /\ lista' = <<>>
    BY <1>3, ElegirEs
  <2>2. DOMAIN lista' = {}
    BY <2>1
  <2> QED
    BY <1>1, <2>1, <2>2 DEF ListaExacta
<1>4. CASE NoHayNodos(Consola)
  <2>1. actual.pc = "elige" /\ actual'.pc = "libre"
    BY <1>4, NoHayEs
  <2> QED
    BY <1>1, <2>1 DEF ListaExacta, Leyendo
<1>5. CASE PrepararLectura(Consola)
  <2> DEFINE e == Lectura(Len(lista) + 1, actual.sel[Len(lista) + 1])
  <2>1. /\ actual.pc = "prepara" /\ actual'.pc \in {"prepara", "pide"} /\ lista' = Append(lista, e)
        /\ lista \in Seq(Lecturas) /\ e \in Lecturas /\ e.oks = 0 /\ ~e.fallo
    BY <1>5, PrepararEs DEF Lectura
  <2> HIDE DEF e
  <2>2. ASSUME NEW i \in DOMAIN lista' PROVE EntradaExacta(i)'
    <3>1. ~Esperada(i)'
      BY <2>1 DEF Esperada
    <3>2. (i \in DOMAIN lista /\ lista'[i] = lista[i]) \/ lista'[i] = e
      BY <2>1, <2>2, ColaSon
    <3>3. i \in DOMAIN lista => lista[i].oks = 0 /\ ~lista[i].fallo
      BY <2>1 DEF ListaExacta, EntradaExacta, Leyendo
    <3> QED
      BY <2>1, <3>1, <3>2, <3>3 DEF EntradaExacta
  <2> QED
    BY <1>1, <2>1, <2>2 DEF ListaExacta
<1>6. CASE RevisarLectura(Consola)
  <2>1. CASE actual'.pc = "libre"
    BY <1>1, <1>6, <2>1, RevisarEs DEF ListaExacta, Leyendo
  <2>2. CASE actual'.pc = "arma"
    <3>1. actual.pc = "revisa" /\ UNCHANGED lista /\ actual'.path = actual.path
      BY <1>6, <2>2, RevisarEs DEF MismaLectura
    <3>2. ASSUME NEW i \in DOMAIN lista PROVE EntradaExacta(i)'
      <4>1. EntradaExacta(i) /\ Esperada(i)
        BY <3>1, <3>2 DEF ListaExacta, Leyendo, Esperada
      <4> QED
        BY <2>2, <3>1, <4>1 DEF EntradaExacta, Dato
    <3> QED
      BY <1>1, <3>1, <3>2 DEF ListaExacta
  <2> QED
    BY <1>6, <2>1, <2>2, RevisarEs
<1>7. CASE ArmarRespuesta(Consola)
  <2>1. actual.pc = "arma" /\ actual'.pc = "libre"
    BY <1>7, ArmarEs
  <2> QED
    BY <1>1, <2>1 DEF ListaExacta, Leyendo
<1> QED
  BY <1>2, <1>3, <1>4, <1>5, <1>6, <1>7

(* A request is sent: its answer is expected.                              *)
LEMMA ExactaPedir ==
    ASSUME UnHilo, Inv, LeeArchivo, PedidosExactos, RespuestasExactas, ListaExacta, NobodyDied,
           PedirBloque(Consola), UNCHANGED <<vivo, disco, salida, muertes>>
    PROVE  Exacta'
<1> DEFINE last == Len(actual.info)
<1>1. PICK i, n, p : /\ i = actual.i /\ n = lista[i].idNodo
                     /\ p = GetBloque(IdBloqueOn(actual.info[i], n), i)
  OBVIOUS
<1>2. /\ actual.pc = "pide" /\ n \in Nodes /\ UNCHANGED lista /\ p \in Pedidos(n) /\ lista \in Seq(Lecturas)
      /\ i \in DOMAIN lista /\ i \in DOMAIN actual.info
      /\ \/ UNCHANGED <<hilo, entrada>>
         \/ /\ \/ vivo[n] /\ entrada' = [entrada EXCEPT ![n] = Append(@, p)]
               \/ ~vivo[n] /\ UNCHANGED entrada
            /\ actual'.pc = (IF i = last THEN "aguarda" ELSE "pide")
            /\ actual'.i = (IF i = last THEN 1 ELSE i + 1)
            /\ MismaLectura /\ actual'.sel = actual.sel
  BY <1>1, PedirEs
<1>3. CASE UNCHANGED <<hilo, entrada>>
  <2>1. actual' = actual
    BY <1>3 DEF actual
  <2> QED
    BY <1>2, <1>3, <2>1, ExactaQuieta
<1>4. CASE ~UNCHANGED <<hilo, entrada>>
  <2>1. /\ entrada' = [entrada EXCEPT ![n] = Append(@, p)]
        /\ actual'.pc = (IF i = last THEN "aguarda" ELSE "pide")
        /\ actual'.i = (IF i = last THEN 1 ELSE i + 1)
        /\ actual'.path = actual.path /\ actual'.info = actual.info /\ actual'.sel = actual.sel
    BY <1>2, <1>4 DEF NobodyDied, MismaLectura
  <2>2. /\ DOMAIN lista = DOMAIN actual.info /\ DOMAIN actual.info = 1 .. last /\ last \in Nat
        /\ i \in 1 .. last /\ i \in DOMAIN actual.sel /\ DOMAIN actual.sel = 1 .. last
        /\ \A m \in DOMAIN lista : lista[m].idNodo = actual.sel[m]
    BY <1>2, HayLista DEF Leyendo
  <2> HIDE DEF last
  <2>3. p.op = "GET_BLOQUE" /\ p.nroBloque = i /\ p.idBloque = IdBloqueOn(actual.info[i], n)
    BY <1>1 DEF GetBloque
  <2>4. ASSUME NEW m, NEW j, Espera(m, j) PROVE Espera(m, j)' /\ j # i
    <3>1. j \in 1 .. last /\ j < i
      BY <1>1, <1>2, <2>2, <2>4 DEF Espera
    <3>2. (actual'.pc = "pide" /\ j < actual'.i) \/ (actual'.pc = "aguarda" /\ j >= actual'.i)
      BY <2>1, <2>2, <3>1
    <3> QED
      BY <1>2, <2>1, <2>4, <3>1, <3>2 DEF Espera
  <2>5. Espera(n, i)'
    <3>1. lista[i].oks = 0
      BY <1>1, <1>2, <2>2 DEF ListaExacta, EntradaExacta, Leyendo
    <3>2. (actual'.pc = "pide" /\ i < actual'.i) \/ (actual'.pc = "aguarda" /\ i >= actual'.i)
      BY <2>1, <2>2
    <3> QED
      BY <1>1, <1>2, <2>1, <2>2, <3>1, <3>2 DEF Espera
  <2>6. ASSUME NEW m \in Nodes
        PROVE  /\ m # n => entrada'[m] = entrada[m]
               /\ \A k \in DOMAIN entrada[m] : k \in 1 .. Len(entrada[m])
               /\ Len(entrada[m]) \in Nat
               /\ \A k \in DOMAIN entrada[m] : k \in DOMAIN entrada'[m] /\ entrada'[m][k] = entrada[m][k]
               /\ \A k \in DOMAIN entrada'[m] : \/ k \in DOMAIN entrada[m] /\ entrada'[m][k] = entrada[m][k]
                                                \/ m = n /\ k = Len(entrada[n]) + 1 /\ entrada'[m][k] = p
    <3>1. Len(entrada[m]) \in Nat
      BY PedidosSon
    <3> QED
      BY <1>2, <2>1, <3>1, QuedaMandada
  <2>7. ASSUME NEW m \in Nodes, NEW k \in DOMAIN entrada[m], NEW j, entrada[m][k].op = "GET_BLOQUE",
               j = entrada[m][k].nroBloque
        PROVE  PedidoExacto(m, k, j)'
    <3>1. PedidoExacto(m, k, j)
      BY <2>7 DEF PedidosExactos
    <3>2. Espera(m, j)' /\ j # i
      BY <2>4, <3>1 DEF PedidoExacto
    <3>3. entrada'[m][k] = entrada[m][k]
      BY <2>6
    <3>4. \A l \in DOMAIN entrada'[m] : l > k => entrada'[m][l].op # "SET_BLOQUE"
      BY <2>3, <2>6, <3>1 DEF PedidoExacto
    <3>5. \A l \in DOMAIN entrada'[m] : EsGet(entrada'[m][l], j) => l = k
      BY <2>3, <2>6, <3>1, <3>2 DEF PedidoExacto, EsGet
    <3> QED
      BY <2>1, <3>1, <3>2, <3>3, <3>4, <3>5 DEF PedidoExacto
  <2>8. ASSUME NEW k \in DOMAIN entrada'[n], k = Len(entrada[n]) + 1, entrada'[n][k] = p
        PROVE  PedidoExacto(n, k, i)'
    <3>1. \A l \in DOMAIN entrada'[n] : ~(l > k)
      BY <1>2, <2>6, <2>8
    <3>2. \A l \in DOMAIN entrada'[n] : EsGet(entrada'[n][l], i) => l = k
      <4>1. ASSUME NEW l \in DOMAIN entrada[n], EsGet(entrada[n][l], i) PROVE FALSE
        <5>1. Espera(n, i)
          BY <1>2, <4>1 DEF PedidosExactos, PedidoExacto, EsGet
        <5> QED
          BY <2>4, <5>1
      <4> QED
        BY <1>2, <2>6, <2>8, <4>1
    <3>3. \A l \in DOMAIN salida[n] : ~EsGetOk(salida[n][l], i)
      <4>1. ASSUME NEW l \in DOMAIN salida[n], EsGetOk(salida[n][l], i) PROVE FALSE
        <5>1. Espera(n, i)
          BY <1>2, <4>1 DEF RespuestasExactas, RespuestaExacta, EsGetOk
        <5> QED
          BY <2>4, <5>1
      <4> QED
        BY <4>1
    <3> QED
      BY <2>1, <2>3, <2>5, <2>8, <3>1, <3>2, <3>3 DEF PedidoExacto
  <2>9. PedidosExactos'
    <3>1. ASSUME NEW m \in Nodes, NEW k \in DOMAIN entrada'[m], entrada'[m][k].op = "GET_BLOQUE",
                 NEW j, j = entrada'[m][k].nroBloque
          PROVE  PedidoExacto(m, k, j)'
      BY <1>2, <2>3, <2>6, <2>7, <2>8, <3>1
    <3> QED
      BY <3>1 DEF PedidosExactos
  <2>10. RespuestasExactas'
    <3>1. ASSUME NEW m \in Nodes, NEW k \in DOMAIN salida[m], salida[m][k].op = "GET_BLOQUE_OK",
                 NEW j, j = salida[m][k].nroBloque
          PROVE  RespuestaExacta(m, k, j)'
      <4>1. RespuestaExacta(m, k, j)
        BY <3>1 DEF RespuestasExactas
      <4>2. Espera(m, j)'
        BY <2>4, <4>1 DEF RespuestaExacta
      <4> QED
        BY <2>1, <4>1, <4>2 DEF RespuestaExacta, Dato
    <3> QED
      BY <3>1 DEF RespuestasExactas
  <2>11. ListaExacta'
    <3>1. ASSUME NEW j \in DOMAIN lista PROVE EntradaExacta(j)'
      <4>1. EntradaExacta(j) /\ j \in 1 .. last
        BY <1>2, <2>2 DEF ListaExacta, Leyendo
      <4>2. ~Esperada(j)'
        <5>1. actual'.pc = "pide" \/ (actual'.pc = "aguarda" /\ actual'.i = 1)
          BY <2>1
        <5>2. ~(j < 1)
          BY <4>1
        <5> QED
          BY <5>1, <5>2 DEF Esperada
      <4>3. actual'.pc = "prepara" \/ (actual'.pc = "pide" /\ j >= actual'.i) => actual.pc = "pide" /\ j >= actual.i
        <5>1. CASE i = last
          <6>1. actual'.pc = "aguarda"
            BY <2>1, <5>1
          <6> QED
            BY <6>1
        <5>2. CASE i # last
          <6>1. actual'.pc = "pide" /\ actual'.i = i + 1
            BY <2>1, <5>2
          <6>2. j >= i + 1 => j >= i
            BY <2>2, <4>1
          <6> QED
            BY <1>1, <1>2, <6>1, <6>2
        <5> QED
          BY <5>1, <5>2
      <4>4. lista'[j].oks > 0 \/ Esperada(j)' => lista[j].oks > 0 \/ Esperada(j)
        BY <1>2, <4>2
      <4>5. Dato(j)' = Dato(j)
        BY <2>1 DEF Dato
      <4> QED
        BY <1>2, <4>1, <4>3, <4>4, <4>5 DEF EntradaExacta
    <3> QED
      BY <1>2, <3>1 DEF ListaExacta
  <2> QED
    BY <2>9, <2>10, <2>11 DEF Exacta
<1> QED
  BY <1>3, <1>4

(* An answer is waited for: it is the one of its block.                    *)
LEMMA ExactaEsperar ==
    ASSUME UnHilo, Inv, PedidosExactos, RespuestasExactas, ListaExacta,
           EsperarLectura(Consola), UNCHANGED dataNodeVars
    PROVE  Exacta'
<1> DEFINE last == Len(actual.info)
<1>1. PICK i : i = actual.i
  OBVIOUS
<1>2. /\ actual.pc = "aguarda" /\ lista \in Seq(Lecturas) /\ i \in DOMAIN lista /\ Len(lista) = last
      /\ lista[i].oks > 0 /\ lista' = [lista EXCEPT ![i] = [lista[i] EXCEPT !.oks = @ - 1]]
      /\ actual'.pc = (IF i = last THEN "revisa" ELSE "aguarda")
      /\ actual'.i = (IF i = last THEN 1 ELSE i + 1)
      /\ actual'.path = actual.path /\ actual'.info = actual.info /\ actual'.sel = actual.sel
      /\ UNCHANGED <<entrada, salida>>
  BY <1>1, EsperarEs DEF MismaLectura, dataNodeVars
<1>3. /\ DOMAIN lista' = DOMAIN lista /\ DOMAIN lista = 1 .. last /\ last \in Nat
      /\ i \in 1 .. last /\ DOMAIN actual.sel = 1 .. last
  <2>1. actual.sel \in Seq(Nodes) /\ Len(actual.sel) = last
    BY <1>2, HayLista DEF Leyendo
  <2> QED
    BY <1>2, <2>1
<1>4. ASSUME NEW j \in DOMAIN lista
      PROVE  /\ lista'[j].fallo = lista[j].fallo /\ lista'[j].lectura = lista[j].lectura
             /\ lista'[j].idNodo = lista[j].idNodo
             /\ lista'[j].oks > 0 => lista[j].oks > 0
             /\ j # i => lista'[j] = lista[j]
  <2>1. PICK d : d = lista[i] /\ d \in Lecturas
    BY <1>2
  <2>2. LET e == [d EXCEPT !.oks = @ - 1] IN e.fallo = d.fallo /\ e.lectura = d.lectura /\ e.idNodo = d.idNodo
    BY <2>1 DEF Lecturas
  <2>3. lista'[j] = IF j = i THEN [d EXCEPT !.oks = @ - 1] ELSE lista[j]
    BY <1>2, <2>1
  <2> QED
    BY <1>2, <2>1, <2>2, <2>3
<1> HIDE DEF last
<1>5. ASSUME NEW m, NEW j, Espera(m, j) PROVE Espera(m, j)'
  <2>1. j \in 1 .. last /\ j >= i /\ lista[j].oks = 0 /\ j # i
    BY <1>1, <1>2, <1>3, <1>5 DEF Espera
  <2>2. actual'.pc = "aguarda" /\ j >= actual'.i
    BY <1>2, <1>3, <2>1
  <2>3. lista'[j] = lista[j]
    BY <1>3, <1>4, <2>1
  <2> QED
    BY <1>2, <1>5, <2>2, <2>3 DEF Espera
<1>6. PedidosExactos'
  <2>1. ASSUME NEW m \in Nodes, NEW k \in DOMAIN entrada[m], NEW j, entrada[m][k].op = "GET_BLOQUE",
               j = entrada[m][k].nroBloque
        PROVE  PedidoExacto(m, k, j)'
    <3>1. PedidoExacto(m, k, j)
      BY <2>1 DEF PedidosExactos
    <3>2. Espera(m, j)'
      BY <1>5, <3>1 DEF PedidoExacto
    <3> QED
      BY <1>2, <3>1, <3>2 DEF PedidoExacto
  <2> QED
    BY <1>2, <2>1 DEF PedidosExactos
<1>7. RespuestasExactas'
  <2>1. ASSUME NEW m \in Nodes, NEW k \in DOMAIN salida[m], salida[m][k].op = "GET_BLOQUE_OK",
               NEW j, j = salida[m][k].nroBloque
        PROVE  RespuestaExacta(m, k, j)'
    <3>1. RespuestaExacta(m, k, j)
      BY <2>1 DEF RespuestasExactas
    <3>2. Espera(m, j)'
      BY <1>5, <3>1 DEF RespuestaExacta
    <3> QED
      BY <1>2, <3>1, <3>2 DEF RespuestaExacta, Dato
  <2> QED
    BY <1>2, <2>1 DEF RespuestasExactas
<1>8. ListaExacta'
  <2>1. ASSUME NEW j \in DOMAIN lista PROVE EntradaExacta(j)'
    <3>1. EntradaExacta(j) /\ j \in 1 .. last
      BY <1>2, <1>3 DEF ListaExacta, Leyendo
    <3>2. ASSUME Esperada(j)' PROVE lista[j].oks > 0 \/ Esperada(j)
      <4>1. j = i \/ j < i
        <5>1. CASE i = last
          BY <1>3, <3>1, <5>1
        <5>2. CASE i # last
          <6>1. j < i + 1
            BY <1>2, <3>2, <5>2 DEF Esperada
          <6> QED
            BY <1>3, <3>1, <6>1
        <5> QED
          BY <5>1, <5>2
      <4> QED
        BY <1>1, <1>2, <4>1 DEF Esperada
    <3>3. actual'.pc \notin {"prepara", "pide"}
      BY <1>2
    <3> QED
      BY <1>2, <1>4, <3>1, <3>2, <3>3 DEF EntradaExacta, Dato
  <2> QED
    BY <1>3, <2>1 DEF ListaExacta
<1> QED
  BY <1>6, <1>7, <1>8 DEF Exacta

(* The thread of a node takes an answer: nothing else is about its block.  *)
LEMMA ExactaTomada ==
    ASSUME UnHilo, Inv, PedidosExactos, RespuestasExactas, ListaExacta, NEW n \in Nodes, LecturaOk(n)
    PROVE  Exacta'
<1>1. PICK a, i : a = Head(salida[n]) /\ i = a.nroBloque
  OBVIOUS
<1>2. /\ lista # NULL /\ DOMAIN lista' = DOMAIN lista /\ UNCHANGED entrada
      /\ 1 \in DOMAIN salida[n] /\ a = salida[n][1] /\ EsGetOk(a, i)
      /\ Arrives(n, "GET_BLOQUE_OK") /\ Taken(n) /\ actual' = actual
  BY <1>1, AnotadaEs, NodosAparte DEF LecturaOk, Atender, EsGetOk
<1>3. /\ Espera(n, i) /\ a.contenido = Dato(i)
      /\ \A j \in DOMAIN salida[n] : EsGetOk(salida[n][j], i) => j = 1
  BY <1>2 DEF RespuestasExactas, RespuestaExacta, EsGetOk
<1>4. actual.pc \in {"pide", "aguarda"} /\ actual.pc \in Leyendo \ {"elige"}
  BY <1>3 DEF Espera, Leyendo
<1>5. /\ \A j \in DOMAIN lista : lista[j].nroBloque = j
      /\ DOMAIN lista = DOMAIN actual.sel
  <2>1. actual.sel \in Seq(Nodes) /\ Len(actual.sel) = Len(actual.info) /\ Len(lista) = Len(actual.info)
        /\ \A j \in DOMAIN lista : lista[j].nroBloque = j
    BY <1>4, HayLista
  <2>2. lista \in Seq(Lecturas)
    BY <1>2, ListaEs
  <2> QED
    BY <2>1, <2>2
<1>6. ASSUME NEW j \in DOMAIN lista
      PROVE  /\ j = i => /\ lista'[j].lectura = Dato(i) /\ lista'[j].oks = lista[j].oks + 1
                         /\ lista'[j].fallo = lista[j].fallo /\ lista'[j].idNodo = lista[j].idNodo
             /\ j # i => lista'[j] = lista[j]
  BY <1>1, <1>3, <1>5, AnotadaEs
<1>7. ASSUME NEW m, NEW j, Espera(m, j), j # i PROVE Espera(m, j)'
  <2>1. lista'[j] = lista[j]
    BY <1>5, <1>6, <1>7 DEF Espera
  <2> QED
    BY <1>2, <1>7, <2>1 DEF Espera
<1>8. ASSUME NEW m, Espera(m, i) PROVE m = n
  BY <1>3, <1>8 DEF Espera
<1>9. ASSUME NEW m \in Nodes, NEW k \in DOMAIN salida'[m]
      PROVE  \E j \in DOMAIN salida[m] : salida'[m][k] = salida[m][j] /\ (m # n => j = k) /\ (m = n => j = k + 1)
  BY <1>2, QuedaTomada
<1>10. PedidosExactos'
  <2>1. ASSUME NEW m \in Nodes, NEW k \in DOMAIN entrada[m], NEW j, entrada[m][k].op = "GET_BLOQUE",
               j = entrada[m][k].nroBloque
        PROVE  PedidoExacto(m, k, j)'
    <3>1. PedidoExacto(m, k, j)
      BY <2>1 DEF PedidosExactos
    <3>2. j # i
      BY <1>2, <1>8, <3>1 DEF PedidoExacto
    <3>3. Espera(m, j)'
      BY <1>7, <3>1, <3>2 DEF PedidoExacto
    <3>4. \A l \in DOMAIN salida'[m] : ~EsGetOk(salida'[m][l], j)
      BY <1>9, <3>1 DEF PedidoExacto
    <3> QED
      BY <1>2, <3>1, <3>3, <3>4 DEF PedidoExacto
  <2> QED
    BY <1>2, <2>1 DEF PedidosExactos
<1>11. RespuestasExactas'
  <2>1. ASSUME NEW m \in Nodes, NEW k \in DOMAIN salida'[m], salida'[m][k].op = "GET_BLOQUE_OK",
               NEW j, j = salida'[m][k].nroBloque
        PROVE  RespuestaExacta(m, k, j)'
    <3>1. PICK l \in DOMAIN salida[m] : salida'[m][k] = salida[m][l] /\ (m # n => l = k) /\ (m = n => l = k + 1)
      BY <1>9
    <3>2. RespuestaExacta(m, l, j)
      BY <2>1, <3>1 DEF RespuestasExactas
    <3>3. k \in Nat \ {0}
      <4>1. salida' \in [Nodes -> Seq(Respuestas)]
        BY <1>2, RespuestaTomada
      <4>2. salida'[m] \in Seq(Respuestas)
        BY <4>1
      <4> QED
        BY <4>2
    <3>4. j # i
      <4>1. SUFFICES ASSUME j = i PROVE FALSE
        OBVIOUS
      <4>2. m = n
        BY <1>8, <3>2, <4>1 DEF RespuestaExacta
      <4>3. EsGetOk(salida[n][l], i)
        BY <2>1, <3>1, <4>1, <4>2 DEF EsGetOk
      <4>4. l = 1 /\ l = k + 1
        BY <1>3, <3>1, <4>2, <4>3
      <4> QED
        BY <3>3, <4>4
    <3>5. Espera(m, j)'
      BY <1>7, <3>2, <3>4 DEF RespuestaExacta
    <3>6. ASSUME NEW k2 \in DOMAIN salida'[m], EsGetOk(salida'[m][k2], j) PROVE k2 = k
      <4>1. PICK l2 \in DOMAIN salida[m] : salida'[m][k2] = salida[m][l2] /\ (m # n => l2 = k2) /\ (m = n => l2 = k2 + 1)
        BY <1>9
      <4>2. l2 = l
        BY <3>2, <3>6, <4>1 DEF RespuestaExacta
      <4>3. k2 \in Nat
        <5>1. salida' \in [Nodes -> Seq(Respuestas)]
          BY <1>2, RespuestaTomada
        <5>2. salida'[m] \in Seq(Respuestas)
          BY <5>1
        <5> QED
          BY <5>2
      <4> QED
        BY <3>1, <3>3, <4>1, <4>2, <4>3
    <3> QED
      BY <1>2, <3>1, <3>2, <3>5, <3>6 DEF RespuestaExacta, Dato
  <2> QED
    BY <2>1 DEF RespuestasExactas
<1>12. ListaExacta'
  <2>1. ASSUME NEW j \in DOMAIN lista PROVE EntradaExacta(j)'
    <3>1. EntradaExacta(j)
      BY <1>4 DEF ListaExacta
    <3>2. CASE j = i
      <4>1. ~(actual.pc = "prepara" \/ (actual.pc = "pide" /\ i >= actual.i))
        <5>1. actual.i \in Nat /\ i \in Nat
          <6>1. actual.i \in Nat
            BY Solo, CamposDeHilo
          <6> QED
            BY <1>2, <3>2, <6>1, ListaEs
        <5> QED
          BY <1>3, <5>1 DEF Espera
      <4> QED
        BY <1>2, <1>6, <3>1, <3>2, <4>1 DEF EntradaExacta, Dato
    <3>3. CASE j # i
      BY <1>2, <1>6, <3>1, <3>3 DEF EntradaExacta, Dato, Esperada
    <3> QED
      BY <3>2, <3>3
  <2> QED
    BY <1>2, <2>1 DEF ListaExacta
<1> QED
  BY <1>10, <1>11, <1>12 DEF Exacta

(* An answer to a write says nothing about a read.                         *)
LEMMA ExactaEscrita ==
    ASSUME UnHilo, Inv, PedidosExactos, RespuestasExactas, ListaExacta, NEW n \in Nodes, EscrituraOk(n)
    PROVE  Exacta'
<1>1. /\ Arrives(n, "SET_BLOQUE_OK") /\ Taken(n) /\ actual' = actual /\ UNCHANGED <<lista, entrada>>
  BY NodosAparte DEF EscrituraOk, Atender
<1>2. \A m, j : Espera(m, j)' <=> Espera(m, j)
  BY <1>1 DEF Espera
<1>3. ASSUME NEW m \in Nodes, NEW k \in DOMAIN salida'[m]
      PROVE  \E j \in DOMAIN salida[m] : salida'[m][k] = salida[m][j] /\ (m # n => j = k) /\ (m = n => j = k + 1)
  BY <1>1, QuedaTomada
<1>4. ASSUME NEW m \in Nodes, NEW k \in DOMAIN salida'[m] PROVE k \in Nat
  <2>1. salida' \in [Nodes -> Seq(Respuestas)]
    BY <1>1, RespuestaTomada
  <2>2. salida'[m] \in Seq(Respuestas)
    BY <2>1
  <2> QED
    BY <1>4, <2>2
<1>5. PedidosExactos'
  <2>1. ASSUME NEW m \in Nodes, NEW k \in DOMAIN entrada[m], NEW j, entrada[m][k].op = "GET_BLOQUE",
               j = entrada[m][k].nroBloque
        PROVE  PedidoExacto(m, k, j)'
    <3>1. PedidoExacto(m, k, j)
      BY <2>1 DEF PedidosExactos
    <3>2. \A l \in DOMAIN salida'[m] : ~EsGetOk(salida'[m][l], j)
      BY <1>3, <3>1 DEF PedidoExacto
    <3> QED
      BY <1>1, <1>2, <3>1, <3>2 DEF PedidoExacto
  <2> QED
    BY <1>1, <2>1 DEF PedidosExactos
<1>6. RespuestasExactas'
  <2>1. ASSUME NEW m \in Nodes, NEW k \in DOMAIN salida'[m], salida'[m][k].op = "GET_BLOQUE_OK",
               NEW j, j = salida'[m][k].nroBloque
        PROVE  RespuestaExacta(m, k, j)'
    <3>1. PICK l \in DOMAIN salida[m] : salida'[m][k] = salida[m][l] /\ (m # n => l = k) /\ (m = n => l = k + 1)
      BY <1>3
    <3>2. RespuestaExacta(m, l, j)
      BY <2>1, <3>1 DEF RespuestasExactas
    <3>3. ASSUME NEW k2 \in DOMAIN salida'[m], EsGetOk(salida'[m][k2], j) PROVE k2 = k
      <4>1. PICK l2 \in DOMAIN salida[m] : salida'[m][k2] = salida[m][l2] /\ (m # n => l2 = k2) /\ (m = n => l2 = k2 + 1)
        BY <1>3
      <4>2. l2 = l
        BY <3>2, <3>3, <4>1 DEF RespuestaExacta
      <4>3. k2 \in Nat /\ k \in Nat
        BY <1>4
      <4> QED
        BY <3>1, <4>1, <4>2, <4>3
    <3> QED
      BY <1>1, <1>2, <3>1, <3>2, <3>3 DEF RespuestaExacta, Dato
  <2> QED
    BY <2>1 DEF RespuestasExactas
<1>7. ListaExacta'
  BY <1>1 DEF ListaExacta, EntradaExacta, Esperada, Dato
<1> QED
  BY <1>5, <1>6, <1>7 DEF Exacta

(* What a node answers is the block of the file: it was written before.    *)
LEMMA ExactaRespuesta ==
    ASSUME UnHilo, Inv, Consistente, LeeArchivo, PedidosExactos, NobodyDied,
           NEW n \in Nodes, GetBlock(n), NEW p, p = entrada[n][1]
    PROVE  /\ p = Head(entrada[n]) /\ p.op = "GET_BLOQUE" /\ PedidoExacto(n, 1, p.nroBloque)
           /\ disco[n][p.idBloque] = Dato(p.nroBloque)
<1>1. PICK i, b : i = p.nroBloque /\ b = p.idBloque
  OBVIOUS
<1>2. /\ entrada[n] # <<>> /\ Head(entrada[n]).op = "GET_BLOQUE" /\ entrada[n] \in Seq(Pedidos(n))
  BY PedidosSon DEF GetBlock, Request
<1>3. 1 \in DOMAIN entrada[n] /\ p = Head(entrada[n]) /\ \A k \in DOMAIN entrada[n] : k = 1 \/ k > 1
  BY <1>2
<1>4. PedidoExacto(n, 1, i)
  BY <1>1, <1>2, <1>3 DEF PedidosExactos
<1>5. /\ Espera(n, i) /\ b = IdBloqueOn(actual.info[i], n)
      /\ \A k \in DOMAIN entrada[n] : k > 1 => entrada[n][k].op # "SET_BLOQUE"
  BY <1>1, <1>4 DEF PedidoExacto
<1>6. /\ actual.pc \in {"pide", "aguarda"} /\ actual.pc \in Leyendo \ {"elige"}
      /\ i \in DOMAIN actual.sel /\ lista[i].idNodo = n
  BY <1>5 DEF Espera, Leyendo
<1>7. i \in DOMAIN actual.info /\ n \in HoldersOf(actual.info[i])
  <2>1. /\ lista \in Seq(Lecturas) /\ Len(lista) = Len(actual.info) /\ actual.sel \in Seq(Nodes)
        /\ Len(actual.sel) = Len(actual.info) /\ actual.info \in Seq(Bloques)
        /\ \A j \in DOMAIN lista : lista[j].idNodo = actual.sel[j]
    BY <1>6, HayLista, ListaEs
  <2>2. i \in DOMAIN lista /\ i \in DOMAIN actual.info
    BY <1>6, <2>1
  <2>3. \A j \in DOMAIN actual.sel : actual.sel[j] \in HoldersOf(actual.info[j])
    BY <1>6, Solo DEF LecturaBien
  <2> QED
    BY <1>6, <2>1, <2>2, <2>3
<1>8. Llegara(n, b, Dato(i))
  BY <1>5, <1>6, <1>7, PedidaEsta DEF NobodyDied
<1>9. \A k \in DOMAIN entrada[n] : ~EsSet(entrada[n][k], b)
  BY <1>2, <1>3, <1>5 DEF EsSet
<1>10. disco[n][b] = Dato(i)
  BY <1>8, <1>9 DEF Llegara
<1> QED
  BY <1>1, <1>2, <1>3, <1>4, <1>10

(* A node serves its first request: a request becomes its answer.          *)
LEMMA ExactaServida ==
    ASSUME UnHilo, Inv, Consistente, LeeArchivo, PedidosExactos, RespuestasExactas, ListaExacta, NobodyDied,
           NEW n \in Nodes, NodeStep(n)
    PROVE  Exacta'
<1>1. /\ entrada[n] # <<>> /\ entrada' = [entrada EXCEPT ![n] = Tail(@)] /\ UNCHANGED lista /\ actual' = actual
  BY NodosAparte DEF NodeStep, SetBlock, GetBlock, Request, Answer, fsVars
<1>2. PICK p : p = entrada[n][1]
  OBVIOUS
<1>3. PICK a \in Respuestas :
        /\ Answer(n, a)
        /\ a.op = "GET_BLOQUE_OK" => /\ p.op = "GET_BLOQUE" /\ a.nroBloque = p.nroBloque
                                     /\ PedidoExacto(n, 1, a.nroBloque) /\ a.contenido = Dato(a.nroBloque)
  <2>1. CASE SetBlock(n)
    <3>1. SetBloqueOk \in Respuestas /\ SetBloqueOk.op # "GET_BLOQUE_OK"
      BY DEF SetBloqueOk, Respuestas
    <3> QED
      BY <2>1, <3>1 DEF SetBlock
  <2>2. CASE GetBlock(n)
    <3>1. /\ p = Head(entrada[n]) /\ p.op = "GET_BLOQUE" /\ PedidoExacto(n, 1, p.nroBloque)
          /\ disco[n][p.idBloque] = Dato(p.nroBloque)
      BY <1>2, <2>2, ExactaRespuesta
    <3>2. PICK a : a = GetBloqueOk(p.nroBloque, disco[n][p.idBloque])
      OBVIOUS
    <3>3. /\ Answer(n, a) /\ a \in Respuestas /\ a.nroBloque = p.nroBloque
          /\ a.contenido = disco[n][p.idBloque]
      BY <2>2, <3>1, <3>2, RespuestaEs
    <3> QED
      BY <3>1, <3>3
  <2> QED
    BY <2>1, <2>2 DEF NodeStep
<1>4. /\ 1 \in DOMAIN entrada[n]
      /\ \A k \in DOMAIN entrada'[n] : k \in Nat \ {0} /\ k + 1 \in DOMAIN entrada[n]
                                       /\ entrada'[n][k] = entrada[n][k + 1]
      /\ \A m \in Nodes : m # n => entrada'[m] = entrada[m]
  BY <1>1, QuedaServida
<1>5. ASSUME NEW m \in Nodes, NEW k \in DOMAIN salida'[m]
      PROVE  \/ k \in DOMAIN salida[m] /\ salida'[m][k] = salida[m][k]
             \/ m = n /\ k = Len(salida[m]) + 1 /\ salida'[m][k] = a
  BY <1>3, <1>5, QuedaRespondida
<1>6. \A m, j : Espera(m, j)' <=> Espera(m, j)
  BY <1>1 DEF Espera
<1>7. PedidosExactos'
  <2>1. ASSUME NEW m \in Nodes, m # n, NEW k \in DOMAIN entrada[m], NEW j, entrada[m][k].op = "GET_BLOQUE",
               j = entrada[m][k].nroBloque
        PROVE  PedidoExacto(m, k, j)'
    <3>1. PedidoExacto(m, k, j)
      BY <2>1 DEF PedidosExactos
    <3>2. \A l \in DOMAIN salida'[m] : ~EsGetOk(salida'[m][l], j)
      BY <1>5, <2>1, <3>1 DEF PedidoExacto
    <3> QED
      BY <1>1, <1>4, <1>6, <2>1, <3>1, <3>2 DEF PedidoExacto
  <2>2. ASSUME NEW k \in DOMAIN entrada'[n], NEW j, entrada'[n][k].op = "GET_BLOQUE",
               j = entrada'[n][k].nroBloque
        PROVE  PedidoExacto(n, k, j)'
    <3>1. k \in Nat \ {0} /\ k + 1 \in DOMAIN entrada[n] /\ entrada'[n][k] = entrada[n][k + 1]
      BY <1>4
    <3>2. PICK q : q = k + 1
      OBVIOUS
    <3>3. PedidoExacto(n, q, j) /\ q \in DOMAIN entrada[n] /\ entrada'[n][k] = entrada[n][q] /\ q # 1
      BY <2>2, <3>1, <3>2 DEF PedidosExactos
    <3>4. \A l \in DOMAIN entrada'[n] : l > k => entrada'[n][l].op # "SET_BLOQUE"
      <4>1. ASSUME NEW l \in DOMAIN entrada'[n], l > k PROVE entrada'[n][l].op # "SET_BLOQUE"
        <5>1. l \in Nat /\ l + 1 \in DOMAIN entrada[n] /\ l + 1 > q
          BY <1>4, <3>1, <3>2, <4>1
        <5> QED
          BY <1>4, <3>3, <5>1 DEF PedidoExacto
      <4> QED
        BY <4>1
    <3>5. \A l \in DOMAIN entrada'[n] : EsGet(entrada'[n][l], j) => l = k
      <4>1. ASSUME NEW l \in DOMAIN entrada'[n], EsGet(entrada'[n][l], j) PROVE l = k
        <5>1. l \in Nat /\ l + 1 \in DOMAIN entrada[n] /\ EsGet(entrada[n][l + 1], j)
          BY <1>4, <4>1
        <5>2. l + 1 = q
          BY <3>3, <5>1 DEF PedidoExacto
        <5> QED
          BY <3>1, <3>2, <5>1, <5>2
      <4> QED
        BY <4>1
    <3>6. ASSUME NEW l \in DOMAIN salida'[n] PROVE ~EsGetOk(salida'[n][l], j)
      <4>1. CASE l \in DOMAIN salida[n] /\ salida'[n][l] = salida[n][l]
        BY <3>3, <4>1 DEF PedidoExacto
      <4>2. CASE salida'[n][l] = a
        <5>1. SUFFICES ASSUME EsGetOk(a, j) PROVE FALSE
          BY <4>2
        <5>2. EsGet(entrada[n][1], j)
          BY <1>2, <1>3, <5>1 DEF EsGet, EsGetOk
        <5>3. 1 = q
          BY <1>4, <3>3, <5>2 DEF PedidoExacto
        <5> QED
          BY <3>3, <5>3
      <4> QED
        BY <1>5, <4>1, <4>2
    <3> QED
      BY <1>1, <1>6, <3>3, <3>4, <3>5, <3>6 DEF PedidoExacto
  <2>3. ASSUME NEW m \in Nodes, NEW k \in DOMAIN entrada'[m], NEW j, entrada'[m][k].op = "GET_BLOQUE",
               j = entrada'[m][k].nroBloque
        PROVE  PedidoExacto(m, k, j)'
    BY <1>4, <2>1, <2>2, <2>3
  <2> QED
    BY <2>3 DEF PedidosExactos
<1>8. RespuestasExactas'
  <2>1. ASSUME NEW m \in Nodes, NEW k \in DOMAIN salida[m], salida'[m][k] = salida[m][k],
               NEW j, EsGetOk(salida[m][k], j)
        PROVE  RespuestaExacta(m, k, j)'
    <3>1. RespuestaExacta(m, k, j)
      BY <2>1 DEF RespuestasExactas, EsGetOk
    <3>2. ASSUME NEW l \in DOMAIN salida'[m], EsGetOk(salida'[m][l], j) PROVE l = k
      <4>1. CASE l \in DOMAIN salida[m] /\ salida'[m][l] = salida[m][l]
        BY <3>1, <3>2, <4>1 DEF RespuestaExacta
      <4>2. CASE m = n /\ salida'[m][l] = a
        BY <1>3, <2>1, <3>2, <4>2 DEF PedidoExacto, EsGetOk
      <4> QED
        BY <1>5, <4>1, <4>2
    <3> QED
      BY <1>1, <1>6, <2>1, <3>1, <3>2 DEF RespuestaExacta, Dato
  <2>2. ASSUME NEW k \in DOMAIN salida'[n], k = Len(salida[n]) + 1, salida'[n][k] = a,
               NEW j, EsGetOk(a, j)
        PROVE  RespuestaExacta(n, k, j)'
    <3>1. PedidoExacto(n, 1, j) /\ a.contenido = Dato(j)
      BY <1>3, <2>2 DEF EsGetOk
    <3>2. ASSUME NEW l \in DOMAIN salida'[n], EsGetOk(salida'[n][l], j) PROVE l = k
      <4>1. ~(l \in DOMAIN salida[n] /\ salida'[n][l] = salida[n][l])
        BY <3>1, <3>2 DEF PedidoExacto
      <4> QED
        BY <1>5, <2>2, <4>1
    <3>3. Espera(n, j)' /\ Dato(j)' = Dato(j)
      BY <1>1, <1>6, <3>1 DEF PedidoExacto, Dato
    <3> QED
      BY <2>2, <3>1, <3>2, <3>3 DEF RespuestaExacta
  <2>3. ASSUME NEW m \in Nodes, NEW k \in DOMAIN salida'[m], NEW j, EsGetOk(salida'[m][k], j)
        PROVE  RespuestaExacta(m, k, j)'
    <3>1. CASE k \in DOMAIN salida[m] /\ salida'[m][k] = salida[m][k]
      BY <2>1, <2>3, <3>1
    <3>2. CASE m = n /\ k = Len(salida[m]) + 1 /\ salida'[m][k] = a
      BY <2>2, <2>3, <3>2
    <3> QED
      BY <1>5, <3>1, <3>2
  <2> QED
    BY <2>3 DEF RespuestasExactas, EsGetOk
<1>9. ListaExacta'
  BY <1>1 DEF ListaExacta, EntradaExacta, Esperada, Dato
<1> QED
  BY <1>7, <1>8, <1>9 DEF Exacta

(* Nodes that died stay dead.                                              *)
LEMMA NadieMuere ==
    ASSUME UnHilo, Inv, LeeArchivo, [Next]_vars, NobodyDied'
    PROVE  /\ NobodyDied /\ \A n \in Nodes : ~PedidoInvalido(n) /\ ~NodeLost(n)
<1>1. \A n \in Nodes : vivo'[n] = TRUE
  BY DEF NobodyDied
<1>2. ASSUME NEW n \in Nodes, NEW s, EndOf(n, s) PROVE FALSE
  BY <1>1, <1>2, QuedaTerminada
<1>3. ASSUME NEW t \in Hilos, Command(t) \/ ThreadStep(t) PROVE UNCHANGED vivo
  BY <1>3, HiloConectado
<1>4. \A n \in Nodes : ~PedidoInvalido(n) /\ ~NodeLost(n)
  BY <1>2 DEF PedidoInvalido, NodeLost, NodeDies
<1>5. ASSUME NEW n \in Nodes, Atender(n) \/ NodeStep(n) PROVE UNCHANGED vivo
  BY <1>4, <1>5 DEF Atender, EscrituraOk, LecturaOk, LecturaSinLista, NodoDesconectado, EliminarNodo,
     dataNodeVars, NodeStep, SetBlock, GetBlock
<1>6. UNCHANGED vivo
  BY <1>3, <1>4, <1>5 DEF Next, vars, dataNodeVars
<1> QED
  BY <1>1, <1>4, <1>6 DEF NobodyDied

(* Every step preserves Exacta.                                            *)
LEMMA ExactaSigue ==
    ASSUME UnHilo, Inv, Consistente, LeeArchivo, Conectados, Exacta, [Next]_vars
    PROVE  Exacta'
<1>1. SUFFICES ASSUME NobodyDied' PROVE Exacta'
  BY DEF Exacta
<1>2. /\ NobodyDied /\ PedidosExactos /\ RespuestasExactas /\ ListaExacta
      /\ \A n \in Nodes : ~PedidoInvalido(n) /\ ~NodeLost(n)
  BY <1>1, NadieMuere DEF Exacta
<1>3. ASSUME NEW t \in Hilos, Command(t) \/ ThreadStep(t) PROVE Exacta'
  <2>1. CASE NoLectora
    BY <1>2, <2>1, ExactaNoLectora
  <2>2. CASE PedirBloque(Consola) /\ UNCHANGED <<vivo, disco, salida, muertes>>
    BY <1>2, <2>2, ExactaPedir
  <2>3. CASE EsperarLectura(Consola) /\ UNCHANGED dataNodeVars
    BY <1>2, <2>3, ExactaEsperar
  <2>4. CASE ExcluirNodo(Consola)
    BY <1>2, <2>4, ExcluirEs DEF Conectados, NobodyDied
  <2>5. ASSUME UNCHANGED dataNodeVars,
               \/ \E f \in Paths : LeerArchivo(Consola, f)
               \/ ElegirNodos(Consola) \/ NoHayNodos(Consola) \/ PrepararLectura(Consola)
               \/ RevisarLectura(Consola) \/ ArmarRespuesta(Consola)
        PROVE  Exacta'
    <3>1. UNCHANGED <<entrada, salida>>
      BY <2>5 DEF dataNodeVars
    <3> QED
      BY <1>2, <2>5, <3>1, ExactaSinPedidos
  <2> QED
    BY <1>3, <2>1, <2>2, <2>3, <2>4, <2>5, NoLectoraEs DEF ReadLocally
<1>4. ASSUME NEW n \in Nodes, Atender(n) PROVE Exacta'
  <2>1. ~NodoDesconectado(n)
    <3>1. SUFFICES ASSUME Arrives(n, "FIN") PROVE FALSE
      BY DEF NodoDesconectado
    <3>2. salida[n] \in Seq(Respuestas) /\ salida[n] # <<>> /\ Head(salida[n]).op = "FIN"
      BY <3>1, SalidaEs DEF Arrives
    <3>3. 1 \in DOMAIN salida[n] /\ salida[n][1].op = "FIN"
      BY <3>2, ColaSon
    <3> QED
      BY <1>2, <3>3 DEF Conectados, NobodyDied
  <2>2. CASE LecturaSinLista(n) \/ EliminarNodo(n)
    <3>1. actual' = actual /\ UNCHANGED <<lista, entrada, salida>>
      BY <1>4, <2>2, NodosAparte DEF LecturaSinLista, EliminarNodo, dataNodeVars
    <3> QED
      BY <1>2, <3>1, ExactaQuieta
  <2> QED
    BY <1>2, <1>4, <2>1, <2>2, ExactaTomada, ExactaEscrita DEF Atender
<1>5. ASSUME NEW n \in Nodes, NodeStep(n) PROVE Exacta'
  BY <1>2, <1>5, ExactaServida
<1>6. CASE UNCHANGED vars
  BY <1>2, <1>6, ExactaQuieta DEF vars, fsVars, dataNodeVars, actual
<1> QED
  BY <1>2, <1>3, <1>4, <1>5, <1>6 DEF Next

-----------------------------------------------------------------------------
(* Every step preserves what was read: it was put together out of the      *)
(* answers, and the next command forgets it before its file changes.       *)
LEMMA LeidoSigue ==
    ASSUME UnHilo, Inv, LeeArchivo, Respondidas, Exacta, ReadsWhatWasWritten, [Next]_vars
    PROVE  ReadsWhatWasWritten'
<1> DEFINE Contenidos == [b \in DOMAIN archivos[actual.path].bloques |-> [path |-> actual.path, nro |-> b]]
<1>1. ASSUME actual.resultado = "LEIDO"
      PROVE  /\ \A i \in DOMAIN actual.leido : actual.leido[i] # NULL
             /\ NobodyDied => actual.leido = Contenidos
  BY <1>1, Solo DEF ReadsWhatWasWritten, actual
<1>2. SUFFICES ASSUME actual'.resultado = "LEIDO"
               PROVE  /\ \A i \in DOMAIN actual'.leido : actual'.leido[i] # NULL
                      /\ NobodyDied' => actual'.leido = Contenidos'
  BY Solo DEF ReadsWhatWasWritten, actual
<1>3. NobodyDied' => NobodyDied
  BY NadieMuere
<1>4. ASSUME UNCHANGED <<hilo, archivos>>
      PROVE  /\ \A i \in DOMAIN actual'.leido : actual'.leido[i] # NULL
             /\ NobodyDied' => actual'.leido = Contenidos'
  BY <1>1, <1>2, <1>3, <1>4 DEF actual
<1>5. CASE NoLectora
  BY <1>2, <1>4, <1>5 DEF NoLectora, SigueAparte, actual
<1>6. CASE \E f \in Paths : LeerArchivo(Consola, f)
  <2>1. PICK f \in Paths : LeerArchivo(Consola, f)
    BY <1>6
  <2> QED
    BY <1>2, <2>1, LeerEs
<1>7. ASSUME actual.pc \in Leyendo, actual'.resultado = actual.resultado PROVE FALSE
  BY <1>2, <1>7 DEF LeeArchivo, Leyendo
<1>8. CASE PedirBloque(Consola)
  BY <1>4, <1>7, <1>8, PedirEs DEF MismaLectura, Leyendo
<1>9. CASE ArmarRespuesta(Consola)
  <2>1. /\ actual.pc = "arma" /\ UNCHANGED archivos /\ actual'.path = actual.path
        /\ actual'.leido = [i \in DOMAIN lista |-> lista[i].lectura]
    BY <1>9, ArmarEs
  <2>2. DOMAIN lista = DOMAIN actual.info /\ actual.info = archivos[actual.path].bloques
    BY <2>1, HayLista DEF LeeArchivo, Leyendo
  <2>3. \A i \in DOMAIN lista : lista[i].lectura # NULL
    BY <2>1 DEF Respondidas
  <2>4. ASSUME NobodyDied' PROVE actual'.leido = Contenidos'
    <3>1. \A i \in DOMAIN lista : lista[i].lectura = [path |-> actual.path, nro |-> i]
      BY <1>3, <2>1, <2>4 DEF Exacta, ListaExacta, EntradaExacta, Esperada, Leyendo, Dato
    <3>2. Contenidos' = [b \in DOMAIN lista |-> [path |-> actual.path, nro |-> b]]
      BY <2>1, <2>2
    <3> QED
      BY <2>1, <3>1, <3>2
  <2> QED
    BY <2>1, <2>3, <2>4
<1>10. CASE ReadLocally(Consola)
  BY <1>2, <1>7, <1>9, <1>10, ElegirEs, NoHayEs, PrepararEs, ExcluirEs, EsperarEs, RevisarEs
     DEF ReadLocally, MismaLectura, Leyendo
<1>11. ASSUME NEW t \in Hilos, Command(t) \/ ThreadStep(t)
       PROVE  /\ \A i \in DOMAIN actual'.leido : actual'.leido[i] # NULL
              /\ NobodyDied' => actual'.leido = Contenidos'
  BY <1>5, <1>6, <1>8, <1>10, <1>11, NoLectoraEs
<1>12. ASSUME NEW n \in Nodes, Atender(n) \/ NodeStep(n) \/ NodeLost(n)
       PROVE  /\ \A i \in DOMAIN actual'.leido : actual'.leido[i] # NULL
              /\ NobodyDied' => actual'.leido = Contenidos'
  BY <1>4, <1>12, NodosAparte
<1>13. CASE UNCHANGED vars
  BY <1>4, <1>13 DEF vars, fsVars, blockVars
<1> QED
  BY <1>11, <1>12, <1>13 DEF Next

(* The invariant of the reads.                                             *)
LecturaFiel ==
    LeeArchivo /\ Conectados /\ SeLeeLoEscrito /\ Respondidas /\ Exacta /\ ReadsWhatWasWritten

(* It holds at first: nothing is read and nothing is on its way.           *)
LEMMA LecturaInicial ==
    ASSUME UnHilo, Init
    PROVE  LecturaFiel
<1>1. PICK conectados \in SUBSET Nodes :
        DataNodeInit(conectados) /\ WriteInit(conectados) /\ ReadInit(conectados)
  BY DEF Init
<1>2. /\ vivo = [n \in Nodes |-> n \in conectados] /\ activo = [n \in Nodes |-> n \in conectados]
      /\ atencion = [n \in Nodes |-> IF n \in conectados THEN "escucha" ELSE "fin"]
      /\ entrada = [n \in Nodes |-> <<>>] /\ salida = [n \in Nodes |-> <<>>]
      /\ lista = NULL /\ actual = Idle("NADA") /\ \A t \in Hilos : hilo[t] = Idle("NADA")
  BY <1>1, FsWriteAssumption DEF DataNodeInit, WriteInit, ReadInit, actual
<1>3. actual.pc = "libre" /\ actual.resultado = "NADA" /\ \A t \in Hilos : hilo[t].resultado = "NADA"
  BY <1>2 DEF Idle
<1>4. DOMAIN <<>> = {}
  OBVIOUS
<1>5. \A n \in Nodes : DOMAIN entrada[n] = {} /\ DOMAIN salida[n] = {}
  BY <1>2, <1>4
<1>6. LeeArchivo
  BY <1>3 DEF LeeArchivo, Leyendo
<1>7. Conectados
  BY <1>2, <1>5 DEF Conectados
<1>8. SeLeeLoEscrito
  BY <1>5 DEF SeLeeLoEscrito
<1>9. Respondidas
  BY <1>2, <1>3 DEF Respondidas
<1>10. Exacta
  BY <1>3, <1>5 DEF Exacta, PedidosExactos, RespuestasExactas, ListaExacta, Leyendo
<1>11. ReadsWhatWasWritten
  BY <1>3 DEF ReadsWhatWasWritten
<1> QED
  BY <1>6, <1>7, <1>8, <1>9, <1>10, <1>11 DEF LecturaFiel

(* Every step preserves LecturaFiel.                                       *)
LEMMA LecturaSigue ==
    ASSUME UnHilo, Inv, Consistente, LecturaFiel, [Next]_vars
    PROVE  LecturaFiel'
<1>1. LeeArchivo /\ Conectados /\ SeLeeLoEscrito /\ Respondidas /\ Exacta /\ ReadsWhatWasWritten
  BY DEF LecturaFiel
<1>2. LeeArchivo'
  BY <1>1, LeeArchivoSigue
<1>3. Conectados'
  BY <1>1, ConectadosSigue
<1>4. SeLeeLoEscrito'
  BY <1>1, EscritoSigue
<1>5. Respondidas'
  BY <1>1, RespondidasSigue
<1>6. Exacta'
  BY <1>1, ExactaSigue
<1>7. ReadsWhatWasWritten'
  BY <1>1, LeidoSigue
<1> QED
  BY <1>2, <1>3, <1>4, <1>5, <1>6, <1>7 DEF LecturaFiel

(* ReadsWhatWasWritten, in every state, with the console alone: a read     *)
(* that succeeds has data for every block, also when nodes die, and while  *)
(* none has it returns the blocks of its file in their order.              *)
THEOREM ReadsAreExact ==
    ASSUME UnHilo
    PROVE  Spec => []ReadsWhatWasWritten
<1>1. Init => LecturaFiel
  BY LecturaInicial
<1>2. Inv /\ Consistente /\ LecturaFiel /\ [Next]_vars => LecturaFiel'
  BY LecturaSigue
<1>3. LecturaFiel => ReadsWhatWasWritten
  BY DEF LecturaFiel
<1> QED
  BY <1>1, <1>2, <1>3, InvHolds, ConsistenteSiempre, PTL DEF Spec

-----------------------------------------------------------------------------
(* The reservation of blocks: what fits, turn by turn.                     *)

Menor(a, b) == IF a < b THEN a ELSE b

(* The replicas that each node can take of r blocks, when none of them     *)
(* has an original yet, and when the next one has it on m.                 *)
Caben(l, r, A) == [x \in A |-> Menor(l[x], r)]
CabenSin(l, r, m, A) == [x \in A |-> IF x = m THEN Menor(l[x], r - 1) ELSE Menor(l[x], r)]

(* RoomFor is a sum.                                                       *)
LEMMA HayLugar ==
    ASSUME NEW A, IsFiniteSet(A), NEW l, NEW k \in Int, \A x \in A : l[x] \in Int
    PROVE  RoomFor(l, k, A) <=> SumaDe(Caben(l, k, A), A) >= 2 * k
<1> DEFINE iter[s \in SUBSET A] == IF s = {} THEN 0
             ELSE LET x == CHOOSE x \in s : TRUE IN (IF l[x] < k THEN l[x] ELSE k) + iter[s \ {x}]
<1>1. RoomFor(l, k, A) <=> iter[A] >= 2 * k
  BY Zenon DEF RoomFor, MapThenSumSet, MapThenFoldSet
<1> DEFINE f == Caben(l, k, A)
<1>2. f \in [A -> Int]
  BY DEF Caben, Menor
<1>3. \A s \in SUBSET A : s # {} =>
         f[Alguno(s)] = (IF l[Alguno(s)] < k THEN l[Alguno(s)] ELSE k)
  <2>1. \A s \in SUBSET A : s # {} => Alguno(s) \in A
    BY DEF Alguno
  <2> QED
    BY <2>1 DEF Caben, Menor
<1> HIDE DEF f
<1>4. PICK g \in [SUBSET A -> Int] : (\A s \in SUBSET A : g[s] = Sumando(f, g, s)) /\ SumaDe(f, A) = g[A]
  BY <1>2, SumaPorPasos
<1>5. g = [s \in SUBSET A |-> IF s = {} THEN 0
             ELSE LET x == CHOOSE x \in s : TRUE IN (IF l[x] < k THEN l[x] ELSE k) + g[s \ {x}]]
  <2>1. ASSUME NEW s \in SUBSET A
        PROVE  g[s] = (IF s = {} THEN 0
                 ELSE LET x == CHOOSE x \in s : TRUE IN (IF l[x] < k THEN l[x] ELSE k) + g[s \ {x}])
    <3>1. g[s] = Sumando(f, g, s)
      BY <1>4
    <3>2. CASE s = {}
      BY <3>1, <3>2 DEF Sumando
    <3>3. CASE s # {}
      <4>1. g[s] = f[Alguno(s)] + g[s \ {Alguno(s)}]
        BY <3>1, <3>3 DEF Sumando
      <4>2. f[Alguno(s)] = (IF l[Alguno(s)] < k THEN l[Alguno(s)] ELSE k)
        BY <1>3, <3>3
      <4>3. g[s] = (IF l[Alguno(s)] < k THEN l[Alguno(s)] ELSE k) + g[s \ {Alguno(s)}]
        BY <4>1, <4>2, Zenon
      <4> QED
        BY <3>3, <4>3, Zenon DEF Alguno
    <3> QED
      BY <3>2, <3>3
  <2>2. g = [s \in SUBSET A |-> g[s]]
    OBVIOUS
  <2> QED
    BY <2>1, <2>2, Zenon
<1>6. iter = [s \in SUBSET A |-> IF s = {} THEN 0
             ELSE LET x == CHOOSE x \in s : TRUE IN (IF l[x] < k THEN l[x] ELSE k) + iter[s \ {x}]]
  BY <1>5, Zenon
<1> HIDE DEF iter
<1>7. ASSUME NEW s \in SUBSET A
      PROVE  iter[s] = Sumando(f, iter, s)
  <2>1. iter[s] = (IF s = {} THEN 0
           ELSE LET x == CHOOSE x \in s : TRUE IN (IF l[x] < k THEN l[x] ELSE k) + iter[s \ {x}])
    BY <1>6, Zenon
  <2>2. CASE s = {}
    BY <2>1, <2>2 DEF Sumando
  <2>3. CASE s # {}
    <3>1. iter[s] = (IF l[Alguno(s)] < k THEN l[Alguno(s)] ELSE k) + iter[s \ {Alguno(s)}]
      BY <2>1, <2>3, Zenon DEF Alguno
    <3>2. f[Alguno(s)] = (IF l[Alguno(s)] < k THEN l[Alguno(s)] ELSE k)
      BY <1>3, <2>3
    <3>3. iter[s] = f[Alguno(s)] + iter[s \ {Alguno(s)}]
      BY <3>1, <3>2, Zenon
    <3> QED
      BY <2>3, <3>3, Zenon DEF Sumando
  <2> QED
    BY <2>2, <2>3
<1>8. iter[A] = g[A]
  <2>1. PorSumas(f, iter, A)
    BY <1>7 DEF PorSumas
  <2>2. PorSumas(f, g, A)
    BY <1>4 DEF PorSumas
  <2> QED
    BY <2>1, <2>2, SumaUnica
<1> QED
  BY <1>1, <1>4, <1>8 DEF f

(* An original on a node with a free block: one place less of what was     *)
(* left.                                                                   *)
LEMMA CabeOriginal ==
    ASSUME NEW A, IsFiniteSet(A), NEW l \in [Nodes -> Nat], A \subseteq Nodes, NEW r \in Nat \ {0},
           NEW n \in A, l[n] > 0, SumaDe(Caben(l, r, A), A) >= 2 * r
    PROVE  SumaDe(CabenSin([l EXCEPT ![n] = @ - 1], r, n, A), A) >= 2 * r - 1
<1> DEFINE f == Caben(l, r, A)
           d == -1
           g == CabenSin([l EXCEPT ![n] = @ - 1], r, n, A)
<1>1. f \in [A -> Int] /\ d \in Int
  BY DEF Caben, Menor
<1>2. g = [f EXCEPT ![n] = @ + d]
  <2>1. \A x \in A : g[x] = (IF x = n THEN f[x] + d ELSE f[x])
    <3>1. \A x \in A : l[x] \in Nat /\ x \in Nodes
      OBVIOUS
    <3>2. ASSUME NEW x \in A, x # n PROVE g[x] = f[x]
      BY <3>2 DEF Caben, CabenSin
    <3>3. g[n] = Menor(l[n] - 1, r - 1) /\ f[n] = Menor(l[n], r)
      BY DEF Caben, CabenSin
    <3>4. l[n] \in Nat
      BY <3>1
    <3>5. Menor(l[n] - 1, r - 1) = Menor(l[n], r) + d
      BY <3>4 DEF Menor
    <3> HIDE DEF f, g, d
    <3> QED
      BY <3>2, <3>3, <3>5
  <2>2. g = [x \in A |-> g[x]]
    BY DEF CabenSin
  <2>3. f = [x \in A |-> f[x]]
    BY DEF Caben
  <2> HIDE DEF f, g, d
  <2> QED
    BY <2>1, <2>2, <2>3
<1>3. SumaDe([f EXCEPT ![n] = @ + d], A) = SumaDe(f, A) + d
  <2> HIDE DEF f, d
  <2> QED
    BY <1>1, SumaCambia
<1>4. SumaDe(f, A) \in Int
  BY <1>1, SumaEntera
<1>5. SumaDe(g, A) = SumaDe(f, A) + d
  BY <1>2, <1>3
<1>6. SumaDe(f, A) >= 2 * r
  OBVIOUS
<1> HIDE DEF f, g
<1> QED
  BY <1>4, <1>5, <1>6 DEF g

(* A copy on the fullest of the other nodes, the one with most free        *)
(* blocks: what is left still fits.                                        *)
LEMMA CabeCopia ==
    ASSUME NEW A, IsFiniteSet(A), NEW l \in [Nodes -> Nat], A \subseteq Nodes, NEW r \in Nat \ {0},
           NEW m \in A, NEW n \in A, n # m, l[n] > 0, \A x \in A : x # m => l[x] <= l[n],
           SumaDe(CabenSin(l, r, m, A), A) >= 2 * r - 1
    PROVE  SumaDe(Caben([l EXCEPT ![n] = @ - 1], r - 1, A), A) >= 2 * (r - 1)
<1> DEFINE f == CabenSin(l, r, m, A)
           d == -1
           g == Caben([l EXCEPT ![n] = @ - 1], r - 1, A)
<1>1. \A x \in A : l[x] \in Nat /\ x \in Nodes
  OBVIOUS
<1>2. f \in [A -> Int] /\ d \in Int /\ g \in [A -> Nat]
  <2>1. f \in [A -> Int]
    BY DEF CabenSin, Menor
  <2>2. ASSUME NEW x \in A PROVE g[x] \in Nat
    <3>1. [l EXCEPT ![n] = @ - 1][x] \in Nat
      BY <1>1
    <3> QED
      BY <3>1 DEF Caben, Menor
  <2>3. g = [x \in A |-> g[x]]
    BY DEF Caben
  <2> HIDE DEF g
  <2> QED
    BY <2>1, <2>2, <2>3
<1>3. g[n] = Menor(l[n] - 1, r - 1) /\ f[n] = Menor(l[n], r)
  BY DEF Caben, CabenSin
<1>4. ASSUME NEW x \in A, x # n
      PROVE  g[x] = Menor(l[x], r - 1) /\ f[x] = (IF x = m THEN Menor(l[x], r - 1) ELSE Menor(l[x], r))
  BY <1>4 DEF Caben, CabenSin
<1>5. g = [x \in A |-> g[x]] /\ f = [x \in A |-> f[x]]
  BY DEF Caben, CabenSin
<1>6. SumaDe(f, A) >= 2 * r - 1
  OBVIOUS
<1> HIDE DEF f, g
<1>7. CASE \A x \in A : x # m /\ x # n => l[x] <= r - 1
  <2>1. g[n] = f[n] + d
    BY <1>1, <1>3 DEF Menor
  <2>2. ASSUME NEW x \in A, x # n PROVE g[x] = f[x]
    BY <1>1, <1>4, <1>7, <2>2 DEF Menor
  <2> HIDE DEF d
  <2>3. g = [f EXCEPT ![n] = @ + d]
    BY <1>5, <2>1, <2>2
  <2>4. SumaDe([f EXCEPT ![n] = @ + d], A) = SumaDe(f, A) + d
    BY <1>2, SumaCambia
  <2>5. SumaDe(f, A) \in Int
    BY <1>2, SumaEntera
  <2>6. SumaDe(g, A) = SumaDe(f, A) + d
    BY <2>3, <2>4
  <2>7. SumaDe(g, A) >= 2 * (r - 1)
    BY <1>6, <2>5, <2>6 DEF d
  <2> QED
    BY <2>7 DEF g
<1>8. CASE ~ \A x \in A : x # m /\ x # n => l[x] <= r - 1
  <2>1. PICK x \in A : x # m /\ x # n /\ l[x] > r - 1
    BY <1>1, <1>8
  <2>2. g[x] = r - 1
    BY <1>1, <1>4, <2>1 DEF Menor
  <2>3. g[n] = r - 1
    BY <1>1, <1>3, <2>1 DEF Menor
  <2>4. SumaDe(g, A) >= g[x] + g[n]
    BY <1>2, <2>1, SumaDeDos
  <2>5. SumaDe(g, A) >= 2 * (r - 1)
    BY <2>2, <2>3, <2>4
  <2> QED
    BY <2>5 DEF g
<1> QED
  BY <1>7, <1>8

(* What fits needs a node with a free block, and another one for a copy.   *)
LEMMA NoCabeNada ==
    ASSUME NEW A, IsFiniteSet(A), NEW l, NEW r \in Nat \ {0}, \A x \in A : l[x] \in Nat
    PROVE  /\ SumaDe(Caben(l, r, A), A) >= 2 * r => \E x \in A : l[x] > 0
           /\ \A m \in A : SumaDe(CabenSin(l, r, m, A), A) >= 2 * r - 1 => \E x \in A : x # m /\ l[x] > 0
<1>1. ASSUME \A x \in A : l[x] = 0
      PROVE  SumaDe(Caben(l, r, A), A) = 0
  <2> DEFINE f == Caben(l, r, A)
  <2>1. f \in [A -> {0}]
    BY <1>1 DEF Caben, Menor
  <2>2. 0 \in {0} /\ {0} \in SUBSET Int /\ \A p, q \in {0} : p + q \in {0}
    OBVIOUS
  <2> HIDE DEF f
  <2>3. SumaDe(f, A) \in {0}
    BY <2>1, <2>2, SumaCerrada
  <2> QED
    BY <2>3 DEF f
<1>2. ASSUME NEW m \in A, \A x \in A : x # m => l[x] = 0
      PROVE  SumaDe(CabenSin(l, r, m, A), A) < 2 * r - 1
  <2> DEFINE f == CabenSin(l, r, m, A)
  <2>1. f \in [A -> Int] /\ \A x \in A : x # m => f[x] = 0
    BY <1>2 DEF CabenSin, Menor
  <2>2. f[m] = Menor(l[m], r - 1)
    BY DEF CabenSin
  <2>3. f[m] <= r - 1 /\ f[m] \in Int
    BY <2>2 DEF Menor
  <2> HIDE DEF f
  <2>4. SumaDe(f, A) = f[m]
    BY <2>1, SumaDeUno
  <2>5. SumaDe(f, A) < 2 * r - 1
    BY <2>3, <2>4
  <2> QED
    BY <2>5 DEF f
<1>3. ASSUME SumaDe(Caben(l, r, A), A) >= 2 * r PROVE \E x \in A : l[x] > 0
  <2>1. SumaDe(Caben(l, r, A), A) # 0
    BY <1>3
  <2> QED
    BY <1>1, <2>1
<1>4. ASSUME NEW m \in A, SumaDe(CabenSin(l, r, m, A), A) >= 2 * r - 1
      PROVE  \E x \in A : x # m /\ l[x] > 0
  <2> DEFINE s == SumaDe(CabenSin(l, r, m, A), A)
  <2>1. s \in Int
    <3>1. CabenSin(l, r, m, A) \in [A -> Int]
      BY DEF CabenSin, Menor
    <3> QED
      BY <3>1, SumaEntera
  <2>2. s >= 2 * r - 1 /\ ((\A x \in A : x # m => l[x] = 0) => s < 2 * r - 1)
    BY <1>2, <1>4
  <2> HIDE DEF s
  <2> QED
    BY <2>1, <2>2
<1> QED
  BY <1>3, <1>4

(* The node at the first offset has most free blocks; that at the second   *)
(* has most of those that are not one with most of all.                    *)
LEMMA LugarEs ==
    ASSUME NEW A, IsFiniteSet(A), NEW l, \A x \in A : l[x] \in Int, NEW n \in A
    PROVE  /\ CanBeAt(A, l, n, 0) => \A x \in A : l[x] <= l[n]
           /\ \A m \in A : CanBeAt(A, l, n, 1) /\ (\A x \in A : l[x] <= l[m])
                              => \A x \in A : x # m => l[x] <= l[n]
<1> DEFINE S == {x \in A : l[x] > l[n]}
<1>1. IsFiniteSet(S) /\ Cardinality(S) \in Nat
  BY FS_Subset, FS_CardinalityType
<1>2. ASSUME CanBeAt(A, l, n, 0), NEW x \in A PROVE l[x] <= l[n]
  <2>1. Cardinality(S) = 0
    BY <1>1, <1>2 DEF CanBeAt
  <2>2. S = {}
    BY <1>1, <2>1, FS_EmptySet
  <2> QED
    BY <2>2
<1>3. ASSUME NEW m \in A, CanBeAt(A, l, n, 1), \A x \in A : l[x] <= l[m], NEW x \in A, x # m, l[x] > l[n]
      PROVE  FALSE
  <2>1. l[m] > l[n]
    BY <1>3
  <2>2. m \in S /\ x \in S
    BY <1>3, <2>1
  <2>3. Cardinality(S) <= 1
    BY <1>3 DEF CanBeAt
  <2> HIDE DEF S
  <2>4. Cardinality(S \ {m}) = 0 /\ IsFiniteSet(S \ {m})
    <3>1. Cardinality(S) # 0
      BY <1>1, <2>2, FS_EmptySet
    <3>2. IsFiniteSet(S \ {m}) /\ Cardinality(S \ {m}) = Cardinality(S) - 1
      BY <1>1, <2>2, FS_RemoveElement
    <3> QED
      BY <1>1, <2>3, <3>1, <3>2
  <2>5. S \ {m} = {}
    BY <2>4, FS_EmptySet
  <2> QED
    BY <1>3, <2>2, <2>5
<1> QED
  BY <1>2, <1>3

(* The block that a turn of the reservation takes, and the free blocks of  *)
(* a node: its count.                                                      *)
LEMMA CuentaLibres ==
    ASSUME UnHilo, Inv, Consistente, NEW n \in Nodes
    PROVE  libre[n] \in Nat /\ (libre[n] > 0 <=> FreeOf(Consola, n) # {})
<1> DEFINE S == bitmap[n] \cup ReservedOn(actual.res, n)
           B == BlocksOf(n)
<1>1. IsFiniteSet(B) /\ Cardinality(B) = Total[n] /\ Total[n] \in Nat
  BY BloquesDeNodo, DataNodeAssumption
<1>2. S \subseteq B
  BY CuentasSon, ReservadosEnNodo
<1>3. libre[n] = Total[n] - Cardinality(S)
  BY DEF Consistente, Libres
<1>4. FreeOf(Consola, n) = B \ S
  BY DEF FreeOf, FreeBlocks, ReservedOn, actual
<1> HIDE DEF S, B
<1>5. IsFiniteSet(S) /\ Cardinality(S) \in Nat /\ Cardinality(S) <= Cardinality(B)
  BY <1>1, <1>2, FS_Subset, FS_CardinalityType
<1>6. S # B => Cardinality(S) < Cardinality(B)
  <2>1. Cardinality(B) = Cardinality(S) => B = S
    BY <1>1, <1>2, FS_Subset
  <2> QED
    BY <1>1, <1>5, <2>1
<1>7. libre[n] \in Nat /\ (libre[n] > 0 <=> S # B)
  BY <1>1, <1>3, <1>5, <1>6
<1>8. B \ S # {} <=> S # B
  BY <1>2
<1> QED
  BY <1>4, <1>7, <1>8

(* A turn that takes a block.                                              *)
LEMMA ReservarEs ==
    ASSUME UnHilo, Inv, NEW n \in Nodes, ReserveBlock(Consola, n)
    PROVE  /\ actual.pc = "reserva" /\ actual'.pc = "reserva" /\ actual'.path = actual.path
           /\ actual'.activos = actual.activos /\ actual'.j = actual.j + 1
           /\ actual'.anterior = n /\ actual'.saltear = 0 /\ Len(actual'.res) = Len(actual.res) + 1
           /\ libre' = [libre EXCEPT ![n] = @ - 1]
           /\ RolledBack(actual.res)' = RolledBack(actual.res)
<1> DEFINE x == actual
           b == FirstOf(FreeOf(Consola, n))
           r == Reserved(n, b)
           y == [x EXCEPT !.res = Append(@, r), !.j = @ + 1, !.anterior = n, !.saltear = 0]
<1>1. x.pc = "reserva" /\ x \in LocalesDeHilo /\ hilo[Consola] = x /\ Consola \in Hilos
  BY Solo, ReservandoEs DEF ReserveBlock, actual
<1>2. b \in BlocksOf(n) /\ ~Contains(x.res, r)
  <2>1. FreeOf(Consola, n) \in SUBSET Nat /\ FreeOf(Consola, n) # {}
    <3>1. FreeOf(Consola, n) \subseteq BlocksOf(n)
      BY DEF FreeOf, FreeBlocks
    <3> QED
      BY <3>1, BloquesDeNodo DEF ReserveBlock
  <2>2. b \in FreeOf(Consola, n)
    BY <2>1, PrimeroEs
  <2> HIDE DEF b
  <2> QED
    BY <2>2, <1>1 DEF FreeOf, FreeBlocks
<1>3. actual' = y
  <2>1. hilo' = [hilo EXCEPT ![Consola] = y]
    BY <1>1, Solo, Zenon DEF ReserveBlock
  <2> HIDE DEF y
  <2> QED
    BY <2>1, Solo, ActualEs
<1>4. libre' = [libre EXCEPT ![n] = @ - 1]
  BY DEF ReserveBlock
<1> HIDE DEF b
<1>5. /\ actual'.pc = "reserva" /\ actual'.path = x.path /\ actual'.res = Append(x.res, r)
      /\ actual'.activos = x.activos /\ actual'.j = x.j + 1 /\ actual'.anterior = n /\ actual'.saltear = 0
  <2> HIDE DEF x, r
  <2> QED
    BY <1>1, <1>3 DEF LocalesDeHilo
<1> HIDE DEF y
<1>6. x.res \in Seq(Replica) /\ Len(x.res) \in Nat
  BY <1>1, ReservaEs
<1>7. Len(actual'.res) = Len(x.res) + 1
  BY <1>5, <1>6
<1>8. /\ b \notin ReservedOn(x.res, n)
      /\ ReservedOn(actual'.res, n) = ReservedOn(x.res, n) \cup {b}
      /\ \A m \in Nodes : m # n => ReservedOn(actual'.res, m) = ReservedOn(x.res, m)
  BY <1>2, <1>5, <1>6, ReservadosCrecen
<1>9. Cardinality(ReservedOn(actual'.res, n)) = Cardinality(ReservedOn(x.res, n)) + 1
  BY <1>8, ReservadosEnNodo, FS_AddElement
<1>10. libre'[n] = libre[n] - 1 /\ libre[n] \in Int /\ \A m \in Nodes : m # n => libre'[m] = libre[m]
  BY <1>4, CuentasSon
<1>11. \A m \in Nodes : libre'[m] + Cardinality(ReservedOn(actual'.res, m))
                          = libre[m] + Cardinality(ReservedOn(x.res, m))
  <2>1. Cardinality(ReservedOn(x.res, n)) \in Nat
    BY ReservadosEnNodo
  <2>2. libre'[n] + Cardinality(ReservedOn(actual'.res, n)) = libre[n] + Cardinality(ReservedOn(x.res, n))
    BY <1>9, <1>10, <2>1
  <2> QED
    BY <1>8, <1>10, <2>2
<1>12. RolledBack(actual.res)' = [m \in Nodes |-> libre'[m] + Cardinality(ReservedOn(actual'.res, m))]
  BY DEF RolledBack
<1>13. RolledBack(actual.res) = [m \in Nodes |-> libre[m] + Cardinality(ReservedOn(x.res, m))]
  BY DEF RolledBack
<1>14. RolledBack(actual.res)' = RolledBack(actual.res)
  BY <1>11, <1>12, <1>13
<1> QED
  BY <1>1, <1>4, <1>5, <1>7, <1>14

(* The turns that take none.                                               *)
LEMMA TurnoPasa ==
    ASSUME UnHilo, Inv, (\E n \in Nodes : SkipNode(Consola, n) \/ NodeIsFull(Consola, n)) \/ NoNodeLeft(Consola)
    PROVE  /\ actual'.pc = actual.pc /\ actual'.path = actual.path /\ actual'.activos = actual.activos
           /\ actual'.anterior = actual.anterior /\ actual'.res = actual.res /\ libre' = libre
           /\ (\E n \in Nodes : SkipNode(Consola, n)) => actual'.j = actual.j /\ actual'.saltear = 1
<1> DEFINE x == actual
<1>1. x \in LocalesDeHilo /\ libre' = libre
  BY Solo DEF SkipNode, NodeIsFull, NoNodeLeft, blockVars
<1>2. ASSUME NEW y, hilo' = [hilo EXCEPT ![Consola] = y] PROVE actual' = y
  BY <1>2, Solo, ActualEs
<1>3. ASSUME \E n \in Nodes : SkipNode(Consola, n)
      PROVE  actual' = [x EXCEPT !.saltear = 1]
  <2>1. hilo' = [hilo EXCEPT ![Consola] = [x EXCEPT !.saltear = 1]]
    BY <1>3, Zenon DEF SkipNode, actual
  <2> QED
    BY <1>2, <2>1
<1>4. ASSUME \E n \in Nodes : NodeIsFull(Consola, n)
      PROVE  actual' = [x EXCEPT !.j = @ + 1, !.saltear = 0]
  <2>1. hilo' = [hilo EXCEPT ![Consola] = [x EXCEPT !.j = @ + 1, !.saltear = 0]]
    BY <1>4, Zenon DEF NodeIsFull, actual
  <2> QED
    BY <1>2, <2>1
<1>5. ASSUME NoNodeLeft(Consola)
      PROVE  \E k : actual' = [x EXCEPT !.j = k]
  <2>1. \E k : hilo' = [hilo EXCEPT ![Consola] = [x EXCEPT !.j = k]]
    BY <1>5, Zenon DEF NoNodeLeft, actual
  <2> QED
    BY <1>2, <2>1
<1> HIDE DEF x
<1>6. CASE \E n \in Nodes : SkipNode(Consola, n)
  BY <1>1, <1>3, <1>6 DEF LocalesDeHilo, x
<1>7. CASE ~(\E n \in Nodes : SkipNode(Consola, n))
  <2>1. \/ actual' = [x EXCEPT !.j = @ + 1, !.saltear = 0]
        \/ \E k : actual' = [x EXCEPT !.j = k]
    BY <1>4, <1>5, <1>7
  <2> QED
    BY <1>1, <1>7, <2>1 DEF LocalesDeHilo, x
<1> QED
  BY <1>6, <1>7

(* The blocks that the reservation in course still needs, without the one  *)
(* whose original is taken.                                                *)
Quedan == BloquesContados[actual.path] - actual.j \div 2

(* Every turn took a block, and what is left fits.  An offset of 1 passes  *)
(* over a node that has most free blocks.                                  *)
Repartible ==
    /\ Len(actual.res) = actual.j
    /\ ~IsCopy(actual.j) =>
          /\ actual.saltear = 0
          /\ SumaDe(Caben(libre, Quedan, actual.activos), actual.activos) >= 2 * Quedan
    /\ IsCopy(actual.j) =>
          /\ actual.anterior \in actual.activos
          /\ actual.saltear = 1 => \A x \in actual.activos : libre[x] <= libre[actual.anterior]
          /\ SumaDe(CabenSin(libre, Quedan, actual.anterior, actual.activos), actual.activos)
                >= 2 * Quedan - 1

(* If the blocks fitted when the reservation started, it is not stuck.     *)
Cabia == RoomFor(RolledBack(actual.res), BloquesContados[actual.path], actual.activos)
Cabe == actual.pc = "reserva" /\ Cabia => Repartible

(* The values of a reservation in course.                                  *)
LEMMA RepartoEs ==
    ASSUME UnHilo, Inv, Consistente, actual.pc = "reserva"
    PROVE  /\ libre \in [Nodes -> Nat] /\ IsFiniteSet(actual.activos) /\ actual.activos \subseteq Nodes
           /\ BloquesContados[actual.path] \in Nat /\ actual.j \in Nat
           /\ actual.j <= 2 * BloquesContados[actual.path]
           /\ actual.saltear \in 0 .. 1 /\ Necesarios(Consola) = BloquesContados[actual.path]
           /\ actual.j < 2 * BloquesContados[actual.path] => Quedan \in Nat \ {0}
<1>1. libre \in [Nodes -> Nat]
  BY CuentasSon, CuentaLibres
<1>2. actual.activos \subseteq Nodes /\ actual.j \in Nat /\ actual.saltear \in 0 .. 1
  BY Solo DEF LocalesDeHilo
<1>3. IsFiniteSet(actual.activos)
  BY <1>2, FsWriteAssumption, FS_Subset
<1>4. actual.path \in Paths /\ actual.j <= 2 * BloquesContados[actual.path]
  BY Solo, ReservaEs DEF Bien, ReservaBien
<1>5. BloquesContados[actual.path] \in Nat
  BY <1>4, BloquesDeArchivo
<1>6. actual.j < 2 * BloquesContados[actual.path] => Quedan \in Nat \ {0}
  BY <1>2, <1>5 DEF Quedan
<1> QED
  BY <1>1, <1>2, <1>3, <1>4, <1>5, <1>6 DEF Necesarios, actual

(* The node of a turn has a free block, and a copy goes to the fullest of  *)
(* the others.                                                             *)
LEMMA TurnoConLugar ==
    ASSUME UnHilo, Inv, Consistente, Repartible, NEW n \in Nodes, Reserving(Consola, n)
    PROVE  /\ actual.pc = "reserva" /\ actual.j < 2 * BloquesContados[actual.path]
           /\ n \in actual.activos
           /\ actual.saltear = 0 => \A x \in actual.activos : libre[x] <= libre[n]
           /\ ~IsCopy(actual.j) => libre[n] > 0
           /\ IsCopy(actual.j) =>
                 \A x \in actual.activos : x # actual.anterior => libre[x] <= libre[n]
           /\ libre[n] > 0
<1> DEFINE A == actual.activos
           m == actual.anterior
<1>1. /\ actual.pc = "reserva" /\ actual.j < 2 * BloquesContados[actual.path] /\ n \in A
      /\ CanBeAt(A, libre, n, actual.saltear)
  BY DEF Reserving, At, actual, Necesarios
<1>2. /\ IsFiniteSet(A) /\ A \subseteq Nodes /\ Quedan \in Nat \ {0} /\ actual.saltear \in 0 .. 1
      /\ \A x \in A : libre[x] \in Nat
  BY <1>1, RepartoEs
<1> HIDE DEF A, m
<1>3. actual.saltear = 0 => \A x \in A : libre[x] <= libre[n]
  <2>1. \A x \in A : libre[x] \in Int
    BY <1>2
  <2> QED
    BY <1>1, <1>2, <2>1, LugarEs
<1>4. ASSUME IsCopy(actual.j) PROVE \A x \in A : x # m => libre[x] <= libre[n]
  <2>1. CASE actual.saltear = 0
    BY <1>3, <2>1
  <2>2. CASE actual.saltear = 1
    <3>1. m \in A /\ \A x \in A : libre[x] <= libre[m]
      BY <1>4, <2>2 DEF Repartible, A, m
    <3>2. CanBeAt(A, libre, n, 1)
      BY <1>1, <2>2
    <3>3. \A x \in A : libre[x] \in Int
      BY <1>2
    <3> QED
      BY <1>1, <1>2, <3>1, <3>2, <3>3, LugarEs
  <2> QED
    BY <1>2, <2>1, <2>2
<1>5. ASSUME ~IsCopy(actual.j) PROVE libre[n] > 0
  <2>1. actual.saltear = 0 /\ SumaDe(Caben(libre, Quedan, A), A) >= 2 * Quedan
    BY <1>5 DEF Repartible, A
  <2>2. \E x \in A : libre[x] > 0
    BY <1>2, <2>1, NoCabeNada
  <2> QED
    BY <1>1, <1>2, <1>3, <2>1, <2>2
<1>6. ASSUME IsCopy(actual.j) PROVE libre[n] > 0
  <2>1. m \in A /\ SumaDe(CabenSin(libre, Quedan, m, A), A) >= 2 * Quedan - 1
    BY <1>6 DEF Repartible, A, m
  <2>2. \E x \in A : x # m /\ libre[x] > 0
    BY <1>2, <2>1, NoCabeNada
  <2> QED
    BY <1>1, <1>2, <1>4, <1>6, <2>2
<1> QED
  BY <1>1, <1>3, <1>4, <1>5, <1>6 DEF A, m

(* Taking a block keeps what is left fitting.                              *)
LEMMA ReparteBloque ==
    ASSUME UnHilo, Inv, Consistente, Repartible, NEW n \in Nodes, ReserveBlock(Consola, n)
    PROVE  Repartible'
<1> DEFINE A == actual.activos
           m == actual.anterior
           k == BloquesContados[actual.path]
           j == actual.j
           l == libre
           r == Quedan
<1>1. /\ actual.pc = "reserva" /\ j < 2 * k /\ n \in A /\ l[n] > 0
      /\ actual.saltear = 0 => \A x \in A : l[x] <= l[n]
      /\ IsCopy(j) => \A x \in A : x # m => l[x] <= l[n]
  <2>1. Reserving(Consola, n)
    BY DEF ReserveBlock
  <2> QED
    BY <2>1, TurnoConLugar
<1>2. /\ l \in [Nodes -> Nat] /\ IsFiniteSet(A) /\ A \subseteq Nodes /\ k \in Nat /\ j \in Nat
      /\ r \in Nat \ {0}
  BY <1>1, RepartoEs
<1>3. /\ actual'.path = actual.path /\ actual'.activos = A /\ actual'.j = j + 1 /\ actual'.anterior = n
      /\ actual'.saltear = 0 /\ Len(actual'.res) = Len(actual.res) + 1 /\ libre' = [l EXCEPT ![n] = @ - 1]
  BY ReservarEs
<1>4. Len(actual'.res) = actual'.j
  BY <1>3 DEF Repartible
<1>5. Quedan' = k - (j + 1) \div 2 /\ r = k - j \div 2
  BY <1>3 DEF Quedan
<1>6. CASE ~IsCopy(j)
  <2>1. SumaDe(Caben(l, r, A), A) >= 2 * r
    BY <1>6 DEF Repartible
  <2>2. IsCopy(j + 1) /\ Quedan' = r
    BY <1>2, <1>5, <1>6 DEF IsCopy
  <2> HIDE DEF A, m, k, j, l, r
  <2>3. SumaDe(CabenSin([l EXCEPT ![n] = @ - 1], r, n, A), A) >= 2 * r - 1
    BY <1>1, <1>2, <2>1, CabeOriginal
  <2>4. SumaDe(CabenSin(libre', Quedan', n, A), A) >= 2 * Quedan' - 1
    BY <1>3, <2>2, <2>3
  <2> QED
    BY <1>1, <1>3, <1>4, <2>2, <2>4 DEF Repartible
<1>7. CASE IsCopy(j)
  <2>1. m \in A /\ SumaDe(CabenSin(l, r, m, A), A) >= 2 * r - 1
    BY <1>7 DEF Repartible
  <2>2. ~IsCopy(j + 1) /\ Quedan' = r - 1
    BY <1>2, <1>5, <1>7 DEF IsCopy
  <2>3. n # m
    BY <1>7 DEF ReserveBlock, SameNodeAsOriginal, actual
  <2> HIDE DEF A, m, k, j, l, r
  <2>4. SumaDe(Caben([l EXCEPT ![n] = @ - 1], r - 1, A), A) >= 2 * (r - 1)
    BY <1>1, <1>2, <1>7, <2>1, <2>3, CabeCopia
  <2>5. SumaDe(Caben(libre', Quedan', A), A) >= 2 * Quedan'
    BY <1>3, <2>2, <2>4
  <2> QED
    BY <1>3, <1>4, <2>2, <2>5 DEF Repartible
<1> QED
  BY <1>6, <1>7

(* Passing over a node keeps it too; and no node that is reached is full,  *)
(* nor do they run out.                                                    *)
LEMMA ReparteTurno ==
    ASSUME UnHilo, Inv, Consistente, Repartible,
           (\E n \in Nodes : SkipNode(Consola, n) \/ NodeIsFull(Consola, n)) \/ NoNodeLeft(Consola)
    PROVE  Repartible'
<1> DEFINE A == actual.activos
<1>1. ASSUME NEW n \in Nodes, NodeIsFull(Consola, n) PROVE FALSE
  <2>1. Reserving(Consola, n) /\ FreeOf(Consola, n) = {}
    BY <1>1 DEF NodeIsFull
  <2>2. libre[n] > 0
    BY <2>1, TurnoConLugar
  <2> QED
    BY <2>1, <2>2, CuentaLibres
<1>2. ASSUME NoNodeLeft(Consola) PROVE FALSE
  <2>1. actual.pc = "reserva" /\ actual.j < 2 * BloquesContados[actual.path]
        /\ actual.saltear >= Cardinality(A)
    BY <1>2 DEF NoNodeLeft, At, actual, Necesarios
  <2>2. /\ IsFiniteSet(A) /\ Quedan \in Nat \ {0} /\ actual.saltear \in 0 .. 1
        /\ \A x \in A : libre[x] \in Nat
    BY <2>1, RepartoEs
  <2>3. Cardinality(A) \in Nat
    BY <2>2, FS_CardinalityType
  <2> HIDE DEF A
  <2>4. CASE ~IsCopy(actual.j)
    <3>1. actual.saltear = 0 /\ SumaDe(Caben(libre, Quedan, A), A) >= 2 * Quedan
      BY <2>4 DEF Repartible, A
    <3>2. A # {}
      BY <2>2, <3>1, NoCabeNada
    <3>3. Cardinality(A) # 0
      BY <2>2, <3>2, FS_EmptySet
    <3> QED
      BY <2>1, <2>3, <3>1, <3>3
  <2>5. CASE IsCopy(actual.j)
    <3> DEFINE m == actual.anterior
    <3>1. m \in A /\ SumaDe(CabenSin(libre, Quedan, m, A), A) >= 2 * Quedan - 1
      BY <2>5 DEF Repartible, A
    <3>2. PICK x \in A : x # m
      BY <2>2, <3>1, NoCabeNada
    <3>3. {x, m} \subseteq A /\ Cardinality({x, m}) = 2
      <4>1. IsFiniteSet({m}) /\ Cardinality({m}) = 1 /\ x \notin {m}
        BY <3>2, FS_Singleton
      <4>2. Cardinality({m} \cup {x}) = 2
        BY <4>1, FS_AddElement
      <4>3. {m} \cup {x} = {x, m}
        OBVIOUS
      <4> QED
        BY <3>1, <4>2, <4>3
    <3>4. Cardinality({x, m}) <= Cardinality(A)
      BY <2>2, <3>3, FS_Subset
    <3> QED
      BY <2>1, <2>2, <2>3, <3>3, <3>4
  <2> QED
    BY <2>4, <2>5
<1>3. ASSUME NEW n \in Nodes, SkipNode(Consola, n) PROVE Repartible'
  <2>1. Reserving(Consola, n) /\ actual.anterior = n /\ IsCopy(actual.j)
    BY <1>3 DEF SkipNode, SameNodeAsOriginal, actual
  <2>2. /\ actual'.path = actual.path /\ actual'.activos = A /\ actual'.anterior = n /\ actual'.res = actual.res
        /\ libre' = libre /\ actual'.j = actual.j /\ actual'.saltear = 1
    BY <1>3, <2>1, TurnoPasa
  <2>3. \A x \in A : libre[x] <= libre[n]
    <3>1. actual.saltear \in 0 .. 1
      BY <2>1, TurnoConLugar, RepartoEs
    <3>2. actual.saltear = 1 => \A x \in A : libre[x] <= libre[n]
      BY <2>1 DEF Repartible
    <3>3. actual.saltear = 0 => \A x \in A : libre[x] <= libre[n]
      BY <2>1, TurnoConLugar
    <3> QED
      BY <3>1, <3>2, <3>3
  <2>4. Quedan' = Quedan
    BY <2>2 DEF Quedan
  <2> QED
    BY <2>1, <2>2, <2>3, <2>4 DEF Repartible
<1> QED
  BY <1>1, <1>2, <1>3

(* The steps after which the console is not reserving.                     *)
LEMMA NoReserva ==
    ASSUME UnHilo, Inv, NEW t \in Hilos, Command(t) \/ ThreadStep(t)
    PROVE  \/ UNCHANGED <<hilo, libre>>
           \/ actual'.pc # "reserva"
           \/ \E f \in Paths : EscribirArchivo(Consola, f)
           \/ \E n \in Nodes : ReserveBlock(Consola, n)
           \/ (\E n \in Nodes : SkipNode(Consola, n) \/ NodeIsFull(Consola, n)) \/ NoNodeLeft(Consola)
<1>1. t = Consola /\ actual \in LocalesDeHilo
  BY Solo
<1>2. ASSUME NEW r, Ends(Consola, r) PROVE actual'.pc # "reserva"
  <2>1. hilo' = [hilo EXCEPT ![Consola] = Idle(r)]
    BY <1>2 DEF Ends
  <2>2. actual' = Idle(r)
    BY <2>1, Solo, ActualEs
  <2> QED
    BY <2>2 DEF Idle
<1>3. ASSUME NEW y, hilo' = [hilo EXCEPT ![Consola] = y], y.pc # "reserva" PROVE actual'.pc # "reserva"
  BY <1>3, Solo, ActualEs
<1>4. ASSUME NEW p, p # "reserva", hilo' = [hilo EXCEPT ![Consola].pc = p] PROVE actual'.pc # "reserva"
  BY <1>4, Solo DEF actual, LocalesDeHilo
<1>5. ASSUME NEW p, NEW c, p # "reserva", hilo' = [hilo EXCEPT ![Consola].pc = p, ![Consola].cfg = c]
      PROVE  actual'.pc # "reserva"
  BY <1>5, Solo DEF actual, LocalesDeHilo
<1>6. ASSUME NEW f \in Paths, EliminarArchivo(Consola, f) PROVE actual'.pc # "reserva"
  <2>1. \/ Ends(Consola, "NO_EXISTE")
        \/ \E l : hilo' = [hilo EXCEPT ![Consola] = [Idle("NADA") EXCEPT !.pc = "libera", !.path = f, !.libera = l]]
    BY <1>6, Zenon DEF EliminarArchivo
  <2>2. \A l : [Idle("NADA") EXCEPT !.pc = "libera", !.path = f, !.libera = l].pc # "reserva"
    BY DEF Idle
  <2> QED
    BY <1>2, <1>3, <2>1, <2>2
<1>7. ASSUME NEW f \in Paths, LeerArchivo(Consola, f) PROVE actual'.pc # "reserva"
  BY <1>7, LeerEs
<1>8. ASSUME ReadLocally(Consola), UNCHANGED dataNodeVars PROVE actual'.pc # "reserva"
  <2>1. CASE ElegirNodos(Consola)
    BY <2>1, ElegirEs
  <2>2. CASE NoHayNodos(Consola)
    BY <2>2, NoHayEs
  <2>3. CASE PrepararLectura(Consola)
    BY <2>3, PrepararEs
  <2>4. CASE ExcluirNodo(Consola)
    BY <2>4, ExcluirEs
  <2>5. CASE EsperarLectura(Consola)
    BY <2>5, EsperarEs
  <2>6. CASE RevisarLectura(Consola)
    BY <2>6, RevisarEs
  <2>7. CASE ArmarRespuesta(Consola)
    BY <2>7, ArmarEs
  <2> QED
    BY <1>8, <2>1, <2>2, <2>3, <2>4, <2>5, <2>6, <2>7 DEF ReadLocally
<1>9. ASSUME PedirBloque(Consola), UNCHANGED <<vivo, disco, salida, muertes>>
      PROVE  UNCHANGED <<hilo, libre>> \/ actual'.pc # "reserva"
  <2>1. UNCHANGED hilo \/ actual'.pc \in {"aguarda", "pide"}
    BY <1>9, PedirEs
  <2>2. UNCHANGED libre
    BY <1>9 DEF PedirBloque, blockVars
  <2> QED
    BY <2>1, <2>2
<1>10. ASSUME SendBlock(Consola) PROVE UNCHANGED <<hilo, libre>> \/ actual'.pc # "reserva"
  <2>1. UNCHANGED <<hilo, libre>> \/ hilo' = [hilo EXCEPT ![Consola].pc = "espera"]
    BY <1>10, Zenon DEF SendBlock, SendTo, blockVars
  <2> QED
    BY <1>4, <2>1
<1>11. ASSUME WriteLocally(Consola)
       PROVE  \/ UNCHANGED <<hilo, libre>>
              \/ actual'.pc # "reserva"
              \/ \E n \in Nodes : ReserveBlock(Consola, n)
              \/ (\E n \in Nodes : SkipNode(Consola, n) \/ NodeIsFull(Consola, n)) \/ NoNodeLeft(Consola)
  <2>1. CASE LiberarBloque(Consola) \/ AwaitWrite(Consola)
    <3>1. \/ hilo' = [hilo EXCEPT ![Consola].pc = "guarda", ![Consola].cfg = nodosBin]
          \/ hilo' = [hilo EXCEPT ![Consola].pc = "guardaLibre", ![Consola].cfg = nodosBin]
      BY <2>1, Zenon DEF LiberarBloque, AwaitWrite
    <3> QED
      BY <1>5, <3>1
  <2>2. CASE GuardarLibre(Consola)
    <3>1. \/ Ends(Consola, "ELIMINADO")
          \/ \E v : hilo' = [hilo EXCEPT ![Consola].i = v, ![Consola].pc = "libera", ![Consola].cfg = NULL]
      BY <2>2, Zenon DEF GuardarLibre
    <3>2. ASSUME NEW v, hilo' = [hilo EXCEPT ![Consola].i = v, ![Consola].pc = "libera", ![Consola].cfg = NULL]
          PROVE  actual'.pc # "reserva"
      BY <3>2, Solo DEF actual, LocalesDeHilo
    <3> QED
      BY <1>2, <3>1, <3>2
  <2>3. CASE NoBitMap(Consola)
    BY <2>3 DEF NoBitMap, blockVars
  <2>4. CASE SinEspacio(Consola)
    BY <1>2, <2>4 DEF SinEspacio
  <2>5. CASE BlocksReserved(Consola)
    BY <1>2, <1>4, <2>5 DEF BlocksReserved
  <2>6. CASE ActualizarConfigNodoEnBin(Consola)
    <3>1. \E v, p : /\ hilo' = [hilo EXCEPT ![Consola].i = v, ![Consola].cfg = NULL, ![Consola].pc = p]
                    /\ p = IF actual.i = 2 * Len(BloquesDelHilo(Consola)) THEN "metadata" ELSE "escribe"
      BY <2>6, Zenon DEF ActualizarConfigNodoEnBin, actual
    <3>2. ASSUME NEW v, NEW p, p # "reserva",
                 hilo' = [hilo EXCEPT ![Consola].i = v, ![Consola].cfg = NULL, ![Consola].pc = p]
          PROVE  actual'.pc # "reserva"
      BY <3>2, Solo DEF actual, LocalesDeHilo
    <3> QED
      BY <3>1, <3>2
  <2>7. CASE CrearArchivoMetadata(Consola)
    BY <1>4, <2>7 DEF CrearArchivoMetadata
  <2>8. CASE ActualizarBitMapBloques(Consola)
    BY <1>2, <2>8 DEF ActualizarBitMapBloques
  <2> QED
    BY <1>11, <2>1, <2>2, <2>3, <2>4, <2>5, <2>6, <2>7, <2>8 DEF WriteLocally
<1> QED
  BY <1>1, <1>6, <1>7, <1>8, <1>9, <1>10, <1>11 DEF Command, ThreadStep

(* The start of a reservation: nothing is taken yet.                       *)
LEMMA CabeAlEmpezar ==
    ASSUME UnHilo, Inv, Inv', Consistente', NEW f \in Paths, EscribirArchivo(Consola, f)
    PROVE  Cabe'
<1>1. CASE actual'.pc # "reserva"
  BY <1>1 DEF Cabe
<1>2. CASE UNCHANGED hilo
  <2>1. actual.pc = "libre"
    BY DEF EscribirArchivo, Order, At, actual
  <2> QED
    BY <1>2, <2>1 DEF Cabe, actual
<1>3. CASE actual'.pc = "reserva" /\ ~UNCHANGED hilo
  <2>1. PICK a \in SUBSET Nodes :
           hilo' = [hilo EXCEPT ![Consola] = [Idle("NADA") EXCEPT !.pc = "reserva", !.path = f, !.activos = a]]
    <3>1. CASE Ends(Consola, "ARCHIVO_EXISTENTE")
      <4>1. actual' = Idle("ARCHIVO_EXISTENTE")
        BY <3>1, Solo, ActualEs DEF Ends
      <4> QED
        BY <1>3, <4>1 DEF Idle
    <3>2. CASE ~Ends(Consola, "ARCHIVO_EXISTENTE")
      BY <1>3, <3>2, Zenon DEF EscribirArchivo
    <3> QED
      BY <3>1, <3>2
  <2>2. actual' = [Idle("NADA") EXCEPT !.pc = "reserva", !.path = f, !.activos = a]
    BY <2>1, Solo, ActualEs
  <2>3. /\ actual'.res = <<>> /\ actual'.j = 0 /\ actual'.saltear = 0 /\ actual'.activos = a
        /\ actual'.path = f
    BY <2>2 DEF Idle
  <2>4. Len(actual'.res) = 0 /\ ~IsCopy(0) /\ 0 \div 2 = 0
    BY <2>3 DEF IsCopy
  <2>5. BloquesContados[f] \in Nat /\ IsFiniteSet(a)
    BY BloquesDeArchivo, FsWriteAssumption, FS_Subset
  <2>6. Quedan' = BloquesContados[f]
    BY <2>3, <2>4, <2>5 DEF Quedan
  <2>7. libre' \in [Nodes -> Int]
    <3>1. Inv => libre \in [Nodes -> Int]
      BY CuentasSon
    <3> QED
      BY DEF EscribirArchivo, blockVars, Inv, TypeOK, ProcessTypeOK
  <2>8. \A n \in Nodes : RolledBack(actual.res)'[n] = libre'[n]
    <3>1. \A n \in Nodes : RolledBack(actual.res)'[n] = libre'[n] + Cardinality(ReservedOn(<<>>, n))
      BY <2>3 DEF RolledBack
    <3> QED
      BY <2>7, <3>1, NadaReservado
  <2>9. RoomFor(RolledBack(actual.res)', BloquesContados[f], a) =>
           SumaDe(Caben(libre', BloquesContados[f], a), a) >= 2 * BloquesContados[f]
    <3> DEFINE l == RolledBack(actual.res)'
    <3>1. \A n \in a : l[n] = libre'[n] /\ l[n] \in Int
      BY <2>7, <2>8
    <3> HIDE DEF l
    <3>2. Caben(l, BloquesContados[f], a) = Caben(libre', BloquesContados[f], a)
      BY <3>1 DEF Caben
    <3>3. RoomFor(l, BloquesContados[f], a) <=>
             SumaDe(Caben(l, BloquesContados[f], a), a) >= 2 * BloquesContados[f]
      BY <2>5, <3>1, HayLugar
    <3> QED
      BY <3>2, <3>3 DEF l
  <2>10. Cabia' <=> RoomFor(RolledBack(actual.res)', BloquesContados[f], a)
    BY <2>3 DEF Cabia
  <2> QED
    BY <2>3, <2>4, <2>6, <2>9, <2>10 DEF Cabe, Repartible
<1> QED
  BY <1>1, <1>2, <1>3

(* Every step preserves Cabe.                                              *)
LEMMA CabeSigue ==
    ASSUME UnHilo, Inv, Inv', Consistente, Consistente', Cabe, [Next]_vars
    PROVE  Cabe'
<1>1. ASSUME UNCHANGED <<hilo, libre>> PROVE Cabe'
  BY <1>1 DEF Cabe, Cabia, Repartible, Quedan, RolledBack, actual
<1>2. ASSUME actual'.pc # "reserva" PROVE Cabe'
  BY <1>2 DEF Cabe
<1>3. ASSUME NEW n \in Nodes, ReserveBlock(Consola, n) PROVE Cabe'
  <2>1. Cabia' => Cabia
    BY <1>3, ReservarEs DEF Cabia
  <2>2. Repartible => Repartible'
    BY <1>3, ReparteBloque
  <2>3. actual.pc = "reserva"
    BY <1>3, ReservarEs
  <2> QED
    BY <2>1, <2>2, <2>3 DEF Cabe
<1>4. ASSUME (\E n \in Nodes : SkipNode(Consola, n) \/ NodeIsFull(Consola, n)) \/ NoNodeLeft(Consola)
      PROVE  Cabe'
  <2>1. /\ actual'.pc = actual.pc /\ actual'.path = actual.path /\ actual'.activos = actual.activos
        /\ actual'.res = actual.res /\ libre' = libre
    BY <1>4, TurnoPasa
  <2>2. Cabia' => Cabia
    BY <2>1 DEF Cabia, RolledBack
  <2>3. Repartible => Repartible'
    BY <1>4, ReparteTurno
  <2> QED
    BY <2>1, <2>2, <2>3 DEF Cabe
<1>5. ASSUME NEW t \in Hilos, Command(t) \/ ThreadStep(t) PROVE Cabe'
  BY <1>1, <1>2, <1>3, <1>4, <1>5, NoReserva, CabeAlEmpezar
<1>6. ASSUME NEW n \in Nodes, Atender(n) \/ NodeStep(n) \/ NodeLost(n) PROVE Cabe'
  <2>1. UNCHANGED <<hilo, libre>>
    BY <1>6 DEF Atender, EscrituraOk, LecturaOk, LecturaSinLista, PedidoInvalido, NodoDesconectado,
                EliminarNodo, blockVars, NodeStep, NodeLost, fsVars
  <2> QED
    BY <1>1, <2>1
<1>7. CASE UNCHANGED vars
  BY <1>1, <1>7 DEF vars, fsVars, blockVars
<1> QED
  BY <1>5, <1>6, <1>7 DEF Next

(* A write that gives up left a turn without a block.                      *)
LEMMA SinLugar ==
    ASSUME UnHilo, Inv, Consistente, Cabe
    PROVE  \A t \in Hilos : SinEspacio(t) => ~RoomFor(libre', Necesarios(t), hilo[t].activos)
<1>1. ASSUME SinEspacio(Consola) PROVE ~RoomFor(libre', Necesarios(Consola), actual.activos)
  <2>1. /\ actual.pc = "reserva" /\ actual.j = 2 * Necesarios(Consola)
        /\ Len(actual.res) # 2 * Necesarios(Consola) /\ libre' = RolledBack(actual.res)
    BY <1>1 DEF SinEspacio, At, actual
  <2>2. ~Repartible
    BY <2>1 DEF Repartible
  <2>3. ~Cabia
    BY <2>1, <2>2 DEF Cabe
  <2>4. Necesarios(Consola) = BloquesContados[actual.path]
    BY DEF Necesarios, actual
  <2> QED
    BY <2>1, <2>3, <2>4 DEF Cabia
<1> QED
  BY <1>1, Solo DEF actual

(* RefusedOnlyWithoutRoom, of every step, with the console alone: the      *)
(* greedy choice of nodes never fails where another one would do, whatever *)
(* ties it breaks and nodes it passes over.                                *)
THEOREM RefusalsAreRight ==
    ASSUME UnHilo
    PROVE  Spec => RefusedOnlyWithoutRoom
<1>1. Init => Cabe
  BY FsWriteAssumption DEF Init, WriteInit, Cabe, actual, Idle
<1>2. Inv /\ Inv' /\ Consistente /\ Consistente' /\ Cabe /\ [Next]_vars => Cabe'
  BY CabeSigue
<1>3. Inv /\ Consistente /\ Cabe /\ [Next]_vars =>
         [\A t \in Hilos : SinEspacio(t) => ~RoomFor(libre', Necesarios(t), hilo[t].activos)]_vars
  BY SinLugar
<1> QED
  BY <1>1, <1>2, <1>3, InvHolds, ConsistenteSiempre, PTL DEF Spec, RefusedOnlyWithoutRoom

=============================================================================
