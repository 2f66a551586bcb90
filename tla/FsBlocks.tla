------------------------------ MODULE FsBlocks ------------------------------
(***************************************************************************)
(* The algorithms of the FileSystem on the blocks of a file: how many a    *)
(* content takes and how it is cut (escribirArchivo,                       *)
(* obtenerBloquesNecesarios), which node gives the next block of a         *)
(* reservation (obtenerBloquesLibres) and which replica of each block is   *)
(* read (obtenerNodosALeer).                                               *)
(***************************************************************************)
EXTENDS Integers, FiniteSets, SequencesExt

CONSTANT TamanioBloque  \* TAMANIO_BLOQUE, in the units of the contents

ASSUME FsBlocksAssumption == TamanioBloque \in Nat \ {0}

(* A content: a text is the lengths of its lines, each with its '\n', and  *)
(* the bytes after the last one; a binary is a number of bytes.            *)
Texto(lineas, resto) == [tipo |-> "TEXTO", lineas |-> lineas, resto |-> resto]
Binario(bytes) == [tipo |-> "BINARIO", lineas |-> <<>>, resto |-> bytes]

SumOf(s) == FoldLeft(+, 0, s)

(* A line longer than a block makes obtenerBloquesNecesarios exit. *)
RenglonInvalido(c) ==
    c.tipo = "TEXTO" /\ \E i \in DOMAIN c.lineas : c.lineas[i] > TamanioBloque

BloquesBinario(bytes) ==
    bytes \div TamanioBloque + (IF bytes % TamanioBloque > 0 THEN 1 ELSE 0)

(* The first pass over the content: it only counts. *)
CountLine(acc, d) ==
    IF d <= acc.restante
    THEN [acc EXCEPT !.restante = @ - d]
    ELSE [i |-> acc.i + 1, restante |-> TamanioBloque - d]

CountedLines(lineas) ==
    LET acc[k \in 0 .. Len(lineas)] ==
          IF k = 0 THEN [i |-> 0, restante |-> TamanioBloque]
                   ELSE CountLine(acc[k - 1], lineas[k])
    IN  acc[Len(lineas)]

ObtenerBloquesNecesarios(c) ==
    IF c.tipo = "BINARIO" THEN BloquesBinario(c.resto) ELSE CountedLines(c.lineas).i + 1

(* The second pass: finBytes of every block as it is sent.  The bytes      *)
(* after the last '\n' of a text are in no block.                          *)
CutLine(acc, d) ==
    IF d <= TamanioBloque - acc.finBytes
    THEN [acc EXCEPT !.finBytes = @ + d]
    ELSE [llenos |-> Append(acc.llenos, acc.finBytes), finBytes |-> d]

CutLines(lineas) ==
    LET acc[k \in 0 .. Len(lineas)] ==
          IF k = 0 THEN [llenos |-> <<>>, finBytes |-> 0]
                   ELSE CutLine(acc[k - 1], lineas[k])
    IN  acc[Len(lineas)]

CutText(lineas) == Append(CutLines(lineas).llenos, CutLines(lineas).finBytes)

CutBinary(bytes) ==
    [i \in 1 .. BloquesBinario(bytes) |->
        LET restante == bytes - (i - 1) * TamanioBloque
        IN  IF restante < TamanioBloque THEN restante ELSE TamanioBloque]

BloquesDe(c) == IF c.tipo = "BINARIO" THEN CutBinary(c.resto) ELSE CutText(c.lineas)

(* tamanioArchivo: every byte that was scanned. *)
TamanioArchivo(c) == SumOf(c.lineas) + c.resto

-----------------------------------------------------------------------------

(* Faulty variant of CanBeAt: the comparison of ordenarPorCarga turned     *)
(* round.                                                                  *)
CanBeAtReversed(activos, libre, n, p) ==
    /\ Cardinality({m \in activos : libre[m] < libre[n]}) <= p
    /\ p < Cardinality({m \in activos : libre[m] <= libre[n]})

(* decidirNodo sorts the active nodes by free blocks and leaves ties in    *)
(* any order: node n can be at offset p of the sorted list.                *)
CanBeAt(activos, libre, n, p) ==
    /\ Cardinality({m \in activos : libre[m] > libre[n]}) <= p
    /\ p < Cardinality({m \in activos : libre[m] >= libre[n]})

Reserved(n, b) == [nodo |-> n, bloque |-> b]

(* The blocks of n that are neither in its bitmap nor in the reservation. *)
FreeBlocks(n, bloques, bitmap, res) ==
    {b \in bloques : b \notin bitmap /\ ~Contains(res, Reserved(n, b))}

FirstOf(S) == CHOOSE b \in S : \A c \in S : b <= c

IsCopy(j) == j % 2 = 1

-----------------------------------------------------------------------------
(* A block as the metadata lists it: its size and its two replicas. *)
Bloque(fin, copia0, copia1) == [finBytes |-> fin, copias |-> <<copia0, copia1>>]

HoldersOf(bloque) == {bloque.copias[c].nodo : c \in 1 .. 2}

(* idBloque of the replica on n; the copy wins if both are there. *)
IdBloqueOn(bloque, n) ==
    IF bloque.copias[2].nodo = n THEN bloque.copias[2].bloque ELSE bloque.copias[1].bloque

(* nodosSinRepetir lists the nodes of a file by first mention. *)
Mentions(bloques, n) ==
    {k \in 1 .. 2 * Len(bloques) : bloques[(k + 1) \div 2].copias[2 - (k % 2)].nodo = n}

FirstMentioned(bloques, S) ==
    CHOOSE n \in S : \A m \in S : FirstOf(Mentions(bloques, n)) <= FirstOf(Mentions(bloques, m))

(* Faulty variant of MaxIteraciones: one iteration for each block. *)
MaxIteracionesShort(bloques) == Len(bloques)

(* The iterations that the selection may take before it gives up. *)
MaxIteraciones(bloques) == 2 * Len(bloques)

(* One iteration of the selection: the next block takes the first node     *)
(* with uso = 0 that holds it; if there is none, every uso is reset and    *)
(* the block is tried again.                                               *)
SelectIteration(bloques, exc, acc) ==
    IF Len(acc.sel) = Len(bloques) THEN acc
    ELSE LET usable == HoldersOf(bloques[Len(acc.sel) + 1]) \ (exc \cup acc.enUso)
         IN  IF usable = {} THEN [acc EXCEPT !.enUso = {}]
             ELSE LET n == FirstMentioned(bloques, usable)
                  IN  [sel |-> Append(acc.sel, n), enUso |-> acc.enUso \cup {n}]

(* The node to read each block from: one selection, or none. *)
Selection(bloques, exc) ==
    LET acc[k \in 0 .. MaxIteraciones(bloques)] ==
          IF k = 0 THEN [sel |-> <<>>, enUso |-> {}]
                   ELSE SelectIteration(bloques, exc, acc[k - 1])
    IN  acc[MaxIteraciones(bloques)].sel

ObtenerNodosALeer(bloques, exc) ==
    {sel \in {Selection(bloques, exc)} : Len(sel) = Len(bloques)}

=============================================================================
