---------------------------- MODULE FsDirectorios ----------------------------
(***************************************************************************)
(* The directories of the FileSystem and the metadata of its files: the    *)
(* table of directories in directorios.dat, a folder of metadata for each  *)
(* index of the table, and the commands of the console that change them,   *)
(* while a worker writes files too.  Table and metadata are on disk and    *)
(* survive the process.  Blocks are in the module FileSystem.              *)
(***************************************************************************)
EXTENDS Integers, Sequences, FiniteSets, SequencesExt

CONSTANTS
    Nombres,       \* names of files and of directories
    Punto,         \* "."
    NULL,          \* no name, no file
    Worker,        \* the thread that writes for a worker
    Consola,       \* the thread of the console
    MAX_DIR_FS,    \* size of the table, the root included
    Rutas,         \* the paths that commands are given
    MaxEscrituras  \* bound: files written

ASSUME FsDirectoriosAssumption ==
    /\ {Punto, NULL} \cap Nombres = {} /\ Punto # NULL /\ Worker # Consola
    /\ MAX_DIR_FS \in Nat \ {0} /\ MaxEscrituras \in Nat
    /\ NULL \notin 1 .. MaxEscrituras
    /\ Rutas \subseteq Seq(Nombres \cup {Punto}) \ {<<>>}
    /\ \A p \in Rutas : \A k \in 2 .. Len(p) : p[k] # Punto

VARIABLES
    fs,         \* "up", or how the process ended
    tabla,      \* the table of directories: name and parent
    md,         \* the metadata of the folder of each index, by name
    hilo,       \* what each thread does
    escritos,   \* number of files written
    repite,     \* history: a directory had the name of its parent
    sacado,     \* history: a directory was taken away during a write
    corte,      \* history: the process ended in the middle of a mv
    pisado      \* history: a write found a file where it put its own

historia == <<repite, sacado, corte, pisado>>
vars == <<fs, tabla, md, hilo, escritos, historia>>

Hilos == {Worker, Consola}
Indices == 0 .. MAX_DIR_FS - 1
Archivos == 1 .. MaxEscrituras

(* Paths that may be those of a file. *)
RutasArchivo == {p \in Rutas : Last(p) # Punto}

(* What parents are of a free entry, and the index of what is not found.   *)
Nadie == -1

-----------------------------------------------------------------------------
(* Paths.                                                                  *)

(* In a table t, the index of the child of i with name x; its parent is i, *)
(* and a free entry is of nobody.                                          *)
Hijo(t, i, x) ==
    LET hijos == {j \in Indices : t[j].nombre = x /\ t[j].padre = i}
    IN  IF i = Nadie \/ hijos = {} THEN Nadie ELSE CHOOSE j \in hijos : \A k \in hijos : j <= k

(* The index that the names of p lead to, one by one, from the root. *)
Camino(t, p) ==
    LET hasta[k \in 0 .. Len(p)] == IF k = 0 THEN 0 ELSE Hijo(t, hasta[k - 1], p[k])
    IN  hasta[Len(p)]

ObtenerIndiceDir(p) == Camino(tabla, p)

(* Of a path without "/" it is the root, whatever the path.                *)
ObtenerIndiceDirPadre(p) == IF Len(p) = 1 THEN 0 ELSE Camino(tabla, Front(p))

DesdePunto(p) == p # <<>> /\ Head(p) = Punto

(* What starts with "./" is in the root, whatever comes between.           *)
ObtenerDirArchivo(p) ==
    IF DesdePunto(p) /\ Len(p) > 1 THEN <<Punto>> ELSE Front(p)

(* The folder that listarArchivos lists of a directory d. *)
Carpeta(d) == IF DesdePunto(d) THEN 0 ELSE ObtenerIndiceDir(d)

(* The folder of the metadata of a file. *)
CarpetaDe(p) == Carpeta(ObtenerDirArchivo(p))

(* One pass over the table for the name x: it goes on after an entry was   *)
(* found, with that one for parent, and counts what it finds.              *)
Pasada(s, x) ==
    LET visto[j \in 0 .. MAX_DIR_FS] ==
          IF j = 0 THEN s
          ELSE IF tabla[j - 1] = [nombre |-> x, padre |-> visto[j - 1].indiceAnt]
               THEN [indiceAnt |-> j - 1, resultados |-> visto[j - 1].resultados + 1]
               ELSE visto[j - 1]
    IN  visto[MAX_DIR_FS]

(* A name without "/" exists if any entry has it, wherever it is; for      *)
(* others there is a pass for each name, and only the count is compared.   *)
ExisteDirectorio(p) ==
    LET hasta[k \in 0 .. Len(p)] ==
          IF k = 0 THEN [indiceAnt |-> 0, resultados |-> 0] ELSE Pasada(hasta[k - 1], p[k])
    IN  \/ p = <<>> \/ DesdePunto(p)
        \/ Len(p) = 1 /\ \E j \in Indices : tabla[j].nombre = p[1]
        \/ Len(p) > 1 /\ hasta[Len(p)].resultados = Len(p)

ExisteArchivo(p) == md[CarpetaDe(p)][Last(p)] # NULL

-----------------------------------------------------------------------------
Libre == [pc |-> "libre"]
SinNada == [x \in Nombres |-> NULL]
TablaVacia == [i \in Indices |-> [nombre |-> NULL, padre |-> Nadie]]
SinMetadata == [i \in Indices \cup {Nadie} |-> SinNada]

(* It was formatted. *)
Init ==
    /\ fs = "up" /\ tabla = TablaVacia /\ md = SinMetadata
    /\ hilo = [t \in Hilos |-> Libre] /\ escritos = 0
    /\ repite = FALSE /\ sacado = FALSE /\ corte = FALSE /\ pisado = FALSE

Ordena(t) == fs = "up" /\ hilo[t] = Libre

Escribiendo == hilo[Worker].pc = "escribe"

(* The process ends, with its threads. *)
Termina(como) ==
    /\ fs' = como /\ hilo' = [t \in Hilos |-> Libre]
    /\ corte' = (corte \/ hilo[Consola].pc = "mueve")

(* What follows the list of files of a directory that is not found: it is  *)
(* NULL and nobody checks it.                                              *)
SigueNulo ==
    /\ Termina("segfault")
    /\ UNCHANGED <<tabla, md, escritos, repite, sacado, pisado>>

ConNombre(i, x, padre) == tabla' = [tabla EXCEPT ![i] = [nombre |-> x, padre |-> padre]]

(* The name of an entry, or its parent, is that of another now. *)
Repiten ==
    repite' = (repite \/ \E i, j \in Indices : /\ tabla'[j].padre = i
                                               /\ tabla'[i].nombre = tabla'[j].nombre)

-----------------------------------------------------------------------------
(* Commands on directories.                                                *)

(* Faulty variant of IndicesLibres: the root is not left out.              *)
IndicesDeNadie == {i \in Indices : tabla[i].padre = Nadie}

IndicesLibres == {i \in Indices \ {0} : tabla[i].padre = Nadie}

(* Without a free entry the search for one runs off the end of the table.  *)
(* If the parent is not found the entry gets its name and stays free.      *)
CrearDirectorio(p) ==
    /\ Ordena(Consola) /\ ~ExisteDirectorio(p)
    /\ \/ IndicesLibres = {} /\ Termina("ub") /\ UNCHANGED <<tabla, repite>>
       \/ /\ IndicesLibres # {} /\ UNCHANGED <<fs, hilo, corte>>
          /\ ConNombre(CHOOSE i \in IndicesLibres : \A j \in IndicesLibres : i <= j,
                       Last(p), ObtenerIndiceDirPadre(p))
          /\ Repiten
    /\ UNCHANGED <<md, escritos, sacado, pisado>>

(* Faulty variant of Vacio: only files are looked for. *)
SinArchivos(i) == md[i] = SinNada

Vacio(i) == md[i] = SinNada /\ \A j \in Indices \ {0} : tabla[j].padre # i

(* eliminarDirectorio: it must be empty, and it is removed after that.     *)
VerificarVacio(p) ==
    LET i == ObtenerIndiceDir(p)
    IN  /\ Ordena(Consola) /\ ExisteDirectorio(p)
        /\ \/ Carpeta(p) = Nadie /\ SigueNulo
           \/ /\ i \in Indices \ {0} /\ Vacio(i)
              /\ hilo' = [hilo EXCEPT ![Consola] = [pc |-> "quita", indice |-> i]]
              /\ UNCHANGED <<fs, tabla, md, escritos, historia>>

QuitarDirectorio ==
    /\ fs = "up" /\ hilo[Consola].pc = "quita"
    /\ ConNombre(hilo[Consola].indice, NULL, Nadie)
    /\ hilo' = [hilo EXCEPT ![Consola] = Libre]
    /\ sacado' = (sacado \/ Escribiendo)
    /\ UNCHANGED <<fs, md, escritos, repite, corte, pisado>>

(* rename -d and mv -d; an index that is not found is no error. *)
RenombrarDirectorio(p, x) ==
    LET i == ObtenerIndiceDir(p)
        padre == ObtenerIndiceDirPadre(p)
    IN  /\ Ordena(Consola) /\ i \in Indices \ {0}
        /\ \A j \in Indices : ~(tabla[j].padre = padre /\ tabla[j].nombre = x)
        /\ ConNombre(i, x, tabla[i].padre)
        /\ sacado' = (sacado \/ Escribiendo) /\ Repiten
        /\ UNCHANGED <<fs, md, hilo, escritos, corte, pisado>>

(* The list of nodes may have one that left, whose bitmap is not found. *)
Formatear ==
    /\ Ordena(Consola)
    /\ Termina("segfault") \/ UNCHANGED <<fs, hilo, corte>>
    /\ tabla' = TablaVacia /\ md' = SinMetadata
    /\ sacado' = (sacado \/ Escribiendo)
    /\ UNCHANGED <<escritos, repite, pisado>>

-----------------------------------------------------------------------------
(* Commands on files.                                                      *)

Pone(i, x, f) == md' = [md EXCEPT ![i][x] = f]

(* existeArchivo takes for granted that the directory of the path exists,  *)
(* and only a write asks before whether it does.                           *)
SinDirectorio(t, p) ==
    /\ Ordena(t) /\ CarpetaDe(p) = Nadie
    /\ t = Consola \/ ExisteDirectorio(ObtenerDirArchivo(p))
    /\ SigueNulo

(* cpfrom and the final store of a worker: the path is checked first and   *)
(* looked up again when the blocks are written.                            *)
EscribirArchivo(t, p) ==
    /\ Ordena(t) /\ escritos < MaxEscrituras
    /\ ExisteDirectorio(ObtenerDirArchivo(p)) /\ CarpetaDe(p) # Nadie /\ ~ExisteArchivo(p)
    /\ hilo' = [hilo EXCEPT ![t] = [pc |-> "escribe", ruta |-> p]]
    /\ UNCHANGED <<fs, tabla, md, escritos, historia>>

(* The folder of an index that is not there is created, that of -1 too.    *)
CrearArchivoMetadata(t) ==
    LET p == hilo[t].ruta
    IN  /\ fs = "up" /\ hilo[t].pc = "escribe" /\ escritos < MaxEscrituras
        /\ escritos' = escritos + 1
        /\ Pone(CarpetaDe(p), Last(p), escritos')
        /\ hilo' = [hilo EXCEPT ![t] = Libre]
        /\ pisado' = (pisado \/ ExisteArchivo(p))
        /\ sacado' = (sacado \/ hilo[Consola].pc = "quita")
        /\ UNCHANGED <<fs, tabla, repite, corte>>

(* There was no room, or nothing to write. *)
EscrituraFalla(t) ==
    /\ fs = "up" /\ hilo[t].pc = "escribe"
    /\ hilo' = [hilo EXCEPT ![t] = Libre]
    /\ UNCHANGED <<fs, tabla, md, escritos, historia>>

EliminarArchivo(p) ==
    /\ Ordena(Consola) /\ CarpetaDe(p) # Nadie /\ ExisteArchivo(p)
    /\ Pone(CarpetaDe(p), Last(p), NULL)
    /\ UNCHANGED <<fs, tabla, hilo, escritos, historia>>

(* The names are those of the directory of the path, the metadata is that  *)
(* of the root, since strncmp compares no character.                       *)
RenombrarArchivo(p, x) ==
    LET destino == md[CarpetaDe(p)][x]
    IN  /\ Ordena(Consola) /\ ~DesdePunto(p)
        /\ CarpetaDe(p) # Nadie /\ ExisteArchivo(p) /\ destino = NULL
        /\ md[0][Last(p)] # NULL
        /\ md' = [md EXCEPT ![0][x] = md[0][Last(p)], ![0][Last(p)] = NULL]
        /\ UNCHANGED <<fs, tabla, hilo, escritos, historia>>

(* Faulty variant of Ocupado: it is looked for in the root. *)
OcupadoEnRaiz(i, x) == md[0][x] # NULL

Ocupado(i, x) == md[i][x] # NULL

(* moverArchivo, cp: the origin is found in the way of directories, where  *)
(* "./" is no directory.                                                   *)
CopiarMetadata(p, d) ==
    LET o == ObtenerIndiceDirPadre(p)
        x == Last(p)
    IN  /\ Ordena(Consola)
        /\ CarpetaDe(p) # Nadie /\ ExisteArchivo(p)
        /\ ExisteDirectorio(d)
        /\ \/ Carpeta(d) = Nadie /\ SigueNulo
           \/ /\ Carpeta(d) # Nadie /\ ~Ocupado(Carpeta(d), x) /\ md[o][x] # NULL
              /\ Pone(Carpeta(d), x, md[o][x])
              /\ hilo' = [hilo EXCEPT ![Consola] = [pc |-> "mueve", indice |-> o, nombre |-> x]]
              /\ UNCHANGED <<fs, tabla, escritos, historia>>

(* moverArchivo, remove. *)
BorrarOrigen ==
    /\ fs = "up" /\ hilo[Consola].pc = "mueve"
    /\ Pone(hilo[Consola].indice, hilo[Consola].nombre, NULL)
    /\ hilo' = [hilo EXCEPT ![Consola] = Libre]
    /\ UNCHANGED <<fs, tabla, escritos, historia>>

-----------------------------------------------------------------------------
(* The process is killed, or has ended, and is started again. *)
Reiniciar ==
    /\ fs \in {"up", "segfault"} /\ Termina("up")
    /\ UNCHANGED <<tabla, md, escritos, repite, sacado, pisado>>

Directorios(p) == CrearDirectorio(p) \/ VerificarVacio(p)
                  \/ \E x \in Nombres : RenombrarDirectorio(p, x)

DeArchivos(p) ==
    \/ EliminarArchivo(p)
    \/ \E x \in Nombres : RenombrarArchivo(p, x)
    \/ \E d \in Rutas : CopiarMetadata(p, d)

Next ==
    \/ \E p \in Rutas : Directorios(p)
    \/ \E p \in RutasArchivo : DeArchivos(p)
    \/ QuitarDirectorio \/ BorrarOrigen \/ Formatear \/ Reiniciar
    \/ \E t \in Hilos, p \in RutasArchivo : SinDirectorio(t, p) \/ EscribirArchivo(t, p)
    \/ \E t \in Hilos : CrearArchivoMetadata(t) \/ EscrituraFalla(t)

Spec == Init /\ [][Next]_vars

-----------------------------------------------------------------------------
EstadoHilo ==
    {Libre} \cup [pc : {"escribe"}, ruta : RutasArchivo] \cup [pc : {"quita"}, indice : Indices]
    \cup [pc : {"mueve"}, indice : Indices \cup {Nadie}, nombre : Nombres]

(* Types; the entry of the root is nobody's and has no name.               *)
TypeOK ==
    /\ fs \in {"up", "segfault", "ub"}
    /\ tabla \in [Indices -> [nombre : Nombres \cup {NULL}, padre : Indices \cup {Nadie}]]
    /\ tabla[0] = TablaVacia[0]
    /\ md \in [Indices \cup {Nadie} -> [Nombres -> Archivos \cup {NULL}]]
    /\ hilo \in [Hilos -> EstadoHilo] /\ escritos \in 0 .. MaxEscrituras
    /\ repite \in BOOLEAN /\ sacado \in BOOLEAN /\ corte \in BOOLEAN
    /\ pisado \in BOOLEAN

Usados == {i \in Indices \ {0} : tabla[i].padre # Nadie}

(* However directories are created, renamed and removed, through paths     *)
(* that are looked up in two ways, they form a tree under the root, and    *)
(* the children of one have different names as long as none has ever had   *)
(* the name of its parent, which existeDirectorio does not tell apart.     *)
DirectoriosEnArbol ==
    /\ \A S \in SUBSET Usados : S # {} => \E i \in S : tabla[i].padre \notin S
    /\ \A i \in Usados : tabla[i].padre \in Usados \cup {0} /\ tabla[i].nombre # NULL
    /\ ~repite => \A i, j \in Usados :
          tabla[i].padre = tabla[j].padre /\ tabla[i].nombre = tabla[j].nombre => i = j

(* The places that have the metadata of a file. *)
Lugares(f) == {l \in (Indices \cup {Nadie}) \X Nombres : md[l[1]][l[2]] = f}

Moviendo(f) == hilo[Consola].pc = "mueve" /\ md[hilo[Consola].indice][hilo[Consola].nombre] = f

(* Every file is in one place, and that is in a directory: none is left in *)
(* the folder of a free entry, which a new directory would inherit, or in  *)
(* that of -1, unless a directory went away while the file was written or  *)
(* a path could lead to two; a second place is there for the time of a mv  *)
(* only, unless the process ended in the middle of one.                    *)
ArchivosEnDirectorios ==
    \A f \in Archivos :
        /\ \A l \in Lugares(f) : l[1] \in Usados \cup {0} \/ sacado \/ repite
        /\ \A l, m \in Lugares(f) : l = m \/ Moviendo(f) \/ corte

Guardados == {md[i][x] : i \in Indices \cup {Nadie}, x \in Nombres} \ {NULL}

(* Directories and files hang from the root, each once. *)
CuelgaDeLaRaiz == DirectoriosEnArbol /\ ArchivosEnDirectorios

(* A file is lost to no other command than its own rm, a format and the    *)
(* rename of a file that is not in the root, which puts another one in its *)
(* place: neither to mv, nor to rm -d, nor to a rename of directories, as  *)
(* long as no file was put meanwhile where a write put its own.            *)
SeConservan ==
    [][\A f \in Guardados \ Guardados' :
          \/ Formatear
          \/ \E p \in RutasArchivo : EliminarArchivo(p) /\ md[CarpetaDe(p)][Last(p)] = f
          \/ \E p \in RutasArchivo, x \in Nombres : Len(p) > 1 /\ RenombrarArchivo(p, x)
          \/ pisado']_vars

=============================================================================
