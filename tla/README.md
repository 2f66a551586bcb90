# Verification of the KILL9 MapReduce (YAMA, Master, Worker, YamaFS)

TLA+ specifications of the program in `src/`, the TLC runs that check them and the
TLAPS proofs of what holds for every size. Everything is translated from the C
sources; where a comment or a log message of the code says something else than the
code does, a run shows the difference (see *Findings*).

Run from this directory, for example: `tlc -config jobs.cfg MCYamaMaster.tla`, `tlc -config
nodes.cfg MCFsServidor.tla`, `tlapm FsProofs.tla`.

## 1. The system

A *master* process runs one job over one file of the distributed file system. It asks
*YAMA*, the scheduler, for one stage at a time and gives the work to the *workers* of
the nodes. The stages are the transformation of every block (`T`), one local reduction
per node (`L`), one global reduction (`G`) and the final store (`S`).

```
 console > FileSystem <--- blocks ---> DataNode (one per node)
             ^    ^
   file info |    | final store, copies of files
             |    |
           YAMA   Worker (one per node, forks per connection) <--> other workers
             ^    ^
  stages,    |    | scripts, blocks, temporaries
  OK / error |    |
             Master (one per job, one thread per node)
```

| component | state | operations | hard behaviour |
|---|---|---|---|
| YAMA planner (`yama/src/planner.c`, `tablesManager.c`) | node table, clock, auxiliary clock | charge, discharge, fail, forget errors, plan a block | recursion until a node is found; unsigned loads next to signed availabilities; every handler changes the table between plannings |
| YAMA scheduler (`yama/src`) | jobs, tasks, three tables of planned work, file infos, connected masters | accept, T/L/G/S requests, OK, error, end of stream, SIGUSR1 | one `select()` loop, but requests, results and deaths of masters come in any order; descriptors are reused while tables keep them as keys |
| Master (`master/src`) | main thread, threads per node, flags `replanification`, `abortJob` | four stages, OK/error per task, wait for a replanning | threads share the socket and the flags; a failed node is replanned once |
| Worker (`worker/src`) | list of child pids, sockets of other workers | T, L, G, S, send a temporary | fork per connection, descriptors that parent and children share, a child that waits for children of other workers, partial failures |
| FileSystem server (`filesystem/src/fs_servidor.c`, `fs.c`) | connected nodes, `estadoEstable`, semaphores | handshakes of nodes, workers, YAMA; a thread per connection | the thread of a node starts before the node is listed; a node that leaves and comes back; counts of instances without a lock; the stable state is counted by semaphores |
| FileSystem core (`fs_core.c`, `nodoUtils.c`, `datanode.c`) | table of files, bitmaps, free counts, `nodos.bin` | reserve blocks, write, read, inform YAMA | reservation without a lock; readers and writers wait for answers of nodes that may die |
| FileSystem commands and console (`fs_comandos.c`, `fs_consola.c`) | directories, table of files | format, rm, rename, mv, mkdir, cpfrom, cpto | rm frees blocks one by one while the counts in memory and on disk must agree |
| DataNode (`dataNode/src`) | mapped data file | SET_BLOQUE, GET_BLOQUE | dies with requests in flight |
| tplibraries | none | sockets, list, strings, timestamp | a timestamp that repeats |

What makes each correct: a block is only given to a healthy node that holds it and
loads stay balanced (planner); every job goes through its stages in order, over every
block exactly once, and ends (scheduler and master); the state is stable exactly when
all blocks are reachable, no block of a node belongs to two files, no command waits
for ever (FileSystem); a block that was stored is read back (DataNode); a job that ends
well has stored what every block was made into, and a master gets an answer or an end of
stream (worker).

## 2. The modules

| module | models | how it corresponds to the code |
|---|---|---|
| `YamaNodes` | `planner.c`, the node part of `tablesManager.c` | operators only; one per C function. `EvaluateClock` is one call of `evaluateClock`; its record holds the fields of `struct yama` the function uses, plus the argument (`at`) and the result (`found`) |
| `YamaPlanner` | the planner at work | one action per branch of `evaluateClock` (`SelectNode`, `RestoreNode`, `LookFurther`), `LookUpNodes` for one iteration of `addToNodeList`, `ComputeAvailability`, and one action for each thing other handlers do to the table |
| `Sockets` | connections | `pedidos[fd]`: messages YAMA has not read; `salida[fd]`: replies the master has not read; the end of a stream is a message too, `FIN` or `RST` |
| `Yama` | the YAMA process | one action per handler, from the `recv` to the reply; the tables are the lists of `struct yama`, with their names |
| `Master` | the master processes | `pc[fd]` is the main thread, `hilos[fd]` its threads, `leido[fd]` the bytes of a reply a thread has already taken |
| `YamaMaster` | both, composed | `Next`, fairness, the properties |
| `JobLifecycle` | what YAMA promises of a job | abstract; `YamaMaster` implements it by the refinement mapping `Lifecycle` |
| `DataNode` | the DataNodes and their connections | `entrada[n]`, `salida[n]` are the requests and answers in flight; `SetBlock` and `GetBlock` are `set_block` and `get_block`; `NodeDies` ends the process and, with requests unread, may lose its answers |
| `FsBlocks` | the algorithms on blocks | operators only: both passes of a write over its content (`ObtenerBloquesNecesarios`, `BloquesDe`), the order of `decidirNodo` (`CanBeAt`), the free blocks of a node, `obtenerNodosALeer` one iteration at a time; the loops are recursive functions (`CountedLines`, `CutLines`, `Selection`) |
| `FsWrite` | the tables of the FileSystem, `escribirArchivo` and `rm` | `hilo[t]` holds the local variables of a thread; one action per turn of the loop of `obtenerBloquesLibres`, per message to a node, per `sem_wait`, per save of `nodos.bin`, then the metadata and the bitmaps |
| `FsRead` | `leerArchivo` and `connection_handler_nodo` | `lista` is the global list of the read in course; the reader takes one action per block it prepares, asks for and waits for; the handler of a node one per answer |
| `FsNodes` | how the FileSystem comes to know its nodes: the main thread of `fs.c` that waits for a stable state, the list of nodes, the table of files and its instances | `principal` is the main thread, one action per `sem_wait`; the list operators are `agregarNodo`, `buscarNodo...` and `eliminarNodo` |
| `FsServidor` | the rest of `fs_servidor.c` for nodes: `lanzarHiloServidor` and the handler threads | `servidor` is the thread that accepts, `manejador[s]` the thread of the connection `s`; both update the instances block by block |
| `FileSystem` | `FsWrite` and `FsRead` with the DataNodes, composed | `Next`, fairness, the properties |
| `FsDirectorios` | the table of directories, the metadata folders and the commands that change them (mkdir, rm -d, rename, mv, rm, format), with a worker that writes, kills and restarts | `tabla` is `directorios.dat`, `md[i]` the folder of the index `i`, `hilo` what the console and the worker are in the middle of; the two ways of looking a path up, `ExisteDirectorio` and `ObtenerIndiceDir`, are apart as in the code |
| `Worker` | the processes of the workers, and the requests of one job | `aceptador[w]` is `loadServer`, `hijo[c]` the child forked for the connection `c`; one action per request it reads, block it transforms, file it asks for, reduction or store; `maestro` is what the workers see of a master |
| `MCYamaPlanner`, `MCYamaMaster`, `MCFileSystem`, `MCFsServidor`, `MCFsDirectorios`, `MCWorker` | layouts, contents and configurations for TLC | |
| `YamaPlannerProofs`, `YamaMasterProofs`, `YamaLoadProofs`, `FsProofs`, `FileSystemProofs`, `WorkerProofs` | theorems | see section 5 |
| `YamaNodesProofs` | lemmas about the node table and the clock | what both modules about YAMA are proved with |
| `Recursion` | lemmas about recursive functions and sums | what the passes of `FsBlocks`, `SumOfNodes` and the paths of `FsDirectorios` are proved with |

Choices that a reader of the C code should know:

- A handler is one action because YAMA is one thread: `exploreActivity` serves a
  message to the end before it reads the next. `doPlanning` is one action per call of
  `evaluateClock` in `YamaPlanner`, where its termination is the question, and a bounded
  function (`DoPlanning`, `StackDepth` calls) inside the handlers of `Yama`.
- `tasks_in_progress` is an `unsigned int` and is taken modulo `WordSize`; `AsInt` is the
  conversion to `int` that the C expressions make. `WordSize = 32` is five bits, which no
  run fills from below; an underflow wraps to 31 as it wraps to 2^32 - 1.
- Jobs, tasks and planned entries are found by the same keys as in the code: the
  descriptor of the master and the id of the job, which is the number of connections
  accepted so far. Descriptors are reused, lowest first, and the entries that the code
  leaves behind stay.
- `vivo` is `"crash"` where the code follows a NULL pointer, frees a string literal
  (the reply `"E"`) or exhausts the stack. It is `"ub"` from the moment that entries
  which were freed are still in a list: what a later read of them gives is not modelled,
  and the behaviour ends there.
- A temporary is named by its block. `getBlockId` and the time stamps of names are under
  *Not modelled*.
- The FileSystem answers with the file or refuses (`FSFails`); the connection is opened
  and closed within the handler. `findFile` is commented out in the code, so
  `tabla_info_archivos` gets one entry per job, as in the model.
- `Exit` of a master: the kernel sends an end of stream, or a reset if bytes of YAMA are
  unread; the last one is a choice when a reply is on its way.
- What a thread of the FileSystem does between `sem_wait` and `sem_post` of `semLista` is one
  step, and so is the sending of one request (header and content). The entries of `lista` are
  added one by one, because the reader adds them without the semaphore. Two threads that send
  to one node at the same moment could mix their bytes: not modelled.
- `libre--` and the giving back of a reservation are single steps; `actualizarConfigNodoEnBin`
  is two, since it reads the file and saves it later. The order in which
  `list_sort` leaves equal nodes depends on earlier sorts: `CanBeAt` lets them come in any order.
- A content is the lengths of its lines and the bytes after the last one, in units of which a
  block has `TamanioBloque`. Those last bytes are counted in the size of the file and are in
  no block (`fs_comandos.c:89`). Blocks are numbered from 1 in the model, from 0 in the code.
- A node that left stays in `nodos->nodos` with `activo = 0`, and the initial states have every
  subset of nodes still connected. `obtenerBitMapBloques` compares the wrong node's `activo`
  and finds no bitmap only if every node is inactive: `NoBitMap`.
- A request to a dead node is lost, or raises SIGPIPE, which the FileSystem does not handle:
  `fs = "sigpipe"`. `"exit"` is a call of `exit(1)`, `"segfault"` a null pointer followed.
- A length is received as four bytes into a `long` that was not initialised
  (`filesystem_datanode.c:28`); the model takes its upper half as zero.
- Only the console reads files (`cat`, `cpto`, `md5`), workers and the console write them.
- `rm` (`EliminarArchivo`) removes the metadata first, then frees the blocks replica by replica
  (`LiberarBloque`) and saves each count after its own (`GuardarLibre`).
- In `FsServidor` an update of `cantInstancias` is a read (`leido`) and a later write, because
  `habilitarBloques` runs in the thread that accepts and the subtraction in a handler, with no
  lock between them. `choque` remembers the blocks of which an update was lost that way, and
  `temprano` that a node was accepted before the table of files was filled, since the server is
  started first (`fs.c:204`). Neither is read by an action.
- A handshake is accepted or refused (`HSK_OK` or not); a node that is refused leaves. Files
  that are written after the start never enter `tablaArchivos` (`fs.c:294`, at the start, is
  the only place that adds to it), so the table of `FsServidor` is that of the earlier state.
- In `FsDirectorios` table and metadata are on disk and survive the process, which may end at
  every step and be started again (`Reiniciar`). A command is one step where the code changes one
  thing; `rm -d` checks and then removes, `mv` copies and then removes, a write checks the path and
  looks it up again when its blocks are written (these are the steps of `FsWrite`). A directory that
  is not found has the index -1: the list of its files is NULL, which nobody checks (`SigueNulo`),
  and a write that finds it gone makes the folder `-1`. When the table is full the search for an
  entry runs past its end, and the behaviour ends as `"ub"`; a format while a node that left is in
  the list follows a null bitmap. Names have one letter, because the console reads the new name of
  a directory into two bytes (`fs_consola.c:16`). Renaming a file whose path begins with `./` is
  left out. `repite`, `sacado`, `corte` and `pisado` only remember what happened; no action reads them.
- In `Worker` a connection has an end when nobody at the node holds its descriptor
  (`Cortada`): not the process that accepts, which never closes it, and none of the children
  forked since. Merging, sorting and scripts are a choice of success or failure; what a file
  is made of is the set of blocks that went into it.
- Where a reply is compared that was never received (`localReduction.c:121` of the master,
  `globalReduction.c:30` and `finalStore.c:73` of the worker), the byte is not initialised: any
  value. `oculta` remembers that a failure was taken for a success, in this way or by the
  status of a pipe, which is that of its last command (`transform.c:79`).
- `Overlapping = FALSE` makes a master connect only when the requests of the connected
  ones have been read, so that job ids differ; `TRUE` lifts it.

## 3. The runs

| run | instance | question | states |
|---|---|---|---|
| `planner` | 3 nodes, files of one and two blocks, WRR and RR, base 1 and 2, six tasks, reductions, node errors | does the clock stay in its table, does the recursion end, is the node selected by WRR a least loaded one | 1 350 000 |
| `jobs` | two concurrent masters, chain of two blocks over three nodes, up to two failures in any stage; with fairness | do the tables agree at every moment, does a replanning keep every block exactly once and each reply for its master, did a job that finished leave nothing undone, does every job and every master end | 430 000 |
| `lifecycle` | one descriptor used by two masters in turn, two files, refusals, two configurations, failures, kills | does every job follow `JobLifecycle` although old entries remain | 54 000 |
| `files` | one thread, three nodes with 3, 1 and 1 blocks, a text of two blocks, a binary of one, a text with a line longer than a block, an empty binary; up to four commands (write, read, remove), any nodes disconnected before, one death; with fairness | do blocks, free counts, `nodos.bin`, bitmaps and metadata agree at every moment, is a write refused only for lack of room, does a read give what was written, does every command end | 299 000 |
| `nodes` | four nodes, of which three are in the earlier state, two files of one block with a node that holds both; no earlier state, or that one; three connections, two departures; with fairness | is a node listed and handled once, are instances the connected nodes, what does the stable state mean, and is it reached | 880 000 |
| `dirs` | two names, paths of one and two names and after `.`, a table of three entries, two files, console and one worker, kills at any moment | are directories a tree, is every file in one place of it, which commands lose a file | 411 000 |
| `worker` | three nodes with two, one and one blocks, up to two signals or failures; with fairness | has a job that ends well stored all of its blocks, is a master answered | 57 000 |
| `wrong_block`, `g_refused`, `stale_store` | the smallest instance of `MCYamaMaster` that shows it | see *Findings* | |
| `files_race` | the console and a worker write at the same time | see *Findings* | |
| `worker_killed` | as `worker`, with one failure | see *Findings* | |

Why the bounds are enough for these questions: the clock algorithm depends on the order
of a few rows and on the sign of availabilities, and three nodes give a turn with a
node to skip, one to restore and one to select; the tables relate a job to its own
entries and to those of one other, so two masters give every relation; a failure is
replanned once, so two failures give a replanning, the refusal of a second one and a
failure of each job; two masters in turn on one descriptor give every stale entry.
`MaxTasks`, `MaxMasters`, `MaxFaults`, `StackDepth`, `MaxPedidos`, `MaxDeaths`,
`MaxConexiones`, `MaxCaidas`, `MaxEscrituras`, `MAX_DIR_FS` and `MaxFallas` are the bounds, each
named where it is declared. `StackDepth = 13` is 3 for each of three nodes and 4 more, which is proved to be enough
for every planning that can end (section 5).

In `files` the nodes have room for the file of two blocks or for the file of one, not for
both, so that nodes fill up, ties occur and reservations fail half way; four commands are a
write, its removal, a write into the blocks that became free and a read; the lines of the text leave a block partly filled; a
node may die at every moment of any command.

In `dirs` three entries are the root and two directories, next to each other or one in the other,
with the same name or not, and a table that is full; two files are two writers at one path, or a
write over the place a file is moved to or from.

In `nodes` three connections let a node leave and come back while another one is handled, or
three nodes connect, of which one may be unknown; two departures let two handlers subtract from
the same block, or a handler subtract while the thread that accepts adds. In `worker` two failures
are the death of a process and what follows from one more, of another process of the same node,
of another node, or a script that fails; the host waits for two other nodes, one after the other.

Deadlock is not checked, because all of these runs end: the masters are through, the
tasks or commands are used up, or the process is no longer `"up"`.

What the good results depend on:

- `LoadIsPendingTasks`, and of `MastersEnd` that jobs finish, are claimed while nothing failed:
  `increaseNodeError` forgets the tasks of other jobs, and a failed reduction aborts its job
  while other threads still report. The rest of `jobs` is claimed with its failures.
- `ResultComplete` is checked on files of two blocks. With three, the entries of a node may come
  apart after a replanning: the master starts two threads on it (`master/src/localReduction.c:185`,
  where the comment says one per node) and YAMA plans the first of them only.
- `YamaSurvives` is checked for two jobs with two failures: two jobs that lose both nodes of a
  block, or a master on a descriptor with old entries, reach the crash or the dangling entries
  described in the hazards. `OverflowOnlyWhenNoReplicaIsHealthy` says when a planning crashes.
- `FinishedIsDone` is claimed where no master is killed: one that gets the descriptor of a killed
  master may end the store of the older job (finding `stale_store`).
- `WRRSelectsLeastLoaded` is about plannings whose loads are those that the tasks in process
  give, which a node error breaks.
- `NoBlockShared`, `LibreIsFreeBlocks` and `BinIsTrue` are checked for one thread that writes; two
  break the first (finding `files_race`). After a `rm` the total of `nodos.bin` is only a lower
  bound: every save of a count takes one from it, also the save after a block was freed.
- `ReadsWhatWasWritten`, in what it says of the order of blocks, and `CommandsEnd` are claimed
  while no node dies: after a death a failed read leaves requests in flight whose answers the
  next read takes for its own, and a request to the dead node is never answered.
- `InstanciasSonNodosActivos` leaves out the blocks with a lost update (`choque`) and runs in
  which a node was accepted too early (`temprano`): it is false of both, and this is why.
  `SeEstabiliza` leaves out `temprano` too: such a node posts no semaphore of the table.
- `EstableConDatos` is claimed until a node leaves: a node that comes back is counted twice.
- `CuelgaDeLaRaiz` lets siblings have one name after a directory was given the name of its parent or
  of its child (`repite`), which `existeDirectorio` does not tell apart; a path may then lead to
  another directory than before. A file is outside of the directories only after that, or after a
  directory was taken away during a write (`sacado`), and in two places only during a `mv` or after
  the process ended in one (`corte`).
- `SeConservan` names the commands that lose a file: its own `rm`, a format, and the rename of a file
  that is not in the root (`fs_comandos.c:1291` compares no character and works in the root). It holds
  until a write puts a file over another one (`pisado`).
- `ResultadoDeTodos` leaves out jobs of which a failure was passed on as a success (`oculta`).
- `SeResponde` is claimed while every worker is whole (`Entero`): a process that dies alone leaves
  its master waiting (finding `worker_killed`).

The runs do not reach the `G` branch of `StageNotReady` (no master asks for a global
reduction without a local one) nor an overflow inside `ProcessTransformation` (it takes
three masters); both are in the model.

Every property of a passing run has a mutant of the code in `PROJECT.json`, a definition
replaced by the way a plausible bug would write it (the operators called *faulty variant*),
under which the run reports the property as violated.

### Fairness

`FairSpec` asks for weak fairness of `Served(fd)` for each descriptor and of the progress of
each master. The first is what `select()` and `exploreActivity` do: every readable descriptor
is served in the round in which it is reported, and no handler waits for a master except
for the rest of a message that is being sent. The second says that threads run and workers
answer or fail; failures (`MasterFault`) and kills have no fairness.

In `FileSystem` the steps of a thread that has a command (`ThreadStep`), of the handler of a
node (`Atender`) and of a node that has a request (`NodeStep`) are weakly fair: each is a
thread or process of its own which the kernel runs. Commands and deaths are not. Ties
are assumed to be broken in the end: a `SkipNode` that is offered the same node once more is a
stuttering step. `list_sort` is deterministic, and whether it keeps or exchanges equal nodes,
another node is at the offset within two turns.

In `FsServidor` the main thread and the thread that accepts are weakly fair: each is a thread of
its own, blocked only in `sem_wait` and `accept`. Nodes that connect or leave are not fair, and
the handlers need not be for the stable state to come. In `Worker` the master, the process that
accepts of each node and every child are weakly fair; signals and failures are not.

## 4. Findings

| run | the code | the source says |
|---|---|---|
| `wrong_block` | `findBlock` (`tablesManager.c:427`) takes the block with that number of the first file that has one; a job can be replanned with a block of another job's file | `planner.c:231`: whether the block to assign is on the worker |
| `g_refused` | `existInStatusTable` (`tablesManager.c:15`) does not compare masters; of two masters with one job id the second is refused its global reduction and waits for ever | `globalReduction.c:234`: all local reductions must end before |
| `stale_store` | planned global reductions survive their master and are looked up by descriptor (`finalStore.c:42`): the next master stores the earlier job's | `finalStore.c:127`: the global reduction must end before |
| `worker_killed` | `loadServer` (`worker/src/connectionsManager.c:54`) forks and never closes the descriptor of the client in the parent, and children forked later inherit it; a child that is killed therefore sends no end of stream and its master waits for ever | `master/src/transform.c:158`: "Agrego recepción de error si se mata el worker" |
| `files_race` | `obtenerBloquesLibres` (`fs_core.c:1306`) takes blocks whose bit is clear, without a lock, and the bits are set when everything is written; two threads are given the same blocks | `fs_comandos.c:65`: "Escribo en los bloques reservados" |

## 5. The proofs

`YamaPlannerProofs` proves for every set of nodes, every set of files, every
configuration and every bound, under `WordAssumption` (a word has at least two values)
and `PlannerAssumption` (the types of the constants):

- `TypeCorrect`: `Spec => []TypeOK`, with the load always a word;
- `ClockStaysInTable`: `Spec => []ClockInTable`, no node twice in the table and the clock,
  its auxiliary and the evaluated position always positions of it;
- `OverflowIsOfErrors`: `Spec => []OverflowOnlyWhenNoReplicaIsHealthy`, under `EnoughStack`: finitely many nodes,
  `StackDepth` at least 3 for each node and 4 more, and every base positive (with a base of 0 the recursion
  really has no end). The run `planner` satisfies it;
- `WRRBalances`: `Spec => WRRSelectsLeastLoaded`, under `Balanceable`: a word holds twice any base and all the
  tasks, bases are positive, and the two replicas of a block are on two nodes (as `CopiesApart` says of the
  FileSystem). The run `planner` satisfies it too.

`ClockInTable` is not inductive: `StartPlanning` needs a table with a row, so the inductive
invariant `IInv` adds that the table is not empty when blocks are to be planned, which in
turn needs that while `LookUpNodes` runs either the table has rows already or all blocks
of the request are still to be looked up. The argument goes bottom up: the lemmas
about `CHOOSE` (`MenorNatural`, `HigerAvailNodeInTable`, `MaxWorkloadType`,
`SkipStopsInTable`), what a rewriting of rows keeps (`RewrittenTable` and those after it),
one lemma per kind of step of the clock (`StartOK`, `SelectOK`, `RestoreOK`, `AdvanceOK`), and
`NextIInv` with one step per action. That some row is the best one needs an induction
over a lexicographic order; `MenorNatural` gives it, from the least element of a set of
naturals.

That `WRR` balances rests on two more invariants. `Owed`: what is pending was charged to a node that is known,
and `MaxTasks` bounds it and the blocks to come, so no load wraps. `Level`, of a table of two rows
whose loads are true: the load and the availability of both rows have the same sum, and the row to evaluate is the best one; or
(`Refilled`) both loads are equal, both availabilities were spent, and the clock is giving the base back to
one row and then to the other, where the first sum would not hold between the two steps. `updateAvailability` establishes the
sums (`StartsLevel`), a selection moves one from the availability to the load (`SelectLevel`), and
only equal loads can be spent together (`RestoreLevel`). So the row with the most availability has the fewest tasks. A
failure leaves an error in a row that stays, after which the loads are not said to be true until `ErrorsForgotten`;
and since both replicas are in the table, a block that every node holds means two rows.

That the recursion of `evaluateClock` ends is proved by a measure, `CallsLeft`, of a row `h` that is
a healthy replica. With availability it is selected when `clock_aux` reaches it, one turn at most (`SkipStopsBefore`: the loop
passes neither the clock nor a row whose availability is not 0). With availability 0 it is passed over until `clock_aux` is back at
the clock, and every row gets the base. Below 0 the loop stops at it and it gets the base, or it gets it
earlier and may then be at 0. If the other replica is healthy and spent, giving it its base moves the clock one position away, once. So at
most `3 N + 4` calls are left (`CallsBounded`), and each call that selects nothing leaves fewer (`RestoreFewer`,
`AdvanceFewer`). `WithinStack` says that with the calls made so far they fit in the stack, `Joined` that the nodes of the
blocks are in the table or still in the list of those that join it. `PlanningFinds` says the same of `DoPlanning`, the
planning in one step that `Yama` uses: the depth at which it is cut never decides the result when a replica is healthy.

The lemmas about the table and the clock are in `YamaNodesProofs`, because the handlers of `Yama`
need them too: what each of them leaves of the table (`HandlersKeepTable`, `JoinKeepsTable`), and that a
whole planning, however many calls it takes, leaves a table and finds a node of the block
without errors, or nothing (`DoPlanningOK`).

### YAMA and its masters

`YamaMasterProofs` proves for any nodes, files, layouts, descriptors and configurations, any number
of masters and of faults and any `StackDepth`, under the assumptions of the modules
(`LayoutAssumption`, `YamaAssumption`, `MasterAssumption`, `WordAssumption`):

- `TypesHold`: `Spec => []TypeOK`;
- `ReplanReplies`: `Spec => []ReplanReplyIsThere`;
- `ReplannedElsewhere`: `Spec => ReplansElsewhere`, an action property;
- `JobsFollow`: `Spec => JobsFollowLifecycle`, the refinement of `JobLifecycle`;
- `JobsAreTyped`, `StagesAreInOrder`, `JobsEndForGood`: what `JobLifecycle` promises (its `TypeOK`,
  `StagesInOrder` and `EndedForGood`), of the jobs of YAMA.

The inductive invariant has three parts, one for each of the first, the second and the fourth theorem:

- `TypeInv`. `TypeOK` is not inductive: `findNode` and `findBlock` are defined on what is in the
  tables only, so the task rows and the planned entries have to be of nodes of `tabla_nodos`
  (`KnownNodes`), the transformations of blocks of the files that arrived (`KnownBlocks`), and the
  table has to be one without a node twice (`Table_OK`). Then the clock finds its row and the load
  that is discharged is there.
- `LinkInv` relates each master to its connection: who counts on a replanning has its answer at the
  head of its replies, a master that asked for nothing has nothing on its way, nothing follows the end
  of a stream, and a request to transform is the first message of its connection. The
  last two are what `ReplanReplyIsThere` needs when a descriptor is closed and given to another master.
- `LifeInv` is what makes the mapping of jobs a function of the tables: a job is known by its id and
  its master, though ids repeat and descriptors are reused (`NoTwoAlike`); each task is of a job
  (`RowsHaveJobs`); a master that has not asked yet will get an id and a descriptor that no job has
  together (`IdsGiven`, `NextIsNew`), since an accept gives it the next id; and a job in process
  that is past its transformations has none pending (`Consistent`), which an answer
  to a task of a later stage must not break.

The refinement goes by handlers. `SeenJob` says that a step which rewrites one job and only tasks of that job is a
step of this job's lifecycle and a stutter of every other; the lemmas before it say which tasks a
handler touches (`OnlyOf`), and each handler then shows its one step of the lifecycle: a
request (`NewJobStep`, `ReductionSteps`), the result of a task (`OkStep`), a replanning (`ReplanStep`), an abort (`AbortSteps`), the end of a connection (`DisconnectedStep`). The passes
over lists are recursive functions (`Keep`, `Grouped`, `SortByNode`, `PlanBlocks`, `AddNodesOf`,
`AllTmps`), for each of which one lemma at the head of the module says what it keeps.

`YamaLoadProofs` proves of the same system `LoadsAreTasks`: while nothing failed, `tasks_in_progress`
of every node is the number of its tasks in process, and every task in process is of a job in
process at its stage. The property that the run checks, `LoadIsPendingTasks`, is the conclusion; the
hypotheses are

- `~FSFails` and `~Overlapping`, which `jobs.cfg` has too; without either TLC finds the property
  violated. A master that is refused leaves bytes unread, its connection is reset and its job stays in process
  (`MasterReset`): the results of the next master on that descriptor are taken for that job's, the
  counter goes down and no row does. Requests that overlap give two jobs one id, and the local reduction of one of
  them is not planned on a node where the other has its own in process;
- fewer tasks in process than `WordSize`: the counter is a word that wraps, and what is
  invariant is equality modulo it.

A counter is right only as long as no result is lost, told twice or charged to another task, so what
is inductive is an account of every master (`Account`): what it has on its way to YAMA as results,
what its threads have still to do and what the reply on its way will tell it is, one for one, what is open of its
tasks in `tabla_estados` (`Owed` and `Open`). On it stand `Balanced` (each counter is the number of rows
in process of its node, modulo the word), `AllBacked` (each of these rows is of a job at its stage),
`RowsPlain`, `EntriesKnown` and `EntriesInOrder` (the planned blocks are of jobs in the table, and
those of a job are in the order of their nodes, so that a reply by node names each node once). Under the
account is what a master that has not failed does: `Calm` says what it may have sent and not read at each
stage, so that a result never comes after the request of the next stage; `JobsInv` that a connection has one
job in process and that no id is given twice. These two, and what the
passes over blocks, entries and rows compute, task by task (`GroupsAre`, `SortedAre`, `KeepOrder`,
and their like for the planner and the reductions), are the second half of `YamaMasterProofs`; the account has
one lemma for each handler.

The module also proves `ReducesTransformed`, `Spec => ReducesWhatWasTransformed`, with no hypothesis on the
constants: tasks, masters and answers of the FileSystem may fail and requests may overlap. A
master starts its local reduction from a reply that YAMA built from the planned blocks of a job when its
last transformation ended, so what is needed is that planned blocks always stand for tasks, and that
a reply of one stage is not read as that of another:

- `ProtoInv` is the dialogue of a master with YAMA, whatever fails. It has at most one
  request that has not been answered or one reply that it has not read, and once it has asked for the local
  reduction nothing of another stage comes. The hard part is a reply that is read while threads of the stage are
  at work, which a replanning allows: the threads that wait are at least those whose answer is on its way
  (`Counted`).
- `EntriesOwned` and `EntriesCovered`: a planned block is of a job in the table, and while this job
  transforms each of its blocks has a task on its node in process or that ended well. A
  replanning drops the entries of the node that failed before it adds the new ones, and
  an abort takes the job out of process, though its entries stay.
- `RepliesHaveRows`: the blocks of an unread reply for the local reduction have a task on their node that ended well. The
  reply is built when no task of the job is open, which turns "in process or well" into "well", and
  a task that ended well never changes (`RowsStay`).

Each handler keeps the last three (`KeepsRows`); `ReducingEnded` is the step of the master.

Its last two theorems are `PlansAreWhole`, `Spec => [](faults = 0 => TransformationCoverage)`, and `StoredPlansAreWhole`,
the same of `ResultComplete`, both under `~FSFails` and `~Overlapping`. The entries of a job go through three lists: planned blocks,
planned local reductions, planned global reductions; each stage takes those of its job out of one, gathers them by node or
into one, and puts them into the next, where those of other jobs are too. `PlansKept` says that a job that transforms has
in the first list each block of one file once, a job in its local reductions still has them all in the second (`CoverT`, `CoverL`),
nothing is in the second for a job that still transforms (`After`), and what is in the third is whole (`Complete`). That
no step takes or adds what is of another job holds because ids and descriptors tell jobs apart (`JobsInv`) and an
entry is of a job in the table (`EntriesOwned`); that the blocks are on their nodes, because a planning finds one of
the replicas (`DoPlanningOK`); that none is reduced twice, because entries sorted by node
are gathered into one for each node, each block in it once. A replanning moves blocks from one
entry to others in the middle of the list, where this order is no longer that of the nodes; with failures
both properties stay with TLC.

### The server and the directories of the FileSystem

The second half of `FsProofs` proves of the server of the FileSystem, for any nodes, files, replicas, earlier state and number of
connections and departures, under `FsNodesAssumption`:

- `ServidorTypeCorrect`: `ServidorSpec => []ServidorOK`, and the list has one entry for each node, of
  one of its own connections;
- `OneHandlerPerNode`: `ServidorSpec => []UnHiloPorNodo`, so that no node is taken off twice;
- `InstancesAreNodes`: `ServidorSpec => []InstanciasSonNodosActivos`;
- `StableWithData`: `ServidorSpec => EstableConDatos`, an action property.

`UnHiloPorNodo` is not inductive. That a second thread does not start follows from the refusal of
nodes that are listed as connected, so `ServidorIInv` adds `HilosListados`: a handler that has not taken its
node off yet has a node that is being listed by the thread that accepts, or an entry of its own
in the list, as connected; and a node that is being listed is not listed as connected. For this the
sockets must be accounted for (`SocketsUsados`): one that waits to be accepted waits once and
has no handler. There is one lemma for each action; `HasSmallest` gives the least index that
the `CHOOSE` of `Siguiente` and of `BuscarNodoPorSocket` need.

`InstanciasSonNodosActivos` speaks of states in which no thread is at work; in between, the accept
thread is at some block of a node it adds and each handler at some block of a node it takes off.
`CuentaCierta` says what the count of a block is then (`Cuenta`): the connected nodes that hold it
(`ActivosCon`), less the one that is listed but not counted yet (`PorSumar`), less those counted off
that are still listed as connected (`Restados`). Every step moves one node from one of the three sets to another, or
loses an update, and then the block is in `choque`. `EstableConDatos` needs what the semaphore
counts: as long as no node left (`SinBajas`) a count only grows, so each post was of a block that
has a node (`CuentaSolo`, `PostsFundados`), and the main thread has consumed one post for each block behind its
index. `Espera` says the same of the nodes that a system without files waits for.

Its first half proves of the directories, for tables, paths, names and numbers of files of any size, under
`FsDirectoriosAssumption` (a name is neither `.` nor NULL, and `.` is only at the head of a path):

- `TypeCorrect`: `Spec => []TypeOK`, with the entry of the root never given away;
- `TodoCuelga`: `Spec => []CuelgaDeLaRaiz`, the tree of directories and the place of every file;
- `NadaSePierde`: `Spec => SeConservan`, which commands lose a file.

Here `Camino` and `ExisteDirectorio` are defined by recursive functions, and the induction
theorems of the library take an operator that the provers cannot instantiate. The lemma `Hasta`
of `Recursion` states induction up to a number over a *set* (the numbers for which something holds),
from the least element of a set of naturals, and `Recursiva` gives the function that a recursive
definition chooses. The first half of the module builds on both; its central facts: `CaminoEstable` (a path leads
where it led when the directories on it are the same and siblings differ), `ExisteSiHay` (what
a path leads to is found by the passes of `existeDirectorio` too, as no name is that of a parent: this
is what makes `mkdir` safe, since it looks with one function and creates with another), and that a
new, removed or renamed entry leaves a tree (`EnArbolCrear`, `EnArbolQuitar`, `EnArbolRenombrar`).

The two properties are not inductive. `IInv` adds that no file has a number still to come
(`Numerados`), that the directory `rm -d` has checked is still empty (`Quitando`), that a write
will find its folder unless a directory went away (`Escritores`), that of two places of a file one
is where `mv` has it from (`Unicos`) and that what `mv` is about to remove has its copy (`Copiado`);
the last gives `NadaSePierde`. There is one lemma for each action.

### The blocks of the FileSystem

`FileSystemProofs` proves for any number of nodes, blocks, files, contents, deaths and *threads*,
under the assumptions of the modules (`DataNodeAssumption`, `FsBlocksAssumption`,
`FsWriteAssumption`: a finite set of nodes, contents that are a text of lines or a number of
bytes; `FileSystemAssumption`: NULL is neither data, nor metadata, nor a list of readings):

- `TypeCorrect`: `Spec => []TypeOK`, every shared variable and the sixteen local ones of a thread;
- `ReplicasApart`: `Spec => []CopiesApart`;
- `SelectionIsComplete`: `Spec => []SelectionFindsReplica`.

The invariant `Inv` is `TypeOK`, that every listed file has its replicas apart (`ArchivosBien`), and
for each thread what its program counter says of its local variables: what `res` may hold after `j`
turns (`ReservaBien`: two replicas for each block that is counted, the copy on another node than the
original, no block twice), what is left to free (`LiberaBien`), that the list of a read has an entry
for each block (`LecturaBien`). `CopiesApart` needs all of it, as the replicas go through three
stages (reserved, sent, listed) and the number of blocks comes from one pass over the content while
their sizes come from another. That both passes agree (`TextoEnBloques`: `CountedLines` counts as many
blocks as `CutText` cuts) is proved by an invariant between the two recursive functions;
`SelectionIsComplete` (`SeleccionHasta`) by a measure of the iterations, two for each block at most. `NadieSeMueve`,
`HiloCambia` and `PasoLocal` say once what a step of a thread or of a node leaves alone; there is one
lemma for each action (`Paso...`).

The second half of the module proves, under `UnHilo` (`Hilos = {Consola}`: only the console gives orders), for any
nodes, blocks, files and deaths:

- `BlocksNotShared`: `Spec => []NoBlockShared`;
- `FreeCountsAreTrue`: `Spec => []LibreIsFreeBlocks`;
- `BinMatchesMemory`: `Spec => []BinIsTrue`;
- `FilesAreStored`: `Spec => []StoredOrSent`;
- `ReadsAreExact`: `Spec => []ReadsWhatWasWritten`;
- `RefusalsAreRight`: `Spec => RefusedOnlyWithoutRoom`.

`UnHilo` is what the code needs and not what the proof needs: with a second thread the first four
are false (`files_race`). None is inductive, and they need each other. `Consistente` has six parts:
`Duenios` says whose every block is (of one file, of the file in course, or still to be freed by a
removal), `Bits` that the bits that are set are those of the listed replicas and of those to free,
except during the moment between the metadata and the bitmap, `Libres` that a count is what neither
a bit nor the reservation takes, `BinLibre` and `BinTotal` by how many saves `nodos.bin` lags behind memory
(`Faltan`), and `Guardado` that the last request to write a block that is still in the queue of its
node, or the disk if there is none, has the data of the file. The last one is about the order of
the queue: a block that a removal freed is written again behind the old request. The lemmas
`Orden...` are one for each action; `SumaDeNodos` and `ReservadosCrecen` say what one step does to the
sum and to the counts, `LlegaMandado` and `LlegaServido` what it does to a queue.

`ReadsWhatWasWritten` follows the data of a block through four places: the disk, the request in the
queue of its node, the answer in the connection, and the list of readings (`lista`), from which the
read takes its result in the order of the blocks. `LecturaFiel`, inductive next to `Inv` and
`Consistente`, says of each place what it has for the read in course. With deaths or without, a
request to read has a request to write the same block in front or finds it on the disk, so every
answer carries data (`SeLeeLoEscrito`), and an entry of the list that was answered, and not by the end of its
node, has data (`Respondidas`). While no node has died (`Exacta`) each request and each answer is one that
the read still expects, is the only one of its block, has no write behind it in the queue
and brings the data of that block (`PedidosExactos`, `RespuestasExactas`), and an entry has what was asked
for it (`ListaExacta`). After a death the answers to a failed read reach the next one, and `Exacta` is
false.

`RefusedOnlyWithoutRoom` says that choosing each time the emptiest nodes is optimal. `n` blocks of two
replicas fit when the sum over the active nodes of the smaller of `n` and what is free reaches `2n`
(`Caben`); when an original is placed and its copy and `n` more blocks are not, they fit when that sum reaches `2n + 1`, the
node of the original giving `n` at most and the others `n + 1` (`CabenSin`). The property rests on two
lemmas: an original may go to any node with a free block (`CabeOriginal`), and if the copy goes to the one of the other nodes
with most free blocks, what is left still fits (`CabeCopia`). The invariant `Cabe` carries it over the turns of
`reservarBloques`: if the blocks fitted at the start, which after a refusal is seen by counting back what the
thread has reserved (`RolledBack`), then every turn took a block and what is left to place fits; `SinLugar` concludes that a
turn without a node had no room at the start.

`Recursion` is what these proofs take from induction: `Hasta` (induction up to a number, over a
set), `Recursiva` (a function defined step by step over `0 .. n` exists, is typed and steps as it says) and the sum over
the nodes: that a sum is found step by step whatever the order (`SumaUnica`, `SumaDe`), what a change of one or two terms
does to it (`SumaCambia`, `SumaDeUno`, `SumaDeDos`).

### The result of a job

`WorkerProofs` proves for any number of nodes and of blocks (each node has at least one,
`WorkerAssumption`), any signals and any failures `ResultOfAll`: `Spec => []ResultadoDeTodos`.

The property is about the last state, and what it needs is spread over the disks, the children and
the bytes on their way. `IInv` promises `Avance` of a job that has not failed and of which no
failure is hidden; neither comes back (`NoVuelve`). `Avance` says what each stage that is over
left at its nodes (`EtapasPasadas`), and for each node whether it is being served (`EnCurso`: the request
is in its connection, or its child works, or there are as many replies as results, and replies that are
all good mean that the result is there) or not (`EnReposo`), and then is done (`Hecho`) if the
master has asked it. `Traidos` is what the child of the host has of the other nodes while it
goes through them, `Hermano` that their children send what the local reduction left. That
`Hermanos` reaches every other node (`HermanosTodos`) is a fact about cardinals. Children that end
keep `Avance` in every state (`MueranAvance`): the master then gets no good reply. There is one lemma for
each action.

### What is only model-checked

- Of YAMA and the masters, what collects over lists that several handlers grow:
  `TransformationCoverage` and `ResultComplete` (which blocks the entries of a job cover) and
  `FinishedIsDone`, when tasks fail and are replanned; `LoadIsPendingTasks` and the first two where
  the FileSystem fails or requests overlap; and `YamaSurvives`, which is false for larger instances (section 3).
- Liveness, which is out of the prover's reach.

## 6. Not modelled, and the plan

Not modelled:

- metrics, logging, configuration files, the wire formats and the names of temporaries (a file of
  69 blocks is taken for an error, `transformation.c:53`; time stamps repeat, `tplibraries/utils/utils.c:19`):
  they are encodings, of which the modules keep the meaning;
- the connections of YAMA and of workers to the server of the FileSystem
  (`fs_servidor.c:257`): to `Yama` an answer of the FileSystem is a choice, and a worker is one
  more thread that writes;
- of the FileSystem, the commands that only read (ls, info); directories and blocks are in two modules, composed only in what a write and a
  rm do to both;
- `eliminarBloque`, which no command calls, the merge of `mergeFiles`, which is not called
  either, and the end of the FileSystem between the metadata and the bitmaps of a write;
- SIGPIPE in YAMA, in a master and in a worker (a reply to a process that has gone is lost); SIGTERM to a
  child of a worker, which inherits the handler and kills its siblings (`worker.c:21`);
- a start of the FileSystem with `nodos.bin` and no metadata of files;
- the library of sockets, lists and strings: the modules use what it promises.

What could follow, in this order:

1. `FsDirectorios` composed with `FileSystem`, and an abstract specification of the store (a path is
   unwritten, or has its content until it is removed, and a read gives it), which `FileSystem`
   implements while no node dies.
2. `FsServidor` with the threads of `FsWrite` and `FsRead`: nodes that come back in the middle
   of a command.
3. Numeric checks of the wire formats and of the names of temporaries.
