-------------------------------- MODULE Yama --------------------------------
(***************************************************************************)
(* The YAMA process: one thread that waits in select() and serves one      *)
(* message of one master at a time.  Each action is the whole handler of   *)
(* one message, from its recv to the send of the reply.                    *)
(***************************************************************************)
EXTENDS Sockets, SequencesExt

CONSTANTS
    Configs,     \* the configurations SIGUSR1 can load: [algoritm, availBase]
    FSFails,     \* TRUE: the FileSystem may refuse or fail a file request
    Overlapping, \* TRUE: a master may connect while another one's first
                 \* request has not been read
    MaxMasters,  \* bound: connections accepted during a run
    StackDepth   \* bound: nested calls of evaluateClock the stack has room for

ASSUME YamaAssumption ==
    /\ Configs \subseteq [algoritm : Algorithm, availBase : Int] /\ Configs # {}
    /\ FSFails \in BOOLEAN /\ Overlapping \in BOOLEAN
    /\ MaxMasters \in Nat /\ StackDepth \in Nat

VARIABLES
    tabla_nodos,            \* see YamaNodes
    tabla_jobs,             \* the jobs, in the order of their requests
    tabla_estados,          \* the tasks, in the order of their planning
    tabla_info_archivos,    \* the files whose block lists were received
    tabla_T_planificados,   \* transformations that a local reduction will use
    tabla_LR_planificados,  \* local reductions a global reduction will use
    tabla_GR_planificados,  \* global reductions a final store will use
    jobs,                   \* connections accepted; the id of the next job
    config,                 \* the configuration in force
    conectados,             \* the descriptors of mastersList
    vivo                    \* "up", "crash", or "ub": see FreesListedEntries

planificados ==
    <<tabla_T_planificados, tabla_LR_planificados, tabla_GR_planificados>>
yamaVars ==
    <<tabla_nodos, tabla_jobs, tabla_estados, tabla_info_archivos,
      planificados, jobs, config, conectados, vivo>>

Job == [id : Nat, master : FDs, estado : {"P", "F", "E"}, etapa : Stage,
        replanificaciones : 0 .. 2]
Row == [job : Nat, master : FDs, node : Node, block : Block \cup {<<>>},
        op : Stage, status : {"P", "F", "E"}, file : Files]
Planned == [job : Nat, master : FDs, nodo : Node, tmps : Seq(Block),
            file : Files]

YamaOK ==
    /\ tabla_nodos \in Seq(NodeRow)
    /\ tabla_jobs \in Seq(Job)
    /\ tabla_estados \in Seq(Row)
    /\ tabla_info_archivos \in Seq(Files)
    /\ tabla_T_planificados \in Seq(Planned)
    /\ tabla_LR_planificados \in Seq(Planned)
    /\ tabla_GR_planificados \in Seq(Planned)
    /\ jobs \in Nat
    /\ config \in Configs
    /\ conectados \in SUBSET FDs
    /\ vivo \in {"up", "crash", "ub"}

YamaInit ==
    /\ tabla_nodos = <<>> /\ tabla_jobs = <<>> /\ tabla_estados = <<>>
    /\ tabla_info_archivos = <<>>
    /\ tabla_T_planificados = <<>>
    /\ tabla_LR_planificados = <<>>
    /\ tabla_GR_planificados = <<>>
    /\ jobs = 0
    /\ config \in Configs
    /\ conectados = {}
    /\ vivo = "up"

-----------------------------------------------------------------------------
(* Jobs and tasks.                                                         *)

First(S) == CHOOSE i \in S : \A j \in S : i <= j

(* Faulty variant of JobIndexes: jobs that ended are found too.            *)
JobIndexesEnded(fd, etapa) ==
    {i \in DOMAIN tabla_jobs : /\ tabla_jobs[i].master = fd
                               /\ tabla_jobs[i].etapa = etapa}

JobIndexes(fd, etapa) ==
    {i \in DOMAIN tabla_jobs : /\ tabla_jobs[i].master = fd
                               /\ tabla_jobs[i].etapa = etapa
                               /\ tabla_jobs[i].estado = "P"}
HasJob(fd, etapa) == JobIndexes(fd, etapa) # {}
GetJobIndex(fd, etapa) == First(JobIndexes(fd, etapa))
JobOf(fd, etapa) == tabla_jobs[GetJobIndex(fd, etapa)]

SetJob(fd, etapa, job) ==
    tabla_jobs' = [tabla_jobs EXCEPT ![GetJobIndex(fd, etapa)] = job]

NewRow(job, fd, node, b, op, f) ==
    [job |-> job, master |-> fd, node |-> node, block |-> b, op |-> op,
     status |-> "P", file |-> f]

(* The rows of the tasks of one stage of a job of master fd.               *)
RowsOf(job, fd, op) ==
    {i \in DOMAIN tabla_estados : /\ tabla_estados[i].job = job
                                  /\ tabla_estados[i].master = fd
                                  /\ tabla_estados[i].op = op}
RowsOn(job, fd, op, node) ==
    {i \in RowsOf(job, fd, op) : tabla_estados[i].node = node}
InProcess(ix) == {i \in ix : tabla_estados[i].status = "P"}

(* updateStatusTable, for each of the rows ix.                             *)
Marked(ix, status) ==
    [i \in DOMAIN tabla_estados |->
       IF i \in ix THEN [tabla_estados[i] EXCEPT !.status = status]
                   ELSE tabla_estados[i]]

(* findInProcessTasks: only a transformation is told apart by its block.   *)
(* Faulty variant: any task in process on the node is taken.               *)
FindInProcessTasksAnyStage(job, fd, op, node, b) ==
    {i \in DOMAIN tabla_estados : /\ tabla_estados[i].node = node
                                  /\ tabla_estados[i].status = "P"}
FindInProcessTasks(job, fd, op, node, b) ==
    {i \in InProcess(RowsOn(job, fd, op, node)) :
       op = "T" => tabla_estados[i].block = b}

(* allTransformProcesFinish: none in process, failed ones do not count.    *)
AllTransformProcesFinish(job, fd) ==
    RowsOf(job, fd, "T") # {} /\ InProcess(RowsOf(job, fd, "T")) = {}

(* allLocalReductionProcesFinish, allGlobalReductionProcesFinish.          *)
AllFinishedWell(job, fd, op) ==
    /\ RowsOf(job, fd, op) # {}
    /\ \A i \in RowsOf(job, fd, op) : tabla_estados[i].status = "F"

-----------------------------------------------------------------------------
(* Planned tasks.                                                          *)

PlannedFor(tabla, job, fd) ==
    Keep(tabla, {i \in DOMAIN tabla : tabla[i].job = job /\ tabla[i].master = fd})

(* Faulty variant of DeletePlaned: one entry too few.                      *)
DeletePlanedOffByOne(tabla, fd, n) ==
    LET rank(i) == Cardinality({j \in 1 .. i : tabla[j].master = fd})
    IN  Keep(tabla, {i \in DOMAIN tabla : tabla[i].master = fd => rank(i) >= n})

(* deleteOfPlanedList and its siblings: the first n entries of master fd   *)
(* are unlinked, of whatever job they are.                                 *)
DeletePlaned(tabla, fd, n) ==
    LET rank(i) == Cardinality({j \in 1 .. i : tabla[j].master = fd})
    IN  Keep(tabla, {i \in DOMAIN tabla : tabla[i].master = fd => rank(i) > n})

(* The entries of the job are freed after the reply is built.  Those that  *)
(* DeletePlaned left in the list, because older entries of the same        *)
(* descriptor came first, are dangling pointers from then on: vivo becomes *)
(* "ub" and the model goes no further.                                     *)
FreesListedEntries(tabla, job, fd) ==
    PlannedFor(DeletePlaned(tabla, fd, Len(PlannedFor(tabla, job, fd))),
               job, fd) # <<>>

(* Faulty variant of Runs: a temporary replaces the one before.            *)
RunsLastOnly(tasks) ==
    LET runs == Grouped(tasks)
    IN  [k \in DOMAIN runs |-> [runs[k] EXCEPT !.tmps = <<Last(@)>>]]

(* processLocalReduction names one result file per run of tasks of a node; *)
(* the master starts one thread per run.                                   *)
Runs(tasks) == Grouped(tasks)

(* list_sort with compareTransformationBlocks keeps the order of the tasks *)
(* of a node.                                                              *)
SortByNode(tasks) ==
    LET sorted[k \in 0 .. Len(tasks)] ==
          IF k = 0 THEN <<>>
          ELSE LET s == sorted[k - 1]
                   upTo == {i \in DOMAIN s : s[i].nodo <= tasks[k].nodo}
               IN  InsertAt(s, Cardinality(upTo) + 1, tasks[k])
    IN  sorted[Len(tasks)]

(* doPlanning for the blocks bs in turn: the table it leaves and the tasks.*)
(* A planning that overflows the stack ("found" empty) ends the process.   *)
PlanBlock(acc, b) ==
    LET p == DoPlanning(acc.nodos, Replicas(b), config.availBase, StackDepth)
    IN  IF acc.overflow \/ p.found = {}
        THEN [acc EXCEPT !.overflow = TRUE]
        ELSE [acc EXCEPT !.nodos = p.tabla_nodos,
                         !.tasks = Append(@, [nodo |-> CHOOSE n \in p.found : TRUE,
                                              tmps |-> <<b>>])]
PlanBlocks(t, bs) ==
    LET plan[k \in 0 .. Len(bs)] ==
          IF k = 0 THEN [nodos |-> t, tasks |-> <<>>, overflow |-> FALSE]
          ELSE PlanBlock(plan[k - 1], bs[k])
    IN  plan[Len(bs)]

(* The tasks as rows, in the order planned, and as planned entries.        *)
TransformationRows(tasks, job, fd, f) ==
    [k \in DOMAIN tasks |->
       NewRow(job, fd, tasks[k].nodo, tasks[k].tmps[1], "T", f)]
PlannedEntries(tasks, job, fd, f) ==
    [k \in DOMAIN tasks |->
       [job |-> job, master |-> fd, nodo |-> tasks[k].nodo,
        tmps |-> tasks[k].tmps, file |-> f]]

-----------------------------------------------------------------------------
(* Handlers.  Attend is what they share: a message with operation op of a  *)
(* connected master is taken while YAMA runs.                              *)

Attend(fd, op) == vivo = "up" /\ fd \in conectados /\ Receive(fd, op)

(* A NULL pointer, the free of a string literal or the stack overflow ends *)
(* the process, and with it everything.                                    *)
Crash ==
    /\ vivo' = "crash"
    /\ UNCHANGED <<tabla_nodos, tabla_jobs, tabla_estados, tabla_info_archivos,
                   planificados, jobs, config, conectados, salida, abiertos>>

(* acceptMasterConnection: the kernel gives the lowest free descriptor.    *)
AcceptMasterConnection(fd) ==
    /\ vivo = "up" /\ jobs < MaxMasters
    /\ fd \in FDs \ conectados /\ \A e \in FDs \ conectados : fd <= e
    /\ jobs' = jobs + 1
    /\ conectados' = conectados \cup {fd}
    /\ abiertos' = abiertos \cup {fd}
    /\ UNCHANGED <<tabla_nodos, tabla_jobs, tabla_estados, tabla_info_archivos,
                   planificados, config, vivo, pedidos, salida>>

(* processOperation 'T'.  existJob: a second request of a master nobody    *)
(* connected after is answered to nobody ('D' is only logged).             *)
ExistJob(id, fd) ==
    \E i \in DOMAIN tabla_jobs : /\ tabla_jobs[i].id = id
                                 /\ tabla_jobs[i].master = fd
                                 /\ tabla_jobs[i].etapa = "T"

NewJob(fd) == [id |-> jobs, master |-> fd, estado |-> "P", etapa |-> "T",
               replanificaciones |-> 0]

(* addToNodeList, for every block of the file.                             *)
AddNodesOf(f) ==
    LET avail == config.availBase
        tabla[k \in 0 .. Len(Layout[f])] ==
          IF k = 0 THEN tabla_nodos
          ELSE AddToNodeList(AddToNodeList(tabla[k - 1], Layout[f][k][1], avail),
                             Layout[f][k][2], avail)
    IN  tabla[Len(Layout[f])]

(* The FileSystem has the file: its nodes join the table, availabilities   *)
(* are computed anew and every block is planned.                           *)
ProcessTransformation(fd) ==
    /\ Attend(fd, "T") /\ ~ExistJob(jobs, fd)
    /\ LET f == Head(pedidos[fd]).file
           bs == [k \in DOMAIN Layout[f] |-> <<f, k>>]
           p == PlanBlocks(UpdateAvailability(AddNodesOf(f), config.algoritm,
                                              config.availBase), bs)
           sorted == SortByNode(p.tasks)
       IN  \/ p.overflow /\ Crash
           \/ /\ ~p.overflow
              /\ tabla_nodos' = p.nodos
              /\ tabla_jobs' = Append(tabla_jobs, NewJob(fd))
              /\ tabla_info_archivos' = Append(tabla_info_archivos, f)
              /\ tabla_estados' = tabla_estados
                                    \o TransformationRows(p.tasks, jobs, fd, f)
              /\ tabla_T_planificados' = tabla_T_planificados
                                    \o PlannedEntries(sorted, jobs, fd, f)
              /\ Respond(fd, "T", sorted)
              /\ UNCHANGED <<tabla_LR_planificados, tabla_GR_planificados,
                             jobs, config, conectados, vivo, abiertos>>

(* The FileSystem has no such file or does not answer: the master is told, *)
(* the job stays as it is.                                                 *)
FileNotAvailable(fd) ==
    /\ FSFails
    /\ Attend(fd, "T") /\ ~ExistJob(jobs, fd)
    /\ tabla_jobs' = Append(tabla_jobs, NewJob(fd))
    /\ Respond(fd, "E", <<>>)
    /\ UNCHANGED <<tabla_nodos, tabla_estados, tabla_info_archivos,
                   planificados, jobs, config, conectados, vivo, abiertos>>


(* processOperation 'L', processLocalReduction.  Without a job, or while a *)
(* transformation is in process, the process ends (list_get gives NULL;    *)
(* the reply "E" is a literal that sendResponse frees).                    *)
LocalReductionNotReady(fd) ==
    /\ Attend(fd, "L")
    /\ HasJob(fd, "T") => ~AllTransformProcesFinish(JobOf(fd, "T").id, fd)
    /\ Crash

(* One run of the planned transformations becomes a local reduction unless *)
(* a job of this id already has one in process on the node.                *)
PlanLocalReduction(acc, r, job, fd, f) ==
    IF \E i \in DOMAIN acc.estados :
          /\ acc.estados[i].job = job /\ acc.estados[i].node = r.nodo
          /\ acc.estados[i].op = "L" /\ acc.estados[i].status = "P"
    THEN acc
    ELSE [nodos |-> IncreaseNodeCharge(acc.nodos, r.nodo),
          estados |-> Append(acc.estados, NewRow(job, fd, r.nodo, <<>>, "L", f)),
          lr |-> Append(acc.lr, [job |-> job, master |-> fd, nodo |-> r.nodo,
                                 tmps |-> r.tmps, file |-> f])]

PlanLocalReductions(runs, job, fd, f) ==
    LET plan[k \in 0 .. Len(runs)] ==
          IF k = 0
          THEN [nodos |-> tabla_nodos, estados |-> tabla_estados,
                lr |-> tabla_LR_planificados]
          ELSE PlanLocalReduction(plan[k - 1], runs[k], job, fd, f)
    IN  plan[Len(runs)]

ProcessLocalReduction(fd) ==
    /\ Attend(fd, "L") /\ HasJob(fd, "T")
    /\ AllTransformProcesFinish(JobOf(fd, "T").id, fd)
    /\ LET job == JobOf(fd, "T")
           planed == PlannedFor(tabla_T_planificados, job.id, fd)
           p == PlanLocalReductions(Runs(planed), job.id, fd, planed[1].file)
       IN  /\ tabla_T_planificados' =
                 DeletePlaned(tabla_T_planificados, fd, Len(planed))
           /\ vivo' = IF FreesListedEntries(tabla_T_planificados, job.id, fd)
                      THEN "ub" ELSE vivo
           /\ tabla_nodos' = p.nodos
           /\ tabla_estados' = p.estados
           /\ tabla_LR_planificados' = p.lr
           /\ SetJob(fd, "T", [job EXCEPT !.etapa = "L"])
           /\ Respond(fd, "L", [k \in DOMAIN planed |->
                                  [nodo |-> planed[k].nodo, tmps |-> planed[k].tmps]])
    /\ UNCHANGED <<tabla_info_archivos, tabla_GR_planificados, jobs, config,
                   conectados, abiertos>>

-----------------------------------------------------------------------------
(* processOperation 'G', processGlobalReduction.                           *)

(* getLastChargedNode: the first of the planned nodes with the least tasks *)
(* in progress.                                                            *)
GetLastChargedNode(planed) ==
    LET load(k) == tabla_nodos[FindNode(tabla_nodos, planed[k].nodo)].tasks_in_progress
        k == First({i \in DOMAIN planed : \A j \in DOMAIN planed : load(i) <= load(j)})
    IN  planed[k].nodo

(* The temporaries of the local reductions, together.                      *)
AllTmps(planed) ==
    LET all[k \in 0 .. Len(planed)] ==
          IF k = 0 THEN <<>> ELSE all[k - 1] \o planed[k].tmps
    IN  all[Len(planed)]

(* Every local reduction has to have finished well: otherwise the stage is *)
(* entered all the same, and nothing is sent ('X').                        *)
GlobalReductionRefused(fd) ==
    /\ Attend(fd, "G") /\ HasJob(fd, "L")
    /\ ~AllFinishedWell(JobOf(fd, "L").id, fd, "L")
    /\ SetJob(fd, "L", [JobOf(fd, "L") EXCEPT !.etapa = "G"])
    /\ UNCHANGED <<tabla_nodos, tabla_estados, tabla_info_archivos, planificados,
                   jobs, config, conectados, vivo, salida, abiertos>>

ProcessGlobalReduction(fd) ==
    /\ Attend(fd, "G") /\ HasJob(fd, "L")
    /\ AllFinishedWell(JobOf(fd, "L").id, fd, "L")
    /\ LET job == JobOf(fd, "L")
           planed == PlannedFor(tabla_LR_planificados, job.id, fd)
           encargado == GetLastChargedNode(planed)
           all == AllTmps(planed)
           f == planed[1].file
       IN  /\ planed # <<>>
           /\ tabla_LR_planificados' =
                 DeletePlaned(tabla_LR_planificados, fd, Len(planed))
           /\ vivo' = IF FreesListedEntries(tabla_LR_planificados, job.id, fd)
                      THEN "ub" ELSE vivo
           /\ tabla_nodos' = IncreaseNodeCharge(tabla_nodos, encargado)
           /\ tabla_estados' = Append(tabla_estados,
                                 NewRow(job.id, fd, encargado, <<>>, "G", f))
           /\ tabla_GR_planificados' = Append(tabla_GR_planificados,
                 [job |-> job.id, master |-> fd, nodo |-> encargado,
                  tmps |-> all, file |-> f])
           /\ SetJob(fd, "L", [job EXCEPT !.etapa = "G"])
           /\ Respond(fd, "G", <<[nodo |-> encargado, tmps |-> all]>>)
    /\ UNCHANGED <<tabla_info_archivos, tabla_T_planificados, jobs, config,
                   conectados, abiertos>>

-----------------------------------------------------------------------------
(* processOperation 'S', processFinalStore.  The planned global reductions *)
(* are looked up by the descriptor alone; the first one is stored and all  *)
(* of them are deleted.                                                    *)
GRPlannedOf(fd) ==
    Keep(tabla_GR_planificados,
         {i \in DOMAIN tabla_GR_planificados : tabla_GR_planificados[i].master = fd})

ProcessFinalStore(fd) ==
    /\ Attend(fd, "S") /\ HasJob(fd, "G")
    /\ AllFinishedWell(JobOf(fd, "G").id, fd, "G")
    /\ GRPlannedOf(fd) # <<>>
    /\ LET job == JobOf(fd, "G")
           e == GRPlannedOf(fd)[1]
       IN  /\ tabla_GR_planificados' =
                 Keep(tabla_GR_planificados,
                      {i \in DOMAIN tabla_GR_planificados :
                         tabla_GR_planificados[i].master # fd})
           /\ tabla_nodos' = IncreaseNodeCharge(tabla_nodos, e.nodo)
           /\ tabla_estados' = Append(tabla_estados,
                                 NewRow(job.id, fd, e.nodo, <<>>, "S", e.file))
           /\ SetJob(fd, "G", [job EXCEPT !.etapa = "S"])
           /\ Respond(fd, "S", <<[nodo |-> e.nodo, tmps |-> e.tmps]>>)
    /\ UNCHANGED <<tabla_info_archivos, tabla_T_planificados,
                   tabla_LR_planificados, jobs, config, conectados, vivo, abiertos>>

(* A request for a stage of which no job of the master is at the stage     *)
(* before, or whose global reduction has not finished well.                *)
StageNotReady(fd) ==
    /\ \/ Attend(fd, "G") /\ ~HasJob(fd, "L")
       \/ /\ Attend(fd, "S")
          /\ HasJob(fd, "G") => ~AllFinishedWell(JobOf(fd, "G").id, fd, "G")
    /\ Crash

-----------------------------------------------------------------------------
(* processOk: the task and, whether or not it was in process, the charge   *)
(* of its node; a final store ends the job.  Without a job ('X'), nothing. *)
ProcessOk(fd) ==
    /\ Attend(fd, "O")
    /\ LET m == Head(pedidos[fd])
           job == JobOf(fd, m.etapa)
           done == FindInProcessTasks(job.id, fd, m.etapa, m.node, m.block)
           t == DecreaseNodeCharge(tabla_nodos, m.node)
       IN  IF ~HasJob(fd, m.etapa)
           THEN UNCHANGED <<tabla_estados, tabla_nodos, tabla_jobs>>
           ELSE /\ tabla_estados' =
                      IF done = {} THEN tabla_estados ELSE Marked({First(done)}, "F")
                /\ tabla_nodos' = IF m.etapa = "S" THEN DeleteNodeErrors(t) ELSE t
                /\ IF m.etapa = "S"
                   THEN SetJob(fd, "S", [job EXCEPT !.estado = "F"])
                   ELSE UNCHANGED tabla_jobs
    /\ UNCHANGED <<tabla_info_archivos, planificados, jobs, config, conectados,
                   vivo, salida, abiertos>>

(* processNodeError of an operation no job of the master is at ('X').      *)
ErrorIgnored(fd) ==
    /\ Attend(fd, "E") /\ ~HasJob(fd, Head(pedidos[fd]).etapa)
    /\ UNCHANGED <<yamaVars, salida, abiertos>>

(* processNodeError of a reduction or a final store: the job is aborted,   *)
(* the tasks of the node are marked; no reply is sent.                     *)
AbortJob(fd) ==
    /\ Attend(fd, "E")
    /\ LET m == Head(pedidos[fd])
           job == JobOf(fd, m.etapa)
       IN  /\ m.etapa # "T" /\ HasJob(fd, m.etapa)
           /\ tabla_estados' =
                 Marked(InProcess(RowsOn(job.id, fd, m.etapa, m.node)), "E")
           /\ tabla_nodos' = DeleteNodeErrors(tabla_nodos)
           /\ SetJob(fd, m.etapa, [job EXCEPT !.estado = "E"])
    /\ UNCHANGED <<tabla_info_archivos, planificados, jobs, config, conectados,
                   vivo, salida, abiertos>>

(* processNodeError of a transformation, replanTask: the planned entries   *)
(* of the node are dropped and the node gets an error.                     *)
NodeFailed(fd) ==
    /\ Attend(fd, "E")
    /\ Head(pedidos[fd]).etapa = "T" /\ HasJob(fd, "T")

(* Faulty variant of PlannedElsewhere: nothing is dropped.                 *)
PlannedAnywhere(fd, n) == tabla_T_planificados
PlannedElsewhere(fd, n) ==
    Keep(tabla_T_planificados,
         {i \in DOMAIN tabla_T_planificados :
            ~(/\ tabla_T_planificados[i].master = fd
              /\ tabla_T_planificados[i].nodo = n)})

(* The job has been replanned before: it is aborted.                       *)
ReplanRefused(fd) ==
    /\ NodeFailed(fd) /\ JobOf(fd, "T").replanificaciones = 1
    /\ LET n == Head(pedidos[fd]).node
           job == JobOf(fd, "T")
       IN  /\ tabla_T_planificados' = PlannedElsewhere(fd, n)
           /\ tabla_nodos' = DeleteNodeErrors(IncreaseNodeError(tabla_nodos, n))
           /\ tabla_estados' = Marked(InProcess(RowsOn(job.id, fd, "T", n)), "E")
           /\ SetJob(fd, "T", [job EXCEPT !.estado = "E", !.replanificaciones = 2])
    /\ Respond(fd, "A", <<>>)
    /\ UNCHANGED <<tabla_info_archivos, tabla_LR_planificados,
                   tabla_GR_planificados, jobs, config, conectados, vivo, abiertos>>

(* findBlock: the block with this number of the first file that has one.   *)
FindBlock(b) ==
    LET i == First({k \in DOMAIN tabla_info_archivos :
                      b[2] \in DOMAIN Layout[tabla_info_archivos[k]]})
    IN  <<tabla_info_archivos[i], b[2]>>

(* Every transformation of the job on the node, finished ones included, is *)
(* planned again with the availabilities there are.                        *)
ReplanTask(fd) ==
    /\ NodeFailed(fd) /\ JobOf(fd, "T").replanificaciones # 1
    /\ LET n == Head(pedidos[fd]).node
           job == JobOf(fd, "T")
           failed == RowsOn(job.id, fd, "T", n)
           rows == Keep(tabla_estados, failed)
           f == rows[1].file
           p == PlanBlocks(IncreaseNodeError(tabla_nodos, n),
                           [k \in DOMAIN rows |-> FindBlock(rows[k].block)])
           sorted == SortByNode(p.tasks)
       IN  \/ p.overflow /\ Crash
           \/ /\ ~p.overflow
              /\ tabla_nodos' = p.nodos
              /\ tabla_estados' = Marked(InProcess(failed), "E")
                                    \o TransformationRows(p.tasks, job.id, fd, f)
              /\ tabla_T_planificados' = PlannedElsewhere(fd, n)
                                    \o PlannedEntries(sorted, job.id, fd, f)
              /\ SetJob(fd, "T", [job EXCEPT !.replanificaciones = 1])
              /\ Respond(fd, "R", sorted)
              /\ UNCHANGED <<tabla_info_archivos, tabla_LR_planificados,
                             tabla_GR_planificados, jobs, config, conectados,
                             vivo, abiertos>>

-----------------------------------------------------------------------------
(* The master closed its socket: abortInProcessJobs, unless recv reports   *)
(* an error instead of the end of the stream.                              *)
MasterDisconnected(fd) ==
    /\ Attend(fd, "FIN")
    /\ LET mine == {i \in DOMAIN tabla_jobs : /\ tabla_jobs[i].master = fd
                                              /\ tabla_jobs[i].estado = "P"}
           rows == {i \in DOMAIN tabla_estados : tabla_estados[i].master = fd}
       IN  /\ tabla_jobs' = [i \in DOMAIN tabla_jobs |->
                               IF i \in mine THEN [tabla_jobs[i] EXCEPT !.estado = "E"]
                                             ELSE tabla_jobs[i]]
           /\ tabla_estados' = IF mine = {} THEN tabla_estados
                                            ELSE Marked(InProcess(rows), "E")
    /\ tabla_nodos' = DeleteNodeErrors(tabla_nodos)
    /\ conectados' = conectados \ {fd}
    /\ UNCHANGED <<tabla_info_archivos, planificados, jobs, config, vivo,
                   salida, abiertos>>

MasterReset(fd) ==
    /\ Attend(fd, "RST")
    /\ conectados' = conectados \ {fd}
    /\ UNCHANGED <<tabla_nodos, tabla_jobs, tabla_estados, tabla_info_archivos,
                   planificados, jobs, config, vivo, salida, abiertos>>

(* SIGUSR1.                                                                *)
ReloadConfig(c) ==
    /\ vivo = "up" /\ c # config
    /\ config' = c
    /\ UNCHANGED <<tabla_nodos, tabla_jobs, tabla_estados, tabla_info_archivos,
                   planificados, jobs, conectados, vivo, sockets>>

(* The handlers take every message a master sends.                         *)
GetMasterMessage(fd) ==
    \/ ProcessTransformation(fd)
    \/ FileNotAvailable(fd)
    \/ ProcessLocalReduction(fd) \/ LocalReductionNotReady(fd)
    \/ ProcessGlobalReduction(fd) \/ GlobalReductionRefused(fd)
    \/ ProcessFinalStore(fd) \/ StageNotReady(fd)
    \/ ProcessOk(fd)
    \/ ReplanTask(fd) \/ ReplanRefused(fd) \/ AbortJob(fd) \/ ErrorIgnored(fd)
    \/ MasterDisconnected(fd) \/ MasterReset(fd)

(* What all of them do, whatever the message.                              *)
Served(fd) ==
    /\ vivo = "up" /\ fd \in conectados /\ pedidos[fd] # <<>>
    /\ pedidos' = [pedidos EXCEPT ![fd] = Tail(@)]
=============================================================================
