----------------------------- MODULE YamaMaster -----------------------------
(***************************************************************************)
(* YAMA and its masters, connected by sockets: the whole control of a job. *)
(***************************************************************************)
EXTENDS Yama, Master

vars == <<yamaVars, sockets, masterVars>>

TypeOK == YamaOK /\ SocketsOK /\ MasterOK

Init == YamaInit /\ SocketsInit /\ MasterInit

(* A master process starts (openYamaConnection) and YAMA accepts it.       *)
Greeting(fd) ==
    pc[fd] = "conectado" \/ \E k \in DOMAIN pedidos[fd] : pedidos[fd][k].op = "T"
MasterConnects(fd) ==
    /\ AcceptMasterConnection(fd)
    /\ Overlapping \/ ~\E e \in conectados : Greeting(e)
    /\ GoTo(fd, "conectado")
    /\ UNCHANGED <<hilos, leido, replanification, abortJob, faults>>

MasterWorks(fd) == vivo = "up" /\ MasterStep(fd) /\ UNCHANGED yamaVars
MasterFails(fd) == vivo = "up" /\ MasterFault(fd) /\ UNCHANGED yamaVars
YamaStep(fd) == GetMasterMessage(fd) /\ UNCHANGED masterVars

Next ==
    \/ \E fd \in FDs : MasterConnects(fd)
    \/ \E fd \in FDs : YamaStep(fd)
    \/ \E c \in Configs : ReloadConfig(c) /\ UNCHANGED masterVars
    \/ \E fd \in FDs : MasterWorks(fd)
    \/ \E fd \in FDs : MasterFails(fd)

Spec == Init /\ [][Next]_vars

(* select() reports every descriptor with something to read and one round  *)
(* of exploreActivity serves them all (some handler is enabled for every   *)
(* message, so fairness of Served is fairness of YamaStep); the threads of *)
(* a master and its workers make progress unless they fail.                *)
Fairness ==
    \A fd \in FDs : WF_pedidos(Served(fd)) /\ WF_vars(MasterWorks(fd))

FairSpec == Spec /\ Fairness

-----------------------------------------------------------------------------
(* Safety.                                                                 *)

RowIx == DOMAIN tabla_estados
ActiveJobs == {i \in DOMAIN tabla_jobs : tabla_jobs[i].estado = "P"}
Entries(tabla, j) == PlannedFor(tabla, j.id, j.master)

(* No sequence of requests and results of well-behaved masters makes YAMA  *)
(* follow a NULL pointer, free what it did not allocate or lose itself in  *)
(* evaluateClock, and no entry it frees stays listed; nor do the failures  *)
(* of a job, while it is the only one.                                     *)
YamaSurvives == faults = 0 \/ Len(tabla_jobs) <= 1 => vivo = "up"

(* The tables agree: tasks_in_progress is the number of tasks in process   *)
(* on the node, of all jobs and stages (every request that charges a node  *)
(* adds the rows, every OK takes one away), and such a task is of a job in *)
(* process at the stage of the task, so that no stage overtakes the tasks  *)
(* of another.  (A node that fails loses the count of its tasks.)          *)
LoadIsPendingTasks ==
    faults = 0 =>
      LET pending == {i \in RowIx : tabla_estados[i].status = "P"}
      IN  /\ \A k \in DOMAIN tabla_nodos :
               tabla_nodos[k].tasks_in_progress =
                 Cardinality({i \in pending : tabla_estados[i].node = tabla_nodos[k].node_id})
          /\ \A i \in pending : \E j \in ActiveJobs :
               /\ tabla_jobs[j].id = tabla_estados[i].job
               /\ tabla_jobs[j].master = tabla_estados[i].master
               /\ tabla_jobs[j].etapa = tabla_estados[i].op

(* While a job is in its transformation the entries planned for its local  *)
(* reduction are the blocks of one file, each once, each on a node that    *)
(* holds it, before and after a replanning.                                *)
TransformationCoverage ==
    \A j \in ActiveJobs :
       LET es == Entries(tabla_T_planificados, tabla_jobs[j])
       IN  tabla_jobs[j].etapa = "T" /\ es # <<>> =>
             /\ \A k \in DOMAIN es : es[k].nodo \in Replicas(es[k].tmps[1])
             /\ IsInjective([k \in DOMAIN es |-> es[k].tmps[1]])
             /\ {es[k].tmps[1] : k \in DOMAIN es} = BlocksOf(es[1].file)

(* What a global reduction is given, and with it what the final store      *)
(* stores, is the transformation of every block of the file, each once.    *)
ResultComplete ==
    \A k \in DOMAIN tabla_GR_planificados :
       LET e == tabla_GR_planificados[k]
       IN  IsInjective(e.tmps) /\ ToSet(e.tmps) = BlocksOf(e.file)

(* A job that YAMA takes for finished left nothing undone: no task of its  *)
(* is in process, those of its reductions and its final store, of which    *)
(* each stage has one at least, ended well, and every block of a file was  *)
(* transformed well, on this node or, after a replanning, on another.      *)
FinishedIsDone ==
    \A j \in DOMAIN tabla_jobs : tabla_jobs[j].estado = "F" =>
       LET rows(e) == RowsOf(tabla_jobs[j].id, tabla_jobs[j].master, e)
           well(e) == {i \in rows(e) : tabla_estados[i].status = "F"}
       IN  /\ InProcess(rows("T")) = {}
           /\ \A e \in {"L", "G", "S"} : rows(e) # {} /\ well(e) = rows(e)
           /\ \E f \in Files : \A b \in BlocksOf(f) :
                 \E i \in well("T") : tabla_estados[i].block = b

(* A master that waits for the rest of a replanning finds it in its socket,*)
(* or on its way: it never takes another reply for it.                     *)
ReplanReplyIsThere ==
    \A fd \in FDs : pc[fd] = "esperaR" => salida[fd] # <<>> /\ Head(salida[fd]).op = "R"

-----------------------------------------------------------------------------
(* The jobs as JobLifecycle sees them: a block is pending while a row of   *)
(* its transformation is in process.                                       *)

Trabajo(j) ==
    [estado |-> j.estado, etapa |-> j.etapa,
     replanificado |-> j.replanificaciones > 0,
     pendientes |-> IF j.estado # "P" THEN {}
                    ELSE {tabla_estados[i].block[2] :
                            i \in InProcess(RowsOf(j.id, j.master, "T"))}]

Lifecycle == INSTANCE JobLifecycle
               WITH Blocks <- UNION {DOMAIN Layout[f] : f \in Files},
                    trabajos <- [k \in DOMAIN tabla_jobs |-> Trabajo(tabla_jobs[k])]

(* Whatever masters request, report or leave undone, in whatever order     *)
(* YAMA serves them and whatever entries of earlier jobs its tables keep,  *)
(* every job follows its lifecycle: no stage is skipped, entered twice or  *)
(* entered with a transformation pending, one replanning at most, and a    *)
(* job that ended stays as it is.                                          *)
JobsFollowLifecycle == Lifecycle!Spec

-----------------------------------------------------------------------------
(* What a step may not do.                                                 *)

(* A transformation that failed on a node is not planned again on it.      *)
ReplansElsewhere ==
    [][\A fd \in FDs : NodeFailed(fd) /\ Len(tabla_estados') > Len(tabla_estados) =>
         \A i \in DOMAIN tabla_estados' \ RowIx :
            tabla_estados'[i].node # Head(pedidos[fd]).node]_vars

(* A master starts the local reduction on a node only over temporaries     *)
(* whose transformation ended well on that node, after the last failure.   *)
ReducesWhatWasTransformed ==
    [][\A fd \in FDs : pc[fd] = "esperaL" /\ pc'[fd] = "L" =>
         \A h \in hilos'[fd] : \A b \in ToSet(h.tmps) :
            \E i \in RowIx : /\ tabla_estados[i].master = fd
                             /\ tabla_estados[i].node = h.nodo
                             /\ tabla_estados[i].block = b
                             /\ tabla_estados[i].op = "T"
                             /\ tabla_estados[i].status = "F"]_vars

-----------------------------------------------------------------------------
(* Liveness.                                                               *)

(* Every master that connects ends, whatever tasks of its job or of        *)
(* another one fail, as long as YAMA goes on (MaxMasters connect, so from  *)
(* some point on none is there), and its job finishes unless one failed.   *)
MastersEnd ==
    /\ <>[]((\A fd \in FDs : pc[fd] = "off") \/ vivo # "up")
    /\ <>[]((\A j \in DOMAIN tabla_jobs : tabla_jobs[j].estado = "F") \/ faults > 0)

-----------------------------------------------------------------------------
(* What comments, log messages and the names of the code say.              *)

(* planner.c:231: "Se debera evaluar si el Bloque a asignar se encuentra   *)
(* en el Worker apuntado por el Clock".                                    *)
TransformationOnReplica ==
    \A i \in RowIx : tabla_estados[i].op = "T" =>
       tabla_estados[i].node \in Replicas(<<tabla_estados[i].file, tabla_estados[i].block[2]>>)

(* globalReduction.c:234: "Todas las reducciones locales deben terminar    *)
(* antes de empezar la reduccion global": it is refused only while a local *)
(* reduction of the job has not finished.                                  *)
RefusedOnlyWhileReducing ==
    [][\A fd \in FDs : GlobalReductionRefused(fd) =>
         \E i \in RowsOf(JobOf(fd, "L").id, fd, "L") : tabla_estados[i].status # "F"]_vars

(* finalStore.c:127: "La reduccion global debe terminar antes de empezar   *)
(* el almacenamiento final": what is handed out is a reduction that ended. *)
StoresFinishedReduction ==
    [][\A fd \in FDs : ProcessFinalStore(fd) =>
         AllFinishedWell(GRPlannedOf(fd)[1].job, fd, "G")]_vars
=============================================================================
