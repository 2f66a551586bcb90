----------------------------- MODULE YamaPlanner -----------------------------
(***************************************************************************)
(* The planner of YAMA at work: one step per call of evaluateClock, and    *)
(* between two plannings everything the other handlers of YAMA do to the   *)
(* node table the planner decides on (charges of reductions, tasks that    *)
(* end, nodes that fail, jobs that start, errors that are forgotten).      *)
(* YAMA is one thread, so none of these happens during a planning.         *)
(***************************************************************************)
EXTENDS YamaNodes

CONSTANTS
    Files,       \* the files' blocks: sequences of <<node1, node2>>
    AvailBases,  \* the values NODE_AVAIL takes in the configuration
    Algorithms,  \* the values ALGORITMO_BALANCEO takes
    Reductions,  \* TRUE: reductions and final stores charge nodes too
    NodeErrors,  \* TRUE: masters report failed nodes
    MaxTasks,    \* bound: tasks charged to nodes during a run
    StackDepth   \* bound: nested calls of evaluateClock the stack has room for

ASSUME PlannerAssumption ==
    /\ Files \subseteq Seq(Node \X Node)
    /\ AvailBases \subseteq Int
    /\ Algorithms \subseteq Algorithm
    /\ Reductions \in BOOLEAN /\ NodeErrors \in BOOLEAN
    /\ MaxTasks \in Nat /\ StackDepth \in Nat

VARIABLES
    yama,      \* the planner's part of the struct yama, see YamaNodes
    pc,        \* "idle", "nodes" inside addToNodeList, "evaluate" inside
               \* evaluateClock, "overflow"
    nuevos,    \* the blocks whose nodes are still to be looked up
    blocks,    \* the blocks of the request that are still to be planned
    params,    \* the planning parameters of the request
    pending,   \* pending[n]: tasks charged to n that have not ended
    assigned,  \* tasks charged so far
    depth      \* calls of evaluateClock for the current block

vars == <<yama, pc, nuevos, blocks, params, pending, assigned, depth>>

(* t_planningParams.                                                       *)
Params == [algoritm : Algorithm, availBase : Int]

TypeOK ==
    /\ yama \in PlanState
    /\ pc \in {"idle", "nodes", "evaluate", "overflow"}
    /\ nuevos \in Seq(Node \X Node)
    /\ blocks \in Seq(Node \X Node)
    /\ params \in Params
    /\ pending \in [Node -> Nat]
    /\ assigned \in Nat /\ depth \in Nat

Init ==
    /\ yama = [tabla_nodos |-> <<>>, clock |-> 0, clock_aux |-> 0,
               at |-> 0, found |-> {}]
    /\ pc = "idle"
    /\ nuevos = <<>> /\ blocks = <<>>
    /\ params \in [algoritm : Algorithms, availBase : AvailBases]
    /\ pending = [n \in Node |-> 0]
    /\ assigned = 0 /\ depth = 0

-----------------------------------------------------------------------------
(* The planning of the blocks of one request.                              *)

Replicas == {Head(blocks)[1], Head(blocks)[2]}

DoPlanningOfBlock ==
    /\ pc = "idle" /\ blocks # <<>>
    /\ yama' = StartPlanning(yama.tabla_nodos)
    /\ pc' = "evaluate" /\ depth' = 0
    /\ UNCHANGED <<nuevos, blocks, params, pending, assigned>>

EvaluateCall ==
    /\ pc = "evaluate" /\ depth < StackDepth
    /\ depth' = depth + 1
    /\ UNCHANGED <<nuevos, params>>

SelectNode ==
    /\ EvaluateCall
    /\ Suitable(yama, Replicas) /\ Available(yama)
    /\ yama' = UpdateNodeInTable(yama)
    /\ pc' = "idle"
    /\ blocks' = Tail(blocks)
    /\ pending' = [n \in Node |-> IF n \in yama'.found THEN pending[n] + 1
                                                       ELSE pending[n]]
    /\ assigned' = assigned + 1

RestoreNode ==
    /\ EvaluateCall
    /\ Suitable(yama, Replicas) /\ ~Available(yama)
    /\ yama' = RestoreAvailability(yama, params.availBase)
    /\ UNCHANGED <<pc, blocks, pending, assigned>>

LookFurther ==
    /\ EvaluateCall
    /\ ~Suitable(yama, Replicas)
    /\ yama' = AdvanceClockAux(yama, params.availBase)
    /\ UNCHANGED <<pc, blocks, pending, assigned>>

(* The recursion has used up the stack.                                    *)
StackOverflow ==
    /\ pc = "evaluate" /\ depth = StackDepth
    /\ pc' = "overflow"
    /\ UNCHANGED <<yama, nuevos, blocks, params, pending, assigned, depth>>

-----------------------------------------------------------------------------
(* What the handlers of the requests do to the table.                      *)

Idle == pc = "idle" /\ blocks = <<>>
Table(t) == yama' = [yama EXCEPT !.tabla_nodos = t]

(* A job asks for the transformations of file f, under the configuration   *)
(* of the moment (SIGUSR1 reloads it).                                     *)
JobStarts(f, alg, base) ==
    /\ Idle /\ assigned + Len(f) <= MaxTasks
    /\ pc' = "nodes"
    /\ nuevos' = f /\ blocks' = f
    /\ params' = [algoritm |-> alg, availBase |-> base]
    /\ UNCHANGED <<yama, pending, assigned, depth>>

(* One iteration of addToNodeList.                                         *)
LookUpNodes ==
    /\ pc = "nodes" /\ nuevos # <<>>
    /\ LET t == AddToNodeList(yama.tabla_nodos, Head(nuevos)[1], params.availBase)
       IN  Table(AddToNodeList(t, Head(nuevos)[2], params.availBase))
    /\ nuevos' = Tail(nuevos)
    /\ UNCHANGED <<pc, blocks, params, pending, assigned, depth>>

(* updateAvailability, before the blocks are planned.                      *)
ComputeAvailability ==
    /\ pc = "nodes" /\ nuevos = <<>>
    /\ Table(UpdateAvailability(yama.tabla_nodos, params.algoritm, params.availBase))
    /\ pc' = "idle"
    /\ UNCHANGED <<nuevos, blocks, params, pending, assigned, depth>>

(* processNodeError for a transformation: k tasks of a job of n ended; the *)
(* tasks other jobs have on n go on, although the table says that n has    *)
(* none.  The blocks of f are replanned with the availabilities there are. *)
NodeFails(n, f, base) ==
    /\ Idle /\ NodeErrors /\ assigned + Len(f) <= MaxTasks
    /\ pending[n] > 0
    /\ \A k \in DOMAIN f : /\ Known(yama.tabla_nodos, f[k][1])
                           /\ Known(yama.tabla_nodos, f[k][2])
    /\ Table(IncreaseNodeError(yama.tabla_nodos, n))
    /\ \E k \in 1 .. pending[n] : pending' = [pending EXCEPT ![n] = @ - k]
    /\ blocks' = f
    /\ params' = [params EXCEPT !.availBase = base]
    /\ UNCHANGED <<pc, nuevos, assigned, depth>>

(* A local reduction, a global reduction or a final store is charged to n. *)
ReductionCharged(n) ==
    /\ Idle /\ Reductions /\ assigned < MaxTasks
    /\ Known(yama.tabla_nodos, n)
    /\ Table(IncreaseNodeCharge(yama.tabla_nodos, n))
    /\ pending' = [pending EXCEPT ![n] = @ + 1]
    /\ assigned' = assigned + 1
    /\ UNCHANGED <<pc, nuevos, blocks, params, depth>>

(* processOk: a task of n ended well.                                      *)
TaskEnds(n) ==
    /\ Idle /\ pending[n] > 0
    /\ Table(DecreaseNodeCharge(yama.tabla_nodos, n))
    /\ pending' = [pending EXCEPT ![n] = @ - 1]
    /\ UNCHANGED <<pc, nuevos, blocks, params, assigned, depth>>

(* deleteNodeErrors: a job ended or was aborted, or a master left.         *)
ErrorsForgotten ==
    /\ Idle /\ NodeErrors
    /\ Table(DeleteNodeErrors(yama.tabla_nodos))
    /\ UNCHANGED <<pc, nuevos, blocks, params, pending, assigned, depth>>

Next ==
    \/ DoPlanningOfBlock
    \/ SelectNode
    \/ RestoreNode
    \/ LookFurther
    \/ StackOverflow
    \/ \E f \in Files, alg \in Algorithms, base \in AvailBases : JobStarts(f, alg, base)
    \/ LookUpNodes
    \/ ComputeAvailability
    \/ \E n \in Node, f \in Files, base \in AvailBases : NodeFails(n, f, base)
    \/ \E n \in Node : ReductionCharged(n)
    \/ \E n \in Node : TaskEnds(n)
    \/ ErrorsForgotten

Spec == Init /\ [][Next]_vars

-----------------------------------------------------------------------------
(* Properties.                                                             *)

At(n) == yama.tabla_nodos[FindNode(yama.tabla_nodos, n)]

(* However nodes join and the clock, its auxiliary and the position under  *)
(* evaluation move, no node is twice in the table and none of the three    *)
(* points outside of it: list_get never answers evaluateClock with NULL.   *)
ClockInTable ==
    /\ \A i, j \in DOMAIN yama.tabla_nodos :
          yama.tabla_nodos[i].node_id = yama.tabla_nodos[j].node_id => i = j
    /\ pc = "evaluate" =>
          /\ blocks # <<>>
          /\ {yama.clock, yama.clock_aux, yama.at} \subseteq DOMAIN yama.tabla_nodos

(* The recursion of evaluateClock ends: it exhausts the stack only for a   *)
(* block both of whose nodes have an error that nobody has forgotten yet,  *)
(* the case in which no call can ever select a node.                       *)
OverflowOnlyWhenNoReplicaIsHealthy ==
    pc = "overflow" => \A n \in Replicas : At(n).errors > 0

TableNodes == {yama.tabla_nodos[i].node_id : i \in DOMAIN yama.tabla_nodos}

(* No node of the table has an error, and the loads are the pending tasks. *)
LoadsAreTrue ==
    \A n \in TableNodes : At(n).errors = 0 /\ At(n).tasks_in_progress = pending[n]

(* With the WRR algorithm a block that every known node holds goes to a    *)
(* node with the fewest pending tasks, in whatever order tasks ended and   *)
(* jobs, of either algorithm, started before, as long as no node has an    *)
(* error and no load is one that an error distorted.                       *)
WRRSelectsLeastLoaded ==
    [][pc = "evaluate" /\ pc' = "idle" /\ params.algoritm = "WRR"
       /\ TableNodes \subseteq Replicas /\ LoadsAreTrue
       => \A n \in yama'.found, m \in TableNodes : pending[n] <= pending[m]]_vars
=============================================================================
