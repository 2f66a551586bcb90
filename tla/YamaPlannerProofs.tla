-------------------------- MODULE YamaPlannerProofs --------------------------
(***************************************************************************)
(* Proofs about the planner, for every set of nodes, every file, every     *)
(* configuration and any number of tasks: types, that the clock stays in   *)
(* the table, that a node is selected as long as a replica of the block    *)
(* has no error, and that WRR balances the loads.                          *)
(***************************************************************************)
EXTENDS YamaPlanner, YamaNodesProofs, FiniteSetTheorems, FunctionTheorems

-----------------------------------------------------------------------------
(* The inductive invariant: between two plannings there is a table for the *)
(* blocks still to be planned, because their nodes joined it first.        *)

IInv ==
    /\ TypeOK
    /\ ClockInTable
    /\ pc = "idle" /\ blocks # <<>> => yama.tabla_nodos # <<>>
    /\ pc = "nodes" => yama.tabla_nodos # <<>> \/ nuevos = blocks

LEMMA InitIInv == Init => IInv
<1> SUFFICES ASSUME Init PROVE IInv
  OBVIOUS
<1>1. params \in Params
  BY PlannerAssumption DEF Init, Params
<1>2. yama \in PlanState
  BY DEF Init, PlanState
<1>3. pending \in [Node -> Nat]
  BY DEF Init
<1>4. TypeOK
  BY <1>1, <1>2, <1>3 DEF Init, TypeOK
<1>5. ClockInTable
  BY DEF Init, ClockInTable
<1> QED
  BY <1>4, <1>5 DEF Init, IInv

(* A step outside of evaluateClock that writes the table t leaves the type *)
(* of the rest of the planning alone.                                      *)
LEMMA TableStep ==
    ASSUME IInv, NEW t, Table_OK(t), yama' = [yama EXCEPT !.tabla_nodos = t]
    PROVE  yama' \in PlanState /\ yama'.tabla_nodos = t /\ NoNodeTwice(yama'.tabla_nodos)
BY TableRewritten, Zenon DEF IInv, TypeOK, Table_OK

(* A step that leaves evaluateClock alone, keeps the type and leaves a     *)
(* table for the blocks keeps the invariant.                               *)
LEMMA IdleStep ==
    ASSUME TypeOK', NoNodeTwice(yama.tabla_nodos)',
           pc' \in {"idle", "nodes"},
           \/ yama'.tabla_nodos # <<>>
           \/ pc' = "idle" /\ blocks' = <<>>
           \/ pc' = "nodes" /\ nuevos' = blocks'
    PROVE  IInv'
<1>1. ClockInTable'
  BY DEF ClockInTable, NoNodeTwice
<1>2. /\ pc' = "idle" /\ blocks' # <<>> => yama'.tabla_nodos # <<>>
      /\ pc' = "nodes" => yama'.tabla_nodos # <<>> \/ nuevos' = blocks'
  OBVIOUS
<1> QED
  BY <1>1, <1>2 DEF IInv

LEMMA NextIInv == IInv /\ [Next]_vars => IInv'
<1> SUFFICES ASSUME IInv, [Next]_vars PROVE IInv'
  OBVIOUS
<1>1. /\ TypeOK
      /\ yama \in PlanState /\ Table_OK(yama.tabla_nodos)
      /\ nuevos \in Seq(Node \X Node) /\ blocks \in Seq(Node \X Node)
      /\ params \in Params /\ params.algoritm \in Algorithm /\ params.availBase \in Int
      /\ pending \in [Node -> Nat] /\ assigned \in Nat /\ depth \in Nat
  BY DEF IInv, TypeOK, Table_OK, PlanState, Params, ClockInTable, NoNodeTwice
<1>2. pc = "evaluate" => PlanningOK(yama) /\ blocks # <<>>
  BY <1>1 DEF IInv, ClockInTable, PlanningOK
<1>3. CASE DoPlanningOfBlock
  <2>1. PlanningOK(yama')
    BY <1>1, <1>3, StartOK DEF DoPlanningOfBlock, IInv
  <2>2. TypeOK'
    BY <1>1, <1>3, <2>1 DEF DoPlanningOfBlock, TypeOK, PlanningOK
  <2> QED
    BY <1>3, <2>1, <2>2
       DEF DoPlanningOfBlock, IInv, ClockInTable, PlanningOK, Table_OK, NoNodeTwice
<1>4. CASE SelectNode
  <2>1. PlanningOK(yama) /\ blocks # <<>>
    BY <1>2, <1>4 DEF SelectNode, EvaluateCall
  <2>2. /\ yama' \in PlanState /\ Table_OK(yama'.tabla_nodos)
        /\ SameNodes(yama.tabla_nodos, yama'.tabla_nodos)
    BY <1>4, <2>1, SelectOK DEF SelectNode
  <2>3. yama'.tabla_nodos # <<>>
    BY <1>1, <2>1, <2>2 DEF PlanningOK, SameNodes, Table_OK
  <2>4. pending' \in [Node -> Nat]
    BY <1>1, <1>4 DEF SelectNode
  <2>5. TypeOK'
    BY <1>1, <1>4, <2>1, <2>2, <2>4 DEF SelectNode, EvaluateCall, TypeOK
  <2> QED
    BY <1>4, <2>2, <2>3, <2>5, IdleStep DEF SelectNode, Table_OK
<1>5. CASE RestoreNode
  <2>1. PlanningOK(yama')
    BY <1>1, <1>2, <1>5, RestoreOK DEF RestoreNode, EvaluateCall
  <2>2. TypeOK'
    BY <1>1, <1>5, <2>1 DEF RestoreNode, EvaluateCall, TypeOK, PlanningOK
  <2> QED
    BY <1>2, <1>5, <2>1, <2>2
       DEF RestoreNode, EvaluateCall, IInv, ClockInTable, PlanningOK, Table_OK, NoNodeTwice
<1>6. CASE LookFurther
  <2>1. PlanningOK(yama')
    BY <1>1, <1>2, <1>6, AdvanceOK DEF LookFurther, EvaluateCall
  <2>2. TypeOK'
    BY <1>1, <1>6, <2>1 DEF LookFurther, EvaluateCall, TypeOK, PlanningOK
  <2> QED
    BY <1>2, <1>6, <2>1, <2>2
       DEF LookFurther, EvaluateCall, IInv, ClockInTable, PlanningOK, Table_OK, NoNodeTwice
<1>7. CASE StackOverflow
  BY <1>7 DEF StackOverflow, IInv, TypeOK, ClockInTable
<1>8. ASSUME NEW f \in Files, NEW alg \in Algorithms, NEW base \in AvailBases,
             JobStarts(f, alg, base)
      PROVE  IInv'
  <2>1. /\ f \in Seq(Node \X Node) /\ params' \in Params
    BY <1>8, PlannerAssumption DEF JobStarts, Params
  <2>2. TypeOK'
    BY <1>1, <1>8, <2>1 DEF JobStarts, TypeOK
  <2>3. NoNodeTwice(yama.tabla_nodos)'
    BY <1>1, <1>8 DEF JobStarts, Table_OK, NoNodeTwice
  <2> QED
    BY <1>8, <2>2, <2>3, IdleStep DEF JobStarts
<1>9. CASE LookUpNodes
  <2> DEFINE t == AddToNodeList(yama.tabla_nodos, Head(nuevos)[1], params.availBase)
             g == AddToNodeList(t, Head(nuevos)[2], params.availBase)
  <2>1. Head(nuevos)[1] \in Node /\ Head(nuevos)[2] \in Node
    <3>1. Head(nuevos) \in Node \X Node
      BY <1>1, <1>9 DEF LookUpNodes
    <3> QED
      BY <3>1
  <2>2. Table_OK(t)
    BY <1>1, <2>1, JoinKeepsTable
  <2>3. Table_OK(g) /\ g # <<>>
    BY <1>1, <2>1, <2>2, JoinKeepsTable
  <2>4. yama' = [yama EXCEPT !.tabla_nodos = g]
    BY <1>9, Zenon DEF LookUpNodes, Table
  <2>5. yama' \in PlanState /\ yama'.tabla_nodos = g /\ NoNodeTwice(yama'.tabla_nodos)
    BY <2>3, <2>4, TableStep
  <2> HIDE DEF t, g
  <2>6. nuevos' \in Seq(Node \X Node)
    BY <1>1, <1>9 DEF LookUpNodes
  <2>7. TypeOK'
    BY <1>1, <1>9, <2>5, <2>6 DEF LookUpNodes, TypeOK
  <2> QED
    BY <1>9, <2>3, <2>5, <2>7, IdleStep DEF LookUpNodes
<1>10. CASE ComputeAvailability
  <2> DEFINE g == UpdateAvailability(yama.tabla_nodos, params.algoritm, params.availBase)
  <2>1. Table_OK(g) /\ SameNodes(yama.tabla_nodos, g)
    BY <1>1, AvailabilityKeepsTable
  <2>2. yama' = [yama EXCEPT !.tabla_nodos = g]
    BY <1>10, Zenon DEF ComputeAvailability, Table
  <2>3. yama' \in PlanState /\ yama'.tabla_nodos = g /\ NoNodeTwice(yama'.tabla_nodos)
    BY <2>1, <2>2, TableStep
  <2> HIDE DEF g
  <2>4. TypeOK'
    BY <1>1, <1>10, <2>3 DEF ComputeAvailability, TypeOK
  <2>5. yama'.tabla_nodos # <<>> \/ blocks' = <<>>
    <3>1. yama.tabla_nodos # <<>> \/ blocks = <<>>
      BY <1>10 DEF ComputeAvailability, IInv
    <3>2. yama.tabla_nodos # <<>> => g # <<>>
      BY <1>1, <2>1 DEF SameNodes, Table_OK
    <3> QED
      BY <1>10, <2>3, <3>1, <3>2 DEF ComputeAvailability
  <2> QED
    BY <1>10, <2>3, <2>4, <2>5, IdleStep DEF ComputeAvailability
<1>11. ASSUME NEW n \in Node, NEW f \in Files, NEW base \in AvailBases,
              NodeFails(n, f, base)
       PROVE  IInv'
  <2> DEFINE g == IncreaseNodeError(yama.tabla_nodos, n)
  <2>1. Table_OK(g) /\ SameNodes(yama.tabla_nodos, g)
    BY <1>1, HandlersKeepTable
  <2>2. yama' = [yama EXCEPT !.tabla_nodos = g]
    BY <1>11, Zenon DEF NodeFails, Table
  <2>3. yama' \in PlanState /\ yama'.tabla_nodos = g /\ NoNodeTwice(yama'.tabla_nodos)
    BY <2>1, <2>2, TableStep
  <2> HIDE DEF g
  <2>4. f \in Seq(Node \X Node) /\ params' \in Params
    <3>1. f \in Seq(Node \X Node) /\ base \in Int
      BY PlannerAssumption
    <3> QED
      BY <1>1, <1>11, <3>1 DEF NodeFails, Params
  <2>5. pending' \in [Node -> Nat]
    <3>1. PICK k \in 1 .. pending[n] : pending' = [pending EXCEPT ![n] = @ - k]
      BY <1>11 DEF NodeFails
    <3>2. pending[n] \in Nat
      BY <1>1
    <3>3. pending[n] - k \in Nat
      BY <3>2
    <3> QED
      BY <1>1, <3>1, <3>3
  <2>6. TypeOK'
    BY <1>1, <1>11, <2>3, <2>4, <2>5 DEF NodeFails, Idle, TypeOK
  <2>7. yama'.tabla_nodos # <<>> \/ blocks' = <<>>
    <3>1. CASE f = <<>>
      BY <1>11, <3>1 DEF NodeFails
    <3>2. CASE f # <<>>
      <4>1. 1 \in DOMAIN f
        BY <2>4, <3>2
      <4>2. PICK i \in DOMAIN yama.tabla_nodos : TRUE
        BY <1>11, <4>1 DEF NodeFails, Known
      <4> QED
        BY <1>1, <2>1, <2>3, <4>2 DEF SameNodes, Table_OK
    <3> QED
      BY <3>1, <3>2
  <2> QED
    BY <1>11, <2>3, <2>6, <2>7, IdleStep DEF NodeFails, Idle
<1>12. ASSUME NEW n \in Node, ReductionCharged(n) PROVE IInv'
  <2>1. Table_OK(IncreaseNodeCharge(yama.tabla_nodos, n))
    BY <1>1, HandlersKeepTable
  <2>2. yama' \in PlanState /\ NoNodeTwice(yama'.tabla_nodos)
    BY <1>12, <2>1, TableStep, Zenon DEF ReductionCharged, Table
  <2>3. pending' \in [Node -> Nat]
    BY <1>1, <1>12 DEF ReductionCharged
  <2>4. TypeOK'
    BY <1>1, <1>12, <2>2, <2>3 DEF ReductionCharged, TypeOK
  <2> QED
    BY <1>12, <2>2, <2>4, IdleStep DEF ReductionCharged, Idle
<1>13. ASSUME NEW n \in Node, TaskEnds(n) PROVE IInv'
  <2>1. Table_OK(DecreaseNodeCharge(yama.tabla_nodos, n))
    BY <1>1, HandlersKeepTable
  <2>2. yama' \in PlanState /\ NoNodeTwice(yama'.tabla_nodos)
    BY <1>13, <2>1, TableStep, Zenon DEF TaskEnds, Table
  <2>3. pending' \in [Node -> Nat]
    <3>1. pending[n] \in Nat /\ pending[n] > 0
      BY <1>1, <1>13 DEF TaskEnds
    <3> QED
      BY <1>1, <1>13, <3>1 DEF TaskEnds
  <2>4. TypeOK'
    BY <1>1, <1>13, <2>2, <2>3 DEF TaskEnds, TypeOK
  <2> QED
    BY <1>13, <2>2, <2>4, IdleStep DEF TaskEnds, Idle
<1>14. CASE ErrorsForgotten
  <2>1. Table_OK(DeleteNodeErrors(yama.tabla_nodos))
    <3>1. CASE Node = {}
      <4>1. DOMAIN yama.tabla_nodos = {}
        BY <1>1, <3>1, RowFields DEF Table_OK
      <4> QED
        BY <1>1, <4>1 DEF DeleteNodeErrors, Table_OK, NoNodeTwice
    <3>2. CASE Node # {}
      BY <1>1, <3>2, HandlersKeepTable
    <3> QED
      BY <3>1, <3>2
  <2>2. yama' \in PlanState /\ NoNodeTwice(yama'.tabla_nodos)
    BY <1>14, <2>1, TableStep, Zenon DEF ErrorsForgotten, Table
  <2>3. TypeOK'
    BY <1>1, <1>14, <2>2 DEF ErrorsForgotten, TypeOK
  <2> QED
    BY <1>14, <2>2, <2>3, IdleStep DEF ErrorsForgotten, Idle
<1>15. CASE UNCHANGED vars
  BY <1>15 DEF vars, IInv, TypeOK, ClockInTable
<1> QED
  BY <1>3, <1>4, <1>5, <1>6, <1>7, <1>8, <1>9, <1>10, <1>11, <1>12, <1>13,
     <1>14, <1>15 DEF Next

-----------------------------------------------------------------------------
(* The theorems.                                                           *)

(* Every variable keeps its type, the unsigned counters of the table and   *)
(* the signed availabilities among them, whatever YAMA is asked to do.     *)
THEOREM TypeCorrect == Spec => []TypeOK
<1>1. IInv => TypeOK
  BY DEF IInv
<1> QED
  BY <1>1, InitIInv, NextIInv, PTL DEF Spec

(* evaluateClock never looks at a position outside of the table, and the   *)
(* table never lists a node twice.                                         *)
THEOREM ClockStaysInTable == Spec => []ClockInTable
<1>1. IInv => ClockInTable
  BY DEF IInv
<1> QED
  BY <1>1, InitIInv, NextIInv, PTL DEF Spec

-----------------------------------------------------------------------------
(* How many calls of evaluateClock a planning can still take.              *)

(* A row that a planning may select, once it has availability.             *)
Healthy(t, replicas, h) == t[h].errors = 0 /\ t[h].node_id \in replicas

(* How far position h is ahead of c in a table of N rows: one turn when it *)
(* is c itself.                                                            *)
StepsTo(N, c, h) == IF c < h THEN h - c ELSE h - c + N

(* The calls until row h is selected, if no other row needs attention: it  *)
(* is under evaluation or clock_aux is on its way to it; with nothing      *)
(* available it is passed over until clock_aux is back at the clock; with  *)
(* less than nothing it gets the base when it is reached.                  *)
Way(p, h) ==
    LET N == Len(p.tabla_nodos)
        v == p.tabla_nodos[h].availability
    IN  IF v > 0 THEN IF p.at = h THEN 1 ELSE 1 + StepsTo(N, p.clock_aux, h)
        ELSE IF v = 0 THEN 1 + N + StepsTo(N, p.clock_aux, p.clock)
        ELSE IF p.at = h THEN 2 * N + 2 ELSE 2 * N + 2 + StepsTo(N, p.clock_aux, h)

(* The other replica of the block has to get its base first.               *)
OtherSpent(p, replicas, h) ==
    \E g \in DOMAIN p.tabla_nodos :
        /\ g # h /\ Healthy(p.tabla_nodos, replicas, g)
        /\ p.tabla_nodos[g].availability <= 0

CallsLeft(p, replicas, h) ==
    IF OtherSpent(p, replicas, h) THEN Way(p, h) + 2 ELSE Way(p, h)

(* The cyclic distance, and what walking towards a position does to it.    *)
LEMMA StepsInTable ==
    ASSUME NEW t \in Seq(NodeRow), NEW c \in DOMAIN t, NEW h \in DOMAIN t
    PROVE  /\ StepsTo(Len(t), c, h) \in 1 .. Len(t)
           /\ Ahead(t, c, StepsTo(Len(t), c, h)) = h
           /\ \A k \in 1 .. Len(t) : k < StepsTo(Len(t), c, h) =>
                 StepsTo(Len(t), Ahead(t, c, k), h) = StepsTo(Len(t), c, h) - k
<1>1. Len(t) \in Nat /\ DOMAIN t = 1 .. Len(t)
  OBVIOUS
<1>2. StepsTo(Len(t), c, h) \in 1 .. Len(t) /\ Ahead(t, c, StepsTo(Len(t), c, h)) = h
  BY <1>1 DEF StepsTo, Ahead
<1>3. ASSUME NEW k \in 1 .. Len(t), k < StepsTo(Len(t), c, h)
      PROVE  StepsTo(Len(t), Ahead(t, c, k), h) = StepsTo(Len(t), c, h) - k
  <2>1. CASE c < h
    BY <1>1, <1>3, <2>1 DEF StepsTo, Ahead
  <2>2. CASE h <= c
    BY <1>1, <1>3, <2>2 DEF StepsTo, Ahead
  <2> QED
    BY <1>1, <2>1, <2>2
<1> QED
  BY <1>2, <1>3

(* The clock moves by one: it is one step further away, or less.           *)
LEMMA ClockOneFurther ==
    ASSUME NEW t \in Seq(NodeRow), NEW c \in DOMAIN t, NEW a \in DOMAIN t
    PROVE  StepsTo(Len(t), a, IncreseClock(t, c)) <= StepsTo(Len(t), a, c) + 1
<1>1. Len(t) \in Nat /\ DOMAIN t = 1 .. Len(t)
  OBVIOUS
<1> QED
  BY <1>1 DEF StepsTo, IncreseClock

(* The loop of evaluateClock does not pass the clock, nor a row whose      *)
(* availability is not 0.                                                  *)
LEMMA SkipStopsBefore ==
    ASSUME NEW t \in Seq(NodeRow), NEW clock \in DOMAIN t, NEW aux \in DOMAIN t,
           NEW h \in DOMAIN t, h = clock \/ t[h].availability # 0
    PROVE  LET a == SkipUnavailable(t, clock, aux)
           IN  a = h \/ StepsTo(Len(t), a, h) < StepsTo(Len(t), aux, h)
<1> DEFINE N == Len(t)
           d == StepsTo(N, aux, h)
           stop == {k \in 1 .. N :
                      LET p == Ahead(t, aux, k)
                      IN  t[p].availability # 0 \/ p = clock}
           first == CHOOSE k \in stop : \A j \in stop : k <= j
<1>1. N \in Nat /\ DOMAIN t = 1 .. N
  OBVIOUS
<1>2. d \in 1 .. N
  BY StepsInTable
<1>3. Ahead(t, aux, d) = h
  BY StepsInTable
<1>4. d \in stop
  BY <1>2, <1>3
<1>5. stop \subseteq Nat
  BY <1>1
<1>6. first \in stop /\ first <= d
  <2>1. PICK m \in stop : \A j \in stop : m <= j
    <3> HIDE DEF stop, d
    <3> QED
      BY <1>4, <1>5, MenorNatural
  <2>2. first \in stop /\ \A j \in stop : first <= j
    <3> HIDE DEF stop
    <3> QED
      BY <2>1
  <2> HIDE DEF stop, first
  <2> QED
    BY <1>4, <2>2
<1>7. first \in 1 .. N
  BY <1>6
<1>8. SkipUnavailable(t, clock, aux) = Ahead(t, aux, first)
  BY DEF SkipUnavailable
<1> HIDE DEF first, stop
<1>9. CASE first = d
  BY <1>3, <1>8, <1>9
<1>10. CASE first < d
  <2>1. StepsTo(N, Ahead(t, aux, first), h) = d - first
    BY <1>7, <1>10, StepsInTable
  <2> HIDE DEF d
  <2> QED
    BY <1>2, <1>7, <1>8, <2>1 DEF d
<1> QED
  BY <1>1, <1>2, <1>6, <1>7, <1>9, <1>10

(* What the two calls that select nothing write.                           *)
LEMMA RestoreEs ==
    ASSUME NEW p, PlanningOK(p), NEW base \in Int
    PROVE  LET q == RestoreAvailability(p, base)
           IN  /\ q.tabla_nodos = [p.tabla_nodos EXCEPT ![p.at].availability = base]
               /\ q.clock = IncreseClock(p.tabla_nodos, p.clock)
               /\ q.clock_aux = p.clock_aux /\ q.at = IncreseClock(p.tabla_nodos, p.clock)
BY DEF RestoreAvailability, PlanningOK, PlanState

(* The same, of the call that looks further.                              *)
LEMMA AdvanceEs ==
    ASSUME NEW p, PlanningOK(p), NEW base \in Int
    PROVE  LET q == AdvanceClockAux(p, base)
               a == SkipUnavailable(p.tabla_nodos, p.clock, p.clock_aux)
           IN  /\ q.tabla_nodos = IF a = p.clock THEN AddAvailBase(p.tabla_nodos, base)
                                                 ELSE p.tabla_nodos
               /\ q.clock = p.clock /\ q.clock_aux = a /\ q.at = a
BY DEF AdvanceClockAux, PlanningOK, PlanState

(* The measure is a number, and a planning starts with at most 3 N + 4.    *)
LEMMA CallsBounded ==
    ASSUME NEW p, PlanningOK(p), NEW replicas, NEW h \in DOMAIN p.tabla_nodos
    PROVE  /\ Way(p, h) \in Nat /\ Way(p, h) >= 1 /\ Way(p, h) <= 3 * Len(p.tabla_nodos) + 2
           /\ CallsLeft(p, replicas, h) \in Nat /\ CallsLeft(p, replicas, h) >= 1
           /\ CallsLeft(p, replicas, h) <= 3 * Len(p.tabla_nodos) + 4
<1> DEFINE t == p.tabla_nodos
           N == Len(t)
           v == t[h].availability
<1>1. /\ t \in Seq(NodeRow) /\ N \in Nat /\ DOMAIN t = 1 .. N
      /\ p.clock \in DOMAIN t /\ p.clock_aux \in DOMAIN t
  BY DEF PlanningOK, Table_OK
<1>2. v \in Int
  BY <1>1, RowFields
<1>3. StepsTo(N, p.clock_aux, h) \in 1 .. N /\ StepsTo(N, p.clock_aux, p.clock) \in 1 .. N
  BY <1>1, StepsInTable
<1>4. Way(p, h) \in Nat /\ Way(p, h) >= 1 /\ Way(p, h) <= 3 * N + 2
  <2> DEFINE d == StepsTo(N, p.clock_aux, h)
             e == StepsTo(N, p.clock_aux, p.clock)
  <2>1. Way(p, h) = IF v > 0 THEN IF p.at = h THEN 1 ELSE 1 + d
                    ELSE IF v = 0 THEN 1 + N + e
                    ELSE IF p.at = h THEN 2 * N + 2 ELSE 2 * N + 2 + d
    BY DEF Way
  <2>2. d \in 1 .. N /\ e \in 1 .. N
    BY <1>3
  <2> HIDE DEF d, e, v, N
  <2> QED
    BY <1>1, <1>2, <2>1, <2>2
<1> HIDE DEF v, N, t
<1>5. CallsLeft(p, replicas, h) \in {Way(p, h), Way(p, h) + 2}
  BY DEF CallsLeft
<1>6. CallsLeft(p, replicas, h) \in Nat /\ CallsLeft(p, replicas, h) >= 1
      /\ CallsLeft(p, replicas, h) <= 3 * N + 4
  BY <1>1, <1>4, <1>5
<1> QED
  BY <1>4, <1>6 DEF N, t

(* A call that looks further leaves fewer.                                 *)
LEMMA AdvanceFewer ==
    ASSUME NEW p, PlanningOK(p), NEW base \in Nat \ {0}, NEW replicas,
           NEW h \in DOMAIN p.tabla_nodos, Healthy(p.tabla_nodos, replicas, h),
           ~Suitable(p, replicas)
    PROVE  CallsLeft(AdvanceClockAux(p, base), replicas, h) < CallsLeft(p, replicas, h)
<1> DEFINE q == AdvanceClockAux(p, base)
           t == p.tabla_nodos
           g == q.tabla_nodos
           N == Len(t)
           a == SkipUnavailable(t, p.clock, p.clock_aux)
           v == t[h].availability
<1>1. /\ t \in Seq(NodeRow) /\ N \in Nat /\ DOMAIN t = 1 .. N /\ base \in Int
      /\ p.clock \in DOMAIN t /\ p.clock_aux \in DOMAIN t
  BY DEF PlanningOK, Table_OK
<1>2. /\ PlanningOK(q) /\ SameNodes(t, g) /\ SameErrors(t, g)
      /\ q.clock = p.clock /\ q.clock_aux = a /\ q.at = a
      /\ g = IF a = p.clock THEN AddAvailBase(t, base) ELSE t
  BY <1>1, AdvanceOK, AdvanceEs
<1>3. \A i \in DOMAIN t :
         g[i].availability = IF a = p.clock THEN t[i].availability + base ELSE t[i].availability
  <2>1. \A i \in DOMAIN t : t[i] \in NodeRow
    BY <1>1
  <2>2. \A i \in DOMAIN t : AddAvailBase(t, base)[i].availability = t[i].availability + base
    BY <2>1 DEF AddAvailBase, NodeRow
  <2> QED
    BY <1>2, <2>2
<1>4. \A i \in DOMAIN t : t[i].availability \in Int
  BY <1>1, RowFields
<1>5. DOMAIN g = DOMAIN t /\ Len(g) = N
  <2>1. g \in Seq(NodeRow)
    BY <1>2 DEF PlanningOK, Table_OK
  <2>2. DOMAIN g = DOMAIN t
    BY <1>2 DEF SameNodes
  <2> HIDE DEF g
  <2> QED
    BY <1>1, <2>1, <2>2
<1>6. OtherSpent(q, replicas, h) => OtherSpent(p, replicas, h)
  <2>1. ASSUME NEW i \in DOMAIN g, i # h, Healthy(g, replicas, i), g[i].availability <= 0
        PROVE  OtherSpent(p, replicas, h)
    <3>1. Healthy(t, replicas, i)
      BY <1>2, <2>1 DEF Healthy, SameNodes, SameErrors
    <3>2. t[i].availability <= 0
      BY <1>1, <1>3, <1>4, <1>5, <2>1
    <3> QED
      BY <1>5, <2>1, <3>1, <3>2 DEF OtherSpent
  <2> QED
    BY <2>1 DEF OtherSpent
<1>7. Way(q, h) < Way(p, h)
  <2> DEFINE d == StepsTo(N, p.clock_aux, h)
             e == StepsTo(N, p.clock_aux, p.clock)
             dd == StepsTo(N, a, h)
             ee == StepsTo(N, a, p.clock)
             w == g[h].availability
  <2>1. p.at # h
    BY DEF Suitable, Healthy, BlockExistInClock
  <2>2. Way(p, h) = IF v > 0 THEN 1 + d
                    ELSE IF v = 0 THEN 1 + N + e
                    ELSE 2 * N + 2 + d
    BY <2>1 DEF Way
  <2>3. Way(q, h) = IF w > 0 THEN IF a = h THEN 1 ELSE 1 + dd
                    ELSE IF w = 0 THEN 1 + N + ee
                    ELSE IF a = h THEN 2 * N + 2 ELSE 2 * N + 2 + dd
    BY <1>2, <1>5 DEF Way
  <2>4. a \in DOMAIN t
    BY <1>1, SkipStopsInTable
  <2>5. d \in 1 .. N /\ e \in 1 .. N /\ dd \in 1 .. N /\ ee \in 1 .. N
    BY <1>1, <2>4, StepsInTable
  <2>6. v # 0 => a = h \/ dd < d
    BY <1>1, SkipStopsBefore
  <2>7. a = p.clock \/ ee < e
    BY <1>1, SkipStopsBefore
  <2>8. v \in Int /\ w = IF a = p.clock THEN v + base ELSE v
    BY <1>3, <1>4
  <2> HIDE DEF d, e, dd, ee, w, v, N, t, g, q, a
  <2>9. CASE v > 0
    BY <1>1, <2>2, <2>3, <2>5, <2>6, <2>8, <2>9
  <2>10. CASE v = 0
    <3>1. CASE a = p.clock
      <4>1. w > 0
        BY <2>8, <2>10, <3>1
      <4> QED
        BY <1>1, <2>2, <2>3, <2>5, <2>10, <4>1
    <3>2. CASE a # p.clock
      BY <1>1, <2>2, <2>3, <2>5, <2>7, <2>8, <2>10, <3>2
    <3> QED
      BY <3>1, <3>2
  <2>11. CASE v < 0
    BY <1>1, <2>2, <2>3, <2>5, <2>6, <2>8, <2>11
  <2> QED
    BY <2>8, <2>9, <2>10, <2>11
<1>8. Way(p, h) \in Nat /\ Way(q, h) \in Nat
  BY <1>2, <1>5, CallsBounded
<1> HIDE DEF q
<1> QED
  BY <1>6, <1>7, <1>8 DEF CallsLeft, q

(* A call that gives a replica its base back leaves fewer for either       *)
(* replica: the other one has nothing more to wait for.                    *)
LEMMA RestoreFewer ==
    ASSUME NEW p, PlanningOK(p), NEW base \in Nat \ {0}, NEW x, NEW y,
           NEW h \in DOMAIN p.tabla_nodos, Healthy(p.tabla_nodos, {x, y}, h),
           Suitable(p, {x, y}), ~Available(p)
    PROVE  CallsLeft(RestoreAvailability(p, base), {x, y}, h) < CallsLeft(p, {x, y}, h)
<1> DEFINE q == RestoreAvailability(p, base)
           t == p.tabla_nodos
           g == q.tabla_nodos
           N == Len(t)
           c == IncreseClock(t, p.clock)
           R == {x, y}
<1>1. /\ t \in Seq(NodeRow) /\ N \in Nat /\ DOMAIN t = 1 .. N /\ base \in Int /\ base > 0
      /\ p.clock \in DOMAIN t /\ p.clock_aux \in DOMAIN t /\ p.at \in DOMAIN t
      /\ NoNodeTwice(t)
  BY DEF PlanningOK, Table_OK
<1>2. /\ PlanningOK(q) /\ SameNodes(t, g) /\ SameErrors(t, g)
      /\ q.clock = c /\ q.clock_aux = p.clock_aux /\ q.at = c
      /\ g = [t EXCEPT ![p.at].availability = base]
  BY <1>1, RestoreOK, RestoreEs
<1>3. /\ g[p.at].availability = base
      /\ \A i \in DOMAIN t : i # p.at => g[i].availability = t[i].availability
  <2>1. t[p.at] \in NodeRow
    BY <1>1
  <2>2. g[p.at].availability = base
    BY <1>1, <1>2, <2>1 DEF NodeRow
  <2> QED
    BY <1>2, <2>2
<1>4. t[h].availability \in Int /\ t[p.at].availability \in Int /\ t[p.at].availability <= 0
  <2>1. t[h].availability \in Int /\ t[p.at].availability \in Int
    BY <1>1, RowFields
  <2> QED
    BY <2>1 DEF Available
<1>5. DOMAIN g = DOMAIN t /\ Len(g) = N
  <2>1. g \in Seq(NodeRow)
    BY <1>2 DEF PlanningOK, Table_OK
  <2>2. DOMAIN g = DOMAIN t
    BY <1>2 DEF SameNodes
  <2> HIDE DEF g
  <2> QED
    BY <1>1, <2>1, <2>2
<1>6. Healthy(t, R, p.at) /\ Healthy(t, R, h)
  BY DEF Healthy, Suitable, BlockExistInClock
<1>7. ASSUME NEW i \in DOMAIN t, Healthy(g, R, i) PROVE Healthy(t, R, i)
  BY <1>2, <1>7 DEF Healthy, SameNodes, SameErrors
<1>8. /\ Way(p, h) \in Nat /\ Way(q, h) \in Nat
  BY <1>2, <1>5, CallsBounded
<1> DEFINE d == StepsTo(N, p.clock_aux, h)
           e == StepsTo(N, p.clock_aux, p.clock)
           ee == StepsTo(N, p.clock_aux, c)
           v == t[h].availability
           w == g[h].availability
<1>9. c \in DOMAIN t /\ ee <= e + 1
  BY <1>1, IncreseClockInTable, ClockOneFurther
<1>10. d \in 1 .. N /\ e \in 1 .. N /\ ee \in 1 .. N
  BY <1>1, <1>9, StepsInTable
<1>11. Way(p, h) = IF v > 0 THEN IF p.at = h THEN 1 ELSE 1 + d
                   ELSE IF v = 0 THEN 1 + N + e
                   ELSE IF p.at = h THEN 2 * N + 2 ELSE 2 * N + 2 + d
  BY DEF Way
<1>12. Way(q, h) = IF w > 0 THEN IF c = h THEN 1 ELSE 1 + d
                   ELSE IF w = 0 THEN 1 + N + ee
                   ELSE IF c = h THEN 2 * N + 2 ELSE 2 * N + 2 + d
  BY <1>2, <1>5 DEF Way
<1>13. CASE p.at = h
  <2>1. w > 0 /\ v <= 0 /\ v \in Int
    BY <1>1, <1>3, <1>4, <1>13
  <2>2. Way(q, h) < Way(p, h)
    <3> HIDE DEF d, e, ee, v, w, N, t, g, q, c
    <3>1. Way(q, h) <= 1 + N
      BY <1>1, <1>10, <1>12, <2>1
    <3>2. Way(p, h) >= N + 2
      BY <1>1, <1>10, <1>11, <1>13, <2>1
    <3> QED
      BY <1>1, <1>8, <3>1, <3>2
  <2>3. OtherSpent(q, R, h) => OtherSpent(p, R, h)
    <3>1. ASSUME NEW i \in DOMAIN g, i # h, Healthy(g, R, i), g[i].availability <= 0
          PROVE  OtherSpent(p, R, h)
      <4>1. Healthy(t, R, i) /\ t[i].availability <= 0
        BY <1>3, <1>5, <1>7, <1>13, <3>1
      <4> QED
        BY <1>5, <3>1, <4>1 DEF OtherSpent
    <3> QED
      BY <3>1 DEF OtherSpent
  <2> HIDE DEF q, R
  <2> QED
    BY <1>8, <2>2, <2>3 DEF CallsLeft, q, R
<1>14. CASE p.at # h
  <2>1. OtherSpent(p, R, h)
    BY <1>1, <1>4, <1>6, <1>14 DEF OtherSpent
  <2>2. ~OtherSpent(q, R, h)
    <3>1. ASSUME NEW i \in DOMAIN g, i # h, Healthy(g, R, i), g[i].availability <= 0
          PROVE  FALSE
      <4>1. Healthy(t, R, i) /\ i \in DOMAIN t
        BY <1>5, <1>7, <3>1
      <4>2. i # p.at
        BY <1>1, <1>3, <3>1
      <4>3. /\ t[i].node_id # t[h].node_id /\ t[i].node_id # t[p.at].node_id
            /\ t[h].node_id # t[p.at].node_id
        BY <1>1, <1>14, <3>1, <4>1, <4>2 DEF NoNodeTwice
      <4> QED
        BY <1>6, <4>1, <4>3 DEF Healthy
    <3> QED
      BY <3>1 DEF OtherSpent
  <2>3. w = v /\ v \in Int
    BY <1>3, <1>4, <1>14
  <2>4. Way(q, h) <= Way(p, h) + 1
    <3> HIDE DEF d, e, ee, v, w, N, t, g, q, c
    <3>1. CASE v > 0
      BY <1>1, <1>10, <1>11, <1>12, <1>14, <2>3, <3>1
    <3>2. CASE v = 0
      BY <1>1, <1>9, <1>10, <1>11, <1>12, <1>14, <2>3, <3>2
    <3>3. CASE v < 0
      BY <1>1, <1>10, <1>11, <1>12, <1>14, <2>3, <3>3
    <3> QED
      BY <2>3, <3>1, <3>2, <3>3
  <2> HIDE DEF q, R
  <2> QED
    BY <1>8, <2>1, <2>2, <2>4 DEF CallsLeft, q, R
<1> QED
  BY <1>13, <1>14

(* A table has one row for each node at most.                              *)
LEMMA TableNotLonger ==
    ASSUME NEW t, Table_OK(t), IsFiniteSet(Node)
    PROVE  Len(t) <= Cardinality(Node)
<1> DEFINE S == 1 .. Len(t)
           f == [i \in S |-> t[i].node_id]
<1>1. t \in Seq(NodeRow) /\ Len(t) \in Nat /\ DOMAIN t = S
  BY DEF Table_OK
<1>2. f \in Injection(S, Node)
  <2>1. \A i \in S : t[i].node_id \in Node
    BY <1>1, RowFields
  <2>2. \A i, j \in S : t[i].node_id = t[j].node_id => i = j
    BY <1>1 DEF Table_OK, NoNodeTwice
  <2> QED
    BY <2>1, <2>2, Fun_IsInj
<1>3. Cardinality(S) <= Cardinality(Node)
  <2> HIDE DEF f, S
  <2> QED
    BY <1>2, FS_Injection 
<1>4. Cardinality(S) = Len(t)
  <2>1. 1 \in Int /\ Len(t) \in Int /\ Len(t) >= 0
    BY <1>1
  <2>2. Cardinality(S) = IF 1 > Len(t) THEN 0 ELSE Len(t) - 1 + 1
    BY <2>1, FS_Interval
  <2> QED
    BY <2>1, <2>2
<1> QED
  BY <1>3, <1>4

(* What the bound on the stack has to be for the recursion to fit in it,   *)
(* and the base that gives a spent node something.                         *)
EnoughStack ==
    /\ IsFiniteSet(Node) /\ 3 * Cardinality(Node) + 4 <= StackDepth
    /\ AvailBases \subseteq Nat \ {0}

BothKnown(t, b) == Known(t, b[1]) /\ Known(t, b[2])

(* The nodes of the blocks to plan are in the table, or will join it.      *)
Joined ==
    /\ params.availBase \in AvailBases
    /\ \A k \in DOMAIN blocks :
          \/ BothKnown(yama.tabla_nodos, blocks[k])
          \/ pc = "nodes" /\ \E j \in DOMAIN nuevos : nuevos[j] = blocks[k]

(* While a replica is healthy, the stack has room for the calls that are   *)
(* left; without room, none is.                                            *)
WithinStack ==
    /\ pc = "evaluate" =>
          \A h \in DOMAIN yama.tabla_nodos :
             Healthy(yama.tabla_nodos, Replicas, h) =>
                depth + CallsLeft(yama, Replicas, h) <= StackDepth
    /\ pc = "overflow" =>
          /\ blocks # <<>>
          /\ \A h \in DOMAIN yama.tabla_nodos : ~Healthy(yama.tabla_nodos, Replicas, h)

(* A node that joins is known, and nobody is forgotten.                    *)
LEMMA JoinIsKnown ==
    ASSUME NEW t, Table_OK(t), NEW n \in Node, NEW base \in Int
    PROVE  /\ Known(AddToNodeList(t, n, base), n)
           /\ \A m : Known(t, m) => Known(AddToNodeList(t, n, base), m)
<1>1. CASE Known(t, n)
  BY <1>1 DEF AddToNodeList
<1>2. CASE ~Known(t, n)
  <2> DEFINE r == NewNode(n, base)
             g == Append(t, r)
  <2>1. t \in Seq(NodeRow) /\ Len(t) \in Nat /\ DOMAIN t = 1 .. Len(t) /\ r.node_id = n
    BY DEF Table_OK, NewNode
  <2>2. AddToNodeList(t, n, base) = g
    BY <1>2 DEF AddToNodeList
  <2> HIDE DEF r
  <2>3. /\ DOMAIN g = 1 .. Len(t) + 1 /\ g[Len(t) + 1] = r
        /\ \A i \in DOMAIN t : i \in DOMAIN g /\ g[i] = t[i]
    BY <2>1
  <2>4. Len(t) + 1 \in DOMAIN g
    BY <2>1, <2>3
  <2> HIDE DEF g
  <2> QED
    BY <2>1, <2>2, <2>3, <2>4 DEF Known
<1> QED
  BY <1>1, <1>2

(* What is known of a table is known of one with the same nodes.           *)
LEMMA SameKnown ==
    ASSUME NEW t, NEW g, SameNodes(t, g), NEW b, BothKnown(t, b)
    PROVE  BothKnown(g, b)
BY DEF SameNodes, BothKnown, Known

(* Planning changes no row's node, and the blocks left were blocks before. *)
LEMMA PlanningKeepsJoined ==
    ASSUME IInv, Joined, params' = params, pc # "nodes",
           SameNodes(yama.tabla_nodos, yama'.tabla_nodos),
           blocks' = blocks \/ (blocks # <<>> /\ blocks' = Tail(blocks))
    PROVE  Joined'
<1>1. blocks \in Seq(Node \X Node)
  BY DEF IInv, TypeOK
<1>2. \A k \in DOMAIN blocks' : \E i \in DOMAIN blocks : blocks'[k] = blocks[i]
  <2>1. CASE blocks' = blocks
    BY <2>1
  <2>2. CASE blocks # <<>> /\ blocks' = Tail(blocks)
    <3>1. \A k \in DOMAIN blocks' : k + 1 \in DOMAIN blocks /\ blocks'[k] = blocks[k + 1]
      BY <1>1, <2>2
    <3> QED
      BY <3>1
  <2> QED
    BY <2>1, <2>2
<1>3. \A k \in DOMAIN blocks' : BothKnown(yama'.tabla_nodos, blocks'[k])
  BY <1>2, SameKnown DEF Joined
<1> QED
  BY <1>3 DEF Joined

(* Every step preserves Joined.                                            *)
LEMMA NextJoined ==
    ASSUME IInv, Joined, [Next]_vars
    PROVE  Joined'
<1>1. /\ Table_OK(yama.tabla_nodos) /\ nuevos \in Seq(Node \X Node)
      /\ blocks \in Seq(Node \X Node) /\ params.availBase \in Int
      /\ params.algoritm \in Algorithm
      /\ yama \in PlanState /\ params \in Params
  BY DEF IInv, TypeOK, Table_OK, PlanState, Params, ClockInTable, NoNodeTwice
<1>2. pc = "evaluate" => PlanningOK(yama)
  BY <1>1 DEF IInv, ClockInTable, PlanningOK
<1>3. SameNodes(yama.tabla_nodos, yama.tabla_nodos)
  BY DEF SameNodes
<1>4. CASE DoPlanningOfBlock
  <2>1. yama'.tabla_nodos = yama.tabla_nodos
    BY <1>1, <1>4, StartOK DEF DoPlanningOfBlock, IInv
  <2>2. params' = params /\ pc # "nodes" /\ blocks' = blocks
    BY <1>4 DEF DoPlanningOfBlock
  <2> QED
    BY <1>3, <2>1, <2>2, PlanningKeepsJoined
<1>5. CASE SelectNode
  <2>1. SameNodes(yama.tabla_nodos, yama'.tabla_nodos)
    BY <1>2, <1>5, SelectOK DEF SelectNode, EvaluateCall
  <2>2. blocks # <<>>
    BY <1>5 DEF SelectNode, EvaluateCall, IInv, ClockInTable
  <2>3. params' = params /\ pc # "nodes" /\ blocks' = Tail(blocks)
    BY <1>5 DEF SelectNode, EvaluateCall
  <2> QED
    BY <2>1, <2>2, <2>3, PlanningKeepsJoined
<1>6. CASE RestoreNode
  <2>1. SameNodes(yama.tabla_nodos, yama'.tabla_nodos)
    BY <1>1, <1>2, <1>6, RestoreOK DEF RestoreNode, EvaluateCall
  <2>2. params' = params /\ pc # "nodes" /\ blocks' = blocks
    BY <1>6 DEF RestoreNode, EvaluateCall
  <2> QED
    BY <2>1, <2>2, PlanningKeepsJoined
<1>7. CASE LookFurther
  <2>1. SameNodes(yama.tabla_nodos, yama'.tabla_nodos)
    BY <1>1, <1>2, <1>7, AdvanceOK DEF LookFurther, EvaluateCall
  <2>2. params' = params /\ pc # "nodes" /\ blocks' = blocks
    BY <1>7 DEF LookFurther, EvaluateCall
  <2> QED
    BY <2>1, <2>2, PlanningKeepsJoined
<1>8. CASE StackOverflow
  <2>1. params' = params /\ pc # "nodes" /\ blocks' = blocks /\ yama' = yama
    BY <1>8 DEF StackOverflow
  <2> QED
    BY <1>3, <2>1, PlanningKeepsJoined
<1>9. ASSUME NEW f \in Files, NEW alg \in Algorithms, NEW base \in AvailBases,
             JobStarts(f, alg, base)
      PROVE  Joined'
  BY <1>9 DEF JobStarts, Joined
<1>10. CASE LookUpNodes
  <2> DEFINE n == Head(nuevos)[1]
             m == Head(nuevos)[2]
             base == params.availBase
             t == AddToNodeList(yama.tabla_nodos, n, base)
             g == AddToNodeList(t, m, base)
  <2>1. n \in Node /\ m \in Node
    <3>1. Head(nuevos) \in Node \X Node
      BY <1>1, <1>10 DEF LookUpNodes
    <3> QED
      BY <3>1
  <2>2. Table_OK(t) /\ Table_OK(g)
    BY <1>1, <2>1, JoinKeepsTable
  <2>3. yama'.tabla_nodos = g
    <3>1. yama' = [yama EXCEPT !.tabla_nodos = g]
      BY <1>10, Zenon DEF LookUpNodes, Table
    <3> HIDE DEF g
    <3> QED
      BY <1>1, <3>1 DEF PlanState
  <2>4. Known(t, n) /\ \A x : Known(yama.tabla_nodos, x) => Known(t, x)
    BY <1>1, <2>1, JoinIsKnown
  <2>5. Known(g, m) /\ \A x : Known(t, x) => Known(g, x)
    BY <1>1, <2>1, <2>2, JoinIsKnown
  <2> HIDE DEF t, g
  <2>6. BothKnown(g, Head(nuevos))
    BY <2>4, <2>5 DEF BothKnown
  <2>7. ASSUME NEW k \in DOMAIN blocks, ~BothKnown(g, blocks[k])
        PROVE  \E j \in DOMAIN nuevos' : nuevos'[j] = blocks[k]
    <3>1. ~BothKnown(yama.tabla_nodos, blocks[k])
      BY <2>4, <2>5, <2>7 DEF BothKnown
    <3>2. PICK j \in DOMAIN nuevos : nuevos[j] = blocks[k]
      BY <3>1 DEF Joined
    <3>3. j # 1
      BY <1>1, <2>6, <2>7, <3>2
    <3>4. j - 1 \in DOMAIN Tail(nuevos) /\ Tail(nuevos)[j - 1] = nuevos[j]
      BY <1>1, <3>2, <3>3
    <3> QED
      BY <1>10, <3>2, <3>4 DEF LookUpNodes
  <2>8. blocks' = blocks /\ params' = params /\ pc' = "nodes"
    BY <1>10 DEF LookUpNodes
  <2> QED
    BY <2>3, <2>7, <2>8 DEF Joined
<1>11. CASE ComputeAvailability
  <2> DEFINE g == UpdateAvailability(yama.tabla_nodos, params.algoritm, params.availBase)
  <2>1. SameNodes(yama.tabla_nodos, g)
    BY <1>1, AvailabilityKeepsTable
  <2>2. yama'.tabla_nodos = g
    <3>1. yama' = [yama EXCEPT !.tabla_nodos = g]
      BY <1>11, Zenon DEF ComputeAvailability, Table
    <3> HIDE DEF g
    <3> QED
      BY <1>1, <3>1 DEF PlanState
  <2> HIDE DEF g
  <2>3. \A k \in DOMAIN blocks : BothKnown(yama.tabla_nodos, blocks[k])
    BY <1>11 DEF ComputeAvailability, Joined
  <2>4. \A k \in DOMAIN blocks : BothKnown(g, blocks[k])
    BY <2>1, <2>3, SameKnown
  <2>5. blocks' = blocks /\ params' = params
    BY <1>11 DEF ComputeAvailability
  <2> QED
    BY <2>2, <2>4, <2>5 DEF Joined
<1>12. ASSUME NEW n \in Node, NEW f \in Files, NEW base \in AvailBases,
              NodeFails(n, f, base)
       PROVE  Joined'
  <2> DEFINE g == IncreaseNodeError(yama.tabla_nodos, n)
  <2>1. SameNodes(yama.tabla_nodos, g)
    BY <1>1, HandlersKeepTable
  <2>2. yama'.tabla_nodos = g
    <3>1. yama' = [yama EXCEPT !.tabla_nodos = g]
      BY <1>12, Zenon DEF NodeFails, Table
    <3> HIDE DEF g
    <3> QED
      BY <1>1, <3>1 DEF PlanState
  <2> HIDE DEF g
  <2>3. \A k \in DOMAIN f : BothKnown(yama.tabla_nodos, f[k])
    BY <1>12 DEF NodeFails, BothKnown
  <2>4. \A k \in DOMAIN f : BothKnown(g, f[k])
    BY <2>1, <2>3, SameKnown
  <2>5. blocks' = f /\ params'.availBase = base
    BY <1>1, <1>12 DEF NodeFails, Params
  <2> QED
    BY <2>2, <2>4, <2>5 DEF Joined
<1>13. ASSUME blocks' = <<>>, params' = params PROVE Joined'
  BY <1>13 DEF Joined
<1>14. ASSUME NEW n \in Node, ReductionCharged(n) \/ TaskEnds(n) PROVE Joined'
  BY <1>13, <1>14 DEF ReductionCharged, TaskEnds, Idle
<1>15. CASE ErrorsForgotten
  BY <1>13, <1>15 DEF ErrorsForgotten, Idle
<1>16. CASE UNCHANGED vars
  BY <1>16 DEF vars, Joined
<1> QED
  BY <1>4, <1>5, <1>6, <1>7, <1>8, <1>9, <1>10, <1>11, <1>12, <1>14, <1>15, <1>16 DEF Next

(* Every step preserves WithinStack: a planning starts with few enough     *)
(* calls left, and each of its calls uses one of them up.                  *)
LEMMA NextWithinStack ==
    ASSUME EnoughStack, IInv, IInv', Joined, WithinStack, [Next]_vars
    PROVE  WithinStack'
<1>1. /\ Table_OK(yama.tabla_nodos) /\ params.availBase \in Nat \ {0} /\ params.availBase \in Int
      /\ depth \in Nat /\ StackDepth \in Nat
  BY PlannerAssumption DEF IInv, TypeOK, Table_OK, PlanState, ClockInTable, NoNodeTwice, Joined, EnoughStack
<1>2. pc = "evaluate" => PlanningOK(yama) /\ blocks # <<>>
  BY <1>1 DEF IInv, TypeOK, ClockInTable, PlanningOK
<1>3. CASE DoPlanningOfBlock
  <2>1. PlanningOK(yama') /\ pc' = "evaluate" /\ depth' = 0 /\ blocks' = blocks
    BY <1>1, <1>3, StartOK DEF DoPlanningOfBlock, IInv
  <2>2. Table_OK(yama'.tabla_nodos) /\ Len(yama'.tabla_nodos) \in Nat
    BY <2>1 DEF PlanningOK, Table_OK
  <2>3. Len(yama'.tabla_nodos) <= Cardinality(Node) /\ Cardinality(Node) \in Nat
    BY <2>2, TableNotLonger, FS_CardinalityType DEF EnoughStack
  <2>4. ASSUME NEW h \in DOMAIN yama'.tabla_nodos
        PROVE  depth' + CallsLeft(yama', Replicas', h) <= StackDepth
    <3> DEFINE c == CallsLeft(yama', Replicas', h)
               N == Len(yama'.tabla_nodos)
    <3>1. c \in Nat /\ c <= 3 * N + 4
      BY <2>1, CallsBounded
    <3>2. 3 * Cardinality(Node) + 4 <= StackDepth
      BY DEF EnoughStack
    <3> HIDE DEF c, N
    <3>3. N \in Nat /\ N <= Cardinality(Node)
      BY <2>2, <2>3 DEF N
    <3>4. c <= StackDepth
      BY <1>1, <2>3, <3>1, <3>2, <3>3
    <3>5. 0 + c = c
      BY <3>1
    <3> QED
      BY <2>1, <3>4, <3>5 DEF c
  <2> QED
    BY <2>1, <2>4 DEF WithinStack
<1>4. ASSUME RestoreNode \/ LookFurther PROVE WithinStack'
  <2> DEFINE t == yama.tabla_nodos
             R == Replicas
  <2>1. /\ pc = "evaluate" /\ pc' = "evaluate" /\ depth' = depth + 1 /\ blocks' = blocks
        /\ PlanningOK(yama)
    BY <1>2, <1>4 DEF RestoreNode, LookFurther, EvaluateCall
  <2>2. Replicas' = R /\ R = {Head(blocks)[1], Head(blocks)[2]}
    BY <2>1 DEF Replicas
  <2>3. /\ RestoreNode => yama' = RestoreAvailability(yama, params.availBase)
        /\ RestoreNode => Suitable(yama, R) /\ ~Available(yama)
        /\ LookFurther => yama' = AdvanceClockAux(yama, params.availBase)
        /\ LookFurther => ~Suitable(yama, R)
    BY DEF RestoreNode, LookFurther
  <2>4. PlanningOK(yama') /\ SameNodes(t, yama'.tabla_nodos) /\ SameErrors(t, yama'.tabla_nodos)
    BY <1>1, <1>4, <2>1, <2>3, RestoreOK, AdvanceOK
  <2>5. ASSUME NEW h \in DOMAIN yama'.tabla_nodos, Healthy(yama'.tabla_nodos, R, h)
        PROVE  depth' + CallsLeft(yama', R, h) <= StackDepth
    <3>1. h \in DOMAIN t /\ Healthy(t, R, h)
      BY <2>4, <2>5 DEF Healthy, SameNodes, SameErrors
    <3>2. depth + CallsLeft(yama, R, h) <= StackDepth
      BY <2>1, <3>1 DEF WithinStack
    <3>3. CallsLeft(yama', R, h) < CallsLeft(yama, R, h)
      <4>1. CASE RestoreNode
        BY <1>1, <2>1, <2>2, <2>3, <3>1, <4>1, RestoreFewer
      <4>2. CASE LookFurther
        BY <1>1, <2>1, <2>3, <3>1, <4>2, AdvanceFewer
      <4> QED
        BY <1>4, <4>1, <4>2
    <3>4. CallsLeft(yama', R, h) \in Nat /\ CallsLeft(yama, R, h) \in Nat
      BY <2>1, <2>4, <3>1, CallsBounded
    <3> QED
      BY <1>1, <2>1, <3>2, <3>3, <3>4
  <2> QED
    BY <2>1, <2>2, <2>5 DEF WithinStack
<1>5. CASE StackOverflow
  <2>1. /\ pc = "evaluate" /\ depth = StackDepth /\ pc' = "overflow" /\ UNCHANGED <<yama, blocks>>
    BY <1>5 DEF StackOverflow
  <2>2. ASSUME NEW h \in DOMAIN yama.tabla_nodos, Healthy(yama.tabla_nodos, Replicas, h) PROVE FALSE
    <3>1. depth + CallsLeft(yama, Replicas, h) <= StackDepth
      BY <2>1, <2>2 DEF WithinStack
    <3>2. CallsLeft(yama, Replicas, h) \in Nat /\ CallsLeft(yama, Replicas, h) >= 1
      BY <1>2, <2>1, <2>2, CallsBounded
    <3> QED
      BY <1>1, <2>1, <3>1, <3>2
  <2>3. Replicas' = Replicas
    BY <2>1 DEF Replicas
  <2> QED
    BY <1>2, <2>1, <2>2, <2>3 DEF WithinStack
<1>6. ASSUME pc' \notin {"evaluate", "overflow"} PROVE WithinStack'
  BY <1>6 DEF WithinStack
<1>7. CASE SelectNode
  BY <1>6, <1>7 DEF SelectNode
<1>8. ASSUME NEW f \in Files, NEW alg \in Algorithms, NEW base \in AvailBases,
             JobStarts(f, alg, base)
      PROVE  WithinStack'
  BY <1>6, <1>8 DEF JobStarts
<1>9. CASE LookUpNodes
  BY <1>6, <1>9 DEF LookUpNodes
<1>10. CASE ComputeAvailability
  BY <1>6, <1>10 DEF ComputeAvailability
<1>11. ASSUME NEW n \in Node, NEW f \in Files, NEW base \in AvailBases,
              NodeFails(n, f, base)
       PROVE  WithinStack'
  BY <1>6, <1>11 DEF NodeFails, Idle
<1>12. ASSUME NEW n \in Node, ReductionCharged(n) \/ TaskEnds(n) PROVE WithinStack'
  BY <1>6, <1>12 DEF ReductionCharged, TaskEnds, Idle
<1>13. CASE ErrorsForgotten
  BY <1>6, <1>13 DEF ErrorsForgotten, Idle
<1>14. CASE UNCHANGED vars
  BY <1>14 DEF vars, WithinStack, Replicas
<1> QED
  BY <1>3, <1>4, <1>5, <1>7, <1>8, <1>9, <1>10, <1>11, <1>12, <1>13, <1>14 DEF Next

(* When the stack is used up, both nodes of the block have an error.       *)
LEMMA NobodyHealthy ==
    ASSUME IInv, Joined, WithinStack
    PROVE  OverflowOnlyWhenNoReplicaIsHealthy
<1> SUFFICES ASSUME pc = "overflow", NEW n \in Replicas PROVE At(n).errors > 0
  BY DEF OverflowOnlyWhenNoReplicaIsHealthy
<1> DEFINE t == yama.tabla_nodos
<1>1. Table_OK(t) /\ blocks \in Seq(Node \X Node) /\ blocks # <<>>
  BY DEF IInv, TypeOK, PlanState, Table_OK, ClockInTable, NoNodeTwice, WithinStack
<1>2. 1 \in DOMAIN blocks /\ blocks[1] = Head(blocks)
  BY <1>1
<1>3. BothKnown(t, Head(blocks))
  BY <1>2 DEF Joined
<1>4. PICK i \in DOMAIN t : t[i].node_id = n
  BY <1>3 DEF Replicas, BothKnown, Known
<1>5. At(n) = t[i]
  BY <1>1, <1>4, FindNodeFindsRow DEF At
<1>6. t[i].errors # 0
  BY <1>4 DEF WithinStack, Healthy
<1>7. t[i].errors \in Nat
  BY <1>1, RowFields DEF Table_OK
<1> QED
  BY <1>5, <1>6, <1>7

(* The recursion of evaluateClock ends with a selection as long as a       *)
(* replica of the block is healthy: 3 calls for each node and 4 more are   *)
(* enough, however far the availabilities have gone below 0.               *)
THEOREM OverflowIsOfErrors ==
    ASSUME EnoughStack
    PROVE  Spec => []OverflowOnlyWhenNoReplicaIsHealthy
<1>1. Init => Joined /\ WithinStack
  BY DEF Init, Joined, WithinStack
<1>2. IInv /\ IInv' /\ Joined /\ WithinStack /\ [Next]_vars => Joined' /\ WithinStack'
  BY NextJoined, NextWithinStack
<1>3. IInv /\ Joined /\ WithinStack => OverflowOnlyWhenNoReplicaIsHealthy
  BY NobodyHealthy
<1> QED
  BY <1>1, <1>2, <1>3, InitIInv, NextIInv, PTL DEF Spec

(* doPlanning finds a node for every block that has a healthy one: the     *)
(* depth at which it is cut is no limit.                                   *)
THEOREM PlanningFinds ==
    ASSUME NEW t, Table_OK(t), NEW x, NEW y, NEW base \in Nat \ {0},
           NEW h \in DOMAIN t, Healthy(t, {x, y}, h),
           NEW calls \in Nat, 3 * Len(t) + 4 <= calls
    PROVE  DoPlanning(t, {x, y}, base, calls).found # {}
<1> DEFINE R == {x, y}
<1>1. t # <<>> /\ base \in Int
  BY EmptySeq DEF Table_OK
<1>2. PICK f : Calls(f, t, R, base, calls)
  BY <1>1, DoPlanningByCalls
<1>3. /\ f[0] = StartPlanning(t) /\ DoPlanning(t, R, base, calls) = f[calls]
      /\ \A k \in 0 .. calls : Planning(t, R, f[k])
      /\ \A k \in 1 .. calls : f[k] = IF f[k - 1].found # {} THEN f[k - 1]
                                      ELSE EvaluateClock(f[k - 1], R, base)
  BY <1>2 DEF Calls
<1>4. ASSUME NEW k \in 0 .. calls, f[k].found = {}
      PROVE  /\ PlanningOK(f[k]) /\ h \in DOMAIN f[k].tabla_nodos
             /\ Healthy(f[k].tabla_nodos, R, h)
             /\ CallsLeft(f[k], R, h) \in Nat /\ CallsLeft(f[k], R, h) >= 1
  <2>1. /\ PlanningOK(f[k]) /\ SameNodes(t, f[k].tabla_nodos) /\ SameErrors(t, f[k].tabla_nodos)
    BY <1>3, <1>4 DEF Planning
  <2>2. h \in DOMAIN f[k].tabla_nodos /\ Healthy(f[k].tabla_nodos, R, h)
    BY <2>1 DEF SameNodes, SameErrors, Healthy
  <2> QED
    BY <2>1, <2>2, CallsBounded
<1> DEFINE S == {k \in 0 .. calls : f[k].found # {} \/ k + CallsLeft(f[k], R, h) <= calls}
<1>5. 0 \in S
  <2>1. PlanningOK(f[0]) /\ f[0].tabla_nodos = t
    BY <1>1, <1>3, StartOK
  <2>2. CallsLeft(f[0], R, h) \in Nat /\ CallsLeft(f[0], R, h) <= 3 * Len(t) + 4
    BY <2>1, CallsBounded
  <2>3. Len(t) \in Nat
    BY DEF Table_OK
  <2> QED
    BY <2>2, <2>3
<1>6. ASSUME NEW k \in 0 .. calls - 1, k \in S PROVE k + 1 \in S
  <2>1. k + 1 \in 1 .. calls /\ (k + 1) - 1 = k /\ k \in 0 .. calls /\ k + 1 \in 0 .. calls
    OBVIOUS
  <2>2. CASE f[k].found # {}
    <3>1. f[k + 1] = f[k]
      BY <1>3, <2>1, <2>2
    <3> QED
      BY <2>1, <2>2, <3>1
  <2>3. CASE f[k].found = {} /\ f[k + 1].found = {}
    <3>1. f[k + 1] = EvaluateClock(f[k], R, base)
      BY <1>3, <2>1, <2>3
    <3>2. /\ PlanningOK(f[k]) /\ h \in DOMAIN f[k].tabla_nodos
          /\ Healthy(f[k].tabla_nodos, R, h) /\ CallsLeft(f[k], R, h) \in Nat
          /\ CallsLeft(f[k + 1], R, h) \in Nat
      BY <1>4, <2>1, <2>3
    <3>3. ~(Suitable(f[k], R) /\ Available(f[k]))
      <4>1. ASSUME Suitable(f[k], R), Available(f[k]) PROVE FALSE
        <5>1. f[k + 1] = UpdateNodeInTable(f[k])
          BY <3>1, <4>1 DEF EvaluateClock
        <5>2. f[k + 1].found = {f[k].tabla_nodos[f[k].at].node_id}
          BY <3>2, <5>1, SelectOK
        <5> QED
          BY <2>3, <5>2
      <4> QED
        BY <4>1
    <3>4. CallsLeft(f[k + 1], R, h) < CallsLeft(f[k], R, h)
      <4>1. CASE Suitable(f[k], R)
        <5>1. f[k + 1] = RestoreAvailability(f[k], base)
          BY <3>1, <3>3, <4>1 DEF EvaluateClock
        <5> QED
          BY <3>2, <3>3, <4>1, <5>1, RestoreFewer
      <4>2. CASE ~Suitable(f[k], R)
        <5>1. f[k + 1] = AdvanceClockAux(f[k], base)
          BY <3>1, <4>2 DEF EvaluateClock
        <5> QED
          BY <3>2, <4>2, <5>1, AdvanceFewer
      <4> QED
        BY <4>1, <4>2
    <3>5. k + CallsLeft(f[k], R, h) <= calls
      BY <1>6, <2>3
    <3>6. (k + 1) + CallsLeft(f[k + 1], R, h) <= calls
      <4> DEFINE c == CallsLeft(f[k], R, h)
                 d == CallsLeft(f[k + 1], R, h)
      <4>1. c \in Nat /\ d \in Nat /\ d < c /\ k + c <= calls
        BY <3>2, <3>4, <3>5
      <4> HIDE DEF c, d
      <4>2. (k + 1) + d <= calls
        BY <4>1
      <4> QED
        BY <4>2 DEF d
    <3> QED
      BY <2>1, <3>6
  <2>4. CASE f[k + 1].found # {}
    BY <2>1, <2>4
  <2> QED
    BY <2>2, <2>3, <2>4
<1>7. calls \in S
  <2>1. \A k \in 0 .. calls : k \in S
    <3> HIDE DEF S
    <3> QED
      BY <1>5, <1>6, Hasta
  <2>2. calls \in 0 .. calls
    OBVIOUS
  <2> HIDE DEF S
  <2> QED
    BY <2>1, <2>2
<1>8. f[calls].found # {}
  <2>1. ASSUME f[calls].found = {} PROVE FALSE
    <3>1. calls + CallsLeft(f[calls], R, h) <= calls
      BY <1>7, <2>1
    <3>2. calls \in 0 .. calls
      OBVIOUS
    <3>3. CallsLeft(f[calls], R, h) \in Nat /\ CallsLeft(f[calls], R, h) >= 1
      BY <1>4, <2>1, <3>2
    <3> QED
      BY <3>1, <3>3
  <2> QED
    BY <2>1
<1> QED
  BY <1>3, <1>8

-----------------------------------------------------------------------------
(* The balance of WRR.                                                     *)

(* The word is wide enough for the tasks, a base is positive, and the two  *)
(* replicas of a block are on two nodes.                                   *)
Balanceable ==
    /\ AvailBases \subseteq Nat \ {0}
    /\ \A base \in AvailBases : 2 * (base + MaxTasks) < WordSize
    /\ \A f \in Files : \A k \in DOMAIN f : f[k][1] # f[k][2]

(* LoadsAreTrue, row by row.                                               *)
RowsTrue(t, pend) ==
    \A i \in DOMAIN t : t[i].errors = 0 /\ t[i].tasks_in_progress = pend[t[i].node_id]

(* A row of the table that is charged.                                     *)
LEMMA ChargedRow ==
    ASSUME NEW row \in NodeRow
    PROVE  /\ Charged(row).availability = row.availability - 1
           /\ Charged(row).tasks_in_progress = (row.tasks_in_progress + 1) % WordSize
BY DEF Charged, NodeRow

(* A charge changes the row of its node, and no other.                     *)
LEMMA ChargeOne ==
    ASSUME NEW t, Table_OK(t), NEW i \in DOMAIN t
    PROVE  LET g == IncreaseNodeCharge(t, t[i].node_id)
           IN  /\ DOMAIN g = DOMAIN t /\ g[i] = Charged(t[i])
               /\ \A j \in DOMAIN t : j # i => g[j] = t[j]
BY FindNodeFindsRow DEF IncreaseNodeCharge

(* A selection charges the node it selects.                                *)
LEMMA SelectEs ==
    ASSUME NEW p, PlanningOK(p)
    PROVE  UpdateNodeInTable(p).tabla_nodos
             = IncreaseNodeCharge(p.tabla_nodos, p.tabla_nodos[p.at].node_id)
BY DEF UpdateNodeInTable, PlanningOK, PlanState

(* Words that are small enough are what they are.                          *)
LEMMA SmallWord ==
    ASSUME NEW x \in Nat, 2 * x < WordSize
    PROVE  x % WordSize = x /\ AsInt(x % WordSize) = x
<1>1. WordSize \in Nat /\ WordSize > 1 /\ x < WordSize
  BY WordAssumption
<1>2. x % WordSize = x
  BY <1>1
<1> QED
  BY <1>1, <1>2 DEF AsInt

(* Counting one more in a word wraps to 0, if at all.                      *)
LEMMA OneMore ==
    ASSUME NEW x \in 0 .. WordSize - 1
    PROVE  (x + 1) % WordSize \in {x + 1, 0}
<1>1. WordSize \in Nat /\ WordSize > 1
  BY WordAssumption
<1>2. CASE x + 1 = WordSize
  BY <1>1, <1>2
<1>3. CASE x + 1 < WordSize
  BY <1>1, <1>3
<1> QED
  BY <1>1, <1>2, <1>3

(* LoadsAreTrue is what RowsTrue says, since no node is in two rows.       *)
LEMMA LoadsByRow ==
    ASSUME IInv
    PROVE  LoadsAreTrue <=> RowsTrue(yama.tabla_nodos, pending)
<1> DEFINE t == yama.tabla_nodos
<1>1. Table_OK(t)
  BY DEF IInv, TypeOK, PlanState, Table_OK, ClockInTable, NoNodeTwice
<1>2. \A i \in DOMAIN t : At(t[i].node_id) = t[i]
  BY <1>1, FindNodeFindsRow DEF At
<1> QED
  BY <1>2 DEF LoadsAreTrue, RowsTrue, TableNodes

(* What is pending was charged to a node of the table, and MaxTasks bounds *)
(* it; the blocks to plan are of files.                                    *)
Owed ==
    /\ \A k \in DOMAIN blocks : blocks[k][1] # blocks[k][2]
    /\ \A n \in Node : pending[n] <= assigned /\ (pending[n] > 0 => Known(yama.tabla_nodos, n))
    /\ assigned + Len(blocks) <= MaxTasks

(* While the blocks of a WRR job are planned on the only two nodes there   *)
(* are, load and availability of both have the same sum, or both have been *)
(* spent and are getting the base back.                                    *)
Sums(t) == \E s \in Int : \A i \in DOMAIN t : /\ t[i].availability >= 0
                                              /\ t[i].availability + t[i].tasks_in_progress = s
Refilled(t, at, base) ==
    /\ \A i, j \in DOMAIN t : t[i].tasks_in_progress = t[j].tasks_in_progress
    /\ \A i \in DOMAIN t : i # at => t[i].availability = base
    /\ t[at].availability \in {0, base}

Level ==
    /\ blocks # <<>> /\ pc \in {"idle", "evaluate"} /\ params.algoritm = "WRR"
    /\ RowsTrue(yama.tabla_nodos, pending) /\ TableNodes \subseteq Replicas
    => \/ /\ Sums(yama.tabla_nodos)
          /\ pc = "evaluate" =>
                /\ yama.at = yama.clock
                /\ \A i \in DOMAIN yama.tabla_nodos :
                      yama.tabla_nodos[i].availability
                        <= yama.tabla_nodos[yama.at].availability
       \/ pc = "evaluate" /\ Refilled(yama.tabla_nodos, yama.at, params.availBase)

-----------------------------------------------------------------------------
(* Owed.                                                                   *)

(* A step that plans charges nothing, but for the selection.               *)
LEMMA OwedStep ==
    ASSUME IInv, Owed, pending' = pending, assigned' = assigned, blocks' = blocks,
           \A n \in Node : Known(yama.tabla_nodos, n) => Known(yama'.tabla_nodos, n)
    PROVE  Owed'
BY DEF Owed

(* A table with the same nodes knows the same nodes.                       *)
LEMMA SameNodesKnown ==
    ASSUME NEW t, NEW g, SameNodes(t, g)
    PROVE  \A n : Known(t, n) <=> Known(g, n)
BY DEF SameNodes, Known

(* One task more of a known node.                                          *)
LEMMA OwedOneMore ==
    ASSUME IInv, Owed, NEW n \in Node, Known(yama'.tabla_nodos, n),
           \A m \in Node : Known(yama.tabla_nodos, m) => Known(yama'.tabla_nodos, m),
           \A m \in Node : pending'[m] = IF m = n THEN pending[m] + 1 ELSE pending[m],
           assigned' = assigned + 1, assigned' + Len(blocks') <= MaxTasks,
           \A k \in DOMAIN blocks' : blocks'[k][1] # blocks'[k][2]
    PROVE  Owed'
<1>1. /\ assigned \in Nat /\ \A m \in Node : pending[m] \in Nat
      /\ \A m \in Node : pending[m] <= assigned
      /\ \A m \in Node : pending[m] > 0 => Known(yama.tabla_nodos, m)
  BY DEF IInv, TypeOK, Owed
<1>2. ASSUME NEW m \in Node
      PROVE  pending'[m] <= assigned' /\ (pending'[m] > 0 => Known(yama'.tabla_nodos, m))
  BY <1>1
<1> QED
  BY <1>2 DEF Owed

(* Every step preserves Owed.                                              *)
LEMMA NextOwed ==
    ASSUME Balanceable, IInv, Owed, [Next]_vars
    PROVE  Owed'
<1>1. /\ Table_OK(yama.tabla_nodos) /\ nuevos \in Seq(Node \X Node)
      /\ blocks \in Seq(Node \X Node) /\ params.availBase \in Int
      /\ params.algoritm \in Algorithm /\ assigned \in Nat /\ MaxTasks \in Nat
      /\ yama \in PlanState /\ params \in Params /\ pending \in [Node -> Nat]
  BY PlannerAssumption
     DEF IInv, TypeOK, Table_OK, PlanState, Params, ClockInTable, NoNodeTwice
<1>2. pc = "evaluate" => PlanningOK(yama) /\ blocks # <<>>
  BY <1>1 DEF IInv, ClockInTable, PlanningOK
<1>3. CASE DoPlanningOfBlock
  <2>1. yama'.tabla_nodos = yama.tabla_nodos
    BY <1>1, <1>3, StartOK DEF DoPlanningOfBlock, IInv
  <2>2. pending' = pending /\ assigned' = assigned /\ blocks' = blocks
    BY <1>3 DEF DoPlanningOfBlock
  <2> QED
    BY <2>1, <2>2, OwedStep
<1>4. CASE SelectNode
  <2> DEFINE n == yama.tabla_nodos[yama.at].node_id
  <2>1. PlanningOK(yama) /\ blocks # <<>>
    BY <1>2, <1>4 DEF SelectNode, EvaluateCall
  <2>2. n \in Node /\ Known(yama.tabla_nodos, n)
    <3>1. yama.at \in DOMAIN yama.tabla_nodos
      BY <2>1 DEF PlanningOK
    <3>2. yama.tabla_nodos[yama.at] \in NodeRow
      BY <1>1, <3>1 DEF Table_OK
    <3> QED
      BY <3>1, <3>2, RowFields DEF Known
  <2>3. SameNodes(yama.tabla_nodos, yama'.tabla_nodos) /\ yama'.found = {n}
    BY <1>4, <2>1, SelectOK DEF SelectNode
  <2>4. \A m : Known(yama.tabla_nodos, m) <=> Known(yama'.tabla_nodos, m)
    BY <2>3, SameNodesKnown
  <2>5. \A m \in Node : pending'[m] = IF m = n THEN pending[m] + 1 ELSE pending[m]
    BY <1>4, <2>3 DEF SelectNode
  <2>6. blocks' = Tail(blocks) /\ assigned' = assigned + 1
    BY <1>4 DEF SelectNode
  <2>7. /\ Len(blocks') = Len(blocks) - 1 /\ Len(blocks) \in Nat
        /\ \A k \in DOMAIN blocks' : k + 1 \in DOMAIN blocks /\ blocks'[k] = blocks[k + 1]
    BY <1>1, <2>1, <2>6
  <2>8. assigned' + Len(blocks') <= MaxTasks
    <3>1. assigned + Len(blocks) <= MaxTasks /\ assigned \in Nat /\ MaxTasks \in Nat
      BY <1>1 DEF Owed
    <3>2. assigned' = assigned + 1 /\ Len(blocks') = Len(blocks) - 1 /\ Len(blocks) \in Nat
      BY <2>6, <2>7
    <3> QED
      BY <3>1, <3>2
  <2>9. \A k \in DOMAIN blocks' : blocks'[k][1] # blocks'[k][2]
    BY <2>7 DEF Owed
  <2> HIDE DEF n
  <2> QED
    BY <2>2, <2>4, <2>5, <2>6, <2>8, <2>9, OwedOneMore
<1>5. ASSUME RestoreNode \/ LookFurther PROVE Owed'
  <2>1. SameNodes(yama.tabla_nodos, yama'.tabla_nodos)
    BY <1>1, <1>2, <1>5, RestoreOK, AdvanceOK DEF RestoreNode, LookFurther, EvaluateCall
  <2>2. pending' = pending /\ assigned' = assigned /\ blocks' = blocks
    BY <1>5 DEF RestoreNode, LookFurther
  <2>3. \A m : Known(yama.tabla_nodos, m) <=> Known(yama'.tabla_nodos, m)
    BY <2>1, SameNodesKnown
  <2> QED
    BY <2>2, <2>3, OwedStep
<1>6. CASE StackOverflow
  BY <1>6 DEF StackOverflow, Owed
<1>7. ASSUME NEW f \in Files, NEW alg \in Algorithms, NEW base \in AvailBases,
             JobStarts(f, alg, base)
      PROVE  Owed'
  <2>1. /\ blocks' = f /\ assigned' = assigned /\ pending' = pending /\ yama' = yama
        /\ assigned + Len(f) <= MaxTasks
    BY <1>7 DEF JobStarts
  <2>2. \A k \in DOMAIN f : f[k][1] # f[k][2]
    BY DEF Balanceable
  <2> QED
    BY <2>1, <2>2 DEF Owed
<1>8. CASE LookUpNodes
  <2> DEFINE n == Head(nuevos)[1]
             m == Head(nuevos)[2]
             base == params.availBase
             t == AddToNodeList(yama.tabla_nodos, n, base)
             g == AddToNodeList(t, m, base)
  <2>1. n \in Node /\ m \in Node
    <3>1. Head(nuevos) \in Node \X Node
      BY <1>1, <1>8 DEF LookUpNodes
    <3> QED
      BY <3>1
  <2>2. Table_OK(t) /\ Table_OK(g)
    BY <1>1, <2>1, JoinKeepsTable
  <2>3. yama'.tabla_nodos = g
    <3>1. yama' = [yama EXCEPT !.tabla_nodos = g]
      BY <1>8, Zenon DEF LookUpNodes, Table
    <3> HIDE DEF g
    <3> QED
      BY <1>1, <3>1 DEF PlanState
  <2>4. \A x : Known(yama.tabla_nodos, x) => Known(t, x)
    BY <1>1, <2>1, JoinIsKnown
  <2>5. \A x : Known(t, x) => Known(g, x)
    BY <1>1, <2>1, <2>2, JoinIsKnown
  <2>6. pending' = pending /\ assigned' = assigned /\ blocks' = blocks
    BY <1>8 DEF LookUpNodes
  <2> HIDE DEF t, g
  <2>7. \A x \in Node : Known(yama.tabla_nodos, x) => Known(yama'.tabla_nodos, x)
    BY <2>3, <2>4, <2>5
  <2> QED
    BY <2>6, <2>7, OwedStep
<1>9. CASE ComputeAvailability
  <2> DEFINE g == UpdateAvailability(yama.tabla_nodos, params.algoritm, params.availBase)
  <2>1. SameNodes(yama.tabla_nodos, g)
    BY <1>1, AvailabilityKeepsTable
  <2>2. yama'.tabla_nodos = g
    <3>1. yama' = [yama EXCEPT !.tabla_nodos = g]
      BY <1>9, Zenon DEF ComputeAvailability, Table
    <3> HIDE DEF g
    <3> QED
      BY <1>1, <3>1 DEF PlanState
  <2> HIDE DEF g
  <2>3. \A m : Known(yama.tabla_nodos, m) <=> Known(yama'.tabla_nodos, m)
    BY <2>1, <2>2, SameNodesKnown
  <2>4. pending' = pending /\ assigned' = assigned /\ blocks' = blocks
    BY <1>9 DEF ComputeAvailability
  <2> QED
    BY <2>3, <2>4, OwedStep
<1>10. ASSUME NEW n \in Node, NEW f \in Files, NEW base \in AvailBases,
              NodeFails(n, f, base)
       PROVE  Owed'
  <2> DEFINE g == IncreaseNodeError(yama.tabla_nodos, n)
  <2>1. SameNodes(yama.tabla_nodos, g)
    BY <1>1, HandlersKeepTable
  <2>2. yama'.tabla_nodos = g
    <3>1. yama' = [yama EXCEPT !.tabla_nodos = g]
      BY <1>10, Zenon DEF NodeFails, Table
    <3> HIDE DEF g
    <3> QED
      BY <1>1, <3>1 DEF PlanState
  <2> HIDE DEF g
  <2>3. \A m : Known(yama.tabla_nodos, m) <=> Known(yama'.tabla_nodos, m)
    BY <2>1, <2>2, SameNodesKnown
  <2>4. PICK k \in 1 .. pending[n] : pending' = [pending EXCEPT ![n] = @ - k]
    BY <1>10 DEF NodeFails
  <2>5. blocks' = f /\ assigned' = assigned /\ assigned + Len(f) <= MaxTasks
    BY <1>10 DEF NodeFails
  <2>6. \A k1 \in DOMAIN f : f[k1][1] # f[k1][2]
    BY DEF Balanceable
  <2>7. ASSUME NEW m \in Node
        PROVE  pending'[m] <= assigned' /\ (pending'[m] > 0 => Known(yama'.tabla_nodos, m))
    <3>1. /\ pending[m] \in Nat /\ pending[m] <= assigned
          /\ (pending[m] > 0 => Known(yama.tabla_nodos, m))
      BY <1>1 DEF Owed
    <3>2. pending'[m] \in {pending[m], pending[m] - k}
      BY <1>1, <2>4
    <3> QED
      BY <1>1, <2>3, <2>5, <3>1, <3>2
  <2> QED
    BY <2>5, <2>6, <2>7 DEF Owed
<1>11. ASSUME NEW n \in Node, ReductionCharged(n) PROVE Owed'
  <2> DEFINE g == IncreaseNodeCharge(yama.tabla_nodos, n)
  <2>1. SameNodes(yama.tabla_nodos, g)
    BY <1>1, HandlersKeepTable
  <2>2. yama'.tabla_nodos = g
    <3>1. yama' = [yama EXCEPT !.tabla_nodos = g]
      BY <1>11, Zenon DEF ReductionCharged, Table
    <3> HIDE DEF g
    <3> QED
      BY <1>1, <3>1 DEF PlanState
  <2> HIDE DEF g
  <2>3. \A m : Known(yama.tabla_nodos, m) <=> Known(yama'.tabla_nodos, m)
    BY <2>1, <2>2, SameNodesKnown
  <2>4. \A m \in Node : pending'[m] = IF m = n THEN pending[m] + 1 ELSE pending[m]
    BY <1>1, <1>11 DEF ReductionCharged
  <2>5. /\ blocks' = <<>> /\ assigned' = assigned + 1 /\ assigned < MaxTasks
        /\ Known(yama.tabla_nodos, n)
    BY <1>11 DEF ReductionCharged, Idle
  <2>6. assigned' + Len(blocks') <= MaxTasks /\ \A k \in DOMAIN blocks' : blocks'[k][1] # blocks'[k][2]
    BY <1>1, <2>5
  <2> QED
    BY <2>3, <2>4, <2>5, <2>6, OwedOneMore
<1>12. ASSUME NEW n \in Node, TaskEnds(n) PROVE Owed'
  <2> DEFINE g == DecreaseNodeCharge(yama.tabla_nodos, n)
  <2>1. SameNodes(yama.tabla_nodos, g)
    BY <1>1, HandlersKeepTable
  <2>2. yama'.tabla_nodos = g
    <3>1. yama' = [yama EXCEPT !.tabla_nodos = g]
      BY <1>12, Zenon DEF TaskEnds, Table
    <3> HIDE DEF g
    <3> QED
      BY <1>1, <3>1 DEF PlanState
  <2> HIDE DEF g
  <2>3. \A m : Known(yama.tabla_nodos, m) <=> Known(yama'.tabla_nodos, m)
    BY <2>1, <2>2, SameNodesKnown
  <2>4. ASSUME NEW m \in Node
        PROVE  pending'[m] <= assigned' /\ (pending'[m] > 0 => Known(yama'.tabla_nodos, m))
    <3>1. /\ pending[m] \in Nat /\ pending[m] <= assigned
          /\ (pending[m] > 0 => Known(yama.tabla_nodos, m))
      BY <1>1 DEF Owed
    <3>2. pending'[m] \in {pending[m], pending[m] - 1} /\ assigned' = assigned
      BY <1>1, <1>12 DEF TaskEnds
    <3> QED
      BY <1>1, <2>3, <3>1, <3>2
  <2> QED
    BY <1>12, <2>4 DEF Owed, TaskEnds
<1>13. CASE ErrorsForgotten
  <2> DEFINE g == DeleteNodeErrors(yama.tabla_nodos)
  <2>1. ASSUME NEW m \in Node PROVE Known(yama.tabla_nodos, m) => Known(g, m)
    <3>1. SameNodes(yama.tabla_nodos, g)
      BY <1>1, HandlersKeepTable
    <3> HIDE DEF g
    <3> QED
      BY <3>1, SameNodesKnown
  <2>2. yama'.tabla_nodos = g
    <3>1. yama' = [yama EXCEPT !.tabla_nodos = g]
      BY <1>13, Zenon DEF ErrorsForgotten, Table
    <3> HIDE DEF g
    <3> QED
      BY <1>1, <3>1 DEF PlanState
  <2> HIDE DEF g
  <2>3. pending' = pending /\ assigned' = assigned /\ blocks' = blocks
    BY <1>13 DEF ErrorsForgotten
  <2> QED
    BY <2>1, <2>2, <2>3, OwedStep
<1>14. CASE UNCHANGED vars
  BY <1>14 DEF vars, Owed
<1> QED
  BY <1>3, <1>4, <1>5, <1>6, <1>7, <1>8, <1>9, <1>10, <1>11, <1>12, <1>13, <1>14 DEF Next

-----------------------------------------------------------------------------
(* Level.                                                                  *)

(* What availability a WRR job starts with.                                *)
LEMMA StartsLevel ==
    ASSUME NEW t, Table_OK(t), t # <<>>, NEW base \in Nat \ {0}, NEW top \in Nat,
           2 * (base + top) < WordSize, \A i \in DOMAIN t : t[i].tasks_in_progress <= top
    PROVE  Sums(UpdateAvailability(t, "WRR", base))
<1> DEFINE g == UpdateAvailability(t, "WRR", base)
           w == GetMaxWorkload(t)
<1>1. /\ t \in Seq(NodeRow) /\ \A i \in DOMAIN t : t[i] \in NodeRow
      /\ \A i \in DOMAIN t : t[i].tasks_in_progress \in Nat
  <2>1. t \in Seq(NodeRow) /\ \A i \in DOMAIN t : t[i] \in NodeRow
    BY DEF Table_OK
  <2> QED
    BY <2>1, WordAssumption, RowFields
<1>2. /\ w \in Nat /\ \A i \in DOMAIN t : t[i].tasks_in_progress <= w
      /\ \E i \in DOMAIN t : t[i].tasks_in_progress = w
  BY <1>1, MaxWorkloadType
<1>3. w <= top
  BY <1>2
<1>4. ASSUME NEW i \in DOMAIN t
      PROVE  HClockAvail(t, t[i], base) = base + (w - t[i].tasks_in_progress)
  <2> DEFINE x == base + (w - t[i].tasks_in_progress)
  <2>1. t[i].tasks_in_progress \in Nat /\ t[i].tasks_in_progress <= w
    BY <1>1, <1>2
  <2> HIDE DEF w
  <2>2. x \in Nat /\ 2 * x < WordSize
    BY <1>2, <1>3, <2>1, WordAssumption
  <2>3. AsInt(x % WordSize) = x
    <3> HIDE DEF x
    <3> QED
      BY <2>2, SmallWord
  <2>4. HClockAvail(t, t[i], base) = AsInt(x % WordSize)
    BY DEF HClockAvail, w
  <2> QED
    BY <2>3, <2>4
<1>5. ASSUME NEW i \in DOMAIN t
      PROVE  /\ g[i].availability = base + (w - t[i].tasks_in_progress)
             /\ g[i].tasks_in_progress = t[i].tasks_in_progress
  <2> DEFINE x == base + (w - t[i].tasks_in_progress)
  <2>1. SetNewAvailability(t, t[i], "WRR", base) = x
    BY <1>4 DEF SetNewAvailability
  <2>2. g[i] = [t[i] EXCEPT !.availability = x]
    <3>1. g[i] = [t[i] EXCEPT !.availability = SetNewAvailability(t, t[i], "WRR", base)]
      BY DEF UpdateAvailability
    <3> HIDE DEF g, x
    <3> QED
      BY <2>1, <3>1
  <2>3. t[i] \in NodeRow
    BY <1>1
  <2> HIDE DEF g, x
  <2>4. g[i].availability = x /\ g[i].tasks_in_progress = t[i].tasks_in_progress
    BY <2>2, <2>3 DEF NodeRow
  <2> QED
    BY <2>4 DEF x
<1>6. DOMAIN g = DOMAIN t
  BY DEF UpdateAvailability
<1> HIDE DEF g, w
<1>7. /\ base + w \in Int
      /\ \A i \in DOMAIN g : /\ g[i].availability >= 0
                             /\ g[i].availability + g[i].tasks_in_progress = base + w
  <2>1. ASSUME NEW i \in DOMAIN g
        PROVE  /\ g[i].availability >= 0
               /\ g[i].availability + g[i].tasks_in_progress = base + w
    <3>1. /\ g[i].availability = base + (w - t[i].tasks_in_progress)
          /\ g[i].tasks_in_progress = t[i].tasks_in_progress
          /\ t[i].tasks_in_progress \in Nat /\ t[i].tasks_in_progress <= w
      BY <1>1, <1>2, <1>5, <1>6
    <3> QED
      BY <1>2, <3>1
  <2> QED
    BY <1>2, <2>1
<1> QED
  BY <1>7 DEF Sums, g

(* Both replicas are in the table, and nothing else is: it has two rows.   *)
LEMMA TwoRows ==
    ASSUME NEW t, Table_OK(t), NEW x, NEW y, x # y, Known(t, x), Known(t, y),
           \A i \in DOMAIN t : t[i].node_id \in {x, y}
    PROVE  /\ DOMAIN t = {1, 2} /\ Len(t) = 2
           /\ {t[1].node_id, t[2].node_id} = {x, y}
           /\ \A c \in DOMAIN t : /\ IncreseClock(t, c) # c
                                  /\ \A i \in DOMAIN t : i # c => i = IncreseClock(t, c)
<1>1. t \in Seq(NodeRow) /\ DOMAIN t = 1 .. Len(t) /\ Len(t) \in Nat
  BY DEF Table_OK
<1>2. PICK i \in DOMAIN t : t[i].node_id = x
  BY DEF Known
<1>3. PICK j \in DOMAIN t : t[j].node_id = y
  BY DEF Known
<1>4. \A k \in DOMAIN t : k = i \/ k = j
  BY <1>2, <1>3 DEF Table_OK, NoNodeTwice
<1>5. Len(t) = 2
  <2>1. i # j
    BY <1>2, <1>3
  <2>2. Len(t) >= 2
    BY <1>1, <2>1
  <2>3. ~(Len(t) >= 3)
    <3>1. ASSUME Len(t) >= 3 PROVE FALSE
      <4>1. 1 \in DOMAIN t /\ 2 \in DOMAIN t /\ 3 \in DOMAIN t
        BY <1>1, <3>1
      <4> QED
        BY <1>4, <4>1
    <3> QED
      BY <3>1
  <2> QED
    BY <1>1, <2>2, <2>3
<1>6. DOMAIN t = {1, 2}
  BY <1>1, <1>5
<1>7. {t[1].node_id, t[2].node_id} = {x, y}
  BY <1>2, <1>3, <1>4, <1>6
<1>8. \A c \in DOMAIN t : /\ IncreseClock(t, c) # c
                         /\ \A k \in DOMAIN t : k # c => k = IncreseClock(t, c)
  BY <1>5, <1>6 DEF IncreseClock
<1> QED
  BY <1>5, <1>6, <1>7, <1>8

(* Computing availabilities changes nothing else.                          *)
LEMMA UpdateKeepsRest ==
    ASSUME NEW t, Table_OK(t), NEW alg, NEW base
    PROVE  LET g == UpdateAvailability(t, alg, base)
           IN  /\ DOMAIN g = DOMAIN t
               /\ \A i \in DOMAIN t : /\ g[i].tasks_in_progress = t[i].tasks_in_progress
                                      /\ g[i].errors = t[i].errors
                                      /\ g[i].node_id = t[i].node_id
<1>1. \A i \in DOMAIN t : t[i] \in NodeRow
  BY DEF Table_OK
<1> QED
  BY <1>1 DEF UpdateAvailability, NodeRow

(* A replica that gets its base back.                                      *)
LEMMA RestoreLevel ==
    ASSUME NEW t, Table_OK(t), NEW at \in DOMAIN t, NEW next \in DOMAIN t,
           NEW base \in Nat \ {0}, t[at].availability <= 0,
           \/ /\ Sums(t) /\ \A i \in DOMAIN t : t[i].availability <= t[at].availability
              /\ next # at /\ \A i \in DOMAIN t : i # at => i = next
           \/ Refilled(t, at, base)
    PROVE  Refilled([t EXCEPT ![at].availability = base], next, base)
<1> DEFINE g == [t EXCEPT ![at].availability = base]
<1>1. t \in Seq(NodeRow) /\ \A i \in DOMAIN t : t[i] \in NodeRow
  BY DEF Table_OK
<1>2. /\ DOMAIN g = DOMAIN t /\ g[at].availability = base
      /\ \A i \in DOMAIN t : i # at => g[i].availability = t[i].availability
      /\ \A i \in DOMAIN t : g[i].tasks_in_progress = t[i].tasks_in_progress
  <2>1. g[at] = [t[at] EXCEPT !.availability = base]
    OBVIOUS
  <2>2. g[at].availability = base /\ g[at].tasks_in_progress = t[at].tasks_in_progress
    <3> HIDE DEF g
    <3> QED
      BY <1>1, <2>1 DEF NodeRow
  <2>3. DOMAIN g = DOMAIN t /\ \A i \in DOMAIN t : i # at => g[i] = t[i]
    OBVIOUS
  <2> HIDE DEF g
  <2> QED
    BY <2>2, <2>3
<1> HIDE DEF g
<1>3. \A i \in DOMAIN t : t[i].availability \in Int /\ t[i].tasks_in_progress \in Int
  BY <1>1, RowFields
<1>4. CASE /\ Sums(t) /\ \A i \in DOMAIN t : t[i].availability <= t[at].availability
           /\ next # at /\ \A i \in DOMAIN t : i # at => i = next
  <2>1. PICK s \in Int : \A i \in DOMAIN t : /\ t[i].availability >= 0
                                             /\ t[i].availability + t[i].tasks_in_progress = s
    BY <1>4 DEF Sums
  <2>2. ASSUME NEW i \in DOMAIN t PROVE t[i].availability = 0 /\ t[i].tasks_in_progress = s
    <3>1. /\ t[i].availability \in Int /\ t[i].tasks_in_progress \in Int
          /\ t[i].availability >= 0 /\ t[i].availability + t[i].tasks_in_progress = s
          /\ t[i].availability <= t[at].availability /\ t[at].availability \in Int
      BY <1>3, <1>4, <2>1
    <3> QED
      BY <3>1
  <2>3. \A i \in DOMAIN g : i # next => g[i].availability = base
    BY <1>2, <1>4
  <2>4. g[next].availability = 0
    BY <1>2, <1>4, <2>2
  <2> QED
    BY <1>2, <2>2, <2>3, <2>4 DEF Refilled, g
<1>5. CASE Refilled(t, at, base)
  <2>1. \A i \in DOMAIN t : g[i].availability = base
    BY <1>2, <1>5 DEF Refilled
  <2> QED
    BY <1>2, <1>5, <2>1 DEF Refilled, g
<1> QED
  BY <1>4, <1>5

(* A selection.                                                            *)
LEMMA SelectLevel ==
    ASSUME NEW t, Table_OK(t), NEW at \in DOMAIN t, NEW base \in Nat \ {0},
           t[at].availability > 0, Sums(t) \/ Refilled(t, at, base),
           (t[at].tasks_in_progress + 1) % WordSize = t[at].tasks_in_progress + 1
    PROVE  Sums(IncreaseNodeCharge(t, t[at].node_id))
<1> DEFINE g == IncreaseNodeCharge(t, t[at].node_id)
<1>1. \A i \in DOMAIN t : t[i] \in NodeRow
  BY DEF Table_OK
<1>2. \A i \in DOMAIN t : t[i].availability \in Int /\ t[i].tasks_in_progress \in Int
  BY <1>1, RowFields
<1>3. Sums(t)
  <2>1. CASE Sums(t)
    BY <2>1
  <2>2. CASE Refilled(t, at, base)
    <3>1. \A i \in DOMAIN t : t[i].availability = base /\ t[i].tasks_in_progress = t[at].tasks_in_progress
      BY <2>2 DEF Refilled
    <3>2. base + t[at].tasks_in_progress \in Int /\ base >= 0
      BY <1>2
    <3> QED
      BY <3>1, <3>2 DEF Sums
  <2> QED
    BY <2>1, <2>2
<1>4. PICK s \in Int : \A i \in DOMAIN t : /\ t[i].availability >= 0
                                           /\ t[i].availability + t[i].tasks_in_progress = s
  BY <1>3 DEF Sums
<1>5. /\ DOMAIN g = DOMAIN t /\ \A i \in DOMAIN t : i # at => g[i] = t[i]
      /\ g[at].availability = t[at].availability - 1
      /\ g[at].tasks_in_progress = t[at].tasks_in_progress + 1
  <2>1. DOMAIN g = DOMAIN t /\ g[at] = Charged(t[at]) /\ \A i \in DOMAIN t : i # at => g[i] = t[i]
    BY ChargeOne
  <2> HIDE DEF g
  <2> QED
    BY <1>1, <2>1, ChargedRow
<1> HIDE DEF g
<1>6. g[at].availability >= 0 /\ g[at].availability + g[at].tasks_in_progress = s
  <2>1. /\ t[at].availability + t[at].tasks_in_progress = s
        /\ t[at].availability \in Int /\ t[at].tasks_in_progress \in Int
    BY <1>2, <1>4
  <2> QED
    BY <1>5, <2>1
<1>7. \A i \in DOMAIN g : /\ g[i].availability >= 0
                         /\ g[i].availability + g[i].tasks_in_progress = s
  BY <1>4, <1>5, <1>6
<1> QED
  BY <1>7 DEF Sums, g

(* What Level says, in two parts: when, and which table then.              *)
Leveling ==
    /\ blocks # <<>> /\ pc \in {"idle", "evaluate"} /\ params.algoritm = "WRR"
    /\ RowsTrue(yama.tabla_nodos, pending) /\ TableNodes \subseteq Replicas
Leveled(p) ==
    \/ /\ Sums(p.tabla_nodos)
       /\ p.at = p.clock
       /\ \A i \in DOMAIN p.tabla_nodos :
             p.tabla_nodos[i].availability <= p.tabla_nodos[p.at].availability
    \/ Refilled(p.tabla_nodos, p.at, params.availBase)

(* Level in the two kinds of states it is about.                           *)
LEMMA LevelEs ==
    /\ Level /\ Leveling /\ pc = "idle" => Sums(yama.tabla_nodos)
    /\ Level /\ Leveling /\ pc = "evaluate" => Leveled(yama)
    /\ ~Leveling => Level
<1>1. ASSUME Level, Leveling, pc = "idle" PROVE Sums(yama.tabla_nodos)
  BY <1>1 DEF Level, Leveling
<1>2. ASSUME Level, Leveling, pc = "evaluate" PROVE Leveled(yama)
  <2>1. CASE Sums(yama.tabla_nodos)
            /\ yama.at = yama.clock
            /\ \A i \in DOMAIN yama.tabla_nodos :
                  yama.tabla_nodos[i].availability <= yama.tabla_nodos[yama.at].availability
    BY <2>1 DEF Leveled
  <2>2. CASE Refilled(yama.tabla_nodos, yama.at, params.availBase)
    BY <2>2 DEF Leveled
  <2> QED
    BY <1>2, <2>1, <2>2 DEF Level, Leveling
<1>3. ASSUME ~Leveling PROVE Level
  BY <1>3 DEF Level, Leveling
<1> QED
  BY <1>1, <1>2, <1>3

(* The two rows of a table that is being levelled.                         *)
LEMMA LevelingTable ==
    ASSUME IInv, Joined, Owed, blocks # <<>>, pc # "nodes", TableNodes \subseteq Replicas
    PROVE  /\ Replicas \subseteq TableNodes
           /\ \A c \in DOMAIN yama.tabla_nodos :
                 /\ IncreseClock(yama.tabla_nodos, c) # c
                 /\ \A i \in DOMAIN yama.tabla_nodos :
                       i # c => i = IncreseClock(yama.tabla_nodos, c)
<1> DEFINE t == yama.tabla_nodos
           x == Head(blocks)[1]
           y == Head(blocks)[2]
<1>1. Table_OK(t) /\ blocks \in Seq(Node \X Node)
  BY DEF IInv, TypeOK, PlanState, Table_OK, ClockInTable, NoNodeTwice
<1>2. 1 \in DOMAIN blocks /\ blocks[1] = Head(blocks)
  BY <1>1
<1>3. Known(t, x) /\ Known(t, y) /\ x # y
  BY <1>2 DEF Joined, BothKnown, Owed
<1>4. Replicas \subseteq TableNodes
  BY <1>3 DEF Known, Replicas, TableNodes
<1>5. \A i \in DOMAIN t : t[i].node_id \in {x, y}
  BY DEF TableNodes, Replicas
<1> HIDE DEF x, y
<1> QED
  BY <1>1, <1>3, <1>4, <1>5, TwoRows

(* Every step preserves Level.                                             *)
LEMMA NextLevel ==
    ASSUME Balanceable, IInv, IInv', Joined, Joined', Owed, Owed', Level, [Next]_vars
    PROVE  Level'
<1>1. /\ Table_OK(yama.tabla_nodos) /\ params.availBase \in Nat \ {0} /\ params.availBase \in Int
      /\ params.algoritm \in Algorithm /\ blocks \in Seq(Node \X Node)
      /\ pending \in [Node -> Nat] /\ yama \in PlanState
  BY DEF IInv, TypeOK, Table_OK, PlanState, ClockInTable, NoNodeTwice, Joined, Balanceable, Params
<1>2. pc = "evaluate" => PlanningOK(yama) /\ blocks # <<>>
  BY <1>1 DEF IInv, TypeOK, ClockInTable, PlanningOK
<1>3. (~Leveling)' => Level'
  BY LevelEs DEF Level, Leveling
<1>4. CASE DoPlanningOfBlock
  <2> DEFINE t == yama.tabla_nodos
  <2>1. /\ pc = "idle" /\ blocks # <<>> /\ pc' = "evaluate" /\ blocks' = blocks
        /\ params' = params /\ pending' = pending /\ yama' = StartPlanning(t)
    BY <1>4 DEF DoPlanningOfBlock
  <2>2. t # <<>> /\ t \in Seq(NodeRow)
    BY <1>1, <2>1 DEF IInv, Table_OK
  <2>3. /\ yama'.tabla_nodos = t /\ yama'.at = GetHigerAvailNode(t) /\ yama'.clock = GetHigerAvailNode(t)
    BY <2>1 DEF StartPlanning
  <2>4. ASSUME Leveling' PROVE Level'
    <3>1. Leveling
      BY <2>1, <2>3, <2>4 DEF Leveling, TableNodes, Replicas
    <3>2. Sums(t)
      BY <2>1, <3>1, LevelEs
    <3>3. GetHigerAvailNode(t) \in DOMAIN t /\ \A j \in DOMAIN t : ~Better(t[j], t[GetHigerAvailNode(t)])
      BY <2>2, HigerAvailNodeInTable
    <3>4. \A j \in DOMAIN t : t[j].availability <= t[GetHigerAvailNode(t)].availability
      <4>1. \A j \in DOMAIN t : t[j].availability \in Int
        BY <2>2, RowFields
      <4> QED
        BY <3>3, <4>1 DEF Better
    <3>5. Leveled(yama')
      BY <2>3, <3>2, <3>4 DEF Leveled
    <3> QED
      BY <2>1, <2>3, <3>2, <3>4 DEF Level
  <2> QED
    BY <1>3, <2>4
<1>5. CASE SelectNode
  <2> DEFINE t == yama.tabla_nodos
             n == t[yama.at].node_id
             g == IncreaseNodeCharge(t, n)
  <2>1. /\ PlanningOK(yama) /\ blocks # <<>> /\ pc = "evaluate"
        /\ yama.at \in DOMAIN t
    BY <1>2, <1>5 DEF SelectNode, EvaluateCall, PlanningOK
  <2>2. /\ t[yama.at].availability > 0 /\ t[yama.at].errors = 0 /\ n \in Replicas
        /\ pc' = "idle" /\ blocks' = Tail(blocks) /\ params' = params
        /\ yama' = UpdateNodeInTable(yama)
    BY <1>5 DEF SelectNode, EvaluateCall, Suitable, Available, BlockExistInClock
  <2>3. yama'.tabla_nodos = g /\ SameNodes(t, yama'.tabla_nodos) /\ yama'.found = {n}
    BY <2>1, <2>2, SelectOK, SelectEs
  <2>4. \A i \in DOMAIN t : t[i] \in NodeRow
    BY <1>1 DEF Table_OK
  <2>5. \A m \in Node : pending'[m] = IF m = n THEN pending[m] + 1 ELSE pending[m]
    BY <1>5, <2>3 DEF SelectNode
  <2>6. /\ DOMAIN g = DOMAIN t /\ g[yama.at] = Charged(t[yama.at])
        /\ \A j \in DOMAIN t : j # yama.at => g[j] = t[j]
    BY <1>1, <2>1, ChargeOne
  <2>7. \A i \in DOMAIN t : g[i].node_id = t[i].node_id
    BY <2>3 DEF SameNodes
  <2>8. \A i \in DOMAIN t : t[i].node_id \in Node /\ (t[i].node_id = n => i = yama.at)
    BY <1>1, <2>1, <2>4, RowFields DEF Table_OK, NoNodeTwice
  <2> HIDE DEF g
  <2>9. ASSUME Leveling' PROVE Level'
    <3>1. RowsTrue(g, pending')
      BY <2>3, <2>9 DEF Leveling
    <3>2. /\ t[yama.at].tasks_in_progress = pending[n]
          /\ (t[yama.at].tasks_in_progress + 1) % WordSize = t[yama.at].tasks_in_progress + 1
      <4> DEFINE k == t[yama.at].tasks_in_progress
      <4>1. k \in 0 .. WordSize - 1 /\ pending[n] \in Nat /\ n \in Node
        BY <1>1, <2>1, <2>4, <2>8, RowFields
      <4>2. g[yama.at].tasks_in_progress = (k + 1) % WordSize
        BY <2>1, <2>4, <2>6, ChargedRow
      <4>3. g[yama.at].tasks_in_progress = pending'[g[yama.at].node_id]
        BY <2>1, <2>6, <3>1 DEF RowsTrue
      <4>4. (k + 1) % WordSize = pending[n] + 1
        BY <2>1, <2>5, <2>7, <4>1, <4>2, <4>3
      <4>5. (k + 1) % WordSize \in {k + 1, 0}
        BY <4>1, OneMore
      <4> HIDE DEF k, n
      <4>6. k \in Int
        BY <4>1, WordAssumption
      <4>7. k = pending[n] /\ (k + 1) % WordSize = k + 1
        BY <4>1, <4>4, <4>5, <4>6
      <4> QED
        BY <4>7 DEF k
    <3>3. RowsTrue(t, pending)
      <4>1. ASSUME NEW i \in DOMAIN t, i # yama.at
            PROVE  t[i].errors = 0 /\ t[i].tasks_in_progress = pending[t[i].node_id]
        <5>1. g[i] = t[i] /\ t[i].node_id \in Node /\ t[i].node_id # n
          BY <2>6, <2>8, <4>1
        <5>2. g[i].errors = 0 /\ g[i].tasks_in_progress = pending'[g[i].node_id]
          BY <2>6, <3>1 DEF RowsTrue
        <5> QED
          BY <2>5, <5>1, <5>2
      <4> QED
        BY <2>2, <3>2, <4>1 DEF RowsTrue
    <3>4. TableNodes \subseteq Replicas
      <4> DEFINE x == Head(blocks)[1]
                 y == Head(blocks)[2]
                 u == Head(Tail(blocks))[1]
                 v == Head(Tail(blocks))[2]
      <4>1. Tail(blocks) # <<>> /\ 1 \in DOMAIN blocks /\ Head(blocks) = blocks[1]
        BY <1>1, <2>1, <2>2, <2>9 DEF Leveling
      <4>2. Known(t, x) /\ Known(t, y) /\ x # y
        BY <2>1, <4>1 DEF Joined, BothKnown, Owed
      <4>3. TableNodes' = TableNodes
        BY <2>3, <2>6, <2>7 DEF TableNodes
      <4>4. Replicas' = {u, v} /\ Replicas = {x, y}
        BY <2>2 DEF Replicas
      <4>5. TableNodes \subseteq {u, v}
        BY <2>9, <4>3, <4>4 DEF Leveling
      <4>6. x \in TableNodes /\ y \in TableNodes
        BY <4>2 DEF Known, TableNodes
      <4> HIDE DEF x, y, u, v
      <4> QED
        BY <4>2, <4>4, <4>5, <4>6
    <3>5. params.algoritm = "WRR"
      BY <2>2, <2>9 DEF Leveling
    <3>6. Leveling
      BY <2>1, <3>3, <3>4, <3>5 DEF Leveling
    <3>7. Sums(t) \/ Refilled(t, yama.at, params.availBase)
      BY <2>1, <3>6, LevelEs DEF Leveled
    <3>8. Sums(g)
      BY <1>1, <2>1, <2>2, <3>2, <3>7, SelectLevel DEF g
    <3> QED
      BY <2>2, <2>3, <3>8 DEF Level
  <2> QED
    BY <1>3, <2>9
<1>6. CASE RestoreNode
  <2> DEFINE t == yama.tabla_nodos
             base == params.availBase
             next == IncreseClock(t, yama.clock)
  <2>1. /\ PlanningOK(yama) /\ blocks # <<>> /\ pc = "evaluate"
        /\ yama.at \in DOMAIN t /\ yama.clock \in DOMAIN t /\ t \in Seq(NodeRow)
    BY <1>1, <1>2, <1>6 DEF RestoreNode, EvaluateCall, PlanningOK, Table_OK
  <2>2. /\ pc' = "evaluate" /\ blocks' = blocks /\ params' = params /\ pending' = pending
        /\ yama' = RestoreAvailability(yama, base)
        /\ ~(t[yama.at].availability > 0)
    BY <1>6, <2>1 DEF RestoreNode, EvaluateCall, Available
  <2>3. /\ yama'.tabla_nodos = [t EXCEPT ![yama.at].availability = base]
        /\ yama'.at = next
        /\ SameNodes(t, yama'.tabla_nodos) /\ SameErrors(t, yama'.tabla_nodos)
    BY <1>1, <2>1, <2>2, RestoreOK, RestoreEs
  <2>4. next \in DOMAIN t
    BY <2>1, IncreseClockInTable
  <2>5. t[yama.at].availability <= 0
    <3>1. t[yama.at].availability \in Int
      BY <2>1, RowFields
    <3> QED
      BY <2>2, <3>1
  <2>6. \A i \in DOMAIN t : yama'.tabla_nodos[i].tasks_in_progress = t[i].tasks_in_progress
    <3> DEFINE g == yama'.tabla_nodos
    <3>1. g[yama.at] = [t[yama.at] EXCEPT !.availability = base]
      BY <2>1, <2>3
    <3>2. \A i \in DOMAIN t : i # yama.at => g[i] = t[i]
      BY <2>1, <2>3
    <3>3. t[yama.at] \in NodeRow
      BY <2>1
    <3> HIDE DEF g
    <3>4. g[yama.at].tasks_in_progress = t[yama.at].tasks_in_progress
      BY <3>1, <3>3 DEF NodeRow
    <3>5. \A i \in DOMAIN t : g[i].tasks_in_progress = t[i].tasks_in_progress
      BY <3>2, <3>4
    <3> QED
      BY <3>5 DEF g
  <2> HIDE DEF next
  <2>7. ASSUME Leveling' PROVE Level'
    <3>1. DOMAIN yama'.tabla_nodos = DOMAIN t /\ TableNodes' = TableNodes
      BY <2>3 DEF SameNodes, TableNodes
    <3>2. RowsTrue(t, pending)
      BY <2>2, <2>3, <2>6, <2>7, <3>1 DEF Leveling, RowsTrue, SameNodes, SameErrors
    <3>3. Leveling
      BY <2>1, <2>2, <2>7, <3>1, <3>2 DEF Leveling, Replicas
    <3>4. Leveled(yama)
      BY <2>1, <3>3, LevelEs
    <3>5. \A c \in DOMAIN t : /\ IncreseClock(t, c) # c
                             /\ \A i \in DOMAIN t : i # c => i = IncreseClock(t, c)
      BY <2>1, <3>3, LevelingTable DEF Leveling
    <3>6. \/ /\ Sums(t) /\ \A i \in DOMAIN t : t[i].availability <= t[yama.at].availability
             /\ next # yama.at /\ \A i \in DOMAIN t : i # yama.at => i = next
          \/ Refilled(t, yama.at, base)
      BY <2>1, <3>4, <3>5 DEF Leveled, next
    <3>7. Refilled([t EXCEPT ![yama.at].availability = base], next, base)
      BY <1>1, <2>1, <2>4, <2>5, <3>6, RestoreLevel
    <3> QED
      BY <2>2, <2>3, <3>7 DEF Level
  <2> QED
    BY <1>3, <2>7
<1>7. CASE LookFurther
  <2> DEFINE t == yama.tabla_nodos
  <2>1. /\ PlanningOK(yama) /\ yama.at \in DOMAIN t
    BY <1>2, <1>7 DEF LookFurther, EvaluateCall, PlanningOK
  <2>2. /\ blocks' = blocks /\ ~Suitable(yama, Replicas)
        /\ yama' = AdvanceClockAux(yama, params.availBase)
    BY <1>7 DEF LookFurther
  <2>3. SameNodes(t, yama'.tabla_nodos) /\ SameErrors(t, yama'.tabla_nodos)
    BY <1>1, <2>1, <2>2, AdvanceOK
  <2>4. ASSUME Leveling' PROVE FALSE
    <3>1. yama'.tabla_nodos[yama.at].errors = 0 /\ yama'.tabla_nodos[yama.at].node_id \in Replicas'
      BY <2>1, <2>3, <2>4 DEF Leveling, RowsTrue, TableNodes, SameNodes
    <3>2. t[yama.at].errors = 0 /\ t[yama.at].node_id \in Replicas
      BY <2>1, <2>2, <2>3, <3>1 DEF SameNodes, SameErrors, Replicas
    <3> QED
      BY <2>2, <3>2 DEF Suitable, BlockExistInClock
  <2> QED
    BY <1>3, <2>4
<1>8. CASE ComputeAvailability
  <2> DEFINE t == yama.tabla_nodos
             g == UpdateAvailability(t, params.algoritm, params.availBase)
  <2>1. yama'.tabla_nodos = g
    <3>1. yama' = [yama EXCEPT !.tabla_nodos = g]
      BY <1>8, Zenon DEF ComputeAvailability, Table
    <3> HIDE DEF g
    <3> QED
      BY <1>1, <3>1 DEF PlanState
  <2>2. /\ DOMAIN g = DOMAIN t
        /\ \A i \in DOMAIN t : /\ g[i].tasks_in_progress = t[i].tasks_in_progress
                               /\ g[i].errors = t[i].errors /\ g[i].node_id = t[i].node_id
    BY <1>1, UpdateKeepsRest
  <2>3. pc' = "idle" /\ pending' = pending /\ params' = params /\ blocks' = blocks /\ assigned' = assigned
    BY <1>8 DEF ComputeAvailability
  <2>4. ASSUME Leveling' PROVE Level'
    <3>1. params.algoritm = "WRR" /\ blocks # <<>>
      BY <2>3, <2>4 DEF Leveling
    <3>2. RowsTrue(t, pending)
      <4> HIDE DEF g
      <4> QED
        BY <2>1, <2>2, <2>3, <2>4 DEF Leveling, RowsTrue
    <3>3. \A i \in DOMAIN t : t[i].tasks_in_progress <= MaxTasks
      <4>1. \A i \in DOMAIN t : t[i].node_id \in Node
        BY <1>1, RowFields DEF Table_OK
      <4>2. assigned + Len(blocks) <= MaxTasks /\ assigned \in Nat /\ Len(blocks) \in Nat /\ MaxTasks \in Nat
        BY <1>1, PlannerAssumption DEF Owed, IInv, TypeOK
      <4>3. \A m \in Node : pending[m] \in Nat /\ pending[m] <= assigned
        BY <1>1 DEF Owed
      <4>4. \A m \in Node : pending[m] <= MaxTasks
        BY <4>2, <4>3
      <4> QED
        BY <3>2, <4>1, <4>4 DEF RowsTrue
    <3>4. t # <<>>
      BY <1>8, <3>1 DEF ComputeAvailability, IInv
    <3>5. 2 * (params.availBase + MaxTasks) < WordSize /\ MaxTasks \in Nat
      BY PlannerAssumption DEF Balanceable, Joined
    <3>6. Sums(UpdateAvailability(t, "WRR", params.availBase))
      <4> HIDE DEF t
      <4> QED
        BY <1>1, <3>3, <3>4, <3>5, StartsLevel DEF t
    <3>7. Sums(g)
      BY <3>1, <3>6
    <3> QED
      BY <2>1, <2>3, <3>7 DEF Level
  <2> QED
    BY <1>3, <2>4
<1>9. ASSUME NEW n \in Node, NEW f \in Files, NEW base \in AvailBases,
              NodeFails(n, f, base)
      PROVE  Level'
  <2> DEFINE t == yama.tabla_nodos
             g == IncreaseNodeError(t, n)
  <2>1. yama'.tabla_nodos = g
    <3>1. yama' = [yama EXCEPT !.tabla_nodos = g]
      BY <1>9, Zenon DEF NodeFails, Table
    <3> HIDE DEF g
    <3> QED
      BY <1>1, <3>1 DEF PlanState
  <2>2. Known(t, n)
    BY <1>9 DEF NodeFails, Owed
  <2>3. \A i \in DOMAIN g : g[i].node_id = n => g[i].errors # 0
    BY <1>1, <2>2, FailureIsError
  <2>4. SameNodes(t, g)
    BY <1>1, HandlersKeepTable
  <2> HIDE DEF g
  <2>5. PICK i \in DOMAIN g : g[i].node_id = n
    BY <2>2, <2>4 DEF SameNodes, Known
  <2>6. ~RowsTrue(g, pending')
    BY <2>3, <2>5 DEF RowsTrue
  <2> QED
    BY <1>3, <2>1, <2>6 DEF Leveling
<1>10. ASSUME blocks' = <<>> \/ pc' \in {"nodes", "overflow"} PROVE Level'
  BY <1>10 DEF Level
<1>11. CASE StackOverflow
  BY <1>10, <1>11 DEF StackOverflow
<1>12. ASSUME NEW f \in Files, NEW alg \in Algorithms, NEW base \in AvailBases,
              JobStarts(f, alg, base)
       PROVE  Level'
  BY <1>10, <1>12 DEF JobStarts
<1>13. CASE LookUpNodes
  BY <1>10, <1>13 DEF LookUpNodes
<1>14. ASSUME NEW n \in Node, ReductionCharged(n) \/ TaskEnds(n) PROVE Level'
  BY <1>10, <1>14 DEF ReductionCharged, TaskEnds, Idle
<1>15. CASE ErrorsForgotten
  BY <1>10, <1>15 DEF ErrorsForgotten, Idle
<1>16. CASE UNCHANGED vars
  BY <1>16 DEF vars, Level, RowsTrue, TableNodes, Replicas
<1> QED
  BY <1>4, <1>5, <1>6, <1>7, <1>8, <1>9, <1>11, <1>12, <1>13, <1>14, <1>15, <1>16 DEF Next

(* A selection of a WRR job is of a node with the fewest tasks.            *)
LEMMA SelectsLeast ==
    ASSUME IInv, Joined, Level, [Next]_vars,
           pc = "evaluate", pc' = "idle", params.algoritm = "WRR",
           TableNodes \subseteq Replicas, LoadsAreTrue
    PROVE  \A n \in yama'.found, m \in TableNodes : pending[n] <= pending[m]
<1> DEFINE t == yama.tabla_nodos
           a == yama.at
<1>1. SelectNode
  BY DEF Next, vars, DoPlanningOfBlock, RestoreNode, LookFurther, StackOverflow,
         JobStarts, LookUpNodes, ComputeAvailability, NodeFails, ReductionCharged,
         TaskEnds, ErrorsForgotten, Idle
<1>2. PlanningOK(yama) /\ Table_OK(t) /\ a \in DOMAIN t /\ blocks # <<>>
  BY DEF IInv, TypeOK, ClockInTable, PlanningOK, Table_OK, NoNodeTwice, PlanState
<1>3. yama'.found = {t[a].node_id} /\ t[a].availability > 0
  BY <1>1, <1>2, SelectOK DEF SelectNode, Available
<1>4. RowsTrue(t, pending)
  BY LoadsByRow
<1>5. Leveled(yama)
  BY <1>2, <1>4, LevelEs DEF Leveling
<1>6. ASSUME NEW i \in DOMAIN t PROVE t[a].tasks_in_progress <= t[i].tasks_in_progress
  <2>1. \A k \in DOMAIN t : t[k].availability \in Int /\ t[k].tasks_in_progress \in Int
    BY <1>2, RowFields DEF Table_OK
  <2>2. CASE Sums(t) /\ t[i].availability <= t[a].availability
    <3>1. PICK s \in Int : \A k \in DOMAIN t : t[k].availability + t[k].tasks_in_progress = s
      BY <2>2 DEF Sums
    <3>2. /\ t[i].availability + t[i].tasks_in_progress = s
          /\ t[a].availability + t[a].tasks_in_progress = s
          /\ t[i].availability \in Int /\ t[i].tasks_in_progress \in Int
          /\ t[a].availability \in Int /\ t[a].tasks_in_progress \in Int
      BY <1>2, <2>1, <3>1
    <3> QED
      BY <2>2, <3>2
  <2>3. CASE Refilled(t, a, params.availBase)
    <3>1. t[a].tasks_in_progress = t[i].tasks_in_progress /\ t[a].tasks_in_progress \in Int
      BY <1>2, <2>1, <2>3 DEF Refilled
    <3> QED
      BY <3>1
  <2> QED
    BY <1>5, <2>2, <2>3 DEF Leveled
<1>7. ASSUME NEW m \in TableNodes PROVE pending[t[a].node_id] <= pending[m]
  <2>1. PICK i \in DOMAIN t : t[i].node_id = m
    BY DEF TableNodes
  <2>2. t[a].tasks_in_progress = pending[t[a].node_id] /\ t[i].tasks_in_progress = pending[m]
    BY <1>2, <1>4, <2>1 DEF RowsTrue
  <2> QED
    BY <1>6, <2>1, <2>2
<1> QED
  BY <1>3, <1>7

(* WRRSelectsLeastLoaded, of every step, when a word holds the loads.      *)
THEOREM WRRBalances ==
    ASSUME Balanceable
    PROVE  Spec => WRRSelectsLeastLoaded
<1>1. Init => Joined /\ Owed /\ Level
  BY PlannerAssumption DEF Init, Joined, Owed, Level
<1>2. IInv /\ IInv' /\ Joined /\ Owed /\ Level /\ [Next]_vars => Joined' /\ Owed' /\ Level'
  BY NextJoined, NextOwed, NextLevel
<1>3. IInv /\ Joined /\ Level /\ [Next]_vars =>
         (pc = "evaluate" /\ pc' = "idle" /\ params.algoritm = "WRR"
          /\ TableNodes \subseteq Replicas /\ LoadsAreTrue
          => \A n \in yama'.found, m \in TableNodes : pending[n] <= pending[m])
  BY SelectsLeast
<1> QED
  BY <1>1, <1>2, <1>3, InitIInv, NextIInv, PTL DEF Spec, WRRSelectsLeastLoaded
=============================================================================
