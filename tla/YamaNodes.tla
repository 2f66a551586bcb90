------------------------------ MODULE YamaNodes ------------------------------
(***************************************************************************)
(* The node table of YAMA (yama->tabla_nodos) and the pre-planning clock   *)
(* algorithm of planner.c, as operators.  The table is a sequence of rows  *)
(* in the order in which the nodes became known; the positions that the C  *)
(* code counts from 0 are counted from 1 here.                             *)
(***************************************************************************)
EXTENDS Integers, Sequences

CONSTANTS
    Node,     \* the identifiers of the nodes (workers)
    WordSize  \* 2^w, the number of values of the unsigned tasks_in_progress

ASSUME WordAssumption == WordSize \in Nat /\ WordSize > 1

(* One row of the table, elem_tabla_nodos.  "considered" is never read.    *)
NodeRow == [node_id : Node, tasks_in_progress : 0 .. WordSize - 1,
            tasts_done : Nat, availability : Int, errors : Nat]

Algorithm == {"WRR", "RR", "other"}

(* The bit pattern x of an unsigned int read as an int.                    *)
AsInt(x) == IF 2 * x >= WordSize THEN x - WordSize ELSE x

-----------------------------------------------------------------------------
(* Rows of the table.                                                      *)

(* findNode: the position of node n, 0 (-1 in the code) when it is absent. *)
Known(t, n) == \E i \in DOMAIN t : t[i].node_id = n
FindNode(t, n) ==
    IF Known(t, n)
    THEN CHOOSE i \in DOMAIN t : /\ t[i].node_id = n
                                 /\ \A j \in 1 .. i - 1 : t[j].node_id # n
    ELSE 0

NewNode(n, avail) ==
    [node_id |-> n, tasks_in_progress |-> 0, tasts_done |-> 0,
     availability |-> avail, errors |-> 0]

(* One half of an iteration of addToNodeList: node n joins the table, with *)
(* the configured availability, unless it is already there.                *)
AddToNodeList(t, n, avail) ==
    IF Known(t, n) THEN t ELSE Append(t, NewNode(n, avail))

(* Charged is the body of increaseNodeCharge.                              *)
Charged(row) ==
    [row EXCEPT !.availability = @ - 1,
                !.tasks_in_progress = (@ + 1) % WordSize,
                !.errors = 0]

(* Discharged is the body of decreaseNodeCharge.  Faulty variant: a signed *)
(* counter.                                                                *)
DischargedSigned(row) ==
    [row EXCEPT !.availability = @ + 1, !.tasks_in_progress = @ - 1,
                !.tasts_done = @ + 1]
Discharged(row) ==
    [row EXCEPT !.availability = @ + 1,
                !.tasks_in_progress = (@ - 1) % WordSize,
                !.tasts_done = @ + 1]

(* Failed is the body of increaseNodeError.  Faulty variant: it only       *)
(* takes the tasks away.                                                   *)
FailedForgiven(row) ==
    [row EXCEPT !.tasks_in_progress = 0]
Failed(row) ==
    [row EXCEPT !.availability = 0, !.tasks_in_progress = 0, !.errors = @ + 1]

IncreaseNodeCharge(t, n) ==
    [i \in DOMAIN t |-> IF i = FindNode(t, n) THEN Charged(t[i]) ELSE t[i]]
DecreaseNodeCharge(t, n) ==
    [i \in DOMAIN t |-> IF i = FindNode(t, n) THEN Discharged(t[i]) ELSE t[i]]
IncreaseNodeError(t, n) ==
    [i \in DOMAIN t |-> IF i = FindNode(t, n) THEN Failed(t[i]) ELSE t[i]]
DeleteNodeErrors(t) ==
    [i \in DOMAIN t |-> [t[i] EXCEPT !.errors = 0]]

-----------------------------------------------------------------------------
(* Availability.                                                           *)

(* The largest tasks_in_progress; getMaxWorkload compares an int with an   *)
(* unsigned int, so the comparison is unsigned.                            *)
GetMaxWorkload(t) ==
    IF t = <<>> THEN 0
    ELSE LET loads == {t[i].tasks_in_progress : i \in DOMAIN t}
         IN  CHOOSE x \in loads : \A y \in loads : y <= x

(* Faulty variant of HClockAvail: the operands swapped.                    *)
HClockAvailSwapped(t, row, avail) ==
    AsInt((avail + (row.tasks_in_progress - GetMaxWorkload(t))) % WordSize)

HClockAvail(t, row, avail) ==
    AsInt((avail + (GetMaxWorkload(t) - row.tasks_in_progress)) % WordSize)

SetNewAvailability(t, row, algoritm, avail) ==
    CASE algoritm = "WRR" -> HClockAvail(t, row, avail)
      [] algoritm = "RR" -> avail
      [] OTHER -> 0

UpdateAvailability(t, algoritm, avail) ==
    [i \in DOMAIN t |->
       [t[i] EXCEPT !.availability = SetNewAvailability(t, t[i], algoritm, avail)]]

AddAvailBase(t, avail) ==
    [i \in DOMAIN t |-> [t[i] EXCEPT !.availability = @ + avail]]

-----------------------------------------------------------------------------
(* The clock.                                                              *)

(* The order getHigerAvailNode scans for: more availability, and between   *)
(* equals fewer tasks done.                                                *)
Better(r, s) ==
    \/ r.availability > s.availability
    \/ r.availability = s.availability /\ r.tasts_done < s.tasts_done

GetHigerAvailNode(t) ==
    CHOOSE i \in DOMAIN t : /\ \A j \in 1 .. i - 1 : Better(t[i], t[j])
                            /\ \A j \in DOMAIN t : ~Better(t[j], t[i])

(* increseClock; a faulty variant wraps one position late.                 *)
IncreseClockLate(t, c) == IF c > Len(t) THEN 1 ELSE c + 1
IncreseClock(t, c) == IF c >= Len(t) THEN 1 ELSE c + 1

(* replicas is the set {node1, node2} of the block.                        *)
BlockExistInClock(t, replicas, c) == t[c].node_id \in replicas

(* The position k steps after c, cyclically, for k up to Len(t).           *)
Ahead(t, c, k) == IF c + k <= Len(t) THEN c + k ELSE c + k - Len(t)

(* Where the while loop of evaluateClock leaves clock_aux: the first       *)
(* position after aux that has availability (0 is the only value skipped,  *)
(* a negative one is not) or that is the clock again.                      *)
SkipUnavailable(t, clock, aux) ==
    LET stop == {k \in 1 .. Len(t) :
                   LET p == Ahead(t, aux, k)
                   IN  t[p].availability # 0 \/ p = clock}
        first == CHOOSE k \in stop : \A j \in stop : k <= j
    IN  Ahead(t, aux, first)

-----------------------------------------------------------------------------
(* evaluateClock.  p holds the fields of the struct yama the algorithm     *)
(* works on (tabla_nodos, clock, clock_aux), the position "at" that the    *)
(* call evaluates, and the node "found" once one is selected.              *)

PlanState == [tabla_nodos : Seq(NodeRow), clock : Nat, clock_aux : Nat,
              at : Nat, found : SUBSET Node]

Suitable(p, replicas) ==
    /\ p.tabla_nodos[p.at].errors = 0
    /\ BlockExistInClock(p.tabla_nodos, replicas, p.at)
Available(p) == p.tabla_nodos[p.at].availability > 0

(* doPlanning up to its call of evaluateClock.                             *)
StartPlanning(t) ==
    LET c == GetHigerAvailNode(t)
    IN  [tabla_nodos |-> t, clock |-> c, clock_aux |-> c, at |-> c, found |-> {}]

(* The node is selected: updateNodeInTable.                                *)
UpdateNodeInTable(p) ==
    LET n == p.tabla_nodos[p.at].node_id
    IN  [p EXCEPT !.tabla_nodos = IncreaseNodeCharge(@, n),
                  !.clock = IncreseClock(p.tabla_nodos, @),
                  !.found = {n}]

(* Faulty variant of RestoreAvailability: only the clock moves.            *)
RestoreNothing(p, availBase) ==
    LET c == IncreseClock(p.tabla_nodos, p.clock)
    IN  [p EXCEPT !.clock = c, !.at = c]

(* The node holds the block and has no availability left: it gets the base *)
(* availability back and the clock moves on.                               *)
RestoreAvailability(p, availBase) ==
    LET c == IncreseClock(p.tabla_nodos, p.clock)
    IN  [p EXCEPT !.tabla_nodos[p.at].availability = availBase,
                  !.clock = c, !.at = c]

(* The node does not hold the block, or failed: look further with          *)
(* clock_aux; a whole turn without success adds the base to every node.    *)
AdvanceClockAux(p, availBase) ==
    LET a == SkipUnavailable(p.tabla_nodos, p.clock, p.clock_aux)
    IN  [p EXCEPT !.clock_aux = a, !.at = a,
                  !.tabla_nodos = IF a = p.clock THEN AddAvailBase(@, availBase)
                                                 ELSE @]

EvaluateClock(p, replicas, availBase) ==
    IF Suitable(p, replicas)
    THEN IF Available(p) THEN UpdateNodeInTable(p)
                         ELSE RestoreAvailability(p, availBase)
    ELSE AdvanceClockAux(p, availBase)

(* doPlanning, with evaluateClock's recursion cut at depth calls; found is *)
(* empty when the recursion has not ended by then.                         *)
DoPlanning(t, replicas, availBase, depth) ==
    LET call[k \in 0 .. depth] ==
          IF k = 0 THEN StartPlanning(t)
          ELSE LET p == call[k - 1]
               IN  IF p.found # {} THEN p ELSE EvaluateClock(p, replicas, availBase)
    IN  call[depth]
=============================================================================
