--------------------------- MODULE YamaNodesProofs ---------------------------
(***************************************************************************)
(* What the operators on the node table and the clock algorithm keep, for  *)
(* every set of nodes and every table.                                     *)
(***************************************************************************)
EXTENDS YamaNodes, SequenceTheorems, Recursion

-----------------------------------------------------------------------------
(* Least numbers, and with them the maxima that the CHOOSEs pick.          *)

(* getHigerAvailNode finds a node in every table that is not empty, and no *)
(* other has more availability: the prefixes of the table without a best   *)
(* row would have a shortest one.                                          *)
LEMMA HigerAvailNodeInTable ==
    ASSUME NEW t \in Seq(NodeRow), t # <<>>
    PROVE  /\ GetHigerAvailNode(t) \in DOMAIN t
           /\ \A j \in DOMAIN t : ~Better(t[j], t[GetHigerAvailNode(t)])
<1> DEFINE Best(i, n) == /\ \A j \in 1 .. i - 1 : Better(t[i], t[j])
                         /\ \A j \in 1 .. n : ~Better(t[j], t[i])
           Bad == {n \in 1 .. Len(t) : ~ \E i \in 1 .. n : Best(i, n)}
<1>1. Len(t) \in Nat \ {0} /\ DOMAIN t = 1 .. Len(t)
  OBVIOUS
<1>2. \A i \in 1 .. Len(t) : /\ t[i].availability \in Int
                             /\ t[i].tasts_done \in Nat
  <2>1. \A i \in 1 .. Len(t) : t[i] \in NodeRow
    BY <1>1
  <2> QED
    BY <2>1 DEF NodeRow
<1>3. Bad = {}
  <2>1. SUFFICES ASSUME Bad # {} PROVE FALSE
    OBVIOUS
  <2>2. PICK m \in Bad : \A k \in Bad : m <= k
    <3>1. Bad \subseteq Nat
      BY <1>1
    <3> HIDE DEF Bad
    <3> QED
      BY <2>1, <3>1, MenorNatural
  <2>3. m \in 1 .. Len(t) /\ ~ \E i \in 1 .. m : Best(i, m)
    OBVIOUS
  <2>4. m # 1
    <3>1. SUFFICES ASSUME m = 1 PROVE Best(1, m)
      BY <2>3
    <3> QED
      BY <3>1, <1>1, <1>2 DEF Better
  <2>5. PICK i \in 1 .. m - 1 : Best(i, m - 1)
    <3>1. m - 1 \in 1 .. Len(t) /\ ~(m <= m - 1)
      BY <2>3, <2>4, <1>1
    <3>2. m - 1 \notin Bad
      BY <2>2, <3>1
    <3> QED
      BY <3>1, <3>2
  <2>6. CASE Better(t[m], t[i])
    <3>1. \A j \in 1 .. m - 1 : Better(t[m], t[j])
      BY <2>3, <2>5, <2>6, <1>1, <1>2 DEF Better
    <3>2. \A j \in 1 .. m : ~Better(t[j], t[m])
      <4>1. ASSUME NEW j \in 1 .. m - 1 PROVE ~Better(t[j], t[m])
        BY <2>3, <3>1, <1>1, <1>2 DEF Better
      <4>2. ~Better(t[m], t[m])
        BY <2>3, <1>2 DEF Better
      <4> QED
        BY <2>3, <4>1, <4>2, <1>1
    <3> QED
      BY <2>3, <3>1, <3>2, <1>1
  <2>7. CASE ~Better(t[m], t[i])
    <3>1. Best(i, m)
      BY <2>3, <2>5, <2>7, <1>1
    <3> QED
      BY <2>3, <2>5, <3>1, <1>1
  <2> QED
    BY <2>6, <2>7
<1>4. PICK i \in 1 .. Len(t) : Best(i, Len(t))
  BY <1>1, <1>3
<1>5. \E c \in DOMAIN t : /\ \A j \in 1 .. c - 1 : Better(t[c], t[j])
                          /\ \A j \in DOMAIN t : ~Better(t[j], t[c])
  BY <1>1, <1>4
<1> QED
  BY <1>5 DEF GetHigerAvailNode

(* getMaxWorkload is the tasks_in_progress of some node, and no node has   *)
(* more; it is 0 without nodes.                                            *)
LEMMA MaxWorkloadType ==
    ASSUME NEW t \in Seq(NodeRow)
    PROVE  /\ GetMaxWorkload(t) \in Nat
           /\ \A i \in DOMAIN t : t[i].tasks_in_progress <= GetMaxWorkload(t)
           /\ t # <<>> => \E i \in DOMAIN t : t[i].tasks_in_progress = GetMaxWorkload(t)
<1> DEFINE load(i) == t[i].tasks_in_progress
           loads == {load(i) : i \in DOMAIN t}
           Over == {m \in Nat : \A i \in DOMAIN t : load(i) <= m}
<1>1. CASE t = <<>>
  BY <1>1 DEF GetMaxWorkload
<1>2. CASE t # <<>>
  <2>1. \A i \in DOMAIN t : load(i) \in 0 .. WordSize - 1
    <3>1. \A i \in DOMAIN t : t[i] \in NodeRow
      OBVIOUS
    <3> QED
      BY <3>1 DEF NodeRow
  <2>2. loads \subseteq Nat /\ loads # {}
    BY <2>1, <1>2, WordAssumption
  <2>3. WordSize \in Over
    BY <2>1, WordAssumption
  <2>4. PICK m \in Over : \A k \in Over : m <= k
    BY <2>3, MenorNatural
  <2>5. m \in loads
    <3>1. SUFFICES ASSUME m \notin loads PROVE FALSE
      OBVIOUS
    <3>2. \A i \in DOMAIN t : load(i) < m
      BY <3>1, <2>1, <2>4, WordAssumption
    <3>3. m # 0
      BY <3>2, <2>1, <1>2, WordAssumption
    <3>4. m - 1 \in Over
      BY <3>2, <3>3, <2>1, WordAssumption
    <3> QED
      BY <3>4, <2>4
  <2>6. \A y \in loads : y <= m
    BY <2>4
  <2> DEFINE x == CHOOSE z \in loads : \A y \in loads : y <= z
  <2>7. x \in loads /\ \A y \in loads : y <= x
    BY <2>5, <2>6
  <2>8. GetMaxWorkload(t) = x
    BY <1>2 DEF GetMaxWorkload
  <2> HIDE DEF x
  <2> QED
    BY <2>2, <2>7, <2>8
<1> QED
  BY <1>1, <1>2

(* The loop of evaluateClock stops, at a position of the table: it meets   *)
(* the clock within one turn.                                              *)
LEMMA SkipStopsInTable ==
    ASSUME NEW t \in Seq(NodeRow), NEW clock \in DOMAIN t, NEW aux \in DOMAIN t
    PROVE  SkipUnavailable(t, clock, aux) \in DOMAIN t
<1> DEFINE stop == {k \in 1 .. Len(t) :
                      LET p == Ahead(t, aux, k)
                      IN  t[p].availability # 0 \/ p = clock}
           first == CHOOSE k \in stop : \A j \in stop : k <= j
<1>1. Len(t) \in Nat /\ DOMAIN t = 1 .. Len(t)
  OBVIOUS
<1>2. stop # {}
  <2>1. CASE clock > aux
    <3>1. clock - aux \in 1 .. Len(t) /\ Ahead(t, aux, clock - aux) = clock
      BY <1>1, <2>1 DEF Ahead
    <3> QED
      BY <3>1
  <2>2. CASE clock <= aux
    <3>1. /\ clock - aux + Len(t) \in 1 .. Len(t)
          /\ Ahead(t, aux, clock - aux + Len(t)) = clock
      BY <1>1, <2>2 DEF Ahead
    <3> QED
      BY <3>1
  <2> QED
    BY <1>1, <2>1, <2>2
<1>3. stop \subseteq Nat
  BY <1>1
<1>4. first \in stop
  <2> HIDE DEF stop
  <2> QED
    BY <1>2, <1>3, MenorNatural
<1>5. first \in 1 .. Len(t)
  BY <1>4
<1>6. Ahead(t, aux, first) \in DOMAIN t
  BY <1>1, <1>5 DEF Ahead
<1> QED
  BY <1>6 DEF SkipUnavailable
-----------------------------------------------------------------------------
(* Rows and tables keep their types, and the nodes their positions.        *)

NoNodeTwice(t) ==
    \A i, j \in DOMAIN t : t[i].node_id = t[j].node_id => i = j

Table_OK(t) == t \in Seq(NodeRow) /\ NoNodeTwice(t)

(* g is the table t with rows of the same nodes.                           *)
SameNodes(t, g) ==
    DOMAIN g = DOMAIN t /\ \A i \in DOMAIN t : g[i].node_id = t[i].node_id

SameErrors(t, g) == \A i \in DOMAIN t : g[i].errors = t[i].errors

(* Rewriting every row of a table keeps the table's type and its nodes.    *)
LEMMA RewrittenTable ==
    ASSUME NEW t, Table_OK(t),
           NEW g, g = [i \in DOMAIN t |-> g[i]],
           \A i \in DOMAIN t : g[i] \in NodeRow /\ g[i].node_id = t[i].node_id
    PROVE  Table_OK(g) /\ SameNodes(t, g)
<1>1. t \in Seq(NodeRow) /\ DOMAIN t = 1 .. Len(t) /\ Len(t) \in Nat
  BY DEF Table_OK
<1>2. g \in [1 .. Len(t) -> NodeRow]
  <2>1. [i \in DOMAIN t |-> g[i]] \in [DOMAIN t -> NodeRow]
    OBVIOUS
  <2> QED
    BY <1>1, <2>1, Zenon
<1>3. g \in Seq(NodeRow)
  BY <1>1, <1>2
<1>4. SameNodes(t, g)
  BY <1>1, <1>2 DEF SameNodes
<1> QED
  BY <1>3, <1>4 DEF Table_OK, NoNodeTwice, SameNodes

(* The unsigned counter stays a counter, whatever it is charged with.      *)
LEMMA Wraps ==
    ASSUME NEW x \in Int
    PROVE  x % WordSize \in 0 .. WordSize - 1
BY WordAssumption, SMT

LEMMA RowFields ==
    ASSUME NEW row \in NodeRow
    PROVE  /\ row.node_id \in Node /\ row.tasks_in_progress \in 0 .. WordSize - 1
           /\ row.tasks_in_progress \in Int
           /\ row.availability \in Int /\ row.tasts_done \in Nat /\ row.errors \in Nat
BY WordAssumption DEF NodeRow

(* A row with one field rewritten.                                         *)
LEMMA RowRewritten ==
    ASSUME NEW row \in NodeRow
    PROVE  /\ \A x \in Int : /\ [row EXCEPT !.availability = x] \in NodeRow
                             /\ [row EXCEPT !.availability = x].node_id = row.node_id
           /\ \A x \in 0 .. WordSize - 1 :
                 /\ [row EXCEPT !.tasks_in_progress = x] \in NodeRow
                 /\ [row EXCEPT !.tasks_in_progress = x].node_id = row.node_id
           /\ \A x \in Nat : /\ [row EXCEPT !.tasts_done = x] \in NodeRow
                             /\ [row EXCEPT !.tasts_done = x].node_id = row.node_id
           /\ \A x \in Nat : /\ [row EXCEPT !.errors = x] \in NodeRow
                             /\ [row EXCEPT !.errors = x].node_id = row.node_id
                             /\ [row EXCEPT !.errors = x].errors = x
           /\ \A x : /\ [row EXCEPT !.availability = x].errors = row.errors
                    /\ [row EXCEPT !.tasks_in_progress = x].errors = row.errors
                    /\ [row EXCEPT !.tasts_done = x].errors = row.errors
<1>1. ASSUME NEW x \in Int
      PROVE  /\ [row EXCEPT !.availability = x] \in NodeRow
             /\ [row EXCEPT !.availability = x].node_id = row.node_id
  BY DEF NodeRow
<1>2. ASSUME NEW x \in 0 .. WordSize - 1
      PROVE  /\ [row EXCEPT !.tasks_in_progress = x] \in NodeRow
             /\ [row EXCEPT !.tasks_in_progress = x].node_id = row.node_id
  BY DEF NodeRow
<1>3. ASSUME NEW x \in Nat
      PROVE  /\ [row EXCEPT !.tasts_done = x] \in NodeRow
             /\ [row EXCEPT !.tasts_done = x].node_id = row.node_id
  BY DEF NodeRow
<1>4. ASSUME NEW x \in Nat
      PROVE  /\ [row EXCEPT !.errors = x] \in NodeRow
             /\ [row EXCEPT !.errors = x].node_id = row.node_id
             /\ [row EXCEPT !.errors = x].errors = x
  BY DEF NodeRow
<1>5. ASSUME NEW x
      PROVE  /\ [row EXCEPT !.availability = x].errors = row.errors
             /\ [row EXCEPT !.tasks_in_progress = x].errors = row.errors
             /\ [row EXCEPT !.tasts_done = x].errors = row.errors
  BY DEF NodeRow
<1> QED
  BY <1>1, <1>2, <1>3, <1>4, <1>5

(* What the handlers make of a row is a row of the same node.              *)
LEMMA RowUpdates ==
    ASSUME NEW row \in NodeRow
    PROVE  /\ Charged(row) \in NodeRow /\ Charged(row).node_id = row.node_id
           /\ Discharged(row) \in NodeRow /\ Discharged(row).node_id = row.node_id
           /\ Failed(row) \in NodeRow /\ Failed(row).node_id = row.node_id
           /\ Charged(row).errors = 0 /\ Failed(row).errors = row.errors + 1
<1> DEFINE more == (row.tasks_in_progress + 1) % WordSize
           less == (row.tasks_in_progress - 1) % WordSize
           up == row.availability + 1
           down == row.availability - 1
           done == row.tasts_done + 1
           bad == row.errors + 1
<1>1. /\ more \in 0 .. WordSize - 1 /\ less \in 0 .. WordSize - 1
      /\ 0 \in 0 .. WordSize - 1
  <2>1. row.tasks_in_progress + 1 \in Int /\ row.tasks_in_progress - 1 \in Int
    BY RowFields
  <2>2. 0 \in 0 .. WordSize - 1
    BY WordAssumption
  <2> QED
    BY <2>1, <2>2, Wraps
<1>2. up \in Int /\ down \in Int /\ done \in Nat /\ bad \in Nat /\ 0 \in Int /\ 0 \in Nat
  BY RowFields
<1>3. Charged(row) = [[[row EXCEPT !.availability = down]
                             EXCEPT !.tasks_in_progress = more] EXCEPT !.errors = 0]
  BY Zenon DEF Charged
<1>4. Discharged(row) = [[[row EXCEPT !.availability = up]
                             EXCEPT !.tasks_in_progress = less] EXCEPT !.tasts_done = done]
  BY Zenon DEF Discharged
<1>5. Failed(row) = [[[row EXCEPT !.availability = 0]
                             EXCEPT !.tasks_in_progress = 0] EXCEPT !.errors = bad]
  BY Zenon DEF Failed
<1> HIDE DEF more, less, up, down, done, bad
<1>6. /\ Charged(row) \in NodeRow /\ Charged(row).node_id = row.node_id
      /\ Charged(row).errors = 0
  <2> DEFINE r1 == [row EXCEPT !.availability = down]
             r2 == [r1 EXCEPT !.tasks_in_progress = more]
             r3 == [r2 EXCEPT !.errors = 0]
  <2>1. r1 \in NodeRow /\ r1.node_id = row.node_id
    BY <1>2, RowRewritten, Zenon
  <2>2. r2 \in NodeRow /\ r2.node_id = row.node_id
    BY <2>1, <1>1, RowRewritten, Zenon
  <2>3. r3 \in NodeRow /\ r3.node_id = row.node_id /\ r3.errors = 0
    BY <2>2, <1>2, RowRewritten, Zenon
  <2>4. Charged(row) = r3
    BY <1>3
  <2> QED
    BY <2>3, <2>4, Zenon
<1>7. Discharged(row) \in NodeRow /\ Discharged(row).node_id = row.node_id
  <2> DEFINE r1 == [row EXCEPT !.availability = up]
             r2 == [r1 EXCEPT !.tasks_in_progress = less]
             r3 == [r2 EXCEPT !.tasts_done = done]
  <2>1. r1 \in NodeRow /\ r1.node_id = row.node_id
    BY <1>2, RowRewritten, Zenon
  <2>2. r2 \in NodeRow /\ r2.node_id = row.node_id
    BY <2>1, <1>1, RowRewritten, Zenon
  <2>3. r3 \in NodeRow /\ r3.node_id = row.node_id
    BY <2>2, <1>2, RowRewritten, Zenon
  <2>4. Discharged(row) = r3
    BY <1>4
  <2> QED
    BY <2>3, <2>4, Zenon
<1>8. /\ Failed(row) \in NodeRow /\ Failed(row).node_id = row.node_id
      /\ Failed(row).errors = bad
  <2> DEFINE r1 == [row EXCEPT !.availability = 0]
             r2 == [r1 EXCEPT !.tasks_in_progress = 0]
             r3 == [r2 EXCEPT !.errors = bad]
  <2>1. r1 \in NodeRow /\ r1.node_id = row.node_id
    BY <1>2, RowRewritten, Zenon
  <2>2. r2 \in NodeRow /\ r2.node_id = row.node_id
    BY <2>1, <1>1, RowRewritten, Zenon
  <2>3. r3 \in NodeRow /\ r3.node_id = row.node_id /\ r3.errors = bad
    BY <2>2, <1>2, RowRewritten, Zenon
  <2>4. Failed(row) = r3
    BY <1>5
  <2> QED
    BY <2>3, <2>4, Zenon
<1> QED
  BY <1>6, <1>7, <1>8 DEF bad

(* Charges, results, failures and forgotten errors.                        *)
LEMMA HandlersKeepTable ==
    ASSUME NEW t, Table_OK(t), NEW n \in Node
    PROVE  /\ Table_OK(IncreaseNodeCharge(t, n)) /\ SameNodes(t, IncreaseNodeCharge(t, n))
           /\ Table_OK(DecreaseNodeCharge(t, n)) /\ SameNodes(t, DecreaseNodeCharge(t, n))
           /\ Table_OK(IncreaseNodeError(t, n)) /\ SameNodes(t, IncreaseNodeError(t, n))
           /\ Table_OK(DeleteNodeErrors(t)) /\ SameNodes(t, DeleteNodeErrors(t))
<1>1. \A i \in DOMAIN t : t[i] \in NodeRow
  BY DEF Table_OK
<1>2. Table_OK(IncreaseNodeCharge(t, n)) /\ SameNodes(t, IncreaseNodeCharge(t, n))
  BY <1>1, RowUpdates, RewrittenTable DEF IncreaseNodeCharge
<1>3. Table_OK(DecreaseNodeCharge(t, n)) /\ SameNodes(t, DecreaseNodeCharge(t, n))
  BY <1>1, RowUpdates, RewrittenTable DEF DecreaseNodeCharge
<1>4. Table_OK(IncreaseNodeError(t, n)) /\ SameNodes(t, IncreaseNodeError(t, n))
  BY <1>1, RowUpdates, RewrittenTable DEF IncreaseNodeError
<1>5. Table_OK(DeleteNodeErrors(t)) /\ SameNodes(t, DeleteNodeErrors(t))
  <2>1. \A i \in DOMAIN t : /\ [t[i] EXCEPT !.errors = 0] \in NodeRow
                            /\ [t[i] EXCEPT !.errors = 0].node_id = t[i].node_id
    BY <1>1 DEF NodeRow
  <2> QED
    BY <2>1, RewrittenTable DEF DeleteNodeErrors
<1> QED
  BY <1>2, <1>3, <1>4, <1>5

(* Availabilities.                                                         *)
LEMMA AvailabilityKeepsTable ==
    ASSUME NEW t, Table_OK(t), NEW alg \in Algorithm, NEW base \in Int
    PROVE  /\ Table_OK(UpdateAvailability(t, alg, base))
           /\ SameNodes(t, UpdateAvailability(t, alg, base))
           /\ Table_OK(AddAvailBase(t, base)) /\ SameNodes(t, AddAvailBase(t, base))
           /\ SameErrors(t, AddAvailBase(t, base))
<1>1. \A i \in DOMAIN t : t[i] \in NodeRow
  BY DEF Table_OK
<1>2. \A row \in NodeRow, a \in Int :
         /\ [row EXCEPT !.availability = a] \in NodeRow
         /\ [row EXCEPT !.availability = a].node_id = row.node_id
         /\ [row EXCEPT !.availability = a].errors = row.errors
  BY DEF NodeRow
<1>3. ASSUME NEW i \in DOMAIN t PROVE SetNewAvailability(t, t[i], alg, base) \in Int
  <2>1. GetMaxWorkload(t) \in Nat /\ t[i].tasks_in_progress \in Int
    <3>1. t[i] \in NodeRow /\ t \in Seq(NodeRow)
      BY <1>1 DEF Table_OK
    <3> QED
      BY <3>1, MaxWorkloadType, RowFields
  <2>2. base + (GetMaxWorkload(t) - t[i].tasks_in_progress) \in Int
    BY <2>1
  <2>3. (base + (GetMaxWorkload(t) - t[i].tasks_in_progress)) % WordSize \in Int
    BY <2>2, Wraps, WordAssumption
  <2>4. HClockAvail(t, t[i], base) \in Int
    BY <2>3, WordAssumption DEF HClockAvail, AsInt
  <2> QED
    BY <2>4 DEF SetNewAvailability, Algorithm
<1>4. /\ Table_OK(UpdateAvailability(t, alg, base))
      /\ SameNodes(t, UpdateAvailability(t, alg, base))
  BY <1>1, <1>2, <1>3, RewrittenTable DEF UpdateAvailability
<1>5. /\ Table_OK(AddAvailBase(t, base)) /\ SameNodes(t, AddAvailBase(t, base))
      /\ SameErrors(t, AddAvailBase(t, base))
  <2>1. \A i \in DOMAIN t : t[i].availability + base \in Int
    <3>1. \A i \in DOMAIN t : t[i].availability \in Int
      BY <1>1, RowFields
    <3> QED
      BY <3>1
  <2>2. \A i \in DOMAIN t :
           [t[i] EXCEPT !.availability = @ + base]
             = [t[i] EXCEPT !.availability = t[i].availability + base]
    OBVIOUS
  <2>3. SameErrors(t, AddAvailBase(t, base))
    BY <1>1, <1>2, <2>1, <2>2 DEF AddAvailBase, SameErrors
  <2>4. Table_OK(AddAvailBase(t, base)) /\ SameNodes(t, AddAvailBase(t, base))
    BY <1>1, <1>2, <2>1, <2>2, RewrittenTable DEF AddAvailBase
  <2> QED
    BY <2>3, <2>4
<1> QED
  BY <1>4, <1>5

(* A node joins the table once.                                            *)
LEMMA JoinKeepsTable ==
    ASSUME NEW t, Table_OK(t), NEW n \in Node, NEW base \in Int
    PROVE  Table_OK(AddToNodeList(t, n, base)) /\ AddToNodeList(t, n, base) # <<>>
<1>1. t \in Seq(NodeRow) /\ \A i \in DOMAIN t : t[i] \in NodeRow
  BY DEF Table_OK
<1>2. CASE Known(t, n)
  BY <1>2, <1>1 DEF AddToNodeList, Known
<1>3. CASE ~Known(t, n)
  <2> DEFINE r == NewNode(n, base)
             g == Append(t, r)
  <2>1. r \in NodeRow /\ r.node_id = n
    BY WordAssumption DEF NewNode, NodeRow
  <2>2. g \in Seq(NodeRow) /\ g # <<>>
    <3> HIDE DEF r
    <3>1. g \in Seq(NodeRow) /\ Len(g) = Len(t) + 1 /\ Len(t) \in Nat
      BY <1>1, <2>1, AppendProperties
    <3>2. g # <<>>
      BY <3>1, EmptySeq
    <3> QED
      BY <3>1, <3>2
  <2>3. /\ DOMAIN g = 1 .. Len(t) + 1 /\ DOMAIN t = 1 .. Len(t) /\ Len(t) \in Nat
        /\ g[Len(t) + 1] = r /\ \A i \in DOMAIN t : g[i] = t[i]
    BY <1>1, <2>1
  <2>4. \A i \in DOMAIN t : g[i].node_id # n
    BY <1>3, <2>3 DEF Known
  <2>5. NoNodeTwice(g)
    <3> HIDE DEF g, r
    <3>1. NoNodeTwice(t)
      BY DEF Table_OK
    <3>2. \A i \in DOMAIN g : i \in DOMAIN t \/ i = Len(t) + 1
      BY <2>3
    <3> QED
      BY <2>1, <2>3, <2>4, <3>1, <3>2 DEF NoNodeTwice
  <2> QED
    BY <1>3, <2>2, <2>5 DEF AddToNodeList, Table_OK
<1> QED
  BY <1>2, <1>3

(* findNode finds the only row of a node.                                  *)
LEMMA FindNodeFindsRow ==
    ASSUME NEW t, Table_OK(t), NEW i \in DOMAIN t
    PROVE  FindNode(t, t[i].node_id) = i
<1>1. DOMAIN t = 1 .. Len(t) /\ Len(t) \in Nat
  BY DEF Table_OK
<1>2. Known(t, t[i].node_id)
  BY DEF Known
<1>3. \A k \in DOMAIN t : t[k].node_id = t[i].node_id <=> k = i
  BY DEF Table_OK, NoNodeTwice
<1>4. \A j \in 1 .. i - 1 : t[j].node_id # t[i].node_id
  BY <1>1, <1>3
<1> QED
  BY <1>2, <1>3, <1>4 DEF FindNode

(* Charging a node without errors changes the errors of none.              *)
LEMMA ChargeKeepsErrors ==
    ASSUME NEW t, Table_OK(t), NEW i \in DOMAIN t, t[i].errors = 0
    PROVE  SameErrors(t, IncreaseNodeCharge(t, t[i].node_id))
<1>1. FindNode(t, t[i].node_id) = i
  BY FindNodeFindsRow
<1>2. Charged(t[i]).errors = 0
  BY RowUpdates DEF Table_OK
<1> QED
  BY <1>1, <1>2 DEF IncreaseNodeCharge, SameErrors

(* A failure is an error of its node.                                      *)
LEMMA FailureIsError ==
    ASSUME NEW t, Table_OK(t), NEW n, Known(t, n)
    PROVE  LET g == IncreaseNodeError(t, n)
           IN  \A i \in DOMAIN g : g[i].node_id = n => g[i].errors # 0
<1>1. PICK i \in DOMAIN t : t[i].node_id = n
  BY DEF Known
<1>2. FindNode(t, n) = i
  BY <1>1, FindNodeFindsRow
<1>3. t[i] \in NodeRow
  BY DEF Table_OK
<1>4. Failed(t[i]).errors # 0
  <2>1. Failed(t[i]).errors = t[i].errors + 1 /\ t[i].errors \in Nat
    BY <1>3, RowUpdates, RowFields
  <2> QED
    BY <2>1
<1>5. \A j \in DOMAIN t : t[j].node_id = n => j = i
  BY <1>1 DEF Table_OK, NoNodeTwice
<1>6. \A j \in DOMAIN t : j # i => IncreaseNodeError(t, n)[j] = t[j]
  BY <1>2 DEF IncreaseNodeError
<1>7. DOMAIN IncreaseNodeError(t, n) = DOMAIN t /\ IncreaseNodeError(t, n)[i] = Failed(t[i])
  BY <1>2 DEF IncreaseNodeError
<1> QED
  BY <1>4, <1>5, <1>6, <1>7
-----------------------------------------------------------------------------
(* The calls of evaluateClock.                                             *)

(* A planning whose positions are all in its table.                        *)
PlanningOK(p) ==
    /\ p \in PlanState
    /\ Table_OK(p.tabla_nodos)
    /\ {p.clock, p.clock_aux, p.at} \subseteq DOMAIN p.tabla_nodos

(* A planning with one field rewritten.                                    *)
LEMMA TableRewritten ==
    ASSUME NEW p \in PlanState, NEW t \in Seq(NodeRow)
    PROVE  LET q == [p EXCEPT !.tabla_nodos = t]
           IN  /\ q \in PlanState /\ q.tabla_nodos = t /\ q.clock = p.clock
               /\ q.clock_aux = p.clock_aux /\ q.at = p.at /\ q.found = p.found
BY DEF PlanState

LEMMA ClockRewritten ==
    ASSUME NEW p \in PlanState, NEW c \in Nat
    PROVE  LET q == [p EXCEPT !.clock = c]
           IN  /\ q \in PlanState /\ q.tabla_nodos = p.tabla_nodos /\ q.clock = c
               /\ q.clock_aux = p.clock_aux /\ q.at = p.at /\ q.found = p.found
BY DEF PlanState

LEMMA ClockAuxRewritten ==
    ASSUME NEW p \in PlanState, NEW c \in Nat
    PROVE  LET q == [p EXCEPT !.clock_aux = c]
           IN  /\ q \in PlanState /\ q.tabla_nodos = p.tabla_nodos /\ q.clock = p.clock
               /\ q.clock_aux = c /\ q.at = p.at /\ q.found = p.found
BY DEF PlanState

LEMMA AtRewritten ==
    ASSUME NEW p \in PlanState, NEW c \in Nat
    PROVE  LET q == [p EXCEPT !.at = c]
           IN  /\ q \in PlanState /\ q.tabla_nodos = p.tabla_nodos /\ q.clock = p.clock
               /\ q.clock_aux = p.clock_aux /\ q.at = c /\ q.found = p.found
BY DEF PlanState

LEMMA FoundRewritten ==
    ASSUME NEW p \in PlanState, NEW F \in SUBSET Node
    PROVE  LET q == [p EXCEPT !.found = F]
           IN  /\ q \in PlanState /\ q.tabla_nodos = p.tabla_nodos /\ q.clock = p.clock
               /\ q.clock_aux = p.clock_aux /\ q.at = p.at /\ q.found = F
BY DEF PlanState

(* increseClock stays in the table.                                        *)
LEMMA IncreseClockInTable ==
    ASSUME NEW t \in Seq(NodeRow), NEW c \in DOMAIN t
    PROVE  IncreseClock(t, c) \in DOMAIN t
BY DEF IncreseClock

(* The planning that doPlanning starts.                                    *)
LEMMA StartOK ==
    ASSUME NEW t, Table_OK(t), t # <<>>
    PROVE  /\ PlanningOK(StartPlanning(t)) /\ StartPlanning(t).tabla_nodos = t
           /\ StartPlanning(t).found = {}
<1>1. t \in Seq(NodeRow) /\ GetHigerAvailNode(t) \in DOMAIN t
  BY HigerAvailNodeInTable DEF Table_OK
<1>2. GetHigerAvailNode(t) \in Nat
  BY <1>1
<1> QED
  BY <1>1, <1>2 DEF StartPlanning, PlanningOK, PlanState

(* A selection charges the node of the row under evaluation.               *)
LEMMA SelectOK ==
    ASSUME NEW p, PlanningOK(p)
    PROVE  LET q == UpdateNodeInTable(p)
           IN  /\ q \in PlanState /\ Table_OK(q.tabla_nodos)
               /\ SameNodes(p.tabla_nodos, q.tabla_nodos)
               /\ p.tabla_nodos[p.at].errors = 0 => SameErrors(p.tabla_nodos, q.tabla_nodos)
               /\ q.found = {p.tabla_nodos[p.at].node_id}
<1> DEFINE n == p.tabla_nodos[p.at].node_id
           g == IncreaseNodeCharge(p.tabla_nodos, n)
           c == IncreseClock(p.tabla_nodos, p.clock)
           q1 == [p EXCEPT !.tabla_nodos = g]
           q2 == [q1 EXCEPT !.clock = c]
           q3 == [q2 EXCEPT !.found = {n}]
<1>1. /\ p \in PlanState /\ Table_OK(p.tabla_nodos)
      /\ p.tabla_nodos \in Seq(NodeRow)
      /\ p.clock \in DOMAIN p.tabla_nodos /\ p.at \in DOMAIN p.tabla_nodos
  BY DEF PlanningOK, Table_OK
<1>2. n \in Node
  <2>1. p.tabla_nodos[p.at] \in NodeRow
    BY <1>1
  <2> QED
    BY <2>1, RowFields
<1>3. /\ Table_OK(g) /\ SameNodes(p.tabla_nodos, g)
      /\ p.tabla_nodos[p.at].errors = 0 => SameErrors(p.tabla_nodos, g)
  BY <1>1, <1>2, HandlersKeepTable, ChargeKeepsErrors
<1>4. c \in Nat
  <2>1. c \in DOMAIN p.tabla_nodos
    BY <1>1, IncreseClockInTable
  <2> QED
    BY <1>1, <2>1
<1>5. UpdateNodeInTable(p) = q3
  BY Zenon DEF UpdateNodeInTable
<1>6. g \in Seq(NodeRow) /\ {n} \in SUBSET Node
  BY <1>2, <1>3 DEF Table_OK
<1> HIDE DEF n, g, c
<1>7. q1 \in PlanState /\ q1.tabla_nodos = g
  BY <1>1, <1>6, TableRewritten, Zenon
<1> HIDE DEF q1
<1>8. q2 \in PlanState /\ q2.tabla_nodos = g
  BY <1>4, <1>7, ClockRewritten, Zenon
<1> HIDE DEF q2
<1>9. q3 \in PlanState /\ q3.tabla_nodos = g /\ q3.found = {n}
  BY <1>6, <1>8, FoundRewritten, Zenon
<1> QED
  BY <1>3, <1>5, <1>9, Zenon DEF n

(* The other two calls leave every position in the table, with its nodes.  *)
LEMMA RestoreOK ==
    ASSUME NEW p, PlanningOK(p), NEW base \in Int
    PROVE  LET q == RestoreAvailability(p, base)
           IN  /\ PlanningOK(q) /\ q.found = p.found
               /\ SameNodes(p.tabla_nodos, q.tabla_nodos)
               /\ SameErrors(p.tabla_nodos, q.tabla_nodos)
<1> DEFINE t == p.tabla_nodos
           g == [t EXCEPT ![p.at].availability = base]
           c == IncreseClock(t, p.clock)
           q1 == [p EXCEPT !.tabla_nodos = g]
           q2 == [q1 EXCEPT !.clock = c]
           q3 == [q2 EXCEPT !.at = c]
<1>1. /\ p \in PlanState /\ Table_OK(t) /\ t \in Seq(NodeRow)
      /\ {p.clock, p.clock_aux, p.at} \subseteq DOMAIN t
  BY DEF PlanningOK, Table_OK
<1>2. Table_OK(g) /\ SameNodes(t, g) /\ SameErrors(t, g)
  <2>1. \A i \in DOMAIN t : t[i] \in NodeRow
    BY <1>1
  <2>2. g = [i \in DOMAIN t |-> g[i]]
    BY <1>1
  <2>3. \A i \in DOMAIN t :
          g[i] = IF i = p.at THEN [t[i] EXCEPT !.availability = base] ELSE t[i]
    BY <1>1
  <2>4. \A i \in DOMAIN t : /\ g[i] \in NodeRow /\ g[i].node_id = t[i].node_id
                            /\ g[i].errors = t[i].errors
    <3> SUFFICES ASSUME NEW i \in DOMAIN t
                 PROVE  /\ g[i] \in NodeRow /\ g[i].node_id = t[i].node_id
                        /\ g[i].errors = t[i].errors
      OBVIOUS
    <3>1. /\ [t[i] EXCEPT !.availability = base] \in NodeRow
          /\ [t[i] EXCEPT !.availability = base].node_id = t[i].node_id
          /\ [t[i] EXCEPT !.availability = base].errors = t[i].errors
      BY <2>1, RowRewritten, Zenon
    <3> HIDE DEF g, t
    <3>2. CASE i = p.at
      BY <2>3, <3>1, <3>2, Zenon
    <3>3. CASE i # p.at
      BY <2>1, <2>3, <3>3, Zenon
    <3> QED
      BY <3>2, <3>3
  <2> HIDE DEF g, t
  <2>5. Table_OK(g) /\ SameNodes(t, g)
    BY <1>1, <2>2, <2>4, RewrittenTable
  <2> QED
    BY <2>4, <2>5 DEF SameErrors
<1>3. c \in DOMAIN t /\ c \in Nat
  <2>1. c \in DOMAIN t
    BY <1>1, IncreseClockInTable
  <2> QED
    BY <1>1, <2>1
<1>4. RestoreAvailability(p, base) = q3
  BY Zenon DEF RestoreAvailability
<1>5. g \in Seq(NodeRow) /\ DOMAIN g = DOMAIN t
  BY <1>2 DEF Table_OK, SameNodes
<1> HIDE DEF t, g, c
<1>6. q1 \in PlanState /\ q1.tabla_nodos = g /\ q1.clock_aux = p.clock_aux /\ q1.found = p.found
  BY <1>1, <1>5, TableRewritten, Zenon
<1> HIDE DEF q1
<1>7. /\ q2 \in PlanState /\ q2.tabla_nodos = g /\ q2.clock_aux = p.clock_aux
      /\ q2.clock = c /\ q2.found = p.found
  BY <1>3, <1>6, ClockRewritten, Zenon
<1> HIDE DEF q2
<1>8. /\ q3 \in PlanState /\ q3.tabla_nodos = g /\ q3.clock_aux = p.clock_aux
      /\ q3.clock = c /\ q3.at = c /\ q3.found = p.found
  BY <1>3, <1>7, AtRewritten, Zenon
<1> HIDE DEF q3
<1> QED
  BY <1>1, <1>2, <1>3, <1>4, <1>5, <1>8 DEF PlanningOK, t

LEMMA AdvanceOK ==
    ASSUME NEW p, PlanningOK(p), NEW base \in Int
    PROVE  LET q == AdvanceClockAux(p, base)
           IN  /\ PlanningOK(q) /\ q.found = p.found
               /\ SameNodes(p.tabla_nodos, q.tabla_nodos)
               /\ SameErrors(p.tabla_nodos, q.tabla_nodos)
<1> DEFINE t == p.tabla_nodos
           a == SkipUnavailable(t, p.clock, p.clock_aux)
           g == IF a = p.clock THEN AddAvailBase(t, base) ELSE t
           q1 == [p EXCEPT !.clock_aux = a]
           q2 == [q1 EXCEPT !.at = a]
           q3 == [q2 EXCEPT !.tabla_nodos = g]
<1>1. /\ p \in PlanState /\ Table_OK(t) /\ t \in Seq(NodeRow)
      /\ p.clock \in DOMAIN t /\ p.clock_aux \in DOMAIN t
  BY DEF PlanningOK, Table_OK
<1>2. a \in DOMAIN t /\ a \in Nat
  <2>1. a \in DOMAIN t
    BY <1>1, SkipStopsInTable
  <2> QED
    BY <1>1, <2>1
<1>3. Table_OK(g) /\ DOMAIN g = DOMAIN t /\ SameNodes(t, g) /\ SameErrors(t, g)
  <2>1. "RR" \in Algorithm
    BY DEF Algorithm
  <2> QED
    BY <1>1, <2>1, AvailabilityKeepsTable DEF SameNodes, SameErrors
<1>4. AdvanceClockAux(p, base) = q3
  BY Zenon DEF AdvanceClockAux
<1>5. g \in Seq(NodeRow)
  BY <1>3 DEF Table_OK
<1> HIDE DEF t, g, a
<1>6. q1 \in PlanState /\ q1.clock = p.clock /\ q1.clock_aux = a /\ q1.found = p.found
  BY <1>1, <1>2, ClockAuxRewritten, Zenon
<1> HIDE DEF q1
<1>7. /\ q2 \in PlanState /\ q2.clock = p.clock /\ q2.clock_aux = a /\ q2.at = a
      /\ q2.found = p.found
  BY <1>2, <1>6, AtRewritten, Zenon
<1> HIDE DEF q2
<1>8. /\ q3 \in PlanState /\ q3.tabla_nodos = g /\ q3.clock = p.clock
      /\ q3.clock_aux = a /\ q3.at = a /\ q3.found = p.found
  BY <1>5, <1>7, TableRewritten, Zenon
<1> HIDE DEF q3
<1> QED
  BY <1>1, <1>2, <1>3, <1>4, <1>8 DEF PlanningOK, t

-----------------------------------------------------------------------------
(* doPlanning.                                                             *)

(* Where a planning that started with table t stands: the table has the    *)
(* nodes and the errors of t, and what was found is a healthy replica.     *)
Planning(t, replicas, p) ==
    /\ p \in PlanState /\ Table_OK(p.tabla_nodos)
    /\ SameNodes(t, p.tabla_nodos) /\ SameErrors(t, p.tabla_nodos)
    /\ p.found = {} => PlanningOK(p)
    /\ p.found # {} => \E i \in DOMAIN t : /\ p.found = {t[i].node_id}
                                           /\ t[i].errors = 0 /\ t[i].node_id \in replicas

LEMMA SameTrans ==
    ASSUME NEW t, NEW g, NEW h, SameNodes(t, g), SameNodes(g, h),
           SameErrors(t, g), SameErrors(g, h)
    PROVE  SameNodes(t, h) /\ SameErrors(t, h)
BY DEF SameNodes, SameErrors

(* One call of evaluateClock.                                              *)
LEMMA CallOK ==
    ASSUME NEW t, NEW replicas, NEW p, Planning(t, replicas, p), p.found = {},
           NEW base \in Int
    PROVE  Planning(t, replicas, EvaluateClock(p, replicas, base))
<1> DEFINE q == EvaluateClock(p, replicas, base)
<1>1. /\ PlanningOK(p) /\ SameNodes(t, p.tabla_nodos) /\ SameErrors(t, p.tabla_nodos)
      /\ p.at \in DOMAIN p.tabla_nodos /\ p.at \in DOMAIN t
  BY DEF Planning, PlanningOK, SameNodes
<1>2. CASE Suitable(p, replicas) /\ Available(p)
  <2>1. q = UpdateNodeInTable(p)
    BY <1>2 DEF EvaluateClock
  <2>2. /\ p.tabla_nodos[p.at].errors = 0 /\ p.tabla_nodos[p.at].node_id \in replicas
        /\ t[p.at].errors = 0 /\ t[p.at].node_id = p.tabla_nodos[p.at].node_id
    BY <1>1, <1>2 DEF Suitable, BlockExistInClock, SameNodes, SameErrors
  <2>3. /\ q \in PlanState /\ Table_OK(q.tabla_nodos)
        /\ SameNodes(p.tabla_nodos, q.tabla_nodos)
        /\ SameErrors(p.tabla_nodos, q.tabla_nodos)
        /\ q.found = {p.tabla_nodos[p.at].node_id}
    BY <1>1, <2>1, <2>2, SelectOK
  <2> HIDE DEF q
  <2>4. SameNodes(t, q.tabla_nodos) /\ SameErrors(t, q.tabla_nodos)
    BY <1>1, <2>3, SameTrans
  <2>5. q.found # {} /\ q.found = {t[p.at].node_id}
    BY <2>2, <2>3
  <2>6. t[p.at].node_id \in replicas
    BY <2>2
  <2>7. Planning(t, replicas, q)
    BY <1>1, <2>2, <2>3, <2>4, <2>5, <2>6, Zenon DEF Planning
  <2> QED
    BY <2>7 DEF q
<1>3. CASE ~(Suitable(p, replicas) /\ Available(p))
  <2>1. q = RestoreAvailability(p, base) \/ q = AdvanceClockAux(p, base)
    BY <1>3 DEF EvaluateClock
  <2>2. /\ PlanningOK(q) /\ q.found = {}
        /\ SameNodes(p.tabla_nodos, q.tabla_nodos)
        /\ SameErrors(p.tabla_nodos, q.tabla_nodos)
    BY <1>1, <2>1, RestoreOK, AdvanceOK
  <2> HIDE DEF q
  <2>3. SameNodes(t, q.tabla_nodos) /\ SameErrors(t, q.tabla_nodos)
    BY <1>1, <2>2, SameTrans
  <2>4. Planning(t, replicas, q)
    BY <2>2, <2>3 DEF Planning, PlanningOK
  <2> QED
    BY <2>4 DEF q
<1> QED
  BY <1>2, <1>3

(* doPlanning call by call: what f[k] stands for after k calls.            *)
Calls(f, t, replicas, base, depth) ==
    /\ f[0] = StartPlanning(t)
    /\ \A k \in 1 .. depth : f[k] = IF f[k - 1].found # {} THEN f[k - 1]
                                    ELSE EvaluateClock(f[k - 1], replicas, base)
    /\ \A k \in 0 .. depth : f[k] \in PlanState /\ Planning(t, replicas, f[k])
    /\ DoPlanning(t, replicas, base, depth) = f[depth]

LEMMA DoPlanningByCalls ==
    ASSUME NEW t, Table_OK(t), t # <<>>, NEW replicas, NEW base \in Int,
           NEW depth \in Nat
    PROVE  \E f : Calls(f, t, replicas, base, depth)
<1> DEFINE V == {p \in PlanState : Planning(t, replicas, p)}
           a == StartPlanning(t)
           next(p) == IF p.found # {} THEN p ELSE EvaluateClock(p, replicas, base)
           paso == [k \in 1 .. depth |-> [p \in V |-> next(p)]]
           Es(h) == h = [k \in 0 .. depth |->
                           IF k = 0 THEN StartPlanning(t)
                           ELSE LET p == h[k - 1]
                                IN  IF p.found # {} THEN p
                                    ELSE EvaluateClock(p, replicas, base)]
<1>1. a \in V
  <2>1. PlanningOK(a) /\ a.tabla_nodos = t /\ a.found = {}
    BY StartOK
  <2>2. SameNodes(t, t) /\ SameErrors(t, t)
    BY DEF SameNodes, SameErrors
  <2> HIDE DEF a
  <2>3. Planning(t, replicas, a) /\ a \in PlanState
    BY <2>1, <2>2 DEF Planning, PlanningOK
  <2> QED
    BY <2>3
<1>2. ASSUME NEW p \in V PROVE next(p) \in V
  <2>1. ASSUME p.found = {} PROVE EvaluateClock(p, replicas, base) \in V
    <3>1. Planning(t, replicas, EvaluateClock(p, replicas, base))
      BY <2>1, CallOK
    <3>2. EvaluateClock(p, replicas, base) \in PlanState
      BY <3>1 DEF Planning
    <3> QED
      BY <3>1, <3>2
  <2> QED
    BY <2>1
<1>3. paso \in [1 .. depth -> [V -> V]]
  <2> HIDE DEF V, next
  <2> QED
    BY <1>2
<1>4. PICK g : g \in [0 .. depth -> V] /\ g[0] = a /\ \A k \in 1 .. depth : g[k] = paso[k][g[k - 1]]
  <2> HIDE DEF V, paso, a
  <2>1. \E g : PorPasos(g, depth, V, a, paso)
    BY <1>1, <1>3, Recursiva
  <2> QED
    BY <2>1 DEF PorPasos
<1>5. Es(g)
  <2>1. ASSUME NEW k \in 1 .. depth PROVE g[k] = next(g[k - 1])
    <3>1. g[k - 1] \in V
      <4> HIDE DEF V
      <4> QED
        BY <1>4
    <3> HIDE DEF V, next
    <3> QED
      BY <3>1, <1>4
  <2>2. g = [k \in 0 .. depth |-> g[k]]
    <3> HIDE DEF V
    <3> QED
      BY <1>4
  <2>3. \A k \in 0 .. depth : g[k] = IF k = 0 THEN a ELSE next(g[k - 1])
    <3> HIDE DEF V, next, a
    <3> QED
      BY <1>4, <2>1
  <2>4. g = [k \in 0 .. depth |-> IF k = 0 THEN a ELSE next(g[k - 1])]
    <3> HIDE DEF V, next, a
    <3> QED
      BY <2>2, <2>3
  <2> QED
    BY <2>4, Zenon
<1> DEFINE f == CHOOSE h : Es(h)
<1>6. Es(f)
  <2> HIDE DEF Es
  <2> QED
    BY <1>5
<1>7. DoPlanning(t, replicas, base, depth) = f[depth]
  BY Zenon DEF DoPlanning
<1>8. f[0] = a /\ \A k \in 1 .. depth : f[k] = next(f[k - 1])
  <2>1. f = [k \in 0 .. depth |-> IF k = 0 THEN a ELSE next(f[k - 1])]
    BY <1>6, Zenon
  <2> HIDE DEF f, a, next
  <2> QED
    BY <2>1
<1> DEFINE S == {k \in 0 .. depth : f[k] \in V}
<1>9. \A k \in 0 .. depth : k \in S
  <2>1. 0 \in S
    <3> HIDE DEF f, V, a
    <3> QED
      BY <1>1, <1>8
  <2>2. ASSUME NEW k \in 0 .. depth - 1, k \in S PROVE k + 1 \in S
    <3>1. k + 1 \in 1 .. depth /\ (k + 1) - 1 = k /\ f[k] \in V
      <4> HIDE DEF f, V
      <4> QED
        BY <2>2
    <3>2. f[k + 1] \in V
      <4> HIDE DEF f, V, next
      <4> QED
        BY <3>1, <1>2, <1>8
    <3> QED
      BY <3>1, <3>2
  <2> HIDE DEF S
  <2> QED
    BY <2>1, <2>2, Hasta
<1>10. \A k \in 0 .. depth : f[k] \in PlanState /\ Planning(t, replicas, f[k])
  <2> HIDE DEF f
  <2> QED
    BY <1>9
<1>11. /\ f[0] = StartPlanning(t)
       /\ \A k \in 1 .. depth : f[k] = IF f[k - 1].found # {} THEN f[k - 1]
                                       ELSE EvaluateClock(f[k - 1], replicas, base)
  <2> HIDE DEF f
  <2> QED
    BY <1>8
<1> HIDE DEF f
<1>12. Calls(f, t, replicas, base, depth)
  BY <1>7, <1>10, <1>11 DEF Calls
<1> QED
  BY <1>12

(* Whatever the number of calls, doPlanning rewrites the table of nodes    *)
(* without a change of nodes or errors, and finds a healthy replica if it  *)
(* finds one at all.                                                       *)
LEMMA DoPlanningOK ==
    ASSUME NEW t, Table_OK(t), t # <<>>, NEW replicas, NEW base \in Int,
           NEW depth \in Nat
    PROVE  Planning(t, replicas, DoPlanning(t, replicas, base, depth))
<1>1. PICK f : Calls(f, t, replicas, base, depth)
  BY DoPlanningByCalls
<1>2. depth \in 0 .. depth
  OBVIOUS
<1> QED
  BY <1>1, <1>2 DEF Calls
=============================================================================
