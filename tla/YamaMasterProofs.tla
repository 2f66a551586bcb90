-------------------------- MODULE YamaMasterProofs --------------------------
(***************************************************************************)
(* Proofs about YAMA and its masters, for every set of nodes, files and    *)
(* descriptors, every configuration and any number of masters and faults.  *)
(*                                                                         *)
(* Whatever fails: the types (TypeInv), the replies to a master that has   *)
(* asked for a replanning (LinkInv), the lifecycle of the jobs (LifeInv).  *)
(* While nothing fails, what YamaLoadProofs stands on:                     *)
(*   What the planner and the lists it fills are, task by task:            *)
(*     the passes over blocks and nodes, and the order of the entries      *)
(*   What a calm master sends, and in what order:  Calm                    *)
(*   The jobs of a calm master:  JobsInv                                   *)
(***************************************************************************)
EXTENDS YamaMaster, YamaNodesProofs

-----------------------------------------------------------------------------
(* The passes over a sequence.                                             *)

(* Keep keeps the elements at the positions of S and no others.            *)
LEMMA KeepIs ==
    ASSUME NEW E, NEW s \in Seq(E), NEW S
    PROVE  /\ Keep(s, S) \in Seq(E)
           /\ \A k \in DOMAIN Keep(s, S) : \E i \in DOMAIN s \cap S : Keep(s, S)[k] = s[i]
           /\ \A i \in DOMAIN s \cap S : \E k \in DOMAIN Keep(s, S) : Keep(s, S)[k] = s[i]
<1> DEFINE n == Len(s)
           next(k, v) == IF k \in S THEN Append(v, s[k]) ELSE v
           paso == [k \in 1 .. n |-> [v \in Seq(E) |-> next(k, v)]]
           Es(h) == h = [k \in 0 .. n |->
                           IF k = 0 THEN <<>>
                           ELSE IF k \in S THEN Append(h[k - 1], s[k]) ELSE h[k - 1]]
           f == CHOOSE h : Es(h)
<1>1. n \in Nat /\ DOMAIN s = 1 .. n /\ \A i \in 1 .. n : s[i] \in E
  OBVIOUS
<1>2. \A k \in 1 .. n, v \in Seq(E) : next(k, v) \in Seq(E)
  BY <1>1
<1>3. paso \in [1 .. n -> [Seq(E) -> Seq(E)]] /\ <<>> \in Seq(E)
  <2>1. paso \in [1 .. n -> [Seq(E) -> Seq(E)]]
    <3> HIDE DEF n, next
    <3> QED
      BY <1>2
  <2>2. <<>> \in Seq(E)
    BY EmptySeq
  <2> QED
    BY <2>1, <2>2
<1>4. PICK g : Ecuacion(g, n, Seq(E), <<>>, paso)
  <2> HIDE DEF n, paso
  <2> QED
    BY <1>1, <1>3, RecursivaEs
<1>5. Es(g)
  <2>0. /\ g \in [0 .. n -> Seq(E)]
        /\ g = [k \in 0 .. n |-> IF k = 0 THEN <<>> ELSE paso[k][g[k - 1]]]
    BY <1>4, Zenon DEF Ecuacion
  <2>1. \A k \in 1 .. n : paso[k][g[k - 1]] = next(k, g[k - 1])
    <3>1. \A k \in 1 .. n : k - 1 \in 0 .. n
      BY <1>1
    <3> HIDE DEF n, next
    <3> QED
      BY <2>0, <3>1
  <2>2. \A k \in 0 .. n : k # 0 => k \in 1 .. n
    BY <1>1
  <2>3. g = [k \in 0 .. n |-> IF k = 0 THEN <<>> ELSE next(k, g[k - 1])]
    <3> HIDE DEF n, next, paso
    <3> QED
      BY <2>0, <2>1, <2>2
  <2> QED
    BY <2>3, Zenon
<1>6. Es(f)
  <2> HIDE DEF Es
  <2> QED
    BY <1>5
<1>7. Keep(s, S) = f[n]
  BY Zenon DEF Keep
<1>8. f[0] = <<>> /\ \A k \in 1 .. n : f[k] = next(k, f[k - 1])
  <2>1. f = [k \in 0 .. n |-> IF k = 0 THEN <<>> ELSE next(k, f[k - 1])]
    BY <1>6, Zenon
  <2> HIDE DEF f, next
  <2> QED
    BY <1>1, <2>1
<1> HIDE DEF f, n, Es, paso
<1> DEFINE OK(k, v) == /\ v \in Seq(E)
                       /\ \A j \in DOMAIN v : \E i \in (1 .. k) \cap S : v[j] = s[i]
                       /\ \A i \in (1 .. k) \cap S : \E j \in DOMAIN v : v[j] = s[i]
           W == {k \in 0 .. n : OK(k, f[k])}
<1>9. 0 \in W
  <2>1. <<>> \in Seq(E) /\ DOMAIN <<>> = {}
    BY EmptySeq
  <2>2. OK(0, f[0])
    BY <1>8, <2>1
  <2> HIDE DEF OK
  <2> QED
    BY <1>1, <2>2
<1>10. ASSUME NEW k \in 0 .. n - 1, k \in W PROVE k + 1 \in W
  <2> DEFINE v == f[k]
             w == f[k + 1]
  <2>1. /\ k + 1 \in 1 .. n /\ (k + 1) - 1 = k /\ k \in Nat
        /\ \A i : i \in (1 .. k + 1) \cap S <=> (i \in (1 .. k) \cap S) \/ (i = k + 1 /\ k + 1 \in S)
    BY <1>1, <1>10
  <2>2. OK(k, v) /\ s[k + 1] \in E
    BY <1>1, <1>10, <2>1
  <2>3. w = next(k + 1, v)
    BY <1>8, <2>1
  <2>4. OK(k + 1, w)
    <3> HIDE DEF v, w
    <3>1. CASE k + 1 \notin S
      BY <2>1, <2>2, <2>3, <3>1
    <3>2. CASE k + 1 \in S
      <4>1. w = Append(v, s[k + 1])
        BY <2>3, <3>2
      <4>2. /\ w \in Seq(E) /\ DOMAIN w = 1 .. Len(v) + 1 /\ DOMAIN v = 1 .. Len(v)
            /\ Len(v) \in Nat /\ \A j \in 1 .. Len(v) : w[j] = v[j]
            /\ w[Len(v) + 1] = s[k + 1]
        BY <2>2, <4>1
      <4>3. \A j \in DOMAIN w : j \in DOMAIN v \/ j = Len(v) + 1
        BY <4>2
      <4>4. ASSUME NEW j \in DOMAIN w PROVE \E i \in (1 .. k + 1) \cap S : w[j] = s[i]
        <5>1. CASE j = Len(v) + 1
          <6>1. k + 1 \in (1 .. k + 1) \cap S
            BY <2>1, <3>2
          <6> QED
            BY <4>2, <5>1, <6>1
        <5>2. CASE j \in DOMAIN v
          <6>1. PICK i \in (1 .. k) \cap S : v[j] = s[i]
            BY <2>2, <5>2
          <6>2. i \in (1 .. k + 1) \cap S /\ w[j] = v[j]
            BY <2>1, <4>2, <5>2
          <6> QED
            BY <6>1, <6>2
        <5> QED
          BY <4>3, <5>1, <5>2
      <4>5. ASSUME NEW i \in (1 .. k + 1) \cap S PROVE \E j \in DOMAIN w : w[j] = s[i]
        <5>1. CASE i = k + 1
          BY <4>2, <5>1
        <5>2. CASE i \in (1 .. k) \cap S
          BY <2>2, <4>2, <5>2
        <5> QED
          BY <2>1, <5>1, <5>2
      <4> QED
        BY <4>2, <4>4, <4>5
    <3> QED
      BY <3>1, <3>2
  <2> QED
    BY <2>1, <2>4
<1>11. n \in W
  <2>1. \A k \in 0 .. n : k \in W
    <3> HIDE DEF W
    <3> QED
      BY <1>1, <1>9, <1>10, Hasta
  <2> QED
    BY <1>1, <2>1
<1> QED
  BY <1>1, <1>7, <1>11
(* Tasks of the nodes N.                                                   *)
TasksOf(N) == [nodo : N, tmps : Seq(Block)]

LEMMA JoinedIs ==
    ASSUME NEW N, NEW acc \in Seq(TasksOf(N)), NEW e, e.nodo \in N, e.tmps \in Seq(Block)
    PROVE  Joined(acc, e) \in Seq(TasksOf(N))
<1>1. CASE acc # <<>> /\ acc[Len(acc)].nodo = e.nodo
  <2> DEFINE m == Len(acc)
             l == [acc[m] EXCEPT !.tmps = acc[m].tmps \o e.tmps]
  <2>1. m \in DOMAIN acc /\ acc[m] \in TasksOf(N)
    BY <1>1
  <2>2. acc[m].tmps \o e.tmps \in Seq(Block)
    BY <2>1 DEF TasksOf
  <2>3. l \in TasksOf(N)
    BY <2>1, <2>2 DEF TasksOf
  <2>4. Joined(acc, e) = [acc EXCEPT ![m] = l]
    BY <1>1, Zenon DEF Joined
  <2> HIDE DEF l, m
  <2> QED
    BY <2>1, <2>3, <2>4
<1>2. CASE ~(acc # <<>> /\ acc[Len(acc)].nodo = e.nodo)
  <2> DEFINE l == [nodo |-> e.nodo, tmps |-> e.tmps]
  <2>1. l \in TasksOf(N)
    BY DEF TasksOf
  <2>2. Joined(acc, e) = Append(acc, l)
    BY <1>2 DEF Joined
  <2> HIDE DEF l
  <2> QED
    BY <2>1, <2>2
<1> QED
  BY <1>1, <1>2
(* Grouped joins the tasks of a sequence into tasks of the same nodes.     *)
LEMMA GroupedIs ==
    ASSUME NEW N, NEW tasks, Len(tasks) \in Nat, DOMAIN tasks = 1 .. Len(tasks),
           \A k \in DOMAIN tasks : tasks[k].nodo \in N /\ tasks[k].tmps \in Seq(Block)
    PROVE  Grouped(tasks) \in Seq(TasksOf(N))
<1> DEFINE n == Len(tasks)
           V == Seq(TasksOf(N))
           a == <<>>
           next(k, v) == Joined(v, tasks[k])
           paso == [k \in 1 .. n |-> [v \in V |-> next(k, v)]]
           Es(h) == h = [k \in 0 .. n |-> IF k = 0 THEN <<>> ELSE Joined(h[k - 1], tasks[k])]
           f == CHOOSE h : Es(h)
<1>1. n \in Nat
  OBVIOUS
<1>2. \A k \in 1 .. n, v \in V : next(k, v) \in V
  BY JoinedIs
<1>3. a \in V
  BY EmptySeq
<1>4. PICK g : Ecuacion(g, n, V, a, paso)
  <2>1. paso \in [1 .. n -> [V -> V]]
    <3> HIDE DEF n, next, V
    <3> QED
      BY <1>2
  <2> HIDE DEF n, paso, V, a
  <2> QED
    BY <1>1, <1>3, <2>1, RecursivaEs
<1>5. Es(g)
  <2>1. /\ g \in [0 .. n -> V]
        /\ g = [k \in 0 .. n |-> IF k = 0 THEN a ELSE paso[k][g[k - 1]]]
    BY <1>4, Zenon DEF Ecuacion
  <2>2. \A k \in 1 .. n : paso[k][g[k - 1]] = next(k, g[k - 1])
    <3>1. \A k \in 1 .. n : k - 1 \in 0 .. n
      BY <1>1
    <3> HIDE DEF n, next, V
    <3> QED
      BY <2>1, <3>1
  <2>3. \A k \in 0 .. n : k # 0 => k \in 1 .. n
    BY <1>1
  <2>4. g = [k \in 0 .. n |-> IF k = 0 THEN a ELSE next(k, g[k - 1])]
    <3> HIDE DEF n, next, paso, V, a
    <3> QED
      BY <2>1, <2>2, <2>3
  <2> QED
    BY <2>4, Zenon
<1>6. Es(f)
  <2> HIDE DEF Es
  <2> QED
    BY <1>5
<1>7. Grouped(tasks) = f[n]
  BY Zenon DEF Grouped
<1>8. f[0] = a /\ \A k \in 1 .. n : f[k] = next(k, f[k - 1])
  <2>1. f = [k \in 0 .. n |-> IF k = 0 THEN a ELSE next(k, f[k - 1])]
    BY <1>6, Zenon
  <2> HIDE DEF f, next, a, n
  <2> QED
    BY <1>1, <2>1
<1> HIDE DEF f, n, Es, paso
<1>9. \A k \in 0 .. n : f[k] \in V
  <2>1. \A k \in 1 .. n : f[k - 1] \in V => f[k] \in V
    <3> HIDE DEF V, next
    <3> QED
      BY <1>2, <1>8
  <2> HIDE DEF V, a
  <2> QED
    BY <1>1, <1>3, <1>8, <2>1, EnTipo
<1>10. f[n] \in V
  <2> HIDE DEF V
  <2> QED
    BY <1>1, <1>9
<1> QED
  BY <1>7, <1>10

LEMMA InsertedIs ==
    ASSUME NEW E, NEW s \in Seq(E), NEW S \in SUBSET (DOMAIN s), NEW e \in E
    PROVE  InsertAt(s, Cardinality(S) + 1, e) \in Seq(E)
<1> DEFINE c == Cardinality(S)
<1>1. Len(s) \in Nat /\ DOMAIN s = 1 .. Len(s)
  OBVIOUS
<1>2. c \in 0 .. Len(s)
  <2>1. IsFiniteSet(1 .. Len(s)) /\ Cardinality(1 .. Len(s)) = Len(s)
    <3>1. /\ IsFiniteSet(1 .. Len(s))
          /\ Cardinality(1 .. Len(s)) = IF 1 > Len(s) THEN 0 ELSE Len(s) - 1 + 1
      <4>1. 1 \in Int /\ Len(s) \in Int
        BY <1>1
      <4> QED
        BY <4>1, FS_Interval, Zenon
    <3> QED
      BY <1>1, <3>1
  <2>2. IsFiniteSet(S) /\ c <= Cardinality(1 .. Len(s))
    BY <1>1, <2>1, FS_Subset
  <2>3. c \in Nat
    BY <2>2, FS_CardinalityType
  <2> QED
    BY <1>1, <2>1, <2>2, <2>3
<1> HIDE DEF c
<1>3. SubSeq(s, 1, (c + 1) - 1) \in Seq(E) /\ SubSeq(s, c + 1, Len(s)) \in Seq(E)
  BY <1>1, <1>2
<1>4. <<e>> \in Seq(E)
  OBVIOUS
<1>5. InsertAt(s, c + 1, e) = SubSeq(s, 1, (c + 1) - 1) \o <<e>> \o SubSeq(s, c + 1, Len(s))
  BY DEF InsertAt
<1>6. InsertAt(s, c + 1, e) \in Seq(E)
  <2> DEFINE x == SubSeq(s, 1, (c + 1) - 1)
             y == <<e>>
             z == SubSeq(s, c + 1, Len(s))
  <2>1. x \in Seq(E) /\ y \in Seq(E) /\ z \in Seq(E)
    BY <1>3, <1>4
  <2>2. InsertAt(s, c + 1, e) = x \o y \o z
    BY <1>5
  <2> HIDE DEF x, y, z
  <2>3. x \o y \in Seq(E)
    BY <2>1
  <2> DEFINE xy == x \o y
  <2> HIDE DEF xy
  <2>4. xy \in Seq(E)
    BY <2>3 DEF xy
  <2>5. xy \o z \in Seq(E)
    BY <2>1, <2>4
  <2> QED
    BY <2>2, <2>5 DEF xy
<1> QED
  BY <1>6 DEF c

(* Sorting leaves the tasks what they are.                                 *)
LEMMA SortByNodeIs ==
    ASSUME NEW E, NEW tasks \in Seq(E)
    PROVE  SortByNode(tasks) \in Seq(E)
<1> DEFINE n == Len(tasks)
           V == Seq(E)
           a == <<>>
           next(k, v) == LET s == v
                             upTo == {i \in DOMAIN s : s[i].nodo <= tasks[k].nodo}
                         IN  InsertAt(s, Cardinality(upTo) + 1, tasks[k])
           paso == [k \in 1 .. n |-> [v \in V |-> next(k, v)]]
           Es(h) == h = [k \in 0 .. n |-> IF k = 0 THEN <<>> ELSE LET s == h[k - 1]
                               upTo == {i \in DOMAIN s : s[i].nodo <= tasks[k].nodo}
                           IN  InsertAt(s, Cardinality(upTo) + 1, tasks[k])]
           f == CHOOSE h : Es(h)
<1>1. n \in Nat
  OBVIOUS
<1>2. \A k \in 1 .. n, v \in V : next(k, v) \in V
  <2> SUFFICES ASSUME NEW k \in 1 .. n, NEW v \in V PROVE next(k, v) \in V
    OBVIOUS
  <2> DEFINE upTo == {i \in DOMAIN v : v[i].nodo <= tasks[k].nodo}
  <2>1. upTo \in SUBSET (DOMAIN v) /\ tasks[k] \in E
    OBVIOUS
  <2>2. next(k, v) = InsertAt(v, Cardinality(upTo) + 1, tasks[k])
    BY Zenon
  <2> HIDE DEF upTo, next
  <2> QED
    BY <2>1, <2>2, InsertedIs
<1>3. a \in V
  BY EmptySeq
<1>4. PICK g : Ecuacion(g, n, V, a, paso)
  <2>1. paso \in [1 .. n -> [V -> V]]
    <3> HIDE DEF n, next, V
    <3> QED
      BY <1>2
  <2> HIDE DEF n, paso, V, a
  <2> QED
    BY <1>1, <1>3, <2>1, RecursivaEs
<1>5. Es(g)
  <2>1. /\ g \in [0 .. n -> V]
        /\ g = [k \in 0 .. n |-> IF k = 0 THEN a ELSE paso[k][g[k - 1]]]
    BY <1>4, Zenon DEF Ecuacion
  <2>2. \A k \in 1 .. n : paso[k][g[k - 1]] = next(k, g[k - 1])
    <3>1. \A k \in 1 .. n : k - 1 \in 0 .. n
      BY <1>1
    <3> HIDE DEF n, next, V
    <3> QED
      BY <2>1, <3>1
  <2>3. \A k \in 0 .. n : k # 0 => k \in 1 .. n
    BY <1>1
  <2>4. g = [k \in 0 .. n |-> IF k = 0 THEN a ELSE next(k, g[k - 1])]
    <3> HIDE DEF n, next, paso, V, a
    <3> QED
      BY <2>1, <2>2, <2>3
  <2> QED
    BY <2>4, Zenon
<1>6. Es(f)
  <2> HIDE DEF Es
  <2> QED
    BY <1>5
<1>7. SortByNode(tasks) = f[n]
  BY Zenon DEF SortByNode
<1>8. f[0] = a /\ \A k \in 1 .. n : f[k] = next(k, f[k - 1])
  <2>1. f = [k \in 0 .. n |-> IF k = 0 THEN a ELSE next(k, f[k - 1])]
    BY <1>6, Zenon
  <2> HIDE DEF f, next, a, n
  <2> QED
    BY <1>1, <2>1
<1> HIDE DEF f, n, Es, paso
<1>9. \A k \in 0 .. n : f[k] \in V
  <2>1. \A k \in 1 .. n : f[k - 1] \in V => f[k] \in V
    <3> HIDE DEF V, next
    <3> QED
      BY <1>2, <1>8
  <2> HIDE DEF V, a
  <2> QED
    BY <1>1, <1>3, <1>8, <2>1, EnTipo
<1>10. f[n] \in V
  <2> HIDE DEF V
  <2> QED
    BY <1>1, <1>9
<1> QED
  BY <1>7, <1>10
-----------------------------------------------------------------------------
(* The planning of a sequence of blocks.                                   *)

Healthy(t, n) == \E i \in DOMAIN t : t[i].node_id = n /\ t[i].errors = 0

(* What a pass over the blocks that started with table t has made.         *)
PlanOf(t) ==
    {acc \in [nodos : Seq(NodeRow), tasks : Seq(TasksOf(Node)), overflow : BOOLEAN] :
        /\ Table_OK(acc.nodos) /\ SameNodes(t, acc.nodos) /\ SameErrors(t, acc.nodos)
        /\ \A k \in DOMAIN acc.tasks : Healthy(t, acc.tasks[k].nodo)}

(* The next task of the pass.                                              *)
Planned1(acc, g, l) == [acc EXCEPT !.nodos = g, !.tasks = Append(acc.tasks, l)]

LEMMA PlannedOne ==
    ASSUME NEW t, NEW acc \in PlanOf(t), NEW g, Table_OK(g), SameNodes(t, g),
           SameErrors(t, g), NEW l \in TasksOf(Node), Healthy(t, l.nodo)
    PROVE  LET q == Planned1(acc, g, l)
           IN  /\ q \in PlanOf(t) /\ q.tasks = Append(acc.tasks, l)
               /\ q.overflow = acc.overflow
<1> DEFINE s == Append(acc.tasks, l)
           q1 == [acc EXCEPT !.nodos = g]
           q == [q1 EXCEPT !.tasks = s]
<1>1. g \in Seq(NodeRow) /\ acc.tasks \in Seq(TasksOf(Node)) /\ acc.overflow \in BOOLEAN
  BY DEF Table_OK, PlanOf
<1>2. /\ s \in Seq(TasksOf(Node))
      /\ \A k \in DOMAIN s : s[k] = l \/ (k \in DOMAIN acc.tasks /\ s[k] = acc.tasks[k])
  BY <1>1
<1>3. \A k \in DOMAIN s : Healthy(t, s[k].nodo)
  BY <1>2 DEF PlanOf
<1> HIDE DEF s
<1>4. /\ q1.tasks = acc.tasks /\ q1.nodos = g /\ q1.overflow = acc.overflow
      /\ q1 \in [nodos : Seq(NodeRow), tasks : Seq(TasksOf(Node)), overflow : BOOLEAN]
  BY <1>1 DEF PlanOf
<1> HIDE DEF q1
<1>5. /\ q.tasks = s /\ q.nodos = g /\ q.overflow = acc.overflow
      /\ q \in [nodos : Seq(NodeRow), tasks : Seq(TasksOf(Node)), overflow : BOOLEAN]
  BY <1>2, <1>4
<1>6. Planned1(acc, g, l) = q
  BY Zenon DEF Planned1, s, q1
<1> HIDE DEF q
<1>7. q \in PlanOf(t)
  BY <1>3, <1>5 DEF PlanOf
<1> QED
  BY <1>5, <1>6, <1>7, Zenon DEF s

(* PlanBlock plans a task on a healthy node, or gives up for good.         *)
LEMMA PlanBlockIs ==
    ASSUME config \in Configs, NEW t, NEW acc \in PlanOf(t), t # <<>>, Table_OK(t),
           NEW b \in Block
    PROVE  LET q == PlanBlock(acc, b)
           IN  /\ q \in PlanOf(t)
               /\ ~q.overflow => /\ ~acc.overflow
                                 /\ \E n \in Node : q.tasks = Append(acc.tasks,
                                                       [nodo |-> n, tmps |-> <<b>>])
<1> DEFINE p == DoPlanning(acc.nodos, Replicas(b), config.availBase, StackDepth)
           q == PlanBlock(acc, b)
<1>1. /\ Table_OK(acc.nodos) /\ SameNodes(t, acc.nodos) /\ SameErrors(t, acc.nodos)
      /\ acc.overflow \in BOOLEAN
  BY DEF PlanOf
<1>2. acc.nodos # <<>>
  BY <1>1 DEF SameNodes, Table_OK
<1>3. config.availBase \in Int /\ StackDepth \in Nat
  <2>1. config \in [algoritm : Algorithm, availBase : Int]
    BY YamaAssumption
  <2> QED
    BY <2>1, YamaAssumption
<1>4. Planning(acc.nodos, Replicas(b), p)
  BY <1>1, <1>2, <1>3, DoPlanningOK
<1> HIDE DEF p
<1>5. CASE acc.overflow \/ p.found = {}
  <2>1. q = [acc EXCEPT !.overflow = TRUE]
    BY <1>5, Zenon DEF PlanBlock, p
  <2>2. q \in PlanOf(t) /\ q.overflow
    BY <2>1 DEF PlanOf
  <2> QED
    BY <2>2
<1>6. CASE ~(acc.overflow \/ p.found = {})
  <2> DEFINE n == CHOOSE n \in p.found : TRUE
             l == [nodo |-> n, tmps |-> <<b>>]
             g == p.tabla_nodos
  <2>1. PICK i \in DOMAIN acc.nodos : /\ p.found = {acc.nodos[i].node_id}
                                      /\ acc.nodos[i].errors = 0
    BY <1>4, <1>6 DEF Planning
  <2>2. n = acc.nodos[i].node_id
    BY <2>1
  <2>3. n \in Node
    <3>1. acc.nodos[i] \in NodeRow
      BY <1>1 DEF Table_OK
    <3> QED
      BY <2>2, <3>1, RowFields
  <2>4. q = Planned1(acc, g, l)
    BY <1>6, Zenon DEF PlanBlock, p, Planned1
  <2> HIDE DEF n
  <2>5. l \in TasksOf(Node) /\ l.nodo = n
    <3>1. <<b>> \in Seq(Block)
      OBVIOUS
    <3> HIDE DEF l
    <3>2. l = [nodo |-> n, tmps |-> <<b>>]
      BY DEF l
    <3> QED
      BY <2>3, <3>1, <3>2 DEF TasksOf
  <2>6. Healthy(t, n)
    BY <1>1, <2>1, <2>2 DEF Healthy, SameNodes, SameErrors
  <2>7. Table_OK(g) /\ SameNodes(t, g) /\ SameErrors(t, g)
    <3>1. Table_OK(g) /\ SameNodes(acc.nodos, g) /\ SameErrors(acc.nodos, g)
      BY <1>4 DEF Planning
    <3> HIDE DEF g
    <3> QED
      BY <1>1, <3>1, SameTrans
  <2> HIDE DEF g, l, q
  <2>8. q \in PlanOf(t) /\ q.tasks = Append(acc.tasks, l) /\ q.overflow = acc.overflow
    BY <2>4, <2>5, <2>6, <2>7, PlannedOne
  <2>9. q.tasks = Append(acc.tasks, [nodo |-> n, tmps |-> <<b>>])
    BY <2>8 DEF l
  <2>10. ~acc.overflow
    BY <1>6
  <2>11. /\ q \in PlanOf(t)
         /\ ~q.overflow => /\ ~acc.overflow
                           /\ \E x \in Node : q.tasks = Append(acc.tasks,
                                                 [nodo |-> x, tmps |-> <<b>>])
    BY <2>3, <2>8, <2>9, <2>10, Zenon
  <2> QED
    BY <2>11, Zenon DEF q
<1> QED
  BY <1>5, <1>6
(* PlanBlocks that does not overflow plans each of the blocks, in their    *)
(* order, on a healthy node.                                               *)
LEMMA PlanBlocksSome ==
    ASSUME config \in Configs, NEW t, Table_OK(t), t # <<>>, NEW bs \in Seq(Block)
    PROVE  LET q == PlanBlocks(t, bs)
           IN  /\ q \in PlanOf(t)
               /\ ~q.overflow => /\ Len(q.tasks) = Len(bs)
                                 /\ \A k \in DOMAIN bs : q.tasks[k].tmps = <<bs[k]>>
<1> DEFINE n == Len(bs)
           V == PlanOf(t)
           a == [nodos |-> t, tasks |-> <<>>, overflow |-> FALSE]
           next(k, v) == PlanBlock(v, bs[k])
           paso == [k \in 1 .. n |-> [v \in V |-> next(k, v)]]
           Es(h) == h = [k \in 0 .. n |-> IF k = 0 THEN [nodos |-> t, tasks |-> <<>>, overflow |-> FALSE] ELSE PlanBlock(h[k - 1], bs[k])]
           f == CHOOSE h : Es(h)
<1>1. n \in Nat
  OBVIOUS
<1>2. \A k \in 1 .. n, v \in V : next(k, v) \in V
  <2> HIDE DEF V
  <2>1. \A k \in 1 .. n : bs[k] \in Block
    OBVIOUS
  <2> HIDE DEF n
  <2>2. \A k \in 1 .. n, v \in V : PlanBlock(v, bs[k]) \in V
    BY <2>1, PlanBlockIs DEF V
  <2> QED
    BY <2>2
<1>3. a \in V
  <2>1. SameNodes(t, t) /\ SameErrors(t, t) /\ t \in Seq(NodeRow)
    BY DEF SameNodes, SameErrors, Table_OK
  <2>2. <<>> \in Seq(TasksOf(Node)) /\ DOMAIN <<>> = {}
    BY EmptySeq
  <2>3. a \in [nodos : Seq(NodeRow), tasks : Seq(TasksOf(Node)), overflow : BOOLEAN]
    BY <2>1, <2>2
  <2>4. a.nodos = t /\ a.tasks = <<>>
    OBVIOUS
  <2> HIDE DEF a
  <2> QED
    BY <2>1, <2>2, <2>3, <2>4 DEF PlanOf
<1>4. PICK g : Ecuacion(g, n, V, a, paso)
  <2>1. paso \in [1 .. n -> [V -> V]]
    <3> HIDE DEF n, next, V
    <3> QED
      BY <1>2
  <2> HIDE DEF n, paso, V, a
  <2> QED
    BY <1>1, <1>3, <2>1, RecursivaEs
<1>5. Es(g)
  <2>1. /\ g \in [0 .. n -> V]
        /\ g = [k \in 0 .. n |-> IF k = 0 THEN a ELSE paso[k][g[k - 1]]]
    BY <1>4, Zenon DEF Ecuacion
  <2>2. \A k \in 1 .. n : paso[k][g[k - 1]] = next(k, g[k - 1])
    <3>1. \A k \in 1 .. n : k - 1 \in 0 .. n
      BY <1>1
    <3> HIDE DEF n, next, V
    <3> QED
      BY <2>1, <3>1
  <2>3. \A k \in 0 .. n : k # 0 => k \in 1 .. n
    BY <1>1
  <2>4. g = [k \in 0 .. n |-> IF k = 0 THEN a ELSE next(k, g[k - 1])]
    <3> HIDE DEF n, next, paso, V, a
    <3> QED
      BY <2>1, <2>2, <2>3
  <2> QED
    BY <2>4, Zenon
<1>6. Es(f)
  <2> HIDE DEF Es
  <2> QED
    BY <1>5
<1>7. PlanBlocks(t, bs) = f[n]
  BY Zenon DEF PlanBlocks
<1>8. f[0] = a /\ \A k \in 1 .. n : f[k] = next(k, f[k - 1])
  <2>1. f = [k \in 0 .. n |-> IF k = 0 THEN a ELSE next(k, f[k - 1])]
    BY <1>6, Zenon
  <2> HIDE DEF f, next, a, n
  <2> QED
    BY <1>1, <2>1
<1> HIDE DEF f, n, Es, paso
<1>9. \A k \in 0 .. n : f[k] \in V
  <2>1. \A k \in 1 .. n : f[k - 1] \in V => f[k] \in V
    <3> HIDE DEF V, next
    <3> QED
      BY <1>2, <1>8
  <2> HIDE DEF V, a
  <2> QED
    BY <1>1, <1>3, <1>8, <2>1, EnTipo
<1>10. f[n] \in V
  <2> HIDE DEF V
  <2> QED
    BY <1>1, <1>9
<1> DEFINE OK(k, v) == ~v.overflow => /\ Len(v.tasks) = k
                                       /\ \A j \in 1 .. k : v.tasks[j].tmps = <<bs[j]>>
           W == {k \in 0 .. n : OK(k, f[k])}
<1>11. 0 \in W
  <2>1. f[0].tasks = <<>>
    BY <1>8
  <2> HIDE DEF a, f, V, next
  <2> QED
    BY <1>1, <2>1
<1>12. ASSUME NEW k \in 0 .. n - 1, k \in W PROVE k + 1 \in W
  <2> DEFINE v == f[k]
             w == f[k + 1]
  <2>1. /\ k + 1 \in 1 .. n /\ (k + 1) - 1 = k /\ k \in Nat
        /\ \A i \in 1 .. k + 1 : i \in 1 .. k \/ i = k + 1
    BY <1>1, <1>12
  <2>2. OK(k, v) /\ v \in PlanOf(t) /\ bs[k + 1] \in Block
    BY <1>9, <1>12, <2>1 DEF n
  <2>3. w = PlanBlock(v, bs[k + 1])
    BY <1>8, <2>1
  <2> HIDE DEF v, w
  <2>4. ASSUME ~w.overflow PROVE /\ Len(w.tasks) = k + 1
                                 /\ \A j \in 1 .. k + 1 : w.tasks[j].tmps = <<bs[j]>>
    <3>1. /\ ~v.overflow
          /\ \E x \in Node : w.tasks = Append(v.tasks, [nodo |-> x, tmps |-> <<bs[k + 1]>>])
      BY <2>2, <2>3, <2>4, PlanBlockIs
    <3>2. PICK x : w.tasks = Append(v.tasks, [nodo |-> x, tmps |-> <<bs[k + 1]>>])
      BY <3>1
    <3> DEFINE l == [nodo |-> x, tmps |-> <<bs[k + 1]>>]
    <3>3. l.tmps = <<bs[k + 1]>>
      OBVIOUS
    <3>4. v.tasks \in Seq(TasksOf(Node)) /\ Len(v.tasks) = k
      BY <2>2, <3>1 DEF PlanOf
    <3> HIDE DEF l
    <3>5. w.tasks = Append(v.tasks, l)
      BY <3>2 DEF l
    <3>6. Len(w.tasks) = k + 1 /\ w.tasks[k + 1] = l /\ \A j \in 1 .. k : w.tasks[j] = v.tasks[j]
      BY <2>1, <3>4, <3>5
    <3> QED
      BY <2>1, <2>2, <3>1, <3>3, <3>6
  <2>5. OK(k + 1, w)
    BY <2>4
  <2> HIDE DEF OK
  <2> QED
    BY <2>1, <2>5 DEF w
<1>13. n \in W
  <2> HIDE DEF W, V, a
  <2>1. \A k \in 0 .. n : k \in W
    BY <1>1, <1>11, <1>12, Hasta
  <2> QED
    BY <1>1, <2>1
<1>14. DOMAIN bs = 1 .. n /\ Len(bs) = n
  BY DEF n
<1> HIDE DEF a, next
<1> QED
  BY <1>7, <1>10, <1>13, <1>14

(* The same of no blocks.                                                  *)
LEMMA PlanBlocksIs ==
    ASSUME config \in Configs, NEW t, Table_OK(t), NEW bs \in Seq(Block),
           bs # <<>> => t # <<>>, ~PlanBlocks(t, bs).overflow
    PROVE  LET q == PlanBlocks(t, bs)
           IN  /\ Table_OK(q.nodos) /\ SameNodes(t, q.nodos)
               /\ q.tasks \in Seq(TasksOf(Node)) /\ DOMAIN q.tasks = DOMAIN bs
               /\ \A k \in DOMAIN bs : /\ Healthy(t, q.tasks[k].nodo)
                                       /\ q.tasks[k].tmps = <<bs[k]>>
<1> DEFINE q == PlanBlocks(t, bs)
<1>1. CASE t # <<>>
  <2>1. /\ q \in PlanOf(t) /\ Len(q.tasks) = Len(bs)
        /\ \A k \in DOMAIN bs : q.tasks[k].tmps = <<bs[k]>>
    BY <1>1, PlanBlocksSome
  <2> HIDE DEF q
  <2>2. /\ Table_OK(q.nodos) /\ SameNodes(t, q.nodos)
        /\ q.tasks \in Seq(TasksOf(Node)) /\ DOMAIN q.tasks = DOMAIN bs
        /\ \A k \in DOMAIN q.tasks : Healthy(t, q.tasks[k].nodo)
    BY <2>1 DEF PlanOf
  <2> QED
    BY <2>1, <2>2 DEF q
<1>2. CASE bs = <<>>
  <2> DEFINE a == [nodos |-> t, tasks |-> <<>>, overflow |-> FALSE]
             body(h) == [k \in 0 .. Len(bs) |-> IF k = 0 THEN a ELSE PlanBlock(h[k - 1], bs[k])]
             f == CHOOSE h : h = body(h)
  <2>1. Len(bs) = 0 /\ 0 .. 0 = {0} /\ DOMAIN bs = {}
    BY <1>2
  <2>2. [k \in {0} |-> a] = body([k \in {0} |-> a])
    BY <2>1
  <2>3. f = body(f)
    <3> HIDE DEF body
    <3> QED
      BY <2>2
  <2>4. f[0] = a
    BY <2>1, <2>3
  <2>5. q = f[Len(bs)]
    BY Zenon DEF PlanBlocks
  <2> HIDE DEF f, q
  <2>6. q.nodos = t /\ q.tasks = <<>>
    BY <2>1, <2>4, <2>5
  <2>7. <<>> \in Seq(TasksOf(Node)) /\ DOMAIN <<>> = {}
    BY EmptySeq
  <2>8. /\ Table_OK(q.nodos) /\ SameNodes(t, q.nodos)
        /\ q.tasks \in Seq(TasksOf(Node)) /\ DOMAIN q.tasks = DOMAIN bs
    BY <2>1, <2>6, <2>7 DEF SameNodes
  <2> QED
    BY <2>1, <2>8 DEF q
<1> QED
  BY <1>1, <1>2
-----------------------------------------------------------------------------
(* Nodes, files, planned entries and rows that the tables know.            *)

NodesOf(t) == {t[i].node_id : i \in DOMAIN t}

PlannedOn(N) == [job : Nat, master : FDs, nodo : N, tmps : Seq(Block), file : Files]

(* The numbers of the blocks that findBlock finds.                         *)
Findable(archivos) == UNION {DOMAIN Layout[archivos[i]] : i \in DOMAIN archivos}

RowsOver(N, I) ==
    {r \in Row : r.node \in N /\ (r.op = "T" => r.block \in Block /\ r.block[2] \in I)}

LEMMA SameNodesOf ==
    ASSUME NEW t, NEW g, SameNodes(t, g)
    PROVE  NodesOf(g) = NodesOf(t)
BY DEF SameNodes, NodesOf

LEMMA NodesAreNodes ==
    ASSUME NEW t, Table_OK(t)
    PROVE  NodesOf(t) \subseteq Node
BY RowFields DEF NodesOf, Table_OK

LEMMA FirstIs ==
    ASSUME NEW S \in SUBSET Nat, S # {}
    PROVE  First(S) \in S /\ \A j \in S : First(S) <= j
BY MenorNatural DEF First

LEMMA EntryFields ==
    ASSUME NEW N, NEW tabla \in Seq(PlannedOn(N)), NEW k \in DOMAIN tabla
    PROVE  /\ tabla[k] \in PlannedOn(N) /\ tabla[k].nodo \in N
           /\ tabla[k].tmps \in Seq(Block) /\ tabla[k].file \in Files
           /\ tabla[k].job \in Nat /\ tabla[k].master \in FDs
<1>1. tabla[k] \in PlannedOn(N)
  OBVIOUS
<1> QED
  BY <1>1 DEF PlannedOn

(* More nodes or more files leave the entries and the rows what they are.  *)
LEMMA MoreKnown ==
    ASSUME NEW N, NEW M, N \subseteq M, NEW I, NEW J, I \subseteq J
    PROVE  /\ Seq(PlannedOn(N)) \subseteq Seq(PlannedOn(M))
           /\ Seq(RowsOver(N, I)) \subseteq Seq(RowsOver(M, J))
<1>1. PlannedOn(N) \subseteq PlannedOn(M)
  BY DEF PlannedOn
<1>2. RowsOver(N, I) \subseteq RowsOver(M, J)
  BY DEF RowsOver
<1>3. \A A, B : A \subseteq B => Seq(A) \subseteq Seq(B)
  OBVIOUS
<1> QED
  BY <1>1, <1>2, <1>3

(* One node more, at most.                                                 *)
LEMMA JoinAddsNodes ==
    ASSUME NEW t, Table_OK(t), NEW n \in Node, NEW base \in Int
    PROVE  NodesOf(t) \subseteq NodesOf(AddToNodeList(t, n, base))
<1>1. CASE Known(t, n)
  BY <1>1 DEF AddToNodeList
<1>2. CASE ~Known(t, n)
  <2> DEFINE r == NewNode(n, base)
  <2>1. t \in Seq(NodeRow) /\ r \in NodeRow
    BY WordAssumption DEF NewNode, NodeRow, Table_OK
  <2> HIDE DEF r
  <2>2. DOMAIN t \subseteq DOMAIN Append(t, r) /\ \A i \in DOMAIN t : Append(t, r)[i] = t[i]
    BY <2>1
  <2> QED
    BY <1>2, <2>2 DEF AddToNodeList, NodesOf, r
<1> QED
  BY <1>1, <1>2
(* The nodes of a file join the table.                                     *)
LEMMA AddNodesOfIs ==
    ASSUME config \in Configs, Table_OK(tabla_nodos), NEW arch \in Files
    PROVE  LET t == AddNodesOf(arch)
           IN  /\ Table_OK(t) /\ NodesOf(tabla_nodos) \subseteq NodesOf(t)
               /\ Layout[arch] # <<>> => t # <<>>
<1> DEFINE n == Len(Layout[arch])
           V == {t \in Seq(NodeRow) : Table_OK(t) /\ NodesOf(tabla_nodos) \subseteq NodesOf(t)}
           a == tabla_nodos
           next(k, v) == AddToNodeList(AddToNodeList(v, Layout[arch][k][1], config.availBase),
                                      Layout[arch][k][2], config.availBase)
           paso == [k \in 1 .. n |-> [v \in V |-> next(k, v)]]
           Es(h) == h = [k \in 0 .. n |-> IF k = 0 THEN tabla_nodos ELSE AddToNodeList(AddToNodeList(h[k - 1], Layout[arch][k][1], config.availBase),
                                             Layout[arch][k][2], config.availBase)]
           f == CHOOSE h : Es(h)
<1>1. n \in Nat /\ Layout[arch] \in Seq(Node \X Node)
  <2>1. Layout[arch] \in Seq(Node \X Node)
    BY LayoutAssumption
  <2> QED
    BY <2>1
<1>2. \A k \in 1 .. n, v \in V : next(k, v) \in V
  <2> DEFINE base == config.availBase
  <2>1. base \in Int
    <3>1. config \in [algoritm : Algorithm, availBase : Int]
      BY YamaAssumption
    <3> QED
      BY <3>1
  <2>2. Layout[arch] \in Seq(Node \X Node)
    BY LayoutAssumption
  <2> SUFFICES ASSUME NEW k \in 1 .. n, NEW v \in V PROVE next(k, v) \in V
    OBVIOUS
  <2>3. Layout[arch][k][1] \in Node /\ Layout[arch][k][2] \in Node
    BY <2>2
  <2> HIDE DEF base, n
  <2> DEFINE w == AddToNodeList(v, Layout[arch][k][1], base)
             u == AddToNodeList(w, Layout[arch][k][2], base)
  <2>4. Table_OK(w) /\ NodesOf(v) \subseteq NodesOf(w)
    BY <2>1, <2>3, JoinKeepsTable, JoinAddsNodes
  <2> HIDE DEF w
  <2>5. Table_OK(u) /\ NodesOf(w) \subseteq NodesOf(u)
    BY <2>1, <2>3, <2>4, JoinKeepsTable, JoinAddsNodes
  <2> HIDE DEF u
  <2>6. u \in Seq(NodeRow) /\ NodesOf(tabla_nodos) \subseteq NodesOf(u)
    BY <2>4, <2>5 DEF Table_OK
  <2>7. next(k, v) = u
    BY Zenon DEF u, w, base
  <2> HIDE DEF next
  <2> QED
    BY <2>5, <2>6, <2>7
<1>3. a \in V
  BY DEF Table_OK
<1>4. PICK g : Ecuacion(g, n, V, a, paso)
  <2>1. paso \in [1 .. n -> [V -> V]]
    <3> HIDE DEF n, next, V
    <3> QED
      BY <1>2
  <2> HIDE DEF n, paso, V, a
  <2> QED
    BY <1>1, <1>3, <2>1, RecursivaEs
<1>5. Es(g)
  <2>1. /\ g \in [0 .. n -> V]
        /\ g = [k \in 0 .. n |-> IF k = 0 THEN a ELSE paso[k][g[k - 1]]]
    BY <1>4, Zenon DEF Ecuacion
  <2>2. \A k \in 1 .. n : paso[k][g[k - 1]] = next(k, g[k - 1])
    <3>1. \A k \in 1 .. n : k - 1 \in 0 .. n
      BY <1>1
    <3> HIDE DEF n, next, V
    <3> QED
      BY <2>1, <3>1
  <2>3. \A k \in 0 .. n : k # 0 => k \in 1 .. n
    BY <1>1
  <2>4. g = [k \in 0 .. n |-> IF k = 0 THEN a ELSE next(k, g[k - 1])]
    <3> HIDE DEF n, next, paso, V, a
    <3> QED
      BY <2>1, <2>2, <2>3
  <2> QED
    BY <2>4, Zenon
<1>6. Es(f)
  <2> HIDE DEF Es
  <2> QED
    BY <1>5
<1>7. AddNodesOf(arch) = f[n]
  BY Zenon DEF AddNodesOf
<1>8. f[0] = a /\ \A k \in 1 .. n : f[k] = next(k, f[k - 1])
  <2>1. f = [k \in 0 .. n |-> IF k = 0 THEN a ELSE next(k, f[k - 1])]
    BY <1>6, Zenon
  <2> HIDE DEF f, next, a, n
  <2> QED
    BY <1>1, <2>1
<1> HIDE DEF f, n, Es, paso
<1>9. \A k \in 0 .. n : f[k] \in V
  <2>1. \A k \in 1 .. n : f[k - 1] \in V => f[k] \in V
    <3> HIDE DEF V, next
    <3> QED
      BY <1>2, <1>8
  <2> HIDE DEF V, a
  <2> QED
    BY <1>1, <1>3, <1>8, <2>1, EnTipo
<1>10. f[n] \in V
  <2> HIDE DEF V
  <2> QED
    BY <1>1, <1>9
<1>11. ASSUME Layout[arch] # <<>> PROVE f[n] # <<>>
  <2>1. n \in 1 .. n /\ n - 1 \in 0 .. n
    BY <1>1, <1>11 DEF n
  <2>2. f[n] = next(n, f[n - 1]) /\ f[n - 1] \in V
    BY <1>8, <1>9, <2>1
  <2> DEFINE v == f[n - 1]
             base == config.availBase
             w == AddToNodeList(v, Layout[arch][n][1], base)
  <2>3. base \in Int
    <3>1. config \in [algoritm : Algorithm, availBase : Int]
      BY YamaAssumption
    <3> QED
      BY <3>1
  <2>4. Layout[arch][n][1] \in Node /\ Layout[arch][n][2] \in Node
    BY <1>1, <2>1 DEF n
  <2>5. Table_OK(v)
    BY <2>2
  <2> HIDE DEF v, base
  <2>6. Table_OK(w)
    BY <2>3, <2>4, <2>5, JoinKeepsTable
  <2> HIDE DEF w
  <2>7. AddToNodeList(w, Layout[arch][n][2], base) # <<>>
    BY <2>3, <2>4, <2>6, JoinKeepsTable
  <2>8. f[n] = AddToNodeList(w, Layout[arch][n][2], base)
    BY <2>2, Zenon DEF w, v, base
  <2> QED
    BY <2>7, <2>8
<1> QED
  BY <1>7, <1>10, <1>11
(* The temporaries of several tasks.                                       *)
LEMMA AllTmpsIs ==
    ASSUME NEW N, NEW planed \in Seq(PlannedOn(N))
    PROVE  AllTmps(planed) \in Seq(Block)
<1> DEFINE n == Len(planed)
           V == Seq(Block)
           a == <<>>
           next(k, v) == v \o planed[k].tmps
           paso == [k \in 1 .. n |-> [v \in V |-> next(k, v)]]
           Es(h) == h = [k \in 0 .. n |-> IF k = 0 THEN <<>> ELSE h[k - 1] \o planed[k].tmps]
           f == CHOOSE h : Es(h)
<1>1. n \in Nat
  OBVIOUS
<1>2. \A k \in 1 .. n, v \in V : next(k, v) \in V
  <2>1. \A k \in 1 .. n : planed[k].tmps \in Seq(Block)
    BY EntryFields
  <2> HIDE DEF n
  <2> QED
    BY <2>1
<1>3. a \in V
  BY EmptySeq
<1>4. PICK g : Ecuacion(g, n, V, a, paso)
  <2>1. paso \in [1 .. n -> [V -> V]]
    <3> HIDE DEF n, next, V
    <3> QED
      BY <1>2
  <2> HIDE DEF n, paso, V, a
  <2> QED
    BY <1>1, <1>3, <2>1, RecursivaEs
<1>5. Es(g)
  <2>1. /\ g \in [0 .. n -> V]
        /\ g = [k \in 0 .. n |-> IF k = 0 THEN a ELSE paso[k][g[k - 1]]]
    BY <1>4, Zenon DEF Ecuacion
  <2>2. \A k \in 1 .. n : paso[k][g[k - 1]] = next(k, g[k - 1])
    <3>1. \A k \in 1 .. n : k - 1 \in 0 .. n
      BY <1>1
    <3> HIDE DEF n, next, V
    <3> QED
      BY <2>1, <3>1
  <2>3. \A k \in 0 .. n : k # 0 => k \in 1 .. n
    BY <1>1
  <2>4. g = [k \in 0 .. n |-> IF k = 0 THEN a ELSE next(k, g[k - 1])]
    <3> HIDE DEF n, next, paso, V, a
    <3> QED
      BY <2>1, <2>2, <2>3
  <2> QED
    BY <2>4, Zenon
<1>6. Es(f)
  <2> HIDE DEF Es
  <2> QED
    BY <1>5
<1>7. AllTmps(planed) = f[n]
  BY Zenon DEF AllTmps
<1>8. f[0] = a /\ \A k \in 1 .. n : f[k] = next(k, f[k - 1])
  <2>1. f = [k \in 0 .. n |-> IF k = 0 THEN a ELSE next(k, f[k - 1])]
    BY <1>6, Zenon
  <2> HIDE DEF f, next, a, n
  <2> QED
    BY <1>1, <2>1
<1> HIDE DEF f, n, Es, paso
<1>9. \A k \in 0 .. n : f[k] \in V
  <2>1. \A k \in 1 .. n : f[k - 1] \in V => f[k] \in V
    <3> HIDE DEF V, next
    <3> QED
      BY <1>2, <1>8
  <2> HIDE DEF V, a
  <2> QED
    BY <1>1, <1>3, <1>8, <2>1, EnTipo
<1>10. f[n] \in V
  <2> HIDE DEF V
  <2> QED
    BY <1>1, <1>9
<1> QED
  BY <1>7, <1>10

(* A node with the least tasks in progress exists.                         *)
LEMMA LastChargedIs ==
    ASSUME Table_OK(tabla_nodos), NEW planed \in Seq(PlannedOn(NodesOf(tabla_nodos))),
           planed # <<>>
    PROVE  GetLastChargedNode(planed) \in NodesOf(tabla_nodos)
<1> DEFINE load(k) == tabla_nodos[FindNode(tabla_nodos, planed[k].nodo)].tasks_in_progress
           L == {load(k) : k \in DOMAIN planed}
           S == {i \in DOMAIN planed : \A j \in DOMAIN planed : load(i) <= load(j)}
<1>1. \A k \in DOMAIN planed : load(k) \in Nat /\ planed[k].nodo \in NodesOf(tabla_nodos)
  <2> SUFFICES ASSUME NEW k \in DOMAIN planed
               PROVE  load(k) \in Nat /\ planed[k].nodo \in NodesOf(tabla_nodos)
    OBVIOUS
  <2>1. planed[k].nodo \in NodesOf(tabla_nodos)
    BY EntryFields
  <2>2. PICK i \in DOMAIN tabla_nodos : tabla_nodos[i].node_id = planed[k].nodo
    BY <2>1 DEF NodesOf
  <2>3. FindNode(tabla_nodos, planed[k].nodo) = i
    BY <2>2, FindNodeFindsRow
  <2>4. tabla_nodos[i].tasks_in_progress \in 0 .. WordSize - 1
    BY RowFields DEF Table_OK
  <2> QED
    BY <2>1, <2>3, <2>4, WordAssumption
<1>2. DOMAIN planed # {} /\ DOMAIN planed \subseteq Nat
  OBVIOUS
<1>3. S # {}
  <2> HIDE DEF load
  <2>1. L \subseteq Nat /\ L # {}
    BY <1>1, <1>2
  <2>2. PICK m \in L : \A x \in L : m <= x
    BY <2>1, MenorNatural
  <2> QED
    BY <2>2
<1>4. First(S) \in S
  <2>1. S \in SUBSET Nat
    BY <1>2
  <2> HIDE DEF S
  <2> QED
    BY <1>3, <2>1, FirstIs
<1>5. planed[First(S)].nodo \in NodesOf(tabla_nodos)
  <2> HIDE DEF load
  <2> QED
    BY <1>1, <1>4
<1>6. GetLastChargedNode(planed) = planed[First(S)].nodo
  BY Zenon DEF GetLastChargedNode
<1> QED
  BY <1>5, <1>6
(* A new row.                                                              *)
LEMMA NewRowIs ==
    ASSUME NEW N \in SUBSET Node, NEW I, NEW job \in Nat, NEW fd \in FDs, NEW n \in N,
           NEW b \in Block \cup {<<>>}, NEW op \in Stage, NEW arch \in Files,
           op = "T" => b \in Block /\ b[2] \in I
    PROVE  LET r == NewRow(job, fd, n, b, op, arch)
           IN  /\ r \in RowsOver(N, I) /\ r.job = job /\ r.master = fd /\ r.node = n
               /\ r.block = b /\ r.op = op /\ r.status = "P" /\ r.file = arch
<1> DEFINE r == NewRow(job, fd, n, b, op, arch)
<1>1. /\ r.job = job /\ r.master = fd /\ r.node = n
      /\ r.block = b /\ r.op = op /\ r.status = "P" /\ r.file = arch
  BY DEF NewRow
<1>2. r \in Row
  BY DEF NewRow, Row
<1> HIDE DEF r
<1>3. r \in RowsOver(N, I)
  BY <1>1, <1>2, Zenon DEF RowsOver
<1> QED
  BY <1>1, <1>3 DEF r

LEMMA NewEntryIs ==
    ASSUME NEW N, NEW job \in Nat, NEW fd \in FDs, NEW n \in N,
           NEW tmps \in Seq(Block), NEW arch \in Files
    PROVE  [job |-> job, master |-> fd, nodo |-> n, tmps |-> tmps, file |-> arch]
             \in PlannedOn(N)
BY DEF PlannedOn

(* w is the table s with more rows of the stage op of the job.             *)
More(s, w, job, fd, op) ==
    /\ DOMAIN s \subseteq DOMAIN w
    /\ \A i \in DOMAIN s : w[i] = s[i]
    /\ \A i \in DOMAIN w :
          i \in DOMAIN s \/ (/\ w[i].job = job /\ w[i].master = fd
                             /\ w[i].op = op /\ w[i].status = "P")

LEMMA OneMore ==
    ASSUME NEW R, NEW s, NEW w \in Seq(R), NEW job, NEW fd, NEW op,
           More(s, w, job, fd, op), NEW r \in R,
           r.job = job, r.master = fd, r.op = op, r.status = "P"
    PROVE  Append(w, r) \in Seq(R) /\ More(s, Append(w, r), job, fd, op)
<1>1. /\ Append(w, r) \in Seq(R) /\ DOMAIN Append(w, r) = 1 .. Len(w) + 1
      /\ DOMAIN w = 1 .. Len(w) /\ Len(w) \in Nat
      /\ \A i \in DOMAIN w : Append(w, r)[i] = w[i]
      /\ Append(w, r)[Len(w) + 1] = r
  OBVIOUS
<1>2. \A i \in DOMAIN Append(w, r) : i \in DOMAIN w \/ i = Len(w) + 1
  BY <1>1
<1> QED
  BY <1>1, <1>2 DEF More

(* What the pass over the runs of a local reduction keeps.                 *)
LocalPlans(job, fd) ==
    {acc \in [nodos : Seq(NodeRow),
              estados : Seq(RowsOver(NodesOf(tabla_nodos), Findable(tabla_info_archivos))),
              lr : Seq(PlannedOn(NodesOf(tabla_nodos)))] :
        /\ Table_OK(acc.nodos) /\ SameNodes(tabla_nodos, acc.nodos)
        /\ More(tabla_estados, acc.estados, job, fd, "L")}

LEMMA LocalReductionIs ==
    ASSUME Table_OK(tabla_nodos), NEW job \in Nat, NEW fd \in FDs, NEW arch \in Files,
           NEW acc \in LocalPlans(job, fd), NEW r \in TasksOf(NodesOf(tabla_nodos))
    PROVE  PlanLocalReduction(acc, r, job, fd, arch) \in LocalPlans(job, fd)
<1> DEFINE N == NodesOf(tabla_nodos)
           I == Findable(tabla_info_archivos)
           g == IncreaseNodeCharge(acc.nodos, r.nodo)
           row == NewRow(job, fd, r.nodo, <<>>, "L", arch)
           e == [job |-> job, master |-> fd, nodo |-> r.nodo, tmps |-> r.tmps, file |-> arch]
           w == Append(acc.estados, row)
           lr == Append(acc.lr, e)
           q == [nodos |-> g, estados |-> w, lr |-> lr]
<1>1. PlanLocalReduction(acc, r, job, fd, arch) = acc
        \/ PlanLocalReduction(acc, r, job, fd, arch) = q
  BY Zenon DEF PlanLocalReduction
<1>2. /\ Table_OK(acc.nodos) /\ SameNodes(tabla_nodos, acc.nodos)
      /\ More(tabla_estados, acc.estados, job, fd, "L")
      /\ acc.estados \in Seq(RowsOver(N, I)) /\ acc.lr \in Seq(PlannedOn(N))
  BY DEF LocalPlans
<1>3. r.nodo \in N /\ r.tmps \in Seq(Block) /\ N \in SUBSET Node
  BY NodesAreNodes DEF TasksOf
<1>4. Table_OK(g) /\ SameNodes(tabla_nodos, g)
  <2>1. Table_OK(g) /\ SameNodes(acc.nodos, g)
    BY <1>2, <1>3, HandlersKeepTable
  <2> QED
    BY <1>2, <2>1 DEF SameNodes
<1>5. /\ row \in RowsOver(N, I) /\ row.job = job /\ row.master = fd
      /\ row.op = "L" /\ row.status = "P"
  <2>1. <<>> \in Block \cup {<<>>} /\ "L" \in Stage /\ "L" # "T"
    BY DEF Stage
  <2> DEFINE b == <<>>
  <2>2. b \in Block \cup {<<>>} /\ row = NewRow(job, fd, r.nodo, b, "L", arch)
    OBVIOUS
  <2> HIDE DEF b, row, N, I
  <2> DEFINE z == NewRow(job, fd, r.nodo, b, "L", arch)
  <2>3. /\ z \in RowsOver(N, I) /\ z.job = job /\ z.master = fd
        /\ z.op = "L" /\ z.status = "P"
    <3>1. /\ N \in SUBSET Node /\ r.nodo \in N /\ b \in Block \cup {<<>>} /\ "L" \in Stage
          /\ ("L" = "T" => b \in Block /\ b[2] \in I)
      BY <1>3, <2>1, <2>2
    <3> HIDE DEF z
    <3> QED
      BY <3>1, NewRowIs DEF z
  <2> QED
    BY <2>2, <2>3
<1>6. w \in Seq(RowsOver(N, I)) /\ More(tabla_estados, w, job, fd, "L")
  <2> HIDE DEF row, N, I
  <2> QED
    BY <1>2, <1>5, OneMore
<1>7. lr \in Seq(PlannedOn(N))
  <2>1. e \in PlannedOn(N)
    BY <1>3, NewEntryIs
  <2> HIDE DEF e, N
  <2> QED
    BY <1>2, <2>1
<1>8. q \in LocalPlans(job, fd)
  <2> HIDE DEF g, w, lr
  <2>1. g \in Seq(NodeRow)
    BY <1>4 DEF Table_OK
  <2>2. /\ q.nodos = g /\ q.estados = w /\ q.lr = lr
        /\ q \in [nodos : Seq(NodeRow), estados : Seq(RowsOver(N, I)), lr : Seq(PlannedOn(N))]
    <3> HIDE DEF N, I
    <3> QED
      BY <1>6, <1>7, <2>1
  <2> HIDE DEF q
  <2> QED
    BY <1>4, <1>6, <2>2 DEF LocalPlans
<1> QED
  BY <1>1, <1>8
LEMMA LocalReductionsAre ==
    ASSUME Table_OK(tabla_nodos), NEW job \in Nat, NEW fd \in FDs,
           tabla_estados \in Seq(RowsOver(NodesOf(tabla_nodos), Findable(tabla_info_archivos))),
           tabla_LR_planificados \in Seq(PlannedOn(NodesOf(tabla_nodos))),
           NEW runs \in Seq(TasksOf(NodesOf(tabla_nodos))),
           NEW arch, runs # <<>> => arch \in Files
    PROVE  PlanLocalReductions(runs, job, fd, arch) \in LocalPlans(job, fd)
<1> DEFINE n == Len(runs)
           V == LocalPlans(job, fd)
           a == [nodos |-> tabla_nodos, estados |-> tabla_estados,
                 lr |-> tabla_LR_planificados]
           next(k, v) == PlanLocalReduction(v, runs[k], job, fd, arch)
           paso == [k \in 1 .. n |-> [v \in V |-> next(k, v)]]
           Es(h) == h = [k \in 0 .. n |-> IF k = 0 THEN [nodos |-> tabla_nodos, estados |-> tabla_estados,
                 lr |-> tabla_LR_planificados] ELSE PlanLocalReduction(h[k - 1], runs[k], job, fd, arch)]
           f == CHOOSE h : Es(h)
<1>1. n \in Nat
  OBVIOUS
<1>2. \A k \in 1 .. n, v \in V : next(k, v) \in V
  <2> SUFFICES ASSUME NEW k \in 1 .. n, NEW v \in V PROVE next(k, v) \in V
    OBVIOUS
  <2>1. runs[k] \in TasksOf(NodesOf(tabla_nodos)) /\ runs # <<>>
    OBVIOUS
  <2>2. arch \in Files
    BY <2>1
  <2> HIDE DEF n
  <2> QED
    BY <2>1, <2>2, LocalReductionIs
<1>3. a \in V
  <2>1. /\ SameNodes(tabla_nodos, tabla_nodos) /\ tabla_nodos \in Seq(NodeRow)
        /\ More(tabla_estados, tabla_estados, job, fd, "L")
    BY DEF SameNodes, Table_OK, More
  <2> QED
    BY <2>1 DEF LocalPlans
<1>4. PICK g : Ecuacion(g, n, V, a, paso)
  <2>1. paso \in [1 .. n -> [V -> V]]
    <3> HIDE DEF n, next, V
    <3> QED
      BY <1>2
  <2> HIDE DEF n, paso, V, a
  <2> QED
    BY <1>1, <1>3, <2>1, RecursivaEs
<1>5. Es(g)
  <2>1. /\ g \in [0 .. n -> V]
        /\ g = [k \in 0 .. n |-> IF k = 0 THEN a ELSE paso[k][g[k - 1]]]
    BY <1>4, Zenon DEF Ecuacion
  <2>2. \A k \in 1 .. n : paso[k][g[k - 1]] = next(k, g[k - 1])
    <3>1. \A k \in 1 .. n : k - 1 \in 0 .. n
      BY <1>1
    <3> HIDE DEF n, next, V
    <3> QED
      BY <2>1, <3>1
  <2>3. \A k \in 0 .. n : k # 0 => k \in 1 .. n
    BY <1>1
  <2>4. g = [k \in 0 .. n |-> IF k = 0 THEN a ELSE next(k, g[k - 1])]
    <3> HIDE DEF n, next, paso, V, a
    <3> QED
      BY <2>1, <2>2, <2>3
  <2> QED
    BY <2>4, Zenon
<1>6. Es(f)
  <2> HIDE DEF Es
  <2> QED
    BY <1>5
<1>7. PlanLocalReductions(runs, job, fd, arch) = f[n]
  BY Zenon DEF PlanLocalReductions
<1>8. f[0] = a /\ \A k \in 1 .. n : f[k] = next(k, f[k - 1])
  <2>1. f = [k \in 0 .. n |-> IF k = 0 THEN a ELSE next(k, f[k - 1])]
    BY <1>6, Zenon
  <2> HIDE DEF f, next, a, n
  <2> QED
    BY <1>1, <2>1
<1> HIDE DEF f, n, Es, paso
<1>9. \A k \in 0 .. n : f[k] \in V
  <2>1. \A k \in 1 .. n : f[k - 1] \in V => f[k] \in V
    <3> HIDE DEF V, next
    <3> QED
      BY <1>2, <1>8
  <2> HIDE DEF V, a
  <2> QED
    BY <1>1, <1>3, <1>8, <2>1, EnTipo
<1>10. f[n] \in V
  <2> HIDE DEF V
  <2> QED
    BY <1>1, <1>9
<1> QED
  BY <1>7, <1>10
-----------------------------------------------------------------------------
(* The inductive invariant of the types: the rows and the planned entries  *)
(* name nodes of the node table, and the transformations blocks of files   *)
(* whose block lists were received.                                        *)

KnownNodes == NodesOf(tabla_nodos)
KnownBlocks == Findable(tabla_info_archivos)

Tables ==
    /\ Table_OK(tabla_nodos)
    /\ tabla_jobs \in Seq(Job)
    /\ tabla_estados \in Seq(RowsOver(KnownNodes, KnownBlocks))
    /\ tabla_info_archivos \in Seq(Files)
    /\ tabla_T_planificados \in Seq(PlannedOn(KnownNodes))
    /\ tabla_LR_planificados \in Seq(PlannedOn(KnownNodes))
    /\ tabla_GR_planificados \in Seq(PlannedOn(KnownNodes))
    /\ jobs \in Nat
    /\ config \in Configs
    /\ conectados \in SUBSET FDs
    /\ vivo \in {"up", "crash", "ub"}

TypeInv == Tables /\ SocketsOK /\ MasterOK

LEMMA TypeInvIsType == TypeInv => TypeOK
<1> SUFFICES ASSUME TypeInv PROVE YamaOK
  BY DEF TypeInv, TypeOK
<1>1. KnownNodes \subseteq Node
  BY NodesAreNodes DEF KnownNodes, TypeInv, Tables
<1>2. PlannedOn(KnownNodes) \subseteq Planned
  BY <1>1 DEF PlannedOn, Planned
<1>3. RowsOver(KnownNodes, KnownBlocks) \subseteq Row
  BY DEF RowsOver
<1>4. \A A, B : A \subseteq B => Seq(A) \subseteq Seq(B)
  OBVIOUS
<1>5. /\ Seq(PlannedOn(KnownNodes)) \subseteq Seq(Planned)
      /\ Seq(RowsOver(KnownNodes, KnownBlocks)) \subseteq Seq(Row)
  BY <1>2, <1>3, <1>4
<1>6. tabla_nodos \in Seq(NodeRow)
  BY DEF TypeInv, Tables, Table_OK
<1> QED
  BY <1>5, <1>6 DEF TypeInv, Tables, YamaOK

(* The tables of jobs and rows.                                            *)
LEMMA JobOfIs ==
    ASSUME tabla_jobs \in Seq(Job), NEW fd, NEW etapa, HasJob(fd, etapa)
    PROVE  /\ GetJobIndex(fd, etapa) \in DOMAIN tabla_jobs
           /\ JobOf(fd, etapa) = tabla_jobs[GetJobIndex(fd, etapa)]
           /\ JobOf(fd, etapa) \in Job /\ JobOf(fd, etapa).master = fd
           /\ JobOf(fd, etapa).etapa = etapa /\ JobOf(fd, etapa).estado = "P"
           /\ JobOf(fd, etapa).id \in Nat
<1>1. JobIndexes(fd, etapa) \in SUBSET Nat /\ JobIndexes(fd, etapa) # {}
  BY DEF HasJob, JobIndexes
<1>2. GetJobIndex(fd, etapa) \in JobIndexes(fd, etapa)
  BY <1>1, FirstIs DEF GetJobIndex
<1>3. /\ JobOf(fd, etapa) = tabla_jobs[GetJobIndex(fd, etapa)]
      /\ GetJobIndex(fd, etapa) \in DOMAIN tabla_jobs
      /\ JobOf(fd, etapa).master = fd
      /\ JobOf(fd, etapa).etapa = etapa /\ JobOf(fd, etapa).estado = "P"
  BY <1>2 DEF JobOf, JobIndexes
<1>4. JobOf(fd, etapa) \in Job
  BY <1>3
<1> QED
  BY <1>3, <1>4 DEF Job

LEMMA SetJobIs ==
    ASSUME tabla_jobs \in Seq(Job), NEW fd, NEW etapa, HasJob(fd, etapa), NEW j \in Job,
           SetJob(fd, etapa, j)
    PROVE  LET i == GetJobIndex(fd, etapa)
           IN  /\ tabla_jobs' \in Seq(Job) /\ DOMAIN tabla_jobs' = DOMAIN tabla_jobs
               /\ i \in DOMAIN tabla_jobs /\ tabla_jobs'[i] = j
               /\ \A k \in DOMAIN tabla_jobs : k # i => tabla_jobs'[k] = tabla_jobs[k]
<1>1. GetJobIndex(fd, etapa) \in DOMAIN tabla_jobs
  BY JobOfIs
<1> QED
  BY <1>1 DEF SetJob

LEMMA JobRewritten ==
    ASSUME NEW j \in Job
    PROVE  /\ \A e \in Stage : /\ [j EXCEPT !.etapa = e] \in Job
                               /\ [j EXCEPT !.etapa = e].etapa = e
                               /\ [j EXCEPT !.etapa = e].id = j.id
                               /\ [j EXCEPT !.etapa = e].master = j.master
                               /\ [j EXCEPT !.etapa = e].estado = j.estado
                               /\ [j EXCEPT !.etapa = e].replanificaciones = j.replanificaciones
           /\ \A e \in {"P", "F", "E"} :
                 /\ [j EXCEPT !.estado = e] \in Job
                 /\ [j EXCEPT !.estado = e].estado = e
                 /\ [j EXCEPT !.estado = e].id = j.id
                 /\ [j EXCEPT !.estado = e].master = j.master
                 /\ [j EXCEPT !.estado = e].etapa = j.etapa
                 /\ [j EXCEPT !.estado = e].replanificaciones = j.replanificaciones
           /\ \A r \in 0 .. 2 :
                 /\ [j EXCEPT !.replanificaciones = r] \in Job
                 /\ [j EXCEPT !.replanificaciones = r].replanificaciones = r
                 /\ [j EXCEPT !.replanificaciones = r].id = j.id
                 /\ [j EXCEPT !.replanificaciones = r].master = j.master
                 /\ [j EXCEPT !.replanificaciones = r].etapa = j.etapa
                 /\ [j EXCEPT !.replanificaciones = r].estado = j.estado
BY DEF Job

LEMMA MarkedIs ==
    ASSUME NEW N, NEW I, tabla_estados \in Seq(RowsOver(N, I)), NEW ix,
           NEW status \in {"P", "F", "E"}
    PROVE  LET w == Marked(ix, status)
           IN  /\ w \in Seq(RowsOver(N, I)) /\ DOMAIN w = DOMAIN tabla_estados
               /\ \A i \in DOMAIN w :
                     /\ w[i].job = tabla_estados[i].job /\ w[i].master = tabla_estados[i].master
                     /\ w[i].op = tabla_estados[i].op /\ w[i].block = tabla_estados[i].block
                     /\ w[i].node = tabla_estados[i].node
                     /\ w[i].status = IF i \in ix THEN status ELSE tabla_estados[i].status
<1> DEFINE w == Marked(ix, status)
<1>1. DOMAIN tabla_estados = 1 .. Len(tabla_estados) /\ Len(tabla_estados) \in Nat
  OBVIOUS
<1>2. ASSUME NEW r \in RowsOver(N, I)
      PROVE  LET q == [r EXCEPT !.status = status]
             IN  /\ q \in RowsOver(N, I) /\ q.job = r.job /\ q.master = r.master
                 /\ q.op = r.op /\ q.block = r.block /\ q.node = r.node /\ q.status = status
  <2> DEFINE q == [r EXCEPT !.status = status]
  <2>1. r \in Row /\ r.node \in N /\ (r.op = "T" => r.block \in Block /\ r.block[2] \in I)
    BY DEF RowsOver
  <2>2. /\ q \in Row /\ q.job = r.job /\ q.master = r.master
        /\ q.op = r.op /\ q.block = r.block /\ q.node = r.node /\ q.status = status
    BY <2>1 DEF Row
  <2> HIDE DEF q
  <2>3. q \in RowsOver(N, I)
    BY <2>1, <2>2, Zenon DEF RowsOver
  <2> QED
    BY <2>2, <2>3 DEF q
<1>3. /\ DOMAIN w = DOMAIN tabla_estados
      /\ \A i \in DOMAIN tabla_estados :
            w[i] = IF i \in ix THEN [tabla_estados[i] EXCEPT !.status = status]
                               ELSE tabla_estados[i]
  BY DEF Marked
<1>4. ASSUME NEW i \in DOMAIN tabla_estados
      PROVE  /\ w[i] \in RowsOver(N, I)
             /\ w[i].job = tabla_estados[i].job /\ w[i].master = tabla_estados[i].master
             /\ w[i].op = tabla_estados[i].op /\ w[i].block = tabla_estados[i].block
             /\ w[i].node = tabla_estados[i].node
             /\ w[i].status = IF i \in ix THEN status ELSE tabla_estados[i].status
  <2>1. tabla_estados[i] \in RowsOver(N, I)
    OBVIOUS
  <2> HIDE DEF w
  <2>2. CASE i \in ix
    <3> DEFINE q == [tabla_estados[i] EXCEPT !.status = status]
    <3>1. w[i] = q
      BY <1>3, <2>2
    <3>2. /\ q \in RowsOver(N, I) /\ q.job = tabla_estados[i].job
          /\ q.master = tabla_estados[i].master /\ q.op = tabla_estados[i].op
          /\ q.block = tabla_estados[i].block /\ q.node = tabla_estados[i].node
          /\ q.status = status
      BY <1>2, <2>1
    <3> HIDE DEF q
    <3> QED
      BY <2>2, <3>1, <3>2
  <2>3. CASE i \notin ix
    BY <1>3, <2>1, <2>3
  <2> QED
    BY <2>2, <2>3
<1>5. w \in Seq(RowsOver(N, I))
  <2>1. w = [i \in 1 .. Len(tabla_estados) |-> w[i]]
    BY <1>1 DEF Marked
  <2> HIDE DEF w
  <2>2. w \in [1 .. Len(tabla_estados) -> RowsOver(N, I)]
    BY <1>1, <1>4, <2>1
  <2> QED
    BY <1>1, <2>2
<1> HIDE DEF w
<1>6. \A i \in DOMAIN w :
         /\ w[i].job = tabla_estados[i].job /\ w[i].master = tabla_estados[i].master
         /\ w[i].op = tabla_estados[i].op /\ w[i].block = tabla_estados[i].block
         /\ w[i].node = tabla_estados[i].node
         /\ w[i].status = IF i \in ix THEN status ELSE tabla_estados[i].status
  BY <1>3, <1>4
<1> QED
  BY <1>3, <1>5, <1>6 DEF w
(* What the rows of planned tasks say.                                     *)
LEMMA RowsShape ==
    ASSUME NEW job, NEW fd, NEW arch, NEW tasks
    PROVE  LET w == TransformationRows(tasks, job, fd, arch)
           IN  /\ DOMAIN w = DOMAIN tasks
               /\ \A k \in DOMAIN tasks :
                     /\ w[k].job = job /\ w[k].master = fd /\ w[k].op = "T"
                     /\ w[k].status = "P" /\ w[k].node = tasks[k].nodo
                     /\ w[k].block = tasks[k].tmps[1]
BY DEF TransformationRows, NewRow

(* The rows and the entries of a planning.                                 *)
LEMMA RowsOfTasks ==
    ASSUME NEW N \in SUBSET Node, NEW I, NEW job \in Nat, NEW fd \in FDs, NEW arch,
           NEW tasks \in Seq(TasksOf(N)), tasks # <<>> => arch \in Files,
           \A k \in DOMAIN tasks : \E b \in Block : tasks[k].tmps = <<b>> /\ b[2] \in I
    PROVE  LET w == TransformationRows(tasks, job, fd, arch)
           IN  /\ w \in Seq(RowsOver(N, I)) /\ DOMAIN w = DOMAIN tasks
               /\ \A k \in DOMAIN tasks :
                     /\ w[k].job = job /\ w[k].master = fd /\ w[k].op = "T"
                     /\ w[k].status = "P" /\ w[k].node = tasks[k].nodo
                     /\ w[k].block = tasks[k].tmps[1]
<1> DEFINE w == TransformationRows(tasks, job, fd, arch)
           row(k) == NewRow(job, fd, tasks[k].nodo, tasks[k].tmps[1], "T", arch)
<1>1. DOMAIN tasks = 1 .. Len(tasks) /\ Len(tasks) \in Nat
  OBVIOUS
<1>2. w = [k \in DOMAIN tasks |-> row(k)]
  BY Zenon DEF TransformationRows
<1>3. ASSUME NEW k \in DOMAIN tasks
      PROVE  /\ row(k) \in RowsOver(N, I) /\ row(k).job = job /\ row(k).master = fd
             /\ row(k).op = "T" /\ row(k).status = "P" /\ row(k).node = tasks[k].nodo
             /\ row(k).block = tasks[k].tmps[1]
  <2>1. tasks[k].nodo \in N /\ arch \in Files
    <3>1. tasks[k] \in TasksOf(N) /\ tasks # <<>>
      OBVIOUS
    <3> QED
      BY <3>1 DEF TasksOf
  <2>2. PICK b \in Block : tasks[k].tmps = <<b>> /\ b[2] \in I
    OBVIOUS
  <2>3. tasks[k].tmps[1] = b
    BY <2>2
  <2>4. b \in Block \cup {<<>>} /\ "T" \in Stage
    BY DEF Stage
  <2> DEFINE r == NewRow(job, fd, tasks[k].nodo, b, "T", arch)
  <2>5. /\ r \in RowsOver(N, I) /\ r.job = job /\ r.master = fd /\ r.node = tasks[k].nodo
        /\ r.block = b /\ r.op = "T" /\ r.status = "P"
    <3> DEFINE n == tasks[k].nodo
               z == NewRow(job, fd, n, b, "T", arch)
    <3>1. ("T" = "T" => b \in Block /\ b[2] \in I) /\ n \in N
      BY <2>1, <2>2
    <3> HIDE DEF n
    <3>2. /\ z \in RowsOver(N, I) /\ z.job = job /\ z.master = fd /\ z.node = n
          /\ z.block = b /\ z.op = "T" /\ z.status = "P"
      BY <2>1, <2>4, <3>1, NewRowIs
    <3> QED
      BY <3>2 DEF n
  <2>6. row(k) = r
    BY <2>3
  <2> HIDE DEF r, row
  <2> QED
    BY <2>3, <2>5, <2>6
<1> HIDE DEF w, row
<1>4. \A k \in DOMAIN tasks : w[k] = row(k)
  BY <1>2
<1>5. w \in Seq(RowsOver(N, I)) /\ DOMAIN w = DOMAIN tasks
  <2>1. w = [k \in 1 .. Len(tasks) |-> row(k)]
    BY <1>1, <1>2
  <2>2. w \in [1 .. Len(tasks) -> RowsOver(N, I)]
    BY <1>1, <1>3, <2>1
  <2> QED
    BY <1>1, <2>2
<1>6. \A k \in DOMAIN tasks :
         /\ w[k].job = job /\ w[k].master = fd /\ w[k].op = "T"
         /\ w[k].status = "P" /\ w[k].node = tasks[k].nodo
         /\ w[k].block = tasks[k].tmps[1]
  BY <1>3, <1>4
<1> QED
  BY <1>5, <1>6 DEF w

LEMMA EntriesOfTasks ==
    ASSUME NEW N, NEW job \in Nat, NEW fd \in FDs, NEW arch,
           NEW tasks \in Seq(TasksOf(N)), tasks # <<>> => arch \in Files
    PROVE  PlannedEntries(tasks, job, fd, arch) \in Seq(PlannedOn(N))
<1> DEFINE w == PlannedEntries(tasks, job, fd, arch)
           e(k) == [job |-> job, master |-> fd, nodo |-> tasks[k].nodo,
                    tmps |-> tasks[k].tmps, file |-> arch]
<1>1. DOMAIN tasks = 1 .. Len(tasks) /\ Len(tasks) \in Nat
  OBVIOUS
<1>2. w = [k \in DOMAIN tasks |-> e(k)]
  BY Zenon DEF PlannedEntries
<1>3. ASSUME NEW k \in DOMAIN tasks PROVE e(k) \in PlannedOn(N)
  <2>1. tasks[k].nodo \in N /\ tasks[k].tmps \in Seq(Block) /\ arch \in Files
    <3>1. tasks[k] \in TasksOf(N) /\ tasks # <<>>
      OBVIOUS
    <3> QED
      BY <3>1 DEF TasksOf
  <2> QED
    BY <2>1, NewEntryIs
<1> HIDE DEF w, e
<1>4. w = [k \in 1 .. Len(tasks) |-> e(k)]
  BY <1>1, <1>2
<1>5. w \in [1 .. Len(tasks) -> PlannedOn(N)]
  BY <1>1, <1>3, <1>4
<1>6. w \in Seq(PlannedOn(N))
  BY <1>1, <1>5
<1> QED
  BY <1>6 DEF w

-----------------------------------------------------------------------------
(* Messages and replies.                                                   *)

LEMMA MessageIs ==
    ASSUME SocketsOK, NEW fd \in FDs, pedidos[fd] # <<>>
    PROVE  LET m == Head(pedidos[fd])
           IN  /\ m \in Message
               /\ m.op = "T" => m.file \in Files
               /\ m.op \in {"O", "E"} => m.etapa \in Stage /\ m.node \in Node
               /\ m.op = "O" => m.block \in Block \cup {<<>>}
<1>1. Head(pedidos[fd]) \in Message
  BY DEF SocketsOK
<1> QED
  BY <1>1 DEF Message

LEMMA ReceiveIs ==
    ASSUME SocketsOK, NEW fd \in FDs, pedidos[fd] # <<>>,
           pedidos' = [pedidos EXCEPT ![fd] = Tail(@)]
    PROVE  pedidos' \in [FDs -> Seq(Message)]
BY DEF SocketsOK

LEMMA RespondIs ==
    ASSUME SocketsOK, NEW fd \in FDs, NEW op \in {"T", "R", "L", "G", "S", "A", "E"},
           NEW data \in Seq(Task), Respond(fd, op, data)
    PROVE  salida' \in [FDs -> Seq(Reply)]
<1> DEFINE r == [op |-> op, data |-> data]
<1>1. r \in Reply
  BY DEF Reply
<1>2. salida' = [salida EXCEPT ![fd] = IF fd \in abiertos THEN Append(salida[fd], r) ELSE salida[fd]]
  BY Zenon DEF Respond
<1> HIDE DEF r
<1> QED
  BY <1>1, <1>2 DEF SocketsOK

LEMMA TasksAreTasks ==
    ASSUME NEW N \in SUBSET Node
    PROVE  Seq(TasksOf(N)) \subseteq Seq(Task)
<1>1. TasksOf(N) \subseteq Task
  BY DEF TasksOf, Task
<1> QED
  BY <1>1

(* What a handler leaves if the tables stay well formed: it has taken the  *)
(* message and perhaps has replied.                                        *)
LEMMA HandlerTypeInv ==
    ASSUME TypeInv, NEW fd \in FDs, NEW op, Receive(fd, op), Tables',
           abiertos' = abiertos, salida' \in [FDs -> Seq(Reply)],
           UNCHANGED masterVars
    PROVE  TypeInv'
<1>1. pedidos' \in [FDs -> Seq(Message)]
  BY ReceiveIs DEF TypeInv, Receive
<1>2. SocketsOK'
  BY <1>1 DEF TypeInv, SocketsOK
<1>3. MasterOK'
  BY DEF TypeInv, MasterOK, masterVars
<1> QED
  BY <1>2, <1>3 DEF TypeInv
-----------------------------------------------------------------------------
(* What each handler does to the tables.                                   *)

LEMMA TasksKnown ==
    ASSUME NEW N, NEW tasks \in Seq(TasksOf(Node)), \A k \in DOMAIN tasks : tasks[k].nodo \in N
    PROVE  tasks \in Seq(TasksOf(N))
<1>1. \A k \in DOMAIN tasks : tasks[k] \in TasksOf(N)
  <2>1. \A k \in DOMAIN tasks : tasks[k] \in TasksOf(Node)
    OBVIOUS
  <2> QED
    BY <2>1 DEF TasksOf
<1> QED
  BY <1>1

LEMMA Joins ==
    ASSUME NEW R, NEW s \in Seq(R), NEW w \in Seq(R), NEW job, NEW fd, NEW op,
           \A k \in DOMAIN w : /\ w[k].job = job /\ w[k].master = fd
                               /\ w[k].op = op /\ w[k].status = "P"
    PROVE  s \o w \in Seq(R) /\ More(s, s \o w, job, fd, op)
<1>1. /\ s \o w \in Seq(R) /\ DOMAIN s = 1 .. Len(s) /\ DOMAIN w = 1 .. Len(w)
      /\ Len(s) \in Nat /\ Len(w) \in Nat /\ DOMAIN (s \o w) = 1 .. Len(s) + Len(w)
      /\ \A i \in 1 .. Len(s) + Len(w) :
            (s \o w)[i] = IF i <= Len(s) THEN s[i] ELSE w[i - Len(s)]
  OBVIOUS
<1>2. \A i \in DOMAIN (s \o w) : i \notin DOMAIN s =>
         i - Len(s) \in DOMAIN w /\ (s \o w)[i] = w[i - Len(s)]
  BY <1>1
<1>3. DOMAIN s \subseteq DOMAIN (s \o w) /\ \A i \in DOMAIN s : (s \o w)[i] = s[i]
  BY <1>1
<1> QED
  BY <1>1, <1>2, <1>3 DEF More

LEMMA FindableGrows ==
    ASSUME NEW archivos \in Seq(Files), NEW arch \in Files
    PROVE  /\ Findable(archivos) \subseteq Findable(Append(archivos, arch))
           /\ DOMAIN Layout[arch] \subseteq Findable(Append(archivos, arch))
<1> DEFINE w == Append(archivos, arch)
<1>1. /\ DOMAIN w = 1 .. Len(archivos) + 1 /\ DOMAIN archivos = 1 .. Len(archivos)
      /\ Len(archivos) \in Nat /\ w[Len(archivos) + 1] = arch
      /\ \A i \in DOMAIN archivos : w[i] = archivos[i]
  OBVIOUS
<1> HIDE DEF w
<1>2. DOMAIN archivos \subseteq DOMAIN w /\ Len(archivos) + 1 \in DOMAIN w
  BY <1>1
<1>3. Findable(archivos) \subseteq Findable(w)
  BY <1>1, <1>2 DEF Findable
<1>4. DOMAIN Layout[arch] \subseteq Findable(w)
  BY <1>1, <1>2 DEF Findable
<1> QED
  BY <1>3, <1>4 DEF w

LEMMA ConfigIs ==
    ASSUME Tables
    PROVE  config \in Configs /\ config.algoritm \in Algorithm /\ config.availBase \in Int
<1>1. config \in Configs
  BY DEF Tables
<1>2. config \in [algoritm : Algorithm, availBase : Int]
  BY <1>1, YamaAssumption
<1> QED
  BY <1>1, <1>2

(* A crash leaves the tables.                                              *)
LEMMA CrashTables ==
    ASSUME TypeInv, Crash
    PROVE  /\ Tables' /\ salida' = salida /\ abiertos' = abiertos
           /\ tabla_jobs' = tabla_jobs /\ tabla_estados' = tabla_estados
BY DEF TypeInv, Tables, Crash, planificados, KnownNodes, KnownBlocks

LEMMA TransformationTables ==
    ASSUME TypeInv, NEW fd \in FDs, ProcessTransformation(fd)
    PROVE  /\ Tables' /\ salida' \in [FDs -> Seq(Reply)] /\ abiertos' = abiertos
           /\ \/ tabla_jobs' = tabla_jobs /\ tabla_estados' = tabla_estados
              \/ /\ tabla_jobs' = Append(tabla_jobs, NewJob(fd))
                 /\ More(tabla_estados, tabla_estados', jobs, fd, "T")
<1> DEFINE arch == Head(pedidos[fd]).file
           t1 == AddNodesOf(arch)
           t2 == UpdateAvailability(t1, config.algoritm, config.availBase)
           bs == [k \in DOMAIN Layout[arch] |-> <<arch, k>>]
           p == PlanBlocks(t2, bs)
           sorted == SortByNode(p.tasks)
           N == NodesOf(t2)
           I == Findable(Append(tabla_info_archivos, arch))
<1>1. /\ Attend(fd, "T")
      /\ \/ p.overflow /\ Crash
         \/ /\ ~p.overflow
            /\ tabla_nodos' = p.nodos
            /\ tabla_jobs' = Append(tabla_jobs, NewJob(fd))
            /\ tabla_info_archivos' = Append(tabla_info_archivos, arch)
            /\ tabla_estados' = tabla_estados \o TransformationRows(p.tasks, jobs, fd, arch)
            /\ tabla_T_planificados' = tabla_T_planificados
                                         \o PlannedEntries(sorted, jobs, fd, arch)
            /\ Respond(fd, "T", sorted)
            /\ UNCHANGED <<tabla_LR_planificados, tabla_GR_planificados,
                           jobs, config, conectados, vivo, abiertos>>
  BY Zenon DEF ProcessTransformation
<1>2. CASE p.overflow /\ Crash
  BY <1>2, CrashTables DEF TypeInv, SocketsOK
<1>3. CASE /\ ~p.overflow
           /\ tabla_nodos' = p.nodos
           /\ tabla_jobs' = Append(tabla_jobs, NewJob(fd))
           /\ tabla_info_archivos' = Append(tabla_info_archivos, arch)
           /\ tabla_estados' = tabla_estados \o TransformationRows(p.tasks, jobs, fd, arch)
           /\ tabla_T_planificados' = tabla_T_planificados
                                        \o PlannedEntries(sorted, jobs, fd, arch)
           /\ Respond(fd, "T", sorted)
           /\ UNCHANGED <<tabla_LR_planificados, tabla_GR_planificados,
                          jobs, config, conectados, vivo, abiertos>>
  <2>1. Tables /\ SocketsOK /\ Table_OK(tabla_nodos) /\ jobs \in Nat
    BY DEF TypeInv, Tables
  <2>2. arch \in Files /\ Layout[arch] \in Seq(Node \X Node)
    <3>1. pedidos[fd] # <<>> /\ Head(pedidos[fd]).op = "T"
      BY <1>1 DEF Attend, Receive
    <3>2. arch \in Files
      BY <2>1, <3>1, MessageIs
    <3> QED
      BY <3>2, LayoutAssumption
  <2>3. /\ bs \in Seq(Block) /\ DOMAIN bs = DOMAIN Layout[arch]
        /\ \A k \in DOMAIN bs : bs[k] = <<arch, k>>
        /\ bs # <<>> => Layout[arch] # <<>>
    <3>1. DOMAIN Layout[arch] = 1 .. Len(Layout[arch]) /\ Len(Layout[arch]) \in Nat
      BY <2>2
    <3>2. \A k \in DOMAIN Layout[arch] : <<arch, k>> \in Block
      BY <2>2, <3>1 DEF Block
    <3>3. bs \in Seq(Block) /\ DOMAIN bs = DOMAIN Layout[arch]
      BY <3>1, <3>2
    <3> QED
      BY <3>1, <3>3
  <2> HIDE DEF arch
  <2>4. /\ Table_OK(t1) /\ KnownNodes \subseteq NodesOf(t1)
        /\ Layout[arch] # <<>> => t1 # <<>>
    BY <2>1, <2>2, AddNodesOfIs, ConfigIs DEF KnownNodes
  <2> HIDE DEF t1
  <2>5. Table_OK(t2) /\ SameNodes(t1, t2)
    BY <2>1, <2>4, AvailabilityKeepsTable, ConfigIs
  <2> HIDE DEF t2
  <2>6. /\ N = NodesOf(t1) /\ KnownNodes \subseteq N /\ N \in SUBSET Node
        /\ bs # <<>> => t2 # <<>>
    <3>1. N = NodesOf(t1) /\ N \in SUBSET Node
      BY <2>5, SameNodesOf, NodesAreNodes
    <3>2. t1 # <<>> => t2 # <<>>
      BY <2>4, <2>5 DEF SameNodes, Table_OK
    <3> QED
      BY <2>3, <2>4, <3>1, <3>2
  <2> HIDE DEF bs
  <2>7. /\ Table_OK(p.nodos) /\ SameNodes(t2, p.nodos)
        /\ p.tasks \in Seq(TasksOf(Node)) /\ DOMAIN p.tasks = DOMAIN bs
        /\ \A k \in DOMAIN bs : /\ Healthy(t2, p.tasks[k].nodo)
                                /\ p.tasks[k].tmps = <<bs[k]>>
    BY <1>3, <2>1, <2>3, <2>5, <2>6, ConfigIs, PlanBlocksIs
  <2> HIDE DEF p
  <2>8. p.tasks \in Seq(TasksOf(N))
    <3>1. \A k \in DOMAIN p.tasks : p.tasks[k].nodo \in N
      BY <2>7 DEF Healthy, NodesOf
    <3> HIDE DEF N
    <3> QED
      BY <2>7, <3>1, TasksKnown
  <2>9. KnownNodes' = N /\ KnownBlocks' = I
    BY <1>3, <2>7, SameNodesOf DEF KnownNodes, KnownBlocks
  <2>10. KnownBlocks \subseteq I /\ DOMAIN Layout[arch] \subseteq I
    BY <2>1, <2>2, FindableGrows DEF Tables, KnownBlocks
  <2>11. sorted \in Seq(TasksOf(N))
    BY <2>8, SortByNodeIs
  <2>12. /\ p.tasks # <<>> => arch \in Files
         /\ \A k \in DOMAIN p.tasks : \E b \in Block : p.tasks[k].tmps = <<b>> /\ b[2] \in I
    <3> SUFFICES ASSUME NEW k \in DOMAIN p.tasks
                 PROVE  \E b \in Block : p.tasks[k].tmps = <<b>> /\ b[2] \in I
      BY <2>2
    <3>1. bs[k] \in Block /\ p.tasks[k].tmps = <<bs[k]>> /\ bs[k][2] = k
      BY <2>3, <2>7
    <3>2. k \in I
      BY <2>3, <2>7, <2>10
    <3> QED
      BY <3>1, <3>2
  <2> HIDE DEF N, I, sorted
  <2> DEFINE rows == TransformationRows(p.tasks, jobs, fd, arch)
             es == PlannedEntries(sorted, jobs, fd, arch)
  <2>13. /\ rows \in Seq(RowsOver(N, I)) /\ DOMAIN rows = DOMAIN p.tasks
         /\ \A k \in DOMAIN rows : /\ rows[k].job = jobs /\ rows[k].master = fd
                                   /\ rows[k].op = "T" /\ rows[k].status = "P"
    <3>1. /\ N \in SUBSET Node /\ jobs \in Nat
          /\ p.tasks \in Seq(TasksOf(N)) /\ (p.tasks # <<>> => arch \in Files)
          /\ \A k \in DOMAIN p.tasks : \E b \in Block : p.tasks[k].tmps = <<b>> /\ b[2] \in I
      BY <2>1, <2>6, <2>8, <2>12
    <3> DEFINE tasks == p.tasks
               w == TransformationRows(tasks, jobs, fd, arch)
    <3> HIDE DEF tasks
    <3>2. tasks \in Seq(TasksOf(N))
      BY <3>1 DEF tasks
    <3>3. tasks # <<>> => arch \in Files
      BY <3>1 DEF tasks
    <3>4. \A k \in DOMAIN tasks : \E b \in Block : tasks[k].tmps = <<b>> /\ b[2] \in I
      BY <3>1 DEF tasks
    <3>5. w \in Seq(RowsOver(N, I))
      BY <3>1, <3>2, <3>3, <3>4, RowsOfTasks
    <3>6. /\ DOMAIN w = DOMAIN tasks
           /\ \A k \in DOMAIN tasks : /\ w[k].job = jobs /\ w[k].master = fd
                                       /\ w[k].op = "T" /\ w[k].status = "P"
      BY RowsShape
    <3>7. w = rows
      BY Zenon DEF tasks
    <3> HIDE DEF w, rows
    <3> QED
      BY <3>5, <3>6, <3>7 DEF tasks
  <2>14. es \in Seq(PlannedOn(N))
    BY <2>1, <2>2, <2>11, EntriesOfTasks
  <2> HIDE DEF rows, es
  <2>15. /\ tabla_estados \in Seq(RowsOver(N, I))
         /\ tabla_T_planificados \in Seq(PlannedOn(N))
         /\ tabla_LR_planificados \in Seq(PlannedOn(N))
         /\ tabla_GR_planificados \in Seq(PlannedOn(N))
    BY <2>1, <2>6, <2>10, MoreKnown DEF Tables
  <2>16. /\ tabla_estados' \in Seq(RowsOver(N, I))
         /\ More(tabla_estados, tabla_estados', jobs, fd, "T")
    <3>1. tabla_estados' = tabla_estados \o rows
      BY <1>3 DEF rows
    <3> QED
      BY <2>13, <2>15, <3>1, Joins
  <2>17. tabla_T_planificados' \in Seq(PlannedOn(N))
    BY <1>3, <2>14, <2>15 DEF es
  <2>18. tabla_jobs' \in Seq(Job) /\ tabla_info_archivos' \in Seq(Files)
    <3>1. NewJob(fd) \in Job
      BY <2>1 DEF NewJob, Job, Stage
    <3> QED
      BY <1>3, <2>1, <2>2, <3>1 DEF Tables
  <2>19. salida' \in [FDs -> Seq(Reply)]
    <3>1. sorted \in Seq(Task)
      BY <2>6, <2>11, TasksAreTasks
    <3> QED
      BY <1>3, <2>1, <3>1, RespondIs
  <2>20. Table_OK(tabla_nodos')
    BY <1>3, <2>7
  <2>21. Tables'
    BY <1>3, <2>1, <2>9, <2>15, <2>16, <2>17, <2>18, <2>20 DEF Tables
  <2> QED
    BY <1>3, <2>16, <2>19, <2>21
<1> QED
  BY <1>1, <1>2, <1>3
(* What the other handlers keep.                                           *)
LEMMA SameKnown ==
    ASSUME SameNodes(tabla_nodos, tabla_nodos'), tabla_info_archivos' = tabla_info_archivos
    PROVE  KnownNodes' = KnownNodes /\ KnownBlocks' = KnownBlocks
<1>1. NodesOf(tabla_nodos') = NodesOf(tabla_nodos)
  BY SameNodesOf
<1> QED
  BY <1>1 DEF KnownNodes, KnownBlocks

LEMMA SameTable == \A t : SameNodes(t, t)
BY DEF SameNodes

LEMMA DeletedErrors ==
    ASSUME NEW t, Table_OK(t)
    PROVE  Table_OK(DeleteNodeErrors(t)) /\ SameNodes(t, DeleteNodeErrors(t))
<1>1. \A i \in DOMAIN t : t[i] \in NodeRow
  BY DEF Table_OK
<1> DEFINE g == DeleteNodeErrors(t)
<1>2. /\ g = [i \in DOMAIN t |-> [t[i] EXCEPT !.errors = 0]]
      /\ \A i \in DOMAIN t : g[i] = [t[i] EXCEPT !.errors = 0]
  BY DEF DeleteNodeErrors
<1> HIDE DEF g
<1>3. \A i \in DOMAIN t : g[i] \in NodeRow /\ g[i].node_id = t[i].node_id
  BY <1>1, <1>2, RowRewritten
<1>4. g = [i \in DOMAIN t |-> g[i]]
  BY <1>2
<1>5. Table_OK(g) /\ SameNodes(t, g)
  BY <1>3, <1>4, RewrittenTable
<1> QED
  BY <1>5 DEF g

LEMMA NewJobIs ==
    ASSUME Tables, NEW fd \in FDs
    PROVE  /\ NewJob(fd) \in Job /\ NewJob(fd).id = jobs /\ NewJob(fd).master = fd
           /\ NewJob(fd).estado = "P" /\ NewJob(fd).etapa = "T"
           /\ NewJob(fd).replanificaciones = 0
BY DEF NewJob, Job, Stage, Tables

LEMMA FileNotAvailableTables ==
    ASSUME TypeInv, NEW fd \in FDs, FileNotAvailable(fd)
    PROVE  Tables' /\ salida' \in [FDs -> Seq(Reply)] /\ abiertos' = abiertos
<1>1. /\ tabla_jobs' = Append(tabla_jobs, NewJob(fd)) /\ Respond(fd, "E", <<>>)
      /\ UNCHANGED <<tabla_nodos, tabla_estados, tabla_info_archivos,
                     planificados, jobs, config, conectados, vivo, abiertos>>
  BY DEF FileNotAvailable
<1>2. KnownNodes' = KnownNodes /\ KnownBlocks' = KnownBlocks
  BY <1>1, SameKnown, SameTable
<1>3. tabla_jobs' \in Seq(Job)
  BY <1>1, NewJobIs DEF TypeInv, Tables
<1>4. <<>> \in Seq(Task)
  BY EmptySeq
<1>5. salida' \in [FDs -> Seq(Reply)]
  BY <1>1, <1>4, RespondIs DEF TypeInv
<1> QED
  BY <1>1, <1>2, <1>3, <1>5 DEF TypeInv, Tables, planificados

LEMMA GlobalReductionRefusedTables ==
    ASSUME TypeInv, NEW fd \in FDs, GlobalReductionRefused(fd)
    PROVE  Tables' /\ salida' \in [FDs -> Seq(Reply)] /\ abiertos' = abiertos
<1> DEFINE j == [JobOf(fd, "L") EXCEPT !.etapa = "G"]
<1>1. /\ HasJob(fd, "L") /\ SetJob(fd, "L", j)
      /\ UNCHANGED <<tabla_nodos, tabla_estados, tabla_info_archivos, planificados,
                     jobs, config, conectados, vivo, salida, abiertos>>
  BY DEF GlobalReductionRefused
<1>2. KnownNodes' = KnownNodes /\ KnownBlocks' = KnownBlocks
  BY <1>1, SameKnown, SameTable
<1>3. tabla_jobs \in Seq(Job)
  BY DEF TypeInv, Tables
<1>4. j \in Job
  BY <1>1, <1>3, JobOfIs, JobRewritten DEF Stage
<1> HIDE DEF j
<1>5. tabla_jobs' \in Seq(Job)
  BY <1>1, <1>3, <1>4, SetJobIs
<1> QED
  BY <1>1, <1>2, <1>5 DEF TypeInv, Tables, planificados, SocketsOK

LEMMA ProcessOkTables ==
    ASSUME TypeInv, NEW fd \in FDs, ProcessOk(fd)
    PROVE  Tables' /\ salida' \in [FDs -> Seq(Reply)] /\ abiertos' = abiertos
<1> DEFINE m == Head(pedidos[fd])
           e == m.etapa
           n == m.node
           job == JobOf(fd, e)
           done == FindInProcessTasks(job.id, fd, e, n, m.block)
           t == DecreaseNodeCharge(tabla_nodos, n)
           j == [job EXCEPT !.estado = "F"]
<1>1. /\ pedidos[fd] # <<>> /\ m.op = "O"
      /\ IF ~HasJob(fd, e)
         THEN UNCHANGED <<tabla_estados, tabla_nodos, tabla_jobs>>
         ELSE /\ tabla_estados' =
                      IF done = {} THEN tabla_estados ELSE Marked({First(done)}, "F")
              /\ tabla_nodos' = IF e = "S" THEN DeleteNodeErrors(t) ELSE t
              /\ IF e = "S" THEN SetJob(fd, "S", j) ELSE UNCHANGED tabla_jobs
      /\ UNCHANGED <<tabla_info_archivos, planificados, jobs, config, conectados,
                     vivo, salida, abiertos>>
  BY Zenon DEF ProcessOk, Attend, Receive
<1>2. /\ Tables /\ SocketsOK /\ tabla_jobs \in Seq(Job) /\ Table_OK(tabla_nodos)
      /\ tabla_estados \in Seq(RowsOver(KnownNodes, KnownBlocks))
  BY DEF TypeInv, Tables
<1>3. n \in Node
  BY <1>1, <1>2, MessageIs
<1> HIDE DEF n, done, m
<1>4. Table_OK(tabla_nodos') /\ SameNodes(tabla_nodos, tabla_nodos')
  <2>1. Table_OK(t) /\ SameNodes(tabla_nodos, t)
    BY <1>2, <1>3, HandlersKeepTable
  <2>2. Table_OK(DeleteNodeErrors(t)) /\ SameNodes(t, DeleteNodeErrors(t))
    BY <1>3, <2>1, HandlersKeepTable
  <2>3. SameNodes(tabla_nodos, DeleteNodeErrors(t))
    BY <2>1, <2>2 DEF SameNodes
  <2>4. SameNodes(tabla_nodos, tabla_nodos)
    BY SameTable
  <2> HIDE DEF t, e, j
  <2> QED
    BY <1>1, <1>2, <2>1, <2>2, <2>3, <2>4
<1>5. KnownNodes' = KnownNodes /\ KnownBlocks' = KnownBlocks
  BY <1>1, <1>4, SameKnown
<1>6. tabla_estados' \in Seq(RowsOver(KnownNodes, KnownBlocks))
  <2>1. Marked({First(done)}, "F") \in Seq(RowsOver(KnownNodes, KnownBlocks))
    BY <1>2, MarkedIs
  <2> QED
    BY <1>1, <1>2, <2>1
<1>7. tabla_jobs' \in Seq(Job)
  <2>1. CASE HasJob(fd, e) /\ e = "S"
    <3>1. j \in Job
      BY <1>2, <2>1, JobOfIs, JobRewritten
    <3>2. HasJob(fd, "S") /\ SetJob(fd, "S", j)
      BY <1>1, <2>1
    <3> HIDE DEF j, e
    <3> QED
      BY <1>2, <3>1, <3>2, SetJobIs
  <2> QED
    BY <1>1, <1>2, <2>1
<1> QED
  BY <1>1, <1>2, <1>4, <1>5, <1>6, <1>7 DEF Tables, planificados, SocketsOK

LEMMA AbortJobTables ==
    ASSUME TypeInv, NEW fd \in FDs, AbortJob(fd)
    PROVE  Tables' /\ salida' \in [FDs -> Seq(Reply)] /\ abiertos' = abiertos
<1> DEFINE m == Head(pedidos[fd])
           e == m.etapa
           job == JobOf(fd, e)
           ix == InProcess(RowsOn(job.id, fd, e, m.node))
           j == [job EXCEPT !.estado = "E"]
<1>1. /\ HasJob(fd, e) /\ tabla_estados' = Marked(ix, "E")
      /\ tabla_nodos' = DeleteNodeErrors(tabla_nodos) /\ SetJob(fd, e, j)
      /\ UNCHANGED <<tabla_info_archivos, planificados, jobs, config, conectados,
                     vivo, salida, abiertos>>
  BY Zenon DEF AbortJob
<1>2. /\ Tables /\ SocketsOK /\ tabla_jobs \in Seq(Job) /\ Table_OK(tabla_nodos)
      /\ tabla_estados \in Seq(RowsOver(KnownNodes, KnownBlocks))
  BY DEF TypeInv, Tables
<1>3. Table_OK(tabla_nodos') /\ SameNodes(tabla_nodos, tabla_nodos')
  BY <1>1, <1>2, DeletedErrors
<1>4. KnownNodes' = KnownNodes /\ KnownBlocks' = KnownBlocks
  BY <1>1, <1>3, SameKnown
<1>5. j \in Job
  BY <1>1, <1>2, JobOfIs, JobRewritten
<1> HIDE DEF j, ix, e, m
<1>6. tabla_jobs' \in Seq(Job)
  BY <1>1, <1>2, <1>5, SetJobIs
<1>7. tabla_estados' \in Seq(RowsOver(KnownNodes, KnownBlocks))
  BY <1>1, <1>2, MarkedIs
<1> QED
  BY <1>1, <1>2, <1>3, <1>4, <1>6, <1>7 DEF Tables, planificados, SocketsOK
(* What is planned for a job, and what remains of a list.                  *)
LEMMA PlannedForIs ==
    ASSUME NEW N, NEW tabla \in Seq(PlannedOn(N)), NEW job, NEW fd
    PROVE  PlannedFor(tabla, job, fd) \in Seq(PlannedOn(N))
BY KeepIs, Zenon DEF PlannedFor

LEMMA DeletePlanedIs ==
    ASSUME NEW N, NEW tabla \in Seq(PlannedOn(N)), NEW fd, NEW k
    PROVE  DeletePlaned(tabla, fd, k) \in Seq(PlannedOn(N))
BY KeepIs, Zenon DEF DeletePlaned

LEMMA PlannedElsewhereIs ==
    ASSUME NEW N, tabla_T_planificados \in Seq(PlannedOn(N)), NEW fd, NEW n
    PROVE  PlannedElsewhere(fd, n) \in Seq(PlannedOn(N))
BY KeepIs, Zenon DEF PlannedElsewhere

LEMMA ReplanRefusedTables ==
    ASSUME TypeInv, NEW fd \in FDs, ReplanRefused(fd)
    PROVE  Tables' /\ salida' \in [FDs -> Seq(Reply)] /\ abiertos' = abiertos
<1> DEFINE m == Head(pedidos[fd])
           n == m.node
           job == JobOf(fd, "T")
           ix == InProcess(RowsOn(job.id, fd, "T", n))
           j == [job EXCEPT !.estado = "E", !.replanificaciones = 2]
           t == IncreaseNodeError(tabla_nodos, n)
<1>1. /\ pedidos[fd] # <<>> /\ m.op = "E" /\ HasJob(fd, "T")
      /\ tabla_T_planificados' = PlannedElsewhere(fd, n)
      /\ tabla_nodos' = DeleteNodeErrors(t)
      /\ tabla_estados' = Marked(ix, "E")
      /\ SetJob(fd, "T", j) /\ Respond(fd, "A", <<>>)
      /\ UNCHANGED <<tabla_info_archivos, tabla_LR_planificados,
                     tabla_GR_planificados, jobs, config, conectados, vivo, abiertos>>
  BY Zenon DEF ReplanRefused, NodeFailed, Attend, Receive
<1>2. /\ Tables /\ SocketsOK /\ tabla_jobs \in Seq(Job) /\ Table_OK(tabla_nodos)
      /\ tabla_estados \in Seq(RowsOver(KnownNodes, KnownBlocks))
      /\ tabla_T_planificados \in Seq(PlannedOn(KnownNodes))
  BY DEF TypeInv, Tables
<1>3. n \in Node
  BY <1>1, <1>2, MessageIs
<1>4. j \in Job
  <2> DEFINE i == [job EXCEPT !.estado = "E"]
  <2>1. i \in Job
    BY <1>1, <1>2, JobOfIs, JobRewritten
  <2>2. j = [i EXCEPT !.replanificaciones = 2]
    BY Zenon
  <2> HIDE DEF i, j
  <2>3. j \in Job
    BY <2>1, <2>2 DEF Job
  <2> QED
    BY <2>3 DEF j
<1> HIDE DEF n, ix, m, j
<1>5. Table_OK(tabla_nodos') /\ SameNodes(tabla_nodos, tabla_nodos')
  <2>1. Table_OK(t) /\ SameNodes(tabla_nodos, t)
    BY <1>2, <1>3, HandlersKeepTable
  <2> HIDE DEF t
  <2>2. Table_OK(DeleteNodeErrors(t)) /\ SameNodes(t, DeleteNodeErrors(t))
    BY <2>1, DeletedErrors
  <2>3. SameNodes(tabla_nodos, DeleteNodeErrors(t))
    BY <2>1, <2>2 DEF SameNodes
  <2> QED
    BY <1>1, <2>2, <2>3
<1>6. KnownNodes' = KnownNodes /\ KnownBlocks' = KnownBlocks
  BY <1>1, <1>5, SameKnown
<1>7. tabla_jobs' \in Seq(Job)
  BY <1>1, <1>2, <1>4, SetJobIs
<1>8. tabla_estados' \in Seq(RowsOver(KnownNodes, KnownBlocks))
  BY <1>1, <1>2, MarkedIs
<1>9. tabla_T_planificados' \in Seq(PlannedOn(KnownNodes))
  BY <1>1, <1>2, PlannedElsewhereIs
<1>10. <<>> \in Seq(Task)
  BY EmptySeq
<1>11. salida' \in [FDs -> Seq(Reply)]
  BY <1>1, <1>2, <1>10, RespondIs
<1> QED
  BY <1>1, <1>2, <1>5, <1>6, <1>7, <1>8, <1>9, <1>11 DEF Tables

LEMMA MasterDisconnectedTables ==
    ASSUME TypeInv, NEW fd \in FDs, MasterDisconnected(fd)
    PROVE  Tables' /\ salida' \in [FDs -> Seq(Reply)] /\ abiertos' = abiertos
<1> DEFINE mine == {i \in DOMAIN tabla_jobs : /\ tabla_jobs[i].master = fd
                                              /\ tabla_jobs[i].estado = "P"}
           rows == {i \in DOMAIN tabla_estados : tabla_estados[i].master = fd}
           ix == InProcess(rows)
<1>1. /\ tabla_jobs' = [i \in DOMAIN tabla_jobs |->
                          IF i \in mine THEN [tabla_jobs[i] EXCEPT !.estado = "E"]
                                        ELSE tabla_jobs[i]]
      /\ tabla_estados' = IF mine = {} THEN tabla_estados ELSE Marked(ix, "E")
      /\ tabla_nodos' = DeleteNodeErrors(tabla_nodos)
      /\ conectados' = conectados \ {fd}
      /\ UNCHANGED <<tabla_info_archivos, planificados, jobs, config, vivo,
                     salida, abiertos>>
  BY Zenon DEF MasterDisconnected
<1>2. /\ Tables /\ SocketsOK /\ tabla_jobs \in Seq(Job) /\ Table_OK(tabla_nodos)
      /\ tabla_estados \in Seq(RowsOver(KnownNodes, KnownBlocks))
  BY DEF TypeInv, Tables
<1> HIDE DEF mine, ix
<1>3. Table_OK(tabla_nodos') /\ SameNodes(tabla_nodos, tabla_nodos')
  BY <1>1, <1>2, DeletedErrors
<1>4. KnownNodes' = KnownNodes /\ KnownBlocks' = KnownBlocks
  BY <1>1, <1>3, SameKnown
<1>5. tabla_jobs' \in Seq(Job)
  <2>1. \A i \in DOMAIN tabla_jobs : tabla_jobs'[i] \in Job
    <3> SUFFICES ASSUME NEW i \in DOMAIN tabla_jobs PROVE tabla_jobs'[i] \in Job
      OBVIOUS
    <3>1. tabla_jobs[i] \in Job
      BY <1>2
    <3>2. [tabla_jobs[i] EXCEPT !.estado = "E"] \in Job
      BY <3>1, JobRewritten
    <3> QED
      BY <1>1, <3>1, <3>2
  <2>2. tabla_jobs' = [i \in 1 .. Len(tabla_jobs) |-> tabla_jobs'[i]] /\ Len(tabla_jobs) \in Nat
    BY <1>1, <1>2
  <2>3. tabla_jobs' \in [1 .. Len(tabla_jobs) -> Job]
    BY <1>2, <2>1, <2>2
  <2> QED
    BY <2>2, <2>3
<1>6. tabla_estados' \in Seq(RowsOver(KnownNodes, KnownBlocks))
  BY <1>1, <1>2, MarkedIs
<1> QED
  BY <1>1, <1>2, <1>3, <1>4, <1>5, <1>6 DEF Tables, planificados, SocketsOK

LEMMA QuietTables ==
    ASSUME TypeInv, NEW fd \in FDs, MasterReset(fd) \/ ErrorIgnored(fd)
    PROVE  Tables' /\ salida' \in [FDs -> Seq(Reply)] /\ abiertos' = abiertos
<1>1. /\ UNCHANGED <<tabla_nodos, tabla_jobs, tabla_estados, tabla_info_archivos,
                     planificados, jobs, config, vivo, salida, abiertos>>
      /\ conectados' \subseteq conectados
  BY DEF MasterReset, ErrorIgnored, yamaVars
<1>2. KnownNodes' = KnownNodes /\ KnownBlocks' = KnownBlocks
  BY <1>1 DEF KnownNodes, KnownBlocks
<1> QED
  BY <1>1, <1>2 DEF TypeInv, Tables, planificados, SocketsOK

LEMMA NotReadyTables ==
    ASSUME TypeInv, NEW fd \in FDs, LocalReductionNotReady(fd) \/ StageNotReady(fd)
    PROVE  Tables' /\ salida' \in [FDs -> Seq(Reply)] /\ abiertos' = abiertos
<1>1. Crash
  BY DEF LocalReductionNotReady, StageNotReady
<1> QED
  BY <1>1, CrashTables DEF TypeInv, SocketsOK
(* No tasks, no runs.                                                      *)
LEMMA NoRuns == Grouped(<<>>) = <<>>
<1> DEFINE s == <<>>
           body(h) == [k \in 0 .. Len(s) |-> IF k = 0 THEN <<>> ELSE Joined(h[k - 1], s[k])]
           f == CHOOSE h : h = body(h)
<1>1. Len(s) = 0 /\ 0 .. 0 = {0}
  OBVIOUS
<1>2. [k \in {0} |-> <<>>] = body([k \in {0} |-> <<>>])
  BY <1>1
<1>3. f = body(f)
  <2> HIDE DEF body
  <2> QED
    BY <1>2
<1>4. f[0] = <<>>
  BY <1>1, <1>3
<1>5. Grouped(s) = f[Len(s)]
  BY Zenon DEF Grouped
<1> HIDE DEF f
<1> QED
  BY <1>1, <1>4, <1>5

LEMMA RunsAre ==
    ASSUME NEW N, NEW planed \in Seq(PlannedOn(N))
    PROVE  Runs(planed) \in Seq(TasksOf(N)) /\ (Runs(planed) # <<>> => planed # <<>>)
<1>1. Len(planed) \in Nat /\ DOMAIN planed = 1 .. Len(planed)
  OBVIOUS
<1>2. \A k \in DOMAIN planed : planed[k].nodo \in N /\ planed[k].tmps \in Seq(Block)
  BY EntryFields
<1>3. Grouped(planed) \in Seq(TasksOf(N))
  BY <1>1, <1>2, GroupedIs
<1>4. planed = <<>> => Grouped(planed) = <<>>
  BY NoRuns
<1> QED
  BY <1>3, <1>4, Zenon DEF Runs

(* The planned entries as the tasks of a reply.                            *)
LEMMA EntriesAsTasks ==
    ASSUME NEW N \in SUBSET Node, NEW planed \in Seq(PlannedOn(N))
    PROVE  [k \in DOMAIN planed |-> [nodo |-> planed[k].nodo, tmps |-> planed[k].tmps]]
             \in Seq(Task)
<1> DEFINE e(k) == [nodo |-> planed[k].nodo, tmps |-> planed[k].tmps]
<1>1. \A k \in DOMAIN planed : e(k) \in Task
  BY EntryFields DEF Task
<1> HIDE DEF e
<1>2. DOMAIN planed = 1 .. Len(planed) /\ Len(planed) \in Nat
  OBVIOUS
<1>3. [k \in DOMAIN planed |-> e(k)] \in Seq(Task)
  BY <1>1, <1>2
<1> QED
  BY <1>3 DEF e

LEMMA ProcessLocalReductionTables ==
    ASSUME TypeInv, NEW fd \in FDs, ProcessLocalReduction(fd)
    PROVE  /\ Tables' /\ salida' \in [FDs -> Seq(Reply)] /\ abiertos' = abiertos
           /\ More(tabla_estados, tabla_estados', JobOf(fd, "T").id, fd, "L")
<1> DEFINE job == JobOf(fd, "T")
           planed == PlannedFor(tabla_T_planificados, job.id, fd)
           arch == planed[1].file
           p == PlanLocalReductions(Runs(planed), job.id, fd, arch)
           data == [k \in DOMAIN planed |-> [nodo |-> planed[k].nodo, tmps |-> planed[k].tmps]]
           j == [job EXCEPT !.etapa = "L"]
<1>1. /\ HasJob(fd, "T")
      /\ tabla_T_planificados' = DeletePlaned(tabla_T_planificados, fd, Len(planed))
      /\ vivo' = IF FreesListedEntries(tabla_T_planificados, job.id, fd) THEN "ub" ELSE vivo
      /\ tabla_nodos' = p.nodos /\ tabla_estados' = p.estados
      /\ tabla_LR_planificados' = p.lr
      /\ SetJob(fd, "T", j) /\ Respond(fd, "L", data)
      /\ UNCHANGED <<tabla_info_archivos, tabla_GR_planificados, jobs, config,
                     conectados, abiertos>>
  BY Zenon DEF ProcessLocalReduction
<1>2. /\ Tables /\ SocketsOK /\ tabla_jobs \in Seq(Job) /\ Table_OK(tabla_nodos)
      /\ tabla_estados \in Seq(RowsOver(KnownNodes, KnownBlocks))
      /\ tabla_T_planificados \in Seq(PlannedOn(KnownNodes))
      /\ tabla_LR_planificados \in Seq(PlannedOn(KnownNodes))
      /\ tabla_GR_planificados \in Seq(PlannedOn(KnownNodes))
  BY DEF TypeInv, Tables
<1>3. job \in Job /\ job.id \in Nat /\ j \in Job
  BY <1>1, <1>2, JobOfIs, JobRewritten DEF Stage
<1>4. KnownNodes \in SUBSET Node
  BY <1>2, NodesAreNodes DEF KnownNodes
<1> DEFINE id == job.id
<1> HIDE DEF id
<1>5. planed \in Seq(PlannedOn(KnownNodes))
  BY <1>2, PlannedForIs
<1>6. /\ Runs(planed) \in Seq(TasksOf(KnownNodes))
      /\ Runs(planed) # <<>> => arch \in Files
  <2>1. planed # <<>> => 1 \in DOMAIN planed
    BY <1>5
  <2>2. planed # <<>> => arch \in Files
    BY <1>5, <2>1, EntryFields
  <2> HIDE DEF planed, arch
  <2> QED
    BY <1>5, <2>2, RunsAre
<1>7. data \in Seq(Task)
  <2> HIDE DEF planed
  <2> QED
    BY <1>4, <1>5, EntriesAsTasks
<1>8. p \in LocalPlans(job.id, fd)
  <2> DEFINE runs == Runs(planed)
  <2>1. runs \in Seq(TasksOf(NodesOf(tabla_nodos))) /\ (runs # <<>> => arch \in Files)
    BY <1>6 DEF KnownNodes
  <2>2. /\ tabla_estados \in Seq(RowsOver(NodesOf(tabla_nodos), Findable(tabla_info_archivos)))
        /\ tabla_LR_planificados \in Seq(PlannedOn(NodesOf(tabla_nodos)))
    BY <1>2 DEF KnownNodes, KnownBlocks
  <2>3. id \in Nat
    BY <1>3 DEF id
  <2> HIDE DEF runs, arch
  <2>4. PlanLocalReductions(runs, id, fd, arch) \in LocalPlans(id, fd)
    BY <1>2, <2>1, <2>2, <2>3, LocalReductionsAre
  <2> QED
    BY <2>4 DEF runs, arch, id
<1> HIDE DEF p, data, planed, j, job
<1>9. /\ Table_OK(p.nodos) /\ SameNodes(tabla_nodos, p.nodos)
      /\ p.estados \in Seq(RowsOver(KnownNodes, KnownBlocks))
      /\ p.lr \in Seq(PlannedOn(KnownNodes))
      /\ More(tabla_estados, p.estados, job.id, fd, "L")
  BY <1>8 DEF LocalPlans, KnownNodes, KnownBlocks
<1>10. KnownNodes' = KnownNodes /\ KnownBlocks' = KnownBlocks
  BY <1>1, <1>9, SameKnown
<1>11. tabla_jobs' \in Seq(Job)
  BY <1>1, <1>2, <1>3, SetJobIs
<1>12. tabla_T_planificados' \in Seq(PlannedOn(KnownNodes))
  BY <1>1, <1>2, DeletePlanedIs
<1>13. salida' \in [FDs -> Seq(Reply)]
  BY <1>1, <1>2, <1>7, RespondIs
<1>14. vivo' \in {"up", "crash", "ub"}
  BY <1>1, <1>2 DEF Tables
<1>15. Tables'
  BY <1>1, <1>2, <1>9, <1>10, <1>11, <1>12, <1>14 DEF Tables
<1> QED
  BY <1>1, <1>9, <1>13, <1>15 DEF job
LEMMA ProcessGlobalReductionTables ==
    ASSUME TypeInv, NEW fd \in FDs, ProcessGlobalReduction(fd)
    PROVE  /\ Tables' /\ salida' \in [FDs -> Seq(Reply)] /\ abiertos' = abiertos
           /\ More(tabla_estados, tabla_estados', JobOf(fd, "L").id, fd, "G")
<1> DEFINE job == JobOf(fd, "L")
           planed == PlannedFor(tabla_LR_planificados, job.id, fd)
           encargado == GetLastChargedNode(planed)
           all == AllTmps(planed)
           arch == planed[1].file
           row == NewRow(job.id, fd, encargado, <<>>, "G", arch)
           e == [job |-> job.id, master |-> fd, nodo |-> encargado, tmps |-> all, file |-> arch]
           task == [nodo |-> encargado, tmps |-> all]
           j == [job EXCEPT !.etapa = "G"]
<1>1. /\ HasJob(fd, "L") /\ planed # <<>>
      /\ tabla_LR_planificados' = DeletePlaned(tabla_LR_planificados, fd, Len(planed))
      /\ vivo' = IF FreesListedEntries(tabla_LR_planificados, job.id, fd) THEN "ub" ELSE vivo
      /\ tabla_nodos' = IncreaseNodeCharge(tabla_nodos, encargado)
      /\ tabla_estados' = Append(tabla_estados, row)
      /\ tabla_GR_planificados' = Append(tabla_GR_planificados, e)
      /\ SetJob(fd, "L", j) /\ Respond(fd, "G", <<task>>)
      /\ UNCHANGED <<tabla_info_archivos, tabla_T_planificados, jobs, config,
                     conectados, abiertos>>
  BY Zenon DEF ProcessGlobalReduction
<1>2. /\ Tables /\ SocketsOK /\ tabla_jobs \in Seq(Job) /\ Table_OK(tabla_nodos)
      /\ tabla_estados \in Seq(RowsOver(KnownNodes, KnownBlocks))
      /\ tabla_T_planificados \in Seq(PlannedOn(KnownNodes))
      /\ tabla_LR_planificados \in Seq(PlannedOn(KnownNodes))
      /\ tabla_GR_planificados \in Seq(PlannedOn(KnownNodes))
  BY DEF TypeInv, Tables
<1>3. job \in Job /\ job.id \in Nat /\ j \in Job
  BY <1>1, <1>2, JobOfIs, JobRewritten DEF Stage
<1>4. KnownNodes \in SUBSET Node
  BY <1>2, NodesAreNodes DEF KnownNodes
<1>5. planed \in Seq(PlannedOn(KnownNodes))
  BY <1>2, PlannedForIs
<1> DEFINE id == job.id
           n == encargado
<1>6. n \in KnownNodes /\ all \in Seq(Block) /\ arch \in Files
  <2> HIDE DEF planed
  <2>1. n \in KnownNodes
    BY <1>1, <1>2, <1>5, LastChargedIs DEF KnownNodes
  <2>2. all \in Seq(Block)
    BY <1>5, AllTmpsIs
  <2>3. arch \in Files
    <3>1. 1 \in DOMAIN planed
      BY <1>1, <1>5
    <3> QED
      BY <1>5, <3>1, EntryFields
  <2> QED
    BY <2>1, <2>2, <2>3
<1>7. id \in Nat
  BY <1>3
<1> HIDE DEF n, id, all, arch
<1>8. /\ row \in RowsOver(KnownNodes, KnownBlocks)
      /\ row.job = id /\ row.master = fd /\ row.op = "G" /\ row.status = "P"
  <2> DEFINE q == NewRow(id, fd, n, <<>>, "G", arch)
  <2>1. <<>> \in Block \cup {<<>>} /\ "G" \in Stage
    BY DEF Stage
  <2>2. q \in RowsOver(KnownNodes, KnownBlocks)
    BY <1>4, <1>6, <1>7, <2>1, NewRowIs
  <2>3. q.job = id /\ q.master = fd /\ q.op = "G" /\ q.status = "P"
    BY DEF NewRow
  <2> QED
    BY <2>2, <2>3 DEF n, id
<1>9. e \in PlannedOn(KnownNodes)
  <2>1. [job |-> id, master |-> fd, nodo |-> n, tmps |-> all, file |-> arch]
          \in PlannedOn(KnownNodes)
    BY <1>6, <1>7, NewEntryIs
  <2> QED
    BY <2>1 DEF n, id
<1>10. task \in Task
  <2>1. [nodo |-> n, tmps |-> all] \in Task
    BY <1>4, <1>6 DEF Task
  <2> QED
    BY <2>1 DEF n
<1>11. Table_OK(tabla_nodos') /\ SameNodes(tabla_nodos, tabla_nodos')
  <2>1. n \in Node
    BY <1>4, <1>6
  <2>2. tabla_nodos' = IncreaseNodeCharge(tabla_nodos, n)
    BY <1>1 DEF n
  <2> QED
    BY <1>2, <2>1, <2>2, HandlersKeepTable
<1> HIDE DEF row, e, task, j, planed
<1>12. KnownNodes' = KnownNodes /\ KnownBlocks' = KnownBlocks
  BY <1>1, <1>11, SameKnown
<1>13. tabla_jobs' \in Seq(Job)
  BY <1>1, <1>2, <1>3, SetJobIs
<1>14. tabla_LR_planificados' \in Seq(PlannedOn(KnownNodes))
  BY <1>1, <1>2, DeletePlanedIs
<1>15. tabla_GR_planificados' \in Seq(PlannedOn(KnownNodes))
  BY <1>1, <1>2, <1>9
<1>16. /\ tabla_estados' \in Seq(RowsOver(KnownNodes, KnownBlocks))
       /\ More(tabla_estados, tabla_estados', id, fd, "G")
  <2>1. More(tabla_estados, tabla_estados, id, fd, "G")
    BY DEF More
  <2> QED
    BY <1>1, <1>2, <1>8, <2>1, OneMore
<1>17. salida' \in [FDs -> Seq(Reply)]
  <2>1. <<task>> \in Seq(Task)
    BY <1>10
  <2> QED
    BY <1>1, <1>2, <2>1, RespondIs
<1>18. vivo' \in {"up", "crash", "ub"}
  BY <1>1, <1>2 DEF Tables
<1>19. Tables'
  BY <1>1, <1>2, <1>11, <1>12, <1>13, <1>14, <1>15, <1>16, <1>18 DEF Tables
<1> QED
  BY <1>1, <1>16, <1>17, <1>19 DEF id

LEMMA ProcessFinalStoreTables ==
    ASSUME TypeInv, NEW fd \in FDs, ProcessFinalStore(fd)
    PROVE  /\ Tables' /\ salida' \in [FDs -> Seq(Reply)] /\ abiertos' = abiertos
           /\ More(tabla_estados, tabla_estados', JobOf(fd, "G").id, fd, "S")
<1> DEFINE job == JobOf(fd, "G")
           planed == GRPlannedOf(fd)
           e == planed[1]
           row == NewRow(job.id, fd, e.nodo, <<>>, "S", e.file)
           task == [nodo |-> e.nodo, tmps |-> e.tmps]
           j == [job EXCEPT !.etapa = "S"]
           S == {i \in DOMAIN tabla_GR_planificados : tabla_GR_planificados[i].master # fd}
<1>1. /\ HasJob(fd, "G") /\ planed # <<>>
      /\ tabla_GR_planificados' = Keep(tabla_GR_planificados, S)
      /\ tabla_nodos' = IncreaseNodeCharge(tabla_nodos, e.nodo)
      /\ tabla_estados' = Append(tabla_estados, row)
      /\ SetJob(fd, "G", j) /\ Respond(fd, "S", <<task>>)
      /\ UNCHANGED <<tabla_info_archivos, tabla_T_planificados,
                     tabla_LR_planificados, jobs, config, conectados, vivo, abiertos>>
  BY Zenon DEF ProcessFinalStore
<1>2. /\ Tables /\ SocketsOK /\ tabla_jobs \in Seq(Job) /\ Table_OK(tabla_nodos)
      /\ tabla_estados \in Seq(RowsOver(KnownNodes, KnownBlocks))
      /\ tabla_T_planificados \in Seq(PlannedOn(KnownNodes))
      /\ tabla_LR_planificados \in Seq(PlannedOn(KnownNodes))
      /\ tabla_GR_planificados \in Seq(PlannedOn(KnownNodes))
  BY DEF TypeInv, Tables
<1>3. job \in Job /\ job.id \in Nat /\ j \in Job
  BY <1>1, <1>2, JobOfIs, JobRewritten DEF Stage
<1>4. KnownNodes \in SUBSET Node
  BY <1>2, NodesAreNodes DEF KnownNodes
<1>5. planed \in Seq(PlannedOn(KnownNodes))
  BY <1>2, KeepIs, Zenon DEF GRPlannedOf
<1> DEFINE id == job.id
           n == e.nodo
           all == e.tmps
           arch == e.file
<1>6. n \in KnownNodes /\ all \in Seq(Block) /\ arch \in Files
  <2> HIDE DEF planed
  <2>1. 1 \in DOMAIN planed
    BY <1>1, <1>5
  <2> QED
    BY <1>5, <2>1, EntryFields
<1>7. id \in Nat
  BY <1>3
<1> HIDE DEF n, id, all, arch
<1>8. /\ row \in RowsOver(KnownNodes, KnownBlocks)
      /\ row.job = id /\ row.master = fd /\ row.op = "S" /\ row.status = "P"
  <2> DEFINE q == NewRow(id, fd, n, <<>>, "S", arch)
  <2>1. <<>> \in Block \cup {<<>>} /\ "S" \in Stage
    BY DEF Stage
  <2>2. q \in RowsOver(KnownNodes, KnownBlocks)
    BY <1>4, <1>6, <1>7, <2>1, NewRowIs
  <2>3. q.job = id /\ q.master = fd /\ q.op = "S" /\ q.status = "P"
    BY DEF NewRow
  <2> QED
    BY <2>2, <2>3 DEF n, id, arch
<1>9. task \in Task
  <2>1. [nodo |-> n, tmps |-> all] \in Task
    BY <1>4, <1>6 DEF Task
  <2> QED
    BY <2>1 DEF n, all
<1>10. Table_OK(tabla_nodos') /\ SameNodes(tabla_nodos, tabla_nodos')
  <2>1. n \in Node
    BY <1>4, <1>6
  <2>2. tabla_nodos' = IncreaseNodeCharge(tabla_nodos, n)
    BY <1>1 DEF n
  <2> QED
    BY <1>2, <2>1, <2>2, HandlersKeepTable
<1> HIDE DEF row, e, task, j, planed, S
<1>11. KnownNodes' = KnownNodes /\ KnownBlocks' = KnownBlocks
  BY <1>1, <1>10, SameKnown
<1>12. tabla_jobs' \in Seq(Job)
  BY <1>1, <1>2, <1>3, SetJobIs
<1>13. tabla_GR_planificados' \in Seq(PlannedOn(KnownNodes))
  BY <1>1, <1>2, KeepIs
<1>14. /\ tabla_estados' \in Seq(RowsOver(KnownNodes, KnownBlocks))
       /\ More(tabla_estados, tabla_estados', id, fd, "S")
  <2>1. More(tabla_estados, tabla_estados, id, fd, "S")
    BY DEF More
  <2> QED
    BY <1>1, <1>2, <1>8, <2>1, OneMore
<1>15. salida' \in [FDs -> Seq(Reply)]
  <2>1. <<task>> \in Seq(Task)
    BY <1>9
  <2> QED
    BY <1>1, <1>2, <2>1, RespondIs
<1>16. Tables'
  BY <1>1, <1>2, <1>10, <1>11, <1>12, <1>13, <1>14 DEF Tables
<1> QED
  BY <1>1, <1>14, <1>15, <1>16 DEF id
(* findBlock finds a block of the number it is asked for.                  *)
LEMMA FindBlockIs ==
    ASSUME tabla_info_archivos \in Seq(Files), NEW b \in Block, b[2] \in KnownBlocks
    PROVE  FindBlock(b) \in Block /\ FindBlock(b)[2] = b[2]
<1> DEFINE S == {k \in DOMAIN tabla_info_archivos :
                   b[2] \in DOMAIN Layout[tabla_info_archivos[k]]}
           arch == tabla_info_archivos[First(S)]
<1>1. S \in SUBSET Nat /\ S # {}
  BY DEF KnownBlocks, Findable
<1>2. First(S) \in S
  BY <1>1, FirstIs
<1> HIDE DEF S
<1>3. arch \in Files
  BY <1>2 DEF S
<1>4. FindBlock(b) = <<arch, b[2]>>
  BY Zenon DEF FindBlock, S
<1>5. b[2] \in Nat \ {0}
  BY DEF Block
<1> HIDE DEF arch
<1> QED
  BY <1>3, <1>4, <1>5 DEF Block

(* The positions of s \o w after those of s are the positions of w.        *)
LEMMA RestOfJoin ==
    ASSUME NEW R, NEW s \in Seq(R), NEW w \in Seq(R)
    PROVE  /\ \A i \in DOMAIN (s \o w) \ DOMAIN s :
                 \E k \in DOMAIN w : (s \o w)[i] = w[k]
           /\ \A k \in DOMAIN w :
                 \E i \in DOMAIN (s \o w) \ DOMAIN s : (s \o w)[i] = w[k]
<1>1. /\ DOMAIN s = 1 .. Len(s) /\ DOMAIN w = 1 .. Len(w)
      /\ Len(s) \in Nat /\ Len(w) \in Nat /\ DOMAIN (s \o w) = 1 .. Len(s) + Len(w)
      /\ \A i \in 1 .. Len(s) + Len(w) :
            (s \o w)[i] = IF i <= Len(s) THEN s[i] ELSE w[i - Len(s)]
  OBVIOUS
<1>2. \A i \in DOMAIN (s \o w) \ DOMAIN s :
         i - Len(s) \in DOMAIN w /\ (s \o w)[i] = w[i - Len(s)]
  BY <1>1
<1>3. \A k \in DOMAIN w : /\ Len(s) + k \in DOMAIN (s \o w) \ DOMAIN s
                          /\ (s \o w)[Len(s) + k] = w[k]
  BY <1>1
<1> QED
  BY <1>2, <1>3

(* What a replanning does to the rows.                                     *)
ReplannedRows(fd, n) ==
    LET id == JobOf(fd, "T").id
        failed == RowsOn(id, fd, "T", n)
        old == DOMAIN tabla_estados
        new == DOMAIN tabla_estados' \ DOMAIN tabla_estados
    IN  /\ More(Marked(InProcess(failed), "E"), tabla_estados', id, fd, "T")
        /\ \A i \in new : /\ Healthy(IncreaseNodeError(tabla_nodos, n), tabla_estados'[i].node)
                          /\ \E q \in failed :
                               tabla_estados'[i].block[2] = tabla_estados[q].block[2]
        /\ \A q \in failed : \E i \in new :
              tabla_estados'[i].block[2] = tabla_estados[q].block[2]

(* The blocks to plan again.                                               *)
LEMMA FailedBlocks ==
    ASSUME Tables, NEW failed, failed \subseteq DOMAIN tabla_estados,
           \A q \in failed : tabla_estados[q].op = "T"
    PROVE  LET rows == Keep(tabla_estados, failed)
               bs == [k \in DOMAIN rows |-> FindBlock(rows[k].block)]
           IN  /\ rows # <<>> => rows[1].file \in Files /\ tabla_nodos # <<>>
               /\ bs \in Seq(Block) /\ DOMAIN bs = DOMAIN rows
               /\ \A k \in DOMAIN bs :
                     /\ bs[k][2] \in KnownBlocks
                     /\ \E q \in failed : bs[k][2] = tabla_estados[q].block[2]
               /\ \A q \in failed : \E k \in DOMAIN bs : bs[k][2] = tabla_estados[q].block[2]
<1> DEFINE rows == Keep(tabla_estados, failed)
           bs == [k \in DOMAIN rows |-> FindBlock(rows[k].block)]
           R == RowsOver(KnownNodes, KnownBlocks)
<1>1. tabla_estados \in Seq(R) /\ tabla_info_archivos \in Seq(Files)
  BY DEF Tables
<1>2. \A i \in DOMAIN tabla_estados : tabla_estados[i] \in R
  BY <1>1
<1>3. /\ rows \in Seq(R)
      /\ \A k \in DOMAIN rows : \E i \in DOMAIN tabla_estados \cap failed : rows[k] = tabla_estados[i]
      /\ \A i \in DOMAIN tabla_estados \cap failed : \E k \in DOMAIN rows : rows[k] = tabla_estados[i]
  <2> HIDE DEF R
  <2>1. rows \in Seq(R)
    BY <1>1, KeepIs
  <2>2. \A k \in DOMAIN rows : \E i \in DOMAIN tabla_estados \cap failed : rows[k] = tabla_estados[i]
    BY <1>1, <2>1, KeepIs
  <2>3. \A i \in DOMAIN tabla_estados \cap failed : \E k \in DOMAIN rows : rows[k] = tabla_estados[i]
    BY <1>1, <2>1, KeepIs
  <2> QED
    BY <2>1, <2>2, <2>3
<1>4. DOMAIN tabla_estados \cap failed = failed
  OBVIOUS
<1> HIDE DEF rows
<1>5. \A r \in R : r.node \in KnownNodes /\ r.file \in Files
         /\ (r.op = "T" => r.block \in Block /\ r.block[2] \in KnownBlocks)
  BY DEF RowsOver, Row
<1> HIDE DEF R
<1>6. ASSUME NEW k \in DOMAIN rows
      PROVE  /\ FindBlock(rows[k].block) \in Block
             /\ FindBlock(rows[k].block)[2] = rows[k].block[2]
             /\ rows[k].block[2] \in KnownBlocks
             /\ \E q \in failed : rows[k] = tabla_estados[q]
  <2>1. PICK q \in failed : rows[k] = tabla_estados[q]
    BY <1>3, <1>4
  <2>2. rows[k].block \in Block /\ rows[k].block[2] \in KnownBlocks
    BY <1>2, <1>5, <2>1
  <2> QED
    BY <1>1, <2>1, <2>2, FindBlockIs
<1>7. DOMAIN rows = 1 .. Len(rows) /\ Len(rows) \in Nat
  BY <1>3
<1>8. bs \in Seq(Block) /\ DOMAIN bs = DOMAIN rows
  <2>1. bs \in [1 .. Len(rows) -> Block]
    BY <1>6, <1>7
  <2> QED
    BY <1>7, <2>1
<1>9. \A k \in DOMAIN rows : bs[k][2] = rows[k].block[2]
  BY <1>6
<1> HIDE DEF bs
<1>10. \A k \in DOMAIN bs :
         /\ bs[k][2] \in KnownBlocks
         /\ \E q \in failed : bs[k][2] = tabla_estados[q].block[2]
  <2> SUFFICES ASSUME NEW k \in DOMAIN bs
               PROVE  /\ bs[k][2] \in KnownBlocks
                      /\ \E q \in failed : bs[k][2] = tabla_estados[q].block[2]
    OBVIOUS
  <2>1. k \in DOMAIN rows /\ bs[k][2] = rows[k].block[2] /\ rows[k].block[2] \in KnownBlocks
    BY <1>6, <1>8, <1>9
  <2>2. PICK q \in failed : rows[k] = tabla_estados[q]
    BY <1>6, <2>1
  <2> QED
    BY <2>1, <2>2
<1>11. \A q \in failed : \E k \in DOMAIN bs : bs[k][2] = tabla_estados[q].block[2]
  <2> SUFFICES ASSUME NEW q \in failed
               PROVE  \E k \in DOMAIN bs : bs[k][2] = tabla_estados[q].block[2]
    OBVIOUS
  <2>1. PICK k \in DOMAIN rows : rows[k] = tabla_estados[q]
    BY <1>3, <1>4
  <2> QED
    BY <1>8, <1>9, <2>1
<1>12. rows # <<>> => rows[1].file \in Files /\ tabla_nodos # <<>>
  <2> SUFFICES ASSUME rows # <<>> PROVE rows[1].file \in Files /\ tabla_nodos # <<>>
    OBVIOUS
  <2>1. 1 \in DOMAIN rows /\ rows[1] \in R
    BY <1>3
  <2>2. rows[1].file \in Files /\ rows[1].node \in KnownNodes
    BY <1>5, <2>1
  <2> QED
    BY <2>2 DEF KnownNodes, NodesOf
<1> QED
  BY <1>8, <1>10, <1>11, <1>12 DEF bs, rows
LEMMA NothingSorted == SortByNode(<<>>) = <<>>
<1> DEFINE z == <<>>
           next(a, e) == LET upTo == {i \in DOMAIN a : a[i].nodo <= e.nodo}
                         IN  InsertAt(a, Cardinality(upTo) + 1, e)
           body(h) == [k \in 0 .. Len(z) |-> IF k = 0 THEN <<>> ELSE next(h[k - 1], z[k])]
           f == CHOOSE h : h = body(h)
<1>1. Len(z) = 0 /\ 0 .. 0 = {0}
  OBVIOUS
<1>2. [k \in {0} |-> <<>>] = body([k \in {0} |-> <<>>])
  <2> HIDE DEF next
  <2> QED
    BY <1>1
<1>3. f = body(f)
  <2> HIDE DEF body
  <2> QED
    BY <1>2
<1>4. f[0] = <<>>
  <2> HIDE DEF f, next
  <2> QED
    BY <1>1, <1>3
<1>5. SortByNode(z) = f[Len(z)]
  BY Zenon DEF SortByNode
<1> HIDE DEF f
<1> QED
  BY <1>1, <1>4, <1>5

LEMMA ReplanTaskTables ==
    ASSUME TypeInv, NEW fd \in FDs, ReplanTask(fd)
    PROVE  /\ Tables' /\ salida' \in [FDs -> Seq(Reply)] /\ abiertos' = abiertos
           /\ \/ tabla_jobs' = tabla_jobs /\ tabla_estados' = tabla_estados
              \/ /\ SetJob(fd, "T", [JobOf(fd, "T") EXCEPT !.replanificaciones = 1])
                 /\ ReplannedRows(fd, Head(pedidos[fd]).node)
<1> DEFINE n == Head(pedidos[fd]).node
           job == JobOf(fd, "T")
           failed == RowsOn(job.id, fd, "T", n)
           ix == InProcess(failed)
           rows == Keep(tabla_estados, failed)
           arch == rows[1].file
           t == IncreaseNodeError(tabla_nodos, n)
           bs == [k \in DOMAIN rows |-> FindBlock(rows[k].block)]
           p == PlanBlocks(t, bs)
           sorted == SortByNode(p.tasks)
           j == [job EXCEPT !.replanificaciones = 1]
           s == Marked(ix, "E")
           w == TransformationRows(p.tasks, job.id, fd, arch)
           es == PlannedEntries(sorted, job.id, fd, arch)
<1>1. /\ pedidos[fd] # <<>> /\ Head(pedidos[fd]).op = "E" /\ HasJob(fd, "T")
      /\ \/ p.overflow /\ Crash
         \/ /\ ~p.overflow
            /\ tabla_nodos' = p.nodos
            /\ tabla_estados' = s \o w
            /\ tabla_T_planificados' = PlannedElsewhere(fd, n) \o es
            /\ SetJob(fd, "T", j)
            /\ Respond(fd, "R", sorted)
            /\ UNCHANGED <<tabla_info_archivos, tabla_LR_planificados,
                           tabla_GR_planificados, jobs, config, conectados,
                           vivo, abiertos>>
  BY Zenon DEF ReplanTask, NodeFailed, Attend, Receive
<1>2. CASE p.overflow /\ Crash
  BY <1>2, CrashTables DEF TypeInv, SocketsOK
<1>3. CASE /\ ~p.overflow
           /\ tabla_nodos' = p.nodos
           /\ tabla_estados' = s \o w
           /\ tabla_T_planificados' = PlannedElsewhere(fd, n) \o es
           /\ SetJob(fd, "T", j)
           /\ Respond(fd, "R", sorted)
           /\ UNCHANGED <<tabla_info_archivos, tabla_LR_planificados,
                          tabla_GR_planificados, jobs, config, conectados,
                          vivo, abiertos>>
  <2> DEFINE id == job.id
             N == KnownNodes
             I == KnownBlocks
  <2>1. /\ Tables /\ SocketsOK /\ tabla_jobs \in Seq(Job) /\ Table_OK(tabla_nodos)
        /\ tabla_estados \in Seq(RowsOver(N, I))
        /\ tabla_info_archivos \in Seq(Files)
        /\ tabla_T_planificados \in Seq(PlannedOn(N))
        /\ tabla_LR_planificados \in Seq(PlannedOn(N))
        /\ tabla_GR_planificados \in Seq(PlannedOn(N))
    BY DEF TypeInv, Tables
  <2>2. n \in Node
    BY <1>1, <2>1, MessageIs
  <2>3. id \in Nat /\ j \in Job
    <3>1. job \in Job /\ id \in Nat
      BY <1>1, <2>1, JobOfIs
    <3>2. 1 \in 0 .. 2
      OBVIOUS
    <3> HIDE DEF job
    <3> QED
      BY <3>1, <3>2, JobRewritten
  <2>4. N \in SUBSET Node
    BY <2>1, NodesAreNodes DEF KnownNodes
  <2>5. Table_OK(t) /\ SameNodes(tabla_nodos, t) /\ (tabla_nodos # <<>> => t # <<>>)
    <3>1. Table_OK(t) /\ SameNodes(tabla_nodos, t)
      BY <2>1, <2>2, HandlersKeepTable
    <3>2. t = <<>> => tabla_nodos = <<>>
      BY <2>1, <3>1 DEF SameNodes, Table_OK
    <3> QED
      BY <3>1, <3>2
  <2>6. /\ failed \subseteq DOMAIN tabla_estados
        /\ \A q \in failed : tabla_estados[q].op = "T"
    BY DEF RowsOn, RowsOf
  <2> HIDE DEF failed
  <2>7. /\ rows # <<>> => arch \in Files /\ tabla_nodos # <<>>
        /\ bs \in Seq(Block) /\ DOMAIN bs = DOMAIN rows
        /\ \A k \in DOMAIN bs :
              /\ bs[k][2] \in I
              /\ \E q \in failed : bs[k][2] = tabla_estados[q].block[2]
        /\ \A q \in failed : \E k \in DOMAIN bs : bs[k][2] = tabla_estados[q].block[2]
    BY <2>1, <2>6, FailedBlocks
  <2>8. bs # <<>> => rows # <<>>
    <3>1. rows = <<>> => DOMAIN bs = {}
      BY <2>7
    <3> HIDE DEF bs, rows
    <3> QED
      BY <2>7, <3>1
  <2>9. bs # <<>> => arch \in Files /\ t # <<>>
    BY <2>5, <2>7, <2>8
  <2> HIDE DEF rows, bs, arch, t
  <2>10. /\ Table_OK(p.nodos) /\ SameNodes(t, p.nodos)
         /\ p.tasks \in Seq(TasksOf(Node)) /\ DOMAIN p.tasks = DOMAIN bs
         /\ \A k \in DOMAIN bs : /\ Healthy(t, p.tasks[k].nodo)
                                 /\ p.tasks[k].tmps = <<bs[k]>>
    BY <1>3, <2>1, <2>5, <2>7, <2>9, ConfigIs, PlanBlocksIs
  <2> HIDE DEF p
  <2> DEFINE tasks == p.tasks
  <2>11. tasks \in Seq(TasksOf(N))
    <3>1. NodesOf(t) = N
      BY <2>5, SameNodesOf DEF KnownNodes
    <3>2. \A k \in DOMAIN tasks : tasks[k].nodo \in NodesOf(t)
      BY <2>10 DEF Healthy, NodesOf
    <3> HIDE DEF N, tasks
    <3>3. tasks \in Seq(TasksOf(Node))
      BY <2>10 DEF tasks
    <3> QED
      BY <3>1, <3>2, <3>3, TasksKnown
  <2>12. /\ tasks # <<>> => arch \in Files
         /\ \A k \in DOMAIN tasks : \E b \in Block : tasks[k].tmps = <<b>> /\ b[2] \in I
    <3>1. tasks # <<>> => bs # <<>>
      BY <2>7, <2>10
    <3>2. \A k \in DOMAIN tasks : /\ bs[k] \in Block /\ bs[k][2] \in I
                                  /\ tasks[k].tmps = <<bs[k]>>
      BY <2>7, <2>10
    <3> QED
      BY <2>9, <3>1, <3>2
  <2>13. sorted \in Seq(TasksOf(N))
    BY <2>11, SortByNodeIs
  <2> HIDE DEF sorted, tasks, id, N, I
  <2>14. w \in Seq(RowsOver(N, I))
    <3>1. TransformationRows(tasks, id, fd, arch) \in Seq(RowsOver(N, I))
      BY <2>3, <2>4, <2>11, <2>12, RowsOfTasks
    <3> QED
      BY <3>1 DEF tasks, id
  <2>15. /\ DOMAIN w = DOMAIN tasks
         /\ \A k \in DOMAIN w : /\ w[k].job = id /\ w[k].master = fd /\ w[k].op = "T"
                                /\ w[k].status = "P" /\ w[k].node = tasks[k].nodo
                                /\ w[k].block = tasks[k].tmps[1]
    <3> DEFINE v == TransformationRows(tasks, id, fd, arch)
    <3>1. /\ DOMAIN v = DOMAIN tasks
          /\ \A k \in DOMAIN tasks :
                /\ v[k].job = id /\ v[k].master = fd /\ v[k].op = "T"
                /\ v[k].status = "P" /\ v[k].node = tasks[k].nodo
                /\ v[k].block = tasks[k].tmps[1]
      BY RowsShape
    <3>2. v = w
      BY DEF tasks, id
    <3> HIDE DEF v, w
    <3> QED
      BY <3>1, <3>2
  <2>16. es \in Seq(PlannedOn(N))
    <3>1. sorted # <<>> => arch \in Files
      <4>1. p.tasks = <<>> => sorted = <<>>
        BY NothingSorted DEF sorted
      <4> QED
        BY <2>12, <4>1 DEF tasks
    <3>2. PlannedEntries(sorted, id, fd, arch) \in Seq(PlannedOn(N))
      BY <2>3, <2>13, <3>1, EntriesOfTasks
    <3> QED
      BY <3>2 DEF id
  <2> HIDE DEF w, es, ix, j
  <2>17. /\ s \in Seq(RowsOver(N, I)) /\ DOMAIN s = DOMAIN tabla_estados
    BY <2>1, MarkedIs
  <2> HIDE DEF s
  <2>18. tabla_estados' \in Seq(RowsOver(N, I)) /\ More(s, tabla_estados', id, fd, "T")
    BY <1>3, <2>14, <2>15, <2>17, Joins
  <2>19. KnownNodes' = N /\ KnownBlocks' = I
    <3>1. SameNodes(tabla_nodos, tabla_nodos')
      BY <1>3, <2>5, <2>10 DEF SameNodes
    <3> QED
      BY <1>3, <3>1, SameKnown DEF N, I
  <2>20. tabla_jobs' \in Seq(Job)
    BY <1>1, <1>3, <2>1, <2>3, SetJobIs
  <2>21. tabla_T_planificados' \in Seq(PlannedOn(N))
    <3>1. PlannedElsewhere(fd, n) \in Seq(PlannedOn(N))
      BY <2>1, PlannedElsewhereIs
    <3> QED
      BY <1>3, <2>16, <3>1
  <2>22. salida' \in [FDs -> Seq(Reply)]
    <3>1. sorted \in Seq(Task)
      BY <2>4, <2>13, TasksAreTasks
    <3> QED
      BY <1>3, <2>1, <3>1, RespondIs
  <2>23. Tables'
    BY <1>3, <2>1, <2>10, <2>18, <2>19, <2>20, <2>21 DEF Tables
  <2>24. ReplannedRows(fd, n)
    <3> DEFINE new == DOMAIN tabla_estados' \ DOMAIN tabla_estados
    <3>1. /\ \A i \in new : \E k \in DOMAIN w : tabla_estados'[i] = w[k]
          /\ \A k \in DOMAIN w : \E i \in new : tabla_estados'[i] = w[k]
      BY <1>3, <2>14, <2>17, RestOfJoin
    <3>2. \A k \in DOMAIN w : /\ k \in DOMAIN bs /\ w[k].block[2] = bs[k][2]
                              /\ Healthy(t, w[k].node)
      BY <2>10, <2>15 DEF tasks
    <3>3. DOMAIN w = DOMAIN bs
      BY <2>10, <2>15 DEF tasks
    <3> HIDE DEF new
    <3>4. ASSUME NEW i \in new
          PROVE  /\ Healthy(t, tabla_estados'[i].node)
                 /\ \E q \in failed : tabla_estados'[i].block[2] = tabla_estados[q].block[2]
      <4>1. PICK k \in DOMAIN w : tabla_estados'[i] = w[k]
        BY <3>1
      <4>2. PICK q \in failed : bs[k][2] = tabla_estados[q].block[2]
        BY <2>7, <3>2
      <4> QED
        BY <3>2, <4>1, <4>2
    <3>5. ASSUME NEW q \in failed
          PROVE  \E i \in new : tabla_estados'[i].block[2] = tabla_estados[q].block[2]
      <4>1. PICK k \in DOMAIN bs : bs[k][2] = tabla_estados[q].block[2]
        BY <2>7
      <4>2. PICK i \in new : tabla_estados'[i] = w[k]
        BY <3>1, <3>3
      <4> QED
        BY <3>2, <3>3, <4>1, <4>2
    <3> QED
      BY <2>18, <3>4, <3>5 DEF ReplannedRows, s, ix, failed, id, t, new
  <2> QED
    BY <1>3, <2>22, <2>23, <2>24 DEF j
<1> QED
  BY <1>1, <1>2, <1>3
-----------------------------------------------------------------------------
(* The types are inductive: YAMA.                                          *)
LEMMA ReceivesSomething ==
    ASSUME NEW fd, GetMasterMessage(fd)
    PROVE  \E op : Receive(fd, op)
<1>1. \A op : Attend(fd, op) => Receive(fd, op)
  BY DEF Attend
<1> QED
  BY <1>1 DEF GetMasterMessage, ProcessTransformation, FileNotAvailable,
              ProcessLocalReduction, LocalReductionNotReady, ProcessGlobalReduction,
              GlobalReductionRefused, ProcessFinalStore, StageNotReady, ProcessOk,
              ReplanTask, ReplanRefused, NodeFailed, AbortJob, ErrorIgnored,
              MasterDisconnected, MasterReset

LEMMA YamaTypes ==
    ASSUME TypeInv, NEW fd \in FDs, GetMasterMessage(fd), UNCHANGED masterVars
    PROVE  TypeInv'
<1>1. \E op : Receive(fd, op)
  BY ReceivesSomething
<1>2. Tables' /\ salida' \in [FDs -> Seq(Reply)] /\ abiertos' = abiertos
  BY TransformationTables, FileNotAvailableTables, ProcessLocalReductionTables,
     NotReadyTables, ProcessGlobalReductionTables, GlobalReductionRefusedTables,
     ProcessFinalStoreTables, ProcessOkTables, ReplanTaskTables, ReplanRefusedTables,
     AbortJobTables, QuietTables, MasterDisconnectedTables DEF GetMasterMessage
<1> QED
  BY <1>1, <1>2, HandlerTypeInv

(* Nothing of YAMA changes, or only the connection or the configuration.   *)
LEMMA QuietYama ==
    ASSUME Tables,
           UNCHANGED <<tabla_nodos, tabla_jobs, tabla_estados, tabla_info_archivos,
                       planificados, vivo>>,
           jobs' \in Nat, config' \in Configs, conectados' \in SUBSET FDs
    PROVE  Tables'
<1>1. KnownNodes' = KnownNodes /\ KnownBlocks' = KnownBlocks
  BY DEF KnownNodes, KnownBlocks
<1> QED
  BY <1>1 DEF Tables, planificados

LEMMA ConnectsTypes ==
    ASSUME TypeInv, NEW fd \in FDs, MasterConnects(fd)
    PROVE  TypeInv'
<1>1. /\ jobs' = jobs + 1 /\ conectados' = conectados \cup {fd}
      /\ abiertos' = abiertos \cup {fd}
      /\ UNCHANGED <<tabla_nodos, tabla_jobs, tabla_estados, tabla_info_archivos,
                     planificados, config, vivo, pedidos, salida>>
      /\ pc' = [pc EXCEPT ![fd] = "conectado"]
      /\ UNCHANGED <<hilos, leido, replanification, abortJob, faults>>
  BY DEF MasterConnects, AcceptMasterConnection, GoTo
<1>2. Tables'
  BY <1>1, QuietYama DEF TypeInv, Tables
<1>3. SocketsOK'
  BY <1>1 DEF TypeInv, SocketsOK
<1>4. MasterOK'
  BY <1>1 DEF TypeInv, MasterOK
<1> QED
  BY <1>2, <1>3, <1>4 DEF TypeInv

LEMMA ReloadTypes ==
    ASSUME TypeInv, NEW c \in Configs, ReloadConfig(c), UNCHANGED masterVars
    PROVE  TypeInv'
<1>1. Tables'
  BY QuietYama DEF TypeInv, Tables, ReloadConfig
<1>2. SocketsOK' /\ MasterOK'
  BY DEF TypeInv, SocketsOK, MasterOK, ReloadConfig, sockets, masterVars
<1> QED
  BY <1>1, <1>2 DEF TypeInv
-----------------------------------------------------------------------------
(* The types are inductive: the masters.                                   *)

(* What a master sends.                                                    *)
LEMMA MessagesAre ==
    /\ \A arch \in Files : [op |-> "T", file |-> arch] \in Message
    /\ \A o \in {"L", "G", "S", "FIN", "RST"} : [op |-> o] \in Message
    /\ \A e \in Stage, b \in Block \cup {<<>>}, n \in Node :
          [op |-> "O", etapa |-> e, block |-> b, node |-> n] \in Message
    /\ \A e \in Stage, n \in Node : [op |-> "E", etapa |-> e, node |-> n] \in Message
BY DEF Message

LEMMA SendIs ==
    ASSUME SocketsOK, NEW fd \in FDs, NEW ms \in Seq(Message), Send(fd, ms)
    PROVE  pedidos' \in [FDs -> Seq(Message)]
<1>1. pedidos[fd] \o ms \in Seq(Message)
  BY DEF SocketsOK
<1>2. pedidos' = [pedidos EXCEPT ![fd] = pedidos[fd] \o ms]
  BY Zenon DEF Send
<1> QED
  BY <1>1, <1>2 DEF SocketsOK

LEMMA ExitTypes ==
    ASSUME TypeInv, NEW fd \in FDs, NEW ms \in Seq(Message), Exit(fd, ms),
           UNCHANGED yamaVars, faults' \in 0 .. MaxFaults
    PROVE  TypeInv'
<1>1. PICK close \in {"FIN", "RST"} : Send(fd, Append(ms, [op |-> close]))
  BY DEF Exit
<1>2. /\ abiertos' = abiertos \ {fd}
      /\ salida' = [salida EXCEPT ![fd] = <<>>]
      /\ pc' = [pc EXCEPT ![fd] = "off"]
      /\ hilos' = [hilos EXCEPT ![fd] = {}]
      /\ leido' = [leido EXCEPT ![fd] = 0]
      /\ replanification' = [replanification EXCEPT ![fd] = FALSE]
      /\ abortJob' = [abortJob EXCEPT ![fd] = FALSE]
  BY DEF Exit, GoTo
<1>3. Append(ms, [op |-> close]) \in Seq(Message)
  BY MessagesAre
<1>4. pedidos' \in [FDs -> Seq(Message)]
  BY <1>1, <1>3, SendIs DEF TypeInv
<1>5. <<>> \in Seq(Reply)
  BY EmptySeq
<1>6. SocketsOK'
  BY <1>2, <1>4, <1>5 DEF TypeInv, SocketsOK
<1>7. MasterOK'
  BY <1>2 DEF TypeInv, MasterOK
<1>8. Tables'
  BY QuietYama DEF TypeInv, Tables, yamaVars
<1> QED
  BY <1>6, <1>7, <1>8 DEF TypeInv

(* A step of a master that does not end it.                                *)
LEMMA StaysTypes ==
    ASSUME TypeInv, UNCHANGED <<yamaVars, abiertos>>,
           pedidos' \in [FDs -> Seq(Message)], salida' \in [FDs -> Seq(Reply)],
           MasterOK'
    PROVE  TypeInv'
<1>1. Tables'
  BY QuietYama DEF TypeInv, Tables, yamaVars
<1>2. SocketsOK'
  BY DEF TypeInv, SocketsOK
<1> QED
  BY <1>1, <1>2 DEF TypeInv

LEMMA ThreadsAre ==
    ASSUME NEW data \in Seq(Task)
    PROVE  ThreadsFor(data) \subseteq Thread
<1>1. Len(data) \in Nat /\ DOMAIN data = 1 .. Len(data)
  OBVIOUS
<1>2. \A k \in DOMAIN data : data[k].nodo \in Node /\ data[k].tmps \in Seq(Block)
  <2>1. \A k \in DOMAIN data : data[k] \in Task
    OBVIOUS
  <2> QED
    BY <2>1 DEF Task
<1>3. Grouped(data) \in Seq(TasksOf(Node))
  BY <1>1, <1>2, GroupedIs
<1> DEFINE g == Grouped(data)
<1> HIDE DEF g
<1>4. \A r \in ToSet(g) : r \in TasksOf(Node)
  BY <1>3 DEF g, ToSet
<1>5. \A r \in ToSet(g) : [nodo |-> r.nodo, tmps |-> r.tmps, estado |-> "corre"] \in Thread
  BY <1>4 DEF TasksOf, Thread
<1>6. ThreadsFor(data) = {[nodo |-> r.nodo, tmps |-> r.tmps, estado |-> "corre"] : r \in ToSet(g)}
  BY Zenon DEF ThreadsFor, g
<1> QED
  BY <1>5, <1>6

LEMMA StartTypes ==
    ASSUME TypeInv, NEW fd \in FDs, NEW label \in {"T", "L", "G", "S"},
           StartThreads(fd, label), salida[fd] # <<>>, UNCHANGED yamaVars
    PROVE  TypeInv'
<1>1. /\ hilos' = [hilos EXCEPT ![fd] = ThreadsFor(Head(salida[fd]).data)]
      /\ salida' = [salida EXCEPT ![fd] = Tail(salida[fd])]
      /\ leido' = [leido EXCEPT ![fd] = 0]
      /\ pc' = [pc EXCEPT ![fd] = label]
      /\ UNCHANGED <<pedidos, abiertos, replanification, abortJob, faults>>
  BY Zenon DEF StartThreads, GoTo
<1>2. salida[fd] \in Seq(Reply)
  BY DEF TypeInv, SocketsOK
<1>3. Head(salida[fd]) \in Reply /\ Tail(salida[fd]) \in Seq(Reply)
  BY <1>2
<1>4. ThreadsFor(Head(salida[fd]).data) \subseteq Thread
  BY <1>3, ThreadsAre DEF Reply
<1>5. salida' \in [FDs -> Seq(Reply)] /\ pedidos' \in [FDs -> Seq(Message)]
  BY <1>1, <1>3 DEF TypeInv, SocketsOK
<1>6. MasterOK'
  BY <1>1, <1>4 DEF TypeInv, MasterOK
<1> QED
  BY <1>1, <1>5, <1>6, StaysTypes
(* One message sent, and the state of the master of fd rewritten.          *)
LEMMA SendsTypes ==
    ASSUME TypeInv, NEW fd \in FDs, NEW ms \in Seq(Message), Send(fd, ms),
           UNCHANGED <<yamaVars, abiertos, salida, leido, replanification>>,
           pc' = pc \/ \E l \in {"esperaT", "esperaL", "esperaG", "esperaS"} : GoTo(fd, l),
           NEW H, H \subseteq Thread, hilos' = [hilos EXCEPT ![fd] = H],
           abortJob' = abortJob \/ abortJob' = [abortJob EXCEPT ![fd] = TRUE],
           faults' \in 0 .. MaxFaults
    PROVE  TypeInv'
<1>1. pedidos' \in [FDs -> Seq(Message)]
  BY SendIs DEF TypeInv
<1>2. salida' \in [FDs -> Seq(Reply)]
  BY DEF TypeInv, SocketsOK
<1>3. MasterOK'
  BY DEF TypeInv, MasterOK, GoTo
<1> QED
  BY <1>1, <1>2, <1>3, StaysTypes

LEMMA ThreadIs ==
    ASSUME MasterOK, NEW fd \in FDs, NEW h \in hilos[fd]
    PROVE  /\ h \in Thread /\ h.nodo \in Node /\ h.tmps \in Seq(Block)
           /\ [h EXCEPT !.estado = "espera"] \in Thread
           /\ hilos[fd] \subseteq Thread
           /\ \A ts \in Seq(Block) : [h EXCEPT !.tmps = ts] \in Thread
<1>1. hilos[fd] \subseteq Thread
  BY DEF MasterOK
<1>2. h \in Thread
  BY <1>1
<1> QED
  BY <1>1, <1>2 DEF Thread

LEMMA TransformedTypes ==
    ASSUME TypeInv, NEW fd \in FDs, NEW h \in hilos[fd], NEW k \in DOMAIN h.tmps,
           BlockTransformed(fd, h, k), UNCHANGED yamaVars
    PROVE  TypeInv'
<1> DEFINE m == [op |-> "O", etapa |-> "T", block |-> h.tmps[k], node |-> h.nodo]
           rest == RemoveAt(h.tmps, k)
           H == (hilos[fd] \ {h}) \cup (IF rest = <<>> THEN {} ELSE {[h EXCEPT !.tmps = rest]})
<1>1. /\ Send(fd, <<m>>) /\ hilos' = [hilos EXCEPT ![fd] = H]
      /\ UNCHANGED <<salida, abiertos, pc, leido, replanification, abortJob, faults>>
  BY Zenon DEF BlockTransformed
<1>2. h.nodo \in Node /\ h.tmps \in Seq(Block) /\ hilos[fd] \subseteq Thread
  BY ThreadIs DEF TypeInv
<1>3. <<m>> \in Seq(Message)
  <2>1. h.tmps[k] \in Block \cup {<<>>} /\ "T" \in Stage
    BY <1>2 DEF Stage
  <2>2. m \in Message
    BY <1>2, <2>1, MessagesAre
  <2> HIDE DEF m
  <2> QED
    BY <2>2
<1>4. rest \in Seq(Block)
  <2> DEFINE s == h.tmps
  <2>1. s \in Seq(Block) /\ k \in 1 .. Len(s) /\ Len(s) \in Nat
    BY <1>2
  <2> HIDE DEF s
  <2>2. SubSeq(s, 1, k - 1) \in Seq(Block) /\ SubSeq(s, k + 1, Len(s)) \in Seq(Block)
    BY <2>1
  <2>3. SubSeq(s, 1, k - 1) \o SubSeq(s, k + 1, Len(s)) \in Seq(Block)
    BY <2>2
  <2> QED
    BY <2>3 DEF RemoveAt, s
<1>5. [h EXCEPT !.tmps = rest] \in Thread
  BY <1>4, ThreadIs DEF TypeInv
<1>6. H \subseteq Thread
  BY <1>2, <1>5
<1> HIDE DEF H, m, rest
<1>7. faults' \in 0 .. MaxFaults
  BY <1>1 DEF TypeInv, MasterOK
<1> QED
  BY <1>1, <1>3, <1>6, <1>7, SendsTypes

LEMMA MasterTypes ==
    ASSUME TypeInv, NEW fd \in FDs, MasterStep(fd), UNCHANGED yamaVars
    PROVE  TypeInv'
<1>1. /\ MasterOK /\ SocketsOK /\ faults \in 0 .. MaxFaults
      /\ hilos[fd] \subseteq Thread /\ hilos = [hilos EXCEPT ![fd] = hilos[fd]]
  BY DEF TypeInv, MasterOK
<1>2. ASSUME NEW arch \in Files, SendTRequest(fd, arch) PROVE TypeInv'
  <2> DEFINE ms == <<[op |-> "T", file |-> arch]>>
  <2>1. ms \in Seq(Message)
    BY MessagesAre
  <2>2. /\ Send(fd, ms) /\ GoTo(fd, "esperaT")
        /\ UNCHANGED <<salida, abiertos, hilos, leido, replanification, abortJob, faults>>
    BY <1>2 DEF SendTRequest
  <2> HIDE DEF ms
  <2> QED
    BY <1>1, <2>1, <2>2, SendsTypes
<1>3. CASE TransformationReply(fd) \/ LocalReductionReply(fd) \/ LastStagesReply(fd)
  BY <1>3, StartTypes DEF TransformationReply, LocalReductionReply, LastStagesReply
<1>4. <<>> \in Seq(Message)
  BY EmptySeq
<1>5. CASE TransformationRefused(fd)
  <2>1. Exit(fd, <<>>) /\ faults' \in 0 .. MaxFaults
    BY <1>1, <1>5 DEF TransformationRefused
  <2> QED
    BY <1>4, <2>1, ExitTypes
<1>6. ASSUME NEW h \in hilos[fd], NEW k \in DOMAIN h.tmps, BlockTransformed(fd, h, k)
      PROVE  TypeInv'
  BY <1>6, TransformedTypes
<1>7. ASSUME NEW h \in hilos[fd], CheckReplanification(fd, h) PROVE TypeInv'
  <2>1. /\ leido' = [leido EXCEPT ![fd] = leido[fd] + 1]
        /\ hilos' = [hilos EXCEPT ![fd] = hilos[fd] \ {h}]
        /\ \E x : replanification' = [replanification EXCEPT ![fd] = replanification[fd] \/ x]
        /\ \E x : abortJob' = [abortJob EXCEPT ![fd] = abortJob[fd] \/ x]
        /\ UNCHANGED <<sockets, pc, faults>>
    BY <1>7, Zenon DEF CheckReplanification
  <2>2. MasterOK'
    BY <1>1, <2>1 DEF MasterOK
  <2>3. pedidos' \in [FDs -> Seq(Message)] /\ salida' \in [FDs -> Seq(Reply)]
    BY <1>1, <2>1 DEF SocketsOK, sockets
  <2> QED
    BY <2>1, <2>2, <2>3, StaysTypes DEF sockets
<1>8. ASSUME NEW h \in hilos[fd], LocalReductionDone(fd, h) PROVE TypeInv'
  <2> DEFINE m == [op |-> "O", etapa |-> "L", block |-> <<>>, node |-> h.nodo]
             H == hilos[fd] \ {h}
  <2>1. /\ Send(fd, <<m>>) /\ hilos' = [hilos EXCEPT ![fd] = H]
        /\ UNCHANGED <<salida, abiertos, pc, leido, replanification, abortJob, faults>>
    BY <1>8 DEF LocalReductionDone
  <2>2. m \in Message
    BY <1>1, ThreadIs, MessagesAre DEF Stage
  <2>3. H \subseteq Thread
    BY <1>1
  <2> HIDE DEF m, H
  <2>4. <<m>> \in Seq(Message)
    BY <2>2
  <2> QED
    BY <1>1, <2>1, <2>3, <2>4, SendsTypes
<1>9. ASSUME NEW h \in hilos[fd], GlobalReductionDone(fd, h) PROVE TypeInv'
  <2> DEFINE m == [op |-> "O", etapa |-> "G", block |-> <<>>, node |-> h.nodo]
             q == [op |-> "S"]
             H == {}
  <2>1. /\ Send(fd, <<m, q>>) /\ hilos' = [hilos EXCEPT ![fd] = H]
        /\ GoTo(fd, "esperaS")
        /\ UNCHANGED <<salida, abiertos, leido, replanification, abortJob, faults>>
    BY <1>9 DEF GlobalReductionDone
  <2>2. m \in Message /\ q \in Message
    BY <1>1, ThreadIs, MessagesAre DEF Stage
  <2> HIDE DEF m, q
  <2>3. <<m, q>> \in Seq(Message)
    BY <2>2
  <2>4. H \subseteq Thread
    OBVIOUS
  <2> HIDE DEF H
  <2> QED
    BY <1>1, <2>1, <2>3, <2>4, SendsTypes
<1>10. ASSUME NEW h \in hilos[fd], FinalStoreDone(fd, h) PROVE TypeInv'
  <2> DEFINE m == [op |-> "O", etapa |-> "S", block |-> <<>>, node |-> h.nodo]
  <2>1. Exit(fd, <<m>>) /\ faults' \in 0 .. MaxFaults
    BY <1>1, <1>10 DEF FinalStoreDone
  <2>2. m \in Message
    BY <1>1, ThreadIs, MessagesAre DEF Stage
  <2> HIDE DEF m
  <2>3. <<m>> \in Seq(Message)
    BY <2>2
  <2> QED
    BY <2>1, <2>3, ExitTypes
<1>11. CASE TransformationJoined(fd)
  <2>1. faults' \in 0 .. MaxFaults
    BY <1>1, <1>11 DEF TransformationJoined
  <2>2. CASE /\ GoTo(fd, "esperaR")
             /\ replanification' = [replanification EXCEPT ![fd] = FALSE]
             /\ UNCHANGED <<sockets, hilos, leido, abortJob>>
    <3>1. MasterOK'
      BY <1>1, <2>1, <2>2 DEF MasterOK, GoTo
    <3>2. pedidos' \in [FDs -> Seq(Message)] /\ salida' \in [FDs -> Seq(Reply)]
      BY <1>1, <2>2 DEF SocketsOK, sockets
    <3> QED
      BY <2>2, <3>1, <3>2, StaysTypes DEF sockets
  <2>3. CASE Exit(fd, <<>>)
    BY <1>4, <2>1, <2>3, ExitTypes
  <2>4. CASE /\ Send(fd, <<[op |-> "L"]>>)
             /\ GoTo(fd, "esperaL")
             /\ UNCHANGED <<salida, abiertos, hilos, leido, replanification, abortJob>>
    <3> DEFINE ms == <<[op |-> "L"]>>
    <3>1. ms \in Seq(Message)
      BY MessagesAre
    <3>2. Send(fd, ms)
      BY <2>4
    <3> HIDE DEF ms
    <3> QED
      BY <1>1, <2>1, <2>4, <3>1, <3>2, SendsTypes
  <2> QED
    BY <1>11, <2>2, <2>3, <2>4 DEF TransformationJoined
<1>12. CASE LocalReductionJoined(fd)
  <2>1. faults' \in 0 .. MaxFaults
    BY <1>1, <1>12 DEF LocalReductionJoined
  <2>2. CASE Exit(fd, <<>>)
    BY <1>4, <2>1, <2>2, ExitTypes
  <2>3. CASE /\ Send(fd, <<[op |-> "G"]>>)
             /\ GoTo(fd, "esperaG")
             /\ UNCHANGED <<salida, abiertos, hilos, leido, replanification, abortJob>>
    <3> DEFINE ms == <<[op |-> "G"]>>
    <3>1. ms \in Seq(Message)
      BY MessagesAre
    <3>2. Send(fd, ms)
      BY <2>3
    <3> HIDE DEF ms
    <3> QED
      BY <1>1, <2>1, <2>3, <3>1, <3>2, SendsTypes
  <2> QED
    BY <1>12, <2>2, <2>3 DEF LocalReductionJoined
<1> QED
  BY <1>2, <1>3, <1>5, <1>6, <1>7, <1>8, <1>9, <1>10, <1>11, <1>12 DEF MasterStep
LEMMA FaultTypes ==
    ASSUME TypeInv, NEW fd \in FDs, MasterFault(fd), UNCHANGED yamaVars
    PROVE  TypeInv'
<1>1. /\ MasterOK /\ SocketsOK /\ faults \in Nat /\ hilos[fd] \subseteq Thread
      /\ faults < MaxFaults => faults + 1 \in 0 .. MaxFaults
  BY MasterAssumption DEF TypeInv, MasterOK
<1>2. Fault => faults' \in 0 .. MaxFaults
  BY <1>1 DEF Fault
<1>3. ASSUME NEW h \in hilos[fd], TransformationFails(fd, h) PROVE TypeInv'
  <2> DEFINE m == [op |-> "E", etapa |-> "T", node |-> h.nodo]
             H == (hilos[fd] \ {h}) \cup {[h EXCEPT !.estado = "espera"]}
  <2>1. /\ Send(fd, <<m>>) /\ hilos' = [hilos EXCEPT ![fd] = H] /\ Fault
        /\ UNCHANGED <<salida, abiertos, pc, leido, replanification, abortJob>>
    BY <1>3, Zenon DEF TransformationFails
  <2>2. m \in Message
    BY <1>1, ThreadIs, MessagesAre DEF Stage
  <2>3. H \subseteq Thread
    BY <1>1, ThreadIs
  <2> HIDE DEF m, H
  <2>4. <<m>> \in Seq(Message)
    BY <2>2
  <2> QED
    BY <1>2, <2>1, <2>3, <2>4, SendsTypes
<1>4. ASSUME NEW h \in hilos[fd], LocalReductionFails(fd, h) PROVE TypeInv'
  <2> DEFINE m == [op |-> "E", etapa |-> "L", node |-> h.nodo]
             H == hilos[fd] \ {h}
  <2>1. /\ Send(fd, <<m>>) /\ hilos' = [hilos EXCEPT ![fd] = H] /\ Fault
        /\ abortJob' = [abortJob EXCEPT ![fd] = TRUE]
        /\ UNCHANGED <<salida, abiertos, pc, leido, replanification>>
    BY <1>4 DEF LocalReductionFails
  <2>2. m \in Message
    BY <1>1, ThreadIs, MessagesAre DEF Stage
  <2>3. H \subseteq Thread
    BY <1>1
  <2> HIDE DEF m, H
  <2>4. <<m>> \in Seq(Message)
    BY <2>2
  <2> QED
    BY <1>2, <2>1, <2>3, <2>4, SendsTypes
<1>5. ASSUME NEW h \in hilos[fd], LastStagesFail(fd, h) PROVE TypeInv'
  <2> DEFINE m == [op |-> "E", etapa |-> pc[fd], node |-> h.nodo]
  <2>1. Exit(fd, <<m>>) /\ faults' \in 0 .. MaxFaults /\ pc[fd] \in Stage
    BY <1>2, <1>5 DEF LastStagesFail, Stage
  <2>2. m \in Message
    BY <1>1, <2>1, ThreadIs, MessagesAre
  <2> HIDE DEF m
  <2>3. <<m>> \in Seq(Message)
    BY <2>2
  <2> QED
    BY <2>1, <2>3, ExitTypes
<1>6. CASE Kill(fd)
  <2>1. <<>> \in Seq(Message)
    BY EmptySeq
  <2> QED
    BY <1>2, <1>6, <2>1, ExitTypes DEF Kill
<1> QED
  BY <1>3, <1>4, <1>5, <1>6 DEF MasterFault

LEMMA InitTypes == Init => TypeInv
<1> SUFFICES ASSUME Init PROVE TypeInv
  OBVIOUS
<1>1. /\ tabla_nodos = <<>> /\ tabla_jobs = <<>> /\ tabla_estados = <<>>
      /\ tabla_info_archivos = <<>> /\ tabla_T_planificados = <<>>
      /\ tabla_LR_planificados = <<>> /\ tabla_GR_planificados = <<>>
      /\ jobs = 0 /\ config \in Configs /\ conectados = {} /\ vivo = "up"
  BY DEF Init, YamaInit
<1>2. \A S : <<>> \in Seq(S)
  BY EmptySeq
<1>3. Table_OK(<<>>)
  BY <1>2 DEF Table_OK, NoNodeTwice
<1>4. Tables
  BY <1>1, <1>2, <1>3 DEF Tables
<1>5. SocketsOK
  BY <1>2 DEF Init, SocketsInit, SocketsOK
<1>6. MasterOK
  BY MasterAssumption DEF Init, MasterInit, MasterOK
<1> QED
  BY <1>4, <1>5, <1>6 DEF TypeInv

LEMMA NextTypes == TypeInv /\ [Next]_vars => TypeInv'
<1> SUFFICES ASSUME TypeInv, [Next]_vars PROVE TypeInv'
  OBVIOUS
<1>1. ASSUME NEW fd \in FDs, MasterConnects(fd) PROVE TypeInv'
  BY <1>1, ConnectsTypes
<1>2. ASSUME NEW fd \in FDs, YamaStep(fd) PROVE TypeInv'
  BY <1>2, YamaTypes DEF YamaStep
<1>3. ASSUME NEW c \in Configs, ReloadConfig(c), UNCHANGED masterVars PROVE TypeInv'
  BY <1>3, ReloadTypes
<1>4. ASSUME NEW fd \in FDs, MasterWorks(fd) PROVE TypeInv'
  BY <1>4, MasterTypes DEF MasterWorks
<1>5. ASSUME NEW fd \in FDs, MasterFails(fd) PROVE TypeInv'
  BY <1>5, FaultTypes DEF MasterFails
<1>6. CASE UNCHANGED vars
  <2>1. UNCHANGED <<yamaVars, pedidos, salida, abiertos, masterVars>>
    BY <1>6 DEF vars, sockets
  <2>2. MasterOK'
    BY <2>1 DEF TypeInv, MasterOK, masterVars
  <2>3. pedidos' \in [FDs -> Seq(Message)] /\ salida' \in [FDs -> Seq(Reply)]
    BY <2>1 DEF TypeInv, SocketsOK
  <2> QED
    BY <2>1, <2>2, <2>3, StaysTypes
<1> QED
  BY <1>1, <1>2, <1>3, <1>4, <1>5, <1>6 DEF Next

(* Whatever messages arrive, in whatever order, from any number of masters *)
(* on any number of nodes, the tables of YAMA, the connections and the     *)
(* masters keep their types: in particular tasks_in_progress stays an      *)
(* unsigned integer and every task is of a node of the node table.         *)
THEOREM TypesHold == Spec => []TypeOK
<1>1. Spec => []TypeInv
  BY InitTypes, NextTypes, PTL DEF Spec
<1> QED
  BY <1>1, TypeInvIsType, PTL
-----------------------------------------------------------------------------
(* The connections: what a master still has on its way agrees with where   *)
(* it is.  Nothing follows the end of a stream, a request to transform is  *)
(* the first message, and a master that counts on a replanning has it in   *)
(* its socket.                                                             *)
Link(fd) ==
    /\ replanification[fd] => pc[fd] = "T"
    /\ replanification[fd] \/ pc[fd] = "esperaR" =>
          salida[fd] # <<>> /\ Head(salida[fd]).op = "R"
    /\ pc[fd] = "conectado" => pedidos[fd] = <<>>
    /\ fd \notin conectados => pc[fd] = "off" /\ pedidos[fd] = <<>>
    /\ \A k \in DOMAIN pedidos[fd] :
          /\ pedidos[fd][k].op = "T" => k = 1
          /\ pedidos[fd][k].op \in {"FIN", "RST"} => k = Len(pedidos[fd]) /\ pc[fd] = "off"

LinkInv == \A fd \in FDs : Link(fd)

(* What a step about one master leaves of the others.                      *)
LEMMA OtherLinks ==
    ASSUME LinkInv, NEW fd \in FDs, Link(fd)',
           \A e \in FDs \ {fd} :
              /\ pc'[e] = pc[e] /\ replanification'[e] = replanification[e]
              /\ salida'[e] = salida[e] /\ pedidos'[e] = pedidos[e]
              /\ e \in conectados' <=> e \in conectados
    PROVE  LinkInv'
<1> SUFFICES ASSUME NEW e \in FDs PROVE Link(e)'
  BY DEF LinkInv
<1>1. CASE e = fd
  BY <1>1
<1>2. CASE e # fd
  <2>1. Link(e)
    BY DEF LinkInv
  <2> QED
    BY <1>2, <2>1 DEF Link
<1> QED
  BY <1>1, <1>2

LEMMA TailIs ==
    ASSUME NEW S, NEW s \in Seq(S), s # <<>>
    PROVE  /\ Tail(s) \in Seq(S) /\ Len(Tail(s)) = Len(s) - 1 /\ Len(s) \in Nat \ {0}
           /\ \A k \in DOMAIN Tail(s) : k \in Nat \ {0} /\ k + 1 \in DOMAIN s /\ Tail(s)[k] = s[k + 1]
           /\ Head(s) = s[1] /\ 1 \in DOMAIN s
OBVIOUS

(* YAMA takes a message, and perhaps replies and perhaps closes.           *)
LEMMA YamaLinkShape ==
    ASSUME TypeInv, NEW fd \in FDs, GetMasterMessage(fd)
    PROVE  /\ fd \in conectados /\ pedidos[fd] # <<>>
           /\ pedidos' = [pedidos EXCEPT ![fd] = Tail(pedidos[fd])]
           /\ \/ salida' = salida
              \/ \E r : salida' = [salida EXCEPT ![fd] = Append(salida[fd], r)]
           /\ \/ conectados' = conectados
              \/ conectados' = conectados \ {fd} /\ Head(pedidos[fd]).op \in {"FIN", "RST"}
<1>1. ASSUME NEW op, Attend(fd, op)
      PROVE  /\ fd \in conectados /\ pedidos[fd] # <<>> /\ Head(pedidos[fd]).op = op
             /\ pedidos' = [pedidos EXCEPT ![fd] = Tail(pedidos[fd])]
  BY <1>1, Zenon DEF Attend, Receive
<1>2. ASSUME NEW op, NEW data, Respond(fd, op, data)
      PROVE  \/ salida' = salida
             \/ \E r : salida' = [salida EXCEPT ![fd] = Append(salida[fd], r)]
  <2>1. CASE fd \in abiertos
    BY <1>2, <2>1, Zenon DEF Respond
  <2>2. CASE fd \notin abiertos
    <3>1. salida' = [salida EXCEPT ![fd] = salida[fd]]
      BY <1>2, <2>2, Zenon DEF Respond
    <3> QED
      BY <3>1 DEF TypeInv, SocketsOK
  <2> QED
    BY <2>1, <2>2
<1>3. CASE UNCHANGED salida /\ \E op : Attend(fd, op) /\ conectados' = conectados
  BY <1>1, <1>3
<1>4. CASE \E op, data, o : Attend(fd, o) /\ Respond(fd, op, data) /\ conectados' = conectados
  BY <1>1, <1>2, <1>4
<1>5. CASE MasterDisconnected(fd) \/ MasterReset(fd)
  BY <1>1, <1>5 DEF MasterDisconnected, MasterReset
<1>6. CASE LocalReductionNotReady(fd) \/ StageNotReady(fd)
  BY <1>3, <1>6 DEF LocalReductionNotReady, StageNotReady, Crash
<1>7. CASE ProcessTransformation(fd)
  <2>1. Attend(fd, "T") /\ conectados' = conectados /\ (Crash \/ \E data : Respond(fd, "T", data))
    <3> DEFINE arch == Head(pedidos[fd]).file
               p == PlanBlocks(UpdateAvailability(AddNodesOf(arch), config.algoritm,
                                                  config.availBase),
                               [k \in DOMAIN Layout[arch] |-> <<arch, k>>])
               sorted == SortByNode(p.tasks)
    <3>1. /\ Attend(fd, "T")
          /\ \/ Crash
             \/ /\ Respond(fd, "T", sorted)
                /\ UNCHANGED <<tabla_LR_planificados, tabla_GR_planificados,
                               jobs, config, conectados, vivo, abiertos>>
      BY <1>7, Zenon DEF ProcessTransformation
    <3> HIDE DEF sorted
    <3>2. Crash \/ \E data : Respond(fd, "T", data)
      BY <3>1, Zenon
    <3>3. Crash \/ conectados' = conectados
      BY <3>1
    <3> QED
      BY <3>1, <3>2, <3>3 DEF Crash
  <2> QED
    BY <1>3, <1>4, <2>1 DEF Crash
<1>8. CASE ReplanTask(fd)
  <2>1. Attend(fd, "E") /\ conectados' = conectados /\ (Crash \/ \E data : Respond(fd, "R", data))
    <3> DEFINE n == Head(pedidos[fd]).node
               rows == Keep(tabla_estados, RowsOn(JobOf(fd, "T").id, fd, "T", n))
               p == PlanBlocks(IncreaseNodeError(tabla_nodos, n),
                               [k \in DOMAIN rows |-> FindBlock(rows[k].block)])
               sorted == SortByNode(p.tasks)
    <3>1. /\ Attend(fd, "E")
          /\ \/ Crash
             \/ /\ Respond(fd, "R", sorted)
                /\ UNCHANGED <<tabla_info_archivos, tabla_LR_planificados,
                               tabla_GR_planificados, jobs, config, conectados,
                               vivo, abiertos>>
      BY <1>8, Zenon DEF ReplanTask, NodeFailed
    <3> HIDE DEF sorted
    <3>2. Crash \/ \E data : Respond(fd, "R", data)
      BY <3>1, Zenon
    <3>3. Crash \/ conectados' = conectados
      BY <3>1
    <3> QED
      BY <3>1, <3>2, <3>3 DEF Crash
  <2> QED
    BY <1>3, <1>4, <2>1 DEF Crash
<1>9. CASE FileNotAvailable(fd) \/ ReplanRefused(fd)
  BY <1>4, <1>9 DEF FileNotAvailable, ReplanRefused, NodeFailed
<1>10. CASE ProcessLocalReduction(fd)
  <2>1. Attend(fd, "L") /\ conectados' = conectados /\ \E data : Respond(fd, "L", data)
    BY <1>10, Zenon DEF ProcessLocalReduction
  <2> QED
    BY <1>4, <2>1
<1>11. CASE ProcessGlobalReduction(fd)
  <2>1. Attend(fd, "G") /\ conectados' = conectados /\ \E data : Respond(fd, "G", data)
    BY <1>11, Zenon DEF ProcessGlobalReduction
  <2> QED
    BY <1>4, <2>1
<1>12. CASE ProcessFinalStore(fd)
  <2>1. Attend(fd, "S") /\ conectados' = conectados /\ \E data : Respond(fd, "S", data)
    BY <1>12, Zenon DEF ProcessFinalStore
  <2> QED
    BY <1>4, <2>1
<1>13. CASE GlobalReductionRefused(fd) \/ ProcessOk(fd) \/ AbortJob(fd) \/ ErrorIgnored(fd)
  <2>1. (\E op : Attend(fd, op)) /\ salida' = salida /\ conectados' = conectados
    BY <1>13, Zenon DEF GlobalReductionRefused, ProcessOk, AbortJob, ErrorIgnored, yamaVars
  <2> QED
    BY <1>3, <2>1
<1> QED
  BY <1>5, <1>6, <1>7, <1>8, <1>9, <1>10, <1>11, <1>12, <1>13 DEF GetMasterMessage
LEMMA YamaLinks ==
    ASSUME TypeInv, LinkInv, NEW fd \in FDs, GetMasterMessage(fd), UNCHANGED masterVars
    PROVE  LinkInv'
<1> DEFINE s == pedidos[fd]
<1>1. /\ fd \in conectados /\ s # <<>>
      /\ pedidos' = [pedidos EXCEPT ![fd] = Tail(s)]
      /\ \/ salida' = salida
         \/ \E r : salida' = [salida EXCEPT ![fd] = Append(salida[fd], r)]
      /\ \/ conectados' = conectados
         \/ conectados' = conectados \ {fd} /\ Head(s).op \in {"FIN", "RST"}
  BY YamaLinkShape
<1>2. /\ pedidos \in [FDs -> Seq(Message)] /\ salida \in [FDs -> Seq(Reply)]
      /\ s \in Seq(Message) /\ salida[fd] \in Seq(Reply)
  BY DEF TypeInv, SocketsOK
<1>3. /\ pedidos'[fd] = Tail(s)
      /\ \A e \in FDs \ {fd} : pedidos'[e] = pedidos[e]
  BY <1>1, <1>2
<1>4. \A e \in FDs \ {fd} : salida'[e] = salida[e]
  BY <1>1, <1>2
<1>5. salida[fd] # <<>> => salida'[fd] # <<>> /\ Head(salida'[fd]) = Head(salida[fd])
  <2>1. CASE salida' = salida
    BY <2>1
  <2>2. ASSUME NEW r, salida' = [salida EXCEPT ![fd] = Append(salida[fd], r)]
        PROVE  salida[fd] # <<>> => salida'[fd] # <<>> /\ Head(salida'[fd]) = Head(salida[fd])
    <3>1. salida'[fd] = Append(salida[fd], r)
      BY <1>2, <2>2
    <3> DEFINE z == salida[fd]
    <3>2. z \in Seq(Reply) /\ Len(z) \in Nat
      BY <1>2
    <3> HIDE DEF z
    <3>3. z # <<>> => Append(z, r) # <<>> /\ Head(Append(z, r)) = Head(z)
      BY <3>2
    <3> QED
      BY <3>1, <3>3 DEF z
  <2> QED
    BY <1>1, <2>1, <2>2
<1>6. Link(fd)
  BY DEF LinkInv
<1> HIDE DEF s
<1>7. /\ Len(Tail(s)) = Len(s) - 1 /\ Len(s) \in Nat \ {0}
      /\ \A k \in DOMAIN Tail(s) : k \in Nat \ {0} /\ k + 1 \in DOMAIN s /\ Tail(s)[k] = s[k + 1]
      /\ Head(s) = s[1] /\ 1 \in DOMAIN s
  BY <1>1, <1>2, TailIs
<1>8. \A k \in DOMAIN s : /\ s[k].op = "T" => k = 1
                          /\ s[k].op \in {"FIN", "RST"} => k = Len(s) /\ pc[fd] = "off"
  BY <1>6 DEF Link, s
<1>9. Link(fd)'
  <2>1. \A k \in DOMAIN Tail(s) :
           /\ Tail(s)[k].op = "T" => k = 1
           /\ Tail(s)[k].op \in {"FIN", "RST"} => k = Len(Tail(s)) /\ pc[fd] = "off"
    BY <1>7, <1>8
  <2>2. fd \notin conectados' => pc[fd] = "off" /\ Tail(s) = <<>>
    <3> SUFFICES ASSUME fd \notin conectados' PROVE pc[fd] = "off" /\ Tail(s) = <<>>
      OBVIOUS
    <3>1. s[1].op \in {"FIN", "RST"}
      BY <1>1, <1>7
    <3>2. 1 = Len(s) /\ pc[fd] = "off"
      BY <1>7, <1>8, <3>1
    <3> DEFINE q == Tail(s)
    <3>3. q \in Seq(Message) /\ Len(q) = 0
      BY <1>1, <1>2, <1>7, <3>2, TailIs
    <3> HIDE DEF q
    <3>4. q = <<>>
      BY <3>3
    <3> QED
      BY <3>2, <3>4 DEF q
  <2>3. pc[fd] # "conectado"
    BY <1>1, <1>6 DEF Link, s
  <2>4. /\ pc' = pc /\ replanification' = replanification
    BY DEF masterVars
  <2> QED
    BY <1>3, <1>5, <1>6, <2>1, <2>2, <2>3, <2>4 DEF Link
<1>10. \A e \in FDs \ {fd} :
          /\ pc'[e] = pc[e] /\ replanification'[e] = replanification[e]
          /\ salida'[e] = salida[e] /\ pedidos'[e] = pedidos[e]
          /\ e \in conectados' <=> e \in conectados
  BY <1>1, <1>3, <1>4 DEF masterVars
<1> QED
  BY <1>9, <1>10, OtherLinks

(* Messages that are no request to transform and no end of the stream.     *)
Ordinary(ms) == \A k \in DOMAIN ms : ms[k].op \notin {"T", "FIN", "RST"}

LEMMA JoinedMessages ==
    ASSUME NEW s \in Seq(Message), NEW ms \in Seq(Message)
    PROVE  \A k \in DOMAIN (s \o ms) :
              \/ k \in DOMAIN s /\ (s \o ms)[k] = s[k]
              \/ k - Len(s) \in DOMAIN ms /\ (s \o ms)[k] = ms[k - Len(s)]
<1>1. /\ DOMAIN s = 1 .. Len(s) /\ DOMAIN ms = 1 .. Len(ms)
      /\ Len(s) \in Nat /\ Len(ms) \in Nat /\ DOMAIN (s \o ms) = 1 .. Len(s) + Len(ms)
      /\ \A i \in 1 .. Len(s) + Len(ms) :
            (s \o ms)[i] = IF i <= Len(s) THEN s[i] ELSE ms[i - Len(s)]
  OBVIOUS
<1> QED
  BY <1>1

LEMMA JoinedLength ==
    ASSUME NEW s \in Seq(Message), NEW ms \in Seq(Message)
    PROVE  /\ Len(s \o ms) = Len(s) + Len(ms) /\ Len(s) \in Nat /\ Len(ms) \in Nat
           /\ \A k \in DOMAIN s : k \in Nat /\ k <= Len(s)
           /\ \A k \in DOMAIN (s \o ms) : k \in Nat
OBVIOUS

(* A master that has not ended sends something.                            *)
LEMMA SendsLinks ==
    ASSUME TypeInv, LinkInv, NEW fd \in FDs, NEW ms \in Seq(Message), Ordinary(ms),
           Send(fd, ms), pc[fd] \notin {"off", "conectado"},
           UNCHANGED <<salida, replanification, conectados>>,
           \/ pc' = pc
           \/ /\ ~replanification[fd]
              /\ \E l \in {"esperaL", "esperaG", "esperaS"} : GoTo(fd, l)
    PROVE  LinkInv'
<1> DEFINE s == pedidos[fd]
<1>1. /\ pedidos \in [FDs -> Seq(Message)] /\ s \in Seq(Message)
      /\ DOMAIN pc = FDs
  BY DEF TypeInv, SocketsOK, MasterOK
<1>2. pedidos' = [pedidos EXCEPT ![fd] = s \o ms]
  BY Zenon DEF Send
<1>3. pedidos'[fd] = s \o ms /\ \A e \in FDs \ {fd} : pedidos'[e] = pedidos[e]
  BY <1>1, <1>2
<1>4. Link(fd)
  BY DEF LinkInv
<1> HIDE DEF s
<1>5. /\ fd \in conectados
      /\ \A k \in DOMAIN s : /\ s[k].op = "T" => k = 1
                             /\ s[k].op \notin {"FIN", "RST"}
  BY <1>4 DEF Link, s
<1>6. \A k \in DOMAIN (s \o ms) :
         /\ (s \o ms)[k].op = "T" => k = 1
         /\ (s \o ms)[k].op \notin {"FIN", "RST"}
  BY <1>1, <1>5, JoinedMessages DEF Ordinary
<1>7. /\ pc'[fd] = pc[fd] \/ (~replanification[fd] /\ pc'[fd] \in {"esperaL", "esperaG", "esperaS"})
      /\ \A e \in FDs \ {fd} : pc'[e] = pc[e]
  BY <1>1 DEF GoTo
<1>8. Link(fd)'
  <2> DEFINE q == s \o ms
  <2> HIDE DEF q
  <2>1. pedidos'[fd] = q
    BY <1>3 DEF q
  <2>2. \A k \in DOMAIN q : (q[k].op = "T" => k = 1) /\ q[k].op \notin {"FIN", "RST"}
    BY <1>6 DEF q
  <2> QED
    BY <1>4, <1>5, <1>7, <2>1, <2>2 DEF Link
<1> QED
  BY <1>3, <1>7, <1>8, OtherLinks

LEMMA ExitLinks ==
    ASSUME TypeInv, LinkInv, NEW fd \in FDs, NEW ms \in Seq(Message), Ordinary(ms),
           Exit(fd, ms), pc[fd] # "off", conectados' = conectados
    PROVE  LinkInv'
<1> DEFINE s == pedidos[fd]
<1>1. PICK close \in {"FIN", "RST"} : Send(fd, Append(ms, [op |-> close]))
  BY DEF Exit
<1>2. /\ salida' = [salida EXCEPT ![fd] = <<>>]
      /\ pc' = [pc EXCEPT ![fd] = "off"]
      /\ replanification' = [replanification EXCEPT ![fd] = FALSE]
  BY DEF Exit, GoTo
<1> DEFINE m == [op |-> close]
           w == Append(ms, m)
<1>3. /\ pedidos \in [FDs -> Seq(Message)] /\ s \in Seq(Message)
      /\ DOMAIN pc = FDs /\ DOMAIN salida = FDs /\ DOMAIN replanification = FDs
  BY DEF TypeInv, SocketsOK, MasterOK
<1>4. m \in Message /\ m.op # "T"
  BY MessagesAre
<1> HIDE DEF m
<1>5. /\ w \in Seq(Message) /\ DOMAIN w = 1 .. Len(ms) + 1 /\ Len(w) = Len(ms) + 1
      /\ Len(ms) \in Nat /\ DOMAIN ms = 1 .. Len(ms)
      /\ \A k \in DOMAIN ms : w[k] = ms[k]
      /\ w[Len(ms) + 1] = m
  BY <1>4
<1> HIDE DEF w
<1>6. \A k \in DOMAIN w : /\ w[k].op # "T"
                          /\ w[k].op \in {"FIN", "RST"} => k = Len(w)
  <2>1. \A k \in DOMAIN w : k \in DOMAIN ms \/ k = Len(ms) + 1
    BY <1>5
  <2> QED
    BY <1>4, <1>5, <2>1 DEF Ordinary
<1>7. pedidos' = [pedidos EXCEPT ![fd] = s \o w]
  BY <1>1, Zenon DEF Send, w, m
<1>8. pedidos'[fd] = s \o w /\ \A e \in FDs \ {fd} : pedidos'[e] = pedidos[e]
  BY <1>3, <1>7
<1>9. Link(fd)
  BY DEF LinkInv
<1> HIDE DEF s
<1>10. /\ fd \in conectados
       /\ \A k \in DOMAIN s : (s[k].op = "T" => k = 1) /\ s[k].op \notin {"FIN", "RST"}
  BY <1>9 DEF Link, s
<1>11. \A k \in DOMAIN (s \o w) : /\ (s \o w)[k].op = "T" => k = 1
                                  /\ (s \o w)[k].op \in {"FIN", "RST"} => k = Len(s \o w)
  <2>1. Len(s \o w) = Len(s) + Len(w) /\ Len(s) \in Nat /\ Len(w) \in Nat
    BY <1>3, <1>5, JoinedLength
  <2>2. \A k \in DOMAIN (s \o w) : k \in Nat
    BY <1>3, <1>5, JoinedLength
  <2>3. \A k \in DOMAIN (s \o w) :
           \/ k \in DOMAIN s /\ (s \o w)[k] = s[k]
           \/ k - Len(s) \in DOMAIN w /\ (s \o w)[k] = w[k - Len(s)]
    BY <1>3, <1>5, JoinedMessages
  <2> DEFINE q == s \o w
  <2> HIDE DEF q
  <2>4. ASSUME NEW k \in DOMAIN q
        PROVE  /\ q[k].op = "T" => k = 1
               /\ q[k].op \in {"FIN", "RST"} => k = Len(q)
    <3>1. CASE k \in DOMAIN s /\ q[k] = s[k]
      BY <1>10, <3>1
    <3>2. CASE k - Len(s) \in DOMAIN w /\ q[k] = w[k - Len(s)]
      <4>1. /\ q[k].op # "T"
            /\ q[k].op \in {"FIN", "RST"} => k - Len(s) = Len(w)
        BY <1>6, <3>2
      <4>2. k \in Nat /\ Len(q) = Len(s) + Len(w) /\ Len(s) \in Nat /\ Len(w) \in Nat
        BY <2>1, <2>2 DEF q
      <4> QED
        BY <4>1, <4>2
    <3> QED
      BY <2>3, <3>1, <3>2 DEF q
  <2> QED
    BY <2>4 DEF q
<1>12. Link(fd)'
  <2> DEFINE q == s \o w
  <2> HIDE DEF q
  <2>1. pedidos'[fd] = q
    BY <1>8 DEF q
  <2>2. \A k \in DOMAIN q : (q[k].op = "T" => k = 1) /\ (q[k].op \in {"FIN", "RST"} => k = Len(q))
    BY <1>11 DEF q
  <2>3. pc'[fd] = "off" /\ ~replanification'[fd]
    BY <1>2, <1>3
  <2> QED
    BY <1>10, <2>1, <2>2, <2>3 DEF Link
<1> QED
  BY <1>2, <1>3, <1>8, <1>12, OtherLinks
(* What a master sends that has not ended, and where it goes.              *)
Sends(fd, ms) ==
    /\ Ordinary(ms) /\ Send(fd, ms) /\ pc[fd] \notin {"off", "conectado"}
    /\ UNCHANGED <<salida, replanification>>
    /\ \/ pc' = pc
       \/ /\ ~replanification[fd]
          /\ \E l \in {"esperaL", "esperaG", "esperaS"} : GoTo(fd, l)

LEMMA OrdinaryMessages ==
    /\ Ordinary(<<>>)
    /\ \A m : m.op \notin {"T", "FIN", "RST"} => Ordinary(<<m>>)
    /\ \A m, q : m.op \notin {"T", "FIN", "RST"} /\ q.op \notin {"T", "FIN", "RST"}
                   => Ordinary(<<m, q>>)
<1>1. DOMAIN <<>> = {}
  OBVIOUS
<1>2. \A m : DOMAIN <<m>> = {1} /\ <<m>>[1] = m
  OBVIOUS
<1>3. \A m, q : DOMAIN <<m, q>> = 1 .. 2 /\ <<m, q>>[1] = m /\ <<m, q>>[2] = q
  OBVIOUS
<1>4. \A k \in 1 .. 2 : k = 1 \/ k = 2
  OBVIOUS
<1> QED
  BY <1>1, <1>2, <1>3, <1>4 DEF Ordinary

LEMMA WorkShape ==
    ASSUME TypeInv, LinkInv, NEW fd \in FDs, MasterStep(fd)
    PROVE  \/ \E arch \in Files : SendTRequest(fd, arch)
           \/ /\ pc[fd] \in {"esperaT", "esperaR", "esperaL", "esperaG", "esperaS"}
              /\ \E l \in {"T", "L", "G", "S"} : StartThreads(fd, l)
           \/ \E ms \in Seq(Message) : Sends(fd, ms)
           \/ pc[fd] # "off" /\ \E ms \in Seq(Message) : Ordinary(ms) /\ Exit(fd, ms)
           \/ \E h : CheckReplanification(fd, h)
           \/ /\ pc[fd] = "T" /\ replanification[fd] /\ GoTo(fd, "esperaR")
              /\ replanification' = [replanification EXCEPT ![fd] = FALSE]
              /\ UNCHANGED sockets
<1>1. /\ MasterOK /\ hilos[fd] \subseteq Thread /\ <<>> \in Seq(Message)
      /\ replanification[fd] => pc[fd] = "T"
  BY EmptySeq DEF TypeInv, MasterOK, LinkInv, Link
<1>2. CASE TransformationReply(fd) \/ LocalReductionReply(fd) \/ LastStagesReply(fd)
  BY <1>2 DEF TransformationReply, LocalReductionReply, LastStagesReply
<1>3. CASE TransformationRefused(fd)
  BY <1>1, <1>3, OrdinaryMessages DEF TransformationRefused
<1>4. ASSUME NEW h \in hilos[fd], NEW k \in DOMAIN h.tmps, BlockTransformed(fd, h, k)
      PROVE  \E ms \in Seq(Message) : Sends(fd, ms)
  <2> DEFINE m == [op |-> "O", etapa |-> "T", block |-> h.tmps[k], node |-> h.nodo]
  <2>1. /\ Send(fd, <<m>>) /\ pc[fd] = "T"
        /\ UNCHANGED <<salida, replanification, pc>>
    BY <1>4 DEF BlockTransformed
  <2>2. h.tmps[k] \in Block /\ h.nodo \in Node
    <3>1. h.nodo \in Node /\ h.tmps \in Seq(Block)
      BY <1>1, ThreadIs
    <3> QED
      BY <3>1
  <2>3. m \in Message /\ m.op \notin {"T", "FIN", "RST"}
    BY <2>2, MessagesAre DEF Stage
  <2> HIDE DEF m
  <2>4. <<m>> \in Seq(Message)
    BY <2>3
  <2>5. Sends(fd, <<m>>)
    BY <2>1, <2>3, OrdinaryMessages DEF Sends
  <2> QED
    BY <2>4, <2>5
<1>5. ASSUME NEW h \in hilos[fd], LocalReductionDone(fd, h)
      PROVE  \E ms \in Seq(Message) : Sends(fd, ms)
  <2> DEFINE m == [op |-> "O", etapa |-> "L", block |-> <<>>, node |-> h.nodo]
  <2>1. /\ Send(fd, <<m>>) /\ pc[fd] = "L"
        /\ UNCHANGED <<salida, replanification, pc>>
    BY <1>5 DEF LocalReductionDone
  <2>2. m \in Message /\ m.op \notin {"T", "FIN", "RST"}
    BY <1>1, ThreadIs, MessagesAre DEF Stage
  <2> HIDE DEF m
  <2>3. <<m>> \in Seq(Message)
    BY <2>2
  <2>4. Sends(fd, <<m>>)
    BY <2>1, <2>2, OrdinaryMessages DEF Sends
  <2> QED
    BY <2>3, <2>4
<1>6. ASSUME NEW h \in hilos[fd], GlobalReductionDone(fd, h)
      PROVE  \E ms \in Seq(Message) : Sends(fd, ms)
  <2> DEFINE m == [op |-> "O", etapa |-> "G", block |-> <<>>, node |-> h.nodo]
             q == [op |-> "S"]
  <2>1. /\ Send(fd, <<m, q>>) /\ pc[fd] = "G" /\ GoTo(fd, "esperaS")
        /\ UNCHANGED <<salida, replanification>>
    BY <1>6 DEF GlobalReductionDone
  <2>2. /\ m \in Message /\ m.op \notin {"T", "FIN", "RST"}
        /\ q \in Message /\ q.op \notin {"T", "FIN", "RST"}
    BY <1>1, ThreadIs, MessagesAre DEF Stage
  <2> HIDE DEF m, q
  <2>3. <<m, q>> \in Seq(Message)
    BY <2>2
  <2>4. Sends(fd, <<m, q>>)
    BY <1>1, <2>1, <2>2, OrdinaryMessages DEF Sends
  <2> QED
    BY <2>3, <2>4
<1>7. ASSUME NEW h \in hilos[fd], FinalStoreDone(fd, h)
      PROVE  pc[fd] # "off" /\ \E ms \in Seq(Message) : Ordinary(ms) /\ Exit(fd, ms)
  <2> DEFINE m == [op |-> "O", etapa |-> "S", block |-> <<>>, node |-> h.nodo]
  <2>1. Exit(fd, <<m>>) /\ pc[fd] = "S"
    BY <1>7 DEF FinalStoreDone
  <2>2. m \in Message /\ m.op \notin {"T", "FIN", "RST"}
    BY <1>1, ThreadIs, MessagesAre DEF Stage
  <2> HIDE DEF m
  <2>3. <<m>> \in Seq(Message)
    BY <2>2
  <2> QED
    BY <2>1, <2>2, <2>3, OrdinaryMessages
<1>8. /\ <<[op |-> "L"]>> \in Seq(Message) /\ Ordinary(<<[op |-> "L"]>>)
      /\ <<[op |-> "G"]>> \in Seq(Message) /\ Ordinary(<<[op |-> "G"]>>)
  BY MessagesAre, OrdinaryMessages
<1>9. CASE TransformationJoined(fd)
  <2>1. pc[fd] = "T"
    BY <1>9 DEF TransformationJoined
  <2>2. CASE ~replanification[fd] /\ Exit(fd, <<>>)
    BY <1>1, <2>1, <2>2, OrdinaryMessages
  <2>3. CASE /\ ~replanification[fd] /\ Send(fd, <<[op |-> "L"]>>) /\ GoTo(fd, "esperaL")
             /\ UNCHANGED <<salida, replanification>>
    BY <1>8, <2>1, <2>3 DEF Sends
  <2> QED
    BY <1>9, <2>1, <2>2, <2>3 DEF TransformationJoined
<1>10. CASE LocalReductionJoined(fd)
  <2>1. pc[fd] = "L"
    BY <1>10 DEF LocalReductionJoined
  <2>2. CASE Exit(fd, <<>>)
    BY <1>1, <2>1, <2>2, OrdinaryMessages
  <2>3. CASE /\ Send(fd, <<[op |-> "G"]>>) /\ GoTo(fd, "esperaG")
             /\ UNCHANGED <<salida, replanification>>
    BY <1>1, <1>8, <2>1, <2>3 DEF Sends
  <2> QED
    BY <1>10, <2>1, <2>2, <2>3 DEF LocalReductionJoined
<1> QED
  BY <1>2, <1>3, <1>4, <1>5, <1>6, <1>7, <1>9, <1>10, Zenon DEF MasterStep

LEMMA FaultShape ==
    ASSUME TypeInv, LinkInv, NEW fd \in FDs, MasterFault(fd)
    PROVE  \/ \E ms \in Seq(Message) : Sends(fd, ms)
           \/ pc[fd] # "off" /\ \E ms \in Seq(Message) : Ordinary(ms) /\ Exit(fd, ms)
<1>1. MasterOK /\ hilos[fd] \subseteq Thread /\ <<>> \in Seq(Message)
  BY EmptySeq DEF TypeInv, MasterOK
<1>2. ASSUME NEW h \in hilos[fd], TransformationFails(fd, h) \/ LocalReductionFails(fd, h)
      PROVE  \E ms \in Seq(Message) : Sends(fd, ms)
  <2>1. PICK e \in {"T", "L"} :
           /\ Send(fd, <<[op |-> "E", etapa |-> e, node |-> h.nodo]>>) /\ pc[fd] = e
           /\ UNCHANGED <<salida, replanification, pc>>
    BY <1>2 DEF TransformationFails, LocalReductionFails
  <2> DEFINE m == [op |-> "E", etapa |-> e, node |-> h.nodo]
  <2>2. m \in Message /\ m.op \notin {"T", "FIN", "RST"}
    BY <1>1, ThreadIs, MessagesAre DEF Stage
  <2>3. Send(fd, <<m>>) /\ pc[fd] \notin {"off", "conectado"}
    BY <2>1
  <2> HIDE DEF m
  <2>4. <<m>> \in Seq(Message)
    BY <2>2
  <2>5. Sends(fd, <<m>>)
    BY <2>1, <2>2, <2>3, OrdinaryMessages DEF Sends
  <2> QED
    BY <2>4, <2>5
<1>3. ASSUME NEW h \in hilos[fd], LastStagesFail(fd, h)
      PROVE  pc[fd] # "off" /\ \E ms \in Seq(Message) : Ordinary(ms) /\ Exit(fd, ms)
  <2> DEFINE m == [op |-> "E", etapa |-> pc[fd], node |-> h.nodo]
  <2>1. Exit(fd, <<m>>) /\ pc[fd] \in {"G", "S"}
    BY <1>3 DEF LastStagesFail
  <2>2. m \in Message /\ m.op \notin {"T", "FIN", "RST"}
    BY <1>1, <2>1, ThreadIs, MessagesAre DEF Stage
  <2> HIDE DEF m
  <2>3. <<m>> \in Seq(Message)
    BY <2>2
  <2> QED
    BY <2>1, <2>2, <2>3, OrdinaryMessages
<1>4. CASE Kill(fd)
  BY <1>1, <1>4, OrdinaryMessages DEF Kill
<1> QED
  BY <1>2, <1>3, <1>4 DEF MasterFault
LEMMA RequestLinks ==
    ASSUME TypeInv, LinkInv, NEW fd \in FDs, NEW arch \in Files,
           SendTRequest(fd, arch), conectados' = conectados
    PROVE  LinkInv'
<1> DEFINE m == [op |-> "T", file |-> arch]
<1>1. /\ pc[fd] = "conectado" /\ Send(fd, <<m>>)
      /\ pc' = [pc EXCEPT ![fd] = "esperaT"]
      /\ salida' = salida /\ replanification' = replanification
  BY DEF SendTRequest, GoTo
<1>2. m \in Message /\ m.op = "T"
  BY MessagesAre
<1>3. pedidos' = [pedidos EXCEPT ![fd] = pedidos[fd] \o <<m>>]
  BY <1>1, Zenon DEF Send
<1> HIDE DEF m
<1>4. /\ pedidos \in [FDs -> Seq(Message)] /\ DOMAIN pc = FDs
  BY DEF TypeInv, SocketsOK, MasterOK
<1>5. Link(fd)
  BY DEF LinkInv
<1>6. pedidos[fd] = <<>> /\ fd \in conectados /\ ~replanification[fd]
  BY <1>1, <1>5 DEF Link
<1>7. /\ pedidos'[fd] = <<>> \o <<m>>
      /\ pc'[fd] = "esperaT"
      /\ \A e \in FDs \ {fd} : pedidos'[e] = pedidos[e] /\ pc'[e] = pc[e]
  BY <1>1, <1>3, <1>4, <1>6
<1>8. <<>> \o <<m>> = <<m>> /\ DOMAIN <<m>> = {1} /\ <<m>>[1] = m
  BY <1>2
<1>9. Link(fd)'
  BY <1>1, <1>2, <1>6, <1>7, <1>8 DEF Link
<1> QED
  BY <1>1, <1>7, <1>9, OtherLinks

LEMMA StartLinks ==
    ASSUME TypeInv, LinkInv, NEW fd \in FDs, NEW label \in {"T", "L", "G", "S"},
           pc[fd] \in {"esperaT", "esperaR", "esperaL", "esperaG", "esperaS"},
           StartThreads(fd, label), conectados' = conectados
    PROVE  LinkInv'
<1>1. /\ pc' = [pc EXCEPT ![fd] = label]
      /\ salida' = [salida EXCEPT ![fd] = Tail(salida[fd])]
      /\ pedidos' = pedidos /\ replanification' = replanification
  BY Zenon DEF StartThreads, GoTo
<1>2. DOMAIN pc = FDs /\ DOMAIN salida = FDs
  BY DEF TypeInv, SocketsOK, MasterOK
<1>3. Link(fd)
  BY DEF LinkInv
<1>4. pc'[fd] = label /\ \A e \in FDs \ {fd} : pc'[e] = pc[e] /\ salida'[e] = salida[e]
  BY <1>1, <1>2
<1>5. ~replanification[fd] /\ fd \in conectados
  BY <1>3 DEF Link
<1>6. Link(fd)'
  BY <1>1, <1>3, <1>4, <1>5 DEF Link
<1> QED
  BY <1>1, <1>4, <1>6, OtherLinks

LEMMA CheckLinks ==
    ASSUME TypeInv, LinkInv, NEW fd \in FDs, NEW h, CheckReplanification(fd, h),
           conectados' = conectados
    PROVE  LinkInv'
<1>1. /\ pc[fd] = "T" /\ salida[fd] # <<>>
      /\ pc' = pc /\ salida' = salida /\ pedidos' = pedidos
      /\ replanification' = [replanification EXCEPT ![fd] =
            replanification[fd] \/ (leido[fd] = 0 /\ Head(salida[fd]).op = "R")]
  BY Zenon DEF CheckReplanification, sockets
<1>2. DOMAIN replanification = FDs /\ replanification[fd] \in BOOLEAN
  BY DEF TypeInv, MasterOK
<1>3. Link(fd)
  BY DEF LinkInv
<1>4. /\ replanification'[fd] => replanification[fd] \/ Head(salida[fd]).op = "R"
      /\ \A e \in FDs \ {fd} : replanification'[e] = replanification[e]
  BY <1>1, <1>2
<1>5. Link(fd)'
  BY <1>1, <1>3, <1>4 DEF Link
<1> QED
  BY <1>1, <1>4, <1>5, OtherLinks

LEMMA RetryLinks ==
    ASSUME TypeInv, LinkInv, NEW fd \in FDs,
           pc[fd] = "T", replanification[fd], GoTo(fd, "esperaR"),
           replanification' = [replanification EXCEPT ![fd] = FALSE],
           UNCHANGED sockets, conectados' = conectados
    PROVE  LinkInv'
<1>1. /\ DOMAIN replanification = FDs /\ DOMAIN pc = FDs
      /\ salida' = salida /\ pedidos' = pedidos
      /\ pc' = [pc EXCEPT ![fd] = "esperaR"]
  BY DEF TypeInv, MasterOK, GoTo, sockets
<1>2. Link(fd)
  BY DEF LinkInv
<1>3. /\ pc'[fd] = "esperaR" /\ ~replanification'[fd]
      /\ \A e \in FDs \ {fd} : replanification'[e] = replanification[e] /\ pc'[e] = pc[e]
  BY <1>1
<1>4. Link(fd)'
  BY <1>1, <1>2, <1>3 DEF Link
<1> QED
  BY <1>1, <1>3, <1>4, OtherLinks

LEMMA MasterLinks ==
    ASSUME TypeInv, LinkInv, NEW fd \in FDs, MasterWorks(fd) \/ MasterFails(fd)
    PROVE  LinkInv'
<1>1. /\ conectados' = conectados
      /\ MasterStep(fd) \/ MasterFault(fd)
  BY DEF MasterWorks, MasterFails, yamaVars
<1>2. CASE \E ms \in Seq(Message) : Sends(fd, ms)
  BY <1>1, <1>2, SendsLinks DEF Sends
<1>3. CASE pc[fd] # "off" /\ \E ms \in Seq(Message) : Ordinary(ms) /\ Exit(fd, ms)
  BY <1>1, <1>3, ExitLinks
<1>4. ASSUME NEW arch \in Files, SendTRequest(fd, arch) PROVE LinkInv'
  BY <1>1, <1>4, RequestLinks
<1>5. ASSUME NEW h, CheckReplanification(fd, h) PROVE LinkInv'
  BY <1>1, <1>5, CheckLinks
<1>6. CASE /\ pc[fd] \in {"esperaT", "esperaR", "esperaL", "esperaG", "esperaS"}
           /\ \E l \in {"T", "L", "G", "S"} : StartThreads(fd, l)
  BY <1>1, <1>6, StartLinks
<1>7. CASE /\ pc[fd] = "T" /\ replanification[fd] /\ GoTo(fd, "esperaR")
           /\ replanification' = [replanification EXCEPT ![fd] = FALSE]
           /\ UNCHANGED sockets
  BY <1>1, <1>7, RetryLinks
<1> QED
  BY <1>1, <1>2, <1>3, <1>4, <1>5, <1>6, <1>7, WorkShape, FaultShape

LEMMA ConnectLinks ==
    ASSUME TypeInv, LinkInv, NEW fd \in FDs, MasterConnects(fd)
    PROVE  LinkInv'
<1>1. /\ fd \notin conectados /\ conectados' = conectados \cup {fd}
      /\ pedidos' = pedidos /\ salida' = salida /\ replanification' = replanification
      /\ pc' = [pc EXCEPT ![fd] = "conectado"]
  BY DEF MasterConnects, AcceptMasterConnection, GoTo
<1>2. DOMAIN pc = FDs
  BY DEF TypeInv, MasterOK
<1>3. Link(fd)
  BY DEF LinkInv
<1>4. /\ pc'[fd] = "conectado" /\ \A e \in FDs \ {fd} : pc'[e] = pc[e]
      /\ pedidos[fd] = <<>> /\ ~replanification[fd] /\ DOMAIN <<>> = {}
  BY <1>1, <1>2, <1>3 DEF Link
<1>5. Link(fd)'
  BY <1>1, <1>4 DEF Link
<1> QED
  BY <1>1, <1>4, <1>5, OtherLinks

LEMMA SameLinks ==
    ASSUME LinkInv, UNCHANGED <<pc, replanification, salida, pedidos, conectados>>
    PROVE  LinkInv'
BY DEF LinkInv, Link

LEMMA InitLinks == Init => LinkInv
<1> SUFFICES ASSUME Init, NEW fd \in FDs PROVE Link(fd)
  BY DEF LinkInv
<1>1. pc[fd] = "off" /\ ~replanification[fd] /\ pedidos[fd] = <<>> /\ DOMAIN <<>> = {}
  BY DEF Init, MasterInit, SocketsInit
<1> QED
  BY <1>1 DEF Link

LEMMA NextLinks == TypeInv /\ LinkInv /\ [Next]_vars => LinkInv'
<1> SUFFICES ASSUME TypeInv, LinkInv, [Next]_vars PROVE LinkInv'
  OBVIOUS
<1>1. ASSUME NEW fd \in FDs, MasterConnects(fd) PROVE LinkInv'
  BY <1>1, ConnectLinks
<1>2. ASSUME NEW fd \in FDs, YamaStep(fd) PROVE LinkInv'
  BY <1>2, YamaLinks DEF YamaStep
<1>3. CASE \E c \in Configs : ReloadConfig(c) /\ UNCHANGED masterVars
  BY <1>3, SameLinks DEF ReloadConfig, masterVars, sockets
<1>4. ASSUME NEW fd \in FDs, MasterWorks(fd) \/ MasterFails(fd) PROVE LinkInv'
  BY <1>4, MasterLinks
<1>5. CASE UNCHANGED vars
  BY <1>5, SameLinks DEF vars, masterVars, sockets, yamaVars
<1> QED
  BY <1>1, <1>2, <1>3, <1>4, <1>5 DEF Next

(* A master that was told of a replanning and has joined its threads finds *)
(* the blocks to transform again in its socket, and never takes another    *)
(* reply for them, however many masters YAMA serves.                       *)
THEOREM ReplanReplies == Spec => []ReplanReplyIsThere
<1>1. Spec => [](TypeInv /\ LinkInv)
  <2>1. Init => TypeInv /\ LinkInv
    BY InitTypes, InitLinks
  <2>2. TypeInv /\ LinkInv /\ [Next]_vars => (TypeInv /\ LinkInv)'
    BY NextTypes, NextLinks
  <2> QED
    BY <2>1, <2>2, PTL DEF Spec
<1>2. LinkInv => ReplanReplyIsThere
  BY DEF LinkInv, Link, ReplanReplyIsThere
<1> QED
  BY <1>1, <1>2, PTL
-----------------------------------------------------------------------------
(* A node that failed is not chosen again.                                 *)
LEMMA FailedIsNotHealthy ==
    ASSUME NEW t, Table_OK(t), NEW n \in Node
    PROVE  ~Healthy(IncreaseNodeError(t, n), n)
<1> DEFINE g == IncreaseNodeError(t, n)
<1>1. SameNodes(t, g)
  BY HandlersKeepTable
<1>2. CASE Known(t, n)
  <2>1. \A i \in DOMAIN g : g[i].node_id = n => g[i].errors # 0
    BY <1>2, FailureIsError
  <2> QED
    BY <2>1 DEF Healthy
<1>3. CASE ~Known(t, n)
  BY <1>1, <1>3 DEF SameNodes, Known, Healthy
<1> QED
  BY <1>2, <1>3

LEMMA SameLength ==
    ASSUME NEW R, NEW s \in Seq(R), NEW w \in Seq(R), DOMAIN s = DOMAIN w
    PROVE  Len(s) = Len(w)
<1>1. /\ DOMAIN s = 1 .. Len(s) /\ DOMAIN w = 1 .. Len(w)
      /\ Len(s) \in Nat /\ Len(w) \in Nat
  OBVIOUS
<1>2. \A m, n \in Nat : 1 .. m = 1 .. n => m = n
  <2> SUFFICES ASSUME NEW m \in Nat, NEW n \in Nat, 1 .. m = 1 .. n PROVE m = n
    OBVIOUS
  <2>1. m > 0 => m \in 1 .. n
    OBVIOUS
  <2>2. n > 0 => n \in 1 .. m
    OBVIOUS
  <2> QED
    BY <2>1, <2>2
<1>3. 1 .. Len(s) = 1 .. Len(w)
  BY <1>1, Zenon
<1> QED
  BY <1>1, <1>2, <1>3, Zenon

(* An error report only adds rows if it is replanned, and these are of     *)
(* nodes without errors.                                                   *)
LEMMA FailureServed ==
    ASSUME TypeInv, NEW fd \in FDs, GetMasterMessage(fd), NodeFailed(fd),
           Len(tabla_estados') > Len(tabla_estados),
           NEW i \in DOMAIN tabla_estados' \ DOMAIN tabla_estados
    PROVE  tabla_estados'[i].node # Head(pedidos[fd]).node
<1> DEFINE m == Head(pedidos[fd])
<1>1. pedidos[fd] # <<>> /\ m.op = "E" /\ m.etapa = "T"
  BY DEF NodeFailed, Attend, Receive
<1>2. tabla_estados \in Seq(RowsOver(KnownNodes, KnownBlocks)) /\ Len(tabla_estados) \in Nat
  BY DEF TypeInv, Tables
<1>3. tabla_estados' # tabla_estados
  BY <1>2
<1>4. \A ix : tabla_estados' # Marked(ix, "E")
  <2> SUFFICES ASSUME NEW ix, tabla_estados' = Marked(ix, "E") PROVE FALSE
    OBVIOUS
  <2>1. /\ tabla_estados' \in Seq(RowsOver(KnownNodes, KnownBlocks))
        /\ DOMAIN tabla_estados' = DOMAIN tabla_estados
    BY <1>2, MarkedIs
  <2>2. Len(tabla_estados') = Len(tabla_estados)
    BY <1>2, <2>1, SameLength
  <2> QED
    BY <1>2, <2>2
<1>5. ReplanTask(fd)
  <2>1. \A op : Attend(fd, op) => op = "E"
    BY <1>1 DEF Attend, Receive
  <2>2. ~ReplanRefused(fd)
    BY <1>4, Zenon DEF ReplanRefused
  <2>3. ~AbortJob(fd)
    BY <1>1, Zenon DEF AbortJob
  <2>4. ~ErrorIgnored(fd)
    BY <1>3 DEF ErrorIgnored, yamaVars
  <2> QED
    BY <2>1, <2>2, <2>3, <2>4 DEF GetMasterMessage, ProcessTransformation, FileNotAvailable,
       ProcessLocalReduction, LocalReductionNotReady, ProcessGlobalReduction,
       GlobalReductionRefused, ProcessFinalStore, StageNotReady, ProcessOk,
       MasterDisconnected, MasterReset
<1>6. ReplannedRows(fd, m.node)
  BY <1>3, <1>5, ReplanTaskTables
<1>7. Healthy(IncreaseNodeError(tabla_nodos, m.node), tabla_estados'[i].node)
  BY <1>6, Zenon DEF ReplannedRows
<1>8. m.node \in Node /\ Table_OK(tabla_nodos)
  BY <1>1, MessageIs DEF TypeInv, Tables
<1> QED
  BY <1>7, <1>8, FailedIsNotHealthy

(* The message of fd that is served is not that of another.                *)
LEMMA OneServed ==
    ASSUME TypeInv, NEW fd \in FDs, NodeFailed(fd), NEW e \in FDs, GetMasterMessage(e)
    PROVE  e = fd
<1> SUFFICES ASSUME e # fd PROVE FALSE
  OBVIOUS
<1>1. pedidos' = [pedidos EXCEPT ![fd] = Tail(pedidos[fd])]
  BY DEF NodeFailed, Attend, Receive
<1>2. \E op : Receive(e, op)
  BY ReceivesSomething
<1>3. pedidos[e] # <<>> /\ pedidos' = [pedidos EXCEPT ![e] = Tail(pedidos[e])]
  BY <1>2 DEF Receive
<1>4. pedidos \in [FDs -> Seq(Message)] /\ pedidos[e] \in Seq(Message)
  BY DEF TypeInv, SocketsOK
<1>5. Tail(pedidos[e]) = pedidos[e]
  BY <1>1, <1>3, <1>4
<1> DEFINE s == pedidos[e]
<1>6. Len(Tail(s)) = Len(s) - 1 /\ Len(s) \in Nat
  BY <1>3, <1>4, TailIs
<1> HIDE DEF s
<1>7. Tail(s) = s
  BY <1>5 DEF s
<1>8. Len(s) = Len(s) - 1 /\ Len(s) \in Nat
  BY <1>6, <1>7, Zenon
<1> QED
  BY <1>8

(* A transformation that failed on a node is not planned again on it: the  *)
(* rows that serving the error of a node adds are of other nodes, whatever *)
(* the availabilities were and whatever other jobs charge.                 *)
THEOREM ReplannedElsewhere == Spec => ReplansElsewhere
<1>1. ASSUME TypeInv, Next, NEW fd \in FDs, NodeFailed(fd),
             Len(tabla_estados') > Len(tabla_estados),
             NEW i \in DOMAIN tabla_estados' \ RowIx
      PROVE  tabla_estados'[i].node # Head(pedidos[fd]).node
  <2>1. Len(tabla_estados) \in Nat
    BY <1>1 DEF TypeInv, Tables
  <2>2. tabla_estados' # tabla_estados
    BY <1>1, <2>1
  <2>3. PICK e \in FDs : YamaStep(e)
    BY <1>1, <2>2 DEF Next, MasterConnects, AcceptMasterConnection, ReloadConfig,
       MasterWorks, MasterFails, yamaVars
  <2>4. GetMasterMessage(fd)
    BY <1>1, <2>3, OneServed DEF YamaStep
  <2> QED
    BY <1>1, <2>4, FailureServed DEF RowIx
<1> DEFINE A == \A fd \in FDs : NodeFailed(fd) /\ Len(tabla_estados') > Len(tabla_estados) =>
                   \A i \in DOMAIN tabla_estados' \ RowIx :
                      tabla_estados'[i].node # Head(pedidos[fd]).node
<1>2. TypeInv /\ [Next]_vars => [A]_vars
  BY <1>1
<1>3. Spec => []TypeInv
  BY InitTypes, NextTypes, PTL DEF Spec
<1> QED
  BY <1>2, <1>3, PTL DEF Spec, ReplansElsewhere
-----------------------------------------------------------------------------
(* The jobs as JobLifecycle sees them.                                     *)

Pending(s, id, fd) ==
    {s[i].block[2] : i \in {k \in DOMAIN s : /\ s[k].job = id /\ s[k].master = fd
                                             /\ s[k].op = "T" /\ s[k].status = "P"}}
PendingOf(j) == Pending(tabla_estados, j.id, j.master)
Trabajos == [k \in DOMAIN tabla_jobs |-> Trabajo(tabla_jobs[k])]
Numbers == UNION {DOMAIN Layout[f] : f \in Files}

(* A job is known by its number and its master, which no other job has;    *)
(* what a master in its first request will get is new.  A job past its     *)
(* transformation has none in process, one in process was not refused.     *)
NoTwoAlike ==
    \A i, j \in DOMAIN tabla_jobs :
       tabla_jobs[i].id = tabla_jobs[j].id /\ tabla_jobs[i].master = tabla_jobs[j].master
         => i = j
RowsHaveJobs ==
    \A i \in DOMAIN tabla_estados : \E j \in DOMAIN tabla_jobs :
       /\ tabla_jobs[j].id = tabla_estados[i].job
       /\ tabla_jobs[j].master = tabla_estados[i].master
IdsGiven == \A j \in DOMAIN tabla_jobs : tabla_jobs[j].id <= jobs
NextIsNew ==
    \A fd \in FDs : Greeting(fd) =>
       \A j \in DOMAIN tabla_jobs : tabla_jobs[j].master = fd => tabla_jobs[j].id < jobs
Consistent(j) ==
    j.estado = "P" => /\ j.etapa # "T" => PendingOf(j) = {}
                      /\ j.replanificaciones # 2
LifeInv ==
    /\ NoTwoAlike /\ RowsHaveJobs /\ IdsGiven /\ NextIsNew
    /\ \A k \in DOMAIN tabla_jobs : Consistent(tabla_jobs[k])

LEMMA TrabajoIs ==
    ASSUME NEW j
    PROVE  Trabajo(j) = [estado |-> j.estado, etapa |-> j.etapa,
                         replanificado |-> j.replanificaciones > 0,
                         pendientes |-> IF j.estado # "P" THEN {} ELSE PendingOf(j)]
<1>1. {tabla_estados[i].block[2] : i \in InProcess(RowsOf(j.id, j.master, "T"))} = PendingOf(j)
  BY DEF InProcess, RowsOf, PendingOf, Pending
<1> QED
  BY <1>1, Zenon DEF Trabajo

LEMMA TrabajoThen ==
    ASSUME NEW k
    PROVE  Trabajo(tabla_jobs[k])' =
              [estado |-> tabla_jobs'[k].estado, etapa |-> tabla_jobs'[k].etapa,
               replanificado |-> tabla_jobs'[k].replanificaciones > 0,
               pendientes |-> IF tabla_jobs'[k].estado # "P" THEN {}
                              ELSE Pending(tabla_estados', tabla_jobs'[k].id,
                                           tabla_jobs'[k].master)]
<1> DEFINE j == tabla_jobs'[k]
<1>1. {tabla_estados'[i].block[2] :
          i \in {i \in {i \in DOMAIN tabla_estados' :
                         /\ tabla_estados'[i].job = j.id
                         /\ tabla_estados'[i].master = j.master
                         /\ tabla_estados'[i].op = "T"} : tabla_estados'[i].status = "P"}}
        = Pending(tabla_estados', j.id, j.master)
  BY DEF Pending
<1> QED
  BY <1>1, Zenon DEF Trabajo, InProcess, RowsOf

LEMMA PendingAreNumbers ==
    ASSUME Tables, NEW id, NEW fd
    PROVE  Pending(tabla_estados, id, fd) \in SUBSET Numbers
<1>1. KnownBlocks \subseteq Numbers
  BY DEF Tables, KnownBlocks, Findable, Numbers
<1>2. \A i \in DOMAIN tabla_estados :
         tabla_estados[i].op = "T" => tabla_estados[i].block[2] \in KnownBlocks
  <2>1. \A i \in DOMAIN tabla_estados : tabla_estados[i] \in RowsOver(KnownNodes, KnownBlocks)
    BY DEF Tables
  <2> QED
    BY <2>1 DEF RowsOver
<1> QED
  BY <1>1, <1>2 DEF Pending

(* w is s with rows of job (id, fd) marked or added.                       *)
OnlyOf(s, w, id, fd) ==
    /\ DOMAIN s \subseteq DOMAIN w
    /\ \A i \in DOMAIN s :
          /\ w[i].job = s[i].job /\ w[i].master = s[i].master
          /\ w[i].op = s[i].op /\ w[i].block = s[i].block
          /\ (s[i].job = id /\ s[i].master = fd) \/ w[i].status = s[i].status
    /\ \A i \in DOMAIN w \ DOMAIN s : w[i].job = id /\ w[i].master = fd

LEMMA PendingOfOthers ==
    ASSUME NEW s, NEW w, NEW id, NEW fd, OnlyOf(s, w, id, fd),
           NEW id2, NEW fd2, id2 # id \/ fd2 # fd
    PROVE  Pending(w, id2, fd2) = Pending(s, id2, fd2)
<1> DEFINE S == {k \in DOMAIN s : /\ s[k].job = id2 /\ s[k].master = fd2
                                  /\ s[k].op = "T" /\ s[k].status = "P"}
           W == {k \in DOMAIN w : /\ w[k].job = id2 /\ w[k].master = fd2
                                  /\ w[k].op = "T" /\ w[k].status = "P"}
<1>1. S = W
  BY DEF OnlyOf
<1>2. \A k \in S : w[k].block = s[k].block
  BY DEF OnlyOf
<1> HIDE DEF S, W
<1>3. {w[k].block[2] : k \in W} = {s[k].block[2] : k \in S}
  BY <1>1, <1>2
<1> QED
  BY <1>3 DEF Pending, S, W

LEMMA MoreIsOnly ==
    ASSUME NEW s, NEW w, NEW id, NEW fd, NEW op, More(s, w, id, fd, op)
    PROVE  /\ OnlyOf(s, w, id, fd)
           /\ op # "T" => Pending(w, id, fd) = Pending(s, id, fd)
<1>1. OnlyOf(s, w, id, fd)
  BY DEF More, OnlyOf
<1>2. ASSUME op # "T" PROVE Pending(w, id, fd) = Pending(s, id, fd)
  <2> DEFINE S == {k \in DOMAIN s : /\ s[k].job = id /\ s[k].master = fd
                                    /\ s[k].op = "T" /\ s[k].status = "P"}
             W == {k \in DOMAIN w : /\ w[k].job = id /\ w[k].master = fd
                                    /\ w[k].op = "T" /\ w[k].status = "P"}
  <2>1. S = W
    BY <1>2 DEF More
  <2>2. \A k \in S : w[k] = s[k]
    BY DEF More
  <2> HIDE DEF S, W
  <2>3. {w[k].block[2] : k \in W} = {s[k].block[2] : k \in S}
    BY <2>1, <2>2
  <2> QED
    BY <2>3 DEF Pending, S, W
<1> QED
  BY <1>1, <1>2

LEMMA MarkedIsOnly ==
    ASSUME Tables, NEW ix, NEW status \in {"P", "F", "E"}, NEW id, NEW fd,
           \A i \in ix \cap DOMAIN tabla_estados :
              tabla_estados[i].job = id /\ tabla_estados[i].master = fd
    PROVE  OnlyOf(tabla_estados, Marked(ix, status), id, fd)
<1>1. tabla_estados \in Seq(RowsOver(KnownNodes, KnownBlocks))
  BY DEF Tables
<1> DEFINE w == Marked(ix, status)
<1>2. /\ DOMAIN w = DOMAIN tabla_estados
      /\ \A i \in DOMAIN w :
            /\ w[i].job = tabla_estados[i].job /\ w[i].master = tabla_estados[i].master
            /\ w[i].op = tabla_estados[i].op /\ w[i].block = tabla_estados[i].block
            /\ w[i].status = IF i \in ix THEN status ELSE tabla_estados[i].status
  BY <1>1, MarkedIs
<1> HIDE DEF w
<1>3. OnlyOf(tabla_estados, w, id, fd)
  BY <1>2 DEF OnlyOf
<1> QED
  BY <1>3 DEF w

LEMMA OnlyThenMore ==
    ASSUME NEW s, NEW v, NEW w, NEW id, NEW fd, NEW op, DOMAIN v = DOMAIN s,
           OnlyOf(s, v, id, fd), More(v, w, id, fd, op)
    PROVE  OnlyOf(s, w, id, fd)
BY DEF OnlyOf, More

(* A step that changes one job and its rows.                               *)
OneJob(i) ==
    /\ i \in DOMAIN tabla_jobs /\ DOMAIN tabla_jobs' = DOMAIN tabla_jobs
    /\ \A k \in DOMAIN tabla_jobs : k # i => tabla_jobs'[k] = tabla_jobs[k]
    /\ tabla_jobs'[i].id = tabla_jobs[i].id /\ tabla_jobs'[i].master = tabla_jobs[i].master
    /\ OnlyOf(tabla_estados, tabla_estados', tabla_jobs[i].id, tabla_jobs[i].master)
    /\ Consistent(tabla_jobs[i])'

LEMMA OtherJobs ==
    ASSUME LifeInv, NEW i, OneJob(i), NEW k \in DOMAIN tabla_jobs, k # i
    PROVE  PendingOf(tabla_jobs[k])' = PendingOf(tabla_jobs[k])
<1>1. tabla_jobs[k].id # tabla_jobs[i].id \/ tabla_jobs[k].master # tabla_jobs[i].master
  BY DEF LifeInv, NoTwoAlike, OneJob
<1>2. Pending(tabla_estados', tabla_jobs[k].id, tabla_jobs[k].master)
        = Pending(tabla_estados, tabla_jobs[k].id, tabla_jobs[k].master)
  BY <1>1, PendingOfOthers DEF OneJob
<1>3. tabla_jobs'[k] = tabla_jobs[k]
  BY DEF OneJob
<1> QED
  BY <1>2, <1>3 DEF PendingOf

LEMMA OneJobLife ==
    ASSUME LifeInv, NEW i, OneJob(i), jobs' = jobs,
           \A fd \in FDs : Greeting(fd)' => Greeting(fd)
    PROVE  LifeInv'
<1>1. \A k \in DOMAIN tabla_jobs :
         tabla_jobs'[k].id = tabla_jobs[k].id /\ tabla_jobs'[k].master = tabla_jobs[k].master
  BY DEF OneJob
<1>2. NoTwoAlike'
  BY <1>1 DEF LifeInv, NoTwoAlike, OneJob
<1>3. RowsHaveJobs'
  <2> SUFFICES ASSUME NEW r \in DOMAIN tabla_estados'
               PROVE  \E j \in DOMAIN tabla_jobs :
                         /\ tabla_jobs[j].id = tabla_estados'[r].job
                         /\ tabla_jobs[j].master = tabla_estados'[r].master
    BY <1>1 DEF RowsHaveJobs, OneJob
  <2>1. CASE r \in DOMAIN tabla_estados
    BY <2>1 DEF LifeInv, RowsHaveJobs, OneJob, OnlyOf
  <2>2. CASE r \notin DOMAIN tabla_estados
    BY <2>2 DEF OneJob, OnlyOf
  <2> QED
    BY <2>1, <2>2
<1>4. IdsGiven' /\ NextIsNew'
  BY <1>1 DEF LifeInv, IdsGiven, NextIsNew, OneJob
<1>5. ASSUME NEW k \in DOMAIN tabla_jobs PROVE Consistent(tabla_jobs[k])'
  <2>1. CASE k = i
    BY <2>1 DEF OneJob
  <2>2. CASE k # i
    <3>1. Consistent(tabla_jobs[k])
      BY DEF LifeInv
    <3>2. tabla_jobs'[k] = tabla_jobs[k]
      BY <2>2 DEF OneJob
    <3> QED
      BY <2>2, <3>1, <3>2, OtherJobs DEF Consistent
  <2> QED
    BY <2>1, <2>2
<1> QED
  BY <1>2, <1>3, <1>4, <1>5 DEF LifeInv, OneJob

LEMMA OneJobSeen ==
    ASSUME LifeInv, NEW i, OneJob(i)
    PROVE  /\ Trabajos' = [Trabajos EXCEPT ![i] = Trabajo(tabla_jobs[i])']
           /\ i \in DOMAIN Trabajos /\ Trabajos[i] = Trabajo(tabla_jobs[i])
<1>1. ASSUME NEW k \in DOMAIN tabla_jobs, k # i
      PROVE  Trabajo(tabla_jobs[k])' = Trabajo(tabla_jobs[k])
  <2>1. tabla_jobs'[k] = tabla_jobs[k]
    BY <1>1 DEF OneJob
  <2>2. PendingOf(tabla_jobs[k])' = PendingOf(tabla_jobs[k])
    BY <1>1, OtherJobs
  <2>3. Pending(tabla_estados', tabla_jobs'[k].id, tabla_jobs'[k].master)
          = PendingOf(tabla_jobs[k])
    BY <2>2 DEF PendingOf
  <2> QED
    BY <2>1, <2>3, TrabajoIs, TrabajoThen
<1> QED
  BY <1>1 DEF Trabajos, OneJob
(* The steps of JobLifecycle, seen.                                        *)
LEMMA SeenStart ==
    ASSUME NEW S \in SUBSET Numbers,
           Trabajos' = Append(Trabajos, [estado |-> "P", etapa |-> "T",
                                         replanificado |-> FALSE, pendientes |-> S])
    PROVE  Lifecycle!Next
<1>1. Lifecycle!Start(S)
  BY Zenon DEF Lifecycle!Start, Trabajos
<1> QED
  BY <1>1, Zenon DEF Lifecycle!Next, Numbers

LEMMA SeenTransform ==
    ASSUME NEW i \in DOMAIN Trabajos, Trabajos[i].estado = "P",
           NEW b \in Numbers, Trabajos[i].etapa = "T", b \in Trabajos[i].pendientes,
           Trabajos' = [Trabajos EXCEPT ![i].pendientes = @ \ {b}]
    PROVE  Lifecycle!Next
<1>1. Lifecycle!Transform(i, b)
  BY Zenon DEF Lifecycle!Transform, Lifecycle!InProgress, Trabajos
<1> QED
  BY <1>1, Zenon DEF Lifecycle!Next, Numbers, Trabajos

LEMMA SeenReplan ==
    ASSUME NEW i \in DOMAIN Trabajos, Trabajos[i].estado = "P",
           NEW S \in SUBSET Numbers, Trabajos[i].etapa = "T", ~Trabajos[i].replanificado,
           Trabajos' = [Trabajos EXCEPT ![i].replanificado = TRUE,
                                        ![i].pendientes = @ \cup S]
    PROVE  Lifecycle!Next
<1>1. Lifecycle!Replan(i, S)
  BY Zenon DEF Lifecycle!Replan, Lifecycle!InProgress, Trabajos
<1> QED
  BY <1>1, Zenon DEF Lifecycle!Next, Numbers, Trabajos

LEMMA SeenAdvance ==
    ASSUME NEW i \in DOMAIN Trabajos, Trabajos[i].estado = "P",
           NEW from \in Stage, NEW to \in Stage,
           <<from, to>> \in {<<"T", "L">>, <<"L", "G">>, <<"G", "S">>},
           Trabajos[i].etapa = from, Trabajos[i].pendientes = {},
           Trabajos' = [Trabajos EXCEPT ![i].etapa = to]
    PROVE  Lifecycle!Next
<1>1. Lifecycle!Advance(i, from, to)
  BY Zenon DEF Lifecycle!Advance, Lifecycle!InProgress, Trabajos
<1>2. \/ from = "T" /\ to = "L"
      \/ from = "L" /\ to = "G"
      \/ from = "G" /\ to = "S"
  OBVIOUS
<1> QED
  BY <1>1, <1>2, Zenon DEF Lifecycle!Next, Numbers, Trabajos

LEMMA SeenFinish ==
    ASSUME NEW i \in DOMAIN Trabajos, Trabajos[i].estado = "P", Trabajos[i].etapa = "S",
           Trabajos' = [Trabajos EXCEPT ![i].estado = "F"]
    PROVE  Lifecycle!Next
<1>1. Lifecycle!Finish(i)
  BY Zenon DEF Lifecycle!Finish, Lifecycle!InProgress, Trabajos
<1> QED
  BY <1>1, Zenon DEF Lifecycle!Next, Numbers, Trabajos

LEMMA SeenAbort ==
    ASSUME NEW J \in SUBSET DOMAIN Trabajos, J # {}, \A i \in J : Trabajos[i].estado = "P",
           Trabajos' = [i \in DOMAIN Trabajos |->
                          IF i \in J THEN [Trabajos[i] EXCEPT !.estado = "E",
                                                              !.pendientes = {}]
                                     ELSE Trabajos[i]]
    PROVE  Lifecycle!Next
<1>1. Lifecycle!Abort(J)
  BY Zenon DEF Lifecycle!Abort, Trabajos
<1> QED
  BY <1>1, Zenon DEF Lifecycle!Next, Numbers, Trabajos

(* A job as it is seen before and after a step that changes it.            *)
LEMMA SeenJob ==
    ASSUME LifeInv, NEW i, OneJob(i)
    PROVE  LET j == tabla_jobs[i]
               v == tabla_jobs'[i]
           IN  /\ i \in DOMAIN Trabajos
               /\ Trabajos[i] = [estado |-> j.estado, etapa |-> j.etapa,
                                 replanificado |-> j.replanificaciones > 0,
                                 pendientes |-> IF j.estado # "P" THEN {} ELSE PendingOf(j)]
               /\ Trabajos' = [Trabajos EXCEPT ![i] =
                     [estado |-> v.estado, etapa |-> v.etapa,
                      replanificado |-> v.replanificaciones > 0,
                      pendientes |-> IF v.estado # "P" THEN {}
                                     ELSE Pending(tabla_estados', j.id, j.master)]]
<1>1. /\ Trabajos' = [Trabajos EXCEPT ![i] = Trabajo(tabla_jobs[i])']
      /\ i \in DOMAIN Trabajos /\ Trabajos[i] = Trabajo(tabla_jobs[i])
  BY OneJobSeen
<1>2. tabla_jobs'[i].id = tabla_jobs[i].id /\ tabla_jobs'[i].master = tabla_jobs[i].master
  BY DEF OneJob
<1> QED
  BY <1>1, <1>2, TrabajoIs, TrabajoThen

LEMMA AdvanceSeen ==
    ASSUME LifeInv, NEW i, OneJob(i), NEW from \in Stage, NEW to \in Stage,
           <<from, to>> \in {<<"T", "L">>, <<"L", "G">>, <<"G", "S">>},
           tabla_jobs[i].estado = "P", tabla_jobs'[i].estado = "P",
           tabla_jobs[i].etapa = from, tabla_jobs'[i].etapa = to,
           tabla_jobs'[i].replanificaciones = tabla_jobs[i].replanificaciones,
           PendingOf(tabla_jobs[i]) = {},
           Pending(tabla_estados', tabla_jobs[i].id, tabla_jobs[i].master) = {}
    PROVE  Lifecycle!Next
<1> DEFINE r == tabla_jobs[i].replanificaciones > 0
           a == [estado |-> "P", etapa |-> from, replanificado |-> r, pendientes |-> {}]
           b == [estado |-> "P", etapa |-> to, replanificado |-> r, pendientes |-> {}]
<1>1. i \in DOMAIN Trabajos /\ Trabajos[i] = a /\ Trabajos' = [Trabajos EXCEPT ![i] = b]
  BY SeenJob
<1>2. b = [a EXCEPT !.etapa = to] /\ a.estado = "P" /\ a.etapa = from /\ a.pendientes = {}
  OBVIOUS
<1> HIDE DEF a, b
<1>3. Trabajos' = [Trabajos EXCEPT ![i].etapa = to]
  BY <1>1, <1>2
<1> QED
  BY <1>1, <1>2, <1>3, SeenAdvance

LEMMA FinishSeen ==
    ASSUME LifeInv, NEW i, OneJob(i),
           tabla_jobs[i].estado = "P", tabla_jobs'[i].estado = "F",
           tabla_jobs[i].etapa = "S", tabla_jobs'[i].etapa = "S",
           tabla_jobs'[i].replanificaciones = tabla_jobs[i].replanificaciones
    PROVE  Lifecycle!Next
<1> DEFINE r == tabla_jobs[i].replanificaciones > 0
           a == [estado |-> "P", etapa |-> "S", replanificado |-> r, pendientes |-> {}]
           b == [estado |-> "F", etapa |-> "S", replanificado |-> r, pendientes |-> {}]
<1>1. PendingOf(tabla_jobs[i]) = {}
  BY DEF LifeInv, Consistent, OneJob
<1>2. i \in DOMAIN Trabajos /\ Trabajos[i] = a /\ Trabajos' = [Trabajos EXCEPT ![i] = b]
  BY <1>1, SeenJob
<1>3. b = [a EXCEPT !.estado = "F"] /\ a.estado = "P" /\ a.etapa = "S"
  OBVIOUS
<1> HIDE DEF a, b
<1>4. Trabajos' = [Trabajos EXCEPT ![i].estado = "F"]
  BY <1>2, <1>3
<1> QED
  BY <1>2, <1>3, <1>4, SeenFinish

LEMMA TransformSeen ==
    ASSUME Tables, LifeInv, NEW i, OneJob(i), tabla_jobs' = tabla_jobs,
           tabla_jobs[i].estado = "P", tabla_jobs[i].etapa = "T", NEW b,
           Pending(tabla_estados', tabla_jobs[i].id, tabla_jobs[i].master)
              \in {PendingOf(tabla_jobs[i]), PendingOf(tabla_jobs[i]) \ {b}}
    PROVE  Lifecycle!Next \/ Trabajos' = Trabajos
<1> DEFINE P == PendingOf(tabla_jobs[i])
           Q == Pending(tabla_estados', tabla_jobs[i].id, tabla_jobs[i].master)
           r == tabla_jobs[i].replanificaciones > 0
           a == [estado |-> "P", etapa |-> "T", replanificado |-> r, pendientes |-> P]
           d == [estado |-> "P", etapa |-> "T", replanificado |-> r, pendientes |-> Q]
<1>1. i \in DOMAIN Trabajos /\ Trabajos[i] = a /\ Trabajos' = [Trabajos EXCEPT ![i] = d]
  BY SeenJob
<1>2. P \in SUBSET Numbers
  BY PendingAreNumbers DEF PendingOf
<1>3. d = [a EXCEPT !.pendientes = Q] /\ a.estado = "P" /\ a.etapa = "T" /\ a.pendientes = P
  OBVIOUS
<1>4. Q = P \/ (b \in P /\ Q = P \ {b})
  OBVIOUS
<1>5. Q = P => d = a
  OBVIOUS
<1>6. Trabajos = [k \in DOMAIN Trabajos |-> Trabajos[k]]
  BY DEF Trabajos
<1> HIDE DEF a, d, P, Q
<1>7. CASE Q = P
  BY <1>1, <1>5, <1>6, <1>7
<1>8. CASE b \in P /\ Q = P \ {b}
  <2>1. d = [a EXCEPT !.pendientes = @ \ {b}]
    BY <1>3, <1>8
  <2>2. Trabajos' = [Trabajos EXCEPT ![i].pendientes = @ \ {b}]
    BY <1>1, <2>1
  <2> QED
    BY <1>1, <1>2, <1>3, <1>8, <2>2, SeenTransform
<1> QED
  BY <1>4, <1>7, <1>8

LEMMA ReplanSeen ==
    ASSUME LifeInv, NEW i, OneJob(i), tabla_jobs[i] \in Job,
           tabla_jobs[i].estado = "P", tabla_jobs'[i].estado = "P",
           tabla_jobs[i].etapa = "T", tabla_jobs'[i].etapa = "T",
           tabla_jobs[i].replanificaciones # 1, tabla_jobs'[i].replanificaciones = 1,
           NEW S \in SUBSET Numbers,
           Pending(tabla_estados', tabla_jobs[i].id, tabla_jobs[i].master)
              = PendingOf(tabla_jobs[i]) \cup S
    PROVE  Lifecycle!Next
<1> DEFINE P == PendingOf(tabla_jobs[i])
           r == tabla_jobs[i].replanificaciones > 0
           q == tabla_jobs'[i].replanificaciones > 0
           a == [estado |-> "P", etapa |-> "T", replanificado |-> r, pendientes |-> P]
           c == [a EXCEPT !.replanificado = q]
           d == [estado |-> "P", etapa |-> "T", replanificado |-> q, pendientes |-> P \cup S]
<1>1. tabla_jobs[i].replanificaciones = 0
  <2>1. tabla_jobs[i].replanificaciones \in 0 .. 2
    BY DEF Job
  <2>2. tabla_jobs[i].replanificaciones # 2
    BY DEF LifeInv, Consistent, OneJob
  <2> QED
    BY <2>1, <2>2
<1>2. ~r /\ q = TRUE
  BY <1>1
<1>3. i \in DOMAIN Trabajos /\ Trabajos[i] = a /\ Trabajos' = [Trabajos EXCEPT ![i] = d]
  <2> DEFINE Q == Pending(tabla_estados', tabla_jobs[i].id, tabla_jobs[i].master)
             z == [estado |-> "P", etapa |-> "T", replanificado |-> q, pendientes |-> Q]
  <2>4. /\ i \in DOMAIN Trabajos
        /\ Trabajos[i] =
             [estado |-> tabla_jobs[i].estado, etapa |-> tabla_jobs[i].etapa,
              replanificado |-> r,
              pendientes |-> IF tabla_jobs[i].estado # "P" THEN {} ELSE P]
        /\ Trabajos' = [Trabajos EXCEPT ![i] =
             [estado |-> tabla_jobs'[i].estado, etapa |-> tabla_jobs'[i].etapa,
              replanificado |-> q,
              pendientes |-> IF tabla_jobs'[i].estado # "P" THEN {} ELSE Q]]
    BY SeenJob, Zenon
  <2> HIDE DEF P, Q, r, q
  <2>1. i \in DOMAIN Trabajos /\ Trabajos[i] = a
    BY <2>4
  <2>2. Trabajos' = [Trabajos EXCEPT ![i] = z]
    BY <2>4
  <2>3. z = d
    BY DEF P, Q
  <2> HIDE DEF z, d
  <2> QED
    BY <2>1, <2>2, <2>3
<1> HIDE DEF P, r, q
<1>4. /\ a.estado = "P" /\ a.etapa = "T" /\ a.replanificado = r /\ a.pendientes = P
      /\ c = [estado |-> "P", etapa |-> "T", replanificado |-> q, pendientes |-> P]
  OBVIOUS
<1> HIDE DEF c
<1>5. d = [c EXCEPT !.pendientes = P \cup S]
  BY <1>4
<1> HIDE DEF a, d
<1>6. d = [a EXCEPT !.replanificado = TRUE, !.pendientes = a.pendientes \cup S]
  BY <1>2, <1>4, <1>5, Zenon DEF c
<1>7. Trabajos' = [Trabajos EXCEPT ![i].replanificado = TRUE, ![i].pendientes = @ \cup S]
  BY <1>3, <1>6
<1>8. Trabajos[i].estado = "P" /\ Trabajos[i].etapa = "T" /\ ~Trabajos[i].replanificado
  BY <1>2, <1>3, <1>4, Zenon
<1> QED
  BY <1>3, <1>7, <1>8, SeenReplan, Zenon

LEMMA AbortSeen ==
    ASSUME LifeInv, NEW i, OneJob(i), tabla_jobs[i] \in Job, tabla_jobs'[i] \in Job,
           tabla_jobs[i].estado = "P", tabla_jobs'[i].estado = "E",
           tabla_jobs'[i].etapa = tabla_jobs[i].etapa,
           tabla_jobs'[i].replanificaciones > 0 <=> tabla_jobs[i].replanificaciones > 0
    PROVE  Lifecycle!Next
<1> DEFINE r == tabla_jobs[i].replanificaciones > 0
           e == tabla_jobs[i].etapa
           a == [estado |-> "P", etapa |-> e, replanificado |-> r,
                 pendientes |-> PendingOf(tabla_jobs[i])]
           c == [a EXCEPT !.estado = "E"]
           d == [estado |-> "E", etapa |-> e, replanificado |-> r, pendientes |-> {}]
<1>1. (tabla_jobs'[i].replanificaciones > 0) = r
  OBVIOUS
<1>2. i \in DOMAIN Trabajos /\ Trabajos[i] = a /\ Trabajos' = [Trabajos EXCEPT ![i] = d]
  BY <1>1, SeenJob
<1>3. d = [a EXCEPT !.estado = "E", !.pendientes = {}] /\ a.estado = "P"
  <2> DEFINE P == PendingOf(tabla_jobs[i])
  <2> HIDE DEF P, r, e
  <2>1. /\ a.estado = "P"
        /\ c = [estado |-> "E", etapa |-> e, replanificado |-> r, pendientes |-> P]
    BY DEF P
  <2> HIDE DEF c
  <2>2. d = [c EXCEPT !.pendientes = {}]
    BY <2>1
  <2> HIDE DEF a, d
  <2> QED
    BY <2>1, <2>2, Zenon DEF c
<1>4. Trabajos = [k \in DOMAIN Trabajos |-> Trabajos[k]]
  BY DEF Trabajos
<1> HIDE DEF a, d
<1>5. Trabajos' = [k \in DOMAIN Trabajos |->
                     IF k \in {i} THEN [Trabajos[k] EXCEPT !.estado = "E", !.pendientes = {}]
                                  ELSE Trabajos[k]]
  BY <1>2, <1>3, <1>4
<1> QED
  BY <1>2, <1>3, <1>5, SeenAbort
(* A step that leaves the jobs as they were.                               *)
Seen == Lifecycle!Next \/ Trabajos' = Trabajos
NoNewGreeting == \A fd \in FDs : Greeting(fd)' => Greeting(fd)

LEMMA QuietStep ==
    ASSUME LifeInv, tabla_jobs' = tabla_jobs, tabla_estados' = tabla_estados,
           jobs' = jobs, NoNewGreeting
    PROVE  LifeInv' /\ Seen
<1>1. NoTwoAlike' /\ RowsHaveJobs' /\ IdsGiven' /\ NextIsNew'
  BY DEF LifeInv, NoTwoAlike, RowsHaveJobs, IdsGiven, NextIsNew, NoNewGreeting
<1>2. \A k \in DOMAIN tabla_jobs' : Consistent(tabla_jobs[k])'
  BY DEF LifeInv, Consistent, PendingOf
<1>3. Trabajos' = Trabajos
  <2>1. \A k : Trabajo(tabla_jobs[k])' = Trabajo(tabla_jobs[k])
    BY TrabajoIs, TrabajoThen DEF PendingOf
  <2> QED
    BY <2>1 DEF Trabajos
<1> QED
  BY <1>1, <1>2, <1>3 DEF LifeInv, Seen

(* A handler that takes up one job of the master and its rows.             *)
LEMMA SetJobOne ==
    ASSUME TypeInv, NEW fd \in FDs, NEW etapa, HasJob(fd, etapa), NEW j \in Job,
           SetJob(fd, etapa, j), j.id = JobOf(fd, etapa).id, j.master = fd,
           OnlyOf(tabla_estados, tabla_estados', JobOf(fd, etapa).id, fd),
           j.estado = "P" => /\ j.etapa # "T" => Pending(tabla_estados', j.id, fd) = {}
                             /\ j.replanificaciones # 2
    PROVE  LET i == GetJobIndex(fd, etapa)
           IN  /\ OneJob(i) /\ tabla_jobs[i] = JobOf(fd, etapa) /\ tabla_jobs'[i] = j
               /\ tabla_jobs[i] \in Job /\ tabla_jobs[i].master = fd
               /\ tabla_jobs[i].estado = "P" /\ tabla_jobs[i].etapa = etapa
<1> PICK i : i = GetJobIndex(fd, etapa)
  OBVIOUS
<1>1. tabla_jobs \in Seq(Job)
  BY DEF TypeInv, Tables
<1>2. /\ i \in DOMAIN tabla_jobs /\ JobOf(fd, etapa) = tabla_jobs[i]
      /\ JobOf(fd, etapa) \in Job /\ JobOf(fd, etapa).master = fd
      /\ JobOf(fd, etapa).etapa = etapa /\ JobOf(fd, etapa).estado = "P"
  BY <1>1, JobOfIs
<1>3. /\ DOMAIN tabla_jobs' = DOMAIN tabla_jobs /\ tabla_jobs'[i] = j
      /\ \A k \in DOMAIN tabla_jobs : k # i => tabla_jobs'[k] = tabla_jobs[k]
  BY <1>1, SetJobIs
<1>4. Consistent(tabla_jobs[i])'
  BY <1>3 DEF Consistent, PendingOf
<1>5. OneJob(i)
  BY <1>2, <1>3, <1>4 DEF OneJob
<1> QED
  BY <1>2, <1>3, <1>5

LEMMA JobAdvanced ==
    ASSUME NEW j \in Job, NEW e \in Stage
    PROVE  LET k == [j EXCEPT !.etapa = e]
           IN  /\ k \in Job /\ k.etapa = e /\ k.id = j.id /\ k.master = j.master
               /\ k.estado = j.estado /\ k.replanificaciones = j.replanificaciones
BY DEF Job

LEMMA AdvanceStep ==
    ASSUME TypeInv, LifeInv, NEW fd \in FDs, NEW from \in Stage, NEW to \in Stage,
           <<from, to>> \in {<<"T", "L">>, <<"L", "G">>, <<"G", "S">>},
           HasJob(fd, from), SetJob(fd, from, [JobOf(fd, from) EXCEPT !.etapa = to]),
           More(tabla_estados, tabla_estados', JobOf(fd, from).id, fd, to),
           from = "T" => PendingOf(JobOf(fd, from)) = {},
           jobs' = jobs, NoNewGreeting
    PROVE  LifeInv' /\ Seen
<1> DEFINE job == JobOf(fd, from)
           j == [job EXCEPT !.etapa = to]
           i == GetJobIndex(fd, from)
<1>1. /\ i \in DOMAIN tabla_jobs /\ job = tabla_jobs[i] /\ job \in Job /\ job.master = fd
      /\ job.etapa = from /\ job.estado = "P"
  BY JobOfIs DEF TypeInv, Tables
<1>2. /\ j \in Job /\ j.etapa = to /\ j.id = job.id /\ j.master = fd /\ j.estado = "P"
      /\ j.replanificaciones = job.replanificaciones
  <2>1. /\ j \in Job /\ j.etapa = to /\ j.id = job.id /\ j.master = job.master
        /\ j.estado = job.estado /\ j.replanificaciones = job.replanificaciones
    BY <1>1, JobAdvanced
  <2> QED
    BY <1>1, <2>1, Zenon
<1>3. to # "T"
  OBVIOUS
<1>4. Consistent(job)
  BY <1>1 DEF LifeInv
<1>5. SetJob(fd, from, j)
  OBVIOUS
<1> HIDE DEF j, i
<1>6. PendingOf(job) = {} /\ job.replanificaciones # 2
  BY <1>1, <1>4 DEF Consistent
<1>7. /\ OnlyOf(tabla_estados, tabla_estados', job.id, fd)
      /\ Pending(tabla_estados', job.id, fd) = Pending(tabla_estados, job.id, fd)
  BY <1>3, MoreIsOnly
<1>8. Pending(tabla_estados', job.id, fd) = {}
  BY <1>1, <1>6, <1>7 DEF PendingOf
<1>9. /\ OneJob(i) /\ tabla_jobs[i] = job /\ tabla_jobs'[i] = j
  BY <1>1, <1>2, <1>5, <1>6, <1>7, <1>8, SetJobOne DEF i
<1>10. Lifecycle!Next
  BY <1>1, <1>2, <1>6, <1>8, <1>9, AdvanceSeen
<1>11. LifeInv'
  BY <1>9, OneJobLife DEF NoNewGreeting
<1> QED
  BY <1>10, <1>11 DEF Seen

LEMMA NothingMore ==
    ASSUME NEW s, NEW job, NEW fd, NEW op
    PROVE  More(s, s, job, fd, op)
BY DEF More

LEMMA ReductionSteps ==
    ASSUME TypeInv, LifeInv, NEW fd \in FDs, jobs' = jobs, NoNewGreeting,
           \/ ProcessLocalReduction(fd) \/ ProcessGlobalReduction(fd)
           \/ GlobalReductionRefused(fd) \/ ProcessFinalStore(fd)
    PROVE  LifeInv' /\ Seen
<1>1. /\ "T" \in Stage /\ "L" \in Stage /\ "G" \in Stage /\ "S" \in Stage
  BY DEF Stage
<1>2. CASE ProcessLocalReduction(fd)
  <2>1. /\ HasJob(fd, "T") /\ AllTransformProcesFinish(JobOf(fd, "T").id, fd)
        /\ SetJob(fd, "T", [JobOf(fd, "T") EXCEPT !.etapa = "L"])
    BY <1>2, Zenon DEF ProcessLocalReduction
  <2>2. More(tabla_estados, tabla_estados', JobOf(fd, "T").id, fd, "L")
    BY <1>2, ProcessLocalReductionTables
  <2>3. JobOf(fd, "T").master = fd
    BY <2>1, JobOfIs DEF TypeInv, Tables
  <2>4. PendingOf(JobOf(fd, "T")) = {}
    BY <2>1, <2>3 DEF AllTransformProcesFinish, InProcess, RowsOf, PendingOf, Pending
  <2> QED
    BY <1>1, <2>1, <2>2, <2>4, AdvanceStep
<1>3. CASE GlobalReductionRefused(fd)
  <2>1. /\ HasJob(fd, "L") /\ tabla_estados' = tabla_estados
        /\ SetJob(fd, "L", [JobOf(fd, "L") EXCEPT !.etapa = "G"])
    BY <1>3, Zenon DEF GlobalReductionRefused
  <2>2. More(tabla_estados, tabla_estados', JobOf(fd, "L").id, fd, "G")
    BY <2>1, NothingMore
  <2> QED
    BY <1>1, <2>1, <2>2, AdvanceStep
<1>4. CASE ProcessGlobalReduction(fd)
  <2>1. /\ HasJob(fd, "L")
        /\ SetJob(fd, "L", [JobOf(fd, "L") EXCEPT !.etapa = "G"])
    BY <1>4, Zenon DEF ProcessGlobalReduction
  <2>2. More(tabla_estados, tabla_estados', JobOf(fd, "L").id, fd, "G")
    BY <1>4, ProcessGlobalReductionTables
  <2> QED
    BY <1>1, <2>1, <2>2, AdvanceStep
<1>5. CASE ProcessFinalStore(fd)
  <2>1. /\ HasJob(fd, "G")
        /\ SetJob(fd, "G", [JobOf(fd, "G") EXCEPT !.etapa = "S"])
    BY <1>5, Zenon DEF ProcessFinalStore
  <2>2. More(tabla_estados, tabla_estados', JobOf(fd, "G").id, fd, "S")
    BY <1>5, ProcessFinalStoreTables
  <2> QED
    BY <1>1, <2>1, <2>2, AdvanceStep
<1> QED
  BY <1>2, <1>3, <1>4, <1>5
(* A request to transform: the new job is not any of those there are.      *)
LEMMA NewJobStep ==
    ASSUME TypeInv, LifeInv, NEW fd \in FDs, Greeting(fd), ~Greeting(fd)', Tables',
           tabla_jobs' = Append(tabla_jobs, NewJob(fd)),
           OnlyOf(tabla_estados, tabla_estados', jobs, fd),
           jobs' = jobs, NoNewGreeting
    PROVE  LifeInv' /\ Seen
<1> DEFINE n == Len(tabla_jobs) + 1
           j == NewJob(fd)
           S == Pending(tabla_estados', jobs, fd)
<1>1. /\ tabla_jobs \in Seq(Job) /\ jobs \in Nat
      /\ DOMAIN tabla_jobs = 1 .. Len(tabla_jobs) /\ Len(tabla_jobs) \in Nat
  BY DEF TypeInv, Tables
<1>2. PICK k1 : k1 = n
  OBVIOUS
<1> HIDE DEF j
<1>3. /\ DOMAIN tabla_jobs' = DOMAIN tabla_jobs \cup {k1} /\ k1 \notin DOMAIN tabla_jobs
      /\ tabla_jobs'[k1] = j
      /\ \A k \in DOMAIN tabla_jobs : tabla_jobs'[k] = tabla_jobs[k]
  BY <1>1, <1>2 DEF j
<1>4. /\ j.id = jobs /\ j.master = fd /\ j.estado = "P" /\ j.etapa = "T"
      /\ j.replanificaciones = 0
  BY DEF j, NewJob
<1>5. \A k \in DOMAIN tabla_jobs : tabla_jobs[k].id # jobs \/ tabla_jobs[k].master # fd
  <2>1. \A k \in DOMAIN tabla_jobs : tabla_jobs[k].id \in Nat
    <3>1. \A k \in DOMAIN tabla_jobs : tabla_jobs[k] \in Job
      BY <1>1
    <3> QED
      BY <3>1 DEF Job
  <2>2. \A k \in DOMAIN tabla_jobs : tabla_jobs[k].master = fd => tabla_jobs[k].id < jobs
    BY DEF LifeInv, NextIsNew
  <2> QED
    BY <1>1, <2>1, <2>2
<1>6. \A k \in DOMAIN tabla_jobs :
         Pending(tabla_estados', tabla_jobs[k].id, tabla_jobs[k].master)
           = PendingOf(tabla_jobs[k])
  BY <1>5, PendingOfOthers DEF PendingOf
<1>7. NoTwoAlike'
  BY <1>3, <1>4, <1>5 DEF LifeInv, NoTwoAlike
<1>8. RowsHaveJobs'
  <2> SUFFICES ASSUME NEW r \in DOMAIN tabla_estados'
               PROVE  \E k \in DOMAIN tabla_jobs' :
                         /\ tabla_jobs'[k].id = tabla_estados'[r].job
                         /\ tabla_jobs'[k].master = tabla_estados'[r].master
    BY DEF RowsHaveJobs
  <2>1. CASE r \in DOMAIN tabla_estados
    <3>1. /\ tabla_estados'[r].job = tabla_estados[r].job
          /\ tabla_estados'[r].master = tabla_estados[r].master
      BY <2>1 DEF OnlyOf
    <3>2. PICK k \in DOMAIN tabla_jobs : /\ tabla_jobs[k].id = tabla_estados[r].job
                                         /\ tabla_jobs[k].master = tabla_estados[r].master
      BY <2>1 DEF LifeInv, RowsHaveJobs
    <3> QED
      BY <1>3, <3>1, <3>2
  <2>2. CASE r \notin DOMAIN tabla_estados
    BY <1>3, <1>4, <2>2 DEF OnlyOf
  <2> QED
    BY <2>1, <2>2
<1>9. IdsGiven'
  BY <1>1, <1>3, <1>4 DEF LifeInv, IdsGiven
<1>10. NextIsNew'
  BY <1>3, <1>4 DEF LifeInv, NextIsNew, NoNewGreeting
<1>11. ASSUME NEW k \in DOMAIN tabla_jobs' PROVE Consistent(tabla_jobs[k])'
  <2>1. CASE k = k1
    BY <1>3, <1>4, <2>1 DEF Consistent
  <2>2. CASE k # k1
    <3>1. k \in DOMAIN tabla_jobs /\ tabla_jobs'[k] = tabla_jobs[k]
      BY <1>3, <2>2
    <3>2. Consistent(tabla_jobs[k])
      BY <3>1 DEF LifeInv
    <3> QED
      BY <1>6, <3>1, <3>2 DEF Consistent, PendingOf
  <2> QED
    BY <2>1, <2>2
<1>12. LifeInv'
  BY <1>7, <1>8, <1>9, <1>10, <1>11 DEF LifeInv
<1>13. S \in SUBSET Numbers
  <2>1. KnownBlocks' \subseteq Numbers
    BY DEF Tables, KnownBlocks, Findable, Numbers
  <2>2. \A i \in DOMAIN tabla_estados' :
           tabla_estados'[i].op = "T" => tabla_estados'[i].block[2] \in KnownBlocks'
    <3>1. \A i \in DOMAIN tabla_estados' :
             tabla_estados'[i] \in RowsOver(KnownNodes', KnownBlocks')
      BY DEF Tables
    <3> QED
      BY <3>1 DEF RowsOver
  <2> QED
    BY <2>1, <2>2 DEF Pending
<1>14. Trabajos' = Append(Trabajos, [estado |-> "P", etapa |-> "T",
                                     replanificado |-> FALSE, pendientes |-> S])
  <2> DEFINE v == [estado |-> "P", etapa |-> "T", replanificado |-> FALSE, pendientes |-> S]
  <2> HIDE DEF S
  <2>1. Trabajo(tabla_jobs[k1])' = v
    <3>1. (j.replanificaciones > 0) = FALSE
      BY <1>4
    <3>2. Trabajo(tabla_jobs[k1])' =
             [estado |-> "P", etapa |-> "T", replanificado |-> j.replanificaciones > 0,
              pendientes |-> S]
      BY <1>3, <1>4, TrabajoThen DEF S
    <3> QED
      BY <3>1, <3>2, Zenon
  <2>2. \A k \in DOMAIN tabla_jobs : Trabajo(tabla_jobs[k])' = Trabajo(tabla_jobs[k])
    BY <1>3, <1>6, TrabajoIs, TrabajoThen
  <2> HIDE DEF v
  <2>3. /\ Trabajos' = [k \in 1 .. Len(tabla_jobs) + 1 |-> Trabajo(tabla_jobs[k])']
        /\ Trabajos = [k \in 1 .. Len(tabla_jobs) |-> Trabajo(tabla_jobs[k])]
    BY <1>1, <1>2, <1>3 DEF Trabajos
  <2>4. /\ Append(Trabajos, v) =
             [k \in 1 .. Len(tabla_jobs) + 1 |->
                IF k = Len(tabla_jobs) + 1 THEN v ELSE Trabajo(tabla_jobs[k])]
    BY <1>1, <2>3
  <2> QED
    BY <1>1, <1>2, <2>1, <2>2, <2>3, <2>4 DEF v
<1>15. Lifecycle!Next
  BY <1>13, <1>14, SeenStart
<1> QED
  BY <1>12, <1>15 DEF Seen
(* A task that is reported, or marked, on a job that stays as it is.       *)
LEMMA SameSeen ==
    ASSUME LifeInv, NEW i, OneJob(i), tabla_jobs' = tabla_jobs,
           Pending(tabla_estados', tabla_jobs[i].id, tabla_jobs[i].master)
              = PendingOf(tabla_jobs[i])
    PROVE  Trabajos' = Trabajos
<1>1. ASSUME NEW k \in DOMAIN tabla_jobs
      PROVE  Pending(tabla_estados', tabla_jobs[k].id, tabla_jobs[k].master)
               = PendingOf(tabla_jobs[k])
  <2>1. CASE k = i
    BY <2>1
  <2>2. CASE k # i
    BY <2>2, OtherJobs DEF PendingOf
  <2> QED
    BY <2>1, <2>2
<1>2. \A k \in DOMAIN tabla_jobs : Trabajo(tabla_jobs[k])' = Trabajo(tabla_jobs[k])
  BY <1>1, TrabajoIs, TrabajoThen
<1> QED
  BY <1>2 DEF Trabajos

LEMMA MarkedPending ==
    ASSUME Tables, NEW ix, NEW status \in {"F", "E"}, NEW id, NEW fd
    PROVE  LET w == Marked(ix, status)
           IN  /\ Pending(w, id, fd) =
                    {tabla_estados[k].block[2] :
                       k \in {k \in DOMAIN tabla_estados \ ix :
                                /\ tabla_estados[k].job = id /\ tabla_estados[k].master = fd
                                /\ tabla_estados[k].op = "T" /\ tabla_estados[k].status = "P"}}
<1> DEFINE w == Marked(ix, status)
           W == {k \in DOMAIN w : /\ w[k].job = id /\ w[k].master = fd
                                  /\ w[k].op = "T" /\ w[k].status = "P"}
           S == {k \in DOMAIN tabla_estados \ ix :
                   /\ tabla_estados[k].job = id /\ tabla_estados[k].master = fd
                   /\ tabla_estados[k].op = "T" /\ tabla_estados[k].status = "P"}
<1>1. tabla_estados \in Seq(RowsOver(KnownNodes, KnownBlocks))
  BY DEF Tables
<1>2. /\ DOMAIN w = DOMAIN tabla_estados
      /\ \A i \in DOMAIN w :
            /\ w[i].job = tabla_estados[i].job /\ w[i].master = tabla_estados[i].master
            /\ w[i].op = tabla_estados[i].op /\ w[i].block = tabla_estados[i].block
            /\ w[i].status = IF i \in ix THEN status ELSE tabla_estados[i].status
  BY <1>1, MarkedIs
<1> HIDE DEF w
<1>3. W = S
  BY <1>2
<1>4. \A k \in S : w[k].block = tabla_estados[k].block
  BY <1>2
<1>5. Pending(w, id, fd) = {w[k].block[2] : k \in W}
  BY DEF Pending
<1> HIDE DEF W, S
<1>6. {w[k].block[2] : k \in W} = {tabla_estados[k].block[2] : k \in S}
  BY <1>3, <1>4
<1> QED
  BY <1>5, <1>6 DEF S, w

LEMMA OkStep ==
    ASSUME TypeInv, LifeInv, NEW fd \in FDs, ProcessOk(fd), jobs' = jobs, NoNewGreeting
    PROVE  LifeInv' /\ Seen
<1> DEFINE m == Head(pedidos[fd])
           e == m.etapa
           job == JobOf(fd, e)
           done == FindInProcessTasks(job.id, fd, e, m.node, m.block)
           ix == IF done = {} THEN {} ELSE {First(done)}
<1>1. /\ pedidos[fd] # <<>> /\ m.op = "O"
      /\ \/ ~HasJob(fd, e) /\ tabla_estados' = tabla_estados /\ tabla_jobs' = tabla_jobs
         \/ /\ HasJob(fd, e)
            /\ tabla_estados' = IF done = {} THEN tabla_estados ELSE Marked({First(done)}, "F")
            /\ \/ e = "S" /\ SetJob(fd, "S", [job EXCEPT !.estado = "F"])
               \/ e # "S" /\ tabla_jobs' = tabla_jobs
  BY Zenon DEF ProcessOk, Attend, Receive
<1>2. CASE tabla_estados' = tabla_estados /\ tabla_jobs' = tabla_jobs
  BY <1>2, QuietStep
<1>3. ASSUME HasJob(fd, e) PROVE /\ GetJobIndex(fd, e) \in DOMAIN tabla_jobs
                                 /\ job = tabla_jobs[GetJobIndex(fd, e)]
                                 /\ job \in Job /\ job.master = fd
                                 /\ job.etapa = e /\ job.estado = "P"
  BY <1>3, JobOfIs DEF TypeInv, Tables
<1>4. Tables
  BY DEF TypeInv
<1>5. /\ done \in SUBSET Nat
      /\ \A i \in done : /\ i \in DOMAIN tabla_estados
                         /\ tabla_estados[i].job = job.id /\ tabla_estados[i].master = fd
                         /\ tabla_estados[i].op = e /\ tabla_estados[i].status = "P"
                         /\ e = "T" => tabla_estados[i].block = m.block
  BY <1>4 DEF FindInProcessTasks, InProcess, RowsOn, RowsOf, Tables
<1>6. done # {} => First(done) \in done
  BY <1>5, FirstIs
<1> HIDE DEF done
<1>7. OnlyOf(tabla_estados, tabla_estados', job.id, fd)
  <2>1. CASE done = {} \/ tabla_estados' = tabla_estados
    BY <1>1, <2>1 DEF OnlyOf
  <2>2. CASE done # {} /\ tabla_estados' = Marked({First(done)}, "F")
    BY <1>4, <1>5, <1>6, <2>2, MarkedIsOnly
  <2> QED
    BY <1>1, <2>1, <2>2
<1>8. CASE HasJob(fd, e) /\ e = "S" /\ SetJob(fd, "S", [job EXCEPT !.estado = "F"])
  <2> DEFINE j == [job EXCEPT !.estado = "F"]
  <2>1. /\ j \in Job /\ j.estado = "F" /\ j.id = job.id /\ j.master = fd
        /\ j.etapa = "S" /\ j.replanificaciones = job.replanificaciones
    BY <1>3, <1>8, JobRewritten
  <2>2. SetJob(fd, e, j)
    BY <1>8
  <2> HIDE DEF j
  <2>3. PICK i : i = GetJobIndex(fd, e)
    OBVIOUS
  <2>4. /\ OneJob(i) /\ tabla_jobs[i] = job /\ tabla_jobs'[i] = j
    BY <1>7, <1>8, <2>1, <2>2, <2>3, SetJobOne
  <2>5. Lifecycle!Next
    BY <1>3, <1>8, <2>1, <2>4, FinishSeen
  <2> QED
    BY <2>4, <2>5, OneJobLife DEF NoNewGreeting, Seen
<1>9. CASE HasJob(fd, e) /\ tabla_jobs' = tabla_jobs /\ done # {}
           /\ tabla_estados' = Marked({First(done)}, "F")
  <2>1. PICK i : i = GetJobIndex(fd, e)
    OBVIOUS
  <2>2. i \in DOMAIN tabla_jobs /\ tabla_jobs[i] = job
    BY <1>3, <1>9, <2>1
  <2>3. PICK d \in done : d = First(done)
    BY <1>6, <1>9
  <2> DEFINE P == PendingOf(job)
             Q == Pending(tabla_estados', job.id, fd)
             R == {k \in DOMAIN tabla_estados :
                     /\ tabla_estados[k].job = job.id /\ tabla_estados[k].master = fd
                     /\ tabla_estados[k].op = "T" /\ tabla_estados[k].status = "P"}
  <2>4. Q = {tabla_estados[k].block[2] : k \in R \ {d}}
    <3>1. Q = {tabla_estados[k].block[2] :
                 k \in {k \in DOMAIN tabla_estados \ {d} :
                          /\ tabla_estados[k].job = job.id /\ tabla_estados[k].master = fd
                          /\ tabla_estados[k].op = "T" /\ tabla_estados[k].status = "P"}}
      BY <1>4, <1>9, <2>3, MarkedPending
    <3> QED
      BY <3>1
  <2>5. P = {tabla_estados[k].block[2] : k \in R}
    BY <1>3, <1>9 DEF PendingOf, Pending
  <2>6. e # "T" => d \notin R
    BY <1>5, <2>3
  <2> HIDE DEF P, Q, R
  <2>7. e # "T" => Q = P
    BY <2>4, <2>5, <2>6
  <2>8. e = "T" => Q \in {P, P \ {m.block[2]}}
    <3>1. SUFFICES ASSUME e = "T" PROVE Q = P \/ Q = P \ {m.block[2]}
      OBVIOUS
    <3>2. tabla_estados[d].block[2] = m.block[2]
      BY <1>5, <2>3, <3>1
    <3>3. Q \subseteq P /\ P \ {m.block[2]} \subseteq Q
      BY <2>4, <2>5, <3>2
    <3> QED
      BY <3>3
  <2>9. OneJob(i)
    <3>1. Consistent(tabla_jobs[i])
      BY <2>2 DEF LifeInv
    <3>2. e # "T" => Q = {}
      BY <1>3, <1>9, <2>2, <2>7, <3>1 DEF Consistent, P
    <3>3. /\ tabla_jobs'[i] = tabla_jobs[i] /\ tabla_jobs[i].master = fd
          /\ tabla_jobs[i].etapa = e /\ tabla_jobs[i].id = job.id
          /\ tabla_jobs[i].replanificaciones # 2
      BY <1>3, <1>9, <2>2, <3>1 DEF Consistent
    <3>4. Consistent(tabla_jobs[i])'
      BY <3>2, <3>3 DEF Consistent, PendingOf, Q
    <3> QED
      BY <1>3, <1>7, <1>9, <2>2, <3>4 DEF OneJob
  <2>10. LifeInv'
    BY <2>9, OneJobLife DEF NoNewGreeting
  <2>11. CASE e # "T"
    <3>1. Pending(tabla_estados', tabla_jobs[i].id, tabla_jobs[i].master)
            = PendingOf(tabla_jobs[i])
      BY <1>3, <1>9, <2>2, <2>7, <2>11 DEF P, Q
    <3> QED
      BY <1>9, <2>9, <2>10, <3>1, SameSeen DEF Seen
  <2>12. CASE e = "T"
    <3>0. PICK b : b = m.block[2]
      OBVIOUS
    <3>1. Pending(tabla_estados', tabla_jobs[i].id, tabla_jobs[i].master)
            \in {PendingOf(tabla_jobs[i]), PendingOf(tabla_jobs[i]) \ {b}}
      BY <1>3, <1>9, <2>2, <2>8, <2>12, <3>0 DEF P, Q
    <3>2. tabla_jobs[i].estado = "P"
      BY <1>3, <1>9, <2>2, <2>12
    <3>6. tabla_jobs[i].etapa = "T"
      BY <1>3, <1>9, <2>2, <2>12
    <3>3. tabla_jobs' = tabla_jobs
      BY <1>9
    <3>4. CASE Pending(tabla_estados', tabla_jobs[i].id, tabla_jobs[i].master)
                 = PendingOf(tabla_jobs[i])
      BY <2>9, <2>10, <3>3, <3>4, SameSeen DEF Seen
    <3>5. CASE Pending(tabla_estados', tabla_jobs[i].id, tabla_jobs[i].master)
                 # PendingOf(tabla_jobs[i])
      <4>1. Lifecycle!Next \/ Trabajos' = Trabajos
        BY <1>4, <2>9, <3>1, <3>2, <3>6, <3>3, TransformSeen
      <4> QED
        BY <2>10, <4>1 DEF Seen
    <3> QED
      BY <3>4, <3>5
  <2> QED
    BY <2>11, <2>12
<1> QED
  BY <1>1, <1>2, <1>8, <1>9
(* Failed jobs, and those refused a second replanning.                     *)
LEMMA AbortStep ==
    ASSUME TypeInv, LifeInv, NEW fd \in FDs, NEW etapa, HasJob(fd, etapa), NEW j \in Job,
           SetJob(fd, etapa, j), j.id = JobOf(fd, etapa).id, j.master = fd,
           j.etapa = etapa, j.estado = "E",
           j.replanificaciones > 0 <=> JobOf(fd, etapa).replanificaciones > 0,
           NEW ix \in SUBSET RowsOf(j.id, fd, etapa), tabla_estados' = Marked(ix, "E"),
           jobs' = jobs, NoNewGreeting
    PROVE  LifeInv' /\ Seen
<1>1. Tables
  BY DEF TypeInv
<1>2. \A i \in ix \cap DOMAIN tabla_estados :
         tabla_estados[i].job = JobOf(fd, etapa).id /\ tabla_estados[i].master = fd
  BY DEF RowsOf
<1>3. OnlyOf(tabla_estados, tabla_estados', JobOf(fd, etapa).id, fd)
  <2>1. OnlyOf(tabla_estados, Marked(ix, "E"), JobOf(fd, etapa).id, fd)
    BY <1>1, <1>2, MarkedIsOnly
  <2> QED
    BY <2>1
<1>4. PICK i : i = GetJobIndex(fd, etapa)
  OBVIOUS
<1>5. /\ OneJob(i) /\ tabla_jobs[i] = JobOf(fd, etapa) /\ tabla_jobs'[i] = j
      /\ tabla_jobs[i] \in Job /\ tabla_jobs[i].estado = "P" /\ tabla_jobs[i].etapa = etapa
  BY <1>3, <1>4, SetJobOne
<1>6. tabla_jobs'[i] \in Job /\ tabla_jobs'[i].estado = "E"
  BY <1>5
<1>7. /\ tabla_jobs'[i].etapa = tabla_jobs[i].etapa
      /\ tabla_jobs'[i].replanificaciones > 0 <=> tabla_jobs[i].replanificaciones > 0
  BY <1>5
<1>8. Lifecycle!Next
  BY <1>5, <1>6, <1>7, AbortSeen
<1> QED
  BY <1>5, <1>8, OneJobLife DEF NoNewGreeting, Seen

LEMMA AbortSteps ==
    ASSUME TypeInv, LifeInv, NEW fd \in FDs, AbortJob(fd) \/ ReplanRefused(fd),
           jobs' = jobs, NoNewGreeting
    PROVE  LifeInv' /\ Seen
<1>1. tabla_jobs \in Seq(Job)
  BY DEF TypeInv, Tables
<1>2. CASE AbortJob(fd)
  <2> DEFINE m == Head(pedidos[fd])
             job == JobOf(fd, m.etapa)
             ix == InProcess(RowsOn(job.id, fd, m.etapa, m.node))
             j == [job EXCEPT !.estado = "E"]
  <2>1. HasJob(fd, m.etapa) /\ tabla_estados' = Marked(ix, "E") /\ SetJob(fd, m.etapa, j)
    BY <1>2, Zenon DEF AbortJob
  <2>2. job \in Job /\ job.master = fd /\ job.etapa = m.etapa
    BY <1>1, <2>1, JobOfIs
  <2>3. /\ j \in Job /\ j.id = job.id /\ j.master = fd /\ j.etapa = m.etapa /\ j.estado = "E"
        /\ j.replanificaciones = job.replanificaciones
    BY <2>2, JobRewritten
  <2>4. ix \in SUBSET RowsOf(j.id, fd, m.etapa)
    BY <2>3 DEF InProcess, RowsOn
  <2> HIDE DEF j, ix
  <2> QED
    BY <2>1, <2>3, <2>4, AbortStep
<1>3. CASE ReplanRefused(fd)
  <2> DEFINE n == Head(pedidos[fd]).node
             job == JobOf(fd, "T")
             ix == InProcess(RowsOn(job.id, fd, "T", n))
             i == [job EXCEPT !.estado = "E"]
             j == [job EXCEPT !.estado = "E", !.replanificaciones = 2]
  <2>1. /\ HasJob(fd, "T") /\ tabla_estados' = Marked(ix, "E") /\ SetJob(fd, "T", j)
        /\ job.replanificaciones = 1
    BY <1>3, Zenon DEF ReplanRefused, NodeFailed
  <2>2. job \in Job /\ job.master = fd /\ job.etapa = "T"
    BY <1>1, <2>1, JobOfIs
  <2>3. /\ i \in Job /\ i.id = job.id /\ i.master = fd /\ i.etapa = "T" /\ i.estado = "E"
    BY <2>2, JobRewritten
  <2>4. j = [i EXCEPT !.replanificaciones = 2]
    BY Zenon
  <2> HIDE DEF i, j
  <2>5. /\ j \in Job /\ j.id = job.id /\ j.master = fd /\ j.etapa = "T" /\ j.estado = "E"
        /\ j.replanificaciones = 2
    <3>1. 2 \in 0 .. 2
      OBVIOUS
    <3>2. /\ [i EXCEPT !.replanificaciones = 2] \in Job
          /\ [i EXCEPT !.replanificaciones = 2].replanificaciones = 2
          /\ [i EXCEPT !.replanificaciones = 2].id = i.id
          /\ [i EXCEPT !.replanificaciones = 2].master = i.master
          /\ [i EXCEPT !.replanificaciones = 2].etapa = i.etapa
          /\ [i EXCEPT !.replanificaciones = 2].estado = i.estado
      BY <2>3, <3>1, JobRewritten, Zenon
    <3> QED
      BY <2>3, <2>4, <3>2, Zenon
  <2>6. ix \in SUBSET RowsOf(j.id, fd, "T")
    BY <2>5 DEF InProcess, RowsOn
  <2>7. j.replanificaciones > 0 <=> job.replanificaciones > 0
    BY <2>1, <2>5
  <2> HIDE DEF ix
  <2> QED
    BY <2>1, <2>5, <2>6, <2>7, AbortStep
<1> QED
  BY <1>2, <1>3
LEMMA ReplanStep ==
    ASSUME TypeInv, LifeInv, NEW fd \in FDs, ReplanTask(fd), jobs' = jobs, NoNewGreeting
    PROVE  LifeInv' /\ Seen
<1> DEFINE n == Head(pedidos[fd]).node
           job == JobOf(fd, "T")
           failed == RowsOn(job.id, fd, "T", n)
           new == DOMAIN tabla_estados' \ DOMAIN tabla_estados
           s == Marked(InProcess(failed), "E")
           j == [job EXCEPT !.replanificaciones = 1]
<1>1. HasJob(fd, "T") /\ job.replanificaciones # 1
  BY Zenon DEF ReplanTask, NodeFailed
<1>2. CASE tabla_jobs' = tabla_jobs /\ tabla_estados' = tabla_estados
  BY <1>2, QuietStep
<1>3. CASE SetJob(fd, "T", j) /\ ReplannedRows(fd, n)
  <2>1. Tables /\ tabla_jobs \in Seq(Job)
    BY DEF TypeInv, Tables
  <2>2. job \in Job /\ job.master = fd /\ job.etapa = "T" /\ job.estado = "P"
    BY <1>1, <2>1, JobOfIs
  <2>3. 1 \in 0 .. 2
    OBVIOUS
  <2>4. /\ j \in Job /\ j.id = job.id /\ j.master = fd /\ j.etapa = "T" /\ j.estado = "P"
        /\ j.replanificaciones = 1
    BY <2>2, <2>3, JobRewritten
  <2>5. SetJob(fd, "T", j)
    BY <1>3
  <2>6. /\ More(s, tabla_estados', job.id, fd, "T")
        /\ \A i \in new : \E q \in failed :
              tabla_estados'[i].block[2] = tabla_estados[q].block[2]
        /\ \A q \in failed : \E i \in new :
              tabla_estados'[i].block[2] = tabla_estados[q].block[2]
    BY <1>3 DEF ReplannedRows
  <2>7. \A q \in failed : /\ q \in DOMAIN tabla_estados /\ tabla_estados[q].job = job.id
                          /\ tabla_estados[q].master = fd /\ tabla_estados[q].op = "T"
    BY DEF RowsOn, RowsOf
  <2>8. InProcess(failed) = {q \in failed : tabla_estados[q].status = "P"}
    BY DEF InProcess
  <2>9. DOMAIN s = DOMAIN tabla_estados
    BY DEF Marked
  <2>10. OnlyOf(tabla_estados, s, job.id, fd)
    BY <2>1, <2>7, <2>8, MarkedIsOnly
  <2>11. Pending(s, job.id, fd) =
           {tabla_estados[k].block[2] :
              k \in {k \in DOMAIN tabla_estados \ InProcess(failed) :
                       /\ tabla_estados[k].job = job.id /\ tabla_estados[k].master = fd
                       /\ tabla_estados[k].op = "T" /\ tabla_estados[k].status = "P"}}
    BY <2>1, MarkedPending
  <2> HIDE DEF j, s, failed
  <2>12. OnlyOf(tabla_estados, tabla_estados', job.id, fd)
    BY <2>6, <2>9, <2>10, OnlyThenMore
  <2>13. PICK i : i = GetJobIndex(fd, "T")
    OBVIOUS
  <2>14. /\ OneJob(i) /\ tabla_jobs[i] = job /\ tabla_jobs'[i] = j
    BY <1>1, <2>4, <2>5, <2>12, <2>13, SetJobOne
  <2> DEFINE S == {tabla_estados[q].block[2] : q \in failed}
             P == Pending(tabla_estados, job.id, fd)
             Q == Pending(tabla_estados', job.id, fd)
  <2>15. S \in SUBSET Numbers
    <3>1. KnownBlocks \subseteq Numbers
      BY <2>1 DEF Tables, KnownBlocks, Findable, Numbers
    <3>2. \A i2 \in DOMAIN tabla_estados :
             tabla_estados[i2].op = "T" => tabla_estados[i2].block[2] \in KnownBlocks
      <4>1. \A i2 \in DOMAIN tabla_estados :
               tabla_estados[i2] \in RowsOver(KnownNodes, KnownBlocks)
        BY <2>1 DEF Tables
      <4> QED
        BY <4>1 DEF RowsOver
    <3> QED
      BY <2>7, <3>1, <3>2
  <2>16. Q = {tabla_estados'[k].block[2] :
                k \in {k \in DOMAIN s : /\ s[k].job = job.id /\ s[k].master = fd
                                        /\ s[k].op = "T" /\ s[k].status = "P"} \cup new}
    <3>1. {k \in DOMAIN tabla_estados' :
              /\ tabla_estados'[k].job = job.id /\ tabla_estados'[k].master = fd
              /\ tabla_estados'[k].op = "T" /\ tabla_estados'[k].status = "P"}
            = {k \in DOMAIN s : /\ s[k].job = job.id /\ s[k].master = fd
                                /\ s[k].op = "T" /\ s[k].status = "P"} \cup new
      BY <2>6, <2>9 DEF More
    <3> QED
      BY <3>1 DEF Pending
  <2>17. \A k \in DOMAIN s : tabla_estados'[k] = s[k]
    BY <2>6 DEF More
  <2>18. Q = Pending(s, job.id, fd) \cup S
    <3> DEFINE A == {k \in DOMAIN s : /\ s[k].job = job.id /\ s[k].master = fd
                                      /\ s[k].op = "T" /\ s[k].status = "P"}
    <3>1. Pending(s, job.id, fd) = {tabla_estados'[k].block[2] : k \in A}
      <4>1. Pending(s, job.id, fd) = {s[k].block[2] : k \in A}
        BY DEF Pending
      <4>2. \A k \in A : tabla_estados'[k] = s[k]
        BY <2>17
      <4> QED
        BY <4>1, <4>2
    <3>2. {tabla_estados'[k].block[2] : k \in new} = S
      <4> HIDE DEF new
      <4> QED
        BY <2>6
    <3> HIDE DEF A, new
    <3>3. Q = {tabla_estados'[k].block[2] : k \in A \cup new}
      BY <2>16 DEF A, new
    <3>4. {tabla_estados'[k].block[2] : k \in A \cup new}
            = {tabla_estados'[k].block[2] : k \in A} \cup {tabla_estados'[k].block[2] : k \in new}
      OBVIOUS
    <3> QED
      BY <3>1, <3>2, <3>3, <3>4
  <2>19. Pending(s, job.id, fd) \cup S = P \cup S
    <3> DEFINE R == {k \in DOMAIN tabla_estados :
                       /\ tabla_estados[k].job = job.id /\ tabla_estados[k].master = fd
                       /\ tabla_estados[k].op = "T" /\ tabla_estados[k].status = "P"}
    <3>1. P = {tabla_estados[k].block[2] : k \in R}
      BY DEF Pending
    <3>2. Pending(s, job.id, fd) = {tabla_estados[k].block[2] : k \in R \ InProcess(failed)}
      BY <2>11
    <3>3. InProcess(failed) \subseteq failed
      BY <2>8
    <3> HIDE DEF R, P
    <3> QED
      BY <3>1, <3>2, <3>3
  <2>20. Pending(tabla_estados', tabla_jobs[i].id, tabla_jobs[i].master)
           = PendingOf(tabla_jobs[i]) \cup S
    BY <2>2, <2>14, <2>18, <2>19 DEF PendingOf
  <2> HIDE DEF S, P, Q, new
  <2>21. /\ tabla_jobs[i] \in Job /\ tabla_jobs[i].estado = "P" /\ tabla_jobs'[i].estado = "P"
         /\ tabla_jobs[i].etapa = "T" /\ tabla_jobs'[i].etapa = "T"
         /\ tabla_jobs[i].replanificaciones # 1 /\ tabla_jobs'[i].replanificaciones = 1
    BY <1>1, <2>2, <2>4, <2>14
  <2>22. OneJob(i)
    BY <2>14
  <2>23. PICK T \in SUBSET Numbers : T = S
    BY <2>15
  <2>24. Lifecycle!Next
    BY <2>20, <2>21, <2>22, <2>23, ReplanSeen
  <2> QED
    BY <2>22, <2>24, OneJobLife DEF NoNewGreeting, Seen
<1> QED
  BY <1>2, <1>3, ReplanTaskTables
(* The end of a stream aborts every job of the master in process.          *)
LEMMA DisconnectedStep ==
    ASSUME TypeInv, LifeInv, NEW fd \in FDs, MasterDisconnected(fd),
           jobs' = jobs, NoNewGreeting
    PROVE  LifeInv' /\ Seen
<1> DEFINE mine == {i \in DOMAIN tabla_jobs : /\ tabla_jobs[i].master = fd
                                              /\ tabla_jobs[i].estado = "P"}
           rows == {i \in DOMAIN tabla_estados : tabla_estados[i].master = fd}
           ix == InProcess(rows)
<1>1. /\ tabla_jobs' = [i \in DOMAIN tabla_jobs |->
                          IF i \in mine THEN [tabla_jobs[i] EXCEPT !.estado = "E"]
                                        ELSE tabla_jobs[i]]
      /\ tabla_estados' = IF mine = {} THEN tabla_estados ELSE Marked(ix, "E")
  BY Zenon DEF MasterDisconnected
<1>2. Tables /\ tabla_jobs \in Seq(Job)
  BY DEF TypeInv, Tables
<1>3. /\ mine \in SUBSET DOMAIN tabla_jobs
      /\ \A i \in mine : tabla_jobs[i].master = fd /\ tabla_jobs[i].estado = "P"
      /\ \A i \in DOMAIN tabla_jobs :
            tabla_jobs[i].master = fd /\ tabla_jobs[i].estado = "P" => i \in mine
  OBVIOUS
<1>4. \A i \in ix : tabla_estados[i].master = fd
  BY DEF InProcess
<1> HIDE DEF mine, ix
<1>5. CASE mine = {}
  <2>1. tabla_jobs' = tabla_jobs
    BY <1>1, <1>2, <1>5
  <2> QED
    BY <1>1, <1>5, <2>1, QuietStep
<1>6. CASE mine # {}
  <2>1. tabla_estados' = Marked(ix, "E")
    BY <1>1, <1>6
  <2>2. /\ DOMAIN tabla_estados' = DOMAIN tabla_estados
        /\ \A i \in DOMAIN tabla_estados :
              /\ tabla_estados'[i].job = tabla_estados[i].job
              /\ tabla_estados'[i].master = tabla_estados[i].master
              /\ tabla_estados'[i].op = tabla_estados[i].op
              /\ tabla_estados'[i].block = tabla_estados[i].block
              /\ tabla_estados[i].master # fd => tabla_estados'[i].status = tabla_estados[i].status
    <3>1. tabla_estados \in Seq(RowsOver(KnownNodes, KnownBlocks))
      BY <1>2 DEF Tables
    <3>2. LET w == Marked(ix, "E")
          IN  /\ DOMAIN w = DOMAIN tabla_estados
              /\ \A i \in DOMAIN w :
                    /\ w[i].job = tabla_estados[i].job /\ w[i].master = tabla_estados[i].master
                    /\ w[i].op = tabla_estados[i].op /\ w[i].block = tabla_estados[i].block
                    /\ w[i].status = IF i \in ix THEN "E" ELSE tabla_estados[i].status
      BY <3>1, MarkedIs
    <3> QED
      BY <1>4, <2>1, <3>2
  <2>3. /\ DOMAIN tabla_jobs' = DOMAIN tabla_jobs
        /\ \A k \in DOMAIN tabla_jobs :
              /\ tabla_jobs'[k].id = tabla_jobs[k].id /\ tabla_jobs'[k].master = tabla_jobs[k].master
              /\ tabla_jobs'[k].etapa = tabla_jobs[k].etapa
              /\ tabla_jobs'[k].replanificaciones = tabla_jobs[k].replanificaciones
              /\ tabla_jobs'[k].estado = IF k \in mine THEN "E" ELSE tabla_jobs[k].estado
    <3>1. ASSUME NEW k \in DOMAIN tabla_jobs
          PROVE  /\ tabla_jobs'[k].id = tabla_jobs[k].id
                 /\ tabla_jobs'[k].master = tabla_jobs[k].master
                 /\ tabla_jobs'[k].etapa = tabla_jobs[k].etapa
                 /\ tabla_jobs'[k].replanificaciones = tabla_jobs[k].replanificaciones
                 /\ tabla_jobs'[k].estado = IF k \in mine THEN "E" ELSE tabla_jobs[k].estado
      <4>1. tabla_jobs[k] \in Job
        BY <1>2
      <4>2. CASE k \in mine
        <5>1. tabla_jobs'[k] = [tabla_jobs[k] EXCEPT !.estado = "E"]
          BY <1>1, <4>2
        <5> QED
          BY <4>1, <4>2, <5>1, JobRewritten
      <4>3. CASE k \notin mine
        BY <1>1, <4>3
      <4> QED
        BY <4>2, <4>3
    <3>2. DOMAIN tabla_jobs' = DOMAIN tabla_jobs
      BY <1>1
    <3> QED
      BY <3>1, <3>2
  <2>4. \A id, e : e # fd => Pending(tabla_estados', id, e) = Pending(tabla_estados, id, e)
    <3> SUFFICES ASSUME NEW id, NEW e, e # fd
                 PROVE  Pending(tabla_estados', id, e) = Pending(tabla_estados, id, e)
      OBVIOUS
    <3> DEFINE A == {k \in DOMAIN tabla_estados :
                       /\ tabla_estados[k].job = id /\ tabla_estados[k].master = e
                       /\ tabla_estados[k].op = "T" /\ tabla_estados[k].status = "P"}
               B == {k \in DOMAIN tabla_estados' :
                       /\ tabla_estados'[k].job = id /\ tabla_estados'[k].master = e
                       /\ tabla_estados'[k].op = "T" /\ tabla_estados'[k].status = "P"}
    <3>1. A = B
      BY <2>2
    <3>2. \A k \in A : tabla_estados'[k].block = tabla_estados[k].block
      BY <2>2
    <3> HIDE DEF A, B
    <3>3. {tabla_estados'[k].block[2] : k \in B} = {tabla_estados[k].block[2] : k \in A}
      BY <3>1, <3>2
    <3> QED
      BY <3>3 DEF Pending, A, B
  <2>5. NoTwoAlike' /\ RowsHaveJobs' /\ IdsGiven' /\ NextIsNew'
    <3>1. NoTwoAlike'
      BY <2>3 DEF LifeInv, NoTwoAlike
    <3>2. RowsHaveJobs'
      BY <2>2, <2>3 DEF LifeInv, RowsHaveJobs
    <3>3. IdsGiven' /\ NextIsNew'
      BY <2>3 DEF LifeInv, IdsGiven, NextIsNew, NoNewGreeting
    <3> QED
      BY <3>1, <3>2, <3>3
  <2>6. ASSUME NEW k \in DOMAIN tabla_jobs PROVE Consistent(tabla_jobs[k])'
    <3>1. Consistent(tabla_jobs[k])
      BY DEF LifeInv
    <3>2. CASE k \in mine
      BY <2>3, <3>2 DEF Consistent
    <3>3. CASE k \notin mine /\ tabla_jobs[k].estado = "P"
      <4>1. tabla_jobs[k].master # fd
        BY <1>3, <3>3
      <4>2. Pending(tabla_estados', tabla_jobs'[k].id, tabla_jobs'[k].master)
              = PendingOf(tabla_jobs[k])
        BY <2>3, <2>4, <4>1 DEF PendingOf
      <4> QED
        BY <2>3, <3>1, <3>3, <4>2 DEF Consistent, PendingOf
    <3>4. CASE k \notin mine /\ tabla_jobs[k].estado # "P"
      BY <2>3, <3>4 DEF Consistent
    <3> QED
      BY <3>2, <3>3, <3>4
  <2>7. ASSUME NEW k \in DOMAIN tabla_jobs
        PROVE  Trabajo(tabla_jobs[k])' =
                 IF k \in mine THEN [Trabajo(tabla_jobs[k]) EXCEPT !.estado = "E",
                                                                   !.pendientes = {}]
                               ELSE Trabajo(tabla_jobs[k])
    <3> DEFINE j == tabla_jobs[k]
               v == tabla_jobs'[k]
    <3>1. Trabajo(tabla_jobs[k])' =
            [estado |-> v.estado, etapa |-> v.etapa,
             replanificado |-> v.replanificaciones > 0,
             pendientes |-> IF v.estado # "P" THEN {}
                            ELSE Pending(tabla_estados', v.id, v.master)]
      BY TrabajoThen
    <3>2. Trabajo(j) = [estado |-> j.estado, etapa |-> j.etapa,
                        replanificado |-> j.replanificaciones > 0,
                        pendientes |-> IF j.estado # "P" THEN {} ELSE PendingOf(j)]
      BY TrabajoIs
    <3>3. CASE k \in mine
      <4>1. Trabajo(tabla_jobs[k])' =
              [estado |-> "E", etapa |-> j.etapa,
               replanificado |-> j.replanificaciones > 0, pendientes |-> {}]
        BY <2>3, <3>1, <3>3
      <4>2. [Trabajo(j) EXCEPT !.estado = "E", !.pendientes = {}] =
              [estado |-> "E", etapa |-> j.etapa,
               replanificado |-> j.replanificaciones > 0, pendientes |-> {}]
        <5>1. PICK a, b, c, d : a = j.estado /\ b = j.etapa /\ c = (j.replanificaciones > 0)
                               /\ d = IF j.estado # "P" THEN {} ELSE PendingOf(j)
          OBVIOUS
        <5>2. Trabajo(j) = [estado |-> a, etapa |-> b, replanificado |-> c, pendientes |-> d]
          BY <3>2, <5>1, Zenon
        <5>3. [[estado |-> a, etapa |-> b, replanificado |-> c, pendientes |-> d]
                  EXCEPT !.estado = "E", !.pendientes = {}] =
              [estado |-> "E", etapa |-> b, replanificado |-> c, pendientes |-> {}]
          <6> DEFINE r == [estado |-> a, etapa |-> b, replanificado |-> c, pendientes |-> d]
                     q == [r EXCEPT !.estado = "E"]
          <6>1. q = [estado |-> "E", etapa |-> b, replanificado |-> c, pendientes |-> d]
            OBVIOUS
          <6>2. [r EXCEPT !.estado = "E", !.pendientes = {}] = [q EXCEPT !.pendientes = {}]
            BY Zenon
          <6> HIDE DEF q
          <6>3. [q EXCEPT !.pendientes = {}] =
                  [estado |-> "E", etapa |-> b, replanificado |-> c, pendientes |-> {}]
            BY <6>1
          <6> QED
            BY <6>2, <6>3
        <5> QED
          BY <5>1, <5>2, <5>3, Zenon
      <4> QED
        BY <3>3, <4>1, <4>2
    <3>4. CASE k \notin mine
      <4>1. j.estado = "P" => Pending(tabla_estados', v.id, v.master) = PendingOf(j)
        BY <1>3, <2>3, <2>4, <3>4 DEF PendingOf
      <4>2. Trabajo(tabla_jobs[k])' = Trabajo(j)
        BY <2>3, <3>1, <3>2, <3>4, <4>1
      <4> QED
        BY <3>4, <4>2
    <3> QED
      BY <3>3, <3>4
  <2>8. /\ DOMAIN Trabajos = DOMAIN tabla_jobs
        /\ \A k \in DOMAIN tabla_jobs : Trabajos[k] = Trabajo(tabla_jobs[k])
        /\ Trabajos' = [k \in DOMAIN tabla_jobs |-> Trabajo(tabla_jobs[k])']
    BY <2>3 DEF Trabajos
  <2>9. Trabajos' = [k \in DOMAIN Trabajos |->
                       IF k \in mine THEN [Trabajos[k] EXCEPT !.estado = "E",
                                                              !.pendientes = {}]
                                     ELSE Trabajos[k]]
    BY <2>7, <2>8
  <2>10. \A k \in mine : Trabajos[k].estado = "P"
    <3>1. \A k \in DOMAIN tabla_jobs : Trabajos[k].estado = tabla_jobs[k].estado
      BY <2>8, TrabajoIs
    <3> QED
      BY <1>3, <3>1
  <2>11. PICK J \in SUBSET DOMAIN Trabajos : J = mine
    BY <1>3, <2>8
  <2>12. Lifecycle!Next
    BY <1>6, <2>9, <2>10, <2>11, SeenAbort
  <2> QED
    BY <2>3, <2>5, <2>6, <2>12 DEF LifeInv, Seen
<1> QED
  BY <1>5, <1>6
(* Who is greeting: connected, and its first request not read.             *)
LEMMA OthersGreet ==
    ASSUME NEW fd \in FDs, Greeting(fd)' => Greeting(fd),
           \A e \in FDs \ {fd} : pc'[e] = pc[e] /\ pedidos'[e] = pedidos[e]
    PROVE  NoNewGreeting
<1> SUFFICES ASSUME NEW e \in FDs, Greeting(e)' PROVE Greeting(e)
  BY DEF NoNewGreeting
<1>1. CASE e # fd
  BY <1>1 DEF Greeting
<1> QED
  BY <1>1

LEMMA MoreMessages ==
    ASSUME TypeInv, NEW fd \in FDs, NEW ms \in Seq(Message),
           \A k \in DOMAIN ms : ms[k].op # "T",
           pedidos' = [pedidos EXCEPT ![fd] = pedidos[fd] \o ms],
           pc'[fd] # "conectado", \A e \in FDs \ {fd} : pc'[e] = pc[e]
    PROVE  NoNewGreeting
<1> DEFINE s == pedidos[fd]
<1>1. s \in Seq(Message) /\ DOMAIN pedidos = FDs
  BY DEF TypeInv, SocketsOK
<1>2. pedidos'[fd] = s \o ms /\ \A e \in FDs \ {fd} : pedidos'[e] = pedidos[e]
  BY <1>1
<1> HIDE DEF s
<1>3. \A k \in DOMAIN (s \o ms) :
         (s \o ms)[k].op = "T" => \E i \in DOMAIN s : s[i].op = "T"
  BY <1>1, JoinedMessages
<1>4. Greeting(fd)' => Greeting(fd)
  <2> DEFINE q == s \o ms
  <2> HIDE DEF q
  <2>1. \A k \in DOMAIN q : q[k].op = "T" => \E i \in DOMAIN s : s[i].op = "T"
    BY <1>3 DEF q
  <2>2. pedidos'[fd] = q
    BY <1>2 DEF q
  <2>3. s = pedidos[fd]
    BY DEF s
  <2> QED
    BY <2>1, <2>2, <2>3 DEF Greeting
<1> QED
  BY <1>2, <1>4, OthersGreet

LEMMA MasterGreets ==
    ASSUME TypeInv, LinkInv, NEW fd \in FDs, MasterStep(fd) \/ MasterFault(fd)
    PROVE  NoNewGreeting
<1>1. DOMAIN pc = FDs /\ pedidos \in [FDs -> Seq(Message)]
  BY DEF TypeInv, MasterOK, SocketsOK
<1>2. ASSUME NEW ms \in Seq(Message), Sends(fd, ms) PROVE NoNewGreeting
  <2>1. pedidos' = [pedidos EXCEPT ![fd] = pedidos[fd] \o ms]
    BY <1>2, Zenon DEF Sends, Send
  <2>2. pc'[fd] # "conectado" /\ \A e \in FDs \ {fd} : pc'[e] = pc[e]
    BY <1>1, <1>2 DEF Sends, GoTo
  <2>3. \A k \in DOMAIN ms : ms[k].op # "T"
    BY <1>2 DEF Sends, Ordinary
  <2> QED
    BY <2>1, <2>2, <2>3, MoreMessages
<1>3. ASSUME NEW ms \in Seq(Message), Ordinary(ms), Exit(fd, ms) PROVE NoNewGreeting
  <2>1. PICK close \in {"FIN", "RST"} : Send(fd, Append(ms, [op |-> close]))
    BY <1>3 DEF Exit
  <2> DEFINE m == [op |-> close]
             w == Append(ms, m)
  <2>2. m \in Message /\ m.op # "T"
    BY MessagesAre
  <2>3. pedidos' = [pedidos EXCEPT ![fd] = pedidos[fd] \o w]
    BY <2>1, Zenon DEF Send
  <2>4. pc'[fd] # "conectado" /\ \A e \in FDs \ {fd} : pc'[e] = pc[e]
    BY <1>1, <1>3 DEF Exit, GoTo
  <2> HIDE DEF m
  <2>5. /\ w \in Seq(Message)
        /\ \A k \in DOMAIN w : w[k] = m \/ (k \in DOMAIN ms /\ w[k] = ms[k])
    BY <2>2
  <2>6. \A k \in DOMAIN w : w[k].op # "T"
    BY <1>3, <2>2, <2>5 DEF Ordinary
  <2> HIDE DEF w
  <2> QED
    BY <2>3, <2>4, <2>5, <2>6, MoreMessages
<1>4. ASSUME NEW arch \in Files, SendTRequest(fd, arch) PROVE NoNewGreeting
  <2>1. /\ pc[fd] = "conectado" /\ \A e \in FDs \ {fd} : pc'[e] = pc[e]
        /\ \E ms : pedidos' = [pedidos EXCEPT ![fd] = pedidos[fd] \o ms]
    <3>1. pedidos' = [pedidos EXCEPT ![fd] = pedidos[fd] \o <<[op |-> "T", file |-> arch]>>]
      BY <1>4, Zenon DEF SendTRequest, Send
    <3>2. \E ms : pedidos' = [pedidos EXCEPT ![fd] = pedidos[fd] \o ms]
      BY <3>1, Zenon
    <3> QED
      BY <1>1, <1>4, <3>2 DEF SendTRequest, GoTo
  <2>2. Greeting(fd)
    BY <2>1 DEF Greeting
  <2> QED
    BY <1>1, <2>1, <2>2, OthersGreet
<1>5. ASSUME pedidos' = pedidos, pc' = pc \/ \E l : l # "conectado" /\ GoTo(fd, l)
      PROVE  NoNewGreeting
  <2>1. /\ \A e \in FDs \ {fd} : pc'[e] = pc[e]
        /\ pc'[fd] = "conectado" => pc[fd] = "conectado"
    BY <1>1, <1>5 DEF GoTo
  <2>2. Greeting(fd)' => Greeting(fd)
    BY <1>5, <2>1 DEF Greeting
  <2> QED
    BY <1>5, <2>1, <2>2, OthersGreet
<1>6. ASSUME NEW h, CheckReplanification(fd, h) PROVE NoNewGreeting
  BY <1>5, <1>6 DEF CheckReplanification, sockets
<1>7. ASSUME NEW l \in {"T", "L", "G", "S"}, StartThreads(fd, l) PROVE NoNewGreeting
  BY <1>5, <1>7 DEF StartThreads
<1>8. CASE GoTo(fd, "esperaR") /\ UNCHANGED sockets
  BY <1>5, <1>8 DEF sockets
<1> QED
  BY <1>2, <1>3, <1>4, <1>6, <1>7, <1>8, WorkShape, FaultShape

LEMMA YamaGreets ==
    ASSUME TypeInv, LinkInv, NEW fd \in FDs, GetMasterMessage(fd), UNCHANGED masterVars
    PROVE  /\ NoNewGreeting
           /\ Head(pedidos[fd]).op = "T" => Greeting(fd) /\ ~Greeting(fd)'
<1> DEFINE s == pedidos[fd]
<1>1. s # <<>> /\ pedidos' = [pedidos EXCEPT ![fd] = Tail(s)]
  BY YamaLinkShape
<1>2. pc' = pc
  BY DEF masterVars
<1>3. pedidos \in [FDs -> Seq(Message)] /\ s \in Seq(Message)
  BY DEF TypeInv, SocketsOK
<1>4. Link(fd)
  BY DEF LinkInv
<1> DEFINE t == Tail(s)
<1>5. pedidos'[fd] = t /\ \A e \in FDs \ {fd} : pedidos'[e] = pedidos[e]
  BY <1>1, <1>3
<1> HIDE DEF s, t
<1>6. /\ Head(s) = s[1] /\ 1 \in DOMAIN s
      /\ \A k \in DOMAIN t : k \in Nat \ {0} /\ k + 1 \in DOMAIN s /\ t[k] = s[k + 1]
  BY <1>1, <1>3, TailIs DEF t
<1>7. \A k \in DOMAIN t : t[k].op # "T"
  BY <1>4, <1>6 DEF Link, s
<1>8. pc[fd] # "conectado"
  BY <1>1, <1>4 DEF Link, s
<1>9. ~Greeting(fd)'
  BY <1>2, <1>5, <1>7, <1>8 DEF Greeting
<1>10. Head(s).op = "T" => Greeting(fd)
  BY <1>6 DEF Greeting, s
<1> QED
  BY <1>2, <1>5, <1>9, <1>10, OthersGreet DEF s

LEMMA JobsKept ==
    ASSUME NEW fd, GetMasterMessage(fd)
    PROVE  jobs' = jobs
<1>1. CASE ProcessTransformation(fd)
  BY <1>1, Zenon DEF ProcessTransformation, Crash
<1>2. CASE ReplanTask(fd)
  BY <1>2, Zenon DEF ReplanTask, Crash
<1>3. CASE ProcessLocalReduction(fd)
  BY <1>3, Zenon DEF ProcessLocalReduction
<1>4. CASE ProcessGlobalReduction(fd)
  BY <1>4, Zenon DEF ProcessGlobalReduction
<1>5. CASE ProcessFinalStore(fd)
  BY <1>5, Zenon DEF ProcessFinalStore
<1>6. CASE ProcessOk(fd) \/ AbortJob(fd) \/ ReplanRefused(fd) \/ MasterDisconnected(fd)
  BY <1>6, Zenon DEF ProcessOk, AbortJob, ReplanRefused, MasterDisconnected
<1>7. CASE FileNotAvailable(fd) \/ GlobalReductionRefused(fd) \/ ErrorIgnored(fd)
             \/ MasterReset(fd) \/ LocalReductionNotReady(fd) \/ StageNotReady(fd)
  BY <1>7, Zenon DEF FileNotAvailable, GlobalReductionRefused, ErrorIgnored, yamaVars,
     MasterReset, LocalReductionNotReady, StageNotReady, Crash
<1> QED
  BY <1>1, <1>2, <1>3, <1>4, <1>5, <1>6, <1>7 DEF GetMasterMessage
(* A request to transform makes a job, refused ones too.                   *)
LEMMA RequestStep ==
    ASSUME TypeInv, LinkInv, LifeInv, NEW fd \in FDs, GetMasterMessage(fd),
           UNCHANGED masterVars, ProcessTransformation(fd) \/ FileNotAvailable(fd)
    PROVE  LifeInv' /\ Seen
<1>1. jobs' = jobs /\ NoNewGreeting
  BY JobsKept, YamaGreets
<1>2. Head(pedidos[fd]).op = "T"
  BY DEF ProcessTransformation, FileNotAvailable, Attend, Receive
<1>3. Greeting(fd) /\ ~Greeting(fd)'
  BY <1>2, YamaGreets
<1>4. Tables'
  BY TransformationTables, FileNotAvailableTables
<1>5. \/ tabla_jobs' = tabla_jobs /\ tabla_estados' = tabla_estados
      \/ /\ tabla_jobs' = Append(tabla_jobs, NewJob(fd))
         /\ More(tabla_estados, tabla_estados', jobs, fd, "T")
  <2>1. CASE ProcessTransformation(fd)
    BY <2>1, TransformationTables
  <2>2. CASE FileNotAvailable(fd)
    BY <2>2, NothingMore DEF FileNotAvailable
  <2> QED
    BY <2>1, <2>2
<1>6. CASE tabla_jobs' = tabla_jobs /\ tabla_estados' = tabla_estados
  BY <1>1, <1>6, QuietStep
<1>7. CASE /\ tabla_jobs' = Append(tabla_jobs, NewJob(fd))
           /\ More(tabla_estados, tabla_estados', jobs, fd, "T")
  <2>1. OnlyOf(tabla_estados, tabla_estados', jobs, fd)
    BY <1>7, MoreIsOnly
  <2> QED
    BY <1>1, <1>3, <1>4, <1>7, <2>1, NewJobStep
<1> QED
  BY <1>5, <1>6, <1>7

LEMMA YamaLife ==
    ASSUME TypeInv, LinkInv, LifeInv, NEW fd \in FDs, GetMasterMessage(fd),
           UNCHANGED masterVars
    PROVE  LifeInv' /\ Seen
<1>1. jobs' = jobs /\ NoNewGreeting
  BY JobsKept, YamaGreets
<1>2. CASE ErrorIgnored(fd) \/ MasterReset(fd) \/ LocalReductionNotReady(fd) \/ StageNotReady(fd)
  <2>1. tabla_jobs' = tabla_jobs /\ tabla_estados' = tabla_estados
    BY <1>2 DEF ErrorIgnored, yamaVars, MasterReset, LocalReductionNotReady, StageNotReady, Crash
  <2> QED
    BY <1>1, <2>1, QuietStep
<1>3. CASE ProcessTransformation(fd) \/ FileNotAvailable(fd)
  BY <1>3, RequestStep
<1>4. CASE \/ ProcessLocalReduction(fd) \/ ProcessGlobalReduction(fd)
           \/ GlobalReductionRefused(fd) \/ ProcessFinalStore(fd)
  BY <1>1, <1>4, ReductionSteps
<1>5. CASE ProcessOk(fd)
  BY <1>1, <1>5, OkStep
<1>6. CASE ReplanTask(fd)
  BY <1>1, <1>6, ReplanStep
<1>7. CASE AbortJob(fd) \/ ReplanRefused(fd)
  BY <1>1, <1>7, AbortSteps
<1>8. CASE MasterDisconnected(fd)
  BY <1>1, <1>8, DisconnectedStep
<1> QED
  BY <1>2, <1>3, <1>4, <1>5, <1>6, <1>7, <1>8 DEF GetMasterMessage

LEMMA ConnectLife ==
    ASSUME TypeInv, LifeInv, NEW fd \in FDs, MasterConnects(fd)
    PROVE  LifeInv' /\ Seen
<1>1. /\ tabla_jobs' = tabla_jobs /\ tabla_estados' = tabla_estados /\ jobs' = jobs + 1
      /\ pedidos' = pedidos /\ pc' = [pc EXCEPT ![fd] = "conectado"]
  BY DEF MasterConnects, AcceptMasterConnection, GoTo
<1>2. jobs \in Nat /\ tabla_jobs \in Seq(Job)
  BY DEF TypeInv, Tables
<1>3. \A j \in DOMAIN tabla_jobs : tabla_jobs[j].id \in Nat
  <2>1. \A j \in DOMAIN tabla_jobs : tabla_jobs[j] \in Job
    BY <1>2
  <2> QED
    BY <2>1 DEF Job
<1>4. \A j \in DOMAIN tabla_jobs : tabla_jobs[j].id < jobs + 1 /\ tabla_jobs[j].id <= jobs + 1
  BY <1>2, <1>3 DEF LifeInv, IdsGiven
<1>5. NoTwoAlike' /\ RowsHaveJobs' /\ IdsGiven' /\ NextIsNew'
  BY <1>1, <1>4 DEF LifeInv, NoTwoAlike, RowsHaveJobs, IdsGiven, NextIsNew
<1>6. \A k \in DOMAIN tabla_jobs' : Consistent(tabla_jobs[k])'
  BY <1>1 DEF LifeInv, Consistent, PendingOf
<1>7. Trabajos' = Trabajos
  <2>1. \A k : Trabajo(tabla_jobs[k])' = Trabajo(tabla_jobs[k])
    BY <1>1, TrabajoIs, TrabajoThen DEF PendingOf
  <2> QED
    BY <1>1, <2>1 DEF Trabajos
<1> QED
  BY <1>5, <1>6, <1>7 DEF LifeInv, Seen

LEMMA InitLife == Init => LifeInv /\ Lifecycle!Init
<1> SUFFICES ASSUME Init PROVE LifeInv /\ Lifecycle!Init
  OBVIOUS
<1>1. tabla_jobs = <<>> /\ tabla_estados = <<>> /\ DOMAIN <<>> = {}
  BY DEF Init, YamaInit
<1>2. LifeInv
  BY <1>1 DEF LifeInv, NoTwoAlike, RowsHaveJobs, IdsGiven, NextIsNew
<1>3. [k \in DOMAIN tabla_jobs |-> Trabajo(tabla_jobs[k])] = <<>>
  <2>1. DOMAIN tabla_jobs = {}
    BY <1>1
  <2>2. [k \in DOMAIN tabla_jobs |-> Trabajo(tabla_jobs[k])] = [k \in {} |-> 0]
    BY <2>1
  <2>3. <<>> = [k \in {} |-> 0]
    OBVIOUS
  <2> QED
    BY <2>2, <2>3
<1>4. Lifecycle!Init
  BY <1>3, Zenon DEF Lifecycle!Init
<1> QED
  BY <1>2, <1>4

LEMMA NextLife ==
    TypeInv /\ LinkInv /\ LifeInv /\ [Next]_vars => LifeInv' /\ Seen
<1> SUFFICES ASSUME TypeInv, LinkInv, LifeInv, [Next]_vars PROVE LifeInv' /\ Seen
  OBVIOUS
<1>1. ASSUME NEW fd \in FDs, MasterConnects(fd) PROVE LifeInv' /\ Seen
  BY <1>1, ConnectLife
<1>2. ASSUME NEW fd \in FDs, YamaStep(fd) PROVE LifeInv' /\ Seen
  BY <1>2, YamaLife DEF YamaStep
<1>3. CASE (\E c \in Configs : ReloadConfig(c) /\ UNCHANGED masterVars) \/ UNCHANGED vars
  <2>1. /\ tabla_jobs' = tabla_jobs /\ tabla_estados' = tabla_estados /\ jobs' = jobs
        /\ pc' = pc /\ pedidos' = pedidos
    BY <1>3 DEF ReloadConfig, vars, yamaVars, sockets, masterVars
  <2>2. NoNewGreeting
    BY <2>1 DEF NoNewGreeting, Greeting
  <2> QED
    BY <2>1, <2>2, QuietStep
<1>4. ASSUME NEW fd \in FDs, MasterWorks(fd) \/ MasterFails(fd) PROVE LifeInv' /\ Seen
  <2>1. /\ tabla_jobs' = tabla_jobs /\ tabla_estados' = tabla_estados /\ jobs' = jobs
        /\ MasterStep(fd) \/ MasterFault(fd)
    BY <1>4 DEF MasterWorks, MasterFails, yamaVars
  <2>2. NoNewGreeting
    BY <2>1, MasterGreets
  <2> QED
    BY <2>1, <2>2, QuietStep
<1> QED
  BY <1>1, <1>2, <1>3, <1>4 DEF Next

(* Every job follows its lifecycle, whatever masters request, report or    *)
(* leave undone, in whatever order YAMA serves them: YAMA with any number  *)
(* of masters, nodes and files implements JobLifecycle.                    *)
THEOREM JobsFollow == Spec => JobsFollowLifecycle
<1>1. Spec => [](TypeInv /\ LinkInv /\ LifeInv)
  <2>1. Init => TypeInv /\ LinkInv /\ LifeInv
    BY InitTypes, InitLinks, InitLife
  <2>2. TypeInv /\ LinkInv /\ LifeInv /\ [Next]_vars => (TypeInv /\ LinkInv /\ LifeInv)'
    BY NextTypes, NextLinks, NextLife
  <2> QED
    BY <2>1, <2>2, PTL DEF Spec
<1>2. Init => Lifecycle!Init
  BY InitLife
<1>3. TypeInv /\ LinkInv /\ LifeInv /\ [Next]_vars
        => [Lifecycle!Next]_([k \in DOMAIN tabla_jobs |-> Trabajo(tabla_jobs[k])])
  <2>1. TypeInv /\ LinkInv /\ LifeInv /\ [Next]_vars => Seen
    BY NextLife
  <2> QED
    BY <2>1, Zenon DEF Seen, Trabajos
<1> QED
  BY <1>1, <1>2, <1>3, PTL DEF Spec, JobsFollowLifecycle, Lifecycle!Spec
-----------------------------------------------------------------------------
(* What follows from the lifecycle.                                        *)

LEMMA JobsSeen ==
    ASSUME Tables
    PROVE  Trabajos \in Seq(Lifecycle!Trabajo)
<1>1. tabla_jobs \in Seq(Job)
  BY DEF Tables
<1>2. ASSUME NEW k \in DOMAIN tabla_jobs PROVE Trabajo(tabla_jobs[k]) \in Lifecycle!Trabajo
  <2> DEFINE j == tabla_jobs[k]
             r == j.replanificaciones > 0
             P == IF j.estado # "P" THEN {} ELSE PendingOf(j)
  <2>1. j \in Job
    BY <1>1
  <2>2. j.estado \in {"P", "F", "E"} /\ j.etapa \in {"T", "L", "G", "S"}
    BY <2>1 DEF Job, Stage
  <2>3. P \in SUBSET Numbers
    BY PendingAreNumbers DEF PendingOf
  <2>4. r \in BOOLEAN
    OBVIOUS
  <2>5. Trabajo(j) = [estado |-> j.estado, etapa |-> j.etapa, replanificado |-> r,
                      pendientes |-> P]
    BY TrabajoIs
  <2>6. Lifecycle!Trabajo = [estado : {"P", "F", "E"}, etapa : {"T", "L", "G", "S"},
                             replanificado : BOOLEAN, pendientes : SUBSET Numbers]
    BY Zenon DEF Lifecycle!Trabajo, Lifecycle!Estado, Lifecycle!Etapa, Numbers
  <2> HIDE DEF P, r
  <2> QED
    BY <2>2, <2>3, <2>4, <2>5, <2>6
<1>3. Len(tabla_jobs) \in Nat /\ DOMAIN tabla_jobs = 1 .. Len(tabla_jobs)
  BY <1>1
<1>4. Trabajos \in [1 .. Len(tabla_jobs) -> Lifecycle!Trabajo]
  BY <1>2, <1>3 DEF Trabajos
<1> QED
  BY <1>3, <1>4

(* A step of the lifecycle takes up jobs in process, or a new one.         *)
LEMMA LifecycleStep ==
    ASSUME Tables, Lifecycle!Next
    PROVE  /\ DOMAIN Trabajos \subseteq DOMAIN Trabajos'
           /\ \A i \in DOMAIN Trabajos : Trabajos[i].estado # "P" => Trabajos'[i] = Trabajos[i]
           /\ \A i \in DOMAIN Trabajos' :
                 Trabajos'[i].estado = "F" =>
                    i \in DOMAIN Trabajos /\
                       \/ Trabajos'[i] = Trabajos[i]
                       \/ Trabajos[i].etapa = "S" /\ Trabajos'[i].etapa = "S"
<1> DEFINE t == Trabajos
           u == Trabajos'
           Goal == /\ DOMAIN t \subseteq DOMAIN u
                   /\ \A i \in DOMAIN t : t[i].estado # "P" => u[i] = t[i]
                   /\ \A i \in DOMAIN u :
                         u[i].estado = "F" =>
                            i \in DOMAIN t /\ (u[i] = t[i] \/ (t[i].etapa = "S" /\ u[i].etapa = "S"))
<1>1. t \in Seq(Lifecycle!Trabajo)
  BY JobsSeen
<1>2. ASSUME NEW S, Lifecycle!Start(S) PROVE Goal
  <2> DEFINE j == [estado |-> "P", etapa |-> "T", replanificado |-> FALSE, pendientes |-> S]
  <2>1. u = Append(t, j)
    BY <1>2, Zenon DEF Lifecycle!Start, Trabajos
  <2>2. j.estado = "P"
    OBVIOUS
  <2> HIDE DEF t, u, j
  <2>3. /\ DOMAIN u = DOMAIN t \cup {Len(t) + 1} /\ u[Len(t) + 1] = j
        /\ \A i \in DOMAIN t : u[i] = t[i]
    BY <1>1, <2>1
  <2> QED
    BY <2>2, <2>3
<1>3. ASSUME NEW k \in DOMAIN t, t[k].estado = "P", NEW j, u = [t EXCEPT ![k] = j],
             j.estado = "F" => t[k].etapa = "S" /\ j.etapa = "S"
      PROVE  Goal
  <2> HIDE DEF t, u
  <2>1. /\ DOMAIN u = DOMAIN t /\ u[k] = j
        /\ \A i \in DOMAIN t : i # k => u[i] = t[i]
    BY <1>1, <1>3
  <2> QED
    BY <1>3, <2>1
<1>4. \A k \in DOMAIN t : /\ t[k] = [estado |-> t[k].estado, etapa |-> t[k].etapa,
                                     replanificado |-> t[k].replanificado,
                                     pendientes |-> t[k].pendientes]
  <2>1. Lifecycle!Trabajo = [estado : {"P", "F", "E"}, etapa : {"T", "L", "G", "S"},
                             replanificado : BOOLEAN, pendientes : SUBSET Numbers]
    BY Zenon DEF Lifecycle!Trabajo, Lifecycle!Estado, Lifecycle!Etapa, Numbers
  <2> HIDE DEF t
  <2> SUFFICES ASSUME NEW k \in DOMAIN t
               PROVE  t[k] = [estado |-> t[k].estado, etapa |-> t[k].etapa,
                              replanificado |-> t[k].replanificado,
                              pendientes |-> t[k].pendientes]
    OBVIOUS
  <2>2. t[k] \in Lifecycle!Trabajo
    BY <1>1
  <2> QED
    BY <2>1, <2>2
<1>5. ASSUME NEW k \in DOMAIN t, NEW b, Lifecycle!Transform(k, b) PROVE Goal
  <2> DEFINE j == [t[k] EXCEPT !.pendientes = @ \ {b}]
  <2>1. t[k].estado = "P" /\ u = [t EXCEPT ![k] = j]
    BY <1>5, Zenon DEF Lifecycle!Transform, Lifecycle!InProgress, Trabajos
  <2>2. j.estado = t[k].estado
    BY <1>4
  <2> HIDE DEF j, t, u
  <2> QED
    BY <1>3, <2>1, <2>2
<1>6. ASSUME NEW k \in DOMAIN t, NEW S, Lifecycle!Replan(k, S) PROVE Goal
  <2> DEFINE a == [t[k] EXCEPT !.replanificado = TRUE]
             j == [a EXCEPT !.pendientes = @ \cup S]
  <2>1. /\ t[k].estado = "P"
        /\ u = [t EXCEPT ![k].replanificado = TRUE, ![k].pendientes = @ \cup S]
    BY <1>6, Zenon DEF Lifecycle!Replan, Lifecycle!InProgress, Trabajos
  <2>2. j.estado = t[k].estado
    BY <1>4
  <2>3. t = [i \in DOMAIN t |-> t[i]]
    BY DEF Trabajos
  <2>4. u = [t EXCEPT ![k] = j]
    <3> HIDE DEF t, u
    <3> QED
      BY <2>1, <2>3, Zenon
  <2> HIDE DEF a, j, t, u
  <2> QED
    BY <1>3, <2>1, <2>2, <2>4
<1>7. ASSUME NEW k \in DOMAIN t, NEW from, NEW to, Lifecycle!Advance(k, from, to) PROVE Goal
  <2> DEFINE j == [t[k] EXCEPT !.etapa = to]
  <2>1. t[k].estado = "P" /\ u = [t EXCEPT ![k] = j]
    BY <1>7, Zenon DEF Lifecycle!Advance, Lifecycle!InProgress, Trabajos
  <2>2. j.estado = t[k].estado
    BY <1>4
  <2> HIDE DEF j, t, u
  <2> QED
    BY <1>3, <2>1, <2>2
<1>8. ASSUME NEW k \in DOMAIN t, Lifecycle!Finish(k) PROVE Goal
  <2> DEFINE j == [t[k] EXCEPT !.estado = "F"]
  <2>1. t[k].estado = "P" /\ t[k].etapa = "S" /\ u = [t EXCEPT ![k] = j]
    BY <1>8, Zenon DEF Lifecycle!Finish, Lifecycle!InProgress, Trabajos
  <2>2. j.etapa = t[k].etapa
    BY <1>4
  <2> HIDE DEF j, t, u
  <2> QED
    BY <1>3, <2>1, <2>2
<1>9. ASSUME NEW J \in SUBSET DOMAIN t, Lifecycle!Abort(J) PROVE Goal
  <2> DEFINE gone(i) == [[t[i] EXCEPT !.estado = "E"] EXCEPT !.pendientes = {}]
  <2>1. /\ \A i \in J : t[i].estado = "P"
        /\ u = [i \in DOMAIN t |-> IF i \in J THEN gone(i) ELSE t[i]]
    BY <1>9, Zenon DEF Lifecycle!Abort, Trabajos
  <2>2. \A i \in J : gone(i).estado = "E"
    <3> SUFFICES ASSUME NEW i \in J PROVE gone(i).estado = "E"
      OBVIOUS
    <3> DEFINE a == [t[i] EXCEPT !.estado = "E"]
    <3>1. /\ a = [estado |-> "E", etapa |-> t[i].etapa, replanificado |-> t[i].replanificado,
                  pendientes |-> t[i].pendientes]
      BY <1>4
    <3> HIDE DEF a
    <3>2. [a EXCEPT !.pendientes = {}].estado = "E"
      BY <3>1
    <3> QED
      BY <3>2 DEF a
  <2> HIDE DEF gone, t, u
  <2> QED
    BY <2>1, <2>2
<1>10. \/ \E S \in SUBSET Numbers : Lifecycle!Start(S)
       \/ \E k \in DOMAIN t :
             \/ \E b \in Numbers : Lifecycle!Transform(k, b)
             \/ \E S \in SUBSET Numbers : Lifecycle!Replan(k, S)
             \/ Lifecycle!Advance(k, "T", "L") \/ Lifecycle!Advance(k, "L", "G")
             \/ Lifecycle!Advance(k, "G", "S") \/ Lifecycle!Finish(k)
       \/ \E J \in SUBSET DOMAIN t : Lifecycle!Abort(J)
  BY Zenon DEF Lifecycle!Next, Trabajos, Numbers
<1>11. Goal
  <2> HIDE DEF t, Goal
  <2> QED
    BY <1>2, <1>5, <1>6, <1>7, <1>8, <1>9, <1>10
<1> QED
  BY <1>11, Zenon

(* A job that ended is the job it is for good: no request, result, failure *)
(* or departure of any master makes YAMA take it up again.                 *)
THEOREM JobsEndForGood == Spec => Lifecycle!EndedForGood
<1> DEFINE J == [k \in DOMAIN tabla_jobs |-> Trabajo(tabla_jobs[k])]
           A == \A i \in DOMAIN J : J[i].estado # "P" => i \in DOMAIN J' /\ J'[i] = J[i]
<1>1. TypeInv /\ [Lifecycle!Next]_J => [A]_J
  <2> SUFFICES ASSUME TypeInv, Lifecycle!Next PROVE A
    OBVIOUS
  <2>1. Tables
    BY DEF TypeInv
  <2>2. /\ DOMAIN Trabajos \subseteq DOMAIN Trabajos'
        /\ \A i \in DOMAIN Trabajos : Trabajos[i].estado # "P" => Trabajos'[i] = Trabajos[i]
    BY <2>1, LifecycleStep
  <2>3. \A i \in DOMAIN Trabajos :
           Trabajos[i].estado # "P" => i \in DOMAIN Trabajos' /\ Trabajos'[i] = Trabajos[i]
    BY <2>2, Zenon
  <2> QED
    BY <2>3, Zenon DEF Trabajos
<1>2. Spec => []TypeInv
  BY InitTypes, NextTypes, PTL DEF Spec
<1> QED
  BY <1>1, <1>2, JobsFollow, PTL DEF JobsFollowLifecycle, Lifecycle!Spec, Lifecycle!EndedForGood

(* No reduction of a job starts with one of its transformations in         *)
(* process, and a job only finishes with its final store.                  *)
THEOREM StagesAreInOrder == Spec => []Lifecycle!StagesInOrder
<1> DEFINE Fin == \A i \in DOMAIN Trabajos :
                     Trabajos[i].estado = "F" => Trabajos[i].etapa = "S"
           Inv == TypeInv /\ LinkInv /\ LifeInv
<1>1. Init => Fin
  <2>1. Init => Trabajos = <<>>
    BY InitLife, Zenon DEF Lifecycle!Init, Trabajos
  <2>2. Init => DOMAIN Trabajos = {}
    <3>1. DOMAIN <<>> = {}
      OBVIOUS
    <3> QED
      BY <2>1, <3>1
  <2> QED
    BY <2>2
<1>2. Inv /\ Fin /\ [Next]_vars => Fin'
  <2> SUFFICES ASSUME Inv, Fin, [Next]_vars PROVE Fin'
    OBVIOUS
  <2>1. Tables
    BY DEF TypeInv
  <2>2. CASE Trabajos' = Trabajos
    BY <2>2
  <2>3. CASE Lifecycle!Next
    <3>1. \A i \in DOMAIN Trabajos' :
             Trabajos'[i].estado = "F" =>
                i \in DOMAIN Trabajos /\
                   \/ Trabajos'[i] = Trabajos[i]
                   \/ Trabajos[i].etapa = "S" /\ Trabajos'[i].etapa = "S"
      BY <2>1, <2>3, LifecycleStep
    <3> QED
      BY <3>1
  <2>4. Seen
    BY NextLife
  <2> QED
    BY <2>2, <2>3, <2>4 DEF Seen
<1>3. Inv /\ Fin => Lifecycle!StagesInOrder
  <2> SUFFICES ASSUME Inv, Fin PROVE Lifecycle!StagesInOrder
    OBVIOUS
  <2>1. ASSUME NEW i \in DOMAIN Trabajos
        PROVE  Trabajos[i].etapa # "T" => Trabajos[i].pendientes = {}
    <3> DEFINE j == tabla_jobs[i]
    <3>1. i \in DOMAIN tabla_jobs /\ Trabajos[i] = Trabajo(j)
      BY DEF Trabajos
    <3>2. Consistent(j)
      BY <3>1 DEF LifeInv
    <3> HIDE DEF j
    <3>3. /\ Trabajos[i].etapa = j.etapa
          /\ Trabajos[i].pendientes = IF j.estado # "P" THEN {} ELSE PendingOf(j)
      <4>1. Trabajo(j) = [estado |-> j.estado, etapa |-> j.etapa,
                          replanificado |-> j.replanificaciones > 0,
                          pendientes |-> IF j.estado # "P" THEN {} ELSE PendingOf(j)]
        BY TrabajoIs
      <4> QED
        BY <3>1, <4>1
    <3> QED
      BY <3>2, <3>3 DEF Consistent
  <2>2. \A i \in DOMAIN Trabajos :
           /\ Trabajos[i].etapa # "T" => Trabajos[i].pendientes = {}
           /\ Trabajos[i].estado = "F" => Trabajos[i].etapa = "S"
    BY <2>1
  <2> QED
    BY <2>2, Zenon DEF Lifecycle!StagesInOrder, Trabajos
<1>4. Spec => [](Inv /\ Fin)
  <2>1. Init => Inv
    BY InitTypes, InitLinks, InitLife
  <2>2. Inv /\ [Next]_vars => Inv'
    BY NextTypes, NextLinks, NextLife
  <2> HIDE DEF Inv, Fin
  <2> QED
    BY <1>1, <1>2, <2>1, <2>2, PTL DEF Spec
<1> QED
  BY <1>3, <1>4, PTL
(* The jobs as JobLifecycle sees them are jobs: the pending blocks are     *)
(* blocks of some file.                                                    *)
THEOREM JobsAreTyped == Spec => []Lifecycle!TypeOK
<1>1. TypeInv => Lifecycle!TypeOK
  <2> SUFFICES ASSUME TypeInv PROVE Lifecycle!TypeOK
    OBVIOUS
  <2>1. Trabajos \in Seq(Lifecycle!Trabajo)
    BY JobsSeen DEF TypeInv
  <2> QED
    BY <2>1, Zenon DEF Lifecycle!TypeOK, Trabajos
<1>2. Spec => []TypeInv
  BY InitTypes, NextTypes, PTL DEF Spec
<1> QED
  BY <1>1, <1>2, PTL

-----------------------------------------------------------------------------
(* The tasks of a reply: by node, a block in one of them.                  *)
ByNode(data) == \A i, j \in DOMAIN data : i < j => data[i].nodo <= data[j].nodo
Apart(data) ==
    /\ \A i \in DOMAIN data : Len(data[i].tmps) = 1
    /\ \A i, j \in DOMAIN data : data[i].tmps[1] = data[j].tmps[1] => i = j

(* Grouped, step by step.                                                  *)
LEMMA GroupedSteps ==
    ASSUME NEW N, NEW tasks, Len(tasks) \in Nat, DOMAIN tasks = 1 .. Len(tasks),
           \A k \in DOMAIN tasks : tasks[k].nodo \in N /\ tasks[k].tmps \in Seq(Block)
    PROVE  \E f : /\ \A k \in 0 .. Len(tasks) : f[k] \in Seq(TasksOf(N))
                  /\ f[0] = <<>> /\ Grouped(tasks) = f[Len(tasks)]
                  /\ \A k \in 1 .. Len(tasks) : f[k] = Joined(f[k - 1], tasks[k])
<1> DEFINE n == Len(tasks)
           V == Seq(TasksOf(N))
           a == <<>>
           next(k, v) == Joined(v, tasks[k])
           paso == [k \in 1 .. n |-> [v \in V |-> next(k, v)]]
           Es(h) == h = [k \in 0 .. n |-> IF k = 0 THEN <<>> ELSE Joined(h[k - 1], tasks[k])]
           f == CHOOSE h : Es(h)
<1>1. n \in Nat
  OBVIOUS
<1>2. \A k \in 1 .. n, v \in V : next(k, v) \in V
  BY JoinedIs
<1>3. a \in V
  BY EmptySeq
<1>4. PICK g : Ecuacion(g, n, V, a, paso)
  <2>1. paso \in [1 .. n -> [V -> V]]
    <3> HIDE DEF n, next, V
    <3> QED
      BY <1>2
  <2> HIDE DEF n, paso, V, a
  <2> QED
    BY <1>1, <1>3, <2>1, RecursivaEs
<1>5. Es(g)
  <2>1. /\ g \in [0 .. n -> V]
        /\ g = [k \in 0 .. n |-> IF k = 0 THEN a ELSE paso[k][g[k - 1]]]
    BY <1>4, Zenon DEF Ecuacion
  <2>2. \A k \in 1 .. n : paso[k][g[k - 1]] = next(k, g[k - 1])
    <3>1. \A k \in 1 .. n : k - 1 \in 0 .. n
      BY <1>1
    <3> HIDE DEF n, next, V
    <3> QED
      BY <2>1, <3>1
  <2>3. \A k \in 0 .. n : k # 0 => k \in 1 .. n
    BY <1>1
  <2>4. g = [k \in 0 .. n |-> IF k = 0 THEN a ELSE next(k, g[k - 1])]
    <3> HIDE DEF n, next, paso, V, a
    <3> QED
      BY <2>1, <2>2, <2>3
  <2> QED
    BY <2>4, Zenon
<1>6. Es(f)
  <2> HIDE DEF Es
  <2> QED
    BY <1>5
<1>7. Grouped(tasks) = f[n]
  BY Zenon DEF Grouped
<1>8. f[0] = a /\ \A k \in 1 .. n : f[k] = next(k, f[k - 1])
  <2>1. f = [k \in 0 .. n |-> IF k = 0 THEN a ELSE next(k, f[k - 1])]
    BY <1>6, Zenon
  <2> HIDE DEF f, next, a, n
  <2> QED
    BY <1>1, <2>1
<1> HIDE DEF f, n, Es, paso
<1>9. \A k \in 0 .. n : f[k] \in V
  <2>1. \A k \in 1 .. n : f[k - 1] \in V => f[k] \in V
    <3> HIDE DEF V, next
    <3> QED
      BY <1>2, <1>8
  <2> HIDE DEF V, a
  <2> QED
    BY <1>1, <1>3, <1>8, <2>1, EnTipo
<1> HIDE DEF V, a
<1>10. f[0] = a /\ \A k \in 1 .. n : f[k] = Joined(f[k - 1], tasks[k])
  BY <1>8
<1> HIDE DEF next
<1> QED
  BY <1>7, <1>9, <1>10 DEF n, V, a

(* A task that is joined to the tasks before it.                           *)
JoinsLast(acc, e, w) ==
    LET m == Len(acc)
    IN  \/ /\ m \in DOMAIN acc /\ acc[m].nodo = e.nodo
           /\ Len(w) = m /\ w[m].nodo = e.nodo /\ w[m].tmps = acc[m].tmps \o e.tmps
           /\ \A k \in 1 .. m - 1 : w[k] = acc[k]
        \/ /\ m = 0 \/ acc[m].nodo # e.nodo
           /\ Len(w) = m + 1 /\ w[m + 1].nodo = e.nodo /\ w[m + 1].tmps = e.tmps
           /\ \A k \in 1 .. m : w[k] = acc[k]

LEMMA JoinedCases ==
    ASSUME NEW N, NEW acc \in Seq(TasksOf(N)), NEW e, e.nodo \in N, e.tmps \in Seq(Block)
    PROVE  JoinsLast(acc, e, Joined(acc, e))
<1> DEFINE w == Joined(acc, e)
           m == Len(acc)
<1>1. w \in Seq(TasksOf(N)) /\ m \in Nat /\ DOMAIN acc = 1 .. m
  BY JoinedIs
<1>2. CASE acc # <<>> /\ acc[m].nodo = e.nodo
  <2> DEFINE x == acc[m]
             c == x.tmps \o e.tmps
             l == [x EXCEPT !.tmps = c]
  <2>1. m \in DOMAIN acc /\ x \in TasksOf(N)
    BY <1>2
  <2>2. l.nodo = x.nodo /\ l.tmps = c
    <3> HIDE DEF x, c
    <3> QED
      BY <2>1 DEF TasksOf
  <2>3. w = [acc EXCEPT ![m] = l]
    BY <1>2, Zenon DEF Joined
  <2> HIDE DEF l, w, c
  <2>4. Len(w) = m /\ w[m] = l /\ \A k \in 1 .. m - 1 : w[k] = acc[k]
    <3>1. Len(w) = m /\ DOMAIN w = DOMAIN acc
      <4>1. DOMAIN w = DOMAIN acc /\ DOMAIN w = 1 .. Len(w) /\ Len(w) \in Nat
        BY <1>1, <2>3
      <4> HIDE DEF m
      <4> QED
        BY <1>1, <4>1
    <3>2. w[m] = l
      BY <2>1, <2>3
    <3>3. \A k \in 1 .. m - 1 : k \in DOMAIN acc /\ k # m
      <4>1. m \in Nat /\ DOMAIN acc = 1 .. m
        BY <1>1
      <4> HIDE DEF m
      <4> QED
        BY <4>1
    <3>4. \A k \in DOMAIN acc : k # m => w[k] = acc[k]
      BY <2>3, Zenon
    <3> QED
      BY <3>1, <3>2, <3>3, <3>4, Zenon
  <2>5. w[m].nodo = e.nodo /\ w[m].tmps = acc[m].tmps \o e.tmps
    BY <1>2, <2>2, <2>4 DEF c
  <2> QED
    BY <1>1, <1>2, <2>1, <2>4, <2>5 DEF w, JoinsLast
<1>3. CASE ~(acc # <<>> /\ acc[m].nodo = e.nodo)
  <2> DEFINE l == [nodo |-> e.nodo, tmps |-> e.tmps]
  <2>1. w = Append(acc, l) /\ l.nodo = e.nodo /\ l.tmps = e.tmps
    BY <1>3 DEF Joined
  <2>2. m = 0 \/ acc[m].nodo # e.nodo
    BY <1>3
  <2> HIDE DEF l, w
  <2>3. Len(w) = m + 1 /\ w[m + 1] = l /\ \A k \in 1 .. m : w[k] = acc[k]
    BY <1>1, <2>1
  <2> QED
    BY <1>1, <2>1, <2>2, <2>3 DEF w, JoinsLast
<1> QED
  BY <1>2, <1>3

(* A task of the node n has the block b.                                   *)
In(s, b) == \E i \in DOMAIN s : s[i] = b
Has(s, K, n, b) == \E k \in K : s[k].nodo = n /\ In(s[k].tmps, b)

LEMMA ConcatHas ==
    ASSUME NEW E, NEW x \in Seq(E), NEW y \in Seq(E)
    PROVE  \A b : In(x \o y, b) <=> In(x, b) \/ In(y, b)
<1> DEFINE z == x \o y
<1>1. /\ DOMAIN x = 1 .. Len(x) /\ DOMAIN y = 1 .. Len(y) /\ Len(x) \in Nat /\ Len(y) \in Nat
      /\ DOMAIN z = 1 .. Len(x) + Len(y)
      /\ \A i \in 1 .. Len(x) + Len(y) : z[i] = IF i <= Len(x) THEN x[i] ELSE y[i - Len(x)]
  OBVIOUS
<1> HIDE DEF z
<1>2. /\ \A i \in DOMAIN x : i \in DOMAIN z /\ z[i] = x[i]
      /\ \A i \in DOMAIN y : Len(x) + i \in DOMAIN z /\ z[Len(x) + i] = y[i]
      /\ \A i \in DOMAIN z : \/ i \in DOMAIN x /\ z[i] = x[i]
                             \/ i - Len(x) \in DOMAIN y /\ z[i] = y[i - Len(x)]
  BY <1>1
<1>3. \A b : In(z, b) <=> In(x, b) \/ In(y, b)
  BY <1>2 DEF In
<1> QED
  BY <1>3 DEF z

LEMMA OneMoreApart ==
    ASSUME NEW E, NEW x \in Seq(E), IsInjective(x), NEW b, \A j \in DOMAIN x : x[j] # b
    PROVE  IsInjective(x \o <<b>>)
<1> DEFINE z == x \o <<b>>
<1>1. /\ DOMAIN x = 1 .. Len(x) /\ Len(x) \in Nat /\ DOMAIN z = 1 .. Len(x) + 1
      /\ \A i \in 1 .. Len(x) : z[i] = x[i]
      /\ z[Len(x) + 1] = b
  OBVIOUS
<1> HIDE DEF z
<1>2. \A i \in DOMAIN z : i \in DOMAIN x \/ i = Len(x) + 1
  BY <1>1
<1>3. IsInjective(z)
  BY <1>1, <1>2 DEF IsInjective
<1> QED
  BY <1>3 DEF z

(* Grouping keeps the blocks of every node; of tasks by node it makes one  *)
(* for each node, and blocks that were apart it does not repeat.           *)
LEMMA GroupsAre ==
    ASSUME NEW N \in SUBSET Nat, NEW tasks, Len(tasks) \in Nat, DOMAIN tasks = 1 .. Len(tasks),
           \A k \in DOMAIN tasks : tasks[k].nodo \in N /\ tasks[k].tmps \in Seq(Block)
    PROVE  LET g == Grouped(tasks)
           IN  /\ g \in Seq(TasksOf(N))
               /\ \A n, b : Has(g, DOMAIN g, n, b) <=> Has(tasks, DOMAIN tasks, n, b)
               /\ \A n : (\E k \in DOMAIN g : g[k].nodo = n)
                           <=> (\E k \in DOMAIN tasks : tasks[k].nodo = n)
               /\ ByNode(tasks) => \A i, j \in DOMAIN g : g[i].nodo = g[j].nodo => i = j
               /\ Apart(tasks) => \A k \in DOMAIN g : IsInjective(g[k].tmps)
<1> DEFINE m == Len(tasks)
           G == Grouped(tasks)
<1>1. PICK f : /\ \A k \in 0 .. m : f[k] \in Seq(TasksOf(N))
               /\ f[0] = <<>> /\ G = f[m]
               /\ \A k \in 1 .. m : f[k] = Joined(f[k - 1], tasks[k])
  BY GroupedSteps, Zenon
<1> HIDE DEF G
<1> DEFINE Same(k, v) == \A n, b : Has(v, DOMAIN v, n, b) <=> Has(tasks, 1 .. k, n, b)
           Nodes(k, v) == \A n : (\E i \in DOMAIN v : v[i].nodo = n)
                                   <=> (\E i \in 1 .. k : tasks[i].nodo = n)
           Rising(k, v) == /\ k > 0 => v # <<>> /\ v[Len(v)].nodo = tasks[k].nodo
                           /\ ByNode(tasks) =>
                                 \A i, j \in DOMAIN v : i < j => v[i].nodo < v[j].nodo
           Once(v) == Apart(tasks) => \A i \in DOMAIN v : IsInjective(v[i].tmps)
           W == {k \in 0 .. m : Same(k, f[k]) /\ Nodes(k, f[k]) /\ Rising(k, f[k]) /\ Once(f[k])}
<1>2. 0 \in W
  <2>1. DOMAIN f[0] = {} /\ 1 .. 0 = {} /\ 0 \in 0 .. m
    BY <1>1
  <2>2. Same(0, f[0]) /\ Nodes(0, f[0]) /\ Rising(0, f[0]) /\ Once(f[0])
    BY <2>1 DEF Has
  <2> QED
    BY <2>1, <2>2
<1>3. ASSUME NEW k \in 0 .. m - 1, k \in W PROVE k + 1 \in W
  <2> DEFINE v == f[k]
             w == f[k + 1]
             e == tasks[k + 1]
             l == Len(v)
  <2>1. /\ k + 1 \in 1 .. m /\ k + 1 \in 0 .. m /\ (k + 1) - 1 = k /\ k \in 0 .. m /\ k \in Nat
        /\ \A i : i \in 1 .. k + 1 <=> i \in 1 .. k \/ i = k + 1
    BY <1>1
  <2>2. v \in Seq(TasksOf(N)) /\ w = Joined(v, e) /\ e.nodo \in N /\ e.tmps \in Seq(Block)
    BY <1>1, <2>1
  <2>3. Same(k, v) /\ Nodes(k, v) /\ Rising(k, v) /\ Once(v)
    BY <1>3
  <2> HIDE DEF v, w
  <2> HIDE DEF e, l
  <2>4. w \in Seq(TasksOf(N)) /\ l \in Nat
    BY <2>2, JoinedIs DEF l
  <2>8. \/ /\ l \in DOMAIN v /\ v[l].nodo = e.nodo
           /\ Len(w) = l /\ w[l].nodo = e.nodo /\ w[l].tmps = v[l].tmps \o e.tmps
           /\ \A i \in 1 .. l - 1 : w[i] = v[i]
        \/ /\ l = 0 \/ v[l].nodo # e.nodo
           /\ Len(w) = l + 1 /\ w[l + 1].nodo = e.nodo /\ w[l + 1].tmps = e.tmps
           /\ \A i \in 1 .. l : w[i] = v[i]
    <3>1. JoinsLast(v, e, w)
      BY <2>2, JoinedCases
    <3> QED
      BY <3>1, Zenon DEF JoinsLast, l
  <2>5. /\ DOMAIN v = 1 .. l /\ DOMAIN w = 1 .. Len(w)
        /\ \A i \in DOMAIN v : v[i].nodo \in Nat /\ v[i].nodo \in N /\ v[i].tmps \in Seq(Block)
    <3>1. /\ \A i \in DOMAIN v : v[i] \in TasksOf(N)
          /\ DOMAIN v = 1 .. l /\ DOMAIN w = 1 .. Len(w)
      BY <2>2, <2>4 DEF l
    <3> QED
      BY <3>1 DEF TasksOf
  <2>9. \A n, b : Has(tasks, 1 .. k + 1, n, b)
                   <=> Has(tasks, 1 .. k, n, b) \/ (e.nodo = n /\ In(e.tmps, b))
    BY <2>1 DEF Has, e
  <2>10. \A n : (\E i \in 1 .. k + 1 : tasks[i].nodo = n)
                  <=> (\E i \in 1 .. k : tasks[i].nodo = n) \/ e.nodo = n
    BY <2>1 DEF e
  <2> HIDE DEF Rising, Once
  <2>6. CASE /\ l \in DOMAIN v /\ v[l].nodo = e.nodo
             /\ Len(w) = l /\ w[l].nodo = e.nodo /\ w[l].tmps = v[l].tmps \o e.tmps
             /\ \A i \in 1 .. l - 1 : w[i] = v[i]
    <3>1. /\ \A i : i \in DOMAIN w <=> i \in DOMAIN v
          /\ \A i \in DOMAIN v : i = l \/ i \in 1 .. l - 1
          /\ l \in 1 .. l /\ l \in Nat \ {0}
      BY <2>4, <2>5, <2>6
    <3>2. \A i \in DOMAIN v : w[i].nodo = v[i].nodo
      BY <2>6, <3>1
    <3>3. \A b : In(w[l].tmps, b) <=> In(v[l].tmps, b) \/ In(e.tmps, b)
      <4> DEFINE x == v[l].tmps
                 y == e.tmps
                 z == x \o y
      <4>1. x \in Seq(Block) /\ y \in Seq(Block)
        BY <2>2, <2>5, <2>6
      <4>2. w[l].tmps = z
        BY <2>6
      <4> HIDE DEF x, y
      <4>3. \A b : In(x \o y, b) <=> In(x, b) \/ In(y, b)
        BY <4>1, ConcatHas
      <4> QED
        BY <4>2, <4>3 DEF x, y
    <3>4. Same(k + 1, w)
      <4>1. \A n, b : Has(w, DOMAIN w, n, b) <=> Has(v, DOMAIN v, n, b) \/ (e.nodo = n /\ In(e.tmps, b))
        <5> SUFFICES ASSUME NEW n, NEW b
                     PROVE  Has(w, DOMAIN w, n, b) <=> Has(v, DOMAIN v, n, b) \/ (e.nodo = n /\ In(e.tmps, b))
          OBVIOUS
        <5>1. ASSUME Has(w, DOMAIN w, n, b)
              PROVE  Has(v, DOMAIN v, n, b) \/ (e.nodo = n /\ In(e.tmps, b))
          <6>1. PICK i \in DOMAIN w : w[i].nodo = n /\ In(w[i].tmps, b)
            BY <5>1 DEF Has
          <6>2. CASE i = l
            BY <2>6, <3>1, <3>2, <3>3, <6>1, <6>2 DEF Has
          <6>3. CASE i \in 1 .. l - 1
            BY <2>6, <3>1, <6>1, <6>3 DEF Has
          <6> QED
            BY <3>1, <6>2, <6>3
        <5>2. ASSUME Has(v, DOMAIN v, n, b) PROVE Has(w, DOMAIN w, n, b)
          <6>1. PICK i \in DOMAIN v : v[i].nodo = n /\ In(v[i].tmps, b)
            BY <5>2 DEF Has
          <6>2. CASE i = l
            BY <2>6, <3>1, <3>2, <3>3, <6>1, <6>2 DEF Has
          <6>3. CASE i \in 1 .. l - 1
            BY <2>6, <3>1, <6>1, <6>3 DEF Has
          <6> QED
            BY <3>1, <6>2, <6>3
        <5>3. ASSUME e.nodo = n, In(e.tmps, b) PROVE Has(w, DOMAIN w, n, b)
          <6>1. l \in DOMAIN w /\ w[l].nodo = n /\ In(w[l].tmps, b)
            BY <2>6, <3>1, <3>3, <5>3
          <6> QED
            BY <6>1, Zenon DEF Has
        <5> QED
          BY <5>1, <5>2, <5>3
      <4> QED
        BY <2>3, <2>9, <4>1
    <3>5. Nodes(k + 1, w)
      <4>1. \A n : (\E i \in DOMAIN w : w[i].nodo = n)
                     <=> (\E i \in DOMAIN v : v[i].nodo = n) \/ e.nodo = n
        BY <2>6, <3>1, <3>2
      <4> QED
        BY <2>3, <2>10, <4>1
    <3>6. Rising(k + 1, w)
      <4>1. w # <<>> /\ w[Len(w)].nodo = e.nodo
        BY <2>4, <2>6, <3>1
      <4>2. \A i, j \in DOMAIN v : w[i].nodo < w[j].nodo <=> v[i].nodo < v[j].nodo
        BY <3>2
      <4> QED
        BY <2>1, <2>3, <3>1, <4>1, <4>2 DEF Rising, e
    <3>7. Once(w)
      <4> SUFFICES ASSUME Apart(tasks), NEW i \in DOMAIN w PROVE IsInjective(w[i].tmps)
        BY DEF Once
      <4>1. CASE i \in 1 .. l - 1
        BY <2>3, <2>6, <3>1, <4>1 DEF Once
      <4>2. CASE i = l
        <5> DEFINE x == v[l].tmps
                   b == e.tmps[1]
        <5>1. Len(e.tmps) = 1 /\ DOMAIN e.tmps = {1} /\ e.tmps = <<b>>
          <6>1. Len(e.tmps) = 1
            BY <1>1, <2>1 DEF Apart, e
          <6> QED
            BY <2>2, <6>1
        <5>2. \A j \in DOMAIN x : x[j] # b
          <6> SUFFICES ASSUME NEW j \in DOMAIN x, x[j] = b PROVE FALSE
            OBVIOUS
          <6>1. Has(v, DOMAIN v, v[l].nodo, b)
            BY <2>6 DEF Has, In
          <6>2. Has(tasks, 1 .. k, v[l].nodo, b)
            BY <2>3, <6>1
          <6>3. PICK q \in 1 .. k : \E z \in DOMAIN tasks[q].tmps : tasks[q].tmps[z] = b
            BY <6>2 DEF Has, In
          <6>4. q \in 1 .. m /\ q # k + 1
            BY <2>1
          <6>5. Len(tasks[q].tmps) = 1 /\ tasks[q].tmps \in Seq(Block)
            BY <6>4 DEF Apart
          <6>6. tasks[q].tmps[1] = b
            BY <6>3, <6>5
          <6> QED
            BY <2>1, <6>4, <6>6 DEF Apart, e
        <5>3. IsInjective(x) /\ x \in Seq(Block)
          BY <2>3, <2>5, <2>6 DEF Once
        <5>4. w[l].tmps = x \o <<b>>
          BY <2>6, <5>1
        <5> HIDE DEF x, b
        <5>5. IsInjective(x \o <<b>>)
          BY <5>2, <5>3, OneMoreApart
        <5> QED
          BY <4>2, <5>4, <5>5
      <4> QED
        BY <3>1, <4>1, <4>2
    <3> QED
      BY <2>1, <3>4, <3>5, <3>6, <3>7 DEF w
  <2>7. CASE /\ l = 0 \/ v[l].nodo # e.nodo
             /\ Len(w) = l + 1 /\ w[l + 1].nodo = e.nodo /\ w[l + 1].tmps = e.tmps
             /\ \A i \in 1 .. l : w[i] = v[i]
    <3>1. /\ \A i : i \in DOMAIN w <=> i \in DOMAIN v \/ i = l + 1
          /\ \A i \in DOMAIN v : w[i] = v[i] /\ i \in Nat /\ i < l + 1
          /\ l + 1 \in Nat \ {0}
      BY <2>4, <2>5, <2>7
    <3>4. Same(k + 1, w)
      <4>1. \A n, b : Has(w, DOMAIN w, n, b) <=> Has(v, DOMAIN v, n, b) \/ (e.nodo = n /\ In(e.tmps, b))
        BY <2>7, <3>1 DEF Has
      <4> QED
        BY <2>3, <2>9, <4>1
    <3>5. Nodes(k + 1, w)
      <4>1. \A n : (\E i \in DOMAIN w : w[i].nodo = n)
                     <=> (\E i \in DOMAIN v : v[i].nodo = n) \/ e.nodo = n
        BY <2>7, <3>1
      <4> QED
        BY <2>3, <2>10, <4>1
    <3>6. Rising(k + 1, w)
      <4>1. w # <<>> /\ w[Len(w)].nodo = e.nodo
        BY <2>4, <2>7, <3>1
      <4>2. ASSUME ByNode(tasks), NEW i \in DOMAIN v PROVE v[i].nodo < e.nodo
        <5>1. l \in DOMAIN v /\ l > 0 /\ i <= l
          BY <2>4, <2>5
        <5>2. k > 0
          <6>1. \E q \in 1 .. k : tasks[q].nodo = v[i].nodo
            BY <2>3
          <6> QED
            BY <2>1, <6>1
        <5>3. v[l].nodo = tasks[k].nodo /\ k \in 1 .. m /\ k < k + 1
          BY <2>1, <2>3, <5>2 DEF Rising, l
        <5>4. tasks[k].nodo <= e.nodo
          BY <2>1, <4>2, <5>3 DEF ByNode, e
        <5>5. v[l].nodo # e.nodo
          BY <2>7, <5>1
        <5>6. e.nodo \in Nat /\ v[l].nodo \in Nat /\ v[i].nodo \in Nat
          BY <2>2, <2>5, <5>1
        <5>7. v[l].nodo < e.nodo
          BY <5>3, <5>4, <5>5, <5>6
        <5>8. i = l \/ v[i].nodo < v[l].nodo
          BY <2>3, <2>5, <4>2, <5>1 DEF Rising
        <5> QED
          BY <5>6, <5>7, <5>8
      <4>3. ASSUME ByNode(tasks), NEW i \in DOMAIN w, NEW j \in DOMAIN w, i < j
            PROVE  w[i].nodo < w[j].nodo
        <5>1. i \in DOMAIN v
          <6>1. i \in Nat /\ j \in Nat /\ j <= l + 1 /\ i > 0 /\ l \in Nat
            BY <2>4, <2>5, <2>7
          <6> QED
            BY <2>5, <4>3, <6>1
        <5>2. CASE j \in DOMAIN v
          BY <2>3, <3>1, <4>3, <5>1, <5>2 DEF Rising
        <5>3. CASE j = l + 1
          BY <2>7, <3>1, <4>2, <4>3, <5>1, <5>3
        <5> QED
          BY <3>1, <5>2, <5>3
      <4> QED
        BY <2>1, <4>1, <4>3 DEF Rising, e
    <3>7. Once(w)
      <4> SUFFICES ASSUME Apart(tasks), NEW i \in DOMAIN w PROVE IsInjective(w[i].tmps)
        BY DEF Once
      <4>1. CASE i \in DOMAIN v
        BY <2>3, <3>1, <4>1 DEF Once
      <4>2. CASE i = l + 1
        <5>1. Len(e.tmps) = 1
          BY <1>1, <2>1 DEF Apart, e
        <5>2. \A x \in DOMAIN e.tmps : x = 1
          BY <2>2, <5>1
        <5> QED
          BY <2>7, <4>2, <5>2 DEF IsInjective
      <4> QED
        BY <3>1, <4>1, <4>2
    <3> QED
      BY <2>1, <3>4, <3>5, <3>6, <3>7 DEF w
  <2> QED
    BY <2>6, <2>7, <2>8
<1>4. m \in W
  <2> HIDE DEF W
  <2>1. \A k \in 0 .. m : k \in W
    BY <1>2, <1>3, Hasta
  <2> QED
    BY <2>1
<1>5. /\ G \in Seq(TasksOf(N)) /\ Same(m, G) /\ Nodes(m, G) /\ Rising(m, G) /\ Once(G)
  <2>1. m \in 0 .. m
    OBVIOUS
  <2> HIDE DEF Same, Nodes, Rising, Once
  <2> QED
    BY <1>1, <1>4, <2>1
<1>6. ASSUME ByNode(tasks), NEW i \in DOMAIN G, NEW j \in DOMAIN G, G[i].nodo = G[j].nodo
      PROVE  i = j
  <2>1. \A x \in DOMAIN G : G[x] \in TasksOf(N) /\ x \in Nat
    BY <1>5
  <2>2. G[i].nodo \in Nat /\ G[j].nodo \in Nat /\ i \in Nat /\ j \in Nat
    BY <2>1 DEF TasksOf
  <2> QED
    BY <1>5, <1>6, <2>2
<1>7. /\ \A n, b : Has(G, DOMAIN G, n, b) <=> Has(tasks, DOMAIN tasks, n, b)
      /\ \A n : (\E k \in DOMAIN G : G[k].nodo = n) <=> (\E k \in DOMAIN tasks : tasks[k].nodo = n)
      /\ Apart(tasks) => \A k \in DOMAIN G : IsInjective(G[k].tmps)
  BY <1>5
<1> QED
  BY <1>5, <1>6, <1>7 DEF G

(* Keep, step by step.                                                     *)
KeepsAs(f, s, S) ==
    /\ f[0] = <<>>
    /\ \A k \in 1 .. Len(s) :
          f[k] = IF k \in S THEN Append(f[k - 1], s[k]) ELSE f[k - 1]
LEMMA KeepSteps ==
    ASSUME NEW E, NEW s \in Seq(E), NEW S
    PROVE  \E f : KeepsAs(f, s, S) /\ Keep(s, S) = f[Len(s)]
<1> DEFINE n == Len(s)
           next(k, v) == IF k \in S THEN Append(v, s[k]) ELSE v
           paso == [k \in 1 .. n |-> [v \in Seq(E) |-> next(k, v)]]
           Es(h) == h = [k \in 0 .. n |->
                           IF k = 0 THEN <<>>
                           ELSE IF k \in S THEN Append(h[k - 1], s[k]) ELSE h[k - 1]]
           f == CHOOSE h : Es(h)
<1>1. n \in Nat /\ DOMAIN s = 1 .. n /\ \A i \in 1 .. n : s[i] \in E
  OBVIOUS
<1>2. \A k \in 1 .. n, v \in Seq(E) : next(k, v) \in Seq(E)
  BY <1>1
<1>3. paso \in [1 .. n -> [Seq(E) -> Seq(E)]] /\ <<>> \in Seq(E)
  <2>1. paso \in [1 .. n -> [Seq(E) -> Seq(E)]]
    <3> HIDE DEF n, next
    <3> QED
      BY <1>2
  <2>2. <<>> \in Seq(E)
    BY EmptySeq
  <2> QED
    BY <2>1, <2>2
<1>4. PICK g : Ecuacion(g, n, Seq(E), <<>>, paso)
  <2> HIDE DEF n, paso
  <2> QED
    BY <1>1, <1>3, RecursivaEs
<1>5. Es(g)
  <2>0. /\ g \in [0 .. n -> Seq(E)]
        /\ g = [k \in 0 .. n |-> IF k = 0 THEN <<>> ELSE paso[k][g[k - 1]]]
    BY <1>4, Zenon DEF Ecuacion
  <2>1. \A k \in 1 .. n : paso[k][g[k - 1]] = next(k, g[k - 1])
    <3>1. \A k \in 1 .. n : k - 1 \in 0 .. n
      BY <1>1
    <3> HIDE DEF n, next
    <3> QED
      BY <2>0, <3>1
  <2>2. \A k \in 0 .. n : k # 0 => k \in 1 .. n
    BY <1>1
  <2>3. g = [k \in 0 .. n |-> IF k = 0 THEN <<>> ELSE next(k, g[k - 1])]
    <3> HIDE DEF n, next, paso
    <3> QED
      BY <2>0, <2>1, <2>2
  <2> QED
    BY <2>3, Zenon
<1>6. Es(f)
  <2> HIDE DEF Es
  <2> QED
    BY <1>5
<1>7. Keep(s, S) = f[n]
  BY Zenon DEF Keep
<1>8. f[0] = <<>> /\ \A k \in 1 .. n : f[k] = next(k, f[k - 1])
  <2>1. f = [k \in 0 .. n |-> IF k = 0 THEN <<>> ELSE next(k, f[k - 1])]
    BY <1>6, Zenon
  <2> HIDE DEF f, next
  <2> QED
    BY <1>1, <2>1
<1> HIDE DEF f, n, Es, paso
<1>9. f[0] = <<>> /\ \A k \in 1 .. n : f[k] = IF k \in S THEN Append(f[k - 1], s[k]) ELSE f[k - 1]
  BY <1>8
<1> QED
  BY <1>7, <1>9 DEF n, KeepsAs

(* The elements that are kept follow one another as they did.              *)
Ordered(v, s, S) ==
    \A i, j \in DOMAIN v : i < j =>
       \E p, q \in DOMAIN s \cap S : p < q /\ v[i] = s[p] /\ v[j] = s[q]
LEMMA KeepOrder ==
    ASSUME NEW E, NEW s \in Seq(E), NEW S
    PROVE  Ordered(Keep(s, S), s, S)
<1> DEFINE n == Len(s)
           next(k, v) == IF k \in S THEN Append(v, s[k]) ELSE v
<1>1. n \in Nat /\ DOMAIN s = 1 .. n /\ \A i \in 1 .. n : s[i] \in E
  OBVIOUS
<1>2. PICK f : /\ f[0] = <<>> /\ Keep(s, S) = f[n]
               /\ \A k \in 1 .. n : f[k] = next(k, f[k - 1])
  <2>1. PICK f : KeepsAs(f, s, S) /\ Keep(s, S) = f[n]
    BY KeepSteps
  <2>2. f[0] = <<>> /\ \A k \in 1 .. n : f[k] = next(k, f[k - 1])
    BY <2>1, Zenon DEF KeepsAs
  <2> QED
    BY <2>1, <2>2
<1> HIDE DEF n
<1> DEFINE OK(k, v) == /\ v \in Seq(E)
                       /\ \A j \in DOMAIN v : \E i \in (1 .. k) \cap S : v[j] = s[i]
                       /\ \A i, j \in DOMAIN v : i < j =>
                             \E p, q \in (1 .. k) \cap S : p < q /\ v[i] = s[p] /\ v[j] = s[q]
           W == {k \in 0 .. n : OK(k, f[k])}
<1>5. 0 \in W
  <2>1. <<>> \in Seq(E) /\ DOMAIN <<>> = {}
    BY EmptySeq
  <2>2. OK(0, f[0])
    BY <1>2, <2>1
  <2> HIDE DEF OK
  <2> QED
    BY <1>1, <2>2
<1>6. ASSUME NEW k \in 0 .. n - 1, k \in W PROVE k + 1 \in W
  <2> DEFINE v == f[k]
             w == f[k + 1]
  <2>1. /\ k + 1 \in 1 .. n /\ (k + 1) - 1 = k /\ k \in Nat
        /\ \A i : i \in (1 .. k + 1) \cap S <=> (i \in (1 .. k) \cap S) \/ (i = k + 1 /\ k + 1 \in S)
    BY <1>1, <1>6
  <2>2. OK(k, v) /\ s[k + 1] \in E
    BY <1>1, <1>6, <2>1
  <2>3. w = next(k + 1, v)
    BY <1>2, <2>1
  <2>4. OK(k + 1, w)
    <3> HIDE DEF v, w
    <3>1. CASE k + 1 \notin S
      BY <2>1, <2>2, <2>3, <3>1
    <3>2. CASE k + 1 \in S
      <4>1. w = Append(v, s[k + 1])
        BY <2>3, <3>2
      <4>2. /\ w \in Seq(E) /\ DOMAIN w = 1 .. Len(v) + 1 /\ DOMAIN v = 1 .. Len(v)
            /\ Len(v) \in Nat /\ \A j \in 1 .. Len(v) : w[j] = v[j]
            /\ w[Len(v) + 1] = s[k + 1]
        BY <2>2, <4>1
      <4>3. \A j \in DOMAIN w : j \in DOMAIN v \/ j = Len(v) + 1
        BY <4>2
      <4>4. ASSUME NEW j \in DOMAIN w PROVE \E i \in (1 .. k + 1) \cap S : w[j] = s[i]
        <5>1. CASE j = Len(v) + 1
          <6>1. k + 1 \in (1 .. k + 1) \cap S
            BY <2>1, <3>2
          <6> QED
            BY <4>2, <5>1, <6>1
        <5>2. CASE j \in DOMAIN v
          <6>1. PICK i \in (1 .. k) \cap S : v[j] = s[i]
            BY <2>2, <5>2
          <6>2. i \in (1 .. k + 1) \cap S /\ w[j] = v[j]
            BY <2>1, <4>2, <5>2
          <6> QED
            BY <6>1, <6>2
        <5> QED
          BY <4>3, <5>1, <5>2
      <4>5. ASSUME NEW i \in DOMAIN w, NEW j \in DOMAIN w, i < j
            PROVE  \E p, q \in (1 .. k + 1) \cap S : p < q /\ w[i] = s[p] /\ w[j] = s[q]
        <5>1. i \in DOMAIN v
          BY <4>2, <4>5
        <5>2. CASE j \in DOMAIN v
          <6>1. PICK p \in (1 .. k) \cap S, q \in (1 .. k) \cap S :
                   p < q /\ v[i] = s[p] /\ v[j] = s[q]
            BY <2>2, <4>5, <5>1, <5>2
          <6>2. /\ p \in (1 .. k + 1) \cap S /\ q \in (1 .. k + 1) \cap S
                /\ w[i] = v[i] /\ w[j] = v[j]
            BY <2>1, <4>2, <5>1, <5>2
          <6> QED
            BY <6>1, <6>2
        <5>3. CASE j = Len(v) + 1
          <6>1. PICK p \in (1 .. k) \cap S : v[i] = s[p]
            BY <2>2, <5>1
          <6>2. /\ p \in (1 .. k + 1) \cap S /\ k + 1 \in (1 .. k + 1) \cap S /\ p < k + 1
                /\ w[i] = v[i] /\ w[j] = s[k + 1]
            BY <2>1, <3>2, <4>2, <5>1, <5>3
          <6> QED
            BY <6>1, <6>2
        <5> QED
          BY <4>3, <5>2, <5>3
      <4> QED
        BY <4>2, <4>4, <4>5
    <3> QED
      BY <3>1, <3>2
  <2> QED
    BY <2>1, <2>4
<1>7. n \in W
  <2>1. \A k \in 0 .. n : k \in W
    <3> HIDE DEF W
    <3> QED
      BY <1>1, <1>5, <1>6, Hasta
  <2> QED
    BY <1>1, <2>1
<1>8. OK(n, f[n])
  BY <1>7
<1> DEFINE r == f[n]
<1>9. OK(n, r) /\ r = Keep(s, S)
  BY <1>2, <1>8
<1> HIDE DEF r
<1>10. Ordered(r, s, S)
  <2>1. DOMAIN s = 1 .. n
    BY <1>1
  <2> HIDE DEF n
  <2> QED
    BY <1>9, <2>1 DEF Ordered
<1> QED
  BY <1>9, <1>10

(* SortByNode, step by step.                                               *)
SortStep(v, e) ==
    InsertAt(v, Cardinality({i \in DOMAIN v : v[i].nodo <= e.nodo}) + 1, e)
LEMMA SortSteps ==
    ASSUME NEW E, NEW tasks \in Seq(E)
    PROVE  \E f : /\ f[0] = <<>> /\ SortByNode(tasks) = f[Len(tasks)]
                  /\ \A k \in 0 .. Len(tasks) : f[k] \in Seq(E)
                  /\ \A k \in 1 .. Len(tasks) : f[k] = SortStep(f[k - 1], tasks[k])
<1> DEFINE n == Len(tasks)
           V == Seq(E)
           a == <<>>
           next(k, v) == LET s == v
                             upTo == {i \in DOMAIN s : s[i].nodo <= tasks[k].nodo}
                         IN  InsertAt(s, Cardinality(upTo) + 1, tasks[k])
           paso == [k \in 1 .. n |-> [v \in V |-> next(k, v)]]
           Es(h) == h = [k \in 0 .. n |-> IF k = 0 THEN <<>> ELSE LET s == h[k - 1]
                               upTo == {i \in DOMAIN s : s[i].nodo <= tasks[k].nodo}
                           IN  InsertAt(s, Cardinality(upTo) + 1, tasks[k])]
           f == CHOOSE h : Es(h)
<1>1. n \in Nat
  OBVIOUS
<1>2. \A k \in 1 .. n, v \in V : next(k, v) \in V
  <2> SUFFICES ASSUME NEW k \in 1 .. n, NEW v \in V PROVE next(k, v) \in V
    OBVIOUS
  <2> DEFINE upTo == {i \in DOMAIN v : v[i].nodo <= tasks[k].nodo}
  <2>1. upTo \in SUBSET (DOMAIN v) /\ tasks[k] \in E
    OBVIOUS
  <2>2. next(k, v) = InsertAt(v, Cardinality(upTo) + 1, tasks[k])
    BY Zenon
  <2> HIDE DEF upTo, next
  <2> QED
    BY <2>1, <2>2, InsertedIs
<1>3. a \in V
  BY EmptySeq
<1>4. PICK g : Ecuacion(g, n, V, a, paso)
  <2>1. paso \in [1 .. n -> [V -> V]]
    <3> HIDE DEF n, next, V
    <3> QED
      BY <1>2
  <2> HIDE DEF n, paso, V, a
  <2> QED
    BY <1>1, <1>3, <2>1, RecursivaEs
<1>5. Es(g)
  <2>1. /\ g \in [0 .. n -> V]
        /\ g = [k \in 0 .. n |-> IF k = 0 THEN a ELSE paso[k][g[k - 1]]]
    BY <1>4, Zenon DEF Ecuacion
  <2>2. \A k \in 1 .. n : paso[k][g[k - 1]] = next(k, g[k - 1])
    <3>1. \A k \in 1 .. n : k - 1 \in 0 .. n
      BY <1>1
    <3> HIDE DEF n, next, V
    <3> QED
      BY <2>1, <3>1
  <2>3. \A k \in 0 .. n : k # 0 => k \in 1 .. n
    BY <1>1
  <2>4. g = [k \in 0 .. n |-> IF k = 0 THEN a ELSE next(k, g[k - 1])]
    <3> HIDE DEF n, next, paso, V, a
    <3> QED
      BY <2>1, <2>2, <2>3
  <2> QED
    BY <2>4, Zenon
<1>6. Es(f)
  <2> HIDE DEF Es
  <2> QED
    BY <1>5
<1>7. SortByNode(tasks) = f[n]
  BY Zenon DEF SortByNode
<1>8. f[0] = a /\ \A k \in 1 .. n : f[k] = next(k, f[k - 1])
  <2>1. f = [k \in 0 .. n |-> IF k = 0 THEN a ELSE next(k, f[k - 1])]
    BY <1>6, Zenon
  <2> HIDE DEF f, next, a, n
  <2> QED
    BY <1>1, <2>1
<1> HIDE DEF f, n, Es, paso
<1>9. \A k \in 0 .. n : f[k] \in V
  <2>1. \A k \in 1 .. n : f[k - 1] \in V => f[k] \in V
    <3> HIDE DEF V, next
    <3> QED
      BY <1>2, <1>8
  <2> HIDE DEF V, a
  <2> QED
    BY <1>1, <1>3, <1>8, <2>1, EnTipo
<1>10. f[0] = a /\ \A k \in 1 .. n : f[k] = SortStep(f[k - 1], tasks[k])
  <2>1. \A k, v : next(k, v) = SortStep(v, tasks[k])
    BY Zenon DEF SortStep
  <2> HIDE DEF next, a
  <2> QED
    BY <1>8, <2>1
<1> HIDE DEF next, a
<1>11. a = <<>> /\ V = Seq(E) /\ n = Len(tasks)
  BY DEF a, n
<1> HIDE DEF V, n
<1> QED
  BY <1>7, <1>9, <1>10, <1>11

(* z is x and then y.                                                      *)
Chain(x, y, z) ==
    /\ Len(z) = Len(x) + Len(y) /\ Len(x) \in Nat /\ Len(y) \in Nat
    /\ DOMAIN x = 1 .. Len(x) /\ DOMAIN y = 1 .. Len(y)
    /\ DOMAIN z = 1 .. Len(x) + Len(y)
    /\ \A i \in 1 .. Len(x) : z[i] = x[i]
    /\ \A i \in 1 .. Len(y) : z[Len(x) + i] = y[i]
LEMMA ConcatIs ==
    ASSUME NEW E, NEW x \in Seq(E), NEW y \in Seq(E)
    PROVE  x \o y \in Seq(E) /\ Chain(x, y, x \o y)
<1>1. /\ x \o y \in Seq(E) /\ Len(x \o y) = Len(x) + Len(y)
      /\ Len(x) \in Nat /\ Len(y) \in Nat
      /\ DOMAIN x = 1 .. Len(x) /\ DOMAIN y = 1 .. Len(y)
      /\ DOMAIN (x \o y) = 1 .. Len(x) + Len(y)
  OBVIOUS
<1>2. \A i \in 1 .. Len(x) : (x \o y)[i] = x[i]
  OBVIOUS
<1>3. \A i \in 1 .. Len(y) : (x \o y)[Len(x) + i] = y[i]
  <2>1. \A i \in 1 .. Len(y) : Len(x) + i \in 1 .. Len(x) + Len(y)
    BY <1>1
  <2>2. \A i \in 1 .. Len(y) : (x \o y)[Len(x) + i] = y[(Len(x) + i) - Len(x)]
    BY <2>1
  <2> QED
    BY <1>1, <2>2
<1> QED
  BY <1>1, <1>2, <1>3, Zenon DEF Chain

LEMMA InsertedAre ==
    ASSUME NEW E, NEW s \in Seq(E), NEW c \in 0 .. Len(s), NEW e \in E
    PROVE  LET w == InsertAt(s, c + 1, e)
           IN  /\ w \in Seq(E) /\ Len(w) = Len(s) + 1
               /\ \A i \in 1 .. c : w[i] = s[i]
               /\ w[c + 1] = e
               /\ \A i \in c + 1 .. Len(s) : w[i + 1] = s[i]
<1> DEFINE x == SubSeq(s, 1, (c + 1) - 1)
           y == <<e>>
           z == SubSeq(s, c + 1, Len(s))
           w == InsertAt(s, c + 1, e)
           l == Len(s)
<1>1. w = x \o y \o z
  BY DEF InsertAt
<1>2. l \in Nat /\ c \in Nat /\ c <= l /\ \A i \in 1 .. l : s[i] \in E
  OBVIOUS
<1>3. x \in Seq(E) /\ Len(x) = c /\ \A i \in 1 .. c : x[i] = s[i]
  BY <1>2
<1>4. y \in Seq(E) /\ Len(y) = 1 /\ y[1] = e
  OBVIOUS
<1>5. z \in Seq(E) /\ Len(z) = l - c /\ \A i \in 1 .. l - c : z[i] = s[c + i]
  <2>1. s \in Seq(E) /\ z = SubSeq(s, c + 1, l)
    OBVIOUS
  <2> HIDE DEF z
  <2>2. z \in Seq(E) /\ Len(z) = l - c
    BY <1>2, <2>1
  <2>3. \A i \in 1 .. l - c : (c + 1) + i - 1 = c + i /\ c + i \in 1 .. l
    <3> HIDE DEF l
    <3> QED
      BY <1>2
  <2>4. \A i \in 1 .. l - c : z[i] = s[(c + 1) + i - 1]
    BY <1>2, <2>1, <2>2
  <2> HIDE DEF l
  <2> QED
    BY <2>2, <2>3, <2>4
<1> HIDE DEF x, y, z, w, l
<1> DEFINE v == x \o y
<1>6. /\ v \in Seq(E) /\ Len(v) = c + 1 /\ v[c + 1] = e /\ \A i \in 1 .. c : v[i] = s[i]
  <2>1. x \o y \in Seq(E) /\ Chain(x, y, x \o y)
    BY <1>3, <1>4, ConcatIs
  <2>2. v \in Seq(E) /\ Chain(x, y, v)
    BY <2>1 DEF v
  <2> HIDE DEF v
  <2>3. Len(v) = c + 1 /\ \A i \in 1 .. c : v[i] = x[i]
    BY <1>2, <1>3, <1>4, <2>2 DEF Chain
  <2>4. v[c + 1] = y[1]
    <3>1. \A i \in 1 .. Len(y) : v[Len(x) + i] = y[i]
      BY <2>2 DEF Chain
    <3> QED
      BY <1>2, <1>3, <1>4, <3>1
  <2> QED
    BY <1>3, <1>4, <2>2, <2>3, <2>4
<1> HIDE DEF v
<1>7. /\ w \in Seq(E) /\ Len(w) = l + 1
      /\ \A i \in 1 .. c + 1 : w[i] = v[i]
      /\ \A i \in 1 .. l - c : w[c + 1 + i] = z[i]
  <2>1. v \o z \in Seq(E) /\ Chain(v, z, v \o z)
    BY <1>5, <1>6, ConcatIs
  <2>2. w \in Seq(E) /\ Chain(v, z, w)
    BY <1>1, <2>1 DEF v
  <2>3. Len(v) + Len(z) = l + 1
    BY <1>2, <1>5, <1>6
  <2> QED
    BY <1>5, <1>6, <2>2, <2>3 DEF Chain
<1>9. \A i \in 1 .. c : w[i] = s[i]
  BY <1>2, <1>6, <1>7
<1>10. w[c + 1] = e
  BY <1>2, <1>6, <1>7
<1>11. \A i \in c + 1 .. l : w[i + 1] = s[i]
  <2> SUFFICES ASSUME NEW i \in c + 1 .. l PROVE w[i + 1] = s[i]
    OBVIOUS
  <2>1. /\ c + 1 + (i - c) = i + 1
        /\ i - c \in 1 .. l - c /\ c + (i - c) = i
    BY <1>2
  <2> QED
    BY <1>5, <1>7, <2>1
<1> QED
  BY <1>7, <1>9, <1>10, <1>11 DEF w, l

(* The tasks of lower nodes are the first ones.                            *)
LEMMA UpToIs ==
    ASSUME NEW N \in SUBSET Nat, NEW v \in Seq(TasksOf(N)), ByNode(v), NEW x \in Nat
    PROVE  \E c \in 0 .. Len(v) :
              /\ Cardinality({i \in DOMAIN v : v[i].nodo <= x}) = c
              /\ \A i \in DOMAIN v : v[i].nodo <= x <=> i <= c
<1> DEFINE U == {i \in DOMAIN v : v[i].nodo <= x}
           M == DOMAIN v \ U
           l == Len(v)
<1>1. DOMAIN v = 1 .. l /\ l \in Nat /\ \A i \in DOMAIN v : v[i].nodo \in Nat
  <2>1. DOMAIN v = 1 .. l /\ l \in Nat /\ \A i \in DOMAIN v : v[i] \in TasksOf(N)
    OBVIOUS
  <2>2. \A i \in DOMAIN v : v[i].nodo \in Nat
    BY <2>1 DEF TasksOf
  <2> QED
    BY <2>1, <2>2
<1>2. \A i, j \in DOMAIN v : i < j => v[i].nodo <= v[j].nodo
  BY DEF ByNode
<1>3. ASSUME NEW c \in 0 .. l, \A i \in DOMAIN v : v[i].nodo <= x <=> i <= c
      PROVE  Cardinality(U) = c
  <2>1. U = 1 .. c /\ c \in Nat
    BY <1>1, <1>3
  <2>2. /\ IsFiniteSet(1 .. c)
        /\ Cardinality(1 .. c) = IF 1 > c THEN 0 ELSE c - 1 + 1
    <3>1. 1 \in Int /\ c \in Int
      BY <2>1
    <3> QED
      BY <3>1, FS_Interval, Zenon
  <2>3. Cardinality(1 .. c) = c
    BY <2>1, <2>2
  <2> HIDE DEF U
  <2> QED
    BY <2>1, <2>3
<1>4. \E c \in 0 .. l : \A i \in DOMAIN v : v[i].nodo <= x <=> i <= c
  <2>1. CASE M = {}
    <3> HIDE DEF l
    <3>1. l \in 0 .. l /\ \A i \in DOMAIN v : v[i].nodo <= x /\ i <= l
      BY <1>1, <2>1
    <3> QED
      BY <3>1
  <2>2. CASE M # {}
    <3> DEFINE m == First(M)
    <3>1. M \in SUBSET Nat
      BY <1>1
    <3> HIDE DEF M, l
    <3>2. m \in M /\ \A j \in M : m <= j
      BY <2>2, <3>1, FirstIs
    <3> HIDE DEF m
    <3>3. m \in DOMAIN v /\ ~(v[m].nodo <= x)
      BY <3>2 DEF M
    <3>4. m - 1 \in 0 .. l /\ m \in 1 .. l
      BY <1>1, <3>3
    <3>5. ASSUME NEW i \in DOMAIN v PROVE v[i].nodo <= x <=> i <= m - 1
      <4>1. CASE i < m
        <5>1. i \notin M
          BY <1>1, <3>2, <3>4, <4>1
        <5>2. i <= m - 1
          BY <1>1, <3>4, <4>1
        <5> QED
          BY <5>1, <5>2 DEF M
      <4>2. CASE i = m
        BY <3>3, <3>4, <4>2
      <4>3. CASE m < i
        <5>1. v[m].nodo <= v[i].nodo /\ v[m].nodo \in Nat /\ v[i].nodo \in Nat
          BY <1>1, <1>2, <3>3, <4>3
        <5>2. ~(i <= m - 1)
          BY <1>1, <3>4, <4>3
        <5> QED
          BY <3>3, <5>1, <5>2
      <4> QED
        BY <1>1, <3>4, <4>1, <4>2, <4>3
    <3> QED
      BY <3>4, <3>5
  <2> QED
    BY <2>1, <2>2
<1> QED
  BY <1>3, <1>4

(* One more task in its place.                                             *)
Among(v, e, w) ==
    /\ Len(w) = Len(v) + 1 /\ ByNode(w)
    /\ \A j \in DOMAIN w : w[j] = e \/ \E i \in DOMAIN v : w[j] = v[i]
    /\ \A i \in DOMAIN v : \E j \in DOMAIN w : w[j] = v[i]
    /\ \E j \in DOMAIN w : w[j] = e
    /\ (/\ Apart(v) /\ Len(e.tmps) = 1
        /\ \A i \in DOMAIN v : v[i].tmps[1] # e.tmps[1]) => Apart(w)

LEMMA SortedOne ==
    ASSUME NEW N \in SUBSET Nat, NEW v \in Seq(TasksOf(N)), ByNode(v), NEW e \in TasksOf(N)
    PROVE  SortStep(v, e) \in Seq(TasksOf(N)) /\ Among(v, e, SortStep(v, e))
<1> DEFINE E == TasksOf(N)
           l == Len(v)
<1>1. e.nodo \in Nat
  BY DEF TasksOf
<1>2. PICK c \in 0 .. l : /\ Cardinality({i \in DOMAIN v : v[i].nodo <= e.nodo}) = c
                          /\ \A i \in DOMAIN v : v[i].nodo <= e.nodo <=> i <= c
  BY <1>1, UpToIs
<1> DEFINE w == InsertAt(v, c + 1, e)
<1>3. SortStep(v, e) = w
  BY <1>2, Zenon DEF SortStep
<1>4. /\ w \in Seq(E) /\ Len(w) = l + 1
      /\ \A i \in 1 .. c : w[i] = v[i]
      /\ w[c + 1] = e
      /\ \A i \in c + 1 .. l : w[i + 1] = v[i]
  <2> HIDE DEF E
  <2>1. v \in Seq(E) /\ e \in E
    BY DEF E
  <2> QED
    BY <2>1, InsertedAre
<1> HIDE DEF w
<1>5. l \in Nat /\ c \in Nat /\ c <= l /\ DOMAIN v = 1 .. l /\ DOMAIN w = 1 .. l + 1
  BY <1>4
<1>6. \A i \in DOMAIN v : v[i].nodo \in Nat
  <2>1. \A i \in DOMAIN v : v[i] \in TasksOf(N)
    OBVIOUS
  <2> QED
    BY <2>1 DEF TasksOf
<1> DEFINE back(j) == IF j <= c THEN j ELSE j - 1
<1>7. ASSUME NEW j \in DOMAIN w
      PROVE  \/ j = c + 1 /\ w[j] = e
             \/ j # c + 1 /\ back(j) \in DOMAIN v /\ w[j] = v[back(j)]
  <2>1. CASE j <= c
    <3>1. j \in 1 .. c /\ j \in 1 .. l /\ j # c + 1
      BY <1>5, <2>1
    <3> QED
      BY <1>4, <1>5, <2>1, <3>1
  <2>2. CASE j = c + 1
    BY <1>4, <2>2
  <2>3. CASE ~(j <= c) /\ j # c + 1
    <3>1. j - 1 \in c + 1 .. l /\ (j - 1) + 1 = j /\ j - 1 \in 1 .. l
      BY <1>5, <2>3
    <3> QED
      BY <1>4, <1>5, <2>3, <3>1
  <2> QED
    BY <2>1, <2>2, <2>3
<1>8. ASSUME NEW i \in DOMAIN v PROVE \E j \in DOMAIN w : w[j] = v[i]
  <2>1. CASE i <= c
    <3>1. i \in 1 .. c /\ i \in DOMAIN w
      BY <1>5, <2>1
    <3> QED
      BY <1>4, <3>1
  <2>2. CASE ~(i <= c)
    <3>1. i \in c + 1 .. l /\ i + 1 \in DOMAIN w
      BY <1>5, <2>2
    <3> QED
      BY <1>4, <3>1
  <2> QED
    BY <2>1, <2>2
<1>9. c + 1 \in DOMAIN w
  BY <1>5
<1>10. ASSUME NEW i \in DOMAIN w, NEW j \in DOMAIN w, i < j PROVE w[i].nodo <= w[j].nodo
  <2>1. CASE i # c + 1 /\ j # c + 1
    <3>1. /\ back(i) \in DOMAIN v /\ back(j) \in DOMAIN v
          /\ w[i] = v[back(i)] /\ w[j] = v[back(j)]
      BY <1>7, <2>1
    <3>2. back(i) < back(j)
      BY <1>5, <1>10, <2>1
    <3> HIDE DEF back
    <3> QED
      BY <3>1, <3>2 DEF ByNode
  <2>2. CASE i = c + 1
    <3>1. j # c + 1 /\ back(j) = j - 1 /\ ~(back(j) <= c) /\ w[i] = e
      BY <1>4, <1>5, <1>10, <2>2
    <3>2. back(j) \in DOMAIN v /\ w[j] = v[back(j)]
      BY <1>7, <3>1
    <3> HIDE DEF back
    <3>3. ~(w[j].nodo <= e.nodo) /\ w[j].nodo \in Nat
      BY <1>2, <1>6, <3>1, <3>2
    <3> QED
      BY <1>1, <3>1, <3>3
  <2>3. CASE j = c + 1
    <3>1. i # c + 1 /\ back(i) = i /\ back(i) <= c /\ w[j] = e
      BY <1>4, <1>5, <1>10, <2>3
    <3>2. back(i) \in DOMAIN v /\ w[i] = v[back(i)]
      BY <1>7, <3>1
    <3> HIDE DEF back
    <3> QED
      BY <1>2, <3>1, <3>2
  <2> QED
    BY <2>1, <2>2, <2>3
<1>11. ASSUME Apart(v), Len(e.tmps) = 1, \A i \in DOMAIN v : v[i].tmps[1] # e.tmps[1]
       PROVE  Apart(w)
  <2>1. \A j \in DOMAIN w : Len(w[j].tmps) = 1
    <3> HIDE DEF back
    <3> QED
      BY <1>7, <1>11 DEF Apart
  <2>2. ASSUME NEW i \in DOMAIN w, NEW j \in DOMAIN w, w[i].tmps[1] = w[j].tmps[1]
        PROVE  i = j
    <3>1. CASE i # c + 1 /\ j # c + 1
      <4>1. /\ back(i) \in DOMAIN v /\ back(j) \in DOMAIN v
            /\ w[i] = v[back(i)] /\ w[j] = v[back(j)]
        BY <1>7, <3>1
      <4>2. back(i) = back(j)
        <5> HIDE DEF back
        <5> QED
          BY <1>11, <2>2, <4>1 DEF Apart
      <4> QED
        BY <1>5, <3>1, <4>2
    <3>2. CASE i = c + 1 \/ j = c + 1
      <4> HIDE DEF back
      <4> QED
        BY <1>7, <1>11, <2>2, <3>2
    <3> QED
      BY <3>1, <3>2
  <2> QED
    BY <2>1, <2>2 DEF Apart
<1>12. Among(v, e, w)
  <2>1. \A j \in DOMAIN w : w[j] = e \/ \E i \in DOMAIN v : w[j] = v[i]
    <3> HIDE DEF back
    <3> QED
      BY <1>7
  <2>2. ByNode(w)
    BY <1>10 DEF ByNode
  <2>3. \E j \in DOMAIN w : w[j] = e
    BY <1>4, <1>9
  <2> QED
    BY <1>4, <1>8, <1>11, <2>1, <2>2, <2>3 DEF Among
<1> QED
  BY <1>3, <1>4, <1>12

(* The tasks sorted by node: the same ones, a block still in one of them.  *)
SameTasks(v, tasks, k) ==
    /\ Len(v) = k /\ ByNode(v)
    /\ \A j \in DOMAIN v : \E i \in 1 .. k : v[j] = tasks[i]
    /\ \A i \in 1 .. k : \E j \in DOMAIN v : v[j] = tasks[i]
    /\ Apart(tasks) => Apart(v)

LEMMA SortedAre ==
    ASSUME NEW N \in SUBSET Nat, NEW tasks \in Seq(TasksOf(N))
    PROVE  /\ SortByNode(tasks) \in Seq(TasksOf(N))
           /\ SameTasks(SortByNode(tasks), tasks, Len(tasks))
<1> DEFINE n == Len(tasks)
           E == TasksOf(N)
<1>1. n \in Nat /\ DOMAIN tasks = 1 .. n /\ \A i \in DOMAIN tasks : tasks[i] \in E
  OBVIOUS
<1>2. PICK f : /\ f[0] = <<>> /\ SortByNode(tasks) = f[n]
               /\ \A k \in 0 .. n : f[k] \in Seq(E)
               /\ \A k \in 1 .. n : f[k] = SortStep(f[k - 1], tasks[k])
  BY SortSteps, Zenon
<1> DEFINE W == {k \in 0 .. n : SameTasks(f[k], tasks, k)}
<1> HIDE DEF n, E
<1>3. 0 \in W
  <2>1. 1 .. 0 = {} /\ DOMAIN <<>> = {} /\ Len(<<>>) = 0
    OBVIOUS
  <2>2. SameTasks(<<>>, tasks, 0)
    BY <2>1 DEF SameTasks, ByNode, Apart
  <2> QED
    BY <1>1, <1>2, <2>2
<1>4. ASSUME NEW k \in 0 .. n - 1, k \in W PROVE k + 1 \in W
  <2> DEFINE v == f[k]
             w == f[k + 1]
             e == tasks[k + 1]
  <2>1. /\ k + 1 \in 1 .. n /\ k + 1 \in 0 .. n /\ (k + 1) - 1 = k /\ k \in 0 .. n /\ k \in Nat
        /\ \A i : i \in 1 .. k + 1 <=> i \in 1 .. k \/ i = k + 1
    BY <1>1
  <2>2. v \in Seq(E) /\ SameTasks(v, tasks, k) /\ e \in E /\ w = SortStep(v, e)
    BY <1>1, <1>2, <1>4, <2>1
  <2> HIDE DEF v, w, e
  <2>3. Among(v, e, w)
    BY <2>2, SortedOne DEF E, SameTasks
  <2>4. SameTasks(w, tasks, k + 1)
    <3>1. Len(w) = k + 1 /\ ByNode(w)
      BY <2>2, <2>3 DEF SameTasks, Among
    <3>2. \A j \in DOMAIN w : \E i \in 1 .. k + 1 : w[j] = tasks[i]
      <4> SUFFICES ASSUME NEW j \in DOMAIN w PROVE \E i \in 1 .. k + 1 : w[j] = tasks[i]
        OBVIOUS
      <4>1. CASE w[j] = e
        <5>1. k + 1 \in 1 .. k + 1
          BY <2>1
        <5> QED
          BY <4>1, <5>1 DEF e
      <4>2. CASE \E i \in DOMAIN v : w[j] = v[i]
        <5>1. PICK i \in DOMAIN v : w[j] = v[i]
          BY <4>2
        <5>2. PICK q \in 1 .. k : v[i] = tasks[q]
          BY <2>2 DEF SameTasks
        <5>3. q \in 1 .. k + 1
          BY <2>1
        <5> QED
          BY <5>1, <5>2, <5>3
      <4> QED
        BY <2>3, <4>1, <4>2 DEF Among
    <3>3. \A i \in 1 .. k + 1 : \E j \in DOMAIN w : w[j] = tasks[i]
      <4>1. ASSUME NEW i \in 1 .. k PROVE \E j \in DOMAIN w : w[j] = tasks[i]
        <5>1. PICK q \in DOMAIN v : v[q] = tasks[i]
          BY <2>2 DEF SameTasks
        <5> QED
          BY <2>3, <5>1 DEF Among
      <4>2. \E j \in DOMAIN w : w[j] = tasks[k + 1]
        BY <2>3 DEF Among, e
      <4> QED
        BY <2>1, <4>1, <4>2
    <3>4. ASSUME Apart(tasks) PROVE Apart(w)
      <4>1. Len(e.tmps) = 1
        BY <1>1, <2>1, <3>4 DEF Apart, e
      <4>2. ASSUME NEW i \in DOMAIN v, v[i].tmps[1] = e.tmps[1] PROVE FALSE
        <5>1. PICK q \in 1 .. k : v[i] = tasks[q]
          BY <2>2 DEF SameTasks
        <5>2. q \in 1 .. n /\ q # k + 1
          BY <1>1, <2>1
        <5> QED
          BY <1>1, <2>1, <3>4, <4>2, <5>1, <5>2 DEF Apart, e
      <4> QED
        BY <2>2, <2>3, <3>4, <4>1, <4>2 DEF SameTasks, Among
    <3> QED
      BY <3>1, <3>2, <3>3, <3>4 DEF SameTasks
  <2> QED
    BY <2>1, <2>4 DEF w
<1>5. SameTasks(f[n], tasks, n)
  <2> HIDE DEF W
  <2>1. \A k \in 0 .. n : k \in W
    BY <1>1, <1>3, <1>4, Hasta
  <2>2. n \in W
    BY <1>1, <2>1
  <2> QED
    BY <2>2 DEF W
<1>6. f[n] \in Seq(E)
  BY <1>1, <1>2
<1> QED
  BY <1>2, <1>5, <1>6 DEF n, E

(* While nothing fails: where a master is, and what is on its way.         *)
Stages == [T |-> "esperaT", L |-> "esperaL", G |-> "esperaG", S |-> "esperaS"]

Results(s) == \A k \in DOMAIN s : s[k].op = "O"
ResultsThen(s, op) ==
    /\ s # <<>> /\ s[Len(s)].op = op
    /\ \A k \in 1 .. Len(s) - 1 : s[k].op = "O"

Waits(fd, e) ==
    /\ pc[fd] = Stages[e] /\ hilos[fd] = {}
    /\ pedidos[fd] = <<>> \/ (ResultsThen(pedidos[fd], e) /\ salida[fd] = <<>>)
    /\ salida[fd] # <<>> => Len(salida[fd]) = 1 /\ Head(salida[fd]).op = e
Course(fd) ==
    \/ /\ pc[fd] = "off" /\ hilos[fd] = {} /\ salida[fd] = <<>>
       /\ pedidos[fd] = <<>> \/ (ResultsThen(pedidos[fd], "FIN") /\ Len(pedidos[fd]) <= 2)
    \/ /\ pc[fd] = "conectado" /\ hilos[fd] = {}
       /\ salida[fd] = <<>> /\ pedidos[fd] = <<>>
    \/ \E e \in Stage : Waits(fd, e)
    \/ pc[fd] \in {"T", "L"} /\ salida[fd] = <<>> /\ Results(pedidos[fd])
    \/ pc[fd] \in {"G", "S"} /\ salida[fd] = <<>> /\ pedidos[fd] = <<>>
Calm(fd) ==
    /\ ~replanification[fd] /\ ~abortJob[fd] /\ leido[fd] = 0
    /\ pc[fd] # "off" => fd \in abiertos
    /\ \A h \in hilos[fd] : h.estado = "corre"
    /\ pc[fd] # "off" => \A k \in DOMAIN pedidos[fd] :
                            pedidos[fd][k].op = "O" => pedidos[fd][k].etapa # "S"
    /\ Course(fd)
CalmInv == faults = 0 => \A fd \in FDs : Calm(fd)

(* What happens to one master is not about the others.                     *)
Alone(fd) ==
    \A e \in FDs \ {fd} :
       /\ pc'[e] = pc[e] /\ hilos'[e] = hilos[e] /\ leido'[e] = leido[e]
       /\ replanification'[e] = replanification[e] /\ abortJob'[e] = abortJob[e]
       /\ pedidos'[e] = pedidos[e] /\ salida'[e] = salida[e]
       /\ e \in abiertos' <=> e \in abiertos
(* The master of fd is at p with the threads H, after a step that left ms  *)
(* unread and nothing unanswered.                                          *)
Moves(fd, ms, p, H) ==
    /\ pedidos'[fd] = ms /\ salida'[fd] = <<>> /\ pc'[fd] = p /\ hilos'[fd] = H
    /\ leido'[fd] = 0 /\ ~replanification'[fd] /\ ~abortJob'[fd]
    /\ p # "off" => fd \in abiertos'
    /\ Alone(fd)

Result(op, n, b) == [op |-> "O", etapa |-> op, block |-> b, node |-> n]
(* What the threads of a transformation are when h reported its block k.   *)
OneLess(H, h, k) ==
    LET rest == RemoveAt(h.tmps, k)
    IN  (H \ {h}) \cup (IF rest = <<>> THEN {} ELSE {[h EXCEPT !.tmps = rest]})

LEMMA OthersCalm ==
    ASSUME NEW fd \in FDs, Alone(fd), NEW e \in FDs \ {fd}, Calm(e)
    PROVE  Calm(e)'
<1>1. /\ pc'[e] = pc[e] /\ hilos'[e] = hilos[e] /\ leido'[e] = leido[e]
      /\ replanification'[e] = replanification[e] /\ abortJob'[e] = abortJob[e]
      /\ pedidos'[e] = pedidos[e] /\ salida'[e] = salida[e]
      /\ e \in abiertos' <=> e \in abiertos
  BY DEF Alone
<1>2. Course(e)' <=> Course(e)
  BY <1>1, Zenon DEF Course, Waits
<1> QED
  BY <1>1, <1>2 DEF Calm

(* Results, one less and one more.                                         *)
LEMMA ResultsTail ==
    ASSUME NEW s \in Seq(Message), s # <<>>
    PROVE  /\ Results(s) => Head(s).op = "O" /\ Results(Tail(s))
           /\ \A op : ResultsThen(s, op) =>
                 \/ Len(s) = 1 /\ Head(s).op = op /\ Tail(s) = <<>>
                 \/ Len(s) > 1 /\ Head(s).op = "O" /\ ResultsThen(Tail(s), op)
<1>1. /\ Tail(s) \in Seq(Message) /\ Len(Tail(s)) = Len(s) - 1 /\ Len(s) \in Nat \ {0}
      /\ \A k \in DOMAIN Tail(s) : k \in Nat \ {0} /\ k + 1 \in DOMAIN s /\ Tail(s)[k] = s[k + 1]
      /\ Head(s) = s[1] /\ 1 \in DOMAIN s /\ DOMAIN Tail(s) = 1 .. Len(s) - 1
  BY TailIs
<1>2. ASSUME Results(s) PROVE Head(s).op = "O" /\ Results(Tail(s))
  BY <1>1, <1>2 DEF Results
<1>3. ASSUME NEW op, ResultsThen(s, op)
      PROVE  \/ Len(s) = 1 /\ Head(s).op = op /\ Tail(s) = <<>>
             \/ Len(s) > 1 /\ Head(s).op = "O" /\ ResultsThen(Tail(s), op)
  <2> DEFINE t == Tail(s)
             n == Len(s)
  <2>1. CASE n = 1
    <3>1. t = <<>>
      BY <1>1, <2>1
    <3> QED
      BY <1>1, <1>3, <2>1, <3>1 DEF ResultsThen
  <2>2. CASE n # 1
    <3>1. n \in Nat /\ n > 1 /\ t \in Seq(Message) /\ Len(t) = n - 1 /\ DOMAIN t = 1 .. n - 1
      BY <1>1, <2>2
    <3>2. \A k \in 1 .. n - 1 : t[k] = s[k + 1]
      BY <1>1
    <3>3. s[n].op = op /\ \A k \in 1 .. n - 1 : s[k].op = "O"
      BY <1>3 DEF ResultsThen
    <3> HIDE DEF t, n
    <3>4. n - 1 \in 1 .. n - 1 /\ (n - 1) + 1 = n /\ 1 \in 1 .. n - 1
      BY <3>1
    <3>5. t # <<>>
      BY <3>1
    <3>6. \A k \in 1 .. (n - 1) - 1 : k \in 1 .. n - 1 /\ k + 1 \in 1 .. n - 1
      BY <3>1
    <3>7. ResultsThen(t, op)
      BY <3>1, <3>2, <3>3, <3>4, <3>5, <3>6 DEF ResultsThen
    <3>8. Head(s).op = "O"
      BY <1>1, <3>3, <3>4
    <3> QED
      BY <3>1, <3>7, <3>8 DEF t, n
  <2> QED
    BY <2>1, <2>2
<1> QED
  BY <1>2, <1>3

LEMMA ResultsMore ==
    ASSUME NEW s \in Seq(Message), Results(s), NEW m \in Message
    PROVE  /\ s \o <<m>> \in Seq(Message) /\ Len(s \o <<m>>) = Len(s) + 1
           /\ m.op = "O" => Results(s \o <<m>>)
           /\ ResultsThen(s \o <<m>>, m.op)
<1> DEFINE t == s \o <<m>>
<1>1. /\ t \in Seq(Message) /\ Len(s) \in Nat /\ Len(t) = Len(s) + 1
      /\ DOMAIN t = 1 .. Len(s) + 1 /\ t[Len(s) + 1] = m
      /\ \A k \in 1 .. Len(s) : k \in DOMAIN s /\ t[k] = s[k]
  OBVIOUS
<1> HIDE DEF t
<1>2. t # <<>> /\ \A k \in 1 .. Len(s) + 1 : k \in 1 .. Len(s) \/ k = Len(s) + 1
  BY <1>1
<1>3. m.op = "O" => Results(t)
  BY <1>1, <1>2 DEF Results
<1>4. ResultsThen(t, m.op)
  BY <1>1, <1>2 DEF Results, ResultsThen
<1> QED
  BY <1>1, <1>3, <1>4 DEF t

LEMMA FaultsKept ==
    ASSUME NEW fd \in FDs, MasterStep(fd)
    PROVE  faults' = faults
<1>1. CASE \E f \in Files : SendTRequest(fd, f)
  BY <1>1 DEF SendTRequest
<1>2. CASE TransformationReply(fd) \/ LocalReductionReply(fd) \/ LastStagesReply(fd)
  BY <1>2 DEF TransformationReply, LocalReductionReply, LastStagesReply, StartThreads
<1>3. CASE TransformationRefused(fd) \/ TransformationJoined(fd) \/ LocalReductionJoined(fd)
  BY <1>3 DEF TransformationRefused, TransformationJoined, LocalReductionJoined
<1>4. ASSUME NEW h \in hilos[fd],
             \/ \E k \in DOMAIN h.tmps : BlockTransformed(fd, h, k)
             \/ CheckReplanification(fd, h) \/ LocalReductionDone(fd, h)
             \/ GlobalReductionDone(fd, h) \/ FinalStoreDone(fd, h)
      PROVE  faults' = faults
  BY <1>4, Zenon DEF BlockTransformed, CheckReplanification, LocalReductionDone, GlobalReductionDone,
                FinalStoreDone
<1> QED
  BY <1>1, <1>2, <1>3, <1>4, Zenon DEF MasterStep

LEMMA FaultsGrow ==
    ASSUME MasterOK, NEW fd \in FDs, MasterFault(fd)
    PROVE  faults' > 0
<1>1. Fault
  BY Zenon DEF MasterFault, TransformationFails, LocalReductionFails, LastStagesFail, Kill
<1> QED
  BY <1>1 DEF Fault, MasterOK

(* The steps of a master while nothing fails.                              *)
Asks(fd) ==
    pc[fd] = "conectado" /\ \E f \in Files : Moves(fd, <<[op |-> "T", file |-> f]>>, "esperaT", {})
Starts(fd) ==
    \E e \in Stage :
       /\ pc[fd] = Stages[e] /\ pedidos[fd] = <<>> /\ salida[fd] # <<>>
       /\ Moves(fd, <<>>, e, ThreadsFor(Head(salida[fd]).data))
Transforms(fd) ==
    pc[fd] = "T" /\ \E h \in hilos[fd] : \E k \in DOMAIN h.tmps :
       Moves(fd, pedidos[fd] \o <<Result("T", h.nodo, h.tmps[k])>>, "T", OneLess(hilos[fd], h, k))
Reduces(fd) ==
    pc[fd] = "L" /\ \E h \in hilos[fd] :
       Moves(fd, pedidos[fd] \o <<Result("L", h.nodo, <<>>)>>, "L", hilos[fd] \ {h})
GoesOn(fd) ==
    \E from \in {"T", "L"} :
       /\ pc[fd] = from /\ hilos[fd] = {}
       /\ LET to == IF from = "T" THEN "L" ELSE "G"
          IN  Moves(fd, pedidos[fd] \o <<[op |-> to]>>, Stages[to], {})
Ends(fd) ==
    \E last \in {"G", "S"} :
       /\ pc[fd] = last /\ pedidos[fd] = <<>>
       /\ LET m == IF last = "G" THEN [op |-> "S"] ELSE [op |-> "FIN"]
              l == IF last = "G" THEN "esperaS" ELSE "off"
          IN  \E h \in hilos[fd] : Moves(fd, <<Result(last, h.nodo, <<>>), m>>, l, {})

(* Functions that change at fd are as before elsewhere.                    *)
LEMMA AloneIs ==
    ASSUME TypeInv, NEW fd \in FDs, NEW ms, NEW ss, NEW p, NEW H,
           pedidos' = [pedidos EXCEPT ![fd] = ms], salida' = [salida EXCEPT ![fd] = ss],
           pc' = [pc EXCEPT ![fd] = p], hilos' = [hilos EXCEPT ![fd] = H],
           leido' = [leido EXCEPT ![fd] = 0],
           replanification' = [replanification EXCEPT ![fd] = FALSE],
           abortJob' = [abortJob EXCEPT ![fd] = FALSE],
           abiertos' = abiertos \/ abiertos' = abiertos \ {fd}
    PROVE  /\ pedidos'[fd] = ms /\ salida'[fd] = ss /\ pc'[fd] = p /\ hilos'[fd] = H
           /\ leido'[fd] = 0 /\ ~replanification'[fd] /\ ~abortJob'[fd]
           /\ Alone(fd)
<1>1. /\ DOMAIN pedidos = FDs /\ DOMAIN salida = FDs /\ DOMAIN pc = FDs /\ DOMAIN hilos = FDs
      /\ DOMAIN leido = FDs /\ DOMAIN replanification = FDs /\ DOMAIN abortJob = FDs
  BY DEF TypeInv, SocketsOK, MasterOK
<1>2. /\ pedidos'[fd] = ms /\ salida'[fd] = ss /\ pc'[fd] = p /\ hilos'[fd] = H
      /\ leido'[fd] = 0 /\ replanification'[fd] = FALSE /\ abortJob'[fd] = FALSE
  BY <1>1, Zenon
<1>3. ASSUME NEW e \in FDs \ {fd}
      PROVE  /\ pc'[e] = pc[e] /\ hilos'[e] = hilos[e] /\ leido'[e] = leido[e]
             /\ replanification'[e] = replanification[e] /\ abortJob'[e] = abortJob[e]
             /\ pedidos'[e] = pedidos[e] /\ salida'[e] = salida[e]
             /\ e \in abiertos' <=> e \in abiertos
  <2>1. e \in FDs /\ e # fd
    OBVIOUS
  <2>2. /\ pc'[e] = pc[e] /\ hilos'[e] = hilos[e] /\ leido'[e] = leido[e]
        /\ replanification'[e] = replanification[e] /\ abortJob'[e] = abortJob[e]
        /\ pedidos'[e] = pedidos[e] /\ salida'[e] = salida[e]
    BY <1>1, <2>1, Zenon
  <2>3. e \in abiertos' <=> e \in abiertos
    BY <2>1
  <2> QED
    BY <2>2, <2>3
<1> QED
  BY <1>2, <1>3 DEF Alone

(* What does not change changes nowhere.                                   *)
LEMMA SameHere ==
    ASSUME NEW D, NEW x, DOMAIN x = D, NEW R, x \in [D -> R], NEW d \in D
    PROVE  x = [x EXCEPT ![d] = x[d]]
OBVIOUS

(* Where a master is while nothing fails, by its label.                    *)
LEMMA CourseAt ==
    ASSUME NEW fd \in FDs, Calm(fd)
    PROVE  /\ pc[fd] = "off" => /\ hilos[fd] = {} /\ salida[fd] = <<>>
                                /\ pedidos[fd] = <<>> \/ (/\ ResultsThen(pedidos[fd], "FIN")
                                                          /\ Len(pedidos[fd]) <= 2)
           /\ pc[fd] = "conectado" => /\ hilos[fd] = {} /\ salida[fd] = <<>>
                                      /\ pedidos[fd] = <<>>
           /\ pc[fd] \in {"T", "L"} => salida[fd] = <<>> /\ Results(pedidos[fd])
           /\ pc[fd] \in {"G", "S"} => salida[fd] = <<>> /\ pedidos[fd] = <<>>
           /\ \A e \in Stage : pc[fd] = Stages[e] => Waits(fd, e)
           /\ pc[fd] # "esperaR"
           /\ pc[fd] \in {"off", "conectado", "T", "L", "G", "S"} \cup {Stages[e] : e \in Stage}
<1>1. /\ Stages["T"] = "esperaT" /\ Stages["L"] = "esperaL"
      /\ Stages["G"] = "esperaG" /\ Stages["S"] = "esperaS"
  BY DEF Stages
<1>2. Course(fd)
  BY DEF Calm
<1>3. \A e, x \in Stage : /\ Stages[e] = Stages[x] => e = x
                          /\ Stages[e] \notin {"off", "conectado", "T", "L", "G", "S", "esperaR"}
  BY <1>1 DEF Stage
<1>4. CASE \E e \in Stage : Waits(fd, e)
  <2>1. PICK e \in Stage : Waits(fd, e)
    BY <1>4
  <2>2. pc[fd] = Stages[e]
    BY <2>1 DEF Waits
  <2> QED
    BY <1>3, <2>1, <2>2
<1>5. CASE ~\E e \in Stage : Waits(fd, e)
  <2>1. pc[fd] \in {"off", "conectado", "T", "L", "G", "S"}
    BY <1>2, <1>5, Zenon DEF Course
  <2>2. \A e \in Stage : pc[fd] # Stages[e]
    BY <1>3, <2>1
  <2> QED
    BY <1>2, <1>5, <2>1, <2>2 DEF Course
<1> QED
  BY <1>4, <1>5

LEMMA StageNames ==
    /\ Stages["T"] = "esperaT" /\ Stages["L"] = "esperaL"
    /\ Stages["G"] = "esperaG" /\ Stages["S"] = "esperaS"
BY DEF Stages

(* A step of a master that touches no more than its own state.             *)
Changes(fd, ms, p, H) ==
    /\ pedidos' = [pedidos EXCEPT ![fd] = ms]
    /\ \/ salida' = salida /\ salida[fd] = <<>>
       \/ salida' = [salida EXCEPT ![fd] = <<>>]
    /\ (pc' = pc /\ p = pc[fd]) \/ pc' = [pc EXCEPT ![fd] = p]
    /\ (hilos' = hilos /\ H = hilos[fd]) \/ hilos' = [hilos EXCEPT ![fd] = H]
    /\ leido' = leido \/ leido' = [leido EXCEPT ![fd] = 0]
    /\ \/ replanification' = replanification
       \/ replanification' = [replanification EXCEPT ![fd] = FALSE]
    /\ abortJob' = abortJob \/ abortJob' = [abortJob EXCEPT ![fd] = FALSE]
    /\ (abiertos' = abiertos /\ pc[fd] # "off") \/ (p = "off" /\ abiertos' = abiertos \ {fd})

LEMMA MovesIs ==
    ASSUME TypeInv, NEW fd \in FDs, Calm(fd), NEW ms, NEW p, NEW H,
           Changes(fd, ms, p, H)
    PROVE  Moves(fd, ms, p, H)
<1>1. /\ pedidos \in [FDs -> Seq(Message)] /\ salida \in [FDs -> Seq(Reply)] /\ DOMAIN pc = FDs
      /\ DOMAIN hilos = FDs /\ DOMAIN leido = FDs /\ DOMAIN replanification = FDs
      /\ DOMAIN abortJob = FDs /\ DOMAIN salida = FDs
  BY DEF TypeInv, SocketsOK, MasterOK
<1>2. leido[fd] = 0 /\ replanification[fd] = FALSE /\ abortJob[fd] = FALSE
  <2>1. replanification[fd] \in BOOLEAN /\ abortJob[fd] \in BOOLEAN
    BY DEF TypeInv, MasterOK
  <2> QED
    BY <2>1 DEF Calm
<1>3. /\ pc = [pc EXCEPT ![fd] = pc[fd]] /\ hilos = [hilos EXCEPT ![fd] = hilos[fd]]
      /\ salida = [salida EXCEPT ![fd] = salida[fd]]
      /\ leido = [leido EXCEPT ![fd] = 0]
      /\ replanification = [replanification EXCEPT ![fd] = FALSE]
      /\ abortJob = [abortJob EXCEPT ![fd] = FALSE]
  <2>1. /\ leido = [leido EXCEPT ![fd] = leido[fd]]
        /\ replanification = [replanification EXCEPT ![fd] = replanification[fd]]
        /\ abortJob = [abortJob EXCEPT ![fd] = abortJob[fd]]
        /\ pc = [pc EXCEPT ![fd] = pc[fd]] /\ hilos = [hilos EXCEPT ![fd] = hilos[fd]]
        /\ salida = [salida EXCEPT ![fd] = salida[fd]]
    BY DEF TypeInv, SocketsOK, MasterOK
  <2> QED
    BY <1>2, <2>1, Zenon
<1>4. /\ salida' = [salida EXCEPT ![fd] = <<>>] /\ pc' = [pc EXCEPT ![fd] = p]
      /\ hilos' = [hilos EXCEPT ![fd] = H] /\ leido' = [leido EXCEPT ![fd] = 0]
      /\ replanification' = [replanification EXCEPT ![fd] = FALSE]
      /\ abortJob' = [abortJob EXCEPT ![fd] = FALSE]
  BY <1>3, Zenon DEF Changes
<1>5. abiertos' = abiertos \/ abiertos' = abiertos \ {fd}
  BY Zenon DEF Changes
<1>8. pedidos' = [pedidos EXCEPT ![fd] = ms]
  BY Zenon DEF Changes
<1>6. /\ pedidos'[fd] = ms /\ salida'[fd] = <<>> /\ pc'[fd] = p /\ hilos'[fd] = H
      /\ leido'[fd] = 0 /\ ~replanification'[fd] /\ ~abortJob'[fd]
      /\ Alone(fd)
  BY <1>4, <1>5, <1>8, AloneIs
<1>7. p # "off" => fd \in abiertos'
  <2>1. p # "off" => pc[fd] # "off" /\ abiertos' = abiertos
    BY Zenon DEF Changes
  <2> QED
    BY <2>1 DEF Calm
<1> QED
  BY <1>6, <1>7 DEF Moves

(* Short sequences.                                                        *)
LEMMA TailOfOne ==
    ASSUME NEW E, NEW s \in Seq(E), Len(s) = 1
    PROVE  Tail(s) = <<>>
<1> DEFINE t == Tail(s)
<1>1. s # <<>>
  <2>1. Len(<<>>) = 0
    OBVIOUS
  <2>2. 1 # 0
    OBVIOUS
  <2> QED
    BY <2>1, <2>2, Zenon
<1>2. t \in Seq(E) /\ Len(t) = Len(s) - 1
  BY <1>1, TailIs
<1>3. Len(t) = 0
  BY <1>2
<1> HIDE DEF t
<1>4. t = <<>>
  BY <1>2, <1>3
<1> QED
  BY <1>4 DEF t

LEMMA TwoInOrder ==
    ASSUME NEW x, NEW y
    PROVE  Append(<<x>>, y) = <<x, y>>
<1> DEFINE E == {x, y}
           s == Append(<<x>>, y)
           t == <<x, y>>
           o == <<x>>
<1>1. o \in Seq(E) /\ y \in E /\ Len(o) = 1 /\ o[1] = x
  OBVIOUS
<1> HIDE DEF o, E
<1>2. Append(o, y) \in Seq(E) /\ Len(Append(o, y)) = 2 /\ Append(o, y)[1] = x /\ Append(o, y)[2] = y
  <2> DEFINE a == Append(o, y)
  <2>1. /\ a \in Seq(E) /\ Len(a) = Len(o) + 1 /\ a[Len(o) + 1] = y
        /\ \A i \in 1 .. Len(o) : a[i] = o[i]
    BY <1>1
  <2> HIDE DEF a
  <2>2. Len(o) + 1 = 2 /\ 1 \in 1 .. Len(o)
    BY <1>1
  <2>3. a \in Seq(E) /\ Len(a) = 2 /\ a[1] = x /\ a[2] = y
    BY <1>1, <2>1, <2>2
  <2> QED
    BY <2>3 DEF a
<1> USE DEF o, E
<1>3. t \in Seq(E) /\ Len(t) = 2 /\ t[1] = x /\ t[2] = y
  OBVIOUS
<1> HIDE DEF s, t, o, E
<1>6. s = Append(o, y)
  BY DEF s, o
<1>4. \A i \in 1 .. 2 : s[i] = t[i]
  <2>1. \A i \in 1 .. 2 : i = 1 \/ i = 2
    OBVIOUS
  <2> QED
    BY <1>2, <1>3, <1>6, <2>1
<1>7. s \in Seq(E) /\ Len(s) = 2
  BY <1>2, <1>6
<1>5. s = t
  BY <1>3, <1>4, <1>7
<1> QED
  BY <1>5 DEF s, t

LEMMA CalmAsks ==
    ASSUME TypeInv, NEW fd \in FDs, Calm(fd), NEW arch \in Files, SendTRequest(fd, arch)
    PROVE  Asks(fd)
<1>1. pc[fd] = "conectado" /\ hilos[fd] = {} /\ salida[fd] = <<>> /\ pedidos[fd] = <<>>
  BY CourseAt DEF SendTRequest
<1> DEFINE m == <<[op |-> "T", file |-> arch]>>
<1>2. pedidos[fd] \o m = m
  BY <1>1
<1> HIDE DEF m
<1>3. pedidos' = [pedidos EXCEPT ![fd] = pedidos[fd] \o m]
  BY Zenon DEF SendTRequest, Send, m
<1>4. pedidos' = [pedidos EXCEPT ![fd] = m]
  BY <1>2, <1>3
<1>5. Moves(fd, m, "esperaT", {})
  <2>1. Changes(fd, m, "esperaT", {})
    BY <1>1, <1>4, Zenon DEF Changes, SendTRequest, GoTo
  <2> QED
    BY <2>1, MovesIs
<1> QED
  BY <1>1, <1>5, Zenon DEF Asks, m

LEMMA CalmStarts ==
    ASSUME TypeInv, NEW fd \in FDs, Calm(fd),
           TransformationReply(fd) \/ LocalReductionReply(fd) \/ LastStagesReply(fd)
    PROVE  Starts(fd)
<1>1. PICK e \in Stage : pc[fd] = Stages[e] /\ salida[fd] # <<>> /\ StartThreads(fd, e)
  BY CourseAt, StageNames DEF TransformationReply, LocalReductionReply, LastStagesReply, Stage, Calm
<1>2. /\ hilos[fd] = {} /\ salida[fd] # <<>>
      /\ pedidos[fd] = <<>> /\ Len(salida[fd]) = 1
  BY <1>1, CourseAt DEF Waits
<1>3. salida[fd] \in Seq(Reply)
  BY DEF TypeInv, SocketsOK
<1>4. Tail(salida[fd]) = <<>>
  <2>1. Len(salida[fd]) = 1
    BY <1>2
  <2> QED
    BY <1>3, <2>1, TailOfOne
<1> DEFINE H == ThreadsFor(Head(salida[fd]).data)
<1>5. /\ hilos' = [hilos EXCEPT ![fd] = H]
      /\ salida' = [salida EXCEPT ![fd] = Tail(salida[fd])]
      /\ leido' = [leido EXCEPT ![fd] = 0] /\ pc' = [pc EXCEPT ![fd] = e]
      /\ pedidos' = pedidos /\ abiertos' = abiertos
      /\ replanification' = replanification /\ abortJob' = abortJob
  BY <1>1, Zenon DEF StartThreads, GoTo
<1> HIDE DEF H
<1>6. pedidos' = [pedidos EXCEPT ![fd] = <<>>]
  <2>1. pedidos = [pedidos EXCEPT ![fd] = pedidos[fd]]
    BY DEF TypeInv, SocketsOK
  <2> QED
    BY <1>2, <1>5, <2>1, Zenon
<1>7. pc[fd] # "off"
  BY <1>1, StageNames DEF Stage
<1>8. salida' = [salida EXCEPT ![fd] = <<>>]
  BY <1>4, <1>5, Zenon
<1>9. Moves(fd, <<>>, e, H)
  <2>1. Changes(fd, <<>>, e, H)
    BY <1>5, <1>6, <1>7, <1>8, Zenon DEF Changes
  <2> QED
    BY <2>1, MovesIs
<1> QED
  BY <1>1, <1>2, <1>9, Zenon DEF Starts, H

LEMMA CalmReports ==
    ASSUME TypeInv, NEW fd \in FDs, Calm(fd), NEW h \in hilos[fd],
           (\E k \in DOMAIN h.tmps : BlockTransformed(fd, h, k)) \/ LocalReductionDone(fd, h)
    PROVE  Transforms(fd) \/ Reduces(fd)
<1>1. CASE \E k \in DOMAIN h.tmps : BlockTransformed(fd, h, k)
  <2>1. PICK k \in DOMAIN h.tmps : BlockTransformed(fd, h, k)
    BY <1>1
  <2> DEFINE ms == pedidos[fd] \o <<Result("T", h.nodo, h.tmps[k])>>
             H == OneLess(hilos[fd], h, k)
  <2>2. /\ pc[fd] = "T" /\ pedidos' = [pedidos EXCEPT ![fd] = ms]
        /\ hilos' = [hilos EXCEPT ![fd] = H]
        /\ UNCHANGED <<salida, abiertos, pc, leido, replanification, abortJob>>
    BY <2>1, Zenon DEF BlockTransformed, Send, Result, OneLess
  <2> HIDE DEF ms, H
  <2>3. salida[fd] = <<>>
    BY <2>2, CourseAt
  <2>4. Moves(fd, ms, "T", H)
    <3>1. Changes(fd, ms, "T", H)
      BY <2>2, <2>3, Zenon DEF Changes
    <3> QED
      BY <3>1, MovesIs
  <2> QED
    BY <2>2, <2>4, Zenon DEF Transforms, ms, H
<1>2. CASE LocalReductionDone(fd, h)
  <2> DEFINE ms == pedidos[fd] \o <<Result("L", h.nodo, <<>>)>>
             H == hilos[fd] \ {h}
  <2>2. /\ pc[fd] = "L" /\ pedidos' = [pedidos EXCEPT ![fd] = ms]
        /\ hilos' = [hilos EXCEPT ![fd] = H]
        /\ UNCHANGED <<salida, abiertos, pc, leido, replanification, abortJob>>
    BY <1>2, Zenon DEF LocalReductionDone, Send, Result
  <2> HIDE DEF ms, H
  <2>3. salida[fd] = <<>>
    BY <2>2, CourseAt
  <2>4. Moves(fd, ms, "L", H)
    <3>1. Changes(fd, ms, "L", H)
      BY <2>2, <2>3, Zenon DEF Changes
    <3> QED
      BY <3>1, MovesIs
  <2> QED
    BY <2>2, <2>4, Zenon DEF Reduces, ms, H
<1> QED
  BY <1>1, <1>2

LEMMA CalmGoesOn ==
    ASSUME TypeInv, NEW fd \in FDs, Calm(fd),
           TransformationJoined(fd) \/ LocalReductionJoined(fd)
    PROVE  GoesOn(fd)
<1>1. ~replanification[fd] /\ ~abortJob[fd]
  BY DEF Calm
<1>2. PICK from \in {"T", "L"} :
        LET to == IF from = "T" THEN "L" ELSE "G"
        IN  /\ pc[fd] = from /\ hilos[fd] = {} /\ Send(fd, <<[op |-> to]>>)
            /\ GoTo(fd, Stages[to])
            /\ UNCHANGED <<salida, abiertos, hilos, leido, replanification, abortJob>>
  BY <1>1, StageNames, Zenon DEF TransformationJoined, LocalReductionJoined
<1> DEFINE to == IF from = "T" THEN "L" ELSE "G"
           ms == pedidos[fd] \o <<[op |-> to]>>
<1>3. /\ pc[fd] = from /\ hilos[fd] = {} /\ pedidos' = [pedidos EXCEPT ![fd] = ms]
      /\ pc' = [pc EXCEPT ![fd] = Stages[to]]
      /\ UNCHANGED <<salida, abiertos, hilos, leido, replanification, abortJob>>
  BY <1>2, Zenon DEF Send, GoTo
<1> HIDE DEF ms
<1>4. salida[fd] = <<>>
  BY <1>3, CourseAt
<1>5. Moves(fd, ms, Stages[to], {})
  <2> HIDE DEF to
  <2>1. pc[fd] # "off"
    BY <1>3
  <2>2. Changes(fd, ms, Stages[to], {})
    BY <1>3, <1>4, <2>1, Zenon DEF Changes
  <2> QED
    BY <2>2, MovesIs
<1> QED
  BY <1>3, <1>5, Zenon DEF GoesOn, ms

LEMMA CalmEnds ==
    ASSUME TypeInv, NEW fd \in FDs, Calm(fd), NEW h \in hilos[fd],
           GlobalReductionDone(fd, h) \/ FinalStoreDone(fd, h)
    PROVE  Ends(fd)
<1>1. CASE GlobalReductionDone(fd, h)
  <2> DEFINE m == [op |-> "S"]
             ms == <<Result("G", h.nodo, <<>>), m>>
  <2>1. /\ pc[fd] = "G" /\ pedidos' = [pedidos EXCEPT ![fd] = pedidos[fd] \o ms]
        /\ pc' = [pc EXCEPT ![fd] = "esperaS"] /\ hilos' = [hilos EXCEPT ![fd] = {}]
        /\ UNCHANGED <<salida, abiertos, leido, replanification, abortJob>>
    BY <1>1, Zenon DEF GlobalReductionDone, Send, GoTo, Result
  <2>2. pedidos[fd] = <<>> /\ salida[fd] = <<>>
    BY <2>1, CourseAt
  <2>3. pedidos[fd] \o ms = ms
    BY <2>2
  <2> HIDE DEF ms
  <2>4. Moves(fd, ms, "esperaS", {})
    <3>1. Changes(fd, ms, "esperaS", {})
      BY <2>1, <2>2, <2>3, Zenon DEF Changes
    <3> QED
      BY <3>1, MovesIs
  <2> QED
    BY <2>1, <2>2, <2>4, Zenon DEF Ends, ms
<1>2. CASE FinalStoreDone(fd, h)
  <2> DEFINE o == Result("S", h.nodo, <<>>)
  <2>1. pc[fd] = "S" /\ Exit(fd, <<o>>)
    BY <1>2, Zenon DEF FinalStoreDone, Result
  <2>2. pedidos[fd] = <<>> /\ salida[fd] = <<>>
    BY <2>1, CourseAt
  <2>3. PICK close \in {"FIN", "RST"} :
          (close = "RST" => salida[fd] # <<>>) /\ Send(fd, Append(<<o>>, [op |-> close]))
    BY <2>1, Zenon DEF Exit
  <2> DEFINE ms == <<o, [op |-> "FIN"]>>
  <2>4. Append(<<o>>, [op |-> close]) = ms
    <3>1. close = "FIN"
      BY <2>2, <2>3
    <3> HIDE DEF o
    <3>2. Append(<<o>>, [op |-> "FIN"]) = ms
      BY TwoInOrder
    <3> QED
      BY <3>1, <3>2, Zenon
  <2>5. pedidos' = [pedidos EXCEPT ![fd] = pedidos[fd] \o ms]
    BY <2>3, <2>4, Zenon DEF Send
  <2>6. pedidos[fd] \o ms = ms
    BY <2>2
  <2>7. /\ salida' = [salida EXCEPT ![fd] = <<>>] /\ pc' = [pc EXCEPT ![fd] = "off"]
        /\ hilos' = [hilos EXCEPT ![fd] = {}] /\ leido' = [leido EXCEPT ![fd] = 0]
        /\ replanification' = [replanification EXCEPT ![fd] = FALSE]
        /\ abortJob' = [abortJob EXCEPT ![fd] = FALSE] /\ abiertos' = abiertos \ {fd}
    BY <2>1, Zenon DEF Exit, GoTo
  <2> HIDE DEF ms, o
  <2>8. Moves(fd, ms, "off", {})
    <3>1. Changes(fd, ms, "off", {})
      BY <2>5, <2>6, <2>7, Zenon DEF Changes
    <3> QED
      BY <3>1, MovesIs
  <2> QED
    BY <2>1, <2>2, <2>8, Zenon DEF Ends, ms, o
<1> QED
  BY <1>1, <1>2

(* What a master does while nothing fails.                                 *)
LEMMA CalmWorks ==
    ASSUME TypeInv, NEW fd \in FDs, Calm(fd), MasterStep(fd)
    PROVE  \/ Asks(fd) \/ Starts(fd) \/ Transforms(fd) \/ Reduces(fd)
           \/ GoesOn(fd) \/ Ends(fd)
<1>1. ~TransformationRefused(fd)
  <2>1. \A e \in Stage : pc[fd] = Stages[e] /\ salida[fd] # <<>> => Head(salida[fd]).op = e
    BY CourseAt DEF Waits
  <2>2. "T" \in Stage /\ Stages["T"] = "esperaT" /\ pc[fd] # "esperaR"
    BY CourseAt, StageNames DEF Stage
  <2> QED
    BY <2>1, <2>2 DEF TransformationRefused
<1>2. \A h \in hilos[fd] : ~CheckReplanification(fd, h)
  BY Zenon DEF Calm, CheckReplanification
<1>3. CASE \E arch \in Files : SendTRequest(fd, arch)
  BY <1>3, CalmAsks
<1>4. CASE TransformationReply(fd) \/ LocalReductionReply(fd) \/ LastStagesReply(fd)
  BY <1>4, CalmStarts
<1>5. CASE TransformationJoined(fd) \/ LocalReductionJoined(fd)
  BY <1>5, CalmGoesOn
<1>6. CASE \E h \in hilos[fd] : \/ \E k \in DOMAIN h.tmps : BlockTransformed(fd, h, k)
                                \/ LocalReductionDone(fd, h)
  BY <1>6, CalmReports
<1>7. CASE \E h \in hilos[fd] : GlobalReductionDone(fd, h) \/ FinalStoreDone(fd, h)
  BY <1>7, CalmEnds
<1> QED
  BY <1>1, <1>2, <1>3, <1>4, <1>5, <1>6, <1>7, Zenon DEF MasterStep

(* The course of a master whose replies are read.                          *)
OnCourse(ms, p, H) ==
    \/ /\ p = "off" /\ H = {}
       /\ ms = <<>> \/ (ResultsThen(ms, "FIN") /\ Len(ms) <= 2)
    \/ p = "conectado" /\ H = {} /\ ms = <<>>
    \/ \E e \in Stage : p = Stages[e] /\ H = {} /\ (ms = <<>> \/ ResultsThen(ms, e))
    \/ p \in {"T", "L"} /\ Results(ms)
    \/ p \in {"G", "S"} /\ ms = <<>>
NoStores(ms) == \A k \in DOMAIN ms : ms[k].op = "O" => ms[k].etapa # "S"
Running(H) == \A h \in H : h.estado = "corre"

LEMMA CalmIf ==
    ASSUME NEW fd \in FDs, NEW ms, NEW p, NEW H, Moves(fd, ms, p, H),
           OnCourse(ms, p, H), p # "off" => NoStores(ms), Running(H)
    PROVE  Calm(fd)'
<1>1. /\ pedidos'[fd] = ms /\ salida'[fd] = <<>> /\ pc'[fd] = p /\ hilos'[fd] = H
      /\ leido'[fd] = 0 /\ ~replanification'[fd] /\ ~abortJob'[fd]
      /\ p # "off" => fd \in abiertos'
  BY DEF Moves
<1>2. Course(fd)'
  BY <1>1, Zenon DEF Course, Waits, OnCourse
<1>3. /\ \A h \in hilos'[fd] : h.estado = "corre"
      /\ pc'[fd] # "off" => \A k \in DOMAIN pedidos'[fd] :
                              pedidos'[fd][k].op = "O" => pedidos'[fd][k].etapa # "S"
  BY <1>1, Zenon DEF NoStores, Running
<1> QED
  BY <1>1, <1>2, <1>3, Zenon DEF Calm

LEMMA NoStoresMore ==
    ASSUME NEW s \in Seq(Message), NoStores(s), NEW m \in Message, m.op = "O" => m.etapa # "S"
    PROVE  NoStores(s \o <<m>>)
<1> DEFINE t == s \o <<m>>
<1>1. /\ Len(s) \in Nat /\ DOMAIN t = 1 .. Len(s) + 1 /\ t[Len(s) + 1] = m
      /\ \A k \in 1 .. Len(s) : k \in DOMAIN s /\ t[k] = s[k]
  OBVIOUS
<1> HIDE DEF t
<1>2. \A k \in 1 .. Len(s) + 1 : k \in 1 .. Len(s) \/ k = Len(s) + 1
  BY <1>1
<1>3. NoStores(t)
  BY <1>1, <1>2 DEF NoStores
<1> QED
  BY <1>3 DEF t

LEMMA OneMessage ==
    ASSUME NEW m \in Message
    PROVE  /\ <<m>> \in Seq(Message) /\ Len(<<m>>) = 1
           /\ ResultsThen(<<m>>, m.op)
           /\ m.op = "O" => Results(<<m>>)
           /\ m.op # "O" \/ m.etapa # "S" => NoStores(<<m>>)
<1>1. <<m>> \in Seq(Message) /\ Len(<<m>>) = 1 /\ DOMAIN <<m>> = {1} /\ <<m>>[1] = m
  OBVIOUS
<1> DEFINE t == <<m>>
<1>2. t # <<>> /\ 1 .. 1 - 1 = {}
  OBVIOUS
<1> HIDE DEF t
<1>3. /\ t \in Seq(Message) /\ Len(t) = 1 /\ DOMAIN t = {1} /\ t[1] = m
  BY <1>1 DEF t
<1>4. ResultsThen(t, m.op)
  BY <1>2, <1>3 DEF ResultsThen
<1>5. m.op = "O" => Results(t)
  BY <1>3 DEF Results
<1>6. m.op # "O" \/ m.etapa # "S" => NoStores(t)
  BY <1>3 DEF NoStores
<1> QED
  BY <1>3, <1>4, <1>5, <1>6 DEF t

LEMMA TwoMessages ==
    ASSUME NEW o \in Message, o.op = "O", NEW m \in Message
    PROVE  /\ <<o, m>> \in Seq(Message) /\ Len(<<o, m>>) = 2 /\ ResultsThen(<<o, m>>, m.op)
           /\ o.etapa # "S" /\ m.op # "O" => NoStores(<<o, m>>)
<1> DEFINE s == <<o>>
<1>1. s \in Seq(Message) /\ Len(s) = 1 /\ Results(s) /\ (o.etapa # "S" => NoStores(s))
  BY OneMessage
<1>2. s \o <<m>> = <<o, m>>
  <2>1. s \o <<m>> = Append(s, m)
    BY <1>1
  <2> QED
    BY <2>1, TwoInOrder
<1> HIDE DEF s
<1>5. /\ ResultsThen(s \o <<m>>, m.op) /\ s \o <<m>> \in Seq(Message)
      /\ Len(s \o <<m>>) = Len(s) + 1
  BY <1>1, ResultsMore, Zenon
<1>3. ResultsThen(s \o <<m>>, m.op) /\ s \o <<m>> \in Seq(Message) /\ Len(s \o <<m>>) = 2
  <2> DEFINE t == s \o <<m>>
  <2> HIDE DEF t
  <2>1. Len(t) = 2
    BY <1>1, <1>5 DEF t
  <2> QED
    BY <1>5, <2>1 DEF t
<1>4. o.etapa # "S" /\ m.op # "O" => NoStores(s \o <<m>>)
  BY <1>1, NoStoresMore
<1> QED
  BY <1>2, <1>3, <1>4

LEMMA ResultIs ==
    ASSUME NEW op \in Stage, NEW n \in Node, NEW b \in Block \cup {<<>>}
    PROVE  LET m == Result(op, n, b)
           IN  m \in Message /\ m.op = "O" /\ m.etapa = op /\ m.node = n /\ m.block = b
<1>1. Result(op, n, b) \in Message
  BY MessagesAre DEF Result
<1> QED
  BY <1>1 DEF Result

LEMMA ThreadsRun ==
    ASSUME NEW data
    PROVE  Running(ThreadsFor(data))
BY DEF Running, ThreadsFor

(* A master goes its course, step after step, while nothing fails.         *)
LEMMA AsksCalm ==
    ASSUME TypeInv, NEW fd \in FDs, Calm(fd), Asks(fd)
    PROVE  Calm(fd)'
<1>1. PICK arch \in Files : Moves(fd, <<[op |-> "T", file |-> arch]>>, "esperaT", {})
  BY Zenon DEF Asks
<1> DEFINE m == [op |-> "T", file |-> arch]
           ms == <<m>>
<1>2. m \in Message /\ m.op = "T"
  BY MessagesAre
<1> HIDE DEF m
<1>3. ResultsThen(ms, "T") /\ NoStores(ms)
  BY <1>2, OneMessage
<1> HIDE DEF ms
<1>4. OnCourse(ms, "esperaT", {})
  BY <1>3, StageNames DEF OnCourse, Stage
<1>5. Running({})
  BY DEF Running
<1> QED
  BY <1>1, <1>3, <1>4, <1>5, CalmIf, Zenon DEF m, ms

LEMMA StartsCalm ==
    ASSUME TypeInv, NEW fd \in FDs, Calm(fd), Starts(fd)
    PROVE  Calm(fd)'
<1>1. PICK e \in Stage : Moves(fd, <<>>, e, ThreadsFor(Head(salida[fd]).data))
  BY Zenon DEF Starts
<1>2. Results(<<>>) /\ NoStores(<<>>)
  BY DEF Results, NoStores
<1>3. \A H : OnCourse(<<>>, e, H)
  BY <1>2 DEF OnCourse, Stage
<1> QED
  BY <1>1, <1>2, <1>3, ThreadsRun, CalmIf, Zenon

LEMMA PendingMessages ==
    ASSUME TypeInv, NEW fd \in FDs, Calm(fd), pc[fd] \in {"T", "L"}
    PROVE  /\ pedidos[fd] \in Seq(Message) /\ Results(pedidos[fd]) /\ NoStores(pedidos[fd])
           /\ Running(hilos[fd])
<1>1. Results(pedidos[fd])
  BY CourseAt
<1>2. pc[fd] # "off"
  OBVIOUS
<1>3. NoStores(pedidos[fd])
  BY <1>2, Zenon DEF Calm, NoStores
<1>4. Running(hilos[fd])
  BY Zenon DEF Calm, Running
<1> QED
  BY <1>1, <1>3, <1>4 DEF TypeInv, SocketsOK

LEMMA BlockOf ==
    ASSUME TypeInv, NEW fd \in FDs, NEW h \in hilos[fd], NEW k \in DOMAIN h.tmps
    PROVE  h.nodo \in Node /\ h.tmps \in Seq(Block) /\ h.tmps[k] \in Block
<1>1. h.nodo \in Node /\ h.tmps \in Seq(Block)
  BY ThreadIs DEF TypeInv
<1> QED
  BY <1>1

LEMMA ReportsCalm ==
    ASSUME TypeInv, NEW fd \in FDs, Calm(fd), Transforms(fd) \/ Reduces(fd)
    PROVE  Calm(fd)'
<1>0. PICK e \in {"T", "L"}, n \in Node, b \in Block \cup {<<>>} :
        \E H : pc[fd] = e /\ Moves(fd, pedidos[fd] \o <<Result(e, n, b)>>, e, H) /\ Running(H)
  <2>1. ASSUME NEW h \in hilos[fd], NEW k \in DOMAIN h.tmps, pc[fd] = "T"
        PROVE  /\ h.nodo \in Node /\ h.tmps[k] \in Block \cup {<<>>}
               /\ Running(OneLess(hilos[fd], h, k))
    <3>1. h.nodo \in Node /\ h.tmps[k] \in Block
      BY BlockOf
    <3>2. \A g \in hilos[fd] : g.estado = "corre"
      BY Zenon DEF Calm
    <3>3. h \in Thread
      BY ThreadIs DEF TypeInv
    <3> DEFINE rest == RemoveAt(h.tmps, k)
    <3>4. [h EXCEPT !.tmps = rest].estado = "corre"
      BY <3>2, <3>3 DEF Thread
    <3> HIDE DEF rest
    <3>5. \A g \in (hilos[fd] \ {h}) \cup (IF rest = <<>> THEN {} ELSE {[h EXCEPT !.tmps = rest]}) :
            g.estado = "corre"
      BY <3>2, <3>4
    <3>6. Running(OneLess(hilos[fd], h, k))
      BY <3>5, Zenon DEF Running, OneLess, rest
    <3> QED
      BY <3>1, <3>6
  <2>2. CASE Transforms(fd)
    BY <2>1, <2>2, Zenon DEF Transforms
  <2>3. CASE Reduces(fd)
    <3>1. PICK h \in hilos[fd] : /\ pc[fd] = "L"
                                 /\ Moves(fd, pedidos[fd] \o <<Result("L", h.nodo, <<>>)>>, "L",
                                          hilos[fd] \ {h})
      BY <2>3, Zenon DEF Reduces
    <3>2. h.nodo \in Node
      BY ThreadIs DEF TypeInv
    <3>3. Running(hilos[fd] \ {h})
      BY Zenon DEF Calm, Running
    <3>4. <<>> \in Block \cup {<<>>}
      OBVIOUS
    <3> QED
      BY <3>1, <3>2, <3>3, <3>4, Zenon
  <2> QED
    BY <2>2, <2>3
<1>1. PICK H : pc[fd] = e /\ Moves(fd, pedidos[fd] \o <<Result(e, n, b)>>, e, H) /\ Running(H)
  BY <1>0, Zenon
<1> DEFINE m == Result(e, n, b)
           ms == pedidos[fd] \o <<m>>
<1>2. pedidos[fd] \in Seq(Message) /\ Results(pedidos[fd]) /\ NoStores(pedidos[fd])
  BY <1>1, PendingMessages
<1>3. m \in Message /\ m.op = "O" /\ m.etapa # "S"
  BY <1>1, ResultIs DEF Stage
<1> HIDE DEF m
<1>4. Results(ms) /\ NoStores(ms)
  BY <1>2, <1>3, ResultsMore, NoStoresMore
<1> HIDE DEF ms
<1>5. OnCourse(ms, e, H)
  BY <1>4, Zenon DEF OnCourse
<1>6. Moves(fd, ms, e, H)
  BY <1>1, Zenon DEF m, ms
<1> QED
  BY <1>1, <1>4, <1>5, <1>6, CalmIf, Zenon

LEMMA GoesOnCalm ==
    ASSUME TypeInv, NEW fd \in FDs, Calm(fd), GoesOn(fd)
    PROVE  Calm(fd)'
<1>1. PICK to \in {"L", "G"} : /\ pc[fd] \in {"T", "L"}
                               /\ Moves(fd, pedidos[fd] \o <<[op |-> to]>>, Stages[to], {})
  BY Zenon DEF GoesOn
<1> DEFINE m == [op |-> to]
           ms == pedidos[fd] \o <<m>>
<1>2. pedidos[fd] \in Seq(Message) /\ Results(pedidos[fd]) /\ NoStores(pedidos[fd])
  BY <1>1, PendingMessages
<1>3. m \in Message /\ m.op = to /\ m.op # "O" /\ to \in Stage
  BY MessagesAre DEF Stage
<1> HIDE DEF m
<1>4. ResultsThen(ms, to) /\ NoStores(ms)
  BY <1>2, <1>3, ResultsMore, NoStoresMore
<1> HIDE DEF ms
<1>5. OnCourse(ms, Stages[to], {})
  BY <1>3, <1>4, Zenon DEF OnCourse
<1>6. Running({})
  BY DEF Running
<1>7. Moves(fd, ms, Stages[to], {})
  BY <1>1, Zenon DEF m, ms
<1> QED
  BY <1>4, <1>5, <1>6, <1>7, CalmIf, Zenon

LEMMA EndsCalm ==
    ASSUME TypeInv, NEW fd \in FDs, Calm(fd), Ends(fd)
    PROVE  Calm(fd)'
<1>1. PICK last \in {"G", "S"}, h \in hilos[fd] :
        Moves(fd, <<Result(last, h.nodo, <<>>),
                    IF last = "G" THEN [op |-> "S"] ELSE [op |-> "FIN"]>>,
              IF last = "G" THEN "esperaS" ELSE "off", {})
  BY Zenon DEF Ends
<1> DEFINE o == Result(last, h.nodo, <<>>)
           m == IF last = "G" THEN [op |-> "S"] ELSE [op |-> "FIN"]
           l == IF last = "G" THEN "esperaS" ELSE "off"
           ms == <<o, m>>
<1>2. h.nodo \in Node /\ last \in Stage
  BY ThreadIs DEF TypeInv, Stage
<1>3. o \in Message /\ o.op = "O" /\ o.etapa = last
  BY <1>2, ResultIs
<1>4. m \in Message /\ m.op = (IF last = "G" THEN "S" ELSE "FIN")
  BY MessagesAre
<1> HIDE DEF o, m
<1>5. ResultsThen(ms, m.op) /\ Len(ms) = 2
  BY <1>3, <1>4, TwoMessages
<1>6. last = "G" => NoStores(ms)
  BY <1>3, <1>4, TwoMessages
<1> HIDE DEF ms
<1>7. OnCourse(ms, l, {})
  BY <1>4, <1>5, StageNames DEF OnCourse, Stage
<1>8. l # "off" => NoStores(ms)
  BY <1>6
<1>9. Running({})
  BY DEF Running
<1>10. Moves(fd, ms, l, {})
  BY <1>1, Zenon DEF ms, o, m
<1> QED
  BY <1>7, <1>8, <1>9, <1>10, CalmIf, Zenon

LEMMA WorksCalm ==
    ASSUME TypeInv, NEW fd \in FDs, Calm(fd), MasterStep(fd)
    PROVE  Calm(fd)' /\ Alone(fd)
<1>1. Alone(fd)
  BY CalmWorks DEF Asks, Starts, Transforms, Reduces, GoesOn, Ends, Moves
<1> QED
  BY <1>1, CalmWorks, AsksCalm, StartsCalm, ReportsCalm, GoesOnCalm, EndsCalm

(* The handlers by the message, when the FileSystem answers.               *)
Handles(fd, op) ==
    \/ op = "T" /\ ProcessTransformation(fd)
    \/ op = "L" /\ (ProcessLocalReduction(fd) \/ LocalReductionNotReady(fd))
    \/ op = "G" /\ (ProcessGlobalReduction(fd) \/ GlobalReductionRefused(fd) \/ StageNotReady(fd))
    \/ op = "S" /\ (ProcessFinalStore(fd) \/ StageNotReady(fd))
    \/ op = "O" /\ ProcessOk(fd)
    \/ op = "FIN" /\ MasterDisconnected(fd)
LEMMA HandlerOf ==
    ASSUME ~FSFails, NEW fd, GetMasterMessage(fd), Head(pedidos[fd]).op \notin {"E", "RST"}
    PROVE  Handles(fd, Head(pedidos[fd]).op)
<1> DEFINE op == Head(pedidos[fd]).op
<1>1. CASE ProcessTransformation(fd) \/ FileNotAvailable(fd)
  <2>1. op = "T" /\ ProcessTransformation(fd)
    BY <1>1, Zenon DEF ProcessTransformation, FileNotAvailable, Attend, Receive
  <2> QED
    BY <2>1, Zenon DEF Handles
<1>2. CASE ProcessLocalReduction(fd) \/ LocalReductionNotReady(fd)
  <2>1. op = "L"
    BY <1>2, Zenon DEF ProcessLocalReduction, LocalReductionNotReady, Attend, Receive
  <2> QED
    BY <1>2, <2>1, Zenon DEF Handles
<1>3. CASE ProcessGlobalReduction(fd) \/ GlobalReductionRefused(fd)
  <2>1. op = "G"
    BY <1>3, Zenon DEF ProcessGlobalReduction, GlobalReductionRefused, Attend, Receive
  <2> QED
    BY <1>3, <2>1, Zenon DEF Handles
<1>4. CASE ProcessFinalStore(fd)
  <2>1. op = "S"
    BY <1>4, Zenon DEF ProcessFinalStore, Attend, Receive
  <2> QED
    BY <1>4, <2>1, Zenon DEF Handles
<1>5. CASE StageNotReady(fd)
  <2>1. op = "S" \/ op = "G"
    BY <1>5, Zenon DEF StageNotReady, Attend, Receive
  <2> QED
    BY <1>5, <2>1, Zenon DEF Handles
<1>6. CASE ProcessOk(fd)
  <2>1. op = "O"
    BY <1>6, Zenon DEF ProcessOk, Attend, Receive
  <2> QED
    BY <1>6, <2>1, Zenon DEF Handles
<1>7. CASE MasterDisconnected(fd)
  <2>1. op = "FIN"
    BY <1>7, Zenon DEF MasterDisconnected, Attend, Receive
  <2> QED
    BY <1>7, <2>1, Zenon DEF Handles
<1>8. CASE ReplanTask(fd) \/ ReplanRefused(fd) \/ AbortJob(fd) \/ ErrorIgnored(fd)
  <2>1. op = "E"
    BY <1>8, Zenon DEF ReplanTask, ReplanRefused, AbortJob, ErrorIgnored, NodeFailed, Attend, Receive
  <2> QED
    BY <2>1
<1>9. CASE MasterReset(fd)
  <2>1. op = "RST"
    BY <1>9, Zenon DEF MasterReset, Attend, Receive
  <2> QED
    BY <2>1
<1> QED
  BY <1>1, <1>2, <1>3, <1>4, <1>5, <1>6, <1>7, <1>8, <1>9, Zenon DEF GetMasterMessage

(* What a handler replies, if anything, is the stage it was asked for.     *)
Replies(fd, op) == \E data : Respond(fd, op, data)
LEMMA RepliesIs ==
    ASSUME NEW fd, NEW op, Handles(fd, op)
    PROVE  /\ abiertos' = abiertos
           /\ salida' = salida \/ (op \in Stage /\ Replies(fd, op))
<1>1. CASE op = "T" /\ ProcessTransformation(fd)
  BY <1>1, Zenon DEF ProcessTransformation, Crash, Replies, Stage
<1>2. CASE op = "L" /\ (ProcessLocalReduction(fd) \/ LocalReductionNotReady(fd))
  BY <1>2, Zenon DEF ProcessLocalReduction, LocalReductionNotReady, Crash, Replies, Stage
<1>3. CASE op = "G" /\ (ProcessGlobalReduction(fd) \/ GlobalReductionRefused(fd) \/ StageNotReady(fd))
  BY <1>3, Zenon DEF ProcessGlobalReduction, GlobalReductionRefused, StageNotReady, Crash, Replies, Stage
<1>4. CASE op = "S" /\ (ProcessFinalStore(fd) \/ StageNotReady(fd))
  BY <1>4, Zenon DEF ProcessFinalStore, StageNotReady, Crash, Replies, Stage
<1>5. CASE op = "O" /\ ProcessOk(fd)
  BY <1>5, Zenon DEF ProcessOk
<1>6. CASE op = "FIN" /\ MasterDisconnected(fd)
  BY <1>6, Zenon DEF MasterDisconnected
<1> QED
  BY <1>1, <1>2, <1>3, <1>4, <1>5, <1>6, Zenon DEF Handles

(* YAMA attends one message of a master: what is left, and what it answers.*)
Answers(fd, ss) ==
    /\ pedidos[fd] # <<>> /\ pedidos'[fd] = Tail(pedidos[fd]) /\ salida'[fd] = ss
    /\ Alone(fd) /\ abiertos' = abiertos /\ UNCHANGED masterVars
LEMMA AnswersIs ==
    ASSUME ~FSFails, TypeInv, NEW fd \in FDs, Calm(fd), GetMasterMessage(fd),
           UNCHANGED masterVars, Head(pedidos[fd]).op \notin {"E", "RST"}
    PROVE  LET op == Head(pedidos[fd]).op
           IN  /\ Handles(fd, op)
               /\ \/ Answers(fd, salida[fd])
                  \/ /\ op \in Stage /\ pc[fd] # "off"
                     /\ \E data : Answers(fd, Append(salida[fd], [op |-> op, data |-> data]))
<1> DEFINE op == Head(pedidos[fd]).op
<1>1. Handles(fd, op)
  BY HandlerOf
<1>2. abiertos' = abiertos /\ (salida' = salida \/ (op \in Stage /\ Replies(fd, op)))
  BY <1>1, RepliesIs
<1>3. pedidos[fd] # <<>> /\ pedidos' = [pedidos EXCEPT ![fd] = Tail(pedidos[fd])]
  BY YamaLinkShape
<1> HIDE DEF op
<1>4. DOMAIN pedidos = FDs /\ DOMAIN salida = FDs
  BY DEF TypeInv, SocketsOK
<1>5. pedidos'[fd] = Tail(pedidos[fd]) /\ \A e \in FDs \ {fd} : pedidos'[e] = pedidos[e]
  BY <1>3, <1>4
<1>6. ASSUME NEW ss, salida' = [salida EXCEPT ![fd] = ss]
      PROVE  Answers(fd, ss)
  <2>1. salida'[fd] = ss /\ \A e \in FDs \ {fd} : salida'[e] = salida[e]
    BY <1>4, <1>6
  <2>2. Alone(fd)
    BY <1>2, <1>5, <2>1 DEF Alone, masterVars
  <2> QED
    BY <1>2, <1>3, <1>5, <2>1, <2>2 DEF Answers
<1>7. salida = [salida EXCEPT ![fd] = salida[fd]]
  BY DEF TypeInv, SocketsOK
<1>8. CASE salida' = salida
  BY <1>1, <1>6, <1>7, <1>8, Zenon DEF op
<1>9. CASE op \in Stage /\ Replies(fd, op) /\ pc[fd] # "off"
  <2>1. fd \in abiertos
    BY <1>9 DEF Calm
  <2>2. PICK data : Respond(fd, op, data)
    BY <1>9, Zenon DEF Replies
  <2> DEFINE r == [op |-> op, data |-> data]
  <2>3. salida' = [salida EXCEPT ![fd] = Append(salida[fd], r)]
    BY <2>1, <2>2, Zenon DEF Respond
  <2> HIDE DEF r
  <2>4. Answers(fd, Append(salida[fd], r))
    BY <1>6, <2>3
  <2> QED
    BY <1>1, <1>9, <2>4, Zenon DEF op, r
<1>10. CASE op \in Stage /\ pc[fd] = "off"
  <2>1. ResultsThen(pedidos[fd], "FIN")
    BY <1>3, <1>10, CourseAt
  <2>2. pedidos[fd] \in Seq(Message)
    BY DEF TypeInv, SocketsOK
  <2>3. op \in {"O", "FIN"}
    BY <1>3, <2>1, <2>2, ResultsTail DEF op
  <2> QED
    BY <1>10, <2>3 DEF Stage
<1> QED
  BY <1>2, <1>8, <1>9, <1>10

(* The next message of a master that goes its course.                      *)
LEMMA CalmHead ==
    ASSUME TypeInv, NEW fd \in FDs, Calm(fd), pedidos[fd] # <<>>
    PROVE  LET op == Head(pedidos[fd]).op
               rest == Tail(pedidos[fd])
           IN  /\ op \in Stage \cup {"O", "FIN"} /\ rest \in Seq(Message)
               /\ NoStores(pedidos[fd]) => NoStores(rest)
               /\ salida[fd] = <<>>
               /\ op = "O" => \/ pc[fd] \in {"T", "L"} /\ Results(rest)
                              \/ \E e \in Stage : pc[fd] = Stages[e] /\ ResultsThen(rest, e)
                              \/ pc[fd] = "off" /\ ResultsThen(rest, "FIN") /\ Len(rest) = 1
               /\ op # "O" => rest = <<>> /\ hilos[fd] = {}
               /\ op \in Stage => pc[fd] = Stages[op]
               /\ op = "FIN" => pc[fd] = "off"
<1> DEFINE s == pedidos[fd]
           op == Head(s).op
           rest == Tail(s)
<1>1. s \in Seq(Message) /\ s # <<>>
  BY DEF TypeInv, SocketsOK
<1>2. /\ Results(s) => op = "O" /\ Results(rest)
      /\ \A x : ResultsThen(s, x) =>
           \/ Len(s) = 1 /\ op = x /\ rest = <<>>
           \/ Len(s) > 1 /\ op = "O" /\ ResultsThen(rest, x)
  BY <1>1, ResultsTail
<1>3. /\ rest \in Seq(Message) /\ Len(rest) = Len(s) - 1 /\ Len(s) \in Nat \ {0}
      /\ \A k \in DOMAIN rest : k + 1 \in DOMAIN s /\ rest[k] = s[k + 1]
  BY <1>1, TailIs
<1>4. NoStores(s) => NoStores(rest)
  BY <1>3 DEF NoStores
<1>5. "O" \notin Stage /\ "FIN" \notin Stage
  BY DEF Stage
<1> HIDE DEF s, op, rest
<1>6. CASE pc[fd] = "off"
  <2>1. ResultsThen(s, "FIN") /\ Len(s) <= 2 /\ hilos[fd] = {} /\ salida[fd] = <<>>
    BY <1>1, <1>6, CourseAt DEF s
  <2>2. \A e \in Stage : pc[fd] # Stages[e]
    BY <1>6, StageNames DEF Stage
  <2>3. Len(s) > 1 => Len(rest) = 1
    BY <1>3, <2>1
  <2> QED
    BY <1>2, <1>3, <1>4, <1>5, <1>6, <2>1, <2>3 DEF s, op, rest
<1>7. CASE pc[fd] \in {"T", "L"}
  <2>1. salida[fd] = <<>> /\ Results(s)
    BY <1>7, CourseAt DEF s
  <2> QED
    BY <1>2, <1>3, <1>4, <1>5, <1>7, <2>1 DEF s, op, rest
<1>8. CASE \E e \in Stage : pc[fd] = Stages[e]
  <2>1. PICK e \in Stage : pc[fd] = Stages[e]
    BY <1>8
  <2>2. Waits(fd, e)
    BY <2>1, CourseAt
  <2>3. hilos[fd] = {} /\ ResultsThen(s, e) /\ salida[fd] = <<>>
    BY <1>1, <2>2, Zenon DEF Waits, s
  <2> QED
    BY <1>2, <1>3, <1>4, <1>5, <2>1, <2>3 DEF s, op, rest
<1>9. pc[fd] \notin {"conectado", "G", "S"}
  BY <1>1, CourseAt DEF s
<1>10. pc[fd] \in {"off", "conectado", "T", "L", "G", "S"} \cup {Stages[e] : e \in Stage}
  BY CourseAt
<1> QED
  BY <1>6, <1>7, <1>8, <1>9, <1>10

LEMMA ServedCalm ==
    ASSUME ~FSFails, TypeInv, NEW fd \in FDs, Calm(fd), GetMasterMessage(fd),
           UNCHANGED masterVars
    PROVE  Calm(fd)' /\ Alone(fd)
<1> DEFINE op == Head(pedidos[fd]).op
           rest == Tail(pedidos[fd])
<1>1. pedidos[fd] # <<>>
  BY YamaLinkShape
<1>2. /\ op \in Stage \cup {"O", "FIN"}
      /\ NoStores(pedidos[fd]) => NoStores(rest)
      /\ salida[fd] = <<>>
      /\ op = "O" => \/ pc[fd] \in {"T", "L"} /\ Results(rest)
                     \/ \E e \in Stage : pc[fd] = Stages[e] /\ ResultsThen(rest, e)
                     \/ pc[fd] = "off" /\ ResultsThen(rest, "FIN") /\ Len(rest) = 1
      /\ op # "O" => rest = <<>> /\ hilos[fd] = {}
      /\ op \in Stage => pc[fd] = Stages[op]
      /\ op = "FIN" => pc[fd] = "off"
  BY <1>1, CalmHead
<1>3. op \notin {"E", "RST"}
  BY <1>2 DEF Stage
<1>4. \/ Answers(fd, salida[fd])
      \/ op \in Stage /\ \E data : Answers(fd, Append(salida[fd], [op |-> op, data |-> data]))
  BY <1>3, AnswersIs
<1> HIDE DEF op, rest
<1>5. PICK ss : /\ Answers(fd, ss)
                /\ ss = <<>> \/ (op \in Stage /\ Len(ss) = 1 /\ Head(ss).op = op)
  <2>1. CASE Answers(fd, salida[fd])
    BY <1>2, <2>1
  <2>2. CASE op \in Stage /\ \E data : Answers(fd, Append(salida[fd], [op |-> op, data |-> data]))
    <3>1. PICK data : Answers(fd, Append(salida[fd], [op |-> op, data |-> data]))
      BY <2>2
    <3> DEFINE r == [op |-> op, data |-> data]
    <3>2. r.op = op
      OBVIOUS
    <3> HIDE DEF r
    <3>3. Append(salida[fd], r) = <<r>>
      BY <1>2
    <3>4. Len(<<r>>) = 1 /\ Head(<<r>>) = r
      OBVIOUS
    <3>5. Answers(fd, <<r>>)
      BY <3>1, <3>3, Zenon DEF r
    <3> QED
      BY <2>2, <3>2, <3>4, <3>5
  <2> QED
    BY <1>4, <2>1, <2>2
<1>6. /\ pedidos'[fd] = rest /\ salida'[fd] = ss /\ Alone(fd) /\ abiertos' = abiertos
      /\ pc' = pc /\ hilos' = hilos /\ leido' = leido /\ replanification' = replanification
      /\ abortJob' = abortJob
  BY <1>5 DEF Answers, masterVars, rest
<1>7. Course(fd)'
  <2>1. CASE op = "O"
    <3>1. ss = <<>>
      BY <1>5, <2>1 DEF Stage
    <3>2. \/ pc[fd] \in {"T", "L"} /\ Results(rest)
          \/ \E e \in Stage : pc[fd] = Stages[e] /\ ResultsThen(rest, e)
          \/ pc[fd] = "off" /\ ResultsThen(rest, "FIN") /\ Len(rest) = 1
      BY <1>2, <2>1
    <3>3. CASE pc[fd] \in {"T", "L"} /\ Results(rest)
      BY <1>6, <3>1, <3>3, Zenon DEF Course
    <3>4. CASE \E e \in Stage : pc[fd] = Stages[e] /\ ResultsThen(rest, e)
      <4>1. PICK e \in Stage : pc[fd] = Stages[e] /\ ResultsThen(rest, e)
        BY <3>4
      <4>2. hilos[fd] = {}
        BY <4>1, CourseAt DEF Waits
      <4>3. Waits(fd, e)'
        BY <1>6, <3>1, <4>1, <4>2, Zenon DEF Waits
      <4> QED
        BY <4>3, Zenon DEF Course
    <3>5. CASE pc[fd] = "off" /\ ResultsThen(rest, "FIN") /\ Len(rest) = 1
      <4>1. hilos[fd] = {}
        BY <3>5, CourseAt
      <4>2. Len(rest) <= 2
        BY <3>5
      <4> QED
        BY <1>6, <3>1, <3>5, <4>1, <4>2, Zenon DEF Course
    <3> QED
      BY <3>2, <3>3, <3>4, <3>5
  <2>2. CASE op \in Stage
    <3>1. rest = <<>> /\ hilos[fd] = {} /\ pc[fd] = Stages[op]
      BY <1>2, <2>2 DEF Stage
    <3>2. ss # <<>> => Len(ss) = 1 /\ Head(ss).op = op
      BY <1>5
    <3>3. PICK x \in Stage : x = op
      BY <2>2
    <3>4. Waits(fd, x)'
      BY <1>6, <3>1, <3>2, <3>3, Zenon DEF Waits
    <3> QED
      BY <3>4, Zenon DEF Course
  <2>3. CASE op = "FIN"
    <3>1. rest = <<>> /\ hilos[fd] = {} /\ pc[fd] = "off" /\ ss = <<>>
      BY <1>2, <1>5, <2>3 DEF Stage
    <3> QED
      BY <1>6, <3>1, Zenon DEF Course
  <2> QED
    BY <1>2, <2>1, <2>2, <2>3
<1>8. pc[fd] # "off" => NoStores(pedidos'[fd])
  BY <1>2, <1>6, Zenon DEF Calm, NoStores
<1>9. Calm(fd)'
  BY <1>6, <1>7, <1>8, Zenon DEF Calm, NoStores
<1> QED
  BY <1>6, <1>9

LEMMA ConnectCalm ==
    ASSUME TypeInv, LinkInv, NEW fd \in FDs, MasterConnects(fd), Calm(fd)
    PROVE  Calm(fd)' /\ Alone(fd) /\ faults' = faults
<1>1. fd \notin conectados
  BY DEF MasterConnects, AcceptMasterConnection
<1>5. Link(fd)
  BY DEF LinkInv
<1>6. pc[fd] = "off" /\ pedidos[fd] = <<>>
  BY <1>1, <1>5, Zenon DEF Link
<1>3. hilos[fd] = {} /\ salida[fd] = <<>>
  BY <1>6, CourseAt
<1>2. pc[fd] = "off" /\ pedidos[fd] = <<>> /\ salida[fd] = <<>>
  BY <1>3, <1>6
<1>4. /\ pc' = [pc EXCEPT ![fd] = "conectado"] /\ abiertos' = abiertos \cup {fd}
      /\ pedidos' = pedidos /\ salida' = salida /\ hilos' = hilos /\ leido' = leido
      /\ replanification' = replanification /\ abortJob' = abortJob /\ faults' = faults
  BY Zenon DEF MasterConnects, AcceptMasterConnection, GoTo
<1>7. pc'[fd] = "conectado" /\ \A e \in FDs \ {fd} : pc'[e] = pc[e]
  BY <1>4 DEF TypeInv, MasterOK
<1>8. Alone(fd)
  BY <1>4, <1>7 DEF Alone
<1>9. Course(fd)'
  BY <1>2, <1>3, <1>4, <1>7 DEF Course
<1>10. Calm(fd)'
  BY <1>2, <1>3, <1>4, <1>7, <1>9 DEF Calm
<1> QED
  BY <1>4, <1>8, <1>10

LEMMA SameCalm ==
    ASSUME NEW fd \in FDs, Calm(fd),
           UNCHANGED <<pedidos, salida, abiertos, pc, hilos, leido, replanification, abortJob>>
    PROVE  Calm(fd)'
<1>1. Course(fd)'
  BY Zenon DEF Course, Waits, Calm
<1> QED
  BY <1>1, Zenon DEF Calm

(* One actor moves and the others stay calm.                               *)
LEMMA AllCalm ==
    ASSUME NEW fd \in FDs, Alone(fd), Calm(fd)', \A e \in FDs : Calm(e)
    PROVE  \A e \in FDs : Calm(e)'
<1>1. ASSUME NEW e \in FDs PROVE Calm(e)'
  <2>1. CASE e = fd
    BY <2>1
  <2>2. CASE e # fd
    BY <2>2, OthersCalm
  <2> QED
    BY <2>1, <2>2
<1> QED
  BY <1>1

LEMMA InitCalm == Init => CalmInv
<1> SUFFICES ASSUME Init, NEW fd \in FDs PROVE Calm(fd)
  BY DEF CalmInv
<1>1. /\ pedidos[fd] = <<>> /\ salida[fd] = <<>> /\ pc[fd] = "off" /\ hilos[fd] = {}
      /\ leido[fd] = 0 /\ ~replanification[fd] /\ ~abortJob[fd]
  BY DEF Init, SocketsInit, MasterInit
<1> QED
  BY <1>1 DEF Calm, Course

LEMMA NextCalm ==
    ASSUME ~FSFails, TypeInv, LinkInv, CalmInv, [Next]_vars
    PROVE  CalmInv'
<1> SUFFICES ASSUME faults' = 0 PROVE \A e \in FDs : Calm(e)'
  BY DEF CalmInv
<1>1. CASE \E fd \in FDs : MasterFails(fd)
  <2>1. PICK fd \in FDs : MasterFault(fd)
    BY <1>1 DEF MasterFails
  <2>2. faults' > 0
    BY <2>1, FaultsGrow DEF TypeInv
  <2> QED
    BY <2>2
<1>2. CASE \E fd \in FDs : MasterConnects(fd)
  <2>1. PICK fd \in FDs : MasterConnects(fd)
    BY <1>2
  <2>2. faults' = faults
    BY <2>1 DEF MasterConnects
  <2>3. \A e \in FDs : Calm(e)
    BY <2>2 DEF CalmInv
  <2>4. Calm(fd)' /\ Alone(fd)
    BY <2>1, <2>3, ConnectCalm
  <2> QED
    BY <2>3, <2>4, AllCalm
<1>3. CASE \E fd \in FDs : MasterWorks(fd)
  <2>1. PICK fd \in FDs : MasterStep(fd)
    BY <1>3 DEF MasterWorks
  <2>2. faults' = faults
    BY <2>1, FaultsKept
  <2>3. \A e \in FDs : Calm(e)
    BY <2>2 DEF CalmInv
  <2>4. Calm(fd)' /\ Alone(fd)
    BY <2>1, <2>3, WorksCalm
  <2> QED
    BY <2>3, <2>4, AllCalm
<1>4. CASE \E fd \in FDs : YamaStep(fd)
  <2>1. PICK fd \in FDs : GetMasterMessage(fd) /\ UNCHANGED masterVars
    BY <1>4 DEF YamaStep
  <2>2. faults' = faults
    BY <2>1 DEF masterVars
  <2>3. \A e \in FDs : Calm(e)
    BY <2>2 DEF CalmInv
  <2>4. Calm(fd)' /\ Alone(fd)
    BY <2>1, <2>3, ServedCalm
  <2> QED
    BY <2>3, <2>4, AllCalm
<1>5. CASE (\E c \in Configs : ReloadConfig(c) /\ UNCHANGED masterVars) \/ UNCHANGED vars
  <2>1. /\ UNCHANGED <<pedidos, salida, abiertos, pc, hilos, leido, replanification, abortJob>>
        /\ faults' = faults
    BY <1>5, Zenon DEF ReloadConfig, vars, yamaVars, sockets, masterVars
  <2>2. \A e \in FDs : Calm(e)
    BY <2>1 DEF CalmInv
  <2> QED
    BY <2>1, <2>2, SameCalm
<1> QED
  BY <1>1, <1>2, <1>3, <1>4, <1>5, Zenon DEF Next

(* While nothing fails and requests do not overlap a master has one job in *)
(* process at most, none before its request, and ids are of one job.       *)
OneActive == \A i, j \in ActiveJobs : tabla_jobs[i].master = tabla_jobs[j].master => i = j
ActiveConnected ==
    \A i \in ActiveJobs : /\ tabla_jobs[i].master \in conectados
                          /\ ~Greeting(tabla_jobs[i].master)
IdsApart == \A i, j \in DOMAIN tabla_jobs : tabla_jobs[i].id = tabla_jobs[j].id => i = j
OneGreets == \A fd, e \in FDs : Greeting(fd) /\ Greeting(e) => fd = e
IdsBefore == \A fd \in FDs : Greeting(fd) => \A j \in DOMAIN tabla_jobs : tabla_jobs[j].id < jobs
JobsInv == OneActive /\ ActiveConnected /\ IdsApart /\ OneGreets /\ IdsBefore

(* The jobs keep their masters and ids, and none becomes active.           *)
JobsKeep ==
    /\ DOMAIN tabla_jobs' = DOMAIN tabla_jobs
    /\ \A i \in DOMAIN tabla_jobs :
          /\ tabla_jobs'[i].id = tabla_jobs[i].id
          /\ tabla_jobs'[i].master = tabla_jobs[i].master
          /\ tabla_jobs'[i].estado = "P" => tabla_jobs[i].estado = "P"
MastersStay ==
    \A i \in DOMAIN tabla_jobs :
       /\ tabla_jobs'[i].estado = "P" /\ tabla_jobs[i].master \in conectados
       => tabla_jobs[i].master \in conectados'

LEMMA JobFields ==
    ASSUME Tables, NEW i \in DOMAIN tabla_jobs
    PROVE  tabla_jobs[i].id \in Nat /\ tabla_jobs[i].master \in FDs
<1>1. tabla_jobs[i] \in Job
  BY DEF Tables
<1> QED
  BY <1>1 DEF Job

LEMMA KeptJobs ==
    ASSUME Tables, JobsInv, JobsKeep, MastersStay, jobs' = jobs, NoNewGreeting
    PROVE  JobsInv'
<1>1. \A i \in ActiveJobs' : i \in ActiveJobs /\ tabla_jobs'[i].master = tabla_jobs[i].master
  BY DEF ActiveJobs, JobsKeep
<1>2. OneActive'
  BY <1>1, Zenon DEF OneActive, JobsInv
<1>3. \A i \in ActiveJobs' : tabla_jobs'[i].master \in FDs /\ i \in DOMAIN tabla_jobs
  BY <1>1, JobFields DEF ActiveJobs
<1>4. ASSUME NEW i \in ActiveJobs'
      PROVE  tabla_jobs'[i].master \in conectados' /\ ~Greeting(tabla_jobs[i].master)'
  <2> DEFINE e == tabla_jobs[i].master
  <2>1. i \in ActiveJobs /\ tabla_jobs'[i].master = e /\ e \in FDs /\ i \in DOMAIN tabla_jobs
    BY <1>1, <1>3
  <2>2. tabla_jobs'[i].estado = "P"
    BY DEF ActiveJobs
  <2>3. e \in conectados /\ ~Greeting(e)
    BY <2>1 DEF JobsInv, ActiveConnected
  <2>4. e \in conectados'
    BY <2>1, <2>2, <2>3 DEF MastersStay
  <2>5. PICK x \in FDs : x = tabla_jobs'[i].master
    BY <2>1
  <2>6. ~Greeting(x)'
    BY <2>1, <2>3, <2>5 DEF NoNewGreeting
  <2> QED
    BY <2>1, <2>4, <2>5, <2>6 DEF Greeting
<1>5. ActiveConnected'
  BY <1>4, Zenon DEF ActiveConnected
<1>6. IdsApart'
  BY DEF IdsApart, JobsInv, JobsKeep
<1>7. OneGreets'
  BY Zenon DEF OneGreets, JobsInv, NoNewGreeting
<1>8. IdsBefore'
  BY DEF IdsBefore, JobsInv, NoNewGreeting, JobsKeep
<1> QED
  BY <1>2, <1>5, <1>6, <1>7, <1>8 DEF JobsInv

LEMMA NewJobKept ==
    ASSUME Tables, JobsInv, NEW fd \in FDs, Greeting(fd), ~Greeting(fd)', fd \in conectados,
           conectados' = conectados, tabla_jobs' = Append(tabla_jobs, NewJob(fd)),
           jobs' = jobs, NoNewGreeting
    PROVE  JobsInv'
<1> DEFINE n == Len(tabla_jobs) + 1
           nj == NewJob(fd)
<1>1. /\ nj \in Job /\ nj.id = jobs /\ nj.master = fd /\ nj.estado = "P"
      /\ tabla_jobs \in Seq(Job)
  BY NewJobIs DEF Tables
<1> HIDE DEF nj
<1>2. /\ n \in Nat /\ DOMAIN tabla_jobs = 1 .. n - 1 /\ n \notin DOMAIN tabla_jobs
      /\ DOMAIN tabla_jobs' = DOMAIN tabla_jobs \cup {n} /\ tabla_jobs'[n] = nj
      /\ \A i \in DOMAIN tabla_jobs : tabla_jobs'[i] = tabla_jobs[i]
  BY <1>1 DEF nj
<1> HIDE DEF n
<1>3. /\ \A i \in DOMAIN tabla_jobs : tabla_jobs[i].id < jobs
      /\ \A i \in ActiveJobs : tabla_jobs[i].master # fd
  BY DEF JobsInv, IdsBefore, ActiveConnected
<1>4. /\ ActiveJobs' = ActiveJobs \cup {n} /\ ActiveJobs \subseteq DOMAIN tabla_jobs
      /\ \A i \in ActiveJobs : i # n /\ tabla_jobs'[i].master = tabla_jobs[i].master
  BY <1>1, <1>2 DEF ActiveJobs
<1>5. OneActive'
  <2>1. tabla_jobs'[n].master = fd
    BY <1>1, <1>2
  <2>2. ASSUME NEW i \in ActiveJobs', NEW j \in ActiveJobs',
               tabla_jobs'[i].master = tabla_jobs'[j].master
        PROVE  i = j
    <3>1. (i \in ActiveJobs \/ i = n) /\ (j \in ActiveJobs \/ j = n)
      BY <1>4
    <3>2. \A x, y \in ActiveJobs : tabla_jobs[x].master = tabla_jobs[y].master => x = y
      BY DEF JobsInv, OneActive
    <3> QED
      BY <1>3, <1>4, <2>1, <2>2, <3>1, <3>2
  <2> QED
    BY <2>2, Zenon DEF OneActive
<1>6. ASSUME NEW i \in ActiveJobs'
      PROVE  tabla_jobs'[i].master \in conectados' /\ ~Greeting(tabla_jobs[i].master)'
  <2>1. PICK x \in FDs : x = tabla_jobs'[i].master
    <3>1. i = n \/ (i \in DOMAIN tabla_jobs /\ tabla_jobs'[i] = tabla_jobs[i])
      BY <1>2, <1>4
    <3>2. \A j \in DOMAIN tabla_jobs : tabla_jobs[j].master \in FDs
      BY JobFields
    <3> QED
      BY <1>1, <1>2, <3>1, <3>2
  <2>2. x \in conectados' /\ ~Greeting(x)'
    <3>1. CASE i = n
      BY <1>1, <1>2, <2>1, <3>1
    <3>2. CASE i \in ActiveJobs
      <4>1. x \in conectados /\ ~Greeting(x)
        BY <1>4, <2>1, <3>2 DEF JobsInv, ActiveConnected
      <4> QED
        BY <4>1 DEF NoNewGreeting
    <3> QED
      BY <1>4, <3>1, <3>2
  <2> QED
    BY <2>1, <2>2 DEF Greeting
<1>7. ActiveConnected'
  BY <1>6, Zenon DEF ActiveConnected
<1>8. IdsApart'
  <2>1. \A i, j \in DOMAIN tabla_jobs : tabla_jobs[i].id = tabla_jobs[j].id => i = j
    BY DEF JobsInv, IdsApart
  <2>2. jobs \in Nat /\ \A i \in DOMAIN tabla_jobs : tabla_jobs[i].id \in Nat
    BY JobFields DEF Tables
  <2>3. \A i \in DOMAIN tabla_jobs : tabla_jobs[i].id # jobs
    BY <1>3, <2>2
  <2> QED
    BY <1>1, <1>2, <2>1, <2>3 DEF IdsApart
<1>9. OneGreets'
  BY Zenon DEF OneGreets, JobsInv, NoNewGreeting
<1>10. IdsBefore'
  <2>1. \A e \in FDs : Greeting(e)' => e = fd
    BY DEF JobsInv, OneGreets, NoNewGreeting
  <2> QED
    BY <2>1, Zenon DEF IdsBefore
<1> QED
  BY <1>5, <1>7, <1>8, <1>9, <1>10 DEF JobsInv

LEMMA SetJobKeeps ==
    ASSUME Tables, NEW fd, NEW e, HasJob(fd, e), NEW j \in Job, SetJob(fd, e, j),
           j.id = JobOf(fd, e).id, j.master = fd
    PROVE  JobsKeep
<1>1. tabla_jobs \in Seq(Job)
  BY DEF Tables
<1> DEFINE i == GetJobIndex(fd, e)
<1>2. /\ i \in DOMAIN tabla_jobs /\ JobOf(fd, e) = tabla_jobs[i]
      /\ JobOf(fd, e).master = fd /\ JobOf(fd, e).estado = "P"
  BY <1>1, JobOfIs
<1>3. /\ DOMAIN tabla_jobs' = DOMAIN tabla_jobs /\ tabla_jobs'[i] = j
      /\ \A k \in DOMAIN tabla_jobs : k # i => tabla_jobs'[k] = tabla_jobs[k]
  BY <1>1, SetJobIs
<1> HIDE DEF i
<1> QED
  BY <1>2, <1>3 DEF JobsKeep

LEMMA SameJobsKeep ==
    ASSUME tabla_jobs' = tabla_jobs
    PROVE  JobsKeep
BY DEF JobsKeep
LEMMA SameMastersStay ==
    ASSUME conectados' = conectados
    PROVE  MastersStay
BY DEF MastersStay

(* A request that moves the job of fd from a stage to another.             *)
MovesJob(fd, from, to) ==
    HasJob(fd, from) /\ SetJob(fd, from, [JobOf(fd, from) EXCEPT !.etapa = to])
LEMMA MovesJobKeeps ==
    ASSUME Tables, NEW fd, NEW from, NEW to \in Stage, MovesJob(fd, from, to)
    PROVE  JobsKeep
<1>1. tabla_jobs \in Seq(Job) /\ HasJob(fd, from)
  BY DEF Tables, MovesJob
<1>2. JobOf(fd, from) \in Job /\ JobOf(fd, from).master = fd
  BY <1>1, JobOfIs
<1> DEFINE j == [JobOf(fd, from) EXCEPT !.etapa = to]
<1>3. j \in Job /\ j.id = JobOf(fd, from).id /\ j.master = fd
  BY <1>2, JobRewritten
<1>4. SetJob(fd, from, j)
  BY DEF MovesJob
<1> HIDE DEF j
<1> QED
  BY <1>1, <1>3, <1>4, SetJobKeeps

(* What the handlers do with the jobs.                                     *)
LEMMA HandlesJobs ==
    ASSUME Tables, NEW fd \in FDs, NEW op, Handles(fd, op)
    PROVE  \/ op = "T" /\ tabla_jobs' = Append(tabla_jobs, NewJob(fd)) /\ conectados' = conectados
           \/ JobsKeep /\ MastersStay
<1>1. CASE op = "T" /\ ProcessTransformation(fd)
  <2>1. \/ tabla_jobs' = Append(tabla_jobs, NewJob(fd)) /\ conectados' = conectados
        \/ tabla_jobs' = tabla_jobs /\ conectados' = conectados
    BY <1>1, Zenon DEF ProcessTransformation, Crash
  <2> QED
    BY <1>1, <2>1, SameJobsKeep, SameMastersStay, Zenon
<1>2. CASE LocalReductionNotReady(fd) \/ StageNotReady(fd)
  <2>1. tabla_jobs' = tabla_jobs /\ conectados' = conectados
    BY <1>2, Zenon DEF LocalReductionNotReady, StageNotReady, Crash
  <2> QED
    BY <2>1, SameJobsKeep, SameMastersStay
<1>3. CASE ProcessLocalReduction(fd)
  <2>1. MovesJob(fd, "T", "L") /\ conectados' = conectados
    BY <1>3, Zenon DEF ProcessLocalReduction, MovesJob
  <2>2. "L" \in Stage
    BY DEF Stage
  <2> QED
    BY <2>1, <2>2, MovesJobKeeps, SameMastersStay
<1>4. CASE ProcessGlobalReduction(fd) \/ GlobalReductionRefused(fd)
  <2>1. MovesJob(fd, "L", "G") /\ conectados' = conectados
    BY <1>4, Zenon DEF ProcessGlobalReduction, GlobalReductionRefused, MovesJob
  <2>2. "G" \in Stage
    BY DEF Stage
  <2> QED
    BY <2>1, <2>2, MovesJobKeeps, SameMastersStay
<1>5. CASE ProcessFinalStore(fd)
  <2>1. MovesJob(fd, "G", "S") /\ conectados' = conectados
    BY <1>5, Zenon DEF ProcessFinalStore, MovesJob
  <2>2. "S" \in Stage
    BY DEF Stage
  <2> QED
    BY <2>1, <2>2, MovesJobKeeps, SameMastersStay
<1>6. CASE ProcessOk(fd)
  <2> DEFINE e == Head(pedidos[fd]).etapa
  <2>1. /\ conectados' = conectados
        /\ \/ tabla_jobs' = tabla_jobs
           \/ HasJob(fd, "S") /\ SetJob(fd, "S", [JobOf(fd, "S") EXCEPT !.estado = "F"])
    BY <1>6, Zenon DEF ProcessOk
  <2>2. CASE HasJob(fd, "S") /\ SetJob(fd, "S", [JobOf(fd, "S") EXCEPT !.estado = "F"])
    <3>1. tabla_jobs \in Seq(Job)
      BY DEF Tables
    <3>2. JobOf(fd, "S") \in Job /\ JobOf(fd, "S").master = fd
      BY <2>2, <3>1, JobOfIs
    <3> DEFINE j == [JobOf(fd, "S") EXCEPT !.estado = "F"]
    <3>3. j \in Job /\ j.id = JobOf(fd, "S").id /\ j.master = fd
      BY <3>2, JobRewritten
    <3>4. SetJob(fd, "S", j) /\ HasJob(fd, "S")
      BY <2>2
    <3> HIDE DEF j
    <3>5. JobsKeep
      BY <3>3, <3>4, SetJobKeeps
    <3> QED
      BY <2>1, <3>5, SameMastersStay
  <2> QED
    BY <2>1, <2>2, SameJobsKeep, SameMastersStay
<1>7. CASE MasterDisconnected(fd)
  <2> DEFINE mine == {i \in DOMAIN tabla_jobs : /\ tabla_jobs[i].master = fd
                                                /\ tabla_jobs[i].estado = "P"}
  <2>1. /\ tabla_jobs' = [i \in DOMAIN tabla_jobs |->
                            IF i \in mine THEN [tabla_jobs[i] EXCEPT !.estado = "E"]
                                          ELSE tabla_jobs[i]]
        /\ conectados' = conectados \ {fd}
    BY <1>7, Zenon DEF MasterDisconnected
  <2>2. ASSUME NEW i \in DOMAIN tabla_jobs
        PROVE  /\ tabla_jobs'[i].id = tabla_jobs[i].id
               /\ tabla_jobs'[i].master = tabla_jobs[i].master
               /\ tabla_jobs'[i].estado = "P" => /\ tabla_jobs[i].estado = "P"
                                                 /\ tabla_jobs[i].master # fd
    <3>1. tabla_jobs[i] \in Job
      BY DEF Tables
    <3> DEFINE j == [tabla_jobs[i] EXCEPT !.estado = "E"]
    <3>2. j.id = tabla_jobs[i].id /\ j.master = tabla_jobs[i].master /\ j.estado = "E"
      BY <3>1 DEF Job
    <3>3. tabla_jobs'[i] = IF i \in mine THEN j ELSE tabla_jobs[i]
      BY <2>1, Zenon
    <3> HIDE DEF j
    <3> QED
      BY <3>2, <3>3
  <2>3. DOMAIN tabla_jobs' = DOMAIN tabla_jobs
    BY <2>1
  <2>4. JobsKeep
    BY <2>2, <2>3 DEF JobsKeep
  <2>5. MastersStay
    BY <2>1, <2>2 DEF MastersStay
  <2> QED
    BY <2>4, <2>5
<1> QED
  BY <1>1, <1>2, <1>3, <1>4, <1>5, <1>6, <1>7, Zenon DEF Handles

LEMMA InitJobs == Init => JobsInv
<1> SUFFICES ASSUME Init PROVE JobsInv
  OBVIOUS
<1>1. tabla_jobs = <<>> /\ DOMAIN tabla_jobs = {}
  BY DEF Init, YamaInit
<1>2. \A fd \in FDs : ~Greeting(fd)
  BY DEF Init, SocketsInit, MasterInit, Greeting
<1> QED
  BY <1>1, <1>2 DEF JobsInv, OneActive, ActiveConnected, IdsApart, OneGreets, IdsBefore, ActiveJobs

LEMMA ConnectJobs ==
    ASSUME ~Overlapping, TypeInv, LinkInv, LifeInv, JobsInv, NEW fd \in FDs, MasterConnects(fd)
    PROVE  JobsInv'
<1>1. /\ fd \notin conectados /\ ~\E e \in conectados : Greeting(e)
      /\ jobs' = jobs + 1 /\ conectados' = conectados \cup {fd}
      /\ tabla_jobs' = tabla_jobs /\ pedidos' = pedidos
      /\ pc' = [pc EXCEPT ![fd] = "conectado"]
  BY Zenon DEF MasterConnects, AcceptMasterConnection, GoTo
<1>2. \A e \in FDs \ {fd} : Greeting(e)' <=> Greeting(e)
  <2>1. \A e \in FDs \ {fd} : pc'[e] = pc[e] /\ pedidos'[e] = pedidos[e]
    BY <1>1 DEF TypeInv, MasterOK
  <2> QED
    BY <2>1 DEF Greeting
<1>3. ASSUME NEW e \in FDs \ {fd} PROVE ~Greeting(e)
  <2>1. Link(e)
    BY DEF LinkInv
  <2>2. e \notin conectados => pc[e] = "off" /\ pedidos[e] = <<>>
    BY <2>1, Zenon DEF Link
  <2>3. e \notin conectados => ~Greeting(e)
    BY <2>2 DEF Greeting
  <2> QED
    BY <1>1, <2>3
<1>4. \A e \in FDs : Greeting(e)' => e = fd
  BY <1>2, <1>3
<1>5. OneGreets'
  BY <1>4 DEF OneGreets
<1>6. IdsBefore'
  <2>1. \A j \in DOMAIN tabla_jobs : tabla_jobs[j].id <= jobs /\ tabla_jobs[j].id \in Nat
    BY JobFields DEF LifeInv, IdsGiven, TypeInv
  <2>2. jobs \in Nat
    BY DEF TypeInv, Tables
  <2>3. \A j \in DOMAIN tabla_jobs : tabla_jobs[j].id < jobs + 1
    BY <2>1, <2>2
  <2> QED
    BY <1>1, <2>3 DEF IdsBefore
<1>7. OneActive' /\ IdsApart'
  BY <1>1 DEF JobsInv, OneActive, IdsApart, ActiveJobs
<1>8. ActiveConnected'
  <2>1. ASSUME NEW i \in ActiveJobs
        PROVE  tabla_jobs'[i].master \in conectados' /\ ~Greeting(tabla_jobs[i].master)'
    <3>1. tabla_jobs[i].master \in conectados
      BY DEF JobsInv, ActiveConnected
    <3>2. tabla_jobs[i].master \in FDs
      BY JobFields DEF ActiveJobs, TypeInv
    <3>3. PICK x \in FDs \ {fd} : x = tabla_jobs[i].master
      BY <1>1, <3>1, <3>2
    <3>4. ~Greeting(x)'
      BY <1>2, <1>3
    <3>5. x = tabla_jobs'[i].master
      BY <1>1, <3>3
    <3>6. ~Greeting(tabla_jobs[i].master)'
      BY <3>4, <3>5 DEF Greeting
    <3> QED
      BY <1>1, <3>1, <3>6
  <2>2. ActiveJobs' = ActiveJobs
    BY <1>1 DEF ActiveJobs
  <2> QED
    BY <2>1, <2>2, Zenon DEF ActiveConnected
<1> QED
  BY <1>5, <1>6, <1>7, <1>8 DEF JobsInv

LEMMA ServedJobs ==
    ASSUME ~FSFails, TypeInv, LinkInv, JobsInv, NEW fd \in FDs, Calm(fd),
           GetMasterMessage(fd), UNCHANGED masterVars
    PROVE  JobsInv' /\ Handles(fd, Head(pedidos[fd]).op)
<1> DEFINE op == Head(pedidos[fd]).op
<1>1. pedidos[fd] # <<>> /\ fd \in conectados
  BY YamaLinkShape
<1>2. op \in Stage \cup {"O", "FIN"}
  BY <1>1, CalmHead
<1>3. op \notin {"E", "RST"}
  BY <1>2 DEF Stage
<1>4. Handles(fd, op)
  BY <1>3, HandlerOf
<1>5. Tables /\ jobs' = jobs
  BY JobsKept DEF TypeInv
<1>6. NoNewGreeting /\ (op = "T" => Greeting(fd) /\ ~Greeting(fd)')
  BY YamaGreets
<1> HIDE DEF op
<1>7. \/ op = "T" /\ tabla_jobs' = Append(tabla_jobs, NewJob(fd)) /\ conectados' = conectados
      \/ JobsKeep /\ MastersStay
  BY <1>4, <1>5, HandlesJobs
<1>8. JobsInv'
  BY <1>1, <1>5, <1>6, <1>7, KeptJobs, NewJobKept
<1> QED
  BY <1>4, <1>8 DEF op

LEMMA WorksJobs ==
    ASSUME TypeInv, LinkInv, JobsInv, NEW fd \in FDs, MasterStep(fd), UNCHANGED yamaVars
    PROVE  JobsInv'
<1>1. tabla_jobs' = tabla_jobs /\ conectados' = conectados /\ jobs' = jobs /\ Tables
  BY DEF yamaVars, TypeInv
<1>2. NoNewGreeting
  BY MasterGreets
<1> QED
  BY <1>1, <1>2, SameJobsKeep, SameMastersStay, KeptJobs
LEMMA SameJobs ==
    ASSUME JobsInv, UNCHANGED <<tabla_jobs, conectados, jobs, pc, pedidos>>
    PROVE  JobsInv'
BY DEF JobsInv, OneActive, ActiveConnected, IdsApart, OneGreets, IdsBefore, ActiveJobs, Greeting
=============================================================================
